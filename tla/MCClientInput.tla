--------------------------- MODULE MCClientInput ----------------------------
(***************************************************************************)
(* The two parsers of data a client writes that work on fixed buffers:     *)
(* GetStartupData on the startup message and the name server loop of       *)
(* HandleDNSConfigMessage.  They share no state; TLC explores them side by *)
(* side, each step being a step of one of them.  ValidateOptions, which    *)
(* judges the options string of the startup message, is a function of it  *)
(* and the policy; its property is checked over all of them at once.      *)
(***************************************************************************)
EXTENDS MCNameServerList, OptionsCheck

CONSTANTS MaxChars, SizeBits

VARIABLES msg, odd, pc, bytes, size, data, dirAt, optAt, inAt, len, reads

sdVars == <<msg, odd, pc, bytes, size, data, dirAt, optAt, inAt, len, reads>>

SD == INSTANCE StartupData

ClientInit == Init /\ SD!Init

ClientNext ==
    \/ Next /\ UNCHANGED sdVars
    \/ SD!Next /\ UNCHANGED vars

ClientSpec ==
    /\ ClientInit /\ [][ClientNext]_<<vars, sdVars>>
    /\ WF_<<vars, sdVars>>(Next /\ UNCHANGED sdVars)
    /\ WF_<<vars, sdVars>>(SD!Next /\ UNCHANGED vars)

\* GetStartupData never reads outside the buffer it allocated.
StartupInBounds == SD!StartupInBounds

\* GetStartupData accepts exactly the well-formed startup messages and
\* splits them into their first three strings.
StartupSplit == SD!StartupSplit

\* Once GetStartupData has returned the strings, RunOpenvpn may start an
\* engine for a client that is not authorized only with options all of
\* whose items passed CheckOption, whatever the options string and the
\* policy (OptionsSoundAll, a constant TLC computes once).
OptionsSound == pc = "ok" => OptionsSoundAll


=============================================================================
