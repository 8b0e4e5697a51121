---------------------------- MODULE OptionsCheck ----------------------------
(***************************************************************************)
(* ValidateOptions of interactive.c and its use in RunOpenvpn: a client    *)
(* that is not an authorized user may start the engine only with options  *)
(* that pass CheckOption.  CheckOption and IsOption belong to validate.c, *)
(* which is not among the sources: IsOption tells the words that start    *)
(* with "--" (OptWords), and CheckOption is a policy, any set of the items *)
(* it can look at: an option, with the word after it when there is one.   *)
(* The options string is abstracted to the words CommandLineToArgvW makes *)
(* of it; the texts of the error messages to which of them is written.    *)
(***************************************************************************)
EXTENDS Integers, Sequences

CONSTANTS
    Words,      \* words of an options string
    OptWords,   \* the words IsOption accepts
    ConfigOpt,  \* L"--config"
    ExePath,    \* the path of the service executable
    Null,       \* CommandLineToArgvW returned NULL
    MaxArgs,    \* longest options string, in words
    MayFail     \* whether CommandLineToArgvW may fail

ASSUME ConfigOpt \in OptWords /\ OptWords \subseteq Words /\ ExePath \notin Words

IsOption(w) == w \in OptWords

(***************************************************************************)
(* CommandLineToArgvW: the words of the string, or NULL.  For an empty    *)
(* string it returns the path of the executable, so argc is never 0.      *)
(***************************************************************************)
CommandLineToArgvW(opts) ==
    {IF opts = <<>> THEN <<ExePath>> ELSE opts} \cup (IF MayFail THEN {Null} ELSE {})

\* What CheckOption(workdir, argc, argv) looks at.
CheckItem(argc, argv) == IF argc > 1 THEN <<argv[1], argv[2]>> ELSE <<argv[1]>>

CheckOption(policy, argc, argv) == CheckItem(argc, argv) \in policy

Suffix(argv, n) == SubSeq(argv, n, Len(argv))

Result(ret, errmsg) == [ret |-> ret, errmsg |-> errmsg]

RECURSIVE CheckArgs(_, _, _)

\* Mutant: the loop stops before the last word (i < argc - 1).
CheckArgsSkipLast(argv, policy, n) ==
    IF n >= Len(argv) THEN Result(TRUE, "")
    ELSE LET argc == Len(argv) - n + 1 IN
         CASE ~IsOption(argv[n]) -> CheckArgs(argv, policy, n + 1)
           [] IsOption(argv[n]) /\ CheckOption(policy, argc, Suffix(argv, n))
                 -> CheckArgs(argv, policy, n + 1)
           [] OTHER -> Result(FALSE, "msg2")

(***************************************************************************)
(* The loop over argv from index n: words that are not options are        *)
(* skipped; the first option CheckOption refuses ends it with msg1 when   *)
(* it is --config with an argument, msg2 otherwise.                       *)
(***************************************************************************)
CheckArgs(argv, policy, n) ==
    IF n > Len(argv) THEN Result(TRUE, "")
    ELSE LET argc == Len(argv) - n + 1 IN
         CASE ~IsOption(argv[n]) -> CheckArgs(argv, policy, n + 1)
           [] IsOption(argv[n]) /\ CheckOption(policy, argc, Suffix(argv, n))
                 -> CheckArgs(argv, policy, n + 1)
           [] OTHER -> Result(FALSE, IF argv[n] = ConfigOpt /\ argc > 1
                                     THEN "msg1" ELSE "msg2")

(***************************************************************************)
(* ValidateOptions: ret and which message errmsg holds ("" when none).    *)
(* A single word is checked as the argument of --config, and then the     *)
(* function goes to out with ret still FALSE, whatever CheckOption says.  *)
(***************************************************************************)
ValidateOptions(argv, policy) ==
    CASE argv = Null -> Result(FALSE, "argv")
      [] argv # Null /\ Len(argv) = 1 ->
            Result(FALSE, IF CheckOption(policy, 2, <<ConfigOpt, argv[1]>>)
                          THEN "" ELSE "msg1")
      [] OTHER -> CheckArgs(argv, policy, 1)

\* RunOpenvpn goes on to create the engine unless the options are not
\* valid and the user is not authorized (IsAuthorizedUser).
StartAllowed(argv, policy, authorized) ==
    ValidateOptions(argv, policy).ret \/ authorized

-----------------------------------------------------------------------------
(* Reference: what the engine acts on.  openvpn takes a single word that  *)
(* is not an option as its config file; otherwise each option, with the  *)
(* words after it as its parameters.                                       *)

EngineItems(argv) ==
    IF Len(argv) = 1 /\ ~IsOption(argv[1]) THEN {<<ConfigOpt, argv[1]>>}
    ELSE {CheckItem(Len(argv) - k + 1, Suffix(argv, k)) :
            k \in {j \in DOMAIN argv : IsOption(argv[j])}}

\* Every policy CheckOption can be: sets of items of the words.
Policies ==
    SUBSET ({<<o>> : o \in OptWords} \cup {<<o, w>> : o \in OptWords, w \in Words})

OptionStrings == UNION {[1 .. n -> Words] : n \in 0 .. MaxArgs}

(***************************************************************************)
(* Whatever the policy and the options string, RunOpenvpn starts an       *)
(* engine for a client that is not authorized only when everything the   *)
(* engine will act on, the lone config file included, passed CheckOption. *)
(***************************************************************************)
OptionsSoundAll ==
    \A opts \in OptionStrings, policy \in Policies, authorized \in BOOLEAN :
        \A argv \in CommandLineToArgvW(opts) :
            StartAllowed(argv, policy, authorized) =>
                \/ authorized
                \/ argv # Null /\ EngineItems(argv) \subseteq policy

=============================================================================
