---------------------------- MODULE StartupData -----------------------------
(***************************************************************************)
(* GetStartupData of interactive.c: the first message a client writes on   *)
(* the service pipe holds three NUL terminated wide strings, the working  *)
(* directory, the openvpn options and the text for the engine's standard   *)
(* input.  The function peeks at the message size, reads the message into *)
(* a malloc'd WCHAR buffer and splits it with wcslen, rejecting messages   *)
(* that end before the third string.  One state per block of the code.    *)
(*                                                                         *)
(* A WCHAR is 0 (L'\0') or 1 (any other character).  The pipe is in       *)
(* message mode, so a read of the peeked size returns the whole message   *)
(* or, on timeout or failure, nothing.  size is a size_t: it is kept       *)
(* modulo 2^SizeBits.                                                      *)
(***************************************************************************)
EXTENDS Integers, SequencesExt

CONSTANTS
    MaxChars,   \* longest message a client writes, in WCHARs
    SizeBits,   \* width of size_t
    MayFail     \* whether malloc, the peek and the read may fail

SizeMod == 2^SizeBits

\* size -= len on a size_t.
USub(a, b) == (a - b) % SizeMod

VARIABLES
    msg,        \* the WCHARs the client wrote
    odd,        \* whether the message has a trailing odd byte
    pc,         \* the block of GetStartupData about to run
    bytes,      \* DWORD bytes: the peeked message size
    size,       \* size_t size: WCHARs left to split
    data,       \* the buffer: 0 .. bytes/2 - 1 -> WCHAR, once read
    dirAt,      \* sud->directory, as an index into data
    optAt,      \* sud->options
    inAt,       \* sud->std_input
    len,        \* size_t len of the last wcslen
    reads       \* indices of data wcslen has read

vars == <<msg, odd, pc, bytes, size, data, dirAt, optAt, inAt, len, reads>>

\* The bytes the client wrote.
MsgBytes == 2 * Len(msg) + (IF odd THEN 1 ELSE 0)

\* wcslen(data + at) + 1 and the indices it reads: up to the first NUL at
\* or after at, or up to the end of the buffer when there is none (then it
\* reads past the buffer, and the first index past it is in the set).
WcsLen(buf, at) ==
    LET nuls == {k \in DOMAIN buf : k >= at /\ buf[k] = 0}
        end  == IF nuls = {} THEN bytes \div 2 ELSE Min(nuls)
    IN [len |-> end - at + 1, reads |-> at .. end]

Init ==
    /\ msg \in BoundedSeq({0, 1}, MaxChars)
    /\ odd \in BOOLEAN
    /\ pc = "peek"
    /\ bytes = 0 /\ size = 0 /\ data = <<>>
    /\ dirAt = -1 /\ optAt = -1 /\ inAt = -1 /\ len = 0
    /\ reads = {}

Goto(l) == pc' = l

(***************************************************************************)
(* AsyncPipeOp: the byte count of the peek, read or write, or 0 when the   *)
(* event or handle array cannot be made, the operation fails, or the wait *)
(* ends on another event or the timeout.                                   *)
(***************************************************************************)
AsyncPipeOp(n) == {n} \cup (IF MayFail THEN {0} ELSE {})

\* PeekNamedPipeAsync: the size of the message, or 0 when the wait fails.
Peek ==
    /\ pc = "peek"
    /\ \E b \in AsyncPipeOp(MsgBytes) :
          /\ bytes' = b
          /\ Goto(IF b = 0 THEN "err" ELSE "size")
    /\ UNCHANGED <<msg, odd, size, data, dirAt, optAt, inAt, len, reads>>

\* size = bytes / sizeof(*data): a message of one byte is malformed.
SizeCheck ==
    /\ pc = "size"
    /\ size' = bytes \div 2
    /\ Goto(IF bytes \div 2 = 0 THEN "err" ELSE "malloc")
    /\ UNCHANGED <<msg, odd, bytes, data, dirAt, optAt, inAt, len, reads>>

\* data = malloc(bytes)
Malloc ==
    /\ pc = "malloc"
    /\ \E ok \in IF MayFail THEN BOOLEAN ELSE {TRUE} :
          Goto(IF ok THEN "read" ELSE "err")
    /\ UNCHANGED <<msg, odd, bytes, size, data, dirAt, optAt, inAt, len, reads>>

\* ReadPipeAsync of bytes; a read of another size ends here.
Read ==
    /\ pc = "read"
    /\ \E read \in AsyncPipeOp(bytes) :
          IF bytes # read THEN Goto("err") /\ UNCHANGED data
          ELSE /\ data' = [k \in 0 .. size - 1 |-> msg[k + 1]]
               /\ Goto("nul")
    /\ UNCHANGED <<msg, odd, bytes, size, dirAt, optAt, inAt, len, reads>>

\* Mutant: the terminating NUL is not checked.
NulCheckMissing ==
    /\ pc = "nul"
    /\ Goto("dir")
    /\ UNCHANGED <<msg, odd, bytes, size, data, dirAt, optAt, inAt, len, reads>>

\* data[size - 1] != 0: not NUL terminated.
NulCheck ==
    /\ pc = "nul"
    /\ Goto(IF data[size - 1] # 0 THEN "err" ELSE "dir")
    /\ UNCHANGED <<msg, odd, bytes, size, data, dirAt, optAt, inAt, len, reads>>

\* sud->directory = data; size -= wcslen + 1; size <= 0 ends here.
SplitDirectory ==
    /\ pc = "dir"
    /\ LET w == WcsLen(data, 0) IN
       /\ dirAt' = 0 /\ len' = w.len
       /\ size' = USub(size, w.len)
       /\ reads' = reads \cup w.reads
       /\ Goto(IF USub(size, w.len) <= 0 THEN "err" ELSE "opts")
    /\ UNCHANGED <<msg, odd, bytes, data, optAt, inAt>>

\* Mutant: size < 0, which a size_t never is.
SplitOptionsLess ==
    /\ pc = "opts"
    /\ LET at == dirAt + len
           w  == WcsLen(data, at)
       IN /\ optAt' = at /\ len' = w.len
          /\ size' = USub(size, w.len)
          /\ reads' = reads \cup w.reads
          /\ IF USub(size, w.len) < 0
             THEN Goto("err") /\ UNCHANGED inAt
             ELSE Goto("ok") /\ inAt' = at + w.len
    /\ UNCHANGED <<msg, odd, bytes, data, dirAt>>

\* sud->options after the directory; size -= wcslen + 1; size <= 0 ends
\* here; otherwise sud->std_input follows the options.
SplitOptions ==
    /\ pc = "opts"
    /\ LET at == dirAt + len
           w  == WcsLen(data, at)
       IN /\ optAt' = at /\ len' = w.len
          /\ size' = USub(size, w.len)
          /\ reads' = reads \cup w.reads
          /\ IF USub(size, w.len) <= 0
             THEN Goto("err") /\ UNCHANGED inAt
             ELSE Goto("ok") /\ inAt' = at + w.len
    /\ UNCHANGED <<msg, odd, bytes, data, dirAt>>

Next ==
    \/ Peek \/ SizeCheck \/ Malloc \/ Read \/ NulCheck
    \/ SplitDirectory \/ SplitOptions

Spec == Init /\ [][Next]_vars /\ WF_vars(Next)

-----------------------------------------------------------------------------
(* Reference: the NUL terminated strings of a message.                    *)

RECURSIVE NulSplit(_)
NulSplit(w) ==
    IF \A k \in DOMAIN w : w[k] # 0 THEN <<>>
    ELSE LET i == SelectInSeq(w, LAMBDA c : c = 0)
         IN <<SubSeq(w, 1, i - 1)>> \o NulSplit(SubSeq(w, i + 1, Len(w)))

\* A message that ends in NUL and holds three strings.
WellFormed(w) == w # <<>> /\ Last(w) = 0 /\ Len(NulSplit(w)) >= 3

\* The wide string at index at of data, without its NUL.
WString(at) == [k \in 1 .. WcsLen(data, at).len - 1 |-> data[at + k - 1]]

TypeOK ==
    /\ pc \in {"peek", "size", "malloc", "read", "nul", "dir", "opts", "ok", "err"}
    /\ bytes \in 0 .. 2 * MaxChars + 1
    /\ size \in 0 .. SizeMod - 1
    /\ reads \subseteq Nat

(***************************************************************************)
(* wcslen never reads outside the buffer, whatever the client writes: the  *)
(* check of data[size - 1] guarantees a NUL before its end.                *)
(***************************************************************************)
StartupInBounds == reads \subseteq 0 .. bytes \div 2 - 1

(***************************************************************************)
(* Once a message was read whole, GetStartupData accepts it exactly when   *)
(* it ends in NUL and holds three strings, and then directory, options    *)
(* and std_input are the first three of them: RunOpenvpn never gets an    *)
(* std_input pointer past the message.                                     *)
(***************************************************************************)
StartupSplit ==
    pc \in {"ok", "err"} /\ data # <<>> =>
        /\ (pc = "ok") = WellFormed(msg)
        /\ pc = "ok" =>
              <<WString(dirAt), WString(optAt), WString(inAt)>>
                  = SubSeq(NulSplit(msg), 1, 3)

=============================================================================
