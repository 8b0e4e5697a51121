--------------------------- MODULE NameServerList ---------------------------
(***************************************************************************)
(* The loop of HandleDNSConfigMessage that builds the comma separated name *)
(* server list in the stack buffer CHAR addrs[256], one state per          *)
(* iteration.  An address string is a sequence of one-character strings;   *)
(* RtlIpv4AddressToStringA / RtlIpv6AddressToStringA write it followed by  *)
(* a NUL at addrs + offset.  Buffer bytes never written hold Uninit.       *)
(* Writes past the buffer are not stored but collected in oob.             *)
(***************************************************************************)
EXTENDS Integers, Sequences

CONSTANTS
    AddrStrings,    \* the strings the conversion can produce, per family
    MaxAddrLen      \* largest addr_len a message may carry

NUL == "\\0"
Uninit == "?"

\* _countof(msg->addr): dns_cfg_message_t holds four addresses.
AddrCount == 4

AddrsSize == 256

VARIABLES
    addr,      \* msg->addr as strings: a function 1..AddrCount -> string
    addrLen,   \* the addr_len the loop runs to, after the sanity clamp
    i,         \* the loop index
    offset,    \* size_t offset
    addrs,     \* the buffer: 0..AddrsSize-1 -> character
    oob        \* indices written at or past AddrsSize

vars == <<addr, addrLen, i, offset, addrs, oob>>

\* Mutant: addr_len used as the client sent it.
ClampMissing(n) == n

\* The sanity check: addr_len larger than the array is cut to its size.
Clamp(n) == IF n > AddrCount THEN AddrCount ELSE n

\* Writing the characters of str at buffer position pos.
WriteAt(buf, pos, str) ==
    [k \in DOMAIN buf |->
        IF pos <= k /\ k < pos + Len(str) THEN str[k - pos + 1] ELSE buf[k]]

\* The positions of a write at pos of str that fall outside the buffer.
Overrun(pos, str) == {k \in pos .. pos + Len(str) - 1 : k >= AddrsSize}

\* strlen(addrs): the index of the first NUL.  The loop always leaves a NUL
\* in the buffer before it calls strlen, so no unwritten byte is read.
StrLen(buf) ==
    LET nuls == {k \in DOMAIN buf : buf[k] = NUL}
    IN IF nuls = {} THEN AddrsSize
       ELSE CHOOSE k \in nuls : \A j \in nuls : k <= j

\* The C string the buffer holds, as SetNameServers receives it.
CString(buf) == [k \in 1 .. StrLen(buf) |-> buf[k - 1]]

\* A message's addresses and addr_len; the loop only runs for addr_len > 0.
Init ==
    /\ \E f \in DOMAIN AddrStrings :
          addr \in [1 .. AddrCount -> AddrStrings[f]]
    /\ \E n \in 1 .. MaxAddrLen : addrLen = Clamp(n)
    /\ i = 0
    /\ offset = 0
    /\ addrs = [k \in 0 .. AddrsSize - 1 |-> Uninit]
    /\ oob = {}

\* One iteration of the for loop: a comma unless i = 0, the address string
\* with its NUL, then offset += strlen(addrs).
Iterate ==
    /\ i < addrLen
    /\ LET pos  == IF i # 0 THEN offset + 1 ELSE offset
           sep  == IF i # 0 THEN <<",">> ELSE <<>>
           str  == addr[i + 1] \o <<NUL>>
           buf  == WriteAt(WriteAt(addrs, offset, sep), pos, str)
       IN /\ addrs' = buf
          /\ oob' = oob \cup Overrun(offset, sep) \cup Overrun(pos, str)
          /\ offset' = pos + StrLen(buf)
    /\ i' = i + 1
    /\ UNCHANGED <<addr, addrLen>>

Done == i = addrLen

Next == Iterate

Spec == Init /\ [][Next]_vars /\ WF_vars(Iterate)

-----------------------------------------------------------------------------
(* Reference: the comma separated list of the first n addresses.          *)

RECURSIVE CommaJoin(_)
CommaJoin(seq) ==
    IF Len(seq) <= 1 THEN IF seq = <<>> THEN <<>> ELSE seq[1]
    ELSE seq[1] \o <<",">> \o CommaJoin(Tail(seq))

AddrSeq(n) == [k \in 1 .. n |-> addr[k]]

TypeOK ==
    /\ addrLen \in 1 .. AddrCount
    /\ i \in 0 .. addrLen
    /\ offset \in Nat
    /\ oob \subseteq Nat

JoinedList == Done => CString(addrs) = CommaJoin(AddrSeq(addrLen))

=============================================================================
