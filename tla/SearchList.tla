----------------------------- MODULE SearchList -----------------------------
(***************************************************************************)
(* The string operations interactive.c performs on the registry value     *)
(* "SearchList", a comma separated list of DNS suffixes.  A registry       *)
(* string is a sequence of characters (single-character strings); the      *)
(* domains the engine sends are ASCII, so utf8to16 keeps every character.  *)
(* The operators are pure: DnsConfig applies them to the registry state.   *)
(***************************************************************************)
EXTENDS Naturals, Sequences, SequencesExt

\* Characters HasValidSearchList accepts: isalnum(), '-' and '.'.
DomainChars == {"a", "b", "c", "x", "y", "z", "-", "."}

\* The terminating NUL of a wide string, and the content of the buffer
\* bytes after it (list[2048] in RemoveDnsSearchDomains is not initialised).
NUL == "\\0"
Garbage == "?"

Comma == <<",">>

(***************************************************************************)
(* HasValidSearchList: the value exists and contains at least one domain   *)
(* name character.  The code reads at most 63 characters; every list the   *)
(* models build is shorter than that.                                      *)
(***************************************************************************)
HasValidSearchList(v, NoValue) ==
    /\ v # NoValue
    /\ \E i \in DOMAIN v : v[i] \in DomainChars

(***************************************************************************)
(* AddDnsSearchDomains, the part that builds the new string: appending to  *)
(* an existing list "<list>,<domains>", or the domains alone.  The length  *)
(* check listlen + domlen + 2 > _countof(list) is Fits.                    *)
(***************************************************************************)
Fits(list, domains, Capacity) == Len(list) + Len(domains) + 2 <= Capacity

Appended(list, domains) == list \o Comma \o domains

(***************************************************************************)
(* wcsstr(list, domains): 1-based index of the first occurrence, 0 if none *)
(***************************************************************************)
WcsStr(list, domains) ==
    IF domains \in SubSeqs(list) THEN IndexFirstSubSeq(domains, list) ELSE 0

(***************************************************************************)
(* The character at 1-based position k of the buffer holding list: the     *)
(* string, its NUL, then uninitialised buffer content.                     *)
(***************************************************************************)
BufAt(list, k) ==
    IF k <= Len(list) THEN list[k]
    ELSE IF k = Len(list) + 1 THEN NUL ELSE Garbage

\* Mutant: the comma before the occurrence is left in the list.
CutDomainsKeepComma(list, i, domlen) ==
    LET buf == [k \in 1..Len(list) + 1 |->
                   IF i <= k /\ k < i + domlen
                   THEN BufAt(list, i + domlen + (k - i))
                   ELSE BufAt(list, k)]
    IN SubSeq(buf, 1, SelectInSeq(buf, LAMBDA c : c = NUL) - 1)

(***************************************************************************)
(* RemoveDnsSearchDomains, the splice, for an occurrence found at index i: *)
(*     src = dst + domlen;                                                 *)
(*     dst = dst > list ? dst - 1 : dst;                                   *)
(*     wmemmove(dst, src, domlen);                                         *)
(* and the resulting string is everything before the first NUL.  The copy  *)
(* moves exactly domlen characters, whatever the length of the tail.       *)
(***************************************************************************)
CutDomains(list, i, domlen) ==
    LET src == i + domlen
        dst == IF i > 1 THEN i - 1 ELSE i
        buf == [k \in 1..Len(list) + 1 |->
                   IF dst <= k /\ k < dst + domlen
                   THEN BufAt(list, src + (k - dst))
                   ELSE BufAt(list, k)]
        end == SelectInSeq(buf, LAMBDA c : c = NUL)
    IN SubSeq(buf, 1, end - 1)

=============================================================================
