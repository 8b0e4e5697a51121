----------------------------- MODULE UndoLists ------------------------------
(***************************************************************************)
(* The per-session undo lists of interactive.c: undo_lists_t, an array of  *)
(* singly linked lists indexed by undo_type_t.  A list is a sequence whose *)
(* head is the most recently added item.                                   *)
(***************************************************************************)
EXTENDS Sequences, SequencesExt

\* undo_type_t, in the order Undo() walks them.
UndoOrder == <<"address", "route", "wfp_block", "undo_dns4", "undo_dns6",
               "undo_domains", "undo_ring_buffer", "undo_wins">>

UndoKinds == {UndoOrder[i] : i \in DOMAIN UndoOrder}

EmptyLists == [k \in UndoKinds |-> <<>>]

\* AddListItem: the new item becomes the head of the list.
AddListItem(list, item) == <<item>> \o list

\* The match functions RemoveListItem is called with: CmpAny accepts every
\* item; CmpAddress, CmpRoute and CmpWString compare the item with ctx.
CmpAny == "CmpAny"
CmpEqual == "CmpEqual"

Matches(match, item, ctx) == match = CmpAny \/ item = ctx

\* The index of the first item match accepts, 0 when none does.
FirstMatch(list, match, ctx) ==
    SelectInSeq(list, LAMBDA item : Matches(match, item, ctx))

\* RemoveListItem: unlink the first item the match function accepts; the
\* list is unchanged when none does.
RemoveListItem(list, match, ctx) ==
    LET i == FirstMatch(list, match, ctx) IN
    IF i = 0 THEN list ELSE RemoveAt(list, i)

\* The data RemoveListItem returns, as a set: {} for NULL.
RemovedItem(list, match, ctx) ==
    LET i == FirstMatch(list, match, ctx) IN
    IF i = 0 THEN {} ELSE {list[i]}

=============================================================================
