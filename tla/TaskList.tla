------------------------------ MODULE TaskList -------------------------------
(***************************************************************************)
(* list.c as its callers see it: a list is the sequence of its elements,   *)
(* head first.                                                             *)
(***************************************************************************)
EXTENDS Naturals, Sequences, Functions

ListPush(list, e) == <<e>> \o list
ListAppend(list, e) == Append(list, e)

\* list_find followed by list_remove, as thread.c and process.c call them.
ListDrop(list, e) ==
    IF e \in Range(list)
    THEN LET i == CHOOSE i \in DOMAIN list : list[i] = e
         IN  SubSeq(list, 1, i - 1) \o SubSeq(list, i + 1, Len(list))
    ELSE list

\* No element is linked twice: what keeps prev and next consistent.
ListDistinct(list) == IsInjective(list)
=============================================================================
