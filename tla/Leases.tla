------------------------------- MODULE Leases -------------------------------
(***************************************************************************)
(* What a connection pool promises its clients: it lends connections, each *)
(* to one borrower at a time, and never more than Limit of them at once.   *)
(***************************************************************************)
EXTENDS Naturals, FiniteSets

CONSTANTS Borrowers, Items, NoItem, Limit

VARIABLE lent   \* lent[t]: what borrower t has, NoItem if nothing

Out == {lent[t] : t \in Borrowers} \ {NoItem}

Init == lent = [t \in Borrowers |-> NoItem]

Lend(t, c) ==
  /\ lent[t] = NoItem
  /\ c \notin Out
  /\ Cardinality(Out) < Limit
  /\ lent' = [lent EXCEPT ![t] = c]

Return(t) ==
  /\ lent[t] # NoItem
  /\ lent' = [lent EXCEPT ![t] = NoItem]

Next == \E t \in Borrowers : Return(t) \/ \E c \in Items : Lend(t, c)

Spec == Init /\ [][Next]_lent

(* What follows: nothing has two borrowers, and the limit is kept.         *)
Exclusive ==
  /\ \A s, t \in Borrowers : lent[s] = lent[t] /\ lent[s] # NoItem => s = t
  /\ Cardinality(Out) <= Limit
=============================================================================
