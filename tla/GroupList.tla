------------------------------ MODULE GroupList ------------------------------
(***************************************************************************)
(* swop_groups of extend.c on the doubly linked list of groups.  order is  *)
(* the list that the pointers have to spell: GroupOrder's Swap says where  *)
(* the two groups go, swop_groups which pointers it writes.                *)
(***************************************************************************)
EXTENDS GroupOrder

CONSTANT NULL

ASSUME NullAssumption == NULL \notin Nat

VARIABLES next,  \* desync_params.next
          prev,  \* desync_params.prev
          head   \* params.dp

listvars == <<ordervars, next, prev, head>>

\* add_group links every group behind the one before it.
ListInit ==
  /\ OrderInit
  /\ next = [g \in Groups |-> IF g = N - 1 THEN NULL ELSE g + 1]
  /\ prev = [g \in Groups |-> IF g = 0 THEN NULL ELSE g - 1]
  /\ head = 0

\* f with the pointer of p set to v; nothing when p is the null pointer.
Set(f, p, v) == IF p = NULL THEN f ELSE [f EXCEPT ![p] = v]

\* Mutant: neighbours are written as if the two were apart.
NotAdjacent(c, n) == FALSE

Adjacent(c, n) == next[c] = n

NewHead(c, n) == IF head = c THEN n ELSE head

\* The assignments to the pointers, in the order of the code: the two groups'
\* own, the outer neighbours', the inner neighbours' or each other's.
swop_groups(c, n) ==
  LET next1 == [next EXCEPT ![c] = next[n], ![n] = next[c]]
      prev1 == [prev EXCEPT ![c] = prev[n], ![n] = prev[c]]
      next2 == Set(next1, prev1[n], n)
      prev2 == Set(prev1, next2[c], c)
  IN /\ IF Adjacent(c, n)
        THEN /\ prev' = [prev2 EXCEPT ![c] = n]
             /\ next' = [next2 EXCEPT ![n] = c]
        ELSE /\ prev' = [prev2 EXCEPT ![next2[n]] = n]
             /\ next' = [next2 EXCEPT ![prev2[c]] = c]
     /\ head' = NewHead(c, n)

\* on_trigger calls it for a group and a later one.
ListNext ==
  \E i, j \in Groups : Swap(i, j) /\ swop_groups(order[i], order[j])

ListSpec == ListInit /\ [][ListNext]_listvars

-----------------------------------------------------------------------------
ListOK ==
  /\ OrderOK
  /\ next \in [Groups -> Groups \cup {NULL}]
  /\ prev \in [Groups -> Groups \cup {NULL}]
  /\ head \in Groups

\* The group at place i, and NULL off either end.
At(i) == IF i \in Groups THEN order[i] ELSE NULL

(***************************************************************************)
(* After any sequence of swops, of neighbours, of the ends or of groups    *)
(* far apart, params.dp and the next pointers still spell every group once *)
(* and in the intended order, and the prev pointers spell it backwards: no *)
(* group drops out of on_trigger's and find_dp's walks, and none is walked *)
(* forever.                                                                *)
(***************************************************************************)
ListSpellsOrder ==
  /\ head = order[0]
  /\ \A i \in Groups :
       /\ next[order[i]] = At(i + 1)
       /\ prev[order[i]] = IF i = 0 THEN NULL ELSE At(i - 1)
=============================================================================
