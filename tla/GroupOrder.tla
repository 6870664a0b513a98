----------------------------- MODULE GroupOrder -----------------------------
(***************************************************************************)
(* The desync groups as users of params.dp see them: a sequence that only  *)
(* changes by a group trading places with a later one (--auto-mode sort).  *)
(* The place, and not the group, owns the trigger set and the mode flags:  *)
(* the two groups trade those as well.                                     *)
(***************************************************************************)
EXTENDS Naturals

CONSTANTS N,       \* params.dp_n
          Detects, \* the sets of triggers --auto may give a group
          Levels   \* the sets of AUTO_* flags --auto-mode may give it

ASSUME OrderAssumption == N \in Nat \ {0}

VARIABLES order,      \* the list from params.dp on: place -> group
          detect,     \* desync_params.detect
          auto_level  \* desync_params.auto_level

ordervars == <<order, detect, auto_level>>

Groups == 0..(N - 1)

OrderOK ==
  /\ order \in [Groups -> Groups]
  /\ detect \in [Groups -> Detects]
  /\ auto_level \in [Groups -> Levels]
  /\ \A i, j \in Groups : order[i] = order[j] => i = j

\* parse_args: the groups in the order of their options, the first one with
\* nothing to wait for.
OrderInit ==
  /\ order = [i \in Groups |-> i]
  /\ detect \in {d \in [Groups -> Detects] : d[0] = {}}
  /\ auto_level \in [Groups -> Levels]

\* Mutant: only one of the two is changed.
Overwrite(f, x, y) == [f EXCEPT ![x] = f[y]]

\* The function f with its values at x and y exchanged.
Exchange(f, x, y) == [f EXCEPT ![x] = f[y], ![y] = f[x]]

\* The groups at places i and j trade places.
Trade(i, j) ==
  /\ order' = Exchange(order, i, j)
  /\ detect' = Exchange(detect, order[i], order[j])
  /\ auto_level' = Exchange(auto_level, order[i], order[j])

Swap(i, j) == i < j /\ Trade(i, j)

OrderNext == \E i, j \in Groups : Swap(i, j)

OrderSpec == OrderInit /\ [][OrderNext]_ordervars
=============================================================================
