--------------------------- MODULE AutoGroupsProofs ---------------------------
(***************************************************************************)
(* What holds of the groups for any number of groups, clients and          *)
(* addresses.  Of the list: swop_groups keeps it whole.  ListOK and        *)
(* ListSpellsOrder together are inductive: what the pointers of the two    *)
(* groups' neighbours are follows from the order they spell.  Of the       *)
(* automatic choice: the list stays whole under on_trigger's swops, a      *)
(* session's group is one it may use, no reconnect goes back, and when the *)
(* cache can be relied on.                                                 *)
(***************************************************************************)
EXTENDS AutoGroups, TLAPS

-----------------------------------------------------------------------------
(* swop_groups                                                             *)

Inv == ListOK /\ ListSpellsOrder

\* The list add_group builds spells the groups in the order of the options.
LEMMA InitInv == ListInit => Inv
BY OrderAssumption, NullAssumption, SMT
   DEF ListInit, OrderInit, Inv, ListOK, OrderOK, ListSpellsOrder, At, Groups

Pointer == Groups \cup {NULL}

\* Two values of a function replaced.
LEMMA ExceptTwo ==
  ASSUME NEW S, NEW T, NEW f \in [S -> T], NEW a \in S, NEW b \in S, a # b,
         NEW x \in T, NEW y \in T, NEW h, h = [f EXCEPT ![a] = x, ![b] = y]
  PROVE  /\ h \in [S -> T] /\ h[a] = x /\ h[b] = y
         /\ \A g \in S : g # a /\ g # b => h[g] = f[g]
OBVIOUS

\* A null pointer is no group.
LEMMA NullNoGroup == NULL \notin Groups
BY NullAssumption DEF Groups

\* The groups at places i < j have traded places in order.
LEMMA OrderAfter ==
  ASSUME OrderOK, NEW i \in Groups, NEW j \in Groups, Swap(i, j)
  PROVE  /\ OrderOK'
         /\ order'[i] = order[j] /\ order'[j] = order[i]
         /\ \A k \in Groups : k # i /\ k # j => order'[k] = order[k]
<1>1. i # j /\ order[i] \in Groups /\ order[j] \in Groups /\ order[i] # order[j]
  BY OrderAssumption DEF Swap, OrderOK, Groups
<1>2. /\ order' \in [Groups -> Groups]
      /\ order'[i] = order[j] /\ order'[j] = order[i]
      /\ \A k \in Groups : k # i /\ k # j => order'[k] = order[k]
  BY <1>1, ExceptTwo DEF Swap, Trade, Exchange, OrderOK
<1>3. detect' \in [Groups -> Detects]
  BY <1>1, ExceptTwo DEF Swap, Trade, Exchange, OrderOK
<1>4. auto_level' \in [Groups -> Levels]
  BY <1>1, ExceptTwo DEF Swap, Trade, Exchange, OrderOK
<1>5. ASSUME NEW k \in Groups, NEW m \in Groups, order'[k] = order'[m]
      PROVE  k = m
  BY <1>1, <1>2, <1>5 DEF OrderOK
<1> QED
  BY <1>2, <1>3, <1>4, <1>5 DEF OrderOK

\* The pointers after swop_groups(a, b) in terms of those before, when b comes
\* right after a.
LEMMA PointersAdjacent ==
  ASSUME ListOK, NEW a \in Groups, NEW b \in Groups, a # b, swop_groups(a, b),
         next[a] = b, prev[b] = a, prev[a] \notin {a, b}, next[b] \notin {a, b}
  PROVE  /\ next' \in [Groups -> Pointer] /\ prev' \in [Groups -> Pointer]
         /\ next'[a] = next[b] /\ next'[b] = a
         /\ prev'[a] = b /\ prev'[b] = prev[a]
         /\ \A g \in Groups \ {a, b} :
              /\ next'[g] = IF g = prev[a] THEN b ELSE next[g]
              /\ prev'[g] = IF g = next[b] THEN a ELSE prev[g]
<1> DEFINE next1 == [next EXCEPT ![a] = next[b], ![b] = next[a]]
           prev1 == [prev EXCEPT ![a] = prev[b], ![b] = prev[a]]
           next2 == Set(next1, prev1[b], b)
           prev2 == Set(prev1, next2[a], a)
<1>0. next \in [Groups -> Pointer] /\ prev \in [Groups -> Pointer]
  BY DEF ListOK, Pointer
<1>1. prev' = [prev2 EXCEPT ![a] = b] /\ next' = [next2 EXCEPT ![b] = a]
  BY DEF swop_groups, Adjacent
<1>2. /\ next1 \in [Groups -> Pointer] /\ next1[a] = next[b] /\ next1[b] = b
      /\ \A g \in Groups : g # a /\ g # b => next1[g] = next[g]
  BY <1>0, ExceptTwo
<1>3. /\ prev1 \in [Groups -> Pointer] /\ prev1[a] = a /\ prev1[b] = prev[a]
      /\ \A g \in Groups : g # a /\ g # b => prev1[g] = prev[g]
  BY <1>0, ExceptTwo
<1> HIDE DEF next1, prev1
<1>4. /\ next2 \in [Groups -> Pointer]
      /\ \A g \in Groups : next2[g] = IF g = prev[a] THEN b ELSE next1[g]
  <2>1. next2 = Set(next1, prev[a], b) /\ prev[a] \in Pointer
    BY <1>0, <1>3
  <2> HIDE DEF next2
  <2> QED
    BY <1>2, <2>1, NullNoGroup DEF Set, Pointer
<1> HIDE DEF next2
<1>5. next2[a] = next[b]
  BY <1>2, <1>4
<1>6. /\ prev2 \in [Groups -> Pointer]
      /\ \A g \in Groups : prev2[g] = IF g = next[b] THEN a ELSE prev1[g]
  <2>1. prev2 = Set(prev1, next[b], a) /\ next[b] \in Pointer
    BY <1>0, <1>5
  <2> HIDE DEF prev2
  <2> QED
    BY <1>3, <2>1, NullNoGroup DEF Set, Pointer
<1> HIDE DEF prev2
<1> QED
  BY <1>0, <1>1, <1>2, <1>3, <1>4, <1>6 DEF Pointer

\* The same when there are groups in between.
LEMMA PointersApart ==
  ASSUME ListOK, NEW a \in Groups, NEW b \in Groups, a # b, swop_groups(a, b),
         next[a] \in Groups \ {a, b}, prev[b] \in Groups \ {a, b},
         prev[a] \notin {a, b, next[a], prev[b]}, next[b] \notin {a, b, next[a], prev[b]}
  PROVE  /\ next' \in [Groups -> Pointer] /\ prev' \in [Groups -> Pointer]
         /\ next'[a] = next[b] /\ next'[b] = next[a]
         /\ prev'[a] = prev[b] /\ prev'[b] = prev[a]
         /\ \A g \in Groups \ {a, b} :
              /\ next'[g] = IF g = prev[b] THEN a ELSE IF g = prev[a] THEN b ELSE next[g]
              /\ prev'[g] = IF g = next[a] THEN b ELSE IF g = next[b] THEN a ELSE prev[g]
<1> DEFINE next1 == [next EXCEPT ![a] = next[b], ![b] = next[a]]
           prev1 == [prev EXCEPT ![a] = prev[b], ![b] = prev[a]]
           next2 == Set(next1, prev1[b], b)
           prev2 == Set(prev1, next2[a], a)
<1>0. next \in [Groups -> Pointer] /\ prev \in [Groups -> Pointer]
  BY DEF ListOK, Pointer
<1>1. /\ prev' = [prev2 EXCEPT ![next2[b]] = b]
      /\ next' = [next2 EXCEPT ![prev2[a]] = a]
  BY DEF swop_groups, Adjacent
<1>2. /\ next1 \in [Groups -> Pointer] /\ next1[a] = next[b] /\ next1[b] = next[a]
      /\ \A g \in Groups : g # a /\ g # b => next1[g] = next[g]
  BY <1>0, ExceptTwo
<1>3. /\ prev1 \in [Groups -> Pointer] /\ prev1[a] = prev[b] /\ prev1[b] = prev[a]
      /\ \A g \in Groups : g # a /\ g # b => prev1[g] = prev[g]
  BY <1>0, ExceptTwo
<1> HIDE DEF next1, prev1
<1>4. /\ next2 \in [Groups -> Pointer]
      /\ \A g \in Groups : next2[g] = IF g = prev[a] THEN b ELSE next1[g]
  <2>1. next2 = Set(next1, prev[a], b) /\ prev[a] \in Pointer
    BY <1>0, <1>3
  <2> HIDE DEF next2
  <2> QED
    BY <1>2, <2>1, NullNoGroup DEF Set, Pointer
<1> HIDE DEF next2
<1>5. next2[a] = next[b] /\ next2[b] = next[a]
  BY <1>2, <1>4
<1>6. /\ prev2 \in [Groups -> Pointer]
      /\ \A g \in Groups : prev2[g] = IF g = next[b] THEN a ELSE prev1[g]
  <2>1. prev2 = Set(prev1, next[b], a) /\ next[b] \in Pointer
    BY <1>0, <1>5
  <2> HIDE DEF prev2
  <2> QED
    BY <1>3, <2>1, NullNoGroup DEF Set, Pointer
<1> HIDE DEF prev2
<1>7. prev2[a] = prev[b]
  BY <1>3, <1>6
<1> QED
  BY <1>0, <1>1, <1>2, <1>3, <1>4, <1>5, <1>6, <1>7 DEF Pointer

\* One call of swop_groups: the pointers spell the order with i and j traded.
LEMMA SwapKeepsInv ==
  ASSUME Inv, NEW i \in Groups, NEW j \in Groups,
         Swap(i, j), swop_groups(order[i], order[j])
  PROVE  Inv'
<1> DEFINE a == order[i]
           b == order[j]
<1>0. N \in Nat /\ i \in 0..(N - 1) /\ j \in 0..(N - 1) /\ i < j
  BY OrderAssumption DEF Swap, Groups
<1>1. /\ order \in [Groups -> Groups]
      /\ \A k, m \in Groups : order[k] = order[m] => k = m
      /\ a \in Groups /\ b \in Groups /\ a # b
  BY <1>0 DEF Inv, ListOK, OrderOK
<1>2. /\ OrderOK'
      /\ order'[i] = b /\ order'[j] = a
      /\ \A k \in Groups : k # i /\ k # j => order'[k] = order[k]
  BY OrderAfter DEF Inv, ListOK
<1>3. head' \in Groups /\ head' = order'[0]
  <2>1. 0 \in Groups /\ head = order[0] /\ head' = IF head = a THEN b ELSE head
    BY <1>0 DEF Inv, ListSpellsOrder, swop_groups, NewHead, Groups
  <2>2. j # 0
    BY <1>0
  <2> QED
    BY <1>1, <1>2, <2>1, <2>2
<1>4. NULL \notin Groups
  BY NullAssumption DEF Groups
<1>5. /\ \A k \in Groups : k + 1 \in Groups \/ k + 1 = N
      /\ \A k \in Groups : k # 0 => k - 1 \in Groups
      /\ N \notin Groups
  BY <1>0 DEF Groups
<1>6. /\ \A k \in Groups : next[order[k]] = IF k + 1 \in Groups THEN order[k + 1] ELSE NULL
      /\ \A k \in Groups : prev[order[k]] = IF k = 0 THEN NULL ELSE order[k - 1]
  BY <1>5 DEF Inv, ListSpellsOrder, At
<1>7. /\ \A k \in Groups : k + 1 # k /\ k - 1 # k /\ k + 1 # 0
      /\ i - 1 # j /\ i - 1 # j - 1 /\ j + 1 # i /\ j + 1 # i + 1 /\ i - 1 # i + 1 /\ j + 1 # j - 1
      /\ j # 0 /\ i + 1 \in Groups
      /\ \A k \in Groups : (k + 1) - 1 = k /\ (k - 1) + 1 = k
  BY <1>0 DEF Groups
<1>8. prev[a] \notin {a, b} /\ next[b] \notin {a, b}
  BY <1>1, <1>4, <1>5, <1>6, <1>7
<1>9. CASE j = i + 1
  <2>1. next[a] = b /\ prev[b] = a
    BY <1>6, <1>7, <1>9
  <2>2. /\ next' \in [Groups -> Pointer] /\ prev' \in [Groups -> Pointer]
        /\ next'[a] = next[b] /\ next'[b] = a
        /\ prev'[a] = b /\ prev'[b] = prev[a]
        /\ \A g \in Groups \ {a, b} :
              /\ next'[g] = IF g = prev[a] THEN b ELSE next[g]
              /\ prev'[g] = IF g = next[b] THEN a ELSE prev[g]
    BY <1>1, <1>8, <2>1, PointersAdjacent DEF Inv
  <2> HIDE DEF a, b
  <2>3. ListOK'
    BY <1>2, <1>3, <2>2 DEF ListOK, Pointer
  <2>4. ASSUME NEW k \in Groups
        PROVE  next'[order'[k]] = IF k + 1 \in Groups THEN order'[k + 1] ELSE NULL
    <3>1. CASE k = i
      BY <1>0, <1>1, <1>2, <1>5, <1>6, <1>7, <1>9, <2>2, <3>1 DEF a, b
    <3>2. CASE k = j
      BY <1>0, <1>1, <1>2, <1>5, <1>6, <1>7, <1>9, <2>2, <3>2 DEF a, b
    <3>3. CASE k # i /\ k # j
      <4>1. order'[k] = order[k] /\ order[k] \in Groups \ {a, b}
        BY <1>1, <1>2, <3>3 DEF a, b
      <4>2. k + 1 = i => i # 0 /\ k = i - 1
        BY <1>0, <1>5, <1>7
      <4>3. k + 1 = j => k = j - 1
        BY <1>0, <1>5, <1>7
      <4>4. order[k] = prev[a] <=> k + 1 = i
        BY <1>0, <1>1, <1>4, <1>5, <1>6, <1>7, <4>2 DEF a
      <4>5. order[k] = prev[b] <=> k + 1 = j
        BY <1>0, <1>1, <1>4, <1>5, <1>6, <1>7, <4>3 DEF b
      <4>6. k + 1 \in Groups =>
              order'[k + 1] = IF k + 1 = i THEN b ELSE IF k + 1 = j THEN a ELSE order[k + 1]
        BY <1>2
      <4>7. next[order[k]] = IF k + 1 \in Groups THEN order[k + 1] ELSE NULL
        BY <1>6
      <4>8. next'[order[k]] = IF k + 1 = i THEN b ELSE IF k + 1 = j THEN a ELSE next[order[k]]
        <5>1. k + 1 = i => k + 1 # j
          BY <1>0
        <5>2. k + 1 # j
          BY <1>0, <1>9, <3>3
        <5> QED
          BY <2>2, <4>1, <4>4, <4>5, <5>1, <5>2
      <4> QED
        BY <4>1, <4>6, <4>7, <4>8
    <3> QED
      BY <3>1, <3>2, <3>3
  <2>5. ASSUME NEW k \in Groups
        PROVE  prev'[order'[k]] = IF k = 0 THEN NULL ELSE order'[k - 1]
    <3>1. CASE k = i
      BY <1>0, <1>1, <1>2, <1>5, <1>6, <1>7, <1>9, <2>2, <3>1 DEF a, b
    <3>2. CASE k = j
      BY <1>0, <1>1, <1>2, <1>5, <1>6, <1>7, <1>9, <2>2, <3>2 DEF a, b
    <3>3. CASE k # i /\ k # j
      <4>1. order'[k] = order[k] /\ order[k] \in Groups \ {a, b}
        BY <1>1, <1>2, <3>3 DEF a, b
      <4>2. k # 0 => (k - 1 = i <=> k = i + 1) /\ (k - 1 = j <=> k = j + 1)
        BY <1>0 DEF Groups
      <4>3. order[k] = next[a] <=> k = i + 1
        BY <1>1, <1>4, <1>5, <1>6, <1>7 DEF a
      <4>4. order[k] = next[b] <=> k = j + 1
        BY <1>1, <1>4, <1>5, <1>6, <1>7 DEF b
      <4>5. k # 0 =>
              order'[k - 1] = IF k - 1 = i THEN b ELSE IF k - 1 = j THEN a ELSE order[k - 1]
        BY <1>2, <1>5
      <4>6. prev[order[k]] = IF k = 0 THEN NULL ELSE order[k - 1]
        BY <1>6
      <4>7. prev'[order[k]] = IF k = i + 1 THEN b ELSE IF k = j + 1 THEN a ELSE prev[order[k]]
        BY <1>0, <2>2, <1>9, <3>3, <4>1, <4>3, <4>4
      <4> QED
        BY <1>7, <4>1, <4>2, <4>5, <4>6, <4>7
    <3> QED
      BY <3>1, <3>2, <3>3
  <2> QED
    BY <1>3, <1>5, <2>3, <2>4, <2>5 DEF Inv, ListSpellsOrder, At
<1>10. CASE j # i + 1
  <2>1. /\ next[a] \in Groups \ {a, b} /\ prev[b] \in Groups \ {a, b}
        /\ prev[a] \notin {a, b, next[a], prev[b]}
        /\ next[b] \notin {a, b, next[a], prev[b]}
    BY <1>0, <1>1, <1>4, <1>5, <1>6, <1>7, <1>8, <1>10
  <2>2. /\ next' \in [Groups -> Pointer] /\ prev' \in [Groups -> Pointer]
        /\ next'[a] = next[b] /\ next'[b] = next[a]
        /\ prev'[a] = prev[b] /\ prev'[b] = prev[a]
        /\ \A g \in Groups \ {a, b} :
              /\ next'[g] = IF g = prev[b] THEN a ELSE IF g = prev[a] THEN b ELSE next[g]
              /\ prev'[g] = IF g = next[a] THEN b ELSE IF g = next[b] THEN a ELSE prev[g]
    BY <1>1, <2>1, PointersApart DEF Inv
  <2> HIDE DEF a, b
  <2>3. ListOK'
    BY <1>2, <1>3, <2>2 DEF ListOK, Pointer
  <2>4. ASSUME NEW k \in Groups
        PROVE  next'[order'[k]] = IF k + 1 \in Groups THEN order'[k + 1] ELSE NULL
    <3>1. CASE k = i
      BY <1>0, <1>1, <1>2, <1>5, <1>6, <1>7, <1>10, <2>2, <3>1 DEF a, b
    <3>2. CASE k = j
      BY <1>0, <1>1, <1>2, <1>5, <1>6, <1>7, <1>10, <2>2, <3>2 DEF a, b
    <3>3. CASE k # i /\ k # j
      <4>1. order'[k] = order[k] /\ order[k] \in Groups \ {a, b}
        BY <1>1, <1>2, <3>3 DEF a, b
      <4>2. k + 1 = i => i # 0 /\ k = i - 1
        BY <1>0, <1>5, <1>7
      <4>3. k + 1 = j => k = j - 1
        BY <1>0, <1>5, <1>7
      <4>4. order[k] = prev[a] <=> k + 1 = i
        BY <1>0, <1>1, <1>4, <1>5, <1>6, <1>7, <4>2 DEF a
      <4>5. order[k] = prev[b] <=> k + 1 = j
        BY <1>0, <1>1, <1>4, <1>5, <1>6, <1>7, <4>3 DEF b
      <4>6. k + 1 \in Groups =>
              order'[k + 1] = IF k + 1 = i THEN b ELSE IF k + 1 = j THEN a ELSE order[k + 1]
        BY <1>2
      <4>7. next[order[k]] = IF k + 1 \in Groups THEN order[k + 1] ELSE NULL
        BY <1>6
      <4>8. next'[order[k]] = IF k + 1 = i THEN b ELSE IF k + 1 = j THEN a ELSE next[order[k]]
        <5>1. k + 1 = i => k + 1 # j
          BY <1>0
        <5> QED
          BY <2>2, <4>1, <4>4, <4>5, <5>1
      <4> QED
        BY <4>1, <4>6, <4>7, <4>8
    <3> QED
      BY <3>1, <3>2, <3>3
  <2>5. ASSUME NEW k \in Groups
        PROVE  prev'[order'[k]] = IF k = 0 THEN NULL ELSE order'[k - 1]
    <3>1. CASE k = i
      BY <1>0, <1>1, <1>2, <1>5, <1>6, <1>7, <1>10, <2>2, <3>1 DEF a, b
    <3>2. CASE k = j
      BY <1>0, <1>1, <1>2, <1>5, <1>6, <1>7, <1>10, <2>2, <3>2 DEF a, b
    <3>3. CASE k # i /\ k # j
      <4>1. order'[k] = order[k] /\ order[k] \in Groups \ {a, b}
        BY <1>1, <1>2, <3>3 DEF a, b
      <4>2. k # 0 => (k - 1 = i <=> k = i + 1) /\ (k - 1 = j <=> k = j + 1)
        BY <1>0 DEF Groups
      <4>3. order[k] = next[a] <=> k = i + 1
        BY <1>1, <1>4, <1>5, <1>6, <1>7 DEF a
      <4>4. order[k] = next[b] <=> k = j + 1
        BY <1>1, <1>4, <1>5, <1>6, <1>7 DEF b
      <4>5. k # 0 =>
              order'[k - 1] = IF k - 1 = i THEN b ELSE IF k - 1 = j THEN a ELSE order[k - 1]
        BY <1>2, <1>5
      <4>6. prev[order[k]] = IF k = 0 THEN NULL ELSE order[k - 1]
        BY <1>6
      <4>7. prev'[order[k]] = IF k = i + 1 THEN b ELSE IF k = j + 1 THEN a ELSE prev[order[k]]
        BY <1>0, <2>2, <1>10, <3>3, <4>1, <4>3, <4>4
      <4> QED
        BY <1>7, <4>1, <4>2, <4>5, <4>6, <4>7
    <3> QED
      BY <3>1, <3>2, <3>3
  <2> QED
    BY <1>3, <1>5, <2>3, <2>4, <2>5 DEF Inv, ListSpellsOrder, At
<1> QED
  BY <1>9, <1>10

(***************************************************************************)
(* However many groups there are and however often on_trigger swops two of *)
(* them, params.dp, next and prev spell the intended order.                *)
(***************************************************************************)
THEOREM ListStaysWhole == ListSpec => [](ListOK /\ ListSpellsOrder)
<1>1. Inv /\ [ListNext]_listvars => Inv'
  <2>1. ASSUME Inv, ListNext PROVE Inv'
    BY <2>1, SwapKeepsInv DEF ListNext
  <2>2. ASSUME Inv, UNCHANGED listvars PROVE Inv'
    BY <2>2 DEF Inv, ListOK, OrderOK, ListSpellsOrder, At, listvars, ordervars
  <2> QED
    BY <2>1, <2>2
<1> QED
  BY InitInv, <1>1, PTL DEF ListSpec, Inv

-----------------------------------------------------------------------------
(* The automatic choice                                                    *)

AutoInv == TypeOK /\ ListSpellsOrder /\ GroupFits

-----------------------------------------------------------------------------
(* find_dp and connect_hook                                                *)

\* The walk round the list stays on the list.
LEMMA RoundStays ==
  ASSUME NEW s \in Groups, NEW k \in Groups
  PROVE  /\ Round(s, k) \in Groups
         /\ \A j \in 0..(k - 1) : Round(s, j) \in Groups
BY OrderAssumption DEF Round, Groups

\* find_dp gives a group that suits and leaves a choice of the right type.
LEMMA FoundSuits ==
  ASSUME NEW e \in Choices, NEW o \in [Groups -> Groups], NEW d, NEW ok,
         NEW s \in Groups, NEW k \in Groups, find_dp(e, o, d, ok, s, k)
  PROVE  LET n == After(e, o, s, k)
         IN /\ n \in Choices
            /\ n.dp = o[Round(s, k)] /\ n.dp \in Groups
            /\ n.dp \in ok /\ n.dp \notin e.mask
<1>1. Round(s, k) \in Groups /\ \A j \in 0..(k - 1) : Round(s, j) \in Groups
  BY RoundStays
<1>2. o[Round(s, k)] \in ok /\ o[Round(s, k)] \notin e.mask
  BY DEF find_dp, Suits
<1>3. {o[Round(s, j)] : j \in 0..(k - 1)} \subseteq Groups
  BY <1>1
<1> DEFINE M == {o[Round(s, j)] : j \in 0..(k - 1)}
<1> HIDE DEF M
<1>4. After(e, o, s, k) = [e EXCEPT !.dp = o[Round(s, k)], !.mask = @ \cup M]
  BY DEF After, M
<1>5. M \subseteq Groups
  BY <1>3 DEF M
<1> QED
  BY <1>1, <1>2, <1>4, <1>5 DEF Choices

\* connect_hook touches no other client, and gives this one a group that it
\* may use and has not been ruled out.
LEMMA HookGives ==
  ASSUME TypeOK, order' \in [Groups -> Groups],
         NEW c \in Clients, NEW e \in Choices, NEW a, NEW b, NEW known,
         connect_hook(c, e, a, b, known)
  PROVE  /\ choice' \in [Clients -> Choices]
         /\ st' \in [Clients -> {"free", "delayed", "conn", "tunnel"}]
         /\ heard' \in [Clients -> BOOLEAN]
         /\ choice'[c].dp \in Groups /\ choice'[c].dp \in Allowed(a, b, known)
         /\ choice'[c].dp \notin e.mask
         /\ st'[c] \in {"delayed", "conn"}
         /\ \A x \in Clients : x # c => choice'[x] = choice[x] /\ st'[x] = st[x]
<1>1. PICK s \in Groups, k \in Groups :
        /\ find_dp(e, order', detect', Allowed(a, b, known), s, k)
        /\ choice' = [choice EXCEPT ![c] = After(e, order', s, k)]
        /\ st' = [st EXCEPT ![c] =
             IF DelayConn /\ ~known /\ l7[order'[Round(s, k)]] # Bodies
             THEN "delayed" ELSE "conn"]
        /\ heard' = [heard EXCEPT ![c] = FALSE]
  BY DEF connect_hook
<1>2. /\ After(e, order', s, k) \in Choices
      /\ After(e, order', s, k).dp \in Groups
      /\ After(e, order', s, k).dp \in Allowed(a, b, known)
      /\ After(e, order', s, k).dp \notin e.mask
  BY <1>1, FoundSuits
<1>3. choice' \in [Clients -> Choices] /\ choice'[c] = After(e, order', s, k)
      /\ \A x \in Clients : x # c => choice'[x] = choice[x]
  BY <1>1, <1>2 DEF TypeOK
<1>4. /\ st' \in [Clients -> {"free", "delayed", "conn", "tunnel"}]
      /\ st'[c] \in {"delayed", "conn"}
      /\ \A x \in Clients : x # c => st'[x] = st[x]
  BY <1>1 DEF TypeOK
<1>5. heard' \in [Clients -> BOOLEAN]
  BY <1>1 DEF TypeOK
<1> QED
  BY <1>2, <1>3, <1>4, <1>5

-----------------------------------------------------------------------------
(* The steps that leave the groups alone                                   *)

States == {"free", "delayed", "conn", "tunnel"}

\* What GroupFits says of one client.
Fit(c) ==
  /\ st[c] # "free" => choice[c].dp # NULL /\ dst[c] \in l34[choice[c].dp]
  /\ st[c] = "tunnel" /\ asked[c] => body[c] \in l7[choice[c].dp]

\* A step of client c alone.
Only(c) ==
  \A x \in Clients \ {c} :
    /\ st'[x] = st[x] /\ choice'[x] = choice[x] /\ asked'[x] = asked[x]
    /\ dst'[x] = dst[x] /\ body'[x] = body[x]

\* The variables of the clients keep their types.
ClientsOK ==
  /\ st \in [Clients -> States]
  /\ dst \in [Clients -> Addrs]
  /\ body \in [Clients -> Bodies]
  /\ choice \in [Clients -> Choices]
  /\ asked \in [Clients -> BOOLEAN]
  /\ heard \in [Clients -> BOOLEAN]
  /\ sq \in [Clients -> BOOLEAN]

\* The group of a session is a group.
LEMMA SessionHasGroup ==
  ASSUME AutoInv, NEW c \in Clients, st[c] # "free"
  PROVE  choice[c].dp \in Groups /\ Tried(c) \subseteq Groups
BY DEF AutoInv, TypeOK, GroupFits, Choices, Tried

\* A step of one client keeps AutoInv if it keeps the list, the types and
\* that client's fitness.
LEMMA OneClient ==
  ASSUME AutoInv, NEW c \in Clients, Only(c), ClientsOK', Fit(c)',
         Inv', pri' \in [Groups -> Nat], UNCHANGED <<l34, l7>>,
         cache' \in [Addrs -> Choices]
  PROVE  AutoInv'
<1>1. TypeOK'
  BY DEF AutoInv, TypeOK, ClientsOK, States, Inv
<1>2. ASSUME NEW x \in Clients PROVE Fit(x)'
  <2>1. CASE x = c
    BY <2>1
  <2>2. CASE x # c
    <3>1. Fit(x)
      BY DEF AutoInv, GroupFits, Fit
    <3> QED
      BY <2>2, <3>1 DEF Only, Fit
  <2> QED
    BY <2>1, <2>2
<1>3. GroupFits'
  BY <1>2 DEF GroupFits, Fit
<1> QED
  BY <1>1, <1>3 DEF AutoInv, Inv

\* When the groups are left alone the list is still whole.
LEMMA GroupsAlone ==
  ASSUME AutoInv, UNCHANGED groupvars
  PROVE  Inv' /\ pri' \in [Groups -> Nat] /\ UNCHANGED <<l34, l7, order, detect>>
<1>1. /\ UNCHANGED <<order, detect, auto_level, next, prev, head>>
      /\ pri' = pri /\ l34' = l34 /\ l7' = l7
  BY DEF groupvars, listvars, ordervars
<1> QED
  BY <1>1 DEF AutoInv, TypeOK, Inv, ListOK, OrderOK, ListSpellsOrder, At

LEMMA CloseStep ==
  ASSUME AutoInv, NEW c \in Clients, Close(c), UNCHANGED <<dst, body>>
  PROVE  Only(c) /\ ClientsOK' /\ Fit(c)' /\ st'[c] = "free"
<1>1. Nothing \in Choices
  BY DEF Nothing, Choices
<1> QED
  BY <1>1 DEF Close, AutoInv, TypeOK, ClientsOK, States, Only, Fit

LEMMA ConnectStep ==
  ASSUME AutoInv, NEW c \in Clients, NEW a \in Addrs, NEW b \in Bodies, Connect(c, a, b)
  PROVE  AutoInv'
<1>1. PICK e \in {cache[a], Nothing} :
        cache_get(a, e) /\ connect_hook(c, e, a, b, FALSE)
  BY DEF Connect
<1>2. Nothing \in Choices /\ e \in Choices
  BY DEF Nothing, Choices, AutoInv, TypeOK
<1>3. cache' \in [Addrs -> Choices]
  BY <1>1, <1>2 DEF cache_get, AutoInv, TypeOK
<1>4. /\ UNCHANGED <<groupvars, asked, sq>>
      /\ dst' = [dst EXCEPT ![c] = a] /\ body' = [body EXCEPT ![c] = b]
  BY DEF Connect
<1>5. Inv' /\ pri' \in [Groups -> Nat] /\ UNCHANGED <<l34, l7, order, detect>>
  BY <1>4, GroupsAlone
<1>6. TypeOK /\ order' \in [Groups -> Groups]
  BY <1>5 DEF AutoInv, Inv, ListOK, OrderOK
<1>7. /\ choice' \in [Clients -> Choices] /\ st' \in [Clients -> States]
      /\ heard' \in [Clients -> BOOLEAN]
      /\ choice'[c].dp \in Groups /\ choice'[c].dp \in Allowed(a, b, FALSE)
      /\ st'[c] \in {"delayed", "conn"}
      /\ \A x \in Clients : x # c => choice'[x] = choice[x] /\ st'[x] = st[x]
  BY <1>1, <1>2, <1>6, HookGives DEF States
<1>8. ClientsOK' /\ Only(c) /\ dst'[c] = a
  BY <1>4, <1>7 DEF AutoInv, TypeOK, ClientsOK, Only
<1>9. Fit(c)'
  BY <1>5, <1>7, <1>8, NullNoGroup DEF Fit, Allowed
<1> QED
  BY <1>3, <1>5, <1>8, <1>9, OneClient

LEMMA KeepsRequestStep ==
  ASSUME TypeOK, NEW c \in Clients, KeepsRequest(c)
  PROVE  /\ asked' \in [Clients -> BOOLEAN] /\ sq' \in [Clients -> BOOLEAN]
         /\ asked'[c] /\ \A x \in Clients : x # c => asked'[x] = asked[x]
BY DEF KeepsRequest, TypeOK

LEMMA SetupStep ==
  ASSUME AutoInv, NEW c \in Clients, setup_conn(c)
  PROVE  /\ choice' \in [Clients -> Choices] /\ st' \in [Clients -> States]
         /\ heard' \in [Clients -> BOOLEAN]
         /\ choice'[c].dp \in Groups /\ choice'[c].dp \in Allowed(dst[c], body[c], TRUE)
         /\ st'[c] = "tunnel"
         /\ \A x \in Clients : x # c => choice'[x] = choice[x] /\ st'[x] = st[x]
<1>1. PICK s \in Groups, k \in Groups :
        /\ find_dp(choice[c], order, detect, Allowed(dst[c], body[c], TRUE), s, k)
        /\ choice' = [choice EXCEPT ![c] = After(@, order, s, k)]
  BY DEF setup_conn
<1>2. choice[c] \in Choices /\ order \in [Groups -> Groups] /\ choice \in [Clients -> Choices]
  BY DEF AutoInv, TypeOK, ListOK, OrderOK
<1>3. /\ After(choice[c], order, s, k) \in Choices
      /\ After(choice[c], order, s, k).dp \in Groups
      /\ After(choice[c], order, s, k).dp \in Allowed(dst[c], body[c], TRUE)
  BY <1>1, <1>2, FoundSuits
<1>4. choice' = [choice EXCEPT ![c] = After(choice[c], order, s, k)]
  BY <1>1
<1> QED
  BY <1>2, <1>3, <1>4 DEF setup_conn, AutoInv, TypeOK, States

LEMMA DelayedStep ==
  ASSUME AutoInv, NEW c \in Clients, DelayedData(c)
  PROVE  AutoInv'
<1>1. /\ UNCHANGED <<groupvars, cache, dst, body>>
      /\ \/ KeepsRequest(c) /\ connect_hook(c, choice[c], dst[c], body[c], TRUE)
         \/ Close(c)
  BY DEF DelayedData
<1>2. Inv' /\ pri' \in [Groups -> Nat] /\ UNCHANGED <<l34, l7, order, detect>>
  BY <1>1, GroupsAlone
<1>3. cache' \in [Addrs -> Choices]
  BY <1>1 DEF AutoInv, TypeOK
<1>4. CASE KeepsRequest(c) /\ connect_hook(c, choice[c], dst[c], body[c], TRUE)
  <2>1. TypeOK /\ order' \in [Groups -> Groups] /\ choice[c] \in Choices
    BY <1>2 DEF AutoInv, TypeOK, Inv, ListOK, OrderOK
  <2>2. /\ choice' \in [Clients -> Choices] /\ st' \in [Clients -> States]
        /\ heard' \in [Clients -> BOOLEAN]
        /\ choice'[c].dp \in Groups /\ choice'[c].dp \in Allowed(dst[c], body[c], TRUE)
        /\ st'[c] \in {"delayed", "conn"}
        /\ \A x \in Clients : x # c => choice'[x] = choice[x] /\ st'[x] = st[x]
    BY <1>4, <2>1, HookGives DEF States
  <2>3. ClientsOK' /\ Only(c)
    BY <1>1, <1>4, <2>1, <2>2, KeepsRequestStep DEF TypeOK, ClientsOK, Only
  <2>4. Fit(c)'
    BY <1>1, <1>2, <2>2, NullNoGroup DEF Fit, Allowed
  <2> QED
    BY <1>2, <1>3, <2>3, <2>4, OneClient
<1>5. CASE Close(c)
  BY <1>1, <1>2, <1>3, <1>5, CloseStep, OneClient
<1> QED
  BY <1>1, <1>4, <1>5

LEMMA ConnectedStep ==
  ASSUME AutoInv, NEW c \in Clients, Connected(c) \/ FirstData(c)
  PROVE  AutoInv' /\ st'[c] \in {"free", "tunnel"} /\ Only(c) /\ UNCHANGED cache
<1>1. UNCHANGED <<groupvars, cache, dst, body>>
  BY DEF Connected, FirstData
<1>2. Inv' /\ pri' \in [Groups -> Nat] /\ UNCHANGED <<l34, l7, order, detect>>
  BY <1>1, GroupsAlone
<1>3. cache' \in [Addrs -> Choices] /\ TypeOK
  BY <1>1 DEF AutoInv, TypeOK
<1>4. CASE st[c] = "conn" /\ ~asked[c] /\ st' = [st EXCEPT ![c] = "tunnel"]
           /\ UNCHANGED <<choice, asked, heard, sq>>
  <2>1. ClientsOK' /\ Only(c) /\ st'[c] = "tunnel"
    BY <1>1, <1>4 DEF AutoInv, TypeOK, ClientsOK, Only, States
  <2>2. Fit(c)
    BY DEF AutoInv, GroupFits, Fit
  <2>3. Fit(c)'
    BY <1>1, <1>2, <1>4, <2>2 DEF Fit
  <2> QED
    BY <1>1, <1>2, <1>3, <2>1, <2>3, OneClient
<1>5. CASE setup_conn(c) /\ (UNCHANGED <<asked, sq>> \/ KeepsRequest(c))
  <2>1. /\ choice' \in [Clients -> Choices] /\ st' \in [Clients -> States]
        /\ heard' \in [Clients -> BOOLEAN]
        /\ choice'[c].dp \in Groups /\ choice'[c].dp \in Allowed(dst[c], body[c], TRUE)
        /\ st'[c] = "tunnel"
        /\ \A x \in Clients : x # c => choice'[x] = choice[x] /\ st'[x] = st[x]
    BY <1>5, SetupStep
  <2>2. /\ asked' \in [Clients -> BOOLEAN] /\ sq' \in [Clients -> BOOLEAN]
        /\ \A x \in Clients : x # c => asked'[x] = asked[x]
    BY <1>3, <1>5, KeepsRequestStep DEF TypeOK
  <2>3. ClientsOK' /\ Only(c)
    BY <1>1, <1>3, <2>1, <2>2 DEF TypeOK, ClientsOK, Only
  <2>4. Fit(c)'
    BY <1>1, <1>2, <2>1, NullNoGroup DEF Fit, Allowed
  <2> QED
    BY <1>1, <1>2, <1>3, <2>1, <2>3, <2>4, OneClient
<1>6. CASE Close(c)
  BY <1>1, <1>2, <1>3, <1>6, CloseStep, OneClient
<1> QED
  BY <1>4, <1>5, <1>6 DEF Connected, FirstData

\* Only the marks sq and heard of a client change.
LEMMA MarksStep ==
  ASSUME AutoInv, NEW c \in Clients, MoreData(c) \/ Heard(c)
  PROVE  AutoInv' /\ UNCHANGED <<cache, st, choice>>
<1>1. UNCHANGED <<groupvars, cache, st, dst, body, choice, asked>>
  BY DEF MoreData, Heard
<1>2. Inv' /\ pri' \in [Groups -> Nat] /\ UNCHANGED <<l34, l7, order, detect>>
  BY <1>1, GroupsAlone
<1>3. ClientsOK' /\ Only(c) /\ cache' \in [Addrs -> Choices]
  BY <1>1 DEF MoreData, Heard, AutoInv, TypeOK, ClientsOK, States, Only
<1>4. Fit(c)'
  BY <1>1, <1>2 DEF AutoInv, GroupFits, Fit
<1> QED
  BY <1>1, <1>2, <1>3, <1>4, OneClient

LEMMA GoneStep ==
  ASSUME AutoInv, NEW c \in Clients, Gone(c)
  PROVE  AutoInv' /\ Only(c) /\ st'[c] = "free"
<1>1. UNCHANGED <<groupvars, cache, dst, body>> /\ Close(c)
  BY DEF Gone
<1>2. Inv' /\ pri' \in [Groups -> Nat] /\ UNCHANGED <<l34, l7, order, detect>>
  BY <1>1, GroupsAlone
<1>3. cache' \in [Addrs -> Choices]
  BY <1>1 DEF AutoInv, TypeOK
<1> QED
  BY <1>1, <1>2, <1>3, CloseStep, OneClient

-----------------------------------------------------------------------------
(* on_trigger                                                              *)

\* The swop of on_trigger is one of GroupList's: the client's group comes
\* before the one it is swopped with, for no two places hold the same group.
LEMMA SortSwaps ==
  ASSUME AutoInv, NEW c \in Clients, choice[c].dp \in Groups,
         NEW k \in 0..N, NEW more \in BOOLEAN, more => k < N, Sort(c, k, more)
  PROVE  /\ ListNext \/ UNCHANGED listvars
         /\ Inv' /\ pri' \in [Groups -> Nat]
<1> DEFINE g == choice[c].dp
<1>1. Inv /\ OrderOK /\ pri \in [Groups -> Nat]
  BY DEF AutoInv, TypeOK, Inv, ListOK
<1>2. pri' \in [Groups -> Nat]
  <2>1. pri' = pri \/ pri' = [pri EXCEPT ![g] = @ + 1]
    BY DEF Sort
  <2> QED
    BY <1>1, <2>1
<1>3. CASE UNCHANGED listvars
  <2>1. Inv'
    BY <1>1, <1>3 DEF Inv, ListOK, OrderOK, ListSpellsOrder, At, listvars, ordervars
  <2> QED
    BY <1>2, <1>3, <2>1
<1>4. CASE ~UNCHANGED listvars
  <2>1. /\ more /\ Passed(c, k) /\ swop_groups(g, order[k])
        /\ \E i \in Groups : order[i] = g /\ Trade(i, k)
    BY <1>4 DEF Sort
  <2>2. k \in Groups
    BY <2>1, OrderAssumption DEF Groups
  <2>3. PICK i \in Groups : order[i] = g /\ Trade(i, k)
    BY <2>1
  <2>4. PICK j \in 0..(k - 1) : order[j] = g
    BY <2>1 DEF Passed, Before
  <2>5. j \in Groups /\ j < k
    BY <2>2, OrderAssumption DEF Groups
  <2>6. Swap(i, k) /\ swop_groups(order[i], order[k])
    BY <1>1, <2>1, <2>3, <2>4, <2>5 DEF OrderOK, Swap
  <2>7. ListNext
    BY <2>2, <2>6 DEF ListNext
  <2>8. Inv'
    BY <1>1, <2>2, <2>6, SwapKeepsInv
  <2> QED
    BY <1>2, <2>7, <2>8
<1> QED
  BY <1>3, <1>4

\* What on_trigger saves is well formed.
LEMMA SavedTyped ==
  ASSUME AutoInv, NEW c \in Clients, NEW type \in SUBSET Types, NEW k \in 0..N,
         NEW more \in BOOLEAN, more => k < N, NEW m \in SUBSET Groups
  PROVE  Saved(c, type, k, more, m) \in [Addrs -> Choices]
<1>1. cache \in [Addrs -> Choices] /\ dst[c] \in Addrs /\ order \in [Groups -> Groups]
  BY DEF AutoInv, TypeOK, ListOK, OrderOK
<1>2. 0 \in Groups /\ (more => k \in Groups)
  BY OrderAssumption DEF Groups
<1>3. cache[dst[c]].mask \in SUBSET Groups
  BY <1>1 DEF Choices
<1>4. /\ [dp |-> order[0], mask |-> {}, found |-> {}] \in Choices
      /\ more => [dp |-> order[k], mask |-> cache[dst[c]].mask \cup m, found |-> type] \in Choices
  BY <1>1, <1>2, <1>3 DEF Choices
<1>5. Saved(c, type, k, more, m) =
        [cache EXCEPT ![dst[c]] =
           IF more THEN [dp |-> order[k], mask |-> cache[dst[c]].mask \cup m, found |-> type]
                   ELSE [dp |-> order[0], mask |-> {}, found |-> {}]]
  BY DEF Saved
<1> QED
  BY <1>1, <1>4, <1>5

\* A reconnect that fails leaves the client with a group it may use.
LEMMA FailsFit ==
  ASSUME AutoInv, NEW c \in Clients, NEW e \in Choices, NEW known,
         order' \in [Groups -> Groups], ReconnectFails(c, e, known)
  PROVE  /\ choice' \in [Clients -> Choices]
         /\ \A x \in Clients : x # c => choice'[x] = choice[x]
         /\ \/ choice'[c].dp = e.dp
            \/ choice'[c].dp \in Groups /\ choice'[c].dp \in Allowed(dst[c], body[c], known)
<1>1. choice \in [Clients -> Choices]
  BY DEF AutoInv, TypeOK
<1>2. CASE choice' = [choice EXCEPT ![c] = [e EXCEPT !.mask = Groups]]
  <2>1. [e EXCEPT !.mask = Groups] \in Choices /\ [e EXCEPT !.mask = Groups].dp = e.dp
    BY DEF Choices
  <2> QED
    BY <1>1, <1>2, <2>1
<1>3. CASE \E s, k \in Groups :
             /\ find_dp(e, order', detect', Allowed(dst[c], body[c], known), s, k)
             /\ choice' = [choice EXCEPT ![c] = After(e, order', s, k)]
  <2>1. PICK s \in Groups, k \in Groups :
             /\ find_dp(e, order', detect', Allowed(dst[c], body[c], known), s, k)
             /\ choice' = [choice EXCEPT ![c] = After(e, order', s, k)]
    BY <1>3
  <2>2. /\ After(e, order', s, k) \in Choices
        /\ After(e, order', s, k).dp \in Groups
        /\ After(e, order', s, k).dp \in Allowed(dst[c], body[c], known)
    BY <2>1, FoundSuits
  <2> QED
    BY <1>1, <2>1, <2>2
<1> QED
  BY <1>2, <1>3 DEF ReconnectFails

\* One run of on_trigger.
LEMMA TriggerStep ==
  ASSUME AutoInv, NEW c \in Clients, st[c] # "free", NEW type \in SUBSET Types,
         NEW alive, NEW stays \in BOOLEAN, on_trigger(c, type, alive, stays)
  PROVE  /\ AutoInv' /\ Only(c)
         /\ ListNext \/ UNCHANGED listvars
         /\ \/ st'[c] \in {"delayed", "conn"} /\ choice'[c].dp \notin Tried(c)
            \/ stays /\ st'[c] = st[c]
            \/ st'[c] = "free"
<1> DEFINE re == (sq[c] \/ (~asked[c] /\ ~heard[c])) /\ alive
           More(k) == k < N /\ ~Leaves(c, k)
           E(k) == [dp |-> choice[c].dp, mask |-> Tried(c) \cup Before(k), found |-> type]
           again(k) == More(k) /\ re /\ "noreconn" \notin auto_level'[order[k]]
<1>1. PICK k \in 0..N :
        /\ Sort(c, k, More(k))
        /\ cache' = Saved(c, type, k, More(k), E(k).mask)
        /\ \/ /\ again(k)
              /\ connect_hook(c, E(k), dst[c], body[c], asked[c])
              /\ UNCHANGED <<asked, sq>>
           \/ /\ stays
              /\ IF again(k) THEN ReconnectFails(c, E(k), asked[c])
                             ELSE choice' = [choice EXCEPT ![c] = E(k)]
              /\ heard' = [heard EXCEPT ![c] = TRUE]
              /\ sq' = [sq EXCEPT ![c] = FALSE]
              /\ UNCHANGED <<st, asked>>
           \/ /\ ~stays
              /\ Close(c)
        /\ UNCHANGED <<l34, l7, dst, body>>
  BY DEF on_trigger
<1>2. /\ order \in [Groups -> Groups] /\ choice[c].dp \in Groups /\ Tried(c) \subseteq Groups
      /\ TypeOK
  BY SessionHasGroup DEF AutoInv, TypeOK, ListOK, OrderOK
<1> DEFINE more == More(k)
           e == E(k)
<1>3. Before(k) \subseteq Groups
  <2>1. \A i \in 0..(k - 1) : i \in Groups
    BY OrderAssumption DEF Groups
  <2> QED
    BY <1>2, <2>1 DEF Before
<1>4. e \in Choices /\ e.mask \in SUBSET Groups /\ e.dp = choice[c].dp /\ Tried(c) \subseteq e.mask
  BY <1>2, <1>3 DEF Choices
<1>5. more \in BOOLEAN /\ (more => k < N)
  OBVIOUS
<1> HIDE DEF more, e
<1>6. Inv' /\ pri' \in [Groups -> Nat] /\ (ListNext \/ UNCHANGED listvars)
  BY <1>1, <1>2, <1>5, SortSwaps DEF more
<1>7. cache' \in [Addrs -> Choices]
  <2>1. cache' = Saved(c, type, k, more, e.mask)
    BY <1>1 DEF more, e
  <2> QED
    BY <1>4, <1>5, <2>1, SavedTyped
<1>8. order' \in [Groups -> Groups]
  BY <1>6 DEF Inv, ListOK, OrderOK
<1>9. UNCHANGED <<l34, l7, dst, body>>
  BY <1>1
<1>10. CASE /\ connect_hook(c, e, dst[c], body[c], asked[c])
            /\ UNCHANGED <<asked, sq>>
  <2>1. /\ choice' \in [Clients -> Choices] /\ st' \in [Clients -> States]
        /\ heard' \in [Clients -> BOOLEAN]
        /\ choice'[c].dp \in Groups /\ choice'[c].dp \in Allowed(dst[c], body[c], asked[c])
        /\ choice'[c].dp \notin e.mask
        /\ st'[c] \in {"delayed", "conn"}
        /\ \A x \in Clients : x # c => choice'[x] = choice[x] /\ st'[x] = st[x]
    BY <1>2, <1>4, <1>8, <1>10, HookGives DEF States
  <2>2. ClientsOK' /\ Only(c)
    BY <1>2, <1>9, <1>10, <2>1 DEF TypeOK, ClientsOK, Only
  <2>3. Fit(c)'
    BY <1>9, <2>1, NullNoGroup DEF Fit, Allowed
  <2>4. AutoInv'
    BY <1>6, <1>7, <1>9, <2>2, <2>3, OneClient
  <2> QED
    BY <1>4, <1>6, <2>1, <2>2, <2>4
<1>11. CASE /\ stays
            /\ ReconnectFails(c, e, asked[c]) \/ choice' = [choice EXCEPT ![c] = e]
            /\ heard' = [heard EXCEPT ![c] = TRUE]
            /\ sq' = [sq EXCEPT ![c] = FALSE]
            /\ UNCHANGED <<st, asked>>
  <2>1. /\ choice' \in [Clients -> Choices]
        /\ \A x \in Clients : x # c => choice'[x] = choice[x]
        /\ \/ choice'[c].dp = choice[c].dp
           \/ choice'[c].dp \in Groups /\ choice'[c].dp \in Allowed(dst[c], body[c], asked[c])
    <3>1. CASE ReconnectFails(c, e, asked[c])
      BY <1>4, <1>8, <3>1, FailsFit
    <3>2. CASE choice' = [choice EXCEPT ![c] = e]
      BY <1>2, <1>4, <3>2 DEF TypeOK
    <3> QED
      BY <1>11, <3>1, <3>2
  <2>2. ClientsOK' /\ Only(c)
    BY <1>2, <1>9, <1>11, <2>1 DEF TypeOK, ClientsOK, States, Only
  <2>3. Fit(c)'
    <3>1. Fit(c)
      BY DEF AutoInv, GroupFits, Fit
    <3> QED
      BY <1>9, <1>11, <2>1, <3>1, NullNoGroup DEF Fit, Allowed
  <2>4. AutoInv'
    BY <1>6, <1>7, <1>9, <2>2, <2>3, OneClient
  <2> QED
    BY <1>6, <1>11, <2>2, <2>4
<1>12. CASE Close(c)
  BY <1>6, <1>7, <1>9, <1>12, CloseStep, OneClient
<1> QED
  BY <1>1, <1>10, <1>11, <1>12 DEF e

LEMMA TriggerSteps ==
  ASSUME AutoInv, NEW c \in Clients, Trigger(c)
  PROVE  /\ AutoInv' /\ Only(c)
         /\ ListNext \/ UNCHANGED listvars
         /\ Reconnects(c) => choice'[c].dp \notin Tried(c)
<1>1. {"conn"} \in SUBSET Types /\ {"torst"} \in SUBSET Types /\ {"ssl_err"} \in SUBSET Types
  BY DEF Types
<1>2. CASE on_connerr(c)
  <2>1. st[c] # "free" /\ on_trigger(c, {"conn"}, TRUE, FALSE)
    BY <1>2 DEF on_connerr
  <2> QED
    BY <1>1, <2>1, TriggerStep DEF Reconnects
<1>3. CASE on_torst(c)
  <2>1. st[c] # "free" /\ on_trigger(c, {"torst"}, TRUE, FALSE)
    BY <1>3 DEF on_torst
  <2> QED
    BY <1>1, <2>1, TriggerStep DEF Reconnects
<1>4. ASSUME NEW is_client \in BOOLEAN, on_fin(c, is_client)
      PROVE  /\ AutoInv' /\ Only(c)
             /\ ListNext \/ UNCHANGED listvars
             /\ Reconnects(c) => choice'[c].dp \notin Tried(c)
  <2>1. st[c] # "free" /\ on_trigger(c, {"ssl_err"}, ~is_client, FALSE)
    BY <1>4 DEF on_fin
  <2> QED
    BY <1>1, <2>1, TriggerStep DEF Reconnects
<1>5. ASSUME NEW bad, on_response(c, bad)
      PROVE  /\ AutoInv' /\ Only(c)
             /\ ListNext \/ UNCHANGED listvars
             /\ Reconnects(c) => choice'[c].dp \notin Tried(c)
  <2>1. st[c] = "tunnel"
    BY <1>5 DEF on_response
  <2>2. CASE \E k \in Groups : on_trigger(c, detect[order[k]], TRUE, TRUE)
    <3>1. PICK k \in Groups : on_trigger(c, detect[order[k]], TRUE, TRUE)
      BY <2>2
    <3>2. detect[order[k]] \in SUBSET Types
      BY AutoAssumption DEF AutoInv, TypeOK, ListOK, OrderOK
    <3> QED
      BY <2>1, <3>1, <3>2, TriggerStep DEF Reconnects
  <2>3. CASE /\ choice' = [choice EXCEPT ![c].mask = Tried(c)]
             /\ heard' = [heard EXCEPT ![c] = TRUE]
             /\ sq' = [sq EXCEPT ![c] = FALSE]
             /\ UNCHANGED <<groupvars, cache, st, dst, body, asked>>
    <3>1. Inv' /\ pri' \in [Groups -> Nat] /\ UNCHANGED <<l34, l7, order, detect>>
      BY <2>3, GroupsAlone
    <3>2. Tried(c) \subseteq Groups /\ choice[c] \in Choices /\ choice \in [Clients -> Choices]
      BY <2>1, SessionHasGroup DEF AutoInv, TypeOK
    <3>3. choice' \in [Clients -> Choices] /\ choice'[c].dp = choice[c].dp
          /\ \A x \in Clients : x # c => choice'[x] = choice[x]
      BY <2>3, <3>2 DEF Choices
    <3>4. ClientsOK' /\ Only(c) /\ cache' \in [Addrs -> Choices]
      BY <2>3, <3>3 DEF AutoInv, TypeOK, ClientsOK, States, Only
    <3>5. Fit(c)'
      BY <2>3, <3>1, <3>3 DEF AutoInv, GroupFits, Fit
    <3>6. UNCHANGED listvars /\ ~Reconnects(c)
      BY <2>1, <2>3 DEF groupvars, Reconnects
    <3> QED
      BY <3>1, <3>4, <3>5, <3>6, OneClient
  <2> QED
    BY <1>5, <2>2, <2>3 DEF on_response
<1> QED
  BY <1>2, <1>3, <1>4, <1>5 DEF Trigger

-----------------------------------------------------------------------------
(* The theorems                                                            *)

LEMMA AutoInit == Init => AutoInv
<1> SUFFICES ASSUME Init PROVE AutoInv
  OBVIOUS
<1>1. ListOK /\ ListSpellsOrder
  BY InitInv DEF Init, Inv
<1>2. Nothing \in Choices /\ \A g \in Groups : [Nothing EXCEPT !.dp = g] \in Choices
  BY DEF Nothing, Choices
<1>3. [Nothing EXCEPT !.dp = NULL] \in Choices
  BY DEF Nothing, Choices
<1>4. cache \in [Addrs -> Choices]
  <2> DEFINE L == {[Nothing EXCEPT !.dp = g] :
                     g \in {NULL} \cup (IF Loaded THEN Groups ELSE {})}
  <2>1. L \subseteq Choices
    BY <1>2, <1>3
  <2>2. cache \in [Addrs -> L]
    BY DEF Init
  <2> HIDE DEF L
  <2> QED
    BY <2>1, <2>2
<1>5. TypeOK
  BY <1>1, <1>2, <1>4 DEF Init, TypeOK
<1>6. GroupFits
  BY DEF Init, GroupFits
<1> QED
  BY <1>1, <1>5, <1>6 DEF AutoInv

\* Every step keeps AutoInv, moves the list as GroupList may, and takes no
\* client back to a group it has had.
LEMMA AutoStep ==
  ASSUME AutoInv, [Next]_vars
  PROVE  /\ AutoInv'
         /\ [ListNext]_listvars
         /\ \A c \in Clients : Reconnects(c) => choice'[c].dp \notin Tried(c)
<1> DEFINE Goal == /\ AutoInv'
                   /\ ListNext \/ UNCHANGED listvars
                   /\ \A x \in Clients : Reconnects(x) => choice'[x].dp \notin Tried(x)
<1>1. ASSUME NEW c \in Clients, Only(c), ~Reconnects(c) \/ choice'[c].dp \notin Tried(c)
      PROVE  \A x \in Clients : Reconnects(x) => choice'[x].dp \notin Tried(x)
  BY <1>1 DEF Only, Reconnects
<1>2. ASSUME NEW c \in Clients, NEW a \in Addrs, NEW b \in Bodies, Connect(c, a, b)
      PROVE  Goal
  <2>1. st[c] = "free" /\ UNCHANGED listvars
    BY <1>2 DEF Connect, groupvars
  <2>2. \A x \in Clients : x # c => choice'[x] = choice[x] /\ st'[x] = st[x]
    <3>1. PICK e : connect_hook(c, e, a, b, FALSE)
      BY <1>2 DEF Connect
    <3> QED
      BY <3>1 DEF connect_hook, AutoInv, TypeOK
  <2>3. \A x \in Clients : ~Reconnects(x)
    BY <2>1, <2>2 DEF Reconnects
  <2> QED
    BY <1>2, <2>1, <2>3, ConnectStep
<1>3. ASSUME NEW c \in Clients, DelayedData(c) PROVE Goal
  <2>1. st[c] = "delayed" /\ UNCHANGED listvars
    BY <1>3 DEF DelayedData, groupvars
  <2>2. \A x \in Clients : x # c => choice'[x] = choice[x] /\ st'[x] = st[x]
    BY <1>3 DEF DelayedData, connect_hook, Close, AutoInv, TypeOK
  <2>3. \A x \in Clients : ~Reconnects(x)
    BY <2>1, <2>2 DEF Reconnects
  <2> QED
    BY <1>3, <2>1, <2>3, DelayedStep
<1>4. ASSUME NEW c \in Clients, Connected(c) \/ FirstData(c) PROVE Goal
  <2>1. AutoInv' /\ st'[c] \in {"free", "tunnel"} /\ Only(c)
    BY <1>4, ConnectedStep
  <2>2. ~Reconnects(c) /\ UNCHANGED listvars
    BY <1>4, <2>1 DEF Reconnects, Connected, FirstData, groupvars
  <2> QED
    BY <1>1, <2>1, <2>2
<1>5. ASSUME NEW c \in Clients, MoreData(c) \/ Heard(c) PROVE Goal
  <2>1. AutoInv' /\ UNCHANGED <<st, choice>>
    BY <1>5, MarksStep
  <2>2. UNCHANGED listvars
    BY <1>5 DEF MoreData, Heard, groupvars
  <2> QED
    BY <2>1, <2>2 DEF Reconnects
<1>6. ASSUME NEW c \in Clients, Gone(c) PROVE Goal
  <2>1. AutoInv' /\ Only(c) /\ st'[c] = "free"
    BY <1>6, GoneStep
  <2>2. ~Reconnects(c) /\ UNCHANGED listvars
    BY <1>6, <2>1 DEF Reconnects, Gone, groupvars
  <2> QED
    BY <1>1, <2>1, <2>2
<1>7. ASSUME NEW c \in Clients, Trigger(c) PROVE Goal
  BY <1>1, <1>7, TriggerSteps
<1>8. CASE UNCHANGED vars
  <2>1. UNCHANGED <<groupvars, cache, st, dst, body, choice, asked, heard, sq>>
    BY <1>8 DEF vars
  <2>2. Inv' /\ pri' \in [Groups -> Nat] /\ UNCHANGED <<l34, l7, order, detect>>
    BY <2>1, GroupsAlone
  <2>3. TypeOK' /\ GroupFits'
    BY <2>1, <2>2 DEF AutoInv, TypeOK, Inv, GroupFits
  <2>4. UNCHANGED listvars
    BY <2>1 DEF groupvars
  <2> QED
    BY <2>1, <2>2, <2>3, <2>4 DEF AutoInv, Inv, Reconnects
<1> QED
  BY <1>2, <1>3, <1>4, <1>5, <1>6, <1>7, <1>8 DEF Next

\* The choice's inductive invariant.
THEOREM AutoInvariant == Spec => []AutoInv
<1>1. AutoInv /\ [Next]_vars => AutoInv'
  BY AutoStep
<1> QED
  BY AutoInit, <1>1, PTL DEF Spec

\* The masks and choices of clients and cache are well formed: on_trigger never
\* looks for the group of a client that has none, and never walks off the list.
THEOREM AutoTypes == Spec => []TypeOK
<1>1. AutoInv => TypeOK
  BY DEF AutoInv
<1> QED
  BY <1>1, AutoInvariant, PTL

(***************************************************************************)
(* Whatever the groups, limits, clients and answers, the group applied to  *)
(* a session is one whose limits the session meets.                        *)
(***************************************************************************)
THEOREM GroupsAlwaysFit == Spec => []GroupFits
<1>1. AutoInv => GroupFits
  BY DEF AutoInv
<1> QED
  BY <1>1, AutoInvariant, PTL

\* The swops on_trigger does leave the pointers of the list whole.
THEOREM TriggersKeepList == Spec => []ListSpellsOrder
<1>1. AutoInv => ListSpellsOrder
  BY DEF AutoInv
<1> QED
  BY <1>1, AutoInvariant, PTL

(***************************************************************************)
(* on_trigger is a user of swop_groups that GroupList allows for.          *)
(***************************************************************************)
THEOREM TriggersImplementList == Spec => ImplementsList
<1>1. AutoInv /\ [Next]_vars => AutoInv' /\ [ListNext]_listvars
  BY AutoStep
<1>2. Init => ListInit
  BY DEF Init
<1> QED
  BY AutoInit, <1>1, <1>2, PTL DEF Spec, ImplementsList, ListSpec

(***************************************************************************)
(* No reconnect takes a client back to a group it has had.                 *)
(***************************************************************************)
THEOREM ReconnectsMoveOn == Spec => NeverTwice
<1>1. AutoInv /\ [Next]_vars =>
        /\ AutoInv'
        /\ [\A c \in Clients : Reconnects(c) => choice'[c].dp \notin Tried(c)]_vars
  BY AutoStep
<1> QED
  BY AutoInit, <1>1, PTL DEF Spec, NeverTwice

-----------------------------------------------------------------------------
(***************************************************************************)
(* The cache.  Without --auto-mode sort the list stays as the options gave *)
(* it, and with no entries from a file every mask, a client's or a cached  *)
(* one, covers the list up to some place that is not before the group that *)
(* goes with it: clients of one address only ever move down the list.  TLC *)
(* finds a counterexample when any of the hypotheses below is dropped.     *)
(***************************************************************************)

\* No group has the AUTO_SORT flag.
NoSort == \A l \in Levels : "sort" \notin l

\* All groups that wait for a trigger wait for the same ones.
OneTrigger == \A d, f \in Detects \ {{}} : d = f

\* No group is limited to some addresses or some first data.
NoLimits == (\A L \in L34s : Addrs \subseteq L) /\ (\A L \in L7s : Bodies \subseteq L)

\* A choice whose mask is the list up to place p.
UpTo(e, p) ==
  /\ e.mask = 0..(p - 1)
  /\ IF e.dp = NULL THEN p = 0 ELSE e.dp \in Groups /\ e.dp <= p

Prefix(e) == \E p \in 0..N : UpTo(e, p)

\* An entry that still leaves a group to try, and one that waits for nothing
\* or for what the entry is about.
Leads(e) ==
  e.dp # NULL =>
    /\ e.mask # Groups
    /\ e.mask = {} \/ \A d \in Detects \ {{}} : d \cap e.found # {}

InPlace == order = [i \in Groups |-> i]

PrefixInv ==
  /\ InPlace
  /\ \A a \in Addrs : Prefix(cache[a])
  /\ \A c \in Clients : Prefix(choice[c])

LeadsInv == \A a \in Addrs : Leads(cache[a])

LEMMA NothingPrefix == Prefix(Nothing)
<1>1. UpTo(Nothing, 0)
  BY OrderAssumption DEF UpTo, Nothing
<1> QED
  BY <1>1, OrderAssumption DEF Prefix

\* find_dp goes on down the list, and does not come round.
LEMMA FindDown ==
  ASSUME InPlace, NEW e \in Choices, NEW p \in 0..N, UpTo(e, p), NEW d, NEW ok,
         NEW s \in Groups, NEW k \in Groups, find_dp(e, order, d, ok, s, k)
  PROVE  /\ s = IF e.dp = NULL THEN 0 ELSE e.dp
         /\ s + k \in Groups /\ p <= s + k
         /\ \A j \in 0..k : Round(s, j) = s + j
         /\ UpTo(After(e, order, s, k), s + k)
         /\ After(e, order, s, k).dp = s + k
<1>0. N \in Nat /\ s \in 0..(N - 1) /\ k \in 0..(N - 1) /\ Groups = 0..(N - 1)
  BY OrderAssumption DEF Groups
<1>1. /\ \A i \in Groups : order[i] = i
      /\ Round(s, k) \in Groups /\ \A j \in 0..(k - 1) : Round(s, j) \in Groups
  BY RoundStays DEF InPlace
<1>2. s = (IF e.dp = NULL THEN 0 ELSE e.dp) /\ s <= p
  BY <1>1 DEF find_dp, Starts, UpTo
<1>3. Round(s, k) \notin 0..(p - 1)
  BY <1>1 DEF find_dp, Suits, UpTo
<1>4. p <= Round(s, k)
  BY <1>0, <1>1, <1>3
<1>5. s + k < N
  BY <1>0, <1>2, <1>4 DEF Round
<1>6. \A j \in 0..k : Round(s, j) = s + j /\ s + j \in Groups
  BY <1>0, <1>5 DEF Round
<1>7. k \in 0..k /\ 0..(k - 1) \subseteq 0..k
  BY <1>0
<1>8. {order[Round(s, j)] : j \in 0..(k - 1)} = s..(s + k - 1)
  <2>1. \A j \in 0..(k - 1) : order[Round(s, j)] = s + j /\ s + j \in s..(s + k - 1)
    BY <1>0, <1>1, <1>6, <1>7
  <2>2. \A x \in s..(s + k - 1) : x - s \in 0..(k - 1) /\ s + (x - s) = x
    BY <1>0
  <2> QED
    BY <2>1, <2>2
<1>9. After(e, order, s, k) = [e EXCEPT !.dp = s + k, !.mask = @ \cup (s..(s + k - 1))]
  BY <1>1, <1>6, <1>7, <1>8 DEF After
<1>10. (0..(p - 1)) \cup (s..(s + k - 1)) = 0..(s + k - 1)
  BY <1>0, <1>2, <1>4, <1>6, <1>7
<1>11. s + k \in Groups /\ s + k # NULL /\ s + k \in 0..N
  BY <1>0, <1>5, NullAssumption
<1>12. After(e, order, s, k).dp = s + k /\ After(e, order, s, k).mask = 0..(s + k - 1)
  BY <1>9, <1>10 DEF UpTo, Choices
<1> QED
  BY <1>0, <1>2, <1>4, <1>6, <1>7, <1>11, <1>12 DEF UpTo

\* What a client has tried is the list up to some place after its group.
LEMMA TriedDown ==
  ASSUME AutoInv, PrefixInv, NEW c \in Clients, st[c] # "free"
  PROVE  \E q \in 1..N : Tried(c) = 0..(q - 1) /\ choice[c].dp < q
<1>1. PICK p \in 0..N : UpTo(choice[c], p)
  BY DEF PrefixInv, Prefix
<1>2. choice[c].dp \in Groups /\ choice[c].dp # NULL
  BY SessionHasGroup, NullNoGroup
<1>3. N \in Nat /\ Groups = 0..(N - 1)
  BY OrderAssumption DEF Groups
<1>4. choice[c].dp <= p /\ p \in 0..N /\ Tried(c) = (0..(p - 1)) \cup {choice[c].dp}
  BY <1>1, <1>2 DEF UpTo, Tried
<1> DEFINE q == IF choice[c].dp = p THEN p + 1 ELSE p
<1>5. q \in 1..N /\ choice[c].dp < q
  BY <1>2, <1>3, <1>4
<1>6. (0..(p - 1)) \cup {choice[c].dp} = 0..(q - 1)
  BY <1>2, <1>3, <1>4
<1> QED
  BY <1>4, <1>5, <1>6

LEMMA BeforeDown ==
  ASSUME InPlace, NEW k \in 0..N
  PROVE  Before(k) = 0..(k - 1)
<1>1. \A i \in 0..(k - 1) : order[i] = i
  BY OrderAssumption DEF InPlace, Groups
<1> QED
  BY <1>1 DEF Before

\* A choice that find_dp has moved on.
LEMMA FindPrefix ==
  ASSUME InPlace, NEW e \in Choices, Prefix(e), NEW d, NEW ok,
         NEW s \in Groups, NEW k \in Groups, find_dp(e, order, d, ok, s, k)
  PROVE  Prefix(After(e, order, s, k))
<1>1. PICK p \in 0..N : UpTo(e, p)
  BY DEF Prefix
<1>2. s + k \in Groups /\ UpTo(After(e, order, s, k), s + k)
  BY <1>1, FindDown
<1>3. s + k \in 0..N
  BY <1>2, OrderAssumption DEF Groups
<1> QED
  BY <1>2, <1>3 DEF Prefix

LEMMA HookPrefix ==
  ASSUME AutoInv, InPlace, UNCHANGED order, NEW c \in Clients, NEW e \in Choices, Prefix(e),
         NEW a, NEW b, NEW known, connect_hook(c, e, a, b, known)
  PROVE  Prefix(choice'[c]) /\ \A x \in Clients : x # c => choice'[x] = choice[x]
<1>1. PICK s \in Groups, k \in Groups :
        /\ find_dp(e, order, detect', Allowed(a, b, known), s, k)
        /\ choice' = [choice EXCEPT ![c] = After(e, order, s, k)]
  BY DEF connect_hook
<1>2. Prefix(After(e, order, s, k))
  BY <1>1, FindPrefix
<1> QED
  BY <1>1, <1>2 DEF AutoInv, TypeOK

\* What on_trigger does when there is no sorting: the walk ends at place k;
\* when it ends with a group, all tried groups are before it and it waits for
\* the trigger.
LEMMA WalkDown ==
  ASSUME NoSort, AutoInv, PrefixInv, NEW c \in Clients, st[c] # "free",
         NEW type \in SUBSET Types, NEW alive, NEW stays \in BOOLEAN,
         on_trigger(c, type, alive, stays)
  PROVE  \E k \in 0..N, more \in BOOLEAN, e \in Choices :
           /\ UNCHANGED listvars
           /\ e.dp = choice[c].dp /\ e.found = type
           /\ \E p \in 0..N : UpTo(e, p) /\ (more => p = k)
           /\ more => /\ k \in Groups /\ choice[c].dp < k
                      /\ detect[k] \cap type # {}
           /\ cache' = Saved(c, type, k, more, e.mask)
           /\ \/ more /\ connect_hook(c, e, dst[c], body[c], asked[c])
              \/ /\ stays /\ UNCHANGED st
                 /\ ReconnectFails(c, e, asked[c]) \/ choice' = [choice EXCEPT ![c] = e]
              \/ Close(c)
<1> DEFINE re == (sq[c] \/ (~asked[c] /\ ~heard[c])) /\ alive
           More(k) == k < N /\ ~Leaves(c, k)
           E(k) == [dp |-> choice[c].dp, mask |-> Tried(c) \cup Before(k), found |-> type]
           again(k) == More(k) /\ re /\ "noreconn" \notin auto_level'[order[k]]
<1>1. PICK k \in 0..N :
        /\ EndsAt(c, type, re, k)
        /\ Sort(c, k, More(k))
        /\ cache' = Saved(c, type, k, More(k), E(k).mask)
        /\ \/ again(k) /\ connect_hook(c, E(k), dst[c], body[c], asked[c])
           \/ /\ stays /\ UNCHANGED st
              /\ ReconnectFails(c, E(k), asked[c]) \/ choice' = [choice EXCEPT ![c] = E(k)]
           \/ Close(c)
  BY DEF on_trigger
<1>2. /\ N \in Nat /\ Groups = 0..(N - 1)
      /\ choice[c].dp \in Groups /\ choice[c].dp # NULL /\ Tried(c) \subseteq Groups
  BY SessionHasGroup, OrderAssumption, NullNoGroup DEF Groups
<1>3. PICK q \in 1..N : Tried(c) = 0..(q - 1) /\ choice[c].dp < q
  BY TriedDown
<1>4. Before(k) = 0..(k - 1) /\ \A i \in Groups : order[i] = i
  BY BeforeDown DEF PrefixInv, InPlace
<1> DEFINE more == More(k)
           e == E(k)
           p == IF q < k THEN k ELSE q
<1>5. Tried(c) \cup Before(k) = 0..(p - 1) /\ p \in 0..N
  BY <1>2, <1>3, <1>4
<1>6. more => /\ k \in Groups /\ order[k] = k /\ k \notin Tried(c) /\ detect[k] \cap type # {}
              /\ q <= k
  <2>1. ASSUME more PROVE k \in Groups /\ order[k] = k
    BY <1>2, <1>4, <2>1
  <2>2. ASSUME more PROVE Offers(c, type, re, k)
    BY <1>1, <2>2 DEF EndsAt
  <2>3. ASSUME more PROVE k \notin Tried(c) /\ (detect[k] = {} \/ detect[k] \cap type # {})
    BY <2>1, <2>2, <2>3 DEF Offers
  <2>4. ASSUME more PROVE q <= k
    BY <1>2, <1>3, <2>3, <2>4
  <2>5. ASSUME more PROVE Tried(c) \subseteq Before(k)
    BY <1>2, <1>3, <1>4, <2>4, <2>5
  <2>6. ASSUME more PROVE detect[k] # {}
    BY <2>1, <2>5, <2>6 DEF Leaves
  <2> QED
    BY <2>1, <2>3, <2>4, <2>6
<1>7. e \in Choices /\ e.mask = 0..(p - 1) /\ e.dp = choice[c].dp /\ e.found = type
  <2>1. 0..(p - 1) \subseteq Groups
    BY <1>2, <1>5
  <2> QED
    BY <1>2, <1>5, <2>1 DEF Choices
<1>8. UpTo(e, p) /\ (more => p = k /\ choice[c].dp < k)
  BY <1>2, <1>3, <1>6, <1>7 DEF UpTo
<1>9. UNCHANGED listvars
  <2>1. more => auto_level[order[k]] \in Levels
    BY <1>6 DEF AutoInv, TypeOK, ListOK, OrderOK
  <2> QED
    BY <1>1, <2>1 DEF Sort, NoSort
<1>10. more \in BOOLEAN /\ k \in 0..N
  OBVIOUS
<1>11. /\ cache' = Saved(c, type, k, more, e.mask)
       /\ \/ more /\ connect_hook(c, e, dst[c], body[c], asked[c])
          \/ /\ stays /\ UNCHANGED st
             /\ ReconnectFails(c, e, asked[c]) \/ choice' = [choice EXCEPT ![c] = e]
          \/ Close(c)
  BY <1>1
<1> HIDE DEF more, e, p
<1> QED
  BY <1>5, <1>6, <1>7, <1>8, <1>9, <1>10, <1>11

\* What is saved goes on down the list as well.
LEMMA SavedPrefix ==
  ASSUME AutoInv, PrefixInv, NEW c \in Clients, NEW type, NEW k \in 0..N,
         NEW more \in BOOLEAN, more => k \in Groups, NEW p \in 0..N, more => p = k,
         cache' = Saved(c, type, k, more, 0..(p - 1))
  PROVE  /\ \A a \in Addrs : Prefix(cache'[a])
         /\ \A a \in Addrs : a # dst[c] => cache'[a] = cache[a]
         /\ more => /\ cache'[dst[c]].dp = k /\ cache'[dst[c]].found = type
                    /\ LeadsInv => cache'[dst[c]].mask # Groups
         /\ ~more => cache'[dst[c]].mask = {}
<1> DEFINE d == dst[c]
<1>1. /\ N \in Nat \ {0} /\ Groups = 0..(N - 1) /\ 0 \in Groups
      /\ cache \in [Addrs -> Choices] /\ d \in Addrs /\ order[0] = 0
      /\ more => order[k] = k
  BY OrderAssumption DEF AutoInv, TypeOK, PrefixInv, InPlace, Groups
<1>2. PICK r \in 0..N : UpTo(cache[d], r)
  BY <1>1 DEF PrefixInv, Prefix
<1>3. cache[d].mask = 0..(r - 1)
  BY <1>2 DEF UpTo
<1>4. cache' = [cache EXCEPT ![d] =
            IF more THEN [dp |-> k, mask |-> cache[d].mask \cup (0..(k - 1)), found |-> type]
                    ELSE [dp |-> 0, mask |-> {}, found |-> {}]]
  BY <1>1 DEF Saved
<1> HIDE DEF d
<1>5. \A a \in Addrs : a # d => cache'[a] = cache[a]
  BY <1>1, <1>4
<1>8. ASSUME more
      PROVE  /\ cache'[d].dp = k /\ cache'[d].found = type
             /\ cache'[d].mask = cache[d].mask \cup (0..(k - 1))
  <2> DEFINE M == cache[d].mask \cup (0..(k - 1))
  <2> HIDE DEF M
  <2>1. cache' = [cache EXCEPT ![d] = [dp |-> k, mask |-> M, found |-> type]]
    BY <1>4, <1>8 DEF M
  <2> QED
    BY <1>1, <2>1 DEF M
<1>9. ASSUME ~more PROVE cache'[d].dp = 0 /\ cache'[d].mask = {}
  BY <1>1, <1>4, <1>9
<1>6. Prefix(cache'[d])
  <2>1. CASE more
    <3> DEFINE m == IF r < k THEN k ELSE r
    <3>1. (0..(r - 1)) \cup (0..(k - 1)) = 0..(m - 1) /\ m \in 0..N /\ k <= m
      BY <1>1
    <3> HIDE DEF m
    <3>2. cache'[d].dp = k /\ cache'[d].mask = 0..(m - 1)
      BY <1>3, <1>8, <2>1, <3>1, Zenon
    <3>3. UpTo(cache'[d], m)
      BY <2>1, <3>1, <3>2, NullNoGroup DEF UpTo
    <3> QED
      BY <3>1, <3>3 DEF Prefix
  <2>2. CASE ~more
    <3>1. UpTo(cache'[d], 0) /\ 0 \in 0..N
      BY <1>1, <1>9, <2>2, NullNoGroup DEF UpTo
    <3> QED
      BY <3>1 DEF Prefix
  <2> QED
    BY <2>1, <2>2
<1>7. ASSUME more, LeadsInv PROVE cache'[d].mask # Groups
  <2>1. r < N
    <3>1. r = N => cache[d].dp # NULL /\ cache[d].mask = Groups
      BY <1>1, <1>2, <1>3 DEF UpTo
    <3> QED
      BY <1>1, <1>7, <3>1 DEF LeadsInv, Leads
  <2>2. N - 1 \in Groups /\ N - 1 \notin (0..(r - 1)) \cup (0..(k - 1))
    BY <1>1, <1>7, <2>1
  <2> QED
    BY <1>3, <1>7, <1>8, <2>2
<1> QED
  BY <1>5, <1>6, <1>7, <1>8, <1>9 DEF d, PrefixInv

LEMMA TriggerPrefix ==
  ASSUME NoSort, AutoInv, PrefixInv, NEW c \in Clients, st[c] # "free",
         NEW type \in SUBSET Types, NEW alive, NEW stays \in BOOLEAN,
         stays => st[c] = "tunnel",
         on_trigger(c, type, alive, stays)
  PROVE  /\ UNCHANGED listvars
         /\ Prefix(choice'[c]) /\ \A a \in Addrs : Prefix(cache'[a])
         /\ \A x \in Clients : x # c => choice'[x] = choice[x]
         /\ OneTrigger /\ LeadsInv => LeadsInv'
         /\ NoLimits /\ Reconnects(c) => choice'[c].dp = cache'[dst[c]].dp
<1>1. PICK k \in 0..N, more \in BOOLEAN, e \in Choices :
           /\ UNCHANGED listvars
           /\ e.dp = choice[c].dp /\ e.found = type
           /\ \E p \in 0..N : UpTo(e, p) /\ (more => p = k)
           /\ more => /\ k \in Groups /\ choice[c].dp < k
                      /\ detect[k] \cap type # {}
           /\ cache' = Saved(c, type, k, more, e.mask)
           /\ \/ more /\ connect_hook(c, e, dst[c], body[c], asked[c])
              \/ /\ stays /\ UNCHANGED st
                 /\ ReconnectFails(c, e, asked[c]) \/ choice' = [choice EXCEPT ![c] = e]
              \/ Close(c)
  BY WalkDown
<1>2. PICK p \in 0..N : UpTo(e, p) /\ (more => p = k)
  BY <1>1
<1>3. UNCHANGED <<order, detect, auto_level>> /\ InPlace /\ Prefix(e) /\ e.mask = 0..(p - 1)
  BY <1>1, <1>2 DEF listvars, ordervars, PrefixInv, Prefix, UpTo
<1>4. choice \in [Clients -> Choices] /\ choice[c].dp \in Groups /\ choice[c].dp # NULL
      /\ N \in Nat /\ Groups = 0..(N - 1) /\ dst[c] \in Addrs /\ body[c] \in Bodies
  BY SessionHasGroup, NullNoGroup, OrderAssumption DEF AutoInv, TypeOK, Groups
<1>5. /\ \A a \in Addrs : Prefix(cache'[a])
      /\ \A a \in Addrs : a # dst[c] => cache'[a] = cache[a]
      /\ more => /\ cache'[dst[c]].dp = k /\ cache'[dst[c]].found = type
                 /\ LeadsInv => cache'[dst[c]].mask # Groups
      /\ ~more => cache'[dst[c]].mask = {}
  <2>1. cache' = Saved(c, type, k, more, 0..(p - 1))
    BY <1>1, <1>3
  <2>2. (more => k \in Groups) /\ (more => p = k)
    BY <1>1, <1>2
  <2> QED
    BY <2>1, <2>2, SavedPrefix
<1>6. Prefix(choice'[c]) /\ \A x \in Clients : x # c => choice'[x] = choice[x]
  <2>1. CASE connect_hook(c, e, dst[c], body[c], asked[c])
    BY <1>3, <2>1, HookPrefix
  <2>2. CASE ReconnectFails(c, e, asked[c])
    <3>1. CASE choice' = [choice EXCEPT ![c] = [e EXCEPT !.mask = Groups]]
      <4>1. UpTo([e EXCEPT !.mask = Groups], N) /\ N \in 0..N
        BY <1>1, <1>4 DEF UpTo, Choices
      <4> QED
        BY <1>4, <3>1, <4>1 DEF Prefix
    <3>2. CASE \E s, j \in Groups :
                 /\ find_dp(e, order', detect', Allowed(dst[c], body[c], asked[c]), s, j)
                 /\ choice' = [choice EXCEPT ![c] = After(e, order', s, j)]
      <4>1. PICK s \in Groups, j \in Groups :
                 /\ find_dp(e, order, detect', Allowed(dst[c], body[c], asked[c]), s, j)
                 /\ choice' = [choice EXCEPT ![c] = After(e, order, s, j)]
        BY <1>3, <3>2
      <4> QED
        BY <1>3, <1>4, <4>1, FindPrefix
    <3> QED
      BY <2>2, <3>1, <3>2 DEF ReconnectFails
  <2>3. CASE choice' = [choice EXCEPT ![c] = e]
    BY <1>3, <1>4, <2>3
  <2>4. CASE Close(c)
    BY <1>4, <2>4, NothingPrefix DEF Close
  <2> QED
    BY <1>1, <2>1, <2>2, <2>3, <2>4
<1>7. ASSUME OneTrigger, LeadsInv PROVE LeadsInv'
  <2>1. Leads(cache'[dst[c]])
    <3>1. CASE more
      <4>1. detect[k] \in Detects
        BY <1>1, <3>1 DEF AutoInv, TypeOK, ListOK, OrderOK
      <4>2. \A d \in Detects \ {{}} : d \cap type # {}
        BY <1>1, <1>7, <3>1, <4>1 DEF OneTrigger
      <4> QED
        BY <1>5, <1>7, <3>1, <4>2 DEF Leads
    <3>2. CASE ~more
      BY <1>4, <1>5, <3>2 DEF Leads
    <3> QED
      BY <3>1, <3>2
  <2>2. \A a \in Addrs : Leads(cache'[a])
    BY <1>5, <1>7, <2>1 DEF LeadsInv
  <2> QED
    BY <2>2 DEF LeadsInv, Leads
<1>8. ASSUME NoLimits, Reconnects(c) PROVE choice'[c].dp = cache'[dst[c]].dp
  <2>1. CASE more /\ connect_hook(c, e, dst[c], body[c], asked[c])
    <3>1. PICK s \in Groups, j \in Groups :
            /\ find_dp(e, order, detect, Allowed(dst[c], body[c], asked[c]), s, j)
            /\ choice' = [choice EXCEPT ![c] = After(e, order, s, j)]
      BY <1>3, <2>1 DEF connect_hook
    <3>0. UpTo(e, p) /\ e.dp # NULL /\ p = k
      BY <1>1, <1>2, <1>4, <2>1
    <3>2. /\ s = (IF e.dp = NULL THEN 0 ELSE e.dp) /\ s + j \in Groups /\ p <= s + j
          /\ \A i \in 0..j : Round(s, i) = s + i
          /\ After(e, order, s, j).dp = s + j
      BY <1>2, <1>3, <3>1, FindDown
    <3>3. s = e.dp /\ k <= s + j /\ Allowed(dst[c], body[c], asked[c]) = Groups
      BY <1>4, <1>8, <3>0, <3>2 DEF NoLimits, Allowed, AutoInv, TypeOK
    <3>4. Suits(k, e, detect, Allowed(dst[c], body[c], asked[c]))
      BY <1>1, <1>2, <1>3, <1>4, <2>1, <3>3 DEF Suits
    <3>5. s + j = k
      <4>1. SUFFICES ASSUME k < s + j PROVE FALSE
        BY <1>1, <1>4, <2>1, <3>2, <3>3
      <4> DEFINE i == k - s
      <4>2. i \in 0..(j - 1) /\ i \in 0..j /\ s + i = k
        BY <1>1, <1>4, <2>1, <3>2, <3>3, <4>1
      <4>3. order[Round(s, i)] = k
        BY <1>1, <1>3, <2>1, <3>2, <4>2 DEF InPlace
      <4> QED
        BY <3>1, <3>4, <4>2, <4>3 DEF find_dp
    <3> QED
      BY <1>4, <1>5, <2>1, <3>1, <3>2, <3>5
  <2>2. CASE stays /\ UNCHANGED st
    BY <1>8, <2>2 DEF Reconnects
  <2>3. CASE Close(c)
    BY <1>8, <2>3 DEF Close, Reconnects, AutoInv, TypeOK
  <2> QED
    BY <1>1, <2>1, <2>2, <2>3
<1> QED
  BY <1>1, <1>5, <1>6, <1>7, <1>8

LEMMA PrefixInit == ~Loaded /\ Init => PrefixInv /\ LeadsInv
<1> SUFFICES ASSUME ~Loaded, Init PROVE PrefixInv /\ LeadsInv
  OBVIOUS
<1>1. [Nothing EXCEPT !.dp = NULL] = Nothing
  BY DEF Nothing
<1>2. \A a \in Addrs : cache[a] = Nothing
  BY <1>1 DEF Init
<1>3. InPlace
  BY DEF Init, ListInit, OrderInit, InPlace
<1>4. \A c \in Clients : choice[c] = Nothing
  BY DEF Init
<1>5. Leads(Nothing)
  BY DEF Leads, Nothing
<1> QED
  BY <1>2, <1>3, <1>4, <1>5, NothingPrefix DEF PrefixInv, LeadsInv

\* Every step keeps the masks as they should be.
LEMMA PrefixStep ==
  ASSUME NoSort, AutoInv, PrefixInv, [Next]_vars
  PROVE  /\ PrefixInv'
         /\ OneTrigger /\ LeadsInv => LeadsInv'
         /\ NoLimits => \A c \in Clients : Reconnects(c) => choice'[c].dp = cache'[dst[c]].dp
<1> DEFINE Goal ==
         /\ PrefixInv'
         /\ OneTrigger /\ LeadsInv => LeadsInv'
         /\ NoLimits => \A c \in Clients : Reconnects(c) => choice'[c].dp = cache'[dst[c]].dp
\* One client, and nobody reconnects.
<1>1. ASSUME NEW c \in Clients, UNCHANGED order, Prefix(choice'[c]),
             \A x \in Clients : x # c => choice'[x] = choice[x],
             \A a \in Addrs : cache'[a] \in {cache[a], Nothing},
             \A x \in Clients : ~Reconnects(x)
      PROVE  Goal
  <2>1. \A a \in Addrs : Prefix(cache'[a]) /\ (LeadsInv => Leads(cache'[a]))
    <3>1. Leads(Nothing)
      BY DEF Leads, Nothing
    <3> QED
      BY <1>1, <3>1, NothingPrefix DEF PrefixInv, LeadsInv
  <2>2. \A x \in Clients : Prefix(choice'[x])
    BY <1>1 DEF PrefixInv
  <2>3. InPlace'
    BY <1>1 DEF PrefixInv, InPlace
  <2>4. PrefixInv'
    BY <2>1, <2>2, <2>3 DEF PrefixInv, Prefix, UpTo
  <2>5. LeadsInv => LeadsInv'
    BY <2>1 DEF LeadsInv, Leads
  <2> QED
    BY <1>1, <2>4, <2>5
<1>2. ASSUME NEW c \in Clients, NEW a \in Addrs, NEW b \in Bodies, Connect(c, a, b)
      PROVE  Goal
  <2>1. st[c] = "free" /\ UNCHANGED <<order, detect>>
    BY <1>2 DEF Connect, groupvars, listvars, ordervars
  <2>2. PICK e \in {cache[a], Nothing} : cache_get(a, e) /\ connect_hook(c, e, a, b, FALSE)
    BY <1>2 DEF Connect
  <2>8. Nothing \in Choices
    BY DEF Nothing, Choices
  <2>3. e \in Choices /\ Prefix(e)
    BY <2>8, NothingPrefix DEF AutoInv, TypeOK, PrefixInv
  <2>4. Prefix(choice'[c]) /\ \A x \in Clients : x # c => choice'[x] = choice[x]
    BY <2>1, <2>2, <2>3, HookPrefix DEF PrefixInv
  <2>5. \A x \in Addrs : cache'[x] \in {cache[x], Nothing}
    BY <2>2 DEF cache_get, AutoInv, TypeOK
  <2>6. \A x \in Clients : x # c => st'[x] = st[x]
    BY <2>2 DEF connect_hook, AutoInv, TypeOK
  <2>7. \A x \in Clients : ~Reconnects(x)
    BY <2>1, <2>4, <2>6 DEF Reconnects
  <2> QED
    BY <1>1, <2>1, <2>4, <2>5, <2>7
<1>3. ASSUME NEW c \in Clients, DelayedData(c) PROVE Goal
  <2>1. st[c] = "delayed" /\ UNCHANGED <<order, detect, cache>>
    BY <1>3 DEF DelayedData, groupvars, listvars, ordervars
  <2>2. /\ Prefix(choice'[c])
        /\ \A x \in Clients : x # c => choice'[x] = choice[x]
    <3>1. choice[c] \in Choices /\ Prefix(choice[c])
      BY DEF AutoInv, TypeOK, PrefixInv
    <3>2. CASE connect_hook(c, choice[c], dst[c], body[c], TRUE)
      BY <2>1, <3>1, <3>2, HookPrefix DEF PrefixInv
    <3>3. CASE Close(c)
      BY <3>3, NothingPrefix DEF Close, AutoInv, TypeOK
    <3> QED
      BY <1>3, <3>2, <3>3 DEF DelayedData
  <2>3. \A x \in Clients : x # c => st'[x] = st[x]
    BY <1>3 DEF DelayedData, connect_hook, Close, AutoInv, TypeOK
  <2>4. \A x \in Clients : ~Reconnects(x)
    BY <2>1, <2>2, <2>3 DEF Reconnects
  <2> QED
    BY <1>1, <2>1, <2>2, <2>4
<1>4. ASSUME NEW c \in Clients, Connected(c) \/ FirstData(c) PROVE Goal
  <2>1. st'[c] \in {"free", "tunnel"} /\ Only(c) /\ UNCHANGED <<cache, order>>
    BY <1>4, ConnectedStep DEF Connected, FirstData, groupvars, listvars, ordervars
  <2>2. Prefix(choice'[c])
    <3>1. CASE setup_conn(c)
      <4>1. PICK s \in Groups, k \in Groups :
              /\ find_dp(choice[c], order, detect, Allowed(dst[c], body[c], TRUE), s, k)
              /\ choice' = [choice EXCEPT ![c] = After(@, order, s, k)]
        BY <3>1 DEF setup_conn
      <4>2. choice[c] \in Choices /\ Prefix(choice[c]) /\ choice \in [Clients -> Choices]
        BY DEF AutoInv, TypeOK, PrefixInv
      <4>3. choice'[c] = After(choice[c], order, s, k)
        BY <4>1, <4>2
      <4> QED
        BY <4>1, <4>2, <4>3, FindPrefix DEF PrefixInv
    <3>2. CASE Close(c)
      BY <3>2, NothingPrefix DEF Close, AutoInv, TypeOK
    <3>3. CASE UNCHANGED choice
      BY <3>3 DEF PrefixInv
    <3> QED
      BY <1>4, <3>1, <3>2, <3>3 DEF Connected, FirstData
  <2>3. \A x \in Clients : ~Reconnects(x)
    BY <2>1 DEF Only, Reconnects
  <2> QED
    BY <1>1, <2>1, <2>2, <2>3 DEF Only
<1>5. ASSUME NEW c \in Clients, MoreData(c) \/ Heard(c) PROVE Goal
  <2>1. UNCHANGED <<cache, st, choice, order>>
    BY <1>5 DEF MoreData, Heard, groupvars, listvars, ordervars
  <2> QED
    BY <1>1, <2>1 DEF Reconnects, PrefixInv
<1>6. ASSUME NEW c \in Clients, Gone(c) PROVE Goal
  <2>1. Only(c) /\ st'[c] = "free" /\ UNCHANGED <<cache, order>> /\ choice'[c] = Nothing
    BY <1>6, GoneStep DEF Gone, Close, groupvars, listvars, ordervars, AutoInv, TypeOK
  <2>2. \A x \in Clients : ~Reconnects(x)
    BY <2>1 DEF Only, Reconnects
  <2> QED
    BY <1>1, <2>1, <2>2, NothingPrefix DEF Only
<1>7. ASSUME NEW c \in Clients, NEW type \in SUBSET Types, NEW alive, NEW stays \in BOOLEAN,
             st[c] # "free", stays => st[c] = "tunnel", on_trigger(c, type, alive, stays)
      PROVE  Goal
  <2>1. /\ UNCHANGED listvars
        /\ Prefix(choice'[c]) /\ \A a \in Addrs : Prefix(cache'[a])
        /\ \A x \in Clients : x # c => choice'[x] = choice[x]
        /\ OneTrigger /\ LeadsInv => LeadsInv'
        /\ NoLimits /\ Reconnects(c) => choice'[c].dp = cache'[dst[c]].dp
    BY <1>7, TriggerPrefix
  <2>2. InPlace' /\ \A x \in Clients : Prefix(choice'[x])
    BY <2>1 DEF PrefixInv, InPlace, listvars, ordervars
  <2>3. PrefixInv'
    BY <2>1, <2>2 DEF PrefixInv, Prefix, UpTo
  <2>4. \A x \in Clients : Reconnects(x) => x = c
    BY <1>7, TriggerStep DEF Only, Reconnects
  <2> QED
    BY <2>1, <2>3, <2>4
<1>8. ASSUME NEW c \in Clients, NEW bad, on_response(c, bad) PROVE Goal
  <2>1. st[c] = "tunnel"
    BY <1>8 DEF on_response
  <2>2. CASE \E k \in Groups : on_trigger(c, detect[order[k]], TRUE, TRUE)
    <3>1. PICK k \in Groups : on_trigger(c, detect[order[k]], TRUE, TRUE)
      BY <2>2
    <3>2. detect[order[k]] \in SUBSET Types
      BY AutoAssumption DEF AutoInv, TypeOK, ListOK, OrderOK
    <3> QED
      BY <1>7, <2>1, <3>1, <3>2
  <2>3. CASE /\ choice' = [choice EXCEPT ![c].mask = Tried(c)]
             /\ UNCHANGED <<groupvars, cache, st>>
    <3>1. UNCHANGED <<order, cache>> /\ \A x \in Clients : ~Reconnects(x)
      <4>1. \A x \in Clients : x # c => choice'[x] = choice[x]
        BY <2>3 DEF AutoInv, TypeOK
      <4> QED
        BY <2>1, <2>3, <4>1 DEF groupvars, listvars, ordervars, Reconnects
    <3>2. choice[c] \in Choices /\ choice \in [Clients -> Choices] /\ choice[c].dp \in Groups
      BY <2>1, SessionHasGroup DEF AutoInv, TypeOK
    <3>3. PICK q \in 1..N : Tried(c) = 0..(q - 1) /\ choice[c].dp < q
      BY <2>1, TriedDown
    <3>4. choice'[c].mask = Tried(c) /\ choice'[c].dp = choice[c].dp
          /\ \A x \in Clients : x # c => choice'[x] = choice[x]
      BY <2>3, <3>2 DEF Choices
    <3>5. UpTo(choice'[c], q) /\ q \in 0..N
      BY <3>2, <3>3, <3>4, NullNoGroup, OrderAssumption DEF UpTo, Groups
    <3> QED
      BY <1>1, <3>1, <3>4, <3>5 DEF Prefix
  <2> QED
    BY <1>8, <2>2, <2>3 DEF on_response
<1>9. ASSUME NEW c \in Clients, Trigger(c) PROVE Goal
  <2>1. {"conn"} \in SUBSET Types /\ {"torst"} \in SUBSET Types /\ {"ssl_err"} \in SUBSET Types
    BY DEF Types
  <2> HIDE DEF Goal
  <2>2. CASE on_connerr(c)
    BY <1>7, <2>1, <2>2 DEF on_connerr
  <2>3. CASE on_torst(c)
    BY <1>7, <2>1, <2>3 DEF on_torst
  <2>4. ASSUME NEW is_client \in BOOLEAN, on_fin(c, is_client) PROVE Goal
    BY <1>7, <2>1, <2>4 DEF on_fin
  <2> QED
    BY <1>8, <1>9, <2>2, <2>3, <2>4 DEF Trigger
<1>10. CASE UNCHANGED vars
  <2>1. UNCHANGED <<cache, st, choice, order>>
    BY <1>10 DEF vars, groupvars, listvars, ordervars
  <2>2. PrefixInv' /\ (LeadsInv => LeadsInv')
    BY <2>1 DEF PrefixInv, InPlace, Prefix, UpTo, LeadsInv, Leads
  <2> QED
    BY <2>1, <2>2 DEF Reconnects
<1> QED
  BY <1>2, <1>3, <1>4, <1>5, <1>6, <1>9, <1>10 DEF Next

\* An entry that leads on has a group to give.
LEMMA LeadsUsable == AutoInv /\ LeadsInv => CacheUsable
<1> SUFFICES ASSUME AutoInv, LeadsInv, NEW a \in Addrs, cache[a].dp # NULL
             PROVE  \E g \in Groups : Suits(g, cache[a], detect, Groups)
  BY DEF CacheUsable
<1>1. /\ cache[a] \in Choices /\ detect \in [Groups -> Detects] /\ Leads(cache[a])
  BY DEF AutoInv, TypeOK, ListOK, OrderOK, LeadsInv
<1>2. cache[a].dp \in Groups /\ cache[a].mask \subseteq Groups
  BY <1>1 DEF Choices
<1>3. CASE cache[a].mask = {}
  BY <1>2, <1>3 DEF Suits
<1>4. CASE \A d \in Detects \ {{}} : d \cap cache[a].found # {}
  <2>1. PICK g \in Groups : g \notin cache[a].mask
    BY <1>1, <1>2 DEF Leads
  <2> QED
    BY <1>1, <1>4, <2>1 DEF Suits
<1> QED
  BY <1>1, <1>3, <1>4 DEF Leads

(***************************************************************************)
(* With one set of triggers, no sorting and no entries from a file the     *)
(* cache never shuts an address off: whatever the clients and the answers, *)
(* and whatever limits the groups have, an entry leaves find_dp a group.   *)
(***************************************************************************)
THEOREM CacheStaysUsable ==
  ASSUME NoSort, OneTrigger, ~Loaded
  PROVE  Spec => []CacheUsable
<1> DEFINE I == AutoInv /\ PrefixInv /\ LeadsInv
<1>1. Init => I
  BY AutoInit, PrefixInit
<1>2. I /\ [Next]_vars => I'
  BY AutoStep, PrefixStep
<1>3. I => CacheUsable
  BY LeadsUsable
<1> HIDE DEF I
<1> QED
  BY <1>1, <1>2, <1>3, PTL DEF Spec

(***************************************************************************)
(* With no sorting, no limits and no entries from a file a client that is  *)
(* reconnected gets the group that on_trigger has saved, whatever the      *)
(* triggers the groups wait for.                                           *)
(***************************************************************************)
THEOREM ReconnectsAsSaved ==
  ASSUME NoSort, NoLimits, ~Loaded
  PROVE  Spec => SavedGroupUsed
<1> DEFINE I == AutoInv /\ PrefixInv
<1>1. Init => I
  BY AutoInit, PrefixInit
<1>2. I /\ [Next]_vars =>
        /\ I'
        /\ [\A c \in Clients : Reconnects(c) => choice'[c].dp = cache'[dst[c]].dp]_vars
  BY AutoStep, PrefixStep
<1> HIDE DEF I
<1> QED
  BY <1>1, <1>2, PTL DEF Spec, SavedGroupUsed
=============================================================================
