-------------------------- MODULE TimerListProofs --------------------------
(***************************************************************************)
(* Proofs about the linked list of timers, for any number of slots, any    *)
(* delays and any bound of the clock: it stays one sorted chain            *)
(* (ListIsSorted), and it implements the abstract timer queue that         *)
(* EventPool uses in its place (ImplementsQueue).                          *)
(***************************************************************************)
EXTENDS TimerList, Integers, FiniteSetTheorems, WellFoundedInduction, TLAPS

(***************************************************************************)
(* Every set of natural numbers that is not empty has a least member.      *)
(***************************************************************************)
LEMMA LeastNat ==
  ASSUME NEW T \in SUBSET Nat, T # {}
  PROVE  \E x \in T : \A y \in T : x <= y
<1> DEFINE R == OpToRel(<, Nat)
<1>1. IsWellFoundedOn(R, Nat)
  BY NatLessThanWellFounded
<1>2. \A x, y \in Nat : <<y, x>> \in R <=> y < x
  BY DEF OpToRel
<1> HIDE DEF R
<1>3. PICK x \in T : \A y \in T : ~(<<y, x>> \in R)
  BY <1>1, WFMin
<1>4. \A y \in T : x \in Nat /\ y \in Nat /\ ~(y < x)
  BY <1>2, <1>3
<1>5. \A y \in T : x <= y
  BY <1>4
<1> QED
  BY <1>3, <1>5

-----------------------------------------------------------------------------
(***************************************************************************)
(* The inductive invariant: the list is a chain of some length.  That the  *)
(* length is the number of armed slots follows from it (ChainLength).      *)
(***************************************************************************)
ListInv ==
  /\ TypeOK
  /\ \E n \in Nat : \E s \in [1..n -> Slots] : Chain(n, s)

LEMMA ChainLength ==
  ASSUME NEW n \in Nat, NEW s \in [1..n -> Slots], Chain(n, s)
  PROVE  Cardinality(Armed) = n
<1>1. IsFiniteSet(1..n) /\ Cardinality(1..n) = n
  BY FS_Interval
<1>2. s \in Bijection(1..n, Armed)
  BY DEF Chain, Armed, Bijection, Injection, Surjection, IsInjective
<1>3. ExistsBijection(1..n, Armed)
  BY <1>2 DEF ExistsBijection
<1> QED
  BY <1>1, <1>3, FS_Bijection

LEMMA InvSorted == ListInv => ListIsSorted
BY ChainLength DEF ListInv, ListIsSorted

(***************************************************************************)
(* Where set_timer's walk back from the end stops: at the last place whose *)
(* deadline comes before ms, or past the front of the list.                *)
(***************************************************************************)
LEMMA WalkBack ==
  ASSUME TypeOK, NEW n \in Nat, NEW s \in [1..n -> Slots], Chain(n, s),
         NEW ms \in Nat \ {0}
  PROVE  \E k \in 0..n : /\ InsertAfter(ms) = Place(n, s, k)
                         /\ \A i \in 1..n : i <= k <=> tv_ms[s[i]] < ms
<1> USE ListAssumption
<1> DEFINE Late == {i \in 1..n : tv_ms[s[i]] >= ms}
<1>1. PICK k \in 0..n : \A i \in 1..n : i <= k <=> tv_ms[s[i]] < ms
  <2>1. CASE Late = {}
    <3>1. \A i \in 1..n : i <= n <=> tv_ms[s[i]] < ms
      BY <2>1 DEF TypeOK
    <3> QED
      BY <3>1
  <2>2. CASE Late # {}
    <3>1. Late \in SUBSET Nat
      OBVIOUS
    <3>2. PICK x \in Late : \A y \in Late : x <= y
      BY <2>2, <3>1, LeastNat
    <3>3. x - 1 \in 0..n
      BY <3>2
    <3>4. ASSUME NEW i \in 1..n
          PROVE  i <= x - 1 <=> tv_ms[s[i]] < ms
      <4>1. tv_ms[s[i]] \in Nat /\ tv_ms[s[x]] \in Nat /\ tv_ms[s[x]] >= ms /\ x \in 1..n
        BY <3>2 DEF TypeOK
      <4>2. x <= i => tv_ms[s[x]] <= tv_ms[s[i]]
        BY <4>1 DEF Chain
      <4>3. tv_ms[s[i]] >= ms => x <= i
        BY <3>2
      <4> QED
        BY <4>1, <4>2, <4>3
    <3> QED
      BY <3>3, <3>4
  <2> QED
    BY <2>1, <2>2
<1> DEFINE back[p \in Pointer] ==
             IF p # NULL /\ tv_ms[p] >= ms THEN back[tv_prev[p]] ELSE p
<1>2. back = CHOOSE f : f = [p \in Pointer |->
               IF p # NULL /\ tv_ms[p] >= ms THEN f[tv_prev[p]] ELSE p]
  OBVIOUS
<1>3. InsertAfter(ms) = back[tv_end]
  BY DEF InsertAfter
<1> HIDE DEF back
<1> DEFINE P == Place(n, s, k)
<1> DEFINE g == [p \in Pointer |-> IF p # NULL /\ tv_ms[p] >= ms THEN P ELSE p]
<1>4. P \in Pointer /\ (P = NULL \/ tv_ms[P] < ms)
  BY <1>1 DEF Place, Pointer
<1>5. ASSUME NEW p \in Slots, tv_ms[p] >= ms
      PROVE  g[tv_prev[p]] = P
  <2>0. tv_ms[p] \in Nat /\ tv_ms[p] # 0
    BY <1>5 DEF TypeOK
  <2>1. PICK i \in 1..n : p = s[i]
    BY <2>0 DEF Chain, Armed
  <2>2. i > k /\ tv_prev[p] = Place(n, s, i - 1)
    BY <1>1, <1>5, <2>1 DEF Chain, TypeOK
  <2>3. CASE i - 1 = k
    <3>1. tv_prev[p] = P
      BY <2>2, <2>3
    <3>2. P # NULL => P \in Slots /\ tv_ms[P] \in Nat
      BY <1>4 DEF TypeOK, Pointer
    <3>3. ~(P # NULL /\ tv_ms[P] >= ms)
      BY <1>4, <3>2
    <3> HIDE DEF P
    <3> QED
      BY <1>4, <3>1, <3>3
  <2>4. CASE i - 1 > k
    <3>1. i - 1 \in 1..n /\ tv_prev[p] = s[i - 1]
      BY <2>2, <2>4 DEF Place
    <3>2. tv_ms[s[i - 1]] >= ms /\ s[i - 1] \in Slots
      BY <1>1, <2>4, <3>1 DEF TypeOK
    <3> HIDE DEF P
    <3> QED
      BY <3>1, <3>2 DEF Pointer
  <2> QED
    BY <2>2, <2>3, <2>4
<1>6. g = [p \in Pointer |->
             IF p # NULL /\ tv_ms[p] >= ms THEN g[tv_prev[p]] ELSE p]
  <2> HIDE DEF P
  <2> QED
    BY <1>5 DEF Pointer
<1>7. back = [p \in Pointer |->
                IF p # NULL /\ tv_ms[p] >= ms THEN back[tv_prev[p]] ELSE p]
  <2> HIDE DEF g
  <2> QED
    BY <1>2, <1>6
<1> DEFINE Wrong == {j \in k..n : back[Place(n, s, j)] # P}
<1>8. Wrong = {}
  <2>1. SUFFICES ASSUME Wrong # {} PROVE FALSE
    OBVIOUS
  <2>2. Wrong \in SUBSET Nat
    BY <1>1
  <2>3. PICK j \in Wrong : \A y \in Wrong : j <= y
    <3> HIDE DEF Wrong
    <3> QED
      BY <2>1, <2>2, LeastNat
  <2>4. j # k
    <3>1. P = NULL \/ (P \in Slots /\ tv_ms[P] \in Nat /\ tv_ms[P] < ms)
      BY <1>4 DEF Pointer, TypeOK
    <3>2. back[P] = P
      BY <1>4, <1>7, <3>1
    <3> QED
      BY <2>3, <3>2
  <2>5. j \in 1..n /\ j - 1 \in k..n /\ j > k
    BY <1>1, <2>3, <2>4
  <2>6. back[Place(n, s, j - 1)] = P
    BY <2>3, <2>5
  <2>7. /\ Place(n, s, j) = s[j]
        /\ s[j] \in Slots
        /\ tv_ms[s[j]] >= ms
        /\ tv_prev[s[j]] = Place(n, s, j - 1)
    BY <1>1, <2>5 DEF Place, Chain, TypeOK
  <2>8. back[s[j]] = back[Place(n, s, j - 1)]
    BY <1>7, <2>7 DEF Pointer
  <2> QED
    BY <2>3, <2>6, <2>7, <2>8
<1>9. back[tv_end] = P
  <2>1. tv_end = Place(n, s, n) /\ n \in k..n
    BY <1>1 DEF Chain
  <2> QED
    BY <1>8, <2>1
<1> QED
  BY <1>1, <1>3, <1>9

-----------------------------------------------------------------------------
(***************************************************************************)
(* set_timer of a slot that is not armed puts it one place behind the slot *)
(* the walk stops at, and the list is a chain with one slot more.          *)
(***************************************************************************)
LEMMA Inserted ==
  ASSUME TypeOK, NEW n \in Nat, NEW s \in [1..n -> Slots], Chain(n, s),
         NEW v \in Slots, NEW d \in Delays, tv_ms[v] = 0, set_timer(v, d)
  PROVE  \E r \in [1..(n + 1) -> Slots] : Chain(n + 1, r)'
<1> USE ListAssumption
<1> DEFINE ms == Deadline(d)
<1>1. ms \in Nat \ {0}
  BY DEF Deadline, TypeOK
<1>2. PICK k \in 0..n : /\ InsertAfter(ms) = Place(n, s, k)
                        /\ \A i \in 1..n : i <= k <=> tv_ms[s[i]] < ms
  <2> HIDE DEF ms
  <2> QED
    BY <1>1, WalkBack
<1> DEFINE prev == Place(n, s, k)
           next == Place(n, s, k + 1)
           r == [i \in 1..(n + 1) |-> IF i <= k THEN s[i]
                                      ELSE IF i = k + 1 THEN v ELSE s[i - 1]]
<1>3. next = IF prev = NULL THEN tv_start ELSE tv_next[prev]
  BY <1>2 DEF Place, Chain
<1>b. InsertAfter(ms) = prev
  BY <1>2
<1>4. /\ tv_ms' = [tv_ms EXCEPT ![v] = ms]
      /\ tv_next' = [w \in Slots |-> CASE w = v    -> next
                                       [] w = prev -> v
                                       [] OTHER    -> tv_next[w]]
      /\ tv_prev' = [w \in Slots |-> CASE w = v    -> prev
                                       [] w = next -> v
                                       [] OTHER    -> tv_prev[w]]
      /\ tv_start' = IF tv_start = NULL \/ next = tv_start THEN v ELSE tv_start
      /\ tv_end' = IF tv_end = NULL \/ prev = tv_end THEN v ELSE tv_end
  <2> HIDE DEF next, prev
  <2> QED
    BY <1>3, <1>b DEF set_timer
<1> HIDE DEF ms
<1>5. \A i \in 1..n : s[i] # v /\ s[i] \in Slots
  BY DEF Chain, Armed
<1>6. r \in [1..(n + 1) -> Slots]
  BY <1>2
<1>7. /\ \A i \in 1..k : r[i] = s[i]
      /\ r[k + 1] = v
      /\ \A i \in (k + 2)..(n + 1) : r[i] = s[i - 1]
  BY <1>2
<1> HIDE DEF r
\* A slot of the new chain is v, one before it or one behind it.
<1>8. ASSUME NEW i \in 1..(n + 1)
      PROVE  i \in 1..k \/ i = k + 1 \/ i \in (k + 2)..(n + 1)
  BY <1>2
<1>a. \A a, b \in 1..n : s[a] = s[b] => a = b
  BY DEF Chain
<1>9. \A i, j \in 1..(n + 1) : r[i] = r[j] => i = j
  <2>1. SUFFICES ASSUME NEW i \in 1..(n + 1), NEW j \in 1..(n + 1), r[i] = r[j]
                 PROVE  i = j
    OBVIOUS
  <2>2. CASE i \in 1..k
    BY <1>5, <1>7, <1>8, <1>a, <2>1, <2>2
  <2>3. CASE i = k + 1
    BY <1>5, <1>7, <1>8, <1>a, <2>1, <2>3
  <2>4. CASE i \in (k + 2)..(n + 1)
    BY <1>5, <1>7, <1>8, <1>a, <2>1, <2>4
  <2> QED
    BY <1>8, <2>2, <2>3, <2>4
<1>10. \A w \in Slots : w \in Armed' <=> \E i \in 1..(n + 1) : w = r[i]
  <2>1. SUFFICES ASSUME NEW w \in Slots
                 PROVE  w \in Armed' <=> \E i \in 1..(n + 1) : w = r[i]
    OBVIOUS
  <2>2. w \in Armed' <=> w = v \/ w \in Armed
    BY <1>1, <1>4 DEF Armed, TypeOK
  <2>3. w \in Armed <=> \E i \in 1..n : w = s[i]
    BY DEF Chain
  <2>4. (\E i \in 1..(n + 1) : w = r[i]) => (w = v \/ \E i \in 1..n : w = s[i])
    BY <1>7, <1>8
  <2>5. w = v => \E i \in 1..(n + 1) : w = r[i]
    BY <1>7
  <2>6. ASSUME NEW i \in 1..n, w = s[i]
        PROVE  \E j \in 1..(n + 1) : w = r[j]
    <3>1. CASE i <= k
      BY <1>7, <2>6, <3>1
    <3>2. CASE ~(i <= k)
      <4>1. i + 1 \in (k + 2)..(n + 1) /\ (i + 1) - 1 = i
        BY <3>2
      <4>2. r[i + 1] = s[(i + 1) - 1]
        BY <1>7, <4>1
      <4>3. i + 1 \in 1..(n + 1) /\ r[i + 1] = w
        BY <2>6, <4>1, <4>2
      <4> QED
        BY <4>3
    <3> QED
      BY <3>1, <3>2
  <2> QED
    BY <2>2, <2>3, <2>4, <2>5, <2>6
<1>11. ASSUME NEW i \in 1..(n + 1)
       PROVE  /\ tv_prev'[r[i]] = Place(n + 1, r, i - 1)
              /\ tv_next'[r[i]] = Place(n + 1, r, i + 1)
  <2>1. CASE i = k + 1
    <3>1. tv_prev'[v] = prev /\ tv_next'[v] = next
      <4>1. v # prev /\ v # next
        BY <1>5 DEF Place
      <4> HIDE DEF prev, next
      <4> QED
        BY <1>4, <4>1
    <3>2. Place(n + 1, r, k) = prev
      BY <1>7 DEF Place
    <3>3. Place(n + 1, r, k + 2) = next
      BY <1>7 DEF Place
    <3> QED
      BY <1>7, <2>1, <3>1, <3>2, <3>3
  <2>2. CASE i \in 1..k
    <3>1. /\ r[i] = s[i]
          /\ i \in 1..n
          /\ tv_prev[s[i]] = Place(n, s, i - 1)
          /\ tv_next[s[i]] = Place(n, s, i + 1)
      BY <1>7, <2>2 DEF Chain
    <3>2. s[i] # v /\ s[i] \in Slots /\ s[i] # next
      BY <1>5, <1>a, <2>2 DEF Place
    <3>3. s[i] = prev <=> i = k
      BY <1>a, <2>2, <3>1 DEF Place
    <3>4. Place(n + 1, r, i - 1) = Place(n, s, i - 1)
      BY <1>7, <2>2 DEF Place
    <3>5. Place(n + 1, r, i + 1) = IF i = k THEN v ELSE Place(n, s, i + 1)
      BY <1>7, <2>2 DEF Place
    <3> HIDE DEF prev, next
    <3> QED
      BY <1>4, <3>1, <3>2, <3>3, <3>4, <3>5
  <2>3. CASE i \in (k + 2)..(n + 1)
    <3>1. /\ r[i] = s[i - 1]
          /\ i - 1 \in 1..n
          /\ tv_prev[s[i - 1]] = Place(n, s, i - 2)
          /\ tv_next[s[i - 1]] = Place(n, s, i)
      <4>1. i - 1 \in 1..n /\ (i - 1) - 1 = i - 2 /\ (i - 1) + 1 = i
        BY <2>3
      <4> QED
        BY <1>7, <2>3, <4>1 DEF Chain
    <3>2. s[i - 1] # v /\ s[i - 1] \in Slots /\ s[i - 1] # prev
      BY <1>5, <1>a, <2>3, <3>1 DEF Place
    <3>3. s[i - 1] = next <=> i = k + 2
      BY <1>a, <2>3, <3>1 DEF Place
    <3>4. Place(n + 1, r, i - 1) = IF i = k + 2 THEN v ELSE Place(n, s, i - 2)
      BY <1>7, <2>3 DEF Place
    <3>5. Place(n + 1, r, i + 1) = Place(n, s, i)
      BY <1>7, <2>3 DEF Place
    <3> HIDE DEF prev, next
    <3> QED
      BY <1>4, <3>1, <3>2, <3>3, <3>4, <3>5
  <2> QED
    BY <1>8, <2>1, <2>2, <2>3
<1>12. tv_start' = Place(n + 1, r, 1) /\ tv_end' = Place(n + 1, r, n + 1)
  <2>1. tv_start = Place(n, s, 1) /\ tv_end = Place(n, s, n)
    BY DEF Chain
  <2>2. tv_start = NULL \/ next = tv_start <=> k = 0
    BY <1>5, <1>a, <2>1 DEF Place
  <2>3. tv_end = NULL \/ prev = tv_end <=> k = n
    BY <1>5, <1>a, <2>1 DEF Place
  <2>4. Place(n + 1, r, 1) = IF k = 0 THEN v ELSE Place(n, s, 1)
    BY <1>7 DEF Place
  <2>5. Place(n + 1, r, n + 1) = IF k = n THEN v ELSE Place(n, s, n)
    BY <1>7 DEF Place
  <2> HIDE DEF prev, next
  <2> QED
    BY <1>4, <2>1, <2>2, <2>3, <2>4, <2>5
<1>13. \A w \in Slots \ Armed' : tv_next'[w] = NULL /\ tv_prev'[w] = NULL
  <2>1. SUFFICES ASSUME NEW w \in Slots, w \notin Armed'
                 PROVE  tv_next'[w] = NULL /\ tv_prev'[w] = NULL
    OBVIOUS
  <2>2. w # v /\ w \notin Armed
    BY <1>1, <1>4, <2>1 DEF Armed, TypeOK
  <2>3. w # prev /\ w # next
    BY <2>2 DEF Place, Chain
  <2>4. tv_next[w] = NULL /\ tv_prev[w] = NULL
    BY <2>2 DEF Chain
  <2> HIDE DEF prev, next
  <2> QED
    BY <1>4, <2>2, <2>3, <2>4
<1>14. \A i, j \in 1..(n + 1) : i <= j => tv_ms'[r[i]] <= tv_ms'[r[j]]
  <2>1. \A a, b \in 1..n : a <= b => tv_ms[s[a]] <= tv_ms[s[b]]
    BY DEF Chain
  <2>2. /\ tv_ms'[v] = ms
        /\ \A a \in 1..n : tv_ms'[s[a]] = tv_ms[s[a]] /\ tv_ms[s[a]] \in Nat
    BY <1>4, <1>5 DEF TypeOK
  <2>3. SUFFICES ASSUME NEW i \in 1..(n + 1), NEW j \in 1..(n + 1), i <= j
                 PROVE  tv_ms'[r[i]] <= tv_ms'[r[j]]
    OBVIOUS
  <2>4. CASE i \in 1..k
    <3>1. i \in 1..n /\ tv_ms'[r[i]] = tv_ms[s[i]] /\ tv_ms[s[i]] < ms
      BY <1>2, <1>7, <2>2, <2>4
    <3>2. CASE j \in 1..k
      BY <1>7, <2>1, <2>2, <2>3, <3>1, <3>2
    <3>3. CASE j = k + 1
      BY <1>1, <1>7, <2>2, <3>1, <3>3
    <3>4. CASE j \in (k + 2)..(n + 1)
      BY <1>7, <2>1, <2>2, <2>4, <3>1, <3>4
    <3> QED
      BY <1>8, <3>2, <3>3, <3>4
  <2>5. CASE i = k + 1
    <3>1. CASE j = k + 1
      BY <1>1, <1>7, <2>2, <2>5, <3>1
    <3>2. CASE j \in (k + 2)..(n + 1)
      <4>1. j - 1 \in 1..n /\ ~(j - 1 <= k)
        BY <3>2
      <4>2. ~(tv_ms[s[j - 1]] < ms) /\ tv_ms[s[j - 1]] \in Nat
        BY <1>2, <2>2, <4>1
      <4>3. tv_ms'[r[j]] = tv_ms[s[j - 1]] /\ tv_ms'[r[i]] = ms
        BY <1>7, <2>2, <2>5, <3>2, <4>1
      <4> QED
        BY <1>1, <4>2, <4>3
    <3> QED
      BY <1>8, <2>3, <2>5, <3>1, <3>2
  <2>6. CASE i \in (k + 2)..(n + 1)
    BY <1>1, <1>2, <1>7, <1>8, <2>1, <2>2, <2>3, <2>6
  <2> QED
    BY <1>8, <2>4, <2>5, <2>6
<1>15. Chain(n + 1, r)'
  BY <1>9, <1>10, <1>11, <1>12, <1>13, <1>14 DEF Chain, Place
<1> QED
  BY <1>6, <1>15

(***************************************************************************)
(* remove_timer of an armed slot closes the gap it leaves; of any other    *)
(* slot it changes nothing.                                                *)
(***************************************************************************)
LEMMA Removed ==
  ASSUME TypeOK, NEW n \in Nat, NEW s \in [1..n -> Slots], Chain(n, s),
         NEW k \in 1..n, remove_timer(s[k])
  PROVE  \E r \in [1..(n - 1) -> Slots] : Chain(n - 1, r)'
<1> USE ListAssumption
<1> DEFINE v == s[k]
           m == n - 1
           r == [i \in 1..m |-> IF i < k THEN s[i] ELSE s[i + 1]]
<1>1. m \in Nat /\ n = m + 1 /\ v \in Slots
  OBVIOUS
<1>2. /\ \A i \in 1..n : s[i] \in Slots
      /\ \A a, b \in 1..n : s[a] = s[b] => a = b
      /\ \A i \in 1..n : s[i] = v <=> i = k
  BY DEF Chain
<1>3. /\ tv_prev[v] = Place(n, s, k - 1)
      /\ tv_next[v] = Place(n, s, k + 1)
  BY DEF Chain
<1>4. r \in [1..m -> Slots]
  BY <1>1
<1>5. /\ \A i \in 1..(k - 1) : i \in 1..m /\ r[i] = s[i]
      /\ \A i \in k..m : i \in 1..m /\ r[i] = s[i + 1]
  BY <1>1
<1> HIDE DEF r
<1>6. ASSUME NEW i \in 1..m
      PROVE  i \in 1..(k - 1) \/ i \in k..m
  BY <1>1
<1>7. \A i, j \in 1..m : r[i] = r[j] => i = j
  <2>1. SUFFICES ASSUME NEW i \in 1..m, NEW j \in 1..m, r[i] = r[j]
                 PROVE  i = j
    OBVIOUS
  <2>2. CASE i \in 1..(k - 1)
    BY <1>1, <1>2, <1>5, <1>6, <2>1, <2>2
  <2>3. CASE i \in k..m
    BY <1>1, <1>2, <1>5, <1>6, <2>1, <2>3
  <2> QED
    BY <1>6, <2>2, <2>3
<1>8. \A w \in Slots : w \in Armed' <=> \E i \in 1..m : w = r[i]
  <2>1. SUFFICES ASSUME NEW w \in Slots
                 PROVE  w \in Armed' <=> \E i \in 1..m : w = r[i]
    OBVIOUS
  <2>2. w \in Armed' <=> w # v /\ w \in Armed
    BY <1>1 DEF Armed, TypeOK, remove_timer
  <2>3. w \in Armed <=> \E i \in 1..n : w = s[i]
    BY DEF Chain
  <2>4. ASSUME NEW i \in 1..m
        PROVE  r[i] # v /\ \E j \in 1..n : r[i] = s[j]
    <3>1. CASE i \in 1..(k - 1)
      BY <1>2, <1>5, <3>1
    <3>2. CASE i \in k..m
      <4>1. i + 1 \in 1..n /\ i + 1 # k
        BY <1>1, <3>2
      <4> QED
        BY <1>2, <1>5, <3>2, <4>1
    <3> QED
      BY <1>6, <3>1, <3>2
  <2>5. ASSUME NEW i \in 1..n, w = s[i], w # v
        PROVE  \E j \in 1..m : w = r[j]
    <3>1. i # k
      BY <1>2, <2>5
    <3>2. CASE i < k
      BY <1>5, <2>5, <3>2
    <3>3. CASE i > k
      <4>1. i - 1 \in k..m /\ (i - 1) + 1 = i
        BY <1>1, <3>3
      <4>2. i - 1 \in 1..m /\ r[i - 1] = w
        BY <1>5, <2>5, <4>1
      <4> QED
        BY <4>2
    <3> QED
      BY <3>1, <3>2, <3>3
  <2> QED
    BY <2>2, <2>3, <2>4, <2>5
<1>9. ASSUME NEW i \in 1..m
      PROVE  /\ tv_prev'[r[i]] = Place(m, r, i - 1)
             /\ tv_next'[r[i]] = Place(m, r, i + 1)
  <2> DEFINE prev == Place(n, s, k - 1)
             next == Place(n, s, k + 1)
  <2>0. /\ tv_next' = [w \in Slots |-> CASE w = v    -> NULL
                                         [] w = prev -> next
                                         [] OTHER    -> tv_next[w]]
        /\ tv_prev' = [w \in Slots |-> CASE w = v    -> NULL
                                         [] w = next -> prev
                                         [] OTHER    -> tv_prev[w]]
    <3>1. tv_prev[v] = prev /\ tv_next[v] = next
      BY <1>3
    <3> HIDE DEF prev, next, v
    <3> QED
      BY <3>1 DEF remove_timer, v
  <2>1. CASE i \in 1..(k - 1)
    <3>1. /\ r[i] = s[i]
          /\ i \in 1..n
          /\ tv_prev[s[i]] = Place(n, s, i - 1)
          /\ tv_next[s[i]] = Place(n, s, i + 1)
      BY <1>5, <2>1 DEF Chain
    <3>2. s[i] # v /\ s[i] \in Slots /\ s[i] # next
      BY <1>2, <2>1 DEF Place
    <3>3. s[i] = prev <=> i = k - 1
      BY <1>2, <2>1, <3>1 DEF Place
    <3>4. Place(m, r, i - 1) = Place(n, s, i - 1)
      BY <1>1, <1>5, <2>1 DEF Place
    <3>5. Place(m, r, i + 1) = IF i = k - 1 THEN next ELSE Place(n, s, i + 1)
      BY <1>1, <1>5, <2>1 DEF Place
    <3> HIDE DEF prev, next, v
    <3> QED
      BY <2>0, <3>1, <3>2, <3>3, <3>4, <3>5
  <2>2. CASE i \in k..m
    <3>1. /\ r[i] = s[i + 1]
          /\ i + 1 \in 1..n
          /\ tv_prev[s[i + 1]] = Place(n, s, i)
          /\ tv_next[s[i + 1]] = Place(n, s, i + 2)
      <4>1. i + 1 \in 1..n /\ (i + 1) - 1 = i /\ (i + 1) + 1 = i + 2
        BY <1>1, <2>2
      <4> QED
        BY <1>5, <2>2, <4>1 DEF Chain
    <3>2. s[i + 1] # v /\ s[i + 1] \in Slots /\ s[i + 1] # prev
      BY <1>2, <2>2, <3>1 DEF Place
    <3>3. s[i + 1] = next <=> i = k
      BY <1>2, <2>2, <3>1 DEF Place
    <3>4. Place(m, r, i - 1) = IF i = k THEN prev ELSE Place(n, s, i)
      BY <1>1, <1>5, <2>2 DEF Place
    <3>5. Place(m, r, i + 1) = Place(n, s, i + 2)
      BY <1>1, <1>5, <2>2 DEF Place
    <3> HIDE DEF prev, next, v
    <3> QED
      BY <2>0, <3>1, <3>2, <3>3, <3>4, <3>5
  <2> QED
    BY <1>6, <2>1, <2>2
<1>10. tv_start' = Place(m, r, 1) /\ tv_end' = Place(m, r, m)
  <2>1. /\ tv_start = Place(n, s, 1)
        /\ tv_end = Place(n, s, n)
    BY DEF Chain
  <2>2. /\ tv_start' = IF k = 1 THEN Place(n, s, 2) ELSE s[1]
        /\ tv_end' = IF k = n THEN Place(n, s, n - 1) ELSE s[n]
    BY <1>2, <1>3, <2>1 DEF remove_timer, EndWithout, Place
  <2>3. Place(m, r, 1) = IF k = 1 THEN Place(n, s, 2) ELSE s[1]
    BY <1>1, <1>5 DEF Place
  <2>4. Place(m, r, m) = IF k = n THEN Place(n, s, n - 1) ELSE s[n]
    BY <1>1, <1>5 DEF Place
  <2> QED
    BY <2>2, <2>3, <2>4
<1>11. \A w \in Slots \ Armed' : tv_next'[w] = NULL /\ tv_prev'[w] = NULL
  <2>1. SUFFICES ASSUME NEW w \in Slots, w \notin Armed'
                 PROVE  tv_next'[w] = NULL /\ tv_prev'[w] = NULL
    OBVIOUS
  <2>2. CASE w = v
    <3>1. v # tv_prev[v] /\ v # tv_next[v]
      BY <1>2, <1>3 DEF Place
    <3> QED
      BY <2>2, <3>1 DEF remove_timer
  <2>3. CASE w # v
    <3>1. w \notin Armed
      BY <2>1, <2>3 DEF Armed, TypeOK, remove_timer
    <3>2. w # tv_prev[v] /\ w # tv_next[v]
      BY <1>3, <3>1 DEF Place, Chain
    <3>3. tv_next[w] = NULL /\ tv_prev[w] = NULL
      BY <3>1 DEF Chain
    <3> QED
      BY <2>3, <3>2, <3>3 DEF remove_timer
  <2> QED
    BY <2>2, <2>3
<1>12. \A i, j \in 1..m : i <= j => tv_ms'[r[i]] <= tv_ms'[r[j]]
  <2>1. \A a, b \in 1..n : a <= b => tv_ms[s[a]] <= tv_ms[s[b]]
    BY DEF Chain
  <2>2. \A a \in 1..n : a # k => tv_ms'[s[a]] = tv_ms[s[a]]
    BY <1>2 DEF remove_timer, TypeOK
  <2>3. SUFFICES ASSUME NEW i \in 1..m, NEW j \in 1..m, i <= j
                 PROVE  tv_ms'[r[i]] <= tv_ms'[r[j]]
    OBVIOUS
  <2>4. CASE i \in 1..(k - 1)
    BY <1>1, <1>5, <1>6, <2>1, <2>2, <2>3, <2>4
  <2>5. CASE i \in k..m
    BY <1>1, <1>5, <1>6, <2>1, <2>2, <2>3, <2>5
  <2> QED
    BY <1>6, <2>4, <2>5
<1>13. Chain(m, r)'
  BY <1>7, <1>8, <1>9, <1>10, <1>11, <1>12 DEF Chain, Place
<1> QED
  BY <1>4, <1>13

LEMMA RemovedNone ==
  ASSUME TypeOK, NEW n \in Nat, NEW s \in [1..n -> Slots], Chain(n, s),
         NEW v \in Slots, v \notin Armed, remove_timer(v)
  PROVE  UNCHANGED listvars
<1> USE ListAssumption
<1>1. tv_next[v] = NULL /\ tv_prev[v] = NULL /\ tv_ms[v] = 0
  BY DEF Chain, Armed
<1>2. tv_start # v /\ tv_end # v
  BY DEF Chain, Place
<1>3. tv_next' = tv_next /\ tv_prev' = tv_prev
  BY <1>1 DEF remove_timer, TypeOK
<1>4. tv_start' = tv_start /\ tv_end' = tv_end /\ tv_ms' = tv_ms
  BY <1>1, <1>2 DEF remove_timer, EndWithout, TypeOK
<1> QED
  BY <1>3, <1>4 DEF listvars

-----------------------------------------------------------------------------
(***************************************************************************)
(* The types are kept by both operations.                                  *)
(***************************************************************************)
LEMMA SetTyped ==
  ASSUME ListInv, NEW v \in Slots, NEW d \in Delays, set_timer(v, d)
  PROVE  /\ tv_ms' \in [Slots -> Nat]
         /\ tv_next' \in [Slots -> Pointer] /\ tv_prev' \in [Slots -> Pointer]
         /\ tv_start' \in Pointer /\ tv_end' \in Pointer
<1> USE ListAssumption
<1>0. TypeOK
  BY DEF ListInv
<1>1. CASE tv_ms[v] # 0
  BY <1>0, <1>1 DEF set_timer, listvars, TypeOK
<1>2. CASE tv_ms[v] = 0
  <2> DEFINE ms == Deadline(d)
             prev == InsertAfter(ms)
             next == IF prev = NULL THEN tv_start ELSE tv_next[prev]
  <2>1. ms \in Nat \ {0}
    BY <1>0 DEF Deadline, TypeOK
  <2>2. prev \in Pointer
    <3> HIDE DEF ms
    <3>1. PICK n \in Nat : \E s \in [1..n -> Slots] : Chain(n, s)
      BY DEF ListInv
    <3>2. PICK s \in [1..n -> Slots] : Chain(n, s)
      BY <3>1
    <3>3. PICK k \in 0..n : InsertAfter(ms) = Place(n, s, k)
      BY <1>0, <2>1, <3>2, WalkBack
    <3> QED
      BY <3>3 DEF Place, Pointer
  <2>3. next \in Pointer
    <3> HIDE DEF prev
    <3> QED
      BY <1>0, <2>2 DEF TypeOK, Pointer
  <2>4. /\ tv_ms' = [tv_ms EXCEPT ![v] = ms]
        /\ tv_next' = [w \in Slots |-> CASE w = v    -> next
                                         [] w = prev -> v
                                         [] OTHER    -> tv_next[w]]
        /\ tv_prev' = [w \in Slots |-> CASE w = v    -> prev
                                         [] w = next -> v
                                         [] OTHER    -> tv_prev[w]]
        /\ tv_start' = IF tv_start = NULL \/ next = tv_start THEN v ELSE tv_start
        /\ tv_end' = IF tv_end = NULL \/ prev = tv_end THEN v ELSE tv_end
    BY <1>2 DEF set_timer
  <2> HIDE DEF ms, prev, next
  <2>5. tv_ms' \in [Slots -> Nat]
    BY <1>0, <2>1, <2>4 DEF TypeOK
  <2>6. tv_next' \in [Slots -> Pointer] /\ tv_prev' \in [Slots -> Pointer]
    BY <1>0, <2>2, <2>3, <2>4 DEF TypeOK, Pointer
  <2>7. tv_start' \in Pointer /\ tv_end' \in Pointer
    BY <1>0, <2>4 DEF TypeOK, Pointer
  <2> QED
    BY <2>5, <2>6, <2>7
<1> QED
  BY <1>1, <1>2

LEMMA RemoveTyped ==
  ASSUME TypeOK, NEW v \in Slots, remove_timer(v)
  PROVE  /\ tv_ms' \in [Slots -> Nat]
         /\ tv_next' \in [Slots -> Pointer] /\ tv_prev' \in [Slots -> Pointer]
         /\ tv_start' \in Pointer /\ tv_end' \in Pointer
<1>1. tv_ms' \in [Slots -> Nat]
  BY DEF TypeOK, remove_timer
<1>2. tv_next' \in [Slots -> Pointer] /\ tv_prev' \in [Slots -> Pointer]
  BY DEF TypeOK, remove_timer, Pointer
<1>3. tv_start' \in Pointer /\ tv_end' \in Pointer
  BY DEF TypeOK, remove_timer, EndWithout, Pointer
<1> QED
  BY <1>1, <1>2, <1>3

LEMMA SetKeepsChain ==
  ASSUME ListInv, NEW v \in Slots, NEW d \in Delays, set_timer(v, d)
  PROVE  \E n \in Nat : \E s \in [1..n -> Slots] : Chain(n, s)'
<1>1. PICK n \in Nat : \E s \in [1..n -> Slots] : Chain(n, s)
  BY DEF ListInv
<1>2. PICK s \in [1..n -> Slots] : Chain(n, s)
  BY <1>1
<1>3. CASE tv_ms[v] # 0
  <2>1. UNCHANGED listvars
    BY <1>3 DEF set_timer
  <2>2. Chain(n, s)'
    BY <1>2, <2>1 DEF Chain, Place, Armed, listvars
  <2> QED
    BY <2>2
<1>4. CASE tv_ms[v] = 0
  <2>1. \E r \in [1..(n + 1) -> Slots] : Chain(n + 1, r)'
    BY <1>2, <1>4, Inserted DEF ListInv
  <2>2. n + 1 \in Nat
    OBVIOUS
  <2> QED
    BY <2>1, <2>2
<1> QED
  BY <1>3, <1>4

LEMMA RemoveKeepsChain ==
  ASSUME ListInv, NEW v \in Slots, remove_timer(v)
  PROVE  \E n \in Nat : \E s \in [1..n -> Slots] : Chain(n, s)'
<1>1. PICK n \in Nat : \E s \in [1..n -> Slots] : Chain(n, s)
  BY DEF ListInv
<1>2. PICK s \in [1..n -> Slots] : Chain(n, s)
  BY <1>1
<1>3. CASE v \notin Armed
  <2>1. UNCHANGED listvars
    BY <1>2, <1>3, RemovedNone DEF ListInv
  <2>2. Chain(n, s)'
    BY <1>2, <2>1 DEF Chain, Place, Armed, listvars
  <2> QED
    BY <2>2
<1>4. CASE v \in Armed
  <2>1. PICK k \in 1..n : v = s[k]
    BY <1>2, <1>4 DEF Chain
  <2>2. remove_timer(s[k])
    BY <2>1
  <2>3. \E r \in [1..(n - 1) -> Slots] : Chain(n - 1, r)'
    BY <1>2, <2>1, <2>2, Removed DEF ListInv
  <2>4. n - 1 \in Nat
    BY <2>1
  <2> QED
    BY <2>3, <2>4
<1> QED
  BY <1>3, <1>4

-----------------------------------------------------------------------------
LEMMA ListInit == Init => ListInv
<1> SUFFICES ASSUME Init PROVE ListInv
  OBVIOUS
<1> USE ListAssumption
<1>1. TypeOK
  BY DEF Init, TypeOK, Pointer
<1> DEFINE s == [i \in 1..0 |-> NULL]
<1>2. s \in [1..0 -> Slots]
  OBVIOUS
<1>3. Chain(0, s)
  BY DEF Chain, Place, Armed, Init
<1> QED
  BY <1>1, <1>2, <1>3 DEF ListInv

LEMMA ListStep == ListInv /\ [Next]_vars => ListInv'
<1> SUFFICES ASSUME ListInv, [Next]_vars PROVE ListInv'
  OBVIOUS
<1> USE ListAssumption
<1>0. TypeOK
  BY DEF ListInv
<1>1. ASSUME NEW v \in Slots, NEW d \in Delays, SetTimer(v, d) PROVE ListInv'
  <2>1. TypeOK'
    BY <1>0, <1>1, SetTyped DEF SetTimer, TypeOK, Pointer
  <2>2. \E n \in Nat : \E s \in [1..n -> Slots] : Chain(n, s)'
    BY <1>1, SetKeepsChain DEF SetTimer
  <2> QED
    BY <2>1, <2>2 DEF ListInv
<1>2. ASSUME NEW v \in Slots, RemoveTimer(v) PROVE ListInv'
  <2>1. TypeOK'
    BY <1>0, <1>2, RemoveTyped DEF RemoveTimer, TypeOK, Pointer
  <2>2. \E n \in Nat : \E s \in [1..n -> Slots] : Chain(n, s)'
    BY <1>2, RemoveKeepsChain DEF RemoveTimer
  <2> QED
    BY <2>1, <2>2 DEF ListInv
<1>3. CASE Expire
  <2>1. tv_start \in Slots /\ remove_timer(tv_start)
    BY <1>0, <1>3 DEF Expire, TypeOK, Pointer
  <2>2. TypeOK'
    BY <1>0, <1>3, <2>1, RemoveTyped DEF Expire, TypeOK
  <2>3. \E n \in Nat : \E s \in [1..n -> Slots] : Chain(n, s)'
    BY <2>1, RemoveKeepsChain
  <2> QED
    BY <2>2, <2>3 DEF ListInv
<1>4. CASE Tick \/ UNCHANGED vars
  <2>1. UNCHANGED listvars
    BY <1>4 DEF Tick, vars
  <2>2. TypeOK'
    BY <1>0, <1>4, <2>1 DEF Tick, vars, listvars, TypeOK, Pointer
  <2>3. \A n \in Nat : \A s \in [1..n -> Slots] : Chain(n, s) => Chain(n, s)'
    BY <2>1 DEF Chain, Place, Armed, listvars
  <2> QED
    BY <2>2, <2>3 DEF ListInv
<1> QED
  BY <1>1, <1>2, <1>3, <1>4 DEF Next

(***************************************************************************)
(* The list is one sorted chain in every reachable state, whatever the     *)
(* order of set_timer, remove_timer (of armed and of other slots) and      *)
(* next_event_tv.                                                          *)
(***************************************************************************)
THEOREM TimersStaySorted == Spec => []ListIsSorted
<1>1. Spec => []ListInv
  BY ListInit, ListStep, PTL DEF Spec
<1> QED
  BY <1>1, InvSorted, PTL

-----------------------------------------------------------------------------
(***************************************************************************)
(* The head of a chain is an armed slot with the earliest deadline.        *)
(***************************************************************************)
LEMMA HeadIsEarliest ==
  ASSUME ListInv, tv_start # NULL
  PROVE  tv_start \in Slots /\ TQ!Earliest(tv_start)
<1> USE ListAssumption
<1>1. PICK n \in Nat : \E s \in [1..n -> Slots] : Chain(n, s)
  BY DEF ListInv
<1>2. PICK s \in [1..n -> Slots] : Chain(n, s)
  BY <1>1
<1>3. 1 \in 1..n /\ tv_start = s[1]
  BY <1>2 DEF Chain, Place
<1>4. tv_start \in Armed
  BY <1>2, <1>3 DEF Chain
<1>5. ASSUME NEW w \in Armed PROVE tv_ms[tv_start] <= tv_ms[w]
  <2>1. PICK j \in 1..n : w = s[j]
    BY <1>2, <1>5 DEF Chain, Armed
  <2> QED
    BY <1>2, <1>3, <2>1 DEF Chain
<1> QED
  BY <1>4, <1>5 DEF TQ!Earliest, TQ!Armed, Armed

(***************************************************************************)
(* Every step of the list is a step of the abstract queue, or none: what   *)
(* next_event_tv takes from the head is what the queue would serve, and    *)
(* the queue may therefore stand for the list in EventPool.                *)
(***************************************************************************)
THEOREM ListImplementsQueue == Spec => ImplementsQueue
<1>1. Init => TQ!TimerInit
  BY DEF Init, TQ!TimerInit
<1>2. ListInv /\ [Next]_vars => [TQ!TimerNext]_(TQ!tqvars)
  <2> SUFFICES ASSUME ListInv, [Next]_vars
               PROVE  TQ!TimerNext \/ UNCHANGED TQ!tqvars
    OBVIOUS
  <2>0. TypeOK
    BY DEF ListInv
  <2>1. ASSUME NEW v \in Slots, NEW d \in Delays, SetTimer(v, d)
        PROVE  TQ!TimerNext
    <3>1. TQ!Arm(v, d)
      BY <2>0, <2>1 DEF SetTimer, set_timer, listvars, Deadline, TypeOK, TQ!Arm
    <3> QED
      BY <2>1, <3>1 DEF SetTimer, TQ!TimerNext
  <2>2. ASSUME NEW v \in Slots, RemoveTimer(v)
        PROVE  TQ!TimerNext
    BY <2>2 DEF RemoveTimer, remove_timer, TQ!TimerNext, TQ!Disarm
  <2>3. CASE Expire
    <3>1. tv_start \in Slots /\ TQ!Earliest(tv_start)
      BY <2>3, HeadIsEarliest DEF Expire
    <3>2. TQ!Expire(tv_start)
      BY <2>3, <3>1 DEF Expire, Due, remove_timer, TQ!Expire, TQ!Disarm
    <3> QED
      BY <3>1, <3>2 DEF TQ!TimerNext
  <2>4. CASE Tick
    BY <2>4 DEF Tick, listvars, TQ!TimerNext, TQ!Advance
  <2>5. CASE UNCHANGED vars
    BY <2>5 DEF vars, listvars, TQ!tqvars
  <2> QED
    BY <2>1, <2>2, <2>3, <2>4, <2>5 DEF Next
<1> QED
  BY <1>1, <1>2, ListInit, ListStep, PTL DEF Spec, ImplementsQueue, TQ!TimerSpec
=============================================================================
