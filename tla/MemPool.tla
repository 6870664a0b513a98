------------------------------ MODULE MemPool ------------------------------
(***************************************************************************)
(* The store of mpool.c on the AVL tree of kavl.h.  It holds the cache and *)
(* the lists of networks (CMP_BITS) and of hosts (CMP_HOST).  Two keys are *)
(* equal to its comparison when one covers the other, a network the        *)
(* addresses in it and a domain its subdomains: this is no equivalence, so *)
(* how the tree is ordered, and what a search meets first, matters.        *)
(*                                                                         *)
(* A key is a sequence of numbers: the leading bits of an address, or a    *)
(* host read from its end.  An element is a record with its key and what   *)
(* the store's user keeps with it; the pointer mem_add or mem_get returns  *)
(* is given by the element's key.  Balance factors are the differences of  *)
(* the subtrees' heights.                                                  *)
(***************************************************************************)
EXTENDS Integers, Sequences, FiniteSetsExt

CONSTANT CmpType   \* mphdr.cmp_type

ASSUME CmpAssumption == CmpType \in {"bits", "host"}

\* Mutant: the shorter key comes first, covering the other or not.
ShorterFirst(p, q) ==
  IF Len(p) # Len(q) THEN (IF Len(p) < Len(q) THEN -1 ELSE 1)
  ELSE LET differ == {i \in DOMAIN p : p[i] # q[i]}
       IN IF differ = {} THEN 0 ELSE IF p[Min(differ)] < q[Min(differ)] THEN -1 ELSE 1

Dot == 1

\* The first place where both keys have a value and differ decides.  Networks
\* are equal when there is none, hosts when the longer goes on with a dot.
scmp(p, q) ==
  LET len == Min({Len(p), Len(q)})
      differ == {i \in 1..len : p[i] # q[i]}
      longer == IF Len(p) > Len(q) THEN p ELSE q
  IN IF differ # {}
     THEN IF p[Min(differ)] < q[Min(differ)] THEN -1 ELSE 1
     ELSE IF CmpType = "bits" \/ Len(p) = Len(q) \/ longer[len + 1] = Dot
          THEN 0
          ELSE IF longer = p THEN 1 ELSE -1

-----------------------------------------------------------------------------
(* kavl.h: a tree is Nil or a node with an element and two subtrees.       *)

Nil == <<>>

Node(l, e, r) == [l |-> l, e |-> e, r |-> r]

RECURSIVE Height(_), Elems(_), kavl_find(_, _), kavl_insert(_, _),
          First(_), kavl_erase_first(_), kavl_erase(_, _), Written(_, _, _)

Height(t) == IF t = Nil THEN 0 ELSE 1 + Max({Height(t.l), Height(t.r)})

\* The elements in the order of kavl_itr_next.
Elems(t) == IF t = Nil THEN <<>> ELSE Elems(t.l) \o <<t.e>> \o Elems(t.r)

\* kavl_rotate1 and kavl_rotate2, to the left and to the right.
RotateL(l, e, r) ==
  IF Height(r.l) > Height(r.r)
  THEN Node(Node(l, e, r.l.l), r.l.e, Node(r.l.r, r.e, r.r))
  ELSE Node(Node(l, e, r.l), r.e, r.r)

RotateR(l, e, r) ==
  IF Height(l.r) > Height(l.l)
  THEN Node(Node(l.l, l.e, l.r.l), l.r.e, Node(l.r.r, e, r))
  ELSE Node(l.l, l.e, Node(l.r, e, r))

\* Mutant: a tree that leans to the left is not turned.
LeftOnly(l, e, r) ==
  IF Height(r) - Height(l) = 2 THEN RotateL(l, e, r) ELSE Node(l, e, r)

Rebalance(l, e, r) ==
  IF Height(r) - Height(l) = 2 THEN RotateL(l, e, r)
  ELSE IF Height(r) - Height(l) = -2 THEN RotateR(l, e, r)
  ELSE Node(l, e, r)

\* The first element on the way down that is equal to the key, in a set.
kavl_find(t, key) ==
  IF t = Nil THEN {}
  ELSE LET cmp == scmp(key, t.e.key)
       IN IF cmp = 0 THEN {t.e} ELSE kavl_find(IF cmp < 0 THEN t.l ELSE t.r, key)

\* For an element that kavl_find does not find.
kavl_insert(t, e) ==
  IF t = Nil THEN Node(Nil, e, Nil)
  ELSE IF scmp(e.key, t.e.key) < 0
       THEN Rebalance(kavl_insert(t.l, e), t.e, t.r)
       ELSE Rebalance(t.l, t.e, kavl_insert(t.r, e))

First(t) == IF t.l = Nil THEN t.e ELSE First(t.l)

kavl_erase_first(t) ==
  IF t.l = Nil THEN t.r ELSE Rebalance(kavl_erase_first(t.l), t.e, t.r)

\* The next element takes the place of the one that is erased.
kavl_erase(t, key) ==
  LET cmp == scmp(key, t.e.key)
  IN IF cmp < 0 THEN Rebalance(kavl_erase(t.l, key), t.e, t.r)
     ELSE IF cmp > 0 THEN Rebalance(t.l, t.e, kavl_erase(t.r, key))
     ELSE IF t.r = Nil THEN t.l
     ELSE Rebalance(t.l, First(t.r), kavl_erase_first(t.r))

\* The element found with the key is written to.
Written(t, key, e) ==
  LET cmp == scmp(key, t.e.key)
  IN IF cmp = 0 THEN Node(t.l, e, t.r)
     ELSE IF cmp < 0 THEN Node(Written(t.l, key, e), t.e, t.r)
     ELSE Node(t.l, t.e, Written(t.r, key, e))

-----------------------------------------------------------------------------
(* mpool.c: hdr is a record with the tree and its count.                   *)

Empty == [root |-> Nil, count |-> 0]

mem_get(hdr, key) == kavl_find(hdr.root, key)

mem_delete(hdr, key) ==
  IF mem_get(hdr, key) = {} THEN hdr
  ELSE [root |-> kavl_erase(hdr.root, key), count |-> hdr.count - 1]

RECURSIVE mem_add(_, _)

\* Longer keys give way to a new one that covers them; a new one that is
\* covered is dropped.
mem_add(hdr, e) ==
  LET found == mem_get(hdr, e.key)
  IN IF found = {}
     THEN [root |-> kavl_insert(hdr.root, e), count |-> hdr.count + 1]
     ELSE LET v == CHOOSE v \in found : TRUE
          IN IF Len(e.key) < Len(v.key)
             THEN mem_add(mem_delete(hdr, v.key), e)
             ELSE hdr

\* The element with the key, as the user of the store changes it.
Update(hdr, key, e) == [hdr EXCEPT !.root = Written(@, key, e)]

-----------------------------------------------------------------------------
\* What kavl.h promises of a tree: neighbours in order, subtrees of nearly
\* equal height.
RECURSIVE Balanced(_)

Balanced(t) ==
  t = Nil \/ (Height(t.r) - Height(t.l) \in -1..1 /\ Balanced(t.l) /\ Balanced(t.r))

Ordered(t) ==
  LET s == Elems(t) IN \A i, j \in DOMAIN s : i < j => scmp(s[i].key, s[j].key) < 0
=============================================================================
