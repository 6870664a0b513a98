------------------------- MODULE DesyncStreamProofs -------------------------
(***************************************************************************)
(* More about Desync: the stream a server gets is what the client sent, in *)
(* whole records, in its order, and each urgent byte once.                 *)
(***************************************************************************)
EXTENDS DesyncProofs, FiniteSetTheorems

-----------------------------------------------------------------------------
(* Sequences of items                                                      *)

\* Where the bytes of a buffer start that follows base bytes of a client whose record
\* has l bytes.
Lower(b, l) == IF l > 0 /\ b = 0 THEN 1 ELSE b

Heads(w) == { i \in DOMAIN w : IsHead(w[i]) }

LEMMA ConcatItems ==
  ASSUME NEW u \in Seq(Item), NEW v \in Seq(Item)
  PROVE  /\ u \o v \in Seq(Item) /\ Len(u) \in Nat /\ Len(v) \in Nat
         /\ DOMAIN u = 1..Len(u) /\ DOMAIN v = 1..Len(v)
         /\ DOMAIN (u \o v) = 1..(Len(u) + Len(v))
         /\ \A i \in 1..Len(u) : (u \o v)[i] = u[i]
         /\ \A i \in 1..Len(v) : (u \o v)[Len(u) + i] = v[i]
<1>1. /\ u \o v \in Seq(Item) /\ Len(u \o v) = Len(u) + Len(v)
      /\ \A i \in 1..(Len(u) + Len(v)) :
           (u \o v)[i] = IF i <= Len(u) THEN u[i] ELSE v[i - Len(u)]
  BY ConcatProperties
<1>2. /\ Len(u) \in Nat /\ Len(v) \in Nat
      /\ DOMAIN u = 1..Len(u) /\ DOMAIN v = 1..Len(v) /\ DOMAIN (u \o v) = 1..Len(u \o v)
  BY <1>1, LenProperties
<1>3. \A i \in 1..Len(u) : i \in 1..(Len(u) + Len(v)) /\ i <= Len(u)
  BY <1>2
<1>4. \A i \in 1..Len(v) : /\ Len(u) + i \in 1..(Len(u) + Len(v)) /\ ~(Len(u) + i <= Len(u))
                           /\ (Len(u) + i) - Len(u) = i
  BY <1>2
<1>5. \A i \in 1..Len(u) : (u \o v)[i] = u[i]
  BY ONLY <1>1, <1>3
<1>6. \A i \in 1..Len(v) : (u \o v)[Len(u) + i] = v[i]
  BY ONLY <1>1, <1>4
<1> QED
  BY ONLY <1>1, <1>2, <1>5, <1>6

\* An item of a sequence that is put together is one of either part.
LEMMA EitherPart ==
  ASSUME NEW m \in Nat, NEW k \in Nat, NEW i \in 1..(m + k)
  PROVE  i \in 1..m \/ \E j \in 1..k : i = m + j
<1>1. CASE i <= m
  BY <1>1
<1>2. CASE ~(i <= m)
  <2>1. i - m \in 1..k /\ i = m + (i - m)
    BY <1>2
  <2> QED
    BY <2>1
<1> QED
  BY <1>1, <1>2

LEMMA CarriesBoth ==
  ASSUME NEW u \in Seq(Item), NEW v \in Seq(Item), NEW a \in Nat, NEW b \in Nat, NEW d \in Nat,
         NEW c \in Nat, Carries(u, a, b), Carries(v, d, c), a <= d, b <= d, d = a \/ d = b, b <= c
  PROVE  Carries(u \o v, a, c)
<1> DEFINE w == u \o v
           m == Len(u)
           k == Len(v)
<1>1. /\ w \in Seq(Item) /\ m \in Nat /\ k \in Nat
      /\ DOMAIN u = 1..m /\ DOMAIN v = 1..k /\ DOMAIN w = 1..(m + k)
      /\ \A i \in 1..m : w[i] = u[i]
      /\ \A i \in 1..k : w[m + i] = v[i]
  BY ConcatItems
<1> HIDE DEF w, m, k
<1>2. \A i \in 1..m : IsHead(u[i]) \/ \E x \in (a + 1)..b : u[i] = Byte(x)
  BY <1>1 DEF Carries
<1>3. \A i \in 1..k : IsHead(v[i]) \/ \E x \in (d + 1)..c : v[i] = Byte(x)
  BY <1>1 DEF Carries
<1>4. InTurn(w)
  <2> SUFFICES ASSUME NEW i \in 1..(m + k), NEW j \in 1..(m + k), i < j,
                      ~IsHead(w[i]), ~IsHead(w[j])
               PROVE  w[i][2] < w[j][2]
    BY <1>1 DEF InTurn
  <2>1. CASE i \in 1..m /\ j \in 1..m
    BY <1>1, <2>1 DEF Carries, InTurn
  <2>2. ASSUME i \in 1..m, NEW y \in 1..k, j = m + y PROVE w[i][2] < w[j][2]
    <3>1. PICK p \in (a + 1)..b : w[i] = Byte(p)
      BY <1>1, <1>2, <2>2
    <3>2. PICK q \in (d + 1)..c : w[j] = Byte(q)
      BY <1>1, <1>3, <2>2
    <3>3. p < q
      OBVIOUS
    <3> QED
      BY <3>1, <3>2, <3>3 DEF Byte
  <2>3. ASSUME NEW x \in 1..k, i = m + x, NEW y \in 1..k, j = m + y PROVE w[i][2] < w[j][2]
    <3>1. x < y
      BY <1>1, <2>3
    <3>2. ~IsHead(v[x]) /\ ~IsHead(v[y])
      BY <1>1, <2>3
    <3>3. v[x][2] < v[y][2]
      BY <1>1, <3>1, <3>2 DEF Carries, InTurn
    <3> QED
      BY <1>1, <2>3, <3>3
  <2>4. i \in 1..m \/ \E x \in 1..k : i = m + x
    BY ONLY <1>1, EitherPart, i \in 1..(m + k)
  <2>5. j \in 1..m \/ \E y \in 1..k : j = m + y
    BY ONLY <1>1, EitherPart, j \in 1..(m + k)
  <2>6. (\E x \in 1..k : i = m + x) => ~(j \in 1..m)
    BY ONLY <1>1, i < j, i \in 1..(m + k), j \in 1..(m + k)
  <2> QED
    BY ONLY <2>1, <2>2, <2>3, <2>4, <2>5, <2>6
<1>5. ASSUME NEW i \in 1..(m + k)
      PROVE  IsHead(w[i]) \/ \E x \in (a + 1)..c : w[i] = Byte(x)
  <2>1. CASE i \in 1..m
    <3>1. \A x \in (a + 1)..b : x \in (a + 1)..c
      OBVIOUS
    <3> QED
      BY ONLY <1>1, <1>2, <2>1, <3>1
  <2>2. ASSUME NEW y \in 1..k, i = m + y
        PROVE  IsHead(w[i]) \/ \E x \in (a + 1)..c : w[i] = Byte(x)
    <3>1. \A x \in (d + 1)..c : x \in (a + 1)..c
      OBVIOUS
    <3> QED
      BY ONLY <1>1, <1>3, <2>2, <3>1
  <2>3. i \in 1..m \/ \E y \in 1..k : i = m + y
    BY ONLY <1>1, EitherPart, i \in 1..(m + k)
  <2> QED
    BY ONLY <2>1, <2>2, <2>3
<1>6. ASSUME NEW x \in (a + 1)..c
      PROVE  \E i \in 1..(m + k) : w[i] = Byte(x)
  <2>1. CASE x \in (a + 1)..b
    <3>1. PICK i \in 1..m : u[i] = Byte(x)
      BY <1>1, <2>1 DEF Carries
    <3>2. i \in 1..(m + k)
      BY <1>1
    <3> QED
      BY <1>1, <3>1, <3>2
  <2>2. CASE x \in (d + 1)..c
    <3>1. PICK i \in 1..k : v[i] = Byte(x)
      BY <1>1, <2>2 DEF Carries
    <3>2. m + i \in 1..(m + k)
      BY <1>1
    <3> QED
      BY <1>1, <3>1, <3>2
  <2> QED
    BY <2>1, <2>2
<1>7. Carries(w, a, c)
  BY ONLY <1>1, <1>4, <1>5, <1>6 DEF Carries
<1> QED
  BY <1>7 DEF w

\* Items 1 to p of a sequence.
LEMMA StartItems ==
  ASSUME NEW w \in Seq(Item), NEW p \in Nat, p <= Len(w)
  PROVE  /\ SubSeq(w, 1, p) \in Seq(Item) /\ Len(SubSeq(w, 1, p)) = p
         /\ DOMAIN SubSeq(w, 1, p) = 1..p /\ DOMAIN w = 1..Len(w) /\ Len(w) \in Nat
         /\ \A i \in 1..p : SubSeq(w, 1, p)[i] = w[i]
<1>1. Len(w) \in Nat /\ DOMAIN w = 1..Len(w)
  BY LenProperties
<1>2. 1 \in 1..(Len(w) + 1) /\ p \in (1 - 1)..Len(w)
  BY <1>1
<1>3. /\ SubSeq(w, 1, p) \in Seq(Item)
      /\ Len(SubSeq(w, 1, p)) = IF 1 <= p THEN p - 1 + 1 ELSE 0
      /\ \A i \in 1..(p - 1 + 1) : SubSeq(w, 1, p)[i] = w[1 + i - 1]
  BY <1>1, <1>2, SubSeqProperties
<1>4. (IF 1 <= p THEN p - 1 + 1 ELSE 0) = p /\ p - 1 + 1 = p
  OBVIOUS
<1>5. \A i \in 1..p : SubSeq(w, 1, p)[i] = w[i]
  <2>1. \A i \in 1..p : 1 + i - 1 = i
    OBVIOUS
  <2> QED
    BY ONLY <1>3, <1>4, <2>1
<1>6. Len(SubSeq(w, 1, p)) = p
  BY ONLY <1>3, <1>4
<1>7. DOMAIN SubSeq(w, 1, p) = 1..p
  BY <1>3, <1>6, LenProperties
<1> QED
  BY ONLY <1>1, <1>3, <1>5, <1>6, <1>7

\* The start of a sequence has the client's bytes up to some byte.
LEMMA CarriesStart ==
  ASSUME NEW w \in Seq(Item), NEW a \in Nat, NEW b \in Nat, a <= b, Carries(w, a, b),
         NEW p \in Nat, p <= Len(w)
  PROVE  \E c \in a..b : Carries(SubSeq(w, 1, p), a, c)
<1> DEFINE s == SubSeq(w, 1, p)
           In(x) == \E i \in 1..p : w[i] = Byte(x)
           T == { x \in a..b : x = b \/ ~In(x + 1) }
<1>1. /\ s \in Seq(Item) /\ DOMAIN s = 1..p /\ DOMAIN w = 1..Len(w) /\ Len(w) \in Nat
      /\ \A i \in 1..p : s[i] = w[i]
  BY StartItems
<1> HIDE DEF s
<1>2. T \in SUBSET Nat /\ T # {}
  <2>1. b \in T
    OBVIOUS
  <2>2. \A x \in a..b : x \in Nat
    OBVIOUS
  <2>3. T \in SUBSET Nat
    BY <2>2
  <2> HIDE DEF T
  <2> QED
    BY <2>1, <2>3
<1>3. PICK c \in T : \A y \in T : c <= y
  <2> HIDE DEF T
  <2> QED
    BY <1>2, LeastNat
<1>4. c \in a..b /\ (c = b \/ ~In(c + 1))
  OBVIOUS
<1>5. ASSUME NEW x \in (a + 1)..c PROVE In(x)
  <2>1. x - 1 \in a..b /\ ~(c <= x - 1) /\ x - 1 # b /\ (x - 1) + 1 = x
    BY <1>4
  <2>2. ~(x - 1 \in T)
    BY <1>3, <2>1
  <2> QED
    BY <2>1, <2>2
<1>6. ASSUME NEW i \in 1..p, ~IsHead(w[i]) PROVE \E x \in (a + 1)..c : w[i] = Byte(x)
  <2>1. i \in 1..Len(w)
    BY <1>1
  <2>2. PICK x \in (a + 1)..b : w[i] = Byte(x)
    BY <1>1, <1>6, <2>1 DEF Carries
  <2>3. ASSUME x > c PROVE FALSE
    <3>1. c + 1 \in (a + 1)..b /\ c # b
      BY <1>4, <2>3
    <3>2. PICK j \in 1..Len(w) : w[j] = Byte(c + 1)
      BY <1>1, <3>1 DEF Carries
    <3>3. ~(j \in 1..p)
      BY <1>4, <3>1, <3>2
    <3>4. i < j
      BY <1>1, <3>3
    <3>5. ~IsHead(w[j])
      BY <3>2 DEF IsHead, Byte
    <3>6. w[i][2] < w[j][2]
      BY <1>1, <1>6, <2>1, <3>4, <3>5 DEF Carries, InTurn
    <3>7. x < c + 1
      BY <2>2, <3>2, <3>6 DEF Byte
    <3> QED
      BY <1>4, <2>3, <3>7
  <2>4. x \in (a + 1)..c
    BY <1>4, <2>3
  <2> QED
    BY <2>2, <2>4
<1>7. InTurn(s)
  <2> SUFFICES ASSUME NEW i \in 1..p, NEW j \in 1..p, i < j, ~IsHead(s[i]), ~IsHead(s[j])
               PROVE  s[i][2] < s[j][2]
    BY <1>1 DEF InTurn
  <2>1. i \in DOMAIN w /\ j \in DOMAIN w
    BY <1>1
  <2> QED
    BY <1>1, <2>1 DEF Carries, InTurn
<1>8. Carries(s, a, c)
  <2> HIDE DEF T
  <2>1. \A i \in DOMAIN s : IsHead(s[i]) \/ \E x \in (a + 1)..c : s[i] = Byte(x)
    BY ONLY <1>1, <1>6
  <2>2. \A x \in (a + 1)..c : \E i \in DOMAIN s : s[i] = Byte(x)
    BY ONLY <1>1, <1>5
  <2> QED
    BY ONLY <1>7, <2>1, <2>2 DEF Carries
<1> QED
  BY <1>4, <1>8 DEF s

\* Whole in terms of the set of headers.
Chain(w, H) == H \ {1} \subseteq { i + 1 + w[i][2] : i \in H }
Ends(w, H, l) ==
  \E i \in H : (\A j \in H : j <= i) /\ i + w[i][2] = l + Cardinality(H)

LEMMA WholeParts ==
  ASSUME NEW w, NEW l
  PROVE  Whole(w, l) <=> Chain(w, Heads(w)) /\ Ends(w, Heads(w), l)
BY DEF Whole, Chain, Ends, Heads

\* What follows the records does not change them.
LEMMA WholeMore ==
  ASSUME NEW u \in Seq(Item), NEW v \in Seq(Item), NEW l, Whole(u, l), Heads(v) = {}
  PROVE  Whole(u \o v, l) /\ Heads(u \o v) = Heads(u)
<1> DEFINE w == u \o v
           m == Len(u)
           k == Len(v)
<1>1. /\ w \in Seq(Item) /\ m \in Nat /\ k \in Nat
      /\ DOMAIN u = 1..m /\ DOMAIN v = 1..k /\ DOMAIN w = 1..(m + k)
      /\ \A i \in 1..m : w[i] = u[i]
      /\ \A i \in 1..k : w[m + i] = v[i]
  BY ConcatItems
<1> HIDE DEF w, m, k
<1>2. \A i \in 1..k : ~IsHead(v[i])
  BY <1>1 DEF Heads
<1>3. \A i \in 1..m : i \in 1..(m + k)
  BY <1>1
<1>4. ASSUME NEW i \in 1..(m + k), IsHead(w[i]) PROVE i \in 1..m
  <2>1. i \in 1..m \/ \E j \in 1..k : i = m + j
    BY ONLY <1>1, EitherPart, i \in 1..(m + k)
  <2> QED
    BY ONLY <1>1, <1>2, <1>4, <2>1
<1>5. Heads(w) = Heads(u)
  BY ONLY <1>1, <1>3, <1>4 DEF Heads
<1>6. \A i \in Heads(u) : w[i] = u[i]
  BY <1>1 DEF Heads
<1>7. Chain(w, Heads(u)) /\ Ends(w, Heads(u), l)
  <2>1. Chain(u, Heads(u)) /\ Ends(u, Heads(u), l)
    BY WholeParts
  <2> QED
    BY <1>6, <2>1 DEF Chain, Ends
<1>8. Whole(w, l)
  BY <1>5, <1>7, WholeParts
<1> QED
  BY <1>5, <1>8 DEF w

\* What the client sends, before tamp.
LEMMA StreamCarries ==
  ASSUME NEW a \in Nat, NEW b \in Nat, a <= b, NEW l \in Nat
  PROVE  LET s == Stream(a, b, l)
         IN /\ Carries(s, Lower(a, l), b)
            /\ a = 0 /\ l > 0 /\ b > 0 => Heads(s) = {1} /\ s[1] = Header(l) /\ Whole(s, l)
            /\ a > 0 \/ l = 0 => Heads(s) = {}
<1> DEFINE s == Stream(a, b, l)
<1>1. PICK k \in Nat : k = b - a
  OBVIOUS
<1>2. /\ DOMAIN s = 1..k
      /\ \A i \in 1..k : s[i] = IF l > 0 /\ a + i = 1 THEN Header(l) ELSE Byte(a + i)
  BY <1>1 DEF Stream
<1> HIDE DEF s
<1>3. \A i \in 1..k : IF l > 0 /\ a + i = 1 THEN IsHead(s[i])
                      ELSE ~IsHead(s[i]) /\ s[i] = Byte(a + i) /\ s[i][2] = a + i
  BY <1>2 DEF Header, Byte, IsHead
<1>4. InTurn(s)
  <2> SUFFICES ASSUME NEW i \in 1..k, NEW j \in 1..k, i < j, ~IsHead(s[i]), ~IsHead(s[j])
               PROVE  s[i][2] < s[j][2]
    BY <1>2 DEF InTurn
  <2>1. s[i][2] = a + i /\ s[j][2] = a + j
    BY <1>3
  <2> QED
    BY <2>1
<1>5. \A i \in 1..k : IsHead(s[i]) \/ (a + i \in (Lower(a, l) + 1)..b /\ s[i] = Byte(a + i))
  <2> SUFFICES ASSUME NEW i \in 1..k, ~IsHead(s[i])
               PROVE  a + i \in (Lower(a, l) + 1)..b /\ s[i] = Byte(a + i)
    OBVIOUS
  <2>1. ~(l > 0 /\ a + i = 1) /\ s[i] = Byte(a + i)
    BY <1>3
  <2>2. a + i \in (Lower(a, l) + 1)..b
    BY <1>1, <2>1 DEF Lower
  <2> QED
    BY <2>1, <2>2
<1>6. ASSUME NEW x \in (Lower(a, l) + 1)..b PROVE \E i \in 1..k : s[i] = Byte(x)
  <2>1. x - a \in 1..k /\ a + (x - a) = x /\ ~(l > 0 /\ a + (x - a) = 1)
    BY <1>1 DEF Lower
  <2>2. s[x - a] = Byte(x)
    BY <1>3, <2>1
  <2> QED
    BY <2>1, <2>2
<1>7. Carries(s, Lower(a, l), b)
  BY ONLY <1>2, <1>4, <1>5, <1>6 DEF Carries
<1>8. ASSUME a = 0, l > 0, b > 0 PROVE Heads(s) = {1} /\ s[1] = Header(l) /\ Whole(s, l)
  <2>1. 1 \in 1..k /\ \A i \in 1..k : a + i = 1 <=> i = 1
    BY <1>1, <1>8
  <2>2. Heads(s) = {1}
    BY <1>2, <1>3, <1>8, <2>1 DEF Heads
  <2>3. s[1] = Header(l)
    BY <1>2, <1>8, <2>1
  <2>4. Cardinality({1}) = 1
    BY FS_Singleton
  <2>5. Chain(s, {1})
    BY DEF Chain
  <2>6. Ends(s, {1}, l)
    BY <2>3, <2>4 DEF Ends, Header
  <2> QED
    BY <2>2, <2>3, <2>5, <2>6, WholeParts
<1>9. ASSUME a > 0 \/ l = 0 PROVE Heads(s) = {}
  <2>1. \A i \in 1..k : ~(l > 0 /\ a + i = 1)
    BY <1>9
  <2> QED
    BY <1>2, <1>3, <2>1 DEF Heads
<1> QED
  BY <1>7, <1>8, <1>9 DEF s

-----------------------------------------------------------------------------
(* tamp                                                                    *)

\* Items p to r of a sequence.
LEMMA MiddleItems ==
  ASSUME NEW w \in Seq(Item), NEW p \in Nat, NEW r \in Nat, p >= 1, p <= r + 1, r <= Len(w)
  PROVE  /\ SubSeq(w, p, r) \in Seq(Item) /\ Len(SubSeq(w, p, r)) = r + 1 - p
         /\ \A i \in 1..(r + 1 - p) : SubSeq(w, p, r)[i] = w[p + i - 1]
<1>1. Len(w) \in Nat
  BY LenProperties
<1>2. p \in 1..(Len(w) + 1) /\ r \in (p - 1)..Len(w)
  BY <1>1
<1>3. /\ SubSeq(w, p, r) \in Seq(Item)
      /\ Len(SubSeq(w, p, r)) = IF p <= r THEN r - p + 1 ELSE 0
      /\ \A i \in 1..(r - p + 1) : SubSeq(w, p, r)[i] = w[p + i - 1]
  BY <1>1, <1>2, SubSeqProperties
<1>4. (IF p <= r THEN r - p + 1 ELSE 0) = r + 1 - p /\ r - p + 1 = r + 1 - p
  OBVIOUS
<1> QED
  BY ONLY <1>3, <1>4

\* What a cut makes of a record, item by item.
CutShape(b, c, at, q) ==
  /\ \A i \in 1..at : c[i] = b[i]
  /\ c[at + 1] = Header(q)
  /\ \A i \in (at + 2)..(at + q + 1) : c[i] = b[i]
  /\ c[at + q + 2] = Header(b[at + 1][2] - q)
  /\ \A i \in (at + q + 2)..Len(b) : c[i + 1] = b[i]

LEMMA CutItems ==
  ASSUME NEW b \in Seq(Item), NEW at \in Nat, NEW q \in Nat, at + q + 1 <= Len(b)
  PROVE  CutShape(b, Cut(b, at, q), at, q)
<1>1. PICK l \in Nat : l = Len(b) /\ b \in [1..l -> Item]
  BY LenProperties
<1>2. b[at + 1][2] \in Int
  <2>1. at + 1 \in 1..l
    BY <1>1
  <2> QED
    BY <1>1, <2>1 DEF Item
<1> DEFINE h1 == << Header(q) >>
           h2 == << Header(b[at + 1][2] - q) >>
           s1 == SubSeq(b, 1, at)
           s2 == SubSeq(b, at + 2, at + q + 1)
           s3 == SubSeq(b, at + q + 2, l)
<1>3. /\ h1 \in Seq(Item) /\ Len(h1) = 1 /\ h1[1] = Header(q)
      /\ h2 \in Seq(Item) /\ Len(h2) = 1 /\ h2[1] = Header(b[at + 1][2] - q)
  BY <1>2 DEF Header, Item
<1>4. s1 \in Seq(Item) /\ Len(s1) = at /\ \A i \in 1..at : s1[i] = b[i]
  <2>1. at <= Len(b)
    BY <1>1
  <2> QED
    BY <2>1, StartItems
<1>5. s2 \in Seq(Item) /\ Len(s2) = q /\ \A i \in 1..q : s2[i] = b[at + 1 + i]
  <2>1. PICK p \in Nat, r \in Nat : p = at + 2 /\ r = at + q + 1
    OBVIOUS
  <2>2. p >= 1 /\ p <= r + 1 /\ r <= Len(b) /\ r + 1 - p = q
    BY <1>1, <2>1
  <2>3. /\ SubSeq(b, p, r) \in Seq(Item) /\ Len(SubSeq(b, p, r)) = q
        /\ \A i \in 1..q : SubSeq(b, p, r)[i] = b[p + i - 1]
    BY <2>2, MiddleItems
  <2>4. \A i \in 1..q : p + i - 1 = at + 1 + i
    BY <2>1
  <2> QED
    BY ONLY <2>1, <2>3, <2>4
<1>6. /\ s3 \in Seq(Item) /\ Len(s3) = l - (at + q + 1)
      /\ \A i \in 1..(l - (at + q + 1)) : s3[i] = b[at + q + 1 + i]
  <2>1. PICK p \in Nat : p = at + q + 2
    OBVIOUS
  <2>2. p >= 1 /\ p <= l + 1 /\ l <= Len(b) /\ l + 1 - p = l - (at + q + 1)
    BY <1>1, <2>1
  <2>3. /\ SubSeq(b, p, l) \in Seq(Item) /\ Len(SubSeq(b, p, l)) = l - (at + q + 1)
        /\ \A i \in 1..(l - (at + q + 1)) : SubSeq(b, p, l)[i] = b[p + i - 1]
    BY <2>2, MiddleItems
  <2>4. \A i \in 1..(l - (at + q + 1)) : p + i - 1 = at + q + 1 + i
    BY <2>1
  <2> QED
    BY ONLY <2>1, <2>3, <2>4
<1>7. Cut(b, at, q) = s1 \o h1 \o s2 \o h2 \o s3
  BY <1>1 DEF Cut
<1> HIDE DEF h1, h2, s1, s2, s3
<1>8. \A x, y \in Seq(Item) :
        /\ x \o y \in Seq(Item) /\ Len(x \o y) = Len(x) + Len(y)
        /\ \A i \in 1..Len(x) : (x \o y)[i] = x[i]
        /\ \A i \in 1..Len(y) : (x \o y)[Len(x) + i] = y[i]
  BY ConcatItems, ConcatProperties
<1> DEFINE t1 == s1 \o h1
           t2 == t1 \o s2
           t3 == t2 \o h2
           t4 == t3 \o s3
<1>9. /\ t1 \in Seq(Item) /\ Len(t1) = at + 1
      /\ \A i \in 1..at : t1[i] = b[i]
      /\ t1[at + 1] = Header(q)
  <2>1. Len(t1) = Len(s1) + Len(h1) /\ t1 \in Seq(Item)
    BY ONLY <1>3, <1>4, <1>8
  <2>2. 1 \in 1..Len(h1)
    BY <1>3
  <2>3. t1[Len(s1) + 1] = h1[1] /\ \A i \in 1..Len(s1) : t1[i] = s1[i]
    <3>1. s1 \in Seq(Item) /\ h1 \in Seq(Item)
      BY ONLY <1>3, <1>4, <1>8
    <3>2. /\ \A i \in 1..Len(s1) : (s1 \o h1)[i] = s1[i]
          /\ \A i \in 1..Len(h1) : (s1 \o h1)[Len(s1) + i] = h1[i]
      BY ONLY <1>8, <3>1
    <3> QED
      BY ONLY <2>2, <3>2
  <2> HIDE DEF t1
  <2> QED
    BY ONLY <1>3, <1>4, <2>1, <2>3
<1> HIDE DEF t1
<1>10. /\ t2 \in Seq(Item) /\ Len(t2) = at + 1 + q
       /\ \A i \in 1..(at + 1) : t2[i] = t1[i]
       /\ \A i \in 1..q : t2[at + 1 + i] = b[at + 1 + i]
  <2>1. Len(t2) = Len(t1) + Len(s2) /\ t2 \in Seq(Item)
    BY ONLY <1>5, <1>8, <1>9
  <2>2. /\ \A i \in 1..Len(t1) : t2[i] = t1[i]
        /\ \A i \in 1..Len(s2) : t2[Len(t1) + i] = s2[i]
    BY ONLY <1>5, <1>8, <1>9
  <2> HIDE DEF t2
  <2> QED
    BY ONLY <1>5, <1>9, <2>1, <2>2
<1> HIDE DEF t2
<1>11. /\ t3 \in Seq(Item) /\ Len(t3) = at + 1 + q + 1
       /\ \A i \in 1..(at + 1 + q) : t3[i] = t2[i]
       /\ t3[at + 1 + q + 1] = Header(b[at + 1][2] - q)
  <2>1. Len(t3) = Len(t2) + Len(h2) /\ t3 \in Seq(Item)
    BY ONLY <1>3, <1>8, <1>10
  <2>2. 1 \in 1..Len(h2)
    BY <1>3
  <2>3. t3[Len(t2) + 1] = h2[1] /\ \A i \in 1..Len(t2) : t3[i] = t2[i]
    <3>1. t2 \in Seq(Item) /\ h2 \in Seq(Item)
      BY ONLY <1>3, <1>8, <1>10
    <3>2. /\ \A i \in 1..Len(t2) : (t2 \o h2)[i] = t2[i]
          /\ \A i \in 1..Len(h2) : (t2 \o h2)[Len(t2) + i] = h2[i]
      BY ONLY <1>8, <3>1
    <3> QED
      BY ONLY <2>2, <3>2
  <2> HIDE DEF t3
  <2> QED
    BY ONLY <1>3, <1>10, <2>1, <2>3
<1> HIDE DEF t3
<1>12. /\ \A i \in 1..(at + 1 + q + 1) : t4[i] = t3[i]
       /\ \A i \in 1..(l - (at + q + 1)) : t4[at + 1 + q + 1 + i] = b[at + q + 1 + i]
  <2>1. /\ \A i \in 1..Len(t3) : t4[i] = t3[i]
        /\ \A i \in 1..Len(s3) : t4[Len(t3) + i] = s3[i]
    BY ONLY <1>6, <1>8, <1>11
  <2> HIDE DEF t4
  <2>2. Len(t3) = at + 1 + q + 1 /\ Len(s3) = l - (at + q + 1)
    BY ONLY <1>6, <1>11
  <2>3. \A i \in 1..(at + 1 + q + 1) : t4[i] = t3[i]
    BY ONLY <2>1, <2>2
  <2>4. \A i \in 1..(l - (at + q + 1)) : t4[at + 1 + q + 1 + i] = s3[i]
    BY ONLY <2>1, <2>2
  <2>5. ASSUME NEW i \in 1..(l - (at + q + 1))
        PROVE  t4[at + 1 + q + 1 + i] = b[at + q + 1 + i]
    <3>1. t4[at + 1 + q + 1 + i] = s3[i]
      BY ONLY <2>4, i \in 1..(l - (at + q + 1))
    <3>2. s3[i] = b[at + q + 1 + i]
      BY ONLY <1>6, i \in 1..(l - (at + q + 1))
    <3> QED
      BY ONLY <3>1, <3>2
  <2> QED
    BY ONLY <2>3, <2>5
<1> HIDE DEF t4
<1>13. Cut(b, at, q) = t4
  BY ONLY <1>7 DEF t1, t2, t3, t4
<1>14. \A i \in 1..at : t4[i] = b[i]
  <2>1. \A i \in 1..at : i \in 1..(at + 1) /\ i \in 1..(at + 1 + q) /\ i \in 1..(at + 1 + q + 1)
    OBVIOUS
  <2> QED
    BY ONLY <1>9, <1>10, <1>11, <1>12, <2>1
<1>15. t4[at + 1] = Header(q)
  <2>1. at + 1 \in 1..(at + 1) /\ at + 1 \in 1..(at + 1 + q) /\ at + 1 \in 1..(at + 1 + q + 1)
    OBVIOUS
  <2> QED
    BY ONLY <1>9, <1>10, <1>11, <1>12, <2>1
<1>16. ASSUME NEW i \in (at + 2)..(at + q + 1) PROVE t4[i] = b[i]
  <2>1. /\ i \in 1..(at + 1 + q) /\ i \in 1..(at + 1 + q + 1)
        /\ i - (at + 1) \in 1..q /\ at + 1 + (i - (at + 1)) = i
    OBVIOUS
  <2> QED
    BY ONLY <1>10, <1>11, <1>12, <2>1
<1>17. t4[at + q + 2] = Header(b[at + 1][2] - q)
  <2>1. at + 1 + q + 1 = at + q + 2 /\ at + 1 + q + 1 \in 1..(at + 1 + q + 1)
    OBVIOUS
  <2> QED
    BY ONLY <1>11, <1>12, <2>1
<1>18. ASSUME NEW i \in (at + q + 2)..l PROVE t4[i + 1] = b[i]
  <2>1. /\ i - (at + q + 1) \in 1..(l - (at + q + 1))
        /\ at + 1 + q + 1 + (i - (at + q + 1)) = i + 1
        /\ at + q + 1 + (i - (at + q + 1)) = i
    OBVIOUS
  <2> QED
    BY ONLY <1>12, <2>1
<1> QED
  BY ONLY <1>1, <1>13, <1>14, <1>15, <1>16, <1>17, <1>18 DEF CutShape

\* The last header of a buffer, whose record goes to the end of the buffer or beyond.
LastHead(b, i) ==
  i \in Heads(b) /\ (\A j \in Heads(b) : j <= i) /\ b[i][2] >= Len(b) - i

\* Cutting the last record keeps the client's bytes and makes one more header, the
\* last one now.
LEMMA CutKeeps ==
  ASSUME NEW b \in Seq(Item), NEW at \in Nat, NEW q \in Nat, at + q + 1 <= Len(b),
         LastHead(b, at + 1), NEW x \in Nat, NEW y \in Nat, Carries(b, x, y)
  PROVE  LET c == Cut(b, at, q)
         IN /\ Carries(c, x, y) /\ LastHead(c, at + q + 2)
            /\ Heads(c) = Heads(b) \cup {at + q + 2}
<1> DEFINE c == Cut(b, at, q)
           s == at + q + 2
<1>1. PICK l \in Nat : l = Len(b) /\ DOMAIN b = 1..l /\ b \in [1..l -> Item]
  BY LenProperties
<1>2. c \in Seq(Item) /\ Len(c) = l + 1 /\ DOMAIN c = 1..(l + 1)
  <2>1. c \in Seq(Item) /\ Len(c) = l + 1
    BY <1>1, CutLonger
  <2> HIDE DEF c
  <2> QED
    BY <2>1, LenProperties
<1>3. /\ \A i \in 1..at : c[i] = b[i]
      /\ c[at + 1] = Header(q)
      /\ \A i \in (at + 2)..(at + q + 1) : c[i] = b[i]
      /\ c[at + q + 2] = Header(b[at + 1][2] - q)
      /\ \A i \in (at + q + 2)..l : c[i + 1] = b[i]
  <2>1. CutShape(b, c, at, q)
    BY CutItems
  <2> HIDE DEF c
  <2> QED
    BY ONLY <1>1, <2>1 DEF CutShape
<1> HIDE DEF c
<1>4. /\ IsHead(b[at + 1]) /\ at + 1 \in 1..l
      /\ \A j \in 1..l : IsHead(b[j]) => j <= at + 1
      /\ b[at + 1][2] \in Int /\ b[at + 1][2] >= l - (at + 1)
  <2>1. at + 1 \in 1..l
    BY <1>1
  <2>2. b[at + 1][2] \in Int
    BY <1>1, <2>1 DEF Item
  <2> QED
    BY <1>1, <2>1, <2>2 DEF LastHead, Heads
<1>5. IsHead(c[at + 1]) /\ IsHead(c[s])
  BY <1>3 DEF IsHead, Header
<1>6. ASSUME NEW i \in 1..l, i # at + 1 PROVE (i < s /\ c[i] = b[i]) \/ (i >= s /\ c[i + 1] = b[i])
  <2>1. i \in 1..at \/ i \in (at + 2)..(at + q + 1) \/ i \in (at + q + 2)..l
    BY <1>6
  <2> QED
    BY <1>3, <2>1
<1>7. ASSUME NEW i \in 1..(l + 1), i # at + 1, i # s
      PROVE  \/ i < s /\ i \in 1..l /\ c[i] = b[i]
             \/ i > s /\ i - 1 \in 1..l /\ i - 1 > at + 1 /\ c[i] = b[i - 1]
  <2>1. i \in 1..at \/ i \in (at + 2)..(at + q + 1) \/ i > s
    BY <1>7
  <2>2. CASE i \in 1..at \/ i \in (at + 2)..(at + q + 1)
    <3>1. c[i] = b[i]
      BY <1>3, <2>2
    <3> QED
      BY <1>1, <2>2, <3>1
  <2>3. CASE i > s
    <3>1. i - 1 \in (at + q + 2)..l /\ (i - 1) + 1 = i /\ i - 1 > at + 1 /\ i - 1 \in 1..l
      BY <2>3
    <3>2. c[(i - 1) + 1] = b[i - 1]
      BY ONLY <1>3, <3>1
    <3> QED
      BY <2>3, <3>1, <3>2
  <2> QED
    BY <2>1, <2>2, <2>3
<1>8. InTurn(c)
  <2> SUFFICES ASSUME NEW i \in 1..(l + 1), NEW j \in 1..(l + 1), i < j,
                      ~IsHead(c[i]), ~IsHead(c[j])
               PROVE  c[i][2] < c[j][2]
    BY <1>2 DEF InTurn
  <2>1. i # at + 1 /\ i # s /\ j # at + 1 /\ j # s
    BY <1>5
  <2>2. PICK u \in 1..l : c[i] = b[u] /\ ((u = i /\ i < s) \/ (u = i - 1 /\ i > s))
    <3>1. \/ i < s /\ i \in 1..l /\ c[i] = b[i]
          \/ i > s /\ i - 1 \in 1..l /\ c[i] = b[i - 1]
      BY <1>7, <2>1
    <3> QED
      BY ONLY <3>1
  <2>3. PICK v \in 1..l : c[j] = b[v] /\ ((v = j /\ j < s) \/ (v = j - 1 /\ j > s))
    <3>1. \/ j < s /\ j \in 1..l /\ c[j] = b[j]
          \/ j > s /\ j - 1 \in 1..l /\ c[j] = b[j - 1]
      BY <1>7, <2>1
    <3> QED
      BY ONLY <3>1
  <2>4. u < v
    BY <2>2, <2>3
  <2> QED
    BY <1>1, <2>2, <2>3, <2>4 DEF Carries, InTurn
<1>9. ASSUME NEW i \in 1..(l + 1)
      PROVE  IsHead(c[i]) \/ \E k \in (x + 1)..y : c[i] = Byte(k)
  <2>1. CASE i = at + 1 \/ i = s
    BY <1>5, <2>1
  <2>2. CASE i # at + 1 /\ i # s
    <3>1. PICK u \in 1..l : c[i] = b[u]
      BY <1>7, <2>2
    <3> QED
      BY <1>1, <3>1 DEF Carries
  <2> QED
    BY <2>1, <2>2
<1>10. ASSUME NEW k \in (x + 1)..y
       PROVE  \E i \in 1..(l + 1) : c[i] = Byte(k)
  <2>1. PICK i \in 1..l : b[i] = Byte(k)
    BY <1>1 DEF Carries
  <2>2. i # at + 1
    BY <1>4, <2>1 DEF IsHead, Byte
  <2>3. i \in 1..(l + 1) /\ i + 1 \in 1..(l + 1)
    OBVIOUS
  <2> QED
    BY <1>6, <2>1, <2>2, <2>3
<1>11. Carries(c, x, y)
  BY ONLY <1>2, <1>8, <1>9, <1>10 DEF Carries
<1>12. s \in 1..(l + 1) /\ at + 1 \in 1..(l + 1)
  BY <1>1
<1>13. ASSUME NEW i \in 1..(l + 1), IsHead(c[i]) PROVE i = s \/ (i \in 1..l /\ IsHead(b[i]))
  <2>1. CASE i = at + 1
    BY <1>4, <2>1
  <2>2. CASE i # at + 1 /\ i # s
    <3>1. \/ i < s /\ i \in 1..l /\ c[i] = b[i]
          \/ i - 1 \in 1..l /\ i - 1 > at + 1 /\ c[i] = b[i - 1]
      BY <1>7, <2>2
    <3>2. ASSUME i - 1 \in 1..l, i - 1 > at + 1, c[i] = b[i - 1] PROVE FALSE
      <4>1. i - 1 <= at + 1
        BY <1>4, <1>13, <3>2
      <4> QED
        BY <3>2, <4>1
    <3> QED
      BY <1>13, <3>1, <3>2
  <2> QED
    BY <2>1, <2>2
<1>14. ASSUME NEW i \in 1..l, IsHead(b[i]) PROVE i \in 1..(l + 1) /\ IsHead(c[i])
  <2>1. i <= at + 1
    BY <1>4, <1>14
  <2>2. CASE i = at + 1
    BY <1>5, <1>12, <2>2
  <2>3. CASE i # at + 1
    <3>1. i \in 1..at
      BY <2>1, <2>3
    <3> QED
      BY <1>3, <1>14, <3>1
  <2> QED
    BY <2>2, <2>3
<1>15. Heads(c) = Heads(b) \cup {s}
  BY ONLY <1>1, <1>2, <1>5, <1>12, <1>13, <1>14 DEF Heads
<1>16. LastHead(c, s)
  <2>1. \A j \in Heads(c) : j <= s
    <3>1. \A j \in Heads(b) : j <= at + 1 /\ j \in Nat
      BY <1>1, <1>4 DEF Heads
    <3> QED
      BY <1>15, <3>1
  <2>2. c[s][2] = b[at + 1][2] - q
    BY <1>3 DEF Header
  <2>3. b[at + 1][2] - q >= (l + 1) - s
    <3> DEFINE r == b[at + 1][2]
    <3>1. r \in Int /\ r >= l - (at + 1)
      BY ONLY <1>4
    <3> HIDE DEF r
    <3>2. r - q >= (l + 1) - (at + q + 2)
      BY ONLY <3>1, at \in Nat, q \in Nat, l \in Nat
    <3> QED
      BY ONLY <3>2 DEF r
  <2> QED
    BY <1>2, <1>15, <2>1, <2>2, <2>3 DEF LastHead
<1> QED
  BY <1>11, <1>15, <1>16 DEF c

\* The records stay whole.
LEMMA CutWhole ==
  ASSUME NEW b \in Seq(Item), NEW at \in Nat, NEW q \in Nat, at + q + 1 <= Len(b),
         LastHead(b, at + 1), NEW x \in Nat, NEW y \in Nat, Carries(b, x, y),
         NEW h \in Nat, Whole(b, h)
  PROVE  Whole(Cut(b, at, q), h)
<1> DEFINE c == Cut(b, at, q)
           s == at + q + 2
           H == Heads(b)
<1>1. PICK l \in Nat : l = Len(b) /\ DOMAIN b = 1..l /\ b \in [1..l -> Item]
  BY LenProperties
<1>2. Heads(c) = H \cup {s}
  BY CutKeeps
<1>3. /\ \A i \in 1..at : c[i] = b[i]
      /\ c[at + 1] = Header(q)
      /\ c[s] = Header(b[at + 1][2] - q)
  <2>1. CutShape(b, c, at, q)
    BY CutItems
  <2> HIDE DEF c
  <2> QED
    BY ONLY <2>1 DEF CutShape
<1> HIDE DEF c
<1>4. at + 1 \in H /\ (\A j \in H : j <= at + 1) /\ b[at + 1][2] >= l - (at + 1)
  BY <1>1 DEF LastHead
<1>5. H \subseteq 1..l /\ at + 1 \in 1..l
  BY <1>1, <1>4 DEF Heads
<1>6. \A i \in H : i \in Nat /\ b[i][2] \in Int
  BY <1>1, <1>5 DEF Item
<1>7. IsFiniteSet(H) /\ s \notin H
  <2>1. IsFiniteSet(1..l)
    BY FS_Interval
  <2>2. IsFiniteSet(H)
    BY <1>5, <2>1, FS_Subset
  <2> QED
    BY <1>4, <2>2
<1>8. Cardinality(H) \in Nat /\ Cardinality(H \cup {s}) = Cardinality(H) + 1
  BY <1>7, FS_CardinalityType, FS_AddElement
<1>9. Chain(b, H) /\ Ends(b, H, h)
  BY WholeParts
<1> HIDE DEF H
<1>10. Chain(c, H \cup {s})
  <2> SUFFICES ASSUME NEW j \in H \cup {s}, j # 1
               PROVE  \E i \in H \cup {s} : j = i + 1 + c[i][2]
    BY DEF Chain
  <2>1. CASE j = s
    <3>1. c[at + 1][2] = q
      BY <1>3 DEF Header
    <3>2. s = (at + 1) + 1 + q
      OBVIOUS
    <3> QED
      BY <1>4, <2>1, <3>1, <3>2
  <2>2. CASE j \in H
    <3>1. PICK i \in H : j = i + 1 + b[i][2]
      BY <1>9, <2>2 DEF Chain
    <3>2. i # at + 1
      <4>1. j <= at + 1
        BY <1>4, <2>2
      <4>2. l - (at + 1) >= 0
        BY <1>5
      <4>3. b[at + 1][2] \in Int /\ b[at + 1][2] >= 0
        <5>1. b[at + 1][2] \in Int /\ b[at + 1][2] >= l - (at + 1) /\ l - (at + 1) \in Int
          BY ONLY <1>4, <1>6, at \in Nat, l \in Nat
        <5> QED
          BY ONLY <4>2, <5>1
      <4>4. ASSUME i = at + 1 PROVE FALSE
        <5>1. j = (at + 1) + 1 + b[at + 1][2]
          BY ONLY <3>1, <4>4
        <5> QED
          BY ONLY <4>1, <4>3, <5>1, at \in Nat
      <4> QED
        BY <4>4
    <3>3. i \in 1..at
      BY <1>4, <1>5, <3>2
    <3> QED
      BY <1>3, <3>1, <3>3
  <2> QED
    BY <2>1, <2>2
<1>11. Ends(c, H \cup {s}, h)
  <2>1. PICK i \in H : (\A j \in H : j <= i) /\ i + b[i][2] = h + Cardinality(H)
    BY <1>9 DEF Ends
  <2>2. i = at + 1
    BY <1>4, <1>6, <2>1
  <2>3. c[s][2] = b[at + 1][2] - q
    BY <1>3 DEF Header
  <2>4. b[at + 1][2] \in Int /\ (at + 1) + b[at + 1][2] = h + Cardinality(H)
    BY <1>4, <1>6, <2>1, <2>2
  <2>5. s + c[s][2] = h + Cardinality(H \cup {s})
    <3> DEFINE r == b[at + 1][2]
               k == Cardinality(H)
    <3>1. r \in Int /\ k \in Nat /\ (at + 1) + r = h + k
      BY ONLY <1>8, <2>4
    <3> HIDE DEF r, k
    <3>2. (at + q + 2) + (r - q) = h + (k + 1)
      BY ONLY <3>1, at \in Nat, q \in Nat, h \in Nat
    <3> QED
      BY ONLY <1>8, <2>3, <3>2 DEF r, k
  <2>6. \A j \in H \cup {s} : j <= s
    BY <1>4, <1>6
  <2> QED
    BY <2>5, <2>6 DEF Ends
<1> QED
  BY <1>2, <1>10, <1>11, WholeParts DEF c

\* What a turn of tamp leaves: all bytes, whole records and, while the loop goes on, the
\* last of them where the next turn cuts.
Kept(t, x, y, h) ==
  /\ Len(t.buf) <= BufSize
  /\ Carries(t.buf, x, y) /\ Whole(t.buf, h)
  /\ t.on => LastHead(t.buf, t.lp + 1)

LEMMA TurnKeeps ==
  ASSUME NEW t \in Turns, NEW c \in Piece, NEW z \in Nat,
         NEW x \in Nat, NEW y \in Nat, NEW h \in Nat, Kept(t, x, y, h)
  PROVE  part_tls(t, c, z) \in Turns /\ Kept(part_tls(t, c, z), x, y, h)
<1> USE DesyncAssumption
<1> DEFINE l == Len(t.buf)
           back == IF c.pos < 0 \/ c.flag # "none" THEN 1 ELSE 0
           pos == t.rc + gen_offset(c, l - t.rc, z) - back + c.s * c.k
           u == part_tls(t, c, z)
<1>1. /\ t.buf \in Seq(Item) /\ l \in Nat /\ t.lp \in Nat /\ t.rc \in Nat /\ t.on \in BOOLEAN
      /\ l <= BufSize
  BY LenProperties DEF Turns, Kept
<1>2. pos \in Int
  <2>1. gen_offset(c, l - t.rc, z) \in Int
    BY <1>1, PlaceInt
  <2>2. c.s * c.k \in Int
    BY DEF Piece
  <2> QED
    BY <1>1, <2>1, <2>2
<1> HIDE DEF pos
<1>3. u \in Turns /\ Len(u.buf) <= BufSize
  BY <1>1, TurnLonger
<1>4. CASE ~t.on \/ pos < t.lp \/ l < t.lp + 1 \/ l + 1 > BufSize \/ pos + 1 > l
  <2>1. u = [t EXCEPT !.on = FALSE]
    BY <1>4 DEF part_tls, pos
  <2>2. u.buf = t.buf /\ u.on = FALSE
    BY <2>1 DEF Turns
  <2> HIDE DEF u
  <2>3. Kept(u, x, y, h)
    BY <1>1, <2>2 DEF Kept
  <2> QED
    BY <1>3, <2>3 DEF u
<1>5. CASE ~(~t.on \/ pos < t.lp \/ l < t.lp + 1 \/ l + 1 > BufSize \/ pos + 1 > l)
  <2>1. PICK q \in Nat : q = pos - t.lp /\ t.lp + q + 1 <= l /\ t.lp + 1 \in 1..l
                         /\ (pos + 1) + 1 = t.lp + q + 2
    <3> DEFINE at == t.lp
    <3>1. at \in Nat /\ l \in Nat /\ pos \in Int /\ ~(pos < at) /\ ~(pos + 1 > l)
      BY ONLY <1>1, <1>2, <1>5
    <3> HIDE DEF at, l
    <3>2. PICK q \in Nat : q = pos - at
      BY ONLY <3>1
    <3>3. at + q + 1 <= l /\ at + 1 \in 1..l /\ (pos + 1) + 1 = at + q + 2
      BY ONLY <3>1, <3>2, q \in Nat
    <3> QED
      BY ONLY <3>2, <3>3, q \in Nat DEF at
  <2>2. LastHead(t.buf, t.lp + 1)
    BY <1>5 DEF Kept
  <2>3. t.buf[t.lp + 1][2] \in Int /\ ~(t.buf[t.lp + 1][2] < q)
    <3>1. t.lp + 1 \in 1..l
      BY ONLY <2>1
    <3>2. t.buf[t.lp + 1] \in Item
      BY <1>1, <3>1, ElementOfSeq
    <3>3. t.buf[t.lp + 1][2] \in Int
      BY <3>2 DEF Item
    <3>4. t.buf[t.lp + 1][2] >= l - (t.lp + 1)
      BY <2>2 DEF LastHead
    <3> DEFINE r == t.buf[t.lp + 1][2]
               at == t.lp
    <3>5. r \in Int /\ r >= l - (at + 1) /\ at \in Nat /\ l \in Nat /\ at + q + 1 <= l
      BY ONLY <1>1, <2>1, <3>3, <3>4
    <3> HIDE DEF r, at
    <3>6. ~(r < q)
      BY ONLY <3>5, q \in Nat
    <3> QED
      BY ONLY <3>5, <3>6 DEF r
  <2>4. u = [on |-> TRUE, lp |-> pos + 1, rc |-> t.rc + 1, buf |-> Cut(t.buf, t.lp, q)]
    BY <1>5, <2>1, <2>3 DEF part_tls, pos
  <2>5. u.on = TRUE /\ u.lp + 1 = t.lp + q + 2 /\ u.buf = Cut(t.buf, t.lp, q)
    <3>1. (pos + 1) + 1 = t.lp + q + 2
      BY ONLY <2>1
    <3> QED
      BY ONLY <2>4, <3>1
  <2>6. Carries(t.buf, x, y) /\ Whole(t.buf, h)
    BY DEF Kept
  <2>7. Carries(Cut(t.buf, t.lp, q), x, y) /\ LastHead(Cut(t.buf, t.lp, q), t.lp + q + 2)
    BY <1>1, <2>1, <2>2, <2>6, CutKeeps
  <2>8. Whole(Cut(t.buf, t.lp, q), h)
    BY <1>1, <2>1, <2>2, <2>6, CutWhole
  <2> HIDE DEF u
  <2>9. Kept(u, x, y, h)
    BY ONLY <1>3, <2>5, <2>7, <2>8 DEF Kept
  <2> QED
    BY <1>3, <2>9 DEF u
<1> QED
  BY <1>4, <1>5

\* tamp cuts a hello into whole records that together have its bytes.
LEMMA TampKeeps ==
  ASSUME NEW b \in Seq(Item), NEW z \in Nat, Len(b) <= BufSize, tlsrec \in Seq(Piece),
         NEW x \in Nat, NEW y \in Nat, NEW h \in Nat,
         Carries(b, x, y), Whole(b, h), LastHead(b, 1)
  PROVE  Carries(tamp(b, z), x, y) /\ Whole(tamp(b, z), h)
<1>1. PICK m \in Nat : m = Len(tlsrec) /\ tlsrec \in [1..m -> Piece]
  BY LenProperties
<1> DEFINE start == [buf |-> b, lp |-> 0, rc |-> 0, on |-> TRUE]
           X == {t \in Turns : Kept(t, x, y, h)}
<1>2. start \in X
  <2>1. start \in Turns /\ start.buf = b /\ start.lp = 0 /\ start.on = TRUE
    BY DEF Turns
  <2>2. 0 + 1 = 1
    OBVIOUS
  <2> HIDE DEF start
  <2>3. Kept(start, x, y, h)
    BY <2>1, <2>2 DEF Kept
  <2> QED
    BY <2>1, <2>3
<1>3. ASSUME NEW i \in 1..m, NEW t \in X
      PROVE  part_tls(t, tlsrec[i], z) \in X
  <2>1. tlsrec[i] \in Piece
    BY <1>1
  <2> QED
    BY <2>1, TurnKeeps
<1>4. \A t \in X : Carries(t.buf, x, y) /\ Whole(t.buf, h)
  BY DEF Kept
<1> HIDE DEF X
<1>5. tamp(b, z) = b \/ \E t \in X : tamp(b, z) = t.buf
  BY ONLY <1>1, <1>2, <1>3, TampTurns
<1> QED
  BY <1>4, <1>5

\* Other data is left alone.
LEMMA TampLeaves ==
  ASSUME NEW b \in Seq(Item), NEW z, Heads(b) = {}
  PROVE  tamp(b, z) = b
<1>1. Len(b) \in Nat /\ DOMAIN b = 1..Len(b)
  BY LenProperties
<1>2. Len(b) > 1 => b[1][1] # "head"
  BY <1>1 DEF Heads, IsHead
<1> QED
  BY <1>2 DEF tamp

\* What desync starts with: the data of the client from byte a + 1 on, as it is or as tamp
\* has rewritten it.
Data(b, a, c, h) ==
  /\ Carries(b, Lower(a, h), c)
  /\ a = 0 /\ h > 0 => Whole(b, h)
  /\ a > 0 \/ h = 0 => Heads(b) = {}

LEMMA TampData ==
  ASSUME NEW a \in Nat, NEW c \in Nat, a < c, NEW h \in Nat, NEW z \in Nat,
         c - a <= BufSize, tlsrec \in Seq(Piece), a = 0 /\ h > 0 => h >= c - 1
  PROVE  Data(Stream(a, c, h), a, c, h) /\ Data(tamp(Stream(a, c, h), z), a, c, h)
<1> DEFINE s == Stream(a, c, h)
<1>1. s \in Seq(Item) /\ Len(s) = c - a
  <2>1. a <= c
    OBVIOUS
  <2> QED
    BY <2>1, StreamTyped
<1>2. Data(s, a, c, h)
  BY StreamCarries DEF Data
<1>3. CASE a = 0 /\ h > 0
  <2>1. Heads(s) = {1} /\ s[1] = Header(h) /\ Whole(s, h)
    BY <1>3, StreamCarries
  <2>2. Lower(a, h) \in Nat /\ Carries(s, Lower(a, h), c)
    BY <1>2 DEF Data, Lower
  <2> HIDE DEF s
  <2>3. LastHead(s, 1)
    <3>1. s[1][2] = h /\ h >= Len(s) - 1
      BY <1>1, <1>3, <2>1 DEF Header
    <3> QED
      BY <2>1, <3>1 DEF LastHead
  <2>4. Carries(tamp(s, z), Lower(a, h), c) /\ Whole(tamp(s, z), h)
    BY <1>1, <2>1, <2>2, <2>3, TampKeeps
  <2>5. Data(tamp(s, z), a, c, h)
    BY <1>3, <2>4 DEF Data
  <2> QED
    BY <1>2, <2>5 DEF s
<1>4. CASE ~(a = 0 /\ h > 0)
  <2>1. Heads(s) = {}
    BY <1>4, StreamCarries
  <2>2. tamp(s, z) = s
    BY <1>1, <2>1, TampLeaves
  <2> QED
    BY <1>2, <2>2
<1> QED
  BY <1>3, <1>4

-----------------------------------------------------------------------------
(* The data in the buffer                                                  *)

Busy == pc \notin {"idle", "closed"}

\* How much of the buffer has been sent as far as the call knows.
Pos == IF pc \in {"part", "rest", "plain"} THEN lp
       ELSE IF pc = "return" THEN offset + ret ELSE offset

\* A round has data, and a hello that is sent again has not grown beyond its record.
HelloInv ==
  /\ round > 0 => taken > 0
  /\ taken = 0 => wire = <<>>
  /\ round = 1 /\ ~answered /\ hello > 0 => hello >= taken - 1

\* A new connection starts with all that the client has sent.
ConnectInv ==
  pc = "connect" =>
    /\ base = 0 /\ buf = Stream(0, taken, hello) /\ wire = <<>>
    /\ round_sent = 0 /\ part_sent = 0 /\ round = 1 /\ ~answered

PlainInv == pc = "plain" => lp = offset

\* The buffer holds what the client has sent last, and only tamp has rewritten it.
BufInv == "again" \notin upset /\ Busy => Data(buf, base, taken, hello)

\* What goes to the server in a step, if anything.
LEMMA WireGrows ==
  ASSUME Types, PlainInv, Part \/ Rest \/ Plain
  PROVE  \/ wire' = wire
         \/ \E x \in Nat : Pos <= x /\ x <= Len(buf) /\ wire' = wire \o Bytes(Pos, x)
<1>1. /\ lp \in Nat /\ offset \in Nat /\ Len(buf) \in Nat
      /\ pc \in InCall => offset <= lp /\ lp <= Len(buf)
  BY LengthFacts DEF Types, CallTypes, BufTypes
<1>2. CASE Part
  <2>1. pc = "part" /\ Pos = lp
    BY <1>2 DEF Part, Pos
  <2>2. PICK c \in Piece, place \in Int :
          Passes(place) \/ Stops(place) \/ \E p \in Nat : Sends(c, place, p)
    BY <1>2, PartFacts
  <2>3. CASE Passes(place) \/ Stops(place)
    BY <2>3 DEF Passes, Stops
  <2>4. ASSUME NEW p \in Nat, Sends(c, place, p)
        PROVE  wire' = wire \/ \E x \in lp..p : Grown(x)
    <3>1. p \in lp..p
      BY <1>1, <2>4 DEF Sends
    <3> QED
      BY <2>4, <3>1 DEF Sends, Again, Anew, Accepted, Refused
  <2>5. ASSUME NEW p \in Nat, Sends(c, place, p), NEW x \in lp..p, Grown(x)
        PROVE  x \in Nat /\ Pos <= x /\ x <= Len(buf) /\ wire' = wire \o Bytes(Pos, x)
    <3>1. p <= Len(buf)
      BY <2>5 DEF Sends
    <3> QED
      BY <1>1, <2>1, <2>5, <3>1 DEF Grown
  <2> QED
    BY <2>2, <2>3, <2>4, <2>5
<1>3. CASE Rest
  <2>1. pc = "rest" /\ Pos = lp /\ lp <= Len(buf)
    BY <1>1, <1>3 DEF Rest, Pos, InCall
  <2>2. CASE wire' = wire
    BY <2>2
  <2>3. ASSUME NEW q \in Takes(IF lp < n THEN n - lp ELSE 0), wire' = wire \o Bytes(lp, lp + q)
        PROVE  \E x \in Nat : Pos <= x /\ x <= Len(buf) /\ wire' = wire \o Bytes(Pos, x)
    <3>1. q \in Nat /\ lp + q <= Len(buf)
      BY <1>1, <2>1, <2>3 DEF Takes, n
    <3>2. lp + q \in Nat /\ lp <= lp + q
      BY <1>1, <3>1
    <3> QED
      BY <2>1, <2>3, <3>1, <3>2
  <2> QED
    BY <1>3, <2>2, <2>3 DEF Rest
<1>4. CASE Plain
  <2>1. pc = "plain" /\ Pos = offset /\ offset <= Len(buf)
    BY <1>1, <1>4 DEF Plain, Pos, InCall, PlainInv
  <2>2. CASE wire' = wire
    BY <2>2
  <2>3. ASSUME NEW q \in Takes(n - offset), wire' = wire \o Bytes(offset, offset + q)
        PROVE  \E x \in Nat : Pos <= x /\ x <= Len(buf) /\ wire' = wire \o Bytes(Pos, x)
    <3>1. q \in Nat /\ offset + q <= Len(buf)
      BY <1>1, <2>1, <2>3 DEF Takes, n
    <3>2. offset + q \in Nat /\ offset <= offset + q
      BY <1>1, <3>1
    <3> QED
      BY <2>1, <2>3, <3>1, <3>2
  <2> QED
    BY <1>4, <2>2, <2>3 DEF Plain
<1> QED
  BY <1>2, <1>3, <1>4

LEMMA PosTyped ==
  ASSUME Types
  PROVE  Pos \in Nat /\ (Busy => Pos <= Len(buf))
<1>1. Len(buf) \in Nat
  BY LengthFacts
<1> QED
  BY <1>1 DEF Types, BufTypes, CallTypes, Pos, Busy, InCall

LEMMA HelloStep ==
  ASSUME ~SameRound, Types, StartInv, HelloInv, [Next]_vars
  PROVE  HelloInv'
<1>1. round \in Nat /\ taken \in Nat /\ hello \in Nat
  BY DEF Types, DataTypes
<1>2. CASE \E l \in Lengths, h \in Hosts, m \in Missing : Recv(l, h, m)
  <2>1. PICK l \in Lengths, m \in Missing :
          /\ taken' = taken + l
          /\ hello' \in (IF taken = 0 /\ tlsrec # <<>> THEN {0, l - 1 + m} ELSE {hello})
          /\ round = 0 \/ answered
          /\ IF round_sent = 0
             THEN round' = round + 1 /\ answered' = FALSE
             ELSE UNCHANGED <<round, answered>>
    BY <1>2 DEF Recv
  <2>2. l \in Nat /\ l > 0 /\ m \in Nat
    BY DesyncAssumption
  <2>3. taken' > 0 /\ taken' # 0
    BY <1>1, <2>1, <2>2
  <2>4. ASSUME round' = 1, ~answered', hello' > 0 PROVE hello' >= taken' - 1
    <3>1. round = 0
      BY <1>1, <2>1, <2>4
    <3>2. taken = 0 /\ hello = 0
      BY <3>1 DEF StartInv
    <3>3. hello' = l - 1 + m
      BY <2>1, <2>4, <3>2
    <3> QED
      BY <2>1, <2>2, <3>2, <3>3
  <2> QED
    BY <2>3, <2>4 DEF HelloInv
<1>3. CASE Answer
  BY <1>3 DEF Answer, kernvars, HelloInv
<1>4. CASE reconnect
  BY <1>4 DEF reconnect, HelloInv
<1>5. CASE Part \/ Rest \/ Plain
  <2>1. pc # "idle" /\ UNCHANGED <<taken, round, hello, answered>>
    BY <1>5 DEF Part, Rest, Plain, buffvars
  <2>2. taken # 0
    BY <1>1, <2>1 DEF StartInv, HelloInv
  <2> QED
    BY <2>1, <2>2 DEF HelloInv
<1>6. CASE Resume \/ on_connect \/ Return \/ PartsEnd \/ Expire \/ UNCHANGED vars
  <2>1. UNCHANGED <<taken, round, hello, answered, wire>>
    BY <1>6 DEF Resume, on_connect, Return, PartsEnd, Expire, buffvars, kernvars, vars
  <2> QED
    BY <2>1 DEF HelloInv
<1> QED
  BY <1>2, <1>3, <1>4, <1>5, <1>6 DEF Next, Call

LEMMA ConnectStep ==
  ASSUME ConnectInv, [Next]_vars
  PROVE  ConnectInv'
<1>1. CASE reconnect
  BY <1>1 DEF reconnect, ConnectInv
<1>2. CASE UNCHANGED vars
  BY <1>2 DEF vars, buffvars, kernvars, ConnectInv
<1>3. CASE Resume \/ on_connect \/ \E l \in Lengths, h \in Hosts, m \in Missing : Recv(l, h, m)
  <2>1. pc' # "connect"
    BY <1>3 DEF Resume, on_connect, Recv, Enter
  <2> QED
    BY <2>1 DEF ConnectInv
<1>4. CASE Part \/ PartsEnd \/ Rest \/ Plain \/ Return \/ Answer \/ Expire
  <2>1. pc' # "connect"
    BY <1>4 DEF Part, SendPart, Sent, Leave, PartsEnd, Rest, Plain, Return, Answer, Expire
  <2> QED
    BY <2>1 DEF ConnectInv
<1> QED
  BY <1>1, <1>2, <1>3, <1>4 DEF Next, Call

LEMMA PlainStep ==
  ASSUME PlainInv, [Next]_vars
  PROVE  PlainInv'
<1>1. CASE UNCHANGED vars
  BY <1>1 DEF vars, callvars, PlainInv
<1>2. CASE Resume \/ on_connect \/ \E l \in Lengths, h \in Hosts, m \in Missing : Recv(l, h, m)
  <2>1. lp' = offset'
    BY <1>2 DEF Resume, on_connect, Recv, Enter
  <2> QED
    BY <2>1 DEF PlainInv
<1>3. CASE Part \/ PartsEnd \/ Rest \/ Plain \/ Return \/ Answer \/ Expire \/ reconnect
  <2>1. pc' # "plain"
    BY <1>3 DEF Part, SendPart, Sent, Leave, PartsEnd, Rest, Plain, Return, Answer, Expire,
                reconnect
  <2> QED
    BY <2>1 DEF PlainInv
<1> QED
  BY <1>1, <1>2, <1>3 DEF Next, Call

\* desync starts with the data as the client sent it, or as tamp has rewritten it.
LEMMA EnterData ==
  ASSUME Types, NEW r, NEW rs, NEW ps, NEW off, NEW isnew, host' \in Nat,
         NEW a \in Nat, NEW c \in Nat, a < c, NEW h \in Nat, c - a <= BufSize,
         a = 0 /\ h > 0 => h >= c - 1,
         Enter(r, rs, ps, Stream(a, c, h), off, isnew)
  PROVE  Data(buf', a, c, h)
<1>1. tlsrec \in Seq(Piece)
  BY DEF Types, ConfTypes
<1>2. Data(Stream(a, c, h), a, c, h) /\ Data(tamp(Stream(a, c, h), host'), a, c, h)
  BY <1>1, TampData
<1>3. buf' = tamp(Stream(a, c, h), host') \/ buf' = Stream(a, c, h)
  BY DEF Enter
<1> QED
  BY <1>2, <1>3

LEMMA RecvData ==
  ASSUME Types, StartInv, HelloInv,
         NEW l \in Lengths, NEW h \in Hosts, NEW m \in Missing, Recv(l, h, m)
  PROVE  Data(buf', base', taken', hello')
<1>1. round \in Nat /\ taken \in Nat /\ hello \in Nat
  BY DEF Types, DataTypes
<1>2. l \in Nat /\ l > 0 /\ l <= BufSize /\ m \in Nat /\ h \in Nat
  BY DesyncAssumption
<1>3. /\ taken' = taken + l /\ base' = taken /\ host' = h
      /\ hello' \in (IF taken = 0 /\ tlsrec # <<>> THEN {0, l - 1 + m} ELSE {hello})
      /\ Enter(round', round_sent, part_sent, Stream(taken, taken', hello'), 0, TRUE)
  BY DEF Recv
<1>4. taken' \in Nat /\ taken < taken' /\ taken' - taken <= BufSize
  BY <1>1, <1>2, <1>3, DesyncAssumption
<1>5. taken = 0 => hello = 0
  BY <1>1 DEF StartInv, HelloInv
<1>6. hello' \in Nat /\ (taken = 0 /\ hello' > 0 => hello' >= taken' - 1)
  <2>1. l - 1 + m \in Nat /\ l - 1 + m >= l - 1
    BY <1>2
  <2>2. hello' = hello \/ hello' = 0 \/ (taken = 0 /\ hello' = l - 1 + m)
    BY <1>3
  <2> QED
    BY <1>1, <1>2, <1>3, <1>5, <2>1, <2>2
<1>7. host' \in Nat
  BY <1>2, <1>3
<1>8. Data(buf', taken, taken', hello')
  BY <1>1, <1>3, <1>4, <1>6, <1>7, EnterData
<1> QED
  BY <1>3, <1>8

LEMMA ConnectData ==
  ASSUME Types, HelloInv, ConnectInv, on_connect
  PROVE  Data(buf', base', taken', hello') /\ offset = 0 /\ offset' = 0
<1>1. /\ pc = "connect" /\ UNCHANGED <<taken, base, host, hello, offset>>
      /\ Enter(round, round_sent, part_sent, buf, offset, FALSE)
  BY DEF on_connect
<1>2. /\ base = 0 /\ buf = Stream(0, taken, hello) /\ round = 1 /\ ~answered
  BY <1>1 DEF ConnectInv
<1>3. /\ taken \in Nat /\ hello \in Nat /\ host \in Nat /\ Len(buf) <= BufSize
      /\ offset = 0
  BY <1>1 DEF Types, DataTypes, BufTypes, CallTypes
<1>4. taken > 0 /\ (hello > 0 => hello >= taken - 1)
  BY <1>2 DEF HelloInv
<1>5. taken - 0 <= BufSize
  <2>1. 0 \in Nat /\ 0 <= taken
    BY <1>3
  <2>2. Len(Stream(0, taken, hello)) = taken - 0
    BY <1>3, <2>1, StreamTyped
  <2> QED
    BY <1>2, <1>3, <2>2
<1>6. 0 < taken
  BY <1>3, <1>4
<1>7. Enter(round, round_sent, part_sent, Stream(0, taken, hello), offset, FALSE)
  BY <1>1, <1>2
<1>8. host' \in Nat
  BY <1>1, <1>3
<1>9. Data(buf', 0, taken, hello)
  BY ONLY Types, <1>3, <1>4, <1>5, <1>6, <1>7, <1>8, EnterData
<1> QED
  BY <1>1, <1>2, <1>3, <1>9

LEMMA BufStep ==
  ASSUME Types, StartInv, HelloInv, ConnectInv, BufInv, [Next]_vars
  PROVE  BufInv'
<1>1. CASE \E l \in Lengths, h \in Hosts, m \in Missing : Recv(l, h, m)
  BY <1>1, RecvData DEF BufInv
<1>2. CASE on_connect
  BY <1>2, ConnectData DEF BufInv
<1>3. CASE Resume
  <2>1. /\ pc = "pending" /\ UNCHANGED <<base, taken, hello>>
        /\ "again" \in upset' \/ (buf' = buf /\ upset' = upset)
    BY <1>3, ResumeFacts
  <2> QED
    BY <2>1 DEF BufInv, Busy, Data
<1>4. CASE Return
  <2>1. /\ pc = "return" /\ UNCHANGED <<base, taken, hello>>
        /\ (pc' = "pending" /\ buf' = buf /\ upset' = upset) \/ pc' = "idle"
    BY <1>4 DEF Return
  <2> QED
    BY <2>1 DEF BufInv, Busy, Data
<1>5. CASE Answer
  <2>1. /\ pc' = pc /\ UNCHANGED <<base, taken, hello, buf>> /\ upset \subseteq upset'
    BY <1>5 DEF Answer
  <2> QED
    BY <2>1 DEF BufInv, Busy, Data
<1>6. CASE Expire
  BY <1>6 DEF Expire, BufInv, Busy
<1>7. CASE reconnect
  <2>1. /\ round = 1 /\ ~answered /\ taken < BufSize
        /\ base' = 0 /\ buf' = Stream(0, taken, hello) /\ UNCHANGED <<taken, hello>>
    BY <1>7 DEF reconnect
  <2>2. taken \in Nat /\ hello \in Nat /\ 0 \in Nat /\ tlsrec \in Seq(Piece)
    BY DEF Types, DataTypes, ConfTypes
  <2>3. 0 < taken /\ taken - 0 <= BufSize /\ (hello > 0 => hello >= taken - 1)
    BY <2>1, <2>2, DesyncAssumption DEF HelloInv
  <2>4. Data(Stream(0, taken, hello), 0, taken, hello)
    BY ONLY <2>2, <2>3, TampData
  <2> QED
    BY <2>1, <2>4 DEF BufInv
<1>8. CASE Part \/ PartsEnd \/ Rest \/ Plain
  <2>1. pc \in InCall /\ UNCHANGED <<base, taken, hello, buf, upset>>
    BY <1>8 DEF Part, PartsEnd, Rest, Plain, buffvars, InCall
  <2> QED
    BY <2>1 DEF BufInv, Busy, InCall, Data
<1>9. CASE UNCHANGED vars
  BY <1>9 DEF vars, buffvars, BufInv, Busy, Data
<1> QED
  BY <1>1, <1>2, <1>3, <1>4, <1>5, <1>6, <1>7, <1>8, <1>9 DEF Next, Call

-----------------------------------------------------------------------------
(* The stream                                                              *)

\* Position x is at part i or behind it.
AtPart(i, x) == Place(parts[i]) <= x \/ x = Len(buf)

(***************************************************************************)
(* The part desync comes back to is the one up to which the data has been  *)
(* sent, so that it does not have to be sent again.                        *)
(***************************************************************************)
AgainInv ==
  upset = {} /\ ~slow =>
    /\ pc \in {"return", "pending"} /\ part_sent > 0 => AtPart(part_sent, Pos)
    /\ pc = "part" /\ curr < part_skip => AtPart(part_skip, lp)

(***************************************************************************)
(* What the server has is the requests before and the buffer as far as the *)
(* call knows it to be sent, without a gap, a repetition or an end of a    *)
(* record out of its place.                                                *)
(***************************************************************************)
Before(w) ==
  /\ w \in Seq(Item) /\ Carries(w, first, base)
  /\ base = 0 => w = <<>>
  /\ base > 0 /\ hello > 0 => Whole(w, hello)

AllOut ==
  /\ Carries(wire, first, taken)
  /\ taken > 0 /\ hello > 0 => Whole(wire, hello)

StreamInv ==
  upset = {} /\ ~slow =>
    IF Busy THEN \E w : Before(w) /\ wire = w \o SubSeq(buf, 1, Pos) ELSE AllOut

\* A step that only sends.
OnlySends ==
  UNCHANGED <<parts, tlsrec, wait_send, slow, taken, round, base, buf, host, hello, answered,
              upset, offset, round_sent, part_skip>>

LEMMA SendKeeps ==
  ASSUME Part \/ PartsEnd \/ Rest \/ Plain
  PROVE  OnlySends
BY DEF Part, PartsEnd, Rest, Plain, OnlySends, confvars, buffvars, callvars

\* Where a part leaves the call when sends are never refused.
LEMMA PartOnward ==
  ASSUME Types, Part, ~slow, AgainInv, upset = {}
  PROVE  /\ Pos = lp /\ pc' \in {"part", "rest", "return"}
         /\ \/ Pos' = lp /\ wire' = wire
            \/ \E p \in Nat : lp <= p /\ p <= Len(buf) /\ Pos' = p /\ Grown(p)
         /\ pc' = "return" => AtPart(part_sent, Pos)'
         /\ pc' = "part" => curr' >= part_skip \/ (curr < part_skip /\ lp <= lp')
<1>1. pc = "part" /\ curr + 1 \in 1..Len(parts) /\ UNCHANGED PartKeeps
  BY PartFacts
<1>2. PICK c \in Piece, place \in Int :
        /\ c = parts[curr + 1] /\ place = Place(c)
        /\ Passes(place) \/ Stops(place) \/ \E p \in Nat : Sends(c, place, p)
  BY PartFacts
<1>3. /\ lp \in Nat /\ offset \in Nat /\ curr \in Nat /\ part_skip \in Nat
      /\ Len(buf) \in Nat /\ lp <= Len(buf)
  BY <1>1, LengthFacts DEF Types, CallTypes, BufTypes, InCall
<1>4. Pos = lp
  BY <1>1 DEF Pos
<1>5. UNCHANGED <<buf, host, parts, offset, part_skip>>
  BY <1>1 DEF PartKeeps, confvars, buffvars
<1>6. CASE Passes(place)
  <2>1. pc' = "part" /\ lp' = lp /\ wire' = wire /\ curr' = curr + 1
    BY <1>1, <1>6 DEF Passes
  <2>2. Pos' = lp
    BY <2>1 DEF Pos
  <2>3. (curr' >= part_skip \/ curr < part_skip) /\ lp <= lp'
    BY <1>3, <2>1
  <2> QED
    BY <1>4, <2>1, <2>2, <2>3
<1>7. CASE Stops(place)
  <2>1. pc' = "rest" /\ lp' = lp /\ wire' = wire
    BY <1>7 DEF Stops
  <2>2. Pos' = lp
    BY <2>1 DEF Pos
  <2> QED
    BY <1>4, <2>1, <2>2
<1>8. ASSUME NEW p \in Nat, Sends(c, place, p)
      PROVE  /\ Pos = lp /\ pc' \in {"part", "rest", "return"}
             /\ \/ Pos' = lp /\ wire' = wire
                \/ lp <= p /\ p <= Len(buf) /\ Pos' = p /\ Grown(p)
             /\ pc' = "return" => AtPart(part_sent, Pos)'
             /\ pc' = "part" => curr' >= part_skip \/ (curr < part_skip /\ lp <= lp')
  <2>1. /\ ~Passed(curr + 1, place) /\ curr' = curr + 1 /\ part_sent' = curr + 1
        /\ lp <= p /\ p <= Len(buf) /\ p <= place /\ (p = place \/ p = Len(buf))
    BY <1>8 DEF Sends
  <2>2. curr + 1 >= part_skip \/ curr < part_skip
    BY <1>3
  <2>3. /\ \/ pc' = "return" /\ ret' = p - offset
           \/ pc' = "part" /\ lp' = p
        /\ Again(p) \/ Grown(p)
    BY <1>1, <1>8 DEF Sends, Again, Anew, Accepted, Refused, Waits, GoesOn
  <2>4. Pos' = p
    <3>1. offset + (p - offset) = p
      BY <1>3
    <3> QED
      BY <1>5, <2>3, <3>1 DEF Pos
  <2>5. Place(parts[part_sent])' = place
    BY <1>2, <1>5, <2>1 DEF Place, n
  <2>6. AtPart(part_sent, Pos)'
    <3>1. place <= p \/ p = Len(buf')
      BY <1>5, <2>1
    <3> QED
      BY <2>4, <2>5, <3>1 DEF AtPart
  <2>7. ASSUME Again(p) PROVE p = lp /\ wire' = wire
    <3>1. curr + 1 = part_skip /\ wire' = wire
      BY <2>7 DEF Again
    <3>2. AtPart(part_skip, lp)
      BY <1>1, <1>3, <3>1 DEF AgainInv
    <3>3. place <= lp \/ lp = Len(buf)
      BY <1>2, <3>1, <3>2 DEF AtPart
    <3> QED
      BY <1>3, <2>1, <3>1, <3>3
  <2> QED
    BY <1>4, <2>1, <2>2, <2>3, <2>4, <2>6, <2>7
<1> QED
  BY <1>2, <1>6, <1>7, <1>8

\* The rest goes to the end of the buffer.
LEMMA RestOnward ==
  ASSUME Types, PlainInv, Rest \/ Plain, ~slow
  PROVE  pc' = "return" /\ Pos' = Len(buf) /\ Pos <= Len(buf) /\ wire' = wire \o Bytes(Pos, Len(buf))
<1>1. /\ lp \in Nat /\ offset \in Nat /\ Len(buf) \in Nat
      /\ pc \in InCall => offset <= lp /\ lp <= Len(buf)
  BY LengthFacts DEF Types, CallTypes, BufTypes
<1>2. offset' = offset
  BY DEF Rest, Plain
<1>3. offset + (Len(buf) - offset) = Len(buf)
  BY <1>1
<1>4. CASE Rest
  <2>1. pc = "rest" /\ Pos = lp /\ lp <= Len(buf)
    BY <1>1, <1>4 DEF Rest, Pos, InCall
  <2>2. PICK q \in {IF lp < n THEN n - lp ELSE 0} :
          wire' = wire \o Bytes(lp, lp + q) /\ Leave(n, FALSE)
    BY <1>4 DEF Rest, Takes
  <2>3. lp + q = Len(buf)
    BY <1>1, <2>1, <2>2 DEF n
  <2> QED
    BY <1>2, <1>3, <2>1, <2>2, <2>3 DEF Leave, n, Pos
<1>5. CASE Plain
  <2>1. pc = "plain" /\ Pos = offset /\ offset <= Len(buf)
    BY <1>1, <1>5 DEF Plain, Pos, InCall, PlainInv
  <2>2. PICK q \in {n - offset} :
          wire' = wire \o Bytes(offset, offset + q) /\ Leave(offset + q, FALSE)
    BY <1>5 DEF Plain, Takes
  <2>3. offset + q = Len(buf)
    BY <1>1, <2>1, <2>2 DEF n
  <2> QED
    BY <1>2, <1>3, <2>1, <2>2, <2>3 DEF Leave, Pos
<1> QED
  BY <1>4, <1>5

LEMMA AgainStep ==
  ASSUME ~SameRound, Types, StartInv, AnswerInv, ConnectInv, PlainInv, AgainInv, [Next]_vars
  PROVE  AgainInv'
<1>1. CASE reconnect
  BY <1>1 DEF reconnect, AgainInv
<1>2. CASE ~reconnect
  <2> SUFFICES ASSUME upset' = {}, ~slow'
               PROVE  /\ pc' \in {"return", "pending"} /\ part_sent' > 0 => AtPart(part_sent, Pos)'
                      /\ pc' = "part" /\ curr' < part_skip' => AtPart(part_skip, lp)'
    BY DEF AgainInv
  <2>1. upset = {} /\ ~slow
    <3>1. slow' = slow
      BY <1>2 DEF Next, Call, vars, confvars, Recv, Resume, Return, Part, PartsEnd, Rest, Plain,
                  Answer, Expire, on_connect
    <3> QED
      BY <1>2, <3>1, FineBefore
  <2>2. CASE \E l \in Lengths, h \in Hosts, m \in Missing : Recv(l, h, m)
    <3>1. /\ round = 0 \/ answered
          /\ part_skip' = part_sent /\ curr' = 0 /\ pc' \in {"part", "plain"}
      BY <2>2 DEF Recv, Enter, Counters
    <3>2. part_sent = 0
      BY <2>1, <3>1 DEF StartInv, AnswerInv
    <3> QED
      BY <3>1, <3>2
  <2>3. CASE on_connect
    <3>1. pc = "connect" /\ part_skip' = part_sent /\ curr' = 0 /\ pc' \in {"part", "plain"}
      BY <2>3 DEF on_connect, Enter, Counters
    <3>2. part_sent = 0
      BY <3>1 DEF ConnectInv
    <3> QED
      BY <3>1, <3>2
  <2>4. CASE Resume
    <3>1. /\ pc = "pending" /\ pc' \in {"part", "plain"} /\ buf' = buf
          /\ lp' = offset /\ part_skip' = part_sent /\ curr' = 0
          /\ UNCHANGED <<parts, host>>
      BY <2>4, ResumeFacts
    <3>2. Pos = offset
      BY <3>1 DEF Pos
    <3>3. part_sent > 0 => AtPart(part_sent, offset)
      BY <2>1, <3>1, <3>2 DEF AgainInv
    <3>4. AtPart(part_skip, lp)' <=> AtPart(part_sent, offset)
      BY <3>1 DEF AtPart, Place, n
    <3>5. pc' = "part" /\ curr' < part_skip' => part_sent > 0
      BY <3>1
    <3> QED
      BY <3>1, <3>3, <3>4, <3>5
  <2>5. CASE Part
    <3>1. /\ pc' \in {"part", "rest", "return"}
          /\ pc' = "return" => AtPart(part_sent, Pos)'
          /\ pc' = "part" => curr' >= part_skip \/ (curr < part_skip /\ lp <= lp')
      BY <2>1, <2>5, PartOnward
    <3>2. UNCHANGED <<parts, buf, host, part_skip>> /\ pc = "part"
      BY <2>5, SendKeeps DEF OnlySends, Part
    <3>3. curr' \in Nat /\ part_skip \in Nat
      BY <2>5, PartTypes, LengthFacts, <3>2 DEF Types, CallTypes
    <3>4. ASSUME pc' = "part", curr' < part_skip' PROVE AtPart(part_skip, lp)'
      <4>1. curr < part_skip /\ lp <= lp'
        BY <3>1, <3>2, <3>3, <3>4
      <4>2. AtPart(part_skip, lp)
        BY <2>1, <3>2, <4>1 DEF AgainInv
      <4>3. /\ lp \in Nat /\ lp' \in Nat /\ lp' <= Len(buf) /\ Len(buf) \in Nat
            /\ Place(parts[part_skip]) \in Int
        <5>1. Types' /\ buf' = buf
          BY <2>5, <3>2, PartTypes
        <5>2. lp' \in Nat /\ lp' <= Len(buf')
          BY <3>4, <5>1 DEF Types, CallTypes, InCall
        <5>3. part_skip \in 1..Len(parts)
          BY <3>3, <4>1, LengthFacts DEF Types, CallTypes
        <5> QED
          BY <5>1, <5>2, <5>3, LengthFacts, PlaceTyped DEF Types, CallTypes
      <4>4. Place(parts[part_skip])' = Place(parts[part_skip])
        BY <3>2 DEF Place, n
      <4>5. Place(parts[part_skip]) <= lp' \/ lp' = Len(buf)
        BY ONLY <4>1, <4>2, <4>3 DEF AtPart
      <4> QED
        BY <3>2, <4>4, <4>5 DEF AtPart
    <3> QED
      BY <3>1, <3>4
  <2>6. CASE Rest \/ Plain
    <3>1. pc' = "return" /\ Pos' = Len(buf)
      BY <2>1, <2>6, RestOnward
    <3>2. buf' = buf
      BY <2>6, SendKeeps DEF OnlySends
    <3> QED
      BY <3>1, <3>2 DEF AtPart
  <2>7. CASE Return
    <3>1. /\ pc = "return" /\ UNCHANGED <<parts, host, part_sent>>
          /\ (pc' = "pending" /\ buf' = buf /\ offset' = offset + ret) \/ pc' = "idle"
      BY <2>7 DEF Return, Onward, confvars
    <3>2. ASSUME pc' = "pending", part_sent' > 0 PROVE AtPart(part_sent, Pos)'
      <4>1. Pos' = Pos
        BY <3>1, <3>2 DEF Pos
      <4>2. AtPart(part_sent, Pos)
        BY <2>1, <3>1, <3>2 DEF AgainInv
      <4> QED
        BY <3>1, <3>2, <4>1, <4>2 DEF AtPart, Place, n
    <3> QED
      BY <3>1, <3>2
  <2>8. CASE Answer
    BY <2>8 DEF Answer
  <2>9. CASE PartsEnd \/ Expire
    BY <2>9 DEF PartsEnd, Expire
  <2>10. CASE UNCHANGED vars
    <3>1. UNCHANGED <<parts, host, buf, pc, part_sent, part_skip, lp, curr, offset, ret>>
      BY <2>10 DEF vars, confvars, buffvars, callvars
    <3> QED
      BY <2>1, <3>1 DEF AgainInv, AtPart, Place, n, Pos
  <2> QED
    BY <1>2, <2>2, <2>3, <2>4, <2>5, <2>6, <2>7, <2>8, <2>9, <2>10 DEF Next, Call
<1> QED
  BY <1>1, <1>2

\* Sending goes on where it was left off.
LEMMA StreamOnward ==
  ASSUME Types, NEW w \in Seq(Item), NEW p \in Nat, NEW x \in Nat, p <= x, x <= Len(buf),
         wire = w \o SubSeq(buf, 1, p)
  PROVE  wire \o Bytes(p, x) = w \o SubSeq(buf, 1, x)
<1>1. buf \in Seq(Item) /\ Len(buf) \in Nat
  BY LengthFacts DEF Types, BufTypes
<1>2. SubSeq(buf, 1, p) \in Seq(Item)
  <2>1. p <= Len(buf)
    BY <1>1
  <2> QED
    BY <1>1, <2>1, StartItems
<1>3. Bytes(p, x) \in Seq(Item)
  BY BytesTyped
<1>4. (w \o SubSeq(buf, 1, p)) \o Bytes(p, x) = w \o (SubSeq(buf, 1, p) \o Bytes(p, x))
  <2> DEFINE s == SubSeq(buf, 1, p)
             t == Bytes(p, x)
  <2>1. s \in Seq(Item) /\ t \in Seq(Item)
    BY <1>2, <1>3
  <2> HIDE DEF s, t
  <2>2. (w \o s) \o t = w \o (s \o t)
    BY ONLY <2>1, w \in Seq(Item), ConcatAssociative
  <2> QED
    BY ONLY <2>2 DEF s, t
<1>5. SubSeq(buf, 1, p) \o Bytes(p, x) = SubSeq(buf, 1, x)
  <2>1. 1 \in 1..(Len(buf) + 1) /\ p \in (1 - 1)..Len(buf) /\ x \in p..Len(buf)
    BY <1>1
  <2>2. SubSeq(buf, 1, p) \o SubSeq(buf, p + 1, x) = SubSeq(buf, 1, x)
    BY <1>1, <2>1, ConcatAdjacentSubSeq
  <2> QED
    BY <2>2 DEF Bytes
<1> QED
  BY <1>4, <1>5

\* When all of the buffer is sent, so is all the client has sent.
LEMMA StreamEnds ==
  ASSUME Types, Data(buf, base, taken, hello), NEW w, Before(w), wire = w \o buf
  PROVE  AllOut
<1>1. /\ taken \in Nat /\ base \in Nat /\ base <= taken /\ hello \in Nat /\ buf \in Seq(Item)
      /\ w \in Seq(Item) /\ Carries(w, first, base)
  BY DEF Types, DataTypes, BufTypes, Before
<1>2. PICK d \in Nat : d = Lower(base, hello) /\ Carries(buf, d, taken)
  BY <1>1 DEF Data, Lower
<1>3. first \in Nat /\ first <= d /\ base <= d /\ (d = first \/ d = base)
  BY <1>1, <1>2 DEF Lower, first
<1>4. Carries(wire, first, taken)
  BY <1>1, <1>2, <1>3, CarriesBoth
<1>5. ASSUME taken > 0, hello > 0 PROVE Whole(wire, hello)
  <2>1. CASE base = 0
    <3>1. w = <<>> /\ Whole(buf, hello)
      BY <1>5, <2>1 DEF Before, Data
    <3>2. wire = buf
      BY <1>1, <3>1, ConcatEmptySeq
    <3> QED
      BY <3>1, <3>2
  <2>2. CASE base > 0
    <3>1. Whole(w, hello) /\ Heads(buf) = {}
      BY <1>5, <2>2 DEF Before, Data
    <3> QED
      BY <1>1, <3>1, WholeMore
  <2> QED
    BY <1>1, <2>1, <2>2
<1> QED
  BY <1>4, <1>5 DEF AllOut

LEMMA EmptyCarries ==
  ASSUME NEW a \in Nat
  PROVE  Carries(<<>>, a, 0) /\ <<>> \in Seq(Item)
<1>1. (a + 1)..0 = {} /\ DOMAIN <<>> = {}
  OBVIOUS
<1>2. <<>> \in Seq(Item)
  BY EmptySeq
<1> QED
  BY <1>1, <1>2 DEF Carries, InTurn

LEMMA NothingSent ==
  ASSUME NEW w \in Seq(Item), NEW b
  PROVE  w \o SubSeq(b, 1, 0) = w
<1>1. SubSeq(b, 1, 0) = <<>>
  BY SubSeqEmpty
<1> QED
  BY <1>1, ConcatEmptySeq

LEMMA StreamStep ==
  ASSUME ~SameRound, Types, StartInv, HelloInv, ConnectInv, PlainInv, BufInv, AgainInv, StreamInv,
         [Next]_vars
  PROVE  StreamInv'
<1>1. /\ taken \in Nat /\ base \in Nat /\ hello \in Nat /\ buf \in Seq(Item) /\ wire \in Seq(Item)
      /\ Len(buf) \in Nat
  BY LengthFacts DEF Types, DataTypes, BufTypes, WireTypes
<1>2. \A a \in Nat : Carries(<<>>, a, 0) /\ <<>> \in Seq(Item)
  BY EmptyCarries
<1>3. first \in Nat
  BY DEF first
<1>4. CASE reconnect
  <2>1. base' = 0 /\ wire' = <<>> /\ offset' = 0 /\ pc' = "connect" /\ hello' = hello
    BY <1>4 DEF reconnect
  <2>2. Before(<<>>)'
    BY <1>2, <1>3, <2>1 DEF Before, first
  <2>3. wire' = <<>> \o SubSeq(buf', 1, 0) /\ Pos' = 0
    BY <1>2, <2>1, NothingSent DEF Pos
  <2> QED
    BY <2>1, <2>2, <2>3 DEF StreamInv, Busy
<1>5. CASE ~reconnect
  <2> SUFFICES ASSUME upset' = {}, ~slow'
               PROVE  IF Busy' THEN \E w : Before(w)' /\ wire' = w \o SubSeq(buf', 1, Pos')
                      ELSE AllOut'
    BY DEF StreamInv
  <2>1. upset = {} /\ ~slow
    <3>1. slow' = slow
      BY <1>5 DEF Next, Call, vars, confvars, Recv, Resume, Return, Part, PartsEnd, Rest, Plain,
                  Answer, Expire, on_connect
    <3> QED
      BY <1>5, <3>1, FineBefore
  <2>2. IF Busy THEN \E w : Before(w) /\ wire = w \o SubSeq(buf, 1, Pos) ELSE AllOut
    BY <2>1 DEF StreamInv
  <2>3. CASE \E l \in Lengths, h \in Hosts, m \in Missing : Recv(l, h, m)
    <3>1. /\ pc = "idle" /\ base' = taken /\ wire' = wire
          /\ taken # 0 => hello' = hello
          /\ pc' \in {"part", "plain"} /\ lp' = 0
      BY <2>3 DEF Recv, Enter, kernvars
    <3>2. AllOut
      BY <2>2, <3>1 DEF Busy
    <3>3. wire' = wire \o SubSeq(buf', 1, 0) /\ Pos' = 0
      BY <1>1, <3>1, NothingSent DEF Pos
    <3>4. CASE taken = 0
      <4>1. wire = <<>>
        BY <3>4 DEF HelloInv
      <4>2. first' \in Nat
        BY DEF first
      <4>3. Carries(wire, first', 0)
        BY <1>2, <4>1, <4>2
      <4>4. Before(wire)'
        BY <1>1, <3>1, <3>4, <4>1, <4>3 DEF Before
      <4> QED
        BY <3>1, <3>3, <4>4 DEF Busy
    <3>5. CASE taken # 0
      <4>1. first' = first /\ hello' = hello /\ taken > 0
        BY <1>1, <3>1, <3>5 DEF first
      <4>2. Before(wire)'
        BY <1>1, <3>1, <3>2, <3>5, <4>1 DEF Before, AllOut
      <4> QED
        BY <3>1, <3>3, <4>2 DEF Busy
    <3> QED
      BY <3>4, <3>5
  <2>4. CASE on_connect
    <3>1. /\ pc = "connect" /\ UNCHANGED <<base, hello, wire>> /\ pc' \in {"part", "plain"}
          /\ lp' = offset
      BY <2>4 DEF on_connect, Enter, kernvars
    <3>2. base = 0 /\ wire = <<>> /\ offset = 0
      BY <3>1 DEF ConnectInv, Types, CallTypes
    <3>3. Before(<<>>)'
      BY <1>2, <1>3, <3>1, <3>2 DEF Before, first
    <3>4. wire' = <<>> \o SubSeq(buf', 1, 0) /\ Pos' = 0
      BY <1>2, <3>1, <3>2, NothingSent DEF Pos
    <3> QED
      BY <3>1, <3>3, <3>4 DEF Busy
  <2>5. ASSUME Busy, Busy', UNCHANGED <<base, hello, buf>>,
               NEW x \in Nat, Pos' = x, Pos <= x, x <= Len(buf),
               wire' = wire \o Bytes(Pos, x)
        PROVE  \E w : Before(w)' /\ wire' = w \o SubSeq(buf', 1, Pos')
    <3>1. PICK w : Before(w) /\ wire = w \o SubSeq(buf, 1, Pos)
      BY <2>2, <2>5
    <3>2. Before(w)'
      BY <2>5, <3>1 DEF Before, first
    <3>3. w \in Seq(Item) /\ Pos \in Nat
      BY <3>1, PosTyped DEF Before
    <3>4. wire' = w \o SubSeq(buf, 1, x)
      BY <2>5, <3>1, <3>3, StreamOnward
    <3> QED
      BY <2>5, <3>2, <3>4
  <2>6. ASSUME Busy, Busy', UNCHANGED <<base, hello, buf, wire>>, Pos' = Pos
        PROVE  \E w : Before(w)' /\ wire' = w \o SubSeq(buf', 1, Pos')
    <3>1. PICK w : Before(w) /\ wire = w \o SubSeq(buf, 1, Pos)
      BY <2>2, <2>6
    <3>2. Before(w)'
      BY <2>6, <3>1 DEF Before, first
    <3> QED
      BY <2>6, <3>1, <3>2
  <2>7. CASE Resume
    <3>1. /\ pc = "pending" /\ pc' \in {"part", "plain"} /\ buf' = buf /\ lp' = offset
          /\ UNCHANGED <<base, hello, wire>>
      BY <2>7, ResumeFacts
    <3>2. Busy /\ Busy' /\ Pos' = Pos
      BY <3>1 DEF Busy, Pos
    <3> QED
      BY <2>6, <3>1, <3>2
  <2>8. CASE Part
    <3>1. /\ Pos = lp /\ pc' \in {"part", "rest", "return"}
          /\ \/ Pos' = lp /\ wire' = wire
             \/ \E p \in Nat : lp <= p /\ p <= Len(buf) /\ Pos' = p /\ Grown(p)
      BY <2>1, <2>8, PartOnward
    <3>2. UNCHANGED <<base, hello, buf>> /\ Busy /\ Busy'
      BY <2>8, <3>1, SendKeeps DEF OnlySends, Part, Busy
    <3> QED
      BY <2>5, <2>6, <3>1, <3>2 DEF Grown
  <2>9. CASE PartsEnd
    <3>1. pc = "part" /\ pc' = "rest" /\ UNCHANGED <<base, hello, buf, wire, lp>>
      BY <2>9 DEF PartsEnd, buffvars, kernvars, callvars
    <3>2. Busy /\ Busy' /\ Pos' = Pos
      BY <3>1 DEF Busy, Pos
    <3> QED
      BY <2>6, <3>1, <3>2
  <2>10. CASE Rest \/ Plain
    <3>1. /\ pc' = "return" /\ Pos' = Len(buf) /\ Pos <= Len(buf)
          /\ wire' = wire \o Bytes(Pos, Len(buf))
      BY <2>1, <2>10, RestOnward
    <3>2. UNCHANGED <<base, hello, buf>> /\ Busy /\ Busy'
      BY <2>10, <3>1, SendKeeps DEF OnlySends, Rest, Plain, Busy
    <3>3. PICK x \in Nat : x = Len(buf)
      BY <1>1
    <3>4. Pos' = x /\ Pos <= x /\ x <= Len(buf) /\ wire' = wire \o Bytes(Pos, x)
      BY <3>1, <3>3
    <3> QED
      BY <2>5, <3>2, <3>4
  <2>11. CASE Return
    <3>1. pc = "return" /\ UNCHANGED <<base, hello, taken, wire>>
      BY <2>11 DEF Return, kernvars
    <3>2. CASE pc' = "pending"
      <4>1. buf' = buf /\ offset' = offset + ret
        BY <2>11, <3>2 DEF Return, Onward
      <4>2. Busy /\ Busy' /\ Pos' = Pos
        BY <3>1, <3>2, <4>1 DEF Busy, Pos
      <4> QED
        BY <2>6, <3>1, <4>1, <4>2
    <3>3. CASE pc' = "idle"
      <4>1. ~(ret < n - offset)
        BY <2>11, <3>3 DEF Return
      <4>2. /\ ret \in Nat /\ offset \in Nat /\ ret <= Len(buf) - offset
        BY <3>1 DEF Types, CallTypes, BufTypes
      <4>3. Busy /\ Pos = Len(buf)
        BY <1>1, <3>1, <4>1, <4>2 DEF Busy, Pos, n
      <4>4. PICK w : Before(w) /\ wire = w \o SubSeq(buf, 1, Pos)
        BY <2>2, <4>3
      <4>5. SubSeq(buf, 1, Len(buf)) = buf
        BY <1>1, SubSeqFull
      <4>6. wire = w \o buf
        BY <4>3, <4>4, <4>5
      <4>7. Data(buf, base, taken, hello)
        BY <2>1, <4>3 DEF BufInv
      <4>8. AllOut
        BY <4>4, <4>6, <4>7, StreamEnds
      <4> QED
        BY <3>1, <3>3, <4>8 DEF AllOut, first, Busy
    <3> QED
      BY <2>11, <3>2, <3>3 DEF Return
  <2>12. CASE Answer \/ Expire
    <3>1. pc = "idle" /\ pc' \in {"idle", "closed"} /\ UNCHANGED <<taken, hello, wire>>
      BY <2>12 DEF Answer, Expire, buffvars, kernvars
    <3> QED
      BY <2>2, <3>1 DEF Busy, AllOut, first
  <2>13. CASE UNCHANGED vars
    <3>1. UNCHANGED <<pc, offset, ret, lp, base, taken, hello, buf, wire>>
      BY <2>13 DEF vars, buffvars, kernvars, callvars
    <3>2. (Busy' <=> Busy) /\ Pos' = Pos /\ (AllOut' <=> AllOut)
      BY <3>1 DEF Busy, Pos, AllOut, first
    <3> QED
      BY <2>2, <2>6, <3>1, <3>2
  <2> QED
    BY <1>5, <2>3, <2>4, <2>7, <2>8, <2>9, <2>10, <2>11, <2>12, <2>13 DEF Next, Call
<1> QED
  BY <1>4, <1>5

\* The last items of a sequence.
LEMMA EndItems ==
  ASSUME NEW w \in Seq(Item), NEW s \in Seq(Item)
  PROVE  SubSeq(w \o s, Len(w \o s) - Len(s) + 1, Len(w \o s)) = s
<1>1. /\ w \o s \in Seq(Item) /\ Len(w) \in Nat /\ Len(s) \in Nat
      /\ DOMAIN (w \o s) = 1..(Len(w) + Len(s))
      /\ \A i \in 1..Len(s) : (w \o s)[Len(w) + i] = s[i]
  BY ConcatItems
<1>2. Len(w \o s) = Len(w) + Len(s)
  BY ConcatProperties
<1>3. PICK p \in Nat, r \in Nat : p = Len(w) + 1 /\ r = Len(w) + Len(s)
  BY <1>1
<1>4. p >= 1 /\ p <= r + 1 /\ r <= Len(w \o s) /\ r + 1 - p = Len(s)
  BY <1>1, <1>2, <1>3
<1> DEFINE u == SubSeq(w \o s, p, r)
<1>5. u \in Seq(Item) /\ Len(u) = Len(s) /\ \A i \in 1..Len(s) : u[i] = (w \o s)[p + i - 1]
  BY <1>1, <1>4, MiddleItems
<1>6. \A i \in 1..Len(s) : p + i - 1 = Len(w) + i
  BY <1>1, <1>3
<1>7. \A i \in 1..Len(s) : u[i] = s[i]
  BY ONLY <1>1, <1>5, <1>6
<1>8. u = s
  <2> HIDE DEF u
  <2> QED
    BY <1>5, <1>7, SeqEqual
<1>9. Len(w \o s) - Len(s) + 1 = p /\ Len(w \o s) = r
  BY <1>1, <1>2, <1>3
<1> QED
  BY <1>8, <1>9

\* The invariants this rests on.
StreamBasis ==
  Types /\ StartInv /\ AnswerInv /\ HelloInv /\ ConnectInv /\ PlainInv /\ BufInv

LEMMA BasisInit ==
  ASSUME Init
  PROVE  StreamBasis
<1>1. Types
  BY InitTypes
<1>2. /\ pc = "idle" /\ round_sent = 0 /\ part_sent = 0 /\ answered = FALSE
      /\ taken = 0 /\ hello = 0 /\ round = 0 /\ wire = <<>>
  BY DEF Init
<1> QED
  BY <1>1, <1>2 DEF StreamBasis, StartInv, AnswerInv, HelloInv, ConnectInv, PlainInv, BufInv, Busy

LEMMA BasisStep ==
  ASSUME ~SameRound, StreamBasis, [Next]_vars
  PROVE  StreamBasis'
BY StepTypes, StartStep, AnswerStep, HelloStep, ConnectStep, PlainStep, BufStep DEF StreamBasis

LEMMA StreamSafe ==
  ASSUME ~SameRound
  PROVE  Spec => [](StreamBasis /\ AgainInv /\ StreamInv)
<1> DEFINE Inv == StreamBasis /\ AgainInv /\ StreamInv
<1>1. Init => Inv
  <2> SUFFICES ASSUME Init PROVE Inv
    OBVIOUS
  <2>1. StreamBasis
    BY BasisInit
  <2>2. pc = "idle" /\ taken = 0 /\ hello = 0 /\ wire = <<>>
    BY DEF Init
  <2>3. first = 0 /\ Carries(<<>>, 0, 0)
    BY <2>2, EmptyCarries DEF first
  <2>4. AgainInv /\ StreamInv
    BY <2>2, <2>3 DEF AgainInv, StreamInv, Busy, AllOut
  <2> QED
    BY <2>1, <2>4
<1>2. Inv /\ [Next]_vars => Inv'
  <2> SUFFICES ASSUME Inv, [Next]_vars PROVE Inv'
    OBVIOUS
  <2>1. StreamBasis'
    BY BasisStep
  <2>2. AgainInv' /\ StreamInv'
    BY AgainStep, StreamStep DEF StreamBasis
  <2> QED
    BY <2>1, <2>2
<1> QED
  BY <1>1, <1>2, PTL DEF Spec

\* When the client waits for an answer before it sends its next request and send takes
\* all it is given, the server gets each byte of the client once and in its order,
\* however the data is cut into parts and records and however often desync waits and
\* comes back, and buff.offset says how much of the buffer it has.  What upset names is
\* left out: early answers, tamp run twice, and its bytes not waited for.
THEOREM StreamGoesIntact ==
  ASSUME ~SameRound
  PROVE  Spec => []StreamIntact
<1>1. StreamBasis /\ AgainInv /\ StreamInv => StreamIntact
  <2> SUFFICES ASSUME StreamBasis, StreamInv, upset = {}, ~slow
               PROVE  /\ \E b \in 0..taken : Carries(wire, first, b)
                      /\ pc = "idle" => Carries(wire, first, taken)
                      /\ pc = "pending" =>
                           SubSeq(wire, Len(wire) - offset + 1, Len(wire)) = SubSeq(buf, 1, offset)
    BY DEF StreamIntact
  <2>1. Types
    BY DEF StreamBasis
  <2>2. /\ taken \in Nat /\ base \in Nat /\ base <= taken /\ hello \in Nat /\ round \in Nat
        /\ buf \in Seq(Item) /\ Len(buf) \in Nat
    BY <2>1, LengthFacts DEF Types, DataTypes, BufTypes
  <2>3. IF Busy THEN \E w : Before(w) /\ wire = w \o SubSeq(buf, 1, Pos) ELSE AllOut
    BY DEF StreamInv
  <2>4. CASE ~Busy
    <3>1. Carries(wire, first, taken) /\ pc # "pending"
      BY <2>3, <2>4 DEF AllOut, Busy
    <3>2. taken \in 0..taken
      BY <2>2
    <3> QED
      BY <3>1, <3>2
  <2>5. CASE Busy
    <3>1. PICK w : Before(w) /\ wire = w \o SubSeq(buf, 1, Pos)
      BY <2>3, <2>5
    <3>2. w \in Seq(Item) /\ Carries(w, first, base) /\ Pos \in Nat /\ Pos <= Len(buf)
      BY <2>1, <2>5, <3>1, PosTyped DEF Before
    <3>3. SubSeq(buf, 1, Pos) \in Seq(Item) /\ Len(SubSeq(buf, 1, Pos)) = Pos
      BY <2>2, <3>2, StartItems
    <3>4. PICK d \in Nat : d = Lower(base, hello) /\ Carries(buf, d, taken)
      BY <2>2, <2>5 DEF Data, Lower, StreamBasis, BufInv
    <3>5. round > 0 /\ taken > 0
      BY <2>2, <2>5 DEF StreamBasis, StartInv, HelloInv, Busy
    <3>6. /\ first \in Nat /\ first <= d /\ base <= d /\ (d = first \/ d = base) /\ d <= taken
      BY <2>2, <3>4, <3>5 DEF Lower, first
    <3>7. PICK c \in d..taken : Carries(SubSeq(buf, 1, Pos), d, c)
      BY <2>2, <3>2, <3>4, <3>6, CarriesStart
    <3>8. c \in Nat /\ base <= c /\ c \in 0..taken
      BY <2>2, <3>6
    <3>9. Carries(wire, first, c)
      <4> DEFINE s == SubSeq(buf, 1, Pos)
      <4>1. s \in Seq(Item) /\ Carries(s, d, c) /\ wire = w \o s
        BY <3>1, <3>3, <3>7
      <4> HIDE DEF s
      <4>2. Carries(w \o s, first, c)
        BY ONLY <2>2, <3>2, <3>6, <3>8, <4>1, d \in Nat, CarriesBoth
      <4> QED
        BY <4>1, <4>2
    <3>10. ASSUME pc = "pending"
           PROVE  SubSeq(wire, Len(wire) - offset + 1, Len(wire)) = SubSeq(buf, 1, offset)
      <4>1. Pos = offset
        BY <3>10 DEF Pos
      <4> DEFINE s == SubSeq(buf, 1, offset)
      <4>2. s \in Seq(Item) /\ Len(s) = offset /\ wire = w \o s
        BY <3>1, <3>3, <4>1
      <4> HIDE DEF s
      <4>3. SubSeq(w \o s, Len(w \o s) - Len(s) + 1, Len(w \o s)) = s
        BY ONLY <3>2, <4>2, EndItems
      <4>4. SubSeq(wire, Len(wire) - offset + 1, Len(wire)) = s
        BY ONLY <4>2, <4>3
      <4> QED
        BY <4>4 DEF s
    <3> QED
      BY <2>5, <3>8, <3>9, <3>10 DEF Busy
  <2> QED
    BY <2>4, <2>5
<1> QED
  BY <1>1, StreamSafe, PTL

\* Under the same conditions the records tamp makes of a hello follow one another without
\* a gap and are together as long as the client's, for all positions to cut at.
THEOREM RecordsStayWhole ==
  ASSUME ~SameRound
  PROVE  Spec => []RecordsWhole
<1>1. StreamBasis /\ AgainInv /\ StreamInv => RecordsWhole
  <2> SUFFICES ASSUME StreamBasis, StreamInv, upset = {}, ~slow, pc = "idle", hello > 0
               PROVE  Whole(wire, hello)
    BY DEF RecordsWhole
  <2>1. AllOut
    BY DEF StreamInv, Busy
  <2>2. taken > 0
    <3>1. round \in Nat /\ round # 0
      BY DEF StreamBasis, StartInv, Types, DataTypes
    <3> QED
      BY <3>1 DEF StreamBasis, HelloInv
  <2> QED
    BY <2>1, <2>2 DEF AllOut
<1> QED
  BY <1>1, StreamSafe, PTL

-----------------------------------------------------------------------------
(* Order                                                                   *)

\* The bytes of w come before those of b behind position x, and among the first k of
\* the client.
Ahead(w, b, x) ==
  \A i \in DOMAIN w, j \in DOMAIN b :
    j > x /\ ~IsHead(w[i]) /\ ~IsHead(b[j]) => w[i][2] < b[j][2]

Below(w, k) == \A i \in DOMAIN w : IsHead(w[i]) \/ w[i][2] <= k

\* Part i, which has an urgent byte, has been sent in part, farther perhaps than
\* position x.
Later(i, x) ==
  /\ i > 0 /\ Urgent(parts[i])
  /\ round \in Rounds /\ Place(parts[i]) >= x /\ Ahead(wire, buf, Reach(i))

(***************************************************************************)
(* Where the call goes on, nothing behind has been sent; or send has taken *)
(* some of a part and desync is on its way back to that part, which it     *)
(* will not send again.                                                    *)
(***************************************************************************)
Onwards ==
  \/ Ahead(wire, buf, Pos)
  \/ /\ slow
     /\ \/ /\ pc = "part" /\ curr < part_skip /\ skip = offset /\ lp = offset
           /\ Later(part_skip, offset)
        \/ pc \in {"return", "pending"} /\ Later(part_sent, Pos)

OrderInv ==
  "again" \notin upset /\ (("early" \notin upset /\ ~UrgentAgain) \/ ~slow) =>
    InTurn(wire) /\ Below(wire, taken) /\ (Busy => Onwards)

LEMMA AheadMore ==
  ASSUME NEW w, NEW b \in Seq(Item), NEW x \in Nat, NEW y \in Nat, x <= y, Ahead(w, b, x)
  PROVE  Ahead(w, b, y)
<1>1. DOMAIN b = 1..Len(b) /\ Len(b) \in Nat
  BY LenProperties
<1>2. \A j \in DOMAIN b : j > y => j > x
  BY <1>1
<1> QED
  BY ONLY <1>2, Ahead(w, b, x) DEF Ahead

\* Some of the buffer goes out, from where nothing behind has been sent.
LEMMA OrderOnward ==
  ASSUME Types, NEW p \in Nat, NEW x \in Nat, p <= x, x <= Len(buf),
         Data(buf, base, taken, hello),
         InTurn(wire), Below(wire, taken), Ahead(wire, buf, p), wire' = wire \o Bytes(p, x)
  PROVE  InTurn(wire') /\ Below(wire', taken) /\ Ahead(wire', buf, x)
<1> DEFINE m == Len(wire)
           k == x - p
           s == Bytes(p, x)
<1>1. /\ wire \in Seq(Item) /\ buf \in Seq(Item) /\ Len(buf) \in Nat /\ k \in Nat
      /\ taken \in Nat /\ base \in Nat /\ hello \in Nat
      /\ DOMAIN buf = 1..Len(buf)
  BY LengthFacts, LenProperties DEF Types, BufTypes, WireTypes, DataTypes
<1>2. s \in Seq(Item) /\ Len(s) = k /\ \A i \in 1..k : s[i] = buf[p + i]
  BY BytesTyped
<1> HIDE DEF s
<1>3. /\ DOMAIN wire = 1..m /\ m \in Nat /\ DOMAIN wire' = 1..(m + k)
      /\ \A i \in 1..m : wire'[i] = wire[i]
      /\ \A i \in 1..k : wire'[m + i] = s[i]
  <2>1. wire' = wire \o s
    BY DEF s
  <2>2. /\ Len(wire) \in Nat
        /\ DOMAIN wire = 1..Len(wire) /\ DOMAIN (wire \o s) = 1..(Len(wire) + Len(s))
        /\ \A i \in 1..Len(wire) : (wire \o s)[i] = wire[i]
        /\ \A i \in 1..Len(s) : (wire \o s)[Len(wire) + i] = s[i]
    BY ONLY <1>1, <1>2, ConcatItems
  <2>3. Len(s) = k
    BY <1>2
  <2> HIDE DEF k
  <2> QED
    BY ONLY <2>1, <2>2, <2>3
<1>4. \A i \in 1..k : wire'[m + i] = buf[p + i]
  BY <1>2, <1>3
<1>5. InTurn(buf) /\ \A j \in DOMAIN buf : IsHead(buf[j]) \/ buf[j][2] <= taken
  <2>1. PICK d \in Nat : Carries(buf, d, taken)
    BY <1>1 DEF Data, Lower
  <2>2. ASSUME NEW j \in DOMAIN buf PROVE IsHead(buf[j]) \/ buf[j][2] <= taken
    <3>1. CASE IsHead(buf[j])
      BY <3>1
    <3>2. ASSUME NEW y \in (d + 1)..taken, buf[j] = Byte(y) PROVE buf[j][2] <= taken
      BY <3>2 DEF Byte
    <3> QED
      BY <2>1, <3>1, <3>2 DEF Carries
  <2> QED
    BY <2>1, <2>2 DEF Carries
<1>6. m \in Nat /\ k \in Nat
  BY ONLY <1>1, <1>3
<1> HIDE DEF k, m
<1>7. ASSUME NEW i \in 1..k PROVE p + i \in DOMAIN buf /\ p + i > p /\ ~(p + i > x)
  BY <1>1 DEF k
<1>8. InTurn(wire')
  <2> SUFFICES ASSUME NEW i \in 1..(m + k), NEW j \in 1..(m + k), i < j,
                      ~IsHead(wire'[i]), ~IsHead(wire'[j])
               PROVE  wire'[i][2] < wire'[j][2]
    BY <1>3 DEF InTurn
  <2>1. CASE i \in 1..m /\ j \in 1..m
    BY <1>3, <2>1 DEF InTurn
  <2>2. ASSUME i \in 1..m, NEW y \in 1..k, j = m + y PROVE wire'[i][2] < wire'[j][2]
    BY <1>3, <1>4, <1>7, <2>2 DEF Ahead
  <2>3. ASSUME NEW u \in 1..k, i = m + u, NEW v \in 1..k, j = m + v
        PROVE  wire'[i][2] < wire'[j][2]
    <3>1. p + u < p + v
      BY <1>3, <2>3
    <3>2. wire'[i] = buf[p + u] /\ wire'[j] = buf[p + v]
      BY <1>4, <2>3
    <3> QED
      BY <1>5, <1>7, <3>1, <3>2 DEF InTurn
  <2>4. i \in 1..m \/ \E u \in 1..k : i = m + u
    BY ONLY <1>6, EitherPart, i \in 1..(m + k)
  <2>5. j \in 1..m \/ \E v \in 1..k : j = m + v
    BY ONLY <1>6, EitherPart, j \in 1..(m + k)
  <2>6. (\E u \in 1..k : i = m + u) => ~(j \in 1..m)
    BY ONLY <1>6, i < j, i \in 1..(m + k), j \in 1..(m + k)
  <2> QED
    BY ONLY <2>1, <2>2, <2>3, <2>4, <2>5, <2>6
<1>9. Below(wire', taken)
  <2> SUFFICES ASSUME NEW i \in 1..(m + k) PROVE IsHead(wire'[i]) \/ wire'[i][2] <= taken
    BY <1>3 DEF Below
  <2>1. i \in 1..m \/ \E u \in 1..k : i = m + u
    BY ONLY <1>6, EitherPart, i \in 1..(m + k)
  <2>2. CASE i \in 1..m
    BY <1>3, <2>2 DEF Below
  <2>3. ASSUME NEW u \in 1..k, i = m + u PROVE IsHead(wire'[i]) \/ wire'[i][2] <= taken
    BY <1>4, <1>5, <1>7, <2>3
  <2> QED
    BY <2>1, <2>2, <2>3
<1>10. Ahead(wire', buf, x)
  <2> SUFFICES ASSUME NEW i \in 1..(m + k), NEW j \in DOMAIN buf, j > x,
                      ~IsHead(wire'[i]), ~IsHead(buf[j])
               PROVE  wire'[i][2] < buf[j][2]
    BY <1>3 DEF Ahead
  <2>1. i \in 1..m \/ \E u \in 1..k : i = m + u
    BY ONLY <1>6, EitherPart, i \in 1..(m + k)
  <2>2. CASE i \in 1..m
    <3>1. j > p
      BY <1>1
    <3> QED
      BY <1>3, <2>2, <3>1 DEF Ahead
  <2>3. ASSUME NEW u \in 1..k, i = m + u PROVE wire'[i][2] < buf[j][2]
    <3>1. p + u < j
      <4>1. ~(p + u > x) /\ p + u \in DOMAIN buf
        BY ONLY <1>7, u \in 1..k
      <4>2. j \in Nat /\ p + u \in Nat
        BY ONLY <1>1, <4>1, j \in DOMAIN buf
      <4> QED
        BY ONLY <4>1, <4>2, j > x, x \in Nat
    <3> QED
      BY <1>4, <1>5, <1>7, <2>3, <3>1 DEF InTurn
  <2> QED
    BY <2>1, <2>2, <2>3
<1> QED
  BY <1>8, <1>9, <1>10

LEMMA Within ==
  ASSUME NEW a \in Nat, NEW b \in Nat, NEW c \in Nat, b <= c - a
  PROVE  a + b <= c /\ a + b \in Nat
OBVIOUS

\* No part sends a byte that is out of turn, and one that was cut short is not sent again.
LEMMA OrderPart ==
  ASSUME Types, LoopInv, Part, Data(buf, base, taken, hello), slow => ~UrgentAgain,
         InTurn(wire), Below(wire, taken), Onwards
  PROVE  InTurn(wire') /\ Below(wire', taken) /\ Onwards'
<1>1. pc = "part" /\ curr + 1 \in 1..Len(parts) /\ UNCHANGED PartKeeps
  BY PartFacts
<1>2. PICK c \in Piece, place \in Int :
        /\ c = parts[curr + 1] /\ place = Place(c)
        /\ Passes(place) \/ Stops(place) \/ \E p \in Nat : Sends(c, place, p)
  BY PartFacts
<1>3. /\ lp \in Nat /\ offset \in Nat /\ curr \in Nat /\ part_skip \in Nat
      /\ Len(buf) \in Nat /\ lp <= Len(buf) /\ offset <= lp /\ skip \in Nat
      /\ buf \in Seq(Item)
  BY <1>1, LengthFacts DEF Types, CallTypes, BufTypes, InCall
<1>4. Pos = lp
  BY <1>1 DEF Pos
<1>5. UNCHANGED <<buf, host, parts, offset, skip, part_skip, round, slow>> /\ round \in Rounds
  BY <1>1 DEF PartKeeps, confvars, buffvars, LoopInv
<1>7. CASE Ahead(wire, buf, lp)
  <2>1. CASE Passes(place) \/ Stops(place)
    <3>1. wire' = wire /\ lp' = lp /\ pc' \in {"part", "rest"}
      BY <1>1, <2>1 DEF Passes, Stops
    <3>2. Pos' = lp
      BY <3>1 DEF Pos
    <3> QED
      BY <1>5, <1>7, <3>1, <3>2 DEF Onwards
  <2>2. ASSUME NEW p \in Nat, Sends(c, place, p)
        PROVE  InTurn(wire') /\ Below(wire', taken) /\ Onwards'
    <3>1. /\ part_sent' = curr + 1
          /\ lp <= p /\ p <= Len(buf) /\ p <= place /\ (p = place \/ p = Len(buf))
          /\ Again(p) \/ Accepted(c, p) \/ Refused(c, p)
      BY <2>2 DEF Sends, Anew
    <3>2. CASE Again(p) \/ Accepted(c, p)
      <4>1. /\ \/ pc' = "return" /\ ret' = p - offset
               \/ pc' = "part" /\ lp' = p
            /\ wire' = wire \/ Grown(p)
        BY <1>1, <3>2 DEF Again, Accepted, Waits, GoesOn
      <4>2. Pos' = p
        <5>1. offset + (p - offset) = p
          BY <1>3
        <5> QED
          BY <1>5, <4>1, <5>1 DEF Pos
      <4>3. InTurn(wire') /\ Below(wire', taken) /\ Ahead(wire', buf, p)
        <5>1. CASE wire' = wire
          <6>1. Ahead(wire, buf, p)
            BY <1>3, <1>7, <3>1, AheadMore
          <6> QED
            BY <5>1, <6>1
        <5>2. CASE Grown(p)
          BY <1>3, <1>7, <3>1, <5>2, OrderOnward DEF Grown
        <5> QED
          BY <4>1, <5>1, <5>2
      <4> QED
        BY <1>5, <4>2, <4>3 DEF Onwards
    <3>3. CASE Refused(c, p)
      <4>1. /\ slow /\ pc' = "return" /\ ret' \in Nat /\ ret' <= p - offset
            /\ wire' = wire \/ \E x \in lp..p : Grown(x)
        BY <3>3 DEF Refused
      <4>2. Pos' <= p /\ Pos' \in Nat
        <5>1. Pos' = offset + ret'
          BY <1>5, <4>1 DEF Pos
        <5>2. ret' \in Nat /\ ret' <= p - offset /\ offset \in Nat
          BY <1>3, <4>1
        <5> QED
          BY ONLY <5>1, <5>2, p \in Nat, Within
      <4>3. InTurn(wire') /\ Below(wire', taken) /\ Ahead(wire', buf, p)
        <5>1. CASE wire' = wire
          <6>1. Ahead(wire, buf, p)
            BY <1>3, <1>7, <3>1, AheadMore
          <6> QED
            BY <5>1, <6>1
        <5>2. ASSUME NEW x \in lp..p, Grown(x)
              PROVE  InTurn(wire') /\ Below(wire', taken) /\ Ahead(wire', buf, p)
          <6>1. x \in Nat /\ lp <= x /\ x <= Len(buf) /\ x <= p
            BY <1>3, <3>1
          <6>2. InTurn(wire') /\ Below(wire', taken) /\ Ahead(wire', buf, x)
            BY <1>3, <1>7, <5>2, <6>1, OrderOnward DEF Grown
          <6> QED
            BY <1>3, <6>1, <6>2, AheadMore
        <5> QED
          BY <4>1, <5>1, <5>2
      <4>4. Place(parts[part_sent])' = place /\ Reach(part_sent)' = p
        <5>1. Place(parts[part_sent])' = place
          BY <1>2, <1>5, <3>1 DEF Place, n
        <5>2. Reach(part_sent)' = IF place > Len(buf) THEN Len(buf) ELSE place
          BY <1>5, <5>1 DEF Reach
        <5>3. (IF place > Len(buf) THEN Len(buf) ELSE place) = p
          BY <1>3, <3>1
        <5> QED
          BY <5>1, <5>2, <5>3
      <4>5. part_sent' > 0 /\ place >= Pos'
        BY <1>3, <3>1, <4>2
      <4>6. CASE Urgent(c)
        <5>1. Urgent(parts'[part_sent'])
          BY <1>2, <1>5, <3>1, <4>6
        <5>2. Later(part_sent, Pos)'
          BY <1>5, <4>3, <4>4, <4>5, <5>1 DEF Later
        <5> QED
          BY <1>5, <4>1, <4>3, <5>2 DEF Onwards
      <4>7. CASE ~Urgent(c)
        <5>1. /\ (wire' = wire /\ ret' = lp - offset) \/ Grown(offset + ret')
              /\ lp - offset <= ret'
          BY <3>3, <4>7 DEF Refused
        <5>2. Pos' = offset + ret' /\ lp <= Pos' /\ Pos' <= Len(buf)
          <6>1. Pos' = offset + ret'
            BY <1>5, <4>1 DEF Pos
          <6>2. PICK d \in Nat : d = ret'
            BY <4>1
          <6>3. lp - offset <= d
            BY ONLY <5>1, <6>2
          <6>4. lp <= offset + d
            BY ONLY <1>3, <6>3, d \in Nat
          <6>5. PICK z \in Nat : z = Pos'
            BY <4>2
          <6>6. z <= Len(buf)
            BY ONLY <1>3, <3>1, <4>2, <6>5, p \in Nat
          <6> QED
            BY ONLY <6>1, <6>2, <6>4, <6>5, <6>6
        <5>3. PICK x \in Nat : x = Pos'
          BY <4>2
        <5>4. Ahead(wire', buf, x)
          <6>1. CASE wire' = wire /\ ret' = lp - offset
            <7>1. x = lp
              BY ONLY <1>3, <5>2, <5>3, <6>1
            <7> QED
              BY <1>7, <6>1, <7>1
          <6>2. CASE Grown(offset + ret')
            BY <1>3, <1>7, <5>2, <5>3, <6>2, OrderOnward DEF Grown
          <6> QED
            BY <5>1, <6>1, <6>2
        <5> QED
          BY <1>5, <4>3, <5>3, <5>4 DEF Onwards
      <4> QED
        BY <4>6, <4>7
    <3> QED
      BY <3>1, <3>2, <3>3
  <2> QED
    BY <1>2, <2>1, <2>2
<1>8. CASE ~Ahead(wire, buf, lp)
  <2>1. /\ slow /\ curr < part_skip /\ skip = offset /\ lp = offset
        /\ part_skip > 0 /\ Place(parts[part_skip]) >= offset /\ Urgent(parts[part_skip])
        /\ Ahead(wire, buf, Reach(part_skip))
    BY <1>1, <1>4, <1>8 DEF Onwards, Later
  <2>2. CASE curr + 1 < part_skip
    <3>1. Passed(curr + 1, place)
      <4>1. DOMAIN parts = 1..Len(parts) /\ part_skip \in (curr + 1)..Len(parts)
        BY <1>3, <2>2, LengthFacts, LenProperties DEF Types, ConfTypes, CallTypes
      <4>2. ~AtStart(parts[curr + 1])
        BY <1>1, <2>1, <4>1 DEF UrgentAgain
      <4> QED
        BY <2>2, <4>2 DEF Passed
    <3>2. /\ curr' = curr + 1 /\ UNCHANGED <<wire, lp, pc>>
      BY <1>2, <3>1 DEF Passes, Stops, Sends
    <3>3. Place(parts[part_skip])' = Place(parts[part_skip]) /\ Reach(part_skip)' = Reach(part_skip)
      BY <1>5 DEF Place, Reach, n
    <3>4. Later(part_skip, offset)'
      <4>1. Urgent(parts'[part_skip'])
        BY <1>5, <2>1
      <4> QED
        BY <1>5, <2>1, <3>2, <3>3, <4>1 DEF Later
    <3> QED
      BY <1>1, <1>5, <2>1, <2>2, <3>2, <3>4 DEF Onwards
  <2>3. CASE curr + 1 = part_skip
    <3>1. place = Place(parts[part_skip]) /\ place >= offset
      BY <1>2, <2>1, <2>3
    <3>2. ~Passed(curr + 1, place) /\ ~(place < 0 \/ place < lp)
      BY <1>3, <2>1, <2>3, <3>1 DEF Passed
    <3>3. PICK p \in Nat : Sends(c, place, p)
      BY <1>2, <3>2 DEF Passes, Stops
    <3>4. /\ lp <= p /\ p <= Len(buf) /\ p <= place /\ (p = place \/ p = Len(buf))
          /\ Again(p)
      BY <2>3, <3>3 DEF Sends, Anew
    <3>5. /\ wire' = wire
          /\ \/ pc' = "return" /\ ret' = p - offset
             \/ pc' = "part" /\ lp' = p
      BY <1>1, <3>4 DEF Again, Waits, GoesOn
    <3>6. Pos' = p
      <4>1. offset + (p - offset) = p
        BY <1>3
      <4> QED
        BY <1>5, <3>5, <4>1 DEF Pos
    <3>7. Reach(part_skip) = p
      <4>1. Reach(part_skip) = IF place > Len(buf) THEN Len(buf) ELSE place
        BY <3>1 DEF Reach
      <4> QED
        BY <1>3, <3>4, <4>1
    <3>8. Ahead(wire', buf', Pos')
      BY <1>5, <2>1, <3>5, <3>6, <3>7
    <3> QED
      BY <3>5, <3>8 DEF Onwards
  <2> QED
    BY <1>3, <2>1, <2>2, <2>3
<1> QED
  BY <1>7, <1>8

\* New data is behind all that has been sent.
LEMMA OrderRecv ==
  ASSUME Types, StartInv, HelloInv, Below(wire, taken),
         NEW l \in Lengths, NEW h \in Hosts, NEW m \in Missing, Recv(l, h, m)
  PROVE  wire' = wire /\ Below(wire, taken') /\ Ahead(wire, buf', 0) /\ Pos' = 0
<1>1. taken \in Nat /\ hello' \in Nat /\ taken' \in Nat /\ wire \in Seq(Item)
  BY RecvTypes DEF Types, DataTypes, WireTypes
<1>2. /\ taken' = taken + l /\ base' = taken /\ wire' = wire
      /\ pc' \in {"part", "plain"} /\ lp' = 0
  BY DEF Recv, Enter, kernvars
<1>3. Pos' = 0
  BY <1>2 DEF Pos
<1>4. \A i \in DOMAIN wire : wire[i][2] \in Int
  BY <1>1, LenProperties, ElementOfSeq DEF Item
<1>5. l \in Nat
  BY DesyncAssumption
<1>6. Below(wire, taken')
  BY <1>1, <1>2, <1>4, <1>5 DEF Below
<1>7. PICK d \in Nat : d >= taken /\ Carries(buf', d, taken')
  <2>1. Carries(buf', Lower(taken, hello'), taken')
    BY <1>2, RecvData DEF Data
  <2>2. Lower(taken, hello') \in Nat /\ Lower(taken, hello') >= taken
    BY <1>1 DEF Lower
  <2> QED
    BY <2>1, <2>2
<1>8. ASSUME NEW i \in DOMAIN wire, NEW j \in DOMAIN buf', ~IsHead(wire[i]), ~IsHead(buf'[j])
      PROVE  wire[i][2] < buf'[j][2]
  <2>1. PICK y \in (d + 1)..taken' : buf'[j] = Byte(y)
    BY <1>7, <1>8 DEF Carries
  <2>2. buf'[j][2] = y
    BY <2>1 DEF Byte
  <2>3. wire[i][2] <= taken /\ wire[i][2] \in Int
    BY <1>4, <1>8 DEF Below
  <2> QED
    BY <1>1, <1>7, <2>2, <2>3
<1>9. Ahead(wire, buf', 0)
  BY ONLY <1>8 DEF Ahead
<1> QED
  BY <1>2, <1>3, <1>6, <1>9

LEMMA OrderRest ==
  ASSUME Types, PlainInv, Rest \/ Plain, Data(buf, base, taken, hello),
         InTurn(wire), Below(wire, taken), Onwards
  PROVE  InTurn(wire') /\ Below(wire', taken) /\ Onwards'
<1>1. pc \in {"rest", "plain"} /\ UNCHANGED <<buf, offset>>
  BY SendKeeps DEF Rest, Plain, OnlySends
<1>2. /\ lp \in Nat /\ offset \in Nat /\ Len(buf) \in Nat /\ buf \in Seq(Item)
      /\ offset <= lp /\ lp <= Len(buf)
  BY <1>1, LengthFacts DEF Types, CallTypes, BufTypes, InCall
<1>3. Pos = lp /\ Ahead(wire, buf, lp)
  BY <1>1 DEF Pos, Onwards
<1>4. PICK x \in Nat, y \in Nat :
        /\ lp <= x /\ x <= Len(buf) /\ x <= y
        /\ wire' = wire \o Bytes(lp, x) \/ (wire' = wire /\ x = lp)
        /\ pc' = "return" /\ ret' = y - offset
  <2>1. CASE Rest
    <3>1. CASE wire' = wire /\ Leave(lp, FALSE)
      BY <1>2, <3>1 DEF Leave
    <3>2. ASSUME NEW q \in Takes(IF lp < n THEN n - lp ELSE 0),
                 wire' = wire \o Bytes(lp, lp + q), Leave(n, FALSE)
          PROVE  \E x \in Nat, y \in Nat :
                   /\ lp <= x /\ x <= Len(buf) /\ x <= y
                   /\ wire' = wire \o Bytes(lp, x)
                   /\ pc' = "return" /\ ret' = y - offset
      <4>1. q \in Nat /\ lp + q <= Len(buf)
        BY <1>2, <3>2 DEF Takes, n
      <4>2. lp + q \in Nat /\ lp <= lp + q
        BY <1>2, <4>1
      <4> QED
        BY <1>2, <3>2, <4>1, <4>2 DEF Leave, n
    <3> QED
      BY <2>1, <3>1, <3>2 DEF Rest
  <2>2. CASE Plain
    <3>1. lp = offset
      BY <2>2 DEF Plain, PlainInv
    <3>2. CASE wire' = wire /\ Leave(offset, FALSE)
      BY <1>2, <3>1, <3>2 DEF Leave
    <3>3. ASSUME NEW q \in Takes(n - offset),
                 wire' = wire \o Bytes(offset, offset + q), Leave(offset + q, FALSE)
          PROVE  \E x \in Nat, y \in Nat :
                   /\ lp <= x /\ x <= Len(buf) /\ x <= y
                   /\ wire' = wire \o Bytes(lp, x)
                   /\ pc' = "return" /\ ret' = y - offset
      <4>1. q \in Nat /\ lp + q <= Len(buf)
        BY <1>2, <3>1, <3>3 DEF Takes, n
      <4>2. lp + q \in Nat /\ lp <= lp + q
        BY <1>2, <4>1
      <4> QED
        BY <1>2, <3>1, <3>3, <4>1, <4>2 DEF Leave
    <3> QED
      BY <2>2, <3>2, <3>3 DEF Plain
  <2> QED
    BY <2>1, <2>2
<1>5. Pos' = y
  <2>1. offset + (y - offset) = y
    BY <1>2
  <2> QED
    BY <1>1, <1>4, <2>1 DEF Pos
<1>6. InTurn(wire') /\ Below(wire', taken) /\ Ahead(wire', buf, x)
  <2>1. CASE wire' = wire /\ x = lp
    BY <1>3, <2>1
  <2>2. CASE wire' = wire \o Bytes(lp, x)
    BY <1>2, <1>3, <1>4, <2>2, OrderOnward
  <2> QED
    BY <1>4, <2>1, <2>2
<1>7. Ahead(wire', buf, y)
  BY <1>2, <1>4, <1>6, AheadMore
<1> QED
  BY <1>1, <1>5, <1>6, <1>7 DEF Onwards

LEMMA OrderStep ==
  ASSUME StreamBasis, LoopInv, CountInv, OrderInv, [Next]_vars
  PROVE  OrderInv'
<1>1. Types
  BY DEF StreamBasis
<1>2. CASE reconnect
  <2>1. wire' = <<>>
    BY <1>2 DEF reconnect
  <2>2. DOMAIN <<>> = {}
    OBVIOUS
  <2> QED
    BY <2>1, <2>2 DEF OrderInv, InTurn, Below, Onwards, Ahead
<1>3. CASE ~reconnect
  <2> SUFFICES ASSUME "again" \notin upset', ("early" \notin upset' /\ ~UrgentAgain') \/ ~slow'
               PROVE  InTurn(wire') /\ Below(wire', taken') /\ (Busy' => Onwards')
    BY DEF OrderInv
  <2>1. /\ "again" \notin upset /\ slow' = slow /\ (slow => ~UrgentAgain)
        /\ ("early" \notin upset /\ ~UrgentAgain) \/ ~slow
    <3>1. slow' = slow /\ parts' = parts
      BY <1>3 DEF Next, Call, vars, confvars, Recv, Resume, Return, Part, PartsEnd, Rest, Plain,
                  Answer, Expire, on_connect
    <3>2. UrgentAgain' <=> UrgentAgain
      BY <3>1 DEF UrgentAgain
    <3> QED
      BY <1>1, <1>3, <3>1, <3>2, FineBefore
  <2>2. InTurn(wire) /\ Below(wire, taken) /\ (Busy => Onwards)
    BY <2>1 DEF OrderInv
  <2>3. Busy => Data(buf, base, taken, hello)
    BY <2>1 DEF StreamBasis, BufInv
  <2>4. CASE \E l \in Lengths, h \in Hosts, m \in Missing : Recv(l, h, m)
    <3>1. wire' = wire /\ Below(wire, taken') /\ Ahead(wire, buf', 0) /\ Pos' = 0
      BY <2>2, <2>4, OrderRecv DEF StreamBasis
    <3> QED
      BY <2>2, <3>1 DEF Onwards
  <2>5. CASE on_connect
    <3>1. wire' = wire /\ wire = <<>> /\ taken' = taken
      BY <2>5 DEF on_connect, kernvars, StreamBasis, ConnectInv
    <3>2. DOMAIN <<>> = {}
      OBVIOUS
    <3> QED
      BY <2>2, <3>1, <3>2 DEF Onwards, Ahead
  <2>6. CASE Resume
    <3>1. /\ pc = "pending" /\ pc' \in {"part", "plain"} /\ buf' = buf /\ upset' = upset
          /\ lp' = offset /\ curr' = 0 /\ skip' = round_sent /\ part_skip' = part_sent
          /\ UNCHANGED <<parts, slow, taken, round, host, offset, wire, round_sent, part_sent>>
      BY <1>1, <2>6, ResumeFacts
    <3>2. Pos = offset /\ Pos' = offset /\ Busy
      BY <3>1 DEF Pos, Busy
    <3>3. CASE Ahead(wire, buf, Pos)
      BY <2>2, <3>1, <3>2, <3>3 DEF Onwards
    <3>4. CASE ~Ahead(wire, buf, Pos)
      <4>1. slow /\ Later(part_sent, offset)
        BY <2>2, <3>1, <3>2, <3>4 DEF Onwards
      <4>2. round_sent = offset
        BY <2>1, <3>1, <4>1 DEF CountInv, Counted
      <4>3. pc' = "part"
        BY <2>6, <4>1 DEF Resume, Enter, Later
      <4>4. Later(part_skip, offset)'
        BY <3>1, <4>1 DEF Later, Reach, Place, n
      <4>5. part_sent > 0
        BY <4>1 DEF Later
      <4> QED
        BY <2>2, <3>1, <4>1, <4>2, <4>3, <4>4, <4>5 DEF Onwards
    <3> QED
      BY <3>3, <3>4
  <2>7. CASE Part
    <3>1. Busy /\ taken' = taken
      BY <2>7, SendKeeps DEF Part, Busy, OnlySends
    <3> QED
      BY <1>1, <2>1, <2>2, <2>3, <2>7, <3>1, OrderPart
  <2>8. CASE PartsEnd
    <3>1. /\ pc = "part" /\ pc' = "rest" /\ curr = Len(parts)
          /\ UNCHANGED <<buf, wire, taken, lp>>
      BY <2>8 DEF PartsEnd, buffvars, kernvars, callvars
    <3>2. curr \in Nat /\ part_skip \in Nat /\ ~(curr < part_skip)
      BY <1>1, <3>1, LengthFacts DEF Types, CallTypes
    <3>3. Ahead(wire, buf, lp)
      BY <2>2, <3>1, <3>2 DEF Onwards, Busy, Pos
    <3> QED
      BY <2>2, <3>1, <3>3 DEF Onwards, Pos
  <2>9. CASE Rest \/ Plain
    <3>1. Busy /\ taken' = taken
      BY <2>9, SendKeeps DEF Rest, Plain, Busy, OnlySends
    <3> QED
      BY <1>1, <2>2, <2>3, <2>9, <3>1, OrderRest DEF StreamBasis
  <2>10. CASE Return
    <3>1. pc = "return" /\ UNCHANGED <<parts, round, host, part_sent, taken, wire>> /\ Busy
      BY <2>10 DEF Return, kernvars, confvars, Busy
    <3>2. CASE pc' = "pending"
      <4>1. buf' = buf /\ offset' = offset + ret
        BY <2>10, <3>2 DEF Return, Onward
      <4>2. Pos' = Pos
        BY <3>1, <3>2, <4>1 DEF Pos
      <4>3. Later(part_sent, Pos)' <=> Later(part_sent, Pos)
        BY <3>1, <4>1, <4>2 DEF Later, Reach, Place, n
      <4> QED
        BY <2>1, <2>2, <3>1, <3>2, <4>1, <4>2, <4>3 DEF Onwards
    <3>3. CASE pc' = "idle"
      BY <2>2, <3>1, <3>3 DEF Busy
    <3> QED
      BY <2>10, <3>2, <3>3 DEF Return
  <2>11. CASE Answer
    <3>1. /\ pc' = pc /\ UNCHANGED <<buf, offset, taken, wire>>
          /\ pc \in {"idle", "pending"} /\ (pc = "pending" => "early" \in upset')
      BY <2>11 DEF Answer, kernvars
    <3>2. CASE pc = "idle"
      BY <2>2, <3>1, <3>2 DEF Busy
    <3>3. CASE pc = "pending"
      <4>1. ~slow
        BY <2>1, <3>1, <3>3
      <4>2. Ahead(wire, buf, offset)
        BY <2>2, <3>3, <4>1 DEF Onwards, Busy, Pos
      <4> QED
        BY <2>2, <3>1, <3>3, <4>2 DEF Onwards, Pos
    <3> QED
      BY <3>1, <3>2, <3>3
  <2>12. CASE Expire
    <3>1. pc' \in {"idle", "closed"} /\ UNCHANGED <<taken, wire>>
      BY <2>12 DEF Expire, buffvars, kernvars
    <3> QED
      BY <2>2, <3>1 DEF Busy
  <2>13. CASE UNCHANGED vars
    <3>1. UNCHANGED <<parts, slow, round, host, pc, offset, ret, lp, curr, skip, part_skip,
                      part_sent, taken, buf, wire>>
      BY <2>13 DEF vars, confvars, buffvars, kernvars, callvars
    <3>2. (Busy' <=> Busy) /\ (Onwards' <=> Onwards)
      BY <3>1 DEF Busy, Onwards, Later, Reach, Place, n, Pos
    <3> QED
      BY <2>2, <3>1, <3>2
  <2> QED
    BY <1>3, <2>4, <2>5, <2>6, <2>7, <2>8, <2>9, <2>10, <2>11, <2>12, <2>13 DEF Next, Call
<1> QED
  BY <1>2, <1>3

\* When the client waits for an answer before it sends its next request, no byte goes out
\* twice or out of turn, whatever send takes or refuses and however often desync waits and
\* comes back; where send takes all it is given, not even when an early answer makes desync
\* start the round again.  tamp run twice on the same data is left out and, where sends are
\* refused, an urgent part at or behind one with OFFSET_START, which is done again.
THEOREM BytesGoInOrder ==
  ASSUME ~SameRound
  PROVE  Spec => []InOrder
<1> DEFINE Inv == StreamBasis /\ LoopInv /\ CountInv /\ OrderInv
<1>1. Init => Inv
  <2> SUFFICES ASSUME Init PROVE Inv
    OBVIOUS
  <2>1. StreamBasis
    BY BasisInit
  <2>2. pc = "idle" /\ wire = <<>>
    BY DEF Init
  <2>3. DOMAIN <<>> = {}
    OBVIOUS
  <2>4. LoopInv /\ CountInv /\ OrderInv
    BY <2>2, <2>3 DEF LoopInv, CountInv, Counted, InCall, OrderInv, InTurn, Below, Busy
  <2> QED
    BY <2>1, <2>4
<1>2. Inv /\ [Next]_vars => Inv'
  <2> SUFFICES ASSUME Inv, [Next]_vars PROVE Inv'
    OBVIOUS
  <2>1. StreamBasis' /\ OrderInv'
    BY BasisStep, OrderStep
  <2>2. LoopInv' /\ CountInv'
    BY LoopStep, CountStep DEF StreamBasis
  <2> QED
    BY <2>1, <2>2
<1>3. Inv => InOrder
  BY DEF OrderInv, InOrder
<1> QED
  BY <1>1, <1>2, <1>3, PTL DEF Spec

-----------------------------------------------------------------------------
(* Urgent bytes                                                            *)

\* How many of the first k requests are sent in parts, and the urgent ones of the
\* first k parts.
Chosen(k) == Cardinality(Rounds \cap 1..k)
Marked(k) == { i \in 1..k : Urgent(parts[i]) }

(***************************************************************************)
(* The parts of a round up to part_sent have had their urgent byte, and    *)
(* only an answer starts a new round.                                      *)
(***************************************************************************)
UrgInv ==
  "early" \notin upset /\ ~UrgentAgain =>
    /\ urgent <= Chosen(round) * Cardinality(Marked(Len(parts)))
    /\ round \in Rounds /\ ~answered =>
         urgent <= Chosen(round - 1) * Cardinality(Marked(Len(parts)))
                     + Cardinality(Marked(part_sent))

LEMMA ChosenFacts ==
  ASSUME NEW k \in Nat
  PROVE  /\ Chosen(k) \in Nat
         /\ Chosen(k + 1) = Chosen(k) + IF k + 1 \in Rounds THEN 1 ELSE 0
<1> DEFINE S == Rounds \cap 1..k
           T == Rounds \cap 1..(k + 1)
<1>1. IsFiniteSet(1..k)
  BY FS_Interval
<1>2. IsFiniteSet(S)
  BY <1>1, FS_Subset
<1>3. Cardinality(S) \in Nat
  BY <1>2, FS_CardinalityType
<1>4. k + 1 \notin S
  OBVIOUS
<1>5. CASE k + 1 \in Rounds
  <2>1. T = S \cup {k + 1}
    BY <1>5
  <2>2. Cardinality(S \cup {k + 1}) = Cardinality(S) + 1
    BY <1>2, <1>4, FS_AddElement
  <2> QED
    BY <1>3, <1>5, <2>1, <2>2 DEF Chosen
<1>6. CASE k + 1 \notin Rounds
  <2>1. T = S
    BY <1>6
  <2> QED
    BY <1>3, <1>6, <2>1 DEF Chosen
<1> QED
  BY <1>5, <1>6

LEMMA MarkedFacts ==
  ASSUME NEW k \in Nat
  PROVE  /\ IsFiniteSet(Marked(k)) /\ Cardinality(Marked(k)) \in Nat
         /\ Cardinality(Marked(k + 1))
              = Cardinality(Marked(k)) + IF Urgent(parts[k + 1]) THEN 1 ELSE 0
<1>1. IsFiniteSet(1..k)
  BY FS_Interval
<1>2. IsFiniteSet(Marked(k))
  BY <1>1, FS_Subset DEF Marked
<1>3. Cardinality(Marked(k)) \in Nat
  BY <1>2, FS_CardinalityType
<1>4. k + 1 \notin Marked(k)
  BY DEF Marked
<1>5. CASE Urgent(parts[k + 1])
  <2>1. Marked(k + 1) = Marked(k) \cup {k + 1}
    BY <1>5 DEF Marked
  <2>2. Cardinality(Marked(k) \cup {k + 1}) = Cardinality(Marked(k)) + 1
    BY <1>2, <1>4, FS_AddElement
  <2> QED
    BY <1>2, <1>3, <1>5, <2>1, <2>2
<1>6. CASE ~Urgent(parts[k + 1])
  <2>1. Marked(k + 1) = Marked(k)
    BY <1>6 DEF Marked
  <2> QED
    BY <1>2, <1>3, <1>6, <2>1
<1> QED
  BY <1>5, <1>6

LEMMA MarkedGrows ==
  ASSUME NEW j \in Nat, NEW k \in Nat, j <= k
  PROVE  Cardinality(Marked(j)) <= Cardinality(Marked(k))
<1>1. Marked(j) \subseteq Marked(k)
  BY DEF Marked
<1>2. IsFiniteSet(Marked(k))
  BY MarkedFacts
<1> QED
  BY <1>1, <1>2, FS_Subset

LEMMA Times ==
  ASSUME NEW x \in Nat, NEW y \in Nat
  PROVE  x * y \in Nat /\ (x + 1) * y = x * y + y
OBVIOUS

\* No part gets its urgent byte a second time.
LEMMA PartUrgent ==
  ASSUME Types, StartInv, LoopInv, UrgInv, Part, "early" \notin upset, ~UrgentAgain, ~answered
  PROVE  UrgInv'
<1>1. /\ pc = "part" /\ curr + 1 \in 1..Len(parts)
      /\ UNCHANGED <<parts, round, answered, part_skip>>
  BY PartFacts DEF PartKeeps, confvars, buffvars
<1>2. PICK c \in Piece, place \in Int :
        /\ c = parts[curr + 1]
        /\ Passes(place) \/ Stops(place) \/ \E p \in Nat : Sends(c, place, p)
  BY PartFacts
<1>3. /\ part_sent \in Nat /\ curr \in Nat /\ part_skip \in Nat /\ urgent \in Nat
      /\ Len(parts) \in Nat /\ part_sent <= Len(parts)
  BY LengthFacts DEF Types, DataTypes, CallTypes, WireTypes
<1>4. round \in Rounds /\ round \in Nat /\ round # 0
  BY <1>1 DEF LoopInv, StartInv, Types, DataTypes
<1> DEFINE U == Cardinality(Marked(Len(parts)))
           x == Chosen(round - 1)
           M(k) == Cardinality(Marked(k))
           more == IF Urgent(c) THEN 1 ELSE 0
<1>5. U \in Nat /\ x \in Nat /\ x * U \in Nat /\ Chosen(round) * U = x * U + U
  <2>1. U \in Nat
    BY <1>3, MarkedFacts
  <2>2. round - 1 \in Nat /\ (round - 1) + 1 = round
    BY <1>4
  <2>3. x \in Nat /\ Chosen(round) = x + 1
    BY <1>4, <2>2, ChosenFacts
  <2> HIDE DEF U, x
  <2> QED
    BY <2>1, <2>3, Times
<1>6. urgent <= x * U + M(part_sent)
  BY <1>4 DEF UrgInv
<1>7. /\ M(part_sent) \in Nat /\ M(curr) \in Nat /\ M(curr + 1) = M(curr) + more
      /\ M(part_sent) <= U /\ M(curr + 1) <= U /\ more \in {0, 1}
  <2>1. curr + 1 \in Nat /\ curr + 1 <= Len(parts)
    BY <1>1, <1>3
  <2>2. M(part_sent) <= U /\ M(curr + 1) <= U
    BY <1>3, <2>1, MarkedGrows
  <2> QED
    BY <1>2, <1>3, <2>2, MarkedFacts
<1>8. part_sent <= curr => M(part_sent) <= M(curr)
  BY <1>3, MarkedGrows
<1>9. UrgInv' <=> (urgent' <= Chosen(round) * U /\ urgent' <= x * U + Cardinality(Marked(part_sent)'))
      \/ "early" \in upset' \/ UrgentAgain'
  <2>1. Marked(Len(parts))' = Marked(Len(parts))
    BY <1>1 DEF Marked
  <2>2. Chosen(round)' = Chosen(round) /\ Chosen(round - 1)' = x
    BY <1>1 DEF Chosen
  <2> QED
    BY <1>1, <1>4, <2>1, <2>2 DEF UrgInv
<1>10. part_sent' = part_sent => Marked(part_sent)' = Marked(part_sent)
  BY <1>1 DEF Marked
<1>11. part_sent' = curr + 1 => Marked(part_sent)' = Marked(curr + 1)
  BY <1>1 DEF Marked
<1>12. CASE Passes(place) \/ Stops(place)
  <2>1. urgent' = urgent /\ part_sent' = part_sent
    BY <1>12 DEF Passes, Stops
  <2> HIDE DEF U, x, M
  <2>2. urgent' <= x * U + M(part_sent) /\ urgent' <= Chosen(round) * U
    BY ONLY <1>3, <1>5, <1>6, <1>7, <2>1
  <2> QED
    BY ONLY <1>9, <1>10, <2>1, <2>2 DEF M
<1>13. ASSUME NEW p \in Nat, Sends(c, place, p) PROVE UrgInv'
  <2>1. part_sent' = curr + 1 /\ ~Passed(curr + 1, place)
    BY <1>13 DEF Sends
  <2>2. part_sent = part_skip \/ part_sent <= curr
    BY <1>1 DEF LoopInv
  <2>3. \/ urgent' = urgent
        \/ curr + 1 # part_skip /\ urgent' = urgent + more
    BY <1>13 DEF Sends, Again, Anew, Accepted, Refused
  <2>4. CASE part_sent <= curr
    <3> HIDE DEF U, x, M, more
    <3>1. urgent' <= x * U + M(curr + 1) /\ urgent' <= Chosen(round) * U
      BY ONLY <1>3, <1>5, <1>6, <1>7, <1>8, <2>3, <2>4
    <3> QED
      BY ONLY <1>9, <1>11, <2>1, <3>1 DEF M
  <2>5. CASE part_sent = curr + 1 /\ urgent' = urgent
    <3>1. M(part_sent) = M(curr + 1)
      BY <2>5
    <3> HIDE DEF U, x, M, more
    <3>2. urgent' <= x * U + M(curr + 1) /\ urgent' <= Chosen(round) * U
      BY ONLY <1>3, <1>5, <1>6, <1>7, <2>5, <3>1
    <3> QED
      BY ONLY <1>9, <1>11, <2>1, <3>2 DEF M
  <2>6. CASE curr + 1 < part_skip
    <3>1. AtStart(parts[curr + 1])
      BY <2>1, <2>6 DEF Passed
    <3>2. \A j \in (curr + 1)..Len(parts) : ~Urgent(parts[j])
      <4>1. DOMAIN parts = 1..Len(parts)
        BY LenProperties DEF Types, ConfTypes
      <4> QED
        BY <1>1, <3>1, <4>1 DEF UrgentAgain
    <3>3. ~Urgent(c)
      BY <1>1, <1>2, <1>3, <3>2
    <3>4. Marked(part_sent) \subseteq Marked(curr + 1) /\ IsFiniteSet(Marked(curr + 1))
      <4>1. ASSUME NEW i \in Marked(part_sent) PROVE i \in Marked(curr + 1)
        <5>1. i \in Int /\ 1 <= i /\ i <= Len(parts) /\ Urgent(parts[i])
          BY <1>3 DEF Marked
        <5>2. i \notin (curr + 1)..Len(parts)
          BY <3>2, <5>1
        <5>3. i \in 1..(curr + 1)
          BY ONLY <1>3, <5>1, <5>2
        <5> QED
          BY <5>1, <5>3 DEF Marked
      <4>2. curr + 1 \in Nat
        BY <1>3
      <4>3. IsFiniteSet(Marked(curr + 1))
        BY <4>2, MarkedFacts
      <4> QED
        BY <4>1, <4>3
    <3>5. M(part_sent) <= M(curr + 1)
      BY <3>4, FS_Subset
    <3>6. urgent' = urgent
      BY <1>3, <2>3, <3>3
    <3> HIDE DEF U, x, M, more
    <3>7. urgent' <= x * U + M(curr + 1) /\ urgent' <= Chosen(round) * U
      BY ONLY <1>3, <1>5, <1>6, <1>7, <3>5, <3>6
    <3> QED
      BY ONLY <1>9, <1>11, <2>1, <3>7 DEF M
  <2>7. curr + 1 < part_skip \/ part_sent <= curr \/ (part_sent = curr + 1 /\ urgent' = urgent)
    BY ONLY <1>3, <2>2, <2>3
  <2> QED
    BY <2>4, <2>5, <2>6, <2>7
<1> QED
  BY <1>2, <1>12, <1>13

LEMMA UrgentStep ==
  ASSUME Types, StartInv, AnswerInv, LoopInv, UrgInv, [Next]_vars
  PROVE  UrgInv'
<1>1. /\ round \in Nat /\ urgent \in Nat /\ part_sent \in Nat /\ Len(parts) \in Nat
      /\ answered \in BOOLEAN
  BY LengthFacts DEF Types, DataTypes, WireTypes, FlagTypes
<1>2. parts' = parts
  BY DEF Next, Call, vars, confvars, Recv, Resume, Return, Part, PartsEnd, Rest, Plain,
         Answer, Expire, on_connect, reconnect
<1> DEFINE U == Cardinality(Marked(Len(parts)))
           M == Cardinality(Marked(part_sent))
<1>3. U \in Nat /\ M \in Nat /\ Cardinality(Marked(part_sent)') \in Nat
  <2>1. \A k \in Nat : Cardinality(Marked(k)) \in Nat
    BY MarkedFacts
  <2>2. part_sent' \in Nat
    BY StepTypes, LengthFacts, <1>2 DEF Types, DataTypes
  <2>3. Marked(part_sent)' = Marked(part_sent')
    BY <1>2 DEF Marked
  <2> QED
    BY <1>1, <2>1, <2>2, <2>3
<1>4. Chosen(round) \in Nat /\ Chosen(round) * U \in Nat
  BY <1>1, <1>3, ChosenFacts, Times
<1>5. Marked(Len(parts))' = Marked(Len(parts))
  BY <1>2 DEF Marked
<1>6. UrgInv' <=> ("early" \notin upset' /\ ~UrgentAgain' =>
        /\ urgent' <= Chosen(round') * U
        /\ round' \in Rounds /\ ~answered' =>
             urgent' <= Chosen(round' - 1) * U + Cardinality(Marked(part_sent)'))
  BY <1>5 DEF UrgInv, Chosen
<1>7. CASE reconnect
  <2>1. urgent' = 0 /\ round' = round /\ round = 1
    BY <1>7 DEF reconnect
  <2>2. Chosen(0) \in Nat /\ Chosen(0) * U \in Nat
    BY <1>3, ChosenFacts, Times
  <2>3. round' - 1 = 0
    BY <2>1
  <2> HIDE DEF U
  <2> QED
    BY ONLY <1>3, <1>4, <1>6, <2>1, <2>2, <2>3
<1>8. CASE ~reconnect
  <2> SUFFICES ASSUME "early" \notin upset', ~UrgentAgain' PROVE UrgInv'
    BY <1>6
  <2>1. "early" \notin upset /\ ~UrgentAgain
    <3>1. UrgentAgain' <=> UrgentAgain
      BY <1>2 DEF UrgentAgain
    <3> QED
      BY <1>8, <3>1, FineBefore
  <2>2. /\ urgent <= Chosen(round) * U
        /\ round \in Rounds /\ ~answered => urgent <= Chosen(round - 1) * U + M
    BY <2>1 DEF UrgInv
  <2>3. CASE \E l \in Lengths, h \in Hosts, m \in Missing : Recv(l, h, m)
    <3>1. /\ UNCHANGED <<urgent, part_sent>>
          /\ \/ round' = round + 1
             \/ UNCHANGED <<round, answered>>
      BY <2>3 DEF Recv, kernvars
    <3>2. CASE round' = round + 1
      <4>1. Chosen(round') \in Nat /\ Chosen(round) * U <= Chosen(round') * U
        <5>1. Chosen(round + 1) = Chosen(round) \/ Chosen(round + 1) = Chosen(round) + 1
          BY <1>1, ChosenFacts
        <5> HIDE DEF U
        <5> QED
          BY <1>3, <1>4, <3>2, <5>1, Times
      <4>2. round' - 1 = round /\ Chosen(round') * U \in Nat
        BY <1>1, <1>3, <3>2, <4>1, Times
      <4> HIDE DEF U
      <4> QED
        BY ONLY <1>1, <1>3, <1>4, <1>6, <2>2, <3>1, <4>1, <4>2
    <3>3. CASE UNCHANGED <<round, answered>>
      <4>1. Marked(part_sent)' = Marked(part_sent)
        BY <1>2, <3>1 DEF Marked
      <4> QED
        BY <1>6, <2>2, <3>1, <3>3, <4>1
    <3> QED
      BY <3>1, <3>2, <3>3
  <2>4. CASE Answer
    <3>1. UNCHANGED <<urgent, round>> /\ answered' = TRUE
      BY <2>4 DEF Answer, kernvars
    <3> QED
      BY <1>6, <2>2, <3>1
  <2>5. CASE Part
    <3>1. ~answered
      <4>1. pc = "part"
        BY <2>5 DEF Part
      <4> QED
        BY <2>1, <4>1 DEF AnswerInv
    <3> QED
      BY <2>1, <2>5, <3>1, PartUrgent
  <2>6. CASE Resume \/ on_connect \/ Return \/ PartsEnd \/ Rest \/ Plain \/ Expire \/ UNCHANGED vars
    <3>1. UNCHANGED <<urgent, part_sent, round, answered>>
      BY <2>6 DEF Resume, on_connect, Return, PartsEnd, Rest, Plain, Expire, vars, kernvars,
                  buffvars
    <3>2. Marked(part_sent)' = Marked(part_sent)
      BY <1>2, <3>1 DEF Marked
    <3> QED
      BY <1>6, <2>2, <3>1, <3>2
  <2> QED
    BY <1>8, <2>3, <2>4, <2>5, <2>6 DEF Next, Call
<1> QED
  BY <1>7, <1>8

\* Each urgent byte of a round goes out at most once, however often desync has to leave
\* and come back and whatever the client sends meanwhile, unless an answer has come
\* before all of the request was sent or the part is, or comes behind, one with
\* OFFSET_START, which is done again.
THEOREM EachUrgentOnce == Spec => []UrgentOnce
<1> DEFINE Inv == Types /\ StartInv /\ AnswerInv /\ LoopInv /\ UrgInv
<1>1. Init => Inv
  <2> SUFFICES ASSUME Init PROVE Inv
    OBVIOUS
  <2>1. Types
    BY InitTypes
  <2>2. /\ pc = "idle" /\ round_sent = 0 /\ part_sent = 0 /\ answered = FALSE
        /\ taken = 0 /\ hello = 0 /\ urgent = 0 /\ round = 0
    BY DEF Init
  <2>3. StartInv /\ AnswerInv /\ LoopInv
    BY <2>2 DEF StartInv, AnswerInv, LoopInv
  <2>4. UrgInv
    <3> DEFINE U == Cardinality(Marked(Len(parts)))
    <3>1. U \in Nat /\ Cardinality(Marked(0)) \in Nat
      BY <2>1, LengthFacts, MarkedFacts
    <3>2. Chosen(0) \in Nat
      BY ChosenFacts
    <3>3. Chosen(0) * U \in Nat
      <4> HIDE DEF U
      <4> QED
        BY <3>1, <3>2, Times
    <3>4. Chosen(0 - 1) = 0
      <4>1. Rounds \cap 1..(0 - 1) = {}
        OBVIOUS
      <4> QED
        BY <4>1, FS_EmptySet DEF Chosen
    <3>5. 0 * U = 0
      BY <3>1
    <3> HIDE DEF U
    <3>6. 0 <= Chosen(0) * U /\ 0 <= Chosen(0 - 1) * U + Cardinality(Marked(0))
      BY <3>1, <3>2, <3>3, <3>4, <3>5
    <3> QED
      BY <2>2, <3>6 DEF UrgInv, U
  <2> QED
    BY <2>1, <2>3, <2>4
<1>2. Inv /\ [Next]_vars => Inv'
  <2> SUFFICES ASSUME Inv, [Next]_vars PROVE Inv'
    OBVIOUS
  <2> QED
    BY StepTypes, StartStep, AnswerStep, LoopStep, UrgentStep
<1>3. Inv => UrgentOnce
  <2> SUFFICES ASSUME Types, UrgInv PROVE UrgentOnce
    OBVIOUS
  <2>1. DOMAIN parts = 1..Len(parts)
    BY LenProperties DEF Types, ConfTypes
  <2>2. Marked(Len(parts)) = { i \in DOMAIN parts : Urgent(parts[i]) }
    BY <2>1 DEF Marked
  <2> QED
    BY <2>2 DEF UrgInv, UrgentOnce, Chosen
<1> QED
  BY <1>1, <1>2, <1>3, PTL DEF Spec

=============================================================================
