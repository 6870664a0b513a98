---------------------------- MODULE DesyncProofs ----------------------------
(***************************************************************************)
(* Proofs about the sending of requests in parts, for all parts, records,  *)
(* lengths, rounds and bounds.                                             *)
(***************************************************************************)
EXTENDS Desync, SequenceTheorems, WellFoundedInduction, TLAPS

\* A part with its repeats written out, and an item of a buffer.
Piece == [m : STRING, pos : Int, flag : STRING, s : Int, k : Nat]
Item == {"byte", "head", "junk"} \X Int
InCall == {"part", "rest", "plain", "return"}

\* What TypeOK says, and the types of what it does not mention.
ConfTypes ==
  parts \in Seq(Piece) /\ tlsrec \in Seq(Piece) /\ wait_send \in BOOLEAN /\ slow \in BOOLEAN

DataTypes ==
  /\ taken \in Nat /\ taken <= Most /\ base \in Nat /\ base <= taken
  /\ round \in Nat /\ hello \in Nat /\ host \in Nat /\ resets \in Nat
  /\ round_sent \in Nat /\ part_sent \in 0..Len(parts)

BufTypes ==
  /\ buf \in Seq(Item) /\ Len(buf) <= BufSize
  /\ offset \in Nat /\ offset <= Len(buf)

CallTypes ==
  /\ skip \in Nat /\ part_skip \in 0..Len(parts) /\ curr \in 0..Len(parts)
  /\ lp \in Nat /\ ret \in Nat
  /\ pc \in InCall \cup {"idle", "pending", "connect", "closed"}
  /\ pc \in InCall => offset <= lp /\ lp <= Len(buf)
  /\ pc = "return" => ret <= Len(buf) - offset
  /\ pc \in {"idle", "connect"} => offset = 0

FlagTypes ==
  /\ low \in BOOLEAN /\ fake \in BOOLEAN /\ spoilt \in BOOLEAN
  /\ timer \in BOOLEAN /\ cin \in BOOLEAN /\ rout \in BOOLEAN
  /\ wait \in BOOLEAN /\ answered \in BOOLEAN /\ fresh \in BOOLEAN

WireTypes == wire \in Seq(Item) /\ urgent \in Nat

Types == ConfTypes /\ DataTypes /\ BufTypes /\ CallTypes /\ FlagTypes /\ WireTypes

(***************************************************************************)
(* Before the first reconnect a wait has no other end than its timer: the  *)
(* masks set when the data came ask for nothing else, and only data that   *)
(* has just come is sent without them.                                     *)
(***************************************************************************)
TimerInv ==
  ~slow /\ resets = 0 =>
    /\ timer => pc = "pending" \/ (pc = "return" /\ wait)
    /\ pc = "pending" => ~cin /\ ~rout
    /\ pc \in InCall => IF fresh THEN offset = 0 ELSE ~cin /\ ~rout
    /\ pc \in InCall => want \in Int /\ want <= Len(buf) - offset
    /\ pc # "connect"
    /\ pc = "return" /\ ~wait => ret = Len(buf) - offset

Held == low \/ fake

\* Nothing has gone wrong that would keep a TTL low.
Fine == ~TtlMayStay /\ upset = {}

\* Before the first data of the client there is no round.
StartInv ==
  round = 0 =>
    /\ pc = "idle" /\ round_sent = 0 /\ part_sent = 0 /\ ~answered
    /\ taken = 0 /\ hello = 0

\* An answer that does not come early finds the request sent.
AnswerInv ==
  "early" \notin upset /\ answered =>
    pc \in {"idle", "closed"} /\ round_sent = 0 /\ part_sent = 0

\* desync goes through the parts in their order.
LoopInv == pc = "part" => round \in Rounds /\ (part_sent = part_skip \/ part_sent <= curr)

\* The counter of the round is where the buffer is, from its first byte to its answer.
Counted ==
  /\ pc \in InCall \cup {"pending", "connect"} => round_sent = offset
  /\ pc \in InCall /\ fresh => offset = 0

CountInv == "early" \notin upset => Counted

(***************************************************************************)
(* While a TTL is low or a fake is in place desync is on its way back to   *)
(* the part that did it: part_sent names that part, it lies at or behind   *)
(* what has been counted as sent, and the parts before it are passed over  *)
(* or, with OFFSET_START, have nothing left to send.                       *)
(***************************************************************************)
BackInv ==
  Held =>
    /\ pc \in {"part", "return", "pending"} /\ round \in Rounds
    /\ pc = "part" =>
         /\ curr < part_skip /\ skip = offset /\ lp = offset
         /\ Place(parts[part_skip]) >= offset
    /\ pc = "return" =>
         /\ part_sent > 0 /\ Place(parts[part_sent]) >= offset + ret
         /\ wait \/ ret < Len(buf) - offset
    /\ pc = "pending" => part_sent > 0 /\ Place(parts[part_sent]) >= offset

HeldInv == Fine => BackInv

SpoiltInv == Fine => ~spoilt

\* How far part i goes.
Reach(i) == IF Place(parts[i]) > Len(buf) THEN Len(buf) ELSE Place(parts[i])

(***************************************************************************)
(* A part with OFFSET_START is done again on the way back, but has nothing *)
(* left to send: it lies at what has been sent or before it.               *)
(***************************************************************************)
Done(k, x) ==
  \A i \in 1..Len(parts) :
    i <= k /\ AtStart(parts[i]) => Reach(i) <= x /\ (Place(parts[i]) >= 0 \/ x > 0)

DoneInv ==
  upset = {} =>
    /\ pc = "part" => Done(curr, lp) /\ Done(part_skip - 1, offset)
    /\ pc = "rest" => Done(part_sent - 1, lp)
    /\ pc = "return" => Done(part_sent - 1, offset + ret)
    /\ pc \in {"plain", "pending"} => Done(part_sent - 1, offset)
    /\ pc = "connect" => part_sent = 0

-----------------------------------------------------------------------------
(* Recursion                                                               *)

LEMMA LeastNat ==
  ASSUME NEW T \in SUBSET Nat, T # {}
  PROVE  \E x \in T : \A y \in T : x <= y
<1> DEFINE R == OpToRel(<, Nat)
<1>1. IsWellFoundedOn(R, Nat)
  BY NatLessThanWellFounded
<1>2. \A x, y \in Nat : <<y, x>> \in R <=> y < x
  BY DEF OpToRel
<1> HIDE DEF R
<1>3. PICK x \in T : \A y \in T : ~(<<y, x>> \in R)
  BY <1>1, WFMin
<1>4. \A y \in T : x \in Nat /\ y \in Nat /\ ~(y < x)
  BY <1>2, <1>3
<1>5. \A y \in T : x <= y
  BY <1>4
<1> QED
  BY <1>3, <1>5

\* Induction on a set of numbers.
LEMMA CountUp ==
  ASSUME NEW m \in Nat, NEW T \in SUBSET (0..m), 0 \in T,
         \A i \in 1..m : i - 1 \in T => i \in T
  PROVE  T = 0..m
<1>1. SUFFICES ASSUME (0..m) \ T # {} PROVE FALSE
  OBVIOUS
<1>2. (0..m) \ T \in SUBSET Nat
  OBVIOUS
<1>3. PICK x \in (0..m) \ T : \A y \in (0..m) \ T : x <= y
  BY <1>1, <1>2, LeastNat
<1>4. x \in 1..m /\ x - 1 \in 0..m /\ ~(x <= x - 1)
  BY <1>3
<1>5. x - 1 \in T
  BY <1>3, <1>4
<1> QED
  BY <1>3, <1>4, <1>5

\* f goes from x on in m steps.
Follows(m, f, x, step) == f[0] = x /\ \A i \in 1..m : f[i] = step[i][f[i - 1]]

\* A value that is worked out in m steps exists.
LEMMA Steps ==
  ASSUME NEW m \in Nat, NEW S, NEW x \in S, NEW step \in [1..m -> [S -> S]]
  PROVE  \E f \in [0..m -> S] : Follows(m, f, x, step)
<1> DEFINE Sofar(k, f) == f[0] = x /\ \A i \in 1..k : f[i] = step[i][f[i - 1]]
           T == {k \in 0..m : \E f \in [0..k -> S] : Sofar(k, f)}
<1>1. 0 \in T
  <2>1. [i \in 0..0 |-> x] \in [0..0 -> S] /\ Sofar(0, [i \in 0..0 |-> x])
    OBVIOUS
  <2> HIDE DEF Sofar
  <2>2. \E f \in [0..0 -> S] : Sofar(0, f)
    BY <2>1
  <2> QED
    BY <2>2
<1>2. ASSUME NEW j \in 1..m, j - 1 \in T PROVE j \in T
  <2>1. PICK f \in [0..(j - 1) -> S] : Sofar(j - 1, f)
    BY <1>2
  <2> DEFINE g == [i \in 0..j |-> IF i = j THEN step[j][f[j - 1]] ELSE f[i]]
  <2>2. f[j - 1] \in S /\ step[j] \in [S -> S]
    OBVIOUS
  <2>3. step[j][f[j - 1]] \in S
    BY <2>2
  <2>4. g \in [0..j -> S]
    BY <2>3
  <2>5. \A i \in 0..(j - 1) : g[i] = f[i]
    OBVIOUS
  <2>6. g[j] = step[j][f[j - 1]]
    OBVIOUS
  <2> HIDE DEF g
  <2>7. Sofar(j, g)
    <3>1. g[0] = x
      BY <2>1, <2>5
    <3>2. ASSUME NEW i \in 1..j PROVE g[i] = step[i][g[i - 1]]
      <4>1. CASE i = j
        BY <2>5, <2>6, <4>1
      <4>2. CASE i # j
        <5>1. i \in 1..(j - 1) /\ i - 1 \in 0..(j - 1) /\ i \in 0..(j - 1)
          BY <4>2
        <5> QED
          BY <2>1, <2>5, <5>1
      <4> QED
        BY <4>1, <4>2
    <3> QED
      BY <3>1, <3>2
  <2> HIDE DEF Sofar
  <2>8. \E h \in [0..j -> S] : Sofar(j, h)
    BY <2>4, <2>7
  <2> QED
    BY <2>8
<1>3. T = 0..m
  <2> HIDE DEF T
  <2>1. T \in SUBSET (0..m)
    BY DEF T
  <2> QED
    BY <1>1, <1>2, <2>1, CountUp
<1>4. m \in T
  <2> HIDE DEF T
  <2> QED
    BY <1>3
<1>5. PICK f \in [0..m -> S] : Sofar(m, f)
  <2> HIDE DEF Sofar
  <2> QED
    BY <1>4
<1>6. Follows(m, f, x, step)
  BY <1>5 DEF Follows
<1> QED
  BY <1>6

LEMMA FlattenTyped ==
  ASSUME NEW S, NEW q \in Seq(Seq(S))
  PROVE  FlattenSeq(q) \in Seq(S)
<1>1. PICK l \in Nat : l = Len(q) /\ q \in [1..l -> Seq(S)]
  BY LenProperties
<1>2. CASE l = 0
  <2>1. q = <<>>
    BY <1>1, <1>2, EmptySeq
  <2> QED
    BY <1>1, <1>2, <2>1 DEF FlattenSeq
<1>3. CASE l # 0
  <2> DEFINE flatten[i \in 1..Len(q)] == IF i = 1 THEN q[i] ELSE flatten[i - 1] \o q[i]
  <2>1. flatten = CHOOSE f : f = [i \in 1..Len(q) |->
                    IF i = 1 THEN q[i] ELSE f[i - 1] \o q[i]]
    OBVIOUS
  <2>2. FlattenSeq(q) = flatten[Len(q)]
    BY <1>1, <1>3 DEF FlattenSeq
  <2> HIDE DEF flatten
  <2>3. PICK m \in Nat : l = m + 1
    <3>1. l - 1 \in Nat /\ l = (l - 1) + 1
      BY <1>3
    <3> QED
      BY <3>1
  <2>4. \A i \in 1..l : q[i] \in Seq(S)
    BY <1>1
  <2> DEFINE step == [i \in 1..m |-> [x \in Seq(S) |-> x \o q[i + 1]]]
  <2>5. step \in [1..m -> [Seq(S) -> Seq(S)]]
    BY <2>3, <2>4, ConcatProperties
  <2>6. \A i \in 1..m : \A x \in Seq(S) : step[i][x] = x \o q[i + 1]
    OBVIOUS
  <2> HIDE DEF step
  <2>7. q[1] \in Seq(S)
    BY <2>3, <2>4
  <2>8. PICK f \in [0..m -> Seq(S)] :
          f[0] = q[1] /\ \A i \in 1..m : f[i] = step[i][f[i - 1]]
    <3> DEFINE X == Seq(S)
    <3>1. step \in [1..m -> [X -> X]] /\ q[1] \in X
      BY <2>5, <2>7
    <3> HIDE DEF X
    <3>2. \E f \in [0..m -> X] : Follows(m, f, q[1], step)
      BY ONLY <3>1, Steps
    <3> QED
      BY <3>2 DEF X, Follows
  <2> DEFINE g == [i \in 1..l |-> f[i - 1]]
  <2>9. g = [i \in 1..l |-> IF i = 1 THEN q[i] ELSE g[i - 1] \o q[i]]
    <3>1. ASSUME NEW i \in 1..l
          PROVE  g[i] = IF i = 1 THEN q[i] ELSE g[i - 1] \o q[i]
      <4>1. CASE i = 1
        BY <2>3, <2>8, <4>1
      <4>2. CASE i # 1
        <5>1. i - 1 \in 1..m /\ i - 1 \in 1..l /\ (i - 1) - 1 \in 0..m /\ (i - 1) + 1 = i
          BY <2>3, <4>2
        <5>2. f[i - 1] = f[(i - 1) - 1] \o q[(i - 1) + 1]
          BY <2>6, <2>8, <5>1
        <5> QED
          BY <4>2, <5>1, <5>2
      <4> QED
        BY <4>1, <4>2
    <3> QED
      BY <3>1
  <2>10. flatten = [i \in 1..l |-> IF i = 1 THEN q[i] ELSE flatten[i - 1] \o q[i]]
    <3> HIDE DEF g
    <3> QED
      BY <1>1, <2>1, <2>9
  <2> DEFINE T == {k \in 0..m : flatten[k + 1] \in Seq(S)}
  <2>11. 0 \in T
    BY <2>3, <2>7, <2>10
  <2>12. ASSUME NEW k \in 1..m, k - 1 \in T PROVE k \in T
    <3>1. flatten[k] \in Seq(S)
      BY <2>12
    <3>2. k + 1 \in 1..l /\ k + 1 # 1 /\ (k + 1) - 1 = k
      BY <2>3
    <3>3. flatten[k + 1] = flatten[k] \o q[k + 1]
      BY <2>10, <3>2
    <3>4. flatten[k + 1] \in Seq(S)
      BY <2>4, <3>1, <3>2, <3>3, ConcatProperties
    <3> QED
      BY <3>4
  <2>13. T = 0..m
    <3>1. T \in SUBSET (0..m)
      OBVIOUS
    <3> HIDE DEF T
    <3> QED
      BY <2>11, <2>12, <3>1, CountUp
  <2>14. m \in T
    <3> HIDE DEF T
    <3> QED
      BY <2>13
  <2> QED
    BY <1>1, <2>2, <2>3, <2>14
<1> QED
  BY <1>2, <1>3

-----------------------------------------------------------------------------
(* tamp                                                                    *)

Turns == [buf : Seq(Item), lp : Nat, rc : Nat, on : BOOLEAN]

LEMMA PlaceInt ==
  ASSUME NEW c \in Piece, NEW l \in Int, NEW h \in Nat
  PROVE  gen_offset(c, l, h) \in Int
<1>1. c.pos \in Int /\ l \div 2 \in Int
  BY DEF Piece
<1>2. CASE c.flag \in {"host", "hoststart"}
  BY <1>1, <1>2 DEF gen_offset
<1>3. CASE c.flag \notin {"host", "hoststart"}
  BY <1>1, <1>3 DEF gen_offset
<1> QED
  BY <1>2, <1>3

\* The longer the data, the farther a part.
LEMMA PlaceGrows ==
  ASSUME NEW c \in Piece, NEW l \in Nat, NEW k \in Nat, l <= k, NEW h \in Nat
  PROVE  gen_offset(c, l, h) <= gen_offset(c, k, h)
<1>1. c.pos \in Int /\ l \div 2 \in Int /\ k \div 2 \in Int /\ l \div 2 <= k \div 2
  BY DEF Piece
<1>2. CASE c.flag \in {"host", "hoststart"}
  BY <1>1, <1>2 DEF gen_offset
<1>3. CASE c.flag \notin {"host", "hoststart"}
  BY <1>1, <1>3 DEF gen_offset
<1> QED
  BY <1>2, <1>3

\* A cut makes a buffer longer by one header.
LEMMA CutLonger ==
  ASSUME NEW b \in Seq(Item), NEW at \in Nat, NEW pos \in Nat,
         at + pos + 1 <= Len(b)
  PROVE  Cut(b, at, pos) \in Seq(Item) /\ Len(Cut(b, at, pos)) = Len(b) + 1
<1>1. PICK l \in Nat : l = Len(b) /\ b \in [1..l -> Item]
  BY LenProperties
<1>2. at + 1 \in 1..l
  BY <1>1
<1>3. b[at + 1][2] \in Int
  BY <1>1, <1>2 DEF Item
<1> DEFINE h1 == << Header(pos) >>
           h2 == << Header(b[at + 1][2] - pos) >>
           s1 == SubSeq(b, 1, at)
           s2 == SubSeq(b, at + 2, at + pos + 1)
           s3 == SubSeq(b, at + pos + 2, l)
<1>4. h1 \in Seq(Item) /\ Len(h1) = 1 /\ h2 \in Seq(Item) /\ Len(h2) = 1
  BY <1>3 DEF Header, Item
<1>5. s1 \in Seq(Item) /\ Len(s1) = at
  BY <1>1, SubSeqProperties
<1>6. s2 \in Seq(Item) /\ Len(s2) = pos
  BY <1>1, SubSeqProperties
<1>7. s3 \in Seq(Item) /\ Len(s3) = l - (at + pos + 1)
  <2>1. PICK from \in Nat : from = at + pos + 2
    OBVIOUS
  <2>2. from \in Int /\ l \in Int /\ from >= 1 /\ from <= l + 1
    BY <1>1, <2>1
  <2>3. SubSeq(b, from, l) \in Seq(Item)
        /\ Len(SubSeq(b, from, l)) = IF from <= l THEN l - from + 1 ELSE 0
    BY <1>1, <2>2, SubSeqProperties
  <2>4. (IF from <= l THEN l - from + 1 ELSE 0) = l - (at + pos + 1)
    <3>1. l - (at + pos + 1) = l - from + 1
      BY <2>1
    <3>2. CASE from <= l
      BY ONLY <3>1, <3>2
    <3>3. CASE ~(from <= l)
      <4>1. from = l + 1
        BY ONLY <2>2, <3>3
      <4> QED
        BY ONLY <2>2, <3>1, <3>3, <4>1
    <3> QED
      BY ONLY <3>2, <3>3
  <2> QED
    BY <2>1, <2>3, <2>4
<1>8. Cut(b, at, pos) = s1 \o h1 \o s2 \o h2 \o s3
  BY <1>1 DEF Cut
<1> HIDE DEF h1, h2, s1, s2, s3
<1>9. \A x, y \in Seq(Item) : x \o y \in Seq(Item) /\ Len(x \o y) = Len(x) + Len(y)
  BY ConcatProperties
<1> DEFINE t1 == s1 \o h1
           t2 == t1 \o s2
           t3 == t2 \o h2
           t4 == t3 \o s3
<1>10. t1 \in Seq(Item) /\ Len(t1) = at + 1
  BY ONLY <1>4, <1>5, <1>9
<1> HIDE DEF t1
<1>11. t2 \in Seq(Item) /\ Len(t2) = at + 1 + pos
  BY ONLY <1>6, <1>9, <1>10
<1> HIDE DEF t2
<1>12. t3 \in Seq(Item) /\ Len(t3) = at + 1 + pos + 1
  BY ONLY <1>4, <1>9, <1>11
<1> HIDE DEF t3
<1>13. t4 \in Seq(Item) /\ Len(t4) = at + 1 + pos + 1 + (l - (at + pos + 1))
  BY ONLY <1>7, <1>9, <1>12
<1> HIDE DEF t4
<1>14. Cut(b, at, pos) = t4
  BY ONLY <1>8 DEF t1, t2, t3, t4
<1>15. at + 1 + pos + 1 + (l - (at + pos + 1)) = l + 1
  BY <1>1
<1> QED
  BY ONLY <1>1, <1>13, <1>14, <1>15

LEMMA TurnLonger ==
  ASSUME NEW t \in Turns, NEW c \in Piece, NEW h \in Nat, Len(t.buf) <= BufSize
  PROVE  LET u == part_tls(t, c, h)
         IN u \in Turns /\ Len(t.buf) <= Len(u.buf) /\ Len(u.buf) <= BufSize
<1> USE DesyncAssumption
<1> DEFINE l == Len(t.buf)
           back == IF c.pos < 0 \/ c.flag # "none" THEN 1 ELSE 0
           pos == t.rc + gen_offset(c, l - t.rc, h) - back + c.s * c.k
<1>1. t.buf \in Seq(Item) /\ l \in Nat /\ t.lp \in Nat /\ t.rc \in Nat /\ t.on \in BOOLEAN
  BY LenProperties DEF Turns
<1>2. pos \in Int
  <2>1. gen_offset(c, l - t.rc, h) \in Int
    BY <1>1, PlaceInt
  <2>2. c.s * c.k \in Int
    BY DEF Piece
  <2> QED
    BY <1>1, <2>1, <2>2
<1> HIDE DEF pos
<1>3. CASE ~t.on \/ pos < t.lp \/ l < t.lp + 1 \/ l + 1 > BufSize \/ pos + 1 > l
  <2>1. part_tls(t, c, h) = [t EXCEPT !.on = FALSE]
    BY <1>3 DEF part_tls, pos
  <2>2. [t EXCEPT !.on = FALSE] \in Turns /\ [t EXCEPT !.on = FALSE].buf = t.buf
    BY DEF Turns
  <2> QED
    BY ONLY <1>1, <2>1, <2>2, Len(t.buf) <= BufSize
<1>4. CASE ~(~t.on \/ pos < t.lp \/ l < t.lp + 1 \/ l + 1 > BufSize \/ pos + 1 > l)
  <2>1. /\ pos - t.lp \in Nat /\ pos + 1 \in Nat /\ t.rc + 1 \in Nat
        /\ t.lp + (pos - t.lp) + 1 <= l /\ l + 1 <= BufSize
    <3>1. BufSize \in Nat
      BY DesyncAssumption
    <3> HIDE DEF l, pos
    <3> QED
      BY ONLY <1>1, <1>2, <1>4, <3>1
  <2> DEFINE junk == Append(t.buf, Junk)
             cut == Cut(t.buf, t.lp, pos - t.lp)
  <2>2. junk \in Seq(Item) /\ Len(junk) = l + 1
    <3>1. Junk \in Item
      BY DEF Junk, Item
    <3> QED
      BY <1>1, <3>1, AppendProperties
  <2>3. cut \in Seq(Item) /\ Len(cut) = l + 1
    BY <1>1, <2>1, CutLonger
  <2> HIDE DEF junk, cut
  <2>4. \E b \in {junk, cut} :
          part_tls(t, c, h) = [on |-> TRUE, lp |-> pos + 1, rc |-> t.rc + 1, buf |-> b]
    BY <1>4 DEF part_tls, pos, junk, cut
  <2>5. PICK b \in {junk, cut} :
          part_tls(t, c, h) = [on |-> TRUE, lp |-> pos + 1, rc |-> t.rc + 1, buf |-> b]
    BY <2>4
  <2>6. b \in Seq(Item) /\ Len(b) = l + 1
    BY <2>2, <2>3, <2>5
  <2> QED
    BY <1>1, <2>1, <2>5, <2>6 DEF Turns
<1> QED
  BY <1>3, <1>4

\* What holds of the buffer at first, and after a turn if before, holds of what tamp
\* makes of it.
LEMMA TampTurns ==
  ASSUME NEW b, NEW h, NEW m \in Nat, m = Len(tlsrec), NEW X,
         [buf |-> b, lp |-> 0, rc |-> 0, on |-> TRUE] \in X,
         \A i \in 1..m : \A t \in X : part_tls(t, tlsrec[i], h) \in X
  PROVE  tamp(b, h) = b \/ (tlsrec # <<>> /\ \E t \in X : tamp(b, h) = t.buf)
<1> DEFINE start == [buf |-> b, lp |-> 0, rc |-> 0, on |-> TRUE]
           turn[i \in 0..Len(tlsrec)] ==
             IF i = 0 THEN start ELSE part_tls(turn[i - 1], tlsrec[i], h)
<1>1. turn = CHOOSE f : f = [i \in 0..Len(tlsrec) |->
               IF i = 0 THEN start ELSE part_tls(f[i - 1], tlsrec[i], h)]
  OBVIOUS
<1>2. tamp(b, h) = b \/ (tlsrec # <<>> /\ tamp(b, h) = turn[Len(tlsrec)].buf)
  BY DEF tamp
<1> HIDE DEF turn
<1>3. start \in X /\ \A i \in 1..m : \A t \in X : part_tls(t, tlsrec[i], h) \in X
  OBVIOUS
<1> DEFINE step == [i \in 1..m |-> [t \in X |-> part_tls(t, tlsrec[i], h)]]
<1> HIDE DEF start
<1>4. step \in [1..m -> [X -> X]]
  BY <1>3
<1>5. \A i \in 1..m : \A t \in X : step[i][t] = part_tls(t, tlsrec[i], h)
  OBVIOUS
<1> HIDE DEF step
<1>6. PICK f \in [0..m -> X] : Follows(m, f, start, step)
  BY ONLY <1>3, <1>4, m \in Nat, Steps
<1>7. f = [i \in 0..m |-> IF i = 0 THEN start ELSE part_tls(f[i - 1], tlsrec[i], h)]
  <2>1. ASSUME NEW i \in 0..m
        PROVE  f[i] = IF i = 0 THEN start ELSE part_tls(f[i - 1], tlsrec[i], h)
    <3>1. CASE i = 0
      BY <1>6, <3>1 DEF Follows
    <3>2. CASE i # 0
      <4>1. i \in 1..m /\ i - 1 \in 0..m
        BY <3>2
      <4>2. f[i - 1] \in X
        BY <4>1
      <4> QED
        BY <1>5, <1>6, <3>2, <4>1, <4>2 DEF Follows
    <3> QED
      BY <3>1, <3>2
  <2> QED
    BY <2>1
<1>8. turn = [i \in 0..m |-> IF i = 0 THEN start ELSE part_tls(turn[i - 1], tlsrec[i], h)]
  BY <1>1, <1>7
<1> DEFINE T == {i \in 0..m : turn[i] \in X}
<1>9. 0 \in T
  BY <1>3, <1>8
<1>10. ASSUME NEW i \in 1..m, i - 1 \in T PROVE i \in T
  <2>1. turn[i - 1] \in X /\ i \in 0..m /\ i # 0
    BY <1>10
  <2>2. turn[i] = part_tls(turn[i - 1], tlsrec[i], h)
    BY <1>8, <2>1
  <2> QED
    BY <1>3, <2>1, <2>2
<1>11. T = 0..m
  <2>1. T \in SUBSET (0..m)
    OBVIOUS
  <2> HIDE DEF T
  <2> QED
    BY <1>9, <1>10, <2>1, CountUp
<1>12. turn[m] \in X
  <2>1. m \in T
    <3> HIDE DEF T
    <3> QED
      BY <1>11
  <2> QED
    BY <2>1
<1> QED
  BY <1>2, <1>12

(***************************************************************************)
(* tamp makes a buffer longer or leaves it alone, and not longer than its  *)
(* size.                                                                   *)
(***************************************************************************)
LEMMA TampLonger ==
  ASSUME NEW b \in Seq(Item), NEW h \in Nat, Len(b) <= BufSize, tlsrec \in Seq(Piece)
  PROVE  /\ tamp(b, h) \in Seq(Item)
         /\ Len(b) <= Len(tamp(b, h)) /\ Len(tamp(b, h)) <= BufSize
         /\ tlsrec = <<>> => tamp(b, h) = b
<1> USE DesyncAssumption
<1>1. PICK m \in Nat : m = Len(tlsrec) /\ tlsrec \in [1..m -> Piece]
  BY LenProperties
<1>2. Len(b) \in Nat
  BY LenProperties
<1> DEFINE start == [buf |-> b, lp |-> 0, rc |-> 0, on |-> TRUE]
           X == {t \in Turns : Len(b) <= Len(t.buf) /\ Len(t.buf) <= BufSize}
<1>3. start \in X
  <2>1. start \in Turns /\ start.buf = b
    BY DEF Turns
  <2> QED
    BY <1>2, <2>1
<1>4. ASSUME NEW i \in 1..m, NEW t \in X
      PROVE  part_tls(t, tlsrec[i], h) \in X
  <2>1. tlsrec[i] \in Piece /\ t \in Turns /\ Len(t.buf) <= BufSize /\ Len(b) <= Len(t.buf)
    BY <1>1
  <2> DEFINE u == part_tls(t, tlsrec[i], h)
  <2>2. u \in Turns /\ Len(t.buf) <= Len(u.buf) /\ Len(u.buf) <= BufSize
    BY <2>1, TurnLonger
  <2> HIDE DEF u
  <2>3. Len(t.buf) \in Nat /\ Len(u.buf) \in Nat
    BY <2>1, <2>2, LenProperties DEF Turns
  <2>4. Len(b) <= Len(u.buf)
    BY <1>2, <2>1, <2>2, <2>3
  <2>5. u \in X
    BY <2>2, <2>4
  <2> QED
    BY ONLY <2>5 DEF u
<1>5. \A t \in X : t.buf \in Seq(Item) /\ Len(b) <= Len(t.buf) /\ Len(t.buf) <= BufSize
  BY DEF Turns
<1> HIDE DEF X
<1>6. tamp(b, h) = b \/ (tlsrec # <<>> /\ \E t \in X : tamp(b, h) = t.buf)
  BY ONLY <1>1, <1>3, <1>4, TampTurns
<1> QED
  BY <1>2, <1>5, <1>6

\* The repeats of a part.
LEMMA PartsTyped ==
  ASSUME NEW ps \in Seq(Parts)
  PROVE  WrittenOut(ps) \in Seq(Piece)
<1>1. PICK l \in Nat : l = Len(ps) /\ ps \in [1..l -> Parts]
  BY LenProperties
<1>2. ASSUME NEW p \in Parts PROVE Repeat(p) \in Seq(Piece)
  <2>1. PICK r \in Nat : r = IF p.r = 0 THEN 1 ELSE p.r
    BY DEF Parts
  <2>2. \A k \in 1..r :
          [m |-> p.m, pos |-> p.pos, flag |-> p.flag, s |-> p.s, k |-> k - 1] \in Piece
    BY DEF Parts, Piece
  <2>3. Repeat(p) \in [1..r -> Piece]
    BY <2>1, <2>2 DEF Repeat
  <2> QED
    BY <2>3
<1> DEFINE q == [i \in 1..l |-> Repeat(ps[i])]
<1>3. q \in [1..l -> Seq(Piece)]
  BY <1>1, <1>2
<1>4. q \in Seq(Seq(Piece))
  BY <1>3
<1>5. FlattenSeq(q) \in Seq(Piece)
  <2> HIDE DEF q
  <2> QED
    BY <1>4, FlattenTyped
<1> QED
  BY <1>1, <1>5 DEF WrittenOut

LEMMA StreamTyped ==
  ASSUME NEW a \in Nat, NEW b \in Nat, a <= b, NEW h \in Nat
  PROVE  Stream(a, b, h) \in Seq(Item) /\ Len(Stream(a, b, h)) = b - a
<1>1. PICK l \in Nat : l = b - a
  OBVIOUS
<1>2. \A i \in 1..l : (IF h > 0 /\ a + i = 1 THEN Header(h) ELSE Byte(a + i)) \in Item
  BY DEF Header, Byte, Item
<1>3. Stream(a, b, h) \in [1..l -> Item]
  BY <1>1, <1>2 DEF Stream
<1> QED
  BY <1>1, <1>3

-----------------------------------------------------------------------------
(* What the steps of a call do                                             *)

LEMMA EnterFacts ==
  ASSUME Types, NEW r, NEW rs \in Nat, NEW ps, NEW b \in Seq(Item), NEW off \in Nat,
         NEW isnew \in BOOLEAN,
         Len(b) <= BufSize, host' \in Nat, Enter(r, rs, ps, b, off, isnew)
  PROVE  /\ pc' = IF r \in Rounds THEN "part" ELSE "plain"
         /\ buf' \in Seq(Item) /\ Len(b) \in Nat /\ Len(buf') \in Nat
         /\ Len(b) <= Len(buf') /\ Len(buf') <= BufSize
         /\ (r \in Rounds => rs # 0 \/ tlsrec = <<>>) => buf' = b
         /\ skip' = rs /\ part_skip' = ps /\ curr' = 0 /\ lp' = off
         /\ fresh' = isnew /\ wait' = FALSE /\ ret' = ret
<1> USE DesyncAssumption
<1>1. tlsrec \in Seq(Piece)
  BY DEF Types, ConfTypes
<1>2. buf' = IF r \in Rounds /\ rs = 0 THEN tamp(b, host') ELSE b
  BY DEF Enter
<1>3. Len(b) \in Nat
  BY LenProperties
<1>4. /\ tamp(b, host') \in Seq(Item)
      /\ Len(b) <= Len(tamp(b, host')) /\ Len(tamp(b, host')) <= BufSize
      /\ tlsrec = <<>> => tamp(b, host') = b
  BY <1>1, TampLonger
<1>5. /\ buf' \in Seq(Item) /\ Len(b) <= Len(buf') /\ Len(buf') <= BufSize
      /\ (r \in Rounds => rs # 0 \/ tlsrec = <<>>) => buf' = b
  <2>1. CASE r \in Rounds /\ rs = 0
    BY ONLY <1>2, <1>4, <2>1
  <2>2. CASE ~(r \in Rounds /\ rs = 0)
    BY ONLY <1>2, <1>3, <2>2, b \in Seq(Item), Len(b) <= BufSize
  <2> QED
    BY ONLY <2>1, <2>2
<1>6. Len(buf') \in Nat
  BY <1>5, LenProperties
<1> QED
  BY <1>3, <1>5, <1>6 DEF Enter, Counters

\* What a wait, or the end of one, makes of a part that has reached p.
Waits(p, lo, fa) ==
  /\ pc' = "return" /\ ret' = p - offset /\ wait' = TRUE /\ timer' = TRUE
  /\ low' = lo /\ fake' = fa /\ lp' = lp

GoesOn(p) ==
  /\ low' = FALSE /\ fake' = FALSE /\ lp' = p
  /\ UNCHANGED <<pc, ret, wait, timer>>

\* The buffer goes to the kernel up to position x.
Grown(x) == wire' = wire \o Bytes(lp, x)

\* A part c to p that the kernel has refused, or not taken as a whole.
Refused(c, p) ==
  /\ slow
  /\ pc' = "return" /\ wait' = FALSE /\ UNCHANGED <<lp, timer, urgent>>
  /\ ret' \in Nat /\ ret' <= p - offset /\ lp - offset <= ret'
  /\ ~Urgent(c) => ret' < p - offset
  /\ ~Urgent(c) => (wire' = wire /\ ret' = lp - offset) \/ Grown(offset + ret')
  /\ low' = (low \/ Lowers(c, p - lp)) /\ fake' = (fake \/ Fakes(c, p - lp))
  /\ wire' = wire \/ \E x \in lp..p : Grown(x)

\* A part c to p that it has taken.
Accepted(c, p) ==
  /\ \/ Waits(p, low \/ Lowers(c, p - lp), fake \/ Fakes(c, p - lp))
     \/ GoesOn(p)
  /\ Grown(p)
  /\ urgent' = urgent + IF Urgent(c) THEN 1 ELSE 0

LEMMA SentFacts ==
  ASSUME NEW p, NEW lo, NEW fa, Sent(p, lo, fa)
  PROVE  Waits(p, lo, fa) \/ GoesOn(p)
BY DEF Sent, Leave, Waits, GoesOn

LEMMA SendPartFacts ==
  ASSUME Types, pc = "part", NEW c \in Piece, NEW p \in Nat, lp <= p, p <= Len(buf),
         SendPart(c, p)
  PROVE  /\ spoilt' = spoilt \/ (spoilt' = TRUE /\ Held /\ (lp < p \/ Urgent(c)))
         /\ Accepted(c, p) \/ Refused(c, p)
<1> DEFINE l == p - lp
           lo == low \/ Lowers(c, l)
           fa == fake \/ Fakes(c, l)
           all == l + IF Urgent(c) THEN 1 ELSE 0
<1>1. /\ lp \in Nat /\ offset \in Nat /\ offset <= lp /\ l \in Nat /\ all \in Nat
      /\ spoilt \in BOOLEAN /\ low \in BOOLEAN /\ fake \in BOOLEAN /\ slow \in BOOLEAN
      /\ urgent \in Nat
  BY DEF Types, ConfTypes, DataTypes, BufTypes, CallTypes, FlagTypes, WireTypes, InCall
<1>2. CASE /\ slow /\ all > 0
           /\ Leave(lp, FALSE)
           /\ low' = lo /\ fake' = fa
           /\ UNCHANGED <<lp, wire, urgent, spoilt, timer, busy>>
  <2>1. lp - offset \in Nat /\ lp - offset <= p - offset /\ lp - offset <= lp - offset
    BY <1>1
  <2>2. ~Urgent(c) => lp - offset < p - offset
    BY <1>1, <1>2
  <2>3. Refused(c, p)
    BY <1>2, <2>1, <2>2 DEF Refused, Leave
  <2> QED
    BY <1>2, <2>3
<1>3. ASSUME NEW q \in Takes(all),
             wire' = wire \o Bytes(lp, IF q > l THEN p ELSE lp + q),
             urgent' = urgent + (IF q > l THEN 1 ELSE 0),
             spoilt' = (spoilt \/ (q > 0 /\ (low \/ fake))),
             IF q = all
             THEN Sent(p, lo, fa)
             ELSE /\ Leave(lp + (IF Urgent(c) THEN q - 1 ELSE q), FALSE)
                  /\ low' = lo /\ fake' = fa
                  /\ UNCHANGED <<lp, timer, busy>>
      PROVE  /\ spoilt' = spoilt \/ (spoilt' = TRUE /\ Held /\ (lp < p \/ Urgent(c)))
             /\ Accepted(c, p) \/ Refused(c, p)
  <2>1. spoilt' = spoilt \/ (spoilt' = TRUE /\ Held /\ (lp < p \/ Urgent(c)))
    <3>1. q > 0 => lp < p \/ Urgent(c)
      BY <1>1, <1>3 DEF Takes
    <3> QED
      BY <1>1, <1>3, <3>1 DEF Held
  <2>2. CASE q = all
    <3>1. Sent(p, lo, fa)
      BY <1>3, <2>2
    <3>2. Waits(p, lo, fa) \/ GoesOn(p)
      BY <3>1, SentFacts
    <3>3. (IF q > l THEN p ELSE lp + q) = p
          /\ (IF q > l THEN 1 ELSE 0) = (IF Urgent(c) THEN 1 ELSE 0)
      BY ONLY <1>1, <2>2, p \in Nat
    <3>4. Grown(p) /\ urgent' = urgent + IF Urgent(c) THEN 1 ELSE 0
      BY ONLY <1>3, <3>3 DEF Grown
    <3> QED
      BY ONLY <2>1, <3>2, <3>4 DEF Accepted
  <2>3. CASE q # all
    <3>1. slow /\ q \in 1..all
      BY <1>3, <2>3 DEF Takes
    <3>2. PICK d \in Nat : d = IF Urgent(c) THEN q - 1 ELSE q
      BY <1>1, <3>1
    <3>3. d < l /\ q <= l /\ q \in Nat
      BY <1>1, <2>3, <3>1, <3>2
    <3>4. /\ (lp + d) - offset \in Nat /\ (lp + d) - offset <= p - offset
          /\ (lp + d) - offset < p - offset /\ lp - offset <= (lp + d) - offset
          /\ offset + ((lp + d) - offset) = lp + d
      BY <1>1, <3>3
    <3>5. low' = lo /\ fake' = fa /\ UNCHANGED <<lp, timer>>
      BY <1>3, <2>3
    <3>6. pc' = "return" /\ ret' = (lp + d) - offset /\ wait' = FALSE
      BY <1>3, <2>3, <3>2 DEF Leave
    <3>7. lp + q \in lp..p /\ ~(q > l)
      BY <1>1, <3>3
    <3>8. Grown(lp + q) /\ urgent' = urgent + 0
      BY <1>3, <3>7 DEF Grown
    <3>9. \E x \in lp..p : Grown(x)
      BY <3>7, <3>8
    <3>10. ~Urgent(c) => Grown(offset + ret')
      BY ONLY <3>2, <3>4, <3>6, <3>8
    <3>11. Refused(c, p)
      BY ONLY <3>1, <3>4, <3>5, <3>6, <3>8, <3>9, <3>10, <1>1 DEF Refused
    <3> QED
      BY <2>1, <3>11
  <2> QED
    BY <2>2, <2>3
<1> QED
  BY <1>2, <1>3 DEF SendPart

\* A part at place, c up to p, is passed over, ends the loop, or is sent, now or
\* in an earlier call.
Passes(place) ==
  /\ Passed(curr + 1, place) /\ curr' = curr + 1
  /\ UNCHANGED <<part_sent, wire, urgent, low, fake, spoilt, timer, lp, ret, wait, pc>>

Stops(place) ==
  /\ ~Passed(curr + 1, place) /\ (place < 0 \/ place < lp)
  /\ pc' = "rest"
  /\ UNCHANGED <<part_sent, wire, urgent, low, fake, spoilt, timer, curr, lp, ret, wait>>

Again(p) ==
  /\ curr + 1 = part_skip /\ UNCHANGED <<wire, urgent, spoilt>>
  /\ Waits(p, low, fake) \/ GoesOn(p)

Anew(c, p) ==
  /\ curr + 1 # part_skip
  /\ spoilt' = spoilt \/ (spoilt' = TRUE /\ Held /\ (lp < p \/ Urgent(c)))
  /\ Accepted(c, p) \/ Refused(c, p)

Sends(c, place, p) ==
  /\ ~Passed(curr + 1, place)
  /\ curr' = curr + 1 /\ part_sent' = curr + 1
  /\ lp <= p /\ p <= Len(buf) /\ p <= place /\ (p = place \/ p = Len(buf))
  /\ Again(p) \/ Anew(c, p)

PartKeeps == <<confvars, buffvars, offset, round_sent, cin, rout, fresh, want,
               skip, part_skip, resets>>

LEMMA PartFacts ==
  ASSUME Types, Part
  PROVE  /\ pc = "part" /\ curr + 1 \in 1..Len(parts) /\ UNCHANGED PartKeeps
         /\ \E c \in Piece, place \in Int :
              /\ c = parts[curr + 1] /\ place = Place(c)
              /\ \/ Passes(place)
                 \/ Stops(place)
                 \/ \E p \in Nat : Sends(c, place, p)
<1>1. /\ pc = "part" /\ lp \in Nat /\ lp <= Len(buf) /\ Len(buf) \in Nat /\ host \in Nat
      /\ parts \in Seq(Piece) /\ curr \in Nat
  BY LenProperties DEF Types, ConfTypes, DataTypes, BufTypes, CallTypes, Part, InCall
<1>2. curr + 1 \in 1..Len(parts)
  BY <1>1 DEF Part
<1>3. PICK c \in Piece : c = parts[curr + 1]
  BY <1>1, <1>2, ElementOfSeq
<1>4. PICK place \in Int : place = Place(c)
  <2>1. gen_offset(c, n, host) \in Int
    BY <1>1, PlaceInt DEF n
  <2>2. c.s * c.k \in Int
    BY DEF Piece
  <2> QED
    BY <2>1, <2>2 DEF Place
<1>5. UNCHANGED PartKeeps
  BY DEF Part, PartKeeps
<1>6. n = Len(buf)
  BY DEF n
<1>7. PICK p : p = IF place > n THEN n ELSE place
  OBVIOUS
<1>8. \/ /\ Passed(curr + 1, place)
         /\ curr' = curr + 1
         /\ UNCHANGED <<part_sent, kernvars, timer, lp, ret, wait, pc>>
      \/ /\ ~Passed(curr + 1, place)
         /\ place < 0 \/ place < lp
         /\ pc' = "rest"
         /\ UNCHANGED <<part_sent, kernvars, timer, curr, lp, ret, wait>>
      \/ /\ ~Passed(curr + 1, place)
         /\ place >= 0 /\ place >= lp
         /\ curr' = curr + 1
         /\ part_sent' = curr + 1
         /\ IF curr + 1 = part_skip
            THEN Sent(p, low, fake) /\ UNCHANGED <<wire, urgent, spoilt>>
            ELSE SendPart(c, p)
  BY <1>3, <1>4, <1>7 DEF Part
<1>9. ASSUME ~Passed(curr + 1, place),
             place >= 0 /\ place >= lp,
             curr' = curr + 1,
             part_sent' = curr + 1,
             IF curr + 1 = part_skip
             THEN Sent(p, low, fake) /\ UNCHANGED <<wire, urgent, spoilt>>
             ELSE SendPart(c, p)
      PROVE  \E x \in Nat : Sends(c, place, x)
  <2>1. /\ p \in Nat /\ lp <= p /\ p <= Len(buf) /\ p <= place
        /\ p = place \/ p = Len(buf)
    BY ONLY <1>1, <1>4, <1>6, <1>7, <1>9, place \in Int
  <2>2. CASE curr + 1 = part_skip
    <3>1. Again(p)
      BY <1>9, <2>2, SentFacts DEF Again
    <3>2. Sends(c, place, p)
      BY <1>9, <2>1, <3>1 DEF Sends
    <3> QED
      BY <2>1, <3>2
  <2>3. CASE curr + 1 # part_skip
    <3>1. SendPart(c, p)
      BY <1>9, <2>3
    <3>2. Anew(c, p)
      BY <1>1, <2>1, <2>3, <3>1, SendPartFacts DEF Anew
    <3>3. Sends(c, place, p)
      BY <1>9, <2>1, <3>2 DEF Sends
    <3> QED
      BY <2>1, <3>3
  <2> QED
    BY <2>2, <2>3
<1>10. Passes(place) \/ Stops(place) \/ \E x \in Nat : Sends(c, place, x)
  BY <1>8, <1>9 DEF Passes, Stops, kernvars
<1> QED
  BY <1>1, <1>2, <1>3, <1>4, <1>5, <1>10

-----------------------------------------------------------------------------
(* Types                                                                   *)

LEMMA InitTypes ==
  ASSUME Init
  PROVE  Types
<1> USE DesyncAssumption
<1>1. PICK dp \in Settings : parts = WrittenOut(dp.parts) /\ tlsrec = WrittenOut(dp.tlsrec)
  BY DEF Init
<1>2. dp.parts \in Seq(Parts) /\ dp.tlsrec \in Seq(Parts)
  OBVIOUS
<1>3. parts \in Seq(Piece) /\ tlsrec \in Seq(Piece)
  BY <1>1, <1>2, PartsTyped
<1>4. Len(parts) \in Nat
  BY <1>3, LenProperties
<1>5. wait_send \in BOOLEAN /\ slow \in BOOLEAN
  BY DEF Init
<1>6. buf \in Seq(Item) /\ Len(buf) = 0
  BY DEF Init
<1>7. Most \in Nat
  BY DEF Most
<1>8. /\ taken = 0 /\ round = 0 /\ base = 0 /\ offset = 0 /\ host = 0 /\ hello = 0
      /\ round_sent = 0 /\ part_sent = 0 /\ answered = FALSE
      /\ low = FALSE /\ fake = FALSE /\ spoilt = FALSE
      /\ timer = FALSE /\ cin = TRUE /\ rout = FALSE /\ pc = "idle"
      /\ fresh = FALSE /\ skip = 0 /\ part_skip = 0 /\ curr = 0 /\ lp = 0
      /\ ret = 0 /\ wait = FALSE /\ resets = 0
  BY DEF Init
<1>9. BufSize \in Nat
  OBVIOUS
<1>10. ConfTypes
  BY ONLY <1>3, <1>5 DEF ConfTypes
<1>11. DataTypes
  BY ONLY <1>4, <1>7, <1>8 DEF DataTypes
<1>12. BufTypes
  BY ONLY <1>6, <1>8, <1>9 DEF BufTypes
<1>13. CallTypes
  BY ONLY <1>4, <1>8 DEF CallTypes, InCall
<1>14. FlagTypes
  BY ONLY <1>8 DEF FlagTypes
<1>15. WireTypes
  BY DEF Init, WireTypes
<1> QED
  BY ONLY <1>10, <1>11, <1>12, <1>13, <1>14, <1>15 DEF Types

\* The lengths and bounds the types speak of are numbers.
LEMMA LengthFacts ==
  ASSUME Types
  PROVE  Len(buf) \in Nat /\ Len(parts) \in Nat /\ BufSize \in Nat /\ Most \in Nat
<1>1. buf \in Seq(Item) /\ parts \in Seq(Piece)
  BY DEF Types, BufTypes, ConfTypes
<1>2. Len(buf) \in Nat /\ Len(parts) \in Nat
  BY <1>1, LenProperties
<1> QED
  BY <1>2, DesyncAssumption DEF Most

\* What a step of desync that leaves the data alone has to keep.
LEMMA CallStep ==
  ASSUME Types, pc \in InCall,
         UNCHANGED <<parts, tlsrec, wait_send, slow, taken, base, round, hello, host, buf,
                     offset, round_sent, skip, part_skip, resets, cin, rout, answered, fresh>>,
         curr' \in 0..Len(parts), part_sent' \in 0..Len(parts),
         lp' \in Nat, offset <= lp', lp' <= Len(buf), ret' \in Nat,
         pc' \in InCall, pc' = "return" => ret' <= Len(buf) - offset,
         low' \in BOOLEAN, fake' \in BOOLEAN, spoilt' \in BOOLEAN,
         timer' \in BOOLEAN, wait' \in BOOLEAN, WireTypes'
  PROVE  Types'
<1>1. ConfTypes'
  BY DEF Types, ConfTypes
<1>2. DataTypes'
  BY DEF Types, DataTypes, Most
<1>3. BufTypes'
  BY DEF Types, BufTypes
<1>4. CallTypes'
  BY DEF Types, CallTypes, InCall
<1>5. FlagTypes'
  BY DEF Types, FlagTypes
<1>6. WireTypes'
  OBVIOUS
<1> QED
  BY ONLY <1>1, <1>2, <1>3, <1>4, <1>5, <1>6 DEF Types

\* The kernel takes some of the buffer.
LEMMA BytesTyped ==
  ASSUME Types, NEW a \in Nat, NEW b \in Nat, a <= b, b <= Len(buf)
  PROVE  /\ Bytes(a, b) \in Seq(Item) /\ Len(Bytes(a, b)) = b - a
         /\ \A i \in 1..(b - a) : Bytes(a, b)[i] = buf[a + i]
         /\ wire \o Bytes(a, b) \in Seq(Item)
<1>1. buf \in Seq(Item) /\ Len(buf) \in Nat /\ wire \in Seq(Item)
  BY LengthFacts DEF Types, BufTypes, WireTypes
<1>2. PICK from \in Nat : from = a + 1
  OBVIOUS
<1>3. from \in 1..(Len(buf) + 1) /\ b \in (from - 1)..Len(buf)
  BY <1>1, <1>2
<1>4. /\ SubSeq(buf, from, b) \in Seq(Item)
      /\ Len(SubSeq(buf, from, b)) = IF from <= b THEN b - from + 1 ELSE 0
      /\ \A i \in 1..(b - from + 1) : SubSeq(buf, from, b)[i] = buf[from + i - 1]
  BY <1>1, <1>3, SubSeqProperties
<1>5. (IF from <= b THEN b - from + 1 ELSE 0) = b - a /\ b - from + 1 = b - a
  BY <1>2
<1>6. \A i \in 1..(b - a) : from + i - 1 = a + i
  BY <1>2
<1>7. /\ Bytes(a, b) \in Seq(Item) /\ Len(Bytes(a, b)) = b - a
      /\ \A i \in 1..(b - a) : Bytes(a, b)[i] = buf[a + i]
  BY ONLY <1>2, <1>4, <1>5, <1>6 DEF Bytes
<1>8. wire \o Bytes(a, b) \in Seq(Item)
  BY <1>1, <1>7, ConcatProperties
<1> QED
  BY <1>7, <1>8

LEMMA PartTypes ==
  ASSUME Types, Part
  PROVE  Types'
<1>1. pc = "part" /\ curr + 1 \in 1..Len(parts) /\ UNCHANGED PartKeeps
  BY PartFacts
<1>2. PICK c \in Piece, place \in Int :
        /\ c = parts[curr + 1] /\ place = Place(c)
        /\ Passes(place) \/ Stops(place) \/ \E p \in Nat : Sends(c, place, p)
  BY PartFacts
<1>3. /\ lp \in Nat /\ offset \in Nat /\ offset <= lp /\ lp <= Len(buf)
      /\ ret \in Nat /\ curr \in Nat
      /\ part_sent \in 0..Len(parts) /\ curr \in 0..Len(parts)
  BY <1>1 DEF Types, DataTypes, BufTypes, CallTypes, InCall
<1>4. Len(buf) \in Nat /\ Len(parts) \in Nat
  BY LengthFacts
<1>5. /\ low \in BOOLEAN /\ fake \in BOOLEAN /\ spoilt \in BOOLEAN
      /\ timer \in BOOLEAN /\ wait \in BOOLEAN
  BY DEF Types, FlagTypes
<1> DEFINE Numbers ==
             /\ curr' \in 0..Len(parts) /\ part_sent' \in 0..Len(parts)
             /\ lp' \in Nat /\ offset <= lp' /\ lp' <= Len(buf)
             /\ ret' \in Nat /\ pc' \in {"part", "rest", "return"}
             /\ pc' = "return" => ret' <= Len(buf) - offset
           Flags ==
             /\ low' \in BOOLEAN /\ fake' \in BOOLEAN /\ spoilt' \in BOOLEAN
             /\ timer' \in BOOLEAN /\ wait' \in BOOLEAN
<1>6. Passes(place) => Numbers /\ Flags
  <2>1. Passes(place) => Numbers
    BY ONLY <1>1, <1>3, <1>4 DEF Passes
  <2>2. Passes(place) => Flags
    BY ONLY <1>5 DEF Passes
  <2> QED
    BY ONLY <2>1, <2>2
<1>7. Stops(place) => Numbers /\ Flags
  <2>1. Stops(place) => Numbers
    BY ONLY <1>1, <1>3, <1>4 DEF Stops
  <2>2. Stops(place) => Flags
    BY ONLY <1>5 DEF Stops
  <2> QED
    BY ONLY <2>1, <2>2
<1>8. ASSUME NEW p \in Nat, Sends(c, place, p) PROVE Numbers /\ Flags
  <2>1. /\ curr' = curr + 1 /\ part_sent' = curr + 1 /\ lp <= p /\ p <= Len(buf)
        /\ Again(p) \/ Anew(c, p)
    BY <1>8 DEF Sends
  <2>2. /\ p - offset \in Nat /\ p - offset <= Len(buf) - offset /\ offset <= p
        /\ curr + 1 \in 0..Len(parts)
    BY <1>1, <1>3, <1>4, <2>1
  <2>3. spoilt' \in BOOLEAN
    BY <1>5, <2>1 DEF Again, Anew
  <2>4. \/ GoesOn(p)
        \/ \E lo, fa \in BOOLEAN : Waits(p, lo, fa)
        \/ Refused(c, p)
    BY <1>5, <2>1 DEF Again, Anew, Accepted
  <2>5. CASE GoesOn(p)
    <3>1. Numbers
      BY ONLY <1>1, <1>3, <2>1, <2>2, <2>5, p \in Nat DEF GoesOn
    <3>2. Flags
      BY ONLY <1>5, <2>3, <2>5 DEF GoesOn
    <3> QED
      BY ONLY <3>1, <3>2
  <2>6. CASE \E lo, fa \in BOOLEAN : Waits(p, lo, fa)
    <3>1. Numbers
      BY ONLY <1>1, <1>3, <2>1, <2>2, <2>6 DEF Waits
    <3>2. Flags
      BY ONLY <2>3, <2>6 DEF Waits
    <3> QED
      BY ONLY <3>1, <3>2
  <2>7. CASE Refused(c, p)
    <3>1. pc' = "return" /\ lp' = lp /\ ret' \in Nat /\ ret' <= p - offset
      BY ONLY <2>7 DEF Refused
    <3>2. ret' <= Len(buf) - offset
      BY ONLY <1>3, <1>4, <2>2, <3>1
    <3>3. Numbers
      BY ONLY <1>3, <2>1, <2>2, <3>1, <3>2
    <3>4. Flags
      BY ONLY <1>5, <2>3, <2>7 DEF Refused
    <3> QED
      BY ONLY <3>3, <3>4
  <2> QED
    BY ONLY <2>4, <2>5, <2>6, <2>7
<1>9. Numbers /\ Flags
  <2> HIDE DEF Numbers, Flags
  <2> QED
    BY ONLY <1>2, <1>6, <1>7, <1>8
<1>10. UNCHANGED <<parts, tlsrec, wait_send, slow, taken, base, round, hello, host, buf,
                   offset, round_sent, skip, part_skip, resets, cin, rout, answered, fresh>>
  BY <1>1 DEF PartKeeps, confvars, buffvars
<1>13. WireTypes'
  <2>1. wire \in Seq(Item) /\ urgent \in Nat
    BY DEF Types, WireTypes
  <2>2. CASE UNCHANGED <<wire, urgent>>
    BY <2>1, <2>2 DEF WireTypes
  <2>3. ASSUME NEW p \in Nat, Sends(c, place, p) PROVE WireTypes'
    <3>1. lp <= p /\ p <= Len(buf) /\ (Again(p) \/ Accepted(c, p) \/ Refused(c, p))
      BY <2>3 DEF Sends, Anew
    <3>2. ASSUME NEW x \in lp..p, Grown(x) PROVE wire' \in Seq(Item)
      <4>1. x \in Nat /\ lp <= x /\ x <= Len(buf)
        BY <1>3, <1>4, <3>1
      <4> QED
        BY <1>3, <3>2, <4>1, BytesTyped DEF Grown
    <3>3. Again(p) => WireTypes'
      BY <2>2 DEF Again
    <3>4. Accepted(c, p) => WireTypes'
      <4>1. p \in lp..p
        BY <1>3, <3>1
      <4> QED
        BY <2>1, <3>2, <4>1 DEF Accepted, WireTypes
    <3>5. Refused(c, p) => WireTypes'
      BY <2>1, <3>2 DEF Refused, WireTypes
    <3> QED
      BY ONLY <3>1, <3>3, <3>4, <3>5
  <2> QED
    BY <1>2, <2>2, <2>3 DEF Passes, Stops
<1>11. pc \in InCall /\ pc' \in InCall
  BY <1>1, <1>9 DEF InCall
<1>12. Types
  OBVIOUS
<1> QED
  BY ONLY <1>9, <1>10, <1>11, <1>12, <1>13, CallStep

LEMMA SendTypes ==
  ASSUME Types, Rest \/ Plain
  PROVE  Types'
<1>1. pc \in InCall /\ pc' = "return"
  BY DEF Rest, Plain, InCall, Leave
<1>2. /\ UNCHANGED <<parts, tlsrec, wait_send, slow, taken, base, round, hello, host, buf,
                     offset, round_sent, skip, part_skip, resets, cin, rout, answered, fresh>>
      /\ UNCHANGED <<part_sent, curr, lp, low, fake, timer>>
  <2>1. CASE Rest
    BY <2>1 DEF Rest, confvars, buffvars, pollvars
  <2>2. CASE Plain
    BY <2>2 DEF Plain, confvars, buffvars, pollvars
  <2> QED
    BY <2>1, <2>2
<1>3. /\ lp \in Nat /\ offset \in Nat /\ offset <= lp /\ lp <= Len(buf)
      /\ part_sent \in 0..Len(parts) /\ curr \in 0..Len(parts)
  BY <1>1 DEF Types, DataTypes, BufTypes, CallTypes
<1>4. Len(buf) \in Nat
  BY LengthFacts
<1>5. slow \in BOOLEAN /\ spoilt \in BOOLEAN /\ low \in BOOLEAN /\ fake \in BOOLEAN
      /\ timer \in BOOLEAN
  BY DEF Types, ConfTypes, FlagTypes
<1>6. spoilt' \in BOOLEAN /\ wait' \in BOOLEAN
  <2>1. CASE Rest
    BY <1>5, <2>1 DEF Rest, Leave
  <2>2. CASE Plain
    BY <1>5, <2>2 DEF Plain, Leave
  <2> QED
    BY <2>1, <2>2
<1>7. ret' \in Nat /\ ret' <= Len(buf) - offset
  <2>1. Len(buf) - offset \in Nat /\ lp - offset \in Nat /\ lp - offset <= Len(buf) - offset
    BY ONLY <1>3, <1>4
  <2>2. CASE Rest
    <3>1. ret' = Len(buf) - offset \/ ret' = lp - offset
      BY <2>2 DEF Rest, Leave, n
    <3> QED
      BY ONLY <2>1, <3>1
  <2>3. CASE Plain
    <3>1. \A q \in Takes(Len(buf) - offset) :
            q \in Nat /\ q <= Len(buf) - offset /\ (offset + q) - offset = q
      BY ONLY <1>3, <2>1 DEF Takes
    <3>2. \/ ret' = offset - offset
          \/ \E q \in Takes(Len(buf) - offset) : ret' = (offset + q) - offset
      BY <2>3 DEF Plain, Leave, n
    <3> QED
      BY ONLY <1>3, <1>4, <2>1, <3>1, <3>2
  <2> QED
    BY <2>2, <2>3
<1>8. /\ curr' \in 0..Len(parts) /\ part_sent' \in 0..Len(parts)
      /\ lp' \in Nat /\ offset <= lp' /\ lp' <= Len(buf)
      /\ low' \in BOOLEAN /\ fake' \in BOOLEAN /\ timer' \in BOOLEAN
  BY ONLY <1>2, <1>3, <1>5
<1>9. pc' \in InCall
  BY <1>1 DEF InCall
<1>10. Types
  OBVIOUS
<1>11. WireTypes'
  <2>1. wire \in Seq(Item) /\ urgent \in Nat
    BY DEF Types, WireTypes
  <2>2. PICK from \in {lp, offset} :
          \/ wire' = wire
          \/ \E q \in Takes(IF from < Len(buf) THEN Len(buf) - from ELSE 0) :
               wire' = wire \o Bytes(from, from + q)
    <3>1. CASE Rest
      BY <3>1 DEF Rest, n
    <3>2. CASE Plain
      <4>1. offset <= Len(buf)
        BY DEF Types, BufTypes
      <4>2. (IF offset < Len(buf) THEN Len(buf) - offset ELSE 0) = Len(buf) - offset
        BY <1>3, <1>4, <4>1
      <4> QED
        BY <3>2, <4>2 DEF Plain, n
    <3> QED
      BY <3>1, <3>2
  <2>3. urgent' = urgent
    BY DEF Rest, Plain
  <2>4. from \in Nat /\ from <= Len(buf)
    BY <1>3, <1>4
  <2>5. \A q \in Takes(IF from < Len(buf) THEN Len(buf) - from ELSE 0) :
          from + q \in Nat /\ from <= from + q /\ from + q <= Len(buf)
    BY <1>4, <1>5, <2>4 DEF Takes
  <2>6. wire' \in Seq(Item)
    BY <2>1, <2>2, <2>4, <2>5, BytesTyped
  <2> QED
    BY <2>1, <2>3, <2>6 DEF WireTypes
<1> QED
  BY ONLY <1>1, <1>2, <1>6, <1>7, <1>8, <1>9, <1>10, <1>11, CallStep

LEMMA ReturnTypes ==
  ASSUME Types, Return
  PROVE  Types'
<1>1. pc = "return" /\ round_sent' = round_sent + ret
  BY DEF Return
<1>2. UNCHANGED <<parts, tlsrec, wait_send, slow, taken, base, round, hello, host,
                  part_sent, resets, wire, urgent, low, fake, spoilt, timer, answered>>
  BY DEF Return, confvars, kernvars
<1>3. /\ fresh' = FALSE /\ skip' = 0 /\ part_skip' = 0 /\ curr' = 0 /\ lp' = 0
      /\ ret' = 0 /\ wait' = FALSE
  BY DEF Return
<1>4. /\ offset \in Nat /\ ret \in Nat /\ ret <= Len(buf) - offset
      /\ buf \in Seq(Item) /\ Len(buf) <= BufSize
  BY <1>1 DEF Types, BufTypes, CallTypes
<1>5. Len(buf) \in Nat /\ Len(parts) \in Nat /\ BufSize \in Nat
  BY LengthFacts
<1>6. cin \in BOOLEAN /\ rout \in BOOLEAN /\ wait \in BOOLEAN
  BY DEF Types, FlagTypes
<1>7. /\ buf' \in Seq(Item) /\ Len(buf') <= BufSize
      /\ offset' \in Nat /\ offset' <= Len(buf')
      /\ pc' = "pending" \/ (pc' = "idle" /\ offset' = 0)
      /\ cin' \in BOOLEAN /\ rout' \in BOOLEAN
  <2>1. CASE ret < (IF fresh THEN n ELSE want) \/ wait
    <3>1. /\ offset' = Onward(ret) /\ pc' = "pending" /\ buf' = buf
          /\ IF fresh THEN Masks ELSE UNCHANGED <<cin, rout>>
      BY <2>1 DEF Return
    <3>2. cin' \in BOOLEAN /\ rout' \in BOOLEAN
      BY ONLY <1>6, <3>1 DEF Masks
    <3>3. offset' \in Nat /\ offset' <= Len(buf')
      BY ONLY <1>4, <1>5, <3>1 DEF Onward
    <3> QED
      BY ONLY <1>4, <3>1, <3>2, <3>3
  <2>2. CASE ~(ret < (IF fresh THEN n ELSE want) \/ wait)
    <3>1. /\ offset' = 0 /\ pc' = "idle" /\ buf' = <<>>
          /\ IF fresh THEN UNCHANGED <<cin, rout>> ELSE cin' = TRUE /\ rout' = FALSE
      BY <2>2 DEF Return
    <3>2. Len(<<>>) = 0 /\ <<>> \in Seq(Item)
      OBVIOUS
    <3>3. cin' \in BOOLEAN /\ rout' \in BOOLEAN
      BY ONLY <1>6, <3>1
    <3>4. Len(buf') = 0 /\ buf' \in Seq(Item)
      BY ONLY <3>1, <3>2
    <3> QED
      BY ONLY <1>5, <3>1, <3>3, <3>4
  <2> QED
    BY ONLY <2>1, <2>2
<1>8. ConfTypes'
  BY <1>2 DEF Types, ConfTypes
<1>9. DataTypes'
  BY <1>1, <1>2, <1>4 DEF Types, DataTypes, Most
<1>10. BufTypes'
  BY ONLY <1>7 DEF BufTypes
<1>11. CallTypes'
  BY ONLY <1>2, <1>3, <1>5, <1>7 DEF CallTypes, InCall
<1>12. FlagTypes'
  BY <1>2, <1>3, <1>7 DEF Types, FlagTypes
<1>13. WireTypes'
  BY <1>2 DEF Types, WireTypes
<1> QED
  BY ONLY <1>8, <1>9, <1>10, <1>11, <1>12, <1>13 DEF Types

LEMMA EnterTypes ==
  ASSUME Types, NEW r, NEW rs \in Nat, NEW ps \in 0..Len(parts), NEW b \in Seq(Item),
         NEW off \in Nat, NEW isnew \in BOOLEAN, off <= Len(b), Len(b) <= BufSize,
         Enter(r, rs, ps, b, off, isnew), offset' = off, UNCHANGED confvars,
         DataTypes', UNCHANGED <<wire, urgent, low, fake, spoilt>>,
         timer' \in BOOLEAN, cin' \in BOOLEAN, rout' \in BOOLEAN, answered' \in BOOLEAN
  PROVE  Types'
<1>1. host' \in Nat
  BY DEF DataTypes
<1>2. /\ pc' = IF r \in Rounds THEN "part" ELSE "plain"
      /\ buf' \in Seq(Item) /\ Len(b) \in Nat /\ Len(buf') \in Nat
      /\ Len(b) <= Len(buf') /\ Len(buf') <= BufSize
      /\ (r \in Rounds => rs # 0 \/ tlsrec = <<>>) => buf' = b
      /\ skip' = rs /\ part_skip' = ps /\ curr' = 0 /\ lp' = off
      /\ fresh' = isnew /\ wait' = FALSE /\ ret' = ret
  <2>1. Types /\ Enter(r, rs, ps, b, off, isnew) /\ Len(b) <= BufSize
    OBVIOUS
  <2> QED
    BY ONLY <1>1, <2>1, EnterFacts, Zenon, rs \in Nat, b \in Seq(Item), off \in Nat, isnew \in BOOLEAN
<1>3. UNCHANGED <<parts, tlsrec, wait_send, slow>>
  BY DEF confvars
<1>4. ret \in Nat /\ Len(parts) \in Nat
  BY LengthFacts DEF Types, CallTypes
<1>5. off <= Len(buf')
  BY <1>2
<1>6. ConfTypes'
  BY <1>3 DEF Types, ConfTypes
<1>7. BufTypes'
  BY <1>2, <1>5 DEF BufTypes
<1>8. CallTypes'
  <2>1. skip' \in Nat /\ part_skip' \in 0..Len(parts') /\ curr' \in 0..Len(parts')
    BY <1>2, <1>3, <1>4
  <2>2. pc' \in InCall /\ pc' # "return" /\ ~(pc' \in {"idle", "connect"})
    BY <1>2 DEF InCall
  <2>3. lp' \in Nat /\ ret' \in Nat /\ offset' <= lp' /\ lp' <= Len(buf')
    BY <1>2, <1>4, <1>5
  <2> QED
    BY ONLY <2>1, <2>2, <2>3 DEF CallTypes
<1>9. FlagTypes'
  BY <1>2 DEF Types, FlagTypes
<1>10. DataTypes' /\ WireTypes'
  BY DEF Types, WireTypes
<1> QED
  BY ONLY <1>6, <1>7, <1>8, <1>9, <1>10 DEF Types

LEMMA RecvTypes ==
  ASSUME Types, NEW l \in Lengths, NEW h \in Hosts, NEW m \in Missing, Recv(l, h, m)
  PROVE  Types'
<1> USE DesyncAssumption
<1>1. l \in Nat /\ l > 0 /\ l <= BufSize /\ h \in Nat /\ m \in Nat /\ BufSize \in Nat
  OBVIOUS
<1>2. /\ taken' = taken + l /\ base' = taken /\ offset' = 0 /\ host' = h
      /\ hello' \in {0, l - 1 + m, hello} /\ taken + l <= Most
      /\ UNCHANGED <<round_sent, part_sent, wire, urgent, low, fake, spoilt, timer, cin, rout,
                     resets>>
      /\ UNCHANGED confvars
  BY DEF Recv, kernvars, pollvars
<1>3. /\ taken \in Nat /\ round \in Nat /\ hello \in Nat /\ round_sent \in Nat
      /\ part_sent \in 0..Len(parts) /\ resets \in Nat
  BY DEF Types, DataTypes
<1>4. timer \in BOOLEAN /\ cin \in BOOLEAN /\ rout \in BOOLEAN /\ answered \in BOOLEAN
  BY DEF Types, FlagTypes
<1>5. \/ round' = round + 1 /\ answered' = FALSE
      \/ UNCHANGED <<round, answered>>
  BY DEF Recv
<1>6. taken' \in Nat /\ taken <= taken' /\ hello' \in Nat /\ round' \in Nat
  BY <1>1, <1>2, <1>3, <1>5
<1>7. answered' \in BOOLEAN
  BY ONLY <1>4, <1>5
<1>8. Most' = Most /\ parts' = parts
  BY <1>2 DEF Most, confvars
<1>9. DataTypes'
  BY ONLY <1>1, <1>2, <1>3, <1>6, <1>8 DEF DataTypes
<1> DEFINE b == Stream(taken, taken', hello')
<1>10. b \in Seq(Item) /\ Len(b) = taken' - taken
  BY <1>3, <1>6, StreamTyped
<1>11. Enter(round', round_sent, part_sent, b, 0, TRUE)
  BY DEF Recv
<1> HIDE DEF b
<1>12. Len(b) \in Nat /\ 0 <= Len(b) /\ Len(b) <= BufSize
  BY ONLY <1>1, <1>2, <1>3, <1>10
<1>13. timer' \in BOOLEAN /\ cin' \in BOOLEAN /\ rout' \in BOOLEAN
  BY ONLY <1>2, <1>4
<1>14. Types /\ 0 \in Nat /\ TRUE \in BOOLEAN
  OBVIOUS
<1> QED
  BY ONLY <1>2, <1>3, <1>7, <1>9, <1>10, <1>11, <1>12, <1>13, <1>14, EnterTypes

LEMMA ReEnterTypes ==
  ASSUME Types, Resume \/ on_connect
  PROVE  Types'
<1>1. /\ Enter(round, round_sent, part_sent, buf, offset, FALSE)
      /\ UNCHANGED <<taken, round, base, host, hello, answered, offset, round_sent, part_sent,
                     wire, urgent, low, fake, spoilt, resets>>
      /\ UNCHANGED confvars
  BY DEF Resume, on_connect, kernvars
<1>2. /\ round_sent \in Nat /\ part_sent \in 0..Len(parts) /\ buf \in Seq(Item)
      /\ offset \in Nat /\ offset <= Len(buf) /\ Len(buf) <= BufSize
  BY DEF Types, DataTypes, BufTypes
<1>3. timer \in BOOLEAN /\ cin \in BOOLEAN /\ rout \in BOOLEAN /\ answered \in BOOLEAN
  BY DEF Types, FlagTypes
<1>4. timer' \in BOOLEAN /\ cin' \in BOOLEAN /\ rout' \in BOOLEAN /\ answered' \in BOOLEAN
  <2>1. CASE Resume
    BY <1>3, <2>1 DEF Resume, Wakes
  <2>2. CASE on_connect
    BY <1>3, <2>2 DEF on_connect
  <2> QED
    BY <2>1, <2>2
<1>5. DataTypes'
  BY <1>1 DEF Types, DataTypes, Most, confvars
<1>6. Types /\ FALSE \in BOOLEAN
  OBVIOUS
<1> QED
  BY ONLY <1>1, <1>2, <1>4, <1>5, <1>6, EnterTypes

LEMMA ReconnectTypes ==
  ASSUME Types, reconnect
  PROVE  Types'
<1> USE DesyncAssumption
<1>1. /\ base' = 0 /\ offset' = 0 /\ round_sent' = 0 /\ part_sent' = 0
      /\ resets' = resets + 1 /\ host' \in Hosts \cup {host}
      /\ buf' = Stream(0, taken, hello) /\ taken < BufSize /\ pc' = "connect"
      /\ UNCHANGED <<taken, round, hello>>
      /\ UNCHANGED confvars /\ UNCHANGED callvars
  BY DEF reconnect
<1>2. /\ taken \in Nat /\ host \in Nat /\ resets \in Nat /\ hello \in Nat /\ round \in Nat
      /\ taken <= Most
  BY DEF Types, DataTypes
<1>3. Len(parts) \in Nat /\ BufSize \in Nat
  BY LengthFacts
<1>4. buf' \in Seq(Item) /\ Len(buf') = taken
  <2>1. Stream(0, taken, hello) \in Seq(Item) /\ Len(Stream(0, taken, hello)) = taken - 0
    <3>1. 0 \in Nat /\ 0 <= taken
      BY <1>2
    <3> QED
      BY ONLY <1>2, <3>1, StreamTyped
  <2> QED
    BY <1>1, <1>2, <2>1
<1>5. parts' = parts /\ Most' = Most
  BY <1>1 DEF confvars, Most
<1>6. host' \in Nat
  BY <1>1, <1>2
<1>7. ConfTypes'
  BY <1>1 DEF Types, ConfTypes, confvars
<1>8. DataTypes'
  BY ONLY <1>1, <1>2, <1>3, <1>5, <1>6 DEF DataTypes
<1>9. BufTypes'
  BY ONLY <1>1, <1>2, <1>3, <1>4 DEF BufTypes
<1>10. CallTypes'
  BY <1>1, <1>5 DEF Types, CallTypes, InCall, callvars
<1>11. FlagTypes'
  BY DEF Types, FlagTypes, reconnect, callvars
<1>12. WireTypes'
  BY DEF reconnect, WireTypes
<1> QED
  BY ONLY <1>7, <1>8, <1>9, <1>10, <1>11, <1>12 DEF Types

\* Nothing but flags and counters changes.
LEMMA QuietTypes ==
  ASSUME Types, PartsEnd \/ Answer \/ Expire \/ UNCHANGED vars
  PROVE  Types'
<1>1. /\ UNCHANGED <<parts, tlsrec, wait_send, slow, taken, base, round, hello, host, resets,
                     buf, offset, skip, part_skip, curr, lp, ret, wire, urgent, low, fake,
                     spoilt, cin, rout, wait, fresh>>
      /\ \/ pc' = pc
         \/ pc = "part" /\ pc' = "rest"
         \/ pc' = "closed"
      /\ UNCHANGED <<round_sent, part_sent>> \/ (round_sent' = 0 /\ part_sent' = 0)
      /\ timer' = timer \/ timer' = FALSE
      /\ answered' = answered \/ answered' = TRUE
  <2>1. CASE PartsEnd
    BY <2>1 DEF PartsEnd, confvars, buffvars, kernvars, pollvars, callvars
  <2>2. CASE Answer
    BY <2>2 DEF Answer, confvars, buffvars, kernvars, pollvars, callvars
  <2>3. CASE Expire
    BY <2>3 DEF Expire, confvars, buffvars, kernvars, pollvars, callvars
  <2>4. CASE UNCHANGED vars
    BY <2>4 DEF vars, confvars, buffvars, kernvars, pollvars, callvars
  <2> QED
    BY <2>1, <2>2, <2>3, <2>4
<1>2. Len(parts) \in Nat
  BY LengthFacts
<1>3. ConfTypes'
  BY <1>1 DEF Types, ConfTypes
<1>4. DataTypes'
  BY <1>1, <1>2 DEF Types, DataTypes, Most
<1>5. BufTypes'
  BY <1>1 DEF Types, BufTypes
<1>6. CallTypes'
  BY <1>1 DEF Types, CallTypes, InCall
<1>7. FlagTypes'
  BY <1>1 DEF Types, FlagTypes
<1>8. WireTypes'
  BY <1>1 DEF Types, WireTypes
<1> QED
  BY ONLY <1>3, <1>4, <1>5, <1>6, <1>7, <1>8 DEF Types

LEMMA StepTypes ==
  ASSUME Types, [Next]_vars
  PROVE  Types'
BY PartTypes, SendTypes, ReturnTypes, RecvTypes, ReEnterTypes, ReconnectTypes, QuietTypes
   DEF Next, Call

\* However sends are cut, refused, waited for and begun again, the positions desync
\* works with stay within the buffer, and the buffer within its size.
THEOREM DesyncTypes == Spec => []TypeOK
<1>1. Init => Types
  BY InitTypes
<1>2. Types /\ [Next]_vars => Types'
  BY StepTypes
<1>3. Types => TypeOK
  <2> SUFFICES ASSUME Types PROVE TypeOK
    OBVIOUS
  <2>1. Len(buf) \in Nat /\ Len(parts) \in Nat /\ BufSize \in Nat /\ Most \in Nat
    BY LengthFacts
  <2>2. taken \in 0..Most /\ base \in 0..taken /\ part_sent \in 0..Len(parts)
    BY <2>1 DEF Types, DataTypes
  <2>3. n \in 0..BufSize /\ offset \in 0..n
    BY <2>1 DEF Types, BufTypes, n
  <2>4. /\ pc \in {"idle", "pending", "part", "rest", "plain", "return", "connect", "closed"}
        /\ pc \in {"part", "rest", "return"} => lp \in offset..n
        /\ pc = "return" => ret \in 0..(n - offset)
    BY <2>1, <2>3 DEF Types, CallTypes, InCall, n
  <2>5. {low, fake, spoilt, timer, cin, rout, wait, answered, fresh} \subseteq BOOLEAN
    BY DEF Types, FlagTypes
  <2> QED
    BY <2>2, <2>3, <2>4, <2>5 DEF TypeOK
<1> QED
  BY <1>1, <1>2, <1>3, PTL DEF Spec

-----------------------------------------------------------------------------
(* The timer of a wait                                                     *)

\* The parts of TimerInv, for a state it speaks of.
OnlyTimer ==
  /\ timer => pc = "pending" \/ (pc = "return" /\ wait)
  /\ pc = "pending" => ~cin /\ ~rout
  /\ pc # "connect"

CallMasks ==
  pc \in InCall =>
    /\ IF fresh THEN offset = 0 ELSE ~cin /\ ~rout
    /\ want \in Int /\ want <= Len(buf) - offset

AllSent == pc = "return" /\ ~wait => ret = Len(buf) - offset

LEMMA TimerParts ==
  TimerInv <=> (~slow /\ resets = 0 => OnlyTimer /\ CallMasks /\ AllSent)
BY DEF TimerInv, OnlyTimer, CallMasks, AllSent

LEMMA TimerStep ==
  ASSUME Types, [Next]_vars, OnlyTimer, CallMasks, AllSent, ~slow, resets = 0, resets' = 0
  PROVE  OnlyTimer' /\ CallMasks' /\ AllSent'
<1>1. /\ timer \in BOOLEAN /\ cin \in BOOLEAN /\ rout \in BOOLEAN /\ wait \in BOOLEAN
      /\ fresh \in BOOLEAN
  BY DEF Types, FlagTypes
<1>2. /\ offset \in Nat /\ offset <= Len(buf) /\ buf \in Seq(Item) /\ Len(buf) <= BufSize
      /\ Len(buf) \in Nat /\ round_sent \in Nat /\ part_sent \in 0..Len(parts)
      /\ host \in Nat /\ taken \in Nat /\ hello \in Nat
  BY LengthFacts DEF Types, BufTypes, DataTypes
<1>3. ASSUME NEW l \in Lengths, NEW h \in Hosts, NEW m \in Missing, Recv(l, h, m)
      PROVE  OnlyTimer' /\ CallMasks' /\ AllSent'
  <2>1. /\ pc = "idle" /\ UNCHANGED <<timer, cin, rout>> /\ offset' = 0 /\ host' = h
        /\ taken' = taken + l
    BY <1>3 DEF Recv, pollvars
  <2> DEFINE b == Stream(taken, taken', hello')
  <2>2. Enter(round', round_sent, part_sent, b, 0, TRUE)
    BY <1>3 DEF Recv
  <2>3. /\ pc' \in {"part", "plain"} /\ fresh' = TRUE /\ want' = Len(b) - 0
    BY <2>2 DEF Enter
  <2>4. Types'
    BY <1>3, RecvTypes
  <2>5. b \in Seq(Item) /\ Len(b) = taken' - taken /\ taken' - taken = l /\ l <= BufSize
    <3>1. l \in Nat /\ l <= BufSize /\ m \in Nat /\ hello' \in Nat
      BY <2>4, DesyncAssumption DEF Types, DataTypes
    <3>2. taken' \in Nat /\ taken <= taken' /\ taken' - taken = l
      BY ONLY <1>2, <2>1, <3>1
    <3> QED
      BY ONLY <1>2, <3>1, <3>2, StreamTyped
  <2> HIDE DEF b
  <2>6. Types /\ host' \in Nat /\ Len(b) <= BufSize
    BY <2>4, <2>5 DEF Types, DataTypes
  <2>7. Len(b) \in Nat /\ Len(buf') \in Nat /\ Len(b) <= Len(buf')
    BY ONLY <1>2, <2>2, <2>5, <2>6, EnterFacts, 0 \in Nat, TRUE \in BOOLEAN, Zenon
  <2>8. OnlyTimer'
    BY <1>1, <2>1, <2>3 DEF OnlyTimer
  <2>9. CallMasks'
    BY ONLY <2>1, <2>3, <2>7 DEF CallMasks
  <2>10. AllSent'
    BY ONLY <2>3 DEF AllSent
  <2> QED
    BY ONLY <2>8, <2>9, <2>10
<1>4. CASE Resume
  <2>1. /\ pc = "pending" /\ UNCHANGED <<cin, rout, offset, host>>
        /\ Enter(round, round_sent, part_sent, buf, offset, FALSE) /\ Wakes
    BY <1>4 DEF Resume
  <2>2. ~cin /\ ~rout
    BY <2>1 DEF OnlyTimer
  <2>3. timer' = FALSE
    BY <2>1, <2>2 DEF Wakes
  <2>4. pc' \in {"part", "plain"} /\ fresh' = FALSE /\ want' = Len(buf) - offset
    BY <2>1 DEF Enter
  <2>5. Types /\ host' \in Nat
    BY <1>2, <2>1
  <2>6. Len(buf') \in Nat /\ Len(buf) <= Len(buf')
    BY ONLY <1>2, <2>1, <2>5, EnterFacts, FALSE \in BOOLEAN, Zenon
  <2>7. OnlyTimer'
    BY ONLY <2>3, <2>4 DEF OnlyTimer
  <2>8. CallMasks'
    BY ONLY <1>2, <2>1, <2>2, <2>4, <2>6 DEF CallMasks
  <2>9. AllSent'
    BY ONLY <2>4 DEF AllSent
  <2> QED
    BY ONLY <2>7, <2>8, <2>9
<1>5. CASE Return
  <2>1. pc = "return" /\ timer' = timer
    BY <1>5 DEF Return
  <2>2. IF fresh THEN offset = 0 ELSE ~cin /\ ~rout
    BY <2>1 DEF CallMasks, InCall
  <2>3. CASE wait
    <3>1. pc' = "pending" /\ (IF fresh THEN Masks ELSE UNCHANGED <<cin, rout>>)
      BY <1>5, <2>3 DEF Return
    <3>2. ~cin' /\ ~rout'
      BY <2>2, <2>3, <3>1 DEF Masks
    <3> QED
      BY ONLY <3>1, <3>2 DEF OnlyTimer, CallMasks, AllSent, InCall
  <2>4. CASE ~wait
    <3>1. ret = Len(buf) - offset /\ want \in Int /\ want <= Len(buf) - offset
      BY <2>1, <2>4 DEF AllSent, CallMasks, InCall
    <3>2. ~(ret < (IF fresh THEN n ELSE want))
      BY <1>1, <1>2, <2>2, <3>1 DEF n
    <3>3. pc' = "idle"
      BY <1>5, <2>4, <3>2 DEF Return
    <3>4. ~timer
      BY <2>1, <2>4 DEF OnlyTimer
    <3> QED
      BY ONLY <2>1, <3>3, <3>4 DEF OnlyTimer, CallMasks, AllSent, InCall
  <2> QED
    BY <1>1, <2>3, <2>4
<1>6. CASE Part
  <2>1. pc = "part" /\ UNCHANGED <<offset, buf, cin, rout, fresh, want, slow>>
    BY <1>6, PartFacts DEF PartKeeps, confvars, buffvars
  <2>2. PICK c \in Piece, place \in Int :
          Passes(place) \/ Stops(place) \/ \E p \in Nat : Sends(c, place, p)
    BY <1>6, PartFacts
  <2>3. ~timer
    BY <2>1 DEF OnlyTimer
  <2>4. \/ pc' \in {"part", "rest"} /\ timer' = timer
        \/ pc' = "return" /\ wait'
    <3>1. Passes(place) \/ Stops(place) => pc' \in {"part", "rest"} /\ timer' = timer
      BY <2>1 DEF Passes, Stops
    <3>2. ASSUME NEW p \in Nat, Sends(c, place, p)
          PROVE  (pc' = "part" /\ timer' = timer) \/ (pc' = "return" /\ wait')
      BY <2>1, <3>2 DEF Sends, Again, Anew, Accepted, Waits, GoesOn, Refused
    <3> QED
      BY <2>2, <3>1, <3>2
  <2>5. CallMasks'
    BY ONLY <2>1, CallMasks DEF CallMasks, InCall
  <2> QED
    BY ONLY <2>3, <2>4, <2>5 DEF OnlyTimer, AllSent
<1>7. CASE Rest \/ Plain
  <2>1. pc \in {"rest", "plain"} /\ UNCHANGED <<offset, buf, cin, rout, fresh, want, timer>>
    BY <1>7 DEF Rest, Plain, buffvars, pollvars
  <2>2. pc' = "return" /\ ret' = Len(buf) - offset
    <3>1. CASE Rest
      BY <3>1 DEF Rest, Leave, n
    <3>2. CASE Plain
      <4>1. PICK q \in Takes(Len(buf) - offset) : ret' = (offset + q) - offset /\ pc' = "return"
        BY <3>2 DEF Plain, Leave, n
      <4>2. q = Len(buf) - offset
        BY <4>1 DEF Takes
      <4> QED
        BY ONLY <1>2, <4>1, <4>2
    <3> QED
      BY <1>7, <3>1, <3>2
  <2>3. ~timer
    BY <2>1 DEF OnlyTimer
  <2>4. CallMasks'
    BY ONLY <2>1, CallMasks DEF CallMasks, InCall
  <2> QED
    BY ONLY <2>1, <2>2, <2>3, <2>4 DEF OnlyTimer, AllSent
<1>8. CASE PartsEnd
  <2>1. pc = "part" /\ pc' = "rest" /\ UNCHANGED <<offset, buf, cin, rout, fresh, want, timer>>
    BY <1>8 DEF PartsEnd, buffvars, pollvars, callvars
  <2> QED
    BY ONLY <2>1, OnlyTimer, CallMasks DEF OnlyTimer, CallMasks, AllSent, InCall
<1>9. CASE Answer \/ UNCHANGED vars
  <2>1. UNCHANGED <<pc, offset, buf, cin, rout, fresh, want, timer, wait, ret>>
    BY <1>9 DEF Answer, vars, buffvars, pollvars, callvars
  <2> QED
    BY ONLY <2>1, OnlyTimer, CallMasks, AllSent DEF OnlyTimer, CallMasks, AllSent
<1>10. ~Expire /\ ~on_connect
  BY DEF OnlyTimer, Expire, on_connect
<1>11. ~reconnect
  BY DEF reconnect
<1> QED
  BY <1>3, <1>4, <1>5, <1>6, <1>7, <1>8, <1>9, <1>10, <1>11 DEF Next, Call

\* A wait that ends because the kernel has sent its data leaves no timer behind that
\* would be taken for the time-out of a session that is not waiting: without reconnects
\* and refused sends nothing but the timer can end a wait.
THEOREM WaitsEndTheirTimer == Spec => []WaitEndsTimer
<1>1. Init => Types /\ TimerInv
  <2> SUFFICES ASSUME Init PROVE Types /\ TimerInv
    OBVIOUS
  <2>1. TimerInv
    BY DEF Init, TimerInv, InCall
  <2> QED
    BY <2>1, InitTypes
<1>2. Types /\ TimerInv /\ [Next]_vars => Types' /\ TimerInv'
  <2> SUFFICES ASSUME Types, TimerInv, [Next]_vars PROVE Types' /\ TimerInv'
    OBVIOUS
  <2>1. Types'
    BY StepTypes
  <2>2. slow' = slow /\ (resets' = resets \/ resets' = resets + 1)
    BY DEF Next, Call, vars, confvars, Recv, Resume, Return, Part, PartsEnd, Rest, Plain,
           Answer, Expire, reconnect, on_connect
  <2>3. resets' = 0 => resets = 0
    BY <2>2 DEF Types, DataTypes
  <2>4. ASSUME ~slow', resets' = 0 PROVE OnlyTimer' /\ CallMasks' /\ AllSent'
    BY <2>2, <2>3, <2>4, TimerParts, TimerStep
  <2> QED
    BY <2>1, <2>4 DEF TimerInv, OnlyTimer, CallMasks, AllSent
<1>3. Types /\ TimerInv => WaitEndsTimer
  BY DEF Types, DataTypes, TimerInv, WaitEndsTimer
<1> QED
  BY <1>1, <1>2, <1>3, PTL DEF Spec

-----------------------------------------------------------------------------
(* The TTL of a part                                                       *)

\* Only a reconnect forgets what has gone wrong.
LEMMA FineBefore ==
  ASSUME Types, [Next]_vars, ~reconnect
  PROVE  upset \subseteq upset' /\ (TtlMayStay' <=> TtlMayStay) /\ (Fine' => Fine)
<1>1. UNCHANGED <<parts, slow>>
  BY DEF Next, Call, vars, confvars, Recv, Resume, Return, Part, PartsEnd, Rest, Plain,
         Answer, Expire, on_connect
<1>2. upset \subseteq upset'
  <2>1. CASE Resume
    BY <2>1 DEF Resume
  <2>2. CASE Return
    <3>1. upset' = upset \/ \E x : upset' = upset \cup x
      BY <2>2 DEF Return
    <3> QED
      BY <3>1
  <2>3. CASE Answer
    BY <2>3 DEF Answer
  <2>4. CASE ~Resume /\ ~Return /\ ~Answer
    <3>1. upset' = upset
      BY <2>4 DEF Next, Call, vars, buffvars, Recv, Part, PartsEnd, Rest, Plain, Expire,
                  on_connect
    <3> QED
      BY <3>1
  <2> QED
    BY <2>1, <2>2, <2>3, <2>4
<1>3. TtlMayStay' <=> TtlMayStay
  BY <1>1 DEF TtlMayStay
<1> QED
  BY ONLY <1>2, <1>3 DEF Fine

\* A part lies somewhere, and farther when tamp has made the data longer.
LEMMA PlaceTyped ==
  ASSUME Types, NEW i \in 1..Len(parts)
  PROVE  parts[i] \in Piece /\ Place(parts[i]) \in Int
<1>1. parts[i] \in Piece /\ Len(buf) \in Nat /\ host \in Nat
  BY LengthFacts, ElementOfSeq DEF Types, ConfTypes, DataTypes
<1>2. gen_offset(parts[i], Len(buf), host) \in Int
  BY <1>1, PlaceInt
<1>3. parts[i].s * parts[i].k \in Int
  BY <1>1 DEF Piece
<1> QED
  BY <1>1, <1>2, <1>3 DEF Place, n

LEMMA StartStep ==
  ASSUME Types, StartInv, [Next]_vars
  PROVE  StartInv'
<1>1. round \in Nat
  BY DEF Types, DataTypes
<1>2. CASE \E l \in Lengths, h \in Hosts, m \in Missing : Recv(l, h, m)
  BY <1>1, <1>2 DEF Recv, StartInv
<1>3. CASE Return
  BY <1>3 DEF Return, StartInv
<1>4. CASE Answer
  BY <1>1, <1>4 DEF Answer, StartInv
<1>5. CASE Expire
  <2>1. UNCHANGED <<round, round_sent, part_sent, answered, taken, hello>>
    BY <1>5 DEF Expire, buffvars
  <2>2. round = 0 => pc' = "idle"
    <3>1. round = 0 => ~(round > 1 \/ answered) /\ pc = "idle"
      BY DEF StartInv
    <3> QED
      BY <1>5, <3>1 DEF Expire
  <2> QED
    BY <2>1, <2>2 DEF StartInv
<1>6. CASE reconnect
  BY <1>6 DEF reconnect, StartInv
<1>7. CASE Resume \/ on_connect
  BY <1>7 DEF Resume, on_connect, StartInv
<1>8. CASE Part \/ PartsEnd \/ Rest \/ Plain
  <2>1. pc # "idle" /\ round' = round
    BY <1>8 DEF Part, PartsEnd, Rest, Plain, buffvars
  <2> QED
    BY <2>1 DEF StartInv
<1>9. CASE UNCHANGED vars
  BY <1>9 DEF vars, buffvars, StartInv
<1> QED
  BY <1>2, <1>3, <1>4, <1>5, <1>6, <1>7, <1>8, <1>9 DEF Next, Call

\* What Part does to where the call is.
LEMMA PartGoes ==
  ASSUME Types, Part
  PROVE  /\ pc = "part" /\ curr \in Nat /\ part_skip \in Nat /\ part_sent \in Nat
         /\ pc' \in {"part", "rest", "return"}
         /\ pc' = "part" => curr' = curr + 1 /\ part_sent' \in {part_sent, curr + 1}
         /\ UNCHANGED <<round, answered, upset, round_sent, offset, fresh, part_skip>>
<1>1. pc = "part" /\ UNCHANGED PartKeeps
  BY PartFacts
<1>2. PICK c \in Piece, place \in Int :
        Passes(place) \/ Stops(place) \/ \E p \in Nat : Sends(c, place, p)
  BY PartFacts
<1>3. curr \in Nat /\ part_skip \in Nat /\ part_sent \in Nat
  BY LengthFacts DEF Types, DataTypes, CallTypes
<1>4. /\ pc' \in {"part", "rest", "return"}
      /\ pc' = "part" => curr' = curr + 1 /\ part_sent' \in {part_sent, curr + 1}
  BY <1>1, <1>2 DEF Passes, Stops, Sends, Again, Anew, Accepted, Waits, GoesOn, Refused
<1> QED
  BY <1>1, <1>3, <1>4 DEF PartKeeps, buffvars

LEMMA AnswerStep ==
  ASSUME Types, AnswerInv, [Next]_vars
  PROVE  AnswerInv'
<1>1. CASE \E l \in Lengths, h \in Hosts, m \in Missing : Recv(l, h, m)
  <2>1. /\ upset' = upset
        /\ IF round_sent = 0 THEN answered' = FALSE ELSE answered' = answered
    BY <1>1 DEF Recv
  <2> QED
    BY <2>1 DEF AnswerInv
<1>2. CASE Answer
  <2>1. /\ pc \in {"idle", "pending"} /\ pc' = pc /\ round_sent' = 0 /\ part_sent' = 0
        /\ pc = "pending" => "early" \in upset'
    BY <1>2 DEF Answer
  <2> QED
    BY <2>1 DEF AnswerInv
<1>3. CASE Expire
  BY <1>3 DEF Expire, buffvars, AnswerInv
<1>4. CASE reconnect
  BY <1>4 DEF reconnect, AnswerInv
<1>5. CASE Resume \/ on_connect \/ Return \/ Part \/ PartsEnd \/ Rest \/ Plain
  <2>1. ~(pc \in {"idle", "closed"}) /\ answered' = answered
    BY <1>5 DEF Resume, on_connect, Return, Part, PartsEnd, Rest, Plain, buffvars
  <2>2. upset \subseteq upset'
    BY <1>5, FineBefore DEF Next, Call, reconnect, Resume, on_connect, Return, Part, PartsEnd,
                            Rest, Plain
  <2> QED
    BY <2>1, <2>2 DEF AnswerInv
<1>6. CASE UNCHANGED vars
  BY <1>6 DEF vars, buffvars, AnswerInv
<1> QED
  BY <1>1, <1>2, <1>3, <1>4, <1>5, <1>6 DEF Next, Call

LEMMA LoopStep ==
  ASSUME Types, LoopInv, [Next]_vars
  PROVE  LoopInv'
<1>1. CASE Part
  BY <1>1, PartGoes DEF LoopInv
<1>2. ASSUME NEW r, NEW b, NEW off, NEW isnew,
             Enter(r, round_sent, part_sent, b, off, isnew), round' = r, part_sent' = part_sent
      PROVE  LoopInv'
  BY <1>2 DEF Enter, Counters, LoopInv
<1>3. CASE \E l \in Lengths, h \in Hosts, m \in Missing : Recv(l, h, m)
  <2>1. \E b : /\ Enter(round', round_sent, part_sent, b, 0, TRUE)
               /\ part_sent' = part_sent
    BY <1>3 DEF Recv
  <2> QED
    BY <1>2, <2>1
<1>4. CASE Resume \/ on_connect
  <2>1. /\ Enter(round, round_sent, part_sent, buf, offset, FALSE)
        /\ UNCHANGED <<round, part_sent>>
    BY <1>4 DEF Resume, on_connect
  <2> QED
    BY <1>2, <2>1
<1>5. CASE Return \/ PartsEnd \/ Rest \/ Plain \/ Expire \/ reconnect \/ Answer
  <2>1. pc' # "part"
    BY <1>5 DEF Return, PartsEnd, Rest, Plain, Expire, reconnect, Answer, Leave
  <2> QED
    BY <2>1 DEF LoopInv
<1>6. CASE UNCHANGED vars
  BY <1>6 DEF vars, buffvars, callvars, LoopInv
<1> QED
  BY <1>1, <1>3, <1>4, <1>5, <1>6 DEF Next, Call

LEMMA CountStep ==
  ASSUME ~SameRound, Types, StartInv, AnswerInv, CountInv, [Next]_vars
  PROVE  CountInv'
<1>1. CASE reconnect
  BY <1>1 DEF reconnect, CountInv, Counted, InCall
<1>2. CASE ~reconnect
  <2> SUFFICES ASSUME "early" \notin upset' PROVE Counted'
    BY DEF CountInv
  <2>1. "early" \notin upset
    BY <1>2, FineBefore
  <2>2. Counted
    BY <2>1 DEF CountInv
  <2>3. CASE \E l \in Lengths, h \in Hosts, m \in Missing : Recv(l, h, m)
    <3>1. /\ pc = "idle" /\ (round = 0 \/ answered) /\ offset' = 0
          /\ UNCHANGED round_sent
      BY <2>3 DEF Recv
    <3>2. round_sent = 0
      BY <2>1, <3>1 DEF AnswerInv, StartInv
    <3> QED
      BY <3>1, <3>2 DEF Counted
  <2>4. CASE Answer
    <3>1. pc = "idle" /\ pc' = "idle"
      BY <2>4 DEF Answer
    <3> QED
      BY <3>1 DEF Counted, InCall
  <2>5. CASE Expire
    <3>1. pc' \in {"idle", "closed"}
      BY <2>5 DEF Expire
    <3> QED
      BY <3>1 DEF Counted, InCall
  <2>6. CASE UNCHANGED vars
    <3>1. UNCHANGED <<pc, offset, round_sent, fresh>>
      BY <2>6 DEF vars, callvars
    <3> QED
      BY <2>2, <3>1 DEF Counted
  <2>7. CASE Part
    BY <2>2, <2>7, PartGoes DEF Counted, InCall
  <2>8. CASE Rest \/ Plain \/ PartsEnd
    <3>1. /\ pc \in InCall /\ pc' \in InCall
          /\ UNCHANGED <<round_sent, offset, fresh>>
      BY <2>8 DEF Rest, Plain, PartsEnd, Leave, callvars, InCall
    <3> QED
      BY <2>2, <3>1 DEF Counted
  <2>9. CASE Return
    <3>1. /\ pc = "return" /\ round_sent' = round_sent + ret
          /\ pc' = "idle" \/ (pc' = "pending" /\ offset' = offset + ret)
      BY <2>9 DEF Return, Onward
    <3> QED
      BY <2>2, <3>1 DEF Counted, InCall
  <2>10. CASE Resume \/ on_connect
    <3>1. /\ pc \in {"pending", "connect"}
          /\ Enter(round, round_sent, part_sent, buf, offset, FALSE)
          /\ UNCHANGED <<offset, round_sent>>
      BY <2>10 DEF Resume, on_connect
    <3>2. fresh' = FALSE
      BY <3>1 DEF Enter
    <3> QED
      BY <2>2, <3>1, <3>2 DEF Counted
  <2> QED
    BY <1>2, <2>3, <2>4, <2>5, <2>6, <2>7, <2>8, <2>9, <2>10 DEF Next, Call
<1> QED
  BY <1>1, <1>2

\* Data that is taken up again is not rewritten again, or "again" says so.
LEMMA ResumeFacts ==
  ASSUME Types, Resume
  PROVE  /\ pc = "pending" /\ pc' \in {"part", "plain"}
         /\ "again" \in upset' \/ (buf' = buf /\ upset' = upset)
         /\ lp' = offset /\ curr' = 0 /\ skip' = round_sent /\ part_skip' = part_sent
         /\ UNCHANGED <<parts, slow, taken, round, base, host, hello, answered, offset, wire,
                        round_sent, part_sent>>
<1>1. /\ pc = "pending"
      /\ Enter(round, round_sent, part_sent, buf, offset, FALSE)
      /\ upset' = upset \cup
           IF round \in Rounds /\ round_sent = 0 /\ tlsrec # <<>> THEN {"again"} ELSE {}
      /\ UNCHANGED <<parts, slow, taken, round, base, host, hello, answered, offset, wire,
                     round_sent, part_sent>>
  BY DEF Resume, confvars, kernvars
<1>2. /\ round_sent \in Nat /\ buf \in Seq(Item) /\ offset \in Nat /\ Len(buf) <= BufSize
      /\ host' \in Nat /\ FALSE \in BOOLEAN
  BY <1>1 DEF Types, DataTypes, BufTypes
<1>3. /\ pc' = IF round \in Rounds THEN "part" ELSE "plain"
      /\ (round \in Rounds => round_sent # 0 \/ tlsrec = <<>>) => buf' = buf
      /\ skip' = round_sent /\ part_skip' = part_sent /\ curr' = 0 /\ lp' = offset
  BY ONLY Types, <1>1, <1>2, EnterFacts
<1>4. "again" \in upset' \/ (buf' = buf /\ upset' = upset)
  BY <1>1, <1>3
<1> QED
  BY <1>1, <1>3, <1>4

\* How far a part goes.
LEMMA ReachTyped ==
  ASSUME Types, NEW i \in 1..Len(parts)
  PROVE  /\ Reach(i) \in Int /\ Reach(i) <= Place(parts[i]) /\ Reach(i) <= Len(buf)
         /\ Place(parts[i]) \in Int
<1>1. Place(parts[i]) \in Int /\ Len(buf) \in Nat
  BY PlaceTyped, LengthFacts
<1> QED
  BY <1>1 DEF Reach

LEMMA DoneMore ==
  ASSUME Types, NEW k \in Int, NEW x \in Int, NEW j \in Int, NEW y \in Int, j <= k, x <= y, Done(k, x)
  PROVE  Done(j, y)
<1> SUFFICES ASSUME NEW i \in 1..Len(parts), i <= j, AtStart(parts[i])
             PROVE  Reach(i) <= y /\ (Place(parts[i]) >= 0 \/ y > 0)
  BY DEF Done
<1>1. Reach(i) <= x /\ (Place(parts[i]) >= 0 \/ x > 0)
  BY LengthFacts DEF Done
<1>2. Reach(i) \in Int
  BY ReachTyped
<1> QED
  BY ONLY <1>1, <1>2, x \in Int, y \in Int, x <= y

\* The parts do not move while the buffer stays as it is.
DoneNext(k, x) ==
  \A i \in 1..Len(parts') :
    i <= k /\ AtStart(parts'[i]) => Reach(i)' <= x /\ (Place(parts[i])' >= 0 \/ x > 0)

LEMMA DoneKept ==
  ASSUME Types, UNCHANGED <<parts, buf, host>>, NEW k \in Int, NEW x \in Int, Done(k, x),
         NEW j \in Int, NEW y \in Int, j <= k, x <= y
  PROVE  DoneNext(j, y)
<1>1. \A i : Reach(i)' = Reach(i) /\ Place(parts[i])' = Place(parts[i])
  BY DEF Reach, Place, n
<1>2. Done(j, y)
  BY DoneMore
<1> QED
  BY <1>1, <1>2 DEF Done, DoneNext

\* One more part is through, at or before position y.
LEMMA DonePart ==
  ASSUME Types, Part, Done(curr, lp), NEW y \in Int, lp <= y,
         AtStart(parts[curr + 1]) =>
           Reach(curr + 1) <= y /\ (Place(parts[curr + 1]) >= 0 \/ y > 0)
  PROVE  DoneNext(curr + 1, y)
<1>1. /\ UNCHANGED <<parts, buf, host>> /\ curr \in Int /\ lp \in Int /\ curr <= curr
  BY LengthFacts DEF Part, confvars, buffvars, Types, CallTypes
<1>2. DoneNext(curr, y)
  <2>1. PICK k \in Int, x \in Int : k = curr /\ x = lp
    BY <1>1
  <2>2. Done(k, x) /\ k <= k /\ x <= y
    BY <2>1
  <2>3. DoneNext(k, y)
    BY ONLY <1>1, <2>2, Types, DoneKept, y \in Int, k \in Int, x \in Int
  <2> QED
    BY ONLY <2>1, <2>3
<1> SUFFICES ASSUME NEW i \in 1..Len(parts'), i <= curr + 1, AtStart(parts'[i])
             PROVE  Reach(i)' <= y /\ (Place(parts[i])' >= 0 \/ y > 0)
  BY DEF DoneNext
<1>4. CASE i <= curr
  BY <1>2, <1>4 DEF DoneNext
<1>5. CASE i = curr + 1
  <2>1. Reach(i)' = Reach(i) /\ Place(parts[i])' = Place(parts[i])
    BY <1>1 DEF Reach, Place, n
  <2> QED
    BY <1>1, <1>5, <2>1
<1>6. i \in Int
  OBVIOUS
<1> QED
  BY ONLY <1>1, <1>4, <1>5, <1>6, i <= curr + 1

LEMMA DoneStep ==
  ASSUME ~SameRound, Types, StartInv, AnswerInv, LoopInv, DoneInv, [Next]_vars
  PROVE  DoneInv'
<1>1. CASE reconnect
  BY <1>1 DEF reconnect, DoneInv
<1>2. CASE ~reconnect
  <2> SUFFICES ASSUME upset' = {} PROVE DoneInv'
    BY DEF DoneInv
  <2>1. upset = {}
    BY <1>2, FineBefore
  <2>2. /\ lp \in Int /\ offset \in Int /\ ret \in Int /\ curr \in Int /\ part_sent \in Int
        /\ part_skip \in Int /\ Len(buf) \in Int /\ (pc \in InCall => offset <= lp)
    BY LengthFacts DEF Types, DataTypes, BufTypes, CallTypes
  <2>3. CASE \E l \in Lengths, h \in Hosts, m \in Missing : Recv(l, h, m)
    <3>1. /\ round = 0 \/ answered
          /\ part_skip' = part_sent /\ curr' = 0 /\ pc' \in {"part", "plain"}
          /\ part_sent' = part_sent
      BY <2>3 DEF Recv, Enter, Counters
    <3>2. part_sent = 0
      BY <2>1, <3>1 DEF StartInv, AnswerInv
    <3> QED
      BY <3>1, <3>2 DEF DoneInv, Done
  <2>4. CASE on_connect
    <3>1. /\ pc = "connect" /\ part_skip' = part_sent /\ curr' = 0 /\ pc' \in {"part", "plain"}
          /\ part_sent' = part_sent
      BY <2>4 DEF on_connect, Enter, Counters
    <3>2. part_sent = 0
      BY <2>1, <3>1 DEF DoneInv
    <3> QED
      BY <3>1, <3>2 DEF DoneInv, Done
  <2>5. CASE Resume
    <3>1. /\ pc = "pending" /\ pc' \in {"part", "plain"} /\ buf' = buf
          /\ lp' = offset /\ curr' = 0 /\ part_skip' = part_sent
          /\ UNCHANGED <<parts, host, offset, part_sent>>
      BY <2>5, ResumeFacts
    <3>2. PICK k \in Int, x \in Int : k = part_sent - 1 /\ x = offset
      BY <2>2
    <3>3. Done(k, x) /\ k <= k /\ x <= x
      BY <2>1, <3>1, <3>2 DEF DoneInv
    <3>4. DoneNext(k, x)
      BY ONLY <3>1, <3>3, Types, DoneKept, k \in Int, x \in Int
    <3>5. part_skip' - 1 = k /\ part_sent' - 1 = k /\ offset' = x
      BY ONLY <3>1, <3>2
    <3> QED
      BY <3>1, <3>4, <3>5 DEF DoneInv, Done, DoneNext
  <2>6. CASE Part
    <3>1. pc = "part" /\ UNCHANGED <<parts, buf, host, offset, part_skip>>
      BY <2>6 DEF Part, confvars, buffvars
    <3>2. PICK c \in Piece, place \in Int :
            /\ c = parts[curr + 1] /\ place = Place(c)
            /\ Passes(place) \/ Stops(place) \/ \E p \in Nat : Sends(c, place, p)
      BY <2>6, PartFacts
    <3>3. Done(curr, lp) /\ Done(part_skip - 1, offset) /\ offset <= lp
      BY <2>1, <2>2, <3>1 DEF DoneInv, InCall
    <3>4. DoneNext(part_skip - 1, offset)
      <4>1. PICK k \in Int, x \in Int : k = part_skip - 1 /\ x = offset
        BY <2>2
      <4>2. Done(k, x) /\ k <= k /\ x <= x
        BY <3>3, <4>1
      <4>3. DoneNext(k, x)
        BY ONLY <3>1, <4>2, Types, DoneKept, k \in Int, x \in Int
      <4> QED
        BY ONLY <4>1, <4>3
    <3>5. curr + 1 \in 1..Len(parts)
      BY <2>6, PartFacts
    <3>6. Reach(curr + 1) \in Int /\ Reach(curr + 1) <= place
      BY <3>2, <3>5, ReachTyped
    <3>7. CASE Passes(place)
      <4>1. Passed(curr + 1, place) /\ pc' = "part" /\ curr' = curr + 1 /\ lp' = lp
        BY <3>1, <3>7 DEF Passes
      <4>2. AtStart(parts[curr + 1]) => offset > 0 /\ place < offset
        BY ONLY <4>1 DEF Passed
      <4>3. AtStart(parts[curr + 1]) => Reach(curr + 1) <= lp /\ lp > 0
        BY ONLY <2>2, <3>3, <3>6, <4>2, place \in Int
      <4>4. DoneNext(curr + 1, lp)
        <5>1. PICK y \in Int : y = lp
          BY <2>2
        <5>2. lp <= y
          BY ONLY <2>2, <5>1
        <5>3. DoneNext(curr + 1, y)
          BY ONLY <2>6, <3>3, <4>3, <5>1, <5>2, Types, DonePart
        <5> QED
          BY ONLY <5>1, <5>3
      <4> QED
        BY <3>1, <3>4, <4>1, <4>4 DEF DoneInv, Done, DoneNext
    <3>8. CASE Stops(place)
      <4>1. pc' = "rest" /\ lp' = lp /\ part_sent' = part_sent
        BY <3>8 DEF Stops
      <4>2. PICK k \in Int, x \in Int : k = part_sent - 1 /\ x = lp
        BY <2>2
      <4>3. Done(k, x)
        BY <2>2, <3>1, <3>3, <4>2, DoneMore DEF LoopInv
      <4>4. k <= k /\ x <= x
        OBVIOUS
      <4>5. DoneNext(k, x)
        BY ONLY <3>1, <4>3, <4>4, Types, DoneKept, k \in Int, x \in Int
      <4> QED
        BY <4>1, <4>2, <4>5 DEF DoneInv, Done, DoneNext
    <3>9. ASSUME NEW p \in Nat, Sends(c, place, p)
          PROVE  DoneInv'
      <4>1. /\ curr' = curr + 1 /\ part_sent' = curr + 1 /\ place >= 0
            /\ lp <= p /\ p <= Len(buf) /\ (p = place \/ p = Len(buf)) /\ p <= place
            /\ \/ pc' = "part" /\ lp' = p
               \/ pc' = "return" /\ ret' = p - offset
               \/ pc' = "return" /\ ret' \in Nat /\ lp - offset <= ret'
        BY <3>1, <3>9 DEF Sends, Again, Anew, Accepted, Refused, Waits, GoesOn
      <4>2. CASE pc' = "part" /\ lp' = p
        <5>1. Reach(curr + 1) = p
          BY ONLY <2>2, <3>2, <4>1, p \in Nat, place \in Int DEF Reach
        <5>2. Reach(curr + 1) <= p /\ p \in Int /\ Place(parts[curr + 1]) >= 0
          BY ONLY <3>2, <4>1, <5>1, p \in Nat
        <5>3. DoneNext(curr + 1, p)
          BY ONLY <2>6, <3>3, <4>1, <5>2, Types, DonePart
        <5> QED
          BY <3>1, <3>4, <4>1, <4>2, <5>3 DEF DoneInv, Done, DoneNext
      <4>3. CASE pc' = "return"
        <5>1. PICK k \in Int, x \in Int, y \in Int : k = curr /\ x = lp /\ y = offset + ret'
          BY <2>2, <4>1, <4>3
        <5>2. Done(k, x) /\ k <= k
          BY <3>3, <5>1
        <5>3. x <= y
          BY ONLY <2>2, <4>1, <4>3, <5>1, p \in Nat
        <5>4. DoneNext(k, y)
          BY ONLY <3>1, <5>2, <5>3, Types, DoneKept, k \in Int, x \in Int, y \in Int
        <5>5. part_sent' - 1 = k /\ offset' + ret' = y
          BY ONLY <2>2, <3>1, <4>1, <5>1
        <5> QED
          BY <4>3, <5>4, <5>5 DEF DoneInv, Done, DoneNext
      <4> QED
        BY <4>1, <4>2, <4>3
    <3> QED
      BY <3>2, <3>7, <3>8, <3>9
  <2>7. CASE PartsEnd
    <3>1. /\ pc = "part" /\ pc' = "rest" /\ UNCHANGED <<parts, buf, host, lp, part_sent>>
      BY <2>7 DEF PartsEnd, confvars, buffvars, callvars
    <3>2. Done(curr, lp) /\ Done(part_skip - 1, offset) /\ offset <= lp
      BY <2>1, <2>2, <3>1 DEF DoneInv, InCall
    <3>3. PICK k \in Int, x \in Int : k = part_sent - 1 /\ x = lp
      BY <2>2
    <3>4. Done(k, x)
      BY <2>2, <3>1, <3>2, <3>3, DoneMore DEF LoopInv
    <3>5. k <= k /\ x <= x
      OBVIOUS
    <3>6. DoneNext(k, x)
      BY ONLY <3>1, <3>4, <3>5, Types, DoneKept, k \in Int, x \in Int
    <3> QED
      BY <3>1, <3>3, <3>6 DEF DoneInv, Done, DoneNext
  <2>8. CASE Rest \/ Plain
    <3>1. /\ pc \in {"rest", "plain"} /\ pc' = "return"
          /\ UNCHANGED <<parts, buf, host, offset, part_sent>>
      BY <2>8 DEF Rest, Plain, Leave, confvars, buffvars
    <3>2. PICK k \in Int, x \in Int : /\ k = part_sent - 1
                                     /\ x = IF pc = "rest" THEN lp ELSE offset
      BY <2>2
    <3>3. Done(k, x) /\ k <= k
      BY <2>1, <3>1, <3>2 DEF DoneInv
    <3>4. ret' \in Int /\ x <= offset + ret'
      <4>1. CASE Rest
        <5>1. ret' = Len(buf) - offset \/ ret' = lp - offset
          BY <4>1 DEF Rest, Leave, n
        <5>2. pc = "rest" /\ lp <= Len(buf)
          BY <4>1 DEF Rest, Types, CallTypes, InCall
        <5> QED
          BY ONLY <2>2, <3>2, <5>1, <5>2
      <4>2. CASE Plain
        <5>1. PICK q \in Int : q >= 0 /\ ret' = (offset + q) - offset
          <6>1. CASE Leave(offset, FALSE)
            BY <2>2, <6>1 DEF Leave
          <6>2. ASSUME NEW q \in Takes(n - offset), Leave(offset + q, FALSE)
                PROVE  q \in Int /\ q >= 0 /\ ret' = (offset + q) - offset
            <7>1. Len(buf) - offset \in Nat
              BY <2>2, LengthFacts DEF Types, BufTypes
            <7> QED
              BY <6>2, <7>1 DEF Takes, Leave, n
          <6> QED
            BY <4>2, <6>1, <6>2 DEF Plain
        <5>2. pc = "plain"
          BY <4>2 DEF Plain
        <5> QED
          BY ONLY <2>2, <3>2, <5>1, <5>2
      <4> QED
        BY <2>8, <4>1, <4>2
    <3>5. PICK y \in Int : y = offset + ret'
      <4>1. offset + ret' \in Int
        BY ONLY <2>2, <3>4
      <4> QED
        BY <4>1
    <3>6. DoneNext(k, y)
      BY ONLY <3>1, <3>3, <3>4, <3>5, Types, DoneKept, k \in Int, x \in Int, y \in Int
    <3>7. part_sent' - 1 = k /\ offset' + ret' = y
      BY ONLY <3>1, <3>2, <3>5
    <3> QED
      BY <3>1, <3>6, <3>7 DEF DoneInv, Done, DoneNext
  <2>9. CASE Return
    <3>1. /\ pc = "return" /\ UNCHANGED <<parts, host, part_sent>>
          /\ (pc' = "pending" /\ buf' = buf /\ offset' = offset + ret) \/ pc' = "idle"
      BY <2>9 DEF Return, Onward, confvars
    <3>2. CASE pc' = "pending" /\ buf' = buf /\ offset' = offset + ret
      <4>1. PICK k \in Int, x \in Int : k = part_sent - 1 /\ x = offset + ret
        BY <2>2
      <4>2. Done(k, x) /\ k <= k /\ x <= x
        BY <2>1, <3>1, <4>1 DEF DoneInv
      <4>3. DoneNext(k, x)
        BY ONLY <3>1, <3>2, <4>2, Types, DoneKept, k \in Int, x \in Int
      <4> QED
        BY <3>1, <3>2, <4>1, <4>3 DEF DoneInv, Done, DoneNext
    <3> QED
      BY <3>1, <3>2 DEF DoneInv
  <2>10. CASE Answer
    <3>1. pc' = pc /\ pc \in {"idle", "pending"} /\ (pc = "pending" => "early" \in upset')
      BY <2>10 DEF Answer
    <3> QED
      BY <3>1 DEF DoneInv
  <2>11. CASE Expire
    <3>1. pc' \in {"idle", "closed"}
      BY <2>11 DEF Expire
    <3> QED
      BY <3>1 DEF DoneInv
  <2>12. CASE UNCHANGED vars
    <3>1. UNCHANGED <<parts, host, buf, pc, part_sent, part_skip, lp, curr, offset, ret, upset>>
      BY <2>12 DEF vars, confvars, buffvars, callvars
    <3> QED
      BY <2>1, <3>1 DEF DoneInv, Done, Reach, Place, n
  <2> QED
    BY <1>2, <2>3, <2>4, <2>5, <2>6, <2>7, <2>8, <2>9, <2>10, <2>11, <2>12 DEF Next, Call
<1> QED
  BY <1>1, <1>2

\* A part does not go out while the TTL of an earlier one is still low: desync finds
\* its way back to that part first.
LEMMA PartBack ==
  ASSUME Types, Part, LoopInv, BackInv, DoneInv, Fine
  PROVE  BackInv' /\ spoilt' = spoilt
<1>1. pc = "part" /\ curr + 1 \in 1..Len(parts) /\ UNCHANGED PartKeeps
  BY PartFacts
<1>2. PICK c \in Piece, place \in Int :
        /\ c = parts[curr + 1] /\ place = Place(c)
        /\ Passes(place) \/ Stops(place) \/ \E p \in Nat : Sends(c, place, p)
  BY PartFacts
<1>3. UNCHANGED <<parts, slow, round, buf, host, answered, offset, round_sent, fresh,
                  skip, part_skip>>
  BY <1>1 DEF PartKeeps, confvars, buffvars
<1>4. /\ lp \in Nat /\ offset \in Nat /\ offset <= lp /\ curr \in Nat
      /\ part_skip \in Nat /\ Len(buf) \in Nat
  BY <1>1, LengthFacts DEF Types, BufTypes, CallTypes, InCall
<1>5. low \in BOOLEAN /\ fake \in BOOLEAN /\ slow \in BOOLEAN /\ spoilt \in BOOLEAN
  BY DEF Types, ConfTypes, FlagTypes
<1>8. \A i : Place(parts[i])' = Place(parts[i])
  BY <1>3 DEF Place, n
<1>9. round \in Rounds
  BY <1>1 DEF LoopInv
<1>10. Held => /\ curr < part_skip /\ skip = offset /\ lp = offset
               /\ Place(parts[part_skip]) >= offset
  BY <1>1 DEF BackInv
<1>6. ~TtlMayStay /\ Done(part_skip - 1, offset)
  BY <1>1 DEF Fine, DoneInv
<1>7. curr + 1 \in 1..Len(parts) /\ Place(parts[curr + 1]) = place
  BY <1>1, <1>2
<1>11. Held /\ Passed(curr + 1, place) => curr + 1 < part_skip
  <2> SUFFICES ASSUME Held, Passed(curr + 1, place), ~(curr + 1 < part_skip) PROVE FALSE
    OBVIOUS
  <2>1. curr + 1 = part_skip
    BY ONLY <1>4, <1>10, Held, ~(curr + 1 < part_skip)
  <2>2. place >= offset
    BY ONLY <1>2, <1>10, <2>1, Held
  <2> QED
    BY ONLY <1>4, <1>10, <2>1, <2>2, Held, place \in Int, Passed(curr + 1, place) DEF Passed
<1>15. ASSUME Held, ~Passed(curr + 1, place), curr + 1 # part_skip
       PROVE  AtStart(c) /\ place >= offset /\ Reach(curr + 1) <= offset
  <2>1. curr + 1 < part_skip
    BY ONLY <1>4, <1>10, <1>15
  <2>2. AtStart(c) /\ ~(offset > 0 /\ place < offset)
    BY ONLY <1>2, <1>15, <2>1 DEF Passed
  <2>3. curr + 1 <= part_skip - 1
    BY ONLY <1>4, <2>1
  <2>4. Reach(curr + 1) <= offset /\ (place >= 0 \/ offset > 0)
    BY ONLY <1>2, <1>6, <1>7, <2>2, <2>3 DEF Done
  <2>5. place >= offset
    BY ONLY <1>4, <2>2, <2>4, place \in Int
  <2> QED
    BY ONLY <2>2, <2>4, <2>5
<1>12. Passes(place) => BackInv' /\ spoilt' = spoilt
  <2> SUFFICES ASSUME Passes(place) PROVE BackInv' /\ spoilt' = spoilt
    OBVIOUS
  <2>1. /\ Passed(curr + 1, place) /\ curr' = curr + 1 /\ lp' = lp /\ pc' = "part"
        /\ (Held' <=> Held) /\ spoilt' = spoilt
    BY <1>1 DEF Passes, Held
  <2> QED
    BY ONLY <1>3, <1>9, <1>10, <1>11, <2>1 DEF BackInv, Place, n
<1>13. Stops(place) => BackInv' /\ spoilt' = spoilt
  <2> SUFFICES ASSUME Stops(place) PROVE BackInv' /\ spoilt' = spoilt
    OBVIOUS
  <2>1. /\ ~Passed(curr + 1, place) /\ (place < 0 \/ place < lp)
        /\ (Held' <=> Held) /\ spoilt' = spoilt
    BY DEF Stops, Held
  <2>2. ~Held
    <3> SUFFICES ASSUME Held PROVE FALSE
      OBVIOUS
    <3>1. place >= offset /\ lp = offset
      BY ONLY <1>2, <1>10, <1>15, <2>1, Held
    <3> QED
      BY ONLY <1>4, <2>1, <3>1, place \in Int
  <2> QED
    BY ONLY <2>1, <2>2 DEF BackInv
<1>14. ASSUME NEW p \in Nat, Sends(c, place, p)
       PROVE  BackInv' /\ spoilt' = spoilt
  <2>1. /\ ~Passed(curr + 1, place) /\ curr' = curr + 1 /\ part_sent' = curr + 1
        /\ lp <= p /\ p <= Len(buf) /\ p <= place /\ (p = place \/ p = Len(buf))
        /\ Again(p) \/ Anew(c, p)
    BY <1>14 DEF Sends
  <2>2. ASSUME Held, Anew(c, p) PROVE p = lp /\ lp = offset /\ ~Urgent(c)
    <3>1. AtStart(c) /\ Reach(curr + 1) <= offset /\ lp = offset
      BY <1>10, <1>15, <2>1, <2>2 DEF Anew
    <3>2. Reach(curr + 1) = p
      BY ONLY <1>4, <1>7, <2>1, p \in Nat, place \in Int DEF Reach
    <3>3. ~Urgent(c)
      BY <1>1, <1>2, <1>6, <3>1, LengthFacts, LenProperties DEF TtlMayStay, Types, ConfTypes
    <3> QED
      BY ONLY <1>4, <2>1, <3>1, <3>2, <3>3, p \in Nat
  <2>3. part_sent' > 0 /\ Place(parts[part_sent])' = place
    BY ONLY <1>2, <1>3, <1>4, <2>1 DEF Place, n
  <2>4. spoilt' = spoilt
    <3>1. Anew(c, p) /\ Held => ~(lp < p \/ Urgent(c))
      BY ONLY <1>4, <2>2, p \in Nat
    <3> QED
      BY <2>1, <3>1 DEF Again, Anew
  <2>5. CASE GoesOn(p)
    BY <2>4, <2>5 DEF GoesOn, Held, BackInv
  <2>6. CASE pc' = "return" /\ ret' = p - offset /\ wait' = TRUE
    <3>1. place >= offset + ret'
      BY ONLY <1>4, <2>1, <2>6, p \in Nat, place \in Int
    <3> QED
      BY ONLY <1>3, <1>9, <2>3, <2>4, <2>6, <3>1 DEF BackInv
  <2>7. CASE Anew(c, p) /\ Refused(c, p)
    <3>1. ~Held
      <4> SUFFICES ASSUME Held PROVE FALSE
        OBVIOUS
      <4>1. p = lp /\ lp = offset /\ ~Urgent(c)
        BY ONLY <2>2, <2>7, Held
      <4>2. ret' \in Nat /\ ret' < p - offset
        BY ONLY <2>7, <4>1 DEF Refused
      <4> QED
        BY ONLY <1>4, <4>1, <4>2
    <3>2. /\ slow /\ pc' = "return" /\ ret' \in Nat /\ ret' <= p - offset
          /\ ~Urgent(c) => ret' < p - offset
      BY <2>7 DEF Refused
    <3>3. c.m # "disoob"
      BY ONLY <1>1, <1>2, <1>6, <3>2, Types, ElementOfSeq DEF TtlMayStay, Types, ConfTypes
    <3>4. Held' => Lowers(c, p - lp) \/ Fakes(c, p - lp)
      BY <2>7, <3>1 DEF Refused, Held
    <3>5. Held' => ~Urgent(c)
      BY ONLY <3>3, <3>4 DEF Lowers, Fakes, Urgent
    <3>6. Held' => ret' < Len(buf) - offset
      BY ONLY <1>4, <2>1, <3>2, <3>5, p \in Nat
    <3>7. place >= offset + ret'
      <4>1. \A a, b, d \in Nat : d <= b - a /\ b <= place => place >= a + d
        OBVIOUS
      <4> QED
        BY ONLY <1>4, <2>1, <3>2, <4>1, p \in Nat
    <3> QED
      BY ONLY <1>3, <1>9, <2>3, <2>4, <3>2, <3>6, <3>7 DEF BackInv
  <2> QED
    BY ONLY <2>1, <2>5, <2>6, <2>7 DEF Again, Anew, Accepted, Waits
<1> QED
  BY <1>2, <1>12, <1>13, <1>14

\* The rest, and what is not desynced, goes out with nothing held.
LEMMA SendBack ==
  ASSUME Types, Rest \/ Plain \/ PartsEnd, BackInv
  PROVE  BackInv' /\ spoilt' = spoilt
<1>1. UNCHANGED <<low, fake>>
  BY DEF Rest, Plain, PartsEnd, kernvars
<1>2. ~Held
  <2>1. CASE Rest \/ Plain
    BY <2>1 DEF Rest, Plain, BackInv
  <2>2. CASE PartsEnd
    <3>1. pc = "part" /\ curr = Len(parts)
      BY <2>2 DEF PartsEnd
    <3>2. part_skip \in 0..Len(parts) /\ Len(parts) \in Nat
      BY LengthFacts DEF Types, CallTypes
    <3> QED
      BY <3>1, <3>2 DEF BackInv
  <2> QED
    BY <2>1, <2>2
<1>3. ~Held'
  BY <1>1, <1>2 DEF Held
<1>4. spoilt' = spoilt
  <2>1. ~low /\ ~fake /\ spoilt \in BOOLEAN
    BY <1>2 DEF Held, Types, FlagTypes
  <2>2. CASE Rest
    BY <2>1, <2>2 DEF Rest
  <2>3. CASE Plain
    BY <2>1, <2>3 DEF Plain
  <2>4. CASE PartsEnd
    BY <2>4 DEF PartsEnd, kernvars
  <2> QED
    BY <2>2, <2>3, <2>4
<1> QED
  BY ONLY <1>3, <1>4 DEF BackInv

LEMMA ReturnBack ==
  ASSUME Types, Return, BackInv, ~("short" \in upset')
  PROVE  BackInv'
<1>1. /\ pc = "return" /\ round_sent' = round_sent + ret
      /\ UNCHANGED <<parts, round, host, answered, part_sent, low, fake>>
  BY DEF Return, confvars, kernvars
<1>2. /\ offset \in Nat /\ ret \in Nat /\ Len(buf) \in Nat /\ ret <= Len(buf) - offset
  BY <1>1, LengthFacts DEF Types, BufTypes, CallTypes
<1>4. Held' <=> Held
  BY <1>1 DEF Held
<1>5. wait \in BOOLEAN /\ fresh \in BOOLEAN
  BY DEF Types, FlagTypes
<1>6. CASE ret < (IF fresh THEN n ELSE want) \/ wait
  <2>1. offset' = offset + ret /\ pc' = "pending" /\ buf' = buf
    BY <1>6 DEF Return, Onward
  <2> QED
    BY ONLY <1>1, <1>4, <2>1, BackInv DEF BackInv, Place, n
<1>7. CASE ~(ret < (IF fresh THEN n ELSE want) \/ wait)
  <2>1. pc' = "idle" /\ upset' = upset \cup IF ret < n - offset THEN {"short"} ELSE {}
    BY <1>7 DEF Return
  <2>2. ~(ret < Len(buf) - offset)
    BY <2>1 DEF n
  <2>3. ~Held
    BY <1>1, <1>7, <2>2 DEF BackInv
  <2> QED
    BY ONLY <1>4, <2>3 DEF BackInv
<1> QED
  BY ONLY <1>6, <1>7

\* The data is taken up again at the part that was being waited for.
LEMMA ReEnterBack ==
  ASSUME Types, Resume \/ on_connect, Counted, BackInv
  PROVE  BackInv' /\ spoilt' = spoilt
<1>1. /\ pc \in {"pending", "connect"}
      /\ Enter(round, round_sent, part_sent, buf, offset, FALSE)
      /\ UNCHANGED <<parts, round, host, answered, offset, round_sent, part_sent,
                     low, fake, spoilt>>
  BY DEF Resume, on_connect, kernvars, confvars
<1>2. /\ round_sent \in Nat /\ offset \in Nat /\ buf \in Seq(Item) /\ Len(buf) <= BufSize
      /\ host \in Nat /\ part_sent \in 0..Len(parts) /\ Len(parts) \in Nat
  BY LengthFacts DEF Types, DataTypes, BufTypes
<1>3. Types /\ host' \in Nat
  BY <1>1, <1>2
<1>4. /\ pc' = IF round \in Rounds THEN "part" ELSE "plain"
      /\ Len(buf) \in Nat /\ Len(buf') \in Nat /\ Len(buf) <= Len(buf')
      /\ skip' = round_sent /\ part_skip' = part_sent /\ curr' = 0 /\ lp' = offset
      /\ fresh' = FALSE
  BY ONLY <1>1, <1>2, <1>3, EnterFacts, FALSE \in BOOLEAN, Zenon
<1>5. round_sent = offset
  BY <1>1 DEF Counted
<1>7. Held' <=> Held
  BY <1>1 DEF Held
<1>8. Held => /\ round \in Rounds /\ part_sent \in 1..Len(parts)
              /\ Place(parts[part_sent]) >= offset
  BY <1>1, <1>2 DEF BackInv
<1>9. Held => Place(parts[part_skip])' >= offset
  <2> SUFFICES ASSUME Held PROVE Place(parts[part_skip])' >= offset
    OBVIOUS
  <2>1. PICK c \in Piece : c = parts[part_sent]
    BY <1>8, PlaceTyped
  <2>2. /\ gen_offset(c, Len(buf), host) \in Int /\ gen_offset(c, Len(buf'), host) \in Int
        /\ gen_offset(c, Len(buf), host) <= gen_offset(c, Len(buf'), host)
    <3>1. Len(buf) \in Int /\ Len(buf') \in Int
      BY ONLY <1>4
    <3> QED
      BY ONLY <1>2, <1>4, <3>1, c \in Piece, PlaceInt, PlaceGrows
  <2>3. PICK d \in Int : d = c.s * c.k
    BY DEF Piece
  <2>4. gen_offset(c, Len(buf), host) + d >= offset
    BY <1>8, <2>1, <2>3 DEF Place, n
  <2>5. gen_offset(c, Len(buf'), host) + d >= offset
    BY ONLY <1>2, <2>2, <2>4, d \in Int
  <2>6. Place(parts[part_skip])' = gen_offset(c, Len(buf'), host) + d
    BY ONLY <1>1, <1>4, <2>1, <2>3 DEF Place, n
  <2> QED
    BY ONLY <2>5, <2>6
<1>10. BackInv'
  BY ONLY <1>1, <1>2, <1>4, <1>5, <1>7, <1>8, <1>9 DEF BackInv
<1> QED
  BY ONLY <1>1, <1>10

LEMMA HeldStep ==
  ASSUME Types, LoopInv, CountInv, HeldInv, DoneInv, [Next]_vars
  PROVE  HeldInv'
<1>1. CASE reconnect
  <2>1. low' = FALSE /\ fake' = FALSE
    BY <1>1 DEF reconnect
  <2> QED
    BY ONLY <2>1 DEF BackInv, Held, HeldInv
<1>2. CASE ~reconnect
  <2> SUFFICES ASSUME Fine' PROVE BackInv'
    BY DEF HeldInv
  <2>1. Fine
    BY <1>2, FineBefore
  <2>2. Counted /\ BackInv
    BY <2>1 DEF HeldInv, CountInv, Fine
  <2>3. ~("short" \in upset') /\ ~("early" \in upset')
    BY DEF Fine
  <2>4. CASE \E l \in Lengths, h \in Hosts, m \in Missing : Recv(l, h, m)
    <3>1. pc = "idle" /\ UNCHANGED <<low, fake>>
      BY <2>4 DEF Recv, kernvars
    <3>2. ~Held'
      BY <2>2, <3>1 DEF BackInv, Held
    <3> QED
      BY ONLY <3>2 DEF BackInv
  <2>5. CASE Answer
    <3>1. /\ pc \in {"idle", "pending"} /\ (pc = "pending" => "early" \in upset')
          /\ UNCHANGED <<pc, low, fake>>
      BY <2>5 DEF Answer, kernvars
    <3>2. pc = "idle" /\ pc' = "idle"
      BY <2>3, <3>1
    <3>3. ~Held'
      BY <2>2, <3>1, <3>2 DEF BackInv, Held
    <3> QED
      BY ONLY <3>3 DEF BackInv
  <2>6. CASE Expire
    <3>1. pc = "idle" /\ UNCHANGED <<low, fake>>
      BY <2>6 DEF Expire, kernvars
    <3>2. ~Held'
      BY <2>2, <3>1 DEF BackInv, Held
    <3> QED
      BY ONLY <3>2 DEF BackInv
  <2>7. CASE UNCHANGED vars
    <3>1. UNCHANGED <<parts, round, host, answered, part_sent, low, fake, pc, offset, buf,
                      round_sent, fresh, curr, part_skip, skip, lp, ret, wait>>
      BY <2>7 DEF vars, confvars, buffvars, kernvars, callvars
    <3> QED
      BY ONLY <2>2, <3>1 DEF BackInv, Held, Place, n
  <2>8. CASE Part
    BY <2>1, <2>2, <2>8, PartBack
  <2>9. CASE Rest \/ Plain \/ PartsEnd
    BY <2>2, <2>9, SendBack
  <2>10. CASE Return
    BY <2>2, <2>3, <2>10, ReturnBack
  <2>11. CASE Resume \/ on_connect
    BY <2>2, <2>11, ReEnterBack
  <2> QED
    BY <1>2, <2>4, <2>5, <2>6, <2>7, <2>8, <2>9, <2>10, <2>11 DEF Next, Call
<1> QED
  BY <1>1, <1>2

LEMMA SpoiltStep ==
  ASSUME Types, LoopInv, HeldInv, DoneInv, SpoiltInv, [Next]_vars
  PROVE  SpoiltInv'
<1>1. CASE reconnect
  BY <1>1 DEF reconnect, SpoiltInv
<1>2. CASE ~reconnect
  <2> SUFFICES ASSUME Fine' PROVE ~spoilt'
    BY DEF SpoiltInv
  <2>1. Fine /\ BackInv /\ ~spoilt
    BY <1>2, FineBefore DEF HeldInv, SpoiltInv
  <2>2. spoilt' = spoilt
    <3>1. CASE Part \/ Rest \/ Plain
      BY <2>1, <3>1, PartBack, SendBack
    <3>2. CASE ~(Part \/ Rest \/ Plain)
      BY <1>2, <3>2 DEF Next, Call, vars, kernvars, Recv, Resume, Return, PartsEnd, Answer,
                        Expire, on_connect
    <3> QED
      BY <3>1, <3>2
  <2> QED
    BY <2>1, <2>2
<1> QED
  BY <1>1, <1>2

\* When the client waits for an answer before it sends its next request, a low TTL or a
\* fake never reaches more than the part it is for, however often desync has to leave
\* and come back, and none is left when the request is out.  Parts with OFFSET_START are
\* done again on the way back, but send nothing unless they are urgent, which is left out.
THEOREM PartsAloneSpoilt ==
  ASSUME ~SameRound
  PROVE  Spec => []OnlyPartsSpoilt
<1> DEFINE Inv == /\ Types /\ StartInv /\ AnswerInv /\ LoopInv /\ CountInv
                  /\ DoneInv /\ HeldInv /\ SpoiltInv
<1>1. Init => Inv
  <2> SUFFICES ASSUME Init PROVE Inv
    OBVIOUS
  <2>1. Types
    BY InitTypes
  <2>2. /\ pc = "idle" /\ round_sent = 0 /\ part_sent = 0 /\ answered = FALSE /\ upset = {}
        /\ taken = 0 /\ hello = 0 /\ low = FALSE /\ fake = FALSE /\ spoilt = FALSE
    BY DEF Init
  <2>3. StartInv /\ DoneInv /\ SpoiltInv
    BY <2>2 DEF StartInv, DoneInv, SpoiltInv
  <2>4. AnswerInv /\ LoopInv /\ CountInv /\ BackInv
    BY <2>2 DEF AnswerInv, LoopInv, CountInv, Counted, BackInv, Held, InCall
  <2> QED
    BY <2>1, <2>3, <2>4 DEF HeldInv
<1>2. Inv /\ [Next]_vars => Inv'
  <2> SUFFICES ASSUME Inv, [Next]_vars PROVE Inv'
    OBVIOUS
  <2> QED
    BY StepTypes, StartStep, AnswerStep, LoopStep, CountStep, DoneStep, HeldStep, SpoiltStep
<1>3. Inv => OnlyPartsSpoilt
  <2> SUFFICES ASSUME HeldInv, SpoiltInv, upset = {}, ~TtlMayStay
               PROVE  ~spoilt /\ (pc = "idle" => ~low /\ ~fake)
    BY DEF OnlyPartsSpoilt
  <2>1. BackInv
    BY DEF HeldInv, Fine
  <2> QED
    BY <2>1 DEF BackInv, Held, SpoiltInv, Fine
<1> QED
  BY <1>1, <1>2, <1>3, PTL DEF Spec

=============================================================================
