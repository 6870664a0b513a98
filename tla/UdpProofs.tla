----------------------------- MODULE UdpProofs ------------------------------
(***************************************************************************)
(* Proofs about the datagrams of a UDP association, for any rounds and any *)
(* number of fakes and of datagrams: the fakes lead the datagrams they are *)
(* meant for (FakesLead).                                                  *)
(***************************************************************************)
EXTENDS Session, FiniteSetTheorems, SequenceTheorems, TLAPS

(***************************************************************************)
(* The rounds: the round_sent of the two slots are never set together, and *)
(* as long as no round was counted for an empty datagram, that of the      *)
(* client's slot says whether the last datagram was the client's, and      *)
(* round_count is the number of times the client has had the word.         *)
(***************************************************************************)
RoundsInv ==
  /\ ulog \in Seq({"c", "s", "x"}) /\ Len(ulog) <= MaxDgrams
  /\ {uport, udst, csent, rsent, uempty} \subseteq BOOLEAN
  /\ ~(csent /\ rsent)
  /\ uround \in 0..Len(ulog)
  /\ ~uempty =>
       /\ csent <=> Len(ulog) > 0 /\ ulog[Len(ulog)] # "s"
       /\ uround = Runs(ulog)

Item == [kind : {"fake", "data"}, ttl : {"def", "low"}, run : Nat]

WireInv ==
  /\ uwire \in Seq(Item)
  /\ ufail \in BOOLEAN
  /\ ttl = "def" \/ (ttl = "low" /\ ufail)
  /\ FakesLead

UdpInv == RoundsInv /\ WireInv

-----------------------------------------------------------------------------
Starts(log) == { i \in DOMAIN log : log[i] # "s" /\ (i = 1 \/ log[i - 1] = "s") }

LEMMA StartsFinite ==
  ASSUME NEW S, NEW log \in Seq(S)
  PROVE  /\ IsFiniteSet(Starts(log))
         /\ Cardinality(Starts(log)) \in Nat
         /\ Cardinality(Starts(log)) <= Len(log)
<1>1. Len(log) \in Nat /\ DOMAIN log = 1..Len(log)
  BY LenProperties
<1>2. IsFiniteSet(1..Len(log)) /\ Cardinality(1..Len(log)) = Len(log)
  BY <1>1, FS_Interval
<1>3. Starts(log) \in SUBSET (1..Len(log))
  BY <1>1 DEF Starts
<1>4. IsFiniteSet(Starts(log)) /\ Cardinality(Starts(log)) <= Cardinality(1..Len(log))
  BY <1>2, <1>3, FS_Subset
<1>5. Cardinality(Starts(log)) \in Nat
  BY <1>4, FS_CardinalityType
<1> QED
  BY <1>2, <1>4, <1>5

(***************************************************************************)
(* A datagram adds one to the runs if it is the client's and the first     *)
(* after an answer, or of all; else it adds nothing.                       *)
(***************************************************************************)
LEMMA RunsAppend ==
  ASSUME NEW S, NEW log \in Seq(S), NEW x \in S
  PROVE  Runs(Append(log, x)) =
           IF x # "s" /\ (Len(log) = 0 \/ log[Len(log)] = "s")
           THEN Runs(log) + 1 ELSE Runs(log)
<1> DEFINE n == Len(log)
           new == Append(log, x)
<1>1. n \in Nat /\ DOMAIN log = 1..n
  BY LenProperties
<1>2. /\ DOMAIN new = 1..(n + 1)
      /\ new[n + 1] = x
      /\ \A i \in 1..n : new[i] = log[i]
  BY <1>1
<1>3. IsFiniteSet(Starts(log)) /\ n + 1 \notin Starts(log)
  <2>1. IsFiniteSet(Starts(log))
    BY StartsFinite
  <2>2. n + 1 \notin Starts(log)
    BY <1>1 DEF Starts
  <2> QED
    BY <2>1, <2>2
<1>4. Runs(log) = Cardinality(Starts(log)) /\ Runs(new) = Cardinality(Starts(new))
  BY DEF Runs, Starts
<1> HIDE DEF new
<1>5. CASE x # "s" /\ (n = 0 \/ log[n] = "s")
  <2>1. Starts(new) = Starts(log) \cup {n + 1}
    BY <1>1, <1>2, <1>5 DEF Starts
  <2> QED
    BY <1>3, <1>4, <1>5, <2>1, FS_AddElement DEF new
<1>6. CASE ~(x # "s" /\ (n = 0 \/ log[n] = "s"))
  <2>1. Starts(new) = Starts(log)
    BY <1>1, <1>2, <1>6 DEF Starts
  <2> QED
    BY <1>4, <1>6, <2>1 DEF new
<1> QED
  BY <1>5, <1>6

-----------------------------------------------------------------------------
LEMMA RoundsStep ==
  ASSUME RoundsInv, on_udp_tunnel
  PROVE  RoundsInv'
<1> USE UdpAssumption
<1> DEFINE n == Len(ulog)
<1>0. /\ n \in Nat /\ ulog \in Seq({"c", "s", "x"})
      /\ csent \in BOOLEAN /\ rsent \in BOOLEAN /\ uport \in BOOLEAN /\ udst \in BOOLEAN
      /\ uempty \in BOOLEAN
      /\ uround \in 0..n /\ ~(csent /\ rsent)
  BY LenProperties DEF RoundsInv
<1>1. PICK x \in {"c", "s", "x"} :
        /\ ulog' = Append(ulog, x)
        /\ n < MaxDgrams
        /\ x = "s" <=> FromServer
        /\ x # "s" <=> FromClient
  BY DEF on_udp_tunnel, FromServer, FromClient
<1>2. /\ ulog' \in Seq({"c", "s", "x"})
      /\ Len(ulog') = n + 1
      /\ ulog'[n + 1] = x
      /\ Len(ulog') <= MaxDgrams
  BY <1>0, <1>1, AppendProperties
<1>3. Runs(ulog') = IF x # "s" /\ (n = 0 \/ ulog[n] = "s")
                    THEN Runs(ulog) + 1 ELSE Runs(ulog)
  BY <1>0, <1>1, RunsAppend
<1>4. ~uempty => (csent <=> n > 0 /\ ulog[n] # "s") /\ uround = Runs(ulog)
  BY DEF RoundsInv
<1>6. CASE x = "s"
  <2>1. csent' = FALSE /\ rsent' \in BOOLEAN /\ uround' = uround
        /\ uport' = uport /\ udst' = udst /\ uempty' = uempty
    BY <1>0, <1>1, <1>6 DEF FromServer
  <2>2. ~uempty' => uround' = Runs(ulog')
    BY <1>3, <1>4, <1>6, <2>1
  <2>3. uround' \in 0..(n + 1)
    BY <1>0, <2>1
  <2> QED
    BY <1>0, <1>2, <1>6, <2>1, <2>2, <2>3 DEF RoundsInv
<1>7. CASE x # "s"
  <2>0. PICK empty \in BOOLEAN :
          /\ Turn(empty)
          /\ uport' \in BOOLEAN /\ udst' \in BOOLEAN
    BY <1>0, <1>1, <1>7 DEF FromClient
  <2>a. \/ csent /\ UNCHANGED <<uround, csent, rsent, uempty>>
        \/ /\ ~csent /\ uround' = uround + 1 /\ csent' = ~empty
           /\ uempty' = (uempty \/ empty) /\ rsent' = FALSE
    BY <2>0, Zenon DEF Turn
  <2>b. uempty' \in BOOLEAN /\ csent' \in BOOLEAN /\ rsent' = FALSE
    BY <1>0, <2>a, Zenon
  <2>c. ~uempty' => ~uempty /\ csent' = TRUE
    BY <1>0, <2>a, Zenon
  <2>d. uround' = IF csent THEN uround ELSE uround + 1
    BY <2>a, Zenon
  <2>1. /\ uempty' \in BOOLEAN /\ csent' \in BOOLEAN /\ rsent' = FALSE
        /\ uround' \in 0..(n + 1)
    BY <1>0, <2>b, <2>d
  <2>2. ~uempty' => ~uempty /\ csent' = TRUE /\ uround' = IF csent THEN uround ELSE uround + 1
    BY <2>c, <2>d
  <2>3. ~uempty' => uround' = Runs(ulog')
    BY <1>0, <1>3, <1>4, <1>7, <2>2
  <2>4. ~uempty' => (csent' <=> Len(ulog') > 0 /\ ulog'[Len(ulog')] # "s")
    BY <1>0, <1>2, <1>7, <2>2
  <2> QED
    BY <1>2, <2>0, <2>1, <2>3, <2>4 DEF RoundsInv
<1> QED
  BY <1>6, <1>7

-----------------------------------------------------------------------------
(* The two halves of FakesLead for a given wire: where the fakes are, and  *)
(* the TTL of the data.                                                    *)
Leads(w) ==
  \A i \in DOMAIN w :
    /\ w[i].kind = "fake" => w[i].run \in UdpRounds
    /\ w[i].kind = "data" /\ w[i].run \in UdpRounds =>
         \A j \in (i - FakeCount)..(i - 1) :
           /\ j \in DOMAIN w
           /\ w[j].kind = "fake" /\ w[j].run = w[i].run

Far(w, failed) == \A i \in DOMAIN w : w[i].kind = "data" => w[i].ttl = "def" \/ failed

Fakes(k, r) == [i \in 1..k |-> [kind |-> "fake", ttl |-> "low", run |-> r]]

(***************************************************************************)
(* k fakes can be added to any wire, if their round asks for them.         *)
(***************************************************************************)
LEMMA AddFakes ==
  ASSUME NEW w \in Seq(Item), NEW k \in Nat, NEW r \in Nat
  PROVE  /\ w \o Fakes(k, r) \in Seq(Item)
         /\ \A f : Far(w, f) => Far(w \o Fakes(k, r), f)
         /\ Leads(w) /\ r \in UdpRounds => Leads(w \o Fakes(k, r))
         /\ Len(w \o Fakes(k, r)) = Len(w) + k
         /\ \A i \in (Len(w) + 1)..(Len(w) + k) :
              (w \o Fakes(k, r))[i].kind = "fake" /\ (w \o Fakes(k, r))[i].run = r
<1> USE UdpAssumption
<1> DEFINE item == [kind |-> "fake", ttl |-> "low", run |-> r]
           fakes == Fakes(k, r)
           v == w \o fakes
           n == Len(w)
<1>1. n \in Nat /\ DOMAIN w = 1..n /\ \A i \in 1..n : w[i] \in Item
  BY LenProperties, ElementOfSeq
<1>2. item \in Item /\ item.kind = "fake" /\ item.run = r
  BY DEF Item
<1>3. fakes \in Seq(Item) /\ Len(fakes) = k /\ \A i \in 1..k : fakes[i] = item
  <2>1. fakes = [i \in 1..k |-> item]
    BY DEF Fakes
  <2> HIDE DEF fakes, item
  <2> QED
    BY <1>2, <2>1
<1> HIDE DEF item
<1> HIDE DEF fakes
<1>4. /\ v \in Seq(Item) /\ Len(v) = n + k
      /\ \A i \in 1..n : v[i] = w[i]
      /\ \A i \in (n + 1)..(n + k) : v[i] = item
  <2>1. /\ v \in Seq(Item) /\ Len(v) = n + k
        /\ \A i \in 1..(n + k) : v[i] = IF i <= n THEN w[i] ELSE fakes[i - n]
    BY <1>3, ConcatProperties
  <2> HIDE DEF v
  <2> QED
    BY <1>1, <1>3, <2>1
<1>5. DOMAIN v = 1..(n + k)
  BY <1>4, LenProperties
<1> HIDE DEF v
<1>a. \A f : Far(w, f) => Far(v, f)
  BY <1>1, <1>2, <1>4, <1>5 DEF Far
<1>6. ASSUME Leads(w), r \in UdpRounds
      PROVE  Leads(v)
  <2>1. SUFFICES ASSUME NEW i \in 1..(n + k)
        PROVE /\ v[i].kind = "fake" => v[i].run \in UdpRounds
              /\ v[i].kind = "data" /\ v[i].run \in UdpRounds =>
                   \A j \in (i - FakeCount)..(i - 1) :
                     /\ j \in 1..(n + k)
                     /\ v[j].kind = "fake" /\ v[j].run = v[i].run
    BY <1>5 DEF Leads
  <2>2. CASE i \in 1..n
    <3>1. /\ w[i].kind = "fake" => w[i].run \in UdpRounds
          /\ w[i].kind = "data" /\ w[i].run \in UdpRounds =>
               \A j \in (i - FakeCount)..(i - 1) :
                 /\ j \in 1..n
                 /\ w[j].kind = "fake" /\ w[j].run = w[i].run
      BY <1>1, <1>6, <2>2 DEF Leads
    <3> QED
      BY <1>1, <1>4, <2>2, <3>1
  <2>3. CASE i \in (n + 1)..(n + k)
    BY <1>2, <1>4, <1>6, <2>3
  <2> QED
    BY <1>1, <2>2, <2>3
<1>7. \A i \in (n + 1)..(n + k) : v[i].kind = "fake" /\ v[i].run = r
  BY <1>2, <1>4
<1> QED
  BY <1>4, <1>a, <1>6, <1>7 DEF v, fakes

(***************************************************************************)
(* A datagram can be added where its fakes, if it has to have some, end.   *)
(***************************************************************************)
LEMMA AddData ==
  ASSUME NEW w \in Seq(Item), NEW d \in Item, d.kind = "data"
  PROVE  /\ Append(w, d) \in Seq(Item)
         /\ \A f : Far(w, f) /\ (d.ttl = "def" \/ f) => Far(Append(w, d), f)
         /\ /\ Leads(w)
            /\ d.run \in UdpRounds =>
                 /\ FakeCount <= Len(w)
                 /\ \A i \in (Len(w) + 1 - FakeCount)..Len(w) :
                      w[i].kind = "fake" /\ w[i].run = d.run
            => Leads(Append(w, d))
<1> USE UdpAssumption
<1> DEFINE v == Append(w, d)
           n == Len(w)
<1>1. n \in Nat /\ DOMAIN w = 1..n
  BY LenProperties
<1>2. /\ v \in Seq(Item) /\ Len(v) = n + 1
      /\ \A i \in 1..n : v[i] = w[i]
      /\ v[n + 1] = d
  BY AppendProperties
<1>3. DOMAIN v = 1..(n + 1)
  BY <1>2, LenProperties
<1> HIDE DEF v
<1>a. \A f : Far(w, f) /\ (d.ttl = "def" \/ f) => Far(v, f)
  BY <1>1, <1>2, <1>3 DEF Far
<1>4. ASSUME Leads(w),
             d.run \in UdpRounds =>
               /\ FakeCount <= n
               /\ \A i \in (n + 1 - FakeCount)..n :
                    w[i].kind = "fake" /\ w[i].run = d.run
      PROVE  Leads(v)
  <2>1. SUFFICES ASSUME NEW i \in 1..(n + 1)
        PROVE /\ v[i].kind = "fake" => v[i].run \in UdpRounds
              /\ v[i].kind = "data" /\ v[i].run \in UdpRounds =>
                   \A j \in (i - FakeCount)..(i - 1) :
                     /\ j \in 1..(n + 1)
                     /\ v[j].kind = "fake" /\ v[j].run = v[i].run
    BY <1>3 DEF Leads
  <2>2. CASE i \in 1..n
    <3>1. /\ w[i].kind = "fake" => w[i].run \in UdpRounds
          /\ w[i].kind = "data" /\ w[i].run \in UdpRounds =>
               \A j \in (i - FakeCount)..(i - 1) :
                 /\ j \in 1..n
                 /\ w[j].kind = "fake" /\ w[j].run = w[i].run
      BY <1>1, <1>4, <2>2 DEF Leads
    <3> QED
      BY <1>1, <1>2, <2>2, <3>1
  <2>3. CASE i = n + 1
    <3>1. v[i] = d
      BY <1>2, <2>3
    <3>2. ASSUME d.run \in UdpRounds, NEW j \in (i - FakeCount)..(i - 1)
          PROVE  j \in 1..(n + 1) /\ v[j].kind = "fake" /\ v[j].run = d.run
      <4>1. j \in 1..n /\ j \in (n + 1 - FakeCount)..n
        BY <1>1, <1>4, <2>3, <3>2
      <4> QED
        BY <1>1, <1>2, <1>4, <3>2, <4>1
    <3> QED
      BY <3>1, <3>2
  <2> QED
    BY <1>1, <2>2, <2>3
<1> QED
  BY <1>2, <1>a, <1>4 DEF v

-----------------------------------------------------------------------------
LEMMA WireStep ==
  ASSUME RoundsInv, WireInv, on_udp_tunnel
  PROVE  WireInv'
<1> USE UdpAssumption
<1>0. /\ uwire \in Seq(Item) /\ Far(uwire, ufail) /\ ufail \in BOOLEAN
      /\ ~uempty => Leads(uwire)
      /\ ttl = "def" \/ (ttl = "low" /\ ufail)
  BY DEF WireInv, FakesLead, Leads, Far
<1>1. RoundsInv'
  BY RoundsStep
<1>2. ulog' \in Seq({"c", "s", "x"}) /\ (~uempty' => uround' = Runs(ulog'))
  BY <1>1 DEF RoundsInv
<1>3. PICK r \in Nat : r = Runs(ulog')
  BY <1>2, StartsFinite DEF Runs, Starts
<1>4. ~uempty' => Leads(uwire)
  <2>1. uempty => uempty'
    BY DEF on_udp_tunnel, FromClient, FromServer, Turn
  <2> QED
    BY <1>0, <2>1
<1>5. SUFFICES /\ uwire' \in Seq(Item) /\ Far(uwire', ufail') /\ ufail' \in BOOLEAN
               /\ ~uempty' => Leads(uwire')
               /\ ttl' = "def" \/ (ttl' = "low" /\ ufail')
  BY DEF WireInv, FakesLead, Leads, Far
<1>6. CASE UNCHANGED <<ttl, uwire, ufail>>
  BY <1>0, <1>4, <1>6
<1> DEFINE d == Sent("data")
<1>7. ASSUME ttl' \in {"def", "low"}
      PROVE  d \in Item /\ d.kind = "data" /\ d.ttl = ttl' /\ d.run = r
  BY <1>3, <1>7 DEF Sent, Item
<1>8. CASE uround' \notin UdpRounds /\ UNCHANGED <<ttl, ufail>> /\ uwire' = Append(uwire, d)
  <2>1. d \in Item /\ d.kind = "data" /\ d.ttl = ttl' /\ d.run = r
    BY <1>0, <1>7, <1>8
  <2> HIDE DEF d
  <2>2. (~uempty' => d.run \notin UdpRounds) /\ (d.ttl = "def" \/ ufail)
    BY <1>0, <1>2, <1>3, <1>8, <2>1
  <2>3. Append(uwire, d) \in Seq(Item) /\ Far(Append(uwire, d), ufail)
    BY <1>0, <2>1, <2>2, AddData
  <2>4. ASSUME ~uempty' PROVE Leads(Append(uwire, d))
    BY <1>0, <1>4, <2>1, <2>2, <2>4, AddData
  <2> QED
    BY <1>0, <1>8, <2>3, <2>4
<1>9. CASE uround' \in UdpRounds /\ desync_udp
  <2>1. PICK k \in 0..FakeCount :
          \/ k < FakeCount /\ ttl' = "low" /\ ufail' = TRUE /\ uwire' = uwire \o Fakes(k, r)
          \/ /\ k = FakeCount /\ ttl' = "def" /\ UNCHANGED ufail
             /\ \/ uwire' = Append(uwire \o Fakes(k, r), d)
                \/ uwire' = uwire \o Fakes(k, r)
    <3>1. PICK k \in 0..FakeCount :
            IF k < FakeCount
            THEN ttl' = "low" /\ ufail' = TRUE /\ uwire' = uwire \o Fakes(k, r)
            ELSE /\ ttl' = "def" /\ UNCHANGED ufail
                 /\ \/ uwire' = Append(uwire \o Fakes(k, r), d)
                    \/ uwire' = uwire \o Fakes(k, r)
      BY <1>3, <1>9 DEF desync_udp, Fakes
    <3>2. k < FakeCount \/ k = FakeCount
      OBVIOUS
    <3> HIDE DEF d
    <3> QED
      BY <3>1, <3>2
  <2> DEFINE v == uwire \o Fakes(k, r)
  <2>2. /\ v \in Seq(Item)
        /\ \A f : Far(uwire, f) => Far(v, f)
        /\ Leads(uwire) /\ r \in UdpRounds => Leads(v)
        /\ Len(v) = Len(uwire) + k
        /\ \A i \in (Len(uwire) + 1)..(Len(uwire) + k) :
             v[i].kind = "fake" /\ v[i].run = r
    <3>1. k \in Nat /\ r \in Nat
      OBVIOUS
    <3>2. uwire \in Seq(Item)
      BY <1>0
    <3>3. v \in Seq(Item)
      BY <3>1, <3>2, AddFakes
    <3>4. Len(v) = Len(uwire) + k
      BY <3>1, <3>2, AddFakes
    <3>5. Leads(uwire) /\ r \in UdpRounds => Leads(v)
      BY <3>1, <3>2, AddFakes
    <3>6. \A f : Far(uwire, f) => Far(v, f)
      BY <3>1, <3>2, AddFakes
    <3>7. \A i \in (Len(uwire) + 1)..(Len(uwire) + k) :
             v[i].kind = "fake" /\ v[i].run = r
      BY <3>1, <3>2, AddFakes
    <3> QED
      BY <3>3, <3>4, <3>5, <3>6, <3>7
  <2> HIDE DEF v
  <2>a. ~uempty' => Leads(v)
    BY <1>2, <1>3, <1>4, <1>9, <2>2
  <2>b. Far(v, ufail')
    <3>1. Far(uwire, TRUE)
      BY DEF Far
    <3>2. ufail' = TRUE \/ ufail' = ufail
      BY <2>1
    <3> QED
      BY <1>0, <2>2, <3>1, <3>2
  <2>3. CASE uwire' = v
    BY <1>0, <2>1, <2>2, <2>3, <2>a, <2>b
  <2>4. CASE k = FakeCount /\ ttl' = "def" /\ UNCHANGED ufail /\ uwire' = Append(v, d)
    <3>1. d \in Item /\ d.kind = "data" /\ d.ttl = "def" /\ d.run = r
      BY <1>7, <2>4
    <3> HIDE DEF d
    <3>2. Len(uwire) \in Nat
      BY <1>0, LenProperties
    <3>3. FakeCount <= Len(v) /\ Len(v) + 1 - FakeCount = Len(uwire) + 1
      BY <2>2, <2>4, <3>2
    <3>4. \A i \in (Len(v) + 1 - FakeCount)..Len(v) : v[i].kind = "fake" /\ v[i].run = d.run
      BY <2>2, <2>4, <3>1, <3>3
    <3>5. uwire' \in Seq(Item) /\ Far(uwire', ufail')
      BY <2>2, <2>4, <2>b, <3>1, AddData
    <3>6. ~uempty' => Leads(uwire')
      BY <2>2, <2>4, <2>a, <3>1, <3>3, <3>4, AddData
    <3> QED
      BY <1>0, <2>4, <3>5, <3>6
  <2> QED
    BY <2>1, <2>3, <2>4 DEF v
<1> QED
  BY <1>6, <1>8, <1>9 DEF on_udp_tunnel, FromClient, FromServer, udp_hook

-----------------------------------------------------------------------------
LEMMA UdpInitInv == Init => UdpInv
<1> SUFFICES ASSUME Init PROVE UdpInv
  OBVIOUS
<1> USE UdpAssumption
<1>1. /\ uport = FALSE /\ udst = FALSE /\ uround = 0 /\ csent = FALSE /\ rsent = FALSE
      /\ ttl = "def" /\ ulog = <<>> /\ uwire = <<>> /\ ufail = FALSE /\ uempty = FALSE
  BY DEF Init, UdpInit
<1>2. Runs(<<>>) = 0
  <2>1. Starts(<<>>) = {}
    BY DEF Starts
  <2> QED
    BY <2>1, FS_EmptySet DEF Runs, Starts
<1>3. RoundsInv
  <2>1. ulog \in Seq({"c", "s", "x"}) /\ Len(ulog) = 0
    BY <1>1, EmptySeq
  <2>2. {uport, udst, csent, rsent, uempty} \subseteq BOOLEAN
    BY <1>1
  <2> QED
    BY <1>1, <1>2, <2>1, <2>2 DEF RoundsInv
<1>4. WireInv
  <2>1. uwire \in Seq(Item) /\ DOMAIN uwire = {}
    BY <1>1, EmptySeq
  <2> QED
    BY <1>1, <2>1 DEF WireInv, FakesLead
<1> QED
  BY <1>3, <1>4 DEF UdpInv

LEMMA UdpStepInv == UdpInv /\ [Next]_vars => UdpInv'
<1> SUFFICES ASSUME UdpInv, [Next]_vars PROVE UdpInv'
  OBVIOUS
<1>1. CASE Datagram
  BY <1>1, RoundsStep, WireStep DEF Datagram, UdpInv
<1>2. CASE UNCHANGED udpvars
  BY <1>2 DEF udpvars, UdpInv, RoundsInv, WireInv, FakesLead, Runs
<1> QED
  BY <1>1, <1>2 DEF Next, vars

\* Every datagram of either side, and every failed send, keeps the invariant.
THEOREM UdpInvariant == Spec => []UdpInv
BY UdpInitInv, UdpStepInv, PTL DEF Spec

(***************************************************************************)
(* However the datagrams of the two sides, of strangers and failed sends   *)
(* follow each other, udp_hook counts the rounds as they are meant until   *)
(* an empty datagram at the client's socket is counted as one, so that     *)
(* desync_udp sends its fakes ahead of every datagram of the rounds asked  *)
(* for, and only there; and the TTL of a fake is never left for the        *)
(* client's data unless a fake could not be sent.                          *)
(***************************************************************************)
THEOREM FakesAlwaysLead == Spec => []FakesLead
<1>1. UdpInv => FakesLead
  BY DEF UdpInv, WireInv
<1> QED
  BY <1>1, UdpInvariant, PTL
=============================================================================
