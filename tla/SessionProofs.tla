---------------------------- MODULE SessionProofs ----------------------------
(***************************************************************************)
(* Proofs about one client of the proxy, for all modes, buffer sizes and   *)
(* numbers of bytes and connections, with and without automatic reconnects *)
(* and delayed connections: the types, and that request and answer arrive  *)
(* whole (RequestWhole, AnswerWhole, RepliesFirst).                        *)
(***************************************************************************)
EXTENDS UdpProofs

ServerByte == {"data"} \X Nat \X Nat
Reply == {"auth", "noauth", "ok", "err", "data"} \X Nat \X Nat
Connecting == {"connect", "socks_conn", "socks_recv"}
Ends == {"no", "assert", "null"}

\* What TypeOK says, and what the sequences and buffers hold.
Types ==
  /\ mode \in Modes
  /\ ccb \in {"request", "delayed", "ignore", "tunnel", "udp", "closed"}
  /\ rcb \in Connecting \cup {"none", "tunnel"}
  /\ flag \in {"none", "s4", "s5", "http"}
  /\ cmask \in {"none", "in", "out"} /\ rmask \in {"none", "in", "out"}
  /\ pc \in {"idle", "flush", "up", "down"}
  /\ crecv \in 0..MaxUp /\ rrecv \in 0..MaxDown
  /\ conn \in 0..MaxConns /\ hops \in 0..2
  /\ gone \subseteq {"client", "remote"}
  /\ nogroup \in BOOLEAN /\ early \in BOOLEAN /\ twice \in BOOLEAN
  /\ odd \subseteq Oddities /\ dead \in Ends
  /\ wire \in Seq(Nat)
  /\ said \in Seq(Reply)
  /\ sq = NULL \/ (sq \in Seq(Nat) /\ Len(sq) <= BufSize)
  /\ cbuff = NULL \/ (cbuff \in Buffers(Nat) /\ cbuff.offset <= Len(cbuff.data))
  /\ rbuff = NULL \/ (rbuff \in Buffers(ServerByte) /\ rbuff.offset < Len(rbuff.data))

\* Which callbacks the two slots can have together, and what is still empty
\* in the states before the tunnel.
Phase ==
  /\ ccb = "tunnel" <=> rcb = "tunnel"
  /\ ccb = "ignore" <=> rcb \in Connecting
  /\ pc # "idle" => ccb = "tunnel"
  /\ pc = "up" => cbuff = NULL
  /\ pc = "down" => rbuff = NULL
  /\ ccb \in {"request", "delayed"} => cbuff = NULL /\ sq = NULL /\ crecv = 0
  /\ ccb \in {"request", "delayed", "ignore"} => rrecv = 0 /\ rbuff = NULL
  /\ rcb \in Connecting => wire = <<>>

\* How many bytes a buffer still has to send.
Left(b) == IF b = NULL THEN 0 ELSE Len(b.data) - b.offset

(***************************************************************************)
(* sq_buff, if there is one, holds all that the client has sent.  What is  *)
(* on the wire and what is in the buffer make up all of it, too, unless    *)
(* desync has sent something else, or the request was put back without a   *)
(* reconnect; if it was because of the groups, it is all in the buffer and *)
(* setup_conn will not let it pass.                                        *)
(***************************************************************************)
RequestInv ==
  /\ wire # <<>> => hops = 0
  /\ rcb = "tunnel" /\ hops # 0 => "remote" \in gone
  /\ rcb = "connect" => hops = 0
  /\ sq # NULL => Len(sq) = crecv /\ \A i \in 1..crecv : sq[i] = i
  /\ ~twice /\ wire # Garbled => \A i \in 1..Len(wire) : wire[i] = i
  /\ nogroup /\ ccb # "closed" => cbuff # NULL /\ Len(cbuff.data) = crecv
  /\ ~nogroup /\ ~twice /\ ccb # "closed" =>
       /\ Left(cbuff) <= crecv
       /\ crecv = 0 => wire = <<>>
       /\ wire # Garbled => Len(wire) + Left(cbuff) = crecv
       /\ cbuff # NULL =>
            \A i \in 1..Len(cbuff.data) : cbuff.data[i] = crecv - Len(cbuff.data) + i

(***************************************************************************)
(* r replies, then the data of the present socket.  Once data has been     *)
(* read the first request is not kept, which rules out a reconnect.        *)
(***************************************************************************)
Answered(r) ==
  /\ \A i \in 1..r : said[i][1] # "data"
  /\ \A i \in (r + 1)..Len(said) : said[i] = <<"data", conn, i - r>>
  /\ ccb # "closed" =>
       /\ Len(said) - r = rrecv - Left(rbuff)
       /\ rbuff # NULL =>
            \A i \in 1..Len(rbuff.data) :
              rbuff.data[i] = <<"data", conn, rrecv - Len(rbuff.data) + i>>

AnswerInv ==
  ~early => /\ rrecv > 0 => sq = NULL /\ crecv > 0
            /\ \E r \in 0..Len(said) : Answered(r)

\* A client with a protocol has been told that it is connected when the tunnel
\* begins, and also when it is connected again.
ToldInv ==
  flag # "none" /\ "raw" \notin odd =>
    /\ ccb \in {"delayed", "tunnel"} => Told
    /\ ccb = "ignore" /\ (cbuff # NULL \/ sq # NULL) => Told
    /\ ~early => \A i \in 1..Len(said) :
                   said[i][1] = "data" => \E j \in 1..(i - 1) : said[j][1] = "ok"

SessionInv == Types /\ Phase /\ RequestInv /\ AnswerInv /\ ToldInv

-----------------------------------------------------------------------------
(* Sequences and buffers                                                   *)

LEMMA Prefix ==
  ASSUME NEW S, NEW d \in Seq(S), NEW k \in 0..Len(d)
  PROVE  /\ SubSeq(d, 1, k) \in Seq(S)
         /\ Len(SubSeq(d, 1, k)) = k
         /\ \A i \in 1..k : SubSeq(d, 1, k)[i] = d[i]
<1>1. Len(d) \in Nat /\ \A i \in 1..Len(d) : d[i] \in S
  BY LenProperties, ElementOfSeq
<1>2. \A i \in 1..k : d[i] \in S
  BY <1>1
<1>3. /\ SubSeq(d, 1, k) \in Seq(S)
      /\ Len(SubSeq(d, 1, k)) = IF 1 <= k THEN k - 1 + 1 ELSE 0
      /\ \A i \in 1..(k - 1 + 1) : SubSeq(d, 1, k)[i] = d[1 + i - 1]
  <2>1. 1 \in Int /\ k \in Int
    BY <1>1
  <2> QED
    BY <1>2, <2>1, SubSeqProperties
<1> QED
  BY <1>1, <1>3

LEMMA FunctionSeq ==
  ASSUME NEW S, NEW n \in Nat, NEW f \in [1..n -> S]
  PROVE  f \in Seq(S) /\ Len(f) = n
OBVIOUS

\* What is left of a buffer, and the first k bytes of it.
LEMMA RestTaken ==
  ASSUME NEW S, NEW b \in Buffers(S), b.offset <= Len(b.data)
  PROVE  /\ b.data \in Seq(S) /\ Len(b.data) \in Nat /\ b.offset \in Nat
         /\ Rest(b) \in Seq(S)
         /\ Len(Rest(b)) = Len(b.data) - b.offset
         /\ \A k \in 0..Len(Rest(b)) :
              /\ SubSeq(Rest(b), 1, k) \in Seq(S)
              /\ Len(SubSeq(Rest(b), 1, k)) = k
              /\ \A i \in 1..k : SubSeq(Rest(b), 1, k)[i] = b.data[b.offset + i]
<1> DEFINE d == b.data
           o == b.offset
           n == Len(d)
<1>1. d \in Seq(S) /\ o \in Nat
  BY DEF Buffers
<1>2. n \in Nat /\ \A i \in 1..n : d[i] \in S
  BY <1>1, LenProperties, ElementOfSeq
<1> HIDE DEF d, o
<1>3. \A i \in (o + 1)..n : d[i] \in S
  BY <1>1, <1>2
<1>4. /\ SubSeq(d, o + 1, n) \in Seq(S)
      /\ Len(SubSeq(d, o + 1, n)) = IF o + 1 <= n THEN n - (o + 1) + 1 ELSE 0
      /\ \A i \in 1..(n - (o + 1) + 1) : SubSeq(d, o + 1, n)[i] = d[o + 1 + i - 1]
  <2>1. o + 1 \in Int /\ n \in Int
    BY <1>1, <1>2
  <2> QED
    BY <1>3, <2>1, SubSeqProperties
<1>5. o <= n
  BY DEF d, o
<1>6. /\ Rest(b) \in Seq(S)
      /\ Len(Rest(b)) = n - o
      /\ \A i \in 1..(n - o) : Rest(b)[i] = d[o + i]
  <2>1. Rest(b) = SubSeq(d, o + 1, n)
    BY DEF Rest, d, o
  <2>2. n - (o + 1) + 1 = n - o
    BY <1>1, <1>2
  <2>3. ASSUME NEW i \in 1..(n - o) PROVE Rest(b)[i] = d[o + i]
    <3>1. o + 1 + i - 1 = o + i
      BY <1>1, <1>2
    <3>2. Rest(b)[i] = d[o + 1 + i - 1]
      BY <1>4, <2>1, <2>2
    <3> QED
      BY <3>1, <3>2
  <2>4. Len(Rest(b)) = n - o
    BY <1>1, <1>2, <1>4, <1>5, <2>1
  <2> QED
    BY <1>4, <2>1, <2>3, <2>4
<1>7. ASSUME NEW k \in 0..Len(Rest(b))
      PROVE  /\ SubSeq(Rest(b), 1, k) \in Seq(S)
             /\ Len(SubSeq(Rest(b), 1, k)) = k
             /\ \A i \in 1..k : SubSeq(Rest(b), 1, k)[i] = d[o + i]
  <2>1. /\ SubSeq(Rest(b), 1, k) \in Seq(S)
        /\ Len(SubSeq(Rest(b), 1, k)) = k
        /\ \A i \in 1..k : SubSeq(Rest(b), 1, k)[i] = Rest(b)[i]
    BY <1>6, Prefix
  <2> QED
    BY <1>1, <1>2, <1>5, <1>6, <2>1
<1> QED
  BY <1>1, <1>2, <1>6, <1>7 DEF d, o

LEMMA NewBuffer ==
  ASSUME NEW S, NEW d \in Seq(S), NEW k \in Nat
  PROVE  LET b == [data |-> d, offset |-> k]
         IN b \in Buffers(S) /\ b.data = d /\ b.offset = k
BY DEF Buffers

LEMMA Replied ==
  ASSUME Types, NEW x \in {"auth", "noauth", "ok", "err"}
  PROVE  /\ Say(x) \in Seq(Reply)
         /\ Len(Say(x)) = Len(said) + 1
         /\ Say(x)[Len(said) + 1] = <<x, 0, 0>>
         /\ \A i \in 1..Len(said) : Say(x)[i] = said[i]
<1>1. <<x, 0, 0>> \in Reply
  BY DEF Reply
<1>2. said \in Seq(Reply)
  BY DEF Types
<1> QED
  BY <1>1, <1>2, AppendProperties DEF Say

\* Nothing has been answered yet where the proxy may reply.
LEMMA NoData ==
  ASSUME Types, AnswerInv, ~early, ccb # "closed", rrecv = 0
  PROVE  \A i \in 1..Len(said) : said[i][1] # "data"
<1>1. PICK r \in 0..Len(said) : Answered(r)
  BY DEF AnswerInv
<1>2. Len(said) \in Nat
  BY LenProperties DEF Types
<1>3. Left(rbuff) >= 0 /\ Left(rbuff) \in Int
  <2>1. CASE rbuff = NULL
    BY <2>1 DEF Left
  <2>2. CASE rbuff # NULL
    <3>1. rbuff \in Buffers(ServerByte) /\ rbuff.offset < Len(rbuff.data)
      BY <2>2 DEF Types
    <3>2. rbuff.offset \in Nat /\ Len(rbuff.data) \in Nat
      BY <3>1, LenProperties DEF Buffers
    <3> QED
      BY <2>2, <3>1, <3>2 DEF Left
  <2> QED
    BY <2>1, <2>2
<1>4. Len(said) - r = 0 - Left(rbuff)
  BY <1>1 DEF Answered
<1>5. r = Len(said)
  BY <1>2, <1>3, <1>4
<1> QED
  BY <1>1, <1>5 DEF Answered

-----------------------------------------------------------------------------
(***************************************************************************)
(* The end of a session, perhaps with a last reply before any data.        *)
(***************************************************************************)
LEMMA DropStep ==
  ASSUME SessionInv, Drop, dead' \in Ends,
         \/ said' = said
         \/ /\ ccb \in {"request", "ignore"}
            /\ \E x \in {"noauth", "err"} : said' = Say(x)
  PROVE  SessionInv'
<1> USE SessionAssumption
<1>0. Types /\ Phase /\ RequestInv /\ AnswerInv /\ ToldInv
  BY DEF SessionInv
<1>1. /\ said' \in Seq(Reply)
      /\ Len(said') \in Nat /\ Len(said) \in Nat /\ Len(said') >= Len(said)
      /\ \A i \in 1..Len(said) : said'[i] = said[i]
      /\ \A i \in (Len(said) + 1)..Len(said') : said'[i][1] # "data"
  <2>1. said \in Seq(Reply) /\ Len(said) \in Nat
    BY <1>0, LenProperties DEF Types
  <2>2. CASE said' = said
    BY <2>1, <2>2
  <2>3. ASSUME NEW x \in {"noauth", "err"}, said' = Say(x)
        PROVE  <1>1!:
    BY <1>0, <2>1, <2>3, Replied
  <2> QED
    BY <2>2, <2>3
<1>2. Types'
  <2>1. UNCHANGED <<mode, flag, crecv, nogroup, conn, rrecv, hops, wire, gone, early, twice, odd>>
    BY DEF Drop
  <2> QED
    BY <1>0, <1>1, <2>1 DEF Drop, Types
<1>3. Phase'
  BY DEF Drop, Phase, Connecting
<1>4. RequestInv'
  BY <1>0 DEF Drop, RequestInv, Connecting
<1>5. AnswerInv'
  <2>1. SUFFICES ASSUME ~early
        PROVE  /\ rrecv' > 0 => sq' = NULL /\ crecv' > 0
               /\ (\E r \in 0..Len(said) : Answered(r))'
    BY DEF AnswerInv, Drop
  <2>2. rrecv' > 0 => sq' = NULL /\ crecv' > 0
    BY <1>0, <2>1 DEF AnswerInv, Drop
  <2>3. CASE said' = said
    <3>1. PICK r \in 0..Len(said) : Answered(r)
      BY <1>0, <2>1 DEF AnswerInv
    <3>2. Answered(r)'
      BY <2>3, <3>1 DEF Answered, Drop
    <3> QED
      BY <2>2, <2>3, <3>1, <3>2
  <2>4. CASE ccb \in {"request", "ignore"}
    <3>1. rrecv = 0
      BY <1>0, <2>4 DEF Phase
    <3>2. \A i \in 1..Len(said) : said[i][1] # "data"
      BY <1>0, <2>1, <2>4, <3>1, NoData
    <3>3. \A i \in 1..Len(said') : said'[i][1] # "data"
      BY <1>1, <3>2
    <3>4. PICK r \in Nat : r = Len(said')
      BY <1>1
    <3>5. Answered(r)'
      BY <3>3, <3>4 DEF Answered, Drop
    <3>6. r \in 0..Len(said')
      BY <3>4
    <3> QED
      BY <2>2, <3>5, <3>6
  <2> QED
    BY <2>3, <2>4
<1>6. ToldInv'
  <2>1. SUFFICES ASSUME flag # "none", "raw" \notin odd, ~early,
                 NEW i \in 1..Len(said'), said'[i][1] = "data"
        PROVE  \E j \in 1..(i - 1) : said'[j][1] = "ok"
    BY DEF ToldInv, Drop
  <2>2. i \in 1..Len(said) /\ said[i][1] = "data"
    BY <1>1, <2>1
  <2>3. PICK j \in 1..(i - 1) : said[j][1] = "ok"
    BY <1>0, <2>1, <2>2 DEF ToldInv
  <2>4. said'[j][1] = "ok"
    BY <1>1, <2>2, <2>3
  <2> QED
    BY <2>4
<1> QED
  BY <1>2, <1>3, <1>4, <1>5, <1>6 DEF SessionInv

-----------------------------------------------------------------------------
(***************************************************************************)
(* connect_hook with the buffer b, for the client's flag f: what has to    *)
(* hold of the buffer, sq_buff and the count for the invariant to hold     *)
(* with the new socket, or while the client's data is waited for.          *)
(***************************************************************************)
LEMMA HookStep ==
  ASSUME SessionInv, NEW b, NEW f \in {"none", "s4", "s5", "http"},
         ccb # "closed",
         connect_hook(b, f), cbuff' = b, flag' = f, pc' = "idle",
         UNCHANGED <<mode, nogroup, early, twice, dead>>,
         odd' \subseteq Oddities, "raw" \in odd => "raw" \in odd',
         crecv' \in 0..MaxUp,
         sq' = NULL \/ (sq' \in Seq(Nat) /\ Len(sq') <= BufSize),
         sq' # NULL => Len(sq') = crecv' /\ \A i \in 1..crecv' : sq'[i] = i,
         b = NULL \/ (b \in Buffers(Nat) /\ b.offset <= Len(b.data)),
         b = NULL => sq' = NULL /\ crecv' = 0 /\ rrecv = 0 /\ (twice \/ wire = <<>>),
         ~twice => /\ Left(b) = crecv'
                   /\ b # NULL =>
                        \A i \in 1..Len(b.data) : b.data[i] = crecv' - Len(b.data) + i,
         ~early => rrecv = 0,
         f # "none" /\ b # NULL => Told \/ "raw" \in odd'
  PROVE  SessionInv'
<1> USE SessionAssumption
<1>0. Types /\ Phase /\ RequestInv /\ AnswerInv /\ ToldInv
  BY DEF SessionInv
<1>1. nogroup = FALSE /\ nogroup' = FALSE
  BY <1>0 DEF connect_hook, Types
\* The connection is put off, or begun.
<1> DEFINE Later == /\ b = NULL
                    /\ resp_error("ok", f)
                    /\ ccb' = "delayed"
                    /\ rcb' = "none" /\ rmask' = "none" /\ rbuff' = NULL
                    /\ gone' = gone \ {"remote"}
                    /\ UNCHANGED <<cmask, conn, rrecv, hops, wire>>
           Begun == create_conn /\ UNCHANGED said
<1>2. Later \/ Begun
  BY DEF connect_hook
<1>3. /\ said' \in Seq(Reply)
      /\ Len(said') \in Nat /\ Len(said) \in Nat /\ Len(said') >= Len(said)
      /\ \A i \in 1..Len(said) : said'[i] = said[i]
      /\ \A i \in (Len(said) + 1)..Len(said') : said'[i][1] # "data"
      /\ ccb' = "delayed" /\ f # "none" => said'[Len(said')][1] = "ok" /\ Len(said') > 0
  <2>1. said \in Seq(Reply) /\ Len(said) \in Nat
    BY <1>0, LenProperties DEF Types
  <2>2. CASE said' = said /\ ~(ccb' = "delayed" /\ f # "none")
    BY <2>1, <2>2
  <2>3. CASE said' = Say("ok")
    BY <1>0, <2>1, <2>3, Replied
  <2> QED
    BY <1>2, <2>2, <2>3 DEF resp_error, create_conn
<1>4. Types'
  <2>1. /\ UNCHANGED mode /\ ccb' \in {"delayed", "ignore"}
        /\ rcb' \in Connecting \cup {"none", "tunnel"}
        /\ cmask' \in {"none", "in", "out"} /\ rmask' \in {"none", "in", "out"}
        /\ conn' \in 0..MaxConns /\ hops' \in 0..2 /\ rrecv' \in 0..MaxDown
        /\ gone' \subseteq {"client", "remote"}
        /\ wire' \in Seq(Nat)
        /\ rbuff' = NULL
    <3>1. CASE Later
      BY <1>0, <3>1 DEF Types, Connecting
    <3>2. CASE Begun
      BY <1>0, <3>2, EmptySeq DEF create_conn, Types, Connecting
    <3> QED
      BY <1>2, <3>1, <3>2
  <2>2. /\ nogroup' \in BOOLEAN /\ early' \in BOOLEAN
        /\ twice' \in BOOLEAN /\ dead' \in Ends
    BY <1>0 DEF Types
  <2>3. mode' \in Modes
    BY <1>0, <2>1 DEF Types
  <2> HIDE DEF Later, Begun
  <2> QED
    BY <1>3, <2>1, <2>2, <2>3 DEF Types
<1>5. /\ rbuff' = NULL
      /\ b = NULL \/ ccb' = "ignore"
      /\ rrecv' = 0
      /\ \/ ccb' = "delayed" /\ rcb' = "none"
         \/ ccb' = "ignore" /\ rcb' \in Connecting
      /\ ccb' = "ignore" => wire' = <<>> /\ said' = said
      /\ ccb' = "delayed" => wire' = wire /\ hops' = hops
      /\ rcb' = "connect" => hops' = 0
  <2>1. CASE Later
    <3>1. /\ b = NULL /\ ccb' = "delayed" /\ rcb' = "none" /\ rbuff' = NULL
          /\ rrecv' = rrecv /\ hops' = hops /\ wire' = wire /\ rrecv = 0
      BY <2>1
    <3> HIDE DEF Later
    <3> QED
      BY <2>1, <3>1
  <2>2. CASE Begun
    BY <2>2 DEF create_conn, Connecting
  <2> QED
    BY <1>2, <2>1, <2>2
<1>6. Phase'
  BY <1>5 DEF Phase, Connecting
<1>7. RequestInv'
  <2>1. wire' # <<>> => hops' = 0
    BY <1>0, <1>5 DEF RequestInv
  <2>2. ~twice' => wire' = <<>>
    BY <1>5
  <2>3. Len(<<>>) = 0 /\ Left(b) \in Int
    <3>1. CASE b = NULL
      BY <3>1 DEF Left
    <3>2. CASE b # NULL
      <4>1. Len(b.data) \in Nat /\ b.offset \in Nat
        BY <3>2, LenProperties DEF Buffers
      <4> QED
        BY <3>2, <4>1 DEF Left
    <3> QED
      BY <3>1, <3>2
  <2>4. ~twice' => /\ Len(wire') + Left(cbuff') = crecv'
                   /\ cbuff' # NULL => \A i \in 1..Len(cbuff'.data) :
                                         cbuff'.data[i] = crecv' - Len(cbuff'.data) + i
                   /\ \A i \in 1..Len(wire') : wire'[i] = i
    <3>1. SUFFICES ASSUME ~twice
                   PROVE  /\ Len(wire') + Left(b) = crecv'
                          /\ b # NULL => \A i \in 1..Len(b.data) :
                                           b.data[i] = crecv' - Len(b.data) + i
                          /\ \A i \in 1..Len(wire') : wire'[i] = i
      OBVIOUS
    <3>2. Len(wire') = 0 /\ Left(b) = crecv'
      BY <2>2, <2>3, <3>1
    <3>3. Len(wire') + Left(b) = crecv'
      BY ONLY <2>3, <3>2
    <3>4. b # NULL => \A i \in 1..Len(b.data) : b.data[i] = crecv' - Len(b.data) + i
      BY <3>1
    <3>5. \A i \in 1..Len(wire') : wire'[i] = i
      BY ONLY <3>2
    <3> QED
      BY ONLY <3>3, <3>4, <3>5
  <2>5. rcb' # "tunnel"
    BY <1>5 DEF Connecting
  <2>6. ~twice' => Left(cbuff') <= crecv'
    BY <2>4
  <2> QED
    BY <1>1, <1>5, <2>1, <2>4, <2>5, <2>6 DEF RequestInv, Left
<1>8. AnswerInv'
  <2>1. SUFFICES ASSUME ~early
        PROVE  (\E r \in 0..Len(said) : Answered(r))'
    BY <1>5 DEF AnswerInv
  <2>2. \A i \in 1..Len(said) : said[i][1] # "data"
    BY <1>0, <2>1, NoData
  <2>3. \A i \in 1..Len(said') : said'[i][1] # "data"
    BY ONLY <1>3, <2>2
  <2>4. PICK r \in Nat : r = Len(said')
    BY <1>3
  <2>5. Len(said') - r = rrecv' - Left(rbuff')
    BY <1>5, <2>4 DEF Left
  <2>6. Answered(r)'
    BY <1>5, <2>3, <2>4, <2>5 DEF Answered, Left
  <2>7. r \in 0..Len(said')
    BY <2>4
  <2> QED
    BY <2>6, <2>7
<1>9. ToldInv'
  <2>1. ASSUME f # "none", ccb' = "delayed" PROVE Told'
    <3>1. Len(said') \in 1..Len(said') /\ said'[Len(said')][1] = "ok"
      BY <1>3, <1>5, <2>1
    <3> QED
      BY <3>1 DEF Told
  <2>2. ASSUME f # "none", "raw" \notin odd', ccb' = "ignore",
               cbuff' # NULL \/ sq' # NULL
        PROVE  Told'
    BY <1>5, <2>2 DEF Told
  <2>3. ASSUME ~early PROVE \A i \in 1..Len(said') : said'[i][1] # "data"
    <3>1. \A i \in 1..Len(said) : said[i][1] # "data"
      BY <1>0, <2>3, NoData
    <3> QED
      BY ONLY <1>3, <3>1
  <2> HIDE DEF Later, Begun
  <2> QED
    BY <1>5, <2>1, <2>2, <2>3 DEF ToldInv
<1> QED
  BY <1>4, <1>6, <1>7, <1>8, <1>9 DEF SessionInv

-----------------------------------------------------------------------------
(***************************************************************************)
(* reconnect, when on_trigger or on_response may call it.                  *)
(***************************************************************************)
LEMMA ReconnectStep ==
  ASSUME SessionInv, reconnect, UNCHANGED dead, ccb \in {"ignore", "tunnel"},
         sq # NULL \/ (crecv = 0 /\ rrecv = 0)
  PROVE  SessionInv'
<1> USE SessionAssumption
<1>0. Types /\ Phase /\ RequestInv /\ AnswerInv /\ ToldInv
  BY DEF SessionInv
<1> DEFINE b == Again
<1>1. /\ connect_hook(b, flag) /\ cbuff' = b /\ flag' = flag /\ pc' = "idle"
      /\ UNCHANGED <<mode, nogroup, early, twice, dead>>
      /\ sq' = sq /\ crecv' = crecv
  BY DEF reconnect
<1>2. /\ flag \in {"none", "s4", "s5", "http"} /\ crecv \in 0..MaxUp
      /\ sq = NULL \/ (sq \in Seq(Nat) /\ Len(sq) <= BufSize)
      /\ sq # NULL => Len(sq) = crecv /\ \A i \in 1..crecv : sq[i] = i
  BY <1>0 DEF Types, RequestInv
<1>3. ~nogroup
  BY <1>1 DEF connect_hook
<1>4. ~early => rrecv = 0
  BY <1>0 DEF AnswerInv, Types
<1>5. /\ odd' \subseteq Oddities
      /\ "raw" \in odd => "raw" \in odd'
      /\ flag # "none" /\ b # NULL => Told \/ "raw" \in odd'
  <2>1. odd' = (odd \ {"stuck"}) \cup (IF Again = NULL /\ Told THEN {"retold"} ELSE {})
    BY DEF reconnect
  <2>2. odd' \subseteq Oddities /\ ("raw" \in odd => "raw" \in odd')
    BY <1>0, <2>1 DEF Types, Oddities
  <2> QED
    BY <1>0, <2>2 DEF ToldInv, Again
<1>6. CASE sq # NULL
  <2>1. b = [data |-> sq, offset |-> 0]
    BY <1>6 DEF Again, Buffer
  <2>2. b \in Buffers(Nat) /\ b.data = sq /\ b.offset = 0
    BY <1>2, <1>6, <2>1, NewBuffer
  <2> HIDE DEF b
  <2>3. b # NULL
    BY <2>2
  <2>4. Len(sq) \in Nat
    BY <1>2, <1>6, LenProperties
  <2>5. Left(b) = crecv' /\ b.offset <= Len(b.data)
    BY <1>1, <1>2, <1>6, <2>2, <2>3, <2>4 DEF Left
  <2>6. \A i \in 1..Len(b.data) : b.data[i] = crecv' - Len(b.data) + i
    BY <1>1, <1>2, <1>6, <2>2, <2>4
  <2> QED
    BY <1>1, <1>2, <1>4, <1>5, <2>2, <2>3, <2>5, <2>6, HookStep
<1>7. CASE sq = NULL
  <2>1. b = cbuff /\ crecv = 0 /\ rrecv = 0
    BY <1>7 DEF Again
  <2> HIDE DEF b
  <2>2. b = NULL \/ (b \in Buffers(Nat) /\ b.offset <= Len(b.data))
    BY <1>0, <2>1 DEF Types
  <2>3. /\ Left(b) \in Nat
        /\ b = NULL => Left(b) = 0
    <3>1. CASE b = NULL
      BY <3>1 DEF Left
    <3>2. CASE b # NULL
      <4>1. Len(b.data) \in Nat /\ b.offset \in Nat
        BY <2>2, <3>2, LenProperties DEF Buffers
      <4> QED
        BY <2>2, <3>2, <4>1 DEF Left
    <3> QED
      BY <3>1, <3>2
  <2>4. wire \in Seq(Nat) /\ Len(wire) \in Nat
    BY <1>0, LenProperties DEF Types
  <2>5. ASSUME ~twice
        PROVE  /\ Left(b) = crecv' /\ wire = <<>>
               /\ b # NULL => \A i \in 1..Len(b.data) : b.data[i] = crecv' - Len(b.data) + i
    <3>1. /\ wire = <<>> /\ Left(b) <= 0
          /\ b # NULL => \A i \in 1..Len(b.data) : b.data[i] = 0 - Len(b.data) + i
      BY <1>0, <1>3, <2>1, <2>5 DEF RequestInv
    <3>2. Left(b) = 0
      BY <2>3, <3>1
    <3> QED
      BY <1>1, <2>1, <3>1, <3>2
  <2>6. twice \/ wire = <<>>
    BY <2>5
  <2> QED
    BY <1>1, <1>2, <1>4, <1>5, <1>7, <2>1, <2>2, <2>5, <2>6, HookStep
<1> QED
  BY <1>6, <1>7

(***************************************************************************)
(* on_trigger, and the ends of it: another socket or no session.           *)
(***************************************************************************)
LEMMA TriggerStep ==
  ASSUME SessionInv, TriggerOrClose, ccb = "tunnel"
  PROVE  SessionInv'
<1>1. CASE CanReconnect /\ reconnect /\ UNCHANGED dead
  BY <1>1, ReconnectStep DEF CanReconnect
<1>2. CASE Close /\ UNCHANGED said
  BY <1>2, DropStep DEF Close, SessionInv, Types
<1> QED
  BY <1>1, <1>2 DEF TriggerOrClose

LEMMA RefuseStep ==
  ASSUME SessionInv, NEW f, Refuse(f), ccb \in {"request", "ignore"}
  PROVE  SessionInv'
<1>1. Drop /\ dead' = dead /\ resp_error("err", f)
  BY DEF Refuse, Close
<1>2. dead' \in Ends
  BY <1>1 DEF SessionInv, Types
<1>3. said' = said \/ said' = Say("err")
  BY <1>1 DEF resp_error
<1> QED
  BY <1>1, <1>2, <1>3, DropStep

LEMMA CloseStep ==
  ASSUME SessionInv, Close, UNCHANGED said
  PROVE  SessionInv'
BY DropStep DEF Close, SessionInv, Types

LEMMA FailedStep ==
  ASSUME SessionInv, ConnectFailed, ccb = "ignore"
  PROVE  SessionInv'
<1>1. CASE CanReconnect /\ reconnect /\ UNCHANGED dead
  BY <1>1, ReconnectStep DEF CanReconnect
<1>2. CASE Refuse(flag)
  BY <1>2, RefuseStep
<1> QED
  BY <1>1, <1>2 DEF ConnectFailed

-----------------------------------------------------------------------------
(* on_request and recv_and_connect                                         *)

LEMMA ConnectStep ==
  ASSUME SessionInv, NEW f \in {"none", "s4", "s5", "http"},
         ccb = "request", ConnectOrRefuse(f)
  PROVE  SessionInv'
<1> USE SessionAssumption
<1>0. Types /\ Phase /\ RequestInv /\ AnswerInv /\ ToldInv
  BY DEF SessionInv
<1>1. CASE connect_hook(NULL, f) /\ flag' = f /\ UNCHANGED cbuff /\ Quiet
  <2>1. /\ cbuff = NULL /\ sq = NULL /\ crecv = 0 /\ rrecv = 0 /\ pc = "idle"
        /\ 0 \in 0..MaxUp
    BY <1>0 DEF Phase, Types
  <2>2. /\ cbuff' = NULL /\ sq' = NULL /\ crecv' = 0 /\ pc' = "idle"
        /\ UNCHANGED <<mode, nogroup, early, twice, odd, dead>> /\ odd \subseteq Oddities
    BY <1>0, <1>1, <2>1 DEF Quiet, Types
  <2>3. ~nogroup
    BY <1>1 DEF connect_hook
  <2>4. twice \/ wire = <<>>
    BY <1>0, <2>1, <2>3 DEF RequestInv
  <2>5. Left(NULL) = 0
    BY DEF Left
  <2> QED
    BY <1>1, <2>1, <2>2, <2>4, <2>5, HookStep
<1>2. CASE Refuse(f)
  BY <1>2, RefuseStep
<1> QED
  BY <1>1, <1>2 DEF ConnectOrRefuse

\* The bytes the client sends next.
LEMMA Bytes ==
  ASSUME NEW from \in Nat, NEW k \in Nat
  PROVE  LET d == [i \in 1..k |-> from + i]
         IN d \in Seq(Nat) /\ Len(d) = k /\ \A i \in 1..k : d[i] = from + i
OBVIOUS

(***************************************************************************)
(* tcp_recv_hook keeps all that the client has sent or nothing.            *)
(***************************************************************************)
LEMMA KeptWhole ==
  ASSUME Types, RequestInv, NEW k \in 1..BufSize
  PROVE  LET q == Kept(NextBytes(k))
         IN q = NULL \/ /\ q \in Seq(Nat) /\ Len(q) <= BufSize
                        /\ Len(q) = crecv + k
                        /\ \A i \in 1..(crecv + k) : q[i] = i
<1> USE SessionAssumption
<1> DEFINE d == NextBytes(k)
           first == IF sq = NULL THEN <<>> ELSE sq
           q == first \o d
<1>1. crecv \in Nat /\ k \in Nat /\ BufSize \in Nat
  BY DEF Types
<1>2. d \in Seq(Nat) /\ Len(d) = k /\ \A i \in 1..k : d[i] = crecv + i
  BY <1>1, Bytes DEF NextBytes
<1>3. SUFFICES ASSUME ~(sq = NULL /\ crecv # 0), ~(Len(q) >= BufSize), Kept(d) = q
               PROVE  /\ q \in Seq(Nat) /\ Len(q) <= BufSize
                      /\ Len(q) = crecv + k
                      /\ \A i \in 1..(crecv + k) : q[i] = i
  BY DEF Kept
<1>4. /\ first \in Seq(Nat) /\ Len(first) = crecv
      /\ \A i \in 1..crecv : first[i] = i
  <2>1. CASE sq = NULL
    BY <1>3, <2>1, EmptySeq
  <2>2. CASE sq # NULL
    BY <2>2 DEF Types, RequestInv
  <2> QED
    BY <2>1, <2>2
<1> HIDE DEF first, d
<1>5. /\ q \in Seq(Nat) /\ Len(q) = crecv + k
      /\ \A i \in 1..(crecv + k) : q[i] = IF i <= crecv THEN first[i] ELSE d[i - crecv]
  <2>1. /\ q \in Seq(Nat) /\ Len(q) = Len(first) + Len(d)
        /\ \A i \in 1..(Len(first) + Len(d)) :
             q[i] = IF i <= Len(first) THEN first[i] ELSE d[i - Len(first)]
    BY <1>2, <1>4, ConcatProperties
  <2> HIDE DEF q
  <2> QED
    BY <1>2, <1>4, <2>1
<1> HIDE DEF q
<1>6. ASSUME NEW i \in 1..(crecv + k) PROVE q[i] = i
  <2>1. CASE i <= crecv
    BY <1>1, <1>4, <1>5, <2>1
  <2>2. CASE ~(i <= crecv)
    <3>1. i - crecv \in 1..k /\ crecv + (i - crecv) = i
      BY <1>1, <2>2
    <3> QED
      BY <1>2, <1>5, <2>2, <3>1
  <2> QED
    BY <2>1, <2>2
<1> QED
  BY <1>1, <1>3, <1>5, <1>6

LEMMA RawStep ==
  ASSUME SessionInv, ccb = "request", RawData
  PROVE  SessionInv'
<1> USE SessionAssumption
<1>0. Types /\ Phase /\ RequestInv /\ AnswerInv /\ ToldInv
  BY DEF SessionInv
<1>1. ASSUME NEW k \in Nat, k <= BufSize, k <= MaxUp,
             crecv' = k,
             cbuff' = Buffer([i \in 1..k |-> i]),
             save_buffer([i \in 1..k |-> i]),
             connect_hook(cbuff', flag),
             odd' = IF flag = "none" THEN odd ELSE odd \cup {"raw"},
             UNCHANGED <<mode, flag, nogroup, pc, early, twice, dead>>
      PROVE  SessionInv'
  <2> DEFINE d == [i \in 1..k |-> i]
             b == cbuff'
  <2>1. d \in Seq(Nat) /\ Len(d) = k /\ \A i \in 1..k : d[i] = i
    OBVIOUS
  <2>2. b = [data |-> d, offset |-> 0]
    BY <1>1 DEF Buffer
  <2>3. sq' = NULL \/ sq' = d
    BY <1>1 DEF save_buffer
  <2> HIDE DEF d
  <2>4. b \in Buffers(Nat) /\ b.data = d /\ b.offset = 0
    BY <2>1, <2>2, NewBuffer
  <2>5. b # NULL
    BY <2>4
  <2>6. Left(b) = crecv' /\ b.offset <= Len(b.data)
    BY <1>1, <2>1, <2>4, <2>5 DEF Left
  <2>7. \A i \in 1..Len(b.data) : b.data[i] = crecv' - Len(b.data) + i
    <3>1. \A i \in 1..k : i = k - k + i
      OBVIOUS
    <3> HIDE DEF b
    <3> QED
      BY <1>1, <2>1, <2>4, <3>1
  <2>8. sq' = NULL \/ (sq' \in Seq(Nat) /\ Len(sq') <= BufSize)
    BY <1>1, <2>1, <2>3
  <2>9. sq' # NULL => Len(sq') = crecv' /\ \A i \in 1..crecv' : sq'[i] = i
    BY <1>1, <2>1, <2>3
  <2>10. pc' = "idle" /\ rrecv = 0 /\ crecv' \in 0..MaxUp /\ flag' = flag
         /\ flag \in {"none", "s4", "s5", "http"}
    BY <1>0, <1>1 DEF Phase, Types
  <2>11. connect_hook(b, flag) /\ cbuff' = b
    BY <1>1
  <2>12. /\ odd' \subseteq Oddities
         /\ "raw" \in odd => "raw" \in odd'
         /\ flag # "none" => "raw" \in odd'
    BY <1>0, <1>1 DEF Types, Oddities
  <2> HIDE DEF b
  <2> QED
    BY <1>1, <2>4, <2>5, <2>6, <2>7, <2>8, <2>9, <2>10, <2>11, <2>12, HookStep
<1>2. CASE Refuse(flag)
  BY <1>2, RefuseStep
<1>3. CASE ~Refuse(flag)
  <2>1. PICK k \in (IF "ss" \in mode THEN 0 ELSE 1)..BufSize :
          /\ k <= MaxUp
          /\ crecv' = k
          /\ cbuff' = Buffer([i \in 1..k |-> i])
          /\ save_buffer([i \in 1..k |-> i])
          /\ connect_hook(cbuff', flag)
          /\ odd' = IF flag = "none" THEN odd ELSE odd \cup {"raw"}
          /\ UNCHANGED <<mode, flag, nogroup, pc, early, twice, dead>>
    BY <1>3 DEF RawData
  <2>2. k \in Nat /\ k <= BufSize
    OBVIOUS
  <2> QED
    BY <1>1, <2>1, <2>2
<1> QED
  BY <1>2, <1>3

LEMMA DelayedStep ==
  ASSUME SessionInv, recv_and_connect
  PROVE  SessionInv'
<1> USE SessionAssumption
<1>0. Types /\ Phase /\ RequestInv /\ AnswerInv /\ ToldInv
  BY DEF SessionInv
<1>1. ASSUME NEW k \in 1..BufSize, crecv + k <= MaxUp,
             crecv' = crecv + k,
             sq' = Kept(NextBytes(k)),
             cbuff' = Buffer(NextBytes(k)),
             connect_hook(cbuff', flag),
             UNCHANGED <<mode, flag, nogroup, pc, early, twice, odd, dead>>
      PROVE  SessionInv'
  <2> DEFINE d == NextBytes(k)
             b == cbuff'
  <2>1. crecv = 0 /\ rrecv = 0 /\ pc = "idle" /\ ccb = "delayed"
    BY <1>0 DEF Phase, recv_and_connect
  <2>2. d \in Seq(Nat) /\ Len(d) = k /\ \A i \in 1..k : d[i] = i
    BY <2>1, Bytes DEF NextBytes
  <2>3. b = [data |-> d, offset |-> 0]
    BY <1>1 DEF Buffer
  <2>4. \/ sq' = NULL
        \/ /\ sq' \in Seq(Nat) /\ Len(sq') <= BufSize
           /\ Len(sq') = crecv' /\ \A i \in 1..crecv' : sq'[i] = i
    BY <1>0, <1>1, KeptWhole
  <2> HIDE DEF d
  <2>5. b \in Buffers(Nat) /\ b.data = d /\ b.offset = 0
    BY <2>2, <2>3, NewBuffer
  <2>6. b # NULL
    BY <2>5
  <2>7. Left(b) = crecv' /\ b.offset <= Len(b.data)
    BY <1>1, <2>1, <2>2, <2>5, <2>6 DEF Left
  <2>8. \A i \in 1..Len(b.data) : b.data[i] = crecv' - Len(b.data) + i
    BY <1>1, <2>1, <2>2, <2>5
  <2>9. /\ pc' = "idle" /\ crecv' \in 0..MaxUp /\ flag' = flag
        /\ flag \in {"none", "s4", "s5", "http"}
        /\ odd' = odd /\ odd \subseteq Oddities
        /\ flag # "none" => Told \/ "raw" \in odd
    BY <1>0, <1>1, <2>1 DEF ToldInv, Types
  <2>10. connect_hook(b, flag) /\ cbuff' = b
    BY <1>1
  <2> HIDE DEF b
  <2> QED
    BY <1>1, <2>1, <2>4, <2>5, <2>6, <2>7, <2>8, <2>9, <2>10, HookStep
<1>2. CASE Close /\ UNCHANGED said
  BY <1>2, CloseStep
<1>3. CASE Drop /\ dead' = "null" /\ UNCHANGED said
  BY <1>3, DropStep DEF Ends
<1> QED
  BY <1>1, <1>2, <1>3 DEF recv_and_connect

-----------------------------------------------------------------------------
(***************************************************************************)
(* A reply of the proxy while nothing has been read from a server.         *)
(***************************************************************************)
LEMMA ReplyFacts ==
  ASSUME Types, said' = said \/ \E x \in {"auth", "noauth", "ok", "err"} : said' = Say(x)
  PROVE  /\ said' \in Seq(Reply)
         /\ Len(said') \in Nat /\ Len(said) \in Nat /\ Len(said') >= Len(said)
         /\ \A i \in 1..Len(said) : said'[i] = said[i]
         /\ \A i \in (Len(said) + 1)..Len(said') : said'[i][1] # "data"
<1>1. said \in Seq(Reply) /\ Len(said) \in Nat
  BY LenProperties DEF Types
<1>2. CASE said' = said
  BY <1>1, <1>2
<1>3. ASSUME NEW x \in {"auth", "noauth", "ok", "err"}, said' = Say(x)
      PROVE  /\ said' \in Seq(Reply)
             /\ Len(said') \in Nat /\ Len(said) \in Nat /\ Len(said') >= Len(said)
             /\ \A i \in 1..Len(said) : said'[i] = said[i]
             /\ \A i \in (Len(said) + 1)..Len(said') : said'[i][1] # "data"
  BY <1>1, <1>3, Replied
<1> QED
  BY <1>2, <1>3

LEMMA ReplyStep ==
  ASSUME Types, AnswerInv, ccb # "closed", rrecv = 0, rrecv' = 0, rbuff' = NULL,
         early' = early,
         said' = said \/ \E x \in {"auth", "noauth", "ok", "err"} : said' = Say(x)
  PROVE  /\ AnswerInv'
         /\ ~early' => \A i \in 1..Len(said') : said'[i][1] # "data"
<1>1. ASSUME ~early
      PROVE  /\ \A i \in 1..Len(said') : said'[i][1] # "data"
             /\ (\E r \in 0..Len(said) : Answered(r))'
  <2>1. \A i \in 1..Len(said) : said[i][1] # "data"
    BY <1>1, NoData
  <2>2. \A i \in 1..Len(said') : said'[i][1] # "data"
    BY <2>1, ReplyFacts
  <2>3. PICK r \in Nat : r = Len(said')
    BY ReplyFacts
  <2>4. Len(said') - r = rrecv' - Left(rbuff')
    BY <2>3 DEF Left
  <2>5. Answered(r)'
    BY <2>2, <2>3, <2>4 DEF Answered, Left
  <2>6. r \in 0..Len(said')
    BY <2>3
  <2> QED
    BY <2>2, <2>5, <2>6
<1> QED
  BY <1>1 DEF AnswerInv

\* The greeting is answered, or an association is begun.
LEMMA GreetStep ==
  ASSUME SessionInv, ccb = "request",
         \E x \in {"auth", "ok"} : said' = Say(x),
         flag' \in {"none", "s4", "s5", "http"},
         ccb' \in {"request", "udp"}, cmask' \in {"none", "in", "out"},
         UNCHANGED <<cbuff, remotevars, gone>>, Quiet
  PROVE  SessionInv'
<1> USE SessionAssumption
<1>0. Types /\ Phase /\ RequestInv /\ AnswerInv /\ ToldInv
  BY DEF SessionInv
<1>1. UNCHANGED <<mode, sq, crecv, nogroup, pc, early, twice, odd, dead, cbuff, conn, rcb,
                  rmask, rbuff, rrecv, hops, wire, gone>>
  BY DEF Quiet, remotevars
<1>2. /\ rrecv = 0 /\ rbuff = NULL /\ rcb = "none" /\ pc = "idle"
  BY <1>0 DEF Phase, Types
<1>3. Types'
  BY <1>0, <1>1, ReplyFacts DEF Types
<1>4. Phase'
  BY <1>0, <1>1, <1>2 DEF Phase, Connecting
<1>5. RequestInv'
  BY <1>0, <1>1, <1>2 DEF RequestInv, Left
<1>6. AnswerInv' /\ (~early' => \A i \in 1..Len(said') : said'[i][1] # "data")
  <2>1. rrecv' = 0 /\ rbuff' = NULL /\ early' = early
    BY <1>1, <1>2
  <2> QED
    BY <1>0, <1>2, <2>1, ReplyStep
<1>7. ToldInv'
  BY <1>6 DEF ToldInv
<1> QED
  BY <1>3, <1>4, <1>5, <1>6, <1>7 DEF SessionInv

(***************************************************************************)
(* Steps that move neither bytes nor the client: the other proxy answers,  *)
(* on_tunnel's loop ends, a peer resets its socket.                        *)
(***************************************************************************)
LEMMA StillStep ==
  ASSUME SessionInv,
         UNCHANGED <<mode, clientvars, conn, rbuff, rrecv, wire, said, early, twice, odd, dead>>,
         rmask' \in {"none", "in", "out"}, pc' \in {pc, "idle"},
         gone \subseteq gone', gone' \subseteq {"client", "remote"},
         \/ rcb' = rcb /\ hops' = hops
         \/ rcb = "socks_recv" /\ rcb' = rcb /\ hops' = 1
         \/ rcb = "socks_conn" /\ rcb' = "socks_recv" /\ hops' = hops
  PROVE  SessionInv'
<1> USE SessionAssumption
<1>0. Types /\ Phase /\ RequestInv /\ AnswerInv /\ ToldInv
  BY DEF SessionInv
<1>1. UNCHANGED <<mode, ccb, flag, cmask, cbuff, sq, crecv, nogroup, conn, rbuff, rrecv,
                  wire, said, early, twice, odd, dead>>
  BY DEF clientvars
<1>2. Types'
  BY <1>0, <1>1 DEF Types, Connecting
<1>3. Phase'
  BY <1>0, <1>1 DEF Phase, Connecting
<1>4. RequestInv'
  <2>1. wire' # <<>> => hops' = 0
    BY <1>0, <1>1 DEF RequestInv, Phase, Connecting
  <2>2. rcb' = "tunnel" /\ hops' # 0 => "remote" \in gone'
    BY <1>0 DEF RequestInv
  <2>3. rcb' = "connect" => hops' = 0
    BY <1>0 DEF RequestInv
  <2> QED
    BY <1>0, <1>1, <2>1, <2>2, <2>3 DEF RequestInv, Left
<1>5. AnswerInv'
  <2>1. \A r : Answered(r) => Answered(r)'
    BY <1>1 DEF Answered, Left
  <2> QED
    BY <1>0, <1>1, <2>1 DEF AnswerInv
<1>6. ToldInv'
  BY <1>0, <1>1 DEF ToldInv, Told
<1> QED
  BY <1>2, <1>3, <1>4, <1>5, <1>6 DEF SessionInv

(***************************************************************************)
(* on_connect: the tunnel begins, with the client's data or with a reply.  *)
(***************************************************************************)
LEMMA DoneStep ==
  ASSUME SessionInv, ConnectDone, rcb \in Connecting,
         hops' \in 0..2, hops' = 0 \/ "remote" \in gone
  PROVE  SessionInv'
<1> USE SessionAssumption
<1>0. Types /\ Phase /\ RequestInv /\ AnswerInv /\ ToldInv
  BY DEF SessionInv
<1>1. /\ ccb' = "tunnel" /\ rcb' = "tunnel" /\ cmask' = "in" /\ rmask' = "in"
      /\ UNCHANGED <<mode, flag, cbuff, sq, crecv, nogroup, conn, rbuff, rrecv, wire,
                     gone, early, twice, odd, dead>>
  BY DEF ConnectDone
<1>2. ccb = "ignore" /\ rrecv = 0 /\ rbuff = NULL /\ pc = "idle" /\ wire = <<>>
  BY <1>0 DEF Phase
<1>3. \/ cbuff # NULL /\ pc' = "flush" /\ said' = said
      \/ cbuff = NULL /\ pc' = "idle" /\ flag = "none" /\ said' = said
      \/ cbuff = NULL /\ pc' = "idle" /\ flag # "none" /\ said' = Say("ok")
  BY <1>2 DEF ConnectDone, resp_error
<1>4. said' = said \/ \E x \in {"auth", "noauth", "ok", "err"} : said' = Say(x)
  BY <1>3
<1>5. Types'
  <2>1. pc' \in {"idle", "flush"}
    BY <1>3
  <2>2. said' \in Seq(Reply)
    BY <1>0, <1>4, ReplyFacts
  <2> QED
    BY <1>0, <1>1, <2>1, <2>2 DEF Types
<1>6. Phase'
  BY <1>1, <1>2, <1>3 DEF Phase, Connecting
<1>7. RequestInv'
  <2>1. ccb # "closed" /\ ccb' # "closed" /\ rcb' # "connect"
    BY <1>1, <1>2
  <2>2. rcb' = "tunnel" /\ hops' # 0 => "remote" \in gone'
    BY <1>1
  <2> QED
    BY <1>0, <1>1, <1>2, <2>1, <2>2 DEF RequestInv, Left
<1>8. AnswerInv' /\ (~early' => \A i \in 1..Len(said') : said'[i][1] # "data")
  <2>1. rrecv' = 0 /\ rbuff' = NULL /\ early' = early /\ ccb # "closed"
    BY <1>1, <1>2
  <2> QED
    BY <1>0, <1>2, <1>4, <2>1, ReplyStep
<1>9. ToldInv'
  <2>1. ASSUME flag # "none", "raw" \notin odd PROVE Told'
    <3>1. CASE cbuff # NULL
      <4>1. Told /\ said' = said
        BY <1>0, <1>2, <1>3, <2>1, <3>1 DEF ToldInv
      <4> QED
        BY <4>1 DEF Told
    <3>2. CASE cbuff = NULL
      <4>1. said' = Say("ok")
        BY <1>3, <2>1, <3>2
      <4>2. Len(said') = Len(said) + 1 /\ said'[Len(said) + 1] = <<"ok", 0, 0>>
        BY <1>0, <4>1, Replied
      <4>3. Len(said) \in Nat
        BY <1>0, LenProperties DEF Types
      <4>4. Len(said) + 1 \in 1..Len(said') /\ said'[Len(said) + 1][1] = "ok"
        BY <4>2, <4>3
      <4> QED
        BY <4>4 DEF Told
    <3> QED
      BY <3>1, <3>2
  <2> QED
    BY <1>1, <1>8, <2>1 DEF ToldInv
<1> QED
  BY <1>5, <1>6, <1>7, <1>8, <1>9 DEF SessionInv

-----------------------------------------------------------------------------
(* on_tunnel                                                               *)

\* The client's side of what the server's data does, and the other way round.
LEMMA SameAnswer ==
  ASSUME AnswerInv, ccb # "closed", UNCHANGED <<rrecv, conn, said, rbuff, early>>,
         sq = NULL /\ crecv > 0 => sq' = NULL, crecv > 0 => crecv' > 0
  PROVE  AnswerInv'
<1>1. \A r : Answered(r) => Answered(r)'
  BY DEF Answered, Left
<1> QED
  BY <1>1 DEF AnswerInv

LEMMA Joined ==
  ASSUME NEW S, NEW w \in Seq(S), NEW p \in Seq(S)
  PROVE  /\ w \o p \in Seq(S) /\ Len(w \o p) = Len(w) + Len(p)
         /\ \A i \in 1..Len(w) : (w \o p)[i] = w[i]
         /\ \A i \in 1..Len(p) : (w \o p)[Len(w) + i] = p[i]
<1>1. PICK m \in Nat : m = Len(w)
  BY LenProperties
<1>2. PICK k \in Nat : k = Len(p)
  BY LenProperties
<1> DEFINE v == w \o p
<1>3. /\ v \in Seq(S) /\ Len(v) = m + k
      /\ \A i \in 1..(m + k) : v[i] = IF i <= m THEN w[i] ELSE p[i - m]
  BY <1>1, <1>2, ConcatProperties
<1> HIDE DEF v
<1>4. \A i \in 1..m : v[i] = w[i]
  BY <1>3
<1>5. ASSUME NEW i \in 1..k PROVE v[m + i] = p[i]
  <2>1. m + i \in 1..(m + k) /\ ~(m + i <= m) /\ (m + i) - m = i
    OBVIOUS
  <2> QED
    BY <1>3, <2>1
<1> QED
  BY <1>1, <1>2, <1>3, <1>4, <1>5 DEF v

\* Bytes sent in order, after those before them.
LEMMA WireGrows ==
  ASSUME NEW w \in Seq(Nat), NEW p \in Seq(Nat),
         \A i \in 1..Len(w) : w[i] = i,
         \A i \in 1..Len(p) : p[i] = Len(w) + i
  PROVE  \A i \in 1..Len(w \o p) : (w \o p)[i] = i
<1>1. Len(w) \in Nat /\ Len(p) \in Nat
  BY LenProperties
<1> DEFINE v == w \o p
<1>2. /\ Len(v) = Len(w) + Len(p)
      /\ \A i \in 1..Len(w) : v[i] = w[i]
      /\ \A i \in 1..Len(p) : v[Len(w) + i] = p[i]
  BY Joined
<1> HIDE DEF v
<1>3. ASSUME NEW i \in 1..Len(v) PROVE v[i] = i
  <2>0. PICK m \in Nat : m = Len(w)
    BY <1>1
  <2>1. CASE i <= Len(w)
    <3>1. i \in Int /\ 1 <= i
      BY ONLY <1>1, <1>2, <1>3
    <3>2. i \in 1..Len(w)
      BY ONLY <2>0, <2>1, <3>1
    <3>3. v[i] = w[i] /\ w[i] = i
      BY <1>2, <3>2
    <3> QED
      BY ONLY <3>3
  <2>2. CASE ~(i <= Len(w))
    <3>1. i - Len(w) \in 1..Len(p) /\ i = Len(w) + (i - Len(w))
      BY <1>1, <1>2, <2>2
    <3> QED
      BY <1>2, <3>1
  <2> QED
    BY <2>1, <2>2
<1>4. \A i \in 1..Len(v) : v[i] = i
  BY ONLY <1>3
<1> QED
  BY ONLY <1>4 DEF v

\* The wire after tcp_send_hook: longer by what it reports, or garbled.
LEMMA SentPart ==
  ASSUME wire \in Seq(Nat), NEW d \in Seq(Nat), NEW k \in 0..Len(d), NEW w \in tcp_send_hook(d, k)
  PROVE  /\ w \in Seq(Nat)
         /\ w # Garbled => wire # Garbled /\ w = wire \o SubSeq(d, 1, k)
         /\ Len(d) = 0 /\ wire = <<>> => w = <<>>
<1>1. SubSeq(d, 1, k) \in Seq(Nat)
  BY Prefix
<1>2. wire \o SubSeq(d, 1, k) \in Seq(Nat)
  BY <1>1, Joined
<1>3. Garbled \in Seq(Nat)
  BY DEF Garbled
<1>4. w = Garbled \/ (wire # Garbled /\ w = wire \o SubSeq(d, 1, k))
  BY DEF tcp_send_hook
<1>5. ASSUME Len(d) = 0, wire = <<>> PROVE w = <<>>
  <2>1. d = <<>> /\ k = 0
    BY <1>5, EmptySeq
  <2>2. Len(wire) = 0 /\ Len(SubSeq(d, 1, k)) = 0
    BY <1>5, <2>1, Prefix
  <2>3. Len(wire \o SubSeq(d, 1, k)) = 0
    BY <1>1, <2>2, Joined
  <2>4. wire \o SubSeq(d, 1, k) = <<>>
    BY <1>2, <2>3, EmptySeq
  <2>5. wire # Garbled
    BY <1>5 DEF Garbled
  <2> QED
    BY <2>1, <2>4, <2>5 DEF tcp_send_hook
<1> QED
  BY <1>2, <1>3, <1>4, <1>5

(***************************************************************************)
(* Bytes of the buffer go to the server.                                   *)
(***************************************************************************)
LEMMA FlushUpStep ==
  ASSUME SessionInv, cbuff # NULL, ccb = "tunnel", "remote" \notin gone, SetupDone,
         NEW k \in 0..Len(Rest(cbuff)), wire' \in tcp_send_hook(Rest(cbuff), k),
         IF k < Len(Rest(cbuff))
         THEN /\ cbuff' = [cbuff EXCEPT !.offset = @ + k]
              /\ odd' = odd \cup (IF pc = "flush" THEN {"stuck"} ELSE {})
              /\ pc' = "idle" /\ UNCHANGED <<cmask, rmask>>
         ELSE /\ cbuff' = NULL
              /\ odd' = odd \ {"stuck"}
              /\ BothIn /\ pc' = "up",
         UNCHANGED <<mode, ccb, flag, sq, crecv, nogroup, conn, rcb, rbuff, rrecv,
                     hops, gone, said, early, twice, dead>>
  PROVE  SessionInv'
<1> USE SessionAssumption
<1>0. Types /\ Phase /\ RequestInv /\ AnswerInv /\ ToldInv
  BY DEF SessionInv
<1> DEFINE part == SubSeq(Rest(cbuff), 1, k)
<1>1. cbuff \in Buffers(Nat) /\ cbuff.offset <= Len(cbuff.data)
  BY <1>0 DEF Types
<1>a. PICK n \in Nat : n = Len(cbuff.data)
  BY <1>1, RestTaken
<1>b. PICK o \in Nat : o = cbuff.offset
  BY <1>1, RestTaken
<1>2. /\ o <= n /\ Rest(cbuff) \in Seq(Nat) /\ Len(Rest(cbuff)) = n - o
      /\ part \in Seq(Nat) /\ Len(part) = k
      /\ \A i \in 1..k : part[i] = cbuff.data[o + i]
  BY <1>1, <1>a, <1>b, RestTaken
<1>c. k \in Nat /\ o + k <= n
  BY <1>2
<1>3. wire \in Seq(Nat) /\ Len(wire) \in Nat /\ crecv \in Nat
  BY <1>0, LenProperties DEF Types
<1>4. /\ wire' \in Seq(Nat) /\ (wire' # Garbled => wire # Garbled /\ wire' = wire \o part)
      /\ Len(Rest(cbuff)) = 0 /\ wire = <<>> => wire' = <<>>
  <2>1. PICK w \in tcp_send_hook(Rest(cbuff), k) : w = wire'
    OBVIOUS
  <2> QED
    BY <1>2, <1>3, <2>1, SentPart
<1>d. Len(wire \o part) = Len(wire) + k
  BY <1>2, <1>3, Joined
<1> HIDE DEF part
<1>5. nogroup = FALSE /\ hops = 0 /\ nogroup' = FALSE
  BY <1>0 DEF SetupDone, RequestInv, Phase, Types
<1>e. odd' \subseteq Oddities /\ ("raw" \in odd => "raw" \in odd')
  <2>1. odd' \subseteq odd \cup {"stuck"} /\ odd \ {"stuck"} \subseteq odd'
    OBVIOUS
  <2> QED
    BY <1>0, <2>1 DEF Types, Oddities
<1>6. \/ /\ k < n - o /\ pc' = "idle"
         /\ cbuff' \in Buffers(Nat) /\ cbuff'.data = cbuff.data /\ cbuff'.offset = o + k
         /\ UNCHANGED <<cmask, rmask>>
      \/ k = n - o /\ cbuff' = NULL /\ pc' = "up" /\ cmask' = "in" /\ rmask' = "in"
  <2>1. CASE k < n - o
    <3>1. cbuff' = [cbuff EXCEPT !.offset = @ + k] /\ pc' = "idle" /\ UNCHANGED <<cmask, rmask>>
      BY <1>2, <2>1
    <3>2. o + k \in Nat
      BY <1>c
    <3>3. cbuff' \in Buffers(Nat) /\ cbuff'.data = cbuff.data /\ cbuff'.offset = o + k
      BY <1>1, <1>b, <3>1, <3>2 DEF Buffers
    <3> QED
      BY <2>1, <3>1, <3>3
  <2>2. CASE ~(k < n - o)
    <3>1. k = n - o
      BY <1>2, <2>2
    <3> QED
      BY <1>2, <2>2, <3>1 DEF BothIn
  <2> QED
    BY <2>1, <2>2
<1>7. Types'
  <2>1. cbuff' = NULL \/ (cbuff' \in Buffers(Nat) /\ cbuff'.offset <= Len(cbuff'.data))
    BY <1>a, <1>c, <1>6
  <2>2. /\ pc' \in {"idle", "flush", "up", "down"}
        /\ cmask' \in {"none", "in", "out"} /\ rmask' \in {"none", "in", "out"}
    BY <1>0, <1>6 DEF Types
  <2> QED
    BY <1>0, <1>4, <1>e, <2>1, <2>2 DEF Types
<1>8. Phase'
  <2>1. rcb = "tunnel"
    BY <1>0 DEF Phase
  <2> QED
    BY <1>6, <2>1 DEF Phase, Connecting
<1>9. RequestInv'
  <2>0. Left(cbuff') = n - (o + k)
    BY <1>6, <1>a, <1>c DEF Left
  <2>1. ASSUME ~twice, wire' # Garbled
        PROVE  /\ \A i \in 1..Len(wire') : wire'[i] = i
               /\ Len(wire') + Left(cbuff') = crecv
    <3>1. /\ Len(wire) + (n - o) = crecv
          /\ \A i \in 1..n : cbuff.data[i] = crecv - n + i
          /\ \A i \in 1..Len(wire) : wire[i] = i
      BY <1>0, <1>4, <1>5, <1>a, <1>b, <2>1 DEF RequestInv, Left
    <3>2. wire' = wire \o part
      BY <1>4, <2>1
    <3>3. \A i \in 1..Len(wire') : wire'[i] = i
      <4>1. \A i \in 1..Len(wire \o part) : (wire \o part)[i] = i
        <5>1. ASSUME NEW i \in 1..k PROVE part[i] = Len(wire) + i
          <6>1. o + i \in 1..n
            BY <1>c
          <6>2. part[i] = crecv - n + (o + i)
            BY <1>2, <3>1, <6>1
          <6> QED
            BY <1>3, <1>c, <3>1, <6>2
        <5>2. wire \in Seq(Nat) /\ part \in Seq(Nat) /\ \A i \in 1..Len(wire) : wire[i] = i
          BY <1>2, <1>3, <3>1
        <5>3. \A i \in 1..Len(part) : part[i] = Len(wire) + i
          BY <1>2, <5>1
        <5> QED
          BY <5>2, <5>3, WireGrows
      <4> QED
        BY <3>2, <4>1
    <3>4. Len(wire') + Left(cbuff') = crecv
      <4>1. Len(wire') = Len(wire) + k
        BY <1>d, <3>2
      <4>2. (Len(wire) + k) + (n - (o + k)) = Len(wire) + (n - o)
        BY ONLY <1>3, <1>c, n \in Nat, o \in Nat
      <4> QED
        BY ONLY <2>0, <3>1, <4>1, <4>2
    <3> QED
      BY <3>3, <3>4
  <2>2. ASSUME ~twice
        PROVE  /\ Left(cbuff') <= crecv /\ (crecv = 0 => wire' = <<>>)
               /\ cbuff' # NULL =>
                    \A i \in 1..Len(cbuff'.data) : cbuff'.data[i] = crecv - Len(cbuff'.data) + i
    <3>1. /\ n - o <= crecv
          /\ \A i \in 1..n : cbuff.data[i] = crecv - n + i
      BY <1>0, <1>5, <1>a, <1>b, <2>2 DEF RequestInv, Left
    <3>2. Left(cbuff') <= crecv
      BY <1>3, <1>c, <3>1, <2>0
    <3>3. ASSUME crecv = 0 PROVE wire' = <<>>
      <4>1. wire = <<>>
        BY <1>0, <1>5, <2>2, <3>3 DEF RequestInv
      <4>2. Len(Rest(cbuff)) = 0
        BY <1>2, <3>1, <3>3
      <4> QED
        BY <1>4, <4>1, <4>2
    <3> QED
      BY <1>6, <1>a, <3>1, <3>2, <3>3
  <2>3. sq # NULL => Len(sq) = crecv /\ \A i \in 1..crecv : sq[i] = i
    BY <1>0 DEF RequestInv
  <2>4. rcb = "tunnel"
    BY <1>0 DEF Phase
  <2> QED
    BY <1>5, <2>1, <2>2, <2>3, <2>4 DEF RequestInv, Left
<1>10. AnswerInv'
  BY <1>0, SameAnswer
<1>11. ToldInv'
  BY <1>0, <1>e DEF ToldInv, Told
<1> QED
  BY <1>7, <1>8, <1>9, <1>10, <1>11 DEF SessionInv

(***************************************************************************)
(* Bytes of the client are read, and k of them go to the server at once.   *)
(***************************************************************************)
LEMMA ReadUpStep ==
  ASSUME SessionInv, ccb = "tunnel", cbuff = NULL, "remote" \notin gone,
         NEW n \in 1..BufSize, NEW k \in 0..BufSize, k <= n, crecv + n <= MaxUp,
         crecv' = crecv + n,
         sq' = Kept(NextBytes(n)),
         wire' \in tcp_send_hook(NextBytes(n), k),
         IF k < n
         THEN /\ cbuff' = [data |-> NextBytes(n), offset |-> k]
              /\ WaitFor("up")
              /\ pc' = "idle"
         ELSE /\ pc' = IF n = BufSize THEN "up" ELSE "idle"
              /\ UNCHANGED <<cbuff, cmask, rmask>>,
         UNCHANGED <<mode, ccb, flag, nogroup, conn, rcb, rbuff, rrecv, hops, gone,
                     said, early, twice, odd, dead>>
  PROVE  SessionInv'
<1> USE SessionAssumption
<1>0. Types /\ Phase /\ RequestInv /\ AnswerInv /\ ToldInv
  BY DEF SessionInv
<1> DEFINE d == NextBytes(n)
           part == SubSeq(d, 1, k)
<1>1. /\ BufSize \in Nat /\ n \in Nat /\ k \in Nat /\ k \in 0..n /\ crecv \in Nat
      /\ wire \in Seq(Nat) /\ Len(wire) \in Nat
  BY <1>0, LenProperties DEF Types
<1>2. d \in Seq(Nat) /\ Len(d) = n /\ \A i \in 1..n : d[i] = crecv + i
  BY <1>1, Bytes DEF NextBytes
<1> HIDE DEF d
<1>3. part \in Seq(Nat) /\ Len(part) = k /\ \A i \in 1..k : part[i] = d[i]
  BY <1>1, <1>2, Prefix
<1>4. wire' \in Seq(Nat) /\ (wire' # Garbled => wire # Garbled /\ wire' = wire \o part)
  <2>1. k \in 0..Len(d) /\ wire' \in tcp_send_hook(d, k)
    BY <1>1, <1>2 DEF d
  <2>2. PICK w \in tcp_send_hook(d, k) : w = wire'
    BY <2>1
  <2> QED
    BY <1>1, <1>2, <2>1, <2>2, SentPart
<1>a. Len(wire \o part) = Len(wire) + k
  BY <1>1, <1>3, Joined
<1> HIDE DEF part
<1>5. nogroup = FALSE /\ hops = 0 /\ nogroup' = FALSE /\ rcb = "tunnel"
  BY <1>0 DEF RequestInv, Phase, Types
<1>6. \/ sq' = NULL
      \/ /\ sq' \in Seq(Nat) /\ Len(sq') <= BufSize
         /\ Len(sq') = crecv' /\ \A i \in 1..crecv' : sq'[i] = i
  BY <1>0, KeptWhole
<1>7. \/ /\ k < n /\ pc' = "idle" /\ cmask' = "none" /\ rmask' = "out"
         /\ cbuff' \in Buffers(Nat) /\ cbuff'.data = d /\ cbuff'.offset = k
      \/ k = n /\ cbuff' = NULL /\ pc' \in {"up", "idle"} /\ UNCHANGED <<cmask, rmask>>
  <2>1. CASE k < n
    <3>1. cbuff' = [data |-> d, offset |-> k] /\ WaitFor("up") /\ pc' = "idle"
      BY <2>1 DEF d
    <3>2. cbuff' \in Buffers(Nat) /\ cbuff'.data = d /\ cbuff'.offset = k
      BY <1>1, <1>2, <3>1, NewBuffer
    <3> QED
      BY <2>1, <3>1, <3>2 DEF WaitFor
  <2>2. CASE ~(k < n)
    <3>1. k = n
      BY <1>1, <2>2
    <3> QED
      BY <2>2, <3>1
  <2> QED
    BY <2>1, <2>2
<1>8. Types'
  <2>1. cbuff' = NULL \/ (cbuff' \in Buffers(Nat) /\ cbuff'.offset <= Len(cbuff'.data))
    BY <1>1, <1>2, <1>7
  <2>2. /\ pc' \in {"idle", "flush", "up", "down"}
        /\ cmask' \in {"none", "in", "out"} /\ rmask' \in {"none", "in", "out"}
        /\ crecv' \in 0..MaxUp
    BY <1>0, <1>1, <1>7 DEF Types
  <2>3. sq' = NULL \/ (sq' \in Seq(Nat) /\ Len(sq') <= BufSize)
    BY <1>6
  <2> QED
    BY <1>0, <1>4, <2>1, <2>2, <2>3 DEF Types
<1>9. Phase'
  BY <1>5, <1>7 DEF Phase, Connecting
<1>10. RequestInv'
  <2>0. Left(cbuff') = n - k
    BY <1>1, <1>2, <1>7 DEF Left
  <2>1. ASSUME ~twice, wire' # Garbled
        PROVE  /\ \A i \in 1..Len(wire') : wire'[i] = i
               /\ Len(wire') + Left(cbuff') = crecv'
    <3>1. Len(wire) = crecv /\ \A i \in 1..Len(wire) : wire[i] = i
      BY <1>0, <1>1, <1>4, <1>5, <2>1 DEF RequestInv, Left
    <3>2. \A i \in 1..Len(part) : part[i] = Len(wire) + i
      BY <1>1, <1>2, <1>3, <3>1
    <3>3. wire' = wire \o part /\ Len(wire') = Len(wire) + k
      BY <1>4, <1>a, <2>1
    <3>4. \A i \in 1..Len(wire') : wire'[i] = i
      BY <1>1, <1>3, <3>1, <3>2, <3>3, WireGrows
    <3>5. Len(wire') + Left(cbuff') = crecv'
      BY <1>1, <2>0, <3>1, <3>3
    <3> QED
      BY <3>4, <3>5
  <2>2. ASSUME ~twice
        PROVE  /\ Left(cbuff') <= crecv' /\ crecv' # 0
               /\ cbuff' # NULL =>
                    \A i \in 1..Len(cbuff'.data) : cbuff'.data[i] = crecv' - Len(cbuff'.data) + i
    <3>2. Left(cbuff') <= crecv' /\ crecv' # 0
      BY <1>1, <2>0
    <3>3. \A i \in 1..n : d[i] = crecv' - n + i
      BY <1>1, <1>2
    <3> QED
      BY <1>2, <1>7, <3>2, <3>3
  <2>3. sq' # NULL => Len(sq') = crecv' /\ \A i \in 1..crecv' : sq'[i] = i
    BY <1>6
  <2> QED
    BY <1>5, <2>1, <2>2, <2>3 DEF RequestInv, Left
<1>11. AnswerInv'
  <2>1. sq = NULL /\ crecv > 0 => sq' = NULL
    BY <1>1 DEF Kept
  <2>2. crecv > 0 => crecv' > 0
    BY <1>1
  <2> QED
    BY <1>0, <2>1, <2>2, SameAnswer
<1>12. ToldInv'
  BY <1>0 DEF ToldInv, Told
<1> QED
  BY <1>8, <1>9, <1>10, <1>11, <1>12 DEF SessionInv

-----------------------------------------------------------------------------
(***************************************************************************)
(* Data is passed on to the client.                                        *)
(***************************************************************************)
LEMMA DataFacts ==
  ASSUME Types, NEW p \in Seq(ServerByte), said' = said \o p
  PROVE  /\ said' \in Seq(Reply) /\ Len(said') = Len(said) + Len(p)
         /\ Len(said) \in Nat /\ Len(p) \in Nat
         /\ \A i \in 1..Len(said) : said'[i] = said[i]
         /\ \A i \in 1..Len(p) : said'[Len(said) + i] = p[i]
<1>1. said \in Seq(Reply) /\ Len(said) \in Nat /\ Len(p) \in Nat
  BY LenProperties DEF Types
<1>2. p \in Seq(Reply)
  <2>1. ServerByte \subseteq Reply
    BY DEF ServerByte, Reply
  <2> QED
    BY <2>1, SeqMonotonic
<1> QED
  BY <1>1, <1>2, Joined

LEMMA DataTold ==
  ASSUME Types, ToldInv, ccb = "tunnel", NEW p \in Seq(ServerByte), said' = said \o p,
         UNCHANGED <<ccb, flag, odd>>, ~early' => ~early
  PROVE  ToldInv'
<1>1. SUFFICES ASSUME flag # "none", "raw" \notin odd
               PROVE  /\ Told'
                      /\ ~early' => \A i \in 1..Len(said') :
                           said'[i][1] = "data" => \E j \in 1..(i - 1) : said'[j][1] = "ok"
  BY DEF ToldInv
<1>2. PICK j \in 1..Len(said) : said[j][1] = "ok"
  BY <1>1 DEF ToldInv, Told
<1>3. j \in 1..Len(said') /\ said'[j][1] = "ok"
  BY <1>2, DataFacts
<1>4. Told'
  BY <1>3 DEF Told
<1>5. ASSUME ~early', NEW i \in 1..Len(said'), said'[i][1] = "data"
      PROVE  \E m \in 1..(i - 1) : said'[m][1] = "ok"
  <2>1. CASE i <= Len(said)
    <3>1. i \in 1..Len(said) /\ said'[i] = said[i]
      BY <2>1, DataFacts
    <3>2. PICK m \in 1..(i - 1) : said[m][1] = "ok"
      BY <1>1, <1>5, <3>1 DEF ToldInv
    <3>3. said'[m] = said[m]
      BY <3>1, <3>2, DataFacts
    <3> QED
      BY <3>2, <3>3
  <2>2. CASE ~(i <= Len(said))
    <3>1. j \in 1..(i - 1)
      BY <2>2, DataFacts
    <3> QED
      BY <1>3, <3>1
  <2> QED
    BY <2>1, <2>2
<1> QED
  BY <1>4, <1>5

\* The data said after r replies: c bytes of the socket x are all there.
LEMMA DataAnswered ==
  ASSUME Types, NEW p \in Seq(ServerByte), said' = said \o p, conn' = conn,
         NEW r \in 0..Len(said), NEW c \in Nat,
         \A i \in 1..r : said[i][1] # "data",
         \A i \in (r + 1)..Len(said) : said[i] = <<"data", conn, i - r>>,
         Len(said) - r = c,
         \A i \in 1..Len(p) : p[i] = <<"data", conn, c + i>>
  PROVE  /\ \A i \in 1..r : said'[i][1] # "data"
         /\ \A i \in (r + 1)..Len(said') : said'[i] = <<"data", conn', i - r>>
         /\ Len(said') - r = c + Len(p)
         /\ r \in 0..Len(said')
<1>1. /\ r \in Nat /\ Len(said) \in Nat /\ Len(p) \in Nat /\ r <= Len(said)
      /\ Len(said) = c + r /\ Len(said') = Len(said) + Len(p)
  BY DataFacts
<1>2. ASSUME NEW i \in (r + 1)..Len(said') PROVE said'[i] = <<"data", conn, i - r>>
  <2>1. CASE i <= Len(said)
    BY <1>1, <2>1, DataFacts
  <2>2. CASE ~(i <= Len(said))
    <3>1. PICK j \in 1..Len(p) : i = Len(said) + j
      <4>1. i - Len(said) \in 1..Len(p) /\ i = Len(said) + (i - Len(said))
        BY <1>1, <2>2, DataFacts
      <4> QED
        BY <4>1
    <3>2. said'[i] = <<"data", conn, c + j>>
      BY <3>1, DataFacts
    <3>3. c + j = i - r
      BY <1>1, <3>1
    <3> QED
      BY <3>2, <3>3
  <2> QED
    BY <2>1, <2>2
<1>3. \A i \in 1..r : said'[i][1] # "data"
  BY <1>1, DataFacts
<1>4. Len(said') - r = c + Len(p) /\ r \in 0..Len(said')
  BY <1>1
<1> QED
  BY <1>2, <1>3, <1>4

(***************************************************************************)
(* Bytes of the remote slot's buffer go to the client.                     *)
(***************************************************************************)
LEMMA FlushDownStep ==
  ASSUME SessionInv, rbuff # NULL, ccb = "tunnel", pc = "idle",
         NEW k \in 0..Len(Rest(rbuff)),
         said' = said \o SubSeq(Rest(rbuff), 1, k),
         IF k < Len(Rest(rbuff))
         THEN /\ rbuff' = [rbuff EXCEPT !.offset = @ + k]
              /\ UNCHANGED <<cmask, rmask, pc>>
         ELSE rbuff' = NULL /\ BothIn /\ pc' = "down",
         UNCHANGED <<mode, ccb, flag, cbuff, sq, crecv, nogroup, conn, rcb, rrecv,
                     hops, wire, gone, early, twice, odd, dead>>
  PROVE  SessionInv'
<1> USE SessionAssumption
<1>0. Types /\ Phase /\ RequestInv /\ AnswerInv /\ ToldInv
  BY DEF SessionInv
<1> DEFINE part == SubSeq(Rest(rbuff), 1, k)
<1>1. rbuff \in Buffers(ServerByte) /\ rbuff.offset < Len(rbuff.data)
  BY <1>0 DEF Types
<1>2. /\ rbuff.offset \in Nat /\ Len(rbuff.data) \in Nat
      /\ rbuff.offset <= Len(rbuff.data)
  BY <1>1, LenProperties DEF Buffers
<1>3. PICK n \in Nat : n = Len(rbuff.data)
  BY <1>2
<1>4. PICK o \in Nat : o = rbuff.offset
  BY <1>2
<1>5. /\ o < n /\ Len(Rest(rbuff)) = n - o
      /\ part \in Seq(ServerByte) /\ Len(part) = k
      /\ \A i \in 1..k : part[i] = rbuff.data[o + i]
  BY <1>1, <1>2, <1>3, <1>4, RestTaken
<1>6. k \in Nat /\ o + k <= n
  BY <1>5
<1> HIDE DEF part
<1>7. said' = said \o part
  BY DEF part
<1>8. /\ said' \in Seq(Reply) /\ Len(said') = Len(said) + k /\ Len(said) \in Nat
  BY <1>0, <1>5, <1>7, DataFacts
<1>9. \/ /\ k < n - o /\ pc' = "idle" /\ UNCHANGED <<cmask, rmask>>
         /\ rbuff' \in Buffers(ServerByte) /\ rbuff'.data = rbuff.data
         /\ rbuff'.offset = o + k
      \/ k = n - o /\ rbuff' = NULL /\ pc' = "down" /\ cmask' = "in" /\ rmask' = "in"
  <2>1. CASE k < n - o
    <3>1. rbuff' = [rbuff EXCEPT !.offset = @ + k] /\ UNCHANGED <<cmask, rmask, pc>>
      BY <1>5, <2>1
    <3>2. o + k \in Nat
      BY <1>6
    <3>3. rbuff' \in Buffers(ServerByte) /\ rbuff'.data = rbuff.data /\ rbuff'.offset = o + k
      BY <1>1, <1>4, <3>1, <3>2 DEF Buffers
    <3> QED
      BY <2>1, <3>1, <3>3
  <2>2. CASE ~(k < n - o)
    <3>1. k = n - o
      BY ONLY n \in Nat, o \in Nat, <1>6, <2>2
    <3> QED
      BY <1>5, <2>2, <3>1 DEF BothIn
  <2> QED
    BY <2>1, <2>2
<1>10. Types'
  <2>1. rbuff' = NULL \/ (rbuff' \in Buffers(ServerByte) /\ rbuff'.offset < Len(rbuff'.data))
    BY <1>3, <1>6, <1>9
  <2>2. /\ pc' \in {"idle", "flush", "up", "down"}
        /\ cmask' \in {"none", "in", "out"} /\ rmask' \in {"none", "in", "out"}
    BY <1>0, <1>9 DEF Types
  <2> QED
    BY <1>0, <1>8, <2>1, <2>2 DEF Types
<1>11. Phase'
  <2>1. rcb = "tunnel"
    BY <1>0 DEF Phase
  <2> QED
    BY <1>9, <2>1 DEF Phase, Connecting
<1>12. RequestInv'
  BY <1>0 DEF RequestInv, Left
<1>13. AnswerInv'
  <2>1. SUFFICES ASSUME ~early
                 PROVE  /\ rrecv > 0 => sq = NULL /\ crecv > 0
                        /\ (\E r \in 0..Len(said) : Answered(r))'
    BY DEF AnswerInv
  <2>2. rrecv > 0 => sq = NULL /\ crecv > 0
    BY <1>0, <2>1 DEF AnswerInv
  <2>3. PICK r \in 0..Len(said) : Answered(r)
    BY <1>0, <2>1 DEF AnswerInv
  <2>4. PICK c \in Int : c = rrecv - (n - o)
    BY <1>0 DEF Types
  <2>5. /\ Len(said) - r = c
        /\ \A i \in 1..n : rbuff.data[i] = <<"data", conn, rrecv - n + i>>
    BY <1>3, <1>4, <2>3, <2>4 DEF Answered, Left
  <2>6. c \in Nat
    BY <1>8, <2>5
  <2>7. ASSUME NEW i \in 1..Len(part) PROVE part[i] = <<"data", conn, c + i>>
    <3>1. i \in 1..k /\ o + i \in 1..n
      BY <1>5, <1>6
    <3>2. part[i] = <<"data", conn, rrecv - n + (o + i)>>
      BY <1>5, <2>5, <3>1
    <3>3. rrecv \in Int /\ i \in Int
      BY <1>0, <3>1 DEF Types
    <3>4. rrecv - n + (o + i) = c + i
      BY ONLY n \in Nat, o \in Nat, <2>4, <3>3
    <3> QED
      BY <3>2, <3>4
  <2>8. /\ \A i \in 1..r : said'[i][1] # "data"
        /\ \A i \in (r + 1)..Len(said') : said'[i] = <<"data", conn', i - r>>
        /\ Len(said') - r = c + Len(part)
        /\ r \in 0..Len(said')
    <3>1. /\ \A i \in 1..r : said[i][1] # "data"
          /\ \A i \in (r + 1)..Len(said) : said[i] = <<"data", conn, i - r>>
      BY <2>3 DEF Answered
    <3>2. conn' = conn /\ Types
      BY <1>0
    <3> QED
      BY ONLY <1>5, <1>7, <2>3, <2>5, <2>6, <2>7, <3>1, <3>2, DataAnswered
  <2>9. Left(rbuff') = n - (o + k)
    <3>1. CASE k < n - o
      <4>1. rbuff' # NULL /\ Len(rbuff'.data) = n /\ rbuff'.offset = o + k
        BY <1>3, <1>9, <3>1 DEF ServerByte
      <4> QED
        BY ONLY <4>1 DEF Left
    <3>2. CASE k = n - o
      <4>1. rbuff' = NULL
        BY <1>9, <3>2
      <4>2. n - (o + k) = 0
        BY ONLY n \in Nat, o \in Nat, <1>6, <3>2
      <4> QED
        BY ONLY <4>1, <4>2 DEF Left
    <3> QED
      BY <1>9, <3>1, <3>2
  <2>10. Len(said') - r = rrecv' - Left(rbuff')
    <3>1. c + k = rrecv - (n - (o + k))
      BY <1>0, <1>6, <2>4 DEF Types
    <3> QED
      BY <1>5, <2>8, <2>9, <3>1
  <2>11. rbuff' # NULL => \A i \in 1..Len(rbuff'.data) :
           rbuff'.data[i] = <<"data", conn', rrecv' - Len(rbuff'.data) + i>>
    BY <1>3, <1>9, <2>5
  <2>12. Answered(r)'
    BY <2>8, <2>10, <2>11 DEF Answered, Left
  <2> QED
    BY <2>2, <2>8, <2>12
<1>14. ToldInv'
  BY <1>0, <1>5, <1>7, DataTold
<1> QED
  BY <1>10, <1>11, <1>12, <1>13, <1>14 DEF SessionInv

(***************************************************************************)
(* Bytes of the server are read, on_response lets them pass, and k of them *)
(* go to the client at once.                                               *)
(***************************************************************************)
LEMMA ReadDownStep ==
  ASSUME SessionInv, ccb = "tunnel", rbuff = NULL, pc \in {"idle", "down"},
         NEW n \in 1..BufSize, NEW k \in 0..BufSize, k <= n, rrecv + n <= MaxDown,
         NEW d, d = [i \in 1..n |-> <<"data", conn, rrecv + i>>],
         rrecv' = rrecv + n,
         early' = (early \/ crecv = 0),
         AnswerPasses,
         said' = said \o SubSeq(d, 1, k),
         IF k < n
         THEN /\ rbuff' = [data |-> d, offset |-> k]
              /\ WaitFor("down")
              /\ pc' = "idle"
         ELSE /\ pc' = IF n = BufSize THEN "down" ELSE "idle"
              /\ UNCHANGED <<rbuff, cmask, rmask>>,
         UNCHANGED <<mode, ccb, flag, crecv, conn, rcb, hops, wire, gone, odd, dead>>
  PROVE  SessionInv'
<1> USE SessionAssumption
<1>0. Types /\ Phase /\ RequestInv /\ AnswerInv /\ ToldInv
  BY DEF SessionInv
<1> DEFINE part == SubSeq(d, 1, k)
<1>1. /\ BufSize \in Nat /\ n \in Nat /\ k \in Nat /\ k \in 0..n
      /\ rrecv \in Nat /\ conn \in Nat /\ crecv \in Nat /\ early \in BOOLEAN
  BY <1>0 DEF Types
<1>2. d \in Seq(ServerByte) /\ Len(d) = n /\ \A i \in 1..n : d[i] = <<"data", conn, rrecv + i>>
  <2>1. ASSUME NEW i \in 1..n PROVE <<"data", conn, rrecv + i>> \in ServerByte
    <3>1. rrecv + i \in Nat
      BY <1>1
    <3> QED
      BY ONLY <1>1, <3>1 DEF ServerByte
  <2>2. d \in [1..n -> ServerByte] /\ \A i \in 1..n : d[i] = <<"data", conn, rrecv + i>>
    BY <2>1
  <2> QED
    BY ONLY <1>1, <2>2, FunctionSeq
<1>3. part \in Seq(ServerByte) /\ Len(part) = k /\ \A i \in 1..k : part[i] = d[i]
  <2>1. k \in 0..Len(d)
    BY <1>1, <1>2
  <2> QED
    BY ONLY <1>2, <2>1, Prefix
<1> HIDE DEF part
<1>4. said' = said \o part
  BY DEF part
<1>5. said' \in Seq(Reply) /\ Len(said') = Len(said) + k /\ Len(said) \in Nat
  BY <1>0, <1>3, <1>4, DataFacts
<1>6. \/ /\ k < n /\ pc' = "idle" /\ rmask' = "none" /\ cmask' = "out"
         /\ rbuff' \in Buffers(ServerByte) /\ rbuff'.data = d /\ rbuff'.offset = k
      \/ k = n /\ rbuff' = NULL /\ pc' \in {"down", "idle"} /\ UNCHANGED <<cmask, rmask>>
  <2>1. CASE k < n
    <3>1. rbuff' = [data |-> d, offset |-> k] /\ WaitFor("down") /\ pc' = "idle"
      BY <2>1
    <3>2. rbuff' \in Buffers(ServerByte) /\ rbuff'.data = d /\ rbuff'.offset = k
      BY <1>1, <1>2, <3>1, NewBuffer
    <3> QED
      BY <2>1, <3>1, <3>2 DEF WaitFor
  <2>2. CASE ~(k < n)
    <3>1. k = n
      BY <1>1, <2>2
    <3> QED
      BY <2>2, <3>1
  <2> QED
    BY <2>1, <2>2
\* What on_response leaves of the request.
<1>7. /\ sq' = NULL
      /\ \/ UNCHANGED <<cbuff, nogroup, twice>>
         \/ /\ cbuff' \in Buffers(Nat) /\ cbuff' # NULL
            /\ cbuff'.offset <= Len(cbuff'.data) /\ Len(cbuff'.data) = crecv
            /\ \/ nogroup' = TRUE /\ UNCHANGED twice
               \/ twice' = TRUE /\ UNCHANGED nogroup
  <2>1. sq' = NULL
    BY DEF AnswerPasses
  <2>2. CASE UNCHANGED <<cbuff, nogroup, twice>>
    BY <2>1, <2>2
  <2>3. CASE /\ sq # NULL
             /\ cbuff' = Again
             /\ \/ nogroup' = TRUE /\ UNCHANGED twice
                \/ twice' = TRUE /\ UNCHANGED nogroup
    <3>1. sq \in Seq(Nat) /\ Len(sq) = crecv
      BY <1>0, <2>3 DEF Types, RequestInv
    <3>2. cbuff' = [data |-> sq, offset |-> 0]
      BY <2>3 DEF Again, Buffer
    <3>3. cbuff' \in Buffers(Nat) /\ cbuff'.data = sq /\ cbuff'.offset = 0
      BY <3>1, <3>2, NewBuffer
    <3>4. cbuff' # NULL
      BY <3>3
    <3>5. cbuff'.offset <= Len(cbuff'.data) /\ Len(cbuff'.data) = crecv
      BY <1>1, <3>1, <3>3
    <3> QED
      BY <2>1, <2>3, <3>3, <3>4, <3>5
  <2> QED
    BY <2>2, <2>3 DEF AnswerPasses
<1>8. Types'
  <2>1. rbuff' = NULL \/ (rbuff' \in Buffers(ServerByte) /\ rbuff'.offset < Len(rbuff'.data))
    BY <1>2, <1>6
  <2>2. /\ pc' \in {"idle", "flush", "up", "down"}
        /\ cmask' \in {"none", "in", "out"} /\ rmask' \in {"none", "in", "out"}
        /\ rrecv' \in 0..MaxDown
    BY <1>0, <1>1, <1>6 DEF Types
  <2>3. cbuff' = NULL \/ (cbuff' \in Buffers(Nat) /\ cbuff'.offset <= Len(cbuff'.data))
    BY <1>0, <1>7 DEF Types
  <2>4. nogroup' \in BOOLEAN /\ twice' \in BOOLEAN
    BY <1>0, <1>7 DEF Types
  <2>5. early' \in BOOLEAN
    OBVIOUS
  <2> QED
    BY <1>0, <1>5, <1>7, <2>1, <2>2, <2>3, <2>4, <2>5 DEF Types
<1>9. Phase'
  <2>1. rcb = "tunnel"
    BY <1>0 DEF Phase
  <2> QED
    BY <1>6, <2>1 DEF Phase, Connecting
<1>10. RequestInv'
  <2>1. /\ wire' # <<>> => hops' = 0
        /\ rcb' = "tunnel" /\ hops' # 0 => "remote" \in gone'
        /\ rcb' = "connect" => hops' = 0
    BY <1>0 DEF RequestInv
  <2>2. CASE UNCHANGED <<cbuff, nogroup, twice>>
    BY <1>0, <1>7, <2>1, <2>2 DEF RequestInv, Left
  <2>3. CASE /\ cbuff' # NULL /\ Len(cbuff'.data) = crecv
             /\ \/ nogroup' = TRUE /\ UNCHANGED twice
                \/ twice' = TRUE /\ UNCHANGED nogroup
    <3>1. ~twice' /\ wire' # Garbled => \A i \in 1..Len(wire') : wire'[i] = i
      BY <1>0, <2>3 DEF RequestInv
    <3>2. nogroup' = TRUE \/ twice' = TRUE
      BY <2>3
    <3> QED
      BY <1>7, <2>1, <2>3, <3>1, <3>2 DEF RequestInv, Left
  <2> QED
    BY <1>7, <2>2, <2>3
<1>11. AnswerInv'
  <2>0. ~early' => ~early /\ crecv # 0
    OBVIOUS
  <2>1. ASSUME ~early, crecv # 0
        PROVE  (\E r \in 0..Len(said) : Answered(r))'
    <3>2. PICK r \in 0..Len(said) : Answered(r)
      BY <1>0, <2>1 DEF AnswerInv
    <3>3. Len(said) - r = rrecv
      BY <1>1, <3>2 DEF Answered, Left
    <3>4. ASSUME NEW i \in 1..Len(part)
          PROVE  part[i] = <<"data", conn, rrecv + i>>
      <4>1. i \in 1..k /\ i \in 1..n
        BY ONLY <1>1, <1>3
      <4>2. part[i] = d[i] /\ d[i] = <<"data", conn, rrecv + i>>
        BY ONLY <1>2, <1>3, <4>1
      <4> QED
        BY ONLY <4>2
    <3>5. /\ \A i \in 1..r : said'[i][1] # "data"
          /\ \A i \in (r + 1)..Len(said') : said'[i] = <<"data", conn', i - r>>
          /\ Len(said') - r = rrecv + Len(part)
          /\ r \in 0..Len(said')
      <4>1. /\ \A i \in 1..r : said[i][1] # "data"
            /\ \A i \in (r + 1)..Len(said) : said[i] = <<"data", conn, i - r>>
        BY <3>2 DEF Answered
      <4>2. conn' = conn /\ Types
        BY <1>0
      <4> QED
        BY ONLY <1>1, <1>3, <1>4, <3>2, <3>3, <3>4, <4>1, <4>2, DataAnswered
    <3>6. Left(rbuff') = n - k
      <4>1. CASE k < n
        <5>1. rbuff' # NULL /\ Len(rbuff'.data) = n /\ rbuff'.offset = k
          BY <1>2, <1>6, <4>1 DEF ServerByte
        <5> QED
          BY ONLY <5>1 DEF Left
      <4>2. CASE k = n
        <5>1. rbuff' = NULL
          BY <1>6, <4>2
        <5>2. n - k = 0
          BY ONLY <1>1, <4>2
        <5> QED
          BY ONLY <5>1, <5>2 DEF Left
      <4> QED
        BY <1>6, <4>1, <4>2
    <3>7. Len(said') - r = rrecv' - Left(rbuff')
      <4>1. rrecv + k = (rrecv + n) - (n - k)
        BY <1>1
      <4> QED
        BY <1>3, <3>5, <3>6, <4>1
    <3>8. rbuff' # NULL => \A i \in 1..Len(rbuff'.data) :
            rbuff'.data[i] = <<"data", conn', rrecv' - Len(rbuff'.data) + i>>
      <4>1. \A i \in 1..n : rrecv + i = (rrecv + n) - n + i
        BY <1>1
      <4>2. \A i \in 1..n : d[i] = <<"data", conn, (rrecv + n) - n + i>>
        BY <1>2, <4>1
      <4> QED
        BY <1>2, <1>6, <4>2
    <3>9. Answered(r)'
      BY <3>5, <3>7, <3>8 DEF Answered, Left
    <3> QED
      BY <3>5, <3>9
  <2>2. crecv # 0 => crecv' > 0
    BY <1>1
  <2> QED
    BY <1>7, <2>0, <2>1, <2>2 DEF AnswerInv
<1>12. ToldInv'
  <2>1. ~early' => ~early
    OBVIOUS
  <2> QED
    BY <1>0, <1>3, <1>4, <2>1, DataTold
<1> QED
  BY <1>8, <1>9, <1>10, <1>11, <1>12 DEF SessionInv

-----------------------------------------------------------------------------
(* Every callback                                                          *)

LEMMA RequestStep ==
  ASSUME SessionInv, on_request
  PROVE  SessionInv'
<1>1. ccb = "request"
  BY DEF on_request
<1>2. CASE auth_socks5
  <2>1. CASE /\ said' = Say("auth")
             /\ flag' = "s5"
             /\ UNCHANGED <<ccb, cmask, cbuff, remotevars, gone>> /\ Quiet
    <3>1. cmask' \in {"none", "in", "out"}
      BY <2>1 DEF SessionInv, Types
    <3> QED
      BY <1>1, <2>1, <3>1, GreetStep
  <2>2. CASE Close /\ (said' = Say("noauth") \/ UNCHANGED said)
    BY <1>1, <2>2, DropStep DEF Close, SessionInv, Types
  <2> QED
    BY <1>2, <2>1, <2>2 DEF auth_socks5
<1>3. CASE handle_s5
  <2>1. CASE ConnectOrRefuse("s5")
    BY <1>1, <2>1, ConnectStep
  <2>2. CASE /\ said' = Say("ok")
             /\ ccb' = "udp" /\ cmask' = "none"
             /\ UNCHANGED <<flag, cbuff, remotevars, gone>> /\ Quiet
    <3>1. flag' \in {"none", "s4", "s5", "http"}
      BY <2>2 DEF SessionInv, Types
    <3> QED
      BY <1>1, <2>2, <3>1, GreetStep
  <2> QED
    BY <1>3, <2>1, <2>2 DEF handle_s5
<1>4. CASE Socks4
  BY <1>1, <1>4, ConnectStep DEF Socks4
<1>5. CASE HttpConnect
  BY <1>1, <1>5, ConnectStep DEF HttpConnect
<1>6. CASE RawData
  BY <1>1, <1>6, RawStep
<1>7. CASE Close /\ UNCHANGED said
  BY <1>7, CloseStep
<1> QED
  BY <1>2, <1>3, <1>4, <1>5, <1>6, <1>7 DEF on_request

\* The answers to the connection, of the server or of another proxy.
LEMMA ConnectedStep ==
  ASSUME SessionInv, on_connect \/ on_socks_conn \/ on_socks_recv
  PROVE  SessionInv'
<1>1. rcb \in Connecting
  BY DEF on_connect, on_socks_conn, on_socks_recv, Connecting
<1>2. ccb = "ignore" /\ hops \in 0..2 /\ rmask \in {"none", "in", "out"}
      /\ gone \subseteq {"client", "remote"} /\ (rcb = "connect" => hops = 0)
  BY <1>1 DEF SessionInv, Phase, Types, RequestInv
<1>3. CASE ConnectFailed
  BY <1>2, <1>3, FailedStep
<1>4. CASE on_connect /\ ConnectDone /\ UNCHANGED hops
  BY <1>1, <1>2, <1>4, DoneStep DEF on_connect
<1>5. CASE "remote" \in gone /\ ConnectDone /\ UNCHANGED hops
  BY <1>1, <1>2, <1>5, DoneStep
<1>6. CASE hops' = 0 /\ ConnectDone
  BY <1>1, <1>2, <1>6, DoneStep
<1>7. CASE /\ rcb = "socks_conn" /\ rcb' = "socks_recv" /\ rmask' = "in"
           /\ UNCHANGED <<mode, clientvars, conn, rbuff, rrecv, hops, wire, pc, gone,
                          said, early, twice, odd, dead>>
  BY <1>2, <1>7, StillStep
<1>8. CASE /\ rcb = "socks_recv" /\ hops' = 1
           /\ UNCHANGED <<mode, clientvars, conn, rcb, rmask, rbuff, rrecv, wire, pc, gone,
                          said, early, twice, odd, dead>>
  BY <1>2, <1>8, StillStep
<1> QED
  BY <1>3, <1>4, <1>5, <1>6, <1>7, <1>8 DEF on_connect, on_socks_conn, on_socks_recv

LEMMA UpStep ==
  ASSUME SessionInv, FlushUp \/ ReadUp
  PROVE  SessionInv'
<1>2. ccb = "tunnel"
  BY DEF SessionInv, Phase, FlushUp, ReadUp, Called, Tunnel
<1>3. CASE FlushUp
  <2>1. CASE "remote" \notin gone /\ SetupDone /\ ~SetupFails /\ ~SendFails
    <3>1. cbuff # NULL
      BY <1>3 DEF FlushUp
    <3>2. PICK k \in 0..Len(Rest(cbuff)) :
             /\ wire' \in tcp_send_hook(Rest(cbuff), k)
             /\ IF k < Len(Rest(cbuff))
                THEN /\ cbuff' = [cbuff EXCEPT !.offset = @ + k]
                     /\ odd' = odd \cup (IF pc = "flush" THEN {"stuck"} ELSE {})
                     /\ pc' = "idle" /\ UNCHANGED <<cmask, rmask>>
                ELSE /\ cbuff' = NULL
                     /\ odd' = odd \ {"stuck"}
                     /\ BothIn /\ pc' = "up"
             /\ UNCHANGED <<mode, ccb, flag, sq, crecv, nogroup, conn, rcb, rbuff, rrecv,
                            hops, gone, said, early, twice, dead>>
      BY <1>3, <2>1 DEF FlushUp
    <3> QED
      BY <1>2, <2>1, <3>1, <3>2, FlushUpStep
  <2>2. CASE SetupFails
    BY <2>2, CloseStep DEF SetupFails
  <2>3. CASE SendFails
    BY <1>2, <2>3, TriggerStep DEF SendFails
  <2> QED
    BY <1>3, <2>1, <2>2, <2>3 DEF FlushUp
<1>4. CASE ReadUp
  <2>1. cbuff = NULL
    BY <1>4 DEF ReadUp, SessionInv, Phase
  <2>2. CASE /\ pc' = "idle"
             /\ UNCHANGED <<mode, clientvars, remotevars, gone, said, early, twice, odd, dead>>
    <3>1. rmask' \in {"none", "in", "out"} /\ gone' \subseteq {"client", "remote"}
      BY <2>2 DEF remotevars, SessionInv, Types
    <3> QED
      BY <2>2, <3>1, StillStep DEF remotevars
  <2>3. CASE Close /\ UNCHANGED said
    BY <2>3, CloseStep
  <2>4. CASE ResetUp(NextBytes(1))
    BY <2>4, DropStep DEF ResetUp, Ends
  <2>5. ASSUME NEW n \in 1..BufSize, NEW k \in 0..BufSize,
               k <= n, crecv + n <= MaxUp,
               "remote" \notin gone,
               crecv' = crecv + n,
               sq' = Kept(NextBytes(n)),
               wire' \in tcp_send_hook(NextBytes(n), k),
               IF k < n
               THEN /\ cbuff' = [data |-> NextBytes(n), offset |-> k]
                    /\ WaitFor("up")
                    /\ pc' = "idle"
               ELSE /\ pc' = IF n = BufSize THEN "up" ELSE "idle"
                    /\ UNCHANGED <<cbuff, cmask, rmask>>,
               UNCHANGED <<mode, ccb, flag, nogroup, conn, rcb, rbuff, rrecv, hops, gone,
                           said, early, twice, odd, dead>>
        PROVE  SessionInv'
    BY <1>2, <2>1, <2>5, ReadUpStep
  <2> QED
    BY <1>4, <2>2, <2>3, <2>4, <2>5 DEF ReadUp
<1> QED
  BY <1>3, <1>4

LEMMA DownStep ==
  ASSUME SessionInv, FlushDown \/ ReadDown
  PROVE  SessionInv'
<1>1. ccb = "tunnel"
  BY DEF SessionInv, Phase, FlushDown, ReadDown, Called, Tunnel
<1>2. CASE FlushDown
  <2>1. pc = "idle" /\ rbuff # NULL
    BY <1>2 DEF FlushDown, Called
  <2>2. CASE "client" \in gone /\ Close /\ UNCHANGED said
    BY <2>2, CloseStep
  <2>3. ASSUME NEW k \in 0..Len(Rest(rbuff)),
               said' = said \o SubSeq(Rest(rbuff), 1, k),
               IF k < Len(Rest(rbuff))
               THEN /\ rbuff' = [rbuff EXCEPT !.offset = @ + k]
                    /\ UNCHANGED <<cmask, rmask, pc>>
               ELSE rbuff' = NULL /\ BothIn /\ pc' = "down",
               UNCHANGED <<mode, ccb, flag, cbuff, sq, crecv, nogroup, conn, rcb, rrecv,
                           hops, wire, gone, early, twice, odd, dead>>
        PROVE  SessionInv'
    BY <1>1, <2>1, <2>3, FlushDownStep
  <2> QED
    BY <1>2, <2>2, <2>3 DEF FlushDown
<1>3. CASE ReadDown
  <2>1. rbuff = NULL /\ pc \in {"idle", "down"}
    BY <1>3 DEF ReadDown, Called, SessionInv, Phase
  <2>2. CASE /\ pc' = "idle"
             /\ UNCHANGED <<mode, clientvars, remotevars, gone, said, early, twice, odd, dead>>
    <3>1. rmask' \in {"none", "in", "out"} /\ gone' \subseteq {"client", "remote"}
      BY <2>2 DEF remotevars, SessionInv, Types
    <3> QED
      BY <2>2, <3>1, StillStep DEF remotevars
  <2>3. CASE TriggerOrClose
    BY <1>1, <2>3, TriggerStep
  <2>4. CASE sq # NULL /\ reconnect /\ UNCHANGED dead
    BY <1>1, <2>4, ReconnectStep
  <2>5. ASSUME NEW n \in 1..BufSize, NEW k \in 0..BufSize,
               NEW d, d = [i \in 1..n |-> <<"data", conn, rrecv + i>>],
               k <= n, rrecv + n <= MaxDown,
               rrecv' = rrecv + n,
               early' = (early \/ crecv = 0),
               AnswerPasses,
               said' = said \o SubSeq(d, 1, k),
               IF k < n
               THEN /\ rbuff' = [data |-> d, offset |-> k]
                    /\ WaitFor("down")
                    /\ pc' = "idle"
               ELSE /\ pc' = IF n = BufSize THEN "down" ELSE "idle"
                    /\ UNCHANGED <<rbuff, cmask, rmask>>,
               UNCHANGED <<mode, ccb, flag, crecv, conn, rcb, hops, wire, gone, odd, dead>>
        PROVE  SessionInv'
    BY <1>1, <2>1, <2>5, ReadDownStep
  <2> QED
    BY <1>3, <2>2, <2>3, <2>4, <2>5 DEF ReadDown
<1> QED
  BY <1>2, <1>3

LEMMA InitInv == Init => SessionInv
<1> SUFFICES ASSUME Init PROVE SessionInv
  OBVIOUS
<1> USE SessionAssumption
<1>1. Types
  <2>1. 0 \in 0..MaxUp /\ 0 \in 0..MaxDown /\ 0 \in 0..MaxConns /\ 0 \in 0..2
    OBVIOUS
  <2>2. <<>> \in Seq(Nat) /\ <<>> \in Seq(Reply)
    OBVIOUS
  <2>3. nogroup = FALSE /\ early = FALSE /\ twice = FALSE /\ odd = {} /\ dead = "no"
    BY DEF Init
  <2> QED
    BY <2>1, <2>2, <2>3 DEF Init, Types, Ends
<1>2. Phase
  BY DEF Init, Phase, Connecting
<1>3. RequestInv
  BY DEF Init, RequestInv, Left
<1>4. AnswerInv
  <2>1. Answered(0) /\ 0 \in 0..Len(said)
    BY DEF Init, Answered, Left
  <2> QED
    BY <2>1 DEF Init, AnswerInv
<1>5. ToldInv
  BY DEF Init, ToldInv
<1> QED
  BY <1>1, <1>2, <1>3, <1>4, <1>5 DEF SessionInv

LEMMA StepInv == SessionInv /\ [Next]_vars => SessionInv'
<1> SUFFICES ASSUME SessionInv, [Next]_vars PROVE SessionInv'
  OBVIOUS
<1>1. CASE on_request
  BY <1>1, RequestStep
<1>2. CASE transp_conn
  BY <1>2, ConnectStep DEF transp_conn
<1>3. CASE recv_and_connect
  BY <1>3, DelayedStep
<1>4. CASE on_connect \/ on_socks_conn \/ on_socks_recv
  BY <1>4, ConnectedStep
<1>5. CASE on_ignore \/ UdpFails
  BY <1>5, CloseStep DEF on_ignore, UdpFails
<1>6. CASE FlushUp \/ ReadUp
  BY <1>6, UpStep
<1>7. CASE FlushDown \/ ReadDown
  BY <1>7, DownStep
<1>8. CASE on_timeout
  BY <1>8, TriggerStep DEF on_timeout, Tunnel
<1>9. CASE UNCHANGED sessvars
  <2>1. rmask' \in {"none", "in", "out"} /\ gone' \subseteq {"client", "remote"}
    BY <1>9 DEF sessvars, remotevars, SessionInv, Types
  <2> QED
    BY <1>9, <2>1, StillStep DEF sessvars, remotevars
<1>10. ASSUME NEW side \in {"client", "remote"}, Reset(side)
       PROVE  SessionInv'
  <2>1. rmask' \in {"none", "in", "out"} /\ gone' \subseteq {"client", "remote"}
        /\ gone \subseteq gone'
    BY <1>10 DEF Reset, remotevars, SessionInv, Types
  <2> QED
    BY <1>10, <2>1, StillStep DEF Reset, remotevars
<1> QED
  BY <1>1, <1>2, <1>3, <1>4, <1>5, <1>6, <1>7, <1>8, <1>9, <1>10
     DEF Next, Callback, Datagram, vars

-----------------------------------------------------------------------------
(***************************************************************************)
(* The replies.  A client that is to be told when it is connected has not  *)
(* been told yet, or it is connected again before it has sent anything; an *)
(* error is the last thing that is said.                                   *)
(***************************************************************************)
Once == \A i, j \in 1..Len(said) : said[i][1] = "ok" /\ said[j][1] = "ok" => i = j

Last == \A i \in 1..Len(said) :
          said[i][1] \in {"err", "noauth"} => i = Len(said) /\ ccb = "closed"

OkInv ==
  /\ ccb = "request" => ~Told
  /\ ccb = "ignore" /\ cbuff = NULL /\ Told => "retold" \in odd
  /\ "retold" \notin odd => Once
  /\ Last

\* Nothing is said.
LEMMA SilentStep ==
  ASSUME OkInv, said' = said, "retold" \in odd => "retold" \in odd',
         ccb' = "request" => ccb = "request",
         ccb' = "ignore" /\ cbuff' = NULL /\ Told => "retold" \in odd',
         ccb = "closed" => ccb' = "closed"
  PROVE  OkInv'
BY DEF OkInv, Told, Once, Last

\* A reply.
LEMMA SayStep ==
  ASSUME OkInv, Types, ccb # "closed", NEW x \in {"auth", "noauth", "ok", "err"},
         said' = Say(x), "retold" \in odd => "retold" \in odd',
         x = "ok" => ~Told \/ "retold" \in odd',
         x \in {"err", "noauth"} => ccb' = "closed",
         ccb' = "request" => x # "ok" /\ ~Told,
         ccb' # "ignore"
  PROVE  OkInv'
<1>1. PICK n \in Nat : n = Len(said)
  BY LenProperties DEF Types
<1>2. /\ Len(said') = n + 1 /\ said'[n + 1][1] = x
      /\ \A i \in 1..n : said'[i] = said[i]
  <2>1. said'[n + 1] = <<x, 0, 0>>
    BY <1>1, Replied
  <2>2. said'[n + 1][1] = x
    BY ONLY <2>1
  <2> QED
    BY <1>1, <2>2, Replied
<1>3. \A i \in 1..Len(said') : i \in 1..n \/ i = n + 1
  BY <1>2
<1>4. ASSUME NEW i \in 1..Len(said'), said'[i][1] = "ok", ~Told
      PROVE  i = n + 1 /\ x = "ok"
  BY <1>1, <1>2, <1>3, <1>4 DEF Told
<1>5. ccb' = "request" => ~Told'
  BY <1>4 DEF Told
<1>6. ASSUME "retold" \notin odd' PROVE Once'
  <2>1. ASSUME NEW i \in 1..Len(said'), NEW j \in 1..Len(said'),
               said'[i][1] = "ok", said'[j][1] = "ok"
        PROVE  i = j
    <3>1. CASE x = "ok"
      BY <1>4, <1>6, <2>1, <3>1
    <3>2. CASE x # "ok"
      <4>1. i \in 1..n /\ j \in 1..n
        BY <1>2, <1>3, <2>1, <3>2
      <4>2. said[i][1] = "ok" /\ said[j][1] = "ok"
        BY <1>2, <2>1, <4>1
      <4> QED
        BY <1>1, <1>6, <4>1, <4>2 DEF OkInv, Once
    <3> QED
      BY <3>1, <3>2
  <2> QED
    BY <2>1 DEF Once
<1>7. Last'
  <2>1. ASSUME NEW i \in 1..Len(said'), said'[i][1] \in {"err", "noauth"}
        PROVE  i = Len(said') /\ ccb' = "closed"
    <3>1. i \notin 1..n
      BY <1>1, <1>2, <2>1 DEF OkInv, Last
    <3>2. i = n + 1
      BY <1>3, <3>1
    <3> QED
      BY <1>2, <2>1, <3>2
  <2> QED
    BY <2>1 DEF Last
<1> QED
  BY <1>5, <1>6, <1>7 DEF OkInv

\* Data.
LEMMA DataStep ==
  ASSUME OkInv, Types, NEW p \in Seq(ServerByte), said' = said \o p,
         ccb = "tunnel", ccb' = ccb, odd' = odd
  PROVE  OkInv'
<1>1. PICK n \in Nat : n = Len(said)
  BY LenProperties DEF Types
<1>2. PICK m \in Nat : m = Len(p)
  BY LenProperties
<1>3. /\ Len(said') = n + m
      /\ \A i \in 1..n : said'[i] = said[i]
      /\ \A i \in 1..m : said'[n + i] = p[i]
  BY <1>1, <1>2, DataFacts
<1>4. ASSUME NEW i \in 1..Len(said'), said'[i][1] # "data"
      PROVE  i \in 1..n /\ said'[i] = said[i]
  <2>1. ASSUME i > n PROVE FALSE
    <3>1. i - n \in 1..m /\ n + (i - n) = i
      BY <1>3, <2>1
    <3>2. p[i - n] \in ServerByte /\ said'[i] = p[i - n]
      BY <1>2, <1>3, <3>1, ElementOfSeq
    <3> QED
      BY <1>4, <3>2 DEF ServerByte
  <2> QED
    BY <1>3, <2>1
<1>5. "retold" \notin odd => Once'
  BY <1>1, <1>4 DEF OkInv, Once
<1>6. Last'
  BY <1>1, <1>4 DEF OkInv, Last
<1> QED
  BY <1>5, <1>6 DEF OkInv

\* connect_hook, for a client that has not been told or is told again.
LEMMA OkHook ==
  ASSUME OkInv, Types, NEW b, NEW f, connect_hook(b, f), cbuff' = b, ccb # "closed",
         "retold" \in odd => "retold" \in odd',
         b = NULL => ~Told \/ "retold" \in odd'
  PROVE  OkInv'
<1>1. CASE b = NULL /\ ccb' = "delayed" /\ resp_error("ok", f)
  <2>1. CASE said' = said
    BY <1>1, <2>1, SilentStep
  <2>2. CASE said' = Say("ok")
    BY <1>1, <2>2, SayStep
  <2> QED
    BY <1>1, <2>1, <2>2 DEF resp_error
<1>2. CASE create_conn /\ UNCHANGED said
  BY <1>2, SilentStep DEF create_conn
<1> QED
  BY <1>1, <1>2 DEF connect_hook

LEMMA OkReconnect ==
  ASSUME OkInv, Types, reconnect, ccb # "closed"
  PROVE  OkInv'
<1>1. /\ connect_hook(Again, flag) /\ cbuff' = Again
      /\ odd' = (odd \ {"stuck"}) \cup (IF Again = NULL /\ Told THEN {"retold"} ELSE {})
  BY DEF reconnect
<1>2. /\ "retold" \in odd => "retold" \in odd'
      /\ Again = NULL => ~Told \/ "retold" \in odd'
  BY <1>1
<1> QED
  BY <1>1, <1>2, OkHook

LEMMA OkDrop ==
  ASSUME OkInv, Types, Drop, said' = said
  PROVE  OkInv'
BY SilentStep DEF Drop

LEMMA OkRefuse ==
  ASSUME OkInv, Types, NEW f, Refuse(f), ccb # "closed"
  PROVE  OkInv'
<1>1. Drop /\ (said' = said \/ said' = Say("err"))
  BY DEF Refuse, Close, resp_error
<1>2. ccb' = "closed" /\ odd' = odd
  BY <1>1 DEF Drop
<1>3. CASE said' = Say("err")
  BY <1>2, <1>3, SayStep
<1> QED
  BY <1>1, <1>3, OkDrop

LEMMA OkConnect ==
  ASSUME OkInv, Types, Phase, NEW f, ConnectOrRefuse(f), ccb = "request"
  PROVE  OkInv'
<1>1. CASE connect_hook(NULL, f) /\ UNCHANGED cbuff /\ Quiet
  <2>1. cbuff' = NULL /\ odd' = odd /\ ~Told
    BY <1>1 DEF Phase, Quiet, OkInv
  <2> QED
    BY <1>1, <2>1, OkHook
<1>2. CASE Refuse(f)
  BY <1>2, OkRefuse
<1> QED
  BY <1>1, <1>2 DEF ConnectOrRefuse

LEMMA OkRequest ==
  ASSUME OkInv, Types, Phase, on_request
  PROVE  OkInv'
<1>1. ccb = "request" /\ ~Told
  BY DEF on_request, OkInv
<1>2. CASE auth_socks5
  <2>1. CASE said' = Say("auth") /\ UNCHANGED ccb /\ Quiet
    BY <1>1, <2>1, SayStep DEF Quiet
  <2>2. CASE Close /\ said' = Say("noauth")
    <3>1. ccb' = "closed" /\ odd' = odd
      BY <2>2 DEF Close, Drop
    <3> QED
      BY <1>1, <2>2, <3>1, SayStep
  <2>3. CASE Close /\ UNCHANGED said
    BY <2>3, OkDrop DEF Close
  <2> QED
    BY <1>2, <2>1, <2>2, <2>3 DEF auth_socks5
<1>3. CASE handle_s5
  <2>1. CASE ConnectOrRefuse("s5")
    BY <1>1, <2>1, OkConnect
  <2>2. CASE said' = Say("ok") /\ ccb' = "udp" /\ Quiet
    BY <1>1, <2>2, SayStep DEF Quiet
  <2> QED
    BY <1>3, <2>1, <2>2 DEF handle_s5
<1>4. CASE Socks4 \/ HttpConnect
  BY <1>1, <1>4, OkConnect DEF Socks4, HttpConnect
<1>5. CASE RawData
  <2>1. CASE Refuse(flag)
    BY <1>1, <2>1, OkRefuse
  <2>2. ASSUME NEW d, cbuff' = Buffer(d), connect_hook(cbuff', flag),
               odd' = IF flag = "none" THEN odd ELSE odd \cup {"raw"}
        PROVE  OkInv'
    BY <1>1, <2>2, OkHook
  <2> QED
    BY <1>5, <2>1, <2>2 DEF RawData
<1>6. CASE Close /\ UNCHANGED said
  BY <1>6, OkDrop DEF Close
<1> QED
  BY <1>2, <1>3, <1>4, <1>5, <1>6 DEF on_request

LEMMA OkDelayed ==
  ASSUME OkInv, Types, recv_and_connect
  PROVE  OkInv'
<1>1. CASE Drop /\ UNCHANGED said
  BY <1>1, OkDrop
<1>2. ASSUME NEW k \in 1..BufSize, cbuff' = Buffer(NextBytes(k)),
             connect_hook(cbuff', flag), odd' = odd
      PROVE  OkInv'
  <2>1. cbuff' # NULL
    <3>1. crecv \in Nat /\ k \in Nat
      BY SessionAssumption DEF Types
    <3>2. NextBytes(k) \in Seq(Nat)
      BY <3>1, Bytes DEF NextBytes
    <3>3. cbuff' \in Buffers(Nat)
      BY <1>2, <3>2, NewBuffer DEF Buffer
    <3> QED
      BY <3>3, SessionAssumption
  <2>2. ccb # "closed"
    BY DEF recv_and_connect
  <2> QED
    BY <1>2, <2>1, <2>2, OkHook
<1> QED
  BY <1>1, <1>2 DEF recv_and_connect, Close

LEMMA OkConnected ==
  ASSUME OkInv, Types, Phase, on_connect \/ on_socks_conn \/ on_socks_recv
  PROVE  OkInv'
<1>1. ccb = "ignore"
  BY DEF Phase, Connecting, on_connect, on_socks_conn, on_socks_recv
<1>2. CASE ConnectFailed
  BY <1>1, <1>2, OkReconnect, OkRefuse DEF ConnectFailed
<1>3. CASE ConnectDone
  <2>1. ccb' = "tunnel" /\ odd' = odd
    BY <1>3 DEF ConnectDone
  <2>2. CASE said' = said
    BY <1>1, <2>1, <2>2, SilentStep
  <2>3. CASE cbuff = NULL /\ said' = Say("ok")
    BY <1>1, <2>1, <2>3, SayStep DEF OkInv
  <2> QED
    BY <1>3, <2>2, <2>3 DEF ConnectDone, resp_error
<1>4. CASE UNCHANGED <<clientvars, said, odd>>
  BY <1>4, SilentStep DEF clientvars, OkInv
<1> QED
  BY <1>2, <1>3, <1>4 DEF on_connect, on_socks_conn, on_socks_recv

LEMMA OkTrigger ==
  ASSUME OkInv, Types, TriggerOrClose, ccb = "tunnel"
  PROVE  OkInv'
BY OkReconnect, OkDrop DEF TriggerOrClose, Close

LEMMA OkUp ==
  ASSUME OkInv, Types, Phase, FlushUp \/ ReadUp
  PROVE  OkInv'
<1>1. ccb = "tunnel"
  BY DEF Phase, FlushUp, ReadUp, Called, Tunnel
<1>2. CASE ccb' = ccb /\ said' = said /\ odd \ {"stuck"} \subseteq odd'
  BY <1>1, <1>2, SilentStep
<1>3. CASE TriggerOrClose
  BY <1>1, <1>3, OkTrigger
<1>4. CASE Drop /\ UNCHANGED said
  BY <1>4, OkDrop
<1>5. CASE FlushUp
  BY <1>2, <1>3, <1>4, <1>5 DEF FlushUp, SetupFails, SendFails, Close
<1>6. CASE ReadUp
  BY <1>2, <1>4, <1>6 DEF ReadUp, ResetUp, Close, clientvars
<1> QED
  BY <1>5, <1>6

LEMMA OkDown ==
  ASSUME OkInv, Types, Phase, FlushDown \/ ReadDown
  PROVE  OkInv'
<1> USE SessionAssumption
<1>1. ccb = "tunnel"
  BY DEF Phase, FlushDown, ReadDown, Called, Tunnel
<1>2. CASE Close /\ UNCHANGED said
  BY <1>2, OkDrop DEF Close
<1>3. CASE FlushDown /\ ~(Close /\ UNCHANGED said)
  <2>1. PICK k \in 0..Len(Rest(rbuff)) : said' = said \o SubSeq(Rest(rbuff), 1, k)
    BY <1>3 DEF FlushDown
  <2>2. rbuff \in Buffers(ServerByte) /\ rbuff.offset < Len(rbuff.data)
    BY <1>3 DEF Types, FlushDown
  <2>3. rbuff.offset <= Len(rbuff.data)
    <3>1. rbuff.offset \in Nat /\ Len(rbuff.data) \in Nat
      BY <2>2, LenProperties DEF Buffers
    <3> QED
      BY <2>2, <3>1
  <2>4. SubSeq(Rest(rbuff), 1, k) \in Seq(ServerByte)
    BY ONLY <2>1, <2>2, <2>3, RestTaken
  <2>5. ccb' = ccb /\ odd' = odd
    BY <1>3 DEF FlushDown
  <2> QED
    BY <1>1, <2>1, <2>4, <2>5, DataStep
<1>4. CASE ReadDown
  <2>1. CASE UNCHANGED <<clientvars, said, odd>>
    BY <1>1, <2>1, SilentStep DEF clientvars
  <2>2. CASE TriggerOrClose
    BY <1>1, <2>2, OkTrigger
  <2>3. CASE reconnect
    BY <1>1, <2>3, OkReconnect
  <2>4. ASSUME NEW n \in 1..BufSize, NEW k \in 0..BufSize, k <= n,
               NEW d, d = [i \in 1..n |-> <<"data", conn, rrecv + i>>],
               said' = said \o SubSeq(d, 1, k), ccb' = ccb, odd' = odd
        PROVE  OkInv'
    <3>1. BufSize \in Nat /\ n \in Nat /\ k \in 0..n /\ rrecv \in Nat /\ conn \in Nat
      BY <2>4 DEF Types
    <3>2. ASSUME NEW i \in 1..n PROVE <<"data", conn, rrecv + i>> \in ServerByte
      <4>1. rrecv + i \in Nat
        BY <3>1
      <4> QED
        BY ONLY <3>1, <4>1 DEF ServerByte
    <3>3. d \in [1..n -> ServerByte]
      BY <2>4, <3>2
    <3>4. d \in Seq(ServerByte) /\ Len(d) = n
      BY ONLY <3>1, <3>3, FunctionSeq
    <3>5. SubSeq(d, 1, k) \in Seq(ServerByte)
      BY ONLY <3>1, <3>4, Prefix
    <3> QED
      BY <1>1, <2>4, <3>5, DataStep
  <2> QED
    BY <1>4, <2>1, <2>2, <2>3, <2>4 DEF ReadDown
<1> QED
  BY <1>2, <1>3, <1>4

LEMMA OkStep == SessionInv /\ OkInv /\ [Next]_vars => OkInv'
<1> SUFFICES ASSUME SessionInv, OkInv, [Next]_vars PROVE OkInv'
  OBVIOUS
<1>0. Types /\ Phase
  BY DEF SessionInv
<1>1. CASE on_request
  BY <1>0, <1>1, OkRequest
<1>2. CASE transp_conn
  BY <1>0, <1>2, OkConnect DEF transp_conn
<1>3. CASE recv_and_connect
  BY <1>0, <1>3, OkDelayed
<1>4. CASE on_connect \/ on_socks_conn \/ on_socks_recv
  BY <1>0, <1>4, OkConnected
<1>5. CASE on_ignore \/ UdpFails
  BY <1>0, <1>5, OkDrop DEF on_ignore, UdpFails, Close
<1>6. CASE FlushUp \/ ReadUp
  BY <1>0, <1>6, OkUp
<1>7. CASE FlushDown \/ ReadDown
  BY <1>0, <1>7, OkDown
<1>8. CASE on_timeout
  BY <1>0, <1>8, OkTrigger DEF on_timeout, Tunnel
<1>9. CASE UNCHANGED <<clientvars, said, odd>>
  BY <1>9, SilentStep DEF clientvars, OkInv
<1> QED
  BY <1>1, <1>2, <1>3, <1>4, <1>5, <1>6, <1>7, <1>8, <1>9
     DEF Next, Callback, Datagram, Reset, vars, sessvars

-----------------------------------------------------------------------------
(* The theorems                                                            *)

\* Whatever the modes, sizes and bounds, every callback of a client, a server
\* or another proxy keeps the invariant.
THEOREM SessionInvariant == Spec => []SessionInv
BY InitInv, StepInv, PTL DEF Spec

(***************************************************************************)
(* Buffers hold what is still to be sent, sq_buff never gets longer than   *)
(* bfsize, and every callback leaves masks, flags and counters in range.   *)
(***************************************************************************)
THEOREM SessionTypes == Spec => []TypeOK
<1>1. SessionInv /\ UdpInv => TypeOK
  <2> SUFFICES ASSUME SessionInv, UdpInv PROVE TypeOK
    OBVIOUS
  <2> USE SessionAssumption
  <2>1. Types
    BY DEF SessionInv
  <2>2. UdpOK
    <3>1. uround \in 0..Len(ulog) /\ Len(ulog) <= MaxDgrams /\ Len(ulog) \in Nat
      BY LenProperties DEF UdpInv, RoundsInv
    <3>2. uround \in 0..MaxDgrams
      BY <3>1, UdpAssumption
    <3>3. ttl \in {"def", "low"} /\ ufail \in BOOLEAN
      BY DEF UdpInv, WireInv
    <3> QED
      BY <3>2, <3>3 DEF UdpInv, RoundsInv, UdpOK
  <2>3. cbuff # NULL => cbuff.offset \in 0..Len(cbuff.data)
    BY <2>1, RestTaken DEF Types
  <2>4. rbuff # NULL => rbuff.offset \in 0..(Len(rbuff.data) - 1)
    <3>1. SUFFICES ASSUME rbuff # NULL
                   PROVE  rbuff.offset \in 0..(Len(rbuff.data) - 1)
      OBVIOUS
    <3>2. rbuff \in Buffers(ServerByte) /\ rbuff.offset < Len(rbuff.data)
      BY <2>1, <3>1 DEF Types
    <3>3. rbuff.offset \in Nat /\ Len(rbuff.data) \in Nat
      BY <3>2, LenProperties DEF Buffers
    <3> QED
      BY <3>2, <3>3
  <2>5. {cmask, rmask} \subseteq {"none", "in", "out"}
        /\ {nogroup, early, twice} \subseteq BOOLEAN
    BY <2>1 DEF Types
  <2> QED
    BY <2>1, <2>2, <2>3, <2>4, <2>5 DEF Types, TypeOK, Connecting, Ends
<1> QED
  BY <1>1, SessionInvariant, UdpInvariant, PTL

(***************************************************************************)
(* Every reconnect, partial send and reset leaves the present server       *)
(* socket with the client's bytes from the first one on, in order, none    *)
(* twice and none missing but those in the buffer (tcp_recv_hook,          *)
(* tcp_send_hook, reconnect, on_tunnel), unless desync has sent something  *)
(* else than it reports (Garbled) or create_conn has failed in a reconnect *)
(* (twice), after which the request is sent again.                         *)
(***************************************************************************)
THEOREM RequestsWhole == Spec => []RequestWhole
<1>1. SessionInv => RequestWhole
  <2> SUFFICES ASSUME SessionInv PROVE RequestWhole
    OBVIOUS
  <2>1. Types /\ RequestInv
    BY DEF SessionInv
  <2>2. DOMAIN wire = 1..Len(wire) /\ Len(wire) \in Nat
    BY <2>1, LenProperties DEF Types
  <2>3. ASSUME ccb = "tunnel", ~nogroup, ~twice, wire # Garbled
        PROVE  Len(wire) = crecv - (IF cbuff = NULL THEN 0 ELSE Len(Rest(cbuff)))
    <3>1. Len(wire) + Left(cbuff) = crecv
      BY <2>1, <2>3 DEF RequestInv
    <3>2. CASE cbuff = NULL
      BY <2>2, <3>1, <3>2 DEF Left
    <3>3. CASE cbuff # NULL
      <4>1. /\ Len(cbuff.data) \in Nat /\ cbuff.offset \in Nat
            /\ Len(Rest(cbuff)) = Len(cbuff.data) - cbuff.offset
        BY <2>1, <3>3, RestTaken DEF Types
      <4>2. Len(wire) + (Len(cbuff.data) - cbuff.offset) = crecv
        BY <3>1, <3>3 DEF Left
      <4> QED
        BY ONLY <2>2, <3>3, <4>1, <4>2
    <3> QED
      BY <3>2, <3>3
  <2> QED
    BY <2>1, <2>2, <2>3 DEF RequestInv, RequestWhole
<1> QED
  BY <1>1, SessionInvariant, PTL

(***************************************************************************)
(* The client gets replies of the proxy and then the bytes of one server   *)
(* socket, all that were read and in order: on_response and on_trigger     *)
(* never reconnect once an answer has begun to be passed on.               *)
(***************************************************************************)
THEOREM AnswersWhole == Spec => []AnswerWhole
<1>1. SessionInv => AnswerWhole
  <2> SUFFICES ASSUME SessionInv, ~early
               PROVE  \E r \in 0..Len(said) :
                        /\ \A i \in 1..r : said[i][1] # "data"
                        /\ \A i \in (r + 1)..Len(said) : said[i] = <<"data", conn, i - r>>
                        /\ ccb = "tunnel" =>
                             Len(said) - r = rrecv - (IF rbuff = NULL THEN 0 ELSE Len(Rest(rbuff)))
    BY DEF AnswerWhole
  <2>1. Types /\ AnswerInv
    BY DEF SessionInv
  <2>2. PICK r \in 0..Len(said) : Answered(r)
    BY <2>1 DEF AnswerInv
  <2>3. Left(rbuff) = IF rbuff = NULL THEN 0 ELSE Len(Rest(rbuff))
    <3>1. ASSUME rbuff # NULL
          PROVE  Len(Rest(rbuff)) = Len(rbuff.data) - rbuff.offset
      <4>1. rbuff \in Buffers(ServerByte) /\ rbuff.offset < Len(rbuff.data)
        BY <2>1, <3>1 DEF Types
      <4>2. rbuff.offset \in Nat /\ Len(rbuff.data) \in Nat
        BY <4>1, LenProperties DEF Buffers
      <4>3. rbuff.offset <= Len(rbuff.data)
        BY ONLY <4>1, <4>2
      <4> QED
        BY ONLY <4>1, <4>3, RestTaken
    <3> QED
      BY <3>1 DEF Left
  <2>4. ccb = "tunnel" => Len(said) - r = rrecv - Left(rbuff)
    BY <2>2 DEF Answered
  <2> QED
    BY <2>2, <2>3, <2>4 DEF Answered
<1> QED
  BY <1>1, SessionInvariant, PTL

(***************************************************************************)
(* A SOCKS or HTTP client gets its reply (on_connect, or connect_hook for  *)
(* a connection that is put off) before the server's data and only once,   *)
(* no reply gets among the data and an error is the last reply, but for    *)
(* the two cases RepliesFirst names: it is connected again before it has   *)
(* sent anything (reconnect), or sends data instead of a request           *)
(* (on_request).                                                           *)
(***************************************************************************)
THEOREM RepliesComeFirst == Spec => []RepliesFirst
<1>1. SessionInv /\ OkInv => RepliesFirst
  <2> SUFFICES ASSUME SessionInv, OkInv, ~early PROVE RepliesFirst
    BY DEF RepliesFirst
  <2>1. Types /\ AnswerInv /\ ToldInv
    BY DEF SessionInv
  <2>2. DOMAIN said = 1..Len(said) /\ Len(said) \in Nat
    BY <2>1, LenProperties DEF Types
  <2>3. PICK r \in 0..Len(said) : Answered(r)
    BY <2>1 DEF AnswerInv
  <2>4. ASSUME NEW i \in 1..Len(said), said[i][1] = "data", NEW j \in i..Len(said)
        PROVE  said[j][1] = "data"
    <3>1. i > r
      BY <2>2, <2>3, <2>4 DEF Answered
    <3>2. j \in (r + 1)..Len(said)
      BY <2>2, <2>3, <2>4, <3>1
    <3>3. said[j] = <<"data", conn, j - r>>
      BY <2>3, <3>2 DEF Answered
    <3> QED
      BY ONLY <3>3
  <2>5. ASSUME NEW i \in 1..Len(said), said[i][1] = "data", flag # "none", "raw" \notin odd
        PROVE  \E j \in 1..(i - 1) : said[j][1] = "ok"
    BY <2>1, <2>5 DEF ToldInv
  <2>6. "retold" \notin odd => Once
    BY DEF OkInv
  <2>7. \A i \in 1..Len(said) : said[i][1] \in {"err", "noauth"} => i = Len(said)
    BY DEF OkInv, Last
  <2> QED
    BY <2>2, <2>4, <2>5, <2>6, <2>7 DEF RepliesFirst, Once
<1>2. Init => OkInv
  <2> SUFFICES ASSUME Init PROVE OkInv
    OBVIOUS
  <2>1. said = <<>> /\ Len(said) = 0
    BY DEF Init
  <2> QED
    BY <2>1 DEF Init, OkInv, Told, Once, Last
<1> QED
  BY <1>1, <1>2, OkStep, SessionInvariant, PTL DEF Spec

==============================================================================
