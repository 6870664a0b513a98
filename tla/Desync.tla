------------------------------- MODULE Desync -------------------------------
(***************************************************************************)
(* A client's data on its way to the server: on_tunnel of proxy.c,         *)
(* tcp_recv_hook and tcp_send_hook of extend.c, and desync of desync.c,    *)
(* which sends a request in parts, some with a low TTL, as a fake or with  *)
(* an urgent byte, and may stop after each part until the kernel has sent  *)
(* it.                                                                     *)
(*                                                                         *)
(* Bytes are numbered from 1 in the order the client sends them; wire is   *)
(* what the kernel has accepted on the remote socket, without the urgent   *)
(* bytes, which the server's TCP takes out of the stream.  A client may    *)
(* start with a TLS hello, whose record tamp cuts into several; a record   *)
(* header, five bytes in the code, is one item here.  Left out are         *)
(* mod_http and tlsminor, which change bytes in place, random offsets,     *)
(* parts placed by a host name that tamp has moved, and send errors other  *)
(* than EAGAIN.                                                            *)
(***************************************************************************)
EXTENDS Integers, Sequences, FiniteSets, SequencesExt

CONSTANTS Settings,   \* the desync_params to consider: parts and tlsrec
          Lengths,    \* how much a client may send at a time
          Hosts,      \* where the host name may be in what it sends
          Missing,    \* how much of a hello's record may not be in its first read
          MaxBytes,   \* bound of what it sends in all
          SlowBytes,  \* the same when sends may be refused or cut
          BufSize,    \* params.bfsize
          Rounds,     \* the requests desync_params.rounds asks to desync
          WaitSends,  \* the values of params.wait_send
          SameRound,  \* the client may send again before the server answers
          Slows,      \* whether send may fail with EAGAIN or take less than given
          MaxBusy,    \* bound of how often the kernel holds data back
          MaxUrgent,  \* bound of the urgent bytes
          MaxResets   \* bound of the reconnects

\* struct part: what is done at a position, r times s bytes apart.
Parts == [m : STRING, pos : Int, flag : STRING, r : Nat, s : Int]

ASSUME DesyncAssumption ==
  /\ Settings \subseteq [parts : Seq(Parts), tlsrec : Seq(Parts)]
  /\ MaxBytes \in Nat /\ SlowBytes \in Nat /\ {MaxBusy, MaxUrgent, MaxResets} \subseteq Nat
  /\ BufSize \in Nat /\ Lengths \subseteq 1..BufSize
  /\ Hosts \cup Missing \subseteq Nat
  /\ SameRound \in BOOLEAN /\ WaitSends \cup Slows \subseteq BOOLEAN

VARIABLES
  parts,       \* desync_params.parts, repeats written out
  tlsrec,      \* desync_params.tlsrec, likewise
  wait_send,   \* params.wait_send
  slow,        \* send may fail with EAGAIN or take less than it is given
  taken,       \* client eval.recv_count
  round,       \* client eval.round_count
  base,        \* how many bytes of the stream precede the client's buff
  buf, offset, \* the data of buff, buff.lock of it, and buff.offset
  hello,       \* the length of the record the client started with, 0 for none
  host,        \* proto_info.host_pos of the buffer, 0 for none
  round_sent,  \* client eval.round_sent
  part_sent,   \* client eval.part_sent
  answered,    \* remote eval.round_sent # 0
  wire,        \* what the kernel has accepted for the stream
  urgent,      \* how many urgent bytes it has accepted beside it
  low, fake,   \* remote eval.restore_ttl with a low TTL set; restore_fake
  spoilt,      \* (history) bytes of this connection went out before that was restored
  timer,       \* the remote slot's timer is armed
  cin, rout,   \* client's POLLIN and remote's POLLOUT are asked for
  pc,          \* where the callback is
  fresh,       \* it is in on_tunnel's second branch, with data just received
  want,        \* on_tunnel's n of its first branch
  skip, part_skip, curr, lp,  \* desync's locals
  ret, wait,   \* what tcp_send_hook and desync return
  upset,       \* (history) what has gone wrong: "early", an answer came before all
               \* of the request was sent; "again", tamp ran on what it had already
               \* rewritten; "short", what tamp had added was not waited for
  busy, resets \* how often the kernel held data back, and reconnects

confvars == <<parts, tlsrec, wait_send, slow>>
buffvars == <<taken, round, base, buf, host, hello, answered, upset>>
kernvars == <<wire, urgent, low, fake, spoilt, busy>>
pollvars == <<timer, cin, rout>>
callvars == <<fresh, want, skip, part_skip, curr, lp, ret, wait>>
vars == <<confvars, buffvars, offset, round_sent, part_sent, kernvars, pollvars,
          callvars, pc, resets>>

\* Without repeats a part is sent once: r is 0 or 1.
Repeat(p) ==
  [k \in 1..(IF p.r = 0 THEN 1 ELSE p.r) |->
     [m |-> p.m, pos |-> p.pos, flag |-> p.flag, s |-> p.s, k |-> k - 1]]

WrittenOut(ps) == FlattenSeq([i \in 1..Len(ps) |-> Repeat(ps[i])])

Init ==
  /\ \E dp \in Settings : parts = WrittenOut(dp.parts) /\ tlsrec = WrittenOut(dp.tlsrec)
  /\ wait_send \in WaitSends /\ slow \in Slows
  /\ taken = 0 /\ round = 0 /\ base = 0 /\ buf = <<>> /\ offset = 0
  /\ host = 0 /\ hello = 0 /\ upset = {}
  /\ round_sent = 0 /\ part_sent = 0 /\ answered = FALSE
  /\ wire = <<>> /\ urgent = 0 /\ low = FALSE /\ fake = FALSE /\ spoilt = FALSE
  /\ timer = FALSE /\ cin = TRUE /\ rout = FALSE
  /\ pc = "idle"
  /\ fresh = FALSE /\ want = 0 /\ skip = 0 /\ part_skip = 0 /\ curr = 0 /\ lp = 0
  /\ ret = 0 /\ wait = FALSE
  /\ busy = 0 /\ resets = 0

-----------------------------------------------------------------------------
(* tamp                                                                    *)

\* An item of a buffer: a byte of the client, the header of a record of so many
\* bytes, or what happened to be behind the data.
Byte(i) == <<"byte", i>>
Header(r) == <<"head", r>>
Junk == <<"junk", 0>>

\* Bytes a + 1 to b of the client, which started with a record of h bytes.
Stream(a, b, h) ==
  [i \in 1..(b - a) |-> IF h > 0 /\ a + i = 1 THEN Header(h) ELSE Byte(a + i)]

n == Len(buf)
Most == IF slow THEN SlowBytes ELSE MaxBytes

\* OFFSET_START, alone or with a host name.
AtStart(c) == c.flag \in {"start", "hoststart"}

\* Where a part lies in l bytes with a host name at h.
gen_offset(c, l, h) ==
  IF c.flag \in {"host", "hoststart"}
  THEN IF h = 0 THEN -1 ELSE c.pos + h
  ELSE c.pos + CASE c.flag = "mid" -> l \div 2
                 [] c.flag = "end" \/ (c.flag \in {"none", "start"} /\ c.pos < 0) -> l
                 [] OTHER -> 0

\* Mutant: the new header has the length of the whole record.
CutLong(b, at, pos) ==
  LET r_sz == b[at + 1][2]
  IN SubSeq(b, 1, at) \o << Header(pos) >> \o SubSeq(b, at + 2, at + pos + 1)
       \o << Header(r_sz) >> \o SubSeq(b, at + pos + 2, Len(b))

\* The record at position at is cut after pos bytes.
Cut(b, at, pos) ==
  LET r_sz == b[at + 1][2]
  IN SubSeq(b, 1, at) \o << Header(pos) >> \o SubSeq(b, at + 2, at + pos + 1)
       \o << Header(r_sz - pos) >> \o SubSeq(b, at + pos + 2, Len(b))

\* One turn of tamp's loop: t is the buffer, where its last record starts, how
\* many turns there were and whether the loop goes on.  For a position behind
\* the record part_tls only claims to have cut it: tamp counts a header and goes
\* on, reading the next record's length from whatever is there.
part_tls(t, c, h) ==
  LET l == Len(t.buf)
      back == IF c.pos < 0 \/ c.flag # "none" THEN 1 ELSE 0
      pos == t.rc + gen_offset(c, l - t.rc, h) - back + c.s * c.k
  IN IF ~t.on \/ pos < t.lp \/ l < t.lp + 1 \/ l + 1 > BufSize \/ pos + 1 > l
     THEN [t EXCEPT !.on = FALSE]
     ELSE IF t.buf[t.lp + 1][2] < pos - t.lp
          THEN [on |-> TRUE, lp |-> pos + 1, rc |-> t.rc + 1, buf |-> Append(t.buf, Junk)]
          ELSE [on |-> TRUE, lp |-> pos + 1, rc |-> t.rc + 1,
                buf |-> Cut(t.buf, t.lp, pos - t.lp)]

\* Only what starts with a hello, its type byte included, is rewritten.
tamp(b, h) ==
  LET turn[i \in 0..Len(tlsrec)] ==
        IF i = 0 THEN [buf |-> b, lp |-> 0, rc |-> 0, on |-> TRUE]
        ELSE part_tls(turn[i - 1], tlsrec[i], h)
  IN IF tlsrec # <<>> /\ Len(b) > 1 /\ b[1][1] = "head" /\ b[2][1] = "byte"
     THEN turn[Len(tlsrec)].buf
     ELSE b

-----------------------------------------------------------------------------
(* on_tunnel, before and after tcp_send_hook                               *)

\* Mutant: what the round has sent is forgotten.
CountersAnew(rs, ps) == skip' = 0 /\ part_skip' = 0

Counters(rs, ps) == skip' = rs /\ part_skip' = ps

\* desync is entered with the data b, which it rewrites when nothing of the
\* round has been sent, or its round is over and the data just sent.
Enter(r, rs, ps, b, off, isnew) ==
  /\ pc' = IF r \in Rounds THEN "part" ELSE "plain"
  /\ buf' = IF r \in Rounds /\ rs = 0 THEN tamp(b, host') ELSE b
  /\ want' = Len(b) - off
  /\ Counters(rs, ps)
  /\ curr' = 0 /\ lp' = off
  /\ fresh' = isnew
  /\ wait' = FALSE
  /\ UNCHANGED ret

\* tcp_recv_hook takes l bytes from the client, a host name at h in them and,
\* in the first, perhaps the start of a hello of which m bytes are to follow.
Recv(l, h, m) ==
  /\ pc = "idle" /\ cin
  /\ taken + l <= Most /\ h < l
  /\ SameRound \/ round = 0 \/ answered
  /\ taken' = taken + l /\ base' = taken
  /\ offset' = 0 /\ host' = h
  /\ hello' \in (IF taken = 0 /\ tlsrec # <<>> THEN {0, l - 1 + m} ELSE {hello})
  /\ IF round_sent = 0
     THEN round' = round + 1 /\ answered' = FALSE
     ELSE UNCHANGED <<round, answered>>
  /\ Enter(round', round_sent, part_sent, Stream(taken, taken', hello'), 0, TRUE)
  /\ UNCHANGED <<confvars, round_sent, part_sent, kernvars, pollvars, upset, resets>>

\* Mutant: only the sockets wake it.
SocketWakes ==
  (rout \/ (cin /\ taken < Most)) /\ UNCHANGED timer

\* What wakes a pending request: the timer, room in the remote socket or more
\* data of the client.
Wakes ==
  \/ timer /\ timer' = FALSE
  \/ (rout \/ (cin /\ taken < Most)) /\ UNCHANGED timer

\* The data left in the buffer is taken up again.
Resume ==
  /\ pc = "pending"
  /\ Wakes
  /\ UNCHANGED <<taken, round, base, host, hello, answered>>
  /\ Enter(round, round_sent, part_sent, buf, offset, FALSE)
  /\ upset' = upset \cup
       IF round \in Rounds /\ round_sent = 0 /\ tlsrec # <<>> THEN {"again"} ELSE {}
  /\ UNCHANGED <<confvars, offset, round_sent, part_sent, kernvars, cin, rout, resets>>

\* Mutant: the offset is what the last send took.
LastSent(r) == r

\* buff.offset when r more bytes have been sent.
Onward(r) == offset + r

\* Mutant: the client is read while its data waits.
MasksLeft == UNCHANGED cin /\ rout' = ~wait

\* Both sides are put off until the kernel has room or the wait is over.
Masks == cin' = FALSE /\ rout' = ~wait

\* tcp_send_hook has returned ret, and on_tunnel leaves the rest in the buffer or
\* gives the buffer back.  In its first branch it compares ret with what was there
\* before tamp made it longer.
Return ==
  /\ pc = "return"
  /\ round_sent' = round_sent + ret
  /\ IF ret < (IF fresh THEN n ELSE want) \/ wait
     THEN /\ offset' = Onward(ret)
          /\ pc' = "pending"
          /\ IF fresh THEN Masks ELSE UNCHANGED <<cin, rout>>
          /\ UNCHANGED <<buf, upset>>
     ELSE /\ offset' = 0 /\ buf' = <<>>
          /\ pc' = "idle"
          /\ IF fresh THEN UNCHANGED <<cin, rout>> ELSE cin' = TRUE /\ rout' = FALSE
          /\ upset' = upset \cup IF ret < n - offset THEN {"short"} ELSE {}
  /\ fresh' = FALSE /\ want' = 0 /\ skip' = 0 /\ part_skip' = 0 /\ curr' = 0 /\ lp' = 0
  /\ ret' = 0 /\ wait' = FALSE
  /\ UNCHANGED <<confvars, taken, round, base, host, hello, answered, part_sent,
                 kernvars, timer, resets>>

\* The server answers: a new round starts for the client.  Only after a
\* reconnect is it listened to while the request is still being sent.
Answer ==
  /\ pc \in {"idle", "pending"} /\ cin
  /\ ~answered /\ round > 0
  /\ answered' = TRUE
  /\ round_sent' = 0 /\ part_sent' = 0
  /\ upset' = upset \cup IF pc = "pending" THEN {"early"} ELSE {}
  /\ UNCHANGED <<confvars, taken, round, base, buf, host, hello, offset, kernvars,
                 pollvars, callvars, pc, resets>>

\* A timer that outlives its wait is taken for the remote's time-out: before
\* the first answer it only makes on_tunnel look for data of the client, later
\* on_timeout ends the session or sets the timer again.
Expire ==
  /\ pc = "idle" /\ timer
  /\ \/ (round > 1 \/ answered) /\ pc' \in {"closed", "idle"} /\ UNCHANGED timer
     \/ ~(round > 1 \/ answered) /\ timer' = FALSE /\ UNCHANGED pc
  /\ UNCHANGED <<confvars, buffvars, offset, round_sent, part_sent, kernvars, cin, rout,
                 callvars, resets>>

-----------------------------------------------------------------------------
(* desync                                                                  *)

\* Mutant: the buffer is sent from its start.
BytesFromStart(a, b) == SubSeq(buf, 1, b - a)

\* The bytes of the buffer from position a to position b.
Bytes(a, b) == SubSeq(buf, a + 1, b)

\* How much of l bytes send may take.
Takes(l) == IF slow /\ l > 0 THEN 1..l ELSE {l}

Place(c) == gen_offset(c, n, host) + c.s * c.k

\* Mutant: the part that was being waited for is taken for done.
PassedToo(i, p) ==
  \/ (skip > 0 /\ p <= skip) \/ i < part_skip
  \/ offset > 0 /\ p < offset

\* Part number i, at position p, has been dealt with in an earlier call, or is
\* taken for it; a part with OFFSET_START that lies where the rest begins is done
\* again.
Passed(i, p) ==
  \/ ((skip > 0 /\ p < skip) \/ i < part_skip) /\ ~AtStart(parts[i])
  \/ offset > 0 /\ p < offset

Urgent(c) == c.m \in {"oob", "disoob"}
Lowers(c, l) == (c.m = "fake" /\ l > 0) \/ (c.m \in {"disorder", "disoob"} /\ c.k % 2 = 0)
Fakes(c, l) == c.m = "fake" /\ l > 0

\* Mutant: what was sent before this call is counted again.
LeaveTotal(p, w) == pc' = "return" /\ ret' = p /\ wait' = w

\* desync returns with everything up to position p counted as sent.
Leave(p, w) == pc' = "return" /\ ret' = p - offset /\ wait' = w

\* The part reached position p: desync waits for the kernel or goes on.
Sent(p, lo, fa) ==
  \/ /\ busy < MaxBusy /\ busy' = busy + 1
     /\ Leave(p, TRUE)
     /\ low' = lo /\ fake' = fa /\ timer' = TRUE
     /\ UNCHANGED lp
  \/ /\ wait_send /\ curr + 1 > part_skip
     /\ Leave(p, TRUE)
     /\ low' = lo /\ fake' = fa /\ timer' = TRUE
     /\ UNCHANGED <<lp, busy>>
  \/ /\ ~(wait_send /\ curr + 1 > part_skip)
     /\ low' = FALSE /\ fake' = FALSE
     /\ lp' = p
     /\ UNCHANGED <<pc, ret, wait, timer, busy>>

\* Part c, up to position p, goes to the kernel.
SendPart(c, p) ==
  LET l == p - lp
      lo == low \/ Lowers(c, l)
      fa == fake \/ Fakes(c, l)
      all == l + IF Urgent(c) THEN 1 ELSE 0
  IN \/ /\ slow /\ all > 0
        /\ Leave(lp, FALSE)
        /\ low' = lo /\ fake' = fa
        /\ UNCHANGED <<lp, wire, urgent, spoilt, timer, busy>>
     \/ \E q \in Takes(all) :
          /\ q > l => urgent < MaxUrgent
          /\ wire' = wire \o Bytes(lp, IF q > l THEN p ELSE lp + q)
          /\ urgent' = urgent + IF q > l THEN 1 ELSE 0
          /\ spoilt' = (spoilt \/ (q > 0 /\ (low \/ fake)))
          /\ IF q = all
             THEN Sent(p, lo, fa)
             ELSE /\ Leave(lp + (IF Urgent(c) THEN q - 1 ELSE q), FALSE)
                  /\ low' = lo /\ fake' = fa
                  /\ UNCHANGED <<lp, timer, busy>>

\* One turn of the loop over the parts.
Part ==
  /\ pc = "part" /\ curr < Len(parts)
  /\ LET c == parts[curr + 1]
         place == Place(c)
         p == IF place > n THEN n ELSE place
     IN \/ /\ Passed(curr + 1, place)
           /\ curr' = curr + 1
           /\ UNCHANGED <<part_sent, kernvars, timer, lp, ret, wait, pc>>
        \/ /\ ~Passed(curr + 1, place)
           /\ place < 0 \/ place < lp
           /\ pc' = "rest"
           /\ UNCHANGED <<part_sent, kernvars, timer, curr, lp, ret, wait>>
        \/ /\ ~Passed(curr + 1, place)
           /\ place >= 0 /\ place >= lp
           /\ curr' = curr + 1
           /\ part_sent' = curr + 1
           /\ IF curr + 1 = part_skip
              THEN Sent(p, low, fake) /\ UNCHANGED <<wire, urgent, spoilt>>
              ELSE SendPart(c, p)
  /\ UNCHANGED <<confvars, buffvars, offset, round_sent, cin, rout, fresh, want,
                 skip, part_skip, resets>>

\* All parts are through.
PartsEnd ==
  /\ pc = "part" /\ curr = Len(parts)
  /\ pc' = "rest"
  /\ UNCHANGED <<confvars, buffvars, offset, round_sent, part_sent, kernvars,
                 pollvars, callvars, resets>>

\* The rest of the buffer is sent; how much of it send took is not looked at.
Rest ==
  /\ pc = "rest"
  /\ \/ \E q \in Takes(IF lp < n THEN n - lp ELSE 0) :
          /\ wire' = wire \o Bytes(lp, lp + q)
          /\ spoilt' = (spoilt \/ (q > 0 /\ (low \/ fake)))
          /\ UNCHANGED urgent
          /\ Leave(n, FALSE)
     \/ /\ slow /\ lp < n
        /\ Leave(lp, FALSE)
        /\ UNCHANGED <<wire, urgent, spoilt>>
  /\ UNCHANGED <<confvars, buffvars, offset, round_sent, part_sent, low, fake, busy,
                 pollvars, fresh, want, skip, part_skip, curr, lp, resets>>

\* tcp_send_hook outside the rounds to desync.
Plain ==
  /\ pc = "plain"
  /\ \/ \E q \in Takes(n - offset) :
          /\ wire' = wire \o Bytes(offset, offset + q)
          /\ spoilt' = (spoilt \/ (q > 0 /\ (low \/ fake)))
          /\ UNCHANGED urgent
          /\ Leave(offset + q, FALSE)
     \/ /\ slow /\ Leave(offset, FALSE)
        /\ UNCHANGED <<wire, urgent, spoilt>>
  /\ UNCHANGED <<confvars, buffvars, offset, round_sent, part_sent, low, fake, busy,
                 pollvars, fresh, want, skip, part_skip, curr, lp, resets>>

-----------------------------------------------------------------------------
(* reconnect                                                               *)

\* Before the first answer the request is kept in sq_buff, as long as there is
\* room for it: when the server looks blocked, all of it goes back into the
\* buffer for a new socket.
reconnect ==
  /\ pc \in {"idle", "pending", "connect"}
  /\ round = 1 /\ ~answered /\ taken < BufSize
  /\ resets < MaxResets /\ resets' = resets + 1
  /\ base' = 0 /\ buf' = Stream(0, taken, hello) /\ offset' = 0
  /\ upset' = upset \ {"again", "short"}
  /\ round_sent' = 0 /\ part_sent' = 0
  /\ wire' = <<>> /\ urgent' = 0 /\ low' = FALSE /\ fake' = FALSE /\ spoilt' = FALSE
  /\ timer' = FALSE /\ cin' = FALSE /\ rout' = FALSE
  /\ pc' = "connect"
  /\ host' \in (IF base = 0 THEN {host} ELSE Hosts)
  /\ UNCHANGED <<confvars, taken, round, hello, answered, busy, callvars>>

\* on_connect calls on_tunnel, which finds data in the buffer.
on_connect ==
  /\ pc = "connect"
  /\ cin' = TRUE /\ rout' = FALSE
  /\ UNCHANGED <<taken, round, base, host, hello, answered, upset>>
  /\ Enter(round, round_sent, part_sent, buf, offset, FALSE)
  /\ UNCHANGED <<confvars, offset, round_sent, part_sent, kernvars, timer, resets>>

-----------------------------------------------------------------------------
Call == Return \/ Part \/ PartsEnd \/ Rest \/ Plain

Next ==
  \/ \E l \in Lengths, h \in Hosts, m \in Missing : Recv(l, h, m)
  \/ Resume
  \/ Call
  \/ Answer
  \/ Expire
  \/ reconnect
  \/ on_connect

\* Callbacks run to their end, armed timers and writable sockets are served
\* and a connect succeeds or fails.
Spec == Init /\ [][Next]_vars /\ WF_vars(Call) /\ WF_vars(Resume) /\ WF_vars(on_connect)

-----------------------------------------------------------------------------
(* Properties                                                              *)

\* Positions stay within the buffer, and the buffer within its size.
TypeOK ==
  /\ taken \in 0..Most /\ base \in 0..taken
  /\ n \in 0..BufSize /\ offset \in 0..n
  /\ pc \in {"idle", "pending", "part", "rest", "plain", "return", "connect",
             "closed"}
  /\ pc \in {"part", "rest", "return"} => lp \in offset..n
  /\ pc = "return" => ret \in 0..(n - offset)
  /\ part_sent \in 0..Len(parts)
  /\ {low, fake, spoilt, timer, cin, rout, wait, answered, fresh} \subseteq BOOLEAN

IsHead(b) == b[1] = "head"

\* The bytes in a sequence are in the order the client sent them in, and none is
\* there twice.
InTurn(w) ==
  \A i, j \in DOMAIN w : i < j /\ ~IsHead(w[i]) /\ ~IsHead(w[j]) => w[i][2] < w[j][2]

\* A sequence has the bytes a + 1 to b of the client, each once and in their order,
\* and nothing else but headers of records.
Carries(w, a, b) ==
  /\ InTurn(w)
  /\ \A i \in DOMAIN w : IsHead(w[i]) \/ \E k \in (a + 1)..b : w[i] = Byte(k)
  /\ \A k \in (a + 1)..b : \E i \in DOMAIN w : w[i] = Byte(k)

\* A client's hello starts with a header.
first == IF hello > 0 THEN 1 ELSE 0

\* Splitting, waiting and resuming neither lose, repeat nor reorder a byte of
\* the request, and buff.offset says how much of it the kernel has.
StreamIntact ==
  upset = {} /\ ~slow =>
    /\ \E b \in 0..taken : Carries(wire, first, b)
    /\ pc = "idle" => Carries(wire, first, taken)
    /\ pc = "pending" =>
         SubSeq(wire, Len(wire) - offset + 1, Len(wire)) = SubSeq(buf, 1, offset)

\* Each header but the first stands where the record of another one ends, and the
\* records together have l bytes.
Whole(w, l) ==
  LET heads == { i \in DOMAIN w : IsHead(w[i]) }
  IN /\ heads \ {1} \subseteq { i + 1 + w[i][2] : i \in heads }
     /\ \E i \in heads :
          /\ \A j \in heads : j <= i
          /\ i + w[i][2] = l + Cardinality(heads)

\* The records tamp makes of a hello follow one another without a gap and
\* together are as long as the client's, wherever the parts were cut.
RecordsWhole == upset = {} /\ ~slow /\ pc = "idle" /\ hello > 0 => Whole(wire, hello)

\* A part with OFFSET_START is done again, and may then be waited for, after which
\* those behind it are done again too: their urgent byte is repeated, and with it
\* the bytes before it when send had only taken those.
UrgentAgain ==
  \E i \in DOMAIN parts : AtStart(parts[i]) /\ \E j \in i..Len(parts) : Urgent(parts[j])

\* Whatever send takes or refuses, and even when an early answer makes desync
\* start the round again, no byte goes out twice or out of turn; where sends are
\* refused, this is of parts that are not done again.
InOrder ==
  "again" \notin upset /\ (("early" \notin upset /\ ~UrgentAgain) \/ ~slow)
    => InTurn(wire)

\* When send refuses the urgent byte of a disoob and there is no other byte left,
\* desync takes the request for sent and leaves the TTL low.  The urgent byte of a
\* part with OFFSET_START may be sent again before the TTL is put back.
TtlMayStay ==
  \/ slow /\ \E i \in DOMAIN parts : parts[i].m = "disoob"
  \/ \E i \in DOMAIN parts : AtStart(parts[i]) /\ Urgent(parts[i])

\* A low TTL or a fake is put back before anything else is sent, however
\* often desync had to leave and come back in between.
OnlyPartsSpoilt ==
  upset = {} /\ ~TtlMayStay => ~spoilt /\ (pc = "idle" => ~low /\ ~fake)

\* An urgent byte that has been sent is not sent again when desync comes back,
\* unless an answer has made it forget the round or it belongs to a part that is
\* done again.
UrgentOnce ==
  "early" \notin upset /\ ~UrgentAgain =>
    urgent <= Cardinality(Rounds \cap 1..round)
                * Cardinality({ i \in DOMAIN parts : Urgent(parts[i]) })

\* The timer of a wait never outlives it to end a session that is not waiting,
\* unless a reconnect or a refused send has left other events to wake it.
WaitEndsTimer == pc = "idle" /\ timer => resets > 0 \/ slow

\* A request in the buffer is sent to its end: while the session lasts there
\* is always a timer or a readiness event left to take it up again.
Delivered == ~slow /\ pc # "idle" ~> pc \in {"idle", "closed"}
=============================================================================
