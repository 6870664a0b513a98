------------------------------- MODULE Session -------------------------------
(***************************************************************************)
(* One client of the proxy from its first message to the end: on_request,  *)
(* the connection (through another proxy, or put off until the client has  *)
(* sent data), on_connect, the tunnel in both directions with the masks    *)
(* that wake it, and the reconnects in between.                            *)
(*                                                                         *)
(* The kth byte of the client is k, that of the nth server socket          *)
(* <<"data", n, k>>.  Which group is chosen is left to AutoGroups, how a   *)
(* request is sent to Desync.  A callback is one step, except that every   *)
(* turn of on_tunnel's loop is a step of its own, during which (pc) no     *)
(* other callback runs.                                                    *)
(***************************************************************************)
EXTENDS Udp

CONSTANTS
  Modes,        \* the sets of MODE_* the proxy may have been started with
  AutoReconnect, \* params.auto_reconnect, and there is another group to try
  DelayConn,    \* params.delay_conn: some groups go through another proxy
  BufSize,      \* params.bfsize
  MaxUp,        \* bound of the bytes the client sends
  MaxDown,      \* bound of the bytes a server sends
  MaxConns,     \* bound of the sockets to servers
  NULL

\* eval.buff, for the bytes S.
Buffers(S) == [data : Seq(S), offset : Nat]

ASSUME SessionAssumption ==
  /\ {AutoReconnect, DelayConn} \subseteq BOOLEAN
  /\ {BufSize, MaxConns} \subseteq Nat \ {0}
  /\ {MaxUp, MaxDown} \subseteq Nat
  /\ NULL \notin Seq(Nat) \cup Buffers(Nat) \cup Buffers({"data"} \X Nat \X Nat)

VARIABLES
  mode,      \* params.mode
  ccb,       \* the client's eval.cb, or closed
  flag,      \* its eval.flag
  cmask,     \* its events: none, in or out
  cbuff,     \* its eval.buff: bytes for the server, and offset
  sq,        \* its eval.sq_buff: its first request
  crecv,     \* its eval.recv_count
  nogroup,   \* its eval.dp_mask is full
  conn,      \* the number of the present server socket
  rcb,       \* the remote slot's eval.cb, or none
  rmask, rbuff, rrecv,
  hops,      \* good answers of the other proxy still needed
  pc,        \* on_tunnel's loop: idle, flush, up or down
  gone,      \* the sockets the peer has reset
  said,      \* everything sent to the client
  wire,      \* everything sent to the present server socket
  early,     \* a server has spoken before the client
  twice,     \* a request that was sent is in the buffer again, see AnswerPasses
  odd,       \* what else has happened that breaks a promise, see Oddities
  dead       \* no, or how the proxy was ended by this session

clientvars == <<ccb, flag, cmask, cbuff, sq, crecv, nogroup>>
remotevars == <<conn, rcb, rmask, rbuff, rrecv, hops, wire>>
sessvars == <<mode, clientvars, remotevars, pc, gone, said, early, twice, odd, dead>>
vars == <<sessvars, udpvars>>

Rest(b) == SubSeq(b.data, b.offset + 1, Len(b.data))
Buffer(d) == [data |-> d, offset |-> 0]

Init ==
  /\ mode \in Modes
  /\ ccb = "request" /\ flag = "none" /\ cmask = "in"
  /\ cbuff = NULL /\ sq = NULL /\ crecv = 0 /\ nogroup = FALSE
  /\ conn = 0 /\ rcb = "none" /\ rmask = "none" /\ rbuff = NULL /\ rrecv = 0
  /\ hops = 0 /\ wire = <<>>
  /\ pc = "idle" /\ gone = {} /\ said = <<>> /\ early = FALSE
  /\ twice = FALSE /\ odd = {} /\ dead = "no"
  /\ UdpInit

(***************************************************************************)
(* stuck: a socket just connected has not taken all of the buffer, and     *)
(* nothing waits for it.  retold: a client that was told it is connected   *)
(* is connected again before it has sent anything.  raw: a client that has *)
(* greeted with SOCKS5 goes on without a request.                          *)
(***************************************************************************)
Oddities == {"stuck", "retold", "raw"}

\* All sockets of the session are closed.
Drop ==
  /\ ccb' = "closed" /\ rcb' = "none"
  /\ cmask' = "none" /\ rmask' = "none"
  /\ cbuff' = NULL /\ rbuff' = NULL /\ sq' = NULL
  /\ pc' = "idle"
  /\ UNCHANGED <<mode, flag, crecv, nogroup, conn, rrecv, hops, wire, gone, early, twice, odd>>

\* del_event of the client, and with it of the remote slot.
Close == Drop /\ UNCHANGED dead

Say(x) == Append(said, <<x, 0, 0>>)

\* A client without a protocol of its own gets no reply; its socket is reset.
resp_error(e, f) == said' = IF f = "none" THEN said ELSE Say(e)

-----------------------------------------------------------------------------
(* create_conn, connect_hook                                               *)

\* A remote slot waiting to be connected; the client is not listened to.
create_conn ==
  /\ conn < MaxConns /\ conn' = conn + 1
  /\ \/ rcb' = "connect" /\ hops' = 0
     \/ DelayConn /\ rcb' = "socks_conn" /\ hops' = 2
  /\ rmask' = "out" /\ rbuff' = NULL /\ rrecv' = 0 /\ wire' = <<>>
  /\ ccb' = "ignore" /\ cmask' = "none"
  /\ gone' = gone \ {"remote"}

\* connect_hook with the data b for a client with flag f.
connect_hook(b, f) ==
  /\ ~nogroup
  /\ \/ /\ DelayConn /\ b = NULL
        /\ resp_error("ok", f)
        /\ ccb' = "delayed"
        /\ rcb' = "none" /\ rmask' = "none" /\ rbuff' = NULL
        /\ gone' = gone \ {"remote"}
        /\ UNCHANGED <<cmask, conn, rrecv, hops, wire>>
     \/ create_conn /\ UNCHANGED said

\* reconnect: the first request goes back into the buffer.
Again == IF sq # NULL THEN Buffer(sq) ELSE cbuff

Told == \E i \in 1..Len(said) : said[i][1] = "ok"

reconnect ==
  /\ cbuff' = Again
  /\ connect_hook(Again, flag)
  /\ pc' = "idle"
  /\ odd' = (odd \ {"stuck"}) \cup (IF Again = NULL /\ Told THEN {"retold"} ELSE {})
  /\ UNCHANGED <<mode, flag, sq, crecv, nogroup, early, twice>>

\* Mutant: a reconnect does not depend on what has been sent and received.
AnyReconnect == AutoReconnect

\* on_trigger with a client that is there.
CanReconnect == AutoReconnect /\ (sq # NULL \/ (crecv = 0 /\ rrecv = 0))

\* on_trigger, then the session is closed unless it goes on with a new socket.
TriggerOrClose ==
  \/ CanReconnect /\ reconnect /\ UNCHANGED dead
  \/ Close /\ UNCHANGED said

-----------------------------------------------------------------------------
(* on_request                                                              *)

Quiet == UNCHANGED <<mode, sq, crecv, nogroup, pc, early, twice, odd, dead>>

\* The request is refused.
Refuse(f) == Close /\ resp_error("err", f)

\* The client's address is known: connect, or refuse.
ConnectOrRefuse(f) ==
  \/ connect_hook(NULL, f) /\ flag' = f /\ UNCHANGED cbuff /\ Quiet
  \/ Refuse(f)

\* The greeting of SOCKS5: a method is agreed on or the client is dropped.
auth_socks5 ==
  /\ "s5" \in mode /\ flag # "s5"
  /\ \/ /\ said' = Say("auth")
        /\ flag' = "s5"
        /\ UNCHANGED <<ccb, cmask, cbuff, remotevars, gone>> /\ Quiet
     \/ Close /\ (said' = Say("noauth") \/ UNCHANGED said)

\* The request of SOCKS5: CONNECT, UDP ASSOCIATE or nothing usable.
handle_s5 ==
  /\ "s5" \in mode /\ flag = "s5"
  /\ \/ ConnectOrRefuse("s5")
     \/ /\ said' = Say("ok")
        /\ ccb' = "udp" /\ cmask' = "none"
        /\ UNCHANGED <<flag, cbuff, remotevars, gone>> /\ Quiet

\* SOCKS4 and HTTP CONNECT name the address in one message, which s4_get_addr
\* and http_get_addr accept or not.
Socks4 == "s4" \in mode /\ ConnectOrRefuse("s4")
HttpConnect == "http" \in mode /\ ConnectOrRefuse("http")

\* save_buffer
save_buffer(d) == sq' = IF AutoReconnect THEN d ELSE NULL

\* Shadowsocks, TLS to the named host, plain TCP: the message is, or ends
\* with, the first data, also of a client that has greeted with SOCKS5.
RawData ==
  /\ mode \cap {"ss", "tls", "tcp"} # {}
  /\ \/ \E k \in (IF "ss" \in mode THEN 0 ELSE 1)..BufSize :
          LET d == [i \in 1..k |-> i]
          IN /\ k <= MaxUp
             /\ crecv' = k
             /\ cbuff' = Buffer(d)
             /\ save_buffer(d)
             /\ connect_hook(cbuff', flag)
             /\ odd' = IF flag = "none" THEN odd ELSE odd \cup {"raw"}
             /\ UNCHANGED <<mode, flag, nogroup, pc, early, twice, dead>>
     \/ Refuse(flag)

on_request ==
  /\ ccb = "request" /\ "red" \notin mode
  /\ \/ auth_socks5
     \/ handle_s5
     \/ Socks4
     \/ HttpConnect
     \/ RawData
     \/ Close /\ UNCHANGED said

\* MODE_TRANSPARENT: on_accept connects the client at once.
transp_conn ==
  /\ ccb = "request" /\ "red" \in mode
  /\ ConnectOrRefuse("none")

-----------------------------------------------------------------------------
(* Data of the client                                                      *)

\* Mutant: sq_buff is only begun, never added to.
FirstOnly(d) == IF AutoReconnect /\ sq = NULL /\ crecv = 0 THEN d ELSE sq

\* Mutant: sq_buff may overflow.
KeptFull(d) ==
  IF ~AutoReconnect \/ (sq = NULL /\ crecv # 0) THEN NULL
  ELSE (IF sq = NULL THEN <<>> ELSE sq) \o d

\* tcp_recv_hook: what sq_buff holds after data d; it must not get full.
Kept(d) ==
  LET q == (IF sq = NULL THEN <<>> ELSE sq) \o d
  IN IF ~AutoReconnect \/ (sq = NULL /\ crecv # 0) \/ Len(q) >= BufSize THEN NULL ELSE q

\* The next k bytes.
NextBytes(k) == [i \in 1..k |-> crecv + i]

\* When the client has hung up, on_fin looks at the pair.  That of a client put off
\* by a reconnect is the remote slot reconnect has deleted: its pair is NULL, unless
\* the slot has been used again.
recv_and_connect ==
  /\ ccb = "delayed"
  /\ \/ /\ cmask = "in"
        /\ \E k \in 1..BufSize :
             LET d == NextBytes(k)
             IN /\ crecv + k <= MaxUp
                /\ crecv' = crecv + k
                /\ sq' = Kept(d)
                /\ cbuff' = Buffer(d)
                /\ connect_hook(cbuff', flag)
        /\ UNCHANGED <<mode, flag, nogroup, pc, early, twice, odd, dead>>
     \/ /\ cmask = "in" \/ "client" \in gone
        /\ UNCHANGED said
        /\ \/ Close
           \/ conn > 0 /\ Drop /\ dead' = "null"

-----------------------------------------------------------------------------
(* on_connect, on_socks_conn, on_socks_recv                                *)

\* on_connect after an error: another group, or the client is told.
ConnectFailed ==
  \/ CanReconnect /\ reconnect /\ UNCHANGED dead
  \/ Refuse(flag)

\* on_connect: data that is waiting is sent at once (flush).
ConnectDone ==
  /\ ccb' = "tunnel" /\ rcb' = "tunnel"
  /\ cmask' = "in" /\ rmask' = "in"
  /\ IF cbuff # NULL
     THEN pc' = "flush" /\ UNCHANGED said
     ELSE UNCHANGED pc /\ resp_error("ok", flag)
  /\ UNCHANGED <<mode, flag, cbuff, sq, crecv, nogroup, conn, rbuff, rrecv, wire,
                 gone, early, twice, odd, dead>>

on_connect ==
  /\ rcb = "connect"
  /\ \/ "remote" \notin gone /\ ConnectDone /\ UNCHANGED hops
     \/ ConnectFailed

\* When only its send shows that the socket is gone, on_connect is called
\* without an error and takes it for connected.
on_socks_conn ==
  /\ rcb = "socks_conn"
  /\ \/ /\ "remote" \notin gone
        /\ rcb' = "socks_recv" /\ rmask' = "in"
        /\ UNCHANGED <<mode, clientvars, conn, rbuff, rrecv, hops, wire, pc, gone,
                       said, early, twice, odd, dead>>
     \/ "remote" \in gone /\ ConnectDone /\ UNCHANGED hops
     \/ ConnectFailed

\* conn_state tells the answer to the greeting from that to the request.
on_socks_recv ==
  /\ rcb = "socks_recv"
  /\ \/ /\ hops = 2 /\ "remote" \notin gone
        /\ hops' = 1
        /\ UNCHANGED <<mode, clientvars, conn, rcb, rmask, rbuff, rrecv, wire, pc, gone,
                       said, early, twice, odd, dead>>
     \/ hops = 1 /\ "remote" \notin gone /\ hops' = 0 /\ ConnectDone
     \/ ConnectFailed

\* on_ignore, and the callbacks of a client that has hung up.
on_ignore ==
  /\ ccb \in {"ignore", "udp"} /\ "client" \in gone
  /\ Close /\ UNCHANGED said

-----------------------------------------------------------------------------
(* on_tunnel                                                               *)

Tunnel == ccb = "tunnel" /\ rcb = "tunnel"

\* The events that make on_tunnel work on a direction: input (or a hang-up)
\* of the socket it reads, POLLOUT of the one it writes.
Wakes(dir) ==
  IF dir = "up"
  THEN cmask = "in" \/ rmask = "out" \/ ("client" \in gone /\ cmask # "out")
  ELSE rmask = "in" \/ cmask = "out" \/ ("remote" \in gone /\ rmask # "out")

Called(dir) == Tunnel /\ pc = "idle" /\ Wakes(dir)

\* setup_conn, called as long as the buffer holds all the client has sent,
\* finds a group or ends the session.
SetupDone == Len(cbuff.data) # crecv \/ ~nogroup
SetupFails == Len(cbuff.data) = crecv /\ Close /\ UNCHANGED said

\* handle_err: a reset by the server triggers, other errors end the session.
SendFails == "remote" \in gone /\ TriggerOrClose

\* Both sockets are listened to again.
BothIn == cmask' = "in" /\ rmask' = "in"

\* Mutant: neither socket is waited for (the masks of a wait of desync).
WaitForNone(dir) == cmask' = "none" /\ rmask' = "none"

\* Data of this direction is left: only the socket that took it not is waited
\* for.
WaitFor(dir) ==
  IF dir = "up" THEN cmask' = "none" /\ rmask' = "out"
                ELSE rmask' = "none" /\ cmask' = "out"

(***************************************************************************)
(* The wire after tcp_send_hook has reported k bytes of data d as sent.    *)
(* In a round that is desynced others may have gone out: the beginning is  *)
(* left out (the part it went through last, desync.c:584), a rest of which *)
(* the socket took less is reported as sent (desync.c:668), an urgent part *)
(* it took in part as less (desync.c:416), or, after an early answer or    *)
(* with OFFSET_START, what went out before is repeated (desync.c:567).     *)
(* Desync tells these apart; here the wire is just known to be garbled.    *)
(***************************************************************************)
Garbled == << 0 >>

tcp_send_hook(d, k) ==
  {IF wire = Garbled THEN wire ELSE wire \o SubSeq(d, 1, k)}
    \cup (IF d = <<>> THEN {} ELSE {Garbled})

\* The rest of the client's buffer.  When a socket that has just been connected
\* (flush) does not take it all, the masks stay as on_connect has set them.
FlushUp ==
  /\ cbuff # NULL
  /\ Called("up") \/ pc = "flush"
  /\ \/ /\ "remote" \notin gone /\ SetupDone
        /\ \E k \in 0..Len(Rest(cbuff)) :
             /\ wire' \in tcp_send_hook(Rest(cbuff), k)
             /\ IF k < Len(Rest(cbuff))
                THEN /\ cbuff' = [cbuff EXCEPT !.offset = @ + k]
                     /\ odd' = odd \cup (IF pc = "flush" THEN {"stuck"} ELSE {})
                     /\ pc' = "idle" /\ UNCHANGED <<cmask, rmask>>
                ELSE /\ cbuff' = NULL
                     /\ odd' = odd \ {"stuck"}
                     /\ BothIn /\ pc' = "up"
        /\ UNCHANGED <<mode, ccb, flag, sq, crecv, nogroup, conn, rcb, rbuff, rrecv,
                       hops, gone, said, early, twice, dead>>
     \/ SetupFails
     \/ SendFails

(***************************************************************************)
(* tcp_send_hook has reconnected after a reset: on_tunnel goes on with the *)
(* remote slot reconnect has deleted, and mod_etype's assertion ends all.   *)
(***************************************************************************)
ResetUp(d) ==
  /\ "remote" \in gone
  /\ Kept(d) # NULL /\ ~nogroup /\ conn < MaxConns
  /\ dead' = "assert"
  /\ Drop /\ UNCHANGED said

\* A turn of the loop for the client's data.
ReadUp ==
  /\ \/ pc = "up"
     \/ Called("up") /\ cbuff = NULL
  /\ \/ /\ "client" \notin gone
        /\ pc' = "idle"
        /\ UNCHANGED <<mode, clientvars, remotevars, gone, said, early, twice, odd, dead>>
     \/ Close /\ UNCHANGED said
     \/ /\ "client" \notin gone
        /\ \E n \in 1..BufSize, k \in 0..BufSize :
             LET d == NextBytes(n)
             IN /\ k <= n /\ crecv + n <= MaxUp
                /\ "remote" \notin gone
                /\ crecv' = crecv + n
                /\ sq' = Kept(d)
                /\ wire' \in tcp_send_hook(d, k)
                /\ IF k < n
                   THEN /\ cbuff' = [data |-> d, offset |-> k]
                        /\ WaitFor("up")
                        /\ pc' = "idle"
                   ELSE /\ pc' = IF n = BufSize THEN "up" ELSE "idle"
                        /\ UNCHANGED <<cbuff, cmask, rmask>>
        /\ UNCHANGED <<mode, ccb, flag, nogroup, conn, rcb, rbuff, rrecv, hops, gone,
                       said, early, twice, odd, dead>>
     \/ "client" \notin gone /\ crecv < MaxUp /\ ResetUp(NextBytes(1))

\* The rest of the server's buffer.
FlushDown ==
  /\ rbuff # NULL /\ Called("down")
  /\ \/ /\ "client" \notin gone
        /\ \E k \in 0..Len(Rest(rbuff)) :
             /\ said' = said \o SubSeq(Rest(rbuff), 1, k)
             /\ IF k < Len(Rest(rbuff))
                THEN /\ rbuff' = [rbuff EXCEPT !.offset = @ + k]
                     /\ UNCHANGED <<cmask, rmask, pc>>
                ELSE rbuff' = NULL /\ BothIn /\ pc' = "down"
        /\ UNCHANGED <<mode, ccb, flag, cbuff, sq, crecv, nogroup, conn, rcb, rrecv,
                       hops, wire, gone, early, twice, odd, dead>>
     \/ "client" \in gone /\ Close /\ UNCHANGED said

\* Mutant: the first request is kept after the first answer.
KeepsAsking ==
  /\ UNCHANGED <<cbuff, nogroup, twice, sq>>

\* on_response does not reconnect: nothing is wrong with the answer, or the
\* request has been put back when find_dp has no group left (setup_conn will
\* end the session) or create_conn fails (it will be sent again).
AnswerPasses ==
  /\ \/ UNCHANGED <<cbuff, nogroup, twice>>
     \/ /\ sq # NULL
        /\ cbuff' = Again
        /\ \/ nogroup' = TRUE /\ UNCHANGED twice
           \/ twice' = TRUE /\ UNCHANGED nogroup
  /\ sq' = NULL

\* A turn of the loop for the server's data.
ReadDown ==
  /\ \/ pc = "down"
     \/ Called("down") /\ rbuff = NULL
  /\ \/ /\ "remote" \notin gone
        /\ pc' = "idle"
        /\ UNCHANGED <<mode, clientvars, remotevars, gone, said, early, twice, odd, dead>>
     \/ TriggerOrClose
     \/ "remote" \notin gone /\ sq # NULL /\ reconnect /\ UNCHANGED dead
     \/ /\ gone = {}
        /\ \E n \in 1..BufSize, k \in 0..BufSize :
             LET d == [i \in 1..n |-> <<"data", conn, rrecv + i>>]
             IN /\ k <= n /\ rrecv + n <= MaxDown
                /\ rrecv' = rrecv + n
                /\ early' = (early \/ crecv = 0) /\ UNCHANGED odd
                /\ AnswerPasses
                /\ said' = said \o SubSeq(d, 1, k)
                /\ IF k < n
                   THEN /\ rbuff' = [data |-> d, offset |-> k]
                        /\ WaitFor("down")
                        /\ pc' = "idle"
                   ELSE /\ pc' = IF n = BufSize THEN "down" ELSE "idle"
                        /\ UNCHANGED <<rbuff, cmask, rmask>>
        /\ UNCHANGED <<mode, ccb, flag, crecv, conn, rcb, hops, wire, gone, dead>>

\* on_timeout: the timer try_set_tls_timer sets when an answer is incomplete.
\* (With data in the client's buffer the time-out counts as POLLOUT.)
on_timeout ==
  /\ Tunnel /\ pc = "idle" /\ rrecv > 0 /\ cbuff = NULL
  /\ TriggerOrClose

\* on_udp_tunnel, for one of the two slots of the association.  An error in it
\* closes all three slots.
Datagram ==
  /\ ccb = "udp"
  /\ on_udp_tunnel /\ UNCHANGED sessvars

UdpFails ==
  /\ ccb = "udp"
  /\ Close /\ UNCHANGED said

\* The peer of a socket resets it.
Reset(side) ==
  /\ pc = "idle" /\ side \notin gone
  /\ ccb # "closed" /\ (side = "remote" => rcb # "none")
  /\ gone' = gone \cup {side}
  /\ UNCHANGED <<mode, clientvars, remotevars, pc, said, early, twice, odd, dead>>

Callback ==
  \/ on_request \/ transp_conn \/ recv_and_connect
  \/ on_connect \/ on_socks_conn \/ on_socks_recv \/ on_ignore
  \/ FlushUp \/ FlushDown \/ ReadUp \/ ReadDown
  \/ on_timeout \/ UdpFails

Next ==
  \/ Callback /\ UNCHANGED udpvars
  \/ Datagram
  \/ \E side \in {"client", "remote"} : Reset(side) /\ UNCHANGED udpvars

\* on_tunnel's loop comes to its end, a connection is made or fails, and a
\* socket that is waited for with POLLOUT takes something in the end.
Fairness ==
  /\ WF_vars(pc # "idle" /\ Callback /\ UNCHANGED udpvars)
  /\ WF_vars((on_connect \/ on_socks_conn \/ on_socks_recv) /\ UNCHANGED udpvars)
  /\ WF_vars(rmask = "out" /\ FlushUp /\ cbuff' # cbuff /\ UNCHANGED udpvars)
  /\ WF_vars(cmask = "out" /\ FlushDown /\ rbuff' # rbuff /\ UNCHANGED udpvars)

Spec == Init /\ [][Next]_vars /\ Fairness

-----------------------------------------------------------------------------
(* Properties                                                              *)

\* Buffers hold what is still to be sent, in the direction of their slot.
TypeOK ==
  /\ mode \in Modes
  /\ ccb \in {"request", "delayed", "ignore", "tunnel", "udp", "closed"}
  /\ rcb \in {"none", "connect", "socks_conn", "socks_recv", "tunnel"}
  /\ flag \in {"none", "s4", "s5", "http"}
  /\ {cmask, rmask} \subseteq {"none", "in", "out"}
  /\ pc \in {"idle", "flush", "up", "down"}
  /\ crecv \in 0..MaxUp /\ rrecv \in 0..MaxDown
  /\ conn \in 0..MaxConns /\ hops \in 0..2
  /\ gone \subseteq {"client", "remote"}
  /\ {nogroup, early, twice} \subseteq BOOLEAN
  /\ odd \subseteq Oddities /\ dead \in {"no", "assert", "null"}
  /\ sq # NULL => Len(sq) <= BufSize
  /\ cbuff # NULL => cbuff.offset \in 0..Len(cbuff.data)
  /\ rbuff # NULL => rbuff.offset \in 0..(Len(rbuff.data) - 1)
  /\ UdpOK

(***************************************************************************)
(* Whatever resets, reconnects and partial sends came before, the present  *)
(* server socket has got the client's bytes from the first one on, none    *)
(* twice, none missing but those in the buffer, and none of them went to   *)
(* another proxy that was still to be asked for the connection.  Two       *)
(* things the code does break it and are named here: desync loses bytes or *)
(* repeats them (Garbled), and create_conn fails in a reconnect (twice).   *)
(***************************************************************************)
RequestWhole ==
  /\ wire # <<>> => hops = 0
  /\ ~twice /\ wire # Garbled => \A i \in DOMAIN wire : wire[i] = i
  /\ ccb = "tunnel" /\ ~nogroup /\ ~twice /\ wire # Garbled =>
       Len(wire) = crecv - (IF cbuff = NULL THEN 0 ELSE Len(Rest(cbuff)))

(***************************************************************************)
(* The client gets the replies of the proxy and then the bytes of one      *)
(* server socket only, the last, all that were read and in order: an       *)
(* answer that has begun to be passed on rules out every reconnect.  (Not  *)
(* so when the server speaks first.)                                       *)
(***************************************************************************)
AnswerWhole ==
  ~early =>
    \E r \in 0..Len(said) :
      /\ \A i \in 1..r : said[i][1] # "data"
      /\ \A i \in (r + 1)..Len(said) : said[i] = <<"data", conn, i - r>>
      /\ ccb = "tunnel" =>
           Len(said) - r = rrecv - (IF rbuff = NULL THEN 0 ELSE Len(Rest(rbuff)))

(***************************************************************************)
(* A SOCKS or HTTP client is told that it is connected before it gets data *)
(* from the server, it is told so once, no reply of the proxy gets among   *)
(* the data, and after an error it hears nothing more.  Two things the     *)
(* code does break it and are named here: a client reconnected before it   *)
(* has sent anything is told again (retold), one that goes on from the     *)
(* greeting with data is not told (raw).                                   *)
(***************************************************************************)
RepliesFirst ==
  ~early =>
    /\ \A i \in DOMAIN said :
         said[i][1] = "data" =>
           /\ flag # "none" /\ "raw" \notin odd => \E j \in 1..(i - 1) : said[j][1] = "ok"
           /\ \A j \in i..Len(said) : said[j][1] = "data"
    /\ "retold" \notin odd =>
         \A i, j \in DOMAIN said : said[i][1] = "ok" /\ said[j][1] = "ok" => i = j
    /\ \A i \in DOMAIN said : said[i][1] \in {"err", "noauth"} => i = Len(said)

(***************************************************************************)
(* Data that has been read and could not be sent is sent in the end, in    *)
(* both directions: some mask asks for the event that takes it up again.   *)
(* Not so when a socket just connected takes only a part of the buffer     *)
(* (stuck: nothing waits for it until the client sends more), and for data *)
(* that a failed reconnect has put back (twice, nogroup).                  *)
(***************************************************************************)
Relayed ==
  /\ (ccb = "tunnel" /\ cbuff # NULL /\ ~nogroup /\ ~twice /\ "stuck" \notin odd)
       ~> (cbuff = NULL \/ ccb = "closed" \/ "stuck" \in odd)
  /\ (ccb = "tunnel" /\ rbuff # NULL) ~> (rbuff = NULL \/ ccb = "closed")

\* mod_etype is only called for slots that are in use (its assertion fd > 0).
SlotAlive == dead # "assert"
=============================================================================
