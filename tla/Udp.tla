-------------------------------- MODULE Udp ---------------------------------
(***************************************************************************)
(* The datagrams of a SOCKS5 UDP association: on_udp_tunnel of proxy.c for *)
(* the client's and for the remote socket, udp_hook of extend.c and        *)
(* desync_udp of desync.c, which sends fakes with a low TTL ahead of the   *)
(* client's datagrams.  Session says when there is an association, and     *)
(* ends it after an error.                                                 *)
(*                                                                         *)
(* Any datagram may be empty.  Until its socket is connected the client's  *)
(* side may hear another host, and until the remote socket is connected    *)
(* the other side may hear anyone.                                         *)
(***************************************************************************)
EXTENDS Integers, Sequences, FiniteSets

CONSTANTS UdpRounds,  \* the rounds desync_params.rounds asks to desync
          FakeCount,  \* desync_params.udp_fake_count
          MaxDgrams   \* bound of the datagrams received

ASSUME UdpAssumption == MaxDgrams \in Nat /\ FakeCount \in Nat /\ UdpRounds \subseteq Nat

VARIABLES
  uport,    \* the client's port is known: its socket is connected
  udst,     \* the remote socket is connected
  uround,   \* client eval.round_count
  csent,    \* client eval.round_sent # 0
  rsent,    \* remote eval.round_sent # 0
  ttl,      \* that of the remote socket: def or low
  ulog,     \* (history) who sent the datagrams received: c, s or another, x
  uwire,    \* (history) what went to the server
  ufail,    \* (history) a fake could not be sent
  uempty    \* (history) a round was counted for an empty datagram

udpvars == <<uport, udst, uround, csent, rsent, ttl, ulog, uwire, ufail, uempty>>

UdpInit ==
  /\ uport = FALSE /\ udst = FALSE
  /\ uround = 0 /\ csent = FALSE /\ rsent = FALSE
  /\ ttl = "def" /\ ulog = <<>> /\ uwire = <<>> /\ ufail = FALSE /\ uempty = FALSE

\* Mutant: the other side's round is not ended.
TurnOneSided(empty) ==
  IF csent THEN UNCHANGED <<uround, csent, rsent, uempty>>
  ELSE uround' = uround + 1 /\ csent' = ~empty /\ uempty' = (uempty \/ empty) /\ UNCHANGED rsent

\* A datagram at the client's socket begins a round unless one has begun since
\* the last answer.  An empty one adds nothing to round_sent: its round is
\* counted, and the next datagram begins another.
Turn(empty) ==
  IF csent THEN UNCHANGED <<uround, csent, rsent, uempty>>
  ELSE uround' = uround + 1 /\ csent' = ~empty /\ uempty' = (uempty \/ empty) /\ rsent' = FALSE

\* How often the client has had the word, its last datagram included: what the
\* rounds are meant to count.
Runs(log) ==
  Cardinality({ i \in DOMAIN log : log[i] # "s" /\ (i = 1 \/ log[i - 1] = "s") })

Sent(kind) == [kind |-> kind, ttl |-> ttl', run |-> Runs(ulog')]

\* k fakes are sent before one fails, or all of them, the TTL is put back and the
\* datagram is sent.  A send that fails with ECONNREFUSED or EMSGSIZE costs the
\* datagram, any other error the association.
desync_udp ==
  \E k \in 0..FakeCount :
    LET fakes == [i \in 1..k |-> [kind |-> "fake", ttl |-> "low", run |-> Runs(ulog')]]
    IN IF k < FakeCount
       THEN /\ ttl' = "low" /\ ufail' = TRUE
            /\ uwire' = uwire \o fakes
       ELSE /\ ttl' = "def" /\ UNCHANGED ufail
            /\ \/ uwire' = Append(uwire \o fakes, Sent("data"))
               \/ uwire' = uwire \o fakes

udp_hook ==
  \/ /\ uround' \notin UdpRounds
     /\ UNCHANGED <<ttl, ufail>>
     /\ \/ uwire' = Append(uwire, Sent("data"))
        \/ UNCHANGED uwire
  \/ /\ uround' \in UdpRounds
     /\ desync_udp

\* on_udp_tunnel at the client's socket.  Until its port is known it may hear
\* another host (x), whose datagram it counts and drops.  An empty datagram of the
\* client is dropped too, as a fragment by the byte an earlier one left in the
\* buffer, or it is a parse error.
FromClient ==
  /\ Len(ulog) < MaxDgrams
  /\ \E empty \in BOOLEAN :
       /\ Turn(empty)
       /\ \/ /\ ~uport
             /\ ulog' = Append(ulog, "x")
             /\ UNCHANGED <<uport, udst, ttl, uwire, ufail>>
          \/ /\ ulog' = Append(ulog, "c")
             /\ uport' = TRUE
             /\ \/ UNCHANGED <<udst, ttl, uwire, ufail>>
                \/ ~empty /\ udst' = TRUE /\ udp_hook

\* on_udp_tunnel at the remote socket: a datagram, perhaps an empty one, for the
\* client, who gets it or cannot.  Before the client's port is known the send is
\* an error that ends the association.
FromServer ==
  /\ uport /\ Len(ulog) < MaxDgrams
  /\ ulog' = Append(ulog, "s")
  /\ IF rsent THEN UNCHANGED <<csent, rsent>>
     ELSE rsent' \in BOOLEAN /\ csent' = FALSE
  /\ UNCHANGED <<uport, udst, uround, ttl, uwire, ufail, uempty>>

on_udp_tunnel == FromClient \/ FromServer

UdpOK ==
  /\ {uport, udst, csent, rsent, ufail, uempty} \subseteq BOOLEAN
  /\ uround \in 0..MaxDgrams /\ ttl \in {"def", "low"}

(***************************************************************************)
(* Fakes go ahead of the datagrams of the rounds they are meant for and of *)
(* no others, whatever fragments, strangers, empty answers and failed      *)
(* sends came before, and the client's own data never goes out with the    *)
(* TTL of a fake.  Two things break it in the code and are named here: a   *)
(* round counted for an empty datagram at the client's socket, after which *)
(* the rounds are not those meant, and a fake that could not be sent,      *)
(* which leaves its TTL.                                                   *)
(***************************************************************************)
FakesLead ==
  \A i \in DOMAIN uwire :
    /\ ~uempty =>
         /\ uwire[i].kind = "fake" => uwire[i].run \in UdpRounds
         /\ uwire[i].kind = "data" /\ uwire[i].run \in UdpRounds =>
              \A j \in (i - FakeCount)..(i - 1) :
                /\ j \in DOMAIN uwire
                /\ uwire[j].kind = "fake" /\ uwire[j].run = uwire[i].run
    /\ uwire[i].kind = "data" => uwire[i].ttl = "def" \/ ufail
=============================================================================
