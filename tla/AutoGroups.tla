----------------------------- MODULE AutoGroups -----------------------------
(***************************************************************************)
(* How extend.c chooses the desync group of a connection: connect_hook and *)
(* setup_conn with find_dp when it is made and when its first data is sent, *)
(* on_trigger when it looks blocked, and the cache that carries the choice *)
(* over to the next connection to the same address.                        *)
(*                                                                         *)
(* A mask (uint64_t of desync_params.bit) is a set of groups.  Sockets and *)
(* data are left out: what the network does is a choice of Next.           *)
(***************************************************************************)
EXTENDS GroupList

CONSTANTS Clients, Addrs,
          Bodies,     \* what a client may send first
          L34s,       \* the sets of addresses a group may be limited to
          L7s,        \* the sets of bodies a group may be limited to
          DelayConn,  \* params.delay_conn
          Ttl,        \* the groups have a cache_ttl
          Loaded,     \* load_cache may have found entries at the start
          MaxPri      \* bound of desync_params.pri

\* DETECT_*
Types == {"torst", "redirect", "ssl_err", "conn"}

ASSUME AutoAssumption ==
  /\ {DelayConn, Ttl, Loaded} \subseteq BOOLEAN
  /\ MaxPri \in Nat
  /\ Detects \subseteq SUBSET Types

VARIABLES
  pri,     \* desync_params.pri
  l34,     \* what check_l34 makes of a group's pf, ipset and proto
  l7,      \* what check_proto_tcp and check_host make of its proto and hosts
  cache,   \* params.mempool: dp, dp_mask and detect of an address's elem_i
  st,      \* client -> none, recv_and_connect, on_connect or on_tunnel
  dst,     \* the address it wants
  body,    \* what it sends, or has sent, first
  choice,  \* its eval.dp, eval.dp_mask and eval.detect
  asked,   \* its eval.recv_count # 0
  heard,   \* recv_count # 0 of its remote slot
  sq       \* its eval.sq_buff # 0

groupvars == <<listvars, pri, l34, l7>>
vars == <<groupvars, cache, st, dst, body, choice, asked, heard, sq>>

Choices == [dp : Groups \cup {NULL}, mask : SUBSET Groups, found : SUBSET Types]
Nothing == [dp |-> NULL, mask |-> {}, found |-> {}]

TypeOK ==
  /\ ListOK
  /\ pri \in [Groups -> Nat]
  /\ l34 \in [Groups -> L34s]
  /\ l7 \in [Groups -> L7s]
  /\ cache \in [Addrs -> Choices]
  /\ st \in [Clients -> {"free", "delayed", "conn", "tunnel"}]
  /\ dst \in [Clients -> Addrs]
  /\ body \in [Clients -> Bodies]
  /\ choice \in [Clients -> Choices]
  /\ asked \in [Clients -> BOOLEAN]
  /\ heard \in [Clients -> BOOLEAN]
  /\ sq \in [Clients -> BOOLEAN]

\* load_cache fills in the group and leaves the rest at zero.
Init ==
  /\ ListInit
  /\ pri = [g \in Groups |-> 0]
  /\ l34 \in [Groups -> L34s]
  /\ l7 \in [Groups -> L7s]
  /\ cache \in [Addrs -> {[Nothing EXCEPT !.dp = g] :
                            g \in {NULL} \cup (IF Loaded THEN Groups ELSE {})}]
  /\ st = [c \in Clients |-> "free"]
  /\ dst \in [Clients -> Addrs]
  /\ body \in [Clients -> Bodies]
  /\ choice = [c \in Clients |-> Nothing]
  /\ asked = [c \in Clients |-> FALSE]
  /\ heard = [c \in Clients |-> FALSE]
  /\ sq = [c \in Clients |-> FALSE]

-----------------------------------------------------------------------------
(* find_dp                                                                 *)

\* The kth place from place s on, round the list.
Round(s, k) == IF s + k < N THEN s + k ELSE s + k - N

\* The place where find_dp starts for a client with group g.
Starts(g, o, s) == IF g = NULL THEN s = 0 ELSE o[s] = g

\* Mutant: the groups' limits are not looked at.
AnyAllowed(a, b, known) == Groups

\* The groups whose limits the address, and the data once it is known, meet.
Allowed(a, b, known) ==
  {g \in Groups : a \in l34[g] /\ (known => b \in l7[g])}

\* Mutant: a group that has been tried is not ruled out.
SuitsAgain(x, e, d, ok) ==
  /\ x = e.dp \/ d[x] = {} \/ d[x] \cap e.found # {}
  /\ x \in ok

\* Group x may be given to a client whose choice so far is e.
Suits(x, e, d, ok) ==
  /\ x \notin e.mask
  /\ x = e.dp \/ d[x] = {} \/ d[x] \cap e.found # {}
  /\ x \in ok

\* With the groups in order o and triggers d, find_dp gives that client the
\* group at the kth place from s on, masking the ones it passes over.
find_dp(e, o, d, ok, s, k) ==
  /\ Starts(e.dp, o, s)
  /\ Suits(o[Round(s, k)], e, d, ok)
  /\ \A j \in 0..(k - 1) : ~Suits(o[Round(s, j)], e, d, ok)

After(e, o, s, k) ==
  [e EXCEPT !.dp = o[Round(s, k)],
            !.mask = @ \cup {o[Round(s, j)] : j \in 0..(k - 1)}]

-----------------------------------------------------------------------------
(* The course of a connection                                              *)

\* The session's slots are deleted.
Close(c) ==
  /\ st' = [st EXCEPT ![c] = "free"]
  /\ choice' = [choice EXCEPT ![c] = Nothing]
  /\ asked' = [asked EXCEPT ![c] = FALSE]
  /\ heard' = [heard EXCEPT ![c] = FALSE]
  /\ sq' = [sq EXCEPT ![c] = FALSE]

\* connect_hook gets as far as a group and a remote socket, or puts the
\* socket off until data has come; e is the client's choice so far.
connect_hook(c, e, a, b, known) ==
  \E s, k \in Groups :
    /\ find_dp(e, order', detect', Allowed(a, b, known), s, k)
    /\ choice' = [choice EXCEPT ![c] = After(e, order', s, k)]
    /\ st' = [st EXCEPT ![c] =
         IF DelayConn /\ ~known /\ l7[order'[Round(s, k)]] # Bodies
         THEN "delayed" ELSE "conn"]
    /\ heard' = [heard EXCEPT ![c] = FALSE]

\* cache_get of address a.  A stale entry is passed over; mem_delete, told the
\* key's length in bytes for bits, takes out any entry or none.
cache_get(a, e) ==
  \/ e = cache[a] /\ UNCHANGED cache
  \/ /\ Ttl /\ cache[a].dp # NULL
     /\ e = Nothing
     /\ \/ UNCHANGED cache
        \/ \E x \in Addrs : cache' = [cache EXCEPT ![x] = Nothing]

\* A client asks for address a.  When that fails it is as if it had not.
Connect(c, a, b) ==
  /\ st[c] = "free"
  /\ UNCHANGED <<groupvars, asked, sq>>
  /\ \E e \in {cache[a], Nothing} :
       /\ cache_get(a, e)
       /\ connect_hook(c, e, a, b, FALSE)
  /\ dst' = [dst EXCEPT ![c] = a]
  /\ body' = [body EXCEPT ![c] = b]

\* tcp_recv_hook keeps the client's first data in case of a reconnect, unless
\* it fills the buffer.
KeepsRequest(c) ==
  /\ asked' = [asked EXCEPT ![c] = TRUE]
  /\ \/ (\E g \in Groups : detect[g] # {}) /\ sq' = [sq EXCEPT ![c] = TRUE]
     \/ sq' = [sq EXCEPT ![c] = FALSE]

\* recv_and_connect
DelayedData(c) ==
  /\ st[c] = "delayed"
  /\ UNCHANGED <<groupvars, cache, dst, body>>
  /\ \/ KeepsRequest(c) /\ connect_hook(c, choice[c], dst[c], body[c], TRUE)
     \/ Close(c)

\* setup_conn, called with the first data the client sends over this socket.
setup_conn(c) ==
  /\ \E s, k \in Groups :
       /\ find_dp(choice[c], order, detect, Allowed(dst[c], body[c], TRUE), s, k)
       /\ choice' = [choice EXCEPT ![c] = After(@, order, s, k)]
  /\ st' = [st EXCEPT ![c] = "tunnel"]
  /\ UNCHANGED heard

\* on_connect: the kept request of a reconnecting client is sent at once.
Connected(c) ==
  /\ st[c] = "conn"
  /\ \/ ~asked[c] /\ st' = [st EXCEPT ![c] = "tunnel"] /\ UNCHANGED <<choice, asked, heard, sq>>
     \/ asked[c] /\ setup_conn(c) /\ UNCHANGED <<asked, sq>>
     \/ asked[c] /\ Close(c)
  /\ UNCHANGED <<groupvars, cache, dst, body>>

FirstData(c) ==
  /\ st[c] = "tunnel" /\ ~asked[c]
  /\ (setup_conn(c) /\ KeepsRequest(c)) \/ Close(c)
  /\ UNCHANGED <<groupvars, cache, dst, body>>

\* More data than sq_buff holds.
MoreData(c) ==
  /\ st[c] = "tunnel" /\ sq[c]
  /\ sq' = [sq EXCEPT ![c] = FALSE]
  /\ UNCHANGED <<groupvars, cache, st, dst, body, choice, asked, heard>>

\* Data from the server with no kept request to compare it with.
Heard(c) ==
  /\ st[c] = "tunnel" /\ ~sq[c] /\ ~heard[c]
  /\ heard' = [heard EXCEPT ![c] = TRUE]
  /\ UNCHANGED <<groupvars, cache, st, dst, body, choice, asked, sq>>

Gone(c) ==
  /\ st[c] # "free"
  /\ Close(c)
  /\ UNCHANGED <<groupvars, cache, dst, body>>

-----------------------------------------------------------------------------
(* on_trigger                                                              *)

\* lav->dp_mask when the walk starts, and the groups walked before place k.
Tried(c) == choice[c].mask \cup {choice[c].dp}
Before(k) == {order[i] : i \in 0..(k - 1)}

\* The walk has passed all masked groups and meets one that awaits no trigger.
Leaves(c, k) == Tried(c) \subseteq Before(k) /\ detect[order[k]] = {}

\* The group at place k can be the next one.
Offers(c, type, re, k) ==
  LET g == order[k]
  IN /\ g \notin Tried(c)
     /\ detect[g] = {} \/ detect[g] \cap type # {}
     /\ "onreconn" \in auto_level[g] => re

\* The walk ends at place k, or runs off the list with k = N.
EndsAt(c, type, re, k) ==
  /\ k < N => Leaves(c, k) \/ Offers(c, type, re, k)
  /\ \A j \in 0..(k - 1) : ~Leaves(c, j) /\ ~Offers(c, type, re, j)

\* Mutant: the walk may not have passed the client's group yet.
AnyPlace(c, k) == TRUE

\* The client's group comes before place k.
Passed(c, k) == choice[c].dp \in Before(k)

\* The client's group g is swopped with the one at place k if that has been
\* triggered less often, and counts one more trigger.
Sort(c, k, more) ==
  LET g == choice[c].dp
      first == g \notin cache[dst[c]].mask
  IN /\ IF /\ first /\ more
           /\ "sort" \in auto_level[order[k]]
           /\ pri[g] > pri[order[k]]
           /\ Passed(c, k)
        THEN /\ \E i \in Groups : order[i] = g /\ Trade(i, k)
             /\ swop_groups(g, order[k])
        ELSE UNCHANGED listvars
     /\ first => pri[g] < MaxPri
     /\ pri' = IF first THEN [pri EXCEPT ![g] = @ + 1] ELSE pri

\* Mutant: the mask is kept when there is no next group.
MaskKept(c, type, k, more, m) ==
  [cache EXCEPT ![dst[c]] =
     [dp |-> IF more THEN order[k] ELSE order[0], mask |-> @.mask \cup m, found |-> type]]

\* Mutant: the group that has failed is saved.
OldGroup(c, type, k, more, m) ==
  [cache EXCEPT ![dst[c]] =
     IF more THEN [dp |-> choice[c].dp, mask |-> @.mask \cup m, found |-> type]
             ELSE [dp |-> order[0], mask |-> {}, found |-> {}]]

\* What on_trigger leaves in the cache, m being the client's mask by then.
Saved(c, type, k, more, m) ==
  [cache EXCEPT ![dst[c]] =
     IF more THEN [dp |-> order[k], mask |-> @.mask \cup m, found |-> type]
             ELSE [dp |-> order[0], mask |-> {}, found |-> {}]]

\* reconnect fails: find_dp has no group left, or create_conn fails.
ReconnectFails(c, e, known) ==
  LET ok == Allowed(dst[c], body[c], known)
  IN \/ /\ \A g \in Groups : ~Suits(g, e, detect', ok)
        /\ choice' = [choice EXCEPT ![c] = [e EXCEPT !.mask = Groups]]
     \/ \E s, k \in Groups :
          /\ find_dp(e, order', detect', ok, s, k)
          /\ choice' = [choice EXCEPT ![c] = After(e, order', s, k)]

(***************************************************************************)
(* on_trigger for client c.  When it returns 0 the client is connecting    *)
(* again; when it returns -1 the session is closed, or goes on if it stays *)
(* (on_response).                                                          *)
(***************************************************************************)
on_trigger(c, type, alive, stays) ==
  LET re == (sq[c] \/ (~asked[c] /\ ~heard[c])) /\ alive
  IN \E k \in 0..N :
       LET more == k < N /\ ~Leaves(c, k)
           e == [dp |-> choice[c].dp, mask |-> Tried(c) \cup Before(k), found |-> type]
           again == more /\ re /\ "noreconn" \notin auto_level'[order[k]]
       IN /\ EndsAt(c, type, re, k)
          /\ Sort(c, k, more)
          /\ cache' = Saved(c, type, k, more, e.mask)
          /\ \/ /\ again
                /\ connect_hook(c, e, dst[c], body[c], asked[c])
                /\ UNCHANGED <<asked, sq>>
             \/ /\ stays
                /\ IF again THEN ReconnectFails(c, e, asked[c])
                            ELSE choice' = [choice EXCEPT ![c] = e]
                /\ heard' = [heard EXCEPT ![c] = TRUE]
                /\ sq' = [sq EXCEPT ![c] = FALSE]
                /\ UNCHANGED <<st, asked>>
             \/ /\ ~stays
                /\ Close(c)
          /\ UNCHANGED <<l34, l7, dst, body>>

\* on_connect with an error.
on_connerr(c) == st[c] = "conn" /\ on_trigger(c, {"conn"}, TRUE, FALSE)

\* A reset or a timeout of the remote socket.
on_torst(c) == st[c] = "tunnel" /\ on_trigger(c, {"torst"}, TRUE, FALSE)

\* The server, or the client itself, ends a session that began with a
\* ClientHello.
on_fin(c, is_client) ==
  /\ st[c] = "tunnel" /\ asked[c] /\ body[c] = "tls"
  /\ on_trigger(c, {"ssl_err"}, ~is_client, FALSE)

\* The server's answer to the kept request: bad is what is wrong with it.
on_response(c, bad) ==
  /\ st[c] = "tunnel" /\ sq[c]
  /\ LET Hit(k) == order[k] \notin Tried(c) /\ detect[order[k]] \cap bad # {}
     IN \/ \E k \in Groups :
             /\ Hit(k)
             /\ \A j \in 0..(k - 1) : ~Hit(j)
             /\ on_trigger(c, detect[order[k]], TRUE, TRUE)
        \/ /\ \A k \in Groups : ~Hit(k)
           /\ choice' = [choice EXCEPT ![c].mask = Tried(c)]
           /\ heard' = [heard EXCEPT ![c] = TRUE]
           /\ sq' = [sq EXCEPT ![c] = FALSE]
           /\ UNCHANGED <<groupvars, cache, st, dst, body, asked>>

Trigger(c) ==
  \/ on_connerr(c)
  \/ on_torst(c)
  \/ \E is_client \in BOOLEAN : on_fin(c, is_client)
  \/ \E bad \in {{}, {"redirect"}, {"ssl_err"}} : on_response(c, bad)

Next ==
  \E c \in Clients :
    \/ \E a \in Addrs, b \in Bodies : Connect(c, a, b)
    \/ DelayedData(c) \/ Connected(c) \/ FirstData(c) \/ MoreData(c)
    \/ Heard(c) \/ Gone(c)
    \/ Trigger(c)

Spec == Init /\ [][Next]_vars

-----------------------------------------------------------------------------
(***************************************************************************)
(* Whatever triggers, reconnects and swops came before, the group applied  *)
(* to a session's data is one whose address, port, protocol and host       *)
(* limits the session meets.                                               *)
(***************************************************************************)
GroupFits ==
  \A c \in Clients :
    LET g == choice[c].dp
    IN /\ st[c] # "free" => g # NULL /\ dst[c] \in l34[g]
       /\ st[c] = "tunnel" /\ asked[c] => body[c] \in l7[g]

\* The step in which on_trigger has a client connect again.
Reconnects(c) ==
  /\ st[c] \in {"conn", "tunnel"} /\ st'[c] \in {"delayed", "conn"}
  /\ <<choice[c], st[c]>>' # <<choice[c], st[c]>>

(***************************************************************************)
(* A reconnect never goes back to a group this client has had or has been  *)
(* found unfit for: a blocked client is reconnected less often than there  *)
(* are groups, and not for ever.                                           *)
(***************************************************************************)
NeverTwice ==
  [][\A c \in Clients : Reconnects(c) => choice'[c].dp \notin Tried(c)]_vars

(***************************************************************************)
(* on_trigger uses swop_groups as GroupList has it: only ever for a group  *)
(* and a later one.  The pointer updates are wrong when the second group   *)
(* comes first.                                                            *)
(***************************************************************************)
ImplementsList == ListSpec

(***************************************************************************)
(* A trigger's verdict helps the next connections: for an address in the   *)
(* cache find_dp has a group to give.  Otherwise every connection to that  *)
(* address is dropped, and since none is made none can trigger a change.   *)
(***************************************************************************)
CacheUsable ==
  \A a \in Addrs :
    cache[a].dp # NULL =>
      \E g \in Groups : Suits(g, cache[a], detect, Groups)

(***************************************************************************)
(* The client that is reconnected gets the group on_trigger has chosen,    *)
(* logged and saved for its address.                                       *)
(***************************************************************************)
SavedGroupUsed ==
  [][\A c \in Clients : Reconnects(c) => choice'[c].dp = cache'[dst[c]].dp]_vars
=============================================================================
