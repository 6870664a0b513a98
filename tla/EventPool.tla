----------------------------- MODULE EventPool -----------------------------
(***************************************************************************)
(* The event pool and the event loop of conev.c, with what the callbacks   *)
(* of proxy.c and extend.c do to the pool.                                 *)
(*                                                                         *)
(* A slot (struct eval) is taken from links[count] by add_event and given  *)
(* back by del_event, which swaps it with the last live one and then       *)
(* deletes the slot's pair.  next_event hands out the events of one        *)
(* epoll_wait one by one while the callbacks delete slots and reuse them:  *)
(* mod_iter is what tells an event of the slot's present socket from one   *)
(* of a socket that is gone.                                               *)
(*                                                                         *)
(* The program has one thread: an action is a stretch of one callback, and *)
(* the kernel chooses which sockets are ready and which calls fail.        *)
(***************************************************************************)
EXTENDS TimerQueue, FiniteSets

CONSTANTS Max,         \* poolhd.max, 2 * max_open + 1
          MaxIters,    \* bound of the number of epoll_wait batches
          Transparent, \* params.mode has MODE_TRANSPARENT
          Mixed,       \* ... and another mode with it
          DelayConn,   \* params.delay_conn, and a group that inspects data
          Interrupts,  \* a signal handler may interrupt epoll_wait
          Faults       \* epoll_ctl, getsockname or epoll_wait may fail

ASSUME PoolAssumption ==
  /\ Max \in Nat \ {0}
  /\ MaxIters \in Nat
  /\ {Transparent, Mixed, DelayConn, Interrupts, Faults} \subseteq BOOLEAN

VARIABLES
  count,     \* poolhd.count
  links,     \* poolhd.links
  index,     \* eval.index
  fd,        \* eval.fd: "raw" (never used, uninitialised memory), "open", -1,
             \* or "failed": a number add_event has stored and its caller closed
  pair,      \* eval.pair
  role,      \* what eval.cb and eval.flag make of the slot
  mod_iter,  \* eval.mod_iter
  iters,     \* poolhd.iters
  batch,     \* the slots in pevents[0..offs], events not looked at yet
  stale,     \* (history) the ones in batch whose socket has been closed since
  etype,     \* loop_event's etype, as the last call of next_event left it
  cur,       \* the slot whose callback is running
  fresh,     \* the slot this callback has added and not yet linked
  todo,      \* the slot del_event is to be called on next
  torn,      \* (history) slots a failed call has left without a pair, and
             \* clients that reconnect has put off and left with the old one
  brk,       \* poolhd.brk
  phase      \* loop_event running, destroy_pool running, over, or crashed

slotvars == <<count, links, index, fd, role, mod_iter>>
loopvars == <<iters, batch, etype, brk, phase>>
vars == <<slotvars, loopvars, pair, torn, stale, cur, fresh, todo, tqvars>>

Index == 0..(Max - 1)
Pointer == Slots \cup {NULL}
\* on_accept; on_request; recv_and_connect; on_ignore and on_tunnel on the
\* client's side; on_connect, on_socks_* and on_tunnel on the remote side;
\* on_udp_tunnel.
Roles == {"server", "request", "delayed", "client", "remote", "udp"}
Live == {v \in Slots : fd[v] = "open"}

TypeOK ==
  /\ count \in 0..Max
  /\ links \in [Index -> Slots]
  /\ index \in [Slots -> Index]
  /\ fd \in [Slots -> {"raw", "open", "closed", "failed"}]
  /\ pair \in [Slots -> Pointer]
  /\ role \in [Slots -> Roles]
  /\ mod_iter \in [Slots -> Nat]
  /\ iters \in Nat
  /\ batch \subseteq Slots
  /\ stale \subseteq batch
  /\ etype \in {"none", "event", "timeout"}
  /\ cur \in Pointer
  /\ fresh \in Pointer
  /\ todo \in Pointer
  /\ torn \subseteq Slots
  /\ brk \in BOOLEAN
  /\ phase \in {"loop", "destroy", "done", "crashed"}
  /\ deadline \in [Slots -> Nat]
  /\ now \in Nat
  /\ fired \in Pointer

(***************************************************************************)
(* init_pool, and start_event_loop's add_event of the listening socket.    *)
(* Only the first item is cleared: the others are "raw".                   *)
(***************************************************************************)
Init ==
  /\ links \in {l \in [Index -> Slots] :
                  \A i, j \in Index : l[i] = l[j] => i = j}
  /\ count = 1
  /\ index = [v \in Slots |-> 0]
  /\ fd = [v \in Slots |-> IF v = links[0] THEN "open" ELSE "raw"]
  /\ pair = [v \in Slots |-> NULL]
  /\ role = [v \in Slots |-> "server"]
  /\ mod_iter = [v \in Slots |-> 0]
  /\ iters = 0
  /\ batch = {}
  /\ stale = {}
  /\ etype = "none"
  /\ cur = NULL
  /\ fresh = NULL
  /\ todo = NULL
  /\ torn = {}
  /\ brk = FALSE
  /\ phase = "loop"
  /\ TimerInit

-----------------------------------------------------------------------------
\* The slot add_event takes.
New == links[count]

\* Mutant: mod_iter is left at memset's zero.
ZeroIter == 0

AddIter == iters

\* Mutant: count is raised before it is stored in the slot.
IndexAfter == count + 1

AddIndex == count

\* add_event taking slot v for role r; its caller sets pair' and torn', and rs
\* is what it makes of the other slots' roles.
add_event(v, r, rs) ==
  /\ count < Max
  /\ count' = count + 1
  /\ index' = [index EXCEPT ![v] = AddIndex]
  /\ fd' = [fd EXCEPT ![v] = "open"]
  /\ role' = [rs EXCEPT ![v] = r]
  /\ mod_iter' = [mod_iter EXCEPT ![v] = AddIter]
  /\ Disarm(v)
  /\ UNCHANGED <<links, stale>>

\* Mutant: the slot moved into the gap keeps its old index.
NotMoved(v, last) == index

Moved(v, last) == [index EXCEPT ![last] = index[v]]

\* Mutant: the timer of a deleted slot stays in the queue.
TimerKept(v) == UNCHANGED deadline

TimerGone(v) == Disarm(v)

\* del_event(v) of a live slot up to the pair, which the caller deals with.
del_event(v) ==
  LET last == links[count - 1]
  IN /\ fd' = [fd EXCEPT ![v] = "closed"]
     /\ mod_iter' = [mod_iter EXCEPT ![v] = iters]
     /\ TimerGone(v)
     /\ count' = count - 1
     /\ links' = [links EXCEPT ![index[v]] = last, ![count - 1] = v]
     /\ index' = Moved(v, last)
     /\ stale' = stale \cup (batch \cap {v})
     /\ torn' = torn \ {v}
     /\ UNCHANGED role

\* Mutant: the pair is not deleted.
Alone(v) == NULL

\* The slot del_event(v) goes on with.
Partner(v) == pair[v]

(***************************************************************************)
(* del_event's recursion, one slot per step; destroy_pool and the end of a *)
(* callback start it.  A slot whose epoll_ctl(ADD) failed, reached over a  *)
(* pointer of its former user, is not -1: del_event closes a number that   *)
(* may be another's and lowers count for a slot that was not counted.  The *)
(* pool is wrecked, and the model ends.                                    *)
(***************************************************************************)
DelStep ==
  /\ todo # NULL
  /\ LET v == todo
         e == Partner(v)
     IN IF fd[v] \in {"closed", "failed"}
        THEN /\ todo' = NULL
             /\ phase' = IF fd[v] = "failed" THEN "crashed" ELSE phase
             /\ UNCHANGED <<slotvars, pair, torn, stale, deadline>>
        ELSE /\ del_event(v)
             /\ pair' = [w \in Slots |->
                  IF w = v \/ (w = e /\ pair[w] = v) THEN NULL ELSE pair[w]]
             /\ todo' = e
             /\ UNCHANGED phase
  /\ UNCHANGED <<iters, batch, etype, brk, cur, fresh, now, fired>>

-----------------------------------------------------------------------------
(* loop_event, next_event_tv, next_event                                   *)

Idle == phase = "loop" /\ ~brk /\ cur = NULL /\ todo = NULL

Due == \E v \in Armed : deadline[v] <= now

\* epoll_wait returns the ready sockets.
Fetch ==
  /\ Idle
  /\ ~Due
  /\ batch = {}
  /\ iters < MaxIters
  /\ batch' \in (SUBSET Live) \ {{}}
  /\ iters' = iters + 1
  /\ stale' = {}
  /\ UNCHANGED <<slotvars, etype, brk, phase, pair, torn, cur, fresh, todo, tqvars>>

\* Mutant: offs is not lowered when an event is skipped.
SkipAgain(v) ==
  /\ Idle
  /\ v \in batch
  /\ mod_iter[v] = iters
  /\ UNCHANGED vars

SkipStale(v) ==
  /\ Idle
  /\ v \in batch
  /\ mod_iter[v] = iters
  /\ batch' = batch \ {v}
  /\ stale' = stale \ {v}
  /\ UNCHANGED <<slotvars, iters, etype, brk, phase, pair, torn, cur, fresh, todo, tqvars>>

Dispatch(v) ==
  /\ Idle
  /\ ~Due
  /\ v \in batch
  /\ mod_iter[v] # iters
  /\ batch' = batch \ {v}
  /\ stale' = stale \ {v}
  /\ etype' = "event"
  /\ cur' = v
  /\ UNCHANGED <<slotvars, iters, brk, phase, pair, torn, fresh, todo, tqvars>>

\* The first timer, at the call or when epoll_wait has waited for it.
Timeout(v) ==
  /\ Idle
  /\ Expire(v)
  /\ etype' = "timeout"
  /\ cur' = v
  /\ UNCHANGED <<slotvars, iters, batch, brk, phase, pair, torn, stale, fresh, todo>>

(***************************************************************************)
(* epoll_wait returns -1 (EINTR): next_event leaves *type as it was, and   *)
(* when that is POLLTIMEOUT from an earlier call next_event_tv takes the   *)
(* first timer.  Otherwise loop_event just calls again.                    *)
(***************************************************************************)
Interrupted(v) ==
  /\ Interrupts
  /\ Idle
  /\ ~Due
  /\ batch = {}
  /\ etype = "timeout"
  /\ Earliest(v)
  /\ Disarm(v)
  /\ fired' = v
  /\ cur' = v
  /\ UNCHANGED <<slotvars, loopvars, pair, torn, stale, fresh, todo, now>>

\* Another error of epoll_wait, or a callback has set brk: out of the loop.
Break ==
  /\ phase = "loop" /\ cur = NULL /\ todo = NULL
  /\ brk \/ (Faults /\ batch = {})
  /\ phase' = "destroy"
  /\ UNCHANGED <<slotvars, iters, batch, etype, brk, pair, torn, stale, cur, fresh, todo, tqvars>>

\* Mutant: destroy_pool starts one past the last live slot.
DestroyPast ==
  /\ phase = "destroy" /\ todo = NULL
  /\ IF count # 0
     THEN todo' = links[count % Max] /\ UNCHANGED phase
     ELSE phase' = "done" /\ UNCHANGED todo
  /\ UNCHANGED <<slotvars, iters, batch, etype, brk, pair, torn, stale, cur, fresh, tqvars>>

\* Mutant: destroy_pool leaves the last slot open.
DestroyMost ==
  /\ phase = "destroy" /\ todo = NULL
  /\ IF count > 1
     THEN todo' = links[0] /\ UNCHANGED phase
     ELSE phase' = "done" /\ UNCHANGED todo
  /\ UNCHANGED <<slotvars, iters, batch, etype, brk, pair, torn, stale, cur, fresh, tqvars>>

destroy_pool ==
  /\ phase = "destroy" /\ todo = NULL
  /\ IF count # 0
     THEN todo' = links[0] /\ UNCHANGED phase
     ELSE phase' = "done" /\ UNCHANGED todo
  /\ UNCHANGED <<slotvars, iters, batch, etype, brk, pair, torn, stale, cur, fresh, tqvars>>

-----------------------------------------------------------------------------
(* The callbacks                                                           *)

Running(rs) == cur # NULL /\ todo = NULL /\ role[cur] \in rs

\* A callback ends: with 0, or with -1 and del_event of its slot.
ReturnOk == cur' = NULL /\ fired' = NULL /\ UNCHANGED todo
ReturnErr == cur' = NULL /\ fired' = NULL /\ todo' = cur
GoesOn == UNCHANGED <<cur, todo, fired>>

\* Every callback may end so, but on_udp_tunnel, which looks at its pair first.
Return ==
  /\ Running(Roles) /\ fresh = NULL
  /\ role[cur] = "udp" => pair[cur] # NULL
  /\ ReturnOk \/ (role[cur] # "server" /\ ReturnErr)
  /\ UNCHANGED <<slotvars, loopvars, pair, torn, stale, fresh, deadline, now>>

(***************************************************************************)
(* on_connect and on_udp_tunnel of a slot that has no pair, and on_fin,    *)
(* called for a client that reconnect has put off and whose old pair is    *)
(* closed or another's that has none, dereference a null pointer.          *)
(***************************************************************************)
Crash ==
  /\ \/ Running({"remote", "udp"}) /\ pair[cur] = NULL
     \/ Running({"delayed"}) /\ pair[cur] # NULL /\ pair[pair[cur]] = NULL
  /\ phase' = "crashed"
  /\ ReturnOk
  /\ UNCHANGED <<slotvars, iters, batch, etype, brk, pair, torn, stale, fresh, deadline, now>>

\* on_accept: one more client; with the pool full the socket is just closed.
Accept ==
  /\ Running({"server"}) /\ fresh = NULL
  /\ add_event(New, "request", role)
  /\ pair' = [pair EXCEPT ![New] = NULL]
  /\ fresh' = IF Transparent THEN New ELSE NULL
  /\ GoesOn
  /\ UNCHANGED <<loopvars, torn, now>>

AcceptFails ==
  /\ Running({"server"}) /\ fresh = NULL
  /\ brk' = TRUE
  /\ ReturnErr
  /\ UNCHANGED <<slotvars, iters, batch, etype, phase, pair, torn, stale, fresh, deadline, now>>

\* create_conn for client c: a remote slot, linked both ways.
Connect(c) ==
  /\ add_event(New, "remote", [role EXCEPT ![c] = "client"])
  /\ pair' = [pair EXCEPT ![c] = New, ![New] = c]
  /\ torn' = torn \ {c}

\* create_conn's mod_etype fails: the new slot is forgotten.
Orphan ==
  /\ Faults
  /\ add_event(New, "remote", role)
  /\ pair' = [pair EXCEPT ![New] = NULL]
  /\ torn' = torn \cup {New}

\* connect_hook puts the connection of c off until c has sent data.
Postpone(c) ==
  /\ DelayConn
  /\ role' = [role EXCEPT ![c] = "delayed"]
  /\ UNCHANGED <<count, links, index, fd, mod_iter, deadline, stale>>

\* transp_conn: the accepted client is connected at once or waits for its
\* first data;
TranspConn ==
  /\ Running({"server"}) /\ fresh # NULL
  /\ \/ Connect(fresh)
     \/ Postpone(fresh) /\ UNCHANGED <<pair, torn>>
  /\ fresh' = NULL
  /\ GoesOn
  /\ UNCHANGED <<loopvars, now>>

\* or it fails, and on_accept deletes the client (keeps it for on_request
\* when other modes are on).
TranspFails ==
  /\ Running({"server"}) /\ fresh # NULL
  /\ Orphan \/ UNCHANGED <<slotvars, pair, torn, stale, deadline>>
  /\ todo' = IF Mixed THEN NULL ELSE fresh
  /\ fresh' = NULL
  /\ UNCHANGED <<loopvars, cur, fired, now>>

\* on_request, recv_and_connect: the client gets its connection,
Request ==
  /\ Running({"request", "delayed"}) /\ fresh = NULL
  /\ Connect(cur)
  /\ ReturnOk
  /\ UNCHANGED <<loopvars, fresh, now>>

\* or is told to go on, and its data waited for.
RequestLater ==
  /\ Running({"request"}) /\ fresh = NULL
  /\ Postpone(cur)
  /\ ReturnOk
  /\ UNCHANGED <<loopvars, pair, torn, fresh, now>>

\* udp_associate: the slot of the outer socket...
UdpRemote ==
  /\ Running({"request"}) /\ fresh = NULL
  /\ add_event(New, "udp", role)
  /\ pair' = [pair EXCEPT ![New] = NULL]
  /\ fresh' = New
  /\ GoesOn
  /\ UNCHANGED <<loopvars, torn, now>>

\* ... and of the inner one, the three slots in a ring, ...
UdpClient ==
  /\ Running({"request"}) /\ fresh # NULL
  /\ add_event(New, "udp", [role EXCEPT ![cur] = "client"])
  /\ pair' = [pair EXCEPT ![cur] = New, ![New] = fresh, ![fresh] = cur]
  /\ fresh' = NULL
  /\ ReturnOk \/ ReturnErr
  /\ UNCHANGED <<loopvars, torn, now>>

\* ... or the first is deleted again, and forgotten when getsockname fails.
UdpFails ==
  /\ Running({"request"}) /\ fresh # NULL
  /\ \/ del_event(fresh) /\ UNCHANGED pair
     \/ Faults /\ torn' = torn \cup {fresh} /\ UNCHANGED <<slotvars, pair, stale, deadline>>
  /\ fresh' = NULL
  /\ ReturnErr
  /\ UNCHANGED <<loopvars, now>>

-----------------------------------------------------------------------------
\* The remote slot a tunnel callback works on: its own, or its pair's.
Remote(r) ==
  /\ Running({"client", "remote"})
  /\ r = IF role[cur] = "remote" THEN cur ELSE pair[cur]
  /\ role[r] = "remote"
  /\ pair[r] # NULL

\* The callbacks create_conn is called from, but on_accept's.
Connecting == Running({"request", "delayed"}) \/ \E r \in Slots : Remote(r)

\* create_conn fails after add_event: so do reconnect and the callback.
ConnectFault ==
  /\ Connecting /\ fresh = NULL
  /\ Orphan
  /\ ReturnErr
  /\ UNCHANGED <<loopvars, fresh, now>>

(***************************************************************************)
(* add_event's epoll_ctl(ADD) fails: the slot is written but not counted.  *)
(* The caller closes the socket and goes on to its own error path, which   *)
(* is one of the actions above.                                            *)
(***************************************************************************)
AddFails ==
  /\ Faults
  /\ Running({"server"}) \/ Connecting
  /\ count < Max
  /\ index' = [index EXCEPT ![New] = AddIndex]
  /\ fd' = [fd EXCEPT ![New] = "failed"]
  /\ mod_iter' = [mod_iter EXCEPT ![New] = AddIter]
  /\ pair' = [pair EXCEPT ![New] = NULL]
  /\ GoesOn
  /\ UNCHANGED <<count, links, role, loopvars, torn, stale, fresh, deadline, now>>

\* Mutant: reconnect leaves the old slot open.
NotDeleted(r) == cur' = NULL /\ fired' = NULL /\ UNCHANGED todo

\* reconnect(r) ends with r cut loose and deleted.
Abandon(r) == cur' = NULL /\ fired' = NULL /\ todo' = r

\* connect_hook gives r's client a new remote slot,
Reconnect(r) ==
  /\ Remote(r)
  /\ add_event(New, "remote", role)
  /\ pair' = [pair EXCEPT ![pair[r]] = New, ![New] = pair[r], ![r] = NULL]
  /\ Abandon(r)
  /\ UNCHANGED <<loopvars, torn, fresh, now>>

\* or it puts the connection off: no new slot, and the client goes on
\* pointing to r.
ReconnectLater(r) ==
  /\ Remote(r)
  /\ Postpone(pair[r])
  /\ pair' = [pair EXCEPT ![r] = NULL]
  /\ torn' = torn \cup {pair[r]}
  /\ Abandon(r)
  /\ UNCHANGED <<loopvars, fresh, now>>

SetTimer(r, d) ==
  /\ Remote(r)
  /\ Arm(r, d)
  /\ GoesOn
  /\ UNCHANGED <<slotvars, loopvars, pair, torn, stale, fresh, now>>

RemoveTimer(r) ==
  /\ Remote(r)
  /\ Disarm(r)
  /\ GoesOn
  /\ UNCHANGED <<slotvars, loopvars, pair, torn, stale, fresh, now>>

Tick ==
  /\ phase = "loop"
  /\ Advance
  /\ UNCHANGED <<slotvars, loopvars, pair, torn, stale, cur, fresh, todo, fired>>

Loop == Fetch \/ (\E v \in Slots : SkipStale(v) \/ Dispatch(v) \/ Timeout(v))
Stop == Break \/ destroy_pool
Callback ==
  \/ Return \/ Crash \/ Accept \/ AcceptFails \/ TranspConn \/ TranspFails
  \/ Request \/ RequestLater \/ UdpRemote \/ UdpClient \/ UdpFails
  \/ ConnectFault \/ AddFails
  \/ \E r \in Slots : Reconnect(r) \/ ReconnectLater(r) \/ RemoveTimer(r)
  \/ \E r \in Slots, d \in Delays : SetTimer(r, d)

Next ==
  \/ Loop
  \/ \E v \in Slots : Interrupted(v)
  \/ DelStep
  \/ Stop
  \/ Callback
  \/ Tick

\* Sockets are non-blocking and accept runs dry: every callback comes to its
\* end, and so do del_event, destroy_pool and the loop's own steps.
Fairness ==
  /\ WF_vars(Loop)
  /\ WF_vars(DelStep)
  /\ WF_vars(Stop)
  /\ SF_vars(Return \/ Crash)
  /\ WF_vars(TranspConn \/ TranspFails)
  /\ WF_vars(UdpFails)

Spec == Init /\ [][Next]_vars /\ Fairness

-----------------------------------------------------------------------------
(***************************************************************************)
(* links is a permutation whose first count entries are the live slots,    *)
(* each at its own index, through every swap del_event does: otherwise     *)
(* add_event would hand out a slot in use, or del_event close the wrong    *)
(* one.                                                                    *)
(***************************************************************************)
SlotsConsistent ==
  /\ \A i, j \in Index : links[i] = links[j] => i = j
  /\ \A v \in Live : index[v] < count /\ links[index[v]] = v
  /\ \A i \in Index : i < count => links[i] \in Live

(***************************************************************************)
(* The mod_iter test of next_event is exact: an event is skipped if and    *)
(* only if its socket was closed after the batch was fetched, also when    *)
(* the slot has been reused by then.  So no callback runs for a socket     *)
(* that is gone or for its successor, and no event of a live one is lost.  *)
(***************************************************************************)
EventsFresh ==
  /\ \A v \in Slots : mod_iter[v] <= iters
  /\ \A v \in batch : v \in stale <=> mod_iter[v] = iters
  /\ batch \ stale \subseteq Live

\* Callbacks, del_event and udp_associate only ever look at slots that
\* add_event has initialised, and a callback's own slot is live.
NoRawSlot ==
  /\ {cur, fresh} \subseteq Live \cup {NULL}
  /\ todo # NULL => fd[todo] # "raw"
  /\ \A v \in Live : pair[v] # NULL => fd[pair[v]] # "raw"

(***************************************************************************)
(* Only live slots have timers.  A timer left on a deleted slot would fire *)
(* into freed state, and add_event's memset of that slot would cut the     *)
(* timer list in two.                                                      *)
(***************************************************************************)
TimersLive == Armed \subseteq Live

\* A tunnel's client and remote slot, and the three slots of a UDP association.
Tunnel(c) ==
  /\ role[c] = "client"
  /\ pair[c] \in Live
  /\ role[pair[c]] = "remote"
  /\ pair[pair[c]] = c

Ring(c) ==
  /\ role[c] = "client"
  /\ pair[c] \in Live
  /\ pair[pair[c]] \in Live
  /\ pair[c] # pair[pair[c]]
  /\ role[pair[c]] = "udp"
  /\ role[pair[pair[c]]] = "udp"
  /\ pair[pair[pair[c]]] = c

\* The slots of one session point to each other.
Linked(v) ==
  \/ role[v] \in {"server", "request", "delayed"} /\ pair[v] = NULL
  \/ Tunnel(v) \/ Ring(v)
  \/ role[v] = "remote" /\ \E c \in Live : Tunnel(c) /\ v = pair[c]
  \/ role[v] = "udp" /\ \E c \in Live : Ring(c) /\ v \in {pair[c], pair[pair[c]]}

\* del_event is about to reach v.
Closing(v) == v = todo \/ (todo \in Live /\ pair[todo] = v)

(***************************************************************************)
(* Even when system calls fail and connections are put off, every slot is  *)
(* linked with the rest of its session, or del_event is on its way to it:  *)
(* no part of a session is deleted and another left behind with a pointer  *)
(* to a slot that others will get.  The exceptions are the very slots that *)
(* a failed call has orphaned and the clients that reconnect has put off,  *)
(* which keep the old pointer until they connect; where del_event follows  *)
(* such a pointer into another session it deletes that one as a whole.     *)
(***************************************************************************)
SlotsLinked ==
  /\ \A v \in Live \ torn : Linked(v) \/ Closing(v) \/ v = fresh
  /\ torn \subseteq Live
  /\ \A v \in torn : role[v] = "delayed" \/ (role[v] \in {"remote", "udp"} /\ pair[v] = NULL)

(***************************************************************************)
(* A time-out is only ever reported for the remote slot of a live tunnel,  *)
(* as on_timeout takes for granted (it goes to the slot's pair): also when *)
(* EINTR makes it fire early, when reconnect changes the slot under it and *)
(* when del_event is half-way through another session.                     *)
(***************************************************************************)
TimersInTunnels ==
  \A v \in Armed \cup ({fired} \ {NULL}) : v # todo =>
    pair[v] \in Live /\ Tunnel(pair[v]) /\ v = pair[pair[v]]

(***************************************************************************)
(* When no call fails and none is put off, sessions are whole between      *)
(* callbacks: nobody but a client past its request, its remote slot and    *)
(* the slots of its association has a pair, and none of those is left over *)
(* from a session that has ended.                                          *)
(***************************************************************************)
SessionsWhole ==
  cur = NULL /\ todo = NULL =>
    \A v \in Live :
      /\ role[v] \in {"server", "request", "delayed"} => pair[v] = NULL
      /\ role[v] = "remote" => \E c \in Live : Tunnel(c) /\ v = pair[c]
      /\ role[v] = "udp" =>
           \E c \in Live : Ring(c) /\ v \in {pair[c], pair[pair[c]]}

\* Every event of a batch is looked at, whatever the callbacks do meanwhile.
BatchEnds == (batch # {}) ~> (batch = {} \/ phase # "loop")

\* When accept fails (on_cancel shuts the listening socket down) the program
\* leaves the loop and destroy_pool closes every socket, unless failed calls
\* have already wrecked it.
ShutdownEnds ==
  brk ~> \/ phase = "done" /\ Live = {} /\ Armed = {}
         \/ phase = "crashed" /\ Faults
=============================================================================
