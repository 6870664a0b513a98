-------------------------- MODULE EventPoolProofs --------------------------
(***************************************************************************)
(* Proofs about EventPool, for every pool size, every number of batches,   *)
(* every mode and with failing system calls.                               *)
(***************************************************************************)
EXTENDS EventPool, TLAPS

-----------------------------------------------------------------------------
(* What the two pool operations do to the slots                            *)

\* The slot add_event takes is not in use.
LEMMA NewIsFree ==
  ASSUME TypeOK, SlotsConsistent, count < Max
  PROVE  New \in Slots /\ New \notin Live /\ count \in Index
<1>1. count \in Index
  BY PoolAssumption DEF TypeOK, Index
<1>2. New \in Slots
  BY <1>1 DEF TypeOK, New
<1>3. ASSUME New \in Live PROVE FALSE
  <2>1. index[New] < count /\ links[index[New]] = links[count]
    BY <1>3 DEF SlotsConsistent, New
  <2>2. index[New] \in Index
    BY <1>2 DEF TypeOK
  <2>3. index[New] = count
    BY <1>1, <2>1, <2>2 DEF SlotsConsistent
  <2> QED
    BY <2>1, <2>3, <1>1 DEF Index
<1> QED
  BY <1>1, <1>2, <1>3

\* add_event makes the slot live and keeps the pool consistent; an event of
\* the slot's former socket that is still in the batch stays stale.
LEMMA AddEventKeeps ==
  ASSUME TypeOK, SlotsConsistent, EventsFresh, TimersLive,
         NEW r \in Roles, NEW rs \in [Slots -> Roles],
         add_event(New, r, rs), UNCHANGED <<iters, batch>>
  PROVE  /\ count' \in 0..Max
         /\ links' \in [Index -> Slots]
         /\ index' \in [Slots -> Index]
         /\ fd' \in [Slots -> {"raw", "open", "closed", "failed"}]
         /\ role' \in [Slots -> Roles]
         /\ mod_iter' \in [Slots -> Nat]
         /\ deadline' \in [Slots -> Nat]
         /\ stale' \subseteq batch'
         /\ New \in Slots /\ New \notin Live
         /\ Live' = Live \cup {New}
         /\ SlotsConsistent' /\ EventsFresh' /\ TimersLive'
<1> DEFINE n == New
<1>1. n \in Slots /\ n \notin Live /\ count \in Index /\ count < Max
  BY NewIsFree DEF add_event
<1>2. /\ count' = count + 1
      /\ index' = [index EXCEPT ![n] = count]
      /\ fd' = [fd EXCEPT ![n] = "open"]
      /\ role' = [rs EXCEPT ![n] = r]
      /\ mod_iter' = [mod_iter EXCEPT ![n] = iters]
      /\ deadline' = [deadline EXCEPT ![n] = 0]
      /\ links' = links /\ stale' = stale
      /\ iters' = iters /\ batch' = batch
      /\ links[count] = n
  BY DEF add_event, AddIter, AddIndex, Disarm, New
<1> HIDE DEF n
<1>3. /\ count' \in 0..Max
      /\ links' \in [Index -> Slots]
      /\ index' \in [Slots -> Index]
      /\ fd' \in [Slots -> {"raw", "open", "closed", "failed"}]
      /\ role' \in [Slots -> Roles]
      /\ mod_iter' \in [Slots -> Nat]
      /\ deadline' \in [Slots -> Nat]
      /\ stale' \subseteq batch'
  <2>1. count' \in 0..Max
    BY <1>1, <1>2, PoolAssumption DEF TypeOK, Index
  <2>2. index' \in [Slots -> Index] /\ fd' \in [Slots -> {"raw", "open", "closed", "failed"}]
    BY <1>1, <1>2 DEF TypeOK
  <2>3. mod_iter' \in [Slots -> Nat] /\ deadline' \in [Slots -> Nat]
    BY <1>1, <1>2 DEF TypeOK
  <2>4. role' \in [Slots -> Roles]
    BY <1>1, <1>2
  <2> QED
    BY <2>1, <2>2, <2>3, <2>4, <1>2 DEF TypeOK
<1>4. Live' = Live \cup {n}
  BY <1>1, <1>2 DEF TypeOK, Live
<1>5. SlotsConsistent'
  <2>1. \A i, j \in Index : links'[i] = links'[j] => i = j
    BY <1>2 DEF SlotsConsistent
  <2>2. \A v \in Live' : index'[v] < count' /\ links'[index'[v]] = v
    <3> TAKE v \in Live'
    <3>1. CASE v = n
      BY <3>1, <1>1, <1>2 DEF TypeOK, Index
    <3>2. CASE v # n
      <4>1. v \in Live /\ v \in Slots
        BY <3>2, <1>4 DEF Live
      <4>2. index'[v] = index[v] /\ index[v] < count /\ links[index[v]] = v
            /\ index[v] \in Nat
        BY <4>1, <3>2, <1>2 DEF TypeOK, SlotsConsistent, Index
      <4> QED
        BY <4>2, <1>1, <1>2 DEF Index
    <3> QED
      BY <3>1, <3>2
  <2>3. \A i \in Index : i < count' => links'[i] \in Live'
    <3> SUFFICES ASSUME NEW i \in Index, i < count + 1
                 PROVE  links[i] \in Live \cup {n}
      BY <1>2, <1>4
    <3>1. i < count \/ i = count
      BY <1>1 DEF Index
    <3> QED
      BY <3>1, <1>2 DEF SlotsConsistent
  <2> QED
    BY <2>1, <2>2, <2>3 DEF SlotsConsistent
<1>6. EventsFresh'
  <2>1. \A v \in Slots : mod_iter'[v] <= iters'
    BY <1>2 DEF TypeOK, EventsFresh
  <2>2. \A v \in batch' : v \in stale' <=> mod_iter'[v] = iters'
    <3> TAKE v \in batch'
    <3>0. v \in batch /\ v \in Slots
      BY <1>2 DEF TypeOK
    <3>1. CASE v = n
      BY <3>0, <3>1, <1>1, <1>2 DEF TypeOK, EventsFresh
    <3>2. CASE v # n
      BY <3>0, <3>2, <1>2 DEF TypeOK, EventsFresh
    <3> QED
      BY <3>1, <3>2
  <2>3. batch' \ stale' \subseteq Live'
    BY <1>2, <1>4 DEF EventsFresh
  <2> QED
    BY <2>1, <2>2, <2>3 DEF EventsFresh
<1>7. TimersLive'
  BY <1>2, <1>4 DEF TypeOK, TimersLive, Armed
<1> QED
  BY <1>1, <1>3, <1>4, <1>5, <1>6, <1>7 DEF n

\* del_event of a live slot closes that slot only, fills the gap it leaves,
\* disarms it and makes its pending event stale.
LEMMA DelEventKeeps ==
  ASSUME TypeOK, SlotsConsistent, EventsFresh, TimersLive,
         NEW v \in Live, del_event(v), UNCHANGED <<iters, batch>>
  PROVE  /\ count' \in 0..Max
         /\ links' \in [Index -> Slots]
         /\ index' \in [Slots -> Index]
         /\ fd' \in [Slots -> {"raw", "open", "closed", "failed"}]
         /\ role' = role
         /\ mod_iter' \in [Slots -> Nat]
         /\ deadline' \in [Slots -> Nat]
         /\ stale' \subseteq batch'
         /\ torn' = torn \ {v}
         /\ \A w \in Slots : fd[w] # "raw" => fd'[w] # "raw"
         /\ Live' = Live \ {v}
         /\ SlotsConsistent' /\ EventsFresh' /\ TimersLive'
<1> DEFINE last == links[count - 1]
<1>1. /\ v \in Slots /\ index[v] \in Index /\ index[v] < count
      /\ links[index[v]] = v
      /\ count \in 1..Max /\ count - 1 \in Index
  BY PoolAssumption DEF TypeOK, SlotsConsistent, Live, Index
<1>0. Index \subseteq Nat /\ count \in Nat /\ index[v] \in Nat
  BY <1>1, PoolAssumption DEF Index
<1>2. last \in Live /\ last \in Slots
  BY <1>1 DEF SlotsConsistent, Live, Index
<1>3. index[last] = count - 1
  <2>1. index[last] \in Index /\ links[index[last]] = links[count - 1]
    BY <1>2 DEF TypeOK, SlotsConsistent
  <2> QED
    BY <2>1, <1>1 DEF SlotsConsistent
<1>4. /\ fd' = [fd EXCEPT ![v] = "closed"]
      /\ mod_iter' = [mod_iter EXCEPT ![v] = iters]
      /\ deadline' = [deadline EXCEPT ![v] = 0]
      /\ count' = count - 1
      /\ links' = [links EXCEPT ![index[v]] = last, ![count - 1] = v]
      /\ index' = [index EXCEPT ![last] = index[v]]
      /\ stale' = stale \cup (batch \cap {v})
      /\ role' = role
      /\ torn' = torn \ {v}
      /\ iters' = iters /\ batch' = batch
  BY DEF del_event, TimerGone, Moved, Disarm
<1>5. last = v <=> index[v] = count - 1
  BY <1>1, <1>3
<1>6. /\ \A i \in Index : i # index[v] /\ i # count - 1 => links'[i] = links[i]
      /\ links'[count - 1] = v
      /\ index[v] # count - 1 => links'[index[v]] = last
  BY <1>1, <1>4 DEF TypeOK
<1> HIDE DEF last
<1>7. /\ count' \in 0..Max
      /\ links' \in [Index -> Slots]
      /\ index' \in [Slots -> Index]
      /\ fd' \in [Slots -> {"raw", "open", "closed", "failed"}]
      /\ mod_iter' \in [Slots -> Nat]
      /\ deadline' \in [Slots -> Nat]
      /\ stale' \subseteq batch'
      /\ \A w \in Slots : fd[w] # "raw" => fd'[w] # "raw"
  <2>1. count' \in 0..Max
    BY <1>1, <1>4, PoolAssumption
  <2>2. links' \in [Index -> Slots] /\ index' \in [Slots -> Index]
    BY <1>1, <1>2, <1>4 DEF TypeOK
  <2>3. fd' \in [Slots -> {"raw", "open", "closed", "failed"}]
        /\ \A w \in Slots : fd[w] # "raw" => fd'[w] # "raw"
    BY <1>1, <1>4 DEF TypeOK
  <2>4. mod_iter' \in [Slots -> Nat] /\ deadline' \in [Slots -> Nat]
    BY <1>1, <1>4 DEF TypeOK
  <2> QED
    BY <2>1, <2>2, <2>3, <2>4, <1>4 DEF TypeOK
<1>8. Live' = Live \ {v}
  BY <1>1, <1>4 DEF TypeOK, Live
<1>9. SlotsConsistent'
  <2>1. \A i, j \in Index : links'[i] = links'[j] => i = j
    <3> SUFFICES ASSUME NEW i \in Index, NEW j \in Index, links'[i] = links'[j]
                 PROVE  i = j
      OBVIOUS
    <3>1. \A a, b \in Index : links[a] = links[b] => a = b
      BY DEF SlotsConsistent
    <3>2. last = links[count - 1]
      BY DEF last
    <3> QED
      BY <1>1, <1>6, <3>1, <3>2
  <2>2. \A w \in Live' : index'[w] < count' /\ links'[index'[w]] = w
    <3> TAKE w \in Live'
    <3>1. w \in Live /\ w # v /\ w \in Slots
      BY <1>8 DEF Live
    <3>2. index[w] \in Index /\ index[w] < count /\ links[index[w]] = w
      BY <3>1 DEF TypeOK, SlotsConsistent
    <3>3. CASE w = last
      <4>1. index'[w] = index[v] /\ index[v] # count - 1
        BY <3>1, <3>3, <1>4, <1>5 DEF TypeOK
      <4>2. index[v] < count - 1 /\ count' = count - 1
        BY <4>1, <1>0, <1>1, <1>4
      <4>3. links'[index[v]] = w
        BY <4>1, <3>3, <1>6
      <4> QED
        BY <4>1, <4>2, <4>3
    <3>4. CASE w # last
      <4>1. index'[w] = index[w]
        BY <3>1, <3>4, <1>4 DEF TypeOK
      <4>2. index[w] # count - 1 /\ index[w] # index[v]
        BY <3>1, <3>2, <3>4, <1>1 DEF last
      <4>3. index[w] < count - 1 /\ count' = count - 1
        BY <4>2, <3>2, <1>0, <1>1, <1>4
      <4>4. links'[index[w]] = w
        BY <4>2, <3>2, <1>6
      <4> QED
        BY <4>1, <4>3, <4>4
    <3> QED
      BY <3>3, <3>4
  <2>3. \A i \in Index : i < count' => links'[i] \in Live'
    <3> SUFFICES ASSUME NEW i \in Index, i < count - 1
                 PROVE  links'[i] \in Live \ {v}
      BY <1>4, <1>8
    <3>1. CASE i = index[v]
      BY <3>1, <1>0, <1>2, <1>5, <1>6
    <3>2. CASE i # index[v]
      <4>1. links'[i] = links[i] /\ links[i] \in Live
        BY <3>2, <1>0, <1>1, <1>6 DEF SlotsConsistent
      <4>2. links[i] # v
        BY <3>2, <1>1 DEF SlotsConsistent
      <4> QED
        BY <4>1, <4>2
    <3> QED
      BY <3>1, <3>2
  <2> QED
    BY <2>1, <2>2, <2>3 DEF SlotsConsistent
<1>10. EventsFresh'
  <2>1. \A w \in Slots : mod_iter'[w] <= iters'
    BY <1>4 DEF TypeOK, EventsFresh
  <2>2. \A w \in batch' : w \in stale' <=> mod_iter'[w] = iters'
    <3> TAKE w \in batch'
    <3>0. w \in batch /\ w \in Slots
      BY <1>4 DEF TypeOK
    <3>1. CASE w = v
      BY <3>0, <3>1, <1>4 DEF TypeOK
    <3>2. CASE w # v
      BY <3>0, <3>2, <1>4 DEF TypeOK, EventsFresh
    <3> QED
      BY <3>1, <3>2
  <2>3. batch' \ stale' \subseteq Live'
    BY <1>4, <1>8 DEF EventsFresh
  <2> QED
    BY <2>1, <2>2, <2>3 DEF EventsFresh
<1>11. TimersLive'
  BY <1>4, <1>8 DEF TypeOK, TimersLive, Armed
<1> QED
  BY <1>4, <1>7, <1>8, <1>9, <1>10, <1>11

-----------------------------------------------------------------------------
(* The inductive invariant                                                 *)

\* A client past its request has a tunnel or an association that points back
\* to it, or del_event is on its way to it.
ClientsLinked ==
  \A c \in Live : role[c] = "client" => Tunnel(c) \/ Ring(c) \/ Closing(c)

\* A remote slot is forgotten (a failed create_conn), about to be deleted, or
\* linked both ways with a client past its request.
RemotesLinked ==
  \A r \in Live : role[r] = "remote" =>
    \/ pair[r] = NULL
    \/ r = todo
    \/ pair[r] \in Live /\ role[pair[r]] = "client" /\ pair[pair[r]] = r

\* del_event runs after callbacks, or in on_accept for a client that has no
\* pair; a slot in the making belongs to on_accept or to udp_associate and has
\* no pair yet.
ControlOK ==
  /\ cur # NULL => phase = "loop"
  /\ cur # NULL /\ todo # NULL => todo \in Live /\ todo # cur /\ pair[todo] = NULL
  /\ fresh # NULL =>
       /\ cur # NULL /\ todo = NULL
       /\ fresh # cur
       /\ pair[fresh] = NULL
       /\ \/ role[cur] = "server" /\ role[fresh] = "request"
          \/ role[cur] = "request" /\ role[fresh] = "udp"

Inv ==
  /\ TypeOK
  /\ SlotsConsistent
  /\ EventsFresh
  /\ TimersLive
  /\ NoRawSlot
  /\ ClientsLinked
  /\ RemotesLinked
  /\ ControlOK

\* Steps that leave the slots alone and start at most one deletion keep every
\* session linked.
LEMMA SameSlots ==
  ASSUME Inv, UNCHANGED <<slotvars, pair>>, todo = NULL \/ todo' = todo
  PROVE  Live' = Live /\ SlotsConsistent' /\ ClientsLinked' /\ RemotesLinked'
<1>1. Live' = Live
  BY DEF Live, slotvars
<1>2. SlotsConsistent'
  BY <1>1 DEF Inv, SlotsConsistent, slotvars
<1>3. \A c \in Live : (Tunnel(c) => Tunnel(c)') /\ (Ring(c) => Ring(c)')
  BY <1>1 DEF Tunnel, Ring, slotvars
<1>4. \A c \in Live : Closing(c) => Closing(c)'
  BY <1>1, TimerAssumption DEF Closing, Live, slotvars
<1>5. ClientsLinked'
  BY <1>1, <1>3, <1>4 DEF Inv, ClientsLinked, slotvars
<1>6. RemotesLinked'
  BY <1>1, TimerAssumption DEF Inv, RemotesLinked, Live, slotvars
<1> QED
  BY <1>1, <1>2, <1>5, <1>6

LEMMA InitInv == Init => Inv
<1> SUFFICES ASSUME Init PROVE Inv
  OBVIOUS
<1>1. /\ 0 \in Index /\ 1 \in 0..Max
  BY PoolAssumption DEF Index
<1>2. links \in [Index -> Slots]
  BY DEF Init
<1>3. TypeOK
  BY <1>1, <1>2 DEF Init, TypeOK, TimerInit, Pointer, Roles
<1>4. Live = {links[0]}
  BY <1>1, <1>2 DEF Init, Live
<1>5. SlotsConsistent
  <2>1. \A i \in Index : i < 1 => i = 0
    BY PoolAssumption DEF Index
  <2> QED
    BY <1>1, <1>2, <1>4, <2>1 DEF Init, SlotsConsistent
<1>6. EventsFresh /\ TimersLive
  BY DEF Init, EventsFresh, TimersLive, TimerInit, Armed
<1>7. NoRawSlot
  BY <1>1, <1>2, <1>4 DEF Init, NoRawSlot
<1>8. ClientsLinked /\ RemotesLinked /\ ControlOK
  BY <1>1, <1>2, <1>4 DEF Init, ClientsLinked, RemotesLinked, ControlOK
<1> QED
  BY <1>3, <1>5, <1>6, <1>7, <1>8 DEF Inv

\* The loop's own steps, the ends of callbacks and the timers.
LEMMA LoopKeepsInv ==
  ASSUME Inv,
         \/ Loop \/ (\E v \in Slots : Interrupted(v)) \/ Stop
         \/ Return \/ Crash \/ AcceptFails \/ Tick
         \/ \E r \in Slots : RemoveTimer(r)
         \/ \E r \in Slots, d \in Delays : SetTimer(r, d)
  PROVE  Inv'
<1> USE DEF Inv
<1>1. CASE Fetch
  <2>1. Live' = Live /\ SlotsConsistent' /\ ClientsLinked' /\ RemotesLinked'
    BY <1>1, SameSlots DEF Fetch
  <2>2. TypeOK'
    BY <1>1 DEF Fetch, TypeOK, slotvars, tqvars, Live
  <2>3. EventsFresh'
    <3>1. /\ iters \in Nat /\ iters' = iters + 1 /\ mod_iter' = mod_iter
          /\ stale' = {} /\ batch' \subseteq Live /\ Live \subseteq Slots
          /\ mod_iter \in [Slots -> Nat]
      BY <1>1 DEF Fetch, TypeOK, slotvars, Live
    <3>2. \A v \in Slots : mod_iter'[v] <= iters' /\ mod_iter'[v] # iters'
      BY <3>1 DEF EventsFresh
    <3> QED
      BY <3>1, <3>2, <2>1 DEF EventsFresh
  <2>4. TimersLive' /\ NoRawSlot' /\ ControlOK'
    BY <1>1, <2>1 DEF Fetch, TimersLive, Armed, NoRawSlot, ControlOK, slotvars, tqvars
  <2> QED
    BY <2>1, <2>2, <2>3, <2>4
<1>2. ASSUME NEW v \in Slots, SkipStale(v) PROVE Inv'
  <2>1. Live' = Live /\ SlotsConsistent' /\ ClientsLinked' /\ RemotesLinked'
    BY <1>2, SameSlots DEF SkipStale
  <2>2. TypeOK'
    BY <1>2 DEF SkipStale, TypeOK, slotvars, tqvars
  <2>3. EventsFresh'
    BY <1>2, <2>1 DEF SkipStale, EventsFresh, TypeOK, slotvars
  <2>4. TimersLive' /\ NoRawSlot' /\ ControlOK'
    BY <1>2, <2>1 DEF SkipStale, TimersLive, Armed, NoRawSlot, ControlOK, slotvars, tqvars
  <2> QED
    BY <2>1, <2>2, <2>3, <2>4
<1>3. ASSUME NEW v \in Slots, Dispatch(v) PROVE Inv'
  <2>1. Live' = Live /\ SlotsConsistent' /\ ClientsLinked' /\ RemotesLinked'
    BY <1>3, SameSlots DEF Dispatch
  <2>2. TypeOK'
    BY <1>3 DEF Dispatch, TypeOK, slotvars, tqvars, Pointer
  <2>3. EventsFresh'
    BY <1>3, <2>1 DEF Dispatch, EventsFresh, TypeOK, slotvars
  <2>4. v \in Live
    BY <1>3 DEF Dispatch, EventsFresh
  <2>5. fresh = NULL
    BY <1>3 DEF Dispatch, Idle, ControlOK
  <2>6. TimersLive' /\ NoRawSlot' /\ ControlOK'
    BY <1>3, <2>1, <2>4, <2>5
    DEF Dispatch, Idle, TimersLive, Armed, NoRawSlot, ControlOK, slotvars, tqvars
  <2> QED
    BY <2>1, <2>2, <2>3, <2>6
<1>4. ASSUME NEW v \in Slots, Timeout(v) \/ Interrupted(v) PROVE Inv'
  <2>0. /\ v \in Armed
        /\ Idle
        /\ deadline' = [deadline EXCEPT ![v] = 0]
        /\ fired' = v /\ cur' = v /\ etype' \in {"event", "timeout"}
        /\ UNCHANGED <<slotvars, pair, torn, iters, batch, stale, fresh, todo, now, brk, phase>>
    BY <1>4 DEF Timeout, Interrupted, Expire, Earliest, Disarm, loopvars
  <2>1. Live' = Live /\ SlotsConsistent' /\ ClientsLinked' /\ RemotesLinked'
    BY <2>0, SameSlots
  <2>2. TypeOK'
    BY <2>0 DEF TypeOK, slotvars, Pointer
  <2>3. EventsFresh'
    BY <2>0, <2>1 DEF EventsFresh, slotvars
  <2>4. v \in Live /\ fresh = NULL
    BY <2>0 DEF TimersLive, Idle, ControlOK
  <2>5. TimersLive'
    BY <2>0, <2>1 DEF TimersLive, Armed, TypeOK
  <2>6. NoRawSlot' /\ ControlOK'
    BY <2>0, <2>1, <2>4 DEF Idle, NoRawSlot, ControlOK, slotvars
  <2> QED
    BY <2>1, <2>2, <2>3, <2>5, <2>6
<1>5. CASE Break \/ Tick
  <2>1. Live' = Live /\ SlotsConsistent' /\ ClientsLinked' /\ RemotesLinked'
    BY <1>5, SameSlots DEF Break, Tick
  <2>2. TypeOK'
    BY <1>5 DEF Break, Tick, Advance, TypeOK, slotvars, loopvars, tqvars
  <2>3. EventsFresh' /\ TimersLive'
    BY <1>5, <2>1 DEF Break, Tick, Advance, EventsFresh, TimersLive, Armed,
                      slotvars, loopvars, tqvars
  <2>4. NoRawSlot' /\ ControlOK'
    BY <1>5, <2>1 DEF Break, Tick, NoRawSlot, ControlOK, slotvars, loopvars
  <2> QED
    BY <2>1, <2>2, <2>3, <2>4
<1>6. CASE destroy_pool
  <2>1. Live' = Live /\ SlotsConsistent' /\ ClientsLinked' /\ RemotesLinked'
    BY <1>6, SameSlots DEF destroy_pool
  <2>2. count # 0 => links[0] \in Live
    BY PoolAssumption DEF SlotsConsistent, TypeOK, Index
  <2>3. TypeOK'
    BY <1>6, <2>2 DEF destroy_pool, TypeOK, slotvars, tqvars, Pointer, Live
  <2>4. EventsFresh' /\ TimersLive'
    BY <1>6, <2>1 DEF destroy_pool, EventsFresh, TimersLive, Armed, slotvars, tqvars
  <2>5. NoRawSlot' /\ ControlOK'
    BY <1>6, <2>1, <2>2 DEF destroy_pool, NoRawSlot, ControlOK, slotvars, Live
  <2> QED
    BY <2>1, <2>3, <2>4, <2>5
<1>7. CASE Return \/ Crash \/ AcceptFails
  <2>0. /\ cur # NULL /\ fresh = NULL /\ todo = NULL
        /\ cur' = NULL /\ fired' = NULL /\ todo' \in {NULL, cur}
        /\ brk' \in BOOLEAN /\ phase' \in {phase, "crashed"}
        /\ UNCHANGED <<slotvars, pair, torn, iters, batch, etype, stale, fresh, deadline, now>>
    BY <1>7 DEF Return, Crash, AcceptFails, Running, ControlOK, ReturnOk, ReturnErr,
                TypeOK, loopvars
  <2>1. Live' = Live /\ SlotsConsistent' /\ ClientsLinked' /\ RemotesLinked'
    BY <2>0, SameSlots
  <2>2. TypeOK'
    BY <2>0 DEF TypeOK, slotvars, Pointer
  <2>3. EventsFresh' /\ TimersLive'
    BY <2>0, <2>1 DEF EventsFresh, TimersLive, Armed, slotvars
  <2>4. NoRawSlot' /\ ControlOK'
    BY <2>0, <2>1 DEF NoRawSlot, ControlOK, slotvars, Live
  <2> QED
    BY <2>1, <2>2, <2>3, <2>4
<1>8. ASSUME NEW r \in Slots, Remote(r),
             RemoveTimer(r) \/ (\E d \in Delays : SetTimer(r, d))
      PROVE  Inv'
  <2>0. /\ \E x \in Nat : deadline' = [deadline EXCEPT ![r] = x]
        /\ UNCHANGED <<slotvars, loopvars, pair, torn, stale, fresh, now, cur, todo, fired>>
    BY <1>8, TimerAssumption
    DEF RemoveTimer, SetTimer, Arm, Disarm, GoesOn, TypeOK
  <2>1. Live' = Live /\ SlotsConsistent' /\ ClientsLinked' /\ RemotesLinked'
    BY <2>0, SameSlots
  <2>2. TypeOK'
    BY <2>0 DEF TypeOK, slotvars, loopvars
  <2>3. r \in Live
    <3>1. cur \in Live /\ todo = NULL
      BY <1>8 DEF Remote, Running, NoRawSlot, ControlOK
    <3>2. CASE r = cur
      BY <3>1, <3>2
    <3>3. CASE r # cur
      <4>1. role[cur] = "client" /\ r = pair[cur] /\ role[r] = "remote"
        BY <1>8, <3>3 DEF Remote, Running
      <4>2. ~Closing(cur)
        BY <3>1, TimerAssumption DEF Closing, Live
      <4> QED
        BY <3>1, <4>1, <4>2 DEF ClientsLinked, Tunnel, Ring
    <3> QED
      BY <3>2, <3>3
  <2>4. TimersLive'
    BY <2>0, <2>1, <2>3 DEF TimersLive, Armed, TypeOK
  <2>5. EventsFresh' /\ NoRawSlot' /\ ControlOK'
    BY <2>0, <2>1 DEF EventsFresh, NoRawSlot, ControlOK, slotvars, loopvars
  <2> QED
    BY <2>1, <2>2, <2>4, <2>5
<1> QED
  BY <1>1, <1>2, <1>3, <1>4, <1>5, <1>6, <1>7, <1>8
  DEF Loop, Stop, RemoveTimer, SetTimer

\* del_event's recursion: the sessions other than the one being deleted are
\* not touched, and that one stays within its reach.
LEMMA DelStepKeepsInv ==
  ASSUME Inv, DelStep
  PROVE  Inv'
<1> USE DEF Inv
<1> DEFINE v == todo
           e == pair[v]
<1>0. /\ v \in Slots /\ fresh = NULL
      /\ cur # NULL => v \in Live /\ v # cur /\ e = NULL /\ phase = "loop"
      /\ cur' = cur /\ fresh' = fresh /\ fired' = fired /\ now' = now
      /\ UNCHANGED <<iters, batch, etype, brk>>
      /\ e \in Pointer
  BY DEF DelStep, TypeOK, Pointer, ControlOK
<1>1. CASE fd[v] \in {"closed", "failed"}
  <2>0. /\ todo' = NULL /\ phase' \in {phase, "crashed"}
        /\ UNCHANGED <<slotvars, pair, torn, stale, deadline>>
    BY <1>1 DEF DelStep
  <2>1. Live' = Live /\ v \notin Live /\ cur = NULL
    BY <1>0, <2>0, <1>1 DEF Live, slotvars
  <2>2. TypeOK'
    BY <1>0, <2>0 DEF TypeOK, Pointer, slotvars
  <2>3. SlotsConsistent' /\ EventsFresh' /\ TimersLive' /\ NoRawSlot' /\ ControlOK'
    BY <1>0, <2>0, <2>1 DEF SlotsConsistent, EventsFresh, TimersLive, Armed,
                            NoRawSlot, ControlOK, slotvars
  <2>4. \A c \in Live : ~Closing(c)
    BY <2>1 DEF Closing
  <2>5. ClientsLinked'
    BY <2>0, <2>1, <2>4 DEF ClientsLinked, Tunnel, Ring, slotvars
  <2>6. RemotesLinked'
    BY <2>0, <2>1 DEF RemotesLinked, slotvars
  <2> QED
    BY <2>2, <2>3, <2>5, <2>6
<1>2. CASE fd[v] \notin {"closed", "failed"}
  <2>0. /\ del_event(v)
        /\ pair' = [w \in Slots |->
             IF w = v \/ (w = e /\ pair[w] = v) THEN NULL ELSE pair[w]]
        /\ todo' = e /\ phase' = phase
    BY <1>2 DEF DelStep, Partner
  <2>1. v \in Live
    BY <1>0, <1>2 DEF NoRawSlot, TypeOK, Live, DelStep
  <2>2. /\ count' \in 0..Max
        /\ links' \in [Index -> Slots]
        /\ index' \in [Slots -> Index]
        /\ fd' \in [Slots -> {"raw", "open", "closed", "failed"}]
        /\ role' = role
        /\ mod_iter' \in [Slots -> Nat]
        /\ deadline' \in [Slots -> Nat]
        /\ stale' \subseteq batch' /\ torn' = torn \ {v}
        /\ \A w \in Slots : fd[w] # "raw" => fd'[w] # "raw"
        /\ Live' = Live \ {v}
        /\ SlotsConsistent' /\ EventsFresh' /\ TimersLive'
    BY <1>0, <2>0, <2>1, DelEventKeeps
  <2>3. TypeOK'
    <3>1. pair' \in [Slots -> Pointer]
      BY <2>0 DEF TypeOK, Pointer
    <3> QED
      BY <3>1, <1>0, <2>0, <2>2 DEF TypeOK
  <2>4. \A w \in Slots : pair'[w] # NULL => pair'[w] = pair[w] /\ w # v
    BY <2>0
  <2>5. \A w \in Live' : w # v /\ (pair[w] # v => pair'[w] = pair[w])
    BY <2>0, <2>2 DEF Live
  <2>6. NoRawSlot'
    <3>1. todo' # NULL => fd'[todo'] # "raw"
      BY <1>0, <2>0, <2>1, <2>2 DEF NoRawSlot, Pointer
    <3>2. ASSUME NEW w \in Live', pair'[w] # NULL PROVE fd'[pair'[w]] # "raw"
      <4>1. w \in Live /\ w \in Slots /\ pair'[w] = pair[w]
        BY <3>2, <2>2, <2>4 DEF Live
      <4>2. pair[w] \in Slots /\ fd[pair[w]] # "raw"
        BY <3>2, <4>1 DEF NoRawSlot, TypeOK, Pointer
      <4> QED
        BY <4>1, <4>2, <2>2
    <3>3. {cur, fresh} \subseteq Live' \cup {NULL}
      BY <1>0, <2>2 DEF NoRawSlot
    <3> QED
      BY <3>1, <3>2, <3>3, <1>0 DEF NoRawSlot
  <2>7. ControlOK'
    BY <1>0, <2>0 DEF ControlOK
  <2>8. ClientsLinked'
    <3> SUFFICES ASSUME NEW c \in Live', role[c] = "client"
                 PROVE  (Tunnel(c) \/ Ring(c) \/ Closing(c))'
      BY <2>2 DEF ClientsLinked
    <3>0. c \in Live /\ c # v /\ c \in Slots
      BY <2>2 DEF Live
    <3>1. CASE Tunnel(c) /\ pair[c] = v
      BY <3>1, <3>0, <2>0 DEF Tunnel, Closing
    <3>2. CASE Tunnel(c) /\ pair[c] # v
      BY <3>2, <3>0, <2>2, <2>5 DEF Tunnel
    <3>3. CASE Ring(c) /\ pair[c] = v
      <4>1. e \in Live' /\ role[e] = "udp" /\ pair[e] = c /\ pair'[e] = pair[e]
        BY <3>0, <3>3, <2>2, <2>5 DEF Ring
      <4> QED
        BY <4>1, <2>0, <2>2 DEF Closing
    <3>4. CASE Ring(c) /\ pair[c] # v /\ pair[pair[c]] = v
      BY <3>0, <3>4, <2>0 DEF Ring, Closing
    <3>5. CASE Ring(c) /\ pair[c] # v /\ pair[pair[c]] # v
      <4>1. pair[c] \in Live' /\ pair[pair[c]] \in Live'
        BY <3>5, <2>2 DEF Ring
      <4>2. /\ pair'[c] = pair[c]
            /\ pair'[pair[c]] = pair[pair[c]]
            /\ pair'[pair[pair[c]]] = c
        BY <3>0, <3>5, <4>1, <2>5 DEF Ring
      <4> QED
        BY <3>5, <4>1, <4>2, <2>2 DEF Ring
    <3>6. CASE Closing(c)
      BY <3>0, <3>6, <2>0 DEF Closing
    <3> QED
      BY <3>0, <3>1, <3>2, <3>3, <3>4, <3>5, <3>6 DEF ClientsLinked
  <2>9. RemotesLinked'
    <3> SUFFICES ASSUME NEW r \in Live', role[r] = "remote"
                 PROVE  \/ pair'[r] = NULL
                        \/ r = todo'
                        \/ /\ pair'[r] \in Live' /\ role[pair'[r]] = "client"
                           /\ pair'[pair'[r]] = r
      BY <2>2 DEF RemotesLinked
    <3>0. r \in Live /\ r # v /\ r \in Slots
      BY <2>2 DEF Live
    <3>1. CASE pair[r] = NULL
      BY <3>0, <3>1, <2>0
    <3>2. CASE pair[r] = v /\ pair[v] = r
      BY <3>0, <3>2, <2>0
    <3>3. CASE pair[r] # v /\ pair[r] \in Live /\ role[pair[r]] = "client" /\ pair[pair[r]] = r
      BY <3>0, <3>3, <2>2, <2>5
    <3> QED
      BY <3>0, <3>1, <3>2, <3>3 DEF RemotesLinked
  <2> QED
    BY <2>2, <2>3, <2>6, <2>7, <2>8, <2>9
<1> QED
  BY <1>1, <1>2

\* A slot that no linked client depends on.
Loose(w) == pair[w] = NULL \/ role[w] \in {"server", "request", "delayed"}

\* While only loose slots change, every session that exists stays linked.
LEMMA Bystanders ==
  ASSUME Inv, todo = NULL,
         \A w \in Live : ~Loose(w) => /\ w \in Live'
                                     /\ pair'[w] = pair[w]
                                     /\ role'[w] = role[w]
  PROVE  /\ \A c \in Live : role[c] = "client" => (Tunnel(c) \/ Ring(c))'
         /\ \A r \in Live : role[r] = "remote" /\ pair[r] # NULL =>
              /\ pair'[r] \in Live'
              /\ role'[pair'[r]] = "client"
              /\ pair'[pair'[r]] = r
<1> USE DEF Inv
<1>1. ASSUME NEW c \in Live, role[c] = "client"
      PROVE  (Tunnel(c) \/ Ring(c))'
  <2>0. ~Closing(c)
    BY TimerAssumption DEF Closing, Live
  <2>1. CASE Tunnel(c)
    <3>1. ~Loose(c) /\ ~Loose(pair[c])
      BY <1>1, <2>1, TimerAssumption DEF Tunnel, Loose, Live
    <3> QED
      BY <1>1, <2>1, <3>1 DEF Tunnel
  <2>2. CASE Ring(c)
    <3>1. ~Loose(c) /\ ~Loose(pair[c]) /\ ~Loose(pair[pair[c]])
      BY <1>1, <2>2, TimerAssumption DEF Ring, Loose, Live
    <3> QED
      BY <1>1, <2>2, <3>1 DEF Ring
  <2> QED
    BY <1>1, <2>0, <2>1, <2>2 DEF ClientsLinked
<1>2. ASSUME NEW r \in Live, role[r] = "remote", pair[r] # NULL
      PROVE  /\ pair'[r] \in Live'
             /\ role'[pair'[r]] = "client"
             /\ pair'[pair'[r]] = r
  <2>1. pair[r] \in Live /\ role[pair[r]] = "client" /\ pair[pair[r]] = r
    BY <1>2, TimerAssumption DEF RemotesLinked, Live
  <2>2. ~Loose(r) /\ ~Loose(pair[r])
    BY <1>2, <2>1, TimerAssumption DEF Loose, Live
  <2> QED
    BY <1>2, <2>1, <2>2
<1> QED
  BY <1>1, <1>2

\* on_accept, udp_associate's first half and the failing create_conn: a slot
\* without a pair.
LEMMA AddLooseKeepsInv ==
  ASSUME Inv, Accept \/ UdpRemote \/ ConnectFault \/ (TranspFails /\ Orphan)
  PROVE  Inv'
<1> USE DEF Inv
<1>0. /\ cur # NULL /\ todo = NULL /\ cur \in Live /\ phase = "loop"
      /\ \E r \in {"request", "udp", "remote"} : add_event(New, r, role)
      /\ pair' = [pair EXCEPT ![New] = NULL]
      /\ UNCHANGED <<loopvars, now>>
      /\ cur' \in {cur, NULL} /\ todo' \in {NULL, cur, fresh} /\ fired' \in {fired, NULL}
      /\ cur' # NULL /\ todo' # NULL => todo' = fresh
      /\ fresh' \in {NULL, New}
      /\ torn' \in {torn, torn \cup {New}}
  BY DEF Accept, UdpRemote, ConnectFault, Connecting, Remote, TranspFails, Orphan, Running,
         GoesOn, ReturnErr, ControlOK, NoRawSlot
<1>1. PICK r \in {"request", "udp", "remote"} : add_event(New, r, role)
  BY <1>0
<1>2. r \in Roles /\ role \in [Slots -> Roles]
  BY DEF Roles, TypeOK
<1>3. /\ count' \in 0..Max
      /\ links' \in [Index -> Slots]
      /\ index' \in [Slots -> Index]
      /\ fd' \in [Slots -> {"raw", "open", "closed", "failed"}]
      /\ role' \in [Slots -> Roles]
      /\ mod_iter' \in [Slots -> Nat]
      /\ deadline' \in [Slots -> Nat]
      /\ stale' \subseteq batch'
      /\ New \in Slots /\ New \notin Live
      /\ Live' = Live \cup {New}
      /\ SlotsConsistent' /\ EventsFresh' /\ TimersLive'
  BY <1>0, <1>1, <1>2, AddEventKeeps DEF loopvars
<1>4. role' = [role EXCEPT ![New] = r] /\ fd' = [fd EXCEPT ![New] = "open"]
  BY <1>1 DEF add_event
<1>5. \A w \in Live : w \in Slots /\ w # New /\ pair'[w] = pair[w] /\ role'[w] = role[w]
  BY <1>0, <1>3, <1>4 DEF Live, TypeOK
<1>6. pair'[New] = NULL /\ role'[New] = r
  BY <1>0, <1>3, <1>4 DEF TypeOK
<1>7. TypeOK'
  <2>1. pair' \in [Slots -> Pointer]
    BY <1>0, <1>3 DEF TypeOK, Pointer
  <2>2. torn' \subseteq Slots
    BY <1>0, <1>3 DEF TypeOK
  <2> QED
    BY <2>1, <2>2, <1>0, <1>3 DEF TypeOK, loopvars, Pointer
<1>8. NoRawSlot'
  <2>1. \A w \in Slots : fd[w] # "raw" => fd'[w] # "raw"
    BY <1>3, <1>4 DEF TypeOK
  <2>2. \A w \in Live' : pair'[w] # NULL => fd'[pair'[w]] # "raw"
    BY <1>3, <1>5, <1>6, <2>1 DEF NoRawSlot, TypeOK, Pointer
  <2>3. todo' # NULL => fd'[todo'] # "raw"
    BY <1>0, <2>1 DEF Live, NoRawSlot
  <2> QED
    BY <1>0, <1>3, <2>2, <2>3 DEF NoRawSlot
<1>9. ControlOK'
  <2>1. fresh' # NULL => /\ cur' = cur
                         /\ \/ role[cur] = "server" /\ role'[New] = "request"
                            \/ role[cur] = "request" /\ role'[New] = "udp"
    BY <1>0, <1>3 DEF Accept, UdpRemote, ConnectFault, TranspFails, add_event, GoesOn,
                      Running, TypeOK
  <2>2. fresh' # NULL => todo' = NULL
    BY <1>0, <1>3, <2>1 DEF Accept, UdpRemote, ConnectFault, TranspFails, GoesOn
  <2>3. cur' # NULL /\ todo' # NULL =>
          todo' \in Live' /\ todo' # cur' /\ pair'[todo'] = NULL
    BY <1>0, <1>3, <1>5 DEF ControlOK, NoRawSlot
  <2> QED
    BY <2>1, <2>2, <2>3, <1>0, <1>3, <1>5, <1>6 DEF ControlOK, loopvars
<1>10. /\ \A c \in Live : role[c] = "client" => (Tunnel(c) \/ Ring(c))'
       /\ \A x \in Live : role[x] = "remote" /\ pair[x] # NULL =>
            /\ pair'[x] \in Live'
            /\ role'[pair'[x]] = "client"
            /\ pair'[pair'[x]] = x
  BY <1>0, <1>3, <1>5, Bystanders
<1>11. ClientsLinked'
  BY <1>3, <1>5, <1>6, <1>10 DEF ClientsLinked
<1>12. RemotesLinked'
  BY <1>3, <1>5, <1>6, <1>10 DEF RemotesLinked
<1> QED
  BY <1>3, <1>7, <1>8, <1>9, <1>11, <1>12

\* create_conn for a client that had no connection yet.
LEMMA ConnectKeepsInv ==
  ASSUME Inv, NEW c \in Live, cur # NULL, todo = NULL, role[c] \in {"request", "delayed"},
         Connect(c), fresh \in {NULL, c}, fresh' = NULL,
         cur' \in {cur, NULL}, UNCHANGED <<loopvars, now, todo>>,
         fired' \in {fired, NULL}
  PROVE  Inv'
<1> USE DEF Inv
<1> DEFINE rs == [role EXCEPT ![c] = "client"]
<1>0. c \in Slots /\ todo = NULL /\ cur \in Live /\ phase = "loop"
  BY DEF Live, ControlOK, NoRawSlot
<1>1. /\ add_event(New, "remote", rs)
      /\ pair' = [pair EXCEPT ![c] = New, ![New] = c]
      /\ torn' = torn \ {c}
  BY DEF Connect
<1>2. rs \in [Slots -> Roles] /\ "remote" \in Roles
  BY DEF TypeOK, Roles
<1>3. /\ count' \in 0..Max
      /\ links' \in [Index -> Slots]
      /\ index' \in [Slots -> Index]
      /\ fd' \in [Slots -> {"raw", "open", "closed", "failed"}]
      /\ role' \in [Slots -> Roles]
      /\ mod_iter' \in [Slots -> Nat]
      /\ deadline' \in [Slots -> Nat]
      /\ stale' \subseteq batch'
      /\ New \in Slots /\ New \notin Live
      /\ Live' = Live \cup {New}
      /\ SlotsConsistent' /\ EventsFresh' /\ TimersLive'
  <2> HIDE DEF rs
  <2> QED
    BY <1>1, <1>2, AddEventKeeps DEF loopvars
<1>4. role' = [rs EXCEPT ![New] = "remote"] /\ fd' = [fd EXCEPT ![New] = "open"]
  BY <1>1 DEF add_event
<1>5. \A w \in Live : w # c => /\ w \in Slots /\ w # New
                              /\ pair'[w] = pair[w] /\ role'[w] = role[w]
  BY <1>0, <1>1, <1>3, <1>4 DEF Live, TypeOK
<1>6. /\ c # New /\ pair'[c] = New /\ pair'[New] = c
      /\ role'[c] = "client" /\ role'[New] = "remote"
  BY <1>0, <1>1, <1>3, <1>4 DEF TypeOK
<1>7. TypeOK'
  <2>1. pair' \in [Slots -> Pointer]
    BY <1>0, <1>1, <1>3 DEF TypeOK, Pointer
  <2> QED
    BY <2>1, <1>0, <1>1, <1>3 DEF TypeOK, loopvars, Pointer
<1>8. NoRawSlot'
  <2>1. \A w \in Slots : fd[w] # "raw" => fd'[w] # "raw"
    BY <1>3, <1>4 DEF TypeOK
  <2>2. fd'[c] # "raw" /\ fd'[New] # "raw"
    BY <1>0, <1>3, <1>4, <2>1 DEF Live, TypeOK
  <2>3. ASSUME NEW w \in Live', pair'[w] # NULL PROVE fd'[pair'[w]] # "raw"
    <3>1. CASE w \in {c, New}
      BY <3>1, <1>6, <2>2
    <3>2. CASE w \notin {c, New}
      <4>1. w \in Live /\ w \in Slots /\ pair'[w] = pair[w]
        BY <3>2, <1>3, <1>5
      <4>2. pair[w] \in Slots /\ fd[pair[w]] # "raw"
        BY <2>3, <4>1 DEF NoRawSlot, TypeOK, Pointer
      <4> QED
        BY <4>1, <4>2, <2>1
    <3> QED
      BY <3>1, <3>2
  <2> QED
    BY <1>0, <1>3, <2>3 DEF NoRawSlot
<1>9. ControlOK'
  BY <1>0 DEF ControlOK, loopvars
<1>10. /\ \A d \in Live : role[d] = "client" => (Tunnel(d) \/ Ring(d))'
       /\ \A x \in Live : role[x] = "remote" /\ pair[x] # NULL =>
            /\ pair'[x] \in Live'
            /\ role'[pair'[x]] = "client"
            /\ pair'[pair'[x]] = x
  <2>1. Loose(c)
    BY DEF Loose
  <2> QED
    BY <1>0, <1>3, <1>5, <2>1, Bystanders
<1>11. ClientsLinked'
  <2>1. Tunnel(c)'
    BY <1>3, <1>6 DEF Tunnel
  <2> QED
    BY <1>3, <1>5, <1>6, <1>10, <2>1 DEF ClientsLinked
<1>12. RemotesLinked'
  BY <1>3, <1>5, <1>6, <1>10 DEF RemotesLinked
<1> QED
  BY <1>3, <1>7, <1>8, <1>9, <1>11, <1>12

\* A request put off: the client only changes its callback.
LEMMA PostponeKeepsInv ==
  ASSUME Inv, NEW c \in Live, cur # NULL, todo = NULL, role[c] = "request",
         Postpone(c), fresh \in {NULL, c}, fresh' = NULL,
         cur' \in {cur, NULL}, UNCHANGED <<loopvars, now, todo, pair, torn>>,
         fired' \in {fired, NULL}
  PROVE  Inv'
<1> USE DEF Inv
<1>0. c \in Slots /\ todo = NULL /\ cur \in Live /\ phase = "loop"
  BY DEF Live, ControlOK, NoRawSlot
<1>1. /\ role' = [role EXCEPT ![c] = "delayed"]
      /\ UNCHANGED <<count, links, index, fd, mod_iter, deadline, stale>>
  BY DEF Postpone
<1>2. Live' = Live
  BY <1>1 DEF Live
<1>3. TypeOK'
  BY <1>0, <1>1 DEF TypeOK, Roles, Pointer, loopvars
<1>4. SlotsConsistent' /\ EventsFresh' /\ TimersLive' /\ NoRawSlot' /\ ControlOK'
  BY <1>0, <1>1, <1>2 DEF SlotsConsistent, EventsFresh, TimersLive, Armed,
                          NoRawSlot, ControlOK, loopvars
<1>5. \A w \in Live : w # c => role'[w] = role[w] /\ w \in Slots
  BY <1>0, <1>1 DEF TypeOK, Live
<1>6. role'[c] = "delayed"
  BY <1>0, <1>1 DEF TypeOK
<1>7. /\ \A d \in Live : role[d] = "client" => (Tunnel(d) \/ Ring(d))'
      /\ \A x \in Live : role[x] = "remote" /\ pair[x] # NULL =>
           /\ pair'[x] \in Live'
           /\ role'[pair'[x]] = "client"
           /\ pair'[pair'[x]] = x
  <2>1. Loose(c)
    BY DEF Loose
  <2> QED
    BY <1>0, <1>2, <1>5, <2>1, Bystanders
<1>8. ClientsLinked'
  BY <1>2, <1>5, <1>6, <1>7 DEF ClientsLinked
<1>9. RemotesLinked'
  BY <1>0, <1>2, <1>5, <1>6, <1>7 DEF RemotesLinked
<1> QED
  BY <1>3, <1>4, <1>8, <1>9

\* udp_associate giving up the slot it has just added.
LEMMA DropKeepsInv ==
  ASSUME Inv, fresh # NULL, del_event(fresh), fresh' = NULL,
         UNCHANGED <<loopvars, now, pair>>, fired' \in {fired, NULL},
         cur' = NULL, todo' = cur
  PROVE  Inv'
<1> USE DEF Inv
<1>0. /\ fresh \in Live /\ fresh # cur /\ pair[fresh] = NULL
      /\ cur # NULL /\ cur \in Live /\ todo = NULL /\ phase = "loop"
  BY DEF ControlOK, NoRawSlot
<1>1. /\ count' \in 0..Max
      /\ links' \in [Index -> Slots]
      /\ index' \in [Slots -> Index]
      /\ fd' \in [Slots -> {"raw", "open", "closed", "failed"}]
      /\ role' = role
      /\ mod_iter' \in [Slots -> Nat]
      /\ deadline' \in [Slots -> Nat]
      /\ stale' \subseteq batch' /\ torn' = torn \ {fresh}
      /\ \A w \in Slots : fd[w] # "raw" => fd'[w] # "raw"
      /\ Live' = Live \ {fresh}
      /\ SlotsConsistent' /\ EventsFresh' /\ TimersLive'
  BY <1>0, DelEventKeeps DEF loopvars
<1>2. TypeOK'
  BY <1>0, <1>1 DEF TypeOK, Pointer, loopvars
<1>3. NoRawSlot'
  <2>1. \A w \in Live' : pair'[w] # NULL => fd'[pair'[w]] # "raw"
    BY <1>1 DEF NoRawSlot, TypeOK, Pointer, Live
  <2> QED
    BY <1>0, <1>1, <2>1 DEF NoRawSlot, Live
<1>4. ControlOK'
  BY <1>0 DEF ControlOK, loopvars
<1>5. /\ \A d \in Live : role[d] = "client" => (Tunnel(d) \/ Ring(d))'
      /\ \A x \in Live : role[x] = "remote" /\ pair[x] # NULL =>
           /\ pair'[x] \in Live'
           /\ role'[pair'[x]] = "client"
           /\ pair'[pair'[x]] = x
  <2>1. Loose(fresh)
    BY <1>0 DEF Loose
  <2> QED
    BY <1>0, <1>1, <2>1, Bystanders
<1>6. ClientsLinked'
  BY <1>1, <1>5 DEF ClientsLinked
<1>7. RemotesLinked'
  BY <1>1, <1>5 DEF RemotesLinked
<1> QED
  BY <1>1, <1>2, <1>3, <1>4, <1>6, <1>7

\* The slot in the making is left as it is: kept for on_request, to be deleted,
\* or forgotten.
LEMMA LeaveKeepsInv ==
  ASSUME Inv, fresh # NULL, fresh' = NULL, UNCHANGED <<slotvars, pair, stale, deadline>>,
         torn' \in {torn, torn \cup {fresh}},
         UNCHANGED <<loopvars, now>>, fired' \in {fired, NULL},
         \/ cur' = cur /\ todo' \in {NULL, fresh}
         \/ cur' = NULL /\ todo' = cur
  PROVE  Inv'
<1> USE DEF Inv
<1>0. /\ cur # NULL /\ cur \in Live /\ todo = NULL /\ phase = "loop"
      /\ fresh \in Live /\ fresh # cur /\ pair[fresh] = NULL
  BY DEF ControlOK, NoRawSlot
<1>1. Live' = Live /\ SlotsConsistent' /\ ClientsLinked' /\ RemotesLinked'
  BY <1>0, SameSlots
<1>2. TypeOK'
  BY <1>0 DEF TypeOK, Pointer, slotvars, loopvars, Live
<1>3. EventsFresh' /\ TimersLive'
  BY <1>0, <1>1 DEF EventsFresh, TimersLive, Armed, slotvars, loopvars
<1>4. NoRawSlot' /\ ControlOK'
  BY <1>0, <1>1 DEF NoRawSlot, ControlOK, Live, slotvars, loopvars
<1> QED
  BY <1>1, <1>2, <1>3, <1>4

\* add_event that fails writes a slot nobody uses.
LEMMA AddFailsKeepsInv ==
  ASSUME Inv, AddFails
  PROVE  Inv'
<1> USE DEF Inv
<1>0. /\ count < Max /\ cur # NULL /\ todo = NULL
      /\ index' = [index EXCEPT ![New] = count]
      /\ fd' = [fd EXCEPT ![New] = "failed"]
      /\ mod_iter' = [mod_iter EXCEPT ![New] = iters]
      /\ pair' = [pair EXCEPT ![New] = NULL]
      /\ UNCHANGED <<count, links, role, loopvars, torn, stale, fresh, deadline, now>>
      /\ UNCHANGED <<cur, todo, fired>>
  BY DEF AddFails, AddIndex, AddIter, GoesOn, Connecting, Remote, Running
<1>1. New \in Slots /\ New \notin Live /\ count \in Index
  BY <1>0, NewIsFree
<1>2. PICK n \in Slots : n = New
  BY <1>1
<1>3. Live' = Live
  BY <1>0, <1>1, <1>2 DEF Live, TypeOK
<1>4. \A w \in Slots : w # n => /\ pair'[w] = pair[w] /\ index'[w] = index[w]
                                 /\ fd'[w] = fd[w] /\ mod_iter'[w] = mod_iter[w]
  BY <1>0, <1>2 DEF TypeOK
<1>5. pair'[n] = NULL /\ fd'[n] = "failed" /\ mod_iter'[n] = iters
  BY <1>0, <1>2 DEF TypeOK
<1>6. \A w \in Live : w # n /\ w \in Slots
  BY <1>1, <1>2 DEF Live
<1>7. TypeOK'
  <2>1. /\ index' \in [Slots -> Index] /\ mod_iter' \in [Slots -> Nat]
        /\ pair' \in [Slots -> Pointer]
        /\ fd' \in [Slots -> {"raw", "open", "closed", "failed"}]
    BY <1>0, <1>1 DEF TypeOK, Pointer
  <2> QED
    BY <1>0, <2>1 DEF TypeOK, loopvars
<1>8. SlotsConsistent'
  BY <1>0, <1>3, <1>4, <1>6 DEF SlotsConsistent
<1>9. EventsFresh'
  <2>1. iters' = iters /\ batch' = batch /\ stale' = stale /\ batch \subseteq Slots
    BY <1>0 DEF loopvars, TypeOK
  <2>2. \A w \in Slots : mod_iter'[w] <= iters
    BY <1>4, <1>5 DEF EventsFresh, TypeOK
  <2>3. \A w \in batch : w \in stale <=> mod_iter'[w] = iters
    BY <1>4, <1>5, <1>6, <2>1 DEF EventsFresh
  <2> QED
    BY <1>3, <2>1, <2>2, <2>3 DEF EventsFresh
<1>10. TimersLive'
  BY <1>0, <1>3 DEF TimersLive, Armed
<1>11. NoRawSlot'
  <2>1. \A w \in Slots : fd[w] # "raw" => fd'[w] # "raw"
    BY <1>4, <1>5
  <2>2. \A w \in Live : pair'[w] = pair[w] /\ pair[w] \in Pointer
    BY <1>4, <1>6 DEF TypeOK
  <2> QED
    BY <1>0, <1>3, <2>1, <2>2 DEF NoRawSlot, Pointer
<1>12. ControlOK'
  <2>1. fresh # NULL => pair'[fresh] = pair[fresh]
    BY <1>4, <1>6 DEF NoRawSlot
  <2> QED
    BY <1>0, <2>1 DEF ControlOK, loopvars
<1>13. \A w \in Live : w \in Live' /\ pair'[w] = pair[w] /\ role'[w] = role[w]
  BY <1>0, <1>3, <1>4, <1>6
<1>14. /\ \A c \in Live : role[c] = "client" => (Tunnel(c) \/ Ring(c))'
       /\ \A x \in Live : role[x] = "remote" /\ pair[x] # NULL =>
            /\ pair'[x] \in Live'
            /\ role'[pair'[x]] = "client"
            /\ pair'[pair'[x]] = x
  BY <1>0, <1>13, Bystanders
<1>15. ClientsLinked'
  BY <1>3, <1>13, <1>14 DEF ClientsLinked
<1>16. RemotesLinked'
  BY <1>3, <1>13, <1>14 DEF RemotesLinked
<1> QED
  BY <1>7, <1>8, <1>9, <1>10, <1>11, <1>12, <1>15, <1>16

\* udp_associate closes the ring.
LEMMA RingKeepsInv ==
  ASSUME Inv, UdpClient
  PROVE  Inv'
<1> USE DEF Inv
<1> DEFINE rs == [role EXCEPT ![cur] = "client"]
<1>0. /\ cur # NULL /\ cur \in Live /\ cur \in Slots /\ role[cur] = "request"
      /\ fresh \in Live /\ fresh \in Slots /\ fresh # cur
      /\ pair[fresh] = NULL /\ role[fresh] = "udp"
      /\ todo = NULL /\ phase = "loop"
  BY DEF UdpClient, Running, ControlOK, NoRawSlot, Live
<1>1. /\ add_event(New, "udp", rs)
      /\ pair' = [pair EXCEPT ![cur] = New, ![New] = fresh, ![fresh] = cur]
      /\ fresh' = NULL /\ cur' = NULL /\ todo' \in {NULL, cur} /\ fired' = NULL
      /\ UNCHANGED <<loopvars, torn, now>>
  BY <1>0 DEF UdpClient, ReturnOk, ReturnErr
<1>2. rs \in [Slots -> Roles] /\ "udp" \in Roles
  BY DEF TypeOK, Roles
<1>3. /\ count' \in 0..Max
      /\ links' \in [Index -> Slots]
      /\ index' \in [Slots -> Index]
      /\ fd' \in [Slots -> {"raw", "open", "closed", "failed"}]
      /\ role' \in [Slots -> Roles]
      /\ mod_iter' \in [Slots -> Nat]
      /\ deadline' \in [Slots -> Nat]
      /\ stale' \subseteq batch'
      /\ New \in Slots /\ New \notin Live
      /\ Live' = Live \cup {New}
      /\ SlotsConsistent' /\ EventsFresh' /\ TimersLive'
  <2> HIDE DEF rs
  <2> QED
    BY <1>1, <1>2, AddEventKeeps DEF loopvars
<1>4. role' = [rs EXCEPT ![New] = "udp"] /\ fd' = [fd EXCEPT ![New] = "open"]
  BY <1>1 DEF add_event
<1>5. \A w \in Live : w # cur /\ w # fresh =>
        w \in Slots /\ w # New /\ pair'[w] = pair[w] /\ role'[w] = role[w]
  BY <1>0, <1>1, <1>3, <1>4 DEF Live, TypeOK
<1>6. /\ cur # New /\ fresh # New
      /\ pair'[cur] = New /\ pair'[New] = fresh /\ pair'[fresh] = cur
      /\ role'[cur] = "client" /\ role'[New] = "udp" /\ role'[fresh] = "udp"
  BY <1>0, <1>1, <1>3, <1>4 DEF TypeOK
<1>7. TypeOK'
  <2>1. pair' \in [Slots -> Pointer]
    BY <1>0, <1>1, <1>3 DEF TypeOK, Pointer
  <2> QED
    BY <2>1, <1>0, <1>1, <1>3 DEF TypeOK, loopvars, Pointer
<1>8. NoRawSlot'
  <2>1. \A w \in Slots : fd[w] # "raw" => fd'[w] # "raw"
    BY <1>3, <1>4 DEF TypeOK
  <2>2. fd'[cur] # "raw" /\ fd'[New] # "raw" /\ fd'[fresh] # "raw"
    BY <1>0, <1>3, <1>4, <2>1 DEF Live, TypeOK
  <2>3. ASSUME NEW w \in Live', pair'[w] # NULL PROVE fd'[pair'[w]] # "raw"
    <3>1. CASE w \in {cur, New, fresh}
      BY <3>1, <1>6, <2>2
    <3>2. CASE w \notin {cur, New, fresh}
      <4>1. w \in Live /\ w \in Slots /\ pair'[w] = pair[w]
        BY <3>2, <1>3, <1>5
      <4>2. pair[w] \in Slots /\ fd[pair[w]] # "raw"
        BY <2>3, <4>1 DEF NoRawSlot, TypeOK, Pointer
      <4> QED
        BY <4>1, <4>2, <2>1
    <3> QED
      BY <3>1, <3>2
  <2> QED
    BY <1>0, <1>1, <2>2, <2>3 DEF NoRawSlot
<1>9. ControlOK'
  BY <1>1 DEF ControlOK
<1>10. /\ \A d \in Live : role[d] = "client" => (Tunnel(d) \/ Ring(d))'
       /\ \A x \in Live : role[x] = "remote" /\ pair[x] # NULL =>
            /\ pair'[x] \in Live'
            /\ role'[pair'[x]] = "client"
            /\ pair'[pair'[x]] = x
  <2>1. Loose(cur) /\ Loose(fresh)
    BY <1>0 DEF Loose
  <2> QED
    BY <1>0, <1>3, <1>5, <2>1, Bystanders
<1>11. ClientsLinked'
  <2>1. ASSUME NEW c \in Live', role'[c] = "client"
        PROVE  (Tunnel(c) \/ Ring(c))'
    <3>1. CASE c = cur
      BY <3>1, <1>6, <1>3, <1>0 DEF Ring
    <3>2. CASE c # cur
      <4>1. c \in Live /\ role[c] = "client"
        BY <3>2, <2>1, <1>3, <1>5, <1>6
      <4> QED
        BY <4>1, <1>10
    <3> QED
      BY <3>1, <3>2
  <2> QED
    BY <2>1 DEF ClientsLinked
<1>12. RemotesLinked'
  BY <1>3, <1>5, <1>6, <1>10 DEF RemotesLinked
<1> QED
  BY <1>3, <1>7, <1>8, <1>9, <1>11, <1>12

\* The remote slot of a tunnel callback, and the client at its other end.
LEMMA RemoteLinked ==
  ASSUME Inv, NEW r \in Slots, Remote(r)
  PROVE  /\ cur # NULL /\ cur \in Live /\ todo = NULL /\ fresh = NULL /\ phase = "loop"
         /\ r \in Live /\ role[r] = "remote"
         /\ pair[r] \in Live /\ role[pair[r]] = "client" /\ pair[pair[r]] = r
<1> USE DEF Inv
<1>1. /\ cur # NULL /\ cur \in Live /\ todo = NULL /\ phase = "loop"
      /\ role[cur] \in {"client", "remote"} /\ role[r] = "remote" /\ pair[r] # NULL
  BY DEF Remote, Running, ControlOK, NoRawSlot
<1>2. fresh = NULL
  BY <1>1 DEF ControlOK
<1>3. r \in Live
  <2>1. CASE role[cur] = "remote"
    BY <1>1, <2>1 DEF Remote
  <2>2. CASE role[cur] = "client"
    <3>1. r = pair[cur] /\ ~Closing(cur)
      BY <1>1, <2>2, TimerAssumption DEF Remote, Closing, Live
    <3> QED
      BY <1>1, <2>2, <3>1 DEF ClientsLinked, Tunnel, Ring
  <2> QED
    BY <1>1, <2>1, <2>2
<1>4. pair[r] \in Live /\ role[pair[r]] = "client" /\ pair[pair[r]] = r
  BY <1>1, <1>3, TimerAssumption DEF RemotesLinked, Live
<1> QED
  BY <1>1, <1>2, <1>3, <1>4

\* A client of another session has nothing to do with r or its client.
LEMMA OtherSession ==
  ASSUME Inv, todo = NULL, NEW r \in Live, role[r] = "remote",
         pair[r] \in Live, role[pair[r]] = "client", pair[pair[r]] = r,
         NEW d \in Live, role[d] = "client", d # pair[r]
  PROVE  /\ Tunnel(d) \/ Ring(d)
         /\ pair[d] # r /\ pair[d] # pair[r]
         /\ Ring(d) => pair[pair[d]] # r /\ pair[pair[d]] # pair[r]
<1>1. Tunnel(d) \/ Ring(d)
  BY TimerAssumption DEF Inv, ClientsLinked, Closing, Live
<1>2. CASE Tunnel(d)
  BY <1>2 DEF Tunnel, Ring
<1>3. CASE Ring(d)
  BY <1>3 DEF Ring
<1> QED
  BY <1>1, <1>2, <1>3

\* reconnect: the client changes over to the new slot, and the old one is
\* left for del_event with no pair to follow.
LEMMA ReconnectKeepsInv ==
  ASSUME Inv, NEW r \in Slots, Reconnect(r)
  PROVE  Inv'
<1> USE DEF Inv
<1> DEFINE c == pair[r]
<1>0. /\ cur # NULL /\ cur \in Live /\ todo = NULL /\ fresh = NULL /\ phase = "loop"
      /\ r \in Live /\ role[r] = "remote"
      /\ c \in Live /\ role[c] = "client" /\ pair[c] = r
      /\ c \in Slots /\ c # r
  BY RemoteLinked DEF Reconnect, Live
<1>1. /\ add_event(New, "remote", role)
      /\ pair' = [pair EXCEPT ![c] = New, ![New] = c, ![r] = NULL]
      /\ cur' = NULL /\ fired' = NULL /\ todo' = r
      /\ UNCHANGED <<loopvars, torn, fresh, now>>
  BY DEF Reconnect, Abandon
<1>2. role \in [Slots -> Roles] /\ "remote" \in Roles
  BY DEF TypeOK, Roles
<1>3. /\ count' \in 0..Max
      /\ links' \in [Index -> Slots]
      /\ index' \in [Slots -> Index]
      /\ fd' \in [Slots -> {"raw", "open", "closed", "failed"}]
      /\ role' \in [Slots -> Roles]
      /\ mod_iter' \in [Slots -> Nat]
      /\ deadline' \in [Slots -> Nat]
      /\ stale' \subseteq batch'
      /\ New \in Slots /\ New \notin Live
      /\ Live' = Live \cup {New}
      /\ SlotsConsistent' /\ EventsFresh' /\ TimersLive'
  BY <1>1, <1>2, AddEventKeeps DEF loopvars
<1>4. role' = [role EXCEPT ![New] = "remote"] /\ fd' = [fd EXCEPT ![New] = "open"]
  BY <1>1 DEF add_event
<1> HIDE DEF c
<1>5. \A w \in Live : /\ w \in Slots /\ w # New /\ role'[w] = role[w]
                      /\ (w # c /\ w # r) => pair'[w] = pair[w]
  BY <1>0, <1>1, <1>3, <1>4 DEF Live, TypeOK
<1>6. /\ c # New /\ r # New
      /\ pair'[c] = New /\ pair'[New] = c /\ pair'[r] = NULL
      /\ role'[New] = "remote" /\ role'[c] = "client"
  BY <1>0, <1>1, <1>3, <1>4 DEF TypeOK
<1>7. TypeOK'
  <2>1. pair' \in [Slots -> Pointer]
    BY <1>0, <1>1, <1>3 DEF TypeOK, Pointer
  <2> QED
    BY <2>1, <1>0, <1>1, <1>3 DEF TypeOK, loopvars, Pointer
<1>8. NoRawSlot'
  <2>1. \A w \in Slots : fd[w] # "raw" => fd'[w] # "raw"
    BY <1>3, <1>4 DEF TypeOK
  <2>2. fd'[c] # "raw" /\ fd'[New] # "raw" /\ fd'[r] # "raw"
    BY <1>0, <1>3, <1>4, <2>1 DEF Live, TypeOK
  <2>3. ASSUME NEW w \in Live', pair'[w] # NULL PROVE fd'[pair'[w]] # "raw"
    <3>1. CASE w \in {c, New, r}
      BY <2>3, <3>1, <1>6, <2>2
    <3>2. CASE w \notin {c, New, r}
      <4>1. w \in Live /\ w \in Slots /\ pair'[w] = pair[w]
        BY <3>2, <1>3, <1>5
      <4>2. pair[w] \in Slots /\ fd[pair[w]] # "raw"
        BY <2>3, <4>1 DEF NoRawSlot, TypeOK, Pointer
      <4> QED
        BY <4>1, <4>2, <2>1
    <3> QED
      BY <3>1, <3>2
  <2> QED
    BY <1>0, <1>1, <2>2, <2>3 DEF NoRawSlot
<1>9. ControlOK'
  BY <1>0, <1>1 DEF ControlOK
<1>10. ClientsLinked'
  <2> SUFFICES ASSUME NEW d \in Live', role'[d] = "client"
               PROVE  (Tunnel(d) \/ Ring(d))'
    BY DEF ClientsLinked
  <2>1. CASE d = c
    BY <2>1, <1>3, <1>6 DEF Tunnel
  <2>2. CASE d # c
    <3>1. d \in Live /\ role[d] = "client" /\ d # r /\ d # New
      BY <2>2, <1>0, <1>3, <1>5, <1>6
    <3>2. /\ Tunnel(d) \/ Ring(d)
          /\ pair[d] # r /\ pair[d] # c
          /\ Ring(d) => pair[pair[d]] # r /\ pair[pair[d]] # c
      BY <2>2, <3>1, <1>0, OtherSession DEF c
    <3>3. CASE Tunnel(d)
      <4>1. pair[d] \in Live /\ pair'[d] = pair[d] /\ pair'[pair[d]] = d
        BY <2>2, <3>1, <3>2, <3>3, <1>5 DEF Tunnel
      <4> QED
        BY <4>1, <3>3, <1>3, <1>5 DEF Tunnel
    <3>4. CASE Ring(d)
      <4>1. /\ pair[d] \in Live /\ pair[pair[d]] \in Live
            /\ pair'[d] = pair[d] /\ pair'[pair[d]] = pair[pair[d]]
            /\ pair'[pair[pair[d]]] = d
        BY <2>2, <3>1, <3>2, <3>4, <1>5 DEF Ring
      <4> QED
        BY <4>1, <3>4, <1>3, <1>5 DEF Ring
    <3> QED
      BY <3>2, <3>3, <3>4
  <2> QED
    BY <2>1, <2>2
<1>11. RemotesLinked'
  <2> SUFFICES ASSUME NEW x \in Live', role'[x] = "remote", x # r, pair'[x] # NULL
               PROVE  /\ pair'[x] \in Live' /\ role'[pair'[x]] = "client"
                      /\ pair'[pair'[x]] = x
    BY <1>1 DEF RemotesLinked
  <2>1. CASE x = New
    BY <2>1, <1>0, <1>3, <1>6
  <2>2. CASE x # New
    <3>1. x \in Live /\ x # c /\ role[x] = "remote" /\ pair'[x] = pair[x]
      BY <2>2, <1>0, <1>3, <1>5
    <3>2. pair[x] \in Live /\ role[pair[x]] = "client" /\ pair[pair[x]] = x
      BY <3>1, <1>0, TimerAssumption DEF RemotesLinked, Live
    <3>3. pair[x] # c /\ pair[x] # r
      BY <3>1, <3>2, <1>0
    <3> QED
      BY <3>1, <3>2, <3>3, <1>3, <1>5
  <2> QED
    BY <2>1, <2>2
<1> QED
  BY <1>3, <1>7, <1>8, <1>9, <1>10, <1>11

\* reconnect put off: the client is sent back to waiting for data.
LEMMA ReconnectLaterKeepsInv ==
  ASSUME Inv, NEW r \in Slots, ReconnectLater(r)
  PROVE  Inv'
<1> USE DEF Inv
<1> DEFINE c == pair[r]
<1>0. /\ cur # NULL /\ cur \in Live /\ todo = NULL /\ fresh = NULL /\ phase = "loop"
      /\ r \in Live /\ role[r] = "remote"
      /\ c \in Live /\ role[c] = "client" /\ pair[c] = r
      /\ c \in Slots /\ c # r
  BY RemoteLinked DEF ReconnectLater, Live
<1>1. /\ role' = [role EXCEPT ![c] = "delayed"]
      /\ UNCHANGED <<count, links, index, fd, mod_iter, deadline, stale>>
      /\ pair' = [pair EXCEPT ![r] = NULL]
      /\ torn' = torn \cup {c}
      /\ cur' = NULL /\ fired' = NULL /\ todo' = r
      /\ UNCHANGED <<loopvars, fresh, now>>
  BY DEF ReconnectLater, Abandon, Postpone
<1> HIDE DEF c
<1>2. Live' = Live
  BY <1>1 DEF Live
<1>3. TypeOK'
  BY <1>0, <1>1 DEF TypeOK, Roles, Pointer, loopvars
<1>4. SlotsConsistent' /\ EventsFresh' /\ TimersLive'
  BY <1>1, <1>2 DEF SlotsConsistent, EventsFresh, TimersLive, Armed, loopvars
<1>5. \A w \in Live : /\ w \in Slots
                      /\ w # c => role'[w] = role[w]
                      /\ w # r => pair'[w] = pair[w]
  BY <1>0, <1>1 DEF TypeOK, Live
<1>6. pair'[r] = NULL /\ role'[c] = "delayed"
  BY <1>0, <1>1 DEF TypeOK
<1>7. NoRawSlot' /\ ControlOK'
  <2>1. \A w \in Live' : pair'[w] # NULL => fd'[pair'[w]] # "raw"
    BY <1>1, <1>2, <1>5, <1>6 DEF NoRawSlot
  <2> QED
    BY <1>0, <1>1, <1>2, <2>1 DEF NoRawSlot, ControlOK, Live
<1>8. ClientsLinked'
  <2> SUFFICES ASSUME NEW d \in Live, role'[d] = "client"
               PROVE  (Tunnel(d) \/ Ring(d))'
    BY <1>2 DEF ClientsLinked
  <2>1. d # c /\ role[d] = "client" /\ d # r
    BY <1>0, <1>5, <1>6
  <2>2. /\ Tunnel(d) \/ Ring(d)
        /\ pair[d] # r /\ pair[d] # c
        /\ Ring(d) => pair[pair[d]] # r /\ pair[pair[d]] # c
    BY <2>1, <1>0, OtherSession DEF c
  <2>3. CASE Tunnel(d)
    BY <2>1, <2>2, <2>3, <1>2, <1>5 DEF Tunnel
  <2>4. CASE Ring(d)
    BY <2>1, <2>2, <2>4, <1>2, <1>5 DEF Ring
  <2> QED
    BY <2>2, <2>3, <2>4
<1>9. RemotesLinked'
  <2> SUFFICES ASSUME NEW x \in Live, role'[x] = "remote", x # r, pair'[x] # NULL
               PROVE  /\ pair'[x] \in Live /\ role'[pair'[x]] = "client"
                      /\ pair'[pair'[x]] = x
    BY <1>1, <1>2 DEF RemotesLinked
  <2>1. x # c /\ role[x] = "remote" /\ pair'[x] = pair[x]
    BY <1>5, <1>6
  <2>2. pair[x] \in Live /\ role[pair[x]] = "client" /\ pair[pair[x]] = x
    BY <2>1, <1>0, TimerAssumption DEF RemotesLinked, Live
  <2>3. pair[x] # c /\ pair[x] # r
    BY <2>1, <2>2, <1>0
  <2> QED
    BY <2>1, <2>2, <2>3, <1>5
<1> QED
  BY <1>3, <1>4, <1>7, <1>8, <1>9

-----------------------------------------------------------------------------
(* The invariant holds                                                     *)

\* Every step of the event loop and of the callbacks preserves Inv.
LEMMA NextInv == Inv /\ [Next]_vars => Inv'
<1> SUFFICES ASSUME Inv, [Next]_vars PROVE Inv'
  OBVIOUS
<1>1. CASE \/ Loop \/ (\E v \in Slots : Interrupted(v)) \/ Stop
           \/ Return \/ Crash \/ AcceptFails \/ Tick
           \/ \E r \in Slots : RemoveTimer(r)
           \/ \E r \in Slots, d \in Delays : SetTimer(r, d)
  BY <1>1, LoopKeepsInv
<1>2. CASE DelStep
  BY <1>2, DelStepKeepsInv
<1>3. CASE Accept \/ UdpRemote \/ ConnectFault
  BY <1>3, AddLooseKeepsInv
<1>4. CASE Request
  <2>1. /\ cur \in Live /\ cur # NULL /\ role[cur] \in {"request", "delayed"}
        /\ Connect(cur) /\ fresh \in {NULL, cur} /\ fresh' = NULL
        /\ cur' \in {cur, NULL} /\ fired' \in {fired, NULL} /\ todo = NULL
        /\ UNCHANGED <<loopvars, now, todo>>
    BY <1>4 DEF Inv, Request, Running, ReturnOk, NoRawSlot
  <2> QED
    BY <2>1, ConnectKeepsInv
<1>5. CASE RequestLater
  <2>1. /\ cur \in Live /\ cur # NULL /\ role[cur] = "request"
        /\ Postpone(cur) /\ fresh \in {NULL, cur} /\ fresh' = NULL
        /\ cur' \in {cur, NULL} /\ fired' \in {fired, NULL} /\ todo = NULL
        /\ UNCHANGED <<loopvars, now, todo, pair, torn>>
    BY <1>5 DEF Inv, RequestLater, Running, ReturnOk, NoRawSlot
  <2> QED
    BY <2>1, PostponeKeepsInv
<1>6. CASE TranspConn
  <2>1. /\ fresh \in Live /\ cur # NULL /\ role[fresh] = "request" /\ fresh # NULL
        /\ fresh' = NULL /\ cur' = cur /\ fired' = fired /\ todo' = todo /\ todo = NULL
        /\ UNCHANGED <<loopvars, now>>
    BY <1>6 DEF Inv, TranspConn, Running, GoesOn, NoRawSlot, ControlOK
  <2>2. CASE Connect(fresh)
    BY <2>1, <2>2, ConnectKeepsInv
  <2>3. CASE Postpone(fresh) /\ UNCHANGED <<pair, torn>>
    BY <2>1, <2>3, PostponeKeepsInv
  <2> QED
    BY <1>6, <2>2, <2>3 DEF TranspConn
<1>11. CASE TranspFails
  <2>1. CASE Orphan
    BY <1>11, <2>1, AddLooseKeepsInv
  <2>2. CASE UNCHANGED <<slotvars, pair, torn, stale, deadline>>
    <3>1. /\ fresh # NULL /\ fresh' = NULL /\ cur' = cur /\ fired' = fired
          /\ todo' \in {NULL, fresh} /\ UNCHANGED <<loopvars, now>>
      BY <1>11 DEF TranspFails
    <3> QED
      BY <2>2, <3>1, LeaveKeepsInv
  <2> QED
    BY <1>11, <2>1, <2>2 DEF TranspFails
<1>12. CASE AddFails
  BY <1>12, AddFailsKeepsInv
<1>7. CASE UdpClient
  BY <1>7, RingKeepsInv
<1>8. CASE UdpFails
  BY <1>8, DropKeepsInv, LeaveKeepsInv DEF UdpFails, ReturnErr
<1>9. CASE \E r \in Slots : Reconnect(r) \/ ReconnectLater(r)
  BY <1>9, ReconnectKeepsInv, ReconnectLaterKeepsInv
<1>10. CASE UNCHANGED vars
  <2>1. UNCHANGED <<slotvars, pair, torn, todo, loopvars, stale, cur, fresh, tqvars>>
    BY <1>10 DEF vars
  <2>2. Live' = Live /\ SlotsConsistent' /\ ClientsLinked' /\ RemotesLinked'
    BY <2>1, SameSlots
  <2> QED
    BY <2>1, <2>2 DEF Inv, TypeOK, EventsFresh, TimersLive, Armed, NoRawSlot,
                      ControlOK, slotvars, loopvars, tqvars
<1> QED
  BY <1>1, <1>2, <1>3, <1>4, <1>5, <1>6, <1>7, <1>8, <1>9, <1>10, <1>11, <1>12
  DEF Next, Callback

\* The pool's inductive invariant.
THEOREM PoolInvariant == Spec => []Inv
<1>1. Init => Inv
  BY InitInv
<1>2. Inv /\ [Next]_vars => Inv'
  BY NextInv
<1> QED
  BY <1>1, <1>2, PTL DEF Spec

\* The pool's variables keep their types: count stays within the pool, and
\* indices and pointers never leave it, also when del_event has emptied it.
THEOREM PoolTypes == Spec => []TypeOK
<1>1. Inv => TypeOK
  BY DEF Inv
<1> QED
  BY <1>1, PoolInvariant, PTL

(***************************************************************************)
(* conev.c's slots, links and indices always agree: add_event never hands  *)
(* out a slot in use and del_event never closes another slot than its own. *)
(***************************************************************************)
THEOREM PoolSlotsConsistent == Spec => []SlotsConsistent
<1>1. Inv => SlotsConsistent
  BY DEF Inv
<1> QED
  BY <1>1, PoolInvariant, PTL

(***************************************************************************)
(* next_event's test of mod_iter is exact, for any pattern of deletions    *)
(* and reuse between the events of one epoll_wait.                         *)
(***************************************************************************)
THEOREM PoolEventsFresh == Spec => []EventsFresh
<1>1. Inv => EventsFresh
  BY DEF Inv
<1> QED
  BY <1>1, PoolInvariant, PTL

\* init_pool clears only the first slot, yet no callback and no del_event ever
\* looks at one that add_event has not initialised.
THEOREM PoolNoRawSlot == Spec => []NoRawSlot
<1>1. Inv => NoRawSlot
  BY DEF Inv
<1> QED
  BY <1>1, PoolInvariant, PTL

\* A slot in the timer queue is live: del_event's remove_timer is enough, and
\* add_event's memset never hits a queued slot.
THEOREM PoolTimersLive == Spec => []TimersLive
<1>1. Inv => TimersLive
  BY DEF Inv
<1> QED
  BY <1>1, PoolInvariant, PTL
=============================================================================
