----------------------- MODULE EventPoolSessionProofs -----------------------
(***************************************************************************)
(* More about EventPool: every slot is linked with its session but for the *)
(* ones a failed call or a reconnect put off has torn, so that without     *)
(* these sessions are whole between callbacks; and time-outs, early ones   *)
(* included, are only reported for the remote slots of live tunnels.       *)
(***************************************************************************)
EXTENDS EventPoolProofs

-----------------------------------------------------------------------------
(* Sessions                                                                *)

\* Slot v is one of the two that udp_associate made for some client.
InRing(v) == \E c \in Live : Ring(c) /\ v \in {pair[c], pair[pair[c]]}

\* A UDP slot belongs to an association, is being made, or del_event is on its
\* way to it.
Kept(v) ==
  \/ v = fresh
  \/ v = todo
  \/ todo \in Live /\ pair[todo] = v
  \/ InRing(v)

\* What the history says of the slots that are torn.
TornInv ==
  /\ torn \subseteq Live
  /\ fresh \notin torn
  /\ torn # {} => Faults \/ DelayConn
  /\ \A v \in torn : role[v] = "delayed" \/ (role[v] \in {"remote", "udp"} /\ pair[v] = NULL)

(***************************************************************************)
(* SlotsLinked at every step, beyond what Inv says of clients and of       *)
(* remote slots: in the middle of a callback a slot may be in the making,  *)
(* and in the middle of del_event's walk a session is cut short, but the   *)
(* walk still has its last slots ahead.                                    *)
(***************************************************************************)
Whole ==
  /\ TornInv
  /\ \A v \in Live \ torn :
       /\ role[v] \in {"server", "request", "delayed"} => pair[v] = NULL
       /\ role[v] = "remote" /\ pair[v] = NULL => v = todo
       /\ role[v] = "udp" => Kept(v)

\* The members of a ring are no loose slots.
LEMMA RingNotLoose ==
  ASSUME NEW c \in Live, Ring(c)
  PROVE  ~Loose(c) /\ ~Loose(pair[c]) /\ ~Loose(pair[pair[c]])
<1>1. c # NULL /\ pair[c] # NULL /\ pair[pair[c]] # NULL
  BY TimerAssumption DEF Ring, Live
<1> QED
  BY <1>1 DEF Ring, Loose

\* While only loose slots change, rings stay.
LEMMA RingsStay ==
  ASSUME \A w \in Live : ~Loose(w) => /\ w \in Live'
                                     /\ pair'[w] = pair[w]
                                     /\ role'[w] = role[w]
  PROVE  \A v \in Live : InRing(v) => InRing(v)'
<1> SUFFICES ASSUME NEW v \in Live, NEW c \in Live, Ring(c), v \in {pair[c], pair[pair[c]]}
             PROVE  InRing(v)'
  BY DEF InRing
<1>1. ~Loose(c) /\ ~Loose(pair[c]) /\ ~Loose(pair[pair[c]])
  BY RingNotLoose
<1>2. c \in Live' /\ Ring(c)' /\ v \in {pair[c], pair[pair[c]]}'
  BY <1>1 DEF Ring
<1> QED
  BY <1>2 DEF InRing

\* Steps that leave the slots alone and start at most one deletion; one that
\* forgets a slot in the making makes it torn.
LEMMA WholeSame ==
  ASSUME Inv, Whole, UNCHANGED <<slotvars, pair>>, todo = NULL \/ todo' = todo,
         \/ torn' = torn /\ fresh' = fresh
         \/ torn' = torn /\ fresh' = NULL /\ role[fresh] # "udp"
         \/ /\ torn' = torn \cup {fresh} /\ fresh' = NULL /\ Faults
            /\ fresh # NULL /\ role[fresh] = "udp"
  PROVE  Whole'
<1>1. Live' = Live /\ UNCHANGED <<role, pair>>
  BY DEF Live, slotvars
<1>2. \A v \in Live : InRing(v) => InRing(v)'
  BY <1>1, RingsStay
<1>3. NULL \notin Live
  BY TimerAssumption DEF Live
<1>4. fresh # NULL => fresh \in Live /\ pair[fresh] = NULL
  BY DEF Inv, NoRawSlot, ControlOK
<1>5. TornInv'
  BY <1>1, <1>3, <1>4 DEF Whole, TornInv
<1>6. torn \subseteq torn'
  OBVIOUS
<1>7. ASSUME NEW v \in Live, v \notin torn', role[v] = "udp" PROVE Kept(v)'
  BY <1>1, <1>2, <1>3, <1>6, <1>7 DEF Whole, Kept
<1> QED
  BY <1>1, <1>3, <1>5, <1>6, <1>7 DEF Whole

\* One slot more, without a pair: in the making, or torn from the start.
LEMMA WholeAdd ==
  ASSUME Inv, Whole, Accept \/ UdpRemote \/ ConnectFault \/ (TranspFails /\ Orphan)
  PROVE  Whole'
<1>0. /\ cur # NULL /\ todo = NULL
      /\ fresh = NULL \/ role[fresh] = "request"
      /\ UNCHANGED <<iters, batch>>
      /\ pair' = [pair EXCEPT ![New] = NULL]
  BY DEF Accept, UdpRemote, ConnectFault, TranspFails, Orphan, Connecting, Remote, Running,
         Inv, ControlOK, loopvars
<1>1. \E r \in {"request", "udp", "remote"} :
        /\ add_event(New, r, role)
        /\ \/ torn' = torn /\ r # "remote" /\ (r = "udp" => fresh' = New) /\ fresh' \in {NULL, New}
           \/ torn' = torn \cup {New} /\ Faults /\ r = "remote" /\ fresh' = NULL
  BY DEF Accept, UdpRemote, ConnectFault, TranspFails, Orphan
<1>2. PICK r \in {"request", "udp", "remote"} :
        /\ add_event(New, r, role)
        /\ \/ torn' = torn /\ r # "remote" /\ (r = "udp" => fresh' = New) /\ fresh' \in {NULL, New}
           \/ torn' = torn \cup {New} /\ Faults /\ r = "remote" /\ fresh' = NULL
  BY <1>1
<1>3. New \in Slots /\ New \notin Live /\ Live' = Live \cup {New}
  BY <1>0, <1>2, AddEventKeeps DEF Inv, TypeOK, Roles
<1>4. \A w \in Live : w # New /\ pair'[w] = pair[w] /\ role'[w] = role[w]
  BY <1>0, <1>2, <1>3 DEF add_event, Inv, TypeOK, Live
<1>5. pair'[New] = NULL /\ role'[New] = r
  BY <1>0, <1>2, <1>3 DEF add_event, Inv, TypeOK
<1>6. \A v \in Live : InRing(v) => InRing(v)'
  BY <1>3, <1>4, RingsStay
<1>7. NULL \notin Live
  BY TimerAssumption DEF Live
<1>8. New \notin torn /\ New # NULL
  BY <1>3, TimerAssumption DEF Whole, TornInv
<1>9. TornInv'
  <2>1. torn \subseteq Live
    BY DEF Whole, TornInv
  <2>2. torn' \subseteq Live' /\ (torn' # {} => Faults \/ DelayConn)
    BY <1>2, <1>3, <2>1 DEF Whole, TornInv
  <2>3. fresh' \notin torn'
    BY <1>2, <1>3, <1>7, <1>8, <2>1
  <2>4. \A v \in torn : role'[v] = "delayed" \/ (role'[v] \in {"remote", "udp"} /\ pair'[v] = NULL)
    BY <1>4, <2>1 DEF Whole, TornInv
  <2>5. \A v \in torn' : role'[v] = "delayed" \/ (role'[v] \in {"remote", "udp"} /\ pair'[v] = NULL)
    BY <1>2, <1>5, <2>4
  <2> QED
    BY <2>2, <2>3, <2>5 DEF TornInv
<1>10. \A v \in Live' \ torn' : v = New \/ (v \in Live \ torn)
  BY <1>2, <1>3
<1>11. ASSUME NEW v \in Live' \ torn', role'[v] = "udp" PROVE Kept(v)'
  <2>1. CASE v = New
    BY <1>2, <1>5, <1>11, <2>1 DEF Kept
  <2>2. CASE v \in Live \ torn
    <3>1. role[v] = "udp" /\ v # fresh
      BY <1>0, <1>4, <1>7, <1>11, <2>2
    <3> QED
      BY <1>0, <1>6, <1>7, <2>2, <3>1 DEF Whole, Kept
  <2> QED
    BY <1>10, <2>1, <2>2
<1>12. ASSUME NEW v \in Live' \ torn'
       PROVE  /\ role'[v] \in {"server", "request", "delayed"} => pair'[v] = NULL
              /\ role'[v] = "remote" /\ pair'[v] = NULL => v = todo'
  <2>1. CASE v = New
    BY <1>2, <1>5, <1>12, <2>1
  <2>2. CASE v \in Live \ torn
    BY <1>0, <1>4, <1>7, <2>2 DEF Whole
  <2> QED
    BY <1>10, <2>1, <2>2
<1> QED
  BY <1>9, <1>11, <1>12 DEF Whole

\* add_event failing touches no live slot.
LEMMA WholeAddFails ==
  ASSUME Inv, Whole, AddFails
  PROVE  Whole'
<1>0. /\ count < Max /\ todo' = todo
      /\ fd' = [fd EXCEPT ![New] = "failed"]
      /\ pair' = [pair EXCEPT ![New] = NULL]
      /\ UNCHANGED <<role, torn, fresh>>
  BY DEF AddFails, GoesOn
<1>1. New \in Slots /\ New \notin Live
  BY <1>0, NewIsFree DEF Inv
<1>2. Live' = Live /\ \A w \in Live : pair'[w] = pair[w] /\ role'[w] = role[w]
  BY <1>0, <1>1 DEF Live, Inv, TypeOK
<1>3. \A v \in Live : InRing(v) => InRing(v)'
  BY <1>2, RingsStay
<1>4. TornInv'
  BY <1>0, <1>2 DEF Whole, TornInv
<1>5. ASSUME NEW v \in Live, v \notin torn, role[v] = "udp" PROVE Kept(v)'
  BY <1>0, <1>2, <1>3, <1>5 DEF Whole, Kept
<1> QED
  BY <1>0, <1>2, <1>4, <1>5 DEF Whole

\* create_conn for a client without a connection, or put off by reconnect.
LEMMA WholeConnect ==
  ASSUME Inv, Whole, todo = NULL, NEW c \in Live, role[c] \in {"request", "delayed"},
         Connect(c), fresh \in {NULL, c}, fresh' = NULL, UNCHANGED <<iters, batch, todo>>
  PROVE  Whole'
<1>0. c \in Slots /\ c # NULL
  BY TimerAssumption DEF Live
<1> DEFINE rs == [role EXCEPT ![c] = "client"]
<1>1. rs \in [Slots -> Roles] /\ "remote" \in Roles
  BY DEF Inv, TypeOK, Roles
<1>2. /\ add_event(New, "remote", rs) /\ pair' = [pair EXCEPT ![c] = New, ![New] = c]
      /\ torn' = torn \ {c}
  BY DEF Connect
<1>3. New \in Slots /\ New \notin Live /\ Live' = Live \cup {New}
  <2> HIDE DEF rs
  <2> QED
    BY <1>1, <1>2, AddEventKeeps DEF Inv
<1>4. \A w \in Live : w # New /\ (w # c => pair'[w] = pair[w] /\ role'[w] = role[w])
  BY <1>0, <1>2, <1>3 DEF add_event, Inv, TypeOK, Live
<1>5. /\ pair'[New] = c /\ role'[New] = "remote" /\ role'[c] = "client"
      /\ c # New
  BY <1>0, <1>2, <1>3 DEF add_event, Inv, TypeOK
<1>6. Loose(c)
  BY DEF Loose
<1>7. \A v \in Live : InRing(v) => InRing(v)'
  BY <1>3, <1>4, <1>6, RingsStay
<1>8. NULL \notin Live
  BY TimerAssumption DEF Live
<1>9. TornInv'
  BY <1>2, <1>3, <1>4, <1>8 DEF Whole, TornInv
<1>10. \A v \in Live' \ torn' : v = New \/ v = c \/ (v \in Live \ torn /\ v # c)
  BY <1>2, <1>3
<1>11. ASSUME NEW v \in Live' \ torn', role'[v] = "udp" PROVE Kept(v)'
  <2>1. v \in Live \ torn /\ v # c /\ role[v] = "udp"
    BY <1>4, <1>5, <1>10, <1>11
  <2> QED
    BY <1>7, <1>8, <2>1 DEF Whole, Kept
<1>12. ASSUME NEW v \in Live' \ torn'
       PROVE  /\ role'[v] \in {"server", "request", "delayed"} => pair'[v] = NULL
              /\ role'[v] = "remote" /\ pair'[v] = NULL => v = todo'
  BY <1>0, <1>4, <1>5, <1>10 DEF Whole
<1> QED
  BY <1>9, <1>11, <1>12 DEF Whole

\* A request put off has no pair.
LEMMA WholePostpone ==
  ASSUME Inv, Whole, NEW c \in Live, role[c] = "request", Postpone(c),
         fresh \in {NULL, c}, fresh' = NULL, UNCHANGED <<pair, torn, todo>>
  PROVE  Whole'
<1>0. c \in Slots /\ c \notin torn
  BY DEF Live, Whole, TornInv
<1>1. role' = [role EXCEPT ![c] = "delayed"] /\ Live' = Live
  BY DEF Postpone, Live
<1>2. role'[c] = "delayed" /\ \A w \in Live : w # c => role'[w] = role[w]
  BY <1>0, <1>1 DEF Inv, TypeOK, Live
<1>3. \A v \in Live : InRing(v) => InRing(v)'
  BY <1>1, <1>2, RingsStay DEF Loose
<1>4. NULL \notin Live
  BY TimerAssumption DEF Live
<1>5. TornInv'
  BY <1>0, <1>1, <1>2, <1>4 DEF Whole, TornInv
<1>6. ASSUME NEW v \in Live \ torn, role'[v] = "udp" PROVE Kept(v)'
  <2>1. v # c /\ role[v] = "udp"
    BY <1>2, <1>6
  <2> QED
    BY <1>1, <1>3, <1>4, <2>1 DEF Whole, Kept
<1>7. ASSUME NEW v \in Live \ torn
      PROVE  /\ role'[v] \in {"server", "request", "delayed"} => pair'[v] = NULL
             /\ role'[v] = "remote" /\ pair'[v] = NULL => v = todo'
  BY <1>2 DEF Whole
<1> QED
  BY <1>1, <1>5, <1>6, <1>7 DEF Whole

\* The slot in the making is given up.
LEMMA WholeDrop ==
  ASSUME Inv, Whole, fresh # NULL, del_event(fresh), fresh' = NULL,
         UNCHANGED <<iters, batch, pair>>
  PROVE  Whole'
<1>0. fresh \in Live /\ pair[fresh] = NULL /\ todo = NULL
  BY DEF Inv, ControlOK, NoRawSlot
<1>1. role' = role /\ Live' = Live \ {fresh} /\ torn' = torn \ {fresh}
  BY <1>0, DelEventKeeps DEF Inv
<1>2. Loose(fresh)
  BY <1>0 DEF Loose
<1>3. \A v \in Live : InRing(v) => InRing(v)'
  BY <1>1, <1>2, RingsStay
<1>4. NULL \notin Live
  BY TimerAssumption DEF Live
<1>5. TornInv'
  BY <1>1, <1>4 DEF Whole, TornInv
<1>6. ASSUME NEW v \in Live' \ torn', role'[v] = "udp" PROVE Kept(v)'
  BY <1>0, <1>1, <1>3, <1>4, <1>6 DEF Whole, Kept
<1> QED
  BY <1>0, <1>1, <1>4, <1>5, <1>6 DEF Whole

\* udp_associate closes the ring.
LEMMA WholeRing ==
  ASSUME Inv, Whole, UdpClient
  PROVE  Whole'
<1>0. /\ cur \in Live /\ cur \in Slots /\ role[cur] = "request" /\ cur \notin torn
      /\ fresh \in Live /\ fresh \in Slots /\ fresh # cur /\ pair[fresh] = NULL
      /\ role[fresh] = "udp" /\ fresh \notin torn /\ todo = NULL
      /\ fresh' = NULL /\ UNCHANGED <<iters, batch, torn>>
  BY DEF UdpClient, Running, Inv, ControlOK, NoRawSlot, Live, Whole, TornInv, loopvars
<1> DEFINE rs == [role EXCEPT ![cur] = "client"]
<1>1. rs \in [Slots -> Roles] /\ "udp" \in Roles
  BY DEF Inv, TypeOK, Roles
<1>2. /\ add_event(New, "udp", rs)
      /\ pair' = [pair EXCEPT ![cur] = New, ![New] = fresh, ![fresh] = cur]
  BY DEF UdpClient
<1>3. New \in Slots /\ New \notin Live /\ Live' = Live \cup {New}
  <2> HIDE DEF rs
  <2> QED
    BY <1>0, <1>1, <1>2, AddEventKeeps DEF Inv
<1>4. \A w \in Live : w # New /\ (w # cur /\ w # fresh => pair'[w] = pair[w] /\ role'[w] = role[w])
  BY <1>0, <1>2, <1>3 DEF add_event, Inv, TypeOK, Live
<1>5. /\ cur # New /\ fresh # New
      /\ pair'[cur] = New /\ pair'[New] = fresh /\ pair'[fresh] = cur
      /\ role'[cur] = "client" /\ role'[New] = "udp" /\ role'[fresh] = "udp"
  BY <1>0, <1>2, <1>3 DEF add_event, Inv, TypeOK
<1>6. Loose(cur) /\ Loose(fresh)
  BY <1>0 DEF Loose
<1>7. \A v \in Live : InRing(v) => InRing(v)'
  BY <1>3, <1>4, <1>6, RingsStay
<1>8. ASSUME NEW v, v \in {New, fresh} PROVE InRing(v)'
  <2>1. PICK c \in Live' : c = cur
    BY <1>0, <1>3
  <2>2. Ring(c)'
    BY <1>0, <1>3, <1>5, <2>1 DEF Ring
  <2>3. v \in {pair[c], pair[pair[c]]}'
    BY <1>5, <1>8, <2>1
  <2> QED
    BY <2>2, <2>3 DEF InRing
<1>9. NULL \notin Live
  BY TimerAssumption DEF Live
<1>12. TornInv'
  BY <1>0, <1>3, <1>4, <1>9 DEF Whole, TornInv
<1>10. ASSUME NEW v \in Live' \ torn', role'[v] = "udp" PROVE InRing(v)'
  <2>1. v \in {New, fresh} \/ (v \in Live \ torn /\ v # fresh /\ role[v] = "udp")
    BY <1>0, <1>3, <1>4, <1>5, <1>10
  <2>2. v \in Live \ torn /\ v # fresh /\ role[v] = "udp" => InRing(v)
    BY <1>0, <1>9 DEF Whole, Kept
  <2> QED
    BY <1>7, <1>8, <2>1, <2>2
<1>11. ASSUME NEW v \in Live' \ torn'
       PROVE  /\ role'[v] \in {"server", "request", "delayed"} => pair'[v] = NULL
              /\ role'[v] = "remote" => pair'[v] # NULL
  <2>1. v = New \/ v = cur \/ v = fresh \/ (v \in Live \ torn /\ v # cur /\ v # fresh)
    BY <1>0, <1>3
  <2> QED
    BY <1>0, <1>4, <1>5, <1>9, <2>1 DEF Whole
<1> QED
  BY <1>10, <1>11, <1>12 DEF Whole, Kept

\* reconnect: the client changes over, and del_event gets the old slot.
LEMMA WholeReconnect ==
  ASSUME Inv, Whole, NEW r \in Slots, Reconnect(r)
  PROVE  Whole'
<1> DEFINE c == pair[r]
<1>0. /\ todo = NULL /\ fresh = NULL /\ r \in Live /\ role[r] = "remote"
      /\ c \in Live /\ role[c] = "client" /\ pair[c] = r /\ c \in Slots /\ c # r
      /\ UNCHANGED <<iters, batch, torn>>
  BY RemoteLinked DEF Reconnect, Live, loopvars
<1>1. /\ add_event(New, "remote", role)
      /\ pair' = [pair EXCEPT ![c] = New, ![New] = c, ![r] = NULL]
      /\ todo' = r /\ fresh' = fresh
  BY DEF Reconnect, Abandon
<1>2. New \in Slots /\ New \notin Live /\ Live' = Live \cup {New}
  BY <1>0, <1>1, AddEventKeeps DEF Inv, TypeOK, Roles
<1> HIDE DEF c
<1>3. \A w \in Live : /\ w # New /\ role'[w] = role[w]
                      /\ w # c /\ w # r => pair'[w] = pair[w]
  BY <1>0, <1>1, <1>2 DEF add_event, Inv, TypeOK, Live
<1>4. pair'[New] = c /\ role'[New] = "remote" /\ pair'[r] = NULL
  BY <1>0, <1>1, <1>2 DEF add_event, Inv, TypeOK
<1>5. NULL \notin Live
  BY TimerAssumption DEF Live
<1>6. ASSUME NEW v \in Live, InRing(v) PROVE InRing(v)'
  <2>1. PICK d \in Live : Ring(d) /\ v \in {pair[d], pair[pair[d]]}
    BY <1>6 DEF InRing
  <2>2. d # c /\ d # r
    <3>1. d # c
      BY <1>0, <2>1 DEF Ring
    <3>2. d # r
      BY <1>0, <2>1 DEF Ring, c
    <3> QED
      BY <3>1, <3>2
  <2>3. pair[d] # c /\ pair[d] # r /\ pair[pair[d]] # c /\ pair[pair[d]] # r
    BY <1>0, <2>1 DEF Ring
  <2>4. d \in Live' /\ Ring(d)' /\ v \in {pair[d], pair[pair[d]]}'
    BY <1>2, <1>3, <2>1, <2>2, <2>3 DEF Ring
  <2> QED
    BY <2>4 DEF InRing
<1>9. r \notin torn /\ c \notin torn
  BY <1>0, <1>5 DEF Whole, TornInv, c
<1>10. TornInv'
  BY <1>0, <1>1, <1>2, <1>3, <1>9 DEF Whole, TornInv
<1>7. ASSUME NEW v \in Live' \ torn', role'[v] = "udp" PROVE Kept(v)'
  <2>1. v \in Live \ torn /\ role[v] = "udp"
    BY <1>0, <1>2, <1>3, <1>4, <1>7
  <2>2. InRing(v)
    BY <1>0, <1>5, <2>1 DEF Whole, Kept
  <2> QED
    BY <1>6, <2>1, <2>2 DEF Kept
<1>8. ASSUME NEW v \in Live' \ torn'
      PROVE  /\ role'[v] \in {"server", "request", "delayed"} => pair'[v] = NULL
             /\ role'[v] = "remote" /\ pair'[v] = NULL => v = todo'
  <2>1. v = New \/ (v \in Live \ torn /\ v # c /\ v # r) \/ v = c \/ v = r
    BY <1>0, <1>2
  <2> QED
    BY <1>0, <1>1, <1>3, <1>4, <1>5, <2>1 DEF Whole
<1> QED
  BY <1>7, <1>8, <1>10 DEF Whole

\* reconnect put off: the client is torn, and del_event gets the old slot.
LEMMA WholeReconnectLater ==
  ASSUME Inv, Whole, NEW r \in Slots, ReconnectLater(r)
  PROVE  Whole'
<1> DEFINE c == pair[r]
<1>0. /\ todo = NULL /\ fresh = NULL /\ r \in Live /\ role[r] = "remote"
      /\ c \in Live /\ role[c] = "client" /\ pair[c] = r /\ c \in Slots /\ c # r
  BY RemoteLinked DEF ReconnectLater, Live
<1>1. /\ role' = [role EXCEPT ![c] = "delayed"]
      /\ pair' = [pair EXCEPT ![r] = NULL]
      /\ torn' = torn \cup {c} /\ DelayConn
      /\ todo' = r /\ fresh' = fresh /\ Live' = Live
  BY DEF ReconnectLater, Postpone, Abandon, Live
<1> HIDE DEF c
<1>2. /\ \A w \in Live : (w # c => role'[w] = role[w]) /\ (w # r => pair'[w] = pair[w])
      /\ role'[c] = "delayed" /\ pair'[r] = NULL
  BY <1>0, <1>1 DEF Inv, TypeOK, Live
<1>3. NULL \notin Live
  BY TimerAssumption DEF Live
<1>4. ASSUME NEW v \in Live, InRing(v) PROVE InRing(v)'
  <2>1. PICK d \in Live : Ring(d) /\ v \in {pair[d], pair[pair[d]]}
    BY <1>4 DEF InRing
  <2>2. d # c /\ d # r
    BY <1>0, <2>1 DEF Ring
  <2>3. pair[d] # c /\ pair[d] # r /\ pair[pair[d]] # c /\ pair[pair[d]] # r
    BY <1>0, <2>1 DEF Ring
  <2>4. d \in Live' /\ Ring(d)' /\ v \in {pair[d], pair[pair[d]]}'
    BY <1>1, <1>2, <2>1, <2>2, <2>3 DEF Ring
  <2> QED
    BY <2>4 DEF InRing
<1>5. TornInv'
  <2>1. r \notin torn /\ torn \subseteq Live
    BY <1>0, <1>3 DEF Whole, TornInv, c
  <2>2. torn' \subseteq Live' /\ fresh' \notin torn' /\ DelayConn
    BY <1>0, <1>1, <1>3, <2>1
  <2>3. ASSUME NEW v \in torn, v # c
        PROVE  role'[v] = "delayed" \/ (role'[v] \in {"remote", "udp"} /\ pair'[v] = NULL)
    <3>1. v \in Live /\ v # r /\ role'[v] = role[v] /\ pair'[v] = pair[v]
      BY <1>2, <2>1, <2>3
    <3> QED
      BY <3>1 DEF Whole, TornInv
  <2> QED
    BY <1>1, <1>2, <2>2, <2>3 DEF TornInv
<1>6. ASSUME NEW v \in Live, v \notin torn, v # c, role'[v] = "udp" PROVE Kept(v)'
  <2>1. role[v] = "udp"
    BY <1>2, <1>6
  <2>2. InRing(v)
    BY <1>0, <1>3, <1>6, <2>1 DEF Whole, Kept
  <2> QED
    BY <1>4, <2>2 DEF Kept
<1>7. ASSUME NEW v \in Live, v \notin torn, v # c
      PROVE  /\ role'[v] \in {"server", "request", "delayed"} => pair'[v] = NULL
             /\ role'[v] = "remote" /\ pair'[v] = NULL => v = todo'
  BY <1>0, <1>1, <1>2, <1>3, <1>7 DEF Whole
<1>8. \A v \in Live' \ torn' : v \in Live /\ v \notin torn /\ v # c
  BY <1>1
<1> QED
  BY <1>5, <1>6, <1>7, <1>8 DEF Whole

\* One step of del_event's walk: what depended on the deleted slot is where
\* the walk goes next.
LEMMA WholeDelStep ==
  ASSUME Inv, Whole, DelStep
  PROVE  Whole'
<1> DEFINE v == todo
           e == pair[v]
<1>0. v \in Slots /\ fresh = NULL /\ fresh' = NULL /\ UNCHANGED <<iters, batch>>
  BY DEF DelStep, Inv, TypeOK, Pointer, ControlOK
<1>1. NULL \notin Live
  BY TimerAssumption DEF Live
<1>2. CASE fd[v] \in {"closed", "failed"}
  <2>1. todo' = NULL /\ UNCHANGED <<slotvars, pair, torn>> /\ v \notin Live
    BY <1>2 DEF DelStep, Live
  <2>2. Live' = Live /\ UNCHANGED <<role, pair>>
    BY <2>1 DEF Live, slotvars
  <2>3. \A w \in Live : InRing(w) => InRing(w)'
    BY <2>2, RingsStay
  <2>4. ASSUME NEW w \in Live, w \notin torn, role[w] = "udp" PROVE Kept(w)'
    BY <1>0, <1>1, <2>1, <2>3, <2>4 DEF Whole, Kept
  <2>5. TornInv'
    BY <1>0, <2>1, <2>2 DEF Whole, TornInv
  <2> QED
    BY <2>1, <2>2, <2>4, <2>5 DEF Whole
<1>3. CASE fd[v] \notin {"closed", "failed"}
  <2>1. /\ del_event(v)
        /\ pair' = [w \in Slots |->
             IF w = v \/ (w = e /\ pair[w] = v) THEN NULL ELSE pair[w]]
        /\ todo' = e
    BY <1>3 DEF DelStep, Partner
  <2>2. v \in Live
    BY <1>0, <1>3 DEF Inv, NoRawSlot, TypeOK, Live, DelStep
  <2>3. role' = role /\ Live' = Live \ {v} /\ torn' = torn \ {v}
    BY <1>0, <2>1, <2>2, DelEventKeeps DEF Inv
  <2>4. \A w \in Live : w # v =>
          pair'[w] = IF w = e /\ pair[w] = v THEN NULL ELSE pair[w]
    BY <2>1 DEF Live
  <2> HIDE DEF v, e
  <2>8. TornInv'
    BY <1>0, <2>3, <2>4 DEF Whole, TornInv
  <2>5. ASSUME NEW w \in Live, w \notin torn, w # v, role[w] = "udp" PROVE Kept(w)'
    <3>1. w = e \/ InRing(w)
      BY <1>0, <1>1, <2>2, <2>5 DEF Whole, Kept, v, e
    <3>2. CASE w = e
      BY <2>1, <3>2 DEF Kept
    <3>3. CASE InRing(w)
      <4>1. PICK c \in Live : Ring(c) /\ w \in {pair[c], pair[pair[c]]}
        BY <3>3 DEF InRing
      <4> DEFINE a == pair[c]
                 b == pair[a]
      <4>2. /\ a \in Live /\ b \in Live /\ a # b /\ role[a] = "udp" /\ role[b] = "udp"
            /\ pair[b] = c /\ w \in {a, b} /\ role[c] = "client"
        BY <4>1 DEF Ring
      <4>3. c # a /\ c # b
        BY <4>1, <4>2
      <4> HIDE DEF a, b
      <4>4. CASE v = c
        <5>1. e = a /\ pair[a] # v /\ a # v
          BY <4>2, <4>3, <4>4 DEF a, b, e
        <5>2. a \in Live' /\ pair'[a] = b /\ todo' = a
          BY <2>1, <2>3, <2>4, <4>2, <5>1 DEF b
        <5> QED
          BY <4>2, <5>2 DEF Kept
      <4>5. CASE v = a
        <5>1. w = e
          BY <2>5, <4>2, <4>5 DEF b, e
        <5> QED
          BY <3>2, <5>1
      <4>6. CASE v = b
        <5>1. e = c /\ w = a /\ pair[c] # v
          BY <2>5, <4>2, <4>6 DEF a, e
        <5>2. c \in Live' /\ pair'[c] = a /\ todo' = c
          BY <2>1, <2>3, <2>4, <4>1, <4>3, <4>6, <5>1 DEF a
        <5> QED
          BY <5>1, <5>2 DEF Kept
      <4>7. CASE v \notin {a, b, c}
        <5>1. /\ pair'[c] = a /\ pair'[a] = b /\ pair'[b] = c
              /\ {a, b, c} \subseteq Live'
          BY <2>3, <2>4, <4>1, <4>2, <4>7 DEF a, b
        <5>2. Ring(c)'
          BY <2>3, <4>2, <5>1 DEF Ring
        <5> QED
          BY <4>2, <5>1, <5>2 DEF Kept, InRing
      <4> QED
        BY <4>4, <4>5, <4>6, <4>7
    <3> QED
      BY <3>1, <3>2, <3>3
  <2>6. ASSUME NEW w \in Live, w \notin torn, w # v, role[w] = "remote", pair'[w] = NULL PROVE w = todo'
    <3>1. pair[w] # NULL
      BY <2>6 DEF Whole, v
    <3>2. CASE w = e
      BY <2>1, <3>2 DEF e
    <3>3. CASE w # e
      BY <2>4, <2>6, <3>1, <3>3
    <3> QED
      BY <3>2, <3>3
  <2>7. ASSUME NEW w \in Live, w \notin torn, w # v, role[w] \in {"server", "request", "delayed"}
        PROVE  pair'[w] = NULL
    BY <2>4, <2>7 DEF Whole
  <2> QED
    BY <2>3, <2>5, <2>6, <2>7, <2>8 DEF Whole
<1> QED
  BY <1>2, <1>3

LEMMA WholeInit == Init => Whole
<1> SUFFICES ASSUME Init PROVE Whole
  OBVIOUS
<1>1. \A v \in Live : role[v] = "server" /\ pair[v] = NULL
  BY DEF Init, Live
<1> QED
  BY <1>1 DEF Init, Whole, TornInv

LEMMA WholeNext ==
  ASSUME Inv, Whole, [Next]_vars
  PROVE  Whole'
<1>1. CASE \/ Loop \/ (\E v \in Slots : Interrupted(v)) \/ Stop \/ Tick
           \/ \E r \in Slots : RemoveTimer(r)
           \/ \E r \in Slots, d \in Delays : SetTimer(r, d)
  <2>1. UNCHANGED <<slotvars, pair, torn, fresh>> /\ (todo = NULL \/ todo' = todo)
    BY <1>1 DEF Loop, Fetch, SkipStale, Dispatch, Timeout, Interrupted, Stop, Break,
                destroy_pool, Tick, RemoveTimer, SetTimer, GoesOn, Idle
  <2> QED
    BY <2>1, WholeSame
<1>2. CASE Return \/ Crash \/ AcceptFails
  <2>1. UNCHANGED <<slotvars, pair, torn, fresh>> /\ todo = NULL
    BY <1>2 DEF Return, Crash, AcceptFails, Running
  <2> QED
    BY <2>1, WholeSame
<1>3. CASE DelStep
  BY <1>3, WholeDelStep
<1>4. CASE Accept \/ UdpRemote \/ ConnectFault
  BY <1>4, WholeAdd
<1>5. CASE Request
  <2>1. /\ todo = NULL /\ cur \in Live /\ role[cur] \in {"request", "delayed"} /\ Connect(cur)
        /\ fresh = NULL /\ fresh' = NULL /\ UNCHANGED <<iters, batch, todo>>
    BY <1>5 DEF Request, Running, ReturnOk, Inv, NoRawSlot, loopvars
  <2> QED
    BY <2>1, WholeConnect
<1>6. CASE RequestLater
  <2>1. /\ cur \in Live /\ role[cur] = "request" /\ Postpone(cur)
        /\ fresh = NULL /\ fresh' = NULL /\ UNCHANGED <<pair, torn, todo>>
    BY <1>6 DEF RequestLater, Running, ReturnOk, Inv, NoRawSlot
  <2> QED
    BY <2>1, WholePostpone
<1>7. CASE TranspConn
  <2>1. /\ todo = NULL /\ fresh # NULL /\ fresh \in Live /\ role[fresh] = "request"
        /\ fresh' = NULL /\ UNCHANGED <<iters, batch, todo>>
    BY <1>7 DEF TranspConn, Running, GoesOn, Inv, NoRawSlot, ControlOK, loopvars
  <2>2. CASE Connect(fresh)
    BY <2>1, <2>2, WholeConnect
  <2>3. CASE Postpone(fresh) /\ UNCHANGED <<pair, torn>>
    BY <2>1, <2>3, WholePostpone
  <2> QED
    BY <1>7, <2>2, <2>3 DEF TranspConn
<1>8. CASE TranspFails
  <2>1. CASE Orphan
    BY <1>8, <2>1, WholeAdd
  <2>2. CASE UNCHANGED <<slotvars, pair, torn, stale, deadline>>
    <3>1. todo = NULL /\ fresh' = NULL /\ role[fresh] # "udp"
      BY <1>8 DEF TranspFails, Running, Inv, ControlOK
    <3> QED
      BY <2>2, <3>1, WholeSame
  <2> QED
    BY <1>8, <2>1, <2>2 DEF TranspFails
<1>9. CASE UdpClient
  BY <1>9, WholeRing
<1>10. CASE UdpFails
  <2>0. /\ fresh # NULL /\ todo = NULL /\ fresh' = NULL /\ role[fresh] = "udp"
        /\ UNCHANGED <<iters, batch>>
    BY <1>10 DEF UdpFails, Running, Inv, ControlOK, loopvars
  <2>1. CASE del_event(fresh) /\ UNCHANGED pair
    BY <2>0, <2>1, WholeDrop
  <2>2. CASE Faults /\ torn' = torn \cup {fresh} /\ UNCHANGED <<slotvars, pair, stale, deadline>>
    BY <2>0, <2>2, WholeSame
  <2> QED
    BY <1>10, <2>1, <2>2 DEF UdpFails
<1>11. ASSUME NEW r \in Slots, Reconnect(r) \/ ReconnectLater(r) PROVE Whole'
  BY <1>11, WholeReconnect, WholeReconnectLater
<1>12. CASE AddFails
  BY <1>12, WholeAddFails
<1>13. CASE UNCHANGED vars
  <2>1. UNCHANGED <<slotvars, pair, torn, fresh, todo>>
    BY <1>13 DEF vars
  <2> QED
    BY <2>1, WholeSame
<1> QED
  BY <1>1, <1>2, <1>3, <1>4, <1>5, <1>6, <1>7, <1>8, <1>9, <1>10, <1>11, <1>12, <1>13
  DEF Next, Callback

LEMMA PoolWhole == Spec => [](Inv /\ Whole)
<1>1. Init => Whole
  BY WholeInit
<1>2. Inv /\ Whole /\ [Next]_vars => Whole'
  BY WholeNext
<1> QED
  BY <1>1, <1>2, PoolInvariant, PTL DEF Spec

\* Inv and Whole say of each role what SlotsLinked says.
LEMMA WholeLinked ==
  ASSUME Inv, Whole
  PROVE  SlotsLinked
<1> SUFFICES ASSUME NEW v \in Live \ torn PROVE Linked(v) \/ Closing(v) \/ v = fresh
  BY DEF SlotsLinked, Whole, TornInv
<1>1. NULL \notin Live /\ role[v] \in Roles
  BY TimerAssumption DEF Live, Inv, TypeOK
<1>2. CASE role[v] \in {"server", "request", "delayed"}
  BY <1>2 DEF Whole, Linked
<1>3. CASE role[v] = "client"
  BY <1>3 DEF Inv, ClientsLinked, Linked
<1>4. CASE role[v] = "remote"
  <2>1. v = todo \/ (pair[v] \in Live /\ Tunnel(pair[v]) /\ v = pair[pair[v]])
    BY <1>1, <1>4 DEF Whole, Inv, RemotesLinked, Tunnel
  <2> QED
    BY <1>4, <2>1 DEF Linked, Closing
<1>5. CASE role[v] = "udp"
  BY <1>5 DEF Whole, Kept, InRing, Linked, Closing
<1> QED
  BY <1>1, <1>2, <1>3, <1>4, <1>5 DEF Roles

(***************************************************************************)
(* del_event's walk over pairs leaves no part of a session behind, for any *)
(* number of slots: whatever calls fail and whatever connections are put   *)
(* off, every slot is linked with its session or about to be deleted, but  *)
(* for the ones create_conn and udp_associate forgot when they failed      *)
(* half-way and the clients that reconnect sent back to wait for data.     *)
(***************************************************************************)
THEOREM PoolSlotsLinked == Spec => []SlotsLinked
<1>1. Inv /\ Whole => SlotsLinked
  BY WholeLinked
<1> QED
  BY <1>1, PoolWhole, PTL

(***************************************************************************)
(* When no system call fails and no connection is put off, del_event and   *)
(* reconnect leave nothing of a session behind, whatever the number of     *)
(* slots and the order of events, deletions and new sessions.              *)
(***************************************************************************)
THEOREM PoolSessionsWhole ==
  ASSUME ~Faults, ~DelayConn
  PROVE  Spec => []SessionsWhole
<1>1. Inv /\ Whole => SessionsWhole
  <2> SUFFICES ASSUME Inv, Whole, cur = NULL, todo = NULL, NEW v \in Live
               PROVE  /\ role[v] \in {"server", "request", "delayed"} => pair[v] = NULL
                      /\ role[v] = "remote" => \E c \in Live : Tunnel(c) /\ v = pair[c]
                      /\ role[v] = "udp" => InRing(v)
    BY DEF SessionsWhole, InRing
  <2>1. NULL \notin Live /\ fresh = NULL /\ torn = {}
    BY TimerAssumption DEF Live, Inv, ControlOK, Whole, TornInv
  <2>2. Linked(v)
    BY <2>1, WholeLinked DEF SlotsLinked, Closing
  <2> QED
    BY <2>1, <2>2 DEF Linked, Tunnel, Ring, InRing
<1> QED
  BY <1>1, PoolWhole, PTL

-----------------------------------------------------------------------------
(* Timers                                                                  *)

\* The slots set_timer is called for keep their role and their client, and the
\* time-out being handled is that of the callback's own slot.
TimersRemote ==
  /\ fired \in {NULL, cur}
  /\ \A v \in Armed \cup ({fired} \ {NULL}) :
       v = todo \/ (role[v] = "remote" /\ pair[v] # NULL)

\* Steps that arm nothing and touch no remote slot that has a client.
LEMMA TimersStay ==
  ASSUME Inv, TimersRemote, Armed' \subseteq Armed, todo = NULL,
         ((cur' = cur /\ fired' = fired) \/ fired' = NULL),
         \A v \in Live : role[v] = "remote" /\ pair[v] # NULL =>
           v = todo' \/ (role'[v] = "remote" /\ pair'[v] # NULL)
  PROVE  TimersRemote'
<1>1. NULL \notin Armed /\ Armed \subseteq Live
  BY TimerAssumption DEF Inv, TimersLive, Armed
<1>2. fired # NULL => fired \in Live
  BY DEF Inv, NoRawSlot, TimersRemote
<1>3. ASSUME NEW v \in Armed' \cup ({fired'} \ {NULL})
      PROVE  v \in Live /\ role[v] = "remote" /\ pair[v] # NULL
  <2>1. v \in Armed \cup ({fired} \ {NULL}) /\ v # NULL
    BY <1>1, <1>3
  <2> QED
    BY <1>1, <1>2, <2>1 DEF TimersRemote
<1>4. fired' \in {NULL, cur'}
  BY DEF TimersRemote
<1> QED
  BY <1>3, <1>4 DEF TimersRemote

LEMMA TimersNext ==
  ASSUME Inv, TimersRemote, [Next]_vars
  PROVE  TimersRemote'
<1>0. NULL \notin Live /\ NULL \notin Slots /\ Armed \subseteq Live
  BY TimerAssumption DEF Inv, TimersLive, Live
<1>1. CASE \/ Fetch \/ Stop \/ Tick \/ (\E v \in Slots : SkipStale(v)) \/ UNCHANGED vars
  <2>1. /\ UNCHANGED <<role, pair, deadline, fired, cur>>
        /\ todo' = todo \/ todo = NULL
    BY <1>1 DEF Fetch, Stop, Break, destroy_pool, Tick, Advance, SkipStale, vars, slotvars,
                tqvars
  <2>2. Armed' = Armed
    BY <2>1 DEF Armed
  <2>3. \A v \in Armed \cup ({fired} \ {NULL}) :
          v = todo' \/ (role[v] = "remote" /\ pair[v] # NULL)
    BY <1>0, <2>1 DEF TimersRemote
  <2> QED
    BY <2>1, <2>2, <2>3 DEF TimersRemote
<1>2. ASSUME NEW v \in Slots, Dispatch(v) PROVE TimersRemote'
  <2>1. UNCHANGED <<role, pair, deadline, fired, todo>> /\ cur = NULL
    BY <1>2 DEF Dispatch, Idle, slotvars, tqvars
  <2> QED
    BY <2>1 DEF TimersRemote, Armed
<1>3. ASSUME NEW v \in Slots, Timeout(v) \/ Interrupted(v) PROVE TimersRemote'
  <2>1. /\ v \in Armed /\ todo = NULL /\ UNCHANGED <<role, pair, todo>>
        /\ deadline' = [deadline EXCEPT ![v] = 0] /\ fired' = v /\ cur' = v
    BY <1>3 DEF Timeout, Interrupted, Expire, Earliest, Disarm, Idle, slotvars
  <2>2. Armed' \subseteq Armed
    BY <2>1 DEF Armed, Inv, TypeOK
  <2>3. \A w \in Armed : role[w] = "remote" /\ pair[w] # NULL
    BY <1>0, <2>1 DEF TimersRemote
  <2> QED
    BY <2>1, <2>2, <2>3 DEF TimersRemote
<1>4. ASSUME NEW r \in Slots, Remote(r),
             RemoveTimer(r) \/ (\E d \in Delays : SetTimer(r, d))
      PROVE  TimersRemote'
  <2>1. /\ Armed' \subseteq Armed \cup {r}
        /\ UNCHANGED <<role, pair, fired, cur, todo>>
    BY <1>4 DEF RemoveTimer, SetTimer, Arm, Disarm, GoesOn, slotvars, Armed, Inv, TypeOK
  <2>2. role[r] = "remote" /\ pair[r] # NULL
    BY <1>4 DEF Remote
  <2> QED
    BY <2>1, <2>2 DEF TimersRemote
<1>5. CASE DelStep
  <2> DEFINE v == todo
             e == pair[v]
  <2>1. v \in Slots /\ UNCHANGED <<cur, fired>>
    BY <1>5 DEF DelStep, Inv, TypeOK, Pointer
  <2>2. CASE fd[v] \in {"closed", "failed"}
    <3>1. todo' = NULL /\ UNCHANGED <<role, pair, deadline>> /\ v \notin Live
      BY <1>5, <2>2 DEF DelStep, slotvars, Live
    <3>2. v \notin Armed /\ v # fired
      BY <1>0, <2>1, <3>1 DEF TimersRemote, Inv, NoRawSlot
    <3> QED
      BY <2>1, <3>1, <3>2 DEF TimersRemote, Armed
  <2>3. CASE fd[v] \notin {"closed", "failed"}
    <3>1. /\ deadline' = [deadline EXCEPT ![v] = 0] /\ role' = role /\ todo' = e
          /\ pair' = [w \in Slots |->
               IF w = v \/ (w = e /\ pair[w] = v) THEN NULL ELSE pair[w]]
      BY <1>5, <2>3 DEF DelStep, del_event, TimerGone, Disarm, Partner
    <3>2. Armed' = Armed \ {v}
      BY <2>1, <3>1 DEF Armed, Inv, TypeOK
    <3>3. v # fired
      BY <1>0, <1>5, <2>1 DEF DelStep, TimersRemote, Inv, ControlOK
    <3>4. \A w \in Slots : w # v /\ w # e => pair'[w] = pair[w]
      BY <3>1
    <3>5. Armed \subseteq Slots /\ (fired # NULL => fired \in Slots)
      BY DEF Armed, Inv, TypeOK, Pointer
    <3> HIDE DEF v, e
    <3>6. ASSUME NEW w \in Armed' \cup ({fired'} \ {NULL})
          PROVE  w = todo' \/ (role'[w] = "remote" /\ pair'[w] # NULL)
      <4>1. w \in Armed \cup ({fired} \ {NULL}) /\ w # v /\ w \in Slots
        BY <2>1, <3>2, <3>3, <3>5, <3>6
      <4>2. role[w] = "remote" /\ pair[w] # NULL
        BY <4>1 DEF TimersRemote, v
      <4> QED
        BY <3>1, <3>4, <4>1, <4>2
    <3> QED
      BY <2>1, <3>6 DEF TimersRemote
  <2> QED
    BY <2>2, <2>3
<1>6. ASSUME Running(Roles), UNCHANGED <<role, pair, deadline>>,
             ((cur' = cur /\ fired' = fired) \/ fired' = NULL)
      PROVE  TimersRemote'
  BY <1>6, TimersStay DEF Running, Armed
<1>7. CASE \/ Return \/ Crash \/ AcceptFails
           \/ TranspFails /\ UNCHANGED <<slotvars, pair, torn, stale, deadline>>
           \/ UdpFails /\ UNCHANGED <<slotvars, pair, stale, deadline>>
  BY <1>6, <1>7 DEF Return, Crash, AcceptFails, TranspFails, UdpFails, ReturnOk, ReturnErr,
                    Running, Roles, slotvars
\* A new slot with its client or without one, and what changes beside it.
<1>8. ASSUME NEW r, NEW rs \in [Slots -> Roles], add_event(New, r, rs), todo = NULL,
             ((cur' = cur /\ fired' = fired) \/ fired' = NULL),
             \A v \in Live : role[v] = "remote" /\ pair[v] # NULL =>
               v = todo' \/ (rs[v] = "remote" /\ pair'[v] # NULL)
      PROVE  TimersRemote'
  <2>1. New \in Slots /\ New \notin Live
    BY <1>8, NewIsFree DEF Inv, add_event
  <2>2. role' = [rs EXCEPT ![New] = r] /\ deadline' = [deadline EXCEPT ![New] = 0]
    BY <1>8 DEF add_event, Disarm
  <2>3. Armed' \subseteq Armed
    BY <2>1, <2>2 DEF Armed, Inv, TypeOK
  <2>4. \A v \in Live : role'[v] = rs[v]
    BY <1>8, <2>1, <2>2 DEF Live
  <2> QED
    BY <1>8, <2>3, <2>4, TimersStay
<1>9. CASE Accept \/ UdpRemote \/ ConnectFault \/ (TranspFails /\ Orphan)
  <2>1. /\ todo = NULL /\ pair' = [pair EXCEPT ![New] = NULL]
        /\ ((cur' = cur /\ fired' = fired) \/ fired' = NULL)
        /\ \E r \in Roles : add_event(New, r, role)
    BY <1>9 DEF Accept, UdpRemote, ConnectFault, TranspFails, Orphan, Connecting, Remote,
                Running, GoesOn, ReturnErr, Roles
  <2>2. PICK r \in Roles : add_event(New, r, role)
    BY <2>1
  <2>3. New \in Slots /\ New \notin Live
    BY <2>2, NewIsFree DEF Inv, add_event
  <2>4. \A v \in Live : pair'[v] = pair[v]
    BY <2>1, <2>3 DEF Live, Inv, TypeOK
  <2>5. role \in [Slots -> Roles]
    BY DEF Inv, TypeOK
  <2> QED
    BY <1>8, <2>1, <2>2, <2>4, <2>5
<1>10. ASSUME NEW c \in Live, Connect(c), role[c] # "remote", todo = NULL,
              ((cur' = cur /\ fired' = fired) \/ fired' = NULL)
       PROVE  TimersRemote'
  <2> DEFINE rs == [role EXCEPT ![c] = "client"]
  <2>1. add_event(New, "remote", rs) /\ pair' = [pair EXCEPT ![c] = New, ![New] = c]
    BY <1>10 DEF Connect
  <2>2. New \in Slots /\ New \notin Live
    BY <2>1, NewIsFree DEF Inv, add_event
  <2>3. rs \in [Slots -> Roles]
    BY DEF Inv, TypeOK, Roles
  <2>4. \A v \in Live : v # c => pair'[v] = pair[v] /\ rs[v] = role[v]
    BY <2>1, <2>2 DEF Live, Inv, TypeOK
  <2> HIDE DEF rs
  <2> QED
    BY <1>8, <1>10, <2>1, <2>3, <2>4
<1>11. ASSUME NEW c \in Live, Postpone(c), role[c] # "remote", todo = NULL,
              ((cur' = cur /\ fired' = fired) \/ fired' = NULL),
              \A v \in Live : v = todo' \/ pair'[v] = pair[v]
       PROVE  TimersRemote'
  <2>1. role' = [role EXCEPT ![c] = "delayed"] /\ deadline' = deadline
    BY <1>11 DEF Postpone
  <2>2. \A v \in Live : v # c => role'[v] = role[v]
    BY <2>1 DEF Live, Inv, TypeOK
  <2> QED
    BY <1>11, <2>1, <2>2, TimersStay DEF Armed
<1>12. CASE TranspConn
  <2>1. /\ todo = NULL /\ fresh \in Live /\ role[fresh] = "request"
        /\ cur' = cur /\ fired' = fired
    BY <1>12 DEF TranspConn, Running, GoesOn, Inv, NoRawSlot, ControlOK
  <2>2. CASE Connect(fresh)
    BY <1>10, <2>1, <2>2
  <2>3. CASE Postpone(fresh) /\ UNCHANGED pair
    BY <1>11, <2>1, <2>3
  <2> QED
    BY <1>12, <2>2, <2>3 DEF TranspConn
<1>13. CASE Request \/ RequestLater
  <2>1. /\ todo = NULL /\ cur \in Live /\ role[cur] # "remote" /\ fired' = NULL
    BY <1>13 DEF Request, RequestLater, Running, ReturnOk, Inv, NoRawSlot
  <2>2. CASE Connect(cur)
    BY <1>10, <2>1, <2>2
  <2>3. CASE Postpone(cur) /\ UNCHANGED pair
    BY <1>11, <2>1, <2>3
  <2> QED
    BY <1>13, <2>2, <2>3 DEF Request, RequestLater
<1>14. CASE UdpClient
  <2> DEFINE rs == [role EXCEPT ![cur] = "client"]
  <2>1. /\ add_event(New, "udp", rs) /\ todo = NULL /\ fired' = NULL
        /\ pair' = [pair EXCEPT ![cur] = New, ![New] = fresh, ![fresh] = cur]
        /\ cur \in Live /\ fresh \in Live /\ role[cur] = "request" /\ role[fresh] = "udp"
    BY <1>14 DEF UdpClient, Running, ReturnOk, ReturnErr, Inv, NoRawSlot, ControlOK
  <2>2. New \in Slots /\ New \notin Live
    BY <2>1, NewIsFree DEF Inv, add_event
  <2>3. rs \in [Slots -> Roles]
    BY DEF Inv, TypeOK, Roles
  <2>4. \A v \in Live : v # cur /\ v # fresh => pair'[v] = pair[v] /\ rs[v] = role[v]
    BY <2>1, <2>2 DEF Live, Inv, TypeOK
  <2> HIDE DEF rs
  <2> QED
    BY <1>8, <2>1, <2>3, <2>4
<1>15. CASE UdpFails /\ del_event(fresh) /\ UNCHANGED pair
  <2>1. fresh \in Live /\ todo = NULL /\ fired' = NULL /\ UNCHANGED <<iters, batch>>
    BY <1>15 DEF UdpFails, Running, ReturnErr, Inv, NoRawSlot, loopvars
  <2>2. role' = role /\ deadline' = [deadline EXCEPT ![fresh] = 0]
    BY <1>15 DEF del_event, TimerGone, Disarm
  <2>3. Armed' \subseteq Armed
    BY <2>1, <2>2 DEF Armed, Inv, TypeOK, Live
  <2> QED
    BY <1>15, <2>1, <2>2, <2>3, TimersStay
<1>16. ASSUME NEW r \in Slots, Reconnect(r) PROVE TimersRemote'
  <2> DEFINE c == pair[r]
  <2>1. /\ todo = NULL /\ r \in Live /\ role[r] = "remote"
        /\ c \in Live /\ role[c] = "client" /\ c # r
    BY <1>16, RemoteLinked DEF Reconnect
  <2>2. /\ add_event(New, "remote", role) /\ fired' = NULL /\ todo' = r
        /\ pair' = [pair EXCEPT ![c] = New, ![New] = c, ![r] = NULL]
    BY <1>16 DEF Reconnect, Abandon
  <2> HIDE DEF c
  <2>3. New \in Slots /\ New \notin Live
    BY <2>2, NewIsFree DEF Inv, add_event
  <2>4. \A v \in Live : v # c /\ v # r => pair'[v] = pair[v]
    BY <2>1, <2>2, <2>3 DEF Live, Inv, TypeOK
  <2>5. role \in [Slots -> Roles]
    BY DEF Inv, TypeOK
  <2> QED
    BY <1>8, <2>1, <2>2, <2>4, <2>5
<1>17. ASSUME NEW r \in Slots, ReconnectLater(r) PROVE TimersRemote'
  <2>1. /\ todo = NULL /\ r \in Live /\ pair[r] \in Live /\ role[pair[r]] = "client"
    BY <1>17, RemoteLinked DEF ReconnectLater
  <2>2. Postpone(pair[r]) /\ fired' = NULL /\ todo' = r /\ pair' = [pair EXCEPT ![r] = NULL]
    BY <1>17 DEF ReconnectLater, Abandon
  <2>3. \A v \in Live : v = todo' \/ pair'[v] = pair[v]
    BY <2>2 DEF Live, Inv, TypeOK
  <2> QED
    BY <1>11, <2>1, <2>2, <2>3
<1>18. CASE AddFails
  <2>1. /\ count < Max /\ todo = NULL /\ UNCHANGED <<role, deadline, cur, fired>>
        /\ pair' = [pair EXCEPT ![New] = NULL]
    BY <1>18 DEF AddFails, GoesOn, Connecting, Remote, Running
  <2>2. New \notin Live
    BY <2>1, NewIsFree DEF Inv
  <2>3. \A v \in Live : pair'[v] = pair[v]
    BY <2>1, <2>2 DEF Live, Inv, TypeOK
  <2> QED
    BY <2>1, <2>3, TimersStay DEF Armed
<1> QED
  BY <1>1, <1>2, <1>3, <1>4, <1>5, <1>7, <1>9, <1>12, <1>13, <1>14, <1>15, <1>16, <1>17, <1>18
  DEF Next, Loop, Callback, RemoveTimer, SetTimer, TranspFails, UdpFails

(***************************************************************************)
(* on_timeout finds a live tunnel around the slot it is called for, for    *)
(* any number of slots and timers: signals may make a time-out early, but  *)
(* no deletion, reconnect or failing call leaves a timer on a slot that    *)
(* has lost its client.                                                    *)
(***************************************************************************)
THEOREM PoolTimersInTunnels == Spec => []TimersInTunnels
<1>1. Init => TimersRemote
  BY DEF Init, TimerInit, TimersRemote, Armed
<1>2. Inv /\ TimersRemote /\ [Next]_vars => TimersRemote'
  BY TimersNext
<1>3. Inv /\ TimersRemote => TimersInTunnels
  <2> SUFFICES ASSUME Inv, TimersRemote, NEW v \in Armed \cup ({fired} \ {NULL}), v # todo
               PROVE  pair[v] \in Live /\ Tunnel(pair[v]) /\ v = pair[pair[v]]
    BY DEF TimersInTunnels
  <2>1. v \in Live /\ role[v] = "remote" /\ pair[v] # NULL
    BY DEF TimersRemote, Inv, TimersLive, NoRawSlot
  <2> QED
    BY <2>1 DEF Inv, RemotesLinked, Tunnel
<1> QED
  BY <1>1, <1>2, <1>3, PoolInvariant, PTL DEF Spec
=============================================================================
