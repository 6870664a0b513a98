# ByeDPI: a TLA+ model of the proxy

ByeDPI is a local SOCKS/HTTP/transparent proxy. It connects clients to servers,
sends the first request of a connection in ways that confuse traffic
inspection ("desync"), and, when a connection looks blocked, tries the next
group of parameters and remembers the result per address. One thread runs one
event loop; what makes the code hard is that a callback runs in the middle of a
batch of events it may invalidate, that sockets and list nodes are recycled,
that a request is sent in many partial steps, and that clients share the groups
and the cache.

## Inventory

| Part | Source | State | Operations | Hard because |
|---|---|---|---|---|
| Event pool and loop | conev.c | `links`, `items`, `count`, `iters`, the batch in `pevents`, per slot `fd`, `index`, `pair`, `mod_iter` | init_pool, add_event, del_event, destroy_pool, next_event, next_event_tv, loop_event, mod_etype | slots are reused while events for their old sockets are pending; del_event recurses over pairs |
| Timers | conev.c | doubly linked list `tv_start` .. `tv_end` | set_timer, remove_timer, expiry | insertion from the end, removal anywhere, deletion of slots |
| Buffers | conev.c | free list | buff_pop, buff_push, buff_destroy | none of its own |
| Sessions | proxy.c, extend.c | callback and flag of a slot, its pair | on_accept, transp_conn, on_request, create_conn, udp_associate, on_connect, on_tunnel, reconnect | failures between two steps; three slots of a UDP association |
| Tunnel and desync | proxy.c, extend.c, desync.c | buffers, `offset`, `round_sent`, `part_sent`, TTL and fake to restore | on_tunnel, tcp_recv_hook, tcp_send_hook, desync | resumed after EAGAIN, partial sends, waits and reconnects |
| Groups and triggers | extend.c, main.c | list of `desync_params`, per client `dp`, `dp_mask`, `detect` | find_dp, connect_hook, setup_conn, on_trigger, swop_groups | clients change the list and the cache under each other |
| UDP | proxy.c, extend.c, desync.c | addresses of both sockets, `round_count`, `round_sent`, TTL | on_udp_tunnel, udp_hook, desync_udp | rounds are counted by two sides; fakes may fail |
| Store and tree | mpool.c, kavl.h | AVL tree of `elem` by prefix, count | mem_get, mem_add, mem_delete, kavl_* | keys that cover each other are equal, so the order is not one |
| Cache | extend.c, mpool.c, main.c | `elem_i` by address prefix, files | cache_get, cache_add, dump_all_cache, load_cache | merging, lifetimes, keys in bits and bytes, files of an earlier process |
| Host lists | main.c, extend.c | a store with host_cmp | parse_hosts, check_host | subdomains count as equal |
| Protocols | proxy.c, packets.c | bytes | SOCKS4/5, HTTP CONNECT, TLS and HTTP parsing and rewriting | boundaries |
| Options, process | main.c | `optind`, `curr_optind`, the groups made so far | parse_args, daemon, signals | --copy sends getopt back and forth |

The parts interact by calls only: the loop calls a slot's callback, callbacks
add and delete slots, arm timers and call each other (on_connect calls
on_tunnel, on_tunnel calls tcp_recv_hook and tcp_send_hook, these call
on_trigger, which calls reconnect). Shared state is the pool, the timer list,
the group list and the cache.

What makes each part correct:

* pool: the first `count` links are exactly the live slots, each at its index;
  an event is delivered to the socket it was reported for or to nobody; a
  session's slots point to each other and are deleted together; shutdown closes
  everything;
* timers: the list is sorted in both directions, the earliest timer fires and
  not before its time, timers belong to the remote slots of tunnels;
* groups: the list keeps all groups in the intended order; a session's group
  fits its address and data; no group is tried twice; a cached choice can be
  used;
* desync: the server gets the client's bytes, all of them, once and in order,
  and only the parts meant to be spoilt are; a request is sent to its end;
* sessions: the client hears that it is connected before it gets data, gets one
  server's answer whole, and every server it is given gets the request from its
  start; data that is held back in either direction is taken up again;
* UDP: fakes precede the datagrams of the rounds they are for, and the client's
  data does not go out with their TTL;
* cache: the networks in it are disjoint and all found; a trigger's verdict
  stays until a neighbour's trigger, a restart or an expiry takes it; a restart
  gives back what was written;
* host lists: a listed domain is found;
* options: each group has its own and the copied options in order, some group
  takes what no other is for, and reading them comes to an end.

## Modules

* `TimerQueue` - what the timers promise: a set of deadlines, the earliest of
  which may fire once its time has come.
* `TimerList` - the linked list of conev.c: `set_timer` and `remove_timer`
  pointer by pointer, `Expire` for next_event_tv. Refines `TimerQueue` with
  `deadline <- tv_ms`. `Chain(n, s)` says that the pointers are a list of the
  `n` armed slots in the order of `s`.
* `TimerListProofs` - the list stays sorted and implements the queue.
* `EventPool` - the pool and the loop, extending `TimerQueue` for the timers.
  `add_event` and `del_event` are operators used by the callbacks; the
  recursion of del_event is `DelStep`, one slot at a time, with `todo` the slot
  to delete next. `Fetch`, `SkipStale`, `Dispatch`, `Timeout`, `Interrupted`
  and `Break` are the loop; `Accept` .. `ReconnectLater` are what the callbacks
  of proxy.c and extend.c do to the pool. What a slot's callback and flag say
  about it is its `role`. With `Faults` system calls may fail half-way:
  `AddFails` (the slot is written but not counted, `fd` "failed"), `Orphan` in
  `ConnectFault` and `TranspFails` (create_conn forgets the slot it has added),
  `UdpFails`. `Crash` is a callback that follows a null pointer because of one of
  these, or on_fin with the stale pair of a client that `ReconnectLater` has put
  off; `phase` is then "crashed". Two variables are history: `stale`, the events
  whose socket has been closed since epoll_wait returned them, and `torn`, the
  orphaned slots and the clients put off.
* `EventPoolProofs` - the inductive invariant of the pool and its theorems;
  `EventPoolSessionProofs` - its linked and whole sessions and their timers.
* `GroupOrder` - the groups as a sequence in which two places are traded.
* `GroupList` - the pointers of `desync_params` beside that sequence, and
  `swop_groups` assignment by assignment.
* `AutoGroups` - the choice of a group for clients that come, connect, send,
  trigger and reconnect, with the cache. It extends `GroupList`: on_trigger's
  swops are made on the pointers, and every step of it is a step of `ListSpec`
  or none (`ImplementsList`). `find_dp` and the walk of on_trigger
  are stated by where they end: the first place that suits, with every place
  passed over added to the mask. Masks are sets of groups; the limits of a
  group are the sets of addresses and of bodies it accepts.
* `AutoGroupsProofs` - the list stays whole for any number of groups; the theorems
  about the automatic choice, which rest on that.
* `Desync` - a client's requests through on_tunnel, tcp_recv_hook, tcp_send_hook
  and desync. A buffer is a sequence of items: a numbered byte, the header of a
  TLS record (five bytes in the code, one item here) with the record's length,
  or whatever lay behind the data; `wire` is what the kernel took for the
  stream, `urgent` counts the bytes it took with MSG_OOB, which a server's TCP
  takes out of the stream. `Carries(w, a, b)` says that a sequence has just the
  client's bytes after `a` up to `b`, in their order, and headers. `tamp` applies `part_tls` to one cut of `tlsrec` after the other. A call is split at
  every send: `pc` says where it is, `Part` is one turn of the loop over the
  parts, `Rest` the send after it, `Plain` the path without desync, `Return`
  what on_tunnel does with the result. send takes all or, where `slow`, a part
  or nothing, and the kernel may hold data back (`busy`). `upset` is a history
  variable for what is known to go wrong: an answer before the request was
  through ("early"), tamp run on what it had already rewritten ("again"), bytes
  added by tamp that on_tunnel did not wait for ("short"). A part with
  OFFSET_START (`AtStart`, the flag `s` of an offset) is not `Passed` when desync
  comes back to it.
* `DesyncProofs` - positions and buffer, the wait's timer, and the TTL;
  `DesyncStreamProofs` - the stream, its records, its order, the urgent bytes.
* `Udp` - the datagrams of an association: on_udp_tunnel at either socket,
  udp_hook and desync_udp. `Turn` is the counting of rounds, `ulog` and `uwire`
  the datagrams in and out; any of them may be empty, and until a socket is
  connected it may hear strangers. It has no specification of its own: `Session`
  extends it and says when there is an association. `UdpProofs` is about it.
* `Session` - one client from its first message to the end. Each callback
  (`on_request` with the protocols it tells apart, `transp_conn`,
  `recv_and_connect`, `on_connect`, `on_socks_conn`, `on_socks_recv`,
  `on_ignore`, `on_timeout`) is one step; on_tunnel is split into the rest of a
  buffer (`FlushUp`, `FlushDown`) and the turns of its loop (`ReadUp`,
  `ReadDown`), with `pc` keeping other callbacks out. `cmask` and `rmask` are
  the events asked for with mod_etype and decide which step can be woken.
  `said` and `wire` are what client and server have been sent. Which group is
  tried belongs to `AutoGroups`, the parts and waits of a request to `Desync`:
  here a send takes any number of bytes, and a reconnect succeeds or not. What
  desync does wrong is not told apart: `tcp_send_hook` puts the bytes it reports
  on the wire or makes it `Garbled`. `early`, `twice`, `odd` (see `Oddities`) and
  `dead` are history variables; `AutoReconnect` is params.auto_reconnect.
* `SessionProofs` - request and answer arrive whole.
* `MemPool` - the store of mpool.c: a tree is a value, kavl_insert and
  kavl_erase return a new one, rebalanced by the same rotations. `scmp` is
  bit_cmp or host_cmp as `CmpType` says.
* `Options` - parse_args: `Auto`, `Copy`, the options that store something in a
  group and the end. `At` is what getopt_long makes of optind.
* `Cache` - extends both. `LoadFile` is --cache-dump met while the options are
  read, `cache_get` and `cache_add` what connect_hook and on_trigger do to the
  store, `on_hup` and `Restart` write the files, all of them or only those
  before one that cannot be opened; `Restart` may also come without a dump.
  Keys have one number per bit, and a byte length used for a bit length cuts
  them as it does in the code. `saved` remembers what the files ought to say.
* `HostList` - parse_hosts and check_host on `MemPool`.
* `MC*` - constants for TLC.

Definitions whose comment starts with "Mutant" are plausible mistakes in the
definition after them; nothing uses them in the specifications.

## Runs

| Run | Checks |
|---|---|
| `timer_list` | `ListIsSorted`, refinement of `TimerQueue`, every timer ends |
| `pool` | five slots, requests, UDP, transparent mode, timers: `SlotsConsistent`, `EventsFresh`, `SessionsWhole` |
| `pool_faults` | three slots, failing epoll_ctl, getsockname and epoll_wait, delayed connections, signals: `TypeOK`, `NoRawSlot`, `TimersLive`, `SlotsLinked`, `TimersInTunnels`, every batch is worked off (`BatchEnds`), shutdown closes everything (`ShutdownEnds`) |
| `auto_groups` | three groups with limits, all modes, loaded cache, the pointers of the list: `TypeOK`, `GroupFits`, `ListSpellsOrder`, `NeverTwice`, `ImplementsList` |
| `auto_cache` | two clients, two addresses, one type of trigger, no sorting: `CacheUsable`, `SavedGroupUsed` |
| `auto_cache_types` | violated: triggers of two types leave an address no group suits |
| `desync` | ten settings of parts and TLS records, with and without --wait-send, with full sends and with EAGAIN and partial ones, waits, reconnects, early answers, two desynced rounds: `TypeOK`, `StreamIntact`, `RecordsWhole`, `OnlyPartsSpoilt`, `UrgentOnce`, `InOrder`, `WaitEndsTimer`, `Delivered` |
| `desync_chunks` | violated: a request in two pieces loses bytes |
| `session` | all protocols, direct, delayed and upstream connections, resets on either side, time-outs, partial sends, UDP associations: `TypeOK`, `RequestWhole`, `AnswerWhole`, `RepliesFirst`, `FakesLead`, `Relayed` |
| `session_reset` | violated: a reset that shows when the client's data is sent makes on_tunnel use a deleted slot |
| `cache` | seven command lines, two sets of old files, then triggers, expiry, dumps and restarts: `TypeOK`, `Disjoint`, `FilesFaithful`, `GroupsAsAsked`, `VerdictKept`, `ArgsEnd` |
| `host_list` | violated: a domain of the list is not found |

### Bounds

* `pool`: five slots hold the listener and two sessions, or one UDP association
  and one waiting client: enough for a deleted slot to be moved, reused and
  paired anew within one batch, and for two timers. Three batches and three
  units of time. Slots are symmetric: init_pool's order of items is arbitrary.
* `pool_faults`: three slots are the listener, a session, and a slot left over
  by a failure that the next client gets; four batches. There is no symmetry,
  since liveness is checked. The invariants are proved for every size. Both runs
  have `Mixed`, other modes beside the transparent one: what on_accept does
  without them (`TranspFails` deletes the client) is covered by the proofs.
* `auto_*`: three groups are a failed, a chosen and a third one that may be
  passed over; the first and the last can be swopped, and neighbours, at either
  end. `ListSpellsOrder` is proved for any number. `MaxPri` bounds the trigger
  counts, which only matter by their order.
* `desync`: pieces of three and four bytes with cuts at the start, the middle,
  the host, the end and past the end; `MaxBytes` allows three requests, two of
  them desynced, `SlowBytes` two where every send may be cut anywhere. A buffer
  of six items is full after two cuts of a hello of four, which may go on in the
  next read (`Missing`). `MaxBusy` waits, `MaxResets` reconnects. `MaxUrgent`
  bounds the urgent bytes of a part with OFFSET_START that is done again and
  again; twelve are more than `UrgentOnce` allows for any of the settings.
* `session`: a buffer of three bytes and four bytes each way: a read may fill the
  buffer (the loop of on_tunnel goes on, `sq_buff` gets full) and the request
  may come in up to four pieces; three server sockets, so that a reconnect can
  fail and be repeated. A session that uses up `MaxConns` has no group left. The
  proxy runs in one of four sets of modes: HTTP, named TLS, both SOCKS with
  Shadowsocks, transparent; plain TCP does as named TLS does.
  Six datagrams are three rounds of both sides, one more than is desynced.
* `cache`: addresses of three bits, four of them in one network, one on another
  port and one of IPv6, so that merges cover one, two or four addresses and a
  delete may hit another network or port of the family; three triggers, one dump. Command lines
  with copies of earlier, later, copying and file-owning groups and of itself;
  old files that overlap and one line that is too long.
* `host_list`: three domains, of which one is a subdomain of another and the
  third lies between them.

Deadlock checking is off where the bounds stop the model (iterations, time,
bytes, priorities, triggers) or the list ends; the options stop at an exit.

### Fairness

`TimerList`, `EventPool`, `Desync` and `Session` state weak fairness of the loop's own
steps: sockets are non-blocking, so a callback returns, del_event and
destroy_pool come to their end, and the loop calls epoll_wait again; a timer
that is due or an event that is asked for is served. In `EventPool` on_accept
runs until accept finds nobody, and calls of epoll_ctl may fail on the way, so
its return is strongly fair: it does not go on for ever. Nothing is assumed of
clients and servers, except in `Relayed` of `Session` that a peer whose socket
is waited for with POLLOUT reads something in the end. `Cache` states weak
fairness of reading the options only: a loop that waits for nobody. `AutoGroups`
and `HostList` have no liveness properties.

### What the properties leave out

Where the code is known to go wrong, the properties that hold otherwise name the
case and leave it out, so that the runs show that nothing else goes wrong:

* `SlotsLinked` names the slots that a failing call has orphaned and the clients
  that a reconnect has put off with the pointer to their old remote slot
  (`torn`). Both can end the process: on_connect and on_udp_tunnel go to the pair
  an orphan does not have, and on_fin to the pair of a slot that is gone
  (extend.c:423); so `ShutdownEnds` allows "crashed" where calls may fail. A
  put-off client that is closed has del_event follow the stale pointer, into a
  session that has the slot by now: what the property shows is that such a
  session is deleted as a whole and no other one is touched.
* `StreamIntact` and `RecordsWhole` hold while `upset` is empty and sends take all
  they are given; `OnlyPartsSpoilt`, `InOrder` and `UrgentOnce` also when they do
  not. `InOrder` needs that tamp did not run twice on the same data, and holds
  even after an early answer where sends take everything; `UrgentOnce` only needs
  that no answer came early. With
  `slow`, a part refused by EAGAIN is taken for sent (desync.c:635) and a rest
  sent in part for the whole (desync.c:668): bytes are missing.
* A part with OFFSET_START is done again whenever desync comes back (desync.c:568).
  `UrgentOnce` leaves out settings with an urgent part at or behind such a part
  (`UrgentAgain`): its urgent byte goes out again after a wait. `InOrder` leaves
  them out where sends may be refused, since the bytes before the urgent one are
  then repeated with it.
* `OnlyPartsSpoilt` leaves out a `disoob` part where sends may be refused
  (`TtlMayStay`). When such a part is the last, ends with the buffer and only its
  urgent byte is left to send, EAGAIN makes desync return all the bytes
  (desync.c:640): on_tunnel takes the request for sent, and the TTL stays low for
  the next one. The attempt to prove the property without this exception
  found it; TLC has the trace with the parts `split 3`, `disoob 3`. It also
  leaves out urgent parts with OFFSET_START, whose byte may go out a second time
  before the TTL is put back.
* `WaitEndsTimer` leaves out sessions that were connected anew or had a send
  refused: their masks still ask for other events during a wait, which then
  leaves its timer behind.
* `FakesLead` allows the low TTL after a fake that could not be sent (`ufail`).
  Which rounds are desynced it only says while no empty datagram was counted at
  the client's socket (`uempty`): such a one, of a stranger perhaps, raises
  round_count and leaves round_sent at 0 (proxy.c:767), so that the client's next
  datagram counts as another round and may miss its fakes.
* `ArgsEnd` leaves out command lines in which a group copies itself: with
  `-A t -s 1 -B 2` the program reads its options for ever.
* `FilesFaithful` is about files that were all written and that one group owns:
  of two groups with the same file (a copied --cache-dump) only the last one's
  lines are kept.
* `RequestWhole` leaves out a socket to which desync has sent something else than
  it has reported (`Garbled`; the cases are in `Desync`, and `desync_chunks` shows
  one) and sessions in which create_conn has failed in a reconnect (`twice`).
* `Relayed` leaves out a socket that is connected and then takes only a part of
  the waiting request ("stuck"): on_connect has set both masks to POLLIN, on_tunnel
  leaves them so (proxy.c:685), and the rest lies until the client sends more.
* `AnswerWhole` and `RepliesFirst` leave out servers that speak first (`early`).
* `RepliesFirst` names two more cases. A client that is told it is connected, and
  whose server resets before either has sent anything, is connected anew
  (extend.c:346) and told again (proxy.c:1000), which it takes for the server's
  data ("retold"). A client that greets with SOCKS5 and then sends data, in a mode
  that takes it (proxy.c:930), is connected and never told ("raw").

## Proofs

Every theorem is about the same specification the runs check, for every value of
the constants that its named assumption allows. All of them have the same
shape: an inductive invariant, one lemma per action or kind of action, and a
last step that puts them together.

| Module | Theorem | Proved | Further hypotheses |
|---|---|---|---|
| `TimerListProofs` | `TimersStaySorted` | `ListIsSorted` | |
| | `ListImplementsQueue` | refinement of `TimerQueue` | |
| `EventPoolProofs` | `PoolTypes`, `PoolSlotsConsistent`, `PoolEventsFresh`, `PoolNoRawSlot`, `PoolTimersLive` | `TypeOK`, `SlotsConsistent`, `EventsFresh`, `NoRawSlot`, `TimersLive` | |
| `EventPoolSessionProofs` | `PoolSlotsLinked`, `PoolTimersInTunnels` | `SlotsLinked`, `TimersInTunnels` | |
| | `PoolSessionsWhole` | `SessionsWhole` | `~Faults`, `~DelayConn` |
| `AutoGroupsProofs` | `ListStaysWhole` | `ListSpellsOrder` of the list alone | |
| | `AutoTypes`, `GroupsAlwaysFit`, `TriggersKeepList` | `TypeOK`, `GroupFits`, `ListSpellsOrder` | |
| | `TriggersImplementList` | refinement of `ListSpec` | |
| | `ReconnectsMoveOn` | `NeverTwice` | |
| | `CacheStaysUsable` | `CacheUsable` | `NoSort`, `OneTrigger`, `~Loaded` |
| | `ReconnectsAsSaved` | `SavedGroupUsed` | `NoSort`, `NoLimits`, `~Loaded` |
| `DesyncProofs` | `DesyncTypes` | `TypeOK` | |
| | `WaitsEndTheirTimer` | `WaitEndsTimer` | |
| | `PartsAloneSpoilt` | `OnlyPartsSpoilt` | `~SameRound` |
| `DesyncStreamProofs` | `StreamGoesIntact` | `StreamIntact` | `~SameRound` |
| | `RecordsStayWhole` | `RecordsWhole` | `~SameRound` |
| | `BytesGoInOrder` | `InOrder` | `~SameRound` |
| | `EachUrgentOnce` | `UrgentOnce` | |
| `SessionProofs` | `SessionTypes`, `RequestsWhole`, `AnswersWhole`, `RepliesComeFirst` | `TypeOK`, `RequestWhole`, `AnswerWhole`, `RepliesFirst` | |
| `UdpProofs` | `FakesAlwaysLead` | `FakesLead` | |

Every further hypothesis is needed, as TLC finds a counterexample when it is
dropped, but for that of `RecordsStayWhole`: there the proof needs it, since it
goes by way of the stream, and the run `desync` with `SameRound` set finds no
violation. Each is a way of running the program (an option not given, a call that
does not fail, a client that waits for its answer), and the passing runs have
states under it.

The arguments:

* Timers. The invariant is that some sequence of slots is the list (`Chain`).
  set_timer puts a slot into that sequence behind the last earlier deadline,
  which exists as the numbers are well founded; remove_timer takes one out. The
  refinement follows because the head of a sorted chain is the earliest.
* Pool. `Inv` adds to the properties where the loop is when a slot is being
  deleted, which roles `cur`, `fresh` and `todo` may have, that a client past its
  request (`ClientsLinked`) and a remote slot have a pair that points back to
  them or are being deleted: without that, a callback could be running on a slot
  that del_event is about to move. `AddEventKeeps` and `DelEventKeeps` carry the
  argument about the swap of links. `Whole` extends `SessionsWhole` to the middle
  of del_event's walk, where a session is cut short but the walk still has its
  last slots ahead, and to the torn slots, of which `TornInv` says what they are;
  a ring that a stale pointer leads into is passed through to its end like any
  other. `SlotsLinked` follows from it (`WholeLinked`), and so does
  `SessionsWhole` where nothing can be torn. `TimersRemote`: an armed or fired
  timer is that of a remote slot that has a pair, or of the slot being deleted;
  with `Inv` this makes `TimersInTunnels`.
* Groups. `ListOK /\ ListSpellsOrder` is inductive as it stands:
  `PointersAdjacent` and `PointersApart` say what swop_groups writes in terms of
  the pointers before, and `SwapKeepsInv` compares that with the traded order.
  `AutoInv` adds `GroupFits`; that on_trigger's two groups come in list order,
  as swop_groups needs, is part of `AutoStep`. For the cache, `PrefixInv` says
  that every mask, a client's or a cached one, is the list up to some place not
  before its group: without sorting clients of one address only move down.
* Desync. `Types` bounds what `TypeOK` does not mention. That tamp keeps the
  buffer within its size is `TampLonger`, by induction over the cuts (`CountUp`,
  `Steps`: recursive functions on numbers are proved to exist from the
  well-foundedness of the numbers). `TimerInv`: without reconnects and refused
  sends nothing but its timer is asked to end a wait. `BackInv`: while a TTL is
  low desync is on its way back to the part that lowered it; `part_sent` names
  that part, which lies at or behind what is counted as sent, so that the parts
  before it are passed over and it is not, even when tamp runs again in between
  and moves it (`PlaceGrows`).
* The stream of desync. `StreamInv`: between calls the server has all of the
  client's bytes (`AllOut`), within one the wire is the requests before
  (`Before`) and then the buffer up to where the call knows it to be sent
  (`Pos`). It is not inductive alone. `BufInv`: the buffer has the client's last
  bytes, whatever tamp did to it; `CutItems` says what one cut does to the items,
  `CutKeeps` and `CutWhole` that it keeps the bytes and the lengths of the
  records, and `TampKeeps` carries that over all cuts. `AgainInv`: the part that
  desync comes back to ends where the data sent ends, so that it is sent neither
  again nor from the wrong place. `DoneInv`: a part with OFFSET_START that is
  done again has no bytes of the request left to send. `ConnectInv`: a new connection starts with all
  of sq_buff and counters at zero. What is on the wire and what is added are put
  together by `CarriesBoth` and `WholeMore`, that is by where the items lie, not by
  filtering sequences, which would take induction over data.
* Their order. `OrderInv` is weaker than `StreamInv` and so holds where bytes get
  lost, with EAGAIN and partial sends: what is on the wire lies before what is
  still to be sent (`Ahead`), and a call that comes back passes over its parts
  from a place at or behind that (`Onwards`).
* The urgent bytes. Only parts that are not done again are counted (a part with
  OFFSET_START is done again, desync.c:567). `UrgInv`: in the present round only
  the parts up to `part_sent` have had theirs, and the rounds before at most one
  for each part. That a round is begun again only after an early answer is what
  makes it inductive.
* Session. `RequestInv`: the wire, unless it is garbled, and the buffer make up
  what the client has sent, and sq_buff, while it is kept, holds all of it.
  `AnswerInv`: some replies, then the present socket's data, of which nothing is
  read while sq_buff is kept. `Phase` says which callbacks the two slots can have
  together, and `ToldInv` who has been told that it is connected. `OkInv`: whoever
  may still be told has not been told yet, unless it is connected again before it
  has sent anything, and after an error there is no session to be told anything.
* UDP. `RoundsInv`: the two flags say who had the word last and `round_count`
  how often the client has; `WireInv` is `FakesLead` with the state of the TTL.

Only model-checked: the liveness properties, which are outside TLAPS;
`GroupsAsAsked` of `Options`, which says what filtering and flattening the
command line gives, that is by induction over data; `Cache` and `HostList`,
whose trees (`MemPool`) are RECURSIVE.

## What the violated runs show

* `session_reset` (proxy.c:722): reconnect inside tcp_send_hook deletes the
  remote slot and returns 0, on_tunnel takes that for a partial send and calls
  mod_etype for it; the assertion of conev.c:189 stops the proxy.
* `auto_cache_types` (extend.c:393): the cached mask is a union over clients,
  the cached trigger type that of the last one.
* `desync_chunks` (desync.c:584): `part_sent` and `round_sent` count for the
  round, positions for the buffer.
* `host_list` (mpool.c:45): '-' sorts before '.', so between a domain and its
  subdomains, which are equal to it, other domains may lie. The list a.b, a-b, b:
  a-b goes to the left of a.b, then b is found equal to a.b, which is longer and
  is deleted, and b goes to the left of a-b. A search for a.b goes to the right
  of a-b, where nothing is: a listed domain, whose parent is listed too, is not
  found.

Other disagreements met while modelling, which these models contain or which
wait for the modules that will: when epoll_wait is interrupted next_event leaves
`*type` alone, and next_event_tv may read a time-out from an earlier call and
fire the next timer early (conev.c:312, `Interrupted`); after EAGAIN the part is taken for sent
(desync.c:635); a partial send of the rest of a request is taken for a full one
(desync.c:668); after a swop find_dp starts from the failed group's new place
and misses the chosen one (extend.c:380, `SavedGroupUsed` fails once
`Levels` has "sort"); a refused urgent byte at the end of a
request leaves the TTL low (desync.c:640, `TtlMayStay`); the pool takes up to twice `--max-conn` clients
(proxy.c:1019); an answer that comes before a reconnected request is through
resets its counters, and tamp runs a second time (extend.c:741, desync.c:547,
`upset`); on_tunnel compares what was sent with the length before tamp added its
headers (proxy.c:679, "short"); part_tls called for a position behind the record
cuts nothing and returns a length all the same (packets.c:566); cache_get deletes
a stale entry by a length in bytes, so that another of the same family may go
(extend.c:94); --cache-ttl has no default in the code, where README.md:75 has 28
hours; a reconnect from on_response that fails in
create_conn leaves the request in the buffer, and the client's next data sends
it a second time (extend.c:203, `twice`); a client whose first connection failed
and whose second is put off is not listened to any more (extend.c:615); the
request of a client is not taken up again when the new socket takes only part of
it (proxy.c:685, "stuck"); a client reconnected before it has sent anything is
told twice that it is connected (extend.c:346, "retold"); a slot whose create_conn
failed and a client put off by a reconnect lead to null pointers (proxy.c:477,
extend.c:218, `Crash`); when a server speaks first, a later trigger reconnects a client that
has had data already (extend.c:773, `early`).

## Not modelled

* The poll() build and Windows: other systems' calls for the same operations.
* The byte layouts: proxy protocol addresses, TLS and HTTP parsing (parse_tls,
  parse_http), mod_http, tlsminor, change_tls_sni and the fakes' contents. The
  models take from them whether an address is found and where a host name is.
* Random offsets, and parts placed by a host name that tamp has moved: init_proto_info
  keeps the place it had before (desync.c:423).
* send errors other than EAGAIN within desync; `Session` has them around it.
* The buffer pool: a free list of interchangeable buffers in one thread.
* How option values are parsed, the options of the whole program, daemon and pid
  file. SIGHUP is an action of `Cache`, but not in the middle of an operation:
  the handler walks the list and the tree without protection (proxy.c:53).
* More than 30 groups, for which the int shift of main.c:608 overflows, and port
  ranges, which extend.c:292 compares in network byte order.

`PROJECT.json` gives the status of every part.

## Plan

1. Done: timers, pool, groups on their list, automatic choice, desync with TLS
   records, sessions with UDP, store, cache, options, host lists; proofs for the
   timers, the pool, the groups, the automatic choice, UDP, sessions and desync.
2. Left: an abstract byte stream for `Desync` and `Session` to implement, with
   `StreamInv` and `RequestInv` as the start of its proof; try_set_tls_timer's
   record tracker; `RecordsStayWhole` without its hypothesis, which needs that
   headers are only in a connection's first buffer.
