----------------------------- MODULE TimerList -----------------------------
(***************************************************************************)
(* The timers of the event loop (conev.c): a doubly linked list threaded   *)
(* through the event slots, kept sorted by deadline.  set_timer walks the  *)
(* list from its end, remove_timer unlinks a slot wherever it is (and is   *)
(* also called on slots that are in no list), next_event_tv takes the      *)
(* first slot once its deadline has passed.                                *)
(***************************************************************************)
EXTENDS Naturals, FiniteSets

CONSTANTS Slots,     \* the event slots (struct eval)
          NULL,      \* the null pointer
          Delays,    \* the intervals timers are set with (await_int, ptimeout)
          MaxTime    \* bound of the clock

ASSUME ListAssumption ==
  /\ NULL \notin Slots
  /\ IsFiniteSet(Slots)
  /\ Delays \subseteq Nat \ {0}
  /\ MaxTime \in Nat \ {0}

VARIABLES tv_ms,     \* eval.tv_ms: the deadline, 0 when the slot is not armed
          tv_next,   \* eval.tv_next
          tv_prev,   \* eval.tv_prev
          tv_start,  \* poolhd.tv_start
          tv_end,    \* poolhd.tv_end
          now,       \* time_ms()
          fired      \* what the last call of next_event_tv took off the list

listvars == <<tv_ms, tv_next, tv_prev, tv_start, tv_end>>
vars == <<listvars, now, fired>>

Pointer == Slots \cup {NULL}

TypeOK ==
  /\ tv_ms \in [Slots -> Nat]
  /\ tv_next \in [Slots -> Pointer]
  /\ tv_prev \in [Slots -> Pointer]
  /\ tv_start \in Pointer
  /\ tv_end \in Pointer
  /\ now \in 1..MaxTime
  /\ fired \in Pointer

Init ==
  /\ tv_ms = [v \in Slots |-> 0]
  /\ tv_next = [v \in Slots |-> NULL]
  /\ tv_prev = [v \in Slots |-> NULL]
  /\ tv_start = NULL
  /\ tv_end = NULL
  /\ now = 1
  /\ fired = NULL

Deadline(d) == now + d

\* Mutant: the new timer always goes to the end of the list.
AppendAlways(ms) == tv_end

(***************************************************************************)
(* set_timer's search: the slot, walking back from the end, whose deadline *)
(* comes strictly before ms (slots with an equal deadline stay behind the  *)
(* new one).                                                               *)
(***************************************************************************)
InsertAfter(ms) ==
  LET back[p \in Pointer] ==
        IF p # NULL /\ tv_ms[p] >= ms THEN back[tv_prev[p]] ELSE p
  IN back[tv_end]

\* An armed slot keeps the timer it has.
set_timer(v, d) ==
  IF tv_ms[v] # 0 THEN UNCHANGED listvars ELSE
  LET ms   == Deadline(d)
      prev == InsertAfter(ms)
      next == IF prev = NULL THEN tv_start ELSE tv_next[prev]
  IN /\ tv_ms' = [tv_ms EXCEPT ![v] = ms]
     /\ tv_next' = [w \in Slots |-> CASE w = v    -> next
                                      [] w = prev -> v
                                      [] OTHER    -> tv_next[w]]
     /\ tv_prev' = [w \in Slots |-> CASE w = v    -> prev
                                      [] w = next -> v
                                      [] OTHER    -> tv_prev[w]]
     /\ tv_start' = IF tv_start = NULL \/ next = tv_start THEN v ELSE tv_start
     /\ tv_end' = IF tv_end = NULL \/ prev = tv_end THEN v ELSE tv_end

\* Mutant: removing the last slot leaves tv_end where it was.
EndKept(v) == tv_end

EndWithout(v) == IF tv_end = v THEN tv_prev[v] ELSE tv_end

remove_timer(v) ==
  /\ tv_next' = [w \in Slots |-> CASE w = v          -> NULL
                                   [] w = tv_prev[v] -> tv_next[v]
                                   [] OTHER          -> tv_next[w]]
  /\ tv_prev' = [w \in Slots |-> CASE w = v          -> NULL
                                   [] w = tv_next[v] -> tv_prev[v]
                                   [] OTHER          -> tv_prev[w]]
  /\ tv_start' = IF tv_start = v THEN tv_next[v] ELSE tv_start
  /\ tv_end' = EndWithout(v)
  /\ tv_ms' = [tv_ms EXCEPT ![v] = 0]

-----------------------------------------------------------------------------
SetTimer(v, d) ==
  /\ set_timer(v, d)
  /\ fired' = NULL
  /\ UNCHANGED now

\* del_event and try_set_tls_timer call it without asking whether v is armed.
RemoveTimer(v) ==
  /\ remove_timer(v)
  /\ fired' = NULL
  /\ UNCHANGED now

\* Mutant: a timeout one tick early.
DueSoon == tv_ms[tv_start] <= now + 1

Due == tv_ms[tv_start] <= now

\* next_event_tv, when the first deadline has come (before the call, or while
\* epoll_wait was waiting for no longer than that).
Expire ==
  /\ tv_start # NULL
  /\ Due
  /\ remove_timer(tv_start)
  /\ fired' = tv_start
  /\ UNCHANGED now

Tick ==
  /\ now < MaxTime
  /\ now' = now + 1
  /\ fired' = NULL
  /\ UNCHANGED listvars

Next ==
  \/ \E v \in Slots, d \in Delays : SetTimer(v, d)
  \/ \E v \in Slots : RemoveTimer(v)
  \/ Expire
  \/ Tick

Spec == Init /\ [][Next]_vars /\ WF_vars(Expire) /\ WF_vars(Tick)

-----------------------------------------------------------------------------
Armed == {v \in Slots : tv_ms[v] # 0}

(***************************************************************************)
(* The list holds the n slots s[1], ..., s[n], in this order: they are the *)
(* armed ones, no slot twice, with their deadlines in order; every pointer *)
(* of the list is the slot at a place, NULL past either end.               *)
(***************************************************************************)
Place(n, s, i) == IF i \in 1..n THEN s[i] ELSE NULL

Chain(n, s) ==
  /\ \A i, j \in 1..n : s[i] = s[j] => i = j
  /\ \A v \in Slots : v \in Armed <=> \E i \in 1..n : v = s[i]
  /\ \A i \in 1..n : /\ tv_prev[s[i]] = Place(n, s, i - 1)
                     /\ tv_next[s[i]] = Place(n, s, i + 1)
  /\ tv_start = Place(n, s, 1)
  /\ tv_end = Place(n, s, n)
  /\ \A v \in Slots \ Armed : tv_next[v] = NULL /\ tv_prev[v] = NULL
  /\ \A i, j \in 1..n : i <= j => tv_ms[s[i]] <= tv_ms[s[j]]

(***************************************************************************)
(* After any sequence of set_timer, remove_timer and expiries the list is  *)
(* one chain: the armed slots, and no other, are reached from either end,  *)
(* the two directions agree, and deadlines do not decrease along it.  A    *)
(* slot left out would never time out; one left in after del_event would   *)
(* be fired, or overwritten by add_event, while it is free.                *)
(***************************************************************************)
ListIsSorted ==
  /\ TypeOK
  /\ LET n == Cardinality(Armed)
     IN \E s \in [1..n -> Slots] : Chain(n, s)

(***************************************************************************)
(* The list implements the abstract timer queue: next_event_tv takes, of   *)
(* all the armed slots, one with the earliest deadline, only once it has   *)
(* passed, and disarms it; set_timer never moves the deadline of an armed  *)
(* slot; and nothing else arms or disarms one.                             *)
(***************************************************************************)
TQ == INSTANCE TimerQueue WITH deadline <- tv_ms
ImplementsQueue == TQ!TimerSpec

(***************************************************************************)
(* A slot armed with a deadline the clock can reach is fired or disarmed:  *)
(* a later set_timer of other slots never buries it.  The clock moves and  *)
(* loop_event calls next_event_tv for ever, hence the weak fairness.       *)
(***************************************************************************)
EveryTimerEnds ==
  \A v \in Slots : (tv_ms[v] \in 1..MaxTime) ~> (tv_ms[v] = 0)
=============================================================================
