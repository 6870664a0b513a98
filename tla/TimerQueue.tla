---------------------------- MODULE TimerQueue ----------------------------
(***************************************************************************)
(* What the event loop's timers promise, with no list in sight: a slot is  *)
(* armed with at most one deadline, and an expiry takes an armed slot with *)
(* the earliest deadline, never before that deadline.  TimerList, the      *)
(* linked list of conev.c, is shown to implement this specification, and   *)
(* EventPool uses it in the list's place.                                  *)
(***************************************************************************)
EXTENDS Naturals

CONSTANTS Slots,     \* the event slots (struct eval)
          NULL,      \* the null pointer
          Delays,    \* the intervals timers are set with
          MaxTime    \* bound of the clock

ASSUME TimerAssumption ==
  /\ NULL \notin Slots
  /\ Delays \subseteq Nat \ {0}
  /\ MaxTime \in Nat \ {0}

VARIABLES deadline,  \* deadline[v]: when v expires, 0 if v is not armed
          now,       \* the monotonic clock
          fired      \* the slot whose expiry is being reported, else NULL

tqvars == <<deadline, now, fired>>

Armed == {v \in Slots : deadline[v] # 0}

TimerInit ==
  /\ deadline = [v \in Slots |-> 0]
  /\ now = 1
  /\ fired = NULL

\* A slot that is already armed keeps its deadline.
Arm(v, d) ==
  deadline' = [deadline EXCEPT ![v] = IF @ = 0 THEN now + d ELSE @]

Disarm(v) ==
  deadline' = [deadline EXCEPT ![v] = 0]

Earliest(v) ==
  /\ v \in Armed
  /\ \A w \in Armed : deadline[v] <= deadline[w]

Advance ==
  /\ now < MaxTime
  /\ now' = now + 1
  /\ UNCHANGED deadline

\* The only step that reports an expiry.
Expire(v) ==
  /\ Earliest(v)
  /\ deadline[v] <= now
  /\ Disarm(v)
  /\ fired' = v
  /\ UNCHANGED now

TimerNext ==
  \/ /\ fired' \in {fired, NULL}
     /\ \/ \E v \in Slots, d \in Delays : Arm(v, d) /\ UNCHANGED now
        \/ \E v \in Slots : Disarm(v) /\ UNCHANGED now
        \/ Advance
        \/ UNCHANGED <<deadline, now>>
  \/ \E v \in Slots : Expire(v)

TimerSpec == TimerInit /\ [][TimerNext]_tqvars
===========================================================================
