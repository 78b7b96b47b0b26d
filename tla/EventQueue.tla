----------------------------- MODULE EventQueue -----------------------------
(***************************************************************************)
(* jfst/eventqueue.c when its calls do not overlap: event_queue_send and   *)
(* event_queue_get as one step each.  EventQueueRace has the steps inside. *)
(***************************************************************************)
EXTENDS EventRing, Sequences

VARIABLES
  events,  \* the slots
  front,
  rear,
  got,     \* what event_queue_get returned last
  newest   \* history: the event sent last

queueVars == <<events, front, rear, got, newest>>

QueueInit ==
  /\ events = [i \in Indices |-> ZeroEvent]
  /\ front = 0
  /\ rear = 0
  /\ got = Nil
  /\ newest = Nil

Duplicate(e) == front # rear /\ events[front] = e

SkipDuplicate(e) ==
  /\ Duplicate(e)
  /\ newest' = e
  /\ UNCHANGED <<events, front, rear, got>>

(* Mutant of Enqueue: an overflow leaves rear where it is.                 *)
EnqueueNoBump(e) ==
  /\ front' = eq_index_next(front)
  /\ events' = [events EXCEPT ![front'] = e]
  /\ newest' = e
  /\ UNCHANGED <<rear, got>>

(* On overflow rear moves on: the oldest event is forgotten.  A duplicate  *)
(* may get here too: memcmp also compares the padding of an Event, which   *)
(* nobody sets.                                                            *)
Enqueue(e) ==
  /\ front' = eq_index_next(front)
  /\ rear' = IF front' = rear THEN eq_index_next(rear) ELSE rear
  /\ events' = [events EXCEPT ![front'] = e]
  /\ newest' = e
  /\ UNCHANGED got

Send(e) == SkipDuplicate(e) \/ Enqueue(e)

(* Mutant of Get: the slot is read before rear moves.                      *)
GetBeforeMove ==
  /\ front # rear
  /\ rear' = eq_index_next(rear)
  /\ got' = events[rear]
  /\ UNCHANGED <<events, front, newest>>

Get ==
  /\ front # rear
  /\ rear' = eq_index_next(rear)
  /\ got' = events[rear']
  /\ UNCHANGED <<events, front, newest>>

GetNothing ==
  /\ front = rear
  /\ got' = Nil
  /\ UNCHANGED <<events, front, rear, newest>>

QueueNext == (\E e \in Event : Send(e)) \/ Get \/ GetNothing

QueueSpec == QueueInit /\ [][QueueNext]_queueVars

-----------------------------------------------------------------------------
QueueTypeOK ==
  /\ events \in [Indices -> Event \cup {ZeroEvent}]
  /\ front \in Indices
  /\ rear \in Indices
  /\ got \in Event \cup {Nil}
  /\ newest \in Event \cup {Nil}

(* The waiting events, oldest first: those in the Count slots after rear.  *)
Count(f, r) == IF f >= r THEN f - r ELSE f + MAX_EVENTS - r
Slot(r, k) == IF r + k >= MAX_EVENTS THEN r + k - MAX_EVENTS ELSE r + k
Contents(es, f, r) == [k \in 1 .. Count(f, r) |-> es[Slot(r, k)]]
Waiting == Contents(events, front, rear)

(* The event sent last is never the one that is forgotten, and is the last *)
(* to be taken: when the ring is drained, the plugin is where the latest   *)
(* request wants it.                                                       *)
NewestArrives ==
  /\ front # rear => events[front] = newest
  /\ front = rear => got \in {newest, Nil}

(* The inductive invariant behind both: every waiting slot was filled by a *)
(* send.                                                                   *)
WaitingSent == \A k \in 1 .. Count(front, rear) : events[Slot(rear, k)] \in Event

QueueIInv == QueueTypeOK /\ WaitingSent /\ NewestArrives

Abstract == INSTANCE EventFifo WITH
  Capacity <- MAX_EVENTS - 1, queue <- Waiting

(* The ring is the bounded queue of EventFifo.                             *)
ImplementsFifo == Abstract!Fifo
=============================================================================
