--------------------------- MODULE EventQueueRace ---------------------------
(***************************************************************************)
(* The memory accesses of jfst/eventqueue.c, which has neither a lock nor  *)
(* an atomic: event_queue_send on JACK's process thread (MIDI CC, program  *)
(* change) and notification thread (graph, session), event_queue_get on    *)
(* the event thread, in jfst_idle's loop.  front and rear are single bytes *)
(* that the compiled code loads and stores once per eq_index_next; an      *)
(* index it has just computed it may keep in a register or load again.     *)
(* JfstIdle says what is sent and what becomes of it.                      *)
(***************************************************************************)
EXTENDS EventRing

Producers == {"process", "notification"}

VARIABLES
  events, front, rear,
  pc,       \* where each producer is in event_queue_send
  ev,       \* the event each producer sends
  reg,      \* the index each producer holds in a register
  cpc,      \* where the event thread is in event_queue_get
  creg,     \* its register
  got,      \* the event jfst_idle handled last
  sends     \* history: how many sends have begun

consumer == <<cpc, creg, got>>
producers == <<front, events, pc, ev, reg, sends>>
queue == <<events, front, rear, pc, ev, reg, consumer, sends>>

QueueInit ==
  /\ events = [i \in Indices |-> ZeroEvent]
  /\ front = 0 /\ rear = 0
  /\ pc = [p \in Producers |-> "idle"]
  /\ ev = [p \in Producers |-> ZeroEvent]
  /\ reg = [p \in Producers |-> 0]
  /\ cpc = "test" /\ creg = 0
  /\ got = Nil
  /\ sends = 0

GoTo(p, label) == pc' = [pc EXCEPT ![p] = label]

-----------------------------------------------------------------------------
(* event_queue_send                                                        *)

Begin(p, e) ==
  /\ pc[p] = "idle"
  /\ sends' = sends + 1
  /\ ev' = [ev EXCEPT ![p] = e]
  /\ GoTo(p, IF front = rear THEN "load" ELSE "compare")
  /\ UNCHANGED <<events, front, rear, reg, consumer>>

(* memcmp compares the bytes that pad an Event, too, which nobody sets: it *)
(* may miss that two are the same.                                         *)
Compare(p) ==
  /\ pc[p] = "compare"
  /\ GoTo(p, "load") \/ (events[front] = ev[p] /\ GoTo(p, "idle"))
  /\ UNCHANGED <<events, front, rear, ev, reg, consumer, sends>>

LoadFront(p) ==
  /\ pc[p] = "load"
  /\ reg' = [reg EXCEPT ![p] = eq_index_next(front)]
  /\ GoTo(p, "store")
  /\ UNCHANGED <<events, front, rear, ev, consumer, sends>>

(* From here the event thread can see the slot, which is still the old one. *)
StoreFront(p) ==
  /\ pc[p] = "store"
  /\ front' = reg[p]
  /\ GoTo(p, "full")
  /\ UNCHANGED <<events, rear, ev, reg, consumer, sends>>

TestFull(p) ==
  /\ pc[p] = "full"
  /\ \E i \in {reg[p], front} : GoTo(p, IF i = rear THEN "bump" ELSE "write")
  /\ UNCHANGED <<events, front, rear, ev, reg, consumer, sends>>

(* rear belongs to the event thread, but an overflow moves it too.         *)
BumpRear(p) ==
  /\ pc[p] = "bump"
  /\ rear' = eq_index_next(rear)
  /\ GoTo(p, "write")
  /\ UNCHANGED <<events, front, ev, reg, consumer, sends>>

WriteSlot(p) ==
  /\ pc[p] = "write"
  /\ \E i \in {reg[p], front} : events' = [events EXCEPT ![i] = ev[p]]
  /\ GoTo(p, "idle")
  /\ UNCHANGED <<front, rear, ev, reg, consumer, sends>>

SendStep(p) ==
  \/ Compare(p) \/ LoadFront(p) \/ StoreFront(p) \/ TestFull(p)
  \/ BumpRear(p) \/ WriteSlot(p)

-----------------------------------------------------------------------------
(* event_queue_get, and jfst_idle's use of the pointer it returns          *)

(* Mutant of GetTest: "anything there" as an order of the indices.         *)
GetTestOrder ==
  /\ cpc = "test"
  /\ front > rear
  /\ cpc' = "load"
  /\ UNCHANGED <<producers, rear, creg, got>>

GetTest ==
  /\ cpc = "test"
  /\ front # rear
  /\ cpc' = "load"
  /\ UNCHANGED <<producers, rear, creg, got>>

LoadRear ==
  /\ cpc = "load"
  /\ creg' = eq_index_next(rear)
  /\ cpc' = "store"
  /\ UNCHANGED <<producers, rear, got>>

StoreRear ==
  /\ cpc = "store"
  /\ rear' = creg
  /\ cpc' = "use"
  /\ UNCHANGED <<producers, creg, got>>

(* jfst_idle reads the slot through the pointer.                           *)
UseSlot ==
  /\ cpc = "use"
  /\ got' = events[creg]
  /\ cpc' = "test"
  /\ UNCHANGED <<producers, rear, creg>>

-----------------------------------------------------------------------------
QueueTypeOK ==
  /\ events \in [Indices -> Event \cup {ZeroEvent}]
  /\ front \in Indices /\ rear \in Indices
  /\ pc \in [Producers -> {"idle", "compare", "load", "store", "full", "bump", "write"}]
  /\ ev \in [Producers -> Event \cup {ZeroEvent}]
  /\ reg \in [Producers -> Indices]
  /\ cpc \in {"test", "load", "store", "use"} /\ creg \in Indices
  /\ got \in Event \cup {ZeroEvent, Nil}
  /\ sends \in Nat

(* An event that jfst_idle handles was sent by somebody: the ring never    *)
(* hands out a slot that no send has filled.  It does.                     *)
OnlySentEvents == got \in Event \cup {Nil}
=============================================================================
