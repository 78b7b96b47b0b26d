----------------------------- MODULE EventRing -----------------------------
(***************************************************************************)
(* The ring of jfst/eventqueue.c: MAX_EVENTS slots and two uint8_t         *)
(* indices.  front is the slot written last, rear the slot read last; they *)
(* are equal when the ring is empty, so it holds MAX_EVENTS - 1 events.    *)
(***************************************************************************)
EXTENDS Naturals

CONSTANTS
  MAX_EVENTS,  \* 64 in the code
  Event,       \* the events that are sent
  ZeroEvent,   \* what the slots of a calloc'ed JFST hold: EVENT_PC, value 0
  Nil          \* NULL

ASSUME RingAssumption ==
  /\ MAX_EVENTS \in 2..255
  /\ Nil \notin Event \cup {ZeroEvent}

Indices == 0 .. MAX_EVENTS - 1

eq_index_next(i) == IF (i + 1) % 256 >= MAX_EVENTS THEN 0 ELSE (i + 1) % 256
=============================================================================
