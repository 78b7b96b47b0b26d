----------------------------- MODULE EventFifo -----------------------------
(***************************************************************************)
(* What jfst/eventqueue.c promises: a first-in first-out queue of bounded  *)
(* length that forgets its oldest event when it is full.  An event that    *)
(* equals the newest one still waiting may be left out, which is a step    *)
(* that changes nothing here.                                              *)
(***************************************************************************)
EXTENDS Naturals, Sequences

CONSTANTS
  Event,     \* the events that are sent
  Capacity,  \* how many can wait
  Nil        \* event_queue_get's NULL

VARIABLES
  queue,  \* the waiting events, oldest first
  got     \* what event_queue_get returned last

fvars == <<queue, got>>

FInit == queue = <<>> /\ got = Nil

Send(e) ==
  /\ queue' = Append(IF Len(queue) = Capacity THEN Tail(queue) ELSE queue, e)
  /\ UNCHANGED got

Get ==
  /\ queue # <<>>
  /\ got' = Head(queue)
  /\ queue' = Tail(queue)

GetNothing ==
  /\ queue = <<>>
  /\ got' = Nil
  /\ UNCHANGED queue

FNext == (\E e \in Event : Send(e)) \/ Get \/ GetNothing

Fifo == FInit /\ [][FNext]_fvars
=============================================================================
