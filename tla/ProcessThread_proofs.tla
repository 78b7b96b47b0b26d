------------------------- MODULE ProcessThread_proofs -------------------------
(***************************************************************************)
(* What the process thread shares with the other threads.                  *)
(*                                                                         *)
(* Part 1, Bypass: when only one thread ever runs jfst_bypass (the main    *)
(* thread, or the event thread with no GTK window), flag and plugin stay   *)
(* together and the process thread never touches a plugin that is switched *)
(* off, in every interleaving of the three threads.                        *)
(*                                                                         *)
(* Part 2, EventQueue: the ring of jfst/eventqueue.c implements the bounded *)
(* queue of EventFifo for every size from 2 to 255 and every set of        *)
(* events, as long as its calls do not overlap.                            *)
(***************************************************************************)
EXTENDS Bypass, EventQueue, SequenceTheorems, TLAPS

USE DEF Threads

LEMMA InitIInv == ASSUME NEW u, Controls(u), Init PROVE IInv(u)
BY DEF Controls, Init, IInv, TypeOK, LockInv, StageInv, FlagInv, RequestInv, CycleInv,
       Stages, Labels, CallLabels, RtLabels

LEMMA StepIInv == ASSUME NEW u, Controls(u), IInv(u), [Next]_vars PROVE IInv(u)'
<1>. USE DEF IInv, TypeOK, LockInv, StageInv, FlagInv, RequestInv, CycleInv, Controls,
             Stages, Labels, CallLabels, RtLabels
<1>1. CASE \E t \in Threads : \E v \in BOOLEAN : Ask(t, v)
  BY <1>1 DEF Ask, Free, GoTo, jfst, audio
<1>2. CASE \E t \in Threads : SetProgram(t)
  BY <1>2 DEF SetProgram, Free, GoTo, jfst, audio
<1>3. CASE \E t \in Threads : ReadFlag(t)
  BY <1>3 DEF ReadFlag, GoTo, jfst, audio
<1>4. CASE \E t \in Threads : Mark(t)
  BY <1>4 DEF Mark, GoTo, jfst, audio
<1>5. CASE \E t \in Threads : Unmark(t)
  <2>0. PICK t \in Threads : Unmark(t)
    BY <1>5
  <2>1. TypeOK'
    <3>1. bypassed' \in BOOLEAN
      BY <2>0 DEF Unmark
    <3>2. pc' \in [Threads -> Labels]
      BY <2>0 DEF Unmark, GoTo
    <3>3. UNCHANGED <<stage, running, procLock, req, serving, button, shown, audio, wanted>>
      BY <2>0 DEF Unmark
    <3>. QED BY <3>1, <3>2, <3>3 DEF audio
  <2>2. LockInv'
    BY <2>0 DEF Unmark, GoTo, jfst, audio
  <2>3. StageInv'
    BY <2>0 DEF Unmark, GoTo, jfst, audio
  <2>4. FlagInv(u)'
    BY <2>0 DEF Unmark, GoTo, jfst, audio
  <2>5. RequestInv(u)'
    BY <2>0 DEF Unmark, GoTo, jfst, audio
  <2>6. CycleInv'
    BY <2>0 DEF Unmark, GoTo, jfst, audio
  <2>. QED BY <2>1, <2>2, <2>3, <2>4, <2>5, <2>6 DEF IInv
<1>6. CASE \E t \in Threads : Take(t)
  BY <1>6 DEF Take, jfst, audio
<1>7. CASE InitResume
  BY <1>7 DEF InitResume, GoTo, jfst, audio
<1>8. CASE InitActivate
  BY <1>8 DEF InitActivate, jfst, audio
<1>9. CASE InitIdle
  BY <1>9 DEF InitIdle, BetweenPasses, jfst, audio
<1>10. CASE CloseIdle
  BY <1>10 DEF CloseIdle, BetweenPasses, jfst, audio
<1>11. CASE CloseJack
  BY <1>11 DEF CloseJack, GoTo, jfst, audio
<1>12. CASE NextPlugin
  BY <1>12 DEF NextPlugin, jfst, audio
<1>13. CASE Execute
  <2>1. TypeOK'
    BY <1>13 DEF Execute, MainsAfter, After, StageAfter, GoTo, audio
  <2>2. LockInv'
    BY <1>13 DEF Execute, MainsAfter, After, StageAfter, GoTo, audio
  <2>3. StageInv'
    BY <1>13 DEF Execute, MainsAfter, After, StageAfter, GoTo, audio
  <2>4. FlagInv(u)'
    BY <1>13 DEF Execute, MainsAfter, After, StageAfter, GoTo, audio
  <2>5. RequestInv(u)'
    BY <1>13 DEF Execute, MainsAfter, After, StageAfter, GoTo, audio
  <2>6. CycleInv'
    BY <1>13 DEF Execute, MainsAfter, After, StageAfter, GoTo, audio
  <2>. QED BY <2>1, <2>2, <2>3, <2>4, <2>5, <2>6 DEF IInv
<1>14. CASE LockProcess
  BY <1>14 DEF LockProcess, jfst, audio
<1>15. CASE SeeChange
  BY <1>15 DEF SeeChange, Free, GoTo, jfst, audio
<1>16. CASE Latch
  BY <1>16 DEF Latch, GoTo, jfst, audio
<1>17. CASE SetActive
  BY <1>17 DEF SetActive, GoTo, jfst, audio
<1>18. CASE BeginCycle
  <2>1. TypeOK'
    BY <1>18 DEF BeginCycle, NotAudio, jfst
  <2>2. LockInv'
    BY <1>18 DEF BeginCycle, NotAudio, jfst
  <2>3. StageInv'
    BY <1>18 DEF BeginCycle, NotAudio, jfst
  <2>4. FlagInv(u)'
    BY <1>18 DEF BeginCycle, NotAudio, jfst
  <2>5. RequestInv(u)'
    BY <1>18 DEF BeginCycle, NotAudio, jfst
  <2>6. CycleInv'
    BY <1>18 DEF BeginCycle, NotAudio, jfst
  <2>. QED BY <2>1, <2>2, <2>3, <2>4, <2>5, <2>6 DEF IInv
<1>19. CASE MidiEvent
  BY <1>19 DEF MidiEvent, NotAudio, jfst
<1>20. CASE MidiParam
  BY <1>20 DEF MidiParam, NotAudio, jfst
<1>21. CASE SetParam
  BY <1>21 DEF SetParam, NotAudio, jfst
<1>22. CASE MidiDone
  BY <1>22 DEF MidiDone, NotAudio, jfst
<1>23. CASE ProcessEvents
  BY <1>23 DEF ProcessEvents, NotAudio, jfst
<1>24. CASE Buffers
  BY <1>24 DEF Buffers, NotAudio, jfst
<1>25. CASE Gate
  BY <1>25 DEF Gate, NotAudio, jfst
<1>26. CASE Process
  BY <1>26 DEF Process, NotAudio, jfst
<1>27. CASE EndCycle
  BY <1>27 DEF EndCycle, NotAudio, jfst
<1>28. CASE UNCHANGED vars
  BY <1>28 DEF vars, jfst, audio
<1>. QED
  BY <1>1, <1>2, <1>3, <1>4, <1>5, <1>6, <1>7, <1>8, <1>9, <1>10,
     <1>11, <1>12, <1>13, <1>14, <1>15, <1>16, <1>17, <1>18, <1>19, <1>20,
     <1>21, <1>22, <1>23, <1>24, <1>25, <1>26, <1>27, <1>28
  DEF Next, Lifecycle, BypassStep, HandlerStep, MirrorStep, RtStep

(* The points of jfst_bypass at which a request is over.                   *)
LEMMA IInvImplies ==
  ASSUME NEW u, Controls(u), IInv(u)
  PROVE  TouchOnlyRunning /\ Settled /\ LastRequestStands
<1>. USE DEF IInv, FlagInv, RequestInv, CycleInv, Controls
<1>1. TouchOnlyRunning
  BY DEF TouchOnlyRunning
<1>2. Settled
  BY DEF Settled, Quiet
<1>3. LastRequestStands
  BY DEF LastRequestStands, Quiet
<1>. QED BY <1>1, <1>2, <1>3

(* With one thread that runs jfst_bypass the inductive invariant holds.    *)
THEOREM BypassInvariant == ASSUME NEW u, Controls(u) PROVE Spec => []IInv(u)
<1>1. Init => IInv(u)
  BY InitIInv
<1>2. IInv(u) /\ [Next]_vars => IInv(u)'
  BY StepIInv
<1>. QED BY <1>1, <1>2, PTL DEF Spec

(* jfst_process never enters a plugin that jfst_bypass has switched off.   *)
THEOREM NeverTouchesSuspended ==
  ASSUME NEW u, Controls(u) PROVE Spec => []TouchOnlyRunning
<1>1. IInv(u) => TouchOnlyRunning
  BY IInvImplies
<1>. QED BY <1>1, BypassInvariant, PTL

(* jfst->bypassed and the plugin agree whenever no jfst_bypass is running. *)
THEOREM FlagAndPluginAgree ==
  ASSUME NEW u, Controls(u) PROVE Spec => []Settled
<1>1. IInv(u) => Settled
  BY IInvImplies
<1>. QED BY <1>1, BypassInvariant, PTL

(* The last bypass or resume that was asked for is the one in force.       *)
THEOREM RequestStands ==
  ASSUME NEW u, Controls(u) PROVE Spec => []LastRequestStands
<1>1. IInv(u) => LastRequestStands
  BY IInvImplies
<1>. QED BY <1>1, BypassInvariant, PTL

-----------------------------------------------------------------------------
(* The lock alone keeps audio and switching apart, whoever controls.       *)
LockTypeInv == LockInv /\ pc \in [Threads -> Labels] /\ serving \in Threads \cup {"none"}

(* fst->process_lock: the cycle and the handler's critical sections never  *)
(* overlap, for every set of controlling threads.                          *)
THEOREM AudioExcluded == Spec => []Excluded
<1>1. Init => LockTypeInv
  BY DEF Init, LockTypeInv, LockInv, Labels
<1>2. LockTypeInv /\ [Next]_vars => LockTypeInv'
  <2>. SUFFICES ASSUME LockTypeInv, [Next]_vars PROVE LockTypeInv'
    OBVIOUS
  <2>. USE DEF LockTypeInv, LockInv, Labels, CallLabels, GoTo, jfst, audio
  <2>1. CASE Lifecycle
    BY <2>1 DEF Lifecycle, InitResume, InitActivate, InitIdle, CloseIdle, CloseJack,
                NextPlugin, BetweenPasses
  <2>2. CASE \E t \in Threads : (\E v \in BOOLEAN : Ask(t, v)) \/ SetProgram(t)
    BY <2>2 DEF Ask, SetProgram, Free
  <2>3. CASE \E t \in Threads : BypassStep(t)
    BY <2>3 DEF BypassStep, ReadFlag, Mark, Unmark
  <2>4. CASE HandlerStep
    BY <2>4 DEF HandlerStep, Take, Execute, After
  <2>5. CASE LockProcess
    BY <2>5 DEF LockProcess
  <2>6. CASE MirrorStep
    BY <2>6 DEF MirrorStep, SeeChange, Latch, SetActive, Free
  <2>7. CASE RtStep
    BY <2>7 DEF RtStep, BeginCycle, MidiEvent, MidiParam, SetParam, MidiDone, ProcessEvents,
                Buffers, Gate, Process, EndCycle, NotAudio
  <2>8. CASE UNCHANGED vars
    BY <2>8 DEF vars
  <2>. QED BY <2>1, <2>2, <2>3, <2>4, <2>5, <2>6, <2>7, <2>8 DEF Next
<1>3. LockTypeInv => Excluded
  BY DEF LockTypeInv, LockInv, Excluded
<1>. QED BY <1>1, <1>2, <1>3, PTL DEF Spec

-----------------------------------------------------------------------------
(* Part 2: EventQueue.                                                     *)

USE RingAssumption

Cells == Event \cup {ZeroEvent}

(* The state that Enqueue(e) leaves.                                       *)
NextRear(f, r) == IF eq_index_next(f) = r THEN eq_index_next(r) ELSE r
Written(es, f, e) == [es EXCEPT ![eq_index_next(f)] = e]

(* What Abstract!Send does to its queue.                                   *)
Pushed(q, e) == Append(IF Len(q) = MAX_EVENTS - 1 THEN Tail(q) ELSE q, e)

(* An index never leaves the ring, and moves by one place or to the start. *)
LEMMA IndexNext ==
  ASSUME NEW i \in Indices
  PROVE  /\ eq_index_next(i) \in Indices
         /\ eq_index_next(i) = IF i + 1 = MAX_EVENTS THEN 0 ELSE i + 1
BY DEF Indices, eq_index_next

(* Slots 1, 2, ... after rear: all different, and the last one is front.   *)
LEMMA SlotFacts ==
  ASSUME NEW f \in Indices, NEW r \in Indices
  PROVE  /\ Count(f, r) \in 0 .. MAX_EVENTS - 1
         /\ Count(f, r) = 0 <=> f = r
         /\ f # r => Slot(r, Count(f, r)) = f
         /\ eq_index_next(f) = Slot(r, Count(f, r) + 1)
         /\ eq_index_next(r) = Slot(r, 1)
         /\ eq_index_next(f) = r <=> Count(f, r) = MAX_EVENTS - 1
         /\ \A k \in 1 .. MAX_EVENTS : Slot(r, k) \in Indices
         /\ \A j, k \in 1 .. MAX_EVENTS : Slot(r, j) = Slot(r, k) => j = k
<1>. USE DEF Indices, Count, Slot
<1>1. eq_index_next(f) = Slot(r, Count(f, r) + 1) /\ eq_index_next(r) = Slot(r, 1)
  BY IndexNext
<1>2. \A j, k \in 1 .. MAX_EVENTS : Slot(r, j) = Slot(r, k) => j = k
  OBVIOUS
<1>3. \A k \in 1 .. MAX_EVENTS : Slot(r, k) \in Indices
  OBVIOUS
<1>4. Count(f, r) \in 0 .. MAX_EVENTS - 1 /\ (Count(f, r) = 0 <=> f = r)
  OBVIOUS
<1>5. f # r => Slot(r, Count(f, r)) = f
  OBVIOUS
<1>6. eq_index_next(f) = r <=> Count(f, r) = MAX_EVENTS - 1
  BY IndexNext
<1>. QED BY <1>1, <1>2, <1>3, <1>4, <1>5, <1>6

(* How the slots shift when front moves, and when rear moves.              *)
LEMMA FrontMoves ==
  ASSUME NEW f \in Indices, NEW r \in Indices, eq_index_next(f) # r
  PROVE  Count(eq_index_next(f), r) = Count(f, r) + 1
BY IndexNext DEF Indices, Count

LEMMA RearMoves ==
  ASSUME NEW f \in Indices, NEW r \in Indices, f # r
  PROVE  /\ Count(f, eq_index_next(r)) = Count(f, r) - 1
         /\ \A k \in 1 .. Count(f, r) - 1 : Slot(eq_index_next(r), k) = Slot(r, k + 1)
BY IndexNext DEF Indices, Count, Slot

LEMMA BothMove ==
  ASSUME NEW f \in Indices, NEW r \in Indices, eq_index_next(f) = r
  PROVE  /\ eq_index_next(f) # eq_index_next(r)
         /\ Count(eq_index_next(f), eq_index_next(r)) = Count(f, r)
         /\ \A k \in 1 .. Count(f, r) : Slot(eq_index_next(r), k) = Slot(r, k + 1)
BY IndexNext DEF Indices, Count, Slot

(* Contents as a sequence.                                                 *)
LEMMA ContentsFacts ==
  ASSUME NEW f \in Indices, NEW r \in Indices, NEW es \in [Indices -> Cells]
  PROVE  /\ Contents(es, f, r) \in Seq(Cells)
         /\ Len(Contents(es, f, r)) = Count(f, r)
         /\ \A k \in 1 .. Count(f, r) : Contents(es, f, r)[k] = es[Slot(r, k)]
<1>1. Count(f, r) \in Nat /\ \A k \in 1 .. Count(f, r) : es[Slot(r, k)] \in Cells
  BY SlotFacts
<1>2. Contents(es, f, r) \in [1 .. Count(f, r) -> Cells]
  BY <1>1 DEF Contents
<1>3. Contents(es, f, r) \in Seq(Cells)
  BY <1>1, <1>2, SeqDef
<1>. QED BY <1>1, <1>2, <1>3, LenProperties DEF Contents

-----------------------------------------------------------------------------
(* What Enqueue and Get do to Waiting.                                     *)

LEMMA EnqueueAppends ==
  ASSUME NEW f \in Indices, NEW r \in Indices, NEW es \in [Indices -> Cells], NEW e \in Cells,
         NEW f2, f2 = eq_index_next(f),
         NEW r2, r2 = NextRear(f, r),
         NEW es2, es2 = Written(es, f, e)
  PROVE  /\ f2 \in Indices /\ r2 \in Indices /\ es2 \in [Indices -> Cells]
         /\ f2 # r2 /\ es2[f2] = e
         /\ Contents(es2, f2, r2) = Pushed(Contents(es, f, r), e)
<1>. USE DEF NextRear, Written
<1>. DEFINE c == Count(f, r)
            q == Contents(es, f, r)
            kept == IF Len(q) = MAX_EVENTS - 1 THEN Tail(q) ELSE q
            c2 == Count(f2, r2)
<1>1. f2 \in Indices /\ r2 \in Indices /\ es2 \in [Indices -> Cells] /\ es2[f2] = e
  BY IndexNext
<1>2. f2 = Slot(r, c + 1) /\ c \in 0 .. MAX_EVENTS - 1
  BY SlotFacts
<1>3. q \in Seq(Cells) /\ Len(q) = c /\ \A k \in 1 .. c : q[k] = es[Slot(r, k)]
  BY ContentsFacts
<1>. HIDE DEF c, q
<1>4. /\ f2 # r2 /\ kept \in Seq(Cells) /\ Len(kept) = c2 - 1 /\ c2 \in Nat \ {0}
      /\ \A k \in 1 .. c2 - 1 : kept[k] = es[Slot(r2, k)] /\ Slot(r2, k) # f2
  <2>1. CASE f2 # r
    <3>1. r2 = r /\ c2 = c + 1 /\ c # MAX_EVENTS - 1
      BY <2>1, FrontMoves, SlotFacts DEF c
    <3>2. kept = q
      BY <1>3, <3>1
    <3>3. ASSUME NEW k \in 1 .. c PROVE Slot(r, k) # f2
      BY <1>2, <3>1, SlotFacts
    <3>. QED BY <1>2, <1>3, <2>1, <3>1, <3>2, <3>3
  <2>2. CASE f2 = r
    <3>1. /\ r2 = eq_index_next(r) /\ c2 = c /\ c = MAX_EVENTS - 1 /\ f2 # r2
          /\ \A k \in 1 .. c : Slot(r2, k) = Slot(r, k + 1)
      <4>1. eq_index_next(f) = r /\ r2 = eq_index_next(r)
        BY <2>2
      <4>. QED BY <4>1, BothMove, SlotFacts DEF c
    <3>2. /\ kept = Tail(q) /\ q # <<>>
      BY <1>3, <3>1, EmptySeq
    <3>3. /\ kept \in Seq(Cells) /\ Len(kept) = c - 1
          /\ \A k \in 1 .. c - 1 : kept[k] = q[k + 1]
      BY <1>3, <3>2, HeadTailProperties
    <3>4. ASSUME NEW k \in 1 .. c - 1
          PROVE  kept[k] = es[Slot(r2, k)] /\ Slot(r2, k) # f2
      <4>1. /\ k \in 1 .. c /\ k + 1 \in 1 .. c /\ k + 1 # c + 1
            /\ k + 1 \in 1 .. MAX_EVENTS /\ c + 1 \in 1 .. MAX_EVENTS
        BY <3>1
      <4>2. Slot(r, k + 1) # Slot(r, c + 1)
        BY <4>1, SlotFacts
      <4>. QED BY ONLY <1>2, <1>3, <3>1, <3>3, <4>1, <4>2
    <3>. QED BY <3>1, <3>3, <3>4
  <2>. QED BY <2>1, <2>2
<1>. HIDE DEF kept
<1>5. /\ Append(kept, e) \in Seq(Cells) /\ Len(Append(kept, e)) = c2
      /\ \A k \in 1 .. c2 - 1 : Append(kept, e)[k] = kept[k]
      /\ Append(kept, e)[c2] = e
  BY <1>4, AppendProperties
<1>6. /\ Contents(es2, f2, r2) \in Seq(Cells)
      /\ Len(Contents(es2, f2, r2)) = c2
      /\ \A k \in 1 .. c2 : Contents(es2, f2, r2)[k] = es2[Slot(r2, k)]
  <2>1. f2 \in Indices /\ r2 \in Indices /\ es2 \in [Indices -> Cells]
    BY <1>1
  <2>. QED BY ONLY <2>1, ContentsFacts
<1>7. ASSUME NEW k \in 1 .. c2
      PROVE  Contents(es2, f2, r2)[k] = Append(kept, e)[k]
  <2>1. CASE k = c2
    <3>1. Slot(r2, k) = f2
      BY ONLY <1>1, <1>4, <2>1, SlotFacts
    <3>. QED BY ONLY <1>1, <1>5, <1>6, <2>1, <3>1
  <2>2. CASE k # c2
    <3>1. k \in 1 .. c2 - 1
      BY <1>4, <2>2
    <3>2. Slot(r2, k) \in Indices
      <4>1. f2 \in Indices /\ r2 \in Indices
        BY <1>1
      <4>2. /\ Count(f2, r2) \in 0 .. MAX_EVENTS - 1
            /\ \A j \in 1 .. MAX_EVENTS : Slot(r2, j) \in Indices
        BY ONLY <4>1, SlotFacts
      <4>. QED BY <3>1, <4>2
    <3>. QED BY <1>4, <1>5, <1>6, <3>1, <3>2
  <2>. QED BY <2>1, <2>2
<1>8. Contents(es2, f2, r2) = Append(kept, e)
  BY <1>5, <1>6, <1>7, SeqEqual
<1>. QED BY <1>1, <1>4, <1>8 DEF kept, q, Pushed

LEMMA GetTakesHead ==
  ASSUME NEW f \in Indices, NEW r \in Indices, NEW es \in [Indices -> Cells], f # r,
         NEW r2, r2 = eq_index_next(r)
  PROVE  /\ Contents(es, f, r) # <<>>
         /\ es[r2] = Head(Contents(es, f, r))
         /\ Contents(es, f, r2) = Tail(Contents(es, f, r))
<1>. DEFINE c == Count(f, r)
            q == Contents(es, f, r)
<1>1. r2 \in Indices /\ r2 = Slot(r, 1) /\ c \in Nat \ {0}
  BY IndexNext, SlotFacts
<1>2. q \in Seq(Cells) /\ Len(q) = c /\ \A k \in 1 .. c : q[k] = es[Slot(r, k)]
  BY ContentsFacts
<1>3. /\ Count(f, r2) = c - 1
      /\ \A k \in 1 .. c - 1 : Slot(r2, k) = Slot(r, k + 1)
  BY RearMoves
<1>4. /\ Contents(es, f, r2) \in Seq(Cells)
      /\ Len(Contents(es, f, r2)) = c - 1
      /\ \A k \in 1 .. c - 1 : Contents(es, f, r2)[k] = es[Slot(r2, k)]
  <2>1. r2 \in Indices
    BY <1>1
  <2>2. /\ Contents(es, f, r2) \in Seq(Cells)
        /\ Len(Contents(es, f, r2)) = Count(f, r2)
        /\ \A k \in 1 .. Count(f, r2) : Contents(es, f, r2)[k] = es[Slot(r2, k)]
    BY <2>1, ContentsFacts, Zenon
  <2>. QED BY ONLY <2>2, <1>3
<1>. HIDE DEF c, q
<1>5. q # <<>> /\ Head(q) = q[1]
  BY <1>1, <1>2, EmptySeq
<1>6. /\ Tail(q) \in Seq(Cells) /\ Len(Tail(q)) = c - 1
      /\ \A k \in 1 .. c - 1 : Tail(q)[k] = q[k + 1]
  BY <1>2, <1>5, HeadTailProperties
<1>7. ASSUME NEW k \in 1 .. c - 1 PROVE Contents(es, f, r2)[k] = Tail(q)[k]
  <2>1. k + 1 \in 1 .. c
    BY <1>1
  <2>. QED BY <1>2, <1>3, <1>4, <1>6, <2>1
<1>8. Contents(es, f, r2) = Tail(q)
  BY <1>4, <1>6, <1>7, SeqEqual
<1>. QED BY <1>1, <1>2, <1>5, <1>8 DEF q

-----------------------------------------------------------------------------
(* The inductive invariant.                                                *)
LEMMA QueueInitIInv == QueueInit => QueueIInv
BY DEF QueueInit, QueueIInv, QueueTypeOK, WaitingSent, NewestArrives, Count, Indices

LEMMA QueueStepIInv == QueueIInv /\ [QueueNext]_queueVars => QueueIInv'
<1>. SUFFICES ASSUME QueueIInv, [QueueNext]_queueVars PROVE QueueIInv'
  OBVIOUS
<1>0. front \in Indices /\ rear \in Indices /\ events \in [Indices -> Cells]
  BY DEF QueueIInv, QueueTypeOK, Cells
<1>. DEFINE c == Count(front, rear)
<1>1. ASSUME NEW e \in Event, Enqueue(e) PROVE QueueIInv'
  <2>1. /\ front' = eq_index_next(front)
        /\ rear' = IF front' = rear THEN eq_index_next(rear) ELSE rear
        /\ events' = [events EXCEPT ![front'] = e]
        /\ newest' = e /\ got' = got
    BY <1>1 DEF Enqueue
  <2>2. /\ front' \in Indices /\ rear' \in Indices /\ events' \in [Indices -> Cells]
        /\ front' # rear' /\ events'[front'] = e
    BY <1>0, <2>1, EnqueueAppends DEF Cells, NextRear, Written
  <2>3. QueueTypeOK'
    BY <2>1, <2>2 DEF QueueIInv, QueueTypeOK, Cells
  <2>4. WaitingSent'
    <3>1. SUFFICES ASSUME NEW k \in 1 .. Count(front', rear')
                   PROVE  events'[Slot(rear', k)] \in Event
      BY DEF WaitingSent
    <3>2. CASE Slot(rear', k) = front'
      BY <2>2, <3>2
    <3>3. CASE Slot(rear', k) # front'
      <4>1. k # Count(front', rear') /\ k \in 1 .. MAX_EVENTS
        BY <2>2, <3>3, SlotFacts
      <4>2. Slot(rear', k) \in Indices
        BY <2>2, <4>1, SlotFacts
      <4>3. events'[Slot(rear', k)] = events[Slot(rear', k)]
        BY <1>0, <2>1, <3>3, <4>2
      <4>4. \E j \in 1 .. c : Slot(rear', k) = Slot(rear, j)
        <5>1. CASE front' = rear
          <6>1. eq_index_next(front) = rear
            BY <2>1, <5>1
          <6>2. Count(eq_index_next(front), eq_index_next(rear)) = c
            BY <1>0, <6>1, BothMove
          <6>3. front' = eq_index_next(front) /\ rear' = eq_index_next(rear)
            BY <2>1, <5>1
          <6>4. c \in Nat /\ k \in 1 .. c /\ k # c
            BY <1>0, <4>1, <6>2, <6>3, SlotFacts
          <6>5. Slot(rear', k) = Slot(rear, k + 1)
            BY <1>0, <6>1, <6>3, <6>4, BothMove
          <6>. QED BY <6>4, <6>5
        <5>2. CASE front' # rear
          <6>1. rear' = rear /\ Count(front', rear') = c + 1
            BY <1>0, <2>1, <5>2, FrontMoves
          <6>2. c \in Nat
            BY <1>0, SlotFacts
          <6>3. k \in 1 .. c
            BY <4>1, <6>1, <6>2
          <6>. QED BY <6>1, <6>3
        <5>. QED BY <5>1, <5>2
      <4>. QED BY <4>3, <4>4 DEF QueueIInv, WaitingSent
    <3>. QED BY <3>2, <3>3
  <2>5. NewestArrives'
    BY <2>1, <2>2 DEF NewestArrives
  <2>. QED BY <2>3, <2>4, <2>5 DEF QueueIInv
<1>2. CASE Get
  <2>1. /\ front' = front /\ front # rear /\ rear' = eq_index_next(rear)
        /\ got' = events[rear'] /\ events' = events /\ newest' = newest
    BY <1>2 DEF Get
  <2>2. rear' \in Indices /\ rear' = Slot(rear, 1) /\ 1 \in 1 .. c
    BY <1>0, <2>1, SlotFacts, IndexNext
  <2>3. got' \in Event
    BY <2>1, <2>2 DEF QueueIInv, WaitingSent
  <2>4. QueueTypeOK'
    BY <1>0, <2>1, <2>2, <2>3 DEF QueueIInv, QueueTypeOK
  <2>5. WaitingSent'
    <3>1. SUFFICES ASSUME NEW k \in 1 .. Count(front, rear')
                   PROVE  events[Slot(rear', k)] \in Event
      BY <2>1 DEF WaitingSent
    <3>2. k + 1 \in 1 .. c /\ Slot(rear', k) = Slot(rear, k + 1)
      BY <1>0, <2>1, RearMoves, SlotFacts
    <3>. QED BY <3>2 DEF QueueIInv, WaitingSent
  <2>6. NewestArrives'
    BY <2>1 DEF QueueIInv, NewestArrives
  <2>. QED BY <2>4, <2>5, <2>6 DEF QueueIInv
<1>3. CASE \E e \in Event : SkipDuplicate(e)
  BY <1>3 DEF SkipDuplicate, Duplicate, QueueIInv, QueueTypeOK, WaitingSent, NewestArrives
<1>4. CASE GetNothing
  BY <1>4 DEF GetNothing, QueueIInv, QueueTypeOK, WaitingSent, NewestArrives
<1>5. CASE UNCHANGED queueVars
  BY <1>5 DEF queueVars, QueueIInv, QueueTypeOK, WaitingSent, NewestArrives
<1>. QED BY <1>1, <1>2, <1>3, <1>4, <1>5 DEF QueueNext, Send

(* The inductive invariant of the ring.                                    *)
THEOREM RingInvariant == QueueSpec => []QueueIInv
BY QueueInitIInv, QueueStepIInv, PTL DEF QueueSpec

(* front and rear stay inside the ring and event_queue_get returns only    *)
(* events that were sent.                                                  *)
THEOREM QueueTypes == QueueSpec => []QueueTypeOK
<1>1. QueueIInv => QueueTypeOK
  BY DEF QueueIInv
<1>. QED BY <1>1, RingInvariant, PTL

(* However many events overflow, the newest one reaches jfst_idle, last.   *)
THEOREM NewestKept == QueueSpec => []NewestArrives
<1>1. QueueIInv => NewestArrives
  BY DEF QueueIInv
<1>. QED BY <1>1, RingInvariant, PTL

-----------------------------------------------------------------------------
(* The ring is a bounded FIFO that forgets its oldest event when it is     *)
(* full and drops repetitions: event_queue_send and event_queue_get, with  *)
(* the ring arithmetic and the wrap of the uint8_t indices.                *)
THEOREM RingIsFifo == QueueSpec => ImplementsFifo
<1>1. QueueInit => Abstract!FInit
  <2>. SUFFICES ASSUME QueueInit PROVE Abstract!FInit
    OBVIOUS
  <2>1. front \in Indices /\ rear \in Indices /\ events \in [Indices -> Cells]
    BY QueueInitIInv DEF QueueIInv, QueueTypeOK, Cells
  <2>2. Count(front, rear) = 0
    BY DEF QueueInit, Count
  <2>3. Waiting = <<>>
    BY <2>1, <2>2, ContentsFacts, EmptySeq DEF Waiting
  <2>. QED BY <2>3 DEF QueueInit, Abstract!FInit
<1>2. QueueIInv /\ [QueueNext]_queueVars => [Abstract!FNext]_Abstract!fvars
  <2>. SUFFICES ASSUME QueueIInv, [QueueNext]_queueVars PROVE [Abstract!FNext]_Abstract!fvars
    OBVIOUS
  <2>0. /\ front \in Indices /\ rear \in Indices /\ events \in [Indices -> Cells]
        /\ Waiting \in Seq(Cells) /\ Len(Waiting) = Count(front, rear)
        /\ \A k \in 1 .. Count(front, rear) : Waiting[k] = events[Slot(rear, k)]
        /\ (Waiting = <<>> <=> front = rear)
    <3>1. front \in Indices /\ rear \in Indices /\ events \in [Indices -> Cells]
      BY DEF QueueIInv, QueueTypeOK, Cells
    <3>2. /\ Waiting \in Seq(Cells) /\ Len(Waiting) = Count(front, rear)
          /\ \A k \in 1 .. Count(front, rear) : Waiting[k] = events[Slot(rear, k)]
      BY <3>1, ContentsFacts DEF Waiting
    <3>3. Count(front, rear) = 0 <=> front = rear
      BY <3>1, SlotFacts
    <3>4. Waiting = <<>> <=> Len(Waiting) = 0
      BY <3>2, EmptySeq
    <3>. QED BY <3>1, <3>2, <3>3, <3>4
  <2>1. ASSUME NEW e \in Event, Enqueue(e) PROVE Abstract!Send(e)
    <3>1. Waiting' = Pushed(Waiting, e)
      <4>1. /\ front' = eq_index_next(front)
            /\ rear' = NextRear(front, rear)
            /\ events' = Written(events, front, e)
        BY <2>1 DEF Enqueue, NextRear, Written
      <4>2. e \in Cells
        BY DEF Cells
      <4>3. Contents(events', front', rear') = Pushed(Contents(events, front, rear), e)
        BY <2>0, <4>1, <4>2, EnqueueAppends
      <4>. QED BY <4>3 DEF Waiting
    <3>. QED BY <2>1, <3>1 DEF Abstract!Send, Enqueue, Pushed
  <2>2. CASE Get
    <3>1. Waiting # <<>> /\ got' = Head(Waiting) /\ Waiting' = Tail(Waiting)
      BY <2>0, <2>2, GetTakesHead DEF Get, Waiting
    <3>. QED BY <3>1 DEF Abstract!Get, Abstract!FNext
  <2>3. CASE GetNothing
    BY <2>0, <2>3 DEF GetNothing, Abstract!GetNothing, Abstract!FNext, Waiting
  <2>4. ASSUME UNCHANGED <<events, front, rear, got>> PROVE UNCHANGED Abstract!fvars
    BY <2>4 DEF Waiting, Abstract!fvars
  <2>5. CASE \E e \in Event : SkipDuplicate(e)
    BY <2>4, <2>5 DEF SkipDuplicate
  <2>6. CASE UNCHANGED queueVars
    BY <2>4, <2>6 DEF queueVars
  <2>. QED BY <2>1, <2>2, <2>3, <2>5, <2>6 DEF QueueNext, Send, Abstract!FNext
<1>. QED BY <1>1, <1>2, RingInvariant, PTL DEF QueueSpec, Abstract!Fifo, ImplementsFifo
=============================================================================
