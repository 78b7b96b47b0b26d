--------------------------- MODULE JfstIdle_proofs ---------------------------
(***************************************************************************)
(* MIDI learn pairs what was moved with what was turned, and what JACK's   *)
(* threads ask for through the event queue arrives, however the accesses   *)
(* of the threads interleave: for a ring of any size and any number of     *)
(* controllers, parameters, events, sends and learnings.                   *)
(***************************************************************************)
EXTENDS JfstIdle, Integers, SequenceTheorems, TLAPS

Session == [k : Nat, by : {"nobody", "client", "button"},
            moved : SUBSET CCs, touched : SUBSET Params, paired : BOOLEAN]

LearnTypes == session \in Session /\ hasty \in BOOLEAN /\ stray \in BOOLEAN

(* What is noted, or about to be, was moved or turned in this learning.    *)
NotedNow ==
  /\ moving # Nil => moving \in session.moved
  /\ lpc # "reset" /\ cc # Nil => cc \in session.moved
  /\ param # Nil => param \in session.touched
  /\ ipc = "automate" => held[2] \in session.touched

(* What jfst_idle has tested is still there when it makes the pair.        *)
TestedHolds ==
  ipc = "pair" =>
    /\ held[1] # Nil /\ held[1] \in session.moved /\ held[2] \in session.touched
    /\ cc # Nil /\ param # Nil /\ lpc # "reset"
    /\ ~session.paired

(* A learning that has its pair is over, or is being ended.                *)
OneEach == session.paired => ipc = "clear" \/ ~wait

LearnInv == LearnTypes /\ (hasty \/ (NotedNow /\ TestedHolds /\ OneEach))

(* What the learning's steps may do to the map.                            *)
GoodPair ==
  map' # map \/ stray' # stray =>
    \/ hasty
    \/ /\ ~session.paired
       /\ \E c \in session.moved, q \in session.touched : map' = [map EXCEPT ![c] = q]

(* The steps of the queue are no business of the learning, but where they  *)
(* tell jfst_idle to handle an event.                                      *)
LEMMA QueueSteps ==
  ASSUME LearnInv,
         \/ \E low \in BOOLEAN : StateCC(low)
         \/ \E e \in Event : e.type = "PC" /\ ProgramChange(e.value)
         \/ NewPorts
         \/ \E p \in Producers : Send(p)
         \/ GetEvent \/ TakeEvent \/ Handle
  PROVE  LearnInv' /\ GoodPair
<1>1. UNCHANGED <<wait, cc, param, map, lpc, moving, held, session, stray, hasty>>
  BY DEF StateCC, ProgramChange, NewPorts, Send, GetEvent, TakeEvent, Handle, learning, ml
<1>2. ipc' = ipc \/ (ipc' \in {"queue", "handle"} /\ ipc \in {"queue", "handle"})
  BY DEF StateCC, ProgramChange, NewPorts, Send, GetEvent, TakeEvent, Handle
<1>3. LearnTypes'
  BY <1>1 DEF LearnInv, LearnTypes
<1>4. ASSUME ~hasty PROVE NotedNow' /\ TestedHolds' /\ OneEach'
  BY <1>1, <1>2, <1>4 DEF LearnInv, NotedNow, TestedHolds, OneEach
<1>. QED BY <1>1, <1>3, <1>4 DEF LearnInv, LearnTypes, GoodPair

LEMMA StutterStep ==
  ASSUME LearnInv, UNCHANGED vars
  PROVE  LearnInv' /\ GoodPair
<1>1. UNCHANGED <<ipc, wait, cc, param, map, lpc, moving, held, session, stray, hasty>>
  BY DEF vars, learning, ml
<1>. QED BY <1>1 DEF LearnInv, LearnTypes, NotedNow, TestedHolds, OneEach, GoodPair

(* A controller is moved while learning.                                   *)
LEMMA MoveStep ==
  ASSUME LearnInv, NEW c \in CCs, MoveCC(c)
  PROVE  LearnInv' /\ GoodPair
<1>1. /\ moving' = c /\ session' = [session EXCEPT !.moved = @ \cup {c}]
      /\ UNCHANGED <<ipc, wait, cc, param, map, lpc, held, stray, hasty>>
  BY DEF MoveCC, ml
<1>2. /\ session' \in Session
      /\ session'.moved = session.moved \cup {c}
      /\ session'.touched = session.touched /\ session'.paired = session.paired
  BY <1>1 DEF LearnInv, LearnTypes, Session
<1>3. ASSUME ~hasty PROVE NotedNow' /\ TestedHolds' /\ OneEach'
  BY <1>1, <1>2, <1>3 DEF LearnInv, NotedNow, TestedHolds, OneEach
<1>. QED BY <1>1, <1>2, <1>3 DEF LearnInv, LearnTypes, GoodPair

LEMMA NoteStep ==
  ASSUME LearnInv, NoteCC
  PROVE  LearnInv' /\ GoodPair
<1>1. /\ moving # Nil /\ cc' = moving /\ moving' = Nil
      /\ UNCHANGED <<ipc, wait, param, map, lpc, held, session, stray, hasty>>
  BY DEF NoteCC
<1>. QED BY <1>1 DEF LearnInv, LearnTypes, NotedNow, TestedHolds, OneEach, GoodPair

(* A knob is turned while learning.                                        *)
LEMMA TurnStep ==
  ASSUME LearnInv, NEW q \in Params, TurnKnob(q)
  PROVE  LearnInv' /\ GoodPair
<1>1. /\ ipc = "queue" /\ ipc' = "automate" /\ wait
      /\ held' = <<Nil, q>> /\ session' = [session EXCEPT !.touched = @ \cup {q}]
      /\ UNCHANGED <<wait, cc, param, map, lpc, moving, stray, hasty>>
  BY DEF TurnKnob, ml
<1>2. /\ session' \in Session
      /\ session'.touched = session.touched \cup {q}
      /\ session'.moved = session.moved /\ session'.paired = session.paired
  BY <1>1 DEF LearnInv, LearnTypes, Session
<1>3. held'[2] = q
  BY <1>1
<1>4. ASSUME ~hasty PROVE NotedNow' /\ TestedHolds' /\ OneEach'
  BY <1>1, <1>2, <1>3, <1>4 DEF LearnInv, NotedNow, TestedHolds, OneEach
<1>. QED BY <1>1, <1>2, <1>4 DEF LearnInv, LearnTypes, GoodPair

LEMMA NoteKnobStep ==
  ASSUME LearnInv, NoteKnob
  PROVE  LearnInv' /\ GoodPair
<1>1. /\ ipc = "automate" /\ ipc' = "queue" /\ param' = held[2]
      /\ UNCHANGED <<wait, cc, map, lpc, moving, held, session, stray, hasty>>
  BY DEF NoteKnob
<1>. QED BY <1>1 DEF LearnInv, LearnTypes, NotedNow, TestedHolds, OneEach, GoodPair

(* jfst_idle tests, makes the pair, and ends the learning.                 *)
LEMMA TestStep ==
  ASSUME LearnInv, TestLearn
  PROVE  LearnInv' /\ GoodPair
<1>1. /\ ipc = "queue" /\ ipc' = "pair" /\ wait /\ cc # Nil /\ param # Nil
      /\ held' = <<cc, param>> /\ hasty' = (hasty \/ lpc = "reset")
      /\ UNCHANGED <<wait, cc, param, map, lpc, moving, session, stray>>
  BY DEF TestLearn, LoopDone, ml
<1>2. held'[1] = cc /\ held'[2] = param
  BY <1>1
<1>3. ASSUME ~hasty' PROVE NotedNow' /\ TestedHolds' /\ OneEach'
  BY <1>1, <1>2, <1>3 DEF LearnInv, NotedNow, TestedHolds, OneEach
<1>. QED BY <1>1, <1>3 DEF LearnInv, LearnTypes, GoodPair

LEMMA PairStep ==
  ASSUME LearnInv, Pair
  PROVE  LearnInv' /\ GoodPair
<1>1. /\ ipc = "pair" /\ ipc' = "clear"
      /\ session' = [session EXCEPT !.paired = TRUE]
      /\ UNCHANGED <<wait, cc, param, lpc, moving, held, hasty>>
  BY DEF Pair
<1>2. PICK c \in {held[1], cc}, q \in {held[2], param} :
        IF c = Nil THEN stray' = TRUE /\ UNCHANGED map
                   ELSE map' = [map EXCEPT ![c] = q] /\ UNCHANGED stray
  BY DEF Pair
<1>3. /\ session' \in Session /\ session'.paired
      /\ session'.moved = session.moved /\ session'.touched = session.touched
  BY <1>1 DEF LearnInv, LearnTypes, Session
<1>4. stray' \in BOOLEAN
  BY <1>2 DEF LearnInv, LearnTypes
<1>5. ASSUME ~hasty PROVE NotedNow' /\ TestedHolds' /\ OneEach'
  BY <1>1, <1>3, <1>5 DEF LearnInv, NotedNow, TestedHolds, OneEach
<1>6. ASSUME ~hasty
      PROVE  ~session.paired /\ c # Nil /\ c \in session.moved /\ q \in session.touched
  BY <1>1, <1>6 DEF LearnInv, NotedNow, TestedHolds
<1>7. GoodPair
  BY <1>2, <1>6 DEF GoodPair
<1>. QED BY <1>1, <1>3, <1>4, <1>5, <1>7 DEF LearnInv, LearnTypes

LEMMA ClearStep ==
  ASSUME LearnInv, ClearWait
  PROVE  LearnInv' /\ GoodPair
<1>1. /\ ipc = "clear" /\ ipc' = "queue" /\ wait' = FALSE
      /\ UNCHANGED <<cc, param, map, lpc, moving, held, session, stray, hasty>>
  BY DEF ClearWait
<1>. QED BY <1>1 DEF LearnInv, LearnTypes, NotedNow, TestedHolds, OneEach, GoodPair

(* jfst_midi_learn.                                                        *)
LEMMA StartStep ==
  ASSUME LearnInv, NEW by \in {"client", "button"}, Start(by)
  PROVE  LearnInv' /\ GoodPair
<1>1. /\ lpc' = "reset" /\ param' = Nil
      /\ session' = [NoSession EXCEPT !.k = session.k + 1, !.by = by]
      /\ hasty' = (hasty \/ Busy)
      /\ UNCHANGED <<ipc, wait, map, moving, held, stray>>
  BY DEF Start
<1>2. session' \in Session /\ ~session'.paired
  <2>1. session' = [k |-> session.k + 1, by |-> by, moved |-> {}, touched |-> {},
                    paired |-> FALSE]
    BY <1>1 DEF NoSession
  <2>2. session.k + 1 \in Nat
    BY DEF LearnInv, LearnTypes, Session
  <2>. QED BY <2>1, <2>2 DEF Session
<1>3. hasty' \in BOOLEAN
  BY <1>1 DEF LearnInv, LearnTypes, Busy
<1>4. ASSUME ~hasty' PROVE NotedNow' /\ TestedHolds' /\ OneEach'
  BY <1>1, <1>2, <1>4 DEF Busy, NotedNow, TestedHolds, OneEach
<1>. QED BY <1>1, <1>2, <1>3, <1>4 DEF LearnInv, LearnTypes, GoodPair

LEMMA ResetStep ==
  ASSUME LearnInv, ResetCC
  PROVE  LearnInv' /\ GoodPair
<1>1. /\ cc' = Nil /\ session' = [session EXCEPT !.moved = {}]
      /\ hasty' = (hasty \/ Busy)
      /\ UNCHANGED <<ipc, wait, param, map, moving, held, stray>>
  BY DEF ResetCC
<1>2. /\ session' \in Session
      /\ session'.touched = session.touched /\ session'.paired = session.paired
  BY <1>1 DEF LearnInv, LearnTypes, Session
<1>3. hasty' \in BOOLEAN
  BY <1>1 DEF LearnInv, LearnTypes, Busy
<1>4. ASSUME ~hasty' PROVE NotedNow' /\ TestedHolds' /\ OneEach'
  BY <1>1, <1>2, <1>4 DEF Busy, LearnInv, NotedNow, TestedHolds, OneEach
<1>. QED BY <1>1, <1>2, <1>3, <1>4 DEF LearnInv, LearnTypes, GoodPair

LEMMA SetWaitStep ==
  ASSUME LearnInv, SetWait
  PROVE  LearnInv' /\ GoodPair
<1>1. /\ wait' = TRUE /\ hasty' = (hasty \/ Busy \/ session.paired)
      /\ lpc = "wait" /\ lpc' = "idle"
      /\ UNCHANGED <<ipc, cc, param, map, moving, held, session, stray>>
  BY DEF SetWait
<1>2. hasty' \in BOOLEAN
  BY <1>1 DEF LearnInv, LearnTypes, Busy, Session
<1>3. ASSUME ~hasty' PROVE NotedNow' /\ TestedHolds' /\ OneEach'
  BY <1>1, <1>3 DEF LearnInv, NotedNow, TestedHolds, OneEach
<1>. QED BY <1>1, <1>2, <1>3 DEF LearnInv, LearnTypes, GoodPair

LEMMA StopSteps ==
  ASSUME LearnInv,
         (\E by \in {"client", "button"} : Stop(by)) \/ Mirror
  PROVE  LearnInv' /\ GoodPair
<1>1. UNCHANGED <<ipc, cc, param, map, lpc, moving, held, stray>>
  BY DEF Stop, Mirror
<1>2. StopLearning \/ UNCHANGED <<wait, session, hasty>>
  BY DEF Stop, Mirror
<1>3. CASE UNCHANGED <<wait, session, hasty>>
  BY <1>1, <1>3 DEF LearnInv, LearnTypes, NotedNow, TestedHolds, OneEach, GoodPair
<1>4. CASE StopLearning
  <2>1. /\ session' \in Session /\ session'.paired = session.paired
        /\ session'.moved = session.moved /\ session'.touched = session.touched
    BY <1>4 DEF StopLearning, LearnInv, LearnTypes, Session
  <2>2. ~wait' /\ hasty' \in BOOLEAN /\ (hasty => hasty')
    BY <1>4 DEF StopLearning, LearnInv, LearnTypes, Busy
  <2>3. ASSUME ~hasty' PROVE NotedNow' /\ TestedHolds' /\ OneEach'
    BY <1>1, <2>1, <2>2, <2>3 DEF LearnInv, NotedNow, TestedHolds, OneEach
  <2>. QED BY <1>1, <2>1, <2>2, <2>3 DEF LearnInv, LearnTypes, GoodPair
<1>. QED BY <1>2, <1>3, <1>4

LEMMA LearnStep ==
  ASSUME LearnInv, [Next]_vars
  PROVE  LearnInv' /\ GoodPair
<1>1. CASE UNCHANGED vars
  BY <1>1, StutterStep
<1>2. CASE \/ \E low \in BOOLEAN : StateCC(low)
           \/ \E e \in Event : e.type = "PC" /\ ProgramChange(e.value)
           \/ NewPorts
           \/ \E p \in Producers : Send(p)
           \/ GetEvent \/ TakeEvent \/ Handle
  BY <1>2, QueueSteps
<1>3. CASE \E c \in CCs : MoveCC(c)
  BY <1>3, MoveStep
<1>4. CASE \E q \in Params : TurnKnob(q)
  BY <1>4, TurnStep
<1>5. CASE \E by \in {"client", "button"} : Start(by)
  BY <1>5, StartStep
<1>6. CASE (\E by \in {"client", "button"} : Stop(by)) \/ Mirror
  BY <1>6, StopSteps
<1>7. CASE NoteCC
  BY <1>7, NoteStep
<1>8. CASE NoteKnob
  BY <1>8, NoteKnobStep
<1>9. CASE TestLearn
  BY <1>9, TestStep
<1>10. CASE Pair
  BY <1>10, PairStep
<1>11. CASE ClearWait
  BY <1>11, ClearStep
<1>12. CASE SetWait
  BY <1>12, SetWaitStep
<1>13. CASE ResetCC
  BY <1>13, ResetStep
<1>. QED BY <1>1, <1>2, <1>3, <1>4, <1>5, <1>6, <1>7, <1>8, <1>9, <1>10, <1>11, <1>12, <1>13
         DEF Next, IdleStep

(* The inductive invariant of MIDI learn: unless somebody has switched it  *)
(* in the middle of its use, what is noted belongs to the learning that    *)
(* goes on.                                                                *)
THEOREM LearnInvariant == Spec => []LearnInv
<1>1. ASSUME Init PROVE LearnInv
  <2>1. NoSession \in Session /\ ~NoSession.paired
    BY DEF NoSession, Session
  <2>2. /\ session = NoSession /\ ~hasty /\ ~stray /\ ipc = "queue" /\ ~wait
        /\ cc = Nil /\ param = Nil /\ moving = Nil
        /\ hasty \in BOOLEAN /\ stray \in BOOLEAN
    BY <1>1 DEF Init
  <2>. QED BY <2>1, <2>2 DEF LearnInv, LearnTypes, NotedNow, TestedHolds, OneEach
<1>2. LearnInv /\ [Next]_vars => LearnInv'
  BY LearnStep
<1>. QED BY <1>1, <1>2, PTL DEF Spec

(* MIDI learn maps what was moved to what was turned since it began, once  *)
(* for each learning, and never writes in front of the map: jfst_idle's    *)
(* test and its use of cc and param are apart, and still agree.            *)
THEOREM PairsLearned == Spec => LearnsPairs
<1>1. LearnInv /\ [Next]_vars => [GoodPair]_vars
  BY LearnStep
<1>. QED BY <1>1, LearnInvariant, PTL DEF Spec, LearnsPairs, GoodPair

(* A learning goes on.                                                     *)

StillLearning ==
  \/ hasty
  \/ /\ ipc = "clear" => session.paired
     /\ session.by # "nobody" /\ ~session.paired /\ lpc = "idle" => wait

LEMMA StillStep ==
  ASSUME LearnInv, StillLearning, [Next]_vars
  PROVE  StillLearning'
<1>. USE DEF StillLearning
<1>1. CASE UNCHANGED vars
  BY <1>1 DEF vars, learning, ml
<1>2. CASE \/ \E low \in BOOLEAN : StateCC(low)
           \/ \E e \in Event : e.type = "PC" /\ ProgramChange(e.value)
           \/ NewPorts
           \/ \E p \in Producers : Send(p)
           \/ GetEvent \/ TakeEvent \/ Handle
  <2>1. UNCHANGED learning /\ (ipc' = "clear" => ipc = "clear")
    BY <1>2 DEF StateCC, ProgramChange, NewPorts, Send, GetEvent, TakeEvent, Handle
  <2>. QED BY <2>1 DEF learning, ml
<1>3. CASE \/ \E c \in CCs : MoveCC(c)
           \/ \E q \in Params : TurnKnob(q)
  <2>1. /\ UNCHANGED <<wait, lpc, hasty>> /\ (ipc' = "clear" => ipc = "clear")
        /\ \/ \E c \in CCs : session' = [session EXCEPT !.moved = @ \cup {c}]
           \/ \E q \in Params : session' = [session EXCEPT !.touched = @ \cup {q}]
    BY <1>3 DEF MoveCC, TurnKnob, ml
  <2>2. session'.by = session.by /\ session'.paired = session.paired
    BY <2>1 DEF LearnInv, LearnTypes, Session
  <2>. QED BY <2>1, <2>2
<1>4. CASE NoteCC \/ NoteKnob \/ TestLearn
  <2>1. UNCHANGED <<wait, lpc, session>> /\ (ipc' = "clear" => ipc = "clear")
    BY <1>4 DEF NoteCC, NoteKnob, TestLearn, ml
  <2>2. hasty' = hasty \/ hasty' = (hasty \/ lpc = "reset")
    BY <1>4 DEF NoteCC, NoteKnob, TestLearn
  <2>. QED BY <2>1, <2>2
<1>5. CASE Pair
  <2>1. session' = [session EXCEPT !.paired = TRUE] /\ UNCHANGED <<wait, lpc, hasty>>
    BY <1>5 DEF Pair
  <2>2. session'.paired
    BY <2>1 DEF LearnInv, LearnTypes, Session
  <2>. QED BY <2>1, <2>2
<1>6. CASE ClearWait
  BY <1>6 DEF ClearWait
<1>7. CASE \E by \in {"client", "button"} : Start(by)
  <2>1. lpc' = "reset" /\ hasty' = (hasty \/ Busy) /\ UNCHANGED ipc
    BY <1>7 DEF Start
  <2>. QED BY <2>1 DEF Busy
<1>8. CASE SetWait
  <2>1. /\ wait' = TRUE /\ hasty' = (hasty \/ Busy \/ session.paired)
        /\ UNCHANGED <<ipc, session>>
    BY <1>8 DEF SetWait
  <2>. QED BY <2>1 DEF Busy
<1>9. CASE (\E by \in {"client", "button"} : Stop(by)) \/ Mirror
  <2>1. UNCHANGED <<ipc, lpc>> /\ (StopLearning \/ UNCHANGED <<wait, session, hasty>>)
    BY <1>9 DEF Stop, Mirror
  <2>2. CASE StopLearning
    <3>1. session'.by = "nobody" /\ session'.paired = session.paired
      BY <2>2 DEF StopLearning, LearnInv, LearnTypes, Session
    <3>. QED BY <2>1, <2>2, <3>1 DEF StopLearning
  <2>. QED BY <2>1, <2>2
<1>10. CASE ResetCC
  <2>1. lpc' = "wait" /\ hasty' = (hasty \/ Busy) /\ UNCHANGED ipc
    BY <1>10 DEF ResetCC
  <2>. QED BY <2>1 DEF Busy
<1>. QED BY <1>1, <1>2, <1>3, <1>4, <1>5, <1>6, <1>7, <1>8, <1>9, <1>10 DEF Next, IdleStep

(* A learning that has begun is not forgotten: wait stays set until it has *)
(* its pair, somebody stops it or another begins.                          *)
THEOREM LearningGoesOn == Spec => []GoesOn
<1>1. Init => StillLearning
  BY DEF Init, StillLearning, NoSession
<1>2. LearnInv /\ StillLearning /\ [Next]_vars => StillLearning'
  BY StillStep
<1>3. StillLearning => GoesOn
  BY DEF StillLearning, GoesOn
<1>. QED BY <1>1, <1>2, <1>3, LearnInvariant, PTL DEF Spec

-----------------------------------------------------------------------------
(* The events on their way.  A ring of MAX_EVENTS slots is read forwards    *)
(* from rear: Gap says how far on a slot is.                                *)

Gap(i, r) == IF i >= r THEN i - r ELSE i - r + MAX_EVENTS

Active(p) == pc[p] \in {"store", "full", "bump", "write"}

(* The gap of the slot that was filled last: front's, but the one before    *)
(* when a send has announced front and not filled it, and that is a whole   *)
(* round on when front has come up to a rear that is about to move.         *)
Newest ==
  IF ~Announced THEN Gap(front, rear)
  ELSE IF front = rear /\ cpc # "use" THEN MAX_EVENTS - 1
  ELSE Gap(front, rear) - 1

Pending(i) == Gap(i, rear) <= Newest /\ (i # rear \/ cpc = "use")

(* A send that is about to find the ring full, and to move rear.            *)
Doomed == cpc = "use" /\ front = rear /\ \E p \in Producers : pc[p] = "full"

(* One send at a time is past the test for duplicates, and the registers    *)
(* of both sides agree with front and rear.                                 *)
RingInv ==
  /\ \A p, q \in Producers : Active(p) /\ Active(q) => p = q
  /\ \A p \in Producers :
       /\ pc[p] = "store" => reg[p] = eq_index_next(front)
       /\ pc[p] \in {"full", "write"} => reg[p] = front
       /\ pc[p] # "bump"
       /\ pc[p] = "write" => front # rear \/ cpc = "use"
  /\ cpc \in {"load", "store"} => front # rear \/ Announced
  /\ cpc = "store" => creg = eq_index_next(rear)
  /\ cpc = "use" => creg = rear

(* The slot taken last still holds the event that was handled: a send that  *)
(* is skipped for it is skipped rightly.                                    *)
TakenInv ==
  /\ cpc # "use" /\ got # Nil => events[rear] = got
  /\ \A p \in Producers : pc[p] = "compare" /\ front = rear /\ ~Announced =>
       cpc = "use" \/ got # Nil
  /\ pc["notification"] = "compare" /\ front = rear /\ ~Announced /\ cpc # "use"
       /\ ipc # "handle" /\ got.type = "GRAPH" => connected

(* What was handled last was done, and what is sent is what was asked for.  *)
Wanted(t) == IF t = "BYPASS" THEN IF asked.bypass THEN 1 ELSE 0 ELSE asked.program

HandledInv ==
  /\ ipc # "handle" /\ got # Nil =>
       /\ got.type = "BYPASS" => bypassed = (got.value = 1)
       /\ got.type = "PC" => program = got.value
  /\ ipc = "handle" => got # Nil
  /\ cpc # "test" => ipc = "queue"

SentInv ==
  /\ pc["process"] # "idle" => /\ ev["process"].type \in {"BYPASS", "PC"}
                               /\ ev["process"].value = Wanted(ev["process"].type)
  /\ pc["notification"] # "idle" => ev["notification"].type = "GRAPH"

(* What is asked for is being sent, or the newest event of its kind will    *)
(* see to it, or it is done.                                                *)
Reached(t) == IF t = "BYPASS" THEN bypassed = asked.bypass ELSE program = asked.program

Sending(p, t) == pc[p] # "idle" /\ ev[p].type = t

Handling(t) == ipc = "handle" /\ got.type = t

Queued(t) ==
  \E i \in Indices :
    /\ Pending(i) /\ events[i].type = t /\ events[i].value = Wanted(t)
    /\ \A j \in Indices :
         Pending(j) /\ events[j].type = t => Gap(j, rear) <= Gap(i, rear)

Settled(t) ==
  /\ \A j \in Indices : Pending(j) => events[j].type # t
  /\ IF Handling(t) THEN got.value = Wanted(t) ELSE Reached(t)

Connects ==
  \/ Sending("notification", "GRAPH") \/ connected \/ Handling("GRAPH")
  \/ \E i \in Indices : Pending(i) /\ events[i].type = "GRAPH"

Arrives ==
  /\ \A t \in {"BYPASS", "PC"} : Sending("process", t) \/ Queued(t) \/ Settled(t)
  /\ Connects

Facts == TypeOK /\ HandledInv /\ SentInv

QueueInv == Facts /\ (spoiled \/ (RingInv /\ TakenInv /\ (Doomed \/ Arrives)))

-----------------------------------------------------------------------------
(* The types.                                                              *)

LEMMA NextIndex ==
  ASSUME NEW i \in Indices
  PROVE  eq_index_next(i) \in Indices
         /\ eq_index_next(i) = IF i = MAX_EVENTS - 1 THEN 0 ELSE i + 1
BY RingAssumption DEF Indices, eq_index_next

(* Who begins a send.                                                      *)
LEMMA SendersBegin ==
  ASSUME \/ \E low \in BOOLEAN : StateCC(low)
         \/ \E e \in Event : e.type = "PC" /\ ProgramChange(e.value)
         \/ NewPorts
  PROVE  \E p \in Producers, e \in Event : Begin(p, e)
<1>1. ASSUME NEW low \in BOOLEAN, StateCC(low)
      PROVE  \E p \in Producers, e \in Event : Begin(p, e)
  <2>1. [type |-> "BYPASS", value |-> IF low THEN 1 ELSE 0] \in Event
    BY EventsAssumption
  <2>. QED BY <1>1, <2>1 DEF StateCC, Producers
<1>2. ASSUME NEW e \in Event, e.type = "PC", ProgramChange(e.value)
      PROVE  \E p \in Producers, x \in Event : Begin(p, x)
  <2>1. e = [type |-> "PC", value |-> e.value]
    BY <1>2, EventsAssumption
  <2>. QED BY <1>2, <2>1 DEF ProgramChange, Producers
<1>3. ASSUME NewPorts
      PROVE  \E p \in Producers, e \in Event : Begin(p, e)
  BY <1>3, EventsAssumption DEF NewPorts, Producers
<1>. QED BY <1>1, <1>2, <1>3

(* What a step does to the queue.                                          *)
LEMMA QueueMoves ==
  ASSUME [Next]_vars
  PROVE  \/ UNCHANGED queue
         \/ \E p \in Producers, e \in Event : Begin(p, e)
         \/ \E p \in Producers : SendStep(p)
         \/ GetTest \/ LoadRear \/ StoreRear \/ UseSlot
<1>1. CASE UNCHANGED vars
  BY <1>1 DEF vars
<1>2. ASSUME \/ \E low \in BOOLEAN : StateCC(low)
             \/ \E e \in Event : e.type = "PC" /\ ProgramChange(e.value)
             \/ NewPorts
      PROVE  \E p \in Producers, e \in Event : Begin(p, e)
  BY <1>2, SendersBegin
<1>3. ASSUME \/ \E c \in CCs : MoveCC(c)
             \/ NoteCC \/ NoteKnob \/ (\E q \in Params : TurnKnob(q))
             \/ (\E by \in {"client", "button"} : Start(by) \/ Stop(by))
             \/ ResetCC \/ SetWait \/ Mirror \/ Handle \/ TestLearn \/ Pair \/ ClearWait
      PROVE  UNCHANGED queue
  BY <1>3 DEF MoveCC, NoteCC, NoteKnob, TurnKnob, Start, ResetCC, Stop, SetWait, Mirror, Handle,
     TestLearn, Pair, ClearWait
<1>. QED BY <1>1, <1>2, <1>3 DEF Next, IdleStep, Send, GetEvent, TakeEvent

LEMMA QueueTypeStep ==
  ASSUME QueueTypeOK, [Next]_vars
  PROVE  QueueTypeOK'
<1>. USE DEF QueueTypeOK
<1>1. CASE UNCHANGED queue
  BY <1>1 DEF queue, consumer
<1>2. ASSUME NEW p \in Producers, NEW e \in Event, Begin(p, e) PROVE QueueTypeOK'
  BY <1>2 DEF Begin, GoTo, consumer
<1>3. ASSUME NEW p \in Producers, SendStep(p) PROVE QueueTypeOK'
  <2>1. CASE Compare(p)
    BY <2>1 DEF Compare, GoTo, consumer
  <2>2. CASE LoadFront(p)
    BY <2>2, NextIndex DEF LoadFront, GoTo, consumer
  <2>3. CASE StoreFront(p)
    BY <2>3 DEF StoreFront, GoTo, consumer
  <2>4. CASE TestFull(p)
    BY <2>4 DEF TestFull, GoTo, consumer
  <2>5. CASE BumpRear(p)
    BY <2>5, NextIndex DEF BumpRear, GoTo, consumer
  <2>6. CASE WriteSlot(p)
    BY <2>6 DEF WriteSlot, GoTo, consumer
  <2>. QED BY <1>3, <2>1, <2>2, <2>3, <2>4, <2>5, <2>6 DEF SendStep
<1>4. CASE GetTest
  BY <1>4 DEF GetTest, producers
<1>5. CASE LoadRear
  BY <1>5, NextIndex DEF LoadRear, producers
<1>6. CASE StoreRear
  BY <1>6 DEF StoreRear, producers
<1>7. CASE UseSlot
  BY <1>7 DEF UseSlot, producers
<1>. QED BY QueueMoves, <1>1, <1>2, <1>3, <1>4, <1>5, <1>6, <1>7

(* Which of what MIDI learn keeps a step changes.                          *)
LearnTypesOK ==
  /\ wait \in BOOLEAN /\ cc \in CCs \cup {Nil} /\ param \in Params \cup {Nil}
  /\ map \in [CCs -> Params \cup {Nil}]
  /\ lpc \in {"idle", "reset", "wait"} /\ moving \in CCs \cup {Nil}
  /\ held \in (CCs \cup {Nil}) \X (Params \cup {Nil})

LEMMA LearnTypeStep ==
  ASSUME LearnTypesOK, [Next]_vars
  PROVE  LearnTypesOK'
<1>. USE DEF LearnTypesOK
<1>1. CASE UNCHANGED vars
  BY <1>1 DEF vars, learning, ml
<1>2. CASE \/ \E low \in BOOLEAN : StateCC(low)
           \/ \E e \in Event : e.type = "PC" /\ ProgramChange(e.value)
           \/ NewPorts
           \/ \E p \in Producers : Send(p)
           \/ GetEvent \/ TakeEvent \/ Handle
  <2>1. UNCHANGED learning
    BY <1>2 DEF StateCC, ProgramChange, NewPorts, Send, GetEvent, TakeEvent, Handle
  <2>. QED BY <2>1 DEF learning, ml
<1>3. CASE \E c \in CCs : MoveCC(c)
  BY <1>3 DEF MoveCC, ml
<1>4. CASE \E q \in Params : TurnKnob(q)
  BY <1>4 DEF TurnKnob, ml
<1>5. CASE NoteCC
  BY <1>5 DEF NoteCC
<1>6. CASE NoteKnob
  <2>1. held[2] \in Params \cup {Nil}
    OBVIOUS
  <2>. QED BY <1>6, <2>1 DEF NoteKnob
<1>7. CASE TestLearn
  BY <1>7 DEF TestLearn, ml
<1>8. CASE Pair
  <2>1. PICK c \in {held[1], cc}, q \in {held[2], param} :
          IF c = Nil THEN stray' = TRUE /\ UNCHANGED map
                     ELSE map' = [map EXCEPT ![c] = q] /\ UNCHANGED stray
    BY <1>8 DEF Pair
  <2>2. held[2] \in Params \cup {Nil} /\ held[1] \in CCs \cup {Nil}
    OBVIOUS
  <2>3. map' \in [CCs -> Params \cup {Nil}]
    BY <2>1, <2>2
  <2>. QED BY <1>8, <2>3 DEF Pair
<1>9. CASE ClearWait
  BY <1>9 DEF ClearWait
<1>10. CASE \E by \in {"client", "button"} : Start(by)
  BY <1>10 DEF Start
<1>11. CASE \E by \in {"client", "button"} : Stop(by)
  BY <1>11 DEF Stop, StopLearning
<1>12. CASE ResetCC \/ SetWait
  BY <1>12 DEF ResetCC, SetWait
<1>13. CASE Mirror
  BY <1>13 DEF Mirror, StopLearning
<1>. QED BY <1>1, <1>2, <1>3, <1>4, <1>5, <1>6, <1>7, <1>8, <1>9, <1>10, <1>11, <1>12, <1>13
         DEF Next, IdleStep

(* What a step does to the switches of the plugin and to ipc.              *)
SwitchTypesOK ==
  /\ ipc \in {"queue", "handle", "pair", "clear", "automate"}
  /\ bypassed \in BOOLEAN /\ connected \in BOOLEAN /\ spoiled \in BOOLEAN
  /\ program \in Nat /\ asked \in [bypass : BOOLEAN, program : Nat]

LEMMA SwitchTypeStep ==
  ASSUME QueueTypeOK, HandledInv, SwitchTypesOK, [Next]_vars
  PROVE  SwitchTypesOK'
<1>. USE DEF SwitchTypesOK
<1>1. CASE UNCHANGED vars
  BY <1>1 DEF vars, switches
<1>2. ASSUME NEW low \in BOOLEAN, StateCC(low) PROVE SwitchTypesOK'
  BY <1>2 DEF StateCC
<1>3. ASSUME NEW e \in Event, ProgramChange(e.value) PROVE SwitchTypesOK'
  <2>1. e.value \in Nat
    BY EventsAssumption
  <2>. QED BY <1>3, <2>1 DEF ProgramChange
<1>4. CASE NewPorts
  BY <1>4 DEF NewPorts
<1>5. ASSUME NEW p \in Producers, Send(p) PROVE SwitchTypesOK'
  <2>1. UNCHANGED <<ipc, switches>> /\ spoiled' \in BOOLEAN
    BY <1>5 DEF Send, Skipped, Announced, Inside
  <2>. QED BY <2>1 DEF switches
<1>6. CASE GetEvent
  BY <1>6 DEF GetEvent, switches
<1>7. CASE TakeEvent
  <2>1. ipc' = "handle" /\ UNCHANGED switches /\ spoiled' \in BOOLEAN
    BY <1>7 DEF TakeEvent
  <2>. QED BY <2>1 DEF switches
<1>8. CASE Handle
  <2>1. got # Nil
    BY <1>8 DEF Handle, HandledInv
  <2>2. got.value \in Nat
    BY <2>1, EventsAssumption DEF QueueTypeOK
  <2>. QED BY <1>8, <2>2 DEF Handle
<1>9. CASE \/ \E c \in CCs : MoveCC(c)
           \/ \E q \in Params : TurnKnob(q)
           \/ (\E by \in {"client", "button"} : Start(by) \/ Stop(by))
           \/ NoteCC \/ NoteKnob \/ ResetCC \/ SetWait \/ Mirror \/ TestLearn \/ Pair \/ ClearWait
  <2>1. UNCHANGED <<switches, spoiled>>
    BY <1>9 DEF MoveCC, NoteCC, NoteKnob, TurnKnob, Start, ResetCC, Stop, SetWait, Mirror,
       TestLearn, Pair, ClearWait
  <2>2. ipc' \in {"queue", "handle", "pair", "clear", "automate"}
    BY <1>9 DEF MoveCC, NoteCC, NoteKnob, TurnKnob, Start, ResetCC, Stop, SetWait, Mirror,
       TestLearn, Pair, ClearWait
  <2>. QED BY <2>1, <2>2 DEF switches
<1>. QED BY <1>1, <1>2, <1>3, <1>4, <1>5, <1>6, <1>7, <1>8, <1>9 DEF Next, IdleStep

LEMMA TypeStep ==
  ASSUME TypeOK, HandledInv, [Next]_vars
  PROVE  TypeOK'
<1>1. QueueTypeOK /\ LearnTypesOK /\ SwitchTypesOK
  BY DEF TypeOK, LearnTypesOK, SwitchTypesOK
<1>2. QueueTypeOK' /\ LearnTypesOK' /\ SwitchTypesOK'
  BY <1>1, QueueTypeStep, LearnTypeStep, SwitchTypeStep
<1>. QED BY <1>2 DEF TypeOK, LearnTypesOK, SwitchTypesOK

(* The steps that leave the queue and the switches alone.                  *)
Aside ==
  /\ UNCHANGED <<queue, switches, spoiled>>
  /\ (ipc' = "handle") <=> (ipc = "handle")
  /\ cpc # "test" => (ipc = "queue" => ipc' = "queue")

LEMMA AsideSteps ==
  ASSUME \/ UNCHANGED vars
         \/ \E c \in CCs : MoveCC(c)
         \/ \E q \in Params : TurnKnob(q)
         \/ (\E by \in {"client", "button"} : Start(by) \/ Stop(by))
         \/ NoteCC \/ NoteKnob \/ ResetCC \/ SetWait \/ Mirror \/ TestLearn \/ Pair \/ ClearWait
  PROVE  Aside
BY DEF vars, MoveCC, NoteCC, NoteKnob, TurnKnob, Start, ResetCC, Stop, SetWait, Mirror, TestLearn,
   LoopDone, Pair, ClearWait, Aside

LEMMA HandledStep ==
  ASSUME TypeOK, HandledInv, [Next]_vars
  PROVE  HandledInv'
<1>. USE DEF HandledInv
<1>1. CASE Aside
  BY <1>1 DEF Aside, queue, consumer, switches
<1>2. CASE \/ \E low \in BOOLEAN : StateCC(low)
           \/ \E e \in Event : e.type = "PC" /\ ProgramChange(e.value)
           \/ NewPorts
  <2>1. UNCHANGED <<consumer, ipc, bypassed, program>>
    BY <1>2 DEF StateCC, ProgramChange, NewPorts, Begin
  <2>. QED BY <2>1 DEF consumer
<1>3. ASSUME NEW p \in Producers, Send(p) PROVE HandledInv'
  <2>1. UNCHANGED <<consumer, ipc, switches>>
    BY <1>3 DEF Send, SendStep, Compare, LoadFront, StoreFront, TestFull, BumpRear, WriteSlot
  <2>. QED BY <2>1 DEF consumer, switches
<1>4. CASE GetEvent
  <2>1. ipc = "queue" /\ UNCHANGED <<got, ipc, switches>>
    BY <1>4 DEF GetEvent, GetTest, LoadRear, StoreRear
  <2>. QED BY <2>1 DEF switches
<1>5. CASE TakeEvent
  <2>1. cpc' = "test" /\ ipc' = "handle" /\ got' = events[creg]
    BY <1>5 DEF TakeEvent, UseSlot
  <2>2. got' # Nil
    BY <2>1, RingAssumption DEF TypeOK, QueueTypeOK
  <2>. QED BY <2>1, <2>2
<1>6. CASE Handle
  <2>1. /\ ipc = "handle" /\ ipc' = "queue" /\ UNCHANGED <<got, cpc>>
        /\ bypassed' = IF got.type = "BYPASS" THEN got.value = 1 ELSE bypassed
        /\ program' = IF got.type = "PC" THEN got.value ELSE program
    BY <1>6 DEF Handle, queue, consumer
  <2>. QED BY <2>1
<1>. QED BY <1>1, <1>2, <1>3, <1>4, <1>5, <1>6, AsideSteps DEF Next, IdleStep

(* Where a producer goes, the other stays.                                 *)
LEMMA OneProducer ==
  ASSUME QueueTypeOK, NEW p \in Producers, NEW label, GoTo(p, label)
  PROVE  pc'[p] = label /\ \A q \in Producers : q # p => pc'[q] = pc[q]
BY DEF QueueTypeOK, GoTo

LEMMA SendMoves ==
  ASSUME QueueTypeOK, NEW p \in Producers, SendStep(p)
  PROVE  /\ pc[p] # "idle" /\ \A q \in Producers : q # p => pc'[q] = pc[q]
         /\ UNCHANGED <<ev, sends, consumer>>
BY OneProducer DEF SendStep, Compare, LoadFront, StoreFront, TestFull, BumpRear, WriteSlot

LEMMA BeginMoves ==
  ASSUME QueueTypeOK, NEW p \in Producers, NEW e, Begin(p, e)
  PROVE  /\ pc[p] = "idle" /\ pc'[p] = (IF front = rear THEN "load" ELSE "compare")
         /\ ev'[p] = e
         /\ \A q \in Producers : q # p => pc'[q] = pc[q] /\ ev'[q] = ev[q]
         /\ UNCHANGED <<events, front, rear, reg, cpc, creg, got>>
<1>1. /\ pc[p] = "idle" /\ ev' = [ev EXCEPT ![p] = e]
      /\ GoTo(p, IF front = rear THEN "load" ELSE "compare")
      /\ UNCHANGED <<events, front, rear, reg, cpc, creg, got>>
  BY DEF Begin, consumer
<1>2. ev \in [Producers -> Event \cup {ZeroEvent}]
  BY DEF QueueTypeOK
<1>. QED BY <1>1, <1>2, OneProducer

LEMMA SentStep ==
  ASSUME TypeOK, SentInv, [Next]_vars
  PROVE  SentInv'
<1>0. QueueTypeOK /\ {"process", "notification"} = Producers
  BY DEF TypeOK, Producers
<1>. USE DEF SentInv, Wanted
<1>1. CASE Aside
  BY <1>1 DEF Aside, queue, switches
<1>2. ASSUME NEW low \in BOOLEAN, StateCC(low) PROVE SentInv'
  <2> DEFINE e == [type |-> "BYPASS", value |-> IF low THEN 1 ELSE 0]
  <2>1. Begin("process", e) /\ asked' = [asked EXCEPT !.bypass = low]
    BY <1>2 DEF StateCC
  <2>2. asked'.bypass = low
    BY <2>1 DEF TypeOK
  <2>3. /\ ev'["process"] = e
        /\ pc'["notification"] = pc["notification"] /\ ev'["notification"] = ev["notification"]
    BY <1>0, <2>1, BeginMoves
  <2>. QED BY <2>2, <2>3
<1>3. ASSUME NEW x \in Event, ProgramChange(x.value) PROVE SentInv'
  <2> DEFINE e == [type |-> "PC", value |-> x.value]
  <2>1. Begin("process", e) /\ asked' = [asked EXCEPT !.program = x.value]
    BY <1>3 DEF ProgramChange
  <2>2. asked'.program = x.value
    BY <2>1 DEF TypeOK
  <2>3. /\ ev'["process"] = e
        /\ pc'["notification"] = pc["notification"] /\ ev'["notification"] = ev["notification"]
    BY <1>0, <2>1, BeginMoves
  <2>. QED BY <2>2, <2>3
<1>4. CASE NewPorts
  <2>1. /\ Begin("notification", [type |-> "GRAPH", value |-> 0]) /\ UNCHANGED asked
    BY <1>4 DEF NewPorts
  <2>2. /\ ev'["notification"].type = "GRAPH"
        /\ pc'["process"] = pc["process"] /\ ev'["process"] = ev["process"]
    BY <1>0, <2>1, BeginMoves
  <2>. QED BY <2>1, <2>2
<1>5. ASSUME NEW p \in Producers, Send(p) PROVE SentInv'
  <2>1. SendStep(p) /\ UNCHANGED asked
    BY <1>5 DEF Send, switches
  <2>2. UNCHANGED ev /\ \A q \in Producers : pc'[q] # "idle" => pc[q] # "idle"
    BY <1>0, <2>1, SendMoves
  <2>. QED BY <1>0, <2>1, <2>2
<1>6. CASE GetEvent \/ TakeEvent \/ Handle
  BY <1>6 DEF GetEvent, TakeEvent, Handle, GetTest, LoadRear, StoreRear, UseSlot, switches,
     queue, producers
<1>. QED BY <1>1, <1>2, <1>3, <1>4, <1>5, <1>6, AsideSteps DEF Next, IdleStep

-----------------------------------------------------------------------------
(* The ring.                                                               *)

LEMMA GapType ==
  ASSUME NEW i \in Indices, NEW r \in Indices
  PROVE  /\ Gap(i, r) \in 0 .. MAX_EVENTS - 1
         /\ Gap(i, r) = 0 <=> i = r
BY RingAssumption DEF Gap, Indices

LEMMA GapDiffers ==
  ASSUME NEW i \in Indices, NEW j \in Indices, NEW r \in Indices, i # j
  PROVE  Gap(i, r) # Gap(j, r)
BY RingAssumption DEF Gap, Indices

(* front steps away from rear, until it comes round.                       *)
LEMMA GapOfNext ==
  ASSUME NEW i \in Indices, NEW r \in Indices
  PROVE  IF eq_index_next(i) = r THEN Gap(i, r) = MAX_EVENTS - 1
                                 ELSE Gap(eq_index_next(i), r) = Gap(i, r) + 1
BY NextIndex, RingAssumption DEF Gap, Indices

(* rear steps towards every slot but the one it leaves.                    *)
LEMMA GapFromNext ==
  ASSUME NEW i \in Indices, NEW r \in Indices
  PROVE  Gap(i, eq_index_next(r)) = IF i = r THEN MAX_EVENTS - 1 ELSE Gap(i, r) - 1
<1>1. i \in Nat /\ r \in Nat /\ MAX_EVENTS \in Nat /\ i < MAX_EVENTS /\ r < MAX_EVENTS
  BY RingAssumption DEF Indices
<1>2. CASE r = MAX_EVENTS - 1
  <2>1. eq_index_next(r) = 0
    BY <1>2, NextIndex
  <2>. QED BY <1>1, <1>2, <2>1 DEF Gap
<1>3. CASE r # MAX_EVENTS - 1
  <2>1. eq_index_next(r) = r + 1
    BY <1>3, NextIndex
  <2>. QED BY <1>1, <1>3, <2>1 DEF Gap
<1>. QED BY <1>2, <1>3

(* What is on its way arrives if a step keeps the ring's pending events and *)
(* their order, and what was handled.                                      *)
LEMMA KeepsArriving ==
  ASSUME Arrives,
         \A i \in Indices : Pending(i)' <=> Pending(i),
         \A i \in Indices : Pending(i) => events'[i] = events[i],
         \A i, j \in Indices : Pending(i) /\ Pending(j) /\ Gap(j, rear) <= Gap(i, rear)
           => Gap(j, rear') <= Gap(i, rear'),
         UNCHANGED <<ev, got, switches>>,
         (ipc' = "handle") <=> (ipc = "handle"),
         \A p \in Producers : pc[p] # "idle" => pc'[p] # "idle"
  PROVE  Arrives'
<1>1. UNCHANGED <<bypassed, program, connected, asked>>
  BY DEF switches
<1>2. ASSUME NEW t \in {"BYPASS", "PC"}
      PROVE  (Sending("process", t) \/ Queued(t) \/ Settled(t))'
  <2>1. CASE Sending("process", t)
    BY <2>1 DEF Sending, Producers
  <2>2. CASE Queued(t)
    <3>1. PICK i \in Indices :
            /\ Pending(i) /\ events[i].type = t /\ events[i].value = Wanted(t)
            /\ \A j \in Indices :
                 Pending(j) /\ events[j].type = t => Gap(j, rear) <= Gap(i, rear)
      BY <2>2 DEF Queued
    <3>2. Pending(i)' /\ events'[i].type = t /\ events'[i].value = Wanted(t)'
      BY <1>1, <3>1 DEF Wanted
    <3>3. ASSUME NEW j \in Indices, Pending(j)', events'[j].type = t
          PROVE  Gap(j, rear)' <= Gap(i, rear)'
      BY <3>1, <3>3
    <3>. QED BY <3>2, <3>3 DEF Queued
  <2>3. CASE Settled(t)
    BY <1>1, <2>3 DEF Settled, Handling, Wanted, Reached
  <2>. QED BY <1>2, <2>1, <2>2, <2>3 DEF Arrives
<1>3. Connects'
  BY <1>1 DEF Arrives, Connects, Sending, Handling, Producers
<1>. QED BY <1>2, <1>3 DEF Arrives

Ring == RingInv /\ TakenInv /\ (Doomed \/ Arrives)

LEMMA SamePending ==
  ASSUME UNCHANGED <<front, rear>>, (cpc' = "use") <=> (cpc = "use"), Announced' <=> Announced
  PROVE  \A i \in Indices : Pending(i)' <=> Pending(i)
BY DEF Pending, Newest

(* A step that leaves front, rear and the slots alone, and what is handled. *)
LEMMA QuietStep ==
  ASSUME Ring,
         UNCHANGED <<events, front, rear, ev, got, switches>>,
         (cpc' = "use") <=> (cpc = "use"), Announced' <=> Announced,
         (ipc' = "handle") <=> (ipc = "handle"),
         \A p \in Producers : pc[p] # "idle" => pc'[p] # "idle",
         \A p \in Producers : pc[p] = "full" => pc'[p] = "full" \/ ~Doomed
  PROVE  (Doomed \/ Arrives)'
<1>1. CASE Doomed
  BY <1>1 DEF Doomed
<1>2. CASE Arrives
  BY <1>2, SamePending, KeepsArriving
<1>. QED BY <1>1, <1>2 DEF Ring

LEMMA AsideKeeps ==
  ASSUME Ring, Aside
  PROVE  Ring'
<1>1. UNCHANGED <<events, front, rear, pc, ev, reg, cpc, creg, got, switches, connected>>
      /\ ((ipc' = "handle") <=> (ipc = "handle"))
  BY DEF Aside, queue, consumer, switches
<1>2. Announced' <=> Announced
  BY <1>1 DEF Announced
<1>3. RingInv' /\ TakenInv'
  BY <1>1, <1>2 DEF Ring, RingInv, TakenInv, Active
<1>. QED BY <1>1, <1>2, <1>3, QuietStep DEF Ring

-----------------------------------------------------------------------------
(* A send begins.                                                          *)

LEMMA BeginRing ==
  ASSUME Facts, Ring, NEW p \in Producers, NEW e, Begin(p, e),
         connected' = connected \/ p = "notification", ipc' = ipc
  PROVE  /\ RingInv' /\ TakenInv' /\ (Doomed => Doomed')
         /\ \A i \in Indices : Pending(i)' <=> Pending(i)
<1>1. QueueTypeOK
  BY DEF Facts, TypeOK
<1>2. /\ pc[p] = "idle" /\ pc'[p] = (IF front = rear THEN "load" ELSE "compare")
      /\ \A q \in Producers : q # p => pc'[q] = pc[q]
      /\ UNCHANGED <<events, front, rear, reg, cpc, creg, got>>
  BY <1>1, BeginMoves
<1>3. \A q \in Producers : Active(q)' <=> Active(q)
  BY <1>2 DEF Active
<1>4. Announced' <=> Announced
  BY <1>2 DEF Announced
<1>5. RingInv'
  BY <1>2, <1>3, <1>4 DEF Ring, RingInv
<1>6. TakenInv'
  BY <1>2, <1>4 DEF Ring, TakenInv, Producers
<1>7. Doomed => Doomed'
  BY <1>2 DEF Doomed
<1>. QED BY <1>2, <1>4, <1>5, <1>6, <1>7, SamePending

(* JACK's process thread asks for something, and what it asked for of the  *)
(* other kind goes on as it did.                                           *)
LEMMA AskStep ==
  ASSUME Facts, Ring, NEW e, Begin("process", e), e.type \in {"BYPASS", "PC"},
         \A t \in {"BYPASS", "PC"} : t # e.type => Wanted(t)' = Wanted(t)
                                                /\ (Reached(t)' <=> Reached(t)),
         UNCHANGED <<ipc, connected>>
  PROVE  Ring'
<1>0. "process" \in Producers /\ "notification" \in Producers /\ QueueTypeOK
  BY DEF Producers, Facts, TypeOK
<1>1. /\ RingInv' /\ TakenInv' /\ (Doomed => Doomed')
      /\ \A i \in Indices : Pending(i)' <=> Pending(i)
  BY <1>0, BeginRing
<1>2. /\ pc["process"] = "idle" /\ pc'["process"] # "idle" /\ ev'["process"] = e
      /\ pc'["notification"] = pc["notification"] /\ ev'["notification"] = ev["notification"]
      /\ UNCHANGED <<events, rear, got>>
  BY <1>0, BeginMoves
<1>3. ASSUME Arrives PROVE Arrives'
  <2>1. ASSUME NEW t \in {"BYPASS", "PC"}
        PROVE  (Sending("process", t) \/ Queued(t) \/ Settled(t))'
    <3>1. CASE t = e.type
      BY <1>2, <3>1 DEF Sending
    <3>2. CASE t # e.type
      <4>1. Wanted(t)' = Wanted(t) /\ (Reached(t)' <=> Reached(t))
        BY <3>2
      <4>2. Queued(t) \/ Settled(t)
        BY <1>2, <1>3 DEF Arrives, Sending
      <4>3. Queued(t) => Queued(t)'
        BY <1>1, <1>2, <4>1 DEF Queued
      <4>4. Settled(t) => Settled(t)'
        BY <1>1, <1>2, <4>1 DEF Settled, Handling
      <4>. QED BY <4>2, <4>3, <4>4
    <3>. QED BY <3>1, <3>2
  <2>2. Connects'
    BY <1>1, <1>2, <1>3 DEF Arrives, Connects, Sending, Handling
  <2>. QED BY <2>1, <2>2 DEF Arrives
<1>. QED BY <1>1, <1>3 DEF Ring

LEMMA StateCCStep ==
  ASSUME Facts, Ring, NEW low \in BOOLEAN, StateCC(low)
  PROVE  Ring'
<1> DEFINE e == [type |-> "BYPASS", value |-> IF low THEN 1 ELSE 0]
<1>1. /\ Begin("process", e) /\ asked' = [asked EXCEPT !.bypass = low]
      /\ UNCHANGED <<ipc, bypassed, program, connected>>
  BY DEF StateCC
<1>2. asked'.program = asked.program
  BY <1>1 DEF Facts, TypeOK
<1>3. e.type = "BYPASS"
  OBVIOUS
<1>4. Wanted("PC")' = Wanted("PC") /\ (Reached("PC")' <=> Reached("PC"))
  BY <1>1, <1>2 DEF Wanted, Reached
<1> HIDE DEF e
<1>. QED BY <1>1, <1>3, <1>4, AskStep

LEMMA ProgramChangeStep ==
  ASSUME Facts, Ring, NEW v, ProgramChange(v)
  PROVE  Ring'
<1> DEFINE e == [type |-> "PC", value |-> v]
<1>1. /\ Begin("process", e) /\ asked' = [asked EXCEPT !.program = v]
      /\ UNCHANGED <<ipc, bypassed, program, connected>>
  BY DEF ProgramChange
<1>2. asked'.bypass = asked.bypass
  BY <1>1 DEF Facts, TypeOK
<1>3. e.type = "PC"
  OBVIOUS
<1>4. Wanted("BYPASS")' = Wanted("BYPASS") /\ (Reached("BYPASS")' <=> Reached("BYPASS"))
  BY <1>1, <1>2 DEF Wanted, Reached
<1> HIDE DEF e
<1>. QED BY <1>1, <1>3, <1>4, AskStep

LEMMA NewPortsStep ==
  ASSUME Facts, Ring, NewPorts
  PROVE  Ring'
<1> DEFINE e == [type |-> "GRAPH", value |-> 0]
<1>0. "process" \in Producers /\ "notification" \in Producers /\ QueueTypeOK
  BY DEF Producers, Facts, TypeOK
<1>1. Begin("notification", e) /\ UNCHANGED <<ipc, bypassed, program, asked>>
  BY DEF NewPorts
<1>2. /\ RingInv' /\ TakenInv' /\ (Doomed => Doomed')
      /\ \A i \in Indices : Pending(i)' <=> Pending(i)
  BY <1>0, <1>1, BeginRing
<1>3. /\ pc'["notification"] # "idle" /\ ev'["notification"] = e
      /\ pc'["process"] = pc["process"] /\ ev'["process"] = ev["process"]
      /\ UNCHANGED <<events, rear, got>>
  BY <1>0, <1>1, BeginMoves
<1>4. Connects'
  BY <1>3 DEF Connects, Sending
<1>5. ASSUME Arrives, NEW t \in {"BYPASS", "PC"}
      PROVE  (Sending("process", t) \/ Queued(t) \/ Settled(t))'
  <2>1. Wanted(t)' = Wanted(t) /\ (Reached(t)' <=> Reached(t))
    BY <1>1 DEF Wanted, Reached
  <2>2. Sending("process", t) => Sending("process", t)'
    BY <1>3 DEF Sending
  <2>3. Queued(t) => Queued(t)'
    BY <1>2, <1>3, <2>1 DEF Queued
  <2>4. Settled(t) => Settled(t)'
    BY <1>1, <1>2, <1>3, <2>1 DEF Settled, Handling
  <2>. QED BY <1>5, <2>2, <2>3, <2>4 DEF Arrives
<1>. QED BY <1>2, <1>4, <1>5 DEF Ring, Arrives

-----------------------------------------------------------------------------
(* event_queue_send goes on.                                               *)

(* While nothing is spoiled, only one send is past the test.               *)
LEMMA SendsAlone ==
  ASSUME QueueTypeOK, NEW p \in Producers, Send(p), ~spoiled'
  PROVE  /\ SendStep(p) /\ UNCHANGED <<ipc, switches, cpc, creg, got, ev>>
         /\ pc[p] # "idle" /\ \A q \in Producers : q # p => pc'[q] = pc[q]
         /\ pc'[p] # "bump" /\ (Skipped(p) => ~Announced)
         /\ Inside(p)' => \A q \in Producers : q # p => pc[q] \in {"idle", "compare"}
<1>1. /\ SendStep(p) /\ UNCHANGED <<ipc, switches>>
      /\ ~(pc'[p] = "bump") /\ ~(Skipped(p) /\ Announced)
      /\ ~\A q \in Producers : Inside(q)'
  BY DEF Send
<1>2. /\ pc[p] # "idle" /\ \A q \in Producers : q # p => pc'[q] = pc[q]
      /\ UNCHANGED <<ev, cpc, creg, got>>
  BY <1>1, SendMoves DEF consumer
<1>3. ASSUME Inside(p)', NEW q \in Producers, q # p PROVE pc[q] \in {"idle", "compare"}
  <2>1. \A r \in Producers : r = p \/ r = q
    BY <1>3 DEF Producers
  <2>2. ~Inside(q)'
    BY <1>1, <1>3, <2>1
  <2>3. pc'[q] \notin {"load", "store", "full", "bump", "write"}
    BY <2>2 DEF Inside
  <2>. QED BY <1>2, <1>3, <2>3 DEF QueueTypeOK
<1>. QED BY <1>1, <1>2, <1>3

(* The test has found no duplicate.                                        *)
LEMMA DifferentStep ==
  ASSUME Facts, Ring, NEW p \in Producers, Send(p), ~spoiled',
         Compare(p), pc'[p] # "idle"
  PROVE  Ring'
<1>1. QueueTypeOK
  BY DEF Facts, TypeOK
<1>2. /\ \A q \in Producers : q # p => pc'[q] = pc[q]
      /\ UNCHANGED <<ipc, switches, cpc, creg, got, ev>>
  BY <1>1, SendsAlone
<1>3. pc[p] = "compare" /\ pc'[p] = "load" /\ UNCHANGED <<events, front, rear, reg>>
  BY <1>1, OneProducer DEF Compare
<1>4. (\A q \in Producers : Active(q)' <=> Active(q)) /\ (Announced' <=> Announced)
  BY <1>2, <1>3 DEF Active, Announced
<1>5. RingInv'
  BY <1>2, <1>3, <1>4 DEF Ring, RingInv
<1>6. TakenInv'
  BY <1>2, <1>3, <1>4 DEF Ring, TakenInv, Producers, switches
<1>7. (Doomed \/ Arrives)'
  BY <1>2, <1>3, <1>4, QuietStep
<1>. QED BY <1>5, <1>6, <1>7 DEF Ring

(* The event sent last is the same: it is still pending, or it was handled *)
(* last and nothing else was since.                                        *)
LEMMA DuplicateStep ==
  ASSUME Facts, Ring, NEW p \in Producers, Send(p), ~spoiled',
         Compare(p), pc'[p] = "idle"
  PROVE  Ring'
<1>1. QueueTypeOK /\ front \in Indices /\ rear \in Indices
  BY DEF Facts, TypeOK, QueueTypeOK
<1>2. /\ \A q \in Producers : q # p => pc'[q] = pc[q]
      /\ UNCHANGED <<ipc, switches, cpc, creg, got, ev>>
      /\ (Skipped(p) => ~Announced)
  BY <1>1, SendsAlone
<1>3. /\ pc[p] = "compare" /\ events[front] = ev[p]
      /\ UNCHANGED <<events, front, rear, reg>>
  BY <1>1, OneProducer DEF Compare
<1>4. (\A q \in Producers : Active(q)' <=> Active(q)) /\ (Announced' <=> Announced)
  BY <1>2, <1>3 DEF Active, Announced
<1>5. ~Announced
  BY <1>2, <1>3 DEF Skipped
<1>6. RingInv'
  BY <1>2, <1>3, <1>4 DEF Ring, RingInv
<1>7. TakenInv'
  BY <1>2, <1>3, <1>4 DEF Ring, TakenInv, Producers, switches
<1>8. Arrives
  BY <1>5 DEF Ring, Doomed, Announced
<1>9. \A i \in Indices : Pending(i)' <=> Pending(i)
  BY <1>2, <1>3, <1>4, SamePending
<1>10. Newest = Gap(front, rear)
  BY <1>5 DEF Newest
<1>11. UNCHANGED <<bypassed, program, connected, asked>>
  BY <1>2 DEF switches
(* Either the slot at front is pending, the newest, or it is got.          *)
<1>12. \/ /\ Pending(front)
          /\ \A j \in Indices : Pending(j) => Gap(j, rear) <= Gap(front, rear)
       \/ /\ \A j \in Indices : ~Pending(j)
          /\ got # Nil /\ got = ev[p] /\ cpc # "use" /\ front = rear
  <2>1. CASE front # rear \/ cpc = "use"
    BY <1>1, <1>10, <2>1, GapType DEF Pending
  <2>2. CASE front = rear /\ cpc # "use"
    <3>1. got # Nil /\ events[rear] = got
      BY <1>3, <1>5, <2>2 DEF Ring, TakenInv
    <3>2. ASSUME NEW j \in Indices PROVE ~Pending(j)
      <4>1. Gap(front, rear) = 0 /\ Gap(j, rear) \in Nat /\ (Gap(j, rear) = 0 => j = rear)
        BY <1>1, <2>2, GapType
      <4>. QED BY <1>10, <2>2, <4>1 DEF Pending
    <3>. QED BY <1>3, <2>2, <3>1, <3>2
  <2>. QED BY <2>1, <2>2
<1>13. ASSUME NEW t \in {"BYPASS", "PC"}, p # "process" \/ ev[p].type # t
       PROVE  (Sending("process", t) \/ Queued(t) \/ Settled(t))'
  <2>1. Sending("process", t) => Sending("process", t)'
    BY <1>2, <1>13 DEF Sending, Producers
  <2>2. Queued(t) => Queued(t)'
    BY <1>2, <1>3, <1>9, <1>11 DEF Queued, Wanted
  <2>3. Settled(t) => Settled(t)'
    BY <1>2, <1>3, <1>9, <1>11 DEF Settled, Handling, Wanted, Reached
  <2>. QED BY <1>8, <2>1, <2>2, <2>3 DEF Arrives
<1>14. ASSUME NEW t \in {"BYPASS", "PC"}, p = "process", ev[p].type = t
       PROVE  (Queued(t) \/ Settled(t))'
  <2>1. ev[p].value = Wanted(t) /\ Wanted(t)' = Wanted(t)
    BY <1>3, <1>11, <1>14 DEF Facts, SentInv, Wanted
  <2>2. CASE /\ Pending(front)
             /\ \A j \in Indices : Pending(j) => Gap(j, rear) <= Gap(front, rear)
    BY <1>1, <1>3, <1>9, <1>14, <2>1, <2>2 DEF Queued
  <2>3. CASE /\ \A j \in Indices : ~Pending(j)
             /\ got # Nil /\ got = ev[p] /\ cpc # "use"
    <3>1. got.type = t /\ got.value = Wanted(t)
      BY <1>14, <2>1, <2>3
    <3>2. CASE ipc = "handle"
      BY <1>2, <1>3, <1>9, <2>1, <2>3, <3>1, <3>2 DEF Settled, Handling
    <3>3. CASE ipc # "handle"
      <4>1. Reached(t)
        BY <1>14, <2>3, <3>1, <3>3 DEF Facts, HandledInv, Reached, Wanted, TypeOK
      <4>2. Reached(t)'
        BY <1>11, <4>1 DEF Reached
      <4>. QED BY <1>2, <1>3, <1>9, <2>1, <2>3, <3>3, <4>2 DEF Settled, Handling
    <3>. QED BY <3>2, <3>3
  <2>. QED BY <1>12, <2>2, <2>3
<1>15. Connects'
  <2>1. CASE p # "notification"
    BY <1>2, <1>3, <1>8, <1>9, <1>11, <2>1
       DEF Arrives, Connects, Sending, Handling, Producers
  <2>2. CASE p = "notification"
    <3>1. ev[p].type = "GRAPH"
      BY <1>3, <2>2 DEF Facts, SentInv
    <3>2. CASE Pending(front)
      BY <1>1, <1>3, <1>9, <3>1, <3>2 DEF Connects
    <3>3. CASE got # Nil /\ got = ev[p] /\ cpc # "use" /\ front = rear
      <4>1. ipc = "handle" \/ connected
        BY <1>3, <1>5, <2>2, <3>1, <3>3 DEF Ring, TakenInv
      <4>. QED BY <1>2, <1>11, <3>1, <3>3, <4>1 DEF Connects, Handling
    <3>. QED BY <1>12, <3>2, <3>3
  <2>. QED BY <2>1, <2>2
<1>. QED BY <1>6, <1>7, <1>13, <1>14, <1>15 DEF Ring, Arrives

LEMMA LoadFrontStep ==
  ASSUME Facts, Ring, NEW p \in Producers, Send(p), ~spoiled', LoadFront(p)
  PROVE  Ring'
<1>1. QueueTypeOK
  BY DEF Facts, TypeOK
<1>2. /\ pc[p] = "load" /\ pc'[p] = "store" /\ reg' = [reg EXCEPT ![p] = eq_index_next(front)]
      /\ UNCHANGED <<events, front, rear>>
  BY <1>1, OneProducer DEF LoadFront
<1>3. /\ \A q \in Producers : q # p => pc'[q] = pc[q] /\ pc[q] \in {"idle", "compare"}
      /\ UNCHANGED <<ipc, switches, cpc, creg, got, ev>>
  BY <1>1, <1>2, SendsAlone DEF Inside
<1>4. reg'[p] = eq_index_next(front)
  BY <1>1, <1>2 DEF QueueTypeOK
<1>5. ~Announced /\ ~Announced'
  BY <1>2, <1>3 DEF Announced
<1>6. RingInv'
  BY <1>2, <1>3, <1>4, <1>5 DEF Ring, RingInv, Active
<1>7. TakenInv'
  BY <1>2, <1>3, <1>5 DEF Ring, TakenInv, Producers, switches
<1>8. (Doomed \/ Arrives)'
  BY <1>2, <1>3, <1>5, QuietStep
<1>. QED BY <1>6, <1>7, <1>8 DEF Ring

(* The slot is announced: the pending ones are as before, or the ring is   *)
(* full.                                                                   *)
LEMMA StoreFrontStep ==
  ASSUME Facts, Ring, NEW p \in Producers, Send(p), ~spoiled', StoreFront(p)
  PROVE  Ring'
<1>1. QueueTypeOK /\ front \in Indices /\ rear \in Indices
  BY DEF Facts, TypeOK, QueueTypeOK
<1>2. /\ pc[p] = "store" /\ pc'[p] = "full" /\ front' = reg[p]
      /\ UNCHANGED <<events, rear, reg>>
  BY <1>1, OneProducer DEF StoreFront
<1>3. /\ \A q \in Producers : q # p => pc'[q] = pc[q] /\ pc[q] \in {"idle", "compare"}
      /\ UNCHANGED <<ipc, switches, cpc, creg, got, ev>>
  BY <1>1, <1>2, SendsAlone DEF Inside
<1>4. front' = eq_index_next(front)
  BY <1>2 DEF Ring, RingInv
<1>5. ~Announced /\ Announced'
  BY <1>2, <1>3 DEF Announced
<1>6. RingInv'
  BY <1>2, <1>3, <1>5 DEF Ring, RingInv, Active
<1>7. TakenInv'
  BY <1>2, <1>3, <1>5 DEF Ring, TakenInv, Producers, switches
<1>8. Arrives
  BY <1>5 DEF Ring, Doomed, Announced
<1>9. CASE front' = rear /\ cpc = "use"
  BY <1>2, <1>3, <1>6, <1>7, <1>9 DEF Ring, Doomed
<1>10. CASE ~(front' = rear /\ cpc = "use")
  <2>1. Newest = Gap(front, rear)
    BY <1>5 DEF Newest
  <2>2. Newest' = IF front' = rear THEN MAX_EVENTS - 1 ELSE Gap(front', rear) - 1
    BY <1>2, <1>3, <1>5, <1>10 DEF Newest
  <2>3. Gap(front, rear) \in Int
    BY <1>1, GapType
  <2>4. Newest' = Newest
    BY <1>1, <1>4, <2>1, <2>2, <2>3, GapOfNext
  <2>5. \A i \in Indices : Pending(i)' <=> Pending(i)
    BY <1>2, <1>3, <2>4 DEF Pending
  <2>6. Arrives'
    BY <1>2, <1>3, <1>8, <2>5, KeepsArriving
  <2>. QED BY <1>6, <1>7, <2>6 DEF Ring
<1>. QED BY <1>9, <1>10

LEMMA TestFullStep ==
  ASSUME Facts, Ring, NEW p \in Producers, Send(p), ~spoiled', TestFull(p)
  PROVE  Ring'
<1>1. QueueTypeOK
  BY DEF Facts, TypeOK
<1>2. /\ pc[p] = "full" /\ UNCHANGED <<events, front, rear, reg>>
      /\ reg[p] = front
  BY DEF TestFull, Ring, RingInv
<1>3. /\ pc'[p] # "bump" /\ UNCHANGED <<ipc, switches, cpc, creg, got, ev>>
      /\ \A q \in Producers : q # p => pc'[q] = pc[q]
  BY <1>1, SendsAlone
<1>4. GoTo(p, IF front = rear THEN "bump" ELSE "write")
  BY <1>2 DEF TestFull
<1>5. front # rear /\ pc'[p] = "write"
  BY <1>1, <1>3, <1>4, OneProducer
<1>6. (\A q \in Producers : Active(q)' <=> Active(q)) /\ (Announced' <=> Announced)
  BY <1>2, <1>3, <1>5 DEF Active, Announced
<1>7. RingInv'
  BY <1>2, <1>3, <1>5, <1>6 DEF Ring, RingInv
<1>8. TakenInv'
  BY <1>2, <1>3, <1>5, <1>6 DEF Ring, TakenInv, Producers, switches
<1>9. ~Doomed
  BY <1>5 DEF Doomed
<1>10. (Doomed \/ Arrives)'
  BY <1>2, <1>3, <1>5, <1>6, <1>9, QuietStep
<1>. QED BY <1>7, <1>8, <1>10 DEF Ring

(* The slot is filled: it is pending, and the newest.                      *)
LEMMA WriteSlotStep ==
  ASSUME Facts, Ring, NEW p \in Producers, Send(p), ~spoiled', WriteSlot(p)
  PROVE  Ring'
<1>1. QueueTypeOK /\ front \in Indices /\ rear \in Indices
  BY DEF Facts, TypeOK, QueueTypeOK
<1>2. pc[p] = "write" /\ pc'[p] = "idle" /\ UNCHANGED <<front, rear, reg>>
  BY <1>1, OneProducer DEF WriteSlot
<1>3. /\ UNCHANGED <<ipc, switches, cpc, creg, got, ev>>
      /\ \A q \in Producers : q # p => pc'[q] = pc[q]
  BY <1>1, SendsAlone
<1>4. events' = [events EXCEPT ![front] = ev[p]]
  BY <1>2 DEF WriteSlot, Ring, RingInv
<1>5. events'[front] = ev[p] /\ \A i \in Indices : i # front => events'[i] = events[i]
  BY <1>1, <1>4 DEF QueueTypeOK
<1>6. \A q \in Producers : q # p => ~Active(q)
  BY <1>2 DEF Ring, RingInv, Active
<1>7. Announced /\ ~Announced'
  BY <1>2, <1>3, <1>6 DEF Announced, Active
<1>8. front # rear \/ cpc = "use"
  BY <1>2 DEF Ring, RingInv
<1>9. RingInv'
  BY <1>2, <1>3, <1>6, <1>8 DEF Ring, RingInv, Active
<1>10. TakenInv'
  BY <1>1, <1>2, <1>3, <1>5, <1>8 DEF Ring, TakenInv, Producers, switches
<1>11. ~Doomed
  BY <1>2 DEF Ring, RingInv, Doomed, Active
<1>12. Arrives
  BY <1>11 DEF Ring
<1>13. UNCHANGED <<bypassed, program, connected, asked>>
  BY <1>3 DEF switches
<1>14. /\ ~Pending(front) /\ Pending(front)'
       /\ \A i \in Indices : i # front => (Pending(i)' <=> Pending(i))
       /\ \A i \in Indices : Pending(i)' => Gap(i, rear) <= Gap(front, rear)
  <2>1. Newest = Gap(front, rear) - 1 /\ Newest' = Gap(front, rear)
    BY <1>2, <1>3, <1>7, <1>8 DEF Newest
  <2>2. Gap(front, rear) \in Int
    BY <1>1, GapType
  <2>3. ~Pending(front)
    BY <2>1, <2>2 DEF Pending
  <2>4. Pending(front)'
    BY <1>2, <1>3, <1>8, <2>1, <2>2 DEF Pending
  <2>5. ASSUME NEW i \in Indices, i # front PROVE Pending(i)' <=> Pending(i)
    <3>1. Gap(i, rear) \in Int /\ Gap(i, rear) # Gap(front, rear)
      BY <1>1, <2>5, GapType, GapDiffers
    <3>2. Gap(i, rear) <= Gap(front, rear) <=> Gap(i, rear) <= Gap(front, rear) - 1
      BY <2>2, <3>1
    <3>. QED BY <1>2, <1>3, <2>1, <3>2 DEF Pending
  <2>6. \A i \in Indices : Pending(i)' => Gap(i, rear) <= Gap(front, rear)
    BY <1>2, <2>1 DEF Pending
  <2>. QED BY <2>3, <2>4, <2>5, <2>6
<1>15. ASSUME NEW t \in {"BYPASS", "PC"}, ev[p].type = t, p = "process"
       PROVE  Queued(t)'
  <2>1. ev[p].value = Wanted(t)'
    BY <1>2, <1>13, <1>15 DEF Facts, SentInv, Wanted
  <2>. QED BY <1>1, <1>2, <1>5, <1>14, <1>15, <2>1 DEF Queued
<1>16. ASSUME NEW t \in {"BYPASS", "PC"}, ev[p].type # t
       PROVE  (Sending("process", t) \/ Queued(t) \/ Settled(t))'
  <2>1. Sending("process", t) => Sending("process", t)'
    BY <1>3, <1>16 DEF Sending, Producers
  <2>2. Queued(t) => Queued(t)'
    <3>1. SUFFICES ASSUME Queued(t) PROVE Queued(t)'
      OBVIOUS
    <3>2. PICK i \in Indices :
            /\ Pending(i) /\ events[i].type = t /\ events[i].value = Wanted(t)
            /\ \A j \in Indices :
                 Pending(j) /\ events[j].type = t => Gap(j, rear) <= Gap(i, rear)
      BY <3>1 DEF Queued
    <3>3. Pending(i)' /\ events'[i].type = t /\ events'[i].value = Wanted(t)'
      BY <1>5, <1>13, <1>14, <3>2 DEF Wanted
    <3>4. ASSUME NEW j \in Indices, Pending(j)', events'[j].type = t
          PROVE  Gap(j, rear) <= Gap(i, rear)
      BY <1>5, <1>14, <1>16, <3>2, <3>4
    <3>. QED BY <1>2, <3>3, <3>4 DEF Queued
  <2>3. Settled(t) => Settled(t)'
    BY <1>3, <1>5, <1>13, <1>14, <1>16 DEF Settled, Handling, Wanted, Reached
  <2>. QED BY <1>12, <2>1, <2>2, <2>3 DEF Arrives
<1>17. ASSUME NEW t \in {"BYPASS", "PC"}, p # "process" PROVE ev[p].type # t
  BY <1>2, <1>17 DEF Facts, SentInv, Producers
<1>18. Connects'
  <2>1. CASE p = "notification"
    <3>1. ev[p].type = "GRAPH"
      BY <1>2, <2>1 DEF Facts, SentInv
    <3>. QED BY <1>1, <1>2, <1>5, <1>14, <3>1 DEF Connects
  <2>2. CASE p # "notification"
    BY <1>3, <1>5, <1>12, <1>13, <1>14, <2>2
       DEF Arrives, Connects, Sending, Handling, Producers
  <2>. QED BY <2>1, <2>2
<1>. QED BY <1>9, <1>10, <1>15, <1>16, <1>17, <1>18 DEF Ring, Arrives

LEMMA SendRing ==
  ASSUME Facts, Ring, NEW p \in Producers, Send(p), ~spoiled'
  PROVE  Ring'
<1>1. ~BumpRear(p)
  BY DEF BumpRear, Ring, RingInv
<1>2. SendStep(p)
  BY DEF Send
<1>. QED BY <1>1, <1>2, DifferentStep, DuplicateStep, LoadFrontStep, StoreFrontStep,
            TestFullStep, WriteSlotStep DEF SendStep

-----------------------------------------------------------------------------
(* jfst_idle takes an event.                                               *)

LEMMA GetTestStep ==
  ASSUME Facts, Ring, GetEvent, GetTest \/ LoadRear
  PROVE  Ring'
<1>1. /\ UNCHANGED <<events, front, rear, pc, ev, reg, got, ipc, switches>>
      /\ cpc # "use" /\ cpc' # "use"
  BY DEF GetEvent, GetTest, LoadRear, producers
<1>2. (\A q \in Producers : Active(q)' <=> Active(q)) /\ (Announced' <=> Announced)
  BY <1>1 DEF Active, Announced
<1>3. /\ cpc' \in {"load", "store"} => front # rear \/ Announced
      /\ cpc' = "store" => creg' = eq_index_next(rear)
  BY DEF GetTest, LoadRear, Ring, RingInv
<1>4. RingInv'
  BY <1>1, <1>2, <1>3 DEF Ring, RingInv
<1>5. TakenInv'
  BY <1>1, <1>2 DEF Ring, TakenInv, switches
<1>6. (Doomed \/ Arrives)'
  BY <1>1, <1>2, QuietStep
<1>. QED BY <1>4, <1>5, <1>6 DEF Ring

(* rear moves one slot on, and the events that are pending come nearer by  *)
(* one.                                                                    *)
LEMMA StoreRearStep ==
  ASSUME Facts, Ring, GetEvent, StoreRear
  PROVE  Ring'
<1>1. front \in Indices /\ rear \in Indices
  BY DEF Facts, TypeOK, QueueTypeOK
<1>2. /\ UNCHANGED <<events, front, pc, ev, reg, creg, got, ipc, switches>>
      /\ cpc = "store" /\ cpc' = "use" /\ rear' = creg
  BY DEF GetEvent, StoreRear, producers
<1>3. rear' = eq_index_next(rear) /\ (front # rear \/ Announced)
  BY <1>2 DEF Ring, RingInv
<1>4. (\A q \in Producers : Active(q)' <=> Active(q)) /\ (Announced' <=> Announced)
  BY <1>2 DEF Active, Announced
<1>5. RingInv'
  BY <1>2, <1>3, <1>4 DEF Ring, RingInv
<1>6. TakenInv'
  BY <1>2 DEF TakenInv
<1>7. Arrives
  BY <1>2 DEF Ring, Doomed
<1>8. \A i \in Indices : Gap(i, rear') = IF i = rear THEN MAX_EVENTS - 1 ELSE Gap(i, rear) - 1
  BY <1>1, <1>3, GapFromNext
<1>9. Newest' = Newest - 1 /\ Newest \in Int /\ Newest < MAX_EVENTS
  <2>1. MAX_EVENTS \in Int /\ Gap(front, rear) \in Int /\ Gap(front, rear) < MAX_EVENTS
    BY <1>1, GapType, RingAssumption
  <2>2. CASE ~Announced
    <3>1. Newest = Gap(front, rear) /\ Newest' = Gap(front, rear')
      BY <1>2, <1>4, <2>2 DEF Newest
    <3>. QED BY <1>1, <1>3, <1>8, <2>1, <2>2, <3>1
  <2>3. CASE Announced /\ front = rear
    <3>1. Newest = MAX_EVENTS - 1 /\ Newest' = Gap(front, rear') - 1
      BY <1>2, <1>4, <2>3 DEF Newest
    <3>. QED BY <1>1, <1>8, <2>1, <2>3, <3>1
  <2>4. CASE Announced /\ front # rear
    <3>1. Newest = Gap(front, rear) - 1 /\ Newest' = Gap(front, rear') - 1
      BY <1>2, <1>4, <2>4 DEF Newest
    <3>. QED BY <1>1, <1>8, <2>1, <2>4, <3>1
  <2>. QED BY <2>2, <2>3, <2>4
<1>10. ASSUME NEW i \in Indices PROVE Pending(i)' <=> Pending(i)
  <2>1. Gap(i, rear) \in Int /\ MAX_EVENTS \in Int
    BY <1>1, GapType, RingAssumption
  <2>2. Gap(i, rear') <= Newest' <=> i # rear /\ Gap(i, rear) <= Newest
    BY <1>8, <1>9, <2>1
  <2>. QED BY <1>2, <2>2 DEF Pending
<1>11. ASSUME NEW i \in Indices, NEW j \in Indices, Pending(i), Pending(j),
              Gap(j, rear) <= Gap(i, rear)
       PROVE  Gap(j, rear') <= Gap(i, rear')
  <2>1. i # rear /\ j # rear
    BY <1>2, <1>11 DEF Pending
  <2>2. Gap(i, rear) \in Int /\ Gap(j, rear) \in Int
    BY <1>1, GapType
  <2>. QED BY <1>8, <1>11, <2>1, <2>2
<1>12. Arrives'
  BY <1>2, <1>7, <1>10, <1>11, KeepsArriving
<1>. QED BY <1>5, <1>6, <1>12 DEF Ring

(* The slot at rear is taken: the next that was pending.                   *)
LEMMA TakeRing ==
  ASSUME Facts, Ring, TakeEvent, ~spoiled'
  PROVE  Ring'
<1>1. front \in Indices /\ rear \in Indices /\ QueueTypeOK
  BY DEF Facts, TypeOK, QueueTypeOK
<1>2. /\ UNCHANGED <<events, front, rear, pc, ev, reg, creg, switches>>
      /\ cpc = "use" /\ cpc' = "test" /\ ipc = "queue" /\ ipc' = "handle"
      /\ got' = events[creg]
  BY DEF TakeEvent, UseSlot, producers
<1>3. creg = rear /\ got' = events[rear]
  BY <1>2 DEF Ring, RingInv
<1>4. Announced => front # rear
  BY <1>3 DEF TakeEvent, Announced, Ring, RingInv
<1>5. (\A q \in Producers : Active(q)' <=> Active(q)) /\ (Announced' <=> Announced)
  BY <1>2 DEF Active, Announced
<1>6. got' # Nil
  BY <1>1, <1>3, RingAssumption DEF QueueTypeOK
<1>7. RingInv'
  <2>1. \A q \in Producers : pc[q] = "write" => front # rear
    BY <1>4 DEF Announced
  <2>. QED BY <1>2, <1>5, <2>1 DEF Ring, RingInv
<1>8. TakenInv'
  BY <1>2, <1>3, <1>6 DEF TakenInv
<1>9. Arrives
  BY <1>4 DEF Ring, Doomed, Announced
<1>10. Newest' = Newest /\ Newest \in Int /\ Newest >= 0
  <2>1. Gap(front, rear) \in Nat /\ (front # rear => Gap(front, rear) # 0)
    BY <1>1, GapType
  <2>2. CASE ~Announced
    BY <1>2, <1>5, <2>1, <2>2 DEF Newest
  <2>3. CASE Announced
    <3>1. Newest = Gap(front, rear) - 1 /\ Newest' = Gap(front, rear) - 1
      BY <1>2, <1>4, <1>5, <2>3 DEF Newest
    <3>. QED BY <1>4, <2>1, <2>3, <3>1
  <2>. QED BY <2>2, <2>3
<1>11. Pending(rear) /\ \A i \in Indices : Pending(i)' <=> Pending(i) /\ i # rear
  <2>1. Gap(rear, rear) = 0
    BY <1>1, GapType
  <2>. QED BY <1>2, <1>10, <2>1 DEF Pending
<1>12. UNCHANGED <<bypassed, program, connected, asked>>
  BY <1>2 DEF switches
<1>13. ASSUME NEW t \in {"BYPASS", "PC"}
       PROVE  (Sending("process", t) \/ Queued(t) \/ Settled(t))'
  <2>1. Sending("process", t) => Sending("process", t)'
    BY <1>2 DEF Sending
  <2>2. Queued(t) => (Queued(t) \/ Settled(t))'
    <3>1. SUFFICES ASSUME Queued(t) PROVE (Queued(t) \/ Settled(t))'
      OBVIOUS
    <3>2. PICK i \in Indices :
            /\ Pending(i) /\ events[i].type = t /\ events[i].value = Wanted(t)
            /\ \A j \in Indices :
                 Pending(j) /\ events[j].type = t => Gap(j, rear) <= Gap(i, rear)
      BY <3>1 DEF Queued
    <3>3. Wanted(t)' = Wanted(t)
      BY <1>12 DEF Wanted
    <3>4. CASE i # rear
      BY <1>2, <1>11, <3>2, <3>3, <3>4 DEF Queued
    <3>5. CASE i = rear
      <4>1. ASSUME NEW j \in Indices, Pending(j)' PROVE events[j].type # t
        <5>1. Pending(j) /\ j # rear
          BY <1>11, <4>1
        <5>2. Gap(rear, rear) = 0 /\ Gap(j, rear) \in Nat /\ Gap(j, rear) # 0
          BY <1>1, <5>1, GapType
        <5>3. ~(Gap(j, rear) <= Gap(i, rear))
          BY <3>5, <5>2
        <5>. QED BY <3>2, <5>1, <5>3
      <4>2. got'.type = t /\ got'.value = Wanted(t)'
        BY <1>3, <3>2, <3>3, <3>5
      <4>. QED BY <1>2, <4>1, <4>2 DEF Settled, Handling
    <3>. QED BY <3>4, <3>5
  <2>3. Settled(t) => Settled(t)'
    <3>1. SUFFICES ASSUME Settled(t) PROVE Settled(t)'
      OBVIOUS
    <3>2. Reached(t) /\ got'.type # t
      BY <1>1, <1>2, <1>3, <1>11, <3>1 DEF Settled, Handling
    <3>3. Reached(t)'
      BY <1>12, <3>2 DEF Reached
    <3>. QED BY <1>2, <1>11, <3>1, <3>2, <3>3 DEF Settled, Handling
  <2>. QED BY <1>9, <2>1, <2>2, <2>3 DEF Arrives
<1>14. Connects'
  BY <1>2, <1>3, <1>9, <1>11, <1>12 DEF Arrives, Connects, Sending, Handling
<1>. QED BY <1>7, <1>8, <1>13, <1>14 DEF Ring, Arrives

LEMMA HandleRing ==
  ASSUME Facts, Ring, Handle
  PROVE  Ring'
<1>1. /\ UNCHANGED <<events, front, rear, pc, ev, reg, cpc, creg, got, asked>>
      /\ ipc = "handle" /\ ipc' = "queue"
      /\ bypassed' = IF got.type = "BYPASS" THEN got.value = 1 ELSE bypassed
      /\ program' = IF got.type = "PC" THEN got.value ELSE program
      /\ connected' = (connected \/ got.type = "GRAPH")
  BY DEF Handle, queue, consumer
<1>2. cpc # "use"
  BY <1>1 DEF Facts, HandledInv
<1>3. (\A q \in Producers : Active(q)' <=> Active(q)) /\ (Announced' <=> Announced)
  BY <1>1 DEF Active, Announced
<1>4. RingInv'
  BY <1>1, <1>3 DEF Ring, RingInv
<1>5. TakenInv'
  BY <1>1, <1>3 DEF Ring, TakenInv
<1>6. Arrives
  BY <1>2 DEF Ring, Doomed
<1>7. \A i \in Indices : Pending(i)' <=> Pending(i)
  BY <1>1, <1>3, SamePending
<1>8. ASSUME NEW t \in {"BYPASS", "PC"}
      PROVE  (Sending("process", t) \/ Queued(t) \/ Settled(t))'
  <2>1. Wanted(t)' = Wanted(t)
    BY <1>1 DEF Wanted
  <2>2. Sending("process", t) => Sending("process", t)'
    BY <1>1 DEF Sending
  <2>3. Queued(t) => Queued(t)'
    BY <1>1, <1>7, <2>1 DEF Queued
  <2>4. Settled(t) => Settled(t)'
    <3>1. SUFFICES ASSUME Settled(t) PROVE Settled(t)'
      OBVIOUS
    <3>2. Reached(t)'
      BY <1>1, <3>1 DEF Settled, Handling, Wanted, Reached, Facts, TypeOK
    <3>. QED BY <1>1, <1>7, <3>1, <3>2 DEF Settled, Handling
  <2>. QED BY <1>6, <2>2, <2>3, <2>4 DEF Arrives
<1>9. Connects'
  BY <1>1, <1>6, <1>7 DEF Arrives, Connects, Sending, Handling
<1>. QED BY <1>4, <1>5, <1>8, <1>9 DEF Ring, Arrives

(* What was lost stays lost.                                               *)
LEMMA SpoiledStays ==
  ASSUME [Next]_vars
  PROVE  spoiled => spoiled'
<1>1. CASE Aside
  BY <1>1 DEF Aside
<1>2. CASE \/ \E low \in BOOLEAN : StateCC(low)
           \/ \E e \in Event : e.type = "PC" /\ ProgramChange(e.value)
           \/ NewPorts
           \/ \E p \in Producers : Send(p)
           \/ GetEvent \/ TakeEvent \/ Handle
  BY <1>2 DEF StateCC, ProgramChange, NewPorts, Send, GetEvent, TakeEvent, Handle
<1>. QED BY <1>1, <1>2, AsideSteps DEF Next, IdleStep

LEMMA QueueStep ==
  ASSUME QueueInv, [Next]_vars
  PROVE  QueueInv'
<1>1. Facts /\ Facts'
  BY TypeStep, HandledStep, SentStep DEF QueueInv, Facts
<1>2. spoiled \in BOOLEAN /\ spoiled' \in BOOLEAN
  BY <1>1 DEF Facts, TypeOK
<1>3. spoiled => spoiled'
  BY SpoiledStays
<1>4. ASSUME ~spoiled' PROVE Ring'
  <2>1. Ring
    BY <1>2, <1>3, <1>4 DEF QueueInv, Ring
  <2>2. CASE Aside
    BY <2>1, <2>2, AsideKeeps
  <2>3. CASE \E low \in BOOLEAN : StateCC(low)
    BY <1>1, <2>1, <2>3, StateCCStep
  <2>4. CASE \E e \in Event : e.type = "PC" /\ ProgramChange(e.value)
    BY <1>1, <2>1, <2>4, ProgramChangeStep
  <2>5. CASE NewPorts
    BY <1>1, <2>1, <2>5, NewPortsStep
  <2>6. CASE \E p \in Producers : Send(p)
    BY <1>1, <1>4, <2>1, <2>6, SendRing
  <2>7. CASE GetEvent
    BY <1>1, <2>1, <2>7, GetTestStep, StoreRearStep DEF GetEvent
  <2>8. CASE TakeEvent
    BY <1>1, <1>4, <2>1, <2>8, TakeRing
  <2>9. CASE Handle
    BY <1>1, <2>1, <2>9, HandleRing
  <2>. QED BY <2>2, <2>3, <2>4, <2>5, <2>6, <2>7, <2>8, <2>9, AsideSteps DEF Next, IdleStep
<1>. QED BY <1>1, <1>2, <1>4 DEF QueueInv, Ring

LEMMA QueueInitially ==
  ASSUME Init
  PROVE  QueueInv
<1>1. /\ events = [i \in Indices |-> ZeroEvent] /\ front = 0 /\ rear = 0
      /\ pc = [p \in Producers |-> "idle"] /\ ev = [p \in Producers |-> ZeroEvent]
      /\ reg = [p \in Producers |-> 0] /\ cpc = "test" /\ creg = 0 /\ got = Nil /\ sends = 0
  BY DEF Init, QueueInit
<1>2. 0 \in Indices
  BY RingAssumption DEF Indices
<1>3. QueueTypeOK
  BY <1>1, <1>2 DEF QueueTypeOK
<1>4. /\ ipc = "queue" /\ bypassed = FALSE /\ program = 0 /\ connected
      /\ asked = [bypass |-> FALSE, program |-> 0]
  BY DEF Init
<1>5. TypeOK
  BY <1>3 DEF Init, TypeOK
<1>6. \A p \in Producers : pc[p] = "idle"
  BY <1>1
<1>7. HandledInv /\ SentInv
  BY <1>1, <1>4, <1>6 DEF HandledInv, SentInv, Producers
<1>8. RingInv /\ TakenInv
  BY <1>1, <1>6 DEF RingInv, TakenInv, Active, Producers
<1>9. \A i \in Indices : ~Pending(i)
  <2>1. ~Announced
    BY <1>6 DEF Announced
  <2>2. Newest = 0
    BY <1>1, <1>2, <2>1, GapType DEF Newest
  <2>3. ASSUME NEW i \in Indices PROVE ~Pending(i)
    <3>1. Gap(i, rear) \in Nat /\ (Gap(i, rear) = 0 => i = rear)
      BY <1>1, <1>2, GapType
    <3>. QED BY <1>1, <2>2, <3>1 DEF Pending
  <2>. QED BY <2>3
<1>10. \A t : Reached(t)
  BY <1>4 DEF Reached
<1>11. Arrives
  BY <1>4, <1>9, <1>10 DEF Arrives, Settled, Handling, Connects
<1>. QED BY <1>5, <1>7, <1>8, <1>11 DEF QueueInv, Facts

(* The inductive invariant of the queue: unless an event was lost by an    *)
(* overflow, two sends at once or a slot read before it was filled, all    *)
(* that was asked for is being sent, pending in the ring or done.          *)
THEOREM QueueInvariant == Spec => []QueueInv
<1>1. Init => QueueInv
  BY QueueInitially
<1>2. QueueInv /\ [Next]_vars => QueueInv'
  BY QueueStep
<1>. QED BY <1>1, <1>2, PTL DEF Spec

(* The types of what the threads leave for jfst_idle.                      *)
THEOREM IdleTypeCorrect == Spec => []TypeOK
<1>1. QueueInv => TypeOK
  BY DEF QueueInv, Facts
<1>. QED BY <1>1, QueueInvariant, PTL

(* However the accesses of JACK's threads and of the event thread to the   *)
(* ring fall, when it is empty and nobody stands inside it the plugin is   *)
(* bypassed as it was asked to be, on the program it was asked for, and    *)
(* its ports are connected - for a ring of any size and any number of      *)
(* sends, but for the three races that the history "spoiled" names.        *)
THEOREM RequestsArrive == Spec => []NothingLost
<1>1. QueueInv => NothingLost
  <2>1. SUFFICES ASSUME QueueInv, AtRest, ~spoiled PROVE Done
    BY DEF NothingLost
  <2>2. /\ Facts /\ RingInv /\ TakenInv /\ (Doomed \/ Arrives)
        /\ front \in Indices /\ rear \in Indices
    BY <2>1 DEF QueueInv, Facts, TypeOK, QueueTypeOK
  <2>3. /\ front = rear /\ cpc = "test" /\ ipc # "handle" /\ \A p \in Producers : pc[p] = "idle"
    BY <2>1 DEF AtRest
  <2>4. Arrives
    BY <2>2, <2>3 DEF Doomed
  <2>5. \A i \in Indices : ~Pending(i)
    <3>1. ~Announced
      BY <2>3 DEF Announced
    <3>2. Newest = 0
      BY <2>2, <2>3, <3>1, GapType DEF Newest
    <3>3. ASSUME NEW i \in Indices PROVE ~Pending(i)
      <4>1. Gap(i, rear) \in Nat /\ (Gap(i, rear) = 0 => i = rear)
        BY <2>2, GapType
      <4>. QED BY <2>3, <3>2, <4>1 DEF Pending
    <3>. QED BY <3>3
  <2>6. Reached("BYPASS") /\ Reached("PC") /\ connected
    BY <2>3, <2>4, <2>5 DEF Arrives, Sending, Queued, Settled, Handling, Connects, Producers
  <2>. QED BY <2>6 DEF Reached, Done
<1>. QED BY <1>1, QueueInvariant, PTL
-----------------------------------------------------------------------------
(* The ring under its races is still a queue.  The waiting events, oldest   *)
(* first: those of the pending slots, of which the first is rear itself     *)
(* while jfst_idle is about to take it.                                     *)

Slot(r, g) == IF r + g < MAX_EVENTS THEN r + g ELSE r + g - MAX_EVENTS
Row(es, r, o, n) == [k \in 1 .. n + 1 - o |-> es[Slot(r, o + k - 1)]]
Oldest == IF cpc = "use" THEN 0 ELSE 1
Waiting == Row(events, rear, Oldest, Newest)

Fifo == INSTANCE EventFifo WITH Capacity <- MAX_EVENTS, queue <- Waiting

(* Nothing was lost, and no send is about to find the ring full.            *)
Lossless == ~spoiled /\ ~Doomed

(* The step at which an event enters the queue, the step at which it leaves *)
(* it, and all others.  An event is left out only if it is the newest that  *)
(* waits, or was the last to be handled and nothing waits.                  *)
LastSent == IF Waiting = <<>> THEN got ELSE Waiting[Len(Waiting)]

Enters(p) == WriteSlot(p) /\ ev[p] \in Event /\ Len(Waiting) < MAX_EVENTS /\ Fifo!Send(ev[p])

QueueKeeps ==
  \/ \E p \in Producers : Enters(p)
  \/ TakeEvent /\ Fifo!Get
  \/ /\ ~TakeEvent /\ \A p \in Producers : ~WriteSlot(p)
     /\ UNCHANGED <<Waiting, got>>
     /\ \A p \in Producers : Skipped(p) => LastSent = ev[p]

Cells == Event \cup {ZeroEvent}

LEMMA SlotFacts ==
  ASSUME NEW r \in Indices
  PROVE  /\ \A g \in 0 .. MAX_EVENTS - 1 : Slot(r, g) \in Indices
         /\ Slot(r, 0) = r
         /\ \A g, h \in 0 .. MAX_EVENTS - 1 : Slot(r, g) = Slot(r, h) => g = h
         /\ \A i \in Indices : Gap(i, r) \in 0 .. MAX_EVENTS - 1 /\ Slot(r, Gap(i, r)) = i
         /\ \A g \in 0 .. MAX_EVENTS - 2 : Slot(eq_index_next(r), g) = Slot(r, g + 1)
<1>1. MAX_EVENTS \in Nat /\ MAX_EVENTS >= 2 /\ r \in Nat /\ r < MAX_EVENTS
  BY RingAssumption DEF Indices
<1>2. \A g \in 0 .. MAX_EVENTS - 1 : Slot(r, g) \in Indices
  BY <1>1 DEF Slot, Indices
<1>3. Slot(r, 0) = r
  BY <1>1 DEF Slot
<1>4. \A g, h \in 0 .. MAX_EVENTS - 1 : Slot(r, g) = Slot(r, h) => g = h
  BY <1>1 DEF Slot
<1>5. \A i \in Indices : Gap(i, r) \in 0 .. MAX_EVENTS - 1 /\ Slot(r, Gap(i, r)) = i
  BY <1>1 DEF Slot, Gap, Indices
<1>6. ASSUME NEW g \in 0 .. MAX_EVENTS - 2
      PROVE  Slot(eq_index_next(r), g) = Slot(r, g + 1)
  <2>1. eq_index_next(r) = IF r = MAX_EVENTS - 1 THEN 0 ELSE r + 1
    BY NextIndex
  <2>. QED BY ONLY <1>1, <1>6, <2>1 DEF Slot
<1>. QED BY <1>2, <1>3, <1>4, <1>5, <1>6

(* A row of slots as a sequence.                                            *)
LEMMA RowFacts ==
  ASSUME NEW es \in [Indices -> Cells], NEW r \in Indices,
         NEW o \in {0, 1}, NEW n \in Int, o - 1 <= n, n < MAX_EVENTS
  PROVE  /\ Row(es, r, o, n) \in Seq(Cells) /\ Len(Row(es, r, o, n)) = n + 1 - o
         /\ \A k \in 1 .. n + 1 - o : Row(es, r, o, n)[k] = es[Slot(r, o + k - 1)]
<1>1. n + 1 - o \in Nat /\ \A k \in 1 .. n + 1 - o : o + k - 1 \in 0 .. MAX_EVENTS - 1
  BY RingAssumption
<1>2. \A k \in 1 .. n + 1 - o : es[Slot(r, o + k - 1)] \in Cells
  BY <1>1, SlotFacts
<1>3. Row(es, r, o, n) \in [1 .. n + 1 - o -> Cells]
  BY <1>2 DEF Row
<1>4. Row(es, r, o, n) \in Seq(Cells)
  BY <1>1, <1>3, SeqDef
<1>5. DOMAIN Row(es, r, o, n) = 1 .. n + 1 - o
  BY DEF Row
<1>6. Len(Row(es, r, o, n)) = n + 1 - o
  BY <1>1, <1>4, <1>5, LenProperties
<1>. QED BY <1>4, <1>6 DEF Row

(* One slot is filled.                                                      *)
Filled(es, i, e, es2) ==
  es2 \in [Indices -> Cells] /\ es2[i] = e /\ \A j \in Indices : j # i => es2[j] = es[j]

(* Filling the slot after the newest appends its event.                     *)
LEMMA RowGrows ==
  ASSUME NEW es \in [Indices -> Cells], NEW r \in Indices,
         NEW o \in {0, 1}, NEW n \in Int, o - 1 <= n, n + 1 < MAX_EVENTS,
         NEW i, i = Slot(r, n + 1), NEW e \in Cells,
         NEW es2, Filled(es, i, e, es2)
  PROVE  Row(es2, r, o, n + 1) = Append(Row(es, r, o, n), e)
<1>1. /\ Row(es, r, o, n) \in Seq(Cells) /\ Len(Row(es, r, o, n)) = n + 1 - o
      /\ \A k \in 1 .. n + 1 - o : Row(es, r, o, n)[k] = es[Slot(r, o + k - 1)]
  <2>1. n < MAX_EVENTS
    BY RingAssumption
  <2>2. /\ es \in [Indices -> Cells] /\ r \in Indices /\ o \in {0, 1}
        /\ n \in Int /\ o - 1 <= n
    OBVIOUS
  <2>. QED BY ONLY <2>1, <2>2, RowFacts
<1>2. n + 1 \in 0 .. MAX_EVENTS - 1 /\ i \in Indices
  <2>1. n + 1 \in 0 .. MAX_EVENTS - 1
    BY RingAssumption
  <2>. QED BY <2>1, SlotFacts
<1>3. es2 \in [Indices -> Cells] /\ es2[i] = e /\ \A j \in Indices : j # i => es2[j] = es[j]
  BY DEF Filled
<1>4. /\ Row(es2, r, o, n + 1) \in Seq(Cells) /\ Len(Row(es2, r, o, n + 1)) = n + 1 + 1 - o
      /\ \A k \in 1 .. n + 1 + 1 - o : Row(es2, r, o, n + 1)[k] = es2[Slot(r, o + k - 1)]
  <2>1. PICK m \in Int : m = n + 1 /\ o - 1 <= m /\ m < MAX_EVENTS
    OBVIOUS
  <2>2. es2 \in [Indices -> Cells] /\ r \in Indices /\ o \in {0, 1}
    BY <1>3
  <2>3. /\ Row(es2, r, o, m) \in Seq(Cells) /\ Len(Row(es2, r, o, m)) = m + 1 - o
        /\ \A k \in 1 .. m + 1 - o : Row(es2, r, o, m)[k] = es2[Slot(r, o + k - 1)]
    BY ONLY <2>1, <2>2, RowFacts
  <2>. QED BY ONLY <2>1, <2>3
<1>. DEFINE a == Append(Row(es, r, o, n), e)
            m == n + 1 - o
<1>5. /\ a \in Seq(Cells) /\ Len(a) = m + 1 /\ a[m + 1] = e
      /\ \A k \in 1 .. m : a[k] = es[Slot(r, o + k - 1)]
  BY <1>1, AppendProperties
<1>6. m \in Nat /\ n + 1 + 1 - o = m + 1 /\ o + (m + 1) - 1 = n + 1
  OBVIOUS
<1>7. ASSUME NEW k \in 1 .. m PROVE es2[Slot(r, o + k - 1)] = es[Slot(r, o + k - 1)]
  <2>1. o + k - 1 \in 0 .. MAX_EVENTS - 1 /\ o + k - 1 # n + 1
    BY RingAssumption
  <2>2. Slot(r, o + k - 1) \in Indices /\ Slot(r, o + k - 1) # i
    BY <1>2, <2>1, SlotFacts
  <2>. QED BY <1>3, <2>2
<1>8. es2[Slot(r, o + (m + 1) - 1)] = e
  BY <1>3, <1>6
<1>. HIDE DEF a, m
<1>9. ASSUME NEW k \in 1 .. m + 1 PROVE Row(es2, r, o, n + 1)[k] = a[k]
  <2>1. k = m + 1 \/ k \in 1 .. m
    BY <1>6
  <2>2. Row(es2, r, o, n + 1)[k] = es2[Slot(r, o + k - 1)]
    BY <1>4, <1>6
  <2>. QED BY <1>5, <1>7, <1>8, <2>1, <2>2
<1>10. Row(es2, r, o, n + 1) = a
  BY <1>4, <1>5, <1>6, <1>9, SeqEqual
<1>. QED BY <1>10 DEF a

(* Without the slot at rear, which is the oldest.                           *)
LEMMA RowTail ==
  ASSUME NEW es \in [Indices -> Cells], NEW r \in Indices,
         NEW n \in Nat, n < MAX_EVENTS
  PROVE  /\ Row(es, r, 0, n) # <<>> /\ Head(Row(es, r, 0, n)) = es[r]
         /\ Row(es, r, 1, n) = Tail(Row(es, r, 0, n))
<1>. DEFINE q == Row(es, r, 0, n)
            t == Row(es, r, 1, n)
<1>1. q \in Seq(Cells) /\ Len(q) = n + 1 /\ \A k \in 1 .. n + 1 : q[k] = es[Slot(r, k - 1)]
  <2>1. /\ Row(es, r, 0, n) \in Seq(Cells) /\ Len(Row(es, r, 0, n)) = n + 1 - 0
        /\ \A k \in 1 .. n + 1 - 0 : Row(es, r, 0, n)[k] = es[Slot(r, 0 + k - 1)]
    <3>1. /\ es \in [Indices -> Cells] /\ r \in Indices /\ 0 \in {0, 1}
          /\ n \in Int /\ 0 - 1 <= n /\ n < MAX_EVENTS
      OBVIOUS
    <3>. QED BY ONLY <3>1, RowFacts
  <2>2. n + 1 - 0 = n + 1 /\ \A k \in 1 .. n + 1 : 0 + k - 1 = k - 1
    OBVIOUS
  <2>. QED BY <2>1, <2>2
<1>2. t \in Seq(Cells) /\ Len(t) = n /\ \A k \in 1 .. n : t[k] = es[Slot(r, k)]
  <2>1. /\ Row(es, r, 1, n) \in Seq(Cells) /\ Len(Row(es, r, 1, n)) = n + 1 - 1
        /\ \A k \in 1 .. n + 1 - 1 : Row(es, r, 1, n)[k] = es[Slot(r, 1 + k - 1)]
    <3>1. /\ es \in [Indices -> Cells] /\ r \in Indices /\ 1 \in {0, 1}
          /\ n \in Int /\ 1 - 1 <= n /\ n < MAX_EVENTS
      OBVIOUS
    <3>. QED BY ONLY <3>1, RowFacts
  <2>2. n + 1 - 1 = n /\ \A k \in 1 .. n : 1 + k - 1 = k
    OBVIOUS
  <2>. QED BY <2>1, <2>2
<1>. HIDE DEF q, t
<1>3. q # <<>> /\ Head(q) = q[1]
  BY <1>1, EmptySeq
<1>4. Head(q) = es[r]
  <2>1. q[1] = es[Slot(r, 1 - 1)] /\ 1 - 1 = 0
    BY <1>1
  <2>. QED BY <1>3, <2>1, SlotFacts
<1>5. /\ Tail(q) \in Seq(Cells) /\ Len(Tail(q)) = n /\ \A k \in 1 .. n : Tail(q)[k] = q[k + 1]
  BY <1>1, <1>3, HeadTailProperties
<1>6. ASSUME NEW k \in 1 .. n PROVE t[k] = Tail(q)[k]
  <2>1. k + 1 \in 1 .. n + 1 /\ k + 1 - 1 = k
    OBVIOUS
  <2>. QED BY <1>1, <1>2, <1>5, <2>1
<1>7. t = Tail(q)
  BY <1>2, <1>5, <1>6, SeqEqual
<1>. QED BY <1>3, <1>4, <1>7 DEF q, t

(* The same slots, seen from the next rear.                                 *)
LEMMA RowMoves ==
  ASSUME NEW es, NEW r \in Indices, NEW n \in Int, n < MAX_EVENTS,
         NEW r2, r2 = eq_index_next(r)
  PROVE  Row(es, r2, 0, n - 1) = Row(es, r, 1, n)
<1>1. n - 1 + 1 - 0 = n /\ n + 1 - 1 = n
  OBVIOUS
<1>2. ASSUME NEW k \in 1 .. n PROVE Slot(r2, 0 + k - 1) = Slot(r, 1 + k - 1)
  <2>1. k - 1 \in 0 .. MAX_EVENTS - 2 /\ 0 + k - 1 = k - 1 /\ 1 + k - 1 = k - 1 + 1
    BY RingAssumption
  <2>. QED BY <2>1, SlotFacts
<1>. QED BY <1>1, <1>2 DEF Row

(* How far the row goes, at every step of either side.                      *)
LEMMA WaitingFacts ==
  ASSUME Facts
  PROVE  /\ events \in [Indices -> Cells] /\ front \in Indices /\ rear \in Indices
         /\ Oldest \in {0, 1} /\ Newest \in Int
         /\ Oldest - 1 <= Newest /\ Newest < MAX_EVENTS
         /\ Waiting \in Seq(Cells) /\ Len(Waiting) = Newest + 1 - Oldest
         /\ \A k \in 1 .. Len(Waiting) : Waiting[k] = events[Slot(rear, Oldest + k - 1)]
<1>1. events \in [Indices -> Cells] /\ front \in Indices /\ rear \in Indices
  BY DEF Facts, TypeOK, QueueTypeOK, Cells
<1>2. PICK g \in 0 .. MAX_EVENTS - 1 : g = Gap(front, rear) /\ (g = 0 <=> front = rear)
  BY <1>1, GapType
<1>3. PICK n \in Int : n = Newest /\ n < MAX_EVENTS /\ -1 <= n /\ (cpc # "use" => 0 <= n)
  <2>1. Newest = IF ~Announced THEN g
                 ELSE IF front = rear /\ cpc # "use" THEN MAX_EVENTS - 1 ELSE g - 1
    BY <1>2 DEF Newest
  <2>. QED BY <1>2, <2>1, RingAssumption
<1>4. PICK o \in {0, 1} : o = Oldest /\ o - 1 <= n
  BY <1>3 DEF Oldest
<1>5. /\ Row(events, rear, o, n) \in Seq(Cells) /\ Len(Row(events, rear, o, n)) = n + 1 - o
      /\ \A k \in 1 .. n + 1 - o :
           Row(events, rear, o, n)[k] = events[Slot(rear, o + k - 1)]
  <2>1. /\ events \in [Indices -> Cells] /\ rear \in Indices /\ o \in {0, 1}
        /\ n \in Int /\ o - 1 <= n /\ n < MAX_EVENTS
    BY <1>1, <1>3, <1>4
  <2>. QED BY ONLY <2>1, RowFacts
<1>6. Waiting = Row(events, rear, o, n)
  BY <1>3, <1>4 DEF Waiting
<1>. QED BY ONLY <1>1, <1>3, <1>4, <1>5, <1>6

LEMMA SameWaiting ==
  ASSUME UNCHANGED <<events, front, rear>>, (cpc' = "use") <=> (cpc = "use"),
         Announced' <=> Announced
  PROVE  Waiting' = Waiting
<1>1. Oldest' = Oldest /\ Newest' = Newest
  BY DEF Oldest, Newest
<1>. QED BY <1>1 DEF Waiting, Row

(* A step at which nothing enters or leaves.                                *)
LEMMA OtherStep ==
  ASSUME Facts, UNCHANGED <<Waiting, got>>, cpc = "use" => cpc' = "use",
         \A p \in Producers : pc[p] = "write" => pc'[p] = "write",
         \A p \in Producers : pc[p] = "compare" => pc'[p] # "idle" \/ LastSent = ev[p]
  PROVE  QueueKeeps
<1>1. ~TakeEvent
  BY DEF TakeEvent, UseSlot
<1>2. ASSUME NEW p \in Producers PROVE ~WriteSlot(p)
  <2>1. WriteSlot(p) => pc[p] = "write" /\ pc'[p] = "idle"
    BY OneProducer DEF WriteSlot, Facts, TypeOK
  <2>. QED BY <2>1
<1>3. \A p \in Producers : Skipped(p) => LastSent = ev[p]
  BY DEF Skipped
<1>. QED BY <1>1, <1>2, <1>3 DEF QueueKeeps

(* The event at front is the last of those that wait, if no slot is         *)
(* announced.                                                               *)
LEMMA FrontIsLast ==
  ASSUME Facts, Ring, ~Announced,
         front # rear \/ cpc = "use" \/ got # Nil
  PROVE  LastSent = events[front]
<1>1. /\ front \in Indices /\ rear \in Indices
      /\ Waiting \in Seq(Cells) /\ Len(Waiting) = Newest + 1 - Oldest
      /\ \A k \in 1 .. Len(Waiting) : Waiting[k] = events[Slot(rear, Oldest + k - 1)]
  BY WaitingFacts
<1>2. PICK g \in 0 .. MAX_EVENTS - 1 :
        g = Gap(front, rear) /\ (g = 0 <=> front = rear) /\ Slot(rear, g) = front
  <2>1. Gap(front, rear) \in 0 .. MAX_EVENTS - 1 /\ Slot(rear, Gap(front, rear)) = front
    BY <1>1, SlotFacts
  <2>2. Gap(front, rear) = 0 <=> front = rear
    BY <1>1, GapType
  <2>. QED BY ONLY <2>1, <2>2
<1>3. Newest = g
  BY <1>2 DEF Newest
<1>4. Waiting = <<>> <=> Len(Waiting) = 0
  BY <1>1, EmptySeq
<1>5. CASE cpc # "use" /\ front = rear
  <2>1. Len(Waiting) = 0
    BY <1>1, <1>2, <1>3, <1>5 DEF Oldest
  <2>2. events[rear] = got
    BY <1>5 DEF Ring, TakenInv
  <2>. QED BY <1>4, <1>5, <2>1, <2>2 DEF LastSent
<1>6. CASE cpc = "use" \/ front # rear
  <2>1. PICK o \in {0, 1} : o = Oldest /\ (o = 1 => g # 0)
    BY <1>2, <1>6 DEF Oldest
  <2>2. PICK l \in Nat : l = Len(Waiting) /\ l # 0 /\ o + l - 1 = g
    BY <1>1, <1>3, <2>1
  <2>3. Waiting[l] = events[Slot(rear, g)]
    BY <1>1, <2>1, <2>2
  <2>. QED BY <1>2, <1>4, <2>2, <2>3 DEF LastSent
<1>. QED BY <1>5, <1>6

(* Everything that is sent is an event: no slot is filled with nothing.     *)
SendersEvents == \A p \in Producers : pc[p] # "idle" => ev[p] \in Event

LEMMA SendersStep ==
  ASSUME QueueTypeOK, SendersEvents, [Next]_vars
  PROVE  SendersEvents'
<1>1. CASE UNCHANGED queue \/ GetTest \/ LoadRear \/ StoreRear \/ UseSlot
  <2>1. UNCHANGED <<pc, ev>>
    BY <1>1 DEF queue, GetTest, LoadRear, StoreRear, UseSlot, producers
  <2>. QED BY <2>1 DEF SendersEvents
<1>2. ASSUME NEW p \in Producers, NEW e \in Event, Begin(p, e) PROVE SendersEvents'
  <2>1. ev'[p] = e /\ \A q \in Producers : q # p => pc'[q] = pc[q] /\ ev'[q] = ev[q]
    BY <1>2, BeginMoves
  <2>. QED BY <2>1 DEF SendersEvents
<1>3. ASSUME NEW p \in Producers, SendStep(p) PROVE SendersEvents'
  <2>1. pc[p] # "idle" /\ (\A q \in Producers : q # p => pc'[q] = pc[q]) /\ UNCHANGED ev
    BY <1>3, SendMoves
  <2>. QED BY <2>1 DEF SendersEvents
<1>. QED BY <1>1, <1>2, <1>3, QueueMoves

(* event_queue_send.                                                        *)
LEMMA SendKeeps ==
  ASSUME Facts, Ring, SendersEvents, NEW p \in Producers, Send(p), Lossless'
  PROVE  QueueKeeps
<1>1. QueueTypeOK /\ front \in Indices /\ rear \in Indices /\ ~spoiled' /\ ~Doomed'
  BY DEF Facts, TypeOK, QueueTypeOK, Lossless
<1>2. /\ SendStep(p) /\ UNCHANGED <<cpc, creg, got, ev>>
      /\ pc[p] # "idle" /\ \A q \in Producers : q # p => pc'[q] = pc[q]
      /\ pc'[p] # "bump" /\ (Skipped(p) => ~Announced)
      /\ Inside(p)' => \A q \in Producers : q # p => pc[q] \in {"idle", "compare"}
  BY <1>1, SendsAlone
<1>3. CASE Compare(p)
  <2>1. pc[p] = "compare" /\ pc'[p] \in {"load", "idle"} /\ UNCHANGED <<events, front, rear>>
    BY <1>1, <1>3, OneProducer DEF Compare
  <2>2. Announced' <=> Announced
    BY <1>2, <2>1 DEF Announced
  <2>3. Waiting' = Waiting
    BY <1>2, <2>1, <2>2, SameWaiting
  <2>4. pc'[p] = "idle" => LastSent = ev[p]
    <3>1. SUFFICES ASSUME pc'[p] = "idle" PROVE LastSent = ev[p]
      OBVIOUS
    <3>2. events[front] = ev[p]
      BY <1>1, <1>3, <3>1, OneProducer DEF Compare
    <3>3. ~Announced
      BY <1>2, <2>1, <3>1 DEF Skipped
    <3>4. front # rear \/ cpc = "use" \/ got # Nil
      BY <2>1, <3>3 DEF Ring, TakenInv
    <3>. QED BY <3>2, <3>3, <3>4, FrontIsLast
  <2>5. \A q \in Producers : pc[q] = "write" => pc'[q] = "write"
    BY <1>2, <2>1
  <2>6. \A q \in Producers : pc[q] = "compare" => pc'[q] # "idle" \/ LastSent = ev[q]
    BY <1>2, <2>4
  <2>. QED BY <1>2, <2>3, <2>5, <2>6, OtherStep
<1>4. CASE LoadFront(p) \/ TestFull(p)
  <2>1. /\ pc[p] \in {"load", "full"} /\ pc'[p] \in {"store", "write"}
        /\ (pc[p] = "load" <=> pc'[p] = "store") /\ UNCHANGED <<events, front, rear>>
    <3>1. CASE LoadFront(p)
      BY <1>1, <3>1, OneProducer DEF LoadFront
    <3>2. CASE TestFull(p)
      <4>1. pc[p] = "full" /\ pc'[p] \in {"bump", "write"} /\ UNCHANGED <<events, front, rear>>
        BY <1>1, <3>2, OneProducer DEF TestFull
      <4>. QED BY <1>2, <4>1
    <3>. QED BY <1>4, <3>1, <3>2
  <2>2. Announced' <=> Announced
    BY <1>2, <2>1 DEF Announced
  <2>3. Waiting' = Waiting
    BY <1>2, <2>1, <2>2, SameWaiting
  <2>4. \A q \in Producers : pc[q] = "write" => pc'[q] = "write"
    BY <1>2, <2>1
  <2>5. \A q \in Producers : pc[q] = "compare" => pc'[q] # "idle"
    BY <1>2, <2>1
  <2>. QED BY <1>2, <2>3, <2>4, <2>5, OtherStep
(* The slot is announced, and still holds what it held a round ago.         *)
<1>5. CASE StoreFront(p)
  <2>1. /\ pc[p] = "store" /\ pc'[p] = "full" /\ front' = eq_index_next(front)
        /\ UNCHANGED <<events, rear>>
    BY <1>1, <1>5, OneProducer DEF StoreFront, Ring, RingInv
  <2>2. ~Announced /\ Announced'
    BY <1>2, <2>1 DEF Announced, Inside
  <2>3. ~(front' = rear /\ cpc = "use")
    BY <1>1, <1>2, <2>1 DEF Doomed
  <2>4. Newest' = IF front' = rear THEN MAX_EVENTS - 1 ELSE Gap(front', rear) - 1
    BY <1>2, <2>1, <2>2, <2>3 DEF Newest
  <2>5. Newest = Gap(front, rear) /\ Gap(front, rear) \in Int
    BY <1>1, <2>2, GapType DEF Newest
  <2>6. Newest' = Newest
    <3>1. IF front' = rear THEN Gap(front, rear) = MAX_EVENTS - 1
                           ELSE Gap(front', rear) = Gap(front, rear) + 1
      BY <1>1, <2>1, GapOfNext
    <3>. QED BY ONLY <2>4, <2>5, <3>1
  <2>7. Oldest' = Oldest
    BY <1>2 DEF Oldest
  <2>8. Waiting' = Waiting
    BY <2>1, <2>6, <2>7 DEF Waiting, Row
  <2>9. \A q \in Producers : pc[q] = "write" => pc'[q] = "write"
    BY <1>2, <2>1
  <2>10. \A q \in Producers : pc[q] = "compare" => pc'[q] # "idle"
    BY <1>2, <2>1
  <2>. QED BY <1>2, <2>8, <2>9, <2>10, OtherStep
<1>6. CASE WriteSlot(p)
  <2>1. /\ pc[p] = "write" /\ pc'[p] = "idle" /\ UNCHANGED <<front, rear>>
        /\ events' = [events EXCEPT ![front] = ev[p]]
    BY <1>1, <1>6, OneProducer DEF WriteSlot, Ring, RingInv
  <2>2. front # rear \/ cpc = "use"
    BY <2>1 DEF Ring, RingInv
  <2>3. Announced /\ ~Announced'
    BY <1>2, <2>1 DEF Announced, Ring, RingInv, Active
  <2>4. PICK g \in 0 .. MAX_EVENTS - 1 : g = Gap(front, rear) /\ Slot(rear, g) = front
    BY <1>1, SlotFacts
  <2>5. Newest = g - 1 /\ Newest' = g
    BY <1>2, <2>1, <2>2, <2>3, <2>4 DEF Newest
  <2>6. PICK n \in Int : n = Newest /\ g = n + 1 /\ n + 1 < MAX_EVENTS
    BY <2>4, <2>5, RingAssumption
  <2>7. PICK o \in {0, 1} : o = Oldest /\ Oldest' = o /\ o - 1 <= n
    BY <1>2, <2>6, WaitingFacts DEF Oldest
  <2>8. Waiting = Row(events, rear, o, n) /\ Waiting' = Row(events', rear, o, n + 1)
    BY <2>1, <2>5, <2>6, <2>7 DEF Waiting, Row
  <2>9. ev[p] \in Event /\ ev[p] \in Cells /\ events \in [Indices -> Cells]
    BY <1>2, WaitingFacts DEF SendersEvents, Cells
  <2>10. Row(events', rear, o, n + 1) = Append(Row(events, rear, o, n), ev[p])
    <3>1. front = Slot(rear, n + 1)
      BY <2>4, <2>6
    <3>2. PICK e \in Cells : e = ev[p]
      BY <2>9
    <3>3. /\ events \in [Indices -> Cells] /\ rear \in Indices /\ o \in {0, 1}
          /\ n \in Int /\ o - 1 <= n /\ n + 1 < MAX_EVENTS
          /\ front = Slot(rear, n + 1) /\ Filled(events, front, e, events')
      <4>1. Filled(events, front, e, events')
        BY <1>1, <2>1, <2>9, <3>2 DEF Filled
      <4>. QED BY <1>1, <2>6, <2>7, <2>9, <3>1, <4>1
    <3>4. Row(events', rear, o, n + 1) = Append(Row(events, rear, o, n), e)
      BY ONLY <3>2, <3>3, RowGrows
    <3>. QED BY <3>2, <3>4
  <2>11. Len(Waiting) < MAX_EVENTS
    <3>1. Len(Waiting) = n + 1 - o
      BY <2>6, <2>7, WaitingFacts
    <3>. QED BY ONLY <2>6, <2>7, <3>1, RingAssumption
  <2>12. Waiting' = Append(Waiting, ev[p]) /\ Len(Waiting) # MAX_EVENTS
    <3>1. Len(Waiting) # MAX_EVENTS
      BY <2>6, <2>7, <2>11, WaitingFacts, RingAssumption
    <3>. QED BY ONLY <2>8, <2>10, <3>1
  <2>13. Fifo!Send(ev[p])
    BY <1>2, <2>12 DEF Fifo!Send
  <2>. QED BY <1>6, <2>9, <2>11, <2>13 DEF QueueKeeps, Enters
<1>7. ~BumpRear(p)
  BY DEF BumpRear, Ring, RingInv
<1>. QED BY <1>2, <1>3, <1>4, <1>5, <1>6, <1>7 DEF SendStep

(* jfst_idle's side: when rear is stored the first that waits is at rear,   *)
(* and when the slot is read it has left.                                   *)
LEMMA StoreRearKeeps ==
  ASSUME Facts, Ring, GetEvent, StoreRear
  PROVE  QueueKeeps
<1>1. front \in Indices /\ rear \in Indices
  BY DEF Facts, TypeOK, QueueTypeOK
<1>2. /\ UNCHANGED <<events, front, pc, got>> /\ cpc = "store" /\ cpc' = "use"
      /\ rear' = eq_index_next(rear) /\ (front # rear \/ Announced)
  BY DEF GetEvent, StoreRear, producers, Ring, RingInv
<1>3. Announced' <=> Announced
  BY <1>2 DEF Announced
<1>4. PICK g \in 0 .. MAX_EVENTS - 1 : g = Gap(front, rear) /\ (g = 0 <=> front = rear)
  BY <1>1, GapType
<1>5. Gap(front, rear') = IF front = rear THEN MAX_EVENTS - 1 ELSE g - 1
  BY <1>1, <1>2, <1>4, GapFromNext
<1>6. PICK n \in Int : n = Newest /\ n < MAX_EVENTS /\ Newest' = n - 1
  <2>1. Newest = IF ~Announced THEN g ELSE IF front = rear THEN MAX_EVENTS - 1 ELSE g - 1
    BY <1>2, <1>4 DEF Newest
  <2>2. Newest' = IF ~Announced THEN Gap(front, rear') ELSE Gap(front, rear') - 1
    BY <1>2, <1>3 DEF Newest
  <2>. QED BY <1>2, <1>4, <1>5, <2>1, <2>2, RingAssumption
<1>7. Waiting' = Waiting
  <2>1. Waiting = Row(events, rear, 1, n)
    BY <1>2, <1>6 DEF Waiting, Oldest
  <2>2. Waiting' = Row(events, rear', 0, n - 1)
    BY <1>2, <1>6 DEF Waiting, Oldest, Row
  <2>3. Row(events, rear', 0, n - 1) = Row(events, rear, 1, n)
    BY <1>1, <1>2, <1>6, RowMoves
  <2>. QED BY <2>1, <2>2, <2>3
<1>8. \A p \in Producers : pc[p] = "compare" => pc'[p] # "idle" \/ LastSent = ev[p]
  BY <1>2
<1>. QED BY <1>2, <1>7, <1>8, OtherStep

LEMMA TakeKeeps ==
  ASSUME Facts, Ring, TakeEvent, ~spoiled'
  PROVE  QueueKeeps
<1>1. events \in [Indices -> Cells] /\ front \in Indices /\ rear \in Indices
  BY WaitingFacts
<1>2. /\ UNCHANGED <<events, front, rear, pc>> /\ cpc = "use" /\ cpc' = "test"
      /\ got' = events[rear]
  BY DEF TakeEvent, UseSlot, producers, Ring, RingInv
<1>3. Announced => front # rear
  BY <1>2 DEF TakeEvent, Announced, Ring, RingInv
<1>4. Announced' <=> Announced
  BY <1>2 DEF Announced
<1>5. PICK g \in 0 .. MAX_EVENTS - 1 : g = Gap(front, rear) /\ (g = 0 <=> front = rear)
  BY <1>1, GapType
<1>6. PICK n \in Nat : n = Newest /\ n < MAX_EVENTS /\ Newest' = n
  <2>1. Newest = IF ~Announced THEN g ELSE g - 1
    BY <1>2, <1>5 DEF Newest
  <2>2. Newest' = IF ~Announced THEN g ELSE g - 1
    BY <1>2, <1>3, <1>4, <1>5 DEF Newest
  <2>3. (IF ~Announced THEN g ELSE g - 1) \in Nat /\ (IF ~Announced THEN g ELSE g - 1) < MAX_EVENTS
    BY <1>3, <1>5, RingAssumption
  <2>. QED BY <2>1, <2>2, <2>3
<1>7. Waiting = Row(events, rear, 0, n) /\ Waiting' = Row(events, rear, 1, n)
  BY <1>2, <1>6 DEF Waiting, Oldest, Row
<1>8. /\ Row(events, rear, 0, n) # <<>> /\ Head(Row(events, rear, 0, n)) = events[rear]
      /\ Row(events, rear, 1, n) = Tail(Row(events, rear, 0, n))
  BY <1>1, <1>6, RowTail
<1>9. Waiting # <<>> /\ got' = Head(Waiting) /\ Waiting' = Tail(Waiting)
  BY <1>2, <1>7, <1>8
<1>. QED BY <1>9 DEF QueueKeeps, Fifo!Get

(* All the others: whoever begins a send, handles an event or learns.       *)
LEMMA QuietKeeps ==
  ASSUME Facts, Ring,
         \/ Aside \/ Handle \/ (GetEvent /\ (GetTest \/ LoadRear))
         \/ \E p \in Producers, e \in Event : Begin(p, e)
  PROVE  QueueKeeps
<1>1. QueueTypeOK
  BY DEF Facts, TypeOK
<1>2. /\ UNCHANGED <<events, front, rear, got>> /\ ((cpc' = "use") <=> (cpc = "use"))
      /\ \A p \in Producers : pc'[p] = pc[p] \/ (pc[p] = "idle" /\ pc'[p] \in {"load", "compare"})
  <2>1. CASE Aside \/ Handle
    BY <2>1 DEF Aside, Handle, queue, consumer
  <2>2. CASE GetEvent /\ (GetTest \/ LoadRear)
    BY <2>2 DEF GetTest, LoadRear, producers
  <2>3. ASSUME NEW p \in Producers, NEW e \in Event, Begin(p, e)
        PROVE  /\ UNCHANGED <<events, front, rear, got, cpc>>
               /\ \A q \in Producers :
                    pc'[q] = pc[q] \/ (pc[q] = "idle" /\ pc'[q] \in {"load", "compare"})
    BY <1>1, <2>3, BeginMoves
  <2>. QED BY <2>1, <2>2, <2>3
<1>3. Announced' <=> Announced
  BY <1>2 DEF Announced
<1>4. Waiting' = Waiting
  BY <1>2, <1>3, SameWaiting
<1>5. \A p \in Producers : pc[p] = "write" => pc'[p] = "write"
  BY <1>2
<1>6. \A p \in Producers : pc[p] = "compare" => pc'[p] # "idle" \/ LastSent = ev[p]
  BY <1>2
<1>. QED BY <1>2, <1>4, <1>5, <1>6, OtherStep

LEMMA KeepsStep ==
  ASSUME QueueInv, SendersEvents, [Next]_vars, Lossless'
  PROVE  QueueKeeps
<1>1. Facts /\ ~spoiled'
  BY DEF QueueInv, Lossless
<1>2. Ring
  BY <1>1, SpoiledStays DEF QueueInv, Ring, Facts, TypeOK
<1>3. CASE UNCHANGED vars
  BY <1>1, <1>2, <1>3, AsideSteps, QuietKeeps
<1>4. CASE \/ \E low \in BOOLEAN : StateCC(low)
           \/ \E e \in Event : e.type = "PC" /\ ProgramChange(e.value)
           \/ NewPorts
  <2>1. \E p \in Producers, e \in Event : Begin(p, e)
    BY <1>4, SendersBegin
  <2>. QED BY <1>1, <1>2, <2>1, QuietKeeps
<1>5. CASE \E p \in Producers : Send(p)
  BY <1>1, <1>2, <1>5, SendKeeps
<1>6. CASE GetEvent
  BY <1>1, <1>2, <1>6, StoreRearKeeps, QuietKeeps DEF GetEvent
<1>7. CASE TakeEvent
  BY <1>1, <1>2, <1>7, TakeKeeps
<1>8. CASE Handle
  BY <1>1, <1>2, <1>8, QuietKeeps
<1>9. CASE \/ \E c \in CCs : MoveCC(c)
           \/ \E q \in Params : TurnKnob(q)
           \/ (\E by \in {"client", "button"} : Start(by) \/ Stop(by))
           \/ NoteCC \/ NoteKnob \/ ResetCC \/ SetWait \/ Mirror \/ TestLearn \/ Pair \/ ClearWait
  <2>1. Aside
    BY <1>9, AsideSteps
  <2>. QED BY <1>1, <1>2, <2>1, QuietKeeps
<1>. QED BY <1>3, <1>4, <1>5, <1>6, <1>7, <1>8, <1>9 DEF Next, IdleStep

(* The ring, with its two producers that share an index without a lock and  *)
(* a consumer that reads a slot after it has moved rear, is a queue that    *)
(* hands out every event that has entered it once and in the order in which *)
(* they did, and leaves out none but repetitions of the event sent last -   *)
(* for any number of slots and sends, as long as nothing was lost to an     *)
(* overflow or to one of the races that "spoiled" names.                    *)
THEOREM RaceIsFifo == Spec => Fifo!FInit /\ [][Lossless' => QueueKeeps]_vars
<1>1. Init => QueueInv /\ SendersEvents
  <2>1. Init => SendersEvents
    BY DEF Init, QueueInit, SendersEvents
  <2>. QED BY <2>1, QueueInitially
<1>2. Init => Fifo!FInit
  <2>. SUFFICES ASSUME Init PROVE Waiting = <<>> /\ got = Nil
    BY DEF Fifo!FInit
  <2>1. front = rear /\ cpc = "test" /\ got = Nil /\ ~Announced
    BY DEF Init, QueueInit, Announced
  <2>2. Facts
    BY QueueInitially DEF QueueInv
  <2>3. Waiting \in Seq(Cells) /\ Len(Waiting) = Newest + 1 - Oldest /\ front \in Indices
    BY <2>2, WaitingFacts
  <2>4. Newest = 0 /\ Oldest = 1
    BY <2>1, <2>3, GapType DEF Newest, Oldest
  <2>. QED BY <2>1, <2>3, <2>4, EmptySeq
<1>3. QueueInv /\ SendersEvents /\ [Next]_vars => SendersEvents'
  <2>1. QueueInv => QueueTypeOK
    BY DEF QueueInv, Facts, TypeOK
  <2>. QED BY <2>1, SendersStep
<1>4. QueueInv /\ SendersEvents /\ [Next]_vars => [Lossless' => QueueKeeps]_vars
  BY KeepsStep
<1>. QED BY <1>1, <1>2, <1>3, <1>4, QueueInvariant, PTL DEF Spec

(* So each of its steps is one of the abstract queue's or none.             *)
THEOREM RaceImplementsFifo ==
  Spec => Fifo!FInit /\ [][Lossless' => Fifo!FNext \/ UNCHANGED Fifo!fvars]_vars
<1>1. QueueKeeps => Fifo!FNext \/ UNCHANGED Fifo!fvars
  BY DEF QueueKeeps, Enters, Fifo!FNext, Fifo!fvars
<1>2. [Lossless' => QueueKeeps]_vars => [Lossless' => Fifo!FNext \/ UNCHANGED Fifo!fvars]_vars
  BY <1>1
<1>. QED BY <1>2, RaceIsFifo, PTL
=============================================================================
