--------------------------- MODULE EventCall_proofs ---------------------------
(***************************************************************************)
(* Proofs about EventCall, for any set of callers, any calls and any data. *)
(***************************************************************************)
EXTENDS EventCall, TLAPS

USE ArgsAssumption, InitAssumption, CallersAssumption, CallsAssumption

(***************************************************************************)
(* What the switch of the event handler does to the flags its own guard    *)
(* reads: only the calls of the plugin's life cycle touch them.            *)
(***************************************************************************)
LEMMA EffectsFacts ==
  ASSUME NEW f \in FST, NEW k \in Call, NEW g \in Effects(f, k)
  PROVE  /\ g \in FST
         /\ k.type \notin LifecycleTypes =>
              (g.initialized <=> f.initialized) /\ (g.opened <=> f.opened)
         /\ k.type = "INIT" => g.initialized /\ (g.opened <=> f.opened)
         /\ k.type = "OPEN" => (g.initialized <=> f.initialized) /\ g.opened
         /\ k.type = "CLOSE" => (g.initialized <=> f.initialized) /\ ~g.opened
<1> USE DEF FST, LifecycleTypes
<1>1. CASE k.type = "INIT"
  <2>1. Effects(f, k) = {[f EXCEPT !.plugin = ok, !.initialized = TRUE] : ok \in InitResults}
    BY <1>1 DEF Effects
  <2>2. PICK ok \in InitResults : g = [f EXCEPT !.plugin = ok, !.initialized = TRUE]
    BY <2>1
  <2>3. ok \in BOOLEAN
    BY <2>2
  <2> QED
    BY <1>1, <2>2, <2>3
<1>2. CASE k.type = "OPEN"
  BY <1>2 DEF Effects
<1>3. CASE k.type = "CLOSE"
  BY ONLY <1>3 DEF Effects, Suspended, EditorGone
<1>4. CASE k.type = "SUSPEND"
  BY ONLY <1>4 DEF Effects, Suspended
<1>5. CASE k.type = "RESUME"
  BY ONLY <1>5 DEF Effects
<1>6. CASE k.type = "CONFIGURE"
  BY <1>6 DEF Effects, Call
<1>7. CASE k.type = "EDITOR_OPEN"
  <2>1. Effects(f, k) = {f} \cup {[f EXCEPT !.window = TRUE, !.size = s] : s \in Args}
    BY <1>7 DEF Effects
  <2>2. CASE g = f
    BY <1>7, <2>2
  <2>3. CASE \E s \in Args : g = [f EXCEPT !.window = TRUE, !.size = s]
    BY ONLY <1>7, <2>3
  <2> QED
    BY <2>1, <2>2, <2>3
<1>8. CASE k.type = "EDITOR_CLOSE"
  BY ONLY <1>8 DEF Effects, EditorGone
<1>9. CASE k.type = "EDITOR_RESIZE"
  BY <1>9 DEF Effects, Call
<1>10. CASE k.type = "PROGRAM_CHANGE"
  BY <1>10 DEF Effects, Call
<1>11. CASE k.type = "DISPATCHER"
  BY <1>11 DEF Effects
<1> QED
  BY <1>1, <1>2, <1>3, <1>4, <1>5, <1>6, <1>7, <1>8, <1>9, <1>10, <1>11
  DEF Call, Types

LEMMA DataFacts == NewFST \in FST /\ NullCall \in Call
BY DEF NewFST, FST, NullCall, Call, Types

LEMMA InitIInv == Init => IInv
<1> SUFFICES ASSUME Init PROVE IInv
  OBVIOUS
<1>1. TypeOK
  BY DataFacts DEF Init, TypeOK, Threads, Stages, CallerLabels, EventLabels
<1>2. LockInv /\ HandOffInv /\ OwnWorkInv
  BY DEF Init, LockInv, HandOffInv, OwnWorkInv, Threads, InCall, Handling
<1>3. LifeInv
  BY DEF Init, LifeInv, Threads, NewFST
<1> QED
  BY <1>1, <1>2, <1>3 DEF IInv

(***************************************************************************)
(* Every step keeps the types, those that are no part of Spec too.         *)
(***************************************************************************)
LEMMA TypeStep == TypeOK /\ [AnyNext]_vars => TypeOK'
<1> SUFFICES ASSUME TypeOK, [AnyNext]_vars PROVE TypeOK'
  OBVIOUS
<1> USE DEF TypeOK, Threads, GoTo, CallerLabels, EventLabels
<1>1. ASSUME ThreadAdd
      PROVE  TypeOK'
  BY <1>1 DEF ThreadAdd, Stages
<1>2. ASSUME SetIdleCallback
      PROVE  TypeOK'
  BY <1>2 DEF SetIdleCallback
<1>3. ASSUME ClearIdleCallback
      PROVE  TypeOK'
  BY <1>3 DEF ClearIdleCallback, Stages
<1>4. ASSUME JackClose
      PROVE  TypeOK'
  BY <1>4 DEF JackClose, Stages
<1>5. ASSUME ThreadRemove
      PROVE  TypeOK'
  BY <1>5, DataFacts DEF ThreadRemove, Stages
<1>6. ASSUME NEW c \in Callers, NEW k \in Call, StartCall(c, k)
      PROVE  TypeOK'
  BY <1>6 DEF StartCall, FirstLabel
<1>7. ASSUME NEW c \in Callers, GetProgram(c)
      PROVE  TypeOK'
  BY <1>7, DataFacts DEF GetProgram
<1>8. ASSUME NEW c \in Callers, LockEventCall(c)
      PROVE  TypeOK'
  BY <1>8 DEF LockEventCall
<1>9. ASSUME NEW c \in Callers, PostCall(c)
      PROVE  TypeOK'
  BY <1>9 DEF PostCall
<1>10. ASSUME NEW c \in Callers, CondWait(c)
      PROVE  TypeOK'
  BY <1>10 DEF CondWait
<1>11. ASSUME NEW c \in Callers, ReturnFromCall(c)
      PROVE  TypeOK'
  BY <1>11, DataFacts DEF ReturnFromCall, NextStage, Stages
<1>12. ASSUME NEW c \in Callers, SpuriousWakeup(c)
      PROVE  TypeOK'
  BY <1>12 DEF SpuriousWakeup
<1>13. ASSUME BeginPass
      PROVE  TypeOK'
  BY <1>13 DEF BeginPass
<1>14. ASSUME IdleDone
      PROVE  TypeOK'
  BY <1>14 DEF IdleDone
<1>15. ASSUME OwnGetProgram
      PROVE  TypeOK'
  BY <1>15 DEF OwnGetProgram
<1>16. ASSUME RefreshProgram
      PROVE  TypeOK'
  BY <1>16, DataFacts DEF RefreshProgram, FST
<1>17. ASSUME TestCall
      PROVE  TypeOK'
  BY <1>17 DEF TestCall
<1>18. ASSUME CheckReady
      PROVE  TypeOK'
  BY <1>18 DEF CheckReady, AfterHandler
<1>19. ASSUME LockFst
      PROVE  TypeOK'
  BY <1>19 DEF LockFst
<1>20. ASSUME RunHandler
      PROVE  TypeOK'
  <2>1. fst' \in FST
    BY <1>20, EffectsFacts DEF RunHandler
  <2> QED
    BY <1>20, <2>1 DEF RunHandler, AfterHandler
<1>21. ASSUME ClearCall
      PROVE  TypeOK'
  BY <1>21 DEF ClearCall
<1>22. ASSUME Signal
      PROVE  TypeOK'
  BY <1>22 DEF Signal, Waiters
<1>23. ASSUME NEW k \in OwnCalls, OwnCall(k)
      PROVE  TypeOK'
  BY <1>23 DEF OwnCall
<1>24. ASSUME PluginAsksForResize
      PROVE  TypeOK'
  BY <1>24 DEF PluginAsksForResize
<1>25. ASSUME WindowClosed
      PROVE  TypeOK'
  BY <1>25 DEF WindowClosed, EditorGone, FST
<1>26. CASE UNCHANGED vars
  BY <1>26 DEF vars
<1> QED
  BY <1>1, <1>2, <1>3, <1>4, <1>5, <1>6, <1>7, <1>8, <1>9, <1>10, <1>11, <1>12, <1>13, <1>14, <1>15, <1>16, <1>17, <1>18, <1>19, <1>20, <1>21, <1>22, <1>23, <1>24, <1>25, <1>26
  DEF AnyNext, SpuriousNext, ResizeNext, Next, Lifecycle, CallerStep, EventStep

(* TypeOK holds in every reachable state: in particular the locks have an  *)
(* owner or none, and the event thread always has a call to follow.        *)
THEOREM TypeCorrect == AnySpec => []TypeOK
<1>1. Init => TypeOK
  BY InitIInv DEF IInv
<1> QED
  BY <1>1, TypeStep, PTL DEF AnySpec

(***************************************************************************)
(* The locks: this part of the invariant stands by itself and holds with   *)
(* spurious wake-ups too.                                                  *)
(***************************************************************************)
LEMMA LockStep == TypeOK /\ LockInv /\ [AnyNext]_vars => LockInv'
<1> SUFFICES ASSUME TypeOK, LockInv, [AnyNext]_vars PROVE LockInv'
  OBVIOUS
<1> USE DEF Threads, GoTo, InCall, LockInv
<1>1. ASSUME ThreadAdd
      PROVE  LockInv'
  BY <1>1 DEF ThreadAdd, BetweenPasses, TypeOK
<1>2. ASSUME SetIdleCallback
      PROVE  LockInv'
  BY <1>2 DEF SetIdleCallback, BetweenPasses, TypeOK
<1>3. ASSUME ClearIdleCallback
      PROVE  LockInv'
  BY <1>3 DEF ClearIdleCallback, BetweenPasses, TypeOK
<1>4. ASSUME JackClose
      PROVE  LockInv'
  BY <1>4 DEF JackClose, TypeOK
<1>5. ASSUME ThreadRemove
      PROVE  LockInv'
  BY <1>5 DEF ThreadRemove, BetweenPasses, TypeOK
<1>6. ASSUME NEW c \in Callers, NEW k \in Call, StartCall(c, k)
      PROVE  LockInv'
  BY <1>6 DEF StartCall, MayCall, FirstLabel, TypeOK
<1>7. ASSUME NEW c \in Callers, GetProgram(c)
      PROVE  LockInv'
  BY <1>7 DEF GetProgram, TypeOK
<1>8. ASSUME NEW c \in Callers, LockEventCall(c)
      PROVE  LockInv'
  BY <1>8 DEF LockEventCall, TypeOK
<1>9. ASSUME NEW c \in Callers, PostCall(c)
      PROVE  LockInv'
  BY <1>9 DEF PostCall, TypeOK
<1>10. ASSUME NEW c \in Callers, CondWait(c)
      PROVE  LockInv'
  BY <1>10 DEF CondWait, TypeOK
<1>11. ASSUME NEW c \in Callers, ReturnFromCall(c)
      PROVE  LockInv'
  BY <1>11 DEF ReturnFromCall, NextStage, TypeOK
<1>12. ASSUME NEW c \in Callers, SpuriousWakeup(c)
      PROVE  LockInv'
  BY <1>12 DEF SpuriousWakeup, TypeOK
<1>13. ASSUME BeginPass
      PROVE  LockInv'
  BY <1>13 DEF BeginPass, Linked, TypeOK
<1>14. ASSUME IdleDone
      PROVE  LockInv'
  BY <1>14 DEF IdleDone, TypeOK
<1>15. ASSUME OwnGetProgram
      PROVE  LockInv'
  BY <1>15 DEF OwnGetProgram, TypeOK
<1>16. ASSUME RefreshProgram
      PROVE  LockInv'
  BY <1>16 DEF RefreshProgram, TypeOK
<1>17. ASSUME TestCall
      PROVE  LockInv'
  BY <1>17 DEF TestCall, TypeOK
<1>18. ASSUME CheckReady
      PROVE  LockInv'
  BY <1>18 DEF CheckReady, AfterHandler, TypeOK
<1>19. ASSUME LockFst
      PROVE  LockInv'
  BY <1>19 DEF LockFst, TypeOK
<1>20. ASSUME RunHandler
      PROVE  LockInv'
  BY <1>20 DEF RunHandler, AfterHandler, TypeOK
<1>21. ASSUME ClearCall
      PROVE  LockInv'
  BY <1>21 DEF ClearCall, TypeOK
<1>22. ASSUME Signal
      PROVE  LockInv'
  BY <1>22 DEF Signal, Waiters, TypeOK
<1>23. ASSUME NEW k \in OwnCalls, OwnCall(k)
      PROVE  LockInv'
  BY <1>23 DEF OwnCall, TypeOK
<1>24. ASSUME PluginAsksForResize
      PROVE  LockInv'
  BY <1>24 DEF PluginAsksForResize, TypeOK
<1>25. ASSUME WindowClosed
      PROVE  LockInv'
  BY <1>25 DEF WindowClosed, TypeOK
<1>26. CASE UNCHANGED vars
  BY <1>26 DEF vars
<1> QED
  BY <1>1, <1>2, <1>3, <1>4, <1>5, <1>6, <1>7, <1>8, <1>9, <1>10, <1>11, <1>12, <1>13, <1>14, <1>15, <1>16, <1>17, <1>18, <1>19, <1>20, <1>21, <1>22, <1>23, <1>24, <1>25, <1>26
  DEF AnyNext, SpuriousNext, ResizeNext, Next, Lifecycle, CallerStep, EventStep

(* Whatever the scheduler, the plugin and the condition variable do, only  *)
(* one caller at a time is between the lock and unlock of event_call.lock. *)
THEOREM CallsAreSerialized == AnySpec => []OneCallAtATime
<1>1. Init => TypeOK /\ LockInv
  BY InitIInv DEF IInv
<1>2. LockInv => OneCallAtATime
  BY CallersAssumption DEF LockInv, OneCallAtATime
<1> QED
  BY <1>1, <1>2, TypeStep, LockStep, PTL DEF AnySpec

(***************************************************************************)
(* The other parts lean on each other.  Without a signal nobody leaves the *)
(* wait, so the FSTCall the event thread follows stays where it is.        *)
(***************************************************************************)
LEMMA StepIInv ==
  ASSUME IInv, [Next]_vars
  PROVE  IInv'
<1> USE DEF Threads, GoTo, InCall, Handling
<1>a. TypeOK /\ LockInv /\ HandOffInv /\ LifeInv /\ OwnWorkInv
  BY DEF IInv
<1>b. TypeOK' /\ LockInv'
  <2>1. [AnyNext]_vars
    BY DEF AnyNext, SpuriousNext
  <2> QED
    BY <1>a, <2>1, TypeStep, LockStep
<1>c. SUFFICES HandOffInv' /\ LifeInv' /\ OwnWorkInv'
  BY <1>b DEF IInv
<1>1. ASSUME ThreadAdd
      PROVE  HandOffInv' /\ LifeInv' /\ OwnWorkInv'
  BY <1>a, <1>1 DEF ThreadAdd, BetweenPasses, HandOffInv, LockInv, LifeInv, OwnWorkInv, TypeOK, FST, Ready, LifecycleTypes
<1>2. ASSUME SetIdleCallback
      PROVE  HandOffInv' /\ LifeInv' /\ OwnWorkInv'
  BY <1>a, <1>2 DEF SetIdleCallback, BetweenPasses, HandOffInv, LockInv, LifeInv, OwnWorkInv, TypeOK, FST, Ready, LifecycleTypes
<1>3. ASSUME ClearIdleCallback
      PROVE  HandOffInv' /\ LifeInv' /\ OwnWorkInv'
  BY <1>a, <1>3 DEF ClearIdleCallback, BetweenPasses, HandOffInv, LockInv, LifeInv, OwnWorkInv, TypeOK, FST, Ready, LifecycleTypes
<1>4. ASSUME JackClose
      PROVE  HandOffInv' /\ LifeInv' /\ OwnWorkInv'
  BY <1>a, <1>4 DEF JackClose, HandOffInv, LockInv, LifeInv, OwnWorkInv, TypeOK, FST, Ready, LifecycleTypes
<1>5. ASSUME ThreadRemove
      PROVE  HandOffInv' /\ LifeInv' /\ OwnWorkInv'
  BY <1>a, <1>5 DEF ThreadRemove, BetweenPasses, HandOffInv, LockInv, LifeInv, OwnWorkInv, TypeOK, NewFST, FST, Ready, LifecycleTypes
<1>6. ASSUME NEW c \in Callers, NEW k \in Call, StartCall(c, k)
      PROVE  HandOffInv' /\ LifeInv' /\ OwnWorkInv'
  BY <1>a, <1>6 DEF StartCall, MayCall, FirstLabel, HandOffInv, LockInv, LifeInv, OwnWorkInv, TypeOK, LifecycleTypes, FST, Ready
<1>7. ASSUME NEW c \in Callers, GetProgram(c)
      PROVE  HandOffInv' /\ LifeInv' /\ OwnWorkInv'
  BY <1>a, <1>7 DEF GetProgram, HandOffInv, LockInv, LifeInv, OwnWorkInv, TypeOK, NullCall, FST, Ready, LifecycleTypes
<1>8. ASSUME NEW c \in Callers, LockEventCall(c)
      PROVE  HandOffInv' /\ LifeInv' /\ OwnWorkInv'
  BY <1>a, <1>8 DEF LockEventCall, HandOffInv, LockInv, LifeInv, OwnWorkInv, TypeOK, FST, Ready, LifecycleTypes
<1>9. ASSUME NEW c \in Callers, PostCall(c)
      PROVE  HandOffInv' /\ LifeInv' /\ OwnWorkInv'
  BY <1>a, <1>9 DEF PostCall, HandOffInv, LockInv, LifeInv, OwnWorkInv, TypeOK, FST, Ready, LifecycleTypes
<1>10. ASSUME NEW c \in Callers, CondWait(c)
      PROVE  HandOffInv' /\ LifeInv' /\ OwnWorkInv'
  BY <1>a, <1>10 DEF CondWait, HandOffInv, LockInv, LifeInv, OwnWorkInv, TypeOK, FST, Ready, LifecycleTypes
<1>11. ASSUME NEW c \in Callers, ReturnFromCall(c)
      PROVE  HandOffInv' /\ LifeInv' /\ OwnWorkInv'
  BY <1>a, <1>11 DEF ReturnFromCall, NextStage, HandOffInv, LockInv, LifeInv, OwnWorkInv, TypeOK, NullCall, LifecycleTypes, FST, Ready
<1>13. ASSUME BeginPass
      PROVE  HandOffInv' /\ LifeInv' /\ OwnWorkInv'
  BY <1>a, <1>13 DEF BeginPass, Linked, HandOffInv, LockInv, LifeInv, OwnWorkInv, TypeOK, FST, Ready, LifecycleTypes
<1>14. ASSUME IdleDone
      PROVE  HandOffInv' /\ LifeInv' /\ OwnWorkInv'
  BY <1>a, <1>14 DEF IdleDone, HandOffInv, LockInv, LifeInv, OwnWorkInv, TypeOK, FST, Ready, LifecycleTypes
<1>15. ASSUME OwnGetProgram
      PROVE  HandOffInv' /\ LifeInv' /\ OwnWorkInv'
  BY <1>a, <1>15 DEF OwnGetProgram, HandOffInv, LockInv, LifeInv, OwnWorkInv, TypeOK, FST, Ready, LifecycleTypes
<1>16. ASSUME RefreshProgram
      PROVE  HandOffInv' /\ LifeInv' /\ OwnWorkInv'
  BY <1>a, <1>16 DEF RefreshProgram, HandOffInv, LockInv, LifeInv, OwnWorkInv, TypeOK, NullCall, FST, Ready, LifecycleTypes
<1>17. ASSUME TestCall
      PROVE  HandOffInv' /\ LifeInv' /\ OwnWorkInv'
  BY <1>a, <1>17 DEF TestCall, HandOffInv, LockInv, LifeInv, OwnWorkInv, TypeOK, FST, Ready, LifecycleTypes
<1>18. ASSUME CheckReady
      PROVE  HandOffInv' /\ LifeInv' /\ OwnWorkInv'
  BY <1>a, <1>18 DEF CheckReady, AfterHandler, HandOffInv, LockInv, LifeInv, OwnWorkInv, TypeOK, Ready, LifecycleTypes
<1>19. ASSUME LockFst
      PROVE  HandOffInv' /\ LifeInv' /\ OwnWorkInv'
  BY <1>a, <1>19 DEF LockFst, HandOffInv, LockInv, LifeInv, OwnWorkInv, TypeOK, FST, Ready, LifecycleTypes
<1>20. ASSUME RunHandler
      PROVE  HandOffInv' /\ LifeInv' /\ OwnWorkInv'
  <2>1. fst \in FST /\ fst' \in FST /\ call[cur] \in Call
    BY <1>a, <1>b, <1>20 DEF TypeOK
  <2>2. /\ call[cur].type \notin LifecycleTypes =>
              (fst'.initialized <=> fst.initialized) /\ (fst'.opened <=> fst.opened)
        /\ call[cur].type = "INIT" => fst'.initialized /\ (fst'.opened <=> fst.opened)
        /\ call[cur].type = "OPEN" => (fst'.initialized <=> fst.initialized) /\ fst'.opened
        /\ call[cur].type = "CLOSE" => (fst'.initialized <=> fst.initialized) /\ ~fst'.opened
    BY <1>20, <2>1, EffectsFacts DEF RunHandler
  <2>3. cur # Event => cur \in Callers /\ pc[cur] = "wait" /\ ~served[cur]
    BY <1>a, <1>20 DEF RunHandler, TypeOK, HandOffInv
  <2>4. call[cur].type \in LifecycleTypes => cur = Main
    BY <1>a, <1>20, <2>3 DEF RunHandler, TypeOK, LifeInv, OwnWorkInv
  <2>5. /\ stage' = stage /\ call' = call
        /\ \A c \in Callers : pc'[c] = pc[c]
        /\ \A t \in Threads : served'[t] = IF t = cur THEN TRUE ELSE served[t]
    BY <1>a, <1>20 DEF RunHandler, TypeOK
  <2>6. HandOffInv'
    BY <1>a, <1>20 DEF RunHandler, AfterHandler, TypeOK, LockInv, HandOffInv
  <2>7. LifeInv'
    <3>1. CASE cur # Main
      BY <1>a, <2>2, <2>4, <2>5, <3>1 DEF LifeInv
    <3>2. CASE cur = Main
      <4>1. pc[Main] = "wait" /\ ~served[Main] /\ served'[Main]
        BY <2>3, <2>5, <3>2
      <4>2. CASE stage = "linked" /\ call[Main].type = "INIT"
        BY <1>a, <2>2, <2>5, <3>2, <4>1, <4>2 DEF LifeInv
      <4>3. CASE stage = "inited" /\ call[Main].type = "OPEN"
        BY <1>a, <2>2, <2>5, <3>2, <4>1, <4>3 DEF LifeInv
      <4>4. CASE stage = "open" /\ call[Main] \in UserCalls
        BY <1>a, <2>2, <2>5, <3>2, <4>1, <4>4 DEF LifeInv
      <4>5. CASE stage = "closing" /\ call[Main].type = "CLOSE"
        BY <1>a, <2>2, <2>5, <3>2, <4>1, <4>5 DEF LifeInv
      <4> QED
        BY <1>a, <4>1, <4>2, <4>3, <4>4, <4>5 DEF LifeInv
    <3> QED
      BY <3>1, <3>2
  <2>8. OwnWorkInv'
    <3>1. pc'[Event] = AfterHandler
      BY <1>a, <1>20 DEF RunHandler, TypeOK
    <3>2. cur = Event => fst'.opened
      <4>1. cur = Event => call[cur].type \notin LifecycleTypes
        BY <2>4
      <4> QED
        BY <1>a, <1>20, <2>2, <4>1 DEF RunHandler, OwnWorkInv
    <3> QED
      BY <3>1, <3>2 DEF AfterHandler, OwnWorkInv
  <2> QED
    BY <2>6, <2>7, <2>8
<1>21. ASSUME ClearCall
      PROVE  HandOffInv' /\ LifeInv' /\ OwnWorkInv'
  BY <1>a, <1>21 DEF ClearCall, HandOffInv, LockInv, LifeInv, OwnWorkInv, TypeOK, FST, Ready, LifecycleTypes
<1>22. ASSUME Signal
      PROVE  HandOffInv' /\ LifeInv' /\ OwnWorkInv'
  BY <1>a, <1>22 DEF Signal, Waiters, HandOffInv, LockInv, LifeInv, OwnWorkInv, TypeOK, FST, Ready, LifecycleTypes
<1>23. ASSUME NEW k \in OwnCalls, OwnCall(k)
      PROVE  HandOffInv' /\ LifeInv' /\ OwnWorkInv'
  BY <1>a, <1>23 DEF OwnCall, HandOffInv, LockInv, LifeInv, OwnWorkInv, TypeOK, FST, Ready, LifecycleTypes
<1>25. ASSUME WindowClosed
      PROVE  HandOffInv' /\ LifeInv' /\ OwnWorkInv'
  BY <1>a, <1>25 DEF WindowClosed, HandOffInv, LockInv, LifeInv, OwnWorkInv, TypeOK, EditorGone, FST, Ready, LifecycleTypes
<1>26. CASE UNCHANGED vars
  BY <1>a, <1>26 DEF vars, HandOffInv, LifeInv, OwnWorkInv
<1> QED
  BY <1>c, <1>1, <1>2, <1>3, <1>4, <1>5, <1>6, <1>7, <1>8, <1>9, <1>10, <1>11, <1>13, <1>14, <1>15, <1>16, <1>17, <1>18, <1>19, <1>20, <1>21, <1>22, <1>23, <1>25, <1>26
  DEF Next, Lifecycle, CallerStep, EventStep

(* The whole inductive invariant.                                          *)
THEOREM Invariant == Spec => []IInv
<1>1. Init => IInv
  BY InitIInv
<1>2. IInv /\ [Next]_vars => IInv'
  BY StepIInv
<1> QED
  BY <1>1, <1>2, PTL DEF Spec

(* A caller whose wait is over has been served.                            *)
THEOREM Answered == Spec => []AnsweredBeforeReturn
<1>1. IInv => AnsweredBeforeReturn
  BY DEF IInv, HandOffInv, AnsweredBeforeReturn
<1> QED
  BY <1>1, Invariant, PTL

(* The event thread never follows a pointer to a dead stack frame.         *)
THEOREM RecordAlive == Spec => []CallRecordAlive
<1>1. IInv => CallRecordAlive
  BY DEF IInv, TypeOK, HandOffInv, CallRecordAlive, Handling, Threads
<1> QED
  BY <1>1, Invariant, PTL

(* No call is executed twice.                                              *)
THEOREM Once == Spec => []HandledOnce
<1>1. IInv => HandledOnce
  BY DEF IInv, TypeOK, HandOffInv, HandledOnce, Handling, Threads
<1> QED
  BY <1>1, Invariant, PTL

(* No call is lost: the pointer is cleared only when its call was executed. *)
THEOREM NoneDropped == Spec => NoCallDropped
<1>1. IInv /\ [Next]_vars =>
        [ecCall # None /\ ecCall' = None => served[ecCall]]_vars
  <2> SUFFICES ASSUME IInv, Next, ecCall # None, ecCall' = None
               PROVE  served[ecCall]
    BY DEF vars
  <2>1. ClearCall
    BY CallersAssumption DEF Next, Lifecycle, CallerStep, EventStep, ThreadAdd,
      SetIdleCallback, ClearIdleCallback, JackClose, ThreadRemove, StartCall,
      GetProgram, LockEventCall, PostCall, CondWait, ReturnFromCall,
      BeginPass, IdleDone, OwnGetProgram, RefreshProgram,
      TestCall, CheckReady, LockFst, RunHandler, Signal, OwnCall,
      WindowClosed
  <2> QED
    BY <2>1 DEF ClearCall, IInv, HandOffInv
<1> QED
  BY <1>1, Invariant, PTL DEF Spec, NoCallDropped

(***************************************************************************)
(* The safety half of the refinement.  A caller that asks for the current  *)
(* program first is about to change the program.                           *)
(***************************************************************************)
Asking == \A c \in Callers : pc[c] = "get" => call[c].type = "PROGRAM_CHANGE"

LEMMA AskingInvariant == Spec => []Asking
<1>1. Init => Asking
  BY DEF Init, Asking, Threads
<1>2. TypeOK /\ Asking /\ [Next]_vars => Asking'
  <2> SUFFICES ASSUME TypeOK, Asking, [Next]_vars, NEW c \in Callers, pc'[c] = "get"
               PROVE  call'[c].type = "PROGRAM_CHANGE"
    BY DEF Asking
  <2> USE DEF TypeOK, Threads, GoTo
  <2>1. ASSUME NEW d \in Callers, NEW k \in Call, StartCall(d, k)
        PROVE  call'[c].type = "PROGRAM_CHANGE"
    <3>1. CASE d = c
      BY <2>1, <3>1 DEF StartCall, FirstLabel
    <3>2. CASE d # c
      BY <2>1, <3>2 DEF StartCall, Asking
    <3> QED
      BY <3>1, <3>2
  <2>2. ASSUME NEW d \in Callers, CallerStep(d)
        PROVE  pc[c] = "get" /\ call'[c] = call[c]
    BY <2>2 DEF CallerStep, GetProgram, LockEventCall, PostCall, CondWait, ReturnFromCall
  <2>3. ASSUME EventStep
        PROVE  pc[c] = "get" /\ call'[c] = call[c]
    BY <2>3 DEF EventStep, BeginPass, IdleDone, OwnGetProgram, RefreshProgram, TestCall,
      CheckReady, LockFst, RunHandler, ClearCall, Signal, Waiters, AfterHandler
  <2>4. ASSUME NEW k \in OwnCalls, OwnCall(k)
        PROVE  pc[c] = "get" /\ call'[c] = call[c]
    BY <2>4 DEF OwnCall
  <2>5. ASSUME Lifecycle \/ WindowClosed \/ UNCHANGED vars
        PROVE  pc[c] = "get" /\ call'[c] = call[c]
    BY <2>5 DEF Lifecycle, WindowClosed, vars, ThreadAdd, SetIdleCallback,
      ClearIdleCallback, JackClose, ThreadRemove
  <2> QED
    BY <2>1, <2>2, <2>3, <2>4, <2>5 DEF Next, Asking
<1>3. IInv => TypeOK
  BY DEF IInv
<1> QED
  BY <1>1, <1>2, Invariant, <1>3, PTL DEF Spec

(* CallService brings its own instance of FstState: it is the same one.    *)
LEMMA SameData ==
  /\ Abstract!NewFST = NewFST
  /\ Abstract!NullCall = NullCall
  /\ Abstract!Call = Call
  /\ Abstract!LifecycleTypes = LifecycleTypes
  /\ \A f : Abstract!EditorGone(f) = EditorGone(f)
  /\ \A f, k : Abstract!Ready(f, k) <=> Ready(f, k)
  /\ \A f, k : Abstract!Effects(f, k) = Effects(f, k)
<1>1. /\ Abstract!NewFST = NewFST
      /\ Abstract!NullCall = NullCall
      /\ Abstract!LifecycleTypes = LifecycleTypes
      /\ \A f : Abstract!EditorGone(f) = EditorGone(f)
      /\ \A f : Abstract!Suspended(f) = Suspended(f)
  BY DEF NewFST, Abstract!NewFST, NullCall, Abstract!NullCall, LifecycleTypes,
    Abstract!LifecycleTypes, EditorGone, Abstract!EditorGone, Suspended, Abstract!Suspended
<1>2. Abstract!Call = Call
  BY DEF Call, Abstract!Call, Types, Abstract!Types
<1>3. \A f, k : Abstract!Ready(f, k) <=> Ready(f, k)
  BY DEF Ready, Abstract!Ready
<1>4. \A f, k : Abstract!Effects(f, k) = Effects(f, k)
  BY <1>1 DEF Effects, Abstract!Effects
<1> QED
  BY <1>1, <1>2, <1>3, <1>4

(* Steps that touch neither the FST nor what a caller asks for stutter.    *)
LEMMA Stutters ==
  ASSUME fst' = fst,
         \A c \in Callers : Status(c)' = Status(c) /\ call'[c] = call[c]
  PROVE  UNCHANGED Abstract!svars
BY DEF Abstract!svars

(* Steps that change nothing but one caller's part of the service.         *)
LEMMA OnlyThis ==
  ASSUME NEW c \in Callers,
         \A d \in Callers \ {c} : Status(d)' = Status(d) /\ call'[d] = call[d]
  PROVE  /\ [d \in Callers |-> Status(d)]' =
              [[d \in Callers |-> Status(d)] EXCEPT ![c] = Status(c)']
         /\ [d \in Callers |-> call[d]]' =
              [[d \in Callers |-> call[d]] EXCEPT ![c] = call'[c]]
OBVIOUS

(***************************************************************************)
(* fst_event_call implements the service: for any number of callers and    *)
(* any calls, what is asked is executed once, in one piece, before its     *)
(* caller goes on, and nothing else touches the FST but the event thread's *)
(* own work between two calls.                                             *)
(***************************************************************************)
THEOREM Implements == Spec => ImplementsService
<1>1. Init => Abstract!SInit
  BY SameData DEF Init, Abstract!SInit, Status, Threads
<1>2. IInv /\ Asking /\ [Next]_vars => [Abstract!SNext]_Abstract!svars
  <2> SUFFICES ASSUME IInv, Asking, [Next]_vars
               PROVE  [Abstract!SNext]_Abstract!svars
    OBVIOUS
  <2>a. TypeOK /\ LockInv /\ HandOffInv /\ LifeInv /\ OwnWorkInv
    BY DEF IInv
  <2> USE DEF Threads, GoTo
  <2>1. ASSUME NEW c \in Callers, NEW k \in Call, StartCall(c, k)
        PROVE  Abstract!Request(c, k)
    <3>1. \A d \in Callers \ {c} : Status(d)' = Status(d) /\ call'[d] = call[d]
      BY <2>a, <2>1 DEF StartCall, TypeOK, Status
    <3>2. Status(c) = "idle" /\ Status(c)' = "pending" /\ call'[c] = k
      BY <2>a, <2>1 DEF StartCall, FirstLabel, TypeOK, Status
    <3> QED
      BY <2>1, <3>1, <3>2, OnlyThis, SameData DEF Abstract!Request, StartCall
  <2>2. ASSUME NEW c \in Callers, GetProgram(c)
        PROVE  Abstract!Skip(c) \/ UNCHANGED Abstract!svars
    <3>1. \A d \in Callers \ {c} : Status(d)' = Status(d) /\ call'[d] = call[d]
      BY <2>a, <2>2 DEF GetProgram, TypeOK, Status
    <3>2. Status(c) = "pending" /\ call[c].type = "PROGRAM_CHANGE"
      BY <2>a, <2>2 DEF GetProgram, TypeOK, HandOffInv, Status, Asking
    <3>3. CASE fst.program = call[c].arg
      <4>1. Status(c)' = "idle" /\ call'[c] = NullCall
        BY <2>a, <2>2, <3>3 DEF GetProgram, TypeOK, Status
      <4> QED
        BY <2>2, <3>1, <3>2, <3>3, <4>1, OnlyThis, SameData DEF Abstract!Skip, GetProgram
    <3>4. CASE fst.program # call[c].arg
      <4>1. Status(c)' = Status(c) /\ call'[c] = call[c]
        BY <2>a, <2>2, <3>4 DEF GetProgram, TypeOK, Status
      <4> QED
        BY <2>2, <3>1, <4>1, Stutters DEF GetProgram
    <3> QED
      BY <3>3, <3>4
  <2>3. ASSUME NEW c \in Callers, LockEventCall(c) \/ PostCall(c) \/ CondWait(c)
        PROVE  UNCHANGED Abstract!svars
    <3>1. \A d \in Callers : Status(d)' = Status(d) /\ call'[d] = call[d]
      BY <2>a, <2>3 DEF LockEventCall, PostCall, CondWait, TypeOK, Status
    <3> QED
      BY <2>3, <3>1, Stutters DEF LockEventCall, PostCall, CondWait
  <2>4. ASSUME NEW c \in Callers, ReturnFromCall(c)
        PROVE  Abstract!Return(c)
    <3>1. \A d \in Callers \ {c} : Status(d)' = Status(d) /\ call'[d] = call[d]
      BY <2>a, <2>4 DEF ReturnFromCall, TypeOK, Status
    <3>2. Status(c) = "done" /\ Status(c)' = "idle" /\ call'[c] = NullCall
      BY <2>a, <2>4 DEF ReturnFromCall, TypeOK, HandOffInv, Status
    <3> QED
      BY <2>4, <3>1, <3>2, OnlyThis, SameData DEF Abstract!Return, ReturnFromCall
  <2>5. CASE RunHandler
    <3>1. fst \in FST /\ call[cur] \in Call /\ Ready(fst, call[cur])
      BY <2>a, <2>5 DEF RunHandler, TypeOK, OwnWorkInv
    <3>2. fst' \in Effects(fst, call[cur])
      BY <2>5 DEF RunHandler
    <3>3. CASE cur = Event
      <4>1. \A d \in Callers : Status(d)' = Status(d) /\ call'[d] = call[d]
        BY <2>a, <2>5, <3>3 DEF RunHandler, AfterHandler, TypeOK, Status
      <4>2. call[cur].type \notin LifecycleTypes
        BY <2>a, <2>5, <3>3, CallsAssumption DEF RunHandler, OwnWorkInv, Handling
      <4> QED
        BY <3>1, <3>2, <4>1, <4>2, SameData DEF Abstract!SNext, Abstract!Own
    <3>4. CASE cur # Event
      <4>0. PICK c \in Callers : c = cur
        BY <2>a, <3>4 DEF TypeOK
      <4>1. \A d \in Callers \ {c} : Status(d)' = Status(d) /\ call'[d] = call[d]
        BY <2>a, <2>5, <4>0 DEF RunHandler, AfterHandler, TypeOK, Status
      <4>2. Status(c) = "pending" /\ Status(c)' = "done" /\ call'[c] = call[c]
        <5>1. pc[c] = "wait" /\ ecCall = c /\ ~served[c]
          BY <2>a, <2>5, <3>4, <4>0 DEF RunHandler, TypeOK, HandOffInv
        <5> QED
          BY <2>a, <2>5, <3>4, <4>0, <5>1 DEF RunHandler, TypeOK, Status
      <4>3. Abstract!Serve(c)
        BY <3>1, <3>2, <4>0, <4>1, <4>2, OnlyThis, SameData DEF Abstract!Serve
      <4> QED
        BY <4>3 DEF Abstract!SNext
    <3> QED
      BY <3>3, <3>4
  <2>6. CASE RefreshProgram
    <3>1. \A d \in Callers : Status(d)' = Status(d) /\ call'[d] = call[d]
      BY <2>a, <2>6 DEF RefreshProgram, TypeOK, Status
    <3>2. fst.opened /\ \E p \in Args : fst' = [fst EXCEPT !.program = p]
      BY <2>a, <2>6 DEF RefreshProgram, OwnWorkInv
    <3> QED
      BY <3>1, <3>2 DEF Abstract!SNext, Abstract!Own
  <2>7. CASE WindowClosed
    BY <2>7, SameData DEF WindowClosed, Abstract!SNext, Abstract!Own, Status
  <2>8. CASE ThreadRemove
    <3>1. ~fst.opened
      BY <2>a, <2>8 DEF ThreadRemove, LifeInv
    <3> QED
      BY <2>8, <3>1, SameData DEF ThreadRemove, Abstract!SNext, Abstract!Own, Status
  <2>9. ASSUME \/ ThreadAdd \/ SetIdleCallback \/ ClearIdleCallback \/ JackClose
               \/ UNCHANGED vars
        PROVE  UNCHANGED Abstract!svars
    BY <2>9 DEF ThreadAdd, SetIdleCallback, ClearIdleCallback, JackClose, vars,
      Abstract!svars, Status
  <2>10. ASSUME \/ BeginPass \/ IdleDone \/ OwnGetProgram \/ TestCall
                \/ CheckReady \/ LockFst \/ ClearCall
         PROVE  UNCHANGED Abstract!svars
    <3>1. \A d \in Callers : Status(d)' = Status(d) /\ call'[d] = call[d]
      BY <2>a, <2>10 DEF BeginPass, IdleDone, OwnGetProgram, TestCall, CheckReady,
        LockFst, ClearCall, TypeOK, Status
    <3> QED
      BY <2>10, <3>1, Stutters DEF BeginPass, IdleDone, OwnGetProgram, TestCall,
        CheckReady, LockFst, ClearCall
  <2>11. ASSUME Signal
         PROVE  UNCHANGED Abstract!svars
    <3>1. \A d \in Callers : Status(d)' = Status(d) /\ call'[d] = call[d]
      BY <2>a, <2>11 DEF Signal, Waiters, TypeOK, Status
    <3> QED
      BY <2>11, <3>1, Stutters DEF Signal
  <2>12. ASSUME NEW k \in OwnCalls, OwnCall(k)
         PROVE  UNCHANGED Abstract!svars
    <3>1. \A d \in Callers : Status(d)' = Status(d) /\ call'[d] = call[d]
      BY <2>a, <2>12 DEF OwnCall, TypeOK, Status
    <3> QED
      BY <2>12, <3>1, Stutters DEF OwnCall
  <2> QED
    BY <2>1, <2>2, <2>3, <2>4, <2>5, <2>6, <2>7, <2>8, <2>9, <2>10, <2>11, <2>12, SameData
    DEF Next, Lifecycle, CallerStep, EventStep, Abstract!SNext
<1> QED
  BY <1>1, <1>2, Invariant, AskingInvariant, PTL
  DEF Spec, ImplementsService, Abstract!Service

=============================================================================
