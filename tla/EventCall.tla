------------------------------ MODULE EventCall ------------------------------
(***************************************************************************)
(* The call hand-off of fst/vstwin.c for one plugin instance (FST).        *)
(*                                                                         *)
(* Every operation on the plugin is executed by the event thread that owns *)
(* the FST.  Another thread makes a call by leaving a pointer to an        *)
(* FSTCall on its own stack in fst->event_call.call and sleeping on the    *)
(* condition variable event_call.called; the event thread, which walks its *)
(* FSTs on a 30 ms timer or when it is hurried by a WM_USER message, finds *)
(* the pointer, runs the event handler, clears the pointer and signals.    *)
(* A call made by the event thread itself runs the handler directly.       *)
(*                                                                         *)
(* Three locks are involved: event_call.lock (one caller at a time),       *)
(* fst->lock (the FST and the condition variable) and thread->lock (held   *)
(* by the event thread for a whole pass over its FSTs).  The last is held  *)
(* exactly while pc[Event] # "msg"; the operations of the main thread that *)
(* take it have that as their guard.                                       *)
(***************************************************************************)
EXTENDS FstState

CONSTANTS
  Callers,        \* the threads other than the event thread: main, JACK's, the plugin's own
  Main,           \* the caller that opens and closes the plugin
  Event,          \* the event thread
  None,           \* a lock that is free, a NULL pointer
  UserCalls,      \* the calls made while the plugin is open
  OwnCalls        \* the calls the idle callback makes on the event thread

ASSUME CallersAssumption == 
  Main \in Callers /\ Event \notin Callers /\ None \notin Callers \cup {Event}
ASSUME CallsAssumption ==
  /\ UserCalls \subseteq {k \in Call : k.type \notin LifecycleTypes}
  /\ OwnCalls  \subseteq {k \in Call : k.type \notin LifecycleTypes}

Threads == Callers \cup {Event}

VARIABLES
  fst,      \* the plugin instance
  stage,    \* how far the main thread is in the plugin's life
  idleCb,   \* fst->idle_cb is set
  pc,       \* where each thread is
  call,     \* the FSTCall of each thread (the event thread's is a direct one)
  served,   \* history: the handler has executed the thread's current call
  ecLock,   \* owner of event_call.lock
  fstLock,  \* owner of fst->lock
  ecCall,   \* event_call.call: whose FSTCall it points to
  cur       \* whose call the event thread is handling

vars == <<fst, stage, idleCb, pc, call, served, ecLock, fstLock, ecCall, cur>>

Stages == {"new", "linked", "inited", "open", "leaving", "closing", "closed", "failed"}
CallerLabels == {"idle", "get", "ec", "fst", "post", "wait", "woken"}
EventLabels == {"msg", "idle", "get", "refresh", "test", "guard", "lock", "run",
                "nested", "clear", "signal"}

Init ==
  /\ fst = NewFST
  /\ stage = "new"
  /\ idleCb = FALSE
  /\ pc = [t \in Threads |-> IF t = Event THEN "msg" ELSE "idle"]
  /\ call = [t \in Threads |-> NullCall]
  /\ served = [t \in Threads |-> FALSE]
  /\ ecLock = None
  /\ fstLock = None
  /\ ecCall = None
  /\ cur = Event

GoTo(t, label) == pc' = [pc EXCEPT ![t] = label]

-----------------------------------------------------------------------------
(* The main thread: fst_open, jfst_init, jfst_close, fst_close.            *)

BetweenPasses == pc[Event] = "msg"   \* thread->lock is free

(* fst_open: fst_thread_add of a struct that fst_new has just filled.      *)
ThreadAdd ==
  /\ stage = "new"
  /\ BetweenPasses
  /\ stage' = "linked"
  /\ UNCHANGED <<fst, idleCb, pc, call, served, ecLock, fstLock, ecCall, cur>>

(* jfst_init hands jfst_idle to the event thread.                          *)
SetIdleCallback ==
  /\ stage = "open"
  /\ pc[Main] = "idle"
  /\ ~idleCb
  /\ BetweenPasses
  /\ idleCb' = TRUE
  /\ UNCHANGED <<fst, stage, pc, call, served, ecLock, fstLock, ecCall, cur>>

(* jfst_close takes it back ...                                            *)
ClearIdleCallback ==
  /\ stage = "open"
  /\ pc[Main] = "idle"
  /\ BetweenPasses
  /\ idleCb' = FALSE
  /\ stage' = "leaving"
  /\ UNCHANGED <<fst, pc, call, served, ecLock, fstLock, ecCall, cur>>

(* ... and deactivates the JACK client, which joins JACK's threads.        *)
JackClose ==
  /\ stage = "leaving"
  /\ \A c \in Callers : pc[c] = "idle"
  /\ stage' = "closing"
  /\ UNCHANGED <<fst, idleCb, pc, call, served, ecLock, fstLock, ecCall, cur>>

(* fst_close (after CLOSE) and fst_open (if INIT failed): the struct is    *)
(* unlinked and freed; the next plugin starts with a new one.              *)
ThreadRemove ==
  /\ stage \in {"closed", "failed"}
  /\ BetweenPasses
  /\ stage' = "new"
  /\ fst' = NewFST
  /\ UNCHANGED <<idleCb, pc, call, served, ecLock, fstLock, ecCall, cur>>

-----------------------------------------------------------------------------
(* A caller: fst_event_call from another thread than the event thread.     *)

MayCall(c, k) ==
  \/ c = Main /\ stage = "linked"  /\ k = [type |-> "INIT", arg |-> 0]
  \/ c = Main /\ stage = "inited"  /\ k = [type |-> "OPEN", arg |-> 0]
  \/ stage = "open" /\ k \in UserCalls
  \/ c # Main /\ stage = "leaving" /\ k \in UserCalls
  \/ c = Main /\ stage = "closing" /\ k = [type |-> "CLOSE", arg |-> 0]

(* fst_configure and fst_run_editor return at once when nothing is to be   *)
(* done; they look without a lock.                                         *)
Needed(k) ==
  /\ k.type = "CONFIGURE" => fst.conf # k.arg
  /\ k.type = "EDITOR_OPEN" => ~fst.window

FirstLabel(k) == IF k.type = "PROGRAM_CHANGE" THEN "get" ELSE "ec"

StartCall(c, k) ==
  /\ pc[c] = "idle"
  /\ MayCall(c, k)
  /\ Needed(k)
  /\ GoTo(c, FirstLabel(k))
  /\ call' = [call EXCEPT ![c] = k]
  /\ served' = [served EXCEPT ![c] = FALSE]
  /\ UNCHANGED <<fst, stage, idleCb, ecLock, fstLock, ecCall, cur>>

(* Mutant of GetProgram: skips the call when the program differs.          *)
GetProgramInverted(c) ==
  /\ pc[c] = "get"
  /\ fstLock = None
  /\ \/ /\ fst.program # call[c].arg
        /\ GoTo(c, "idle")
        /\ call' = [call EXCEPT ![c] = NullCall]
     \/ /\ fst.program = call[c].arg
        /\ GoTo(c, "ec")
        /\ UNCHANGED call
  /\ UNCHANGED <<fst, stage, idleCb, served, ecLock, fstLock, ecCall, cur>>

(* fst_set_program asks fst_get_program first, under fst->lock, and makes  *)
(* no call for the program that is already there.                          *)
GetProgram(c) ==
  /\ pc[c] = "get"
  /\ fstLock = None
  /\ \/ /\ fst.program = call[c].arg
        /\ GoTo(c, "idle")
        /\ call' = [call EXCEPT ![c] = NullCall]
     \/ /\ fst.program # call[c].arg
        /\ GoTo(c, "ec")
        /\ UNCHANGED call
  /\ UNCHANGED <<fst, stage, idleCb, served, ecLock, fstLock, ecCall, cur>>

LockEventCall(c) ==
  /\ pc[c] = "ec"
  /\ ecLock = None
  /\ ecLock' = c
  /\ GoTo(c, "fst")
  /\ UNCHANGED <<fst, stage, idleCb, call, served, fstLock, ecCall, cur>>

(* From here the event thread, which reads the pointer without a lock, can *)
(* see the call.                                                           *)
PostCall(c) ==
  /\ pc[c] = "fst"
  /\ fstLock = None
  /\ fstLock' = c
  /\ ecCall' = c
  /\ GoTo(c, "post")
  /\ UNCHANGED <<fst, stage, idleCb, call, served, ecLock, cur>>

CondWait(c) ==
  /\ pc[c] = "post"
  /\ fstLock' = None
  /\ GoTo(c, "wait")
  /\ UNCHANGED <<fst, stage, idleCb, call, served, ecLock, ecCall, cur>>

(* POSIX allows it, and the wait is not inside a loop that tests a predicate. *)
SpuriousWakeup(c) ==
  /\ pc[c] = "wait"
  /\ GoTo(c, "woken")
  /\ UNCHANGED <<fst, stage, idleCb, call, served, ecLock, fstLock, ecCall, cur>>

(* What the main thread does next when its call returns; fst_open tests    *)
(* the initialized flag.                                                   *)
NextStage(c) ==
  CASE call[c].type = "INIT"  -> IF fst.initialized THEN "inited" ELSE "failed"
    [] call[c].type = "OPEN"  -> "open"
    [] call[c].type = "CLOSE" -> "closed"
    [] OTHER -> stage

(* The wait returns with fst->lock, which is dropped at once, and so is    *)
(* event_call.lock.                                                        *)
ReturnFromCall(c) ==
  /\ pc[c] = "woken"
  /\ fstLock = None
  /\ ecLock' = None
  /\ stage' = NextStage(c)
  /\ GoTo(c, "idle")
  /\ call' = [call EXCEPT ![c] = NullCall]
  /\ UNCHANGED <<fst, idleCb, served, fstLock, ecCall, cur>>

-----------------------------------------------------------------------------
(* The event thread: fst_event_thread, fst_event_dispatcher and            *)
(* fst_event_handler.                                                      *)

Linked == stage # "new"

(* A timer tick or a WM_USER message: take thread->lock and visit the FST. *)
BeginPass ==
  /\ pc[Event] = "msg"
  /\ Linked
  /\ GoTo(Event, IF fst.opened THEN "idle" ELSE "test")
  /\ UNCHANGED <<fst, stage, idleCb, call, served, ecLock, fstLock, ecCall, cur>>

(* The idle callback makes a call of its own, on this thread: the handler  *)
(* is entered directly.  One call a pass stands for any number of them.    *)
OwnCall(k) ==
  /\ pc[Event] = "idle"
  /\ idleCb
  /\ k \in OwnCalls
  /\ GoTo(Event, IF k.type = "PROGRAM_CHANGE" THEN "get" ELSE "guard")
  /\ call' = [call EXCEPT ![Event] = k]
  /\ served' = [served EXCEPT ![Event] = FALSE]
  /\ cur' = Event
  /\ UNCHANGED <<fst, stage, idleCb, ecLock, fstLock, ecCall>>

OwnGetProgram ==
  /\ pc[Event] = "get"
  /\ fstLock = None
  /\ GoTo(Event, IF fst.program = call[Event].arg THEN "refresh" ELSE "guard")
  /\ UNCHANGED <<fst, stage, idleCb, call, served, ecLock, fstLock, ecCall, cur>>

IdleDone ==
  /\ pc[Event] = "idle"
  /\ GoTo(Event, "refresh")
  /\ UNCHANGED <<fst, stage, idleCb, call, served, ecLock, fstLock, ecCall, cur>>

(* fst_plugin_idle and fst_update_current_program, with no lock: the FST   *)
(* follows whatever program the plugin says it is at.                      *)
RefreshProgram ==
  /\ pc[Event] = "refresh"
  /\ \E p \in Args : fst' = [fst EXCEPT !.program = p]
  /\ GoTo(Event, "test")
  /\ call' = [call EXCEPT ![Event] = NullCall]
  /\ UNCHANGED <<stage, idleCb, served, ecLock, fstLock, ecCall, cur>>

(* Mutant of TestCall: the pointer is followed without the NULL test.      *)
TestCallUnchecked ==
  /\ pc[Event] = "test"
  /\ GoTo(Event, "guard")
  /\ cur' = ecCall
  /\ UNCHANGED <<fst, stage, idleCb, call, served, ecLock, fstLock, ecCall>>

(* The dispatcher's if ( ec->call != NULL ): the handler is entered with   *)
(* the pointer, or the pass is over and thread->lock is dropped.           *)
TestCall ==
  /\ pc[Event] = "test"
  /\ \/ /\ ecCall = None
        /\ GoTo(Event, "msg")
        /\ UNCHANGED cur
     \/ /\ ecCall # None
        /\ GoTo(Event, "guard")
        /\ cur' = ecCall
  /\ UNCHANGED <<fst, stage, idleCb, call, served, ecLock, fstLock, ecCall>>

(* Mutant of AfterHandler: the dispatcher looks at the FST again before it *)
(* has cleared the pointer.                                                *)
AfterHandlerTestAgain == IF cur = Event THEN "refresh" ELSE "test"

(* Where the event thread goes on when the handler returns.                *)
AfterHandler == IF cur = Event THEN "refresh" ELSE "clear"

(* The handler's early returns ("Not opened yet !", "Not initialized yet   *)
(* !") come before it takes fst->lock.                                     *)
CheckReady ==
  /\ pc[Event] = "guard"
  /\ GoTo(Event, IF Ready(fst, call[cur]) THEN "lock" ELSE AfterHandler)
  /\ UNCHANGED <<fst, stage, idleCb, call, served, ecLock, fstLock, ecCall, cur>>

LockFst ==
  /\ pc[Event] = "lock"
  /\ fstLock = None
  /\ fstLock' = Event
  /\ GoTo(Event, "run")
  /\ UNCHANGED <<fst, stage, idleCb, call, served, ecLock, ecCall, cur>>

(* The switch, up to the handler's fst_unlock.                             *)
RunHandler ==
  /\ pc[Event] = "run"
  /\ fst' \in Effects(fst, call[cur])
  /\ served' = [served EXCEPT ![cur] = TRUE]
  /\ fstLock' = None
  /\ GoTo(Event, AfterHandler)
  /\ UNCHANGED <<stage, idleCb, call, ecLock, ecCall, cur>>

(* Inside the switch the plugin calls audioMasterSizeWindow: amc_callback, *)
(* jfstamc_window_resize, fst_editor_resize, and on this thread the event  *)
(* handler again, whose fst_lock wants the mutex this thread is holding.   *)
(* fst->lock is a default mutex, not a recursive one: the next step would  *)
(* need fstLock = None, which only this thread can bring about.            *)
PluginAsksForResize ==
  /\ pc[Event] = "run"
  /\ EntersPluginGUI(fst, call[cur])
  /\ GoTo(Event, "nested")
  /\ UNCHANGED <<fst, stage, idleCb, call, served, ecLock, fstLock, ecCall, cur>>

(* Mutant of ClearCall: ec->call = NULL is forgotten.                      *)
ClearCallForgotten ==
  /\ pc[Event] = "clear"
  /\ GoTo(Event, "signal")
  /\ UNCHANGED <<fst, stage, idleCb, call, served, ecLock, fstLock, ecCall, cur>>

ClearCall ==
  /\ pc[Event] = "clear"
  /\ ecCall' = None
  /\ GoTo(Event, "signal")
  /\ UNCHANGED <<fst, stage, idleCb, call, served, ecLock, fstLock, cur>>

(* pthread_cond_signal wakes one waiter, if there is one, and the pass is  *)
(* over.                                                                   *)
Waiters == {c \in Callers : pc[c] = "wait"}

(* Mutant of Signal: the waiter is not woken.                              *)
SignalForgotten ==
  /\ pc[Event] = "signal"
  /\ GoTo(Event, "msg")
  /\ cur' = Event
  /\ UNCHANGED <<fst, stage, idleCb, call, served, ecLock, fstLock, ecCall>>

Signal ==
  /\ pc[Event] = "signal"
  /\ \/ \E c \in Waiters : pc' = [pc EXCEPT ![Event] = "msg", ![c] = "woken"]
     \/ Waiters = {} /\ GoTo(Event, "msg")
  /\ cur' = Event
  /\ UNCHANGED <<fst, stage, idleCb, call, served, ecLock, fstLock, ecCall>>

(* The user closes the editor window: DispatchMessage runs my_window_proc, *)
(* which takes no lock.                                                    *)
WindowClosed ==
  /\ pc[Event] = "msg"
  /\ fst.window
  /\ fst' = EditorGone(fst)
  /\ UNCHANGED <<stage, idleCb, pc, call, served, ecLock, fstLock, ecCall, cur>>

-----------------------------------------------------------------------------
Lifecycle ==
  ThreadAdd \/ SetIdleCallback \/ ClearIdleCallback \/ JackClose \/ ThreadRemove

CallerStep(c) ==
  \/ GetProgram(c) \/ LockEventCall(c) \/ PostCall(c) \/ CondWait(c)
  \/ ReturnFromCall(c)

EventStep ==
  \/ BeginPass \/ IdleDone \/ OwnGetProgram \/ RefreshProgram \/ TestCall
  \/ CheckReady \/ LockFst \/ RunHandler \/ ClearCall \/ Signal

Next ==
  \/ Lifecycle
  \/ \E c \in Callers :
       \/ \E k \in Call : StartCall(c, k)
       \/ CallerStep(c)
  \/ EventStep
  \/ \E k \in OwnCalls : OwnCall(k)
  \/ WindowClosed

Spec == Init /\ [][Next]_vars

(***************************************************************************)
(* Fairness.  A thread that can run runs, and a mutex that is released     *)
(* again and again is eventually given to each thread that waits for it:   *)
(* strong fairness of a thread's steps, which only a mutex disables.  The  *)
(* event thread's steps include the 30 ms timer that begins a pass.        *)
(* Nothing obliges a thread to make a call or the main thread to close.    *)
(***************************************************************************)
Fairness ==
  /\ SF_vars(EventStep)
  /\ \A c \in Callers : SF_vars(CallerStep(c))

FairSpec == Spec /\ Fairness

(***************************************************************************)
(* Two things the code does not exclude and does not survive: a wait that  *)
(* ends without a signal, and a plugin that asks for a new editor size     *)
(* while it is handling a call.                                            *)
(***************************************************************************)
SpuriousNext == Next \/ \E c \in Callers : SpuriousWakeup(c)
SpuriousSpec == Init /\ [][SpuriousNext]_vars

ResizeNext == Next \/ PluginAsksForResize
ResizeSpec == Init /\ [][ResizeNext]_vars /\ Fairness

AnyNext == SpuriousNext \/ ResizeNext
AnySpec == Init /\ [][AnyNext]_vars

-----------------------------------------------------------------------------
(* Properties.                                                             *)

TypeOK ==
  /\ fst \in FST
  /\ stage \in Stages
  /\ idleCb \in BOOLEAN
  /\ pc \in [Threads -> CallerLabels \cup EventLabels]
  /\ pc[Event] \in EventLabels
  /\ \A c \in Callers : pc[c] \in CallerLabels
  /\ call \in [Threads -> Call]
  /\ served \in [Threads -> BOOLEAN]
  /\ ecLock \in Callers \cup {None}
  /\ fstLock \in Threads \cup {None}
  /\ ecCall \in Callers \cup {None}
  /\ cur \in Threads

InCall(c) == pc[c] \in {"fst", "post", "wait", "woken"}
Handling == pc[Event] \in {"guard", "lock", "run", "nested"}

(* At most one caller is between taking event_call.lock and dropping it,   *)
(* so event_call.call and event_call.called serve one call at a time.      *)
OneCallAtATime ==
  \A c, d \in Callers : InCall(c) /\ InCall(d) => c = d

(* A caller whose wait ends gets back a call the handler has executed:     *)
(* fst_call_dispatcher may use retval, fst_set_program may rely on the     *)
(* program being set.                                                      *)
AnsweredBeforeReturn ==
  \A c \in Callers : pc[c] = "woken" => served[c]

(* The event thread never follows a pointer to the FSTCall of a caller     *)
(* that has gone on: the record is on the caller's stack.                  *)
CallRecordAlive ==
  /\ ecCall # None => pc[ecCall] \in {"post", "wait"}
  /\ Handling /\ cur # Event => pc[cur] \in {"post", "wait"}

(* The handler does not execute the same call twice.                       *)
HandledOnce ==
  Handling /\ cur # Event => ~served[cur]

(* ec->call = NULL never wipes out a call that was not executed.           *)
NoCallDropped ==
  [][ecCall # None /\ ecCall' = None => served[ecCall]]_vars

(* The plugin behind the FST exists whenever the event thread enters it:   *)
(* never before fst_init gave it one, never in a struct that was freed.    *)
PluginPresent ==
  /\ pc[Event] \in {"idle", "refresh"} => fst.opened /\ fst.plugin
  /\ Handling /\ pc[Event] # "guard" /\ call[cur].type # "INIT" => fst.plugin

(* Every call that is started returns.                                     *)
CallsReturn == \A c \in Callers : pc[c] # "idle" ~> pc[c] = "idle"

(***************************************************************************)
(* The inductive invariant of Spec behind the safety properties: who holds *)
(* which lock, which state of the caller goes with which state of the      *)
(* event thread, and which calls can be under way at which stage of the    *)
(* plugin's life.                                                          *)
(***************************************************************************)
LockInv ==
  /\ \A c \in Callers : ecLock = c <=> InCall(c)
  /\ \A c \in Callers : fstLock = c <=> pc[c] = "post"
  /\ fstLock = Event <=> pc[Event] \in {"run", "nested"}

HandOffInv ==
  /\ ecCall # None => pc[ecCall] \in {"post", "wait"}
  /\ \A c \in Callers :
       /\ pc[c] \in {"post", "wait"} =>
            ecCall = c \/ (pc[Event] = "signal" /\ cur = c)
       /\ pc[c] \in {"get", "ec", "fst", "post"} => ~served[c]
       /\ pc[c] = "wait" /\ ecCall = c /\ pc[Event] # "clear" => ~served[c]
       /\ pc[c] = "woken" => served[c]
  /\ cur # Event => pc[Event] \in {"guard", "lock", "run", "nested", "clear", "signal"}
  /\ cur # Event /\ pc[Event] # "signal" => ecCall = cur
  /\ cur # Event /\ pc[Event] \in {"run", "nested", "clear", "signal"} => pc[cur] = "wait"
  /\ pc[Event] \in {"clear", "signal"} => cur # Event /\ served[cur]
  /\ pc[Event] = "signal" => ecCall = None

LifeInv ==
  /\ fst.opened => fst.initialized
  /\ \A c \in Callers \ {Main} :
       pc[c] # "idle" => stage \in {"open", "leaving"} /\ call[c] \in UserCalls
  /\ pc[Main] # "idle" =>
       \/ stage = "linked"  /\ call[Main].type = "INIT"
       \/ stage = "inited"  /\ call[Main].type = "OPEN"
       \/ stage = "open"    /\ call[Main] \in UserCalls
       \/ stage = "closing" /\ call[Main].type = "CLOSE"
  /\ stage = "new"     => ~fst.initialized
  /\ stage = "linked"  => (fst.initialized <=> pc[Main] # "idle" /\ served[Main])
  /\ stage \in {"new", "linked", "closed", "failed"} => ~fst.opened
  /\ stage = "inited"  => /\ fst.initialized
                          /\ (fst.opened <=> pc[Main] # "idle" /\ served[Main])
  /\ stage \in {"open", "leaving"} => fst.opened
  /\ stage = "closing" => (fst.opened <=> ~(pc[Main] # "idle" /\ served[Main]))

OwnWorkInv ==
  /\ pc[Event] \in {"idle", "get", "refresh"} => fst.opened
  /\ Handling /\ cur = Event => fst.opened /\ call[Event] \in OwnCalls
  /\ pc[Event] = "get" => call[Event] \in OwnCalls
  /\ pc[Event] \in {"lock", "run", "nested"} => Ready(fst, call[cur])

IInv == TypeOK /\ LockInv /\ HandOffInv /\ LifeInv /\ OwnWorkInv

(* The hand-off implements the service the callers are promised.           *)
Status(c) ==
  IF pc[c] = "idle" THEN "idle" ELSE IF served[c] THEN "done" ELSE "pending"

Abstract == INSTANCE CallService WITH
  status <- [c \in Callers |-> Status(c)],
  call <- [c \in Callers |-> call[c]]

ImplementsService == Abstract!Service
ImplementsLiveService == Abstract!LiveService
=============================================================================
