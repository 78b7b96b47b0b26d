------------------------------- MODULE Bypass -------------------------------
(***************************************************************************)
(* Bypassing one plugin: jfst_bypass (jfst/jfst.c) against the JACK        *)
(* process thread (jfst_process, jfst/process.c) and the event thread's    *)
(* handler (fst/vstwin.c).                                                 *)
(*                                                                         *)
(* jfst->bypassed is a plain bool that jfst_bypass reads and writes with   *)
(* no lock, from the event thread (MIDI CC and SysEx, through jfst_idle)   *)
(* and from the main thread (GTK button, TCP commands); the process thread *)
(* reads it several times a cycle.  The plugin itself is switched on and   *)
(* off by RESUME and SUSPEND calls, which only the event thread executes,  *)
(* one at a time (EventCall shows that), under fst->process_lock; the      *)
(* process thread tries that lock at the top of a cycle and gives the      *)
(* cycle up if it is taken.                                                *)
(***************************************************************************)
EXTENDS Naturals

CONSTANTS
  Users,   \* the threads on which somebody asks for bypass or resume
  Mirror   \* is there a GTK window, whose button follows jfst->bypassed?

Threads == {"main", "event"}

ASSUME UsersAssumption == Users \subseteq Threads
ASSUME MirrorAssumption == Mirror \in BOOLEAN

VARIABLES
  stage,     \* how far the main thread is between jfst_init and jfst_close
  bypassed,  \* jfst->bypassed
  running,   \* the plugin's mains are on (effMainsChanged)
  procLock,  \* owner of fst->process_lock
  pc,        \* where each thread is in jfst_bypass, or in a call
  req,       \* the argument of each thread's jfst_bypass
  serving,   \* the thread whose call the event thread's handler executes
  button,    \* the GTK bypass button
  shown,     \* changes_last.bypassed of the GTK window
  rt,        \* where the process thread is in its cycle
  rtMidi,    \* the cycle has MIDI events for the plugin
  rtBuf,     \* what the cycle's output buffers hold
  wanted     \* history: what was last asked for

vars == <<stage, bypassed, running, procLock, pc, req, serving, button, shown,
          rt, rtMidi, rtBuf, wanted>>
jfst == <<stage, bypassed, button, shown, wanted>>
audio == <<rt, rtMidi, rtBuf>>

Stages == {"new", "starting", "ready", "active", "running", "leaving", "closing", "closed"}
CallLabels == {"suspend", "resume", "program", "start", "close"}
Labels == {"idle", "read", "mark", "unmark", "latch", "mirror"} \cup CallLabels
RtLabels == {"off", "midi", "param", "events", "buffers", "gate", "process", "out"}

Init ==
  /\ stage = "new"
  /\ bypassed \in BOOLEAN
  /\ running = FALSE
  /\ procLock = "free"
  /\ pc = [t \in Threads |-> "idle"]
  /\ req = [t \in Threads |-> FALSE]
  /\ serving = "none"
  /\ button = bypassed
  /\ shown = bypassed
  /\ rt = "off"
  /\ rtMidi = FALSE
  /\ rtBuf = "none"
  /\ wanted = bypassed

GoTo(t, label) == pc' = [pc EXCEPT ![t] = label]

-----------------------------------------------------------------------------
(* The main thread: jfst_init and jfst_close.                              *)

BetweenPasses == serving = "none" /\ pc["event"] = "idle"   \* thread->lock is free

(* Mutant of InitActivate: JACK runs before the plugin is resumed.         *)
InitActivateFirst ==
  /\ stage \in {"new", "ready"}
  /\ stage' = "active"
  /\ UNCHANGED <<bypassed, running, procLock, pc, req, serving, button, shown,
                 audio, wanted>>

(* jfst_init: RESUME, unless the plugin is to start bypassed ...           *)
InitResume ==
  /\ stage = "new"
  /\ ~bypassed
  /\ stage' = "starting"
  /\ GoTo("main", "start")
  /\ UNCHANGED <<bypassed, running, procLock, req, serving, button, shown,
                 audio, wanted>>

(* ... then jack_activate ...                                              *)
InitActivate ==
  /\ \/ stage = "new" /\ bypassed
     \/ stage = "ready"
  /\ stage' = "active"
  /\ UNCHANGED <<bypassed, running, procLock, pc, req, serving, button, shown,
                 audio, wanted>>

(* ... then jfst_idle is handed to the event thread.                       *)
InitIdle ==
  /\ stage = "active"
  /\ BetweenPasses
  /\ stage' = "running"
  /\ UNCHANGED <<bypassed, running, procLock, pc, req, serving, button, shown,
                 audio, wanted>>

(* jfst_close takes jfst_idle back, stops JACK and closes the plugin.      *)
CloseIdle ==
  /\ stage = "running"
  /\ pc["main"] = "idle"
  /\ BetweenPasses
  /\ stage' = "leaving"
  /\ UNCHANGED <<bypassed, running, procLock, pc, req, serving, button, shown,
                 audio, wanted>>

(* jack_deactivate waits for the cycle that is under way.                  *)
CloseJack ==
  /\ stage = "leaving"
  /\ rt = "off"
  /\ stage' = "closing"
  /\ GoTo("main", "close")
  /\ UNCHANGED <<bypassed, running, procLock, req, serving, button, shown,
                 audio, wanted>>

(* The next plugin the host loads.                                         *)
NextPlugin ==
  /\ stage = "closed"
  /\ stage' = "new"
  /\ bypassed' \in BOOLEAN
  /\ button' = bypassed' /\ shown' = bypassed' /\ wanted' = bypassed'
  /\ UNCHANGED <<running, procLock, pc, req, serving, audio>>

Lifecycle ==
  InitResume \/ InitActivate \/ InitIdle \/ CloseIdle \/ CloseJack \/ NextPlugin

-----------------------------------------------------------------------------
(* jfst_bypass, on the main thread or on the event thread.                 *)

(* The thread is free to begin something: the event thread does not while  *)
(* it executes the call of another.                                        *)
Free(t) ==
  /\ stage = "running"
  /\ pc[t] = "idle"
  /\ t = "event" => serving = "none"

Ask(t, v) ==
  /\ Free(t)
  /\ t \in Users
  /\ GoTo(t, "read")
  /\ req' = [req EXCEPT ![t] = v]
  /\ wanted' = v
  /\ \/ UNCHANGED button                            \* MIDI, SysEx, TCP
     \/ Mirror /\ t = "main" /\ button # v /\ button' = v   \* a click
  /\ UNCHANGED <<stage, bypassed, running, procLock, serving, shown, audio>>

(* The two conditions of jfst_bypass.                                      *)
ReadFlag(t) ==
  /\ pc[t] = "read"
  /\ GoTo(t, IF req[t] = bypassed THEN "idle" ELSE IF req[t] THEN "mark" ELSE "resume")
  /\ UNCHANGED <<jfst, running, procLock, req, serving, audio>>

(* Mutant of Mark: the SUSPEND call is forgotten.                          *)
MarkOnly(t) ==
  /\ pc[t] = "mark"
  /\ bypassed' = TRUE
  /\ GoTo(t, "idle")
  /\ UNCHANGED <<stage, running, procLock, req, serving, button, shown, audio, wanted>>

(* bypassed = true comes before SUSPEND ...                                *)
Mark(t) ==
  /\ pc[t] = "mark"
  /\ bypassed' = TRUE
  /\ GoTo(t, "suspend")
  /\ UNCHANGED <<stage, running, procLock, req, serving, button, shown, audio, wanted>>

(* ... and bypassed = false comes after RESUME.                            *)
Unmark(t) ==
  /\ pc[t] = "unmark"
  /\ bypassed' = FALSE
  /\ GoTo(t, "idle")
  /\ UNCHANGED <<stage, running, procLock, req, serving, button, shown, audio, wanted>>

(* Anyone may also change the program.                                     *)
SetProgram(t) ==
  /\ Free(t)
  /\ GoTo(t, "program")
  /\ UNCHANGED <<jfst, running, procLock, req, serving, audio>>

-----------------------------------------------------------------------------
(* The event thread executes a call: its own at once, the main thread's    *)
(* when it has nothing of its own under way.                               *)

Take(t) ==
  /\ serving = "none"
  /\ pc[t] \in CallLabels
  /\ t = "event" \/ pc["event"] = "idle"
  /\ serving' = t
  /\ UNCHANGED <<jfst, running, procLock, pc, req, audio>>

(* Mutant of LockProcess: process_lock is not waited for.                  *)
LockProcessUnchecked ==
  /\ serving # "none"
  /\ procLock # "event"
  /\ procLock' = "event"
  /\ UNCHANGED <<jfst, running, pc, req, serving, audio>>

(* fst_suspend, RESUME and PROGRAM_CHANGE wait for process_lock.           *)
LockProcess ==
  /\ serving # "none"
  /\ procLock = "free"
  /\ procLock' = "event"
  /\ UNCHANGED <<jfst, running, pc, req, serving, audio>>

MainsAfter(label) ==
  CASE label \in {"resume", "start"} -> TRUE
    [] label \in {"suspend", "close"} -> FALSE
    [] OTHER -> running

(* Mutant of After: jfst_bypass forgets bypassed = false.                  *)
AfterNoUnmark(label) == "idle"

(* Where the caller goes on.                                               *)
After(label) == IF label = "resume" THEN "unmark" ELSE "idle"

StageAfter(label) ==
  CASE label = "start" -> "ready" [] label = "close" -> "closed" [] OTHER -> stage

Execute ==
  /\ procLock = "event"
  /\ running' = MainsAfter(pc[serving])
  /\ procLock' = "free"
  /\ GoTo(serving, After(pc[serving]))
  /\ stage' = StageAfter(pc[serving])
  /\ serving' = "none"
  /\ UNCHANGED <<bypassed, req, button, shown, audio, wanted>>

-----------------------------------------------------------------------------
(* The GTK window's idle_cb: jfst_detect_changes compares and then copies, *)
(* reading jfst->bypassed each time; set_active reads it once more and, if *)
(* the button changes, emits "toggled", whose handler is bypass_handler.   *)

SeeChange ==
  /\ Mirror
  /\ Free("main")
  /\ shown # bypassed
  /\ GoTo("main", "latch")
  /\ UNCHANGED <<jfst, running, procLock, req, serving, audio>>

Latch ==
  /\ pc["main"] = "latch"
  /\ shown' = bypassed
  /\ GoTo("main", "mirror")
  /\ UNCHANGED <<stage, bypassed, running, procLock, req, serving, button, audio, wanted>>

SetActive ==
  /\ pc["main"] = "mirror"
  /\ \/ /\ button = bypassed
        /\ GoTo("main", "idle")
        /\ UNCHANGED <<button, req>>
     \/ /\ button # bypassed
        /\ button' = bypassed
        /\ req' = [req EXCEPT !["main"] = bypassed]
        /\ GoTo("main", "read")
  /\ UNCHANGED <<stage, bypassed, running, procLock, serving, shown, audio, wanted>>

-----------------------------------------------------------------------------
(* The process thread: jfst_process.                                       *)

NotAudio == <<jfst, running, pc, req, serving>>

(* A cycle in which fst_process_trylock succeeds; the others do nothing.   *)
BeginCycle ==
  /\ stage \in {"active", "running", "leaving"}
  /\ rt = "off"
  /\ procLock = "free"
  /\ procLock' = "rt"
  /\ rt' = "midi" /\ rtMidi' = FALSE /\ rtBuf' = "none"
  /\ UNCHANGED NotAudio

(* A MIDI message for the plugin ...                                       *)
MidiEvent ==
  /\ rt = "midi"
  /\ ~bypassed
  /\ rtMidi' = TRUE
  /\ UNCHANGED <<NotAudio, procLock, rt, rtBuf>>

(* ... and a control change that is mapped to one of its parameters.       *)
MidiParam ==
  /\ rt = "midi"
  /\ ~bypassed
  /\ rt' = "param"
  /\ UNCHANGED <<NotAudio, procLock, rtMidi, rtBuf>>

SetParam ==
  /\ rt = "param"
  /\ rt' = "midi"
  /\ UNCHANGED <<NotAudio, procLock, rtMidi, rtBuf>>

MidiDone ==
  /\ rt = "midi"
  /\ rt' = IF rtMidi THEN "events" ELSE "buffers"
  /\ UNCHANGED <<NotAudio, procLock, rtMidi, rtBuf>>

ProcessEvents ==
  /\ rt = "events"
  /\ rt' = "buffers"
  /\ UNCHANGED <<NotAudio, procLock, rtMidi, rtBuf>>

Buffers ==
  /\ rt = "buffers"
  /\ rt' = "gate"
  /\ rtBuf' = IF bypassed THEN "copy" ELSE "zero"
  /\ UNCHANGED <<NotAudio, procLock, rtMidi>>

Gate ==
  /\ rt = "gate"
  /\ rt' = IF bypassed THEN "out" ELSE "process"
  /\ UNCHANGED <<NotAudio, procLock, rtMidi, rtBuf>>

Process ==
  /\ rt = "process"
  /\ rt' = "out"
  /\ rtBuf' = "plugin"
  /\ UNCHANGED <<NotAudio, procLock, rtMidi>>

(* Mutant of EndCycle: a return instead of goto midi_out when bypassed.    *)
EndCycleLocked ==
  /\ rt = "out"
  /\ rt' = "off"
  /\ procLock' = IF rtBuf = "plugin" THEN "free" ELSE procLock
  /\ UNCHANGED <<NotAudio, rtMidi, rtBuf>>

EndCycle ==
  /\ rt = "out"
  /\ rt' = "off"
  /\ procLock' = "free"
  /\ UNCHANGED <<NotAudio, rtMidi, rtBuf>>

RtStep ==
  \/ BeginCycle \/ MidiEvent \/ MidiParam \/ SetParam \/ MidiDone
  \/ ProcessEvents \/ Buffers \/ Gate \/ Process \/ EndCycle

-----------------------------------------------------------------------------
BypassStep(t) == ReadFlag(t) \/ Mark(t) \/ Unmark(t)
HandlerStep == (\E t \in Threads : Take(t)) \/ Execute
MirrorStep == SeeChange \/ Latch \/ SetActive

Next ==
  \/ Lifecycle
  \/ \E t \in Threads : \/ \E v \in BOOLEAN : Ask(t, v)
                        \/ SetProgram(t)
                        \/ BypassStep(t)
  \/ HandlerStep \/ LockProcess
  \/ MirrorStep
  \/ RtStep

Spec == Init /\ [][Next]_vars

(***************************************************************************)
(* Fairness: every thread that can go on does; a cycle has finitely many   *)
(* MIDI messages; and the event thread, which waits for a mutex that the   *)
(* process thread only ever tries, gets it eventually although a new cycle *)
(* begins over and over.                                                   *)
(***************************************************************************)
FairSpec ==
  /\ Spec
  /\ \A t \in Threads : WF_vars(BypassStep(t)) /\ SF_vars(Take(t))
  /\ WF_vars(Execute) /\ SF_vars(LockProcess)
  /\ WF_vars(Latch \/ SetActive)
  /\ WF_vars(SetParam) /\ SF_vars(MidiDone)
  /\ WF_vars(ProcessEvents \/ Buffers \/ Gate \/ Process \/ EndCycle)

-----------------------------------------------------------------------------
(* Properties.                                                             *)

TypeOK ==
  /\ stage \in Stages
  /\ bypassed \in BOOLEAN /\ running \in BOOLEAN
  /\ procLock \in {"free", "rt", "event"}
  /\ pc \in [Threads -> Labels]
  /\ req \in [Threads -> BOOLEAN]
  /\ serving \in Threads \cup {"none"}
  /\ button \in BOOLEAN /\ shown \in BOOLEAN /\ wanted \in BOOLEAN
  /\ rt \in RtLabels
  /\ rtMidi \in BOOLEAN
  /\ rtBuf \in {"none", "copy", "zero", "plugin"}

(* The process thread never plays, or sets a parameter of, a plugin whose  *)
(* mains are off: although it looks at jfst->bypassed first and uses the   *)
(* plugin later, with the flag changing in between.                        *)
TouchOnlyRunning == rt \in {"param", "events", "process"} => running

(* The process thread is not in a cycle while the event thread switches    *)
(* the plugin on or off or changes its program: "Skip processing if we are *)
(* during SetProgram, Suspend, Resume" (process.c).                        *)
Excluded == procLock = "event" => rt = "off"

(* Whenever no jfst_bypass is under way, flag and plugin agree.            *)
Quiet == stage = "running" /\ \A t \in Threads : pc[t] \in {"idle", "program"}
Settled == Quiet => (running <=> ~bypassed)

(* ... and they are what was last asked for.                               *)
LastRequestStands == Quiet => (bypassed <=> wanted)

(* A cycle that is bypassed passes its input on, one that is not plays the *)
(* plugin into cleared buffers.                                            *)
WholeCycle ==
  /\ rt = "process" => rtBuf = "zero"
  /\ rt = "out" => rtBuf \in {"copy", "plugin"}

(***************************************************************************)
(* The inductive invariant behind Settled, LastRequestStands and           *)
(* TouchOnlyRunning, when only thread u ever runs jfst_bypass: each point  *)
(* of jfst_bypass says where flag and plugin are, and the plugin is on     *)
(* whenever the process thread has found the flag off in this cycle.       *)
(***************************************************************************)
Controls(u) == u \in Threads /\ Users \subseteq {u} /\ (Mirror => u = "main")

LockInv ==
  /\ procLock = "rt" <=> rt # "off"
  /\ procLock = "event" => serving # "none"
  /\ serving # "none" => pc[serving] \in CallLabels
  /\ serving = "main" => pc["event"] = "idle"

StageInv ==
  /\ rt # "off" => stage \in {"active", "running", "leaving"}
  /\ pc["main"] = "start" <=> stage = "starting"
  /\ pc["main"] = "close" <=> stage = "closing"
  /\ pc["event"] \notin {"start", "close"}
  /\ stage # "running" => pc["event"] = "idle" /\ pc["main"] \in {"idle", "start", "close"}

FlagInv(u) ==
  /\ \A t \in Threads \ {u} : pc[t] \in {"idle", "program", "start", "close"}
  /\ pc[u] \in {"latch", "mirror"} => Mirror
  /\ stage \in {"new", "starting", "closed"} => ~running
  /\ stage \in {"starting", "ready"} => ~bypassed
  /\ stage = "ready" => running
  /\ stage \in {"active", "running", "leaving"} /\ pc[u] \notin {"suspend", "unmark"}
       => (running <=> ~bypassed)
  /\ pc[u] \in {"suspend", "unmark"} => running /\ bypassed
  /\ pc[u] = "mark" => ~bypassed
  /\ pc[u] = "resume" => bypassed

RequestInv(u) ==
  /\ pc[u] \in {"read", "mark", "suspend", "resume", "unmark"} => (req[u] <=> wanted)
  /\ pc[u] \in {"mark", "suspend"} => wanted
  /\ pc[u] \in {"resume", "unmark"} => ~wanted
  /\ pc[u] \notin {"read", "mark", "resume", "unmark"} => (bypassed <=> wanted)

CycleInv ==
  /\ rt \in {"param", "events", "process"} => running
  /\ rt = "midi" /\ rtMidi => running

IInv(u) == TypeOK /\ LockInv /\ StageInv /\ FlagInv(u) /\ RequestInv(u) /\ CycleInv

(* Every jfst_bypass returns, however busy the process thread is.          *)
BypassReturns == \A t \in Threads : pc[t] # "idle" ~> pc[t] = "idle"
=============================================================================
