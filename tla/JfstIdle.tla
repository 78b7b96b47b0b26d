------------------------------ MODULE JfstIdle ------------------------------
(***************************************************************************)
(* What JACK's threads leave for jfst_idle, and what it makes of it on the *)
(* event thread: bypass, program and port requests, through the queue of   *)
(* EventQueueRace, and MIDI learn, through the fields of MidiLearn, which  *)
(* four threads share without a lock.  Bypass has the inside of            *)
(* jfst_bypass, SysexIn the rest of jfst_idle.                             *)
(***************************************************************************)
EXTENDS EventQueueRace

CONSTANTS
  CCs, Params,  \* controllers to learn, parameters of the plugin
  Loads         \* bound: how much is sent and learned in a behaviour

ASSUME EventsAssumption ==
  /\ Event \cup {ZeroEvent} \subseteq [type : {"BYPASS", "PC", "GRAPH"}, value : Nat]
  /\ {[type |-> "BYPASS", value |-> 0], [type |-> "BYPASS", value |-> 1],
      [type |-> "GRAPH", value |-> 0]} \subseteq Event

ASSUME LoadsAssumption == Loads \subseteq [sends : Nat, learns : Nat, gtk : BOOLEAN]

VARIABLES
  load,
  ipc,        \* where jfst_idle is: its loop is "queue", or the editor runs
  bypassed, program, connected,
  asked,      \* history: the bypass and the program asked for last
  spoiled,    \* history: a race or an overflow may have lost an event
  wait, cc, param, map,  \* MidiLearn, with Nil for -1
  lpc,        \* where jfst_midi_learn is, on the main thread
  moving,     \* the CC the process thread is about to note
  held,       \* the cc and param that jfst_idle has tested
  button, shown,  \* the GTK button, and the wait that GTK saw last
  session,    \* history: the learning that goes on
  stray,      \* history: map[-1] was written
  hasty       \* history: learning was switched in the middle of its use

switches == <<bypassed, program, connected, asked>>
ml       == <<wait, cc, param, map>>
learning == <<ml, lpc, moving, held, button, shown, session, stray, hasty>>
vars     == <<queue, load, ipc, switches, spoiled, learning>>

NoSession == [k |-> 0, by |-> "nobody", moved |-> {}, touched |-> {}, paired |-> FALSE]

Init ==
  /\ QueueInit
  /\ load \in Loads
  /\ ipc = "queue"
  /\ bypassed = FALSE /\ program = 0 /\ connected = TRUE
  /\ asked = [bypass |-> FALSE, program |-> 0]
  /\ spoiled = FALSE
  /\ wait = FALSE /\ cc = Nil /\ param = Nil /\ map = [c \in CCs |-> Nil]
  /\ lpc = "idle" /\ moving = Nil /\ held = <<Nil, Nil>>
  /\ button = FALSE /\ shown = FALSE
  /\ session = NoSession /\ stray = FALSE /\ hasty = FALSE

-----------------------------------------------------------------------------
(* process_midi_in_msg, on the process thread                              *)

Free == pc["process"] = "idle" /\ moving = Nil

(* want_state_cc: up to 63 is bypass.                                      *)
StateCC(low) ==
  /\ Free /\ sends < load.sends
  /\ Begin("process", [type |-> "BYPASS", value |-> IF low THEN 1 ELSE 0])
  /\ asked' = [asked EXCEPT !.bypass = low]
  /\ UNCHANGED <<load, ipc, bypassed, program, connected, spoiled, learning>>

(* With MIDI_PC_SELF.                                                      *)
ProgramChange(v) ==
  /\ Free /\ sends < load.sends
  /\ Begin("process", [type |-> "PC", value |-> v])
  /\ asked' = [asked EXCEPT !.program = v]
  /\ UNCHANGED <<load, ipc, bypassed, program, connected, spoiled, learning>>

(* Any other CC but the volume's, while learning; else it goes to the      *)
(* parameter it is mapped to.                                              *)
MoveCC(c) ==
  /\ Free /\ ~bypassed /\ wait
  /\ moving' = c
  /\ session' = [session EXCEPT !.moved = @ \cup {c}]
  /\ UNCHANGED <<queue, load, ipc, switches, spoiled, ml, lpc, held, button, shown, stray,
                 hasty>>

NoteCC ==
  /\ moving # Nil
  /\ cc' = moving /\ moving' = Nil
  /\ UNCHANGED <<queue, load, ipc, switches, spoiled, wait, param, map, lpc, held, button,
                 shown, session, stray, hasty>>

(* New MIDI ports, and JACK's graph_order_callback for them.               *)
NewPorts ==
  /\ pc["notification"] = "idle" /\ sends < load.sends
  /\ Begin("notification", [type |-> "GRAPH", value |-> 0])
  /\ connected' = FALSE
  /\ UNCHANGED <<load, ipc, bypassed, program, asked, spoiled, learning>>

-----------------------------------------------------------------------------
(* event_queue_send goes on.  An event may be lost when the ring overflows, *)
(* when both threads are past the test for duplicates, or when one takes a  *)
(* slot for a duplicate that the other has announced and not yet filled.    *)

Inside(p) == pc[p] \in {"load", "store", "full", "bump", "write"}

Announced == \E p \in Producers : pc[p] \in {"full", "bump", "write"}

Skipped(p) == pc[p] = "compare" /\ pc'[p] = "idle"

Send(p) ==
  /\ SendStep(p)
  /\ spoiled' = \/ spoiled \/ pc'[p] = "bump" \/ \A q \in Producers : Inside(q)'
                \/ Skipped(p) /\ Announced
  /\ UNCHANGED <<load, ipc, switches, learning>>

-----------------------------------------------------------------------------
(* jfst_idle                                                               *)

GetEvent ==
  /\ ipc = "queue"
  /\ GetTest \/ LoadRear \/ StoreRear
  /\ UNCHANGED <<load, ipc, switches, spoiled, learning>>

(* The slot may be one that a send has announced and not yet filled.       *)
TakeEvent ==
  /\ ipc = "queue"
  /\ UseSlot
  /\ ipc' = "handle"
  /\ spoiled' = (spoiled \/ \E p \in Producers :
       pc[p] \in {"full", "bump", "write"} /\ reg[p] = creg)
  /\ UNCHANGED <<load, switches, learning>>

Handle ==
  /\ ipc = "handle" /\ ipc' = "queue"
  /\ bypassed' = IF got.type = "BYPASS" THEN got.value = 1 ELSE bypassed
  /\ program' = IF got.type = "PC" THEN got.value ELSE program
  /\ connected' = (connected \/ got.type = "GRAPH")
  /\ UNCHANGED <<queue, load, asked, spoiled, learning>>

(* MIDI learn, when the loop has found the queue empty.                    *)
LoopDone == ipc = "queue" /\ cpc = "test" /\ front = rear

TestLearn ==
  /\ LoopDone
  /\ wait /\ cc # Nil /\ param # Nil
  /\ held' = <<cc, param>>
  /\ ipc' = "pair"
  /\ hasty' = (hasty \/ lpc = "reset")
  /\ UNCHANGED <<queue, load, switches, spoiled, ml, lpc, moving, button, shown, session,
                 stray>>

(* ml->map[ml->cc] = ml->param, from registers or loaded again.            *)
Pair ==
  /\ ipc = "pair" /\ ipc' = "clear"
  /\ \E c \in {held[1], cc}, q \in {held[2], param} :
       IF c = Nil THEN stray' = TRUE /\ UNCHANGED map
                  ELSE map' = [map EXCEPT ![c] = q] /\ UNCHANGED stray
  /\ session' = [session EXCEPT !.paired = TRUE]
  /\ UNCHANGED <<queue, load, switches, spoiled, wait, cc, param, lpc, moving, held, button,
                 shown, hasty>>

ClearWait ==
  /\ ipc = "clear" /\ ipc' = "queue"
  /\ wait' = FALSE
  /\ UNCHANGED <<queue, load, switches, spoiled, cc, param, map, lpc, moving, held, button,
                 shown, session, stray, hasty>>

(* Between two calls of jfst_idle the user turns a knob of the editor, and *)
(* the plugin calls jfstamc_automate.                                      *)
TurnKnob(q) ==
  /\ ipc = "queue" /\ cpc = "test"
  /\ wait
  /\ held' = <<Nil, q>>
  /\ ipc' = "automate"
  /\ session' = [session EXCEPT !.touched = @ \cup {q}]
  /\ UNCHANGED <<queue, load, switches, spoiled, ml, lpc, moving, button, shown, stray, hasty>>

NoteKnob ==
  /\ ipc = "automate" /\ ipc' = "queue"
  /\ param' = held[2]
  /\ UNCHANGED <<queue, load, switches, spoiled, wait, cc, map, lpc, moving, held, button,
                 shown, session, stray, hasty>>

IdleStep == GetEvent \/ TakeEvent \/ Handle \/ TestLearn \/ Pair \/ ClearWait

-----------------------------------------------------------------------------
(* jfst_midi_learn, on the main thread                                     *)

Busy == ipc \in {"pair", "clear", "automate"} \/ moving # Nil

(* Mutant of Start: the last cc and param are left where they are.         *)
StartStale(by) ==
  /\ lpc = "idle" /\ session.k < load.learns
  /\ lpc' = "wait"
  /\ by = "button" => load.gtk /\ ~button
  /\ button' = (button \/ by = "button")
  /\ session' = [NoSession EXCEPT !.k = session.k + 1, !.by = by]
  /\ hasty' = (hasty \/ Busy)
  /\ UNCHANGED <<queue, load, ipc, switches, spoiled, wait, cc, param, map, moving, held,
                 shown, stray>>

(* midi_learn start of a client, or the button of the GTK window: param is *)
(* emptied first, then cc, then wait is set, and each is a store of its    *)
(* own.  wait may still be TRUE from the learning before.                  *)
Start(by) ==
  /\ lpc = "idle" /\ session.k < load.learns
  /\ lpc' = "reset"
  /\ by = "button" => load.gtk /\ ~button
  /\ button' = (button \/ by = "button")
  /\ param' = Nil
  /\ session' = [NoSession EXCEPT !.k = session.k + 1, !.by = by]
  /\ hasty' = (hasty \/ Busy)
  /\ UNCHANGED <<queue, load, ipc, switches, spoiled, wait, cc, map, moving, held, shown,
                 stray>>

(* What was noted in cc since Start is forgotten with the rest, so that    *)
(* the learning counts the moves from here.                                *)
ResetCC ==
  /\ lpc = "reset" /\ lpc' = "wait"
  /\ cc' = Nil
  /\ session' = [session EXCEPT !.moved = {}]
  /\ hasty' = (hasty \/ Busy)
  /\ UNCHANGED <<queue, load, ipc, switches, spoiled, wait, param, map, moving, held, button,
                 shown, stray>>

(* Mutant of SetWait: cc and param are reset after wait and not before.    *)
SetWaitResets ==
  /\ lpc = "wait" /\ lpc' = "idle"
  /\ wait' = TRUE /\ cc' = Nil /\ param' = Nil
  /\ hasty' = (hasty \/ Busy \/ session.paired)
  /\ UNCHANGED <<queue, load, ipc, switches, spoiled, map, moving, held, button, shown,
                 session, stray>>

SetWait ==
  /\ lpc = "wait" /\ lpc' = "idle"
  /\ wait' = TRUE
  /\ hasty' = (hasty \/ Busy \/ session.paired)
  /\ UNCHANGED <<queue, load, ipc, switches, spoiled, cc, param, map, moving, held, button,
                 shown, session, stray>>

StopLearning ==
  /\ wait' = FALSE
  /\ session' = [session EXCEPT !.by = "nobody"]
  /\ hasty' = (hasty \/ Busy)

Stop(by) ==
  /\ lpc = "idle" /\ session.by # "nobody"
  /\ by = "button" => button
  /\ button' = (button /\ by # "button")
  /\ StopLearning
  /\ UNCHANGED <<queue, load, ipc, switches, spoiled, cc, param, map, lpc, moving, held,
                 shown, stray>>

(* idle_cb of the GTK window, on CHANGE_MIDILE: the button comes up, and   *)
(* its handler stops the learning that pressing it has begun.              *)
Mirror ==
  /\ load.gtk /\ lpc = "idle" /\ shown # wait
  /\ shown' = wait
  /\ button' = FALSE
  /\ IF button THEN StopLearning ELSE UNCHANGED <<wait, session, hasty>>
  /\ UNCHANGED <<queue, load, ipc, switches, spoiled, cc, param, map, lpc, moving, held,
                 stray>>

-----------------------------------------------------------------------------
Next ==
  \/ \E low \in BOOLEAN : StateCC(low)
  \/ \E e \in Event : e.type = "PC" /\ ProgramChange(e.value)
  \/ \E c \in CCs : MoveCC(c)
  \/ NoteCC \/ NewPorts
  \/ \E p \in Producers : Send(p)
  \/ IdleStep \/ NoteKnob
  \/ \E q \in Params : TurnKnob(q)
  \/ \E by \in {"client", "button"} : Start(by) \/ Stop(by)
  \/ ResetCC \/ SetWait \/ Mirror

Spec == Init /\ [][Next]_vars

(* Every thread goes on; the event thread comes back to jfst_idle on every *)
(* timer tick, however often a knob is turned in between.                  *)
FairSpec ==
  /\ Spec
  /\ \A p \in Producers : WF_vars(Send(p))
  /\ WF_vars(NoteCC) /\ WF_vars(NoteKnob) /\ SF_vars(IdleStep)
  /\ WF_vars(ResetCC) /\ WF_vars(SetWait)

-----------------------------------------------------------------------------
TypeOK ==
  /\ QueueTypeOK
  /\ ipc \in {"queue", "handle", "pair", "clear", "automate"}
  /\ bypassed \in BOOLEAN /\ connected \in BOOLEAN /\ spoiled \in BOOLEAN
  /\ program \in Nat /\ asked \in [bypass : BOOLEAN, program : Nat]
  /\ wait \in BOOLEAN /\ cc \in CCs \cup {Nil} /\ param \in Params \cup {Nil}
  /\ map \in [CCs -> Params \cup {Nil}]
  /\ lpc \in {"idle", "reset", "wait"} /\ moving \in CCs \cup {Nil}
  /\ held \in (CCs \cup {Nil}) \X (Params \cup {Nil})

(* When the queue is empty and nobody stands inside it, the plugin is where *)
(* it was last asked to be and the new ports are connected, if no event was *)
(* lost by an overflow, two sends at once or a slot read before it was      *)
(* filled.                                                                  *)
AtRest == /\ front = rear /\ cpc = "test" /\ ipc # "handle"
          /\ \A p \in Producers : pc[p] = "idle"
Done == bypassed = asked.bypass /\ program = asked.program /\ connected
NothingLost == AtRest => Done \/ spoiled

(* However the accesses of JACK's threads and of the event thread fall,     *)
(* jfst_idle's loop stops and nothing is left behind in the queue, and what *)
(* was asked for is done.  (With the types.)                                *)
Settles ==
  /\ [](TypeOK /\ NothingLost)
  /\ <>[](front = rear /\ cpc = "test" /\ (Done \/ spoiled))

(* MIDI learn maps a controller that was moved to a knob that was turned   *)
(* since the place for each was emptied, and no more than one for each     *)
(* learning; and it never writes in front of the map - if no store of      *)
(* jfst_midi_learn falls while another thread stands between its test and  *)
(* its write, and jfst_idle finds no pair between the three stores that    *)
(* begin a learning.                                                       *)
LearnsPairs ==
  [][map' # map \/ stray' # stray =>
       \/ hasty
       \/ /\ ~session.paired
          /\ \E c \in session.moved, q \in session.touched : map' = [map EXCEPT ![c] = q]
     ]_vars

(* What the code does not keep: that a pair is never made of a controller  *)
(* moved before the learning began.  Between the stores of param and of cc *)
(* the last learning's cc is still there, with its wait.                   *)
FreshPairs == [][TestLearn /\ ~hasty => cc \in session.moved]_vars

(* A learning that has begun goes on until it has its pair, somebody stops *)
(* it or another begins - if none was switched in the middle of its use.   *)
GoesOn == session.by # "nobody" /\ ~session.paired /\ lpc = "idle" => wait \/ hasty

(* A learning goes on, and once a controller has been moved and a knob     *)
(* turned since their places were emptied, in any order and by any         *)
(* threads, one that a client began comes to its end.                      *)
LearningSucceeds ==
  /\ []GoesOn
  /\ \A k \in UNION {1 .. l.learns : l \in Loads} :
       (/\ session.k = k /\ session.by = "client" /\ lpc # "reset"
        /\ session.moved # {} /\ session.touched # {})
         ~> (session.paired \/ session.k # k \/ session.by # "client")
=============================================================================
