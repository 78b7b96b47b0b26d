--------------------------------- MODULE Host ---------------------------------
(***************************************************************************)
(* The life of a host with several plugins (fsthost.c, jfst/node.c, the    *)
(* lists of fst/vstwin.c): starting, the main loop, signals, and the end.  *)
(* The main thread makes calls on the plugins, which event threads execute *)
(* on their walk over the FSTs (EventCall has the hand-off in detail),     *)
(* JACK runs a cycle for each host, and nothing that one of them still     *)
(* uses may be freed by another.                                           *)
(***************************************************************************)
EXTENDS Naturals, Sequences, SequencesExt

CONSTANTS
  Plugins,      \* how many are on the command line
  Replaceable,  \* those that may get a second FST, by loading an FXP or FXB
  LateUsers,    \* do editors get closed and signals sent while the host ends?
  MaxActs       \* bound: how often a user closes an editor or sends a signal

ASSUME HostAssumption ==
  /\ Plugins \in Nat \ {0} /\ MaxActs \in Nat
  /\ Replaceable \subseteq 1 .. Plugins
  /\ LateUsers \in BOOLEAN

Nodes == 1 .. Plugins
FSTs == 1 .. 2 * Plugins  \* f and f + Plugins are opened for node f
None == 0

VARIABLES
  opt,                 \* -T, GTK, the editor at the start
  phase,               \* "starting", "running", "ending" or "failed"
  quit, open_editor,
  dialog,              \* a GTK dialog of this host is open
  linked, freed,       \* nodes in the list, nodes that were freed
  fst, jack,           \* jfst->fst; jfst->client: "none", "open" or "active"
  cycle,               \* the FST in jfst_process of each host
  stage,               \* the life of each FST
  idle,                \* idle_cb: the host whose jfst_idle is called
  call,                \* event_call.call
  window, onClose,     \* the editor, and its window_close_cb
  list,                \* the FSTs of each event thread
  at, step,            \* the walk: the FST, and where in the loop's body
  pc, n,               \* the main thread, and its loop over the nodes
  stack,               \* the main thread's calls, the innermost last
  asked,               \* history: nodes whose editor was asked for
  misused,             \* history: a callback got what had been freed
  acts

options == <<opt, acts>>
wishes  == <<quit, open_editor, asked>>
nodes   == <<linked, freed, fst, jack>>
plugs   == <<stage, idle, window, onClose>>
walks   == <<list, at, step>>
calls   == <<call, stack>>
vars    == <<options, phase, wishes, dialog, nodes, cycle, plugs, walks, calls,
             pc, n, misused>>

Init ==
  /\ opt \in [separate : BOOLEAN, gtk : BOOLEAN, editor : BOOLEAN]
  /\ phase = "starting"
  /\ quit = FALSE /\ open_editor = FALSE /\ dialog = FALSE
  /\ linked = 0 /\ freed = {}
  /\ fst = [i \in Nodes |-> None] /\ jack = [i \in Nodes |-> "none"]
  /\ cycle = [i \in Nodes |-> None]
  /\ stage = [f \in FSTs |-> "none"] /\ idle = [f \in FSTs |-> None]
  /\ call = [f \in FSTs |-> "none"]
  /\ window = [f \in FSTs |-> FALSE] /\ onClose = [f \in FSTs |-> "nothing"]
  /\ list = [t \in Nodes |-> <<>>]
  /\ at = [t \in Nodes |-> None] /\ step = [t \in Nodes |-> "serve"]
  /\ pc = "start" /\ n = 1 /\ stack = <<>>
  /\ asked = {} /\ misused = FALSE /\ acts = 0

(* The event thread of a node: its own, or the one for all.                *)
Thread(i) == IF opt.separate THEN i ELSE 1

(* An FST is in the list of its thread once.                               *)
Position(s, f) == CHOOSE k \in DOMAIN s : s[k] = f

(* th->lock is held for a whole walk.                                      *)
Unlocked(i) == at[Thread(i)] = None

-----------------------------------------------------------------------------
(* The main thread's calls, fst_call ...                                   *)

(* Make the calls todo on f, one after the other, and go on at after.      *)
Call(f, todo, after) ==
  /\ call' = [call EXCEPT ![f] = Head(todo)]
  /\ stack' = Append(stack, [fst |-> f, todo |-> Tail(todo), after |-> after])
  /\ pc' = "wait"

Return ==
  LET top == Last(stack) IN
  /\ pc = "wait" /\ call[top.fst] = "none"
  /\ IF top.todo = <<>>
     THEN stack' = Front(stack) /\ pc' = top.after /\ UNCHANGED call
     ELSE /\ call' = [call EXCEPT ![top.fst] = Head(top.todo)]
          /\ stack' = [stack EXCEPT ![Len(stack)].todo = Tail(top.todo)]
          /\ UNCHANGED pc
  /\ UNCHANGED <<options, phase, wishes, dialog, nodes, cycle, plugs, walks, n, misused>>

(* fst_open: at the end of the thread's list, then INIT and OPEN; jfst     *)
(* gets to know it when they are done.                                     *)
Open(i, f) ==
  /\ Unlocked(i)
  /\ stage' = [stage EXCEPT ![f] = "listed"]
  /\ list' = [list EXCEPT ![Thread(i)] = Append(@, f)]
  /\ n' = i
  /\ Call(f, <<"INIT", "OPEN">>, "opened")
  /\ UNCHANGED <<options, phase, wishes, dialog, nodes, cycle, idle, window, onClose, at,
                 step, misused>>

Opened ==
  /\ pc = "opened"
  /\ fst' = [fst EXCEPT ![n] = IF stage[n + Plugins] = "none" THEN n ELSE n + Plugins]
  /\ pc' = IF phase = "starting" THEN "init" ELSE "loop"
  /\ UNCHANGED <<options, phase, wishes, dialog, linked, freed, jack, cycle, plugs, walks,
                 calls, n, misused>>

-----------------------------------------------------------------------------
(* new_plugin for each plugin of the command line                          *)

NewPlugin ==
  /\ pc = "start"
  /\ IF n > Plugins THEN pc' = "serve" /\ UNCHANGED linked
                    ELSE pc' = "load" /\ linked' = n
  /\ UNCHANGED <<options, phase, wishes, dialog, freed, fst, jack, cycle, plugs, walks,
                 calls, n, misused>>

Load == pc = "load" /\ Open(n, n)

GameOver ==
  /\ pc' = "over" /\ n' = 1
  /\ phase' = IF phase = "starting" THEN "failed" ELSE "ending"

(* No plugin, or the FXP or FXB names one that is not there.               *)
LoadFails ==
  /\ pc = "load" \/ (pc = "init" /\ n \in Replaceable)
  /\ fst' = [fst EXCEPT ![n] = None]
  /\ GameOver
  /\ UNCHANGED <<options, wishes, dialog, linked, freed, jack, cycle, plugs, walks, calls,
                 misused>>

(* jfst_load_state of an FXP or FXB, at the start or from the main loop: a *)
(* new FST takes the place of the old one, which nobody closes.            *)
Replace(i) ==
  /\ i \in Replaceable
  /\ pc = "loop" \/ (pc = "init" /\ i = n)
  /\ stage[i + Plugins] = "none"
  /\ Open(i, i + Plugins)

(* In the main loop a load that fails leaves jfst->fst NULL, and the next  *)
(* cycle reads through it.                                                 *)
ReplaceFails(i) ==
  /\ pc = "loop" /\ i \in Replaceable
  /\ fst' = [fst EXCEPT ![i] = None]
  /\ pc' = "crashed"
  /\ UNCHANGED <<options, phase, wishes, dialog, linked, freed, jack, cycle, plugs, walks,
                 calls, n, misused>>

(* jfst_init.  It may fail with a client or without.                       *)
JackInit ==
  /\ pc = "init"
  /\ jack' = [jack EXCEPT ![n] = "open"]
  /\ Call(fst[n], <<"RESUME">>, "activate")
  /\ UNCHANGED <<options, phase, wishes, dialog, linked, freed, fst, cycle, plugs, walks,
                 n, misused>>

JackInitFails ==
  /\ pc = "init"
  /\ \E client \in {"none", "open"} : jack' = [jack EXCEPT ![n] = client]
  /\ GameOver
  /\ UNCHANGED <<options, wishes, dialog, linked, freed, fst, cycle, plugs, walks, calls,
                 misused>>

Activate ==
  /\ pc = "activate"
  /\ jack' = [jack EXCEPT ![n] = "active"]
  /\ pc' = "bind"
  /\ UNCHANGED <<options, phase, wishes, dialog, linked, freed, fst, cycle, plugs, walks,
                 calls, n, misused>>

(* fst_set_idle_callback takes the lock of the thread.                     *)
SetIdle(i, data) == Unlocked(i) /\ idle' = [idle EXCEPT ![fst[i]] = data]

Bind ==
  /\ pc = "bind"
  /\ SetIdle(n, n)
  /\ pc' = "start" /\ n' = n + 1
  /\ UNCHANGED <<options, phase, wishes, dialog, nodes, cycle, stage, window, onClose,
                 walks, calls, misused>>

(* The rest of WinMain up to the main loop: the signal handlers, and the   *)
(* editors, which GTK opens on the way (gjfst_add).                        *)
Serve ==
  /\ pc = "serve"
  /\ phase' = "running" /\ n' = 1
  /\ LET quits == opt.editor /\ ~opt.gtk
         close == IF opt.gtk THEN "toggle" ELSE IF quits THEN "quit" ELSE "nothing"
     IN /\ onClose' = [f \in FSTs |-> IF \E i \in Nodes : fst[i] = f THEN close ELSE "nothing"]
        /\ open_editor' = quits
        /\ asked' = IF quits THEN Nodes ELSE {}
  /\ pc' = IF opt.gtk /\ opt.editor THEN "edit" ELSE "loop"
  /\ UNCHANGED <<options, quit, dialog, nodes, cycle, stage, idle, window, walks, calls,
                 misused>>

(* No port for the server: "return 1".                                     *)
ServeFails ==
  /\ pc = "serve"
  /\ pc' = "exited"
  /\ UNCHANGED <<options, phase, wishes, dialog, nodes, cycle, plugs, walks, calls, n,
                 misused>>

-----------------------------------------------------------------------------
(* The main loop                                                           *)

(* fsthost_idle, on a timer; fsthost_quit makes the loop return.           *)
Tick ==
  /\ pc = "loop"
  /\ pc' = IF quit THEN "leave" ELSE "poll"
  /\ UNCHANGED <<options, phase, wishes, dialog, nodes, cycle, plugs, walks, calls, n,
                 misused>>

(* proto_poll, in which a client may kill the host, and open_editor.       *)
Poll ==
  /\ pc = "poll"
  /\ \E kill \in BOOLEAN : quit' = (quit \/ kill)
  /\ IF open_editor THEN pc' = "edit" /\ n' = 1 ELSE pc' = "loop" /\ UNCHANGED n
  /\ open_editor' = FALSE
  /\ UNCHANGED <<options, phase, asked, dialog, nodes, cycle, plugs, walks, calls, misused>>

(* fst_run_editor for each node.                                           *)
RunEditor ==
  /\ pc = "edit" /\ n <= Plugins
  /\ asked' = asked \ {n}
  /\ n' = n + 1
  /\ IF window[fst[n]] THEN UNCHANGED <<calls, pc>>
                       ELSE Call(fst[n], <<"EDITOR_OPEN">>, "edit")
  /\ UNCHANGED <<options, phase, quit, open_editor, dialog, nodes, cycle, plugs, walks,
                 misused>>

(* Mutant of EditorsRun: open_editor is cleared once the editors are open. *)
EditorsRunClears ==
  /\ pc = "edit" /\ n > Plugins
  /\ pc' = "loop" /\ open_editor' = FALSE
  /\ UNCHANGED <<options, phase, quit, asked, dialog, nodes, cycle, plugs, walks, calls, n,
                 misused>>

EditorsRun ==
  /\ pc = "edit" /\ n > Plugins
  /\ pc' = "loop"
  /\ UNCHANGED <<options, phase, wishes, dialog, nodes, cycle, plugs, walks, calls, n,
                 misused>>

(* destroy_handler of each plugin's part of the GTK window, and            *)
(* gtk_main_quit.                                                          *)
DestroyWindow ==
  /\ pc = "loop" /\ opt.gtk /\ ~dialog
  /\ pc' = "destroy" /\ n' = 1
  /\ UNCHANGED <<options, phase, wishes, dialog, nodes, cycle, plugs, walks, calls, misused>>

CloseEditor ==
  /\ pc = "destroy"
  /\ IF n <= Plugins THEN Call(fst[n], <<"EDITOR_CLOSE">>, "destroy") /\ n' = n + 1
                     ELSE pc' = "leave" /\ UNCHANGED <<calls, n>>
  /\ UNCHANGED <<options, phase, wishes, dialog, nodes, cycle, plugs, walks, misused>>

(* gtk_dialog_run runs a main loop of its own, and the outer one cannot    *)
(* return before it does.                                                  *)
OpenDialog ==
  /\ pc = "loop" /\ opt.gtk /\ ~dialog
  /\ dialog' = TRUE
  /\ UNCHANGED <<options, phase, wishes, nodes, cycle, plugs, walks, calls, pc, n, misused>>

CloseDialog ==
  /\ dialog /\ dialog' = FALSE
  /\ UNCHANGED <<options, phase, wishes, nodes, cycle, plugs, walks, calls, pc, n, misused>>

Leave ==
  /\ pc = "leave" /\ ~dialog
  /\ GameOver
  /\ UNCHANGED <<options, wishes, dialog, nodes, cycle, plugs, walks, calls, misused>>

-----------------------------------------------------------------------------
(* jfst_node_free_all: jfst_close of each node                             *)

(* Mutant of CloseNode: jack_deactivate before fst_set_idle_callback.      *)
CloseNodeDeactivates ==
  /\ pc = "over"
  /\ IF n > linked THEN pc' = "exited" /\ UNCHANGED jack
     ELSE IF jack[n] = "none" THEN pc' = "close" /\ UNCHANGED jack
     ELSE cycle[n] = None /\ jack' = [jack EXCEPT ![n] = "open"] /\ pc' = "unbind"
  /\ UNCHANGED <<options, phase, wishes, dialog, linked, freed, fst, cycle, plugs, walks,
                 calls, n, misused>>

CloseNode ==
  /\ pc = "over"
  /\ pc' = IF n > linked THEN "exited"
           ELSE IF jack[n] = "none" THEN "close" ELSE "unbind"
  /\ UNCHANGED <<options, phase, wishes, dialog, nodes, cycle, plugs, walks, calls, n,
                 misused>>

Unbind ==
  /\ pc = "unbind"
  /\ SetIdle(n, None)
  /\ pc' = "deactivate"
  /\ UNCHANGED <<options, phase, wishes, dialog, nodes, cycle, stage, window, onClose,
                 walks, calls, n, misused>>

(* jack_deactivate waits for the cycle that runs; jack_client_close.       *)
Deactivate ==
  /\ pc = "deactivate" /\ cycle[n] = None
  /\ jack' = [jack EXCEPT ![n] = "none"]
  /\ pc' = "close"
  /\ UNCHANGED <<options, phase, wishes, dialog, linked, freed, fst, cycle, plugs, walks,
                 calls, n, misused>>

(* fst_close, if there is an FST.                                          *)
Close ==
  /\ pc = "close"
  /\ IF fst[n] = None THEN pc' = "free" /\ UNCHANGED calls
                      ELSE Call(fst[n], <<"CLOSE">>, "remove")
  /\ UNCHANGED <<options, phase, wishes, dialog, nodes, cycle, plugs, walks, n, misused>>

(* Mutant of Unlinked: only the loop, which never looks at the first.      *)
UnlinkedByLoop(s, f) ==
  IF f = Last(s) THEN s ELSE RemoveAt(s, Position(s, f))

(* fst_thread_remove: the first is taken out at the head; the loop ends    *)
(* before the last, so that one stays unless it is the first too.          *)
Unlinked(s, f) ==
  IF f = Head(s) THEN Tail(s)
  ELSE IF f = Last(s) THEN s ELSE RemoveAt(s, Position(s, f))

ThreadRemove ==
  /\ pc = "remove"
  /\ Unlocked(n)
  /\ list' = [list EXCEPT ![Thread(n)] = Unlinked(@, fst[n])]
  /\ pc' = "free"
  /\ UNCHANGED <<options, phase, wishes, dialog, nodes, cycle, plugs, at, step, calls, n,
                 misused>>

Free ==
  /\ pc = "free"
  /\ stage' = [f \in FSTs |-> IF f = fst[n] THEN "freed" ELSE stage[f]]
  /\ freed' = freed \cup {n}
  /\ pc' = "over" /\ n' = n + 1
  /\ UNCHANGED <<options, phase, wishes, dialog, linked, fst, jack, cycle, idle, window,
                 onClose, walks, calls, misused>>

-----------------------------------------------------------------------------
(* fst_event_dispatcher of event thread t, woken by a timer or a message   *)

Alive == pc \notin {"exited", "crashed"}

(* Its next FST; the lock keeps the two fields that are looked at.         *)
Reach(t, f) ==
  /\ at' = [at EXCEPT ![t] = f]
  /\ step' = [step EXCEPT ![t] =
       IF f # None /\ stage[f] = "open" /\ idle[f] # None THEN "idle" ELSE "serve"]

BeginWalk(t) ==
  /\ Alive /\ at[t] = None /\ list[t] # <<>>
  /\ Reach(t, Head(list[t]))
  /\ UNCHANGED <<options, phase, wishes, dialog, nodes, cycle, plugs, list, calls, pc, n,
                 misused>>

(* jfst_idle; if it has SysEx to send, and the control port is connected,  *)
(* it waits for a cycle (SysexSend).                                       *)
Idle(t) ==
  /\ Alive /\ at[t] # None /\ step[t] = "idle"
  /\ \E next \in {"serve", "send"} : step' = [step EXCEPT ![t] = next]
  /\ UNCHANGED <<options, phase, wishes, dialog, nodes, cycle, plugs, list, at, calls, pc,
                 n, misused>>

Following(s, f) == IF f = Last(s) THEN None ELSE s[Position(s, f) + 1]

(* The call that is there, if any, is executed and answered.               *)
ServeCall(t) ==
  LET f == at[t] c == call[at[t]] IN
  /\ Alive /\ f # None /\ step[t] = "serve"
  /\ stage' = [stage EXCEPT ![f] = CASE c = "OPEN" -> "open" [] c = "CLOSE" -> "closed"
                                     [] OTHER -> @]
  /\ window' = [window EXCEPT ![f] = CASE c = "EDITOR_OPEN" -> TRUE
                                       [] c \in {"EDITOR_CLOSE", "CLOSE"} -> FALSE
                                       [] OTHER -> @]
  /\ call' = [call EXCEPT ![f] = "none"]
  /\ Reach(t, Following(list[t], f))
  /\ UNCHANGED <<options, phase, wishes, dialog, nodes, cycle, idle, onClose, list, stack,
                 pc, n, misused>>

WalkStep(t) == BeginWalk(t) \/ Idle(t) \/ ServeCall(t)

(* my_window_proc, WM_CLOSE, between two walks: GTK's callback gets the    *)
(* GJFST, which gjfst_free has freed by the time the plugins are closed.   *)
UserCloses(f) ==
  /\ Alive /\ window[f] /\ \E i \in Nodes : f \in {i, i + Plugins} /\ Unlocked(i)
  /\ phase = "ending" => LateUsers
  /\ acts < MaxActs /\ acts' = acts + 1
  /\ window' = [window EXCEPT ![f] = FALSE]
  /\ quit' = (quit \/ onClose[f] = "quit")
  /\ misused' = (misused \/ (onClose[f] = "toggle" /\ phase = "ending"))
  /\ UNCHANGED <<opt, phase, open_editor, asked, dialog, nodes, cycle, stage, idle,
                 onClose, walks, calls, pc, n>>

-----------------------------------------------------------------------------
(* JACK's process thread of host i                                         *)

(* A cycle that does not get fst_process_lock returns at once, and is no   *)
(* step here; while jfst_idle of the host waits, nobody else has the lock. *)
BeginCycle(i) ==
  /\ Alive /\ jack[i] = "active" /\ cycle[i] = None
  /\ cycle' = [cycle EXCEPT ![i] = fst[i]]
  /\ UNCHANGED <<options, phase, wishes, dialog, nodes, plugs, walks, calls, pc, n, misused>>

(* The walks that are in jfst_idle of host i and there wait in state s.    *)
Waiting(i, s) == {t \in Nodes : step[t] = s /\ idle[at[t]] = i}

StepTo(ts, s) == step' = [t \in Nodes |-> IF t \in ts THEN s ELSE step[t]]

(* A cycle writes the SysEx that jfst_idle of this host waits for, if the  *)
(* control port is connected (process_ctrl_output).                        *)
EndCycle(i) ==
  /\ Alive /\ cycle[i] # None
  /\ cycle' = [cycle EXCEPT ![i] = None]
  /\ StepTo(Waiting(i, "send"), "serve")
  /\ UNCHANGED <<options, phase, wishes, dialog, nodes, plugs, list, at, calls, pc, n,
                 misused>>

(* The control port is disconnected, or connected again, while jfst_idle   *)
(* waits; where it does not wait, this shows only in what Idle chooses.    *)
Replug(i, s, next) ==
  /\ Alive /\ Waiting(i, s) # {}
  /\ StepTo(Waiting(i, s), next)
  /\ UNCHANGED <<options, phase, wishes, dialog, nodes, cycle, plugs, list, at, calls, pc,
                 n, misused>>

Unplug(i) == Replug(i, "send", "stranded")

Plug(i) == Replug(i, "stranded", "send")

-----------------------------------------------------------------------------
(* Signals, which the main thread handles between any two steps            *)

SigInt ==
  /\ Alive /\ phase \in {"running", "ending"} /\ ~quit
  /\ quit' = TRUE
  /\ UNCHANGED <<options, phase, open_editor, asked, dialog, nodes, cycle, plugs, walks,
                 calls, pc, n, misused>>

SigUsr2 ==
  /\ Alive /\ phase \in {"running", "ending"}
  /\ acts < MaxActs /\ acts' = acts + 1
  /\ open_editor' = TRUE /\ asked' = Nodes
  /\ UNCHANGED <<opt, phase, quit, dialog, nodes, cycle, plugs, walks, calls, pc, n,
                 misused>>

(* With -l.  The first host's state is saved in the handler: calls on its  *)
(* FST, whose event_call.lock the main thread may hold already.            *)
SigUsr1 ==
  /\ Alive /\ phase \in {"running", "ending"} /\ pc # "stuck"
  /\ phase = "ending" => LateUsers
  /\ acts < MaxActs /\ acts' = acts + 1
  /\ IF 1 \in freed THEN misused' = TRUE /\ UNCHANGED <<calls, pc>>
     ELSE /\ UNCHANGED misused
          /\ IF \E k \in DOMAIN stack : stack[k].fst = fst[1]
             THEN pc' = "stuck" /\ UNCHANGED calls
             ELSE Call(fst[1], <<"DISPATCHER">>, pc)
  /\ UNCHANGED <<opt, phase, wishes, dialog, nodes, cycle, plugs, walks, n>>

-----------------------------------------------------------------------------
Starts == NewPlugin \/ Load \/ LoadFails \/ Opened \/ JackInit \/ JackInitFails \/ Activate \/ Bind
            \/ Serve \/ ServeFails
Runs == Tick \/ Poll \/ RunEditor \/ EditorsRun \/ CloseEditor \/ Leave
Ends == CloseNode \/ Unbind \/ Deactivate \/ Close \/ ThreadRemove \/ Free

MainStep == Starts \/ Runs \/ Ends \/ Return

UserStep ==
  \/ DestroyWindow \/ OpenDialog \/ CloseDialog \/ SigInt \/ SigUsr1 \/ SigUsr2
  \/ \E i \in Nodes : Replace(i) \/ ReplaceFails(i)
  \/ \E f \in FSTs : UserCloses(f)

Next ==
  \/ MainStep \/ UserStep
  \/ \E t \in Nodes : WalkStep(t)
  \/ \E i \in Nodes : BeginCycle(i) \/ EndCycle(i) \/ Unplug(i) \/ Plug(i)

Spec == Init /\ [][Next]_vars

(* Threads go on; the main thread gets the locks that walks take and drop, *)
(* and jack_deactivate finds the end of a cycle.                           *)
FairSpec ==
  /\ Spec
  /\ SF_vars(MainStep)
  /\ \A t \in Nodes : WF_vars(WalkStep(t))
  /\ \A i \in Nodes : WF_vars(BeginCycle(i)) /\ WF_vars(EndCycle(i))

-----------------------------------------------------------------------------
TypeOK ==
  /\ phase \in {"starting", "running", "ending", "failed"}
  /\ linked \in 0 .. Plugins /\ freed \subseteq 1 .. linked
  /\ fst \in [Nodes -> FSTs \cup {None}] /\ cycle \in [Nodes -> FSTs \cup {None}]
  /\ jack \in [Nodes -> {"none", "open", "active"}]
  /\ stage \in [FSTs -> {"none", "listed", "open", "closed", "freed"}]
  /\ list \in [Nodes -> Seq(FSTs)] /\ at \in [Nodes -> FSTs \cup {None}]
  /\ step \in [Nodes -> {"idle", "send", "stranded", "serve"}]
  /\ n \in 1 .. Plugins + 1

Replaced(f) == f <= Plugins /\ stage[f + Plugins] # "none"

(* What one thread frees no other uses: an event thread walks on FSTs that *)
(* are there and calls jfst_idle for hosts that are there, a cycle has an  *)
(* open plugin, callbacks find their data - in a host that never got a     *)
(* second FST for a node.  (With the types.)                               *)
WalksOnLive ==
  \A t \in Nodes : at[t] # None =>
    /\ stage[at[t]] # "freed"
    /\ step[t] # "serve" => idle[at[t]] \notin freed

NothingFreedIsUsed ==
  /\ TypeOK
  /\ WalksOnLive \/ \E f \in FSTs : Replaced(f)
  /\ \A i \in Nodes : cycle[i] # None => stage[cycle[i]] = "open"
  /\ ~misused

(* The same with second FSTs; it does not hold.                            *)
WalksOnLiveAnyway == WalksOnLive

(* Each node in the list is closed, with the FST it holds at the end.      *)
Clean ==
  /\ freed = 1 .. linked
  /\ \A i \in Nodes : jack[i] = "none"
  /\ \A i \in Nodes : fst[i] # None => stage[fst[i]] = "freed"

(* No control port stays disconnected under a jfst_idle that waits to send *)
(* through it, holding the lock of its thread.                             *)
PortsComeBack == \A t \in Nodes : <>[](step[t] # "stranded")

(* Once a signal, a client, an editor's window or a failure asks for it,   *)
(* the host comes to its end with everything closed, whatever the event    *)
(* threads and JACK are in the middle of - if no dialog stays open for     *)
(* ever, control ports come back, SIGUSR1 has not locked up the main       *)
(* thread, and no FXP loaded meanwhile took the plugin away or left an FST *)
(* behind with its callback.                                               *)
HostEnds ==
  []<>(~dialog) /\ PortsComeBack =>
    (quit \/ phase \in {"ending", "failed"} ~> (pc = "exited" /\ Clean) \/ pc \in {"stuck", "crashed"}
       \/ \E f \in FSTs : Replaced(f) /\ idle[f] # None)

(* The same with ports that stay disconnected; it does not hold.           *)
HostEndsUnplugged ==
  (\A f \in FSTs : ~Replaced(f)) /\ acts = 0 /\ quit /\ phase = "ending" ~> pc = "exited"

(* SIGUSR1 never makes the main thread wait for itself.  It does.          *)
NeverStuck == pc # "stuck"

(* SIGUSR2 is never lost: after the last one, fst_run_editor is called for *)
(* each plugin, unless the host ends or a control port does not come back. *)
EditorsShown ==
  PortsComeBack => \A i \in Nodes :
    i \in asked ~> i \notin asked \/ quit \/ phase = "ending" \/ pc \in {"destroy", "stuck", "crashed"}
=============================================================================
