------------------------------ MODULE FstState ------------------------------
(***************************************************************************)
(* The part of struct FST (fst/fst_int.h) that the calls of one plugin     *)
(* instance read and write, the calls themselves (FSTCall) and what the    *)
(* event handler does for each of them (fst_event_handler, fst/vstwin.c).  *)
(*                                                                         *)
(* Data is cut down to what the properties tell apart: programs, sample    *)
(* rate / block size pairs and editor sizes are members of the small set   *)
(* Args, and the plugin itself is visible through what it answers.         *)
(***************************************************************************)
CONSTANTS
  Args,        \* programs, audio configurations and editor sizes; 0 is the calloc'ed value
  InitResults  \* can the plugin's entry point fail? {TRUE} or {TRUE, FALSE}

ASSUME ArgsAssumption == 0 \in Args
ASSUME InitAssumption == InitResults \subseteq BOOLEAN /\ TRUE \in InitResults

Types == {"INIT", "OPEN", "CLOSE", "SUSPEND", "RESUME", "CONFIGURE",
          "EDITOR_OPEN", "EDITOR_CLOSE", "EDITOR_RESIZE",
          "PROGRAM_CHANGE", "DISPATCHER"}

LifecycleTypes == {"INIT", "OPEN", "CLOSE"}  \* made by fst_open and fst_close only

Call == [type : Types, arg : Args]
NullCall == [type |-> "DISPATCHER", arg |-> 0]

FST == [plugin      : BOOLEAN,  \* fst->plugin is not NULL
        initialized : BOOLEAN,
        opened      : BOOLEAN,
        running     : BOOLEAN,  \* between effMainsChanged 1 and effMainsChanged 0
        window      : BOOLEAN,  \* fst->window is not NULL
        size        : Args,     \* width and height of the editor
        conf        : Args,     \* sample rate and block size kept in fst->amc
        program     : Args]     \* fst->current_program

NewFST == [plugin |-> FALSE, initialized |-> FALSE, opened |-> FALSE,
           running |-> FALSE, window |-> FALSE,
           size |-> 0, conf |-> 0, program |-> 0]

(* Mutant of Ready: OPEN is refused like any other call.                   *)
ReadyOnlyWhenOpened(f, k) ==
  IF f.initialized THEN f.opened ELSE k.type = "INIT"

(* The checks at the head of the event handler: before INIT only INIT is   *)
(* accepted, before OPEN (and after CLOSE) only OPEN.                      *)
Ready(f, k) ==
  IF f.initialized THEN f.opened \/ k.type = "OPEN" ELSE k.type = "INIT"

(* What fst_suspend and fst_destroy_editor leave behind.                   *)
Suspended(f) == [f EXCEPT !.running = FALSE]
EditorGone(f) == [f EXCEPT !.window = FALSE]

(***************************************************************************)
(* The states the switch of the event handler can leave the FST in.  INIT  *)
(* marks the FST initialized whether fst_init succeeded or not; creating   *)
(* the editor may fail, and a plugin may refuse a program.                 *)
(***************************************************************************)
Effects(f, k) ==
  CASE k.type = "INIT" ->
         {[f EXCEPT !.plugin = ok, !.initialized = TRUE] : ok \in InitResults}
    [] k.type = "OPEN" -> {[f EXCEPT !.opened = TRUE]}
    [] k.type = "CLOSE" -> {[EditorGone(Suspended(f)) EXCEPT !.opened = FALSE]}
    [] k.type = "SUSPEND" -> {Suspended(f)}
    [] k.type = "RESUME" -> {[f EXCEPT !.running = TRUE]}
    [] k.type = "CONFIGURE" -> {[f EXCEPT !.conf = k.arg]}
    [] k.type = "EDITOR_OPEN" ->
         {f} \cup {[f EXCEPT !.window = TRUE, !.size = s] : s \in Args}
    [] k.type = "EDITOR_CLOSE" -> {EditorGone(f)}
    [] k.type = "EDITOR_RESIZE" -> {[f EXCEPT !.size = k.arg]}
    [] k.type = "PROGRAM_CHANGE" -> {f, [f EXCEPT !.program = k.arg]}
    [] k.type = "DISPATCHER" -> {f}

(* Calls during which the handler, holding fst->lock, gives the plugin the *)
(* occasion to ask for a new editor size: effEditOpen, effEditIdle inside  *)
(* a program change, and whatever opcode is dispatched to an open editor.  *)
EntersPluginGUI(f, k) ==
  \/ k.type = "EDITOR_OPEN"
  \/ k.type \in {"PROGRAM_CHANGE", "DISPATCHER"} /\ f.window

=============================================================================
