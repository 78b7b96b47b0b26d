----------------------------- MODULE MCEventCall -----------------------------
(***************************************************************************)
(* Instances of EventCall for TLC: the main thread and one JACK            *)
(* notification thread, two values for programs, configurations and sizes. *)
(***************************************************************************)
EXTENDS EventCall

K(type, arg) == [type |-> type, arg |-> arg]

MCUserCalls ==
  {K("SUSPEND", 0), K("CONFIGURE", 1), K("EDITOR_OPEN", 0), K("PROGRAM_CHANGE", 1)}

(* What jfst_idle does on the event thread: bypass, program, parameter names *)
MCOwnCalls == {K("SUSPEND", 0), K("PROGRAM_CHANGE", 1)}

(* Fewer kinds of call, for the runs that check liveness.                  *)
FewUserCalls == {K("SUSPEND", 0), K("PROGRAM_CHANGE", 1)}
FewOwnCalls == {K("RESUME", 0), K("PROGRAM_CHANGE", 1)}

JustResume == {K("RESUME", 0)}
EditorCalls == {K("EDITOR_OPEN", 0), K("EDITOR_CLOSE", 0)}

=============================================================================
