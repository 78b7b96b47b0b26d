----------------------------- MODULE CallService -----------------------------
(***************************************************************************)
(* What fst_event_call promises to the threads that use it ("Public        *)
(* (thread-safe) routines", fst/vstwin.c): a call that is made is executed *)
(* exactly once, in one piece, by the event thread, and the caller gets    *)
(* control back only after that.  The event thread also works on the       *)
(* plugin on its own behalf, between the calls of the others.              *)
(***************************************************************************)
EXTENDS FstState

CONSTANTS Callers   \* the threads other than the event thread

VARIABLES
  fst,     \* the plugin instance
  status,  \* status[c]: "idle", "pending" or "done"
  call     \* call[c]: the call c makes, NullCall when it makes none

svars == <<fst, status, call>>

SInit ==
  /\ fst = NewFST
  /\ status = [c \in Callers |-> "idle"]
  /\ call = [c \in Callers |-> NullCall]

Request(c, k) ==
  /\ status[c] = "idle"
  /\ status' = [status EXCEPT ![c] = "pending"]
  /\ call' = [call EXCEPT ![c] = k]
  /\ UNCHANGED fst

Serve(c) ==
  /\ status[c] = "pending"
  /\ Ready(fst, call[c])
  /\ fst' \in Effects(fst, call[c])
  /\ status' = [status EXCEPT ![c] = "done"]
  /\ UNCHANGED call

(* A program change that finds its program already selected is not made.   *)
Skip(c) ==
  /\ status[c] = "pending"
  /\ call[c].type = "PROGRAM_CHANGE"
  /\ fst.program = call[c].arg
  /\ status' = [status EXCEPT ![c] = "idle"]
  /\ call' = [call EXCEPT ![c] = NullCall]
  /\ UNCHANGED fst

Return(c) ==
  /\ status[c] = "done"
  /\ status' = [status EXCEPT ![c] = "idle"]
  /\ call' = [call EXCEPT ![c] = NullCall]
  /\ UNCHANGED fst

(* The event thread's own work: its own calls, refreshing current_program, *)
(* the user closing the editor window; and a new struct in place of one    *)
(* that was closed.                                                        *)
Own ==
  /\ \/ \E k \in Call : /\ k.type \notin LifecycleTypes
                      /\ Ready(fst, k)
                      /\ fst' \in Effects(fst, k)
     \/ fst.opened /\ \E p \in Args : fst' = [fst EXCEPT !.program = p]
     \/ fst' = EditorGone(fst)
     \/ ~fst.opened /\ fst' = NewFST
  /\ UNCHANGED <<status, call>>

SNext ==
  \/ \E c \in Callers : \/ \E k \in Call : Request(c, k)
                        \/ Serve(c) \/ Skip(c) \/ Return(c)
  \/ Own

Service == SInit /\ [][SNext]_svars

(* ... and every call that is made is answered.                            *)
LiveService ==
  /\ Service
  /\ \A c \in Callers : /\ WF_svars(Serve(c) \/ Skip(c))
                        /\ WF_svars(Return(c))
=============================================================================
