----------------------------- MODULE SysexSend -----------------------------
(***************************************************************************)
(* Sending SysEx to the control application (jfst/sysex.c): a sender       *)
(* leaves the type of its message in jfst->sysex_want and sleeps on the    *)
(* condition variable sysex_sent until JACK's process thread, which may    *)
(* only try the mutex, has written it.  The event thread sends from        *)
(* jfst_idle; the main thread sends a dump from the GTK button, and its    *)
(* dump asks the event thread for the program's name with sysex_lock held. *)
(***************************************************************************)
EXTENDS Naturals

CONSTANTS
  Senders,        \* the threads that send
  Unplugs,        \* may ctrl_outport be disconnected?
  MaxDisconnects  \* bound: how often

Threads == {"main", "event"}

ASSUME SendersAssumption == Senders \subseteq Threads
ASSUME UnplugsAssumption == Unplugs \in BOOLEAN /\ MaxDisconnects \in Nat

VARIABLES
  plugged,     \* jack_port_connected(ctrl_outport)
  unplugged,   \* history: how often it was disconnected
  sysex_want,  \* jfst->sysex_want
  sxLock,      \* owner of jfst->sysex_lock
  at,          \* where each thread is in jfst_send_sysex
  type,        \* the type each thread sends
  owner,       \* history: whose message sysex_want stands for
  written      \* history: the message of each thread was written

sendVars == <<plugged, unplugged, sysex_want, sxLock, at, type, owner, written>>
port == <<plugged, unplugged>>

SysExType == {"REPLY", "DUMP", "DONE"}
Labels == {"idle", "lock", "name", "want", "wait", "woken"}

SendInit ==
  /\ plugged \in BOOLEAN
  /\ unplugged = 0
  /\ sysex_want = "NONE"
  /\ sxLock = "free"
  /\ at = [t \in Threads |-> "idle"]
  /\ type = [t \in Threads |-> "NONE"]
  /\ owner = "none"
  /\ written = [t \in Threads |-> FALSE]

GoTo(t, label) == at' = [at EXCEPT ![t] = label]

-----------------------------------------------------------------------------
(* The JACK graph.                                                         *)

Connect ==
  /\ ~plugged
  /\ plugged' = TRUE
  /\ UNCHANGED <<unplugged, sysex_want, sxLock, at, type, owner, written>>

Disconnect ==
  /\ Unplugs /\ unplugged < MaxDisconnects
  /\ plugged
  /\ plugged' = FALSE
  /\ unplugged' = unplugged + 1
  /\ UNCHANGED <<sysex_want, sxLock, at, type, owner, written>>

-----------------------------------------------------------------------------
(* jfst_send_sysex                                                         *)

(* Nothing is sent when nobody listens.                                    *)
Begin(t, k) ==
  /\ at[t] = "idle"
  /\ t \in Senders
  /\ t = "main" => k = "DUMP"
  /\ plugged
  /\ GoTo(t, "lock")
  /\ type' = [type EXCEPT ![t] = k]
  /\ written' = [written EXCEPT ![t] = FALSE]
  /\ UNCHANGED <<port, sysex_want, sxLock, owner>>

Lock(t) ==
  /\ at[t] = "lock"
  /\ sxLock = "free"
  /\ sxLock' = t
  /\ GoTo(t, IF type[t] = "DUMP" THEN "name" ELSE "want")
  /\ UNCHANGED <<port, sysex_want, type, owner, written>>

(* A dump needs the program's name: fst_get_program_name makes a           *)
(* dispatcher call.  On the event thread the handler runs at once; on the  *)
(* main thread the call waits for the event thread to come back to its     *)
(* message loop (EventCall).                                               *)
GetProgramName(t) ==
  /\ at[t] = "name"
  /\ t = "main" => at["event"] = "idle"
  /\ GoTo(t, "want")
  /\ UNCHANGED <<port, sysex_want, sxLock, type, owner, written>>

(* Mutant of SetWant: pthread_cond_wait is forgotten.                      *)
SetWantNoWait(t) ==
  /\ at[t] = "want"
  /\ sysex_want' = type[t]
  /\ owner' = t
  /\ sxLock' = "free"
  /\ GoTo(t, "woken")
  /\ UNCHANGED <<port, type, written>>

(* sysex_want = type; pthread_cond_wait lets go of the lock.               *)
SetWant(t) ==
  /\ at[t] = "want"
  /\ sysex_want' = type[t]
  /\ owner' = t
  /\ sxLock' = "free"
  /\ GoTo(t, "wait")
  /\ UNCHANGED <<port, type, written>>

Return(t) ==
  /\ at[t] = "woken"
  /\ sxLock = "free"
  /\ GoTo(t, "idle")
  /\ type' = [type EXCEPT ![t] = "NONE"]
  /\ UNCHANGED <<port, sysex_want, sxLock, owner, written>>

-----------------------------------------------------------------------------
(* process_ctrl_output and jfst_sysex_rt_send, once a cycle.  The mutex    *)
(* they hold is only tried for, so the rest is one step.                   *)

Waiters == {t \in Threads : at[t] = "wait"}

(* Mutant of RtSendSysex: no pthread_cond_signal.                          *)
RtSendSilently ==
  /\ plugged
  /\ sysex_want # "NONE"
  /\ sxLock = "free"
  /\ sysex_want' = "NONE"
  /\ written' = [written EXCEPT ![owner] = TRUE]
  /\ UNCHANGED <<port, sxLock, type, owner, at>>

(* The message that sysex_want names is written, and one waiter, whichever *)
(* it is, is woken.                                                        *)
RtSendSysex ==
  /\ plugged
  /\ sysex_want # "NONE"
  /\ sxLock = "free"
  /\ sysex_want' = "NONE"
  /\ written' = [written EXCEPT ![owner] = TRUE]
  /\ \/ \E t \in Waiters : GoTo(t, "woken")
     \/ Waiters = {} /\ UNCHANGED at
  /\ UNCHANGED <<port, sxLock, type, owner>>

-----------------------------------------------------------------------------
SendStep(t) == Lock(t) \/ GetProgramName(t) \/ SetWant(t) \/ Return(t)

SendNext ==
  \/ Connect \/ Disconnect
  \/ \E t \in Threads : SendStep(t) \/ \E k \in SysExType : Begin(t, k)
  \/ RtSendSysex

SendSpec == SendInit /\ [][SendNext]_sendVars

(* Threads that can go on do, and JACK runs cycle after cycle.             *)
FairSpec ==
  /\ SendSpec
  /\ \A t \in Threads : SF_sendVars(SendStep(t))
  /\ SF_sendVars(RtSendSysex)

-----------------------------------------------------------------------------
SendTypeOK ==
  /\ plugged \in BOOLEAN
  /\ unplugged \in 0 .. MaxDisconnects
  /\ sysex_want \in SysExType \cup {"NONE"}
  /\ sxLock \in Threads \cup {"free"}
  /\ at \in [Threads -> Labels]
  /\ type \in [Threads -> SysExType \cup {"NONE"}]
  /\ owner \in Threads \cup {"none"}
  /\ written \in [Threads -> BOOLEAN]

(* "Prepare data for RT thread and wait for send": a sender goes on only   *)
(* after its own message was written.                                      *)
SentBeforeReturn == \A t \in Threads : at[t] = "woken" => written[t]

(* A message that waits to be written is not replaced by another one.      *)
NothingReplaced == [][sysex_want # "NONE" => sysex_want' = sysex_want \/ written'[owner]]_sendVars

(* Senders wait for the process thread and never for each other in a       *)
(* circle: main with the lock for the event thread's answer, the event     *)
(* thread for the lock.                                                    *)
NoEmbrace == ~(sxLock = "main" /\ at["main"] = "name" /\ at["event"] = "lock")

(* Every jfst_send_sysex returns.                                          *)
SendReturns == \A t \in Threads : at[t] # "idle" ~> at[t] = "idle"

(* ... unless ctrl_outport stays disconnected.                             *)
ReturnsWhenPlugged == (<>[]~plugged) \/ SendReturns

(***************************************************************************)
(* The inductive invariant for one sender.                                 *)
(***************************************************************************)
SoleSender(u) == u \in Threads /\ Senders \subseteq {u}

HandShakeInv(u) ==
  /\ \A t \in Threads \ {u} : at[t] = "idle"
  /\ sxLock = u <=> at[u] \in {"name", "want"}
  /\ sxLock \in {u, "free"}
  /\ sysex_want # "NONE" => owner = u /\ at[u] = "wait"
  /\ at[u] # "idle" => type[u] \in SysExType
  /\ at[u] = "wait" => sysex_want = type[u]
  /\ at[u] = "woken" => written[u]

SendIInv(u) == SendTypeOK /\ HandShakeInv(u)
=============================================================================
