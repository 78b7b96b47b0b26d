-------------------------------- MODULE SysexIn --------------------------------
(***************************************************************************)
(* The SysEx conversation of one host with the control application         *)
(* (jfst/sysex.c, jfst_idle): the process thread puts messages into the    *)
(* ring sysex_ringbuffer, the event thread takes them out and obeys, sends *)
(* what it is asked for through the process thread, and afterwards tells   *)
(* of changes.  GTK's button sends dumps from the main thread.             *)
(*                                                                         *)
(* A dump holds the settings bypass, program, channel and volume, written  *)
(* and read one after the other; fewer Fields stand for all of them, of    *)
(* which the first is the bypass and one is the channel.                   *)
(***************************************************************************)
EXTENDS Integers, Sequences, FiniteSets

CONSTANTS Fields,       \* settings in a dump
          Channel,      \* which of them is the channel
          Values,       \* of a setting
          Capacity,     \* messages the ring has room for
          GtkDumps,     \* does the main thread send dumps: subset of BOOLEAN
          MaxMessages,  \* bounds: messages received, and how many of them
          MaxWithGtk,   \*   where the main thread sends dumps, settings
          MaxEdits, MaxUnplugs  \* changed, connections lost

AutoId == 0             \* SYSEX_AUTO_ID
OwnId  == 1             \* what the controller gives this host
OtherId == 2            \* and another
Unknown == <<>>
Settings == [1 .. Fields -> Values]

ASSUME SysexInAssumption ==
  /\ Fields \in Nat \ {0} /\ Channel \in 1 .. Fields /\ Capacity \in Nat \ {0}
  /\ 0 \in Values /\ Values \subseteq Nat
  /\ GtkDumps \subseteq BOOLEAN
  /\ MaxMessages \in Nat /\ MaxWithGtk \in Nat /\ MaxEdits \in Nat /\ MaxUnplugs \in Nat

VARIABLES
  host,       \* the settings in force
  dump, last, \* sysex_dump, sysex_last
  uuid,       \* of sysex_dump and sysex_ident_reply
  notify,     \* sysex_want_notify
  ring,       \* sizes and messages, as written
  half,       \* message whose size is written and nothing else, or <<>>
  pc, msg,    \* the event thread, the message it obeys
  k,          \* next setting of jfst_sync2sysex or jfst_detect_changes
  changed,    \* has jfst_detect_changes found any?
  next,       \* where it goes on after jfst_send_sysex
  sending,    \* the type it sends
  want,       \* sysex_want
  lock,       \* owner of sysex_lock
  stage,      \* where each thread is in jfst_send_sysex
  n,          \* the setting its dump comes to, counted from 1
  connected,  \* to the control application, both ways
  gtk,        \* this behaviour's choice of GtkDumps
  view,       \* the dump the controller was sent last
  adrift,     \* history: view may be wrong for good, see below
  pure,       \* history: nobody interfered with the DUMP being obeyed
  sent, edits, unplugs

event == <<pc, msg, k, changed, next, sending>>
hand  == <<want, lock, stage, n>>
hist  == <<view, adrift, pure>>
vars  == <<host, dump, last, uuid, notify, ring, half, event, hand, connected,
           gtk, hist, sent, edits, unplugs>>

Both == {"event", "main"}

Init ==
  /\ host = [f \in 1 .. Fields |-> 0]
  /\ dump = host /\ last = host
  /\ uuid \in {AutoId, OwnId}
  /\ notify \in BOOLEAN
  /\ ring = <<>> /\ half = <<>>
  /\ pc = "home" /\ msg = <<>> /\ k = 1 /\ changed = FALSE
  /\ next = "input" /\ sending = "REPLY"
  /\ want = "NONE" /\ lock = "free" /\ stage = [t \in Both |-> "out"] /\ n = 1
  /\ connected = FALSE
  /\ gtk \in GtkDumps
  /\ view = Unknown /\ adrift = TRUE /\ pure = FALSE
  /\ sent = 0 /\ edits = 0 /\ unplugs = 0

-----------------------------------------------------------------------------
(* What the controller may send, to this host and to another.              *)
Messages ==
  {<<"DUMP", OwnId, s>> : s \in Settings}
  \cup {<<type, OwnId>> : type \in {"RQST", "RELOAD"}}
  \cup {<<"DUMP", OtherId, host>>}
  \cup {<<"OFFER", OwnId, mine>> : mine \in BOOLEAN}
  \cup {<<"IDENT">>}

(* jfst_queue_sysex, on the process thread: no room, no message; else the  *)
(* size and then the message are written, and are there to be read, one    *)
(* after the other.                                                        *)
Size == <<"size">>

Room == Len(ring) < 2 * Capacity

Queue(m) == ring' = Append(ring, Size) /\ half' = m

NoRoomForAll == ring' = Append(ring, Size) /\ UNCHANGED half

NoRoom == UNCHANGED <<ring, half>>

Receive ==
  /\ connected /\ half = <<>>
  /\ sent < (IF gtk THEN MaxWithGtk ELSE MaxMessages) /\ sent' = sent + 1
  /\ \E m \in Messages :
       IF Room THEN Queue(m) ELSE NoRoom
  /\ UNCHANGED <<host, dump, last, uuid, notify, event, hand, connected,
                 gtk, hist, edits, unplugs>>

WriteMessage ==
  /\ half # <<>>
  /\ ring' = Append(ring, half)
  /\ half' = <<>>
  /\ UNCHANGED <<host, dump, last, uuid, notify, event, hand, connected,
                 gtk, hist, sent, edits, unplugs>>

-----------------------------------------------------------------------------
(* jfst_send_sysex.  With nobody connected nothing is sent.                *)
Move(t, label) == stage' = [stage EXCEPT ![t] = label]

Send(type, after) ==
  IF connected
  THEN pc' = "send" /\ next' = after /\ sending' = type /\ Move("event", "lock")
  ELSE pc' = after /\ UNCHANGED <<next, sending, stage>>

GtkSend ==
  /\ gtk /\ connected /\ stage["main"] = "out"
  /\ edits < MaxEdits /\ edits' = edits + 1
  /\ Move("main", "lock")
  /\ UNCHANGED <<host, dump, last, uuid, notify, ring, half, event, want, lock, n, connected,
                 gtk, hist, sent, unplugs>>

TypeSent(t) == IF t = "main" THEN "DUMP" ELSE sending

(* Of the settings the bypass is filled in last.  The channel comes after  *)
(* the program's name, for which the main thread has to ask the event      *)
(* thread.                                                                 *)
Field(i) == IF i = Fields THEN 1 ELSE i + 1

After(t, i) ==
  IF Field(i) # Channel THEN "fill" ELSE IF t = "main" THEN "name" ELSE "channel"

TakeLock(t) ==
  /\ stage[t] = "lock" /\ lock = "free" /\ lock' = t
  /\ n' = 1 /\ Move(t, IF TypeSent(t) = "DUMP" THEN After(t, 1) ELSE "want")
  /\ UNCHANGED <<host, dump, want>>

FilledIn(t) ==
  IF n = Fields THEN n' = 1 /\ Move(t, "want")
                ELSE n' = n + 1 /\ Move(t, After(t, n + 1))

FillField(t) ==
  /\ stage[t] = "fill"
  /\ dump' = [dump EXCEPT ![Field(n)] = host[Field(n)]]
  /\ FilledIn(t)
  /\ UNCHANGED <<host, want, lock>>

(* fst_get_program_name is answered in the event thread's message loop.    *)
GetName(t) ==
  /\ stage[t] = "name" /\ pc = "home"
  /\ Move(t, "channel")
  /\ UNCHANGED <<host, dump, want, lock, n>>

(* The channel is set again to what was read.                              *)
FillChannel(t) ==
  /\ stage[t] = "channel" /\ Move(t, "restore")
  /\ dump' = [dump EXCEPT ![Channel] = host[Channel]]
  /\ UNCHANGED <<host, want, lock, n>>

SetChannel(t) ==
  /\ stage[t] = "restore"
  /\ host' = [host EXCEPT ![Channel] = dump[Channel]]
  /\ FilledIn(t)
  /\ UNCHANGED <<dump, want, lock>>

(* pthread_cond_wait lets go of the lock, and takes it again to return.    *)
Want(t) ==
  /\ stage[t] = "want" /\ Move(t, "asleep")
  /\ want' = TypeSent(t) /\ lock' = "free"
  /\ UNCHANGED <<host, dump, n>>

Leave(t) ==
  /\ stage[t] = "woken" /\ lock = "free" /\ Move(t, "out")
  /\ UNCHANGED <<host, dump, want, lock, n>>

Sender(t) ==
  /\ \/ TakeLock(t) \/ FillField(t) \/ GetName(t) \/ FillChannel(t) \/ SetChannel(t)
     \/ Want(t) \/ Leave(t)
  /\ pc' = IF t = "event" /\ stage[t] = "woken" THEN next ELSE pc
  /\ UNCHANGED <<last, uuid, notify, ring, half, msg, k, changed, next, sending, connected, gtk,
                 hist, sent, edits, unplugs>>

(* jfst_sysex_rt_send writes what is wanted, if it gets the lock, and      *)
(* wakes one of those that wait.                                           *)
RtSend ==
  /\ connected /\ half = <<>>
  /\ want # "NONE" /\ lock = "free"
  /\ want' = "NONE"
  /\ \/ (\A t \in Both : stage[t] # "asleep") /\ UNCHANGED stage
     \/ \E t \in Both : stage[t] = "asleep" /\ Move(t, "woken")
  /\ IF want = "DUMP" THEN view' = dump /\ adrift' = (dump # last)
                      ELSE UNCHANGED <<view, adrift>>
  /\ UNCHANGED <<host, dump, last, uuid, notify, ring, half, event, lock, n, connected,
                 gtk, pure, sent, edits, unplugs>>

-----------------------------------------------------------------------------
(* The timer calls jfst_idle.                                              *)
Idle ==
  /\ pc = "home" /\ pc' = "input"
  /\ UNCHANGED <<host, dump, last, uuid, notify, ring, half, msg, k, changed, next, sending, hand,
                 connected, gtk, hist, sent, edits, unplugs>>

(* jfst_sysex_handler: while there is anything to read, a size and then the *)
(* message.  If the message is not there yet the buffer is what was on the  *)
(* stack, and the message will be taken for a size.                         *)
ReadSize ==
  /\ pc = "input"
  /\ IF ring = <<>> THEN pc' = "graph" /\ UNCHANGED ring
                    ELSE pc' = "message" /\ ring' = Tail(ring)
  /\ UNCHANGED <<host, dump, last, uuid, notify, half, msg, k, changed, next, sending, hand,
                 connected, gtk, hist, sent, edits, unplugs>>

ReadMessage ==
  /\ pc = "message"
  /\ IF ring = <<>> THEN pc' = "undefined" /\ UNCHANGED <<ring, msg>>
                    ELSE pc' = "parse" /\ msg' = Head(ring) /\ ring' = Tail(ring)
  /\ UNCHANGED <<host, dump, last, uuid, notify, half, k, changed, next, sending, hand,
                 connected, gtk, hist, sent, edits, unplugs>>

(* jfst_parse_sysex_input.  Version 1; all but an offer must be for this id.*)
ToUs(m) == m[1] \in {"OFFER", "IDENT"} \/ m[2] = uuid

(* Mutants of Sync and of Copy.                                            *)
SyncOnly(after) == pc' = "sync" /\ k' = 1 /\ next' = "input"
CopyLate(s) == dump' = dump

Sync(after) == pc' = "sync" /\ k' = 1 /\ next' = after

Copy(s) == dump' = s

ParseDump ==
  /\ msg[1] = "DUMP"
  /\ Copy(msg[3]) /\ Sync("done")
  /\ pure' = TRUE
  /\ UNCHANGED <<host, uuid, sending, stage>>

ParseRequest ==
  /\ msg[1] = "RQST"
  /\ Send("DUMP", "listener")
  /\ UNCHANGED <<host, dump, uuid, k, pure>>

(* An id is taken once, and if the random number is ours.                   *)
ParseOffer ==
  /\ msg[1] = "OFFER"
  /\ IF uuid = AutoId /\ msg[3]
     THEN uuid' = msg[2] /\ Send("REPLY", "input")
     ELSE pc' = "input" /\ UNCHANGED <<uuid, next, sending, stage>>
  /\ UNCHANGED <<host, dump, k, pure>>

(* jfst_load_state reads the state file, if there is one: all but the       *)
(* bypass, and an id; then the settings of the dump are put in force.       *)
ParseReload ==
  /\ msg[1] = "RELOAD"
  /\ \/ UNCHANGED <<host, uuid>>
     \/ /\ \E s \in Settings : host' = [s EXCEPT ![1] = host[1]]
        /\ uuid' \in {AutoId, OwnId}
  /\ Sync("input")
  /\ UNCHANGED <<dump, sending, stage, pure>>

ParseIdent ==
  /\ msg[1] = "IDENT"
  /\ Send("REPLY", "input")
  /\ UNCHANGED <<host, dump, uuid, k, pure>>

Ignore ==
  /\ pc' = "input"
  /\ UNCHANGED <<host, uuid, dump, sending, stage, k, next, pure>>

Parse ==
  /\ pc = "parse"
  /\ IF ToUs(msg) THEN ParseDump \/ ParseRequest \/ ParseOffer \/ ParseReload \/ ParseIdent
                  ELSE Ignore
  /\ UNCHANGED <<last, notify, ring, half, msg, changed, want, lock, n, connected, gtk, view,
                 adrift, sent, edits, unplugs>>

(* jfst_sync2sysex: bypass, program, channel and volume one after the other,*)
(* each as sysex_dump has it by then.                                       *)
SyncOne ==
  /\ pc = "sync"
  /\ host' = [host EXCEPT ![k] = dump[k]]
  /\ IF k = Fields THEN k' = 1 /\ pc' = next ELSE k' = k + 1 /\ UNCHANGED pc
  /\ UNCHANGED <<dump, last, uuid, notify, ring, half, msg, changed, next, sending, hand,
                 connected, gtk, hist, sent, edits, unplugs>>

Done ==
  /\ pc = "done"
  /\ Send("DONE", "input")
  /\ UNCHANGED <<host, dump, last, uuid, notify, ring, half, msg, k, changed, want, lock, n,
                 connected, gtk, hist, sent, edits, unplugs>>

(* "If we got DumpRequest then it mean FHControl is here and we wanna       *)
(* notify"                                                                  *)
Listener ==
  /\ pc = "listener"
  /\ notify' = TRUE
  /\ pc' = "input"
  /\ UNCHANGED <<host, dump, last, uuid, ring, half, msg, k, changed, next, sending, hand,
                 connected, gtk, hist, sent, edits, unplugs>>

-----------------------------------------------------------------------------
(* The rest of jfst_idle.  EVENT_GRAPH: a control application there is gets *)
(* connected and a REPLY.                                                   *)
Graph ==
  /\ pc = "graph"
  /\ \/ /\ ~connected /\ connected' = TRUE
        /\ pc' = "send" /\ next' = "compare" /\ sending' = "REPLY" /\ Move("event", "lock")
     \/ pc' = "compare" /\ UNCHANGED <<connected, next, sending, stage>>
  /\ UNCHANGED <<host, dump, last, uuid, notify, ring, half, msg, k, changed, want, lock, n,
                 gtk, hist, sent, edits, unplugs>>

(* jfst_sysex_notify: somebody must want to know, and there must be an id.  *)
NotifiesNobody == notify /\ uuid = AutoId

Notifies == notify /\ uuid # AutoId

Heard == notify /\ uuid # AutoId /\ connected

(* jfst_detect_changes goes through the settings, compares each and stores  *)
(* what is there a moment later.                                            *)
Detected(c) ==
  IF k = Fields THEN /\ k' = 1 /\ changed' = FALSE
                     /\ pc' = IF c /\ Notifies THEN "notify" ELSE "home"
                ELSE k' = k + 1 /\ changed' = c /\ pc' = "compare"

Compare ==
  /\ pc = "compare"
  /\ IF host[k] # last[k] THEN pc' = "store" /\ UNCHANGED <<k, changed>>
                          ELSE Detected(changed)
  /\ UNCHANGED <<host, dump, last, uuid, notify, ring, half, msg, next, sending, hand,
                 connected, gtk, hist, sent, edits, unplugs>>

Store ==
  /\ pc = "store"
  /\ last' = [last EXCEPT ![k] = host[k]]
  /\ Detected(TRUE)
  /\ adrift' = (adrift \/ ~Heard)
  /\ UNCHANGED <<host, dump, uuid, notify, ring, half, msg, next, sending, hand, connected, gtk,
                 view, pure, sent, edits, unplugs>>

Notify ==
  /\ pc = "notify"
  /\ Send("DUMP", "home")
  /\ adrift' = (adrift \/ ~connected)
  /\ UNCHANGED <<host, dump, last, uuid, notify, ring, half, msg, k, changed, want, lock, n,
                 connected, gtk, view, pure, sent, edits, unplugs>>

-----------------------------------------------------------------------------
(* Anybody else changes a setting.                                          *)
Change ==
  /\ edits < MaxEdits /\ edits' = edits + 1
  /\ \E f \in 1 .. Fields : \E v \in Values \ {host[f]} : host' = [host EXCEPT ![f] = v]
  /\ pure' = FALSE
  /\ UNCHANGED <<dump, last, uuid, notify, ring, half, event, hand, connected,
                 gtk, view, adrift, sent, unplugs>>

(* Somebody else connects the ports.                                        *)
Plug ==
  /\ ~connected /\ connected' = TRUE
  /\ UNCHANGED <<host, dump, last, uuid, notify, ring, half, event, hand,
                 gtk, hist, sent, edits, unplugs>>

Unplug ==
  /\ connected /\ connected' = FALSE
  /\ unplugs < MaxUnplugs /\ unplugs' = unplugs + 1
  /\ UNCHANGED <<host, dump, last, uuid, notify, ring, half, event, hand,
                 gtk, hist, sent, edits>>

EventStep == \/ Idle \/ ReadSize \/ ReadMessage \/ Parse \/ SyncOne \/ Done \/ Listener
             \/ Graph \/ Compare \/ Store \/ Notify \/ Sender("event")

RtStep == WriteMessage \/ RtSend

Next == \/ EventStep \/ Sender("main") \/ RtStep
        \/ Receive \/ GtkSend \/ Change \/ Plug \/ Unplug

Spec == /\ Init /\ [][Next]_vars
        /\ WF_vars(EventStep) /\ WF_vars(Sender("main")) /\ WF_vars(RtStep)

-----------------------------------------------------------------------------
Stages == {"out", "lock", "fill", "name", "channel", "restore", "want", "asleep", "woken"}

(* Every variable keeps its type.                                           *)
TypeOK ==
  /\ host \in Settings /\ dump \in Settings /\ last \in Settings
  /\ view \in Settings \cup {Unknown}
  /\ k \in 1 .. Fields /\ n \in 1 .. Fields /\ changed \in BOOLEAN
  /\ uuid \in {AutoId, OwnId}
  /\ lock \in Both \cup {"free"} /\ stage \in [Both -> Stages]
  /\ stage["event"] # "out" <=> pc = "send"

(* Sizes and messages alternate in the ring, the event thread takes the one *)
(* for which it asks, and a message is missing only while it is written -   *)
(* whatever is lost for want of room - up to the moment the event thread    *)
(* comes between the two writes of jfst_queue_sysex.  (With the types.)     *)
FramesAligned ==
  /\ TypeOK
  /\ LET asked == IF pc = "message" THEN 1 ELSE 0
     IN pc # "undefined" =>
          /\ \A i \in DOMAIN ring : ring[i] = Size <=> (i + asked) % 2 = 1
          /\ half # <<>> <=> (Len(ring) + asked) % 2 = 1

(* When DONE is sent, what the controller's DUMP said is in force, if       *)
(* nobody has changed a setting since and the main thread sends no dumps    *)
(* (which fill the very record that jfst_sync2sysex reads).                 *)
DumpObeyed == pc = "done" /\ pure /\ ~gtk => host = msg[3]

(* The same with dumps of the main thread; it does not hold.                *)
DumpObeyedAnyway == pc = "done" /\ pure => host = msg[3]

(* What filling in a dump should be and is not: nothing that changes a      *)
(* setting.  A channel that somebody sets between the two lines that read   *)
(* and write it is lost.                                                    *)
DumpsOnlyRead == [][\A t \in Both : Sender(t) => host' = host]_vars

(* The main thread has the lock and asks the event thread for the program's *)
(* name, and the event thread is in jfst_send_sysex: they wait for each     *)
(* other for ever.                                                          *)
Embraced == stage["main"] = "name" /\ pc = "send"

(* Every message to this host is answered - a DUMP when it has been put in  *)
(* force - while the controller stays connected, if the main thread's dump  *)
(* does not meet the event thread's message.                                *)
Answered ==
  \A qa \in {<<"DUMP", "DONE">>, <<"RQST", "DUMP">>, <<"IDENT", "REPLY">>} :
    pc = "parse" /\ msg[1] = qa[1] /\ ToUs(msg) ~> want = qa[2] \/ ~connected \/ Embraced

(* When all is quiet, a controller that asked to be notified, has given the *)
(* host an id and is connected has been sent the settings in force,         *)
(* whichever way they came about: unless they changed between storing and   *)
(* sending and back again before they were looked at, or while nobody was   *)
(* there to be told.                                                        *)
ControllerCatchesUp ==
  <>[](notify /\ uuid # AutoId /\ connected /\ ~gtk /\ pc # "undefined"
       => view = host \/ adrift)
=============================================================================
