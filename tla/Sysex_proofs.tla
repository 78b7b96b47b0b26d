---------------------------- MODULE Sysex_proofs ----------------------------
(***************************************************************************)
(* SysEx, out and in.                                                      *)
(*                                                                         *)
(* Part 1, SysexSend: with one thread that sends, the hand-over of         *)
(* jfst/sysex.c delivers each message exactly as its comment says.         *)
(*                                                                         *)
(* Part 2, SysexIn: the ring of SysEx messages keeps step and a DUMP is    *)
(* obeyed, for any number of settings and values, size of the ring,        *)
(* messages, changes and interruptions of the connection.                  *)
(***************************************************************************)
EXTENDS SysexSend, SysexIn, TLAPS

USE DEF Threads, SysExType

LEMMA SendInitIInv == ASSUME NEW u, SoleSender(u), SendInit PROVE SendIInv(u)
BY UnplugsAssumption DEF SoleSender, SendInit, SendIInv, SendTypeOK, HandShakeInv, Labels

LEMMA SendStepIInv == ASSUME NEW u, SoleSender(u), SendIInv(u), [SendNext]_sendVars PROVE SendIInv(u)'
<1>. USE UnplugsAssumption DEF SoleSender, SendIInv, SendTypeOK, HandShakeInv, Labels, GoTo, port
<1>1. CASE Connect
  BY <1>1 DEF Connect
<1>2. CASE Disconnect
  <2>1. unplugged' \in 0 .. MaxDisconnects
    BY <1>2 DEF Disconnect
  <2>2. plugged' \in BOOLEAN /\ UNCHANGED <<sysex_want, sxLock, at, type, owner, written>>
    BY <1>2 DEF Disconnect
  <2>. QED BY <2>1, <2>2
<1>3. CASE \E t \in Threads : \E kind \in SysExType : Begin(t, kind)
  BY <1>3 DEF Begin
<1>4. CASE \E t \in Threads : Lock(t)
  BY <1>4 DEF Lock
<1>5. CASE \E t \in Threads : GetProgramName(t)
  BY <1>5 DEF GetProgramName
<1>6. CASE \E t \in Threads : SetWant(t)
  BY <1>6 DEF SetWant
<1>7. CASE \E t \in Threads : Return(t)
  BY <1>7 DEF Return
<1>8. CASE RtSendSysex
  BY <1>8 DEF RtSendSysex, Waiters
<1>9. CASE UNCHANGED sendVars
  BY <1>9 DEF sendVars
<1>. QED
  BY <1>1, <1>2, <1>3, <1>4, <1>5, <1>6, <1>7, <1>8, <1>9 DEF SendNext, SendStep

(* The inductive invariant holds when one thread sends.                    *)
THEOREM SendInvariant == ASSUME NEW u, SoleSender(u) PROVE SendSpec => []SendIInv(u)
<1>1. SendInit => SendIInv(u)
  BY SendInitIInv
<1>2. SendIInv(u) /\ [SendNext]_sendVars => SendIInv(u)'
  BY SendStepIInv
<1>. QED BY <1>1, <1>2, PTL DEF SendSpec

(* jfst_send_sysex returns only after the process thread wrote its message. *)
THEOREM SendWaits == ASSUME NEW u, SoleSender(u) PROVE SendSpec => []SentBeforeReturn
<1>1. SendIInv(u) => SentBeforeReturn
  BY DEF SendIInv, HandShakeInv, SentBeforeReturn
<1>. QED BY <1>1, SendInvariant, PTL

(* sysex_want is not overwritten before the process thread has served it.  *)
THEOREM WantServed == ASSUME NEW u, SoleSender(u) PROVE SendSpec => NothingReplaced
<1>1. SendIInv(u) /\ [SendNext]_sendVars => [sysex_want # "NONE" => sysex_want' = sysex_want \/ written'[owner]]_sendVars
  <2>. SUFFICES ASSUME SendIInv(u), SendNext, sysex_want # "NONE" PROVE sysex_want' = sysex_want \/ written'[owner]
    OBVIOUS
  <2>1. CASE \E t \in Threads : SetWant(t)
    BY <2>1 DEF SetWant, SendIInv, HandShakeInv, SoleSender
  <2>2. CASE RtSendSysex
    <3>1. owner = u /\ u \in Threads /\ written \in [Threads -> BOOLEAN]
      BY DEF SendIInv, HandShakeInv, SendTypeOK, SoleSender
    <3>2. written' = [written EXCEPT ![owner] = TRUE]
      BY <2>2 DEF RtSendSysex
    <3>3. written'[owner] = TRUE
      BY <3>1, <3>2
    <3>. QED BY <3>3
  <2>3. CASE Connect \/ Disconnect
    BY <2>3 DEF Connect, Disconnect
  <2>4. CASE \E t \in Threads : Lock(t) \/ GetProgramName(t) \/ Return(t)
                                  \/ \E kind \in SysExType : Begin(t, kind)
    BY <2>4 DEF Lock, GetProgramName, Return, Begin
  <2>. QED BY <2>1, <2>2, <2>3, <2>4 DEF SendNext, SendStep
<1>. QED BY <1>1, SendInvariant, PTL DEF SendSpec, NothingReplaced

-----------------------------------------------------------------------------
(* Part 2: SysexIn.                                                        *)

Places == {"home", "input", "message", "parse", "sync", "done", "listener", "send", "graph",
           "compare", "store", "notify", "undefined"}

(* What the controller may send in any state.                              *)
Message ==
  {<<"DUMP", i, s>> : i \in {OwnId, OtherId}, s \in Settings}
  \cup {<<"RQST", OwnId>>, <<"RELOAD", OwnId>>}
  \cup {<<"OFFER", OwnId, mine>> : mine \in BOOLEAN}
  \cup {<<"IDENT">>}

Types == TypeOK /\ pc \in Places /\ half \in Message \cup {<<>>}
         /\ ring \in Seq(Message \cup {Size})

Asked == IF pc = "message" THEN 1 ELSE 0

(* What FramesAligned says of the ring.                                    *)
Aligned ==
  pc # "undefined" =>
    /\ \A i \in DOMAIN ring : ring[i] = Size <=> (i + Asked) % 2 = 1
    /\ half # <<>> <=> (Len(ring) + Asked) % 2 = 1

(* Where the event thread stands it has a message; only jfst_sync2sysex    *)
(* goes on to DONE.                                                        *)
Reading ==
  /\ pc = "parse" => msg \in Message
  /\ pc = "send" => next \in {"home", "input", "listener", "compare"}
  /\ pc = "sync" => next \in {"input", "done"}

(* How much of the DUMP is in force while it is put in force, where the     *)
(* main thread sends none.                                                 *)
Obeying ==
  pure /\ ~gtk =>
    /\ pc = "sync" /\ next = "done" =>
         dump = msg[3] /\ \A f \in 1 .. Fields : f < k => host[f] = dump[f]
    /\ pc = "done" => host = msg[3]

MainSilent == ~gtk => stage["main"] = "out"

IInv == Types /\ Aligned /\ Reading /\ Obeying /\ MainSilent

-----------------------------------------------------------------------------
LEMMA MessageIs ==
  ASSUME NEW m \in Message
  PROVE  /\ m # <<>> /\ m # Size
         /\ m[1] = "DUMP" => m[3] \in Settings
         /\ m[1] = "OFFER" => m[2] = OwnId
BY DEF Message, Size

LEMMA MessagesAre ==
  ASSUME host \in Settings
  PROVE  Messages \subseteq Message
BY DEF Messages, Message

LEMMA InitHolds ==
  ASSUME Init
  PROVE  IInv
<1>1. Fields \in Nat /\ Fields > 0 /\ 0 \in Values
  BY SysexInAssumption
<1>2. host \in Settings
  BY <1>1 DEF Init, Settings
<1>3. TypeOK /\ MainSilent
  <2>1. /\ stage = [t \in Both |-> "out"] /\ stage["event"] = "out" /\ stage["main"] = "out"
        /\ "out" \in Stages
    BY DEF Init, Both, Stages
  <2>2. /\ host \in Settings /\ dump = host /\ last = host /\ view = Unknown /\ lock = "free"
        /\ k = 1 /\ n = 1 /\ changed \in BOOLEAN /\ uuid \in {AutoId, OwnId} /\ pc # "send"
    BY <1>2 DEF Init
  <2>. QED BY <1>1, <2>1, <2>2 DEF TypeOK, MainSilent
<1>4. /\ pc = "home" /\ ring = <<>> /\ half = <<>> /\ ~pure
      /\ ring \in Seq(Message \cup {Size}) /\ Len(ring) = 0 /\ DOMAIN ring = {}
  BY DEF Init
<1>. QED BY <1>3, <1>4 DEF IInv, Types, Places, Aligned, Asked, Reading, Obeying

(* A step that leaves all of it alone.                                     *)
LEMMA IInvStays ==
  ASSUME IInv, UNCHANGED <<host, dump, last, uuid, ring, half, pc, msg, k, changed, next, lock,
                           stage, n, gtk, view, pure>>
  PROVE  IInv'
<1>1. Types'
  BY DEF IInv, Types, TypeOK
<1>2. Aligned' /\ Reading'
  BY DEF IInv, Aligned, Asked, Reading
<1>3. Obeying' /\ MainSilent'
  BY DEF IInv, Obeying, MainSilent
<1>. QED BY <1>1, <1>2, <1>3 DEF IInv

(* A step that leaves the ring and the reader's place in it alone.         *)
LEMMA AlignedStays ==
  ASSUME Aligned, UNCHANGED <<ring, half>>, pc # "undefined",
         pc = "message" <=> pc' = "message"
  PROVE  Aligned'
BY DEF Aligned, Asked

-----------------------------------------------------------------------------
(* The process thread writes into the ring.                                *)

LEMMA ReceiveStep ==
  ASSUME IInv, Receive
  PROVE  IInv'
<1>1. /\ half = <<>>
      /\ UNCHANGED <<host, dump, last, uuid, notify, pc, msg, k, changed, next,
                     lock, stage, n, connected, gtk, view, adrift, pure>>
  BY DEF Receive, event, hand, hist
<1>2. PICK m \in Messages : IF Room THEN Queue(m) ELSE NoRoom
  BY DEF Receive
<1>3. m \in Message
  BY <1>2, MessagesAre DEF IInv, Types, TypeOK
<1>4. CASE UNCHANGED <<ring, half>>
  BY <1>1, <1>4, IInvStays
<1>5. CASE ring' = Append(ring, Size) /\ half' = m
  <2>1. ring \in Seq(Message \cup {Size}) /\ Len(ring) \in Nat
    BY DEF IInv, Types
  <2>2. /\ ring' \in Seq(Message \cup {Size}) /\ Len(ring') = Len(ring) + 1
        /\ DOMAIN ring = 1 .. Len(ring) /\ DOMAIN ring' = 1 .. Len(ring) + 1
        /\ \A i \in 1 .. Len(ring) : ring'[i] = ring[i]
        /\ ring'[Len(ring) + 1] = Size
    BY <1>5, <2>1
  <2>3. Types'
    BY <1>1, <1>3, <1>5, <2>2 DEF IInv, Types, TypeOK
  <2>4. Aligned'
    <3>. SUFFICES ASSUME pc # "undefined" PROVE Aligned'
      BY <1>1 DEF Aligned
    <3>1. Asked \in {0, 1} /\ Asked' = Asked
      BY <1>1 DEF Asked
    <3>2. (Len(ring) + Asked) % 2 = 0
      BY <1>1, <2>1, <3>1 DEF IInv, Aligned
    <3>3. (Len(ring) + 1 + Asked) % 2 = 1
      BY <2>1, <3>1, <3>2
    <3>4. half' # <<>>
      BY <1>3, <1>5, MessageIs
    <3>5. ASSUME NEW i \in DOMAIN ring' PROVE ring'[i] = Size <=> (i + Asked) % 2 = 1
      <4>1. CASE i = Len(ring) + 1
        BY <2>2, <3>3, <4>1
      <4>2. CASE i \in DOMAIN ring
        BY <2>2, <4>2 DEF IInv, Aligned
      <4>. QED BY <2>1, <2>2, <4>1, <4>2
    <3>. HIDE DEF Asked
    <3>. QED BY <1>1, <2>2, <3>1, <3>3, <3>4, <3>5 DEF Aligned
  <2>5. Reading' /\ Obeying' /\ MainSilent'
    BY <1>1 DEF IInv, Reading, Obeying, MainSilent
  <2>. QED BY <2>3, <2>4, <2>5 DEF IInv
<1>. QED BY <1>2, <1>4, <1>5 DEF Queue, NoRoom

LEMMA WriteMessageStep ==
  ASSUME IInv, WriteMessage
  PROVE  IInv'
<1>1. /\ half # <<>> /\ half' = <<>> /\ ring' = Append(ring, half)
      /\ UNCHANGED <<host, dump, last, uuid, notify, pc, msg, k, changed, next,
                     lock, stage, n, connected, gtk, view, adrift, pure>>
  BY DEF WriteMessage, event, hand, hist
<1>2. ring \in Seq(Message \cup {Size}) /\ Len(ring) \in Nat /\ half \in Message
  BY <1>1 DEF IInv, Types
<1>3. /\ ring' \in Seq(Message \cup {Size}) /\ Len(ring') = Len(ring) + 1
      /\ DOMAIN ring = 1 .. Len(ring) /\ DOMAIN ring' = 1 .. Len(ring) + 1
      /\ \A i \in 1 .. Len(ring) : ring'[i] = ring[i]
      /\ ring'[Len(ring) + 1] = half /\ half # Size
  BY <1>1, <1>2, MessageIs
<1>4. Types'
  BY <1>1, <1>3 DEF IInv, Types, TypeOK
<1>5. Aligned'
  <2>. SUFFICES ASSUME pc # "undefined" PROVE Aligned'
    BY <1>1 DEF Aligned
  <2>1. Asked \in {0, 1} /\ Asked' = Asked
    BY <1>1 DEF Asked
  <2>2. (Len(ring) + Asked) % 2 = 1
    BY <1>1, <1>2, <2>1 DEF IInv, Aligned
  <2>3. (Len(ring) + 1 + Asked) % 2 = 0
    BY <1>2, <2>1, <2>2
  <2>4. ASSUME NEW i \in DOMAIN ring' PROVE ring'[i] = Size <=> (i + Asked) % 2 = 1
    <3>1. CASE i = Len(ring) + 1
      BY <1>3, <2>3, <3>1
    <3>2. CASE i \in DOMAIN ring
      BY <1>3, <3>2 DEF IInv, Aligned
    <3>. QED BY <1>2, <1>3, <3>1, <3>2
  <2>. HIDE DEF Asked
  <2>. QED BY <1>1, <1>3, <2>1, <2>3, <2>4 DEF Aligned
<1>6. Reading' /\ Obeying' /\ MainSilent'
  BY <1>1 DEF IInv, Reading, Obeying, MainSilent
<1>. QED BY <1>4, <1>5, <1>6 DEF IInv

(* The event thread reads a size, and then a message.                      *)
LEMMA TailOf ==
  ASSUME IInv, ring # <<>>, ring' = Tail(ring)
  PROVE  /\ ring' \in Seq(Message \cup {Size}) /\ Len(ring') = Len(ring) - 1
         /\ DOMAIN ring' = 1 .. Len(ring) - 1 /\ Len(ring) \in Nat /\ Len(ring) >= 1
         /\ \A i \in DOMAIN ring' : i + 1 \in DOMAIN ring /\ ring'[i] = ring[i + 1]
<1>1. ring \in Seq(Message \cup {Size}) /\ Len(ring) \in Nat
  BY DEF IInv, Types
<1>. QED BY <1>1

LEMMA ReadSizeStep ==
  ASSUME IInv, ReadSize
  PROVE  IInv'
<1>1. /\ pc = "input"
      /\ UNCHANGED <<host, dump, last, uuid, notify, half, msg, k, changed, next,
                     lock, stage, n, connected, gtk, view, adrift, pure>>
  BY DEF ReadSize, hand, hist
<1>2. CASE pc' = "graph" /\ ring' = ring
  BY <1>1, <1>2 DEF IInv, Types, TypeOK, Places, Aligned, Asked, Reading, Obeying, MainSilent
<1>3. CASE ring # <<>> /\ pc' = "message" /\ ring' = Tail(ring)
  <2>1. Types'
    BY <1>1, <1>3, TailOf DEF IInv, Types, TypeOK, Places
  <2>2. ASSUME NEW i \in DOMAIN ring' PROVE ring'[i] = Size <=> (i + 1) % 2 = 1
    <3>1. i + 1 \in DOMAIN ring /\ ring'[i] = ring[i + 1]
      BY <1>3, TailOf
    <3>2. ring[i + 1] = Size <=> (i + 1 + 0) % 2 = 1
      BY <1>1, <3>1 DEF IInv, Aligned, Asked
    <3>. QED BY <1>3, <3>1, <3>2, TailOf
  <2>3. half # <<>> <=> (Len(ring') + 1) % 2 = 1
    <3>1. half # <<>> <=> (Len(ring) + 0) % 2 = 1
      BY <1>1 DEF IInv, Aligned, Asked
    <3>. QED BY <1>3, <3>1, TailOf
  <2>. QED BY <1>1, <1>3, <2>1, <2>2, <2>3 DEF IInv, Aligned, Asked, Reading, Obeying, MainSilent
<1>. QED BY <1>2, <1>3 DEF ReadSize

LEMMA ReadMessageStep ==
  ASSUME IInv, ReadMessage
  PROVE  IInv'
<1>1. /\ pc = "message"
      /\ UNCHANGED <<host, dump, last, uuid, notify, half, k, changed, next,
                     lock, stage, n, connected, gtk, view, adrift, pure>>
  BY DEF ReadMessage, hand, hist
<1>2. CASE pc' = "undefined" /\ UNCHANGED <<ring, msg>>
  BY <1>1, <1>2 DEF IInv, Types, TypeOK, Places, Aligned, Reading, Obeying, MainSilent
<1>3. CASE ring # <<>> /\ pc' = "parse" /\ msg' = Head(ring) /\ ring' = Tail(ring)
  <2>1. Types'
    BY <1>1, <1>3, TailOf DEF IInv, Types, TypeOK, Places
  <2>2. ASSUME NEW i \in DOMAIN ring' PROVE ring'[i] = Size <=> (i + 0) % 2 = 1
    <3>1. i + 1 \in DOMAIN ring /\ ring'[i] = ring[i + 1] /\ i \in Int
      BY <1>3, TailOf
    <3>2. ring[i + 1] = Size <=> (i + 1 + 1) % 2 = 1
      BY <1>1, <3>1 DEF IInv, Aligned, Asked
    <3>. QED BY <1>3, <3>1, <3>2, TailOf
  <2>3. half # <<>> <=> (Len(ring') + 0) % 2 = 1
    <3>1. half # <<>> <=> (Len(ring) + 1) % 2 = 1
      BY <1>1 DEF IInv, Aligned, Asked
    <3>. QED BY <1>3, <3>1, TailOf
  <2>4. msg' \in Message
    <3>1. ring \in Seq(Message \cup {Size}) /\ 1 \in DOMAIN ring /\ msg' = ring[1]
      BY <1>3 DEF IInv, Types
    <3>2. ring[1] = Size <=> (1 + 1) % 2 = 1
      BY <1>1, <3>1 DEF IInv, Aligned, Asked
    <3>. QED BY <3>1, <3>2
  <2>. QED BY <1>1, <1>3, <2>1, <2>2, <2>3, <2>4
           DEF IInv, Aligned, Asked, Reading, Obeying, MainSilent
<1>. QED BY <1>2, <1>3 DEF ReadMessage

-----------------------------------------------------------------------------
(* What the event thread may do to the hand-over: begin to send.           *)
EventMoves ==
  /\ stage' \in [Both -> Stages] /\ stage'["main"] = stage["main"]
  /\ stage'["event"] # "out" <=> pc' = "send"

LEMMA NotSending ==
  ASSUME TypeOK, pc # "send", pc' # "send", UNCHANGED stage
  PROVE  EventMoves
BY DEF TypeOK, EventMoves

LEMMA BeginsToSend ==
  ASSUME TypeOK, pc' = "send", Move("event", "lock")
  PROVE  EventMoves
BY DEF TypeOK, EventMoves, Move, Both, Stages

(* Sending goes on after it, now or when it has been woken.                *)
LEMMA SendKeeps ==
  ASSUME NEW what, NEW after \in {"home", "input", "listener", "compare"}, Send(what, after),
         TypeOK, pc # "send"
  PROVE  (pc' = after \/ (pc' = "send" /\ next' = after)) /\ EventMoves
<1>1. CASE connected
  BY <1>1, BeginsToSend DEF Send
<1>2. CASE ~connected
  <2>1. pc' = after /\ UNCHANGED stage
    BY <1>2 DEF Send
  <2>. QED BY <2>1, NotSending
<1>. QED BY <1>1, <1>2

(* Steps of the event thread between two messages.                         *)
LEMMA EventKeeps ==
  ASSUME IInv, pc \notin {"message", "undefined", "send"},
         pc' \in {"home", "input", "listener", "send", "graph", "compare", "store", "notify"},
         pc' = "send" => next' \in {"home", "input", "listener", "compare"},
         host' \in Settings, dump' \in Settings, last' \in Settings,
         k' \in 1 .. Fields, changed' \in BOOLEAN, uuid' \in {AutoId, OwnId}, EventMoves,
         UNCHANGED <<ring, half, lock, n, view, gtk>>
  PROVE  IInv'
<1>1. Types'
  BY DEF IInv, Types, TypeOK, Places, EventMoves
<1>2. Aligned'
  BY DEF IInv, Aligned, Asked
<1>3. Reading' /\ Obeying' /\ MainSilent'
  BY DEF IInv, Reading, Obeying, MainSilent, EventMoves
<1>. QED BY <1>1, <1>2, <1>3 DEF IInv

LEMMA ParseStep ==
  ASSUME IInv, Parse
  PROVE  IInv'
<1>1. /\ pc = "parse"
      /\ UNCHANGED <<last, notify, ring, half, msg, changed, lock, n, connected, gtk, view,
                     adrift>>
  BY DEF Parse
<1>2. /\ msg \in Message /\ TypeOK /\ host \in Settings /\ dump \in Settings
      /\ last \in Settings /\ uuid \in {AutoId, OwnId} /\ k \in 1 .. Fields
      /\ changed \in BOOLEAN /\ Fields \in Nat /\ Fields > 0 /\ 1 \in 1 .. Fields
  BY <1>1, SysexInAssumption DEF IInv, Types, TypeOK, Reading
<1>3. CASE ParseDump
  <2>1. /\ dump' = msg[3] /\ msg[3] \in Settings
        /\ pc' = "sync" /\ k' = 1 /\ next' = "done"
        /\ UNCHANGED <<host, uuid, stage>>
    BY <1>2, <1>3, MessageIs DEF ParseDump, Copy, Sync
  <2>2. Types'
    BY <1>1, <1>2, <2>1 DEF IInv, Types, TypeOK, Places
  <2>3. Aligned'
    BY <1>1, <2>1 DEF IInv, Aligned, Asked
  <2>4. Obeying'
    <3>1. \A f \in 1 .. Fields : ~(f < 1)
      BY <1>2
    <3>. QED BY <1>1, <2>1, <3>1 DEF Obeying
  <2>5. Reading' /\ MainSilent'
    BY <1>1, <2>1 DEF IInv, Reading, MainSilent
  <2>. QED BY <2>2, <2>3, <2>4, <2>5 DEF IInv
<1>4. CASE ParseReload
  <2>1. /\ pc' = "sync" /\ k' = 1 /\ next' = "input"
        /\ uuid' \in {AutoId, OwnId} /\ UNCHANGED <<dump, stage, pure>>
    BY <1>2, <1>4 DEF ParseReload, Sync
  <2>2. host' \in Settings
    <3>1. ASSUME NEW s \in Settings PROVE [s EXCEPT ![1] = host[1]] \in Settings
      BY <1>2 DEF Settings
    <3>. QED BY <1>2, <1>4, <3>1 DEF ParseReload
  <2>3. Types'
    BY <1>1, <1>2, <2>1, <2>2 DEF IInv, Types, TypeOK, Places
  <2>4. Aligned'
    BY <1>1, <2>1 DEF IInv, Aligned, Asked
  <2>5. Reading' /\ Obeying' /\ MainSilent'
    BY <1>1, <2>1 DEF IInv, Reading, Obeying, MainSilent
  <2>. QED BY <2>3, <2>4, <2>5 DEF IInv
<1>5. CASE ParseRequest
  <2>1. Send("DUMP", "listener") /\ UNCHANGED <<host, dump, uuid, k, pure>>
    BY <1>5 DEF ParseRequest
  <2>. QED BY <1>1, <1>2, <2>1, SendKeeps, EventKeeps
<1>6. CASE ParseIdent
  <2>1. Send("REPLY", "input") /\ UNCHANGED <<host, dump, uuid, k, pure>>
    BY <1>6 DEF ParseIdent
  <2>. QED BY <1>1, <1>2, <2>1, SendKeeps, EventKeeps
<1>7. CASE ParseOffer
  <2>1. msg[2] = OwnId /\ UNCHANGED <<host, dump, k, pure>>
    BY <1>2, <1>7, MessageIs DEF ParseOffer
  <2>2. CASE uuid' = msg[2] /\ Send("REPLY", "input")
    BY <1>1, <1>2, <2>1, <2>2, SendKeeps, EventKeeps
  <2>3. CASE pc' = "input" /\ UNCHANGED <<uuid, stage>>
    BY <1>1, <1>2, <2>1, <2>3, NotSending, EventKeeps
  <2>. QED BY <1>7, <2>2, <2>3 DEF ParseOffer
<1>8. CASE Ignore
  <2>1. pc' = "input" /\ UNCHANGED <<host, uuid, dump, stage, k, pure>>
    BY <1>8 DEF Ignore
  <2>. QED BY <1>1, <1>2, <2>1, NotSending, EventKeeps
<1>. QED BY <1>3, <1>4, <1>5, <1>6, <1>7, <1>8 DEF Parse

(* One setting of jfst_sync2sysex.  With the last, all are in force.       *)
LEMMA SyncStep ==
  ASSUME IInv, SyncOne
  PROVE  IInv'
<1>1. /\ pc = "sync" /\ host' = [host EXCEPT ![k] = dump[k]]
      /\ UNCHANGED <<dump, last, uuid, notify, ring, half, msg, changed, next, lock, stage, n,
                     connected, gtk, view, adrift, pure>>
      /\ IF k = Fields THEN k' = 1 /\ pc' = next ELSE k' = k + 1 /\ pc' = pc
  BY DEF SyncOne, hand, hist
<1>2. /\ host \in [1 .. Fields -> Values] /\ dump \in [1 .. Fields -> Values]
      /\ Fields \in Nat /\ Fields > 0 /\ k \in 1 .. Fields
      /\ next \in {"input", "done"}
  BY <1>1, SysexInAssumption DEF IInv, Types, TypeOK, Settings, Reading
<1>3. /\ host' \in [1 .. Fields -> Values] /\ host'[k] = dump[k]
      /\ \A f \in 1 .. Fields : f # k => host'[f] = host[f]
  BY <1>1, <1>2
<1>4. Types'
  <2>1. k' \in 1 .. Fields /\ pc' \in {"sync", "input", "done"}
    BY <1>1, <1>2
  <2>2. stage'["event"] # "out" <=> pc' = "send"
    BY <1>1, <2>1 DEF IInv, Types, TypeOK
  <2>. QED BY <1>1, <1>3, <2>1, <2>2 DEF IInv, Types, TypeOK, Places, Settings
<1>5. Aligned'
  BY <1>1, <1>2 DEF IInv, Aligned, Asked
<1>6. Reading' /\ MainSilent'
  BY <1>1, <1>2 DEF IInv, Reading, MainSilent
<1>7. Obeying'
  <2>. SUFFICES ASSUME pure, ~gtk, next = "done"
                PROVE  Obeying'
    BY <1>1, <1>2 DEF Obeying
  <2>1. dump = msg[3] /\ \A f \in 1 .. Fields : f < k => host[f] = dump[f]
    BY <1>1 DEF IInv, Obeying
  <2>2. \A f \in 1 .. Fields : f <= k => host'[f] = dump[f]
    BY <1>2, <1>3, <2>1
  <2>3. CASE k = Fields
    <3>1. host' = dump
      BY <1>2, <1>3, <2>2, <2>3
    <3>. QED BY <1>1, <2>1, <2>3, <3>1 DEF Obeying
  <2>4. CASE k # Fields
    <3>1. \A f \in 1 .. Fields : f < k + 1 => host'[f] = dump[f]
      BY <1>2, <2>2
    <3>. QED BY <1>1, <2>1, <2>4, <3>1 DEF Obeying
  <2>. QED BY <2>3, <2>4
<1>. QED BY <1>4, <1>5, <1>6, <1>7 DEF IInv

(* The rest of jfst_idle.                                                  *)
LEMMA IdleSteps ==
  ASSUME IInv, Idle \/ Done \/ Listener \/ Graph \/ Compare \/ Store \/ Notify
  PROVE  IInv'
<1>1. /\ TypeOK /\ host \in Settings /\ dump \in Settings /\ last \in Settings
      /\ uuid \in {AutoId, OwnId} /\ k \in 1 .. Fields /\ changed \in BOOLEAN
      /\ Fields \in Nat /\ Fields > 0
  BY SysexInAssumption DEF IInv, Types, TypeOK
<1>2. CASE Done \/ Notify
  <2>1. /\ pc \in {"done", "notify"}
        /\ Send("DONE", "input") \/ Send("DUMP", "home")
        /\ UNCHANGED <<host, dump, last, uuid, ring, half, k, changed, lock, n, view, gtk>>
    BY <1>2 DEF Done, Notify, hist
  <2>. QED BY <1>1, <2>1, SendKeeps, EventKeeps
<1>3. CASE Graph
  <2>1. /\ pc = "graph"
        /\ UNCHANGED <<host, dump, last, uuid, ring, half, k, changed, lock, n, view, gtk>>
        /\ \/ pc' = "send" /\ next' = "compare" /\ Move("event", "lock")
           \/ pc' = "compare" /\ UNCHANGED stage
    BY <1>3 DEF Graph, hist
  <2>. QED BY <1>1, <2>1, NotSending, BeginsToSend, EventKeeps
<1>4. CASE Idle \/ Listener
  <2>1. /\ pc \in {"home", "listener"} /\ pc' = "input"
        /\ UNCHANGED <<host, dump, last, uuid, ring, half, k, changed, lock, stage, n, view, gtk>>
    BY <1>4 DEF Idle, Listener, hand, hist
  <2>. QED BY <1>1, <2>1, NotSending, EventKeeps
<1>5. CASE Compare \/ Store
  <2>1. /\ pc \in {"compare", "store"} /\ last' \in Settings
        /\ \/ pc' = "store" /\ UNCHANGED <<k, changed>>
           \/ \E c \in BOOLEAN : Detected(c)
        /\ UNCHANGED <<host, dump, uuid, ring, half, lock, stage, n, view, gtk>>
    <3>1. [last EXCEPT ![k] = host[k]] \in Settings
      BY <1>1 DEF Settings
    <3>. QED BY <1>1, <1>5, <3>1 DEF Compare, Store, hand, hist
  <2>2. ASSUME NEW c \in BOOLEAN, Detected(c)
        PROVE  /\ k' \in 1 .. Fields /\ changed' \in BOOLEAN
               /\ pc' \in {"home", "compare", "notify"}
    <3>1. CASE k = Fields
      <4>1. k' = 1 /\ changed' = FALSE /\ (pc' = "notify" \/ pc' = "home")
        BY <2>2, <3>1 DEF Detected
      <4>2. k' \in 1 .. Fields
        BY <1>1, <4>1
      <4>. QED BY <4>1, <4>2
    <3>2. CASE k # Fields
      <4>1. k' = k + 1 /\ changed' = c /\ pc' = "compare"
        BY <2>2, <3>2 DEF Detected
      <4>. QED BY <1>1, <2>2, <3>2, <4>1
    <3>. QED BY <3>1, <3>2
  <2>3. /\ k' \in 1 .. Fields /\ changed' \in BOOLEAN
        /\ pc' \in {"home", "compare", "store", "notify"}
    BY <1>1, <2>1, <2>2
  <2>. QED BY <1>1, <2>1, <2>3, NotSending, EventKeeps
<1>. QED BY <1>2, <1>3, <1>4, <1>5

(* jfst_send_sysex: each thread on its way through it.                     *)
LEMMA SenderStep ==
  ASSUME IInv, NEW t \in Both, Sender(t)
  PROVE  IInv'
<1>1. /\ UNCHANGED <<last, uuid, ring, half, msg, k, changed, next, view, gtk, pure>>
      /\ pc' = IF t = "event" /\ stage[t] = "woken" THEN next ELSE pc
  BY DEF Sender, hist
<1>2. /\ host \in [1 .. Fields -> Values] /\ dump \in [1 .. Fields -> Values]
      /\ n \in 1 .. Fields /\ Fields \in Nat /\ Fields > 0 /\ Channel \in 1 .. Fields
      /\ stage \in [Both -> Stages]
  BY SysexInAssumption DEF IInv, Types, TypeOK, Settings
<1>3. \A i \in 1 .. Fields : Field(i) \in 1 .. Fields /\ After(t, i) \in Stages \ {"out"}
  BY <1>2 DEF Field, After, Stages
<1>4. ASSUME FilledIn(t)
      PROVE  n' \in 1 .. Fields /\ \E l \in Stages \ {"out"} : Move(t, l)
  <2>1. CASE n = Fields
    <3>1. n' = 1 /\ Move(t, "want") /\ "want" \in Stages \ {"out"}
      BY <1>4, <2>1 DEF FilledIn, Stages
    <3>. QED BY <1>2, <3>1
  <2>2. CASE n # Fields
    <3>1. n' = n + 1 /\ n + 1 \in 1 .. Fields /\ Move(t, After(t, n + 1))
      BY <1>2, <1>4, <2>2 DEF FilledIn
    <3>. QED BY <1>3, <3>1
  <2>. QED BY <2>1, <2>2
<1>5. /\ stage[t] # "out" /\ n' \in 1 .. Fields /\ lock' \in {lock, t, "free"}
      /\ \E l \in Stages : Move(t, l) /\ (l = "out" <=> stage[t] = "woken")
      /\ host' \in Settings /\ dump' \in Settings
  <2>1. CASE TakeLock(t)
    BY <1>2, <1>3, <2>1 DEF TakeLock, Stages, Settings
  <2>2. CASE FillField(t)
    <3>1. [dump EXCEPT ![Field(n)] = host[Field(n)]] \in Settings
      BY <1>2, <1>3 DEF Settings
    <3>. QED BY <1>2, <1>4, <2>2, <3>1 DEF FillField, Settings
  <2>3. CASE SetChannel(t)
    <3>1. [host EXCEPT ![Channel] = dump[Channel]] \in Settings
      BY <1>2 DEF Settings
    <3>. QED BY <1>2, <1>4, <2>3, <3>1 DEF SetChannel, Settings
  <2>4. CASE FillChannel(t)
    <3>1. [dump EXCEPT ![Channel] = host[Channel]] \in Settings
      BY <1>2 DEF Settings
    <3>. QED BY <1>2, <2>4, <3>1 DEF FillChannel, Stages, Settings
  <2>5. CASE GetName(t) \/ Want(t) \/ Leave(t)
    BY <1>2, <2>5 DEF GetName, Want, Leave, Stages, Settings
  <2>. QED BY <2>1, <2>2, <2>3, <2>4, <2>5 DEF Sender
<1>6. PICK l \in Stages : Move(t, l) /\ (l = "out" <=> stage[t] = "woken")
  BY <1>5
<1>7. /\ stage' \in [Both -> Stages] /\ stage'[t] = l
      /\ \A u \in Both : u # t => stage'[u] = stage[u]
  BY <1>2, <1>6 DEF Move
<1>8. /\ pc = "send" => pc' \in {"send", "home", "input", "listener", "compare"}
      /\ pc # "send" => pc' = pc
      /\ stage'["event"] # "out" <=> pc' = "send"
      /\ gtk \/ pc = "send"
  BY <1>1, <1>5, <1>6, <1>7 DEF IInv, Types, TypeOK, Reading, MainSilent, Both
<1>9. Types'
  BY <1>1, <1>5, <1>7, <1>8 DEF IInv, Types, TypeOK, Places, Both
<1>10. Aligned'
  BY <1>1, <1>8 DEF IInv, Aligned, Asked
<1>11. Reading' /\ Obeying'
  BY <1>1, <1>8 DEF IInv, Reading, Obeying
<1>12. MainSilent'
  BY <1>1, <1>5, <1>7 DEF IInv, MainSilent, Both
<1>. QED BY <1>9, <1>10, <1>11, <1>12 DEF IInv

(* A cycle writes what is wanted and wakes one that waits.                 *)
LEMMA RtSendStep ==
  ASSUME IInv, RtSend
  PROVE  IInv'
<1>1. /\ view' \in {view, dump}
      /\ UNCHANGED <<host, dump, last, uuid, notify, ring, half, pc, msg, k, changed, next,
                     lock, n, connected, gtk, pure>>
      /\ \/ UNCHANGED stage
         \/ \E t \in Both : stage[t] = "asleep" /\ stage' = [stage EXCEPT ![t] = "woken"]
  BY DEF RtSend, Move, event
<1>2. /\ stage' \in [Both -> Stages]
      /\ \A t \in Both : stage'[t] = "out" <=> stage[t] = "out"
  BY <1>1 DEF IInv, Types, TypeOK, Stages
<1>3. Types' /\ MainSilent'
  BY <1>1, <1>2 DEF IInv, Types, TypeOK, MainSilent, Both
<1>. QED BY <1>1, <1>3 DEF IInv, Aligned, Asked, Reading, Obeying

(* GTK's button, the plugs, and everybody else who changes a setting.      *)
LEMMA OthersStep ==
  ASSUME IInv, GtkSend \/ Change \/ Plug \/ Unplug
  PROVE  IInv'
<1>1. UNCHANGED <<last, uuid, ring, half, pc, msg, k, changed, next, lock, n, gtk, view>>
  BY DEF GtkSend, Change, Plug, Unplug, event, hand, hist
<1>2. CASE GtkSend
  <2>1. gtk /\ Move("main", "lock") /\ UNCHANGED <<host, dump, pure>>
    BY <1>2 DEF GtkSend, hist
  <2>2. stage' \in [Both -> Stages] /\ stage'["event"] = stage["event"]
    BY <2>1 DEF IInv, Types, TypeOK, Move, Both, Stages
  <2>3. Types'
    BY <1>1, <2>1, <2>2 DEF IInv, Types, TypeOK
  <2>. QED BY <1>1, <2>1, <2>3 DEF IInv, Aligned, Asked, Reading, Obeying, MainSilent
<1>3. CASE Change
  <2>1. ~pure' /\ UNCHANGED <<dump, stage>>
    BY <1>3 DEF Change, hand
  <2>2. host' \in Settings
    <3>1. PICK f \in 1 .. Fields, v \in Values : host' = [host EXCEPT ![f] = v]
      BY <1>3 DEF Change
    <3>. QED BY <3>1 DEF IInv, Types, TypeOK, Settings
  <2>3. Types'
    BY <1>1, <2>1, <2>2 DEF IInv, Types, TypeOK
  <2>. QED BY <1>1, <2>1, <2>3 DEF IInv, Aligned, Asked, Reading, Obeying, MainSilent
<1>4. CASE Plug \/ Unplug
  <2>1. UNCHANGED <<host, dump, stage, pure>>
    BY <1>4 DEF Plug, Unplug, hand, hist
  <2>. QED BY <1>1, <2>1, IInvStays
<1>. QED BY <1>2, <1>3, <1>4

(* The inductive invariant: where a thread stands between two reads or two *)
(* writes of the ring, and how far a DUMP has been put in force.           *)
THEOREM ConversationInvariant == Spec => []IInv
<1>1. Init => IInv
  BY InitHolds
<1>2. IInv /\ [Next]_vars => IInv'
  <2>. SUFFICES ASSUME IInv, [Next]_vars PROVE IInv'
    OBVIOUS
  <2>1. CASE UNCHANGED vars
    BY <2>1, IInvStays DEF vars, event, hand, hist
  <2>2. CASE EventStep \/ Sender("main")
    BY <2>2, ReadSizeStep, ReadMessageStep, ParseStep, SyncStep, IdleSteps, SenderStep
       DEF EventStep, Both
  <2>3. CASE RtStep
    BY <2>3, WriteMessageStep, RtSendStep DEF RtStep
  <2>4. CASE Receive
    BY <2>4, ReceiveStep
  <2>5. CASE GtkSend \/ Change \/ Plug \/ Unplug
    BY <2>5, OthersStep
  <2>. QED BY <2>1, <2>2, <2>3, <2>4, <2>5 DEF Next
<1>. QED BY <1>1, <1>2, PTL DEF Spec

(* jfst_queue_sysex and jfst_sysex_handler keep in step, whatever is lost  *)
(* for want of room, until the one reads between the other's two writes.   *)
THEOREM RingAligned == Spec => []FramesAligned
<1>1. IInv => FramesAligned
  BY DEF IInv, Types, Aligned, Asked, FramesAligned
<1>. QED BY <1>1, ConversationInvariant, PTL

(* When a DUMP is answered with DONE, all it said is in force              *)
(* (jfst_sync2sysex), if nobody has changed a setting meanwhile.           *)
THEOREM DumpsObeyed == Spec => []DumpObeyed
<1>1. IInv => DumpObeyed
  BY DEF IInv, Obeying, DumpObeyed
<1>. QED BY <1>1, ConversationInvariant, PTL
=============================================================================
