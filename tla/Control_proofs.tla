--------------------------- MODULE Control_proofs ---------------------------
(***************************************************************************)
(* One command, one answer: proved for any applications, any number of     *)
(* slots, any values and any number of changes.                            *)
(***************************************************************************)
EXTENDS Control, FiniteSetTheorems, WellFoundedInduction, TLAPS

Commands == {<<"news", "all">>, <<"news">>, <<"?">>, <<"quit">>}
            \cup {<<"set", v>> : v \in Values}
Answers  == {Ok} \cup {<<"told", v>> : v \in Values}
AppState == {"new", "idle", "calling", "leaving", "closed", "reset"}

Types ==
  /\ value \in Values
  /\ Seats \subseteq Nat \ {0}
  /\ slot \in [Seats -> Apps \cup {Nobody}] /\ last \in [Seats -> Values]
  /\ backlog \in Seq(Apps)
  /\ pc \in {"sleep", "poll", "compare", "store", "tell"}
  /\ todo \subseteq {0} \cup Seats
  /\ app \in [Apps -> [state : AppState, shown : Values]]
  /\ toServer \in [Apps -> Commands \cup {Silent}]
  /\ toApp \in [Apps -> Answers \cup {Silent}]

(* An application is in one place only, and in none before it connects.    *)
Places ==
  /\ \A j, k \in Seats : j # k /\ slot[j] = slot[k] => slot[j] = Nobody
  /\ \A k \in Seats : slot[k] # Nobody => app[slot[k]].state # "new"
  /\ \A i \in 1 .. Len(backlog) : ~Seated(backlog[i]) /\ app[backlog[i]].state # "new"
  /\ \A i, j \in 1 .. Len(backlog) : backlog[i] = backlog[j] => i = j

(* The server has a descriptor in hand while it is not asleep, and behind  *)
(* each there is somebody.                                                 *)
Polling ==
  /\ pc = "sleep" <=> todo = {}
  /\ pc \in {"compare", "store", "tell"} => 0 \notin todo
  /\ \A k \in todo \ {0} : slot[k] # Nobody
  /\ 0 \in todo => backlog # <<>>

(* The server is at a's "news".                                            *)
Attended(a) == pc \in {"compare", "store", "tell"} /\ slot[Next1] = a

(* One that waits has its command on the way, before the server, or        *)
(* answered; one that does not wait has none.                              *)
OneThing(a) ==
  /\ app[a].state \in {"new", "idle"} =>
       toServer[a] = Silent /\ ~Attended(a) /\ toApp[a] = Silent
  /\ app[a].state \in {"calling", "leaving"} =>
       \/ toServer[a] # Silent /\ ~Attended(a) /\ toApp[a] = Silent
       \/ toServer[a] = Silent /\  Attended(a) /\ toApp[a] = Silent
       \/ toServer[a] = Silent /\ ~Attended(a) /\ toApp[a] # Silent

IInv == Types /\ Places /\ Polling /\ \A a \in Apps : OneThing(a)

-----------------------------------------------------------------------------
LEMMA MessagesAre ==
  /\ \A c \in Commands : c # Silent /\ (c[1] = "set" => c[2] \in Values)
  /\ \A m \in Answers : m # Silent /\ (m # Ok => m[2] \in Values)
  /\ Ok \in Answers /\ <<"news">> \in Commands /\ <<"news", "all">> \in Commands
  /\ <<"?">> \in Commands /\ <<"quit">> \in Commands
  /\ \A v \in Values : <<"set", v>> \in Commands /\ <<"told", v>> \in Answers
BY DEF Commands, Answers, Ok, Silent

(* The descriptor the loop of serv_poll comes to is one it has to serve.   *)
LEMMA LeastExists ==
  ASSUME NEW S, S \subseteq Nat, S # {}
  PROVE  \E k \in S : \A j \in S : k <= j
<1> DEFINE R == {ss \in Nat \X Nat : ss[1] < ss[2]}
<1>1. IsWellFoundedOn(R, Nat)
  BY NatLessThanWellFounded DEF OpToRel
<1>2. \A x, y \in Nat : <<y, x>> \notin R => x <= y
  OBVIOUS
<1> HIDE DEF R
<1>3. PICK k \in S : \A j \in S : <<j, k>> \notin R
  BY <1>1, WFMin
<1>4. \A j \in S : k <= j
  BY <1>2, <1>3
<1>. QED BY <1>4

LEMMA NextIs ==
  ASSUME Types, todo # {}
  PROVE  Next1 \in todo
<1>0. todo \subseteq Nat
  BY DEF Types
<1>1. \E k \in todo : \A j \in todo : k <= j
  BY <1>0, LeastExists
<1>. QED BY <1>1 DEF Next1

LEMMA InitHolds ==
  ASSUME Init
  PROVE  IInv
<1>1. PICK n \in SlotCounts : slot = [k \in 1 .. n |-> Nobody]
  BY DEF Init
<1>2. Seats = 1 .. n /\ n \in Nat
  BY <1>1, ControlAssumption DEF Seats
<1>3. Types
  BY <1>1, <1>2, ControlAssumption DEF Init, Types, AppState
<1>4. Places
  BY <1>1, <1>2 DEF Init, Places, Seated
<1>5. Polling
  BY DEF Init, Polling
<1>6. \A a \in Apps : OneThing(a)
  BY DEF Init, OneThing, Attended
<1>. QED BY <1>3, <1>4, <1>5, <1>6 DEF IInv

-----------------------------------------------------------------------------
(* Steps of an application that has connected.                             *)

LEMMA AppAlone ==
  ASSUME IInv, NEW a \in Apps, UNCHANGED <<value, server>>,
         app' \in [Apps -> [state : AppState, shown : Values]],
         toServer' \in [Apps -> Commands \cup {Silent}],
         toApp' \in [Apps -> Answers \cup {Silent}],
         \A b \in Apps \ {a} : /\ app'[b] = app[b]
                               /\ toServer'[b] = toServer[b]
                               /\ toApp'[b] = toApp[b],
         app[a].state # "new", app'[a].state # "new",
         OneThing(a)'
  PROVE  IInv'
<1>1. /\ UNCHANGED <<value, last, slot, backlog, pc, todo>>
      /\ Seats' = Seats
  BY DEF server, Seats
<1>2. \A b \in Apps : app'[b].state = "new" => app[b].state = "new"
  OBVIOUS
<1>3. Types'
  BY <1>1 DEF IInv, Types
<1>4. Places'
  <2>1. \A k \in Seats : slot[k] # Nobody => slot[k] \in Apps
    BY DEF IInv, Types
  <2>2. \A i \in 1 .. Len(backlog) : backlog[i] \in Apps
    BY DEF IInv, Types
  <2>. QED BY <1>1, <1>2, <2>1, <2>2 DEF IInv, Places, Seated
<1>5. Polling'
  BY <1>1 DEF IInv, Polling
<1>6. \A b \in Apps : OneThing(b)'
  <2>1. ASSUME NEW b \in Apps \ {a} PROVE OneThing(b)'
    <3>1. Attended(b)' <=> Attended(b)
      BY <1>1 DEF Attended, Next1
    <3>. QED BY <3>1 DEF IInv, OneThing
  <2>. QED BY <2>1
<1>. QED BY <1>3, <1>4, <1>5, <1>6 DEF IInv

LEMMA AppSteps ==
  ASSUME IInv, NEW a \in Apps,
         \/ Tick(a) \/ Receive(a) \/ Leave(a) \/ Die(a) \/ Mistype(a)
         \/ \E v \in Values : Pick(a, v)
  PROVE  IInv'
<1>0. /\ app \in [Apps -> [state : AppState, shown : Values]]
      /\ toServer \in [Apps -> Commands \cup {Silent}]
      /\ toApp \in [Apps -> Answers \cup {Silent}]
      /\ OneThing(a)
  BY DEF IInv, Types
<1>1. CASE Tick(a)
  <2>1. UNCHANGED <<value, server>>
    BY <1>1 DEF Tick
  <2>2. Attended(a)' <=> Attended(a)
    BY <2>1 DEF Attended, Next1, server
  <2>3. /\ app[a].state = "idle" /\ app' = [app EXCEPT ![a].state = "calling"]
        /\ toServer' = [toServer EXCEPT ![a] = <<"news">>] /\ toApp' = toApp
    BY <1>1 DEF Tick, Call
  <2>4. /\ app' \in [Apps -> [state : AppState, shown : Values]]
        /\ app'[a].state = "calling"
    BY <1>0, <2>3 DEF AppState
  <2>5. /\ toServer' \in [Apps -> Commands \cup {Silent}]
        /\ toServer'[a] # Silent
    BY <1>0, <2>3, MessagesAre
  <2>6. OneThing(a)'
    BY <1>0, <2>2, <2>3, <2>4, <2>5 DEF OneThing
  <2>. QED BY <1>0, <2>1, <2>3, <2>4, <2>5, <2>6, AppAlone
<1>2. CASE Receive(a)
  <2>1. UNCHANGED <<value, server>>
    BY <1>2 DEF Receive
  <2>2. Attended(a)' <=> Attended(a)
    BY <2>1 DEF Attended, Next1, server
  <2>3. /\ app[a].state \in {"calling", "leaving"} /\ toApp[a] # Silent
        /\ toApp' = [toApp EXCEPT ![a] = Silent]
    BY <1>2 DEF Receive
  <2>4. toServer[a] = Silent /\ ~Attended(a)
    BY <1>0, <2>3 DEF OneThing
  <2>5. CASE app' = [app EXCEPT ![a].state = "closed"] /\ UNCHANGED toServer
    <3>1. /\ app' \in [Apps -> [state : AppState, shown : Values]]
          /\ app'[a].state = "closed"
      BY <1>0, <2>5 DEF AppState
    <3>2. toApp' \in [Apps -> Answers \cup {Silent}]
      BY <1>0, <2>3
    <3>3. OneThing(a)'
      BY <3>1 DEF OneThing
    <3>. QED BY <1>0, <2>1, <2>3, <2>5, <3>1, <3>2, <3>3, AppAlone
  <2>6. ASSUME NEW v \in Values, Shown(a, v)
        PROVE  IInv'
    <3>1. toApp' \in [Apps -> Answers \cup {Silent}] /\ toApp'[a] = Silent
      BY <1>0, <2>3
    <3>2. CASE /\ app' = [app EXCEPT ![a] = [state |-> "calling", shown |-> v]]
               /\ toServer' = [toServer EXCEPT ![a] = <<"set", v>>]
      <4>1. /\ app' \in [Apps -> [state : AppState, shown : Values]]
            /\ app'[a].state = "calling"
        BY <1>0, <3>2 DEF AppState
      <4>2. /\ toServer' \in [Apps -> Commands \cup {Silent}]
            /\ toServer'[a] # Silent
        BY <1>0, <3>2, MessagesAre
      <4>3. OneThing(a)'
        BY <2>2, <2>4, <3>1, <4>1, <4>2 DEF OneThing
      <4>. QED BY <1>0, <2>1, <2>3, <3>1, <3>2, <4>1, <4>2, <4>3, AppAlone
    <3>3. CASE /\ app' = [app EXCEPT ![a] = [state |-> "idle", shown |-> v]]
               /\ toServer' = [toServer EXCEPT ![a] = Silent]
      <4>1. /\ app' \in [Apps -> [state : AppState, shown : Values]]
            /\ app'[a].state = "idle"
        BY <1>0, <3>3 DEF AppState
      <4>2. /\ toServer' \in [Apps -> Commands \cup {Silent}]
            /\ toServer'[a] = Silent
        BY <1>0, <3>3
      <4>3. OneThing(a)'
        BY <2>2, <2>4, <3>1, <4>1, <4>2 DEF OneThing
      <4>. QED BY <1>0, <2>1, <2>3, <3>1, <3>3, <4>1, <4>2, <4>3, AppAlone
    <3>. QED BY <2>6, <3>2, <3>3 DEF Shown, Call
  <2>7. (IF toApp[a] = Ok THEN app[a].shown ELSE toApp[a][2]) \in Values
    BY <1>0, <2>3, MessagesAre
  <2>. QED BY <1>2, <2>5, <2>6, <2>7 DEF Receive
<1>3. CASE Leave(a)
  <2>1. UNCHANGED <<value, server>>
    BY <1>3 DEF Leave
  <2>2. Attended(a)' <=> Attended(a)
    BY <2>1 DEF Attended, Next1, server
  <2>3. /\ app[a].state = "idle" /\ app' = [app EXCEPT ![a].state = "leaving"]
        /\ toServer' = [toServer EXCEPT ![a] = <<"quit">>] /\ toApp' = toApp
    BY <1>3 DEF Leave, Call
  <2>4. /\ app' \in [Apps -> [state : AppState, shown : Values]]
        /\ app'[a].state = "leaving"
    BY <1>0, <2>3 DEF AppState
  <2>5. /\ toServer' \in [Apps -> Commands \cup {Silent}]
        /\ toServer'[a] # Silent
    BY <1>0, <2>3, MessagesAre
  <2>6. OneThing(a)'
    BY <1>0, <2>2, <2>3, <2>4, <2>5 DEF OneThing
  <2>. QED BY <1>0, <2>1, <2>3, <2>4, <2>5, <2>6, AppAlone
<1>4. CASE Die(a)
  <2>1. UNCHANGED <<value, server, toServer>>
    BY <1>4 DEF Die
  <2>2. /\ app[a].state # "new"
        /\ \E end \in {"reset", "closed"} : app' = [app EXCEPT ![a].state = end]
        /\ toApp' = [toApp EXCEPT ![a] = Silent]
    BY <1>4 DEF Die, Open
  <2>3. /\ app' \in [Apps -> [state : AppState, shown : Values]]
        /\ app'[a].state \in {"reset", "closed"}
        /\ toApp' \in [Apps -> Answers \cup {Silent}]
    BY <1>0, <2>2 DEF AppState
  <2>4. OneThing(a)'
    BY <2>3 DEF OneThing
  <2>. QED BY <1>0, <2>1, <2>2, <2>3, <2>4, AppAlone
<1>5. CASE Mistype(a)
  <2>1. UNCHANGED <<value, server>>
    BY <1>5 DEF Mistype
  <2>2. Attended(a)' <=> Attended(a)
    BY <2>1 DEF Attended, Next1, server
  <2>3. /\ app[a].state = "idle" /\ app' = [app EXCEPT ![a].state = "calling"]
        /\ toServer' = [toServer EXCEPT ![a] = <<"?">>] /\ toApp' = toApp
    BY <1>5 DEF Mistype, Call
  <2>4. /\ app' \in [Apps -> [state : AppState, shown : Values]]
        /\ app'[a].state = "calling"
    BY <1>0, <2>3 DEF AppState
  <2>5. /\ toServer' \in [Apps -> Commands \cup {Silent}]
        /\ toServer'[a] # Silent
    BY <1>0, <2>3, MessagesAre
  <2>6. OneThing(a)'
    BY <1>0, <2>2, <2>3, <2>4, <2>5 DEF OneThing
  <2>. QED BY <1>0, <2>1, <2>3, <2>4, <2>5, <2>6, AppAlone
<1>6. ASSUME NEW v \in Values, Pick(a, v)
      PROVE  IInv'
  <2>1. UNCHANGED <<value, server>>
    BY <1>6 DEF Pick
  <2>2. Attended(a)' <=> Attended(a)
    BY <2>1 DEF Attended, Next1, server
  <2>3. /\ app[a].state = "idle" /\ toApp' = toApp
        /\ app' = [app EXCEPT ![a] = [state |-> "calling", shown |-> v]]
        /\ toServer' = [toServer EXCEPT ![a] = <<"set", v>>]
    BY <1>6 DEF Pick, Call
  <2>4. /\ app' \in [Apps -> [state : AppState, shown : Values]]
        /\ app'[a].state = "calling"
    BY <1>0, <2>3 DEF AppState
  <2>5. /\ toServer' \in [Apps -> Commands \cup {Silent}]
        /\ toServer'[a] # Silent
    BY <1>0, <2>3, MessagesAre
  <2>6. OneThing(a)'
    BY <1>0, <2>2, <2>3, <2>4, <2>5 DEF OneThing
  <2>. QED BY <1>0, <2>1, <2>3, <2>4, <2>5, <2>6, AppAlone
<1>. QED BY <1>1, <1>2, <1>3, <1>4, <1>5, <1>6

(* Connecting puts the application at the end of the line.                 *)
LEMMA ConnectStep ==
  ASSUME IInv, NEW a \in Apps, Connect(a)
  PROVE  IInv'
<1>0. /\ app \in [Apps -> [state : AppState, shown : Values]]
      /\ toServer \in [Apps -> Commands \cup {Silent}]
      /\ backlog \in Seq(Apps)
      /\ OneThing(a)
  BY DEF IInv, Types
<1>1. /\ app[a].state = "new" /\ app' = [app EXCEPT ![a].state = "calling"]
      /\ backlog' = Append(backlog, a)
      /\ toServer' = [toServer EXCEPT ![a] = <<"news", "all">>]
      /\ UNCHANGED <<value, last, slot, pc, todo, toApp>>
      /\ Seats' = Seats
  BY DEF Connect, Call, Seats
<1>2. /\ app' \in [Apps -> [state : AppState, shown : Values]]
      /\ app'[a].state = "calling"
      /\ \A b \in Apps \ {a} : app'[b] = app[b]
  BY <1>0, <1>1 DEF AppState
<1>3. /\ toServer' \in [Apps -> Commands \cup {Silent}]
      /\ toServer'[a] # Silent
      /\ \A b \in Apps \ {a} : toServer'[b] = toServer[b]
  BY <1>0, <1>1, MessagesAre
<1>4. /\ backlog' \in Seq(Apps) /\ Len(backlog') = Len(backlog) + 1
      /\ Len(backlog) \in Nat
      /\ \A i \in 1 .. Len(backlog) : backlog'[i] = backlog[i] /\ backlog[i] \in Apps
      /\ backlog'[Len(backlog) + 1] = a
  BY <1>0, <1>1
<1>5. Types'
  BY <1>1, <1>2, <1>3, <1>4 DEF IInv, Types
<1>6. Places'
  <2>1. \A k \in Seats : slot[k] # Nobody => slot[k] \in Apps /\ slot[k] # a
    BY <1>1 DEF IInv, Types, Places
  <2>2. \A i \in 1 .. Len(backlog) : backlog[i] # a /\ ~Seated(backlog[i])
    BY <1>1 DEF IInv, Places
  <2>3. \A k \in Seats : slot[k] # Nobody => app'[slot[k]].state # "new"
    BY <1>2, <2>1 DEF IInv, Places
  <2>4. ~Seated(a)
    BY <2>1, ControlAssumption DEF Seated
  <2>5. \A i \in 1 .. Len(backlog') : i \in 1 .. Len(backlog) \/ i = Len(backlog) + 1
    BY <1>4
  <2>6. ASSUME NEW i \in 1 .. Len(backlog')
        PROVE  ~Seated(backlog'[i]) /\ app'[backlog'[i]].state # "new"
    <3>1. CASE i \in 1 .. Len(backlog)
      BY <1>2, <1>4, <2>2, <3>1 DEF IInv, Places
    <3>2. CASE i = Len(backlog) + 1
      BY <1>2, <1>4, <2>4, <3>2
    <3>. QED BY <2>5, <3>1, <3>2
  <2>7. \A i, j \in 1 .. Len(backlog') : backlog'[i] = backlog'[j] => i = j
    <3>1. \A i, j \in 1 .. Len(backlog) : backlog'[i] = backlog'[j] => i = j
      BY <1>4 DEF IInv, Places
    <3>2. \A i \in 1 .. Len(backlog) : backlog'[i] # a
      BY <1>4, <2>2
    <3>. QED BY <1>4, <2>5, <3>1, <3>2
  <2>. QED BY <1>1, <2>3, <2>6, <2>7 DEF IInv, Places, Seated
<1>7. Polling'
  <2>1. backlog' # <<>>
    BY <1>4
  <2>. QED BY <1>1, <2>1 DEF IInv, Polling
<1>8. \A b \in Apps : OneThing(b)'
  <2>1. \A b \in Apps : Attended(b)' <=> Attended(b)
    BY <1>1 DEF Attended, Next1
  <2>2. OneThing(a)'
    BY <1>0, <1>1, <1>2, <1>3, <2>1 DEF OneThing
  <2>3. ASSUME NEW b \in Apps \ {a} PROVE OneThing(b)'
    BY <1>1, <1>2, <1>3, <2>1 DEF IInv, OneThing
  <2>. QED BY <2>2, <2>3
<1>. QED BY <1>5, <1>6, <1>7, <1>8 DEF IInv

-----------------------------------------------------------------------------
(* Steps of the server.                                                    *)

LEMMA PollStep ==
  ASSUME IInv, Poll
  PROVE  IInv'
<1>1. /\ pc = "sleep" /\ pc' = "poll" /\ todo' # {}
      /\ todo' \subseteq {0} \cup {k \in Seats : Readable(k)}
      /\ 0 \in todo' => backlog # <<>> \/ 0 \in {k \in Seats : Readable(k)}
      /\ UNCHANGED <<value, last, slot, backlog, app, toServer, toApp>>
      /\ Seats' = Seats
  BY DEF Poll, wires, Seats
<1>2. /\ \A k \in todo' \ {0} : k \in Seats /\ slot[k] # Nobody
      /\ 0 \in todo' => backlog # <<>>
  BY <1>1 DEF Readable, IInv, Types
<1>3. Types'
  BY <1>1, <1>2 DEF IInv, Types
<1>4. Places'
  BY <1>1 DEF IInv, Places, Seated
<1>5. Polling'
  BY <1>1, <1>2 DEF Polling
<1>6. \A b \in Apps : OneThing(b)'
  <2>1. \A b \in Apps : Attended(b)' <=> Attended(b)
    BY <1>1 DEF Attended
  <2>. QED BY <1>1, <2>1 DEF IInv, OneThing
<1>. QED BY <1>3, <1>4, <1>5, <1>6 DEF IInv

LEMMA ChangeStep ==
  ASSUME IInv, Change
  PROVE  IInv'
<1>1. /\ value' \in Values
      /\ UNCHANGED <<last, slot, backlog, pc, todo, app, toServer, toApp>>
      /\ Seats' = Seats
  BY DEF Change, wires, Seats
<1>2. Types'
  BY <1>1 DEF IInv, Types
<1>3. Places' /\ Polling'
  BY <1>1 DEF IInv, Places, Polling, Seated
<1>4. \A b \in Apps : OneThing(b)'
  BY <1>1 DEF IInv, OneThing, Attended, Next1
<1>. QED BY <1>2, <1>3, <1>4 DEF IInv

(* The server's own descriptor: the first in line takes a free slot.       *)
LEMMA AcceptStep ==
  ASSUME IInv, Accept
  PROVE  IInv'
<1>0. /\ Seats \subseteq Nat \ {0} /\ slot \in [Seats -> Apps \cup {Nobody}]
      /\ backlog \in Seq(Apps)
  BY DEF IInv, Types
<1>1. /\ pc = "poll" /\ 0 \in todo /\ todo' = todo \ {0}
      /\ pc' = IF todo' = {} THEN "sleep" ELSE "poll"
      /\ UNCHANGED <<value, last, app, toServer, toApp>>
  BY DEF Accept, Served, wires
<1>2. ASSUME Seats' = Seats, Types', Places',
             \A k \in Seats : slot[k] # Nobody => slot'[k] = slot[k]
      PROVE  IInv'
  <2>1. Polling'
    BY <1>0, <1>1, <1>2 DEF IInv, Polling, Types
  <2>2. \A b \in Apps : OneThing(b)'
    <3>1. \A b \in Apps : ~Attended(b) /\ ~Attended(b)'
      BY <1>1 DEF Attended
    <3>. QED BY <1>1, <3>1 DEF IInv, OneThing
  <2>. QED BY <1>2, <2>1, <2>2 DEF IInv
<1>3. CASE UNCHANGED <<slot, backlog>>
  <2>1. Seats' = Seats
    BY <1>3 DEF Seats
  <2>2. Types'
    BY <1>1, <1>3, <2>1 DEF IInv, Types
  <2>3. Places'
    BY <1>1, <1>3, <2>1 DEF IInv, Places, Seated
  <2>. QED BY <1>2, <1>3, <2>1, <2>2, <2>3
<1>4. CASE /\ FreeSeats # {} /\ backlog' = Tail(backlog)
           /\ LET k == CHOOSE k \in FreeSeats : \A j \in FreeSeats : k <= j
              IN  slot' = [slot EXCEPT ![k] = Head(backlog)]
  <2>1. PICK k \in FreeSeats : slot' = [slot EXCEPT ![k] = Head(backlog)]
    <3>1. FreeSeats \subseteq Nat
      BY <1>0 DEF FreeSeats
    <3>2. \E k \in FreeSeats : \A j \in FreeSeats : k <= j
      BY <1>4, <3>1, LeastExists
    <3>. QED BY <1>4, <3>2
  <2>2. k \in Seats /\ slot[k] = Nobody
    BY DEF FreeSeats
  <2>3. backlog # <<>>
    BY <1>1 DEF IInv, Polling
  <2> DEFINE a == Head(backlog)
  <2>4. /\ Len(backlog) \in Nat \ {0} /\ a = backlog[1] /\ a \in Apps
        /\ backlog' \in Seq(Apps) /\ Len(backlog') = Len(backlog) - 1
        /\ \A i \in 1 .. Len(backlog') :
             backlog'[i] = backlog[i + 1] /\ i + 1 \in 1 .. Len(backlog)
    BY <1>0, <1>4, <2>3
  <2> HIDE DEF a
  <2>5. /\ slot' \in [Seats -> Apps \cup {Nobody}] /\ slot'[k] = a /\ Seats' = Seats
        /\ \A j \in Seats \ {k} : slot'[j] = slot[j]
    BY <1>0, <2>1, <2>2, <2>4 DEF Seats, a
  <2>6. Types'
    BY <1>1, <2>4, <2>5 DEF IInv, Types
  <2>7. app[a].state # "new" /\ \A j \in Seats : slot[j] # a
    BY <2>4 DEF IInv, Places, Seated
  <2>8. Places'
    <3>1. \A i, j \in Seats : i # j /\ slot'[i] = slot'[j] => slot'[i] = Nobody
      BY <2>2, <2>5, <2>7 DEF IInv, Places
    <3>2. \A j \in Seats : slot'[j] # Nobody => app[slot'[j]].state # "new"
      BY <2>5, <2>7 DEF IInv, Places
    <3>3. \A i \in 1 .. Len(backlog') : /\ app[backlog'[i]].state # "new"
                                       /\ \A j \in Seats : slot'[j] # backlog'[i]
      <4>1. \A i \in 1 .. Len(backlog) : /\ app[backlog[i]].state # "new"
                                        /\ \A j \in Seats : slot[j] # backlog[i]
        BY DEF IInv, Places, Seated
      <4>2. \A i \in 1 .. Len(backlog') : backlog'[i] # a
        <5>1. \A i \in 1 .. Len(backlog') : i + 1 # 1 /\ 1 \in 1 .. Len(backlog)
          BY <2>4
        <5>. QED BY <2>4, <5>1 DEF IInv, Places
      <4>3. ASSUME NEW i \in 1 .. Len(backlog')
            PROVE  /\ app[backlog'[i]].state # "new"
                   /\ \A j \in Seats : slot'[j] # backlog'[i]
        <5>1. PICK m \in 1 .. Len(backlog) : m = i + 1 /\ backlog'[i] = backlog[m]
          BY ONLY <2>4
        <5>2. app[backlog[m]].state # "new" /\ backlog[m] # a
              /\ \A j \in Seats : slot[j] # backlog[m]
          BY <5>1, <4>1, <4>2
        <5>3. \A j \in Seats : j = k \/ j \in Seats \ {k}
          OBVIOUS
        <5>4. \A j \in Seats : slot'[j] # backlog[m]
          BY ONLY <5>2, <5>3, <2>5
        <5>. QED BY ONLY <5>1, <5>2, <5>4
      <4>. QED BY <4>3
    <3>4. \A i, j \in 1 .. Len(backlog') : backlog'[i] = backlog'[j] => i = j
      BY <2>4 DEF IInv, Places
    <3>. QED BY <1>1, <2>5, <3>1, <3>2, <3>3, <3>4 DEF Places, Seated
  <2>9. \A j \in Seats : slot[j] # Nobody => slot'[j] = slot[j]
    BY <2>2, <2>5
  <2>. QED BY <1>2, <2>5, <2>6, <2>8, <2>9
<1>. QED BY <1>3, <1>4 DEF Accept, NextInLine

(* The readings of "news" leave everything but pc and last alone.          *)
LEMMA ReadingSteps ==
  ASSUME IInv, Compare \/ Store
  PROVE  IInv'
<1>1. /\ pc \in {"compare", "store"} /\ pc' \in {"store", "tell"}
      /\ UNCHANGED <<value, slot, backlog, todo, app, toServer, toApp>>
      /\ Seats' = Seats
  BY DEF Compare, Store, wires, Seats
<1>2. last' \in [Seats -> Values]
  BY DEF Compare, Store, Remember, IInv, Types
<1>3. Types'
  BY <1>1, <1>2 DEF IInv, Types
<1>4. Places'
  BY <1>1 DEF IInv, Places, Seated
<1>5. Polling'
  BY <1>1 DEF IInv, Polling
<1>6. \A b \in Apps : OneThing(b)'
  <2>1. \A b \in Apps : Attended(b)' <=> Attended(b)
    BY <1>1 DEF Attended, Next1
  <2>. QED BY <1>1, <2>1 DEF IInv, OneThing
<1>. QED BY <1>3, <1>4, <1>5, <1>6 DEF IInv

(* What an answer does to its application.                                 *)
AppOrReset(a) == \/ app' = app
                 \/ /\ app[a].state \notin Open
                    /\ app' = [app EXCEPT ![a].state = "reset"]

LEMMA AppAfter ==
  ASSUME Types, NEW a \in Apps, AppOrReset(a), app[a].state # "new"
  PROVE  /\ app' \in [Apps -> [state : AppState, shown : Values]]
         /\ \A b \in Apps \ {a} : app'[b] = app[b]
         /\ app'[a].state # "new"
         /\ app[a].state \in Open => app'[a].state = app[a].state
         /\ app[a].state \notin Open => app'[a].state \notin Open
<1>1. app \in [Apps -> [state : AppState, shown : Values]]
  BY DEF Types
<1>2. CASE app' = app
  BY <1>1, <1>2
<1>3. CASE /\ app[a].state \notin Open
           /\ app' = [app EXCEPT ![a].state = "reset"]
  <2>1. [app[a] EXCEPT !.state = "reset"] \in [state : AppState, shown : Values]
    BY <1>1 DEF AppState
  <2>2. /\ app' \in [Apps -> [state : AppState, shown : Values]]
        /\ app'[a].state = "reset"
        /\ \A b \in Apps \ {a} : app'[b] = app[b]
    BY <1>1, <1>3, <2>1
  <2>. QED BY <1>3, <2>2 DEF Open
<1>. QED BY <1>2, <1>3 DEF AppOrReset

(* What is true when the server is done with slot k: whatever it did for   *)
(* the application there, and whether it freed the slot.                   *)
LEMMA ServedIs ==
  ASSUME IInv, NEW k \in todo \ {0}, NEW a \in Apps, slot[k] = a, Served(k),
         slot' = slot \/ slot' = [slot EXCEPT ![k] = Nobody],
         value' \in Values, last' = last, backlog' = backlog,
         AppOrReset(a),
         toServer' \in [Apps -> Commands \cup {Silent}],
         toApp' \in [Apps -> Answers \cup {Silent}],
         \A b \in Apps \ {a} : /\ toServer'[b] = toServer[b] 
                                     /\ toApp'[b] = toApp[b] 
                                     /\ ~Attended(b),
         OneThing(a)'
  PROVE  IInv'
<1>1. /\ todo' = todo \ {k} /\ pc' \in {"sleep", "poll"}
      /\ pc' = "sleep" <=> todo' = {}
  BY DEF Served
<1>2. /\ k \in Seats
      /\ Seats' = Seats /\ slot' \in [Seats -> Apps \cup {Nobody}]
      /\ \A j \in Seats : slot'[j] = slot[j] \/ slot'[j] = Nobody
      /\ \A j \in Seats \ {k} : slot'[j] = slot[j]
  BY DEF IInv, Types, Polling, Seats
<1>a. /\ app' \in [Apps -> [state : AppState, shown : Values]]
      /\ \A b \in Apps \ {a} : app'[b] = app[b]
      /\ app'[a].state # "new"
  BY <1>2, AppAfter, ControlAssumption DEF IInv, Places
<1>3. Types'
  BY <1>1, <1>2, <1>a DEF IInv, Types
<1>4. Places'
  <2>1. \A i \in 1 .. Len(backlog) : backlog[i] # Nobody /\ backlog[i] \in Apps
    BY ControlAssumption DEF IInv, Types
  <2>2. \A b \in Apps : app[b].state # "new" => app'[b].state # "new"
    BY <1>a
  <2>3. \A j \in Seats : slot'[j] # Nobody => slot'[j] = slot[j] /\ slot[j] \in Apps
    BY <1>2 DEF IInv, Types
  <2>. QED BY <1>2, <2>1, <2>2, <2>3 DEF IInv, Places, Seated
<1>5. Polling'
  BY <1>1, <1>2 DEF IInv, Polling, Types
<1>6. \A b \in Apps : OneThing(b)'
  <2>1. \A b \in Apps : ~Attended(b)'
    BY <1>1 DEF Attended
  <2>2. ASSUME NEW b \in Apps \ {a} PROVE OneThing(b)'
    BY <1>a, <2>1, <2>2 DEF IInv, OneThing
  <2>. QED BY <2>2
<1>. QED BY <1>3, <1>4, <1>5, <1>6 DEF IInv

(* Before the server serves a client: the slot is taken, by one that has   *)
(* connected.                                                              *)
LEMMA InHand ==
  ASSUME IInv, pc # "sleep", 0 \notin todo
  PROVE  /\ Next1 \in todo \ {0}
         /\ Next1 \in Seats
         /\ slot[Next1] \in Apps
         /\ app[slot[Next1]].state # "new"
<1>1. Next1 \in todo
  BY NextIs DEF IInv, Polling
<1>. QED BY <1>1 DEF IInv, Types, Polling, Places

LEMMA TellStep ==
  ASSUME IInv, Tell
  PROVE  IInv'
<1>0. pc = "tell" /\ 0 \notin todo
  BY DEF Tell, IInv, Polling
<1>1. PICK k \in todo \ {0} : k = Next1
  BY <1>0, InHand
<1>2. PICK a \in Apps : a = slot[k]
  BY <1>0, <1>1, InHand
<1>3. Attended(a) /\ \A b \in Apps \ {a} : ~Attended(b)
  BY <1>0, <1>1, <1>2 DEF Attended
<1>4. /\ Served(k) /\ UNCHANGED <<value, last, slot, backlog, toServer>>
      /\ ~Attended(a)'
  BY <1>1 DEF Tell, Served, Attended
<1>5. PICK told \in Answers :
        /\ toApp' = IF app[a].state \in Open THEN [toApp EXCEPT ![a] = told] ELSE toApp
        /\ AppOrReset(a)
  BY <1>1, <1>2, MessagesAre DEF Tell, Answer, AppOrReset, IInv, Types
<1>6. /\ toApp' \in [Apps -> Answers \cup {Silent}]
      /\ \A b \in Apps \ {a} : toApp'[b] = toApp[b]
      /\ app[a].state \in Open => toApp'[a] # Silent
  BY <1>5, MessagesAre DEF IInv, Types
<1>7. OneThing(a)'
  <2>1. app[a].state # "new" /\ app[a].state # "idle"
    BY <1>0, <1>1, <1>2, <1>3, InHand DEF IInv, OneThing
  <2>2. /\ app[a].state \in Open => app'[a].state = app[a].state
        /\ app[a].state \notin Open => app'[a].state \notin Open
        /\ app'[a].state # "new"
    BY <1>5, <2>1, AppAfter DEF IInv
  <2>. QED BY <1>3, <1>4, <1>6, <2>1, <2>2 DEF IInv, OneThing, Open
<1>8. value' \in Values /\ toServer' \in [Apps -> Commands \cup {Silent}]
  BY <1>4 DEF IInv, Types
<1>. QED BY <1>2, <1>3, <1>4, <1>5, <1>6, <1>7, <1>8, ServedIs

(* serv_client_get_data and handle_client_callback.                        *)
LEMMA ServeStep ==
  ASSUME IInv, Serve
  PROVE  IInv'
<1>0. pc = "poll" /\ 0 \notin todo
  BY DEF Serve
<1>1. PICK k \in todo \ {0} : k = Next1
  BY <1>0, InHand
<1>2. PICK a \in Apps : a = slot[k] /\ app[a].state # "new"
  BY <1>0, <1>1, InHand
<1>3. /\ \A b \in Apps : ~Attended(b)
      /\ OneThing(a)
      /\ toServer \in [Apps -> Commands \cup {Silent}]
      /\ toApp \in [Apps -> Answers \cup {Silent}]
      /\ value \in Values
      /\ UNCHANGED <<last, backlog>>
  BY <1>0 DEF Attended, IInv, Types, Serve
<1>4. ASSUME Served(k) PROVE ~Attended(a)'
  BY <1>4 DEF Served, Attended
<1>5. CASE /\ toServer[a] = Silent \/ app[a].state = "reset"
           /\ CloseSeat(k) /\ Served(k)
           /\ UNCHANGED <<value, app, toServer, toApp>>
  <2>1. OneThing(a)'
    BY <1>3, <1>4, <1>5 DEF OneThing
  <2>. QED BY <1>2, <1>3, <1>5, <2>1, ServedIs DEF CloseSeat, AppOrReset
<1>6. CASE /\ toServer[a] # Silent
           /\ pc' = "compare"
           /\ Take(a)
           /\ UNCHANGED <<value, slot, todo, app, toApp>>
  <2>1. /\ toServer' \in [Apps -> Commands \cup {Silent}]
        /\ toServer'[a] = Silent
        /\ \A b \in Apps \ {a} : toServer'[b] = toServer[b]
    BY <1>3, <1>6 DEF Take
  <2>2. Seats' = Seats
    BY <1>6 DEF Seats
  <2>3. Attended(a)' /\ \A b \in Apps \ {a} : ~Attended(b)'
    BY <1>1, <1>2, <1>6 DEF Attended, Next1
  <2>4. Types'
    BY <1>3, <1>6, <2>1, <2>2 DEF IInv, Types
  <2>5. Places'
    BY <1>3, <1>6, <2>2 DEF IInv, Places, Seated
  <2>6. Polling'
    BY <1>0, <1>3, <1>6 DEF IInv, Polling
  <2>7. OneThing(a)'
    BY <1>2, <1>3, <1>6, <2>1, <2>3 DEF OneThing
  <2>8. ASSUME NEW b \in Apps \ {a} PROVE OneThing(b)'
    BY <1>3, <1>6, <2>1, <2>3 DEF IInv, OneThing
  <2>. QED BY <2>4, <2>5, <2>6, <2>7, <2>8 DEF IInv
<1>7. CASE /\ toServer[a] # Silent
           /\ value' \in Values
           /\ slot' = slot \/ CloseSeat(k)
           /\ Take(a) /\ Answer(a, Ok) /\ Served(k)
  <2>1. /\ toServer' \in [Apps -> Commands \cup {Silent}]
        /\ toServer'[a] = Silent
        /\ \A b \in Apps \ {a} : toServer'[b] = toServer[b]
    BY <1>3, <1>7 DEF Take
  <2>2. /\ toApp' \in [Apps -> Answers \cup {Silent}]
        /\ \A b \in Apps \ {a} : toApp'[b] = toApp[b]
        /\ app[a].state \in Open => toApp'[a] # Silent
    BY <1>3, <1>7, MessagesAre DEF Answer
  <2>4. AppOrReset(a)
    BY <1>7 DEF Answer, AppOrReset
  <2>5. /\ app[a].state \in Open => app'[a].state = app[a].state
        /\ app[a].state \notin Open => app'[a].state \notin Open
        /\ app'[a].state # "new"
    BY <1>2, <2>4, AppAfter DEF IInv
  <2>3. OneThing(a)'
    BY <1>2, <1>3, <1>4, <1>7, <2>1, <2>2, <2>5 DEF OneThing, Open
  <2>. QED BY <1>2, <1>3, <1>7, <2>1, <2>2, <2>3, <2>4, ServedIs DEF CloseSeat
<1>8. toServer[a] # Silent /\ toServer[a][1] = "set" => toServer[a][2] \in Values
  BY <1>3, MessagesAre
<1>9. CASE toServer[a] = Silent \/ app[a].state = "reset"
  BY <1>1, <1>2, <1>5, <1>9 DEF Serve, wires
<1>10. CASE toServer[a] # Silent /\ app[a].state # "reset"
  <2>1. CASE toServer[a][1] = "news"
    BY <1>1, <1>2, <1>6, <1>10, <2>1 DEF Serve
  <2>2. CASE toServer[a][1] = "set"
    <3>1. /\ value' = toServer[a][2] /\ slot' = slot
          /\ Take(a) /\ Answer(a, Ok) /\ Served(k)
      BY <1>1, <1>2, <1>10, <2>2 DEF Serve
    <3>. QED BY <1>7, <1>8, <1>10, <2>2, <3>1
  <2>3. CASE toServer[a][1] = "quit"
    BY <1>1, <1>2, <1>3, <1>7, <1>10, <2>3 DEF Serve
  <2>4. CASE toServer[a][1] \notin {"news", "set", "quit"}
    BY <1>1, <1>2, <1>3, <1>7, <1>10, <2>4 DEF Serve
  <2>. QED BY <2>1, <2>2, <2>3, <2>4
<1>. QED BY <1>9, <1>10

LEMMA StepHolds ==
  ASSUME IInv, [Next]_vars
  PROVE  IInv'
<1>1. CASE UNCHANGED vars
  <2>1. Types'
    BY <1>1 DEF vars, server, wires, IInv, Types, Seats
  <2>2. Places'
    BY <1>1 DEF vars, server, wires, IInv, Places, Seats, Seated
  <2>3. Polling'
    BY <1>1 DEF vars, server, wires, IInv, Polling, Next1, Seats, Seated
  <2>4. ASSUME NEW a \in Apps
        PROVE  OneThing(a)'
    BY <1>1 DEF vars, server, wires, IInv, OneThing, Attended, Next1
  <2>. QED BY <2>1, <2>2, <2>3, <2>4 DEF IInv
<1>2. CASE ServerStep
  BY <1>2, PollStep, AcceptStep, ServeStep, ReadingSteps, TellStep DEF ServerStep
<1>3. CASE Change
  BY <1>3, ChangeStep
<1>4. ASSUME NEW a \in Apps, AppStep(a) \/ UserStep(a)
      PROVE  IInv'
  BY <1>4, AppSteps, ConnectStep DEF AppStep, UserStep
<1>. QED BY <1>1, <1>2, <1>3, <1>4 DEF Next

(***************************************************************************)
(* The inductive invariant of the control port: an application is in the   *)
(* backlog or in one slot, the server serves only slots that are taken,    *)
(* and a command is in one place until it is answered.                     *)
(***************************************************************************)
THEOREM ControlInvariant == Spec => []IInv
<1>1. Init => IInv
  BY InitHolds
<1>2. IInv /\ [Next]_vars => IInv'
  BY StepHolds
<1>. QED BY <1>1, <1>2, PTL DEF Spec

(* One of three is true: counted as OneAnswer counts them.                 *)
LEMMA JustOne ==
  ASSUME NEW p \in BOOLEAN, NEW q \in BOOLEAN, NEW r \in BOOLEAN,
         \/ p /\ ~q /\ ~r
         \/ ~p /\ q /\ ~r
         \/ ~p /\ ~q /\ r
  PROVE  Cardinality({x \in 1 .. 3 : <<p, q, r>>[x]}) = 1
<1>1. \E i \in 1 .. 3 : {x \in 1 .. 3 : <<p, q, r>>[x]} = {i}
  <2>1. 1 .. 3 = {1, 2, 3}
    OBVIOUS
  <2>2. <<p, q, r>>[1] = p /\ <<p, q, r>>[2] = q /\ <<p, q, r>>[3] = r
    OBVIOUS
  <2>. QED BY <2>1, <2>2
<1>. QED BY <1>1, FS_Singleton

(* An application that waits has one command on its way, before the server *)
(* or answered, one that does not has none: whoever connects, sets, leaves *)
(* and dies, and however few slots there are (serv_poll,                   *)
(* handle_client_callback).                                                *)
THEOREM EachIsAnsweredOnce == Spec => []OneAnswer
<1>1. ASSUME IInv PROVE OneAnswer
  <2>1. TypeOK
    BY ONLY <1>1 DEF IInv, Types, Places, TypeOK
  <2>2. ASSUME NEW a \in Apps, app[a].state \in Open
        PROVE  IF app[a].state = "idle"
               THEN toServer[a] = Silent /\ ~Attended(a) /\ toApp[a] = Silent
               ELSE \/ toServer[a] # Silent /\ ~Attended(a) /\ toApp[a] = Silent
                    \/ toServer[a] = Silent /\  Attended(a) /\ toApp[a] = Silent
                    \/ toServer[a] = Silent /\ ~Attended(a) /\ toApp[a] # Silent
    BY <1>1, <2>2 DEF IInv, OneThing, Open
  <2>3. ASSUME NEW a \in Apps, app[a].state \in Open, app[a].state # "idle"
        PROVE  Cardinality({x \in 1 .. 3 :
                 <<toServer[a] # Silent, Attended(a), toApp[a] # Silent>>[x]}) = 1
    <3>1. Attended(a) \in BOOLEAN
      BY DEF Attended
    <3>. QED BY <2>2, <2>3, <3>1, JustOne
  <2>. QED BY <2>1, <2>2, <2>3 DEF OneAnswer, Attended
<1>. QED BY <1>1, ControlInvariant, PTL
=============================================================================
