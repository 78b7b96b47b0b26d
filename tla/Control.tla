-------------------------------- MODULE Control --------------------------------
(***************************************************************************)
(* The TCP control port: the server of serv/serv.c, the commands of proto.c *)
(* and the applications that mirror the host through them, as               *)
(* perl/fsthost_ctrl.pl does.                                               *)
(*                                                                         *)
(* The host has one value to mirror - a program, a channel, the volume.     *)
(* The main thread polls the sockets and serves them one by one; "news"     *)
(* compares, stores and tells in three readings, between which the plugin   *)
(* or the process thread may change the value.  An application asks for     *)
(* news every second, shows what it is told, and - its widgets call back -  *)
(* asks the host to set what it has just shown; only the volume does not.   *)
(* An application connects once: one that is started again is another one.  *)
(***************************************************************************)
EXTENDS Integers, Sequences, FiniteSets

CONSTANTS Apps,       \* applications
          SlotCounts, \* what SERV_MAX_CLIENTS may be
          Values,     \* values of the host
          Echoes,     \* does a widget call back: subset of BOOLEAN
          MaxEdits    \* bound on changes by users and plugin

Nobody == "nobody"

ASSUME ControlAssumption ==
  /\ Nobody \notin Apps
  /\ IsFiniteSet(Apps)
  /\ IsFiniteSet(SlotCounts) /\ SlotCounts # {} /\ SlotCounts \subseteq Nat \ {0}
  /\ 0 \in Values /\ Values \subseteq Nat
  /\ Echoes \subseteq BOOLEAN
  /\ MaxEdits \in Nat

VARIABLES value,      \* the host's
          last,       \* changes_last of each slot
          slot,       \* who is in it
          backlog,    \* who is connected and not accepted yet
          pc,         \* the server
          todo,       \* descriptors left of this poll; 0 is the server's own
          news,       \* local of "news": is there something to tell
          app,        \* [state, shown]
          toServer,   \* command under way, by application
          toApp,      \* answer under way: what is told
          misled,     \* history: shows what news will not correct, see below
          echo, edits

server == <<last, slot, backlog, pc, todo, news, misled>>
wires  == <<toServer, toApp>>
vars   == <<value, server, app, wires, echo, edits>>

Seats  == DOMAIN slot
Silent == <<>>           \* no command, no answer
Ok     == <<"ok">>       \* an answer that tells nothing
Open   == {"idle", "calling", "leaving"}

Init ==
  /\ value = 0
  /\ \E n \in SlotCounts : slot = [k \in 1 .. n |-> Nobody]
  /\ last = [k \in Seats |-> 0]
  /\ backlog = <<>>
  /\ pc = "sleep"
  /\ todo = {}
  /\ news = FALSE
  /\ app = [a \in Apps |-> [state |-> "new", shown |-> 0]]
  /\ toServer = [a \in Apps |-> Silent]
  /\ toApp = [a \in Apps |-> Silent]
  /\ misled = [k \in Seats |-> FALSE]
  /\ echo \in Echoes
  /\ edits = 0

-----------------------------------------------------------------------------
(* The application.  call(): one command, then lines up to <OK> or <FAIL>.  *)
Call(a, command) == toServer' = [toServer EXCEPT ![a] = command]

(* FSTHOST->new: the first thing it wants is all the news.                  *)
Connect(a) ==
  /\ app[a].state = "new"
  /\ app' = [app EXCEPT ![a].state = "calling"]
  /\ backlog' = Append(backlog, a)
  /\ Call(a, <<"news", "all">>)
  /\ UNCHANGED <<value, last, slot, pc, todo, news, toApp, misled, echo, edits>>

Tick(a) ==
  /\ app[a].state = "idle"
  /\ app' = [app EXCEPT ![a].state = "calling"]
  /\ Call(a, <<"news">>)
  /\ UNCHANGED <<value, server, toApp, echo, edits>>

(* dispatch_news shows what the answer tells; a widget that changes sets it *)
(* on the host.                                                             *)
Shown(a, v) ==
  IF echo /\ app[a].shown # v
  THEN /\ app' = [app EXCEPT ![a] = [state |-> "calling", shown |-> v]]
       /\ Call(a, <<"set", v>>)
  ELSE /\ app' = [app EXCEPT ![a] = [state |-> "idle", shown |-> v]]
       /\ Call(a, Silent)

Receive(a) ==
  /\ app[a].state \in {"calling", "leaving"}
  /\ toApp[a] # Silent
  /\ toApp' = [toApp EXCEPT ![a] = Silent]
  /\ IF app[a].state = "leaving"
     THEN app' = [app EXCEPT ![a].state = "closed"] /\ UNCHANGED toServer
     ELSE Shown(a, IF toApp[a] = Ok THEN app[a].shown ELSE toApp[a][2])
  /\ UNCHANGED <<value, server, echo, edits>>

Edit == edits < MaxEdits /\ edits' = edits + 1

Pick(a, v) ==
  /\ app[a].state = "idle" /\ app[a].shown # v
  /\ Edit
  /\ app' = [app EXCEPT ![a] = [state |-> "calling", shown |-> v]]
  /\ Call(a, <<"set", v>>)
  /\ UNCHANGED <<value, server, toApp, echo>>

(* A command there is not.                                                  *)
Mistype(a) ==
  /\ app[a].state = "idle"
  /\ Edit
  /\ app' = [app EXCEPT ![a].state = "calling"]
  /\ Call(a, <<"?">>)
  /\ UNCHANGED <<value, server, toApp, echo>>

Leave(a) ==
  /\ app[a].state = "idle"
  /\ app' = [app EXCEPT ![a].state = "leaving"]
  /\ Call(a, <<"quit">>)
  /\ UNCHANGED <<value, server, toApp, echo, edits>>

(* It ends: its connection is closed, or if an answer is unread, reset.     *)
Die(a) ==
  /\ app[a].state \in Open
  /\ app' = [app EXCEPT ![a].state = IF toApp[a] # Silent THEN "reset" ELSE "closed"]
  /\ toApp' = [toApp EXCEPT ![a] = Silent]
  /\ UNCHANGED <<value, server, toServer, echo, edits>>

-----------------------------------------------------------------------------
(* What an application shows, or will when it has read its answer.          *)
WillShow(a) == IF Len(toApp[a]) = 2 THEN toApp[a][2] ELSE app[a].shown

(* The value comes back to what the slot remembers while its application    *)
(* shows another: what it has set itself the slot does not remember.        *)
MayMislead ==
  misled' = [k \in Seats |->
    \/ misled[k]
    \/ slot[k] # Nobody /\ value' = last[k] /\ WillShow(slot[k]) # last[k]]

(* serv_poll.  A descriptor is served if poll says POLLIN of it and nothing *)
(* else: a command or an end to read.  A reset says POLLHUP and POLLERR as  *)
(* well, and is passed over.                                                *)
Readable(k) ==
  /\ slot[k] # Nobody
  /\ app[slot[k]].state # "reset"
  /\ toServer[slot[k]] # Silent \/ app[slot[k]].state = "closed"

Poll ==
  /\ pc = "sleep"
  /\ todo' = {k \in Seats : Readable(k)} \cup (IF backlog # <<>> THEN {0} ELSE {})
  /\ todo' # {}
  /\ pc' = "poll"
  /\ UNCHANGED <<value, last, slot, backlog, news, app, wires, misled, echo, edits>>

Next1 == CHOOSE k \in todo : \A j \in todo : k <= j

Served(k) == /\ todo' = todo \ {k}
             /\ pc' = IF todo = {k} THEN "sleep" ELSE "poll"

AnySeat == {k \in Seats : TRUE}

SameInLine == backlog' = backlog

RememberForAll(k) == last' = [j \in Seats |-> value]

FreeSeats == {k \in Seats : slot[k] = Nobody}

NextInLine == backlog' = Tail(backlog)

(* serv_client_open: the first free slot, if there is one.  What the slot's *)
(* last client was told is still there.                                     *)
Accept ==
  /\ pc = "poll" /\ 0 \in todo
  /\ IF FreeSeats = {} THEN UNCHANGED <<slot, backlog>>
     ELSE LET k == CHOOSE k \in FreeSeats : \A j \in FreeSeats : k <= j
          IN slot' = [slot EXCEPT ![k] = Head(backlog)] /\ NextInLine
  /\ Served(0)
  /\ UNCHANGED <<value, last, news, app, wires, misled, echo, edits>>

(* serv_client_close                                                        *)
CloseNothing(k) == slot' = slot

CloseSeat(k) == slot' = [slot EXCEPT ![k] = Nobody]

(* serv_client_send_data.  To one that has closed the answer is lost, and   *)
(* draws a reset, which may come before the next poll or after it.          *)
Answer(a, told) ==
  IF app[a].state \in Open
  THEN toApp' = [toApp EXCEPT ![a] = told] /\ app' = app
  ELSE toApp' = toApp /\ (app' = app \/ app' = [app EXCEPT ![a].state = "reset"])

TakeNot(a) == UNCHANGED toServer

Take(a) == toServer' = [toServer EXCEPT ![a] = Silent]

(* serv_client_get_data and handle_client_callback: nothing to read, or an  *)
(* error, frees the slot; what one read finds is taken for one command, and *)
(* has one answer.  "set" is whatever command of jfst_proto_dispatch sets   *)
(* the value.                                                               *)
Serve ==
  /\ pc = "poll" /\ 0 \notin todo
  /\ LET k == Next1
         a == slot[k]
         command == toServer[a]
     IN IF command = Silent \/ app[a].state = "reset"
        THEN /\ CloseSeat(k) /\ Served(k)
             /\ UNCHANGED <<value, news, app, wires, misled>>
        ELSE CASE
             command[1] = "news" ->
               /\ pc' = "compare"
               /\ news' = (Len(command) = 2)
               /\ Take(a)
               /\ UNCHANGED <<value, slot, todo, app, toApp, misled>>
          [] command[1] = "set" ->
               /\ value' = command[2]
               /\ MayMislead
               /\ Take(a) /\ Answer(a, Ok) /\ Served(k)
               /\ UNCHANGED <<slot, news>>
          [] command[1] = "quit" ->
               /\ Take(a) /\ Answer(a, Ok) /\ CloseSeat(k) /\ Served(k)
               /\ UNCHANGED <<value, news, misled>>
          [] OTHER ->
               /\ Take(a) /\ Answer(a, Ok) /\ Served(k)
               /\ UNCHANGED <<value, slot, news, misled>>
  /\ UNCHANGED <<last, backlog, echo, edits>>

(* changes_last[number]: every slot its own.                               *)
Remember(k) == last' = [last EXCEPT ![k] = value]

(* jfst_detect_changes reads the value to compare it and again to store it; *)
(* jfst_news reads it once more.                                            *)
Compare ==
  /\ pc = "compare"
  /\ pc' = IF last[Next1] # value THEN "store" ELSE "tell"
  /\ UNCHANGED <<value, last, slot, backlog, todo, news, app, wires, misled, echo, edits>>

Store ==
  /\ pc = "store"
  /\ Remember(Next1)
  /\ news' = TRUE
  /\ pc' = "tell"
  /\ UNCHANGED <<value, slot, backlog, todo, app, wires, misled, echo, edits>>

Tell ==
  /\ pc = "tell"
  /\ Answer(slot[Next1], IF news THEN <<"told", value>> ELSE Ok)
  /\ misled' = [misled EXCEPT ![Next1] =
                  IF news THEN value # last[Next1] ELSE misled[Next1]]
  /\ Served(Next1)
  /\ UNCHANGED <<value, last, slot, backlog, news, toServer, echo, edits>>

(* The plugin's editor, MIDI, another widget of the host.                   *)
Change ==
  /\ Edit
  /\ \E v \in Values \ {value} : value' = v
  /\ MayMislead
  /\ UNCHANGED <<last, slot, backlog, pc, todo, news, app, wires, echo>>

ServerStep == Poll \/ Accept \/ Serve \/ Compare \/ Store \/ Tell

AppStep(a) == Tick(a) \/ Receive(a)

UserStep(a) == \/ Connect(a) \/ Leave(a) \/ Die(a) \/ Mistype(a)
               \/ \E v \in Values : Pick(a, v)

Next == \/ ServerStep \/ Change
        \/ \E a \in Apps : AppStep(a) \/ UserStep(a)

Spec == Init /\ [][Next]_vars
             /\ WF_vars(ServerStep)
             /\ \A a \in Apps : WF_vars(AppStep(a))

-----------------------------------------------------------------------------
Seated(a) == \E k \in Seats : slot[k] = a

(* Every variable keeps its type, and nobody has two slots or waits in one. *)
TypeOK ==
  /\ value \in Values
  /\ slot \in [Seats -> Apps \cup {Nobody}]
  /\ last \in [Seats -> Values]
  /\ todo \subseteq {0} \cup Seats
  /\ \A j, k \in Seats : j # k /\ slot[j] = slot[k] => slot[j] = Nobody
  /\ \A i \in DOMAIN backlog : ~Seated(backlog[i])

(* One command, one answer: a seated application that waits has exactly one *)
(* command on its way, or before the server, or one answer on its way back; *)
(* one that does not wait has none.  (With the types.)                      *)
OneAnswer ==
  /\ TypeOK
  /\ \A a \in Apps :
       LET open    == toServer[a] # Silent
           served  == pc \in {"compare", "store", "tell"} /\ slot[Next1] = a
           answer  == toApp[a] # Silent
       IN app[a].state \in Open =>
            IF app[a].state = "idle" THEN ~open /\ ~served /\ ~answer
            ELSE Cardinality({x \in 1 .. 3 : <<open, served, answer>>[x]}) = 1

(* An application that has a slot gets an answer to whatever it asks        *)
(* (jfst_proto_dispatch, handle_client_callback), or ends.                  *)
Answered ==
  \A a \in Apps : toServer[a] # Silent /\ Seated(a) ~> toApp[a] # Silent
                                                     \/ app[a].state \notin Open

(* The server has nothing of a's left to answer, or will close with it.     *)
Heard(a) ==
  /\ toServer[a] \in {Silent, <<"quit">>}
  /\ ~(pc \in {"compare", "store", "tell"} /\ slot[Next1] = a)

(* The slot of one that closed its connection is free again, for the next   *)
(* (serv_client_get_data), if it left no command unanswered: the answer to  *)
(* that would draw a reset, and the slot of one that was reset may never be *)
(* free (serv.c:194).                                                       *)
SeatsComeBack ==
  \A a \in Apps : Seated(a) /\ app[a].state = "closed" /\ Heard(a) ~> ~Seated(a)

(* serv.c:58 "Client disconnected": the same, whatever it left behind.  It  *)
(* does not hold.                                                           *)
AllSeatsComeBack ==
  \A a \in Apps : Seated(a) /\ app[a].state = "closed" ~> ~Seated(a)

(* When nobody changes anything any more, every application that has a slot *)
(* comes to show the host's value and keeps showing it: whoever else sets,  *)
(* echoes, comes and goes.  Excepted are the two ways it may be left behind: *)
(* the value moved between the readings of its news, or came back, before   *)
(* it could hear of it, to what the slot remembers from before its own set. *)
MirrorsCatchUp ==
  \A a \in Apps :
    <>[](\A k \in Seats : slot[k] = a /\ app[a].state \in {"idle", "calling"}
           => app[a].shown = value \/ misled[k])

(* proto.c:122 "Change for that client/jfst pair": the same, however the    *)
(* value moved.  It does not hold.                                          *)
EveryChangeTold ==
  \A a \in Apps :
    <>[](Seated(a) /\ app[a].state \in {"idle", "calling"} => app[a].shown = value)
=============================================================================
