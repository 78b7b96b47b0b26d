------------------------------ MODULE Host_proofs ------------------------------
(***************************************************************************)
(* Nothing that a host has freed is used by an event thread or by JACK, in *)
(* hosts with any number of plugins, on one event thread or on many, from  *)
(* the command line to the end of jfst_node_free_all.                      *)
(***************************************************************************)
EXTENDS Host, SequenceTheorems, TLAPS

-----------------------------------------------------------------------------
(* The inductive invariant.                                                *)

(* Where the main thread stands, or will stand when its calls return.      *)
Where == IF stack = <<>> THEN pc ELSE stack[1].after

StartLabels == {"start", "load", "opened", "init", "activate", "bind", "serve"}
RunLabels == {"loop", "poll", "edit", "destroy", "leave", "opened"}
EndLabels == {"over", "unbind", "deactivate", "close", "remove", "free"}
Labels == StartLabels \cup RunLabels \cup EndLabels

CallTypes == {"none", "INIT", "OPEN", "RESUME", "EDITOR_OPEN", "EDITOR_CLOSE",
              "CLOSE", "DISPATCHER"}
Frame == [fst : FSTs, todo : {<<>>, <<"OPEN">>}, after : Labels \cup {"wait"}]

MoreTypes ==
  /\ opt.separate \in BOOLEAN
  /\ idle \in [FSTs -> Nodes \cup {None}]
  /\ call \in [FSTs -> CallTypes]
  /\ stack \in Seq(Frame)
  /\ pc \in Labels \cup {"wait", "stuck", "exited", "crashed"}

(* The FST that Open has begun with.                                       *)
Opening == IF stage[n + Plugins] = "none" THEN n ELSE n + Plugins

(* The main thread waits while it has calls; only the innermost frame can  *)
(* have more of them to make, and only a signal is on top of another.      *)
StackInv ==
  /\ stack = <<>> => pc \notin {"wait", "stuck"}
  /\ stack # <<>> => pc \in {"wait", "stuck"} /\ stack[1].after \in Labels
  /\ \A k \in DOMAIN stack : k > 1 => stack[k].after = "wait" /\ stack[k].todo = <<>>
  /\ \A f \in FSTs : call[f] # "none" => \E k \in DOMAIN stack : stack[k].fst = f

(* INIT, then OPEN of the FST that is being opened, CLOSE of the one that  *)
(* is being closed, each once.                                             *)
CallInv ==
  /\ stack # <<>> /\ stack[1].todo # <<>> =>
       Where = "opened" /\ stack[1].fst = Opening /\ stage[Opening] = "listed"
  /\ Where = "opened" => \/ stage[Opening] = "open"
                         \/ /\ stack # <<>> /\ stack[1].fst = Opening
                            /\ stage[Opening] = "listed"
                            /\ stack[1].todo = <<>> => call[Opening] = "OPEN"
  /\ \A f \in FSTs : call[f] = "OPEN" =>
       Where = "opened" /\ f = Opening /\ stage[f] = "listed" /\ stack[1].todo = <<>>
  /\ Where = "remove" => /\ fst[n] # None
                         /\ \/ stage[fst[n]] = "closed"
                            \/ stage[fst[n]] = "open" /\ call[fst[n]] = "CLOSE"
  /\ \A f \in FSTs : call[f] = "CLOSE" => Where = "remove" /\ f = fst[n] /\ stage[f] = "open"

Ending == phase \in {"ending", "failed"}

PhaseInv ==
  /\ phase = "starting" =>
       /\ Where \in StartLabels \cup {"exited"} /\ freed = {}
       /\ linked = IF Where \in {"start", "serve", "exited"} THEN n - 1 ELSE n
       /\ Where \in {"serve", "exited"} => n = Plugins + 1
  /\ phase = "running" =>
       /\ Where \in RunLabels \cup {"crashed"} /\ freed = {} /\ linked = Plugins
       /\ Where = "opened" => n <= Plugins
  /\ Ending =>
       /\ Where \in EndLabels \cup {"exited"} /\ freed = 1 .. n - 1 /\ n <= linked + 1
       /\ Where \in EndLabels \ {"over"} => n <= linked
       /\ phase = "ending" => linked = Plugins

(* A node has its FST; its host has been closed.                           *)
Known(i) ==
  CASE phase = "starting" -> i < n \/ (i = n /\ Where \in {"init", "activate", "bind"})
    [] phase = "running"  -> Where # "crashed"
    [] phase = "ending"   -> TRUE
    [] phase = "failed"   -> i < linked
JackClosed(i) == Ending /\ (i < n \/ (i = n /\ Where \in {"close", "remove", "free"}))
Closed(i) == Ending /\ (i < n \/ (i = n /\ Where \in {"remove", "free"}))

(* A node's FST, its JACK client and its cycle.                            *)
NodeOK(i) ==
  /\ fst[i] \in {None, i, i + Plugins}
  /\ Known(i) => fst[i] # None
  /\ phase = "starting" /\ (i > n \/ (i = n /\ Where \in {"start", "load"})) =>
       fst[i] = None /\ stage[i + Plugins] = "none"
  /\ phase = "starting" /\ (i > n \/ (i = n /\ Where \in {"start", "load", "opened", "init"})) =>
       jack[i] = "none"
  /\ fst[i] # None /\ ~Closed(i) => stage[fst[i]] = "open"
  /\ jack[i] = "active" => ~JackClosed(i) /\ (Where # "crashed" => fst[i] # None)
  /\ JackClosed(i) => jack[i] = "none"
  /\ Where = "bind" /\ i = n => jack[i] = "active"
  /\ cycle[i] # None =>
       jack[i] = "active" /\ cycle[i] \in {i, i + Plugins} /\ stage[cycle[i]] = "open"
NodeInv == \A i \in Nodes : NodeOK(i)

NodeOf(f) == IF f <= Plugins THEN f ELSE f - Plugins

Listed(t, f) == \E k \in DOMAIN list[t] : list[t][k] = f

(* What is open is in the list of its thread, and walks stay in the list.  *)
ListInv ==
  /\ \A t \in Nodes, f \in FSTs : Listed(t, f) => stage[f] # "none" /\ t = Thread(NodeOf(f))
  /\ \A f \in FSTs : stage[f] \in {"listed", "open"} => Listed(Thread(NodeOf(f)), f)
  /\ \A t \in Nodes : at[t] # None => Listed(t, at[t])
  /\ Where = "remove" => Listed(Thread(n), fst[n])

NoneReplaced == \A i \in Nodes : stage[i + Plugins] = "none"

(* Without second FSTs each node is in its list until it is closed, which  *)
(* happens in the order of the list, and bound to a client that is active. *)
OrderInv ==
  /\ \A t \in Nodes : \A k \in DOMAIN list[t] : \A j \in 1 .. k - 1 : list[t][j] < list[t][k]
  /\ \A t \in Nodes, f \in FSTs : Listed(t, f) =>
       /\ phase = "starting" => f < n \/ (f = n /\ Where \notin {"start", "load"})
       /\ Ending /\ (f < n \/ (f = n /\ Where = "free")) => fst[f] = None
  /\ \A f \in FSTs : stage[f] = "freed" => Ending /\ f < n /\ fst[f] = f
  /\ \A i \in Nodes : idle[i] # None => idle[i] = i /\ jack[i] = "active"
  /\ Where = "deactivate" => idle[n] = None

IInv ==
  /\ TypeOK /\ MoreTypes
  /\ StackInv /\ CallInv /\ PhaseInv /\ NodeInv /\ ListInv
  /\ NoneReplaced => OrderInv
  /\ ~LateUsers => ~misused

-----------------------------------------------------------------------------
(* Sequences                                                               *)

LEMMA SubSeqFacts ==
  ASSUME NEW S, NEW s \in Seq(S), NEW i \in Nat \ {0}, NEW j \in Nat, i <= j + 1, j <= Len(s)
  PROVE  /\ SubSeq(s, i, j) \in Seq(S) /\ Len(SubSeq(s, i, j)) = j - i + 1
         /\ \A k \in 1 .. j - i + 1 : SubSeq(s, i, j)[k] = s[i + k - 1]
<1>1. \A k \in i .. j : s[k] \in S
  OBVIOUS
<1>2. /\ SubSeq(s, i, j) \in Seq(S)
      /\ Len(SubSeq(s, i, j)) = IF i <= j THEN j - i + 1 ELSE 0
      /\ \A k \in 1 .. j - i + 1 : SubSeq(s, i, j)[k] = s[i + k - 1]
  BY <1>1, SubSeqProperties
<1>. QED BY <1>2

LEMMA FrontFacts ==
  ASSUME NEW S, NEW s \in Seq(S), s # <<>>
  PROVE  /\ Front(s) \in Seq(S) /\ Len(Front(s)) = Len(s) - 1
         /\ \A k \in 1 .. Len(s) - 1 : Front(s)[k] = s[k]
         /\ Len(s) = 1 => Front(s) = <<>>
<1>1. Len(s) \in Nat \ {0}
  OBVIOUS
<1>a. 1 \in Nat \ {0} /\ Len(s) - 1 \in Nat /\ 1 <= Len(s) - 1 + 1 /\ Len(s) - 1 <= Len(s)
  BY <1>1
<1>n. PICK z \in Nat : z = Len(s) - 1 /\ 1 <= z + 1 /\ z <= Len(s)
  BY ONLY <1>a
<1>b. /\ SubSeq(s, 1, z) \in Seq(S) /\ Len(SubSeq(s, 1, z)) = z - 1 + 1
      /\ \A k \in 1 .. z - 1 + 1 : SubSeq(s, 1, z)[k] = s[1 + k - 1]
  <2>1. 1 \in Nat \ {0}
    OBVIOUS
  <2>2. PICK o \in Nat \ {0} : o = 1
    OBVIOUS
  <2>3. o <= z + 1 /\ z <= Len(s)
    BY ONLY <2>2, <1>n
  <2>4. /\ SubSeq(s, o, z) \in Seq(S) /\ Len(SubSeq(s, o, z)) = z - o + 1
        /\ \A k \in 1 .. z - o + 1 : SubSeq(s, o, z)[k] = s[o + k - 1]
    BY <2>3, SubSeqFacts
  <2>. QED BY ONLY <2>2, <2>4
<1>2. /\ SubSeq(s, 1, Len(s) - 1) \in Seq(S)
      /\ Len(SubSeq(s, 1, Len(s) - 1)) = Len(s) - 1 - 1 + 1
      /\ \A k \in 1 .. Len(s) - 1 - 1 + 1 : SubSeq(s, 1, Len(s) - 1)[k] = s[1 + k - 1]
  BY ONLY <1>n, <1>b
<1>3. Front(s) \in Seq(S) /\ Len(Front(s)) = Len(s) - 1
  BY <1>1, <1>2 DEF Front
<1>4. \A k \in 1 .. Len(s) - 1 : Front(s)[k] = s[k]
  BY <1>1, <1>2 DEF Front
<1>5. Len(s) = 1 => Front(s) = <<>>
  BY <1>3, EmptySeq
<1>. QED BY <1>3, <1>4, <1>5

LEMMA LastFacts ==
  ASSUME NEW S, NEW s \in Seq(S), s # <<>>
  PROVE  Last(s) = s[Len(s)] /\ Last(s) \in S /\ Len(s) \in DOMAIN s /\ Len(s) \in Nat \ {0}
BY DEF Last

(* An FST that is in a list and not the last has one that follows.         *)
LEMMA FollowingFacts ==
  ASSUME NEW S, NEW s \in Seq(S), NEW i \in DOMAIN s
  PROVE  Following(s, s[i]) # None => \E k \in DOMAIN s : s[k] = Following(s, s[i])
<1>. SUFFICES ASSUME s[i] # Last(s)
              PROVE  \E k \in DOMAIN s : s[k] = Following(s, s[i])
  BY DEF Following
<1>1. Position(s, s[i]) \in DOMAIN s /\ s[Position(s, s[i])] = s[i]
  BY DEF Position
<1>2. Position(s, s[i]) # Len(s)
  BY <1>1 DEF Last
<1>3. Position(s, s[i]) + 1 \in DOMAIN s
  BY <1>1, <1>2
<1>. QED BY <1>3 DEF Following

LEMMA HeadFacts ==
  ASSUME NEW S, NEW s \in Seq(S), s # <<>>
  PROVE  1 \in DOMAIN s /\ Head(s) = s[1]
OBVIOUS

(* What fst_thread_remove takes out of a list, and what it leaves.         *)
LEMMA UnlinkedFacts ==
  ASSUME NEW S, NEW s \in Seq(S), NEW i \in DOMAIN s
  PROVE  /\ Unlinked(s, s[i]) \in Seq(S)
         /\ \A k \in DOMAIN Unlinked(s, s[i]) : \E j \in DOMAIN s : s[j] = Unlinked(s, s[i])[k]
         /\ \A j \in DOMAIN s : s[j] # s[i] =>
              \E k \in DOMAIN Unlinked(s, s[i]) : Unlinked(s, s[i])[k] = s[j]
         /\ s[i] = Head(s) => Unlinked(s, s[i]) = Tail(s)
<1>1. s # <<>> /\ Len(s) \in Nat \ {0} /\ Head(s) = s[1] /\ DOMAIN s = 1 .. Len(s)
  OBVIOUS
<1>2. CASE s[i] = Head(s)
  <2>1. Unlinked(s, s[i]) = Tail(s)
    BY <1>2 DEF Unlinked
  <2>2. Tail(s) \in Seq(S) /\ Len(Tail(s)) = Len(s) - 1
    BY <1>1
  <2>3. \A k \in 1 .. Len(s) - 1 : Tail(s)[k] = s[k + 1]
    BY <1>1
  <2>4. \A k \in DOMAIN Tail(s) : k + 1 \in DOMAIN s /\ s[k + 1] = Tail(s)[k]
    BY <1>1, <2>2, <2>3
  <2>5. ASSUME NEW j \in DOMAIN s, s[j] # s[i]
        PROVE  j - 1 \in DOMAIN Tail(s) /\ Tail(s)[j - 1] = s[j]
    BY <1>1, <1>2, <2>2, <2>3, <2>5
  <2>. QED BY <2>1, <2>2, <2>4, <2>5
<1>3. CASE s[i] # Head(s) /\ s[i] = Last(s)
  BY <1>3 DEF Unlinked
<1>4. CASE s[i] # Head(s) /\ s[i] # Last(s)
  <2>. DEFINE p == Position(s, s[i])
              r == RemoveAt(s, p)
  <2>0. p \in DOMAIN s /\ s[p] = s[i]
    BY DEF Position
  <2>1. Unlinked(s, s[i]) = r
    BY <1>4 DEF Unlinked
  <2>2. p \in 1 .. Len(s)
    BY <2>0, <1>1
  <2>. HIDE DEF p
  <2>. DEFINE a == SubSeq(s, 1, p - 1)
              b == SubSeq(s, p + 1, Len(s))
  <2>a. a \in Seq(S) /\ Len(a) = p - 1 /\ \A k \in 1 .. p - 1 : a[k] = s[k]
    <3>1. p - 1 \in Nat /\ 1 <= p - 1 + 1 /\ p - 1 <= Len(s)
      BY <1>1, <2>2
    <3>2. /\ a \in Seq(S) /\ Len(a) = p - 1 - 1 + 1
          /\ \A k \in 1 .. p - 1 - 1 + 1 : a[k] = s[1 + k - 1]
      BY <3>1, SubSeqFacts
    <3>. HIDE DEF a
    <3>3. p - 1 - 1 + 1 = p - 1 /\ \A k \in 1 .. p - 1 : 1 + k - 1 = k
      BY <2>2
    <3>. QED BY <3>2, <3>3
  <2>b. b \in Seq(S) /\ Len(b) = Len(s) - p /\ \A k \in 1 .. Len(s) - p : b[k] = s[p + k]
    <3>1. p + 1 \in Nat \ {0} /\ Len(s) \in Nat /\ p + 1 <= Len(s) + 1
      BY <1>1, <2>2
    <3>2. /\ b \in Seq(S) /\ Len(b) = Len(s) - (p + 1) + 1
          /\ \A k \in 1 .. Len(s) - (p + 1) + 1 : b[k] = s[(p + 1) + k - 1]
      BY ONLY <3>1, SubSeqFacts
    <3>. HIDE DEF b
    <3>3. /\ Len(s) - (p + 1) + 1 = Len(s) - p
          /\ \A k \in 1 .. Len(s) - p : (p + 1) + k - 1 = p + k
      BY <3>1, <2>2
    <3>. QED BY <3>2, <3>3
  <2>c. r = a \o b
    BY DEF RemoveAt
  <2>. HIDE DEF a, b, r
  <2>3. /\ r \in Seq(S) /\ Len(r) = Len(a) + Len(b)
        /\ \A k \in 1 .. Len(a) + Len(b) : r[k] = IF k <= Len(a) THEN a[k] ELSE b[k - Len(a)]
    BY <2>a, <2>b, <2>c, ConcatProperties
  <2>4. r \in Seq(S) /\ Len(r) = Len(s) - 1
    BY <1>1, <2>2, <2>3, <2>a, <2>b
  <2>5. \A k \in 1 .. Len(s) - 1 : r[k] = IF k < p THEN s[k] ELSE s[k + 1]
    <3>. SUFFICES ASSUME NEW k \in 1 .. Len(s) - 1
                  PROVE  r[k] = IF k < p THEN s[k] ELSE s[k + 1]
      OBVIOUS
    <3>1. r[k] = IF k <= p - 1 THEN a[k] ELSE b[k - (p - 1)]
      BY <1>1, <2>2, <2>3, <2>a, <2>b
    <3>2. CASE k < p
      BY <3>1, <3>2, <1>1, <2>2, <2>a
    <3>3. CASE k >= p
      <4>1. k - (p - 1) \in 1 .. Len(s) - p /\ p + (k - (p - 1)) = k + 1
        BY <3>3, <1>1, <2>2
      <4>2. b[k - (p - 1)] = s[p + (k - (p - 1))]
        BY <4>1, <2>b
      <4>. QED BY <3>1, <3>3, <4>1, <4>2, <1>1, <2>2
    <3>. QED BY <3>2, <3>3, <1>1, <2>2
  <2>6. \A k \in DOMAIN r : \E j \in DOMAIN s : s[j] = r[k]
    BY <1>1, <2>2, <2>4, <2>5
  <2>7. ASSUME NEW j \in DOMAIN s, s[j] # s[i]
        PROVE  \E k \in DOMAIN r : r[k] = s[j]
    <3>1. j # p
      BY <2>0, <2>7
    <3>2. CASE j < p
      BY <3>2, <1>1, <2>2, <2>4, <2>5
    <3>3. CASE j > p
      <4>1. j - 1 \in DOMAIN r /\ r[j - 1] = s[j]
        BY <3>3, <1>1, <2>2, <2>4, <2>5
      <4>. QED BY <4>1
    <3>. QED BY <3>1, <3>2, <3>3, <1>1, <2>2
  <2>. QED BY <2>1, <2>4, <2>6, <2>7, <1>4
<1>. QED BY <1>2, <1>3, <1>4

-----------------------------------------------------------------------------
(* Steps that leave the main thread where it is.                           *)

Elsewhere ==
  \/ Return \/ OpenDialog \/ CloseDialog \/ SigInt \/ SigUsr1 \/ SigUsr2
  \/ \E f \in FSTs : UserCloses(f)
  \/ \E t \in Nodes : WalkStep(t)
  \/ \E i \in Nodes : BeginCycle(i) \/ EndCycle(i) \/ Unplug(i) \/ Plug(i)
  \/ UNCHANGED vars

(* The others, which the main thread makes when no call is under way.      *)
Moves ==
  \/ Starts \/ Runs \/ Ends \/ DestroyWindow
  \/ \E i \in Nodes : Replace(i) \/ ReplaceFails(i)

LEMMA StepKinds == ASSUME [Next]_vars PROVE Elsewhere \/ Moves
BY DEF Next, MainStep, UserStep, Elsewhere, Moves

USE HostAssumption DEF None

LEMMA HostNumbers ==
  /\ Plugins \in Nat /\ Plugins >= 1 /\ 1 \in Nodes
  /\ \A i \in Nodes : i \in Nat /\ i \in FSTs /\ i + Plugins \in FSTs /\ i # i + Plugins
  /\ \A f \in FSTs : f \in Nat /\ f # 0 /\ NodeOf(f) \in Nodes
  /\ \A i \in Nodes : NodeOf(i) = i /\ NodeOf(i + Plugins) = i
BY DEF Nodes, FSTs, NodeOf

LEMMA ReturnFacts ==
  ASSUME MoreTypes, StackInv, Return
  PROVE  /\ Where' = Where
         /\ \/ /\ stack' = Front(stack) /\ pc' = Last(stack).after /\ UNCHANGED call
               /\ Last(stack).todo = <<>> /\ stack' \in Seq(Frame)
            \/ /\ UNCHANGED pc /\ Len(stack) = 1 /\ stack[1].todo = <<"OPEN">>
               /\ call' = [call EXCEPT ![stack[1].fst] = "OPEN"]
               /\ stack' = << [stack[1] EXCEPT !.todo = <<>>] >>
<1>0. pc = "wait" /\ stack # <<>> /\ stack \in Seq(Frame) /\ Len(stack) \in Nat \ {0}
  BY EmptySeq DEF Return, MoreTypes, StackInv
<1>1. /\ Last(stack) = stack[Len(stack)] /\ Last(stack) \in Frame
      /\ Front(stack) \in Seq(Frame) /\ Len(Front(stack)) = Len(stack) - 1
      /\ \A k \in 1 .. Len(stack) - 1 : Front(stack)[k] = stack[k]
      /\ Len(stack) = 1 => Front(stack) = <<>>
  BY <1>0, FrontFacts, LastFacts
<1>2. CASE Last(stack).todo = <<>>
  <2>1. stack' = Front(stack) /\ pc' = Last(stack).after /\ UNCHANGED call
    BY <1>2 DEF Return
  <2>2. CASE Len(stack) = 1
    BY <2>1, <2>2, <1>0, <1>1, <1>2 DEF Where
  <2>3. CASE Len(stack) # 1
    <3>1. Front(stack) # <<>> /\ Front(stack)[1] = stack[1]
      BY <2>3, <1>0, <1>1, EmptySeq
    <3>. QED BY <3>1, <2>1, <1>0, <1>1, <1>2 DEF Where
  <2>. QED BY <2>2, <2>3
<1>3. CASE Last(stack).todo # <<>>
  <2>1. Len(stack) = 1
    BY <1>0, <1>1, <1>3 DEF StackInv
  <2>2. stack[1].todo = <<"OPEN">> /\ stack = << stack[1] >>
    BY <2>1, <1>0, <1>1, <1>3 DEF Frame
  <2>3. /\ UNCHANGED pc /\ call' = [call EXCEPT ![stack[1].fst] = Head(stack[1].todo)]
        /\ stack' = [stack EXCEPT ![1].todo = Tail(stack[1].todo)]
    BY <1>1, <1>3, <2>1 DEF Return
  <2>4. Head(stack[1].todo) = "OPEN" /\ Tail(stack[1].todo) = <<>>
    BY <2>2
  <2>5. call' = [call EXCEPT ![stack[1].fst] = "OPEN"] /\ stack' = << [stack[1] EXCEPT !.todo = <<>>] >>
    BY <2>2, <2>3, <2>4
  <2>. QED BY <2>1, <2>2, <2>3, <2>5, <1>0, <1>1 DEF Where, Frame
<1>. QED BY <1>2, <1>3

(* A signal can only be handled while every node has its FST.              *)
LEMMA SigUsr1Facts ==
  ASSUME IInv, SigUsr1
  PROVE  /\ pc \in Labels \cup {"wait"} /\ phase \in {"running", "ending"}
         /\ \/ UNCHANGED <<call, stack, pc>>
            \/ UNCHANGED <<call, stack>> /\ pc' = "stuck" /\ stack # <<>>
            \/ /\ fst[1] \in FSTs /\ \A k \in DOMAIN stack : stack[k].fst # fst[1]
               /\ call' = [call EXCEPT ![fst[1]] = "DISPATCHER"] /\ pc' = "wait"
               /\ stack' = Append(stack, [fst |-> fst[1], todo |-> <<>>, after |-> pc])
         /\ UNCHANGED misused \/ LateUsers
<1>1. pc \in Labels \cup {"wait"} /\ phase \in {"running", "ending"}
  BY DEF SigUsr1, Alive, IInv, MoreTypes
<1>2. Where # "crashed"
  BY <1>1 DEF Where, IInv, StackInv, Labels, StartLabels, RunLabels, EndLabels
<1>3. fst[1] \in FSTs
  <2>1. Known(1)
    BY <1>1, <1>2 DEF Known
  <2>. QED BY <2>1, HostNumbers DEF IInv, NodeInv, NodeOK, TypeOK
<1>4. CASE 1 \in freed
  <2>1. phase = "ending"
    BY <1>1, <1>4 DEF IInv, PhaseInv
  <2>. QED BY <1>1, <1>4, <2>1 DEF SigUsr1, calls
<1>5. CASE 1 \notin freed /\ \E k \in DOMAIN stack : stack[k].fst = fst[1]
  <2>1. stack # <<>>
    BY <1>5
  <2>. QED BY <1>1, <1>5, <2>1 DEF SigUsr1, calls
<1>6. CASE 1 \notin freed /\ ~(\E k \in DOMAIN stack : stack[k].fst = fst[1])
  BY <1>1, <1>3, <1>6 DEF SigUsr1, Call
<1>. QED BY <1>4, <1>5, <1>6

LEMMA ElsewhereKeeps ==
  ASSUME IInv, Elsewhere
  PROVE  /\ Where' = Where
         /\ UNCHANGED <<opt, n, phase, linked, freed, fst, jack, list, idle>>
<1>1. CASE Return
  BY <1>1, ReturnFacts DEF IInv, Return, options, nodes, plugs, walks
<1>2. CASE SigUsr1
  <2>1. UNCHANGED <<opt, n, phase, linked, freed, fst, jack, list, idle>>
    BY <1>2 DEF SigUsr1, nodes, plugs, walks
  <2>2. CASE UNCHANGED <<call, stack, pc>>
    BY <2>1, <2>2 DEF Where
  <2>3. CASE UNCHANGED <<call, stack>> /\ pc' = "stuck" /\ stack # <<>>
    BY <2>1, <2>3 DEF Where
  <2>4. CASE stack' = Append(stack, [fst |-> fst[1], todo |-> <<>>, after |-> pc])
    <3>1. CASE stack = <<>>
      <4>1. stack' = << [fst |-> fst[1], todo |-> <<>>, after |-> pc] >>
        BY <2>4, <3>1
      <4>. QED BY <4>1, <3>1, <2>1 DEF Where
    <3>2. CASE stack # <<>>
      <4>1. stack \in Seq(Frame) /\ Len(stack) \in Nat \ {0}
        BY <3>2, EmptySeq DEF IInv, MoreTypes
      <4>2. stack' # <<>> /\ stack'[1] = stack[1]
        BY <4>1, <2>4
      <4>. QED BY <3>2, <4>2, <2>1 DEF Where
    <3>. QED BY <3>1, <3>2
  <2>. QED BY <1>2, <2>1, <2>2, <2>3, <2>4, SigUsr1Facts
<1>3. CASE OpenDialog \/ CloseDialog \/ SigInt \/ SigUsr2
  BY <1>3 DEF OpenDialog, CloseDialog, SigInt, SigUsr2, Where, options, nodes, plugs, walks, calls
<1>4. CASE \E f \in FSTs : UserCloses(f)
  BY <1>4 DEF UserCloses, Where, nodes, walks, calls
<1>5. CASE \E t \in Nodes : WalkStep(t)
  BY <1>5 DEF WalkStep, BeginWalk, Idle, ServeCall, Where, options, nodes, plugs, calls
<1>6. CASE \E i \in Nodes : BeginCycle(i) \/ EndCycle(i) \/ Unplug(i) \/ Plug(i)
  BY <1>6 DEF BeginCycle, EndCycle, Unplug, Plug, Replug, Where, options, nodes, plugs, walks, calls
<1>7. CASE UNCHANGED vars
  BY <1>7 DEF vars, Where, options, nodes, plugs, walks, calls
<1>. QED BY <1>1, <1>2, <1>3, <1>4, <1>5, <1>6, <1>7 DEF Elsewhere

LEMMA MovesFrom ==
  ASSUME IInv, Moves
  PROVE  /\ stack = <<>> /\ Where = pc /\ pc \in Labels
         /\ \A f \in FSTs : call[f] = "none"
<1>1. pc \in Labels
  <2>. USE DEF Labels, StartLabels, RunLabels, EndLabels
  <2>1. CASE Starts
    BY <2>1 DEF Starts, NewPlugin, Load, LoadFails, Opened, JackInit, JackInitFails, Activate,
                Bind, Serve, ServeFails
  <2>2. CASE Runs
    BY <2>2 DEF Runs, Tick, Poll, RunEditor, EditorsRun, CloseEditor, Leave
  <2>3. CASE Ends
    BY <2>3 DEF Ends, CloseNode, Unbind, Deactivate, Close, ThreadRemove, Free
  <2>4. CASE DestroyWindow \/ \E i \in Nodes : Replace(i) \/ ReplaceFails(i)
    BY <2>4 DEF DestroyWindow, Replace, ReplaceFails
  <2>. QED BY <2>1, <2>2, <2>3, <2>4 DEF Moves
<1>2. stack = <<>>
  BY <1>1 DEF IInv, StackInv, Labels, StartLabels, RunLabels, EndLabels
<1>. QED BY <1>1, <1>2 DEF Where, IInv, StackInv

(* What a call of the main thread does when it makes none yet.             *)
OneCall(f, c, after) ==
  /\ call' = [call EXCEPT ![f] = c] /\ pc' = "wait"
  /\ stack' = << [fst |-> f, todo |-> <<>>, after |-> after] >>

Opens(i, f, after) ==
  /\ stage' = [stage EXCEPT ![f] = "listed"]
  /\ list' = [list EXCEPT ![Thread(i)] = Append(@, f)]
  /\ n' = i /\ call' = [call EXCEPT ![f] = "INIT"] /\ pc' = "wait"
  /\ stack' = << [fst |-> f, todo |-> <<"OPEN">>, after |-> after] >>
  /\ at[Thread(i)] = None
  /\ UNCHANGED <<opt, phase, linked, freed, fst, jack, cycle, idle, at, step, misused>>

LEMMA Calls ==
  ASSUME stack = <<>>
  PROVE  /\ JackInit => OneCall(fst[n], "RESUME", "activate")
         /\ RunEditor => IF window[fst[n]] THEN UNCHANGED <<calls, pc>>
                         ELSE OneCall(fst[n], "EDITOR_OPEN", "edit")
         /\ CloseEditor => IF n <= Plugins THEN OneCall(fst[n], "EDITOR_CLOSE", "destroy")
                           ELSE pc' = "leave" /\ UNCHANGED calls
         /\ Close => IF fst[n] = None THEN pc' = "free" /\ UNCHANGED calls
                     ELSE OneCall(fst[n], "CLOSE", "remove")
         /\ Load => Opens(n, n, "opened")
         /\ \A i \in Nodes : Replace(i) => Opens(i, i + Plugins, "opened")
<1>. USE DEF Call, OneCall
<1>1. JackInit => OneCall(fst[n], "RESUME", "activate")
  BY DEF JackInit
<1>2. RunEditor => IF window[fst[n]] THEN UNCHANGED <<calls, pc>>
                   ELSE OneCall(fst[n], "EDITOR_OPEN", "edit")
  BY DEF RunEditor
<1>3. CloseEditor => IF n <= Plugins THEN OneCall(fst[n], "EDITOR_CLOSE", "destroy")
                     ELSE pc' = "leave" /\ UNCHANGED calls
  BY DEF CloseEditor
<1>4. Close => IF fst[n] = None THEN pc' = "free" /\ UNCHANGED calls
               ELSE OneCall(fst[n], "CLOSE", "remove")
  BY DEF Close
<1>5. Load => Opens(n, n, "opened")
  BY DEF Load, Open, Opens, Unlocked, options, nodes
<1>6. \A i \in Nodes : Replace(i) => Opens(i, i + Plugins, "opened")
  BY DEF Replace, Open, Opens, Unlocked, options, nodes
<1>. QED BY <1>1, <1>2, <1>3, <1>4, <1>5, <1>6

LEMMA NodeLabels ==
  ASSUME IInv
  PROVE  /\ Where \in Labels \cup {"exited", "crashed"}
         /\ Where \in {"load", "opened", "init", "activate", "bind", "unbind", "deactivate",
                       "close", "remove", "free"} => n \in Nodes
         /\ linked \in 0 .. Plugins /\ n \in 1 .. Plugins + 1
         /\ Where \in {"over"} => n <= linked + 1
         /\ Where \in {"init", "activate", "bind"} => fst[n] \in {n, n + Plugins}
         /\ Where \in {"loop", "poll", "edit", "destroy", "leave"} =>
              \A i \in Nodes : fst[i] \in {i, i + Plugins}
<1>. USE DEF Labels, StartLabels, RunLabels, EndLabels
<1>1. linked \in 0 .. Plugins /\ n \in 1 .. Plugins + 1
  BY DEF IInv, TypeOK
<1>2. phase \in {"starting", "running", "ending", "failed"}
  BY DEF IInv, TypeOK
<1>3. Where \in Labels \cup {"exited", "crashed"}
  BY <1>2 DEF IInv, PhaseInv, Ending
<1>4. Where \in {"load", "opened", "init", "activate", "bind", "unbind", "deactivate",
                 "close", "remove", "free"} => n \in Nodes
  BY <1>1, <1>2 DEF IInv, PhaseInv, Ending, Nodes
<1>5. Where \in {"over"} => n <= linked + 1
  BY <1>1, <1>2 DEF IInv, PhaseInv, Ending
<1>6. Where \in {"init", "activate", "bind"} => fst[n] \in {n, n + Plugins}
  <2>. SUFFICES ASSUME Where \in {"init", "activate", "bind"}
                PROVE  fst[n] \in {n, n + Plugins}
    OBVIOUS
  <2>1. phase = "starting" /\ n \in Nodes
    BY <1>2, <1>4 DEF IInv, PhaseInv, Ending
  <2>2. Known(n)
    BY <2>1 DEF Known
  <2>. QED BY <2>1, <2>2 DEF IInv, NodeInv, NodeOK
<1>7. Where \in {"loop", "poll", "edit", "destroy", "leave"} =>
        \A i \in Nodes : fst[i] \in {i, i + Plugins}
  <2>. SUFFICES ASSUME Where \in {"loop", "poll", "edit", "destroy", "leave"}, NEW i \in Nodes
                PROVE  fst[i] \in {i, i + Plugins}
    OBVIOUS
  <2>1. phase = "running"
    BY <1>2 DEF IInv, PhaseInv, Ending
  <2>2. Known(i)
    BY <2>1 DEF Known
  <2>. QED BY <2>2 DEF IInv, NodeInv, NodeOK
<1>. QED BY <1>1, <1>3, <1>4, <1>5, <1>6, <1>7

-----------------------------------------------------------------------------
(* Types                                                                   *)

LEMMA OneFrame ==
  ASSUME NEW f \in FSTs, NEW todo \in {<<>>, <<"OPEN">>}, NEW after \in Labels
  PROVE  << [fst |-> f, todo |-> todo, after |-> after] >> \in Seq(Frame)
<1>1. [fst |-> f, todo |-> todo, after |-> after] \in Frame
  BY DEF Frame
<1>. QED BY <1>1

LEMMA OneCallTypes ==
  ASSUME NEW f \in FSTs, NEW c \in CallTypes, NEW after \in Labels, IInv, OneCall(f, c, after)
  PROVE  /\ call' \in [FSTs -> CallTypes] /\ stack' \in Seq(Frame)
         /\ pc' \in Labels \cup {"wait", "stuck", "exited", "crashed"}
BY OneFrame DEF OneCall, IInv, MoreTypes

LEMMA OpensTypes ==
  ASSUME NEW i \in Nodes, NEW f \in FSTs, IInv, Opens(i, f, "opened")
  PROVE  TypeOK' /\ MoreTypes'
<1>. USE DEF IInv, TypeOK, MoreTypes
<1>1. stack' \in Seq(Frame)
  BY OneFrame DEF Opens, Labels, StartLabels
<1>2. call' \in [FSTs -> CallTypes]
  BY DEF Opens, CallTypes
<1>3. list' \in [Nodes -> Seq(FSTs)]
  <2>1. Thread(i) \in Nodes
    BY HostNumbers DEF Thread
  <2>2. Append(list[Thread(i)], f) \in Seq(FSTs)
    BY <2>1
  <2>. QED BY <2>1, <2>2 DEF Opens
<1>4. stage' \in [FSTs -> {"none", "listed", "open", "closed", "freed"}]
  BY DEF Opens
<1>5. n' \in 1 .. Plugins + 1
  BY DEF Opens, Nodes
<1>. QED BY <1>1, <1>2, <1>3, <1>4, <1>5 DEF Opens

(* Most steps of the main thread leave the event threads alone.            *)
kept == <<opt, cycle, stage, call, list, at, step, stack>>

PhaseTypes == phase \in {"starting", "running", "ending", "failed"} /\ linked \in 0 .. Plugins /\ freed \subseteq 1 .. linked
NodeTypes ==
  /\ fst \in [Nodes -> FSTs \cup {None}] /\ jack \in [Nodes -> {"none", "open", "active"}]
  /\ idle \in [FSTs -> Nodes \cup {None}]
PlaceTypes ==
  n \in 1 .. Plugins + 1 /\ pc \in Labels \cup {"wait", "stuck", "exited", "crashed"}

LEMMA SameTypes ==
  ASSUME TypeOK, MoreTypes, UNCHANGED kept, PhaseTypes', NodeTypes', PlaceTypes'
  PROVE  TypeOK' /\ MoreTypes'
BY DEF TypeOK, MoreTypes, kept, PhaseTypes, NodeTypes, PlaceTypes

LEMMA TypeParts == ASSUME TypeOK, MoreTypes PROVE PhaseTypes /\ NodeTypes /\ PlaceTypes
BY DEF TypeOK, MoreTypes, PhaseTypes, NodeTypes, PlaceTypes

LEMMA MovesTypes == ASSUME IInv, Moves PROVE TypeOK' /\ MoreTypes'
<1>0. /\ stack = <<>> /\ Where = pc /\ n \in 1 .. Plugins + 1 /\ linked \in 0 .. Plugins
      /\ TypeOK /\ MoreTypes /\ PhaseTypes /\ NodeTypes /\ PlaceTypes
  BY MovesFrom, NodeLabels, TypeParts DEF IInv
<1>. USE DEF Labels, StartLabels, RunLabels, EndLabels, options, wishes, nodes, plugs, walks, calls
<1>1. CASE Load \/ \E i \in Nodes : Replace(i)
  <2>1. CASE Load
    <3>1. pc = "load" /\ n \in Nodes /\ n \in FSTs
      BY <2>1, <1>0, NodeLabels, HostNumbers DEF Load
    <3>2. PICK i \in Nodes : i = n
      BY <3>1
    <3>3. i \in FSTs /\ Opens(i, i, "opened")
      BY <3>1, <3>2, <2>1, <1>0, Calls
    <3>. QED BY <3>3, OpensTypes
  <2>2. CASE \E i \in Nodes : Replace(i)
    <3>1. PICK i \in Nodes : Replace(i)
      BY <2>2
    <3>2. Opens(i, i + Plugins, "opened") /\ i + Plugins \in FSTs
      BY <3>1, <1>0, Calls, HostNumbers
    <3>. QED BY <3>2, OpensTypes
  <2>. QED BY <1>1, <2>1, <2>2
<1>2. CASE NewPlugin
  <2>0. freed = {} /\ linked \in Nat
    BY <1>2, <1>0 DEF NewPlugin, IInv, PhaseInv, Ending, PhaseTypes
  <2>1. UNCHANGED kept
    BY <1>2 DEF NewPlugin, kept
  <2>2. PhaseTypes'
    BY <1>2, <1>0, <2>0 DEF NewPlugin, PhaseTypes
  <2>3. NodeTypes'
    BY <1>2, <1>0 DEF NewPlugin, NodeTypes
  <2>4. PlaceTypes'
    BY <1>2, <1>0 DEF NewPlugin, PlaceTypes
  <2>. QED BY <1>0, <2>1, <2>2, <2>3, <2>4, SameTypes
<1>3. CASE LoadFails
  <2>1. UNCHANGED kept
    BY <1>3 DEF LoadFails, GameOver, kept
  <2>2. PhaseTypes'
    BY <1>3, <1>0 DEF LoadFails, GameOver, PhaseTypes
  <2>3. NodeTypes'
    BY <1>3, <1>0 DEF LoadFails, GameOver, NodeTypes
  <2>4. PlaceTypes'
    BY <1>3, <1>0 DEF LoadFails, GameOver, PlaceTypes
  <2>. QED BY <1>0, <2>1, <2>2, <2>3, <2>4, SameTypes
<1>4. CASE Opened
  <2>0. n \in Nodes /\ n \in FSTs /\ n + Plugins \in FSTs
    BY <1>4, <1>0, NodeLabels, HostNumbers DEF Opened
  <2>1. UNCHANGED kept
    BY <1>4 DEF Opened, kept
  <2>2. PhaseTypes'
    BY <1>4, <1>0 DEF Opened, PhaseTypes
  <2>3. NodeTypes'
    BY <1>4, <1>0, <2>0 DEF Opened, NodeTypes
  <2>4. PlaceTypes'
    BY <1>4, <1>0 DEF Opened, PlaceTypes
  <2>. QED BY <1>0, <2>1, <2>2, <2>3, <2>4, SameTypes
<1>5. CASE JackInit
  <2>1. fst[n] \in FSTs /\ n \in Nodes
    BY <1>5, <1>0, NodeLabels, HostNumbers DEF JackInit
  <2>2. OneCall(fst[n], "RESUME", "activate")
    BY <1>5, <1>0, Calls
  <2>3. PICK f \in FSTs : f = fst[n]
    BY <2>1
  <2>4. /\ call' \in [FSTs -> CallTypes] /\ stack' \in Seq(Frame)
        /\ pc' \in Labels \cup {"wait", "stuck", "exited", "crashed"}
    BY <2>2, <2>3, OneCallTypes DEF CallTypes
  <2>. QED BY <2>4, <1>5, <1>0 DEF JackInit, TypeOK, MoreTypes
<1>6. CASE JackInitFails
  <2>1. UNCHANGED kept
    BY <1>6 DEF JackInitFails, GameOver, kept
  <2>2. PhaseTypes'
    BY <1>6, <1>0 DEF JackInitFails, GameOver, PhaseTypes
  <2>3. NodeTypes'
    BY <1>6, <1>0 DEF JackInitFails, GameOver, NodeTypes
  <2>4. PlaceTypes'
    BY <1>6, <1>0 DEF JackInitFails, GameOver, PlaceTypes
  <2>. QED BY <1>0, <2>1, <2>2, <2>3, <2>4, SameTypes
<1>7. CASE Activate
  <2>1. UNCHANGED kept
    BY <1>7 DEF Activate, kept
  <2>2. PhaseTypes'
    BY <1>7, <1>0 DEF Activate, PhaseTypes
  <2>3. NodeTypes'
    BY <1>7, <1>0 DEF Activate, NodeTypes
  <2>4. PlaceTypes'
    BY <1>7, <1>0 DEF Activate, PlaceTypes
  <2>. QED BY <1>0, <2>1, <2>2, <2>3, <2>4, SameTypes
<1>8. CASE Bind
  <2>0. n \in Nodes /\ n \in 1 .. Plugins
    BY <1>8, <1>0, NodeLabels DEF Bind, Nodes
  <2>1. UNCHANGED kept
    BY <1>8 DEF Bind, SetIdle, kept
  <2>2. PhaseTypes'
    BY <1>8, <1>0 DEF Bind, SetIdle, PhaseTypes
  <2>3. NodeTypes'
    BY <1>8, <1>0, <2>0 DEF Bind, SetIdle, NodeTypes
  <2>4. PlaceTypes'
    BY <1>8, <1>0, <2>0 DEF Bind, SetIdle, PlaceTypes
  <2>. QED BY <1>0, <2>1, <2>2, <2>3, <2>4, SameTypes
<1>9. CASE Serve
  <2>1. UNCHANGED kept
    BY <1>9 DEF Serve, kept
  <2>2. PhaseTypes'
    BY <1>9, <1>0 DEF Serve, PhaseTypes
  <2>3. NodeTypes'
    BY <1>9, <1>0 DEF Serve, NodeTypes
  <2>4. PlaceTypes'
    BY <1>9, <1>0 DEF Serve, PlaceTypes
  <2>. QED BY <1>0, <2>1, <2>2, <2>3, <2>4, SameTypes
<1>10. CASE ServeFails
  <2>1. UNCHANGED kept
    BY <1>10 DEF ServeFails, kept
  <2>2. PhaseTypes'
    BY <1>10, <1>0 DEF ServeFails, PhaseTypes
  <2>3. NodeTypes'
    BY <1>10, <1>0 DEF ServeFails, NodeTypes
  <2>4. PlaceTypes'
    BY <1>10, <1>0 DEF ServeFails, PlaceTypes
  <2>. QED BY <1>0, <2>1, <2>2, <2>3, <2>4, SameTypes
<1>11. CASE RunEditor
  <2>1. n \in Nodes /\ fst[n] \in FSTs
    BY <1>11, <1>0, NodeLabels, HostNumbers DEF RunEditor, Nodes
  <2>2. PICK f \in FSTs : f = fst[n]
    BY <2>1
  <2>3. /\ call' \in [FSTs -> CallTypes] /\ stack' \in Seq(Frame)
        /\ pc' \in Labels \cup {"wait", "stuck", "exited", "crashed"}
    <3>1. CASE window[fst[n]]
      BY <3>1, <1>0, <1>11, Calls DEF MoreTypes
    <3>2. CASE ~window[fst[n]]
      <4>1. OneCall(f, "EDITOR_OPEN", "edit")
        BY <3>2, <2>2, <1>0, <1>11, Calls
      <4>. QED BY <4>1, OneCallTypes DEF CallTypes
    <3>. QED BY <3>1, <3>2
  <2>4. n' \in 1 .. Plugins + 1
    BY <2>1, <1>11 DEF RunEditor, Nodes
  <2>. QED BY <2>3, <2>4, <1>11, <1>0 DEF RunEditor, TypeOK, MoreTypes
<1>12. CASE CloseEditor
  <2>1. CASE n <= Plugins
    <3>1. n \in Nodes /\ fst[n] \in FSTs
      BY <2>1, <1>12, <1>0, NodeLabels, HostNumbers DEF CloseEditor, Nodes
    <3>2. PICK f \in FSTs : f = fst[n]
      BY <3>1
    <3>3. OneCall(f, "EDITOR_CLOSE", "destroy")
      BY <2>1, <3>2, <1>0, <1>12, Calls
    <3>4. /\ call' \in [FSTs -> CallTypes] /\ stack' \in Seq(Frame)
          /\ pc' \in Labels \cup {"wait", "stuck", "exited", "crashed"}
      BY <3>3, OneCallTypes DEF CallTypes
    <3>5. n' \in 1 .. Plugins + 1
      BY <2>1, <3>1, <1>12 DEF CloseEditor, Nodes
    <3>. QED BY <3>4, <3>5, <1>12, <1>0, <2>1 DEF CloseEditor, TypeOK, MoreTypes
  <2>2. CASE ~(n <= Plugins)
    BY <2>2, <1>12, <1>0 DEF CloseEditor, TypeOK, MoreTypes
  <2>. QED BY <2>1, <2>2
<1>13. CASE Tick
  <2>1. UNCHANGED kept
    BY <1>13 DEF Tick, kept
  <2>2. PhaseTypes'
    BY <1>13, <1>0 DEF Tick, PhaseTypes
  <2>3. NodeTypes'
    BY <1>13, <1>0 DEF Tick, NodeTypes
  <2>4. PlaceTypes'
    BY <1>13, <1>0 DEF Tick, PlaceTypes
  <2>. QED BY <1>0, <2>1, <2>2, <2>3, <2>4, SameTypes
<1>14. CASE Poll
  <2>1. UNCHANGED kept
    BY <1>14 DEF Poll, kept
  <2>2. PhaseTypes'
    BY <1>14, <1>0 DEF Poll, PhaseTypes
  <2>3. NodeTypes'
    BY <1>14, <1>0 DEF Poll, NodeTypes
  <2>4. PlaceTypes'
    BY <1>14, <1>0 DEF Poll, PlaceTypes
  <2>. QED BY <1>0, <2>1, <2>2, <2>3, <2>4, SameTypes
<1>15. CASE Close
  <2>1. CASE fst[n] = None
    BY <2>1, <1>15, <1>0 DEF Close, TypeOK, MoreTypes
  <2>2. CASE fst[n] # None
    <3>1. n \in Nodes /\ fst[n] \in FSTs
      BY <2>2, <1>15, <1>0, NodeLabels DEF Close, TypeOK
    <3>2. PICK f \in FSTs : f = fst[n]
      BY <3>1
    <3>3. OneCall(f, "CLOSE", "remove")
      BY <2>2, <3>2, <1>0, <1>15, Calls
    <3>4. /\ call' \in [FSTs -> CallTypes] /\ stack' \in Seq(Frame)
          /\ pc' \in Labels \cup {"wait", "stuck", "exited", "crashed"}
      BY <3>3, OneCallTypes DEF CallTypes
    <3>. QED BY <3>4, <2>2, <1>15, <1>0 DEF Close, TypeOK, MoreTypes
  <2>. QED BY <2>1, <2>2
<1>16. CASE ThreadRemove
  <2>1. n \in Nodes /\ Thread(n) \in Nodes /\ Listed(Thread(n), fst[n])
    BY <1>16, <1>0, NodeLabels, HostNumbers DEF ThreadRemove, Thread, IInv, ListInv, MoreTypes
  <2>2. Unlinked(list[Thread(n)], fst[n]) \in Seq(FSTs)
    BY <2>1, <1>0, UnlinkedFacts DEF Listed, TypeOK
  <2>3. list' \in [Nodes -> Seq(FSTs)]
    BY <2>1, <2>2, <1>16, <1>0 DEF ThreadRemove, TypeOK
  <2>. QED BY <2>3, <1>16, <1>0 DEF ThreadRemove, TypeOK, MoreTypes
<1>17. CASE Free
  <2>1. n \in 1 .. linked
    BY <1>17, <1>0 DEF Free, IInv, PhaseInv, Ending, TypeOK
  <2>2. freed' \subseteq 1 .. linked /\ n' \in 1 .. Plugins + 1
    BY <2>1, <1>17, <1>0 DEF Free, TypeOK
  <2>3. stage' \in [FSTs -> {"none", "listed", "open", "closed", "freed"}]
    BY <1>17, <1>0 DEF Free, TypeOK
  <2>. QED BY <2>2, <2>3, <1>17, <1>0 DEF Free, TypeOK, MoreTypes
<1>18. CASE EditorsRun
  <2>1. UNCHANGED kept
    BY <1>18 DEF EditorsRun, kept
  <2>2. PhaseTypes'
    BY <1>18, <1>0 DEF EditorsRun, PhaseTypes
  <2>3. NodeTypes'
    BY <1>18, <1>0 DEF EditorsRun, NodeTypes
  <2>4. PlaceTypes'
    BY <1>18, <1>0 DEF EditorsRun, PlaceTypes
  <2>. QED BY <1>0, <2>1, <2>2, <2>3, <2>4, SameTypes
<1>19. CASE DestroyWindow
  <2>1. UNCHANGED kept
    BY <1>19 DEF DestroyWindow, kept
  <2>2. PhaseTypes'
    BY <1>19, <1>0 DEF DestroyWindow, PhaseTypes
  <2>3. NodeTypes'
    BY <1>19, <1>0 DEF DestroyWindow, NodeTypes
  <2>4. PlaceTypes'
    BY <1>19, <1>0 DEF DestroyWindow, PlaceTypes
  <2>. QED BY <1>0, <2>1, <2>2, <2>3, <2>4, SameTypes
<1>20. CASE Leave
  <2>1. UNCHANGED kept
    BY <1>20 DEF Leave, GameOver, kept
  <2>2. PhaseTypes'
    BY <1>20, <1>0 DEF Leave, GameOver, PhaseTypes
  <2>3. NodeTypes'
    BY <1>20, <1>0 DEF Leave, GameOver, NodeTypes
  <2>4. PlaceTypes'
    BY <1>20, <1>0 DEF Leave, GameOver, PlaceTypes
  <2>. QED BY <1>0, <2>1, <2>2, <2>3, <2>4, SameTypes
<1>21. CASE CloseNode
  <2>1. UNCHANGED kept
    BY <1>21 DEF CloseNode, kept
  <2>2. PhaseTypes'
    BY <1>21, <1>0 DEF CloseNode, PhaseTypes
  <2>3. NodeTypes'
    BY <1>21, <1>0 DEF CloseNode, NodeTypes
  <2>4. PlaceTypes'
    BY <1>21, <1>0 DEF CloseNode, PlaceTypes
  <2>. QED BY <1>0, <2>1, <2>2, <2>3, <2>4, SameTypes
<1>22. CASE Unbind
  <2>1. UNCHANGED kept
    BY <1>22 DEF Unbind, SetIdle, kept
  <2>2. PhaseTypes'
    BY <1>22, <1>0 DEF Unbind, SetIdle, PhaseTypes
  <2>3. NodeTypes'
    BY <1>22, <1>0 DEF Unbind, SetIdle, NodeTypes
  <2>4. PlaceTypes'
    BY <1>22, <1>0 DEF Unbind, SetIdle, PlaceTypes
  <2>. QED BY <1>0, <2>1, <2>2, <2>3, <2>4, SameTypes
<1>23. CASE Deactivate
  <2>1. UNCHANGED kept
    BY <1>23 DEF Deactivate, kept
  <2>2. PhaseTypes'
    BY <1>23, <1>0 DEF Deactivate, PhaseTypes
  <2>3. NodeTypes'
    BY <1>23, <1>0 DEF Deactivate, NodeTypes
  <2>4. PlaceTypes'
    BY <1>23, <1>0 DEF Deactivate, PlaceTypes
  <2>. QED BY <1>0, <2>1, <2>2, <2>3, <2>4, SameTypes
<1>24. CASE \E i \in Nodes : ReplaceFails(i)
  <2>1. UNCHANGED kept
    BY <1>24 DEF ReplaceFails, kept
  <2>2. PhaseTypes'
    BY <1>24, <1>0 DEF ReplaceFails, PhaseTypes
  <2>3. NodeTypes'
    BY <1>24, <1>0 DEF ReplaceFails, NodeTypes
  <2>4. PlaceTypes'
    BY <1>24, <1>0 DEF ReplaceFails, PlaceTypes
  <2>. QED BY <1>0, <2>1, <2>2, <2>3, <2>4, SameTypes
<1>. QED
  BY <1>1, <1>2, <1>3, <1>4, <1>5, <1>6, <1>7, <1>8, <1>9, <1>10, <1>11, <1>12, <1>13, <1>14, <1>15, <1>16, <1>17, <1>18, <1>19, <1>20, <1>21, <1>22, <1>23, <1>24 DEF Moves, Starts, Runs, Ends

LEMMA ReachTypes ==
  ASSUME NEW t \in Nodes, NEW f \in FSTs \cup {None}, TypeOK, Reach(t, f)
  PROVE  at' \in [Nodes -> FSTs \cup {None}] /\ step' \in [Nodes -> {"idle", "send", "stranded", "serve"}]
BY DEF Reach, TypeOK

LEMMA FollowingType ==
  ASSUME IInv, NEW t \in Nodes, at[t] # None
  PROVE  /\ at[t] \in FSTs /\ Listed(t, at[t])
         /\ Following(list[t], at[t]) \in FSTs \cup {None}
         /\ Following(list[t], at[t]) # None => Listed(t, Following(list[t], at[t]))
<1>1. at[t] \in FSTs /\ list[t] \in Seq(FSTs) /\ Listed(t, at[t])
  BY DEF IInv, TypeOK, ListInv
<1>2. PICK k \in DOMAIN list[t] : list[t][k] = at[t]
  BY <1>1 DEF Listed
<1>3. Following(list[t], at[t]) # None =>
        \E j \in DOMAIN list[t] : list[t][j] = Following(list[t], at[t])
  BY <1>1, <1>2, FollowingFacts
<1>4. Following(list[t], at[t]) # None => Following(list[t], at[t]) \in FSTs
  BY <1>1, <1>3
<1>. QED BY <1>1, <1>3, <1>4 DEF Listed

LEMMA ElsewhereTypes == ASSUME IInv, Elsewhere PROVE TypeOK' /\ MoreTypes'
<1>0. /\ TypeOK /\ MoreTypes /\ UNCHANGED <<opt, n, phase, linked, freed, fst, jack, list, idle>>
  BY ElsewhereKeeps DEF IInv
<1>. USE DEF options, wishes, nodes, plugs, walks, calls
<1>1. CASE Return
  <2>1. UNCHANGED <<cycle, stage, at, step>>
    BY <1>1 DEF Return
  <2>2. \/ /\ stack' = Front(stack) /\ pc' = Last(stack).after /\ UNCHANGED call
           /\ stack' \in Seq(Frame)
        \/ /\ UNCHANGED pc /\ Len(stack) = 1
           /\ call' = [call EXCEPT ![stack[1].fst] = "OPEN"]
           /\ stack' = << [stack[1] EXCEPT !.todo = <<>>] >>
    BY <1>1, ReturnFacts DEF IInv
  <2>3. stack # <<>>
    BY <1>1 DEF Return, IInv, StackInv
  <2>4. Last(stack) \in Frame /\ stack[1] \in Frame
    BY <2>3, <1>0, LastFacts, EmptySeq DEF MoreTypes
  <2>5. CASE stack' = Front(stack) /\ pc' = Last(stack).after /\ UNCHANGED call /\ stack' \in Seq(Frame)
    <3>1. pc' \in Labels \cup {"wait"}
      BY <2>4, <2>5 DEF Frame
    <3>. QED BY <3>1, <2>1, <2>5, <1>0 DEF TypeOK, MoreTypes
  <2>6. CASE /\ UNCHANGED pc /\ call' = [call EXCEPT ![stack[1].fst] = "OPEN"]
             /\ stack' = << [stack[1] EXCEPT !.todo = <<>>] >>
    <3>1. [stack[1] EXCEPT !.todo = <<>>] \in Frame
      BY <2>4 DEF Frame
    <3>2. stack' \in Seq(Frame)
      BY <3>1, <2>6
    <3>3. call' \in [FSTs -> CallTypes]
      BY <2>6, <1>0 DEF MoreTypes, CallTypes
    <3>. QED BY <3>2, <3>3, <2>1, <2>6, <1>0 DEF TypeOK, MoreTypes
  <2>. QED BY <2>2, <2>5, <2>6
<1>2. CASE SigUsr1
  <2>1. UNCHANGED <<cycle, stage, at, step>>
    BY <1>2 DEF SigUsr1
  <2>2. call' \in [FSTs -> CallTypes] /\ stack' \in Seq(Frame)
        /\ pc' \in Labels \cup {"wait", "stuck", "exited", "crashed"}
    <3>1. CASE UNCHANGED <<call, stack>> /\ pc' \in {pc, "stuck"}
      BY <3>1, <1>0 DEF MoreTypes
    <3>2. CASE /\ fst[1] \in FSTs /\ call' = [call EXCEPT ![fst[1]] = "DISPATCHER"] /\ pc' = "wait"
               /\ stack' = Append(stack, [fst |-> fst[1], todo |-> <<>>, after |-> pc])
      <4>1. [fst |-> fst[1], todo |-> <<>>, after |-> pc] \in Frame
        BY <3>2, <1>2, SigUsr1Facts DEF Frame
      <4>2. stack' \in Seq(Frame)
        BY <4>1, <3>2, <1>0 DEF MoreTypes
      <4>. QED BY <4>2, <3>2, <1>0 DEF MoreTypes, CallTypes
    <3>. QED BY <3>1, <3>2, <1>2, SigUsr1Facts
  <2>. QED BY <2>1, <2>2, <1>0 DEF TypeOK, MoreTypes
<1>3. CASE OpenDialog \/ CloseDialog \/ SigInt \/ SigUsr2 \/ \E f \in FSTs : UserCloses(f)
  <2>1. UNCHANGED <<cycle, stage, at, step, call, stack, pc>>
    BY <1>3 DEF OpenDialog, CloseDialog, SigInt, SigUsr2, UserCloses
  <2>. QED BY <2>1, <1>0 DEF TypeOK, MoreTypes
<1>4. CASE \E t \in Nodes : BeginWalk(t)
  <2>1. PICK t \in Nodes : BeginWalk(t)
    BY <1>4
  <2>2. Head(list[t]) \in FSTs
    BY <2>1, <1>0 DEF BeginWalk, TypeOK
  <2>3. at' \in [Nodes -> FSTs \cup {None}] /\ step' \in [Nodes -> {"idle", "send", "stranded", "serve"}]
    <3>1. PICK f \in FSTs : f = Head(list[t])
      BY <2>2
    <3>. QED BY <3>1, <2>1, <1>0, ReachTypes DEF BeginWalk
  <2>4. UNCHANGED <<cycle, stage, call, stack, pc>>
    BY <2>1 DEF BeginWalk
  <2>. QED BY <2>3, <2>4, <1>0 DEF TypeOK, MoreTypes
<1>5. CASE \E t \in Nodes : Idle(t)
  <2>1. UNCHANGED <<cycle, stage, call, stack, pc, at>>
    BY <1>5 DEF Idle
  <2>2. step' \in [Nodes -> {"idle", "send", "stranded", "serve"}]
    BY <1>5, <1>0 DEF Idle, TypeOK
  <2>. QED BY <2>1, <2>2, <1>0 DEF TypeOK, MoreTypes
<1>6. CASE \E t \in Nodes : ServeCall(t)
  <2>1. PICK t \in Nodes : ServeCall(t)
    BY <1>6
  <2>2. at[t] \in FSTs /\ Following(list[t], at[t]) \in FSTs \cup {None}
    BY <2>1, FollowingType DEF ServeCall
  <2>3. at' \in [Nodes -> FSTs \cup {None}] /\ step' \in [Nodes -> {"idle", "send", "stranded", "serve"}]
    <3>1. PICK f \in FSTs \cup {None} : f = Following(list[t], at[t])
      BY <2>2
    <3>. QED BY <3>1, <2>1, <1>0, ReachTypes DEF ServeCall
  <2>4. stage' \in [FSTs -> {"none", "listed", "open", "closed", "freed"}]
    BY <2>1, <2>2, <1>0 DEF ServeCall, TypeOK
  <2>5. call' \in [FSTs -> CallTypes]
    BY <2>1, <2>2, <1>0 DEF ServeCall, MoreTypes, CallTypes
  <2>6. UNCHANGED <<cycle, stack, pc>>
    BY <2>1 DEF ServeCall
  <2>. QED BY <2>3, <2>4, <2>5, <2>6, <1>0 DEF TypeOK, MoreTypes
<1>7. CASE \E i \in Nodes : BeginCycle(i) \/ EndCycle(i) \/ Unplug(i) \/ Plug(i)
  <2>1. UNCHANGED <<stage, call, stack, pc, at>>
    BY <1>7 DEF BeginCycle, EndCycle, Unplug, Plug, Replug
  <2>2. cycle' \in [Nodes -> FSTs \cup {None}]
    <3>1. UNCHANGED cycle \/ \E i \in Nodes : \/ cycle' = [cycle EXCEPT ![i] = fst[i]]
                                             \/ cycle' = [cycle EXCEPT ![i] = None]
      BY <1>7 DEF BeginCycle, EndCycle, Unplug, Plug, Replug
    <3>. QED BY <3>1, <1>0 DEF TypeOK
  <2>3. \/ UNCHANGED step
        \/ \E s \in {"send", "stranded", "serve"}, ts \in SUBSET Nodes : StepTo(ts, s)
    <3>1. \A i \in Nodes, s \in {"send", "stranded"} : Waiting(i, s) \in SUBSET Nodes
      BY DEF Waiting
    <3>. QED BY <1>7, <3>1 DEF BeginCycle, EndCycle, Unplug, Plug, Replug
  <2>4. step' \in [Nodes -> {"idle", "send", "stranded", "serve"}]
    BY <2>3, <1>0 DEF StepTo, TypeOK
  <2>. QED BY <2>1, <2>2, <2>4, <1>0 DEF TypeOK, MoreTypes
<1>8. CASE UNCHANGED vars
  BY <1>8, <1>0 DEF vars, TypeOK, MoreTypes
<1>. QED BY <1>1, <1>2, <1>3, <1>4, <1>5, <1>6, <1>7, <1>8 DEF Elsewhere, WalkStep

-----------------------------------------------------------------------------
(* The main thread's calls                                                 *)

(* A step of the main thread makes no call, or one, or opens an FST.       *)
Goes == UNCHANGED <<stack, call>> /\ pc' \in (Labels \ {"opened", "remove"}) \cup {"exited", "crashed"}
Asks ==
  \E f \in FSTs, c \in CallTypes \ {"OPEN", "CLOSE"}, after \in Labels \ {"opened", "remove"} :
    OneCall(f, c, after)
Closes == \E f \in FSTs : f = fst[n] /\ OneCall(f, "CLOSE", "remove") /\ Close
Begins ==
  \E i \in Nodes, f \in FSTs :
    Opens(i, f, "opened") /\ \/ f = i /\ Load /\ i = n
                             \/ f = i + Plugins /\ Replace(i)

LEMMA MoveKinds == ASSUME IInv, Moves PROVE Goes \/ Asks \/ Closes \/ Begins
<1>0. stack = <<>> /\ Where = pc
  BY MovesFrom
<1>. USE DEF Labels, StartLabels, RunLabels, EndLabels
<1>3. CASE Starts
  <2>1. CASE Load
    <3>1. PICK i \in Nodes : i = n
      BY <2>1, <1>0, NodeLabels DEF Load
    <3>2. i \in FSTs /\ Opens(i, i, "opened")
      BY <3>1, <2>1, <1>0, Calls, HostNumbers
    <3>. QED BY <3>1, <3>2, <2>1 DEF Begins
  <2>2. CASE JackInit
    <3>1. n \in Nodes /\ fst[n] \in FSTs
      BY <2>2, <1>0, NodeLabels, HostNumbers DEF JackInit
    <3>2. PICK f \in FSTs : f = fst[n]
      BY <3>1
    <3>3. OneCall(f, "RESUME", "activate")
      BY <3>2, <2>2, <1>0, Calls
    <3>. QED BY <3>3 DEF CallTypes, Asks
  <2>3. CASE NewPlugin \/ LoadFails \/ Opened \/ JackInitFails \/ Activate \/ Bind \/ Serve \/ ServeFails
    <3>1. Goes
      BY <2>3 DEF NewPlugin, LoadFails, Opened, JackInitFails, Activate, Bind, Serve, ServeFails,
                  GameOver, calls, Goes
    <3>. QED BY <3>1
  <2>. QED BY <1>3, <2>1, <2>2, <2>3 DEF Starts
<1>4. CASE RunEditor
  <2>1. CASE window[fst[n]]
    BY <2>1, <1>4, <1>0, Calls DEF calls, RunEditor, Goes
  <2>2. CASE ~window[fst[n]]
    <3>1. n \in Nodes /\ fst[n] \in FSTs
      BY <1>4, <1>0, NodeLabels, HostNumbers DEF RunEditor, Nodes
    <3>2. PICK f \in FSTs : f = fst[n]
      BY <3>1
    <3>3. OneCall(f, "EDITOR_OPEN", "edit")
      BY <3>2, <2>2, <1>4, <1>0, Calls
    <3>. QED BY <3>3 DEF CallTypes, Asks
  <2>. QED BY <2>1, <2>2
<1>5. CASE CloseEditor
  <2>1. CASE ~(n <= Plugins)
    BY <2>1, <1>5, <1>0, Calls DEF calls, Goes
  <2>2. CASE n <= Plugins
    <3>1. n \in Nodes /\ fst[n] \in FSTs
      BY <2>2, <1>5, <1>0, NodeLabels, HostNumbers DEF CloseEditor, Nodes
    <3>2. PICK f \in FSTs : f = fst[n]
      BY <3>1
    <3>3. OneCall(f, "EDITOR_CLOSE", "destroy")
      BY <3>2, <2>2, <1>5, <1>0, Calls
    <3>. QED BY <3>3 DEF CallTypes, Asks
  <2>. QED BY <2>1, <2>2
<1>6. CASE Close
  <2>1. CASE fst[n] = None
    BY <2>1, <1>6, <1>0, Calls DEF calls, Goes
  <2>2. CASE fst[n] # None
    <3>1. n \in Nodes /\ fst[n] \in FSTs
      BY <2>2, <1>6, <1>0, NodeLabels DEF Close, IInv, TypeOK
    <3>2. PICK f \in FSTs : f = fst[n]
      BY <3>1
    <3>3. OneCall(f, "CLOSE", "remove")
      BY <3>2, <2>2, <1>6, <1>0, Calls
    <3>. QED BY <3>2, <3>3, <1>6 DEF Closes
  <2>. QED BY <2>1, <2>2
<1>7. CASE \E i \in Nodes : Replace(i)
  <2>1. PICK i \in Nodes : Replace(i)
    BY <1>7
  <2>2. i + Plugins \in FSTs /\ Opens(i, i + Plugins, "opened")
    BY <2>1, <1>0, Calls, HostNumbers
  <2>. QED BY <2>1, <2>2 DEF Begins
<1>8. CASE \/ Tick \/ Poll \/ EditorsRun \/ Leave \/ DestroyWindow
           \/ \E i \in Nodes : ReplaceFails(i)
  BY <1>8 DEF Tick, Poll, EditorsRun, Leave, DestroyWindow, ReplaceFails, GameOver, calls, Goes
<1>9. CASE CloseNode \/ Unbind \/ Deactivate \/ ThreadRemove \/ Free
  BY <1>9 DEF CloseNode, Unbind, Deactivate, ThreadRemove, Free, calls, Goes
<1>. QED BY <1>3, <1>4, <1>5, <1>6, <1>7, <1>8, <1>9 DEF Moves, Runs, Ends

LEMMA OpensBegin == ASSUME IInv, Moves PROVE Load \/ (\E j \in Nodes : Replace(j)) => Begins
<1>1. stack = <<>> /\ Where = pc
  BY MovesFrom
<1>2. ASSUME Load PROVE Begins
  <2>1. PICK j \in Nodes : j = n
    BY <1>1, <1>2, NodeLabels DEF Load
  <2>2. j \in FSTs /\ Opens(j, j, "opened")
    BY <2>1, <1>1, <1>2, Calls, HostNumbers
  <2>. QED BY <2>1, <2>2, <1>2 DEF Begins
<1>3. (\E j \in Nodes : Replace(j)) => Begins
  BY <1>1, Calls, HostNumbers DEF Begins
<1>. QED BY <1>2, <1>3

(* A step elsewhere ends a call, begins one, or leaves the calls alone.    *)
LEMMA ElsewhereKinds ==
  Elsewhere => \/ Return \/ SigUsr1 \/ \E t \in Nodes : ServeCall(t)
               \/ UNCHANGED <<call, stack, pc, stage, list>>
BY DEF Elsewhere, OpenDialog, CloseDialog, SigInt, SigUsr2, UserCloses, WalkStep, BeginWalk,
       Idle, BeginCycle, EndCycle, Unplug, Plug, Replug, vars, calls, plugs, walks

LEMMA StackStep == ASSUME IInv, Elsewhere \/ Moves PROVE StackInv'
<1>0. StackInv /\ TypeOK /\ MoreTypes /\ stack \in Seq(Frame)
  BY DEF IInv, MoreTypes
<1>. USE DEF Labels, StartLabels, RunLabels, EndLabels
<1>1. CASE Moves
  <2>0. stack = <<>> /\ \A f \in FSTs : call[f] = "none"
    BY <1>1, MovesFrom
  <2>1. CASE Goes
    BY <2>0, <2>1 DEF StackInv, Goes
  <2>2. ASSUME NEW f \in FSTs, NEW after \in Labels, NEW todo \in {<<>>, <<"OPEN">>}, NEW c \in CallTypes,
               call' = [call EXCEPT ![f] = c], pc' = "wait",
               stack' = << [fst |-> f, todo |-> todo, after |-> after] >>
        PROVE  StackInv'
    <3>2. /\ stack' # <<>> /\ DOMAIN stack' = {1} /\ stack'[1].after = after
          /\ stack'[1].fst = f
      BY <2>2
    <3>3. \A g \in FSTs : call'[g] # "none" => g = f
      BY <2>2, <2>0, <1>0 DEF MoreTypes
    <3>. QED BY <2>2, <3>2, <3>3 DEF StackInv
  <2>3. CASE Asks \/ Closes
    BY <2>2, <2>3 DEF Asks, Closes, OneCall, CallTypes
  <2>4. CASE Begins
    BY <2>2, <2>4 DEF Begins, Opens, CallTypes
  <2>. QED BY <2>1, <2>3, <2>4, <1>1, MoveKinds
<1>2. CASE Return
  <2>0. pc = "wait" /\ stack # <<>> /\ Len(stack) \in Nat \ {0} /\ call[Last(stack).fst] = "none"
        /\ DOMAIN stack = 1 .. Len(stack)
    BY <1>2, <1>0, EmptySeq DEF Return, StackInv
  <2>1. CASE /\ stack' = Front(stack) /\ pc' = Last(stack).after /\ UNCHANGED call
    <3>1. /\ Last(stack) = stack[Len(stack)] /\ Last(stack) \in Frame
          /\ Front(stack) \in Seq(Frame) /\ Len(Front(stack)) = Len(stack) - 1
          /\ \A k \in 1 .. Len(stack) - 1 : Front(stack)[k] = stack[k]
          /\ Len(stack) = 1 => Front(stack) = <<>>
      BY <1>0, <2>0, FrontFacts, LastFacts
    <3>2. CASE Len(stack) = 1
      <4>1. stack' = <<>> /\ pc' = stack[1].after
        BY <2>1, <3>1, <3>2
      <4>2. \A f \in FSTs : call'[f] = "none"
        BY <2>0, <2>1, <3>1, <3>2, <1>0 DEF StackInv
      <4>. QED BY <4>1, <4>2, <2>0, <1>0 DEF StackInv
    <3>3. CASE Len(stack) # 1
      <4>1. stack' # <<>> /\ DOMAIN stack' = 1 .. Len(stack) - 1
            /\ \A k \in 1 .. Len(stack) - 1 : stack'[k] = stack[k]
        BY <2>0, <2>1, <3>1, <3>3, EmptySeq
      <4>2. pc' = "wait" /\ 1 \in DOMAIN stack'
        BY <2>0, <2>1, <3>1, <3>3, <1>0, <4>1 DEF StackInv
      <4>3. ASSUME NEW f \in FSTs, call'[f] # "none"
            PROVE  \E k \in DOMAIN stack' : stack'[k].fst = f
        <5>1. PICK k \in DOMAIN stack : stack[k].fst = f
          BY <4>3, <2>1, <1>0 DEF StackInv
        <5>2. k # Len(stack)
          BY <5>1, <4>3, <2>0, <2>1, <3>1
        <5>3. k \in DOMAIN stack' /\ stack'[k].fst = f
          BY <5>1, <5>2, <4>1, <2>0
        <5>. QED BY <5>3
      <4>4. stack'[1].after \in Labels
        BY <2>0, <4>1, <4>2, <1>0 DEF StackInv
      <4>5. \A k \in DOMAIN stack' : k > 1 => stack'[k].after = "wait" /\ stack'[k].todo = <<>>
        BY <2>0, <4>1, <1>0 DEF StackInv
      <4>. QED BY <4>1, <4>2, <4>3, <4>4, <4>5 DEF StackInv
    <3>. QED BY ONLY <3>2, <3>3
  <2>2. CASE /\ UNCHANGED pc /\ Len(stack) = 1 /\ stack[1].todo = <<"OPEN">>
             /\ call' = [call EXCEPT ![stack[1].fst] = "OPEN"]
             /\ stack' = << [stack[1] EXCEPT !.todo = <<>>] >>
    <3>1. /\ stack' # <<>> /\ DOMAIN stack' = {1}
          /\ stack'[1] = [stack[1] EXCEPT !.todo = <<>>]
      BY <2>2
    <3>2. stack[1] \in Frame
      BY <2>0, <1>0
    <3>3. stack'[1].after = stack[1].after /\ stack'[1].fst = stack[1].fst
      BY <3>1, <3>2 DEF Frame
    <3>4. \A f \in FSTs : call'[f] # "none" => f = stack[1].fst
      BY <2>0, <2>2, <1>0 DEF StackInv, MoreTypes
    <3>5. pc' = "wait" /\ stack'[1].after \in Labels
      BY <3>3, <2>0, <2>2, <1>0 DEF StackInv
    <3>6. \A k \in DOMAIN stack' : k > 1 => FALSE
      BY <3>1
    <3>7. \A f \in FSTs : call'[f] # "none" => \E k \in DOMAIN stack' : stack'[k].fst = f
      BY <3>1, <3>3, <3>4
    <3>. QED BY <3>1, <3>5, <3>6, <3>7 DEF StackInv
  <2>. QED BY <2>1, <2>2, <1>2, ReturnFacts DEF IInv
<1>3. CASE SigUsr1
  <2>1. CASE UNCHANGED <<call, stack>> /\ pc' = "stuck" /\ stack # <<>>
    BY <2>1, <1>0 DEF StackInv
  <2>2. CASE /\ fst[1] \in FSTs
             /\ call' = [call EXCEPT ![fst[1]] = "DISPATCHER"] /\ pc' = "wait"
             /\ stack' = Append(stack, [fst |-> fst[1], todo |-> <<>>, after |-> pc])
    <3>1. /\ Len(stack) \in Nat /\ DOMAIN stack = 1 .. Len(stack)
          /\ DOMAIN stack' = 1 .. Len(stack) + 1
          /\ \A k \in 1 .. Len(stack) : stack'[k] = stack[k]
          /\ stack'[Len(stack) + 1] = [fst |-> fst[1], todo |-> <<>>, after |-> pc]
          /\ stack' # <<>>
      BY <2>2, <1>0
    <3>2. CASE stack = <<>>
      <4>1. pc \in Labels /\ stack' = << [fst |-> fst[1], todo |-> <<>>, after |-> pc] >>
        BY <3>2, <2>2, <1>3, <1>0, SigUsr1Facts DEF StackInv
      <4>2. \A f \in FSTs : call'[f] # "none" => f = fst[1]
        BY <3>2, <2>2, <1>0 DEF StackInv, MoreTypes
      <4>. QED BY <4>1, <4>2, <2>2 DEF StackInv
    <3>3. CASE stack # <<>>
      <4>1. pc = "wait" /\ Len(stack) >= 1
        BY <3>3, <1>3, <1>0, SigUsr1Facts, EmptySeq DEF StackInv
      <4>2. stack'[1].after \in Labels
        BY <3>1, <3>3, <4>1, <1>0 DEF StackInv
      <4>3. \A k \in DOMAIN stack' : k > 1 => stack'[k].after = "wait" /\ stack'[k].todo = <<>>
        BY <3>1, <4>1, <1>0 DEF StackInv
      <4>4. ASSUME NEW f \in FSTs, call'[f] # "none"
            PROVE  \E k \in DOMAIN stack' : stack'[k].fst = f
        <5>1. CASE f = fst[1]
          BY <5>1, <3>1
        <5>2. CASE f # fst[1]
          <6>1. call[f] # "none"
            BY <5>2, <4>4, <2>2, <1>0 DEF MoreTypes
          <6>2. PICK k \in DOMAIN stack : stack[k].fst = f
            BY <6>1, <1>0 DEF StackInv
          <6>3. k \in DOMAIN stack' /\ stack'[k].fst = f
            BY <6>2, <3>1
          <6>. QED BY <6>3
        <5>. QED BY <5>1, <5>2
      <4>. QED BY <2>2, <3>1, <4>2, <4>3, <4>4 DEF StackInv
    <3>. QED BY <3>2, <3>3
  <2>3. CASE UNCHANGED <<call, stack, pc>>
    BY <2>3, <1>0 DEF StackInv
  <2>. QED BY <2>1, <2>2, <2>3, <1>3, SigUsr1Facts
<1>4. CASE \E t \in Nodes : ServeCall(t)
  <2>1. PICK t \in Nodes : ServeCall(t)
    BY <1>4
  <2>2. UNCHANGED <<stack, pc>> /\ call' = [call EXCEPT ![at[t]] = "none"]
    BY <2>1 DEF ServeCall
  <2>3. \A f \in FSTs : call'[f] # "none" => call[f] # "none"
    BY <2>2, <1>0 DEF MoreTypes
  <2>. QED BY <2>2, <2>3, <1>0 DEF StackInv
<1>5. CASE UNCHANGED <<call, stack, pc>>
  BY <1>5, <1>0 DEF StackInv
<1>. QED BY <1>1, <1>2, <1>3, <1>4, <1>5, ElsewhereKinds

(* Elsewhere an FST stays in its list and is opened or closed as asked.    *)
LEMMA ServeStages ==
  ASSUME IInv, NEW t \in Nodes, ServeCall(t)
  PROVE  /\ at[t] \in FSTs /\ stage[at[t]] # "none"
         /\ UNCHANGED <<stack, pc>> /\ call' = [call EXCEPT ![at[t]] = "none"]
         /\ \A f \in FSTs : f # at[t] => stage'[f] = stage[f] /\ call'[f] = call[f]
         /\ call'[at[t]] = "none"
         /\ call[at[t]] = "OPEN" => stage'[at[t]] = "open"
         /\ call[at[t]] = "CLOSE" => stage'[at[t]] = "closed"
         /\ call[at[t]] \notin {"OPEN", "CLOSE"} => stage'[at[t]] = stage[at[t]]
<1>1. at[t] \in FSTs /\ Listed(t, at[t])
  BY FollowingType DEF ServeCall
<1>2. stage[at[t]] # "none"
  BY <1>1 DEF IInv, ListInv
<1>3. /\ UNCHANGED <<stack, pc>> /\ call' = [call EXCEPT ![at[t]] = "none"]
      /\ stage' = [stage EXCEPT ![at[t]] = CASE call[at[t]] = "OPEN" -> "open"
                                             [] call[at[t]] = "CLOSE" -> "closed"
                                             [] OTHER -> @]
  BY DEF ServeCall
<1>. QED BY <1>1, <1>2, <1>3 DEF IInv, TypeOK, MoreTypes

LEMMA CallStep == ASSUME IInv, Elsewhere \/ Moves PROVE CallInv'
<1>0. /\ CallInv /\ StackInv /\ TypeOK /\ MoreTypes /\ StackInv' /\ TypeOK' /\ MoreTypes'
      /\ stack \in Seq(Frame)
  BY StackStep, ElsewhereTypes, MovesTypes DEF IInv, MoreTypes
<1>1. CASE Moves
  <2>0. stack = <<>> /\ Where = pc /\ pc \in Labels /\ \A f \in FSTs : call[f] = "none"
    BY <1>1, MovesFrom
  <2>1. CASE Goes
    <3>1. Where' = pc' /\ stack' = <<>> /\ \A f \in FSTs : call'[f] = "none"
      BY <2>0, <2>1 DEF Goes, Where
    <3>. QED BY <3>1, <2>1 DEF Goes, CallInv
  <2>2. CASE Asks
    <3>1. PICK f \in FSTs, c \in CallTypes \ {"OPEN", "CLOSE"}, after \in Labels \ {"opened", "remove"} :
            OneCall(f, c, after)
      BY <2>2 DEF Asks
    <3>2. Where' = after /\ stack'[1].todo = <<>>
      BY <3>1 DEF OneCall, Where
    <3>3. \A g \in FSTs : call'[g] \notin {"OPEN", "CLOSE"}
      BY <3>1, <2>0, <1>0 DEF OneCall, MoreTypes
    <3>. QED BY <3>2, <3>3, <3>1 DEF CallInv
  <2>3. CASE Closes
    <3>1. PICK f \in FSTs : f = fst[n] /\ OneCall(f, "CLOSE", "remove") /\ Close
      BY <2>3 DEF Closes
    <3>2. Where' = "remove" /\ stack'[1].todo = <<>>
      BY <3>1 DEF OneCall, Where
    <3>3. \A g \in FSTs : call'[g] = IF g = f THEN "CLOSE" ELSE "none"
      BY <3>1, <2>0, <1>0 DEF OneCall, MoreTypes
    <3>4. UNCHANGED <<fst, n, stage>> /\ Where = "close" /\ n \in Nodes /\ f # None
      BY <3>1, <2>0, NodeLabels, HostNumbers DEF Close, nodes, plugs
    <3>5. stage[f] = "open"
      <4>1. ~Closed(n)
        BY <3>4, <1>0 DEF Closed, TypeOK
      <4>. QED BY <4>1, <3>1, <3>4 DEF IInv, NodeInv, NodeOK
    <3>. QED BY <3>1, <3>2, <3>3, <3>4, <3>5 DEF CallInv
  <2>4. CASE Begins
    <3>1. PICK i \in Nodes, f \in FSTs :
            Opens(i, f, "opened") /\ \/ f = i /\ Load /\ i = n
                                     \/ f = i + Plugins /\ Replace(i)
      BY <2>4 DEF Begins
    <3>2. /\ Where' = "opened" /\ stack'[1].todo = <<"OPEN">> /\ stack'[1].fst = f /\ n' = i
          /\ stack' # <<>> /\ stack'[1].todo # <<>>
      BY <3>1 DEF Opens, Where
    <3>3. \A g \in FSTs : call'[g] \notin {"OPEN", "CLOSE"}
      BY <3>1, <2>0, <1>0 DEF Opens, MoreTypes
    <3>4. stage'[f] = "listed" /\ \A g \in FSTs : g # f => stage'[g] = stage[g]
      BY <3>1, <1>0 DEF Opens, TypeOK
    <3>5. Opening' = f
      <4>1. CASE f = i /\ Load /\ i = n
        <5>1. stage[i + Plugins] = "none"
          <6>1. Where = "load"
            BY <4>1, <2>0 DEF Load
          <6>2. phase = "starting"
            BY <6>1, <1>0 DEF IInv, PhaseInv, TypeOK, Ending, RunLabels, EndLabels
          <6>. QED BY <6>1, <6>2, <4>1, <3>1 DEF IInv, NodeInv, NodeOK
        <5>. QED BY <5>1, <4>1, <3>2, <3>4, HostNumbers DEF Opening
      <4>2. CASE f = i + Plugins
        BY <4>2, <3>2, <3>4, HostNumbers DEF Opening
      <4>. QED BY <4>1, <4>2, <3>1
    <3>. QED BY <3>2, <3>3, <3>4, <3>5 DEF CallInv
  <2>. QED BY <2>1, <2>2, <2>3, <2>4, <1>1, MoveKinds
<1>2. CASE Elsewhere
  <2>0. Where' = Where /\ UNCHANGED <<n, fst>>
    BY <1>2, ElsewhereKeeps
  <2>1. Where = "opened" => n + Plugins \in FSTs /\ Opening \in FSTs
    BY NodeLabels, HostNumbers DEF Opening
  <2>2. CASE Return
    <3>0. UNCHANGED stage /\ Opening' = Opening /\ call[Last(stack).fst] = "none" /\ stack # <<>>
      BY <2>2, <2>0, <1>0 DEF Return, plugs, Opening, StackInv
    <3>00. Len(stack) \in Nat \ {0} /\ DOMAIN stack = 1 .. Len(stack)
      BY <3>0, <1>0, EmptySeq
    <3>1. CASE /\ stack' = Front(stack) /\ UNCHANGED call /\ Last(stack).todo = <<>>
      <4>1. CASE Len(stack) = 1
        <5>1. Last(stack) = stack[1] /\ stack' = <<>>
          BY <3>0, <3>1, <4>1, <1>0, FrontFacts, LastFacts
        <5>2. \A f \in FSTs : call[f] = "none"
          BY <5>1, <4>1, <3>0, <3>00, <1>0 DEF StackInv
        <5>. QED BY <5>1, <5>2, <3>0, <3>1, <2>0, <2>1, <1>0 DEF CallInv
      <4>2. CASE Len(stack) # 1
        <5>1. Front(stack) # <<>> /\ Front(stack)[1] = stack[1]
          BY <4>2, <3>0, <3>00, <1>0, FrontFacts, EmptySeq
        <5>2. stack' # <<>> /\ stack'[1] = stack[1]
          BY <3>1, <5>1
        <5>. QED BY <5>2, <3>0, <3>1, <2>0, <1>0 DEF CallInv
      <4>. QED BY <4>1, <4>2
    <3>2. CASE /\ Len(stack) = 1 /\ stack[1].todo = <<"OPEN">>
               /\ call' = [call EXCEPT ![stack[1].fst] = "OPEN"]
               /\ stack' = << [stack[1] EXCEPT !.todo = <<>>] >>
      <4>1. /\ Where = "opened" /\ stack[1].fst = Opening /\ stage[Opening] = "listed"
            /\ stack[1] \in Frame
        BY <3>0, <3>00, <3>2, <1>0 DEF CallInv
      <4>2. /\ stack' # <<>> /\ stack'[1].todo = <<>> /\ stack'[1].fst = Opening
            /\ call'[Opening] = "OPEN"
        BY <4>1, <3>2, <2>1, <1>0 DEF Frame, MoreTypes
      <4>3. \A f \in FSTs : f # Opening => call'[f] = call[f]
        BY <4>1, <3>2, <1>0 DEF MoreTypes
      <4>4. \A f \in FSTs : call[f] \notin {"OPEN", "CLOSE"}
        BY <4>1, <3>2, <1>0 DEF CallInv
      <4>. QED BY <4>1, <4>2, <4>3, <4>4, <3>0, <2>0 DEF CallInv
    <3>. QED BY <3>1, <3>2, <2>2, <1>0, ReturnFacts
  <2>3. CASE SigUsr1
    <3>0. UNCHANGED stage /\ Opening' = Opening
      BY <2>3, <2>0 DEF SigUsr1, plugs, Opening
    <3>1. CASE UNCHANGED <<call, stack>>
      BY <3>0, <3>1, <2>0, <1>0 DEF CallInv
    <3>2. CASE /\ fst[1] \in FSTs /\ \A k \in DOMAIN stack : stack[k].fst # fst[1]
               /\ call' = [call EXCEPT ![fst[1]] = "DISPATCHER"]
               /\ stack' = Append(stack, [fst |-> fst[1], todo |-> <<>>, after |-> pc])
      <4>1. call[fst[1]] = "none"
        BY <3>2, <1>0 DEF StackInv
      <4>2. \A f \in FSTs : call'[f] \in {"OPEN", "CLOSE"} <=> call[f] \in {"OPEN", "CLOSE"}
        BY <4>1, <3>2, <1>0 DEF MoreTypes
      <4>3. \A f \in FSTs : f # fst[1] => call'[f] = call[f]
        BY <3>2, <1>0 DEF MoreTypes
      <4>4. \A f \in FSTs : /\ call'[f] = "OPEN" <=> call[f] = "OPEN"
                            /\ call'[f] = "CLOSE" <=> call[f] = "CLOSE"
        BY <4>1, <4>2, <4>3
      <4>5. CASE stack = <<>>
        <5>1. stack' = << [fst |-> fst[1], todo |-> <<>>, after |-> pc] >>
          BY <4>5, <3>2
        <5>2. stack'[1].todo = <<>>
          BY <5>1
        <5>3. \A f \in FSTs : call[f] = "none"
          BY <4>5, <1>0 DEF StackInv
        <5>4. \A f \in FSTs : call'[f] \notin {"OPEN", "CLOSE"}
          BY <5>3, <4>4
        <5>5. Where = "opened" => stage[Opening] = "open"
          BY <4>5, <1>0 DEF CallInv
        <5>6. Where = "remove" => fst[n] # None /\ fst[n] \in FSTs /\ stage[fst[n]] = "closed"
          BY <5>3, <1>0, NodeLabels DEF CallInv, TypeOK
        <5>. QED BY <5>2, <5>4, <5>5, <5>6, <3>0, <2>0 DEF CallInv
      <4>6. CASE stack # <<>>
        <5>1. stack' # <<>> /\ stack'[1] = stack[1] /\ 1 \in DOMAIN stack
          BY <4>6, <3>2, <1>0, EmptySeq
        <5>2. Where = "remove" => fst[n] # None /\ fst[n] \in FSTs
          BY <1>0, NodeLabels DEF CallInv, TypeOK
        <5>. QED BY <5>1, <5>2, <4>4, <3>0, <2>0, <2>1, <1>0 DEF CallInv
      <4>. QED BY <4>5, <4>6
    <3>. QED BY <3>1, <3>2, <2>3, SigUsr1Facts
  <2>4. CASE \E t \in Nodes : ServeCall(t)
    <3>1. PICK t \in Nodes : ServeCall(t)
      BY <2>4
    <3>2. PICK f \in FSTs : f = at[t]
      BY <3>1, ServeStages
    <3>3. /\ UNCHANGED <<stack, pc>> /\ stage[f] # "none" /\ call'[f] = "none"
          /\ \A g \in FSTs : g # f => stage'[g] = stage[g] /\ call'[g] = call[g]
          /\ call[f] = "OPEN" => stage'[f] = "open"
          /\ call[f] = "CLOSE" => stage'[f] = "closed"
          /\ call[f] \notin {"OPEN", "CLOSE"} => stage'[f] = stage[f]
      BY <3>1, <3>2, ServeStages
    <3>4. \A g \in FSTs : (stage'[g] = "none") <=> (stage[g] = "none")
      BY <3>3
    <3>5. Where = "opened" => Opening' = Opening
      BY <3>4, <2>0, <2>1 DEF Opening
    <3>6. /\ Where = "opened" => n + Plugins \in FSTs /\ Opening \in FSTs
          /\ Where = "remove" => fst[n] # None /\ fst[n] \in FSTs
      BY <2>1, <1>0, NodeLabels DEF CallInv, TypeOK
    <3>7. stack # <<>> /\ stack[1].todo # <<>> =>
            Where = "opened" /\ stack[1].fst = Opening /\ stage'[Opening] = "listed"
      BY <3>3, <3>6, <1>0 DEF CallInv
    <3>8. Where = "opened" => \/ stage'[Opening] = "open"
                              \/ /\ stack # <<>> /\ stack[1].fst = Opening
                                 /\ stage'[Opening] = "listed"
                                 /\ stack[1].todo = <<>> => call'[Opening] = "OPEN"
      BY <3>3, <3>6, <1>0 DEF CallInv
    <3>9. \A g \in FSTs : call'[g] = "OPEN" =>
            Where = "opened" /\ g = Opening /\ stage'[g] = "listed" /\ stack[1].todo = <<>>
      BY <3>3, <1>0 DEF CallInv
    <3>10. Where = "remove" => fst[n] # None
                            /\ \/ stage'[fst[n]] = "closed"
                               \/ stage'[fst[n]] = "open" /\ call'[fst[n]] = "CLOSE"
      BY <3>3, <3>6, <1>0 DEF CallInv
    <3>11. \A g \in FSTs : call'[g] = "CLOSE" => Where = "remove" /\ g = fst[n] /\ stage'[g] = "open"
      BY <3>3, <1>0 DEF CallInv
    <3>. QED BY <3>3, <3>5, <3>7, <3>8, <3>9, <3>10, <3>11, <2>0 DEF CallInv
  <2>5. CASE UNCHANGED <<call, stack, pc, stage, list>>
    BY <2>5, <2>0, <1>0 DEF CallInv, Opening
  <2>. QED BY <2>2, <2>3, <2>4, <2>5, <1>2, ElsewhereKinds
<1>. QED BY <1>1, <1>2

-----------------------------------------------------------------------------
(* The phases                                                              *)

(* Where a step takes the main thread.                                     *)
LEMMA WhereTo ==
  ASSUME IInv, Moves
  PROVE  /\ UNCHANGED stack => Where' = pc'
         /\ Load \/ (\E i \in Nodes : Replace(i)) => Where' = "opened"
         /\ JackInit => Where' = "activate"
         /\ RunEditor => Where' = "edit"
         /\ CloseEditor => Where' = IF n <= Plugins THEN "destroy" ELSE "leave"
         /\ Close => Where' = IF fst[n] = None THEN "free" ELSE "remove"
<1>1. stack = <<>> /\ Where = pc
  BY MovesFrom
<1>. USE DEF Where
<1>2. UNCHANGED stack => Where' = pc'
  BY <1>1
<1>3. Load \/ (\E i \in Nodes : Replace(i)) => Where' = "opened"
  BY <1>1, Calls DEF Opens
<1>4. JackInit => Where' = "activate"
  BY <1>1, Calls DEF OneCall
<1>5. RunEditor => Where' = "edit"
  BY <1>1, Calls DEF OneCall, RunEditor, calls
<1>6. CloseEditor => Where' = IF n <= Plugins THEN "destroy" ELSE "leave"
  BY <1>1, Calls DEF OneCall, calls
<1>7. Close => Where' = IF fst[n] = None THEN "free" ELSE "remove"
  BY <1>1, Calls DEF OneCall, calls
<1>. QED BY <1>2, <1>3, <1>4, <1>5, <1>6, <1>7

LEMMA PhaseStep == ASSUME IInv, Elsewhere \/ Moves PROVE PhaseInv'
<1>0. PhaseInv /\ phase \in {"starting", "running", "ending", "failed"} /\ n \in Nat
      /\ Plugins \in Nat /\ linked \in 0 .. Plugins /\ n \in 1 .. Plugins + 1
  BY HostNumbers DEF IInv, TypeOK
<1>. USE DEF Ending, StartLabels, RunLabels, EndLabels
<1>1. CASE Elsewhere
  <2>1. UNCHANGED <<phase, n, linked, freed>> /\ Where' = Where
    BY <1>1, ElsewhereKeeps
  <2>. QED BY <2>1, <1>0 DEF PhaseInv
<1>2. CASE Moves
  <2>0. Where = pc /\ stack = <<>>
    BY <1>2, MovesFrom
  <2>. USE DEF options, wishes, nodes, plugs, walks, calls
  <2>1. CASE Load \/ \E i \in Nodes : Replace(i)
    <3>1. Where' = "opened"
      BY <2>1, <1>2, WhereTo
    <3>2. UNCHANGED <<phase, linked, freed>>
      BY <2>1 DEF Load, Replace, Open
    <3>3. CASE Load
      BY <3>1, <3>2, <3>3, <2>0, <1>0 DEF Load, Open, PhaseInv
    <3>4. CASE \E i \in Nodes : Replace(i)
      BY <3>1, <3>2, <3>4, <2>0, <1>0 DEF Replace, Open, PhaseInv, Nodes
    <3>. QED BY <2>1, <3>3, <3>4
  <2>2. CASE NewPlugin
    BY <2>2, <2>0, <1>0, <1>2, WhereTo DEF NewPlugin, PhaseInv
  <2>3. CASE LoadFails \/ JackInitFails
    <3>1. /\ Where' = "over" /\ n' = 1 /\ phase' = "failed" /\ phase = "starting"
          /\ UNCHANGED <<linked, freed>>
      BY <2>3, <2>0, <1>0, <1>2, WhereTo DEF LoadFails, JackInitFails, GameOver, PhaseInv
    <3>2. freed = {}
      BY <3>1 DEF IInv, PhaseInv
    <3>. QED BY <3>1, <3>2, <1>0 DEF PhaseInv
  <2>4. CASE Opened
    BY <2>4, <2>0, <1>0, <1>2, WhereTo DEF Opened, PhaseInv
  <2>5. CASE JackInit
    BY <2>5, <2>0, <1>0, <1>2, WhereTo DEF JackInit, PhaseInv
  <2>6. CASE Activate
    BY <2>6, <2>0, <1>0, <1>2, WhereTo DEF Activate, PhaseInv
  <2>7. CASE Bind
    BY <2>7, <2>0, <1>0, <1>2, WhereTo DEF Bind, SetIdle, PhaseInv
  <2>8. CASE Serve
    BY <2>8, <2>0, <1>0, <1>2, WhereTo DEF Serve, PhaseInv
  <2>9. CASE ServeFails
    BY <2>9, <2>0, <1>0, <1>2, WhereTo DEF ServeFails, PhaseInv
  <2>10. CASE \/ Tick \/ Poll \/ EditorsRun \/ DestroyWindow \/ \E i \in Nodes : ReplaceFails(i)
    <3>1. /\ Where' \in {"leave", "poll", "edit", "loop", "destroy", "crashed"}
          /\ Where \in {"poll", "loop", "edit"}
          /\ UNCHANGED <<phase, linked, freed>>
      BY <2>10, <2>0, <1>2, WhereTo DEF Tick, Poll, EditorsRun, DestroyWindow, ReplaceFails
    <3>. QED BY <3>1, <1>0 DEF PhaseInv
  <2>11. CASE RunEditor \/ CloseEditor
    <3>1. /\ Where' \in {"leave", "edit", "destroy"} /\ Where \in {"edit", "destroy"}
          /\ UNCHANGED <<phase, linked, freed>>
      BY <2>11, <2>0, <1>2, WhereTo DEF RunEditor, CloseEditor
    <3>. QED BY <3>1, <1>0 DEF PhaseInv
  <2>12. CASE Leave
    <3>1. /\ Where' = "over" /\ n' = 1 /\ phase' = "ending" /\ phase = "running"
          /\ UNCHANGED <<linked, freed>>
      BY <2>12, <2>0, <1>0, <1>2, WhereTo DEF Leave, GameOver, PhaseInv
    <3>2. freed = {} /\ linked = Plugins
      BY <3>1, <1>0 DEF PhaseInv
    <3>. QED BY <3>1, <3>2, <1>0 DEF PhaseInv
  <2>13. CASE CloseNode
    BY <2>13, <2>0, <1>0, <1>2, WhereTo DEF CloseNode, PhaseInv
  <2>14. CASE Unbind
    BY <2>14, <2>0, <1>0, <1>2, WhereTo DEF Unbind, SetIdle, PhaseInv
  <2>15. CASE Deactivate
    BY <2>15, <2>0, <1>0, <1>2, WhereTo DEF Deactivate, PhaseInv
  <2>16. CASE Close
    BY <2>16, <2>0, <1>0, <1>2, WhereTo DEF Close, PhaseInv
  <2>17. CASE ThreadRemove
    BY <2>17, <2>0, <1>0, <1>2, WhereTo DEF ThreadRemove, PhaseInv
  <2>18. CASE Free
    <3>1. /\ Where' = "over" /\ n' = n + 1 /\ UNCHANGED <<phase, linked>> /\ freed' = freed \cup {n}
          /\ Where = "free"
      BY <2>18, <2>0, <1>2, WhereTo DEF Free
    <3>2. Ending /\ freed = 1 .. n - 1 /\ n <= linked
      BY <3>1, <1>0 DEF PhaseInv
    <3>3. freed' = 1 .. n' - 1
      BY <3>1, <3>2, <1>0
    <3>. QED BY <3>1, <3>2, <3>3, <1>0 DEF PhaseInv
  <2>. QED BY <1>2, <2>1, <2>2, <2>3, <2>4, <2>5, <2>6, <2>7, <2>8, <2>9, <2>10, <2>11, <2>12,
              <2>13, <2>14, <2>15, <2>16, <2>17, <2>18 DEF Moves, Starts, Runs, Ends
<1>. QED BY <1>1, <1>2

-----------------------------------------------------------------------------
(* The nodes                                                               *)

(* Two nodes have no FST in common.                                        *)
LEMMA Apart ==
  \A i, j \in Nodes : /\ i # j => i # j + Plugins /\ i + Plugins # j /\ i + Plugins # j + Plugins
                      /\ i # i + Plugins /\ i # j + Plugins /\ i # 0 /\ i + Plugins # 0
BY HostNumbers DEF Nodes

LEMMA NodeElsewhere == ASSUME IInv, Elsewhere, NEW i \in Nodes PROVE NodeOK(i)'
<1>0. /\ UNCHANGED <<n, phase, fst, jack, linked>> /\ Where' = Where /\ NodeOK(i)
      /\ TypeOK /\ i + Plugins \in FSTs
  BY ElsewhereKeeps, HostNumbers DEF IInv, NodeInv
<1>1. (Known(i) <=> Known(i)') /\ (Closed(i) <=> Closed(i)') /\ (JackClosed(i) <=> JackClosed(i)')
  BY <1>0 DEF Known, Closed, JackClosed, Ending
<1>2. CASE \E t \in Nodes : ServeCall(t)
  <2>1. PICK t \in Nodes : ServeCall(t)
    BY <1>2
  <2>2. PICK f \in FSTs : f = at[t]
    BY <2>1, ServeStages
  <2>3. /\ stage[f] # "none" /\ \A g \in FSTs : g # f => stage'[g] = stage[g]
        /\ call[f] = "OPEN" => stage'[f] = "open"
        /\ call[f] = "CLOSE" => stage'[f] = "closed"
        /\ call[f] \notin {"OPEN", "CLOSE"} => stage'[f] = stage[f]
    BY <2>1, <2>2, ServeStages
  <2>4. UNCHANGED cycle
    BY <2>1 DEF ServeCall
  <2>5. stage[i + Plugins] = "none" => stage'[i + Plugins] = "none"
    BY <2>3, <1>0
  <2>6. call[f] = "CLOSE" /\ f \in {i, i + Plugins} => i = n /\ Where = "remove" /\ Ending
    <3>1. SUFFICES ASSUME call[f] = "CLOSE", f \in {i, i + Plugins}
                   PROVE  i = n /\ Where = "remove" /\ Ending
      OBVIOUS
    <3>2. Where = "remove" /\ f = fst[n]
      BY <3>1 DEF IInv, CallInv
    <3>3. n \in Nodes /\ fst[n] \in {None, n, n + Plugins}
      BY <3>2, NodeLabels DEF IInv, NodeInv, NodeOK
    <3>4. Ending
      BY <3>2, <1>0 DEF IInv, PhaseInv, TypeOK, Ending, StartLabels, RunLabels
    <3>5. f # 0
      BY HostNumbers
    <3>. QED BY <3>1, <3>2, <3>3, <3>4, <3>5, Apart
  <2>7. \A g \in {i, i + Plugins} : stage[g] = "open" /\ ~(i = n /\ Where = "remove" /\ Ending) =>
          stage'[g] = "open"
    <3>1. \A g \in {i, i + Plugins} : g \in FSTs
      BY <1>0, HostNumbers
    <3>. QED BY <3>1, <2>3, <2>6
  <2>8. i = n /\ Where = "remove" /\ Ending => Closed(i) /\ JackClosed(i)
    BY DEF Closed, JackClosed
  <2>. QED BY <2>4, <2>5, <2>7, <2>8, <1>0, <1>1 DEF NodeOK
<1>3. CASE \E j \in Nodes : BeginCycle(j)
  <2>1. PICK j \in Nodes : BeginCycle(j)
    BY <1>3
  <2>2. UNCHANGED stage /\ cycle' = [cycle EXCEPT ![j] = fst[j]] /\ jack[j] = "active"
    BY <2>1 DEF BeginCycle, plugs
  <2>3. CASE i # j
    BY <2>2, <2>3, <1>0, <1>1 DEF NodeOK, TypeOK
  <2>4. CASE i = j
    <3>1. Where # "crashed"
      BY <2>1 DEF BeginCycle, Alive, Where, IInv, StackInv, Labels, StartLabels, RunLabels, EndLabels
    <3>2. fst[i] # None /\ ~JackClosed(i)
      BY <3>1, <2>2, <2>4, <1>0 DEF NodeOK
    <3>3. ~Closed(i)
      BY <3>2 DEF Closed, JackClosed
    <3>4. cycle'[i] = fst[i] /\ fst[i] \in {i, i + Plugins} /\ stage[fst[i]] = "open"
      BY <2>2, <2>4, <3>2, <3>3, <1>0 DEF NodeOK, TypeOK
    <3>. QED BY <3>4, <2>2, <2>4, <1>0, <1>1 DEF NodeOK
  <2>. QED BY <2>3, <2>4
<1>4. CASE \E j \in Nodes : EndCycle(j)
  <2>1. UNCHANGED stage /\ cycle'[i] \in {None, cycle[i]}
    BY <1>4, <1>0 DEF EndCycle, plugs, TypeOK
  <2>. QED BY <2>1, <1>0, <1>1 DEF NodeOK
<1>5. CASE UNCHANGED <<stage, cycle>>
  BY <1>5, <1>0, <1>1 DEF NodeOK
<1>6. \/ UNCHANGED <<stage, cycle>> \/ \E t \in Nodes : ServeCall(t)
      \/ \E j \in Nodes : BeginCycle(j) \/ EndCycle(j)
  BY DEF Elsewhere, Return, OpenDialog, CloseDialog, SigInt, SigUsr1, SigUsr2, UserCloses, WalkStep,
         BeginWalk, Idle, Unplug, Plug, Replug, vars, plugs
<1>. QED BY <1>2, <1>3, <1>4, <1>5, <1>6

LEMMA NodeMoves == ASSUME IInv, Moves, NEW i \in Nodes PROVE NodeOK(i)'
<1>0. /\ NodeOK(i) /\ TypeOK /\ Where = pc /\ stack = <<>> /\ i + Plugins \in FSTs /\ i \in FSTs
      /\ n \in 1 .. Plugins + 1 /\ linked \in 0 .. Plugins /\ Plugins \in Nat /\ i \in 1 .. Plugins
      /\ UNCHANGED stack => Where' = pc'
      /\ phase \in {"starting", "running", "ending", "failed"} /\ PhaseInv
  BY MovesFrom, WhereTo, HostNumbers DEF IInv, NodeInv, TypeOK, Nodes
<1>. USE DEF Ending, StartLabels, RunLabels, EndLabels, Known, Closed, JackClosed,
             options, wishes, nodes, plugs, walks, calls
<1>1. CASE Begins
  <2>1. PICK j \in Nodes, f \in FSTs :
          Opens(j, f, "opened") /\ \/ f = j /\ Load /\ j = n
                                   \/ f = j + Plugins /\ Replace(j)
    BY <1>1 DEF Begins
  <2>2. /\ \A g \in FSTs : g # f => stage'[g] = stage[g]
        /\ UNCHANGED <<phase, linked, fst, jack, cycle>> /\ n' = j /\ Where' = "opened"
    BY <2>1, <1>0 DEF Opens, Where, TypeOK
  <2>3. f # j + Plugins => f = j /\ Load /\ j = n
    BY <2>1
  <2>4. stage[j + Plugins] = "none"
    <3>1. CASE Load /\ j = n
      <4>1. phase = "starting" /\ Where = "load"
        BY <3>1, <1>0 DEF Load, PhaseInv
      <4>. QED BY <3>1, <4>1 DEF IInv, NodeInv, NodeOK
    <3>2. CASE Replace(j)
      BY <3>2 DEF Replace
    <3>. QED BY <2>1, <3>1, <3>2
  <2>5. fst[i] # f
    <3>1. CASE i # j
      BY <3>1, <2>1, <1>0, Apart DEF NodeOK
    <3>2. CASE i = j /\ f = j + Plugins /\ Replace(j)
      <4>1. fst[i] # None /\ ~Closed(i) => stage[fst[i]] = "open"
        BY <1>0 DEF NodeOK
      <4>2. ~Closed(i)
        BY <3>2, <1>0 DEF Replace, PhaseInv
      <4>. QED BY <4>1, <4>2, <3>2, <2>4, Apart
    <3>3. CASE i = j /\ f = j /\ Load /\ j = n
      <4>1. phase = "starting" /\ Where = "load"
        BY <3>3, <1>0 DEF Load, PhaseInv
      <4>2. fst[i] = None
        BY <4>1, <3>3, <1>0 DEF NodeOK
      <4>. QED BY <4>2, <3>3, Apart
    <3>. QED BY <2>1, <3>1, <3>2, <3>3
  <2>6. cycle[i] # f
    <3>1. CASE i # j
      BY <3>1, <2>1, <1>0, Apart DEF NodeOK
    <3>2. CASE i = j /\ f = j + Plugins
      BY <3>2, <2>4, <1>0, Apart DEF NodeOK
    <3>3. CASE i = j /\ f = j /\ Load /\ j = n
      <4>1. phase = "starting" /\ Where = "load"
        BY <3>3, <1>0 DEF Load, PhaseInv
      <4>2. jack[i] = "none"
        BY <4>1, <3>3, <1>0 DEF NodeOK
      <4>. QED BY <4>2, <3>3, <1>0, Apart DEF NodeOK
    <3>. QED BY <2>1, <3>1, <3>2, <3>3
  <2>7. i # j => i + Plugins # f
    BY <2>1, Apart
  <2>8. \A g \in {fst[i], cycle[i]} : g \in {i, i + Plugins} /\ stage[g] = "open" => stage'[g] = "open"
    BY <2>2, <2>5, <2>6, <1>0
  <2>9. \/ phase = "starting" /\ j = n /\ Where \in {"load", "init"}
        \/ phase = "running" /\ Where = "loop"
    <3>1. CASE Load /\ j = n
      BY <3>1, <1>0 DEF Load, PhaseInv
    <3>2. CASE Replace(j) /\ pc = "loop"
      BY <3>2, <1>0 DEF PhaseInv
    <3>3. CASE Replace(j) /\ pc = "init" /\ j = n
      BY <3>3, <1>0 DEF PhaseInv
    <3>. QED BY <3>1, <3>2, <3>3, <2>1 DEF Replace
  <2>. QED BY <2>2, <2>7, <2>8, <2>9, <1>0 DEF NodeOK
<1>2. CASE NewPlugin
  <2>1. UNCHANGED <<n, phase, fst, jack, cycle, stage>> /\ phase = "starting" /\ Where = "start"
        /\ Where' = IF n > Plugins THEN "serve" ELSE "load"
    BY <1>2, <1>0 DEF NewPlugin, PhaseInv
  <2>. QED BY <2>1, <1>0 DEF NodeOK
<1>3. CASE LoadFails
  <2>1. /\ n' = 1 /\ phase' = "failed" /\ phase = "starting" /\ Where \in {"load", "init"}
        /\ Where' = "over" /\ fst' = [fst EXCEPT ![n] = None] /\ linked = n
        /\ UNCHANGED <<linked, jack, cycle, stage>>
    BY <1>3, <1>0 DEF LoadFails, GameOver, PhaseInv
  <2>2. fst'[i] = IF i = n THEN None ELSE fst[i]
    BY <2>1, <1>0 DEF TypeOK
  <2>. QED BY <2>1, <2>2, <1>0 DEF NodeOK
<1>4. CASE JackInitFails
  <2>1. /\ n' = 1 /\ phase' = "failed" /\ phase = "starting" /\ Where = "init"
        /\ Where' = "over" /\ linked = n
        /\ UNCHANGED <<linked, fst, cycle, stage>>
    BY <1>4, <1>0 DEF JackInitFails, GameOver, PhaseInv
  <2>2. IF i = n THEN jack'[i] \in {"none", "open"} ELSE jack'[i] = jack[i]
    BY <1>4, <1>0 DEF JackInitFails, TypeOK
  <2>. QED BY <2>1, <2>2, <1>0 DEF NodeOK
<1>5. CASE Opened
  <2>0. n \in Nodes /\ Where = "opened"
    BY <1>5, <1>0, NodeLabels DEF Opened
  <2>1. /\ Where' = IF phase = "starting" THEN "init" ELSE "loop"
        /\ fst' = [fst EXCEPT ![n] = Opening]
        /\ UNCHANGED <<n, phase, linked, jack, cycle, stage>>
    BY <1>5, <1>0 DEF Opened, Opening
  <2>2. stage[Opening] = "open" /\ Opening \in {n, n + Plugins}
    BY <2>0, <1>0 DEF IInv, CallInv, Opening
  <2>3. fst'[i] = IF i = n THEN Opening ELSE fst[i]
    BY <2>1, <1>0 DEF TypeOK
  <2>4. phase \in {"starting", "running"}
    BY <2>0, <1>0 DEF PhaseInv
  <2>5. Opening # None
    BY <2>0, <2>2, Apart
  <2>. QED BY <2>0, <2>1, <2>2, <2>3, <2>4, <2>5, <1>0 DEF NodeOK
<1>6. CASE JackInit
  <2>1. /\ phase = "starting" /\ Where = "init" /\ Where' = "activate"
        /\ jack' = [jack EXCEPT ![n] = "open"] /\ UNCHANGED <<n, phase, linked, fst, cycle, stage>>
    BY <1>6, <1>0, WhereTo DEF JackInit, PhaseInv
  <2>2. jack'[i] = IF i = n THEN "open" ELSE jack[i]
    BY <2>1, <1>0 DEF TypeOK
  <2>. QED BY <2>1, <2>2, <1>0 DEF NodeOK
<1>7. CASE Activate
  <2>1. /\ phase = "starting" /\ Where = "activate" /\ Where' = "bind"
        /\ jack' = [jack EXCEPT ![n] = "active"] /\ UNCHANGED <<n, phase, linked, fst, cycle, stage>>
    BY <1>7, <1>0 DEF Activate, PhaseInv
  <2>2. jack'[i] = IF i = n THEN "active" ELSE jack[i]
    BY <2>1, <1>0 DEF TypeOK
  <2>. QED BY <2>1, <2>2, <1>0 DEF NodeOK
<1>8. CASE Bind
  <2>1. /\ phase = "starting" /\ Where = "bind" /\ Where' = "start" /\ n' = n + 1
        /\ UNCHANGED <<phase, linked, fst, jack, cycle, stage>>
    BY <1>8, <1>0 DEF Bind, SetIdle, PhaseInv
  <2>. QED BY <2>1, <1>0 DEF NodeOK
<1>9. CASE Serve
  <2>1. /\ phase = "starting" /\ Where = "serve" /\ n' = 1 /\ phase' = "running" /\ n = Plugins + 1
        /\ Where' \in {"edit", "loop"} /\ UNCHANGED <<linked, fst, jack, cycle, stage>>
    BY <1>9, <1>0 DEF Serve, PhaseInv
  <2>. QED BY <2>1, <1>0 DEF NodeOK
<1>10. CASE ServeFails
  <2>1. /\ phase = "starting" /\ n = Plugins + 1 /\ Where = "serve" /\ Where' = "exited"
        /\ UNCHANGED <<n, phase, linked, fst, jack, cycle, stage>>
    BY <1>10, <1>0 DEF ServeFails, PhaseInv
  <2>. QED BY <2>1, <1>0 DEF NodeOK
<1>11. CASE Tick \/ Poll \/ EditorsRun \/ DestroyWindow \/ RunEditor \/ CloseEditor
  <2>1. /\ Where' \in {"leave", "poll", "edit", "loop", "destroy"}
        /\ Where \in {"poll", "loop", "edit", "destroy"}
        /\ UNCHANGED <<phase, linked, fst, jack, cycle, stage>>
    BY <1>11, <1>0, WhereTo DEF Tick, Poll, EditorsRun, DestroyWindow, RunEditor, CloseEditor
  <2>2. phase = "running"
    BY <2>1, <1>0 DEF PhaseInv
  <2>. QED BY <2>1, <2>2, <1>0 DEF NodeOK
<1>12. CASE \E j \in Nodes : ReplaceFails(j)
  <2>1. /\ phase = "running" /\ Where' = "crashed" /\ fst'[i] \in {None, fst[i]}
        /\ UNCHANGED <<n, phase, linked, jack, cycle, stage>>
    BY <1>12, <1>0 DEF ReplaceFails, PhaseInv, TypeOK
  <2>. QED BY <2>1, <1>0 DEF NodeOK
<1>13. CASE Leave
  <2>1. /\ phase = "running" /\ Where = "leave" /\ Where' = "over" /\ n' = 1 /\ phase' = "ending"
        /\ UNCHANGED <<linked, fst, jack, cycle, stage>>
    BY <1>13, <1>0 DEF Leave, GameOver, PhaseInv
  <2>. QED BY <2>1, <1>0 DEF NodeOK
<1>14. CASE CloseNode
  <2>1. /\ Where = "over" /\ Where' \in {"exited", "close", "unbind"}
        /\ Where' = "close" => jack[n] = "none"
        /\ UNCHANGED <<n, phase, linked, fst, jack, cycle, stage>>
    BY <1>14, <1>0 DEF CloseNode
  <2>2. phase \in {"ending", "failed"}
    BY <2>1, <1>0 DEF PhaseInv
  <2>. QED BY <2>1, <2>2, <1>0 DEF NodeOK
<1>15. CASE Unbind
  <2>1. /\ Where = "unbind" /\ Where' = "deactivate"
        /\ UNCHANGED <<n, phase, linked, fst, jack, cycle, stage>>
    BY <1>15, <1>0 DEF Unbind, SetIdle
  <2>2. phase \in {"ending", "failed"}
    BY <2>1, <1>0 DEF PhaseInv
  <2>. QED BY <2>1, <2>2, <1>0 DEF NodeOK
<1>16. CASE Deactivate
  <2>1. /\ Where = "deactivate" /\ Where' = "close" /\ cycle[n] = None
        /\ jack' = [jack EXCEPT ![n] = "none"]
        /\ UNCHANGED <<n, phase, linked, fst, cycle, stage>>
    BY <1>16, <1>0 DEF Deactivate
  <2>2. phase \in {"ending", "failed"}
    BY <2>1, <1>0 DEF PhaseInv
  <2>3. jack'[i] = IF i = n THEN "none" ELSE jack[i]
    BY <2>1, <1>0 DEF TypeOK
  <2>4. CASE i = n
    <3>1. cycle'[i] = None /\ jack'[i] = "none" /\ fst'[i] = fst[i] /\ phase' # "starting"
      BY <2>1, <2>2, <2>3, <2>4
    <3>2. (Known(i)' <=> Known(i)) /\ (Closed(i)' <=> Closed(i))
      BY <2>1, <2>2, <1>0
    <3>3. Where # "crashed" /\ Where' # "bind"
      BY <2>1
    <3> HIDE DEF Known, JackClosed, Closed
    <3>. QED BY <2>1, <3>1, <3>2, <3>3, <1>0 DEF NodeOK
  <2>5. CASE i # n
    BY <2>1, <2>2, <2>3, <2>5, <1>0 DEF NodeOK
  <2>. QED BY <2>4, <2>5
<1>17. CASE Close
  <2>1. /\ Where = "close" /\ Where' = IF fst[n] = None THEN "free" ELSE "remove"
        /\ UNCHANGED <<n, phase, linked, fst, jack, cycle, stage>>
    BY <1>17, <1>0, WhereTo DEF Close
  <2>2. phase \in {"ending", "failed"}
    BY <2>1, <1>0 DEF PhaseInv
  <2>. QED BY <2>1, <2>2, <1>0 DEF NodeOK
<1>18. CASE ThreadRemove
  <2>1. /\ Where = "remove" /\ Where' = "free"
        /\ UNCHANGED <<n, phase, linked, fst, jack, cycle, stage>>
    BY <1>18, <1>0 DEF ThreadRemove
  <2>2. phase \in {"ending", "failed"}
    BY <2>1, <1>0 DEF PhaseInv
  <2>. QED BY <2>1, <2>2, <1>0 DEF NodeOK
<1>19. CASE Free
  <2>1. /\ Where = "free" /\ Where' = "over" /\ n' = n + 1 /\ UNCHANGED <<phase, linked, fst, jack, cycle>>
        /\ \A f \in FSTs : stage'[f] = IF f = fst[n] THEN "freed" ELSE stage[f]
    BY <1>19, <1>0 DEF Free
  <2>2. phase \in {"ending", "failed"} /\ n \in Nodes
    BY <2>1, <1>0, NodeLabels DEF PhaseInv
  <2>3. fst[n] \in {None, n, n + Plugins}
    BY <2>2 DEF IInv, NodeInv, NodeOK
  <2>4. i # n => \A g \in {i, i + Plugins} : stage'[g] = stage[g]
    BY <2>1, <2>2, <2>3, <1>0, Apart
  <2>5. i = n => cycle[i] = None
    BY <2>1, <2>2, <1>0 DEF NodeOK
  <2>6. stage'[i + Plugins] = stage[i + Plugins] \/ i = n
    BY <2>4
  <2>7. cycle[i] # None =>
          jack'[i] = "active" /\ cycle[i] \in {i, i + Plugins} /\ stage'[cycle[i]] = "open"
    BY <2>1, <2>4, <2>5, <1>0 DEF NodeOK
  <2>8. fst[i] # None /\ ~Closed(i)' => stage'[fst[i]] = "open"
    BY <2>1, <2>2, <2>4, <1>0 DEF NodeOK
  <2>9. (JackClosed(i)' <=> JackClosed(i)) /\ (Known(i)' <=> Known(i))
    BY <2>1, <2>2, <1>0
  <2>10. Where # "crashed" /\ Where' # "crashed" /\ Where' # "bind" /\ phase' # "starting"
    BY <2>1, <2>2
  <2> HIDE DEF Known, JackClosed, Closed
  <2>. QED BY <2>1, <2>7, <2>8, <2>9, <2>10, <1>0 DEF NodeOK
<1>. QED
  BY <1>1, <1>2, <1>3, <1>4, <1>5, <1>6, <1>7, <1>8, <1>9, <1>10, <1>11, <1>12, <1>13, <1>14,
     <1>15, <1>16, <1>17, <1>18, <1>19, OpensBegin DEF Moves, Starts, Runs, Ends

-----------------------------------------------------------------------------
(* The lists of the event threads                                          *)

LEMMA ThreadType == ASSUME IInv, NEW i \in Nodes PROVE Thread(i) \in Nodes
BY HostNumbers DEF Thread

(* Appending an FST, and taking it out again.                              *)
LEMMA AppendedFacts ==
  ASSUME IInv, NEW j \in Nodes, NEW f \in FSTs, list' = [list EXCEPT ![Thread(j)] = Append(@, f)]
  PROVE  \A t \in Nodes, g \in FSTs : Listed(t, g)' <=> Listed(t, g) \/ (t = Thread(j) /\ g = f)
<1>. SUFFICES ASSUME NEW t \in Nodes, NEW g \in FSTs
              PROVE  Listed(t, g)' <=> Listed(t, g) \/ (t = Thread(j) /\ g = f)
  OBVIOUS
<1>0. Thread(j) \in Nodes /\ list[t] \in Seq(FSTs) /\ list \in [Nodes -> Seq(FSTs)]
  BY ThreadType DEF IInv, TypeOK
<1>1. CASE t # Thread(j)
  BY <1>0, <1>1 DEF Listed
<1>2. CASE t = Thread(j)
  <2>1. list'[t] = Append(list[t], f)
    BY <1>0, <1>2
  <2>2. /\ DOMAIN list'[t] = 1 .. Len(list[t]) + 1 /\ DOMAIN list[t] = 1 .. Len(list[t])
        /\ \A k \in 1 .. Len(list[t]) : list'[t][k] = list[t][k]
        /\ list'[t][Len(list[t]) + 1] = f /\ Len(list[t]) \in Nat
    BY <2>1, <1>0
  <2>3. Listed(t, g)' => Listed(t, g) \/ g = f
    BY <2>2 DEF Listed
  <2>4. Listed(t, g) => Listed(t, g)'
    BY <2>2 DEF Listed
  <2>5. g = f => Listed(t, g)'
    BY <2>2 DEF Listed
  <2>. QED BY <2>3, <2>4, <2>5, <1>2
<1>. QED BY <1>1, <1>2

LEMMA RemovedFacts ==
  ASSUME IInv, ThreadRemove, Where = "remove"
  PROVE  /\ n \in Nodes /\ fst[n] \in FSTs /\ Thread(n) \in Nodes /\ Listed(Thread(n), fst[n])
         /\ list' = [list EXCEPT ![Thread(n)] = Unlinked(@, fst[n])]
         /\ \A t \in Nodes, g \in FSTs : Listed(t, g)' => Listed(t, g)
         /\ \A t \in Nodes, g \in FSTs : Listed(t, g) /\ (t # Thread(n) \/ g # fst[n]) => Listed(t, g)'
<1>1. /\ n \in Nodes /\ fst[n] \in FSTs /\ Thread(n) \in Nodes /\ Listed(Thread(n), fst[n])
      /\ list \in [Nodes -> Seq(FSTs)]
  <2>1. n \in Nodes
    BY NodeLabels
  <2>2. PICK j \in Nodes : j = n
    BY <2>1
  <2>3. Thread(j) \in Nodes
    BY ThreadType
  <2>. QED BY <2>1, <2>2, <2>3 DEF IInv, ListInv, CallInv, TypeOK
<1>2. list' = [list EXCEPT ![Thread(n)] = Unlinked(@, fst[n])]
  BY DEF ThreadRemove
<1>3. PICK i \in DOMAIN list[Thread(n)] : list[Thread(n)][i] = fst[n]
  BY <1>1 DEF Listed
<1>4. PICK s \in Seq(FSTs) : s = list[Thread(n)]
  BY <1>1
<1>5. i \in DOMAIN s /\ s[i] = fst[n]
  BY <1>3, <1>4
<1>6. /\ \A k \in DOMAIN Unlinked(s, s[i]) : \E j \in DOMAIN s : s[j] = Unlinked(s, s[i])[k]
      /\ \A j \in DOMAIN s : s[j] # s[i] =>
           \E k \in DOMAIN Unlinked(s, s[i]) : Unlinked(s, s[i])[k] = s[j]
  BY <1>5, UnlinkedFacts
<1>7. list'[Thread(n)] = Unlinked(s, s[i]) /\ \A t \in Nodes : t # Thread(n) => list'[t] = list[t]
  BY <1>1, <1>2, <1>4, <1>5
<1>. HIDE DEF Unlinked
<1>8. ASSUME NEW g \in FSTs
      PROVE  /\ Listed(Thread(n), g)' => \E k \in DOMAIN s : s[k] = g
             /\ (\E k \in DOMAIN s : s[k] = g) /\ g # fst[n] =>
                  \E k \in DOMAIN list'[Thread(n)] : list'[Thread(n)][k] = g
  <2>1. \A k \in DOMAIN list'[Thread(n)] : \E j \in DOMAIN s : s[j] = list'[Thread(n)][k]
    BY <1>6, <1>7
  <2>2. \A j \in DOMAIN s : s[j] # s[i] =>
          \E k \in DOMAIN list'[Thread(n)] : list'[Thread(n)][k] = s[j]
    BY <1>6, <1>7
  <2>3. Thread(n)' = Thread(n)
    BY DEF ThreadRemove, options, Thread
  <2>. QED BY <2>1, <2>2, <2>3, <1>5 DEF Listed
<1>9. Thread(n)' = Thread(n)
  BY DEF ThreadRemove, options, Thread
<1>10. ASSUME NEW t \in Nodes, NEW g \in FSTs, t # Thread(n)
       PROVE  Listed(t, g)' <=> Listed(t, g)
  BY <1>7, <1>10 DEF Listed
<1>11. ASSUME NEW t \in Nodes, NEW g \in FSTs, t = Thread(n)
       PROVE  /\ Listed(t, g)' => Listed(t, g)
              /\ Listed(t, g) /\ g # fst[n] => Listed(t, g)'
  BY <1>4, <1>8, <1>9, <1>11 DEF Listed
<1>. QED BY <1>1, <1>2, <1>10, <1>11

(* What ListInv says but for the main thread.                              *)
Lists ==
  /\ \A t \in Nodes, f \in FSTs : Listed(t, f) => stage[f] # "none" /\ t = Thread(NodeOf(f))
  /\ \A f \in FSTs : stage[f] \in {"listed", "open"} => Listed(Thread(NodeOf(f)), f)
  /\ \A t \in Nodes : at[t] # None => Listed(t, at[t])

LEMMA ListsElsewhere == ASSUME IInv, Elsewhere PROVE Lists'
<1>0. /\ Lists /\ TypeOK /\ TypeOK' /\ UNCHANGED <<opt, list>>
      /\ \A i : Thread(i)' = Thread(i)
  BY ElsewhereKeeps, ElsewhereTypes DEF IInv, ListInv, Lists, Thread
<1>1. \A t \in Nodes, f \in FSTs : Listed(t, f)' <=> Listed(t, f)
  BY <1>0 DEF Listed
<1>2. CASE \E t \in Nodes : ServeCall(t)
  <2>1. PICK t \in Nodes : ServeCall(t)
    BY <1>2
  <2>2. PICK f \in FSTs : f = at[t]
    BY <2>1, ServeStages
  <2>3. /\ stage[f] # "none" /\ \A g \in FSTs : g # f => stage'[g] = stage[g]
        /\ stage'[f] # "none"
    BY <2>1, <2>2, ServeStages
  <2>4. Listed(t, f) /\ t = Thread(NodeOf(f))
    BY <2>1, <2>2, <1>0, HostNumbers DEF Lists
  <2>5. at' = [at EXCEPT ![t] = Following(list[t], f)]
    BY <2>1, <2>2 DEF ServeCall, Reach
  <2>6. Following(list[t], f) # None => Listed(t, Following(list[t], f))
    BY <2>1, <2>2, FollowingType DEF ServeCall
  <2>7. \A u \in Nodes : at'[u] # None => Listed(u, at'[u])
    BY <2>5, <2>6, <1>0 DEF Lists, TypeOK
  <2>8. \A u \in Nodes : at'[u] # None => Listed(u, at[u])'
    BY <2>7, <1>0 DEF Listed
  <2>9. \A u \in Nodes, g \in FSTs : Listed(u, g)' => stage'[g] # "none" /\ u = Thread(NodeOf(g))
    BY <2>3, <1>0, <1>1 DEF Lists
  <2>10. \A g \in FSTs : stage'[g] \in {"listed", "open"} => Listed(Thread(NodeOf(g)), g)
    BY <2>3, <2>4, <1>0 DEF Lists
  <2>11. \A g \in FSTs : Thread(NodeOf(g)) \in Nodes
    BY HostNumbers, ThreadType
  <2>. QED BY <2>8, <2>9, <2>10, <2>11, <1>0, <1>1 DEF Lists, NodeOf
<1>3. CASE \E t \in Nodes : BeginWalk(t)
  <2>1. PICK t \in Nodes : BeginWalk(t)
    BY <1>3
  <2>2. at' = [at EXCEPT ![t] = Head(list[t])] /\ UNCHANGED stage /\ list[t] # <<>>
    BY <2>1 DEF BeginWalk, Reach, plugs
  <2>3. Listed(t, Head(list[t]))
    BY <2>2, <1>0, HeadFacts DEF Listed, TypeOK
  <2>4. \A u \in Nodes : at'[u] # None => Listed(u, at'[u])
    BY <2>2, <2>3, <1>0 DEF Lists, TypeOK
  <2>5. \A u \in Nodes : at'[u] # None => Listed(u, at[u])'
    BY <2>4, <1>0 DEF Listed
  <2>6. \A g \in FSTs : Thread(NodeOf(g)) \in Nodes
    BY HostNumbers, ThreadType
  <2>. QED BY <2>2, <2>5, <2>6, <1>0, <1>1 DEF Lists, NodeOf
<1>4. CASE UNCHANGED <<stage, at>>
  <2>2. \A u \in Nodes : at'[u] # None => Listed(u, at[u])'
    BY <1>0, <1>4 DEF Lists, Listed
  <2>3. \A g \in FSTs : Thread(NodeOf(g)) \in Nodes
    BY HostNumbers, ThreadType
  <2>. QED BY <2>2, <2>3, <1>0, <1>1, <1>4 DEF Lists, NodeOf
<1>5. \/ UNCHANGED <<stage, at>> \/ \E t \in Nodes : ServeCall(t) \/ BeginWalk(t)
  BY DEF Elsewhere, Return, OpenDialog, CloseDialog, SigInt, SigUsr1, SigUsr2, UserCloses, WalkStep,
         Idle, BeginCycle, EndCycle, Unplug, Plug, Replug, vars, plugs, walks
<1>. QED BY <1>2, <1>3, <1>4, <1>5

(* The walks and the lists stay, but where an FST is opened, removed or    *)
(* freed.                                                                  *)
LEMMA MovesLists ==
  ASSUME IInv, Moves
  PROVE  /\ UNCHANGED <<opt, at>> /\ (\A i : Thread(i)' = Thread(i))
         /\ Begins \/ ThreadRemove \/ Free \/ UNCHANGED <<list, stage>>
<1>. USE DEF options, wishes, nodes, plugs, walks, calls
<1>1. CASE Load \/ \E i \in Nodes : Replace(i)
  <2>1. UNCHANGED <<opt, at>>
    BY <1>1 DEF Load, Replace, Open
  <2>2. Begins
    BY <1>1, OpensBegin
  <2>. QED BY <2>1, <2>2 DEF Thread
<1>2. CASE NewPlugin \/ LoadFails \/ Opened \/ JackInit \/ JackInitFails \/ Activate \/ Bind \/ Serve
           \/ ServeFails
  <2>1. UNCHANGED <<opt, at, list, stage>>
    BY <1>2 DEF NewPlugin, LoadFails, Opened, JackInit, JackInitFails, Activate, Bind, Serve,
                ServeFails
  <2>. QED BY <2>1 DEF Thread
<1>3. CASE Runs \/ DestroyWindow \/ \E i \in Nodes : ReplaceFails(i)
  <2>1. UNCHANGED <<opt, at, list, stage>>
    BY <1>3 DEF Runs, Tick, Poll, RunEditor, EditorsRun, CloseEditor, Leave, DestroyWindow,
                ReplaceFails
  <2>. QED BY <2>1 DEF Thread
<1>4. CASE CloseNode \/ Unbind \/ Deactivate \/ Close
  <2>1. UNCHANGED <<opt, at, list, stage>>
    BY <1>4 DEF CloseNode, Unbind, Deactivate, Close
  <2>. QED BY <2>1 DEF Thread
<1>5. CASE ThreadRemove \/ Free
  <2>1. UNCHANGED <<opt, at>>
    BY <1>5 DEF ThreadRemove, Free
  <2>. QED BY <2>1, <1>5 DEF Thread
<1>. QED BY <1>1, <1>2, <1>3, <1>4, <1>5 DEF Moves, Starts, Ends

LEMMA ListsMoves == ASSUME IInv, Moves PROVE Lists'
<1>0. /\ Lists /\ TypeOK /\ TypeOK' /\ UNCHANGED <<opt, at>> /\ (\A i : Thread(i)' = Thread(i))
      /\ Where = pc /\ stack = <<>> /\ \A f \in FSTs : call[f] = "none"
  BY MovesTypes, MovesLists, MovesFrom DEF IInv, ListInv, Lists
<1>a. \A g \in FSTs : Thread(NodeOf(g)) \in Nodes
  BY HostNumbers, ThreadType
<1>b. \A t \in Nodes : at[t] # None => at[t] \in FSTs
  BY <1>0 DEF TypeOK
<1>1. CASE Begins
  <2>1. PICK j \in Nodes, f \in FSTs :
          Opens(j, f, "opened") /\ \/ f = j /\ Load /\ j = n
                                   \/ f = j + Plugins /\ Replace(j)
    BY <1>1 DEF Begins
  <2>2. /\ stage'[f] = "listed" /\ \A g \in FSTs : g # f => stage'[g] = stage[g]
        /\ list' = [list EXCEPT ![Thread(j)] = Append(@, f)]
    BY <2>1, <1>0 DEF Opens, TypeOK
  <2>3. NodeOf(f) = j
    BY <2>1, HostNumbers
  <2>4. \A t \in Nodes, g \in FSTs : Listed(t, g)' <=> Listed(t, g) \/ (t = Thread(j) /\ g = f)
    BY <2>2, AppendedFacts
  <2>5. \A t \in Nodes, g \in FSTs : Listed(t, g)' => stage'[g] # "none" /\ t = Thread(NodeOf(g))
    BY <2>2, <2>3, <2>4, <1>0 DEF Lists
  <2>6. \A g \in FSTs : stage'[g] \in {"listed", "open"} => Listed(Thread(NodeOf(g)), g)'
    <3>. SUFFICES ASSUME NEW g \in FSTs, stage'[g] \in {"listed", "open"}
                  PROVE  Listed(Thread(NodeOf(g)), g)'
      OBVIOUS
    <3>1. PICK t \in Nodes : t = Thread(NodeOf(g))
      BY <1>a
    <3>2. Listed(t, g)'
      BY <3>1, <2>2, <2>3, <2>4, <1>0 DEF Lists
    <3>. QED BY <3>1, <3>2, <1>0 DEF Listed, NodeOf
  <2>7. \A t \in Nodes : at'[t] # None => Listed(t, at[t])'
    <3>. SUFFICES ASSUME NEW t \in Nodes, at'[t] # None PROVE Listed(t, at[t])'
      OBVIOUS
    <3>1. PICK g \in FSTs : g = at[t]
      BY <1>0, <1>b
    <3>2. Listed(t, g)'
      BY <3>1, <2>4, <1>0 DEF Lists
    <3>. QED BY <3>1, <3>2, <1>0 DEF Listed
  <2>. QED BY <2>5, <2>6, <2>7, <1>0 DEF Lists, NodeOf
<1>2. CASE ThreadRemove
  <2>1. Where = "remove" /\ UNCHANGED stage /\ at[Thread(n)] = None
    BY <1>2, <1>0 DEF ThreadRemove, plugs, Unlocked
  <2>2. /\ n \in Nodes /\ fst[n] \in FSTs /\ Thread(n) \in Nodes
        /\ \A t \in Nodes, g \in FSTs : Listed(t, g)' => Listed(t, g)
        /\ \A t \in Nodes, g \in FSTs : Listed(t, g) /\ (t # Thread(n) \/ g # fst[n]) => Listed(t, g)'
    BY <1>2, <2>1, RemovedFacts
  <2>3. stage[fst[n]] = "closed"
    BY <2>1, <2>2, <1>0 DEF IInv, CallInv
  <2>5. \A t \in Nodes, g \in FSTs : Listed(t, g)' => stage'[g] # "none" /\ t = Thread(NodeOf(g))
    BY <2>1, <2>2, <1>0 DEF Lists
  <2>6. \A g \in FSTs : stage'[g] \in {"listed", "open"} => Listed(Thread(NodeOf(g)), g)'
    <3>. SUFFICES ASSUME NEW g \in FSTs, stage'[g] \in {"listed", "open"}
                  PROVE  Listed(Thread(NodeOf(g)), g)'
      OBVIOUS
    <3>1. PICK t \in Nodes : t = Thread(NodeOf(g))
      BY <1>a
    <3>2. Listed(t, g)'
      BY <3>1, <2>1, <2>2, <2>3, <1>0 DEF Lists
    <3>. QED BY <3>1, <3>2, <1>0 DEF Listed, NodeOf
  <2>7. \A t \in Nodes : at'[t] # None => Listed(t, at[t])'
    <3>. SUFFICES ASSUME NEW t \in Nodes, at'[t] # None PROVE Listed(t, at[t])'
      OBVIOUS
    <3>1. PICK g \in FSTs : g = at[t]
      BY <1>0, <1>b
    <3>2. Listed(t, g)'
      BY <3>1, <2>1, <2>2, <1>0 DEF Lists
    <3>. QED BY <3>1, <3>2, <1>0 DEF Listed
  <2>. QED BY <2>5, <2>6, <2>7, <1>0 DEF Lists, NodeOf
<1>3. CASE UNCHANGED list /\ \A g \in FSTs : stage'[g] \in {stage[g], "freed"}
  <2>1. \A t \in Nodes, f \in FSTs : Listed(t, f)' <=> Listed(t, f)
    BY <1>3 DEF Listed
  <2>2. \A u \in Nodes : at[u] # None => Listed(u, at[u])'
    BY <1>0, <1>3 DEF Lists, Listed
  <2>3. \A t \in Nodes, g \in FSTs : Listed(t, g)' => stage'[g] # "none" /\ t = Thread(NodeOf(g))
    BY <2>1, <1>0, <1>3 DEF Lists
  <2>4. \A g \in FSTs : stage'[g] \in {"listed", "open"} => Listed(Thread(NodeOf(g)), g)
    BY <1>0, <1>3 DEF Lists
  <2>5. \A g \in FSTs : stage'[g] \in {"listed", "open"} => Listed(Thread(NodeOf(g)), g)'
    BY <2>4, <1>0, <1>3 DEF Listed, NodeOf
  <2>. QED BY <2>2, <2>3, <2>5, <1>0 DEF Lists, NodeOf
<1>4. Free => UNCHANGED list /\ \A g \in FSTs : stage'[g] \in {stage[g], "freed"}
  BY DEF Free, walks
<1>5. UNCHANGED <<list, stage>> => UNCHANGED list /\ \A g \in FSTs : stage'[g] \in {stage[g], "freed"}
  OBVIOUS
<1>. QED BY <1>1, <1>2, <1>3, <1>4, <1>5, MovesLists

LEMMA ListStep == ASSUME IInv, Elsewhere \/ Moves PROVE ListInv'
<1>1. Lists'
  BY ListsElsewhere, ListsMoves
<1>2. (Where = "remove" => Listed(Thread(n), fst[n]))'
  <2>1. CASE Elsewhere
    <3>1. Where' = Where /\ UNCHANGED <<opt, n, fst, list>>
      BY <2>1, ElsewhereKeeps
    <3>. QED BY <3>1 DEF IInv, ListInv, Listed, Thread
  <2>2. CASE Moves
    <3>1. Where' = "remove" => Closes
      <4>1. stack = <<>>
        BY <2>2, MovesFrom
      <4>2. CASE Goes
        BY <4>1, <4>2 DEF Goes, Where
      <4>3. CASE Asks
        BY <4>3 DEF Asks, OneCall, Where
      <4>4. CASE Begins
        BY <4>4 DEF Begins, Opens, Where
      <4>. QED BY <4>2, <4>3, <4>4, <2>2, MoveKinds
    <3>. SUFFICES ASSUME Closes PROVE Listed(Thread(n), fst[n])'
      BY <3>1
    <3>2. PICK f \in FSTs : f = fst[n] /\ Close
      BY DEF Closes
    <3>3. Where = "close" /\ n \in Nodes /\ UNCHANGED <<n, fst, list>> /\ f # None
      BY <3>2, <2>2, MovesFrom, NodeLabels, HostNumbers DEF Close, nodes, walks
    <3>4. stage[f] = "open" /\ f \in {n, n + Plugins}
      <4>1. ~Closed(n)
        BY <3>3, HostNumbers DEF Closed
      <4>. QED BY <4>1, <3>2, <3>3 DEF IInv, NodeInv, NodeOK
    <3>5. Listed(Thread(n), f)
      <4>1. NodeOf(f) = n
        BY <3>3, <3>4, HostNumbers
      <4>2. Listed(Thread(NodeOf(f)), f)
        BY <3>4 DEF IInv, ListInv
      <4>. QED BY <4>1, <4>2
    <3>6. \A i : Thread(i)' = Thread(i)
      BY <2>2, MovesLists
    <3>. QED BY <3>2, <3>3, <3>5, <3>6 DEF Listed, Thread
  <2>. QED BY <2>1, <2>2
<1>. QED BY <1>1, <1>2 DEF Lists, ListInv

-----------------------------------------------------------------------------
(* The order of the lists, in hosts without second FSTs                    *)

Increasing(s) == \A k \in DOMAIN s : \A j \in 1 .. k - 1 : s[j] < s[k]

LEMMA AppendIncreases ==
  ASSUME NEW S \in SUBSET Nat, NEW s \in Seq(S), Increasing(s), NEW x \in S, \A k \in DOMAIN s : s[k] < x
  PROVE  Increasing(Append(s, x))
<1>1. /\ DOMAIN s = 1 .. Len(s) /\ Len(s) \in Nat /\ DOMAIN Append(s, x) = 1 .. Len(s) + 1
      /\ \A k \in 1 .. Len(s) : Append(s, x)[k] = s[k]
      /\ Append(s, x)[Len(s) + 1] = x
  OBVIOUS
<1>. SUFFICES ASSUME NEW k \in DOMAIN Append(s, x), NEW j \in 1 .. k - 1
              PROVE  Append(s, x)[j] < Append(s, x)[k]
  BY DEF Increasing
<1>2. CASE k = Len(s) + 1
  BY <1>1, <1>2
<1>3. CASE k # Len(s) + 1
  <2>1. k \in DOMAIN s /\ j \in 1 .. Len(s)
    BY <1>1, <1>3
  <2>. QED BY <2>1, <1>1 DEF Increasing
<1>. QED BY <1>2, <1>3

(* The smallest element is the first, and the others are what follows.     *)
LEMMA TailIncreases ==
  ASSUME NEW S \in SUBSET Nat, NEW s \in Seq(S), Increasing(s), NEW i \in DOMAIN s,
         \A k \in DOMAIN s : s[k] >= s[i]
  PROVE  /\ Unlinked(s, s[i]) = Tail(s) /\ Increasing(Tail(s))
         /\ \A k \in DOMAIN Tail(s) : Tail(s)[k] # s[i] /\ \E j \in DOMAIN s : s[j] = Tail(s)[k]
<1>1. s # <<>> /\ Len(s) \in Nat \ {0} /\ Head(s) = s[1] /\ DOMAIN s = 1 .. Len(s) /\ 1 \in DOMAIN s
  OBVIOUS
<1>2. /\ DOMAIN Tail(s) = 1 .. Len(s) - 1 /\ \A k \in 1 .. Len(s) - 1 : Tail(s)[k] = s[k + 1]
  BY <1>1
<1>3. \A k \in DOMAIN s : s[k] \in Nat
  <2>1. \A k \in DOMAIN s : s[k] \in S
    OBVIOUS
  <2>. QED BY <2>1
<1>4. i = 1
  <2>. SUFFICES ASSUME i # 1 PROVE FALSE
    OBVIOUS
  <2>1. 1 \in 1 .. i - 1
    BY <1>1
  <2>2. s[1] < s[i]
    BY <2>1 DEF Increasing
  <2>. QED BY <1>1, <1>3, <2>2
<1>5. Unlinked(s, s[i]) = Tail(s)
  BY <1>1, <1>4 DEF Unlinked
<1>6. Increasing(Tail(s))
  <2>. SUFFICES ASSUME NEW k \in DOMAIN Tail(s), NEW j \in 1 .. k - 1 PROVE Tail(s)[j] < Tail(s)[k]
    BY DEF Increasing
  <2>1. k + 1 \in DOMAIN s /\ j + 1 \in 1 .. k + 1 - 1 /\ j \in 1 .. Len(s) - 1
    BY <1>1, <1>2
  <2>2. s[j + 1] < s[k + 1]
    BY <2>1 DEF Increasing
  <2>. QED BY <2>1, <2>2, <1>2
<1>7. ASSUME NEW k \in DOMAIN Tail(s)
      PROVE  Tail(s)[k] # s[i] /\ \E j \in DOMAIN s : s[j] = Tail(s)[k]
  <2>1. k + 1 \in DOMAIN s /\ 1 \in 1 .. k + 1 - 1 /\ Tail(s)[k] = s[k + 1]
    BY <1>1, <1>2
  <2>2. s[1] < s[k + 1]
    BY <2>1 DEF Increasing
  <2>. QED BY <1>1, <1>3, <1>4, <2>1, <2>2
<1>. QED BY <1>5, <1>6, <1>7

(* The FST of a node that is there is its first.                           *)
LEMMA Unreplaced ==
  ASSUME IInv, NoneReplaced
  PROVE  /\ \A t \in Nodes, f \in FSTs : Listed(t, f) => f \in Nodes
         /\ \A i \in Nodes : fst[i] # None /\ ~Closed(i) => fst[i] = i
<1>1. \A f \in FSTs : f \in Nodes \/ \E i \in Nodes : f = i + Plugins
  <2>. SUFFICES ASSUME NEW f \in FSTs, f \notin Nodes PROVE \E i \in Nodes : f = i + Plugins
    OBVIOUS
  <2>1. f - Plugins \in Nodes /\ f = f - Plugins + Plugins
    BY HostNumbers DEF FSTs, Nodes
  <2>. QED BY <2>1
<1>2. \A t \in Nodes, f \in FSTs : Listed(t, f) => f \in Nodes
  BY <1>1 DEF NoneReplaced, IInv, ListInv
<1>3. \A i \in Nodes : fst[i] # None /\ ~Closed(i) => fst[i] = i
  BY DEF NoneReplaced, IInv, NodeInv, NodeOK
<1>. QED BY <1>2, <1>3

(* What is opened or replaced once stays so.                               *)
LEMMA StagesKept ==
  ASSUME IInv, Elsewhere \/ Moves
  PROVE  /\ \A f \in FSTs : stage[f] # "none" => stage'[f] # "none"
         /\ NoneReplaced' => NoneReplaced
         /\ ~Free => \A f \in FSTs : stage'[f] = "freed" => stage[f] = "freed"
<1>1. CASE Elsewhere
  <2>1. CASE \E t \in Nodes : ServeCall(t)
    <3>1. PICK t \in Nodes : ServeCall(t)
      BY <2>1
    <3>2. PICK f \in FSTs : f = at[t]
      BY <3>1, ServeStages
    <3>3. /\ stage[f] # "none" /\ \A g \in FSTs : g # f => stage'[g] = stage[g]
          /\ stage'[f] \in {stage[f], "open", "closed"}
      BY <3>1, <3>2, ServeStages
    <3>. QED BY <3>3, HostNumbers DEF NoneReplaced
  <2>2. CASE UNCHANGED stage
    BY <2>2 DEF NoneReplaced
  <2>. QED BY <1>1, <2>1, <2>2, ElsewhereKinds DEF Return, SigUsr1, plugs
<1>2. CASE Moves
  <2>1. CASE Begins
    <3>1. PICK j \in Nodes, f \in FSTs : Opens(j, f, "opened")
      BY <2>1 DEF Begins
    <3>2. stage'[f] = "listed" /\ \A g \in FSTs : g # f => stage'[g] = stage[g]
      BY <3>1 DEF Opens, IInv, TypeOK
    <3>. QED BY <3>2, HostNumbers DEF NoneReplaced
  <2>2. CASE UNCHANGED stage
    BY <2>2 DEF NoneReplaced
  <2>3. CASE Free
    BY <2>3, HostNumbers DEF Free, NoneReplaced
  <2>. QED BY <1>2, <2>1, <2>2, <2>3, MovesLists DEF ThreadRemove, plugs
<1>. QED BY <1>1, <1>2

LEMMA OrderElsewhere ==
  ASSUME IInv, Elsewhere, NoneReplaced'
  PROVE  OrderInv'
<1>1. /\ UNCHANGED <<opt, n, phase, linked, freed, fst, jack, list, idle>> /\ Where' = Where
      /\ \A f \in FSTs : stage'[f] = "freed" => stage[f] = "freed"
      /\ OrderInv
  <2>1. ~Free
    BY ElsewhereKeeps, HostNumbers DEF Free, IInv, TypeOK
  <2>. QED BY <2>1, ElsewhereKeeps, StagesKept DEF IInv
<1>2. \A t \in Nodes, f \in FSTs : Listed(t, f)' <=> Listed(t, f)
  BY <1>1 DEF Listed
<1>. QED BY <1>1, <1>2 DEF OrderInv, Ending

LEMMA OrderMoves ==
  ASSUME IInv, Moves, NoneReplaced'
  PROVE  OrderInv'
<1>0. /\ OrderInv /\ TypeOK /\ TypeOK' /\ NoneReplaced /\ PhaseInv
      /\ Where = pc /\ stack = <<>> /\ \A f \in FSTs : call[f] = "none"
      /\ n \in 1 .. Plugins + 1 /\ linked \in 0 .. Plugins /\ Plugins \in Nat
      /\ UNCHANGED stack => Where' = pc'
      /\ phase \in {"starting", "running", "ending", "failed"}
      /\ (\A i : Thread(i)' = Thread(i))
      /\ ~Free => \A f \in FSTs : stage'[f] = "freed" => stage[f] = "freed"
  BY MovesFrom, MovesTypes, MovesLists, WhereTo, HostNumbers, StagesKept DEF IInv, TypeOK
<1>a. \A t \in Nodes, f \in FSTs : Listed(t, f) => f \in Nodes
  BY <1>0, Unreplaced
<1>b. \A f \in FSTs : f \in Nat /\ f # 0
  BY HostNumbers
<1>. USE DEF Ending, StartLabels, RunLabels, EndLabels, options, wishes, nodes, plugs, walks, calls
<1>1. CASE Begins
  <2>1. PICK j \in Nodes, f \in FSTs :
          Opens(j, f, "opened") /\ \/ f = j /\ Load /\ j = n
                                   \/ f = j + Plugins /\ Replace(j)
    BY <1>1 DEF Begins
  <2>2. /\ stage'[f] = "listed" /\ UNCHANGED <<phase, fst, jack, idle>> /\ n' = j
        /\ list' = [list EXCEPT ![Thread(j)] = Append(@, f)] /\ Where' = "opened"
    BY <2>1, <1>0 DEF Opens, TypeOK, Where
  <2>3. f = j /\ j = n /\ phase = "starting" /\ Where = "load"
    <3>1. f # j + Plugins
      BY <2>2 DEF NoneReplaced
    <3>. QED BY <3>1, <2>1, <1>0 DEF Load, PhaseInv
  <2>4. \A t \in Nodes, g \in FSTs : Listed(t, g)' <=> Listed(t, g) \/ (t = Thread(j) /\ g = f)
    BY <2>2, AppendedFacts
  <2>5. \A t \in Nodes, g \in FSTs : Listed(t, g) => g < n
    BY <2>3, <1>0 DEF OrderInv
  <2>6. ASSUME NEW t \in Nodes PROVE Increasing(list'[t])
    <3>1. Increasing(list[t]) /\ list[t] \in Seq(FSTs) /\ Thread(j) \in Nodes
      BY <1>0, ThreadType DEF OrderInv, Increasing, TypeOK
    <3>2. CASE t # Thread(j)
      BY <3>1, <3>2, <2>2, <1>0 DEF TypeOK
    <3>3. CASE t = Thread(j)
      <4>1. list'[t] = Append(list[t], f)
        BY <3>3, <2>2, <1>0 DEF TypeOK
      <4>2. \A k \in DOMAIN list[t] : list[t][k] < f
        BY <3>1, <2>3, <2>5 DEF Listed
      <4>3. FSTs \in SUBSET Nat
        BY <1>b
      <4>4. Increasing(Append(list[t], f))
        BY <4>2, <4>3, <3>1, AppendIncreases
      <4>. QED BY <4>1, <4>4
    <3>. QED BY <3>2, <3>3
  <2>7. \A g \in FSTs : stage'[g] # "freed"
    <3>1. ~Free
      BY <2>3, <1>0 DEF Free
    <3>. QED BY <3>1, <2>3, <1>0 DEF OrderInv
  <2>. QED BY <2>2, <2>3, <2>4, <2>5, <2>6, <2>7, <1>0, <1>b DEF OrderInv, Increasing
<1>2. CASE ThreadRemove
  <2>1. /\ Where = "remove" /\ Where' = "free"
        /\ UNCHANGED <<n, phase, fst, jack, idle, stage>>
    BY <1>2, <1>0 DEF ThreadRemove
  <2>2. /\ n \in Nodes /\ fst[n] \in FSTs /\ Thread(n) \in Nodes /\ Listed(Thread(n), fst[n])
        /\ list' = [list EXCEPT ![Thread(n)] = Unlinked(@, fst[n])]
        /\ \A t \in Nodes, g \in FSTs : Listed(t, g)' => Listed(t, g)
    BY <1>2, <2>1, RemovedFacts
  <2>3. fst[n] = n
    <3>1. fst[n] \in Nodes
      BY <2>2, <1>a
    <3>2. fst[n] # None /\ fst[n] # n + Plugins
      BY <3>1, <2>2, Apart
    <3>. QED BY <3>2, <2>2 DEF IInv, NodeInv, NodeOK
  <2>4a. phase \in {"ending", "failed"} /\ n <= linked
    BY <2>1, <1>0 DEF PhaseInv
  <2>5. ASSUME NEW g \in FSTs, Listed(Thread(n), g)
        PROVE  g >= n
    <3>1. SUFFICES ASSUME g < n PROVE FALSE
      BY <1>0, <1>b
    <3>2. g \in Nodes /\ fst[g] = None
      BY ONLY <2>2, <2>4a, <2>5, <3>1, <1>0, <1>a DEF OrderInv
    <3>3. g < linked
      BY <2>2, <2>4a, <3>1, <3>2, <1>0 DEF Nodes
    <3>4. Known(g)
      BY <2>4a, <3>3 DEF Known
    <3>. QED BY <3>2, <3>4 DEF IInv, NodeInv, NodeOK
  <2>6. PICK s \in Seq(FSTs) : s = list[Thread(n)]
    BY <2>2, <1>0 DEF TypeOK
  <2>7. PICK i \in DOMAIN s : s[i] = n
    BY <2>2, <2>3, <2>6 DEF Listed
  <2>8. /\ Unlinked(s, s[i]) = Tail(s) /\ Increasing(Tail(s))
        /\ \A k \in DOMAIN Tail(s) : Tail(s)[k] # s[i] /\ \E j \in DOMAIN s : s[j] = Tail(s)[k]
    <3>1. FSTs \in SUBSET Nat
      BY <1>b
    <3>2. Increasing(s)
      BY <2>2, <2>6, <1>0 DEF OrderInv, Increasing
    <3>3. \A k \in DOMAIN s : s[k] >= s[i]
      BY <2>5, <2>6, <2>7 DEF Listed
    <3>. QED BY <3>1, <3>2, <3>3, TailIncreases
  <2>9. list'[Thread(n)] = Tail(s) /\ \A t \in Nodes : t # Thread(n) => list'[t] = list[t]
    BY <2>2, <2>3, <2>6, <2>7, <2>8, <1>0 DEF TypeOK
  <2>10. \A t \in Nodes : Increasing(list'[t])
    BY <2>8, <2>9, <1>0 DEF OrderInv, Increasing
  <2>m. PICK m \in Nodes : m = n
    BY <2>2
  <2>11. ASSUME NEW t \in Nodes, Listed(t, m)' PROVE FALSE
    <3>1. t = Thread(n)
      <4>1. Listed(t, m) /\ m \in FSTs /\ NodeOf(m) = m
        BY <2>2, <2>11, HostNumbers
      <4>. QED BY <4>1, <2>m DEF IInv, ListInv
    <3>2. PICK k \in DOMAIN list'[Thread(n)] : list'[Thread(n)][k] = n
      BY <3>1, <2>m, <2>11 DEF Listed
    <3>. QED BY <3>2, <2>7, <2>8, <2>9
  <2>12. \A t \in Nodes, g \in FSTs : Listed(t, g)' => Listed(t, g) /\ g # n
    BY <2>2, <2>m, <2>11
  <2>. QED BY <2>1, <2>4a, <2>10, <2>12, <1>0, <1>b DEF OrderInv, Increasing
<1>3. CASE Free
  <2>1. /\ Where = "free" /\ Where' = "over" /\ n' = n + 1 /\ UNCHANGED <<phase, linked, fst, jack, idle, list>>
        /\ \A f \in FSTs : stage'[f] = IF f = fst[n] THEN "freed" ELSE stage[f]
    BY <1>3, <1>0 DEF Free
  <2>2. phase \in {"ending", "failed"} /\ n \in Nodes
    BY <2>1, <1>0, NodeLabels DEF PhaseInv
  <2>3. fst[n] \in {None, n}
    <3>1. fst[n] \in {None, n, n + Plugins} /\ n + Plugins \in FSTs
      BY <2>2, HostNumbers DEF IInv, NodeInv, NodeOK
    <3>2. fst[n] # n + Plugins
      BY <2>1, <2>2, <3>1 DEF NoneReplaced
    <3>. QED BY <3>1, <3>2
  <2>4. \A t \in Nodes, f \in FSTs : Listed(t, f)' <=> Listed(t, f)
    BY <2>1 DEF Listed
  <2>5. \A f \in FSTs : stage'[f] = "freed" => f < n' /\ fst[f] = f
    BY <2>1, <2>2, <2>3, <1>0, <1>b DEF OrderInv
  <2>6. \A t \in Nodes, f \in FSTs : Listed(t, f) /\ f < n' => fst[f] = None
    BY <2>1, <2>2, <1>0, <1>b DEF OrderInv
  <2>. QED BY <2>1, <2>2, <2>4, <2>5, <2>6, <1>0 DEF OrderInv
<1>4. CASE UNCHANGED <<list, stage>> /\ ~Free
  <2>0. \A t \in Nodes, f \in FSTs : Listed(t, f)' <=> Listed(t, f)
    BY <1>4 DEF Listed
  <2>1. CASE NewPlugin \/ JackInit \/ Activate
    <3>1. /\ UNCHANGED <<n, phase, fst, idle>> /\ phase = "starting" /\ Where' # "deactivate"
      BY <2>1, <1>0, WhereTo DEF NewPlugin, JackInit, Activate, PhaseInv
    <3>1a. \A f \in FSTs : stage'[f] # "freed"
      BY <3>1, <1>0, <1>4 DEF OrderInv
    <3>2. \A i \in Nodes : idle[i] # None => jack'[i] = "active"
      <4>1. CASE NewPlugin
        BY <4>1, <1>0 DEF NewPlugin, OrderInv
      <4>2. CASE JackInit
        <5>1. n \in Nodes /\ phase = "starting" /\ Where = "init"
          BY <4>2, <3>1, <1>0, NodeLabels DEF JackInit
        <5>2. jack[n] = "none"
          BY <5>1 DEF IInv, NodeInv, NodeOK
        <5>. QED BY <5>2, <4>2, <1>0 DEF JackInit, OrderInv, TypeOK
      <4>3. CASE Activate
        BY <4>3, <1>0 DEF Activate, OrderInv, TypeOK
      <4>. QED BY <2>1, <4>1, <4>2, <4>3
    <3>3. \A t \in Nodes, f \in FSTs : Listed(t, f) => f < n \/ (f = n /\ Where' \notin {"start", "load"})
      BY <2>1, <3>1, <1>0, WhereTo DEF OrderInv, NewPlugin, JackInit, Activate
    <3>. QED BY <3>1, <3>1a, <3>2, <3>3, <2>0, <1>0, <1>4 DEF OrderInv
  <2>2. CASE LoadFails \/ JackInitFails
    <3>1. /\ Where \in {"load", "init"} /\ Where' = "over" /\ n' = 1 /\ phase' = "failed" /\ phase = "starting"
          /\ UNCHANGED idle
      BY <2>2, <1>0 DEF LoadFails, JackInitFails, GameOver, PhaseInv
    <3>2. n \in Nodes /\ jack[n] = "none"
      <4>1. n \in Nodes
        BY <3>1, NodeLabels
      <4>. QED BY <4>1, <3>1 DEF IInv, NodeInv, NodeOK
    <3>3. \A i \in Nodes : idle[i] # None => idle[i] = i /\ jack'[i] = "active"
      BY <2>2, <3>2, <1>0 DEF LoadFails, JackInitFails, OrderInv, TypeOK
    <3>4. \A f \in FSTs : stage'[f] # "freed" /\ ~(f < 1)
      BY <3>1, <1>0, <1>4, <1>b DEF OrderInv
    <3>. QED BY <3>1, <3>3, <3>4, <2>0, <1>0, <1>4 DEF OrderInv
  <2>3. CASE Opened \/ (\E j \in Nodes : ReplaceFails(j))
    <3>1. /\ Where' \in {"init", "loop", "crashed"} /\ UNCHANGED <<n, phase, jack, idle>>
          /\ phase \in {"starting", "running"} /\ Where \in {"opened", "loop"}
      BY <2>3, <1>0 DEF Opened, ReplaceFails, PhaseInv
    <3>2. \A f \in FSTs : stage'[f] # "freed"
      BY <3>1, <1>0, <1>4 DEF OrderInv
    <3>. QED BY <3>1, <3>2, <2>0, <1>0, <1>4 DEF OrderInv
  <2>4. CASE Bind
    <3>1. /\ phase = "starting" /\ Where = "bind" /\ Where' = "start" /\ n' = n + 1
          /\ UNCHANGED <<phase, fst, jack>> /\ idle' = [idle EXCEPT ![fst[n]] = n]
      BY <2>4, <1>0 DEF Bind, SetIdle, PhaseInv
    <3>2. n \in Nodes /\ fst[n] = n /\ jack[n] = "active"
      <4>1. n \in Nodes /\ fst[n] \in {n, n + Plugins}
        BY <3>1, NodeLabels
      <4>2. ~Closed(n) /\ fst[n] # None
        BY <3>1, <4>1, Apart DEF Closed
      <4>. QED BY <3>1, <4>1, <4>2, <1>0, Unreplaced DEF IInv, NodeInv, NodeOK
    <3>3. \A i \in Nodes : idle'[i] = IF i = n THEN n ELSE idle[i]
      BY <3>1, <3>2, HostNumbers DEF IInv, MoreTypes
    <3>4. \A i \in Nodes : idle'[i] # None => idle'[i] = i /\ jack[i] = "active"
      BY <3>2, <3>3, <1>0 DEF OrderInv
    <3>5. \A f \in FSTs : stage'[f] # "freed"
      BY <3>1, <1>0, <1>4 DEF OrderInv
    <3>6. \A t \in Nodes, f \in FSTs : Listed(t, f) => f < n + 1
      BY <3>1, <1>0, <1>b DEF OrderInv
    <3>. QED BY <3>1, <3>4, <3>5, <3>6, <2>0, <1>0, <1>4 DEF OrderInv
  <2>5. CASE Serve \/ Runs \/ DestroyWindow \/ ServeFails
    <3>1. /\ Where' \in {"leave", "poll", "edit", "loop", "destroy", "over", "exited"}
          /\ UNCHANGED <<jack, idle>>
      BY <2>5, <1>0, WhereTo DEF Serve, ServeFails, Runs, Tick, Poll, EditorsRun, DestroyWindow, RunEditor,
                                 CloseEditor, Leave, GameOver
    <3>2. phase \in {"starting", "running"}
      BY <2>5, <1>0 DEF Serve, ServeFails, Runs, Tick, Poll, EditorsRun, DestroyWindow, RunEditor,
                        CloseEditor, Leave, PhaseInv
    <3>3. \A f \in FSTs : stage'[f] # "freed"
      BY <3>2, <1>0, <1>4 DEF OrderInv
    <3>4. \A t \in Nodes, f \in FSTs : Listed(t, f) => (phase' = "starting" => f < n')
      <4>1. CASE ServeFails
        BY <4>1, <1>0, <1>a DEF ServeFails, PhaseInv, Nodes
      <4>2. CASE Serve
        BY <4>2 DEF Serve
      <4>3. CASE Runs \/ DestroyWindow
        <5>1. phase = "running"
          BY <4>3, <1>0 DEF Runs, Tick, Poll, EditorsRun, DestroyWindow, RunEditor, CloseEditor, Leave,
                            PhaseInv
        <5>. QED BY <5>1, <4>3 DEF Runs, Tick, Poll, EditorsRun, DestroyWindow, RunEditor, CloseEditor,
                                   Leave, GameOver
      <4>. QED BY <2>5, <4>1, <4>2, <4>3
    <3>5. \A f \in FSTs : phase' \in {"ending", "failed"} => ~(f < n')
      BY <2>5, <3>2, <1>0, <1>b DEF Serve, ServeFails, Runs, Tick, Poll, EditorsRun, DestroyWindow,
                         RunEditor, CloseEditor, Leave, GameOver, PhaseInv
    <3>. QED BY <3>1, <3>3, <3>4, <3>5, <2>0, <1>0, <1>4 DEF OrderInv
  <2>6. CASE CloseNode \/ Close
    <3>1. /\ UNCHANGED <<n, phase, fst, jack, idle>> /\ Where \in {"over", "close"}
          /\ Where' \in {"exited", "close", "unbind", "free", "remove"}
          /\ Where' = "free" => fst[n] = None
      BY <2>6, <1>0, WhereTo DEF CloseNode, Close
    <3>2. phase \in {"ending", "failed"}
      BY <3>1, <1>0 DEF PhaseInv
    <3>. QED BY <3>1, <3>2, <2>0, <1>0, <1>4 DEF OrderInv
  <2>7. CASE Unbind
    <3>1. /\ UNCHANGED <<n, phase, fst, jack>> /\ Where = "unbind" /\ Where' = "deactivate"
          /\ idle' = [idle EXCEPT ![fst[n]] = None]
      BY <2>7, <1>0 DEF Unbind, SetIdle
    <3>2. phase \in {"ending", "failed"} /\ n \in Nodes
      BY <3>1, <1>0, NodeLabels DEF PhaseInv
    <3>3. fst[n] \in {None, n} /\ (fst[n] = None => jack[n] # "active")
      <4>1. ~Closed(n)
        BY <3>1, <3>2, <1>0 DEF Closed
      <4>2. fst[n] # None => fst[n] = n
        BY <4>1, <3>2, <1>0, Unreplaced
      <4>3. jack[n] = "active" => fst[n] # None
        BY <3>1, <3>2 DEF IInv, NodeInv, NodeOK
      <4>. QED BY <4>2, <4>3
    <3>4. \A i \in Nodes : idle'[i] # None => idle[i] # None /\ idle'[i] = idle[i]
      BY <3>1, HostNumbers DEF IInv, MoreTypes
    <3>5. idle'[n] = None
      BY <3>1, <3>2, <3>3, <3>4, <1>0, HostNumbers DEF IInv, MoreTypes, OrderInv
    <3>. QED BY <3>1, <3>2, <3>4, <3>5, <2>0, <1>0, <1>4 DEF OrderInv
  <2>8. CASE Deactivate
    <3>1. /\ UNCHANGED <<n, phase, fst, idle>> /\ Where = "deactivate" /\ Where' = "close"
          /\ jack' = [jack EXCEPT ![n] = "none"]
      BY <2>8, <1>0 DEF Deactivate
    <3>2. phase \in {"ending", "failed"} /\ n \in Nodes /\ idle[n] = None
      BY <3>1, <1>0, NodeLabels DEF PhaseInv, OrderInv
    <3>3. \A i \in Nodes : idle[i] # None => jack'[i] = "active"
      BY <3>1, <3>2, <1>0 DEF OrderInv, TypeOK
    <3>. QED BY <3>1, <3>2, <3>3, <2>0, <1>0, <1>4 DEF OrderInv
  <2>. QED BY <1>1, <1>2, <1>4, <2>1, <2>2, <2>3, <2>4, <2>5, <2>6, <2>7, <2>8, OpensBegin DEF Moves, Starts, Ends
<1>. QED BY <1>1, <1>2, <1>3, <1>4, MovesLists

-----------------------------------------------------------------------------
(* What the late callbacks get                                             *)

LEMMA MisusedStep == ASSUME IInv, [Next]_vars, ~LateUsers PROVE misused' => misused
<1>. USE DEF vars
<1>1. SigUsr1 => UNCHANGED misused
  BY SigUsr1Facts
<1>2. \A f \in FSTs : UserCloses(f) => (misused' => misused)
  BY DEF UserCloses
<1>3. Elsewhere => (misused' => misused)
  BY <1>1, <1>2 DEF Elsewhere, Return, OpenDialog, CloseDialog, SigInt, SigUsr2, WalkStep, BeginWalk, Idle,
                    ServeCall, BeginCycle, EndCycle, Unplug, Plug, Replug
<1>4. Moves => UNCHANGED misused
  <2>1. Starts => UNCHANGED misused
    BY DEF Starts, NewPlugin, Load, Open, LoadFails, Opened, JackInit, JackInitFails, Activate, Bind, Serve,
           ServeFails
  <2>2. Runs \/ DestroyWindow => UNCHANGED misused
    BY DEF Runs, Tick, Poll, RunEditor, EditorsRun, CloseEditor, Leave, DestroyWindow
  <2>3. Ends => UNCHANGED misused
    BY DEF Ends, CloseNode, Unbind, Deactivate, Close, ThreadRemove, Free
  <2>4. \A i \in Nodes : Replace(i) \/ ReplaceFails(i) => UNCHANGED misused
    BY DEF Replace, Open, ReplaceFails
  <2>. QED BY <2>1, <2>2, <2>3, <2>4 DEF Moves
<1>. QED BY <1>3, <1>4, StepKinds

-----------------------------------------------------------------------------
(* The theorems                                                            *)

LEMMA InitIInv == Init => IInv
<1>. SUFFICES ASSUME Init PROVE IInv
  OBVIOUS
<1>. USE DEF Init
<1>0. Plugins \in Nat /\ Plugins >= 1 /\ Where = "start" /\ stack = <<>> /\ phase = "starting" /\ n = 1
  BY HostNumbers DEF Where
<1>1. TypeOK
  <2>1. list \in [Nodes -> Seq(FSTs)]
    OBVIOUS
  <2>. QED BY <2>1, <1>0 DEF TypeOK
<1>2. MoreTypes
  <2>1. <<>> \in Seq(Frame)
    OBVIOUS
  <2>. QED BY <2>1, <1>0 DEF MoreTypes, CallTypes, Labels, StartLabels
<1>3. StackInv
  BY <1>0 DEF StackInv
<1>4. CallInv
  BY <1>0 DEF CallInv
<1>5. PhaseInv
  BY <1>0 DEF PhaseInv, StartLabels, Ending
<1>6. NodeInv
  BY <1>0, HostNumbers DEF NodeInv, NodeOK, Known, JackClosed, Closed, Ending, Nodes
<1>7. \A t \in Nodes, f \in FSTs : ~Listed(t, f)
  BY DEF Listed
<1>8. ListInv
  BY <1>0, <1>7 DEF ListInv
<1>9. OrderInv
  BY <1>0, <1>7, HostNumbers DEF OrderInv, Ending
<1>. QED BY <1>1, <1>2, <1>3, <1>4, <1>5, <1>6, <1>8, <1>9 DEF IInv

LEMMA NextIInv == IInv /\ [Next]_vars => IInv'
<1>. SUFFICES ASSUME IInv, [Next]_vars PROVE IInv'
  OBVIOUS
<1>1. Elsewhere \/ Moves
  BY StepKinds
<1>2. TypeOK' /\ MoreTypes'
  BY <1>1, ElsewhereTypes, MovesTypes
<1>3. StackInv' /\ CallInv' /\ PhaseInv' /\ ListInv'
  BY <1>1, StackStep, CallStep, PhaseStep, ListStep
<1>4. NodeInv'
  <2>1. \A i \in Nodes : NodeOK(i)'
    BY <1>1, NodeElsewhere, NodeMoves
  <2>. QED BY <2>1 DEF NodeInv, Nodes
<1>5. (NoneReplaced => OrderInv)'
  BY <1>1, OrderElsewhere, OrderMoves
<1>6. (~LateUsers => ~misused)'
  BY MisusedStep DEF IInv
<1>. QED BY <1>2, <1>3, <1>4, <1>5, <1>6 DEF IInv

(* Of what the main thread has freed, no event thread walks on an FST and  *)
(* none calls jfst_idle for a host, if no node got a second FST; a cycle   *)
(* of JACK has an FST that is open, whatever was loaded meanwhile.         *)
LEMMA IInvUses ==
  IInv => /\ TypeOK /\ (WalksOnLive \/ \E f \in FSTs : Replaced(f))
          /\ \A i \in Nodes : cycle[i] # None => stage[cycle[i]] = "open"
<1>. SUFFICES ASSUME IInv
              PROVE  /\ TypeOK /\ (WalksOnLive \/ \E f \in FSTs : Replaced(f))
                     /\ \A i \in Nodes : cycle[i] # None => stage[cycle[i]] = "open"
  OBVIOUS
<1>1. \A i \in Nodes : cycle[i] # None => stage[cycle[i]] = "open"
  BY DEF IInv, NodeInv, NodeOK
<1>2. CASE NoneReplaced
  <2>. SUFFICES ASSUME NEW t \in Nodes, at[t] # None
                PROVE  stage[at[t]] # "freed" /\ idle[at[t]] \notin freed
    BY <1>1 DEF WalksOnLive, IInv
  <2>1. PICK f \in FSTs : f = at[t]
    BY DEF IInv, TypeOK
  <2>2. Listed(t, f) /\ f \in Nodes /\ OrderInv
    BY <1>2, <2>1, Unreplaced DEF IInv, ListInv
  <2>3. stage[f] # "freed"
    <3>. SUFFICES ASSUME stage[f] = "freed" PROVE FALSE
      OBVIOUS
    <3>1. Ending /\ f < n /\ fst[f] = f /\ fst[f] = None
      BY <2>2 DEF OrderInv
    <3>. QED BY <3>1, HostNumbers
  <2>4. idle[f] \notin freed
    <3>. SUFFICES ASSUME idle[f] \in freed PROVE FALSE
      OBVIOUS
    <3>1. Ending /\ freed = 1 .. n - 1
      BY DEF IInv, PhaseInv, Ending, TypeOK
    <3>2. idle[f] # None
      BY <3>1, HostNumbers DEF IInv, TypeOK
    <3>3. idle[f] = f /\ jack[f] = "active"
      BY <2>2, <3>2 DEF OrderInv
    <3>4. f < n
      BY <2>2, <3>1, <3>3 DEF IInv, TypeOK, Nodes
    <3>5. JackClosed(f)
      BY <3>1, <3>4 DEF JackClosed
    <3>. QED BY <2>2, <3>3, <3>5 DEF IInv, NodeInv, NodeOK
  <2>. QED BY <2>1, <2>3, <2>4
<1>3. CASE ~NoneReplaced
  <2>1. PICK i \in Nodes : stage[i + Plugins] # "none"
    BY <1>3 DEF NoneReplaced
  <2>2. i \in FSTs /\ Replaced(i)
    BY <2>1, HostNumbers DEF Replaced, Nodes
  <2>. QED BY <1>1, <2>2 DEF IInv
<1>. QED BY <1>2, <1>3

(* Everything the main thread does, from the command line to the end, with *)
(* walks, cycles and signals in between, keeps the parts together as IInv  *)
(* says: calls are made and answered one at a time, and opening, closing,  *)
(* removing and freeing happen in their order for each node.               *)
THEOREM HostInvariant == Spec => []IInv
<1>1. Init => IInv
  BY InitIInv
<1>2. IInv /\ [Next]_vars => IInv'
  BY NextIInv
<1>. QED BY <1>1, <1>2, PTL DEF Spec

(* No state of the host has a value of the wrong type: the loops over the  *)
(* nodes end at the last, and only what is linked is freed.                *)
THEOREM Types == Spec => []TypeOK
<1>1. IInv => TypeOK
  BY DEF IInv
<1>. QED BY <1>1, HostInvariant, PTL

(* An event thread never walks on an FST that was freed, nor calls         *)
(* jfst_idle for a host that was, unless a second FST was loaded for a     *)
(* node; and with second FSTs too, JACK's cycle runs in a plugin that is   *)
(* open.  Editors may be closed and signals sent until the very end.       *)
THEOREM ThreadsUseWhatIsThere ==
  Spec => [](/\ WalksOnLive \/ \E f \in FSTs : Replaced(f)
             /\ \A i \in Nodes : cycle[i] # None => stage[cycle[i]] = "open")
<1>1. IInv => /\ WalksOnLive \/ \E f \in FSTs : Replaced(f)
              /\ \A i \in Nodes : cycle[i] # None => stage[cycle[i]] = "open"
  BY IInvUses
<1>. QED BY <1>1, HostInvariant, PTL

(* And if nobody closes an editor or sends SIGUSR1 while the host ends, no *)
(* callback gets what was freed either: nothing that is freed is used.     *)
THEOREM NothingFreed == ASSUME ~LateUsers PROVE Spec => []NothingFreedIsUsed
<1>1. IInv => NothingFreedIsUsed
  BY IInvUses DEF NothingFreedIsUsed, IInv
<1>. QED BY <1>1, HostInvariant, PTL
=============================================================================
