------------------------------- MODULE MidiIn -------------------------------
(***************************************************************************)
(* A MIDI message on its way into the host: process_midi_in_msg            *)
(* (jfst/process.c), on JACK's process thread, walks the list of filters,  *)
(* and reads those fields of a filter that change each time it needs them: *)
(* the channel twice, the transposition three times.  Meanwhile other      *)
(* threads set the channel and the transposition, field by field.  No lock *)
(* protects the filters, so the process thread may see the fields of one   *)
(* setting change in any order.                                            *)
(***************************************************************************)
EXTENDS MidiFilter

CONSTANTS
  Writers,     \* the threads that set the channel and the transposition
  Received,    \* the messages that may come
  Selections,  \* arguments of midi_filter_one_channel_set
  Semitones    \* arguments of midi_filter_transposition_set

ASSUME MidiInAssumption ==
  Received \subseteq Message /\ Selections \subseteq Nat /\ Semitones \subseteq -128 .. 127

VARIABLES
  chain,       \* the filters
  selection,   \* history: the channel that was set last, completely
  semitones,   \* history: the transposition that was set last
  writing,     \* writing[t]: what thread t is setting, and the fields to do
  rt, at, step, msg, \* the process thread: where it is, at which filter, what
                     \* it reads of that next, the message
  original,    \* history: the message as it came
  seen,        \* history: the selections that were in force since it came
  seenT        \* history: the transpositions

midiInVars == <<chain, selection, semitones, writing, rt, at, step, msg, original, seen, seenT>>
settings == <<chain, selection, semitones, writing>>

Silent == [type |-> "OTHER", channel |-> 1, d1 |-> 0]
Nothing == [op |-> "nothing", arg |-> 0, todo |-> {}]
Fields == Filters \cup {"channel", "rvalue"}

(* The filters after midi_filter_one_channel_set(channel).                 *)
SwitchedTo(channel) ==
  [f \in Filters |->
     IF f = "transposition" THEN NewChain[f]
     ELSE [NewChain[f] EXCEPT !.enabled = Switched(f, channel),
                              !.channel = IF f = "redirect" THEN channel ELSE @]]

MidiInInit ==
  /\ selection = 0 /\ chain = SwitchedTo(0)
  /\ semitones = 0
  /\ writing = [t \in Writers |-> Nothing]
  /\ rt = "free" /\ at = 1 /\ step = "enabled" /\ msg = Silent /\ original = Silent
  /\ seen = {} /\ seenT = {}

-----------------------------------------------------------------------------
(* Setting the channel and the transposition.                              *)

(* History: what a message in the walk may have met.                       *)
Noticed(history, value) == IF rt = "walk" THEN history \cup {value} ELSE history

BeginChannel(t, n) ==
  /\ writing[t] = Nothing
  /\ writing' = [writing EXCEPT ![t] =
                   [op |-> "channel", arg |-> Selection(n), todo |-> OneChannel \cup {"channel"}]]
  /\ seen' = Noticed(seen, Selection(n))
  /\ UNCHANGED <<chain, selection, semitones, rt, at, step, msg, original, seenT>>

FieldWritten(t, field) == writing' = [writing EXCEPT ![t].todo = @ \ {field}]

(* midi_filter_one_channel_set writes four flags ...                       *)
WriteFlag(t, f) ==
  /\ f \in writing[t].todo \cap OneChannel
  /\ chain' = [chain EXCEPT ![f].enabled = Switched(f, writing[t].arg)]
  /\ FieldWritten(t, f)
  /\ UNCHANGED <<selection, semitones, rt, at, step, msg, original, seen, seenT>>

(* Mutant of WriteChannel: the channel of the accepting filter is set.     *)
WriteChannelOfAccept(t) ==
  /\ "channel" \in writing[t].todo
  /\ chain' = [chain EXCEPT !["accept"].channel = writing[t].arg]
  /\ FieldWritten(t, "channel")
  /\ UNCHANGED <<selection, semitones, rt, at, step, msg, original, seen, seenT>>

(* ... and the channel that is redirected.                                 *)
WriteChannel(t) ==
  /\ "channel" \in writing[t].todo
  /\ chain' = [chain EXCEPT !["redirect"].channel = writing[t].arg]
  /\ FieldWritten(t, "channel")
  /\ UNCHANGED <<selection, semitones, rt, at, step, msg, original, seen, seenT>>

BeginSemitones(t, s) ==
  /\ writing[t] = Nothing
  /\ writing' = [writing EXCEPT ![t] =
                   [op |-> "semitones", arg |-> s, todo |-> {"transposition", "rvalue"}]]
  /\ seenT' = Noticed(seenT, s)
  /\ UNCHANGED <<chain, selection, semitones, rt, at, step, msg, original, seen>>

(* midi_filter_transposition_set writes the flag and the value.            *)
WriteEnabled(t) ==
  /\ "transposition" \in writing[t].todo
  /\ chain' = [chain EXCEPT !["transposition"].enabled = (writing[t].arg # 0)]
  /\ FieldWritten(t, "transposition")
  /\ UNCHANGED <<selection, semitones, rt, at, step, msg, original, seen, seenT>>

WriteValue(t) ==
  /\ "rvalue" \in writing[t].todo
  /\ chain' = [chain EXCEPT !["transposition"].rvalue = writing[t].arg]
  /\ FieldWritten(t, "rvalue")
  /\ UNCHANGED <<selection, semitones, rt, at, step, msg, original, seen, seenT>>

(* Both functions return when everything is written.                       *)
SetDone(t) ==
  LET w == writing[t] IN
  /\ w.op # "nothing" /\ w.todo = {}
  /\ selection' = IF w.op = "channel" THEN w.arg ELSE selection
  /\ semitones' = IF w.op = "semitones" THEN w.arg ELSE semitones
  /\ writing' = [writing EXCEPT ![t] = Nothing]
  /\ UNCHANGED <<chain, rt, at, step, msg, original, seen, seenT>>

-----------------------------------------------------------------------------
(* The process thread: midi_filter_check on the host's copy of the message.*)

(* What a writer that has begun is setting.                                *)
Being(op) == {writing[t].arg : t \in {u \in Writers : writing[u].op = op}}

Receive(m) ==
  /\ rt = "free"
  /\ rt' = "walk" /\ at' = 1 /\ step' = "enabled"
  /\ msg' = m /\ original' = m
  /\ seen' = {selection} \cup Being("channel")
  /\ seenT' = {semitones} \cup Being("semitones")
  /\ UNCHANGED settings

NextFilter == at' = at + 1 /\ step' = "enabled"

SkipFilter(f) ==
  /\ \/ step = "enabled" /\ ~f.enabled
     \/ step = "compare" /\ f.channel # msg.channel
     \/ step = "rule" /\ ~OfType(f, msg)
  /\ NextFilter /\ UNCHANGED <<rt, msg>>

(* So far the filter applies.                                              *)
ReadOn(f) ==
  /\ \/ step = "enabled" /\ f.enabled /\ step' = "channel"
     \/ step = "channel" /\ step' = IF f.channel = 0 THEN "rule" ELSE "compare"
     \/ step = "compare" /\ f.channel = msg.channel /\ step' = "rule"
     \/ /\ step = "rule" /\ OfType(f, msg) /\ f.rule = "TRANSPOSE"
        /\ msg.d1 + f.rvalue >= 0 /\ step' = "high"
     \/ step = "high" /\ msg.d1 + f.rvalue <= 127 /\ step' = "add"
  /\ UNCHANGED <<rt, at, msg>>

Drop(f) ==
  /\ \/ step = "rule" /\ f.rule = "DROP_ALL" /\ OfType(f, msg)
     \/ step = "rule" /\ f.rule = "TRANSPOSE" /\ OfType(f, msg) /\ msg.d1 + f.rvalue < 0
     \/ step = "high" /\ msg.d1 + f.rvalue > 127
  /\ rt' = "dropped" /\ step' = "enabled" /\ UNCHANGED <<at, msg>>

(* Mutant of Accept: an accepting filter does not end the walk.            *)
AcceptOn(f) ==
  /\ step = "rule" /\ f.rule = "ACCEPT" /\ OfType(f, msg)
  /\ NextFilter /\ UNCHANGED <<rt, msg>>

Accept(f) ==
  /\ step = "rule" /\ f.rule = "ACCEPT" /\ OfType(f, msg)
  /\ rt' = "passed" /\ step' = "enabled" /\ UNCHANGED <<at, msg>>

Change(f) ==
  /\ \/ /\ step = "rule" /\ f.rule = "CHANNEL_REDIRECT" /\ OfType(f, msg)
        /\ msg' = Redirected(msg, f.rvalue)
     \/ step = "add" /\ msg' = Raised(msg, f.rvalue)
  /\ NextFilter /\ UNCHANGED rt

(* One step of midi_filter_check, with the filter as it is now.            *)
Check ==
  LET f == chain[Order[at]] IN
  /\ rt = "walk" /\ at <= Len(Order)
  /\ SkipFilter(f) \/ ReadOn(f) \/ Drop(f) \/ Accept(f) \/ Change(f)
  /\ UNCHANGED <<original, seen, seenT, settings>>

CheckDone ==
  /\ rt = "walk" /\ at > Len(Order)
  /\ rt' = "passed"
  /\ UNCHANGED <<at, step, msg, original, seen, seenT, settings>>

(* The message is dropped, or goes on to the plugin and its controllers.   *)
HandleMessage ==
  /\ rt \in {"dropped", "passed"}
  /\ rt' = "free" /\ at' = 1 /\ step' = "enabled" /\ msg' = Silent /\ original' = Silent
  /\ seen' = {} /\ seenT' = {}
  /\ UNCHANGED settings

-----------------------------------------------------------------------------
MidiInNext ==
  \/ \E t \in Writers : \/ \E n \in Selections : BeginChannel(t, n)
                        \/ \E s \in Semitones : BeginSemitones(t, s)
                        \/ \E f \in OneChannel : WriteFlag(t, f)
                        \/ WriteChannel(t) \/ WriteEnabled(t) \/ WriteValue(t)
                        \/ SetDone(t)
  \/ \E m \in Received : Receive(m)
  \/ Check \/ CheckDone \/ HandleMessage

MidiInSpec == MidiInInit /\ [][MidiInNext]_midiInVars

-----------------------------------------------------------------------------
(* The variables stay in their types.                                      *)
MidiInTypeOK ==
  /\ chain \in [Filters -> Filter]
  /\ selection \in 0 .. 17 /\ semitones \in -128 .. 127
  /\ writing \in [Writers -> [op : {"nothing", "channel", "semitones"},
                              arg : -128 .. 127, todo : SUBSET Fields]]
  /\ rt \in {"free", "walk", "dropped", "passed"}
  /\ at \in 1 .. 6 /\ step \in {"enabled", "channel", "compare", "rule", "high", "add"}
  /\ msg \in Copied /\ original \in Message
  /\ seen \subseteq 0 .. 17 /\ seenT \subseteq -128 .. 127

Became == IF rt = "passed" THEN {msg} ELSE {}

(* The filters did with the message what some selection means that was in  *)
(* force while it passed through them, and some transpositions that were.  *)
AsMeant ==
  rt \in {"passed", "dropped"} =>
    \E c \in seen, low, high, added \in seenT : Became = Meant(original, c, low, high, added)

(* The changes of selection that midi_filter_one_channel_set makes with    *)
(* one effective write: between all channels and none, between channel 1   *)
(* and none, between two channels that are both redirected.                *)
OneWrite == {{0, 17}, {1, 17}, 2 .. 16}

(* The filters do as meant unless a change that takes several writes comes *)
(* in between.  All that a change of the transposition in between can do   *)
(* is to make the one that is tested another than the one that is added.   *)
(* (With the types.)                                                       *)
FilteredAsMeant ==
  /\ MidiInTypeOK
  /\ (\E c \in seen : seen = {c}) \/ (\E W \in OneWrite : seen \subseteq W) => AsMeant

(* process.c:85 hands the message on as MIDI: its data byte is one.  (Not  *)
(* so: the README says when.)                                              *)
DataByte == rt = "passed" => msg.d1 \in 0 .. 127

(* When nobody is setting anything, the filters are those of the channel   *)
(* and the transposition that were set last, whatever was set before.      *)
SetAsAsked ==
  (\A t \in Writers : writing[t] = Nothing) =>
    chain = [SwitchedTo(selection) EXCEPT !["transposition"] =
               [@ EXCEPT !.enabled = semitones # 0, !.rvalue = semitones]]
=============================================================================
