----------------------------- MODULE MidiFilter -----------------------------
(***************************************************************************)
(* The MIDI filters of midifilter/midifilter.c: a list of rules that the   *)
(* process thread applies to each message in order.  Every JFST has five   *)
(* built-in filters, made by jfst_new: the transposition, and the four     *)
(* that together select one channel.  A message is "NOTE" for both note    *)
(* types, for which the code has a virtual type too, or "OTHER".           *)
(***************************************************************************)
EXTENDS Integers, Sequences

Message == [type : {"NOTE", "OTHER"}, channel : 1 .. 16, d1 : 0 .. 127]

(* The host's copy of a message, whose data byte is an uint8_t.            *)
Copied == [type : {"NOTE", "OTHER"}, channel : 1 .. 16, d1 : 0 .. 255]

Order == <<"transposition", "drop_real_one", "redirect", "accept", "drop_rest">>
OneChannel == {"drop_real_one", "redirect", "accept", "drop_rest"}
Filters == {"transposition"} \cup OneChannel

Filter == [enabled : BOOLEAN,
           type    : {"ALL", "NOTE"},
           channel : 0 .. 17,          \* 0: any
           rule    : {"TRANSPOSE", "DROP_ALL", "CHANNEL_REDIRECT", "ACCEPT"},
           rvalue  : -128 .. 127]

Rule(type, channel, rule, rvalue) ==
  [enabled |-> FALSE, type |-> type, channel |-> channel, rule |-> rule, rvalue |-> rvalue]

(* midi_filter_transposition_init and midi_filter_one_channel_init.        *)
NewChain ==
  [f \in Filters |->
     CASE f = "transposition" -> Rule("NOTE", 0, "TRANSPOSE", 0)
       [] f = "drop_real_one" -> Rule("ALL", 1, "DROP_ALL", 0)
       [] f = "redirect"      -> Rule("ALL", 0, "CHANNEL_REDIRECT", 1)
       [] f = "accept"        -> Rule("ALL", 1, "ACCEPT", 1)
       [] f = "drop_rest"     -> Rule("ALL", 0, "DROP_ALL", 1)]

(* Mutant of Switched: channel 1 is taken for a channel like any other.    *)
SwitchedAlike(f, channel) ==
  CASE channel = 0  -> FALSE
    [] channel = 17 -> f = "drop_rest"
    [] OTHER        -> TRUE

(* Which of the four filters midi_filter_one_channel_set enables.          *)
Switched(f, channel) ==
  CASE channel = 0  -> FALSE
    [] channel = 1  -> f \in {"accept", "drop_rest"}
    [] channel = 17 -> f = "drop_rest"
    [] OTHER        -> TRUE

(* Its argument is an uint8_t; what is above 17 means 17.                  *)
Selection(n) == IF n % 256 > 17 THEN 17 ELSE n % 256

-----------------------------------------------------------------------------
(* What midi_filter_check does with a message m.                           *)

OfType(f, m) == f.type = "NOTE" => m.type = "NOTE"

Raised(m, semitones) == [m EXCEPT !.d1 = (@ + semitones) % 256]

Redirected(m, channel) == IF channel = 0 THEN m ELSE [m EXCEPT !.channel = channel]

-----------------------------------------------------------------------------
(* What selecting a channel and a transposition is for: the messages that  *)
(* message m becomes, none or one.  0 selects all channels as they are, 17 *)
(* none, any other that one, which the plugin gets on channel 1.           *)
Selected(m, selection) ==
  CASE selection = 0         -> {m}
    [] selection = m.channel -> {[m EXCEPT !.channel = 1]}
    [] OTHER                 -> {}

(* A note that the transposition puts out of range is dropped.  low, high  *)
(* and added are the transpositions that the two ends of the range are     *)
(* tested with and that is added: one and the same, if nobody changes it   *)
(* in the middle of this.                                                  *)
Transposed(m, low, high, added) ==
  IF m.type # "NOTE" THEN {m}
  ELSE {n \in {Raised(m, added)} : m.d1 + low >= 0 /\ m.d1 + high <= 127}

Meant(m, selection, low, high, added) ==
  UNION {Selected(n, selection) : n \in Transposed(m, low, high, added)}
=============================================================================
