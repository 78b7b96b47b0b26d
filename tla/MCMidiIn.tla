------------------------------ MODULE MCMidiIn ------------------------------
(* An instance of MidiIn for TLC: a cfg can write neither a record nor a   *)
(* negative number.                                                        *)
EXTENDS MidiIn, FiniteSets

MCSemitones == {-1, 0, 1}

(* Notes at both ends of the range, on the channel that the others are     *)
(* redirected to and on another, and another message on a third.           *)
MCReceived ==
  {[type |-> "NOTE", channel |-> 1, d1 |-> 127], [type |-> "NOTE", channel |-> 2, d1 |-> 0],
   [type |-> "OTHER", channel |-> 3, d1 |-> 127]}

(* Of the selections here no three are one write apart, so that nothing is *)
(* claimed of a message that has met three.                                *)
TwoSelections == Cardinality(seen) <= 2
=============================================================================
