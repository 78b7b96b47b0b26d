----------------------------- MODULE MCJfstIdle -----------------------------
(* JfstIdle with two bypass requests, two programs and new ports to send,  *)
(* and either three events and no learning, or two learnings, with one     *)
(* event or with GTK.                                                      *)
EXTENDS JfstIdle

MCZero == [type |-> "PC", value |-> 0]
MCEvents ==
  {[type |-> "BYPASS", value |-> 0], [type |-> "BYPASS", value |-> 1],
   [type |-> "PC", value |-> 0], [type |-> "PC", value |-> 1], [type |-> "GRAPH", value |-> 0]}
MCLoads ==
  {[sends |-> 3, learns |-> 0, gtk |-> FALSE]}
    \cup [sends : {1}, learns : {2}, gtk : {FALSE}]
    \cup [sends : {0}, learns : {2}, gtk : {TRUE}]
=============================================================================
