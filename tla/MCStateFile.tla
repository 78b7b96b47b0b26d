----------------------------- MODULE MCStateFile -----------------------------
(* One CC, two programs, one filter; hosts with and without a plugin path,   *)
(* a state file, volume control, started bypassed or not; files of another   *)
(* plugin, damaged, for the other kind of plugin, or with the channel before *)
(* its filters.                                                              *)
EXTENDS StateFile

Command(path, state, canFail, bypassed, volume, mode, uuid) ==
  { [path |-> path, state |-> state, canFail |-> canFail, chunks |-> c, bypassed |-> bypassed,
     volume |-> volume, mode |-> mode, uuid |-> uuid] : c \in BOOLEAN }

MCOpts == Command(TRUE, FALSE, FALSE, FALSE, 63, 122, 9)
          \cup Command(FALSE, TRUE, FALSE, FALSE, 63, 122, AutoId)
          \cup Command(TRUE, TRUE, TRUE, TRUE, Off, None, AutoId)

MCOldFiles ==
  { <<>>,
    << <<"check", FALSE>>, <<"channel", 1>> >>,
    << <<"check", TRUE>>, <<"filter", "f">>, <<"channel", 1>>, <<"filter", "f">>,
       <<"param", 1>>, <<"damaged">> >> }
=============================================================================
