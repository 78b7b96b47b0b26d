------------------------------ MODULE StateFile ------------------------------
(***************************************************************************)
(* A host from its start to its end, as far as its settings and its state   *)
(* files go: jfst_new and jfst_load, then saving and loading .fps files     *)
(* (jfst/fps.c) and loading .fxp and .fxb files (jfst_load_state; what is   *)
(* in those is FxFile's).                                                  *)
(*                                                                         *)
(* One thread does all this.  Meanwhile the JACK process thread learns CCs  *)
(* and sets the volume, the plugin's own editor changes the program and the *)
(* sound, and the event thread notices the program only afterwards.         *)
(***************************************************************************)
EXTENDS Integers, Sequences

CONSTANTS CCs,        \* number of MIDI CCs to map
          Programs,   \* programs of the plugin
          Filters,    \* filters a user can add
          Opts,       \* command lines: records, see Default
          OldFiles,   \* state files that are there at the start
          MaxMoves,   \* bound on what is asked of the host and changed
          MaxPlugins  \* bound on plugins opened

None == -1
Off  == -1            \* volume control disabled (-V)
AutoId == 0           \* SYSEX_AUTO_ID

(* What a state file may hold: what fps_process_node knows, something else *)
(* or something damaged.                                                   *)
Elements ==
  {<<"file">>, <<"damaged">>, <<"blank">>}
  \cup ({"check"} \X BOOLEAN)
  \cup ({"map"} \X (1 .. CCs) \X (0 .. 1))
  \cup ({"channel"} \X (0 .. 1)) \cup ({"transposition"} \X Int)
  \cup ({"filter"} \X Filters) \cup ({"midi_pc"} \X {"plugin", "self"})
  \cup ({"volume", "mode", "sysex"} \X Int)
  \cup ({"program"} \X Programs) \cup ({"chunk"} \X [Programs -> Int])
  \cup ({"param"} \X Int)

ASSUME StateFileAssumption ==
  /\ CCs \in Nat /\ MaxPlugins \in Nat /\ MaxMoves \in Nat /\ 0 \in Programs
  /\ Opts \subseteq [path : BOOLEAN, state : BOOLEAN, canFail : BOOLEAN, chunks : BOOLEAN,
                    bypassed : BOOLEAN, volume : Int, mode : Int, uuid : Int]
  /\ OldFiles \subseteq Seq(Elements)

VARIABLES jfst,       \* the settings of the JFST
          fst,        \* jfst->fst: the plugin, 0 for NULL
          plugin,     \* every plugin opened: [state, prog, current, data], where
                      \* current is its FST's current_program
          file,       \* the state file, a sequence of elements
          pc,
          io,         \* [doc, pos, ok, start]: locals; does the host start up
          opt,        \* the command line
          was,        \* settings when the file was begun, and the plugin when
                      \* its program was asked for
          before,     \* settings and plugins when the load was begun
          clean,      \* nobody else changed anything since the thread began
          good,       \* the file was saved in one such piece
          swapped,    \* an .fxp or .fxb was loaded
          moves

host == <<jfst, fst, plugin>>
hist == <<was, before, clean, good>>
vars == <<host, file, pc, io, opt, hist, swapped, moves>>

Plugins == 1 .. MaxPlugins
Unopened == [state |-> "none", prog |-> 0, current |-> 0, data |-> [p \in Programs |-> 0]]

(* def, what jfst_new makes of it, and what the command line can say:       *)
(* [path, state, canFail, chunks, bypassed, volume, mode, uuid].            *)
Default == [map |-> [cc \in 1 .. CCs |-> None], channel |-> 0, transposition |-> 0,
            filters |-> <<>>, midi_pc |-> "plugin", volume |-> 63, mode |-> 122,
            uuid |-> AutoId]

SysexInitNothing(s) == s

(* jfst_sysex_init copies the constant messages over the uuid set before.   *)
SysexInit(s) == [s EXCEPT !.uuid = AutoId]

JfstNew(o) ==
  SysexInit([Default EXCEPT !.volume = o.volume, !.mode = o.mode, !.uuid = o.uuid])

Init ==
  /\ opt \in Opts
  /\ jfst = JfstNew(opt)
  /\ fst = 0
  /\ plugin = [k \in Plugins |-> Unopened]
  /\ file \in OldFiles
  /\ pc = "new"
  /\ io = [doc |-> <<>>, pos |-> 0, ok |-> TRUE, start |-> TRUE]
  /\ was = [jfst |-> jfst, plugin |-> Unopened]
  /\ before = [jfst |-> jfst, plugin |-> plugin]
  /\ clean = FALSE /\ good = FALSE
  /\ swapped = FALSE
  /\ moves = 0

-----------------------------------------------------------------------------
(* fst_info_load_open: a new plugin, opened and not resumed, or NULL.       *)
LoadOpen ==
  \/ /\ fst' = 0
     /\ plugin' = plugin
  \/ \E k \in Plugins :
       /\ plugin[k].state = "none"
       /\ \A j \in 1 .. k - 1 : plugin[j].state # "none"
       /\ fst' = k
       /\ plugin' = [plugin EXCEPT ![k].state = "open"]

FinishIdle(ok) ==
  /\ pc' = "idle"
  /\ io' = [io EXCEPT !.ok = ok]

Move == moves < MaxMoves /\ moves' = moves + 1

Finish(ok) ==
  /\ pc' = IF io.start THEN "init" ELSE "idle"
  /\ io' = [io EXCEPT !.ok = ok]

(* jfst_load, first half.                                                   *)
LoadPlugin ==
  /\ pc = "new"
  /\ IF opt.path THEN LoadOpen ELSE UNCHANGED <<fst, plugin>>
  /\ IF opt.state THEN pc' = "loadstate" /\ io' = io ELSE Finish(TRUE)
  /\ UNCHANGED <<jfst, file, opt, hist, swapped, moves>>

(* jfst_load, second half, and jfst_init; no plugin, no host.  A plugin     *)
(* started bypassed (-b) is opened and not resumed.                         *)
InitHost ==
  /\ pc = "init"
  /\ IF fst = 0 \/ (~io.ok /\ ~opt.canFail)
     THEN pc' = "gone" /\ plugin' = [k \in Plugins |->
            IF k = fst THEN [plugin[k] EXCEPT !.state = "closed"] ELSE plugin[k]]
     ELSE pc' = "idle" /\ plugin' = [plugin EXCEPT ![fst].state =
                              IF opt.bypassed THEN @ ELSE "running"]
  /\ io' = [io EXCEPT !.start = FALSE]
  /\ UNCHANGED <<jfst, fst, file, opt, hist, swapped, moves>>

(* jfst_close                                                               *)
Close ==
  /\ pc = "idle" /\ fst # 0
  /\ pc' = "gone"
  /\ plugin' = [plugin EXCEPT ![fst].state = "closed"]
  /\ UNCHANGED <<jfst, fst, file, io, opt, hist, swapped, moves>>

(* The next session, of the same plugin.                                    *)
Restart ==
  /\ pc = "gone" /\ Move
  /\ \E o \in Opts : /\ o.chunks = opt.chunks
                     /\ opt' = o
                     /\ jfst' = JfstNew(o)
  /\ fst' = 0
  /\ plugin' = [k \in Plugins |-> Unopened]
  /\ pc' = "new"
  /\ io' = [doc |-> <<>>, pos |-> 0, ok |-> TRUE, start |-> TRUE]
  /\ swapped' = FALSE
  /\ clean' = FALSE
  /\ UNCHANGED <<file, was, before, good>>

(* jfst_process of a host whose plugin is NULL.                             *)
Crash ==
  /\ fst = 0 /\ pc = "idle"
  /\ pc' = "crashed"
  /\ UNCHANGED <<host, file, io, opt, hist, swapped, moves>>

-----------------------------------------------------------------------------
(* fps_save.  Only the map entries that are set are written, the volume if  *)
(* it is controlled, the mode if it is a CC.  What is passed over leaves a  *)
(* Blank here, and reading passes over it as over any node that is no       *)
(* element.                                                                 *)
Blank == <<"blank">>

Opt(c, e) == IF c THEN e ELSE Blank

Settings(s) ==
  << <<"file">>, <<"check", TRUE>> >>
  \o [cc \in 1 .. CCs |-> Opt(s.map[cc] # None, <<"map", cc, s.map[cc]>>)]
  \o << <<"channel", s.channel>>, <<"transposition", s.transposition>> >>
  \o [k \in DOMAIN s.filters |-> <<"filter", s.filters[k]>>]
  \o << <<"midi_pc", s.midi_pc>>,
        Opt(s.volume # Off, <<"volume", s.volume>>),
        Opt(s.mode # None, <<"mode", s.mode>>),
        <<"sysex", s.uuid>> >>

(* The file is truncated first and written last.                            *)
BeginSave ==
  /\ pc = "idle" /\ fst # 0 /\ Move
  /\ file' = <<>>
  /\ io' = [io EXCEPT !.doc = Settings(jfst), !.pos = 0]
  /\ pc' = "program"
  /\ was' = [jfst |-> jfst, plugin |-> plugin[fst]]
  /\ clean' = TRUE /\ good' = FALSE
  /\ UNCHANGED <<host, opt, before, swapped>>

(* fst_get_program: what the FST takes for the program.                     *)
SaveProgram ==
  /\ pc = "program"
  /\ io' = [io EXCEPT !.doc = @ \o << <<"program", plugin[fst].current>> >>]
  /\ was' = [was EXCEPT !.plugin = plugin[fst]]
  /\ pc' = "content"
  /\ UNCHANGED <<host, file, opt, before, clean, good, swapped, moves>>

(* "%f": a sound is counted in ten-millionths, and written in millionths.   *)
SixDecimals(v) == 10 * ((v + 5) \div 10)

(* A chunk is the whole bank, parameters are those of the program selected. *)
(* A plugin may have no chunk to give.                                      *)
SaveContent ==
  /\ pc = "content"
  /\ LET f == plugin[fst]
         whole == io.doc \o << IF opt.chunks THEN <<"chunk", f.data>>
                                             ELSE <<"param", SixDecimals(f.data[f.prog])>> >>
     IN \/ file' = whole /\ good' = clean /\ Finish(TRUE)
        \/ opt.chunks /\ UNCHANGED <<file, good>> /\ Finish(FALSE)
  /\ UNCHANGED <<host, opt, was, before, clean, swapped, moves>>

-----------------------------------------------------------------------------
(* jfst_load_state of an .fps file: one that cannot be parsed changes       *)
(* nothing; the plugin named in it is opened only if there is none.         *)
MissingAlways == TRUE

Missing == fst = 0

BeginLoad ==
  /\ pc \in {"idle", "loadstate"} /\ Move
  /\ io' = [io EXCEPT !.pos = 1, !.ok = TRUE]
  /\ IF file # <<>> /\ Missing THEN LoadOpen ELSE UNCHANGED <<fst, plugin>>
  /\ pc' = IF file = <<>> \/ fst' = 0 THEN "failed" ELSE "load"
  /\ before' = [jfst |-> jfst, plugin |-> plugin]
  /\ clean' = TRUE
  /\ UNCHANGED <<jfst, file, opt, was, good, swapped>>

(* midi_filter_cleanup(&filters, false) looks only at built-in filters.     *)
CleanupUser(s) == [s EXCEPT !.filters = <<>>]

Cleanup(s) == s

FilterAlways(s, f) == [s EXCEPT !.filters = Append(@, f)]

(* Filters are only read where no channel is selected.                      *)
Filter(s, f) == IF s.channel < 1 THEN [s EXCEPT !.filters = Append(@, f)] ELSE s

(* fps_process_node, one element: what it does to the settings              *)
Set(s, e) ==
  CASE e[1] = "map"           -> [s EXCEPT !.map[e[2]] = e[3]]
    [] e[1] = "channel"       -> [s EXCEPT !.channel = e[2]]
    [] e[1] = "transposition" -> [s EXCEPT !.transposition = e[2]]
    [] e[1] = "filter"        -> Filter(s, e[2])
    [] e[1] = "midi_pc"       -> [s EXCEPT !.midi_pc = e[2]]
    [] e[1] = "volume"        -> IF s.volume = Off THEN s ELSE [s EXCEPT !.volume = e[2]]
    [] e[1] = "mode"          -> [s EXCEPT !.mode = e[2]]
    [] e[1] = "sysex"         -> [s EXCEPT !.uuid = e[2]]
    [] OTHER                  -> s

(* and to the plugin: fst_set_program skips what is current already.        *)
Play(f, e) ==
  CASE e[1] = "program"               -> IF f.current = e[2] THEN f
                                         ELSE [f EXCEPT !.prog = e[2], !.current = e[2]]
    [] e[1] = "chunk" /\ opt.chunks   -> [f EXCEPT !.data = e[2]]
    [] e[1] = "param" /\ ~opt.chunks  -> [f EXCEPT !.data[f.prog] = e[2]]
    [] OTHER                          -> f

Fails(e) == \/ e = <<"check", FALSE>>
            \/ e[1] = "damaged" /\ opt.chunks

LoadElement ==
  /\ pc = "load" /\ io.pos <= Len(file)
  /\ LET e == file[io.pos]
     IN /\ jfst' = IF io.pos = 1 THEN Set(Cleanup(jfst), e) ELSE Set(jfst, e)
        /\ plugin' = [plugin EXCEPT ![fst] = Play(@, e)]
        /\ IF Fails(e) THEN Finish(FALSE)
                       ELSE pc' = "load" /\ io' = [io EXCEPT !.pos = @ + 1]
  /\ UNCHANGED <<fst, file, opt, hist, swapped, moves>>

Loaded ==
  /\ \/ pc = "load" /\ io.pos > Len(file) /\ Finish(TRUE)
     \/ pc = "failed" /\ Finish(FALSE)
  /\ UNCHANGED <<host, file, opt, hist, swapped, moves>>

(* jfst_load_state of an .fxp or .fxb file: the plugin it names replaces    *)
(* the one there is, which nobody closes, and nobody resumes the new one.   *)
LoadFx ==
  /\ pc \in {"idle", "loadstate"} /\ Move
  /\ \/ LoadOpen /\ (\E ok \in BOOLEAN : Finish(ok /\ fst' # 0))
     \/ UNCHANGED <<fst, plugin>> /\ Finish(FALSE)     \* no header
  /\ swapped' = TRUE
  /\ clean' = FALSE
  /\ UNCHANGED <<jfst, file, opt, was, before, good>>

-----------------------------------------------------------------------------
(* Anything else that changes the settings: at any time the process thread, *)
(* while this thread is idle its own widgets and commands.                  *)
Edit ==
  /\ pc \notin {"new", "init", "gone", "crashed"} /\ ~io.start /\ fst # 0
  /\ Move
  /\ \/ /\ \/ \E cc \in 1 .. CCs, i \in 0 .. 1 : jfst' = [jfst EXCEPT !.map[cc] = i]
           \/ jfst.volume # Off /\ jfst' = [jfst EXCEPT !.volume = 0]
           \/ /\ pc = "idle"
              /\ \/ \E c \in 0 .. 1 : jfst' = [jfst EXCEPT !.channel = c]
                 \/ \E f \in Filters : jfst' = [jfst EXCEPT !.filters = Append(@, f)]
                 \/ jfst.filters # <<>> /\ jfst' = [jfst EXCEPT !.filters = Tail(@)]
                 \/ jfst' = [jfst EXCEPT !.transposition = 1, !.midi_pc = "self"]
                 \/ jfst' = [jfst EXCEPT !.uuid = 5]
        /\ plugin' = plugin
     \/ /\ \/ \E p \in Programs : plugin' = [plugin EXCEPT ![fst].prog = p]
           \/ plugin' = [plugin EXCEPT ![fst].data[plugin[fst].prog] = 14]
        /\ jfst' = jfst
  /\ clean' = FALSE
  /\ UNCHANGED <<fst, file, pc, io, opt, was, before, good, swapped>>

Noticed(f) == f.current = f.prog

(* fst_event_thread, at its next round: the program of every FST.           *)
NoticeProgram ==
  /\ pc \notin {"gone", "crashed"}
  /\ \E k \in Plugins : /\ ~Noticed(plugin[k])
                        /\ plugin' = [plugin EXCEPT ![k].current = plugin[k].prog]
  /\ UNCHANGED <<jfst, fst, file, pc, io, opt, hist, swapped, moves>>

Next == \/ LoadPlugin \/ InitHost \/ Close \/ Restart \/ Crash
        \/ BeginSave \/ SaveProgram \/ SaveContent
        \/ BeginLoad \/ LoadElement \/ Loaded \/ LoadFx
        \/ Edit \/ NoticeProgram

Spec == Init /\ [][Next]_vars

-----------------------------------------------------------------------------
(* Every variable keeps its type; and a host crashes for want of a plugin   *)
(* only after an .fxp or .fxb was loaded whose plugin could not be opened.  *)
TypeOK ==
  /\ fst \in 0 .. MaxPlugins
  /\ \A k \in Plugins : plugin[k].state \in {"none", "open", "running", "closed"}
  /\ jfst.map \in [1 .. CCs -> None .. 1] /\ jfst.channel \in 0 .. 1
  /\ \A k \in DOMAIN jfst.filters : jfst.filters[k] \in Filters
  /\ io.pos \in 0 .. Len(file) + 1
  /\ pc = "crashed" => swapped

LoadDone == pc = "idle" /\ clean /\ io.pos > 0

(* What fps_save wrote undisturbed and fps_load read undisturbed, in this   *)
(* session or a later one, is in force again: channel, transposition,       *)
(* program change handling and uuid exactly; the map where it was set, as   *)
(* before elsewhere; volume and mode if both sides have them; of the        *)
(* filters, all that were there before stay, and those saved are added if   *)
(* no channel was selected; the sound of a chunk exactly and parameters to  *)
(* six decimals.  The program is the one the FST took for the plugin's when *)
(* the file was written, if it was right about it when the load began: else *)
(* fst_set_program may skip (ProgramComesBack).                             *)
RoundTrip ==
  LoadDone /\ io.ok /\ good =>
    LET s == was.jfst
        b == before.jfst
        f == plugin[fst]
    IN /\ jfst = [s EXCEPT
                    !.map = [cc \in 1 .. CCs |-> IF @[cc] # None THEN @[cc] ELSE b.map[cc]],
                    !.volume = IF @ = Off \/ b.volume = Off THEN b.volume ELSE @,
                    !.mode = IF @ = None THEN b.mode ELSE @,
                    !.filters = b.filters \o (IF s.channel = 0 THEN @ ELSE <<>>)]
       /\ Noticed(before.plugin[fst]) => f.prog = was.plugin.current
       /\ IF opt.chunks THEN f.data = was.plugin.data
          ELSE f.data[f.prog] = SixDecimals(was.plugin.data[was.plugin.prog])

(* A file that cannot be parsed, or is another plugin's, changes neither    *)
(* the settings nor the plugin (fps_check_this comes first).                *)
ForeignIgnored ==
  LoadDone /\ (file = <<>> \/ <<"check", FALSE>> = file[1]) =>
    /\ ~io.ok
    /\ jfst = before.jfst
    /\ \A k \in Plugins : /\ plugin[k].prog = before.plugin[k].prog
                           /\ plugin[k].data = before.plugin[k].data

(* A host that has started has exactly one plugin, and it runs if the host  *)
(* was not started bypassed - unless an .fxp or .fxb was loaded: then       *)
(* jfst_load_state has put a plugin there that nobody resumes, or none.     *)
(* (With the types.)                                                        *)
HostPlays ==
  /\ TypeOK
  /\ ~io.start /\ pc \notin {"gone", "crashed"} /\ ~swapped =>
       /\ fst # 0
       /\ \A k \in Plugins : plugin[k].state = IF k # fst THEN "none"
                                          ELSE IF opt.bypassed THEN "open" ELSE "running"

(* fsthost.1:138 "SysEx ID (1-127)": a host started with -U has that id.    *)
OptionsKept ==
  pc = "idle" /\ moves = 0 => jfst.uuid = opt.uuid

(* fps.c:247 "Cleanup midi filters": after a load the filters are the       *)
(* file's.                                                                  *)
FiltersAreTheFiles ==
  LoadDone /\ io.ok /\ good /\ was.jfst.channel = 0 => jfst.filters = was.jfst.filters

(* README:12 "load/save FXB/FXP files": loading one leaves a plugin that    *)
(* plays.                                                                   *)
FxPlays ==
  pc = "idle" /\ io.ok /\ ~opt.bypassed => fst # 0 /\ plugin[fst].state = "running"

(* fps.c:346 "Current Program": after a load the plugin plays the program   *)
(* it played when the file was saved.                                       *)
ProgramComesBack ==
  LoadDone /\ io.ok /\ good => plugin[fst].prog = was.plugin.prog

(* fps.c:371 "Params": what was saved of the parameters is what they were.  *)
ParamsComeBack ==
  LoadDone /\ io.ok /\ good /\ ~opt.chunks =>
    plugin[fst].data[plugin[fst].prog] = was.plugin.data[was.plugin.prog]
=============================================================================
