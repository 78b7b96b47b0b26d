---------------------------- MODULE Files_proofs ----------------------------
(***************************************************************************)
(* What holds of the files of a host.                                      *)
(*                                                                         *)
(* First the state files, in every session, for any number of CCs,         *)
(* programs, plugins and moves, any command line and any files at the      *)
(* start: one plugin that plays, files of others ignored, and what was     *)
(* saved in force again.                                                   *)
(*                                                                         *)
(* Then FXP and FXB files, for any number of programs and parameters: a    *)
(* file saved and loaded undisturbed brings back what the format carries,  *)
(* saving only looks, and only a plugin's own file is loaded.              *)
(***************************************************************************)
EXTENDS StateFile, FxFile, SequenceTheorems, TLAPS

(* The types of what the variables hold.                                    *)
JfstType == [map : [1 .. CCs -> None .. 1], channel : 0 .. 1, transposition : Int,
             filters : Seq(Filters), midi_pc : {"plugin", "self"}, volume : Int,
             mode : Int, uuid : Int]

PluginType == [state : {"none", "open", "running", "closed"}, prog : Programs,
               current : Programs, data : [Programs -> Int]]

IoType == [doc : Seq(Elements), pos : Nat, ok : BOOLEAN, start : BOOLEAN]

Types ==
  /\ jfst \in JfstType /\ fst \in 0 .. MaxPlugins /\ plugin \in [Plugins -> PluginType]
  /\ file \in Seq(Elements) /\ io \in IoType /\ io.pos <= Len(file) + 1
  /\ opt \in Opts
  /\ was \in [jfst : JfstType, plugin : PluginType]
  /\ before \in [jfst : JfstType, plugin : [Plugins -> PluginType]]
  /\ clean \in BOOLEAN /\ good \in BOOLEAN /\ swapped \in BOOLEAN
  /\ pc \in {"new", "init", "loadstate", "idle", "program", "content", "load", "failed",
             "gone", "crashed"}

(* What the host does at which time: it starts up, has a plugin while it    *)
(* saves and loads, and is without one only after an .fxp or .fxb.          *)
Phases ==
  /\ pc \in {"new", "init", "loadstate"} => io.start
  /\ io.start => pc \in {"new", "init", "loadstate", "load", "failed"}
  /\ pc = "new" => ~clean /\ fst = 0 /\ ~swapped /\ io.pos = 0
  /\ pc \in {"program", "content", "load"} => fst # 0
  /\ pc \in {"program", "content"} => io.pos = 0 /\ ~good
  /\ pc = "load" => io.pos > 0
  /\ pc = "crashed" => swapped

(* The plugin of a host that no .fxp or .fxb has touched is the only one    *)
(* there is, and runs once the host has started unless it is bypassed.      *)
Opened ==
  ~swapped /\ pc \notin {"gone", "crashed"} =>
    /\ ~io.start => fst # 0
    /\ \A k \in Plugins :
         plugin[k].state = IF k # fst THEN "none"
                           ELSE IF io.start \/ opt.bypassed THEN "open" ELSE "running"

(* The last two elements of a file, and the whole of it.                    *)
Program(f) == <<"program", f.current>>

Content(f) ==
  IF opt.chunks THEN <<"chunk", f.data>> ELSE <<"param", SixDecimals(f.data[f.prog])>>

(* The document grows from the settings and the plugin it was begun with.   *)
Saving ==
  pc \in {"program", "content"} /\ clean =>
    /\ jfst = was.jfst
    /\ io.doc = IF pc = "program" THEN Settings(was.jfst)
                ELSE Settings(was.jfst) \o << Program(was.plugin) >>
    /\ pc = "content" => /\ plugin[fst].prog = was.plugin.prog
                         /\ plugin[fst].data = was.plugin.data

Whole(s, f) == Settings(s) \o << Program(f) >> \o << Content(f) >>

Saved == good => file = Whole(was.jfst, was.plugin)

(* A file that is no file or another plugin's; and a host no load changed.  *)
Foreign == file = <<>> \/ <<"check", FALSE>> = file[1]

Same ==
  /\ jfst = before.jfst
  /\ \A k \in Plugins : /\ plugin[k].prog = before.plugin[k].prog
                        /\ plugin[k].data = before.plugin[k].data

(* What is in force when p is the next element of the file to be read: s    *)
(* are the settings and g the plugin that were saved, b the settings before *)
(* the load.                                                                *)
Last(s) == CCs + 5 + Len(s.filters)        \* where midi_pc stands

From(p, y, new, old) == IF p > y THEN new ELSE old

MapSoFar(p, s, b) ==
  [cc \in 1 .. CCs |-> IF s.map[cc] # None THEN From(p, cc + 2, s.map[cc], b.map[cc])
                       ELSE b.map[cc]]

FiltersRead(p, s) ==
  IF p <= CCs + 5 THEN 0 ELSE IF p > Last(s) THEN Len(s.filters) ELSE p - CCs - 5

FiltersSoFar(p, s, b) ==
  b.filters \o (IF s.channel = 0 THEN SubSeq(s.filters, 1, FiltersRead(p, s)) ELSE <<>>)

SettingsSoFar(p, j, s, b) ==
  /\ j.map = MapSoFar(p, s, b)
  /\ j.channel = From(p, CCs + 3, s.channel, b.channel)
  /\ j.transposition = From(p, CCs + 4, s.transposition, b.transposition)
  /\ j.filters = FiltersSoFar(p, s, b)
  /\ j.midi_pc = From(p, Last(s), s.midi_pc, b.midi_pc)
  /\ j.volume = IF s.volume = Off \/ b.volume = Off THEN b.volume
                ELSE From(p, Last(s) + 1, s.volume, b.volume)
  /\ j.mode = IF s.mode = None THEN b.mode ELSE From(p, Last(s) + 2, s.mode, b.mode)
  /\ j.uuid = From(p, Last(s) + 3, s.uuid, b.uuid)

SoundSoFar(p, f, s, g, chunks, right) ==
  /\ p > Last(s) + 4 /\ right => f.prog = g.current
  /\ p > Last(s) + 5 => IF chunks THEN f.data = g.data
                        ELSE f.data[f.prog] = SixDecimals(g.data[g.prog])

(* An FST that was right about its plugin's program when the load began is  *)
(* right about it all along.                                                *)
Right == Noticed(before.plugin[fst])

StillRight == pc = "load" /\ clean /\ Right => Noticed(plugin[fst])

(* Until the first element has passed nothing has changed, and no foreign   *)
(* file gets past it.                                                       *)
Untouched ==
  /\ pc = "load" /\ clean => /\ file # <<>>
                             /\ io.pos = 1 => Same
                             /\ io.pos > 1 => <<"check", FALSE>> # file[1]
  /\ pc = "failed" /\ clean => Same

Ignored ==
  pc \in {"idle", "init"} /\ clean /\ io.pos > 0 /\ Foreign => ~io.ok /\ Same

Restoring ==
  pc = "load" /\ clean /\ good =>
    /\ SettingsSoFar(io.pos, jfst, was.jfst, before.jfst)
    /\ SoundSoFar(io.pos, plugin[fst], was.jfst, was.plugin, opt.chunks, Right)

InForce ==
  pc \in {"idle", "init"} /\ clean /\ io.pos > 0 /\ io.ok /\ good =>
    /\ fst # 0
    /\ SettingsSoFar(Last(was.jfst) + 6, jfst, was.jfst, before.jfst)
    /\ SoundSoFar(Last(was.jfst) + 6, plugin[fst], was.jfst, was.plugin, opt.chunks, Right)

(* The inductive invariant.                                                 *)
IInv ==
  /\ Types /\ Phases /\ Opened
  /\ Untouched /\ Ignored
  /\ Saving /\ Saved /\ StillRight /\ Restoring /\ InForce

(* What the tag of an element says of the rest of it.                       *)
LEMMA ElementCases ==
  ASSUME NEW e \in Elements
  PROVE  /\ e[1] = "map" => e[2] \in 1 .. CCs /\ e[3] \in 0 .. 1
         /\ e[1] = "channel" => e[2] \in 0 .. 1
         /\ e[1] \in {"transposition", "volume", "mode", "sysex", "param"} => e[2] \in Int
         /\ e[1] = "filter" => e[2] \in Filters
         /\ e[1] = "midi_pc" => e[2] \in {"plugin", "self"}
         /\ e[1] = "program" => e[2] \in Programs
         /\ e[1] = "chunk" => e[2] \in [Programs -> Int]
<1>1. CASE e \in {<<"file">>, <<"damaged">>, <<"blank">>}
  BY <1>1
<1>2. CASE e \in {"check"} \X BOOLEAN
  BY <1>2
<1>3. CASE e \in {"map"} \X (1 .. CCs) \X (0 .. 1)
  BY <1>3
<1>4. CASE e \in {"channel"} \X (0 .. 1)
  BY <1>4
<1>5. CASE e \in {"transposition"} \X Int
  BY <1>5
<1>6. CASE e \in {"filter"} \X Filters
  BY <1>6
<1>7. CASE e \in {"midi_pc"} \X {"plugin", "self"}
  BY <1>7
<1>8. CASE e \in {"volume", "mode", "sysex"} \X Int
  BY <1>8
<1>9. CASE e \in {"program"} \X Programs
  BY <1>9
<1>10. CASE e \in {"chunk"} \X [Programs -> Int]
  BY <1>10
<1>11. CASE e \in {"param"} \X Int
  BY <1>11
<1> QED
  BY <1>1, <1>2, <1>3, <1>4, <1>5, <1>6, <1>7, <1>8, <1>9, <1>10, <1>11 DEF Elements

(* Reading one element gives settings again, and a plugin.                  *)
LEMMA SetType ==
  ASSUME StateFileAssumption, NEW s \in JfstType, NEW e \in Elements
  PROVE  Set(s, e) \in JfstType
<1>0. /\ s.map \in [1 .. CCs -> None .. 1] /\ s.filters \in Seq(Filters)
  BY DEF JfstType
<1>1. CASE e[1] = "map"
  <2>1. [s.map EXCEPT ![e[2]] = e[3]] \in [1 .. CCs -> None .. 1]
    BY <1>0, <1>1, ElementCases DEF None
  <2>2. [s EXCEPT !.map = [s.map EXCEPT ![e[2]] = e[3]]] \in JfstType
    BY <2>1 DEF JfstType
  <2> QED
    BY <1>1, <2>2 DEF Set
<1>2. CASE e[1] = "filter"
  <2>1. Append(s.filters, e[2]) \in Seq(Filters)
    BY <1>0, <1>2, ElementCases
  <2>2. [s EXCEPT !.filters = Append(@, e[2])] \in JfstType
    BY <2>1 DEF JfstType
  <2> QED
    BY <1>2, <2>2 DEF Set, Filter
<1>3. CASE e[1] \notin {"map", "filter"}
  BY <1>3, ElementCases DEF Set, JfstType
<1> QED
  BY <1>1, <1>2, <1>3

LEMMA PlayType ==
  ASSUME NEW f \in PluginType, NEW e \in Elements
  PROVE  /\ Play(f, e) \in PluginType /\ Play(f, e).state = f.state
         /\ Noticed(f) => Noticed(Play(f, e))
<1>0. f.data \in [Programs -> Int] /\ f.prog \in Programs /\ f.current \in Programs
  BY DEF PluginType
<1>1. CASE e[1] = "param" /\ ~opt.chunks
  <2>1. [f.data EXCEPT ![f.prog] = e[2]] \in [Programs -> Int]
    BY <1>0, <1>1, ElementCases
  <2>2. [f EXCEPT !.data = [f.data EXCEPT ![f.prog] = e[2]]] \in PluginType
    BY <2>1 DEF PluginType
  <2> QED
    BY <1>1, <2>2 DEF Play, PluginType, Noticed
<1>2. CASE e[1] = "program"
  <2>1. e[2] \in Programs
    BY <1>2, ElementCases
  <2>2. [f EXCEPT !.prog = e[2], !.current = e[2]] \in PluginType
    BY <2>1 DEF PluginType
  <2> QED
    BY <1>2, <2>2 DEF Play, PluginType, Noticed
<1>3. CASE e[1] = "chunk" /\ opt.chunks
  <2>1. e[2] \in [Programs -> Int]
    BY <1>3, ElementCases
  <2>2. [f EXCEPT !.data = e[2]] \in PluginType
    BY <2>1 DEF PluginType
  <2> QED
    BY <1>3, <2>2 DEF Play, PluginType, Noticed
<1>4. CASE /\ ~(e[1] = "param" /\ ~opt.chunks)
           /\ e[1] # "program"
           /\ ~(e[1] = "chunk" /\ opt.chunks)
  BY <1>4 DEF Play
<1> QED
  BY <1>1, <1>2, <1>3, <1>4

LEMMA JfstNewType ==
  ASSUME StateFileAssumption, NEW o \in Opts
  PROVE  JfstNew(o) \in JfstType
<1>1. o.volume \in Int /\ o.mode \in Int /\ o.uuid \in Int
  BY DEF StateFileAssumption
<1>2. Default \in JfstType
  <2>1. [cc \in 1 .. CCs |-> None] \in [1 .. CCs -> None .. 1]
    BY DEF None
  <2>2. <<>> \in Seq(Filters)
    OBVIOUS
  <2> QED
    BY <2>1, <2>2 DEF Default, JfstType, AutoId
<1>3. PICK d : d = Default
  OBVIOUS
<1>4. [d EXCEPT !.volume = o.volume, !.mode = o.mode, !.uuid = o.uuid] \in JfstType
  BY <1>1, <1>2, <1>3 DEF JfstType
<1>5. PICK c : c = [d EXCEPT !.volume = o.volume, !.mode = o.mode, !.uuid = o.uuid]
  OBVIOUS
<1>6. c \in JfstType
  BY <1>4, <1>5
<1>7. ASSUME NEW r \in JfstType
      PROVE  [r EXCEPT !.uuid = 0] \in JfstType
  BY ONLY DEF JfstType
<1> QED
  BY <1>3, <1>5, <1>6, <1>7 DEF JfstNew, SysexInit, AutoId

LEMMA UnopenedType ==
  ASSUME StateFileAssumption
  PROVE  Unopened \in PluginType /\ [k \in Plugins |-> Unopened] \in [Plugins -> PluginType]
BY DEF Unopened, PluginType, StateFileAssumption

LEMMA IsSeq ==
  ASSUME NEW S, NEW n \in Nat, NEW f \in [1 .. n -> S]
  PROVE  f \in Seq(S) /\ Len(f) = n
<1>1. f \in Seq(S)
  BY SeqDef
<1>2. Len(f) \in Nat /\ DOMAIN f = 1 .. Len(f)
  BY <1>1, LenProperties
<1>3. 1 .. n = 1 .. Len(f)
  BY <1>2
<1> QED
  BY <1>1, <1>2, <1>3

(* Where in a file what fps_save writes stands: every map entry has its     *)
(* place and so has every filter.                                           *)
Layout(t, s) ==
  LET last == CCs + 5 + Len(s.filters)
  IN /\ t[1] = <<"file">> /\ t[2] = <<"check", TRUE>>
     /\ \A cc \in 1 .. CCs : t[cc + 2] = Opt(s.map[cc] # None, <<"map", cc, s.map[cc]>>)
     /\ t[CCs + 3] = <<"channel", s.channel>> /\ t[CCs + 4] = <<"transposition", s.transposition>>
     /\ \A k \in 1 .. Len(s.filters) : t[CCs + 4 + k] = <<"filter", s.filters[k]>>
     /\ t[last] = <<"midi_pc", s.midi_pc>>
     /\ t[last + 1] = Opt(s.volume # Off, <<"volume", s.volume>>)
     /\ t[last + 2] = Opt(s.mode # None, <<"mode", s.mode>>)
     /\ t[last + 3] = <<"sysex", s.uuid>>

LEMMA SettingsLayout ==
  ASSUME StateFileAssumption, NEW s \in JfstType
  PROVE  /\ Settings(s) \in Seq(Elements)
         /\ Len(Settings(s)) = CCs + 8 + Len(s.filters)
         /\ Layout(Settings(s), s)
<1>0. /\ CCs \in Nat /\ s.map \in [1 .. CCs -> None .. 1] /\ s.channel \in 0 .. 1
      /\ s.transposition \in Int /\ s.filters \in Seq(Filters)
      /\ s.midi_pc \in {"plugin", "self"} /\ s.volume \in Int /\ s.mode \in Int /\ s.uuid \in Int
  BY DEF StateFileAssumption, JfstType
<1>n. PICK n \in Nat : n = Len(s.filters) /\ DOMAIN s.filters = 1 .. n
  BY <1>0, LenProperties
<1>N. CCs \in Nat /\ n \in Nat
  BY <1>0, <1>n
<1>a. PICK a : a = << <<"file">>, <<"check", TRUE>> >>
  OBVIOUS
<1>b. PICK b : b = [cc \in 1 .. CCs |-> Opt(s.map[cc] # None, <<"map", cc, s.map[cc]>>)]
  OBVIOUS
<1>c. PICK c : c = << <<"channel", s.channel>>, <<"transposition", s.transposition>> >>
  OBVIOUS
<1>d. PICK d : d = [k \in DOMAIN s.filters |-> <<"filter", s.filters[k]>>]
  OBVIOUS
<1>e. PICK e : e = << <<"midi_pc", s.midi_pc>>, Opt(s.volume # Off, <<"volume", s.volume>>),
                      Opt(s.mode # None, <<"mode", s.mode>>), <<"sysex", s.uuid>> >>
  OBVIOUS
<1>1. Settings(s) = a \o b \o c \o d \o e
  BY <1>a, <1>b, <1>c, <1>d, <1>e DEF Settings
<1>2. a \in Seq(Elements) /\ Len(a) = 2 /\ a[1] = <<"file">> /\ a[2] = <<"check", TRUE>>
  <2>1. <<"file">> \in Elements /\ <<"check", TRUE>> \in Elements
    BY DEF Elements
  <2>2. a[1] = <<"file">> /\ a[2] = <<"check", TRUE>>
    BY <1>a
  <2>3. Len(a) = 2
    BY <1>a
  <2>4. a \in Seq(Elements)
    BY <2>1, <1>a
  <2> QED
    BY <2>2, <2>3, <2>4
<1>3. /\ b \in Seq(Elements) /\ Len(b) = CCs
      /\ \A cc \in 1 .. CCs : b[cc] = Opt(s.map[cc] # None, <<"map", cc, s.map[cc]>>)
  <2>1. ASSUME NEW cc \in 1 .. CCs
        PROVE  Opt(s.map[cc] # None, <<"map", cc, s.map[cc]>>) \in Elements
    <3>1. CASE s.map[cc] = None
      BY <3>1 DEF Opt, Blank, Elements
    <3>2. CASE s.map[cc] # None
      <4>1. s.map[cc] \in 0 .. 1
        BY <1>0, <3>2 DEF None
      <4>2. <<"map", cc, s.map[cc]>> \in {"map"} \X (1 .. CCs) \X (0 .. 1)
        BY <4>1
      <4>3. <<"map", cc, s.map[cc]>> \in Elements
        BY <4>2 DEF Elements
      <4> QED
        BY <3>2, <4>3 DEF Opt
    <3> QED
      BY <3>1, <3>2
  <2>2. b \in [1 .. CCs -> Elements]
    BY <2>1, <1>b
  <2> QED
    BY <2>2, <1>0, <1>b, IsSeq
<1>4. /\ c \in Seq(Elements) /\ Len(c) = 2
      /\ c[1] = <<"channel", s.channel>> /\ c[2] = <<"transposition", s.transposition>>
  <2>1. <<"channel", s.channel>> \in Elements /\ <<"transposition", s.transposition>> \in Elements
    BY <1>0 DEF Elements
  <2> QED
    BY <2>1, <1>c
<1>5. /\ d \in Seq(Elements) /\ Len(d) = n
      /\ \A k \in 1 .. n : d[k] = <<"filter", s.filters[k]>>
  <2>1. ASSUME NEW k \in 1 .. n
        PROVE  <<"filter", s.filters[k]>> \in Elements
    <3>1. s.filters[k] \in Filters
      BY <1>0, <1>n, ElementOfSeq
    <3> QED
      BY <3>1 DEF Elements
  <2>2. d \in [1 .. n -> Elements]
    BY <2>1, <1>n, <1>d
  <2> QED
    BY <2>2, <1>n, <1>d, IsSeq
<1>6. /\ e \in Seq(Elements) /\ Len(e) = 4
      /\ e[1] = <<"midi_pc", s.midi_pc>>
      /\ e[2] = Opt(s.volume # Off, <<"volume", s.volume>>)
      /\ e[3] = Opt(s.mode # None, <<"mode", s.mode>>)
      /\ e[4] = <<"sysex", s.uuid>>
  <2>1. /\ <<"midi_pc", s.midi_pc>> \in Elements
        /\ <<"volume", s.volume>> \in Elements
        /\ <<"mode", s.mode>> \in Elements
        /\ <<"sysex", s.uuid>> \in Elements
        /\ <<"blank">> \in Elements
    BY <1>0 DEF Elements
  <2>2. /\ Opt(s.volume # Off, <<"volume", s.volume>>) \in Elements
        /\ Opt(s.mode # None, <<"mode", s.mode>>) \in Elements
    BY <2>1 DEF Opt, Blank
  <2> QED
    BY <2>1, <2>2, <1>e
<1>7. PICK x : x = a \o b
  OBVIOUS
<1>8. /\ x \in Seq(Elements) /\ Len(x) = CCs + 2
      /\ \A i \in 1 .. CCs + 2 : x[i] = IF i <= 2 THEN a[i] ELSE b[i - 2]
  <2>1. /\ x \in Seq(Elements) /\ Len(x) = Len(a) + Len(b)
        /\ \A i \in 1 .. Len(a) + Len(b) :
             x[i] = IF i <= Len(a) THEN a[i] ELSE b[i - Len(a)]
    <3>1. a \in Seq(Elements) /\ b \in Seq(Elements)
      BY <1>2, <1>3
    <3> QED
      BY <3>1, <1>7, ConcatProperties
  <2>2. Len(a) = 2 /\ Len(a) + Len(b) = CCs + 2
    BY <1>N, <1>2, <1>3
  <2> QED
    BY <2>1, <2>2
<1>9. PICK y : y = x \o c
  OBVIOUS
<1>10. /\ y \in Seq(Elements) /\ Len(y) = CCs + 4
       /\ \A i \in 1 .. CCs + 4 : y[i] = IF i <= CCs + 2 THEN x[i] ELSE c[i - (CCs + 2)]
  <2>1. /\ y \in Seq(Elements) /\ Len(y) = Len(x) + Len(c)
        /\ \A i \in 1 .. Len(x) + Len(c) :
             y[i] = IF i <= Len(x) THEN x[i] ELSE c[i - Len(x)]
    <3>1. x \in Seq(Elements) /\ c \in Seq(Elements)
      BY <1>8, <1>4
    <3> QED
      BY <3>1, <1>9, ConcatProperties
  <2>2. Len(x) = CCs + 2 /\ Len(x) + Len(c) = CCs + 4
    BY <1>N, <1>8, <1>4
  <2> QED
    BY <2>1, <2>2
<1>11. PICK z : z = y \o d
  OBVIOUS
<1>12. /\ z \in Seq(Elements) /\ Len(z) = CCs + 4 + n
       /\ \A i \in 1 .. CCs + 4 + n : z[i] = IF i <= CCs + 4 THEN y[i] ELSE d[i - (CCs + 4)]
  <2>1. /\ z \in Seq(Elements) /\ Len(z) = Len(y) + Len(d)
        /\ \A i \in 1 .. Len(y) + Len(d) :
             z[i] = IF i <= Len(y) THEN y[i] ELSE d[i - Len(y)]
    <3>1. y \in Seq(Elements) /\ d \in Seq(Elements)
      BY <1>10, <1>5
    <3> QED
      BY <3>1, <1>11, ConcatProperties
  <2>2. Len(y) = CCs + 4 /\ Len(y) + Len(d) = CCs + 4 + n
    BY <1>N, <1>10, <1>5
  <2> QED
    BY <2>1, <2>2
<1>13. PICK w : w = z \o e
  OBVIOUS
<1>14. /\ w \in Seq(Elements) /\ Len(w) = CCs + 8 + n
       /\ \A i \in 1 .. CCs + 8 + n :
            w[i] = IF i <= CCs + 4 + n THEN z[i] ELSE e[i - (CCs + 4 + n)]
  <2>1. /\ w \in Seq(Elements) /\ Len(w) = Len(z) + Len(e)
        /\ \A i \in 1 .. Len(z) + Len(e) :
             w[i] = IF i <= Len(z) THEN z[i] ELSE e[i - Len(z)]
    <3>1. z \in Seq(Elements) /\ e \in Seq(Elements)
      BY <1>12, <1>6
    <3> QED
      BY <3>1, <1>13, ConcatProperties
  <2>2. Len(z) = CCs + 4 + n /\ Len(z) + Len(e) = CCs + 8 + n
    BY <1>N, <1>12, <1>6
  <2> QED
    BY <2>1, <2>2
<1>15. Settings(s) = w
  BY <1>1, <1>7, <1>9, <1>11, <1>13
<1>16. w[1] = <<"file">> /\ w[2] = <<"check", TRUE>>
  <2>1. /\ w[1] = z[1] /\ z[1] = y[1] /\ y[1] = x[1] /\ x[1] = a[1]
        /\ w[2] = z[2] /\ z[2] = y[2] /\ y[2] = x[2] /\ x[2] = a[2]
    BY <1>N, <1>8, <1>10, <1>12, <1>14
  <2> QED
    BY <2>1, <1>2
<1>17. ASSUME NEW cc \in 1 .. CCs
       PROVE  w[cc + 2] = Opt(s.map[cc] # None, <<"map", cc, s.map[cc]>>)
  <2>1. /\ w[cc + 2] = z[cc + 2] /\ z[cc + 2] = y[cc + 2] /\ y[cc + 2] = x[cc + 2]
        /\ x[cc + 2] = b[cc + 2 - 2]
    BY <1>N, <1>8, <1>10, <1>12, <1>14
  <2>2. cc + 2 - 2 = cc
    BY <1>N
  <2> QED
    BY <2>1, <2>2, <1>3
<1>18. w[CCs + 3] = <<"channel", s.channel>> /\ w[CCs + 4] = <<"transposition", s.transposition>>
  <2>1. /\ w[CCs + 3] = z[CCs + 3] /\ z[CCs + 3] = y[CCs + 3]
        /\ y[CCs + 3] = c[CCs + 3 - (CCs + 2)]
        /\ w[CCs + 4] = z[CCs + 4] /\ z[CCs + 4] = y[CCs + 4]
        /\ y[CCs + 4] = c[CCs + 4 - (CCs + 2)]
    BY <1>N, <1>10, <1>12, <1>14
  <2>2. CCs + 3 - (CCs + 2) = 1 /\ CCs + 4 - (CCs + 2) = 2
    BY <1>N
  <2> QED
    BY <2>1, <2>2, <1>4
<1>19. ASSUME NEW k \in 1 .. n
       PROVE  w[CCs + 4 + k] = <<"filter", s.filters[k]>>
  <2>1. /\ w[CCs + 4 + k] = z[CCs + 4 + k] /\ z[CCs + 4 + k] = d[CCs + 4 + k - (CCs + 4)]
    BY <1>N, <1>12, <1>14
  <2>2. CCs + 4 + k - (CCs + 4) = k
    BY <1>N
  <2> QED
    BY <2>1, <2>2, <1>5
<1>20. \A i \in 1 .. 4 : w[CCs + 4 + n + i] = e[i]
  <2> TAKE i \in 1 .. 4
  <2>1. w[CCs + 4 + n + i] = e[CCs + 4 + n + i - (CCs + 4 + n)]
    <3>1. CCs + 4 + n + i \in 1 .. CCs + 8 + n /\ ~(CCs + 4 + n + i <= CCs + 4 + n)
      BY <1>N
    <3> QED
      BY <3>1, <1>14
  <2>2. CCs + 4 + n + i - (CCs + 4 + n) = i
    BY <1>N
  <2> QED
    BY <2>1, <2>2
<1>21. /\ w[CCs + 5 + n] = e[1] /\ w[CCs + 5 + n + 1] = e[2]
       /\ w[CCs + 5 + n + 2] = e[3] /\ w[CCs + 5 + n + 3] = e[4]
  <2>1. /\ CCs + 4 + n + 1 = CCs + 5 + n /\ CCs + 4 + n + 2 = CCs + 5 + n + 1
        /\ CCs + 4 + n + 3 = CCs + 5 + n + 2 /\ CCs + 4 + n + 4 = CCs + 5 + n + 3
    BY <1>N
  <2>2. 1 \in 1 .. 4 /\ 2 \in 1 .. 4 /\ 3 \in 1 .. 4 /\ 4 \in 1 .. 4
    OBVIOUS
  <2>3. /\ w[CCs + 4 + n + 1] = e[1] /\ w[CCs + 4 + n + 2] = e[2]
        /\ w[CCs + 4 + n + 3] = e[3] /\ w[CCs + 4 + n + 4] = e[4]
    BY <2>2, <1>20
  <2> QED
    BY <2>1, <2>3
<1>22. Layout(w, s)
  BY <1>n, <1>6, <1>16, <1>17, <1>18, <1>19, <1>21 DEF Layout
<1> QED
  BY <1>14, <1>15, <1>22, <1>n

LEMMA ContentType ==
  ASSUME NEW f \in PluginType
  PROVE  Program(f) \in Elements /\ Content(f) \in Elements
<1>1. f.prog \in Programs /\ f.current \in Programs /\ f.data \in [Programs -> Int]
  BY DEF PluginType
<1>2. <<"program", f.current>> \in Elements
  BY <1>1 DEF Elements
<1>3. <<"chunk", f.data>> \in Elements
  BY <1>1 DEF Elements
<1>4. <<"param", SixDecimals(f.data[f.prog])>> \in Elements
  <2>1. \A v \in Int : SixDecimals(v) \in Int
    BY DEF SixDecimals
  <2>2. SixDecimals(f.data[f.prog]) \in Int
    BY <1>1, <2>1
  <2> QED
    BY <2>2 DEF Elements
<1> QED
  BY <1>2, <1>3, <1>4 DEF Program, Content

(* A saved file has the layout of the settings, and ends in the program and *)
(* its content.                                                             *)
LEMMA WholeLayout ==
  ASSUME StateFileAssumption, NEW s \in JfstType, NEW f \in PluginType
  PROVE  /\ Whole(s, f) \in Seq(Elements)
         /\ Len(Whole(s, f)) = CCs + 10 + Len(s.filters)
         /\ Layout(Whole(s, f), s)
         /\ Whole(s, f)[CCs + 9 + Len(s.filters)] = Program(f)
         /\ Whole(s, f)[CCs + 10 + Len(s.filters)] = Content(f)
<1>0. CCs \in Nat /\ s.filters \in Seq(Filters)
  BY DEF StateFileAssumption, JfstType
<1>n. PICK n \in Nat : n = Len(s.filters)
  BY <1>0, LenProperties
<1>N. CCs \in Nat /\ n \in Nat
  BY <1>0, <1>n
<1>a. PICK a : a = Settings(s)
  OBVIOUS
<1>1. a \in Seq(Elements) /\ Len(a) = CCs + 8 + n /\ Layout(a, s)
  BY <1>n, <1>a, SettingsLayout
<1>2. Program(f) \in Elements /\ Content(f) \in Elements
  BY ContentType
<1>b. PICK b : b = << Program(f) >>
  OBVIOUS
<1>c. PICK c : c = << Content(f) >>
  OBVIOUS
<1>4. /\ b \in Seq(Elements) /\ Len(b) = 1 /\ b[1] = Program(f)
      /\ c \in Seq(Elements) /\ Len(c) = 1 /\ c[1] = Content(f)
  BY <1>2, <1>b, <1>c
<1>x. PICK x : x = a \o b
  OBVIOUS
<1>5. /\ x \in Seq(Elements) /\ Len(x) = CCs + 9 + n
      /\ \A i \in 1 .. CCs + 9 + n : x[i] = IF i <= CCs + 8 + n THEN a[i] ELSE b[i - (CCs + 8 + n)]
  <2>1. /\ x \in Seq(Elements) /\ Len(x) = Len(a) + Len(b)
        /\ \A i \in 1 .. Len(a) + Len(b) :
             x[i] = IF i <= Len(a) THEN a[i] ELSE b[i - Len(a)]
    <3>1. a \in Seq(Elements) /\ b \in Seq(Elements)
      BY <1>1, <1>4
    <3> QED
      BY <3>1, <1>x, ConcatProperties
  <2>2. Len(a) = CCs + 8 + n /\ Len(a) + Len(b) = CCs + 9 + n
    BY <1>N, <1>1, <1>4
  <2> QED
    BY <2>1, <2>2
<1>w. PICK w : w = x \o c
  OBVIOUS
<1>6. /\ w \in Seq(Elements) /\ Len(w) = CCs + 10 + n
      /\ \A i \in 1 .. CCs + 10 + n : w[i] = IF i <= CCs + 9 + n THEN x[i] ELSE c[i - (CCs + 9 + n)]
  <2>1. /\ w \in Seq(Elements) /\ Len(w) = Len(x) + Len(c)
        /\ \A i \in 1 .. Len(x) + Len(c) :
             w[i] = IF i <= Len(x) THEN x[i] ELSE c[i - Len(x)]
    <3>1. x \in Seq(Elements) /\ c \in Seq(Elements)
      BY <1>5, <1>4
    <3> QED
      BY <3>1, <1>w, ConcatProperties
  <2>2. Len(x) = CCs + 9 + n /\ Len(x) + Len(c) = CCs + 10 + n
    BY <1>N, <1>5, <1>4
  <2> QED
    BY <2>1, <2>2
<1>7. Whole(s, f) = w
  BY <1>a, <1>b, <1>c, <1>x, <1>w DEF Whole
<1>8. \A i \in 1 .. CCs + 8 + n : w[i] = a[i]
  BY <1>N, <1>5, <1>6
<1>9. w[CCs + 9 + n] = Program(f) /\ w[CCs + 10 + n] = Content(f)
  <2>1. /\ w[CCs + 9 + n] = x[CCs + 9 + n] /\ x[CCs + 9 + n] = b[CCs + 9 + n - (CCs + 8 + n)]
        /\ w[CCs + 10 + n] = c[CCs + 10 + n - (CCs + 9 + n)]
    BY <1>N, <1>5, <1>6
  <2>2. CCs + 9 + n - (CCs + 8 + n) = 1 /\ CCs + 10 + n - (CCs + 9 + n) = 1
    BY <1>N
  <2> QED
    BY <2>1, <2>2, <1>4
<1>10. Layout(w, s)
  <2>1. /\ w[1] = a[1] /\ w[2] = a[2]
        /\ \A cc \in 1 .. CCs : w[cc + 2] = a[cc + 2]
        /\ w[CCs + 3] = a[CCs + 3] /\ w[CCs + 4] = a[CCs + 4]
        /\ \A k \in 1 .. n : w[CCs + 4 + k] = a[CCs + 4 + k]
        /\ w[CCs + 5 + n] = a[CCs + 5 + n]
        /\ w[CCs + 5 + n + 1] = a[CCs + 5 + n + 1]
        /\ w[CCs + 5 + n + 2] = a[CCs + 5 + n + 2]
        /\ w[CCs + 5 + n + 3] = a[CCs + 5 + n + 3]
    BY <1>N, <1>8
  <2> QED
    BY <2>1, <1>1, <1>n DEF Layout
<1> QED
  BY <1>n, <1>6, <1>7, <1>9, <1>10

(* Opening, starting and closing a plugin touches nothing but its state.    *)
SamePrograms(a, b) ==
  \A k \in Plugins : /\ a[k].prog = b[k].prog /\ a[k].data = b[k].data
                     /\ a[k].current = b[k].current

LEMMA StateSet ==
  ASSUME NEW p \in [Plugins -> PluginType], NEW k \in Plugins,
         NEW x \in {"none", "open", "running", "closed"}
  PROVE  /\ [p EXCEPT ![k].state = x] \in [Plugins -> PluginType]
         /\ SamePrograms([p EXCEPT ![k].state = x], p)
         /\ \A j \in Plugins : [p EXCEPT ![k].state = x][j].state = IF j = k THEN x ELSE p[j].state
<1>1. \A j \in Plugins : p[j] \in PluginType
  OBVIOUS
<1>2. \A f \in PluginType : /\ [f EXCEPT !.state = x] \in PluginType
                            /\ [f EXCEPT !.state = x].prog = f.prog
                            /\ [f EXCEPT !.state = x].data = f.data
                            /\ [f EXCEPT !.state = x].current = f.current
                            /\ [f EXCEPT !.state = x].state = x
  BY DEF PluginType
<1>3. PICK g : g = [p[k] EXCEPT !.state = x]
  OBVIOUS
<1>4. /\ g \in PluginType /\ g.prog = p[k].prog /\ g.data = p[k].data /\ g.state = x
      /\ g.current = p[k].current
  BY <1>1, <1>2, <1>3
<1>5. [p EXCEPT ![k].state = x] = [p EXCEPT ![k] = g]
  BY <1>3
<1>6. [p EXCEPT ![k] = g] \in [Plugins -> PluginType]
  BY <1>4
<1>7. \A j \in Plugins : [p EXCEPT ![k] = g][j] = IF j = k THEN g ELSE p[j]
  OBVIOUS
<1> QED
  BY <1>4, <1>5, <1>6, <1>7 DEF SamePrograms

LEMMA OpenEffect ==
  ASSUME StateFileAssumption, Types, LoadOpen
  PROVE  /\ fst' \in 0 .. MaxPlugins
         /\ plugin' \in [Plugins -> PluginType]
         /\ SamePrograms(plugin', plugin)
         /\ fst' = 0 => plugin' = plugin
         /\ fst' # 0 => /\ fst' \in Plugins
                        /\ \A j \in Plugins :
                             plugin'[j].state = IF j = fst' THEN "open" ELSE plugin[j].state
<1>0. plugin \in [Plugins -> PluginType] /\ MaxPlugins \in Nat
  BY DEF Types, StateFileAssumption
<1>1. CASE fst' = 0 /\ plugin' = plugin
  BY <1>0, <1>1 DEF SamePrograms
<1>2. ASSUME NEW k \in Plugins, fst' = k, plugin' = [plugin EXCEPT ![k].state = "open"]
      PROVE  /\ fst' \in 0 .. MaxPlugins
             /\ plugin' \in [Plugins -> PluginType]
             /\ SamePrograms(plugin', plugin)
             /\ fst' # 0 /\ fst' \in Plugins
             /\ \A j \in Plugins :
                  plugin'[j].state = IF j = fst' THEN "open" ELSE plugin[j].state
  <2>1. PICK p \in [Plugins -> PluginType] : p = plugin
    BY <1>0
  <2>2. plugin' = [p EXCEPT ![k].state = "open"]
    BY <1>2, <2>1
  <2>3. /\ plugin' \in [Plugins -> PluginType] /\ SamePrograms(plugin', p)
        /\ \A j \in Plugins : plugin'[j].state = IF j = k THEN "open" ELSE p[j].state
    BY <2>2, StateSet
  <2>4. k \in 0 .. MaxPlugins /\ k # 0
    BY <1>0 DEF Plugins
  <2> QED
    BY <1>2, <2>1, <2>3, <2>4
<1> QED
  BY <1>1, <1>2 DEF LoadOpen

(* Ending a load or a save.                                                 *)
LEMMA FinishEffect ==
  ASSUME Types, NEW ok \in BOOLEAN, Finish(ok)
  PROVE  /\ pc' \in {"init", "idle"} /\ (pc' = "init" <=> io.start)
         /\ io' \in IoType /\ io'.pos = io.pos /\ io'.start = io.start /\ io'.ok = ok
         /\ io'.doc = io.doc
<1>1. io \in IoType
  BY DEF Types
<1>2. \A i \in IoType : /\ [i EXCEPT !.ok = ok] \in IoType
                        /\ [i EXCEPT !.ok = ok].pos = i.pos
                        /\ [i EXCEPT !.ok = ok].start = i.start
                        /\ [i EXCEPT !.ok = ok].doc = i.doc
                        /\ [i EXCEPT !.ok = ok].ok = ok
  BY DEF IoType
<1> QED
  BY <1>1, <1>2 DEF Finish

(* What every other change of the locals comes to.                          *)
LEMMA IoSet ==
  ASSUME NEW i \in IoType
  PROVE  /\ [i EXCEPT !.start = FALSE] \in IoType
         /\ [i EXCEPT !.start = FALSE].pos = i.pos
         /\ [i EXCEPT !.start = FALSE].ok = i.ok
         /\ [i EXCEPT !.start = FALSE].start = FALSE
         /\ \A d \in Seq(Elements) :
              /\ [i EXCEPT !.doc = d, !.pos = 0] \in IoType
              /\ [i EXCEPT !.doc = d, !.pos = 0].pos = 0
              /\ [i EXCEPT !.doc = d, !.pos = 0].doc = d
              /\ [i EXCEPT !.doc = d, !.pos = 0].start = i.start
              /\ [i EXCEPT !.doc = d] \in IoType
              /\ [i EXCEPT !.doc = d].pos = i.pos
              /\ [i EXCEPT !.doc = d].doc = d
              /\ [i EXCEPT !.doc = d].start = i.start
         /\ [i EXCEPT !.pos = 1, !.ok = TRUE] \in IoType
         /\ [i EXCEPT !.pos = 1, !.ok = TRUE].pos = 1
         /\ [i EXCEPT !.pos = 1, !.ok = TRUE].start = i.start
         /\ [i EXCEPT !.pos = @ + 1] \in IoType
         /\ [i EXCEPT !.pos = @ + 1].pos = i.pos + 1
         /\ [i EXCEPT !.pos = @ + 1].start = i.start
<1>1. /\ [i EXCEPT !.start = FALSE] \in IoType
      /\ [i EXCEPT !.start = FALSE].pos = i.pos
      /\ [i EXCEPT !.start = FALSE].ok = i.ok
      /\ [i EXCEPT !.start = FALSE].start = FALSE
  BY DEF IoType
<1>2. ASSUME NEW d \in Seq(Elements)
      PROVE  /\ [i EXCEPT !.doc = d, !.pos = 0] \in IoType
             /\ [i EXCEPT !.doc = d, !.pos = 0].pos = 0
             /\ [i EXCEPT !.doc = d, !.pos = 0].doc = d
             /\ [i EXCEPT !.doc = d, !.pos = 0].start = i.start
  BY DEF IoType
<1>3. ASSUME NEW d \in Seq(Elements)
      PROVE  /\ [i EXCEPT !.doc = d] \in IoType
             /\ [i EXCEPT !.doc = d].pos = i.pos
             /\ [i EXCEPT !.doc = d].doc = d
             /\ [i EXCEPT !.doc = d].start = i.start
  BY DEF IoType
<1>4. /\ [i EXCEPT !.pos = 1, !.ok = TRUE] \in IoType
      /\ [i EXCEPT !.pos = 1, !.ok = TRUE].pos = 1
      /\ [i EXCEPT !.pos = 1, !.ok = TRUE].start = i.start
  BY DEF IoType
<1>5. /\ [i EXCEPT !.pos = @ + 1] \in IoType
      /\ [i EXCEPT !.pos = @ + 1].pos = i.pos + 1
      /\ [i EXCEPT !.pos = @ + 1].start = i.start
  BY DEF IoType
<1> QED
  BY <1>1, <1>2, <1>3, <1>4, <1>5

(* What saving begins with, and goes on to.                                 *)
LEMMA BeginSaveEffect ==
  ASSUME StateFileAssumption, Types, BeginSave
  PROVE  /\ io' \in IoType /\ io'.pos = 0 /\ io'.doc = Settings(jfst) /\ io'.start = io.start
         /\ fst \in Plugins /\ was' \in [jfst : JfstType, plugin : PluginType]
         /\ was'.jfst = jfst /\ was'.plugin = plugin[fst]
<1>1. jfst \in JfstType /\ io \in IoType /\ plugin \in [Plugins -> PluginType]
  BY DEF Types
<1>2. fst \in Plugins
  BY DEF Types, Plugins, BeginSave, StateFileAssumption
<1>3. PICK s \in JfstType : s = jfst
  BY <1>1
<1>4. Settings(s) \in Seq(Elements)
  BY SettingsLayout
<1>5. io' = [io EXCEPT !.doc = Settings(jfst), !.pos = 0]
  BY DEF BeginSave
<1>6. PICK d \in Seq(Elements) : d = Settings(jfst)
  BY <1>3, <1>4
<1>7. io' = [io EXCEPT !.doc = d, !.pos = 0]
  BY <1>5, <1>6
<1>8. io' \in IoType /\ io'.pos = 0 /\ io'.doc = d /\ io'.start = io.start
  BY <1>1, <1>7, IoSet
<1>9. was' = [jfst |-> jfst, plugin |-> plugin[fst]] /\ plugin[fst] \in PluginType
  BY <1>1, <1>2 DEF BeginSave
<1> QED
  BY <1>1, <1>2, <1>6, <1>8, <1>9

LEMMA AppendElement ==
  ASSUME NEW d \in Seq(Elements), NEW e \in Elements
  PROVE  d \o << e >> \in Seq(Elements) /\ Len(d \o << e >>) = Len(d) + 1
OBVIOUS

LEMMA SaveProgramEffect ==
  ASSUME StateFileAssumption, Types, Phases, SaveProgram
  PROVE  /\ io' \in IoType /\ io'.pos = io.pos /\ io'.start = io.start
         /\ io'.doc = io.doc \o << Program(plugin[fst]) >>
         /\ fst \in Plugins /\ was' \in [jfst : JfstType, plugin : PluginType]
         /\ was'.jfst = was.jfst /\ was'.plugin = plugin[fst]
<1>1. /\ io \in IoType /\ plugin \in [Plugins -> PluginType]
      /\ was \in [jfst : JfstType, plugin : PluginType]
  BY DEF Types
<1>2. fst \in Plugins
  BY DEF Types, Phases, Plugins, SaveProgram, StateFileAssumption
<1>3. plugin[fst] \in PluginType /\ io.doc \in Seq(Elements)
  BY <1>1, <1>2 DEF IoType
<1>4. PICK d \in Seq(Elements) : d = io.doc
  BY <1>3
<1>5. PICK f \in PluginType : f = plugin[fst]
  BY <1>3
<1>6. PICK e \in Elements : e = Program(f)
  BY ContentType
<1>7. PICK w \in Seq(Elements) : w = d \o << e >>
  BY AppendElement
<1>8. io' = [io EXCEPT !.doc = w]
  BY <1>4, <1>5, <1>6, <1>7 DEF SaveProgram, Program
<1>9. io' \in IoType /\ io'.pos = io.pos /\ io'.start = io.start /\ io'.doc = w
  BY <1>1, <1>8, IoSet
<1>10. was' = [was EXCEPT !.plugin = f]
  BY <1>5 DEF SaveProgram
<1>11. was' \in [jfst : JfstType, plugin : PluginType] /\ was'.jfst = was.jfst /\ was'.plugin = f
  BY <1>1, <1>10
<1> QED
  BY <1>2, <1>4, <1>5, <1>6, <1>7, <1>9, <1>11

LEMMA SaveContentEffect ==
  ASSUME StateFileAssumption, Types, Phases, SaveContent
  PROVE  /\ fst \in Plugins
         /\ pc' \in {"init", "idle"} /\ (pc' = "init" <=> io.start)
         /\ io' \in IoType /\ io'.pos = io.pos /\ io'.start = io.start
         /\ file' \in Seq(Elements)
         /\ \/ file' = io.doc \o << Content(plugin[fst]) >> /\ good' = clean
            \/ file' = file /\ good' = good
<1>1. io \in IoType /\ plugin \in [Plugins -> PluginType] /\ file \in Seq(Elements)
  BY DEF Types
<1>2. fst \in Plugins
  BY DEF Types, Phases, Plugins, SaveContent, StateFileAssumption
<1>3. plugin[fst] \in PluginType /\ io.doc \in Seq(Elements)
  BY <1>1, <1>2 DEF IoType
<1>4. PICK d \in Seq(Elements) : d = io.doc
  BY <1>3
<1>5. PICK f \in PluginType : f = plugin[fst]
  BY <1>3
<1>6. PICK e \in Elements : e = Content(f)
  BY ContentType
<1>7. PICK w \in Seq(Elements) : w = d \o << e >>
  BY AppendElement
<1>8. w = io.doc \o << IF opt.chunks THEN <<"chunk", plugin[fst].data>>
                      ELSE <<"param", SixDecimals(plugin[fst].data[plugin[fst].prog])>> >>
  BY <1>4, <1>5, <1>6, <1>7 DEF Content
<1>9. \/ file' = w /\ good' = clean /\ Finish(TRUE)
      \/ file' = file /\ good' = good /\ Finish(FALSE)
  BY <1>8 DEF SaveContent
<1>10. \E ok \in BOOLEAN : Finish(ok)
  BY <1>9
<1>11. PICK ok \in BOOLEAN : Finish(ok)
  BY <1>10
<1>12. /\ pc' \in {"init", "idle"} /\ (pc' = "init" <=> io.start)
       /\ io' \in IoType /\ io'.pos = io.pos /\ io'.start = io.start
  BY <1>11, FinishEffect
<1>13. w = io.doc \o << Content(plugin[fst]) >>
  BY <1>4, <1>5, <1>6, <1>7
<1> QED
  BY <1>1, <1>2, <1>9, <1>12, <1>13

LEMMA BeginLoadEffect ==
  ASSUME StateFileAssumption, Types, BeginLoad
  PROVE  /\ io' \in IoType /\ io'.pos = 1 /\ io'.start = io.start
         /\ fst' \in 0 .. MaxPlugins /\ plugin' \in [Plugins -> PluginType]
         /\ SamePrograms(plugin', plugin)
         /\ \/ /\ file # <<>> /\ fst = 0
               /\ fst' # 0 => \A j \in Plugins :
                                plugin'[j].state = IF j = fst' THEN "open" ELSE plugin[j].state
               /\ fst' = 0 => plugin' = plugin
            \/ fst' = fst /\ plugin' = plugin
         /\ before' \in [jfst : JfstType, plugin : [Plugins -> PluginType]]
         /\ before'.jfst = jfst /\ before'.plugin = plugin
<1>1. /\ io \in IoType /\ plugin \in [Plugins -> PluginType] /\ jfst \in JfstType
      /\ fst \in 0 .. MaxPlugins
  BY DEF Types
<1>2. io' \in IoType /\ io'.pos = 1 /\ io'.start = io.start
  BY <1>1, IoSet DEF BeginLoad
<1>3. before' = [jfst |-> jfst, plugin |-> plugin]
  BY DEF BeginLoad
<1>4. CASE file # <<>> /\ fst = 0
  <2>1. LoadOpen
    BY <1>4 DEF BeginLoad, Missing
  <2> QED
    BY <2>1, <1>1, <1>2, <1>3, <1>4, OpenEffect
<1>5. CASE ~(file # <<>> /\ fst = 0)
  <2>1. fst' = fst /\ plugin' = plugin
    BY <1>5 DEF BeginLoad, Missing
  <2>2. SamePrograms(plugin', plugin)
    BY <2>1 DEF SamePrograms
  <2> QED
    BY <2>1, <2>2, <1>1, <1>2, <1>3
<1> QED
  BY <1>4, <1>5

LEMMA LoadElementEffect ==
  ASSUME StateFileAssumption, Types, Phases, LoadElement
  PROVE  /\ fst \in Plugins /\ io.pos \in 1 .. Len(file) /\ file[io.pos] \in Elements
         /\ jfst' = Set(jfst, file[io.pos]) /\ jfst' \in JfstType
         /\ plugin' \in [Plugins -> PluginType]
         /\ plugin'[fst] = Play(plugin[fst], file[io.pos])
         /\ Noticed(plugin[fst]) => Noticed(plugin'[fst])
         /\ \A j \in Plugins \ {fst} : plugin'[j] = plugin[j]
         /\ \A j \in Plugins : plugin'[j].state = plugin[j].state
         /\ io' \in IoType /\ io'.start = io.start
         /\ \/ /\ Fails(file[io.pos])
               /\ pc' \in {"init", "idle"} /\ (pc' = "init" <=> io.start)
               /\ io'.pos = io.pos /\ io'.ok = FALSE
            \/ /\ ~Fails(file[io.pos])
               /\ pc' = "load" /\ io'.pos = io.pos + 1
<1>1. /\ io \in IoType /\ plugin \in [Plugins -> PluginType] /\ jfst \in JfstType
      /\ fst \in 0 .. MaxPlugins /\ file \in Seq(Elements)
  BY DEF Types
<1>2. fst \in Plugins
  BY DEF Types, Phases, Plugins, LoadElement, StateFileAssumption
<1>3. io.pos \in 1 .. Len(file)
  <2>1. io.pos \in Nat /\ io.pos > 0 /\ io.pos <= Len(file) /\ Len(file) \in Nat
    BY <1>1, LenProperties DEF Phases, LoadElement, IoType
  <2> QED
    BY <2>1
<1>4. file[io.pos] \in Elements
  BY <1>1, <1>3, ElementOfSeq
<1>5. PICK e \in Elements : e = file[io.pos]
  BY <1>4
<1>6. PICK s \in JfstType : s = jfst
  BY <1>1
<1>7. jfst' = Set(s, e)
  BY <1>5, <1>6 DEF LoadElement, Cleanup
<1>8. Set(s, e) \in JfstType
  BY SetType
<1>9. plugin[fst] \in PluginType
  BY <1>1, <1>2
<1>10. PICK f \in PluginType : f = plugin[fst]
  BY <1>9
<1>11. /\ Play(f, e) \in PluginType /\ Play(f, e).state = f.state
       /\ Noticed(f) => Noticed(Play(f, e))
  BY PlayType
<1>12. PICK g \in PluginType : g = Play(f, e)
  BY <1>11
<1>13. plugin' = [plugin EXCEPT ![fst] = g]
  BY <1>5, <1>10, <1>12 DEF LoadElement
<1>14. /\ plugin' \in [Plugins -> PluginType]
       /\ plugin'[fst] = g
       /\ \A j \in Plugins \ {fst} : plugin'[j] = plugin[j]
  BY <1>13, <1>1, <1>2
<1>15. /\ \A j \in Plugins : plugin'[j].state = plugin[j].state
       /\ Noticed(plugin[fst]) => Noticed(plugin'[fst])
  BY <1>14, <1>12, <1>11, <1>10, <1>2
<1>16. \/ Fails(e) /\ Finish(FALSE)
       \/ ~Fails(e) /\ pc' = "load" /\ io' = [io EXCEPT !.pos = @ + 1]
  BY <1>5 DEF LoadElement
<1>17. CASE Fails(e) /\ Finish(FALSE)
  <2>1. FALSE \in BOOLEAN
    OBVIOUS
  <2>2. /\ pc' \in {"init", "idle"} /\ (pc' = "init" <=> io.start)
        /\ io' \in IoType /\ io'.pos = io.pos /\ io'.start = io.start /\ io'.ok = FALSE
    BY <2>1, <1>17, FinishEffect
  <2> QED
    BY <2>2, <1>17, <1>2, <1>3, <1>4, <1>5, <1>6, <1>7, <1>8, <1>10, <1>12, <1>14, <1>15
<1>18. CASE ~Fails(e) /\ pc' = "load" /\ io' = [io EXCEPT !.pos = @ + 1]
  <2>1. io' \in IoType /\ io'.pos = io.pos + 1 /\ io'.start = io.start
    BY <1>1, <1>18, IoSet
  <2> QED
    BY <2>1, <1>18, <1>2, <1>3, <1>4, <1>5, <1>6, <1>7, <1>8, <1>10, <1>12, <1>14, <1>15
<1> QED
  BY <1>16, <1>17, <1>18

(* The program and the sound a plugin changes itself.                       *)
LEMMA PluginSet ==
  ASSUME NEW p \in [Plugins -> PluginType], NEW k \in Plugins
  PROVE  /\ \A x \in Programs :
              /\ [p EXCEPT ![k].prog = x] \in [Plugins -> PluginType]
              /\ \A j \in Plugins : [p EXCEPT ![k].prog = x][j].state = p[j].state
         /\ [p EXCEPT ![k].data[p[k].prog] = 14] \in [Plugins -> PluginType]
         /\ \A j \in Plugins : [p EXCEPT ![k].data[p[k].prog] = 14][j].state = p[j].state
<1>1. \A j \in Plugins : p[j] \in PluginType
  OBVIOUS
<1>2. ASSUME NEW x \in Programs
      PROVE  /\ [p EXCEPT ![k].prog = x] \in [Plugins -> PluginType]
             /\ \A j \in Plugins : [p EXCEPT ![k].prog = x][j].state = p[j].state
  <2>1. \A f \in PluginType : /\ [f EXCEPT !.prog = x] \in PluginType
                              /\ [f EXCEPT !.prog = x].state = f.state
    BY DEF PluginType
  <2>2. PICK g : g = [p[k] EXCEPT !.prog = x]
    OBVIOUS
  <2>3. g \in PluginType /\ g.state = p[k].state
    BY <1>1, <2>1, <2>2
  <2>4. [p EXCEPT ![k].prog = x] = [p EXCEPT ![k] = g]
    BY <2>2
  <2>5. [p EXCEPT ![k] = g] \in [Plugins -> PluginType]
    BY <2>3
  <2>6. \A j \in Plugins : [p EXCEPT ![k] = g][j] = IF j = k THEN g ELSE p[j]
    OBVIOUS
  <2> QED
    BY <2>3, <2>4, <2>5, <2>6
<1>3. p[k].data \in [Programs -> Int] /\ p[k].prog \in Programs
  BY <1>1 DEF PluginType
<1>4. PICK d \in [Programs -> Int] : d = [p[k].data EXCEPT ![p[k].prog] = 14]
  <2>1. \A h \in [Programs -> Int], x \in Programs : [h EXCEPT ![x] = 14] \in [Programs -> Int]
    OBVIOUS
  <2> QED
    BY <2>1, <1>3
<1>5. \A f \in PluginType : [f EXCEPT !.data = d] \in PluginType
                            /\ [f EXCEPT !.data = d].state = f.state
  BY DEF PluginType
<1>6. PICK g : g = [p[k] EXCEPT !.data = d]
  OBVIOUS
<1>7. g \in PluginType /\ g.state = p[k].state
  BY <1>1, <1>5, <1>6
<1>8. [p EXCEPT ![k].data[p[k].prog] = 14] = [p EXCEPT ![k] = g]
  BY <1>4, <1>6
<1>9. [p EXCEPT ![k] = g] \in [Plugins -> PluginType]
  BY <1>7
<1>10. \A j \in Plugins : [p EXCEPT ![k] = g][j] = IF j = k THEN g ELSE p[j]
  OBVIOUS
<1> QED
  BY <1>2, <1>7, <1>8, <1>9, <1>10

LEMMA SettingsEdited ==
  ASSUME StateFileAssumption, NEW s \in JfstType
  PROVE  /\ \A cc \in 1 .. CCs, i \in 0 .. 1 : [s EXCEPT !.map[cc] = i] \in JfstType
         /\ [s EXCEPT !.volume = 0] \in JfstType
         /\ \A c \in 0 .. 1 : [s EXCEPT !.channel = c] \in JfstType
         /\ \A f \in Filters : [s EXCEPT !.filters = Append(@, f)] \in JfstType
         /\ s.filters # <<>> => [s EXCEPT !.filters = Tail(@)] \in JfstType
         /\ [s EXCEPT !.transposition = 1, !.midi_pc = "self"] \in JfstType
         /\ [s EXCEPT !.uuid = 5] \in JfstType
<1>0. s.map \in [1 .. CCs -> None .. 1] /\ s.filters \in Seq(Filters)
  BY DEF JfstType
<1>1. ASSUME NEW cc \in 1 .. CCs, NEW i \in 0 .. 1
      PROVE  [s EXCEPT !.map[cc] = i] \in JfstType
  <2>1. [s.map EXCEPT ![cc] = i] \in [1 .. CCs -> None .. 1]
    BY <1>0 DEF None
  <2>2. [s EXCEPT !.map = [s.map EXCEPT ![cc] = i]] \in JfstType
    BY <2>1 DEF JfstType
  <2> QED
    BY <2>2
<1>2. \A i \in Int : [s EXCEPT !.volume = i] \in JfstType
  BY DEF JfstType
<1>8. \A i \in Int : [s EXCEPT !.uuid = i] \in JfstType
  BY DEF JfstType
<1>7. ASSUME NEW c \in 0 .. 1
      PROVE  [s EXCEPT !.channel = c] \in JfstType
  BY DEF JfstType
<1>3. [s EXCEPT !.transposition = 1, !.midi_pc = "self"] \in JfstType
  <2>0. \A i \in Int : [s EXCEPT !.transposition = i] \in JfstType
    BY DEF JfstType
  <2>a. 1 \in Int
    OBVIOUS
  <2>b. [s EXCEPT !.transposition = 1] \in JfstType
    BY <2>0, <2>a
  <2>1. PICK r \in JfstType : r = [s EXCEPT !.transposition = 1]
    BY <2>b
  <2>2. ASSUME NEW q \in JfstType
        PROVE  [q EXCEPT !.midi_pc = "self"] \in JfstType
    BY DEF JfstType
  <2>3. [r EXCEPT !.midi_pc = "self"] \in JfstType
    BY <2>2
  <2> QED
    BY <2>1, <2>3
<1>4. ASSUME NEW q \in Seq(Filters)
      PROVE  [s EXCEPT !.filters = q] \in JfstType
  BY DEF JfstType
<1>5. \A f \in Filters : Append(s.filters, f) \in Seq(Filters)
  BY <1>0
<1>6. s.filters # <<>> => Tail(s.filters) \in Seq(Filters)
  BY <1>0, HeadTailProperties
<1>9. [s EXCEPT !.volume = 0] \in JfstType /\ [s EXCEPT !.uuid = 5] \in JfstType
  <2>1. 0 \in Int /\ 5 \in Int
    OBVIOUS
  <2> QED
    BY <2>1, <1>2, <1>8
<1>10. /\ \A f \in Filters : [s EXCEPT !.filters = Append(@, f)] \in JfstType
       /\ s.filters # <<>> => [s EXCEPT !.filters = Tail(@)] \in JfstType
  BY <1>4, <1>5, <1>6
<1> QED
  BY <1>1, <1>3, <1>7, <1>9, <1>10

LEMMA EditEffect ==
  ASSUME StateFileAssumption, Types, Edit
  PROVE  jfst' \in JfstType /\ plugin' \in [Plugins -> PluginType]
         /\ \A j \in Plugins : plugin'[j].state = plugin[j].state
<1>1. jfst \in JfstType /\ plugin \in [Plugins -> PluginType] /\ fst \in Plugins
  BY DEF Types, Edit, StateFileAssumption, Plugins
<1>2. PICK s \in JfstType : s = jfst
  BY <1>1
<1>3. PICK p \in [Plugins -> PluginType] : p = plugin
  BY <1>1
<1>4. PICK k \in Plugins : k = fst
  BY <1>1
<1>5. CASE /\ \/ \E cc \in 1 .. CCs, i \in 0 .. 1 : jfst' = [s EXCEPT !.map[cc] = i]
              \/ jfst' = [s EXCEPT !.volume = 0]
              \/ \E c \in 0 .. 1 : jfst' = [s EXCEPT !.channel = c]
              \/ \E f \in Filters : jfst' = [s EXCEPT !.filters = Append(@, f)]
              \/ s.filters # <<>> /\ jfst' = [s EXCEPT !.filters = Tail(@)]
              \/ jfst' = [s EXCEPT !.transposition = 1, !.midi_pc = "self"]
              \/ jfst' = [s EXCEPT !.uuid = 5]
           /\ plugin' = p
  <2>0. /\ \A cc \in 1 .. CCs, i \in 0 .. 1 : [s EXCEPT !.map[cc] = i] \in JfstType
        /\ [s EXCEPT !.volume = 0] \in JfstType
        /\ \A c \in 0 .. 1 : [s EXCEPT !.channel = c] \in JfstType
        /\ \A f \in Filters : [s EXCEPT !.filters = Append(@, f)] \in JfstType
        /\ s.filters # <<>> => [s EXCEPT !.filters = Tail(@)] \in JfstType
        /\ [s EXCEPT !.transposition = 1, !.midi_pc = "self"] \in JfstType
        /\ [s EXCEPT !.uuid = 5] \in JfstType
    BY SettingsEdited
  <2>1. jfst' \in JfstType
    <3>1. CASE \E cc \in 1 .. CCs, i \in 0 .. 1 : jfst' = [s EXCEPT !.map[cc] = i]
      <4>1. PICK cc \in 1 .. CCs, i \in 0 .. 1 : jfst' = [s EXCEPT !.map[cc] = i]
        BY ONLY <3>1
      <4>2. [s EXCEPT !.map[cc] = i] \in JfstType
        <5>1. \A d \in 1 .. CCs, v \in 0 .. 1 : [s EXCEPT !.map[d] = v] \in JfstType
          BY ONLY <2>0
        <5> QED
          BY ONLY <5>1, Zenon
      <4> QED
        BY ONLY <4>1, <4>2, Zenon
    <3>2. CASE jfst' = [s EXCEPT !.volume = 0]
      BY ONLY <3>2, <2>0
    <3>3. CASE \E c \in 0 .. 1 : jfst' = [s EXCEPT !.channel = c]
      BY ONLY <3>3, <2>0
    <3>4. CASE \E f \in Filters : jfst' = [s EXCEPT !.filters = Append(@, f)]
      BY ONLY <3>4, <2>0
    <3>5. CASE s.filters # <<>> /\ jfst' = [s EXCEPT !.filters = Tail(@)]
      BY ONLY <3>5, <2>0
    <3>6. CASE jfst' = [s EXCEPT !.transposition = 1, !.midi_pc = "self"]
      BY ONLY <3>6, <2>0
    <3>7. CASE jfst' = [s EXCEPT !.uuid = 5]
      BY ONLY <3>7, <2>0
    <3> QED
      BY <1>5, <3>1, <3>2, <3>3, <3>4, <3>5, <3>6, <3>7
  <2> QED
    BY <2>1, <1>3, <1>5
<1>6. CASE /\ \/ \E x \in Programs : plugin' = [p EXCEPT ![k].prog = x]
              \/ plugin' = [p EXCEPT ![k].data[p[k].prog] = 14]
           /\ jfst' = s
  <2>1. /\ plugin' \in [Plugins -> PluginType]
        /\ \A j \in Plugins : plugin'[j].state = p[j].state
    <3>1. /\ \A x \in Programs :
                /\ [p EXCEPT ![k].prog = x] \in [Plugins -> PluginType]
                /\ \A j \in Plugins : [p EXCEPT ![k].prog = x][j].state = p[j].state
          /\ [p EXCEPT ![k].data[p[k].prog] = 14] \in [Plugins -> PluginType]
          /\ \A j \in Plugins : [p EXCEPT ![k].data[p[k].prog] = 14][j].state = p[j].state
      BY PluginSet
    <3> QED
      BY ONLY <1>6, <3>1
  <2> QED
    BY <2>1, <1>3, <1>6
<1> QED
  BY <1>2, <1>3, <1>4, <1>5, <1>6 DEF Edit

LEMMA InitHostEffect ==
  ASSUME StateFileAssumption, Types, InitHost
  PROVE  /\ plugin' \in [Plugins -> PluginType]
         /\ io' \in IoType /\ io'.start = FALSE /\ io'.pos = io.pos /\ io'.ok = io.ok
         /\ \/ pc' = "gone"
            \/ /\ pc' = "idle" /\ fst \in Plugins
               /\ SamePrograms(plugin', plugin)
               /\ \A j \in Plugins :
                    plugin'[j].state = IF j # fst THEN plugin[j].state
                                       ELSE IF opt.bypassed THEN plugin[fst].state
                                       ELSE "running"
<1>1. plugin \in [Plugins -> PluginType] /\ io \in IoType /\ fst \in 0 .. MaxPlugins
  BY DEF Types
<1>2. io' \in IoType /\ io'.start = FALSE /\ io'.pos = io.pos /\ io'.ok = io.ok
  BY <1>1, IoSet DEF InitHost
<1>3. PICK p \in [Plugins -> PluginType] : p = plugin
  BY <1>1
<1>4. PICK f \in 0 .. MaxPlugins : f = fst
  BY <1>1
<1>5. CASE /\ pc' = "gone"
           /\ plugin' = [k \in Plugins |->
                           IF k = f THEN [p[k] EXCEPT !.state = "closed"] ELSE p[k]]
  <2>1. \A g \in PluginType : [g EXCEPT !.state = "closed"] \in PluginType
    BY DEF PluginType
  <2>2. \A k \in Plugins : (IF k = f THEN [p[k] EXCEPT !.state = "closed"] ELSE p[k]) \in PluginType
    BY <2>1
  <2>3. plugin' \in [Plugins -> PluginType]
    BY <1>5, <2>2
  <2> QED
    BY <1>2, <1>5, <2>3
<1>6. CASE /\ f # 0 /\ pc' = "idle"
           /\ plugin' = [p EXCEPT ![f].state = IF opt.bypassed THEN @ ELSE "running"]
  <2>1. f \in Plugins
    BY <1>6 DEF Plugins, StateFileAssumption
  <2>2. CASE opt.bypassed
    <3>1. plugin' = [p EXCEPT ![f].state = p[f].state]
      BY <1>6, <2>1, <2>2
    <3>2. plugin' = p
      BY ONLY <2>1, <3>1, p \in [Plugins -> PluginType] DEF PluginType
    <3> QED
      BY ONLY <1>1, <1>2, <1>3, <1>4, <1>6, <2>1, <2>2, <3>2 DEF SamePrograms
  <2>3. CASE ~opt.bypassed
    <3>1. plugin' = [p EXCEPT ![f].state = "running"]
      BY <1>6, <2>1, <2>3
    <3>2. /\ plugin' \in [Plugins -> PluginType] /\ SamePrograms(plugin', p)
          /\ \A j \in Plugins : plugin'[j].state = IF j = f THEN "running" ELSE p[j].state
      BY <2>1, <3>1, StateSet
    <3> QED
      BY ONLY <1>1, <1>2, <1>3, <1>4, <1>6, <2>1, <2>3, <3>2
  <2> QED
    BY <2>2, <2>3
<1> QED
  BY <1>3, <1>4, <1>5, <1>6 DEF InitHost

LEMMA CloseEffect ==
  ASSUME StateFileAssumption, Types, Close
  PROVE  plugin' \in [Plugins -> PluginType]
<1>1. plugin \in [Plugins -> PluginType] /\ fst \in Plugins
  BY DEF Types, Close, StateFileAssumption, Plugins
<1>2. PICK p \in [Plugins -> PluginType] : p = plugin
  BY <1>1
<1>3. PICK f \in Plugins : f = fst
  BY <1>1
<1>4. plugin' = [p EXCEPT ![f].state = "closed"]
  BY <1>2, <1>3 DEF Close
<1> QED
  BY <1>4, StateSet

(* The event thread changes only what an FST takes for the program.         *)
LEMMA NoticeEffect ==
  ASSUME StateFileAssumption, Types, NoticeProgram
  PROVE  /\ plugin' \in [Plugins -> PluginType]
         /\ \A j \in Plugins : /\ plugin'[j].state = plugin[j].state
                               /\ plugin'[j].prog = plugin[j].prog
                               /\ plugin'[j].data = plugin[j].data
                               /\ Noticed(plugin[j]) => Noticed(plugin'[j])
<1>1. PICK p \in [Plugins -> PluginType] : p = plugin
  BY DEF Types
<1>2. PICK k \in Plugins : plugin' = [p EXCEPT ![k].current = p[k].prog]
  BY <1>1 DEF NoticeProgram
<1>3. PICK f \in PluginType : f = p[k]
  OBVIOUS
<1>4. PICK g : g = [f EXCEPT !.current = f.prog]
  OBVIOUS
<1>5. /\ g \in PluginType /\ g.state = f.state /\ g.prog = f.prog /\ g.data = f.data
      /\ Noticed(g)
  BY <1>4 DEF PluginType, Noticed
<1>6. plugin' = [p EXCEPT ![k] = g]
  BY <1>2, <1>3, <1>4
<1>7. plugin' \in [Plugins -> PluginType]
  BY <1>5, <1>6
<1>8. \A j \in Plugins : plugin'[j] = IF j = k THEN g ELSE p[j]
  BY <1>6
<1> QED
  BY <1>1, <1>3, <1>5, <1>7, <1>8

(* A host begins without a plugin, in its first session and in every other. *)
LEMMA StartEffect ==
  ASSUME StateFileAssumption, NEW o \in Opts
  PROVE  /\ JfstNew(o) \in JfstType
         /\ [k \in Plugins |-> Unopened] \in [Plugins -> PluginType]
         /\ Unopened \in PluginType
         /\ \A k \in Plugins : [j \in Plugins |-> Unopened][k].state = "none"
         /\ [doc |-> <<>>, pos |-> 0, ok |-> TRUE, start |-> TRUE] \in IoType
<1>1. <<>> \in Seq(Elements)
  OBVIOUS
<1>2. [doc |-> <<>>, pos |-> 0, ok |-> TRUE, start |-> TRUE] \in IoType
  BY <1>1 DEF IoType
<1>3. Unopened.state = "none"
  BY DEF Unopened
<1> QED
  BY <1>2, <1>3, JfstNewType, UnopenedType

LEMMA TypesInit == StateFileAssumption /\ Init => Types
<1> SUFFICES ASSUME StateFileAssumption, Init
             PROVE  Types
  OBVIOUS
<1>1. PICK o \in Opts : o = opt
  BY DEF Init
<1>2. /\ JfstNew(o) \in JfstType
      /\ [k \in Plugins |-> Unopened] \in [Plugins -> PluginType]
      /\ Unopened \in PluginType
      /\ [doc |-> <<>>, pos |-> 0, ok |-> TRUE, start |-> TRUE] \in IoType
  BY StartEffect
<1>3. jfst \in JfstType /\ plugin \in [Plugins -> PluginType] /\ io \in IoType
  BY <1>1, <1>2 DEF Init
<1>4. fst \in 0 .. MaxPlugins
  BY DEF Init, StateFileAssumption
<1>5. file \in Seq(Elements) /\ io.pos <= Len(file) + 1
  <2>1. file \in Seq(Elements) /\ io.pos = 0
    BY DEF Init, StateFileAssumption
  <2>2. Len(file) \in Nat
    BY <2>1, LenProperties
  <2> QED
    BY <2>1, <2>2
<1>6. was \in [jfst : JfstType, plugin : PluginType]
  BY <1>2, <1>3 DEF Init
<1>7. before \in [jfst : JfstType, plugin : [Plugins -> PluginType]]
  BY <1>3 DEF Init
<1> QED
  BY <1>3, <1>4, <1>5, <1>6, <1>7 DEF Init, Types

LEMMA TypesNext == StateFileAssumption /\ Types /\ Phases /\ [Next]_vars => Types'
<1> SUFFICES ASSUME StateFileAssumption, Types, Phases, [Next]_vars
             PROVE  Types'
  OBVIOUS
<1>0. /\ jfst \in JfstType /\ fst \in 0 .. MaxPlugins /\ plugin \in [Plugins -> PluginType]
      /\ file \in Seq(Elements) /\ io \in IoType /\ io.pos <= Len(file) + 1
      /\ io.pos \in Nat /\ Len(file) \in Nat
      /\ opt \in Opts
      /\ was \in [jfst : JfstType, plugin : PluginType]
      /\ before \in [jfst : JfstType, plugin : [Plugins -> PluginType]]
      /\ clean \in BOOLEAN /\ good \in BOOLEAN /\ swapped \in BOOLEAN
  BY LenProperties DEF Types, IoType
<1>1. CASE LoadPlugin
  <2>1. fst' \in 0 .. MaxPlugins /\ plugin' \in [Plugins -> PluginType]
    <3>1. CASE opt.path
      BY <3>1, <1>1, OpenEffect DEF LoadPlugin
    <3>2. CASE ~opt.path
      BY <3>2, <1>1, <1>0 DEF LoadPlugin
    <3> QED
      BY <3>1, <3>2
  <2>2. pc' \in {"loadstate", "init", "idle"} /\ io' \in IoType /\ io'.pos = io.pos
    <3>1. CASE opt.state
      BY <3>1, <1>1, <1>0 DEF LoadPlugin
    <3>2. CASE ~opt.state
      BY <3>2, <1>1, FinishEffect DEF LoadPlugin
    <3> QED
      BY <3>1, <3>2
  <2> QED
    BY <2>1, <2>2, <1>0, <1>1 DEF LoadPlugin, Types, hist
<1>2. CASE InitHost
  <2>1. /\ plugin' \in [Plugins -> PluginType] /\ io' \in IoType /\ io'.pos = io.pos
        /\ pc' \in {"gone", "idle"}
    BY <1>2, InitHostEffect
  <2> QED
    BY <2>1, <1>0, <1>2 DEF InitHost, Types, hist
<1>3. CASE Close
  <2>1. plugin' \in [Plugins -> PluginType]
    BY <1>3, CloseEffect
  <2> QED
    BY <2>1, <1>0, <1>3 DEF Close, Types, hist
<1>4. CASE Restart
  <2>1. PICK o \in Opts : opt' = o /\ jfst' = JfstNew(o)
    BY <1>4 DEF Restart
  <2>2. /\ JfstNew(o) \in JfstType
        /\ [k \in Plugins |-> Unopened] \in [Plugins -> PluginType]
        /\ [doc |-> <<>>, pos |-> 0, ok |-> TRUE, start |-> TRUE] \in IoType
    BY StartEffect
  <2>3. jfst' \in JfstType /\ plugin' \in [Plugins -> PluginType] /\ io' \in IoType /\ io'.pos = 0
    BY <2>1, <2>2, <1>4 DEF Restart
  <2>4. fst' = 0 /\ 0 \in 0 .. MaxPlugins
    BY <1>4 DEF Restart, StateFileAssumption
  <2>5. /\ opt' \in Opts /\ pc' = "new" /\ clean' = FALSE /\ swapped' = FALSE
        /\ file' = file /\ was' = was /\ before' = before /\ good' = good
    BY <2>1, <1>4 DEF Restart
  <2>6. fst' \in 0 .. MaxPlugins /\ io'.pos <= Len(file') + 1
    BY <2>3, <2>4, <2>5, <1>0
  <2> QED
    BY <2>3, <2>5, <2>6, <1>0 DEF Types
<1>5. CASE Crash
  BY <1>5, <1>0 DEF Crash, Types, host, hist
<1>6. CASE BeginSave
  <2>1. /\ io' \in IoType /\ io'.pos = 0
        /\ was' \in [jfst : JfstType, plugin : PluginType]
    BY <1>6, BeginSaveEffect
  <2>2. file' \in Seq(Elements) /\ Len(file') \in Nat
    <3>1. file' = <<>>
      BY <1>6 DEF BeginSave
    <3> QED
      BY <3>1, EmptySeq
  <2>3. /\ pc' = "program" /\ clean' = TRUE /\ good' = FALSE
        /\ jfst' = jfst /\ fst' = fst /\ plugin' = plugin
        /\ opt' = opt /\ before' = before /\ swapped' = swapped
    BY <1>6 DEF BeginSave, host
  <2>4. io'.pos <= Len(file') + 1
    BY <2>1, <2>2
  <2> QED
    BY <2>1, <2>2, <2>3, <2>4, <1>0 DEF Types
<1>7. CASE SaveProgram
  <2>1. /\ io' \in IoType /\ io'.pos = io.pos /\ pc' = "content"
        /\ was' \in [jfst : JfstType, plugin : PluginType]
    BY <1>7, SaveProgramEffect DEF SaveProgram
  <2>2. /\ jfst' = jfst /\ fst' = fst /\ plugin' = plugin /\ file' = file /\ opt' = opt
        /\ before' = before /\ clean' = clean /\ good' = good /\ swapped' = swapped
    BY <1>7 DEF SaveProgram, host
  <2> QED
    BY <2>1, <2>2, <1>0 DEF Types
<1>8. CASE SaveContent
  <2>1. /\ pc' \in {"init", "idle"} /\ io' \in IoType /\ io'.pos = io.pos
        /\ file' \in Seq(Elements)
        /\ good' = clean \/ good' = good
    BY <1>8, SaveContentEffect
  <2>2. io.pos <= Len(file') + 1
    <3>1. Len(file') \in Nat
      BY <2>1, LenProperties
    <3>2. CASE file' = file
      BY <3>2, <1>0
    <3>3. CASE file' # file
      <4>1. file' = io.doc \o << Content(plugin[fst]) >>
        BY <3>3, <1>8, SaveContentEffect
      <4>2. io.pos = 0
        BY <1>8 DEF SaveContent, Phases
      <4> QED
        BY <4>2, <3>1
    <3> QED
      BY <3>2, <3>3
  <2>3. /\ jfst' = jfst /\ fst' = fst /\ plugin' = plugin /\ opt' = opt /\ was' = was
        /\ before' = before /\ clean' = clean /\ swapped' = swapped
    BY <1>8 DEF SaveContent, host
  <2> QED
    BY <2>1, <2>2, <2>3, <1>0 DEF Types
<1>9. CASE BeginLoad
  <2>1. /\ io' \in IoType /\ io'.pos = 1
        /\ fst' \in 0 .. MaxPlugins /\ plugin' \in [Plugins -> PluginType]
        /\ before' \in [jfst : JfstType, plugin : [Plugins -> PluginType]]
    BY <1>9, BeginLoadEffect
  <2>2. /\ pc' \in {"failed", "load"} /\ clean' = TRUE
        /\ jfst' = jfst /\ file' = file /\ opt' = opt /\ was' = was /\ good' = good
        /\ swapped' = swapped
    BY <1>9 DEF BeginLoad
  <2> QED
    BY <2>1, <2>2, <1>0 DEF Types
<1>10. CASE LoadElement
  <2>1. /\ jfst' \in JfstType /\ plugin' \in [Plugins -> PluginType] /\ io' \in IoType
        /\ pc' \in {"init", "idle", "load"}
        /\ io.pos \in 1 .. Len(file)
        /\ io'.pos = io.pos \/ io'.pos = io.pos + 1
    BY <1>10, LoadElementEffect
  <2>2. /\ fst' = fst /\ file' = file /\ opt' = opt /\ was' = was /\ before' = before
        /\ clean' = clean /\ good' = good /\ swapped' = swapped
    BY <1>10 DEF LoadElement, hist
  <2>3. io'.pos <= Len(file') + 1
    BY <2>1, <2>2, <1>0
  <2> QED
    BY <2>1, <2>2, <2>3, <1>0 DEF Types
<1>11. CASE Loaded
  <2>1. \E ok \in BOOLEAN : Finish(ok)
    BY <1>11 DEF Loaded
  <2>2. pc' \in {"init", "idle"} /\ io' \in IoType /\ io'.pos = io.pos
    BY <2>1, FinishEffect
  <2> QED
    BY <2>2, <1>0, <1>11 DEF Loaded, Types, host, hist
<1>12. CASE LoadFx
  <2>1. \E ok \in BOOLEAN : Finish(ok)
    <3>1. CASE LoadOpen /\ (\E ok \in BOOLEAN : Finish(ok /\ fst' # 0))
      <4>1. PICK ok \in BOOLEAN : Finish(ok /\ fst' # 0)
        BY <3>1
      <4>2. PICK b \in BOOLEAN : b = (ok /\ fst' # 0)
        OBVIOUS
      <4> QED
        BY <4>1, <4>2
    <3>2. CASE Finish(FALSE)
      BY <3>2
    <3> QED
      BY <1>12, <3>1, <3>2 DEF LoadFx
  <2>2. pc' \in {"init", "idle"} /\ io' \in IoType /\ io'.pos = io.pos
    BY <2>1, FinishEffect
  <2>3. fst' \in 0 .. MaxPlugins /\ plugin' \in [Plugins -> PluginType]
    <3>1. CASE LoadOpen
      BY <3>1, OpenEffect
    <3>2. CASE fst' = fst /\ plugin' = plugin
      BY <3>2, <1>0
    <3> QED
      BY <1>12, <3>1, <3>2 DEF LoadFx
  <2>4. /\ swapped' = TRUE /\ clean' = FALSE /\ jfst' = jfst /\ file' = file /\ opt' = opt
        /\ was' = was /\ before' = before /\ good' = good
    BY <1>12 DEF LoadFx
  <2> QED
    BY <2>2, <2>3, <2>4, <1>0 DEF Types
<1>13. CASE Edit
  <2>1. jfst' \in JfstType /\ plugin' \in [Plugins -> PluginType]
    BY <1>13, EditEffect
  <2>2. /\ clean' = FALSE /\ fst' = fst /\ file' = file /\ pc' = pc /\ io' = io /\ opt' = opt
        /\ was' = was /\ before' = before /\ good' = good /\ swapped' = swapped
    BY <1>13 DEF Edit
  <2> QED
    BY <2>1, <2>2 DEF Types
<1>15. CASE NoticeProgram
  <2>1. plugin' \in [Plugins -> PluginType]
    BY <1>15, NoticeEffect
  <2> QED
    BY <2>1, <1>15 DEF NoticeProgram, Types, hist
<1>14. CASE UNCHANGED vars
  BY <1>14 DEF vars, Types, host, hist
<1> QED
  BY <1>1, <1>2, <1>3, <1>4, <1>5, <1>6, <1>7, <1>8, <1>9, <1>10, <1>11, <1>12, <1>13, <1>14, <1>15
     DEF Next

LEMMA PhasesNext == StateFileAssumption /\ Types /\ Phases /\ Opened /\ [Next]_vars => Phases'
<1> SUFFICES ASSUME StateFileAssumption, Types, Phases, Opened, [Next]_vars
             PROVE  Phases'
  OBVIOUS
<1>0. io.start \in BOOLEAN /\ io \in IoType
  BY DEF Types, IoType
<1>1. CASE LoadPlugin
  <2>1. \/ pc' = "loadstate" /\ io' = io
        \/ pc' = "init" /\ io'.start = io.start
    <3>1. CASE opt.state
      BY <3>1, <1>1 DEF LoadPlugin
    <3>2. CASE ~opt.state
      BY <3>2, <1>1, FinishEffect DEF LoadPlugin, Phases
    <3> QED
      BY <3>1, <3>2
  <2>2. io.start
    BY <1>1 DEF LoadPlugin, Phases
  <2> QED
    BY <2>1, <2>2 DEF Phases
<1>2. CASE InitHost
  <2>1. io'.start = FALSE /\ pc' \in {"gone", "idle"}
    BY <1>2, InitHostEffect
  <2> QED
    BY <2>1 DEF Phases
<1>3. CASE Close
  BY <1>3, <1>0 DEF Close, Phases, hist
<1>4. CASE Restart
  BY <1>4 DEF Restart, Phases
<1>5. CASE Crash
  <2>1. ~io.start /\ pc = "idle" /\ fst = 0
    BY <1>5, <1>0 DEF Crash, Phases
  <2>2. swapped
    BY <2>1 DEF Opened
  <2>3. pc' = "crashed" /\ io' = io /\ swapped' = swapped
    BY <1>5 DEF Crash
  <2> QED
    BY <2>1, <2>2, <2>3 DEF Phases
<1>6. CASE BeginSave
  <2>1. io'.pos = 0 /\ io'.start = io.start
    BY <1>6, BeginSaveEffect
  <2> QED
    BY <2>1, <1>6 DEF BeginSave, Phases, host
<1>7. CASE SaveProgram
  <2>1. io'.pos = io.pos /\ io'.start = io.start
    BY <1>7, SaveProgramEffect
  <2> QED
    BY <2>1, <1>7 DEF SaveProgram, Phases, host, hist
<1>8. CASE SaveContent
  <2>1. pc' \in {"init", "idle"} /\ (pc' = "init" <=> io.start) /\ io'.start = io.start
    BY <1>8, SaveContentEffect
  <2> QED
    BY <2>1, <1>8 DEF SaveContent, Phases, host
<1>9. CASE BeginLoad
  <2>1. io'.pos = 1 /\ io'.start = io.start
    BY <1>9, BeginLoadEffect
  <2>2. pc' = "failed" \/ (pc' = "load" /\ fst' # 0)
    <3>1. pc' = IF file = <<>> \/ fst' = 0 THEN "failed" ELSE "load"
      BY <1>9 DEF BeginLoad
    <3>2. CASE file = <<>> \/ fst' = 0
      BY <3>1, <3>2
    <3>3. CASE ~(file = <<>> \/ fst' = 0)
      BY <3>1, <3>3, Zenon
    <3> QED
      BY <3>2, <3>3
  <2> QED
    BY <2>1, <2>2, <1>9 DEF BeginLoad, Phases
<1>10. CASE LoadElement
  <2>1. /\ io'.start = io.start
        /\ \/ pc' \in {"init", "idle"} /\ (pc' = "init" <=> io.start)
           \/ pc' = "load" /\ io'.pos = io.pos + 1
    BY <1>10, LoadElementEffect
  <2>2. fst' = fst /\ fst # 0 /\ io.pos \in Nat /\ io.pos > 0
    BY <1>10, <1>0 DEF LoadElement, Phases, IoType
  <2> QED
    BY <2>1, <2>2 DEF Phases
<1>11. CASE Loaded
  <2>1. \E ok \in BOOLEAN : Finish(ok)
    BY <1>11 DEF Loaded
  <2>2. pc' \in {"init", "idle"} /\ (pc' = "init" <=> io.start) /\ io'.start = io.start
    BY <2>1, FinishEffect
  <2> QED
    BY <2>2 DEF Phases
<1>12. CASE LoadFx
  <2>1. PICK ok \in BOOLEAN : Finish(ok)
    <3>1. CASE LoadOpen /\ (\E ok \in BOOLEAN : Finish(ok /\ fst' # 0))
      <4>1. PICK ok \in BOOLEAN : Finish(ok /\ fst' # 0)
        BY <3>1
      <4>2. PICK b \in BOOLEAN : b = (ok /\ fst' # 0)
        OBVIOUS
      <4> QED
        BY <4>1, <4>2
    <3>2. CASE Finish(FALSE)
      BY <3>2
    <3> QED
      BY <1>12, <3>1, <3>2 DEF LoadFx
  <2>2. pc' \in {"init", "idle"} /\ (pc' = "init" <=> io.start) /\ io'.start = io.start
    BY <2>1, FinishEffect
  <2> QED
    BY <2>2 DEF Phases
<1>13. CASE Edit
  BY <1>13 DEF Edit, Phases
<1>15. CASE NoticeProgram
  BY <1>15 DEF NoticeProgram, Phases, hist
<1>14. CASE UNCHANGED vars
  BY <1>14 DEF vars, Phases, host, hist
<1> QED
  BY <1>1, <1>2, <1>3, <1>4, <1>5, <1>6, <1>7, <1>8, <1>9, <1>10, <1>11, <1>12, <1>13, <1>14, <1>15
     DEF Next

LEMMA OpenedNext == StateFileAssumption /\ Types /\ Phases /\ Opened /\ [Next]_vars => Opened'
<1> SUFFICES ASSUME StateFileAssumption, Types, Phases, Opened, [Next]_vars,
                    ~swapped', pc' \notin {"gone", "crashed"}
             PROVE  /\ ~io'.start => fst' # 0
                    /\ \A k \in Plugins :
                         plugin'[k].state = IF k # fst' THEN "none"
                                            ELSE IF io'.start \/ opt'.bypassed THEN "open"
                                            ELSE "running"
  BY DEF Opened
<1>0. 0 \notin Plugins
  BY DEF Plugins
<1>1. CASE LoadPlugin
  <2>0. fst = 0 /\ io.start /\ \A k \in Plugins : plugin[k].state = "none"
    BY <1>1, <1>0 DEF LoadPlugin, Phases, Opened
  <2>1. \A j \in Plugins : plugin'[j].state = IF j = fst' THEN "open" ELSE "none"
    <3>1. CASE opt.path
      <4>1. LoadOpen
        BY <1>1, <3>1 DEF LoadPlugin
      <4>2. CASE fst' = 0
        BY <4>1, <4>2, <2>0, <1>0, OpenEffect
      <4>3. CASE fst' # 0
        BY <4>1, <4>3, <2>0, OpenEffect
      <4> QED
        BY <4>2, <4>3
    <3>2. CASE ~opt.path
      BY <3>2, <1>1, <1>0, <2>0 DEF LoadPlugin
    <3> QED
      BY <3>1, <3>2
  <2>2. io'.start = io.start
    <3>1. CASE opt.state
      BY <3>1, <1>1 DEF LoadPlugin
    <3>2. CASE ~opt.state
      BY <3>2, <1>1, FinishEffect DEF LoadPlugin
    <3> QED
      BY <3>1, <3>2
  <2> QED
    BY <2>0, <2>1, <2>2
<1>2. CASE InitHost
  <2>1. /\ io'.start = FALSE /\ fst \in Plugins /\ fst' = fst
        /\ opt' = opt /\ io.start
        /\ \A j \in Plugins : plugin'[j].state = IF j # fst THEN plugin[j].state
                                                ELSE IF opt.bypassed THEN plugin[fst].state
                                                ELSE "running"
    BY <1>2, InitHostEffect DEF InitHost, Phases
  <2>2. \A j \in Plugins : plugin[j].state = IF j # fst THEN "none" ELSE "open"
    BY <2>1, <1>2 DEF InitHost, Opened
  <2> QED
    BY <2>1, <2>2, <1>0
<1>3. CASE Close
  BY <1>3 DEF Close
<1>4. CASE Restart
  <2>1. fst' = 0 /\ plugin' = [k \in Plugins |-> Unopened] /\ io'.start
    BY <1>4 DEF Restart
  <2>2. Unopened.state = "none"
    BY DEF Unopened
  <2> QED
    BY <2>1, <2>2, <1>0
<1>5. CASE Crash
  BY <1>5 DEF Crash
<1>6. CASE BeginSave
  <2>1. io'.start = io.start
    BY <1>6, BeginSaveEffect
  <2> QED
    BY <2>1, <1>6 DEF BeginSave, Opened, host
<1>7. CASE SaveProgram
  <2>1. io'.start = io.start
    BY <1>7, SaveProgramEffect
  <2>2. /\ fst' = fst /\ plugin' = plugin /\ opt' = opt /\ swapped' = swapped
        /\ pc = "program"
    BY <1>7 DEF SaveProgram, host
  <2> QED
    BY <2>1, <2>2 DEF Opened
<1>8. CASE SaveContent
  <2>1. io'.start = io.start
    BY <1>8, SaveContentEffect
  <2> QED
    BY <2>1, <1>8 DEF SaveContent, Opened, host
<1>9. CASE BeginLoad
  <2>1. io'.start = io.start /\ pc \in {"idle", "loadstate"} /\ ~swapped /\ opt' = opt
    BY <1>9, BeginLoadEffect DEF BeginLoad
  <2>2. CASE fst' = fst /\ plugin' = plugin
    BY <2>1, <2>2 DEF Opened
  <2>3. CASE fst' # fst
    <3>1. /\ fst = 0 /\ fst' # 0
          /\ \A j \in Plugins : plugin'[j].state = IF j = fst' THEN "open" ELSE plugin[j].state
      BY <2>3, <1>9, BeginLoadEffect
    <3>2. io.start /\ \A j \in Plugins : plugin[j].state = "none"
      BY <3>1, <2>1, <1>0 DEF Opened
    <3> QED
      BY <3>1, <3>2, <2>1
  <2>4. CASE fst' = fst /\ plugin' # plugin
    BY <2>4, <1>9, BeginLoadEffect
  <2> QED
    BY <2>2, <2>3, <2>4
<1>10. CASE LoadElement
  <2>1. io'.start = io.start /\ \A j \in Plugins : plugin'[j].state = plugin[j].state
    BY <1>10, LoadElementEffect
  <2> QED
    BY <2>1, <1>10 DEF LoadElement, Opened, hist
<1>11. CASE Loaded
  <2>1. \E ok \in BOOLEAN : Finish(ok)
    BY <1>11 DEF Loaded
  <2>2. io'.start = io.start
    BY <2>1, FinishEffect
  <2> QED
    BY <2>2, <1>11 DEF Loaded, Opened, host, hist
<1>12. CASE LoadFx
  BY <1>12 DEF LoadFx
<1>13. CASE Edit
  <2>1. \A j \in Plugins : plugin'[j].state = plugin[j].state
    BY <1>13, EditEffect
  <2> QED
    BY <2>1, <1>13 DEF Edit, Opened
<1>15. CASE NoticeProgram
  <2>1. \A j \in Plugins : plugin'[j].state = plugin[j].state
    BY <1>15, NoticeEffect
  <2> QED
    BY <2>1, <1>15 DEF NoticeProgram, Opened
<1>14. CASE UNCHANGED vars
  BY <1>14 DEF vars, Opened, host, hist
<1> QED
  BY <1>1, <1>2, <1>3, <1>4, <1>5, <1>6, <1>7, <1>8, <1>9, <1>10, <1>11, <1>12, <1>13, <1>14, <1>15
     DEF Next

LEMMA SavingNext ==
  StateFileAssumption /\ Types /\ Phases /\ Saving /\ [Next]_vars => Saving'
<1> SUFFICES ASSUME StateFileAssumption, Types, Phases, Saving, [Next]_vars,
                    pc' \in {"program", "content"}, clean'
             PROVE  /\ jfst' = was'.jfst
                    /\ io'.doc = IF pc' = "program" THEN Settings(was'.jfst)
                                ELSE Settings(was'.jfst) \o << Program(was'.plugin) >>
                    /\ pc' = "content" => /\ plugin'[fst'].prog = was'.plugin.prog
                                          /\ plugin'[fst'].data = was'.plugin.data
  BY DEF Saving
<1>1. CASE BeginSave
  <2>1. io'.doc = Settings(jfst) /\ was'.jfst = jfst
    BY <1>1, BeginSaveEffect
  <2>2. jfst' = jfst /\ plugin' = plugin /\ fst' = fst /\ pc' = "program"
    BY <1>1 DEF BeginSave, host
  <2> QED
    BY <2>1, <2>2
<1>2. CASE SaveProgram
  <2>1. /\ io'.doc = io.doc \o << Program(plugin[fst]) >>
        /\ was'.jfst = was.jfst /\ was'.plugin = plugin[fst]
    BY <1>2, SaveProgramEffect
  <2>2. /\ jfst' = jfst /\ plugin' = plugin /\ fst' = fst /\ clean' = clean
        /\ pc = "program" /\ pc' = "content"
    BY <1>2 DEF SaveProgram, host
  <2>3. jfst = was.jfst /\ io.doc = Settings(was.jfst)
    BY <2>2 DEF Saving
  <2>4. /\ io'.doc = Settings(was'.jfst) \o << Program(was'.plugin) >>
        /\ plugin'[fst'].prog = was'.plugin.prog /\ plugin'[fst'].data = was'.plugin.data
    BY <2>1, <2>2, <2>3
  <2> QED
    BY <2>1, <2>2, <2>3, <2>4
<1>3. CASE SaveContent
  BY <1>3, SaveContentEffect
<1>4. CASE UNCHANGED vars
  <2>1. /\ jfst' = jfst /\ plugin' = plugin /\ fst' = fst /\ was' = was /\ clean' = clean
        /\ pc' = pc /\ io' = io
    BY <1>4 DEF vars, host, hist
  <2> QED
    BY <2>1 DEF Saving
<1>11. CASE NoticeProgram
  <2>1. /\ jfst' = jfst /\ fst' = fst /\ was' = was /\ clean' = clean
        /\ pc' = pc /\ io' = io
    BY <1>11 DEF NoticeProgram, hist
  <2>2. fst \in Plugins
    BY <2>1 DEF Types, Phases, Plugins, StateFileAssumption
  <2>3. plugin'[fst].prog = plugin[fst].prog /\ plugin'[fst].data = plugin[fst].data
    BY <2>2, <1>11, NoticeEffect
  <2> QED
    BY <2>1, <2>3 DEF Saving
<1>5. CASE Edit
  BY <1>5 DEF Edit
<1>6. CASE LoadPlugin
  <2>1. pc' = "loadstate" \/ pc' = "init" \/ pc' = "idle"
    BY <1>6 DEF LoadPlugin, Finish
  <2> QED
    BY <2>1
<1>7. CASE InitHost \/ Close \/ Restart \/ Crash
  <2>1. pc' \in {"gone", "idle", "new", "crashed"}
    BY <1>7 DEF InitHost, Close, Restart, Crash
  <2> QED
    BY <2>1
<1>8. CASE BeginLoad
  BY <1>8 DEF BeginLoad
<1>9. CASE LoadElement
  BY <1>9, LoadElementEffect
<1>10. CASE Loaded \/ LoadFx
  <2>1. pc' = "init" \/ pc' = "idle"
    BY <1>10 DEF Loaded, LoadFx, Finish
  <2> QED
    BY <2>1
<1> QED
  BY <1>1, <1>2, <1>3, <1>4, <1>5, <1>6, <1>7, <1>8, <1>9, <1>10, <1>11 DEF Next

LEMMA SavedNext ==
  StateFileAssumption /\ Types /\ Phases /\ Saving /\ Saved /\ [Next]_vars => Saved'
<1> SUFFICES ASSUME StateFileAssumption, Types, Phases, Saving, Saved, [Next]_vars
             PROVE  Saved'
  OBVIOUS
<1>1. CASE file' = file /\ was' = was /\ good' = good /\ opt'.chunks = opt.chunks
  BY <1>1 DEF Saved, Whole, Content
<1>2. CASE good' = FALSE
  BY <1>2 DEF Saved
<1>3. CASE SaveContent
  <2>1. \/ file' = io.doc \o << Content(plugin[fst]) >> /\ good' = clean
        \/ file' = file /\ good' = good
    BY <1>3, SaveContentEffect
  <2>2. was' = was /\ opt' = opt
    BY <1>3 DEF SaveContent
  <2>3. CASE file' = io.doc \o << Content(plugin[fst]) >> /\ good' = clean
    <3>1. CASE clean
      <4>1. /\ io.doc = Settings(was.jfst) \o << Program(was.plugin) >>
            /\ plugin[fst].prog = was.plugin.prog /\ plugin[fst].data = was.plugin.data
        BY <3>1, <1>3 DEF Saving, SaveContent
      <4>2. Content(plugin[fst]) = Content(was.plugin)
        BY <4>1 DEF Content
      <4>3. file' = Whole(was.jfst, was.plugin)
        BY <4>1, <4>2, <2>3 DEF Whole
      <4> QED
        BY <4>3, <2>2 DEF Saved, Whole, Content
    <3>2. CASE ~clean
      BY <3>2, <2>3 DEF Saved
    <3> QED
      BY <3>1, <3>2
  <2>4. CASE file' = file /\ good' = good
    BY <2>2, <2>4, <1>1
  <2> QED
    BY <2>1, <2>3, <2>4
<1>4. CASE BeginSave
  BY <1>4, <1>2 DEF BeginSave
<1>5. CASE Restart
  BY <1>5, <1>1 DEF Restart
<1>9. CASE SaveProgram
  BY <1>9, <1>2 DEF SaveProgram, Phases, Types
<1>6. CASE LoadPlugin \/ InitHost \/ Close \/ Crash \/ LoadElement \/ Loaded \/ NoticeProgram
  BY <1>6, <1>1 DEF LoadPlugin, InitHost, Close, Crash, LoadElement, Loaded, NoticeProgram, hist
<1>7. CASE BeginLoad \/ LoadFx \/ Edit
  BY <1>7, <1>1 DEF BeginLoad, LoadFx, Edit
<1>8. CASE UNCHANGED vars
  BY <1>8, <1>1 DEF vars, hist
<1> QED
  BY <1>3, <1>4, <1>5, <1>6, <1>7, <1>8, <1>9 DEF Next

(* The element that another plugin's file begins with changes nothing.      *)
LEMMA CheckFails ==
  ASSUME NEW s, NEW f, NEW e, e = <<"check", FALSE>>
  PROVE  Fails(e) /\ Set(s, e) = s /\ Play(f, e) = f
<1>1. e[1] = "check"
  BY e = <<"check", FALSE>>
<1>2. Fails(e)
  BY DEF Fails
<1>3. Set(s, e) = s
  BY <1>1 DEF Set
<1>4. Play(f, e) = f
  BY <1>1 DEF Play
<1> QED
  BY <1>2, <1>3, <1>4

LEMMA UntouchedNext ==
  StateFileAssumption /\ Types /\ Phases /\ Untouched /\ [Next]_vars => Untouched'
<1> SUFFICES ASSUME StateFileAssumption, Types, Phases, Untouched, [Next]_vars, clean'
             PROVE  /\ pc' = "load" => /\ file' # <<>>
                                       /\ io'.pos = 1 => Same'
                                       /\ io'.pos > 1 => <<"check", FALSE>> # file'[1]
                    /\ pc' = "failed" => Same'
  BY DEF Untouched
<1>1. CASE BeginLoad
  <2>1. /\ jfst' = jfst /\ before'.jfst = jfst /\ before'.plugin = plugin
        /\ SamePrograms(plugin', plugin) /\ io'.pos = 1 /\ file' = file
    BY <1>1, BeginLoadEffect DEF BeginLoad
  <2>2. Same'
    BY <2>1 DEF Same, SamePrograms
  <2>3. pc' = "load" => file # <<>>
    <3>1. pc' = IF file = <<>> \/ fst' = 0 THEN "failed" ELSE "load"
      BY <1>1 DEF BeginLoad
    <3>2. CASE file = <<>>
      BY <3>1, <3>2
    <3> QED
      BY <3>2
  <2> QED
    BY <2>1, <2>2, <2>3
<1>2. CASE LoadElement
  <2>1. /\ pc = "load" /\ file' = file /\ clean' = clean
    BY <1>2 DEF LoadElement, hist
  <2>a. io.pos \in Nat /\ io.pos > 0
    BY <2>1 DEF Types, IoType, Phases
  <2>2. \/ pc' \in {"init", "idle"}
        \/ ~Fails(file[io.pos]) /\ pc' = "load" /\ io'.pos = io.pos + 1
    BY <1>2, LoadElementEffect
  <2>3. CASE pc' \in {"init", "idle"}
    BY <2>3
  <2>4. CASE ~Fails(file[io.pos]) /\ pc' = "load" /\ io'.pos = io.pos + 1
    <3>1. file # <<>> /\ (io.pos > 1 => <<"check", FALSE>> # file[1])
      BY <2>1 DEF Untouched
    <3>2. io.pos = 1 => <<"check", FALSE>> # file[1]
      BY <2>4 DEF Fails
    <3>a. io.pos = 1 \/ io.pos > 1
      BY <2>a
    <3>3. <<"check", FALSE>> # file[1]
      BY <3>1, <3>2, <3>a
    <3>4. io'.pos # 1
      BY <2>a, <2>4
    <3> QED
      BY <3>1, <3>3, <3>4, <2>1, <2>4
  <2> QED
    BY <2>2, <2>3, <2>4
<1>3. CASE Edit
  BY <1>3 DEF Edit
<1>4. CASE UNCHANGED vars
  <2>1. /\ jfst' = jfst /\ plugin' = plugin /\ before' = before /\ clean' = clean
        /\ pc' = pc /\ io' = io /\ file' = file
    BY <1>4 DEF vars, host, hist
  <2> QED
    BY <2>1 DEF Untouched, Same
<1>8. CASE NoticeProgram
  <2>1. /\ jfst' = jfst /\ before' = before /\ clean' = clean
        /\ pc' = pc /\ io' = io /\ file' = file
    BY <1>8 DEF NoticeProgram, hist
  <2>2. \A j \in Plugins : plugin'[j].prog = plugin[j].prog /\ plugin'[j].data = plugin[j].data
    BY <1>8, NoticeEffect
  <2> QED
    BY <2>1, <2>2 DEF Untouched, Same
<1>5. CASE LoadPlugin \/ Loaded \/ LoadFx
  <2>1. pc' = "loadstate" \/ pc' = "init" \/ pc' = "idle"
    BY <1>5 DEF LoadPlugin, Loaded, LoadFx, Finish
  <2> QED
    BY <2>1
<1>6. CASE InitHost \/ Close \/ Restart \/ Crash \/ BeginSave \/ SaveProgram
  <2>1. pc' \in {"gone", "idle", "new", "crashed", "program", "content"}
    BY <1>6 DEF InitHost, Close, Restart, Crash, BeginSave, SaveProgram
  <2> QED
    BY <2>1
<1>7. CASE SaveContent
  BY <1>7, SaveContentEffect
<1> QED
  BY <1>1, <1>2, <1>3, <1>4, <1>5, <1>6, <1>7, <1>8 DEF Next

LEMMA IgnoredNext ==
  StateFileAssumption /\ Types /\ Phases /\ Untouched /\ Ignored /\ [Next]_vars => Ignored'
<1> SUFFICES ASSUME StateFileAssumption, Types, Phases, Untouched, Ignored, [Next]_vars,
                    pc' \in {"idle", "init"}, clean', io'.pos > 0, Foreign'
             PROVE  ~io'.ok /\ Same'
  BY DEF Ignored
<1>1. CASE LoadElement
  <2>1. /\ pc = "load" /\ file' = file /\ clean /\ before' = before
    BY <1>1 DEF LoadElement, hist
  <2>2. io'.pos = io.pos /\ io'.ok = FALSE /\ fst \in Plugins /\ io.pos \in 1 .. Len(file)
    BY <1>1, LoadElementEffect
  <2>3. file # <<>> /\ file[1] = <<"check", FALSE>>
    BY <2>1 DEF Untouched, Foreign
  <2>4. io.pos = 1
    <3>1. ~(io.pos > 1)
      BY <2>1, <2>3 DEF Untouched
    <3>2. io.pos \in Nat /\ io.pos >= 1
      BY <2>2
    <3> QED
      BY <3>1, <3>2
  <2>5. Same
    BY <2>1, <2>4 DEF Untouched
  <2>6. /\ jfst' = Set(jfst, file[1]) /\ plugin'[fst] = Play(plugin[fst], file[1])
        /\ \A j \in Plugins \ {fst} : plugin'[j] = plugin[j]
    BY <1>1, <2>4, LoadElementEffect
  <2>7. jfst' = jfst /\ plugin'[fst] = plugin[fst]
    <3>1. PICK s : s = jfst
      OBVIOUS
    <3>2. PICK f : f = plugin[fst]
      OBVIOUS
    <3>3. PICK e : e = file[1]
      OBVIOUS
    <3>4. Set(s, e) = s /\ Play(f, e) = f
      BY <3>3, <2>3, CheckFails
    <3> QED
      BY <3>1, <3>2, <3>3, <3>4, <2>6
  <2>8. \A j \in Plugins : plugin'[j] = plugin[j]
    BY <2>6, <2>7
  <2> QED
    BY <2>1, <2>2, <2>5, <2>7, <2>8 DEF Same
<1>2. CASE Loaded
  <2>1. /\ jfst' = jfst /\ plugin' = plugin /\ before' = before /\ clean /\ file' = file
    BY <1>2 DEF Loaded, host, hist
  <2>2. CASE pc = "failed" /\ Finish(FALSE)
    <3>1. Same
      BY <2>1, <2>2 DEF Untouched
    <3>2. io'.ok = FALSE
      <4>1. FALSE \in BOOLEAN
        OBVIOUS
      <4> QED
        BY <4>1, <2>2, FinishEffect
    <3> QED
      BY <3>1, <3>2, <2>1 DEF Same
  <2>3. CASE pc = "load" /\ io.pos > Len(file)
    <3>1. file # <<>> /\ file[1] = <<"check", FALSE>>
      BY <2>1, <2>3 DEF Untouched, Foreign
    <3>2. ~(io.pos > 1)
      BY <2>1, <2>3, <3>1 DEF Untouched
    <3>3. Len(file) \in Nat /\ Len(file) # 0
      BY <3>1, EmptySeq, LenProperties DEF Types
    <3>4. io.pos \in Nat
      BY DEF Types, IoType
    <3> QED
      BY <3>2, <3>3, <3>4, <2>3
  <2> QED
    BY <1>2, <2>2, <2>3 DEF Loaded
<1>3. CASE InitHost
  <2>1. /\ jfst' = jfst /\ before' = before /\ clean /\ file' = file /\ pc = "init"
    BY <1>3 DEF InitHost, hist
  <2>2. io'.ok = io.ok /\ io'.pos = io.pos /\ SamePrograms(plugin', plugin)
    BY <1>3, InitHostEffect
  <2>3. ~io.ok /\ Same
    BY <2>1, <2>2 DEF Ignored, Foreign
  <2> QED
    BY <2>1, <2>2, <2>3 DEF Same, SamePrograms
<1>4. CASE UNCHANGED vars
  <2>1. /\ jfst' = jfst /\ plugin' = plugin /\ before' = before /\ clean' = clean
        /\ pc' = pc /\ io' = io /\ file' = file
    BY <1>4 DEF vars, host, hist
  <2> QED
    BY <2>1 DEF Ignored, Same, Foreign
<1>10. CASE NoticeProgram
  <2>1. /\ jfst' = jfst /\ before' = before /\ clean' = clean
        /\ pc' = pc /\ io' = io /\ file' = file
    BY <1>10 DEF NoticeProgram, hist
  <2>2. \A j \in Plugins : plugin'[j].prog = plugin[j].prog /\ plugin'[j].data = plugin[j].data
    BY <1>10, NoticeEffect
  <2> QED
    BY <2>1, <2>2 DEF Ignored, Same, Foreign
<1>5. CASE LoadPlugin
  BY <1>5 DEF LoadPlugin, Phases, hist
<1>6. CASE Edit \/ LoadFx \/ Restart
  BY <1>6 DEF Edit, LoadFx, Restart
<1>7. CASE SaveContent
  <2>1. io'.pos = 0
    BY <1>7, SaveContentEffect DEF SaveContent, Phases
  <2> QED
    BY <2>1
<1>8. CASE Close \/ Crash \/ BeginSave \/ SaveProgram
  <2>1. pc' \in {"gone", "crashed", "program", "content"}
    BY <1>8 DEF Close, Crash, BeginSave, SaveProgram
  <2> QED
    BY <2>1
<1>9. CASE BeginLoad
  BY <1>9 DEF BeginLoad
<1> QED
  BY <1>1, <1>2, <1>3, <1>4, <1>5, <1>6, <1>7, <1>8, <1>9, <1>10 DEF Next

LEMMA FromStep ==
  ASSUME NEW p \in Int, NEW y \in Int, NEW u, NEW v
  PROVE  /\ p > y => From(p, y, u, v) = u
         /\ p <= y => From(p, y, u, v) = v
         /\ p # y => From(p + 1, y, u, v) = From(p, y, u, v)
         /\ p = y => From(p + 1, y, u, v) = u
BY DEF From

LEMMA LastFacts ==
  ASSUME StateFileAssumption, NEW s \in JfstType
  PROVE  /\ CCs \in Nat /\ Len(s.filters) \in Nat /\ Last(s) = CCs + 5 + Len(s.filters)
         /\ s.filters \in Seq(Filters) /\ s.map \in [1 .. CCs -> None .. 1]
BY LenProperties DEF StateFileAssumption, JfstType, Last

LEMMA MapStep ==
  ASSUME StateFileAssumption, NEW s \in JfstType, NEW b \in JfstType, NEW p \in Nat
  PROVE  /\ p \notin 3 .. CCs + 2 => MapSoFar(p + 1, s, b) = MapSoFar(p, s, b)
         /\ \A cc \in 1 .. CCs : p = cc + 2 =>
              MapSoFar(p + 1, s, b) =
                IF s.map[cc] # None THEN [MapSoFar(p, s, b) EXCEPT ![cc] = s.map[cc]]
                ELSE MapSoFar(p, s, b)
<1>0. CCs \in Nat
  BY DEF StateFileAssumption
<1>1. ASSUME NEW d \in 1 .. CCs, p # d + 2
      PROVE  MapSoFar(p + 1, s, b)[d] = MapSoFar(p, s, b)[d]
  <2>1. From(p + 1, d + 2, s.map[d], b.map[d]) = From(p, d + 2, s.map[d], b.map[d])
    <3>1. PICK u : u = s.map[d]
      OBVIOUS
    <3>2. PICK v : v = b.map[d]
      OBVIOUS
    <3>3. d + 2 \in Int /\ p \in Int
      BY <1>0
    <3> QED
      BY <1>1, <3>1, <3>2, <3>3, FromStep
  <2> QED
    BY <2>1 DEF MapSoFar
<1>2. ASSUME p \notin 3 .. CCs + 2
      PROVE  MapSoFar(p + 1, s, b) = MapSoFar(p, s, b)
  <2>1. \A d \in 1 .. CCs : p # d + 2
    BY <1>0, <1>2
  <2>2. \A d \in 1 .. CCs : MapSoFar(p + 1, s, b)[d] = MapSoFar(p, s, b)[d]
    BY <1>1, <2>1
  <2>m. PICK m : m = MapSoFar(p, s, b)
    OBVIOUS
  <2>n. PICK n : n = MapSoFar(p + 1, s, b)
    OBVIOUS
  <2>3. /\ m = [d \in 1 .. CCs |-> m[d]] /\ n = [d \in 1 .. CCs |-> n[d]]
    BY <2>m, <2>n DEF MapSoFar
  <2>4. \A d \in 1 .. CCs : n[d] = m[d]
    BY <2>2, <2>m, <2>n
  <2>5. n = m
    BY <2>3, <2>4
  <2> QED
    BY <2>5, <2>m, <2>n
<1>3. ASSUME NEW cc \in 1 .. CCs, p = cc + 2
      PROVE  MapSoFar(p + 1, s, b) =
                IF s.map[cc] # None THEN [MapSoFar(p, s, b) EXCEPT ![cc] = s.map[cc]]
                ELSE MapSoFar(p, s, b)
  <2>1. \A d \in 1 .. CCs : d # cc => MapSoFar(p + 1, s, b)[d] = MapSoFar(p, s, b)[d]
    BY <1>0, <1>1, <1>3
  <2>2. s.map[cc] # None => MapSoFar(p + 1, s, b)[cc] = s.map[cc]
    <3>1. From(p + 1, cc + 2, s.map[cc], b.map[cc]) = s.map[cc]
      <4>1. PICK u : u = s.map[cc]
        OBVIOUS
      <4>2. PICK v : v = b.map[cc]
        OBVIOUS
      <4>3. cc + 2 \in Int /\ p \in Int
        BY <1>0
      <4> QED
        BY <1>3, <4>1, <4>2, <4>3, FromStep
    <3> QED
      BY <3>1 DEF MapSoFar
  <2>3. s.map[cc] = None => MapSoFar(p + 1, s, b)[cc] = MapSoFar(p, s, b)[cc]
    BY DEF MapSoFar
  <2>m. PICK m : m = MapSoFar(p, s, b)
    OBVIOUS
  <2>n. PICK n : n = MapSoFar(p + 1, s, b)
    OBVIOUS
  <2>4. /\ m = [d \in 1 .. CCs |-> m[d]] /\ n = [d \in 1 .. CCs |-> n[d]]
    BY <2>m, <2>n DEF MapSoFar
  <2>5. CASE s.map[cc] # None
    <3>1. n = [m EXCEPT ![cc] = s.map[cc]]
      BY <2>1, <2>2, <2>4, <2>5, <2>m, <2>n
    <3> QED
      BY <3>1, <2>5, <2>m, <2>n
  <2>6. CASE s.map[cc] = None
    <3>1. \A d \in 1 .. CCs : n[d] = m[d]
      BY <2>1, <2>3, <2>6, <2>m, <2>n
    <3>2. n = m
      BY <3>1, <2>4
    <3> QED
      BY <3>2, <2>6, <2>m, <2>n
  <2> QED
    BY <2>5, <2>6
<1> QED
  BY <1>2, <1>3

LEMMA FiltersStep ==
  ASSUME StateFileAssumption, NEW s \in JfstType, NEW b \in JfstType, NEW p \in Nat
  PROVE  /\ p \notin CCs + 5 .. CCs + 4 + Len(s.filters) =>
              FiltersSoFar(p + 1, s, b) = FiltersSoFar(p, s, b)
         /\ \A k \in 1 .. Len(s.filters) : p = CCs + 4 + k =>
              FiltersSoFar(p + 1, s, b) =
                IF s.channel = 0 THEN Append(FiltersSoFar(p, s, b), s.filters[k])
                ELSE FiltersSoFar(p, s, b)
<1>0. /\ CCs \in Nat /\ Len(s.filters) \in Nat /\ s.filters \in Seq(Filters)
      /\ b.filters \in Seq(Filters) /\ Last(s) = CCs + 5 + Len(s.filters)
  BY LastFacts
<1>n. PICK n \in Nat : n = Len(s.filters)
  BY <1>0
<1>l. PICK l \in Nat : l = CCs + 5 + n /\ l = Last(s)
  <2>1. CCs \in Nat /\ Last(s) = CCs + 5 + n
    BY <1>0, <1>n
  <2>2. CCs + 5 + n \in Nat
    BY <2>1
  <2> QED
    BY <2>1, <2>2
<1>N. CCs \in Nat
  BY <1>0
<1>r. \A i \in Nat : FiltersRead(i, s) = IF i <= CCs + 5 THEN 0 ELSE IF i > l THEN n ELSE i - CCs - 5
  BY <1>n, <1>l DEF FiltersRead
<1>1. ASSUME p \notin CCs + 5 .. CCs + 4 + Len(s.filters)
      PROVE  FiltersSoFar(p + 1, s, b) = FiltersSoFar(p, s, b)
  <2>1. p < CCs + 5 \/ p >= l
    <3>1. p \notin CCs + 5 .. CCs + 4 + n
      BY <1>1, <1>n
    <3> QED
      BY <3>1, <1>N, <1>l
  <2>2. p + 1 \in Nat
    OBVIOUS
  <2>3. FiltersRead(p + 1, s) = FiltersRead(p, s)
    BY <2>1, <2>2, <1>N, <1>l, <1>r
  <2> QED
    BY <2>3 DEF FiltersSoFar
<1>2. ASSUME NEW k \in 1 .. Len(s.filters), p = CCs + 4 + k
      PROVE  FiltersSoFar(p + 1, s, b) =
                IF s.channel = 0 THEN Append(FiltersSoFar(p, s, b), s.filters[k])
                ELSE FiltersSoFar(p, s, b)
  <2>1. FiltersRead(p, s) = k - 1 /\ FiltersRead(p + 1, s) = k
    <3>1. k \in 1 .. n /\ p + 1 \in Nat
      BY <1>n
    <3> QED
      BY <3>1, <1>2, <1>N, <1>l, <1>r
  <2>2. CASE s.channel = 0
    <3>q. PICK q \in Seq(Filters) : q = s.filters
      BY <1>0
    <3>1. k \in 1 .. Len(q) /\ 1 \in 1 .. Len(q) /\ k \in 1 .. k
      BY <1>0, <3>q
    <3>2. SubSeq(q, 1, k) = SubSeq(q, 1, k - 1) \o << q[k] >>
      <4>1. k \in 1 .. Len(q) /\ 1 \in 1 .. Len(q)
        BY <3>1
      <4> QED
        BY <4>1, SubSeqRecursiveSecond
    <3>3. /\ SubSeq(q, 1, k - 1) \in Seq(Filters) /\ << q[k] >> \in Seq(Filters)
          /\ b.filters \in Seq(Filters) /\ q[k] \in Filters
      <4>1. q[k] \in Filters /\ \A i \in 1 .. k - 1 : q[i] \in Filters
        BY <1>0, <3>q, <3>1, ElementOfSeq
      <4>2. k - 1 \in Int /\ 1 \in Int
        BY <1>0
      <4>3. PICK h \in Int : h = k - 1
        BY <4>2
      <4>4. SubSeq(q, 1, h) \in Seq(Filters)
        BY <4>1, <4>2, <4>3, SubSeqProperties
      <4> QED
        BY <4>1, <4>3, <4>4, <1>0
    <3>x. PICK x \in Seq(Filters) : x = SubSeq(q, 1, k - 1)
      BY <3>3
    <3>e. PICK e \in Filters : e = q[k]
      BY <3>3
    <3>c. PICK c \in Seq(Filters) : c = b.filters
      BY <1>0
    <3>4. c \o (x \o << e >>) = (c \o x) \o << e >>
      <4>1. << e >> \in Seq(Filters)
        OBVIOUS
      <4> QED
        BY <4>1, ConcatAssociative
    <3>5. (c \o x) \o << e >> = Append(c \o x, e)
      <4>1. c \o x \in Seq(Filters)
        BY ConcatProperties
      <4>2. \A y \in Seq(Filters) : y \o << e >> = Append(y, e)
        OBVIOUS
      <4> QED
        BY <4>1, <4>2
    <3>6. FiltersSoFar(p, s, b) = c \o x
      BY <2>1, <2>2, <3>q, <3>x, <3>c DEF FiltersSoFar
    <3>7. FiltersSoFar(p + 1, s, b) = c \o (x \o << e >>)
      BY <2>1, <2>2, <3>q, <3>2, <3>x, <3>e, <3>c DEF FiltersSoFar
    <3> QED
      BY <2>2, <3>4, <3>5, <3>6, <3>7, <3>e, <3>q
  <2>3. CASE s.channel # 0
    BY <2>3 DEF FiltersSoFar
  <2> QED
    BY <2>2, <2>3
<1> QED
  BY <1>1, <1>2

(* A field that an element does not set is what it was, and what it should  *)
(* be, unless the element is the one that sets it.                          *)
Kept(r, j, p, s, b) ==
  /\ r.map = j.map /\ p \notin 3 .. CCs + 2 => r.map = MapSoFar(p + 1, s, b)
  /\ r.channel = j.channel /\ p # CCs + 3 =>
       r.channel = From(p + 1, CCs + 3, s.channel, b.channel)
  /\ r.transposition = j.transposition /\ p # CCs + 4 =>
       r.transposition = From(p + 1, CCs + 4, s.transposition, b.transposition)
  /\ r.filters = j.filters /\ p \notin CCs + 5 .. CCs + 4 + Len(s.filters) =>
       r.filters = FiltersSoFar(p + 1, s, b)
  /\ r.midi_pc = j.midi_pc /\ p # Last(s) =>
       r.midi_pc = From(p + 1, Last(s), s.midi_pc, b.midi_pc)
  /\ r.volume = j.volume /\ (s.volume = Off \/ p # Last(s) + 1) =>
       r.volume = IF s.volume = Off \/ b.volume = Off THEN b.volume
                  ELSE From(p + 1, Last(s) + 1, s.volume, b.volume)
  /\ r.mode = j.mode /\ (s.mode = None \/ p # Last(s) + 2) =>
       r.mode = IF s.mode = None THEN b.mode
                ELSE From(p + 1, Last(s) + 2, s.mode, b.mode)
  /\ r.uuid = j.uuid /\ p # Last(s) + 3 =>
       r.uuid = From(p + 1, Last(s) + 3, s.uuid, b.uuid)

LEMMA FieldsKept ==
  ASSUME StateFileAssumption, NEW s \in JfstType, NEW b \in JfstType, NEW j \in JfstType,
         NEW r, NEW p \in Nat, SettingsSoFar(p, j, s, b)
  PROVE  Kept(r, j, p, s, b)
<1>0. CCs \in Nat /\ Len(s.filters) \in Nat /\ Last(s) = CCs + 5 + Len(s.filters)
  BY LastFacts
<1>1. /\ CCs + 3 \in Int /\ CCs + 4 \in Int /\ Last(s) \in Int /\ Last(s) + 1 \in Int
      /\ Last(s) + 2 \in Int /\ Last(s) + 3 \in Int /\ p \in Int
  BY <1>0
<1>2. ASSUME NEW y \in Int, p # y
      PROVE  \A u, v : From(p + 1, y, u, v) = From(p, y, u, v)
  BY <1>2, FromStep
<1>3. /\ p # CCs + 3 => From(p + 1, CCs + 3, s.channel, b.channel)
                         = From(p, CCs + 3, s.channel, b.channel)
      /\ p # CCs + 4 => From(p + 1, CCs + 4, s.transposition, b.transposition)
                         = From(p, CCs + 4, s.transposition, b.transposition)
      /\ p # Last(s) => From(p + 1, Last(s), s.midi_pc, b.midi_pc)
                         = From(p, Last(s), s.midi_pc, b.midi_pc)
      /\ p # Last(s) + 1 => From(p + 1, Last(s) + 1, s.volume, b.volume)
                             = From(p, Last(s) + 1, s.volume, b.volume)
      /\ p # Last(s) + 2 => From(p + 1, Last(s) + 2, s.mode, b.mode)
                             = From(p, Last(s) + 2, s.mode, b.mode)
      /\ p # Last(s) + 3 => From(p + 1, Last(s) + 3, s.uuid, b.uuid)
                             = From(p, Last(s) + 3, s.uuid, b.uuid)
  BY <1>1, <1>2
<1>4. /\ p \notin 3 .. CCs + 2 => MapSoFar(p + 1, s, b) = MapSoFar(p, s, b)
      /\ p \notin CCs + 5 .. CCs + 4 + Len(s.filters) =>
           FiltersSoFar(p + 1, s, b) = FiltersSoFar(p, s, b)
  BY MapStep, FiltersStep
<1> QED
  BY <1>3, <1>4 DEF SettingsSoFar, Kept

(* One element of a saved file, read where it stands, brings the settings   *)
(* one step further.                                                        *)
LEMMA SettingsStep ==
  ASSUME StateFileAssumption, NEW s \in JfstType, NEW b \in JfstType, NEW j \in JfstType,
         NEW t, Layout(t, s), NEW p \in Nat, p > 0, p <= Last(s) + 5,
         t[Last(s) + 4][1] = "program", t[Last(s) + 5][1] \in {"chunk", "param"},
         SettingsSoFar(p, j, s, b)
  PROVE  SettingsSoFar(p + 1, Set(j, t[p]), s, b)
<1>0. CCs \in Nat /\ Len(s.filters) \in Nat /\ Last(s) = CCs + 5 + Len(s.filters)
  BY LastFacts
<1>N. PICK n \in Nat : n = Len(s.filters)
  BY <1>0
<1>l. PICK l \in Nat : l = Last(s) /\ l = CCs + 5 + n
  <2>1. CCs \in Nat /\ Last(s) = CCs + 5 + n
    BY <1>0, <1>N
  <2>2. CCs + 5 + n \in Nat
    BY <2>1
  <2> QED
    BY <2>1, <2>2
<1>r. PICK r : r = Set(j, t[p])
  OBVIOUS
<1>e. PICK e : e = t[p]
  OBVIOUS
<1>k. /\ r.map = j.map /\ p \notin 3 .. CCs + 2 => r.map = MapSoFar(p + 1, s, b)
      /\ r.channel = j.channel /\ p # CCs + 3 =>
           r.channel = From(p + 1, CCs + 3, s.channel, b.channel)
      /\ r.transposition = j.transposition /\ p # CCs + 4 =>
           r.transposition = From(p + 1, CCs + 4, s.transposition, b.transposition)
      /\ r.filters = j.filters /\ p \notin CCs + 5 .. CCs + 4 + n =>
           r.filters = FiltersSoFar(p + 1, s, b)
      /\ r.midi_pc = j.midi_pc /\ p # l =>
           r.midi_pc = From(p + 1, Last(s), s.midi_pc, b.midi_pc)
      /\ r.volume = j.volume /\ (s.volume = Off \/ p # l + 1) =>
           r.volume = IF s.volume = Off \/ b.volume = Off THEN b.volume
                      ELSE From(p + 1, Last(s) + 1, s.volume, b.volume)
      /\ r.mode = j.mode /\ (s.mode = None \/ p # l + 2) =>
           r.mode = IF s.mode = None THEN b.mode
                    ELSE From(p + 1, Last(s) + 2, s.mode, b.mode)
      /\ r.uuid = j.uuid /\ p # l + 3 =>
           r.uuid = From(p + 1, Last(s) + 3, s.uuid, b.uuid)
  <2>1. Kept(r, j, p, s, b)
    BY FieldsKept
  <2> QED
    BY <2>1, <1>N, <1>l DEF Kept
<1>C. CCs \in Nat
  BY <1>0
<1>1. CASE p \in {1, 2} \/ p \in {l + 4, l + 5}
  <2>1. e[1] \in {"file", "check", "program", "chunk", "param"}
    <3>1. p = 1 => e[1] = "file"
      BY <1>e DEF Layout
    <3>2. p = 2 => e[1] = "check"
      BY <1>e DEF Layout
    <3>3. p = l + 4 => e[1] = "program"
      BY <1>e, <1>l
    <3>4. p = l + 5 => e[1] \in {"chunk", "param"}
      BY <1>e, <1>l
    <3> QED
      BY <1>1, <3>1, <3>2, <3>3, <3>4
  <2>2. r = j
    BY <2>1, <1>r, <1>e DEF Set
  <2>3. /\ p \notin 3 .. CCs + 2 /\ p # CCs + 3 /\ p # CCs + 4 /\ p \notin CCs + 5 .. CCs + 4 + n
        /\ p # l /\ p # l + 1 /\ p # l + 2 /\ p # l + 3
    BY <1>1, <1>C, <1>l
  <2>4. SettingsSoFar(p + 1, r, s, b)
    BY <2>2, <2>3, <1>k DEF SettingsSoFar
  <2> QED
    BY <2>4, <1>r
<1>2. ASSUME NEW cc \in 1 .. CCs, p = cc + 2
      PROVE  SettingsSoFar(p + 1, r, s, b)
  <2>1. e = Opt(s.map[cc] # None, <<"map", cc, s.map[cc]>>)
    BY <1>2, <1>e DEF Layout
  <2>2. /\ p # CCs + 3 /\ p # CCs + 4 /\ p \notin CCs + 5 .. CCs + 4 + n
        /\ p # l /\ p # l + 1 /\ p # l + 2 /\ p # l + 3
    BY ONLY <1>2, <1>C, <1>l
  <2>3. MapSoFar(p + 1, s, b) = IF s.map[cc] # None THEN [MapSoFar(p, s, b) EXCEPT ![cc] = s.map[cc]]
                                ELSE MapSoFar(p, s, b)
    BY <1>2, MapStep, Zenon
  <2>4. j.map = MapSoFar(p, s, b)
    BY DEF SettingsSoFar
  <2>5. CASE s.map[cc] = None
    <3>1. e[1] = "blank"
      BY <2>1, <2>5 DEF Opt, Blank
    <3>2. r = j
      BY <3>1, <1>r, <1>e DEF Set
    <3>3. r.map = MapSoFar(p + 1, s, b)
      BY <3>2, <2>3, <2>4, <2>5
    <3> QED
      BY <3>2, <3>3, <2>2, <1>k DEF SettingsSoFar
  <2>6. CASE s.map[cc] # None
    <3>1. e[1] = "map" /\ e[2] = cc /\ e[3] = s.map[cc]
      BY <2>1, <2>6 DEF Opt
    <3>2. r = [j EXCEPT !.map = [j.map EXCEPT ![cc] = s.map[cc]]]
      BY <3>1, <1>r, <1>e DEF Set
    <3>3. /\ r.map = [j.map EXCEPT ![cc] = s.map[cc]] /\ r.channel = j.channel
          /\ r.transposition = j.transposition /\ r.filters = j.filters
          /\ r.midi_pc = j.midi_pc /\ r.volume = j.volume /\ r.mode = j.mode /\ r.uuid = j.uuid
      BY <3>2 DEF JfstType
    <3>4. r.map = MapSoFar(p + 1, s, b)
      BY <3>3, <2>3, <2>4, <2>6
    <3> QED
      BY <3>3, <3>4, <2>2, <1>k DEF SettingsSoFar
  <2> QED
    BY <2>5, <2>6
<1>3. CASE p = CCs + 3
  <2>1. e[1] = "channel" /\ e[2] = s.channel
    BY <1>3, <1>e DEF Layout
  <2>2. r = [j EXCEPT !.channel = s.channel]
    BY <2>1, <1>r, <1>e DEF Set
  <2>3. /\ r.map = j.map /\ r.channel = s.channel
        /\ r.transposition = j.transposition /\ r.filters = j.filters
        /\ r.midi_pc = j.midi_pc /\ r.volume = j.volume /\ r.mode = j.mode /\ r.uuid = j.uuid
    BY <2>2 DEF JfstType
  <2>4. /\ p \notin 3 .. CCs + 2 /\ p # CCs + 4 /\ p \notin CCs + 5 .. CCs + 4 + n
        /\ p # l /\ p # l + 1 /\ p # l + 2 /\ p # l + 3
    BY <1>3, <1>C, <1>l
  <2>5. r.channel = From(p + 1, CCs + 3, s.channel, b.channel)
    BY <2>3, <1>3, <1>C DEF From
  <2>6. SettingsSoFar(p + 1, r, s, b)
    BY <2>3, <2>4, <2>5, <1>k DEF SettingsSoFar
  <2> QED
    BY <2>6, <1>r
<1>4. CASE p = CCs + 4
  <2>1. e[1] = "transposition" /\ e[2] = s.transposition
    BY <1>4, <1>e DEF Layout
  <2>2. r = [j EXCEPT !.transposition = s.transposition]
    BY <2>1, <1>r, <1>e DEF Set
  <2>3. /\ r.map = j.map /\ r.channel = j.channel
        /\ r.transposition = s.transposition /\ r.filters = j.filters
        /\ r.midi_pc = j.midi_pc /\ r.volume = j.volume /\ r.mode = j.mode /\ r.uuid = j.uuid
    BY <2>2 DEF JfstType
  <2>4. /\ p \notin 3 .. CCs + 2 /\ p # CCs + 3 /\ p \notin CCs + 5 .. CCs + 4 + n
        /\ p # l /\ p # l + 1 /\ p # l + 2 /\ p # l + 3
    BY ONLY <1>4, <1>C, <1>l
  <2>5. r.transposition = From(p + 1, CCs + 4, s.transposition, b.transposition)
    BY <2>3, <1>4, <1>C DEF From
  <2>6. SettingsSoFar(p + 1, r, s, b)
    BY <2>3, <2>4, <2>5, <1>k DEF SettingsSoFar
  <2> QED
    BY <2>6, <1>r
<1>5. ASSUME NEW k \in 1 .. n, p = CCs + 4 + k
      PROVE  SettingsSoFar(p + 1, r, s, b)
  <2>1. e[1] = "filter" /\ e[2] = s.filters[k]
    BY <1>5, <1>e, <1>N DEF Layout
  <2>2. j.channel = s.channel /\ j.filters = FiltersSoFar(p, s, b)
    <3>1. p > CCs + 3
      BY <1>5, <1>C
    <3> QED
      BY <3>1 DEF SettingsSoFar, From
  <2>3. FiltersSoFar(p + 1, s, b) =
          IF s.channel = 0 THEN Append(FiltersSoFar(p, s, b), s.filters[k])
          ELSE FiltersSoFar(p, s, b)
    BY <1>5, <1>N, FiltersStep
  <2>4. /\ p \notin 3 .. CCs + 2 /\ p # CCs + 3 /\ p # CCs + 4
        /\ p # l /\ p # l + 1 /\ p # l + 2 /\ p # l + 3
    BY ONLY <1>5, <1>C, <1>l
  <2>5. s.channel \in 0 .. 1
    BY DEF JfstType
  <2>6. CASE s.channel = 0
    <3>a. r = Filter(j, s.filters[k])
      BY <2>1, <1>r, <1>e DEF Set
    <3>b. j.channel < 1
      BY <2>2, <2>6
    <3>1. r = [j EXCEPT !.filters = Append(j.filters, s.filters[k])]
      BY <3>a, <3>b DEF Filter
    <3>2. /\ r.map = j.map /\ r.channel = j.channel
          /\ r.transposition = j.transposition /\ r.filters = Append(j.filters, s.filters[k])
          /\ r.midi_pc = j.midi_pc /\ r.volume = j.volume /\ r.mode = j.mode /\ r.uuid = j.uuid
      BY <3>1 DEF JfstType
    <3>3. r.filters = FiltersSoFar(p + 1, s, b)
      BY <3>2, <2>2, <2>3, <2>6
    <3> QED
      BY <3>2, <3>3, <2>4, <1>k DEF SettingsSoFar
  <2>7. CASE s.channel = 1
    <3>1. r = j
      BY <2>1, <2>2, <2>7, <1>r, <1>e DEF Set, Filter
    <3>2. r.filters = FiltersSoFar(p + 1, s, b)
      BY <3>1, <2>2, <2>3, <2>7
    <3> QED
      BY <3>1, <3>2, <2>4, <1>k DEF SettingsSoFar
  <2> QED
    BY <2>5, <2>6, <2>7
<1>6. CASE p = l
  <2>1. e[1] = "midi_pc" /\ e[2] = s.midi_pc
    <3>1. t[CCs + 5 + Len(s.filters)] = <<"midi_pc", s.midi_pc>>
      BY DEF Layout
    <3>2. p = CCs + 5 + Len(s.filters)
      BY <1>6, <1>l, <1>N
    <3> QED
      BY <3>1, <3>2, <1>e
  <2>2. r = [j EXCEPT !.midi_pc = s.midi_pc]
    BY <2>1, <1>r, <1>e DEF Set
  <2>3. /\ r.map = j.map /\ r.channel = j.channel
        /\ r.transposition = j.transposition /\ r.filters = j.filters
        /\ r.midi_pc = s.midi_pc /\ r.volume = j.volume /\ r.mode = j.mode /\ r.uuid = j.uuid
    BY <2>2 DEF JfstType
  <2>4. /\ p \notin 3 .. CCs + 2 /\ p # CCs + 3 /\ p # CCs + 4 /\ p \notin CCs + 5 .. CCs + 4 + n
        /\ p # l + 1 /\ p # l + 2 /\ p # l + 3
    BY <1>6, <1>C, <1>l
  <2>5. r.midi_pc = From(p + 1, Last(s), s.midi_pc, b.midi_pc)
    BY <2>3, <1>6, <1>l DEF From
  <2>6. SettingsSoFar(p + 1, r, s, b)
    BY <2>3, <2>4, <2>5, <1>k DEF SettingsSoFar
  <2> QED
    BY <2>6, <1>r
<1>7. CASE p = l + 1
  <2>1. e = Opt(s.volume # Off, <<"volume", s.volume>>)
    <3>1. t[CCs + 5 + Len(s.filters) + 1] = Opt(s.volume # Off, <<"volume", s.volume>>)
      BY DEF Layout
    <3> QED
      BY <3>1, <1>7, <1>e, <1>l, <1>N
  <2>4. /\ p \notin 3 .. CCs + 2 /\ p # CCs + 3 /\ p # CCs + 4 /\ p \notin CCs + 5 .. CCs + 4 + n
        /\ p # l /\ p # l + 2 /\ p # l + 3
    BY <1>7, <1>C, <1>l
  <2>5. j.volume = b.volume
    <3>1. ~(p > Last(s) + 1)
      BY <1>7, <1>l
    <3> QED
      BY <3>1 DEF SettingsSoFar, From
  <2>6. CASE s.volume = Off
    <3>1. e[1] = "blank"
      BY <2>1, <2>6 DEF Opt, Blank
    <3>2. r = j
      BY <3>1, <1>r, <1>e DEF Set
    <3> QED
      BY <3>2, <2>4, <2>6, <1>k, <1>r DEF SettingsSoFar
  <2>7. CASE s.volume # Off /\ b.volume = Off
    <3>1. e[1] = "volume" /\ e[2] = s.volume
      BY <2>1, <2>7 DEF Opt
    <3>2. r = j
      BY <3>1, <2>5, <2>7, <1>r, <1>e DEF Set
    <3>3. r.volume = IF s.volume = Off \/ b.volume = Off THEN b.volume
                     ELSE From(p + 1, Last(s) + 1, s.volume, b.volume)
      BY <3>2, <2>5, <2>7
    <3> QED
      BY <3>2, <3>3, <2>4, <1>k, <1>r DEF SettingsSoFar
  <2>8. CASE s.volume # Off /\ b.volume # Off
    <3>1. e[1] = "volume" /\ e[2] = s.volume
      BY <2>1, <2>8 DEF Opt
    <3>2. r = [j EXCEPT !.volume = s.volume]
      BY <3>1, <2>5, <2>8, <1>r, <1>e DEF Set
    <3>3. /\ r.map = j.map /\ r.channel = j.channel
          /\ r.transposition = j.transposition /\ r.filters = j.filters
          /\ r.midi_pc = j.midi_pc /\ r.volume = s.volume /\ r.mode = j.mode /\ r.uuid = j.uuid
      BY <3>2 DEF JfstType
    <3>4. From(p + 1, Last(s) + 1, s.volume, b.volume) = s.volume
      BY <1>7, <1>l DEF From
    <3>5. r.volume = IF s.volume = Off \/ b.volume = Off THEN b.volume
                     ELSE From(p + 1, Last(s) + 1, s.volume, b.volume)
      BY <3>3, <3>4, <2>8
    <3> QED
      BY <3>3, <3>5, <2>4, <1>k, <1>r DEF SettingsSoFar
  <2> QED
    BY <2>6, <2>7, <2>8
<1>8. CASE p = l + 2
  <2>1. e = Opt(s.mode # None, <<"mode", s.mode>>)
    <3>1. t[CCs + 5 + Len(s.filters) + 2] = Opt(s.mode # None, <<"mode", s.mode>>)
      BY DEF Layout
    <3> QED
      BY <3>1, <1>8, <1>e, <1>l, <1>N
  <2>4. /\ p \notin 3 .. CCs + 2 /\ p # CCs + 3 /\ p # CCs + 4 /\ p \notin CCs + 5 .. CCs + 4 + n
        /\ p # l /\ p # l + 1 /\ p # l + 3
    BY <1>8, <1>C, <1>l
  <2>6. CASE s.mode = None
    <3>1. e[1] = "blank"
      BY <2>1, <2>6 DEF Opt, Blank
    <3>2. r = j
      BY <3>1, <1>r, <1>e DEF Set
    <3> QED
      BY <3>2, <2>4, <2>6, <1>k, <1>r DEF SettingsSoFar
  <2>7. CASE s.mode # None
    <3>1. e[1] = "mode" /\ e[2] = s.mode
      BY <2>1, <2>7 DEF Opt
    <3>2. r = [j EXCEPT !.mode = s.mode]
      BY <3>1, <1>r, <1>e DEF Set
    <3>3. /\ r.map = j.map /\ r.channel = j.channel
          /\ r.transposition = j.transposition /\ r.filters = j.filters
          /\ r.midi_pc = j.midi_pc /\ r.volume = j.volume /\ r.mode = s.mode /\ r.uuid = j.uuid
      BY <3>2 DEF JfstType
    <3>4. From(p + 1, Last(s) + 2, s.mode, b.mode) = s.mode
      BY <1>8, <1>l DEF From
    <3>5. r.mode = IF s.mode = None THEN b.mode ELSE From(p + 1, Last(s) + 2, s.mode, b.mode)
      BY <3>3, <3>4, <2>7
    <3> QED
      BY <3>3, <3>5, <2>4, <1>k, <1>r DEF SettingsSoFar
  <2> QED
    BY <2>6, <2>7
<1>9. CASE p = l + 3
  <2>1. e[1] = "sysex" /\ e[2] = s.uuid
    <3>1. t[CCs + 5 + Len(s.filters) + 3] = <<"sysex", s.uuid>>
      BY DEF Layout
    <3> QED
      BY ONLY <3>1, <1>9, <1>e, <1>l, <1>N
  <2>2. r = [j EXCEPT !.uuid = s.uuid]
    BY <2>1, <1>r, <1>e DEF Set
  <2>3. /\ r.map = j.map /\ r.channel = j.channel
        /\ r.transposition = j.transposition /\ r.filters = j.filters
        /\ r.midi_pc = j.midi_pc /\ r.volume = j.volume /\ r.mode = j.mode /\ r.uuid = s.uuid
    BY <2>2 DEF JfstType
  <2>4. /\ p \notin 3 .. CCs + 2 /\ p # CCs + 3 /\ p # CCs + 4 /\ p \notin CCs + 5 .. CCs + 4 + n
        /\ p # l /\ p # l + 1 /\ p # l + 2
    BY <1>9, <1>C, <1>l
  <2>5. r.uuid = From(p + 1, Last(s) + 3, s.uuid, b.uuid)
    BY <2>3, <1>9, <1>l DEF From
  <2>6. SettingsSoFar(p + 1, r, s, b)
    BY <2>3, <2>4, <2>5, <1>k DEF SettingsSoFar
  <2> QED
    BY <2>6, <1>r
<1>10. \/ p \in {1, 2} \/ p \in {l + 4, l + 5}
       \/ \E cc \in 1 .. CCs : p = cc + 2
       \/ p = CCs + 3 \/ p = CCs + 4
       \/ \E k \in 1 .. n : p = CCs + 4 + k
       \/ p = l \/ p = l + 1 \/ p = l + 2 \/ p = l + 3
  <2>1. CASE p >= 3 /\ p <= CCs + 2
    <3>1. p - 2 \in 1 .. CCs /\ p = (p - 2) + 2
      BY <2>1, <1>C
    <3> QED
      BY <3>1
  <2>2. CASE p >= CCs + 5 /\ p <= CCs + 4 + n
    <3>1. p - CCs - 4 \in 1 .. n /\ p = CCs + 4 + (p - CCs - 4)
      BY <2>2, <1>C
    <3> QED
      BY <3>1
  <2>3. CASE ~(p >= 3 /\ p <= CCs + 2) /\ ~(p >= CCs + 5 /\ p <= CCs + 4 + n)
    <3>1. p <= l + 5
      BY <1>l
    <3> QED
      BY <2>3, <3>1, <1>C, <1>l
  <2> QED
    BY <2>1, <2>2, <2>3
<1> QED
  BY <1>1, <1>2, <1>3, <1>4, <1>5, <1>6, <1>7, <1>8, <1>9, <1>10, <1>r

LEMMA SettingsFirst ==
  ASSUME StateFileAssumption, NEW s \in JfstType, NEW b \in JfstType
  PROVE  SettingsSoFar(1, b, s, b)
<1>0. /\ CCs \in Nat /\ Len(s.filters) \in Nat /\ Last(s) = CCs + 5 + Len(s.filters)
  BY LastFacts
<1>1. b.map \in [1 .. CCs -> None .. 1] /\ b.filters \in Seq(Filters)
  BY DEF JfstType
<1>2. MapSoFar(1, s, b) = b.map
  <2>1. \A cc \in 1 .. CCs : ~(1 > cc + 2)
    BY <1>0
  <2>2. \A cc \in 1 .. CCs : MapSoFar(1, s, b)[cc] = b.map[cc]
    BY <2>1 DEF MapSoFar, From
  <2>3. PICK m : m = MapSoFar(1, s, b)
    OBVIOUS
  <2>4. m = [cc \in 1 .. CCs |-> m[cc]]
    BY <2>3 DEF MapSoFar
  <2>5. b.map = [cc \in 1 .. CCs |-> b.map[cc]]
    BY <1>1
  <2> QED
    BY <2>2, <2>3, <2>4, <2>5
<1>3. FiltersSoFar(1, s, b) = b.filters
  <2>1. 1 <= CCs + 5
    BY <1>0
  <2>2. FiltersRead(1, s) = 0
    BY <2>1 DEF FiltersRead
  <2>3. SubSeq(s.filters, 1, 0) = <<>>
    BY SubSeqEmpty
  <2>4. FiltersSoFar(1, s, b) = b.filters \o <<>>
    BY <2>2, <2>3 DEF FiltersSoFar
  <2> QED
    BY <2>4, <1>1, ConcatEmptySeq
<1>n. PICK n \in Nat : n = Len(s.filters)
  BY <1>0
<1>4. /\ ~(1 > CCs + 3) /\ ~(1 > CCs + 4)
  BY <1>0
<1>5. /\ ~(1 > Last(s)) /\ ~(1 > Last(s) + 1) /\ ~(1 > Last(s) + 2) /\ ~(1 > Last(s) + 3)
  <2>1. CCs \in Nat /\ Last(s) = CCs + 5 + n
    BY <1>0, <1>n
  <2> QED
    BY <2>1
<1> QED
  BY <1>2, <1>3, <1>4, <1>5 DEF SettingsSoFar, From

LEMMA SoundFirst ==
  ASSUME StateFileAssumption, NEW s \in JfstType, NEW f, NEW g, NEW c, NEW h
  PROVE  SoundSoFar(1, f, s, g, c, h)
<1>0. /\ CCs \in Nat /\ Len(s.filters) \in Nat /\ Last(s) = CCs + 5 + Len(s.filters)
  BY LastFacts
<1>n. PICK n \in Nat : n = Len(s.filters)
  BY <1>0
<1>1. CCs \in Nat /\ Last(s) = CCs + 5 + n
  BY <1>0, <1>n
<1>2. ~(1 > Last(s) + 4) /\ ~(1 > Last(s) + 5)
  BY <1>1
<1> QED
  BY <1>2 DEF SoundSoFar

LEMMA SoundStep ==
  ASSUME StateFileAssumption, NEW s \in JfstType, NEW f \in PluginType, NEW g \in PluginType,
         NEW t, NEW p \in Nat, p <= Last(s) + 5,
         t[Last(s) + 4] = Program(g), t[Last(s) + 5] = Content(g),
         NEW h \in BOOLEAN, h => Noticed(f), SoundSoFar(p, f, s, g, opt.chunks, h)
  PROVE  SoundSoFar(p + 1, Play(f, t[p]), s, g, opt.chunks, h)
<1>0. /\ CCs \in Nat /\ Len(s.filters) \in Nat /\ Last(s) = CCs + 5 + Len(s.filters)
  BY LastFacts
<1>n. PICK n \in Nat : n = Len(s.filters)
  BY <1>0
<1>l. PICK l \in Nat : l = Last(s)
  <2>1. CCs \in Nat /\ Last(s) = CCs + 5 + n
    BY <1>0, <1>n
  <2> QED
    BY <2>1
<1>e. PICK e : e = t[p]
  OBVIOUS
<1>r. PICK r : r = Play(f, t[p])
  OBVIOUS
<1>1. CASE p < l + 4
  <2>1. ~(p + 1 > l + 4) /\ ~(p + 1 > l + 5)
    BY <1>1
  <2> QED
    BY <2>1, <1>l DEF SoundSoFar
<1>2. CASE p = l + 4
  <2>1. ~(p + 1 > l + 5)
    BY <1>2
  <2>2. e = <<"program", g.current>>
    BY <1>2, <1>e, <1>l DEF Program
  <2>3. e[1] = "program" /\ e[2] = g.current
    BY <2>2
  <2>4. r = IF f.current = g.current THEN f
            ELSE [f EXCEPT !.prog = g.current, !.current = g.current]
    BY <2>3, <1>r, <1>e DEF Play
  <2>5. h => r.prog = g.current
    BY <2>4 DEF PluginType, Noticed
  <2> QED
    BY <2>1, <2>5, <1>l, <1>r DEF SoundSoFar
<1>3. CASE p = l + 5
  <2>1. h => f.prog = g.current
    <3>1. p > l + 4
      BY <1>3
    <3> QED
      BY <3>1, <1>l DEF SoundSoFar
  <2>2. e = IF opt.chunks THEN <<"chunk", g.data>> ELSE <<"param", SixDecimals(g.data[g.prog])>>
    BY <1>3, <1>e, <1>l DEF Content
  <2>3. CASE opt.chunks
    <3>1. e[1] = "chunk" /\ e[2] = g.data
      BY <2>2, <2>3
    <3>2. r = [f EXCEPT !.data = g.data]
      BY <3>1, <2>3, <1>r, <1>e DEF Play
    <3>3. r.prog = f.prog /\ r.data = g.data
      BY <3>2 DEF PluginType
    <3> QED
      BY <3>3, <2>1, <2>3, <1>r DEF SoundSoFar
  <2>4. CASE ~opt.chunks
    <3>v. PICK v : v = SixDecimals(g.data[g.prog])
      OBVIOUS
    <3>1. e[1] = "param" /\ e[2] = v
      BY <2>2, <2>4, <3>v
    <3>2. r = [f EXCEPT !.data = [f.data EXCEPT ![f.prog] = v]]
      BY <3>1, <2>4, <1>r, <1>e DEF Play
    <3>3. r.prog = f.prog /\ r.data = [f.data EXCEPT ![f.prog] = v]
      BY <3>2 DEF PluginType
    <3>4. f.data \in [Programs -> Int] /\ f.prog \in Programs
      BY DEF PluginType
    <3>5. r.data[r.prog] = v
      BY <3>3, <3>4
    <3> QED
      BY <3>3, <3>5, <3>v, <2>1, <2>4, <1>r DEF SoundSoFar
  <2> QED
    BY <2>3, <2>4
<1>4. p < l + 4 \/ p = l + 4 \/ p = l + 5
  <2>1. p <= l + 5
    BY <1>l
  <2> QED
    BY <2>1
<1> QED
  BY <1>1, <1>2, <1>3, <1>4

(* With the last element read, the settings are what RoundTrip asks for.    *)
LEMMA SettingsLast ==
  ASSUME StateFileAssumption, NEW s \in JfstType, NEW b \in JfstType, NEW j \in JfstType,
         SettingsSoFar(Last(s) + 6, j, s, b)
  PROVE  j = [s EXCEPT
                !.map = [cc \in 1 .. CCs |-> IF @[cc] # None THEN @[cc] ELSE b.map[cc]],
                !.volume = IF @ = Off \/ b.volume = Off THEN b.volume ELSE @,
                !.mode = IF @ = None THEN b.mode ELSE @,
                !.filters = b.filters \o (IF s.channel = 0 THEN @ ELSE <<>>)]
<1>0. /\ CCs \in Nat /\ Len(s.filters) \in Nat /\ Last(s) = CCs + 5 + Len(s.filters)
      /\ s.filters \in Seq(Filters)
  BY LastFacts
<1>n. PICK n \in Nat : n = Len(s.filters)
  BY <1>0
<1>1. CCs \in Nat /\ Last(s) = CCs + 5 + n
  BY <1>0, <1>n
<1>2. /\ \A cc \in 1 .. CCs : Last(s) + 6 > cc + 2
      /\ Last(s) + 6 > CCs + 3 /\ Last(s) + 6 > CCs + 4 /\ Last(s) + 6 > Last(s)
      /\ Last(s) + 6 > Last(s) + 1 /\ Last(s) + 6 > Last(s) + 2 /\ Last(s) + 6 > Last(s) + 3
      /\ ~(Last(s) + 6 <= CCs + 5)
  BY <1>1
<1>3. j.map = [cc \in 1 .. CCs |-> IF s.map[cc] # None THEN s.map[cc] ELSE b.map[cc]]
  <2>1. j.map = MapSoFar(Last(s) + 6, s, b)
    BY DEF SettingsSoFar
  <2>2. \A cc \in 1 .. CCs : From(Last(s) + 6, cc + 2, s.map[cc], b.map[cc]) = s.map[cc]
    BY <1>2 DEF From
  <2> QED
    BY <2>1, <2>2 DEF MapSoFar
<1>4. j.filters = b.filters \o (IF s.channel = 0 THEN s.filters ELSE <<>>)
  <2>1. FiltersRead(Last(s) + 6, s) = Len(s.filters)
    BY <1>2 DEF FiltersRead
  <2>2. SubSeq(s.filters, 1, Len(s.filters)) = s.filters
    BY <1>0, SubSeqFull
  <2> QED
    BY <2>1, <2>2 DEF SettingsSoFar, FiltersSoFar
<1>5. /\ j.channel = s.channel /\ j.transposition = s.transposition /\ j.midi_pc = s.midi_pc
      /\ j.volume = IF s.volume = Off \/ b.volume = Off THEN b.volume ELSE s.volume
      /\ j.mode = IF s.mode = None THEN b.mode ELSE s.mode
      /\ j.uuid = s.uuid
  BY <1>2 DEF SettingsSoFar, From
<1>6. ASSUME NEW m, NEW v, NEW o, NEW q, j.map = m, j.volume = v, j.mode = o, j.filters = q
      PROVE  j = [s EXCEPT !.map = m, !.volume = v, !.mode = o, !.filters = q]
  BY <1>5, <1>6 DEF JfstType
<1>7. PICK m : m = [cc \in 1 .. CCs |-> IF s.map[cc] # None THEN s.map[cc] ELSE b.map[cc]]
  OBVIOUS
<1>8. PICK v : v = IF s.volume = Off \/ b.volume = Off THEN b.volume ELSE s.volume
  OBVIOUS
<1>9. PICK o : o = IF s.mode = None THEN b.mode ELSE s.mode
  OBVIOUS
<1>10. PICK q : q = b.filters \o (IF s.channel = 0 THEN s.filters ELSE <<>>)
  OBVIOUS
<1>11. j = [s EXCEPT !.map = m, !.volume = v, !.mode = o, !.filters = q]
  BY <1>3, <1>4, <1>5, <1>6, <1>7, <1>8, <1>9, <1>10
<1> QED
  BY <1>7, <1>8, <1>9, <1>10, <1>11

(* What a load of one's own file looks at: the whole file, and where in it  *)
(* the load is.                                                             *)
LEMMA OwnFile ==
  ASSUME StateFileAssumption, Types, Saved, good
  PROVE  /\ was.jfst \in JfstType /\ was.plugin \in PluginType /\ before.jfst \in JfstType
         /\ jfst \in JfstType
         /\ Len(file) = Last(was.jfst) + 5 /\ Last(was.jfst) \in Nat
         /\ Layout(file, was.jfst)
         /\ file[Last(was.jfst) + 4] = Program(was.plugin)
         /\ file[Last(was.jfst) + 5] = Content(was.plugin)
<1>1. was.jfst \in JfstType /\ was.plugin \in PluginType /\ before.jfst \in JfstType /\ jfst \in JfstType
  BY DEF Types
<1>2. PICK s \in JfstType : s = was.jfst
  BY <1>1
<1>3. PICK g \in PluginType : g = was.plugin
  BY <1>1
<1>4. file = Whole(s, g)
  BY <1>2, <1>3 DEF Saved
<1>5. /\ Len(Whole(s, g)) = CCs + 10 + Len(s.filters) /\ Layout(Whole(s, g), s)
      /\ Whole(s, g)[CCs + 9 + Len(s.filters)] = Program(g)
      /\ Whole(s, g)[CCs + 10 + Len(s.filters)] = Content(g)
  BY WholeLayout
<1>6. /\ CCs \in Nat /\ Len(s.filters) \in Nat /\ Last(s) = CCs + 5 + Len(s.filters)
  BY LastFacts
<1>7. PICK n \in Nat : n = Len(s.filters)
  BY <1>6
<1>8. CCs \in Nat /\ Last(s) = CCs + 5 + n
  BY <1>6, <1>7
<1>9. /\ Last(s) \in Nat /\ CCs + 10 + n = Last(s) + 5 /\ CCs + 9 + n = Last(s) + 4
  BY <1>8
<1>10. Len(file) = Last(s) + 5 /\ Layout(file, s)
  BY <1>4, <1>5, <1>7, <1>9
<1>11. file[Last(s) + 4] = Program(g) /\ file[Last(s) + 5] = Content(g)
  BY <1>4, <1>5, <1>7, <1>9
<1> QED
  BY <1>1, <1>2, <1>3, <1>9, <1>10, <1>11

(* Neither a load nor the event thread makes an FST wrong about its plugin. *)
LEMMA StillRightNext ==
  StateFileAssumption /\ Types /\ Phases /\ StillRight /\ [Next]_vars => StillRight'
<1> SUFFICES ASSUME StateFileAssumption, Types, Phases, StillRight, [Next]_vars,
                    pc' = "load", clean', Right'
             PROVE  Noticed(plugin'[fst'])
  BY DEF StillRight
<1>1. CASE BeginLoad
  <2>1. before'.plugin = plugin /\ SamePrograms(plugin', plugin) /\ fst' \in 0 .. MaxPlugins
    BY <1>1, BeginLoadEffect
  <2>2. fst' \in Plugins
    BY <2>1, <1>1 DEF BeginLoad, Plugins, StateFileAssumption
  <2>3. Noticed(plugin[fst'])
    BY <2>1 DEF Right
  <2> QED
    BY <2>1, <2>2, <2>3 DEF SamePrograms, Noticed
<1>2. CASE LoadElement
  <2>1. pc = "load" /\ clean /\ before' = before /\ fst' = fst
    BY <1>2 DEF LoadElement, hist
  <2>2. Noticed(plugin[fst])
    BY <2>1 DEF StillRight, Right
  <2> QED
    BY <1>2, <2>1, <2>2, LoadElementEffect
<1>3. CASE NoticeProgram
  <2>1. pc = "load" /\ clean /\ before' = before /\ fst' = fst
    BY <1>3 DEF NoticeProgram, hist
  <2>2. Noticed(plugin[fst]) /\ fst \in Plugins
    BY <2>1 DEF StillRight, Right, Types, Phases, Plugins, StateFileAssumption
  <2> QED
    BY <1>3, <2>1, <2>2, NoticeEffect
<1>4. CASE UNCHANGED vars
  <2>1. plugin' = plugin /\ fst' = fst /\ before' = before /\ clean' = clean /\ pc' = pc
    BY <1>4 DEF vars, host, hist
  <2> QED
    BY <2>1 DEF StillRight, Right
<1>5. CASE Edit
  BY <1>5 DEF Edit
<1>6. CASE LoadPlugin \/ Loaded \/ LoadFx
  <2>1. pc' = "loadstate" \/ pc' = "init" \/ pc' = "idle"
    BY <1>6 DEF LoadPlugin, Loaded, LoadFx, Finish
  <2> QED
    BY <2>1
<1>7. CASE InitHost \/ Close \/ Restart \/ Crash \/ BeginSave \/ SaveProgram
  <2>1. pc' \in {"gone", "idle", "new", "crashed", "program", "content"}
    BY <1>7 DEF InitHost, Close, Restart, Crash, BeginSave, SaveProgram
  <2> QED
    BY <2>1
<1>8. CASE SaveContent
  BY <1>8, SaveContentEffect
<1> QED
  BY <1>1, <1>2, <1>3, <1>4, <1>5, <1>6, <1>7, <1>8 DEF Next

LEMMA SoundSame ==
  ASSUME NEW p, NEW f, NEW h, NEW s, NEW g, NEW c, NEW u, f.prog = h.prog, f.data = h.data,
         SoundSoFar(p, f, s, g, c, u)
  PROVE  SoundSoFar(p, h, s, g, c, u)
BY DEF SoundSoFar

LEMMA RestoringNext ==
  StateFileAssumption /\ Types /\ Phases /\ Saved /\ StillRight /\ Restoring /\ [Next]_vars
    => Restoring'
<1> SUFFICES ASSUME StateFileAssumption, Types, Phases, Saved, StillRight, Restoring, [Next]_vars,
                    pc' = "load", clean', good'
             PROVE  /\ SettingsSoFar(io'.pos, jfst', was'.jfst, before'.jfst)
                    /\ SoundSoFar(io'.pos, plugin'[fst'], was'.jfst, was'.plugin, opt'.chunks,
                                  Right')
  BY DEF Restoring
<1>1. CASE BeginLoad
  <2>1. jfst' = jfst /\ was' = was /\ io'.pos = 1 /\ before'.jfst = jfst
    BY <1>1, BeginLoadEffect DEF BeginLoad
  <2>2. was.jfst \in JfstType /\ jfst \in JfstType
    BY DEF Types
  <2>3. PICK s \in JfstType : s = was.jfst
    BY <2>2
  <2>4. PICK b \in JfstType : b = jfst
    BY <2>2
  <2>5. SettingsSoFar(1, b, s, b)
    BY SettingsFirst
  <2>6. \A f, g, c, h : SoundSoFar(1, f, s, g, c, h)
    BY SoundFirst
  <2>f. PICK f : f = plugin'[fst']
    OBVIOUS
  <2>g. PICK g : g = was'.plugin
    OBVIOUS
  <2>c. PICK c : c = opt'.chunks
    OBVIOUS
  <2>h. PICK h : h = Right'
    OBVIOUS
  <2>7. SoundSoFar(1, f, s, g, c, h)
    BY <2>6
  <2> QED
    BY <2>1, <2>3, <2>4, <2>5, <2>7, <2>f, <2>g, <2>c, <2>h
<1>2. CASE LoadElement
  <2>1. /\ pc = "load" /\ clean /\ good /\ was' = was /\ before' = before /\ opt' = opt
        /\ fst' = fst
    BY <1>2 DEF LoadElement, hist
  <2>2. /\ jfst' = Set(jfst, file[io.pos]) /\ plugin'[fst] = Play(plugin[fst], file[io.pos])
        /\ io'.pos = io.pos + 1 /\ fst \in Plugins /\ io.pos \in 1 .. Len(file)
    BY <1>2, LoadElementEffect
  <2>3. /\ was.jfst \in JfstType /\ was.plugin \in PluginType /\ before.jfst \in JfstType
        /\ jfst \in JfstType
        /\ Len(file) = Last(was.jfst) + 5 /\ Last(was.jfst) \in Nat
        /\ Layout(file, was.jfst)
        /\ file[Last(was.jfst) + 4] = Program(was.plugin)
        /\ file[Last(was.jfst) + 5] = Content(was.plugin)
    BY <2>1, OwnFile
  <2>s. PICK s \in JfstType : s = was.jfst
    BY <2>3
  <2>g. PICK g \in PluginType : g = was.plugin
    BY <2>3
  <2>b. PICK b \in JfstType : b = before.jfst
    BY <2>3
  <2>j. PICK j \in JfstType : j = jfst
    BY <2>3
  <2>f. PICK f \in PluginType : f = plugin[fst]
    BY <2>2 DEF Types
  <2>h. PICK h \in BOOLEAN : h = Right
    BY DEF Right, Noticed
  <2>t. PICK t : t = file
    OBVIOUS
  <2>p. PICK p \in Nat : p = io.pos /\ p > 0 /\ p <= Last(s) + 5
    <3>1. io.pos \in Nat /\ io.pos > 0 /\ io.pos <= Last(s) + 5
      BY <2>2, <2>3, <2>s
    <3> QED
      BY <3>1
  <2>4. SettingsSoFar(p, j, s, b) /\ SoundSoFar(p, f, s, g, opt.chunks, h)
    BY <2>1, <2>s, <2>g, <2>b, <2>j, <2>f, <2>p, <2>h DEF Restoring
  <2>a. h => Noticed(f)
    BY <2>1, <2>f, <2>h DEF StillRight
  <2>5. Layout(t, s) /\ t[Last(s) + 4] = Program(g) /\ t[Last(s) + 5] = Content(g)
    BY <2>3, <2>s, <2>g, <2>t
  <2>6. t[Last(s) + 4][1] = "program" /\ t[Last(s) + 5][1] \in {"chunk", "param"}
    BY <2>5 DEF Program, Content
  <2>7. SettingsSoFar(p + 1, Set(j, t[p]), s, b)
    BY <2>p, <2>4, <2>5, <2>6, SettingsStep
  <2>8. SoundSoFar(p + 1, Play(f, t[p]), s, g, opt.chunks, h)
    BY <2>p, <2>4, <2>5, <2>a, SoundStep
  <2>9. /\ jfst' = Set(j, t[p]) /\ plugin'[fst'] = Play(f, t[p]) /\ io'.pos = p + 1
    BY <2>1, <2>2, <2>j, <2>f, <2>t, <2>p
  <2> QED
    BY <2>1, <2>7, <2>8, <2>9, <2>s, <2>g, <2>b, <2>h DEF Right
<1>3. CASE UNCHANGED vars
  <2>1. /\ jfst' = jfst /\ plugin' = plugin /\ fst' = fst /\ before' = before /\ clean' = clean
        /\ pc' = pc /\ io' = io /\ was' = was /\ opt' = opt /\ good' = good
    BY <1>3 DEF vars, host, hist
  <2> QED
    BY <2>1 DEF Restoring, Right
<1>8. CASE NoticeProgram
  <2>1. /\ jfst' = jfst /\ fst' = fst /\ before' = before /\ clean' = clean
        /\ pc' = pc /\ io' = io /\ was' = was /\ opt' = opt /\ good' = good
    BY <1>8 DEF NoticeProgram, hist
  <2>2. fst \in Plugins
    BY <2>1 DEF Types, Phases, Plugins, StateFileAssumption
  <2>3. plugin'[fst].prog = plugin[fst].prog /\ plugin'[fst].data = plugin[fst].data
    BY <2>2, <1>8, NoticeEffect
  <2>4. /\ SettingsSoFar(io.pos, jfst, was.jfst, before.jfst)
        /\ SoundSoFar(io.pos, plugin[fst], was.jfst, was.plugin, opt.chunks, Right)
    BY <2>1 DEF Restoring
  <2>5. SoundSoFar(io.pos, plugin'[fst], was.jfst, was.plugin, opt.chunks, Right)
    BY <2>3, <2>4, SoundSame
  <2> QED
    BY <2>1, <2>4, <2>5 DEF Right
<1>4. CASE Edit
  BY <1>4 DEF Edit
<1>5. CASE LoadPlugin \/ Loaded \/ LoadFx
  <2>1. pc' = "loadstate" \/ pc' = "init" \/ pc' = "idle"
    BY <1>5 DEF LoadPlugin, Loaded, LoadFx, Finish
  <2> QED
    BY <2>1
<1>6. CASE InitHost \/ Close \/ Restart \/ Crash \/ BeginSave \/ SaveProgram
  <2>1. pc' \in {"gone", "idle", "new", "crashed", "program", "content"}
    BY <1>6 DEF InitHost, Close, Restart, Crash, BeginSave, SaveProgram
  <2> QED
    BY <2>1
<1>7. CASE SaveContent
  BY <1>7, SaveContentEffect
<1> QED
  BY <1>1, <1>2, <1>3, <1>4, <1>5, <1>6, <1>7, <1>8 DEF Next

LEMMA InForceNext ==
  StateFileAssumption /\ Types /\ Phases /\ Saved /\ Restoring /\ InForce /\ [Next]_vars
    => InForce'
<1> SUFFICES ASSUME StateFileAssumption, Types, Phases, Saved, Restoring, InForce, [Next]_vars,
                    pc' \in {"idle", "init"}, clean', io'.pos > 0, io'.ok, good'
             PROVE  /\ fst' # 0
                    /\ SettingsSoFar(Last(was'.jfst) + 6, jfst', was'.jfst, before'.jfst)
                    /\ SoundSoFar(Last(was'.jfst) + 6, plugin'[fst'], was'.jfst, was'.plugin,
                                  opt'.chunks, Right')
  BY DEF InForce
<1>1. CASE LoadElement
  BY <1>1, LoadElementEffect
<1>2. CASE Loaded
  <2>1. /\ jfst' = jfst /\ plugin' = plugin /\ fst' = fst /\ before' = before /\ clean
        /\ was' = was /\ opt' = opt /\ good
    BY <1>2 DEF Loaded, host, hist
  <2>2. CASE pc = "failed" /\ Finish(FALSE)
    <3>1. FALSE \in BOOLEAN
      OBVIOUS
    <3>2. io'.ok = FALSE
      BY <3>1, <2>2, FinishEffect
    <3> QED
      BY <3>2
  <2>3. CASE pc = "load" /\ io.pos > Len(file)
    <3>1. Len(file) = Last(was.jfst) + 5 /\ Last(was.jfst) \in Nat
      BY <2>1, OwnFile
    <3>2. io.pos \in Nat /\ io.pos <= Len(file) + 1
      BY DEF Types, IoType
    <3>3. io.pos = Last(was.jfst) + 6
      BY <3>1, <3>2, <2>3
    <3>4. /\ SettingsSoFar(io.pos, jfst, was.jfst, before.jfst)
          /\ SoundSoFar(io.pos, plugin[fst], was.jfst, was.plugin, opt.chunks, Right)
      BY <2>1, <2>3 DEF Restoring
    <3>5. fst # 0
      BY <2>3 DEF Phases
    <3> QED
      BY <3>3, <3>4, <3>5, <2>1 DEF Right
  <2> QED
    BY <1>2, <2>2, <2>3 DEF Loaded
<1>3. CASE InitHost
  <2>1. /\ jfst' = jfst /\ fst' = fst /\ before' = before /\ clean /\ was' = was /\ opt' = opt
        /\ good /\ pc = "init"
    BY <1>3 DEF InitHost, hist
  <2>2. io'.ok = io.ok /\ io'.pos = io.pos /\ SamePrograms(plugin', plugin) /\ fst \in Plugins
    BY <1>3, InitHostEffect
  <2>3. /\ SettingsSoFar(Last(was.jfst) + 6, jfst, was.jfst, before.jfst)
        /\ SoundSoFar(Last(was.jfst) + 6, plugin[fst], was.jfst, was.plugin, opt.chunks, Right)
    BY <2>1, <2>2 DEF InForce
  <2>p. PICK p : p = Last(was.jfst) + 6
    OBVIOUS
  <2>f. PICK f : f = plugin[fst]
    OBVIOUS
  <2>h. PICK h : h = plugin'[fst]
    OBVIOUS
  <2>s. PICK s : s = was.jfst
    OBVIOUS
  <2>g. PICK g : g = was.plugin
    OBVIOUS
  <2>c. PICK c : c = opt.chunks
    OBVIOUS
  <2>u. PICK u : u = Right
    OBVIOUS
  <2>4. f.prog = h.prog /\ f.data = h.data
    BY <2>2, <2>f, <2>h DEF SamePrograms
  <2>5. SoundSoFar(p, f, s, g, c, u)
    BY <2>3, <2>p, <2>f, <2>s, <2>g, <2>c, <2>u
  <2>6. SoundSoFar(p, h, s, g, c, u)
    BY <2>4, <2>5, SoundSame
  <2>7. fst # 0
    BY <2>2 DEF Plugins
  <2> QED
    BY <2>1, <2>3, <2>6, <2>7, <2>p, <2>h, <2>s, <2>g, <2>c, <2>u DEF Right
<1>4. CASE UNCHANGED vars
  <2>1. /\ jfst' = jfst /\ plugin' = plugin /\ fst' = fst /\ before' = before /\ clean' = clean
        /\ pc' = pc /\ io' = io /\ was' = was /\ opt' = opt /\ good' = good
    BY <1>4 DEF vars, host, hist
  <2> QED
    BY <2>1 DEF InForce, Right
<1>10. CASE NoticeProgram
  <2>1. /\ jfst' = jfst /\ fst' = fst /\ before' = before /\ clean' = clean
        /\ pc' = pc /\ io' = io /\ was' = was /\ opt' = opt /\ good' = good
    BY <1>10 DEF NoticeProgram, hist
  <2>2. fst \in Plugins
    BY <2>1 DEF InForce, Types, Plugins, StateFileAssumption
  <2>3. plugin'[fst].prog = plugin[fst].prog /\ plugin'[fst].data = plugin[fst].data
    BY <2>2, <1>10, NoticeEffect
  <2>p. PICK p : p = Last(was.jfst) + 6
    OBVIOUS
  <2>4. /\ fst # 0
        /\ SettingsSoFar(p, jfst, was.jfst, before.jfst)
        /\ SoundSoFar(p, plugin[fst], was.jfst, was.plugin, opt.chunks, Right)
    BY <2>1, <2>p DEF InForce
  <2>5. SoundSoFar(p, plugin'[fst], was.jfst, was.plugin, opt.chunks, Right)
    BY <2>3, <2>4, SoundSame
  <2> QED
    BY <2>1, <2>4, <2>5, <2>p DEF Right
<1>5. CASE LoadPlugin
  BY <1>5 DEF LoadPlugin, Phases, hist
<1>6. CASE Edit \/ LoadFx \/ Restart
  BY <1>6 DEF Edit, LoadFx, Restart
<1>7. CASE SaveContent
  <2>1. io'.pos = 0
    BY <1>7, SaveContentEffect DEF SaveContent, Phases
  <2> QED
    BY <2>1
<1>8. CASE Close \/ Crash \/ BeginSave \/ SaveProgram
  <2>1. pc' \in {"gone", "crashed", "program", "content"}
    BY <1>8 DEF Close, Crash, BeginSave, SaveProgram
  <2> QED
    BY <2>1
<1>9. CASE BeginLoad
  BY <1>9 DEF BeginLoad
<1> QED
  BY <1>1, <1>2, <1>3, <1>4, <1>5, <1>6, <1>7, <1>8, <1>9, <1>10 DEF Next

-----------------------------------------------------------------------------
LEMMA IInvInit == StateFileAssumption /\ Init => IInv
<1> SUFFICES ASSUME StateFileAssumption, Init
             PROVE  IInv
  OBVIOUS
<1>1. Types
  BY TypesInit
<1>2. /\ pc = "new" /\ fst = 0 /\ ~clean /\ ~good /\ ~swapped /\ io.pos = 0 /\ io.start
      /\ plugin = [k \in Plugins |-> Unopened]
  BY DEF Init
<1>3. Opened
  <2>1. Unopened.state = "none" /\ 0 \notin Plugins
    BY DEF Unopened, Plugins
  <2> QED
    BY <2>1, <1>2 DEF Opened
<1> QED
  BY <1>1, <1>2, <1>3 DEF IInv, Phases, Untouched, Ignored, Saving, Saved, StillRight, Restoring, InForce

LEMMA IInvNext == StateFileAssumption /\ IInv /\ [Next]_vars => IInv'
BY TypesNext, PhasesNext, OpenedNext, UntouchedNext, IgnoredNext, SavingNext, SavedNext,
   StillRightNext, RestoringNext, InForceNext DEF IInv

(* Every reachable state satisfies the inductive invariant: types, phases,  *)
(* the one plugin, and how far saving and loading have got.                 *)
THEOREM StateInvariant == Spec => []IInv
<1>1. StateFileAssumption
  BY StateFileAssumption
<1> QED
  BY <1>1, IInvInit, IInvNext, PTL DEF Spec

(* A host that has started has exactly one plugin and it runs, unless an    *)
(* .fxp or .fxb was loaded (jfst_load_state's second half).                 *)
THEOREM OnePluginPlays == Spec => []HostPlays
<1>1. IInv => HostPlays
  <2> SUFFICES ASSUME IInv
               PROVE  HostPlays
    OBVIOUS
  <2>1. Types /\ Phases /\ Opened
    BY DEF IInv
  <2>2. TypeOK
    <3>1. \A k \in Plugins : plugin[k].state \in {"none", "open", "running", "closed"}
      BY <2>1 DEF Types, PluginType
    <3>2. jfst.map \in [1 .. CCs -> None .. 1] /\ jfst.channel \in 0 .. 1
      BY <2>1 DEF Types, JfstType
    <3>3. \A k \in DOMAIN jfst.filters : jfst.filters[k] \in Filters
      <4>1. jfst.filters \in Seq(Filters)
        BY <2>1 DEF Types, JfstType
      <4> QED
        BY <4>1, LenProperties, ElementOfSeq
    <3>4. io.pos \in 0 .. Len(file) + 1
      <4>1. io.pos \in Nat /\ io.pos <= Len(file) + 1 /\ Len(file) \in Nat
        BY <2>1, LenProperties DEF Types, IoType
      <4> QED
        BY <4>1
    <3> QED
      BY <2>1, <3>1, <3>2, <3>3, <3>4 DEF TypeOK, Types, Phases
  <2> QED
    BY <2>1, <2>2 DEF HostPlays, Opened
<1> QED
  BY <1>1, StateInvariant, PTL

(* A file that cannot be parsed or belongs to another plugin changes        *)
(* neither the settings nor the plugin (fps_check_this comes first).        *)
THEOREM ForeignFilesIgnored == Spec => []ForeignIgnored
<1>1. IInv => ForeignIgnored
  BY DEF IInv, Ignored, Foreign, Same, ForeignIgnored, LoadDone
<1> QED
  BY <1>1, StateInvariant, PTL

(* What fps_save wrote undisturbed is in force again once fps_load has read *)
(* it undisturbed, in this session or a later one, whatever the file was    *)
(* read on top of.                                                          *)
THEOREM SavedIsRestored == Spec => []RoundTrip
<1>1. IInv => RoundTrip
  <2> SUFFICES ASSUME IInv, LoadDone, io.ok, good
               PROVE  RoundTrip
    BY DEF RoundTrip
  <2>1. /\ SettingsSoFar(Last(was.jfst) + 6, jfst, was.jfst, before.jfst)
        /\ SoundSoFar(Last(was.jfst) + 6, plugin[fst], was.jfst, was.plugin, opt.chunks, Right)
    BY DEF IInv, InForce, LoadDone
  <2>2. /\ was.jfst \in JfstType /\ before.jfst \in JfstType /\ jfst \in JfstType
        /\ Last(was.jfst) \in Nat
    BY StateFileAssumption, OwnFile DEF IInv
  <2>s. PICK s \in JfstType : s = was.jfst
    BY <2>2
  <2>b. PICK b \in JfstType : b = before.jfst
    BY <2>2
  <2>j. PICK j \in JfstType : j = jfst
    BY <2>2
  <2>3. SettingsSoFar(Last(s) + 6, j, s, b)
    BY <2>1, <2>s, <2>b, <2>j
  <2>4. j = [s EXCEPT
               !.map = [cc \in 1 .. CCs |-> IF @[cc] # None THEN @[cc] ELSE b.map[cc]],
               !.volume = IF @ = Off \/ b.volume = Off THEN b.volume ELSE @,
               !.mode = IF @ = None THEN b.mode ELSE @,
               !.filters = b.filters \o (IF s.channel = 0 THEN @ ELSE <<>>)]
    BY <2>3, StateFileAssumption, SettingsLast
  <2>5. /\ Noticed(before.plugin[fst]) => plugin[fst].prog = was.plugin.current
        /\ IF opt.chunks THEN plugin[fst].data = was.plugin.data
           ELSE plugin[fst].data[plugin[fst].prog] = SixDecimals(was.plugin.data[was.plugin.prog])
    <3>1. Last(was.jfst) + 6 > Last(was.jfst) + 4 /\ Last(was.jfst) + 6 > Last(was.jfst) + 5
      BY <2>2
    <3> QED
      BY <2>1, <3>1 DEF SoundSoFar, Right
  <2> QED
    BY <2>4, <2>5, <2>s, <2>b, <2>j DEF RoundTrip
<1> QED
  BY <1>1, StateInvariant, PTL

-----------------------------------------------------------------------------
(* The plugin, and what a file carries of it as a chunk.                    *)
PlugType == [chunks : BOOLEAN, prog : Presets, bank : [Presets -> [Indices -> Floats]],
             names : [Presets -> Names]]

BankChunks   == [Presets -> [Indices -> Floats]] \X [Presets -> Names]
PresetChunks == [Indices -> Floats] \X Names

FxTypes ==
  /\ plug \in PlugType /\ origin \in PlugType /\ plug.chunks = origin.chunks
  /\ current \in Presets
  /\ fxfile \in [words : Seq(Nat), chunk : {<<>>} \cup BankChunks \cup PresetChunks]
  /\ fx \in [saving : BOOLEAN, bank : BOOLEAN, cur : Presets, p : Nat, n : Nat, pos : Nat]
  /\ fx.pos <= Len(fxfile.words)
  /\ step \in {"idle", "chunk", "name", "params", "select", "current", "back"}
  /\ quiet \in BOOLEAN /\ whole \in BOOLEAN /\ edits \in 0 .. MaxEdits
  /\ quiet => current = plug.prog

(* The header of a program is followed by its name and its parameters, or    *)
(* by its chunk, whatever file it stands in.                                *)
Headed(ws) ==
  \A k \in 1 .. Len(ws) :
    /\ ws[k] \in {FPCh, FxCk} /\ k + 5 <= Len(ws) => ws[k + 5] \in Names
    /\ ws[k] = FxCk => \A i \in Indices : k + 11 + i <= Len(ws) =>
                         ws[k + 11 + i] \in {Zero, Big}

(* All of it is there, but for the program that is being written.           *)
Ended(ws) ==
  \A k \in 1 .. Len(ws) :
    /\ ws[k] = FxCk => \/ k + 11 + Params <= Len(ws)
                       \/ fx.saving /\ step = "name" /\ ~fx.bank /\ k + 4 = Len(ws)
                       \/ fx.saving /\ step = "params" /\ k + 11 = Len(ws)
    /\ ws[k] = FPCh => \/ k + 5 <= Len(ws)
                       \/ fx.saving /\ step \in {"chunk", "name"} /\ ~fx.bank /\ k + 4 = Len(ws)

Chunked ==
  ~(fx.saving /\ step = "chunk") =>
    /\ (\E k \in 1 .. Len(fxfile.words) : Word(k) = FPCh) => fxfile.chunk \in PresetChunks
    /\ Len(fxfile.words) >= HeaderSize /\ Word(3) = FBCh /\ Word(5) = Uid =>
         fxfile.chunk \in BankChunks

Kinded ==
  Len(fxfile.words) >= HeaderSize =>
    /\ Word(3) \in {FxCk, FxBk, FPCh, FBCh}
    /\ Word(3) \in {FxBk, FBCh} => Len(fxfile.words) >= HoleEnd

OnDisk == Headed(fxfile.words) /\ Ended(fxfile.words) /\ Chunked /\ Kinded

(* What the thread that saves has begun with.                               *)
Begun ==
  fx.saving =>
    /\ Len(fxfile.words) >= HeaderSize /\ Word(5) = Uid
    /\ Word(3) = IF fx.bank THEN IF plug.chunks THEN FBCh ELSE FxBk
                 ELSE IF plug.chunks THEN FPCh ELSE FxCk
    /\ step # "current"
    /\ step = "chunk" => plug.chunks /\ Len(fxfile.words) = IF fx.bank THEN HoleEnd ELSE HeaderSize
    /\ step = "chunk" /\ fx.bank => \A k \in 1 .. Len(fxfile.words) : Word(k) # FPCh
    /\ step = "name" => IF fx.bank THEN ~plug.chunks ELSE Len(fxfile.words) = HeaderSize
    /\ step = "params" => ~plug.chunks
    /\ step \in {"select", "back"} => fx.bank /\ ~plug.chunks
    /\ fx.bank /\ step \in {"select", "name", "params"} => fx.p < NumPrograms

(* Nothing but the program selected has changed, and that is known.         *)
Looking ==
  fx.saving /\ quiet /\ step # "idle" =>
    /\ plug.bank = origin.bank /\ plug.names = origin.names
    /\ fx.cur = origin.prog
    /\ ~(fx.bank /\ ~plug.chunks) => plug.prog = origin.prog
    /\ fx.bank /\ step \in {"name", "params"} => plug.prog = fx.p
    /\ step = "back" => plug.prog = NumPrograms - 1

(* Where program q of a bank of as many programs as parameters stands, and   *)
(* what stands there.                                                       *)
At(q) == HoleEnd + q * (HeaderSize + NameSize + Params)

Titled(ws, q) ==
  /\ At(q) + HeaderSize + NameSize <= Len(ws)
  /\ ws[At(q) + 3] = FxCk /\ ws[At(q) + 7] = NumPrograms
  /\ ws[At(q) + 8] = origin.names[q]

Block(ws, q) ==
  /\ Titled(ws, q)
  /\ At(q) + HeaderSize + NameSize + Params <= Len(ws)
  /\ \A i \in Indices : ws[At(q) + HeaderSize + NameSize + i] = SwapFloat(origin.bank[q][i])

BankBegun == Word(4) = 2 /\ Word(7) = NumPrograms /\ Word(8) = origin.prog

OneChunk == fxfile.chunk = << origin.bank[origin.prog], origin.names[origin.prog] >>

(* How far a file has been written that is whole in the end.                *)
Writing ==
  fx.saving /\ quiet /\ step # "idle" =>
    /\ fx.bank => BankBegun /\ Len(fxfile.words) >= HoleEnd
    /\ ~fx.bank /\ plug.chunks /\ step = "name" => OneChunk
    /\ ~fx.bank /\ step = "params" =>
         Len(fxfile.words) = HeaderSize + NameSize /\ Word(8) = origin.names[origin.prog]
    /\ fx.bank /\ step \in {"select", "name"} => Len(fxfile.words) = At(fx.p)
    /\ fx.bank /\ step = "params" =>
         Len(fxfile.words) = At(fx.p) + HeaderSize + NameSize /\ Titled(fxfile.words, fx.p)
    /\ fx.bank /\ step \in {"select", "name", "params"} =>
         \A q \in Presets : q < fx.p => Block(fxfile.words, q)
    /\ step = "back" => \A q \in Presets : Block(fxfile.words, q)

Complete ==
  whole =>
    /\ Len(fxfile.words) >= HeaderSize
    /\ fx.saving => step = "idle"
    /\ Word(3) = FBCh => /\ BankBegun /\ Len(fxfile.words) = HoleEnd + 1
                         /\ fxfile.chunk = << origin.bank, origin.names >>
    /\ Word(3) = FPCh => OneChunk /\ Len(fxfile.words) = HeaderSize + NameSize + 1
    /\ Word(3) = FxCk => /\ Len(fxfile.words) >= HeaderSize + NameSize
                         /\ Word(8) = origin.names[origin.prog]
    /\ Word(3) = FxBk => /\ BankBegun /\ Len(fxfile.words) >= HoleEnd
                         /\ \A q \in Presets : Block(fxfile.words, q)

(* Where the thread that loads stands.                                      *)
Reading ==
  ~fx.saving /\ step # "idle" =>
    /\ Len(fxfile.words) >= HeaderSize /\ Word(5) = Uid
    /\ fx.bank = (Word(3) \in {FxBk, FBCh})
    /\ step # "back"
    /\ step = "current" => fx.bank /\ fx.p = 0 /\ fx.pos = HoleEnd
    /\ step = "select" => Word(3) = FxBk
    /\ step = "name" => /\ fx.pos >= HeaderSize /\ Word(fx.pos - 4) \in {FPCh, FxCk}
                        /\ ~fx.bank => fx.pos = HeaderSize
    /\ step = "params" => fx.pos >= HeaderSize + NameSize /\ Word(fx.pos - 11) = FxCk
    /\ step = "chunk" => Word(3) = FBCh \/ fxfile.chunk \in PresetChunks

Back(q) == /\ plug.names[q] = origin.names[q]
           /\ \A i \in Indices : plug.bank[q][i] = AfterTrip(origin.bank[q][i])

(* What of a whole file the plugin has again.                               *)
Reloading ==
  ~fx.saving /\ quiet /\ whole /\ step # "idle" =>
    /\ Word(3) = FBCh => /\ step \in {"current", "chunk"} /\ fx.pos = HoleEnd
                         /\ step = "chunk" => plug.prog = origin.prog
    /\ Word(3) = FPCh => \/ step = "name"
                         \/ step = "chunk" /\ fx.pos = HeaderSize + NameSize
    /\ Word(3) = FxCk => \/ step = "name"
                         \/ step = "params" /\ plug.names[plug.prog] = origin.names[origin.prog]
    /\ Word(3) = FxBk /\ NumPrograms = Params =>
         /\ step \in {"current", "select", "name", "params"}
         /\ fx.p < NumPrograms
         /\ \A q \in Presets : q < fx.p => Back(q)
         /\ step = "select" => fx.pos = At(fx.p)
         /\ step \in {"name", "params"} => plug.prog = fx.p /\ fx.n = NumPrograms
         /\ step = "name" => fx.pos = At(fx.p) + HeaderSize
         /\ step = "params" => /\ fx.pos = At(fx.p) + HeaderSize + NameSize
                               /\ plug.names[fx.p] = origin.names[fx.p]

FxIInv ==
  /\ FxTypes /\ OnDisk /\ Begun /\ Looking /\ Writing /\ Complete /\ Reading /\ Reloading
  /\ Restored /\ SavingOnlyLooks
-----------------------------------------------------------------------------
(* The words of a file are told apart by their values.                       *)
LEMMA FxWords ==
  /\ Base \in Nat /\ NumPrograms \in Nat /\ Params \in Nat /\ Uid \in Nat
  /\ 1 <= NumPrograms /\ 1 <= Params /\ NumPrograms < Base /\ Params < Base /\ 2 <= Base
  /\ Zero \in Nat /\ Big \in Nat /\ CcnK \in Nat /\ Other \in Nat /\ Uid # Other
  /\ {FxCk, FxBk, FPCh, FBCh} \subseteq Nat
  /\ FxCk # FPCh /\ FxBk \notin {FxCk, FPCh} /\ FBCh \notin {FxCk, FPCh, FxBk}
  /\ Uid \notin {FxCk, FPCh} /\ CcnK \notin {FxCk, FPCh} /\ Other \notin {FxCk, FPCh}
  /\ Zero \notin {FxCk, FPCh} /\ Big \notin {FxCk, FPCh}
  /\ \A n \in Nat : n <= Base => n \notin {FxCk, FPCh}
  /\ Names \subseteq Nat /\ \A name \in Names : name \notin {FxCk, FPCh}
  /\ NewName \in Names /\ PresetName \in Names /\ \A p \in Presets : Name(p) \in Names
  BY FxAssumption DEF Base, Uid, Zero, Big, CcnK, Other, FxCk, FxBk, FPCh, FBCh, Names, Presets,
                      Name, NewName, PresetName

LEMMA FxSizes == HeaderSize = 7 /\ NameSize = 7 /\ HoleEnd = 39
  BY DEF HeaderSize, NameSize, HoleEnd

(* What a float becomes in a file, and there and back.                       *)
LEMMA FxFloats ==
  /\ \A v \in Floats : SwapFloat(v) \in {Zero, Big}
  /\ \A w \in {Zero, Big} : SwapFloat(w) \in Floats
  /\ \A v \in Floats : SwapFloat(SwapFloat(v)) = AfterTrip(v)
  /\ Values \subseteq Floats /\ Zero \in Floats /\ One \in Floats
  BY FxAssumption DEF Base, Zero, Half, One, Big, Junk, SwapFloat, AfterTrip, Floats

LEMMA FxNumbers ==
  /\ Presets \subseteq Nat /\ 0 \in Presets /\ \A n \in Nat : n \in Presets <=> n < NumPrograms
  /\ SwapInt(0) = 0
  /\ \A n \in Nat \ {0} : SwapInt(n) \in Nat /\ SwapInt(n) \notin Presets
  BY FxAssumption DEF Presets, SwapInt, Junk, Base

(* What appending does.                                                     *)
(* What r is, when it is a with b behind it.                                *)
Appended(r, a, b) ==
  /\ r \in Seq(Nat) /\ Len(r) = Len(a) + Len(b)
  /\ Len(a) \in Nat /\ Len(b) \in Nat /\ Len(r) \in Nat
  /\ \A k \in 1 .. Len(a) : r[k] = a[k]
  /\ \A k \in 1 .. Len(b) : r[Len(a) + k] = b[k]
  /\ \A k \in 1 .. Len(r) : k > Len(a) => k - Len(a) \in 1 .. Len(b) /\ r[k] = b[k - Len(a)]

LEMMA FxAppended ==
  ASSUME NEW a \in Seq(Nat), NEW b \in Seq(Nat), NEW r, r = a \o b
  PROVE  Appended(r, a, b)
<1>1. /\ r \in Seq(Nat) /\ Len(r) = Len(a) + Len(b)
      /\ \A i \in 1 .. Len(a) + Len(b) : r[i] = IF i <= Len(a) THEN a[i] ELSE b[i - Len(a)]
  BY ConcatProperties
<1>2. Len(a) \in Nat /\ Len(b) \in Nat /\ Len(r) \in Nat
  BY <1>1, LenProperties
<1>3. \A k \in 1 .. Len(a) : r[k] = a[k]
  BY ONLY <1>1, <1>2
<1>4. ASSUME NEW k \in 1 .. Len(b)
      PROVE  r[Len(a) + k] = b[k]
  <2>1. Len(a) + k \in 1 .. Len(a) + Len(b) /\ ~(Len(a) + k <= Len(a)) /\ Len(a) + k - Len(a) = k
    BY <1>2
  <2>. QED BY <2>1, <1>1
<1>5. ASSUME NEW k \in 1 .. Len(r), k > Len(a)
      PROVE  k - Len(a) \in 1 .. Len(b) /\ r[k] = b[k - Len(a)]
  BY <1>1, <1>2, <1>5
<1>. QED BY <1>1, <1>2, <1>3, <1>4, <1>5 DEF Appended

LEMMA FxRepeats ==
  ASSUME NEW w \in Nat, NEW n \in Nat
  PROVE  Repeat(w, n) \in Seq(Nat) /\ Len(Repeat(w, n)) = n
         /\ \A k \in 1 .. n : Repeat(w, n)[k] = w
  BY DEF Repeat

LEMMA FxHeaders ==
  ASSUME NEW m \in Nat, NEW v \in Nat, NEW id \in Nat, NEW n \in Nat
  PROVE  /\ FXHeader(m, v, id, n) \in Seq(Nat) /\ Len(FXHeader(m, v, id, n)) = 7
         /\ FXHeader(m, v, id, n)[1] = CcnK /\ FXHeader(m, v, id, n)[2] = 0
         /\ FXHeader(m, v, id, n)[3] = m /\ FXHeader(m, v, id, n)[4] = v
         /\ FXHeader(m, v, id, n)[5] = id /\ FXHeader(m, v, id, n)[6] = 1
         /\ FXHeader(m, v, id, n)[7] = n
<1>1. CcnK \in Nat
  BY FxWords
<1>. QED BY <1>1 DEF FXHeader

(* A step of fst_set_program, as far as the plugin has the program.          *)
LEMMA FxSetProgram ==
  ASSUME FxTypes, NEW p \in Nat, SetProgram(p)
  PROVE  /\ plug' \in PlugType /\ current' \in Presets
         /\ plug'.chunks = plug.chunks /\ plug'.bank = plug.bank /\ plug'.names = plug.names
         /\ current = plug.prog => current' = plug'.prog
         /\ current = plug.prog => plug'.prog = IF p \in Presets THEN p ELSE plug.prog
  BY DEF FxTypes, PlugType, SetProgram

(* The type invariant the run checks.                                       *)
LEMMA FxTypesOK == FxTypes => FxTypeOK
  BY DEF FxTypes, FxTypeOK, PlugType

-----------------------------------------------------------------------------
(* While a file is loaded what is in it stays, and what is known of it.      *)
LEMMA FxFrozen ==
  ASSUME OnDisk, Complete, ~fx.saving \/ step = "idle", ~fx'.saving,
         UNCHANGED <<fxfile, origin, whole>>
  PROVE  OnDisk' /\ Begun' /\ Looking' /\ Writing' /\ Complete' /\ SavingOnlyLooks'
<1>1. Headed(fxfile.words)' /\ Kinded'
  BY DEF OnDisk, Headed, Kinded, Word
<1>2. Ended(fxfile.words)'
  <2>1. ASSUME NEW k \in 1 .. Len(fxfile.words)
        PROVE  /\ fxfile.words[k] = FxCk => k + 11 + Params <= Len(fxfile.words)
               /\ fxfile.words[k] = FPCh => k + 5 <= Len(fxfile.words)
    BY DEF OnDisk, Ended
  <2>. QED BY <2>1 DEF Ended
<1>3. Chunked'
  BY DEF OnDisk, Chunked, Word
<1>4. Complete'
  BY DEF Complete, BankBegun, OneChunk, Word, Block, Titled
<1>. QED BY <1>1, <1>2, <1>3, <1>4 DEF OnDisk, Begun, Looking, Writing, SavingOnlyLooks

(* The editor, and the event thread, disturb no file.                        *)
LEMMA FxDisturb ==
  ASSUME FxIInv, UNCHANGED <<fxfile, step, fx, origin, whole>>, plug' \in PlugType,
         plug'.chunks = plug.chunks, current' \in Presets, edits' \in 0 .. MaxEdits, ~quiet',
         quiet' \in BOOLEAN
  PROVE  FxIInv'
<1>1. FxTypes'
  BY DEF FxIInv, FxTypes
<1>2. OnDisk'
  BY DEF FxIInv, OnDisk, Headed, Ended, Chunked, Kinded, Word
<1>3. Begun'
  BY DEF FxIInv, Begun, Word
<1>4. Complete'
  BY DEF FxIInv, Complete, BankBegun, OneChunk, Word, Block, Titled
<1>5. Reading'
  BY DEF FxIInv, Reading, Word
<1>6. Restored'
  BY <1>1, FxTypesOK DEF Restored, FxTypes, FxTypeOK, PlugType
<1>. QED BY <1>1, <1>2, <1>3, <1>4, <1>5, <1>6
         DEF FxIInv, Looking, Writing, Reloading, SavingOnlyLooks

LEMMA FxEdits == FxIInv /\ EditPlugin => FxIInv'
<1>. SUFFICES ASSUME FxIInv, EditPlugin
              PROVE  FxIInv'
  OBVIOUS
<1>0. /\ UNCHANGED <<current, fxfile, step, fx, origin, whole>> /\ ~quiet' /\ quiet' \in BOOLEAN
      /\ edits < MaxEdits /\ edits' = edits + 1
  BY DEF EditPlugin
<1>1. edits' \in 0 .. MaxEdits /\ current' \in Presets
  BY <1>0, FxAssumption DEF FxIInv, FxTypes
<1>2. plug \in PlugType
  BY DEF FxIInv, FxTypes
<1>3. plug' \in PlugType /\ plug'.chunks = plug.chunks
  <2>1. CASE \E i \in Indices, v \in Values : plug' = [plug EXCEPT !.bank[plug.prog][i] = v]
    <3>1. PICK i \in Indices, v \in Values : plug' = [plug EXCEPT !.bank[plug.prog][i] = v]
      BY <2>1
    <3>2. v \in Floats /\ plug.bank[plug.prog] \in [Indices -> Floats] /\ plug.prog \in Presets
      BY <1>2, FxFloats DEF PlugType
    <3>3. PICK b \in [Indices -> Floats] : b = [plug.bank[plug.prog] EXCEPT ![i] = v]
      BY <3>2
    <3>4. plug' = [plug EXCEPT !.bank = [plug.bank EXCEPT ![plug.prog] = b]]
      BY <3>1, <3>3, Zenon
    <3>. QED BY <3>4, <3>2, <1>2 DEF PlugType
  <2>2. CASE plug' = [plug EXCEPT !.names[plug.prog] = NewName]
    BY <2>2, <1>2, FxWords DEF PlugType
  <2>3. CASE \E p \in Presets : plug' = [plug EXCEPT !.prog = p]
    BY <2>3, <1>2 DEF PlugType
  <2>. QED BY <2>1, <2>2, <2>3 DEF EditPlugin
<1>. QED BY <1>0, <1>1, <1>3, FxDisturb

LEMMA FxNotices == FxIInv /\ Notice => FxIInv'
<1>. SUFFICES ASSUME FxIInv, Notice
              PROVE  FxIInv'
  OBVIOUS
<1>1. /\ UNCHANGED <<plug, fxfile, step, fx, origin, whole, quiet, edits>> /\ ~quiet
      /\ plug \in PlugType /\ current' \in Presets /\ edits \in 0 .. MaxEdits
      /\ quiet \in BOOLEAN
  BY DEF Notice, FxIInv, FxTypes, PlugType
<1>. QED BY <1>1, FxDisturb

-----------------------------------------------------------------------------
(* What may lie on disk at first is in order.                                *)
LEMMA FxForeignBank ==
  /\ ForeignBank \in Seq(Nat) /\ Len(ForeignBank) = 40
  /\ ForeignBank[3] = FBCh /\ ForeignBank[5] = Other
  /\ \A k \in 1 .. 40 : ForeignBank[k] \notin {FxCk, FPCh}
<1>. DEFINE a == FXHeader(FBCh, 2, Other, NumPrograms)
            b == Repeat(0, HoleEnd - HeaderSize)
            c == <<1>>
<1>1. /\ a \in Seq(Nat) /\ Len(a) = 7 /\ a[3] = FBCh /\ a[5] = Other
      /\ \A k \in 1 .. 7 : a[k] \notin {FxCk, FPCh}
  <2>1. FBCh \in Nat /\ Other \in Nat /\ NumPrograms \in Nat /\ 2 \in Nat
    BY FxWords
  <2>2. /\ a \in Seq(Nat) /\ Len(a) = 7 /\ a[1] = CcnK /\ a[2] = 0 /\ a[3] = FBCh /\ a[4] = 2
        /\ a[5] = Other /\ a[6] = 1 /\ a[7] = NumPrograms
    BY <2>1, FxHeaders
  <2>3. \A k \in 1 .. 7 : k \in {1, 2, 3, 4, 5, 6, 7}
    OBVIOUS
  <2>. HIDE DEF a
  <2>4. 0 \notin {FxCk, FPCh} /\ 1 \notin {FxCk, FPCh} /\ 2 \notin {FxCk, FPCh}
        /\ NumPrograms \notin {FxCk, FPCh} /\ CcnK \notin {FxCk, FPCh}
        /\ Other \notin {FxCk, FPCh} /\ FBCh \notin {FxCk, FPCh}
    BY FxWords
  <2>. QED BY <2>2, <2>3, <2>4
<1>2. b \in Seq(Nat) /\ Len(b) = 32 /\ \A k \in 1 .. 32 : b[k] = 0
  <2>1. PICK n \in Nat : n = HoleEnd - HeaderSize
    BY FxSizes
  <2>2. n = 32
    BY <2>1, FxSizes
  <2>3. Repeat(0, n) \in Seq(Nat) /\ Len(Repeat(0, n)) = n /\ \A k \in 1 .. n : Repeat(0, n)[k] = 0
    BY FxRepeats
  <2>. QED BY <2>1, <2>2, <2>3
<1>3. c \in Seq(Nat) /\ Len(c) = 1 /\ \A k \in 1 .. 1 : c[k] = 1
  OBVIOUS
<1>. HIDE DEF a, b, c
<1>4. 0 \notin {FxCk, FPCh} /\ 1 \notin {FxCk, FPCh}
  BY FxWords
<1>. DEFINE r == a \o b
<1>5. /\ r \in Seq(Nat) /\ Len(r) = 39 /\ r[3] = FBCh /\ r[5] = Other
      /\ \A k \in 1 .. Len(r) : r[k] \notin {FxCk, FPCh}
  <2>1. /\ r \in Seq(Nat) /\ Len(r) = Len(a) + Len(b)
        /\ \A k \in 1 .. Len(a) : r[k] = a[k]
        /\ \A k \in 1 .. Len(r) : k > Len(a) => k - Len(a) \in 1 .. Len(b) /\ r[k] = b[k - Len(a)]
    <3>1. Appended(r, a, b)
      BY <1>1, <1>2, FxAppended
    <3>. QED BY ONLY <3>1 DEF Appended
  <2>. HIDE DEF r
  <2>. QED BY <2>1, <1>1, <1>2, <1>4
<1>. HIDE DEF r
<1>6. /\ r \o c \in Seq(Nat) /\ Len(r \o c) = Len(r) + Len(c)
      /\ \A k \in 1 .. Len(r) : (r \o c)[k] = r[k]
      /\ \A k \in 1 .. Len(r \o c) : k > Len(r) =>
           k - Len(r) \in 1 .. Len(c) /\ (r \o c)[k] = c[k - Len(r)]
  <2>1. Appended(r \o c, r, c)
    BY <1>5, <1>3, FxAppended
  <2>. QED BY ONLY <2>1 DEF Appended
<1>7. ForeignBank = r \o c
  BY DEF r, a, b, c, ForeignBank
<1>8. /\ ForeignBank \in Seq(Nat) /\ Len(ForeignBank) = 40
      /\ \A k \in 1 .. 39 : ForeignBank[k] = r[k]
      /\ \A k \in 1 .. 40 : k > 39 => ForeignBank[k] = 1
  <2>1. Len(r) = 39 /\ Len(c) = 1 /\ Len(r) + Len(c) = 40
    BY <1>5, <1>3
  <2>2. /\ ForeignBank \in Seq(Nat) /\ Len(ForeignBank) = 40
        /\ \A k \in 1 .. 39 : ForeignBank[k] = r[k]
        /\ \A k \in 1 .. 40 : k > 39 => k - 39 \in 1 .. 1 /\ ForeignBank[k] = c[k - 39]
    BY <2>1, <1>6, <1>7
  <2>. QED BY <2>2, <1>3
<1>. QED BY <1>8, <1>5, <1>3, <1>4

LEMMA FxOldPreset ==
  /\ OldPreset \in Seq(Nat) /\ Len(OldPreset) = 15 /\ OldPreset[8] = NewName
  /\ \A k \in 1 .. 15 : OldPreset[k] # FxCk /\ (OldPreset[k] = FPCh => k = 3)
<1>. DEFINE a == FXHeader(FPCh, 1, Uid, 1)
            b == Repeat(NewName, NameSize)
            c == <<1>>
<1>0. /\ 0 \notin {FxCk, FPCh} /\ 1 \notin {FxCk, FPCh} /\ CcnK \notin {FxCk, FPCh}
      /\ Uid \notin {FxCk, FPCh} /\ NewName \notin {FxCk, FPCh} /\ FPCh # FxCk
      /\ FPCh \in Nat /\ Uid \in Nat /\ NewName \in Nat /\ NameSize = 7
  BY FxWords, FxSizes
<1>1. /\ a \in Seq(Nat) /\ Len(a) = 7
      /\ \A k \in 1 .. 7 : a[k] # FxCk /\ (a[k] = FPCh => k = 3)
  <2>2. /\ a \in Seq(Nat) /\ Len(a) = 7 /\ a[1] = CcnK /\ a[2] = 0 /\ a[3] = FPCh /\ a[4] = 1
        /\ a[5] = Uid /\ a[6] = 1 /\ a[7] = 1
    <3>1. 1 \in Nat
      OBVIOUS
    <3>. QED BY <1>0, <3>1, FxHeaders
  <2>3. \A k \in 1 .. 7 : k \in {1, 2, 3, 4, 5, 6, 7}
    OBVIOUS
  <2>. HIDE DEF a
  <2>. QED BY <2>2, <2>3, <1>0
<1>2. b \in Seq(Nat) /\ Len(b) = 7 /\ \A k \in 1 .. 7 : b[k] = NewName
  <2>1. PICK n \in Nat : n = NameSize /\ n = 7
    BY <1>0
  <2>2. Repeat(NewName, n) \in Seq(Nat) /\ Len(Repeat(NewName, n)) = n
        /\ \A k \in 1 .. n : Repeat(NewName, n)[k] = NewName
    BY <1>0, FxRepeats
  <2>. QED BY <2>1, <2>2
<1>3. c \in Seq(Nat) /\ Len(c) = 1 /\ \A k \in 1 .. 1 : c[k] = 1
  OBVIOUS
<1>. HIDE DEF a, b, c
<1>. DEFINE r == a \o b
<1>5. /\ r \in Seq(Nat) /\ Len(r) = 14 /\ r[8] = NewName
      /\ \A k \in 1 .. Len(r) : r[k] # FxCk /\ (r[k] = FPCh => k = 3)
  <2>1. /\ r \in Seq(Nat) /\ Len(r) = Len(a) + Len(b)
        /\ \A k \in 1 .. Len(a) : r[k] = a[k]
        /\ \A k \in 1 .. Len(r) : k > Len(a) => k - Len(a) \in 1 .. Len(b) /\ r[k] = b[k - Len(a)]
    <3>1. Appended(r, a, b)
      BY <1>1, <1>2, FxAppended
    <3>. QED BY ONLY <3>1 DEF Appended
  <2>. HIDE DEF r
  <2>. QED BY <2>1, <1>1, <1>2, <1>0
<1>. HIDE DEF r
<1>6. /\ r \o c \in Seq(Nat) /\ Len(r \o c) = Len(r) + Len(c)
      /\ \A k \in 1 .. Len(r) : (r \o c)[k] = r[k]
      /\ \A k \in 1 .. Len(r \o c) : k > Len(r) =>
           k - Len(r) \in 1 .. Len(c) /\ (r \o c)[k] = c[k - Len(r)]
  <2>1. Appended(r \o c, r, c)
    BY <1>5, <1>3, FxAppended
  <2>. QED BY ONLY <2>1 DEF Appended
<1>7. OldPreset = r \o c
  BY DEF r, a, b, c, OldPreset
<1>8. /\ OldPreset \in Seq(Nat) /\ Len(OldPreset) = 15
      /\ \A k \in 1 .. 14 : OldPreset[k] = r[k]
      /\ \A k \in 1 .. 15 : k > 14 => OldPreset[k] = 1
  <2>1. Len(r) = 14 /\ Len(c) = 1 /\ Len(r) + Len(c) = 15
    BY <1>5, <1>3
  <2>2. /\ OldPreset \in Seq(Nat) /\ Len(OldPreset) = 15
        /\ \A k \in 1 .. 14 : OldPreset[k] = r[k]
        /\ \A k \in 1 .. 15 : k > 14 => k - 14 \in 1 .. 1 /\ OldPreset[k] = c[k - 14]
    BY <2>1, <1>6, <1>7
  <2>. QED BY <2>2, <1>3
<1>. QED BY <1>8, <1>5, <1>3, <1>0

LEMMA FxOldBank ==
  /\ OldBank \in Seq(Nat) /\ Len(OldBank) = 54 /\ OldBank[3] = FxBk /\ OldBank[47] = NewName
  /\ \A k \in 1 .. 54 : OldBank[k] # FxCk /\ (OldBank[k] = FPCh => k = 42)
<1>0. /\ 0 \notin {FxCk, FPCh} /\ 1 \notin {FxCk, FPCh} /\ 2 \notin {FxCk, FPCh}
      /\ CcnK \notin {FxCk, FPCh} /\ Uid \notin {FxCk, FPCh} /\ FxBk \notin {FxCk, FPCh}
      /\ FxBk \in Nat /\ Uid \in Nat /\ 1 \in Nat /\ 2 \in Nat
  BY FxWords
<1>. DEFINE a == FXHeader(FxBk, 1, Uid, 2)
            b == Repeat(0, HoleEnd - HeaderSize)
            o == OldPreset
            r == a \o b
<1>1. /\ a \in Seq(Nat) /\ Len(a) = 7 /\ a[3] = FxBk
      /\ \A k \in 1 .. 7 : a[k] \notin {FxCk, FPCh}
  <2>2. /\ a \in Seq(Nat) /\ Len(a) = 7 /\ a[1] = CcnK /\ a[2] = 0 /\ a[3] = FxBk /\ a[4] = 1
        /\ a[5] = Uid /\ a[6] = 1 /\ a[7] = 2
    BY <1>0, FxHeaders
  <2>3. \A k \in 1 .. 7 : k \in {1, 2, 3, 4, 5, 6, 7}
    OBVIOUS
  <2>. HIDE DEF a
  <2>. QED BY <2>2, <2>3, <1>0
<1>2. b \in Seq(Nat) /\ Len(b) = 32 /\ \A k \in 1 .. 32 : b[k] = 0
  <2>1. PICK n \in Nat : n = HoleEnd - HeaderSize
    BY FxSizes
  <2>2. n = 32
    BY <2>1, FxSizes
  <2>3. Repeat(0, n) \in Seq(Nat) /\ Len(Repeat(0, n)) = n /\ \A k \in 1 .. n : Repeat(0, n)[k] = 0
    BY FxRepeats
  <2>. QED BY <2>1, <2>2, <2>3
<1>3. /\ o \in Seq(Nat) /\ Len(o) = 15 /\ o[8] = NewName
      /\ \A k \in 1 .. 15 : o[k] # FxCk /\ (o[k] = FPCh => k = 3)
  BY FxOldPreset
<1>4. OldBank = r \o o
  BY DEF OldBank
<1>. HIDE DEF a, b, o
<1>5. /\ r \in Seq(Nat) /\ Len(r) = 39 /\ r[3] = FxBk
      /\ \A k \in 1 .. Len(r) : r[k] \notin {FxCk, FPCh}
  <2>1. /\ r \in Seq(Nat) /\ Len(r) = Len(a) + Len(b)
        /\ \A k \in 1 .. Len(a) : r[k] = a[k]
        /\ \A k \in 1 .. Len(r) : k > Len(a) => k - Len(a) \in 1 .. Len(b) /\ r[k] = b[k - Len(a)]
    <3>1. Appended(r, a, b)
      BY <1>1, <1>2, FxAppended
    <3>. QED BY ONLY <3>1 DEF Appended
  <2>. HIDE DEF r
  <2>. QED BY <2>1, <1>1, <1>2, <1>0
<1>. HIDE DEF r
<1>6. /\ r \o o \in Seq(Nat) /\ Len(r \o o) = Len(r) + Len(o)
      /\ \A k \in 1 .. Len(r) : (r \o o)[k] = r[k]
      /\ \A k \in 1 .. Len(o) : (r \o o)[Len(r) + k] = o[k]
      /\ \A k \in 1 .. Len(r \o o) : k > Len(r) =>
           k - Len(r) \in 1 .. Len(o) /\ (r \o o)[k] = o[k - Len(r)]
  <2>1. Appended(r \o o, r, o)
    BY <1>5, <1>3, FxAppended
  <2>. QED BY ONLY <2>1 DEF Appended
<1>7. (r \o o)[47] = NewName
  <2>1. 8 \in 1 .. Len(o) /\ Len(r) + 8 = 47
    BY <1>3, <1>5
  <2>2. (r \o o)[Len(r) + 8] = o[8]
    BY ONLY <2>1, <1>6
  <2>. QED BY ONLY <2>1, <2>2, <1>3
<1>8. /\ OldBank \in Seq(Nat) /\ Len(OldBank) = 54
      /\ \A k \in 1 .. 39 : OldBank[k] = r[k]
      /\ \A k \in 1 .. 54 : k > 39 => k - 39 \in 1 .. 15 /\ OldBank[k] = o[k - 39]
  <2>1. Len(r) = 39 /\ Len(o) = 15 /\ Len(r) + Len(o) = 54
    BY <1>5, <1>3
  <2>2. Appended(OldBank, r, o)
    BY <1>5, <1>3, <1>4, FxAppended
  <2>. QED BY ONLY <2>1, <2>2 DEF Appended
<1>9. \A k \in 1 .. 54 : OldBank[k] # FxCk /\ (OldBank[k] = FPCh => k = 42)
  <2>1. ASSUME NEW k \in 1 .. 54, k <= 39
        PROVE  OldBank[k] # FxCk /\ OldBank[k] # FPCh
    <3>0. Len(r) = 39
      BY <1>5
    <3>1. k \in 1 .. 39 /\ k \in 1 .. Len(r)
      BY <2>1, <3>0
    <3>2. OldBank[k] = r[k] /\ r[k] \notin {FxCk, FPCh}
      BY <3>1, <1>8, <1>5
    <3>. QED BY <3>2
  <2>2. ASSUME NEW k \in 1 .. 54, k > 39
        PROVE  OldBank[k] # FxCk /\ (OldBank[k] = FPCh => k = 42)
    <3>1. k - 39 \in 1 .. 15 /\ OldBank[k] = o[k - 39]
      BY <2>2, <1>8
    <3>2. o[k - 39] # FxCk /\ (o[k - 39] = FPCh => k - 39 = 3)
      BY <3>1, <1>3
    <3>. QED BY <3>1, <3>2
  <2>. QED BY <2>1, <2>2
<1>10. OldBank[3] = FxBk /\ OldBank[47] = NewName
  <2>1. OldBank[47] = NewName
    BY <1>7, <1>4
  <2>2. 3 \in 1 .. 39 /\ r[3] = FxBk
    BY <1>5
  <2>3. OldBank[3] = r[3]
    BY <2>2, <1>8
  <2>. QED BY <2>1, <2>2, <2>3
<1>. QED BY <1>8, <1>9, <1>10

LEMMA FxOldFiles ==
  ASSUME fxfile \in OldFxFiles, ~fx.saving, step = "idle"
  PROVE  /\ OnDisk
         /\ fxfile \in [words : Seq(Nat), chunk : {<<>>} \cup BankChunks \cup PresetChunks]
<1>1. CASE fxfile = [words |-> <<>>, chunk |-> <<>>]
  <2>1. fxfile.words = <<>> /\ fxfile.chunk = <<>> /\ Len(fxfile.words) = 0 /\ <<>> \in Seq(Nat)
    BY <1>1
  <2>. QED BY <1>1, <2>1, FxSizes DEF OnDisk, Headed, Ended, Chunked, Kinded
<1>2. CASE fxfile = [words |-> ForeignBank,
                     chunk |-> << [p \in Presets |-> Repeat(One, Params)],
                                  [p \in Presets |-> NewName] >>]
  <2>1. Repeat(One, Params) \in [Indices -> Floats] /\ NewName \in Names
    BY FxFloats, FxWords DEF Repeat, Indices
  <2>2. << [p \in Presets |-> Repeat(One, Params)], [p \in Presets |-> NewName] >> \in BankChunks
    BY <2>1 DEF BankChunks
  <2>. DEFINE ws == fxfile.words
  <2>3. ws = ForeignBank
    BY <1>2
  <2>. HIDE DEF ws
  <2>4. /\ ws \in Seq(Nat) /\ Len(ws) = 40 /\ ws[3] = FBCh /\ ws[5] = Other
        /\ \A k \in 1 .. 40 : ws[k] \notin {FxCk, FPCh}
    BY <2>3, FxForeignBank
  <2>5. Headed(ws) /\ Ended(ws)
    BY <2>4 DEF Headed, Ended
  <2>6. Chunked
    BY <2>4, FxWords DEF Chunked, Word, ws
  <2>7. Kinded
    BY <2>4, FxSizes DEF Kinded, Word, ws
  <2>8. fxfile \in [words : Seq(Nat), chunk : {<<>>} \cup BankChunks \cup PresetChunks]
    BY <1>2, <2>2, <2>3, <2>4
  <2>. QED BY <2>5, <2>6, <2>7, <2>8 DEF OnDisk, ws
<1>3. CASE fxfile = [words |-> OldBank, chunk |-> << Repeat(One, Params), NewName >>]
  <2>1. Repeat(One, Params) \in [Indices -> Floats] /\ NewName \in Names
    BY FxFloats, FxWords DEF Repeat, Indices
  <2>2. << Repeat(One, Params), NewName >> \in PresetChunks
    BY <2>1 DEF PresetChunks
  <2>. DEFINE ws == fxfile.words
  <2>3. ws = OldBank /\ fxfile.chunk \in PresetChunks
    BY <1>3, <2>2
  <2>. HIDE DEF ws
  <2>4. /\ ws \in Seq(Nat) /\ Len(ws) = 54 /\ ws[3] = FxBk /\ ws[47] \in Names
        /\ \A k \in 1 .. 54 : ws[k] # FxCk /\ (ws[k] = FPCh => k = 42)
    BY <2>1, <2>3, FxOldBank
  <2>5. Headed(ws) /\ Ended(ws)
    <3>1. ASSUME NEW k \in 1 .. Len(ws)
          PROVE  /\ ws[k] # FxCk /\ (ws[k] = FPCh => k = 42 /\ k + 5 = 47 /\ k + 5 <= Len(ws))
      <4>1. Len(ws) = 54
        BY <2>4
      <4>2. k \in 1 .. 54
        BY <4>1
      <4>3. ws[k] # FxCk /\ (ws[k] = FPCh => k = 42)
        BY <4>2, <2>4
      <4>. QED BY <4>1, <4>3
    <3>. QED BY <3>1, <2>4 DEF Headed, Ended
  <2>6. Chunked
    BY <2>3, <2>4, FxWords DEF Chunked, Word, ws
  <2>7. Kinded
    BY <2>4, FxSizes DEF Kinded, Word, ws
  <2>8. fxfile \in [words : Seq(Nat), chunk : {<<>>} \cup BankChunks \cup PresetChunks]
    BY <1>3, <2>2, <2>3, <2>4
  <2>. QED BY <2>5, <2>6, <2>7, <2>8 DEF OnDisk, ws
<1>. QED BY <1>1, <1>2, <1>3 DEF OldFxFiles

LEMMA FxInits == FxInit => FxIInv
<1>. SUFFICES ASSUME FxInit
              PROVE  FxIInv
  OBVIOUS
<1>1. /\ fx = [saving |-> FALSE, bank |-> FALSE, cur |-> 0, p |-> 0, n |-> 0, pos |-> 0]
      /\ step = "idle" /\ ~quiet /\ quiet \in BOOLEAN /\ ~whole /\ whole \in BOOLEAN /\ edits = 0
      /\ fxfile \in OldFxFiles /\ origin = plug
  BY DEF FxInit
<1>2. plug \in PlugType /\ current \in Presets
  BY FxAssumption, FxWords, FxFloats DEF FxInit, PlugType
<1>3. /\ OnDisk
      /\ fxfile \in [words : Seq(Nat), chunk : {<<>>} \cup BankChunks \cup PresetChunks]
  BY <1>1, FxOldFiles
<1>4. fx \in [saving : BOOLEAN, bank : BOOLEAN, cur : Presets, p : Nat, n : Nat, pos : Nat]
      /\ fx.pos = 0 /\ ~fx.saving
  BY <1>1, FxNumbers
<1>5. FxTypes
  <2>1. fx.pos <= Len(fxfile.words)
    BY <1>3, <1>4, LenProperties
  <2>2. edits \in 0 .. MaxEdits
    BY <1>1, FxAssumption
  <2>. QED BY <1>1, <1>2, <1>3, <1>4, <2>1, <2>2 DEF FxTypes
<1>6. Begun /\ Looking /\ Writing /\ Complete /\ Reading /\ Reloading /\ SavingOnlyLooks
  BY <1>1, <1>4 DEF Begun, Looking, Writing, Complete, Reading, Reloading, SavingOnlyLooks
<1>7. Restored
  BY <1>1, <1>5, FxTypesOK DEF Restored
<1>. QED BY <1>3, <1>5, <1>6, <1>7 DEF FxIInv

-----------------------------------------------------------------------------
(* What a thread that saves need not mind.                                   *)
LEMMA FxSaves ==
  ASSUME FxTypes', OnDisk', Begun', Looking', Writing', Complete', SavingOnlyLooks', fx'.saving
  PROVE  FxIInv'
<1>1. Reading' /\ Reloading'
  BY DEF Reading, Reloading
<1>2. FxTypeOK'
  BY DEF FxTypes, FxTypeOK, PlugType
<1>3. Restored'
  BY <1>2 DEF Restored
<1>. QED BY <1>1, <1>3 DEF FxIInv

(* The words that a file begins with.                                        *)
BankWords(s, m, prog) ==
  /\ s \in Seq(Nat) /\ Len(s) = 39 /\ s[3] = m /\ s[4] = 2 /\ s[5] = Uid
  /\ s[7] = NumPrograms /\ s[8] = prog
  /\ \A k \in 1 .. 39 : s[k] \notin {FxCk, FPCh}

LEMMA FxBankHeader ==
  ASSUME NEW m \in {FBCh, FxBk}, NEW prog \in Presets, NEW s, s = BankHeader(m, prog)
  PROVE  BankWords(s, m, prog)
<1>0. /\ 0 \notin {FxCk, FPCh} /\ 1 \notin {FxCk, FPCh} /\ 2 \notin {FxCk, FPCh}
      /\ CcnK \notin {FxCk, FPCh} /\ Uid \notin {FxCk, FPCh} /\ m \notin {FxCk, FPCh}
      /\ NumPrograms \notin {FxCk, FPCh} /\ m \in Nat /\ Uid \in Nat /\ NumPrograms \in Nat
      /\ 2 \in Nat
  BY FxWords
<1>1. prog \in Nat /\ prog \notin {FxCk, FPCh}
  <2>1. prog \in Nat /\ prog <= Base
    BY FxWords, FxNumbers
  <2>. QED BY <2>1, FxWords
<1>. DEFINE a == FXHeader(m, 2, Uid, NumPrograms)
            b == <<prog>>
            c == Repeat(0, HoleEnd - HeaderSize - 1)
            r == a \o b
<1>2. /\ a \in Seq(Nat) /\ Len(a) = 7 /\ a[3] = m /\ a[4] = 2 /\ a[5] = Uid /\ a[7] = NumPrograms
      /\ \A k \in 1 .. 7 : a[k] \notin {FxCk, FPCh}
  <2>2. /\ a \in Seq(Nat) /\ Len(a) = 7 /\ a[1] = CcnK /\ a[2] = 0 /\ a[3] = m /\ a[4] = 2
        /\ a[5] = Uid /\ a[6] = 1 /\ a[7] = NumPrograms
    BY <1>0, FxHeaders
  <2>3. \A k \in 1 .. 7 : k \in {1, 2, 3, 4, 5, 6, 7}
    OBVIOUS
  <2>. HIDE DEF a
  <2>. QED BY <2>2, <2>3, <1>0
<1>3. b \in Seq(Nat) /\ Len(b) = 1 /\ b[1] = prog
  BY <1>1
<1>4. c \in Seq(Nat) /\ Len(c) = 31 /\ \A k \in 1 .. 31 : c[k] = 0
  <2>1. PICK n \in Nat : n = HoleEnd - HeaderSize - 1
    BY FxSizes
  <2>2. n = 31
    BY <2>1, FxSizes
  <2>3. Repeat(0, n) \in Seq(Nat) /\ Len(Repeat(0, n)) = n /\ \A k \in 1 .. n : Repeat(0, n)[k] = 0
    BY FxRepeats
  <2>. QED BY <2>1, <2>2, <2>3
<1>5. BankHeader(m, prog) = r \o c
  BY DEF BankHeader
<1>. HIDE DEF a, b, c
<1>6. /\ r \in Seq(Nat) /\ Len(r) = 8 /\ r[3] = m /\ r[4] = 2 /\ r[5] = Uid
      /\ r[7] = NumPrograms /\ r[8] = prog
      /\ \A k \in 1 .. 8 : r[k] \notin {FxCk, FPCh}
  <2>1. /\ r \in Seq(Nat) /\ Len(r) = Len(a) + Len(b)
        /\ \A k \in 1 .. Len(a) : r[k] = a[k]
        /\ \A k \in 1 .. Len(b) : r[Len(a) + k] = b[k]
    <3>1. Appended(r, a, b)
      BY <1>2, <1>3, FxAppended
    <3>. QED BY ONLY <3>1 DEF Appended
  <2>. HIDE DEF r
  <2>2. /\ Len(r) = 8 /\ r[8] = prog /\ \A k \in 1 .. 7 : r[k] = a[k]
    BY <2>1, <1>2, <1>3
  <2>3. \A k \in 1 .. 8 : k = 8 \/ k \in 1 .. 7
    OBVIOUS
  <2>4. ASSUME NEW k \in 1 .. 8
        PROVE  r[k] \notin {FxCk, FPCh}
    BY <2>2, <2>3, <1>2, <1>1
  <2>5. r[3] = m /\ r[4] = 2 /\ r[5] = Uid /\ r[7] = NumPrograms
    <3>1. 3 \in 1 .. 7 /\ 4 \in 1 .. 7 /\ 5 \in 1 .. 7 /\ 7 \in 1 .. 7
      OBVIOUS
    <3>. QED BY <3>1, <2>2, <1>2
  <2>. QED BY <2>1, <2>2, <2>4, <2>5
<1>. HIDE DEF r
<1>7. /\ r \o c \in Seq(Nat) /\ Len(r \o c) = Len(r) + Len(c)
      /\ \A k \in 1 .. Len(r) : (r \o c)[k] = r[k]
      /\ \A k \in 1 .. Len(r \o c) : k > Len(r) =>
           k - Len(r) \in 1 .. Len(c) /\ (r \o c)[k] = c[k - Len(r)]
  <2>1. Appended(r \o c, r, c)
    BY <1>6, <1>4, FxAppended
  <2>. QED BY ONLY <2>1 DEF Appended
<1>8. s = r \o c
  BY <1>5
<1>9. /\ s \in Seq(Nat) /\ Len(s) = 39
      /\ \A k \in 1 .. 8 : s[k] = r[k]
      /\ \A k \in 1 .. 39 : k > 8 => s[k] = 0
  <2>1. Len(r) = 8 /\ Len(c) = 31 /\ Len(r) + Len(c) = 39
    BY <1>6, <1>4
  <2>2. \A k \in 1 .. 39 : k > 8 => k - 8 \in 1 .. 31 /\ s[k] = c[k - 8]
    BY <2>1, <1>7, <1>8
  <2>3. s \in Seq(Nat) /\ Len(s) = 39 /\ \A k \in 1 .. 8 : s[k] = r[k]
    BY ONLY <2>1, <1>7, <1>8
  <2>. QED BY <2>2, <2>3, <1>4
<1>10. \A k \in 1 .. 39 : s[k] \notin {FxCk, FPCh}
  <2>1. \A k \in 1 .. 39 : k \in 1 .. 8 \/ (k \in 1 .. 39 /\ k > 8)
    BY <1>9
  <2>. QED BY <2>1, <1>9, <1>6, <1>0
<1>11. s[3] = m /\ s[4] = 2 /\ s[5] = Uid /\ s[7] = NumPrograms /\ s[8] = prog
  BY <1>9, <1>6
<1>. QED BY <1>9, <1>10, <1>11 DEF BankWords

LEMMA FxPresetHeader ==
  ASSUME NEW m \in {FPCh, FxCk}, NEW v \in {1, 2}, NEW n \in {NumPrograms, Params},
         NEW a, a = FXHeader(m, v, Uid, n)
  PROVE  /\ a \in Seq(Nat) /\ Len(a) = 7 /\ a[3] = m /\ a[5] = Uid /\ a[7] = n
         /\ \A k \in 1 .. 7 : a[k] \in {FxCk, FPCh} => k = 3
<1>0. /\ 0 \notin {FxCk, FPCh} /\ 1 \notin {FxCk, FPCh} /\ v \notin {FxCk, FPCh}
      /\ CcnK \notin {FxCk, FPCh} /\ Uid \notin {FxCk, FPCh}
      /\ n \notin {FxCk, FPCh} /\ m \in Nat /\ Uid \in Nat /\ n \in Nat /\ v \in Nat
  BY FxWords
<1>2. /\ a \in Seq(Nat) /\ Len(a) = 7 /\ a[1] = CcnK /\ a[2] = 0 /\ a[3] = m /\ a[4] = v
      /\ a[5] = Uid /\ a[6] = 1 /\ a[7] = n
  <2>1. m \in Nat /\ v \in Nat /\ Uid \in Nat /\ n \in Nat
    BY <1>0
  <2>2. /\ a = <<CcnK, 0, m, v, Uid, 1, n>> /\ CcnK \in Nat
    BY FxWords DEF FXHeader
  <2>. QED BY <2>1, <2>2
<1>3. \A k \in 1 .. 7 : k \in {1, 2, 3, 4, 5, 6, 7}
  OBVIOUS
<1>4. \A k \in 1 .. 7 : a[k] \in {FxCk, FPCh} => k = 3
  BY <1>2, <1>3, <1>0
<1>. QED BY <1>2, <1>4

-----------------------------------------------------------------------------
LEMMA FxBegins ==
  ASSUME FxIInv, NEW bank \in BOOLEAN, fst_save_fxfile(bank)
  PROVE  FxIInv'
<1>1. /\ fx' \in [saving : BOOLEAN, bank : BOOLEAN, cur : Presets, p : Nat, n : Nat, pos : Nat]
      /\ fx'.saving /\ fx'.bank = bank /\ fx'.cur = current /\ fx'.p = 0 /\ fx'.pos = 0
  BY DEF fst_save_fxfile, FxIInv, FxTypes
<1>2. /\ step' = IF plug.chunks THEN "chunk" ELSE IF bank THEN "select" ELSE "name"
      /\ origin' = plug /\ quiet' = (current = plug.prog) /\ whole' = FALSE
      /\ UNCHANGED <<plug, current, edits>>
  BY DEF fst_save_fxfile
<1>3. /\ plug \in PlugType /\ plug.chunks \in BOOLEAN /\ plug.prog \in Presets
      /\ current \in Presets /\ edits \in 0 .. MaxEdits
  BY DEF FxIInv, FxTypes, PlugType
<1>. DEFINE m == IF bank THEN IF plug.chunks THEN FBCh ELSE FxBk
                 ELSE IF plug.chunks THEN FPCh ELSE FxCk
            ws == IF bank
                  THEN BankHeader(m, current)
                  ELSE FXHeader(m, 1, Uid, Params)
<1>4. fxfile' = [chunk |-> <<>>, words |-> ws]
  BY DEF fst_save_fxfile
<1>5. /\ ws \in Seq(Nat) /\ Len(ws) = (IF bank THEN 39 ELSE 7) /\ ws[3] = m /\ ws[5] = Uid
      /\ bank => ws[4] = 2 /\ ws[7] = NumPrograms /\ ws[8] = current
      /\ \A k \in 1 .. Len(ws) : ws[k] \in {FxCk, FPCh} => ~bank /\ k = 3
  <2>1. CASE bank
    <3>1. m \in {FBCh, FxBk}
      BY <2>1
    <3>. HIDE DEF m
    <3>2. ws = BankHeader(m, current)
      BY <2>1
    <3>. HIDE DEF ws
    <3>3. BankWords(ws, m, current)
      BY <3>1, <3>2, <1>3, FxBankHeader
    <3>. QED BY <2>1, <3>3 DEF BankWords
  <2>2. CASE ~bank
    <3>1. m \in {FPCh, FxCk}
      BY <2>2
    <3>. HIDE DEF m
    <3>2. ws = FXHeader(m, 1, Uid, Params)
      BY <2>2
    <3>. HIDE DEF ws
    <3>3. /\ ws \in Seq(Nat) /\ Len(ws) = 7 /\ ws[3] = m /\ ws[5] = Uid
          /\ \A k \in 1 .. 7 : ws[k] \in {FxCk, FPCh} => k = 3
      BY <3>1, <3>2, FxPresetHeader
    <3>. QED BY <2>2, <3>3
  <2>. QED BY <2>1, <2>2
<1>6. /\ bank /\ plug.chunks => m = FBCh
      /\ bank /\ ~plug.chunks => m = FxBk
      /\ ~bank /\ plug.chunks => m = FPCh
      /\ ~bank /\ ~plug.chunks => m = FxCk
      /\ m \in {FxCk, FxBk, FPCh, FBCh}
      /\ ~bank => m \in {FxCk, FPCh}
      /\ m = FBCh => plug.chunks
  BY FxWords
<1>7. fxfile'.words = ws /\ fxfile'.chunk = <<>>
  BY <1>4
<1>a. m = IF bank THEN IF plug.chunks THEN FBCh ELSE FxBk
          ELSE IF plug.chunks THEN FPCh ELSE FxCk
  OBVIOUS
<1>. HIDE DEF ws, m
<1>8. FxTypes'
  <2>1. fx'.pos <= Len(fxfile'.words)
    BY <1>1, <1>5, <1>7
  <2>2. fxfile' \in [words : Seq(Nat), chunk : {<<>>} \cup BankChunks \cup PresetChunks]
    BY <1>4, <1>5
  <2>. QED BY <1>1, <1>2, <1>3, <2>1, <2>2 DEF FxTypes
<1>b. ASSUME NEW k \in 1 .. Len(ws), ws[k] \in {FxCk, FPCh}
      PROVE  ~bank /\ k = 3 /\ Len(ws) = 7 /\ ws[k] = m
  BY <1>b, <1>5
<1>9. Headed(fxfile'.words)
  <2>1. \A i \in Indices : 1 <= i /\ i \in Int
    BY FxWords DEF Indices
  <2>. QED BY <1>b, <1>7, <2>1 DEF Headed
<1>10. Ended(fxfile.words)'
  <2>1. ASSUME NEW k \in 1 .. Len(ws), ws[k] \in {FxCk, FPCh}
        PROVE  /\ ~bank /\ k + 4 = Len(ws) /\ ws[k] = m
               /\ ws[k] = FxCk => step' = "name"
               /\ ws[k] = FPCh => step' \in {"chunk", "name"}
    <3>1. ~bank /\ k = 3 /\ Len(ws) = 7 /\ ws[k] = m
      BY <2>1, <1>b
    <3>. QED BY <3>1, <1>2, <1>6, <1>3, FxWords
  <2>. QED BY <2>1, <1>1, <1>7 DEF Ended
<1>11. Chunked'
  <2>1. CASE plug.chunks
    BY <2>1, <1>1, <1>2 DEF Chunked
  <2>2. CASE ~plug.chunks
    <3>1. m # FBCh /\ m # FPCh
      BY <2>2, <1>6, FxWords, <1>3
    <3>2. \A k \in 1 .. Len(ws) : ws[k] # FPCh
      BY <3>1, <1>5
    <3>. QED BY <3>1, <3>2, <1>5, <1>7 DEF Chunked, Word
  <2>. QED BY <2>1, <2>2
<1>12. Kinded'
  <2>1. m \in {FxBk, FBCh} => bank
    BY <1>6, FxWords
  <2>2. HoleEnd = 39
    BY FxSizes
  <2>3. Word(3)' = m /\ Len(fxfile'.words) = IF bank THEN 39 ELSE 7
    BY <1>5, <1>7 DEF Word
  <2>. QED BY <2>1, <2>2, <2>3, <1>6 DEF Kinded
<1>13. OnDisk'
  <2>1. Headed(fxfile.words)'
    BY <1>9 DEF Headed
  <2>. QED BY <2>1, <1>10, <1>11, <1>12 DEF OnDisk
<1>14. Begun'
  <2>1. Len(ws) >= HeaderSize /\ (bank => Len(ws) = HoleEnd) /\ (~bank => Len(ws) = HeaderSize)
    BY <1>5, FxSizes
  <2>2. bank => \A k \in 1 .. Len(ws) : ws[k] # FPCh
    BY <1>5
  <2>3. 0 < NumPrograms
    BY FxWords
  <2>4. step' # "current" /\ step' # "params" /\ step' # "back"
        /\ (step' = "chunk" => plug.chunks) /\ (step' = "select" => bank /\ ~plug.chunks)
        /\ (step' = "name" => ~bank)
    BY <1>2, <1>3
  <2>. QED BY <1>1, <1>2, <1>5, <1>7, <1>a, <2>1, <2>2, <2>3, <2>4 DEF Begun, Word
<1>15. Looking'
  BY <1>1, <1>2, <1>3 DEF Looking
<1>16. Writing'
  <2>1. bank => Len(ws) = At(0) /\ Len(ws) >= HoleEnd
    BY <1>5, FxSizes, FxWords DEF At
  <2>2. \A q \in Presets : ~(q < 0)
    BY FxNumbers
  <2>3. step' \notin {"params", "back"} /\ (~bank /\ step' = "name" => ~plug.chunks)
    BY <1>2, <1>3
  <2>4. quiet' => (bank => BankBegun')
    BY <1>2, <1>5, <1>7 DEF BankBegun, Word
  <2>. QED BY <1>1, <1>2, <1>7, <2>1, <2>2, <2>3, <2>4 DEF Writing
<1>17. Complete' /\ SavingOnlyLooks'
  BY <1>1, <1>2, <1>3 DEF Complete, SavingOnlyLooks
<1>. QED BY <1>1, <1>8, <1>13, <1>14, <1>15, <1>16, <1>17, FxSaves

-----------------------------------------------------------------------------
(* A file is in order when both its parts are, and the second goes on where  *)
(* the first stopped.                                                        *)
LEMMA FxHeadedOn ==
  ASSUME NEW a \in Seq(Nat), NEW b \in Seq(Nat), Headed(a), Headed(b),
         \A k \in 1 .. Len(a) : a[k] \in {FPCh, FxCk} /\ k + 5 > Len(a)
           /\ k + 5 - Len(a) <= Len(b) => b[k + 5 - Len(a)] \in Names,
         \A k \in 1 .. Len(a), i \in Indices : a[k] = FxCk /\ k + 11 + i > Len(a)
           /\ k + 11 + i - Len(a) <= Len(b) => b[k + 11 + i - Len(a)] \in {Zero, Big}
  PROVE  Headed(a \o b)
<1>1. PICK r : r = a \o b
  OBVIOUS
<1>2. /\ Len(r) = Len(a) + Len(b) /\ Len(a) \in Nat /\ Len(b) \in Nat
      /\ \A k \in 1 .. Len(a) : r[k] = a[k]
      /\ \A k \in 1 .. Len(b) : r[Len(a) + k] = b[k]
      /\ \A k \in 1 .. Len(r) : k > Len(a) => k - Len(a) \in 1 .. Len(b) /\ r[k] = b[k - Len(a)]
  <2>1. Appended(r, a, b)
    BY <1>1, FxAppended
  <2>. QED BY ONLY <2>1 DEF Appended
<1>3. \A i \in Indices : i \in Nat /\ 1 <= i
  BY FxWords DEF Indices
<1>4. \A j \in Nat : j > Len(a) /\ j <= Len(r) =>
        j - Len(a) \in 1 .. Len(b) /\ r[j] = b[j - Len(a)]
  BY <1>2
<1>5. \A j \in Nat : 1 <= j /\ j <= Len(a) => r[j] = a[j]
  BY <1>2
<1>6. ASSUME NEW k \in 1 .. Len(r), k <= Len(a)
      PROVE  /\ r[k] \in {FPCh, FxCk} /\ k + 5 <= Len(r) => r[k + 5] \in Names
             /\ r[k] = FxCk => \A i \in Indices : k + 11 + i <= Len(r) =>
                                 r[k + 11 + i] \in {Zero, Big}
  <2>1. k \in 1 .. Len(a) /\ r[k] = a[k] /\ k + 5 \in Nat /\ k \in Nat
    BY <1>6, <1>2
  <2>2. ASSUME r[k] \in {FPCh, FxCk}, k + 5 <= Len(r)
        PROVE  r[k + 5] \in Names
    <3>1. CASE k + 5 <= Len(a)
      <4>1. r[k + 5] = a[k + 5]
        BY <3>1, <2>1, <1>5
      <4>. QED BY <4>1, <3>1, <2>1, <2>2 DEF Headed
    <3>2. CASE k + 5 > Len(a)
      <4>1. k + 5 - Len(a) \in 1 .. Len(b) /\ r[k + 5] = b[k + 5 - Len(a)]
        BY <3>2, <2>1, <2>2, <1>4
      <4>2. k + 5 - Len(a) <= Len(b)
        BY <4>1, <1>2
      <4>. QED BY <4>1, <4>2, <3>2, <2>1, <2>2
    <3>. QED BY <3>1, <3>2, <2>1, <1>2
  <2>3. ASSUME r[k] = FxCk, NEW i \in Indices, k + 11 + i <= Len(r)
        PROVE  r[k + 11 + i] \in {Zero, Big}
    <3>0. k + 11 + i \in Nat /\ 1 <= k + 11 + i
      BY ONLY <2>1, <1>3
    <3>1. CASE k + 11 + i <= Len(a)
      <4>1. r[k + 11 + i] = a[k + 11 + i]
        BY <3>1, <3>0, <1>5
      <4>. QED BY <4>1, <3>1, <2>1, <2>3 DEF Headed
    <3>2. CASE k + 11 + i > Len(a)
      <4>0. PICK j \in Nat : j = k + 11 + i
        BY <3>0
      <4>1. k + 11 + i - Len(a) \in 1 .. Len(b) /\ r[k + 11 + i] = b[k + 11 + i - Len(a)]
        <5>1. j > Len(a) /\ j <= Len(r)
          BY <4>0, <3>2, <2>3
        <5>2. j - Len(a) \in 1 .. Len(b) /\ r[j] = b[j - Len(a)]
          BY <5>1, <1>4
        <5>3. k \in Nat /\ i \in Nat /\ Len(a) \in Nat
          BY <2>1, <1>3, <1>2
        <5>. QED BY <4>0, <5>2, <5>3
      <4>2. k + 11 + i - Len(a) <= Len(b)
        BY <4>1, <1>2
      <4>. QED BY <4>1, <4>2, <3>2, <2>1, <2>3
    <3>. QED BY <3>1, <3>2, <3>0, <1>2
  <2>. QED BY <2>2, <2>3
<1>7. ASSUME NEW k \in 1 .. Len(r), k > Len(a)
      PROVE  /\ r[k] \in {FPCh, FxCk} /\ k + 5 <= Len(r) => r[k + 5] \in Names
             /\ r[k] = FxCk => \A i \in Indices : k + 11 + i <= Len(r) =>
                                 r[k + 11 + i] \in {Zero, Big}
  <2>1. k - Len(a) \in 1 .. Len(b) /\ r[k] = b[k - Len(a)] /\ k \in Nat
    BY <1>7, <1>2
  <2>2. ASSUME r[k] \in {FPCh, FxCk}, k + 5 <= Len(r)
        PROVE  r[k + 5] \in Names
    <3>1. r[k + 5] = b[k + 5 - Len(a)] /\ k + 5 - Len(a) = (k - Len(a)) + 5
          /\ (k - Len(a)) + 5 <= Len(b)
      BY <1>4, <1>7, <2>1, <2>2, <1>2
    <3>. QED BY <3>1, <2>1, <2>2 DEF Headed
  <2>3. ASSUME r[k] = FxCk, NEW i \in Indices, k + 11 + i <= Len(r)
        PROVE  r[k + 11 + i] \in {Zero, Big}
    <3>0. k + 11 + i \in Nat /\ k + 11 + i > Len(a)
      BY <2>1, <1>3, <1>7, <1>2
    <3>1. r[k + 11 + i] = b[k + 11 + i - Len(a)] /\ k + 11 + i - Len(a) = (k - Len(a)) + 11 + i
          /\ (k - Len(a)) + 11 + i <= Len(b)
      BY <3>0, <1>4, <2>1, <2>3, <1>2, <1>3
    <3>. QED BY <3>1, <2>1, <2>3 DEF Headed
  <2>. QED BY <2>2, <2>3
<1>8. \A k \in 1 .. Len(r) : k <= Len(a) \/ k > Len(a)
  BY <1>2
<1>9. Headed(r)
  BY <1>6, <1>7, <1>8 DEF Headed
<1>. QED BY <1>1, <1>9

LEMMA FxPlain ==
  ASSUME NEW b \in Seq(Nat), \A k \in 1 .. Len(b) : b[k] \notin {FxCk, FPCh}
  PROVE  Headed(b)
  BY DEF Headed

(* SaveChunk *)
LEMMA FxSavesChunk == FxIInv /\ SaveChunk => FxIInv'
<1>. SUFFICES ASSUME FxIInv, SaveChunk
              PROVE  FxIInv'
  OBVIOUS
<1>1. /\ step = "chunk" /\ fx.saving /\ UNCHANGED <<plug, current, fx, origin, quiet, edits>>
      /\ fxfile' = [words |-> fxfile.words \o (IF fx.bank THEN <<1>> ELSE <<>>),
                    chunk |-> IF fx.bank THEN <<plug.bank, plug.names>>
                              ELSE <<plug.bank[plug.prog], plug.names[plug.prog]>>]
      /\ fx.bank => step' = "idle" /\ whole' = quiet
      /\ ~fx.bank => step' = "name" /\ whole' = whole
  BY DEF SaveChunk, FileSaved
<1>2. FxTypes /\ OnDisk /\ Begun /\ Looking /\ Writing /\ Complete
  BY DEF FxIInv
<1>. DEFINE a == fxfile.words
            b == IF fx.bank THEN <<1>> ELSE <<>>
            ws == fxfile'.words
<1>3. /\ a \in Seq(Nat) /\ Len(a) \in Nat /\ ~whole
      /\ plug \in PlugType /\ plug.bank \in [Presets -> [Indices -> Floats]]
      /\ plug.names \in [Presets -> Names] /\ plug.prog \in Presets /\ fx.bank \in BOOLEAN
  BY <1>1, <1>2, LenProperties DEF FxTypes, PlugType, Complete
<1>4. /\ plug.chunks /\ Len(a) = (IF fx.bank THEN 39 ELSE 7) /\ a[5] = Uid
      /\ a[3] = (IF fx.bank THEN FBCh ELSE FPCh)
      /\ fx.bank => \A k \in 1 .. Len(a) : a[k] # FPCh
  BY <1>1, <1>2, FxSizes DEF Begun, Word
<1>5. /\ b \in Seq(Nat) /\ Len(b) = (IF fx.bank THEN 1 ELSE 0)
      /\ \A k \in 1 .. Len(b) : b[k] \notin {FxCk, FPCh}
  <2>1. 1 \notin {FxCk, FPCh}
    BY FxWords
  <2>. QED BY <2>1
<1>6. ws = a \o b
  BY <1>1
<1>7. /\ fxfile'.chunk \in BankChunks \cup PresetChunks
      /\ fx.bank => fxfile'.chunk = <<plug.bank, plug.names>> /\ fxfile'.chunk \in BankChunks
      /\ ~fx.bank => /\ fxfile'.chunk = <<plug.bank[plug.prog], plug.names[plug.prog]>>
                     /\ fxfile'.chunk \in PresetChunks
  BY <1>1, <1>3 DEF BankChunks, PresetChunks
<1>c. fxfile' = [words |-> ws, chunk |-> fxfile'.chunk]
  BY <1>1
<1>. HIDE DEF b, ws
<1>8. /\ ws \in Seq(Nat) /\ Len(ws) = Len(a) + Len(b) /\ Len(ws) \in Nat
      /\ \A k \in 1 .. Len(a) : ws[k] = a[k]
      /\ \A k \in 1 .. Len(ws) : k > Len(a) => k - Len(a) \in 1 .. Len(b) /\ ws[k] = b[k - Len(a)]
  <2>1. Appended(ws, a, b)
    BY <1>3, <1>5, <1>6, FxAppended
  <2>. QED BY ONLY <2>1 DEF Appended
<1>9. Len(ws) = (IF fx.bank THEN 40 ELSE 7)
  BY <1>4, <1>5, <1>8
<1>10. /\ ws[3] = a[3] /\ ws[5] = Uid /\ ws[4] = a[4] /\ ws[7] = a[7]
       /\ fx.bank => ws[8] = a[8]
  <2>1. 3 \in 1 .. Len(a) /\ 4 \in 1 .. Len(a) /\ 5 \in 1 .. Len(a) /\ 7 \in 1 .. Len(a)
        /\ (fx.bank => 8 \in 1 .. Len(a))
    BY <1>4
  <2>. QED BY <2>1, <1>8, <1>4
<1>11. ASSUME NEW k \in 1 .. Len(a), a[k] \in {FxCk, FPCh}
       PROVE  IF a[k] = FxCk THEN k + 11 + Params <= Len(a)
              ELSE ~fx.bank /\ (k + 5 <= Len(a) \/ k + 4 = Len(a))
  <2>1. CASE a[k] = FxCk
    BY <2>1, <1>1, <1>2 DEF OnDisk, Ended
  <2>2. CASE a[k] # FxCk
    <3>1. a[k] = FPCh
      BY <2>2, <1>11
    <3>. QED BY <3>1, <2>2, <1>1, <1>2, <1>4 DEF OnDisk, Ended
  <2>. QED BY <2>1, <2>2
<1>12. Headed(ws)
  <2>1. Headed(a) /\ Headed(b)
    BY <1>2, <1>5, FxPlain DEF OnDisk
  <2>2. ASSUME NEW k \in 1 .. Len(a), a[k] \in {FPCh, FxCk}, k + 5 > Len(a), k + 5 - Len(a) <= Len(b)
        PROVE  FALSE
    <3>1. Params \in Nat /\ k \in Nat
      BY FxWords
    <3>2. CASE a[k] = FxCk
      <4>1. k + 11 + Params <= Len(a)
        BY <3>2, <2>2, <1>11
      <4>. QED BY <4>1, <3>1, <2>2, <1>3
    <3>3. CASE a[k] # FxCk
      <4>1. ~fx.bank /\ (k + 5 <= Len(a) \/ k + 4 = Len(a))
        BY <3>3, <2>2, <1>11
      <4>2. Len(b) = 0
        BY <4>1, <1>5
      <4>. QED BY <4>1, <4>2, <3>1, <2>2, <1>3
    <3>. QED BY <3>2, <3>3
  <2>3. ASSUME NEW k \in 1 .. Len(a), NEW i \in Indices, a[k] = FxCk, k + 11 + i > Len(a)
        PROVE  FALSE
    <3>1. i \in Nat /\ i <= Params /\ Params \in Nat
      BY FxWords DEF Indices
    <3>. QED BY ONLY <3>1, <2>3, <1>11, <1>3
  <2>. QED BY <2>1, <2>2, <2>3, <1>3, <1>5, <1>6, FxHeadedOn
<1>13. Ended(fxfile.words)'
  <2>1. ASSUME NEW k \in 1 .. Len(ws), ws[k] \in {FxCk, FPCh}
        PROVE  k \in 1 .. Len(a) /\ a[k] = ws[k]
    <3>1. CASE k <= Len(a)
      BY <3>1, <2>1, <1>8, <1>3
    <3>2. CASE k > Len(a)
      <4>1. k - Len(a) \in 1 .. Len(b) /\ ws[k] = b[k - Len(a)]
        BY <3>2, <1>8
      <4>. QED BY <4>1, <2>1, <1>5
    <3>. QED BY <3>1, <3>2, <1>3
  <2>2. ASSUME NEW k \in 1 .. Len(ws), ws[k] = FxCk
        PROVE  k + 11 + Params <= Len(ws)
    <3>1. k \in 1 .. Len(a) /\ a[k] = FxCk
      BY <2>2, <2>1
    <3>2. k + 11 + Params <= Len(a) /\ Len(a) <= Len(ws)
      BY <3>1, <1>11, <1>4, <1>9
    <3>3. k \in Nat /\ Len(a) \in Nat /\ Len(ws) \in Nat /\ Params \in Nat
      BY <1>3, <1>8, FxWords
    <3>. QED BY ONLY <3>2, <3>3
  <2>3. ASSUME NEW k \in 1 .. Len(ws), ws[k] = FPCh
        PROVE  ~fx.bank /\ (k + 5 <= Len(ws) \/ k + 4 = Len(ws))
    <3>1. ~fx.bank /\ (k + 5 <= Len(a) \/ k + 4 = Len(a))
      BY <2>3, <2>1, <1>11, FxWords
    <3>. QED BY <3>1, <1>4, <1>9
  <2>4. fx'.saving /\ (~fx.bank => step' = "name") /\ fx'.bank = fx.bank
    BY <1>1
  <2>. QED BY <2>2, <2>3, <2>4 DEF Ended, ws
<1>14. Chunked'
  <2>1. CASE fx.bank
    <3>1. ASSUME NEW k \in 1 .. Len(ws)
          PROVE  ws[k] # FPCh
      BY <2>1, <1>4, <1>5, <1>8, <1>3
    <3>. QED BY <3>1, <2>1, <1>7 DEF Chunked, Word, ws
  <2>2. CASE ~fx.bank
    <3>1. ws[3] # FBCh
      BY <2>2, <1>4, <1>10, FxWords
    <3>. QED BY <3>1, <2>2, <1>7 DEF Chunked, Word, ws
  <2>. QED BY <2>1, <2>2
<1>15. Kinded'
  <2>1. ws[3] \in {FPCh, FBCh} /\ (ws[3] \in {FxBk, FBCh} => fx.bank)
    BY <1>4, <1>10, FxWords
  <2>2. HoleEnd = 39
    BY FxSizes
  <2>. QED BY <2>1, <2>2, <1>9 DEF Kinded, Word, ws
<1>16. OnDisk'
  <2>1. Headed(fxfile.words)'
    BY <1>12 DEF Headed, ws
  <2>. QED BY <2>1, <1>13, <1>14, <1>15 DEF OnDisk
<1>17. FxTypes'
  <2>1. fx.pos <= Len(ws)
    BY <1>2, <1>8, <1>5, <1>3 DEF FxTypes
  <2>2. fxfile' \in [words : Seq(Nat), chunk : {<<>>} \cup BankChunks \cup PresetChunks]
    BY <1>c, <1>7, <1>8
  <2>3. step' \in {"idle", "name"} /\ whole' \in BOOLEAN
    BY <1>1, <1>2, <1>3 DEF FxTypes
  <2>. QED BY <1>1, <1>2, <2>1, <2>2, <2>3 DEF FxTypes, ws
<1>18. Begun'
  <2>1. /\ Len(ws) >= HeaderSize /\ ~fx.bank => Len(ws) = HeaderSize
    BY <1>9, FxSizes
  <2>2. Len(ws) >= HeaderSize
    BY <1>9, FxSizes
  <2>3. (fx.bank => step' = "idle") /\ (~fx.bank => step' = "name")
    BY <1>1
  <2>. QED BY <1>1, <1>4, <1>10, <2>1, <2>2, <2>3 DEF Begun, Word, ws
<1>19. Looking' /\ Writing'
  <2>1. CASE fx.bank
    BY <2>1, <1>1 DEF Looking, Writing
  <2>2. CASE ~fx.bank
    <3>1. quiet => plug.bank = origin.bank /\ plug.names = origin.names /\ plug.prog = origin.prog
                   /\ fx.cur = origin.prog
      BY <2>2, <1>1, <1>2 DEF Looking
    <3>2. quiet' => OneChunk'
      BY <3>1, <2>2, <1>1, <1>7 DEF OneChunk
    <3>. QED BY <3>1, <3>2, <2>2, <1>1, <1>4 DEF Looking, Writing
  <2>. QED BY <2>1, <2>2
<1>20. Complete' /\ SavingOnlyLooks'
  <2>1. CASE fx.bank
    <3>1. quiet => /\ plug.bank = origin.bank /\ plug.names = origin.names
                   /\ plug.prog = origin.prog /\ BankBegun
      BY <2>1, <1>1, <1>2, <1>4 DEF Looking, Writing
    <3>2. quiet => BankBegun'
      BY <3>1, <2>1, <1>1, <1>10 DEF BankBegun, Word, ws
    <3>3. ws[3] = FBCh /\ FBCh # FxBk /\ FBCh # FPCh /\ FBCh # FxCk
      BY <2>1, <1>4, <1>10, FxWords
    <3>4. Len(ws) = HoleEnd + 1 /\ Len(ws) >= HeaderSize
      BY <2>1, <1>9, FxSizes
    <3>5. Complete'
      BY <3>1, <3>2, <3>3, <3>4, <2>1, <1>1, <1>7 DEF Complete, Word, ws
    <3>6. SavingOnlyLooks'
      BY <3>1, <3>3, <2>1, <1>1 DEF SavingOnlyLooks, Word, ws
    <3>. QED BY <3>5, <3>6
  <2>2. CASE ~fx.bank
    BY <2>2, <1>1, <1>3 DEF Complete, SavingOnlyLooks
  <2>. QED BY <2>1, <2>2
<1>. QED BY <1>1, <1>16, <1>17, <1>18, <1>19, <1>20, FxSaves

-----------------------------------------------------------------------------
(* The programs of a bank stand one behind the other.                        *)
LEMMA FxPlaces ==
  /\ At(0) = 39
  /\ \A q \in Nat : At(q) \in Nat /\ At(q) >= 39 /\ At(q + 1) = At(q) + 14 + Params
<1>1. PICK c \in Nat : c = HeaderSize + NameSize + Params /\ c = 14 + Params
  BY FxWords, FxSizes
<1>2. \A q \in Nat : At(q) = 39 + q * c
  BY <1>1, FxSizes DEF At
<1>3. \A q \in Nat : q * c \in Nat /\ (q + 1) * c = q * c + c
  OBVIOUS
<1>4. 0 * c = 0
  OBVIOUS
<1>5. At(0) = 39
  BY <1>2, <1>4
<1>6. ASSUME NEW q \in Nat
      PROVE  At(q) \in Nat /\ At(q) >= 39 /\ At(q + 1) = At(q) + 14 + Params
  <2>1. PICK n \in Nat : n = q * c
    BY <1>3
  <2>2. q + 1 \in Nat /\ (q + 1) * c = n + c
    BY <2>1, <1>3
  <2>3. At(q) = 39 + n /\ At(q + 1) = 39 + (n + c)
    BY <1>2, <2>1, <2>2
  <2>. QED BY <2>3, <1>1, FxWords
<1>. QED BY <1>5, <1>6

(* What has been written stays as it is.                                    *)
LEMMA FxBlocks ==
  ASSUME NEW a \in Seq(Nat), NEW b \in Seq(Nat), NEW q \in Presets
  PROVE  /\ Titled(a, q) => Titled(a \o b, q)
         /\ Block(a, q) => Block(a \o b, q)
<1>1. PICK r : r = a \o b
  OBVIOUS
<1>2. /\ Len(r) = Len(a) + Len(b) /\ Len(a) \in Nat /\ Len(b) \in Nat
      /\ \A k \in 1 .. Len(a) : r[k] = a[k]
  <2>1. Appended(r, a, b)
    BY <1>1, FxAppended
  <2>. QED BY ONLY <2>1 DEF Appended
<1>3. PICK x \in Nat : x = At(q)
  BY FxPlaces, FxNumbers
<1>4. /\ HeaderSize = 7 /\ NameSize = 7 /\ Params \in Nat
  BY FxSizes, FxWords
<1>5. Titled(a, q) => Titled(r, q)
  <2>. SUFFICES ASSUME Titled(a, q)
                PROVE  Titled(r, q)
    OBVIOUS
  <2>1. x + 14 <= Len(a) /\ a[x + 3] = FxCk /\ a[x + 7] = NumPrograms /\ a[x + 8] = origin.names[q]
    BY <1>3, <1>4 DEF Titled
  <2>2. r[x + 3] = a[x + 3] /\ r[x + 7] = a[x + 7] /\ r[x + 8] = a[x + 8] /\ x + 14 <= Len(r)
    <3>1. x + 3 \in 1 .. Len(a) /\ x + 7 \in 1 .. Len(a) /\ x + 8 \in 1 .. Len(a)
      BY <2>1, <1>2
    <3>2. x + 14 <= Len(r)
      BY <2>1, <1>2
    <3>. QED BY <3>1, <3>2, <1>2
  <2>. QED BY <2>1, <2>2, <1>3, <1>4 DEF Titled
<1>6. Block(a, q) => Block(r, q)
  <2>. SUFFICES ASSUME Block(a, q)
                PROVE  Block(r, q)
    OBVIOUS
  <2>1. x + 14 + Params <= Len(a) /\ Titled(a, q)
        /\ \A i \in Indices : a[x + 14 + i] = SwapFloat(origin.bank[q][i])
    <3>1. \A n \in Nat : x + 7 + 7 + n = x + 14 + n
      OBVIOUS
    <3>2. Params \in Nat /\ \A i \in Indices : i \in Nat
      BY <1>4 DEF Indices
    <3>3. /\ Titled(a, q) /\ x + 7 + 7 + Params <= Len(a)
          /\ \A i \in Indices : a[x + 7 + 7 + i] = SwapFloat(origin.bank[q][i])
      BY <1>3, <1>4, Zenon DEF Block
    <3>. QED BY ONLY <3>1, <3>2, <3>3
  <2>2. ASSUME NEW i \in Indices
        PROVE  r[x + 14 + i] = SwapFloat(origin.bank[q][i])
    <3>1. i \in Nat /\ i <= Params /\ 1 <= i
      BY FxWords DEF Indices
    <3>0. x + 14 + Params <= Len(a) /\ Len(a) \in Nat /\ Params \in Nat /\ x \in Nat
      BY <2>1, <1>2, <1>4
    <3>2. x + 14 + i \in 1 .. Len(a)
      BY ONLY <3>0, <3>1
    <3>3. r[x + 14 + i] = a[x + 14 + i]
      BY <3>2, <1>2
    <3>. QED BY <3>3, <2>1
  <2>3. x + 14 + Params <= Len(r)
    BY ONLY <2>1, <1>2, <1>3, <1>4
  <2>4. Titled(r, q)
    BY <2>1, <1>5
  <2>. QED BY ONLY <2>2, <2>3, <2>4, <1>3, <1>4 DEF Block
<1>. QED BY <1>1, <1>5, <1>6

(* The words that name a program.                                           *)
LEMMA FxNameWords ==
  ASSUME NEW name \in Names
  PROVE  /\ Repeat(name, NameSize) \in Seq(Nat) /\ Len(Repeat(name, NameSize)) = 7
         /\ \A k \in 1 .. 7 : Repeat(name, NameSize)[k] = name
<1>1. PICK n \in Nat : n = NameSize
  BY FxSizes
<1>2. n = 7 /\ name \in Nat
  BY <1>1, FxSizes, FxWords
<1>3. Repeat(name, n) \in Seq(Nat) /\ Len(Repeat(name, n)) = n
      /\ \A k \in 1 .. n : Repeat(name, n)[k] = name
  BY <1>2, FxRepeats
<1>. QED BY <1>1, <1>2, <1>3

Title(name) == FXHeader(FxCk, 2, Uid, NumPrograms) \o Repeat(name, NameSize)

LEMMA FxTitleWords ==
  ASSUME NEW name \in Names
  PROVE  /\ Title(name) \in Seq(Nat) /\ Len(Title(name)) = 14 /\ Title(name)[3] = FxCk
         /\ Title(name)[7] = NumPrograms /\ Title(name)[8] = name /\ Headed(Title(name))
         /\ \A k \in 1 .. 14 : Title(name)[k] \in {FxCk, FPCh} => k = 3
<1>. DEFINE h == FXHeader(FxCk, 2, Uid, NumPrograms)
            t == Repeat(name, NameSize)
<1>1. /\ h \in Seq(Nat) /\ Len(h) = 7 /\ h[3] = FxCk /\ h[7] = NumPrograms
      /\ \A k \in 1 .. 7 : h[k] \in {FxCk, FPCh} => k = 3
  BY FxPresetHeader
<1>2. t \in Seq(Nat) /\ Len(t) = 7 /\ \A k \in 1 .. 7 : t[k] = name
  BY FxNameWords
<1>. DEFINE r == h \o t
<1>3. r = Title(name)
  BY DEF Title
<1>. HIDE DEF h, t
<1>4. /\ r \in Seq(Nat) /\ Len(r) = 14 /\ \A k \in 1 .. 7 : r[k] = h[k]
      /\ \A k \in 1 .. 14 : k > 7 => r[k] = name
  <2>1. /\ r \in Seq(Nat) /\ Len(r) = Len(h) + Len(t)
        /\ \A k \in 1 .. Len(h) : r[k] = h[k]
        /\ \A k \in 1 .. Len(r) : k > Len(h) => k - Len(h) \in 1 .. Len(t) /\ r[k] = t[k - Len(h)]
    <3>1. Appended(r, h, t)
      BY <1>1, <1>2, FxAppended
    <3>. QED BY ONLY <3>1 DEF Appended
  <2>. HIDE DEF r
  <2>2. Len(h) = 7 /\ Len(t) = 7 /\ Len(r) = 14
    BY <2>1, <1>1, <1>2
  <2>3. \A k \in 1 .. 14 : k > 7 => k - 7 \in 1 .. 7 /\ r[k] = t[k - 7]
    BY <2>1, <2>2
  <2>. QED BY <2>1, <2>2, <2>3, <1>2
<1>. HIDE DEF r
<1>5. r[3] = FxCk /\ r[7] = NumPrograms /\ r[8] = name
  <2>1. 3 \in 1 .. 7 /\ 7 \in 1 .. 7 /\ 8 \in 1 .. 14 /\ 8 > 7
    OBVIOUS
  <2>. QED BY <2>1, <1>4, <1>1
<1>6. ASSUME NEW k \in 1 .. 14, r[k] \in {FxCk, FPCh}
      PROVE  k = 3
  <2>1. name \notin {FxCk, FPCh}
    BY FxWords
  <2>2. k \in 1 .. 7
    BY <1>4, <1>6, <2>1
  <2>. QED BY <2>2, <1>4, <1>6, <1>1
<1>7. Headed(r)
  <2>1. ASSUME NEW k \in 1 .. Len(r), r[k] \in {FxCk, FPCh}
        PROVE  k + 5 = 8 /\ k + 11 = 14
    <3>1. k \in 1 .. 14
      BY <1>4
    <3>2. k = 3
      BY <3>1, <2>1, <1>6
    <3>. QED BY <3>2
  <2>2. \A i \in Indices : i \in Nat /\ 1 <= i
    BY FxWords DEF Indices
  <2>3. ASSUME NEW k \in 1 .. Len(r), r[k] \in {FxCk, FPCh}
        PROVE  /\ r[k + 5] \in Names /\ \A i \in Indices : ~(k + 11 + i <= Len(r))
    <3>1. Len(r) = 14
      BY <1>4
    <3>. QED BY <2>1, <2>2, <2>3, <3>1, <1>5
  <2>. QED BY <2>3 DEF Headed
<1>. QED BY <1>3, <1>4, <1>5, <1>6, <1>7, Zenon

-----------------------------------------------------------------------------
(* SaveName: the name that is written is the name the program has, as long   *)
(* as nobody has touched it.                                                *)
LEMMA FxName ==
  ASSUME FxIInv, step = "name", fx.saving, NEW name \in NamesOf(IF fx.bank THEN current ELSE fx.cur)
  PROVE  /\ name \in Names
         /\ quiet /\ fx.bank => name = origin.names[fx.p]
         /\ quiet /\ ~fx.bank => name = origin.names[origin.prog]
<1>1. /\ current \in Presets /\ fx.cur \in Presets /\ plug.names \in [Presets -> Names]
      /\ plug.prog \in Presets /\ (quiet => current = plug.prog) /\ fx.bank \in BOOLEAN
  BY DEF FxIInv, FxTypes, PlugType
<1>2. PresetName \in Names
  BY FxWords
<1>3. quiet => /\ plug.names = origin.names /\ fx.cur = origin.prog
               /\ fx.bank => plug.prog = fx.p
               /\ ~fx.bank => plug.prog = origin.prog
  BY DEF FxIInv, Looking
<1>4. name \in Names
  BY <1>1, <1>2 DEF NamesOf
<1>5. quiet => name = plug.names[plug.prog]
  <2>. SUFFICES ASSUME quiet
                PROVE  name = plug.names[plug.prog]
    OBVIOUS
  <2>1. (IF fx.bank THEN current ELSE fx.cur) = current
    BY <1>1, <1>3
  <2>. QED BY <2>1 DEF NamesOf
<1>. QED BY <1>3, <1>4, <1>5

LEMMA FxSavesNameOfBank == FxIInv /\ SaveName /\ fx.bank => FxIInv'
<1>. SUFFICES ASSUME FxIInv, SaveName, fx.bank
              PROVE  FxIInv'
  OBVIOUS
<1>1. /\ step = "name" /\ fx.saving /\ UNCHANGED <<plug, current, fx, origin, quiet, edits>>
  BY DEF SaveName
<1>2. FxTypes /\ OnDisk /\ Begun /\ Looking /\ Writing /\ Complete
  BY DEF FxIInv
<1>3. ~plug.chunks /\ fx.p < NumPrograms /\ fxfile.words[3] = FxBk /\ fxfile.words[5] = Uid
  BY <1>1, <1>2 DEF Begun, Word
<1>4. step' = "params" /\ whole' = whole
  BY <1>3 DEF SaveName
<1>. DEFINE a == fxfile.words
            ws == fxfile'.words
<1>5. /\ a \in Seq(Nat) /\ Len(a) \in Nat /\ ~whole /\ Len(a) >= 7 /\ Len(a) >= 39
      /\ fxfile = [words |-> a, chunk |-> fxfile.chunk]
      /\ fxfile.chunk \in {<<>>} \cup BankChunks \cup PresetChunks
      /\ fx.p \in Nat /\ fx.p \in Presets
  <2>1. a \in Seq(Nat) /\ fxfile = [words |-> a, chunk |-> fxfile.chunk]
        /\ fxfile.chunk \in {<<>>} \cup BankChunks \cup PresetChunks /\ fx.p \in Nat
    BY <1>2 DEF FxTypes
  <2>2. Len(a) >= 7 /\ Len(a) >= 39
    BY <1>1, <1>2, <1>3, FxSizes, FxWords DEF OnDisk, Kinded, Begun, Word
  <2>3. ~whole
    BY <1>1, <1>2 DEF Complete
  <2>. QED BY <2>1, <2>2, <2>3, <1>3, LenProperties, FxNumbers
<1>6. PICK name \in NamesOf(current) :
        fxfile' = [fxfile EXCEPT !.words = (a \o Title(name)) \o <<>>]
  <2>1. PICK name \in NamesOf(IF fx.bank THEN current ELSE fx.cur) :
          fxfile' = Written( (IF fx.bank THEN FXHeader(FxCk, 2, Uid, NumPrograms) ELSE <<>>)
                             \o Repeat(name, NameSize)
                             \o (IF plug.chunks THEN <<1>> ELSE <<>>) )
    BY DEF SaveName
  <2>2. name \in NamesOf(current)
    BY <2>1
  <2>3. fxfile' = Written(Title(name) \o <<>>)
    BY <2>1, <1>3 DEF Title
  <2>4. name \in Names
    BY <2>1, <1>1, FxName
  <2>5. Title(name) \in Seq(Nat)
    BY <2>4, FxTitleWords
  <2>6. a \o (Title(name) \o <<>>) = (a \o Title(name)) \o <<>>
    BY <2>5, <1>5, ConcatEmptySeq, ConcatProperties
  <2>. QED BY <2>2, <2>3, <2>6 DEF Written
<1>7. /\ name \in Names
      /\ quiet => name = origin.names[fx.p]
  <2>1. name \in NamesOf(IF fx.bank THEN current ELSE fx.cur)
    OBVIOUS
  <2>. QED BY <2>1, <1>1, FxName
<1>8. PICK b \in Seq(Nat) : b = Title(name)
  BY <1>7, FxTitleWords
<1>9. /\ Len(b) = 14 /\ b[3] = FxCk /\ b[7] = NumPrograms /\ b[8] = name /\ Headed(b)
      /\ \A k \in 1 .. 14 : b[k] \in {FxCk, FPCh} => k = 3
  BY <1>7, <1>8, FxTitleWords
<1>10. /\ fxfile' = [words |-> a \o b, chunk |-> fxfile.chunk] /\ ws = a \o b
       /\ fxfile'.chunk = fxfile.chunk
  <2>1. a \o b \in Seq(Nat)
    BY <1>5, ConcatProperties
  <2>2. (a \o Title(name)) \o <<>> = a \o b
    BY <2>1, <1>8, ConcatEmptySeq
  <2>3. fxfile' = [fxfile EXCEPT !.words = a \o b]
    BY <1>6, <2>2
  <2>4. fxfile' = [words |-> a \o b, chunk |-> fxfile.chunk]
    BY <2>3, <1>5
  <2>. QED BY <2>4
<1>. HIDE DEF ws
<1>11. /\ ws \in Seq(Nat) /\ Len(ws) = Len(a) + Len(b) /\ Len(ws) \in Nat
       /\ \A k \in 1 .. Len(a) : ws[k] = a[k]
       /\ \A k \in 1 .. Len(b) : ws[Len(a) + k] = b[k]
       /\ \A k \in 1 .. Len(ws) : k > Len(a) => k - Len(a) \in 1 .. Len(b) /\ ws[k] = b[k - Len(a)]
  <2>1. Appended(ws, a, b)
    BY <1>5, <1>10, FxAppended
  <2>. QED BY ONLY <2>1 DEF Appended
<1>12. Len(ws) = Len(a) + 14
  BY <1>9, <1>11
<1>13. ws[3] = FxBk /\ ws[5] = Uid /\ ws[4] = a[4] /\ ws[7] = a[7] /\ ws[8] = a[8]
  <2>1. 3 \in 1 .. Len(a) /\ 4 \in 1 .. Len(a) /\ 5 \in 1 .. Len(a) /\ 7 \in 1 .. Len(a)
        /\ 8 \in 1 .. Len(a)
    BY <1>5
  <2>. QED BY <2>1, <1>11, <1>3
<1>14. ASSUME NEW k \in 1 .. Len(a)
       PROVE  /\ a[k] = FxCk => k + 11 + Params <= Len(a)
              /\ a[k] = FPCh => k + 5 <= Len(a)
  BY <1>1, <1>2 DEF OnDisk, Ended
<1>15. Headed(ws)
  <2>1. Headed(a)
    BY <1>2 DEF OnDisk
  <2>2. ASSUME NEW k \in 1 .. Len(a), a[k] \in {FPCh, FxCk}
        PROVE  ~(k + 5 > Len(a))
    <3>1. Params \in Nat /\ k \in Nat /\ Len(a) \in Nat
      BY FxWords
    <3>2. k + 11 + Params <= Len(a) \/ k + 5 <= Len(a)
      BY <2>2, <1>14
    <3>. QED BY ONLY <3>1, <3>2
  <2>3. ASSUME NEW k \in 1 .. Len(a), NEW i \in Indices, a[k] = FxCk
        PROVE  ~(k + 11 + i > Len(a))
    <3>1. i \in Nat /\ i <= Params /\ Params \in Nat /\ k \in Nat /\ Len(a) \in Nat
      BY FxWords DEF Indices
    <3>2. k + 11 + Params <= Len(a)
      BY <2>3, <1>14
    <3>. QED BY ONLY <3>1, <3>2
  <2>. QED BY <2>1, <2>2, <2>3, <1>5, <1>9, <1>10, FxHeadedOn
<1>16. ASSUME NEW k \in 1 .. Len(ws)
       PROVE  \/ k \in 1 .. Len(a) /\ ws[k] = a[k]
              \/ k > Len(a) /\ (ws[k] \in {FxCk, FPCh} => k = Len(a) + 3)
  <2>1. CASE k <= Len(a)
    <3>1. k \in 1 .. Len(a)
      BY <2>1
    <3>. QED BY ONLY <3>1, <1>11
  <2>2. CASE k > Len(a)
    <3>1. k - Len(a) \in 1 .. 14 /\ ws[k] = b[k - Len(a)]
      BY <2>2, <1>11, <1>9
    <3>2. ws[k] \in {FxCk, FPCh} => k - Len(a) = 3
      BY <3>1, <1>9
    <3>. QED BY <3>2, <2>2, <1>5
  <2>. QED BY <2>1, <2>2, <1>5
<1>17. ws[Len(a) + 3] = FxCk /\ ws[Len(a) + 7] = NumPrograms /\ ws[Len(a) + 8] = name
  <2>1. 3 \in 1 .. Len(b) /\ 7 \in 1 .. Len(b) /\ 8 \in 1 .. Len(b)
    BY <1>9
  <2>. QED BY <2>1, <1>9, <1>11
<1>18. Ended(fxfile.words)'
  <2>1. ASSUME NEW k \in 1 .. Len(ws), ws[k] = FxCk
        PROVE  k + 11 + Params <= Len(ws) \/ k + 11 = Len(ws)
    <3>1. CASE k \in 1 .. Len(a) /\ ws[k] = a[k]
      <4>1. k + 11 + Params <= Len(a)
        BY <3>1, <2>1, <1>14
      <4>2. k + 11 + Params \in Nat
        BY FxWords
      <4>. QED BY <4>1, <4>2, <1>12, <1>5
    <3>2. CASE k = Len(a) + 3
      BY <3>2, <1>12, <1>5
    <3>. QED BY <3>1, <3>2, <2>1, <1>16
  <2>2. ASSUME NEW k \in 1 .. Len(ws), ws[k] = FPCh
        PROVE  k + 5 <= Len(ws)
    <3>1. CASE k \in 1 .. Len(a) /\ ws[k] = a[k]
      <4>1. k + 5 <= Len(a)
        BY <3>1, <2>2, <1>14
      <4>. QED BY <4>1, <1>12, <1>5
    <3>2. CASE k = Len(a) + 3
      BY <3>2, <1>12, <1>5
    <3>. QED BY <3>1, <3>2, <2>2, <1>16
  <2>3. fx'.saving /\ step' = "params"
    BY <1>1, <1>4
  <2>. QED BY <2>1, <2>2, <2>3 DEF Ended, ws
<1>19. Chunked'
  <2>1. ASSUME NEW k \in 1 .. Len(ws), ws[k] = FPCh
        PROVE  fxfile.chunk \in PresetChunks
    <3>1. ws[k] # ws[Len(a) + 3]
      BY <2>1, <1>17, FxWords
    <3>2. k \in 1 .. Len(a) /\ a[k] = FPCh
      BY <3>1, <2>1, <1>16
    <3>. QED BY <3>2, <1>1, <1>2 DEF OnDisk, Chunked, Word
  <2>2. ws[3] # FBCh
    BY <1>13, FxWords
  <2>. QED BY <2>1, <2>2, <1>10 DEF Chunked, Word, ws
<1>20. Kinded'
  <2>1. HoleEnd = 39 /\ Len(ws) >= 39
    BY FxSizes, <1>12, <1>5
  <2>. QED BY <2>1, <1>13 DEF Kinded, Word, ws
<1>21. OnDisk'
  <2>1. Headed(fxfile.words)'
    BY <1>15 DEF Headed, ws
  <2>. QED BY <2>1, <1>18, <1>19, <1>20 DEF OnDisk
<1>22. FxTypes'
  <2>1. fx.pos <= Len(ws)
    <3>1. fx.pos \in Nat /\ fx.pos <= Len(a)
      BY <1>2 DEF FxTypes
    <3>. QED BY <3>1, <1>12, <1>5
  <2>2. fxfile' \in [words : Seq(Nat), chunk : {<<>>} \cup BankChunks \cup PresetChunks]
    BY <1>5, <1>10, <1>11
  <2>. QED BY <1>1, <1>2, <1>4, <1>5, <2>1, <2>2 DEF FxTypes, ws
<1>23. Begun'
  <2>1. Len(ws) >= HeaderSize
    BY <1>12, <1>5, FxSizes
  <2>. QED BY <1>1, <1>3, <1>4, <1>13, <2>1 DEF Begun, Word, ws
<1>24. Looking'
  BY <1>1, <1>2, <1>3, <1>4 DEF Looking
<1>25. Writing'
  <2>. SUFFICES ASSUME quiet
                PROVE  Writing'
    BY <1>1 DEF Writing
  <2>1. BankBegun /\ Len(a) = At(fx.p) /\ \A q \in Presets : q < fx.p => Block(a, q)
    BY <1>1, <1>2 DEF Writing
  <2>2. BankBegun'
    BY <2>1, <1>1, <1>13 DEF BankBegun, Word, ws
  <2>3. Len(ws) >= HoleEnd
    BY <1>12, <1>5, FxSizes
  <2>4. Titled(ws, fx.p) /\ Len(ws) = At(fx.p) + HeaderSize + NameSize
    <3>1. PICK n \in Nat : n = Len(a) /\ n = At(fx.p)
      BY <2>1, <1>5
    <3>2. /\ Len(ws) = n + 14 /\ ws[n + 3] = FxCk /\ ws[n + 7] = NumPrograms
          /\ ws[n + 8] = origin.names[fx.p]
      BY <3>1, <1>7, <1>12, <1>17
    <3>. QED BY ONLY <3>1, <3>2, FxSizes DEF Titled
  <2>5. \A q \in Presets : q < fx.p => Block(ws, q)
    BY <2>1, <1>5, <1>10, FxBlocks
  <2>6. Titled(fxfile.words, fx.p)' /\ \A q \in Presets : q < fx.p => Block(fxfile.words, q)'
    BY <2>4, <2>5, <1>1 DEF Titled, Block, ws
  <2>7. Len(fxfile'.words) = At(fx'.p) + HeaderSize + NameSize /\ Len(fxfile'.words) >= HoleEnd
    BY <2>3, <2>4, <1>1 DEF ws
  <2>. QED BY <2>2, <2>6, <2>7, <1>1, <1>4 DEF Writing
<1>26. Complete' /\ SavingOnlyLooks'
  BY <1>1, <1>4, <1>5 DEF Complete, SavingOnlyLooks
<1>. QED BY <1>1, <1>21, <1>22, <1>23, <1>24, <1>25, <1>26, FxSaves

LEMMA FxSavesNameOfPreset == FxIInv /\ SaveName /\ ~fx.bank => FxIInv'
<1>. SUFFICES ASSUME FxIInv, SaveName, ~fx.bank
              PROVE  FxIInv'
  OBVIOUS
<1>1. /\ step = "name" /\ fx.saving /\ UNCHANGED <<plug, current, fx, origin, quiet, edits>>
  BY DEF SaveName
<1>2. FxTypes /\ OnDisk /\ Begun /\ Looking /\ Writing /\ Complete
  BY DEF FxIInv
<1>. DEFINE a == fxfile.words
            ws == fxfile'.words
<1>3. /\ a[3] = (IF plug.chunks THEN FPCh ELSE FxCk) /\ a[5] = Uid /\ Len(a) = 7
      /\ plug.chunks \in BOOLEAN
  BY <1>1, <1>2, FxSizes DEF Begun, Word, FxTypes, PlugType
<1>4. /\ plug.chunks => step' = "idle" /\ whole' = quiet
      /\ ~plug.chunks => step' = "params" /\ whole' = whole
  BY DEF SaveName, FileSaved
<1>5. /\ a \in Seq(Nat) /\ ~whole
      /\ fxfile = [words |-> a, chunk |-> fxfile.chunk]
      /\ fxfile.chunk \in {<<>>} \cup BankChunks \cup PresetChunks
  <2>1. a \in Seq(Nat) /\ fxfile = [words |-> a, chunk |-> fxfile.chunk]
        /\ fxfile.chunk \in {<<>>} \cup BankChunks \cup PresetChunks
    BY <1>2 DEF FxTypes
  <2>3. ~whole
    BY <1>1, <1>2 DEF Complete
  <2>. QED BY <2>1, <2>3
<1>. DEFINE c == IF plug.chunks THEN <<1>> ELSE <<>>
<1>6. PICK name \in Names :
        /\ quiet => name = origin.names[origin.prog]
        /\ fxfile' = [fxfile EXCEPT !.words = a \o (Repeat(name, NameSize) \o c)]
  <2>1. PICK name \in NamesOf(IF fx.bank THEN current ELSE fx.cur) :
          fxfile' = Written( (IF fx.bank THEN FXHeader(FxCk, 2, Uid, NumPrograms) ELSE <<>>)
                             \o Repeat(name, NameSize)
                             \o (IF plug.chunks THEN <<1>> ELSE <<>>) )
    BY DEF SaveName
  <2>2. name \in Names /\ (quiet => name = origin.names[origin.prog])
    BY <2>1, <1>1, FxName
  <2>3. fxfile' = Written((<<>> \o Repeat(name, NameSize)) \o c)
    BY <2>1
  <2>4. <<>> \o Repeat(name, NameSize) = Repeat(name, NameSize)
    BY <2>2, FxNameWords, ConcatEmptySeq
  <2>5. fxfile' = Written(Repeat(name, NameSize) \o c)
    BY <2>3, <2>4
  <2>6. fxfile' = [fxfile EXCEPT !.words = a \o (Repeat(name, NameSize) \o c)]
    BY <2>5 DEF Written
  <2>. QED BY <2>2, <2>6
<1>7. /\ c \in Seq(Nat) /\ Len(c) = (IF plug.chunks THEN 1 ELSE 0)
      /\ \A k \in 1 .. Len(c) : c[k] \notin {FxCk, FPCh}
  <2>1. 1 \notin {FxCk, FPCh}
    BY FxWords
  <2>. QED BY <2>1
<1>. DEFINE d == Repeat(name, NameSize)
            b == d \o c
<1>8. d \in Seq(Nat) /\ Len(d) = 7 /\ \A k \in 1 .. 7 : d[k] = name
  BY FxNameWords
<1>9. fxfile' = [fxfile EXCEPT !.words = a \o b]
  BY <1>6
<1>. HIDE DEF c, d
<1>10. /\ b \in Seq(Nat) /\ Len(b) = Len(d) + Len(c)
       /\ \A k \in 1 .. Len(d) : b[k] = d[k]
       /\ \A k \in 1 .. Len(b) : k > Len(d) => k - Len(d) \in 1 .. Len(c) /\ b[k] = c[k - Len(d)]
  <2>1. Appended(b, d, c)
    BY <1>7, <1>8, FxAppended
  <2>. QED BY ONLY <2>1 DEF Appended
<1>. HIDE DEF b
<1>11. /\ Len(b) = (IF plug.chunks THEN 8 ELSE 7) /\ b[1] = name
       /\ \A k \in 1 .. Len(b) : b[k] \notin {FxCk, FPCh}
  <2>1. Len(b) = IF plug.chunks THEN 8 ELSE 7
    BY <1>7, <1>8, <1>10
  <2>2. 1 \in 1 .. Len(d) /\ 1 \in 1 .. 7
    BY <1>8
  <2>3. ASSUME NEW k \in 1 .. Len(b)
        PROVE  b[k] \notin {FxCk, FPCh}
    <3>1. CASE k <= 7
      <4>1. k \in 1 .. Len(d) /\ k \in 1 .. 7
        BY <3>1, <1>8, <2>1
      <4>. QED BY <4>1, <1>10, <1>8, FxWords
    <3>2. CASE k > 7
      <4>1. k - Len(d) \in 1 .. Len(c) /\ b[k] = c[k - Len(d)]
        BY <3>2, <1>8, <1>10
      <4>. QED BY <4>1, <1>7
    <3>. QED BY <3>1, <3>2, <2>1
  <2>. QED BY <2>1, <2>2, <2>3, <1>8, <1>10
<1>12. /\ fxfile' = [words |-> a \o b, chunk |-> fxfile.chunk] /\ ws = a \o b
       /\ fxfile'.chunk = fxfile.chunk
  <2>1. fxfile' = [words |-> a \o b, chunk |-> fxfile.chunk]
    BY <1>9, <1>5
  <2>. QED BY <2>1
<1>. HIDE DEF ws
<1>13. /\ ws \in Seq(Nat) /\ Len(ws) = Len(a) + Len(b)
       /\ \A k \in 1 .. Len(a) : ws[k] = a[k]
       /\ \A k \in 1 .. Len(b) : ws[Len(a) + k] = b[k]
       /\ \A k \in 1 .. Len(ws) : k > Len(a) => k - Len(a) \in 1 .. Len(b) /\ ws[k] = b[k - Len(a)]
  <2>1. Appended(ws, a, b)
    BY <1>5, <1>10, <1>12, FxAppended
  <2>. QED BY ONLY <2>1 DEF Appended
<1>14. /\ Len(ws) = (IF plug.chunks THEN 15 ELSE 14)
       /\ \A k \in 1 .. 7 : ws[k] = a[k]
       /\ ws[3] = a[3] /\ ws[5] = Uid /\ ws[8] = name
  <2>1. Len(a) = 7 /\ Len(ws) = (IF plug.chunks THEN 15 ELSE 14)
    BY <1>3, <1>11, <1>13
  <2>2. 1 \in 1 .. Len(b) /\ Len(a) + 1 = 8
    BY <2>1, <1>11
  <2>3. ws[8] = name
    BY <2>2, <1>13, <1>11
  <2>4. \A k \in 1 .. 7 : ws[k] = a[k]
    BY <2>1, <1>13
  <2>5. 3 \in 1 .. 7 /\ 5 \in 1 .. 7
    OBVIOUS
  <2>. QED BY <2>1, <2>3, <2>4, <2>5, <1>3
<1>15. ASSUME NEW k \in 1 .. 7
       PROVE  /\ a[k] = FxCk => k = 3 /\ ~plug.chunks
              /\ a[k] = FPCh => k <= 3
  <2>1. k \in 1 .. Len(a)
    BY <1>3
  <2>2. /\ a[k] = FxCk => k + 11 + Params <= Len(a) \/ k + 4 = Len(a)
        /\ a[k] = FPCh => k + 5 <= Len(a) \/ k + 4 = Len(a)
    BY <2>1, <1>1, <1>2 DEF OnDisk, Ended
  <2>3. a[k] = FxCk => k = 3
    BY <2>2, <1>3, FxWords
  <2>4. a[k] = FPCh => k <= 3
    BY <2>2, <1>3
  <2>. QED BY <2>3, <2>4, <1>3, FxWords
<1>16. Headed(ws)
  <2>1. Headed(a) /\ Headed(b)
    BY <1>2, <1>10, <1>11, FxPlain DEF OnDisk
  <2>2. ASSUME NEW k \in 1 .. Len(a), a[k] \in {FPCh, FxCk}, k + 5 > Len(a)
        PROVE  b[k + 5 - Len(a)] \in Names
    <3>1. k \in 1 .. 7 /\ Len(a) = 7
      BY <1>3
    <3>2. k <= 3
      BY <3>1, <2>2, <1>15
    <3>3. k + 5 - Len(a) = 1
      BY <3>1, <3>2, <2>2
    <3>. QED BY <3>3, <1>11
  <2>3. ASSUME NEW k \in 1 .. Len(a), NEW i \in Indices, a[k] = FxCk
        PROVE  ~(k + 11 + i - Len(a) <= Len(b))
    <3>1. i \in Nat /\ 1 <= i /\ k \in 1 .. 7 /\ Len(a) = 7
      BY <1>3, FxWords DEF Indices
    <3>2. k = 3 /\ Len(b) = 7
      BY <3>1, <2>3, <1>15, <1>11
    <3>. QED BY <3>1, <3>2
  <2>. QED BY <2>1, <2>2, <2>3, <1>5, <1>10, <1>12, FxHeadedOn
<1>17. ASSUME NEW k \in 1 .. Len(ws), ws[k] \in {FxCk, FPCh}
       PROVE  k \in 1 .. 7 /\ ws[k] = a[k]
  <2>1. CASE k <= 7
    BY <2>1, <1>14
  <2>2. CASE k > 7
    <3>1. k - Len(a) \in 1 .. Len(b) /\ ws[k] = b[k - Len(a)]
      BY <2>2, <1>3, <1>13
    <3>. QED BY <3>1, <1>17, <1>11
  <2>. QED BY <2>1, <2>2, <1>14
<1>18. Ended(fxfile.words)'
  <2>1. ASSUME NEW k \in 1 .. Len(ws), ws[k] = FxCk
        PROVE  k + 11 = Len(ws) /\ step' = "params"
    <3>1. k \in 1 .. 7 /\ a[k] = FxCk
      BY <2>1, <1>17
    <3>2. k = 3 /\ ~plug.chunks
      BY <3>1, <1>15
    <3>. QED BY <3>2, <1>14, <1>4
  <2>2. ASSUME NEW k \in 1 .. Len(ws), ws[k] = FPCh
        PROVE  k + 5 <= Len(ws)
    <3>1. k \in 1 .. 7 /\ a[k] = FPCh
      BY <2>2, <1>17
    <3>2. k <= 3
      BY <3>1, <1>15
    <3>. QED BY <3>1, <3>2, <1>14
  <2>3. fx'.saving
    BY <1>1
  <2>. QED BY <2>1, <2>2, <2>3 DEF Ended, ws
<1>19. Chunked'
  <2>1. ASSUME NEW k \in 1 .. Len(ws), ws[k] = FPCh
        PROVE  fxfile.chunk \in PresetChunks
    <3>2. k \in 1 .. Len(a) /\ a[k] = FPCh
      BY <2>1, <1>17, <1>3
    <3>. QED BY <3>2, <1>1, <1>2 DEF OnDisk, Chunked, Word
  <2>2. ws[3] # FBCh
    BY <1>14, <1>3, FxWords
  <2>. QED BY <2>1, <2>2, <1>12 DEF Chunked, Word, ws
<1>20. Kinded'
  <2>1. ws[3] \in {FxCk, FPCh} /\ ws[3] \notin {FxBk, FBCh}
    BY <1>3, <1>14, FxWords
  <2>. QED BY <2>1 DEF Kinded, Word, ws
<1>21. OnDisk'
  <2>1. Headed(fxfile.words)'
    BY <1>16 DEF Headed, ws
  <2>. QED BY <2>1, <1>18, <1>19, <1>20 DEF OnDisk
<1>22. FxTypes'
  <2>1. fx.pos <= Len(ws)
    <3>1. fx.pos \in Nat /\ fx.pos <= Len(a)
      BY <1>2 DEF FxTypes
    <3>. QED BY <3>1, <1>14, <1>3
  <2>2. fxfile' \in [words : Seq(Nat), chunk : {<<>>} \cup BankChunks \cup PresetChunks]
    BY <1>5, <1>12, <1>13
  <2>3. step' \in {"idle", "params"} /\ whole' \in BOOLEAN
    BY <1>2, <1>3, <1>4 DEF FxTypes
  <2>. QED BY <1>1, <1>2, <2>3, <1>5, <2>1, <2>2 DEF FxTypes, ws
<1>23. Begun'
  <2>1. Len(ws) >= HeaderSize
    BY <1>14, FxSizes
  <2>2. step' \in {"idle", "params"} /\ (step' = "params" => ~plug.chunks)
    BY <1>3, <1>4
  <2>. QED BY <1>1, <1>3, <1>14, <2>1, <2>2 DEF Begun, Word, ws
<1>24. quiet => /\ plug.bank = origin.bank /\ plug.names = origin.names /\ fx.cur = origin.prog
                /\ plug.prog = origin.prog /\ name = origin.names[origin.prog]
  BY <1>1, <1>2, <1>6 DEF Looking
<1>25. Looking'
  <2>1. step' \in {"idle", "params"}
    BY <1>3, <1>4
  <2>. QED BY <2>1, <1>24, <1>1 DEF Looking
<1>26. Writing'
  <2>1. step' \in {"idle", "params"}
    BY <1>3, <1>4
  <2>2. step' = "params" => Len(ws) = HeaderSize + NameSize
    BY <1>3, <1>4, <1>14, FxSizes
  <2>. QED BY <2>1, <2>2, <1>24, <1>14, <1>1 DEF Writing, Word, ws
<1>27. Complete'
  <2>1. CASE plug.chunks
    <3>1. quiet => OneChunk
      BY <2>1, <1>1, <1>2 DEF Writing
    <3>2. quiet => OneChunk'
      BY <3>1, <1>1, <1>12 DEF OneChunk
    <3>3. ws[3] = FPCh /\ FPCh # FBCh /\ FPCh # FxCk /\ FPCh # FxBk
      BY <2>1, <1>3, <1>14, FxWords
    <3>4. Len(ws) >= HeaderSize /\ Len(ws) = HeaderSize + NameSize + 1
      BY <2>1, <1>14, FxSizes
    <3>. QED BY <3>2, <3>3, <3>4, <2>1, <1>4 DEF Complete, Word, ws
  <2>2. CASE ~plug.chunks
    BY <2>2, <1>4, <1>5 DEF Complete
  <2>. QED BY <2>1, <2>2
<1>28. SavingOnlyLooks'
  <2>1. ws[3] # FxBk
    BY <1>3, <1>14, FxWords
  <2>. QED BY <2>1, <1>24, <1>1 DEF SavingOnlyLooks, Word, ws
<1>. QED BY <1>1, <1>21, <1>22, <1>23, <1>25, <1>26, <1>27, <1>28, FxSaves

-----------------------------------------------------------------------------
(* SaveParams *)
LEMMA FxSavesParams == FxIInv /\ SaveParams => FxIInv'
<1>. SUFFICES ASSUME FxIInv, SaveParams
              PROVE  FxIInv'
  OBVIOUS
<1>1. /\ step = "params" /\ fx.saving /\ UNCHANGED <<plug, current, origin, quiet, edits>>
      /\ fx' = [fx EXCEPT !.p = @ + 1]
      /\ ~fx.bank => step' = "idle" /\ whole' = quiet
      /\ fx.bank => step' = (IF fx.p + 1 < NumPrograms THEN "select" ELSE "back") /\ whole' = whole
  BY DEF SaveParams, FileSaved
<1>2. FxTypes /\ OnDisk /\ Begun /\ Looking /\ Writing /\ Complete
  BY DEF FxIInv
<1>. DEFINE a == fxfile.words
            b == [i \in Indices |-> SwapFloat(plug.bank[plug.prog][i])]
            ws == fxfile'.words
<1>3. /\ a[3] = (IF fx.bank THEN FxBk ELSE FxCk) /\ a[5] = Uid /\ Len(a) >= 7
      /\ ~plug.chunks /\ fx.bank \in BOOLEAN /\ fx.p \in Nat /\ Len(a) \in Nat
      /\ fx.bank => fx.p < NumPrograms /\ Len(a) >= 39 /\ fx.p \in Presets
  <2>1. /\ a[3] = (IF fx.bank THEN FxBk ELSE FxCk) /\ a[5] = Uid /\ Len(a) >= 7
        /\ ~plug.chunks /\ (fx.bank => fx.p < NumPrograms)
    BY <1>1, <1>2, FxSizes DEF Begun, Word
  <2>2. fx.bank \in BOOLEAN /\ fx.p \in Nat /\ Len(a) \in Nat
    BY <1>2, LenProperties DEF FxTypes
  <2>3. fx.bank => Len(a) >= 39
    BY <2>1, <1>2, FxSizes DEF OnDisk, Kinded, Word
  <2>. QED BY <2>1, <2>2, <2>3, FxNumbers
<1>4. /\ fx' \in [saving : BOOLEAN, bank : BOOLEAN, cur : Presets, p : Nat, n : Nat, pos : Nat]
      /\ fx'.saving = fx.saving /\ fx'.bank = fx.bank /\ fx'.cur = fx.cur /\ fx'.p = fx.p + 1
      /\ fx'.pos = fx.pos
  <2>1. fx \in [saving : BOOLEAN, bank : BOOLEAN, cur : Presets, p : Nat, n : Nat, pos : Nat]
    BY <1>2 DEF FxTypes
  <2>2. PICK n \in Nat : n = fx.p + 1
    BY <1>3
  <2>3. fx' = [fx EXCEPT !.p = n]
    BY <2>2, <1>1
  <2>. QED BY <2>1, <2>2, <2>3
<1>p. Params \in Nat /\ 1 <= Params
  BY FxWords
<1>5. /\ a \in Seq(Nat) /\ ~whole
      /\ fxfile = [words |-> a, chunk |-> fxfile.chunk]
      /\ fxfile.chunk \in {<<>>} \cup BankChunks \cup PresetChunks
  <2>1. a \in Seq(Nat) /\ fxfile = [words |-> a, chunk |-> fxfile.chunk]
        /\ fxfile.chunk \in {<<>>} \cup BankChunks \cup PresetChunks
    BY <1>2 DEF FxTypes
  <2>3. ~whole
    BY <1>1, <1>2 DEF Complete
  <2>. QED BY <2>1, <2>3
<1>6. /\ b \in Seq(Nat) /\ Len(b) = Params /\ Params \in Nat /\ 1 <= Params
      /\ \A i \in 1 .. Params : b[i] = SwapFloat(plug.bank[plug.prog][i]) /\ b[i] \in {Zero, Big}
  <2>1. plug.bank[plug.prog] \in [Indices -> Floats]
    BY <1>2 DEF FxTypes, PlugType
  <2>2. \A i \in Indices : SwapFloat(plug.bank[plug.prog][i]) \in {Zero, Big}
    BY <2>1, FxFloats
  <2>3. Zero \in Nat /\ Big \in Nat /\ Params \in Nat /\ 1 <= Params
    BY FxWords
  <2>4. \A i \in Indices : b[i] = SwapFloat(plug.bank[plug.prog][i])
    OBVIOUS
  <2>5. b \in [1 .. Params -> Nat]
    BY <2>2, <2>3 DEF Indices
  <2>6. b \in Seq(Nat) /\ Len(b) = Params
    BY <2>3, <2>5, LenProperties, SeqDef
  <2>. QED BY <2>2, <2>3, <2>4, <2>6 DEF Indices
<1>7. fxfile' = [words |-> a \o b, chunk |-> fxfile.chunk] /\ ws = a \o b
      /\ fxfile'.chunk = fxfile.chunk
  <2>1. fxfile' = [fxfile EXCEPT !.words = a \o b]
    BY DEF SaveParams, Written
  <2>2. fxfile' = [words |-> a \o b, chunk |-> fxfile.chunk]
    BY <2>1, <1>5
  <2>. QED BY <2>2
<1>. HIDE DEF b, ws
<1>8. /\ ws \in Seq(Nat) /\ Len(ws) = Len(a) + Params
      /\ \A k \in 1 .. Len(a) : ws[k] = a[k]
      /\ \A k \in 1 .. Params : ws[Len(a) + k] = b[k]
      /\ \A k \in 1 .. Len(ws) : k > Len(a) => k - Len(a) \in 1 .. Params /\ ws[k] = b[k - Len(a)]
  <2>1. /\ ws \in Seq(Nat) /\ Len(ws) = Len(a) + Len(b)
        /\ \A k \in 1 .. Len(a) : ws[k] = a[k]
        /\ \A k \in 1 .. Len(b) : ws[Len(a) + k] = b[k]
        /\ \A k \in 1 .. Len(ws) : k > Len(a) => k - Len(a) \in 1 .. Len(b) /\ ws[k] = b[k - Len(a)]
    <3>1. Appended(ws, a, b)
      BY <1>5, <1>6, <1>7, FxAppended
    <3>. QED BY ONLY <3>1 DEF Appended
  <2>. QED BY <2>1, <1>6
<1>s. Len(ws) = Len(a) + Params /\ Len(a) \in Nat /\ Len(a) >= 7
  BY <1>3, <1>8
<1>9. /\ ws[3] = a[3] /\ ws[4] = a[4] /\ ws[5] = Uid /\ ws[7] = a[7]
      /\ Len(a) >= 8 => ws[8] = a[8]
  <2>1. 3 \in 1 .. Len(a) /\ 4 \in 1 .. Len(a) /\ 5 \in 1 .. Len(a) /\ 7 \in 1 .. Len(a)
        /\ (Len(a) >= 8 => 8 \in 1 .. Len(a))
    BY <1>3
  <2>. QED BY <2>1, <1>8, <1>3
<1>10. ASSUME NEW k \in 1 .. Len(a)
       PROVE  /\ a[k] = FxCk => k + 11 + Params <= Len(a) \/ k + 11 = Len(a)
              /\ a[k] = FPCh => k + 5 <= Len(a)
  BY <1>1, <1>2 DEF OnDisk, Ended
<1>11. \A k \in 1 .. Params : b[k] \notin {FxCk, FPCh}
  BY <1>6, FxWords
<1>12. Headed(ws)
  <2>1. Headed(a) /\ Headed(b)
    BY <1>2, <1>6, <1>11, FxPlain DEF OnDisk
  <2>2. ASSUME NEW k \in 1 .. Len(a), a[k] \in {FPCh, FxCk}
        PROVE  ~(k + 5 > Len(a))
    <3>1. k + 11 + Params <= Len(a) \/ k + 11 = Len(a) \/ k + 5 <= Len(a)
      BY <2>2, <1>10
    <3>. QED BY <3>1, <1>p, <1>s
  <2>3. ASSUME NEW k \in 1 .. Len(a), NEW i \in Indices, a[k] = FxCk, k + 11 + i > Len(a)
        PROVE  b[k + 11 + i - Len(a)] \in {Zero, Big}
    <3>1. i \in 1 .. Params
      BY DEF Indices
    <3>2. k + 11 = Len(a)
      <4>1. k + 11 + Params <= Len(a) \/ k + 11 = Len(a)
        BY <2>3, <1>10
      <4>. QED BY <4>1, <3>1, <2>3, <1>p, <1>s
    <3>3. k + 11 + i - Len(a) = i
      BY <3>1, <3>2, <1>p, <1>s
    <3>. QED BY <3>1, <3>3, <1>6
  <2>. QED BY <2>1, <2>2, <2>3, <1>5, <1>6, <1>7, FxHeadedOn
<1>13. ASSUME NEW k \in 1 .. Len(ws), ws[k] \in {FxCk, FPCh}
       PROVE  k \in 1 .. Len(a) /\ ws[k] = a[k]
  <2>1. CASE k <= Len(a)
    BY <2>1, <1>8, <1>3
  <2>2. CASE k > Len(a)
    <3>1. k - Len(a) \in 1 .. Params /\ ws[k] = b[k - Len(a)]
      BY <2>2, <1>8
    <3>. QED BY <3>1, <1>13, <1>11
  <2>. QED BY <2>1, <2>2, <1>3
<1>14. Ended(fxfile.words)'
  <2>1. ASSUME NEW k \in 1 .. Len(ws), ws[k] = FxCk
        PROVE  k + 11 + Params <= Len(ws)
    <3>1. k \in 1 .. Len(a) /\ a[k] = FxCk
      BY <2>1, <1>13
    <3>2. k + 11 + Params <= Len(a) \/ k + 11 = Len(a)
      BY <3>1, <1>10
    <3>. QED BY <3>1, <3>2, <1>s, <1>p
  <2>2. ASSUME NEW k \in 1 .. Len(ws), ws[k] = FPCh
        PROVE  k + 5 <= Len(ws)
    <3>1. k \in 1 .. Len(a) /\ a[k] = FPCh
      BY <2>2, <1>13
    <3>2. k + 5 <= Len(a)
      BY <3>1, <1>10
    <3>. QED BY <3>1, <3>2, <1>s, <1>p
  <2>. QED BY <2>1, <2>2 DEF Ended, ws
<1>15. Chunked'
  <2>1. ASSUME NEW k \in 1 .. Len(ws), ws[k] = FPCh
        PROVE  fxfile.chunk \in PresetChunks
    <3>2. k \in 1 .. Len(a) /\ a[k] = FPCh
      BY <2>1, <1>13
    <3>. QED BY <3>2, <1>1, <1>2 DEF OnDisk, Chunked, Word
  <2>2. ws[3] # FBCh
    BY <1>9, <1>3, FxWords
  <2>. QED BY <2>1, <2>2, <1>7 DEF Chunked, Word, ws
<1>16. Kinded'
  <2>1. ws[3] \in {FxBk, FxCk} /\ (ws[3] \in {FxBk, FBCh} => fx.bank)
    BY <1>3, <1>9, FxWords
  <2>2. fx.bank => Len(ws) >= HoleEnd
    BY <1>3, <1>6, <1>8, FxSizes
  <2>. QED BY <2>1, <2>2 DEF Kinded, Word, ws
<1>17. OnDisk'
  <2>1. Headed(fxfile.words)'
    BY <1>12 DEF Headed, ws
  <2>. QED BY <2>1, <1>14, <1>15, <1>16 DEF OnDisk
<1>18. FxTypes'
  <2>1. fx.pos <= Len(ws)
    <3>1. fx.pos \in Nat /\ fx.pos <= Len(a)
      BY <1>2 DEF FxTypes
    <3>. QED BY <3>1, <1>s, <1>p
  <2>2. fxfile' \in [words : Seq(Nat), chunk : {<<>>} \cup BankChunks \cup PresetChunks]
    BY <1>5, <1>7, <1>8
  <2>3. step' \in {"idle", "select", "back"} /\ whole' \in BOOLEAN
    BY <1>1, <1>2, <1>3 DEF FxTypes
  <2>. QED BY <1>1, <1>2, <1>4, <2>3, <1>5, <2>1, <2>2 DEF FxTypes, ws
<1>19. Begun'
  <2>1. Len(ws) >= HeaderSize
    BY <1>3, <1>6, <1>8, FxSizes
  <2>2. /\ step' \in {"idle", "select", "back"}
        /\ step' \in {"select", "back"} => fx.bank
        /\ step' = "select" => fx.p + 1 < NumPrograms
    BY <1>1, <1>3
  <2>. QED BY <1>1, <1>3, <1>4, <1>9, <2>1, <2>2 DEF Begun, Word, ws
<1>20. quiet => /\ plug.bank = origin.bank /\ plug.names = origin.names /\ fx.cur = origin.prog
                /\ ~fx.bank => plug.prog = origin.prog
                /\ fx.bank => plug.prog = fx.p
  BY <1>1, <1>2, <1>3 DEF Looking
<1>21. fx.bank /\ step' = "back" => fx.p = NumPrograms - 1
  <2>. SUFFICES ASSUME fx.bank, step' = "back"
                PROVE  fx.p = NumPrograms - 1
    OBVIOUS
  <2>1. ~(fx.p + 1 < NumPrograms) /\ fx.p < NumPrograms /\ fx.p \in Nat
    BY <1>1, <1>3
  <2>2. NumPrograms \in Nat
    BY FxWords
  <2>. QED BY <2>1, <2>2
<1>22. Looking'
  <2>1. step' = "idle" \/ (fx.bank /\ step' \in {"select", "back"})
    BY <1>1, <1>3
  <2>2. step' = "idle" => Looking'
    BY DEF Looking
  <2>3. ASSUME fx.bank, step' \in {"select", "back"}
        PROVE  Looking'
    BY <2>3, <1>20, <1>21, <1>1, <1>3, <1>4 DEF Looking
  <2>. QED BY <2>1, <2>2, <2>3
<1>23. Writing'
  <2>1. step' = "idle" => Writing'
    BY DEF Writing
  <2>. SUFFICES ASSUME fx.bank, quiet, step' \in {"select", "back"}
                PROVE  Writing'
    BY <2>1, <1>1, <1>3, <1>4 DEF Writing
  <2>2. /\ BankBegun /\ Len(a) = At(fx.p) + 14 /\ Titled(a, fx.p)
        /\ \A q \in Presets : q < fx.p => Block(a, q)
    <3>1. /\ BankBegun /\ Len(a) = At(fx.p) + HeaderSize + NameSize /\ Titled(a, fx.p)
          /\ \A q \in Presets : q < fx.p => Block(a, q)
      BY <1>1, <1>2 DEF Writing
    <3>2. At(fx.p) + HeaderSize + NameSize = At(fx.p) + 14
      <4>1. PICK n \in Nat : n = At(fx.p)
        BY <1>3, FxPlaces
      <4>. QED BY <4>1, FxSizes
    <3>. QED BY <3>1, <3>2
  <2>3. BankBegun'
    BY <2>2, <1>1, <1>3, <1>9 DEF BankBegun, Word, ws
  <2>4. Len(ws) = At(fx.p + 1) /\ Len(ws) >= HoleEnd
    <3>1. PICK n \in Nat : n = At(fx.p) /\ At(fx.p + 1) = n + 14 + Params
      BY <1>3, FxPlaces
    <3>2. Len(ws) = n + 14 + Params
      BY <3>1, <2>2, <1>8
    <3>3. Len(ws) >= HoleEnd
      BY <1>3, <1>6, <1>8, FxSizes
    <3>. QED BY <3>1, <3>2, <3>3
  <2>5. Block(ws, fx.p)
    <3>1. Titled(ws, fx.p)
      BY <2>2, <1>3, <1>5, <1>6, <1>7, FxBlocks
    <3>2. PICK n \in Nat : n = At(fx.p) /\ Len(a) = n + 14 /\ Len(ws) = n + 14 + Params
      <4>1. At(fx.p) \in Nat
        BY <1>3, FxPlaces
      <4>. QED BY ONLY <4>1, <2>2, <1>s
    <3>3. ASSUME NEW i \in Indices
          PROVE  ws[n + 14 + i] = SwapFloat(origin.bank[fx.p][i])
      <4>1. i \in 1 .. Params
        BY DEF Indices
      <4>2. ws[Len(a) + i] = b[i]
        BY <4>1, <1>8
      <4>3. b[i] = SwapFloat(origin.bank[fx.p][i])
        BY <4>1, <1>6, <1>20
      <4>. QED BY <4>2, <4>3, <3>2
    <3>. QED BY <3>1, <3>2, <3>3, FxSizes DEF Block
  <2>6. \A q \in Presets : q < fx.p + 1 => Block(ws, q)
    <3>1. ASSUME NEW q \in Presets, q < fx.p + 1
          PROVE  q < fx.p \/ q = fx.p
      BY ONLY <3>1, <1>3, FxNumbers
    <3>. QED BY <3>1, <2>2, <2>5, <1>5, <1>6, <1>7, FxBlocks
  <2>7. \A q \in Presets : q < fx.p + 1 => Block(fxfile.words, q)'
    BY <2>6, <1>1 DEF Titled, Block, ws
  <2>8. step' = "back" => \A q \in Presets : q < fx.p + 1
    <3>1. \A q \in Presets : q \in Nat /\ q < NumPrograms
      BY FxNumbers
    <3>. QED BY <3>1, <1>21, FxWords
  <2>9. Len(fxfile'.words) = At(fx'.p) /\ Len(fxfile'.words) >= HoleEnd
    BY <2>4, <1>4 DEF ws
  <2>. QED BY <2>3, <2>7, <2>8, <2>9, <1>1, <1>4 DEF Writing
<1>24. Complete' /\ SavingOnlyLooks'
  <2>1. CASE fx.bank
    BY <2>1, <1>1, <1>4, <1>5 DEF Complete, SavingOnlyLooks
  <2>2. CASE ~fx.bank
    <3>1. ws[3] = FxCk /\ FxCk # FBCh /\ FxCk # FPCh /\ FxCk # FxBk
      BY <2>2, <1>3, <1>9, FxWords
    <3>2. quiet => Len(a) = 14 /\ a[8] = origin.names[origin.prog]
      BY <2>2, <1>1, <1>2, FxSizes DEF Writing, Word
    <3>3. quiet => Len(ws) >= HeaderSize + NameSize /\ ws[8] = origin.names[origin.prog]
      <4>. SUFFICES ASSUME quiet
                    PROVE  Len(ws) >= HeaderSize + NameSize /\ ws[8] = origin.names[origin.prog]
        OBVIOUS
      <4>1. Len(a) = 14 /\ a[8] = origin.names[origin.prog]
        BY <3>2
      <4>2. Len(ws) >= 14 /\ ws[8] = a[8]
        BY <4>1, <1>s, <1>p, <1>9
      <4>. QED BY <4>1, <4>2, FxSizes
    <3>4. Len(ws) >= HeaderSize
      BY <1>3, <1>6, <1>8, FxSizes
    <3>5. Complete'
      BY <3>1, <3>3, <3>4, <2>2, <1>1 DEF Complete, Word, ws
    <3>6. SavingOnlyLooks'
      BY <3>1, <1>20, <2>2, <1>1 DEF SavingOnlyLooks, Word, ws
    <3>. QED BY <3>5, <3>6
  <2>. QED BY <2>1, <2>2
<1>. QED BY <1>1, <1>4, <1>17, <1>18, <1>19, <1>22, <1>23, <1>24, FxSaves

-----------------------------------------------------------------------------
(* SaveSelect and SelectBack leave the file as it is.                        *)
LEMMA FxSameFile ==
  ASSUME FxIInv, UNCHANGED <<fxfile, fx>>, fx.saving, fx.bank,
         step \in {"select", "back"}, step' \in {"name", "idle"}
  PROVE  OnDisk'
<1>1. Headed(fxfile.words)' /\ Kinded'
  BY DEF FxIInv, OnDisk, Headed, Kinded, Word
<1>2. Ended(fxfile.words)'
  <2>1. ASSUME NEW k \in 1 .. Len(fxfile.words)
        PROVE  /\ fxfile.words[k] = FxCk => k + 11 + Params <= Len(fxfile.words)
               /\ fxfile.words[k] = FPCh => k + 5 <= Len(fxfile.words)
    BY DEF FxIInv, OnDisk, Ended
  <2>. QED BY <2>1 DEF Ended
<1>3. Chunked'
  BY DEF FxIInv, OnDisk, Chunked, Word
<1>. QED BY <1>1, <1>2, <1>3 DEF OnDisk

LEMMA FxSavesSelect == FxIInv /\ SaveSelect => FxIInv'
<1>. SUFFICES ASSUME FxIInv, SaveSelect
              PROVE  FxIInv'
  OBVIOUS
<1>1. /\ step = "select" /\ fx.saving /\ SetProgram(fx.p) /\ step' = "name"
      /\ UNCHANGED <<fxfile, fx, origin, quiet, whole, edits>>
  BY DEF SaveSelect
<1>2. FxTypes /\ Begun /\ Looking /\ Writing /\ Complete
  BY DEF FxIInv
<1>3. fx.bank /\ ~plug.chunks /\ fx.p < NumPrograms /\ fx.p \in Nat /\ fx.p \in Presets
  <2>1. fx.bank /\ ~plug.chunks /\ fx.p < NumPrograms /\ fx.p \in Nat
    BY <1>1, <1>2 DEF Begun, FxTypes
  <2>. QED BY <2>1, FxNumbers
<1>4. /\ plug' \in PlugType /\ current' \in Presets
      /\ plug'.chunks = plug.chunks /\ plug'.bank = plug.bank /\ plug'.names = plug.names
      /\ quiet => current' = plug'.prog /\ plug'.prog = fx.p
  <2>1. quiet => current = plug.prog
    BY <1>2 DEF FxTypes
  <2>. QED BY <2>1, <1>1, <1>2, <1>3, FxSetProgram
<1>5. OnDisk'
  BY <1>1, <1>3, FxSameFile
<1>6. FxTypes'
  BY <1>1, <1>2, <1>4 DEF FxTypes
<1>7. Begun'
  BY <1>1, <1>2, <1>3, <1>4 DEF Begun, Word
<1>8. Looking'
  BY <1>1, <1>2, <1>3, <1>4 DEF Looking
<1>9. Writing'
  <2>. SUFFICES ASSUME quiet
                PROVE  Writing'
    BY <1>1 DEF Writing
  <2>1. /\ BankBegun /\ Len(fxfile.words) >= HoleEnd /\ Len(fxfile.words) = At(fx.p)
        /\ \A q \in Presets : q < fx.p => Block(fxfile.words, q)
    BY <1>1, <1>2, <1>3 DEF Writing
  <2>2. BankBegun' /\ \A q \in Presets : q < fx.p => Block(fxfile.words, q)'
    BY <2>1, <1>1 DEF BankBegun, Block, Titled, Word
  <2>. QED BY <2>1, <2>2, <1>1, <1>3 DEF Writing
<1>10. Complete' /\ SavingOnlyLooks'
  BY <1>1, <1>2 DEF Complete, SavingOnlyLooks
<1>. QED BY <1>1, <1>5, <1>6, <1>7, <1>8, <1>9, <1>10, FxSaves

LEMMA FxSelectsBack == FxIInv /\ SelectBack => FxIInv'
<1>. SUFFICES ASSUME FxIInv, SelectBack
              PROVE  FxIInv'
  OBVIOUS
<1>1. /\ step = "back" /\ SetProgram(SwapInt(fx.cur)) /\ step' = "idle" /\ whole' = quiet
      /\ UNCHANGED <<fxfile, fx, origin, quiet, edits>>
  BY DEF SelectBack, FileSaved
<1>2. FxTypes /\ Begun /\ Looking /\ Writing /\ Complete /\ Reading
  BY DEF FxIInv
<1>3. fx.saving /\ fx.bank /\ ~plug.chunks /\ fx.cur \in Presets /\ fx.cur \in Nat
  <2>1. fx.saving
    BY <1>1, <1>2 DEF Reading
  <2>2. fx.bank /\ ~plug.chunks /\ fx.cur \in Presets
    BY <2>1, <1>1, <1>2 DEF Begun, FxTypes
  <2>. QED BY <2>1, <2>2, FxNumbers
<1>4. PICK n \in Nat : n = SwapInt(fx.cur)
  BY <1>3, FxNumbers
<1>5. /\ plug' \in PlugType /\ current' \in Presets
      /\ plug'.chunks = plug.chunks /\ plug'.bank = plug.bank /\ plug'.names = plug.names
      /\ quiet => /\ current' = plug'.prog
                  /\ plug'.prog = IF n \in Presets THEN n ELSE plug.prog
  <2>1. quiet => current = plug.prog
    BY <1>2 DEF FxTypes
  <2>2. SetProgram(n)
    BY <1>1, <1>4
  <2>. QED BY <2>1, <2>2, <1>2, FxSetProgram
<1>6. quiet => /\ plug'.bank = origin.bank /\ plug'.names = origin.names
               /\ plug'.prog = IF origin.prog # 0 THEN NumPrograms - 1 ELSE origin.prog
  <2>1. quiet => /\ plug.bank = origin.bank /\ plug.names = origin.names /\ fx.cur = origin.prog
                 /\ plug.prog = NumPrograms - 1
    BY <1>1, <1>2, <1>3 DEF Looking
  <2>2. fx.cur = 0 => n = 0 /\ n \in Presets
    BY <1>4, FxNumbers
  <2>3. fx.cur # 0 => n \notin Presets
    BY <1>3, <1>4, FxNumbers
  <2>. QED BY <2>1, <2>2, <2>3, <1>5
<1>7. OnDisk'
  BY <1>1, <1>3, FxSameFile
<1>8. FxTypes'
  <2>1. whole' \in BOOLEAN
    BY <1>1, <1>2 DEF FxTypes
  <2>. QED BY <1>1, <1>2, <1>5, <2>1 DEF FxTypes
<1>9. Begun'
  BY <1>1, <1>2, <1>3, <1>5 DEF Begun, Word
<1>10. Looking' /\ Writing'
  BY <1>1 DEF Looking, Writing
<1>11. fxfile.words[3] = FxBk /\ FxBk # FBCh /\ FxBk # FPCh /\ FxBk # FxCk
  BY <1>2, <1>3, FxWords DEF Begun, Word
<1>12. Complete'
  <2>. SUFFICES ASSUME quiet
                PROVE  Complete'
    BY <1>1 DEF Complete
  <2>1. /\ BankBegun /\ Len(fxfile.words) >= HoleEnd
        /\ \A q \in Presets : Block(fxfile.words, q)
    BY <1>1, <1>2, <1>3 DEF Writing
  <2>2. BankBegun' /\ \A q \in Presets : Block(fxfile.words, q)'
    BY <2>1, <1>1 DEF BankBegun, Block, Titled, Word
  <2>3. Len(fxfile.words) >= HeaderSize
    BY <1>2, <1>3 DEF Begun
  <2>. QED BY <2>1, <2>2, <2>3, <1>1, <1>11 DEF Complete, Word
<1>13. SavingOnlyLooks'
  BY <1>1, <1>3, <1>6, <1>11 DEF SavingOnlyLooks, Word
<1>. QED BY <1>1, <1>3, <1>7, <1>8, <1>9, <1>10, <1>12, <1>13, FxSaves

-----------------------------------------------------------------------------
(* What a thread that loads need not mind.                                   *)
LEMMA FxLoads ==
  ASSUME FxIInv, UNCHANGED <<fxfile, origin, whole>>, ~fx'.saving, ~fx.saving \/ step = "idle",
         FxTypes', Reading', Reloading', Restored'
  PROVE  FxIInv'
<1>1. OnDisk' /\ Begun' /\ Looking' /\ Writing' /\ Complete' /\ SavingOnlyLooks'
  BY FxFrozen DEF FxIInv
<1>. QED BY <1>1 DEF FxIInv

LEMMA FxNotYet ==
  ASSUME FxTypes', step' # "idle"
  PROVE  Restored'
<1>1. FxTypeOK'
  BY DEF FxTypes, FxTypeOK, PlugType
<1>. QED BY <1>1 DEF Restored

(* fst_load_fxfile *)
LEMMA FxBeginsToLoad == FxIInv /\ fst_load_fxfile => FxIInv'
<1>. SUFFICES ASSUME FxIInv, fst_load_fxfile
              PROVE  FxIInv'
  OBVIOUS
<1>. DEFINE ws == fxfile.words
            bank == Word(3) \in {FxBk, FBCh}
<1>1. /\ step = "idle" /\ Len(ws) >= HeaderSize /\ ws[5] = Uid
      /\ quiet' = (current = plug.prog) /\ UNCHANGED <<plug, current, fxfile, origin, whole, edits>>
  BY DEF fst_load_fxfile, Own, Word
<1>2. PICK n \in IF Word(3) = FxCk THEN 0 .. Params + 1 ELSE {Word(7)} :
        /\ fx' = [saving |-> FALSE, bank |-> bank, cur |-> 0, p |-> 0, n |-> n,
                  pos |-> IF bank THEN HoleEnd ELSE HeaderSize]
        /\ step' = IF bank /\ Word(4) = 2 THEN "current"
                   ELSE IF Word(3) = FBCh THEN "chunk"
                   ELSE IF Word(3) = FxBk THEN "select" ELSE "name"
  BY DEF fst_load_fxfile
<1>3. FxTypes /\ OnDisk /\ Complete
  BY DEF FxIInv
<1>4. /\ Len(ws) >= 7 /\ ws \in Seq(Nat) /\ Len(ws) \in Nat
      /\ ws[3] \in {FxCk, FxBk, FPCh, FBCh} /\ (bank => Len(ws) >= 39)
  <2>1. ws \in Seq(Nat)
    BY <1>3 DEF FxTypes
  <2>2. Len(ws) >= 7 /\ ws[3] \in {FxCk, FxBk, FPCh, FBCh} /\ (bank => Len(ws) >= 39)
    BY <1>1, <1>3, FxSizes DEF OnDisk, Kinded, Word
  <2>. QED BY <2>1, <2>2, LenProperties
<1>5. n \in Nat
  <2>1. 7 \in 1 .. Len(ws)
    BY <1>4
  <2>2. ws[7] \in Nat
    BY <2>1, <1>4, ElementOfSeq
  <2>3. Params \in Nat
    BY FxWords
  <2>. QED BY <2>2, <2>3 DEF Word
<1>6. bank \in BOOLEAN
  OBVIOUS
<1>7. /\ fx'.saving = FALSE /\ fx'.bank = bank /\ fx'.p = 0 /\ fx'.n = n
      /\ fx'.pos = IF bank THEN 39 ELSE 7
  BY <1>2, FxSizes
<1>8. /\ step' \in {"current", "chunk", "select", "name"}
      /\ step' = "current" => bank
      /\ step' = "chunk" => ws[3] = FBCh
      /\ step' = "select" => ws[3] = FxBk
      /\ step' = "name" => ws[3] \in {FPCh, FxCk}
      /\ bank /\ ws[4] = 2 => step' = "current"
      /\ ~bank => step' = "name"
      /\ bank = (ws[3] \in {FxBk, FBCh})
  BY <1>2, <1>4 DEF Word
<1>. HIDE DEF bank
<1>9. FxTypes'
  <2>1. fx' \in [saving : BOOLEAN, bank : BOOLEAN, cur : Presets, p : Nat, n : Nat, pos : Nat]
    BY <1>2, <1>5, <1>6, FxSizes, FxNumbers
  <2>2. fx'.pos <= Len(fxfile'.words)
    BY <1>1, <1>4, <1>7
  <2>3. quiet' \in BOOLEAN /\ (quiet' => current' = plug'.prog)
    BY <1>1
  <2>. QED BY <1>1, <1>3, <1>8, <2>1, <2>2, <2>3 DEF FxTypes
<1>10. Reading'
  <2>1. step' = "name" => ws[fx'.pos - 4] \in {FPCh, FxCk} /\ fx'.pos >= HeaderSize
                          /\ (~bank => fx'.pos = HeaderSize)
    <3>. SUFFICES ASSUME step' = "name"
                  PROVE  ws[fx'.pos - 4] \in {FPCh, FxCk} /\ fx'.pos = 7
      BY FxSizes
    <3>1. ~bank
      BY <1>8, FxWords
    <3>2. fx'.pos = 7 /\ fx'.pos - 4 = 3
      BY <3>1, <1>7
    <3>. QED BY <3>2, <1>8
  <2>2. step' = "current" => fx'.pos = HoleEnd
    BY <1>7, <1>8, FxSizes
  <2>3. fxfile' = fxfile /\ step' # "back" /\ step' # "params"
    BY <1>1, <1>8
  <2>. QED BY <1>1, <1>7, <1>8, <2>1, <2>2, <2>3 DEF Reading, Word
<1>11. Reloading'
  <2>. SUFFICES ASSUME whole
                PROVE  Reloading'
    BY <1>1 DEF Reloading
  <2>1. bank => ws[4] = 2
    BY <1>3, <1>8 DEF Complete, BankBegun, Word
  <2>2. bank => step' = "current" /\ fx'.pos = HoleEnd
    BY <2>1, <1>7, <1>8, FxSizes
  <2>3. 0 < NumPrograms /\ \A q \in Presets : ~(q < 0)
    BY FxWords, FxNumbers
  <2>4. ws[3] = FBCh \/ ws[3] = FxBk => bank
    BY <1>8
  <2>5. ws[3] = FPCh \/ ws[3] = FxCk => step' = "name"
    BY <1>8, FxWords
  <2>. QED BY <1>1, <1>7, <2>2, <2>3, <2>4, <2>5 DEF Reloading, Word
<1>12. Restored'
  BY <1>8, <1>9, FxNotYet
<1>. QED BY <1>1, <1>7, <1>9, <1>10, <1>11, <1>12, FxLoads

(* What has to be there when a file has been loaded, kind by kind.           *)
LEMMA FxRestores ==
  ASSUME FxTypes',
         ~fx'.saving /\ quiet' /\ whole' =>
           /\ Word(3)' = FBCh => plug' = origin'
           /\ Word(3)' = FPCh => /\ plug'.bank[plug'.prog] = origin'.bank[origin'.prog]
                                 /\ plug'.names[plug'.prog] = origin'.names[origin'.prog]
           /\ Word(3)' = FxBk /\ NumPrograms = Params =>
                /\ plug'.names = origin'.names /\ plug'.prog = NumPrograms - 1
                /\ \A p \in Presets, i \in Indices :
                     plug'.bank[p][i] = AfterTrip(origin'.bank[p][i])
           /\ Word(3)' \notin {FBCh, FPCh, FxBk} =>
                plug'.names[plug'.prog] = origin'.names[origin'.prog]
  PROVE  Restored'
<1>1. FxTypeOK'
  BY DEF FxTypes, FxTypeOK, PlugType
<1>2. FBCh # FPCh /\ FBCh # FxBk /\ FPCh # FxBk
  BY FxWords
<1>3. CASE ~(step' = "idle" /\ ~fx'.saving /\ quiet' /\ whole')
  BY <1>1, <1>3 DEF Restored
<1>4. CASE ~fx'.saving /\ quiet' /\ whole'
  <2>1. CASE Word(3)' = FBCh
    BY <1>1, <1>2, <1>4, <2>1 DEF Restored
  <2>2. CASE Word(3)' = FPCh
    BY <1>1, <1>2, <1>4, <2>2 DEF Restored
  <2>3. CASE Word(3)' = FxBk
    BY <1>1, <1>2, <1>4, <2>3 DEF Restored
  <2>4. CASE Word(3)' \notin {FBCh, FPCh, FxBk}
    BY <1>1, <1>2, <1>4, <2>4 DEF Restored
  <2>. QED BY <2>1, <2>2, <2>3, <2>4
<1>. QED BY <1>3, <1>4

(* LoadCurrent *)
LEMMA FxLoadsCurrent == FxIInv /\ LoadCurrent => FxIInv'
<1>. SUFFICES ASSUME FxIInv, LoadCurrent
              PROVE  FxIInv'
  OBVIOUS
<1>. DEFINE ws == fxfile.words
<1>1. /\ step = "current" /\ SetProgram(ws[8])
      /\ step' = (IF ws[3] = FBCh THEN "chunk" ELSE "select")
      /\ UNCHANGED <<fxfile, fx, origin, quiet, whole, edits>>
  BY FxSizes DEF LoadCurrent, Word
<1>2. FxTypes /\ OnDisk /\ Begun /\ Complete /\ Reading /\ Reloading
  BY DEF FxIInv
<1>3. /\ ~fx.saving /\ fx.bank /\ fx.p = 0 /\ fx.pos = 39 /\ ws[5] = Uid /\ Len(ws) >= HeaderSize
      /\ ws[3] \in {FxBk, FBCh} /\ fx.bank = (ws[3] \in {FxBk, FBCh})
  <2>1. ~fx.saving
    BY <1>1, <1>2 DEF Begun
  <2>. QED BY <2>1, <1>1, <1>2, FxSizes DEF Reading, Word
<1>4. ws[8] \in Nat
  <2>1. ws \in Seq(Nat) /\ fx.pos <= Len(ws)
    BY <1>2 DEF FxTypes
  <2>2. 8 \in 1 .. Len(ws)
    BY <2>1, <1>3, LenProperties
  <2>. QED BY <2>1, <2>2, ElementOfSeq
<1>5. PICK n \in Nat : n = ws[8]
  BY <1>4
<1>6. /\ plug' \in PlugType /\ current' \in Presets
      /\ plug'.chunks = plug.chunks /\ plug'.bank = plug.bank /\ plug'.names = plug.names
      /\ quiet => /\ current' = plug'.prog
                  /\ plug'.prog = IF n \in Presets THEN n ELSE plug.prog
  <2>1. quiet => current = plug.prog
    BY <1>2 DEF FxTypes
  <2>2. SetProgram(n)
    BY <1>1, <1>5
  <2>. QED BY <2>1, <2>2, <1>2, FxSetProgram
<1>7. FxTypes'
  BY <1>1, <1>2, <1>6 DEF FxTypes
<1>8. Reading'
  BY <1>1, <1>3 DEF Reading, Word
<1>9. Reloading'
  <2>. SUFFICES ASSUME quiet, whole
                PROVE  Reloading'
    BY <1>1 DEF Reloading
  <2>1. ws[3] = FBCh => plug'.prog = origin.prog
    <3>. SUFFICES ASSUME ws[3] = FBCh
                  PROVE  plug'.prog = origin.prog
      OBVIOUS
    <3>1. ws[8] = origin.prog
      BY <1>2 DEF Complete, BankBegun, Word
    <3>2. origin.prog \in Presets
      BY <1>2 DEF FxTypes, PlugType
    <3>. QED BY <3>1, <3>2, <1>5, <1>6
  <2>2. fx.pos = HoleEnd /\ fx.pos = At(fx.p) /\ fx.p < NumPrograms
    BY <1>3, FxSizes, FxPlaces, FxWords
  <2>3. \A q \in Presets : ~(q < fx.p)
    BY <1>3, FxNumbers
  <2>4. ws[3] # FPCh /\ ws[3] # FxCk /\ FxBk # FBCh
    BY <1>3, FxWords
  <2>5. fxfile' = fxfile /\ fx' = fx /\ origin' = origin
    BY <1>1
  <2>. QED BY <1>1, <2>1, <2>2, <2>3, <2>4, <2>5 DEF Reloading, Word
<1>10. Restored'
  BY <1>1, <1>7, FxNotYet
<1>. QED BY <1>1, <1>3, <1>7, <1>8, <1>9, <1>10, FxLoads

(* LoadSelect *)
LEMMA FxLoadsSelect == FxIInv /\ LoadSelect => FxIInv'
<1>. SUFFICES ASSUME FxIInv, LoadSelect
              PROVE  FxIInv'
  OBVIOUS
<1>. DEFINE ws == fxfile.words
            titled == Left >= 7 /\ ws[fx.pos + 3] \in {FPCh, FxCk}
<1>1. /\ step = "select" /\ ~fx.saving /\ SetProgram(fx.p)
      /\ UNCHANGED <<fxfile, origin, quiet, whole, edits>>
      /\ titled => /\ fx' = [fx EXCEPT !.n = ws[fx.pos + 7], !.pos = @ + 7]
                   /\ step' = "name"
      /\ ~titled => ProgramLoaded(fx.pos + (IF Left < 7 THEN Left ELSE 7))
  BY FxSizes DEF LoadSelect, Word
<1>2. FxTypes /\ OnDisk /\ Complete /\ Reading /\ Reloading
  BY DEF FxIInv
<1>3. /\ ws[5] = Uid /\ Len(ws) >= HeaderSize /\ ws[3] = FxBk /\ fx.bank
      /\ fx.bank = (ws[3] \in {FxBk, FBCh})
  BY <1>1, <1>2 DEF Reading, Word
<1>4. /\ fx \in [saving : BOOLEAN, bank : BOOLEAN, cur : Presets, p : Nat, n : Nat, pos : Nat]
      /\ fx.pos \in Nat /\ fx.p \in Nat /\ fx.pos <= Len(ws) /\ ws \in Seq(Nat) /\ Len(ws) \in Nat
      /\ Left = Len(ws) - fx.pos
  BY <1>2, LenProperties DEF FxTypes, Left
<1>5. /\ plug' \in PlugType /\ current' \in Presets
      /\ plug'.chunks = plug.chunks /\ plug'.bank = plug.bank /\ plug'.names = plug.names
      /\ quiet => /\ current' = plug'.prog
                  /\ plug'.prog = IF fx.p \in Presets THEN fx.p ELSE plug.prog
  <2>1. quiet => current = plug.prog
    BY <1>2 DEF FxTypes
  <2>2. PICK n \in Nat : n = fx.p
    BY <1>4
  <2>. QED BY <2>1, <2>2, <1>1, <1>2, FxSetProgram
<1>6. ASSUME quiet, whole, NumPrograms = Params
      PROVE  /\ titled /\ ws[fx.pos + 7] = NumPrograms /\ plug'.prog = fx.p /\ fx.pos = At(fx.p)
             /\ fx.p < NumPrograms /\ \A q \in Presets : q < fx.p => Back(q)
  <2>1. /\ fx.pos = At(fx.p) /\ fx.p < NumPrograms
        /\ \A q \in Presets : q < fx.p => Back(q)
    BY <1>1, <1>2, <1>3, <1>6 DEF Reloading, Word
  <2>2. fx.p \in Presets
    BY <2>1, <1>4, FxNumbers
  <2>3. Titled(ws, fx.p)
    BY <2>2, <1>2, <1>3, <1>6 DEF Complete, Word, Block
  <2>4. fx.pos + 14 <= Len(ws) /\ ws[fx.pos + 3] = FxCk /\ ws[fx.pos + 7] = NumPrograms
    BY <2>1, <2>3, <1>4, FxSizes DEF Titled
  <2>5. Left >= 7
    BY <2>4, <1>4
  <2>. QED BY <2>1, <2>2, <2>4, <2>5, <1>5, <1>6
<1>7. CASE titled
  <2>1. Left >= 7 /\ ws[fx.pos + 3] \in {FPCh, FxCk}
    BY <1>7
  <2>2. ws[fx.pos + 7] \in Nat /\ fx.pos + 7 <= Len(ws) /\ fx.pos + 7 \in Nat
    <3>0. fx.pos \in Nat /\ Len(ws) \in Nat /\ Left = Len(ws) - fx.pos /\ Left >= 7
      BY <2>1, <1>4
    <3>1. fx.pos + 7 \in 1 .. Len(ws) /\ fx.pos + 7 \in Nat /\ fx.pos + 7 <= Len(ws)
      BY ONLY <3>0
    <3>2. ws \in Seq(Nat)
      BY <1>4
    <3>3. ws[fx.pos + 7] \in Nat
      BY ONLY <3>1, <3>2, ElementOfSeq
    <3>. QED BY ONLY <3>1, <3>3
  <2>3. PICK m \in Nat : m = ws[fx.pos + 7]
    BY <2>2
  <2>4. PICK x \in Nat : x = fx.pos + 7
    BY <2>2
  <2>5. fx' = [fx EXCEPT !.n = m, !.pos = x] /\ step' = "name"
    BY <2>3, <2>4, <1>1, <1>7
  <2>6. /\ fx' \in [saving : BOOLEAN, bank : BOOLEAN, cur : Presets, p : Nat, n : Nat, pos : Nat]
        /\ fx'.saving = fx.saving /\ fx'.bank = fx.bank /\ fx'.p = fx.p /\ fx'.n = m /\ fx'.pos = x
    BY <2>5, <1>4
  <2>. HIDE DEF titled
  <2>7. FxTypes'
    <3>1. fx'.pos <= Len(fxfile'.words)
      BY <2>2, <2>4, <2>6, <1>1
    <3>. QED BY <3>1, <1>1, <1>2, <1>5, <2>5, <2>6 DEF FxTypes
  <2>8. Reading'
    <3>1. fx'.pos - 4 = fx.pos + 3 /\ fx'.pos >= HeaderSize
      BY <2>4, <2>6, <1>4, FxSizes
    <3>2. ws[fx'.pos - 4] \in {FPCh, FxCk}
      BY <3>1, <2>1
    <3>3. fxfile' = fxfile
      BY <1>1
    <3>. QED BY <3>1, <3>2, <3>3, <2>5, <2>6, <1>1, <1>3 DEF Reading, Word
  <2>9. Reloading'
    <3>. SUFFICES ASSUME quiet, whole, NumPrograms = Params
                  PROVE  Reloading'
      <4>1. ws[3] # FBCh /\ ws[3] # FPCh /\ ws[3] # FxCk
        BY <1>3, FxWords
      <4>. QED BY <4>1, <1>1 DEF Reloading, Word
    <3>1. /\ m = NumPrograms /\ plug'.prog = fx.p /\ fx.pos = At(fx.p)
          /\ fx.p < NumPrograms /\ \A q \in Presets : q < fx.p => Back(q)
      BY <1>6, <2>3
    <3>2. \A q \in Presets : q < fx.p => Back(q)'
      BY <3>1, <1>1, <1>5 DEF Back
    <3>3. fx'.pos = At(fx.p) + HeaderSize
      BY <3>1, <2>4, <2>6, FxSizes
    <3>4. ws[3] # FBCh /\ ws[3] # FPCh /\ ws[3] # FxCk
      BY <1>3, FxWords
    <3>5. fxfile' = fxfile
      BY <1>1
    <3>. QED BY <3>1, <3>2, <3>3, <3>4, <3>5, <2>5, <2>6 DEF Reloading, Word
  <2>10. Restored'
    BY <2>5, <2>7, FxNotYet
  <2>. QED BY <1>1, <2>6, <2>7, <2>8, <2>9, <2>10, FxLoads
<1>8. CASE ~titled
  <2>1. ~(quiet /\ whole /\ NumPrograms = Params)
    BY <1>6, <1>8
  <2>2. PICK x \in Nat : x = fx.pos + (IF Left < 7 THEN Left ELSE 7) /\ x <= Len(ws)
    BY <1>4
  <2>3. /\ fx' = [fx EXCEPT !.p = fx.p + 1, !.pos = x]
        /\ step' \in {"select", "idle"}
    BY <2>2, <1>1, <1>8 DEF ProgramLoaded
  <2>4. PICK m \in Nat : m = fx.p + 1
    BY <1>4
  <2>5. fx' = [fx EXCEPT !.p = m, !.pos = x]
    BY <2>3, <2>4
  <2>6. /\ fx' \in [saving : BOOLEAN, bank : BOOLEAN, cur : Presets, p : Nat, n : Nat, pos : Nat]
        /\ fx'.saving = fx.saving /\ fx'.bank = fx.bank /\ fx'.pos = x
    BY <2>5, <1>4
  <2>. HIDE DEF titled
  <2>7. FxTypes'
    BY <1>1, <1>2, <1>5, <2>2, <2>3, <2>6 DEF FxTypes
  <2>8. Reading'
    BY <2>3, <2>6, <1>1, <1>3 DEF Reading, Word
  <2>9. ws[3] # FBCh /\ ws[3] # FPCh /\ ws[3] # FxCk
    BY <1>3, FxWords
  <2>10. Reloading'
    BY <2>1, <2>9, <1>1 DEF Reloading, Word
  <2>11. Restored'
    BY <2>1, <2>7, <2>9, <1>1, <1>3, FxRestores DEF Word
  <2>. QED BY <1>1, <2>6, <2>7, <2>8, <2>10, <2>11, FxLoads
<1>. QED BY <1>7, <1>8

-----------------------------------------------------------------------------
(* On to the next program, or none is left.                                  *)
LEMMA FxProgramLoaded ==
  ASSUME FxTypes, NEW x \in Nat, ProgramLoaded(x)
  PROVE  /\ fx' \in [saving : BOOLEAN, bank : BOOLEAN, cur : Presets, p : Nat, n : Nat, pos : Nat]
         /\ fx'.saving = fx.saving /\ fx'.bank = fx.bank /\ fx'.p = fx.p + 1 /\ fx'.pos = x
         /\ step' \in {"select", "idle"}
         /\ step' = "select" => Word(3) = FxBk
         /\ Word(3) = FxBk /\ step' = "idle" => ~(fx.p + 1 < Word(7))
         /\ Word(3) = FxBk /\ step' = "select" => fx.p + 1 < Word(7)
<1>1. fx \in [saving : BOOLEAN, bank : BOOLEAN, cur : Presets, p : Nat, n : Nat, pos : Nat]
  BY DEF FxTypes
<1>2. PICK m \in Nat : m = fx.p + 1
  BY <1>1
<1>3. fx' = [fx EXCEPT !.p = m, !.pos = x]
  BY <1>2 DEF ProgramLoaded
<1>4. /\ fx' \in [saving : BOOLEAN, bank : BOOLEAN, cur : Presets, p : Nat, n : Nat, pos : Nat]
      /\ fx'.saving = fx.saving /\ fx'.bank = fx.bank /\ fx'.p = m /\ fx'.pos = x
  BY <1>1, <1>3
<1>5. step' = IF Word(3) = FxBk /\ fx.p + 1 < Word(7) THEN "select" ELSE "idle"
  BY DEF ProgramLoaded
<1>. QED BY <1>2, <1>4, <1>5

(* LoadName *)
LEMMA FxLoadsName == FxIInv /\ LoadName => FxIInv'
<1>. SUFFICES ASSUME FxIInv, LoadName
              PROVE  FxIInv'
  OBVIOUS
<1>. DEFINE ws == fxfile.words
            pos == fx.pos
<1>1. /\ step = "name" /\ ~fx.saving
      /\ UNCHANGED <<current, fxfile, origin, quiet, whole, edits>>
      /\ Left < 7 => ProgramLoaded(Len(ws)) /\ plug' = plug
      /\ ~(Left < 7) => /\ plug' = [plug EXCEPT !.names[plug.prog] = ws[pos + 1]]
                        /\ fx' = [fx EXCEPT !.pos = @ + 7]
                        /\ step' = IF IsChunk THEN "chunk" ELSE "params"
  BY FxSizes DEF LoadName, Word
<1>2. FxTypes /\ OnDisk /\ Complete /\ Reading /\ Reloading
  BY DEF FxIInv
<1>3. /\ ws[5] = Uid /\ Len(ws) >= HeaderSize /\ fx.bank = (ws[3] \in {FxBk, FBCh})
      /\ pos >= 7 /\ ws[pos - 4] \in {FPCh, FxCk} /\ (~fx.bank => pos = 7)
  BY <1>1, <1>2, FxSizes DEF Reading, Word
<1>4. /\ fx \in [saving : BOOLEAN, bank : BOOLEAN, cur : Presets, p : Nat, n : Nat, pos : Nat]
      /\ pos \in Nat /\ fx.p \in Nat /\ pos <= Len(ws) /\ ws \in Seq(Nat) /\ Len(ws) \in Nat
      /\ Left = Len(ws) - pos /\ plug \in PlugType
  BY <1>2, LenProperties DEF FxTypes, Left
<1>n. pos \in Nat /\ 7 <= pos /\ pos <= Len(ws) /\ Len(ws) \in Nat /\ Left = Len(ws) - pos
  BY <1>3, <1>4
<1>5. PICK k \in 1 .. Len(ws) : k = pos - 4
  BY ONLY <1>n
<1>6. /\ ws[k] \in {FPCh, FxCk}
      /\ k + 5 <= Len(ws) => ws[k + 5] \in Names
      /\ ws[k] = FxCk => k + 11 + Params <= Len(ws)
      /\ ws[k] = FPCh => k + 5 <= Len(ws)
  <2>1. ws[k] \in {FPCh, FxCk}
    BY <1>3, <1>5
  <2>2. k + 5 <= Len(ws) => ws[k + 5] \in Names
    BY <2>1, <1>2 DEF OnDisk, Headed
  <2>. QED BY <2>1, <2>2, <1>1, <1>2 DEF OnDisk, Ended
<1>7. ws[k] = FxCk => ~(Left < 7)
  <2>. SUFFICES ASSUME ws[k] = FxCk
                PROVE  ~(Left < 7)
    OBVIOUS
  <2>1. PICK y \in Nat, l \in Nat : y = pos /\ l = Len(ws) /\ Left = l - y
    BY ONLY <1>n
  <2>2. Params \in Nat /\ k \in Nat /\ k = y - 4 /\ k + 11 + Params <= l
    <3>1. k + 11 + Params <= Len(ws)
      BY <1>6
    <3>2. Params \in Nat
      BY FxWords
    <3>. QED BY ONLY <3>1, <3>2, <2>1, <1>5
  <2>3. ~(l - y < 7)
    BY ONLY <2>2
  <2>. QED BY ONLY <2>1, <2>3
<1>8. ASSUME quiet, whole
      PROVE  /\ ws[3] # FBCh
             /\ ws[3] = FPCh => Len(ws) = 15 /\ pos = 7 /\ k = 3
             /\ ws[3] = FxCk => ws[8] = origin.names[origin.prog] /\ pos = 7 /\ k = 3
             /\ ws[3] = FxBk /\ NumPrograms = Params =>
                  /\ fx.p < NumPrograms /\ fx.p \in Presets /\ plug.prog = fx.p
                  /\ fx.n = NumPrograms /\ pos = At(fx.p) + 7
                  /\ pos + 7 <= Len(ws)
                  /\ ws[k] = FxCk /\ ws[pos + 1] = origin.names[fx.p]
                  /\ \A q \in Presets : q < fx.p => Back(q)
  <2>1. ws[3] # FBCh
    BY <1>1, <1>2, <1>8 DEF Reloading, Word
  <2>2. ws[3] = FPCh \/ ws[3] = FxCk => pos = 7 /\ k = 3
    <3>1. ws[3] = FPCh \/ ws[3] = FxCk => ws[3] \notin {FxBk, FBCh}
      BY FxWords
    <3>2. ws[3] = FPCh \/ ws[3] = FxCk => pos = 7
      BY <3>1, <1>3
    <3>. QED BY <3>2, <1>5
  <2>3. ws[3] = FPCh => Len(ws) = 15
    BY <1>2, <1>8, FxSizes DEF Complete, Word
  <2>4. ws[3] = FxCk => ws[8] = origin.names[origin.prog]
    BY <1>2, <1>8 DEF Complete, Word
  <2>5. ASSUME ws[3] = FxBk, NumPrograms = Params
        PROVE  /\ fx.p < NumPrograms /\ fx.p \in Presets /\ plug.prog = fx.p
               /\ fx.n = NumPrograms /\ pos = At(fx.p) + 7
               /\ pos + 7 <= Len(ws)
               /\ ws[k] = FxCk /\ ws[pos + 1] = origin.names[fx.p]
               /\ \A q \in Presets : q < fx.p => Back(q)
    <3>1. /\ fx.p < NumPrograms /\ plug.prog = fx.p /\ fx.n = NumPrograms
          /\ pos = At(fx.p) + 7 /\ \A q \in Presets : q < fx.p => Back(q)
      BY <1>1, <1>2, <1>8, <2>5, FxSizes DEF Reloading, Word
    <3>2. fx.p \in Presets
      BY <3>1, <1>4, FxNumbers
    <3>3. Titled(ws, fx.p)
      BY <3>2, <1>2, <1>8, <2>5 DEF Complete, Word, Block
    <3>4. PICK n \in Nat : n = At(fx.p)
      BY <1>4, FxPlaces
    <3>5. n + 14 <= Len(ws) /\ ws[n + 3] = FxCk /\ ws[n + 8] = origin.names[fx.p]
      BY <3>3, <3>4, <1>4, FxSizes DEF Titled
    <3>6. k = n + 3 /\ pos + 1 = n + 8 /\ pos + 7 = n + 14
      BY <3>1, <3>4, <1>5
    <3>. QED BY <3>1, <3>2, <3>5, <3>6
  <2>. QED BY <2>1, <2>2, <2>3, <2>4, <2>5
<1>9. CASE Left < 7
  <2>1. ProgramLoaded(Len(ws)) /\ plug' = plug
    BY <1>1, <1>9
  <2>2. ~(quiet /\ whole /\ (ws[3] # FxBk \/ NumPrograms = Params))
    <3>. SUFFICES ASSUME quiet, whole, ws[3] # FxBk \/ NumPrograms = Params
                  PROVE  FALSE
      OBVIOUS
    <3>1. ws[3] \in {FxCk, FxBk, FPCh, FBCh}
      BY <1>2, <1>3 DEF OnDisk, Kinded, Word
    <3>2. CASE ws[3] = FPCh
      <4>1. Len(ws) = 15 /\ pos = 7
        BY <3>2, <1>8
      <4>. QED BY <4>1, <1>4, <1>9
    <3>3. CASE ws[3] = FxCk
      BY <3>3, <1>7, <1>8, <1>9
    <3>4. CASE ws[3] = FxBk
      BY <3>4, <1>7, <1>8, <1>9
    <3>. QED BY <3>1, <3>2, <3>3, <3>4, <1>8
  <2>3. PICK x \in Nat : x = Len(ws)
    BY <1>4
  <2>4. ProgramLoaded(x)
    BY <2>1, <2>3
  <2>5. /\ fx' \in [saving : BOOLEAN, bank : BOOLEAN, cur : Presets, p : Nat, n : Nat, pos : Nat]
        /\ fx'.saving = fx.saving /\ fx'.bank = fx.bank /\ fx'.pos = x
        /\ step' \in {"select", "idle"} /\ (step' = "select" => ws[3] = FxBk)
    BY <2>4, <1>2, FxProgramLoaded DEF Word
  <2>6. FxTypes'
    <3>1. fx'.pos <= Len(fxfile'.words)
      BY <2>3, <2>5, <1>1
    <3>. QED BY <3>1, <1>1, <1>2, <2>1, <2>5 DEF FxTypes
  <2>7. Reading'
    BY <2>5, <1>1, <1>3 DEF Reading, Word
  <2>8. Reloading'
    <3>1. step' = "select" => ws[3] = FxBk /\ ws[3] # FBCh /\ ws[3] # FPCh /\ ws[3] # FxCk
      BY <2>5, FxWords
    <3>. QED BY <3>1, <2>2, <2>5, <1>1 DEF Reloading, Word
  <2>9. Restored'
    <3>1. ~(quiet /\ whole) \/ (ws[3] = FxBk /\ NumPrograms # Params)
      BY <2>2
    <3>2. FxBk # FBCh /\ FxBk # FPCh
      BY FxWords
    <3>. QED BY <3>1, <3>2, <2>6, <1>1, FxRestores DEF Word
  <2>. QED BY <1>1, <2>5, <2>6, <2>7, <2>8, <2>9, FxLoads
<1>10. CASE ~(Left < 7)
  <2>1. PICK name \in Names : name = ws[pos + 1]
    <3>0. pos \in Nat /\ Len(ws) \in Nat /\ Left = Len(ws) - pos /\ ~(Left < 7)
      BY <1>4, <1>10
    <3>1. k + 5 <= Len(ws) /\ k + 5 = pos + 1
      BY ONLY <3>0, <1>5
    <3>. QED BY <3>1, <1>6
  <2>2. plug' = [plug EXCEPT !.names[plug.prog] = name]
    BY <2>1, <1>1, <1>10
  <2>3. /\ plug' \in PlugType /\ plug'.chunks = plug.chunks /\ plug'.prog = plug.prog
        /\ plug'.bank = plug.bank /\ plug'.names = [plug.names EXCEPT ![plug.prog] = name]
        /\ plug.prog \in Presets /\ plug.names \in [Presets -> Names]
    BY <2>2, <1>4 DEF PlugType
  <2>4. PICK x \in Nat : x = pos + 7 /\ x <= Len(ws)
    BY <1>4, <1>10
  <2>5. fx' = [fx EXCEPT !.pos = x]
    BY <2>4, <1>1, <1>10
  <2>6. /\ fx' \in [saving : BOOLEAN, bank : BOOLEAN, cur : Presets, p : Nat, n : Nat, pos : Nat]
        /\ fx'.saving = fx.saving /\ fx'.bank = fx.bank /\ fx'.pos = x
        /\ fx'.p = fx.p /\ fx'.n = fx.n
    BY <2>5, <1>4
  <2>7. step' = IF ws[k] = FPCh THEN "chunk" ELSE "params"
    <3>1. IsChunk <=> ws[k] = FPCh
      <4>1. CASE fx.bank
        <5>1. pos - HeaderSize + 3 = k
          BY <1>4, <1>5, FxSizes
        <5>. QED BY <4>1, <5>1 DEF IsChunk, Word
      <4>2. CASE ~fx.bank
        <5>1. k = 3
          BY <4>2, <1>3, <1>5
        <5>. QED BY <4>2, <5>1 DEF IsChunk, Word
      <4>. QED BY <4>1, <4>2
    <3>. QED BY <3>1, <1>1, <1>10
  <2>8. FxTypes'
    <3>1. fx'.pos <= Len(fxfile'.words)
      BY <2>4, <2>6, <1>1
    <3>. QED BY <3>1, <1>1, <1>2, <2>3, <2>6, <2>7 DEF FxTypes
  <2>9. Reading'
    <3>1. step' = "params" => ws[fx'.pos - 11] = FxCk /\ fx'.pos >= HeaderSize + NameSize
      <4>0. pos \in Nat /\ pos >= 7 /\ fx'.pos = pos + 7
        BY <2>4, <2>6, <1>3, <1>4
      <4>1. fx'.pos - 11 = k /\ fx'.pos >= 14
        BY ONLY <4>0, <1>5
      <4>. QED BY <4>1, <2>7, <1>6, FxSizes
    <3>2. step' = "chunk" => fxfile.chunk \in PresetChunks
      BY <2>7, <1>1, <1>2 DEF OnDisk, Chunked, Word
    <3>3. fxfile' = fxfile /\ step' \in {"chunk", "params"}
      BY <1>1, <2>7
    <3>. QED BY <3>1, <3>2, <3>3, <2>6, <1>1, <1>3 DEF Reading, Word
  <2>10. Reloading'
    <3>. SUFFICES ASSUME quiet, whole
                  PROVE  Reloading'
      BY <1>1 DEF Reloading
    <3>1. ws[3] # FBCh
      BY <1>8
    <3>2. ws[3] = FPCh => step' = "chunk" /\ fx'.pos = HeaderSize + NameSize
      BY <1>8, <2>4, <2>6, <2>7, FxSizes
    <3>3. ws[3] = FxCk => step' = "params" /\ plug'.names[plug'.prog] = origin.names[origin.prog]
      <4>. SUFFICES ASSUME ws[3] = FxCk
                    PROVE  step' = "params" /\ name = origin.names[origin.prog]
        BY <2>3
      <4>1. k = 3 /\ pos + 1 = 8
        BY <1>8
      <4>2. ws[8] = origin.names[origin.prog]
        BY <1>8
      <4>. QED BY <4>1, <4>2, <2>1, <2>7, FxWords
    <3>4. ASSUME ws[3] = FxBk, NumPrograms = Params
          PROVE  /\ step' = "params" /\ fx.p < NumPrograms
                 /\ \A q \in Presets : q < fx.p => Back(q)'
                 /\ plug'.prog = fx.p /\ fx'.n = NumPrograms
                 /\ fx'.pos = At(fx.p) + HeaderSize + NameSize
                 /\ plug'.names[fx.p] = origin.names[fx.p]
      <4>1. /\ fx.p < NumPrograms /\ fx.p \in Presets /\ plug.prog = fx.p
            /\ fx.n = NumPrograms /\ pos = At(fx.p) + 7
            /\ ws[k] = FxCk /\ name = origin.names[fx.p]
            /\ \A q \in Presets : q < fx.p => Back(q)
        BY <3>4, <1>8, <2>1
      <4>2. ASSUME NEW q \in Presets, q < fx.p
            PROVE  Back(q)'
        <5>1. Back(q) /\ q # plug.prog
          BY <4>1, <4>2, FxNumbers
        <5>2. plug'.names[q] = plug.names[q]
          BY <5>1, <2>3
        <5>. QED BY <5>1, <5>2, <2>3, <1>1 DEF Back
      <4>3. PICK n \in Nat : n = At(fx.p)
        BY <1>4, FxPlaces
      <4>4. fx'.pos = At(fx.p) + HeaderSize + NameSize
        <5>1. fx'.pos = n + 7 + 7
          BY <4>1, <4>3, <2>4, <2>6
        <5>. QED BY <5>1, <4>3, FxSizes
      <4>. QED BY <4>1, <4>2, <4>4, <2>3, <2>6, <2>7, FxWords
    <3>5. ws[3] = FxBk /\ NumPrograms = Params => \A q \in Presets : q < fx'.p => Back(q)'
      BY <3>4, <2>6
    <3>. QED BY <3>1, <3>2, <3>3, <3>4, <3>5, <2>6, <1>1 DEF Reloading, Word
  <2>11. Restored'
    BY <2>7, <2>8, FxNotYet
  <2>. QED BY <1>1, <2>6, <2>8, <2>9, <2>10, <2>11, FxLoads
<1>. QED BY <1>9, <1>10

(* LoadParams *)
LEMMA FxLoadsParams == FxIInv /\ LoadParams => FxIInv'
<1>. SUFFICES ASSUME FxIInv, LoadParams
              PROVE  FxIInv'
  OBVIOUS
<1>. DEFINE ws == fxfile.words
            pos == fx.pos
<1>1. /\ step = "params" /\ ~fx.saving
      /\ UNCHANGED <<current, fxfile, origin, quiet, whole, edits>>
      /\ plug' = [plug EXCEPT !.bank[plug.prog] = [i \in Indices |->
                    IF i > fx.n THEN @[i]
                    ELSE IF i > Left THEN Junk ELSE SwapFloat(ws[pos + i])]]
      /\ ProgramLoaded(pos + (IF Left < fx.n THEN Left ELSE fx.n))
  BY DEF LoadParams, Word
<1>2. FxTypes /\ OnDisk /\ Complete /\ Reading /\ Reloading
  BY DEF FxIInv
<1>3. /\ ws[5] = Uid /\ Len(ws) >= HeaderSize /\ fx.bank = (ws[3] \in {FxBk, FBCh})
      /\ pos >= 14 /\ ws[pos - 11] = FxCk
  BY <1>1, <1>2, FxSizes DEF Reading, Word
<1>4. /\ fx \in [saving : BOOLEAN, bank : BOOLEAN, cur : Presets, p : Nat, n : Nat, pos : Nat]
      /\ pos \in Nat /\ fx.p \in Nat /\ fx.n \in Nat /\ pos <= Len(ws) /\ ws \in Seq(Nat)
      /\ Len(ws) \in Nat /\ Left = Len(ws) - pos /\ plug \in PlugType /\ origin \in PlugType
  BY <1>2, LenProperties DEF FxTypes, Left
<1>n. pos \in Nat /\ 14 <= pos /\ pos <= Len(ws) /\ Len(ws) \in Nat /\ Left = Len(ws) - pos
  BY <1>3, <1>4
<1>5. PICK k \in 1 .. Len(ws) : k = pos - 11
  BY ONLY <1>n
<1>6. Params \in Nat /\ k + 11 + Params <= Len(ws)
  <2>1. ws[k] = FxCk
    BY <1>3, <1>5
  <2>. QED BY <2>1, <1>1, <1>2, FxWords DEF OnDisk, Ended
<1>y. PICK y \in Nat, l \in Nat : y = pos /\ l = Len(ws) /\ Left = l - y
  BY ONLY <1>n
<1>k. Params \in Nat /\ k \in Nat /\ k = y - 11 /\ k + 11 + Params <= l
  BY <1>y, <1>5, <1>6
<1>7. Params <= Left
  <2>1. Params <= l - y
    BY ONLY <1>k
  <2>. QED BY ONLY <2>1, <1>y
<1>8. ASSUME NEW i \in Indices
      PROVE  ~(i > Left) /\ ws[pos + i] \in {Zero, Big}
  <2>1. i \in Nat /\ i <= Params
    BY <1>6 DEF Indices
  <2>2. k + 11 + i <= Len(ws) /\ k + 11 + i = pos + i
    <3>1. k + 11 + i <= l /\ k + 11 + i = y + i
      BY ONLY <2>1, <1>k
    <3>. QED BY ONLY <3>1, <1>y
  <2>3. ws[k + 11 + i] \in {Zero, Big}
    BY <2>2, <1>2, <1>3, <1>5 DEF OnDisk, Headed
  <2>. QED BY <2>1, <2>2, <2>3, <1>4, <1>7
<1>9. plug.prog \in Presets /\ plug.bank \in [Presets -> [Indices -> Floats]]
      /\ plug.bank[plug.prog] \in [Indices -> Floats]
  BY <1>4 DEF PlugType
<1>10. PICK f \in [Indices -> Floats] :
         /\ f = [i \in Indices |->
                   IF i > fx.n THEN plug.bank[plug.prog][i]
                   ELSE IF i > Left THEN Junk ELSE SwapFloat(ws[pos + i])]
         /\ \A i \in Indices : i <= fx.n => f[i] = SwapFloat(ws[pos + i])
  <2>. DEFINE g == [i \in Indices |->
                   IF i > fx.n THEN plug.bank[plug.prog][i]
                   ELSE IF i > Left THEN Junk ELSE SwapFloat(ws[pos + i])]
  <2>1. ASSUME NEW i \in Indices
        PROVE  /\ (IF i > fx.n THEN plug.bank[plug.prog][i]
                   ELSE IF i > Left THEN Junk ELSE SwapFloat(ws[pos + i])) \in Floats
               /\ i <= fx.n => g[i] = SwapFloat(ws[pos + i])
    <3>1. plug.bank[plug.prog][i] \in Floats
      BY <1>9
    <3>2. SwapFloat(ws[pos + i]) \in Floats /\ ~(i > Left)
      BY <1>8, FxFloats
    <3>3. i \in Nat
      BY DEF Indices
    <3>. QED BY <3>1, <3>2, <3>3, <1>4
  <2>2. g \in [Indices -> Floats]
    BY <2>1
  <2>. QED BY <2>1, <2>2
<1>11. plug' = [plug EXCEPT !.bank = [plug.bank EXCEPT ![plug.prog] = f]]
  BY <1>1, <1>10, Zenon
<1>12. /\ plug' \in PlugType /\ plug'.chunks = plug.chunks /\ plug'.prog = plug.prog
       /\ plug'.names = plug.names /\ plug'.bank = [plug.bank EXCEPT ![plug.prog] = f]
  <2>1. PICK b \in [Presets -> [Indices -> Floats]] : b = [plug.bank EXCEPT ![plug.prog] = f]
    BY <1>9
  <2>2. plug' = [plug EXCEPT !.bank = b]
    BY <2>1, <1>11
  <2>. QED BY <2>1, <2>2, <1>4 DEF PlugType
<1>13. PICK x \in Nat : /\ x = pos + (IF Left < fx.n THEN Left ELSE fx.n) /\ x <= Len(ws)
                        /\ fx.n = Params => x = pos + Params
  <2>1. PICK z \in Nat : z = Left
    BY <1>4
  <2>2. PICK n \in Nat : n = fx.n
    BY <1>4
  <2>0. pos \in Nat /\ Len(ws) \in Nat /\ z = Len(ws) - pos /\ Params \in Nat /\ Params <= z
    BY <2>1, <1>4, <1>6, <1>7
  <2>3. pos + (IF z < n THEN z ELSE n) \in Nat /\ pos + (IF z < n THEN z ELSE n) <= Len(ws)
    BY ONLY <2>0, <2>2
  <2>4. n = Params => pos + (IF z < n THEN z ELSE n) = pos + Params
    BY ONLY <2>0, <2>2
  <2>. QED BY ONLY <2>1, <2>2, <2>3, <2>4
<1>14. /\ fx' \in [saving : BOOLEAN, bank : BOOLEAN, cur : Presets, p : Nat, n : Nat, pos : Nat]
       /\ fx'.saving = fx.saving /\ fx'.bank = fx.bank /\ fx'.p = fx.p + 1 /\ fx'.pos = x
       /\ step' \in {"select", "idle"} /\ (step' = "select" => ws[3] = FxBk)
       /\ ws[3] = FxBk /\ step' = "idle" => ~(fx.p + 1 < ws[7])
       /\ ws[3] = FxBk /\ step' = "select" => fx.p + 1 < ws[7]
  <2>1. ProgramLoaded(x)
    BY <1>1, <1>13
  <2>. QED BY <2>1, <1>2, FxProgramLoaded DEF Word
<1>15. FxTypes'
  <2>1. fx'.pos <= Len(fxfile'.words)
    BY <1>1, <1>13, <1>14
  <2>. QED BY <2>1, <1>1, <1>2, <1>12, <1>14 DEF FxTypes
<1>16. Reading'
  BY <1>1, <1>3, <1>14 DEF Reading, Word
<1>17. ASSUME quiet, whole
       PROVE  /\ ws[3] # FBCh /\ ws[3] # FPCh
              /\ ws[3] = FxCk => plug'.names[plug'.prog] = origin.names[origin.prog]
              /\ ws[3] = FxBk /\ NumPrograms = Params =>
                   /\ fx.p < NumPrograms /\ plug'.prog = fx.p /\ ws[7] = NumPrograms
                   /\ x = At(fx.p + 1)
                   /\ \A q \in Presets : q < fx.p + 1 => Back(q)'
  <2>1. /\ ws[3] # FBCh /\ ws[3] # FPCh
        /\ ws[3] = FxCk => plug.names[plug.prog] = origin.names[origin.prog]
    BY <1>1, <1>2, <1>17 DEF Reloading, Word
  <2>2. ASSUME ws[3] = FxBk, NumPrograms = Params
        PROVE  /\ fx.p < NumPrograms /\ plug'.prog = fx.p /\ ws[7] = NumPrograms
               /\ x = At(fx.p + 1)
               /\ \A q \in Presets : q < fx.p + 1 => Back(q)'
    <3>1. /\ fx.p < NumPrograms /\ plug.prog = fx.p /\ fx.n = NumPrograms
          /\ pos = At(fx.p) + 14 /\ plug.names[fx.p] = origin.names[fx.p]
          /\ \A q \in Presets : q < fx.p => Back(q)
      <4>1. /\ fx.p < NumPrograms /\ plug.prog = fx.p /\ fx.n = NumPrograms
            /\ pos = At(fx.p) + HeaderSize + NameSize /\ plug.names[fx.p] = origin.names[fx.p]
            /\ \A q \in Presets : q < fx.p => Back(q)
        BY <1>1, <1>2, <1>17, <2>2 DEF Reloading, Word
      <4>2. PICK n \in Nat : n = At(fx.p)
        BY <1>4, FxPlaces
      <4>3. pos = n + 14
        BY <4>1, <4>2, FxSizes
      <4>. QED BY <4>1, <4>2, <4>3
    <3>2. fx.p \in Presets
      BY <3>1, <1>4, FxNumbers
    <3>3. ws[7] = NumPrograms /\ Block(ws, fx.p)
      BY <3>2, <1>2, <1>17, <2>2 DEF Complete, BankBegun, Word
    <3>4. x = At(fx.p + 1)
      <4>1. PICK n \in Nat : n = At(fx.p) /\ At(fx.p + 1) = n + 14 + Params
        BY <1>4, FxPlaces
      <4>. QED BY <4>1, <3>1, <2>2, <1>6, <1>13
    <3>5. ASSUME NEW i \in Indices
          PROVE  f[i] = AfterTrip(origin.bank[fx.p][i])
      <4>1. PICK n \in Nat : n = At(fx.p)
        BY <1>4, FxPlaces
      <4>2. i \in Nat /\ i <= fx.n
        BY <3>1, <2>2, <1>6 DEF Indices
      <4>3. pos + i = n + 14 + i /\ n + HeaderSize + NameSize + i = n + 14 + i
        BY <4>1, <4>2, <3>1, FxSizes
      <4>4. ws[n + HeaderSize + NameSize + i] = SwapFloat(origin.bank[fx.p][i])
        BY <4>1, <3>3 DEF Block
      <4>5. f[i] = SwapFloat(SwapFloat(origin.bank[fx.p][i]))
        BY <4>2, <4>3, <4>4, <1>10
      <4>6. origin.bank[fx.p][i] \in Floats
        BY <3>2, <1>4 DEF PlugType
      <4>. QED BY <4>5, <4>6, FxFloats
    <3>6. ASSUME NEW q \in Presets, q < fx.p + 1
          PROVE  Back(q)'
      <4>1. CASE q = fx.p
        <5>1. plug'.bank[q] = f /\ plug'.names[q] = origin.names[q]
          BY <4>1, <3>1, <3>2, <1>9, <1>12
        <5>2. \A i \in Indices : plug'.bank[q][i] = AfterTrip(origin.bank[q][i])
          BY <4>1, <5>1, <3>5
        <5>. QED BY <5>1, <5>2, <1>1 DEF Back
      <4>2. CASE q # fx.p
        <5>1. q \in Nat
          BY FxNumbers
        <5>2. q < fx.p
          BY <5>1, <4>2, <3>6, <1>4
        <5>3. Back(q) /\ q # plug.prog
          BY <5>2, <4>2, <3>1
        <5>4. plug'.bank[q] = plug.bank[q] /\ plug'.names[q] = plug.names[q]
          BY <5>3, <1>9, <1>12
        <5>. QED BY <5>3, <5>4, <1>1 DEF Back
      <4>. QED BY <4>1, <4>2
    <3>. QED BY <3>1, <3>3, <3>4, <3>6, <1>12
  <2>. QED BY <2>1, <2>2, <1>12
<1>18. Reloading'
  <2>. SUFFICES ASSUME quiet, whole, step' = "select"
                PROVE  Reloading'
    BY <1>1, <1>14 DEF Reloading
  <2>1. ws[3] = FxBk /\ FxBk \notin {FBCh, FPCh, FxCk}
    BY <1>14, FxWords
  <2>2. NumPrograms = Params =>
          /\ fx'.p < NumPrograms /\ fx'.pos = At(fx'.p)
          /\ \A q \in Presets : q < fx'.p => Back(q)'
    BY <2>1, <1>14, <1>17
  <2>. QED BY <2>1, <2>2, <1>1 DEF Reloading, Word
<1>19. Restored'
  <2>1. CASE step' = "select"
    BY <2>1, <1>15, FxNotYet
  <2>2. CASE step' = "idle"
    <3>1. ASSUME quiet, whole, ws[3] = FxBk, NumPrograms = Params
          PROVE  /\ plug'.names = origin.names /\ plug'.prog = NumPrograms - 1
                 /\ \A p \in Presets, i \in Indices :
                      plug'.bank[p][i] = AfterTrip(origin.bank[p][i])
      <4>1. /\ fx.p < NumPrograms /\ plug'.prog = fx.p /\ ~(fx.p + 1 < NumPrograms)
            /\ \A q \in Presets : q < fx.p + 1 => Back(q)'
        BY <3>1, <2>2, <1>14, <1>17
      <4>. PICK m \in Nat : m = NumPrograms
        BY FxWords
      <4>. PICK p \in Nat : p = fx.p
        BY <1>4
      <4>2. NumPrograms \in Nat /\ fx.p = NumPrograms - 1 /\ fx.p + 1 = NumPrograms
        <5>1. p < m /\ ~(p + 1 < m)
          BY <4>1
        <5>2. p = m - 1 /\ p + 1 = m
          BY ONLY <5>1
        <5>. QED BY <5>2
      <4>3. \A q \in Presets : Back(q)'
        <5>1. \A q \in Presets : q < fx.p + 1
          BY <4>2, FxNumbers
        <5>. QED BY <5>1, <4>1
      <4>4. \A q \in Presets : plug'.names[q] = origin.names[q]
        BY <4>3, <1>1 DEF Back
      <4>5. plug'.names \in [Presets -> Names] /\ origin.names \in [Presets -> Names]
        BY <1>4, <1>12 DEF PlugType
      <4>6. plug'.names = origin.names
        BY <4>4, <4>5
      <4>. QED BY <4>1, <4>2, <4>3, <4>6, <1>1 DEF Back
    <3>2. ws[3] \in {FxCk, FxBk, FPCh, FBCh}
      BY <1>2, <1>3 DEF OnDisk, Kinded, Word
    <3>. QED BY <3>1, <3>2, <1>1, <1>15, <1>17, FxRestores DEF Word
  <2>. QED BY <2>1, <2>2, <1>14
<1>. QED BY <1>1, <1>14, <1>15, <1>16, <1>18, <1>19, FxLoads

LEMMA FxSamePlug ==
  \A x, y \in PlugType :
    x.chunks = y.chunks /\ x.prog = y.prog /\ x.bank = y.bank /\ x.names = y.names => x = y
  BY DEF PlugType

(* LoadChunk *)
LEMMA FxLoadsChunk == FxIInv /\ LoadChunk => FxIInv'
<1>. SUFFICES ASSUME FxIInv, LoadChunk
              PROVE  FxIInv'
  OBVIOUS
<1>. DEFINE ws == fxfile.words
            chunk == fxfile.chunk
<1>1. /\ step = "chunk" /\ ~fx.saving
      /\ UNCHANGED <<current, fxfile, origin, quiet, whole, edits>>
      /\ Left < 1 => plug' = plug
      /\ ~(Left < 1) /\ ws[3] = FBCh => plug' = [plug EXCEPT !.bank = chunk[1], !.names = chunk[2]]
      /\ ~(Left < 1) /\ ws[3] # FBCh =>
           plug' = [plug EXCEPT !.bank[plug.prog] = chunk[1], !.names[plug.prog] = chunk[2]]
      /\ ProgramLoaded(Len(ws))
  BY DEF LoadChunk, Word
<1>2. FxTypes /\ OnDisk /\ Complete /\ Reading /\ Reloading
  BY DEF FxIInv
<1>3. /\ ws[5] = Uid /\ Len(ws) >= HeaderSize /\ fx.bank = (ws[3] \in {FxBk, FBCh})
      /\ ws[3] \in {FxCk, FxBk, FPCh, FBCh}
      /\ ws[3] = FBCh \/ chunk \in PresetChunks
      /\ ws[3] = FBCh => chunk \in BankChunks
  BY <1>1, <1>2 DEF Reading, OnDisk, Kinded, Chunked, Word
<1>4. /\ fx \in [saving : BOOLEAN, bank : BOOLEAN, cur : Presets, p : Nat, n : Nat, pos : Nat]
      /\ fx.pos \in Nat /\ fx.pos <= Len(ws) /\ Len(ws) \in Nat
      /\ Left = Len(ws) - fx.pos /\ plug \in PlugType /\ origin \in PlugType
      /\ plug.chunks = origin.chunks
  BY <1>2, LenProperties DEF FxTypes, Left
<1>5. /\ plug' \in PlugType /\ plug'.chunks = plug.chunks /\ plug'.prog = plug.prog
      /\ ~(Left < 1) /\ ws[3] = FBCh => plug'.bank = chunk[1] /\ plug'.names = chunk[2]
      /\ ~(Left < 1) /\ ws[3] # FBCh => /\ plug'.bank[plug.prog] = chunk[1]
                                        /\ plug'.names[plug.prog] = chunk[2]
  <2>1. CASE Left < 1
    BY <2>1, <1>1, <1>4
  <2>2. CASE ~(Left < 1) /\ ws[3] = FBCh
    <3>1. chunk[1] \in [Presets -> [Indices -> Floats]] /\ chunk[2] \in [Presets -> Names]
      BY <2>2, <1>3 DEF BankChunks
    <3>2. PICK b \in [Presets -> [Indices -> Floats]] : b = chunk[1]
      BY <3>1
    <3>3. PICK ns \in [Presets -> Names] : ns = chunk[2]
      BY <3>1
    <3>4. plug' = [plug EXCEPT !.bank = b, !.names = ns]
      BY <3>2, <3>3, <2>2, <1>1
    <3>5. /\ plug' \in PlugType /\ plug'.chunks = plug.chunks /\ plug'.prog = plug.prog
          /\ plug'.bank = b /\ plug'.names = ns
      BY <3>4, <1>4 DEF PlugType
    <3>. QED BY <3>2, <3>3, <3>5, <2>2
  <2>3. CASE ~(Left < 1) /\ ws[3] # FBCh
    <3>1. chunk[1] \in [Indices -> Floats] /\ chunk[2] \in Names
      BY <2>3, <1>3 DEF PresetChunks
    <3>2. PICK b \in [Indices -> Floats] : b = chunk[1]
      BY <3>1
    <3>3. PICK name \in Names : name = chunk[2]
      BY <3>1
    <3>4. /\ plug.prog \in Presets /\ plug.bank \in [Presets -> [Indices -> Floats]]
          /\ plug.names \in [Presets -> Names]
      BY <1>4 DEF PlugType
    <3>5. PICK bs \in [Presets -> [Indices -> Floats]] : bs = [plug.bank EXCEPT ![plug.prog] = b]
      BY <3>4
    <3>6. PICK ns \in [Presets -> Names] : ns = [plug.names EXCEPT ![plug.prog] = name]
      BY <3>4
    <3>7. plug' = [plug EXCEPT !.bank = bs, !.names = ns]
      <4>1. plug' = [plug EXCEPT !.bank[plug.prog] = b, !.names[plug.prog] = name]
        BY <3>2, <3>3, <2>3, <1>1
      <4>. QED BY <4>1, <3>5, <3>6, Zenon
    <3>8. /\ plug' \in PlugType /\ plug'.chunks = plug.chunks /\ plug'.prog = plug.prog
          /\ plug'.bank = bs /\ plug'.names = ns
      BY <3>7, <1>4 DEF PlugType
    <3>9. bs[plug.prog] = b /\ ns[plug.prog] = name
      BY <3>4, <3>5, <3>6
    <3>. QED BY <3>2, <3>3, <3>8, <3>9, <2>3
  <2>. QED BY <2>1, <2>2, <2>3
<1>6. PICK x \in Nat : x = Len(ws)
  BY <1>4
<1>7. /\ fx' \in [saving : BOOLEAN, bank : BOOLEAN, cur : Presets, p : Nat, n : Nat, pos : Nat]
      /\ fx'.saving = fx.saving /\ fx'.bank = fx.bank /\ fx'.pos = x
      /\ step' \in {"select", "idle"} /\ (step' = "select" => ws[3] = FxBk)
  <2>1. ProgramLoaded(x)
    BY <1>1, <1>6
  <2>. QED BY <2>1, <1>2, FxProgramLoaded DEF Word
<1>8. FxTypes'
  <2>1. fx'.pos <= Len(fxfile'.words)
    BY <1>1, <1>6, <1>7
  <2>2. quiet => current' = plug'.prog
    BY <1>1, <1>2, <1>5 DEF FxTypes
  <2>. QED BY <2>1, <2>2, <1>1, <1>2, <1>5, <1>7 DEF FxTypes
<1>9. Reading'
  BY <1>1, <1>3, <1>7 DEF Reading, Word
<1>10. ASSUME quiet, whole
       PROVE  /\ ws[3] = FBCh => plug' = origin
              /\ ws[3] = FPCh => /\ plug'.bank[plug'.prog] = origin.bank[origin.prog]
                                 /\ plug'.names[plug'.prog] = origin.names[origin.prog]
              /\ ws[3] # FxCk
              /\ ~(ws[3] = FxBk /\ NumPrograms = Params)
  <2>1. /\ ws[3] = FBCh => fx.pos = 39 /\ plug.prog = origin.prog
        /\ ws[3] = FPCh => fx.pos = 14
        /\ ws[3] # FxCk /\ ~(ws[3] = FxBk /\ NumPrograms = Params)
    BY <1>1, <1>2, <1>10, FxSizes DEF Reloading, Word
  <2>2. ASSUME ws[3] = FBCh
        PROVE  plug' = origin
    <3>1. Len(ws) = 40 /\ chunk = << origin.bank, origin.names >>
      BY <1>2, <1>10, <2>2, FxSizes DEF Complete, Word
    <3>2. ~(Left < 1)
      BY <3>1, <2>1, <2>2, <1>4
    <3>3. /\ plug'.bank = origin.bank /\ plug'.names = origin.names
          /\ plug'.prog = origin.prog /\ plug'.chunks = origin.chunks
      BY <3>1, <3>2, <2>1, <2>2, <1>4, <1>5
    <3>. QED BY <3>3, <1>4, <1>5, FxSamePlug
  <2>3. ASSUME ws[3] = FPCh
        PROVE  /\ plug'.bank[plug'.prog] = origin.bank[origin.prog]
               /\ plug'.names[plug'.prog] = origin.names[origin.prog]
    <3>1. Len(ws) = 15 /\ chunk = << origin.bank[origin.prog], origin.names[origin.prog] >>
      BY <1>2, <1>10, <2>3, FxSizes DEF Complete, OneChunk, Word
    <3>2. ~(Left < 1)
      BY <3>1, <2>1, <2>3, <1>4
    <3>3. ws[3] # FBCh
      BY <2>3, FxWords
    <3>. QED BY <3>1, <3>2, <3>3, <1>5
  <2>. QED BY <2>1, <2>2, <2>3
<1>11. Reloading'
  <2>1. FxBk \notin {FBCh, FPCh, FxCk}
    BY FxWords
  <2>. QED BY <2>1, <1>1, <1>7, <1>10 DEF Reloading, Word
<1>12. Restored'
  BY <1>1, <1>3, <1>8, <1>10, FxRestores DEF Word
<1>. QED BY <1>1, <1>7, <1>8, <1>9, <1>11, <1>12, FxLoads

-----------------------------------------------------------------------------
LEMMA FxStutters == FxIInv /\ UNCHANGED fxVars => FxIInv'
<1>. SUFFICES ASSUME FxIInv, UNCHANGED fxVars
              PROVE  FxIInv'
  OBVIOUS
<1>1. UNCHANGED <<plug, current, fxfile, step, fx, origin, quiet, whole, edits>>
  BY DEF fxVars
<1>2. FxTypes' /\ Begun' /\ Looking' /\ Reading'
  BY <1>1 DEF FxIInv, FxTypes, Begun, Looking, Reading, Word
<1>3. OnDisk'
  BY <1>1 DEF FxIInv, OnDisk, Headed, Ended, Chunked, Kinded, Word
<1>4. Writing' /\ Complete'
  BY <1>1 DEF FxIInv, Writing, Complete, BankBegun, OneChunk, Word, Block, Titled
<1>5. Reloading'
  BY <1>1 DEF FxIInv, Reloading, Back, Word
<1>6. Restored'
  BY <1>1, Zenon DEF FxIInv, Restored, FxTypeOK, Word
<1>7. SavingOnlyLooks'
  BY <1>1 DEF FxIInv, SavingOnlyLooks, Word
<1>. QED BY <1>2, <1>3, <1>4, <1>5, <1>6, <1>7 DEF FxIInv

(* What is known of the plugin, the file and the thread that saves or loads  *)
(* it holds in every state.                                                  *)
THEOREM FxInvariant == FxSpec => []FxIInv
<1>1. FxInit => FxIInv
  BY FxInits
<1>2. FxIInv /\ [FxNext]_fxVars => FxIInv'
  <2>. SUFFICES ASSUME FxIInv, [FxNext]_fxVars
                PROVE  FxIInv'
    OBVIOUS
  <2>1. CASE Save
    <3>1. ASSUME NEW bank \in BOOLEAN, fst_save_fxfile(bank)
          PROVE  FxIInv'
      BY <3>1, FxBegins
    <3>2. CASE SaveName
      BY <3>2, FxSavesNameOfBank, FxSavesNameOfPreset
    <3>. QED BY <2>1, <3>1, <3>2, FxSavesChunk, FxSavesParams, FxSavesSelect, FxSelectsBack
             DEF Save
  <2>2. CASE Load
    BY <2>2, FxBeginsToLoad, FxLoadsCurrent, FxLoadsSelect, FxLoadsName, FxLoadsParams,
       FxLoadsChunk DEF Load
  <2>. QED BY <2>1, <2>2, FxEdits, FxNotices, FxStutters DEF FxNext
<1>. QED BY <1>1, <1>2, PTL DEF FxSpec

(* The variables keep their types.                                           *)
THEOREM FxTypeCorrect == FxSpec => []FxTypeOK
<1>1. FxIInv => FxTypeOK
  BY FxTypesOK DEF FxIInv
<1>. QED BY <1>1, FxInvariant, PTL

(* What fst_save_fxfile wrote undisturbed, the plugin has again once         *)
(* fst_load_fxfile has read it undisturbed, as far as the format carries it, *)
(* for any number of programs and parameters.                                *)
THEOREM FxSavedIsRestored == FxSpec => []Restored
<1>1. FxIInv => Restored
  BY DEF FxIInv
<1>. QED BY <1>1, FxInvariant, PTL

(* fst_save_fxfile leaves the parameters and the names as they were, and the *)
(* program selected too, but for a regular bank begun elsewhere than at      *)
(* program 0.                                                                *)
THEOREM FxSavingLooks == FxSpec => []SavingOnlyLooks
<1>1. FxIInv => SavingOnlyLooks
  BY DEF FxIInv
<1>. QED BY <1>1, FxInvariant, PTL

-----------------------------------------------------------------------------
LEMMA FxSelectsOnly ==
  ASSUME FxTypes, NEW p \in Nat, SetProgram(p)
  PROVE  plug'.bank = plug.bank /\ plug'.names = plug.names
  BY FxSetProgram

(* The steps that write the plugin.                                          *)
LEMMA FxOwnLoads ==
  ASSUME FxIInv, LoadName \/ LoadParams \/ LoadChunk
  PROVE  \/ plug'.bank = plug.bank /\ plug'.names = plug.names
         \/ /\ ~fx.saving /\ Word(5) = Uid
            /\ \/ Word(3) = FBCh
               \/ \A p \in Presets \ {plug.prog} : /\ plug'.bank[p] = plug.bank[p]
                                                    /\ plug'.names[p] = plug.names[p]
<1>1. /\ plug \in PlugType /\ ~fx.saving /\ Word(5) = Uid
      /\ plug.prog \in Presets /\ plug.bank \in [Presets -> [Indices -> Floats]]
      /\ plug.names \in [Presets -> Names]
  <2>1. ~fx.saving /\ step \in {"name", "params", "chunk"}
    BY DEF LoadName, LoadParams, LoadChunk
  <2>. QED BY <2>1 DEF FxIInv, FxTypes, PlugType, Reading
<1>2. CASE LoadName
  <2>1. \/ plug' = plug
        \/ plug' = [plug EXCEPT !.names[plug.prog] = Word(fx.pos + 1)]
    BY <1>2 DEF LoadName
  <2>2. CASE plug' = plug
    BY <2>2
  <2>3. CASE plug' = [plug EXCEPT !.names[plug.prog] = Word(fx.pos + 1)]
    <3>1. /\ plug'.bank = plug.bank
          /\ plug'.names = [plug.names EXCEPT ![plug.prog] = Word(fx.pos + 1)]
      BY <2>3, <1>1 DEF PlugType
    <3>. QED BY <3>1, <1>1
  <2>. QED BY <2>1, <2>2, <2>3
<1>3. CASE LoadParams
  <2>1. PICK f : plug' = [plug EXCEPT !.bank[plug.prog] = f]
    <3>1. plug' = [plug EXCEPT !.bank[plug.prog] = [i \in Indices |->
                    IF i > fx.n THEN @[i]
                    ELSE IF i > Left THEN Junk ELSE SwapFloat(Word(fx.pos + i))]]
      BY <1>3 DEF LoadParams
    <3>2. PICK f : f = [i \in Indices |->
                    IF i > fx.n THEN plug.bank[plug.prog][i]
                    ELSE IF i > Left THEN Junk ELSE SwapFloat(Word(fx.pos + i))]
      OBVIOUS
    <3>. QED BY <3>1, <3>2, Zenon
  <2>2. plug'.bank = [plug.bank EXCEPT ![plug.prog] = f] /\ plug'.names = plug.names
    BY <2>1, <1>1 DEF PlugType
  <2>. QED BY <2>2, <1>1
<1>4. CASE LoadChunk
  <2>1. \/ plug' = plug
        \/ Word(3) = FBCh
        \/ plug' = [plug EXCEPT !.bank[plug.prog] = fxfile.chunk[1],
                                !.names[plug.prog] = fxfile.chunk[2]]
    BY <1>4 DEF LoadChunk
  <2>2. CASE plug' = [plug EXCEPT !.bank[plug.prog] = fxfile.chunk[1],
                                  !.names[plug.prog] = fxfile.chunk[2]]
    <3>1. /\ plug'.bank = [plug.bank EXCEPT ![plug.prog] = fxfile.chunk[1]]
          /\ plug'.names = [plug.names EXCEPT ![plug.prog] = fxfile.chunk[2]]
      BY <2>2, <1>1 DEF PlugType
    <3>. QED BY <3>1, <1>1
  <2>. QED BY <2>1, <2>2, <1>1
<1>. QED BY <1>2, <1>3, <1>4

(* fst_load_fxfile and fst_save_fxfile write to the plugin only what a file  *)
(* of its own says, and only to the program selected if it is no bank of     *)
(* chunks.                                                                   *)
THEOREM FxOwnFiles == FxSpec => OwnFilesOnly
<1>. DEFINE Unwritten == plug'.bank = plug.bank /\ plug'.names = plug.names
            Allowed == \/ edits' # edits
                       \/ /\ ~fx.saving /\ Word(5) = Uid
                          /\ \/ Word(3) = FBCh
                             \/ \A p \in Presets \ {plug.prog} :
                                  /\ plug'.bank[p] = plug.bank[p]
                                  /\ plug'.names[p] = plug.names[p]
<1>1. FxIInv /\ [FxNext]_fxVars =>
        [plug'.bank # plug.bank \/ plug'.names # plug.names =>
           \/ edits' # edits
           \/ /\ ~fx.saving /\ Word(5) = Uid
              /\ \/ Word(3) = FBCh
                 \/ \A p \in Presets \ {plug.prog} : /\ plug'.bank[p] = plug.bank[p]
                                                      /\ plug'.names[p] = plug.names[p]]_fxVars
  <2>. SUFFICES ASSUME FxIInv, FxNext
                PROVE  Unwritten \/ Allowed
    OBVIOUS
  <2>1. FxTypes
    BY DEF FxIInv
  <2>2. CASE \E bank \in BOOLEAN : fst_save_fxfile(bank)
    BY <2>2 DEF fst_save_fxfile
  <2>3. CASE SaveChunk \/ SaveName \/ SaveParams
    BY <2>3 DEF SaveChunk, SaveName, SaveParams
  <2>4. CASE SaveSelect \/ LoadSelect
    <3>1. PICK p \in Nat : p = fx.p
      BY <2>1 DEF FxTypes
    <3>2. SetProgram(p)
      BY <3>1, <2>4 DEF SaveSelect, LoadSelect
    <3>. QED BY <3>2, <2>1, FxSelectsOnly
  <2>5. CASE SelectBack
    <3>1. fx.cur \in Nat
      BY <2>1, FxNumbers DEF FxTypes
    <3>2. SwapInt(fx.cur) \in Nat
      <4>1. CASE fx.cur = 0
        BY <4>1, FxNumbers
      <4>2. CASE fx.cur # 0
        BY <4>2, <3>1, FxNumbers
      <4>. QED BY <4>1, <4>2
    <3>3. PICK p \in Nat : p = SwapInt(fx.cur)
      BY <3>2
    <3>4. SetProgram(p)
      BY <3>3, <2>5 DEF SelectBack
    <3>. QED BY <3>4, <2>1, FxSelectsOnly
  <2>6. CASE fst_load_fxfile
    BY <2>6 DEF fst_load_fxfile
  <2>7. CASE LoadCurrent
    <3>1. Word(HeaderSize + 1) \in Nat
      <4>1. ~fx.saving
        BY <2>7 DEF LoadCurrent, FxIInv, Begun
      <4>2. fx.pos = 39
        BY <4>1, <2>7, FxSizes DEF LoadCurrent, FxIInv, Reading
      <4>3. 8 \in 1 .. Len(fxfile.words) /\ fxfile.words \in Seq(Nat)
        BY <4>2, <2>1, LenProperties DEF FxTypes
      <4>4. fxfile.words[8] \in Nat
        BY <4>3, ElementOfSeq
      <4>. QED BY <4>4, FxSizes DEF Word
    <3>2. PICK p \in Nat : p = Word(HeaderSize + 1)
      BY <3>1
    <3>3. SetProgram(p)
      BY <3>2, <2>7 DEF LoadCurrent
    <3>. QED BY <3>3, <2>1, FxSelectsOnly
  <2>8. CASE LoadName \/ LoadParams \/ LoadChunk
    BY <2>8, FxOwnLoads
  <2>9. CASE EditPlugin
    <3>1. edits' # edits
      <4>1. edits \in Nat /\ edits' = edits + 1
        BY <2>1, <2>9 DEF FxTypes, EditPlugin
      <4>. QED BY <4>1
    <3>. QED BY <3>1
  <2>10. CASE Notice
    BY <2>10 DEF Notice
  <2>. QED BY <2>2, <2>3, <2>4, <2>5, <2>6, <2>7, <2>8, <2>9, <2>10 DEF FxNext, Save, Load
<1>. QED BY <1>1, FxInvariant, PTL DEF FxSpec, OwnFilesOnly
=============================================================================
