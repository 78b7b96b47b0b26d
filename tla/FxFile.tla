-------------------------------- MODULE FxFile --------------------------------
(***************************************************************************)
(* Saving a plugin to an FXP or FXB file and loading it again (fst/fxb.c).  *)
(*                                                                         *)
(* The file is a sequence of 4-byte words, as the loader counts them: a     *)
(* header of 7, a name of 7, a hole up to word 39 in a bank.  One thread    *)
(* saves and loads, a step being what it does between two calls of the      *)
(* plugin; meanwhile the user plays with the plugin's own editor, and the   *)
(* event thread notices the program chosen there only afterwards.           *)
(***************************************************************************)
EXTENDS Integers, Sequences

CONSTANTS NumPrograms,  \* programs of the plugin
          Params,       \* parameters of the plugin
          Values,       \* values the user gives a parameter
          Kinds,        \* does the plugin hand out chunks: subset of BOOLEAN
          MaxEdits      \* bound on what the user does

VARIABLES plug,         \* the plugin: [chunks, bank, names, prog]
          current,      \* fst->current_program
          fxfile,       \* [words, chunk]
          step,         \* what the thread does next
          fx,           \* its locals: [saving, bank, cur, p, n, pos]
          origin,       \* the plugin when the file was begun
          quiet,        \* nobody touched the plugin since the thread began
          whole,        \* the file was saved in one such piece
          edits         \* what the user has done, counted

fxVars == <<plug, current, fxfile, step, fx, origin, quiet, whole, edits>>

Presets == 0 .. NumPrograms - 1
Indices == 1 .. Params

(* A word is a number.  Those up to Base are the integers of a header: as    *)
(* the bits of a float they are next to nothing.                            *)
Base == NumPrograms + Params
Zero == 0
Half == Base + 1          \* any value between the ends
One == Base + 2
Big == Base + 3           \* 16777216.0
Junk == Base + 4          \* any other bits
CcnK == Base + 5          \* cMagic
FxCk == Base + 6          \* fMagic: a regular program
FxBk == Base + 7          \* bankMagic: a regular bank
FPCh == Base + 8          \* chunkPresetMagic
FBCh == Base + 9          \* chunkBankMagic
Uid == Base + 10          \* this plugin
Other == Base + 11        \* another
NewName == Base + 12
PresetName == Base + 13   \* "preset %d"
Name(p) == Base + 14 + p  \* what program p is called at first

ASSUME FxAssumption ==
  /\ NumPrograms \in Nat \ {0}
  /\ Params \in Nat \ {0}
  /\ Values \subseteq {Zero, Half, One}
  /\ Kinds \subseteq BOOLEAN
  /\ MaxEdits \in Nat

-----------------------------------------------------------------------------
SwapFloatOnce(w) == IF w = One THEN Big ELSE w

(* endian_swap_float makes an integer of the float before it swaps the      *)
(* bytes, and a float of the result: 1.0 becomes 16777216.0 and back, what  *)
(* is below 1 becomes 0.                                                    *)
SwapFloat(w) ==
  CASE w = One -> Big [] w = Big -> One [] w <= Half -> Zero [] OTHER -> Junk

(* endian_swap of a program number is no program, except for 0.             *)
SwapInt(n) == IF n = 0 THEN 0 ELSE Junk

HeaderSize == 7
NameSize   == 7
HoleEnd    == 39          \* FXB_BLANK_HOLE, in words

FXHeader(fxMagic, version, id, n) == <<CcnK, 0, fxMagic, version, id, 1, n>>
Repeat(w, n) == [k \in 1 .. n |-> w]

(* fx_header and the current program, to the end of the hole.               *)
BankHeader(fxMagic, prog) ==
  FXHeader(fxMagic, 2, Uid, NumPrograms) \o <<prog>> \o Repeat(0, HoleEnd - HeaderSize - 1)

(* What may be on disk already: nothing, a bank for another plugin, a bank  *)
(* of the first version with one program of two, and that one a chunk.      *)
ForeignBank == FXHeader(FBCh, 2, Other, NumPrograms) \o Repeat(0, HoleEnd - HeaderSize) \o <<1>>
OldPreset   == FXHeader(FPCh, 1, Uid, 1) \o Repeat(NewName, NameSize) \o <<1>>
OldBank     == FXHeader(FxBk, 1, Uid, 2) \o Repeat(0, HoleEnd - HeaderSize) \o OldPreset

OldFxFiles ==
  { [words |-> <<>>, chunk |-> <<>>],
    [words |-> ForeignBank,
     chunk |-> << [p \in Presets |-> Repeat(One, Params)], [p \in Presets |-> NewName] >>],
    [words |-> OldBank, chunk |-> << Repeat(One, Params), NewName >>] }

FxInit ==
  /\ \E c \in Kinds, prog \in Presets :
       plug = [chunks |-> c, prog |-> prog,
               bank |-> [p \in Presets |-> [i \in Indices |-> Zero]],
               names |-> [p \in Presets |-> Name(p)]]
  /\ current = plug.prog
  /\ fxfile \in OldFxFiles
  /\ step = "idle"
  /\ fx = [saving |-> FALSE, bank |-> FALSE, cur |-> 0, p |-> 0, n |-> 0, pos |-> 0]
  /\ origin = plug
  /\ quiet = FALSE
  /\ whole = FALSE
  /\ edits = 0

-----------------------------------------------------------------------------
(* fst_set_program: nothing if the cached program says so; the plugin       *)
(* ignores a number it does not have; the cache follows the plugin.         *)
SetProgram(p) ==
  /\ plug' = IF current # p /\ p \in Presets THEN [plug EXCEPT !.prog = p] ELSE plug
  /\ current' = IF current # p THEN plug'.prog ELSE current

(* fst_get_program_name: the plugin's own program if the cache agrees, else *)
(* by number, and if the plugin cannot do that a made-up name.              *)
NamesOf(p) == IF p = current THEN {plug.names[plug.prog]}
              ELSE {plug.names[p], PresetName}

Written(ws) == [fxfile EXCEPT !.words = @ \o ws]

fst_save_fxfile(bank) ==
  /\ step = "idle"
  /\ fx' = [saving |-> TRUE, bank |-> bank, cur |-> current, p |-> 0, n |-> 0, pos |-> 0]
  /\ fxfile' = [chunk |-> <<>>,
                words |-> IF bank
                          THEN BankHeader(IF plug.chunks THEN FBCh ELSE FxBk, current)
                          ELSE FXHeader(IF plug.chunks THEN FPCh ELSE FxCk, 1, Uid, Params)]
  /\ step' = IF plug.chunks THEN "chunk" ELSE IF bank THEN "select" ELSE "name"
  /\ origin' = plug
  /\ quiet' = (current = plug.prog)
  /\ whole' = FALSE
  /\ UNCHANGED <<plug, current, edits>>

FileSaved ==
  /\ step' = "idle"
  /\ whole' = quiet

SaveChunk ==
  /\ step = "chunk" /\ fx.saving
  /\ fxfile' = [words |-> fxfile.words \o (IF fx.bank THEN <<1>> ELSE <<>>),
                chunk |-> IF fx.bank THEN <<plug.bank, plug.names>>
                          ELSE <<plug.bank[plug.prog], plug.names[plug.prog]>>]
  /\ IF fx.bank THEN FileSaved ELSE step' = "name" /\ whole' = whole
  /\ UNCHANGED <<plug, current, fx, origin, quiet, edits>>

(* A bank writes a header, and it counts programs, before every program.    *)
SaveName ==
  /\ step = "name" /\ fx.saving
  /\ \E name \in NamesOf(IF fx.bank THEN current ELSE fx.cur) :
       fxfile' = Written( (IF fx.bank THEN FXHeader(FxCk, 2, Uid, NumPrograms) ELSE <<>>)
                          \o Repeat(name, NameSize)
                          \o (IF plug.chunks THEN <<1>> ELSE <<>>) )
  /\ IF plug.chunks THEN FileSaved ELSE step' = "params" /\ whole' = whole
  /\ UNCHANGED <<plug, current, fx, origin, quiet, edits>>

(* fx_save_params reads the parameters of whatever program is selected.     *)
SaveParams ==
  /\ step = "params" /\ fx.saving
  /\ fxfile' = Written([i \in Indices |-> SwapFloat(plug.bank[plug.prog][i])])
  /\ fx' = [fx EXCEPT !.p = @ + 1]
  /\ IF ~fx.bank THEN FileSaved
     ELSE /\ step' = IF fx.p + 1 < NumPrograms THEN "select" ELSE "back"
          /\ whole' = whole
  /\ UNCHANGED <<plug, current, origin, quiet, edits>>

SaveSelect ==
  /\ step = "select" /\ fx.saving
  /\ SetProgram(fx.p)
  /\ step' = "name"
  /\ UNCHANGED <<fxfile, fx, origin, quiet, whole, edits>>

SelectBackNot ==
  /\ step = "back"
  /\ FileSaved
  /\ UNCHANGED <<plug, current, fxfile, fx, origin, quiet, edits>>

(* The number was swapped for the file before it is used here.              *)
SelectBack ==
  /\ step = "back"
  /\ SetProgram(SwapInt(fx.cur))
  /\ FileSaved
  /\ UNCHANGED <<fxfile, fx, origin, quiet, edits>>

-----------------------------------------------------------------------------
Word(k) == fxfile.words[k]
Left    == Len(fxfile.words) - fx.pos

(* A file that is not there, not one of these or not this plugin's changes  *)
(* nothing.                                                                 *)
OwnAny == Len(fxfile.words) >= HeaderSize /\ Word(1) = CcnK

Own == Len(fxfile.words) >= HeaderSize /\ Word(1) = CcnK /\ Word(5) = Uid

(* A regular FXP leaves the count in fx_load_program's own header           *)
(* uninitialised: any number may come of it.                                *)
fst_load_fxfile ==
  /\ step = "idle"
  /\ Own
  /\ LET bank == Word(3) \in {FxBk, FBCh}
         v2   == Word(4) = 2
     IN \E n \in IF Word(3) = FxCk THEN 0 .. Params + 1 ELSE {Word(7)} :
          /\ fx' = [saving |-> FALSE, bank |-> bank, cur |-> 0, p |-> 0, n |-> n,
                    pos |-> IF bank THEN HoleEnd ELSE HeaderSize]
          /\ step' = IF bank /\ v2 THEN "current"
                     ELSE IF Word(3) = FBCh THEN "chunk"
                     ELSE IF Word(3) = FxBk THEN "select" ELSE "name"
  /\ quiet' = (current = plug.prog)
  /\ UNCHANGED <<plug, current, fxfile, origin, whole, edits>>

LoadCurrent ==
  /\ step = "current"
  /\ SetProgram(Word(HeaderSize + 1))
  /\ step' = IF Word(3) = FBCh THEN "chunk" ELSE "select"
  /\ UNCHANGED <<fxfile, fx, origin, quiet, whole, edits>>

(* The next program of a bank, if it has one; else the file is loaded.      *)
ProgramLoaded(pos) ==
  /\ fx' = [fx EXCEPT !.p = @ + 1, !.pos = pos]
  /\ step' = IF Word(3) = FxBk /\ fx.p + 1 < Word(7) THEN "select" ELSE "idle"

(* A header cut short is followed by a name that cannot be read.            *)
LoadSelect ==
  /\ step = "select" /\ ~fx.saving
  /\ SetProgram(fx.p)
  /\ IF Left >= HeaderSize /\ Word(fx.pos + 3) \in {FPCh, FxCk}
     THEN /\ fx' = [fx EXCEPT !.n = Word(fx.pos + 7), !.pos = @ + HeaderSize]
          /\ step' = "name"
     ELSE ProgramLoaded(fx.pos + (IF Left < HeaderSize THEN Left ELSE HeaderSize))
  /\ UNCHANGED <<fxfile, origin, quiet, whole, edits>>

IsChunk == IF fx.bank THEN Word(fx.pos - HeaderSize + 3) = FPCh ELSE Word(3) = FPCh

LoadName ==
  /\ step = "name" /\ ~fx.saving
  /\ IF Left < NameSize
     THEN ProgramLoaded(Len(fxfile.words)) /\ plug' = plug
     ELSE /\ plug' = [plug EXCEPT !.names[plug.prog] = Word(fx.pos + 1)]
          /\ fx' = [fx EXCEPT !.pos = @ + NameSize]
          /\ step' = IF IsChunk THEN "chunk" ELSE "params"
  /\ UNCHANGED <<current, fxfile, origin, quiet, whole, edits>>

(* Beyond the end of the file the array holds what the stack held.          *)
LoadParams ==
  /\ step = "params" /\ ~fx.saving
  /\ plug' = [plug EXCEPT !.bank[plug.prog] = [i \in Indices |->
                IF i > fx.n THEN @[i]
                ELSE IF i > Left THEN Junk ELSE SwapFloat(Word(fx.pos + i))]]
  /\ ProgramLoaded(fx.pos + (IF Left < fx.n THEN Left ELSE fx.n))
  /\ UNCHANGED <<current, fxfile, origin, quiet, whole, edits>>

(* effSetChunk, of the bank or of the program selected.                    *)
LoadChunk ==
  /\ step = "chunk" /\ ~fx.saving
  /\ plug' = IF Left < 1 THEN plug
             ELSE IF Word(3) = FBCh
             THEN [plug EXCEPT !.bank = fxfile.chunk[1], !.names = fxfile.chunk[2]]
             ELSE [plug EXCEPT !.bank[plug.prog] = fxfile.chunk[1],
                               !.names[plug.prog] = fxfile.chunk[2]]
  /\ ProgramLoaded(Len(fxfile.words))
  /\ UNCHANGED <<current, fxfile, origin, quiet, whole, edits>>

-----------------------------------------------------------------------------
(* The plugin's own editor, at any moment.                                  *)
EditPlugin ==
  /\ edits < MaxEdits
  /\ edits' = edits + 1
  /\ \/ \E i \in Indices, v \in Values : plug' = [plug EXCEPT !.bank[plug.prog][i] = v]
     \/ plug' = [plug EXCEPT !.names[plug.prog] = NewName]
     \/ \E p \in Presets : plug' = [plug EXCEPT !.prog = p]
  /\ quiet' = FALSE
  /\ UNCHANGED <<current, fxfile, step, fx, origin, whole>>

(* fst_event_thread, at the next round.                                     *)
Notice ==
  /\ current # plug.prog
  /\ current' = plug.prog
  /\ UNCHANGED <<plug, fxfile, step, fx, origin, quiet, whole, edits>>

Save == \/ \E bank \in BOOLEAN : fst_save_fxfile(bank)
        \/ SaveChunk \/ SaveName \/ SaveParams \/ SaveSelect \/ SelectBack
Load == \/ fst_load_fxfile \/ LoadCurrent \/ LoadSelect \/ LoadName \/ LoadParams \/ LoadChunk

FxNext == Save \/ Load \/ EditPlugin \/ Notice

FxSpec == FxInit /\ [][FxNext]_fxVars

-----------------------------------------------------------------------------
Floats == {Zero, Half, One}
Names  == {Name(p) : p \in Presets} \cup {NewName, PresetName}

(* Every variable keeps its type: the plugin has a program it knows, names   *)
(* and floats, and the loader never stands behind the end of the file.       *)
FxTypeOK ==
  /\ plug.prog \in Presets /\ current \in Presets
  /\ plug.bank \in [Presets -> [Indices -> Floats]]
  /\ plug.names \in [Presets -> Names]
  /\ step \in {"idle", "chunk", "name", "params", "select", "current", "back"}
  /\ fx.p \in Nat /\ fx.cur \in Presets
  /\ fx.pos \in 0 .. Len(fxfile.words)
  /\ quiet \in BOOLEAN /\ whole \in BOOLEAN /\ edits \in 0 .. MaxEdits

(* What a parameter is after a trip through a regular file: its two ends     *)
(* come back, what lies between comes back as 0 (endian_swap_float).         *)
AfterTrip(v) == IF v = One THEN One ELSE Zero

(* What fst_save_fxfile wrote while nobody touched the plugin, and           *)
(* fst_load_fxfile read while nobody touched it, is what the plugin has      *)
(* again, whatever the user did in between: all of it and the program        *)
(* selected from a bank of chunks, the one program from a preset.  From a    *)
(* regular bank the names and the ends of the parameters come back, and the  *)
(* last program is selected, if the plugin has as many programs as it has    *)
(* parameters: the writer counts the one (fxb.c:344) where the reader takes  *)
(* the other.  From a regular preset only the name is sure.  (With types.)   *)
Restored ==
  /\ FxTypeOK
  /\ step = "idle" /\ ~fx.saving /\ quiet /\ whole =>
       CASE Word(3) = FBCh -> plug = origin
         [] Word(3) = FPCh -> /\ plug.bank[plug.prog] = origin.bank[origin.prog]
                              /\ plug.names[plug.prog] = origin.names[origin.prog]
         [] Word(3) = FxBk -> NumPrograms = Params =>
                              /\ plug.names = origin.names
                              /\ plug.prog = NumPrograms - 1
                              /\ \A p \in Presets, i \in Indices :
                                   plug.bank[p][i] = AfterTrip(origin.bank[p][i])
         [] OTHER          -> plug.names[plug.prog] = origin.names[origin.prog]

(* Saving leaves the plugin as it was: fst_save_fxfile selects every program *)
(* of a regular bank in turn, and once done its parameters and names are     *)
(* what they were and the program that was playing plays again.  The one     *)
(* exception is a regular bank begun at another program than 0: see          *)
(* FoundBack.                                                                *)
SavingOnlyLooks ==
  step = "idle" /\ fx.saving /\ quiet =>
    /\ plug.bank = origin.bank /\ plug.names = origin.names
    /\ plug.prog = origin.prog \/ (Word(3) = FxBk /\ origin.prog # 0)

(* A step of fst_load_fxfile or fst_save_fxfile changes a parameter or a     *)
(* name only of the program selected or, with a bank of chunks, of all, and  *)
(* only from a file of this plugin; it never does while the file is saved.   *)
OwnFilesOnly ==
  [][plug'.bank # plug.bank \/ plug'.names # plug.names =>
       \/ edits' # edits
       \/ /\ ~fx.saving /\ Word(5) = Uid
          /\ \/ Word(3) = FBCh
             \/ \A p \in Presets \ {plug.prog} : /\ plug'.bank[p] = plug.bank[p]
                                                  /\ plug'.names[p] = plug.names[p]]_fxVars

(* fxb.c:225 "Preset file with float parameters": what a regular bank        *)
(* carries of the parameters is what they were.                              *)
ParametersComeBack ==
  step = "idle" /\ ~fx.saving /\ quiet /\ whole /\ Word(3) = FxBk =>
    plug.bank = origin.bank

(* fxb.c:358, after the walk: a save goes back to the program it began at    *)
(* (its number has been swapped for the file at fxb.c:326).                  *)
FoundBack ==
  step = "idle" /\ fx.saving /\ quiet => plug.prog = origin.prog
=============================================================================
