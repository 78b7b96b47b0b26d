-------------------------------- MODULE MidiOut --------------------------------
(***************************************************************************)
(* MIDI from the plugin to JACK (jfst/jamc.c, process_midi_output): while   *)
(* it processes a cycle the plugin hands over events, which are stamped     *)
(* with JACK's frame time and put into a ring; later in that cycle and in   *)
(* the next ones the process thread takes them out, as long as the one at   *)
(* the head belongs into the cycle.                                         *)
(*                                                                         *)
(* Frame times are unsigned and wrap: Frames is the length of a cycle, and  *)
(* Modulus stands for 2^32.  It is longer than a behaviour, so that the     *)
(* frame time comes round once and not twice.                               *)
(***************************************************************************)
EXTENDS Integers, Sequences

CONSTANTS Frames,     \* nframes
          Modulus,    \* of jack_nframes_t
          Capacity,   \* events in the ring
          MaxCycles   \* bound

ASSUME MidiOutAssumption ==
  /\ Frames \in Nat \ {0} /\ Capacity \in Nat \ {0} /\ MaxCycles \in Nat \ {0}
  /\ Modulus \in Nat /\ Modulus > (MaxCycles + 2) * Frames

VARIABLES
  frame,      \* jack_last_frame_time: where this cycle starts
  elapsed,    \* frames of it that have passed, as jack_frame_time has them
  ring,       \* events [time, due, age]: the last two are history
  pc,         \* "run": the plugin, "out": process_midi_output, "end"
  written,    \* the port's buffer: [offset, due, age]
  cycle,      \* history: how many there were
  skipped     \* history: one was passed over while events waited

vars == <<frame, elapsed, ring, pc, written, cycle, skipped>>

Init ==
  /\ frame \in {0, Modulus - Frames}
  /\ elapsed = 0
  /\ ring = <<>>
  /\ pc = "run"
  /\ written = <<>>
  /\ cycle = 0
  /\ skipped = FALSE

-----------------------------------------------------------------------------
(* audioMasterProcessEvents.  A time within the cycle becomes one of JACK's *)
(* by adding the time at which the plugin hands the event over, so an event *)
(* is due some frames after the start of the cycle, or of the next.  The    *)
(* plugin hands them over in order.  No room, note lost.                    *)
InOrder(due) == ring # <<>> => \/ ring[Len(ring)].age # 0
                               \/ ring[Len(ring)].due <= due

StampUnwrapped(due) == frame + due

Stamp(due) == (frame + due) % Modulus

Queue ==
  /\ pc = "run"
  /\ \E delta \in 0 .. Frames - 1, e \in elapsed .. Frames - 1 :
       LET due == e + delta
       IN /\ InOrder(due)
          /\ elapsed' = e
          /\ ring' = IF Len(ring) = Capacity THEN ring
                     ELSE Append(ring, [time |-> Stamp(due), due |-> due, age |-> 0])
  /\ UNCHANGED <<frame, pc, written, cycle, skipped>>

Run ==
  /\ pc = "run"
  /\ pc' = "out"
  /\ UNCHANGED <<frame, elapsed, ring, written, cycle, skipped>>

-----------------------------------------------------------------------------
(* process_midi_output.  An event is sent one cycle after it is due, at the *)
(* same place in the cycle.                                                 *)
OffsetNow(m) == (m.time + Modulus - frame) % Modulus

Offset(m) == (m.time + Frames + Modulus - frame) % Modulus

(* "If computed time is too much into the future, we'll send it later", and *)
(* the head stays.  The test for a time in the past comes after it in the   *)
(* code and is never true of an unsigned number.                            *)
Later(m) == Offset(m) >= Frames

FirstDue == ring # <<>> /\ ~Later(Head(ring)) /\ written = <<>>

HeadDue == ring # <<>> /\ ~Later(Head(ring))

(* jack_midi_event_write takes events in the order of their time only.      *)
Takes(offset) == written = <<>> \/ written[Len(written)].offset <= offset

Write ==
  /\ pc = "out" /\ HeadDue
  /\ LET m == Head(ring)
     IN written' = IF Takes(Offset(m))
                   THEN Append(written, [offset |-> Offset(m), due |-> m.due, age |-> m.age])
                   ELSE written
  /\ ring' = Tail(ring)
  /\ UNCHANGED <<frame, elapsed, pc, cycle, skipped>>

Written ==
  /\ pc = "out"
  /\ ~HeadDue
  /\ pc' = "end"
  /\ UNCHANGED <<frame, elapsed, ring, written, cycle, skipped>>

-----------------------------------------------------------------------------
NextCycle(first) ==
  /\ pc = "end" /\ pc' = first
  /\ cycle < MaxCycles /\ cycle' = cycle + 1
  /\ frame' = (frame + Frames) % Modulus
  /\ ring' = [i \in DOMAIN ring |-> [ring[i] EXCEPT !.age = @ + 1]]
  /\ elapsed' = 0
  /\ written' = <<>>

Cycle == NextCycle("run") /\ UNCHANGED skipped

(* Somebody holds process_lock and jfst_process returns at once, or an xrun *)
(* has cost a cycle.                                                        *)
Skip == NextCycle("end") /\ skipped' = (skipped \/ ring # <<>>)

Next == Queue \/ Run \/ Write \/ Written \/ Cycle \/ Skip

Spec == Init /\ [][Next]_vars

-----------------------------------------------------------------------------
(* Every variable keeps its type, and so do the offsets given to JACK.      *)
TypeOK ==
  /\ frame \in 0 .. Modulus - 1
  /\ elapsed \in 0 .. Frames - 1
  /\ Len(ring) <= Capacity
  /\ \A i \in DOMAIN ring : ring[i].time \in 0 .. Modulus - 1
  /\ \A i \in DOMAIN written : written[i].offset \in 0 .. Frames - 1

(* Whatever leaves, leaves exactly one cycle after it was due, also where   *)
(* the frame time wraps, and after cycles that were passed over.            *)
OneCycleLate ==
  \A i \in DOMAIN written :
    written[i].age * Frames + written[i].offset = written[i].due + Frames

(* No event stays: after the output of a cycle only those are left that     *)
(* belong into the next - as long as no cycle has been passed over while    *)
(* events were waiting.  (With the types.)                                  *)
NoneStuck ==
  /\ TypeOK
  /\ pc = "end" /\ ~skipped =>
       \A i \in DOMAIN ring : ring[i].due >= ring[i].age * Frames

(* process.c:47 "If computed time is < 0, we missed a cycle because of      *)
(* xrun" (it is then to be sent at once): the same, cycles passed over or   *)
(* not, once there has been an output after them.  It does not hold.        *)
NoneStuckEver ==
  pc = "out" /\ written = <<>> /\ ring # <<>> /\ Later(Head(ring)) =>
    Head(ring).due >= Head(ring).age * Frames
=============================================================================
