----------------------------- MODULE Midi_proofs -----------------------------
(***************************************************************************)
(* MIDI, out and in.                                                       *)
(*                                                                         *)
(* Part 1, MidiOut: the plugin's MIDI leaves one cycle late and none of it *)
(* stays, for any length of a cycle, size of the ring, number of cycles    *)
(* and width of the frame times that the assumption allows.                *)
(*                                                                         *)
(* Part 2, MidiIn: with one thread that sets channel and transposition,    *)
(* the filters are set as asked, and do with each message what settings in *)
(* force meanwhile mean, for any messages and any settings.                *)
(***************************************************************************)
EXTENDS MidiOut, MidiIn, TLAPS

Event == [time : 0 .. Modulus - 1, due : 0 .. 2 * Frames - 2, age : 0 .. MaxCycles]

(* Where in this cycle an event is due; before it if negative.             *)
Place(m) == m.due - m.age * Frames

(* How far an event is behind another in the ring.                         *)
Behind(m, l) == m.age > l.age \/ (m.age = l.age /\ m.due <= l.due)

Types ==
  /\ frame \in 0 .. Modulus - 1 /\ elapsed \in 0 .. Frames - 1
  /\ cycle \in 0 .. MaxCycles /\ skipped \in BOOLEAN
  /\ ring \in Seq(Event) /\ Len(ring) <= Capacity
  /\ written \in Seq([offset : 0 .. Frames - 1, due : Int, age : Int])
  /\ pc \in {"run", "out", "end"}

(* A time stamp is where the event is due, and none is older than all.     *)
TimeInv ==
  \A i \in 1 .. Len(ring) :
    /\ ring[i].time = (frame + Place(ring[i])) % Modulus
    /\ ring[i].age <= cycle

Sorted ==
  \A i, j \in 1 .. Len(ring) : i < j => Behind(ring[i], ring[j])

(* No event waits for more than a cycle.                                   *)
Prompt ==
  ~skipped => \A i \in 1 .. Len(ring) :
    Place(ring[i]) >= IF pc = "end" THEN 0 ELSE -Frames

IInv == Types /\ TimeInv /\ Sorted /\ Prompt /\ OneCycleLate

-----------------------------------------------------------------------------
(* Arithmetic modulo Modulus.                                              *)

LEMMA ModIn ==
  ASSUME NEW M \in Nat, M > 0, NEW x \in Int
  PROVE  x % M \in 0 .. M - 1
OBVIOUS

LEMMA ModLow ==
  ASSUME NEW M \in Nat, NEW x \in Int, 0 <= x, x < M
  PROVE  x % M = x
OBVIOUS

LEMMA ModOver ==
  ASSUME NEW M \in Nat, NEW x \in Int, M <= x, x < 2 * M
  PROVE  x % M = x - M
OBVIOUS

LEMMA ModTwice ==
  ASSUME NEW M \in Nat, NEW x \in Int, 2 * M <= x, x < 3 * M
  PROVE  x % M = x - 2 * M
OBVIOUS

LEMMA ModUnder ==
  ASSUME NEW M \in Nat, NEW x \in Int, -M <= x, x < 0
  PROVE  x % M = x + M
OBVIOUS

(* What the proofs need to know of the constants, without a product.       *)
LEMMA Sizes ==
  ASSUME NEW a \in 0 .. MaxCycles
  PROVE  /\ Frames \in Nat /\ Frames > 0 /\ Modulus \in Nat /\ Capacity \in Nat
         /\ a * Frames \in Nat /\ Modulus > a * Frames + 2 * Frames /\ Modulus > 3 * Frames
         /\ (a + 1) * Frames = a * Frames + Frames
         /\ a >= 2 => a * Frames >= 2 * Frames
         /\ a >= 1 => a * Frames >= Frames
<1>1. /\ Frames \in Nat /\ Frames > 0 /\ Modulus \in Nat /\ Capacity \in Nat
      /\ MaxCycles \in Nat /\ MaxCycles >= 1 /\ Modulus > (MaxCycles + 2) * Frames
  BY MidiOutAssumption
<1>2. ASSUME NEW x \in Nat, NEW y \in Nat, x <= y PROVE x * Frames <= y * Frames
  BY <1>1, <1>2
<1>3. /\ (MaxCycles + 2) * Frames = MaxCycles * Frames + 2 * Frames
      /\ (a + 1) * Frames = a * Frames + Frames
      /\ 1 * Frames = Frames /\ a * Frames \in Nat /\ MaxCycles * Frames \in Nat
  BY <1>1
<1>4. a * Frames <= MaxCycles * Frames /\ Frames <= MaxCycles * Frames
  BY <1>1, <1>2, <1>3
<1>5. (a >= 2 => a * Frames >= 2 * Frames) /\ (a >= 1 => a * Frames >= Frames)
  BY <1>1, <1>2, <1>3
<1>. QED BY <1>1, <1>3, <1>4, <1>5

LEMMA PlaceRange ==
  ASSUME NEW m \in Event
  PROVE  /\ Place(m) \in Int /\ Place(m) <= 2 * Frames - 2
         /\ Place(m) > 2 * Frames - Modulus
<1>1. m.due \in 0 .. 2 * Frames - 2 /\ m.age \in 0 .. MaxCycles
  BY DEF Event
<1>. DEFINE P == m.age * Frames
<1>2. P \in Nat /\ Frames \in Nat /\ Modulus \in Nat /\ Modulus > P + 2 * Frames
  BY <1>1, Sizes
<1>3. Place(m) = m.due - P
  BY DEF Place
<1>. QED BY <1>1, <1>2, <1>3

(* process_midi_output finds out where in the cycle an event is due one    *)
(* cycle late, and that it is not in this one.                             *)
LEMMA OffsetIsPlace ==
  ASSUME NEW m \in Event, frame \in 0 .. Modulus - 1,
         m.time = (frame + Place(m)) % Modulus
  PROVE  /\ Offset(m) \in Nat
         /\ ~Later(m) <=> Place(m) >= -Frames /\ Place(m) < 0
         /\ ~Later(m) => Offset(m) = Place(m) + Frames
<1>. DEFINE k == Place(m)
            t == m.time
            x == t + Frames + Modulus - frame
<1>1. /\ Frames \in Nat /\ Frames > 0 /\ Modulus \in Nat /\ Modulus > 3 * Frames
      /\ frame \in Int /\ 0 <= frame /\ frame < Modulus
      /\ k \in Int /\ k <= 2 * Frames - 2 /\ k > 2 * Frames - Modulus
  <2>1. 0 \in 0 .. MaxCycles
    BY MidiOutAssumption
  <2>. QED BY <2>1, Sizes, PlaceRange
<1>. HIDE DEF k
<1>2. t \in {frame + k, frame + k - Modulus, frame + k + Modulus}
  <2>1. t = (frame + k) % Modulus
    BY DEF k
  <2>2. CASE frame + k < 0
    BY <1>1, <2>1, <2>2, ModUnder
  <2>3. CASE frame + k >= 0 /\ frame + k < Modulus
    BY <1>1, <2>1, <2>3, ModLow
  <2>4. CASE frame + k >= Modulus
    BY <1>1, <2>1, <2>4, ModOver
  <2>. QED BY <1>1, <2>2, <2>3, <2>4
<1>3. t \in 0 .. Modulus - 1
  BY DEF Event
<1>4. x \in Int /\ x \in {k + Frames + Modulus, k + Frames, k + Frames + 2 * Modulus}
  BY <1>1, <1>2
<1>5. x % Modulus = IF k + Frames >= 0 THEN k + Frames ELSE k + Frames + Modulus
  <2>. DEFINE y == k + Frames
  <2>1. y \in Int /\ y < Modulus /\ y > -Modulus
    BY <1>1
  <2>2. x \in {y + Modulus, y, y + 2 * Modulus} /\ x >= 0
    BY <1>1, <1>3, <1>4
  <2>. HIDE DEF x, y
  <2>3. CASE x = y
    BY <1>1, <2>1, <2>2, <2>3, ModLow DEF y
  <2>4. CASE x = y + Modulus /\ y < 0
    <3>1. x \in Int /\ 0 <= x /\ x < Modulus
      BY <1>1, <2>1, <2>4
    <3>2. x % Modulus = x
      BY <1>1, <3>1, ModLow
    <3>. QED BY <1>1, <2>1, <2>4, <3>2 DEF y
  <2>5. CASE x = y + Modulus /\ y >= 0
    <3>1. x \in Int /\ Modulus <= x /\ x < 2 * Modulus
      BY <1>1, <2>1, <2>5
    <3>2. x % Modulus = x - Modulus
      BY <1>1, <3>1, ModOver
    <3>. QED BY <1>1, <2>1, <2>5, <3>2 DEF y
  <2>6. CASE x = y + 2 * Modulus /\ y < 0
    <3>1. x \in Int /\ Modulus <= x /\ x < 2 * Modulus
      BY <1>1, <2>1, <2>6
    <3>2. x % Modulus = x - Modulus
      BY <1>1, <3>1, ModOver
    <3>. QED BY <1>1, <2>1, <2>6, <3>2 DEF y
  <2>7. CASE x = y + 2 * Modulus /\ y >= 0
    <3>1. x \in Int /\ 2 * Modulus <= x /\ x < 3 * Modulus
      BY <1>1, <2>1, <2>7
    <3>2. x % Modulus = x - 2 * Modulus
      BY <1>1, <3>1, ModTwice
    <3>. QED BY <1>1, <2>1, <2>7, <3>2 DEF y
  <2>. QED BY <2>1, <2>2, <2>3, <2>4, <2>5, <2>6, <2>7 DEF y
<1>6. Offset(m) = x % Modulus
  BY DEF Offset
<1>7. Later(m) <=> Offset(m) >= Frames
  BY DEF Later
<1>. QED BY <1>1, <1>5, <1>6, <1>7 DEF k

-----------------------------------------------------------------------------
LEMMA ModFarUnder ==
  ASSUME NEW M \in Nat, NEW x \in Int, -2 * M <= x, x < -M
  PROVE  x % M = x + 2 * M
OBVIOUS

LEMMA ModShift ==
  ASSUME NEW M \in Nat, M > 0, NEW x \in Int, -M <= x, x < 2 * M
  PROVE  (x - M) % M = x % M
<1>1. CASE x < 0
  BY <1>1, ModUnder, ModFarUnder
<1>2. CASE 0 <= x /\ x < M
  BY <1>2, ModLow, ModUnder
<1>3. CASE M <= x
  BY <1>3, ModLow, ModOver
<1>. QED BY <1>1, <1>2, <1>3

(* The stamp of an event that waits for another cycle stays true.          *)
LEMMA NextStamp ==
  ASSUME frame \in 0 .. Modulus - 1, NEW k \in Int, -Modulus <= k, k <= Modulus
  PROVE  (((frame + Frames) % Modulus) + (k - Frames)) % Modulus = (frame + k) % Modulus
<1>1. /\ Frames \in Nat /\ Modulus \in Nat /\ Modulus > 3 * Frames
      /\ frame \in Int /\ 0 <= frame /\ frame < Modulus
  <2>1. 0 \in 0 .. MaxCycles
    BY MidiOutAssumption
  <2>. QED BY <2>1, Sizes
<1>. DEFINE f == (frame + Frames) % Modulus
            x == frame + k
<1>2. CASE frame + Frames < Modulus
  <2>1. f = frame + Frames
    BY <1>1, <1>2, ModLow
  <2>2. f + (k - Frames) = x
    BY <1>1, <2>1
  <2>. QED BY <2>2
<1>3. CASE frame + Frames >= Modulus
  <2>1. f = frame + Frames - Modulus
    BY <1>1, <1>3, ModOver
  <2>2. f + (k - Frames) = x - Modulus
    BY <1>1, <2>1
  <2>3. x \in Int /\ Modulus > 0 /\ -Modulus <= x /\ x < 2 * Modulus
    BY <1>1
  <2>. HIDE DEF x
  <2>4. (x - Modulus) % Modulus = x % Modulus
    BY <1>1, <2>3, ModShift
  <2>5. (f + (k - Frames)) % Modulus = (x - Modulus) % Modulus
    BY <2>2
  <2>. QED BY <2>4, <2>5 DEF x
<1>. QED BY <1>1, <1>2, <1>3

LEMMA InitHolds ==
  ASSUME Init
  PROVE  IInv
<1>1. /\ Frames \in Nat /\ Frames > 0 /\ Modulus \in Nat /\ Modulus > 3 * Frames
      /\ Capacity \in Nat /\ 0 \in 0 .. MaxCycles
  <2>1. 0 \in 0 .. MaxCycles
    BY MidiOutAssumption
  <2>. QED BY <2>1, Sizes
<1>2. frame \in 0 .. Modulus - 1
  BY <1>1 DEF Init
<1>3. /\ elapsed \in 0 .. Frames - 1 /\ cycle \in 0 .. MaxCycles
      /\ pc \in {"run", "out", "end"} /\ ring = <<>> /\ written = <<>> /\ Len(ring) = 0
  BY <1>1 DEF Init
<1>4. Types
  <2>1. skipped \in BOOLEAN
    BY DEF Init
  <2>. QED BY <1>1, <1>2, <1>3, <2>1 DEF Types
<1>. QED BY <1>3, <1>4 DEF IInv, TimeInv, Sorted, Prompt, OneCycleLate

(* The plugin hands over an event, or finds no room for it.                *)
LEMMA QueueStep ==
  ASSUME IInv, Queue
  PROVE  IInv'
<1>1. PICK delta \in 0 .. Frames - 1, e \in elapsed .. Frames - 1 :
        /\ InOrder(e + delta)
        /\ elapsed' = e
        /\ ring' = IF Len(ring) = Capacity THEN ring
                   ELSE Append(ring, [time |-> Stamp(e + delta), due |-> e + delta, age |-> 0])
  BY DEF Queue
<1>2. pc = "run" /\ UNCHANGED <<frame, pc, written, cycle, skipped>>
  BY DEF Queue
<1>. DEFINE due == e + delta
            new == [time |-> Stamp(due), due |-> due, age |-> 0]
<1>3. /\ Frames \in Nat /\ Frames > 0 /\ Modulus \in Nat /\ Modulus > 0
      /\ Capacity \in Nat /\ 0 \in 0 .. MaxCycles
      /\ elapsed \in 0 .. Frames - 1 /\ frame \in 0 .. Modulus - 1
  <2>1. 0 \in 0 .. MaxCycles
    BY MidiOutAssumption
  <2>2. /\ Frames \in Nat /\ Frames > 0 /\ Modulus \in Nat /\ Modulus > 3 * Frames
        /\ Capacity \in Nat
    BY <2>1, Sizes
  <2>3. elapsed \in 0 .. Frames - 1 /\ frame \in 0 .. Modulus - 1
    BY DEF IInv, Types
  <2>. QED BY <2>1, <2>2, <2>3
<1>4. due \in 0 .. 2 * Frames - 2 /\ elapsed' \in 0 .. Frames - 1
  BY <1>1, <1>3
<1>5. new \in Event /\ new.age = 0 /\ new.due = due
      /\ Place(new) = due /\ new.time = (frame + Place(new)) % Modulus
  <2>1. Stamp(due) = (frame + due) % Modulus /\ Stamp(due) \in 0 .. Modulus - 1
    BY <1>3, <1>4, ModIn DEF Stamp
  <2>2. 0 * Frames = 0
    BY <1>3
  <2>. HIDE DEF due
  <2>3. new \in Event /\ new.age = 0 /\ new.due = due /\ new.time = Stamp(due)
    BY <1>3, <1>4, <2>1 DEF Event
  <2>. QED BY <1>4, <2>1, <2>2, <2>3 DEF Place
<1>6. InOrder(due)
  BY <1>1
<1>. HIDE DEF due, new
<1>7. CASE ring' = ring
  BY <1>2, <1>4, <1>7 DEF IInv, Types, TimeInv, Sorted, Prompt, Place, OneCycleLate
<1>8. CASE ring' = Append(ring, new) /\ Len(ring) # Capacity
  <2>1. /\ ring \in Seq(Event) /\ Len(ring) \in Nat /\ Len(ring) < Capacity
        /\ cycle \in 0 .. MaxCycles
    BY <1>3, <1>8 DEF IInv, Types
  <2>2. /\ ring' \in Seq(Event) /\ Len(ring') = Len(ring) + 1
        /\ \A i \in 1 .. Len(ring) : ring'[i] = ring[i]
        /\ ring'[Len(ring) + 1] = new
    BY <1>5, <1>8, <2>1
  <2>3. Types'
    BY <1>2, <1>3, <1>4, <2>1, <2>2 DEF IInv, Types
  <2>4. TimeInv'
    <3>1. \A m : Place(m)' = Place(m)
      BY DEF Place
    <3>. QED BY <1>2, <1>5, <2>1, <2>2 DEF IInv, TimeInv, Place
  <2>5. Sorted'
    <3>1. ASSUME NEW i \in 1 .. Len(ring) PROVE Behind(ring[i], new)
      <4>1. PICK l : l = ring[Len(ring)]
        OBVIOUS
      <4>2. l \in Event /\ ring[i] \in Event /\ Len(ring) \in 1 .. Len(ring) /\ ring # <<>>
        BY <2>1, <4>1
      <4>3. l.age # 0 \/ l.due <= due
        BY <1>6, <4>1, <4>2 DEF InOrder
      <4>4. i = Len(ring) \/ Behind(ring[i], l)
        BY <2>1, <4>1, <4>2 DEF IInv, Sorted
      <4>5. i = Len(ring) => ring[i] = l
        BY <4>1
      <4>6. /\ l.age \in 0 .. MaxCycles /\ ring[i].age \in 0 .. MaxCycles
            /\ l.due \in Int /\ ring[i].due \in Int
        BY <4>2 DEF Event
      <4>. QED BY <1>3, <1>4, <1>5, <4>3, <4>4, <4>5, <4>6 DEF Behind
    <3>2. ASSUME NEW i \in 1 .. Len(ring'), NEW j \in 1 .. Len(ring'), i < j
          PROVE  Behind(ring'[i], ring'[j])
      <4>1. CASE j = Len(ring) + 1
        BY <2>1, <2>2, <3>1, <3>2, <4>1
      <4>2. CASE j # Len(ring) + 1
        BY <2>1, <2>2, <3>2, <4>2 DEF IInv, Sorted
      <4>. QED BY <4>1, <4>2
    <3>. QED BY <3>2 DEF Sorted, Behind
  <2>6. Prompt'
    <3>1. ASSUME ~skipped, NEW i \in 1 .. Len(ring') PROVE Place(ring'[i]) >= -Frames
      <4>1. CASE i = Len(ring) + 1
        BY <1>3, <1>4, <1>5, <2>2, <4>1
      <4>2. CASE i # Len(ring) + 1
        BY <1>2, <2>1, <2>2, <3>1, <4>2 DEF IInv, Prompt
      <4>. QED BY <4>1, <4>2
    <3>. QED BY <1>2, <3>1 DEF Prompt, Place
  <2>7. OneCycleLate'
    BY <1>2 DEF IInv, OneCycleLate
  <2>. QED BY <2>3, <2>4, <2>5, <2>6, <2>7 DEF IInv
<1>. QED BY <1>1, <1>7, <1>8 DEF due, new

LEMMA RunStep ==
  ASSUME IInv, Run
  PROVE  IInv'
<1>1. /\ pc = "run" /\ pc' = "out"
      /\ UNCHANGED <<frame, elapsed, ring, written, cycle, skipped>>
  BY DEF Run
<1>. QED BY <1>1 DEF IInv, Types, TimeInv, Sorted, Prompt, Place, OneCycleLate

(* The head of the ring is written, or refused.                            *)
LEMMA WriteStep ==
  ASSUME IInv, Write
  PROVE  IInv'
<1>1. /\ pc = "out" /\ ring # <<>> /\ ~Later(ring[1])
      /\ ring' = Tail(ring)
      /\ \/ written' = written
         \/ written' = Append(written, [offset |-> Offset(ring[1]), due |-> ring[1].due,
                                        age |-> ring[1].age])
      /\ UNCHANGED <<frame, elapsed, pc, cycle, skipped>>
  BY DEF Write, HeadDue
<1>2. ring \in Seq(Event) /\ Len(ring) \in Nat /\ Len(ring) <= Capacity
  BY DEF IInv, Types
<1>3. /\ ring' \in Seq(Event) /\ Len(ring') = Len(ring) - 1
      /\ \A i \in 1 .. Len(ring') : ring'[i] = ring[i + 1] /\ i + 1 \in 1 .. Len(ring)
  BY <1>1, <1>2
<1>4. 1 \in 1 .. Len(ring) /\ ring[1] \in Event /\ Capacity \in Nat
  BY <1>1, <1>2, MidiOutAssumption
<1>. DEFINE m == ring[1]
            w == [offset |-> Offset(m), due |-> m.due, age |-> m.age]
<1>5. /\ Offset(m) \in 0 .. Frames - 1 /\ m.due \in Int /\ m.age \in Int
      /\ m.age * Frames + Offset(m) = m.due + Frames
  <2>1. m.time = (frame + Place(m)) % Modulus /\ frame \in 0 .. Modulus - 1
    BY <1>4 DEF IInv, TimeInv, Types
  <2>2. Offset(m) = Place(m) + Frames /\ Place(m) >= -Frames /\ Place(m) < 0
    BY <1>1, <1>4, <2>1, OffsetIsPlace
  <2>3. m.due \in 0 .. 2 * Frames - 2 /\ m.age \in 0 .. MaxCycles
    BY <1>4 DEF Event
  <2>. DEFINE P == m.age * Frames
  <2>4. P \in Nat /\ Frames \in Nat
    BY <2>3, Sizes
  <2>5. Place(m) = m.due - P
    BY DEF Place
  <2>. HIDE DEF P
  <2>6. Offset(m) \in 0 .. Frames - 1 /\ P + Offset(m) = m.due + Frames
    BY <2>2, <2>3, <2>4, <2>5
  <2>. QED BY <2>3, <2>6 DEF P, Event
<1>6. w \in [offset : 0 .. Frames - 1, due : Int, age : Int]
      /\ w.offset = Offset(m) /\ w.due = m.due /\ w.age = m.age
  BY <1>5
<1>7. /\ written' \in Seq([offset : 0 .. Frames - 1, due : Int, age : Int])
      /\ OneCycleLate'
  <2>1. written \in Seq([offset : 0 .. Frames - 1, due : Int, age : Int])
    BY DEF IInv, Types
  <2>2. CASE written' = written
    BY <2>1, <2>2 DEF IInv, OneCycleLate
  <2>3. CASE written' = Append(written, w)
    <3>. HIDE DEF w
    <3>1. /\ written' \in Seq([offset : 0 .. Frames - 1, due : Int, age : Int])
          /\ DOMAIN written' = 1 .. Len(written) + 1 /\ Len(written) \in Nat
          /\ DOMAIN written = 1 .. Len(written)
          /\ \A i \in 1 .. Len(written) : written'[i] = written[i]
          /\ written'[Len(written) + 1] = w
      BY <1>6, <2>1, <2>3
    <3>2. w.age * Frames + w.offset = w.due + Frames
      BY <1>5, <1>6
    <3>3. ASSUME NEW i \in DOMAIN written'
          PROVE  written'[i].age * Frames + written'[i].offset = written'[i].due + Frames
      <4>1. CASE i = Len(written) + 1
        BY <3>1, <3>2, <4>1
      <4>2. CASE i \in 1 .. Len(written)
        BY <3>1, <4>2 DEF IInv, OneCycleLate
      <4>. QED BY <3>1, <4>1, <4>2
    <3>. QED BY <3>1, <3>3 DEF OneCycleLate
  <2>. QED BY <1>1, <2>2, <2>3
<1>8. Types'
  BY <1>1, <1>2, <1>3, <1>4, <1>7 DEF IInv, Types
<1>9. TimeInv'
  BY <1>1, <1>3 DEF IInv, TimeInv, Place
<1>10. Sorted'
  <2>1. ASSUME NEW i \in 1 .. Len(ring'), NEW j \in 1 .. Len(ring'), i < j
        PROVE  Behind(ring'[i], ring'[j])
    BY <1>2, <1>3, <2>1 DEF IInv, Sorted
  <2>. QED BY <2>1 DEF Sorted, Behind
<1>11. Prompt'
  BY <1>1, <1>3 DEF IInv, Prompt, Place
<1>. QED BY <1>7, <1>8, <1>9, <1>10, <1>11 DEF IInv

(* The cycle's output is done: what stays is due in the next, as the head  *)
(* of the ring is the first.                                               *)
LEMMA WrittenStep ==
  ASSUME IInv, Written
  PROVE  IInv'
<1>1. /\ pc = "out" /\ pc' = "end" /\ ~HeadDue
      /\ UNCHANGED <<frame, elapsed, ring, written, cycle, skipped>>
  BY DEF Written
<1>2. ASSUME ~skipped, NEW i \in 1 .. Len(ring) PROVE Place(ring[i]) >= 0
  <2>. DEFINE m == ring[1]
              l == ring[i]
  <2>1. ring \in Seq(Event) /\ Len(ring) \in Nat /\ ring # <<>>
    BY <1>2 DEF IInv, Types
  <2>2. 1 \in 1 .. Len(ring) /\ m \in Event /\ l \in Event /\ m = Head(ring)
    BY <1>2, <2>1
  <2>3. Place(m) >= -Frames /\ Place(l) >= -Frames
    BY <1>1, <1>2, <2>2 DEF IInv, Prompt
  <2>4. Later(m)
    BY <1>1, <2>1, <2>2 DEF HeadDue
  <2>5. m.time = (frame + Place(m)) % Modulus /\ frame \in 0 .. Modulus - 1
    BY <2>2 DEF IInv, TimeInv, Types
  <2>6. Place(m) \in Int /\ Place(l) \in Int
    BY <2>2, PlaceRange
  <2>7. Place(m) >= 0
    BY <2>2, <2>3, <2>4, <2>5, <2>6, OffsetIsPlace
  <2>8. i = 1 \/ Behind(m, l)
    BY <1>2, <2>1 DEF IInv, Sorted
  <2>9. CASE Behind(m, l)
    <3>1. /\ m.due \in 0 .. 2 * Frames - 2 /\ m.age \in 0 .. MaxCycles
          /\ l.due \in 0 .. 2 * Frames - 2 /\ l.age \in 0 .. MaxCycles
      BY <2>2 DEF Event
    <3>. DEFINE P == m.age * Frames
                Q == l.age * Frames
    <3>2. /\ P \in Nat /\ Q \in Nat /\ Frames \in Nat /\ Frames > 0
          /\ m.age >= 2 => P >= 2 * Frames
      BY <3>1, Sizes
    <3>3. Place(m) = m.due - P /\ Place(l) = l.due - Q /\ (m.age = l.age => P = Q)
      BY DEF Place
    <3>4. l.age = 0 => Q = 0
      BY <3>2
    <3>. HIDE DEF P, Q
    <3>5. CASE m.age = l.age /\ m.due <= l.due
      BY <2>7, <3>1, <3>2, <3>3, <3>5
    <3>6. CASE m.age > l.age /\ l.age = 0
      BY <3>1, <3>2, <3>3, <3>4, <3>6
    <3>7. CASE m.age > l.age /\ l.age >= 1
      BY <2>7, <3>1, <3>2, <3>3, <3>7
    <3>. QED BY <2>9, <3>1, <3>5, <3>6, <3>7 DEF Behind
  <2>. QED BY <2>7, <2>8, <2>9
<1>3. Prompt'
  BY <1>1, <1>2 DEF Prompt, Place
<1>. QED BY <1>1, <1>3 DEF IInv, Types, TimeInv, Sorted, Place, OneCycleLate

(* The next cycle, in which there is an output or not.                     *)
LEMMA CycleStep ==
  ASSUME IInv, Cycle \/ Skip
  PROVE  IInv'
<1>1. /\ pc = "end" /\ pc' \in {"run", "end"}
      /\ cycle < MaxCycles /\ cycle' = cycle + 1
      /\ frame' = (frame + Frames) % Modulus
      /\ ring' = [i \in DOMAIN ring |-> [ring[i] EXCEPT !.age = @ + 1]]
      /\ elapsed' = 0 /\ written' = <<>>
  BY DEF Cycle, Skip, NextCycle
<1>2. /\ skipped' \in BOOLEAN
      /\ ~skipped' => ~skipped /\ (pc' = "run" \/ ring = <<>>)
  BY DEF Cycle, Skip, NextCycle, IInv, Types
<1>3. /\ Frames \in Nat /\ Frames > 0 /\ Modulus \in Nat /\ Modulus > 0
      /\ MaxCycles \in Nat
  <2>1. 0 \in 0 .. MaxCycles /\ MaxCycles \in Nat
    BY MidiOutAssumption
  <2>2. Frames \in Nat /\ Frames > 0 /\ Modulus \in Nat /\ Modulus > 3 * Frames
    BY <2>1, Sizes
  <2>. QED BY <2>1, <2>2
<1>4. /\ ring \in Seq(Event) /\ Len(ring) \in Nat /\ Len(ring) <= Capacity
      /\ cycle \in 0 .. MaxCycles /\ frame \in 0 .. Modulus - 1
  BY DEF IInv, Types
<1>5. DOMAIN ring = 1 .. Len(ring)
  BY <1>4
<1>6. ASSUME NEW i \in 1 .. Len(ring)
      PROVE  /\ ring[i] \in Event /\ ring'[i] \in Event
             /\ ring'[i].age = ring[i].age + 1 /\ ring[i].age \in 0 .. cycle
             /\ ring'[i].time = ring[i].time /\ ring'[i].due = ring[i].due
             /\ Place(ring'[i]) = Place(ring[i]) - Frames
  <2>. DEFINE m == ring[i]
              l == [m EXCEPT !.age = @ + 1]
  <2>1. ring'[i] = l
    BY <1>1, <1>5
  <2>2. m \in Event
    BY <1>4
  <2>3. m.age \in 0 .. cycle /\ m.due \in Int /\ m.age + 1 \in 0 .. MaxCycles
    <3>1. m.age <= cycle
      BY DEF IInv, TimeInv
    <3>2. m.age \in 0 .. MaxCycles /\ m.due \in 0 .. 2 * Frames - 2
      BY <2>2 DEF Event
    <3>3. cycle \in Nat /\ cycle + 1 <= MaxCycles /\ MaxCycles \in Nat /\ Frames \in Nat
      BY <1>1, <1>3, <1>4
    <3>4. \A a \in 0 .. MaxCycles : a <= cycle => a \in 0 .. cycle /\ a + 1 \in 0 .. MaxCycles
      BY <3>3
    <3>5. \A d \in 0 .. 2 * Frames - 2 : d \in Int
      BY <3>3
    <3>. HIDE DEF m, l
    <3>. QED BY <3>1, <3>2, <3>4, <3>5
  <2>4. l \in Event /\ l.age = m.age + 1 /\ l.time = m.time /\ l.due = m.due
    BY <2>2, <2>3 DEF Event
  <2>5. (m.age + 1) * Frames = m.age * Frames + Frames /\ m.age * Frames \in Nat
    BY <1>3, <1>4, <2>3, Sizes
  <2>. HIDE DEF l
  <2>6. Place(l) = Place(m) - Frames
    BY <1>3, <2>3, <2>4, <2>5 DEF Place
  <2>. QED BY <2>1, <2>2, <2>3, <2>4, <2>6
<1>7. /\ DOMAIN ring' = 1 .. Len(ring) /\ ring' \in Seq(Event) /\ Len(ring') = Len(ring)
  <2>1. DOMAIN ring' = 1 .. Len(ring) /\ ring' = [i \in 1 .. Len(ring) |-> ring'[i]]
    BY <1>1, <1>5
  <2>2. \A i \in 1 .. Len(ring) : ring'[i] \in Event
    BY <1>6
  <2>3. ring' \in [1 .. Len(ring) -> Event]
    BY <2>1, <2>2
  <2>. QED BY <1>4, <2>1, <2>3
<1>8. Types'
  <2>1. frame' \in 0 .. Modulus - 1
    BY <1>1, <1>3, <1>4, ModIn
  <2>2. cycle' \in 0 .. MaxCycles /\ elapsed' \in 0 .. Frames - 1
    BY <1>1, <1>3, <1>4
  <2>. QED BY <1>1, <1>2, <1>4, <1>7, <2>1, <2>2 DEF Types
<1>9. TimeInv'
  <2>1. ASSUME NEW i \in 1 .. Len(ring')
        PROVE  /\ ring'[i].time = (frame' + Place(ring'[i])) % Modulus
               /\ ring'[i].age <= cycle'
    <3>1. ring[i].time = (frame + Place(ring[i])) % Modulus
      BY <1>7 DEF IInv, TimeInv
    <3>2. /\ Place(ring[i]) \in Int
          /\ -Modulus <= Place(ring[i]) /\ Place(ring[i]) <= Modulus
      <4>1. Modulus > 3 * Frames
        BY <1>3, Sizes, MidiOutAssumption
      <4>. QED BY ONLY <1>3, <1>6, <1>7, <4>1, PlaceRange
    <3>3. (frame' + (Place(ring[i]) - Frames)) % Modulus = ring[i].time
      BY <1>1, <1>4, <3>1, <3>2, NextStamp
    <3>. QED BY <1>1, <1>4, <1>6, <1>7, <3>3
  <2>. QED BY <2>1 DEF TimeInv, Place
<1>10. Sorted'
  <2>1. ASSUME NEW i \in 1 .. Len(ring'), NEW j \in 1 .. Len(ring'), i < j
        PROVE  Behind(ring'[i], ring'[j])
    <3>1. Behind(ring[i], ring[j])
      BY <1>7, <2>1 DEF IInv, Sorted
    <3>. QED BY <1>4, <1>6, <1>7, <3>1 DEF Behind
  <2>. QED BY <2>1 DEF Sorted, Behind
<1>11. Prompt'
  <2>1. ASSUME ~skipped', NEW i \in 1 .. Len(ring') PROVE Place(ring'[i]) >= -Frames
    <3>1. Place(ring[i]) >= 0
      BY <1>1, <1>2, <1>7, <2>1 DEF IInv, Prompt
    <3>2. Place(ring[i]) \in Int
      BY <1>6, <1>7, PlaceRange
    <3>. QED BY <1>3, <1>6, <1>7, <3>1, <3>2
  <2>2. ~skipped' => pc' # "end" \/ Len(ring') = 0
    BY <1>2, <1>7
  <2>. QED BY <1>4, <1>7, <2>1, <2>2 DEF Prompt, Place
<1>12. OneCycleLate'
  BY <1>1 DEF OneCycleLate
<1>. QED BY <1>8, <1>9, <1>10, <1>11, <1>12 DEF IInv

(* The inductive invariant: the stamp of each event says where it is due,  *)
(* the ring is sorted, and nothing that was due has stayed behind.         *)
THEOREM OutInvariant == Spec => []IInv
<1>1. Init => IInv
  BY InitHolds
<1>2. IInv /\ [Next]_vars => IInv'
  <2>. SUFFICES ASSUME IInv, [Next]_vars PROVE IInv'
    OBVIOUS
  <2>1. CASE UNCHANGED vars
    BY <2>1 DEF vars, IInv, Types, TimeInv, Sorted, Prompt, Place, OneCycleLate
  <2>2. CASE Next
    BY <2>2, QueueStep, RunStep, WriteStep, WrittenStep, CycleStep DEF Next
  <2>. QED BY <2>1, <2>2
<1>. QED BY <1>1, <1>2, PTL DEF Spec

(* Whatever the plugin hands over leaves exactly one cycle after it was    *)
(* due (process_midi_output), wherever the frame time wraps.               *)
THEOREM LeavesOneCycleLate == Spec => []OneCycleLate
<1>1. IInv => OneCycleLate
  BY DEF IInv
<1>. QED BY <1>1, OutInvariant, PTL

(* After the output of a cycle only those events stay that belong into the *)
(* next, unless a cycle was passed over.                                   *)
THEOREM NoEventStays == Spec => []NoneStuck
<1>1. IInv => NoneStuck
  <2>. SUFFICES ASSUME IInv PROVE NoneStuck
    OBVIOUS
  <2>1. TypeOK
    <3>1. \A i \in DOMAIN ring : ring[i].time \in 0 .. Modulus - 1
      <4>1. \A i \in DOMAIN ring : ring[i] \in Event
        BY DEF IInv, Types
      <4>. QED BY <4>1 DEF Event
    <3>2. \A i \in DOMAIN written : written[i].offset \in 0 .. Frames - 1
      <4>. DEFINE W == [offset : 0 .. Frames - 1, due : Int, age : Int]
      <4>1. written \in Seq(W)
        BY DEF IInv, Types
      <4>2. \A w \in W : w.offset \in 0 .. Frames - 1
        OBVIOUS
      <4>. HIDE DEF W
      <4>. QED BY <4>1, <4>2
    <3>. QED BY <3>1, <3>2 DEF IInv, Types, TypeOK
  <2>2. ASSUME pc = "end", ~skipped, NEW i \in DOMAIN ring
        PROVE  ring[i].due >= ring[i].age * Frames
    <3>1. i \in 1 .. Len(ring) /\ ring[i] \in Event
      BY DEF IInv, Types
    <3>2. ring[i].due - ring[i].age * Frames >= 0
      BY <2>2, <3>1 DEF IInv, Prompt, Place
    <3>3. ring[i].due \in Int /\ ring[i].age * Frames \in Nat
      BY <3>1, Sizes DEF Event
    <3>. QED BY <3>2, <3>3
  <2>. QED BY <2>1, <2>2 DEF NoneStuck
<1>. QED BY <1>1, OutInvariant, PTL

-----------------------------------------------------------------------------
(* Part 2: MidiIn.                                                         *)

(* The selection that filter or field x is set for by the only writer w,   *)
(* and the transposition.                                                  *)
ChannelFor(w, x) ==
  IF writing[w].op = "channel" /\ x \notin writing[w].todo THEN writing[w].arg ELSE selection

SemitonesFor(w, x) ==
  IF writing[w].op = "semitones" /\ x \notin writing[w].todo THEN writing[w].arg ELSE semitones

WritingInv(w) ==
  /\ writing[w].op = "nothing" => writing[w] = Nothing
  /\ writing[w].op = "channel" =>
       writing[w].arg \in 0 .. 17 /\ writing[w].todo \subseteq OneChannel \cup {"channel"}
  /\ writing[w].op = "semitones" => writing[w].todo \subseteq {"transposition", "rvalue"}

(* How far the setting in hand has come.                                   *)
ChainInv(w) ==
  /\ \A f \in OneChannel :
       chain[f] = [NewChain[f] EXCEPT
                     !.enabled = Switched(f, ChannelFor(w, f)),
                     !.channel = IF f = "redirect" THEN ChannelFor(w, "channel") ELSE @]
  /\ chain["transposition"] = [NewChain["transposition"] EXCEPT
                                 !.enabled = SemitonesFor(w, "transposition") # 0,
                                 !.rvalue = SemitonesFor(w, "rvalue")]

(* A message in the walk has been told of everything that may be in force. *)
SeenInv(w) ==
  rt = "walk" =>
    /\ selection \in seen /\ semitones \in seenT
    /\ writing[w].op = "channel" => writing[w].arg \in seen
    /\ writing[w].op = "semitones" => writing[w].arg \in seenT

(* The original may have become m by transposition.                       *)
Turned(m) ==
  \E low, high, added \in seenT : Transposed(original, low, high, added) = {m}

(* What the walk has made of m, the transposed message, and what it has    *)
(* learned of the selection, for each of the changes of one write.         *)
Passing(m) ==
  /\ seen \subseteq {0, 17} => msg = m /\ (at = 6 => 0 \in seen)
  /\ seen \subseteq {1, 17} =>
       msg = m /\ at # 6 /\ (at = 5 => \E c \in seen : c # m.channel)
  /\ seen \subseteq 2 .. 16 =>
       /\ at = 2 => msg = m
       /\ at = 3 => msg = m /\ m.channel # 1
       /\ at = 4 => \E c \in seen : IF c = m.channel THEN msg = [m EXCEPT !.channel = 1]
                                     ELSE msg = m /\ m.channel # 1
       /\ at = 5 => \E c \in seen : c # m.channel
       /\ at # 6

(* What reading one filter has told so far.                                *)
Reading ==
  /\ at = 1 => step \in {"enabled", "channel", "rule", "high", "add"}
  /\ at = 1 /\ step \in {"high", "add"} =>
       original.type = "NOTE" /\ \E low \in seenT : original.d1 + low >= 0
  /\ at = 1 /\ step = "add" => \E high \in seenT : original.d1 + high <= 127
  /\ at # 1 => step \in {"enabled", "channel", "compare", "rule"}
  /\ at \in {2, 3} /\ step # "enabled" => \E c \in seen : c \in 2 .. 16
  /\ at = 4 /\ step # "enabled" => \E c \in seen : c \in 1 .. 16
  /\ at = 5 /\ step # "enabled" => \E c \in seen : c # 0
  /\ at \in {2, 4} /\ step = "rule" => msg.channel = 1
  /\ at = 3 /\ step = "rule" => \E d \in seen : d \in {0, msg.channel}
  /\ at = 5 => step # "compare"
  /\ at = 6 => step = "enabled"

WalkInv ==
  rt = "walk" =>
    /\ Reading
    /\ at = 1 => msg = original
    /\ at # 1 => \E m \in Copied : Turned(m) /\ Passing(m)

AsMeantInv == (\E W \in OneWrite : seen \subseteq W) => AsMeant

MidiInIInv(w) ==
  /\ MidiInTypeOK /\ WritingInv(w) /\ ChainInv(w) /\ SeenInv(w) /\ WalkInv /\ AsMeantInv

-----------------------------------------------------------------------------
LEMMA SelectionIn == ASSUME NEW n \in Nat PROVE Selection(n) \in 0 .. 17
<1>1. n % 256 \in 0 .. 255
  OBVIOUS
<1>. QED BY <1>1 DEF Selection

LEMMA SwitchedIn ==
  ASSUME NEW f \in OneChannel, NEW c \in 0 .. 17
  PROVE  Switched(f, c) \in BOOLEAN
<1>. USE DEF OneChannel
<1>1. CASE c = 0
  BY <1>1 DEF Switched
<1>2. CASE c = 1
  <2>1. CASE f \in {"accept", "drop_rest"}
    BY <1>2, <2>1 DEF Switched
  <2>2. CASE f \in {"drop_real_one", "redirect"}
    BY <1>2, <2>2 DEF Switched
  <2>. QED BY <2>1, <2>2
<1>3. CASE c = 17
  <2>1. CASE f = "drop_rest"
    BY <1>3, <2>1 DEF Switched
  <2>2. CASE f \in {"drop_real_one", "redirect", "accept"}
    BY <1>3, <2>2 DEF Switched
  <2>. QED BY <2>1, <2>2
<1>4. CASE c \in 2 .. 16
  <2>1. c # 0 /\ c # 1 /\ c # 17
    BY <1>4
  <2>. QED BY Zenon, <2>1 DEF Switched
<1>. QED BY <1>1, <1>2, <1>3, <1>4

LEMMA SwitchedOn ==
  ASSUME NEW f \in OneChannel, NEW c \in 0 .. 17
  PROVE  Switched(f, c) <=> \/ c \in 2 .. 16
                            \/ c = 1 /\ f \in {"accept", "drop_rest"}
                            \/ c = 17 /\ f = "drop_rest"
<1>1. CASE c \in {0} \cup 2 .. 16
  BY <1>1 DEF Switched
<1>2. CASE c = 1
  BY <1>2 DEF Switched
<1>3. CASE c = 17
  BY ONLY <1>3 DEF Switched
<1>. QED BY <1>1, <1>2, <1>3

LEMMA FilterEnabled ==
  ASSUME NEW g \in Filter, NEW b \in BOOLEAN
  PROVE  [g EXCEPT !.enabled = b] \in Filter
BY DEF Filter

LEMMA FilterChannel ==
  ASSUME NEW g \in Filter, NEW c \in 0 .. 17
  PROVE  [g EXCEPT !.channel = c] \in Filter
BY DEF Filter

LEMMA FilterValue ==
  ASSUME NEW g \in Filter, NEW s \in -128 .. 127
  PROVE  [g EXCEPT !.rvalue = s] \in Filter
BY DEF Filter

(* The five filters, one by one.                                           *)
LEMMA NewFilters ==
  /\ NewChain \in [Filters -> Filter]
  /\ NewChain["transposition"] = Rule("NOTE", 0, "TRANSPOSE", 0)
  /\ NewChain["drop_real_one"] = Rule("ALL", 1, "DROP_ALL", 0)
  /\ NewChain["redirect"] = Rule("ALL", 0, "CHANNEL_REDIRECT", 1)
  /\ NewChain["accept"] = Rule("ALL", 1, "ACCEPT", 1)
  /\ NewChain["drop_rest"] = Rule("ALL", 0, "DROP_ALL", 1)
BY DEF NewChain, Filters, OneChannel, Filter, Rule

LEMMA SwitchedToIn ==
  ASSUME NEW c \in 0 .. 17
  PROVE  /\ SwitchedTo(c) \in [Filters -> Filter]
         /\ SwitchedTo(c)["transposition"] = NewChain["transposition"]
         /\ \A f \in OneChannel :
              SwitchedTo(c)[f] = [NewChain[f] EXCEPT
                                    !.enabled = Switched(f, c),
                                    !.channel = IF f = "redirect" THEN c ELSE @]
<1>1. \A f \in OneChannel : f \in Filters /\ f # "transposition"
  BY DEF Filters, OneChannel
<1>2. "transposition" \in Filters
  BY DEF Filters
<1>3. ASSUME NEW f \in OneChannel
      PROVE  [NewChain[f] EXCEPT !.enabled = Switched(f, c),
                                 !.channel = IF f = "redirect" THEN c ELSE @] \in Filter
  <2>1. NewChain[f] \in Filter /\ Switched(f, c) \in BOOLEAN /\ NewChain[f].channel \in 0 .. 17
    BY <1>1, SwitchedIn, NewFilters DEF Filter
  <2>2. PICK b \in BOOLEAN : b = Switched(f, c)
    BY <2>1
  <2>3. PICK d \in 0 .. 17 : d = IF f = "redirect" THEN c ELSE NewChain[f].channel
    BY <2>1
  <2>4. PICK g \in Filter : g = [NewChain[f] EXCEPT !.enabled = b]
    BY <2>1, FilterEnabled
  <2>5. [g EXCEPT !.channel = d] \in Filter
    BY FilterChannel
  <2>6. g.channel = NewChain[f].channel
    BY <2>1, <2>4 DEF Filter
  <2>. QED BY <2>2, <2>3, <2>4, <2>5, <2>6
<1>4. \A f \in Filters : f = "transposition" \/ f \in OneChannel
  BY DEF Filters
<1>. QED BY <1>1, <1>2, <1>3, <1>4, NewFilters DEF SwitchedTo

(* What Init and the end of a setting say about the filters.               *)
LEMMA MidiInInitHolds == ASSUME NEW w, Writers = {w}, MidiInInit PROVE MidiInIInv(w)
<1>. USE DEF MidiInInit
<1>0. 0 \in 0 .. 17 /\ 0 \in -128 .. 127
  OBVIOUS
<1>1. MidiInTypeOK
  <2>1. chain \in [Filters -> Filter]
    BY <1>0, SwitchedToIn
  <2>2. Nothing \in [op : {"nothing", "channel", "semitones"}, arg : -128 .. 127,
                     todo : SUBSET Fields]
    BY DEF Nothing
  <2>3. Silent \in Message /\ Silent \in Copied
    BY DEF Silent, Message, Copied
  <2>. QED BY <1>0, <2>1, <2>2, <2>3 DEF MidiInTypeOK
<1>2. writing[w] = Nothing
  OBVIOUS
<1>3. WritingInv(w)
  BY <1>2 DEF WritingInv, Nothing
<1>4. /\ \A x : ChannelFor(w, x) = 0 /\ SemitonesFor(w, x) = 0
  BY <1>2 DEF ChannelFor, SemitonesFor, Nothing
<1>5. ChainInv(w)
  <2>1. chain["transposition"] = Rule("NOTE", 0, "TRANSPOSE", 0)
    BY <1>0, SwitchedToIn, NewFilters
  <2>2. chain["transposition"] = [NewChain["transposition"] EXCEPT
          !.enabled = SemitonesFor(w, "transposition") # 0, !.rvalue = SemitonesFor(w, "rvalue")]
    <3>1. (SemitonesFor(w, "transposition") # 0) = FALSE /\ SemitonesFor(w, "rvalue") = 0
      BY <1>4
    <3>2. [Rule("NOTE", 0, "TRANSPOSE", 0) EXCEPT !.enabled = FALSE, !.rvalue = 0]
            = Rule("NOTE", 0, "TRANSPOSE", 0)
      <4>1. ASSUME NEW g \in Filter, g.enabled = FALSE, g.rvalue = 0
            PROVE  [g EXCEPT !.enabled = FALSE, !.rvalue = 0] = g
        BY <4>1 DEF Filter
      <4>2. /\ Rule("NOTE", 0, "TRANSPOSE", 0) \in Filter
            /\ Rule("NOTE", 0, "TRANSPOSE", 0).enabled = FALSE
            /\ Rule("NOTE", 0, "TRANSPOSE", 0).rvalue = 0
        BY DEF Rule, Filter
      <4>. QED BY <4>1, <4>2
    <3>. QED BY <2>1, <3>1, <3>2, NewFilters
  <2>3. \A f \in OneChannel :
          SwitchedTo(0)[f] = [NewChain[f] EXCEPT
                                !.enabled = Switched(f, 0),
                                !.channel = IF f = "redirect" THEN 0 ELSE @]
    BY <1>0, SwitchedToIn
  <2>4. \A f \in OneChannel :
          chain[f] = [NewChain[f] EXCEPT
                        !.enabled = Switched(f, ChannelFor(w, f)),
                        !.channel = IF f = "redirect" THEN ChannelFor(w, "channel") ELSE @]
    BY <2>3, <1>4
  <2>. QED BY ONLY <2>2, <2>4 DEF ChainInv
<1>6. SeenInv(w) /\ WalkInv /\ AsMeantInv
  BY DEF SeenInv, WalkInv, AsMeantInv, AsMeant
<1>. QED BY <1>1, <1>3, <1>5, <1>6 DEF MidiInIInv

-----------------------------------------------------------------------------
(* Setting, while the message stays where it is.                           *)

(* What is known of the message stays true when more settings are seen.    *)
LEMMA MoreSeen ==
  ASSUME MidiInTypeOK, WalkInv, AsMeantInv, UNCHANGED <<rt, at, step, msg, original>>,
         seen \subseteq seen', seenT \subseteq seenT',
         rt # "walk" => UNCHANGED <<seen, seenT>>
  PROVE  WalkInv' /\ AsMeantInv'
<1>1. ASSUME NEW m, Passing(m) PROVE Passing(m)'
  BY <1>1 DEF Passing
<1>2. ASSUME NEW m, Turned(m) PROVE Turned(m)'
  BY <1>2 DEF Turned
<1>4. Reading => Reading'
  BY DEF Reading
<1>5. WalkInv'
  <2>. SUFFICES ASSUME rt = "walk" PROVE WalkInv'
    BY DEF WalkInv
  <2>1. CASE at = 1
    BY <1>4, <2>1 DEF WalkInv
  <2>2. CASE at # 1
    <3>1. PICK m \in Copied : Turned(m) /\ Passing(m)
      BY <2>2 DEF WalkInv
    <3>2. Turned(m)' /\ Passing(m)' /\ Reading'
      BY <1>1, <1>2, <1>4, <3>1 DEF WalkInv
    <3>. QED BY <2>2, <3>2 DEF WalkInv
  <2>. QED BY <2>1, <2>2
<1>3. AsMeantInv'
  <2>1. CASE rt = "walk"
    BY <2>1 DEF AsMeantInv, AsMeant
  <2>2. CASE rt # "walk"
    BY <2>2 DEF AsMeantInv, AsMeant, Became
  <2>. QED BY <2>1, <2>2
<1>. QED BY <1>3, <1>5

LEMMA WritingType ==
  ASSUME NEW w, Writers = {w}, MidiInTypeOK
  PROVE  /\ DOMAIN writing = {w}
         /\ writing[w].op \in {"nothing", "channel", "semitones"}
         /\ writing[w].arg \in -128 .. 127 /\ writing[w].todo \subseteq Fields
<1>. DEFINE T == [op : {"nothing", "channel", "semitones"}, arg : -128 .. 127, todo : SUBSET Fields]
<1>1. writing \in [{w} -> T]
  BY DEF MidiInTypeOK
<1>2. \A x \in T : /\ x.op \in {"nothing", "channel", "semitones"}
                   /\ x.arg \in -128 .. 127 /\ x.todo \subseteq Fields
  OBVIOUS
<1>. HIDE DEF T
<1>3. writing[w] \in T
  BY ONLY <1>1
<1>. QED BY ONLY <1>1, <1>2, <1>3

LEMMA ChainKept ==
  ASSUME NEW w, ChainInv(w), chain' = chain,
         \A x \in OneChannel \cup {"channel"} : ChannelFor(w, x)' = ChannelFor(w, x),
         \A x \in {"transposition", "rvalue"} : SemitonesFor(w, x)' = SemitonesFor(w, x)
  PROVE  ChainInv(w)'
<1>1. ASSUME NEW f \in OneChannel
      PROVE  chain'[f] = [NewChain[f] EXCEPT
                            !.enabled = Switched(f, ChannelFor(w, f)'),
                            !.channel = IF f = "redirect" THEN ChannelFor(w, "channel")' ELSE @]
  <2>1. ChannelFor(w, f)' = ChannelFor(w, f) /\ ChannelFor(w, "channel")' = ChannelFor(w, "channel")
    BY <1>1
  <2>2. chain[f] = [NewChain[f] EXCEPT
                      !.enabled = Switched(f, ChannelFor(w, f)),
                      !.channel = IF f = "redirect" THEN ChannelFor(w, "channel") ELSE @]
    BY <1>1 DEF ChainInv
  <2>. QED BY <2>1, <2>2
<1>2. chain'["transposition"] = [NewChain["transposition"] EXCEPT
                                 !.enabled = SemitonesFor(w, "transposition")' # 0,
                                 !.rvalue = SemitonesFor(w, "rvalue")']
  BY DEF ChainInv
<1>. QED BY <1>1, <1>2 DEF ChainInv

LEMMA BeginChannelStep ==
  ASSUME NEW w, Writers = {w}, MidiInIInv(w), NEW n \in Nat, BeginChannel(w, n)
  PROVE  MidiInIInv(w)'
<1>. USE DEF MidiInIInv, BeginChannel
<1>1. Selection(n) \in 0 .. 17 /\ Selection(n) \in -128 .. 127
  BY SelectionIn
<1>2. PICK c \in 0 .. 17 : c = Selection(n) /\ c \in -128 .. 127
  BY <1>1
<1>3. writing'[w] = [op |-> "channel", arg |-> c, todo |-> OneChannel \cup {"channel"}]
  BY <1>2, WritingType
<1>4. seen' = Noticed(seen, c)
  BY <1>2
<1>5. seen \subseteq seen' /\ seen' \subseteq 0 .. 17 /\ (rt = "walk" => c \in seen')
  BY <1>2, <1>4 DEF Noticed, MidiInTypeOK
<1>6. MidiInTypeOK'
  <2>1. [op |-> "channel", arg |-> c, todo |-> OneChannel \cup {"channel"}]
          \in [op : {"nothing", "channel", "semitones"}, arg : -128 .. 127, todo : SUBSET Fields]
    BY <1>2 DEF Fields, Filters
  <2>2. writing' \in [Writers -> [op : {"nothing", "channel", "semitones"},
                                  arg : -128 .. 127, todo : SUBSET Fields]]
    BY <1>2, <2>1 DEF MidiInTypeOK
  <2>. QED BY <1>5, <2>2 DEF MidiInTypeOK
<1>7. WritingInv(w)'
  BY <1>3, <1>2 DEF WritingInv
<1>8. writing[w].op = "nothing"
  BY DEF Nothing
<1>9. ChainInv(w)'
  <2>1. \A x \in OneChannel \cup {"channel"} : ChannelFor(w, x)' = ChannelFor(w, x)
    BY <1>3, <1>8 DEF ChannelFor
  <2>2. \A x \in {"transposition", "rvalue"} : SemitonesFor(w, x)' = SemitonesFor(w, x)
    BY <1>3, <1>8 DEF SemitonesFor
  <2>. QED BY <2>1, <2>2, ChainKept
<1>10. SeenInv(w)'
  <2>1. writing'[w].op = "channel" /\ writing'[w].arg = c
    BY <1>3
  <2>2. rt = "walk" => selection \in seen /\ semitones \in seenT
    BY DEF SeenInv
  <2>. QED BY <1>5, <2>1, <2>2 DEF SeenInv
<1>11. WalkInv' /\ AsMeantInv'
  BY <1>5, <1>4, MoreSeen DEF Noticed
<1>. QED BY <1>6, <1>7, <1>9, <1>10, <1>11

LEMMA BeginSemitonesStep ==
  ASSUME NEW w, Writers = {w}, MidiInIInv(w), NEW s \in -128 .. 127, BeginSemitones(w, s)
  PROVE  MidiInIInv(w)'
<1>. USE DEF MidiInIInv, BeginSemitones
<1>3. writing'[w] = [op |-> "semitones", arg |-> s, todo |-> {"transposition", "rvalue"}]
  BY WritingType
<1>5. seenT \subseteq seenT' /\ seenT' \subseteq -128 .. 127 /\ (rt = "walk" => s \in seenT')
  BY DEF Noticed, MidiInTypeOK
<1>6. MidiInTypeOK'
  <2>1. [op |-> "semitones", arg |-> s, todo |-> {"transposition", "rvalue"}]
          \in [op : {"nothing", "channel", "semitones"}, arg : -128 .. 127, todo : SUBSET Fields]
    BY DEF Fields, Filters
  <2>2. writing' \in [Writers -> [op : {"nothing", "channel", "semitones"},
                                  arg : -128 .. 127, todo : SUBSET Fields]]
    BY <2>1 DEF MidiInTypeOK
  <2>. QED BY <1>5, <2>2 DEF MidiInTypeOK
<1>7. WritingInv(w)'
  BY <1>3 DEF WritingInv
<1>8. writing[w].op = "nothing"
  BY DEF Nothing
<1>9. ChainInv(w)'
  <2>1. \A x \in OneChannel \cup {"channel"} : ChannelFor(w, x)' = ChannelFor(w, x)
    BY <1>3, <1>8 DEF ChannelFor
  <2>2. \A x \in {"transposition", "rvalue"} : SemitonesFor(w, x)' = SemitonesFor(w, x)
    BY <1>3, <1>8 DEF SemitonesFor
  <2>. QED BY <2>1, <2>2, ChainKept
<1>10. SeenInv(w)'
  BY <1>3, <1>5 DEF SeenInv
<1>11. WalkInv' /\ AsMeantInv'
  BY <1>5, MoreSeen DEF Noticed
<1>. QED BY <1>6, <1>7, <1>9, <1>10, <1>11

(* Nothing more is seen, and only the filters and what is to do change.    *)
LEMMA FieldKeeps ==
  ASSUME NEW w, Writers = {w}, MidiInIInv(w), NEW x, FieldWritten(w, x),
         writing[w].op # "nothing",
         chain' \in [Filters -> Filter],
         UNCHANGED <<selection, semitones, rt, at, step, msg, original, seen, seenT>>
  PROVE  /\ MidiInTypeOK' /\ WritingInv(w)' /\ SeenInv(w)' /\ WalkInv' /\ AsMeantInv'
         /\ writing'[w].op = writing[w].op /\ writing'[w].arg = writing[w].arg
         /\ writing'[w].todo = writing[w].todo \ {x}
<1>. USE DEF MidiInIInv, FieldWritten
<1>1. /\ writing'[w].op = writing[w].op /\ writing'[w].arg = writing[w].arg
      /\ writing'[w].todo = writing[w].todo \ {x}
  BY DEF MidiInTypeOK
<1>2. writing' \in [Writers -> [op : {"nothing", "channel", "semitones"},
                                arg : -128 .. 127, todo : SUBSET Fields]]
  BY DEF MidiInTypeOK
<1>3. MidiInTypeOK'
  BY <1>2 DEF MidiInTypeOK
<1>4. WritingInv(w)'
  BY <1>1 DEF WritingInv
<1>5. SeenInv(w)'
  BY <1>1 DEF SeenInv
<1>6. WalkInv' /\ AsMeantInv'
  BY MoreSeen
<1>. QED BY <1>1, <1>3, <1>4, <1>5, <1>6

LEMMA WriteFlagStep ==
  ASSUME NEW w, Writers = {w}, MidiInIInv(w), NEW f \in OneChannel, WriteFlag(w, f)
  PROVE  MidiInIInv(w)'
<1>. USE DEF MidiInIInv, WriteFlag
<1>1. /\ writing[w].op = "channel" /\ f \in writing[w].todo
      /\ writing[w].arg \in 0 .. 17 /\ f \in Filters
  <2>1. writing[w].op # "nothing"
    BY DEF WritingInv, Nothing
  <2>2. writing[w].op # "semitones"
    BY DEF WritingInv, OneChannel
  <2>. QED BY <2>1, <2>2, WritingType DEF WritingInv, Filters
<1>2. PICK c \in 0 .. 17 : c = writing[w].arg
  BY <1>1
<1>3. Switched(f, c) \in BOOLEAN
  BY SwitchedIn
<1>4. /\ chain \in [Filters -> Filter] /\ chain[f] \in Filter
      /\ chain' = [chain EXCEPT ![f].enabled = Switched(f, c)]
  BY <1>1, <1>2 DEF MidiInTypeOK
<1>5. chain' \in [Filters -> Filter]
  <2>1. [chain[f] EXCEPT !.enabled = Switched(f, c)] \in Filter
    BY <1>3, <1>4, FilterEnabled
  <2>2. chain' = [chain EXCEPT ![f] = [chain[f] EXCEPT !.enabled = Switched(f, c)]]
    BY <1>4
  <2>. QED BY ONLY <1>4, <2>1, <2>2
<1>6. /\ MidiInTypeOK' /\ WritingInv(w)' /\ SeenInv(w)' /\ WalkInv' /\ AsMeantInv'
      /\ writing'[w].op = "channel" /\ writing'[w].arg = c
      /\ writing'[w].todo = writing[w].todo \ {f}
  BY <1>1, <1>2, <1>5, FieldKeeps
<1>7. \A x \in OneChannel \cup {"channel"} :
         ChannelFor(w, x)' = IF x = f THEN c ELSE ChannelFor(w, x)
  BY <1>1, <1>2, <1>6 DEF ChannelFor
<1>8. \A x \in {"transposition", "rvalue"} : SemitonesFor(w, x)' = SemitonesFor(w, x)
  BY <1>1, <1>6 DEF SemitonesFor
<1>9. ChainInv(w)'
  <2>1. ASSUME NEW g \in OneChannel
        PROVE  chain'[g] = [NewChain[g] EXCEPT
                              !.enabled = Switched(g, ChannelFor(w, g)'),
                              !.channel = IF g = "redirect" THEN ChannelFor(w, "channel")'
                                          ELSE @]
    <3>1. ChannelFor(w, "channel")' = ChannelFor(w, "channel")
      BY <1>7 DEF OneChannel
    <3>2. chain[g] = [NewChain[g] EXCEPT
                        !.enabled = Switched(g, ChannelFor(w, g)),
                        !.channel = IF g = "redirect" THEN ChannelFor(w, "channel") ELSE @]
      BY <2>1 DEF ChainInv
    <3>3. g \in Filters
      BY <2>1 DEF Filters
    <3>4. CASE g = f
      <4>1. ChannelFor(w, g)' = c
        BY <3>4, <1>7
      <4>2. chain'[g] = [chain[g] EXCEPT !.enabled = Switched(g, c)]
        BY <1>4, <3>3, <3>4
      <4>. QED BY ONLY <3>1, <3>2, <4>1, <4>2
    <3>5. CASE g # f
      BY <1>4, <1>7, <3>1, <3>2, <3>3, <3>5
    <3>. QED BY <3>4, <3>5
  <2>2. chain'["transposition"] = chain["transposition"]
    BY <1>4 DEF Filters, OneChannel
  <2>3. chain'["transposition"] = [NewChain["transposition"] EXCEPT
                                 !.enabled = SemitonesFor(w, "transposition")' # 0,
                                 !.rvalue = SemitonesFor(w, "rvalue")']
    BY <1>8, <2>2 DEF ChainInv
  <2>. QED BY <2>1, <2>3 DEF ChainInv
<1>. QED BY <1>6, <1>9

LEMMA WriteChannelStep ==
  ASSUME NEW w, Writers = {w}, MidiInIInv(w), WriteChannel(w)
  PROVE  MidiInIInv(w)'
<1>. USE DEF MidiInIInv, WriteChannel
<1>1. writing[w].op = "channel" /\ writing[w].arg \in 0 .. 17
  <2>1. writing[w].op # "nothing"
    BY DEF WritingInv, Nothing
  <2>2. writing[w].op # "semitones"
    BY DEF WritingInv
  <2>. QED BY <2>1, <2>2, WritingType DEF WritingInv
<1>2. PICK c \in 0 .. 17 : c = writing[w].arg
  BY <1>1
<1>4. /\ chain \in [Filters -> Filter] /\ "redirect" \in Filters
      /\ chain["redirect"] \in Filter
      /\ chain' = [chain EXCEPT !["redirect"] = [chain["redirect"] EXCEPT !.channel = c]]
  BY <1>2 DEF MidiInTypeOK, Filters, OneChannel
<1>5. chain' \in [Filters -> Filter]
  <2>1. [chain["redirect"] EXCEPT !.channel = c] \in Filter
    BY <1>4 DEF Filter
  <2>. QED BY <1>4, <2>1
<1>6. /\ MidiInTypeOK' /\ WritingInv(w)' /\ SeenInv(w)' /\ WalkInv' /\ AsMeantInv'
      /\ writing'[w].op = "channel" /\ writing'[w].arg = c
      /\ writing'[w].todo = writing[w].todo \ {"channel"}
  BY <1>1, <1>2, <1>5, FieldKeeps
<1>7. /\ \A x \in OneChannel : ChannelFor(w, x)' = ChannelFor(w, x)
      /\ ChannelFor(w, "channel")' = c
  BY <1>1, <1>2, <1>6 DEF ChannelFor, OneChannel
<1>8. \A x \in {"transposition", "rvalue"} : SemitonesFor(w, x)' = SemitonesFor(w, x)
  BY <1>1, <1>6 DEF SemitonesFor
<1>9. ChainInv(w)'
  <2>1. ASSUME NEW g \in OneChannel
        PROVE  chain'[g] = [NewChain[g] EXCEPT
                              !.enabled = Switched(g, ChannelFor(w, g)'),
                              !.channel = IF g = "redirect" THEN ChannelFor(w, "channel")'
                                          ELSE @]
    <3>2. chain[g] = [NewChain[g] EXCEPT
                        !.enabled = Switched(g, ChannelFor(w, g)),
                        !.channel = IF g = "redirect" THEN ChannelFor(w, "channel") ELSE @]
      BY <2>1 DEF ChainInv
    <3>3. g \in Filters /\ ChannelFor(w, g)' = ChannelFor(w, g)
      BY <2>1, <1>7 DEF Filters
    <3>4. CASE g = "redirect"
      <4>2. chain'[g] = [chain[g] EXCEPT !.channel = c]
        BY <1>4, <3>3, <3>4
      <4>3. ASSUME NEW r \in Filter, NEW e, NEW d
            PROVE  [[r EXCEPT !.enabled = e, !.channel = d] EXCEPT !.channel = c]
                     = [r EXCEPT !.enabled = e, !.channel = c]
        BY DEF Filter
      <4>4. NewChain[g] \in Filter
        BY <3>3, NewFilters
      <4>5. chain[g] = [NewChain[g] EXCEPT !.enabled = Switched(g, ChannelFor(w, g)),
                                           !.channel = ChannelFor(w, "channel")]
        BY <3>2, <3>4
      <4>6. chain'[g] = [NewChain[g] EXCEPT !.enabled = Switched(g, ChannelFor(w, g)),
                                            !.channel = c]
        BY <4>2, <4>3, <4>4, <4>5
      <4>. QED BY <1>7, <3>3, <3>4, <4>6
    <3>5. CASE g # "redirect"
      BY <1>4, <3>2, <3>3, <3>5
    <3>. QED BY <3>4, <3>5
  <2>2. chain'["transposition"] = chain["transposition"]
    BY <1>4 DEF Filters, OneChannel
  <2>3. chain'["transposition"] = [NewChain["transposition"] EXCEPT
                                 !.enabled = SemitonesFor(w, "transposition")' # 0,
                                 !.rvalue = SemitonesFor(w, "rvalue")']
    BY <1>8, <2>2 DEF ChainInv
  <2>. QED BY <2>1, <2>3 DEF ChainInv
<1>. QED BY <1>6, <1>9

LEMMA WriteTranspositionStep ==
  ASSUME NEW w, Writers = {w}, MidiInIInv(w), WriteEnabled(w) \/ WriteValue(w)
  PROVE  MidiInIInv(w)'
<1>. USE DEF MidiInIInv, WriteEnabled, WriteValue
<1>0. PICK x \in {"transposition", "rvalue"} :
        IF x = "transposition" THEN WriteEnabled(w) ELSE WriteValue(w)
  OBVIOUS
<1>1. writing[w].op = "semitones" /\ x \in writing[w].todo
  <2>0. x \in writing[w].todo
    BY <1>0
  <2>1. writing[w].op # "nothing"
    BY <2>0 DEF WritingInv, Nothing
  <2>2. writing[w].op # "channel"
    BY <1>0, <2>0 DEF WritingInv, OneChannel
  <2>. QED BY <2>0, <2>1, <2>2, WritingType DEF WritingInv
<1>2. PICK s \in -128 .. 127 : s = writing[w].arg
  BY WritingType
<1>3. PICK g \in Filter : g = chain["transposition"]
  BY DEF MidiInTypeOK, Filters
<1>4. PICK h \in Filter : h = IF x = "transposition" THEN [g EXCEPT !.enabled = (s # 0)]
                                                     ELSE [g EXCEPT !.rvalue = s]
  <2>1. [g EXCEPT !.enabled = (s # 0)] \in Filter
    BY FilterEnabled
  <2>2. [g EXCEPT !.rvalue = s] \in Filter
    BY FilterValue
  <2>3. CASE x = "transposition"
    BY ONLY <2>1, <2>3
  <2>4. CASE x # "transposition"
    BY ONLY <2>2, <2>4
  <2>. QED BY <2>3, <2>4
<1>5. chain' = [chain EXCEPT !["transposition"] = h]
  BY <1>0, <1>2, <1>3, <1>4
<1>6. chain \in [Filters -> Filter] /\ "transposition" \in Filters
  BY DEF MidiInTypeOK, Filters
<1>7. chain' \in [Filters -> Filter] /\ chain'["transposition"] = h
      /\ \A f \in OneChannel : chain'[f] = chain[f]
  BY <1>5, <1>6 DEF OneChannel, Filters
<1>8. FieldWritten(w, x) /\ UNCHANGED <<selection, semitones, rt, at, step, msg, original, seen, seenT>>
  BY <1>0
<1>9. /\ MidiInTypeOK' /\ WritingInv(w)' /\ SeenInv(w)' /\ WalkInv' /\ AsMeantInv'
      /\ writing'[w].op = "semitones" /\ writing'[w].arg = s
      /\ writing'[w].todo = writing[w].todo \ {x}
  BY <1>1, <1>2, <1>7, <1>8, FieldKeeps
<1>10. \A y \in OneChannel \cup {"channel"} : ChannelFor(w, y)' = ChannelFor(w, y)
  BY <1>1, <1>8, <1>9 DEF ChannelFor
<1>11. \A y \in {"transposition", "rvalue"} :
          SemitonesFor(w, y)' = IF y = x THEN s ELSE SemitonesFor(w, y)
  BY <1>1, <1>2, <1>8, <1>9 DEF SemitonesFor
<1>12. ChainInv(w)'
  <2>1. ASSUME NEW f \in OneChannel
        PROVE  chain'[f] = [NewChain[f] EXCEPT
                              !.enabled = Switched(f, ChannelFor(w, f)'),
                              !.channel = IF f = "redirect" THEN ChannelFor(w, "channel")'
                                          ELSE @]
    <3>1. ChannelFor(w, f)' = ChannelFor(w, f) /\ ChannelFor(w, "channel")' = ChannelFor(w, "channel")
      BY <2>1, <1>10
    <3>2. chain[f] = [NewChain[f] EXCEPT
                        !.enabled = Switched(f, ChannelFor(w, f)),
                        !.channel = IF f = "redirect" THEN ChannelFor(w, "channel") ELSE @]
      BY <2>1 DEF ChainInv
    <3>. QED BY <1>7, <2>1, <3>1, <3>2
  <2>2. g = [NewChain["transposition"] EXCEPT
               !.enabled = SemitonesFor(w, "transposition") # 0,
               !.rvalue = SemitonesFor(w, "rvalue")]
    BY <1>3 DEF ChainInv
  <2>3. h = [NewChain["transposition"] EXCEPT
               !.enabled = SemitonesFor(w, "transposition")' # 0,
               !.rvalue = SemitonesFor(w, "rvalue")']
    <3>1. CASE x = "transposition"
      <4>1. SemitonesFor(w, "transposition")' = s /\ SemitonesFor(w, "rvalue")' = SemitonesFor(w, "rvalue")
        BY <1>11, <3>1
      <4>. QED BY <4>1, <2>2, <1>4, <3>1
    <3>2. CASE x = "rvalue"
      <4>1. SemitonesFor(w, "rvalue")' = s
            /\ SemitonesFor(w, "transposition")' = SemitonesFor(w, "transposition")
        BY <1>11, <3>2
      <4>. QED BY <4>1, <2>2, <1>4, <3>2
    <3>. QED BY <3>1, <3>2
  <2>4. chain'["transposition"] = [NewChain["transposition"] EXCEPT
                                 !.enabled = SemitonesFor(w, "transposition")' # 0,
                                 !.rvalue = SemitonesFor(w, "rvalue")']
    BY <2>3, <1>7
  <2>. QED BY <2>1, <2>4 DEF ChainInv
<1>. QED BY <1>9, <1>12

LEMMA SetDoneStep ==
  ASSUME NEW w, Writers = {w}, MidiInIInv(w), SetDone(w)
  PROVE  MidiInIInv(w)'
<1>. USE DEF MidiInIInv, SetDone
<1>1. /\ writing'[w] = Nothing /\ writing[w].op \in {"channel", "semitones"}
      /\ writing[w].todo = {} /\ writing[w].arg \in -128 .. 127
      /\ (writing[w].op = "channel" => writing[w].arg \in 0 .. 17)
  BY WritingType DEF WritingInv
<1>2. /\ selection' = IF writing[w].op = "channel" THEN writing[w].arg ELSE selection
      /\ semitones' = IF writing[w].op = "semitones" THEN writing[w].arg ELSE semitones
      /\ UNCHANGED <<chain, rt, at, step, msg, original, seen, seenT>>
  OBVIOUS
<1>3. MidiInTypeOK'
  <2>1. Nothing \in [op : {"nothing", "channel", "semitones"}, arg : -128 .. 127,
                     todo : SUBSET Fields]
    BY DEF Nothing
  <2>2. writing' \in [Writers -> [op : {"nothing", "channel", "semitones"},
                                  arg : -128 .. 127, todo : SUBSET Fields]]
    BY <2>1 DEF MidiInTypeOK
  <2>. QED BY <1>1, <1>2, <2>2 DEF MidiInTypeOK
<1>4. WritingInv(w)'
  BY <1>1 DEF WritingInv, Nothing
<1>5. ChainInv(w)'
  <2>1. \A x \in OneChannel \cup {"channel"} : ChannelFor(w, x)' = ChannelFor(w, x)
    BY <1>1, <1>2 DEF ChannelFor, Nothing
  <2>2. \A x \in {"transposition", "rvalue"} : SemitonesFor(w, x)' = SemitonesFor(w, x)
    BY <1>1, <1>2 DEF SemitonesFor, Nothing
  <2>. QED BY <1>2, <2>1, <2>2, ChainKept
<1>6. SeenInv(w)'
  BY <1>1, <1>2 DEF SeenInv, Nothing
<1>7. WalkInv' /\ AsMeantInv'
  BY <1>2, MoreSeen
<1>. QED BY <1>3, <1>4, <1>5, <1>6, <1>7

-----------------------------------------------------------------------------
(* The walk of a message.                                                  *)

(* In the walk a filter is set for something that the message may meet.    *)
LEMMA SetForSeen ==
  ASSUME NEW w, Writers = {w}, MidiInIInv(w), rt = "walk"
  PROVE  /\ \A x : ChannelFor(w, x) \in seen /\ SemitonesFor(w, x) \in seenT
         /\ seen \subseteq 0 .. 17 /\ seenT \subseteq -128 .. 127
BY DEF MidiInIInv, MidiInTypeOK, SeenInv, ChannelFor, SemitonesFor

LEMMA OneChannelFilter ==
  ASSUME NEW w, Writers = {w}, MidiInIInv(w), rt = "walk", NEW f \in OneChannel
  PROVE  \E c \in seen, d \in seen :
           /\ chain[f].enabled <=> \/ c \in 2 .. 16
                                   \/ c = 1 /\ f \in {"accept", "drop_rest"}
                                   \/ c = 17 /\ f = "drop_rest"
           /\ chain[f].channel = IF f = "redirect" THEN d ELSE NewChain[f].channel
           /\ chain[f].type = NewChain[f].type /\ chain[f].rule = NewChain[f].rule
           /\ chain[f].rvalue = NewChain[f].rvalue
<1>1. PICK c : c = ChannelFor(w, f)
  OBVIOUS
<1>2. PICK d : d = ChannelFor(w, "channel")
  OBVIOUS
<1>3. c \in seen /\ d \in seen /\ c \in 0 .. 17
  BY <1>1, <1>2, SetForSeen
<1>4. NewChain[f] \in Filter
  BY NewFilters DEF Filters
<1>5. chain[f] = [NewChain[f] EXCEPT !.enabled = Switched(f, c),
                                     !.channel = IF f = "redirect" THEN d ELSE @]
  BY <1>1, <1>2 DEF MidiInIInv, ChainInv
<1>6. /\ chain[f].enabled = Switched(f, c)
      /\ chain[f].channel = IF f = "redirect" THEN d ELSE NewChain[f].channel
      /\ chain[f].type = NewChain[f].type /\ chain[f].rule = NewChain[f].rule
      /\ chain[f].rvalue = NewChain[f].rvalue
  BY <1>4, <1>5 DEF Filter
<1>7. Switched(f, c) <=> \/ c \in 2 .. 16
                         \/ c = 1 /\ f \in {"accept", "drop_rest"}
                         \/ c = 17 /\ f = "drop_rest"
  BY <1>3, SwitchedOn
<1>. QED BY <1>3, <1>6, <1>7

LEMMA TranspositionFilter ==
  ASSUME NEW w, Writers = {w}, MidiInIInv(w), rt = "walk"
  PROVE  \E t \in seenT, s \in seenT :
           /\ chain["transposition"].enabled <=> t # 0
           /\ chain["transposition"].rvalue = s /\ chain["transposition"].channel = 0
           /\ chain["transposition"].type = "NOTE" /\ chain["transposition"].rule = "TRANSPOSE"
<1>1. PICK t : t = SemitonesFor(w, "transposition")
  OBVIOUS
<1>2. PICK s : s = SemitonesFor(w, "rvalue")
  OBVIOUS
<1>3. t \in seenT /\ s \in seenT
  BY <1>1, <1>2, SetForSeen
<1>4. chain["transposition"] = [NewChain["transposition"] EXCEPT !.enabled = t # 0, !.rvalue = s]
  BY <1>1, <1>2 DEF MidiInIInv, ChainInv
<1>5. /\ chain["transposition"].enabled = (t # 0)
      /\ chain["transposition"].rvalue = s /\ chain["transposition"].channel = 0
      /\ chain["transposition"].type = "NOTE" /\ chain["transposition"].rule = "TRANSPOSE"
  BY <1>4, NewFilters DEF Rule
<1>. QED BY <1>3, <1>5

(* What the messages are that a transposed message n stands for.           *)
LEMMA MeantIs ==
  ASSUME NEW m, NEW low, NEW high, NEW added, NEW c, NEW n
  PROVE  /\ Transposed(m, low, high, added) = {} => Meant(m, c, low, high, added) = {}
         /\ Transposed(m, low, high, added) = {n} => Meant(m, c, low, high, added) = Selected(n, c)
BY DEF Meant

LEMMA RaisedIn ==
  ASSUME NEW m \in Message, NEW added \in -128 .. 127
  PROVE  Raised(m, added) \in Copied /\ m \in Copied /\ (added = 0 => Raised(m, added) = m)
<1>1. m \in [type : {"NOTE", "OTHER"}, channel : 1 .. 16, d1 : 0 .. 127]
  BY DEF Message
<1>2. PICK x \in 0 .. 255 : x = (m.d1 + added) % 256
  <2>1. PICK y \in Int : y = m.d1 + added
    BY <1>1
  <2>2. 256 \in Nat /\ 256 > 0
    OBVIOUS
  <2>3. y % 256 \in 0 .. 256 - 1
    BY ONLY <2>1, <2>2, ModIn
  <2>. QED BY ONLY <2>1, <2>3
<1>3. added = 0 => x = m.d1
  BY <1>1, <1>2
<1>4. Raised(m, added) = [m EXCEPT !.d1 = x]
  BY <1>2 DEF Raised
<1>. QED BY ONLY <1>1, <1>3, <1>4 DEF Copied

LEMMA ReceiveMidiStep ==
  ASSUME NEW w, Writers = {w}, MidiInIInv(w), NEW m \in Received, Receive(m)
  PROVE  MidiInIInv(w)'
<1>. USE DEF MidiInIInv, Receive, settings
<1>1. /\ writing[w].op = "channel" => writing[w].arg \in Being("channel")
      /\ writing[w].op = "semitones" => writing[w].arg \in Being("semitones")
      /\ Being("channel") \subseteq 0 .. 17 /\ Being("semitones") \subseteq -128 .. 127
  <2>1. \A op : Being(op) = IF writing[w].op = op THEN {writing[w].arg} ELSE {}
    BY DEF Being
  <2>2. PICK o : o = writing[w]
    OBVIOUS
  <2>3. /\ o.op = "channel" => o.arg \in 0 .. 17
        /\ o.op = "semitones" => o.arg \in -128 .. 127
    BY <2>2, WritingType DEF WritingInv
  <2>4. \A op : Being(op) = IF o.op = op THEN {o.arg} ELSE {}
    BY <2>1, <2>2
  <2>5. /\ o.op = "channel" => o.arg \in Being("channel")
        /\ o.op = "semitones" => o.arg \in Being("semitones")
        /\ Being("channel") \subseteq 0 .. 17 /\ Being("semitones") \subseteq -128 .. 127
    BY ONLY <2>3, <2>4
  <2>. QED BY ONLY <2>2, <2>5
<1>2. MidiInTypeOK'
  <2>1. m \in Message /\ m \in Copied
    BY MidiInAssumption DEF Message, Copied
  <2>. QED BY <1>1, <2>1 DEF MidiInTypeOK
<1>3. WritingInv(w)'
  BY DEF WritingInv
<1>4. ChainInv(w)'
  <2>1. \A x : ChannelFor(w, x)' = ChannelFor(w, x) /\ SemitonesFor(w, x)' = SemitonesFor(w, x)
    BY DEF ChannelFor, SemitonesFor
  <2>. QED BY <2>1, ChainKept
<1>5. SeenInv(w)'
  BY <1>1 DEF SeenInv
<1>6. WalkInv' /\ AsMeantInv'
  BY DEF WalkInv, Reading, AsMeantInv, AsMeant
<1>. QED BY <1>2, <1>3, <1>4, <1>5, <1>6

LEMMA HandleMessageStep ==
  ASSUME NEW w, Writers = {w}, MidiInIInv(w), HandleMessage
  PROVE  MidiInIInv(w)'
<1>. USE DEF MidiInIInv, HandleMessage, settings
<1>2. MidiInTypeOK'
  BY DEF MidiInTypeOK, Silent, Message, Copied
<1>3. WritingInv(w)' /\ SeenInv(w)'
  BY DEF WritingInv, SeenInv
<1>4. ChainInv(w)'
  <2>1. \A x : ChannelFor(w, x)' = ChannelFor(w, x) /\ SemitonesFor(w, x)' = SemitonesFor(w, x)
    BY DEF ChannelFor, SemitonesFor
  <2>. QED BY <2>1, ChainKept
<1>6. WalkInv' /\ AsMeantInv'
  BY DEF WalkInv, AsMeantInv, AsMeant
<1>. QED BY <1>2, <1>3, <1>4, <1>6

LEMMA SelectedIs ==
  ASSUME NEW m \in Copied, NEW c \in 0 .. 17
  PROVE  /\ c = 0 => Selected(m, c) = {m}
         /\ c = m.channel => Selected(m, c) = {[m EXCEPT !.channel = 1]}
         /\ c # 0 /\ c # m.channel => Selected(m, c) = {}
<1>1. m.channel # 0
  BY DEF Copied
<1>. QED BY <1>1 DEF Selected

(* What one step of the walk does, when m is the message, transposed.      *)
Through(m) ==
  /\ msg' \in Copied
  /\ \/ rt' = "walk" /\ at' \in {at, at + 1} /\ Passing(m)' /\ Reading'
     \/ rt' = "dropped" /\ ((\E W \in OneWrite : seen \subseteq W) =>
                              \E c \in seen : Selected(m, c) = {})
     \/ rt' = "passed" /\ ((\E W \in OneWrite : seen \subseteq W) =>
                              \E c \in seen : Selected(m, c) = {msg'})

(* Reading on: at the same filter, and of the message nothing changes.     *)
LEMMA ReadStep ==
  ASSUME NEW f, ReadOn(f), UNCHANGED <<original, seen, seenT>>, rt = "walk", msg \in Copied,
         NEW m, Passing(m), Reading'
  PROVE  Through(m)
<1>1. rt' = "walk" /\ at' = at /\ msg' = msg /\ seen' = seen
  BY DEF ReadOn
<1>2. Passing(m)'
  BY <1>1 DEF Passing
<1>. QED BY <1>1, <1>2 DEF Through

LEMMA DropRealOneStep ==
  ASSUME NEW w, Writers = {w}, MidiInIInv(w), rt = "walk", at = 2, Check,
         NEW m \in Copied, Passing(m)
  PROVE  Through(m)
<1>0. /\ UNCHANGED <<original, seen, seenT>> /\ seen \subseteq 0 .. 17
      /\ msg \in Copied /\ Reading /\ step \in {"enabled", "channel", "compare", "rule"}
  BY SetForSeen DEF Check, MidiInIInv, MidiInTypeOK, WalkInv, Reading
<1>1. PICK f : f = chain["drop_real_one"]
  OBVIOUS
<1>2. SkipFilter(f) \/ ReadOn(f) \/ Drop(f) \/ Accept(f) \/ Change(f)
  BY <1>1 DEF Check, Order
<1>3. PICK c \in seen : /\ f.enabled <=> c \in 2 .. 16
                        /\ f.channel = 1 /\ f.type = "ALL" /\ f.rule = "DROP_ALL"
  <2>1. "drop_real_one" \in OneChannel
    BY DEF OneChannel
  <2>2. PICK c \in seen, d \in seen :
           /\ f.enabled <=> c \in 2 .. 16
           /\ f.channel = NewChain["drop_real_one"].channel
           /\ f.type = NewChain["drop_real_one"].type
           /\ f.rule = NewChain["drop_real_one"].rule
    BY <1>1, <2>1, OneChannelFilter
  <2>. QED BY <2>2, NewFilters DEF Rule
<1>4. CASE SkipFilter(f)
  <2>1. /\ rt' = "walk" /\ at' = 3 /\ step' = "enabled" /\ msg' = msg
        /\ \/ c \notin 2 .. 16
           \/ msg.channel # 1
    BY <1>3, <1>4 DEF SkipFilter, NextFilter, OfType
  <2>2. Passing(m)' /\ Reading'
    BY <1>0, <2>1, <1>3 DEF Passing, Reading
  <2>. QED BY <1>0, <2>1, <2>2 DEF Through
<1>5. CASE ReadOn(f)
  <2>1. Reading'
    BY <1>0, <1>3, <1>5 DEF ReadOn, Reading
  <2>. QED BY <1>0, <1>5, <2>1, ReadStep
<1>6. CASE Drop(f)
  <2>1. rt' = "dropped" /\ msg' = msg /\ msg.channel = 1
    BY <1>0, <1>3, <1>6 DEF Drop, Reading
  <2>2. PICK b \in seen : b \in 2 .. 16
    BY <1>0, <1>3, <1>6 DEF Drop, Reading
  <2>3. ASSUME NEW W \in OneWrite, seen \subseteq W PROVE Selected(m, b) = {}
    <3>1. msg = m
      BY <2>2, <2>3 DEF OneWrite, Passing
    <3>. QED BY <3>1, <2>1, <2>2, <1>0, SelectedIs
  <2>. QED BY <1>0, <2>1, <2>2, <2>3 DEF Through
<1>7. ~Accept(f) /\ ~Change(f)
  BY <1>0, <1>3 DEF Accept, Change
<1>. QED BY <1>2, <1>4, <1>5, <1>6, <1>7

LEMMA RedirectStep ==
  ASSUME NEW w, Writers = {w}, MidiInIInv(w), rt = "walk", at = 3, Check,
         NEW m \in Copied, Passing(m)
  PROVE  Through(m)
<1>0. /\ UNCHANGED <<original, seen, seenT>> /\ seen \subseteq 0 .. 17
      /\ msg \in Copied /\ Reading /\ step \in {"enabled", "channel", "compare", "rule"}
  BY SetForSeen DEF Check, MidiInIInv, MidiInTypeOK, WalkInv, Reading
<1>1. PICK f : f = chain["redirect"]
  OBVIOUS
<1>2. SkipFilter(f) \/ ReadOn(f) \/ Drop(f) \/ Accept(f) \/ Change(f)
  BY <1>1 DEF Check, Order
<1>3. PICK c \in seen, d \in seen :
        /\ f.enabled <=> c \in 2 .. 16
        /\ f.channel = d /\ f.type = "ALL" /\ f.rule = "CHANNEL_REDIRECT" /\ f.rvalue = 1
  <2>1. "redirect" \in OneChannel
    BY DEF OneChannel
  <2>2. PICK c \in seen, d \in seen :
           /\ f.enabled <=> c \in 2 .. 16
           /\ f.channel = d
           /\ f.type = NewChain["redirect"].type
           /\ f.rule = NewChain["redirect"].rule
           /\ f.rvalue = NewChain["redirect"].rvalue
    BY <1>1, <2>1, OneChannelFilter
  <2>. QED BY <2>2, NewFilters DEF Rule
<1>4. CASE SkipFilter(f)
  <2>1. /\ rt' = "walk" /\ at' = 4 /\ step' = "enabled" /\ msg' = msg
        /\ \/ c \notin 2 .. 16
           \/ d # msg.channel
    BY <1>3, <1>4 DEF SkipFilter, NextFilter, OfType
  <2>2. Passing(m)'
    <3>1. seen \subseteq 2 .. 16 => d # m.channel /\ msg = m /\ m.channel # 1
      BY <2>1, <1>3 DEF Passing
    <3>. QED BY <1>0, <2>1, <1>3, <3>1 DEF Passing
  <2>3. Reading'
    BY <2>1 DEF Reading
  <2>. QED BY <1>0, <2>1, <2>2, <2>3 DEF Through
<1>5. CASE ReadOn(f)
  <2>1. Reading'
    BY <1>0, <1>3, <1>5 DEF ReadOn, Reading
  <2>. QED BY <1>0, <1>5, <2>1, ReadStep
<1>6. CASE Change(f)
  <2>1. /\ rt' = "walk" /\ at' = 4 /\ step' = "enabled" /\ msg' = [msg EXCEPT !.channel = 1]
    BY <1>0, <1>3, <1>6 DEF Change, NextFilter, Redirected
  <2>2. PICK b \in seen, e \in seen : b \in 2 .. 16 /\ e \in {0, msg.channel}
    BY <1>0, <1>6 DEF Change, Reading
  <2>3. msg' \in Copied
    BY <1>0, <2>1 DEF Copied
  <2>4. Passing(m)'
    <3>1. seen \subseteq 2 .. 16 => e = m.channel /\ msg = m
      BY <2>2 DEF Passing
    <3>2. ~(seen \subseteq {0, 17}) /\ ~(seen \subseteq {1, 17})
      BY <2>2
    <3>. QED BY <1>0, <2>1, <2>2, <3>1, <3>2 DEF Passing
  <2>5. Reading'
    BY <2>1 DEF Reading
  <2>. QED BY <2>1, <2>3, <2>4, <2>5 DEF Through
<1>7. ~Accept(f) /\ ~Drop(f)
  BY <1>0, <1>3 DEF Accept, Drop
<1>. QED BY <1>2, <1>4, <1>5, <1>6, <1>7

LEMMA AcceptStep ==
  ASSUME NEW w, Writers = {w}, MidiInIInv(w), rt = "walk", at = 4, Check,
         NEW m \in Copied, Passing(m)
  PROVE  Through(m)
<1>0. /\ UNCHANGED <<original, seen, seenT>> /\ seen \subseteq 0 .. 17
      /\ msg \in Copied /\ Reading /\ step \in {"enabled", "channel", "compare", "rule"}
  BY SetForSeen DEF Check, MidiInIInv, MidiInTypeOK, WalkInv, Reading
<1>1. PICK f : f = chain["accept"]
  OBVIOUS
<1>2. SkipFilter(f) \/ ReadOn(f) \/ Drop(f) \/ Accept(f) \/ Change(f)
  BY <1>1 DEF Check, Order
<1>3. PICK c \in seen : /\ f.enabled <=> c \in 1 .. 16
                        /\ f.channel = 1 /\ f.type = "ALL" /\ f.rule = "ACCEPT"
  <2>1. "accept" \in OneChannel
    BY DEF OneChannel
  <2>2. PICK c \in seen, d \in seen :
           /\ f.enabled <=> c \in 2 .. 16 \/ c = 1
           /\ f.channel = NewChain["accept"].channel
           /\ f.type = NewChain["accept"].type
           /\ f.rule = NewChain["accept"].rule
    BY <1>1, <2>1, OneChannelFilter
  <2>3. c \in 2 .. 16 \/ c = 1 <=> c \in 1 .. 16
    OBVIOUS
  <2>. QED BY <2>2, <2>3, NewFilters DEF Rule
<1>4. CASE SkipFilter(f)
  <2>1. /\ rt' = "walk" /\ at' = 5 /\ step' = "enabled" /\ msg' = msg
        /\ c \notin 1 .. 16 \/ msg.channel # 1
    BY <1>3, <1>4 DEF SkipFilter, NextFilter, OfType
  <2>2. seen \subseteq {1, 17} => msg = m /\ c # m.channel
    <3>1. m.channel # 17
      BY DEF Copied
    <3>. QED BY <2>1, <1>3, <3>1 DEF Passing
  <2>3. seen \subseteq 2 .. 16 => \E b \in seen : b # m.channel
    <3>. SUFFICES ASSUME seen \subseteq 2 .. 16 PROVE \E b \in seen : b # m.channel
      OBVIOUS
    <3>1. PICK b \in seen : IF b = m.channel THEN msg = [m EXCEPT !.channel = 1]
                            ELSE msg = m /\ m.channel # 1
      BY DEF Passing
    <3>2. c \in 1 .. 16 /\ msg.channel # 1
      BY <2>1, <1>3
    <3>3. [m EXCEPT !.channel = 1].channel = 1
      BY DEF Copied
    <3>. QED BY <3>1, <3>2, <3>3
  <2>4. seen \subseteq {0, 17} => msg = m
    BY DEF Passing
  <2>5. Passing(m)'
    BY <1>0, <2>1, <1>3, <2>2, <2>3, <2>4 DEF Passing
  <2>6. Reading'
    BY <2>1 DEF Reading
  <2>. QED BY <1>0, <2>1, <2>5, <2>6 DEF Through
<1>5. CASE ReadOn(f)
  <2>1. Reading'
    BY <1>0, <1>3, <1>5 DEF ReadOn, Reading
  <2>. QED BY <1>0, <1>5, <2>1, ReadStep
<1>6. CASE Accept(f)
  <2>1. rt' = "passed" /\ msg' = msg /\ msg.channel = 1
    BY <1>0, <1>6 DEF Accept, Reading
  <2>2. PICK e \in seen : e \in 1 .. 16
    BY <1>0, <1>6 DEF Accept, Reading
  <2>3. ASSUME NEW W \in OneWrite, seen \subseteq W
        PROVE  \E b \in seen : Selected(m, b) = {msg}
    <3>1. CASE W = {0, 17}
      BY <2>2, <2>3, <3>1
    <3>2. CASE W = {1, 17}
      <4>1. e = 1 /\ msg = m
        BY <2>2, <2>3, <3>2 DEF Passing
      <4>2. [m EXCEPT !.channel = 1] = m
        BY <4>1, <2>1 DEF Copied
      <4>. QED BY <4>1, <4>2, <2>1, <1>0, SelectedIs
    <3>3. CASE W = 2 .. 16
      <4>1. PICK b \in seen : IF b = m.channel THEN msg = [m EXCEPT !.channel = 1]
                              ELSE msg = m /\ m.channel # 1
        BY <2>3, <3>3 DEF Passing
      <4>2. b = m.channel
        BY <4>1, <2>1
      <4>. QED BY <4>1, <4>2, <1>0, SelectedIs
    <3>. QED BY <2>3, <3>1, <3>2, <3>3 DEF OneWrite
  <2>. QED BY <1>0, <2>1, <2>3 DEF Through
<1>7. ~Change(f) /\ ~Drop(f)
  BY <1>0, <1>3 DEF Change, Drop
<1>. QED BY <1>2, <1>4, <1>5, <1>6, <1>7

LEMMA DropRestStep ==
  ASSUME NEW w, Writers = {w}, MidiInIInv(w), rt = "walk", at = 5, Check,
         NEW m \in Copied, Passing(m)
  PROVE  Through(m)
<1>0. /\ UNCHANGED <<original, seen, seenT>> /\ seen \subseteq 0 .. 17
      /\ msg \in Copied /\ Reading /\ step \in {"enabled", "channel", "compare", "rule"}
  BY SetForSeen DEF Check, MidiInIInv, MidiInTypeOK, WalkInv, Reading
<1>1. PICK f : f = chain["drop_rest"]
  OBVIOUS
<1>2. SkipFilter(f) \/ ReadOn(f) \/ Drop(f) \/ Accept(f) \/ Change(f)
  BY <1>1 DEF Check, Order
<1>3. PICK c \in seen : /\ f.enabled <=> c # 0
                        /\ f.channel = 0 /\ f.type = "ALL" /\ f.rule = "DROP_ALL"
  <2>1. "drop_rest" \in OneChannel
    BY DEF OneChannel
  <2>2. PICK c \in seen, d \in seen :
           /\ f.enabled <=> c \in 2 .. 16 \/ c = 1 \/ c = 17
           /\ f.channel = NewChain["drop_rest"].channel
           /\ f.type = NewChain["drop_rest"].type
           /\ f.rule = NewChain["drop_rest"].rule
    BY <1>1, <2>1, OneChannelFilter
  <2>3. c \in 2 .. 16 \/ c = 1 \/ c = 17 <=> c # 0
    BY <1>0
  <2>. QED BY <2>2, <2>3, NewFilters DEF Rule
<1>4. CASE SkipFilter(f)
  <2>0. ASSUME step = "enabled" PROVE Through(m)
    <3>1. rt' = "walk" /\ at' = 6 /\ step' = "enabled" /\ msg' = msg /\ c = 0
      BY <1>3, <1>4, <2>0 DEF SkipFilter, NextFilter
    <3>2. ~(seen \subseteq {1, 17}) /\ ~(seen \subseteq 2 .. 16)
      BY <3>1, <1>3
    <3>3. Passing(m)'
      BY <1>0, <3>1, <1>3, <3>2 DEF Passing
    <3>4. Reading'
      BY <3>1 DEF Reading
    <3>. QED BY <1>0, <3>1, <3>3, <3>4 DEF Through
  <2>1. step # "compare"
    BY <1>0, <1>3, <1>4 DEF Reading
  <2>. QED BY <1>3, <1>4, <2>0, <2>1 DEF SkipFilter, OfType
<1>5. CASE ReadOn(f)
  <2>1. Reading'
    BY <1>0, <1>3, <1>5 DEF ReadOn, Reading
  <2>. QED BY <1>0, <1>5, <2>1, ReadStep
<1>6. CASE Drop(f)
  <2>1. rt' = "dropped" /\ msg' = msg
    BY <1>6 DEF Drop
  <2>2. PICK e \in seen : e # 0
    BY <1>0, <1>6 DEF Drop, Reading
  <2>3. ASSUME NEW W \in OneWrite, seen \subseteq W
        PROVE  \E b \in seen : Selected(m, b) = {}
    <3>1. PICK b \in seen : b # 0 /\ b # m.channel
      <4>0. m.channel \in 1 .. 16
        BY DEF Copied
      <4>1. CASE W = {0, 17}
        BY <2>2, <2>3, <4>0, <4>1
      <4>2. CASE W = {1, 17}
        BY <2>3, <4>2 DEF Passing
      <4>3. CASE W = 2 .. 16
        BY <2>3, <4>3 DEF Passing
      <4>. QED BY <2>3, <4>1, <4>2, <4>3 DEF OneWrite
    <3>. QED BY <3>1, <1>0, SelectedIs
  <2>. QED BY <1>0, <2>1, <2>3 DEF Through
<1>7. ~Change(f) /\ ~Accept(f)
  BY <1>0, <1>3 DEF Change, Accept
<1>. QED BY <1>2, <1>4, <1>5, <1>6, <1>7

(* The first filter transposes, or drops what does not fit.                *)
LEMMA TransposeStep ==
  ASSUME NEW w, Writers = {w}, MidiInIInv(w), rt = "walk", at = 1, Check
  PROVE  /\ msg' \in Copied
         /\ \/ rt' = "dropped" /\ \E low, high, added \in seenT :
                                    Transposed(original, low, high, added) = {}
            \/ rt' = "walk" /\ at' = 1 /\ msg' = original /\ Reading'
            \/ rt' = "walk" /\ at' = 2 /\ step' = "enabled" /\ Turned(msg')
<1>0. /\ msg = original /\ original \in Message /\ msg \in Copied /\ seenT \subseteq -128 .. 127
      /\ Reading /\ step \in {"enabled", "channel", "rule", "high", "add"}
      /\ UNCHANGED <<original, seen, seenT>>
  BY SetForSeen DEF Check, MidiInIInv, MidiInTypeOK, WalkInv, Reading
<1>1. PICK f : f = chain["transposition"]
  OBVIOUS
<1>2. SkipFilter(f) \/ ReadOn(f) \/ Drop(f) \/ Accept(f) \/ Change(f)
  BY <1>1 DEF Check, Order
<1>3. PICK t \in seenT, s \in seenT :
        /\ f.enabled <=> t # 0
        /\ f.rvalue = s /\ f.channel = 0 /\ f.type = "NOTE" /\ f.rule = "TRANSPOSE"
  BY <1>1, TranspositionFilter
<1>4. s \in -128 .. 127 /\ t \in -128 .. 127 /\ original.d1 \in 0 .. 127
  BY <1>0, <1>3 DEF Message
<1>5. CASE SkipFilter(f)
  <2>1. /\ rt' = "walk" /\ at' = 2 /\ step' = "enabled" /\ msg' = original
        /\ t = 0 \/ original.type # "NOTE"
    BY <1>0, <1>3, <1>5 DEF SkipFilter, NextFilter, OfType
  <2>2. Transposed(original, t, t, t) = {original}
    <3>1. t = 0 => Raised(original, t) = original
      BY ONLY <1>0, <1>4, RaisedIn
    <3>2. t = 0 => original.d1 + t >= 0 /\ original.d1 + t <= 127
      BY <1>4
    <3>. QED BY ONLY <2>1, <3>1, <3>2 DEF Transposed
  <2>3. Transposed(original, t, t, t) = {msg'}
    BY <2>1, <2>2
  <2>. QED BY <1>0, <1>3, <2>1, <2>3 DEF Turned
<1>6. CASE ReadOn(f)
  <2>1. rt' = "walk" /\ at' = 1 /\ msg' = original
    BY <1>0, <1>6 DEF ReadOn
  <2>2. Reading'
    BY <1>0, <1>3, <1>6, <2>1 DEF ReadOn, Reading, OfType
  <2>. QED BY <1>0, <2>1, <2>2
<1>7. CASE Drop(f)
  <2>1. /\ rt' = "dropped" /\ msg' = msg /\ original.type = "NOTE"
        /\ original.d1 + s < 0 \/ original.d1 + s > 127
    BY <1>0, <1>3, <1>7 DEF Drop, Reading, OfType
  <2>2. Transposed(original, s, s, s) = {}
    <3>1. ~(original.d1 + s >= 0 /\ original.d1 + s <= 127)
      BY <1>4, <2>1
    <3>. QED BY ONLY <2>1, <3>1 DEF Transposed
  <2>. QED BY <1>0, <1>3, <2>1, <2>2
<1>8. CASE Change(f)
  <2>1. /\ rt' = "walk" /\ at' = 2 /\ step' = "enabled" /\ msg' = Raised(original, s)
        /\ step = "add"
    BY <1>0, <1>3, <1>8 DEF Change, NextFilter
  <2>2. PICK low \in seenT, high \in seenT :
          original.type = "NOTE" /\ original.d1 + low >= 0 /\ original.d1 + high <= 127
    BY <1>0, <2>1 DEF Reading
  <2>3. Transposed(original, low, high, s) = {Raised(original, s)}
    BY ONLY <2>2 DEF Transposed
  <2>4. Raised(original, s) \in Copied
    BY ONLY <1>0, <1>4, RaisedIn
  <2>5. Transposed(original, low, high, s) = {msg'}
    BY <2>1, <2>3
  <2>. QED BY <1>0, <1>3, <2>1, <2>2, <2>4, <2>5 DEF Turned
<1>9. ~Accept(f)
  BY <1>3 DEF Accept
<1>. QED BY <1>2, <1>5, <1>6, <1>7, <1>8, <1>9

LEMMA CheckStep ==
  ASSUME NEW w, Writers = {w}, MidiInIInv(w), Check
  PROVE  MidiInIInv(w)'
<1>0. /\ rt = "walk" /\ at \in 1 .. 5 /\ original \in Message /\ seenT \subseteq -128 .. 127
      /\ UNCHANGED <<original, seen, seenT, chain, selection, semitones, writing>>
  BY DEF MidiInIInv, MidiInTypeOK, Check, Order, settings
<1>1. WritingInv(w)'
  BY <1>0 DEF MidiInIInv, WritingInv
<1>2. ChainInv(w)'
  <2>1. \A x : ChannelFor(w, x)' = ChannelFor(w, x) /\ SemitonesFor(w, x)' = SemitonesFor(w, x)
    BY <1>0 DEF ChannelFor, SemitonesFor
  <2>. QED BY <1>0, <2>1, ChainKept DEF MidiInIInv
<1>3. SeenInv(w)'
  BY <1>0 DEF MidiInIInv, SeenInv
<1>4. /\ at' \in {at, at + 1} /\ rt' \in {"walk", "dropped", "passed"}
      /\ step' \in {"enabled", "channel", "compare", "rule", "high", "add"}
  BY <1>0 DEF Check, SkipFilter, ReadOn, Drop, Accept, Change, NextFilter
<1>5. msg' \in Copied => MidiInTypeOK'
  BY <1>0, <1>4 DEF MidiInIInv, MidiInTypeOK
<1>6. CASE at = 1
  <2>0. \/ rt' = "dropped"
        \/ rt' = "walk" /\ at' = 1 /\ msg' = original /\ Reading'
        \/ rt' = "walk" /\ at' = 2 /\ step' = "enabled" /\ Turned(msg')
    BY <1>0, <1>6, TransposeStep
  <2>1. msg' \in Copied
    BY <1>0, <1>6, TransposeStep
  <2>2. WalkInv'
    <3>1. CASE rt' # "walk"
      BY <3>1 DEF WalkInv
    <3>2. CASE rt' = "walk" /\ at' = 1 /\ msg' = original /\ Reading'
      BY <1>0, <3>2 DEF WalkInv
    <3>3. CASE rt' = "walk" /\ at' = 2 /\ step' = "enabled" /\ Turned(msg')
      <4>1. PICK m \in Copied : m = msg' /\ Turned(m)
        BY <2>1, <3>3
      <4>2. Turned(m)' /\ Passing(m)' /\ Reading'
        BY <1>0, <3>3, <4>1 DEF Turned, Passing, Reading
      <4>. QED BY <3>3, <4>2 DEF WalkInv
    <3>. QED BY <2>0, <3>1, <3>2, <3>3
  <2>3. AsMeantInv'
    <3>1. CASE rt' = "walk"
      BY <3>1 DEF AsMeantInv, AsMeant
    <3>2. CASE rt' # "walk"
      <4>1. PICK low \in seenT, high \in seenT, added \in seenT :
              Transposed(original, low, high, added) = {}
        BY <1>0, <1>6, <3>2, TransposeStep
      <4>2. rt' = "dropped"
        BY <2>0, <3>2
      <4>3. PICK c : c = selection
        OBVIOUS
      <4>4. Meant(original, c, low, high, added) = {}
        BY ONLY <4>1, MeantIs
      <4>5. c \in seen
        BY <1>0, <4>3 DEF MidiInIInv, SeenInv
      <4>6. Became' = Meant(original', c, low, high, added)
        BY <1>0, <4>2, <4>4 DEF Became
      <4>. QED BY <1>0, <4>1, <4>5, <4>6 DEF AsMeantInv, AsMeant
    <3>. QED BY <3>1, <3>2
  <2>. QED BY <1>1, <1>2, <1>3, <1>5, <2>1, <2>2, <2>3 DEF MidiInIInv
<1>7. CASE at # 1
  <2>1. PICK m \in Copied : Turned(m) /\ Passing(m)
    BY <1>0, <1>7 DEF MidiInIInv, WalkInv
  <2>2. Through(m)
    BY <1>0, <1>7, <2>1, DropRealOneStep, RedirectStep, AcceptStep, DropRestStep
  <2>3. PICK low \in seenT, high \in seenT, added \in seenT :
          Transposed(original, low, high, added) = {m}
    BY <2>1 DEF Turned
  <2>4. \A c : Meant(original, c, low, high, added) = Selected(m, c)
    BY ONLY <2>3, MeantIs
  <2>5. WalkInv'
    <3>1. CASE rt' # "walk"
      BY <3>1 DEF WalkInv
    <3>2. CASE rt' = "walk"
      <4>1. at' \in {at, at + 1} /\ Passing(m)' /\ Reading'
        BY <2>2, <3>2 DEF Through
      <4>2. Turned(m)' /\ at' # 1
        BY <1>0, <1>7, <2>1, <4>1 DEF Turned
      <4>. QED BY <4>1, <4>2 DEF WalkInv
    <3>. QED BY <3>1, <3>2
  <2>6. AsMeantInv'
    <3>. SUFFICES ASSUME rt' # "walk", \E W \in OneWrite : seen \subseteq W PROVE AsMeant'
      BY <1>0 DEF AsMeantInv, AsMeant
    <3>1. PICK c \in seen : Selected(m, c) = Became'
      BY <2>2 DEF Through, Became
    <3>2. Became' = Meant(original', c, low, high, added) /\ c \in seen'
      BY <1>0, <2>4, <3>1
    <3>. QED BY <1>0, <2>3, <3>2 DEF AsMeant
  <2>7. msg' \in Copied
    BY <2>2 DEF Through
  <2>. QED BY <1>1, <1>2, <1>3, <1>5, <2>5, <2>6, <2>7 DEF MidiInIInv
<1>. QED BY <1>6, <1>7

LEMMA CheckDoneStep ==
  ASSUME NEW w, Writers = {w}, MidiInIInv(w), CheckDone
  PROVE  MidiInIInv(w)'
<1>0. /\ rt = "walk" /\ at = 6 /\ original \in Message
      /\ seen \subseteq 0 .. 17 /\ rt' = "passed"
      /\ UNCHANGED <<at, step, msg, original, seen, seenT, chain, selection, semitones, writing>>
  BY DEF MidiInIInv, MidiInTypeOK, CheckDone, Order, settings
<1>1. MidiInTypeOK' /\ WritingInv(w)' /\ SeenInv(w)' /\ WalkInv'
  BY <1>0 DEF MidiInIInv, MidiInTypeOK, WritingInv, SeenInv, WalkInv
<1>2. ChainInv(w)'
  <2>1. \A x : ChannelFor(w, x)' = ChannelFor(w, x) /\ SemitonesFor(w, x)' = SemitonesFor(w, x)
    BY <1>0 DEF ChannelFor, SemitonesFor
  <2>. QED BY <1>0, <2>1, ChainKept DEF MidiInIInv
<1>3. AsMeantInv'
  <2>. SUFFICES ASSUME NEW W \in OneWrite, seen \subseteq W PROVE AsMeant'
    BY <1>0 DEF AsMeantInv
  <2>1. PICK m \in Copied : Turned(m) /\ Passing(m)
    BY <1>0 DEF MidiInIInv, WalkInv
  <2>2. W = {0, 17} /\ msg = m /\ 0 \in seen
    BY <1>0, <2>1 DEF Passing, OneWrite
  <2>3. PICK low \in seenT, high \in seenT, added \in seenT :
          Transposed(original, low, high, added) = {m}
    BY <2>1 DEF Turned
  <2>4. Meant(original, 0, low, high, added) = {m}
    <3>1. Meant(original, 0, low, high, added) = Selected(m, 0)
      BY ONLY <2>3, MeantIs
    <3>2. 0 \in 0 .. 17
      OBVIOUS
    <3>3. Selected(m, 0) = {m}
      BY ONLY <3>2, <2>1, SelectedIs
    <3>. QED BY ONLY <3>1, <3>3
  <2>5. Became' = Meant(original', 0, low, high, added) /\ 0 \in seen'
    BY <1>0, <2>2, <2>4 DEF Became
  <2>. QED BY <1>0, <2>3, <2>5 DEF AsMeant
<1>. QED BY <1>1, <1>2, <1>3 DEF MidiInIInv

-----------------------------------------------------------------------------
LEMMA MidiInNextHolds ==
  ASSUME NEW w, Writers = {w}, MidiInIInv(w), [MidiInNext]_midiInVars
  PROVE  MidiInIInv(w)'
<1>1. CASE \E n \in Selections : BeginChannel(w, n)
  BY <1>1, BeginChannelStep, MidiInAssumption
<1>2. CASE \E s \in Semitones : BeginSemitones(w, s)
  BY <1>2, BeginSemitonesStep, MidiInAssumption
<1>3. CASE \E f \in OneChannel : WriteFlag(w, f)
  BY <1>3, WriteFlagStep
<1>4. CASE WriteChannel(w) \/ WriteEnabled(w) \/ WriteValue(w) \/ SetDone(w)
  BY <1>4, WriteChannelStep, WriteTranspositionStep, SetDoneStep
<1>5. CASE \E m \in Received : Receive(m)
  BY <1>5, ReceiveMidiStep
<1>6. CASE Check \/ CheckDone \/ HandleMessage
  BY <1>6, CheckStep, CheckDoneStep, HandleMessageStep
<1>7. CASE UNCHANGED midiInVars
  <2>1. UNCHANGED <<chain, selection, semitones, writing, rt, at, step, msg, original, seen, seenT>>
    BY <1>7 DEF midiInVars
  <2>2. MidiInTypeOK' /\ WritingInv(w)' /\ SeenInv(w)'
    BY <2>1 DEF MidiInIInv, MidiInTypeOK, WritingInv, SeenInv
  <2>3. \A x : ChannelFor(w, x)' = ChannelFor(w, x) /\ SemitonesFor(w, x)' = SemitonesFor(w, x)
    BY <2>1 DEF ChannelFor, SemitonesFor
  <2>4. ChainInv(w)'
    BY <2>1, <2>3, ChainKept DEF MidiInIInv
  <2>5. WalkInv' /\ AsMeantInv'
    BY <2>1, MoreSeen DEF MidiInIInv
  <2>. QED BY <2>2, <2>4, <2>5 DEF MidiInIInv
<1>. QED BY <1>1, <1>2, <1>3, <1>4, <1>5, <1>6, <1>7 DEF MidiInNext

(* With one thread that sets, the filters are at every moment what its     *)
(* settings, done and in hand, make of them, and a message in the walk is  *)
(* what the filters behind it mean.                                        *)
THEOREM MidiInInvariant == ASSUME NEW w, Writers = {w} PROVE MidiInSpec => []MidiInIInv(w)
<1>1. MidiInInit => MidiInIInv(w)
  BY MidiInInitHolds
<1>2. MidiInIInv(w) /\ [MidiInNext]_midiInVars => MidiInIInv(w)'
  BY MidiInNextHolds
<1>. QED BY <1>1, <1>2, PTL DEF MidiInSpec

(* A message that the process thread filters while one other thread        *)
(* changes channel and transposition becomes what the selection and the    *)
(* transpositions in force meanwhile mean, unless a change of channel that *)
(* takes several effective writes comes in between.                        *)
THEOREM MessagesFiltered == ASSUME NEW w, Writers = {w} PROVE MidiInSpec => []FilteredAsMeant
<1>1. MidiInIInv(w) => FilteredAsMeant
  <2>. SUFFICES ASSUME MidiInIInv(w) PROVE FilteredAsMeant
    OBVIOUS
  <2>1. ASSUME NEW c \in seen, seen = {c} PROVE \E W \in OneWrite : seen \subseteq W
    <3>1. c \in 0 .. 17
      BY <2>1 DEF MidiInIInv, MidiInTypeOK
    <3>2. CASE c \in {0, 17}
      BY <2>1, <3>2 DEF OneWrite
    <3>3. CASE c \in {1, 17}
      BY <2>1, <3>3 DEF OneWrite
    <3>4. CASE c \in 2 .. 16
      BY <2>1, <3>4 DEF OneWrite
    <3>. QED BY <3>1, <3>2, <3>3, <3>4
  <2>. QED BY <2>1 DEF MidiInIInv, AsMeantInv, FilteredAsMeant
<1>. QED BY <1>1, MidiInInvariant, PTL

(* When midi_filter_one_channel_set and midi_filter_transposition_set have *)
(* returned, the five filters are those of the last arguments.             *)
THEOREM FiltersSet == ASSUME NEW w, Writers = {w} PROVE MidiInSpec => []SetAsAsked
<1>1. MidiInIInv(w) => SetAsAsked
  <2>. SUFFICES ASSUME MidiInIInv(w), writing[w] = Nothing
       PROVE  chain = [SwitchedTo(selection) EXCEPT !["transposition"] =
                         [@ EXCEPT !.enabled = semitones # 0, !.rvalue = semitones]]
    BY DEF SetAsAsked
  <2>1. \A x : ChannelFor(w, x) = selection /\ SemitonesFor(w, x) = semitones
    BY DEF ChannelFor, SemitonesFor, Nothing
  <2>2. /\ chain \in [Filters -> Filter] /\ selection \in 0 .. 17
        /\ "transposition" \in Filters
    BY DEF MidiInIInv, MidiInTypeOK, Filters
  <2>3. PICK c \in 0 .. 17 : c = selection
    BY ONLY <2>2
  <2>4. /\ SwitchedTo(c) \in [Filters -> Filter]
        /\ SwitchedTo(c)["transposition"] = NewChain["transposition"]
        /\ \A f \in OneChannel :
             SwitchedTo(c)[f] = [NewChain[f] EXCEPT
                                   !.enabled = Switched(f, c),
                                   !.channel = IF f = "redirect" THEN c ELSE @]
    BY SwitchedToIn
  <2>5. chain["transposition"] = [SwitchedTo(c)["transposition"] EXCEPT
                                    !.enabled = semitones # 0, !.rvalue = semitones]
    BY <2>1, <2>4 DEF MidiInIInv, ChainInv
  <2>6. \A f \in OneChannel : chain[f] = SwitchedTo(c)[f]
    <3>1. ASSUME NEW f \in OneChannel
          PROVE  chain[f] = [NewChain[f] EXCEPT
                               !.enabled = Switched(f, c),
                               !.channel = IF f = "redirect" THEN c ELSE @]
      <4>1. ChannelFor(w, f) = c /\ ChannelFor(w, "channel") = c
        BY <2>1, <2>3
      <4>. QED BY <4>1 DEF MidiInIInv, ChainInv
    <3>. QED BY <2>4, <3>1
  <2>7. \A f \in Filters : f = "transposition" \/ f \in OneChannel
    BY DEF Filters, OneChannel
  <2>8. chain = [SwitchedTo(c) EXCEPT !["transposition"] =
                   [SwitchedTo(c)["transposition"] EXCEPT
                      !.enabled = semitones # 0, !.rvalue = semitones]]
    BY <2>2, <2>4, <2>5, <2>6, <2>7
  <2>. QED BY <2>3, <2>8
<1>. QED BY <1>1, MidiInInvariant, PTL
=============================================================================
