# A specification of FSTHost

FSTHost runs one or several Windows VST plugins under Wine as JACK clients.
This directory specifies it in TLA+: what its threads do to each other, what
its files and its control protocol carry, and what may be relied on. TLC
checks the modules on small instances, TLAPS proves for every value of their
constants the safety properties and the action properties that the runs check
(section 5 says for how many callers, controllers and senders); liveness is
model-checked.

Paths below are those of the repository, with `src/` in front; `vstwin.c` is
`src/fst/vstwin.c`, `jfst.c` is `src/jfst/jfst.c`, and so on.

1. [The system](#1-the-system)
2. [Modules](#2-modules)
3. [Runs](#3-runs)
4. [Fairness](#4-fairness)
5. [Proofs](#5-proofs)
6. [Where code and documentation disagree](#6-where-code-and-documentation-disagree)
7. [What is not modelled](#7-what-is-not-modelled)
8. [Plan](#8-plan)

## 1. The system

### Threads

| Thread | Started by | What it does |
|---|---|---|
| main | `fsthost.c` | GTK or GLib main loop: user interface, TCP server, signals, starts and stops everything |
| event | `fst_thread_new` | a Windows message loop; the only thread that enters a plugin other than to process audio; one for all plugins, or with `-T` one for each |
| process | JACK | `jfst_process`, once a cycle, real time: takes no lock, only tries |
| notification | JACK | graph order, buffer size, session: `jack.c` |
| plugin's own | the plugin | calls back through `amc.c` from any of the above |
| others | outside | a control application over SysEx, others over TCP (`fsthost_ctrl.pl`) |

### Components

| Component | State | Operations | Meets the others through |
|---|---|---|---|
| Calls on the plugin (`vstwin.c`, `fst_int.h`) | `FST`, `event_call`, `FST_THREAD` | `fst_call*`, `fst_open`, `fst_close`, dispatcher, handler | `fst->lock`, `event_call.lock`, a condition variable, an unlocked pointer |
| Bypass and process cycle (`jfst.c`, `process.c`) | `jfst->bypassed`, mains of the plugin | `jfst_bypass`, `jfst_process` | unlocked flag; `process_lock`, which the process thread only tries |
| Event queue (`eventqueue.c`) | ring of events, two byte-sized indices | `event_queue_send`, `event_queue_get` | written by process and notification thread, read by the event thread, no lock |
| SysEx output (`sysex.c`) | `sysex_want`, `sysex_lock`, `sysex_sent` | `jfst_send_sysex`, `jfst_sysex_rt_send` | hand-shake with the process thread |
| SysEx input (`sysex.c`, `jfst.c`) | `sysex_ringbuffer`, `sysex_dump`, `sysex_last`, identifier | `jfst_queue_sysex`, `jfst_sysex_handler`, `jfst_sync2sysex`, `jfst_sysex_notify` | byte ring; dump shared with GTK's dumps |
| MIDI input (`process.c`, `midifilter.c`) | list of filters | `midi_filter_check`, `midi_filter_one_channel_set`, `midi_filter_transposition_set` | list walked in real time, written field by field by others |
| MIDI output (`jamc.c`, `process.c`) | ring of time-stamped events | `jfstamc_queue_midi`, `process_midi_output` | frame times, which wrap |
| MIDI learn (`process.c`, `jfst.c`, `jamc.c`) | `midi_learn`, `map` | learning and applying a CC | three threads, no lock |
| State files (`fxb.c`, `fps.c`) | a file, the plugin's program and chunk | save, load | many calls on the plugin, between which the user plays |
| Control server (`serv.c`, `proto.c`) | client slots, what each was told | poll, accept, serve, `news` | TCP; several applications set what they mirror |
| Host (`fsthost.c`, `node.c`) | list of plugins, of threads | start, stop, signals | everything |
| GTK window (`gjfst.c`) | widgets, what they showed last | callbacks, `idle_cb` | reads the host's state and writes it back |
| JACK client (`jack.c`) | ports, connections | registration, callbacks | process and notification thread |
| LASH, XML database, CPU usage, log, Base64, Perl menus | – | – | leaves |

### What is hard

*Waiting.* Every operation is handed to the event thread by a pointer to the
caller's stack frame; SysEx is handed to the process thread by a type number;
both wait on a condition variable without a predicate.
*Unlocked data.* `bypassed`, the event queue, the filters, the map, `sysex_dump`
are read by one thread while another writes them.
*Mirrors.* GTK, the SysEx controller and TCP applications each keep a copy of
the host's settings and write it back.
*Numbers.* Ring indices at the end, frame times that wrap, words of a file that
are byte-swapped once too often.
*Life cycle.* Plugins are opened, resumed, replaced and closed while others use
them.

### What must hold

* **Calls**: a call is executed once, before its caller goes on, on a record that
  still exists; it returns.
* **Bypass**: the process thread never plays a suspended plugin and is never in a
  cycle while the plugin is switched; flag and plugin agree when nobody is
  switching; the last request stands.
* **Event queue**: a bounded FIFO that loses the oldest; it drains.
* **SysEx output**: a sender goes on only after its message was written; nobody
  waits for ever while the port is connected.
* **SysEx input**: sizes and messages keep step; what is asked is done and
  answered; a controller that listens ends up with the settings in force.
* **MIDI input**: a message is filtered as some setting says that was in force.
* **MIDI output**: events leave exactly one cycle late and none stays.
* **Files**: what was saved comes back; foreign and damaged files do no harm.
* **Control**: one answer a command; slots come back; mirrors come to agree.
* **MIDI learn**: what was moved is mapped to what was turned, once for each learning.
* **Host**: it ends when it is told to, with everything closed; nothing that was
  freed is used; a signal is not lost.

`PROJECT.json` lists under "hazards" each line where one of these could go
wrong and the property that would notice.

## 2. Modules

| Module | Models | Corresponds to |
|---|---|---|
| `FstState` | what a call does to a plugin instance | `fst`: a record for `struct FST`; `Effects(f, k)`: the switch of `fst_event_handler`; `Ready`: its early returns |
| `CallService` | the service promised to callers: a call is pending, is executed, returns | abstract |
| `EventCall` | `fst_event_call`, `fst_event_dispatcher`, `fst_event_handler`, `fst_open`/`fst_close`, `fst_thread_add`/`_remove` | one action between two lock operations or accesses to shared memory; `pc[c]` is the place in the code, `ecCall` the pointer `event_call.call`, `cur` the dispatcher's local copy |
| `Bypass` | `jfst_bypass`, `jfst_init`/`jfst_close` as far as they switch, the GTK mirror, a whole process cycle | each reading and each writing of `bypassed` is an action of its own; `rt` is the place in `jfst_process` |
| `EventRing`, `EventQueue` | the ring, calls as single steps | `eq_index_next`, `front`, `rear` as in the code, indices modulo 256 |
| `EventFifo` | the bounded FIFO that drops its oldest | abstract |
| `EventQueueRace` | the same code access by access, two producers and a consumer: operations only, which `JfstIdle` composes | `reg`, `creg`: indices in registers; an index that was just computed may be loaded again, as the compiler may do |
| `JfstIdle` | what JACK's threads leave for `jfst_idle` and what it does with it: the events of `EventQueueRace` from the MIDI messages and graph changes that cause them to their effect, and MIDI learn | `pc[p]`, `cpc`: places in the queue's code; `ipc`: the place in `jfst_idle`, or in `jfstamc_automate`; `wait`, `cc`, `param`, `map` are the fields of `MidiLearn`; `lpc`: the next of the three stores of `jfst_midi_learn`; `moving`, `held`: what a thread has in hand between a test and a write; `button`, `shown`: GTK's button and `idle_cb`'s memory |
| `Host` | `WinMain`, the main loop and the signal handlers of `fsthost.c`, `node.c`, `jfst_init` and `jfst_close`, the lists and walks of `vstwin.c` | `pc`, `n`, `stack`: the main thread, its loop over the nodes, and the calls it waits for (a signal handler may be on top); `list[t]`: the FSTs of an event thread, `at[t]`, `step[t]`: its walk, which holds `th->lock`; `cycle[i]`: the FST that `jfst_process` of host i has in hand |
| `SysexSend` | `jfst_send_sysex` and `jfst_sysex_rt_send` | a thread in `"name"` holds `sysex_lock` and calls the event thread |
| `SysexIn` | the ring `sysex_ringbuffer`, the handler, `jfst_send_sysex` for the event thread and GTK's, `jfst_idle`'s notifications | `ring` alternates sizes and messages as the bytes do; a dump holds `Fields` settings, of which `Channel` is one, filled in, put in force and compared one a step; `stage[t]`: where a thread is in `jfst_send_sysex`, `lock`: who has `sysex_lock`; `pc = "undefined"` stands for a message read before it was written |
| `MidiFilter`, `MidiIn` | the built-in filters and `midi_filter_check`; setters field by field | `chain[f]` is the filter of that use; the fields of one setting may become visible in any order, and the walk reads each where the code does: `rvalue` for both ends of the range and again to add it |
| `MidiOut` | `jfstamc_queue_midi`, `process_midi_output` | times modulo `Modulus` (2^32); `due`, `age` are history |
| `FxFile` | `fst_save_fxfile`, `fst_load_fxfile` | file as 4-byte words, numbers that are distinct whatever the plugin has; a step per call of the plugin: `fxfile`, `step`, `fx`, `origin` are what `file`, `pc`, `io`, `was` are in `StateFile` |
| `StateFile` | `jfst_new`, `jfst_load`, `fps_save`, `fps_load`, `jfst_load_state`, over several sessions | file as elements; a step per element; a plugin's `prog` is its own, `current` the FST's `current_program`, which `NoticeProgram` brings up to date; `SixDecimals`: what `%f` leaves of a parameter |
| `Control` | `serv_poll`, `serv_client_get_data`, `news`, and applications | `slot`, `last` (`changes_last`); `"news"` is three readings of the value; an application is `"closed"` until the server has read its end, and `"reset"` when what it left unread, or was sent after its end, has made of its end an error |
| `MCEventCall`, `MCJfstIdle`, `MCMidiIn`, `MCStateFile` | constants for TLC | |
| `EventCall_proofs`, `ProcessThread_proofs` (`Bypass`, `EventQueue`), `JfstIdle_proofs`, `Sysex_proofs` (`SysexSend`, `SysexIn`), `Midi_proofs` (`MidiOut`, `MidiIn`), `Files_proofs` (`StateFile`, `FxFile`), `Control_proofs`, `Host_proofs` | theorems about the modules in brackets | |

How they fit: `EventCall` is the floor. What it shows – a call is one execution by
the event thread, mutually exclusive with others, under `fst->lock` – lets
`Bypass`, `SysexSend`, `FxFile` and `StateFile` make a call one step of the
event thread, and keep what is interleaved around it. `EventQueue` implements
`EventFifo`, `EventCall` implements `CallService`, both by `INSTANCE ... WITH`; that
the queue of `JfstIdle` implements `EventFifo`, too, as long as nothing is lost, is a
theorem.
`Host` puts several FSTs on the event threads, with the calls that the main thread
makes on them reduced to what `CallService` promises. `JfstIdle` extends
`EventQueueRace`: the queue's memory accesses and the threads at its two ends.
`SysexIn` has the hand-shake of `SysexSend` inside it for the answers; `StateFile`
takes an FXB as a whole, `FxFile` opens it up.

Data are abstracted to what the properties tell apart: a program number is one
of two, a chunk is a value, a message is a tuple of its kind and content, text
does not occur. The control flow – guards, early returns, order of assignments,
error paths – is kept.

Definitions commented "Mutant of X" are X with a plausible bug; they are used by
no specification and record, through `PROJECT.json`, that each property can fail.

## 3. Runs

| Run | States | Bounds | Shows |
|---|---|---|---|
| `EventCall` | 130 k | two callers (main, JACK), four kinds of call, two own calls of the event thread, two arguments | `AnsweredBeforeReturn`, `CallRecordAlive`, `HandledOnce`, `CallsReturn`, and the implementation of `CallService` with its liveness |
| `Bypass` | 4.5 k | main thread controls, GTK button mirrors | `TouchOnlyRunning`, `Excluded`, `Settled`, `LastRequestStands`, `BypassReturns` |
| `EventQueue` | 2.4 k | 4 slots, 3 events | `NewestArrives`, `ImplementsFifo` |
| `JfstIdle` | 1.3 M | 3 slots, 2 producers, 5 events, of which one is what an unwritten slot holds, 2 controllers, 1 parameter; in a behaviour either 3 sends, or 1 send and 2 learnings, or 2 learnings with GTK | `Settles`, `LearnsPairs`, `LearningSucceeds` |
| `Host` | 0.63 M | 2 plugins, of which the first may be replaced, on one event thread or two, with GTK and editor or without; 1 closed editor or signal beside the one that ends the host; ports unplugged and plugged at any time | `NothingFreedIsUsed`, `HostEnds`, `EditorsShown` |
| `SysexSend_one` | 199 | one sender, 4 unplugs | `SentBeforeReturn`, `NothingReplaced`, `ReturnsWhenPlugged` |
| `SysexIn` | 0.75 M | 2 settings of 2 values, the bypass and the channel; ring of 1 message; 2 messages without GTK dumps, 1 with; 1 change or GTK dump, 1 unplug | `FramesAligned`, `DumpObeyed`, `Answered`, `ControllerCatchesUp` |
| `MidiIn` | 4.0 M | channel selections 0, 1, 2, 3, 200; transpositions -1, 0, 1; notes at both ends of the range and a message that is none; at most 2 selections met by a message (`TwoSelections`) | `FilteredAsMeant`, `SetAsAsked` |
| `MidiOut` | 1.6 M | cycles of 3 frames, 7 cycles, ring of 4, times modulo 32 | `OneCycleLate`, `NoneStuck` |
| `FxFile` | 0.98 M | 3 presets, 3 parameters, with and without chunks, 2 edits, three files to begin with | `Restored`, `SavingOnlyLooks`, `OwnFilesOnly` |
| `StateFile` | 2.8 M | 1 CC, 2 programs, 1 filter, 5 moves, 2 plugins, 3 command lines, one of them with `-b`, 3 files | `RoundTrip`, `ForeignIgnored`, `HostPlays` |
| `Control` | 285 k | 2 applications, 1 or 2 slots, 2 values, 2 edits, echoing widgets or not | `OneAnswer`, `Answered`, `SeatsComeBack`, `MirrorsCatchUp` |

The type invariant of each module is `TypeOK`, with a prefix where two modules
are proved about in one (`QueueTypeOK`, `SendTypeOK`, `MidiInTypeOK`,
`FxTypeOK`), as `Spec` is then `QueueSpec`, `SendSpec`, `MidiInSpec`, `FxSpec`; in most runs it is a conjunct of
another property (`NothingFreedIsUsed`, `Settles`, `FilteredAsMeant`,
`FramesAligned`, `NoneStuck`, `Restored`, `HostPlays`, `OneAnswer`), and for
`EventCall` and `EventQueue` it is proved by itself.

Why the bounds are enough:

* `EventCall`: with two callers one can post while the other waits, which is all
  `event_call` tells apart; `event_call.lock` makes more callers wait at one place.
  The proofs cover any number.
* `EventQueue`, `JfstIdle`: indices enter only through equality and
  successor. Three slots have every relative position of front and rear; three
  sends overflow the ring of three while one producer is inside the other's
  send. The proofs of `EventQueue` cover every size from 2 to 255.
  An event may be queued twice in both modules: `memcmp` (`eventqueue.c:18`)
  compares the padding of `Event` too, which nobody sets.
* `JfstIdle`, learning: the second learning meets what the first has left; two
  controllers tell the one that was noted from the one moved last. The proofs
  cover any number of each.
* `Host`: the second plugin is the first to be last in a list and not first,
  to be left when the first has failed, and to be closed while the other one
  runs. One signal or closed editor can fall between any two steps, the end by
  SIGINT or a client's kill besides it.
* `SysexIn`: a ring of one message makes every second message meet a full ring;
  two messages are a DUMP and what comes in its way. More messages repeat
  these, as nothing counts them. With GTK's thread sending, one message
  (`MaxWithGtk`) is enough for each to meet the other. The channel is the one
  setting that a dump writes back, and the bypass the one that a state file
  leaves alone; the others go through the same steps as one of these.
* `MidiIn`: 0 is "all channels", 200 is none, and between 1, 2 and 3 lie a
  selection that is redirected, one that is not and a change from one to the
  other. Notes 0 and 127 are the ends of the range, one semitone up and one down
  the steps across each. No three of these selections are one write apart, so that
  `FilteredAsMeant` claims nothing of a message that has met three, and the
  constraint `TwoSelections` leaves out nothing it speaks of.
* `MidiOut`: three frames leave an event before, at and after another; the frame
  time starts at 0 or one cycle before it wraps, and `Modulus` is longer than
  the behaviour, as 2^32 is longer than any pause. The proofs cover any length of
  a cycle and number of cycles.
* `FxFile`: three presets distinguish first, last and one between; three
  parameters the same. There are as many of the one as of the other because a
  regular bank comes back only then (`Restored` says so, section 6).
* `StateFile`: five moves are a save, a change, a restart, a load, and a change
  or an FXP in between; a second plugin is the one the FXP brings.
* `Control`: one slot makes the second application wait in the backlog and take a
  used slot; two make both be served in one poll. The code's three add nothing,
  as slots meet only through the value and through being full. The proofs cover
  any number.

`CHECK_DEADLOCK FALSE` is given where the bounded history ends: all messages
sent, all cycles run, the host gone (`FxFile`, `StateFile`, `Control`, `SysexIn`,
`MidiOut`, `JfstIdle`, `Host`). Elsewhere deadlock is checked, and means that threads
wait for each other.

Exceptions written into properties, each because the code really fails there:

* `MirrorsCatchUp` excepts `misled` slots: the value moved between two of the
  readings of `news`, or came back before the application could hear of it to
  what the slot remembers. `EveryChangeTold` is the same without it and is violated.
* `ControllerCatchesUp` excepts `adrift`: the value moved between store and
  notification, or while nobody was connected (`jfst.c:153`).
* `DumpObeyed` excepts dumps from the GTK thread, which fill the record that
  `jfst_sync2sysex` reads (`sysex.c:168`). `DumpObeyedAnyway` is violated.
* `Answered` of `SysexIn` ends with the connection, and excepts `Embraced` states, in
  which the main thread has `sysex_lock` and asks the event thread for the
  program's name while that one is in `jfst_send_sysex` (`NoEmbrace`, section 6).
* `FramesAligned` speaks of all states before `"undefined"`, which is reachable:
  `jfst_sysex_handler`'s loop asks only whether there is anything to read
  (`sysex.c:269`) and may come between the two writes of `jfst_queue_sysex`
  (`:157`, `:160`). From there nothing is known.
* `FilteredAsMeant` excepts changes of channel that take several effective
  writes; `AsMeant`, without the exception, is violated (`midifilter.c:202`).
* `HostPlays` excepts hosts that loaded an FXP or FXB (`FxPlays`, section 6).
* `RoundTrip` speaks of parameters to six decimals, which is what `%f` writes
  (`fps.c:376`), and of the program that the FST took for the current one; it excepts
  loads that begin before the event thread has noticed the plugin's own change of
  program. `ParamsComeBack` and `ProgramComesBack` are violated.
* `SavingOnlyLooks` excepts the program selected after a regular bank was saved that
  began at another program than 0. `FoundBack` is violated.
* `SeatsComeBack` excepts applications that end with a command of theirs unanswered
  (`Heard`): the answer draws a reset, after which `serv_poll` may pass over the slot
  for ever. `AllSeatsComeBack` is violated.
* `Settles` excepts `spoiled` behaviours: the ring overflowed, two threads were
  past the test for duplicates at once, or a slot was read before it was filled -
  by `jfst_idle`, or by the other thread's test, which then takes what the slot
  held before for the event sent last, and its own for a duplicate.
  That `jfst_idle` comes to find the queue empty has no exception.
* `LearnsPairs` and `LearningSucceeds` except `hasty` ones: a store of
  `jfst_midi_learn` fell while another thread stood between its test and its write, or
  `jfst_idle` made its test between the stores that begin a learning. `FreshPairs`
  says what then goes wrong, and is violated.
  `LearningSucceeds` speaks of learnings that a client begins, as GTK's button
  cancels its own, and counts one that the button cancels with its own as stopped
  (section 6).
* `NothingFreedIsUsed` and `HostEnds` except hosts in which an FXP has replaced an FST
  (that `fst_thread_remove` may not find, or that keeps its callback), and
  `HostEnds` those that SIGUSR1 has locked up or a failed load has crashed.
  `HostEnds` and `EditorsShown` assume `PortsComeBack`: no control port stays
  unplugged for ever under a `jfst_idle` that sends. `HostEndsUnplugged` is violated.
  `LateUsers = FALSE` keeps SIGUSR1 and closed editors out of the host's end.

## 4. Fairness

Weak fairness where a thread's next step, once possible, stays possible; strong
fairness where it needs a lock that others take and drop. Nothing outside the
program – users, applications that connect or die, ports that are plugged,
plugins that change their mind – is ever obliged to act.

* *Event thread* (`EventCall`, `SysexIn`, `JfstIdle`, `Host`): a Windows timer
  wakes it every 30 ms (`vstwin.c:758`), and each pass visits
  every plugin and runs `jfst_idle`. `JfstIdle` asks for strong fairness of
  `IdleStep`: knobs may be turned between any two ticks, but the timer ticks in
  between.
* *Callers* (`EventCall`, strong): all locks are dropped after a bounded number of
  steps, and the operating system's mutexes do not pass over a waiting thread for
  ever.
* *Main thread* (`Host`, strong): it competes for `th->lock`, which a walk takes
  and drops again and again, and `jack_deactivate` waits for the end of a cycle
  that recurs. In `JfstIdle` the second and the third store of `jfst_midi_learn`
  come, and in `SysexIn` the next step of a GTK dump (weak).
* *Process thread* (`Bypass`, `SysexSend`, `SysexIn`, `Host`, and, for `NoteCC` and
  `Send`, `JfstIdle`): JACK calls it once a
  cycle. `SysexSend` asks for strong fairness of the sending step, because a
  sender may hold `sysex_lock` when a cycle comes by, but not always. `Bypass` asks
  for strong fairness of the event thread's `LockProcess`: it competes with the
  process thread, which holds `process_lock` only during a cycle.
* *Server* (`Control`): `serv_poll` is called by the main loop again and again.
* *Applications* (`Control`): `fsthost_ctrl.pl` asks for news on a timer of one
  second and reads what comes back.
* `EventCall_proofs` and the other proofs use no fairness; `MidiOut`,
  `FxFile`, `StateFile`, `MidiIn`, `EventQueue` have only safety properties.

## 5. Proofs

All are checked by `tlapm` to the last leaf, from the named assumptions of the
modules on their constants and nothing else. The leaves are small: the provers
find all of them with `--stretch 0.15`, too, a seventh of the time they are given.

**`EventCall_proofs`** (any set of callers, any set of user and own calls,
plugins whose entry point fails included). The invariant is
`IInv == TypeOK /\ LockInv /\ HandOffInv /\ LifeInv /\ OwnWorkInv`.
`AnsweredBeforeReturn` alone is not inductive: that `"woken"` implies served
needs that the signal follows the clearing of the pointer, which follows the
execution (`HandOffInv`); that the record is alive needs that only one caller is
inside (`LockInv`); and that the handler does execute what it is given, instead
of returning early, needs that calls are only made in stages of the plugin's
life in which they are allowed (`LifeInv`, `OwnWorkInv`), because an early return
is answered like an execution. `TypeOK` and `LockInv` hold even with spurious
wake-ups and re-entry (`AnySpec`); the rest is proved for `Spec`.
`Implements` is the refinement: with that invariant every step of the hand-off is
a step of `CallService` or none. Posting, waiting and signalling are none; the
handler's switch is `Serve` for the caller whose record it follows, which the
invariant says is waiting and unserved, or `Own` for a call of the event thread.
Theorems: `TypeCorrect`, `CallsAreSerialized`, `Invariant`, `Answered`,
`RecordAlive`, `Once`, `NoneDropped`, `Implements`.

**`ProcessThread_proofs`, `Bypass`** (for a single thread `u` that runs
`jfst_bypass`, `Controls(u)`). `IInv(u)` says at each point of `jfst_bypass` where
flag and plugin are (`FlagInv`) and what was asked (`RequestInv`), that a process
cycle excludes the event thread (`LockInv`), and that the plugin is on in a cycle
that has found the flag off (`CycleInv`): a switch-off needs `process_lock`,
hence the end of the cycle. Theorems: `BypassInvariant`, `NeverTouchesSuspended`,
`FlagAndPluginAgree`, `RequestStands`, and, for any number of controllers,
`AudioExcluded`.

**`ProcessThread_proofs`, `EventQueue`** (any number of slots from 2 to 255, any
events). The refinement mapping reads the queue's contents off the ring:
`RingIsFifo == QueueSpec => ImplementsFifo`. The lemmas say that `eq_index_next`
is the successor modulo the size, that writing in front appends, that moving
rear takes the head, and that an overflow does both. The strengthening needed
is that the newest event is in the slot at `front` unless the ring is empty.
Theorems: `RingInvariant`, `QueueTypes`, `NewestKept`, `RingIsFifo`.

**`JfstIdle_proofs`** (any controllers, parameters, events, loads). `LearnInv` says that,
unless somebody was `hasty`, `cc`, `param` and what a thread is about to write
into them belong to the learning that goes on (`NotedNow`), that what `jfst_idle`
has tested still holds when it is used (`TestedHolds`: only `jfst_midi_learn`
resets `cc` and `param`, and it is hasty there), and that a learning with a pair
is over (`OneEach`). That the three stores of `jfst_midi_learn` are three steps costs
nothing more: a test between them is hasty. One lemma for each action; the queue's leave all of it alone.
`StillLearning` adds that `wait` is cleared only for a learning that has its pair.
The invariant of the queue is `QueueInv`, for any number of slots from 2 to 255 and
any number of sends. `Pending(i)` says which slots hold an event that is on its way:
those up to `Newest`, counted from `rear` by `Gap`, where a slot that a send has
announced does not count before it is filled, and a ring that has just been
announced full counts all but one. With that, each step of a producer and of
`jfst_idle` but three leaves the pending slots as they are: filling a slot adds the
newest, taking one removes the oldest, and when `rear` is stored all come one
nearer. `Arrives` says of both kinds of request that the last one is
being sent, or is the newest of its kind that is pending, or is being handled or
done, and of new ports that something will connect them. That skipping a
duplicate loses nothing needs `TakenInv`: while the ring is empty the slot at
`front` is the one handled last, and the plugin is still as that event left it.
`RingInv` has what the registers hold and that one send at a time is past the test;
`Doomed` names the one kind of state, just before an overflow, in which the
slots are not in order and nothing has been lost yet.
With the same invariant the racing ring is still `EventFifo`: `Waiting` reads the
events of the pending slots, oldest first, and an event enters at the access that
fills its slot (`WriteSlot`) and leaves at the one that reads it (`TakeEvent`); at
all the other accesses – announcing a slot, storing `rear` – `Waiting` stays as it
is, though `front`, `rear` and the slots do not. `QueueKeeps` says which step is
which, that there is always room, and that the test for duplicates leaves out only
what was sent last. The capacity is `MAX_EVENTS`, one more than when calls do not
overlap, since the slot that is being read counts as well. All this while the
step ends in a state that is `Lossless`: neither `spoiled` nor `Doomed`.
Theorems: `LearnInvariant`, `PairsLearned`, `LearningGoesOn`, `QueueInvariant`,
`IdleTypeCorrect`, `RequestsArrive`, `RaceIsFifo`, `RaceImplementsFifo`.
`IdleTypeCorrect` and `RequestsArrive` are the safety half of `Settles`,
`LearningGoesOn` that of `LearningSucceeds`.

**`Sysex_proofs`, `SysexSend`** (one sending thread `u`, any number of unplugs).
`HandShakeInv(u)`: `sysex_want` is the message of the thread that waits, and who is
woken has been served. Theorems: `SendInvariant`, `SendWaits`, `WantServed`.

**`Sysex_proofs`, `SysexIn`** (any number of settings, any values and capacity, any
number of messages, changes and unplugs). `Aligned` ties the parity of a position
in the ring to what lies there, to the reader's place and to whether the writer is
between its two writes; `Obeying` says how many of the settings of a dump are in
force while `jfst_sync2sysex` goes through them, which is before the event thread's
own dumps can fill the record again, as it is in one place at a time; `MainSilent`,
that in a host without GTK dumps nobody else is in `jfst_send_sysex`. Theorems:
`ConversationInvariant`, `RingAligned`, `DumpsObeyed`.

**`Midi_proofs`, `MidiOut`** (any cycle length, ring size, number of cycles from 1,
and any modulus longer than the behaviour by two cycles). `OneCycleLate` needs to
know what a time stamp modulo 2^32 stands for: `TimeInv` says it is `frame` plus the
event's place relative to it, which the age and the due frame give; `Sorted`, that
the ring is in the order of these places, so that a head that must wait lets nothing
behind it be late; `Prompt`, that without a missed cycle no place is more than a
cycle back. Lemmas on `%` carry the places across the wrap.
Theorems: `OutInvariant`, `LeavesOneCycleLate`, `NoEventStays`.

**`Midi_proofs`, `MidiIn`** (any messages, selections and transpositions, one thread
`w` that sets them, `Writers = {w}`; with two the fields mix and `SetAsAsked` does
not hold). `ChainInv(w)` gives the five filters field by field: a field has the
value of the setting in hand once it has been written, in whatever order, and of the
last one before. `SeenInv` says that a message in the walk was told of every setting
that may be in force. `WalkInv` is what makes `FilteredAsMeant` inductive: for each
of the changes that take one effective write (all channels or none, 1 or none, from
one redirected channel to another) it says what the filters passed so far have made
of the message, and what their letting it pass has shown of the setting – that it
came by `drop_real_one` unchanged, or by `redirect`, or could not have come as far. The
transposition enters three times, tested at either end of the range and added, each
time as one of those in force meanwhile (`Turned`, and `Reading` within one filter).
Theorems: `MidiInInvariant`, `MessagesFiltered`, `FiltersSet`.

**`Files_proofs`, `StateFile`** (any number of CCs, programs, plugins and moves, any
filters and values, any command lines, any files to begin with whose elements the
program can write). `IInv` has three parts. `Phases` and `Opened`: what the host
does when, and that a plugin that no FXP has replaced is the only one there is and
runs once the host has started. `Untouched` and `Ignored`: until the first element of
a file has passed nothing has changed, and no foreign file gets past it. `Saving`,
`Saved`, `Restoring`, `InForce`: the document grows from the settings it was begun
with; element by element of a whole file, `SettingsSoFar` and `SoundSoFar` say which
of the settings are the file's and which are still those from before; `StillRight`
keeps that the FST knew its plugin's program when the load began, on which
`fst_set_program` depends. The lemmas
say at which position each element of a file stands: the map's first, then the
filters, `Last(s)` elements before `midi_pc`. That no recursion over the document
is needed is what the layout gives: the settings are written in one order, so the
position of an element is a sum.
Theorems: `StateInvariant`, `OnePluginPlays`, `ForeignFilesIgnored`,
`SavedIsRestored`.

**`Files_proofs`, `FxFile`** (any number of programs and parameters, any edits). To
load a file safely it must be known of every word that may be taken for the header
of a program what follows it, wherever it stands: `Headed` (a name, and floats that
have been swapped) and `Ended` (all of them, but for the program that is being
written). `Begun`, `Looking` and `Writing` say how far a saving has come – program
`q` of a bank stands at `At(q)` and is `Block`, all before the one in hand – and
`Complete` what a file is that was saved undisturbed. `Reading` says where the loader
may stand, `Reloading` which of the programs the plugin has back (`Back(q)`).
The product in `At` is unfolded only to `At(q + 1) = At(q) + 14 + Params`. That a
float is its own swap's swap, at its two ends, is `FxFloats`.
Theorems: `FxInvariant`, `FxTypeCorrect`, `FxSavedIsRestored`, `FxSavingLooks`,
`FxOwnFiles`.

**`Control_proofs`** (any applications, any number of slots, any values).
`Places`: an application is in one slot, or once in the backlog, or nowhere;
`Polling`: the server only serves slots that are taken, because nobody but the
server frees one; `OneThing(a)`: the command of an application is on the way,
before the server, or answered. One lemma for an application's steps that
leave the server alone, one for each of the server's.
Theorems: `ControlInvariant`, `EachIsAnsweredOnce`.

**`Host_proofs`** (any number of plugins, on one event thread or many, with and
without GTK; editors closed and signals at any time). That nothing freed is used
rests on an order: a node's client is deactivated and closed before its FST leaves
the list, and it leaves the list before it is freed. `StackInv` and `CallInv` keep
the main thread together with the calls it waits for, a signal handler's on top of
them included; `Where` is the place it will be in when they return. `PhaseInv` says
how far the loops of `WinMain` have come in starting and ending, `NodeOK(i)` what
that means for node `i`, `ListInv` that what is open is in the list of its thread
and a walk stays in it. `OrderInv` is needed because `fst_thread_remove` does not
look at the last FST of a list: as long as no FXP has put a second FST into a node,
lists are in the order of the nodes, nodes are closed in that order, and the FST to
be removed is the first that is left. `misused` stays FALSE only if nobody closes an
editor or sends SIGUSR1 while the host ends: `NothingFreed` assumes `~LateUsers`, as
the run does; `ThreadsUseWhatIsThere`, that no event thread walks on a freed FST and
no cycle is in a closed one, needs no such assumption.
Theorems: `HostInvariant`, `Types`, `ThreadsUseWhatIsThere`, `NothingFreed`.

Only model-checked: liveness, which is beyond the prover, as fairness is stated by
ENABLED: `CallsReturn`, `ImplementsLiveService` (its safety half is `Implements`),
`BypassReturns`, `ReturnsWhenPlugged`, `Answered` of `SysexIn` and of `Control`,
`SeatsComeBack`, `MirrorsCatchUp`, `ControllerCatchesUp`, `HostEnds`, `EditorsShown`,
and of `Settles` and `LearningSucceeds` the second halves. And for more than one
writer, controller or sender what section 6 shows to fail.

## 6. Where code and documentation disagree

They are reproduced by replacing constants and property in the cfg named; each
was found violated.

| Property | Take | Change | What happens |
|---|---|---|---|
| `NoneStuckEver` | `MidiOut.cfg` | – | `process.c:47` "we missed a cycle because of xrun" tests an unsigned number for `< 0` after the test for "too far in the future", which a time in the past satisfies. The event stays at the head of the ring and everything behind it waits. |
| `Settled` | `Bypass.cfg` | `Users = {"main", "event"}`, `Mirror = FALSE` | two threads in `jfst_bypass` (`jfst.c:253`) leave flag and plugin disagreeing |
| `LastRequestStands` | `Bypass.cfg` | `Users = {"event"}`, `Mirror = TRUE` | the GTK window copies the flag into its button, whose handler writes it back later (`gjfst.c:714`) |
| `WholeCycle` | `Bypass.cfg` | `Users = {"event"}`, `Mirror = FALSE` | the flag is read again at `process.c:217` and `:229`: a cycle goes out with uncopied, or processed into uncleared, buffers |
| `AnsweredBeforeReturn` | `EventCall.cfg` | `SpuriousSpec`, `UserCalls <- FewUserCalls`, `OwnCalls <- FewOwnCalls` | `pthread_cond_wait` without a predicate (`vstwin.c:271`) |
| `CallsReturn` | `EventCall.cfg` | `ResizeSpec`, `UserCalls <- EditorCalls`, `OwnCalls <- JustResume`, no deadlock check | a plugin that asks for a new size inside `effEditOpen` re-enters the handler, which takes the non-recursive `fst->lock` again (`vstwin.c:634`); `amc.c:150` says "support it" |
| `PluginPresent` | `EventCall.cfg` | `InitResults = {TRUE, FALSE}`, `Spec` | `vstwin.c:638` marks an FST initialized whose `fst_init` failed, so the test at `:477` never fails |
| `SentBeforeReturn`, `NothingReplaced` | `SysexSend_one.cfg` | both senders, `Unplugs = FALSE`, `MaxDisconnects = 0`, no deadlock check | the second sender replaces `sysex_want` of the first (`sysex.c:141`) |
| `NoEmbrace` | `SysexSend_one.cfg` | the same | a GTK dump holds `sysex_lock` while it waits for the event thread, which may want `sysex_lock` (`sysex.c:110`) |
| `SendReturns` | `SysexSend_one.cfg` | `MaxDisconnects = 1`, no deadlock check | the port is tested once (`sysex.c:107`); unplugged after that, nothing wakes the sender |
| `NothingLost` | `JfstIdle.cfg` | `Send` without `Skipped(p) /\ Announced` | the test for duplicates (`eventqueue.c:18`) reads the slot at `front`, which the other thread has advanced (`:24`) and not yet written (`:31`): what was in it a round ago counts as the event sent last, and the new event is dropped |
| `OnlySentEvents` | `JfstIdle.cfg` | `MCEvents` without program 0, which is what an unwritten slot holds | `front` is advanced before the slot is written (`eventqueue.c:31`) |
| `AsMeant` | `MidiIn.cfg` | – | the channel is switched by five writes (`midifilter.c:202`) |
| `DataByte` | `MidiIn.cfg` | – | the transposition is read for both ends of the range (`midifilter.c:148`) and again to be added (`:152`): changed in between from 0 to 1, note 127 reaches the plugin as 128 |
| `OptionsKept` | `StateFile.cfg` | – | `-U`: `jfst_new` sets the identifier (`jfst.c:63`) and then copies the constant messages over it (`:77`) |
| `FiltersAreTheFiles` | `StateFile.cfg` | – | "Cleanup midi filters" (`fps.c:247`) removes none: `midi_filter_cleanup` removes built-in ones, if told to (`midifilter.c:93`) |
| `ProgramComesBack` | `StateFile.cfg` | – | the program saved, and the one a load compares with, is `current_program` (`fps.c:348`, `vstwin.c:358`), which the event thread brings up to date after the plugin has changed it: the wrong program is saved, or the right one not set (`fps.c:190`) |
| `ParamsComeBack` | `StateFile.cfg` | – | parameters are written with `%f` (`fps.c:376`): six decimals come back |
| `FxPlays` | `StateFile.cfg` | – | loading an FXP or FXB (`jfst.c:370`) puts a plugin in place that nobody resumes, or none |
| `ParametersComeBack` | `FxFile.cfg` | `NumPrograms = 2`, `Params = 2`, `Values = {5}` (`Half`), `Kinds = {FALSE}` | a float is made an integer before its bytes are swapped (`fxb.c:46`): all but 0.0 and 1.0 are lost |
| `ParametersComeBack` | `FxFile.cfg` | `NumPrograms = 2`, `Params = 1`, `Values = {5}` (`One`), `Kinds = {FALSE}` | the header of each program in a regular bank counts the programs of the bank (`fxb.c:344`) where the reader expects the parameters of the program: it reads too many or too few |
| `FoundBack` | `FxFile.cfg` | – | saving a regular bank swaps the number of the current program in place for the file (`fxb.c:326`) and then takes it to select that program again (`:358`): no such program, and the last one of the walk stays selected |
| `AllSeatsComeBack` | `Control.cfg` | – | an application dies with a command unanswered; the answer draws a reset, `poll` reports `POLLERR` and `POLLHUP` beside `POLLIN`, and `serv.c:194` passes over the slot in every poll from then on |
| `EveryChangeTold` | `Control.cfg` | – | three readings in `news` (`jfst.c:277`); a used slot remembers (`proto.c:123`) |
| `DumpObeyedAnyway` | `SysexIn.cfg` | – | GTK's dump fills the record that is being obeyed |
| `DumpsOnlyRead` | `SysexIn.cfg` | – | filling in a dump reads the channel (`sysex.c:123`) and sets it to what it has read (`:124`): a channel set in between is lost |
| `LearningSucceeds` | `JfstIdle.cfg` | the property about `"button"`, without its last disjunct, and `Next` without `Stop` | `idle_cb` sees `wait` change and releases the button (`gjfst.c:742`), whose handler stops the learning that pressing it began; without the change to `"button"`, the one that a client has begun since |
| `LearnsPairs` | `JfstIdle.cfg` | without `hasty` in the property | a start between `jfst_idle`'s test and its use resets `cc`, and the pair goes to `map[-1]` (`jfst.c:141`) |
| `FreshPairs` | `JfstIdle.cfg` | – | a learning is begun while another waits: between the stores of `param` and of `cc` (`jfst.c:264`) a knob turned now is paired with the controller of the learning before |
| `NeverStuck` | `Host.cfg` | – | SIGUSR1 saves the state in the signal handler (`fsthost.c:98`): calls on a plugin which the interrupted code may be inside a call on |
| `NothingFreedIsUsed` | `Host.cfg` | `LateUsers = TRUE` | SIGUSR1 while the host ends, after the first node was freed; or an editor's window closed then, whose GTK callback gets a freed `GJFST` |
| `WalksOnLiveAnyway` | `Host.cfg` | – | `fst_thread_remove`'s loop ends before the last FST (`vstwin.c:830`), so one that came by an FXP is freed and stays in the list |
| `HostEnds` | `Host.cfg` | without its last disjunct | an FST that was replaced stays in the list with its `idle_cb`, and its `jfst_idle` waits for cycles of a closed client |
| `HostEndsUnplugged` | `Host.cfg` | – | a control port is unplugged after `jfst_send_sysex` has tested it: the process thread writes nothing (`process.c:59`), `jfst_idle` sleeps (`sysex.c:142`) inside the walk with `th->lock` held (`vstwin.c:729`), and `jfst_close` waits for that lock (`:722`). Only another JACK client can plug the port again, as `jfst_connect_to_ctrl_app` runs on the thread that sleeps |
| `HostEnds` | `Host.cfg` | without `"crashed"` | loading an FXP whose plugin cannot be opened leaves `jfst->fst` NULL under a running client (`jfst.c:370`) |

Seen while reading, and not the subject of a property: without a port for the
control server `WinMain` returns without closing what it has opened
(`fsthost.c:360`; `ServeFails`); `-T` falls through to `-u` in the switch over the
options; `fst_thread_remove` posts `WM_QUIT` to the thread that calls it, not to
the event thread; the default of `want_state_cc` is given twice in one
initializer (`jfst.c`), so that the second, 0, wins over 122, which the usage text
names; `load` of a state file from SysEx (`sysex.c:244`) runs on the event thread
inside its walk, with `th->lock` held, and an FXP there would take it again; a save
that cannot be completed leaves a truncated state file (`fps.c:263`), and an FX file of
the right plugin that is cut off is loaded as far as it goes (`fxb.c:217`).
`JfstIdle` assumes that the compiler keeps the order of the stores in
`jfst_midi_learn`, and that plugins call `audioMasterAutomate` on the event thread
outside `jfst_idle`.

The runs that pass stay away from these by the constants named here: one
controller for `Bypass`, one sender for `SysexSend`, plugins whose entry point
succeeds for `EventCall`. A host with only a TCP or GTK interface, or only a
SysEx controller, is such a host.

## 7. What is not modelled

* **The command line** (`fsthost.c`'s options are the constant choices of `opt` in
  `Host`) and the **LASH** branches of the start.
* **Filters added by users at run time**: `midi_filter_remove` frees a filter
  that the process thread may stand on (`midifilter.c:79`).
* **Several commands in one TCP read** (`serv.c:56`) and commands that only list.
  What `write` to a reset connection does to the host is left out, too: `fsthost.c`
  sets no handler for SIGPIPE (`:369`), so whether a second line of an answer ends the
  process depends on what Wine's start-up has set.
* **The trylock of `jfst_process`** (`process.c:154`) does not fail in `Host`: the
  handlers that take `process_lock` (`vstwin.c:592`, `:657`, `:682`) run on the event
  thread, which is the one that waits. `Bypass` has it.
* **AudioMaster callback** but for the resize request: it answers from constants
  and JACK's transport.
* **JACK client**: port registration is straight-line; connections appear as
  `Plug` and `Unplug` where they matter.
* **LASH, XML database, CPU usage, log, Base64, Perl menus, `unused/`**: leaves
  that read files or format text, or are not built.

## 8. Plan

Done, in this order: `EventCall` with `CallService` and its proofs; `Bypass` with
its proofs; `EventQueue`, `EventQueueRace` with their proofs; `SysexSend` with
its proofs; `MidiIn`; `FxFile`, `StateFile`; `Control`; `SysexIn`; `MidiOut`;
`Host`; `JfstIdle`, and the proofs of its MIDI learn; the proofs of `MidiOut`,
`SysexIn`, `Control`, and that `EventCall` implements `CallService`; the proofs of
`MidiIn`, `StateFile`, `FxFile`, `Host` and of the queue in `JfstIdle`, and that
this queue, access by access, implements `EventFifo`.

What could come next, in the model: user filters in `MidiIn`; batches of commands
in `Control`; `SysexIn` as an implementation of an abstract conversation, in
which a request is followed by its answer, with `SysexSend` in place of its
built-in hand-shake.

In the proofs: `SysexIn` together with `SysexSend`; for more than one writer, how
far `MidiIn`'s filters can mix.
