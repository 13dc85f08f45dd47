# VICE in TLA+

Models of the parts of VICE, the Commodore emulator, in which the order of
events decides whether the program is right: what happens between two
instructions of the emulated CPU, between the emulation thread, the user
interface thread and the render thread, and between two emulators that play over
a network. Each module is a translation of C code; `PROJECT.json` ("map") gives
the lines that every definition stands for. Source paths below are relative to
`src/vice/src/`.

Run TLC on a module with its configuration, `tlc -config MCAlarm.cfg MCAlarm`,
and the prover with `tlapm AlarmProofs.tla`.

## 1. The system and its parts

VICE emulates several machines. One *VICE thread* runs the main CPU loop
(`maincpu.c`, `6510core.c`): before every opcode it runs the *alarms* that are
due, then serves *interrupts*, *traps*, resets and the monitor, then executes
the opcode, whose memory accesses call the chips, which set alarms and raise
interrupt lines. At the end of a frame the raster code calls the vsync hook:
the frame goes to the renderer, input events are recorded or exchanged, the main
lock is offered to the user interface and the thread sleeps. The *UI thread*
runs GTK; its handlers hold the main lock while they touch emulator data. The
*render thread* displays frames.

| Part | State it keeps | Operations | What is hard | What makes it right |
|---|---|---|---|---|
| Alarm contexts (`alarm.c/.h`) | array of pending alarms, cached earliest clock and index, back pointers | new, destroy, set, unset, dispatch | three copies of one fact, updated by hand, from inside callbacks | the copies agree; no alarm is late |
| Interrupt status (`interrupt.h`, `interrupt.c`) and CPU loop (`6510core.c`, `maincpu.c`) | lines, counters, `global_pending_int`, delays | raise, lower, DMA, reset, trap, poll, sequence, BRK, JAM | a line changes in the middle of a sequence; snapshots replace everything | levels and edges are seen, the right vector is taken |
| Trap queue (`interrupt.c`) | `trap_func[]`, `traps_next`, `traps_count` | trigger, run, reset | traps that trigger traps | each runs once and in order |
| Main lock and exit (`mainlock.c`, `archdep_exit.c`) | two mutexes, two conditions, four flags | yield, obtain, release, shut down | signals without predicates, exit from either side | exclusion, no lost signal, an end |
| Render queue and thread (`arch/gtk3/render_*.c`, `opengl_renderer.c`) | pool, ring, jobs, textures | draw, enqueue, render, redraw, resize, shut down | three threads, two locks, a draw without lock | buffers conserved, frames in order, nobody stuck |
| Netplay (`network.c`) | mode, sockets, ring of event lists | connect, measure, send, receive, suspend, disconnect | two programs wait for each other; a peer that goes away | both machines get the same input in the same frame |
| Event history (`event.c`) | list of events, `current`, one alarm, `start.vsf`, `end.vsf` | record (four ways to start), stop, milestones, play back | machine, list and clock replaced under a running recording; a stop in two steps; inputs that arrive late; files that fail | the list accounts for the machine; playback repeats the recording |
| Vsync callbacks (`vsync.c`) and pausing (`arch/gtk3/ui.c`, `vsyncarch.c`, `monitor.c`) | two callback queues, four flags | queue, run, pause, advance a frame, enter and leave the monitor, reset | a pause is a callback that queues itself; the monitor has a pause loop of its own | each callback runs once; a pause holds, a frame advance is one frame, the monitor opens |
| Keyboard buffer (`kbdbuf.c`) | ring of pending keys, an alarm | feed, flush, reset | a RETURN that an alarm delivers later; a reset that turns the clock back; a Kernal that is not ready | keys arrive once, in order |
| Snapshot files (`snapshot.c`) | modules in a file | save, load | state replaced under running components | (through `Interrupt` and `EventHistory`) |
| Flash ROM (`core/flash040core.c`) | command state, erase alarm | read, store, snapshot | an erase that a reset or snapshot cuts | a started erase ends |
| Autostart (`autostart.c`), datasette (`datasette/`), fliplist (`fliplist.c`) | a mode each | state machines driven by the emulation | long sequences of legal calls | the mode fits the machine |
| Chips, CPUs, machines, drives, file formats, monitor, resources, widgets, tools | registers, tables | thousands of small handlers | size, not order | test programs and tables |

How the parts meet: alarms and opcodes call chips, which call
`interrupt_set_irq/nmi` and `alarm_set`; the UI, the monitor, netplay and the
event code ask for a *trap* when they need the CPU between two instructions; a
reset clears the interrupt status and with it the trap queue; a snapshot load
writes the interrupt status of the file over the one of the running program;
the vsync hook calls netplay, the renderer and the main lock in turn.

`PROJECT.json` lists every part with its status, and the hazards of the code,
each at the line where it bites, with the properties aimed at it. Hazards that no
property covers yet carry the reason.

## 2. Modules

| Module | Models | Remarks |
|---|---|---|
| `AlarmSpec` | what an alarm context promises: a map from alarms to deadlines | abstract specification |
| `Alarm` | `alarm.c`, `alarm.h`, `PROCESS_ALARMS` | implements `AlarmSpec` |
| `AlarmProofs` | proofs about `Alarm`, the refinement included | TLAPS |
| `TrapQueue` | the slots of the trap queue | |
| `Interrupt` | interrupt status, CPU loop, checkpoints, snapshots | uses a count of traps; `TrapQueue` has the queue |
| `InterruptProofs` | proofs about `Interrupt` | TLAPS |
| `MainLock` | `mainlock.c`, `archdep_exit.c`, the GTK locking wrappers | its specification is `LockSpec` |
| `ThreadProofs` | proofs about `TrapQueue` and `MainLock` | TLAPS |
| `Render` | `render_queue.c`, `render_thread.c`, the OpenGL renderer's use of them | |
| `RenderProofs` | proofs about `Render` | TLAPS |
| `Netplay` | `network.c` over TCP | |
| `NetplayProofs` | proofs about `Netplay` | TLAPS |
| `EventHistory` | `event.c`, the resets of `machine.c`, the delayed input of `joystick.c` | composed with a machine, its clock and its files |
| `EventHistoryProofs` | proofs about `EventHistory` | TLAPS |
| `Pause` | the callback queues of `vsync.c`, pausing in the GTK interface, the monitor's entry and exit | |
| `PauseProofs` | proofs about `Pause` | TLAPS |
| `KbdBuf` | `kbdbuf.c` and the Kernal's side of the buffer | |
| `KbdBufProofs` | proofs about `KbdBuf` | TLAPS |
| `MCAlarm` | four symmetric alarms for `Alarm` | |

Conventions. Actions and helpers keep the names of the C functions; an action
whose name is capitalised is a part of a function, between two points where
another actor can come in. A definition whose comment begins with "Slip:" is not
part of any specification: it is the definition next to it with a plausible
programming error, used to see that the properties would notice ("mutants" in
`PROJECT.json`). Variables marked "history" are not in the code.

### Alarm

`pendingAlarm`, `pendingClk`, `num`, `nextClk`, `nextIdx` are the fields of
`alarm_context_s`, `pendingIdx` the back pointer of every alarm. `alarm_set`
adds an entry (or refuses when the array is full) or changes one and looks for
the earliest again; `alarm_unset` moves the last entry into the hole. The CPU
(`Execute`) moves the clock only when `PROCESS_ALARMS` is done;
`alarm_context_dispatch` calls the cached alarm, and while a callback runs,
everything may be set, unset, created and destroyed. A reset (`cpu_reset`) may
come while an alarm is due: since the last check of the alarms `DO_INTERRUPT`
may have spent two cycles and run traps (`6510core.c:455` to `:483`). It turns the
clock back and leaves the alarms alone; `AlarmSpec` promises no more. A callback that returns
without having moved its own alarm is called again, as in the code.
`alarm_context_init` leaves `next_pending_alarm_idx` unassigned: every value is
possible in `Init`. `alarm_context_time_warp` has no caller and is left out.

### TrapQueue

`trapFunc` is the array as far as it was allocated; a slot nobody wrote is
`Garbage`. `interrupt_maincpu_trigger_trap` computes its slot from `traps_next`
and `traps_count` as they are, also in the middle of `interrupt_do_trap`, which
is split at the call of the trap. A reset drops the queue. `NestAnywhere` says
whether a trap other than the first of a cycle may trigger traps.

### Interrupt

Lines are sets, the counters `nirq` and `nnmi` are kept as the code keeps them.
The loop is `Poll` (the test before the opcode), `EnterSequence`,
`ChooseVector`, `interrupt_do_trap`, `cpu_reset`, `LeaveInterrupt`, and
`ExecuteOpcode` with the kinds of opcodes that matter: those that change the I
flag, branches (which delay), BRK (two steps, since its vector is chosen after
the pushes) and JAM. Devices may act at any step at which the code runs alarms.
Clocks are distances that saturate where no comparison tells them apart.
Snapshots are saved and loaded by traps and by the monitor; `Loaders` and
`Savers` say by whom.

### MainLock

`v` and `ui` are the program points of the two threads, `mainOwner` and
`internal` the mutexes. `mainlock_yield_begin` is six steps: the wait on
`ui_has_lock_cond` has no predicate, so the steps around it matter. Waking up
spuriously is bounded by `MaxSpurious`. Handlers nest up to `MaxDepth`. Either
thread may start the exit. The Windows branch of `consider_exit` is left out.

### Render

`backbuffer_stack` is the pool, `render_queue` with `render_queue_next` and
`render_queue_length` the ring. The VICE thread takes, draws (no lock) and
enqueues; the render thread takes a job, dequeues with `canvas->lock` held,
waits for `render_lock`, uploads, releases the canvas and presents. The UI
thread pushes redraws, resizes (macOS: `render_skip`, then `render_lock`, then
the canvas again) and exits: `g_thread_pool_free` drops the jobs that were not
begun and waits for the one that runs. The two locks are functions of the
program points (`CanvasFree`, `RenderFree`).

### Netplay

The two programs run the same actions; `wire` is what TCP has on its way and
`end` what the socket says after it. `machine[p]` is what p's emulated machine
was fed, frame by frame; the registers that the sync test compares are a function
of it. A ring of `frame_delta` lists delays the inputs. The connection setup
(snapshot, settings, measuring the delay) is one action per message, and each
failure branch of the code is an action.

### EventHistory

The emulated machine is what it was fed: the sequence of its inputs with their
cycles. So "the playback makes the same machine" is an equation between two
variables, and the model needs no emulation. `list` and `cur` are the event
list and its `current`, `alarm` the one alarm that recording (timestamps) and
playback (events) share. The recorder's commands ask for a trap; the trap runs
later (`RecordStartSave` and its siblings, `event_record_stop_trap`, the
milestone traps, `PlaybackStartFile` and its siblings), and inputs, resets and
further commands may come in between; the traps wait in order (`trap`, `more`).
Files can fail to be written and to be read (`MaxFaults`): in front of the EVENT
module (`EndUnreadable(FALSE)`), behind it (`EndUnreadable(TRUE)`) or within it
(`PlaybackStartModuleCut`), and in both attempts to read `start.vsf`
(`PlaybackStartFails`). `next_timestamp_clk` is unsigned: it is computed modulo `ClockMod`.
A reset leaves the clock at `ResetCycles` (6 in the code), not at 0, so a
timestamp that fell due with the reset is that much late: `TimestampDue` grants it.

No guard keeps the user from a call that the code accepts. What the recorder is
not made for is kept in the history variable `slips`, of eight kinds (`Slips`):
an action that is one adds its kind, and no action reads the variable but to
bound it. No property survives every slip, and none is claimed
after one that breaks it: `Without` names the kinds, a comment at the property
gives the line of the code. What the code does there is stated by `StopKeepsInputs`,
`StopEndsPlayback` and `ResetKeepsStamps`, which it violates ("Observations"). Each
exemption is needed: TLC finds a counterexample without it.

### Pause

`callback_queues` and `callback_queue_index` are the two queues; the one with
the index collects, the other one is run (`NextQueue`, one action per
callback, `QueueDone`). A pause is the callback `pause_loop`: its iteration
either ends at once (not paused any more, or the monitor is wanted) or sleeps,
with the lock given to the UI, and then queues the callback again. User actions
happen while the CPU runs, in a sleep and inside the monitor. `monitor_startup`
runs in a trap; on leaving it the emulator may pause in a second loop, inside
that trap. A reset drops the traps and runs the callbacks;
`interrupt_ack_reset` comes after them, so that a reset that is asked for in a
pause inside the reset is acknowledged with it (`reset = "hook"`). Other
callbacks than the pause loop are numbered screenshots. Traps are counted; their
slots are in `TrapQueue`. `hasty` records that the user acted twice before the
VICE thread looked once.

### KbdBuf

The ring is kept as an array with `head_idx` and `num_pending`. Feeding writes
behind the last pending character and flushes; the vsync flushes too.
`kbdbuf_flush` writes up to a bufferful and stops at a RETURN that is to be
delayed, for which it sets the alarm one to two frames ahead. The Kernal empties
its buffer when it starts (`BootCycles`, not known to the code, which waits for
`kernal_init_cycles`), the program reads (`GetIn`) and the user types
(`ScanKey`). A reset turns the clock back; ring and alarm stay. Times are kept
relative to the clock, so that behaviours need not end and liveness is meaningful.

## 3. Runs

| Run | Result | Distinct states (about) | Question |
|---|---|---|---|
| `alarm` | pass | 72 000 | do array, cache and back pointers agree whatever callbacks do, and does the context implement `AlarmSpec`? |
| `trap_queue` | pass | 4 600 | do traps run once, in order, and do all run? |
| `trap_queue_nested` | violation | small | the same when any trap may trigger another one |
| `interrupt` | pass | 1 600 000 | lines, levels, edges and vectors; is an NMI served? |
| `interrupt_snapshot` | pass | 4 200 000 | counters, traps and checkpoints when a trap saves and autostart loads snapshots, complete or failing |
| `main_lock` | pass | 760 | exclusion, no missed signal, both threads served, exit ends |
| `render` | pass | 300 000 | buffers, textures, order, and that the three threads get on unless an OpenGL call hangs in the join |
| `netplay` | pass | 1 100 000 | lockstep, no false alarm, no mutual waiting, across two sessions |
| `netplay_loss` | violation | small | is the loss of the other side noticed? |
| `event_history` | pass | 10 400 000 | does the list account for the machine, and does a playback reproduce it, and after which slips still? |
| `pause` | pass | 380 000 | callbacks once and in order; pause, frame advance and monitor do what they say |
| `kbdbuf` | pass | 370 000 | does the program get every key that was fed, once and in order, and does the queue empty? |

### Bounds, and why they are enough

* `alarm`: four alarms compete for three entries, so that the array is full,
  that an unset hits the first, a middle, the last and the only entry, and that
  the moved entry may be the earliest. The clock has four values, of which the
  largest is `CLOCK_MAX`; resets turn it back. The proofs remove the bounds.
* `trap_queue`: five traps and two resets: the array grows twice (it grows
  when a slot beyond its size is needed), and a reset can fall before, between and
  after two cycles.
* `interrupt`: two devices, so that one line stays active while the other one
  falls; ages on both sides of `INTERRUPT_DELAY`; all kinds of opcodes; one
  trap; the monitor may leave a JAM. The snapshot run has one device and
  straight code: it asks about what a load replaces. A snapshot of a running
  machine may be loaded into a jammed one and the other way round.
* `main_lock`: the threads are finite-state; only spurious wakeups are
  counted, three of them, which is one for either wait and one more. The nesting
  depth is 1; with 2 exclusion fails (see the observations).
* `render`: two backbuffers, as in the code, and four frames: the ring wraps
  and the pool runs empty. One redraw suffices to shift jobs against frames; one
  resize and one exit can fall anywhere.
* `netplay`: `frame_delta` 2 (the smallest ring that delays), three frames, so
  that the ring wraps; two inputs, one suspend, two sessions, so that what one
  session leaves behind meets the next.

* `event_history`: four commands, two inputs and one failing file, within four
  cycles between resets, a second being two cycles: long enough to record,
  set a milestone, go back to it, stop and play, or to take over a playback and
  go on recording; timestamps fall before, at and after an event and a reset.
  A behaviour makes slips of one kind (`MaxSlips = 1`), as often as it likes;
  every kind occurs. With all kinds in one behaviour (`MaxSlips = 8`, 21 million
  states) the five invariants hold as well.
* `pause`: seven actions, among them two screenshots: pause, screenshot, monitor,
  leave, advance, monitor and reset fit into one behaviour. Everything else
  is finite without a bound.
* `kbdbuf`: a ring of three for strings of up to two characters and a Kernal
  buffer of two: the ring fills, refuses and wraps, a flush takes a part. Three
  strings, a reset and a typed key; a frame is two cycles, so that vsync, alarm
  and the Kernal's start fall in every order. The clock stops counting at
  `MaxClk`, after the last comparison with it.

Deadlock checking is off where the system may stop by itself: when the program
has ended (`MainLock`, `Render`) or when the counted operations are used up
(`TrapQueue`, `Netplay`, `EventHistory`). There the liveness properties say that nobody is stuck.

### Fairness

* `TrapQueue`: weak fairness of the CPU loop's steps and of trap functions
  returning. Nothing is assumed about triggers and resets.
* `Interrupt`: weak fairness of the CPU loop (`CpuSteps`); devices, the user
  and resets are free.
* `MainLock`: weak fairness of both threads; strong fairness of taking
  `internal_lock` (it is held for a few instructions and then left alone for a
  frame), of a UI thread that takes `main_lock` without a handshake (it is free
  while the VICE thread sleeps out the frame) and of GTK running a queued
  timeout. The VICE thread is assumed to have no luck with mutexes.
* `Render`: weak fairness of each thread's own continuation; nothing makes the
  UI redraw, resize or quit, or the VICE thread start a frame. The render
  thread's OpenGL work (`OpenGLWork`) is assumed to end only while the UI thread
  is not blocked in `g_thread_pool_free`: "certain opengl calls" may block if it
  is (`archdep_exit.c:121`), and `render_thread_join` speaks of a deadlock
  (`render_thread.c:107`). `UiGetsOn` therefore has `OpenGLHangs` as its one
  exception.
* `Netplay`: weak fairness of the vsync hook, of receiving what has arrived
  (TCP), of the sync trap and of the delay test. Nobody has to connect.
* `Pause`: weak fairness of the VICE thread's own steps (`Vice`); the user need
  not do anything, nor ever leave the monitor. `MonitorOpens` therefore holds
  because the pause loop polls, not because the user helps.
* `KbdBuf`: weak fairness of the emulation (cycles, vsync, the alarm) and of the
  program reading its keys, without which the Kernal's buffer stays full.
* `EventHistory`: that a playback gets on is stated as an invariant
  (`PlaybackNeverStalls`): the alarm of the next event is set, or the reset that
  sets it is pending.
* `Alarm` has no liveness property: how soon an alarm is called is a safety
  property here (the clock does not move on before it; a reset may set it back,
  and then the alarm waits until the clock is there again).

### What the runs with a violation show

1. `trap_queue_nested`: `interrupt_maincpu_trigger_trap` stores at
   `traps_next + traps_count`; inside `interrupt_do_trap` `traps_next` has
   advanced past the traps that ran and `traps_count` still counts them. From the
   second trap of a cycle on the new trap lands one slot or more too far, and a
   slot that was never written is called in its place.
2. `netplay_loss`: `network_recv_buffer` takes the 0 of a closed connection for
   a short read and loops; other paths close the socket twice.

### Observations without a run of their own

The first seven can be reproduced with a configuration that is not one of the
runs (`tlc -config MCRenderJoin.cfg Render`); TLC then reports the property
named.

* `MCMainLockNested.cfg` (`MutualExclusion`): `mainlock_release` unlocks at every
  call, not at the outermost one (`mainlock.c:267`). A locked handler that
  obtains the lock again, as the menu item for loading settings does, goes on
  without it after the inner release.
* `MCInterruptQuickload.cfg` (`CheckpointsArmed`): a snapshot holds
  `global_pending_int`; loading it replaces IK_MONITOR. Only autostart calls
  `mon_update_all_checkpoint_state` afterwards; quickload, the history, netplay
  and undump do not (`arch/gtk3/uisnapshot.c:317`).
* `MCRenderJoin.cfg` (`ExitEnds`): the UI thread waits in `g_thread_pool_free`
  for a render job whose OpenGL call does not return while the UI thread is
  blocked: the program does not end (`render_thread.c:107`, `archdep_exit.c:121`).
* `MCEventHistoryStop.cfg` (`StopKeepsInputs`): `event_record_stop` records
  LIST_END now, the trap writes `end.vsf` later (`event.c:796`). An image
  attached in between is in the saved machine and behind the end of the list.
* `MCEventHistoryReset.cfg` (`StopEndsPlayback`): `event_reset_ack` does not look
  at `playback_active` (`event.c:822`). A playback is stopped when the reset that
  it played is pending; the reset then sets the alarm again, and the events are
  played outside a playback.
* `MCEventHistoryStamp.cfg` (`ResetKeepsStamps`): a reset is recorded while the
  timestamp is due. `next_timestamp_clk` becomes 0 or wraps around (`event.c:338`),
  and the alarm, which fires before the reset, adds a second to that and is
  set for a time that has nothing to do with the clock after the reset.
* `MCPauseMonitor.cfg` (`MonitorAlwaysOpens`): pause, enter the monitor and leave
  it, advance one frame. `monitor_startup` has queued a pause loop and waited in
  its own one, `vsyncarch_postsync` queues another: two loops. The next wish for
  the monitor ends one of them and arms the trap, the other one keeps the
  callbacks going, and the monitor stays closed until it is asked for again or the
  pause ends (`arch/gtk3/ui.c:2519`, `:2567`). `MonitorOpens`, which holds, asks
  for at most one loop.
* `EventHistory`, the other slips: the user acts while a reset, a trap or a late
  input waits for its turn ("resetting"); attaches an image before the trap takes
  a playback over ("taking_over"), so that nothing records it; moves the joystick
  before a playback is started, which is then fed the value ("late_input");
  starts a recording during a playback by a mode other than taking it over
  ("recording_in_playback", `event.c:768` asks for `record_active` only); gives a
  second command before the first one's trap ("commanding"): a recording and a
  playback start side by side, or end and begin in the wrong order.
* `EventHistory`, "late_failure": a return to `end.vsf` fails behind its EVENT
  module. The list is the one of the file, `current` its first node, recording
  is off, and the alarm of the recording, which stays set, plays the events
  outside a playback. Where the failure comes in front of the module, the alarm
  finds the LIST_END of the old list; a second failing file, a `start.vsf` that
  cannot be read or an EVENT module that ends early, puts an event there
  (`AlarmOwned` grants one fault; the other four properties hold with two,
  26 million states). Found when the proof did not go through.
* `EventHistory`: where a recording and the playback of a session that began with
  a reset are commanded at once, `machine_trigger_reset` in the playback's trap
  records the reset over the list that was just read; `current` becomes NULL
  behind its end, and the alarm that is to be set for it crashes the program
  (`event.c:892`, `:819`). `machine_reset` has no step there.
* A snapshot of a running machine that is loaded into a jammed one leaves
  `cpu_is_jammed` set, so that IRQs are discarded. A snapshot saved then has a
  line asserted and IK_IRQ clear, and brings that into whatever machine loads it:
  `IrqLevelSeen` and its theorem are about a machine that loads no snapshot.
* `Pause`: two presses of frame advance within one sleep of the pause loop do
  not emulate a frame: the second one pauses again (`AdvancesOneFrame` exempts
  `hasty`). In the pause after the monitor no callbacks run. `g` with an address
  leaves `should_pause_on_exit_mon` set for the next visit. A reset that is
  pending when the monitor's loop arms its trap drops the trap. A reset asked
  for while a reset is in its callbacks is acknowledged with it.
* `KbdBuf`: keys fed before a reset are typed after it. The RETURN alarm keeps its
  absolute time over a reset, so nothing is typed until the clock is there
  again. If the user types while a RETURN is delayed, the alarm may write
  behind the end of the Kernal's buffer (`KeysDelivered` exempts `mixed`).
* `cpu_is_jammed` is cleared by a reset only. A CPU that the monitor moves
  away from the JAM goes on with IRQ and NMI discarded (`6510core.c:2229`).
  `NmiServed` counts a discarded NMI as acknowledged.
* `undump` in the monitor replaces IK_TRAP too: a queued trap waits for the next
  one (`monitor.c:2737`). The module has this loader; no passing run uses it.
* `kbdbuf_init` runs again when the ROMs of a PET change (`kbdbuf.c:301`) and makes
  a new alarm; were the old one pending, its handler would unset the new one and
  the old one would stay due.
* A snapshot saved while a flash ROM erases does not hold the time of the alarm
  (`core/flash040core.c:561`): the restored erase ends at another time.
* `network.c:549`: `i = network_send_buffer(...) < 0` stores the comparison, so
  that the failure of the first send of the settings goes unnoticed.
* `archdep_vice_exit` on the VICE thread comes to its `assert(false)` when the UI
  thread initiated the shutdown first (`archdep_exit.c:201`). `MainLock` has the
  state ("returned"), and `ProgramEnds` allows it.
* In `opengl_renderer_macos.m` the canvas lock is taken again after
  `render_lock` was released. It would not deadlock if it were taken before: the
  render thread holds the canvas lock while it waits for `render_lock` only when
  `render_skip` is off. The frames that arrive meanwhile are dropped, also the
  last one before a pause.
* `render_thread_join` drops the shutdown job if the render thread is busy: the
  per-thread cleanup is then not run.
* `network.c:458` computes `frame_delta` in a `uint8_t`; 251 frames of delay give
  0, by which the ring index is divided.

## 4. Proofs

Proved for every value of the constants, from the named ASSUMEs of the modules
(which TLC evaluates in the runs) and the hypotheses given here.

* `AlarmProofs`. The inductive invariant is `IndInv == TypeOK /\
  IndexConsistent /\ NextIsEarliest`: the move of the last entry in
  `alarm_unset` keeps the back pointers only if they agreed before, and
  keeps the cached index only if it named an earliest entry. One lemma per way
  to change the array (`RemoveKeepsIndInv`, `AddKeepsIndInv`,
  `ModifyKeepsIndInv`), one that scanning finds the earliest, then one case per
  action. From it: `TypeCorrect`, `IndexConsistency`, `EarliestIsCached`,
  `NoOverrun` (an action property) and `Refinement`, that `Alarm` implements
  `AlarmSpec` under the mapping `DeadlineOf`. The set of alarms need not be
  finite.
* `ThreadProofs`, about `TrapQueue`. `TrapInv` fixes where the requests are: the `traps_count`
  slots from `Base` on (`traps_next`, less what the running cycle has called)
  hold the latest requests in order, and what is older was called or dropped.
  From it `InOrder` and `NoneForgotten`, for any number of traps and resets.
  Both suppose `NestAnywhere = FALSE`: only the first trap of a cycle triggers
  traps. The code does not guarantee it, and `trap_queue_nested` shows what
  happens otherwise.
* `InterruptProofs`. One invariant per question, since they hold under different
  hypotheses about who loads and saves snapshots:
  `LineInv` (counters and lines agree, in the machine and in the snapshot, or a
  reset is asked for) gives `CountersRight`, without a hypothesis; `LevelInv`
  (adds what a JAM leaves pending) gives `LevelSeen` if no snapshot is loaded; `VectorInv` (adds how old the lines are at each step of a sequence)
  gives `NmiKeepsItsVector`; `DeviceInv` gives `EdgeLatched` and `TrapInv`
  gives `TrapsArmed` without the monitor's `undump` (and `dump`), which act in
  the middle of an instruction; `MonitorInv` gives `CheckpointsStayArmed` if
  only autostart loads. What the other loaders do is among the observations:
  the hypotheses mark where the code's guarantee ends.
* `ThreadProofs`, about `MainLock`. `SignalInv` adds to the types what the depth counter, the
  flags and `internal_lock` say of the program points, and how far the UI
  thread can be at each step of `mainlock_yield_begin`. `SignalIsOwed` and
  `NobodyLeftWaiting` hold for every nesting depth and any number of spurious
  wakeups. `Exclusion` needs `MaxDepth = 1`, as `MCMainLockNested.cfg` shows;
  its strengthening `OwnerInv` says who owns `main_lock` at each program point.
* `RenderProofs`, for any number of backbuffers, frames, redraws and resizes.
  `PoolInv` counts: pool, queue and the two threads hold as many backbuffers as
  exist, and each backbuffer is somewhere; that none is in two places follows
  because a list of N members that covers a set of N has no repetition.
  `ScreenInv` orders the frames along their way, from the textures over the
  upload and the queue to the frame that is drawn, and gives `ScreenIsRight`
  and the action property `ScreenNeverGoesBack`.
* `PauseProofs`, for any number of user actions. `QueueInv` says that the
  screenshots made and the ones that wait in the two queues are all that were
  asked for, in order across both queues, and that the pause loop that sleeps
  is the entry that is run. On it rest `HoldInv` (a pause has its loop queued,
  or left it for the monitor) and `AdvanceInv` (where a frame advance is, by
  flags and program point): `CalledOnceInOrder`, `PauseHolds`, `OneFrame`.
* `KbdBufProofs`, for every size of ring and buffer. `KbdInv`: the ring holds
  the latest characters that were fed, what was read and what the Kernal's
  buffer holds are those before them, the alarm belongs to the RETURN at
  the head of the ring and there is room for it. The lemmas are about places of
  a ring (`RingPlace`, `RingShift`, `RingFilled`) and about counting the fed
  among the typed keys (`FedIn...`). A flush takes as many keys as fit or as
  stand before a delayed RETURN; that a least such number exists is
  `LeastNumber`, from the well-foundedness of the naturals.

* `NetplayProofs`, for every `frame_delta` from 2 on and any number of frames,
  inputs, suspensions and sessions. `NetInv` has six parts. `ServerStage` and
  `ClientStage` say what is on the wires at each stage of connecting, `LiveInv`
  who plays in the session of the latest connection. `PeerInv`: the list of j
  frames ago is j places behind the current one and holds the inputs that were
  recorded then and, if it begins with registers, those of the machine of that
  frame. `WireInv`: the lists on their way are those of the frames that the
  other side has not played, in order; how many were sent is fixed by the
  program point. It is weakened where a connection was reset, because such a
  side may have sent less, and nobody reads it any more. `AgreeInv`: both
  machines were fed the same. Each part needs the others: that the two lists
  that meet in `ReceiveList` are of one frame (`ListsMeet`) follows from
  `PeerInv` of the one side and `WireInv` of the other, and then `AgreeInv`
  makes the compared registers equal (`InSync`). From it `SameInputs` and
  `NeverFalseAlarm`. What `event_playback_event_list` plays of a list that grows
  by an event is proved by induction on the length of the list (`NatInduct`,
  stated for sets and proved from the well-foundedness of the naturals). The
  hypothesis that `frame_delta` is neither 0 nor 1 is the code's: it adds 5.
  With 1 the first list to be played would be chosen by a `frame_to_play` left
  from the session before.

* `EventHistoryProofs`, for lists of any length, any number of inputs, resets,
  commands and sessions, every length of a second and every `ResetCycles` from 1
  on. The theorems have no hypothesis about the constants; each says that its
  property holds in every state that is `Regular`: no slip was made yet, and at
  most one snapshot could not be written or read. They claim nothing after the
  first slip or the second fault, also where the property does: of the properties
  after the slips that they grant the run alone speaks, on a small instance.
  `PlaybackIsFaithful` thus is about inputs and commands that come while no stop, no
  reset and no other command waits for its turn, `AlarmHasOwner` about reads that
  do not fail behind the events, `TimestampsAreDue` about recordings without a reset
  while a timestamp was due (`odd`). The argument:
  - *A machine along a list.* `After(o, nodes, n)` is what the first n nodes make
    of a machine that starts in `o`, and counts the events that did not come at
    the end of an instruction (`missed`). It also carries what reading and writing
    those nodes gives, so that one induction follows both. Writing a list and
    reading it again drops the timestamps and makes up others; `FileWritten` and
    `FileRead` show that it leads to the same machine (`Same`), and that a
    timestamp that was made up is earlier than the event after it.
    `FedByAfter` connects it with the reference `FedBy` of the property.
  - *The invariant* `HistoryInv` has eight parts. `ControlInv`: which traps,
    resets and modes exclude one another. `ListInv`: the shape of the list and
    where `current` is in it. `AlarmInv`: an alarm outside recording and playback
    stands at a LIST_END, and a second fault is needed to change that list.
    `StampInv`: where the next timestamp is, also while a reset is pending and in
    the milestone. `EndInv`: `end.vsf` accounts for the machine in it. `SyncInv`:
    the list up to `current` accounts for the machine, or for what the pending
    reset will make of it. `TrackInv`: the rest of the list leads to the machine
    of `end.vsf`, and the machine will meet the cycle of the next event at the end
    of an instruction. None is inductive alone: going back to a milestone needs
    `EndInv` for `SyncInv`, writing one the converse, and starting a playback needs
    both for `TrackInv`.
  - *One lemma per action*, then `HistoryInvariance` and from it `PlaybackIsFaithful`,
    `ListAccounts`, `AlarmHasOwner`, `TimestampsAreDue`, `PlaybackGoesOn` and
    `TypeCorrect`. A step out of a `Regular` state that ends in one made no slip and at
    most the first fault (`RegularKept`, `LateFailureSlips`), and no trap waits behind
    another (`OneTrap`); that is what the lemmas about the actions start from.

  `ResetCycles >= 1` is used: `event_reset_ack` takes a RESETCPU at `current` for the
  reset that was played. When a session begins with a reset, a timestamp comes
  before the first recorded reset only because the clock starts behind 0
  (`ResetNotFirst`); otherwise the first reset of the playback would be skipped.

All invariants and action properties of the runs that are expected to pass are
proved, under the hypotheses given above; the types of `Alarm`, `MainLock` and `EventHistory` are proved and not
model-checked again. Only model-checked are the liveness properties: the prover
has no fairness.

## 5. Limits, and what is not modelled

* `Interrupt` models the 6510 of the main CPU; the other cores share the macro
  code with other opcodes. A load that fails *inside* the CPU module, before
  the interrupt status is complete, is not modelled.
* `Netplay`: one connection at a time, fixed roles, no process that dies
  without closing its sockets, `frame_delta` taken from a given set. Suspending
  and disconnecting happen after the sync trap of the frame; they do not touch
  what it reads.
* `Render`: one window, OpenGL. Which OpenGL calls may hang in the join is not
  known to the model: any may. A window is realized once. Contexts are freed
  after the VICE thread was joined.
* `EventHistory`: of the inputs an attached image (acts at once), a joystick value
  (acts later) and resets; the others are recorded like one of these. Images
  stored inside the history, with the list of them (`event_destroy_image_list`),
  files of old versions and an `end.vsf` without any EVENT module, which
  the recorder does not write, are left out. The mode of a recording is the one
  it was commanded in, although the trap reads the resource again. What reading
  a snapshot attaches by itself is not recorded, as in the code.
* `Pause`: the GTK interface; the SDL and headless ones pause in other ways. The
  frame timing of `vsync.c` is arithmetic on the host's clock.
* `KbdBuf`: one `kbdbuf_init`; the parsing of the command line string is data.
* Not modelled yet although a model would pay: autostart, the datasette, the flash
  ROM, the timers of the CIA and VIA, the IEC bus, the fliplist.
* Opcodes, chips, drives, file formats, the monitor's commands, resources,
  widgets and tools are not modelled: see the reasons in `PROJECT.json`.

## 6. Plan

Done in this order, the behaviour on which everything else rests first: alarms,
traps, interrupts, the main lock, netplay, the renderer, then the event history,
the vsync callbacks with pausing, and the keyboard buffer.

Proved since: the safety properties of all of these.

Then, extending the model: `Autostart` and `Datasette`, the two largest mode
machines; `Flash040` and the CIA timers, chips whose alarms set each other;
`Fliplist`, edits of a circular list against the current entry.
