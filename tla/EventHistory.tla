---------------------------- MODULE EventHistory ----------------------------
(***************************************************************************)
(* The event history (event.c, with machine_trigger_reset and              *)
(* machine_reset of machine.c and the delayed input of joystick.c): a      *)
(* session is recorded as a snapshot of its start and a list of inputs,    *)
(* each with the cycle it arrived at, and played back by giving a restored *)
(* machine the same inputs at the same cycles.  end.vsf holds the list and *)
(* the machine of the moment it was written; a milestone is such a file    *)
(* written on the way.                                                     *)
(*                                                                         *)
(* The emulated machine is what it was fed: the sequence of its inputs,    *)
(* with their cycles, since it was powered up.  A hard reset empties it;   *)
(* what a hard reset leaves alone (images, settings) is taken to be the    *)
(* same at playback, as the manual demands.  A node of the list is a       *)
(* record; the tail node is a LIST_END, and cur is the list's `current'.   *)
(* An alarm that is not set has the time Unset (CLOCK_MAX).                *)
(*                                                                         *)
(* The recorder does not refuse everything that it is not made for.  What  *)
(* goes astray is kept in slips, a history variable that no action reads   *)
(* but to bound it: each kind is a sequence of legal calls, or a failure.  *)
(* A property that such a slip breaks says so, and claims nothing after it.*)
(***************************************************************************)
EXTENDS Integers, Sequences, FiniteSets

CONSTANTS Second,       \* machine_get_cycles_per_second()
          ResetCycles,  \* maincpu_clk after a reset (6 in the code)
          ClockMod,     \* CLOCK is unsigned: arithmetic is modulo ClockMod
          MaxClk,       \* bound: cycles between two resets
          MaxInputs,    \* bound: inputs and resets
          MaxRequests,  \* bound: commands to the recorder
          MaxFaults,    \* bound: snapshots that cannot be written or read
          MaxSlips      \* bound: kinds of slips in one behaviour

ASSUME EventConstants ==
  /\ Second \in Nat \ {0} /\ ResetCycles \in 1 .. MaxClk
  /\ MaxClk \in Nat /\ MaxInputs \in Nat /\ MaxRequests \in Nat
  /\ MaxFaults \in Nat /\ MaxSlips \in Nat
  /\ ClockMod \in Nat /\ ClockMod > 2 * (MaxClk + Second) + 2

Modes == {"FILE_SAVE", "FILE_LOAD", "RESET", "PLAYBACK"}
Unset == ClockMod

Slips ==
  {"resetting",    \* the user acts between the request for a reset and the reset,
                   \* or asks for one when a trap or an input is due
   "stopping",     \* an input between event_record_stop and its trap
   "taking_over",  \* an image attached while a playback is being taken over
   "late_input",   \* an input latched after a playback was started
   "recording_in_playback", \* a recording started during a playback, not out of it
   "stopping_at_reset",     \* a playback stopped while the reset it played is pending
   "commanding",   \* a command before the trap of the last one
   "late_failure"} \* end.vsf is read up to its EVENT module, and fails then

VARIABLES clk,             \* maincpu_clk
          machine,         \* what the machine was fed
          reset,           \* the pending reset: "none", "soft" or "hard"
          joystick_alarm,  \* time of the latched joystick value
          list, cur,       \* event_list
          record_active, playback_active, playback_reset_ack,
          alarm,           \* time of event_alarm
          next_timestamp_clk, milestone_timestamp_alarm,
          start_file, end_file,
          trap,            \* the next trap of the recorder: "none", "stop", "set",
                           \* "return", "play" or the start mode to record in
          more,            \* the traps behind it
          in_interrupt,    \* DO_INTERRUPT ran a trap; more traps or a reset follow
          sid,             \* history: the session the list belongs to
          sessions,        \* history: number of sessions so far
          odd,             \* history: exempts this recording from TimestampDue
          slips,           \* history: the kinds of slips so far
          inputs, requests, faults \* history: how many there were so far

cpuVars == <<clk, machine, reset, joystick_alarm, in_interrupt>>
listVars == <<list, cur, sid, sessions>>
modeVars == <<record_active, playback_active, playback_reset_ack>>
stampVars == <<next_timestamp_clk, odd>>
fileVars == <<start_file, end_file, faults>>
uiVars == <<trap, more, requests, inputs, slips>>
savedVars == <<milestone_timestamp_alarm, fileVars>>
vars == <<cpuVars, listVars, modeVars, alarm, stampVars, savedVars, uiVars>>

Node(type, c, data) == [type |-> type, clk |-> c, data |-> data]
TailNode == Node("LIST_END", 0, "")

\* A snapshot file; session 0 is a file that is not there.
NoFile == [session |-> 0, clk |-> 0, machine |-> <<>>, events |-> <<>>]

AlarmDue == alarm <= clk
JoystickDue == joystick_alarm <= clk

\* The recording was stopped, and end.vsf is not written yet.
StopAsked == record_active /\ \E i \in 1 .. cur - 1 : list[i].type = "LIST_END"

When(condition, kind) == IF condition THEN {kind} ELSE {}

Slip(kinds) ==
  /\ slips' = slips \cup kinds
  /\ Cardinality(slips') <= MaxSlips

\* The user acts while the CPU loop is not in DO_INTERRUPT.
UserActs(kinds) ==
  /\ ~in_interrupt
  /\ Slip(kinds \cup When(reset # "none", "resetting"))

-----------------------------------------------------------------------------
(* The list. *)

\* event_record_in_list: the tail becomes the event, a new tail follows.
event_record_in_list(type, data) ==
  /\ list' = SubSeq(list, 1, cur - 1) \o <<Node(type, clk, data), TailNode>>
  /\ cur' = cur + 1

event_record(type, data) ==
  IF record_active THEN event_record_in_list(type, data) ELSE UNCHANGED <<list, cur>>

FirstEnd(nodes) ==
  CHOOSE i \in DOMAIN nodes : /\ nodes[i].type = "LIST_END"
                              /\ \A j \in 1 .. i - 1 : nodes[j].type # "LIST_END"

\* warp_end_list: go to the first LIST_END, which is cleared.
warp_end_list(nodes) == SubSeq(nodes, 1, FirstEnd(nodes) - 1) \o <<TailNode>>

\* event_snapshot_write_module: the nodes without the timestamps.
event_snapshot_write_module(nodes) ==
  LET written[n \in 0 .. Len(nodes)] ==
        IF n = 0 THEN <<>>
        ELSE IF nodes[n].type = "TIMESTAMP" THEN written[n - 1]
        ELSE Append(written[n - 1], nodes[n])
  IN written[Len(nodes)]

\* One event of the file: the timestamps of the seconds before it, and itself.
ReadNode(acc, node) ==
  LET from == IF node.type # "INITIAL" THEN acc.next
              ELSE IF node.data = "RESET" THEN 0 ELSE node.clk
      count == IF node.type = "INITIAL" THEN 0
               ELSE Cardinality({k \in 0 .. MaxClk : from + k * Second < node.clk})
      upTo == from + count * Second
  IN [nodes |-> acc.nodes
                \o [k \in 1 .. count |-> Node("TIMESTAMP", from + (k - 1) * Second, "")]
                \o <<node>>,
      next |-> IF node.type = "RESETCPU" THEN upTo - node.clk ELSE upTo]

\* event_snapshot_read_module: reads up to the first LIST_END.
event_snapshot_read_module(events) ==
  LET read[n \in 0 .. FirstEnd(events)] ==
        IF n = 0 THEN [nodes |-> <<>>, next |-> 0] ELSE ReadNode(read[n - 1], events[n])
  IN read[FirstEnd(events)]

\* The module of end.vsf replaces the list; current is its base.
ReadModule ==
  LET read == event_snapshot_read_module(end_file.events)
  IN /\ list' = read.nodes
     /\ next_timestamp_clk' = read.next
     /\ sid' = end_file.session

-----------------------------------------------------------------------------
(* Snapshot files. *)

Snapshot(session, events) ==
  [session |-> session, clk |-> clk, machine |-> machine, events |-> events]

\* machine_read_snapshot of a file that is there.
Restore(file) == clk' = file.clk /\ machine' = file.machine

\* machine_trigger_reset in a trap: playback ignores it ...
ResetOr(mode) == IF playback_active THEN reset ELSE mode

\* ... and a recording records it, the given number of times, at current.
ResetRecorded(mode, times, nodes, current, next) ==
  IF record_active /\ ~playback_active
  THEN /\ list' = SubSeq(nodes, 1, current - 1)
                   \o [k \in 1 .. times |-> Node("RESETCPU", clk', mode)] \o <<TailNode>>
       /\ cur' = current + times
       /\ next_timestamp_clk' = (next - times * clk') % ClockMod
  ELSE list' = nodes /\ cur' = current /\ next_timestamp_clk' = next

\* machine_read_snapshot fails in a module: a part of the machine was read,
\* and it is to be reset.
Unreadable(file) ==
  /\ clk' = file.clk
  /\ machine' = <<<<file.clk, "broken">>>>

Fault == faults < MaxFaults /\ faults' = faults + 1

\* machine_write_snapshot fails: the file could not be opened, or it is removed.
WriteFailed(file) == {file, NoFile}

-----------------------------------------------------------------------------
(* The machine. *)

\* The cycles of the next instruction: the machine decides, not the recorder.
Cycles == 1 + ((clk + Len(machine)) % 2)

\* An instruction; alarms, traps and a reset that are due come first.
Instruction ==
  /\ ~in_interrupt /\ trap = "none" /\ reset = "none"
  /\ ~AlarmDue /\ ~JoystickDue
  /\ clk + Cycles <= MaxClk
  /\ clk' = clk + Cycles
  /\ UNCHANGED <<machine, reset, joystick_alarm, in_interrupt, listVars,
                 modeVars, alarm, stampVars, savedVars, uiVars>>

Feed(input) == machine' = Append(machine, <<clk, input>>)

\* Slip: the reset that was played is not recognised.
ResetAckForgetsEvent ==
  IF playback_reset_ack
  THEN playback_reset_ack' = FALSE /\ alarm' = list[cur].clk /\ UNCHANGED cur
  ELSE /\ alarm' = IF record_active THEN next_timestamp_clk ELSE alarm
       /\ UNCHANGED <<cur, playback_reset_ack>>

\* event_reset_ack: the alarm was waiting for the clock to be set back.
event_reset_ack ==
  LET passed == list # <<>> /\ cur # 0 /\ list[cur].type = "RESETCPU"
  IN /\ playback_reset_ack' = FALSE
     /\ cur' = IF passed THEN cur + 1 ELSE cur
     /\ alarm' = CASE record_active -> next_timestamp_clk
                   [] ~record_active /\ (passed \/ playback_reset_ack) -> list[cur'].clk
                   [] OTHER -> alarm

\* cpu_reset, machine_reset.  Where current is NULL (PlaybackStartReset) and the
\* alarm is to be set for it, the program crashes: nothing follows.
machine_reset ==
  /\ reset # "none" /\ trap = "none"
  /\ ~(playback_reset_ack /\ cur = 0)
  /\ in_interrupt \/ ~(AlarmDue \/ JoystickDue)
  /\ clk' = ResetCycles
  /\ machine' = IF reset = "hard" THEN <<>> ELSE Append(machine, <<clk, "reset">>)
  /\ reset' = "none"
  /\ in_interrupt' = FALSE
  /\ event_reset_ack
  /\ UNCHANGED <<joystick_alarm, list, sid, sessions, record_active,
                 playback_active, stampVars, savedVars, uiVars>>

\* What machine_trigger_reset records.
RecordReset(mode) ==
  /\ event_record("RESETCPU", mode)
  /\ next_timestamp_clk' = IF record_active THEN (next_timestamp_clk - clk) % ClockMod
                           ELSE next_timestamp_clk
  /\ odd' = (odd \/ (record_active /\ AlarmDue))

\* The user resets the machine (machine_trigger_reset); playback ignores it.
machine_trigger_reset(mode) ==
  /\ UserActs(When(trap # "none" \/ JoystickDue, "resetting") \cup When(StopAsked, "stopping"))
  /\ inputs < MaxInputs
  /\ ~playback_active
  /\ RecordReset(mode)
  /\ reset' = mode
  /\ inputs' = inputs + 1
  /\ UNCHANGED <<clk, machine, joystick_alarm, in_interrupt, sid, sessions,
                 modeVars, alarm, savedVars, trap, more, requests>>

\* The user attaches an image: at once (file_system_attach_disk).
file_system_attach_disk ==
  /\ UserActs(When(StopAsked, "stopping") \cup When(trap = "PLAYBACK", "taking_over"))
  /\ inputs < MaxInputs
  /\ ~playback_active
  /\ Feed("attach")
  /\ event_record("ATTACHIMAGE", "")
  /\ inputs' = inputs + 1
  /\ UNCHANGED <<clk, reset, joystick_alarm, in_interrupt, sid, sessions,
                 modeVars, alarm, stampVars, savedVars, trap, more, requests>>

\* The user moves the joystick: a random delay later it is latched.
joystick_set_value ==
  /\ UserActs(When(StopAsked, "stopping") \cup When(trap = "play", "late_input"))
  /\ inputs < MaxInputs
  /\ ~playback_active
  /\ joystick_alarm = Unset
  /\ joystick_alarm' = clk + 1
  /\ inputs' = inputs + 1
  /\ UNCHANGED <<clk, machine, reset, in_interrupt, listVars, modeVars, alarm,
                 stampVars, savedVars, trap, more, requests>>

joystick_latch_handler ==
  /\ ~in_interrupt /\ JoystickDue
  /\ joystick_alarm' = Unset
  /\ Feed("joystick")
  /\ event_record("JOYSTICK_VALUE", "")
  /\ UNCHANGED <<clk, reset, in_interrupt, sid, sessions, modeVars, alarm,
                 stampVars, savedVars, uiVars>>

-----------------------------------------------------------------------------
(* event_alarm_handler: a timestamp while recording, the current event while *)
(* playing back.                                                             *)

RecordTimestamp ==
  /\ ~in_interrupt /\ AlarmDue
  /\ record_active
  /\ next_timestamp_clk' = (next_timestamp_clk + Second) % ClockMod
  /\ alarm' = next_timestamp_clk'
  /\ UNCHANGED <<cpuVars, listVars, modeVars, odd, savedVars, uiVars>>

\* What the event at current does to the machine.
PlayEvent(node) ==
  /\ machine' = CASE node.type = "ATTACHIMAGE" -> Append(machine, <<clk, "attach">>)
                  [] node.type = "JOYSTICK_VALUE" -> Append(machine, <<clk, "joystick">>)
                  [] OTHER -> machine
  /\ reset' = IF node.type = "RESETCPU" THEN node.data ELSE reset

PlaybackEvent ==
  /\ ~in_interrupt /\ AlarmDue
  /\ ~record_active
  /\ PlayEvent(list[cur])
  /\ playback_active' = (playback_active /\ list[cur].type # "LIST_END")
  /\ IF list[cur].type \in {"LIST_END", "RESETCPU"}
     THEN alarm' = Unset /\ UNCHANGED cur
     ELSE cur' = cur + 1 /\ alarm' = list[cur'].clk
  /\ UNCHANGED <<clk, joystick_alarm, in_interrupt, list, sid, sessions,
                 record_active, playback_reset_ack, next_timestamp_clk, odd,
                 savedVars, uiVars>>

-----------------------------------------------------------------------------
(* The user's commands: each asks for a trap. *)

Command(kinds) ==
  /\ UserActs(kinds \cup When(trap # "none", "commanding"))
  /\ requests < MaxRequests
  /\ requests' = requests + 1

\* interrupt_maincpu_trigger_trap: the traps wait in order.
Ask(next) ==
  IF trap = "none" THEN trap' = next /\ UNCHANGED more
  ELSE more' = Append(more, next) /\ UNCHANGED trap

\* The resource EventStartMode is mode; in the mode PLAYBACK the command ends a
\* playback, and is refused without one.
event_record_start(mode) ==
  /\ Command(When(mode # "PLAYBACK" /\ playback_active, "recording_in_playback"))
  /\ IF mode = "PLAYBACK" THEN playback_active ELSE ~record_active
  /\ playback_active' = (playback_active /\ mode # "PLAYBACK")
  /\ alarm' = IF mode = "PLAYBACK" THEN Unset ELSE alarm
  /\ IF record_active THEN UNCHANGED <<trap, more>> ELSE Ask(mode)
  /\ UNCHANGED <<cpuVars, listVars, record_active, playback_reset_ack,
                 stampVars, savedVars, inputs>>

\* The list is ended now, end.vsf is written by the trap.
event_record_stop ==
  /\ Command(When(joystick_alarm # Unset, "stopping"))
  /\ record_active
  /\ event_record_in_list("LIST_END", "")
  /\ Ask("stop")
  /\ alarm' = Unset
  /\ UNCHANGED <<cpuVars, sid, sessions, modeVars, stampVars, savedVars,
                 inputs>>

event_playback_start ==
  /\ Command(When(joystick_alarm # Unset, "late_input"))
  /\ ~record_active /\ ~playback_active
  /\ Ask("play")
  /\ UNCHANGED <<cpuVars, listVars, modeVars, alarm, stampVars, savedVars,
                 inputs>>

\* Slip: the alarm stays set.
PlaybackStopKeepsAlarm ==
  /\ playback_active
  /\ Command(When(list[cur].type = "RESETCPU", "stopping_at_reset"))
  /\ playback_active' = FALSE
  /\ UNCHANGED <<cpuVars, listVars, record_active, playback_reset_ack, alarm,
                 stampVars, savedVars, trap, more, inputs>>

event_playback_stop ==
  /\ playback_active
  /\ Command(When(list[cur].type = "RESETCPU", "stopping_at_reset"))
  /\ playback_active' = FALSE
  /\ alarm' = Unset
  /\ UNCHANGED <<cpuVars, listVars, record_active, playback_reset_ack,
                 stampVars, savedVars, trap, more, inputs>>

event_record_set_milestone ==
  /\ Command({})
  /\ record_active
  /\ Ask("set")
  /\ UNCHANGED <<cpuVars, listVars, modeVars, alarm, stampVars, savedVars,
                 inputs>>

event_record_reset_milestone ==
  /\ Command({})
  /\ record_active /\ ~playback_active
  /\ Ask("return")
  /\ UNCHANGED <<cpuVars, listVars, modeVars, alarm, stampVars, savedVars,
                 inputs>>

-----------------------------------------------------------------------------
(* The traps; all that wait are called, and a reset they trigger follows, *)
(* before any alarm.                                                       *)

RunTrap(name, pending) ==
  /\ trap = name
  /\ trap' = IF more = <<>> THEN "none" ELSE Head(more)
  /\ more' = IF more = <<>> THEN <<>> ELSE Tail(more)
  /\ in_interrupt \/ ~(AlarmDue \/ JoystickDue)
  /\ reset' = pending
  /\ in_interrupt' = (pending # "none" \/ more # <<>>)
  /\ UNCHANGED <<joystick_alarm, requests, inputs>>

Trap(name, pending) == RunTrap(name, pending) /\ UNCHANGED slips

\* A new list, with the initial event in it (create_list, event_initial_write).
NewList(mode) ==
  /\ list' = <<Node("INITIAL", clk, mode), TailNode>>
  /\ cur' = 2
  /\ sessions' = sessions + 1
  /\ sid' = sessions + 1

\* The end of event_record_start_trap.
Recording ==
  /\ record_active' = TRUE
  /\ milestone_timestamp_alarm' = 0
  /\ alarm' = next_timestamp_clk'
  /\ odd' = FALSE
  /\ UNCHANGED <<playback_active, playback_reset_ack>>

RecordStartSave ==
  /\ Trap("FILE_SAVE", reset)
  /\ start_file' = Snapshot(sessions + 1, <<>>)
  /\ NewList("FILE_SAVE")
  /\ next_timestamp_clk' = clk
  /\ Recording
  /\ UNCHANGED <<clk, machine, end_file, faults>>

\* start.vsf cannot be written.
RecordStartSaveFails ==
  /\ Trap("FILE_SAVE", reset)
  /\ start_file' \in WriteFailed(start_file) /\ Fault
  /\ UNCHANGED <<clk, machine, listVars, modeVars, alarm, stampVars,
                 milestone_timestamp_alarm, end_file>>

\* The session of end.vsf is continued.
RecordStartLoad ==
  /\ Trap("FILE_LOAD", reset)
  /\ end_file # NoFile
  /\ Restore(end_file)
  /\ LET read == event_snapshot_read_module(end_file.events)
     IN /\ list' = warp_end_list(read.nodes)
        /\ cur' = Len(list')
  /\ sid' = end_file.session
  /\ next_timestamp_clk' = clk'
  /\ Recording
  /\ UNCHANGED <<sessions, fileVars>>

RecordStartReset ==
  /\ Trap("RESET", ResetOr("hard"))
  /\ NewList("RESET")
  /\ next_timestamp_clk' = 0
  /\ Recording
  /\ UNCHANGED <<clk, machine, fileVars>>

\* Slip: the rest of the old history is kept.
RecordStartPlaybackKeepsTail ==
  /\ Trap("PLAYBACK", reset)
  /\ cur' = Len(list)
  /\ next_timestamp_clk' = clk
  /\ Recording
  /\ UNCHANGED <<clk, machine, list, sid, sessions, fileVars>>

\* The list is cut where the playback was; current keeps its clk.
RecordStartPlayback ==
  /\ Trap("PLAYBACK", reset)
  /\ list' = [SubSeq(list, 1, cur) EXCEPT ![cur].type = "LIST_END"]
  /\ next_timestamp_clk' = clk
  /\ Recording
  /\ UNCHANGED <<clk, machine, cur, sid, sessions, fileVars>>

event_record_stop_trap ==
  /\ Trap("stop", reset)
  /\ \/ /\ end_file' = Snapshot(sid, event_snapshot_write_module(list))
        /\ UNCHANGED faults
        /\ record_active' = FALSE /\ UNCHANGED odd
     \/ /\ end_file' \in WriteFailed(end_file) /\ Fault
        /\ odd' = TRUE /\ UNCHANGED record_active
  /\ UNCHANGED <<clk, machine, listVars, playback_active, playback_reset_ack,
                 alarm, next_timestamp_clk, milestone_timestamp_alarm,
                 start_file>>

event_record_set_milestone_trap ==
  /\ Trap("set", reset)
  /\ \/ /\ end_file' = Snapshot(sid, event_snapshot_write_module(list))
        /\ UNCHANGED faults
        /\ milestone_timestamp_alarm' = next_timestamp_clk
     \/ /\ end_file' \in WriteFailed(end_file) /\ Fault
        /\ UNCHANGED milestone_timestamp_alarm
  /\ UNCHANGED <<clk, machine, listVars, modeVars, alarm, stampVars,
                 start_file>>

\* Slip: the time stamps go on from where they were.
ResetMilestoneKeepsStamp ==
  /\ Trap("return", reset)
  /\ end_file # NoFile
  /\ Restore(end_file)
  /\ LET read == event_snapshot_read_module(end_file.events)
     IN /\ list' = warp_end_list(read.nodes)
        /\ cur' = Len(list')
  /\ sid' = end_file.session
  /\ UNCHANGED <<sessions, record_active, playback_active, playback_reset_ack,
                 alarm, next_timestamp_clk, odd, savedVars>>

\* Back to end.vsf; without a milestone the time of the alarm is left alone.
event_record_reset_milestone_trap ==
  /\ Trap("return", reset)
  /\ end_file # NoFile
  /\ Restore(end_file)
  /\ LET read == event_snapshot_read_module(end_file.events)
     IN /\ list' = warp_end_list(read.nodes)
        /\ cur' = Len(list')
        /\ IF milestone_timestamp_alarm > 0
           THEN /\ next_timestamp_clk' = milestone_timestamp_alarm
                /\ alarm' = milestone_timestamp_alarm
           ELSE /\ next_timestamp_clk' = read.next
                /\ UNCHANGED <<alarm>>
  /\ odd' = (odd \/ milestone_timestamp_alarm = 0)
  /\ sid' = end_file.session
  /\ record_active' = TRUE
  /\ UNCHANGED <<sessions, playback_active, playback_reset_ack, savedVars>>

\* end.vsf cannot be opened (here or in event_playback_start_trap or
\* RecordStartLoad); recording was switched off to read it.
EndNotThere ==
  /\ \/ Trap("return", reset) /\ record_active' = FALSE
     \/ Trap("play", reset) /\ UNCHANGED record_active
     \/ /\ Trap("FILE_LOAD", reset)
        /\ UNCHANGED record_active
  /\ end_file = NoFile
  /\ UNCHANGED <<clk, machine, listVars, playback_active, playback_reset_ack,
                 alarm, stampVars, savedVars>>

\* end.vsf can be opened and read in parts, up to its EVENT module or with it.
\* event_record_reset_milestone_trap has switched recording off.
EndUnreadable(late) ==
  /\ end_file # NoFile
  /\ Unreadable(end_file) /\ Fault
  /\ LET read == event_snapshot_read_module(end_file.events)
         nodes == IF late THEN read.nodes ELSE list
         current == IF late THEN 1 ELSE cur
         next == IF late THEN read.next ELSE next_timestamp_clk
     IN \/ /\ RunTrap("return", ResetOr("soft"))
           /\ record_active' = FALSE
           /\ list' = nodes /\ cur' = current /\ next_timestamp_clk' = next
        \/ /\ RunTrap("FILE_LOAD", ResetOr("soft"))
           /\ UNCHANGED record_active
           /\ ResetRecorded("soft", 1, nodes, current, next)
  /\ sid' = IF late THEN end_file.session ELSE sid
  /\ Slip(When(late, "late_failure"))
  /\ UNCHANGED <<sessions, playback_active, playback_reset_ack, alarm, odd,
                 milestone_timestamp_alarm, start_file, end_file>>

\* Slip: the machine is not taken back to the start of the session.
PlaybackStartHere ==
  /\ Trap("play", reset)
  /\ end_file # NoFile /\ end_file.events[1].data # "RESET"
  /\ start_file # NoFile
  /\ ReadModule
  /\ cur' = 2
  /\ alarm' = list'[2].clk
  /\ playback_active' = TRUE
  /\ UNCHANGED <<clk, machine, sessions, record_active, playback_reset_ack, odd, savedVars>>

\* event_playback_start_trap: the session started with start.vsf.
PlaybackStartFile ==
  /\ Trap("play", reset)
  /\ end_file # NoFile /\ end_file.events[1].data # "RESET"
  /\ start_file # NoFile
  /\ ReadModule
  /\ Restore(start_file)
  /\ cur' = 2
  /\ alarm' = list'[2].clk
  /\ playback_active' = TRUE
  /\ UNCHANGED <<sessions, record_active, playback_reset_ack, odd, savedVars>>

\* The EVENT module of end.vsf ends after no event or n: they are the list.
PlaybackStartModuleCut ==
  /\ Trap("play", reset)
  /\ end_file # NoFile /\ Fault
  /\ \/ list' = <<TailNode>> /\ next_timestamp_clk' = ClockMod - 1
     \/ \E n \in 1 .. FirstEnd(end_file.events) - 1 :
          LET read == event_snapshot_read_module(SubSeq(end_file.events, 1, n) \o <<TailNode>>)
          IN list' = read.nodes /\ next_timestamp_clk' = read.next
  /\ cur' = 1
  /\ sid' = end_file.session
  /\ UNCHANGED <<clk, machine, sessions, modeVars, alarm, odd,
                 milestone_timestamp_alarm, start_file, end_file>>

\* start.vsf is not there: the list is read, nothing is played.
PlaybackStartNoFile ==
  /\ Trap("play", reset)
  /\ end_file # NoFile /\ end_file.events[1].data # "RESET"
  /\ start_file = NoFile
  /\ ReadModule
  /\ cur' = 1
  /\ UNCHANGED <<clk, machine, sessions, modeVars, alarm, odd, savedVars>>

\* start.vsf is there, and two attempts to read it fail.
PlaybackStartFails ==
  /\ Trap("play", ResetOr("soft"))
  /\ end_file # NoFile /\ end_file.events[1].data # "RESET"
  /\ start_file # NoFile
  /\ Unreadable(start_file) /\ Fault
  /\ LET read == event_snapshot_read_module(end_file.events)
     IN ResetRecorded("soft", 2, read.nodes, 1, read.next)
  /\ sid' = end_file.session
  /\ UNCHANGED <<sessions, modeVars, alarm, odd, milestone_timestamp_alarm,
                 start_file, end_file>>

\* The session started with a reset: the alarm waits for it.  With a recording
\* on (both were commanded at once) the reset is recorded over the list's
\* first node, and current goes on to the NULL after the new tail.
PlaybackStartReset ==
  /\ Trap("play", ResetOr("hard"))
  /\ end_file # NoFile /\ end_file.events[1].data = "RESET"
  /\ IF record_active /\ ~playback_active
     THEN /\ list' = <<Node("RESETCPU", clk, "hard"), TailNode>> /\ cur' = 0
          /\ next_timestamp_clk' =
               (event_snapshot_read_module(end_file.events).next - clk) % ClockMod
          /\ sid' = end_file.session
     ELSE ReadModule /\ cur' = 2
  /\ playback_reset_ack' = TRUE
  /\ playback_active' = TRUE
  /\ UNCHANGED <<clk, machine, sessions, record_active, alarm, odd, savedVars>>

-----------------------------------------------------------------------------
Init ==
  /\ clk = ResetCycles /\ machine = <<>> /\ reset = "none"
  /\ joystick_alarm = Unset /\ in_interrupt = FALSE
  /\ list = <<>> /\ cur = 0 /\ sid = 0 /\ sessions = 0
  /\ record_active = FALSE /\ playback_active = FALSE /\ playback_reset_ack = FALSE
  /\ alarm = Unset
  /\ next_timestamp_clk = 0
  /\ milestone_timestamp_alarm = 0
  /\ odd = FALSE
  /\ start_file = NoFile /\ end_file = NoFile
  /\ trap = "none" /\ more = <<>> /\ slips = {}
  /\ requests = 0 /\ inputs = 0 /\ faults = 0

RecordStartTrap ==
  \/ RecordStartSave \/ RecordStartSaveFails \/ RecordStartLoad
  \/ RecordStartReset \/ RecordStartPlayback

PlaybackStartTrap ==
  \/ PlaybackStartFile \/ PlaybackStartReset
  \/ PlaybackStartModuleCut \/ PlaybackStartNoFile \/ PlaybackStartFails

Traps ==
  \/ RecordStartTrap \/ PlaybackStartTrap
  \/ event_record_stop_trap
  \/ event_record_set_milestone_trap \/ event_record_reset_milestone_trap
  \/ EndNotThere
  \/ \E late \in BOOLEAN : EndUnreadable(late)

Emulation ==
  \/ Instruction \/ joystick_latch_handler
  \/ RecordTimestamp \/ PlaybackEvent
  \/ machine_reset \/ Traps

User ==
  \/ \E mode \in {"soft", "hard"} : machine_trigger_reset(mode)
  \/ file_system_attach_disk \/ joystick_set_value
  \/ (\E mode \in Modes : event_record_start(mode)) \/ event_record_stop
  \/ event_playback_start \/ event_playback_stop
  \/ event_record_set_milestone \/ event_record_reset_milestone

Next == Emulation \/ User

Spec == Init /\ [][Next]_vars

-----------------------------------------------------------------------------
Inputs == Nat \X {"attach", "joystick", "reset", "broken"}
Nodes == [type : {"INITIAL", "ATTACHIMAGE", "JOYSTICK_VALUE", "RESETCPU", "TIMESTAMP",
                  "LIST_END"},
          clk : Nat, data : {"", "soft", "hard"} \cup Modes]

TypeOK ==
  /\ clk \in 0 .. MaxClk /\ machine \in Seq(Inputs)
  /\ reset \in {"none", "soft", "hard"}
  /\ joystick_alarm \in 0 .. ClockMod /\ alarm \in 0 .. ClockMod
  /\ next_timestamp_clk \in 0 .. ClockMod - 1
  /\ list \in Seq(Nodes) /\ cur \in 0 .. Len(list)
  /\ more \in Seq({"stop", "set", "return", "play"} \cup Modes) /\ slips \subseteq Slips
  /\ record_active \in BOOLEAN /\ playback_active \in BOOLEAN
  /\ start_file.machine \in Seq(Inputs) /\ end_file.events \in Seq(Nodes)

\* No slip of these kinds was made.
Without(kinds) == slips \cap kinds = {}

\* All events are played, and the machine is the one of end.vsf.
Reproduced ==
  /\ playback_active /\ ~playback_reset_ack
  /\ list[cur].type = "LIST_END"
  /\ list[1].data # "RESET" => start_file.session = sid
  => /\ machine = end_file.machine
     /\ AlarmDue /\ list[cur].clk = end_file.clk => clk = end_file.clk

\* A playback gives the machine what the recording gave it: when all events are
\* played, the machine is the one that end.vsf was written from, and where the
\* list was ended in that cycle, it stops in that cycle.  start.vsf has to be
\* the one that the session wrote.  The claim ends where an input falls between
\* event_record_stop and its trap or is latched after a playback was started
\* (event.c:796, 926), where the user acts while a reset or another command
\* waits for its turn, or records during a playback, and where a read that
\* fails has replaced the list.
PlaybackReproduces ==
  Without({"stopping", "late_input", "resetting", "commanding",
           "recording_in_playback", "late_failure"}) => Reproduced

\* What the events of a list, played one after the other, make of a machine.
Fed(m, node) ==
  CASE node.type = "ATTACHIMAGE" -> Append(m, <<node.clk, "attach">>)
    [] node.type = "JOYSTICK_VALUE" -> Append(m, <<node.clk, "joystick">>)
    [] node.type = "RESETCPU" /\ node.data = "soft" -> Append(m, <<node.clk, "reset">>)
    [] node.type = "RESETCPU" /\ node.data = "hard" -> <<>>
    [] OTHER -> m

\* The machine m after the first n events of nodes.
FedBy(m, nodes, n) ==
  LET fed[k \in 0 .. n] == IF k = 0 THEN m ELSE Fed(fed[k - 1], nodes[k])
  IN fed[n]

\* At every moment of a recording, however it was continued (end.vsf loaded, a
\* playback taken over, milestones), the list accounts for the machine: the
\* events before current lead from the start of the session to it.  The claim
\* ends where an image is attached before the trap takes the playback over
\* (nothing records it), and with the slips that end PlaybackReproduces.
ListAccountsForMachine ==
  LET known == list[1].data = "RESET" \/ start_file.session = sid
  IN /\ Without({"taking_over", "stopping", "late_input", "resetting", "commanding",
                 "recording_in_playback", "late_failure"})
     /\ record_active /\ reset = "none" /\ known
     => machine = FedBy(IF list[1].data = "RESET" THEN <<>> ELSE start_file.machine,
                        list, cur - 1)

Owned ==
  alarm # Unset => record_active \/ playback_active \/ list[cur].type = "LIST_END"

\* The alarm of the recorder never plays an event outside a playback: it is
\* set for a recording, for a playback or for nothing.  It does play one when
\* a playback is stopped while the reset that it played is pending, as
\* event_reset_ack does not ask for playback_active (event.c:822), after a
\* return to end.vsf that fails, as the alarm of the recording stays set, once
\* another failure leaves an event at current, and after a second command
\* before the first one's trap.
AlarmOwned ==
  Without({"stopping_at_reset", "late_failure", "commanding"}) /\ faults <= 1 => Owned

StampDue ==
  record_active /\ ~StopAsked /\ reset = "none" =>
    /\ alarm = next_timestamp_clk
    /\ clk <= next_timestamp_clk + ResetCycles
    /\ next_timestamp_clk <= clk + Second

\* While it records, the next timestamp is at most a second away, and the alarm
\* is set for it; it is late by no more than the cycles of a reset, after which
\* the clock does not start at 0.  Exempt, until the next start of a recording
\* (odd): a reset recorded while the timestamp was due or overdue, where
\* next_timestamp_clk - maincpu_clk is below 0 (event.c:338) and the alarm that
\* fires before the reset pushes it on past the old clock; a return to end.vsf
\* without the time of a milestone; a stop that could not write end.vsf.
TimestampDue ==
  Without({"resetting", "commanding", "recording_in_playback", "late_failure"}) /\ ~odd
    => StampDue

\* A playback never stalls, and so comes to its end: the alarm is set for the
\* current event, or the reset is pending that sets it (event_reset_ack).  It
\* may stall when the user records during it, gives a command before the last
\* one's trap or acts while a reset is pending, and after a late failure.
PlaybackNeverStalls ==
  /\ Without({"resetting", "commanding", "recording_in_playback", "late_failure"})
  /\ playback_active
  => \/ reset # "none" /\ (playback_reset_ack \/ list[cur].type = "RESETCPU")
     \/ reset = "none" /\ alarm = list[cur].clk

-----------------------------------------------------------------------------
(* What the exemptions stand for: the program does not keep these. *)

\* An input between event_record_stop and its trap is in end.vsf's machine and
\* not in its list (event.c:796).
StopKeepsInputs == slips \subseteq {"stopping"} => Reproduced

\* The playback's reset sets the alarm again after event_playback_stop
\* (event.c:822).
StopEndsPlayback == slips \subseteq {"stopping_at_reset"} => Owned

\* A reset is recorded while the timestamp is due (event.c:338).
ResetKeepsStamps == slips = {} => StampDue
=============================================================================
