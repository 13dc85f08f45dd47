------------------------------ MODULE Netplay ------------------------------
(***************************************************************************)
(* Netplay (network.c): two emulators run the same program in lockstep.    *)
(* The server sends its snapshot and its settings to the client, measures  *)
(* the delay and chooses frame_delta.  From then on each side records its  *)
(* input events, a list per frame, in a ring of frame_delta lists; in      *)
(* every vsync it sends the list of the frame that ends and, once the ring *)
(* is full, waits for the other side's list of the oldest frame, plays     *)
(* both lists, the server's first, and goes on to the next frame.          *)
(*                                                                         *)
(* The connection is TCP: wire[p] holds what is on its way to p, in order. *)
(* end[p] is what p's socket says once that is read: "open", "fin" (the    *)
(* other side closed: recv returns 0), "finrst" (so it was, and sending    *)
(* fails too) or "rst" (both fail).  The emulated machine is what it was   *)
(* fed: one sequence of inputs for every frame since the snapshot, of      *)
(* which the registers that EVENT_SYNC_TEST records are a function.        *)
(***************************************************************************)
EXTENDS Integers, Sequences

CONSTANTS Deltas,      \* what network_test_delay may find frame_delta to be
          MaxFrames,   \* bound: frames of a session
          MaxInputs,   \* bound: input events
          MaxSuspends, \* bound: how often the sides suspend
          MaxSessions  \* bound: connections

\* The ring has two lists at least: network_test_delay adds the delay in frames
\* to 5, and only one of 251 frames and more would wrap around to 0 or 1.
ASSUME NetplayConstants ==
  /\ Deltas \subseteq Nat \ {0, 1}
  /\ MaxFrames \in Nat /\ MaxInputs \in Nat
  /\ MaxSuspends \in Nat /\ MaxSessions \in Nat

S == "server"
C == "client"
Peers == {S, C}
Other(p) == IF p = S THEN C ELSE S

VARIABLES mode,      \* network_mode
          net,       \* network_socket: "null", "open" or "closed" (not set to NULL)
          lis,       \* the server's listen_socket, likewise
          backlog,   \* a client has connected and was not accepted yet
          pc,        \* where the VICE thread is
          suspended,
          ring,      \* frame_event_list, frame_delta, current_frame, ...
          syncTrap,  \* network_event_record_sync_test is a pending trap
          wire, end,
          machine,   \* what the emulated machine was fed, frame by frame
          recorded,  \* history: the inputs each side recorded, frame by frame
          session,   \* history: the session each side is in
          inputs,    \* history: number of inputs so far
          suspends,  \* history: number of suspends so far
          sessions,  \* history: number of connections so far
          falseAlarm \* history: "Network out of sync" was reported

connVars == <<mode, net, lis, backlog>>
history == <<recorded, session, inputs, suspends, sessions, falseAlarm>>
vars == <<connVars, pc, suspended, ring, syncTrap, wire, end, machine, history>>

\* The events of a list.
Sync(m) == <<"sync", m>>
Input(i) == <<"input", i>>
ListEnd == <<"end">>

\* event_playback_event_list: the inputs among the events in front of
\* EVENT_LIST_END.
Plays(list, n) == list[n][1] = "input" /\ \A k \in 1 .. n - 1 : list[k] # ListEnd
InputsOf(list) ==
  LET played[n \in 0 .. Len(list)] ==
        IF n = 0 THEN << >>
        ELSE IF Plays(list, n) THEN Append(played[n - 1], list[n]) ELSE played[n - 1]
  IN  played[Len(list)]

NoRing == [delta |-> 0, current |-> 0, play |-> 0, full |-> FALSE, lists |-> << >>]
Index(r) == 0 .. r.delta - 1

TypeOK ==
  /\ mode[S] \in {"IDLE", "SERVER", "SERVER_CONNECTED"} /\ mode[C] \in {"IDLE", "CLIENT"}
  /\ \A p \in Peers :
       /\ net[p] \in {"null", "open", "closed"}
       /\ pc[p] \in {"frame", "recv", "spin", "abort", "trap", "ping", "snapshot", "settings", "delta"}
       /\ end[p] \in {"open", "fin", "finrst", "rst"}
       /\ ring[p].delta > 0 =>
            ring[p].current \in Index(ring[p]) /\ DOMAIN ring[p].lists = Index(ring[p])
  /\ lis \in {"null", "open", "closed"}

Both(x) == [p \in Peers |-> x]

Init ==
  /\ mode = Both("IDLE") /\ net = Both("null") /\ lis = "null" /\ backlog = FALSE
  /\ pc = Both("frame") /\ suspended = Both(FALSE)
  /\ ring = Both(NoRing) /\ syncTrap = Both(FALSE)
  /\ wire = Both(<< >>) /\ end = Both("open")
  /\ machine = Both(<< >>) /\ recorded = Both(<< >>)
  /\ session = Both(0) /\ inputs = 0 /\ suspends = 0 /\ sessions = 0
  /\ falseAlarm = FALSE

network_connected(p) == mode[p] \in {"SERVER_CONNECTED", "CLIENT"}

------------------------------------------------------------------------------
(***************************************************************************)
(* Sockets.  Closing one with data that has arrived and was not read       *)
(* resets the connection; otherwise the other side reads what is left and  *)
(* then the end of the stream.                                             *)
(***************************************************************************)
HangUp(p) ==
  \E how \in IF wire[p] = << >> THEN {"fin"} ELSE {"fin", "rst"} :
    end' = [end EXCEPT ![Other(p)] = IF @ = "open" THEN how ELSE @]

\* vice_network_socket_close(network_socket) and the mode that follows.  The
\* assertion of socket.c ends the program when the socket was closed before;
\* its other sockets are closed then, too.  A connection that still waits to
\* be accepted goes with listen_socket.
Disconnect(p, next) ==
  LET aborts == net[p] = "closed"
      unlistens == p = S /\ (aborts \/ mode[S] # "SERVER_CONNECTED")
  IN  /\ pc' = [pc EXCEPT ![p] = IF aborts THEN "abort" ELSE next]
      /\ mode' = [mode EXCEPT ![p] = IF aborts THEN @
                                     ELSE IF @ = "SERVER_CONNECTED" THEN "SERVER" ELSE "IDLE"]
      /\ net' = [net EXCEPT ![p] = IF @ = "open" THEN "closed" ELSE @]
      /\ lis' = IF unlistens /\ lis = "open" THEN "closed" ELSE lis
      /\ backlog' = (backlog /\ ~ unlistens)
      /\ IF net[p] = "open" THEN HangUp(p)
         ELSE end' = IF backlog /\ unlistens THEN [end EXCEPT ![C] = "rst"] ELSE end

Sent(p, m) == [wire EXCEPT ![Other(p)] = Append(@, m)]

------------------------------------------------------------------------------
(***************************************************************************)
(* Connecting.                                                             *)
(***************************************************************************)
network_start_server ==
  /\ pc[S] = "frame" /\ mode[S] = "IDLE" /\ sessions < MaxSessions
  /\ lis' = "open"
  /\ mode' = [mode EXCEPT ![S] = "SERVER"]
  /\ UNCHANGED <<net, backlog, pc, suspended, ring, syncTrap, wire, end, machine, history>>

\* The client waits for the snapshot before it does anything else.
network_connect_client ==
  /\ pc[C] = "frame" /\ mode[C] = "IDLE" /\ sessions < MaxSessions
  /\ mode[S] = "SERVER" /\ pc[S] = "frame" /\ ~ backlog /\ net[S] # "open"
  /\ net' = [net EXCEPT ![C] = "open"]
  /\ backlog' = TRUE
  /\ wire' = Both(<< >>) /\ end' = Both("open")
  /\ pc' = [pc EXCEPT ![C] = "snapshot"]
  /\ sessions' = sessions + 1
  /\ UNCHANGED <<mode, lis, suspended, ring, syncTrap, machine, recorded, session,
                 inputs, suspends, falseAlarm>>

\* No server is running.
ConnectRefused ==
  /\ pc[C] = "frame" /\ mode[C] = "IDLE" /\ lis # "open"
  /\ net' = [net EXCEPT ![C] = "null"]
  /\ UNCHANGED <<mode, lis, backlog, pc, suspended, ring, syncTrap, wire, end, machine, history>>

\* network_hook of a server that nobody is connected to.
Accept ==
  /\ pc[S] = "frame" /\ mode[S] = "SERVER" /\ backlog
  /\ backlog' = FALSE
  /\ net' = [net EXCEPT ![S] = "open"]
  /\ pc' = [pc EXCEPT ![S] = "trap"]
  /\ UNCHANGED <<mode, lis, suspended, ring, syncTrap, wire, end, machine, history>>

\* The snapshot, the settings and the first test packet leave at once; the
\* NUM_OF_TESTPACKETS round trips are one here.
network_server_connect_trap ==
  /\ pc[S] = "trap" /\ net[S] = "open"
  /\ wire' = [wire EXCEPT ![C] = @ \o << <<"snapshot">>, <<"settings">>, <<"test">> >>]
  /\ mode' = [mode EXCEPT ![S] = "SERVER_CONNECTED"]
  /\ pc' = [pc EXCEPT ![S] = "ping"]
  /\ UNCHANGED <<net, lis, backlog, suspended, ring, syncTrap, end, machine, history>>

\* The snapshot cannot be written, or the user has disconnected meanwhile.
ServerCannotSend ==
  /\ pc[S] = "trap"
  /\ pc' = [pc EXCEPT ![S] = "frame"]
  /\ UNCHANGED <<connVars, suspended, ring, syncTrap, wire, end, machine, history>>

ReceiveSnapshot ==
  /\ pc[C] = "snapshot" /\ wire[C] # << >>
  /\ wire' = [wire EXCEPT ![C] = Tail(@)]
  /\ pc' = [pc EXCEPT ![C] = "settings"]
  /\ UNCHANGED <<connVars, suspended, ring, syncTrap, end, machine, history>>

\* network_connect_client gives up; a closed connection keeps it in
\* network_recv_buffer, which takes 0 for a short read.
NoSnapshot ==
  /\ pc[C] = "snapshot" /\ wire[C] = << >>
  /\ \/ /\ end[C] = "rst"
        /\ pc' = [pc EXCEPT ![C] = "frame"]
        /\ net' = [net EXCEPT ![C] = "closed"]
     \/ /\ end[C] \in {"fin", "finrst"}
        /\ pc' = [pc EXCEPT ![C] = "spin"]
        /\ UNCHANGED net
  /\ UNCHANGED <<mode, lis, backlog, suspended, ring, syncTrap, wire, end, machine, history>>

network_client_connect_trap ==
  /\ pc[C] = "settings"
  /\ mode' = [mode EXCEPT ![C] = "CLIENT"]
  /\ wire' = [wire EXCEPT ![C] = SubSeq(@, 3, Len(@)), ![S] = Append(@, <<"test">>)]
  /\ pc' = [pc EXCEPT ![C] = "delta"]
  /\ UNCHANGED <<net, lis, backlog, suspended, ring, syncTrap, end, machine, history>>

\* machine_read_snapshot fails: the client goes on alone.
ClientCannotLoad ==
  /\ pc[C] = "settings"
  /\ wire' = [wire EXCEPT ![C] = Tail(@)]
  /\ pc' = [pc EXCEPT ![C] = "frame"]
  /\ UNCHANGED <<connVars, suspended, ring, syncTrap, end, machine, history>>

\* network_free_frame_event_list and network_init_frame_event_list;
\* frame_to_play keeps its value.
StartFrames(p, d) ==
  /\ ring' = [ring EXCEPT ![p] = [delta |-> d, current |-> 0, play |-> @.play, full |-> FALSE,
                                  lists |-> [i \in 0 .. d - 1 |-> << >>]]]
  /\ syncTrap' = [syncTrap EXCEPT ![p] = TRUE]
  /\ machine' = [machine EXCEPT ![p] = << >>]
  /\ recorded' = [recorded EXCEPT ![p] = << << >> >>]
  /\ session' = [session EXCEPT ![p] = sessions]
  /\ pc' = [pc EXCEPT ![p] = "frame"]

\* network_test_delay: the server has its answer and chooses the delay.
ServerTestDelay ==
  /\ pc[S] = "ping" /\ wire[S] # << >>
  /\ \E d \in Deltas :
       /\ StartFrames(S, d)
       /\ wire' = [wire EXCEPT ![S] = Tail(@), ![C] = Append(@, <<"delta", d>>)]
  /\ UNCHANGED <<connVars, suspended, end, inputs, suspends, sessions, falseAlarm>>

ClientTestDelay ==
  /\ pc[C] = "delta" /\ wire[C] # << >>
  /\ StartFrames(C, Head(wire[C])[2])
  /\ wire' = [wire EXCEPT ![C] = Tail(@)]
  /\ UNCHANGED <<connVars, suspended, end, inputs, suspends, sessions, falseAlarm>>

------------------------------------------------------------------------------
(***************************************************************************)
(* A frame.                                                                *)
(***************************************************************************)
Record(r, e) == [r EXCEPT !.lists[r.current] = Append(@, e)]

\* A key, a joystick, a reset, an image or a setting that network_control
\* lets this side change.
network_event_record(p) ==
  /\ pc[p] = "frame" /\ network_connected(p) /\ inputs < MaxInputs
  /\ inputs' = inputs + 1
  /\ ring' = [ring EXCEPT ![p] = Record(@, Input(inputs + 1))]
  /\ recorded' = [recorded EXCEPT ![p][Len(recorded[p])] = Append(@, Input(inputs + 1))]
  /\ UNCHANGED <<connVars, pc, suspended, syncTrap, wire, end, machine, session, suspends, sessions, falseAlarm>>

\* The trap runs before the next instruction.  An event that is recorded
\* before it comes first in the list; whether the user disconnects or
\* suspends before or after it makes no difference.
network_event_record_sync_test(p) ==
  /\ pc[p] = "frame" /\ syncTrap[p]
  /\ syncTrap' = [syncTrap EXCEPT ![p] = FALSE]
  /\ ring' = [ring EXCEPT ![p] = Record(@, Sync(machine[p]))]
  /\ UNCHANGED <<connVars, pc, suspended, wire, end, machine, history>>

\* vsync_suspend_speed_eval: a length of 0 tells the other side to wait.
network_suspend(p) ==
  /\ pc[p] = "frame" /\ network_connected(p) /\ ~ syncTrap[p]
  /\ ~ suspended[p] /\ suspends < MaxSuspends
  /\ suspends' = suspends + 1
  /\ wire' = IF end[p] = "open" THEN Sent(p, <<"suspend">>) ELSE wire
  /\ suspended' = [suspended EXCEPT ![p] = TRUE]
  /\ UNCHANGED <<connVars, pc, ring, syncTrap, end, machine, recorded, session, inputs,
                 sessions, falseAlarm>>

\* The user disconnects.
network_disconnect(p) ==
  /\ pc[p] \in {"frame", "trap"} /\ mode[p] # "IDLE" /\ ~ syncTrap[p]
  /\ Disconnect(p, pc[p])
  /\ UNCHANGED <<suspended, ring, syncTrap, wire, machine, history>>

\* Slip: the newest list is played, not the oldest.
PreparePlaysNewest(p, r, fed) ==
  LET current == (r.current + 1) % r.delta
  IN  /\ ring' = [ring EXCEPT ![p] = [r EXCEPT !.current = current,
                                               !.play = current,
                                               !.lists[current] = << >>]]
      /\ syncTrap' = [syncTrap EXCEPT ![p] = TRUE]
      /\ machine' = [machine EXCEPT ![p] = Append(@, fed)]
      /\ recorded' = [recorded EXCEPT ![p] = Append(@, << >>)]

network_prepare_next_frame(p, r, fed) ==
  LET current == (r.current + 1) % r.delta
  IN  /\ ring' = [ring EXCEPT ![p] = [r EXCEPT !.current = current,
                                               !.play = (current + 1) % r.delta,
                                               !.lists[current] = << >>]]
      /\ syncTrap' = [syncTrap EXCEPT ![p] = TRUE]
      /\ machine' = [machine EXCEPT ![p] = Append(@, fed)]
      /\ recorded' = [recorded EXCEPT ![p] = Append(@, << >>)]

\* network_hook of a connected side: network_hook_connected_send, then
\* network_hook_connected_receive up to the first recv.
Sealed(p) == Record(ring[p], ListEnd)
EnterReceive(r) == [r EXCEPT !.full = @ \/ r.current = r.delta - 1]

HookSends(p) ==
  LET r == EnterReceive(Sealed(p))
  IN  /\ pc[p] = "frame" /\ network_connected(p) /\ ~ syncTrap[p]
      /\ Len(machine[p]) < MaxFrames
      /\ end[p] \in {"open", "fin"}
      /\ wire' = IF end[p] = "open" THEN Sent(p, <<"list", r.lists[r.current]>>) ELSE wire
      /\ end' \in {end, [end EXCEPT ![p] = IF @ = "fin" THEN "finrst" ELSE @]}
      /\ suspended' = [suspended EXCEPT ![p] = FALSE]
      /\ IF r.full
         THEN /\ pc' = [pc EXCEPT ![p] = "recv"]
              /\ ring' = [ring EXCEPT ![p] = r]
              /\ UNCHANGED <<syncTrap, machine, recorded>>
         ELSE network_prepare_next_frame(p, r, << >>) /\ UNCHANGED pc
      /\ UNCHANGED <<connVars, session, inputs, suspends, sessions, falseAlarm>>

\* Sending fails: the connection is closed, and the receiving half of the
\* hook is entered all the same.
HookCannotSend(p) ==
  LET r == EnterReceive(Sealed(p))
  IN  /\ pc[p] = "frame" /\ network_connected(p) /\ ~ syncTrap[p]
      /\ Len(machine[p]) < MaxFrames
      /\ end[p] \in {"finrst", "rst"}
      /\ Disconnect(p, IF r.full THEN "recv" ELSE "frame")
      /\ suspended' = [suspended EXCEPT ![p] = FALSE]
      /\ IF r.full
         THEN ring' = [ring EXCEPT ![p] = r] /\ UNCHANGED <<syncTrap, machine, recorded>>
         ELSE network_prepare_next_frame(p, r, << >>)
      /\ UNCHANGED <<wire, session, inputs, suspends, sessions, falseAlarm>>

Receiving(p) == pc[p] = "recv" /\ net[p] = "open" /\ wire[p] # << >>

\* Slip: the length of 0 is looked at again and again.
ReceiveSuspendForEver(p) ==
  /\ Receiving(p) /\ Head(wire[p])[1] = "suspend"
  /\ suspended' = [suspended EXCEPT ![p] = TRUE]
  /\ UNCHANGED <<connVars, pc, ring, syncTrap, wire, end, machine, history>>

ReceiveSuspend(p) ==
  /\ Receiving(p) /\ Head(wire[p])[1] = "suspend"
  /\ suspended' = [suspended EXCEPT ![p] = TRUE]
  /\ wire' = [wire EXCEPT ![p] = Tail(@)]
  /\ UNCHANGED <<connVars, pc, ring, syncTrap, end, machine, history>>

\* The registers are compared if both lists begin with them.
OutOfSync(a, b) == a[1][1] = "sync" /\ b[1][1] = "sync" /\ a[1] # b[1]

\* Slip: each side plays its own events first.
FedOwnFirst(p, own, remote) == InputsOf(own) \o InputsOf(remote)

\* What both sides play in a frame: the server's events, then the client's.
Fed(p, own, remote) ==
  IF mode[p] = "SERVER_CONNECTED"
  THEN InputsOf(own) \o InputsOf(remote)
  ELSE InputsOf(remote) \o InputsOf(own)

\* The rest of network_hook_connected_receive.  Lists that do not agree end
\* the connection, but are played.
ReceiveList(p) ==
  LET own == ring[p].lists[ring[p].play]
      remote == Head(wire[p])[2]
  IN  /\ Receiving(p) /\ Head(wire[p])[1] = "list"
      /\ wire' = [wire EXCEPT ![p] = Tail(@)]
      /\ IF OutOfSync(own, remote)
         THEN falseAlarm' = TRUE /\ Disconnect(p, "frame")
         ELSE /\ pc' = [pc EXCEPT ![p] = "frame"]
              /\ UNCHANGED <<connVars, end, falseAlarm>>
      /\ network_prepare_next_frame(p, ring[p], Fed(p, own, remote))
      /\ UNCHANGED <<suspended, session, inputs, suspends, sessions>>

\* recv fails: the length is missing and the connection is closed (again, if
\* sending failed before), or the list is missing and the hook just returns.
ReceiveFails(p) ==
  /\ pc[p] = "recv"
  /\ \/ net[p] = "closed" /\ Disconnect(p, "frame")
     \/ net[p] = "open" /\ end[p] = "rst" /\ Disconnect(p, "frame")
     \/ /\ Receiving(p) /\ end[p] = "rst"
        /\ pc' = [pc EXCEPT ![p] = "frame"]
        /\ UNCHANGED <<connVars, end>>
  /\ UNCHANGED <<suspended, ring, syncTrap, wire, machine, history>>

\* recv returns 0 and network_recv_buffer calls it again, for ever.
ReceiveSpins(p) ==
  /\ pc[p] = "recv" /\ net[p] = "open"
  /\ wire[p] = << >> /\ end[p] \in {"fin", "finrst"}
  /\ pc' = [pc EXCEPT ![p] = "spin"]
  /\ UNCHANGED <<connVars, suspended, ring, syncTrap, wire, end, machine, history>>

Receive(p) == ReceiveSuspend(p) \/ ReceiveList(p) \/ ReceiveFails(p) \/ ReceiveSpins(p)
Hook(p) == HookSends(p) \/ HookCannotSend(p)

Connect ==
  \/ network_start_server \/ network_connect_client \/ ConnectRefused \/ Accept
  \/ network_server_connect_trap \/ ServerCannotSend
  \/ ReceiveSnapshot \/ NoSnapshot
  \/ network_client_connect_trap \/ ClientCannotLoad
  \/ ServerTestDelay \/ ClientTestDelay

Next ==
  \/ Connect
  \/ \E p \in Peers :
       \/ network_event_record(p) \/ network_event_record_sync_test(p)
       \/ network_suspend(p) \/ network_disconnect(p)
       \/ Hook(p) \/ Receive(p)

Spec == Init /\ [][Next]_vars

\* Emulation goes on: every frame ends, and what was sent arrives.
FairSpec ==
  /\ Spec
  /\ WF_vars(ServerTestDelay) /\ WF_vars(ClientTestDelay)
  /\ \A p \in Peers :
       /\ WF_vars(network_event_record_sync_test(p))
       /\ WF_vars(Hook(p))
       /\ WF_vars(Receive(p))

------------------------------------------------------------------------------
(***************************************************************************)
(* Properties.                                                             *)
(***************************************************************************)

\* In every frame of a session each side feeds its machine exactly what the
\* server and then the client recorded frame_delta - 1 frames before, and
\* nothing in the first frames: the two machines stay the same.
Lockstep ==
  session[S] = session[C] =>
    \A p \in Peers : \A n \in DOMAIN machine[p] :
      LET k == n - ring[p].delta + 1
      IN  machine[p][n] = IF k < 1 THEN << >> ELSE recorded[S][k] \o recorded[C][k]

\* The lists whose registers are compared belong to the same frame of the
\* same session: "Network out of sync" is never reported without cause.
NoFalseAlarm == ~ falseAlarm

LinkUp == \A p \in Peers : network_connected(p) /\ net[p] = "open" /\ end[p] = "open"

\* While nobody disconnects a side that waits for the other one's list gets
\* it: the two never wait for each other, suspended or not.
FramesGoOn == \A p \in Peers : pc[p] = "recv" /\ LinkUp ~> pc[p] = "frame" \/ ~ LinkUp

\* A side that waits for a list notices that the other one is gone.
LossNoticed == \A p \in Peers : pc[p] = "recv" /\ end[p] # "open" ~> pc[p] = "frame"
==============================================================================
