------------------------ MODULE EventHistoryProofs ------------------------
(***************************************************************************)
(* Proofs about module EventHistory: as long as no slip was made and at    *)
(* most one snapshot could not be written or read, the list accounts for   *)
(* the machine while it is recorded, a playback reproduces the machine of  *)
(* end.vsf and never stalls, the alarm is owned and the timestamps are due.*)
(* The user and the files are not restricted: the theorems claim nothing   *)
(* of a behaviour from its first slip or its second fault on.              *)
(*                                                                         *)
(* The invariant follows a machine along a list: After(o, nodes, n) is     *)
(* what the first n nodes make of a machine that starts in o, and says     *)
(* whether each of them came at the end of an instruction of that machine. *)
(* Writing the list to end.vsf and reading it again drops and inserts      *)
(* timestamps only, so that it leads to the same machine.                  *)
(***************************************************************************)
EXTENDS EventHistory, FiniteSetTheorems, WellFoundedInduction, TLAPS

\* What the theorems are about.
Regular == slips = {} /\ faults <= 1

\* A step to such a state, when at most one trap waits.
Careful == Regular' /\ more = <<>>

-----------------------------------------------------------------------------
(***************************************************************************)
(* A machine that follows a list.                                          *)
(***************************************************************************)
Played == {"ATTACHIMAGE", "JOYSTICK_VALUE", "RESETCPU"}

\* Instructions take the machine m from cycle c to cycle d.
Reach(c, m, d) == d = c \/ (d > c /\ (d + Len(m)) % 2 = 1)

\* s.m is the machine, s.at the cycle it was in after the last event, s.missed
\* the number of events that did not come at the end of an instruction.  s.read
\* and s.written are what reading and writing the nodes so far gives.
Pass(s, node) ==
  [m |-> Fed(s.m, node),
   at |-> IF node.type = "RESETCPU" THEN ResetCycles
          ELSE IF node.type \in Played THEN node.clk ELSE s.at,
   missed |-> IF node.type \in Played /\ ~Reach(s.at, s.m, node.clk) THEN s.missed + 1
              ELSE s.missed,
   read |-> ReadNode(s.read, node),
   written |-> IF node.type = "TIMESTAMP" THEN s.written ELSE Append(s.written, node)]

\* f is the course of a machine that starts in o, up to node n.
IsCourse(f, o, nodes, n) ==
  f = [k \in 0 .. n |-> IF k = 0 THEN o ELSE Pass(f[k - 1], nodes[k])]

After(o, nodes, n) == (CHOOSE f : IsCourse(f, o, nodes, n))[n]

\* Where a session starts: with a reset or with start.vsf.
Origin(first, file) ==
  [m |-> IF first.data = "RESET" THEN <<>> ELSE file.machine,
   at |-> IF first.data = "RESET" THEN ResetCycles ELSE file.clk,
   missed |-> 0,
   read |-> [nodes |-> <<>>, next |-> 0],
   written |-> <<>>]

\* The machine of s, after some more instructions, in cycle c.
Arrives(s, m, c) == s.missed = 0 /\ m = s.m /\ Reach(s.at, s.m, c)

-----------------------------------------------------------------------------
(***************************************************************************)
(* The invariant.                                                          *)
(***************************************************************************)
NodeTypes == {"INITIAL", "TIMESTAMP", "LIST_END"} \cup Played
NodeData == {"", "soft", "hard"} \cup Modes
TypedNodes ==
  {n \in [type : NodeTypes, clk : 0 .. MaxClk, data : NodeData] :
     n.type = "RESETCPU" => n.data \in {"soft", "hard"}}
Files == [session : Nat, clk : 0 .. MaxClk, machine : Seq(Inputs), events : Seq(TypedNodes)]
Idle == ~record_active /\ ~playback_active
Taking == playback_active \/ trap = "PLAYBACK"

Types ==
  /\ clk \in 0 .. MaxClk /\ machine \in Seq(Inputs)
  /\ reset \in {"none", "soft", "hard"} /\ in_interrupt \in BOOLEAN
  /\ joystick_alarm \in 0 .. ClockMod /\ alarm \in 0 .. ClockMod
  /\ next_timestamp_clk \in 0 .. ClockMod - 1
  /\ milestone_timestamp_alarm \in 0 .. ClockMod - 1
  /\ list \in Seq(TypedNodes) /\ cur \in Nat
  /\ record_active \in BOOLEAN /\ playback_active \in BOOLEAN
  /\ playback_reset_ack \in BOOLEAN /\ odd \in BOOLEAN
  /\ start_file \in Files /\ end_file \in Files
  /\ trap \in {"none", "stop", "set", "return", "play"} \cup Modes
  /\ sid \in Nat /\ sessions \in Nat /\ faults \in Nat

\* A list starts with INITIAL and ends with LIST_ENDs.
Shape(nodes) ==
  /\ Len(nodes) >= 2
  /\ nodes[1].type = "INITIAL"
  /\ \A i \in 2 .. Len(nodes) : nodes[i].type # "INITIAL"
  /\ nodes[Len(nodes)].type = "LIST_END"
  /\ \A i, j \in 1 .. Len(nodes) :
       i < j /\ nodes[i].type = "LIST_END" => nodes[j].type = "LIST_END"

NoEndBefore(nodes, n) == \A i \in 1 .. n - 1 : nodes[i].type # "LIST_END"

\* From node i on only timestamps, until node j.
StampsOnly(nodes, i, j) == \A k \in i .. j - 1 : nodes[k].type = "TIMESTAMP"

\* A timestamp that was inserted is earlier than the event after it.
StampsBefore(nodes) ==
  \A i, j \in 1 .. Len(nodes) :
    i < j /\ StampsOnly(nodes, i, j) /\ nodes[j].type # "TIMESTAMP"
      => nodes[i].clk < nodes[j].clk

\* Traps, resets and modes exclude one another.
ControlInv ==
  /\ in_interrupt => reset # "none" /\ trap = "none"
  /\ trap # "none" => reset = "none"
  /\ record_active => ~playback_active
  /\ trap \in {"stop", "set", "return"} => record_active
  /\ trap \in Modes \cup {"play"} => Idle
  /\ playback_reset_ack => playback_active /\ in_interrupt /\ reset = "hard" /\ cur = 2
  /\ playback_active \/ trap = "play" => joystick_alarm = Unset
  /\ trap \in {"stop", "PLAYBACK"} => alarm = Unset
  /\ (reset # "none" /\ ~in_interrupt) \/ trap = "PLAYBACK" => joystick_alarm > clk

\* The list, and where current is in it.
ListInv ==
  /\ list = <<>> => cur = 0 /\ ~record_active /\ ~Taking
  /\ list # <<>> =>
       /\ Shape(list) \/ (list = <<TailNode>> /\ ~record_active /\ ~Taking)
       /\ cur \in 1 .. Len(list)
       /\ sid \in 1 .. sessions
       /\ record_active => cur = Len(list)
       /\ Taking => cur >= 2 /\ NoEndBefore(list, Len(list)) /\ StampsBefore(list)
       /\ ~Taking => list[cur].type # "RESETCPU"
       /\ playback_reset_ack => list[1].data = "RESET" /\ list[2].type # "RESETCPU"
  /\ StopAsked => joystick_alarm = Unset /\ (odd \/ trap = "stop")

\* Who may have set the alarm, and when start.vsf may be missing.
AlarmInv ==
  /\ alarm # Unset /\ Idle =>
       /\ list # <<>> /\ list[cur].type = "LIST_END"
       /\ faults = 1 \/ end_file = NoFile
  /\ list # <<>> /\ list[1].data # "RESET" /\ start_file = NoFile => faults = 1
  /\ end_file # NoFile /\ end_file.events[1].data # "RESET" /\ start_file = NoFile =>
       faults = 1 /\ (alarm # Unset => ~Idle)
  /\ playback_active =>
       IF reset = "none" THEN alarm = list[cur].clk
       ELSE \/ playback_reset_ack
            \/ /\ list[cur].type = "RESETCPU" /\ list[cur].data = reset
               /\ alarm = Unset

StampInv ==
  /\ record_active /\ ~StopAsked /\ ~odd =>
       IF reset = "none"
       THEN /\ alarm = next_timestamp_clk
            /\ clk <= next_timestamp_clk + ResetCycles
            /\ next_timestamp_clk <= clk + Second
       ELSE /\ next_timestamp_clk <= Second
            /\ ~in_interrupt => alarm > clk
  /\ record_active /\ ~odd /\ milestone_timestamp_alarm > 0 /\ end_file # NoFile =>
       /\ end_file.clk <= milestone_timestamp_alarm + ResetCycles
       /\ milestone_timestamp_alarm <= end_file.clk + Second

\* The list comes from a start that is known.
Known(nodes, session) == nodes[1].data = "RESET" \/ start_file.session = session

\* end.vsf accounts for the machine in it.
EndInv ==
  /\ start_file.session \in 0 .. sessions
  /\ end_file # NoFile =>
       /\ Shape(end_file.events)
       /\ \A i \in 1 .. Len(end_file.events) : end_file.events[i].type # "TIMESTAMP"
       /\ end_file.session \in 1 .. sessions
       /\ Known(end_file.events, end_file.session) =>
            Arrives(After(Origin(end_file.events[1], start_file), end_file.events,
                          Len(end_file.events)),
                    end_file.machine, end_file.clk)

Here == After(Origin(list[1], start_file), list, cur - 1)
AtEnd == After(Origin(list[1], start_file), list, Len(list))

\* What the pending reset makes of the machine.
WhenReset == IF reset = "hard" THEN <<>> ELSE Append(machine, <<clk, "reset">>)

\* The list up to current accounts for the machine.
SyncInv ==
  (record_active \/ Taking) /\ Known(list, sid) =>
    IF reset = "none" THEN Arrives(Here, machine, clk)
    ELSE IF record_active THEN Arrives(Here, WhenReset, ResetCycles)
    ELSE playback_reset_ack \/ (Arrives(Here, machine, clk) /\ clk = list[cur].clk)

\* The machine m in cycle c will come to the cycle of the next event that is
\* played, and at the end of the list to cycle last.
Heading(nodes, n, c, m, last) ==
  \A j \in n .. Len(nodes) :
    StampsOnly(nodes, n, j) /\ nodes[j].type # "TIMESTAMP" =>
      /\ nodes[j].type \in Played => Reach(c, m, nodes[j].clk)
      /\ nodes[j].type = "LIST_END" => Reach(c, m, last) \/ nodes[j].clk # last

\* A playback is on its way to the machine of end.vsf.
TrackInv ==
  playback_active /\ Known(list, sid) =>
    /\ Arrives(AtEnd, end_file.machine, end_file.clk)
    /\ reset = "none" => Heading(list, cur, clk, machine, end_file.clk)

HistoryInv ==
  /\ Types /\ ControlInv /\ ListInv /\ AlarmInv /\ StampInv
  /\ EndInv /\ SyncInv /\ TrackInv

-----------------------------------------------------------------------------
(***************************************************************************)
(* Numbers.                                                                *)
(***************************************************************************)

\* A set of naturals that is not empty has a least member.
LEMMA LeastOf ==
  ASSUME NEW T \in SUBSET Nat, T # {}
  PROVE  \E x \in T : \A y \in T : x <= y
<1> DEFINE R == {ss \in Nat \X Nat : ss[1] < ss[2]}
<1>1. IsWellFoundedOn(R, Nat)
  BY NatLessThanWellFounded DEF OpToRel
<1>2. \A x, y \in Nat : x < y => <<x, y>> \in R
  OBVIOUS
<1> HIDE DEF R
<1>3. PICK x \in T : \A y \in T : ~ (<<y, x>> \in R)
  BY <1>1, WFMin
<1>4. \A y \in T : ~ (y < x)
  BY <1>2, <1>3
<1>5. \A y \in T : x <= y
  BY <1>4
<1> QED BY <1>5

\* Induction, for a set of naturals.
LEMMA Inductive ==
  ASSUME NEW P \in SUBSET Nat, 0 \in P, \A n \in P : n + 1 \in P
  PROVE  P = Nat
<1> SUFFICES ASSUME Nat \ P # {} PROVE FALSE
  OBVIOUS
<1>1. PICK x \in Nat \ P : \A y \in Nat \ P : x <= y
  BY LeastOf
<1>2. x # 0 /\ x - 1 \in Nat /\ ~(x <= x - 1)
  OBVIOUS
<1>3. x - 1 \in P
  BY <1>1, <1>2
<1>4. (x - 1) + 1 = x
  OBVIOUS
<1> QED BY <1>3, <1>4

-----------------------------------------------------------------------------
(***************************************************************************)
(* The course of a machine.                                                *)
(***************************************************************************)

\* The course exists.
LEMMA CourseExists ==
  ASSUME NEW o, NEW nodes, NEW n \in Nat
  PROVE  \E f : IsCourse(f, o, nodes, n)
<1> DEFINE P == {k \in Nat : \E f : IsCourse(f, o, nodes, k)}
<1>1. 0 \in P
  <2> DEFINE f == [k \in 0 .. 0 |-> o]
  <2>1. IsCourse(f, o, nodes, 0)
    BY DEF IsCourse
  <2> QED BY <2>1
<1>2. ASSUME NEW k \in P PROVE k + 1 \in P
  <2>1. PICK f : IsCourse(f, o, nodes, k)
    OBVIOUS
  <2> DEFINE g == [i \in 0 .. k + 1 |-> IF i = k + 1 THEN Pass(f[k], nodes[k + 1]) ELSE f[i]]
  <2>2. k \in Nat /\ k + 1 # 0 /\ (k + 1) - 1 = k
    OBVIOUS
  <2>3. \A i \in 0 .. k : f[i] = IF i = 0 THEN o ELSE Pass(f[i - 1], nodes[i])
    BY <2>1 DEF IsCourse
  <2>4. \A i \in 0 .. k : g[i] = f[i] /\ i # k + 1
    BY <2>2
  <2>5. g[k + 1] = Pass(f[k], nodes[k + 1])
    BY <2>2
  <2>6. ASSUME NEW i \in 0 .. k + 1
        PROVE  g[i] = IF i = 0 THEN o ELSE Pass(g[i - 1], nodes[i])
    <3>1. CASE i = k + 1
      <4>1. i # 0 /\ i - 1 = k /\ k \in 0 .. k
        BY <2>2, <3>1
      <4>2. g[i - 1] = f[k]
        BY <2>4, <4>1
      <4> HIDE DEF g
      <4> QED BY <2>5, <3>1, <4>1, <4>2
    <3>2. CASE i # k + 1
      <4>1. i \in 0 .. k
        BY <2>2, <3>2
      <4>2. i = 0 \/ i - 1 \in 0 .. k
        BY <4>1
      <4>3. g[i] = f[i] /\ (i # 0 => g[i - 1] = f[i - 1])
        BY <2>4, <4>1, <4>2
      <4> HIDE DEF g
      <4> QED BY <2>3, <4>1, <4>3
    <3> QED BY <3>1, <3>2
  <2>7. g = [i \in 0 .. k + 1 |-> g[i]]
    OBVIOUS
  <2> HIDE DEF g
  <2>8. IsCourse(g, o, nodes, k + 1)
    BY <2>6, <2>7 DEF IsCourse
  <2> QED BY <2>2, <2>8
<1> HIDE DEF P
<1>3. P \in SUBSET Nat
  BY DEF P
<1>4. P = Nat
  BY <1>1, <1>2, <1>3, Inductive
<1> QED BY <1>4 DEF P

\* Two courses along lists that begin alike agree.
LEMMA CoursesAgree ==
  ASSUME NEW o, NEW s, NEW t, NEW k \in Nat, NEW n \in Nat, k <= n,
         \A i \in 1 .. k : s[i] = t[i],
         NEW f, IsCourse(f, o, s, k), NEW g, IsCourse(g, o, t, n)
  PROVE  f[k] = g[k]
<1> DEFINE P == {i \in Nat : i <= k => f[i] = g[i]}
<1>1. /\ \A i \in 0 .. k : f[i] = IF i = 0 THEN o ELSE Pass(f[i - 1], s[i])
      /\ \A i \in 0 .. n : g[i] = IF i = 0 THEN o ELSE Pass(g[i - 1], t[i])
  BY DEF IsCourse
<1>2. 0 \in P
  BY <1>1
<1>3. ASSUME NEW i \in P PROVE i + 1 \in P
  <2> SUFFICES ASSUME i + 1 <= k PROVE f[i + 1] = g[i + 1]
    OBVIOUS
  <2>1. i \in Nat /\ f[i] = g[i]
    OBVIOUS
  <2>2. /\ i + 1 \in 0 .. k /\ i + 1 \in 0 .. n /\ i + 1 # 0 /\ (i + 1) - 1 = i
        /\ s[i + 1] = t[i + 1]
    BY <2>1
  <2> HIDE DEF P
  <2> QED BY <1>1, <2>1, <2>2
<1> HIDE DEF P
<1>4. P \in SUBSET Nat
  BY DEF P
<1>5. P = Nat
  BY <1>2, <1>3, <1>4, Inductive
<1> QED BY <1>5 DEF P

LEMMA CourseOfAfter ==
  ASSUME NEW o, NEW nodes, NEW n \in Nat
  PROVE  \E f : IsCourse(f, o, nodes, n) /\ After(o, nodes, n) = f[n]
<1> DEFINE f == CHOOSE f : IsCourse(f, o, nodes, n)
<1>1. IsCourse(f, o, nodes, n)
  BY CourseExists
<1>2. After(o, nodes, n) = f[n]
  BY DEF After
<1> QED BY <1>1, <1>2

\* Lists that begin alike lead to the same machine.
LEMMA SameStart ==
  ASSUME NEW o, NEW s, NEW t, NEW n \in Nat, \A i \in 1 .. n : s[i] = t[i]
  PROVE  After(o, s, n) = After(o, t, n)
<1>1. PICK f : IsCourse(f, o, s, n) /\ After(o, s, n) = f[n]
  BY CourseOfAfter
<1>2. PICK g : IsCourse(g, o, t, n) /\ After(o, t, n) = g[n]
  BY CourseOfAfter
<1>3. n <= n
  OBVIOUS
<1>4. f[n] = g[n]
  BY <1>1, <1>2, <1>3, CoursesAgree
<1> QED BY <1>1, <1>2, <1>4

\* Before the first node the machine is where it starts.
LEMMA AfterNone == ASSUME NEW o, NEW nodes PROVE After(o, nodes, 0) = o
<1>1. PICK f : IsCourse(f, o, nodes, 0) /\ After(o, nodes, 0) = f[0]
  BY CourseOfAfter
<1> QED BY <1>1 DEF IsCourse

\* One node more.
LEMMA AfterNext ==
  ASSUME NEW o, NEW nodes, NEW n \in Nat
  PROVE  After(o, nodes, n + 1) = Pass(After(o, nodes, n), nodes[n + 1])
<1>1. n + 1 \in Nat /\ n + 1 # 0 /\ (n + 1) - 1 = n /\ n + 1 \in 0 .. n + 1 /\ n <= n + 1
  OBVIOUS
<1>2. PICK f : IsCourse(f, o, nodes, n + 1) /\ After(o, nodes, n + 1) = f[n + 1]
  BY <1>1, CourseOfAfter
<1>3. PICK g : IsCourse(g, o, nodes, n) /\ After(o, nodes, n) = g[n]
  BY CourseOfAfter
<1>4. f[n + 1] = Pass(f[n], nodes[n + 1])
  BY <1>1, <1>2 DEF IsCourse
<1>5. g[n] = f[n]
  BY <1>1, <1>2, <1>3, CoursesAgree
<1> QED BY <1>2, <1>3, <1>4, <1>5

\* s and t are the same machine in the same cycle.
Same(s, t) == s.m = t.m /\ s.at = t.at /\ s.missed = t.missed

\* The same node does the same to both.
LEMMA PassSame ==
  ASSUME NEW s, NEW t, NEW node, Same(s, t)
  PROVE  Same(Pass(s, node), Pass(t, node))
BY DEF Same, Pass

\* A node that nothing is played for leaves the machine alone.
LEMMA PassStill ==
  ASSUME NEW s, NEW node, node.type \notin Played
  PROVE  Same(Pass(s, node), s)
<1>1. Fed(s.m, node) = s.m
  BY DEF Fed, Played
<1>2. node.type # "RESETCPU"
  BY DEF Played
<1> QED BY <1>1, <1>2 DEF Same, Pass

\* So do several.
LEMMA NodesStill ==
  ASSUME NEW o, NEW nodes, NEW i \in Nat, NEW j \in Nat, i <= j,
         \A k \in i + 1 .. j : nodes[k].type \notin Played
  PROVE  Same(After(o, nodes, j), After(o, nodes, i))
<1> DEFINE P == {d \in Nat : i + d <= j => Same(After(o, nodes, i + d), After(o, nodes, i))}
<1>1. 0 \in P
  <2>1. i + 0 = i
    OBVIOUS
  <2> QED BY <2>1 DEF Same
<1>2. ASSUME NEW d \in P PROVE d + 1 \in P
  <2> SUFFICES ASSUME i + (d + 1) <= j
               PROVE  Same(After(o, nodes, i + (d + 1)), After(o, nodes, i))
    OBVIOUS
  <2>1. /\ i + d \in Nat /\ i + (d + 1) = (i + d) + 1 /\ (i + d) + 1 \in i + 1 .. j
        /\ Same(After(o, nodes, i + d), After(o, nodes, i))
    OBVIOUS
  <2> HIDE DEF P
  <2>2. After(o, nodes, i + (d + 1)) = Pass(After(o, nodes, i + d), nodes[(i + d) + 1])
    BY <2>1, AfterNext
  <2>3. Same(Pass(After(o, nodes, i + d), nodes[(i + d) + 1]), After(o, nodes, i + d))
    BY <2>1, PassStill
  <2> QED BY <2>1, <2>2, <2>3 DEF Same
<1> HIDE DEF P
<1>3. P \in SUBSET Nat
  BY DEF P
<1>4. P = Nat
  BY <1>1, <1>2, <1>3, Inductive
<1>5. j - i \in P /\ i + (j - i) = j
  BY <1>4
<1> QED BY <1>5 DEF P

\* f is the machine of FedBy after each event.
IsFeed(f, m, nodes, n) ==
  f = [k \in 0 .. n |-> IF k = 0 THEN m ELSE Fed(f[k - 1], nodes[k])]

\* FedBy is the machine of the course.
LEMMA FedByAfter ==
  ASSUME NEW o, NEW nodes, NEW n \in Nat
  PROVE  FedBy(o.m, nodes, n) = After(o, nodes, n).m
<1> DEFINE g == [k \in 0 .. n |-> After(o, nodes, k).m]
           f == CHOOSE f : IsFeed(f, o.m, nodes, n)
<1>1. ASSUME NEW k \in 0 .. n, k # 0
      PROVE  After(o, nodes, k).m = Fed(After(o, nodes, k - 1).m, nodes[k])
  <2>1. k - 1 \in Nat /\ (k - 1) + 1 = k
    BY <1>1
  <2>2. After(o, nodes, k) = Pass(After(o, nodes, k - 1), nodes[k])
    BY <2>1, AfterNext
  <2> QED BY <2>2 DEF Pass
<1>2. After(o, nodes, 0).m = o.m
  BY AfterNone
<1>3. IsFeed(g, o.m, nodes, n)
  <2>1. \A k \in 0 .. n : k # 0 => k - 1 \in 0 .. n
    OBVIOUS
  <2>2. \A k \in 0 .. n : g[k] = IF k = 0 THEN o.m ELSE Fed(g[k - 1], nodes[k])
    BY <1>1, <1>2, <2>1
  <2>3. g = [k \in 0 .. n |-> g[k]]
    OBVIOUS
  <2> HIDE DEF g
  <2> QED BY <2>2, <2>3 DEF IsFeed
<1> HIDE DEF g
<1>4. IsFeed(f, o.m, nodes, n)
  BY <1>3
<1>5. FedBy(o.m, nodes, n) = f[n]
  BY DEF FedBy, IsFeed
<1> HIDE DEF f
<1>6. \A k \in 0 .. n : f[k] = IF k = 0 THEN o.m ELSE Fed(f[k - 1], nodes[k])
  BY <1>4 DEF IsFeed
<1> DEFINE P == {k \in Nat : k <= n => f[k] = After(o, nodes, k).m}
<1>7. 0 \in P
  BY <1>2, <1>6
<1>8. ASSUME NEW k \in P PROVE k + 1 \in P
  <2> SUFFICES ASSUME k + 1 <= n PROVE f[k + 1] = After(o, nodes, k + 1).m
    OBVIOUS
  <2>1. k + 1 \in 0 .. n /\ k + 1 # 0 /\ (k + 1) - 1 = k /\ f[k] = After(o, nodes, k).m
    OBVIOUS
  <2> HIDE DEF P
  <2> QED BY <1>1, <1>6, <2>1
<1> HIDE DEF P
<1>9. P \in SUBSET Nat
  BY DEF P
<1>10. P = Nat
  BY <1>7, <1>8, <1>9, Inductive
<1> QED BY <1>5, <1>10 DEF P

\* f is what event_snapshot_read_module has read after each event.
IsReading(f, nodes, n) ==
  f = [k \in 0 .. n |-> IF k = 0 THEN [nodes |-> <<>>, next |-> 0] ELSE ReadNode(f[k - 1], nodes[k])]

\* event_snapshot_read_module is what the course has read.
LEMMA ReadAfter ==
  ASSUME NEW o, o.read = [nodes |-> <<>>, next |-> 0], NEW nodes, FirstEnd(nodes) \in Nat
  PROVE  event_snapshot_read_module(nodes) = After(o, nodes, FirstEnd(nodes)).read
<1> DEFINE n == FirstEnd(nodes)
           g == [k \in 0 .. n |-> After(o, nodes, k).read]
           f == CHOOSE f : IsReading(f, nodes, n)
<1>0. n \in Nat
  OBVIOUS
<1>5. event_snapshot_read_module(nodes) = f[n]
  BY DEF event_snapshot_read_module, IsReading
<1> HIDE DEF n
<1>1. ASSUME NEW k \in 0 .. n, k # 0
      PROVE  After(o, nodes, k).read = ReadNode(After(o, nodes, k - 1).read, nodes[k])
  <2>1. k - 1 \in Nat /\ (k - 1) + 1 = k
    BY <1>0, <1>1
  <2>2. After(o, nodes, k) = Pass(After(o, nodes, k - 1), nodes[k])
    BY <2>1, AfterNext
  <2> QED BY <2>2 DEF Pass
<1>2. After(o, nodes, 0).read = [nodes |-> <<>>, next |-> 0]
  BY AfterNone
<1>3. IsReading(g, nodes, n)
  <2>1. \A k \in 0 .. n : k # 0 => k - 1 \in 0 .. n
    BY <1>0
  <2>2. \A k \in 0 .. n : g[k] = IF k = 0 THEN [nodes |-> <<>>, next |-> 0] ELSE ReadNode(g[k - 1], nodes[k])
    BY <1>1, <1>2, <2>1
  <2>3. g = [k \in 0 .. n |-> g[k]]
    OBVIOUS
  <2> HIDE DEF g
  <2> QED BY <2>2, <2>3 DEF IsReading
<1> HIDE DEF g
<1>4. IsReading(f, nodes, n)
  BY <1>3
<1> HIDE DEF f
<1>6. \A k \in 0 .. n : f[k] = IF k = 0 THEN [nodes |-> <<>>, next |-> 0] ELSE ReadNode(f[k - 1], nodes[k])
  BY <1>4 DEF IsReading
<1> DEFINE P == {k \in Nat : k <= n => f[k] = After(o, nodes, k).read}
<1>7. 0 \in P
  BY <1>0, <1>2, <1>6
<1>8. ASSUME NEW k \in P PROVE k + 1 \in P
  <2> SUFFICES ASSUME k + 1 <= n PROVE f[k + 1] = After(o, nodes, k + 1).read
    OBVIOUS
  <2>1. k + 1 \in 0 .. n /\ k + 1 # 0 /\ (k + 1) - 1 = k /\ f[k] = After(o, nodes, k).read
    BY <1>0
  <2> HIDE DEF P
  <2> QED BY <1>1, <1>6, <2>1
<1> HIDE DEF P
<1>9. P \in SUBSET Nat
  BY DEF P
<1>10. P = Nat
  BY <1>7, <1>8, <1>9, Inductive
<1>11. f[n] = After(o, nodes, n).read
  BY <1>0, <1>10 DEF P
<1> QED BY <1>5, <1>11 DEF n

\* f is what event_snapshot_write_module has written after each event.
IsWriting(f, nodes, n) ==
  f = [k \in 0 .. n |-> IF k = 0 THEN <<>> ELSE IF nodes[k].type = "TIMESTAMP" THEN f[k - 1] ELSE Append(f[k - 1], nodes[k])]

\* event_snapshot_write_module is what the course has written.
LEMMA WrittenAfter ==
  ASSUME NEW o, o.written = <<>>, NEW nodes, Len(nodes) \in Nat
  PROVE  event_snapshot_write_module(nodes) = After(o, nodes, Len(nodes)).written
<1> DEFINE n == Len(nodes)
           g == [k \in 0 .. n |-> After(o, nodes, k).written]
           f == CHOOSE f : IsWriting(f, nodes, n)
<1>0. n \in Nat
  OBVIOUS
<1>5. event_snapshot_write_module(nodes) = f[n]
  BY DEF event_snapshot_write_module, IsWriting
<1> HIDE DEF n
<1>1. ASSUME NEW k \in 0 .. n, k # 0
      PROVE  After(o, nodes, k).written = (IF nodes[k].type = "TIMESTAMP" THEN After(o, nodes, k - 1).written ELSE Append(After(o, nodes, k - 1).written, nodes[k]))
  <2>1. k - 1 \in Nat /\ (k - 1) + 1 = k
    BY <1>0, <1>1
  <2>2. After(o, nodes, k) = Pass(After(o, nodes, k - 1), nodes[k])
    BY <2>1, AfterNext
  <2> QED BY <2>2 DEF Pass
<1>2. After(o, nodes, 0).written = <<>>
  BY AfterNone
<1>3. IsWriting(g, nodes, n)
  <2>1. \A k \in 0 .. n : k # 0 => k - 1 \in 0 .. n
    BY <1>0
  <2>2. \A k \in 0 .. n : g[k] = IF k = 0 THEN <<>> ELSE (IF nodes[k].type = "TIMESTAMP" THEN g[k - 1] ELSE Append(g[k - 1], nodes[k]))
    BY <1>1, <1>2, <2>1
  <2>3. g = [k \in 0 .. n |-> g[k]]
    OBVIOUS
  <2> HIDE DEF g
  <2> QED BY <2>2, <2>3 DEF IsWriting
<1> HIDE DEF g
<1>4. IsWriting(f, nodes, n)
  BY <1>3
<1> HIDE DEF f
<1>6. \A k \in 0 .. n : f[k] = IF k = 0 THEN <<>> ELSE IF nodes[k].type = "TIMESTAMP" THEN f[k - 1] ELSE Append(f[k - 1], nodes[k])
  BY <1>4 DEF IsWriting
<1> DEFINE P == {k \in Nat : k <= n => f[k] = After(o, nodes, k).written}
<1>7. 0 \in P
  BY <1>0, <1>2, <1>6
<1>8. ASSUME NEW k \in P PROVE k + 1 \in P
  <2> SUFFICES ASSUME k + 1 <= n PROVE f[k + 1] = After(o, nodes, k + 1).written
    OBVIOUS
  <2>1. k + 1 \in 0 .. n /\ k + 1 # 0 /\ (k + 1) - 1 = k /\ f[k] = After(o, nodes, k).written
    BY <1>0
  <2> HIDE DEF P
  <2> QED BY <1>1, <1>6, <2>1
<1> HIDE DEF P
<1>9. P \in SUBSET Nat
  BY DEF P
<1>10. P = Nat
  BY <1>7, <1>8, <1>9, Inductive
<1>11. f[n] = After(o, nodes, n).written
  BY <1>0, <1>10 DEF P
<1> QED BY <1>5, <1>11 DEF n

-----------------------------------------------------------------------------
(***************************************************************************)
(* Reading end.vsf: timestamps are inserted, each before an event that is  *)
(* later.                                                                  *)
(***************************************************************************)

\* Products keep an order.
LEMMA ProductOrder ==
  ASSUME NEW a \in Nat, NEW b \in Nat, NEW d \in Nat \ {0}
  PROVE  /\ a * d \in Nat /\ b * d \in Nat
         /\ a <= b => a * d <= b * d
         /\ a <= a * d
<1>1. ASSUME NEW x \in Nat, NEW y \in Nat PROVE x * y \in Nat
  BY SMT
<1>2. a * d \in Nat /\ b * d \in Nat
  BY <1>1
<1>3. ASSUME a <= b PROVE a * d <= b * d
  <2>1. b - a \in Nat /\ (b - a) * d \in Nat
    BY <1>1, <1>3
  <2>2. (b - a) * d = b * d - a * d
    BY SMT
  <2> QED BY <1>2, <2>1, <2>2
<1>4. a <= a * d
  <2>1. d - 1 \in Nat
    OBVIOUS
  <2>2. a * (d - 1) \in Nat
    BY <1>1, <2>1
  <2>3. a * (d - 1) = a * d - a
    BY SMT
  <2> QED BY <1>2, <2>2, <2>3
<1> QED BY <1>2, <1>3, <1>4

\* How many seconds from `from' on are before cycle c.
SecondsTo(from, c) == Cardinality({k \in 0 .. MaxClk : from + k * Second < c})

LEMMA SecondsCounted ==
  ASSUME NEW from \in Nat, NEW c \in 0 .. MaxClk
  PROVE  /\ SecondsTo(from, c) \in Nat
         /\ \A k \in 1 .. SecondsTo(from, c) :
              from + (k - 1) * Second \in Nat /\ from + (k - 1) * Second < c
         /\ from + SecondsTo(from, c) * Second \in Nat
         /\ from + SecondsTo(from, c) * Second >= c
         /\ from < c => SecondsTo(from, c) >= 1
         /\ from >= c => SecondsTo(from, c) = 0
         /\ from < c => from + SecondsTo(from, c) * Second < c + Second
<1> DEFINE T == {k \in Nat : from + k * Second >= c}
<1>1. Second \in Nat \ {0} /\ MaxClk \in Nat /\ c \in Nat /\ c <= MaxClk
  BY EventConstants
<1>2. c \in T
  <2>1. c * Second \in Nat /\ c <= c * Second
    BY <1>1, ProductOrder
  <2> QED BY <1>1, <2>1
<1>3. PICK q \in T : \A y \in T : q <= y
  BY <1>2, LeastOf
<1>4. q \in Nat /\ q <= c /\ q * Second \in Nat /\ from + q * Second >= c
  <2>1. q \in Nat /\ q <= c /\ from + q * Second >= c
    BY <1>2, <1>3
  <2> QED BY <1>1, <2>1, ProductOrder
<1>5. ASSUME NEW k \in Nat
      PROVE  k * Second \in Nat /\ (from + k * Second < c <=> k < q)
  <2>1. k * Second \in Nat
    BY <1>1, ProductOrder
  <2>2. CASE k < q
    <3>1. k \notin T
      BY <1>3, <1>4, <2>2
    <3>2. ~(from + k * Second >= c)
      BY <3>1
    <3> QED BY <1>1, <2>1, <2>2, <3>2
  <2>3. CASE q <= k
    <3>1. q * Second <= k * Second
      BY <1>1, <1>4, <2>3, ProductOrder
    <3> QED BY <1>1, <1>4, <2>1, <2>3, <3>1
  <2> QED BY <1>4, <2>2, <2>3
<1> HIDE DEF T
<1> DEFINE before(k) == from + k * Second < c
<1>6. {k \in 0 .. MaxClk : before(k)} = 0 .. q - 1
  <2>1. \A k \in Nat : before(k) <=> k < q
    BY <1>5
  <2> HIDE DEF before
  <2> QED BY <1>1, <1>4, <2>1
<1>7. Cardinality(0 .. q - 1) = q
  <2>1. Cardinality(0 .. q - 1) = IF 0 > q - 1 THEN 0 ELSE (q - 1) - 0 + 1
    BY <1>4, FS_Interval
  <2> QED BY <1>4, <2>1
<1>8. SecondsTo(from, c) = q
  BY <1>6, <1>7 DEF SecondsTo
<1>9. ASSUME NEW k \in 1 .. q
      PROVE  from + (k - 1) * Second \in Nat /\ from + (k - 1) * Second < c
  <2>1. k - 1 \in Nat /\ k - 1 < q
    BY <1>4
  <2> QED BY <1>5, <2>1
<1>10. from < c => q >= 1
  <2>1. 0 * Second = 0
    BY <1>1
  <2> QED BY <1>1, <1>4, <2>1
<1>11. from >= c => q = 0
  <2>1. 0 * Second = 0
    BY <1>1
  <2>2. 0 \in Nat
    OBVIOUS
  <2>3. from >= c => ~(from + 0 * Second < c)
    BY <1>1, <2>1
  <2>4. from >= c => ~(0 < q)
    BY <1>5, <2>2, <2>3
  <2> QED BY <1>4, <2>4
<1>12. ASSUME from < c PROVE from + q * Second < c + Second
  <2>1. q - 1 \in Nat /\ q - 1 < q
    BY <1>4, <1>10, <1>12
  <2>2. (q - 1) * Second \in Nat /\ from + (q - 1) * Second < c
    BY <1>5, <2>1
  <2>3. (q - 1) * Second = q * Second - Second
    BY <1>1, <1>4
  <2> QED BY <1>1, <1>4, <2>2, <2>3
<1>13. from + q * Second \in Nat
  BY <1>4
<1> QED BY <1>4, <1>8, <1>9, <1>10, <1>11, <1>12, <1>13

\* Node makes a node.
LEMMA NodeTyped ==
  ASSUME NEW type \in NodeTypes, NEW c \in 0 .. MaxClk, NEW data \in NodeData,
         type = "RESETCPU" => data \in {"soft", "hard"}
  PROVE  /\ Node(type, c, data) \in TypedNodes
         /\ Node(type, c, data).type = type /\ Node(type, c, data).clk = c
         /\ Node(type, c, data).data = data
BY DEF Node, TypedNodes

\* A function on 1 .. n is a sequence.
LEMMA FunctionSeq ==
  ASSUME NEW S, NEW n \in Nat, NEW f \in [1 .. n -> S]
  PROVE  f \in Seq(S) /\ Len(f) = n /\ (n = 0 => f = <<>>)
OBVIOUS

\* Timestamps that are inserted in front of node.
Stamps(ts, node) ==
  /\ ts \in Seq(TypedNodes)
  /\ \A k \in 1 .. Len(ts) : ts[k].type = "TIMESTAMP" /\ ts[k].clk < node.clk

Readings == {acc \in [nodes : Seq(TypedNodes), next : Nat] : acc.next <= MaxClk + Second}

\* What reading one event does.
LEMMA ReadOne ==
  ASSUME NEW acc \in Readings, NEW node \in TypedNodes
  PROVE  /\ ReadNode(acc, node) \in Readings
         /\ \E ts : /\ Stamps(ts, node)
                    /\ ReadNode(acc, node).nodes = acc.nodes \o ts \o <<node>>
                    /\ node.type = "INITIAL" => ts = <<>>
                    /\ node.type # "INITIAL" /\ acc.next < node.clk => Len(ts) >= 1
         /\ node.type = "INITIAL" /\ node.data = "RESET" => ReadNode(acc, node).next = 0
<1> DEFINE from == IF node.type # "INITIAL" THEN acc.next
                   ELSE IF node.data = "RESET" THEN 0 ELSE node.clk
           count == IF node.type = "INITIAL" THEN 0
                    ELSE Cardinality({k \in 0 .. MaxClk : from + k * Second < node.clk})
           upTo == from + count * Second
           ts == [k \in 1 .. count |-> Node("TIMESTAMP", from + (k - 1) * Second, "")]
           next == IF node.type = "RESETCPU" THEN upTo - node.clk ELSE upTo
<1>1. ReadNode(acc, node) = [nodes |-> acc.nodes \o ts \o <<node>>, next |-> next]
  BY DEF ReadNode
<1>2. /\ MaxClk \in Nat /\ Second \in Nat \ {0}
      /\ node.clk \in 0 .. MaxClk /\ node.clk \in Nat /\ node.clk <= MaxClk
      /\ acc.nodes \in Seq(TypedNodes) /\ acc.next \in Nat /\ acc.next <= MaxClk + Second
  BY EventConstants DEF TypedNodes, Readings
<1>3. from \in Nat /\ from <= MaxClk + Second
  BY <1>2
<1>4. CASE node.type = "INITIAL"
  <2>1. count = 0 /\ upTo = from /\ next = from
    BY <1>2, <1>3, <1>4
  <2>2. ts = <<>>
    <3> DEFINE stamp(k) == Node("TIMESTAMP", from + (k - 1) * Second, "")
    <3>1. ts = [k \in 1 .. 0 |-> stamp(k)]
      BY <2>1
    <3> HIDE DEF ts, stamp
    <3>2. \A k \in 1 .. 0 : stamp(k) \in TypedNodes
      OBVIOUS
    <3>3. ts \in [1 .. 0 -> TypedNodes]
      BY <3>1, <3>2
    <3> QED BY <3>3, FunctionSeq
  <2> HIDE DEF ts, next, from
  <2>3. Stamps(<<>>, node)
    BY DEF Stamps
  <2>4. acc.nodes \o <<>> \o <<node>> \in Seq(TypedNodes)
    BY <1>2
  <2>5. ReadNode(acc, node) \in Readings
    BY <1>1, <1>2, <1>3, <2>1, <2>2, <2>4 DEF Readings
  <2>6. ReadNode(acc, node).nodes = acc.nodes \o <<>> \o <<node>>
    BY <1>1, <2>2
  <2>7. node.data = "RESET" => ReadNode(acc, node).next = 0
    BY <1>1, <1>4, <2>1 DEF from
  <2> QED BY <1>4, <2>3, <2>5, <2>6, <2>7
<1>5. CASE node.type # "INITIAL"
  <2>1. count = SecondsTo(from, node.clk) /\ from = acc.next
    BY <1>5 DEF SecondsTo
  <2> HIDE DEF from, count
  <2>2. /\ count \in Nat
        /\ \A k \in 1 .. count : /\ from + (k - 1) * Second \in Nat
                                 /\ from + (k - 1) * Second < node.clk
        /\ upTo \in Nat /\ upTo >= node.clk
        /\ from < node.clk => count >= 1
        /\ from >= node.clk => count = 0
        /\ from < node.clk => upTo < node.clk + Second
    BY <1>2, <1>3, <2>1, SecondsCounted
  <2>3. \A k \in 1 .. count : Node("TIMESTAMP", from + (k - 1) * Second, "") \in TypedNodes
    <3>1. \A c \in 0 .. MaxClk : Node("TIMESTAMP", c, "") \in TypedNodes
      BY NodeTyped DEF NodeTypes, NodeData
    <3>2. \A k \in 1 .. count : from + (k - 1) * Second \in 0 .. MaxClk
      BY <1>2, <2>2
    <3> QED BY <3>1, <3>2
  <2>4. ts \in Seq(TypedNodes) /\ Len(ts) = count
    <3>1. ts \in [1 .. count -> TypedNodes]
      BY <2>3
    <3> HIDE DEF ts
    <3> QED BY <2>2, <3>1, FunctionSeq
  <2>5. \A k \in 1 .. count : ts[k].type = "TIMESTAMP" /\ ts[k].clk < node.clk
    BY <2>2 DEF Node
  <2>6. Stamps(ts, node)
    BY <2>4, <2>5 DEF Stamps
  <2>7. upTo <= MaxClk + Second
    <3>1. CASE from < node.clk
      BY <1>2, <2>2, <3>1
    <3>2. CASE from >= node.clk
      <4>1. count * Second = 0
        BY <1>2, <2>2, <3>2
      <4> QED BY <1>2, <1>3, <2>2, <4>1
    <3> QED BY <1>2, <1>3, <3>1, <3>2
  <2> HIDE DEF ts, upTo
  <2>8. next \in Nat /\ next <= MaxClk + Second
    BY <1>2, <2>2, <2>7
  <2> HIDE DEF next
  <2>9. acc.nodes \o ts \o <<node>> \in Seq(TypedNodes)
    BY <1>2, <2>4
  <2>10. ReadNode(acc, node) \in Readings
    BY <1>1, <2>8, <2>9 DEF Readings
  <2>11. ReadNode(acc, node).nodes = acc.nodes \o ts \o <<node>>
    BY <1>1
  <2>12. acc.next < node.clk => Len(ts) >= 1
    BY <2>1, <2>2, <2>4
  <2> QED BY <1>5, <2>6, <2>10, <2>11, <2>12
<1> QED BY <1>4, <1>5

\* A sequence in three parts.
LEMMA ThreeParts ==
  ASSUME NEW S, NEW s \in Seq(S), NEW t \in Seq(S), NEW x \in S
  PROVE  /\ s \o t \o <<x>> \in Seq(S)
         /\ Len(s) \in Nat /\ Len(t) \in Nat
         /\ Len(s \o t \o <<x>>) = Len(s) + Len(t) + 1
         /\ \A i \in 1 .. Len(s) : (s \o t \o <<x>>)[i] = s[i]
         /\ \A i \in 1 .. Len(t) : (s \o t \o <<x>>)[Len(s) + i] = t[i]
         /\ (s \o t \o <<x>>)[Len(s) + Len(t) + 1] = x
OBVIOUS

\* r is what was read of the first n events: it leads to the same machine, and
\* consists of the events and of timestamps that are before them.
GoodRead(r, o, events, n) ==
  /\ r \in Readings
  /\ Same(After(o, r.nodes, Len(r.nodes)), After(o, events, n))
  /\ StampsBefore(r.nodes)
  /\ Len(r.nodes) >= n
  /\ n = 0 => r.nodes = <<>>
  /\ n = 1 => Len(r.nodes) = 1 /\ (events[1].data = "RESET" => r.next = 0)
  /\ n >= 2 /\ r.nodes[2].type # "TIMESTAMP" /\ events[1].data = "RESET" =>
       r.nodes[2] = events[2] /\ events[2].clk = 0
  /\ n >= 1 => r.nodes[1] = events[1] /\ r.nodes[Len(r.nodes)] = events[n]
  /\ \A i \in 2 .. Len(r.nodes) - 1 :
       r.nodes[i].type = "TIMESTAMP" \/ \E k \in 2 .. n - 1 : r.nodes[i] = events[k]

\* A list of end.vsf.
FileEvents(events) ==
  /\ events \in Seq(TypedNodes) /\ Shape(events)
  /\ \A i \in 1 .. Len(events) : events[i].type # "TIMESTAMP"

\* One event more.
LEMMA GoodReadNext ==
  ASSUME NEW o, NEW events, FileEvents(events), NEW n \in Nat, n + 1 <= Len(events),
         NEW r, GoodRead(r, o, events, n)
  PROVE  GoodRead(ReadNode(r, events[n + 1]), o, events, n + 1)
<1> DEFINE node == events[n + 1]
           a == r.nodes
           y == ReadNode(r, node)
           x == y.nodes
<1>1. /\ Len(events) \in Nat /\ n + 1 \in 1 .. Len(events) /\ n + 1 \in Nat /\ (n + 1) - 1 = n
      /\ node \in TypedNodes /\ node.type # "TIMESTAMP"
      /\ events[1].type = "INITIAL"
      /\ \A i \in 2 .. Len(events) : events[i].type # "INITIAL"
  BY DEF FileEvents, Shape
<1>2. /\ r \in Readings /\ a \in Seq(TypedNodes)
      /\ Same(After(o, a, Len(a)), After(o, events, n))
      /\ StampsBefore(a)
      /\ Len(a) >= n
      /\ n = 0 => a = <<>>
      /\ n = 1 => Len(a) = 1 /\ (events[1].data = "RESET" => r.next = 0)
      /\ n >= 2 /\ a[2].type # "TIMESTAMP" /\ events[1].data = "RESET" =>
           a[2] = events[2] /\ events[2].clk = 0
      /\ n >= 1 => a[1] = events[1] /\ a[Len(a)] = events[n]
      /\ \A i \in 2 .. Len(a) - 1 :
           a[i].type = "TIMESTAMP" \/ \E k \in 2 .. n - 1 : a[i] = events[k]
  BY DEF GoodRead, Readings
<1> HIDE DEF a, node
<1>3. y \in Readings
  BY <1>1, <1>2, ReadOne
<1>4. PICK ts : /\ Stamps(ts, node)
                /\ x = a \o ts \o <<node>>
                /\ node.type = "INITIAL" => ts = <<>>
                /\ node.type # "INITIAL" /\ r.next < node.clk => Len(ts) >= 1
  BY <1>1, <1>2, ReadOne DEF a
<1>5. /\ ts \in Seq(TypedNodes)
      /\ \A k \in 1 .. Len(ts) : ts[k].type = "TIMESTAMP" /\ ts[k].clk < node.clk
  BY <1>4 DEF Stamps
<1> HIDE DEF x, y
<1>6. /\ Len(a) \in Nat /\ Len(ts) \in Nat /\ Len(x) = Len(a) + Len(ts) + 1
      /\ \A i \in 1 .. Len(a) : x[i] = a[i]
      /\ \A i \in 1 .. Len(ts) : x[Len(a) + i] = ts[i]
      /\ x[Len(x)] = node
  <2>1. node \in TypedNodes /\ a \in Seq(TypedNodes) /\ ts \in Seq(TypedNodes)
    BY <1>1, <1>2, <1>5
  <2>2. x = a \o ts \o <<node>>
    BY <1>4
  <2> DEFINE z == a \o ts \o <<node>>
  <2>3. /\ Len(a) \in Nat /\ Len(ts) \in Nat /\ Len(z) = Len(a) + Len(ts) + 1
        /\ \A i \in 1 .. Len(a) : z[i] = a[i]
        /\ \A i \in 1 .. Len(ts) : z[Len(a) + i] = ts[i]
        /\ z[Len(a) + Len(ts) + 1] = node
    BY <2>1, ThreeParts
  <2> HIDE DEF z
  <2>4. x = z
    BY <2>2 DEF z
  <2> QED BY <2>3, <2>4
<1>7. \A i \in Len(a) + 1 .. Len(a) + Len(ts) :
        /\ i - Len(a) \in 1 .. Len(ts) /\ Len(a) + (i - Len(a)) = i
        /\ x[i].type = "TIMESTAMP" /\ x[i].clk < node.clk
  <2> SUFFICES ASSUME NEW i \in Len(a) + 1 .. Len(a) + Len(ts)
               PROVE  /\ i - Len(a) \in 1 .. Len(ts) /\ Len(a) + (i - Len(a)) = i
                      /\ x[i].type = "TIMESTAMP" /\ x[i].clk < node.clk
    OBVIOUS
  <2>1. i - Len(a) \in 1 .. Len(ts) /\ Len(a) + (i - Len(a)) = i
    BY <1>6
  <2>2. x[i] = ts[i - Len(a)]
    BY <1>6, <2>1
  <2> QED BY <1>5, <2>1, <2>2
<1>8. Same(After(o, x, Len(x)), After(o, events, n + 1))
  <2> DEFINE m == Len(a) + Len(ts)
  <2>1. m \in Nat /\ Len(a) <= m /\ Len(x) = m + 1
    BY <1>6
  <2>2. After(o, x, Len(a)) = After(o, a, Len(a))
    BY <1>6, SameStart
  <2>3. \A k \in Len(a) + 1 .. m : x[k].type \notin Played
    BY <1>7 DEF Played
  <2> HIDE DEF m
  <2>4. Same(After(o, x, m), After(o, x, Len(a)))
    BY <1>6, <2>1, <2>3, NodesStill
  <2>5. Same(After(o, x, m), After(o, events, n))
    BY <1>2, <2>2, <2>4 DEF Same
  <2>6. After(o, x, m + 1) = Pass(After(o, x, m), node)
    <3>1. x[m + 1] = node
      BY <1>6, <2>1
    <3>2. After(o, x, m + 1) = Pass(After(o, x, m), x[m + 1])
      BY <2>1, AfterNext
    <3> QED BY <3>1, <3>2
  <2>7. After(o, events, n + 1) = Pass(After(o, events, n), node)
    BY AfterNext DEF node
  <2>8. Same(Pass(After(o, x, m), node), Pass(After(o, events, n), node))
    BY <2>5, PassSame
  <2> QED BY <2>1, <2>6, <2>7, <2>8
<1>9. StampsBefore(x)
  <2> SUFFICES ASSUME NEW i \in 1 .. Len(x), NEW j \in 1 .. Len(x),
                      i < j, StampsOnly(x, i, j), x[j].type # "TIMESTAMP"
               PROVE  x[i].clk < x[j].clk
    BY DEF StampsBefore
  <2>1. CASE j <= Len(a)
    <3>1. i \in 1 .. Len(a) /\ j \in 1 .. Len(a)
      BY <1>6, <2>1
    <3>2. StampsOnly(a, i, j)
      BY <1>6, <3>1 DEF StampsOnly
    <3>3. x[i] = a[i] /\ x[j] = a[j]
      BY <1>6, <3>1
    <3> QED BY <1>2, <3>1, <3>2, <3>3 DEF StampsBefore
  <2>2. CASE j > Len(a)
    <3>1. j = Len(x)
      BY <1>6, <1>7, <2>2
    <3>2. i > Len(a)
      <4> SUFFICES ASSUME i <= Len(a) PROVE FALSE
        BY <1>6
      <4>1. Len(a) \in i .. j - 1 /\ Len(a) >= 1
        BY <1>6, <2>2
      <4>2. x[Len(a)].type = "TIMESTAMP"
        BY <4>1 DEF StampsOnly
      <4>3. n # 0
        BY <1>2, <4>1
      <4>4. a[Len(a)] = events[n] /\ n \in 1 .. Len(events)
        BY <1>1, <1>2, <4>3
      <4>5. x[Len(a)] = a[Len(a)]
        BY <1>6, <4>1
      <4> QED BY <4>2, <4>4, <4>5 DEF FileEvents
    <3>3. i \in Len(a) + 1 .. Len(a) + Len(ts)
      BY <1>6, <3>1, <3>2
    <3> QED BY <1>6, <1>7, <3>1, <3>3
  <2> QED BY <1>6, <2>1, <2>2
<1>10. Len(x) >= n + 1 /\ (n + 1 = 1 => Len(x) = 1)
  <2>1. CASE n = 0
    <3>1. ts = <<>> /\ a = <<>>
      BY <1>1, <1>2, <1>4, <2>1 DEF node
    <3> QED BY <1>6, <2>1, <3>1
  <2>2. CASE n # 0
    BY <1>2, <1>6, <2>2
  <2> QED BY <2>1, <2>2
<1>11. x[1] = events[1] /\ x[Len(x)] = events[n + 1]
  <2>1. CASE n = 0
    <3>1. node = events[1] /\ ts = <<>> /\ a = <<>>
      BY <1>1, <1>2, <1>4, <2>1 DEF node
    <3> QED BY <1>6, <2>1, <3>1 DEF node
  <2>2. CASE n # 0
    <3>1. 1 \in 1 .. Len(a) /\ a[1] = events[1]
      BY <1>2, <1>6, <2>2
    <3> QED BY <1>6, <3>1 DEF node
  <2> QED BY <2>1, <2>2
<1>12. ASSUME NEW i \in 2 .. Len(x) - 1
       PROVE  x[i].type = "TIMESTAMP" \/ \E k \in 2 .. n : x[i] = events[k]
  <2>1. CASE i < Len(a)
    <3>1. i \in 2 .. Len(a) - 1 /\ i \in 1 .. Len(a)
      BY <1>6, <2>1
    <3>2. x[i] = a[i]
      BY <1>6, <3>1
    <3>3. \A k \in 2 .. n - 1 : k \in 2 .. n
      OBVIOUS
    <3> QED BY <1>2, <3>1, <3>2, <3>3
  <2>2. CASE i = Len(a)
    <3>1. n # 0
      BY <1>2, <2>2
    <3>2. x[i] = events[n]
      BY <1>2, <1>6, <2>2, <3>1
    <3>3. CASE n = 1
      BY <1>2, <2>2, <3>3
    <3>4. CASE n # 1
      <4>1. n \in 2 .. n
        BY <3>1, <3>4
      <4> QED BY <3>2, <4>1
    <3> QED BY <3>3, <3>4
  <2>3. CASE i > Len(a)
    <3>1. i \in Len(a) + 1 .. Len(a) + Len(ts)
      BY <1>6, <2>3
    <3> QED BY <1>7, <3>1
  <2> QED BY <1>6, <2>1, <2>2, <2>3
<1>13. n + 1 = 1 /\ events[1].data = "RESET" => y.next = 0
  <2> SUFFICES ASSUME n = 0, events[1].data = "RESET" PROVE y.next = 0
    OBVIOUS
  <2>1. node = events[1]
    BY DEF node
  <2>2. node.type = "INITIAL" /\ node.data = "RESET"
    BY <1>1, <2>1
  <2> QED BY <1>1, <1>2, <2>2, ReadOne DEF y
<1>14. ASSUME n + 1 >= 2, x[2].type # "TIMESTAMP", events[1].data = "RESET"
       PROVE  x[2] = events[2] /\ events[2].clk = 0
  <2>1. CASE n = 1
    <3>1. node = events[2] /\ Len(a) = 1 /\ r.next = 0
      BY <1>2, <1>14, <2>1 DEF node
    <3>2. node.type # "INITIAL" /\ node.clk \in Nat
      BY <1>1, <2>1, <3>1 DEF TypedNodes
    <3>3. ~(Len(ts) >= 1)
      <4> SUFFICES ASSUME Len(ts) >= 1 PROVE FALSE
        OBVIOUS
      <4>1. 2 \in Len(a) + 1 .. Len(a) + Len(ts)
        BY <1>6, <3>1
      <4> QED BY <1>7, <1>14, <4>1
    <3>4. ~(r.next < node.clk)
      BY <1>4, <3>2, <3>3
    <3>5. Len(x) = 2
      BY <1>6, <3>1, <3>3
    <3>6. node.clk = 0
      BY <3>1, <3>2, <3>4
    <3>7. x[2] = node
      BY <1>6, <3>5
    <3> QED BY <3>1, <3>6, <3>7
  <2>2. CASE n # 1
    <3>1. n >= 2 /\ 2 \in 1 .. Len(a)
      BY <1>2, <1>6, <1>14, <2>2
    <3>2. x[2] = a[2]
      BY <1>6, <3>1
    <3> QED BY <1>2, <1>14, <3>1, <3>2
  <2> QED BY <2>1, <2>2
<1> QED
  BY <1>1, <1>3, <1>8, <1>9, <1>10, <1>11, <1>12, <1>13, <1>14 DEF GoodRead, x, y, node

\* Everything up to the first n events is read well.
LEMMA GoodReading ==
  ASSUME NEW o, o.read = [nodes |-> <<>>, next |-> 0],
         NEW events, FileEvents(events), NEW n \in 0 .. Len(events)
  PROVE  GoodRead(After(o, events, n).read, o, events, n)
<1> DEFINE P == {k \in Nat : k <= Len(events) => GoodRead(After(o, events, k).read, o, events, k)}
<1>1. Len(events) \in Nat
  BY DEF FileEvents
<1>2. 0 \in P
  <2> DEFINE r == [nodes |-> <<>>, next |-> 0]
  <2>1. After(o, events, 0) = o /\ After(o, <<>>, 0) = o
    BY AfterNone
  <2>2. r \in Readings /\ r.nodes = <<>> /\ Len(<<>>) = 0
    BY EventConstants DEF Readings
  <2>3. StampsBefore(<<>>)
    BY DEF StampsBefore
  <2>4. Same(o, o)
    BY DEF Same
  <2>5. GoodRead(r, o, events, 0)
    BY <2>1, <2>2, <2>3, <2>4 DEF GoodRead
  <2> QED BY <2>1, <2>5
<1>3. ASSUME NEW k \in P PROVE k + 1 \in P
  <2> SUFFICES ASSUME k + 1 <= Len(events)
               PROVE  GoodRead(After(o, events, k + 1).read, o, events, k + 1)
    OBVIOUS
  <2>1. k \in Nat /\ GoodRead(After(o, events, k).read, o, events, k)
    BY <1>1
  <2> HIDE DEF P
  <2>2. After(o, events, k + 1).read = ReadNode(After(o, events, k).read, events[k + 1])
    <3>1. After(o, events, k + 1) = Pass(After(o, events, k), events[k + 1])
      BY <2>1, AfterNext
    <3> QED BY <3>1 DEF Pass
  <2> QED BY <2>1, <2>2, GoodReadNext
<1> HIDE DEF P
<1>4. P \in SUBSET Nat
  BY DEF P
<1>5. P = Nat
  BY <1>2, <1>3, <1>4, Inductive
<1> QED BY <1>1, <1>5 DEF P

\* There is a first LIST_END, and only LIST_ENDs follow it.
LEMMA FirstEndFound ==
  ASSUME NEW nodes, Shape(nodes), Len(nodes) \in Nat, DOMAIN nodes = 1 .. Len(nodes)
  PROVE  /\ FirstEnd(nodes) \in 2 .. Len(nodes)
         /\ nodes[FirstEnd(nodes)].type = "LIST_END"
         /\ NoEndBefore(nodes, FirstEnd(nodes))
         /\ \A i \in FirstEnd(nodes) .. Len(nodes) : nodes[i].type = "LIST_END"
<1> DEFINE T == {i \in 1 .. Len(nodes) : nodes[i].type = "LIST_END"}
           Q(i) == /\ nodes[i].type = "LIST_END"
                   /\ \A j \in 1 .. i - 1 : nodes[j].type # "LIST_END"
<1>1. Len(nodes) \in T /\ T \in SUBSET Nat
  BY DEF Shape
<1>2. PICK q \in T : \A y \in T : q <= y
  BY <1>1, LeastOf
<1>3. q \in DOMAIN nodes /\ Q(q)
  <2>1. q \in 1 .. Len(nodes) /\ nodes[q].type = "LIST_END"
    OBVIOUS
  <2>2. ASSUME NEW j \in 1 .. q - 1 PROVE nodes[j].type # "LIST_END"
    <3>1. j \in 1 .. Len(nodes) /\ ~(q <= j)
      BY <2>1
    <3> QED BY <1>2, <3>1
  <2> QED BY <2>1, <2>2
<1> HIDE DEF T
<1> DEFINE e == CHOOSE i \in DOMAIN nodes : Q(i)
<1>4. e \in DOMAIN nodes /\ Q(e)
  BY <1>3
<1>5. FirstEnd(nodes) = e
  BY DEF FirstEnd
<1>6. e \in 1 .. Len(nodes) /\ nodes[e].type = "LIST_END" /\ NoEndBefore(nodes, e)
  BY <1>4 DEF NoEndBefore
<1> HIDE DEF e
<1>7. e # 1
  BY <1>6 DEF Shape
<1>8. \A i \in e .. Len(nodes) : nodes[i].type = "LIST_END"
  BY <1>6 DEF Shape
<1> QED BY <1>5, <1>6, <1>7, <1>8

\* Reading end.vsf gives a list that ends with its only LIST_END and leads to the
\* same machine.
LEMMA FileRead ==
  ASSUME NEW o, o.read = [nodes |-> <<>>, next |-> 0], NEW events, FileEvents(events)
  PROVE  LET read == event_snapshot_read_module(events)
             nodes == read.nodes
         IN /\ nodes \in Seq(TypedNodes) /\ Shape(nodes)
            /\ read.next \in Nat /\ read.next <= MaxClk + Second
            /\ NoEndBefore(nodes, Len(nodes)) /\ StampsBefore(nodes)
            /\ nodes[1] = events[1]
            /\ Same(After(o, nodes, Len(nodes)), After(o, events, Len(events)))
<1> DEFINE e == FirstEnd(events)
           read == event_snapshot_read_module(events)
           nodes == read.nodes
<1>1. /\ events \in Seq(TypedNodes) /\ Shape(events) /\ Len(events) \in Nat
      /\ DOMAIN events = 1 .. Len(events)
      /\ events[1].type = "INITIAL" /\ \A i \in 2 .. Len(events) : events[i].type # "INITIAL"
  BY DEF FileEvents, Shape
<1>2. /\ e \in 2 .. Len(events) /\ events[e].type = "LIST_END"
      /\ NoEndBefore(events, e)
      /\ \A i \in e .. Len(events) : events[i].type = "LIST_END"
  BY <1>1, FirstEndFound
<1> HIDE DEF e
<1>3. e \in Nat /\ e \in 0 .. Len(events) /\ e >= 2
  BY <1>1, <1>2
<1>4. read = After(o, events, e).read
  BY <1>3, ReadAfter DEF e
<1> HIDE DEF read
<1>5. GoodRead(read, o, events, e)
  BY <1>3, <1>4, GoodReading
<1>6. /\ read \in Readings /\ nodes \in Seq(TypedNodes) /\ read.next \in Nat
      /\ read.next <= MaxClk + Second
      /\ Same(After(o, nodes, Len(nodes)), After(o, events, e))
      /\ StampsBefore(nodes)
      /\ Len(nodes) >= e
      /\ nodes[1] = events[1] /\ nodes[Len(nodes)] = events[e]
      /\ \A i \in 2 .. Len(nodes) - 1 :
           nodes[i].type = "TIMESTAMP" \/ \E k \in 2 .. e - 1 : nodes[i] = events[k]
  BY <1>3, <1>5 DEF GoodRead, Readings
<1> HIDE DEF nodes
<1>7. Same(After(o, events, Len(events)), After(o, events, e))
  <2>1. \A k \in e + 1 .. Len(events) : events[k].type \notin Played
    BY <1>2, <1>3 DEF Played
  <2> QED BY <1>1, <1>2, <1>3, <2>1, NodesStill
<1>8. Same(After(o, nodes, Len(nodes)), After(o, events, Len(events)))
  BY <1>6, <1>7 DEF Same
<1>9. Len(nodes) \in Nat /\ Len(nodes) >= 2
  BY <1>3, <1>6
<1>10. ASSUME NEW i \in 2 .. Len(nodes) - 1
       PROVE  nodes[i].type # "LIST_END" /\ nodes[i].type # "INITIAL"
  <2>1. CASE nodes[i].type = "TIMESTAMP"
    BY <2>1
  <2>2. CASE \E k \in 2 .. e - 1 : nodes[i] = events[k]
    <3>1. PICK k \in 2 .. e - 1 : nodes[i] = events[k]
      BY <2>2
    <3>2. k \in 1 .. e - 1 /\ k \in 2 .. Len(events)
      BY <1>1, <1>2
    <3> QED BY <1>1, <1>2, <3>1, <3>2 DEF NoEndBefore
  <2> QED BY <1>6, <2>1, <2>2
<1>11. NoEndBefore(nodes, Len(nodes))
  <2> SUFFICES ASSUME NEW i \in 1 .. Len(nodes) - 1 PROVE nodes[i].type # "LIST_END"
    BY DEF NoEndBefore
  <2>1. CASE i = 1
    BY <1>1, <1>6, <2>1
  <2>2. CASE i # 1
    BY <1>9, <1>10, <2>2
  <2> QED BY <2>1, <2>2
<1>12. Shape(nodes)
  <2>1. \A i \in 2 .. Len(nodes) : nodes[i].type # "INITIAL"
    BY <1>2, <1>6, <1>9, <1>10
  <2>2. \A i, j \in 1 .. Len(nodes) :
          i < j /\ nodes[i].type = "LIST_END" => nodes[j].type = "LIST_END"
    BY <1>9, <1>11 DEF NoEndBefore
  <2> QED BY <1>1, <1>2, <1>6, <1>9, <2>1, <2>2 DEF Shape
<1> QED BY <1>6, <1>8, <1>11, <1>12 DEF nodes, read

\* If no event was missed in the end, none was missed on the way.
LEMMA NoneMissed ==
  ASSUME NEW o, o.missed = 0, NEW nodes, NEW n \in Nat, After(o, nodes, n).missed = 0,
         NEW k \in Nat, k < n
  PROVE  /\ After(o, nodes, k).missed = 0
         /\ nodes[k + 1].type \in Played =>
              Reach(After(o, nodes, k).at, After(o, nodes, k).m, nodes[k + 1].clk)
<1> DEFINE A(i) == After(o, nodes, i)
<1>1. \A i \in Nat : A(i + 1) = Pass(A(i), nodes[i + 1])
  BY AfterNext
<1>2. A(0) = o
  BY AfterNone
<1> HIDE DEF A
<1>3. \A i \in Nat : A(i + 1).missed =
        IF nodes[i + 1].type \in Played /\ ~Reach(A(i).at, A(i).m, nodes[i + 1].clk)
        THEN A(i).missed + 1 ELSE A(i).missed
  <2> TAKE i \in Nat
  <2>1. A(i + 1) = Pass(A(i), nodes[i + 1])
    BY <1>1
  <2> QED BY <2>1 DEF Pass
<1> DEFINE P == {i \in Nat : A(i).missed \in Nat}
           Q == {d \in Nat : d <= n => A(n - d).missed = 0}
<1>4. P = Nat
  <2>1. 0 \in P
    BY <1>2
  <2>2. ASSUME NEW i \in P PROVE i + 1 \in P
    BY <1>3
  <2>3. P \in SUBSET Nat
    OBVIOUS
  <2> HIDE DEF P
  <2> QED BY <2>1, <2>2, <2>3, Inductive
<1>5. \A i \in Nat : A(i).missed \in Nat
  BY <1>4
<1>6. Q = Nat
  <2>1. 0 \in Q
    <3>1. n - 0 = n
      OBVIOUS
    <3>2. A(n).missed = 0
      BY DEF A
    <3> QED BY <3>1, <3>2
  <2>2. ASSUME NEW d \in Q PROVE d + 1 \in Q
    <3> SUFFICES ASSUME d + 1 <= n PROVE A(n - (d + 1)).missed = 0
      OBVIOUS
    <3>1. /\ n - (d + 1) \in Nat /\ (n - (d + 1)) + 1 = n - d
          /\ A(n - d).missed = 0
      OBVIOUS
    <3> HIDE DEF Q
    <3> QED BY <1>3, <1>5, <3>1
  <2>3. Q \in SUBSET Nat
    OBVIOUS
  <2> HIDE DEF Q
  <2> QED BY <2>1, <2>2, <2>3, Inductive
<1>7. \A i \in 0 .. n : A(i).missed = 0
  <2> TAKE i \in 0 .. n
  <2>1. n - i \in Nat /\ n - (n - i) = i /\ n - i <= n
    OBVIOUS
  <2>2. n - i \in Q
    <3> HIDE DEF Q
    <3> QED BY <1>6, <2>1
  <2> QED BY <2>1, <2>2
<1>8. k \in 0 .. n /\ k + 1 \in 0 .. n
  OBVIOUS
<1>9. A(k).missed = 0 /\ A(k + 1).missed = 0
  BY <1>7, <1>8
<1>10. nodes[k + 1].type \in Played => Reach(A(k).at, A(k).m, nodes[k + 1].clk)
  BY <1>3, <1>9
<1> QED BY <1>9, <1>10 DEF A

\* A session that started with a reset has a timestamp before its first event
\* if that is a reset: event_reset_ack does not take it for the one it waits for.
LEMMA ResetNotFirst ==
  ASSUME NEW o, o.read = [nodes |-> <<>>, next |-> 0], o.missed = 0, o.at = ResetCycles,
         NEW events, FileEvents(events), events[1].data = "RESET",
         After(o, events, Len(events)).missed = 0
  PROVE  event_snapshot_read_module(events).nodes[2].type # "RESETCPU"
<1> DEFINE e == FirstEnd(events)
           read == event_snapshot_read_module(events)
<1>1. /\ events \in Seq(TypedNodes) /\ Shape(events) /\ Len(events) \in Nat
      /\ DOMAIN events = 1 .. Len(events) /\ Len(events) >= 2
      /\ events[1].type = "INITIAL"
  BY DEF FileEvents, Shape
<1>2. e \in 2 .. Len(events)
  BY <1>1, FirstEndFound
<1> HIDE DEF e
<1>3. e \in Nat /\ e \in 0 .. Len(events) /\ e >= 2
  BY <1>1, <1>2
<1>4. read = After(o, events, e).read
  BY <1>3, ReadAfter DEF e
<1> HIDE DEF read
<1>5. GoodRead(read, o, events, e)
  BY <1>3, <1>4, GoodReading
<1> SUFFICES ASSUME read.nodes[2].type = "RESETCPU" PROVE FALSE
  BY DEF read
<1>6. read.nodes[2] = events[2] /\ events[2].clk = 0
  BY <1>3, <1>5 DEF GoodRead
<1>7. events[1 + 1].type \in Played => Reach(After(o, events, 1).at, After(o, events, 1).m, events[1 + 1].clk)
  <2>1. 1 \in Nat /\ 1 < Len(events)
    BY <1>1
  <2> QED BY <1>1, <2>1, NoneMissed
<1>8. After(o, events, 0) = o
  BY AfterNone
<1>9. After(o, events, 0 + 1) = Pass(After(o, events, 0), events[0 + 1])
  BY AfterNext
<1>10. After(o, events, 1).at = ResetCycles
  BY <1>1, <1>8, <1>9 DEF Pass, Played
<1>11. Reach(ResetCycles, After(o, events, 1).m, 0)
  BY <1>6, <1>7, <1>10 DEF Played
<1>12. 0 # ResetCycles /\ ~(0 > ResetCycles)
  BY EventConstants
<1> QED BY <1>11, <1>12 DEF Reach

-----------------------------------------------------------------------------
(***************************************************************************)
(* Writing end.vsf: the timestamps are left out.                           *)
(***************************************************************************)
GoodWritten(w, o, nodes, n) ==
  /\ w \in Seq(TypedNodes)
  /\ Same(After(o, w, Len(w)), After(o, nodes, n))
  /\ \A i \in 1 .. Len(w) : w[i].type # "TIMESTAMP"
  /\ n = 0 => w = <<>>
  /\ n >= 1 => Len(w) >= 1 /\ w[1] = nodes[1]
  /\ n >= 2 /\ nodes[n].type = "LIST_END" => Len(w) >= 2 /\ w[Len(w)] = nodes[n]
  /\ \A i \in 2 .. Len(w) : \E k \in 2 .. n : w[i] = nodes[k]
  /\ \A i, j \in 1 .. Len(w) : i < j /\ w[i].type = "LIST_END" => w[j].type = "LIST_END"

LEMMA GoodWrittenNext ==
  ASSUME NEW o, NEW nodes \in Seq(TypedNodes), Shape(nodes), NEW n \in Nat, n + 1 <= Len(nodes),
         NEW w, GoodWritten(w, o, nodes, n)
  PROVE  GoodWritten(IF nodes[n + 1].type = "TIMESTAMP" THEN w ELSE Append(w, nodes[n + 1]),
                     o, nodes, n + 1)
<1> DEFINE node == nodes[n + 1]
<1>1. /\ Len(nodes) \in Nat /\ n + 1 \in 1 .. Len(nodes) /\ node \in TypedNodes
      /\ nodes[1].type = "INITIAL" /\ n + 1 # 0 /\ n + 1 \in Nat
  BY DEF Shape
<1>2. /\ w \in Seq(TypedNodes) /\ Len(w) \in Nat
      /\ Same(After(o, w, Len(w)), After(o, nodes, n))
      /\ \A i \in 1 .. Len(w) : w[i].type # "TIMESTAMP"
      /\ n = 0 => w = <<>>
      /\ n >= 1 => Len(w) >= 1 /\ w[1] = nodes[1]
      /\ \A i \in 2 .. Len(w) : \E k \in 2 .. n : w[i] = nodes[k]
      /\ \A i, j \in 1 .. Len(w) : i < j /\ w[i].type = "LIST_END" => w[j].type = "LIST_END"
  BY DEF GoodWritten
<1>3. After(o, nodes, n + 1) = Pass(After(o, nodes, n), node)
  BY AfterNext
<1>4. \A i \in 2 .. Len(w) : \E k \in 2 .. n + 1 : w[i] = nodes[k]
  <2> TAKE i \in 2 .. Len(w)
  <2>1. PICK k \in 2 .. n : w[i] = nodes[k]
    BY <1>2
  <2>2. k \in 2 .. n + 1
    OBVIOUS
  <2> QED BY <2>1, <2>2
<1>5. CASE node.type = "TIMESTAMP"
  <2>1. n # 0 /\ n >= 1
    BY <1>1, <1>5
  <2>2. Same(After(o, nodes, n + 1), After(o, nodes, n))
    BY <1>3, <1>5, PassStill DEF Played
  <2>3. Same(After(o, w, Len(w)), After(o, nodes, n + 1))
    BY <1>2, <2>2 DEF Same
  <2>4. node.type # "LIST_END"
    BY <1>5
  <2> QED BY <1>1, <1>2, <1>4, <1>5, <2>1, <2>3, <2>4 DEF GoodWritten
<1>6. CASE node.type # "TIMESTAMP"
  <2> DEFINE x == Append(w, node)
  <2>1. /\ x \in Seq(TypedNodes) /\ Len(x) = Len(w) + 1
        /\ \A i \in 1 .. Len(w) : x[i] = w[i]
        /\ x[Len(x)] = node
    BY <1>1, <1>2
  <2> HIDE DEF x, node
  <2>2. Same(After(o, x, Len(x)), After(o, nodes, n + 1))
    <3>1. After(o, x, Len(w)) = After(o, w, Len(w))
      BY <1>2, <2>1, SameStart
    <3>2. After(o, x, Len(w) + 1) = Pass(After(o, x, Len(w)), x[Len(w) + 1])
      BY <1>2, AfterNext
    <3>3. Same(Pass(After(o, w, Len(w)), node), Pass(After(o, nodes, n), node))
      BY <1>2, PassSame
    <3> QED BY <1>3, <2>1, <3>1, <3>2, <3>3
  <2>3. \A i \in 1 .. Len(x) : x[i].type # "TIMESTAMP"
    <3> TAKE i \in 1 .. Len(x)
    <3>1. CASE i = Len(x)
      BY <1>6, <2>1, <3>1
    <3>2. CASE i # Len(x)
      <4>1. i \in 1 .. Len(w)
        BY <1>2, <2>1, <3>2
      <4> QED BY <1>2, <2>1, <4>1
    <3> QED BY <3>1, <3>2
  <2>4. Len(x) >= 1 /\ x[1] = nodes[1]
    <3>1. CASE n = 0
      BY <1>2, <2>1, <3>1 DEF node
    <3>2. CASE n # 0
      BY <1>2, <2>1, <3>2
    <3> QED BY <3>1, <3>2
  <2>5. n + 1 >= 2 => Len(x) >= 2 /\ x[Len(x)] = nodes[n + 1]
    BY <1>2, <2>1 DEF node
  <2>6. \A i \in 2 .. Len(x) : \E k \in 2 .. n + 1 : x[i] = nodes[k]
    <3> TAKE i \in 2 .. Len(x)
    <3>1. CASE i <= Len(w)
      <4>1. i \in 2 .. Len(w) /\ i \in 1 .. Len(w)
        BY <1>2, <3>1
      <4> QED BY <1>4, <2>1, <4>1
    <3>2. CASE i > Len(w)
      <4>1. i = Len(x) /\ Len(w) >= 1
        BY <1>2, <2>1, <3>2
      <4>2. n # 0
        BY <1>2, <4>1
      <4>3. n + 1 \in 2 .. n + 1
        BY <4>2
      <4> QED BY <2>1, <4>1, <4>3 DEF node
    <3> QED BY <1>2, <3>1, <3>2
  <2>7. ASSUME NEW i \in 1 .. Len(x), NEW j \in 1 .. Len(x), i < j, x[i].type = "LIST_END"
        PROVE  x[j].type = "LIST_END"
    <3>1. i \in 1 .. Len(w) /\ x[i] = w[i]
      BY <1>2, <2>1, <2>7
    <3>2. CASE j <= Len(w)
      <4>1. j \in 1 .. Len(w) /\ x[j] = w[j]
        BY <1>2, <2>1, <3>2
      <4> QED BY <1>2, <2>7, <3>1, <4>1
    <3>3. CASE j > Len(w)
      <4>1. x[j] = node
        BY <1>2, <2>1, <3>3
      <4>2. i # 1
        <5>1. n # 0
          BY <1>2, <3>1
        <5> QED BY <1>1, <1>2, <2>7, <3>1, <5>1
      <4>3. PICK k \in 2 .. n : w[i] = nodes[k]
        BY <1>2, <3>1, <4>2
      <4>4. k \in 1 .. Len(nodes) /\ k < n + 1 /\ nodes[k].type = "LIST_END"
        BY <1>1, <2>7, <3>1, <4>3
      <4> QED BY <1>1, <4>1, <4>4 DEF Shape, node
    <3> QED BY <1>2, <3>2, <3>3
  <2>8. GoodWritten(x, o, nodes, n + 1)
    BY <1>1, <2>1, <2>2, <2>3, <2>4, <2>5, <2>6, <2>7 DEF GoodWritten
  <2> QED BY <1>6, <2>8 DEF x, node
<1> QED BY <1>5, <1>6

\* What is written of a list is a list of end.vsf, and leads to the same machine.
LEMMA FileWritten ==
  ASSUME NEW o, o.written = <<>>, NEW nodes \in Seq(TypedNodes), Shape(nodes)
  PROVE  LET w == event_snapshot_write_module(nodes)
         IN /\ FileEvents(w) /\ w[1] = nodes[1]
            /\ Same(After(o, w, Len(w)), After(o, nodes, Len(nodes)))
<1> DEFINE w(k) == After(o, nodes, k).written
           P == {k \in Nat : k <= Len(nodes) => GoodWritten(w(k), o, nodes, k)}
           out == event_snapshot_write_module(nodes)
<1>1. Len(nodes) \in Nat /\ Len(nodes) >= 2
  BY DEF Shape
<1>2. 0 \in P
  <2>1. After(o, nodes, 0) = o /\ After(o, <<>>, 0) = o
    BY AfterNone
  <2>2. Same(o, o)
    BY DEF Same
  <2>3. GoodWritten(<<>>, o, nodes, 0)
    BY <2>1, <2>2 DEF GoodWritten
  <2> QED BY <2>1, <2>3
<1>3. ASSUME NEW k \in P PROVE k + 1 \in P
  <2> SUFFICES ASSUME k + 1 <= Len(nodes) PROVE GoodWritten(w(k + 1), o, nodes, k + 1)
    OBVIOUS
  <2>1. k \in Nat /\ GoodWritten(w(k), o, nodes, k)
    BY <1>1
  <2>2. After(o, nodes, k + 1) = Pass(After(o, nodes, k), nodes[k + 1])
    BY <2>1, AfterNext
  <2>3. w(k + 1) = IF nodes[k + 1].type = "TIMESTAMP" THEN w(k) ELSE Append(w(k), nodes[k + 1])
    <3>1. Pass(After(o, nodes, k), nodes[k + 1]).written =
            IF nodes[k + 1].type = "TIMESTAMP" THEN After(o, nodes, k).written
            ELSE Append(After(o, nodes, k).written, nodes[k + 1])
      BY DEF Pass
    <3> QED BY <2>2, <3>1
  <2> HIDE DEF P, w
  <2> QED BY <2>1, <2>3, GoodWrittenNext
<1> HIDE DEF P, w
<1>4. P \in SUBSET Nat
  BY DEF P
<1>5. P = Nat
  BY <1>2, <1>3, <1>4, Inductive
<1>6. GoodWritten(w(Len(nodes)), o, nodes, Len(nodes))
  BY <1>1, <1>5 DEF P
<1>7. out = w(Len(nodes))
  BY <1>1, WrittenAfter DEF w
<1> HIDE DEF out
<1>8. /\ out \in Seq(TypedNodes) /\ Len(out) \in Nat
      /\ Same(After(o, out, Len(out)), After(o, nodes, Len(nodes)))
      /\ \A i \in 1 .. Len(out) : out[i].type # "TIMESTAMP"
      /\ out[1] = nodes[1]
      /\ nodes[Len(nodes)].type = "LIST_END" => Len(out) >= 2 /\ out[Len(out)] = nodes[Len(nodes)]
      /\ \A i \in 2 .. Len(out) : \E k \in 2 .. Len(nodes) : out[i] = nodes[k]
      /\ \A i, j \in 1 .. Len(out) : i < j /\ out[i].type = "LIST_END" => out[j].type = "LIST_END"
  BY <1>1, <1>6, <1>7 DEF GoodWritten
<1>9. Shape(out)
  BY <1>8 DEF Shape
<1>10. FileEvents(out)
  BY <1>8, <1>9 DEF FileEvents
<1> QED BY <1>8, <1>10 DEF out


-----------------------------------------------------------------------------
(***************************************************************************)
(* Cycles and instructions.                                                *)
(***************************************************************************)
LEMMA Widths ==
  /\ MaxClk \in Nat /\ Second \in Nat /\ Second >= 1
  /\ ResetCycles \in Nat /\ ResetCycles >= 1 /\ ResetCycles <= MaxClk
  /\ ClockMod \in Nat /\ MaxClk + Second + 1 < ClockMod
  /\ Unset = ClockMod
<1>1. /\ MaxClk \in Nat /\ Second \in Nat /\ Second >= 1
      /\ ResetCycles \in Nat /\ ResetCycles >= 1 /\ ResetCycles <= MaxClk
  BY EventConstants
<1>2. ClockMod \in Nat /\ ClockMod > 2 * (MaxClk + Second) + 2
  BY EventConstants
<1>3. MaxClk + Second + 1 < ClockMod
  BY <1>1, <1>2
<1> QED BY <1>1, <1>2, <1>3 DEF Unset

\* A clock that did not overflow is left alone.
LEMMA SmallClock == ASSUME NEW x \in Nat, x < ClockMod PROVE x % ClockMod = x
<1>1. ClockMod \in Nat /\ ClockMod > 0
  BY Widths
<1> QED BY <1>1, SMTT(30)

\* A clock is in range.
LEMMA ClockRange == ASSUME NEW x \in Int PROVE x % ClockMod \in 0 .. ClockMod - 1
<1>1. ClockMod \in Nat /\ ClockMod > 0
  BY Widths
<1> QED BY <1>1, SMTT(30)

\* One instruction more.
LEMMA ReachStep ==
  ASSUME NEW c \in Nat, NEW d \in Nat, NEW m \in Seq(Inputs), Reach(c, m, d)
  PROVE  Reach(c, m, d + (1 + ((d + Len(m)) % 2)))
<1>1. Len(m) \in Nat
  OBVIOUS
<1> DEFINE n == Len(m)
<1> HIDE DEF n
<1>2. (d + n) % 2 \in {0, 1}
  BY <1>1 DEF n
<1>3. d >= c
  BY DEF Reach
<1>4. CASE (d + n) % 2 = 0
  <2>1. (d + 1 + n) % 2 = 1
    BY <1>1, <1>4 DEF n
  <2> QED BY <1>3, <1>4, <2>1 DEF Reach, n
<1>5. CASE (d + n) % 2 = 1
  <2>1. (d + 2 + n) % 2 = 1
    BY <1>1, <1>5 DEF n
  <2> QED BY <1>3, <1>5, <2>1 DEF Reach, n
<1> QED BY <1>2, <1>4, <1>5

\* A machine on its way to cycle d does not jump over it.
LEMMA ReachOn ==
  ASSUME NEW c \in Nat, NEW d \in Nat, NEW m \in Seq(Inputs), Reach(c, m, d), d # c
  PROVE  Reach(c + (1 + ((c + Len(m)) % 2)), m, d)
<1>1. Len(m) \in Nat
  OBVIOUS
<1>2. d > c /\ (d + Len(m)) % 2 = 1
  BY DEF Reach
<1> DEFINE n == Len(m)
<1>3. (c + n) % 2 \in {0, 1}
  BY <1>1
<1>4. CASE (c + n) % 2 = 0
  BY <1>1, <1>2, <1>4 DEF Reach
<1>5. CASE (c + n) % 2 = 1
  <2>1. d # c + 1
    BY <1>1, <1>2, <1>5
  <2> QED BY <1>1, <1>2, <1>5, <2>1 DEF Reach
<1> QED BY <1>3, <1>4, <1>5

\* The same machine arrives at the same place.
LEMMA ArrivesSame ==
  ASSUME NEW s, NEW t, Same(s, t), NEW m, NEW c
  PROVE  Arrives(s, m, c) <=> Arrives(t, m, c)
BY DEF Same, Arrives

LEMMA SameBothWays == ASSUME NEW s, NEW t, Same(s, t) PROVE Same(t, s)
BY DEF Same

LEMMA SameChain == ASSUME NEW s, NEW t, NEW u, Same(s, t), Same(t, u) PROVE Same(s, u)
BY DEF Same

\* What an origin is.
LEMMA OriginOf ==
  ASSUME NEW first, NEW file
  PROVE  /\ Origin(first, file).missed = 0
         /\ Origin(first, file).read = [nodes |-> <<>>, next |-> 0]
         /\ Origin(first, file).written = <<>>
         /\ first.data = "RESET" => /\ Origin(first, file).m = <<>>
                                    /\ Origin(first, file).at = ResetCycles
         /\ first.data # "RESET" => /\ Origin(first, file).m = file.machine
                                    /\ Origin(first, file).at = file.clk
BY DEF Origin

\* The initial event does nothing.
LEMMA AfterInitial ==
  ASSUME NEW o, NEW nodes, nodes[1].type = "INITIAL"
  PROVE  Same(After(o, nodes, 1), o)
<1>1. After(o, nodes, 0) = o
  BY AfterNone
<1>2. After(o, nodes, 0 + 1) = Pass(After(o, nodes, 0), nodes[0 + 1])
  BY AfterNext
<1>3. After(o, nodes, 1) = Pass(o, nodes[1])
  BY <1>1, <1>2
<1>4. nodes[1].type \notin Played
  BY DEF Played
<1> QED BY <1>3, <1>4, PassStill

\* A machine that is fed the event of a node when it is due stays on the list.
LEMMA PassArrives ==
  ASSUME NEW s, NEW node, node.type \in Played, NEW m, Arrives(s, m, node.clk)
  PROVE  Arrives(Pass(s, node), Fed(m, node),
                 IF node.type = "RESETCPU" THEN ResetCycles ELSE node.clk)
BY DEF Arrives, Pass, Reach

\* A node that nothing is played for.
LEMMA PassStays ==
  ASSUME NEW s, NEW node, node.type \notin Played, NEW m, NEW c, Arrives(s, m, c)
  PROVE  Arrives(Pass(s, node), m, c)
BY PassStill, ArrivesSame

-----------------------------------------------------------------------------
(***************************************************************************)
(* Operations on the list.                                                 *)
(***************************************************************************)

\* A typed node has its parts.
LEMMA NodeParts ==
  ASSUME NEW node \in TypedNodes
  PROVE  /\ node.type \in NodeTypes /\ node.clk \in 0 .. MaxClk /\ node.clk \in Nat
         /\ node.clk <= MaxClk /\ node.data \in NodeData
         /\ node.type = "RESETCPU" => node.data \in {"soft", "hard"}
BY Widths DEF TypedNodes

LEMMA TailTyped == TailNode \in TypedNodes /\ TailNode.type = "LIST_END"
<1>1. 0 \in 0 .. MaxClk
  BY Widths
<1>2. "LIST_END" \in NodeTypes /\ "" \in NodeData
  BY DEF NodeTypes, NodeData
<1>3. "LIST_END" # "RESETCPU"
  OBVIOUS
<1>4. /\ Node("LIST_END", 0, "") \in TypedNodes
      /\ Node("LIST_END", 0, "").type = "LIST_END"
  BY <1>1, <1>2, <1>3 DEF Node, TypedNodes
<1> QED BY <1>4 DEF TailNode

\* All but the last.
LEMMA AllButLast ==
  ASSUME NEW S, NEW s \in Seq(S), NEW n \in Nat, n = Len(s), n >= 1
  PROVE  /\ SubSeq(s, 1, n - 1) \in Seq(S) /\ Len(SubSeq(s, 1, n - 1)) = n - 1
         /\ \A i \in 1 .. n - 1 : SubSeq(s, 1, n - 1)[i] = s[i]
OBVIOUS

\* A list that is built from the start of another and one node.
LEMMA StartAndOne ==
  ASSUME NEW S, NEW s \in Seq(S), Len(s) >= 1, NEW x \in S
  PROVE  LET n == Len(s)
             t == SubSeq(s, 1, n - 1) \o <<x>>
         IN /\ t \in Seq(S) /\ n \in Nat /\ Len(t) = n
            /\ \A i \in 1 .. n - 1 : t[i] = s[i]
            /\ t[n] = x
<1> DEFINE n == Len(s)
           u == SubSeq(s, 1, n - 1)
<1>1. u \in Seq(S) /\ n \in Nat /\ Len(u) = n - 1 /\ \A i \in 1 .. n - 1 : u[i] = s[i]
  <2>1. n \in Nat /\ n >= 1
    OBVIOUS
  <2> QED BY <2>1, AllButLast
<1> HIDE DEF u, n
<1>2. /\ u \o <<x>> \in Seq(S) /\ Len(u \o <<x>>) = n
      /\ \A i \in 1 .. n - 1 : (u \o <<x>>)[i] = u[i]
      /\ (u \o <<x>>)[n] = x
  BY <1>1
<1> QED BY <1>1, <1>2 DEF u, n

\* t is the list s with node in the place of its tail, and a new tail.
Extends(t, s, node) ==
  LET n == Len(s)
  IN /\ t \in Seq(TypedNodes) /\ Shape(t) /\ Len(t) = n + 1
     /\ \A i \in 1 .. n - 1 : t[i] = s[i]
     /\ t[n] = node /\ t[n + 1].type = "LIST_END"

\* event_record_in_list.
LEMMA Recorded ==
  ASSUME NEW s \in Seq(TypedNodes), Shape(s), NEW node \in TypedNodes,
         node.type # "INITIAL", node.type = "LIST_END" \/ NoEndBefore(s, Len(s))
  PROVE  Extends(SubSeq(s, 1, Len(s) - 1) \o <<node, TailNode>>, s, node)
<1> DEFINE n == Len(s)
           t == SubSeq(s, 1, n - 1) \o <<node, TailNode>>
<1>1. /\ n >= 2 /\ s[1].type = "INITIAL" /\ s[n].type = "LIST_END"
      /\ \A i \in 2 .. n : s[i].type # "INITIAL"
      /\ \A i, j \in 1 .. n : i < j /\ s[i].type = "LIST_END" => s[j].type = "LIST_END"
  BY DEF Shape
<1>2. /\ t \in Seq(TypedNodes) /\ n \in Nat /\ Len(t) = n + 1
      /\ \A i \in 1 .. n - 1 : t[i] = s[i]
      /\ t[n] = node /\ t[n + 1] = TailNode
  <2>1. n >= 1
    BY <1>1
  <2> DEFINE u == SubSeq(s, 1, n - 1)
             y == TailNode
  <2>2. n \in Nat /\ u \in Seq(TypedNodes) /\ Len(u) = n - 1 /\ \A i \in 1 .. n - 1 : u[i] = s[i]
    <3>1. n \in Nat /\ n = Len(s)
      OBVIOUS
    <3> HIDE DEF n
    <3>2. ASSUME NEW S, s \in Seq(S)
          PROVE  u \in Seq(S) /\ Len(u) = n - 1 /\ \A i \in 1 .. n - 1 : u[i] = s[i]
      BY <2>1, <3>1, <3>2, AllButLast
    <3> QED BY <3>1, <3>2
  <2>3. y \in TypedNodes
    BY TailTyped
  <2> HIDE DEF u, n, y
  <2>4. /\ u \o <<node, y>> \in Seq(TypedNodes) /\ Len(u \o <<node, y>>) = n + 1
        /\ \A i \in 1 .. n - 1 : (u \o <<node, y>>)[i] = u[i]
        /\ (u \o <<node, y>>)[n] = node /\ (u \o <<node, y>>)[n + 1] = y
    BY <2>2, <2>3
  <2> QED BY <2>2, <2>4 DEF u, y
<1> HIDE DEF t, n
<1>3. t[1].type = "INITIAL"
  BY <1>1, <1>2
<1>4. \A i \in 2 .. n + 1 : t[i].type # "INITIAL"
  <2> TAKE i \in 2 .. n + 1
  <2>1. CASE i <= n - 1
    <3>1. i \in 1 .. n - 1 /\ i \in 2 .. n
      BY <1>2, <2>1
    <3> QED BY <1>1, <1>2, <3>1
  <2>2. CASE i = n
    BY <1>2, <2>2
  <2>3. CASE i = n + 1
    BY <1>2, <2>3, TailTyped
  <2> QED BY <1>2, <2>1, <2>2, <2>3
<1>5. ASSUME NEW i \in 1 .. n + 1, NEW j \in 1 .. n + 1, i < j, t[i].type = "LIST_END"
      PROVE  t[j].type = "LIST_END"
  <2>1. CASE j = n + 1
    BY <1>2, <2>1, TailTyped
  <2>2. CASE j = n
    <3>1. i \in 1 .. n - 1 /\ s[i].type = "LIST_END"
      BY <1>2, <1>5, <2>2
    <3>2. ~NoEndBefore(s, n)
      BY <3>1 DEF NoEndBefore
    <3> QED BY <1>2, <2>2, <3>2 DEF n
  <2>3. CASE j <= n - 1
    <3>1. i \in 1 .. n - 1 /\ j \in 1 .. n - 1 /\ i \in 1 .. n /\ j \in 1 .. n
      BY <1>2, <1>5, <2>3
    <3> QED BY <1>1, <1>2, <1>5, <3>1
  <2> QED BY <1>2, <2>1, <2>2, <2>3
<1>6. Shape(t)
  BY <1>1, <1>2, <1>3, <1>4, <1>5, TailTyped DEF Shape
<1> QED BY <1>2, <1>6, TailTyped DEF Extends, t, n

\* What a list that was extended leads to.
LEMMA AfterExtended ==
  ASSUME NEW s, Shape(s), Len(s) \in Nat, NEW t, NEW node, Extends(t, s, node), NEW o
  PROVE  /\ After(o, t, Len(s)) = Pass(After(o, s, Len(s) - 1), node)
         /\ t[1] = s[1]
<1> DEFINE n == Len(s)
<1>1. /\ n \in Nat /\ n - 1 \in Nat /\ (n - 1) + 1 = n /\ 1 \in 1 .. n - 1
      /\ \A i \in 1 .. n - 1 : t[i] = s[i]
      /\ t[n] = node
  BY DEF Extends, Shape
<1> HIDE DEF n
<1>2. After(o, t, n - 1) = After(o, s, n - 1)
  BY <1>1, SameStart
<1>3. After(o, t, n) = Pass(After(o, t, n - 1), t[n])
  BY <1>1, AfterNext
<1> QED BY <1>1, <1>2, <1>3 DEF n

\* warp_end_list, where the only LIST_END is the last.
LEMMA Warped ==
  ASSUME NEW s \in Seq(TypedNodes), Shape(s), NoEndBefore(s, Len(s))
  PROVE  LET t == warp_end_list(s)
         IN /\ t \in Seq(TypedNodes) /\ Shape(t) /\ Len(t) = Len(s)
            /\ NoEndBefore(t, Len(t)) /\ t[1] = s[1]
            /\ \A o : Same(After(o, t, Len(t) - 1), After(o, s, Len(s)))
<1> DEFINE n == Len(s)
           t == SubSeq(s, 1, n - 1) \o <<TailNode>>
<1>1. /\ n \in Nat /\ n >= 2 /\ s[1].type = "INITIAL" /\ s[n].type = "LIST_END"
      /\ \A i \in 2 .. n : s[i].type # "INITIAL"
      /\ \A i \in 1 .. n - 1 : s[i].type # "LIST_END"
  BY DEF Shape, NoEndBefore
<1>2. FirstEnd(s) = n
  <2>1. /\ FirstEnd(s) \in 2 .. n /\ s[FirstEnd(s)].type = "LIST_END"
    BY <1>1, FirstEndFound
  <2> QED BY <1>1, <2>1
<1>3. warp_end_list(s) = t
  BY <1>2 DEF warp_end_list
<1>4. /\ t \in Seq(TypedNodes) /\ Len(t) = n
      /\ \A i \in 1 .. n - 1 : t[i] = s[i]
      /\ t[n] = TailNode
  <2>1. n >= 1
    BY <1>1
  <2>2. TailNode \in TypedNodes
    BY TailTyped
  <2> QED BY <2>1, <2>2, StartAndOne
<1> HIDE DEF t, n
<1>5. NoEndBefore(t, n)
  BY <1>1, <1>4 DEF NoEndBefore
<1>6. t[1] = s[1]
  BY <1>1, <1>4
<1>7. \A i \in 2 .. n : t[i].type # "INITIAL"
  <2> TAKE i \in 2 .. n
  <2>1. CASE i = n
    BY <1>4, <2>1, TailTyped
  <2>2. CASE i # n
    BY <1>1, <1>4, <2>2
  <2> QED BY <2>1, <2>2
<1>8. \A i, j \in 1 .. n : i < j /\ t[i].type = "LIST_END" => t[j].type = "LIST_END"
  BY <1>1, <1>5 DEF NoEndBefore
<1>9. Shape(t)
  BY <1>1, <1>4, <1>6, <1>7, <1>8, TailTyped DEF Shape
<1>10. ASSUME NEW o PROVE Same(After(o, t, n - 1), After(o, s, n))
  <2>1. n - 1 \in Nat /\ (n - 1) + 1 = n
    BY <1>1
  <2>2. After(o, t, n - 1) = After(o, s, n - 1)
    BY <1>4, <2>1, SameStart
  <2>3. After(o, s, n) = Pass(After(o, s, n - 1), s[n])
    BY <2>1, AfterNext
  <2>4. s[n].type \notin Played
    BY <1>1 DEF Played
  <2> QED BY <2>2, <2>3, <2>4, PassStill, SameBothWays
<1> QED BY <1>3, <1>4, <1>5, <1>6, <1>9, <1>10 DEF n

\* The list is cut at node c, which becomes its end.
LEMMA CutAt ==
  ASSUME NEW s \in Seq(TypedNodes), Shape(s), NoEndBefore(s, Len(s)), NEW c \in 2 .. Len(s)
  PROVE  LET t == [SubSeq(s, 1, c) EXCEPT ![c].type = "LIST_END"]
         IN /\ t \in Seq(TypedNodes) /\ Shape(t) /\ Len(t) = c /\ t[1] = s[1]
            /\ NoEndBefore(t, c)
            /\ \A o : After(o, t, c - 1) = After(o, s, c - 1)
<1> DEFINE u == SubSeq(s, 1, c)
           x == [s[c] EXCEPT !.type = "LIST_END"]
           t == [u EXCEPT ![c].type = "LIST_END"]
<1>1. /\ Len(s) \in Nat /\ c \in Nat /\ c >= 2 /\ c <= Len(s) /\ s[1].type = "INITIAL"
      /\ \A i \in 2 .. Len(s) : s[i].type # "INITIAL"
      /\ \A i \in 1 .. Len(s) - 1 : s[i].type # "LIST_END"
  BY DEF Shape, NoEndBefore
<1>2. u \in Seq(TypedNodes) /\ Len(u) = c /\ \A i \in 1 .. c : u[i] = s[i]
  BY <1>1
<1>3. x \in TypedNodes /\ x.type = "LIST_END"
  <2>1. s[c] \in TypedNodes
    BY <1>1
  <2>2. "LIST_END" \in NodeTypes
    BY DEF NodeTypes
  <2> QED BY <2>1, <2>2 DEF TypedNodes
<1>4. t = [u EXCEPT ![c] = x]
  <2>1. u[c] = s[c]
    BY <1>1, <1>2
  <2> HIDE DEF u
  <2> QED BY <2>1
<1> HIDE DEF u, x
<1>5. [u EXCEPT ![c] = x] \in Seq(TypedNodes) /\ Len([u EXCEPT ![c] = x]) = c
      /\ [u EXCEPT ![c] = x][c] = x
      /\ \A i \in 1 .. c - 1 : [u EXCEPT ![c] = x][i] = u[i]
  BY <1>1, <1>2, <1>3
<1> HIDE DEF t
<1>6. /\ t \in Seq(TypedNodes) /\ Len(t) = c /\ t[c].type = "LIST_END"
      /\ \A i \in 1 .. c - 1 : t[i] = s[i]
  BY <1>1, <1>2, <1>3, <1>4, <1>5
<1>7. \A i \in 1 .. c - 1 : t[i].type # "LIST_END"
  BY <1>1, <1>6
<1>8. \A i \in 2 .. c : t[i].type # "INITIAL"
  <2> TAKE i \in 2 .. c
  <2>1. CASE i = c
    BY <1>6, <2>1
  <2>2. CASE i # c
    BY <1>1, <1>6, <2>2
  <2> QED BY <2>1, <2>2
<1>9. t[1] = s[1]
  BY <1>1, <1>6
<1>10. \A i, j \in 1 .. c : i < j /\ t[i].type = "LIST_END" => t[j].type = "LIST_END"
  BY <1>1, <1>7
<1>11. Shape(t)
  BY <1>1, <1>6, <1>8, <1>9, <1>10 DEF Shape
<1>12. ASSUME NEW o PROVE After(o, t, c - 1) = After(o, s, c - 1)
  <2>1. c - 1 \in Nat
    BY <1>1
  <2> QED BY <1>6, <2>1, SameStart
<1>13. NoEndBefore(t, c)
  BY <1>7 DEF NoEndBefore
<1> QED BY <1>6, <1>9, <1>11, <1>12, <1>13 DEF t, u

\* A list of two nodes.
LEMMA NewListOf ==
  ASSUME NEW c \in 0 .. MaxClk, NEW mode \in Modes
  PROVE  LET t == <<Node("INITIAL", c, mode), TailNode>>
         IN /\ t \in Seq(TypedNodes) /\ Shape(t) /\ Len(t) = 2 /\ t # <<>>
            /\ t[1].data = mode /\ NoEndBefore(t, 2)
            /\ \A o : Same(After(o, t, 1), o)
<1> DEFINE x == Node("INITIAL", c, mode)
           t == <<x, TailNode>>
<1>1. x \in TypedNodes /\ x.type = "INITIAL" /\ x.data = mode
  <2>1. "INITIAL" \in NodeTypes /\ mode \in NodeData
    BY DEF NodeTypes, NodeData
  <2> QED BY <2>1, NodeTyped
<1> HIDE DEF x
<1>2. t \in Seq(TypedNodes) /\ Len(t) = 2 /\ t[1] = x /\ t[2] = TailNode /\ t # <<>>
  BY <1>1, TailTyped
<1> HIDE DEF t
<1>3. Shape(t)
  BY <1>1, <1>2, TailTyped DEF Shape
<1>4. NoEndBefore(t, 2)
  BY <1>1, <1>2 DEF NoEndBefore
<1>5. \A o : Same(After(o, t, 1), o)
  BY <1>1, <1>2, AfterInitial
<1> QED BY <1>1, <1>2, <1>3, <1>4, <1>5 DEF t, x

\* Every event of a list that nothing is missed of will be met.
LEMMA OnTrack ==
  ASSUME NEW o, o.missed = 0, NEW nodes, Shape(nodes), Len(nodes) \in Nat,
         NoEndBefore(nodes, Len(nodes)), NEW n \in 1 .. Len(nodes),
         NEW em, NEW ec, Arrives(After(o, nodes, Len(nodes)), em, ec),
         NEW s, Same(After(o, nodes, n - 1), s)
  PROVE  s.missed = 0 /\ Heading(nodes, n, s.at, s.m, ec)
<1> DEFINE last == Len(nodes)
           A(i) == After(o, nodes, i)
<1>1. /\ last \in Nat /\ n \in 1 .. last /\ n - 1 \in Nat /\ n - 1 < last
      /\ nodes[last].type = "LIST_END"
      /\ \A i \in 1 .. last - 1 : nodes[i].type # "LIST_END"
  BY DEF Shape, NoEndBefore
<1>2. A(last).missed = 0 /\ Reach(A(last).at, A(last).m, ec)
  BY DEF Arrives
<1> HIDE DEF last
<1>3. \A k \in Nat : k < last =>
        /\ A(k).missed = 0
        /\ nodes[k + 1].type \in Played => Reach(A(k).at, A(k).m, nodes[k + 1].clk)
  BY <1>1, <1>2, NoneMissed
<1>4. s.missed = 0
  BY <1>1, <1>3 DEF Same
<1>5. ASSUME NEW j \in n .. last, StampsOnly(nodes, n, j), nodes[j].type # "TIMESTAMP"
      PROVE  /\ nodes[j].type \in Played => Reach(s.at, s.m, nodes[j].clk)
             /\ nodes[j].type = "LIST_END" => Reach(s.at, s.m, ec)
  <2>1. j - 1 \in Nat /\ (j - 1) + 1 = j /\ j - 1 < last /\ n - 1 <= j - 1 /\ j \in Nat
    BY <1>1
  <2>2. \A k \in n .. j - 1 : nodes[k].type \notin Played
    BY <1>5 DEF StampsOnly, Played
  <2>3. (n - 1) + 1 = n
    BY <1>1
  <2>4. Same(A(j - 1), A(n - 1))
    BY <1>1, <2>1, <2>2, <2>3, NodesStill
  <2>5. Same(A(j - 1), s)
    BY <2>4, SameChain
  <2>6. nodes[j].type \in Played => Reach(s.at, s.m, nodes[j].clk)
    BY <1>3, <2>1, <2>5 DEF Same
  <2>7. ASSUME nodes[j].type = "LIST_END" PROVE Reach(s.at, s.m, ec)
    <3>1. j = last
      BY <1>1, <2>7
    <3>2. A(j) = Pass(A(j - 1), nodes[j])
      BY <2>1, AfterNext
    <3>3. Same(Pass(A(j - 1), nodes[j]), A(j - 1))
      BY <2>7, PassStill DEF Played
    <3>4. Same(A(last), s)
      BY <2>5, <3>1, <3>2, <3>3, SameChain
    <3> QED BY <1>2, <3>4 DEF Same
  <2> QED BY <2>6, <2>7
<1> QED BY <1>4, <1>5 DEF Heading, last

\* Heading does not get worse when timestamps pass.
LEMMA HeadingStamp ==
  ASSUME NEW nodes, Len(nodes) \in Nat, NEW n \in 1 .. Len(nodes), nodes[n].type = "TIMESTAMP",
         NEW c, NEW m, NEW last, Heading(nodes, n, c, m, last)
  PROVE  Heading(nodes, n + 1, c, m, last)
<1> SUFFICES ASSUME NEW j \in n + 1 .. Len(nodes), StampsOnly(nodes, n + 1, j),
                    nodes[j].type # "TIMESTAMP"
             PROVE  /\ nodes[j].type \in Played => Reach(c, m, nodes[j].clk)
                    /\ nodes[j].type = "LIST_END" => Reach(c, m, last) \/ nodes[j].clk # last
  BY DEF Heading
<1>1. j \in n .. Len(nodes)
  OBVIOUS
<1>2. StampsOnly(nodes, n, j)
  BY DEF StampsOnly
<1> QED BY <1>1, <1>2 DEF Heading

\* The next event is met in its cycle.
LEMMA HeadingHere ==
  ASSUME NEW nodes, Len(nodes) \in Nat, NEW n \in 1 .. Len(nodes), nodes[n].type \in Played,
         NEW c, NEW m, NEW last, Heading(nodes, n, c, m, last)
  PROVE  Reach(c, m, nodes[n].clk)
<1>1. n \in n .. Len(nodes) /\ StampsOnly(nodes, n, n)
  BY DEF StampsOnly
<1>2. nodes[n].type # "TIMESTAMP"
  BY DEF Played
<1> QED BY <1>1, <1>2 DEF Heading

\* Before its next event is due, an instruction keeps the machine on its way.
LEMMA HeadingStep ==
  ASSUME NEW nodes \in Seq(TypedNodes), StampsBefore(nodes), NEW n \in 1 .. Len(nodes),
         NEW c \in Nat, NEW m \in Seq(Inputs), NEW last \in Nat,
         nodes[n].clk > c, Heading(nodes, n, c, m, last)
  PROVE  Heading(nodes, n, c + (1 + ((c + Len(m)) % 2)), m, last)
<1> DEFINE d == c + (1 + ((c + Len(m)) % 2))
<1> HIDE DEF d
<1> SUFFICES ASSUME NEW j \in n .. Len(nodes), StampsOnly(nodes, n, j),
                    nodes[j].type # "TIMESTAMP"
             PROVE  /\ nodes[j].type \in Played => Reach(d, m, nodes[j].clk)
                    /\ nodes[j].type = "LIST_END" => Reach(d, m, last) \/ nodes[j].clk # last
  BY DEF Heading, d
<1>1. Len(nodes) \in Nat /\ n \in Nat /\ j \in 1 .. Len(nodes)
  OBVIOUS
<1>2. nodes[j].clk \in Nat /\ nodes[n].clk \in Nat
  BY <1>1, NodeParts
<1>3. nodes[j].clk # c
  <2>1. CASE j = n
    BY <1>2, <2>1
  <2>2. CASE j # n
    <3>1. n < j
      BY <1>1, <2>2
    <3>2. nodes[n].clk < nodes[j].clk
      BY <1>1, <3>1 DEF StampsBefore
    <3> QED BY <1>2, <3>2
  <2> QED BY <2>1, <2>2
<1>4. ASSUME NEW e \in Nat, Reach(c, m, e), e # c PROVE Reach(d, m, e)
  BY <1>4, ReachOn DEF d
<1>5. /\ nodes[j].type \in Played => Reach(c, m, nodes[j].clk)
      /\ nodes[j].type = "LIST_END" => Reach(c, m, last) \/ nodes[j].clk # last
  BY DEF Heading
<1> QED BY <1>2, <1>3, <1>4, <1>5

\* The machine of a course is in some cycle.
LEMMA CourseClock ==
  ASSUME NEW o, o.at \in Nat, NEW nodes \in Seq(TypedNodes), NEW n \in 0 .. Len(nodes)
  PROVE  After(o, nodes, n).at \in Nat
<1> DEFINE P == {k \in Nat : k <= Len(nodes) => After(o, nodes, k).at \in Nat}
<1>1. Len(nodes) \in Nat
  OBVIOUS
<1>2. 0 \in P
  BY AfterNone
<1>3. ASSUME NEW k \in P PROVE k + 1 \in P
  <2> SUFFICES ASSUME k + 1 <= Len(nodes) PROVE After(o, nodes, k + 1).at \in Nat
    OBVIOUS
  <2>1. k \in Nat /\ After(o, nodes, k).at \in Nat
    BY <1>1
  <2> HIDE DEF P
  <2>2. nodes[k + 1].clk \in Nat
    <3>1. k + 1 \in 1 .. Len(nodes)
      BY <1>1, <2>1
    <3> QED BY <3>1, NodeParts
  <2>3. After(o, nodes, k + 1) = Pass(After(o, nodes, k), nodes[k + 1])
    BY <2>1, AfterNext
  <2>4. Pass(After(o, nodes, k), nodes[k + 1]).at \in Nat
    BY <2>1, <2>2, Widths DEF Pass
  <2> QED BY <2>3, <2>4
<1> HIDE DEF P
<1>4. P \in SUBSET Nat
  BY DEF P
<1>5. P = Nat
  BY <1>2, <1>3, <1>4, Inductive
<1> QED BY <1>1, <1>5 DEF P

-----------------------------------------------------------------------------
(***************************************************************************)
(* The invariant is kept.                                                  *)
(***************************************************************************)

LEMMA AppendTyped == ASSUME NEW S, NEW s \in Seq(S), NEW x \in S PROVE Append(s, x) \in Seq(S)
OBVIOUS

\* The clocks.
LEMMA Clocks ==
  ASSUME Types
  PROVE  /\ clk \in Nat /\ clk <= MaxClk /\ ~(Unset <= clk) /\ Unset > clk
         /\ joystick_alarm \in Nat /\ joystick_alarm \in 0 .. ClockMod /\ Unset \in 0 .. ClockMod
         /\ alarm \in Nat /\ alarm \in 0 .. ClockMod
         /\ next_timestamp_clk \in Nat /\ milestone_timestamp_alarm \in Nat
         /\ start_file.clk \in Nat /\ end_file.clk \in Nat
<1>1. /\ clk \in Nat /\ clk <= MaxClk
      /\ joystick_alarm \in Nat /\ joystick_alarm \in 0 .. ClockMod
      /\ alarm \in Nat /\ alarm \in 0 .. ClockMod
      /\ next_timestamp_clk \in Nat /\ milestone_timestamp_alarm \in Nat
  BY Widths DEF Types
<1>2. start_file.clk \in Nat /\ end_file.clk \in Nat
  BY Widths DEF Types, Files
<1>3. ~(Unset <= clk) /\ Unset > clk /\ Unset \in 0 .. ClockMod
  BY <1>1, Widths
<1> QED BY <1>1, <1>2, <1>3

\* end.vsf and start.vsf are left alone.
LEMMA EndFrame ==
  ASSUME EndInv, UNCHANGED <<start_file, end_file, sessions>>
  PROVE  EndInv'
BY DEF EndInv, Known

\* Nothing that SyncInv is about changes.
LEMMA SyncFrame ==
  ASSUME SyncInv, UNCHANGED <<list, cur, sid, start_file, machine, clk, reset>>,
         record_active' => record_active, Taking' => Taking \/ record_active',
         playback_reset_ack' = playback_reset_ack, reset = "none"
  PROVE  SyncInv'
BY DEF SyncInv, Known, Here

LEMMA SyncIdle ==
  ASSUME ~record_active', ~Taking'
  PROVE  SyncInv'
BY DEF SyncInv

LEMMA TrackIdle ==
  ASSUME ~playback_active'
  PROVE  TrackInv'
BY DEF TrackInv

\* What every list is.
LEMMA ListTyped ==
  ASSUME Types, ListInv, list # <<>>
  PROVE  /\ list \in Seq(TypedNodes) /\ Len(list) \in Nat
         /\ cur \in 1 .. Len(list) /\ cur \in Nat
         /\ list[cur] \in TypedNodes /\ list[Len(list)].type = "LIST_END"
<1>1. /\ list \in Seq(TypedNodes) /\ Len(list) \in Nat /\ cur \in 1 .. Len(list)
  BY DEF Types, ListInv
<1>2. list[cur] \in TypedNodes /\ cur \in Nat
  BY <1>1
<1>3. CASE Shape(list)
  BY <1>1, <1>2, <1>3 DEF Shape
<1>4. CASE list = <<TailNode>>
  <2>1. Len(list) = 1 /\ list[1] = TailNode
    BY <1>4
  <2> QED BY <1>1, <1>2, <2>1, TailTyped
<1> QED BY <1>3, <1>4 DEF ListInv

\* The parts of a list that is recorded or played.
LEMMA ListParts ==
  ASSUME Types, ListInv, list # <<>>, record_active \/ Taking
  PROVE  /\ list \in Seq(TypedNodes) /\ Shape(list) /\ Len(list) \in Nat /\ Len(list) >= 2
         /\ cur \in 1 .. Len(list) /\ cur \in Nat
         /\ list[cur] \in TypedNodes /\ list[1].type = "INITIAL"
         /\ list[Len(list)].type = "LIST_END"
<1>1. Shape(list)
  BY DEF ListInv
<1> QED BY <1>1, ListTyped DEF Shape

\* Where a list starts is typed.
LEMMA HereClock ==
  ASSUME Types, ListInv, list # <<>>
  PROVE  Here.at \in Nat
<1>1. /\ list \in Seq(TypedNodes) /\ Len(list) \in Nat /\ cur \in 1 .. Len(list)
  BY ListTyped
<1>2. cur - 1 \in 0 .. Len(list)
  BY <1>1
<1>3. start_file.clk \in Nat
  BY Widths DEF Types, Files
<1>4. Origin(list[1], start_file).at \in Nat
  BY <1>3, Widths DEF Origin
<1> QED BY <1>1, <1>2, <1>4, CourseClock DEF Here

\* Where no LIST_END was recorded.
LEMMA NotStopped ==
  ASSUME record_active, ListInv, ~StopAsked
  PROVE  NoEndBefore(list, Len(list))
BY DEF ListInv, StopAsked, NoEndBefore

LEMMA NoneUntil ==
  ASSUME NoEndBefore(list', cur')
  PROVE  ~StopAsked'
BY DEF StopAsked, NoEndBefore

LEMMA InstructionKeeps == HistoryInv /\ Instruction => HistoryInv'
<1> SUFFICES ASSUME HistoryInv, Instruction PROVE HistoryInv'
  OBVIOUS
<1>1. /\ Types /\ ControlInv /\ ListInv /\ AlarmInv /\ StampInv /\ EndInv /\ SyncInv /\ TrackInv
  BY DEF HistoryInv
<1>2. /\ trap = "none" /\ reset = "none" /\ alarm > clk /\ ~in_interrupt
      /\ clk' = clk + Cycles /\ clk' <= MaxClk /\ clk \in Nat /\ machine \in Seq(Inputs)
      /\ alarm \in Nat
  BY <1>1, Widths DEF Instruction, AlarmDue, Types
<1>3. UNCHANGED <<machine, reset, joystick_alarm, in_interrupt, list, cur, sid, sessions,
                  record_active, playback_active, playback_reset_ack, alarm,
                  next_timestamp_clk, odd, milestone_timestamp_alarm, start_file, end_file,
                  faults, trap>>
  BY DEF Instruction, listVars, modeVars, stampVars, savedVars, fileVars, uiVars
<1>4. Cycles = 1 + ((clk + Len(machine)) % 2) /\ Cycles \in {1, 2}
  <2>1. Len(machine) \in Nat
    BY <1>2
  <2>2. (clk + Len(machine)) % 2 \in {0, 1}
    BY <1>2, <2>1
  <2> QED BY <2>2 DEF Cycles
<1>5. Types'
  BY <1>1, <1>2, <1>3, <1>4 DEF Types
<1>6. ControlInv'
  BY <1>1, <1>2, <1>3 DEF ControlInv, Idle
<1>7. ListInv'
  BY <1>1, <1>3 DEF ListInv, Taking, StopAsked
<1>8. AlarmInv'
  BY <1>1, <1>3 DEF AlarmInv, Idle
<1>9. StampInv'
  <2>1. next_timestamp_clk \in Nat
    BY <1>1, Widths DEF Types
  <2> QED BY <1>1, <1>2, <1>3, <1>4, <2>1, Widths DEF StampInv, StopAsked
<1>10. EndInv'
  BY <1>1, <1>3, EndFrame
<1>11. SyncInv'
  <2> SUFFICES ASSUME record_active \/ Taking, Known(list, sid)
               PROVE  Arrives(Here, machine, clk')
    BY <1>2, <1>3 DEF SyncInv, Known, Here, Taking
  <2>1. Arrives(Here, machine, clk)
    BY <1>1, <1>2 DEF SyncInv
  <2>2. list # <<>>
    BY <1>1 DEF ListInv
  <2>3. Here.at \in Nat
    BY <1>1, <2>2, HereClock
  <2>4. Reach(Here.at, machine, clk) /\ Here.missed = 0 /\ machine = Here.m
    BY <2>1 DEF Arrives
  <2>5. Reach(Here.at, machine, clk + (1 + ((clk + Len(machine)) % 2)))
    BY <1>2, <2>3, <2>4, ReachStep
  <2> QED BY <1>2, <1>4, <2>4, <2>5 DEF Arrives
<1>12. TrackInv'
  <2> SUFFICES ASSUME playback_active, Known(list, sid)
               PROVE  /\ Arrives(AtEnd, end_file.machine, end_file.clk)
                      /\ Heading(list, cur, clk', machine, end_file.clk)
    BY <1>2, <1>3 DEF TrackInv, Known, AtEnd
  <2>1. /\ Arrives(AtEnd, end_file.machine, end_file.clk)
        /\ Heading(list, cur, clk, machine, end_file.clk)
    BY <1>1, <1>2 DEF TrackInv
  <2>2. list # <<>> /\ StampsBefore(list)
    BY <1>1 DEF ListInv, Taking
  <2>3. list \in Seq(TypedNodes) /\ cur \in 1 .. Len(list)
    BY <1>1, <2>2, ListTyped
  <2>4. list[cur].clk > clk /\ end_file.clk \in Nat
    <3>1. alarm = list[cur].clk
      BY <1>1, <1>2 DEF AlarmInv
    <3> QED BY <1>1, <1>2, <3>1, Clocks
  <2> QED BY <1>2, <1>4, <2>1, <2>2, <2>3, <2>4, HeadingStep
<1> QED BY <1>5, <1>6, <1>7, <1>8, <1>9, <1>10, <1>11, <1>12 DEF HistoryInv

\* The machine and the list stay where they are.
LEMMA TrackFrame ==
  ASSUME TrackInv, UNCHANGED <<list, cur, sid, start_file, end_file, machine, clk, reset>>,
         playback_active' => playback_active
  PROVE  TrackInv'
BY DEF TrackInv, Known, AtEnd

\* Where no slip is made, the user acts when no reset is pending, and gives a
\* command when no trap is.
LEMMA CarefulUser ==
  ASSUME Careful, NEW kinds
  PROVE  /\ UserActs(kinds) => kinds = {} /\ reset = "none" /\ ~in_interrupt
         /\ Command(kinds) => kinds = {} /\ reset = "none" /\ ~in_interrupt /\ trap = "none"
<1>1. ASSUME NEW k, UserActs(k)
      PROVE  k = {} /\ reset = "none" /\ ~in_interrupt
  <2>1. k \cup When(reset # "none", "resetting") = {} /\ ~in_interrupt
    BY <1>1 DEF Careful, Regular, UserActs, Slip
  <2>2. k = {} /\ When(reset # "none", "resetting") = {}
    BY <2>1
  <2> QED BY <2>1, <2>2 DEF When
<1>2. ASSUME Command(kinds)
      PROVE  kinds = {} /\ reset = "none" /\ ~in_interrupt /\ trap = "none"
  <2>1. UserActs(kinds \cup When(trap # "none", "commanding"))
    BY <1>2 DEF Command
  <2>2. /\ kinds \cup When(trap # "none", "commanding") = {}
        /\ reset = "none" /\ ~in_interrupt
    BY <1>1, <2>1
  <2>3. kinds = {} /\ When(trap # "none", "commanding") = {}
    BY <2>2
  <2> QED BY <2>2, <2>3 DEF When
<1> QED BY <1>1, <1>2

LEMMA JoystickSetKeeps == Careful /\ HistoryInv /\ joystick_set_value => HistoryInv'
<1> SUFFICES ASSUME Careful, HistoryInv, joystick_set_value PROVE HistoryInv'
  OBVIOUS
<1>1. /\ Types /\ ControlInv /\ ListInv /\ AlarmInv /\ StampInv /\ EndInv /\ SyncInv /\ TrackInv
  BY DEF HistoryInv
<1>2. /\ reset = "none" /\ ~in_interrupt /\ ~playback_active /\ ~StopAsked /\ trap # "play"
      /\ joystick_alarm' = clk + 1
  <2>1. UserActs(When(StopAsked, "stopping") \cup When(trap = "play", "late_input"))
    BY DEF joystick_set_value
  <2>2. /\ When(StopAsked, "stopping") \cup When(trap = "play", "late_input") = {}
        /\ reset = "none" /\ ~in_interrupt
    BY <2>1, CarefulUser
  <2>3. ~StopAsked /\ trap # "play"
    BY <2>2 DEF When
  <2> QED BY <2>2, <2>3 DEF joystick_set_value
<1>3. UNCHANGED <<clk, machine, reset, in_interrupt, list, cur, sid, sessions,
                  record_active, playback_active, playback_reset_ack, alarm,
                  next_timestamp_clk, odd, milestone_timestamp_alarm, start_file, end_file,
                  faults, trap>>
  BY DEF joystick_set_value, listVars, modeVars, stampVars, savedVars, fileVars
<1>4. Types'
  <2>1. clk + 1 \in 0 .. ClockMod
    BY <1>1, Widths DEF Types
  <2> QED BY <1>1, <1>2, <1>3, <2>1 DEF Types
<1>5. ControlInv'
  <2>1. clk + 1 > clk
    BY <1>1, Widths DEF Types
  <2> QED BY <1>1, <1>2, <1>3, <2>1 DEF ControlInv, Idle
<1>6. ListInv'
  BY <1>1, <1>2, <1>3 DEF ListInv, Taking, StopAsked
<1>7. AlarmInv'
  BY <1>1, <1>3 DEF AlarmInv, Idle
<1>8. StampInv'
  BY <1>1, <1>3 DEF StampInv, StopAsked
<1>9. EndInv'
  BY <1>1, <1>3, EndFrame
<1>10. SyncInv'
  BY <1>1, <1>2, <1>3, SyncFrame DEF Taking
<1>11. TrackInv'
  BY <1>2, <1>3, TrackIdle
<1> QED BY <1>4, <1>5, <1>6, <1>7, <1>8, <1>9, <1>10, <1>11 DEF HistoryInv

LEMMA PlaybackStartKeeps == Careful /\ HistoryInv /\ event_playback_start => HistoryInv'
<1> SUFFICES ASSUME Careful, HistoryInv, event_playback_start PROVE HistoryInv'
  OBVIOUS
<1>1. /\ Types /\ ControlInv /\ ListInv /\ AlarmInv /\ StampInv /\ EndInv /\ SyncInv /\ TrackInv
  BY DEF HistoryInv
<1>2. /\ reset = "none" /\ ~in_interrupt /\ trap = "none" /\ Idle /\ joystick_alarm = Unset
      /\ trap' = "play"
  <2>1. Command(When(joystick_alarm # Unset, "late_input"))
    BY DEF event_playback_start
  <2>2. /\ When(joystick_alarm # Unset, "late_input") = {}
        /\ reset = "none" /\ ~in_interrupt /\ trap = "none"
    BY <2>1, CarefulUser
  <2>3. joystick_alarm = Unset
    BY <2>2 DEF When
  <2> QED BY <2>2, <2>3 DEF event_playback_start, Ask, Idle
<1>3. UNCHANGED <<clk, machine, reset, in_interrupt, list, cur, sid, sessions,
                  record_active, playback_active, playback_reset_ack, alarm,
                  next_timestamp_clk, odd, milestone_timestamp_alarm, start_file, end_file,
                  faults, joystick_alarm>>
  BY DEF event_playback_start, cpuVars, listVars, modeVars, stampVars, savedVars, fileVars
<1>4. Types'
  BY <1>1, <1>2, <1>3 DEF Types
<1>5. ControlInv'
  BY <1>1, <1>2, <1>3 DEF ControlInv, Idle
<1>6. ListInv'
  BY <1>1, <1>2, <1>3 DEF ListInv, Taking, StopAsked, Idle
<1>7. AlarmInv'
  BY <1>1, <1>3 DEF AlarmInv, Idle
<1>8. StampInv'
  BY <1>1, <1>3 DEF StampInv, StopAsked
<1>9. EndInv'
  BY <1>1, <1>3, EndFrame
<1>10. SyncInv'
  BY <1>2, <1>3, SyncIdle DEF Taking, Idle
<1>11. TrackInv'
  BY <1>2, <1>3, TrackIdle DEF Idle
<1> QED BY <1>4, <1>5, <1>6, <1>7, <1>8, <1>9, <1>10, <1>11 DEF HistoryInv

LEMMA MilestoneAskedKeeps ==
  Careful /\ HistoryInv /\ (event_record_set_milestone \/ event_record_reset_milestone)
    => HistoryInv'
<1> SUFFICES ASSUME Careful, HistoryInv,
                    event_record_set_milestone \/ event_record_reset_milestone
             PROVE  HistoryInv'
  OBVIOUS
<1>1. /\ Types /\ ControlInv /\ ListInv /\ AlarmInv /\ StampInv /\ EndInv /\ SyncInv /\ TrackInv
  BY DEF HistoryInv
<1>2. /\ reset = "none" /\ ~in_interrupt /\ trap = "none" /\ record_active
      /\ trap' \in {"set", "return"}
  <2>1. Command({})
    BY DEF event_record_set_milestone, event_record_reset_milestone
  <2>2. reset = "none" /\ ~in_interrupt /\ trap = "none"
    BY <2>1, CarefulUser
  <2> QED BY <2>2 DEF event_record_set_milestone, event_record_reset_milestone, Ask
<1>3. UNCHANGED <<clk, machine, reset, in_interrupt, list, cur, sid, sessions,
                  record_active, playback_active, playback_reset_ack, alarm,
                  next_timestamp_clk, odd, milestone_timestamp_alarm, start_file, end_file,
                  faults, joystick_alarm>>
  BY DEF event_record_set_milestone, event_record_reset_milestone, cpuVars, listVars,
         modeVars, stampVars, savedVars, fileVars
<1>4. ~playback_active
  BY <1>1, <1>2 DEF ControlInv
<1>5. Types'
  BY <1>1, <1>2, <1>3 DEF Types
<1>6. ControlInv'
  BY <1>1, <1>2, <1>3 DEF ControlInv, Idle, Modes
<1>7. ListInv'
  BY <1>1, <1>2, <1>3 DEF ListInv, Taking, StopAsked
<1>8. AlarmInv'
  BY <1>1, <1>3 DEF AlarmInv, Idle
<1>9. StampInv'
  BY <1>1, <1>3 DEF StampInv, StopAsked
<1>10. EndInv'
  BY <1>1, <1>3, EndFrame
<1>11. SyncInv'
  BY <1>1, <1>2, <1>3, <1>4, SyncFrame DEF Taking
<1>12. TrackInv'
  BY <1>3, <1>4, TrackIdle
<1> QED BY <1>5, <1>6, <1>7, <1>8, <1>9, <1>10, <1>11, <1>12 DEF HistoryInv

LEMMA PlaybackStopKeeps == Careful /\ HistoryInv /\ event_playback_stop => HistoryInv'
<1> SUFFICES ASSUME Careful, HistoryInv, event_playback_stop PROVE HistoryInv'
  OBVIOUS
<1>1. /\ Types /\ ControlInv /\ ListInv /\ AlarmInv /\ StampInv /\ EndInv /\ SyncInv /\ TrackInv
  BY DEF HistoryInv
<1>2. /\ reset = "none" /\ ~in_interrupt /\ trap = "none" /\ playback_active
      /\ list[cur].type # "RESETCPU" /\ ~playback_active' /\ playback_active' \in BOOLEAN
      /\ alarm' = Unset
  <2>1. Command(When(list[cur].type = "RESETCPU", "stopping_at_reset"))
    BY DEF event_playback_stop
  <2>2. /\ When(list[cur].type = "RESETCPU", "stopping_at_reset") = {}
        /\ reset = "none" /\ ~in_interrupt /\ trap = "none"
    BY <2>1, CarefulUser
  <2>3. list[cur].type # "RESETCPU"
    BY <2>2 DEF When
  <2> QED BY <2>2, <2>3 DEF event_playback_stop
<1>3. UNCHANGED <<clk, machine, reset, in_interrupt, list, cur, sid, sessions,
                  record_active, playback_reset_ack, next_timestamp_clk, odd,
                  milestone_timestamp_alarm, start_file, end_file, faults, joystick_alarm,
                  trap>>
  BY DEF event_playback_stop, cpuVars, listVars, stampVars, savedVars, fileVars
<1>4. ~record_active /\ ~playback_reset_ack
  BY <1>1, <1>2 DEF ControlInv
<1>5. Types'
  BY <1>1, <1>2, <1>3, Widths DEF Types
<1>6. ControlInv'
  BY <1>1, <1>2, <1>3, <1>4 DEF ControlInv, Idle, Modes
<1>7. ListInv'
  BY <1>1, <1>2, <1>3, <1>4 DEF ListInv, Taking, StopAsked
<1>8. AlarmInv'
  BY <1>1, <1>2, <1>3 DEF AlarmInv, Idle
<1>9. StampInv'
  BY <1>1, <1>3, <1>4 DEF StampInv
<1>10. EndInv'
  BY <1>1, <1>3, EndFrame
<1>11. SyncInv'
  BY <1>2, <1>3, <1>4, SyncIdle DEF Taking
<1>12. TrackInv'
  BY <1>2, TrackIdle
<1> QED BY <1>5, <1>6, <1>7, <1>8, <1>9, <1>10, <1>11, <1>12 DEF HistoryInv

LEMMA RecordAskedKeeps ==
  ASSUME NEW mode \in Modes
  PROVE  Careful /\ HistoryInv /\ event_record_start(mode) => HistoryInv'
<1> SUFFICES ASSUME Careful, HistoryInv, event_record_start(mode) PROVE HistoryInv'
  OBVIOUS
<1>1. /\ Types /\ ControlInv /\ ListInv /\ AlarmInv /\ StampInv /\ EndInv /\ SyncInv /\ TrackInv
  BY DEF HistoryInv
<1>2. /\ reset = "none" /\ ~in_interrupt /\ trap = "none"
      /\ ~(mode # "PLAYBACK" /\ playback_active)
  <2>1. Command(When(mode # "PLAYBACK" /\ playback_active, "recording_in_playback"))
    BY DEF event_record_start
  <2>2. /\ When(mode # "PLAYBACK" /\ playback_active, "recording_in_playback") = {}
        /\ reset = "none" /\ ~in_interrupt /\ trap = "none"
    BY <2>1, CarefulUser
  <2>3. ~(mode # "PLAYBACK" /\ playback_active)
    BY <2>2 DEF When
  <2> QED BY <2>2, <2>3
<1>3. UNCHANGED <<clk, machine, reset, in_interrupt, list, cur, sid, sessions,
                  record_active, playback_reset_ack, next_timestamp_clk, odd,
                  milestone_timestamp_alarm, start_file, end_file, faults, joystick_alarm>>
  BY DEF event_record_start, cpuVars, listVars, stampVars, savedVars, fileVars
<1>4. EndInv'
  BY <1>1, <1>3, EndFrame
<1>5. CASE mode = "PLAYBACK"
  <2>1. /\ playback_active /\ ~playback_active' /\ playback_active' \in BOOLEAN
        /\ alarm' = Unset
    BY <1>5 DEF event_record_start
  <2>2. ~record_active /\ ~playback_reset_ack /\ joystick_alarm = Unset
    BY <1>1, <1>2, <2>1 DEF ControlInv
  <2>3. trap' = "PLAYBACK"
    BY <1>2, <1>5, <2>2 DEF event_record_start, Ask
  <2>4. Types'
    BY <1>1, <1>3, <2>1, <2>3, Widths DEF Types, Modes
  <2>5. ControlInv'
    <3>1. joystick_alarm > clk
      BY <1>1, <2>2, Widths DEF Types
    <3> QED BY <1>1, <1>2, <1>3, <2>1, <2>2, <2>3, <3>1 DEF ControlInv, Idle, Modes
  <2>6. ListInv'
    BY <1>1, <1>3, <2>1, <2>2, <2>3 DEF ListInv, Taking, StopAsked
  <2>7. AlarmInv'
    BY <1>1, <1>3, <2>1 DEF AlarmInv
  <2>8. StampInv'
    BY <1>3, <2>2 DEF StampInv
  <2>9. SyncInv'
    <3>1. Taking
      BY <2>1 DEF Taking
    <3> QED BY <1>1, <1>2, <1>3, <2>2, <3>1, SyncFrame
  <2>10. TrackInv'
    BY <2>1, TrackIdle
  <2> QED BY <1>4, <2>4, <2>5, <2>6, <2>7, <2>8, <2>9, <2>10 DEF HistoryInv
<1>6. CASE mode # "PLAYBACK"
  <2>1. /\ Idle /\ playback_active' = playback_active /\ alarm' = alarm /\ trap' = mode
    BY <1>1, <1>2, <1>6 DEF event_record_start, Ask, Idle, Types
  <2>2. Types'
    BY <1>1, <1>3, <2>1 DEF Types
  <2>3. ControlInv'
    BY <1>1, <1>2, <1>3, <1>6, <2>1 DEF ControlInv, Idle, Modes
  <2>4. ListInv'
    BY <1>1, <1>2, <1>3, <1>6, <2>1 DEF ListInv, Taking, StopAsked, Idle
  <2>5. AlarmInv'
    BY <1>1, <1>3, <2>1 DEF AlarmInv, Idle
  <2>6. StampInv'
    BY <1>3, <2>1 DEF StampInv, Idle
  <2>7. SyncInv'
    BY <1>3, <1>6, <2>1, SyncIdle DEF Taking, Idle
  <2>8. TrackInv'
    BY <2>1, TrackIdle DEF Idle
  <2> QED BY <1>4, <2>2, <2>3, <2>4, <2>5, <2>6, <2>7, <2>8 DEF HistoryInv
<1> QED BY <1>5, <1>6

LEMMA TimestampKeeps == HistoryInv /\ RecordTimestamp => HistoryInv'
<1> SUFFICES ASSUME HistoryInv, RecordTimestamp PROVE HistoryInv'
  OBVIOUS
<1>1. /\ Types /\ ControlInv /\ ListInv /\ AlarmInv /\ StampInv /\ EndInv /\ SyncInv /\ TrackInv
  BY DEF HistoryInv
<1>2. /\ ~in_interrupt /\ alarm <= clk /\ record_active
      /\ next_timestamp_clk' = (next_timestamp_clk + Second) % ClockMod
      /\ alarm' = next_timestamp_clk'
  BY DEF RecordTimestamp, AlarmDue
<1>3. UNCHANGED <<clk, machine, reset, in_interrupt, list, cur, sid, sessions,
                  record_active, playback_active, playback_reset_ack, odd,
                  milestone_timestamp_alarm, start_file, end_file, faults, joystick_alarm,
                  trap>>
  BY DEF RecordTimestamp, cpuVars, listVars, modeVars, savedVars, fileVars, uiVars
<1>4. /\ clk \in Nat /\ clk <= MaxClk /\ alarm \in Nat /\ next_timestamp_clk \in Nat
      /\ next_timestamp_clk + Second \in Int
  BY <1>1, Widths DEF Types
<1>5. alarm # Unset /\ ~playback_active
  BY <1>1, <1>2, <1>4, Widths DEF ControlInv
<1>6. next_timestamp_clk' \in 0 .. ClockMod - 1
  BY <1>2, <1>4, ClockRange
<1>7. Types'
  BY <1>1, <1>2, <1>3, <1>6, Widths DEF Types
<1>8. ControlInv'
  BY <1>1, <1>3, <1>5 DEF ControlInv, Idle
<1>9. ListInv'
  BY <1>1, <1>3 DEF ListInv, Taking, StopAsked
<1>10. AlarmInv'
  BY <1>1, <1>2, <1>3, <1>5 DEF AlarmInv, Idle
<1>11. StampInv'
  <2>1. ASSUME ~StopAsked, ~odd
        PROVE  /\ reset = "none"
               /\ next_timestamp_clk' = next_timestamp_clk + Second
               /\ clk <= next_timestamp_clk + ResetCycles /\ next_timestamp_clk <= clk
    <3>1. reset = "none"
      BY <1>1, <1>2, <1>4, <2>1 DEF StampInv
    <3>2. alarm = next_timestamp_clk /\ clk <= next_timestamp_clk + ResetCycles
      BY <1>1, <1>2, <2>1, <3>1 DEF StampInv
    <3>3. next_timestamp_clk + Second \in Nat /\ next_timestamp_clk + Second < ClockMod
      BY <1>2, <1>4, <3>2, Widths
    <3> QED BY <1>2, <3>1, <3>2, <3>3, SmallClock
  <2>2. StopAsked' <=> StopAsked
    BY <1>3 DEF StopAsked
  <2>3. record_active' /\ ~StopAsked' /\ ~odd' =>
          /\ reset' = "none" /\ alarm' = next_timestamp_clk'
          /\ clk' <= next_timestamp_clk' + ResetCycles
          /\ next_timestamp_clk' <= clk' + Second
    BY <1>2, <1>3, <1>4, <2>1, <2>2, Widths
  <2> QED BY <1>1, <1>3, <2>3 DEF StampInv
<1>12. EndInv'
  BY <1>1, <1>3, EndFrame
<1>13. SyncInv'
  BY <1>1, <1>3 DEF SyncInv, Known, Here, Taking, WhenReset
<1>14. TrackInv'
  BY <1>3, <1>5, TrackIdle
<1> QED BY <1>7, <1>8, <1>9, <1>10, <1>11, <1>12, <1>13, <1>14 DEF HistoryInv

\* What recording an event does.
LEMMA EventRecorded ==
  ASSUME Types, ListInv, record_active, NEW type \in NodeTypes, type # "INITIAL",
         NEW data \in NodeData, type = "RESETCPU" => data \in {"soft", "hard"},
         type = "LIST_END" \/ ~StopAsked, event_record_in_list(type, data),
         start_file' = start_file
  PROVE  /\ list # <<>> /\ list' # <<>> /\ list' \in Seq(TypedNodes) /\ Shape(list')
         /\ cur' = Len(list') /\ cur' \in Nat /\ cur' >= 2 /\ list'[1] = list[1]
         /\ list'[cur'].type = "LIST_END"
         /\ type # "LIST_END" => NoEndBefore(list', cur')
         /\ type = "LIST_END" => \E i \in 1 .. cur' - 1 : list'[i].type = "LIST_END"
         /\ Here' = Pass(Here, Node(type, clk, data))
<1> DEFINE node == Node(type, clk, data)
           n == Len(list)
<1>1. list # <<>>
  BY DEF ListInv
<1>2. /\ list \in Seq(TypedNodes) /\ Shape(list) /\ n \in Nat /\ n >= 2
  BY <1>1, ListParts
<1>3. cur = n
  BY <1>1 DEF ListInv
<1>4. node \in TypedNodes /\ node.type = type
  <2>1. clk \in 0 .. MaxClk
    BY DEF Types
  <2> QED BY <2>1, NodeTyped
<1>5. /\ list' = SubSeq(list, 1, n - 1) \o <<node, TailNode>> /\ cur' = n + 1
  BY <1>3 DEF event_record_in_list
<1>6. type = "LIST_END" \/ NoEndBefore(list, n)
  BY NotStopped
<1> HIDE DEF node
<1>7. Extends(list', list, node)
  BY <1>2, <1>4, <1>5, <1>6, Recorded
<1>8. /\ list' \in Seq(TypedNodes) /\ Shape(list') /\ Len(list') = n + 1
      /\ \A i \in 1 .. n - 1 : list'[i] = list[i]
      /\ list'[n] = node /\ list'[n + 1].type = "LIST_END"
  BY <1>7 DEF Extends
<1> DEFINE o == Origin(list[1], start_file)
<1>9. list'[1] = list[1] /\ After(o, list', n) = Pass(After(o, list, n - 1), node)
  BY <1>2, <1>7, AfterExtended
<1>10. Here' = Pass(Here, node)
  <2>1. cur' - 1 = n
    BY <1>2, <1>5
  <2>2. Here' = After(Origin(list'[1], start_file'), list', cur' - 1)
    BY DEF Here
  <2>3. Here = After(o, list, n - 1)
    BY <1>3 DEF Here
  <2> QED BY <1>9, <2>1, <2>2, <2>3
<1> HIDE DEF o, n
<1>11. list' # <<>>
  <2>1. Len(list') # 0 /\ Len(<<>>) = 0
    BY <1>2, <1>8
  <2> QED BY <2>1
<1>12. ASSUME type # "LIST_END" PROVE NoEndBefore(list', cur')
  <2> SUFFICES ASSUME NEW i \in 1 .. n PROVE list'[i].type # "LIST_END"
    BY <1>2, <1>5 DEF NoEndBefore
  <2>1. CASE i = n
    BY <1>4, <1>8, <1>12, <2>1
  <2>2. CASE i # n
    <3>1. i \in 1 .. n - 1
      BY <1>2, <2>2
    <3> QED BY <1>6, <1>8, <1>12, <3>1 DEF NoEndBefore
  <2> QED BY <2>1, <2>2
<1>13. ASSUME type = "LIST_END" PROVE \E i \in 1 .. cur' - 1 : list'[i].type = "LIST_END"
  <2>1. n \in 1 .. cur' - 1 /\ list'[n].type = "LIST_END"
    BY <1>2, <1>4, <1>5, <1>8, <1>13
  <2> QED BY <2>1
<1>14. cur' = Len(list') /\ cur' \in Nat /\ cur' >= 2 /\ list'[cur'].type = "LIST_END"
  BY <1>2, <1>5, <1>8
<1> QED BY <1>1, <1>8, <1>9, <1>10, <1>11, <1>12, <1>13, <1>14 DEF node

\* ListInv while recording.
LEMMA ListRecorded ==
  ASSUME record_active', list' # <<>>, Shape(list'), cur' = Len(list'), cur' \in Nat,
         list'[cur'].type = "LIST_END", sid' \in 1 .. sessions', ~Taking',
         ~playback_reset_ack',
         StopAsked' => joystick_alarm' = Unset /\ (odd' \/ trap' = "stop")
  PROVE  ListInv'
<1>1. cur' \in 1 .. Len(list')
  BY DEF Shape
<1>2. list'[cur'].type # "RESETCPU"
  OBVIOUS
<1> QED BY <1>1, <1>2 DEF ListInv

\* An input is recorded and fed to the machine.
LEMMA InputKeeps ==
  ASSUME HistoryInv, NEW type \in {"ATTACHIMAGE", "JOYSTICK_VALUE"}, NEW input,
         input = (IF type = "ATTACHIMAGE" THEN "attach" ELSE "joystick"),
         Feed(input), event_record(type, ""), ~playback_active, trap # "PLAYBACK",
         reset = "none", ~StopAsked,
         joystick_alarm' \in {joystick_alarm, Unset},
         UNCHANGED <<clk, reset, in_interrupt, sid, sessions, record_active,
                     playback_active, playback_reset_ack, alarm, next_timestamp_clk, odd,
                     milestone_timestamp_alarm, start_file, end_file, faults, trap>>
  PROVE  HistoryInv'
<1>1. /\ Types /\ ControlInv /\ ListInv /\ AlarmInv /\ StampInv /\ EndInv /\ SyncInv /\ TrackInv
  BY DEF HistoryInv
<1>2. ~Taking /\ ~Taking' /\ ~playback_reset_ack 
  BY <1>1 DEF Taking, ControlInv
<1>3. machine' = Append(machine, <<clk, input>>) /\ machine' \in Seq(Inputs)
  <2>1. machine' = Append(machine, <<clk, input>>)
    BY DEF Feed
  <2>2. input \in {"attach", "joystick", "reset", "broken"}
    OBVIOUS
  <2> DEFINE x == <<clk, input>>
  <2>3. x \in Inputs
    BY <1>1, <2>2, Clocks DEF Inputs
  <2>4. machine \in Seq(Inputs)
    BY <1>1 DEF Types
  <2> HIDE DEF x
  <2>5. Append(machine, x) \in Seq(Inputs)
    BY <2>3, <2>4, AppendTyped
  <2> QED BY <2>1, <2>5 DEF x
<1>4. ControlInv'
  <2>1. joystick_alarm' > clk \/ joystick_alarm' = joystick_alarm
    BY <1>1, Clocks
  <2> QED BY <1>1, <2>1 DEF ControlInv, Idle
<1>5. EndInv'
  BY <1>1, EndFrame
<1>6. TrackInv'
  BY TrackIdle
<1>7. joystick_alarm' \in 0 .. ClockMod
  BY <1>1, Clocks
<1>8. CASE ~record_active
  <2>1. UNCHANGED <<list, cur>>
    BY <1>8 DEF event_record
  <2>2. Types'
    BY <1>1, <1>3, <1>7, <2>1 DEF Types
  <2>3. ListInv'
    BY <1>1, <1>8, <2>1 DEF ListInv, Taking, StopAsked
  <2>4. AlarmInv'
    BY <1>1, <2>1 DEF AlarmInv, Idle
  <2>5. StampInv'
    BY <1>8 DEF StampInv
  <2>6. SyncInv'
    BY <1>2, <1>8, SyncIdle
  <2> QED BY <1>4, <1>5, <1>6, <2>2, <2>3, <2>4, <2>5, <2>6 DEF HistoryInv
<1>9. CASE record_active
  <2> DEFINE node == Node(type, clk, "")
  <2>1. event_record_in_list(type, "")
    BY <1>9 DEF event_record
  <2>2. type \in NodeTypes /\ "" \in NodeData /\ type \in Played
    BY DEF NodeTypes, NodeData, Played
  <2>3. type # "INITIAL" /\ type # "RESETCPU" /\ type # "LIST_END"
    OBVIOUS
  <2>4. /\ list # <<>> /\ list' # <<>> /\ list' \in Seq(TypedNodes) /\ Shape(list')
        /\ cur' = Len(list') /\ cur' \in Nat /\ cur' >= 2 /\ list'[1] = list[1]
        /\ list'[cur'].type = "LIST_END" /\ NoEndBefore(list', cur')
        /\ Here' = Pass(Here, node)
    BY <1>1, <1>9, <2>1, <2>2, <2>3, EventRecorded
  <2>5. node.type = type /\ node.clk = clk
    BY DEF Node
  <2>6. Fed(machine, node) = machine'
    BY <1>3, <2>5 DEF Fed
  <2> HIDE DEF node
  <2>7. Types'
    BY <1>1, <1>3, <1>7, <2>4 DEF Types
  <2>8. ~StopAsked'
    BY <2>4, NoneUntil
  <2>9. sid' \in 1 .. sessions'
    BY <1>1, <2>4 DEF ListInv
  <2>10. ListInv'
    BY <1>2, <1>9, <2>4, <2>8, <2>9, ListRecorded
  <2>11. AlarmInv'
    BY <1>1, <1>9, <2>4 DEF AlarmInv, Idle
  <2>12. StampInv'
    BY <1>1 DEF StampInv
  <2>13. SyncInv'
    <3> SUFFICES ASSUME Known(list, sid) PROVE Arrives(Here', machine', clk)
      BY <1>9, <2>4 DEF SyncInv, Known
    <3>1. Arrives(Here, machine, node.clk)
      BY <1>1, <1>9, <2>5 DEF SyncInv
    <3>2. Arrives(Pass(Here, node), Fed(machine, node),
                  IF node.type = "RESETCPU" THEN ResetCycles ELSE node.clk)
      BY <2>2, <2>5, <3>1, PassArrives
    <3> QED BY <2>3, <2>4, <2>5, <2>6, <3>2
  <2> QED BY <1>4, <1>5, <1>6, <2>7, <2>10, <2>11, <2>12, <2>13 DEF HistoryInv
<1> QED BY <1>8, <1>9

LEMMA AttachKeeps == Careful /\ HistoryInv /\ file_system_attach_disk => HistoryInv'
<1> SUFFICES ASSUME Careful, HistoryInv, file_system_attach_disk PROVE HistoryInv'
  OBVIOUS
<1>1. /\ reset = "none" /\ ~playback_active /\ ~StopAsked /\ trap # "PLAYBACK"
      /\ Feed("attach") /\ event_record("ATTACHIMAGE", "")
  <2>1. UserActs(When(StopAsked, "stopping") \cup When(trap = "PLAYBACK", "taking_over"))
    BY DEF file_system_attach_disk
  <2>2. /\ When(StopAsked, "stopping") \cup When(trap = "PLAYBACK", "taking_over") = {}
        /\ reset = "none" /\ ~in_interrupt
    BY <2>1, CarefulUser
  <2>3. ~StopAsked /\ trap # "PLAYBACK"
    BY <2>2 DEF When
  <2> QED BY <2>2, <2>3 DEF file_system_attach_disk
<1>2. UNCHANGED <<clk, reset, in_interrupt, sid, sessions, record_active,
                  playback_active, playback_reset_ack, alarm, next_timestamp_clk, odd,
                  milestone_timestamp_alarm, start_file, end_file, faults, trap>>
  BY DEF file_system_attach_disk, modeVars, stampVars, savedVars, fileVars
<1>3. joystick_alarm' \in {joystick_alarm, Unset}
  BY DEF file_system_attach_disk
<1>4. "ATTACHIMAGE" \in {"ATTACHIMAGE", "JOYSTICK_VALUE"}
  OBVIOUS
<1>5. "attach" = IF "ATTACHIMAGE" = "ATTACHIMAGE" THEN "attach" ELSE "joystick"
  OBVIOUS
<1> QED BY <1>1, <1>2, <1>3, <1>4, <1>5, InputKeeps

LEMMA LatchKeeps == HistoryInv /\ joystick_latch_handler => HistoryInv'
<1> SUFFICES ASSUME HistoryInv, joystick_latch_handler PROVE HistoryInv'
  OBVIOUS
<1>1. Types /\ ControlInv /\ ListInv
  BY DEF HistoryInv
<1>2. /\ ~in_interrupt /\ Feed("joystick") /\ event_record("JOYSTICK_VALUE", "")
  BY DEF joystick_latch_handler
<1>3. joystick_alarm # Unset /\ ~(joystick_alarm > clk)
  <2>1. joystick_alarm <= clk
    BY DEF joystick_latch_handler, JoystickDue
  <2>2. joystick_alarm \in Nat /\ clk \in Nat /\ ~(Unset <= clk)
    BY <1>1, Clocks
  <2> QED BY <2>1, <2>2
<1>4. ~playback_active /\ trap # "PLAYBACK" /\ reset = "none" /\ ~StopAsked
  BY <1>1, <1>2, <1>3 DEF ControlInv, ListInv
<1>5. UNCHANGED <<clk, reset, in_interrupt, sid, sessions, record_active,
                  playback_active, playback_reset_ack, alarm, next_timestamp_clk, odd,
                  milestone_timestamp_alarm, start_file, end_file, faults, trap>>
  BY DEF joystick_latch_handler, modeVars, stampVars, savedVars, fileVars, uiVars
<1>6. joystick_alarm' \in {joystick_alarm, Unset}
  BY DEF joystick_latch_handler
<1>7. "JOYSTICK_VALUE" \in {"ATTACHIMAGE", "JOYSTICK_VALUE"}
  OBVIOUS
<1>8. "joystick" = IF "JOYSTICK_VALUE" = "ATTACHIMAGE" THEN "attach" ELSE "joystick"
  OBVIOUS
<1> QED BY <1>2, <1>4, <1>5, <1>6, <1>7, <1>8, InputKeeps

LEMMA TriggerResetKeeps ==
  ASSUME NEW mode \in {"soft", "hard"}
  PROVE  Careful /\ HistoryInv /\ machine_trigger_reset(mode) => HistoryInv'
<1> SUFFICES ASSUME Careful, HistoryInv, machine_trigger_reset(mode) PROVE HistoryInv'
  OBVIOUS
<1>1. /\ Types /\ ControlInv /\ ListInv /\ AlarmInv /\ StampInv /\ EndInv /\ SyncInv /\ TrackInv
  BY DEF HistoryInv
<1>2. /\ reset = "none" /\ ~in_interrupt /\ ~playback_active /\ ~StopAsked
      /\ trap = "none" /\ ~JoystickDue /\ reset' = mode /\ RecordReset(mode)
  <2>1. UserActs(When(trap # "none" \/ JoystickDue, "resetting") \cup When(StopAsked, "stopping"))
    BY DEF machine_trigger_reset
  <2>2. /\ When(trap # "none" \/ JoystickDue, "resetting") \cup When(StopAsked, "stopping") = {}
        /\ reset = "none" /\ ~in_interrupt
    BY <2>1, CarefulUser
  <2>3. ~StopAsked /\ trap = "none" /\ ~JoystickDue
    BY <2>2 DEF When
  <2> QED BY <2>2, <2>3 DEF machine_trigger_reset
<1>3. UNCHANGED <<clk, machine, joystick_alarm, in_interrupt, sid, sessions, record_active,
                  playback_active, playback_reset_ack, alarm, milestone_timestamp_alarm,
                  start_file, end_file, faults, trap>>
  BY DEF machine_trigger_reset, modeVars, savedVars, fileVars
<1>4. joystick_alarm > clk
  <2>1. ~(joystick_alarm <= clk)
    BY <1>2 DEF JoystickDue
  <2> QED BY <1>1, <2>1, Clocks
<1>5. /\ clk \in Nat /\ alarm \in Nat /\ next_timestamp_clk \in Nat /\ clk <= MaxClk
      /\ ~playback_reset_ack /\ ~Taking /\ ~Taking'
  BY <1>1, <1>2, <1>3, Clocks DEF ControlInv, Taking
<1>6. ControlInv'
  BY <1>1, <1>2, <1>3, <1>4, <1>5 DEF ControlInv, Idle, Modes
<1>7. EndInv'
  BY <1>1, <1>3, EndFrame
<1>8. TrackInv'
  BY <1>2, <1>3, TrackIdle
<1>9. CASE ~record_active
  <2>1. UNCHANGED <<list, cur, next_timestamp_clk>> /\ odd' = odd
    BY <1>1, <1>2, <1>9 DEF RecordReset, event_record, Types
  <2>2. Types'
    BY <1>1, <1>2, <1>3, <2>1 DEF Types
  <2>3. ListInv'
    BY <1>1, <1>3, <1>5, <1>9, <2>1 DEF ListInv, StopAsked
  <2>4. AlarmInv'
    BY <1>1, <1>2, <1>3, <2>1 DEF AlarmInv, Idle
  <2>5. StampInv'
    BY <1>3, <1>9 DEF StampInv
  <2>6. SyncInv'
    BY <1>3, <1>5, <1>9, SyncIdle
  <2> QED BY <1>6, <1>7, <1>8, <2>2, <2>3, <2>4, <2>5, <2>6 DEF HistoryInv
<1>10. CASE record_active
  <2> DEFINE node == Node("RESETCPU", clk, mode)
  <2>1. /\ event_record_in_list("RESETCPU", mode) /\ odd' = (odd \/ AlarmDue)
        /\ next_timestamp_clk' = (next_timestamp_clk - clk) % ClockMod
    BY <1>2, <1>10 DEF RecordReset, event_record
  <2>2. "RESETCPU" \in NodeTypes /\ mode \in NodeData /\ "RESETCPU" \in Played
    BY DEF NodeTypes, NodeData, Played
  <2>3. "RESETCPU" # "INITIAL" /\ "RESETCPU" # "LIST_END"
    OBVIOUS
  <2>4. /\ list # <<>> /\ list' # <<>> /\ list' \in Seq(TypedNodes) /\ Shape(list')
        /\ cur' = Len(list') /\ cur' \in Nat /\ cur' >= 2 /\ list'[1] = list[1]
        /\ list'[cur'].type = "LIST_END" /\ NoEndBefore(list', cur')
        /\ Here' = Pass(Here, node)
    BY <1>1, <1>2, <1>3, <1>10, <2>1, <2>2, <2>3, EventRecorded
  <2>5. node.type = "RESETCPU" /\ node.clk = clk /\ node.data = mode
    BY DEF Node
  <2>6. Fed(machine, node) = WhenReset'
    BY <1>2, <1>3, <2>5 DEF Fed, WhenReset
  <2> HIDE DEF node
  <2>7. next_timestamp_clk' \in 0 .. ClockMod - 1 /\ odd' \in BOOLEAN
    <3>1. next_timestamp_clk - clk \in Int
      BY <1>5
    <3>2. odd \in BOOLEAN
      BY <1>1 DEF Types
    <3> QED BY <2>1, <3>1, <3>2, ClockRange
  <2>8. Types'
    BY <1>1, <1>2, <1>3, <2>4, <2>7 DEF Types
  <2>9. ~StopAsked'
    BY <2>4, NoneUntil
  <2>10. ListInv'
    <3>1. sid' \in 1 .. sessions'
      BY <1>1, <1>3, <2>4 DEF ListInv
    <3> QED BY <1>3, <1>5, <1>10, <2>4, <2>9, <3>1, ListRecorded
  <2>11. AlarmInv'
    BY <1>1, <1>2, <1>3, <1>10, <2>4 DEF AlarmInv, Idle
  <2>12. StampInv'
    <3>1. ASSUME ~odd' PROVE next_timestamp_clk' <= Second /\ alarm > clk
      <4>1. ~odd /\ ~(alarm <= clk)
        BY <2>1, <3>1 DEF AlarmDue
      <4>2. alarm = next_timestamp_clk /\ next_timestamp_clk <= clk + Second
        BY <1>1, <1>2, <1>10, <4>1 DEF StampInv
      <4>3. alarm > clk
        BY <1>5, <4>1
      <4>4. /\ next_timestamp_clk - clk \in Nat /\ next_timestamp_clk - clk <= Second
            /\ next_timestamp_clk - clk < ClockMod
        BY <1>5, <4>2, <4>3, Widths
      <4>5. next_timestamp_clk' = next_timestamp_clk - clk
        BY <2>1, <4>4, SmallClock
      <4> QED BY <4>3, <4>4, <4>5
    <3>2. odd => odd'
      BY <2>1
    <3>3. reset' # "none"
      BY <1>2
    <3> QED BY <1>1, <1>3, <3>1, <3>2, <3>3 DEF StampInv
  <2>13. SyncInv'
    <3> SUFFICES ASSUME Known(list, sid) PROVE Arrives(Here', WhenReset', ResetCycles)
      BY <1>2, <1>3, <1>10, <2>4 DEF SyncInv, Known
    <3>1. Arrives(Here, machine, node.clk)
      BY <1>1, <1>2, <1>10, <2>5 DEF SyncInv
    <3>2. Arrives(Pass(Here, node), Fed(machine, node),
                  IF node.type = "RESETCPU" THEN ResetCycles ELSE node.clk)
      BY <2>2, <2>5, <3>1, PassArrives
    <3> QED BY <2>4, <2>5, <2>6, <3>2
  <2> QED BY <1>6, <1>7, <1>8, <2>8, <2>10, <2>11, <2>12, <2>13 DEF HistoryInv
<1> QED BY <1>9, <1>10

LEMMA RecordStopKeeps == Careful /\ HistoryInv /\ event_record_stop => HistoryInv'
<1> SUFFICES ASSUME Careful, HistoryInv, event_record_stop PROVE HistoryInv'
  OBVIOUS
<1>1. /\ Types /\ ControlInv /\ ListInv /\ AlarmInv /\ StampInv /\ EndInv /\ SyncInv /\ TrackInv
  BY DEF HistoryInv
<1>2. /\ reset = "none" /\ ~in_interrupt /\ trap = "none" /\ record_active
      /\ joystick_alarm = Unset /\ event_record_in_list("LIST_END", "")
      /\ trap' = "stop" /\ alarm' = Unset
  <2>1. Command(When(joystick_alarm # Unset, "stopping"))
    BY DEF event_record_stop
  <2>2. /\ When(joystick_alarm # Unset, "stopping") = {}
        /\ reset = "none" /\ ~in_interrupt /\ trap = "none"
    BY <2>1, CarefulUser
  <2>3. joystick_alarm = Unset
    BY <2>2 DEF When
  <2> QED BY <2>2, <2>3 DEF event_record_stop, Ask
<1>3. UNCHANGED <<clk, machine, reset, joystick_alarm, in_interrupt, sid, sessions,
                  record_active, playback_active, playback_reset_ack, next_timestamp_clk,
                  odd, milestone_timestamp_alarm, start_file, end_file, faults>>
  BY DEF event_record_stop, cpuVars, modeVars, stampVars, savedVars, fileVars
<1>4. ~playback_active /\ ~playback_reset_ack /\ ~Taking /\ ~Taking'
  BY <1>1, <1>2, <1>3 DEF ControlInv, Taking
<1> DEFINE node == Node("LIST_END", clk, "")
<1>5. "LIST_END" \in NodeTypes /\ "" \in NodeData /\ "LIST_END" \notin Played
  BY DEF NodeTypes, NodeData, Played
<1>6. "LIST_END" # "INITIAL" /\ "LIST_END" # "RESETCPU"
  OBVIOUS
<1>7. /\ list # <<>> /\ list' # <<>> /\ list' \in Seq(TypedNodes) /\ Shape(list')
      /\ cur' = Len(list') /\ cur' \in Nat /\ cur' >= 2 /\ list'[1] = list[1]
      /\ list'[cur'].type = "LIST_END"
      /\ \E i \in 1 .. cur' - 1 : list'[i].type = "LIST_END"
      /\ Here' = Pass(Here, node)
  BY <1>1, <1>2, <1>3, <1>5, <1>6, EventRecorded
<1>8. node.type = "LIST_END"
  BY DEF Node
<1> HIDE DEF node
<1>9. Types'
  BY <1>1, <1>2, <1>3, <1>7, Clocks DEF Types
<1>10. ControlInv'
  BY <1>1, <1>2, <1>3 DEF ControlInv, Idle, Modes
<1>11. ListInv'
  <2>1. sid' \in 1 .. sessions'
    BY <1>1, <1>3, <1>7 DEF ListInv
  <2> QED BY <1>2, <1>3, <1>4, <1>7, <2>1, ListRecorded
<1>12. AlarmInv'
  BY <1>1, <1>2, <1>3, <1>4, <1>7 DEF AlarmInv, Idle
<1>13. StampInv'
  <2>1. StopAsked'
    BY <1>2, <1>3, <1>7 DEF StopAsked
  <2> QED BY <1>1, <1>3, <2>1 DEF StampInv
<1>14. EndInv'
  BY <1>1, <1>3, EndFrame
<1>15. SyncInv'
  <2> SUFFICES ASSUME Known(list, sid) PROVE Arrives(Here', machine, clk)
    BY <1>2, <1>3, <1>7 DEF SyncInv, Known
  <2>1. Arrives(Here, machine, clk)
    BY <1>1, <1>2 DEF SyncInv
  <2> QED BY <1>5, <1>7, <1>8, <2>1, PassStays
<1>16. TrackInv'
  BY <1>3, <1>4, TrackIdle
<1> QED BY <1>9, <1>10, <1>11, <1>12, <1>13, <1>14, <1>15, <1>16 DEF HistoryInv

\* The playback goes on to the next event.
LEMMA EventPassed ==
  ASSUME Types, ListInv, list # <<>>, list[cur].type # "LIST_END",
         list' = list, cur' = cur + 1, start_file' = start_file
  PROVE  /\ cur' \in 1 .. Len(list) /\ cur' \in Nat /\ cur' >= 2
         /\ list[cur'] \in TypedNodes /\ list[cur'].clk \in 0 .. ClockMod
         /\ Here' = Pass(Here, list[cur])
<1>1. /\ list \in Seq(TypedNodes) /\ Len(list) \in Nat /\ cur \in 1 .. Len(list)
      /\ list[Len(list)].type = "LIST_END"
  BY ListTyped
<1>2. cur' \in 1 .. Len(list) /\ cur' \in Nat /\ cur' >= 2
  BY <1>1
<1>3. list[cur'] \in TypedNodes
  BY <1>1, <1>2
<1>4. list[cur'].clk \in 0 .. ClockMod
  BY <1>3, NodeParts, Widths
<1>5. Here' = Pass(Here, list[cur])
  <2> DEFINE o == Origin(list[1], start_file)
  <2>1. cur - 1 \in Nat /\ (cur - 1) + 1 = cur /\ cur' - 1 = cur
    BY <1>1
  <2>2. Here' = After(Origin(list'[1], start_file'), list', cur' - 1)
    BY DEF Here
  <2>3. Here' = After(o, list, cur) /\ Here = After(o, list, cur - 1)
    BY <2>1, <2>2 DEF Here
  <2> QED BY <2>1, <2>3, AfterNext
<1> QED BY <1>2, <1>3, <1>4, <1>5

\* ListInv while playing back.
LEMMA ListPlayed ==
  ASSUME ListInv, list # <<>>, Taking, list' = list, cur' \in 1 .. Len(list), cur' >= 2,
         UNCHANGED <<sid, sessions, record_active>>, ~record_active, playback_active',
         ~playback_reset_ack'
  PROVE  ListInv'
BY DEF ListInv, Taking, StopAsked

\* A machine where the events lead to meets those that follow.
LEMMA Followed ==
  ASSUME Types, ListInv, list # <<>>, Taking, Arrives(AtEnd, end_file.machine, end_file.clk),
         list' = list, cur' \in 1 .. Len(list), start_file' = start_file,
         NEW m, NEW c, Here'.m = m, Here'.at = c
  PROVE  /\ Arrives(Here', m, c)
         /\ Heading(list, cur', c, m, end_file.clk)
<1> DEFINE o == Origin(list[1], start_file)
<1>1. /\ Shape(list) /\ Len(list) \in Nat /\ NoEndBefore(list, Len(list))
  BY ListParts DEF ListInv
<1>2. o.missed = 0
  BY OriginOf
<1>3. Here' = After(o, list, cur' - 1)
  BY DEF Here
<1>4. Arrives(After(o, list, Len(list)), end_file.machine, end_file.clk)
  BY DEF AtEnd
<1>5. Same(After(o, list, cur' - 1), Here')
  BY <1>3 DEF Same
<1> HIDE DEF o
<1>6. Here'.missed = 0 /\ Heading(list, cur', Here'.at, Here'.m, end_file.clk)
  BY <1>1, <1>2, <1>4, <1>5, OnTrack
<1> QED BY <1>6 DEF Arrives, Reach

LEMMA MachineResetKeeps == HistoryInv /\ machine_reset => HistoryInv'
<1> SUFFICES ASSUME HistoryInv, machine_reset PROVE HistoryInv'
  OBVIOUS
<1>1. /\ Types /\ ControlInv /\ ListInv /\ AlarmInv /\ StampInv /\ EndInv /\ SyncInv /\ TrackInv
  BY DEF HistoryInv
<1>2. /\ reset # "none" /\ trap = "none" /\ clk' = ResetCycles /\ machine' = WhenReset
      /\ reset' = "none" /\ in_interrupt' = FALSE /\ event_reset_ack
      /\ playback_reset_ack' = FALSE
  BY DEF machine_reset, WhenReset, event_reset_ack
<1>3. UNCHANGED <<joystick_alarm, list, sid, sessions, record_active, playback_active,
                  next_timestamp_clk, odd, milestone_timestamp_alarm, start_file, end_file,
                  faults, trap>>
  BY DEF machine_reset, stampVars, savedVars, fileVars, uiVars
<1>4. ResetCycles \in 0 .. MaxClk /\ machine' \in Seq(Inputs)
  <2>1. ResetCycles \in 0 .. MaxClk
    BY Widths
  <2> DEFINE x == <<clk, "reset">>
  <2>2. machine \in Seq(Inputs) /\ clk \in Nat
    BY <1>1, Clocks DEF Types
  <2>3. x \in Inputs
    BY <2>2 DEF Inputs
  <2> HIDE DEF x
  <2>4. Append(machine, x) \in Seq(Inputs) /\ <<>> \in Seq(Inputs)
    BY <2>2, <2>3, AppendTyped
  <2> QED BY <1>2, <2>1, <2>4 DEF WhenReset, x
<1>5. ControlInv'
  BY <1>1, <1>2, <1>3 DEF ControlInv, Idle, Modes
<1>6. EndInv'
  BY <1>1, <1>3, EndFrame
<1>7. CASE record_active
  <2>1. list # <<>> /\ list[cur].type = "LIST_END" /\ ~playback_active
    BY <1>1, <1>7, ListParts DEF ListInv, ControlInv
  <2>2. cur' = cur /\ alarm' = next_timestamp_clk
    BY <1>2, <1>7, <2>1 DEF event_reset_ack
  <2>3. Types'
    <3>1. alarm' \in 0 .. ClockMod
      BY <1>1, <2>2, Widths DEF Types
    <3> QED BY <1>1, <1>2, <1>3, <1>4, <2>2, <3>1 DEF Types
  <2>4. ListInv'
    BY <1>1, <1>2, <1>3, <2>2 DEF ListInv, Taking, StopAsked
  <2>5. AlarmInv'
    BY <1>1, <1>3, <1>7, <2>1, <2>2 DEF AlarmInv, Idle
  <2>6. StampInv'
    <3>1. ASSUME ~StopAsked', ~odd'
          PROVE  /\ alarm' = next_timestamp_clk' /\ clk' <= next_timestamp_clk' + ResetCycles
                 /\ next_timestamp_clk' <= clk' + Second
      <4>1. ~StopAsked
        BY <1>3, <2>2, <3>1 DEF StopAsked
      <4>2. next_timestamp_clk <= Second /\ next_timestamp_clk \in Nat
        BY <1>1, <1>2, <1>3, <1>7, <3>1, <4>1, Clocks DEF StampInv
      <4> QED BY <1>2, <1>3, <2>2, <4>2, Widths
    <3> QED BY <1>1, <1>2, <1>3, <3>1 DEF StampInv
  <2>7. SyncInv'
    BY <1>1, <1>2, <1>3, <1>7, <2>2 DEF SyncInv, Known, Here
  <2>8. TrackInv'
    BY <1>3, <2>1, TrackIdle
  <2> QED BY <1>5, <1>6, <2>3, <2>4, <2>5, <2>6, <2>7, <2>8 DEF HistoryInv
<1>8. CASE Idle
  <2>1. ~record_active /\ ~playback_active /\ ~playback_reset_ack /\ ~Taking /\ ~Taking'
    BY <1>1, <1>2, <1>3, <1>8 DEF Idle, ControlInv, Taking
  <2>2. cur' = cur /\ alarm' = alarm
    BY <1>1, <1>2, <2>1 DEF event_reset_ack, ListInv
  <2>3. Types'
    BY <1>1, <1>2, <1>3, <1>4, <2>2 DEF Types
  <2>4. ListInv'
    BY <1>1, <1>2, <1>3, <2>1, <2>2 DEF ListInv, StopAsked
  <2>5. AlarmInv'
    BY <1>1, <1>3, <2>1, <2>2 DEF AlarmInv, Idle
  <2>6. StampInv'
    BY <1>3, <2>1 DEF StampInv
  <2>7. SyncInv'
    BY <1>3, <2>1, SyncIdle
  <2>8. TrackInv'
    BY <1>3, <2>1, TrackIdle
  <2> QED BY <1>5, <1>6, <2>3, <2>4, <2>5, <2>6, <2>7, <2>8 DEF HistoryInv
<1>9. CASE playback_active
  <2>1. ~record_active /\ Taking /\ list # <<>> /\ cur >= 2
    BY <1>1, <1>9 DEF ControlInv, Taking, ListInv
  <2>2. StampInv'
    BY <1>3, <2>1 DEF StampInv
  <2>3. Known(list, sid)' <=> Known(list, sid)
    BY <1>3 DEF Known
  <2>4. Known(list, sid) => Arrives(AtEnd, end_file.machine, end_file.clk)
    BY <1>1, <1>9 DEF TrackInv
  <2>5. list \in Seq(TypedNodes) /\ Len(list) \in Nat /\ cur \in 1 .. Len(list)
        /\ list[1].type = "INITIAL" /\ list[cur] \in TypedNodes
    BY <1>1, <2>1, ListParts
  <2>6. CASE playback_reset_ack
    <3>1. /\ reset = "hard" /\ cur = 2 /\ list[1].data = "RESET" /\ list[2].type # "RESETCPU"
      BY <1>1, <2>1, <2>6 DEF ControlInv, ListInv
    <3>2. cur' = cur /\ alarm' = list[cur].clk
      BY <1>2, <2>1, <2>6, <3>1 DEF event_reset_ack
    <3>3. list[cur].clk \in 0 .. ClockMod
      BY <2>5, NodeParts, Widths
    <3>4. Types'
      BY <1>1, <1>2, <1>3, <1>4, <3>2, <3>3 DEF Types
    <3>5. ListInv'
      BY <1>1, <1>2, <1>3, <1>9, <2>1, <2>5, <3>2, ListPlayed
    <3>6. AlarmInv'
      BY <1>1, <1>2, <1>3, <1>9, <3>2 DEF AlarmInv, Idle
    <3>7. Here'.m = machine' /\ Here'.at = clk'
      <4> DEFINE o == Origin(list[1], start_file)
      <4>1. Here' = After(Origin(list'[1], start_file'), list', cur' - 1)
        BY DEF Here
      <4>2. Here' = After(o, list, 1)
        BY <1>3, <3>1, <3>2, <4>1
      <4>3. Same(After(o, list, 1), o)
        BY <2>5, AfterInitial
      <4>4. o.m = <<>> /\ o.at = ResetCycles
        BY <3>1, OriginOf
      <4>5. machine' = <<>>
        BY <1>2, <3>1 DEF WhenReset
      <4> HIDE DEF o
      <4> QED BY <1>2, <4>2, <4>3, <4>4, <4>5 DEF Same
    <3>8. Known(list, sid) => /\ Arrives(Here', machine', clk')
                              /\ Heading(list, cur', clk', machine', end_file.clk)
      <4>1. list' = list /\ cur' \in 1 .. Len(list) /\ start_file' = start_file
        BY <1>3, <2>5, <3>2
      <4> QED BY <1>1, <2>1, <2>4, <3>7, <4>1, Followed
    <3>9. SyncInv'
      BY <1>2, <2>3, <3>8 DEF SyncInv
    <3>10. TrackInv'
      <4>1. AtEnd' = AtEnd
        BY <1>3 DEF AtEnd
      <4> QED BY <1>2, <1>3, <2>3, <2>4, <3>8, <4>1 DEF TrackInv
    <3> QED BY <1>5, <1>6, <2>2, <3>4, <3>5, <3>6, <3>9, <3>10 DEF HistoryInv
  <2>7. CASE ~playback_reset_ack
    <3> DEFINE node == list[cur]
    <3>1. node.type = "RESETCPU" /\ node.data = reset
      BY <1>1, <1>2, <1>9, <2>7 DEF AlarmInv
    <3>2. cur' = cur + 1 /\ alarm' = list[cur'].clk
      BY <1>2, <2>1, <3>1 DEF event_reset_ack
    <3>3. /\ cur' \in 1 .. Len(list) /\ cur' \in Nat /\ cur' >= 2
          /\ list[cur'].clk \in 0 .. ClockMod
          /\ Here' = Pass(Here, node)
      BY <1>1, <1>3, <2>1, <3>1, <3>2, EventPassed
    <3>4. Types'
      BY <1>1, <1>2, <1>3, <1>4, <3>2, <3>3 DEF Types
    <3>5. ListInv'
      BY <1>1, <1>2, <1>3, <1>9, <2>1, <3>3, ListPlayed
    <3>6. AlarmInv'
      BY <1>1, <1>2, <1>3, <1>9, <3>2 DEF AlarmInv, Idle
    <3>7. ASSUME Known(list, sid) PROVE Here'.m = machine' /\ Here'.at = clk'
      <4>1. Arrives(Here, machine, clk) /\ clk = node.clk
        BY <1>1, <1>2, <2>1, <2>7, <3>7 DEF SyncInv
      <4>2. Fed(machine, node) = machine'
        BY <1>1, <1>2, <3>1, <4>1 DEF Fed, WhenReset, Types
      <4>3. Here.m = machine
        BY <4>1 DEF Arrives
      <4>4. Pass(Here, node).m = Fed(Here.m, node) /\ Pass(Here, node).at = ResetCycles
        BY <3>1 DEF Pass
      <4> QED BY <1>2, <3>3, <4>2, <4>3, <4>4
    <3>8. Known(list, sid) => /\ Arrives(Here', machine', clk')
                              /\ Heading(list, cur', clk', machine', end_file.clk)
      <4>1. list' = list /\ start_file' = start_file
        BY <1>3
      <4> QED BY <1>1, <2>1, <2>4, <3>3, <3>7, <4>1, Followed
    <3>9. SyncInv'
      BY <1>2, <2>3, <3>8 DEF SyncInv
    <3>10. TrackInv'
      <4>1. AtEnd' = AtEnd
        BY <1>3 DEF AtEnd
      <4> QED BY <1>2, <1>3, <2>3, <2>4, <3>8, <4>1 DEF TrackInv
    <3> QED BY <1>5, <1>6, <2>2, <3>4, <3>5, <3>6, <3>9, <3>10 DEF HistoryInv
  <2> QED BY <2>6, <2>7
<1> QED BY <1>7, <1>8, <1>9 DEF Idle

LEMMA PlaybackEventKeeps == HistoryInv /\ PlaybackEvent => HistoryInv'
<1> SUFFICES ASSUME HistoryInv, PlaybackEvent PROVE HistoryInv'
  OBVIOUS
<1> DEFINE node == list[cur]
<1>1. /\ Types /\ ControlInv /\ ListInv /\ AlarmInv /\ StampInv /\ EndInv /\ SyncInv /\ TrackInv
  BY DEF HistoryInv
<1>2. /\ ~in_interrupt /\ alarm <= clk /\ ~record_active /\ PlayEvent(node)
      /\ playback_active' = (playback_active /\ node.type # "LIST_END")
      /\ IF node.type \in {"LIST_END", "RESETCPU"} THEN alarm' = Unset /\ cur' = cur
         ELSE cur' = cur + 1 /\ alarm' = list[cur'].clk
  BY DEF PlaybackEvent, AlarmDue
<1>3. UNCHANGED <<clk, joystick_alarm, in_interrupt, list, sid, sessions, record_active,
                  playback_reset_ack, next_timestamp_clk, odd, milestone_timestamp_alarm,
                  start_file, end_file, faults, trap>>
  BY <1>1 DEF PlaybackEvent, savedVars, fileVars, uiVars, Types
<1>4. alarm # Unset
  <2>1. ~(Unset <= clk)
    BY <1>1, Clocks
  <2> QED BY <1>2, <2>1
<1>5. playback_active' \in BOOLEAN /\ ~playback_reset_ack /\ trap # "PLAYBACK"
  BY <1>1, <1>2, <1>4 DEF ControlInv
<1>6. EndInv'
  BY <1>1, <1>3, EndFrame
<1>7. StampInv'
  BY <1>2, <1>3 DEF StampInv
<1>8. CASE node.type = "LIST_END"
  <2>1. /\ machine' = machine /\ reset' = reset /\ alarm' = Unset /\ cur' = cur
        /\ ~playback_active'
    BY <1>2, <1>8 DEF PlayEvent
  <2>2. Types'
    BY <1>1, <1>3, <1>5, <2>1, Clocks DEF Types
  <2>3. ControlInv'
    BY <1>1, <1>2, <1>3, <1>5, <2>1 DEF ControlInv, Idle
  <2>4. ListInv'
    <3>1. ~Taking'
      BY <1>3, <1>5, <2>1 DEF Taking
    <3> QED BY <1>1, <1>2, <1>3, <1>5, <1>8, <2>1, <3>1 DEF ListInv, StopAsked
  <2>5. AlarmInv'
    BY <1>1, <1>3, <2>1 DEF AlarmInv
  <2>6. SyncInv'
    BY <1>2, <1>3, <1>5, <2>1, SyncIdle DEF Taking
  <2>7. TrackInv'
    BY <2>1, TrackIdle
  <2> QED BY <1>6, <1>7, <2>2, <2>3, <2>4, <2>5, <2>6, <2>7 DEF HistoryInv
<1>9. CASE node.type # "LIST_END"
  <2>1. playback_active /\ playback_active'
    BY <1>1, <1>2, <1>4, <1>9 DEF AlarmInv, Idle
  <2>2. /\ reset = "none" /\ alarm = node.clk /\ trap = "none" /\ joystick_alarm = Unset
    <3>1. reset = "none" /\ alarm = node.clk
      BY <1>1, <1>4, <1>5, <2>1 DEF AlarmInv
    <3>2. trap = "none"
      BY <1>1, <1>2, <2>1 DEF ControlInv, Idle, Types
    <3> QED BY <1>1, <2>1, <3>1, <3>2 DEF ControlInv
  <2>3. Taking /\ list # <<>> /\ cur >= 2
    BY <1>1, <2>1 DEF Taking, ListInv
  <2>4. /\ list \in Seq(TypedNodes) /\ Len(list) \in Nat /\ cur \in 1 .. Len(list)
        /\ node \in TypedNodes
    BY <1>1, <2>3, ListParts
  <2>5. node.type # "INITIAL"
    <3>1. Shape(list) /\ cur \in 2 .. Len(list)
      BY <1>1, <2>3, <2>4 DEF ListInv
    <3> QED BY <3>1 DEF Shape
  <2>6. ASSUME Known(list, sid)
        PROVE  /\ Arrives(Here, machine, clk)
               /\ Arrives(AtEnd, end_file.machine, end_file.clk)
               /\ Heading(list, cur, clk, machine, end_file.clk)
    BY <1>1, <2>1, <2>2, <2>3, <2>6 DEF SyncInv, TrackInv
  <2>7. ASSUME Known(list, sid), node.type \in Played
        PROVE  clk = node.clk
    <3>1. Reach(clk, machine, node.clk)
      BY <2>4, <2>6, <2>7, HeadingHere
    <3>2. clk \in Nat /\ node.clk \in Nat
      BY <1>1, <2>4, Clocks, NodeParts
    <3> QED BY <1>2, <2>2, <3>1, <3>2 DEF Reach
  <2>8. Known(list, sid)' <=> Known(list, sid)
    BY <1>3 DEF Known
  <2>9. AtEnd' = AtEnd
    BY <1>3 DEF AtEnd
  <2>10. CASE node.type = "RESETCPU"
    <3>1. machine' = machine /\ reset' = node.data /\ alarm' = Unset /\ cur' = cur
      BY <1>2, <2>10 DEF PlayEvent
    <3>2. reset' \in {"soft", "hard"}
      BY <2>4, <2>10, <3>1, NodeParts
    <3>3. Types'
      BY <1>1, <1>3, <1>5, <3>1, <3>2, Clocks DEF Types
    <3>4. ControlInv'
      <4>1. joystick_alarm > clk
        BY <1>1, <2>2, Clocks
      <4> QED BY <1>1, <1>2, <1>3, <1>5, <2>1, <2>2, <4>1 DEF ControlInv, Idle, Modes
    <3>5. ListInv'
      BY <1>1, <1>2, <1>3, <1>5, <2>1, <2>3, <2>4, <3>1, ListPlayed
    <3>6. AlarmInv'
      BY <1>1, <1>3, <2>1, <2>10, <3>1, <3>2 DEF AlarmInv, Idle
    <3>7. SyncInv'
      <4>1. Here' = Here
        BY <1>3, <3>1 DEF Here
      <4>2. Known(list, sid) => clk = node.clk
        BY <2>7, <2>10 DEF Played
      <4> QED BY <1>2, <1>3, <2>6, <2>8, <3>1, <3>2, <4>1, <4>2 DEF SyncInv
    <3>8. TrackInv'
      BY <1>3, <2>6, <2>8, <2>9, <3>2 DEF TrackInv
    <3> QED BY <1>6, <1>7, <3>3, <3>4, <3>5, <3>6, <3>7, <3>8 DEF HistoryInv
  <2>11. CASE node.type # "RESETCPU"
    <3>1. cur' = cur + 1 /\ alarm' = list[cur'].clk /\ reset' = reset
      BY <1>2, <1>9, <2>11 DEF PlayEvent
    <3>2. /\ cur' \in 1 .. Len(list) /\ cur' \in Nat /\ cur' >= 2
          /\ list[cur'].clk \in 0 .. ClockMod /\ Here' = Pass(Here, node)
      BY <1>1, <1>3, <1>9, <2>3, <3>1, EventPassed
    <3>3. ControlInv'
      BY <1>1, <1>2, <1>3, <1>5, <2>1, <2>2, <3>1 DEF ControlInv, Idle, Modes
    <3>4. ListInv'
      BY <1>1, <1>2, <1>3, <1>5, <2>1, <2>3, <3>2, ListPlayed
    <3>5. AlarmInv'
      BY <1>1, <1>3, <2>1, <2>2, <3>1 DEF AlarmInv, Idle
    <3>6. CASE node.type = "TIMESTAMP"
      <4>1. machine' = machine
        BY <1>2, <3>6 DEF PlayEvent
      <4>2. Types'
        BY <1>1, <1>3, <1>5, <3>1, <3>2, <4>1 DEF Types
      <4>3. SyncInv'
        <5>1. Known(list, sid) => Arrives(Here', machine, clk)
          BY <2>6, <3>2, <3>6, PassStays DEF Played
        <5> QED BY <1>3, <2>2, <2>8, <3>1, <4>1, <5>1 DEF SyncInv
      <4>4. TrackInv'
        <5>1. Known(list, sid) => Heading(list, cur + 1, clk, machine, end_file.clk)
          BY <2>4, <2>6, <3>6, HeadingStamp
        <5> QED BY <1>3, <2>6, <2>8, <2>9, <3>1, <4>1, <5>1 DEF TrackInv
      <4> QED BY <1>6, <1>7, <3>3, <3>4, <3>5, <4>2, <4>3, <4>4 DEF HistoryInv
    <3>7. CASE node.type \in {"ATTACHIMAGE", "JOYSTICK_VALUE"}
      <4> DEFINE x == <<clk, IF node.type = "ATTACHIMAGE" THEN "attach" ELSE "joystick">>
      <4>1. machine' = Append(machine, x)
        BY <1>2, <3>7 DEF PlayEvent
      <4>2. x \in Inputs
        BY <1>1, Clocks DEF Inputs
      <4>3. node.type \in Played
        BY <3>7 DEF Played
      <4>4. ASSUME Known(list, sid) PROVE Here'.m = machine' /\ Here'.at = clk'
        <5>1. clk = node.clk /\ Here.m = machine
          BY <2>6, <2>7, <4>3, <4>4 DEF Arrives
        <5>2. Fed(machine, node) = machine'
          BY <3>7, <4>1, <5>1 DEF Fed
        <5>3. Pass(Here, node).m = Fed(Here.m, node) /\ Pass(Here, node).at = node.clk
          BY <2>11, <4>3 DEF Pass
        <5> QED BY <1>3, <3>2, <5>1, <5>2, <5>3
      <4>5. Known(list, sid) => /\ Arrives(Here', machine', clk')
                                /\ Heading(list, cur', clk', machine', end_file.clk)
        BY <1>1, <1>3, <2>3, <2>6, <3>2, <4>4, Followed
      <4> HIDE DEF x
      <4>6. machine' \in Seq(Inputs)
        BY <1>1, <4>1, <4>2, AppendTyped DEF Types
      <4>7. Types'
        BY <1>1, <1>3, <1>5, <3>1, <3>2, <4>6 DEF Types
      <4>8. SyncInv'
        BY <2>2, <2>8, <3>1, <4>5 DEF SyncInv
      <4>9. TrackInv'
        BY <1>3, <2>6, <2>8, <2>9, <4>5 DEF TrackInv
      <4> QED BY <1>6, <1>7, <3>3, <3>4, <3>5, <4>7, <4>8, <4>9 DEF HistoryInv
    <3>8. node.type \in {"TIMESTAMP", "ATTACHIMAGE", "JOYSTICK_VALUE"}
      <4>1. node.type \in NodeTypes
        BY <2>4, NodeParts
      <4> QED BY <1>9, <2>5, <2>11, <4>1 DEF NodeTypes, Played
    <3> QED BY <3>6, <3>7, <3>8
  <2> QED BY <2>10, <2>11
<1> QED BY <1>8, <1>9

\* What a trap finds and leaves.
LEMMA TrapRuns ==
  ASSUME Types, ControlInv, NEW name \in {"stop", "set", "return", "play"} \cup Modes,
         NEW pending, RunTrap(name, pending) \/ Trap(name, pending), Careful
  PROVE  /\ trap = name /\ trap' = "none" /\ reset = "none" /\ ~in_interrupt
         /\ reset' = pending /\ in_interrupt' = (pending # "none")
         /\ in_interrupt' \in BOOLEAN /\ joystick_alarm' = joystick_alarm
         /\ ~playback_reset_ack
         /\ name \in {"stop", "set", "return"} => record_active /\ ~playback_active
         /\ name \in Modes \cup {"play"} => Idle
         /\ name = "play" => joystick_alarm = Unset
         /\ name \in {"stop", "PLAYBACK"} => alarm = Unset
<1>1. name # "none"
  BY DEF Modes
<1>2. /\ trap = name /\ trap' = "none" /\ reset' = pending
      /\ in_interrupt' = (pending # "none") /\ joystick_alarm' = joystick_alarm
  BY DEF Trap, RunTrap, Careful
<1>3. reset = "none" /\ ~in_interrupt
  BY <1>1, <1>2 DEF ControlInv
<1> QED BY <1>2, <1>3 DEF ControlInv

\* ControlInv where no playback goes on.
LEMMA ControlAfterTrap ==
  ASSUME trap' = "none", in_interrupt' => reset' # "none", ~playback_active',
         ~playback_reset_ack', reset' # "none" => in_interrupt'
  PROVE  ControlInv'
BY DEF ControlInv, Modes

\* A fault is the first.
LEMMA FirstFault ==
  ASSUME Careful, Types, Fault
  PROVE  faults = 0 /\ faults' = 1
<1>1. faults \in Nat /\ faults' <= 1
  BY DEF Types, Careful, Regular
<1> QED BY <1>1 DEF Fault

\* What is known of a file is its session.
LEMMA FileSession ==
  ASSUME NEW f, f = NoFile
  PROVE  f.session = 0 /\ f \in Files
<1>1. 0 \in 0 .. MaxClk /\ <<>> \in Seq(Inputs) /\ <<>> \in Seq(TypedNodes)
  BY Widths
<1>2. NoFile \in Files
  BY <1>1 DEF NoFile, Files
<1> QED BY <1>2 DEF NoFile

\* Another start.vsf, of a new session or none, does not matter to end.vsf.
LEMMA EndOtherStart ==
  ASSUME EndInv, end_file' = end_file, sessions \in Nat,
         sessions' \in {sessions, sessions + 1},
         start_file'.session \in 0 .. sessions',
         start_file' = start_file \/ start_file'.session = 0
           \/ start_file'.session = sessions + 1
  PROVE  EndInv'
<1>1. CASE start_file' = start_file
  BY <1>1 DEF EndInv, Known
<1>2. CASE start_file'.session = 0 \/ start_file'.session = sessions + 1
  <2> SUFFICES ASSUME end_file # NoFile
               PROVE  /\ Shape(end_file.events)
                      /\ \A i \in 1 .. Len(end_file.events) :
                           end_file.events[i].type # "TIMESTAMP"
                      /\ end_file.session \in 1 .. sessions'
                      /\ Known(end_file.events, end_file.session)' =>
                           Arrives(After(Origin(end_file.events[1], start_file'),
                                         end_file.events, Len(end_file.events)),
                                   end_file.machine, end_file.clk)
    BY DEF EndInv, Known
  <2>1. /\ Shape(end_file.events)
        /\ \A i \in 1 .. Len(end_file.events) : end_file.events[i].type # "TIMESTAMP"
        /\ end_file.session \in 1 .. sessions
        /\ Known(end_file.events, end_file.session) =>
             Arrives(After(Origin(end_file.events[1], start_file), end_file.events,
                           Len(end_file.events)),
                     end_file.machine, end_file.clk)
    BY DEF EndInv
  <2>2. end_file.session \in 1 .. sessions' /\ start_file'.session # end_file.session
    BY <1>2, <2>1
  <2>3. ASSUME Known(end_file.events, end_file.session)'
        PROVE  Arrives(After(Origin(end_file.events[1], start_file'), end_file.events,
                             Len(end_file.events)),
                       end_file.machine, end_file.clk)
    <3>1. end_file.events[1].data = "RESET"
      BY <2>2, <2>3 DEF Known
    <3>2. Origin(end_file.events[1], start_file') = Origin(end_file.events[1], start_file)
      BY <3>1 DEF Origin
    <3> QED BY <2>1, <3>1, <3>2 DEF Known
  <2> QED BY <2>1, <2>2, <2>3
<1> QED BY <1>1, <1>2

LEMMA RecordStartSaveKeeps == Careful /\ HistoryInv /\ RecordStartSave => HistoryInv'
<1> SUFFICES ASSUME Careful, HistoryInv, RecordStartSave PROVE HistoryInv'
  OBVIOUS
<1>1. /\ Types /\ ControlInv /\ ListInv /\ AlarmInv /\ StampInv /\ EndInv /\ SyncInv /\ TrackInv
  BY DEF HistoryInv
<1>2. /\ trap' = "none" /\ reset = "none" /\ reset' = "none" /\ ~in_interrupt'
      /\ in_interrupt' \in BOOLEAN /\ joystick_alarm' = joystick_alarm
      /\ ~playback_reset_ack /\ Idle
  <2>1. Trap("FILE_SAVE", reset) /\ "FILE_SAVE" \in Modes
    BY DEF RecordStartSave, Modes
  <2> QED BY <1>1, <2>1, TrapRuns
<1>3. /\ start_file' = [session |-> sessions + 1, clk |-> clk, machine |-> machine, events |-> <<>>]
      /\ list' = <<Node("INITIAL", clk, "FILE_SAVE"), TailNode>> /\ cur' = 2
      /\ sessions' = sessions + 1 /\ sid' = sessions + 1
      /\ next_timestamp_clk' = clk /\ alarm' = clk /\ record_active' = TRUE
      /\ milestone_timestamp_alarm' = 0 /\ odd' = FALSE
  BY DEF RecordStartSave, Snapshot, NewList, Recording
<1>4. UNCHANGED <<clk, machine, end_file, faults, playback_active, playback_reset_ack>>
  BY DEF RecordStartSave, Recording
<1>5. /\ list' \in Seq(TypedNodes) /\ Shape(list') /\ Len(list') = 2 /\ list' # <<>>
      /\ list'[1].data = "FILE_SAVE" /\ NoEndBefore(list', 2)
      /\ \A o : Same(After(o, list', 1), o)
  <2>1. clk \in 0 .. MaxClk /\ "FILE_SAVE" \in Modes
    BY <1>1 DEF Types, Modes
  <2> QED BY <1>3, <2>1, NewListOf
<1>6. /\ clk \in Nat /\ clk \in 0 .. ClockMod - 1 /\ clk \in 0 .. ClockMod
      /\ 0 \in 0 .. ClockMod - 1 /\ sessions \in Nat /\ sessions + 1 \in Nat
  BY <1>1, Clocks, Widths DEF Types
<1>7. start_file' \in Files /\ start_file'.session = sessions + 1
  <2>1. <<>> \in Seq(TypedNodes) /\ machine \in Seq(Inputs) /\ clk \in 0 .. MaxClk
    BY <1>1 DEF Types
  <2> QED BY <1>3, <1>6, <2>1 DEF Files
<1>8. Types'
  BY <1>1, <1>2, <1>3, <1>4, <1>5, <1>6, <1>7 DEF Types
<1>9. ~playback_active' /\ ~playback_reset_ack' /\ ~Taking'
  BY <1>2, <1>4 DEF Idle, Taking
<1>10. ControlInv'
  BY <1>2, <1>9, ControlAfterTrap
<1>11. ~StopAsked'
  BY <1>3, <1>5, NoneUntil
<1>12. ListInv'
  <2>1. sid' \in 1 .. sessions' /\ cur' = Len(list') /\ cur' \in Nat
    BY <1>3, <1>5, <1>6
  <2>2. list'[cur'].type = "LIST_END"
    BY <1>5, <2>1 DEF Shape
  <2> QED BY <1>3, <1>5, <1>9, <1>11, <2>1, <2>2, ListRecorded
<1>13. AlarmInv'
  <2>1. start_file' # NoFile
    BY <1>6, <1>7, FileSession
  <2> QED BY <1>3, <1>9, <2>1 DEF AlarmInv, Idle
<1>14. StampInv'
  BY <1>2, <1>3, <1>4, <1>6, Widths DEF StampInv
<1>15. EndInv'
  <2>1. start_file'.session \in 0 .. sessions'
    BY <1>3, <1>6, <1>7
  <2> QED BY <1>1, <1>3, <1>4, <1>6, <1>7, <2>1, EndOtherStart
<1>16. SyncInv'
  <2> DEFINE o == Origin(list'[1], start_file')
  <2>1. Here' = After(o, list', 1)
    BY <1>3 DEF Here
  <2>2. Same(Here', o)
    BY <1>5, <2>1
  <2>3. o.missed = 0 /\ o.m = machine /\ o.at = clk
    BY <1>3, <1>5 DEF Origin
  <2> HIDE DEF o
  <2>4. Arrives(Here', machine, clk)
    BY <2>2, <2>3 DEF Same, Arrives, Reach
  <2> QED BY <1>2, <1>4, <2>4 DEF SyncInv
<1>17. TrackInv'
  BY <1>9, TrackIdle
<1> QED BY <1>8, <1>10, <1>12, <1>13, <1>14, <1>15, <1>16, <1>17 DEF HistoryInv

LEMMA RecordStartResetKeeps == Careful /\ HistoryInv /\ RecordStartReset => HistoryInv'
<1> SUFFICES ASSUME Careful, HistoryInv, RecordStartReset PROVE HistoryInv'
  OBVIOUS
<1>1. /\ Types /\ ControlInv /\ ListInv /\ AlarmInv /\ StampInv /\ EndInv /\ SyncInv /\ TrackInv
  BY DEF HistoryInv
<1>2. /\ trap' = "none" /\ reset' = "hard" /\ in_interrupt' /\ in_interrupt' \in BOOLEAN
      /\ joystick_alarm' = joystick_alarm /\ ~playback_reset_ack /\ Idle
  <2>1. Trap("RESET", ResetOr("hard")) /\ "RESET" \in Modes
    BY DEF RecordStartReset, Modes
  <2>2. /\ trap' = "none" /\ reset' = ResetOr("hard")
        /\ in_interrupt' = (ResetOr("hard") # "none") /\ in_interrupt' \in BOOLEAN
        /\ joystick_alarm' = joystick_alarm /\ ~playback_reset_ack /\ Idle
    BY <1>1, <2>1, TrapRuns
  <2>3. ResetOr("hard") = "hard"
    BY <2>2 DEF Idle, ResetOr
  <2> QED BY <2>2, <2>3
<1>3. /\ list' = <<Node("INITIAL", clk, "RESET"), TailNode>> /\ cur' = 2
      /\ sessions' = sessions + 1 /\ sid' = sessions + 1
      /\ next_timestamp_clk' = 0 /\ alarm' = 0 /\ record_active' = TRUE
      /\ milestone_timestamp_alarm' = 0 /\ odd' = FALSE
  BY DEF RecordStartReset, NewList, Recording
<1>4. UNCHANGED <<clk, machine, start_file, end_file, faults, playback_active,
                  playback_reset_ack>>
  BY DEF RecordStartReset, Recording, fileVars
<1>5. /\ list' \in Seq(TypedNodes) /\ Shape(list') /\ Len(list') = 2 /\ list' # <<>>
      /\ list'[1].data = "RESET" /\ NoEndBefore(list', 2)
      /\ \A o : Same(After(o, list', 1), o)
  <2>1. clk \in 0 .. MaxClk /\ "RESET" \in Modes
    BY <1>1 DEF Types, Modes
  <2> QED BY <1>3, <2>1, NewListOf
<1>6. 0 \in 0 .. ClockMod - 1 /\ 0 \in 0 .. ClockMod /\ sessions \in Nat /\ sessions + 1 \in Nat
  BY <1>1, Widths DEF Types
<1>7. Types'
  BY <1>1, <1>2, <1>3, <1>4, <1>5, <1>6 DEF Types
<1>8. ~playback_active' /\ ~playback_reset_ack' /\ ~Taking'
  BY <1>2, <1>4 DEF Idle, Taking
<1>9. ControlInv'
  BY <1>2, <1>8, ControlAfterTrap
<1>10. ~StopAsked'
  BY <1>3, <1>5, NoneUntil
<1>11. ListInv'
  <2>1. sid' \in 1 .. sessions' /\ cur' = Len(list') /\ cur' \in Nat
    BY <1>3, <1>5, <1>6
  <2>2. list'[cur'].type = "LIST_END"
    BY <1>5, <2>1 DEF Shape
  <2> QED BY <1>3, <1>5, <1>8, <1>10, <2>1, <2>2, ListRecorded
<1>12. AlarmInv'
  BY <1>1, <1>3, <1>4, <1>5, <1>8 DEF AlarmInv, Idle
<1>13. StampInv'
  BY <1>2, <1>3, Widths DEF StampInv
<1>14. EndInv'
  <2>1. start_file'.session \in 0 .. sessions'
    BY <1>1, <1>3, <1>4, <1>6 DEF EndInv
  <2> QED BY <1>1, <1>3, <1>4, <1>6, <2>1, EndOtherStart
<1>15. SyncInv'
  <2> DEFINE o == Origin(list'[1], start_file')
  <2>1. Here' = After(o, list', 1)
    BY <1>3 DEF Here
  <2>2. Same(Here', o)
    BY <1>5, <2>1
  <2>3. o.missed = 0 /\ o.m = <<>> /\ o.at = ResetCycles
    BY <1>5, OriginOf
  <2> HIDE DEF o
  <2>4. Arrives(Here', WhenReset', ResetCycles)
    BY <1>2, <2>2, <2>3 DEF Same, Arrives, Reach, WhenReset
  <2> QED BY <1>2, <1>3, <2>4 DEF SyncInv
<1>16. TrackInv'
  BY <1>8, TrackIdle
<1> QED BY <1>7, <1>9, <1>11, <1>12, <1>13, <1>14, <1>15, <1>16 DEF HistoryInv

LEMMA RecordStartSaveFailsKeeps ==
  Careful /\ HistoryInv /\ RecordStartSaveFails => HistoryInv'
<1> SUFFICES ASSUME Careful, HistoryInv, RecordStartSaveFails PROVE HistoryInv'
  OBVIOUS
<1>1. /\ Types /\ ControlInv /\ ListInv /\ AlarmInv /\ StampInv /\ EndInv /\ SyncInv /\ TrackInv
  BY DEF HistoryInv
<1>2. /\ trap' = "none" /\ trap = "FILE_SAVE" /\ reset = "none" /\ reset' = "none"
      /\ ~in_interrupt' /\ in_interrupt' \in BOOLEAN /\ joystick_alarm' = joystick_alarm
      /\ ~playback_reset_ack /\ Idle
  <2>1. Trap("FILE_SAVE", reset) /\ "FILE_SAVE" \in Modes
    BY DEF RecordStartSaveFails, Modes
  <2> QED BY <1>1, <2>1, TrapRuns
<1>3. start_file' \in {start_file, NoFile} /\ faults = 0 /\ faults' = 1
  BY <1>1, FirstFault DEF RecordStartSaveFails, WriteFailed
<1>4. UNCHANGED <<clk, machine, list, cur, sid, sessions, record_active, playback_active,
                  playback_reset_ack, alarm, next_timestamp_clk, odd,
                  milestone_timestamp_alarm, end_file>>
  BY DEF RecordStartSaveFails, listVars, modeVars, stampVars
<1>5. start_file' \in Files /\ (start_file' = start_file \/ start_file'.session = 0)
  BY <1>1, <1>3, FileSession DEF Types
<1>6. Types'
  BY <1>1, <1>2, <1>3, <1>4, <1>5 DEF Types
<1>7. ~playback_active' /\ ~record_active' /\ ~playback_reset_ack' /\ ~Taking' /\ ~Taking
  BY <1>2, <1>4 DEF Idle, Taking
<1>8. ControlInv'
  BY <1>2, <1>7, ControlAfterTrap
<1>9. ListInv'
  BY <1>1, <1>4, <1>7 DEF ListInv, StopAsked
<1>10. AlarmInv'
  BY <1>1, <1>2, <1>3, <1>4, <1>7 DEF AlarmInv, Idle
<1>11. StampInv'
  BY <1>7 DEF StampInv
<1>12. EndInv'
  <2>1. sessions \in Nat /\ start_file'.session \in 0 .. sessions'
    BY <1>1, <1>4, <1>5 DEF EndInv, Types
  <2> QED BY <1>1, <1>4, <1>5, <2>1, EndOtherStart
<1>13. SyncInv'
  BY <1>7, SyncIdle
<1>14. TrackInv'
  BY <1>7, TrackIdle
<1> QED BY <1>6, <1>8, <1>9, <1>10, <1>11, <1>12, <1>13, <1>14 DEF HistoryInv

\* What reading end.vsf gives.
LEMMA EndRead ==
  ASSUME Types, EndInv, end_file # NoFile,
         NEW read, read = event_snapshot_read_module(end_file.events),
         NEW nodes, nodes = read.nodes
  PROVE  /\ nodes \in Seq(TypedNodes) /\ Shape(nodes) /\ nodes # <<>> /\ Len(nodes) \in Nat
         /\ Len(nodes) >= 2 /\ read.next \in 0 .. ClockMod - 1
         /\ NoEndBefore(nodes, Len(nodes)) /\ StampsBefore(nodes)
         /\ nodes[1] = end_file.events[1] /\ nodes[1].type = "INITIAL"
         /\ end_file.session \in 1 .. sessions
         /\ Known(nodes, end_file.session) =>
              Arrives(After(Origin(nodes[1], start_file), nodes, Len(nodes)),
                      end_file.machine, end_file.clk)
         /\ nodes[1].data = "RESET" => nodes[2].type # "RESETCPU"
<1> DEFINE events == end_file.events
           o == Origin(events[1], start_file)
<1>1. events \in Seq(TypedNodes)
  BY DEF Types, Files
<1>2. /\ FileEvents(events) /\ end_file.session \in 1 .. sessions
      /\ Known(events, end_file.session) =>
           Arrives(After(o, events, Len(events)), end_file.machine, end_file.clk)
  BY <1>1 DEF EndInv, FileEvents
<1>3. /\ o.missed = 0 /\ o.read = [nodes |-> <<>>, next |-> 0]
      /\ events[1].data = "RESET" => o.at = ResetCycles
  BY OriginOf
<1> HIDE DEF o
<1>4. /\ nodes \in Seq(TypedNodes) /\ Shape(nodes)
      /\ read.next \in Nat /\ read.next <= MaxClk + Second
      /\ NoEndBefore(nodes, Len(nodes)) /\ StampsBefore(nodes)
      /\ nodes[1] = events[1]
      /\ Same(After(o, nodes, Len(nodes)), After(o, events, Len(events)))
  BY <1>2, <1>3, FileRead
<1>5. read.next \in 0 .. ClockMod - 1
  BY <1>4, Widths
<1>6. Len(nodes) \in Nat /\ Len(nodes) >= 2 /\ nodes[1].type = "INITIAL"
  BY <1>4 DEF Shape
<1>7. nodes # <<>>
  <2>1. Len(nodes) # 0 /\ Len(<<>>) = 0
    BY <1>6
  <2> QED BY <2>1
<1>8. Known(nodes, end_file.session) <=> Known(events, end_file.session)
  BY <1>4 DEF Known
<1>9. Known(nodes, end_file.session) =>
        Arrives(After(Origin(nodes[1], start_file), nodes, Len(nodes)),
                end_file.machine, end_file.clk)
  BY <1>2, <1>4, <1>8, ArrivesSame DEF o
<1>10. ASSUME nodes[1].data = "RESET" PROVE nodes[2].type # "RESETCPU"
  <2>1. events[1].data = "RESET"
    BY <1>4, <1>10
  <2>2. After(o, events, Len(events)).missed = 0
    BY <1>2, <2>1 DEF Known, Arrives
  <2> QED BY <1>2, <1>3, <2>1, <2>2, ResetNotFirst
<1> QED BY <1>2, <1>4, <1>5, <1>6, <1>7, <1>9, <1>10

\* What warp_end_list makes of it.
LEMMA EndWarped ==
  ASSUME Types, EndInv, end_file # NoFile,
         NEW t, t = warp_end_list(event_snapshot_read_module(end_file.events).nodes)
  PROVE  /\ t \in Seq(TypedNodes) /\ Shape(t) /\ t # <<>> /\ Len(t) \in Nat
         /\ NoEndBefore(t, Len(t)) /\ t[Len(t)].type = "LIST_END"
         /\ t[1] = end_file.events[1]
         /\ end_file.session \in 1 .. sessions
         /\ Known(t, end_file.session) =>
              Arrives(After(Origin(t[1], start_file), t, Len(t) - 1),
                      end_file.machine, end_file.clk)
<1> DEFINE read == event_snapshot_read_module(end_file.events)
           nodes == read.nodes
<1>1. /\ nodes \in Seq(TypedNodes) /\ Shape(nodes)
      /\ NoEndBefore(nodes, Len(nodes)) /\ nodes[1] = end_file.events[1]
      /\ end_file.session \in 1 .. sessions
      /\ Known(nodes, end_file.session) =>
           Arrives(After(Origin(nodes[1], start_file), nodes, Len(nodes)),
                   end_file.machine, end_file.clk)
  BY EndRead
<1>2. t = warp_end_list(nodes)
  OBVIOUS
<1> HIDE DEF nodes
<1>3. /\ t \in Seq(TypedNodes) /\ Shape(t)
      /\ NoEndBefore(t, Len(t)) /\ t[1] = nodes[1]
      /\ \A o : Same(After(o, t, Len(t) - 1), After(o, nodes, Len(nodes)))
  BY <1>1, <1>2, Warped
<1>4. Len(t) \in Nat /\ Len(t) >= 2 /\ t[Len(t)].type = "LIST_END"
  BY <1>3 DEF Shape
<1>5. t # <<>>
  <2>1. Len(t) # 0 /\ Len(<<>>) = 0
    BY <1>4
  <2> QED BY <2>1
<1>6. ASSUME Known(t, end_file.session)
      PROVE  Arrives(After(Origin(t[1], start_file), t, Len(t) - 1),
                     end_file.machine, end_file.clk)
  <2>1. Known(nodes, end_file.session)
    BY <1>3, <1>6 DEF Known
  <2> QED BY <1>1, <1>3, <2>1, ArrivesSame
<1> QED BY <1>1, <1>3, <1>4, <1>5, <1>6

LEMMA RecordStartLoadKeeps == Careful /\ HistoryInv /\ RecordStartLoad => HistoryInv'
<1> SUFFICES ASSUME Careful, HistoryInv, RecordStartLoad PROVE HistoryInv'
  OBVIOUS
<1>1. /\ Types /\ ControlInv /\ ListInv /\ AlarmInv /\ StampInv /\ EndInv /\ SyncInv /\ TrackInv
  BY DEF HistoryInv
<1>2. /\ trap' = "none" /\ reset = "none" /\ reset' = "none" /\ ~in_interrupt'
      /\ in_interrupt' \in BOOLEAN /\ joystick_alarm' = joystick_alarm
      /\ ~playback_reset_ack /\ Idle
  <2>1. Trap("FILE_LOAD", reset) /\ "FILE_LOAD" \in Modes
    BY DEF RecordStartLoad, Modes
  <2> QED BY <1>1, <2>1, TrapRuns
<1>3. /\ end_file # NoFile /\ clk' = end_file.clk /\ machine' = end_file.machine
      /\ list' = warp_end_list(event_snapshot_read_module(end_file.events).nodes)
      /\ cur' = Len(list') /\ sid' = end_file.session
      /\ next_timestamp_clk' = end_file.clk /\ alarm' = end_file.clk
      /\ record_active' = TRUE /\ milestone_timestamp_alarm' = 0 /\ odd' = FALSE
  BY DEF RecordStartLoad, Restore, Recording
<1>4. UNCHANGED <<sessions, start_file, end_file, faults, playback_active,
                  playback_reset_ack>>
  BY DEF RecordStartLoad, Recording, fileVars
<1>5. /\ list' \in Seq(TypedNodes) /\ Shape(list') /\ list' # <<>> /\ Len(list') \in Nat
      /\ NoEndBefore(list', Len(list')) /\ list'[Len(list')].type = "LIST_END"
      /\ list'[1] = end_file.events[1] /\ end_file.session \in 1 .. sessions
      /\ Known(list', end_file.session) =>
           Arrives(After(Origin(list'[1], start_file), list', Len(list') - 1),
                   end_file.machine, end_file.clk)
  BY <1>1, <1>3, EndWarped
<1>6. /\ end_file.clk \in 0 .. MaxClk /\ end_file.clk \in Nat /\ end_file.machine \in Seq(Inputs)
      /\ end_file.session \in Nat
  BY <1>1, Clocks DEF Types, Files
<1>7. /\ end_file.clk \in 0 .. ClockMod - 1 /\ end_file.clk \in 0 .. ClockMod
      /\ 0 \in 0 .. ClockMod - 1
  BY <1>6, Widths
<1>8. Types'
  BY <1>1, <1>2, <1>3, <1>4, <1>5, <1>6, <1>7 DEF Types
<1>9. ~playback_active' /\ ~playback_reset_ack' /\ ~Taking'
  BY <1>2, <1>4 DEF Idle, Taking
<1>10. ControlInv'
  BY <1>2, <1>9, ControlAfterTrap
<1>11. ~StopAsked'
  BY <1>3, <1>5, NoneUntil
<1>12. ListInv'
  <2>1. sid' \in 1 .. sessions'
    BY <1>3, <1>4, <1>5
  <2> QED BY <1>3, <1>5, <1>9, <1>11, <2>1, ListRecorded
<1>13. AlarmInv'
  BY <1>1, <1>3, <1>4, <1>5, <1>9 DEF AlarmInv, Idle
<1>14. StampInv'
  BY <1>2, <1>3, <1>6, Widths DEF StampInv
<1>15. EndInv'
  BY <1>1, <1>4, EndFrame
<1>16. SyncInv'
  <2>1. Known(list, sid)' <=> Known(list', end_file.session)
    BY <1>3, <1>4 DEF Known
  <2>2. Here' = After(Origin(list'[1], start_file), list', Len(list') - 1)
    BY <1>3, <1>4 DEF Here
  <2> QED BY <1>2, <1>3, <1>5, <2>1, <2>2 DEF SyncInv
<1>17. TrackInv'
  BY <1>9, TrackIdle
<1> QED BY <1>8, <1>10, <1>12, <1>13, <1>14, <1>15, <1>16, <1>17 DEF HistoryInv

LEMMA ResetMilestoneKeeps == Careful /\ HistoryInv /\ event_record_reset_milestone_trap => HistoryInv'
<1> SUFFICES ASSUME Careful, HistoryInv, event_record_reset_milestone_trap PROVE HistoryInv'
  OBVIOUS
<1> DEFINE next == event_snapshot_read_module(end_file.events).next
<1>1. /\ Types /\ ControlInv /\ ListInv /\ AlarmInv /\ StampInv /\ EndInv /\ SyncInv /\ TrackInv
  BY DEF HistoryInv
<1>2. /\ trap' = "none" /\ reset = "none" /\ reset' = "none" /\ ~in_interrupt'
      /\ in_interrupt' \in BOOLEAN /\ joystick_alarm' = joystick_alarm
      /\ ~playback_reset_ack /\ record_active /\ ~playback_active
  <2>1. Trap("return", reset)
    BY DEF event_record_reset_milestone_trap
  <2> QED BY <1>1, <2>1, TrapRuns
<1>3. /\ end_file # NoFile /\ clk' = end_file.clk /\ machine' = end_file.machine
      /\ list' = warp_end_list(event_snapshot_read_module(end_file.events).nodes)
      /\ cur' = Len(list') /\ sid' = end_file.session
      /\ IF milestone_timestamp_alarm > 0
         THEN /\ next_timestamp_clk' = milestone_timestamp_alarm
              /\ alarm' = milestone_timestamp_alarm
         ELSE next_timestamp_clk' = next /\ alarm' = alarm
      /\ odd' = (odd \/ milestone_timestamp_alarm = 0)
  BY DEF event_record_reset_milestone_trap, Restore
<1>4. /\ UNCHANGED <<sessions, playback_active, playback_reset_ack,
                     milestone_timestamp_alarm, start_file, end_file, faults>>
      /\ record_active' = record_active
  <2>1. /\ UNCHANGED <<sessions, playback_active, playback_reset_ack,
                       milestone_timestamp_alarm, start_file, end_file, faults>>
        /\ record_active' = TRUE
    BY DEF event_record_reset_milestone_trap, savedVars, fileVars
  <2> QED BY <1>1, <1>2, <2>1 DEF Types
<1>5. /\ list' \in Seq(TypedNodes) /\ Shape(list') /\ list' # <<>> /\ Len(list') \in Nat
      /\ NoEndBefore(list', Len(list')) /\ list'[Len(list')].type = "LIST_END"
      /\ list'[1] = end_file.events[1] /\ end_file.session \in 1 .. sessions
      /\ Known(list', end_file.session) =>
           Arrives(After(Origin(list'[1], start_file), list', Len(list') - 1),
                   end_file.machine, end_file.clk)
  BY <1>1, <1>3, EndWarped
<1>6. next \in 0 .. ClockMod - 1
  BY <1>1, <1>3, EndRead
<1> HIDE DEF next
<1>7. /\ end_file.clk \in 0 .. MaxClk /\ end_file.clk \in Nat /\ end_file.machine \in Seq(Inputs)
      /\ end_file.session \in Nat
  BY <1>1, Clocks DEF Types, Files
<1>8. /\ next_timestamp_clk' \in 0 .. ClockMod - 1 /\ alarm' \in 0 .. ClockMod
      /\ odd' \in BOOLEAN
  <2>1. /\ milestone_timestamp_alarm \in 0 .. ClockMod - 1
        /\ milestone_timestamp_alarm \in 0 .. ClockMod /\ alarm \in 0 .. ClockMod
        /\ odd \in BOOLEAN
    BY <1>1, Widths DEF Types
  <2> QED BY <1>3, <1>6, <2>1
<1>9. Types'
  BY <1>1, <1>2, <1>3, <1>4, <1>5, <1>7, <1>8 DEF Types
<1>10. ~playback_active' /\ ~playback_reset_ack' /\ ~Taking' /\ record_active'
  BY <1>2, <1>4 DEF Taking
<1>11. ControlInv'
  BY <1>2, <1>10, ControlAfterTrap
<1>12. ~StopAsked'
  BY <1>3, <1>5, NoneUntil
<1>13. ListInv'
  <2>1. sid' \in 1 .. sessions'
    BY <1>3, <1>4, <1>5
  <2> QED BY <1>3, <1>5, <1>10, <1>12, <2>1, ListRecorded
<1>14. AlarmInv'
  BY <1>1, <1>3, <1>4, <1>5, <1>10 DEF AlarmInv, Idle
<1>15. StampInv'
  <2>1. ASSUME ~odd'
        PROVE  /\ ~odd /\ milestone_timestamp_alarm > 0 /\ next_timestamp_clk' = alarm'
               /\ clk' <= next_timestamp_clk' + ResetCycles
               /\ next_timestamp_clk' <= clk' + Second
    <3>1. ~odd /\ milestone_timestamp_alarm # 0 /\ milestone_timestamp_alarm \in Nat
      BY <1>1, <1>3, <2>1, Clocks
    <3>2. milestone_timestamp_alarm > 0
      BY <3>1
    <3>3. /\ end_file.clk <= milestone_timestamp_alarm + ResetCycles
          /\ milestone_timestamp_alarm <= end_file.clk + Second
      BY <1>1, <1>2, <1>3, <3>1, <3>2 DEF StampInv
    <3> QED BY <1>3, <3>1, <3>2, <3>3
  <2> QED BY <1>1, <1>2, <1>4, <2>1 DEF StampInv
<1>16. EndInv'
  BY <1>1, <1>4, EndFrame
<1>17. SyncInv'
  <2>1. Known(list, sid)' <=> Known(list', end_file.session)
    BY <1>3, <1>4 DEF Known
  <2>2. Here' = After(Origin(list'[1], start_file), list', Len(list') - 1)
    BY <1>3, <1>4 DEF Here
  <2> QED BY <1>2, <1>3, <1>5, <2>1, <2>2 DEF SyncInv
<1>18. TrackInv'
  BY <1>10, TrackIdle
<1> QED BY <1>9, <1>11, <1>13, <1>14, <1>15, <1>16, <1>17, <1>18 DEF HistoryInv

LEMMA RecordStartPlaybackKeeps == Careful /\ HistoryInv /\ RecordStartPlayback => HistoryInv'
<1> SUFFICES ASSUME Careful, HistoryInv, RecordStartPlayback PROVE HistoryInv'
  OBVIOUS
<1>1. /\ Types /\ ControlInv /\ ListInv /\ AlarmInv /\ StampInv /\ EndInv /\ SyncInv /\ TrackInv
  BY DEF HistoryInv
<1>2. /\ trap = "PLAYBACK" /\ trap' = "none" /\ reset = "none" /\ reset' = "none"
      /\ ~in_interrupt' /\ in_interrupt' \in BOOLEAN /\ joystick_alarm' = joystick_alarm
      /\ ~playback_reset_ack /\ Idle
  <2>1. Trap("PLAYBACK", reset) /\ "PLAYBACK" \in Modes
    BY DEF RecordStartPlayback, Modes
  <2> QED BY <1>1, <2>1, TrapRuns
<1>3. /\ list' = [SubSeq(list, 1, cur) EXCEPT ![cur].type = "LIST_END"]
      /\ next_timestamp_clk' = clk /\ alarm' = clk /\ record_active' = TRUE
      /\ milestone_timestamp_alarm' = 0 /\ odd' = FALSE
  BY DEF RecordStartPlayback, Recording
<1>4. UNCHANGED <<clk, machine, cur, sid, sessions, start_file, end_file, faults,
                  playback_active, playback_reset_ack>>
  BY DEF RecordStartPlayback, Recording, fileVars
<1>5. Taking /\ list # <<>> /\ cur >= 2 /\ NoEndBefore(list, Len(list))
  BY <1>1, <1>2 DEF Taking, ListInv
<1>6. /\ list \in Seq(TypedNodes) /\ Shape(list) /\ cur \in 2 .. Len(list)
  BY <1>1, <1>5, ListParts
<1>7. /\ list' \in Seq(TypedNodes) /\ Shape(list') /\ Len(list') = cur /\ list'[1] = list[1]
      /\ NoEndBefore(list', cur)
      /\ \A o : After(o, list', cur - 1) = After(o, list, cur - 1)
  BY <1>3, <1>5, <1>6, CutAt
<1>8. list' # <<>> /\ cur \in Nat
  <2>1. cur \in Nat /\ cur # 0 /\ Len(<<>>) = 0
    BY <1>6
  <2> QED BY <1>7, <2>1
<1>9. /\ clk \in Nat /\ clk \in 0 .. ClockMod - 1 /\ clk \in 0 .. ClockMod
      /\ 0 \in 0 .. ClockMod - 1
  BY <1>1, Clocks, Widths
<1>10. Types'
  BY <1>1, <1>2, <1>3, <1>4, <1>7, <1>9 DEF Types
<1>11. ~playback_active' /\ ~playback_reset_ack' /\ ~Taking'
  BY <1>2, <1>4 DEF Idle, Taking
<1>12. ControlInv'
  BY <1>2, <1>11, ControlAfterTrap
<1>13. ~StopAsked'
  BY <1>4, <1>7, NoneUntil
<1>14. ListInv'
  <2>1. sid' \in 1 .. sessions' /\ list'[cur'].type = "LIST_END"
    BY <1>1, <1>4, <1>5, <1>7 DEF ListInv, Shape
  <2> QED BY <1>3, <1>4, <1>7, <1>8, <1>11, <1>13, <2>1, ListRecorded
<1>15. AlarmInv'
  BY <1>1, <1>3, <1>4, <1>5, <1>7, <1>11 DEF AlarmInv, Idle
<1>16. StampInv'
  BY <1>2, <1>3, <1>4, <1>9, Widths DEF StampInv
<1>17. EndInv'
  BY <1>1, <1>4, EndFrame
<1>18. SyncInv'
  <2>1. Known(list, sid)' <=> Known(list, sid)
    BY <1>4, <1>7 DEF Known
  <2>2. Here' = Here
    BY <1>4, <1>7 DEF Here
  <2>3. Known(list, sid) => Arrives(Here, machine, clk)
    BY <1>1, <1>2, <1>5 DEF SyncInv
  <2> QED BY <1>2, <1>4, <2>1, <2>2, <2>3 DEF SyncInv
<1>19. TrackInv'
  BY <1>11, TrackIdle
<1> QED BY <1>10, <1>12, <1>14, <1>15, <1>16, <1>17, <1>18, <1>19 DEF HistoryInv

\* end.vsf is written while the list accounts for the machine.
LEMMA EndWritten ==
  ASSUME Types, ListInv, EndInv, SyncInv, record_active, reset = "none",
         UNCHANGED <<start_file, sessions>>,
         end_file' = Snapshot(sid, event_snapshot_write_module(list))
  PROVE  /\ end_file' \in Files /\ EndInv' /\ end_file'.clk = clk
         /\ end_file'.events[1] = list[1] /\ list # <<>>
<1> DEFINE w == event_snapshot_write_module(list)
           o == Origin(list[1], start_file)
<1>1. list # <<>> /\ cur = Len(list) /\ sid \in 1 .. sessions
  BY DEF ListInv
<1>2. /\ list \in Seq(TypedNodes) /\ Shape(list) /\ Len(list) \in Nat /\ Len(list) >= 2
      /\ list[Len(list)].type = "LIST_END"
  BY <1>1, ListParts
<1>3. o.written = <<>>
  BY OriginOf
<1> HIDE DEF o
<1>4. FileEvents(w) /\ w[1] = list[1] /\ Same(After(o, w, Len(w)), After(o, list, Len(list)))
  BY <1>2, <1>3, FileWritten
<1>5. /\ end_file'.session = sid /\ end_file'.clk = clk /\ end_file'.machine = machine
      /\ end_file'.events = w
  BY DEF Snapshot
<1>6. end_file' \in Files
  <2>1. w \in Seq(TypedNodes) /\ sid \in Nat /\ clk \in 0 .. MaxClk /\ machine \in Seq(Inputs)
    BY <1>4 DEF FileEvents, Types
  <2> HIDE DEF w
  <2> QED BY <2>1 DEF Files, Snapshot, w
<1>7. Same(After(o, list, Len(list)), Here)
  <2>1. Len(list) - 1 \in Nat /\ (Len(list) - 1) + 1 = Len(list)
    BY <1>2
  <2>2. After(o, list, Len(list)) = Pass(After(o, list, Len(list) - 1), list[Len(list)])
    BY <2>1, AfterNext
  <2>3. Here = After(o, list, Len(list) - 1)
    BY <1>1 DEF Here, o
  <2>4. list[Len(list)].type \notin Played
    BY <1>2 DEF Played
  <2> QED BY <2>2, <2>3, <2>4, PassStill
<1>8. Known(list, sid) => Arrives(After(o, w, Len(w)), machine, clk)
  <2>1. Known(list, sid) => Arrives(Here, machine, clk)
    BY DEF SyncInv
  <2>2. Same(After(o, w, Len(w)), Here)
    BY <1>4, <1>7, SameChain
  <2> QED BY <2>1, <2>2, ArrivesSame
<1>9. EndInv'
  <2>1. Known(end_file.events, end_file.session)' <=> Known(list, sid)
    BY <1>4, <1>5 DEF Known
  <2>2. Origin(end_file'.events[1], start_file') = o
    BY <1>4, <1>5 DEF o
  <2>3. /\ Shape(w) /\ \A i \in 1 .. Len(w) : w[i].type # "TIMESTAMP"
    BY <1>4 DEF FileEvents
  <2> HIDE DEF w
  <2> QED BY <1>1, <1>5, <1>8, <2>1, <2>2, <2>3 DEF EndInv
<1> QED BY <1>1, <1>4, <1>5, <1>6, <1>9

\* end.vsf stays or is removed.
LEMMA EndLost ==
  ASSUME Types, EndInv, end_file' \in {end_file, NoFile}, UNCHANGED <<start_file, sessions>>
  PROVE  end_file' \in Files /\ EndInv'
<1>1. CASE end_file' = end_file
  <2>1. EndInv'
    BY <1>1, EndFrame
  <2> QED BY <1>1, <2>1 DEF Types
<1>2. CASE end_file' = NoFile
  BY <1>2, FileSession DEF EndInv
<1> QED BY <1>1, <1>2

LEMMA StopTrapKeeps == Careful /\ HistoryInv /\ event_record_stop_trap => HistoryInv'
<1> SUFFICES ASSUME Careful, HistoryInv, event_record_stop_trap PROVE HistoryInv'
  OBVIOUS
<1>1. /\ Types /\ ControlInv /\ ListInv /\ AlarmInv /\ StampInv /\ EndInv /\ SyncInv /\ TrackInv
  BY DEF HistoryInv
<1>2. /\ trap' = "none" /\ reset = "none" /\ reset' = "none"
      /\ ~in_interrupt' /\ in_interrupt' \in BOOLEAN /\ joystick_alarm' = joystick_alarm
      /\ ~playback_reset_ack /\ record_active /\ ~playback_active /\ alarm = Unset
  <2>1. Trap("stop", reset)
    BY DEF event_record_stop_trap
  <2> QED BY <1>1, <2>1, TrapRuns
<1>3. UNCHANGED <<clk, machine, list, cur, sid, sessions, playback_active,
                  playback_reset_ack, alarm, next_timestamp_clk, milestone_timestamp_alarm,
                  start_file>>
  BY DEF event_record_stop_trap, listVars
<1>4. list # <<>> /\ list[cur].type = "LIST_END"
  BY <1>1, <1>2, ListParts DEF ListInv
<1>5. ~playback_active' /\ ~playback_reset_ack' /\ ~Taking' /\ ~Taking
  <2>1. trap = "stop"
    BY DEF event_record_stop_trap, Trap, RunTrap
  <2> QED BY <1>2, <1>3, <2>1 DEF Taking
<1>6. ControlInv'
  BY <1>2, <1>5, ControlAfterTrap
<1>7. TrackInv'
  BY <1>5, TrackIdle
<1>8. CASE /\ end_file' = Snapshot(sid, event_snapshot_write_module(list))
           /\ UNCHANGED faults /\ record_active' = FALSE /\ UNCHANGED odd
  <2>1. /\ end_file' \in Files /\ EndInv' /\ end_file'.events[1] = list[1]
    BY <1>1, <1>2, <1>3, <1>8, EndWritten
  <2>2. Types'
    BY <1>1, <1>2, <1>3, <1>8, <2>1 DEF Types
  <2>3. ListInv'
    BY <1>1, <1>3, <1>4, <1>5, <1>8 DEF ListInv, StopAsked
  <2>4. AlarmInv'
    BY <1>1, <1>2, <1>3, <1>4, <1>5, <1>8, <2>1 DEF AlarmInv
  <2>5. StampInv'
    BY <1>8 DEF StampInv
  <2>6. SyncInv'
    BY <1>5, <1>8, SyncIdle
  <2> QED BY <1>6, <1>7, <2>1, <2>2, <2>3, <2>4, <2>5, <2>6 DEF HistoryInv
<1>9. CASE end_file' \in WriteFailed(end_file) /\ Fault /\ odd' = TRUE /\ UNCHANGED record_active
  <2>1. end_file' \in {end_file, NoFile} /\ faults = 0 /\ faults' = 1
    BY <1>1, <1>9, FirstFault DEF WriteFailed
  <2>2. end_file' \in Files /\ EndInv'
    BY <1>1, <1>3, <2>1, EndLost
  <2>3. Types'
    BY <1>1, <1>2, <1>3, <1>9, <2>1, <2>2 DEF Types
  <2>4. ListInv'
    BY <1>1, <1>2, <1>3, <1>5, <1>9 DEF ListInv, StopAsked
  <2>5. AlarmInv'
    BY <1>1, <1>2, <1>3, <1>4, <1>5, <1>9, <2>1 DEF AlarmInv, Idle
  <2>6. StampInv'
    BY <1>9 DEF StampInv
  <2>7. SyncInv'
    BY <1>1, <1>2, <1>3, <1>5, <1>9, SyncFrame
  <2> QED BY <1>6, <1>7, <2>2, <2>3, <2>4, <2>5, <2>6, <2>7 DEF HistoryInv
<1> QED BY <1>8, <1>9 DEF event_record_stop_trap

LEMMA SetMilestoneKeeps ==
  Careful /\ HistoryInv /\ event_record_set_milestone_trap => HistoryInv'
<1> SUFFICES ASSUME Careful, HistoryInv, event_record_set_milestone_trap PROVE HistoryInv'
  OBVIOUS
<1>1. /\ Types /\ ControlInv /\ ListInv /\ AlarmInv /\ StampInv /\ EndInv /\ SyncInv /\ TrackInv
  BY DEF HistoryInv
<1>2. /\ trap = "set" /\ trap' = "none" /\ reset = "none" /\ reset' = "none"
      /\ ~in_interrupt' /\ in_interrupt' \in BOOLEAN /\ joystick_alarm' = joystick_alarm
      /\ ~playback_reset_ack /\ record_active /\ ~playback_active
  <2>1. Trap("set", reset)
    BY DEF event_record_set_milestone_trap
  <2> QED BY <1>1, <2>1, TrapRuns
<1>3. UNCHANGED <<clk, machine, list, cur, sid, sessions, record_active, playback_active,
                  playback_reset_ack, alarm, next_timestamp_clk, odd, start_file>>
  BY DEF event_record_set_milestone_trap, listVars, modeVars, stampVars
<1>4. ~playback_active' /\ ~playback_reset_ack' /\ ~Taking' /\ ~Taking
  BY <1>2, <1>3 DEF Taking
<1>5. ControlInv'
  BY <1>2, <1>4, ControlAfterTrap
<1>6. TrackInv'
  BY <1>4, TrackIdle
<1>7. SyncInv'
  BY <1>1, <1>2, <1>3, <1>4, SyncFrame
<1>8. ~odd => ~StopAsked
  BY <1>1, <1>2 DEF ListInv
<1>9. ListInv'
  BY <1>1, <1>2, <1>3, <1>4, <1>8 DEF ListInv, StopAsked
<1>10. StopAsked' <=> StopAsked
  BY <1>3 DEF StopAsked
<1>11. CASE /\ end_file' = Snapshot(sid, event_snapshot_write_module(list))
            /\ UNCHANGED faults /\ milestone_timestamp_alarm' = next_timestamp_clk
  <2>1. /\ end_file' \in Files /\ EndInv' /\ end_file'.clk = clk
        /\ end_file'.events[1] = list[1] /\ list # <<>>
    BY <1>1, <1>2, <1>3, <1>11, EndWritten
  <2>2. Types'
    BY <1>1, <1>2, <1>3, <1>11, <2>1 DEF Types
  <2>3. AlarmInv'
    BY <1>1, <1>2, <1>3, <1>4, <1>11, <2>1 DEF AlarmInv, Idle
  <2>4. StampInv'
    <3>1. ~odd => /\ alarm = next_timestamp_clk
                  /\ clk <= next_timestamp_clk + ResetCycles
                  /\ next_timestamp_clk <= clk + Second
      BY <1>1, <1>2, <1>8 DEF StampInv
    <3> QED BY <1>2, <1>3, <1>11, <2>1, <3>1 DEF StampInv
  <2> QED BY <1>5, <1>6, <1>7, <1>9, <2>1, <2>2, <2>3, <2>4 DEF HistoryInv
<1>12. CASE end_file' \in WriteFailed(end_file) /\ Fault /\ UNCHANGED milestone_timestamp_alarm
  <2>1. end_file' \in {end_file, NoFile} /\ faults = 0 /\ faults' = 1
    BY <1>1, <1>12, FirstFault DEF WriteFailed
  <2>2. end_file' \in Files /\ EndInv'
    BY <1>1, <1>3, <2>1, EndLost
  <2>3. Types'
    BY <1>1, <1>2, <1>3, <1>12, <2>1, <2>2 DEF Types
  <2>4. AlarmInv'
    BY <1>1, <1>2, <1>3, <1>4, <2>1 DEF AlarmInv, Idle
  <2>5. StampInv'
    BY <1>1, <1>2, <1>3, <1>10, <1>12, <2>1 DEF StampInv
  <2> QED BY <1>5, <1>6, <1>7, <1>9, <2>2, <2>3, <2>4, <2>5 DEF HistoryInv
<1> QED BY <1>11, <1>12 DEF event_record_set_milestone_trap

LEMMA EndNotThereKeeps == Careful /\ HistoryInv /\ EndNotThere => HistoryInv'
<1> SUFFICES ASSUME Careful, HistoryInv, EndNotThere PROVE HistoryInv'
  OBVIOUS
<1>1. /\ Types /\ ControlInv /\ ListInv /\ AlarmInv /\ StampInv /\ EndInv /\ SyncInv /\ TrackInv
  BY DEF HistoryInv
<1>2. UNCHANGED <<clk, machine, list, cur, sid, sessions, playback_active,
                  playback_reset_ack, alarm, next_timestamp_clk, odd,
                  milestone_timestamp_alarm, start_file, end_file, faults>>
  BY DEF EndNotThere, listVars, stampVars, savedVars, fileVars
<1>3. /\ trap' = "none" /\ trap # "PLAYBACK" /\ reset = "none" /\ reset' = "none"
      /\ ~in_interrupt' /\ in_interrupt' \in BOOLEAN /\ joystick_alarm' = joystick_alarm
      /\ ~playback_reset_ack /\ ~playback_active /\ record_active' = FALSE
      /\ end_file = NoFile
  <2>1. end_file = NoFile
    BY DEF EndNotThere
  <2>2. CASE Trap("return", reset) /\ record_active' = FALSE
    BY <1>1, <2>1, <2>2, TrapRuns
  <2>3. CASE Trap("play", reset) /\ UNCHANGED record_active
    <3>1. /\ trap = "play" /\ trap' = "none" /\ reset = "none" /\ reset' = "none"
          /\ ~in_interrupt' /\ in_interrupt' \in BOOLEAN /\ joystick_alarm' = joystick_alarm
          /\ ~playback_reset_ack /\ Idle
      BY <1>1, <2>3, TrapRuns
    <3>2. record_active' = FALSE
      BY <1>1, <2>3, <3>1 DEF Idle, Types
    <3> QED BY <2>1, <3>1, <3>2 DEF Idle
  <2>4. CASE Trap("FILE_LOAD", reset) /\ UNCHANGED record_active
    <3>0. "FILE_LOAD" \in Modes
      BY DEF Modes
    <3>1. /\ trap = "FILE_LOAD" /\ trap' = "none" /\ reset = "none" /\ reset' = "none"
          /\ ~in_interrupt' /\ in_interrupt' \in BOOLEAN /\ joystick_alarm' = joystick_alarm
          /\ ~playback_reset_ack /\ Idle
      BY <1>1, <2>4, <3>0, TrapRuns
    <3>2. record_active' = FALSE
      BY <1>1, <2>4, <3>1 DEF Idle, Types
    <3> QED BY <2>1, <3>1, <3>2 DEF Idle
  <2> QED BY <2>2, <2>3, <2>4 DEF EndNotThere
<1>4. ~playback_active' /\ ~playback_reset_ack' /\ ~Taking' /\ ~Taking
  BY <1>2, <1>3 DEF Taking
<1>5. Types'
  BY <1>1, <1>2, <1>3 DEF Types
<1>6. ControlInv'
  BY <1>3, <1>4, ControlAfterTrap
<1>7. ListInv'
  BY <1>1, <1>2, <1>3, <1>4 DEF ListInv, StopAsked
<1>8. AlarmInv'
  <2>1. record_active => list # <<>> /\ list[cur].type = "LIST_END"
    BY <1>1, ListParts DEF ListInv
  <2> QED BY <1>1, <1>2, <1>3, <1>4, <2>1 DEF AlarmInv, Idle
<1>9. StampInv'
  BY <1>3 DEF StampInv
<1>10. EndInv'
  BY <1>1, <1>2, EndFrame
<1>11. SyncInv'
  BY <1>3, <1>4, SyncIdle
<1>12. TrackInv'
  BY <1>4, TrackIdle
<1> QED BY <1>5, <1>6, <1>7, <1>8, <1>9, <1>10, <1>11, <1>12 DEF HistoryInv

\* A machine that could not be read.
LEMMA BrokenTyped ==
  ASSUME NEW file \in Files
  PROVE  file.clk \in 0 .. MaxClk /\ <<<<file.clk, "broken">>>> \in Seq(Inputs)
<1>1. file.clk \in 0 .. MaxClk /\ file.clk \in Nat
  BY Widths DEF Files
<1> DEFINE x == <<file.clk, "broken">>
<1>2. x \in Inputs
  BY <1>1 DEF Inputs
<1> HIDE DEF x
<1>3. <<x>> \in Seq(Inputs)
  BY <1>2
<1> QED BY <1>1, <1>3 DEF x

LEMMA EndUnreadableKeeps ==
  Careful /\ HistoryInv /\ EndUnreadable(FALSE) => HistoryInv'
<1> SUFFICES ASSUME Careful, HistoryInv, EndUnreadable(FALSE) PROVE HistoryInv'
  OBVIOUS
<1>1. /\ Types /\ ControlInv /\ ListInv /\ AlarmInv /\ StampInv /\ EndInv /\ SyncInv /\ TrackInv
  BY DEF HistoryInv
<1>2. /\ UNCHANGED <<sid, sessions, playback_active, playback_reset_ack, alarm, odd,
                     milestone_timestamp_alarm, start_file, end_file>>
      /\ clk' = end_file.clk /\ machine' = <<<<end_file.clk, "broken">>>>
      /\ end_file # NoFile
  BY DEF EndUnreadable, Unreadable
<1>3. faults = 0 /\ faults' = 1
  BY <1>1, FirstFault DEF EndUnreadable
<1>4. /\ trap' = "none" /\ trap # "PLAYBACK" /\ reset' = "soft"
      /\ in_interrupt' /\ in_interrupt' \in BOOLEAN /\ joystick_alarm' = joystick_alarm
      /\ ~playback_reset_ack /\ ~playback_active /\ record_active' = FALSE
      /\ UNCHANGED <<list, cur, next_timestamp_clk>>
  <2>1. ~playback_active => ResetOr("soft") = "soft"
    BY DEF ResetOr
  <2>2. CASE /\ RunTrap("return", ResetOr("soft")) /\ record_active' = FALSE
             /\ UNCHANGED <<list, cur, next_timestamp_clk>>
    <3>1. /\ trap = "return" /\ trap' = "none" /\ reset' = ResetOr("soft")
          /\ in_interrupt' = (ResetOr("soft") # "none")
          /\ in_interrupt' \in BOOLEAN /\ joystick_alarm' = joystick_alarm
          /\ ~playback_reset_ack /\ ~playback_active
      BY <1>1, <2>2, TrapRuns
    <3> QED BY <2>1, <2>2, <3>1
  <2>3. CASE /\ RunTrap("FILE_LOAD", ResetOr("soft")) /\ UNCHANGED record_active
             /\ ResetRecorded("soft", 1, list, cur, next_timestamp_clk)
    <3>0. "FILE_LOAD" \in Modes
      BY DEF Modes
    <3>1. /\ trap = "FILE_LOAD" /\ trap' = "none" /\ reset' = ResetOr("soft")
          /\ in_interrupt' = (ResetOr("soft") # "none")
          /\ in_interrupt' \in BOOLEAN /\ joystick_alarm' = joystick_alarm
          /\ ~playback_reset_ack /\ Idle
      BY <1>1, <2>3, <3>0, TrapRuns
    <3>2. record_active' = FALSE /\ ~playback_active /\ ~record_active
      BY <1>1, <2>3, <3>1 DEF Idle, Types
    <3>3. UNCHANGED <<list, cur, next_timestamp_clk>>
      BY <2>3, <3>2 DEF ResetRecorded
    <3> QED BY <2>1, <3>1, <3>2, <3>3
  <2> QED BY <2>2, <2>3 DEF EndUnreadable
<1>5. ~playback_active' /\ ~playback_reset_ack' /\ ~Taking' /\ ~Taking
  BY <1>2, <1>4 DEF Taking
<1>6. Types'
  <2>1. clk' \in 0 .. MaxClk /\ machine' \in Seq(Inputs)
    BY <1>1, <1>2, BrokenTyped DEF Types
  <2> QED BY <1>1, <1>2, <1>3, <1>4, <2>1 DEF Types
<1>7. ControlInv'
  BY <1>4, <1>5, ControlAfterTrap
<1>8. ListInv'
  BY <1>1, <1>2, <1>4, <1>5 DEF ListInv, StopAsked
<1>9. AlarmInv'
  <2>1. record_active => list # <<>> /\ list[cur].type = "LIST_END"
    BY <1>1, ListParts DEF ListInv
  <2> QED BY <1>1, <1>2, <1>3, <1>4, <1>5, <2>1 DEF AlarmInv, Idle
<1>10. StampInv'
  BY <1>4 DEF StampInv
<1>11. EndInv'
  BY <1>1, <1>2, EndFrame
<1>12. SyncInv'
  BY <1>4, <1>5, SyncIdle
<1>13. TrackInv'
  BY <1>5, TrackIdle
<1> QED BY <1>6, <1>7, <1>8, <1>9, <1>10, <1>11, <1>12, <1>13 DEF HistoryInv

\* A read that fails later is a slip.
LEMMA LateFailureSlips == Careful => ~EndUnreadable(TRUE)
<1> SUFFICES ASSUME Careful, EndUnreadable(TRUE) PROVE FALSE
  OBVIOUS
<1>1. Slip(When(TRUE, "late_failure")) /\ slips' = {}
  BY DEF EndUnreadable, Careful, Regular
<1> QED BY <1>1 DEF Slip, When

\* The list of end.vsf is read to be played.
LEMMA ModuleRead ==
  ASSUME Types, EndInv, end_file # NoFile, ReadModule,
         UNCHANGED <<start_file, end_file, sessions>>
  PROVE  /\ list' \in Seq(TypedNodes) /\ Shape(list') /\ list' # <<>> /\ Len(list') \in Nat
         /\ Len(list') >= 2 /\ next_timestamp_clk' \in 0 .. ClockMod - 1
         /\ NoEndBefore(list', Len(list')) /\ StampsBefore(list')
         /\ list'[1] = end_file.events[1] /\ list'[1].type = "INITIAL"
         /\ sid' \in 1 .. sessions' /\ sid' \in Nat
         /\ Known(list, sid)' => Arrives(AtEnd', end_file.machine, end_file.clk)
         /\ list'[1].data = "RESET" => list'[2].type # "RESETCPU"
         /\ list'[2].clk \in 0 .. ClockMod
<1> DEFINE read == event_snapshot_read_module(end_file.events)
<1>1. list' = read.nodes /\ next_timestamp_clk' = read.next /\ sid' = end_file.session
  BY DEF ReadModule
<1>2. /\ list' \in Seq(TypedNodes) /\ Shape(list') /\ list' # <<>> /\ Len(list') \in Nat
      /\ Len(list') >= 2 /\ read.next \in 0 .. ClockMod - 1
      /\ NoEndBefore(list', Len(list')) /\ StampsBefore(list')
      /\ list'[1] = end_file.events[1] /\ list'[1].type = "INITIAL"
      /\ end_file.session \in 1 .. sessions
      /\ Known(list', end_file.session) =>
           Arrives(After(Origin(list'[1], start_file), list', Len(list')),
                   end_file.machine, end_file.clk)
      /\ list'[1].data = "RESET" => list'[2].type # "RESETCPU"
  BY <1>1, EndRead
<1>3. Known(list, sid)' <=> Known(list', end_file.session)
  BY <1>1 DEF Known
<1>4. AtEnd' = After(Origin(list'[1], start_file), list', Len(list'))
  BY DEF AtEnd
<1>5. list'[2].clk \in 0 .. ClockMod
  <2>1. list'[2] \in TypedNodes
    BY <1>2
  <2> QED BY <2>1, NodeParts, Widths
<1>6. end_file.session \in Nat
  BY <1>2
<1> QED BY <1>1, <1>2, <1>3, <1>4, <1>5, <1>6

LEMMA PlaybackStartFileKeeps == Careful /\ HistoryInv /\ PlaybackStartFile => HistoryInv'
<1> SUFFICES ASSUME Careful, HistoryInv, PlaybackStartFile PROVE HistoryInv'
  OBVIOUS
<1>1. /\ Types /\ ControlInv /\ ListInv /\ AlarmInv /\ StampInv /\ EndInv /\ SyncInv /\ TrackInv
  BY DEF HistoryInv
<1>2. /\ trap' = "none" /\ reset = "none" /\ reset' = "none" /\ ~in_interrupt'
      /\ in_interrupt' \in BOOLEAN /\ joystick_alarm' = joystick_alarm
      /\ joystick_alarm = Unset /\ ~playback_reset_ack /\ Idle
  <2>1. Trap("play", reset)
    BY DEF PlaybackStartFile
  <2> QED BY <1>1, <2>1, TrapRuns
<1>3. /\ end_file # NoFile /\ end_file.events[1].data # "RESET" /\ start_file # NoFile
      /\ ReadModule /\ clk' = start_file.clk /\ machine' = start_file.machine
      /\ cur' = 2 /\ alarm' = list'[2].clk /\ playback_active' = TRUE
  BY DEF PlaybackStartFile, Restore
<1>4. UNCHANGED <<sessions, record_active, playback_reset_ack, odd,
                  milestone_timestamp_alarm, start_file, end_file, faults>>
  BY DEF PlaybackStartFile, savedVars, fileVars
<1>5. /\ list' \in Seq(TypedNodes) /\ Shape(list') /\ list' # <<>> /\ Len(list') \in Nat
      /\ Len(list') >= 2 /\ next_timestamp_clk' \in 0 .. ClockMod - 1
      /\ NoEndBefore(list', Len(list')) /\ StampsBefore(list')
      /\ list'[1] = end_file.events[1] /\ list'[1].type = "INITIAL"
      /\ sid' \in 1 .. sessions' /\ sid' \in Nat
      /\ Known(list, sid)' => Arrives(AtEnd', end_file.machine, end_file.clk)
      /\ list'[2].clk \in 0 .. ClockMod
  BY <1>1, <1>3, <1>4, ModuleRead
<1>6. start_file.clk \in 0 .. MaxClk /\ start_file.machine \in Seq(Inputs)
  BY <1>1 DEF Types, Files
<1>7. Types'
  BY <1>1, <1>2, <1>3, <1>4, <1>5, <1>6 DEF Types
<1>8. ~record_active' /\ ~playback_reset_ack' /\ Taking'
  BY <1>2, <1>3, <1>4 DEF Idle, Taking
<1>9. ControlInv'
  BY <1>2, <1>3, <1>8 DEF ControlInv, Modes
<1>10. ListInv'
  <2>1. cur' \in 1 .. Len(list') /\ cur' >= 2
    BY <1>3, <1>5
  <2>2. ~StopAsked'
    BY <1>8 DEF StopAsked
  <2> QED BY <1>5, <1>8, <2>1, <2>2 DEF ListInv
<1>11. AlarmInv'
  BY <1>2, <1>3, <1>4 DEF AlarmInv, Idle
<1>12. StampInv'
  BY <1>8 DEF StampInv
<1>13. EndInv'
  BY <1>1, <1>4, EndFrame
<1>14. ASSUME Known(list, sid)'
       PROVE  /\ Arrives(Here', machine', clk')
              /\ Heading(list', cur', clk', machine', end_file.clk)
  <2> DEFINE o == Origin(list'[1], start_file)
  <2>1. Here' = After(o, list', 2 - 1) /\ AtEnd' = After(o, list', Len(list'))
    BY <1>3, <1>4 DEF Here, AtEnd
  <2>2. Same(After(o, list', 1), o)
    BY <1>5, AfterInitial
  <2>3. o.missed = 0 /\ o.m = machine' /\ o.at = clk'
    BY <1>3, <1>5, OriginOf
  <2>4. Arrives(After(o, list', Len(list')), end_file.machine, end_file.clk)
    BY <1>5, <1>14, <2>1
  <2> HIDE DEF o
  <2>5. 2 \in 1 .. Len(list') /\ Same(After(o, list', 2 - 1), o)
    BY <1>5, <2>2
  <2>6. Heading(list', 2, o.at, o.m, end_file.clk)
    BY <1>5, <2>3, <2>4, <2>5, OnTrack
  <2>7. Arrives(Here', machine', clk')
    BY <2>1, <2>3, <2>5 DEF Arrives, Same, Reach
  <2> QED BY <1>3, <2>3, <2>6, <2>7
<1>15. SyncInv'
  BY <1>2, <1>14 DEF SyncInv
<1>16. TrackInv'
  BY <1>4, <1>5, <1>14 DEF TrackInv
<1> QED BY <1>7, <1>9, <1>10, <1>11, <1>12, <1>13, <1>15, <1>16 DEF HistoryInv

LEMMA PlaybackStartResetKeeps == Careful /\ HistoryInv /\ PlaybackStartReset => HistoryInv'
<1> SUFFICES ASSUME Careful, HistoryInv, PlaybackStartReset PROVE HistoryInv'
  OBVIOUS
<1>1. /\ Types /\ ControlInv /\ ListInv /\ AlarmInv /\ StampInv /\ EndInv /\ SyncInv /\ TrackInv
  BY DEF HistoryInv
<1>2. /\ trap' = "none" /\ reset' = "hard" /\ in_interrupt'
      /\ in_interrupt' \in BOOLEAN /\ joystick_alarm' = joystick_alarm
      /\ joystick_alarm = Unset /\ ~playback_reset_ack /\ Idle
  <2>1. Trap("play", ResetOr("hard"))
    BY DEF PlaybackStartReset
  <2>2. /\ trap' = "none" /\ reset' = ResetOr("hard") /\ in_interrupt' = (ResetOr("hard") # "none")
        /\ in_interrupt' \in BOOLEAN /\ joystick_alarm' = joystick_alarm
        /\ joystick_alarm = Unset /\ ~playback_reset_ack /\ Idle
    BY <1>1, <2>1, TrapRuns
  <2>3. ResetOr("hard") = "hard"
    BY <2>2 DEF Idle, ResetOr
  <2> QED BY <2>2, <2>3
<1>3. /\ end_file # NoFile /\ end_file.events[1].data = "RESET"
      /\ ReadModule /\ cur' = 2 /\ playback_active' = TRUE /\ playback_reset_ack' = TRUE
  BY <1>2 DEF PlaybackStartReset, Idle
<1>4. UNCHANGED <<clk, machine, sessions, record_active, alarm, odd,
                  milestone_timestamp_alarm, start_file, end_file, faults>>
  BY DEF PlaybackStartReset, savedVars, fileVars
<1>5. /\ list' \in Seq(TypedNodes) /\ Shape(list') /\ list' # <<>> /\ Len(list') \in Nat
      /\ Len(list') >= 2 /\ next_timestamp_clk' \in 0 .. ClockMod - 1
      /\ NoEndBefore(list', Len(list')) /\ StampsBefore(list')
      /\ list'[1] = end_file.events[1]
      /\ sid' \in 1 .. sessions' /\ sid' \in Nat
      /\ Known(list, sid)' => Arrives(AtEnd', end_file.machine, end_file.clk)
      /\ list'[1].data = "RESET" => list'[2].type # "RESETCPU"
  BY <1>1, <1>3, <1>4, ModuleRead
<1>6. Types'
  BY <1>1, <1>2, <1>3, <1>4, <1>5 DEF Types
<1>7. ~record_active' /\ Taking'
  BY <1>2, <1>3, <1>4 DEF Idle, Taking
<1>8. ControlInv'
  BY <1>2, <1>3, <1>7 DEF ControlInv, Modes
<1>9. ListInv'
  <2>1. cur' \in 1 .. Len(list') /\ cur' >= 2
    BY <1>3, <1>5
  <2>2. ~StopAsked'
    BY <1>7 DEF StopAsked
  <2> QED BY <1>3, <1>5, <1>7, <2>1, <2>2 DEF ListInv
<1>10. AlarmInv'
  BY <1>2, <1>3, <1>4, <1>5 DEF AlarmInv, Idle
<1>11. StampInv'
  BY <1>7 DEF StampInv
<1>12. EndInv'
  BY <1>1, <1>4, EndFrame
<1>13. SyncInv'
  BY <1>2, <1>3, <1>7 DEF SyncInv
<1>14. TrackInv'
  BY <1>2, <1>4, <1>5 DEF TrackInv
<1> QED BY <1>6, <1>8, <1>9, <1>10, <1>11, <1>12, <1>13, <1>14 DEF HistoryInv

\* A list was read and nothing is played.
LEMMA NotPlayed ==
  ASSUME Types, EndInv, AlarmInv, Idle, ~playback_reset_ack, joystick_alarm' = joystick_alarm,
         UNCHANGED <<sessions, record_active, playback_active, playback_reset_ack, alarm, odd,
                     milestone_timestamp_alarm, start_file, end_file>>,
         trap' = "none", reset' \in {"none", "soft"}, in_interrupt' \in BOOLEAN,
         in_interrupt' <=> reset' # "none",
         clk' \in 0 .. MaxClk, machine' \in Seq(Inputs), faults' \in Nat, faults' = 1,
         alarm = Unset, next_timestamp_clk' \in 0 .. ClockMod - 1,
         list' \in Seq(TypedNodes), list' # <<>>, Len(list') \in Nat, Len(list') >= 1,
         cur' = 1, list'[1].type # "RESETCPU", Shape(list') \/ list' = <<TailNode>>,
         sid' \in 1 .. sessions', sid' \in Nat
  PROVE  HistoryInv'
<1>1. Types'
  BY DEF Types
<1>2. ~record_active' /\ ~playback_active' /\ ~playback_reset_ack' /\ ~Taking'
  BY DEF Idle, Taking
<1>3. ControlInv'
  BY <1>2, ControlAfterTrap
<1>4. ListInv'
  <2>1. cur' \in 1 .. Len(list') /\ list'[cur'].type # "RESETCPU"
    OBVIOUS
  <2>2. ~StopAsked'
    BY <1>2 DEF StopAsked
  <2> QED BY <1>2, <2>1, <2>2 DEF ListInv
<1>5. AlarmInv'
  BY <1>2 DEF AlarmInv
<1>6. StampInv'
  BY <1>2 DEF StampInv
<1>7. EndInv'
  BY EndFrame
<1>8. SyncInv'
  BY <1>2, SyncIdle
<1>9. TrackInv'
  BY <1>2, TrackIdle
<1> QED BY <1>1, <1>3, <1>4, <1>5, <1>6, <1>7, <1>8, <1>9 DEF HistoryInv

\* The first event of end.vsf is the initial one.
LEMMA ModuleKept ==
  ASSUME Types, EndInv, end_file # NoFile, ReadModule,
         UNCHANGED <<start_file, end_file, sessions>>
  PROVE  /\ list' \in Seq(TypedNodes) /\ Shape(list') /\ list' # <<>> /\ Len(list') \in Nat
         /\ Len(list') >= 1 /\ next_timestamp_clk' \in 0 .. ClockMod - 1
         /\ list'[1].type # "RESETCPU" /\ sid' \in 1 .. sessions' /\ sid' \in Nat
<1>1. /\ list' \in Seq(TypedNodes) /\ Shape(list') /\ list' # <<>> /\ Len(list') \in Nat
      /\ Len(list') >= 2 /\ next_timestamp_clk' \in 0 .. ClockMod - 1
      /\ list'[1].type = "INITIAL" /\ sid' \in 1 .. sessions' /\ sid' \in Nat
  BY ModuleRead
<1> QED BY <1>1

LEMMA PlaybackStartNoFileKeeps ==
  Careful /\ HistoryInv /\ PlaybackStartNoFile => HistoryInv'
<1> SUFFICES ASSUME Careful, HistoryInv, PlaybackStartNoFile PROVE HistoryInv'
  OBVIOUS
<1>1. Types /\ ControlInv /\ ListInv /\ AlarmInv /\ EndInv
  BY DEF HistoryInv
<1>2. /\ end_file # NoFile /\ end_file.events[1].data # "RESET" /\ start_file = NoFile
      /\ ReadModule /\ cur' = 1
  BY DEF PlaybackStartNoFile
<1>3. UNCHANGED <<clk, machine, sessions, record_active, playback_active, playback_reset_ack,
                  alarm, odd, milestone_timestamp_alarm, start_file, end_file, faults>>
  BY DEF PlaybackStartNoFile, modeVars, savedVars, fileVars
<1>4. /\ list' \in Seq(TypedNodes) /\ Shape(list') /\ list' # <<>> /\ Len(list') \in Nat
      /\ Len(list') >= 1 /\ next_timestamp_clk' \in 0 .. ClockMod - 1
      /\ list'[1].type # "RESETCPU" /\ sid' \in 1 .. sessions' /\ sid' \in Nat
  BY <1>1, <1>2, <1>3, ModuleKept
<1>5. /\ trap' = "none" /\ reset' = "none" /\ ~in_interrupt' /\ in_interrupt' \in BOOLEAN
      /\ joystick_alarm' = joystick_alarm /\ ~playback_reset_ack /\ Idle
  <2>1. Trap("play", reset)
    BY DEF PlaybackStartNoFile
  <2> QED BY <1>1, <2>1, TrapRuns
<1>6. faults' = 1 /\ alarm = Unset
  BY <1>1, <1>2, <1>3, <1>5 DEF AlarmInv
<1>7. clk' \in 0 .. MaxClk /\ machine' \in Seq(Inputs) /\ faults' \in Nat
  BY <1>1, <1>3 DEF Types
<1> QED BY <1>1, <1>2, <1>3, <1>4, <1>5, <1>6, <1>7, NotPlayed

LEMMA PlaybackStartFailsKeeps ==
  Careful /\ HistoryInv /\ PlaybackStartFails => HistoryInv'
<1> SUFFICES ASSUME Careful, HistoryInv, PlaybackStartFails PROVE HistoryInv'
  OBVIOUS
<1>1. Types /\ ControlInv /\ ListInv /\ AlarmInv /\ EndInv
  BY DEF HistoryInv
<1>2. UNCHANGED <<sessions, record_active, playback_active, playback_reset_ack, alarm, odd,
                  milestone_timestamp_alarm, start_file, end_file>>
  BY DEF PlaybackStartFails, modeVars
<1>3. /\ trap' = "none" /\ reset' = "soft" /\ in_interrupt' /\ in_interrupt' \in BOOLEAN
      /\ joystick_alarm' = joystick_alarm /\ ~playback_reset_ack /\ Idle
  <2>1. Trap("play", ResetOr("soft"))
    BY DEF PlaybackStartFails
  <2>2. /\ trap' = "none" /\ reset' = ResetOr("soft")
        /\ in_interrupt' = (ResetOr("soft") # "none") /\ in_interrupt' \in BOOLEAN
        /\ joystick_alarm' = joystick_alarm /\ ~playback_reset_ack /\ Idle
    BY <1>1, <2>1, TrapRuns
  <2>3. ResetOr("soft") = "soft"
    BY <2>2 DEF Idle, ResetOr
  <2> QED BY <2>2, <2>3
<1>4. /\ end_file # NoFile /\ ReadModule /\ cur' = 1
  <2> DEFINE read == event_snapshot_read_module(end_file.events)
  <2>1. ResetRecorded("soft", 2, read.nodes, 1, read.next) /\ sid' = end_file.session
        /\ end_file # NoFile
    BY DEF PlaybackStartFails
  <2>2. list' = read.nodes /\ cur' = 1 /\ next_timestamp_clk' = read.next
    BY <1>3, <2>1 DEF ResetRecorded, Idle
  <2> QED BY <2>1, <2>2 DEF ReadModule
<1>5. /\ list' \in Seq(TypedNodes) /\ Shape(list') /\ list' # <<>> /\ Len(list') \in Nat
      /\ Len(list') >= 1 /\ next_timestamp_clk' \in 0 .. ClockMod - 1
      /\ list'[1].type # "RESETCPU" /\ sid' \in 1 .. sessions' /\ sid' \in Nat
  BY <1>1, <1>2, <1>4, ModuleKept
<1>6. faults = 0 /\ faults' = 1
  BY <1>1, FirstFault DEF PlaybackStartFails
<1>7. alarm = Unset
  BY <1>1, <1>3, <1>4, <1>6 DEF AlarmInv
<1>8. clk' \in 0 .. MaxClk /\ machine' \in Seq(Inputs) /\ faults' \in Nat
  BY <1>1, <1>6, BrokenTyped DEF Types, Unreadable, PlaybackStartFails
<1> QED BY <1>1, <1>2, <1>3, <1>4, <1>5, <1>6, <1>7, <1>8, NotPlayed

\* The first n events of a file, which is cut after them.
LEMMA CutEvents ==
  ASSUME NEW events, FileEvents(events), NEW n \in 1 .. FirstEnd(events) - 1
  PROVE  FileEvents(SubSeq(events, 1, n) \o <<TailNode>>)
<1> DEFINE t == SubSeq(events, 1, n)
           c == t \o <<TailNode>>
<1>1. /\ events \in Seq(TypedNodes) /\ Shape(events) /\ Len(events) \in Nat
      /\ DOMAIN events = 1 .. Len(events)
      /\ \A i \in 1 .. Len(events) : events[i].type # "TIMESTAMP"
  BY DEF FileEvents
<1>2. FirstEnd(events) \in 2 .. Len(events) /\ NoEndBefore(events, FirstEnd(events))
  BY <1>1, FirstEndFound
<1>3. n \in Nat /\ n >= 1 /\ n < FirstEnd(events) /\ n <= Len(events)
  BY <1>1, <1>2
<1>4. t \in Seq(TypedNodes) /\ Len(t) = n /\ \A i \in 1 .. n : t[i] = events[i]
  BY <1>1, <1>3
<1> HIDE DEF t
<1>5. /\ c \in Seq(TypedNodes) /\ Len(c) = n + 1 /\ c[n + 1] = TailNode
      /\ \A i \in 1 .. n : c[i] = events[i]
  <2>1. Len(<<TailNode>>) = 1 /\ <<TailNode>> \in Seq(TypedNodes)
    BY TailTyped
  <2> QED BY <1>3, <1>4, <2>1
<1> HIDE DEF c
<1>6. \A i \in 1 .. n : /\ c[i].type # "TIMESTAMP" /\ c[i].type # "LIST_END"
                        /\ i # 1 => c[i].type # "INITIAL"
  <2> SUFFICES ASSUME NEW i \in 1 .. n
               PROVE  /\ c[i].type # "TIMESTAMP" /\ c[i].type # "LIST_END"
                      /\ i # 1 => c[i].type # "INITIAL"
    OBVIOUS
  <2>1. i \in 1 .. Len(events) /\ i \in 1 .. FirstEnd(events) - 1
    BY <1>1, <1>2, <1>3
  <2>2. c[i] = events[i]
    BY <1>5
  <2>3. i # 1 => i \in 2 .. Len(events)
    BY <2>1
  <2> QED BY <1>1, <1>2, <2>1, <2>2, <2>3 DEF NoEndBefore, Shape
<1>7. c[1].type = "INITIAL"
  <2>1. 1 \in 1 .. n
    BY <1>3
  <2> QED BY <1>1, <1>5, <2>1 DEF Shape
<1>8. TailNode.type = "LIST_END"
  BY TailTyped
<1>9. \A i \in 1 .. Len(c) : i \in 1 .. n \/ i = n + 1
  BY <1>3, <1>5
<1>10. Shape(c)
  <2>1. \A i \in 2 .. Len(c) : c[i].type # "INITIAL"
    <3> SUFFICES ASSUME NEW i \in 2 .. Len(c) PROVE c[i].type # "INITIAL"
      OBVIOUS
    <3>1. i # 1 /\ i \in 1 .. Len(c)
      BY <1>3, <1>5
    <3> QED BY <1>5, <1>6, <1>8, <1>9, <3>1
  <2>2. \A i, j \in 1 .. Len(c) :
          i < j /\ c[i].type = "LIST_END" => c[j].type = "LIST_END"
    <3> SUFFICES ASSUME NEW i \in 1 .. Len(c), NEW j \in 1 .. Len(c), i < j,
                        c[i].type = "LIST_END"
                 PROVE  FALSE
      OBVIOUS
    <3>1. i = n + 1
      BY <1>6, <1>9
    <3> QED BY <1>3, <1>5, <3>1
  <2>3. Len(c) >= 2 /\ c[Len(c)].type = "LIST_END"
    BY <1>3, <1>5, <1>8
  <2> QED BY <1>7, <2>1, <2>2, <2>3 DEF Shape
<1>11. \A i \in 1 .. Len(c) : c[i].type # "TIMESTAMP"
  BY <1>5, <1>6, <1>8, <1>9
<1> QED BY <1>5, <1>10, <1>11 DEF FileEvents, c, t

LEMMA PlaybackStartModuleCutKeeps ==
  Careful /\ HistoryInv /\ PlaybackStartModuleCut => HistoryInv'
<1> SUFFICES ASSUME Careful, HistoryInv, PlaybackStartModuleCut PROVE HistoryInv'
  OBVIOUS
<1>1. Types /\ ControlInv /\ ListInv /\ AlarmInv /\ EndInv
  BY DEF HistoryInv
<1>2. UNCHANGED <<clk, machine, sessions, record_active, playback_active, playback_reset_ack,
                  alarm, odd, milestone_timestamp_alarm, start_file, end_file>>
  BY DEF PlaybackStartModuleCut, modeVars
<1>3. /\ trap' = "none" /\ reset' = "none" /\ ~in_interrupt' /\ in_interrupt' \in BOOLEAN
      /\ joystick_alarm' = joystick_alarm /\ ~playback_reset_ack /\ Idle
  <2>1. Trap("play", reset)
    BY DEF PlaybackStartModuleCut
  <2> QED BY <1>1, <2>1, TrapRuns
<1>4. end_file # NoFile /\ cur' = 1 /\ sid' = end_file.session
  BY DEF PlaybackStartModuleCut
<1>5. faults = 0 /\ faults' = 1
  BY <1>1, FirstFault DEF PlaybackStartModuleCut
<1>6. alarm = Unset
  BY <1>1, <1>3, <1>4, <1>5 DEF AlarmInv
<1>7. clk' \in 0 .. MaxClk /\ machine' \in Seq(Inputs) /\ faults' \in Nat
  BY <1>1, <1>2, <1>5 DEF Types
<1>8. FileEvents(end_file.events) /\ sid' \in 1 .. sessions' /\ sid' \in Nat
  <2>1. end_file.events \in Seq(TypedNodes) /\ sessions \in Nat
    BY <1>1 DEF Types, Files
  <2> QED BY <1>1, <1>2, <1>4, <2>1 DEF EndInv, FileEvents
<1>9. CASE list' = <<TailNode>> /\ next_timestamp_clk' = ClockMod - 1
  <2>1. <<TailNode>> \in Seq(TypedNodes) /\ <<TailNode>> # <<>> /\ Len(<<TailNode>>) = 1
        /\ <<TailNode>>[1].type = "LIST_END"
    BY TailTyped
  <2>2. ClockMod - 1 \in 0 .. ClockMod - 1
    BY Widths
  <2>3. /\ list' \in Seq(TypedNodes) /\ list' # <<>> /\ Len(list') \in Nat /\ Len(list') >= 1
        /\ next_timestamp_clk' \in 0 .. ClockMod - 1 /\ list'[1].type # "RESETCPU"
        /\ Shape(list') \/ list' = <<TailNode>>
    BY <1>9, <2>1, <2>2
  <2> QED BY <1>1, <1>2, <1>3, <1>4, <1>5, <1>6, <1>7, <1>8, <2>3, NotPlayed
<1>10. ASSUME NEW n \in 1 .. FirstEnd(end_file.events) - 1, NEW cut,
              cut = SubSeq(end_file.events, 1, n) \o <<TailNode>>,
              NEW read, read = event_snapshot_read_module(cut),
              list' = read.nodes, next_timestamp_clk' = read.next
       PROVE  HistoryInv'
  <2>1. FileEvents(cut)
    BY <1>8, <1>10, CutEvents
  <2> DEFINE o == Origin(cut[1], start_file)
  <2>2. o.read = [nodes |-> <<>>, next |-> 0]
    BY OriginOf
  <2> HIDE DEF o
  <2>3. /\ read.nodes \in Seq(TypedNodes) /\ Shape(read.nodes)
        /\ read.next \in Nat /\ read.next <= MaxClk + Second
    BY <1>10, <2>1, <2>2, FileRead
  <2>4. read.next \in 0 .. ClockMod - 1
    BY <2>3, Widths
  <2>5. /\ Len(list') \in Nat /\ Len(list') >= 2 /\ list'[1].type = "INITIAL"
        /\ list' \in Seq(TypedNodes) /\ Shape(list')
    BY <1>10, <2>3 DEF Shape
  <2>6. list' # <<>>
    <3>1. Len(list') # 0 /\ Len(<<>>) = 0
      BY <2>5
    <3> QED BY <3>1
  <2>7. /\ Len(list') >= 1 /\ list'[1].type # "RESETCPU"
        /\ next_timestamp_clk' \in 0 .. ClockMod - 1
    BY <1>10, <2>4, <2>5
  <2> QED
    BY <1>1, <1>2, <1>3, <1>4, <1>5, <1>6, <1>7, <1>8, <2>5, <2>6, <2>7, NotPlayed
<1> QED BY <1>9, <1>10 DEF PlaybackStartModuleCut

-----------------------------------------------------------------------------
(***************************************************************************)
(* The theorems.                                                           *)
(***************************************************************************)

\* No file is a file too.
LEMMA NoFileTyped == NoFile \in Files /\ NoFile.session = 0
<1>1. 0 \in 0 .. MaxClk
  BY Widths
<1>2. <<>> \in Seq(Inputs) /\ <<>> \in Seq(TypedNodes)
  OBVIOUS
<1> QED BY <1>1, <1>2 DEF NoFile, Files

LEMMA InitKeeps == Init => HistoryInv
<1> SUFFICES ASSUME Init PROVE HistoryInv
  OBVIOUS
<1>1. ~record_active /\ ~playback_active /\ ~Taking /\ ~StopAsked
  BY DEF Init, Taking, StopAsked, Modes
<1>2. Types
  <2>1. /\ clk \in 0 .. MaxClk /\ joystick_alarm \in 0 .. ClockMod /\ alarm \in 0 .. ClockMod
        /\ next_timestamp_clk \in 0 .. ClockMod - 1
        /\ milestone_timestamp_alarm \in 0 .. ClockMod - 1
        /\ cur \in Nat /\ sid \in Nat /\ sessions \in Nat /\ faults \in Nat
    BY Widths DEF Init
  <2>2. machine \in Seq(Inputs) /\ list \in Seq(TypedNodes)
    BY DEF Init
  <2>3. start_file \in Files /\ end_file \in Files
    BY NoFileTyped DEF Init
  <2> QED BY <2>1, <2>2, <2>3 DEF Types, Init
<1>3. ControlInv
  BY <1>1 DEF ControlInv, Init, Modes
<1>4. ListInv
  BY <1>1 DEF ListInv, Init
<1>5. AlarmInv
  BY <1>1 DEF AlarmInv, Init
<1>6. StampInv
  BY <1>1 DEF StampInv
<1>7. EndInv
  <2>1. start_file.session = 0 /\ sessions = 0 /\ end_file = NoFile
    BY NoFileTyped DEF Init
  <2> QED BY <2>1 DEF EndInv
<1>8. SyncInv /\ TrackInv
  BY <1>1 DEF SyncInv, TrackInv
<1> QED BY <1>2, <1>3, <1>4, <1>5, <1>6, <1>7, <1>8 DEF HistoryInv

LEMMA StutterKeeps == HistoryInv /\ UNCHANGED vars => HistoryInv'
<1> SUFFICES ASSUME HistoryInv, UNCHANGED vars PROVE HistoryInv'
  OBVIOUS
<1>1. UNCHANGED <<clk, machine, reset, joystick_alarm, in_interrupt, list, cur, sid, sessions,
                  record_active, playback_active, playback_reset_ack, alarm,
                  next_timestamp_clk, odd, milestone_timestamp_alarm, start_file, end_file,
                  faults, trap>>
  BY DEF vars, cpuVars, listVars, modeVars, stampVars, savedVars, fileVars, uiVars
<1>2. Types'
  BY <1>1 DEF HistoryInv, Types
<1>3. ControlInv'
  BY <1>1 DEF HistoryInv, ControlInv, Idle
<1>4. ListInv'
  BY <1>1 DEF HistoryInv, ListInv, Taking, StopAsked
<1>5. AlarmInv'
  BY <1>1 DEF HistoryInv, AlarmInv, Idle
<1>6. StampInv'
  BY <1>1 DEF HistoryInv, StampInv, StopAsked
<1>7. EndInv'
  BY <1>1, EndFrame DEF HistoryInv
<1>8. SyncInv'
  BY <1>1 DEF HistoryInv, SyncInv, Taking, Known, Here, WhenReset
<1>9. TrackInv'
  BY <1>1 DEF HistoryInv, TrackInv, Known, AtEnd
<1> QED BY <1>2, <1>3, <1>4, <1>5, <1>6, <1>7, <1>8, <1>9 DEF HistoryInv

\* The handlers that run while the CPU loop runs.
LEMMA EmulationKeeps == Careful /\ HistoryInv /\ Emulation => HistoryInv'
<1> SUFFICES ASSUME Careful, HistoryInv, Emulation PROVE HistoryInv'
  OBVIOUS
<1>1. CASE Instruction \/ joystick_latch_handler
  BY <1>1, InstructionKeeps, LatchKeeps
<1>2. CASE RecordTimestamp \/ PlaybackEvent
  BY <1>2, TimestampKeeps, PlaybackEventKeeps
<1>3. CASE machine_reset
  BY <1>3, MachineResetKeeps
<1>4. CASE RecordStartTrap
  BY <1>4, RecordStartSaveKeeps, RecordStartSaveFailsKeeps, RecordStartLoadKeeps,
     RecordStartResetKeeps, RecordStartPlaybackKeeps DEF RecordStartTrap
<1>5. CASE PlaybackStartTrap
  BY <1>5, PlaybackStartFileKeeps, PlaybackStartResetKeeps, PlaybackStartModuleCutKeeps,
     PlaybackStartNoFileKeeps, PlaybackStartFailsKeeps DEF PlaybackStartTrap
<1>6. CASE event_record_stop_trap
  BY <1>6, StopTrapKeeps
<1>7. CASE event_record_set_milestone_trap \/ event_record_reset_milestone_trap
  BY <1>7, SetMilestoneKeeps, ResetMilestoneKeeps
<1>8. CASE EndNotThere
  BY <1>8, EndNotThereKeeps
<1>9. ASSUME NEW late \in BOOLEAN, EndUnreadable(late)
      PROVE  HistoryInv'
  <2>1. CASE late
    <3>1. EndUnreadable(TRUE)
      BY <1>9, <2>1
    <3> QED BY <3>1, LateFailureSlips
  <2>2. CASE ~late
    <3>1. EndUnreadable(FALSE)
      BY <1>9, <2>2
    <3> QED BY <3>1, EndUnreadableKeeps
  <2> QED BY <2>1, <2>2
<1> QED BY <1>1, <1>2, <1>3, <1>4, <1>5, <1>6, <1>7, <1>8, <1>9 DEF Emulation, Traps

\* The inputs and the commands of the user.
LEMMA UserKeeps == Careful /\ HistoryInv /\ User => HistoryInv'
<1> SUFFICES ASSUME Careful, HistoryInv, User PROVE HistoryInv'
  OBVIOUS
<1>1. ASSUME NEW mode \in {"soft", "hard"}, machine_trigger_reset(mode)
      PROVE  HistoryInv'
  BY <1>1, TriggerResetKeeps
<1>2. CASE file_system_attach_disk \/ joystick_set_value
  BY <1>2, AttachKeeps, JoystickSetKeeps
<1>3. ASSUME NEW mode \in Modes, event_record_start(mode)
      PROVE  HistoryInv'
  BY <1>3, RecordAskedKeeps
<1>4. CASE event_record_stop
  BY <1>4, RecordStopKeeps
<1>5. CASE event_playback_start \/ event_playback_stop
  BY <1>5, PlaybackStartKeeps, PlaybackStopKeeps
<1>6. CASE event_record_set_milestone \/ event_record_reset_milestone
  BY <1>6, MilestoneAskedKeeps
<1> QED BY <1>1, <1>2, <1>3, <1>4, <1>5, <1>6 DEF User

\* While no slip is made, at most one trap waits.
LEMMA OneTrap == Regular' /\ more = <<>> /\ [Next]_vars => more' = <<>>
<1> SUFFICES ASSUME Careful, [Next]_vars PROVE more' = <<>>
  BY DEF Careful
<1>1. CASE UNCHANGED vars
  BY <1>1 DEF vars, uiVars, Careful
<1>2. ASSUME NEW name, NEW pending, RunTrap(name, pending) PROVE more' = <<>>
  BY <1>2 DEF RunTrap, Careful
<1>3. ASSUME NEW kinds, Command(kinds), NEW next, Ask(next) PROVE more' = <<>>
  <2>1. trap = "none"
    BY <1>3, CarefulUser
  <2> QED BY <1>3, <2>1 DEF Ask, Careful
<1>4. CASE Traps
  <2>1. CASE RecordStartTrap
    BY <1>2, <2>1 DEF RecordStartTrap, RecordStartSave, RecordStartSaveFails, RecordStartLoad,
       RecordStartReset, RecordStartPlayback, Trap
  <2>2. CASE PlaybackStartTrap
    BY <1>2, <2>2 DEF PlaybackStartTrap, PlaybackStartFile, PlaybackStartReset,
       PlaybackStartModuleCut, PlaybackStartNoFile, PlaybackStartFails, Trap
  <2>3. CASE \/ event_record_stop_trap \/ event_record_set_milestone_trap
             \/ event_record_reset_milestone_trap \/ EndNotThere
    BY <1>2, <2>3 DEF event_record_stop_trap, event_record_set_milestone_trap,
       event_record_reset_milestone_trap, EndNotThere, Trap
  <2>4. CASE \E late \in BOOLEAN : EndUnreadable(late)
    BY <1>2, <2>4 DEF EndUnreadable
  <2> QED BY <1>4, <2>1, <2>2, <2>3, <2>4 DEF Traps
<1>5. CASE \/ Instruction \/ joystick_latch_handler \/ RecordTimestamp \/ PlaybackEvent
           \/ machine_reset
  BY <1>5 DEF Instruction, joystick_latch_handler, RecordTimestamp, PlaybackEvent,
     machine_reset, uiVars, Careful
<1>6. CASE \/ \E mode \in {"soft", "hard"} : machine_trigger_reset(mode)
           \/ file_system_attach_disk \/ joystick_set_value \/ event_playback_stop
  BY <1>6 DEF machine_trigger_reset, file_system_attach_disk, joystick_set_value,
     event_playback_stop, Careful
<1>7. ASSUME NEW mode \in Modes, event_record_start(mode) PROVE more' = <<>>
  <2>1. CASE record_active
    BY <1>7, <2>1 DEF event_record_start, Careful
  <2>2. CASE ~record_active
    BY <1>3, <1>7, <2>2 DEF event_record_start
  <2> QED BY <2>1, <2>2
<1>8. CASE \/ event_record_stop \/ event_playback_start
           \/ event_record_set_milestone \/ event_record_reset_milestone
  BY <1>3, <1>8 DEF event_record_stop, event_playback_start, event_record_set_milestone,
     event_record_reset_milestone
<1> QED BY <1>1, <1>4, <1>5, <1>6, <1>7, <1>8 DEF Next, Emulation, User

\* Slips and faults are not forgotten.
LEMMA CountsGrow ==
  ASSUME faults \in Nat, [Next]_vars
  PROVE  faults' \in Nat /\ (Regular' => Regular)
<1>1. faults' \in {faults, faults + 1}
  <2>1. CASE UNCHANGED vars
    BY <2>1 DEF vars, savedVars, fileVars
  <2>2. CASE RecordStartTrap
    BY <2>2 DEF RecordStartTrap, RecordStartSave, RecordStartSaveFails, RecordStartLoad,
       RecordStartReset, RecordStartPlayback, fileVars, Fault
  <2>3. CASE PlaybackStartTrap
    BY <2>3 DEF PlaybackStartTrap, PlaybackStartFile, PlaybackStartReset, PlaybackStartModuleCut,
       PlaybackStartNoFile, PlaybackStartFails, savedVars, fileVars, Fault
  <2>4. CASE \/ event_record_stop_trap \/ event_record_set_milestone_trap
             \/ event_record_reset_milestone_trap \/ EndNotThere
             \/ \E late \in BOOLEAN : EndUnreadable(late)
    BY <2>4 DEF event_record_stop_trap, event_record_set_milestone_trap,
       event_record_reset_milestone_trap, EndNotThere, EndUnreadable, savedVars, fileVars, Fault
  <2>5. CASE \/ Instruction \/ joystick_latch_handler \/ RecordTimestamp \/ PlaybackEvent
             \/ machine_reset
    BY <2>5 DEF Instruction, joystick_latch_handler, RecordTimestamp, PlaybackEvent,
       machine_reset, savedVars, fileVars
  <2>6. CASE User
    BY <2>6 DEF User, machine_trigger_reset, file_system_attach_disk, joystick_set_value,
       event_record_start, event_record_stop, event_playback_start, event_playback_stop,
       event_record_set_milestone, event_record_reset_milestone, savedVars, fileVars
  <2> QED BY <2>1, <2>2, <2>3, <2>4, <2>5, <2>6 DEF Next, Emulation, Traps
<1>2. slips \subseteq slips'
  <2>1. CASE UNCHANGED vars
    BY <2>1 DEF vars, uiVars
  <2>2. CASE RecordStartTrap
    BY <2>2 DEF RecordStartTrap, RecordStartSave, RecordStartSaveFails, RecordStartLoad,
       RecordStartReset, RecordStartPlayback, Trap
  <2>3. CASE PlaybackStartTrap
    BY <2>3 DEF PlaybackStartTrap, PlaybackStartFile, PlaybackStartReset, PlaybackStartModuleCut,
       PlaybackStartNoFile, PlaybackStartFails, Trap
  <2>4. CASE \/ event_record_stop_trap \/ event_record_set_milestone_trap
             \/ event_record_reset_milestone_trap \/ EndNotThere
             \/ \E late \in BOOLEAN : EndUnreadable(late)
    BY <2>4 DEF event_record_stop_trap, event_record_set_milestone_trap,
       event_record_reset_milestone_trap, EndNotThere, EndUnreadable, Trap, Slip
  <2>5. CASE \/ Instruction \/ joystick_latch_handler \/ RecordTimestamp \/ PlaybackEvent
             \/ machine_reset
    BY <2>5 DEF Instruction, joystick_latch_handler, RecordTimestamp, PlaybackEvent,
       machine_reset, uiVars
  <2>6. CASE User
    BY <2>6 DEF User, machine_trigger_reset, file_system_attach_disk, joystick_set_value,
       event_record_start, event_record_stop, event_playback_start, event_playback_stop,
       event_record_set_milestone, event_record_reset_milestone, Command, UserActs, Slip
  <2> QED BY <2>1, <2>2, <2>3, <2>4, <2>5, <2>6 DEF Next, Emulation, Traps
<1>3. faults' \in Nat /\ (faults' <= 1 => faults <= 1)
  BY <1>1
<1>4. slips' = {} => slips = {}
  BY <1>2
<1> QED BY <1>3, <1>4 DEF Regular

\* What is invariant: it holds until the first slip and the second fault.
RegularInv == faults \in Nat /\ (Regular => HistoryInv /\ more = <<>>)

LEMMA RegularKept == Spec => []RegularInv
<1>1. Init => RegularInv
  BY InitKeeps DEF RegularInv, Init
<1>2. RegularInv /\ [Next]_vars => RegularInv'
  <2> SUFFICES ASSUME RegularInv, [Next]_vars PROVE RegularInv'
    OBVIOUS
  <2>1. faults' \in Nat /\ (Regular' => Regular)
    BY CountsGrow DEF RegularInv
  <2>2. ASSUME Regular' PROVE HistoryInv' /\ more' = <<>>
    <3>1. HistoryInv /\ more = <<>> /\ Careful
      BY <2>1, <2>2 DEF RegularInv, Careful
    <3>2. more' = <<>>
      BY <2>2, <3>1, OneTrap
    <3>3. HistoryInv'
      BY <3>1, EmulationKeeps, UserKeeps, StutterKeeps DEF Next
    <3> QED BY <3>2, <3>3
  <2> QED BY <2>1, <2>2 DEF RegularInv
<1> QED BY <1>1, <1>2, PTL DEF Spec

\* The recorder keeps the invariant as long as no slip was made and at most one
\* snapshot could not be written or read: every handler of event.c,
\* machine_reset, machine_trigger_reset and the latched joystick.
THEOREM HistoryInvariance == Spec => [](Regular => HistoryInv)
<1>1. RegularInv => (Regular => HistoryInv)
  BY DEF RegularInv
<1> QED BY <1>1, RegularKept, PTL

\* The types of the recorder's state; current is a node of the list.
THEOREM TypeCorrect == Spec => [](Regular => TypeOK)
<1>1. RegularInv => (Regular => TypeOK)
  <2> SUFFICES ASSUME RegularInv, Regular PROVE TypeOK
    OBVIOUS
  <2>0. HistoryInv /\ more = <<>> /\ slips = {}
    BY DEF RegularInv, Regular
  <2>1. Types /\ ListInv
    BY <2>0 DEF HistoryInv
  <2>2. TypedNodes \subseteq Nodes
    <3> SUFFICES ASSUME NEW n \in TypedNodes PROVE n \in Nodes
      OBVIOUS
    <3>1. n \in [type : NodeTypes, clk : 0 .. MaxClk, data : NodeData]
      BY DEF TypedNodes
    <3>2. 0 .. MaxClk \subseteq Nat
      BY Widths
    <3> QED BY <3>1, <3>2 DEF Nodes, NodeTypes, NodeData, Played
  <2>3. list \in Seq(Nodes)
    BY <2>1, <2>2 DEF Types
  <2>4. cur \in 0 .. Len(list)
    <3>1. CASE list = <<>>
      BY <2>1, <3>1 DEF ListInv
    <3>2. CASE list # <<>>
      BY <2>1, <3>2, ListTyped
    <3> QED BY <3>1, <3>2
  <2>5. start_file.machine \in Seq(Inputs) /\ end_file.events \in Seq(TypedNodes)
    BY <2>1 DEF Types, Files
  <2>6. end_file.events \in Seq(Nodes)
    BY <2>2, <2>5
  <2>7. more \in Seq({"stop", "set", "return", "play"} \cup Modes) /\ slips \subseteq Slips
    BY <2>0
  <2> QED BY <2>1, <2>3, <2>4, <2>5, <2>6, <2>7 DEF TypeOK, Types
<1> QED BY <1>1, RegularKept, PTL

\* A playback whose events are all played (event_alarm_handler has come to the
\* LIST_END) has made the machine that end.vsf was written from, and where the
\* list was ended in that cycle, in that cycle.
THEOREM PlaybackIsFaithful == Spec => [](Regular => PlaybackReproduces)
<1>1. HistoryInv => PlaybackReproduces
  <2> SUFFICES ASSUME HistoryInv, playback_active, ~playback_reset_ack,
                      list[cur].type = "LIST_END",
                      list[1].data # "RESET" => start_file.session = sid
               PROVE  /\ machine = end_file.machine
                      /\ AlarmDue /\ list[cur].clk = end_file.clk => clk = end_file.clk
    BY DEF PlaybackReproduces, Reproduced
  <2> DEFINE o == Origin(list[1], start_file)
             n == Len(list)
  <2>1. Types /\ ListInv /\ AlarmInv /\ SyncInv /\ TrackInv /\ ControlInv
    BY DEF HistoryInv
  <2>2. Taking /\ list # <<>> /\ Known(list, sid) /\ ~record_active
    BY <2>1 DEF Taking, ListInv, Known, ControlInv
  <2>3. /\ n \in Nat /\ n >= 2 /\ cur \in 1 .. n /\ list[n].type = "LIST_END"
        /\ NoEndBefore(list, n)
    BY <2>1, <2>2, ListParts DEF ListInv
  <2>4. cur = n
    <3>1. ~(cur \in 1 .. n - 1)
      BY <2>3 DEF NoEndBefore
    <3> HIDE DEF n
    <3> QED BY <2>3, <3>1
  <2>5. reset = "none" /\ alarm = list[cur].clk
    BY <2>1 DEF AlarmInv
  <2>6. Arrives(After(o, list, n - 1), machine, clk)
    BY <2>1, <2>2, <2>4, <2>5 DEF SyncInv, Here
  <2>7. /\ Arrives(After(o, list, n), end_file.machine, end_file.clk)
        /\ Heading(list, n, clk, machine, end_file.clk)
    BY <2>1, <2>2, <2>4, <2>5 DEF TrackInv, AtEnd
  <2>8. Same(After(o, list, n), After(o, list, n - 1))
    <3> HIDE DEF o, n
    <3>1. n - 1 \in Nat /\ n - 1 <= n /\ (\A k \in (n - 1) + 1 .. n : k = n)
      BY <2>3
    <3>2. \A k \in (n - 1) + 1 .. n : list[k].type \notin Played
      BY <2>3, <3>1 DEF Played
    <3> QED BY <2>3, <3>1, <3>2, NodesStill
  <2>9. machine = end_file.machine
    BY <2>6, <2>7, <2>8 DEF Arrives, Same
  <2>10. ASSUME AlarmDue, list[cur].clk = end_file.clk
         PROVE  clk = end_file.clk
    <3>1. n \in n .. Len(list) /\ StampsOnly(list, n, n)
      BY <2>3 DEF StampsOnly
    <3>2. Reach(clk, machine, end_file.clk)
      BY <2>3, <2>4, <2>7, <2>10, <3>1 DEF Heading
    <3>3. clk \in Nat /\ end_file.clk \in Nat
      BY <2>1, Clocks
    <3>4. end_file.clk <= clk
      BY <2>5, <2>10 DEF AlarmDue
    <3> QED BY <3>2, <3>3, <3>4 DEF Reach
  <2> QED BY <2>9, <2>10
<1> QED BY <1>1, HistoryInvariance, PTL

\* While it is recorded (event_record, and however the recording came about),
\* the list leads from the start of the session to the machine.
THEOREM ListAccounts == Spec => [](Regular => ListAccountsForMachine)
<1>1. HistoryInv => ListAccountsForMachine
  <2> SUFFICES ASSUME HistoryInv, record_active, reset = "none", Known(list, sid)
               PROVE  machine = FedBy(IF list[1].data = "RESET" THEN <<>>
                                      ELSE start_file.machine, list, cur - 1)
    BY DEF ListAccountsForMachine, Known
  <2> DEFINE o == Origin(list[1], start_file)
  <2>1. Types /\ ListInv /\ SyncInv
    BY DEF HistoryInv
  <2>2. list # <<>>
    BY <2>1 DEF ListInv
  <2>3. cur - 1 \in Nat
    BY <2>1, <2>2, ListParts
  <2>4. machine = After(o, list, cur - 1).m
    BY <2>1 DEF SyncInv, Here, Arrives
  <2>5. o.m = IF list[1].data = "RESET" THEN <<>> ELSE start_file.machine
    BY OriginOf
  <2> HIDE DEF o
  <2>6. FedBy(o.m, list, cur - 1) = After(o, list, cur - 1).m
    BY <2>3, FedByAfter
  <2> QED BY <2>4, <2>5, <2>6
<1> QED BY <1>1, HistoryInvariance, PTL

\* event_alarm is set for a recording, for a playback or for nothing.
THEOREM AlarmHasOwner == Spec => [](Regular => AlarmOwned)
<1>1. HistoryInv => AlarmOwned
  BY DEF HistoryInv, AlarmInv, AlarmOwned, Owned, Idle
<1> QED BY <1>1, HistoryInvariance, PTL

\* event_alarm_handler of a recording runs once a second, and is late by no
\* more than the cycles of a reset.
THEOREM TimestampsAreDue == Spec => [](Regular => TimestampDue)
<1>1. HistoryInv => TimestampDue
  BY DEF HistoryInv, StampInv, TimestampDue, StampDue
<1> QED BY <1>1, HistoryInvariance, PTL

\* A playback waits for its next event or for the reset that event_reset_ack
\* acknowledges, never for nothing.
THEOREM PlaybackGoesOn == Spec => [](Regular => PlaybackNeverStalls)
<1>1. HistoryInv => PlaybackNeverStalls
  BY DEF HistoryInv, AlarmInv, PlaybackNeverStalls
<1> QED BY <1>1, HistoryInvariance, PTL
=============================================================================
