--------------------------- MODULE NetplayProofs ---------------------------
(***************************************************************************)
(* Proofs about module Netplay, for any delays, any number of frames,      *)
(* inputs, suspends and sessions: both machines are fed the same inputs in *)
(* the same frames, and the registers that are compared agree.             *)
(***************************************************************************)
EXTENDS Netplay, FiniteSets, FiniteSetTheorems, SequenceTheorems, WellFoundedInduction, TLAPS

-----------------------------------------------------------------------------
(***************************************************************************)
(* What the invariant is about: a ring r, the inputs rec that its side has *)
(* recorded, frame by frame, what its machine m was fed, and the messages  *)
(* w that are on their way from it.                                        *)
(***************************************************************************)
Inputs == {Input(i) : i \in Nat}
Machines == Seq(Seq(Inputs))
Events == Inputs \cup {Sync(m) : m \in Machines} \cup {ListEnd}
Lists == Seq(Events)
Messages == {<<"snapshot">>, <<"settings">>, <<"test">>, <<"suspend">>}
              \cup {<<"delta", d>> : d \in Nat} \cup {<<"list", l>> : l \in Lists}

Rings(d) == [delta : {d}, current : 0 .. d - 1, play : Nat, full : BOOLEAN,
             lists : [0 .. d - 1 -> Lists]]

\* The place of the list of j frames ago, and the lists of then and now.
Slot(r, j) == IF j <= r.current THEN r.current - j ELSE r.current - j + r.delta
Back(r, j) == r.lists[Slot(r, j)]
Cur(r) == r.lists[r.current]

Open(l) == \A n \in 1 .. Len(l) : l[n] # ListEnd

\* x is the machine at the start of frame k.
Was(x, m, k) == x \in Machines /\ Len(x) = k - 1 /\ \A n \in 1 .. k - 1 : x[n] = m[n]

\* l is the list of frame k.
Holds(l, m, rec, k) ==
  /\ l \in Lists /\ InputsOf(l) = rec[k]
  /\ Len(l) > 0 /\ l[1][1] = "sync" => Was(l[1][2], m, k)

\* The ring holds the lists of the latest frames.  Until it is full the frames
\* are in the places of their numbers.
RingOk(r, rec, m) ==
  /\ r.delta \in Nat /\ r.delta >= 2 /\ r \in Rings(r.delta)
  /\ Len(rec) >= 1 /\ Len(m) = Len(rec) - 1
  /\ Len(rec) > 1 => r.play = Slot(r, r.delta - 1)
  /\ r.full => Len(rec) >= r.delta
  /\ ~ r.full => r.current = Len(rec) - 1
  /\ \A j \in 1 .. r.delta - 1 :
       j < Len(rec) => Len(Back(r, j)) > 0 /\ Holds(Back(r, j), m, rec, Len(rec) - j)

CurOk(r, rec, m) == Holds(Cur(r), m, rec, Len(rec))

\* How many of the first n messages of w are lists.
ListsIn(w, n) == Cardinality({k \in 1 .. n : w[k][1] = "list"})
Total(w, played) == played + ListsIn(w, Len(w))

\* The lists in w are those of the frames after the first ones, which were played.
WireOk(w, m, rec, played) ==
  \A k \in 1 .. Len(w) :
    w[k][1] = "list" => /\ Len(w[k][2]) > 0
                        /\ Holds(w[k][2], m, rec, played + ListsIn(w, k))

\* m was fed what was recorded d - 1 frames before, the server's inputs first.
Agree(m, recS, recC, d) ==
  \A n \in 1 .. Len(m) :
    /\ n - d + 1 < 1 => m[n] = << >>
    /\ n - d + 1 >= 1 => /\ n - d + 1 <= Len(recS) /\ n - d + 1 <= Len(recC)
                         /\ m[n] = recS[n - d + 1] \o recC[n - d + 1]

-----------------------------------------------------------------------------
(***************************************************************************)
(* The invariant.                                                          *)
(***************************************************************************)

\* p plays in the session of the latest connection.
Live(p) == session[p] = sessions /\ sessions > 0

\* The frame p is in, how many lists of the other side it has played, and how
\* many lists it has sent.
Frame(p) == Len(recorded[p])
Played(p) == IF Live(p) /\ Frame(p) > ring[p].delta THEN Frame(p) - ring[p].delta ELSE 0
SentBy(p) == Total(wire[Other(p)], Played(Other(p)))

Types ==
  /\ mode \in [Peers -> {"IDLE", "SERVER", "SERVER_CONNECTED", "CLIENT"}]
  /\ mode[S] # "CLIENT" /\ mode[C] \in {"IDLE", "CLIENT"}
  /\ net \in [Peers -> {"null", "open", "closed"}]
  /\ pc \in [Peers -> {"frame", "recv", "spin", "abort", "trap", "ping", "snapshot",
                       "settings", "delta"}]
  /\ end \in [Peers -> {"open", "fin", "finrst", "rst"}]
  /\ backlog \in BOOLEAN /\ syncTrap \in [Peers -> BOOLEAN]
  /\ wire \in [Peers -> Seq(Messages)] /\ DOMAIN ring = Peers
  /\ machine \in [Peers -> Machines] /\ recorded \in [Peers -> Machines]
  /\ session \in [Peers -> Nat] /\ sessions \in Nat /\ inputs \in Nat
  /\ \A p \in Peers : session[p] <= sessions /\ ring[p].play \in Nat

\* The stages of connecting, on the server and on the client.
ServerStage ==
  /\ pc[S] \notin {"snapshot", "settings", "delta"}
  /\ pc[S] = "trap" => mode[S] \in {"IDLE", "SERVER"}
  /\ pc[S] = "trap" /\ net[S] = "open" =>
       pc[C] = "snapshot" /\ wire[C] = << >> /\ wire[S] = << >> /\ end[C] = "open"
  /\ pc[S] = "ping" =>
       /\ mode[S] = "SERVER_CONNECTED" /\ ~ Live(S) /\ sessions > 0
       /\ \/ pc[C] = "delta" /\ wire[S] = << <<"test">> >> /\ wire[C] = << >>
          \/ wire[S] = << >> /\ pc[C] \notin {"delta", "recv"} /\ mode[C] = "IDLE"
  /\ backlog => /\ pc[C] = "snapshot" /\ wire[C] = << >> /\ wire[S] = << >>
                /\ end[C] = "open" /\ mode[S] = "SERVER" /\ pc[S] = "frame"

ClientStage ==
  /\ pc[C] \notin {"trap", "ping"}
  /\ pc[C] \in {"snapshot", "settings"} => mode[C] = "IDLE" /\ wire[S] = << >> /\ ~ Live(S)
  /\ pc[C] = "snapshot" /\ wire[C] # << >> =>
       pc[S] = "ping" /\ wire[C] = << <<"snapshot">>, <<"settings">>, <<"test">> >>
  /\ pc[C] = "settings" => pc[S] = "ping" /\ wire[C] = << <<"settings">>, <<"test">> >>
  /\ pc[C] = "delta" =>
       /\ mode[C] = "CLIENT"
       /\ \/ pc[S] = "ping"
          \/ /\ Live(S) /\ wire[S] = << >> /\ wire[C] # << >>
             /\ Head(wire[C]) = <<"delta", ring[S].delta>>
             /\ Frame(S) <= ring[S].delta
             /\ \A n \in 1 .. Len(machine[S]) : machine[S][n] = << >>
  /\ pc[C] \in {"snapshot", "settings", "delta"} =>
       net[C] = "open" /\ ~ Live(C) /\ sessions > 0 /\ end[S] = "open"
  /\ pc[C] \in {"settings", "delta"} \/ (pc[C] = "snapshot" /\ wire[C] # << >>) => end[C] # "rst"

\* Who is connected is in the session of the connection.
LiveInv ==
  /\ Live(C) => Live(S)
  /\ Live(S) => Live(C) \/ pc[C] = "delta"
  /\ \A p \in Peers :
       /\ network_connected(p) => net[p] = "open" /\ (Live(p) \/ pc[p] \in {"ping", "delta"})
       /\ pc[p] = "recv" => net[p] = "closed" \/ network_connected(p)
       /\ syncTrap[p] => session[p] > 0

\* The ring of p.  The current list is closed while p waits; only if p then
\* finds the connection reset it stays so in the next frame.
PeerInv(p) ==
  session[p] > 0 =>
    /\ RingOk(ring[p], recorded[p], machine[p])
    /\ Open(Cur(ring[p])) => CurOk(ring[p], recorded[p], machine[p])
    /\ pc[p] = "recv" =>
         /\ ring[p].full
         /\ net[p] = "open" =>
              Len(Cur(ring[p])) > 0 /\ CurOk(ring[p], recorded[p], machine[p])
    /\ syncTrap[p] => Open(Cur(ring[p]))
    /\ network_connected(p) /\ pc[p] = "frame" =>
         Open(Cur(ring[p])) \/ (end[p] = "rst" /\ ring[p].full)

\* What p has sent: the other side has played it or gets it next.  A side that
\* has reset the connection reads no more.
WireInv(p) ==
  Live(p) =>
    /\ end[p] # "rst" =>
         WireOk(wire[Other(p)], machine[p], recorded[p], Played(Other(p)))
    /\ end[p] = "rst" => net[Other(p)] # "open" /\ Played(Other(p)) < Frame(p)
    /\ SentBy(p) <= Frame(p)
    /\ wire[Other(p)] # << >> /\ wire[Other(p)][Len(wire[Other(p)])][1] # "list" =>
         SentBy(p) < Frame(p)
    /\ network_connected(p) /\ pc[p] = "frame" /\ end[p] # "rst" => SentBy(p) < Frame(p)
    /\ network_connected(p) /\ end[p] = "open" /\ pc[p] \in {"frame", "recv"} =>
         SentBy(p) = IF pc[p] = "recv" THEN Frame(p) ELSE Frame(p) - 1

\* Both machines were fed the same.
AgreeInv ==
  session[S] = session[C] /\ session[S] > 0 =>
    /\ ring[S].delta = ring[C].delta
    /\ \A p \in Peers : Agree(machine[p], recorded[S], recorded[C], ring[p].delta)

NetInv ==
  /\ Types /\ ServerStage /\ ClientStage /\ LiveInv
  /\ \A p \in Peers : PeerInv(p) /\ WireInv(p)
  /\ AgreeInv /\ ~ falseAlarm

-----------------------------------------------------------------------------
(***************************************************************************)
(* Numbers.                                                                *)
(***************************************************************************)

\* A set of naturals that is not empty has a least member.
LEMMA NatMin ==
  ASSUME NEW T \in SUBSET Nat, T # {}
  PROVE  \E x \in T : \A y \in T : x <= y
<1> DEFINE R == {ss \in Nat \X Nat : ss[1] < ss[2]}
<1>1. IsWellFoundedOn(R, Nat)
  BY NatLessThanWellFounded DEF OpToRel
<1>2. \A x, y \in Nat : x < y => <<x, y>> \in R
  OBVIOUS
<1> HIDE DEF R
<1>3. PICK x \in T : \A y \in T : ~ (<<y, x>> \in R)
  BY <1>1, WFMin
<1>4. \A y \in T : ~ (y < x)
  BY <1>2, <1>3
<1>5. \A y \in T : x <= y
  BY <1>4
<1> QED BY <1>5

\* Induction, for a set of naturals.
LEMMA NatInduct ==
  ASSUME NEW P \in SUBSET Nat, 0 \in P, \A n \in P : n + 1 \in P
  PROVE  P = Nat
<1> SUFFICES ASSUME Nat \ P # {} PROVE FALSE
  OBVIOUS
<1>1. PICK x \in Nat \ P : \A y \in Nat \ P : x <= y
  BY NatMin
<1>2. x # 0 /\ x - 1 \in Nat /\ ~(x <= x - 1)
  OBVIOUS
<1>3. x - 1 \in P
  BY <1>1, <1>2
<1>4. (x - 1) + 1 = x
  OBVIOUS
<1> QED BY <1>3, <1>4

-----------------------------------------------------------------------------
(***************************************************************************)
(* InputsOf: an event that is appended is played if it is an input and no  *)
(* EVENT_LIST_END is in front of it.                                       *)
(***************************************************************************)

\* f holds what is played of the first n events of list, for n up to m.
IsWalk(f, list, m) ==
  f = [n \in 0 .. m |-> IF n = 0 THEN << >>
                        ELSE IF Plays(list, n) THEN Append(f[n - 1], list[n]) ELSE f[n - 1]]

\* The function of InputsOf exists.
LEMMA WalkExists ==
  ASSUME NEW list, NEW m \in Nat
  PROVE  \E f : IsWalk(f, list, m)
<1> DEFINE P == {k \in Nat : \E f : IsWalk(f, list, k)}
<1>1. 0 \in P
  <2> DEFINE f == [n \in 0 .. 0 |-> << >>]
  <2>1. IsWalk(f, list, 0)
    BY DEF IsWalk
  <2> QED BY <2>1
<1>2. ASSUME NEW k \in P PROVE k + 1 \in P
  <2>1. PICK f : IsWalk(f, list, k)
    OBVIOUS
  <2> DEFINE last == IF Plays(list, k + 1) THEN Append(f[k], list[k + 1]) ELSE f[k]
             g == [n \in 0 .. k + 1 |-> IF n = k + 1 THEN last ELSE f[n]]
  <2>2. k \in Nat /\ k + 1 # 0 /\ (k + 1) - 1 = k
    OBVIOUS
  <2>3. \A n \in 0 .. k : f[n] = IF n = 0 THEN << >>
            ELSE IF Plays(list, n) THEN Append(f[n - 1], list[n]) ELSE f[n - 1]
    BY <2>1 DEF IsWalk
  <2>4. \A n \in 0 .. k : g[n] = f[n] /\ n # k + 1
    BY <2>2
  <2>5. g[k + 1] = last
    BY <2>2
  <2>6. ASSUME NEW n \in 0 .. k + 1
        PROVE  g[n] = IF n = 0 THEN << >>
                      ELSE IF Plays(list, n) THEN Append(g[n - 1], list[n]) ELSE g[n - 1]
    <3>1. CASE n = k + 1
      <4>1. n # 0 /\ n - 1 = k /\ k \in 0 .. k
        BY <2>2, <3>1
      <4>2. g[n - 1] = f[k]
        BY <2>4, <4>1
      <4> HIDE DEF g
      <4> QED BY <2>5, <3>1, <4>1, <4>2
    <3>2. CASE n # k + 1
      <4>1. n \in 0 .. k
        BY <2>2, <3>2
      <4>2. n = 0 \/ n - 1 \in 0 .. k
        BY <4>1
      <4>3. g[n] = f[n] /\ (n # 0 => g[n - 1] = f[n - 1])
        BY <2>4, <4>1, <4>2
      <4> HIDE DEF g
      <4> QED BY <2>3, <4>1, <4>3
    <3> QED BY <3>1, <3>2
  <2>7. g = [n \in 0 .. k + 1 |-> g[n]]
    OBVIOUS
  <2> HIDE DEF g
  <2>8. IsWalk(g, list, k + 1)
    BY <2>6, <2>7 DEF IsWalk
  <2> QED BY <2>2, <2>8
<1> HIDE DEF P
<1>3. P \in SUBSET Nat
  BY DEF P
<1>4. P = Nat
  BY <1>1, <1>2, <1>3, NatInduct
<1> QED BY <1>4 DEF P

\* n begins like m: the first k events, frames or messages are the same.
Extends(n, m, k) == \A i \in 1 .. k : n[i] = m[i]

\* Two such functions agree, if the lists do.
LEMMA WalksAgree ==
  ASSUME NEW s, NEW t, NEW k \in Nat, NEW m \in Nat, k <= m,
         Extends(s, t, k),
         NEW f, IsWalk(f, s, k), NEW g, IsWalk(g, t, m)
  PROVE  f[k] = g[k]
<1> DEFINE P == {n \in Nat : n <= k => f[n] = g[n]}
<1>1. /\ \A n \in 0 .. k : f[n] = IF n = 0 THEN << >>
           ELSE IF Plays(s, n) THEN Append(f[n - 1], s[n]) ELSE f[n - 1]
      /\ \A n \in 0 .. m : g[n] = IF n = 0 THEN << >>
           ELSE IF Plays(t, n) THEN Append(g[n - 1], t[n]) ELSE g[n - 1]
  BY DEF IsWalk
<1>2. 0 \in P
  BY <1>1
<1>3. ASSUME NEW n \in P PROVE n + 1 \in P
  <2> SUFFICES ASSUME n + 1 <= k PROVE f[n + 1] = g[n + 1]
    OBVIOUS
  <2>1. n \in Nat /\ n <= k /\ f[n] = g[n]
    OBVIOUS
  <2>2. /\ n + 1 \in 0 .. k /\ n + 1 \in 0 .. m /\ n + 1 # 0 /\ (n + 1) - 1 = n
        /\ \A j \in 1 .. n : s[j] = t[j]
        /\ s[n + 1] = t[n + 1]
    BY <2>1 DEF Extends
  <2>3. Plays(s, n + 1) <=> Plays(t, n + 1)
    BY <2>2 DEF Plays
  <2> HIDE DEF P
  <2> QED BY <1>1, <2>1, <2>2, <2>3
<1> HIDE DEF P
<1>4. P \in SUBSET Nat
  BY DEF P
<1>5. P = Nat
  BY <1>2, <1>3, <1>4, NatInduct
<1> QED BY <1>5 DEF P

\* InputsOf is the last value of such a function.
LEMMA InputsOfWalk ==
  ASSUME NEW list, Len(list) \in Nat
  PROVE  \E f : IsWalk(f, list, Len(list)) /\ InputsOf(list) = f[Len(list)]
<1> DEFINE w == CHOOSE f : IsWalk(f, list, Len(list))
<1>1. IsWalk(w, list, Len(list))
  BY WalkExists
<1>2. InputsOf(list) = w[Len(list)]
  BY DEF InputsOf, IsWalk
<1> QED BY <1>1, <1>2

\* An empty list plays nothing.
LEMMA InputsOfEmpty == InputsOf(<< >>) = << >>
<1>1. Len(<< >>) = 0
  OBVIOUS
<1>2. PICK f : IsWalk(f, << >>, 0) /\ InputsOf(<< >>) = f[0]
  BY <1>1, InputsOfWalk
<1> QED BY <1>2 DEF IsWalk

\* What an event more at the end adds.
LEMMA InputsOfAppend ==
  ASSUME NEW l \in Lists, NEW e \in Events
  PROVE  InputsOf(Append(l, e)) =
           IF e[1] = "input" /\ Open(l) THEN Append(InputsOf(l), e) ELSE InputsOf(l)
<1> DEFINE n == Len(l)
           t == Append(l, e)
<1>1. /\ n \in Nat /\ Len(t) = n + 1 /\ t[n + 1] = e
      /\ \A k \in 1 .. n : l[k] = t[k]
  BY DEF Lists
<1>2. n <= n + 1 /\ n + 1 \in Nat /\ n + 1 # 0 /\ (n + 1) - 1 = n /\ n + 1 \in 0 .. n + 1
  BY <1>1
<1> HIDE DEF n, t
<1>3. PICK f : IsWalk(f, l, n) /\ InputsOf(l) = f[n]
  BY <1>1, InputsOfWalk DEF n
<1>4. PICK g : IsWalk(g, t, n + 1) /\ InputsOf(t) = g[n + 1]
  BY <1>1, <1>2, InputsOfWalk
<1>5. f[n] = g[n]
  <2>1. IsWalk(f, l, n) /\ IsWalk(g, t, n + 1)
    BY <1>3, <1>4
  <2>2. n \in Nat /\ n + 1 \in Nat /\ n <= n + 1
    BY <1>1, <1>2
  <2>3. Extends(l, t, n)
    BY <1>1 DEF Extends
  <2> QED BY <2>1, <2>2, <2>3, WalksAgree
<1>6. g[n + 1] = IF Plays(t, n + 1) THEN Append(g[n], t[n + 1]) ELSE g[n]
  BY <1>2, <1>4 DEF IsWalk
<1>7. Plays(t, n + 1) <=> e[1] = "input" /\ Open(l)
  BY <1>1, <1>2 DEF Plays, Open, n
<1> QED BY <1>1, <1>3, <1>4, <1>5, <1>6, <1>7 DEF t

-----------------------------------------------------------------------------
(***************************************************************************)
(* Events and lists.                                                       *)
(***************************************************************************)

\* The kinds of events are told apart by their tags.
LEMMA Tags ==
  /\ \A i \in Nat : Input(i) \in Events /\ Input(i)[1] = "input" /\ Input(i) # ListEnd
                    /\ Input(i) \in Inputs
  /\ \A m \in Machines : /\ Sync(m) \in Events /\ Sync(m)[1] = "sync" /\ Sync(m)[2] = m
                         /\ Sync(m) # ListEnd
  /\ ListEnd \in Events /\ ListEnd[1] = "end"
<1>1. ListEnd[1] = "end" /\ ListEnd \in Events
  BY DEF ListEnd, Events
<1>2. ASSUME NEW i \in Nat
      PROVE  Input(i) \in Events /\ Input(i)[1] = "input" /\ Input(i) # ListEnd /\ Input(i) \in Inputs
  <2>1. Input(i)[1] = "input" /\ Input(i) \in Inputs
    BY DEF Input, Inputs
  <2>2. Input(i) \in Events
    BY <2>1 DEF Events
  <2> QED BY <1>1, <2>1, <2>2
<1>3. ASSUME NEW m \in Machines
      PROVE  Sync(m) \in Events /\ Sync(m)[1] = "sync" /\ Sync(m)[2] = m /\ Sync(m) # ListEnd
  <2>1. Sync(m)[1] = "sync" /\ Sync(m)[2] = m
    BY DEF Sync
  <2>2. Sync(m) \in Events
    BY DEF Events
  <2> QED BY <1>1, <2>1, <2>2
<1> QED BY <1>1, <1>2, <1>3

\* A list with an event more.
LEMMA AppendEvent ==
  ASSUME NEW l \in Lists, NEW e \in Events
  PROVE  /\ Append(l, e) \in Lists /\ Len(l) \in Nat /\ Len(Append(l, e)) = Len(l) + 1
         /\ \A n \in 1 .. Len(l) : Append(l, e)[n] = l[n]
         /\ Append(l, e)[Len(l) + 1] = e
         /\ Open(Append(l, e)) <=> Open(l) /\ e # ListEnd
<1>1. /\ Append(l, e) \in Lists /\ Len(l) \in Nat /\ Len(Append(l, e)) = Len(l) + 1
      /\ \A n \in 1 .. Len(l) : Append(l, e)[n] = l[n]
      /\ Append(l, e)[Len(l) + 1] = e
  BY DEF Lists
<1>2. Open(Append(l, e)) <=> Open(l) /\ e # ListEnd
  BY <1>1 DEF Open
<1> QED BY <1>1, <1>2

\* An event that is not an input, and not the first or the registers of the
\* frame, leaves a list the one of its frame.
LEMMA HoldsAppend ==
  ASSUME NEW l, NEW m, NEW rec, NEW k, Holds(l, m, rec, k), NEW e \in Events, e[1] # "input",
         e[1] = "sync" => Was(e[2], m, k)
  PROVE  Holds(Append(l, e), m, rec, k) /\ Len(Append(l, e)) > 0
<1>1. l \in Lists /\ InputsOf(l) = rec[k] /\ (Len(l) > 0 /\ l[1][1] = "sync" => Was(l[1][2], m, k))
  BY DEF Holds
<1>2. /\ Append(l, e) \in Lists /\ Len(l) \in Nat /\ Len(Append(l, e)) = Len(l) + 1
      /\ \A n \in 1 .. Len(l) : Append(l, e)[n] = l[n]
      /\ Append(l, e)[Len(l) + 1] = e
  BY <1>1, AppendEvent
<1>3. InputsOf(Append(l, e)) = rec[k]
  BY <1>1, InputsOfAppend
<1>4. ASSUME Append(l, e)[1][1] = "sync"
      PROVE  Was(Append(l, e)[1][2], m, k)
  <2>1. CASE Len(l) = 0
    <3>1. Append(l, e)[1] = e
      BY <1>2, <2>1
    <3> QED BY <1>4, <3>1
  <2>2. CASE Len(l) > 0
    <3>1. Append(l, e)[1] = l[1]
      BY <1>2, <2>2
    <3> QED BY <1>1, <1>4, <2>2, <3>1
  <2> QED BY <1>2, <2>1, <2>2
<1>5. Len(Append(l, e)) > 0
  BY <1>2
<1> QED BY <1>2, <1>3, <1>4, <1>5 DEF Holds

\* An input that is recorded in an open list is recorded.
LEMMA HoldsInput ==
  ASSUME NEW l, NEW m, NEW rec, NEW k, Holds(l, m, rec, k), Open(l), NEW i \in Nat,
         NEW new, new[k] = Append(rec[k], Input(i))
  PROVE  Holds(Append(l, Input(i)), m, new, k)
<1> DEFINE e == Input(i)
<1>1. l \in Lists /\ InputsOf(l) = rec[k] /\ (Len(l) > 0 /\ l[1][1] = "sync" => Was(l[1][2], m, k))
  BY DEF Holds
<1>2. e \in Events /\ e[1] = "input"
  BY Tags
<1> HIDE DEF e
<1>3. /\ Append(l, e) \in Lists /\ Len(l) \in Nat /\ Len(Append(l, e)) = Len(l) + 1
      /\ \A n \in 1 .. Len(l) : Append(l, e)[n] = l[n]
      /\ Append(l, e)[Len(l) + 1] = e
  BY <1>1, <1>2, AppendEvent
<1>4. InputsOf(Append(l, e)) = Append(rec[k], e)
  BY <1>1, <1>2, InputsOfAppend
<1>5. ASSUME Append(l, e)[1][1] = "sync"
      PROVE  Was(Append(l, e)[1][2], m, k)
  <2>1. CASE Len(l) = 0
    <3>1. Append(l, e)[1] = e
      BY <1>3, <2>1
    <3> QED BY <1>2, <1>5, <3>1
  <2>2. CASE Len(l) > 0
    <3>1. Append(l, e)[1] = l[1]
      BY <1>3, <2>2
    <3> QED BY <1>1, <1>5, <2>2, <3>1
  <2> QED BY <1>3, <2>1, <2>2
<1>6. new[k] = Append(rec[k], e)
  BY DEF e
<1>7. Holds(Append(l, e), m, new, k)
  BY <1>3, <1>4, <1>5, <1>6 DEF Holds
<1> QED BY <1>7 DEF e

\* The list of an earlier frame stays so when frames are added.
LEMMA HoldsLater ==
  ASSUME NEW l, NEW m, NEW rec, NEW k \in Int, Holds(l, m, rec, k),
         NEW mm, Extends(mm, m, k - 1), NEW new, new[k] = rec[k]
  PROVE  Holds(l, mm, new, k)
<1>1. l \in Lists /\ InputsOf(l) = new[k]
  BY DEF Holds
<1>2. ASSUME NEW x, Was(x, m, k) PROVE Was(x, mm, k)
  BY <1>2 DEF Was, Extends
<1> QED BY <1>1, <1>2 DEF Holds

-----------------------------------------------------------------------------
(***************************************************************************)
(* The ring.                                                               *)
(***************************************************************************)

\* r2 differs from r in the current list and in what full says.
OnlyCur(r2, r) ==
  /\ r2 \in Rings(r.delta)
  /\ r2.current = r.current /\ r2.play = r.play
  /\ \A i \in 0 .. r.delta - 1 : i # r.current => r2.lists[i] = r.lists[i]

\* The parts of a ring.
LEMMA RingParts ==
  ASSUME NEW d \in Nat, NEW r \in Rings(d)
  PROVE  /\ r.delta = d /\ r.current \in 0 .. d - 1 /\ r.play \in Nat /\ r.full \in BOOLEAN
         /\ r.lists \in [0 .. d - 1 -> Lists] /\ Cur(r) \in Lists
BY DEF Rings, Cur

\* An event more in the current list.
LEMMA RecordRing ==
  ASSUME NEW d \in Nat, NEW r \in Rings(d), NEW e \in Events
  PROVE  /\ OnlyCur(Record(r, e), r)
         /\ Record(r, e).full = r.full /\ Record(r, e).delta = d
         /\ Cur(Record(r, e)) = Append(Cur(r), e)
<1>1. /\ r.delta = d /\ r.current \in 0 .. d - 1 /\ r.play \in Nat /\ r.full \in BOOLEAN
      /\ r.lists \in [0 .. d - 1 -> Lists] /\ Cur(r) \in Lists
  BY RingParts
<1>2. Append(Cur(r), e) \in Lists
  BY <1>1, AppendEvent
<1> DEFINE ll == [r.lists EXCEPT ![r.current] = Append(Cur(r), e)]
<1>3. Record(r, e) = [r EXCEPT !.lists = ll]
  BY DEF Record, Cur
<1>4. /\ ll \in [0 .. d - 1 -> Lists] /\ ll[r.current] = Append(Cur(r), e)
      /\ \A i \in 0 .. d - 1 : i # r.current => ll[i] = r.lists[i]
  BY <1>1, <1>2
<1> HIDE DEF ll
<1>5. /\ Record(r, e) \in Rings(d) /\ Record(r, e).lists = ll
      /\ Record(r, e).current = r.current /\ Record(r, e).play = r.play
      /\ Record(r, e).full = r.full /\ Record(r, e).delta = r.delta
  BY <1>3, <1>4 DEF Rings
<1> QED BY <1>1, <1>4, <1>5 DEF OnlyCur, Cur

\* Entering the receiving half of the hook.
LEMMA EnterRing ==
  ASSUME NEW d \in Nat, NEW r \in Rings(d)
  PROVE  /\ OnlyCur(EnterReceive(r), r)
         /\ EnterReceive(r).delta = d
         /\ EnterReceive(r).full <=> r.full \/ r.current = d - 1
         /\ Cur(EnterReceive(r)) = Cur(r)
<1>1. /\ r.delta = d /\ r.current \in 0 .. d - 1 /\ r.play \in Nat /\ r.full \in BOOLEAN
      /\ r.lists \in [0 .. d - 1 -> Lists] /\ Cur(r) \in Lists
  BY RingParts
<1> DEFINE b == r.full \/ r.current = r.delta - 1
<1>2. EnterReceive(r) = [r EXCEPT !.full = b] /\ b \in BOOLEAN
  BY DEF EnterReceive
<1> HIDE DEF b
<1>3. /\ EnterReceive(r) \in Rings(d) /\ EnterReceive(r).lists = r.lists
      /\ EnterReceive(r).current = r.current /\ EnterReceive(r).play = r.play
      /\ EnterReceive(r).full = b /\ EnterReceive(r).delta = r.delta
  BY <1>2 DEF Rings
<1> QED BY <1>1, <1>3 DEF OnlyCur, Cur, b

\* Places in the ring.
LEMMA SlotPlace ==
  ASSUME NEW d \in Nat, NEW r \in Rings(d), NEW j \in 1 .. d - 1
  PROVE  Slot(r, j) \in 0 .. d - 1 /\ Slot(r, j) # r.current
<1>1. r.delta = d /\ r.current \in 0 .. d - 1
  BY RingParts
<1> QED BY <1>1 DEF Slot

\* The older lists stay when the current one changes.
LEMMA RingKept ==
  ASSUME NEW r, NEW rec \in Machines, NEW m, RingOk(r, rec, m),
         NEW r2, OnlyCur(r2, r),
         r2.full => Len(rec) >= r.delta, ~ r2.full => r.current = Len(rec) - 1,
         NEW new \in Machines, Len(new) = Len(rec), Extends(new, rec, Len(rec) - 1)
  PROVE  RingOk(r2, new, m)
<1> DEFINE d == r.delta
<1>1. /\ d \in Nat /\ d >= 2 /\ r \in Rings(d) /\ Len(rec) >= 1 /\ Len(m) = Len(rec) - 1
      /\ Len(rec) > 1 => r.play = Slot(r, d - 1)
      /\ \A j \in 1 .. d - 1 :
           j < Len(rec) => Len(Back(r, j)) > 0 /\ Holds(Back(r, j), m, rec, Len(rec) - j)
  BY DEF RingOk
<1>2. /\ r2 \in Rings(d) /\ r2.delta = d /\ r2.current = r.current /\ r2.play = r.play
      /\ \A i \in 0 .. d - 1 : i # r.current => r2.lists[i] = r.lists[i]
  BY <1>1, RingParts DEF OnlyCur
<1> HIDE DEF d
<1>3. \A j : Slot(r2, j) = Slot(r, j)
  BY <1>2 DEF Slot, d
<1>4. ASSUME NEW j \in 1 .. d - 1, j < Len(rec)
      PROVE  Len(Back(r2, j)) > 0 /\ Holds(Back(r2, j), m, new, Len(new) - j)
  <2>1. Slot(r, j) \in 0 .. d - 1 /\ Slot(r, j) # r.current
    BY <1>1, SlotPlace
  <2>2. Back(r2, j) = Back(r, j)
    BY <1>2, <1>3, <2>1 DEF Back
  <2>3. Len(rec) \in Nat /\ j \in Nat
    BY DEF Machines
  <2>4. Len(rec) - j \in 1 .. Len(rec) - 1 /\ Len(rec) - j \in Int
    BY <1>4, <2>3
  <2>5. new[Len(rec) - j] = rec[Len(rec) - j]
    BY <2>4 DEF Extends
  <2>6. Extends(m, m, (Len(rec) - j) - 1)
    BY DEF Extends
  <2>7. Len(Back(r, j)) > 0 /\ Holds(Back(r, j), m, rec, Len(rec) - j)
    BY <1>1, <1>4
  <2>8. Holds(Back(r, j), m, new, Len(rec) - j)
    BY <2>4, <2>5, <2>6, <2>7, HoldsLater
  <2> QED BY <2>2, <2>7, <2>8
<1>5. r2.full \in BOOLEAN
  BY <1>1, <1>2, RingParts
<1>6. Len(new) > 1 => r2.play = Slot(r2, d - 1)
  BY <1>1, <1>2, <1>3
<1> QED BY <1>1, <1>2, <1>4, <1>5, <1>6 DEF RingOk, d

\* network_prepare_next_frame on a ring.
NextRing(r) ==
  LET current == (r.current + 1) % r.delta
  IN  [r EXCEPT !.current = current, !.play = (current + 1) % r.delta, !.lists[current] = << >>]

\* The next place of a ring.
LEMMA NextPlace ==
  ASSUME NEW d \in Nat, d >= 2, NEW c \in 0 .. d - 1
  PROVE  /\ (c + 1) % d = IF c + 1 = d THEN 0 ELSE c + 1
         /\ (c + 1) % d \in 0 .. d - 1
BY SMT

\* What it does.
LEMMA NextRingParts ==
  ASSUME NEW d \in Nat, d >= 2, NEW r \in Rings(d)
  PROVE  LET n == NextRing(r) IN
         /\ n \in Rings(d) /\ n.delta = d /\ n.full = r.full
         /\ n.current = IF r.current + 1 = d THEN 0 ELSE r.current + 1
         /\ n.play = Slot(n, d - 1)
         /\ Cur(n) = << >>
         /\ \A i \in 0 .. d - 1 : i # n.current => n.lists[i] = r.lists[i]
         /\ Slot(n, 1) = r.current
         /\ \A j \in 2 .. d - 1 : Slot(n, j) = Slot(r, j - 1)
<1> DEFINE c == (r.current + 1) % r.delta
           e == (c + 1) % r.delta
           ll == [r.lists EXCEPT ![c] = << >>]
           n == NextRing(r)
<1>1. /\ r.delta = d /\ r.current \in 0 .. d - 1 /\ r.full \in BOOLEAN
      /\ r.lists \in [0 .. d - 1 -> Lists]
  BY RingParts
<1>2. c = (IF r.current + 1 = d THEN 0 ELSE r.current + 1) /\ c \in 0 .. d - 1
  BY <1>1, NextPlace
<1> HIDE DEF c
<1>3. e = (IF c + 1 = d THEN 0 ELSE c + 1) /\ e \in 0 .. d - 1
  BY <1>1, <1>2, NextPlace
<1>4. n = [r EXCEPT !.current = c, !.play = e, !.lists = ll]
  BY DEF NextRing, c
<1> HIDE DEF e
<1>5. << >> \in Lists
  BY DEF Lists
<1>6. /\ ll \in [0 .. d - 1 -> Lists] /\ ll[c] = << >>
      /\ \A i \in 0 .. d - 1 : i # c => ll[i] = r.lists[i]
  BY <1>1, <1>2, <1>5
<1> HIDE DEF ll, n
<1>7. /\ n \in Rings(d) /\ n.lists = ll /\ n.current = c /\ n.play = e
      /\ n.full = r.full /\ n.delta = d
  <2> DEFINE a == [r EXCEPT !.current = c]
             b == [a EXCEPT !.play = e]
  <2>1. a \in Rings(d) /\ a.current = c /\ a.full = r.full /\ a.delta = d
    BY <1>1, <1>2 DEF Rings
  <2>2. n = [b EXCEPT !.lists = ll]
    BY <1>4
  <2> HIDE DEF a
  <2>3. e \in Nat
    BY <1>3
  <2>4. b \in Rings(d) /\ b.current = c /\ b.play = e /\ b.full = r.full /\ b.delta = d
    BY <2>1, <2>3 DEF Rings
  <2> HIDE DEF b
  <2> QED BY <1>6, <2>2, <2>4 DEF Rings
<1>8. n.play = Slot(n, d - 1)
  BY <1>2, <1>3, <1>7 DEF Slot
<1>9. Slot(n, 1) = r.current
  BY <1>1, <1>2, <1>7 DEF Slot
<1>10. \A j \in 2 .. d - 1 : Slot(n, j) = Slot(r, j - 1)
  BY <1>1, <1>2, <1>7 DEF Slot
<1>11. Cur(n) = << >>
  BY <1>6, <1>7 DEF Cur
<1>12. \A i \in 0 .. d - 1 : i # n.current => n.lists[i] = r.lists[i]
  BY <1>6, <1>7
<1>13. n.current = IF r.current + 1 = d THEN 0 ELSE r.current + 1
  BY <1>2, <1>7
<1> QED BY <1>7, <1>8, <1>9, <1>10, <1>11, <1>12, <1>13 DEF n

\* A frame more: the list that was current is the one of a frame ago.
LEMMA RingAdvances ==
  ASSUME NEW r, NEW rec \in Machines, NEW m \in Machines, RingOk(r, rec, m),
         CurOk(r, rec, m), Len(Cur(r)) > 0, r.full \/ r.current # r.delta - 1,
         NEW x \in Seq(Inputs)
  PROVE  /\ RingOk(NextRing(r), Append(rec, << >>), Append(m, x))
         /\ CurOk(NextRing(r), Append(rec, << >>), Append(m, x))
         /\ Open(Cur(NextRing(r)))
         /\ NextRing(r).full = r.full /\ NextRing(r).delta = r.delta
<1> DEFINE d == r.delta
           n == NextRing(r)
           new == Append(rec, << >>)
           mm == Append(m, x)
           N == Len(rec)
<1>1. /\ d \in Nat /\ d >= 2 /\ r \in Rings(d) /\ N >= 1 /\ Len(m) = N - 1
      /\ r.full => N >= d
      /\ ~ r.full => r.current = N - 1
      /\ \A j \in 1 .. d - 1 :
           j < N => Len(Back(r, j)) > 0 /\ Holds(Back(r, j), m, rec, N - j)
  BY DEF RingOk
<1>2. /\ n \in Rings(d) /\ n.delta = d /\ n.full = r.full
      /\ n.current = IF r.current + 1 = d THEN 0 ELSE r.current + 1
      /\ n.play = Slot(n, d - 1)
      /\ Cur(n) = << >>
      /\ \A i \in 0 .. d - 1 : i # n.current => n.lists[i] = r.lists[i]
      /\ Slot(n, 1) = r.current
      /\ \A j \in 2 .. d - 1 : Slot(n, j) = Slot(r, j - 1)
  BY <1>1, NextRingParts
<1>3. << >> \in Seq(Inputs)
  OBVIOUS
<1>4. /\ N \in Nat /\ new \in Machines /\ Len(new) = N + 1 /\ new[N + 1] = << >>
      /\ \A k \in 1 .. N : new[k] = rec[k]
      /\ mm \in Machines /\ Len(mm) = N
      /\ \A k \in 1 .. N - 1 : mm[k] = m[k]
  BY <1>1, <1>3 DEF Machines
<1>5. r.full \in BOOLEAN /\ r.current \in 0 .. d - 1
  BY <1>1, RingParts
<1> HIDE DEF d, n, new, mm, N
<1>6. ASSUME NEW j \in 1 .. d - 1, j < N + 1
      PROVE  Len(Back(n, j)) > 0 /\ Holds(Back(n, j), mm, new, (N + 1) - j)
  <2>1. Slot(n, j) \in 0 .. d - 1 /\ Slot(n, j) # n.current
    BY <1>1, <1>2, SlotPlace
  <2>2. n.lists[Slot(n, j)] = r.lists[Slot(n, j)]
    BY <1>2, <2>1
  <2>3. Back(n, j) = r.lists[Slot(n, j)]
    BY <2>2 DEF Back
  <2>4. (N + 1) - j \in 1 .. N /\ (N + 1) - j \in Int
    BY <1>1, <1>4, <1>6
  <2>5. new[(N + 1) - j] = rec[(N + 1) - j]
    BY <1>4, <2>4
  <2>6. Extends(mm, m, ((N + 1) - j) - 1)
    BY <1>1, <1>4, <1>6 DEF Extends
  <2>7. Len(Back(n, j)) > 0 /\ Holds(Back(n, j), m, rec, (N + 1) - j)
    <3>1. CASE j = 1
      <4>1. Back(n, j) = Cur(r)
        BY <1>2, <2>3, <3>1 DEF Cur
      <4>2. (N + 1) - j = N
        BY <1>4, <3>1
      <4> QED BY <4>1, <4>2 DEF CurOk, N
    <3>2. CASE j # 1
      <4>1. j \in 2 .. d - 1 /\ j - 1 \in 1 .. d - 1 /\ j - 1 < N /\ (N + 1) - j = N - (j - 1)
        BY <1>1, <1>4, <1>6, <3>2
      <4>2. Back(n, j) = Back(r, j - 1)
        BY <1>2, <2>3, <4>1 DEF Back
      <4> QED BY <1>1, <4>1, <4>2
    <3> QED BY <3>1, <3>2
  <2> QED BY <2>4, <2>5, <2>6, <2>7, HoldsLater
<1>7. Holds(Cur(n), mm, new, N + 1) /\ Open(Cur(n))
  <2>1. << >> \in Lists /\ Len(<< >>) = 0
    BY DEF Lists
  <2>2. Holds(<< >>, mm, new, N + 1) /\ Open(<< >>)
    BY <1>4, <2>1, InputsOfEmpty DEF Holds, Open
  <2> QED BY <1>2, <2>2
<1>8. (n.full => N + 1 >= d) /\ (~ n.full => n.current = (N + 1) - 1)
  BY <1>1, <1>2, <1>4, <1>5 DEF d
<1>9. RingOk(n, new, mm)
  <2>1. Len(new) >= 1 /\ Len(mm) = Len(new) - 1 /\ Len(new) = N + 1
    BY <1>4
  <2> QED BY <1>1, <1>2, <1>6, <1>8, <2>1 DEF RingOk
<1>10. CurOk(n, new, mm)
  BY <1>4, <1>7 DEF CurOk
<1> QED BY <1>2, <1>7, <1>9, <1>10 DEF d, n, new, mm

\* The ring of a new session.
LEMMA RingStarts ==
  ASSUME NEW d \in Nat, d >= 2, NEW r, r.delta = d, r \in Rings(d), r.current = 0, ~ r.full,
         Cur(r) = << >>
  PROVE  /\ RingOk(r, << << >> >>, << >>)
         /\ CurOk(r, << << >> >>, << >>)
         /\ Open(Cur(r))
<1>1. << << >> >>[1] = << >> /\ Len(<< << >> >>) = 1 /\ Len(<< >>) = 0 /\ << >> \in Lists
  BY DEF Lists
<1>2. CurOk(r, << << >> >>, << >>) /\ Open(Cur(r))
  BY <1>1, InputsOfEmpty DEF CurOk, Holds, Open
<1>3. RingOk(r, << << >> >>, << >>)
  BY <1>1 DEF RingOk
<1> QED BY <1>2, <1>3

-----------------------------------------------------------------------------
(***************************************************************************)
(* What is on its way.                                                     *)
(***************************************************************************)

\* The number of lists is a number.
LEMMA ListsInNat ==
  ASSUME NEW w, NEW n \in Nat
  PROVE  /\ IsFiniteSet({k \in 1 .. n : w[k][1] = "list"})
         /\ ListsIn(w, n) \in Nat /\ ListsIn(w, 0) = 0
<1>1. {k \in 1 .. n : w[k][1] = "list"} \in SUBSET (1 .. n) /\ IsFiniteSet(1 .. n)
  BY FS_Interval
<1>2. IsFiniteSet({k \in 1 .. n : w[k][1] = "list"})
  BY <1>1, FS_Subset
<1>3. {k \in 1 .. 0 : w[k][1] = "list"} = {}
  OBVIOUS
<1> QED BY <1>2, <1>3, FS_CardinalityType, FS_EmptySet DEF ListsIn

\* One message more.
LEMMA ListsInNext ==
  ASSUME NEW w, NEW n \in Nat
  PROVE  ListsIn(w, n + 1) = ListsIn(w, n) + (IF w[n + 1][1] = "list" THEN 1 ELSE 0)
<1> DEFINE T == {k \in 1 .. n : w[k][1] = "list"}
<1>1. IsFiniteSet(T) /\ ListsIn(w, n) = Cardinality(T) /\ Cardinality(T) \in Nat
  BY ListsInNat DEF ListsIn
<1>2. n + 1 \notin T
  OBVIOUS
<1>3. CASE w[n + 1][1] = "list"
  <2>1. {k \in 1 .. n + 1 : w[k][1] = "list"} = T \cup {n + 1}
    BY <1>3
  <2> HIDE DEF T
  <2>2. Cardinality(T \cup {n + 1}) = Cardinality(T) + 1
    BY <1>1, <1>2, FS_AddElement
  <2> QED BY <1>1, <1>3, <2>1, <2>2 DEF ListsIn
<1>4. CASE w[n + 1][1] # "list"
  <2>1. {k \in 1 .. n + 1 : w[k][1] = "list"} = T
    BY <1>4
  <2> HIDE DEF T
  <2> QED BY <1>1, <1>4, <2>1, SMTT(30) DEF ListsIn
<1> QED BY <1>3, <1>4

\* The count looks at the first messages only.
LEMMA ListsInSame ==
  ASSUME NEW s, NEW t, NEW n \in Nat, Extends(s, t, n)
  PROVE  ListsIn(s, n) = ListsIn(t, n)
<1>1. {k \in 1 .. n : s[k][1] = "list"} = {k \in 1 .. n : t[k][1] = "list"}
  BY DEF Extends
<1> QED BY <1>1 DEF ListsIn

\* It grows, and counts each list.
LEMMA ListsInGrows ==
  ASSUME NEW w, NEW n \in Nat, NEW k \in 1 .. n
  PROVE  /\ ListsIn(w, k) <= ListsIn(w, n)
         /\ w[k][1] = "list" => ListsIn(w, k) > 0
<1>0. k \in Nat
  OBVIOUS
<1>1. {j \in 1 .. k : w[j][1] = "list"} \in SUBSET {j \in 1 .. n : w[j][1] = "list"}
  OBVIOUS
<1>2. ListsIn(w, k) <= ListsIn(w, n)
  BY <1>1, ListsInNat, FS_Subset DEF ListsIn
<1>3. ASSUME w[k][1] = "list" PROVE ListsIn(w, k) > 0
  <2>1. k \in {j \in 1 .. k : w[j][1] = "list"}
    BY <1>3
  <2>2. /\ IsFiniteSet({j \in 1 .. k : w[j][1] = "list"})
        /\ Cardinality({j \in 1 .. k : w[j][1] = "list"}) \in Nat
    BY <1>0, ListsInNat DEF ListsIn
  <2>3. Cardinality({j \in 1 .. k : w[j][1] = "list"}) # 0
    BY <2>1, <2>2, FS_EmptySet
  <2> QED BY <2>2, <2>3 DEF ListsIn
<1> QED BY <1>2, <1>3

\* Without the first message the counts are smaller by it.
LEMMA ListsInTail ==
  ASSUME NEW w \in Seq(Messages), w # << >>, NEW n \in 0 .. Len(w) - 1
  PROVE  ListsIn(w, n + 1) = ListsIn(Tail(w), n) + (IF Head(w)[1] = "list" THEN 1 ELSE 0)
<1> DEFINE d == IF Head(w)[1] = "list" THEN 1 ELSE 0
           P == {k \in Nat : k <= n => ListsIn(w, k + 1) = ListsIn(Tail(w), k) + d}
<1>1. /\ Len(w) \in Nat /\ Len(w) > 0 /\ Head(w) = w[1] /\ n \in Nat
      /\ \A k \in 1 .. Len(w) - 1 : Tail(w)[k] = w[k + 1]
  OBVIOUS
<1>2. d \in {0, 1}
  OBVIOUS
<1>3. 0 \in P
  <2>1. 0 \in Nat /\ 0 + 1 = 1
    OBVIOUS
  <2>2. ListsIn(w, 0) = 0 /\ ListsIn(Tail(w), 0) = 0
    BY <2>1, ListsInNat
  <2>3. ListsIn(w, 0 + 1) = ListsIn(w, 0) + (IF w[0 + 1][1] = "list" THEN 1 ELSE 0)
    BY <2>1, ListsInNext
  <2>4. ListsIn(w, 0 + 1) = 0 + d
    BY <1>1, <2>1, <2>2, <2>3
  <2> HIDE DEF d
  <2> QED BY <2>2, <2>4
<1> HIDE DEF d
<1>4. ASSUME NEW k \in P PROVE k + 1 \in P
  <2> SUFFICES ASSUME k + 1 <= n
               PROVE  ListsIn(w, (k + 1) + 1) = ListsIn(Tail(w), k + 1) + d
    OBVIOUS
  <2>1. k \in Nat /\ k + 1 \in Nat /\ ListsIn(w, k + 1) = ListsIn(Tail(w), k) + d
    OBVIOUS
  <2> HIDE DEF P
  <2>2. Tail(w)[k + 1] = w[(k + 1) + 1]
    BY <1>1, <2>1
  <2> DEFINE x == IF w[(k + 1) + 1][1] = "list" THEN 1 ELSE 0
  <2>3. ListsIn(w, (k + 1) + 1) = ListsIn(w, k + 1) + x
    BY <2>1, ListsInNext
  <2>4. ListsIn(Tail(w), k + 1) = ListsIn(Tail(w), k) + x
    BY <2>1, <2>2, ListsInNext
  <2>5. x \in {0, 1}
    OBVIOUS
  <2>6. ListsIn(Tail(w), k) \in Nat
    BY <2>1, ListsInNat
  <2> HIDE DEF x
  <2> QED BY <1>2, <2>1, <2>3, <2>4, <2>5, <2>6
<1>5. P \in SUBSET Nat
  OBVIOUS
<1> HIDE DEF P
<1>6. P = Nat
  BY <1>3, <1>4, <1>5, NatInduct
<1>7. n \in P
  BY <1>1, <1>6
<1> QED BY <1>1, <1>7 DEF P, d

\* A message with its tag, and what a list message holds.
LEMMA MessageTags ==
  ASSUME NEW x \in Messages, x[1] = "list"
  PROVE  x[2] \in Lists /\ x = <<"list", x[2]>>
BY DEF Messages

\* A message that is sent.
LEMMA AppendMessage ==
  ASSUME NEW w \in Seq(Messages), NEW x \in Messages
  PROVE  /\ Append(w, x) \in Seq(Messages) /\ Len(w) \in Nat /\ Len(Append(w, x)) = Len(w) + 1
         /\ Append(w, x)[Len(w) + 1] = x
         /\ \A k \in 1 .. Len(w) : /\ Append(w, x)[k] = w[k]
                                   /\ ListsIn(Append(w, x), k) = ListsIn(w, k)
         /\ ListsIn(Append(w, x), Len(w) + 1) = ListsIn(w, Len(w)) + (IF x[1] = "list" THEN 1 ELSE 0)
         /\ w # << >> => Head(Append(w, x)) = Head(w)
<1>1. /\ Append(w, x) \in Seq(Messages) /\ Len(w) \in Nat /\ Len(Append(w, x)) = Len(w) + 1
      /\ Append(w, x)[Len(w) + 1] = x
      /\ \A k \in 1 .. Len(w) : Append(w, x)[k] = w[k]
      /\ w # << >> => Head(Append(w, x)) = Head(w)
  OBVIOUS
<1>2. \A k \in 0 .. Len(w) : ListsIn(Append(w, x), k) = ListsIn(w, k)
  <2> TAKE k \in 0 .. Len(w)
  <2>1. k \in Nat
    BY <1>1
  <2>2. Extends(Append(w, x), w, k)
    BY <1>1, <2>1 DEF Extends
  <2> QED BY <2>1, <2>2, ListsInSame
<1>3. Len(w) \in 0 .. Len(w) /\ \A k \in 1 .. Len(w) : k \in 0 .. Len(w)
  BY <1>1
<1>4. ListsIn(Append(w, x), Len(w)) = ListsIn(w, Len(w))
  BY <1>2, <1>3
<1>5. ListsIn(Append(w, x), Len(w) + 1) =
        ListsIn(Append(w, x), Len(w)) + (IF Append(w, x)[Len(w) + 1][1] = "list" THEN 1 ELSE 0)
  BY <1>1, ListsInNext
<1>6. ListsIn(Append(w, x), Len(w) + 1) = ListsIn(w, Len(w)) + (IF x[1] = "list" THEN 1 ELSE 0)
  BY <1>1, <1>4, <1>5
<1> QED BY <1>1, <1>2, <1>3, <1>6

\* A message that is not a list changes nothing.
LEMMA WireAppendsOther ==
  ASSUME NEW w \in Seq(Messages), NEW x \in Messages, x[1] # "list",
         NEW played \in Nat
  PROVE  /\ Total(Append(w, x), played) = Total(w, played)
         /\ \A m, rec : WireOk(w, m, rec, played) => WireOk(Append(w, x), m, rec, played)
<1> DEFINE t == Append(w, x)
<1>1. /\ t \in Seq(Messages) /\ Len(w) \in Nat /\ Len(t) = Len(w) + 1
      /\ t[Len(w) + 1] = x
      /\ \A k \in 1 .. Len(w) : t[k] = w[k] /\ ListsIn(t, k) = ListsIn(w, k)
      /\ ListsIn(t, Len(w) + 1) = ListsIn(w, Len(w)) + (IF x[1] = "list" THEN 1 ELSE 0)
  BY AppendMessage
<1> HIDE DEF t
<1>2. ListsIn(w, Len(w)) \in Nat
  BY <1>1, ListsInNat
<1>3. ListsIn(t, Len(w) + 1) = ListsIn(w, Len(w))
  BY <1>1, <1>2
<1>4. Total(t, played) = Total(w, played)
  BY <1>1, <1>3 DEF Total
<1>5. ASSUME NEW m, NEW rec, WireOk(w, m, rec, played) PROVE WireOk(t, m, rec, played)
  <2> SUFFICES ASSUME NEW k \in 1 .. Len(t), t[k][1] = "list"
               PROVE  Len(t[k][2]) > 0 /\ Holds(t[k][2], m, rec, played + ListsIn(t, k))
    BY DEF WireOk
  <2>1. k # Len(w) + 1
    BY <1>1
  <2>2. k \in 1 .. Len(w)
    BY <1>1, <2>1
  <2>3. t[k] = w[k] /\ ListsIn(t, k) = ListsIn(w, k)
    BY <1>1, <2>2
  <2> QED BY <1>5, <2>2, <2>3 DEF WireOk
<1> QED BY <1>4, <1>5 DEF t

\* The list of the next frame is sent.
LEMMA WireAppendsList ==
  ASSUME NEW w \in Seq(Messages), NEW l \in Lists, Len(l) > 0, NEW played \in Nat,
         NEW m, NEW rec, WireOk(w, m, rec, played), Holds(l, m, rec, Total(w, played) + 1)
  PROVE  WireOk(Append(w, <<"list", l>>), m, rec, played)
<1> DEFINE x == <<"list", l>>
           t == Append(w, x)
<1>0. x \in Messages /\ x[1] = "list" /\ x[2] = l
  BY DEF Messages
<1> HIDE DEF x
<1>1. /\ t \in Seq(Messages) /\ Len(w) \in Nat /\ Len(t) = Len(w) + 1
      /\ t[Len(w) + 1] = x
      /\ \A k \in 1 .. Len(w) : t[k] = w[k] /\ ListsIn(t, k) = ListsIn(w, k)
      /\ ListsIn(t, Len(w) + 1) = ListsIn(w, Len(w)) + (IF x[1] = "list" THEN 1 ELSE 0)
  BY <1>0, AppendMessage
<1> HIDE DEF t
<1>2. ListsIn(w, Len(w)) \in Nat
  BY <1>1, ListsInNat
<1>3. ListsIn(t, Len(w) + 1) = ListsIn(w, Len(w)) + 1
  BY <1>0, <1>1
<1>4. played + ListsIn(t, Len(w) + 1) = Total(w, played) + 1
  BY <1>2, <1>3 DEF Total
<1>5. ASSUME NEW k \in 1 .. Len(t), t[k][1] = "list"
      PROVE  Len(t[k][2]) > 0 /\ Holds(t[k][2], m, rec, played + ListsIn(t, k))
  <2>1. CASE k = Len(w) + 1
    BY <1>0, <1>1, <1>4, <2>1
  <2>2. CASE k # Len(w) + 1
    <3>1. k \in 1 .. Len(w)
      BY <1>1, <2>2
    <3>2. t[k] = w[k] /\ ListsIn(t, k) = ListsIn(w, k)
      BY <1>1, <3>1
    <3> QED BY <1>5, <3>1, <3>2 DEF WireOk
  <2> QED BY <2>1, <2>2
<1> QED BY <1>5 DEF WireOk, t, x

\* The total after a list.
LEMMA TotalAppendsList ==
  ASSUME NEW w \in Seq(Messages), NEW l \in Lists, NEW played \in Nat
  PROVE  Total(Append(w, <<"list", l>>), played) = Total(w, played) + 1
<1> DEFINE x == <<"list", l>>
<1>0. x \in Messages /\ x[1] = "list"
  BY DEF Messages
<1> HIDE DEF x
<1>1. /\ Len(w) \in Nat /\ Len(Append(w, x)) = Len(w) + 1
      /\ ListsIn(Append(w, x), Len(w) + 1) = ListsIn(w, Len(w)) + (IF x[1] = "list" THEN 1 ELSE 0)
  BY <1>0, AppendMessage
<1>2. ListsIn(w, Len(w)) \in Nat
  BY <1>1, ListsInNat
<1>3. ListsIn(Append(w, x), Len(w) + 1) = ListsIn(w, Len(w)) + 1
  BY <1>0, <1>1
<1> QED BY <1>1, <1>2, <1>3 DEF Total, x

\* A message is read: a list counts as played from then on.
LEMMA WireReads ==
  ASSUME NEW w \in Seq(Messages), w # << >>, NEW played \in Nat, NEW after \in Nat,
         after = played + (IF Head(w)[1] = "list" THEN 1 ELSE 0)
  PROVE  /\ Tail(w) \in Seq(Messages)
         /\ Total(Tail(w), after) = Total(w, played)
         /\ \A m, rec : WireOk(w, m, rec, played) => WireOk(Tail(w), m, rec, after)
         /\ Tail(w) # << >> => Tail(w)[Len(Tail(w))] = w[Len(w)]
<1> DEFINE t == Tail(w)
           d == IF Head(w)[1] = "list" THEN 1 ELSE 0
<1>1. /\ t \in Seq(Messages) /\ Len(w) \in Nat /\ Len(w) > 0 /\ Len(t) = Len(w) - 1
      /\ \A k \in 1 .. Len(w) - 1 : t[k] = w[k + 1]
  OBVIOUS
<1>2. \A k \in 0 .. Len(w) - 1 : ListsIn(w, k + 1) = ListsIn(t, k) + d
  BY ListsInTail
<1>3. d \in {0, 1} /\ after = played + d
  OBVIOUS
<1> HIDE DEF t, d
<1>4. ASSUME NEW k \in 0 .. Len(w) - 1
      PROVE  after + ListsIn(t, k) = played + ListsIn(w, k + 1)
  <2>1. k \in Nat
    BY <1>1
  <2>2. ListsIn(t, k) \in Nat
    BY <2>1, ListsInNat
  <2>3. ListsIn(w, k + 1) = ListsIn(t, k) + d
    BY <1>2
  <2> QED BY <1>3, <2>2, <2>3
<1>5. Total(t, after) = Total(w, played)
  <2>1. Len(w) - 1 \in 0 .. Len(w) - 1 /\ (Len(w) - 1) + 1 = Len(w)
    BY <1>1
  <2>2. after + ListsIn(t, Len(w) - 1) = played + ListsIn(w, (Len(w) - 1) + 1)
    BY <1>4, <2>1
  <2> QED BY <1>1, <2>1, <2>2 DEF Total
<1>6. ASSUME NEW m, NEW rec, WireOk(w, m, rec, played) PROVE WireOk(t, m, rec, after)
  <2> SUFFICES ASSUME NEW k \in 1 .. Len(t), t[k][1] = "list"
               PROVE  Len(t[k][2]) > 0 /\ Holds(t[k][2], m, rec, after + ListsIn(t, k))
    BY DEF WireOk
  <2>1. k \in 0 .. Len(w) - 1 /\ k + 1 \in 1 .. Len(w) /\ t[k] = w[k + 1]
    BY <1>1
  <2>2. after + ListsIn(t, k) = played + ListsIn(w, k + 1)
    BY <1>4, <2>1
  <2> QED BY <1>6, <2>1, <2>2 DEF WireOk
<1>7. ASSUME t # << >> PROVE t[Len(t)] = w[Len(w)]
  <2>1. Len(t) > 0
    BY <1>1, <1>7
  <2>2. Len(t) \in 1 .. Len(w) - 1 /\ Len(t) + 1 = Len(w)
    BY <1>1, <2>1
  <2> QED BY <1>1, <2>2
<1> QED BY <1>1, <1>5, <1>6, <1>7 DEF t

\* What is on its way stays right when the sender's frames go on.
LEMMA WireLater ==
  ASSUME NEW w \in Seq(Messages), NEW played \in Nat, NEW m, NEW rec, WireOk(w, m, rec, played),
         NEW mm, Extends(mm, m, Total(w, played) - 1),
         NEW new, Extends(new, rec, Total(w, played))
  PROVE  WireOk(w, mm, new, played)
<1> SUFFICES ASSUME NEW k \in 1 .. Len(w), w[k][1] = "list"
             PROVE  Len(w[k][2]) > 0 /\ Holds(w[k][2], mm, new, played + ListsIn(w, k))
  BY DEF WireOk
<1>1. Len(w) \in Nat /\ k \in Nat
  OBVIOUS
<1>2. PICK a, b : a = ListsIn(w, k) /\ b = ListsIn(w, Len(w))
  OBVIOUS
<1>3. a \in Nat /\ b \in Nat
  BY <1>1, <1>2, ListsInNat
<1>4. a <= b /\ a > 0
  BY <1>1, <1>2, ListsInGrows
<1>5. Total(w, played) = played + b
  BY <1>2 DEF Total
<1>6. played + a \in Int /\ played + a \in 1 .. played + b
  BY <1>3, <1>4
<1>7. new[played + a] = rec[played + a]
  BY <1>5, <1>6 DEF Extends
<1>8. Extends(mm, m, (played + a) - 1)
  BY <1>3, <1>4, <1>5 DEF Extends
<1>9. Len(w[k][2]) > 0 /\ Holds(w[k][2], m, rec, played + a)
  BY <1>2 DEF WireOk
<1>10. Holds(w[k][2], mm, new, played + a)
  BY <1>6, <1>7, <1>8, <1>9, HoldsLater
<1> QED BY <1>2, <1>9, <1>10

\* A side that hangs up with something unread has not played all.
LEMMA UnreadLeft ==
  ASSUME NEW w \in Seq(Messages), w # << >>, NEW played \in Nat, NEW n \in Nat,
         Total(w, played) <= n, w[Len(w)][1] # "list" => Total(w, played) < n
  PROVE  played < n
<1>1. Len(w) \in Nat /\ Len(w) \in 1 .. Len(w)
  OBVIOUS
<1>2. PICK b : b = ListsIn(w, Len(w))
  OBVIOUS
<1>3. b \in Nat
  BY <1>1, <1>2, ListsInNat
<1>4. w[Len(w)][1] = "list" => b > 0
  BY <1>1, <1>2, ListsInGrows
<1>5. Total(w, played) = played + b
  BY <1>2 DEF Total
<1> QED BY <1>3, <1>4, <1>5

\* What is sent is at least what was played.
LEMMA TotalAtLeast ==
  ASSUME NEW w \in Seq(Messages), NEW played \in Nat
  PROVE  Total(w, played) \in Nat /\ played <= Total(w, played)
<1>1. Len(w) \in Nat
  OBVIOUS
<1>2. ListsIn(w, Len(w)) \in Nat
  BY <1>1, ListsInNat
<1> QED BY <1>2 DEF Total

-----------------------------------------------------------------------------
(***************************************************************************)
(* What the machines were fed.                                             *)
(***************************************************************************)

\* What is recorded later does not matter for what was fed.
LEMMA AgreeKept ==
  ASSUME NEW m \in Machines, NEW a \in Machines, NEW b \in Machines, NEW d \in Nat,
         Agree(m, a, b, d),
         NEW aa \in Machines, Len(aa) >= Len(a), Extends(aa, a, Len(m) - d + 1),
         NEW bb \in Machines, Len(bb) >= Len(b), Extends(bb, b, Len(m) - d + 1)
  PROVE  Agree(m, aa, bb, d)
<1> SUFFICES ASSUME NEW n \in 1 .. Len(m)
             PROVE  /\ n - d + 1 < 1 => m[n] = << >>
                    /\ n - d + 1 >= 1 => /\ n - d + 1 <= Len(aa) /\ n - d + 1 <= Len(bb)
                                         /\ m[n] = aa[n - d + 1] \o bb[n - d + 1]
  BY DEF Agree
<1>1. Len(m) \in Nat /\ Len(a) \in Nat /\ Len(b) \in Nat /\ Len(aa) \in Nat /\ Len(bb) \in Nat
  BY DEF Machines
<1>2. /\ n - d + 1 < 1 => m[n] = << >>
      /\ n - d + 1 >= 1 => /\ n - d + 1 <= Len(a) /\ n - d + 1 <= Len(b)
                           /\ m[n] = a[n - d + 1] \o b[n - d + 1]
  BY DEF Agree
<1>3. ASSUME n - d + 1 >= 1
      PROVE  /\ n - d + 1 <= Len(aa) /\ n - d + 1 <= Len(bb)
             /\ aa[n - d + 1] = a[n - d + 1] /\ bb[n - d + 1] = b[n - d + 1]
  <2>1. n - d + 1 \in 1 .. Len(m) - d + 1
    BY <1>1, <1>3
  <2>2. n - d + 1 <= Len(aa) /\ n - d + 1 <= Len(bb)
    BY <1>1, <1>2, <1>3
  <2> QED BY <2>1, <2>2 DEF Extends
<1> QED BY <1>2, <1>3

\* A frame more.
LEMMA AgreeNext ==
  ASSUME NEW m \in Machines, NEW a \in Machines, NEW b \in Machines, NEW d \in Nat,
         Agree(m, a, b, d), NEW x \in Seq(Inputs), NEW k \in Int, k = Len(m) + 1 - d + 1,
         k < 1 => x = << >>,
         k >= 1 => k <= Len(a) /\ k <= Len(b) /\ x = a[k] \o b[k]
  PROVE  Agree(Append(m, x), a, b, d)
<1>1. /\ Len(m) \in Nat /\ Len(Append(m, x)) = Len(m) + 1 /\ Append(m, x)[Len(m) + 1] = x
      /\ \A n \in 1 .. Len(m) : Append(m, x)[n] = m[n]
  BY DEF Machines
<1> SUFFICES ASSUME NEW n \in 1 .. Len(m) + 1
             PROVE  /\ n - d + 1 < 1 => Append(m, x)[n] = << >>
                    /\ n - d + 1 >= 1 => /\ n - d + 1 <= Len(a) /\ n - d + 1 <= Len(b)
                                         /\ Append(m, x)[n] = a[n - d + 1] \o b[n - d + 1]
  BY <1>1 DEF Agree
<1>2. CASE n = Len(m) + 1
  <2>1. n - d + 1 = k
    BY <1>1, <1>2
  <2> QED BY <1>1, <1>2, <2>1
<1>3. CASE n # Len(m) + 1
  <2>1. n \in 1 .. Len(m)
    BY <1>1, <1>3
  <2> QED BY <1>1, <2>1 DEF Agree
<1> QED BY <1>2, <1>3

-----------------------------------------------------------------------------
(***************************************************************************)
(* Steps that leave the rings, the machines and the sessions alone.        *)
(***************************************************************************)

\* The two sides.
LEMMA TwoPeers ==
  /\ S \in Peers /\ C \in Peers /\ S # C /\ Other(S) = C /\ Other(C) = S
  /\ \A p \in Peers : /\ Other(p) \in Peers /\ Other(p) # p /\ Other(Other(p)) = p
                      /\ p = S \/ p = C
                      /\ \A q \in Peers : q = p \/ q = Other(p)
BY DEF Peers, Other, S, C

Still == UNCHANGED <<ring, recorded, machine, session, syncTrap, sessions, inputs, falseAlarm>>

\* What the sides know of their session stays.
LEMMA StillLive ==
  ASSUME Still
  PROVE  \A p : Live(p)' = Live(p) /\ Frame(p)' = Frame(p) /\ Played(p)' = Played(p)
BY DEF Still, Live, Frame, Played

\* The same of one side.
Kept(p) ==
  /\ ring'[p] = ring[p] /\ recorded'[p] = recorded[p] /\ machine'[p] = machine[p]
  /\ session'[p] = session[p] /\ syncTrap'[p] = syncTrap[p] /\ sessions' = sessions

\* Then it is so for each side.
LEMMA StillKept == ASSUME Still PROVE \A p : Kept(p)
BY DEF Still, Kept

\* p does not begin to wait or to record.
PeerStill(p) ==
  /\ pc'[p] = "recv" => pc[p] = "recv" /\ (net'[p] = "open" => net[p] = "open")
  /\ network_connected(p)' /\ pc'[p] = "frame" =>
       \/ network_connected(p) /\ pc[p] = "frame" /\ (end[p] = "rst" => end'[p] = "rst")
       \/ end'[p] = "rst" /\ pc[p] = "recv"

\* Nothing is sent by p in its session, and nothing of it read; the other side
\* may hang up.
WireStill(p) ==
  Live(p) =>
    /\ wire'[Other(p)] = wire[Other(p)]
    /\ \/ end'[p] = end[p] /\ (net'[Other(p)] = "open" => net[Other(p)] = "open")
       \/ end[p] # "rst" /\ end'[p] \notin {"rst", "open"}
       \/ end'[p] = "rst" /\ wire[Other(p)] # << >> /\ net'[Other(p)] # "open"
    /\ network_connected(p)' /\ pc'[p] \in {"frame", "recv"} =>
         \/ network_connected(p) /\ pc'[p] = pc[p]
         \/ end'[p] = "rst"

\* Then p keeps its ring.
LEMMA StillPeer ==
  ASSUME NEW p \in Peers, Kept(p), PeerInv(p), PeerStill(p)
  PROVE  PeerInv(p)'
<1> SUFFICES ASSUME session[p] > 0
             PROVE  /\ RingOk(ring[p], recorded[p], machine[p])
                    /\ Open(Cur(ring[p])) => CurOk(ring[p], recorded[p], machine[p])
                    /\ pc'[p] = "recv" =>
                         /\ ring[p].full
                         /\ net'[p] = "open" =>
                              Len(Cur(ring[p])) > 0 /\ CurOk(ring[p], recorded[p], machine[p])
                    /\ syncTrap[p] => Open(Cur(ring[p]))
                    /\ network_connected(p)' /\ pc'[p] = "frame" =>
                         Open(Cur(ring[p])) \/ (end'[p] = "rst" /\ ring[p].full)
  BY DEF PeerInv, Kept
<1> QED BY DEF PeerInv, PeerStill

\* And what p has sent stays right.
LEMMA StillWire ==
  ASSUME Types, NEW p \in Peers, Kept(p), WireInv(p), WireStill(p),
         Played(Other(p)) \in Nat, Played(Other(p))' = Played(Other(p))
  PROVE  WireInv(p)'
<1> SUFFICES ASSUME Live(p)
             PROVE  WireInv(p)'
  BY DEF WireInv, Kept, Live
<1>0. /\ wire'[Other(p)] = wire[Other(p)]
      /\ \/ end'[p] = end[p] /\ (net'[Other(p)] = "open" => net[Other(p)] = "open")
         \/ end[p] # "rst" /\ end'[p] \notin {"rst", "open"}
         \/ end'[p] = "rst" /\ wire[Other(p)] # << >> /\ net'[Other(p)] # "open"
      /\ network_connected(p)' /\ pc'[p] \in {"frame", "recv"} =>
           \/ network_connected(p) /\ pc'[p] = pc[p]
           \/ end'[p] = "rst"
  BY DEF WireStill
<1> DEFINE q == Other(p)
           w == wire[q]
<1>1. /\ Live(p)' = Live(p) /\ Frame(p)' = Frame(p) /\ Played(q)' = Played(q) /\ wire'[q] = w
      /\ machine'[p] = machine[p] /\ recorded'[p] = recorded[p]
  BY <1>0 DEF Kept, Live, Frame
<1>2. SentBy(p)' = SentBy(p)
  BY <1>1 DEF SentBy
<1>3. ASSUME Live(p), w # << >> PROVE Played(q) < Frame(p)
  <2>1. w \in Seq(Messages) /\ Frame(p) \in Nat
    BY TwoPeers DEF Types, Frame, Machines
  <2>2. Total(w, Played(q)) <= Frame(p) /\ (w[Len(w)][1] # "list" => Total(w, Played(q)) < Frame(p))
    BY <1>3 DEF WireInv, SentBy
  <2> HIDE DEF w, q
  <2> QED BY <1>3, <2>1, <2>2, UnreadLeft DEF q
<1> SUFFICES ASSUME Live(p)
             PROVE  /\ end'[p] # "rst" => WireOk(w, machine[p], recorded[p], Played(q))
                    /\ end'[p] = "rst" => net'[q] # "open" /\ Played(q) < Frame(p)
                    /\ SentBy(p) <= Frame(p)
                    /\ w # << >> /\ w[Len(w)][1] # "list" => SentBy(p) < Frame(p)
                    /\ network_connected(p)' /\ pc'[p] = "frame" /\ end'[p] # "rst" =>
                         SentBy(p) < Frame(p)
                    /\ network_connected(p)' /\ end'[p] = "open" /\ pc'[p] \in {"frame", "recv"} =>
                         SentBy(p) = IF pc'[p] = "recv" THEN Frame(p) ELSE Frame(p) - 1
  BY <1>1, <1>2 DEF WireInv
<1>4. WireInv(p) /\ Live(p)
  OBVIOUS
<1>5. end'[p] # "rst" => WireOk(w, machine[p], recorded[p], Played(q))
  BY <1>0, <1>4 DEF WireInv
<1>6. end'[p] = "rst" => net'[q] # "open" /\ Played(q) < Frame(p)
  BY <1>0, <1>3, <1>4 DEF WireInv
<1>7. SentBy(p) <= Frame(p) /\ (w # << >> /\ w[Len(w)][1] # "list" => SentBy(p) < Frame(p))
  BY <1>0, <1>4 DEF WireInv
<1>8. network_connected(p)' /\ pc'[p] = "frame" /\ end'[p] # "rst" => SentBy(p) < Frame(p)
  BY <1>0, <1>4 DEF WireInv
<1>9. network_connected(p)' /\ end'[p] = "open" /\ pc'[p] \in {"frame", "recv"} =>
        SentBy(p) = IF pc'[p] = "recv" THEN Frame(p) ELSE Frame(p) - 1
  BY <1>0, <1>4 DEF WireInv
<1> QED BY <1>5, <1>6, <1>7, <1>8, <1>9

\* What both machines were fed stays.
LEMMA StillAgree == ASSUME Still, AgreeInv PROVE AgreeInv'
BY DEF Still, AgreeInv

\* Played is a number.
LEMMA PlayedNat ==
  ASSUME NetInv, NEW p \in Peers
  PROVE  /\ Played(p) \in Nat /\ Frame(p) \in Nat
         /\ session[p] > 0 => ring[p].delta \in Nat /\ ring[p].delta >= 2
         /\ Live(p) => session[p] > 0
<1>1. Frame(p) \in Nat /\ session[p] \in Nat /\ sessions \in Nat
  BY DEF NetInv, Types, Frame, Machines
<1>2. session[p] > 0 => ring[p].delta \in Nat /\ ring[p].delta >= 2
  BY DEF NetInv, PeerInv, RingOk
<1>3. Live(p) => session[p] > 0
  BY DEF Live
<1>4. CASE Live(p) /\ Frame(p) > ring[p].delta
  BY <1>1, <1>2, <1>3, <1>4 DEF Played
<1>5. CASE ~ (Live(p) /\ Frame(p) > ring[p].delta)
  <2>1. Played(p) = 0
    BY <1>5 DEF Played
  <2> QED BY <2>1, <1>1, <1>2, <1>3
<1> QED BY <1>1, <1>2, <1>3, <1>4, <1>5

\* Which mode is whose.
LEMMA Connected ==
  ASSUME Types
  PROVE  /\ network_connected(S) <=> mode[S] = "SERVER_CONNECTED"
         /\ network_connected(C) <=> mode[C] = "CLIENT"
BY DEF Types, network_connected

\* The part of the invariant that such a step keeps.
LEMMA StillKeeps ==
  ASSUME NetInv, Still, \A p \in Peers : PeerStill(p) /\ WireStill(p),
         Types', ServerStage', ClientStage', LiveInv'
  PROVE  NetInv'
<1>1. ASSUME NEW p \in Peers PROVE PeerInv(p)' /\ WireInv(p)'
  <2>1. PeerInv(p) /\ WireInv(p) /\ Types /\ PeerStill(p) /\ WireStill(p)
    BY DEF NetInv
  <2>2. Played(Other(p)) \in Nat /\ Played(Other(p))' = Played(Other(p)) /\ Kept(p)
    BY TwoPeers, PlayedNat, StillLive, StillKept
  <2>3. PeerInv(p)'
    BY <2>1, <2>2, StillPeer
  <2>4. WireInv(p)'
    BY <2>1, <2>2, StillWire
  <2> QED BY <2>3, <2>4
<1>2. AgreeInv' /\ ~ falseAlarm'
  BY StillAgree DEF NetInv, Still
<1> QED BY <1>1, <1>2 DEF NetInv

-----------------------------------------------------------------------------
(***************************************************************************)
(* Init, and connecting.                                                   *)
(***************************************************************************)

\* Nothing is connected.
LEMMA InitNetInv == Init => NetInv
<1> SUFFICES ASSUME Init PROVE NetInv
  OBVIOUS
<1> USE DEF Init, Both
<1>1. << >> \in Machines /\ << >> \in Seq(Messages)
  BY DEF Machines
<1>2. Types
  <2>1. /\ mode \in [Peers -> {"IDLE", "SERVER", "SERVER_CONNECTED", "CLIENT"}]
        /\ mode[S] # "CLIENT" /\ mode[C] \in {"IDLE", "CLIENT"}
        /\ net \in [Peers -> {"null", "open", "closed"}]
        /\ pc \in [Peers -> {"frame", "recv", "spin", "abort", "trap", "ping", "snapshot",
                             "settings", "delta"}]
        /\ end \in [Peers -> {"open", "fin", "finrst", "rst"}]
    BY TwoPeers
  <2>2. backlog \in BOOLEAN /\ syncTrap \in [Peers -> BOOLEAN]
    OBVIOUS
  <2>3. /\ wire \in [Peers -> Seq(Messages)] /\ DOMAIN ring = Peers
        /\ machine \in [Peers -> Machines] /\ recorded \in [Peers -> Machines]
    BY <1>1
  <2>4. session \in [Peers -> Nat] /\ sessions \in Nat /\ inputs \in Nat
    OBVIOUS
  <2>5. \A p \in Peers : session[p] <= sessions /\ ring[p].play \in Nat
    BY DEF NoRing
  <2> QED BY <2>1, <2>2, <2>3, <2>4, <2>5 DEF Types
<1>3. \A p \in Peers : ~ Live(p) /\ session[p] = 0 /\ ~ syncTrap[p]
  BY DEF Live
<1>4. ServerStage /\ ClientStage
  BY TwoPeers DEF ServerStage, ClientStage
<1>5. LiveInv
  BY <1>3, TwoPeers DEF LiveInv, network_connected
<1>6. \A p \in Peers : PeerInv(p) /\ WireInv(p)
  BY <1>3 DEF PeerInv, WireInv
<1>7. AgreeInv /\ ~ falseAlarm
  BY <1>3, TwoPeers DEF AgreeInv
<1> QED BY <1>2, <1>4, <1>5, <1>6, <1>7 DEF NetInv

\* A server starts to listen.
LEMMA StartServerKeeps == ASSUME NetInv, network_start_server PROVE NetInv'
<1>1. /\ pc[S] = "frame" /\ mode[S] = "IDLE" /\ mode' = [mode EXCEPT ![S] = "SERVER"]
      /\ Still /\ UNCHANGED <<net, backlog, pc, wire, end>>
  BY DEF network_start_server, history, Still
<1>2. Types /\ ServerStage /\ ClientStage /\ LiveInv /\ Types'
  BY <1>1, TwoPeers DEF NetInv, Types, Still
<1>3. /\ mode'[S] = "SERVER" /\ mode'[C] = mode[C]
      /\ \A p : Live(p)' = Live(p) /\ Frame(p)' = Frame(p) /\ Played(p)' = Played(p)
      /\ \A p \in Peers : network_connected(p)' => network_connected(p) /\ p # S
  BY <1>1, <1>2, StillLive, TwoPeers DEF Types, network_connected
<1>4. ServerStage'
  BY <1>1, <1>2, <1>3 DEF ServerStage, Still
<1>5. ClientStage'
  BY <1>1, <1>2, <1>3 DEF ClientStage, Still
<1>6. LiveInv'
  <2>1. \A p \in Peers : pc[p] = "recv" => p # S
    BY <1>1
  <2>2. mode'[C] = mode[C] /\ (network_connected(C)' <=> network_connected(C))
    BY <1>3 DEF network_connected
  <2>3. ASSUME NEW p \in Peers
        PROVE  /\ network_connected(p)' => net[p] = "open" /\ (Live(p) \/ pc[p] \in {"ping", "delta"})
               /\ pc[p] = "recv" => net[p] = "closed" \/ network_connected(p)'
               /\ syncTrap[p] => session[p] > 0
    BY <1>2, <1>3, <2>1, <2>2, TwoPeers DEF LiveInv
  <2> QED BY <1>1, <1>2, <1>3, <2>3 DEF LiveInv, Still
<1>7. ASSUME NEW p \in Peers PROVE PeerStill(p) /\ WireStill(p)
  BY <1>1, <1>3 DEF PeerStill, WireStill
<1> QED BY <1>1, <1>2, <1>4, <1>5, <1>6, <1>7, StillKeeps

\* A client connects: the latest connection is nobody's session yet.
LEMMA ConnectKeeps == ASSUME NetInv, network_connect_client PROVE NetInv'
<1>1. /\ pc[C] = "frame" /\ mode[C] = "IDLE" /\ mode[S] = "SERVER" /\ pc[S] = "frame"
      /\ net' = [net EXCEPT ![C] = "open"] /\ backlog' = TRUE
      /\ wire' = Both(<< >>) /\ end' = Both("open") /\ pc' = [pc EXCEPT ![C] = "snapshot"]
      /\ sessions' = sessions + 1
      /\ UNCHANGED <<mode, ring, syncTrap, machine, recorded, session, inputs, falseAlarm>>
  BY DEF network_connect_client
<1>2. Types /\ LiveInv /\ ServerStage /\ ClientStage
  BY DEF NetInv
<1>3. /\ wire'[S] = << >> /\ wire'[C] = << >> /\ end'[S] = "open" /\ end'[C] = "open"
      /\ wire' \in [Peers -> Seq(Messages)] /\ end' \in [Peers -> {"open", "fin", "finrst", "rst"}]
  BY <1>1, TwoPeers DEF Both
<1>4. \A p \in Peers : ~ Live(p)'
  BY <1>1, <1>2 DEF Types, Live
<1>5. \A p \in Peers : ~ network_connected(p) /\ ~ network_connected(p)'
  BY <1>1, TwoPeers DEF network_connected
<1>6. /\ pc'[C] = "snapshot" /\ pc'[S] = pc[S] /\ net'[C] = "open" /\ net'[S] = net[S]
  BY <1>1, <1>2, TwoPeers DEF Types
<1>7. Types'
  <2>1. sessions' \in Nat /\ \A p \in Peers : session'[p] <= sessions'
    BY <1>1, <1>2 DEF Types
  <2> QED BY <1>1, <1>2, <1>3, <2>1, TwoPeers DEF Types
<1>8. ServerStage' /\ ClientStage'
  <2>1. ServerStage'
    BY <1>1, <1>3, <1>6 DEF ServerStage
  <2>2. sessions' > 0
    BY <1>1, <1>2 DEF Types
  <2>3. ClientStage'
    BY <1>1, <1>3, <1>4, <1>6, <2>2, TwoPeers DEF ClientStage
  <2> QED BY <2>1, <2>3
<1>9. LiveInv'
  <2>1. \A p \in Peers : pc'[p] # "recv" /\ (syncTrap'[p] => session'[p] > 0)
    BY <1>1, <1>2, <1>6, TwoPeers DEF LiveInv
  <2> QED BY <1>4, <1>5, <2>1, TwoPeers DEF LiveInv
<1>10. ASSUME NEW p \in Peers PROVE PeerInv(p)' /\ WireInv(p)'
  <2>1. WireInv(p)'
    BY <1>4 DEF WireInv
  <2>2. pc'[p] # "recv"
    BY <1>1, <1>6, TwoPeers
  <2>3. PeerInv(p)
    BY DEF NetInv
  <2>4. PeerInv(p)'
    BY <1>1, <1>5, <2>2, <2>3 DEF PeerInv
  <2> QED BY <2>1, <2>4
<1>11. AgreeInv' /\ ~ falseAlarm'
  BY <1>1 DEF NetInv, AgreeInv
<1> QED BY <1>7, <1>8, <1>9, <1>10, <1>11 DEF NetInv

\* No server is running.
LEMMA RefusedKeeps == ASSUME NetInv, ConnectRefused PROVE NetInv'
<1>1. /\ pc[C] = "frame" /\ mode[C] = "IDLE" /\ net' = [net EXCEPT ![C] = "null"]
      /\ Still /\ UNCHANGED <<mode, backlog, pc, wire, end>>
  BY DEF ConnectRefused, history, Still
<1>2. Types /\ ServerStage /\ ClientStage /\ LiveInv /\ Types'
  BY <1>1, TwoPeers DEF NetInv, Types, Still
<1>3. /\ net'[C] = "null" /\ net'[S] = net[S]
      /\ \A p : Live(p)' = Live(p) /\ Frame(p)' = Frame(p) /\ Played(p)' = Played(p)
      /\ \A p \in Peers : network_connected(p)' = network_connected(p)
      /\ ~ network_connected(C)
  BY <1>1, <1>2, StillLive, TwoPeers DEF Types, network_connected
<1>4. ServerStage'
  BY <1>1, <1>2, <1>3 DEF ServerStage, Still
<1>5. ClientStage'
  BY <1>1, <1>2, <1>3 DEF ClientStage, Still
<1>6. LiveInv'
  BY <1>1, <1>2, <1>3, TwoPeers DEF LiveInv, Still, ServerStage
<1>7. ASSUME NEW p \in Peers PROVE PeerStill(p) /\ WireStill(p)
  <2>1. \A r \in Peers : net'[r] = "open" => net[r] = "open"
    BY <1>3, TwoPeers
  <2> QED BY <1>1, <1>3, <2>1, TwoPeers DEF PeerStill, WireStill
<1> QED BY <1>1, <1>2, <1>4, <1>5, <1>6, <1>7, StillKeeps

\* The server accepts.
LEMMA AcceptKeeps == ASSUME NetInv, Accept PROVE NetInv'
<1>1. /\ pc[S] = "frame" /\ mode[S] = "SERVER" /\ backlog /\ backlog' = FALSE
      /\ net' = [net EXCEPT ![S] = "open"] /\ pc' = [pc EXCEPT ![S] = "trap"]
      /\ Still /\ UNCHANGED <<mode, wire, end>>
  BY DEF Accept, history, Still
<1>2. Types /\ ServerStage /\ ClientStage /\ LiveInv /\ Types'
  BY <1>1, TwoPeers DEF NetInv, Types, Still
<1>3. /\ net'[S] = "open" /\ net'[C] = net[C] /\ pc'[S] = "trap" /\ pc'[C] = pc[C]
      /\ \A p : Live(p)' = Live(p) /\ Frame(p)' = Frame(p) /\ Played(p)' = Played(p)
      /\ \A p \in Peers : network_connected(p)' = network_connected(p)
      /\ ~ network_connected(S)
  BY <1>1, <1>2, StillLive, TwoPeers DEF Types, network_connected
<1>4. /\ pc[C] = "snapshot" /\ wire[C] = << >> /\ wire[S] = << >> /\ end[C] = "open"
      /\ mode[C] = "IDLE" /\ ~ Live(S) /\ ~ Live(C) /\ ~ network_connected(C)
  BY <1>1, <1>2 DEF ServerStage, ClientStage, network_connected
<1>5. ServerStage'
  BY <1>1, <1>3, <1>4 DEF ServerStage
<1>6. ClientStage'
  BY <1>1, <1>2, <1>3, <1>4 DEF ClientStage, Still
<1>7. LiveInv'
  BY <1>1, <1>2, <1>3, <1>4, TwoPeers DEF LiveInv, Still
<1>8. ASSUME NEW p \in Peers PROVE PeerStill(p) /\ WireStill(p)
  BY <1>3, <1>4, TwoPeers DEF PeerStill, WireStill
<1> QED BY <1>1, <1>2, <1>5, <1>6, <1>7, <1>8, StillKeeps

\* The server sends its snapshot, its settings and a test packet.
LEMMA ServerTrapKeeps == ASSUME NetInv, network_server_connect_trap PROVE NetInv'
<1> DEFINE hello == << <<"snapshot">>, <<"settings">>, <<"test">> >>
<1>1. /\ pc[S] = "trap" /\ net[S] = "open" /\ wire' = [wire EXCEPT ![C] = @ \o hello]
      /\ mode' = [mode EXCEPT ![S] = "SERVER_CONNECTED"] /\ pc' = [pc EXCEPT ![S] = "ping"]
      /\ Still /\ UNCHANGED <<net, backlog, end>>
  BY DEF network_server_connect_trap, history, Still
<1>2. Types /\ ServerStage /\ ClientStage /\ LiveInv
  BY DEF NetInv
<1>3. /\ pc[C] = "snapshot" /\ wire[C] = << >> /\ wire[S] = << >> /\ end[C] = "open"
      /\ mode[C] = "IDLE" /\ ~ Live(S) /\ ~ Live(C) /\ sessions > 0 /\ ~ backlog
  BY <1>1, <1>2 DEF ServerStage, ClientStage
<1>4. hello \in Seq(Messages) /\ << >> \o hello = hello
  BY DEF Messages
<1> HIDE DEF hello
<1>5. /\ wire' \in [Peers -> Seq(Messages)] /\ wire'[C] = hello /\ wire'[S] = << >>
      /\ mode'[S] = "SERVER_CONNECTED" /\ mode'[C] = "IDLE"
      /\ pc'[S] = "ping" /\ pc'[C] = "snapshot"
  BY <1>1, <1>2, <1>3, <1>4, TwoPeers DEF Types
<1>6. Types'
  BY <1>1, <1>2, <1>5, TwoPeers DEF Types, Still
<1>7. \A p : Live(p)' = Live(p)
  BY <1>1, StillLive
<1>8. ServerStage'
  BY <1>1, <1>3, <1>5, <1>7 DEF ServerStage, Still
<1>9. ClientStage'
  BY <1>1, <1>2, <1>3, <1>5, <1>7 DEF ClientStage, Still, hello
<1>10. LiveInv'
  <2>1. network_connected(C)' = FALSE
    BY <1>5 DEF network_connected
  <2> QED BY <1>1, <1>2, <1>3, <1>5, <1>7, <2>1, TwoPeers DEF LiveInv, Still
<1>11. ASSUME NEW p \in Peers PROVE PeerStill(p) /\ WireStill(p)
  BY <1>3, <1>5, TwoPeers DEF PeerStill, WireStill
<1> QED BY <1>1, <1>6, <1>8, <1>9, <1>10, <1>11, StillKeeps

\* The server gives up.
LEMMA CannotSendKeeps == ASSUME NetInv, ServerCannotSend PROVE NetInv'
<1>1. /\ pc[S] = "trap" /\ pc' = [pc EXCEPT ![S] = "frame"]
      /\ Still /\ UNCHANGED <<mode, net, backlog, wire, end>>
  BY DEF ServerCannotSend, history, connVars, Still
<1>2. Types /\ ServerStage /\ ClientStage /\ LiveInv /\ Types'
  BY <1>1, TwoPeers DEF NetInv, Types, Still
<1>3. /\ pc'[S] = "frame" /\ pc'[C] = pc[C] /\ mode[S] \in {"IDLE", "SERVER"}
      /\ \A p : Live(p)' = Live(p) /\ Frame(p)' = Frame(p) /\ Played(p)' = Played(p)
      /\ \A p \in Peers : network_connected(p)' = network_connected(p)
      /\ ~ network_connected(S) /\ ~ backlog
  BY <1>1, <1>2, StillLive, TwoPeers DEF Types, network_connected, ServerStage
<1>4. ServerStage'
  BY <1>1, <1>3 DEF ServerStage
<1>5. ClientStage'
  BY <1>1, <1>2, <1>3 DEF ClientStage, Still
<1>6. LiveInv'
  BY <1>1, <1>2, <1>3, TwoPeers DEF LiveInv, Still
<1>7. ASSUME NEW p \in Peers PROVE PeerStill(p) /\ WireStill(p)
  BY <1>1, <1>3, TwoPeers DEF PeerStill, WireStill
<1> QED BY <1>1, <1>2, <1>4, <1>5, <1>6, <1>7, StillKeeps

\* The client gets the snapshot.
LEMMA SnapshotKeeps == ASSUME NetInv, ReceiveSnapshot PROVE NetInv'
<1>1. /\ pc[C] = "snapshot" /\ wire[C] # << >> /\ wire' = [wire EXCEPT ![C] = Tail(@)]
      /\ pc' = [pc EXCEPT ![C] = "settings"]
      /\ Still /\ UNCHANGED <<mode, net, backlog, end>>
  BY DEF ReceiveSnapshot, history, connVars, Still
<1>2. Types /\ ServerStage /\ ClientStage /\ LiveInv
  BY DEF NetInv
<1>3. /\ pc[S] = "ping" /\ wire[C] = << <<"snapshot">>, <<"settings">>, <<"test">> >>
      /\ mode[C] = "IDLE" /\ ~ Live(S) /\ ~ Live(C) /\ sessions > 0 /\ ~ backlog
      /\ wire[S] = << >>
  BY <1>1, <1>2 DEF ServerStage, ClientStage
<1>4. Tail(wire[C]) = << <<"settings">>, <<"test">> >> /\ Tail(wire[C]) \in Seq(Messages)
  BY <1>3 DEF Messages
<1>5. /\ wire' \in [Peers -> Seq(Messages)] /\ wire'[C] = << <<"settings">>, <<"test">> >>
      /\ wire'[S] = << >> /\ pc'[C] = "settings" /\ pc'[S] = "ping"
  BY <1>1, <1>2, <1>3, <1>4, TwoPeers DEF Types
<1>6. Types'
  BY <1>1, <1>2, <1>5, TwoPeers DEF Types, Still
<1>7. /\ \A p : Live(p)' = Live(p)
      /\ \A p : network_connected(p)' = network_connected(p)
  BY <1>1, StillLive DEF network_connected
<1>8. ServerStage'
  BY <1>1, <1>2, <1>3, <1>5, <1>7 DEF ServerStage, Still
<1>9. ClientStage'
  BY <1>1, <1>2, <1>3, <1>5, <1>7 DEF ClientStage, Still
<1>10. LiveInv'
  <2>1. network_connected(C) = FALSE
    BY <1>3 DEF network_connected
  <2> QED BY <1>1, <1>2, <1>3, <1>5, <1>7, <2>1, TwoPeers DEF LiveInv, Still
<1>11. ASSUME NEW p \in Peers PROVE PeerStill(p) /\ WireStill(p)
  BY <1>3, <1>5, TwoPeers DEF PeerStill, WireStill
<1> QED BY <1>1, <1>6, <1>8, <1>9, <1>10, <1>11, StillKeeps

\* The client gets no snapshot.
LEMMA NoSnapshotKeeps == ASSUME NetInv, NoSnapshot PROVE NetInv'
<1>1. /\ pc[C] = "snapshot" /\ wire[C] = << >> /\ end[C] # "open"
      /\ \/ pc' = [pc EXCEPT ![C] = "frame"] /\ net' = [net EXCEPT ![C] = "closed"]
         \/ pc' = [pc EXCEPT ![C] = "spin"] /\ net' = net
      /\ Still /\ UNCHANGED <<mode, backlog, wire, end>>
  BY DEF NoSnapshot, history, Still
<1>2. Types /\ ServerStage /\ ClientStage /\ LiveInv /\ Types'
  <2>1. Types /\ ServerStage /\ ClientStage /\ LiveInv
    BY DEF NetInv
  <2>2. /\ net' \in [Peers -> {"null", "open", "closed"}]
        /\ pc' \in [Peers -> {"frame", "recv", "spin", "abort", "trap", "ping", "snapshot",
                              "settings", "delta"}]
    BY <1>1, <2>1 DEF Types
  <2> QED BY <1>1, <2>1, <2>2 DEF Types, Still
<1>3. /\ pc'[C] \in {"frame", "spin"} /\ pc'[S] = pc[S] /\ net'[S] = net[S]
      /\ \A p : Live(p)' = Live(p)
      /\ \A p : network_connected(p)' = network_connected(p)
  BY <1>1, <1>2, StillLive, TwoPeers DEF Types, network_connected
<1>4. /\ ~ backlog /\ mode[C] = "IDLE" /\ wire[S] = << >> /\ ~ Live(S) /\ ~ Live(C)
      /\ ~ network_connected(C) /\ ~ (pc[S] = "trap" /\ net[S] = "open")
  BY <1>1, <1>2 DEF ServerStage, ClientStage, network_connected
<1>5. ServerStage'
  BY <1>1, <1>2, <1>3, <1>4 DEF ServerStage, Still
<1>6. ClientStage'
  BY <1>3 DEF ClientStage
<1>7. LiveInv'
  BY <1>1, <1>2, <1>3, <1>4, TwoPeers DEF LiveInv, Still
<1>8. ASSUME NEW p \in Peers PROVE PeerStill(p) /\ WireStill(p)
  BY <1>1, <1>3, <1>4, TwoPeers DEF PeerStill, WireStill
<1> QED BY <1>1, <1>2, <1>5, <1>6, <1>7, <1>8, StillKeeps

\* The client loads the snapshot and the settings and answers the test packet.
LEMMA ClientTrapKeeps == ASSUME NetInv, network_client_connect_trap PROVE NetInv'
<1>1. /\ pc[C] = "settings" /\ mode' = [mode EXCEPT ![C] = "CLIENT"]
      /\ wire' = [wire EXCEPT ![C] = SubSeq(@, 3, Len(@)), ![S] = Append(@, <<"test">>)]
      /\ pc' = [pc EXCEPT ![C] = "delta"]
      /\ Still /\ UNCHANGED <<net, backlog, end>>
  BY DEF network_client_connect_trap, history, Still
<1>2. Types /\ ServerStage /\ ClientStage /\ LiveInv
  BY DEF NetInv
<1>3. /\ pc[S] = "ping" /\ wire[C] = << <<"settings">>, <<"test">> >> /\ wire[S] = << >>
      /\ mode[S] = "SERVER_CONNECTED" /\ ~ Live(S) /\ ~ Live(C) /\ sessions > 0 /\ ~ backlog
      /\ net[C] = "open" /\ end[S] = "open" /\ end[C] # "rst"
  BY <1>1, <1>2 DEF ServerStage, ClientStage
<1>4. Len(wire[C]) = 2
  BY <1>3
<1>5. SubSeq(wire[C], 3, 2) = << >>
  BY <1>2, TwoPeers DEF Types
<1>6. Append(wire[S], <<"test">>) = << <<"test">> >> /\ << <<"test">> >> \in Seq(Messages)
  BY <1>3 DEF Messages
<1>7. /\ wire' \in [Peers -> Seq(Messages)] /\ wire'[C] = << >> /\ wire'[S] = << <<"test">> >>
      /\ mode'[S] = "SERVER_CONNECTED" /\ mode'[C] = "CLIENT"
      /\ pc'[S] = "ping" /\ pc'[C] = "delta"
  BY <1>1, <1>2, <1>3, <1>4, <1>5, <1>6, TwoPeers DEF Types
<1>8. Types'
  BY <1>1, <1>2, <1>7, TwoPeers DEF Types, Still
<1>9. \A p : Live(p)' = Live(p)
  BY <1>1, StillLive
<1>10. ServerStage'
  BY <1>1, <1>3, <1>7, <1>9 DEF ServerStage, Still
<1>11. ClientStage'
  BY <1>1, <1>3, <1>7, <1>9 DEF ClientStage, Still
<1>12. LiveInv'
  <2>1. network_connected(S)
    BY <1>3 DEF network_connected
  <2> QED BY <1>1, <1>2, <1>3, <1>7, <1>9, <2>1, TwoPeers DEF LiveInv, Still
<1>13. ASSUME NEW p \in Peers PROVE PeerStill(p) /\ WireStill(p)
  BY <1>3, <1>7, TwoPeers DEF PeerStill, WireStill
<1> QED BY <1>1, <1>8, <1>10, <1>11, <1>12, <1>13, StillKeeps

\* The client cannot load the snapshot.
LEMMA CannotLoadKeeps == ASSUME NetInv, ClientCannotLoad PROVE NetInv'
<1>1. /\ pc[C] = "settings" /\ wire' = [wire EXCEPT ![C] = Tail(@)]
      /\ pc' = [pc EXCEPT ![C] = "frame"]
      /\ Still /\ UNCHANGED <<mode, net, backlog, end>>
  BY DEF ClientCannotLoad, history, connVars, Still
<1>2. Types /\ ServerStage /\ ClientStage /\ LiveInv
  BY DEF NetInv
<1>3. /\ pc[S] = "ping" /\ wire[C] = << <<"settings">>, <<"test">> >> /\ wire[S] = << >>
      /\ mode[C] = "IDLE" /\ ~ Live(S) /\ ~ Live(C) /\ ~ backlog
  BY <1>1, <1>2 DEF ServerStage, ClientStage
<1>4. Tail(wire[C]) = << <<"test">> >> /\ Tail(wire[C]) \in Seq(Messages)
  BY <1>3 DEF Messages
<1>5. /\ wire' \in [Peers -> Seq(Messages)] /\ wire'[S] = << >>
      /\ pc'[C] = "frame" /\ pc'[S] = "ping"
  BY <1>1, <1>2, <1>3, <1>4, TwoPeers DEF Types
<1>6. Types'
  BY <1>1, <1>2, <1>5, TwoPeers DEF Types, Still
<1>7. /\ \A p : Live(p)' = Live(p)
      /\ \A p : network_connected(p)' = network_connected(p)
  BY <1>1, StillLive DEF network_connected
<1>8. ServerStage'
  BY <1>1, <1>2, <1>3, <1>5, <1>7 DEF ServerStage, Still
<1>9. ClientStage'
  BY <1>5 DEF ClientStage
<1>10. ~ network_connected(C)
  BY <1>3 DEF network_connected
<1>11. LiveInv'
  BY <1>1, <1>2, <1>3, <1>5, <1>7, <1>10, TwoPeers DEF LiveInv, Still
<1>12. ASSUME NEW p \in Peers PROVE PeerStill(p) /\ WireStill(p)
  BY <1>1, <1>3, <1>5, <1>7, <1>10, TwoPeers DEF PeerStill, WireStill
<1> QED BY <1>1, <1>6, <1>8, <1>9, <1>11, <1>12, StillKeeps

-----------------------------------------------------------------------------
(***************************************************************************)
(* Disconnecting.                                                          *)
(***************************************************************************)

\* A side that waits finds the connection ended and waits for ever.
LEMMA SpinsKeeps == ASSUME NetInv, NEW p \in Peers, ReceiveSpins(p) PROVE NetInv'
<1>1. /\ pc[p] = "recv" /\ net[p] = "open" /\ pc' = [pc EXCEPT ![p] = "spin"]
      /\ Still /\ UNCHANGED <<mode, net, backlog, wire, end>>
  BY DEF ReceiveSpins, history, connVars, Still
<1>2. Types /\ ServerStage /\ ClientStage /\ LiveInv /\ Types'
  BY <1>1, TwoPeers DEF NetInv, Types, Still
<1>3. /\ pc'[p] = "spin" /\ \A q \in Peers : q # p => pc'[q] = pc[q]
      /\ \A q : Live(q)' = Live(q) /\ Frame(q)' = Frame(q)
      /\ \A q : network_connected(q)' = network_connected(q)
  BY <1>1, <1>2, StillLive DEF Types, network_connected
<1>4. ServerStage'
  BY <1>1, <1>2, <1>3, TwoPeers DEF ServerStage, Still
<1>5. ClientStage'
  <2>1. CASE p = C
    BY <1>3, <2>1 DEF ClientStage
  <2>2. CASE p = S
    BY <1>1, <1>2, <1>3, <2>2, TwoPeers DEF ClientStage, Still
  <2> QED BY <2>1, <2>2, TwoPeers
<1>6. LiveInv'
  BY <1>1, <1>2, <1>3, TwoPeers DEF LiveInv, Still
<1>7. ASSUME NEW q \in Peers PROVE PeerStill(q) /\ WireStill(q)
  BY <1>1, <1>3, TwoPeers DEF PeerStill, WireStill
<1> QED BY <1>1, <1>2, <1>4, <1>5, <1>6, <1>7, StillKeeps

\* What disconnecting does to the one side and to the other.
LEMMA DisconnectFacts ==
  ASSUME NetInv, NEW p \in Peers, NEW next \in {"frame", "trap", "recv"}, Disconnect(p, next)
  PROVE  LET q == Other(p) IN
         /\ pc' \in [Peers -> {"frame", "recv", "spin", "abort", "trap", "ping", "snapshot",
                               "settings", "delta"}]
         /\ mode' \in [Peers -> {"IDLE", "SERVER", "SERVER_CONNECTED", "CLIENT"}]
         /\ mode'[S] # "CLIENT" /\ mode'[C] \in {"IDLE", "CLIENT"}
         /\ net' \in [Peers -> {"null", "open", "closed"}]
         /\ end' \in [Peers -> {"open", "fin", "finrst", "rst"}]
         /\ backlog' \in BOOLEAN
         /\ pc'[p] \in {"abort", next} /\ pc'[q] = pc[q] /\ mode'[q] = mode[q]
         /\ net'[q] = net[q] /\ net'[p] # "open" /\ (net[p] = "open" => net'[p] = "closed")
         /\ pc[p] = "trap" /\ p = S => mode'[S] \in {"IDLE", "SERVER"}
         /\ mode[p] = "IDLE" => mode'[p] = "IDLE"
         /\ ~ network_connected(p)' /\ network_connected(q)' = network_connected(q)
         /\ end'[p] = end[p]
         /\ \/ end'[q] = end[q]
            \/ end[q] = "open" /\ end'[q] = "fin"
            \/ end[q] = "open" /\ wire[p] # << >> /\ end'[q] = "rst"
            \/ backlog /\ q = C /\ end'[q] = "rst"
         /\ backlog' => backlog /\ p # S
<1> DEFINE q == Other(p)
           aborts == net[p] = "closed"
           unlistens == p = S /\ (aborts \/ mode[S] # "SERVER_CONNECTED")
<1>1. Types /\ ServerStage /\ LiveInv /\ q \in Peers /\ q # p /\ (p = S => q = C) /\ (p = C => q = S)
  BY TwoPeers DEF NetInv
<1>2. /\ pc' = [pc EXCEPT ![p] = IF aborts THEN "abort" ELSE next]
      /\ mode' = [mode EXCEPT ![p] = IF aborts THEN @
                                     ELSE IF @ = "SERVER_CONNECTED" THEN "SERVER" ELSE "IDLE"]
      /\ net' = [net EXCEPT ![p] = IF @ = "open" THEN "closed" ELSE @]
      /\ backlog' = (backlog /\ ~ unlistens)
      /\ IF net[p] = "open" THEN HangUp(p)
         ELSE end' = IF backlog /\ unlistens THEN [end EXCEPT ![C] = "rst"] ELSE end
  BY DEF Disconnect
<1>3. /\ pc' \in [Peers -> {"frame", "recv", "spin", "abort", "trap", "ping", "snapshot",
                            "settings", "delta"}]
      /\ pc'[p] \in {"abort", next} /\ pc'[q] = pc[q]
  BY <1>1, <1>2 DEF Types
<1>4. /\ net' \in [Peers -> {"null", "open", "closed"}]
      /\ net'[q] = net[q] /\ net'[p] # "open" /\ (net[p] = "open" => net'[p] = "closed")
  BY <1>1, <1>2 DEF Types
<1>5. /\ mode' \in [Peers -> {"IDLE", "SERVER", "SERVER_CONNECTED", "CLIENT"}] /\ mode'[q] = mode[q]
      /\ mode'[p] = IF aborts THEN mode[p]
                    ELSE IF mode[p] = "SERVER_CONNECTED" THEN "SERVER" ELSE "IDLE"
  BY <1>1, <1>2 DEF Types
<1>6. mode'[S] # "CLIENT" /\ mode'[C] \in {"IDLE", "CLIENT"}
  BY <1>1, <1>5, TwoPeers DEF Types
<1>7. ~ network_connected(p)' /\ network_connected(q)' = network_connected(q)
  BY <1>1, <1>5, TwoPeers DEF network_connected, LiveInv
<1>8. /\ mode[p] = "IDLE" => mode'[p] = "IDLE"
      /\ pc[p] = "trap" /\ p = S => mode'[S] \in {"IDLE", "SERVER"}
  BY <1>1, <1>5 DEF ServerStage
<1>9. backlog' \in BOOLEAN /\ (backlog' => backlog /\ p # S)
  BY <1>1, <1>2 DEF ServerStage
<1>10. /\ end' \in [Peers -> {"open", "fin", "finrst", "rst"}] /\ end'[p] = end[p]
       /\ \/ end'[q] = end[q]
          \/ end[q] = "open" /\ end'[q] = "fin"
          \/ end[q] = "open" /\ wire[p] # << >> /\ end'[q] = "rst"
          \/ backlog /\ q = C /\ end'[q] = "rst"
  <2>1. CASE net[p] = "open"
    <3>1. PICK how \in (IF wire[p] = << >> THEN {"fin"} ELSE {"fin", "rst"}) :
            end' = [end EXCEPT ![q] = IF @ = "open" THEN how ELSE @]
      BY <1>2, <2>1 DEF HangUp
    <3>2. how \in {"fin", "rst"} /\ (how = "rst" => wire[p] # << >>)
      BY <3>1
    <3> QED BY <1>1, <3>1, <3>2 DEF Types
  <2>2. CASE net[p] # "open"
    BY <1>1, <1>2, <2>2, TwoPeers DEF Types
  <2> QED BY <2>1, <2>2
<1> QED BY <1>3, <1>4, <1>5, <1>6, <1>7, <1>8, <1>9, <1>10

\* Disconnecting leaves no stage of connecting that the other side waits in.
LEMMA DisconnectStages ==
  ASSUME NetInv, NEW p \in Peers, NEW next \in {"frame", "trap", "recv"}, Disconnect(p, next),
         pc[p] \in {"frame", "trap", "recv"}, next = "trap" => pc[p] = "trap",
         next = "recv" => network_connected(p), UNCHANGED <<wire, session, sessions>>,
         pc[C] = "delta" => UNCHANGED <<ring, machine, recorded>>,
         \A r \in Peers : syncTrap'[r] => session[r] > 0
  PROVE  ServerStage' /\ ClientStage' /\ LiveInv'
<1> DEFINE q == Other(p)
<1>1. /\ pc'[p] \in {"abort", next} /\ pc'[q] = pc[q] /\ mode'[q] = mode[q]
      /\ net'[q] = net[q] /\ net'[p] # "open" /\ (net[p] = "open" => net'[p] = "closed")
      /\ pc[p] = "trap" /\ p = S => mode'[S] \in {"IDLE", "SERVER"}
      /\ mode[p] = "IDLE" => mode'[p] = "IDLE"
      /\ ~ network_connected(p)' /\ network_connected(q)' = network_connected(q)
      /\ end'[p] = end[p]
      /\ \/ end'[q] = end[q]
         \/ end[q] = "open" /\ end'[q] = "fin"
         \/ end[q] = "open" /\ wire[p] # << >> /\ end'[q] = "rst"
         \/ backlog /\ q = C /\ end'[q] = "rst"
      /\ backlog' => backlog /\ p # S
  BY DisconnectFacts
<1>2. Types /\ ServerStage /\ ClientStage /\ LiveInv
  BY DEF NetInv
<1>3. \A r : Live(r)' = Live(r)
  BY DEF Live
<1>4. next = "recv" => mode[p] # "IDLE" /\ net[p] = "open"
  BY <1>2 DEF network_connected, LiveInv
<1>5. CASE p = S
  <2>1. q = C
    BY <1>5, TwoPeers
  <2>2. ServerStage'
    BY <1>1, <1>2, <1>5, <2>1 DEF ServerStage
  <2>3. ClientStage'
    <3>1. pc[C] = "delta" => /\ Frame(S)' = Frame(S) /\ ring'[S] = ring[S] /\ machine'[S] = machine[S]
                             /\ wire[S] = << >> /\ ~ backlog
      BY <1>2, <1>5 DEF ClientStage, ServerStage, Frame
    <3>2. pc[S] # "ping"
      BY <1>5
    <3>3. pc[C] # "settings" /\ ~ (pc[C] = "snapshot" /\ wire[C] # << >>)
      BY <1>2, <3>2 DEF ClientStage
    <3>4. pc[C] = "delta" => end'[C] # "rst"
      BY <1>1, <1>2, <1>5, <2>1, <3>1 DEF ClientStage
    <3> QED BY <1>1, <1>2, <1>3, <1>5, <2>1, <3>1, <3>2, <3>3, <3>4 DEF ClientStage
  <2>4. LiveInv'
    BY <1>1, <1>2, <1>3, <1>4, <1>5, <2>1, TwoPeers DEF LiveInv
  <2> QED BY <2>2, <2>3, <2>4
<1>6. CASE p = C
  <2>1. q = S
    BY <1>6, TwoPeers
  <2>2. ServerStage'
    BY <1>1, <1>2, <1>3, <1>4, <1>6, <2>1 DEF ServerStage
  <2>3. ClientStage'
    BY <1>1, <1>2, <1>6, <2>1 DEF ClientStage
  <2>4. LiveInv'
    BY <1>1, <1>2, <1>3, <1>4, <1>6, <2>1, TwoPeers DEF LiveInv
  <2> QED BY <2>2, <2>3, <2>4
<1> QED BY <1>5, <1>6, TwoPeers

\* Disconnecting alone.
LEMMA OnlyDisconnectKeeps ==
  ASSUME NetInv, NEW p \in Peers, NEW next \in {"frame", "trap"}, Disconnect(p, next),
         pc[p] \in {"frame", "trap", "recv"}, next = "trap" => pc[p] = "trap",
         Still, wire' = wire
  PROVE  NetInv'
<1> DEFINE q == Other(p)
<1>1. /\ pc' \in [Peers -> {"frame", "recv", "spin", "abort", "trap", "ping", "snapshot",
                            "settings", "delta"}]
      /\ mode' \in [Peers -> {"IDLE", "SERVER", "SERVER_CONNECTED", "CLIENT"}]
      /\ mode'[S] # "CLIENT" /\ mode'[C] \in {"IDLE", "CLIENT"}
      /\ net' \in [Peers -> {"null", "open", "closed"}]
      /\ end' \in [Peers -> {"open", "fin", "finrst", "rst"}]
      /\ backlog' \in BOOLEAN
  BY DisconnectFacts
<1>2. /\ pc'[p] \in {"abort", next} /\ pc'[q] = pc[q]
      /\ net'[q] = net[q] /\ net'[p] # "open"
      /\ ~ network_connected(p)' /\ network_connected(q)' = network_connected(q)
      /\ end'[p] = end[p]
      /\ \/ end'[q] = end[q]
         \/ end[q] = "open" /\ end'[q] = "fin"
         \/ end[q] = "open" /\ wire[p] # << >> /\ end'[q] = "rst"
         \/ backlog /\ q = C /\ end'[q] = "rst"
  BY DisconnectFacts
<1>3. Types /\ ServerStage /\ ClientStage /\ LiveInv
  BY DEF NetInv
<1>4. Types'
  BY <1>1, <1>3 DEF Types, Still
<1>5. ServerStage' /\ ClientStage' /\ LiveInv'
  <2>1. \A r \in Peers : syncTrap'[r] => session[r] > 0
    BY <1>3 DEF LiveInv, Still
  <2>2. UNCHANGED <<wire, session, sessions, ring, machine, recorded>>
    BY DEF Still
  <2> QED BY <2>1, <2>2, DisconnectStages
<1>6. backlog => ~ Live(C)
  BY <1>3 DEF ServerStage, ClientStage
<1>7. q \in Peers /\ q # p /\ Other(q) = p
  BY TwoPeers
<1>8. PeerStill(p) /\ WireStill(p)
  BY <1>2, <1>7 DEF PeerStill, WireStill
<1>9. PeerStill(q)
  BY <1>2 DEF PeerStill
<1>10. WireStill(q)
  BY <1>2, <1>6, <1>7 DEF WireStill
<1>11. \A r \in Peers : PeerStill(r) /\ WireStill(r)
  BY <1>8, <1>9, <1>10, TwoPeers
<1> QED BY <1>4, <1>5, <1>11, StillKeeps

\* The user disconnects.
LEMMA DisconnectKeeps == ASSUME NetInv, NEW p \in Peers, network_disconnect(p) PROVE NetInv'
<1>1. /\ pc[p] \in {"frame", "trap"} /\ Disconnect(p, pc[p]) /\ Still /\ wire' = wire
  BY DEF network_disconnect, history, Still
<1> QED BY <1>1, OnlyDisconnectKeeps

\* Receiving fails.
LEMMA FailsKeeps == ASSUME NetInv, NEW p \in Peers, ReceiveFails(p) PROVE NetInv'
<1>1. pc[p] = "recv" /\ Still /\ wire' = wire
  BY DEF ReceiveFails, history, Still
<1>2. CASE Disconnect(p, "frame")
  BY <1>1, <1>2, OnlyDisconnectKeeps
<1>3. CASE /\ net[p] = "open" /\ end[p] = "rst" /\ pc' = [pc EXCEPT ![p] = "frame"]
           /\ UNCHANGED <<connVars, end>>
  <2>1. UNCHANGED <<mode, net, backlog, end>>
    BY <1>3 DEF connVars
  <2>2. Types /\ ServerStage /\ ClientStage /\ LiveInv /\ Types'
    BY <1>1, <1>3, <2>1 DEF NetInv, Types, Still
  <2>3. /\ pc'[p] = "frame" /\ \A q \in Peers : q # p => pc'[q] = pc[q]
        /\ \A q : Live(q)' = Live(q) /\ Frame(q)' = Frame(q)
        /\ \A q : network_connected(q)' = network_connected(q)
    BY <1>1, <1>3, <2>1, <2>2, StillLive DEF Types, network_connected
  <2>4. network_connected(p) /\ Live(p)
    BY <1>1, <1>3, <2>2 DEF LiveInv
  <2>5. ServerStage'
    <3>1. CASE p = C
      BY <1>1, <2>1, <2>2, <2>3, <2>4, <3>1, TwoPeers DEF ServerStage, Still
    <3>2. CASE p = S
      BY <1>1, <2>1, <2>2, <2>3, <2>4, <3>2, TwoPeers DEF ServerStage, Still
    <3> QED BY <3>1, <3>2, TwoPeers
  <2>6. ClientStage'
    <3>1. CASE p = C
      BY <2>3, <3>1 DEF ClientStage
    <3>2. CASE p = S
      BY <1>1, <1>3, <2>2, <2>3, <3>2, TwoPeers DEF ClientStage
    <3> QED BY <3>1, <3>2, TwoPeers
  <2>7. LiveInv'
    BY <1>1, <2>1, <2>2, <2>3, <2>4, TwoPeers DEF LiveInv, Still
  <2>8. ASSUME NEW q \in Peers PROVE PeerStill(q) /\ WireStill(q)
    BY <1>1, <1>3, <2>1, <2>3, TwoPeers DEF PeerStill, WireStill
  <2> QED BY <1>1, <2>2, <2>5, <2>6, <2>7, <2>8, StillKeeps
<1> QED BY <1>2, <1>3 DEF ReceiveFails, Receiving

-----------------------------------------------------------------------------
(***************************************************************************)
(* Suspending.                                                             *)
(***************************************************************************)

\* A side suspends and tells the other one.
LEMMA SuspendKeeps == ASSUME NetInv, NEW p \in Peers, network_suspend(p) PROVE NetInv'
<1> DEFINE q == Other(p)
           x == <<"suspend">>
<1>1. /\ pc[p] = "frame" /\ network_connected(p)
      /\ wire' = IF end[p] = "open" THEN [wire EXCEPT ![q] = Append(@, x)] ELSE wire
      /\ Still /\ UNCHANGED <<mode, net, backlog, pc, end>>
  BY DEF network_suspend, Sent, connVars, Still
<1>2. Types /\ ServerStage /\ ClientStage /\ LiveInv
  BY DEF NetInv
<1>3. q \in Peers /\ q # p /\ Other(q) = p
  BY TwoPeers
<1>4. x \in Messages /\ x[1] # "list"
  BY DEF Messages
<1>5. Append(wire[q], x) \in Seq(Messages) /\ wire[q] \in Seq(Messages)
  BY <1>2, <1>3, <1>4, AppendMessage DEF Types
<1>6. /\ Live(p) /\ \A r : Live(r)' = Live(r) /\ Frame(r)' = Frame(r) /\ Played(r)' = Played(r)
      /\ \A r : network_connected(r)' = network_connected(r)
  BY <1>1, <1>2, StillLive DEF LiveInv, network_connected
<1>7. PeerInv(p)' /\ PeerInv(q)' /\ AgreeInv' /\ ~ falseAlarm'
  <2>1. PeerInv(p) /\ PeerInv(q) /\ AgreeInv /\ ~ falseAlarm
    BY <1>3 DEF NetInv
  <2>2. PeerStill(p) /\ PeerStill(q)
    BY <1>1, <1>6 DEF PeerStill
  <2>3. falseAlarm' = falseAlarm
    BY <1>1 DEF Still
  <2> QED BY <1>1, <1>3, <2>1, <2>2, <2>3, StillKept, StillPeer, StillAgree
<1>8. CASE end[p] # "open"
  <2>1. wire' = wire
    BY <1>1, <1>8
  <2>2. Types' /\ ServerStage' /\ ClientStage' /\ LiveInv'
    BY <1>1, <1>2, <1>6, <2>1 DEF Types, ServerStage, ClientStage, LiveInv, Still
  <2>3. ASSUME NEW r \in Peers PROVE PeerStill(r) /\ WireStill(r)
    BY <1>1, <1>6, <2>1 DEF PeerStill, WireStill
  <2> QED BY <1>1, <2>2, <2>3, StillKeeps
<1>9. CASE end[p] = "open"
  <2> DEFINE w == wire[q]
             t == Append(w, x)
  <2>1. wire'[q] = t /\ wire'[p] = wire[p] /\ wire' \in [Peers -> Seq(Messages)]
    BY <1>1, <1>2, <1>3, <1>5, <1>9 DEF Types
  <2>2. Types'
    BY <1>1, <1>2, <2>1 DEF Types, Still
  <2>3. w # << >> => Head(t) = Head(w) /\ t # << >>
    BY <1>5
  <2>4. WireInv(q)'
    <3>1. WireStill(q)
      BY <1>1, <1>3, <1>6, <2>1 DEF WireStill
    <3>2. WireInv(q) /\ Played(p) \in Nat
      BY <1>3, PlayedNat DEF NetInv
    <3> QED BY <1>1, <1>2, <1>3, <1>6, <3>1, <3>2, StillKept, StillWire
  <2>5. WireInv(p)'
    <3>1. WireInv(p) /\ Played(q) \in Nat /\ Frame(p) \in Nat
      BY <1>3, PlayedNat DEF NetInv
    <3>2. /\ Total(t, Played(q)) = Total(w, Played(q))
          /\ WireOk(w, machine[p], recorded[p], Played(q))
               => WireOk(t, machine[p], recorded[p], Played(q))
      BY <1>4, <1>5, <3>1, WireAppendsOther
    <3>3. SentBy(p)' = SentBy(p)
      BY <1>6, <2>1, <3>2 DEF SentBy
    <3>4. /\ WireOk(w, machine[p], recorded[p], Played(q))
          /\ SentBy(p) <= Frame(p) /\ SentBy(p) < Frame(p) /\ SentBy(p) = Frame(p) - 1
      BY <1>1, <1>6, <1>9, <3>1 DEF WireInv
    <3>5. WireOk(t, machine'[p], recorded'[p], Played(q))
      BY <1>1, <3>2, <3>4 DEF Still
    <3> HIDE DEF w, t
    <3> QED BY <1>1, <1>6, <1>9, <2>1, <3>3, <3>4, <3>5 DEF WireInv
  <2>6. ServerStage' /\ ClientStage'
    <3> HIDE DEF t, x
    <3>1. CASE p = S
      <4>1. q = C /\ mode[S] = "SERVER_CONNECTED"
        BY <1>1, <1>2, <3>1, TwoPeers, Connected
      <4>2. ServerStage'
        BY <1>1, <1>2, <3>1, <4>1 DEF ServerStage
      <4>3. ClientStage'
        BY <1>1, <1>2, <1>6, <2>1, <2>3, <3>1, <4>1 DEF ClientStage, Still
      <4> QED BY <4>2, <4>3
    <3>2. CASE p = C
      <4>1. mode[C] = "CLIENT"
        BY <1>1, <1>2, <3>2, Connected
      <4>2. ServerStage'
        BY <1>1, <1>2, <3>2, <4>1 DEF ServerStage
      <4>3. ClientStage'
        BY <1>1, <3>2 DEF ClientStage
      <4> QED BY <4>2, <4>3
    <3> QED BY <3>1, <3>2, TwoPeers
  <2>8. LiveInv'
    BY <1>1, <1>2, <1>6 DEF LiveInv, Still
  <2>9. \A r \in Peers : PeerInv(r)' /\ WireInv(r)'
    BY <1>7, <2>4, <2>5, TwoPeers
  <2> QED BY <1>7, <2>2, <2>6, <2>8, <2>9 DEF NetInv
<1> QED BY <1>8, <1>9

\* A side that waits is where its session has come to.
LEMMA WaitingSide ==
  ASSUME NetInv, NEW p \in Peers, pc[p] = "recv", net[p] = "open", wire[p] # << >>
  PROVE  /\ network_connected(p) /\ Live(p) /\ ~ backlog
         /\ p = S => pc[C] \notin {"snapshot", "settings", "delta"}
         /\ p = C => pc[S] # "ping" /\ ~ (pc[S] = "trap" /\ net[S] = "open")
         /\ Live(Other(p)) /\ end[Other(p)] # "rst"
<1>1. Types /\ ServerStage /\ ClientStage /\ LiveInv /\ WireInv(Other(p))
  BY TwoPeers DEF NetInv
<1>2. network_connected(p) /\ Live(p)
  BY <1>1 DEF LiveInv
<1>3. p = S => pc[C] \notin {"snapshot", "settings", "delta"}
  BY <1>1, <1>2 DEF ClientStage
<1>4. p = C => pc[S] # "ping" /\ ~ (pc[S] = "trap" /\ net[S] = "open")
  BY <1>1 DEF ServerStage
<1>5. ~ backlog
  BY <1>1, TwoPeers DEF ServerStage
<1>6. Live(Other(p))
  BY <1>1, <1>2, <1>3, TwoPeers DEF LiveInv
<1>7. end[Other(p)] # "rst"
  BY <1>1, <1>6, TwoPeers DEF WireInv
<1> QED BY <1>2, <1>3, <1>4, <1>5, <1>6, <1>7

\* A side that waits is told to go on waiting.
LEMMA ReceiveSuspendKeeps == ASSUME NetInv, NEW p \in Peers, ReceiveSuspend(p) PROVE NetInv'
<1> DEFINE q == Other(p)
           w == wire[p]
<1>1. /\ pc[p] = "recv" /\ net[p] = "open" /\ w # << >> /\ Head(w)[1] # "list"
      /\ wire' = [wire EXCEPT ![p] = Tail(@)]
      /\ Still /\ UNCHANGED <<mode, net, backlog, pc, end>>
  BY DEF ReceiveSuspend, Receiving, connVars, history, Still
<1>2. Types /\ ServerStage /\ ClientStage /\ LiveInv
  BY DEF NetInv
<1>3. q \in Peers /\ q # p /\ Other(q) = p
  BY TwoPeers
<1>4. /\ network_connected(p) /\ Live(p) /\ ~ backlog
      /\ p = S => pc[C] \notin {"snapshot", "settings", "delta"}
      /\ p = C => pc[S] # "ping" /\ ~ (pc[S] = "trap" /\ net[S] = "open")
      /\ Live(q) /\ end[q] # "rst"
  BY <1>1, WaitingSide
<1>5. /\ \A r : Live(r)' = Live(r) /\ Frame(r)' = Frame(r) /\ Played(r)' = Played(r)
      /\ \A r : network_connected(r)' = network_connected(r)
  BY <1>1, StillLive DEF network_connected
<1>6. Played(p) \in Nat /\ w \in Seq(Messages)
  BY <1>2, PlayedNat DEF Types
<1>7. /\ Tail(w) \in Seq(Messages)
      /\ Total(Tail(w), Played(p)) = Total(w, Played(p))
      /\ WireOk(w, machine[q], recorded[q], Played(p))
           => WireOk(Tail(w), machine[q], recorded[q], Played(p))
      /\ Tail(w) # << >> => Tail(w)[Len(Tail(w))] = w[Len(w)]
  <2>1. Played(p) = Played(p) + (IF Head(w)[1] = "list" THEN 1 ELSE 0)
    BY <1>1, <1>6
  <2> QED BY <1>1, <1>6, <2>1, WireReads
<1>8. wire' \in [Peers -> Seq(Messages)] /\ wire'[p] = Tail(w) /\ wire'[q] = wire[q]
  BY <1>1, <1>2, <1>3, <1>7 DEF Types
<1>9. Types' /\ LiveInv'
  BY <1>1, <1>2, <1>5, <1>8 DEF Types, LiveInv, Still
<1>10. ServerStage' /\ ClientStage'
  <2>1. CASE p = S
    BY <1>1, <1>2, <1>4, <2>1, TwoPeers DEF ServerStage, ClientStage
  <2>2. CASE p = C
    BY <1>1, <1>2, <1>4, <2>2, TwoPeers DEF ServerStage, ClientStage
  <2> QED BY <2>1, <2>2, TwoPeers
<1>11. PeerInv(p)' /\ PeerInv(q)' /\ AgreeInv' /\ ~ falseAlarm'
  <2>1. PeerInv(p) /\ PeerInv(q) /\ AgreeInv /\ ~ falseAlarm
    BY <1>3 DEF NetInv
  <2>2. PeerStill(p) /\ PeerStill(q)
    BY <1>1, <1>5 DEF PeerStill
  <2>3. falseAlarm' = falseAlarm
    BY <1>1 DEF Still
  <2> QED BY <1>1, <1>3, <2>1, <2>2, <2>3, StillKept, StillPeer, StillAgree
<1>12. WireInv(p)'
  <2>1. WireStill(p)
    BY <1>1, <1>3, <1>5, <1>8 DEF WireStill
  <2>2. WireInv(p) /\ Played(q) \in Nat
    BY <1>3, PlayedNat DEF NetInv
  <2> QED BY <1>1, <1>2, <1>3, <1>5, <2>1, <2>2, StillKept, StillWire
<1>13. WireInv(q)'
  <2>1. WireInv(q)
    BY <1>3 DEF NetInv
  <2>2. SentBy(q)' = SentBy(q)
    BY <1>3, <1>5, <1>7, <1>8 DEF SentBy
  <2>3. /\ WireOk(w, machine[q], recorded[q], Played(p)) /\ SentBy(q) <= Frame(q)
        /\ w # << >> /\ w[Len(w)][1] # "list" => SentBy(q) < Frame(q)
        /\ network_connected(q) /\ pc[q] = "frame" /\ end[q] # "rst" => SentBy(q) < Frame(q)
        /\ network_connected(q) /\ end[q] = "open" /\ pc[q] \in {"frame", "recv"} =>
             SentBy(q) = IF pc[q] = "recv" THEN Frame(q) ELSE Frame(q) - 1
    BY <1>3, <1>4, <2>1 DEF WireInv
  <2>4. WireOk(wire'[p], machine'[q], recorded'[q], Played(p))
    BY <1>1, <1>7, <1>8, <2>3 DEF Still
  <2>5. wire'[p] # << >> => wire'[p][Len(wire'[p])] = w[Len(w)]
    BY <1>7, <1>8
  <2> HIDE DEF w
  <2> QED BY <1>1, <1>3, <1>4, <1>5, <2>2, <2>3, <2>4, <2>5 DEF WireInv, w
<1> QED BY <1>9, <1>10, <1>11, <1>12, <1>13, TwoPeers DEF NetInv

-----------------------------------------------------------------------------
(***************************************************************************)
(* The session starts.                                                     *)
(***************************************************************************)

\* network_init_frame_event_list.
LEMMA StartFramesFacts ==
  ASSUME Types, NEW p \in Peers, NEW d \in Nat, d >= 2, StartFrames(p, d)
  PROVE  /\ DOMAIN ring' = Peers /\ syncTrap' \in [Peers -> BOOLEAN]
         /\ machine' \in [Peers -> Machines] /\ recorded' \in [Peers -> Machines]
         /\ session' \in [Peers -> Nat]
         /\ pc' \in [Peers -> {"frame", "recv", "spin", "abort", "trap", "ping", "snapshot",
                               "settings", "delta"}]
         /\ ring'[p].delta = d /\ ring'[p].play \in Nat /\ syncTrap'[p] /\ pc'[p] = "frame"
         /\ machine'[p] = << >> /\ recorded'[p] = << << >> >> /\ session'[p] = sessions
         /\ RingOk(ring'[p], recorded'[p], machine'[p])
         /\ CurOk(ring'[p], recorded'[p], machine'[p]) /\ Open(Cur(ring'[p]))
         /\ \A q \in Peers : q # p =>
              /\ ring'[q] = ring[q] /\ syncTrap'[q] = syncTrap[q] /\ machine'[q] = machine[q]
              /\ recorded'[q] = recorded[q] /\ session'[q] = session[q] /\ pc'[q] = pc[q]
<1> DEFINE r == [delta |-> d, current |-> 0, play |-> ring[p].play, full |-> FALSE,
                 lists |-> [i \in 0 .. d - 1 |-> << >>]]
<1>1. /\ ring' = [ring EXCEPT ![p] = r] /\ syncTrap' = [syncTrap EXCEPT ![p] = TRUE]
      /\ machine' = [machine EXCEPT ![p] = << >>]
      /\ recorded' = [recorded EXCEPT ![p] = << << >> >>]
      /\ session' = [session EXCEPT ![p] = sessions] /\ pc' = [pc EXCEPT ![p] = "frame"]
  BY DEF StartFrames
<1>2. /\ << >> \in Machines /\ << << >> >> \in Machines /\ << >> \in Lists
      /\ ring[p].play \in Nat
  BY DEF Machines, Lists, Types
<1>3. r \in Rings(d) /\ r.delta = d /\ r.current = 0 /\ ~ r.full /\ r.play \in Nat
  BY <1>2 DEF Rings
<1>4. Cur(r) = << >>
  BY DEF Cur
<1> HIDE DEF r
<1>5. /\ RingOk(r, << << >> >>, << >>) /\ CurOk(r, << << >> >>, << >>) /\ Open(Cur(r))
  BY <1>3, <1>4, RingStarts
<1>6. /\ DOMAIN ring' = Peers /\ syncTrap' \in [Peers -> BOOLEAN]
      /\ ring'[p] = r /\ syncTrap'[p]
      /\ \A q \in Peers : q # p => ring'[q] = ring[q] /\ syncTrap'[q] = syncTrap[q]
  BY <1>1 DEF Types
<1>7. /\ machine' \in [Peers -> Machines] /\ recorded' \in [Peers -> Machines]
      /\ machine'[p] = << >> /\ recorded'[p] = << << >> >>
      /\ \A q \in Peers : q # p => machine'[q] = machine[q] /\ recorded'[q] = recorded[q]
  BY <1>1, <1>2 DEF Types
<1>8. /\ session' \in [Peers -> Nat] /\ session'[p] = sessions /\ pc'[p] = "frame"
      /\ pc' \in [Peers -> {"frame", "recv", "spin", "abort", "trap", "ping", "snapshot",
                            "settings", "delta"}]
      /\ \A q \in Peers : q # p => session'[q] = session[q] /\ pc'[q] = pc[q]
  BY <1>1 DEF Types
<1> QED BY <1>3, <1>5, <1>6, <1>7, <1>8

\* Nothing is sent yet.
LEMMA EmptyWire ==
  << >> \in Seq(Messages) /\ Total(<< >>, 0) = 0 /\ \A m, rec : WireOk(<< >>, m, rec, 0)
<1>1. << >> \in Seq(Messages) /\ Len(<< >>) = 0 /\ 0 \in Nat
  OBVIOUS
<1>2. ListsIn(<< >>, 0) = 0
  BY <1>1, ListsInNat
<1> QED BY <1>1, <1>2 DEF Total, WireOk

\* The server chooses the delay.
LEMMA ServerDelayKeeps == ASSUME NetInv, ServerTestDelay PROVE NetInv'
<1>1. PICK d \in Deltas :
        /\ StartFrames(S, d)
        /\ wire' = [wire EXCEPT ![S] = Tail(@), ![C] = Append(@, <<"delta", d>>)]
  BY DEF ServerTestDelay
<1>2. /\ pc[S] = "ping" /\ wire[S] # << >>
      /\ UNCHANGED <<mode, net, backlog, end, inputs, sessions, falseAlarm>>
  BY DEF ServerTestDelay, connVars
<1>3. d \in Nat /\ d >= 2
  BY NetplayConstants
<1>4. Types /\ ServerStage /\ ClientStage /\ LiveInv /\ PeerInv(C) /\ ~ falseAlarm
  BY TwoPeers DEF NetInv
<1> DEFINE x == <<"delta", d>>
<1>5. /\ pc[C] = "delta" /\ wire[S] = << <<"test">> >> /\ wire[C] = << >>
      /\ mode[S] = "SERVER_CONNECTED" /\ sessions > 0 /\ ~ backlog
      /\ mode[C] = "CLIENT" /\ ~ Live(C) /\ end[S] = "open" /\ end[C] # "rst" /\ net[C] = "open"
  BY <1>2, <1>4 DEF ServerStage, ClientStage
<1>6. /\ x \in Messages /\ x[1] # "list" /\ Tail(wire[S]) = << >>
      /\ Append(<< >>, x) \in Seq(Messages) /\ Append(<< >>, x) # << >> /\ Head(Append(<< >>, x)) = x
      /\ Len(Append(<< >>, x)) = 1
  BY <1>3, <1>5 DEF Messages
<1> HIDE DEF x
<1>7. /\ wire' \in [Peers -> Seq(Messages)] /\ wire'[S] = << >> /\ wire'[C] = Append(<< >>, x)
  BY <1>1, <1>4, <1>5, <1>6, TwoPeers DEF Types, x
<1>8. /\ DOMAIN ring' = Peers /\ syncTrap' \in [Peers -> BOOLEAN]
      /\ machine' \in [Peers -> Machines] /\ recorded' \in [Peers -> Machines]
      /\ session' \in [Peers -> Nat]
      /\ pc' \in [Peers -> {"frame", "recv", "spin", "abort", "trap", "ping", "snapshot",
                            "settings", "delta"}]
      /\ ring'[S].delta = d /\ ring'[S].play \in Nat /\ syncTrap'[S] /\ pc'[S] = "frame"
      /\ machine'[S] = << >> /\ recorded'[S] = << << >> >> /\ session'[S] = sessions
      /\ RingOk(ring'[S], recorded'[S], machine'[S])
      /\ CurOk(ring'[S], recorded'[S], machine'[S]) /\ Open(Cur(ring'[S]))
      /\ ring'[C] = ring[C] /\ syncTrap'[C] = syncTrap[C] /\ machine'[C] = machine[C]
      /\ recorded'[C] = recorded[C] /\ session'[C] = session[C] /\ pc'[C] = pc[C]
  BY <1>1, <1>3, <1>4, TwoPeers, StartFramesFacts
<1>9. Types'
  <2>1. \A p \in Peers : session'[p] <= sessions' /\ ring'[p].play \in Nat
    <3>1. sessions \in Nat /\ session[C] <= sessions /\ ring[C].play \in Nat
      BY <1>4, TwoPeers DEF Types
    <3>2. session'[S] <= sessions' /\ ring'[S].play \in Nat
      BY <1>2, <1>8, <3>1
    <3>3. session'[C] <= sessions' /\ ring'[C].play \in Nat
      BY <1>2, <1>8, <3>1
    <3> QED BY <3>2, <3>3, TwoPeers
  <2> QED BY <1>2, <1>4, <1>7, <1>8, <2>1 DEF Types
<1>10. Live(S)' /\ ~ Live(C)' /\ session'[S] # session'[C]
  BY <1>2, <1>5, <1>8 DEF Live
<1>11. ServerStage'
  BY <1>2, <1>5, <1>8 DEF ServerStage
<1>12. Len(recorded'[S]) = 1 /\ Len(machine'[S]) = 0
  BY <1>8
<1>13. ClientStage'
  <2>1. Frame(S)' <= ring'[S].delta /\ \A n \in 1 .. Len(machine'[S]) : machine'[S][n] = << >>
    BY <1>3, <1>8, <1>12 DEF Frame
  <2>2. wire'[C] # << >> /\ Head(wire'[C]) = <<"delta", ring'[S].delta>>
    BY <1>6, <1>7, <1>8 DEF x
  <2> QED BY <1>2, <1>5, <1>7, <1>8, <1>10, <2>1, <2>2 DEF ClientStage
<1>14. \A p : network_connected(p)' = network_connected(p)
  BY <1>2 DEF network_connected
<1>15. LiveInv'
  <2>1. session'[S] > 0
    BY <1>5, <1>8
  <2>2. /\ network_connected(S) /\ net[S] = "open" /\ pc'[S] # "recv"
    BY <1>4, <1>5, <1>8, Connected, TwoPeers DEF LiveInv
  <2>3. /\ network_connected(C)' => net'[C] = "open" /\ pc'[C] = "delta"
        /\ pc'[C] # "recv" /\ (syncTrap'[C] => session'[C] > 0)
    BY <1>2, <1>4, <1>5, <1>8, TwoPeers DEF LiveInv
  <2> QED BY <1>2, <1>5, <1>8, <1>10, <2>1, <2>2, <2>3, TwoPeers DEF LiveInv
<1>16. PeerInv(S)'
  BY <1>8 DEF PeerInv
<1>17. PeerInv(C)'
  BY <1>2, <1>4, <1>5, <1>8, <1>14 DEF PeerInv
<1>18. WireInv(C)'
  BY <1>10 DEF WireInv
<1>19. WireInv(S)'
  <2>1. Played(C)' = 0
    BY <1>10 DEF Played
  <2>2. /\ Total(wire'[C], 0) = 0 /\ WireOk(wire'[C], machine'[S], recorded'[S], 0)
    BY <1>6, <1>7, EmptyWire, WireAppendsOther, ZenonT(40)
  <2>3. SentBy(S)' = 0 /\ Frame(S)' = 1
    BY <1>12, <2>1, <2>2, TwoPeers DEF SentBy, Frame
  <2> QED BY <1>2, <1>5, <1>8, <2>1, <2>2, <2>3, TwoPeers DEF WireInv
<1>20. AgreeInv' /\ ~ falseAlarm'
  BY <1>2, <1>4, <1>10 DEF AgreeInv
<1> QED BY <1>9, <1>11, <1>13, <1>15, <1>16, <1>17, <1>18, <1>19, <1>20, TwoPeers DEF NetInv

\* The client takes it over; the server may have gone on until its ring was full.
LEMMA ClientDelayKeeps == ASSUME NetInv, ClientTestDelay PROVE NetInv'
<1>1. /\ pc[C] = "delta" /\ wire[C] # << >> /\ StartFrames(C, Head(wire[C])[2])
      /\ wire' = [wire EXCEPT ![C] = Tail(@)]
      /\ UNCHANGED <<mode, net, backlog, end, inputs, sessions, falseAlarm>>
  BY DEF ClientTestDelay, connVars
<1> DEFINE d == ring[S].delta
           w == wire[C]
<1>2. Types /\ ServerStage /\ ClientStage /\ LiveInv /\ PeerInv(S) /\ WireInv(S) /\ ~ falseAlarm
  BY TwoPeers DEF NetInv
<1>3. /\ pc[S] # "ping" /\ ~ backlog /\ ~ (pc[S] = "trap" /\ net[S] = "open")
      /\ Live(S) /\ wire[S] = << >> /\ Head(w) = <<"delta", d>> /\ Frame(S) <= d
      /\ \A n \in 1 .. Len(machine[S]) : machine[S][n] = << >>
      /\ mode[C] = "CLIENT" /\ ~ Live(C) /\ end[S] = "open" /\ end[C] # "rst" /\ net[C] = "open"
      /\ sessions > 0
  BY <1>1, <1>2 DEF ServerStage, ClientStage
<1>4. d \in Nat /\ d >= 2 /\ RingOk(ring[S], recorded[S], machine[S]) /\ session[S] > 0
  BY <1>2, <1>3 DEF Live, PeerInv, RingOk
<1>5. Head(w)[1] # "list" /\ Head(w)[2] = d
  BY <1>3
<1>6. w \in Seq(Messages) /\ Tail(w) \in Seq(Messages)
  BY <1>1, <1>2, TwoPeers DEF Types
<1>7. wire' \in [Peers -> Seq(Messages)] /\ wire'[S] = << >> /\ wire'[C] = Tail(w)
  BY <1>1, <1>2, <1>3, <1>6, TwoPeers DEF Types
<1>8. /\ DOMAIN ring' = Peers /\ syncTrap' \in [Peers -> BOOLEAN]
      /\ machine' \in [Peers -> Machines] /\ recorded' \in [Peers -> Machines]
      /\ session' \in [Peers -> Nat]
      /\ pc' \in [Peers -> {"frame", "recv", "spin", "abort", "trap", "ping", "snapshot",
                            "settings", "delta"}]
      /\ ring'[C].delta = d /\ ring'[C].play \in Nat /\ syncTrap'[C] /\ pc'[C] = "frame"
      /\ machine'[C] = << >> /\ recorded'[C] = << << >> >> /\ session'[C] = sessions
      /\ RingOk(ring'[C], recorded'[C], machine'[C])
      /\ CurOk(ring'[C], recorded'[C], machine'[C]) /\ Open(Cur(ring'[C]))
      /\ ring'[S] = ring[S] /\ syncTrap'[S] = syncTrap[S] /\ machine'[S] = machine[S]
      /\ recorded'[S] = recorded[S] /\ session'[S] = session[S] /\ pc'[S] = pc[S]
  <2> HIDE DEF d
  <2>1. StartFrames(C, d)
    BY <1>1, <1>5
  <2> QED BY <1>2, <1>4, <2>1, TwoPeers, StartFramesFacts
<1>9. Types'
  <2>1. \A p \in Peers : session'[p] <= sessions' /\ ring'[p].play \in Nat
    <3>1. sessions \in Nat /\ session[S] <= sessions /\ ring[S].play \in Nat
      BY <1>2, TwoPeers DEF Types
    <3>2. session'[S] <= sessions' /\ ring'[S].play \in Nat
      BY <1>1, <1>8, <3>1
    <3>3. session'[C] <= sessions' /\ ring'[C].play \in Nat
      BY <1>1, <1>8, <3>1
    <3> QED BY <3>2, <3>3, TwoPeers
  <2> QED BY <1>1, <1>2, <1>7, <1>8, <2>1 DEF Types
<1>10. Live(S)' /\ Live(C)' /\ sessions' = sessions
  BY <1>1, <1>3, <1>8 DEF Live
<1>11. ServerStage'
  BY <1>1, <1>2, <1>3, <1>8 DEF ServerStage
<1>12. ClientStage'
  BY <1>8 DEF ClientStage
<1>13. \A p : network_connected(p)' = network_connected(p)
  BY <1>1 DEF network_connected
<1>14. LiveInv'
  BY <1>1, <1>2, <1>3, <1>8, <1>10, <1>13, TwoPeers, SMTT(30) DEF LiveInv
<1>15. PeerInv(C)'
  BY <1>8 DEF PeerInv
<1>16. PeerInv(S)'
  BY <1>1, <1>2, <1>8, <1>13 DEF PeerInv
<1>17. Len(recorded'[C]) = 1 /\ Len(machine'[C]) = 0
  BY <1>8
<1>18. Played(S)' = 0 /\ Played(C)' = 0 /\ Played(C) = 0 /\ Frame(S)' = Frame(S) /\ Frame(C)' = 1
  <2>1. Frame(S)' = Frame(S) /\ Frame(C)' = 1
    BY <1>8, <1>17 DEF Frame
  <2>2. Played(C) = 0
    BY <1>3 DEF Played
  <2>3. Frame(S) \in Nat
    BY <1>2, TwoPeers DEF Types, Frame, Machines
  <2>4. ~ (Frame(S)' > ring'[S].delta) /\ ~ (Frame(C)' > ring'[C].delta)
    BY <1>3, <1>4, <1>8, <2>1, <2>3
  <2> QED BY <2>1, <2>2, <2>4 DEF Played
<1>19. WireInv(C)'
  <2>1. SentBy(C)' = 0
    BY <1>7, <1>18, EmptyWire, TwoPeers DEF SentBy
  <2>2. WireOk(wire'[S], machine'[C], recorded'[C], Played(S)')
    BY <1>7, <1>18, EmptyWire
  <2> QED BY <1>1, <1>3, <1>7, <1>8, <1>18, <2>1, <2>2, TwoPeers DEF WireInv
<1>20. WireInv(S)'
  <2>1. 0 = 0 + (IF Head(w)[1] = "list" THEN 1 ELSE 0) /\ 0 \in Nat
    BY <1>5
  <2> HIDE DEF w
  <2>2. /\ Total(Tail(w), 0) = Total(w, 0)
        /\ WireOk(w, machine[S], recorded[S], 0) => WireOk(Tail(w), machine[S], recorded[S], 0)
        /\ Tail(w) # << >> => Tail(w)[Len(Tail(w))] = w[Len(w)]
    BY <1>1, <1>6, <2>1, WireReads DEF w
  <2>3. SentBy(S)' = SentBy(S)
    BY <1>7, <1>18, <2>2, TwoPeers DEF SentBy, w
  <2>4. /\ WireOk(w, machine[S], recorded[S], 0) /\ SentBy(S) <= Frame(S)
        /\ w[Len(w)][1] # "list" => SentBy(S) < Frame(S)
        /\ network_connected(S) /\ pc[S] = "frame" => SentBy(S) < Frame(S)
        /\ network_connected(S) /\ pc[S] \in {"frame", "recv"} =>
             SentBy(S) = IF pc[S] = "recv" THEN Frame(S) ELSE Frame(S) - 1
    BY <1>1, <1>2, <1>3, <1>18, TwoPeers DEF WireInv, w
  <2>5. WireOk(wire'[C], machine'[S], recorded'[S], Played(C)')
    BY <1>7, <1>8, <1>18, <2>2, <2>4
  <2>6. wire'[C] # << >> /\ wire'[C][Len(wire'[C])][1] # "list" => SentBy(S)' < Frame(S)'
    BY <1>7, <1>18, <2>2, <2>3, <2>4
  <2>7. /\ SentBy(S)' <= Frame(S)'
        /\ network_connected(S)' /\ pc'[S] = "frame" => SentBy(S)' < Frame(S)'
        /\ network_connected(S)' /\ pc'[S] \in {"frame", "recv"} =>
             SentBy(S)' = IF pc'[S] = "recv" THEN Frame(S)' ELSE Frame(S)' - 1
    BY <1>8, <1>13, <1>18, <2>3, <2>4
  <2>8. end'[S] = "open"
    BY <1>1, <1>3
  <2> QED BY <2>5, <2>6, <2>7, <2>8, TwoPeers DEF WireInv
<1>21. AgreeInv' /\ ~ falseAlarm'
  <2>1. Agree(machine'[C], recorded'[S], recorded'[C], d)
    BY <1>17, SMTT(30) DEF Agree
  <2>2. Len(machine[S]) \in Nat /\ Len(recorded[S]) \in Nat /\ Len(machine[S]) = Len(recorded[S]) - 1
    BY <1>2, <1>4, TwoPeers DEF Types, Machines, RingOk
  <2>3. \A n \in 1 .. Len(machine[S]) : n - d + 1 < 1 /\ machine[S][n] = << >>
    BY <1>3, <1>4, <2>2 DEF Frame
  <2>4. Agree(machine[S], recorded[S], recorded'[C], d)
    <3>1. \A n \in 1 .. Len(machine[S]) : ~ (n - d + 1 >= 1)
      BY <1>4, <2>2, <2>3
    <3> QED BY <2>3, <3>1 DEF Agree
  <2> QED BY <1>1, <1>2, <1>8, <2>1, <2>4, TwoPeers DEF AgreeInv
<1> QED BY <1>9, <1>11, <1>12, <1>14, <1>15, <1>16, <1>19, <1>20, <1>21, TwoPeers DEF NetInv

-----------------------------------------------------------------------------
(***************************************************************************)
(* Events.                                                                 *)
(***************************************************************************)

\* A side in its frame has not sent the list of it, and nobody has played it.
LEMMA FrameAhead ==
  ASSUME NetInv, NEW p \in Peers, pc[p] = "frame", network_connected(p)
  PROVE  /\ Live(p) /\ session[p] > 0
         /\ end[p] # "rst" => SentBy(p) < Frame(p)
         /\ Played(Other(p)) < Frame(p)
<1>1. LiveInv /\ WireInv(p) /\ Types /\ Other(p) \in Peers
  BY TwoPeers DEF NetInv
<1>2. Live(p) /\ session[p] > 0
  BY <1>1, PlayedNat DEF LiveInv
<1>3. end[p] # "rst" => SentBy(p) < Frame(p)
  BY <1>1, <1>2 DEF WireInv
<1>4. CASE end[p] = "rst"
  BY <1>1, <1>2, <1>4 DEF WireInv
<1>5. CASE end[p] # "rst"
  <2>1. /\ Played(Other(p)) \in Nat /\ Frame(p) \in Nat
        /\ wire[Other(p)] \in Seq(Messages)
    BY <1>1, PlayedNat DEF Types
  <2>2. SentBy(p) \in Nat /\ Played(Other(p)) <= SentBy(p)
    BY <2>1, TotalAtLeast DEF SentBy
  <2> QED BY <1>2, <1>3, <1>5, <2>1, <2>2
<1> QED BY <1>2, <1>3, <1>4, <1>5

\* What was played is the frame without the delay.
LEMMA FedFrames ==
  ASSUME NetInv, NEW p \in Peers, Live(p)
  PROVE  /\ Len(machine[p]) \in Nat /\ Len(machine[p]) = Frame(p) - 1 /\ Frame(p) >= 1
         /\ Frame(p) \in Nat /\ ring[p].delta \in Nat /\ ring[p].delta >= 2
         /\ Len(machine[p]) - ring[p].delta + 1 <= Played(p)
         /\ Len(machine[p]) - ring[p].delta + 1 < Frame(p)
<1>1. PeerInv(p) /\ Types /\ session[p] > 0
  BY PlayedNat DEF NetInv
<1>2. /\ Len(machine[p]) = Len(recorded[p]) - 1 /\ Len(recorded[p]) >= 1
      /\ ring[p].delta \in Nat /\ ring[p].delta >= 2
  BY <1>1 DEF PeerInv, RingOk
<1>3. Len(machine[p]) \in Nat /\ Len(recorded[p]) \in Nat
  BY <1>1 DEF Types, Machines
<1>4. Len(machine[p]) - ring[p].delta + 1 <= Played(p)
  <2>1. CASE Frame(p) > ring[p].delta
    <3>1. Played(p) = Frame(p) - ring[p].delta
      BY <2>1 DEF Played
    <3> QED BY <1>2, <1>3, <3>1 DEF Frame
  <2>2. CASE ~ (Frame(p) > ring[p].delta)
    <3>1. Played(p) = 0
      BY <2>2 DEF Played
    <3> QED BY <1>2, <1>3, <2>2, <3>1 DEF Frame
  <2> QED BY <2>1, <2>2
<1> QED BY <1>2, <1>3, <1>4 DEF Frame

\* An event is recorded in the current list.
LEMMA EventKeeps ==
  ASSUME NetInv, NEW p \in Peers, pc[p] = "frame", session[p] > 0, NEW e \in Events, e # ListEnd,
         ring' = [ring EXCEPT ![p] = Record(@, e)], Types',
         recorded'[Other(p)] = recorded[Other(p)],
         Len(recorded'[p]) = Len(recorded[p]),
         Extends(recorded'[p], recorded[p], Len(recorded[p]) - 1),
         recorded'[p] = recorded[p] \/ network_connected(p),
         Open(Cur(ring[p])) => Holds(Append(Cur(ring[p]), e), machine[p], recorded'[p], Len(recorded[p])),
         syncTrap'[p] => syncTrap[p], syncTrap'[Other(p)] = syncTrap[Other(p)],
         UNCHANGED <<mode, net, backlog, pc, wire, end, machine, session, sessions, falseAlarm>>
  PROVE  NetInv'
<1> DEFINE q == Other(p)
           r == ring[p]
           d == r.delta
           n == Record(r, e)
           rec == recorded[p]
           new == recorded'[p]
<1>1. q \in Peers /\ q # p /\ Other(q) = p
  BY TwoPeers
<1>2. Types /\ ServerStage /\ ClientStage /\ LiveInv /\ PeerInv(p) /\ WireInv(p)
  BY DEF NetInv
<1>3. PeerInv(q) /\ WireInv(q)
  BY <1>1 DEF NetInv
<1>4. ring'[p] = n /\ ring'[q] = ring[q]
  BY <1>1, <1>2 DEF Types
<1>5. rec \in Machines /\ new \in Machines /\ Len(rec) \in Nat
  BY <1>2 DEF Types, Machines
<1>6. RingOk(r, rec, machine[p]) /\ r \in Rings(d) /\ d \in Nat
  BY <1>2 DEF PeerInv, RingOk
<1>7. /\ OnlyCur(n, r) /\ n.full = r.full /\ n.delta = d /\ Cur(n) = Append(Cur(r), e)
  BY <1>6, RecordRing
<1>8. Cur(r) \in Lists
  BY <1>6, RingParts
<1>9. Open(Cur(n)) <=> Open(Cur(r))
  BY <1>7, <1>8, AppendEvent
<1> HIDE DEF n
<1>10. RingOk(n, new, machine[p])
  <2>1. (n.full => Len(rec) >= r.delta) /\ (~ n.full => r.current = Len(rec) - 1)
    BY <1>6, <1>7 DEF RingOk
  <2> HIDE DEF r, d, rec, new
  <2> QED BY <1>5, <1>6, <1>7, <2>1, RingKept DEF rec, new
<1>11. /\ \A s : Live(s)' = Live(s) /\ network_connected(s)' = network_connected(s)
       /\ ring'[p].delta = ring[p].delta /\ ring'[q].delta = ring[q].delta
       /\ Frame(p)' = Frame(p) /\ Frame(q)' = Frame(q)
  BY <1>4, <1>7 DEF Live, network_connected, Frame
<1>12. Played(p)' = Played(p) /\ Played(q)' = Played(q)
  BY <1>11 DEF Played
<1>13. SentBy(p)' = SentBy(p) /\ SentBy(q)' = SentBy(q)
  BY <1>1, <1>12 DEF SentBy
<1>14. PeerInv(q)'
  BY <1>3, <1>4, <1>11 DEF PeerInv
<1>15. PeerInv(p)'
  <2>1. /\ RingOk(ring'[p], recorded'[p], machine'[p])
        /\ Open(Cur(ring'[p])) <=> Open(Cur(ring[p]))
        /\ ring'[p].full = ring[p].full /\ pc'[p] = "frame"
    BY <1>4, <1>7, <1>9, <1>10
  <2>2. Open(Cur(ring'[p])) => CurOk(ring'[p], recorded'[p], machine'[p])
    BY <1>4, <1>7, <1>9 DEF CurOk
  <2> QED BY <1>2, <1>11, <2>1, <2>2 DEF PeerInv
<1>16. WireInv(q)'
  BY <1>1, <1>3, <1>11, <1>12, <1>13 DEF WireInv
<1>17. WireInv(p)'
  <2>1. ASSUME Live(p), end[p] # "rst"
        PROVE  WireOk(wire[q], machine[p], new, Played(q))
    <3>1. WireOk(wire[q], machine[p], rec, Played(q))
      BY <1>2, <2>1 DEF WireInv
    <3>2. CASE new = rec
      BY <3>1, <3>2
    <3>3. CASE network_connected(p)
      <4>1. SentBy(p) < Len(rec)
        BY <2>1, <3>3, FrameAhead DEF Frame
      <4>2. wire[q] \in Seq(Messages) /\ Played(q) \in Nat
        BY <1>1, <1>2, PlayedNat DEF Types
      <4>3. Total(wire[q], Played(q)) \in Nat /\ SentBy(p) = Total(wire[q], Played(q))
        BY <4>2, TotalAtLeast DEF SentBy
      <4>4. Extends(new, rec, Total(wire[q], Played(q)))
        BY <1>5, <4>1, <4>3 DEF Extends
      <4>5. Extends(machine[p], machine[p], Total(wire[q], Played(q)) - 1)
        BY DEF Extends
      <4> HIDE DEF new, rec
      <4> QED BY <3>1, <4>2, <4>4, <4>5, WireLater
    <3> QED BY <3>2, <3>3
  <2>2. end'[p] # "rst" /\ Live(p)' => WireOk(wire'[q], machine'[p], recorded'[p], Played(q)')
    BY <1>11, <1>12, <2>1
  <2> QED BY <1>2, <1>11, <1>12, <1>13, <2>2 DEF WireInv
<1>18. ServerStage'
  BY <1>2, <1>11 DEF ServerStage
<1>19. ClientStage'
  <2>1. ring'[S].delta = ring[S].delta /\ Frame(S)' = Frame(S)
    BY <1>1, <1>11, TwoPeers
  <2> QED BY <1>2, <1>11, <2>1 DEF ClientStage
<1>20. LiveInv'
  <2>1. \A s \in Peers : syncTrap'[s] => session[s] > 0
    BY <1>2, TwoPeers DEF LiveInv
  <2> QED BY <1>2, <1>11, <2>1 DEF LiveInv
<1>21. AgreeInv' /\ ~ falseAlarm'
  <2>1. AgreeInv /\ ~ falseAlarm
    BY DEF NetInv
  <2>2. ASSUME session[S] = session[C], NEW s \in Peers
        PROVE  Agree(machine[s], recorded'[S], recorded'[C], ring[s].delta)
    <3>1. Agree(machine[s], recorded[S], recorded[C], ring[s].delta)
      BY <1>1, <2>1, <2>2, TwoPeers DEF AgreeInv
    <3>2. CASE recorded'[p] = recorded[p]
      <4>1. recorded'[S] = recorded[S] /\ recorded'[C] = recorded[C]
        BY <3>2, TwoPeers
      <4> QED BY <3>1, <4>1
    <3>3. CASE network_connected(p)
      <4>1. Live(p) /\ Live(q) /\ Played(q) < Frame(p)
        BY <1>1, <2>2, <3>3, FrameAhead, TwoPeers DEF Live
      <4>2. Live(s) /\ Played(s) \in Nat
        BY <4>1, PlayedNat, TwoPeers
      <4>3. /\ Len(machine[s]) \in Nat /\ ring[s].delta \in Nat /\ Frame(s) \in Nat
            /\ Len(machine[s]) - ring[s].delta + 1 <= Played(s)
            /\ Len(machine[s]) - ring[s].delta + 1 < Frame(s)
        BY <4>2, FedFrames
      <4>4. Len(machine[s]) - ring[s].delta + 1 <= Len(rec) - 1
        <5>1. CASE s = p
          BY <1>5, <4>3, <5>1 DEF Frame
        <5>2. CASE s = q
          BY <1>5, <4>1, <4>2, <4>3, <5>2 DEF Frame
        <5> QED BY <5>1, <5>2, TwoPeers
      <4>5. \A t \in Peers :
              /\ Extends(recorded'[t], recorded[t], Len(machine[s]) - ring[s].delta + 1)
              /\ recorded[t] \in Machines /\ recorded'[t] \in Machines
              /\ Len(recorded'[t]) >= Len(recorded[t])
        <5>1. Extends(new, rec, Len(machine[s]) - ring[s].delta + 1)
          BY <1>5, <4>3, <4>4 DEF Extends
        <5>2. Extends(recorded'[q], recorded[q], Len(machine[s]) - ring[s].delta + 1)
          BY DEF Extends
        <5>3. \A t \in Peers : recorded[t] \in Machines /\ recorded'[t] \in Machines
          BY <1>2 DEF Types
        <5>4. \A t \in Peers : Len(recorded[t]) \in Nat
          BY <5>3 DEF Machines
        <5>5. \A t \in Peers : Len(recorded'[t]) >= Len(recorded[t])
          BY <5>4, TwoPeers
        <5> QED BY <5>1, <5>2, <5>3, <5>5, TwoPeers
      <4>6. machine[s] \in Machines
        BY <1>2 DEF Types
      <4> QED BY <3>1, <4>3, <4>5, <4>6, AgreeKept, TwoPeers
    <3> QED BY <3>2, <3>3
  <2>3. \A s \in Peers : ring'[s].delta = ring[s].delta
    BY <1>11, TwoPeers
  <2> QED BY <2>1, <2>2, <2>3, TwoPeers DEF AgreeInv
<1> QED BY <1>14, <1>15, <1>16, <1>17, <1>18, <1>19, <1>20, <1>21, TwoPeers DEF NetInv

\* An input.
LEMMA InputKeeps == ASSUME NetInv, NEW p \in Peers, network_event_record(p) PROVE NetInv'
<1> DEFINE q == Other(p)
           e == Input(inputs + 1)
           rec == recorded[p]
           N == Len(rec)
           r == ring[p]
           new == [rec EXCEPT ![N] = Append(@, e)]
<1>1. /\ pc[p] = "frame" /\ network_connected(p) /\ inputs' = inputs + 1
      /\ ring' = [ring EXCEPT ![p] = Record(@, e)] /\ recorded' = [recorded EXCEPT ![p] = new]
      /\ UNCHANGED <<mode, net, backlog, pc, wire, end, machine, session, sessions, falseAlarm, syncTrap>>
  BY DEF network_event_record, connVars
<1>2. Types /\ PeerInv(p) /\ q \in Peers /\ q # p
  BY TwoPeers DEF NetInv
<1>3. session[p] > 0
  BY <1>1, FrameAhead
<1>4. inputs + 1 \in Nat /\ inputs' \in Nat
  BY <1>1, <1>2 DEF Types
<1>5. e \in Events /\ e # ListEnd /\ e \in Inputs
  BY <1>4, Tags
<1> HIDE DEF e
<1>6. RingOk(r, rec, machine[p]) /\ r \in Rings(r.delta) /\ r.delta \in Nat /\ N >= 1
  BY <1>2, <1>3 DEF PeerInv, RingOk
<1>7. rec \in Seq(Seq(Inputs)) /\ N \in Nat /\ N \in 1 .. N
  BY <1>2, <1>6 DEF Types, Machines
<1>8. rec[N] \in Seq(Inputs) /\ Append(rec[N], e) \in Seq(Inputs)
  BY <1>5, <1>7
<1>9. /\ new \in Seq(Seq(Inputs)) /\ Len(new) = N /\ new[N] = Append(rec[N], e)
      /\ \A k \in 1 .. N - 1 : new[k] = rec[k]
  BY <1>7, <1>8
<1> HIDE DEF new
<1>10. recorded' \in [Peers -> Machines] /\ recorded'[p] = new /\ recorded'[q] = recorded[q]
  BY <1>1, <1>2, <1>9 DEF Types, Machines
<1>11. DOMAIN ring' = Peers /\ \A s \in Peers : ring'[s].play \in Nat
  <2>1. Record(r, e).play \in Nat
    <3>1. OnlyCur(Record(r, e), r) /\ r.play \in Nat
      BY <1>5, <1>6, RecordRing, RingParts
    <3> QED BY <3>1 DEF OnlyCur
  <2> QED BY <1>1, <1>2, <2>1 DEF Types
<1>12. Types'
  BY <1>1, <1>2, <1>4, <1>10, <1>11 DEF Types
<1>13. Extends(recorded'[p], rec, N - 1)
  BY <1>9, <1>10 DEF Extends
<1>14. ASSUME Open(Cur(r)) PROVE Holds(Append(Cur(r), e), machine[p], recorded'[p], N)
  <2>1. Holds(Cur(r), machine[p], rec, N)
    BY <1>2, <1>3, <1>14 DEF PeerInv, CurOk
  <2>2. new[N] = Append(rec[N], Input(inputs + 1))
    BY <1>9 DEF e
  <2> HIDE DEF N, rec, r
  <2> QED BY <1>4, <1>10, <1>14, <2>1, <2>2, HoldsInput DEF e
<1> QED BY <1>1, <1>3, <1>5, <1>9, <1>10, <1>12, <1>13, <1>14, EventKeeps

\* The registers.
LEMMA SyncTestKeeps ==
  ASSUME NetInv, NEW p \in Peers, network_event_record_sync_test(p) PROVE NetInv'
<1> DEFINE q == Other(p)
           e == Sync(machine[p])
           rec == recorded[p]
           r == ring[p]
<1>1. /\ pc[p] = "frame" /\ syncTrap[p] /\ syncTrap' = [syncTrap EXCEPT ![p] = FALSE]
      /\ ring' = [ring EXCEPT ![p] = Record(@, e)]
      /\ UNCHANGED <<mode, net, backlog, pc, wire, end, machine, recorded, session, sessions,
                     inputs, falseAlarm>>
  BY DEF network_event_record_sync_test, connVars, history
<1>2. Types /\ LiveInv /\ PeerInv(p) /\ q \in Peers /\ q # p
  BY TwoPeers DEF NetInv
<1>3. session[p] > 0
  BY <1>1, <1>2 DEF LiveInv
<1>4. machine[p] \in Machines /\ rec \in Machines
  BY <1>2 DEF Types
<1>5. e \in Events /\ e # ListEnd /\ e[1] = "sync" /\ e[2] = machine[p]
  BY <1>4, Tags
<1> HIDE DEF e
<1>6. /\ RingOk(r, rec, machine[p]) /\ r \in Rings(r.delta) /\ r.delta \in Nat
      /\ Len(machine[p]) = Len(rec) - 1
  BY <1>2, <1>3 DEF PeerInv, RingOk
<1>7. DOMAIN ring' = Peers /\ \A s \in Peers : ring'[s].play \in Nat
  <2>1. Record(r, e).play \in Nat
    <3>1. OnlyCur(Record(r, e), r) /\ r.play \in Nat
      BY <1>5, <1>6, RecordRing, RingParts
    <3> QED BY <3>1 DEF OnlyCur
  <2> QED BY <1>1, <1>2, <2>1 DEF Types
<1>8. syncTrap' \in [Peers -> BOOLEAN] /\ ~ syncTrap'[p] /\ syncTrap'[q] = syncTrap[q]
  BY <1>1, <1>2 DEF Types
<1>9. Types'
  BY <1>1, <1>2, <1>7, <1>8 DEF Types
<1>10. ASSUME Open(Cur(r)) PROVE Holds(Append(Cur(r), e), machine[p], recorded'[p], Len(rec))
  <2>1. Holds(Cur(r), machine[p], rec, Len(rec))
    BY <1>2, <1>3, <1>10 DEF PeerInv, CurOk
  <2>2. Was(machine[p], machine[p], Len(rec))
    BY <1>4, <1>6 DEF Was
  <2>3. e[1] # "input" /\ Was(e[2], machine[p], Len(rec)) /\ recorded'[p] = rec
    BY <1>1, <1>5, <2>2
  <2> HIDE DEF rec, r
  <2> QED BY <1>5, <2>1, <2>3, HoldsAppend
<1>11. Extends(recorded'[p], rec, Len(rec) - 1) /\ recorded' = recorded
  BY <1>1 DEF Extends
<1> QED BY <1>1, <1>3, <1>5, <1>8, <1>9, <1>10, <1>11, EventKeeps

-----------------------------------------------------------------------------
(***************************************************************************)
(* The next frame.                                                         *)
(***************************************************************************)

\* network_prepare_next_frame.
LEMMA NextFrameFacts ==
  ASSUME Types, NEW p \in Peers, NEW r, RingOk(r, recorded[p], machine[p]),
         CurOk(r, recorded[p], machine[p]), Len(Cur(r)) > 0, r.full \/ r.current # r.delta - 1,
         NEW x \in Seq(Inputs), network_prepare_next_frame(p, r, x)
  PROVE  /\ DOMAIN ring' = Peers /\ syncTrap' \in [Peers -> BOOLEAN]
         /\ machine' \in [Peers -> Machines] /\ recorded' \in [Peers -> Machines]
         /\ \A q \in Peers : ring'[q].play \in Nat
         /\ ring'[p].delta = r.delta /\ ring'[p].full = r.full /\ syncTrap'[p]
         /\ machine'[p] = Append(machine[p], x) /\ recorded'[p] = Append(recorded[p], << >>)
         /\ RingOk(ring'[p], recorded'[p], machine'[p])
         /\ CurOk(ring'[p], recorded'[p], machine'[p]) /\ Open(Cur(ring'[p]))
         /\ Len(recorded'[p]) = Len(recorded[p]) + 1
         /\ Extends(machine'[p], machine[p], Len(machine[p]))
         /\ Extends(recorded'[p], recorded[p], Len(recorded[p]))
         /\ \A q \in Peers : q # p =>
              /\ ring'[q] = ring[q] /\ syncTrap'[q] = syncTrap[q]
              /\ machine'[q] = machine[q] /\ recorded'[q] = recorded[q]
<1> DEFINE n == NextRing(r)
<1>1. /\ ring' = [ring EXCEPT ![p] = n] /\ syncTrap' = [syncTrap EXCEPT ![p] = TRUE]
      /\ machine' = [machine EXCEPT ![p] = Append(@, x)]
      /\ recorded' = [recorded EXCEPT ![p] = Append(@, << >>)]
  BY DEF network_prepare_next_frame, NextRing
<1>2. recorded[p] \in Machines /\ machine[p] \in Machines
  BY DEF Types
<1>3. /\ Append(recorded[p], << >>) \in Machines /\ Append(machine[p], x) \in Machines
      /\ Len(Append(recorded[p], << >>)) = Len(recorded[p]) + 1
      /\ \A k \in 1 .. Len(machine[p]) : Append(machine[p], x)[k] = machine[p][k]
      /\ \A k \in 1 .. Len(recorded[p]) : Append(recorded[p], << >>)[k] = recorded[p][k]
  BY <1>2 DEF Machines
<1>4. /\ RingOk(n, Append(recorded[p], << >>), Append(machine[p], x))
      /\ CurOk(n, Append(recorded[p], << >>), Append(machine[p], x))
      /\ Open(Cur(n)) /\ n.full = r.full /\ n.delta = r.delta
  BY <1>2, RingAdvances
<1> HIDE DEF n
<1>5. n.play \in Nat
  BY <1>4, RingParts DEF RingOk
<1>6. /\ DOMAIN ring' = Peers /\ syncTrap' \in [Peers -> BOOLEAN] /\ syncTrap'[p] /\ ring'[p] = n
      /\ \A q \in Peers : q # p => ring'[q] = ring[q] /\ syncTrap'[q] = syncTrap[q]
      /\ \A q \in Peers : ring'[q].play \in Nat
  BY <1>1, <1>5 DEF Types
<1>7. /\ machine' \in [Peers -> Machines] /\ recorded' \in [Peers -> Machines]
      /\ machine'[p] = Append(machine[p], x) /\ recorded'[p] = Append(recorded[p], << >>)
      /\ \A q \in Peers : q # p => machine'[q] = machine[q] /\ recorded'[q] = recorded[q]
  BY <1>1, <1>3 DEF Types
<1>8. /\ Extends(machine'[p], machine[p], Len(machine[p]))
      /\ Extends(recorded'[p], recorded[p], Len(recorded[p]))
  BY <1>3, <1>7 DEF Extends
<1> QED BY <1>3, <1>4, <1>6, <1>7, <1>8

\* Both machines agree in the frame that p has fed to its own.
LEMMA AgreeGoesOn ==
  ASSUME NetInv, NEW p \in Peers, Live(p), NEW x \in Seq(Inputs),
         ring'[p].delta = ring[p].delta, machine'[p] = Append(machine[p], x),
         recorded' \in [Peers -> Machines],
         Extends(recorded'[p], recorded[p], Len(recorded[p])),
         Len(recorded'[p]) = Len(recorded[p]) + 1,
         ring'[Other(p)] = ring[Other(p)], machine'[Other(p)] = machine[Other(p)],
         recorded'[Other(p)] = recorded[Other(p)], session' = session,
         Live(Other(p)) => Played(Other(p)) <= Frame(p),
         NEW k \in Int, k = Frame(p) - ring[p].delta + 1, k < 1 => x = << >>,
         Live(Other(p)) /\ k >= 1 =>
           k <= Len(recorded[S]) /\ k <= Len(recorded[C]) /\ x = recorded[S][k] \o recorded[C][k]
  PROVE  AgreeInv'
<1> DEFINE q == Other(p)
<1> SUFFICES ASSUME session[S] = session[C]
             PROVE  /\ ring'[S].delta = ring'[C].delta
                    /\ \A s \in Peers : Agree(machine'[s], recorded'[S], recorded'[C], ring'[s].delta)
  BY DEF AgreeInv
<1>1. Types /\ AgreeInv /\ q \in Peers /\ q # p
  BY TwoPeers DEF NetInv
<1>2. Live(q) /\ session[S] > 0
  BY <1>1, PlayedNat, TwoPeers DEF Live
<1>3. /\ ring[S].delta = ring[C].delta
      /\ \A s \in Peers : Agree(machine[s], recorded[S], recorded[C], ring[s].delta)
  BY <1>1, <1>2 DEF AgreeInv
<1>4. \A s \in Peers : ring'[s].delta = ring[s].delta
  BY TwoPeers
<1>5. /\ \A s \in Peers : recorded[s] \in Machines /\ machine[s] \in Machines /\ recorded'[s] \in Machines
      /\ Len(recorded[p]) \in Nat /\ Len(recorded[q]) \in Nat
      /\ Played(q) \in Nat
  <2>1. \A s \in Peers : recorded[s] \in Machines /\ machine[s] \in Machines /\ recorded'[s] \in Machines
    BY <1>1 DEF Types
  <2>2. \A s \in Machines : Len(s) \in Nat
    BY DEF Machines
  <2> QED BY <1>1, <2>1, <2>2, PlayedNat
<1>6. ASSUME NEW j \in Int, j <= Len(recorded[p]), NEW s \in Peers
      PROVE  Extends(recorded'[s], recorded[s], j) /\ Len(recorded'[s]) >= Len(recorded[s])
  <2>1. CASE s = p
    BY <1>5, <1>6, <2>1 DEF Extends
  <2>2. CASE s = q
    BY <1>5, <2>2 DEF Extends
  <2> QED BY <2>1, <2>2, TwoPeers
<1>7. Agree(machine'[p], recorded'[S], recorded'[C], ring[p].delta)
  <2>1. /\ Len(machine[p]) \in Nat /\ Len(machine[p]) = Frame(p) - 1
        /\ ring[p].delta \in Nat /\ ring[p].delta >= 2 /\ Frame(p) \in Nat
    BY FedFrames
  <2>2. PICK d \in Nat, F \in Nat, L \in Nat :
          d = ring[p].delta /\ F = Frame(p) /\ L = Len(machine[p])
    BY <2>1
  <2>3. k = Len(machine[p]) + 1 - ring[p].delta + 1
    <3>1. L = F - 1 /\ k = F - d + 1
      BY <2>1, <2>2
    <3>2. k = L + 1 - d + 1
      BY <2>2, <3>1
    <3> QED BY <2>2, <3>2
  <2>4. Agree(machine'[p], recorded[S], recorded[C], ring[p].delta)
    <3>1. k >= 1 => k <= Len(recorded[S]) /\ k <= Len(recorded[C]) /\ x = recorded[S][k] \o recorded[C][k]
      BY <1>2
    <3>2. recorded[S] \in Machines /\ recorded[C] \in Machines /\ machine[p] \in Machines
      BY <1>5, TwoPeers
    <3>3. Agree(machine[p], recorded[S], recorded[C], ring[p].delta)
      BY <1>3
    <3> QED BY <2>1, <2>3, <3>1, <3>2, <3>3, AgreeNext
  <2>5. machine'[p] \in Machines /\ Len(machine'[p]) = Len(machine[p]) + 1
    BY <1>5 DEF Machines
  <2>6. PICK j \in Int : j = Len(machine'[p]) - ring[p].delta + 1
    BY <2>1, <2>5
  <2>7. j <= Len(recorded[p])
    BY <2>1, <2>5, <2>6 DEF Frame
  <2>8. \A s \in Peers : Extends(recorded'[s], recorded[s], j) /\ Len(recorded'[s]) >= Len(recorded[s])
    BY <1>6, <2>7
  <2>9. /\ Extends(recorded'[S], recorded[S], Len(machine'[p]) - ring[p].delta + 1)
        /\ Extends(recorded'[C], recorded[C], Len(machine'[p]) - ring[p].delta + 1)
        /\ Len(recorded'[S]) >= Len(recorded[S]) /\ Len(recorded'[C]) >= Len(recorded[C])
    BY <2>6, <2>8, TwoPeers
  <2> QED BY <1>5, <2>1, <2>4, <2>5, <2>9, TwoPeers, AgreeKept
<1>8. Agree(machine'[q], recorded'[S], recorded'[C], ring[q].delta)
  <2>1. /\ Len(machine[q]) \in Nat /\ ring[q].delta \in Nat
        /\ Len(machine[q]) - ring[q].delta + 1 <= Played(q)
    BY <1>1, <1>2, FedFrames
  <2>2. PICK j \in Int : j = Len(machine[q]) - ring[q].delta + 1
    BY <2>1
  <2>3. j <= Len(recorded[p])
    BY <1>2, <1>5, <2>1, <2>2 DEF Frame
  <2>4. \A s \in Peers : Extends(recorded'[s], recorded[s], j) /\ Len(recorded'[s]) >= Len(recorded[s])
    BY <1>6, <2>3
  <2> QED BY <1>1, <1>3, <1>5, <2>1, <2>2, <2>4, TwoPeers, AgreeKept
<1>9. \A s \in Peers : Agree(machine'[s], recorded'[S], recorded'[C], ring'[s].delta)
  BY <1>4, <1>7, <1>8, TwoPeers
<1> QED BY <1>3, <1>4, <1>9, TwoPeers

\* What p has sent is right in its next frame.
LEMMA SenderGoesOn ==
  ASSUME NetInv, NEW p \in Peers, Live(p), Live(p)',
         Played(Other(p))' = Played(Other(p)), Frame(p)' = Frame(p) + 1,
         Extends(machine'[p], machine[p], Len(machine[p])),
         Extends(recorded'[p], recorded[p], Len(recorded[p])),
         NEW t \in Seq(Messages), wire'[Other(p)] = t,
         end'[p] # "rst" => WireOk(t, machine[p], recorded[p], Played(Other(p))),
         end'[p] = "rst" => net'[Other(p)] # "open" /\ Played(Other(p)) < Frame(p),
         Total(t, Played(Other(p))) <= Frame(p),
         network_connected(p)' /\ end'[p] = "open" =>
           Total(t, Played(Other(p))) = Frame(p) /\ pc'[p] # "recv"
  PROVE  WireInv(p)'
<1> DEFINE q == Other(p)
           T == Total(t, Played(q))
<1>1. /\ Played(q) \in Nat /\ Frame(p) \in Nat /\ Len(machine[p]) \in Nat
      /\ Len(machine[p]) = Frame(p) - 1
  BY TwoPeers, PlayedNat, FedFrames
<1>2. T \in Nat
  BY <1>1, TotalAtLeast
<1>3. SentBy(p)' = T /\ T < Frame(p)' /\ (T = Frame(p) => T = Frame(p)' - 1)
  BY <1>1, <1>2 DEF SentBy
<1>4. ASSUME end'[p] # "rst" PROVE WireOk(t, machine'[p], recorded'[p], Played(q)')
  <2>1. WireOk(t, machine[p], recorded[p], Played(q))
    BY <1>4
  <2>2. Extends(machine'[p], machine[p], T - 1) /\ Extends(recorded'[p], recorded[p], T)
    BY <1>1, <1>2 DEF Extends, Frame
  <2> QED BY <1>1, <2>1, <2>2, WireLater
<1>5. end'[p] = "rst" => net'[q] # "open" /\ Played(q)' < Frame(p)'
  BY <1>1
<1>6. T <= Frame(p)'
  BY <1>1, <1>2
<1>7. network_connected(p)' /\ end'[p] = "open" => T = Frame(p)' - 1 /\ pc'[p] # "recv"
  BY <1>3
<1> HIDE DEF T
<1> QED BY <1>3, <1>4, <1>5, <1>6, <1>7 DEF WireInv

-----------------------------------------------------------------------------
(***************************************************************************)
(* The hook.                                                               *)
(***************************************************************************)

\* The list of the frame is closed.
LEMMA HookRing ==
  ASSUME NetInv, NEW p \in Peers, pc[p] = "frame", network_connected(p),
         NEW r, r = EnterReceive(Sealed(p))
  PROVE  /\ RingOk(r, recorded[p], machine[p]) /\ r.delta = ring[p].delta
         /\ Cur(r) \in Lists /\ Len(Cur(r)) > 0 /\ ~ Open(Cur(r)) /\ r.play \in Nat
         /\ end[p] # "rst" \/ ~ r.full => CurOk(r, recorded[p], machine[p])
         /\ ~ r.full => r.current # r.delta - 1 /\ Frame(p) < r.delta
<1> DEFINE o == ring[p]
           d == o.delta
           s == Record(o, ListEnd)
           rec == recorded[p]
           m == machine[p]
<1>1. Types /\ PeerInv(p) /\ session[p] > 0
  BY FrameAhead DEF NetInv
<1>2. /\ RingOk(o, rec, m) /\ o \in Rings(d) /\ d \in Nat /\ d >= 2
      /\ o.full => Len(rec) >= d
      /\ ~ o.full => o.current = Len(rec) - 1
  BY <1>1 DEF PeerInv, RingOk
<1>3. /\ o.current \in 0 .. d - 1 /\ o.full \in BOOLEAN /\ Cur(o) \in Lists
  BY <1>2, RingParts
<1>4. /\ OnlyCur(s, o) /\ s.full = o.full /\ s.delta = d /\ Cur(s) = Append(Cur(o), ListEnd)
  BY <1>2, RecordRing, Tags
<1>5. s \in Rings(d) /\ s.current = o.current
  BY <1>4 DEF OnlyCur
<1>6. r = EnterReceive(s)
  BY DEF Sealed
<1> HIDE DEF s
<1>7. /\ OnlyCur(r, s) /\ r.delta = d /\ Cur(r) = Cur(s)
      /\ r.full <=> s.full \/ s.current = d - 1
  BY <1>2, <1>5, <1>6, EnterRing
<1>8. OnlyCur(r, o)
  BY <1>4, <1>7 DEF OnlyCur
<1>9. rec \in Machines /\ m \in Machines /\ Len(rec) \in Nat
  BY <1>1 DEF Types, Machines
<1>10. r.full <=> o.full \/ o.current = d - 1
  BY <1>4, <1>5, <1>7
<1>11. (r.full => Len(rec) >= o.delta) /\ (~ r.full => o.current = Len(rec) - 1)
  BY <1>2, <1>3, <1>9, <1>10
<1>12. RingOk(r, rec, m)
  <2>1. Extends(rec, rec, Len(rec) - 1)
    BY DEF Extends
  <2> HIDE DEF o, rec, m, d
  <2> QED BY <1>2, <1>8, <1>9, <1>11, <2>1, RingKept
<1>13. /\ Cur(r) \in Lists /\ Len(Cur(r)) > 0 /\ ~ Open(Cur(r))
  BY <1>3, <1>4, <1>7, AppendEvent, Tags
<1>14. ASSUME Open(Cur(o)) PROVE CurOk(r, rec, m)
  <2>1. Holds(Cur(o), m, rec, Len(rec))
    BY <1>1, <1>14 DEF PeerInv, CurOk
  <2>2. ListEnd \in Events /\ ListEnd[1] # "input" /\ ListEnd[1] # "sync"
    BY Tags
  <2> HIDE DEF o, rec, m
  <2>3. Holds(Append(Cur(o), ListEnd), m, rec, Len(rec))
    BY <2>1, <2>2, HoldsAppend
  <2> QED BY <1>4, <1>7, <2>3 DEF CurOk
<1>15. Open(Cur(o)) \/ (end[p] = "rst" /\ o.full)
  BY <1>1 DEF PeerInv
<1>16. ~ r.full => r.current # r.delta - 1 /\ Frame(p) < r.delta
  <2>1. r.current = o.current
    BY <1>8 DEF OnlyCur
  <2> QED BY <1>2, <1>3, <1>7, <1>9, <1>10, <1>11, <2>1 DEF Frame
<1>17. r.play \in Nat
  BY <1>12, RingParts DEF RingOk
<1>18. end[p] # "rst" \/ ~ r.full => CurOk(r, rec, m)
  BY <1>10, <1>14, <1>15
<1> QED BY <1>7, <1>12, <1>13, <1>16, <1>17, <1>18

\* The list is sent, if the other side is still there.
LEMMA SendsList ==
  ASSUME NetInv, NEW p \in Peers, pc[p] = "frame", network_connected(p), end[p] \in {"open", "fin"},
         NEW l \in Lists, Len(l) > 0, Holds(l, machine[p], recorded[p], Frame(p)),
         wire' = IF end[p] = "open" THEN Sent(p, <<"list", l>>) ELSE wire
  PROVE  /\ wire' \in [Peers -> Seq(Messages)] /\ wire'[p] = wire[p]
         /\ WireOk(wire'[Other(p)], machine[p], recorded[p], Played(Other(p)))
         /\ Total(wire'[Other(p)], Played(Other(p))) <= Frame(p)
         /\ end[p] = "open" =>
              /\ Total(wire'[Other(p)], Played(Other(p))) = Frame(p)
              /\ wire'[Other(p)] # << >> /\ wire'[Other(p)][Len(wire'[Other(p)])][1] = "list"
              /\ wire[Other(p)] # << >> => Head(wire'[Other(p)]) = Head(wire[Other(p)])
         /\ end[p] = "fin" => wire' = wire /\ SentBy(p) < Frame(p)
<1> DEFINE q == Other(p)
           w == wire[q]
           x == <<"list", l>>
           t == Append(w, x)
<1>1. Types /\ WireInv(p) /\ q \in Peers /\ q # p
  BY TwoPeers DEF NetInv
<1>2. Live(p) /\ SentBy(p) < Frame(p)
  BY FrameAhead
<1>3. WireOk(w, machine[p], recorded[p], Played(q))
  BY <1>1, <1>2 DEF WireInv
<1>4. w \in Seq(Messages) /\ Played(q) \in Nat /\ Frame(p) \in Nat
  BY <1>1, PlayedNat DEF Types
<1>5. Total(w, Played(q)) \in Nat /\ SentBy(p) = Total(w, Played(q))
  BY <1>4, TotalAtLeast DEF SentBy
<1>6. CASE end[p] = "fin"
  BY <1>1, <1>2, <1>3, <1>4, <1>5, <1>6 DEF Types
<1>7. CASE end[p] = "open"
  <2>1. x \in Messages /\ x[1] = "list"
    BY DEF Messages
  <2>2. /\ t \in Seq(Messages) /\ Len(w) \in Nat /\ Len(t) = Len(w) + 1 /\ t[Len(w) + 1] = x
        /\ w # << >> => Head(t) = Head(w)
    BY <1>4, <2>1, AppendMessage
  <2>3. t # << >> /\ t[Len(t)][1] = "list"
    BY <2>1, <2>2
  <2>4. wire' \in [Peers -> Seq(Messages)] /\ wire'[p] = wire[p] /\ wire'[q] = t
    BY <1>1, <1>7, <2>2 DEF Types, Sent
  <2>5. SentBy(p) = Frame(p) - 1
    BY <1>1, <1>2, <1>7 DEF WireInv
  <2>6. Total(w, Played(q)) + 1 = Frame(p)
    BY <1>4, <1>5, <2>5
  <2>7. Total(t, Played(q)) = Frame(p)
    BY <1>4, <2>6, TotalAppendsList
  <2>8. WireOk(t, machine[p], recorded[p], Played(q))
    BY <1>3, <1>4, <2>6, WireAppendsList
  <2>9. Total(t, Played(q)) <= Frame(p)
    BY <1>4, <2>7
  <2> HIDE DEF t, w
  <2> QED BY <1>7, <2>2, <2>3, <2>4, <2>7, <2>8, <2>9 DEF w
<1> QED BY <1>6, <1>7

\* A connected side in its frame is through with connecting.
LEMMA HookSide ==
  ASSUME NetInv, NEW p \in Peers, pc[p] = "frame", network_connected(p)
  PROVE  /\ Live(p) /\ session[p] > 0 /\ net[p] = "open" /\ ~ backlog
         /\ p = S => pc[C] \notin {"snapshot", "settings"}
         /\ p = C => pc[S] # "ping" /\ ~ (pc[S] = "trap" /\ net[S] = "open") /\ Live(S)
         /\ Live(Other(p)) \/ (p = S /\ pc[C] = "delta")
<1>1. Types /\ ServerStage /\ ClientStage /\ LiveInv
  BY DEF NetInv
<1>2. Live(p) /\ session[p] > 0
  BY FrameAhead
<1>3. net[p] = "open"
  BY <1>1 DEF LiveInv
<1>4. p = S => mode[S] = "SERVER_CONNECTED"
  BY <1>1, Connected
<1>5. p = C => mode[C] = "CLIENT"
  BY <1>1, Connected
<1>6. ~ backlog
  BY <1>1, <1>4, <1>5, TwoPeers DEF ServerStage
<1>7. p = S => pc[C] \notin {"snapshot", "settings"}
  BY <1>1, <1>2 DEF ClientStage
<1>8. p = C => pc[S] # "ping" /\ ~ (pc[S] = "trap" /\ net[S] = "open") /\ Live(S)
  BY <1>1, <1>2, <1>5 DEF ServerStage, LiveInv
<1>9. Live(Other(p)) \/ (p = S /\ pc[C] = "delta")
  BY <1>1, <1>2, <1>8, TwoPeers DEF LiveInv
<1> QED BY <1>2, <1>3, <1>6, <1>7, <1>8, <1>9

\* The ring is full: the side waits for the other one's list.
LEMMA HookWaitsKeeps ==
  ASSUME NetInv, NEW p \in Peers, HookSends(p), EnterReceive(Sealed(p)).full
  PROVE  NetInv'
<1> DEFINE q == Other(p)
<1>0. PICK r : r = EnterReceive(Sealed(p))
  OBVIOUS
<1>1. /\ pc[p] = "frame" /\ network_connected(p) /\ ~ syncTrap[p] /\ end[p] \in {"open", "fin"}
      /\ wire' = IF end[p] = "open" THEN Sent(p, <<"list", Cur(r)>>) ELSE wire
      /\ end' \in {end, [end EXCEPT ![p] = IF @ = "fin" THEN "finrst" ELSE @]}
      /\ r.full /\ pc' = [pc EXCEPT ![p] = "recv"] /\ ring' = [ring EXCEPT ![p] = r]
      /\ UNCHANGED <<mode, net, backlog, syncTrap, machine, recorded, session, inputs, sessions,
                     falseAlarm>>
  BY <1>0 DEF HookSends, connVars, Cur
<1>2. /\ Types /\ ServerStage /\ ClientStage /\ LiveInv /\ q \in Peers /\ q # p /\ Other(q) = p
      /\ PeerInv(q) /\ WireInv(q) /\ AgreeInv /\ ~ falseAlarm
  BY TwoPeers DEF NetInv
<1>3. /\ RingOk(r, recorded[p], machine[p]) /\ r.delta = ring[p].delta
      /\ Cur(r) \in Lists /\ Len(Cur(r)) > 0 /\ ~ Open(Cur(r)) /\ r.play \in Nat
      /\ CurOk(r, recorded[p], machine[p])
  BY <1>0, <1>1, HookRing
<1>4. Holds(Cur(r), machine[p], recorded[p], Frame(p))
  BY <1>3 DEF CurOk, Frame
<1>5. /\ wire' \in [Peers -> Seq(Messages)] /\ wire'[p] = wire[p]
      /\ WireOk(wire'[q], machine[p], recorded[p], Played(q))
      /\ Total(wire'[q], Played(q)) <= Frame(p)
      /\ end[p] = "open" => /\ Total(wire'[q], Played(q)) = Frame(p)
                            /\ wire'[q] # << >> /\ wire'[q][Len(wire'[q])][1] = "list"
                            /\ wire[q] # << >> => Head(wire'[q]) = Head(wire[q])
      /\ end[p] = "fin" => wire' = wire /\ SentBy(p) < Frame(p)
  BY <1>1, <1>3, <1>4, SendsList
<1>6. /\ Live(p) /\ session[p] > 0 /\ net[p] = "open" /\ ~ backlog
      /\ p = S => pc[C] \notin {"snapshot", "settings"}
      /\ p = C => pc[S] # "ping" /\ ~ (pc[S] = "trap" /\ net[S] = "open") /\ Live(S)
      /\ Live(q) \/ (p = S /\ pc[C] = "delta")
  BY <1>1, HookSide
<1>7. /\ end' \in [Peers -> {"open", "fin", "finrst", "rst"}] /\ end'[q] = end[q]
      /\ end'[p] # "rst" /\ (end'[p] = "open" <=> end[p] = "open")
  BY <1>1, <1>2, SMTT(30) DEF Types
<1>8. /\ pc'[p] = "recv" /\ pc'[q] = pc[q] /\ ring'[p] = r /\ ring'[q] = ring[q]
      /\ DOMAIN ring' = Peers
      /\ pc' \in [Peers -> {"frame", "recv", "spin", "abort", "trap", "ping", "snapshot",
                            "settings", "delta"}]
  BY <1>1, <1>2 DEF Types
<1>9. Types'
  <2>1. \A s \in Peers : ring'[s].play \in Nat
    BY <1>2, <1>3, <1>8, TwoPeers, ZenonT(40) DEF Types
  <2> QED BY <1>1, <1>2, <1>5, <1>7, <1>8, <2>1 DEF Types
<1>10. /\ \A s : Live(s)' = Live(s) /\ network_connected(s)' = network_connected(s)
       /\ \A s : Frame(s)' = Frame(s)
       /\ ring'[p].delta = ring[p].delta /\ ring'[q].delta = ring[q].delta
  BY <1>1, <1>3, <1>8 DEF Live, network_connected, Frame
<1>11. Played(p)' = Played(p) /\ Played(q)' = Played(q)
  BY <1>10 DEF Played
<1>12. ServerStage'
  <2>1. CASE p = S
    BY <1>1, <1>6, <1>8, <2>1, TwoPeers DEF ServerStage
  <2>2. CASE p = C
    BY <1>1, <1>2, <1>6, <1>8, <2>2, TwoPeers DEF ServerStage
  <2> QED BY <2>1, <2>2, TwoPeers
<1>13. ClientStage'
  <2>1. CASE p = C
    BY <1>8, <2>1 DEF ClientStage
  <2>2. CASE p = S
    <3>1. q = C /\ pc'[C] = pc[C] /\ end'[C] = end[C]
      BY <1>7, <1>8, <2>2, TwoPeers
    <3>2. ASSUME pc[C] = "delta"
          PROVE  /\ mode'[C] = "CLIENT" /\ Live(S)' /\ wire'[S] = << >> /\ wire'[C] # << >>
                 /\ Head(wire'[C]) = <<"delta", ring'[S].delta>> /\ Frame(S)' <= ring'[S].delta
                 /\ \A n \in 1 .. Len(machine'[S]) : machine'[S][n] = << >>
                 /\ net'[C] = "open" /\ ~ Live(C)' /\ sessions' > 0 /\ end'[S] = "open" /\ end'[C] # "rst"
      <4>1. /\ mode[C] = "CLIENT" /\ Live(S) /\ wire[S] = << >> /\ wire[C] # << >>
            /\ Head(wire[C]) = <<"delta", ring[S].delta>> /\ Frame(S) <= ring[S].delta
            /\ \A n \in 1 .. Len(machine[S]) : machine[S][n] = << >>
            /\ net[C] = "open" /\ ~ Live(C) /\ sessions > 0 /\ end[S] = "open" /\ end[C] # "rst"
        BY <1>1, <1>2, <2>2, <3>2 DEF ClientStage
      <4>2. /\ wire'[C] # << >> /\ Head(wire'[C]) = Head(wire[C]) /\ wire'[S] = wire[S]
            /\ ring'[S].delta = ring[S].delta
        BY <1>5, <1>10, <2>2, <3>1, <4>1
      <4> QED BY <1>1, <1>7, <1>10, <2>2, <3>1, <4>1, <4>2
    <3>3. pc[C] \notin {"snapshot", "settings", "trap", "ping"}
      BY <1>2, <1>6, <2>2 DEF ClientStage
    <3> QED BY <3>1, <3>2, <3>3 DEF ClientStage
  <2> QED BY <2>1, <2>2, TwoPeers
<1>14. LiveInv'
  BY <1>1, <1>2, <1>6, <1>8, <1>10, TwoPeers DEF LiveInv
<1>15. PeerInv(p)'
  BY <1>1, <1>3, <1>8 DEF PeerInv
<1>16. Kept(q)
  BY <1>1, <1>8 DEF Kept
<1>17. PeerInv(q)' /\ WireInv(q)'
  <2>1. PeerStill(q) /\ WireStill(q)
    BY <1>1, <1>2, <1>5, <1>7, <1>8, <1>10 DEF PeerStill, WireStill
  <2>2. Played(p) \in Nat
    BY PlayedNat
  <2> QED BY <1>2, <1>11, <1>16, <2>1, <2>2, StillPeer, StillWire
<1>18. WireInv(p)'
  <2>1. SentBy(p)' = Total(wire'[q], Played(q))
    BY <1>11 DEF SentBy
  <2>2. WireOk(wire'[q], machine'[p], recorded'[p], Played(q)')
    BY <1>1, <1>5, <1>11
  <2>3. wire'[q] # << >> /\ wire'[q][Len(wire'[q])][1] # "list" => SentBy(p)' < Frame(p)'
    <3>1. CASE end[p] = "open"
      BY <1>5, <3>1
    <3>2. CASE end[p] = "fin"
      <4>1. SentBy(p)' = SentBy(p)
        BY <1>5, <1>11, <3>2 DEF SentBy
      <4> QED BY <1>5, <1>10, <3>2, <4>1
    <3> QED BY <1>1, <3>1, <3>2
  <2> QED BY <1>5, <1>7, <1>8, <1>10, <2>1, <2>2, <2>3 DEF WireInv
<1>19. AgreeInv' /\ ~ falseAlarm'
  <2>1. \A s \in Peers : ring'[s].delta = ring[s].delta
    BY <1>10, TwoPeers
  <2> QED BY <1>1, <1>2, <2>1, TwoPeers DEF AgreeInv
<1> QED BY <1>9, <1>12, <1>13, <1>14, <1>15, <1>17, <1>18, <1>19, TwoPeers DEF NetInv

\* The ring is not full yet: the side goes on alone.  Nothing is played, and the
\* other side's lists stay where they are.
LEMMA GoesOnAlone ==
  ASSUME NetInv, NEW p \in Peers, pc[p] = "frame", network_connected(p),
         NEW r, r = EnterReceive(Sealed(p)), ~ r.full, network_prepare_next_frame(p, r, << >>),
         UNCHANGED <<session, sessions>>
  PROVE  /\ DOMAIN ring' = Peers /\ syncTrap' \in [Peers -> BOOLEAN]
         /\ machine' \in [Peers -> Machines] /\ recorded' \in [Peers -> Machines]
         /\ \A q \in Peers : ring'[q].play \in Nat
         /\ RingOk(ring'[p], recorded'[p], machine'[p])
         /\ CurOk(ring'[p], recorded'[p], machine'[p]) /\ Open(Cur(ring'[p]))
         /\ Extends(machine'[p], machine[p], Len(machine[p]))
         /\ Extends(recorded'[p], recorded[p], Len(recorded[p]))
         /\ Kept(Other(p)) /\ ring'[p].delta = ring[p].delta
         /\ Frame(p)' = Frame(p) + 1 /\ Frame(p)' <= ring'[p].delta
         /\ \A s : Live(s)' = Live(s)
         /\ Played(p)' = Played(p) /\ Played(Other(p))' = Played(Other(p))
         /\ \A n \in 1 .. Len(machine'[p]) :
              n <= Len(machine[p]) \/ machine'[p][n] = << >>
         /\ AgreeInv'
<1> DEFINE q == Other(p)
<1>1. Types /\ q \in Peers /\ q # p
  BY TwoPeers DEF NetInv
<1>2. /\ RingOk(r, recorded[p], machine[p]) /\ r.delta = ring[p].delta
      /\ Len(Cur(r)) > 0 /\ CurOk(r, recorded[p], machine[p])
      /\ r.current # r.delta - 1 /\ Frame(p) < r.delta
  BY HookRing
<1>3. << >> \in Seq(Inputs)
  OBVIOUS
<1>4. /\ DOMAIN ring' = Peers /\ syncTrap' \in [Peers -> BOOLEAN]
      /\ machine' \in [Peers -> Machines] /\ recorded' \in [Peers -> Machines]
      /\ \A s \in Peers : ring'[s].play \in Nat
      /\ ring'[p].delta = r.delta
      /\ machine'[p] = Append(machine[p], << >>)
      /\ RingOk(ring'[p], recorded'[p], machine'[p])
      /\ CurOk(ring'[p], recorded'[p], machine'[p]) /\ Open(Cur(ring'[p]))
      /\ Len(recorded'[p]) = Len(recorded[p]) + 1
      /\ Extends(machine'[p], machine[p], Len(machine[p]))
      /\ Extends(recorded'[p], recorded[p], Len(recorded[p]))
      /\ ring'[q] = ring[q] /\ syncTrap'[q] = syncTrap[q]
      /\ machine'[q] = machine[q] /\ recorded'[q] = recorded[q]
  BY <1>1, <1>2, <1>3, NextFrameFacts, ZenonT(40)
<1>5. Live(p) /\ Played(q) < Frame(p)
  BY FrameAhead
<1>6. /\ Len(machine[p]) \in Nat /\ Frame(p) \in Nat /\ ring[p].delta \in Nat /\ Played(q) \in Nat
  BY <1>1, <1>5, FedFrames, PlayedNat
<1>7. Kept(q) /\ \A s : Live(s)' = Live(s)
  BY <1>4 DEF Kept, Live
<1>8. Frame(p)' = Frame(p) + 1 /\ Frame(p)' <= ring'[p].delta /\ Frame(q)' = Frame(q)
  BY <1>2, <1>4, <1>6 DEF Frame
<1>9. Played(p)' = Played(p)
  <2>1. ~ (Frame(p) > ring[p].delta) /\ ~ (Frame(p)' > ring'[p].delta)
    BY <1>2, <1>4, <1>6, <1>8
  <2> QED BY <2>1 DEF Played
<1>10. Played(q)' = Played(q)
  BY <1>4, <1>7, <1>8 DEF Played
<1>11. \A n \in 1 .. Len(machine'[p]) : n <= Len(machine[p]) \/ machine'[p][n] = << >>
  <2>1. machine[p] \in Machines
    BY <1>1 DEF Types
  <2>2. Len(machine'[p]) = Len(machine[p]) + 1 /\ machine'[p][Len(machine[p]) + 1] = << >>
    BY <1>4, <2>1 DEF Machines
  <2> QED BY <1>6, <2>2
<1>12. AgreeInv'
  <2>1. PICK k \in Int : k = Frame(p) - ring[p].delta + 1
    BY <1>6
  <2>2. k < 1
    BY <1>2, <1>6, <2>1
  <2>3. ~ (k >= 1)
    BY <2>2
  <2>4. Played(q) <= Frame(p)
    BY <1>5, <1>6
  <2> QED BY <1>2, <1>3, <1>4, <1>5, <2>1, <2>3, <2>4, AgreeGoesOn
<1> QED BY <1>2, <1>4, <1>7, <1>8, <1>9, <1>10, <1>11, <1>12

\* The list is sent and the next frame begins.
LEMMA HookGoesOnKeeps ==
  ASSUME NetInv, NEW p \in Peers, HookSends(p), ~ EnterReceive(Sealed(p)).full
  PROVE  NetInv'
<1> DEFINE q == Other(p)
<1>0. PICK r : r = EnterReceive(Sealed(p))
  OBVIOUS
<1>1. /\ pc[p] = "frame" /\ network_connected(p) /\ end[p] \in {"open", "fin"}
      /\ wire' = IF end[p] = "open" THEN Sent(p, <<"list", Cur(r)>>) ELSE wire
      /\ end' \in {end, [end EXCEPT ![p] = IF @ = "fin" THEN "finrst" ELSE @]}
      /\ ~ r.full /\ network_prepare_next_frame(p, r, << >>)
      /\ UNCHANGED <<mode, net, backlog, pc, session, inputs, sessions, falseAlarm>>
  BY <1>0 DEF HookSends, connVars, Cur
<1>2. /\ Types /\ ServerStage /\ ClientStage /\ LiveInv /\ q \in Peers /\ q # p /\ Other(q) = p
      /\ PeerInv(q) /\ WireInv(q) /\ ~ falseAlarm
  BY TwoPeers DEF NetInv
<1>3. /\ Cur(r) \in Lists /\ Len(Cur(r)) > 0 /\ CurOk(r, recorded[p], machine[p])
  BY <1>0, <1>1, HookRing
<1>4. Holds(Cur(r), machine[p], recorded[p], Frame(p))
  BY <1>3 DEF CurOk, Frame
<1>5. /\ wire' \in [Peers -> Seq(Messages)] /\ wire'[p] = wire[p]
      /\ WireOk(wire'[q], machine[p], recorded[p], Played(q))
      /\ Total(wire'[q], Played(q)) <= Frame(p)
      /\ end[p] = "open" => /\ Total(wire'[q], Played(q)) = Frame(p) /\ wire'[q] # << >>
                            /\ wire[q] # << >> => Head(wire'[q]) = Head(wire[q])
  BY <1>1, <1>3, <1>4, SendsList
<1>6. /\ Live(p) /\ session[p] > 0 /\ net[p] = "open" /\ ~ backlog
      /\ p = S => pc[C] \notin {"snapshot", "settings"}
      /\ p = C => pc[S] # "ping" /\ ~ (pc[S] = "trap" /\ net[S] = "open") /\ Live(S)
      /\ Live(q) \/ (p = S /\ pc[C] = "delta")
  BY <1>1, HookSide
<1>7. /\ end' \in [Peers -> {"open", "fin", "finrst", "rst"}] /\ end'[q] = end[q]
      /\ end'[p] # "rst" /\ (end'[p] = "open" <=> end[p] = "open")
  BY <1>1, <1>2, ZenonT(40) DEF Types
<1>8. /\ DOMAIN ring' = Peers /\ syncTrap' \in [Peers -> BOOLEAN]
      /\ machine' \in [Peers -> Machines] /\ recorded' \in [Peers -> Machines]
      /\ \A s \in Peers : ring'[s].play \in Nat
      /\ RingOk(ring'[p], recorded'[p], machine'[p])
      /\ CurOk(ring'[p], recorded'[p], machine'[p]) /\ Open(Cur(ring'[p]))
      /\ Extends(machine'[p], machine[p], Len(machine[p]))
      /\ Extends(recorded'[p], recorded[p], Len(recorded[p]))
      /\ Kept(q) /\ ring'[p].delta = ring[p].delta
      /\ Frame(p)' = Frame(p) + 1 /\ Frame(p)' <= ring'[p].delta
      /\ \A s : Live(s)' = Live(s)
      /\ Played(p)' = Played(p) /\ Played(q)' = Played(q)
      /\ \A n \in 1 .. Len(machine'[p]) : n <= Len(machine[p]) \/ machine'[p][n] = << >>
      /\ AgreeInv'
  BY <1>0, <1>1, GoesOnAlone
<1>9. Types'
  BY <1>1, <1>2, <1>5, <1>7, <1>8 DEF Types
<1>10. \A s : network_connected(s)' = network_connected(s)
  BY <1>1 DEF network_connected
<1>11. ServerStage'
  <2>1. CASE p = S
    BY <1>1, <1>6, <2>1, TwoPeers DEF ServerStage
  <2>2. CASE p = C
    BY <1>1, <1>2, <1>6, <2>2, TwoPeers DEF ServerStage
  <2> QED BY <2>1, <2>2, TwoPeers
<1>12. ClientStage'
  <2>1. CASE p = C
    BY <1>1, <2>1 DEF ClientStage
  <2>2. CASE p = S
    <3>1. q = C /\ end'[C] = end[C]
      BY <1>7, <2>2, TwoPeers
    <3>2. ASSUME pc[C] = "delta"
          PROVE  /\ mode'[C] = "CLIENT" /\ Live(S)' /\ wire'[S] = << >> /\ wire'[C] # << >>
                 /\ Head(wire'[C]) = <<"delta", ring'[S].delta>> /\ Frame(S)' <= ring'[S].delta
                 /\ \A n \in 1 .. Len(machine'[S]) : machine'[S][n] = << >>
                 /\ net'[C] = "open" /\ ~ Live(C)' /\ sessions' > 0 /\ end'[S] = "open" /\ end'[C] # "rst"
      <4>1. /\ mode[C] = "CLIENT" /\ Live(S) /\ wire[S] = << >> /\ wire[C] # << >>
            /\ Head(wire[C]) = <<"delta", ring[S].delta>>
            /\ \A n \in 1 .. Len(machine[S]) : machine[S][n] = << >>
            /\ net[C] = "open" /\ ~ Live(C) /\ sessions > 0 /\ end[S] = "open" /\ end[C] # "rst"
        BY <1>1, <1>2, <2>2, <3>2 DEF ClientStage
      <4>2. /\ wire'[C] # << >> /\ Head(wire'[C]) = Head(wire[C]) /\ wire'[S] = wire[S]
            /\ ring'[S].delta = ring[S].delta
        BY <1>5, <1>8, <2>2, <3>1, <4>1
      <4>3. \A n \in 1 .. Len(machine'[S]) : machine'[S][n] = << >>
        <5>1. Len(machine[S]) \in Nat /\ Len(machine'[S]) \in Nat
          <6>1. machine[S] \in Machines /\ machine'[S] \in Machines
            BY <1>2, <1>8, TwoPeers DEF Types
          <6> QED BY <6>1 DEF Machines
        <5>2. ASSUME NEW n \in 1 .. Len(machine'[S]) PROVE machine'[S][n] = << >>
          <6>1. CASE n <= Len(machine[S])
            <7>1. n \in 1 .. Len(machine[S])
              BY <5>1, <6>1
            <7>2. machine'[S][n] = machine[S][n]
              BY <1>8, <2>2, <7>1 DEF Extends
            <7> QED BY <4>1, <7>1, <7>2
          <6>2. CASE ~ (n <= Len(machine[S]))
            BY <1>8, <2>2, <6>2
          <6> QED BY <6>1, <6>2
        <5> QED BY <5>2
      <4> QED BY <1>1, <1>7, <1>8, <2>2, <3>1, <4>1, <4>2, <4>3
    <3>3. pc[C] \notin {"snapshot", "settings", "trap", "ping"}
      BY <1>2, <1>6, <2>2 DEF ClientStage
    <3> QED BY <1>1, <3>2, <3>3 DEF ClientStage
  <2> QED BY <2>1, <2>2, TwoPeers
<1>13. LiveInv'
  <2>1. \A s \in Peers : syncTrap'[s] => session'[s] > 0
    BY <1>1, <1>2, <1>6, <1>8, TwoPeers DEF LiveInv, Kept
  <2> QED BY <1>1, <1>2, <1>8, <1>10, <2>1 DEF LiveInv
<1>14. PeerInv(p)'
  BY <1>1, <1>8 DEF PeerInv
<1>15. PeerInv(q)' /\ WireInv(q)'
  <2>1. PeerStill(q) /\ WireStill(q)
    BY <1>1, <1>2, <1>5, <1>7, <1>10 DEF PeerStill, WireStill
  <2>2. Played(p) \in Nat
    BY PlayedNat
  <2> QED BY <1>2, <1>8, <2>1, <2>2, StillPeer, StillWire
<1>16. WireInv(p)'
  <2>1. wire'[q] \in Seq(Messages) /\ pc'[p] # "recv" /\ Live(p)'
    BY <1>1, <1>2, <1>5, <1>6, <1>8
  <2> QED BY <1>5, <1>6, <1>7, <1>8, <2>1, SenderGoesOn
<1> QED BY <1>1, <1>2, <1>8, <1>9, <1>11, <1>12, <1>13, <1>14, <1>15, <1>16, TwoPeers DEF NetInv

\* The list cannot be sent.  The connection is closed; if the ring is full the
\* side goes on to wait, for nothing.
LEMMA HookCannotSendKeeps == ASSUME NetInv, NEW p \in Peers, HookCannotSend(p) PROVE NetInv'
<1> DEFINE q == Other(p)
<1>0. PICK r : r = EnterReceive(Sealed(p))
  OBVIOUS
<1> DEFINE next == IF r.full THEN "recv" ELSE "frame"
<1>1. /\ pc[p] = "frame" /\ network_connected(p) /\ ~ syncTrap[p] /\ end[p] \in {"finrst", "rst"}
      /\ Disconnect(p, next)
      /\ UNCHANGED <<wire, session, inputs, sessions, falseAlarm>>
  BY <1>0 DEF HookCannotSend
<1>2. \/ /\ r.full /\ ring' = [ring EXCEPT ![p] = r] /\ UNCHANGED <<syncTrap, machine, recorded>>
      \/ ~ r.full /\ network_prepare_next_frame(p, r, << >>)
  BY <1>0 DEF HookCannotSend
<1>3. /\ Types /\ ServerStage /\ ClientStage /\ LiveInv /\ q \in Peers /\ q # p /\ Other(q) = p
      /\ PeerInv(q) /\ WireInv(q) /\ WireInv(p) /\ AgreeInv /\ ~ falseAlarm
  BY TwoPeers DEF NetInv
<1>4. next \in {"frame", "trap", "recv"} /\ next # "trap"
  OBVIOUS
<1> HIDE DEF next
<1>5. /\ Live(p) /\ session[p] > 0 /\ net[p] = "open" /\ ~ backlog
      /\ pc[C] # "delta"
  <2>1. /\ Live(p) /\ session[p] > 0 /\ net[p] = "open" /\ ~ backlog
    BY <1>1, HookSide
  <2>2. CASE p = C
    BY <1>1, <2>1, <2>2
  <2>3. CASE p = S
    BY <1>1, <1>3, <2>1, <2>3 DEF ClientStage
  <2> QED BY <2>1, <2>2, <2>3, TwoPeers
<1>6. /\ pc' \in [Peers -> {"frame", "recv", "spin", "abort", "trap", "ping", "snapshot",
                            "settings", "delta"}]
      /\ mode' \in [Peers -> {"IDLE", "SERVER", "SERVER_CONNECTED", "CLIENT"}]
      /\ mode'[S] # "CLIENT" /\ mode'[C] \in {"IDLE", "CLIENT"}
      /\ net' \in [Peers -> {"null", "open", "closed"}]
      /\ end' \in [Peers -> {"open", "fin", "finrst", "rst"}]
      /\ backlog' \in BOOLEAN
  BY <1>1, <1>4, DisconnectFacts
<1>7. /\ pc'[p] \in {"abort", next} /\ pc'[q] = pc[q]
      /\ net'[q] = net[q] /\ net'[p] # "open"
      /\ ~ network_connected(p)' /\ network_connected(q)' = network_connected(q)
      /\ end'[p] = end[p]
      /\ \/ end'[q] = end[q]
         \/ end[q] = "open" /\ end'[q] = "fin"
         \/ end[q] = "open" /\ wire[p] # << >> /\ end'[q] = "rst"
  BY <1>1, <1>4, <1>5, DisconnectFacts
<1>8. /\ RingOk(r, recorded[p], machine[p]) /\ r.delta = ring[p].delta
      /\ ~ Open(Cur(r)) /\ r.play \in Nat
  BY <1>0, <1>1, HookRing
<1>9. PeerStill(q) /\ WireStill(q)
  BY <1>1, <1>3, <1>7 DEF PeerStill, WireStill
<1>10. Played(p) \in Nat
  BY PlayedNat
<1>11. CASE r.full
  <2>1. ring' = [ring EXCEPT ![p] = r] /\ UNCHANGED <<syncTrap, machine, recorded>>
    BY <1>2, <1>11
  <2>2. ring'[p] = r /\ ring'[q] = ring[q] /\ DOMAIN ring' = Peers
    BY <1>3, <2>1 DEF Types
  <2>3. Types'
    <3>1. \A s \in Peers : ring'[s].play \in Nat
      BY <1>3, <1>8, <2>2, TwoPeers, ZenonT(40) DEF Types
    <3> QED BY <1>1, <1>3, <1>6, <2>1, <2>2, <3>1 DEF Types
  <2>4. /\ \A s : Live(s)' = Live(s) /\ Frame(s)' = Frame(s)
        /\ Played(p)' = Played(p) /\ Played(q)' = Played(q)
    BY <1>1, <1>8, <2>1, <2>2 DEF Live, Frame, Played
  <2>5. ServerStage' /\ ClientStage' /\ LiveInv'
    <3>1. \A s \in Peers : syncTrap'[s] => session[s] > 0
      BY <1>3, <2>1 DEF LiveInv
    <3> QED BY <1>1, <1>4, <1>5, <3>1, DisconnectStages
  <2>6. PeerInv(p)'
    BY <1>1, <1>7, <1>8, <1>11, <2>1, <2>2 DEF PeerInv
  <2>7. PeerInv(q)' /\ WireInv(q)'
    <3>1. Kept(q)
      BY <1>1, <2>1, <2>2 DEF Kept
    <3> QED BY <1>3, <1>9, <1>10, <2>4, <3>1, StillPeer, StillWire
  <2>8. WireInv(p)'
    <3>1. SentBy(p)' = SentBy(p)
      BY <1>1, <2>4 DEF SentBy
    <3> QED BY <1>1, <1>3, <1>5, <1>7, <2>1, <2>4, <3>1 DEF WireInv
  <2>9. AgreeInv' /\ ~ falseAlarm'
    <3>1. \A s \in Peers : ring'[s].delta = ring[s].delta
      BY <1>8, <2>2, TwoPeers
    <3> QED BY <1>1, <1>3, <2>1, <3>1, TwoPeers DEF AgreeInv
  <2> QED BY <2>3, <2>5, <2>6, <2>7, <2>8, <2>9, TwoPeers DEF NetInv
<1>12. CASE ~ r.full
  <2>1. network_prepare_next_frame(p, r, << >>) /\ pc'[p] # "recv"
    BY <1>2, <1>7, <1>12 DEF next
  <2>2. /\ DOMAIN ring' = Peers /\ syncTrap' \in [Peers -> BOOLEAN]
        /\ machine' \in [Peers -> Machines] /\ recorded' \in [Peers -> Machines]
        /\ \A s \in Peers : ring'[s].play \in Nat
        /\ RingOk(ring'[p], recorded'[p], machine'[p])
        /\ CurOk(ring'[p], recorded'[p], machine'[p]) /\ Open(Cur(ring'[p]))
        /\ Extends(machine'[p], machine[p], Len(machine[p]))
        /\ Extends(recorded'[p], recorded[p], Len(recorded[p]))
        /\ Kept(q) /\ Frame(p)' = Frame(p) + 1
        /\ \A s : Live(s)' = Live(s)
        /\ Played(p)' = Played(p) /\ Played(q)' = Played(q)
        /\ AgreeInv'
    BY <1>0, <1>1, <1>12, <2>1, GoesOnAlone
  <2>3. Types'
    BY <1>1, <1>3, <1>6, <2>2 DEF Types
  <2>4. ServerStage' /\ ClientStage' /\ LiveInv'
    <3>1. \A s \in Peers : syncTrap'[s] => session[s] > 0
      BY <1>3, <1>5, <2>2, TwoPeers DEF LiveInv, Kept
    <3> QED BY <1>1, <1>4, <1>5, <3>1, DisconnectStages
  <2>5. PeerInv(p)'
    BY <1>7, <2>1, <2>2 DEF PeerInv
  <2>6. PeerInv(q)' /\ WireInv(q)'
    BY <1>3, <1>9, <1>10, <2>2, StillPeer, StillWire
  <2>7. WireInv(p)'
    <3>1. wire'[q] = wire[q] /\ wire[q] \in Seq(Messages) /\ Live(p)'
      BY <1>1, <1>3, <1>5, <2>2 DEF Types
    <3>2. /\ end'[p] # "rst" => WireOk(wire[q], machine[p], recorded[p], Played(q))
          /\ end'[p] = "rst" => net'[q] # "open" /\ Played(q) < Frame(p)
          /\ Total(wire[q], Played(q)) <= Frame(p)
      BY <1>3, <1>5, <1>7 DEF WireInv, SentBy
    <3> QED BY <1>5, <1>7, <2>2, <3>1, <3>2, SenderGoesOn
  <2>8. ~ falseAlarm'
    BY <1>1, <1>3
  <2> QED BY <2>2, <2>3, <2>4, <2>5, <2>6, <2>7, <2>8, TwoPeers DEF NetInv
<1> QED BY <1>11, <1>12

-----------------------------------------------------------------------------
(***************************************************************************)
(* The other side's list.                                                  *)
(***************************************************************************)

\* The registers are all that such an event holds.
LEMMA SyncEvent ==
  ASSUME NEW e \in Events, e[1] = "sync"
  PROVE  e = Sync(e[2])
<1>1. e # ListEnd
  BY Tags
<1>2. e \notin Inputs
  <2>1. \A i \in Nat : Input(i)[1] # "sync"
    BY Tags
  <2> QED BY <2>1 DEF Inputs
<1>3. PICK m \in Machines : e = Sync(m)
  BY <1>1, <1>2 DEF Events
<1> QED BY <1>3, Tags

\* Two machines that were the same up to a frame were the same then.
LEMMA SameThen ==
  ASSUME NEW x, NEW y, NEW m, NEW n, NEW k \in Nat, Was(x, m, k), Was(y, n, k),
         \A i \in 1 .. k - 1 : m[i] = n[i]
  PROVE  x = y
<1>1. /\ x \in Seq(Seq(Inputs)) /\ y \in Seq(Seq(Inputs)) /\ Len(x) = k - 1 /\ Len(y) = k - 1
      /\ \A i \in 1 .. k - 1 : x[i] = y[i]
  BY DEF Was, Machines
<1> QED BY <1>1

\* The lists that a side plays are those of one frame, its own and the other one's.
LEMMA ListsMeet ==
  ASSUME NetInv, NEW p \in Peers, pc[p] = "recv", net[p] = "open", wire[p] # << >>,
         Head(wire[p])[1] = "list"
  PROVE  LET own == ring[p].lists[ring[p].play]
             remote == Head(wire[p])[2]
             k == Frame(p) - ring[p].delta + 1
         IN  /\ k \in Nat /\ k >= 1 /\ k <= Frame(p) /\ k <= Frame(Other(p)) /\ Played(p) = k - 1
             /\ Len(own) > 0 /\ Holds(own, machine[p], recorded[p], k)
             /\ Len(remote) > 0 /\ Holds(remote, machine[Other(p)], recorded[Other(p)], k)
<1> DEFINE q == Other(p)
           r == ring[p]
           own == r.lists[r.play]
           w == wire[p]
           remote == Head(w)[2]
           k == Frame(p) - r.delta + 1
<1>1. Types /\ PeerInv(p) /\ WireInv(q) /\ q \in Peers /\ q # p /\ Other(q) = p
  BY TwoPeers DEF NetInv
<1>2. Live(p) /\ Live(q) /\ end[q] # "rst" /\ session[p] > 0
  BY WaitingSide, PlayedNat
<1>3. /\ RingOk(r, recorded[p], machine[p]) /\ r.full
  BY <1>1, <1>2 DEF PeerInv
<1>4. /\ Frame(p) \in Nat /\ r.delta \in Nat /\ r.delta >= 2 /\ Frame(p) >= r.delta
      /\ Frame(p) > 1 => r.play = Slot(r, r.delta - 1)
      /\ \A j \in 1 .. r.delta - 1 :
           j < Frame(p) => /\ Len(Back(r, j)) > 0
                           /\ Holds(Back(r, j), machine[p], recorded[p], Frame(p) - j)
  BY <1>2, <1>3, PlayedNat DEF RingOk, Frame
<1>5. k \in Nat /\ k >= 1 /\ k <= Frame(p) /\ Played(p) = k - 1
  <2>1. CASE Frame(p) > r.delta
    <3>1. Played(p) = Frame(p) - r.delta
      BY <1>2, <2>1 DEF Played
    <3> QED BY <1>4, <3>1
  <2>2. CASE ~ (Frame(p) > r.delta)
    <3>1. Played(p) = 0
      BY <2>2 DEF Played
    <3> QED BY <1>4, <2>2, <3>1
  <2> QED BY <2>1, <2>2
<1>6. Len(own) > 0 /\ Holds(own, machine[p], recorded[p], k)
  <2>1. own = Back(r, r.delta - 1)
    BY <1>4 DEF Back
  <2>2. PICK j \in 1 .. r.delta - 1 : j = r.delta - 1
    BY <1>4
  <2>3. j < Frame(p) /\ Frame(p) - j = k
    BY <1>4, <2>2
  <2>4. Len(Back(r, j)) > 0 /\ Holds(Back(r, j), machine[p], recorded[p], Frame(p) - j)
    BY <1>4, <2>3
  <2> HIDE DEF own, r, k
  <2> QED BY <2>1, <2>2, <2>3, <2>4
<1>7. w \in Seq(Messages) /\ Len(w) \in Nat /\ 1 \in 1 .. Len(w) /\ w[1] = Head(w) /\ 0 + 1 = 1
  BY <1>1 DEF Types
<1>8. ListsIn(w, 1) = 1
  <2>1. ListsIn(w, 0) = 0 /\ ListsIn(w, 0 + 1) = ListsIn(w, 0) + (IF w[0 + 1][1] = "list" THEN 1 ELSE 0)
    BY ListsInNat, ListsInNext
  <2> QED BY <1>7, <2>1
<1>9. WireOk(w, machine[q], recorded[q], Played(p)) /\ Total(w, Played(p)) <= Frame(q)
  BY <1>1, <1>2 DEF WireInv, SentBy
<1>10. Len(remote) > 0 /\ Holds(remote, machine[q], recorded[q], k)
  <2>1. Len(w[1][2]) > 0 /\ Holds(w[1][2], machine[q], recorded[q], Played(p) + ListsIn(w, 1))
    BY <1>7, <1>9 DEF WireOk
  <2>2. Played(p) + ListsIn(w, 1) = k
    BY <1>5, <1>8
  <2> HIDE DEF w, k
  <2> QED BY <1>7, <2>1, <2>2
<1>11. k <= Frame(q)
  <2>1. PICK n : n = ListsIn(w, Len(w))
    OBVIOUS
  <2>2. n \in Nat /\ n >= 1
    BY <1>7, <1>8, <2>1, ListsInNat, ListsInGrows
  <2>3. Total(w, Played(p)) = Played(p) + n /\ Frame(q) \in Nat
    BY <1>1, <2>1, PlayedNat DEF Total
  <2> QED BY <1>5, <1>9, <2>2, <2>3
<1> QED BY <1>5, <1>6, <1>10, <1>11

\* The registers that are compared agree.
LEMMA InSync ==
  ASSUME NetInv, NEW p \in Peers, pc[p] = "recv", net[p] = "open", wire[p] # << >>,
         Head(wire[p])[1] = "list"
  PROVE  ~ OutOfSync(ring[p].lists[ring[p].play], Head(wire[p])[2])
<1> DEFINE q == Other(p)
           own == ring[p].lists[ring[p].play]
           remote == Head(wire[p])[2]
           k == Frame(p) - ring[p].delta + 1
<1>1. /\ k \in Nat /\ k >= 1 /\ k <= Frame(p) /\ k <= Frame(q)
      /\ Len(own) > 0 /\ Holds(own, machine[p], recorded[p], k)
      /\ Len(remote) > 0 /\ Holds(remote, machine[q], recorded[q], k)
  BY ListsMeet
<1> HIDE DEF own, remote, k
<1> SUFFICES ASSUME own[1][1] = "sync", remote[1][1] = "sync" PROVE own[1] = remote[1]
  BY DEF OutOfSync, own, remote
<1>2. Live(p) /\ Live(q) /\ q \in Peers /\ q # p
  BY WaitingSide, TwoPeers
<1>3. own \in Lists /\ remote \in Lists /\ Was(own[1][2], machine[p], k) /\ Was(remote[1][2], machine[q], k)
  BY <1>1 DEF Holds
<1>4. own[1] \in Events /\ remote[1] \in Events
  BY <1>1, <1>3 DEF Lists
<1>5. AgreeInv /\ session[S] = session[C] /\ session[S] > 0
  BY <1>2, PlayedNat, TwoPeers DEF NetInv, Live
<1>6. PICK d : /\ d = ring[p].delta
               /\ Agree(machine[p], recorded[S], recorded[C], d)
               /\ Agree(machine[q], recorded[S], recorded[C], d)
  BY <1>2, <1>5, TwoPeers DEF AgreeInv
<1>7. /\ Len(machine[p]) \in Nat /\ Len(machine[p]) = Frame(p) - 1 /\ Frame(p) \in Nat /\ d \in Nat
      /\ Len(machine[q]) \in Nat /\ Len(machine[q]) = Frame(q) - 1 /\ Frame(q) \in Nat
  BY <1>2, <1>6, FedFrames
<1>8. ASSUME NEW i \in 1 .. k - 1 PROVE machine[p][i] = machine[q][i]
  <2>1. i \in 1 .. Len(machine[p]) /\ i \in 1 .. Len(machine[q])
    BY <1>1, <1>7
  <2>2. i - d + 1 < 1 \/ i - d + 1 >= 1
    BY <1>7
  <2> QED BY <1>6, <2>1, <2>2 DEF Agree
<1>9. own[1][2] = remote[1][2]
  BY <1>1, <1>3, <1>8, SameThen
<1> QED BY <1>4, <1>9, SyncEvent

\* The other side's list is played, and the next frame begins.
LEMMA ReceiveListKeeps == ASSUME NetInv, NEW p \in Peers, ReceiveList(p) PROVE NetInv'
<1> DEFINE q == Other(p)
           r == ring[p]
           w == wire[p]
           own == r.lists[r.play]
           remote == Head(w)[2]
           x == Fed(p, own, remote)
           k == Frame(p) - r.delta + 1
<1>1. /\ pc[p] = "recv" /\ net[p] = "open" /\ w # << >> /\ Head(w)[1] = "list"
      /\ wire' = [wire EXCEPT ![p] = Tail(@)]
      /\ network_prepare_next_frame(p, r, x)
      /\ UNCHANGED <<session, inputs, sessions>>
  BY DEF ReceiveList, Receiving
<1>2. /\ pc' = [pc EXCEPT ![p] = "frame"]
      /\ UNCHANGED <<mode, net, backlog, end, falseAlarm>>
  <2>1. ~ OutOfSync(own, remote)
    BY <1>1, InSync
  <2> QED BY <2>1 DEF ReceiveList, connVars
<1>3. /\ Types /\ ServerStage /\ ClientStage /\ LiveInv /\ q \in Peers /\ q # p /\ Other(q) = p
      /\ PeerInv(p) /\ WireInv(p) /\ PeerInv(q) /\ WireInv(q) /\ ~ falseAlarm
  BY TwoPeers DEF NetInv
<1>4. /\ network_connected(p) /\ Live(p) /\ ~ backlog
      /\ p = S => pc[C] \notin {"snapshot", "settings", "delta"}
      /\ p = C => pc[S] # "ping" /\ ~ (pc[S] = "trap" /\ net[S] = "open")
      /\ Live(q) /\ end[q] # "rst" /\ session[p] > 0
  BY <1>1, WaitingSide, PlayedNat
<1>5. /\ k \in Nat /\ k >= 1 /\ k <= Frame(p) /\ k <= Frame(q) /\ Played(p) = k - 1
      /\ InputsOf(own) = recorded[p][k] /\ InputsOf(remote) = recorded[q][k]
  BY <1>1, ListsMeet DEF Holds
<1> HIDE DEF own, remote
<1>6. x = recorded[S][k] \o recorded[C][k]
  <2>1. CASE p = S
    <3>1. mode[p] = "SERVER_CONNECTED" /\ q = C
      BY <1>3, <1>4, <2>1, Connected, TwoPeers
    <3> QED BY <1>5, <2>1, <3>1 DEF Fed
  <2>2. CASE p = C
    <3>1. mode[p] # "SERVER_CONNECTED" /\ q = S
      BY <1>3, <2>2, TwoPeers DEF Types
    <3> QED BY <1>5, <2>2, <3>1 DEF Fed
  <2> QED BY <2>1, <2>2, TwoPeers
<1>7. /\ k <= Len(recorded[S]) /\ k <= Len(recorded[C]) /\ x \in Seq(Inputs)
  <2>1. k <= Len(recorded[S]) /\ k <= Len(recorded[C])
    BY <1>5, TwoPeers DEF Frame
  <2>2. recorded[S] \in Seq(Seq(Inputs)) /\ recorded[C] \in Seq(Seq(Inputs))
    BY <1>3, TwoPeers DEF Types, Machines
  <2>3. k \in 1 .. Len(recorded[S]) /\ k \in 1 .. Len(recorded[C])
    BY <1>5, <2>1, <2>2
  <2>4. recorded[S][k] \in Seq(Inputs) /\ recorded[C][k] \in Seq(Inputs)
    BY <2>2, <2>3
  <2> HIDE DEF k, x
  <2> QED BY <1>6, <2>1, <2>4
<1> HIDE DEF x
<1>8. /\ RingOk(r, recorded[p], machine[p]) /\ r.full
      /\ Len(Cur(r)) > 0 /\ CurOk(r, recorded[p], machine[p])
  BY <1>1, <1>3, <1>4 DEF PeerInv
<1>9. /\ DOMAIN ring' = Peers /\ syncTrap' \in [Peers -> BOOLEAN]
      /\ machine' \in [Peers -> Machines] /\ recorded' \in [Peers -> Machines]
      /\ \A s \in Peers : ring'[s].play \in Nat
      /\ ring'[p].delta = r.delta /\ machine'[p] = Append(machine[p], x)
      /\ RingOk(ring'[p], recorded'[p], machine'[p])
      /\ CurOk(ring'[p], recorded'[p], machine'[p]) /\ Open(Cur(ring'[p]))
      /\ Len(recorded'[p]) = Len(recorded[p]) + 1
      /\ Extends(machine'[p], machine[p], Len(machine[p]))
      /\ Extends(recorded'[p], recorded[p], Len(recorded[p]))
      /\ ring'[q] = ring[q] /\ syncTrap'[q] = syncTrap[q]
      /\ machine'[q] = machine[q] /\ recorded'[q] = recorded[q]
  BY <1>1, <1>3, <1>7, <1>8, NextFrameFacts
<1>10. /\ Frame(p) \in Nat /\ r.delta \in Nat /\ Played(q) \in Nat /\ Played(p) \in Nat
  BY <1>3, <1>4, PlayedNat
<1>11. /\ \A s : Live(s)' = Live(s) /\ network_connected(s)' = network_connected(s)
       /\ Frame(p)' = Frame(p) + 1 /\ Frame(q)' = Frame(q)
  BY <1>1, <1>2, <1>9 DEF Live, network_connected, Frame
<1>12. Played(q)' = Played(q)
  BY <1>9, <1>11 DEF Played
<1>13. Played(p)' = Played(p) + 1
  <2>1. Frame(p)' > ring'[p].delta /\ Frame(p)' - ring'[p].delta = Played(p) + 1
    BY <1>5, <1>9, <1>10, <1>11, SMTT(30)
  <2> QED BY <1>4, <1>11, <2>1 DEF Played
<1>14. /\ Tail(w) \in Seq(Messages)
       /\ Total(Tail(w), Played(p) + 1) = Total(w, Played(p))
       /\ WireOk(w, machine[q], recorded[q], Played(p))
            => WireOk(Tail(w), machine[q], recorded[q], Played(p) + 1)
       /\ Tail(w) # << >> => Tail(w)[Len(Tail(w))] = w[Len(w)]
  <2>1. w \in Seq(Messages) /\ Played(p) + 1 \in Nat
    BY <1>3, <1>10 DEF Types
  <2>2. Played(p) + 1 = Played(p) + (IF Head(w)[1] = "list" THEN 1 ELSE 0)
    BY <1>1
  <2> QED BY <1>1, <1>10, <2>1, <2>2, WireReads
<1>15. wire' \in [Peers -> Seq(Messages)] /\ wire'[p] = Tail(w) /\ wire'[q] = wire[q]
  BY <1>1, <1>3, <1>14 DEF Types
<1>16. /\ pc'[p] = "frame" /\ pc'[q] = pc[q]
       /\ pc' \in [Peers -> {"frame", "recv", "spin", "abort", "trap", "ping", "snapshot",
                             "settings", "delta"}]
  BY <1>2, <1>3 DEF Types
<1>17. Types'
  BY <1>1, <1>2, <1>3, <1>9, <1>15, <1>16 DEF Types
<1>18. ServerStage' /\ ClientStage'
  <2>1. CASE p = S
    <3>1. q = C
      BY <2>1, TwoPeers
    <3> QED BY <1>2, <1>3, <1>4, <1>16, <2>1, <3>1 DEF ServerStage, ClientStage
  <2>2. CASE p = C
    <3>1. q = S
      BY <2>2, TwoPeers
    <3> QED BY <1>2, <1>3, <1>4, <1>16, <2>2, <3>1 DEF ServerStage, ClientStage
  <2> QED BY <2>1, <2>2, TwoPeers
<1>19. LiveInv'
  <2>1. \A s \in Peers : Live(s) /\ Live(s)' /\ (syncTrap'[s] => session'[s] > 0)
    BY <1>1, <1>3, <1>4, <1>9, <1>11, TwoPeers DEF LiveInv
  <2>2. \A s \in Peers : pc'[s] = "recv" => pc[s] = "recv"
    BY <1>16, TwoPeers
  <2> QED BY <1>2, <1>3, <1>11, <2>1, <2>2, TwoPeers DEF LiveInv
<1>20. PeerInv(p)'
  BY <1>9, <1>16 DEF PeerInv
<1>21. PeerInv(q)'
  <2>1. Kept(q) /\ PeerStill(q)
    BY <1>1, <1>2, <1>9, <1>11, <1>16 DEF Kept, PeerStill
  <2> QED BY <1>3, <2>1, StillPeer
<1>22. WireInv(p)'
  <2>1. wire[q] \in Seq(Messages) /\ Live(p)' /\ pc'[p] # "recv"
    BY <1>3, <1>4, <1>11, <1>16 DEF Types
  <2>2. /\ end'[p] # "rst" => WireOk(wire[q], machine[p], recorded[p], Played(q))
        /\ end'[p] = "rst" => net'[q] # "open" /\ Played(q) < Frame(p)
        /\ Total(wire[q], Played(q)) <= Frame(p)
        /\ network_connected(p)' /\ end'[p] = "open" => Total(wire[q], Played(q)) = Frame(p)
    BY <1>1, <1>2, <1>3, <1>4, <1>11 DEF WireInv, SentBy
  <2> QED BY <1>4, <1>9, <1>11, <1>12, <1>15, <2>1, <2>2, SenderGoesOn
<1>23. WireInv(q)'
  <2>1. SentBy(q)' = SentBy(q)
    BY <1>3, <1>13, <1>14, <1>15 DEF SentBy
  <2>2. /\ WireOk(w, machine[q], recorded[q], Played(p)) /\ SentBy(q) <= Frame(q)
        /\ w[Len(w)][1] # "list" => SentBy(q) < Frame(q)
        /\ network_connected(q) /\ pc[q] = "frame" /\ end[q] # "rst" => SentBy(q) < Frame(q)
        /\ network_connected(q) /\ end[q] = "open" /\ pc[q] \in {"frame", "recv"} =>
             SentBy(q) = IF pc[q] = "recv" THEN Frame(q) ELSE Frame(q) - 1
    BY <1>1, <1>3, <1>4 DEF WireInv
  <2>3. WireOk(wire'[p], machine'[q], recorded'[q], Played(p)')
    BY <1>9, <1>13, <1>14, <1>15, <2>2
  <2>4. wire'[p] # << >> /\ wire'[p][Len(wire'[p])][1] # "list" => SentBy(q)' < Frame(q)'
    BY <1>11, <1>14, <1>15, <2>1, <2>2
  <2>5. /\ SentBy(q)' <= Frame(q)'
        /\ network_connected(q)' /\ pc'[q] = "frame" /\ end'[q] # "rst" => SentBy(q)' < Frame(q)'
        /\ network_connected(q)' /\ end'[q] = "open" /\ pc'[q] \in {"frame", "recv"} =>
             SentBy(q)' = IF pc'[q] = "recv" THEN Frame(q)' ELSE Frame(q)' - 1
    BY <1>2, <1>11, <1>16, <2>1, <2>2
  <2>6. end'[q] # "rst"
    BY <1>2, <1>4
  <2> QED BY <1>3, <2>3, <2>4, <2>5, <2>6 DEF WireInv
<1>24. AgreeInv' /\ ~ falseAlarm'
  <2>1. Played(q) <= Frame(p)
    <3>1. wire[q] \in Seq(Messages) /\ SentBy(p) <= Frame(p)
      BY <1>3, <1>4 DEF Types, WireInv
    <3>2. SentBy(p) \in Nat /\ Played(q) <= SentBy(p)
      BY <1>10, <3>1, TotalAtLeast DEF SentBy
    <3> QED BY <1>10, <3>1, <3>2
  <2>2. k \in Int /\ ~ (k < 1)
    BY <1>5
  <2>3. AgreeInv'
    BY <1>1, <1>4, <1>6, <1>7, <1>9, <2>1, <2>2, AgreeGoesOn
  <2> QED BY <1>2, <1>3, <2>3
<1> QED BY <1>17, <1>18, <1>19, <1>20, <1>21, <1>22, <1>23, <1>24, TwoPeers DEF NetInv

-----------------------------------------------------------------------------
(***************************************************************************)
(* The theorems.                                                           *)
(***************************************************************************)

\* Nothing happens.
LEMMA StutterKeeps == ASSUME NetInv, UNCHANGED vars PROVE NetInv'
<1>1. Still /\ UNCHANGED <<mode, net, backlog, pc, wire, end>>
  BY DEF vars, connVars, history, Still
<1>2. Types' /\ ServerStage' /\ ClientStage' /\ LiveInv'
  BY <1>1 DEF NetInv, Types, ServerStage, ClientStage, LiveInv, Still, Live, Frame, network_connected
<1>3. ASSUME NEW p \in Peers PROVE PeerStill(p) /\ WireStill(p)
  BY <1>1 DEF PeerStill, WireStill, network_connected
<1> QED BY <1>1, <1>2, <1>3, StillKeeps

\* Every step keeps the invariant.
LEMMA StepKeepsNetInv == ASSUME NetInv, [Next]_vars PROVE NetInv'
<1>1. CASE Connect
  BY <1>1, StartServerKeeps, ConnectKeeps, RefusedKeeps, AcceptKeeps, ServerTrapKeeps,
     CannotSendKeeps, SnapshotKeeps, NoSnapshotKeeps, ClientTrapKeeps, CannotLoadKeeps,
     ServerDelayKeeps, ClientDelayKeeps DEF Connect
<1>2. ASSUME NEW p \in Peers,
             \/ network_event_record(p) \/ network_event_record_sync_test(p)
             \/ network_suspend(p) \/ network_disconnect(p)
      PROVE  NetInv'
  BY <1>2, InputKeeps, SyncTestKeeps, SuspendKeeps, DisconnectKeeps
<1>3. ASSUME NEW p \in Peers, Hook(p) PROVE NetInv'
  BY <1>3, HookWaitsKeeps, HookGoesOnKeeps, HookCannotSendKeeps DEF Hook
<1>4. ASSUME NEW p \in Peers, Receive(p) PROVE NetInv'
  BY <1>4, ReceiveSuspendKeeps, ReceiveListKeeps, FailsKeeps, SpinsKeeps DEF Receive
<1>5. CASE UNCHANGED vars
  BY <1>5, StutterKeeps
<1> QED BY <1>1, <1>2, <1>3, <1>4, <1>5 DEF Next

\* A machine that was in no session was fed nothing.
NothingFed == \A p \in Peers : session[p] = 0 => machine[p] = << >>

\* Only a side in its session feeds its machine.
LEMMA StepKeepsNothingFed ==
  ASSUME NetInv, NothingFed, [Next]_vars
  PROVE  NothingFed'
<1> USE DEF NothingFed
<1>1. ASSUME NEW p \in Peers, NEW d, StartFrames(p, d) PROVE NothingFed'
  BY <1>1 DEF StartFrames, NetInv, Types
<1>2. ASSUME NEW p \in Peers, NEW r, NEW x, network_prepare_next_frame(p, r, x),
             session[p] > 0, session' = session
      PROVE  NothingFed'
  BY <1>2 DEF network_prepare_next_frame, NetInv, Types
<1>3. CASE Connect
  <2>1. CASE ServerTestDelay \/ ClientTestDelay
    BY <1>1, <2>1, TwoPeers DEF ServerTestDelay, ClientTestDelay
  <2>2. CASE ~ (ServerTestDelay \/ ClientTestDelay)
    <3>1. UNCHANGED <<machine, session>>
      BY <1>3, <2>2 DEF Connect, network_start_server, network_connect_client, ConnectRefused,
         Accept, network_server_connect_trap, ServerCannotSend, ReceiveSnapshot, NoSnapshot,
         network_client_connect_trap, ClientCannotLoad, history
    <3> QED BY <3>1
  <2> QED BY <2>1, <2>2
<1>4. ASSUME NEW p \in Peers,
             \/ network_event_record(p) \/ network_event_record_sync_test(p)
             \/ network_suspend(p) \/ network_disconnect(p)
      PROVE  NothingFed'
  <2>1. UNCHANGED <<machine, session>>
    BY <1>4 DEF network_event_record, network_event_record_sync_test, network_suspend,
       network_disconnect, history
  <2> QED BY <2>1
<1>5. ASSUME NEW p \in Peers, Hook(p) PROVE NothingFed'
  <2>1. pc[p] = "frame" /\ network_connected(p) /\ session' = session
    BY <1>5 DEF Hook, HookSends, HookCannotSend
  <2>2. session[p] > 0
    BY <2>1, HookSide
  <2>3. machine' = machine \/ \E r : network_prepare_next_frame(p, r, << >>)
    BY <1>5 DEF Hook, HookSends, HookCannotSend
  <2> QED BY <1>2, <2>1, <2>2, <2>3
<1>6. ASSUME NEW p \in Peers, Receive(p) PROVE NothingFed'
  <2>1. CASE ReceiveList(p)
    <3>1. session[p] > 0
      BY <2>1, WaitingSide, PlayedNat DEF ReceiveList, Receiving
    <3>2. session' = session /\ \E r, x : network_prepare_next_frame(p, r, x)
      BY <2>1 DEF ReceiveList
    <3> QED BY <1>2, <3>1, <3>2
  <2>2. CASE ~ ReceiveList(p)
    <3>1. UNCHANGED <<machine, session>>
      BY <1>6, <2>2 DEF Receive, ReceiveSuspend, ReceiveFails, ReceiveSpins, history
    <3> QED BY <3>1
  <2> QED BY <2>1, <2>2
<1>7. CASE UNCHANGED vars
  BY <1>7 DEF vars, history
<1> QED BY <1>3, <1>4, <1>5, <1>6, <1>7 DEF Next

\* What the invariants say of the inputs.
LEMMA NetInvLockstep == NetInv /\ NothingFed => Lockstep
<1> SUFFICES ASSUME NetInv, NothingFed, session[S] = session[C],
                    NEW p \in Peers, NEW n \in DOMAIN machine[p]
             PROVE  LET k == n - ring[p].delta + 1
                    IN  machine[p][n] = IF k < 1 THEN << >> ELSE recorded[S][k] \o recorded[C][k]
  BY DEF Lockstep
<1>1. Types /\ AgreeInv
  BY DEF NetInv
<1>2. machine[p] \in Machines /\ session[S] \in Nat /\ session[p] = session[S]
  BY <1>1, TwoPeers DEF Types
<1>3. n \in 1 .. Len(machine[p]) /\ Len(machine[p]) \in Nat
  BY <1>2 DEF Machines
<1>4. session[S] > 0
  <2>1. machine[p] # << >>
    BY <1>3
  <2> QED BY <1>2, <2>1 DEF NothingFed
<1>5. ring[p].delta \in Nat
  BY <1>2, <1>4, PlayedNat
<1>6. Agree(machine[p], recorded[S], recorded[C], ring[p].delta)
  BY <1>1, <1>4 DEF AgreeInv
<1>7. n - ring[p].delta + 1 < 1 \/ n - ring[p].delta + 1 >= 1
  BY <1>3, <1>5
<1> QED BY <1>3, <1>5, <1>6, <1>7 DEF Agree

\* Every behaviour of the two sides keeps the invariants: the rings hold the
\* lists of the latest frames, what is on its way are the lists of the frames
\* that were not played yet, and the machines agree.
THEOREM NetInvHolds == Spec => [](NetInv /\ NothingFed)
<1>1. Init => NetInv /\ NothingFed
  BY InitNetInv DEF Init, Both, NothingFed
<1>2. NetInv /\ NothingFed /\ [Next]_vars => (NetInv /\ NothingFed)'
  BY StepKeepsNetInv, StepKeepsNothingFed
<1> QED BY <1>1, <1>2, PTL DEF Spec

\* In every frame of a session both sides feed their machines exactly what the
\* server and then the client recorded frame_delta - 1 frames before, whatever
\* was suspended, lost or reconnected meanwhile (network_hook_connected_receive
\* and network_prepare_next_frame).
THEOREM SameInputs == Spec => []Lockstep
BY NetInvHolds, NetInvLockstep, PTL

\* The registers that network_hook_connected_receive compares belong to the same
\* frame of the same session and agree: "Network out of sync" is never reported.
THEOREM NeverFalseAlarm == Spec => []NoFalseAlarm
<1>1. NetInv /\ NothingFed => NoFalseAlarm
  BY DEF NetInv, NoFalseAlarm
<1> QED BY <1>1, NetInvHolds, PTL
==============================================================================
