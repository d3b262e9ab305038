----------------------------- MODULE ServiceProofs -----------------------------
(***************************************************************************)
(* The registry hands every session over once, and teardown leaves nothing *)
(* that writes, for any number of sessions, calls, shutdowns and crashes   *)
(* and any size of the registry.                                           *)
(***************************************************************************)
EXTENDS Service, FiniteSetTheorems, SequenceTheorems, TLAPS

Open == ToSet(map)

\* The registry is a Map: no session is in it twice.
Distinct == \A i, j \in DOMAIN map : map[i] = map[j] => i = j

Types == TypeOK /\ Distinct

\* What the histories and the registry say of each other.
Known == /\ quiet \subseteq Open /\ Open \subseteq opened /\ closing \subseteq opened /\ late \cup lost \subseteq opened
         /\ \A s \in Sessions \ opened : hooks[s] = 0

\* What the shutdown still owes: what it has not listed came after the list.
Owed == /\ phase = "closing" => Open \subseteq ToSet(toClose) \cup late
        /\ phase \in {"cleared", "narratives", "access", "down"} => Open \subseteq late
        /\ phase = "killed" => Open = {}

Registry == Known /\ Owed /\ SessionsEndOnce

\* Every call that runs is drained, or the drain gave up.
Calm == \A c \in Calls : ~Running(c)
Drains == /\ phase = "draining" => \A c \in Calls : Running(c) => c \in drained
          /\ phase \in {"closing", "cleared", "narratives", "access", "down"} => timedOut \/ Calm

\* No close reaches the chain once the registry is cleared, so what teardown waits for is
\* all there is.
Awaits == /\ phase \in {"cleared", "narratives", "access", "down"} => closing \cap Open = {}
          /\ phase = "narratives" => chain = awaited
          /\ phase \in {"access", "down"} => chain = 0
          /\ phase = "access" => timedOut \/ access = awaited
          /\ phase = "down" => timedOut \/ access = 0

IInv == Types /\ Registry /\ Drains /\ Awaits

LEMMA Initially == Init => IInv
<1> SUFFICES ASSUME Init PROVE IInv
  OBVIOUS
<1> USE ServiceAssumption DEF Init
<1>1. Open = {}
  BY DEF Open, ToSet
<1>2. Types
  <2>1. map \in Seq(Sessions) /\ Len(map) = 0 /\ toClose \in Seq(Sessions) /\ Distinct
    BY DEF Distinct
  <2>2. MaxSessions \in Nat /\ 0 \in 0..MaxDowns /\ 0 <= MaxSessions
    OBVIOUS
  <2>3. /\ working \in [Calls -> Sessions \cup {NoSession}]
        /\ served \in [Sessions -> {"none", "fresh", "old"}] /\ hooks \in [Sessions -> Nat]
    OBVIOUS
  <2>4. Len(map) <= MaxSessions /\ downs \in 0..MaxDowns
    BY <2>1, <2>2
  <2> QED
    BY <2>1, <2>3, <2>4 DEF Types, TypeOK, Phases
<1>3. Registry
  BY <1>1 DEF Registry, Known, Owed, SessionsEndOnce
<1>4. Drains /\ Awaits
  BY DEF Drains, Awaits
<1> QED
  BY <1>2, <1>3, <1>4 DEF IInv

-----------------------------------------------------------------------------
(* The registry's operations, by the sessions they leave in it.            *)

LEMMA Members ==
    ASSUME NEW q \in Seq(Sessions)
    PROVE  ToSet(q) = {q[i] : i \in 1..Len(q)} /\ ToSet(q) \subseteq Sessions
BY DEF ToSet

LEMMA WithoutDropsOne ==
    ASSUME map \in Seq(Sessions), Distinct, NEW s
    PROVE  /\ Without(s) \in Seq(Sessions)
           /\ ToSet(Without(s)) = Open \ {s}
           /\ \A i, j \in DOMAIN Without(s) : Without(s)[i] = Without(s)[j] => i = j
           /\ Len(Without(s)) = IF s \in Open THEN Len(map) - 1 ELSE Len(map)
<1>1. CASE s \notin Open
  <2>1. Without(s) = map
    BY <1>1 DEF Open, ToSet, Without
  <2> QED
    BY <1>1, <2>1 DEF Open, Distinct
<1>2. CASE s \in Open
  <2> DEFINE k == CHOOSE i \in DOMAIN map : map[i] = s
  <2>1. k \in 1..Len(map) /\ map[k] = s /\ Without(s) = RemoveAt(map, k)
    BY <1>2 DEF Open, ToSet, Without
  <2> HIDE DEF k
  <2> DEFINE w == RemoveAt(map, k)
  <2>2. /\ w \in Seq(Sessions) /\ Len(w) = Len(map) - 1
        /\ \A i \in 1..Len(w) : w[i] = IF i < k THEN map[i] ELSE map[i + 1]
    <3> DEFINE a == SubSeq(map, 1, k - 1)
               b == SubSeq(map, k + 1, Len(map))
    <3>1. /\ a \in Seq(Sessions) /\ Len(a) = k - 1
          /\ \A i \in 1..Len(a) : a[i] = map[i]
      BY <2>1
    <3>2. /\ b \in Seq(Sessions) /\ Len(b) = Len(map) - k
          /\ \A i \in 1..Len(b) : b[i] = map[k + i]
      BY <2>1
    <3>3. w = a \o b
      BY DEF RemoveAt
    <3> HIDE DEF a, b, w
    <3>4. /\ w \in Seq(Sessions) /\ Len(w) = Len(a) + Len(b)
          /\ \A i \in 1..Len(w) : w[i] = IF i <= Len(a) THEN a[i] ELSE b[i - Len(a)]
      <4>1. /\ a \o b \in Seq(Sessions) /\ Len(a \o b) = Len(a) + Len(b)
            /\ \A i \in 1..Len(a) + Len(b) :
                   (a \o b)[i] = IF i <= Len(a) THEN a[i] ELSE b[i - Len(a)]
        BY <3>1, <3>2, ConcatProperties
      <4> QED
        BY <3>3, <4>1
    <3>5. ASSUME NEW i \in 1..Len(w) PROVE w[i] = IF i < k THEN map[i] ELSE map[i + 1]
      <4>1. CASE i < k
        <5>1. i \in 1..Len(a)
          BY <2>1, <3>1, <4>1
        <5> QED
          BY <3>1, <3>4, <4>1, <5>1
      <4>2. CASE ~(i < k)
        <5>1. i - Len(a) \in 1..Len(b) /\ k + (i - Len(a)) = i + 1
          BY <2>1, <3>1, <3>2, <3>4, <4>2
        <5>2. ~(i <= Len(a)) /\ w[i] = b[i - Len(a)]
          BY <2>1, <3>1, <3>4, <4>2
        <5>3. b[i - Len(a)] = map[k + (i - Len(a))]
          BY <3>2, <5>1
        <5>4. w[i] = map[i + 1]
          BY <5>1, <5>2, <5>3
        <5> QED
          BY <4>2, <5>4
      <4> QED
        BY <4>1, <4>2
    <3> QED
      BY <2>1, <3>1, <3>2, <3>4, <3>5
  <2> HIDE DEF w
  <2> DEFINE from(i) == IF i < k THEN i ELSE i + 1
  <2>3. \A i \in 1..Len(w) : from(i) \in DOMAIN map /\ w[i] = map[from(i)]
    <3>1. Len(w) = Len(map) - 1 /\ Len(map) \in Nat /\ DOMAIN map = 1..Len(map)
      BY <2>2
    <3>2. ASSUME NEW i \in 1..Len(w) PROVE from(i) \in 1..Len(map)
      BY <2>1, <3>1
    <3>3. ASSUME NEW i \in 1..Len(w) PROVE w[i] = map[from(i)]
      BY <2>2
    <3> QED
      BY <3>1, <3>2, <3>3
  <2>4. \A i, j \in 1..Len(w) : from(i) = from(j) => i = j
    BY <2>1, <2>2
  <2> HIDE DEF from
  <2>5. \A i, j \in 1..Len(w) : w[i] = w[j] => i = j
    BY <2>3, <2>4 DEF Distinct
  <2>6. ASSUME NEW t \in Open, t # s PROVE \E i \in 1..Len(w) : w[i] = t
    <3>1. PICK i \in 1..Len(map) : map[i] = t
      BY <2>6 DEF Open, ToSet
    <3>2. CASE i < k
      <4>1. i \in 1..Len(w) /\ w[i] = t
        BY <2>1, <2>2, <3>1, <3>2
      <4> QED
        BY <4>1
    <3>3. CASE i > k
      <4>1. i - 1 \in 1..Len(w) /\ w[i - 1] = t
        BY <2>1, <2>2, <3>1, <3>3
      <4> QED
        BY <4>1
    <3> QED
      BY <2>1, <2>6, <3>1, <3>2, <3>3
  <2>7. ASSUME NEW i \in 1..Len(w) PROVE w[i] \in Open \ {s}
    <3>1. /\ i < k => i \in 1..Len(map) /\ i # k /\ w[i] = map[i]
          /\ ~(i < k) => i + 1 \in 1..Len(map) /\ i + 1 # k /\ w[i] = map[i + 1]
      BY <2>1, <2>2
    <3> QED
      BY <2>1, <3>1 DEF Open, ToSet, Distinct
  <2>8. ToSet(w) = Open \ {s}
    BY <2>2, <2>6, <2>7, Members
  <2>9. Without(s) = w /\ DOMAIN w = 1..Len(w)
    BY <2>1, <2>2 DEF w
  <2> QED
    BY <1>2, <2>2, <2>5, <2>8, <2>9
<1> QED
  BY <1>1, <1>2

LEMMA AppendAddsOne ==
    ASSUME NEW q \in Seq(Sessions), NEW s \in Sessions, s \notin ToSet(q),
           \A i, j \in DOMAIN q : q[i] = q[j] => i = j,
           map' = Append(q, s)
    PROVE  map' \in Seq(Sessions) /\ Open' = ToSet(q) \cup {s} /\ Distinct' /\ Len(map') = Len(q) + 1
<1>1. /\ map' \in Seq(Sessions) /\ Len(map') = Len(q) + 1
      /\ \A i \in 1..Len(q) : map'[i] = q[i]
      /\ map'[Len(q) + 1] = s
  OBVIOUS
<1>2. \A i \in 1..Len(map') : i \in 1..Len(q) \/ i = Len(q) + 1
  BY <1>1
<1>3. \A i \in 1..Len(q) : q[i] # s
  BY DEF ToSet
<1>4. Open' = ToSet(q) \cup {s}
  <2>1. Open' = {map'[i] : i \in 1..Len(map')}
    BY <1>1 DEF Open, ToSet
  <2>2. Len(q) + 1 \in 1..Len(map') /\ \A i \in 1..Len(q) : i \in 1..Len(map')
    BY <1>1
  <2> QED
    BY <1>1, <1>2, <2>1, <2>2, Members
<1>5. Distinct'
  BY <1>1, <1>2, <1>3 DEF Distinct
<1> QED
  BY <1>1, <1>4, <1>5

\* The end of a session, at most one at a time.
Hands(gone) ==
    /\ gone = {} \/ \E t \in Sessions : gone = {t}
    /\ chain' = IF gone = {} THEN chain ELSE chain + 1
    /\ hooks' = [t \in Sessions |-> IF t \in gone THEN hooks[t] + 1 ELSE hooks[t]]
    /\ served' = [t \in Sessions |-> IF t \in gone THEN "none" ELSE served[t]]

LEMMA EndedHands ==
    ASSUME TypeOK, NEW gone, gone = {} \/ \E t \in Sessions : gone = {t}, Ended(gone)
    PROVE  Hands(gone)
<1>1. Cardinality(gone) = IF gone = {} THEN 0 ELSE 1
  BY FS_EmptySet, FS_Singleton
<1> QED
  BY <1>1 DEF Ended, Hands, TypeOK

LEMMA ForgetEffect ==
    ASSUME Types, NEW s \in Sessions, forget(s)
    PROVE  /\ map' \in Seq(Sessions) /\ Distinct' /\ Len(map') <= Len(map)
           /\ Open' = Open \ {s} /\ quiet' = quiet \ {s}
           /\ Hands({s} \cap Open)
<1>1. map' = Without(s) /\ map \in Seq(Sessions) /\ Distinct
  BY DEF forget, Types, TypeOK
<1>2. /\ map' \in Seq(Sessions) /\ Distinct' /\ Len(map') <= Len(map) /\ Open' = Open \ {s}
  BY <1>1, WithoutDropsOne DEF Open, Distinct
<1>3. Hands({s} \cap Open)
  <2>1. {s} \cap Open = {} \/ {s} \cap Open = {s}
    OBVIOUS
  <2> QED
    BY <2>1, EndedHands DEF forget, Open, Types
<1> QED
  BY <1>2, <1>3 DEF forget

LEMMA TouchEffect ==
    ASSUME Types, NEW s \in Open, touch(s)
    PROVE  map' \in Seq(Sessions) /\ Distinct' /\ Len(map') = Len(map) /\ Open' = Open
<1>1. map \in Seq(Sessions) /\ Distinct /\ s \in Sessions /\ map' = Append(Without(s), s)
  BY Members DEF touch, Types, TypeOK, Open
<1>2. /\ Without(s) \in Seq(Sessions) /\ ToSet(Without(s)) = Open \ {s}
      /\ \A i, j \in DOMAIN Without(s) : Without(s)[i] = Without(s)[j] => i = j
      /\ Len(Without(s)) = Len(map) - 1
  BY <1>1, WithoutDropsOne
<1> HIDE DEF Without
<1>3. map' \in Seq(Sessions) /\ Open' = (Open \ {s}) \cup {s} /\ Distinct' /\ Len(map') = Len(map) - 1 + 1
  BY <1>1, <1>2, AppendAddsOne
<1> QED
  BY <1>1, <1>3

LEMMA OpenEffect ==
    ASSUME Types, ServiceAssumption, NEW s \in Sessions \ Open, open(s)
    PROVE  \E gone \in SUBSET Open :
               /\ map' \in Seq(Sessions) /\ Distinct' /\ Len(map') <= MaxSessions
               /\ Open' = (Open \ gone) \cup {s}
               /\ quiet' = quiet \ gone /\ closing' = closing \cup gone /\ Hands(gone)
<1>0. map \in Seq(Sessions) /\ Distinct /\ Len(map) <= MaxSessions /\ MaxSessions \in Nat \ {0}
  BY DEF Types, TypeOK, ServiceAssumption
<1> DEFINE kept(q, gone) == /\ q \in Seq(Sessions) /\ ToSet(q) = Open \ gone
                            /\ \A i, j \in DOMAIN q : q[i] = q[j] => i = j
                            /\ Len(q) < MaxSessions
<1>1. \E q, gone : /\ kept(q, gone) /\ gone \subseteq Open
                   /\ gone = {} \/ \E t \in Sessions : gone = {t}
                   /\ map' = Append(q, s) /\ quiet' = quiet \ gone
                   /\ closing' = closing \cup gone /\ Ended(gone)
  <2>1. CASE Len(map) = MaxSessions
    <3> DEFINE h == Head(map)
    <3>1. h = map[1] /\ 1 \in 1..Len(map) /\ h \in Sessions /\ h \in Open
      BY <1>0, <2>1 DEF Open, ToSet
    <3>2. /\ Tail(map) \in Seq(Sessions) /\ Len(Tail(map)) = Len(map) - 1
          /\ \A i \in 1..Len(Tail(map)) : Tail(map)[i] = map[i + 1]
      BY <1>0, <2>1
    <3>3. \A i, j \in 1..Len(Tail(map)) : Tail(map)[i] = Tail(map)[j] => i = j
      BY <1>0, <3>2 DEF Distinct
    <3>4. ToSet(Tail(map)) = Open \ {h}
      <4>1. ASSUME NEW i \in 1..Len(Tail(map)) PROVE Tail(map)[i] \in Open \ {h}
        <5>1. i + 1 \in 1..Len(map) /\ i + 1 # 1
          BY <1>0, <3>2
        <5> QED
          BY <1>0, <3>1, <3>2, <5>1 DEF Open, ToSet, Distinct
      <4>2. ASSUME NEW t \in Open \ {h} PROVE \E i \in 1..Len(Tail(map)) : Tail(map)[i] = t
        <5>1. PICK i \in 1..Len(map) : map[i] = t
          BY <1>0 DEF Open, ToSet
        <5>2. i # 1 /\ i - 1 \in 1..Len(Tail(map)) /\ Tail(map)[i - 1] = t
          BY <1>0, <3>1, <3>2, <5>1
        <5> QED
          BY <5>2
      <4>3. ToSet(Tail(map)) = {Tail(map)[i] : i \in 1..Len(Tail(map))}
        BY <3>2, Members
      <4> QED
        BY <4>1, <4>2, <4>3
    <3>5. kept(Tail(map), {h})
      BY <1>0, <2>1, <3>2, <3>3, <3>4
    <3>6. /\ map' = Append(Tail(map), s) /\ quiet' = quiet \ {h}
          /\ closing' = closing \cup {h} /\ Ended({h})
      BY <2>1 DEF open
    <3> HIDE DEF kept, h
    <3> QED
      BY <3>1, <3>5, <3>6
  <2>2. CASE Len(map) # MaxSessions
    <3>1. kept(map, {})
      BY <1>0, <2>2 DEF Open, Distinct
    <3>2. /\ map' = Append(map, s) /\ quiet' = quiet \ {}
          /\ closing' = closing \cup {} /\ Ended({})
      BY <2>2 DEF open
    <3> HIDE DEF kept
    <3> QED
      BY <3>1, <3>2
  <2> QED
    BY <2>1, <2>2
<1>2. PICK q, gone : /\ kept(q, gone) /\ gone \subseteq Open
                     /\ gone = {} \/ \E t \in Sessions : gone = {t}
                     /\ map' = Append(q, s) /\ quiet' = quiet \ gone
                     /\ closing' = closing \cup gone /\ Ended(gone)
  BY <1>1
<1>3. /\ map' \in Seq(Sessions) /\ Open' = (Open \ gone) \cup {s} /\ Distinct'
      /\ Len(map') = Len(q) + 1
  <2>1. s \notin ToSet(q)
    BY <1>2
  <2> QED
    BY <1>2, <2>1, AppendAddsOne
<1>4. Hands(gone)
  BY <1>2, EndedHands DEF Types
<1>5. Len(map') <= MaxSessions
  BY <1>0, <1>2, <1>3
<1> HIDE DEF kept
<1> QED
  BY <1>2, <1>3, <1>4, <1>5

-----------------------------------------------------------------------------
(* Types.                                                                  *)

LEMMA HandsTypes ==
    ASSUME TypeOK, NEW gone, Hands(gone)
    PROVE  /\ chain' \in Nat /\ hooks' \in [Sessions -> Nat]
           /\ served' \in [Sessions -> {"none", "fresh", "old"}]
BY DEF Hands, TypeOK

LEMMA RegistryTypes ==
    ASSUME Types, Known, ServiceAssumption,
           \E s \in Sessions : \/ Initialize(s) \/ Delete(s) \/ OnClose(s)
                               \/ \E c \in Calls : CallTool(c, s)
    PROVE  Types'
<1> USE DEF registry, tasks, teardown, history, Types
<1>0. MaxSessions \in Nat /\ Len(map) \in Nat /\ Len(map) <= MaxSessions /\ Open \subseteq Sessions
  BY Members DEF TypeOK, ServiceAssumption, Open
<1>1. ASSUME NEW s \in Sessions, Initialize(s) PROVE Types'
  <2>1. s \notin Open /\ open(s)
    BY <1>1 DEF Initialize, Known
  <2>2. PICK gone \in SUBSET Open :
            /\ map' \in Seq(Sessions) /\ Distinct' /\ Len(map') <= MaxSessions
            /\ quiet' = quiet \ gone /\ closing' = closing \cup gone /\ Hands(gone)
    BY <2>1, OpenEffect
  <2>3. /\ opened' \subseteq Sessions /\ late' \subseteq Sessions
        /\ UNCHANGED <<working, answered, access, phase, teardown, lost, downs>>
    BY <1>1 DEF Initialize, TypeOK
  <2> QED
    BY <1>0, <2>2, <2>3, HandsTypes DEF TypeOK
<1>2. ASSUME NEW s \in Sessions, Delete(s) \/ OnClose(s) PROVE Types'
  <2>1. forget(s)
    BY <1>2 DEF Delete, OnClose
  <2>2. /\ map' \in Seq(Sessions) /\ Distinct' /\ Len(map') <= Len(map) /\ quiet' \subseteq quiet
        /\ Hands({s} \cap Open)
    BY <2>1, ForgetEffect
  <2>3. Len(map') <= MaxSessions
    BY <1>0, <2>2
  <2>4. /\ closing' \subseteq Sessions
        /\ UNCHANGED <<working, answered, access, phase, teardown, history>>
    BY <1>2 DEF Delete, OnClose, TypeOK
  <2> QED
    BY <2>2, <2>3, <2>4, HandsTypes DEF TypeOK
<1>3. ASSUME NEW s \in Sessions, NEW c \in Calls, CallTool(c, s) PROVE Types'
  <2>1. s \in Open /\ touch(s)
    BY <1>3 DEF CallTool, Open
  <2>2. map' \in Seq(Sessions) /\ Distinct' /\ Len(map') = Len(map) /\ quiet' = quiet \ {s}
    BY <2>1, TouchEffect DEF touch
  <2>3. /\ working' \in [Calls -> Sessions \cup {NoSession}] /\ answered' \subseteq Calls
        /\ UNCHANGED <<closing, served, tasks, phase, teardown, hooks, history>>
    BY <1>3 DEF CallTool, TypeOK
  <2> QED
    BY <2>2, <2>3 DEF TypeOK
<1> QED
  BY <1>1, <1>2, <1>3

LEMMA QuietTypes ==
    ASSUME Types, ServiceAssumption,
           \/ \E s \in Sessions : GoesQuiet(s) \/ RowsAge(s)
           \/ \E c \in Calls : CallEnds(c)
           \/ SweepIdle \/ RunClose \/ WriteAccess \/ Stop
    PROVE  Types'
<1> USE DEF registry, tasks, teardown, history, Types
<1>0. UNCHANGED map => Distinct'
  BY DEF Distinct
<1>1. ASSUME NEW s \in Sessions, GoesQuiet(s) \/ RowsAge(s) PROVE Types'
  BY <1>0, <1>1 DEF GoesQuiet, RowsAge, TypeOK
<1>2. ASSUME NEW c \in Calls, CallEnds(c) PROVE Types'
  <2>1. working[c] \in Sessions
    BY <1>2 DEF CallEnds, Running, TypeOK
  <2>2. /\ working' \in [Calls -> Sessions \cup {NoSession}] /\ answered' \subseteq Calls
        /\ UNCHANGED <<registry, chain, phase, teardown, hooks, history>>
    BY <1>2 DEF CallEnds, TypeOK
  <2>3. served' \in [Sessions -> {"none", "fresh", "old"}] /\ access' \in Nat
    <3>1. \/ served' = served /\ access' = access
          \/ served' = [served EXCEPT ![working[c]] = "fresh"] /\ access' = access + 1
      BY <1>2 DEF CallEnds
    <3>2. served \in [Sessions -> {"none", "fresh", "old"}] /\ access \in Nat
      BY DEF TypeOK
    <3> QED
      BY <2>1, <3>1, <3>2
  <2> QED
    BY <1>0, <2>2, <2>3 DEF TypeOK
<1>3. CASE SweepIdle
  BY <1>0, <1>3 DEF SweepIdle, TypeOK
<1>4. CASE RunClose \/ WriteAccess
  <2>1. chain' \in Nat /\ access' \in Nat /\ awaited' \in Nat
    BY <1>4 DEF RunClose, WriteAccess, TypeOK
  <2> QED
    BY <1>0, <1>4, <2>1 DEF RunClose, WriteAccess, TypeOK
<1>5. CASE Stop
  <2>1. downs' \in 0..MaxDowns
    BY <1>5 DEF Stop, TypeOK, ServiceAssumption
  <2> QED
    BY <1>0, <1>5, <2>1 DEF Stop, TypeOK, Phases
<1> QED
  BY <1>1, <1>2, <1>3, <1>4, <1>5

LEMMA TeardownTypes ==
    ASSUME Types, ServiceAssumption, Teardown \/ Crash \/ Boot
    PROVE  Types'
<1> USE DEF registry, tasks, teardown, history, Types
<1>0. UNCHANGED map => Distinct'
  BY DEF Distinct
<1>1. map' = <<>> => map' \in Seq(Sessions) /\ Len(map') <= MaxSessions /\ Distinct'
  BY DEF Distinct, ServiceAssumption
<1>2. CASE BeginDrain \/ EndDrain
  BY <1>0, <1>2 DEF BeginDrain, EndDrain, TypeOK, Phases
<1>3. CASE CloseNext
  <2>1. Head(toClose) \in Sessions /\ Tail(toClose) \in Seq(Sessions)
    BY <1>3 DEF CloseNext, TypeOK
  <2>2. /\ map' \in Seq(Sessions) /\ Distinct' /\ Len(map') <= Len(map) /\ quiet' \subseteq quiet
        /\ Hands({Head(toClose)} \cap Open)
    BY <1>3, <2>1, ForgetEffect DEF CloseNext
  <2>3. Len(map') <= MaxSessions
    <3>1. Len(map) \in Nat /\ Len(map') \in Nat /\ MaxSessions \in Nat /\ Len(map) <= MaxSessions
      BY <2>2 DEF TypeOK, ServiceAssumption
    <3> QED
      BY <2>2, <3>1
  <2> QED
    BY <1>3, <2>1, <2>2, <2>3, HandsTypes DEF CloseNext, TypeOK
<1>4. CASE Clear
  BY <1>1, <1>4 DEF Clear, TypeOK, Phases
<1>5. CASE Unlisten \/ NarrativesIdle \/ Down
  BY <1>0, <1>5 DEF Unlisten, NarrativesIdle, Down, AwaitChain, TypeOK, Phases
<1>6. ASSUME NEW next \in {"killed", "up"}, Dies(next),
             downs' \in 0..MaxDowns, lost' \subseteq Sessions
      PROVE  Types'
  <2>1. toClose' \in Seq(Sessions)
    BY <1>6 DEF Dies
  <2>2. /\ working' \in [Calls -> Sessions \cup {NoSession}] /\ answered' \subseteq Calls
    BY <1>6 DEF Dies, TypeOK
  <2> QED
    BY <1>1, <1>6, <2>1, <2>2 DEF Dies, TypeOK, Phases
<1>7. CASE Crash
  <2>1. downs' \in 0..MaxDowns
    BY <1>7 DEF Crash, TypeOK, ServiceAssumption
  <2>2. lost' \subseteq Sessions
    BY <1>7, Members DEF Crash, TypeOK
  <2> QED
    BY <1>6, <1>7, <2>1, <2>2 DEF Crash
<1>8. CASE Boot
  BY <1>6, <1>8 DEF Boot, TypeOK
<1> QED
  BY <1>2, <1>3, <1>4, <1>5, <1>7, <1>8 DEF Teardown

LEMMA TypesStep == ASSUME Types, Known, ServiceAssumption, [Next]_vars PROVE Types'
<1>1. UNCHANGED vars => Types'
  BY DEF vars, registry, tasks, teardown, history, Types, TypeOK, Distinct
<1> QED
  BY <1>1, RegistryTypes, QuietTypes, TeardownTypes DEF Next

-----------------------------------------------------------------------------
(* Every session is handed over once.                                      *)

\* Nobody leaves, and nothing is listed that was not.
LEMMA RegistryKept ==
    ASSUME Types, Registry, UNCHANGED <<hooks, opened, late, lost>>, Open' = Open,
           closing' \subseteq opened, quiet' \subseteq Open,
           /\ phase' = "closing" =>
                  (phase = "closing" /\ toClose' = toClose) \/ ToSet(toClose') = Open
           /\ phase' \in {"cleared", "narratives", "access", "down"} =>
                  phase \in {"cleared", "narratives", "access", "down"}
           /\ phase' = "killed" => phase = "killed"
    PROVE  Registry'
<1>1. Known'
  BY DEF Registry, Known
<1>2. Owed'
  BY DEF Registry, Owed
<1>3. SessionsEndOnce'
  BY DEF Registry, SessionsEndOnce, Open
<1> QED
  BY <1>1, <1>2, <1>3 DEF Registry

\* A session of the registry leaves it by the hook.
LEMMA RegistryForgets ==
    ASSUME Types, Registry, NEW s \in Sessions, forget(s),
           UNCHANGED <<opened, late, lost, phase>>, closing' \subseteq opened,
           phase = "closing" => ToSet(toClose) \subseteq ToSet(toClose') \cup {s}
    PROVE  Registry'
<1>1. Open' = Open \ {s} /\ quiet' = quiet \ {s} /\ Hands({s} \cap Open)
  BY ForgetEffect
<1>2. \A t \in Sessions : hooks'[t] = IF t = s /\ s \in Open THEN hooks[t] + 1 ELSE hooks[t]
  BY <1>1 DEF Hands
<1>3. opened \subseteq Sessions
  BY DEF Types, TypeOK
<1>4. Known'
  BY <1>1, <1>2 DEF Registry, Known
<1>5. Owed'
  BY <1>1 DEF Registry, Owed
<1>6. SessionsEndOnce'
  <2> SUFFICES ASSUME NEW t \in opened
               PROVE  \/ hooks'[t] = IF t \in Open' THEN 0 ELSE 1
                      \/ t \in late \cup lost /\ hooks'[t] = 0
    BY DEF SessionsEndOnce, Open
  <2>1. \/ hooks[t] = IF t \in Open THEN 0 ELSE 1
        \/ t \in late \cup lost /\ hooks[t] = 0
    BY DEF Registry, SessionsEndOnce, Open
  <2>2. CASE t = s /\ s \in Open
    <3>1. hooks[t] = 0
      BY <2>1, <2>2
    <3> QED
      BY <1>1, <1>2, <1>3, <2>2, <3>1
  <2>3. CASE ~(t = s /\ s \in Open)
    BY <1>1, <1>2, <1>3, <2>1, <2>3
  <2> QED
    BY <2>2, <2>3
<1> QED
  BY <1>4, <1>5, <1>6 DEF Registry

LEMMA RegistryOpens ==
    ASSUME Types, Registry, ServiceAssumption, NEW s \in Sessions, Initialize(s)
    PROVE  Registry'
<1> USE DEF teardown
<1>1. /\ s \notin opened /\ s \notin Open /\ open(s) /\ opened' = opened \cup {s}
      /\ phase \in {"up", "maintenance", "draining", "closing", "cleared"}
      /\ late' = IF phase \in {"closing", "cleared"} THEN late \cup {s} ELSE late
      /\ UNCHANGED <<phase, toClose, lost>>
  BY DEF Initialize, Registry, Known, Listening
<1>2. PICK gone \in SUBSET Open :
          /\ Open' = (Open \ gone) \cup {s} /\ quiet' = quiet \ gone
          /\ closing' = closing \cup gone /\ Hands(gone)
  BY <1>1, OpenEffect
<1>3. \A t \in Sessions : hooks'[t] = IF t \in gone THEN hooks[t] + 1 ELSE hooks[t]
  BY <1>2 DEF Hands
<1>4. opened \subseteq Sessions /\ hooks[s] = 0 /\ hooks'[s] = 0
  BY <1>1, <1>2, <1>3 DEF Types, TypeOK, Registry, Known
<1>5. Known'
  BY <1>1, <1>2, <1>3 DEF Registry, Known
<1>6. Owed'
  BY <1>1, <1>2 DEF Registry, Owed
<1>7. SessionsEndOnce'
  <2> SUFFICES ASSUME NEW t \in opened'
               PROVE  \/ hooks'[t] = IF t \in Open' THEN 0 ELSE 1
                      \/ t \in late' \cup lost' /\ hooks'[t] = 0
    BY DEF SessionsEndOnce, Open
  <2>1. CASE t = s
    BY <1>2, <1>4, <2>1
  <2>2. CASE t \in opened
    <3>1. \/ hooks[t] = IF t \in Open THEN 0 ELSE 1
          \/ t \in late \cup lost /\ hooks[t] = 0
      BY <2>2 DEF Registry, SessionsEndOnce, Open
    <3>2. t # s /\ t \in Sessions /\ late \subseteq late' /\ lost' = lost
      BY <1>1, <1>4, <2>2
    <3>3. CASE t \in gone
      <4>1. t \in Open /\ t \notin Open' /\ hooks[t] = 0
        BY <1>2, <3>1, <3>2, <3>3
      <4> QED
        BY <1>3, <3>2, <3>3, <4>1
    <3>4. CASE t \notin gone
      BY <1>2, <1>3, <3>1, <3>2, <3>4
    <3> QED
      BY <3>3, <3>4
  <2> QED
    BY <1>1, <2>1, <2>2
<1> QED
  BY <1>5, <1>6, <1>7 DEF Registry

\* The registry is dropped: whoever was in it came late, or goes with the process.
LEMMA RegistryDropped ==
    ASSUME Types, Registry, map' = <<>>, quiet' = {}, UNCHANGED <<hooks, opened, late>>,
           closing' \subseteq opened, lost \subseteq lost', lost' \subseteq lost \cup Open,
           Open \subseteq late \cup lost'
    PROVE  Registry'
<1>1. Open' = {}
  BY DEF Open, ToSet
<1>2. Known' /\ Owed'
  BY <1>1 DEF Registry, Known, Owed
<1>3. SessionsEndOnce'
  <2> SUFFICES ASSUME NEW t \in opened
               PROVE  hooks[t] = 1 \/ (t \in late \cup lost' /\ hooks[t] = 0)
    BY <1>1 DEF SessionsEndOnce, Open
  <2>1. \/ hooks[t] = IF t \in Open THEN 0 ELSE 1
        \/ t \in late \cup lost /\ hooks[t] = 0
    BY DEF Registry, SessionsEndOnce, Open
  <2> QED
    BY <2>1
<1> QED
  BY <1>2, <1>3 DEF Registry

LEMMA RegistryStep ==
    ASSUME Types, Registry, ServiceAssumption, [Next]_vars
    PROVE  Registry'
<1> USE DEF registry, tasks, teardown, history
<1>0. closing \subseteq opened /\ quiet \subseteq Open /\ Open \subseteq opened
  BY DEF Registry, Known
<1>1. ASSUME NEW s \in Sessions, Delete(s) \/ OnClose(s) PROVE Registry'
  <2>1. /\ forget(s) /\ UNCHANGED <<opened, late, lost, phase, toClose>>
        /\ closing' \subseteq opened
    BY <1>0, <1>1 DEF Delete, OnClose, Open
  <2> QED
    BY <2>1, RegistryForgets
<1>2. ASSUME NEW c \in Calls, NEW s \in Sessions, CallTool(c, s) PROVE Registry'
  <2>1. s \in Open /\ touch(s) /\ UNCHANGED <<closing, phase, teardown, hooks, history>>
    BY <1>2 DEF CallTool, Open
  <2>2. Open' = Open /\ quiet' \subseteq Open
    BY <1>0, <2>1, TouchEffect DEF touch
  <2> QED
    BY <1>0, <2>1, <2>2, RegistryKept
<1>3. ASSUME UNCHANGED <<map, phase, toClose, hooks, opened, late, lost>>,
             closing' \subseteq opened, quiet' \subseteq Open
      PROVE  Registry'
  <2>1. Open' = Open
    BY <1>3 DEF Open
  <2> QED
    BY <1>3, <2>1, RegistryKept
<1>4. CASE \/ \E c \in Calls : CallEnds(c)
           \/ \E s \in Sessions : RowsAge(s)
           \/ RunClose \/ WriteAccess \/ UNCHANGED vars
  BY <1>0, <1>3, <1>4 DEF RowsAge, CallEnds, RunClose, WriteAccess, vars
<1>5. CASE SweepIdle \/ \E s \in Sessions : GoesQuiet(s)
  BY <1>0, <1>3, <1>5 DEF SweepIdle, GoesQuiet, Open
<1>6. CASE Stop \/ BeginDrain \/ EndDrain \/ Unlisten \/ NarrativesIdle \/ Down
  <2>1. /\ UNCHANGED <<map, closing, quiet, hooks, opened, late, lost>>
        /\ Open' = Open
    BY <1>6 DEF Stop, BeginDrain, EndDrain, Unlisten, NarrativesIdle, Down, Open
  <2>2. /\ phase' = "closing" => ToSet(toClose') = Open
        /\ phase' \in {"cleared", "narratives", "access", "down"} =>
               phase \in {"cleared", "narratives", "access", "down"}
        /\ phase' # "killed"
    BY <1>6 DEF Stop, BeginDrain, EndDrain, Unlisten, NarrativesIdle, Down, Open
  <2> QED
    BY <1>0, <2>1, <2>2, RegistryKept
<1>7. CASE CloseNext
  <2> DEFINE h == Head(toClose)
  <2>1. /\ toClose \in Seq(Sessions) /\ toClose # <<>> /\ toClose' = Tail(toClose)
        /\ forget(h) /\ closing' = closing \ {h} /\ UNCHANGED <<opened, late, lost, phase>>
    BY <1>7 DEF CloseNext, Types, TypeOK
  <2>2. h \in Sessions /\ ToSet(toClose) \subseteq ToSet(toClose') \cup {h}
    <3>1. /\ h = toClose[1] /\ h \in Sessions /\ toClose' \in Seq(Sessions)
          /\ Len(toClose') = Len(toClose) - 1
          /\ \A i \in 1..Len(toClose') : toClose'[i] = toClose[i + 1]
      BY <2>1
    <3>2. ASSUME NEW t \in ToSet(toClose), t # h PROVE t \in ToSet(toClose')
      <4>1. PICK i \in 1..Len(toClose) : toClose[i] = t
        BY <2>1 DEF ToSet
      <4>2. i - 1 \in 1..Len(toClose') /\ toClose'[i - 1] = t
        BY <2>1, <3>1, <3>2, <4>1
      <4>3. ToSet(toClose') = {toClose'[k] : k \in 1..Len(toClose')}
        BY <3>1, Members
      <4> QED
        BY <4>2, <4>3
    <3> QED
      BY <3>1, <3>2
  <2> HIDE DEF h
  <2>3. closing' \subseteq opened
    BY <1>0, <2>1
  <2> QED
    BY <2>1, <2>2, <2>3, RegistryForgets
<1>8. CASE Clear
  <2>1. /\ map' = <<>> /\ quiet' = {} /\ closing' \subseteq opened
        /\ UNCHANGED <<hooks, opened, late, lost>>
        /\ phase = "closing" /\ toClose = <<>>
    BY <1>0, <1>8 DEF Clear
  <2>2. ToSet(toClose) = {}
    BY <2>1 DEF ToSet
  <2>3. Open \subseteq late
    BY <2>1, <2>2 DEF Registry, Owed
  <2> QED
    BY <2>1, <2>3, RegistryDropped
<1>9. CASE Crash
  <2>1. /\ map' = <<>> /\ quiet' = {} /\ closing' = {} /\ lost' = lost \cup Open
        /\ UNCHANGED <<hooks, opened, late>>
    BY <1>9 DEF Crash, Dies, Open
  <2> QED
    BY <2>1, RegistryDropped
<1>10. CASE Boot
  <2>1. /\ map' = <<>> /\ quiet' = {} /\ closing' = {} /\ UNCHANGED <<hooks, opened, late, lost>>
        /\ phase \in {"down", "killed"}
    BY <1>10 DEF Boot, Dies, Up
  <2>2. Open \subseteq late
    BY <2>1 DEF Registry, Owed
  <2> QED
    BY <2>1, <2>2, RegistryDropped
<1> QED
  BY <1>1, <1>2, <1>4, <1>5, <1>6, <1>7, <1>8, <1>9, <1>10, RegistryOpens DEF Next, Teardown

-----------------------------------------------------------------------------
(* Nothing writes once the store is closed.                                *)

LEMMA DrainsStep ==
    ASSUME Types, Drains, ServiceAssumption, [Next]_vars
    PROVE  Drains'
<1> USE DEF registry, tasks, teardown, history, Drains, Calm, Running
<1>1. ASSUME NEW c \in Calls, NEW s \in Sessions, CallTool(c, s) PROVE Drains'
  BY <1>1 DEF CallTool, Accepts, Stopping, Listening, Types, TypeOK
<1>2. ASSUME NEW c \in Calls, CallEnds(c) PROVE Drains'
  BY <1>2 DEF CallEnds, Types, TypeOK
<1>3. CASE BeginDrain \/ EndDrain
  BY <1>3 DEF BeginDrain, EndDrain, Types, TypeOK
<1>4. CASE Stop \/ Clear \/ Unlisten \/ NarrativesIdle \/ Down
  BY <1>4 DEF Stop, Clear, Unlisten, NarrativesIdle, Down
<1>5. CASE Crash \/ Boot
  BY <1>5 DEF Crash, Boot, Dies
<1>6. CASE UNCHANGED <<working, phase, drained, timedOut>>
  BY <1>6
<1>7. CASE \/ \E s \in Sessions : Initialize(s) \/ Delete(s) \/ OnClose(s) \/ GoesQuiet(s) \/ RowsAge(s)
           \/ SweepIdle \/ RunClose \/ WriteAccess \/ CloseNext \/ UNCHANGED vars
  BY <1>6, <1>7 DEF Initialize, Delete, OnClose, GoesQuiet, RowsAge, SweepIdle, RunClose,
                    WriteAccess, CloseNext, vars
<1> QED
  BY <1>1, <1>2, <1>3, <1>4, <1>5, <1>7 DEF Next, Teardown

LEMMA AwaitsStep ==
    ASSUME Types, Registry, Drains, Awaits, ServiceAssumption, [Next]_vars
    PROVE  Awaits'
<1> USE DEF registry, tasks, teardown, history
<1>0. closing \subseteq opened /\ Open \subseteq opened /\ access \in Nat /\ chain \in Nat /\ awaited \in Nat
  BY DEF Registry, Known, Types, TypeOK
<1>1. ASSUME NEW s \in Sessions, Initialize(s) PROVE Awaits'
  <2>1. /\ s \notin opened /\ open(s)
        /\ phase \in {"up", "maintenance", "draining", "closing", "cleared"} /\ phase' = phase
    BY <1>1 DEF Initialize, Listening
  <2>2. PICK gone \in SUBSET Open :
            /\ Open' = (Open \ gone) \cup {s} /\ closing' = closing \cup gone
    BY <1>0, <2>1, OpenEffect
  <2> QED
    BY <1>0, <2>1, <2>2 DEF Awaits
<1>2. ASSUME NEW s \in Sessions, NEW c \in Calls, CallTool(c, s) PROVE Awaits'
  <2>1. /\ s \in Open /\ touch(s) /\ UNCHANGED <<closing, chain, access, phase, awaited, timedOut>>
    BY <1>2 DEF CallTool, Open
  <2>2. Open' = Open
    BY <2>1, TouchEffect
  <2> QED
    BY <2>1, <2>2 DEF Awaits
<1>3. ASSUME NEW s \in Sessions, Delete(s) PROVE Awaits'
  <2>1. /\ forget(s) /\ closing' = closing \cup {s}
        /\ phase \in {"up", "maintenance", "draining", "closing", "cleared"} /\ phase' = phase
    BY <1>3 DEF Delete, Listening
  <2>2. Open' = Open \ {s}
    BY <2>1, ForgetEffect
  <2> QED
    BY <2>1, <2>2 DEF Awaits
<1>4. ASSUME NEW s \in Sessions, OnClose(s) PROVE Awaits'
  <2>1. /\ forget(s) /\ s \in closing /\ closing' = closing \ {s}
        /\ UNCHANGED <<access, phase, awaited, timedOut>>
    BY <1>4 DEF OnClose
  <2>2. Open' = Open \ {s} /\ chain' = IF {s} \cap Open = {} THEN chain ELSE chain + 1
    BY <2>1, ForgetEffect DEF Hands
  <2>3. phase \in {"cleared", "narratives", "access", "down"} => {s} \cap Open = {}
    BY <2>1 DEF Awaits
  <2> QED
    BY <2>1, <2>2, <2>3 DEF Awaits
<1>5. CASE CloseNext
  <2>1. Head(toClose) \in Sessions
    BY <1>5 DEF CloseNext, Types, TypeOK
  <2> QED
    BY <1>5 DEF CloseNext, Awaits
<1>6. ASSUME NEW c \in Calls, CallEnds(c) PROVE Awaits'
  <2>1. UNCHANGED <<Open, closing, chain, phase, awaited, timedOut>> /\ Running(c)
    BY <1>6 DEF CallEnds, Open
  <2>2. access' = access \/ phase \notin {"down", "killed"}
    BY <1>6 DEF CallEnds, Up
  <2>3. phase = "access" => timedOut
    BY <2>1 DEF Drains, Calm
  <2> QED
    BY <2>1, <2>2, <2>3 DEF Awaits
<1>7. CASE RunClose \/ WriteAccess
  <2>1. UNCHANGED <<Open, closing, phase, timedOut>> /\ phase # "down"
    BY <1>7 DEF RunClose, WriteAccess, Open, Up
  <2>2. CASE RunClose
    BY <1>0, <2>1, <2>2 DEF RunClose, Awaits
  <2>3. CASE WriteAccess
    BY <1>0, <2>1, <2>3 DEF WriteAccess, Awaits
  <2> QED
    BY <1>7, <2>2, <2>3
<1>8. CASE SweepIdle \/ Stop \/ BeginDrain \/ EndDrain
  <2>1. phase' \in {"up", "maintenance", "draining", "closing"}
    BY <1>8 DEF SweepIdle, Stop, BeginDrain, EndDrain
  <2> QED
    BY <2>1 DEF Awaits
<1>9. CASE Clear
  <2>1. phase' = "cleared" /\ map' = <<>>
    BY <1>9 DEF Clear
  <2> QED
    BY <2>1 DEF Awaits, Open, ToSet
<1>10. CASE Unlisten \/ NarrativesIdle \/ Down
  <2>1. UNCHANGED <<Open, closing, chain, access, timedOut>>
    BY <1>10 DEF Unlisten, NarrativesIdle, Down, Open
  <2> QED
    BY <1>0, <1>10, <2>1 DEF Unlisten, NarrativesIdle, Down, AwaitChain, Awaits
<1>11. CASE Crash \/ Boot
  BY <1>11 DEF Crash, Boot, Dies, Awaits
<1>12. CASE (\E s \in Sessions : GoesQuiet(s) \/ RowsAge(s)) \/ UNCHANGED vars
  <2>1. UNCHANGED <<Open, closing, chain, access, phase, awaited, timedOut>>
    BY <1>12 DEF GoesQuiet, RowsAge, vars, Open
  <2> QED
    BY <2>1 DEF Awaits
<1> QED
  BY <1>1, <1>2, <1>3, <1>4, <1>5, <1>6, <1>7, <1>8, <1>9, <1>10, <1>11, <1>12 DEF Next, Teardown

LEMMA Always == Spec => []IInv
<1>1. IInv /\ [Next]_vars => IInv'
  BY TypesStep, RegistryStep, DrainsStep, AwaitsStep, ServiceAssumption DEF IInv, Registry
<1> QED
  BY Initially, <1>1, PTL DEF Spec

(* SessionRegistry: types, and a map that never outgrows MAX_SESSIONS and   *)
(* never holds a session twice.                                            *)
THEOREM ServiceTypes == Spec => []TypeOK
<1>1. IInv => TypeOK
  BY DEF IInv, Types
<1> QED
  BY Always, <1>1, PTL

(* SessionRegistry.forget: the map decides who runs the hook, so DELETE,    *)
(* eviction, idle close, the shutdown's close and the onclose of each hand  *)
(* a session over once between them.                                       *)
THEOREM SessionsHandedOverOnce == Spec => []SessionsEndOnce
<1>1. IInv => SessionsEndOnce
  BY DEF IInv, Registry
<1> QED
  BY Always, <1>1, PTL

(* bootstrapService.teardown: its order leaves nothing that writes when the *)
(* driver and the store close, but for a call the drain gave up on.         *)
THEOREM StoreClosesLast == Spec => []NothingMeetsAClosedStore
<1>1. IInv => NothingMeetsAClosedStore
  BY DEF IInv, Drains, Calm, Awaits, NothingMeetsAClosedStore
<1> QED
  BY Always, <1>1, PTL
=============================================================================
