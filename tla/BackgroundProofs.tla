-------------------------- MODULE BackgroundProofs --------------------------
(***************************************************************************)
(* What holds of the three components that work behind the requests and    *)
(* share no state: the circuit breaker, for any number of overlapping      *)
(* callers; the maintenance loop, for any number of processes over one     *)
(* database, any catalog, any widths, any schedule of crashes and stops;   *)
(* and the narrators of one session, for any episodes and any overlap.     *)
(***************************************************************************)
EXTENDS CircuitBreaker, Introspector, Narratives, FiniteSetTheorems, WellFoundedInduction, TLAPS

-----------------------------------------------------------------------------
(* The circuit breaker. *)

BreakerStates == /\ openedAt \in {"null", "cooling", "cooled"} /\ halfOpen \in BOOLEAN
                 /\ consecutiveFailures \in Nat
                 /\ call \in [Callers -> {"none", "plain", "trial"}]
                 /\ cost \in [Callers -> Nat]

\* A caller that has paid is not in a trial, and cannot start one while calls pass half-open.
PaidOnce == \A c \in Callers :
              /\ cost[c] <= 1
              /\ cost[c] = 1 => call[c] # "trial" /\ (openedAt = "null" => ~halfOpen)

\* Only the calls under way can still overshoot the threshold, and nobody can start another.
InFlight == {c \in Callers : call[c] # "none"}
Ceiling  == FailureThreshold - 1 + Cardinality(Callers)
Overshoot == /\ consecutiveFailures <= Ceiling
             /\ ~halfOpen => consecutiveFailures + Cardinality(InFlight) <= Ceiling

BreakerInv == BreakerStates /\ BudgetLeft /\ PaidOnce

LEMMA BreakerStarts == BreakerInit => BreakerInv /\ Overshoot
<1> SUFFICES ASSUME BreakerInit PROVE BreakerInv /\ Overshoot
  OBVIOUS
<1> USE DEF BreakerInit, NoCost
<1>1. BreakerStates
  BY DEF BreakerStates
<1>2. BudgetLeft
  BY BreakerAssumption DEF BudgetLeft
<1>3. PaidOnce
  BY DEF PaidOnce
<1>4. Cardinality(Callers) \in Nat /\ Cardinality(InFlight) = 0
  <2>1. InFlight = {}
    BY DEF InFlight
  <2> QED BY <2>1, BreakerAssumption, FS_CardinalityType, FS_EmptySet
<1>5. Overshoot
  BY <1>4, BreakerAssumption DEF Overshoot, Ceiling
<1> QED
  BY <1>1, <1>2, <1>3, <1>5 DEF BreakerInv

LEMMA BreakerSteps == BreakerInv /\ [BreakerNext]_breaker => BreakerInv'
<1> SUFFICES ASSUME BreakerInv, [BreakerNext]_breaker PROVE BreakerInv'
  OBVIOUS
<1> USE BreakerAssumption DEF BreakerInv, BreakerStates, BudgetLeft, PaidOnce, NoCost
<1>1. CASE CooldownPasses
  BY <1>1 DEF CooldownPasses
<1>2. CASE UNCHANGED breaker
  BY <1>2 DEF breaker
<1>3. ASSUME NEW c \in Callers, StartsPlain(c) PROVE BreakerInv'
  BY <1>3 DEF StartsPlain
<1>4. ASSUME NEW c \in Callers, StartsTrial(c) PROVE BreakerInv'
  BY <1>4 DEF StartsTrial
<1>5. ASSUME NEW c \in Callers, Succeeds(c) PROVE BreakerInv'
  <2> USE <1>5 DEF Succeeds, Answers
  <2>1. BreakerStates'
    OBVIOUS
  <2>2. BudgetLeft'
    OBVIOUS
  <2>3. PaidOnce'
    OBVIOUS
  <2> QED
    BY <2>1, <2>2, <2>3
<1>6. ASSUME NEW c \in Callers, FailsHalfOpen(c) PROVE BreakerInv'
  BY <1>6 DEF FailsHalfOpen, Answers, Charge
<1>7. ASSUME NEW c \in Callers, FailsClosed(c) PROVE BreakerInv'
  BY <1>7 DEF FailsClosed, Opens, Answers, Charge
<1>8. ASSUME NEW c \in Callers, Aborts(c) PROVE BreakerInv'
  BY <1>8 DEF Aborts, Answers
<1> HIDE DEF BreakerInv, BreakerStates, BudgetLeft, PaidOnce, NoCost
<1> QED
  BY <1>1, <1>2, <1>3, <1>4, <1>5, <1>6, <1>7, <1>8 DEF BreakerNext

LEMMA InFlightIsCounted ==
  ASSUME call \in [Callers -> {"none", "plain", "trial"}]
  PROVE  /\ IsFiniteSet(InFlight) /\ Cardinality(InFlight) \in Nat /\ Cardinality(Callers) \in Nat
         /\ Cardinality(InFlight) <= Cardinality(Callers)
<1>1. InFlight \subseteq Callers
  BY DEF InFlight
<1> QED BY <1>1, BreakerAssumption, FS_Subset, FS_CardinalityType

LEMMA AnswerLeavesOneFewer ==
  ASSUME BreakerStates, NEW c \in Callers, Answers(c)
  PROVE  Cardinality(InFlight') = Cardinality(InFlight) - 1
<1>1. c \in InFlight /\ InFlight' = InFlight \ {c}
  BY DEF InFlight, Answers, BreakerStates
<1>2. IsFiniteSet(InFlight)
  BY InFlightIsCounted DEF BreakerStates
<1> QED BY <1>1, <1>2, FS_RemoveElement

LEMMA OvershootStep == BreakerInv /\ Overshoot /\ [BreakerNext]_breaker => Overshoot'
<1> SUFFICES ASSUME BreakerInv, Overshoot, [BreakerNext]_breaker PROVE Overshoot'
  OBVIOUS
<1>1. BreakerInv' /\ BreakerStates /\ BreakerStates'
  BY BreakerSteps DEF BreakerInv
<1>2. /\ Cardinality(InFlight) \in Nat /\ Cardinality(InFlight)' \in Nat
      /\ Cardinality(Callers) \in Nat /\ Cardinality(InFlight)' <= Cardinality(Callers)
  <2>1. Cardinality(InFlight) \in Nat /\ Cardinality(Callers) \in Nat
    BY <1>1, InFlightIsCounted DEF BreakerStates
  <2>2. Cardinality(InFlight)' \in Nat /\ Cardinality(InFlight)' <= Cardinality(Callers)
    <3>1. InFlight' \subseteq Callers
      BY DEF InFlight
    <3> QED BY <3>1, BreakerAssumption, FS_Subset, FS_CardinalityType
  <2> QED BY <2>1, <2>2
<1>3. /\ FailureThreshold \in Nat \ {0} /\ Ceiling \in Nat /\ Ceiling' = Ceiling
      /\ Ceiling = FailureThreshold - 1 + Cardinality(Callers)
      /\ consecutiveFailures \in Nat /\ halfOpen \in BOOLEAN
  BY <1>1, <1>2, BreakerAssumption DEF Ceiling, BreakerStates
<1> USE DEF Overshoot
<1>4. CASE CooldownPasses \/ UNCHANGED breaker
  <2>1. InFlight' = InFlight
    BY <1>4 DEF InFlight, CooldownPasses, breaker
  <2> QED BY <1>3, <1>4, <2>1 DEF CooldownPasses, breaker
<1>5. ASSUME NEW c \in Callers, StartsPlain(c) PROVE Overshoot'
  <2>1. ~halfOpen => consecutiveFailures <= FailureThreshold - 1
    BY <1>3, <1>5 DEF StartsPlain, BudgetLeft, BreakerInv
  <2> QED BY <1>2, <1>3, <1>5, <2>1 DEF StartsPlain
<1>6. ASSUME NEW c \in Callers, StartsTrial(c) PROVE Overshoot'
  BY <1>3, <1>6 DEF StartsTrial
<1>7. ASSUME NEW c \in Callers, Succeeds(c) PROVE Overshoot'
  BY <1>2, <1>3, <1>7 DEF Succeeds
<1>8. ASSUME NEW c \in Callers, FailsHalfOpen(c) PROVE Overshoot'
  BY <1>3, <1>8 DEF FailsHalfOpen
<1>9. ASSUME NEW c \in Callers, FailsClosed(c) PROVE Overshoot'
  <2>1. Cardinality(InFlight') = Cardinality(InFlight) - 1
    BY <1>1, <1>9, AnswerLeavesOneFewer DEF FailsClosed
  <2> QED BY <1>2, <1>3, <1>9, <2>1 DEF FailsClosed
<1>10. ASSUME NEW c \in Callers, Aborts(c) PROVE Overshoot'
  <2>1. Cardinality(InFlight') = Cardinality(InFlight) - 1
    BY <1>1, <1>10, AnswerLeavesOneFewer DEF Aborts
  <2> QED BY <1>2, <1>3, <1>10, <2>1 DEF Aborts
<1> QED BY <1>4, <1>5, <1>6, <1>7, <1>8, <1>9, <1>10 DEF BreakerNext

(* However many calls answer late, the count of failures stays within the   *)
(* threshold and one failure for each caller (run(), on closed breakers).   *)
THEOREM BreakerTypes == BreakerSpec => []BreakerTypeOK
<1>1. BreakerInv /\ Overshoot => BreakerTypeOK
  <2>1. Cardinality(Callers) \in Nat
    BY BreakerAssumption, FS_CardinalityType
  <2>2. ASSUME BreakerInv, Overshoot PROVE consecutiveFailures \in 0..(FailureThreshold - 1 + Cardinality(Callers))
    BY <2>1, <2>2, BreakerAssumption DEF BreakerInv, BreakerStates, Overshoot, Ceiling
  <2> QED BY <2>2 DEF BreakerInv, BreakerStates, BreakerTypeOK
<1> QED
  BY BreakerStarts, BreakerSteps, OvershootStep, <1>1, PTL DEF BreakerSpec

(* While calls pass a closed breaker its count is below the threshold,      *)
(* however late the answers to earlier calls arrive.                        *)
THEOREM BudgetIsNeverOverrun == BreakerSpec => []BudgetLeft
<1>1. BreakerInv => BudgetLeft
  BY DEF BreakerInv
<1> QED
  BY BreakerStarts, BreakerSteps, <1>1, PTL DEF BreakerSpec

(* Against a provider that stays down, each caller fails one call per       *)
(* cooldown: with n callers a cooldown costs n calls at the most.           *)
THEOREM CooldownCostsOneCallEach == BreakerSpec => []OneFailurePerCooldown
<1>1. BreakerInv => OneFailurePerCooldown
  BY DEF BreakerInv, PaidOnce, OneFailurePerCooldown
<1> QED
  BY BreakerStarts, BreakerSteps, <1>1, PTL DEF BreakerSpec

-----------------------------------------------------------------------------
(* The maintenance loop. *)

(* A window in which a run began has its key in the ledger, and only one run *)
(* began in it.                                                              *)
KeyBeforeRun == \A o \in Ops : begun[o] = 0 \/ (begun[o] = 1 /\ o \in claimed)

-----------------------------------------------------------------------------
(* Types, in two halves: what SQLite keeps, and where the processes stand. *)

Records == [runs : 0..Grace, balance : -MaxBalance..MaxBalance]

(* A scored record stays in its bounds. *)
LEMMA ScoresStayBounded ==
  ASSUME NEW r \in Records
  PROVE  Counted(r) \in Records /\ Better(r) \in Records /\ NoBetter(r) \in Records
<1> USE IntrospectorAssumption
<1>1. r.runs \in 0..Grace /\ r.balance \in -MaxBalance..MaxBalance
  BY DEF Records
<1>2. AtMost(r.runs + 1, Grace) \in 0..Grace
  BY <1>1 DEF AtMost
<1>3. /\ AtMost(r.balance + 1, MaxBalance) \in -MaxBalance..MaxBalance
      /\ AtLeast(r.balance - 1, -MaxBalance) \in -MaxBalance..MaxBalance
  BY <1>1 DEF AtMost, AtLeast
<1>4. Counted(r) = [runs |-> AtMost(r.runs + 1, Grace), balance |-> r.balance]
  BY DEF Counted, Records
<1>5. Better(r) = [runs |-> AtMost(r.runs + 1, Grace), balance |-> AtMost(r.balance + 1, MaxBalance)]
  BY <1>4 DEF Better
<1>6. NoBetter(r) = [runs |-> AtMost(r.runs + 1, Grace), balance |-> AtLeast(r.balance - 1, -MaxBalance)]
  BY <1>4 DEF NoBetter
<1> QED BY <1>1, <1>2, <1>3, <1>4, <1>5, <1>6 DEF Records

TablesTyped ==
  /\ waited \in [Ops -> 0..MaxWait]
  /\ record \in [Ops -> Records]
  /\ pending \subseteq Measured /\ claimed \subseteq Ops
  /\ begun \in [Ops -> Nat]

LoopTyped ==
  /\ at \in [Processes -> Places] /\ on \in [Processes -> SUBSET Ops]
  /\ \A p \in Processes : at[p] = "acting" => \E o \in Ops : on[p] = {o}
  /\ stopping \subseteq Processes /\ downs \in 0..MaxDowns

Idle == Places \ {"acting"}

LEMMA IdlePlaces == {"down", "waiting", "observing", "consulting"} \subseteq Idle /\ {} \in SUBSET Ops
  BY DEF Idle, Places

(* Leaving for a place where nothing runs keeps the loop typed, whatever    *)
(* becomes of the lists of stopping processes.                              *)
LEMMA IdlingKeepsTypes ==
  ASSUME LoopTyped, NEW p \in Processes, NEW place \in Idle, NEW ops \in SUBSET Ops,
         Go(p, place, ops), stopping' \subseteq Processes, downs' \in 0..MaxDowns
  PROVE  LoopTyped'
<1>1. at' \in [Processes -> Places] /\ on' \in [Processes -> SUBSET Ops]
  BY DEF LoopTyped, Go, Idle
<1>2. \A q \in Processes : at'[q] = "acting" => \E o \in Ops : on'[q] = {o}
  BY DEF LoopTyped, Go, Idle
<1> QED BY <1>1, <1>2 DEF LoopTyped

LEMMA WaitingKeepsTypes ==
  ASSUME LoopTyped, NEW p \in Processes, Go(p, "waiting", {}) \/ Go(p, "observing", {}), UNCHANGED life
  PROVE  LoopTyped'
<1>1. stopping' \subseteq Processes /\ downs' \in 0..MaxDowns
  BY DEF LoopTyped, life
<1> QED BY <1>1, IdlePlaces, IdlingKeepsTypes

(* Beginning a run does too.                                                *)
LEMMA ActingKeepsTypes ==
  ASSUME LoopTyped, NEW p \in Processes, NEW o \in Ops, Go(p, "acting", {o}), UNCHANGED life
  PROVE  LoopTyped'
<1>1. at' \in [Processes -> Places] /\ on' \in [Processes -> SUBSET Ops]
  BY DEF LoopTyped, Go, Places
<1>2. \A q \in Processes : at'[q] = "acting" => \E x \in Ops : on'[q] = {x}
  BY DEF LoopTyped, Go
<1> QED BY <1>1, <1>2 DEF LoopTyped, life

(* A decision begins an operation whose key is free, or none.               *)
LEMMA DecisionBeginsFree ==
  ASSUME NEW p \in Processes, NEW whole \in BOOLEAN, Observes(p, whole)
  PROVE  UNCHANGED <<claimed, begun>> \/ \E o \in Ops \ claimed : Begins(o)
<1>1. PICK critical \in SUBSET Responders, due \in SUBSET Ops, better \in SUBSET (Improves \cap pending) :
        Decides(p, whole, critical, due, better)
  BY DEF Observes
<1> DEFINE rec   == Scored(whole, better)
           fit   == {o \in Ops : Emergency(o, rec, critical, due) \/ Routine(o, rec, due)}
           free  == fit \ claimed
           first == {o \in free : \A q \in free \ {o} : Beats(o, q, rec, critical, due)}
<1>2. UNCHANGED <<claimed, begun>> \/ \E o \in first : Begins(o)
  BY <1>1 DEF Decides
<1>3. first \subseteq Ops \ claimed
  OBVIOUS
<1> HIDE DEF first
<1> QED BY <1>2, <1>3

LEMMA DecisionKeepsTypes ==
  ASSUME TablesTyped, LoopTyped, NEW p \in Processes, NEW whole \in BOOLEAN, Observes(p, whole)
  PROVE  TablesTyped' /\ LoopTyped'
<1> USE IntrospectorAssumption
<1>1. PICK critical \in SUBSET Responders, due \in SUBSET Ops, better \in SUBSET (Improves \cap pending) :
        Decides(p, whole, critical, due, better)
  BY DEF Observes
<1> DEFINE rec   == Scored(whole, better)
           fit   == {o \in Ops : Emergency(o, rec, critical, due) \/ Routine(o, rec, due)}
           free  == fit \ claimed
           first == {o \in free : \A q \in free \ {o} : Beats(o, q, rec, critical, due)}
           taken == IF first = {} THEN fit
                    ELSE first \cup {o \in fit : \A q \in first : Beats(o, q, rec, critical, due)}
<1>2. rec \in [Ops -> Records]
  BY ScoresStayBounded DEF Scored, TablesTyped
<1>3. /\ record' = rec
      /\ pending' = (IF whole THEN {} ELSE pending)
      /\ waited' = [o \in Ops |-> IF o \in taken THEN 0 ELSE waited[o]]
      /\ \/ \E o \in first : Begins(o) /\ Go(p, "acting", {o})
         \/ /\ first = {}
            /\ IF Tier3Acts /\ whole THEN Go(p, "consulting", due \ taken) ELSE Go(p, "waiting", {})
            /\ UNCHANGED <<claimed, begun>>
      /\ UNCHANGED life
  BY <1>1 DEF Decides
<1>4. first \subseteq Ops
  OBVIOUS
<1> HIDE DEF rec, first, taken
<1>5. /\ record' \in [Ops -> Records] /\ pending' \subseteq Measured
      /\ waited' \in [Ops -> 0..MaxWait]
  BY <1>2, <1>3 DEF TablesTyped
<1>6. CASE \E o \in first : Begins(o) /\ Go(p, "acting", {o})
  <2>1. PICK o \in first : Begins(o) /\ Go(p, "acting", {o})
    BY <1>6
  <2>2. o \in Ops
    BY <2>1, <1>4
  <2>3. claimed' \subseteq Ops /\ begun' \in [Ops -> Nat]
    BY <2>1, <2>2 DEF Begins, TablesTyped
  <2>4. LoopTyped'
    BY <1>3, <2>1, <2>2, ActingKeepsTypes
  <2> QED BY <1>5, <2>3, <2>4 DEF TablesTyped
<1>7. CASE /\ IF Tier3Acts /\ whole THEN Go(p, "consulting", due \ taken) ELSE Go(p, "waiting", {})
           /\ UNCHANGED <<claimed, begun>>
  <2>1. LoopTyped'
    <3>1. CASE Go(p, "waiting", {})
      BY <1>3, <3>1, WaitingKeepsTypes
    <3>2. CASE Go(p, "consulting", due \ taken)
      <4>1. PICK rest \in SUBSET Ops : rest = due \ taken
        OBVIOUS
      <4>2. Go(p, "consulting", rest)
        BY <3>2, <4>1
      <4>3. stopping' \subseteq Processes /\ downs' \in 0..MaxDowns
        BY <1>3 DEF LoopTyped, life
      <4> QED BY <4>2, <4>3, IdlePlaces, IdlingKeepsTypes
    <3> QED BY <1>7, <3>1, <3>2
  <2> QED BY <1>5, <1>7, <2>1 DEF TablesTyped
<1> QED BY <1>3, <1>6, <1>7

LEMMA TypesInductive ==
  ASSUME TablesTyped, LoopTyped, [Next]_vars
  PROVE  TablesTyped' /\ LoopTyped'
<1> USE IntrospectorAssumption
<1>1. CASE UNCHANGED vars
  BY <1>1 DEF TablesTyped, LoopTyped, vars, tables, life
<1>2. ASSUME NEW p \in Processes, Ticks(p) PROVE TablesTyped' /\ LoopTyped'
  <2>1. waited' \in [Ops -> 0..MaxWait]
    BY <1>2 DEF Ticks, TablesTyped, AtMost
  <2>2. LoopTyped'
    BY <1>2, WaitingKeepsTypes DEF Ticks, life
  <2> QED BY <1>2, <2>1, <2>2 DEF Ticks, TablesTyped
<1>3. ASSUME NEW p \in Processes, ObservationFails(p) \/ Starts(p) PROVE TablesTyped' /\ LoopTyped'
  <2>1. LoopTyped'
    BY <1>3, WaitingKeepsTypes DEF ObservationFails, Starts
  <2> QED BY <1>3, <2>1 DEF ObservationFails, Starts, TablesTyped, tables
<1>4. ASSUME NEW p \in Processes, Observes(p, TRUE) \/ Observes(p, FALSE) PROVE TablesTyped' /\ LoopTyped'
  BY <1>4, DecisionKeepsTypes
<1>5. ASSUME NEW p \in Processes, Consults(p) PROVE TablesTyped' /\ LoopTyped'
  <2>1. CASE Go(p, "waiting", {}) /\ UNCHANGED <<waited, claimed, begun>>
    <3>1. LoopTyped'
      BY <1>5, <2>1, WaitingKeepsTypes DEF Consults
    <3> QED BY <1>5, <2>1, <3>1 DEF Consults, TablesTyped
  <2>2. CASE \E o \in on[p] :
               /\ waited' = [waited EXCEPT ![o] = 0]
               /\ IF o \in claimed THEN Go(p, "waiting", {}) /\ UNCHANGED <<claimed, begun>>
                                   ELSE Begins(o) /\ Go(p, "acting", {o})
    <3>1. PICK o \in on[p] :
               /\ waited' = [waited EXCEPT ![o] = 0]
               /\ IF o \in claimed THEN Go(p, "waiting", {}) /\ UNCHANGED <<claimed, begun>>
                                   ELSE Begins(o) /\ Go(p, "acting", {o})
      BY <2>2
    <3>2. o \in Ops
      BY <3>1 DEF LoopTyped
    <3>3. waited' \in [Ops -> 0..MaxWait]
      BY <3>1, <3>2 DEF TablesTyped
    <3>4. claimed' \subseteq Ops /\ begun' \in [Ops -> Nat]
      <4>1. CASE UNCHANGED <<claimed, begun>>
        BY <4>1 DEF TablesTyped
      <4>2. CASE Begins(o)
        BY <4>2, <3>2 DEF Begins, TablesTyped
      <4> QED BY <3>1, <4>1, <4>2
    <3>5. LoopTyped'
      <4>1. CASE Go(p, "waiting", {})
        BY <1>5, <4>1, WaitingKeepsTypes DEF Consults
      <4>2. CASE Go(p, "acting", {o})
        BY <1>5, <4>2, <3>2, ActingKeepsTypes DEF Consults
      <4> QED BY <3>1, <4>1, <4>2
    <3> QED BY <1>5, <3>3, <3>4, <3>5 DEF Consults, TablesTyped
  <2> QED BY <1>5, <2>1, <2>2 DEF Consults
<1>6. ASSUME NEW p \in Processes, RunEnds(p) PROVE TablesTyped' /\ LoopTyped'
  <2>1. PICK o \in on[p] :
           \/ /\ record' = [record EXCEPT ![o] = IF o \in Measured THEN NoBetter(@) ELSE Counted(@)]
              /\ pending' = pending \ {o}
           \/ o \in Measured /\ pending' = pending \cup {o} /\ UNCHANGED record
           \/ /\ o \notin Measured
              /\ record' = [record EXCEPT ![o] = Counted(@)]
              /\ UNCHANGED pending
    BY <1>6 DEF RunEnds
  <2>2. o \in Ops
    BY <2>1 DEF LoopTyped
  <2>3. record[o] \in Records
    BY <2>2 DEF TablesTyped
  <2>4. Counted(record[o]) \in Records /\ NoBetter(record[o]) \in Records
    BY <2>3, ScoresStayBounded
  <2>5. record' \in [Ops -> Records] /\ pending' \subseteq Measured
    BY <2>1, <2>2, <2>4 DEF TablesTyped
  <2>6. LoopTyped'
    BY <1>6, WaitingKeepsTypes DEF RunEnds
  <2> QED BY <1>6, <2>5, <2>6 DEF RunEnds, TablesTyped
<1>7. ASSUME NEW p \in Processes, StopCalled(p) PROVE TablesTyped' /\ LoopTyped'
  BY <1>7 DEF StopCalled, TablesTyped, LoopTyped, tables
<1>8. ASSUME NEW p \in Processes, Stopped(p) \/ Crashes(p) PROVE TablesTyped' /\ LoopTyped'
  <2>1. stopping' \subseteq Processes /\ downs' \in 0..MaxDowns
    BY <1>8 DEF Stopped, Crashes, LoopTyped
  <2>2. Go(p, "down", {})
    BY <1>8 DEF Stopped, Crashes
  <2>3. LoopTyped'
    BY <2>1, <2>2, IdlePlaces, IdlingKeepsTypes
  <2> QED BY <1>8, <2>3 DEF Stopped, Crashes, TablesTyped, tables
<1>9. ASSUME NEW w \in Widths, RollsOver(w) PROVE TablesTyped' /\ LoopTyped'
  BY <1>9 DEF RollsOver, TablesTyped, LoopTyped, life
<1> QED BY <1>1, <1>2, <1>3, <1>4, <1>5, <1>6, <1>7, <1>8, <1>9 DEF Next

(* The tables and the loop keep their types: a record never leaves its      *)
(* bounds, and a process acts on exactly one operation of the catalog.      *)
THEOREM LoopTypes == Spec => []TypeOK
<1>1. Init => TablesTyped /\ LoopTyped
  BY IntrospectorAssumption DEF Init, TablesTyped, LoopTyped, Records, Places
<1>2. TablesTyped /\ LoopTyped /\ [Next]_vars => (TablesTyped /\ LoopTyped)'
  BY TypesInductive
<1>3. TablesTyped /\ LoopTyped => TypeOK
  BY DEF TablesTyped, LoopTyped, TypeOK, Records
<1> QED BY <1>1, <1>2, <1>3, PTL DEF Spec

-----------------------------------------------------------------------------
(* One run per window. *)

(* A run begins with its key written and the key was free.                  *)
LEMMA BeginningKeepsTheKey ==
  ASSUME TypeOK, KeyBeforeRun, NEW o \in Ops, o \notin claimed, Begins(o)
  PROVE  KeyBeforeRun'
<1>1. begun[o] = 0
  BY DEF KeyBeforeRun
<1>2. begun'[o] = 1 /\ \A q \in Ops \ {o} : begun'[q] = begun[q]
  BY <1>1 DEF Begins, TypeOK
<1>3. claimed' = claimed \cup {o}
  BY DEF Begins
<1> QED BY <1>2, <1>3 DEF KeyBeforeRun

LEMMA KeyInductive ==
  ASSUME TypeOK, KeyBeforeRun, [Next]_vars
  PROVE  KeyBeforeRun'
<1>1. CASE UNCHANGED <<claimed, begun>>
  BY <1>1 DEF KeyBeforeRun
<1>2. ASSUME NEW p \in Processes, NEW whole \in BOOLEAN, Observes(p, whole) PROVE KeyBeforeRun'
  <2>1. CASE \E o \in Ops \ claimed : Begins(o)
    BY <2>1, BeginningKeepsTheKey
  <2>2. UNCHANGED <<claimed, begun>> \/ \E o \in Ops \ claimed : Begins(o)
    BY <1>2, DecisionBeginsFree
  <2> QED BY <1>1, <2>1, <2>2
<1>3. ASSUME NEW p \in Processes, Consults(p) PROVE KeyBeforeRun'
  <2>1. on[p] \subseteq Ops
    BY DEF TypeOK
  <2>2. UNCHANGED <<claimed, begun>> \/ \E o \in Ops \ claimed : Begins(o)
    BY <1>3, <2>1 DEF Consults
  <2>3. CASE \E o \in Ops \ claimed : Begins(o)
    BY <2>3, BeginningKeepsTheKey
  <2> QED BY <1>1, <2>2, <2>3
<1>4. ASSUME NEW w \in Widths, RollsOver(w) PROVE KeyBeforeRun'
  BY <1>4 DEF RollsOver, KeyBeforeRun
<1>5. ASSUME NEW p \in Processes,
             \/ Ticks(p) \/ ObservationFails(p) \/ RunEnds(p)
             \/ Starts(p) \/ StopCalled(p) \/ Stopped(p) \/ Crashes(p)
      PROVE UNCHANGED <<claimed, begun>>
  BY <1>5 DEF Ticks, ObservationFails, RunEnds, Starts, StopCalled, Stopped, Crashes, tables
<1>6. CASE UNCHANGED vars
  BY <1>1, <1>6 DEF vars, tables
<1> QED BY <1>1, <1>2, <1>3, <1>4, <1>5, <1>6 DEF Next

(* "Every maintenance operation runs at most once per bucket" (buckets.ts): *)
(* for any number of processes over one ledger, and through any crash.      *)
THEOREM RunsOncePerWindow == Spec => []OneRunPerWindow
<1>1. Init => KeyBeforeRun
  BY DEF Init, KeyBeforeRun
<1>2. TypeOK /\ KeyBeforeRun /\ [Next]_vars => KeyBeforeRun'
  BY KeyInductive
<1>3. KeyBeforeRun => OneRunPerWindow
  BY DEF KeyBeforeRun, OneRunPerWindow
<1> QED BY <1>1, <1>2, <1>3, LoopTypes, PTL DEF Spec

-----------------------------------------------------------------------------
(* The narratives of a session. *)

Run == [at : Steps, read : SUBSET Episodes, calm : BOOLEAN, version : Nat, olds : SUBSET Stories]

(* What was read and what was written are snapshots of one growing session. *)
Reading == {"looking", "writing", "closing"}
Seen(S) == \/ \E s \in Readable : S = s[1]
           \/ \E p \in Narrators : run[p].at \in Reading /\ S = run[p].read
Snapshots ==
  /\ \A S \in SUBSET Episodes : Seen(S) => S # {} /\ S \subseteq live
  /\ \A S, T \in SUBSET Episodes : Seen(S) /\ Seen(T) => S \subseteq T \/ T \subseteq S
  /\ \A p \in Narrators : run[p].at = "looking" => run[p].read = live
NeverForgotten == orphans = {} /\ \A s \in Stories : story[s].state # "forgotten"

(* The order of the versions: the wider set, then the newer of two writers. *)
AtMostAs(s, t) == s[1] \subseteq t[1] /\ (s[1] = t[1] => Newer(t, s))
Under(s, t) == s # t /\ AtMostAs(s, t)
Topped == \A s \in Readable : \E t \in Standing : AtMostAs(s, t)

(* What a narrator is about to close lies under what it closes it for.      *)
Older(p, s) ==
  /\ s \in Readable
  /\ \/ s[1] \subseteq run[p].read /\ s[1] # run[p].read
     \/ run[p].at = "closing" /\ Target(p) \in Readable /\ Under(s, Target(p))
     \/ /\ run[p].at = "writing" /\ p = "cleanup"
        /\ s[1] = run[p].read /\ story[s].version < run[p].version
Olds == \A p \in Narrators : run[p].at \in {"writing", "closing"} =>
           \A s \in run[p].olds \ {Target(p)} : Older(p, s)

Steady == gone = {} /\ ~excused
Clean  == Snapshots /\ NeverForgotten /\ Topped /\ Olds
NarrativesInv == NarrativesTypeOK /\ (Steady => Clean)

-----------------------------------------------------------------------------
LEMMA StoriesAreFinite == IsFiniteSet(Stories)
<1>1. IsFiniteSet(SUBSET Episodes)
  BY NarrativesAssumption, FS_SUBSET
<1>2. IsFiniteSet((SUBSET Episodes) \ {{}})
  BY <1>1, FS_RemoveElement
<1>3. ASSUME NEW a, NEW b PROVE IsFiniteSet({a, b})
  <2>1. IsFiniteSet({a}) /\ {a, b} = {a} \cup {b}
    BY FS_Singleton
  <2> QED BY <2>1, FS_AddElement
<1>4. IsFiniteSet({TRUE, FALSE})
  BY <1>3, Zenon
<1>5. IsFiniteSet(BOOLEAN)
  <2>1. BOOLEAN = {TRUE, FALSE}
    OBVIOUS
  <2> QED BY <1>4, <2>1, Zenon
<1> QED BY <1>2, <1>5, FS_Product DEF Stories

LEMMA PairParts ==
  ASSUME NEW A, NEW B, NEW s \in A \X B
  PROVE  s[1] \in A /\ s[2] \in B /\ s = <<s[1], s[2]>>
OBVIOUS

LEMMA StoryParts ==
  \A s \in Stories : /\ s[1] \in SUBSET Episodes /\ s[1] # {}
                     /\ s = <<s[1], TRUE>> \/ s = <<s[1], FALSE>>
<1> SUFFICES ASSUME NEW s \in Stories
             PROVE  /\ s[1] \in SUBSET Episodes /\ s[1] # {}
                    /\ s = <<s[1], TRUE>> \/ s = <<s[1], FALSE>>
  OBVIOUS
<1>1. s[1] \in (SUBSET Episodes) \ {{}} /\ s[2] \in BOOLEAN /\ s = <<s[1], s[2]>>
  <2> DEFINE A == (SUBSET Episodes) \ {{}}
  <2>1. s \in A \X BOOLEAN
    BY DEF Stories
  <2> HIDE DEF A
  <2>2. s[1] \in A /\ s[2] \in BOOLEAN /\ s = <<s[1], s[2]>>
    BY <2>1, PairParts, Zenon
  <2> QED BY <2>2 DEF A
<1>2. \A S : \A b \in BOOLEAN : <<S, b>> = <<S, TRUE>> \/ <<S, b>> = <<S, FALSE>>
  BY Zenon
<1>3. s[1] \in SUBSET Episodes /\ s[1] # {}
  BY <1>1
<1>4. s = <<s[1], TRUE>> \/ s = <<s[1], FALSE>>
  BY <1>1, <1>2, Zenon
<1> QED BY <1>3, <1>4

(* Some version is the newest, and it is the one the next is counted from.  *)
LEMMA HighestIsNewest ==
  ASSUME NarrativesTypeOK
  PROVE  Highest \in Nat /\ \A s \in Readable : story[s].version <= Highest
<1> DEFINE After(h) == {s \in Readable : story[s].version > story[h].version}
           Tails == {A \in SUBSET Readable : \E h \in Readable : A = After(h)}
<1>0. /\ IsFiniteSet(Readable)
      /\ \A s \in Readable : story[s].version \in Nat
  BY StoriesAreFinite, FS_Subset DEF Readable, NarrativesTypeOK
<1>1. CASE Readable = {}
  BY <1>1 DEF Highest
<1>2. CASE Readable # {}
  <2>1. PICK A \in Tails : \A B \in Tails : ~(<<B, A>> \in StrictSubsetOrdering(Readable))
    <3>1. Tails \subseteq FiniteSubsetsOf(Readable)
      BY <1>0, FS_FiniteSubsetsOfFinite
    <3>2. Tails # {}
      <4>1. PICK h \in Readable : TRUE
        BY <1>2
      <4>2. After(h) \in Tails
        OBVIOUS
      <4> QED BY <4>2
    <3> HIDE DEF Tails
    <3> QED BY <3>1, <3>2, FS_StrictSubsetOrderingWellFounded, WFMin
  <2>2. PICK h \in Readable : A = After(h)
    OBVIOUS
  <2>3. ASSUME NEW m \in A PROVE FALSE
    <3>1. m \in Readable /\ story[m].version > story[h].version /\ After(m) \in Tails
      BY <2>2, <2>3
    <3>2. After(m) \subseteq A /\ m \notin After(m)
      BY <1>0, <2>2, <3>1
    <3>3. <<After(m), A>> \in StrictSubsetOrdering(Readable)
      BY <2>3, <3>1, <3>2 DEF StrictSubsetOrdering
    <3> QED BY <2>1, <3>1, <3>3
  <2>4. \A s \in Readable : story[s].version <= story[h].version
    BY <1>0, <2>2, <2>3
  <2> DEFINE v == story[h].version
             best == CHOOSE k \in {story[s].version : s \in Readable} :
                       \A s \in Readable : story[s].version <= k
  <2>5. /\ best \in {story[s].version : s \in Readable}
        /\ \A s \in Readable : story[s].version <= best
    BY <2>2, <2>4
  <2>6. Highest = best
    BY <1>2 DEF Highest
  <2> QED BY <1>0, <2>5, <2>6
<1> QED BY <1>1, <1>2

-----------------------------------------------------------------------------
(* The order. *)

LEMMA OrderIsTransitive ==
  ASSUME NarrativesTypeOK, NEW s \in Stories, NEW t \in Stories, NEW u \in Stories,
         AtMostAs(s, t), AtMostAs(t, u)
  PROVE  AtMostAs(s, u)
<1>1. s[1] \subseteq u[1]
  BY DEF AtMostAs
<1>2. ASSUME s[1] = u[1] PROVE Newer(u, s)
  <2>1. Newer(t, s) /\ Newer(u, t)
    BY <1>2 DEF AtMostAs
  <2>2. /\ story[s].version \in Nat /\ story[t].version \in Nat /\ story[u].version \in Nat
        /\ NodeId[s] \in Nat /\ NodeId[t] \in Nat /\ NodeId[u] \in Nat
    BY NarrativesAssumption DEF NarrativesTypeOK
  <2> QED BY <2>1, <2>2 DEF Newer
<1> QED BY <1>1, <1>2 DEF AtMostAs

LEMMA OrderIsAntisymmetric ==
  ASSUME NarrativesTypeOK, NEW s \in Stories, NEW t \in Stories,
         AtMostAs(s, t), AtMostAs(t, s)
  PROVE  s = t
<1>1. Newer(s, t) /\ Newer(t, s)
  BY DEF AtMostAs
<1>2. /\ story[s].version \in Nat /\ story[t].version \in Nat
      /\ NodeId[s] \in Nat /\ NodeId[t] \in Nat
  BY NarrativesAssumption DEF NarrativesTypeOK
<1>3. NodeId[s] = NodeId[t]
  BY <1>1, <1>2 DEF Newer
<1> QED BY <1>3, NarrativesAssumption

LEMMA OrderIsReflexive ==
  ASSUME NarrativesTypeOK, NEW s \in Stories
  PROVE  AtMostAs(s, s)
<1>1. story[s].version \in Nat /\ NodeId[s] \in Nat
  BY NarrativesAssumption DEF NarrativesTypeOK
<1> QED BY <1>1 DEF AtMostAs, Newer

(* Two nodes at most tell of one set, so one of them is listed first.       *)
LEMMA SomeIsFirst ==
  ASSUME NarrativesTypeOK, NEW R, NEW some \in SUBSET Stories, some # {}, \A s \in some : s[1] = R
  PROVE  First(some) # {}
<1>1. \A s \in some : story[s].version \in Nat /\ NodeId[s] \in Nat
  BY NarrativesAssumption DEF NarrativesTypeOK
<1>2. \A s, t \in some : Newer(s, s) /\ (Newer(s, t) \/ Newer(t, s))
  BY <1>1 DEF Newer
<1>3. \A s \in some : s = <<R, TRUE>> \/ s = <<R, FALSE>>
  BY StoryParts
<1>4. PICK s \in some : TRUE
  OBVIOUS
<1>5. CASE \A t \in some : t = s
  BY <1>2, <1>5 DEF First
<1>6. ASSUME NEW t \in some, t # s PROVE First(some) # {}
  <2>1. \A u \in some : u = s \/ u = t
    BY <1>3, <1>6
  <2>2. Newer(s, t) \/ Newer(t, s)
    BY <1>2, <1>6
  <2> QED BY <1>2, <2>1, <2>2 DEF First
<1> QED BY <1>5, <1>6

-----------------------------------------------------------------------------
(* Types, and what a narrator decides. *)

Version == [state : States, version : Nat, marked : BOOLEAN]

LEMMA NobodyTyped == Nobody \in Run
BY DEF Nobody, Run, Steps

LEMMA GoesTyped ==
  ASSUME run \in [Narrators -> Run], NEW p \in Narrators, NEW r \in Run, Goes(p, r)
  PROVE  /\ run' \in [Narrators -> Run] /\ run'[p] = r
         /\ \A q \in Narrators \ {p} : run'[q] = run[q]
BY DEF Goes

(* The three ways out of a decision: nothing to do, a new version, or a      *)
(* version that stands and is to be the only one.                           *)
Creates(p, r) ==
  /\ r = [run[p] EXCEPT !.at = "writing", !.calm = FALSE, !.version = Highest + 1, !.olds = Standing]
  /\ p = "cleanup" \/ \A s \in Readable : s[1] # run[p].read
Repairs(p, s, r) ==
  /\ r = [run[p] EXCEPT !.at = "closing", !.calm = FALSE, !.olds = Standing \ {s}]
  /\ s \in Standing /\ s[1] = run[p].read /\ p # "cleanup"
  /\ \A t \in Readable : t[1] = run[p].read => Newer(s, t)

LEMMA LooksEffect ==
  ASSUME NarrativesTypeOK, NEW p \in Narrators, Looks(p)
  PROVE  \/ Goes(p, Nobody)
         \/ \E r : Goes(p, r) /\ Creates(p, r)
         \/ \E r : Goes(p, r) /\ \E s \in Stories : Repairs(p, s, r)
<1> DEFINE matching == {s \in Readable : s[1] = run[p].read}
           create == [run[p] EXCEPT !.at = "writing", !.calm = FALSE, !.version = Highest + 1, !.olds = Standing]
           repair(s) == [run[p] EXCEPT !.at = "closing", !.calm = FALSE, !.olds = Standing \ {s}]
<1>1. PICK paused \in BOOLEAN : DecidesNarrative(p, paused)
  BY DEF Looks
<1>2. CASE p = "cleanup" /\ Goes(p, create)
  BY <1>2 DEF Creates
<1>3. CASE Ends(p)
  BY <1>3 DEF Ends
<1>4. CASE p # "cleanup" /\ \E s \in First(matching) : s \in Standing /\ Goes(p, repair(s))
  <2>1. PICK s \in First(matching) : s \in Standing /\ Goes(p, repair(s))
    BY <1>4
  <2>2. s \in Stories /\ Repairs(p, s, repair(s))
    BY <1>4, <2>1 DEF Repairs, First, Readable
  <2> QED BY <2>1, <2>2
<1>5. CASE First(matching) = {} /\ Goes(p, create)
  <2>1. matching \in SUBSET Stories /\ \A s \in matching : s[1] = run[p].read
    BY DEF Readable
  <2> HIDE DEF matching
  <2>2. matching = {}
    BY <1>5, <2>1, SomeIsFirst
  <2>3. \A s \in Readable : s[1] # run[p].read
    BY <2>2 DEF matching
  <2> QED BY <1>5, <2>3 DEF Creates
<1>6. \/ p = "cleanup" /\ Goes(p, create)
      \/ Ends(p)
      \/ p # "cleanup" /\ \E s \in First(matching) : s \in Standing /\ Goes(p, repair(s))
      \/ First(matching) = {} /\ Goes(p, create)
  <2> HIDE DEF create, repair
  <2>1. DecidesNarrative(p, paused) =>
          \/ p = "cleanup" /\ Goes(p, create)
          \/ Ends(p)
          \/ p # "cleanup" /\ \E s \in First(matching) : s \in Standing /\ Goes(p, repair(s))
          \/ First(matching) = {} /\ Goes(p, create)
    BY DEF DecidesNarrative, create, repair
  <2> QED BY <1>1, <2>1
<1> QED BY <1>2, <1>3, <1>4, <1>5, <1>6

LEMMA LooksTyped ==
  ASSUME NarrativesTypeOK, NEW p \in Narrators, NEW r, Creates(p, r) \/ \E s \in Stories : Repairs(p, s, r)
  PROVE  r \in Run /\ r.read = run[p].read /\ r.at \in {"writing", "closing"}
<1>1. run[p] \in Run /\ Standing \subseteq Stories /\ Highest + 1 \in Nat
  BY HighestIsNewest DEF NarrativesTypeOK, Run, Standing
<1> QED BY <1>1 DEF Creates, Repairs, Run, Steps

LEMMA ClosedTyped ==
  ASSUME NarrativesTypeOK, NEW s \in Stories
  PROVE  /\ Closed(s) \in Version /\ Closed(s).version = story[s].version
         /\ Closed(s).state = IF story[s].state = "open" THEN "closed" ELSE story[s].state
BY DEF Closed, NarrativesTypeOK, Version, States

LEMMA NarrativesTypedStep ==
  ASSUME NarrativesTypeOK, [NarrativesNext]_narratives
  PROVE  NarrativesTypeOK'
<1> USE DEF NarrativesTypeOK
<1>0. story \in [Stories -> Version] /\ run \in [Narrators -> Run]
  BY DEF Version, Run
<1>1. ASSUME NEW p \in Narrators, NEW r \in Run, Goes(p, r) PROVE run' \in [Narrators -> Run]
  BY <1>0, <1>1, GoesTyped
<1>2. ASSUME NEW p \in Narrators, Ends(p) PROVE run' \in [Narrators -> Run]
  BY <1>1, <1>2, NobodyTyped DEF Ends
<1>3. CASE \E e \in Episodes : Arrives(e) \/ Forgets(e)
  BY <1>3 DEF Arrives, Forgets, bounds
<1>4. CASE Corrects
  <2>1. \A s \in Stories : [story[s] EXCEPT !.marked = story[s].marked \/ s \in Standing] \in Version
    <3> SUFFICES ASSUME NEW s \in Stories
                 PROVE  [story[s] EXCEPT !.marked = story[s].marked \/ s \in Standing] \in Version
      OBVIOUS
    <3>1. (story[s].marked \/ s \in Standing) \in BOOLEAN
      OBVIOUS
    <3> QED BY <1>0, <3>1 DEF Version
  <2>2. story' \in [Stories -> Version]
    BY <1>4, <2>1 DEF Corrects
  <2>3. marks' \in 0..MaxMarks
    BY <1>4, NarrativesAssumption DEF Corrects
  <2> QED BY <1>4, <2>2, <2>3 DEF Corrects, session, Version
<1>5. CASE MergesDuplicates
  <2>1. story' \in [Stories -> Version]
    BY <1>0, <1>5, ClosedTyped DEF MergesDuplicates
  <2> QED BY <1>5, <2>1 DEF MergesDuplicates, session, bounds, Version
<1>6. CASE FindsOrphans
  BY <1>6 DEF FindsOrphans, session, bounds, Standing
<1>7. CASE ForgetsOrphan
  <2>1. PICK s \in orphans : orphans' = orphans \ {s} /\ story' = [story EXCEPT ![s].state = "forgotten"]
    BY <1>7 DEF ForgetsOrphan
  <2>2. [story[s] EXCEPT !.state = "forgotten"] \in Version
    BY <1>0 DEF Version, States
  <2>3. story' \in [Stories -> Version]
    BY <1>0, <2>1, <2>2
  <2> QED BY <1>7, <2>1, <2>3 DEF ForgetsOrphan, session, bounds, Version
<1>8. CASE Crash
  <2>1. run' \in [Narrators -> Run] /\ crashes' \in 0..MaxCrashes
    BY <1>8, NobodyTyped, NarrativesAssumption DEF Crash
  <2> QED BY <1>8, <2>1 DEF Crash, session, Run
<1>9. ASSUME NEW p \in Narrators, Loads(p) PROVE NarrativesTypeOK'
  <2>1. CASE Ends(p)
    BY <1>2, <1>9, <2>1 DEF Loads, session, bounds, Run
  <2>2. ASSUME NEW calm \in BOOLEAN,
               Goes(p, [Nobody EXCEPT !.at = "looking", !.read = live, !.calm = calm])
        PROVE  NarrativesTypeOK'
    <3>1. [Nobody EXCEPT !.at = "looking", !.read = live, !.calm = calm] \in Run
      BY NobodyTyped DEF Run, Steps
    <3>2. run' \in [Narrators -> Run]
      BY <1>1, <2>2, <3>1
    <3> QED BY <1>9, <3>2 DEF Loads, session, bounds, Run
  <2> QED BY <1>9, <2>1, <2>2 DEF Loads
<1>10. ASSUME NEW p \in Narrators, Looks(p) PROVE NarrativesTypeOK'
  <2>1. run' \in [Narrators -> Run]
    BY <1>1, <1>10, LooksEffect, LooksTyped, NobodyTyped
  <2> QED BY <1>10, <2>1 DEF Looks, session, bounds, Run
<1>11. ASSUME NEW p \in Narrators, CompressionFails(p) PROVE NarrativesTypeOK'
  BY <1>2, <1>11 DEF CompressionFails, session, bounds, Run
<1>12. ASSUME NEW p \in Narrators, Writes(p) PROVE NarrativesTypeOK'
  <2>1. [run[p] EXCEPT !.at = "closing"] \in Run
    BY <1>0 DEF Run, Steps
  <2>2. run' \in [Narrators -> Run]
    BY <1>1, <1>12, <2>1 DEF Writes
  <2>3. [state |-> "open", version |-> run[p].version, marked |-> FALSE] \in Version
    BY <1>0 DEF Run, Version, States
  <2>4. story' \in [Stories -> Version]
    BY <1>0, <1>12, <2>3 DEF Writes
  <2> QED BY <1>12, <2>2, <2>4 DEF Writes, session, bounds, Run, Version
<1>13. ASSUME NEW p \in Narrators, Supersedes(p) PROVE NarrativesTypeOK'
  <2>1. CASE Ends(p) /\ UNCHANGED story
    BY <1>2, <1>13, <2>1 DEF Supersedes, session, bounds, Run
  <2>2. ASSUME NEW s \in run[p].olds \ {Target(p)}, story' = [story EXCEPT ![s] = Closed(s)],
               Goes(p, [run[p] EXCEPT !.olds = (run[p].olds \ {Target(p)}) \ {s}])
        PROVE  NarrativesTypeOK'
    <3>1. s \in Stories
      BY <1>0 DEF Run
    <3>2. [run[p] EXCEPT !.olds = (run[p].olds \ {Target(p)}) \ {s}] \in Run
      BY <1>0 DEF Run
    <3>3. run' \in [Narrators -> Run]
      BY <1>1, <2>2, <3>2
    <3>4. story' \in [Stories -> Version]
      BY <1>0, <2>2, <3>1, ClosedTyped
    <3> QED BY <1>13, <3>3, <3>4 DEF Supersedes, session, bounds, Run, Version
  <2> QED BY <1>13, <2>1, <2>2 DEF Supersedes
<1>14. ASSUME NEW p \in Narrators, Calls(p) PROVE NarrativesTypeOK'
  <2>1. [Nobody EXCEPT !.at = "called"] \in Run
    BY NobodyTyped DEF Run, Steps
  <2>2. run' \in [Narrators -> Run]
    BY <1>1, <1>14, <2>1 DEF Calls
  <2> QED BY <1>14, <2>2 DEF Calls, session, bounds, Run
<1>15. CASE UNCHANGED narratives
  BY <1>15 DEF narratives, session, bounds
<1> QED BY <1>3, <1>4, <1>5, <1>6, <1>7, <1>8, <1>9, <1>10, <1>11, <1>12, <1>13, <1>14, <1>15
        DEF NarrativesNext

-----------------------------------------------------------------------------
(* What is kept while the session grows and no write meets another's node. *)

LEMMA SteadyBefore ==
  ASSUME NarrativesTypeOK, [NarrativesNext]_narratives, Steady'
  PROVE  /\ Steady /\ live \subseteq live' /\ \A e \in Episodes : ~Forgets(e)
<1>1. \A e \in Episodes : ~Forgets(e)
  BY DEF Forgets, Steady
<1> QED BY <1>1 DEF Steady, NarrativesNext, Arrives, Corrects, MergesDuplicates, FindsOrphans, ForgetsOrphan,
     Crash, Calls, Loads, Looks, CompressionFails, Writes, Supersedes, session, narratives, bounds, NarrativesTypeOK

(* A set that is new among those seen is the whole session as it is now.    *)
LEMMA SnapshotsKept ==
  ASSUME NarrativesTypeOK, Snapshots, live \subseteq live',
         \A S \in SUBSET Episodes : Seen(S)' => Seen(S) \/ (S = live /\ live # {}),
         \A p \in Narrators : run'[p].at = "looking" => run'[p].read = live'
  PROVE  Snapshots'
<1>1. ASSUME NEW S \in SUBSET Episodes, Seen(S)' PROVE S # {} /\ S \subseteq live
  BY <1>1 DEF Snapshots
<1>2. ASSUME NEW S \in SUBSET Episodes, NEW T \in SUBSET Episodes, Seen(S)', Seen(T)'
      PROVE  S \subseteq T \/ T \subseteq S
  <2>1. S \subseteq live /\ T \subseteq live
    BY <1>1, <1>2
  <2> QED BY <1>2, <2>1 DEF Snapshots
<1> QED BY <1>1, <1>2 DEF Snapshots

(* A version keeps its number, and is readable once written.                *)
Aging == \A s \in Readable : s \in Readable' /\ story'[s].version = story[s].version

LEMMA OrderKept ==
  ASSUME Aging, NEW s \in Readable, NEW t \in Readable
  PROVE  AtMostAs(s, t)' <=> AtMostAs(s, t)
BY DEF Aging, AtMostAs, Newer

LEMMA OlderKept ==
  ASSUME Aging, NEW p \in Narrators, NEW s, Older(p, s),
         run'[p].at = run[p].at, run'[p].read = run[p].read, run'[p].version = run[p].version
  PROVE  Older(p, s)'
<1>1. s \in Readable /\ s \in Readable' /\ story'[s].version = story[s].version /\ Target(p)' = Target(p)
  BY DEF Older, Aging, Target
<1>2. CASE s[1] \subseteq run[p].read /\ s[1] # run[p].read
  BY <1>1, <1>2 DEF Older
<1>3. CASE run[p].at = "closing" /\ Target(p) \in Readable /\ Under(s, Target(p))
  <2>1. PICK t \in Readable : t = Target(p)
    BY <1>3
  <2>2. AtMostAs(s, t)'
    BY <1>1, <1>3, <2>1, OrderKept DEF Under
  <2>3. Under(s, Target(p))'
    BY <1>1, <1>3, <2>1, <2>2 DEF Under, AtMostAs, Newer
  <2>4. Target(p)' \in Readable'
    BY <1>1, <2>1 DEF Aging
  <2> QED BY <1>1, <1>3, <2>3, <2>4 DEF Older
<1>4. CASE /\ run[p].at = "writing" /\ p = "cleanup"
           /\ s[1] = run[p].read /\ story[s].version < run[p].version
  BY <1>1, <1>4 DEF Older
<1> QED BY <1>2, <1>3, <1>4 DEF Older

(* Narrators that did not move still close only what lies under.            *)
LEMMA OldsKept ==
  ASSUME Olds, Aging,
         \A p \in Narrators : \/ run'[p] = run[p]
                              \/ run'[p].at \notin {"writing", "closing"}
                              \/ \A s \in run'[p].olds \ {Target(p)'} : Older(p, s)'
  PROVE  Olds'
<1> SUFFICES ASSUME NEW p \in Narrators, run'[p].at \in {"writing", "closing"},
                    NEW s \in run'[p].olds \ {Target(p)'}
             PROVE  Older(p, s)'
  BY DEF Olds
<1>1. CASE run'[p] = run[p]
  <2>1. Older(p, s)
    BY <1>1 DEF Olds, Target
  <2> QED BY <1>1, <2>1, OlderKept
<1> QED BY <1>1

(* What stands above everything still does, when what stops standing is     *)
(* under another that stands.                                               *)
LEMMA ToppedKept ==
  ASSUME NarrativesTypeOK, NarrativesTypeOK', Topped, Aging,
         \A s \in Readable' : s \in Readable \/ s \in Standing',
         \A s \in Standing : s \in Standing' \/ \E t \in Standing : t \in Standing' /\ AtMostAs(s, t)
  PROVE  Topped' /\ Told \subseteq Told'
<1>0. Standing \subseteq Readable /\ Readable \subseteq Stories /\ Standing' \subseteq Stories
  BY DEF Standing, Readable
<1>1. ASSUME NEW s \in Standing PROVE \E t \in Standing' : t \in Readable /\ AtMostAs(s, t)
  BY <1>0, <1>1, OrderIsReflexive
<1>2. ASSUME NEW s \in Readable PROVE \E t \in Standing' : AtMostAs(s, t)'
  <2>1. PICK u \in Standing : AtMostAs(s, u)
    BY DEF Topped
  <2>2. PICK t \in Standing' : t \in Readable /\ AtMostAs(u, t)
    BY <1>1
  <2>3. AtMostAs(s, t)
    BY <1>0, <2>1, <2>2, OrderIsTransitive
  <2> QED BY <2>2, <2>3, OrderKept
<1>3. ASSUME NEW s \in Standing' PROVE AtMostAs(s, s)'
  <2>1. story'[s].version \in Nat /\ NodeId[s] \in Nat
    BY <1>0, NarrativesAssumption DEF NarrativesTypeOK
  <2> QED BY <2>1 DEF AtMostAs, Newer
<1>4. Topped'
  BY <1>2, <1>3 DEF Topped
<1>5. Told \subseteq Told'
  BY <1>0, <1>1 DEF Told, AtMostAs
<1> QED BY <1>4, <1>5

(* A step that rewrites no version but for its marker.                      *)
LEMMA CleanWhenStoriesStay ==
  ASSUME NarrativesTypeOK, NarrativesTypeOK', Clean, live \subseteq live', orphans' = {},
         \A s \in Stories : story'[s].state = story[s].state /\ story'[s].version = story[s].version,
         \A p \in Narrators : run'[p].at \in Reading =>
             (run'[p].read = run[p].read /\ run[p].at \in Reading) \/ (run'[p].read = live /\ live # {}),
         \A p \in Narrators : run'[p].at = "looking" => run'[p].read = live',
         \A p \in Narrators : \/ run'[p] = run[p]
                              \/ run'[p].at \notin {"writing", "closing"}
                              \/ \A s \in run'[p].olds \ {Target(p)'} : Older(p, s)'
  PROVE  Clean' /\ Told \subseteq Told'
<1> USE DEF Clean
<1>1. Readable' = Readable /\ Standing' = Standing
  BY DEF Readable, Standing
<1>2. Aging
  BY <1>1 DEF Aging, Readable
<1>3. Olds'
  BY <1>2, OldsKept
<1>4. Topped' /\ Told \subseteq Told'
  BY <1>1, <1>2, ToppedKept
<1>5. Snapshots'
  <2>1. ASSUME NEW S \in SUBSET Episodes, Seen(S)' PROVE Seen(S) \/ (S = live /\ live # {})
    <3>1. CASE \E s \in Readable' : S = s[1]
      BY <1>1, <3>1 DEF Seen
    <3>2. CASE \E p \in Narrators : run'[p].at \in Reading /\ S = run'[p].read
      BY <3>2 DEF Seen
    <3> QED BY <2>1, <3>1, <3>2 DEF Seen
  <2> QED BY <2>1, SnapshotsKept
<1>6. NeverForgotten'
  BY DEF NeverForgotten
<1> QED BY <1>3, <1>4, <1>5, <1>6

(* What a decision leaves to be closed lies under what it is closed for.    *)
LEMMA DecisionsAreOlder ==
  ASSUME NarrativesTypeOK, Clean, NEW p \in Narrators, run[p].at = "looking", NEW r,
         Goes(p, r), UNCHANGED story, Creates(p, r) \/ \E s \in Stories : Repairs(p, s, r)
  PROVE  \A s \in run'[p].olds \ {Target(p)'} : Older(p, s)'
<1>0. /\ run \in [Narrators -> Run] /\ r \in Run /\ r.read = run[p].read
      /\ run'[p] = r
  BY LooksTyped, GoesTyped DEF NarrativesTypeOK, Run
<1>1. /\ Readable' = Readable /\ Standing \subseteq Readable /\ Readable \subseteq Stories
      /\ \A s \in Readable : s[1] \subseteq run[p].read
  <2>1. \A s \in Readable : s[1] \in SUBSET Episodes /\ Seen(s[1])
    BY StoryParts DEF Seen, Readable
  <2> QED BY <2>1 DEF Readable, Standing, Clean, Snapshots
<1>2. Target(p)' = Target(p)
  BY <1>0 DEF Target
<1> SUFFICES ASSUME NEW s \in r.olds \ {Target(p)}
             PROVE  Older(p, s)'
  BY <1>0, <1>2
<1>3. ASSUME s \in Readable, s[1] # run[p].read PROVE Older(p, s)'
  BY <1>0, <1>1, <1>3 DEF Older
<1>4. CASE Creates(p, r)
  <2>1. r.at = "writing" /\ r.version = Highest + 1 /\ s \in Standing
    BY <1>0, <1>4 DEF Creates, Run
  <2>2. story[s].version < Highest + 1
    <3>1. story[s].version \in Nat /\ Highest \in Nat /\ story[s].version <= Highest
      BY <1>1, <2>1, HighestIsNewest DEF NarrativesTypeOK
    <3> QED BY <3>1
  <2>3. CASE s[1] = run[p].read
    <3>1. p = "cleanup"
      BY <1>1, <1>4, <2>1, <2>3 DEF Creates
    <3> QED BY <1>0, <1>1, <2>1, <2>2, <2>3, <3>1 DEF Older
  <2> QED BY <1>1, <1>3, <2>1, <2>3
<1>5. ASSUME NEW t \in Stories, Repairs(p, t, r) PROVE Older(p, s)'
  <2>1. /\ r.at = "closing" /\ s \in Standing /\ s # t /\ t \in Standing /\ t[1] = run[p].read
        /\ p # "cleanup" /\ \A u \in Readable : u[1] = run[p].read => Newer(t, u)
    <3>1. run[p] \in Run
      BY <1>0
    <3>2. r.at = "closing" /\ r.olds = Standing \ {t}
      BY <1>5, <3>1 DEF Repairs, Run
    <3> QED BY <1>5, <3>2 DEF Repairs
  <2>2. CASE s[1] = run[p].read
    <3>1. Target(p) = <<run[p].read, FALSE>>
      <4>1. (p = "cleanup") = FALSE
        BY <2>1
      <4> QED BY <4>1, Zenon DEF Target
    <3>2. s \in Stories /\ s # <<run[p].read, FALSE>>
      BY <1>1, <2>1, <3>1
    <3>3. s = <<run[p].read, TRUE>>
      BY <2>2, <3>2, StoryParts
    <3>4. t = Target(p)
      BY <2>1, <3>1, <3>3, StoryParts
    <3>5. AtMostAs(s, t)
      BY <1>1, <2>1, <2>2 DEF AtMostAs
    <3>6. Under(s, Target(p))'
      BY <1>2, <2>1, <3>4, <3>5 DEF Under, AtMostAs, Newer
    <3> QED BY <1>0, <1>1, <1>2, <2>1, <3>4, <3>6 DEF Older
  <2> QED BY <1>1, <1>3, <2>1, <2>2
<1> QED BY <1>4, <1>5

LEMMA LooksClean ==
  ASSUME NarrativesTypeOK, NarrativesTypeOK', Clean, live' = live, NEW p \in Narrators, Looks(p)
  PROVE  Clean' /\ Told \subseteq Told'
<1>1. /\ run \in [Narrators -> Run] /\ run[p].at = "looking" /\ UNCHANGED <<story, orphans>>
  BY DEF Looks, NarrativesTypeOK, Run
<1>2. ASSUME NEW r \in Run, Goes(p, r), r.at # "looking", r.at \in Reading => r.read = run[p].read,
             r.at \in {"writing", "closing"} => \A s \in run'[p].olds \ {Target(p)'} : Older(p, s)'
      PROVE  Clean' /\ Told \subseteq Told'
  <2>1. run'[p] = r /\ \A q \in Narrators \ {p} : run'[q] = run[q]
    BY <1>1, <1>2, GoesTyped
  <2>2. orphans' = {}
    BY <1>1 DEF Clean, NeverForgotten
  <2>3. \A q \in Narrators : run'[q].at \in Reading =>
           (run'[q].read = run[q].read /\ run[q].at \in Reading) \/ (run'[q].read = live /\ live # {})
    BY <1>1, <1>2, <2>1 DEF Reading
  <2>4. \A q \in Narrators : run'[q].at = "looking" => run'[q].read = live'
    BY <1>1, <1>2, <2>1 DEF Clean, Snapshots
  <2>5. \A q \in Narrators : \/ run'[q] = run[q]
                             \/ run'[q].at \notin {"writing", "closing"}
                             \/ \A s \in run'[q].olds \ {Target(q)'} : Older(q, s)'
    BY <1>2, <2>1
  <2> QED BY <1>1, <2>2, <2>3, <2>4, <2>5, CleanWhenStoriesStay
<1>3. CASE Goes(p, Nobody)
  <2>1. Nobody \in Run /\ Nobody.at = "idle"
    BY NobodyTyped DEF Nobody
  <2> QED BY <1>2, <1>3, <2>1 DEF Reading
<1>4. ASSUME NEW r, Goes(p, r), Creates(p, r) \/ \E s \in Stories : Repairs(p, s, r)
      PROVE  Clean' /\ Told \subseteq Told'
  <2>1. r \in Run /\ r.read = run[p].read /\ r.at \in {"writing", "closing"}
    BY <1>4, LooksTyped
  <2>2. \A s \in run'[p].olds \ {Target(p)'} : Older(p, s)'
    BY <1>1, <1>4, DecisionsAreOlder
  <2> QED BY <1>2, <1>4, <2>1, <2>2
<1> QED BY <1>3, <1>4, LooksEffect

LEMMA TargetIsAStory ==
  ASSUME NarrativesTypeOK, Clean, NEW p \in Narrators, run[p].at \in Reading
  PROVE  Target(p) \in Stories /\ Target(p)[1] = run[p].read
<1>1. run[p].read \in SUBSET Episodes /\ Seen(run[p].read)
  BY DEF NarrativesTypeOK, Seen
<1>2. run[p].read # {}
  BY <1>1 DEF Clean, Snapshots
<1>3. (p = "cleanup") \in BOOLEAN
  OBVIOUS
<1>4. \A A, B : \A a \in A, b \in B : <<a, b>> \in A \X B /\ <<a, b>>[1] = a
  OBVIOUS
<1> DEFINE A == (SUBSET Episodes) \ {{}}
<1>5. run[p].read \in A
  BY <1>1, <1>2
<1> HIDE DEF A
<1>6. <<run[p].read, p = "cleanup">> \in A \X BOOLEAN /\ <<run[p].read, p = "cleanup">>[1] = run[p].read
  BY <1>3, <1>4, <1>5, Zenon
<1> QED BY <1>6, Zenon DEF Target, Stories, A

LEMMA WritesClean ==
  ASSUME NarrativesTypeOK, NarrativesTypeOK', Clean, live' = live, ~excused',
         NEW p \in Narrators, Writes(p)
  PROVE  Clean' /\ Told \subseteq Told'
<1>0. PICK t \in Stories : t = Target(p) /\ t[1] = run[p].read
  BY TargetIsAStory DEF Writes, Reading
<1>1. /\ run \in [Narrators -> Run] /\ run[p].at = "writing" /\ orphans' = {}
      /\ run'[p] = [run[p] EXCEPT !.at = "closing"]
      /\ \A q \in Narrators \ {p} : run'[q] = run[q]
  <2>1. run \in [Narrators -> Run]
    BY DEF NarrativesTypeOK, Run
  <2>2. [run[p] EXCEPT !.at = "closing"] \in Run
    BY <2>1 DEF Run, Steps
  <2> QED BY <2>1, <2>2, GoesTyped DEF Writes, Clean, NeverForgotten
<1>2. /\ run'[p].at = "closing" /\ run'[p].read = run[p].read /\ run'[p].olds = run[p].olds
      /\ run'[p].version = run[p].version
  <2>1. run[p] \in Run
    BY <1>1
  <2> QED BY <1>1, <2>1 DEF Run
<1>3. Target(p)' = t
  BY <1>0, <1>2 DEF Target
<1>4. \A s \in run'[p].olds \ {t} :
        /\ s \in Readable
        /\ \/ s[1] \subseteq run[p].read /\ s[1] # run[p].read
           \/ p = "cleanup" /\ s[1] = run[p].read /\ story[s].version < run[p].version
  BY <1>0, <1>1, <1>2 DEF Clean, Olds, Older
<1>5. \A q \in Narrators : run'[q].at \in Reading => run'[q].read = run[q].read /\ run[q].at \in Reading
  BY <1>1, <1>2 DEF Reading
<1>6. CASE story[t].state # "none"
  <2>1. UNCHANGED story
    BY <1>0, <1>6 DEF Writes, NarrativesTypeOK
  <2>2. \A s \in run'[p].olds \ {Target(p)'} : Older(p, s)'
    <3> SUFFICES ASSUME NEW s \in run'[p].olds \ {t} PROVE Older(p, s)'
      BY <1>3
    <3>1. s \in Readable /\ Readable' = Readable
      BY <1>4, <2>1 DEF Readable
    <3>2. CASE s[1] \subseteq run[p].read /\ s[1] # run[p].read
      BY <1>2, <3>1, <3>2 DEF Older
    <3>3. CASE p = "cleanup" /\ s[1] = run[p].read
      <4>1. Newer(t, s)
        BY <1>0, <1>2, <1>6, <3>3 DEF Writes, WritesOnOlder
      <4>2. t \in Readable
        BY <1>0, <1>6 DEF Clean, NeverForgotten, Readable, NarrativesTypeOK, States
      <4>3. Under(s, t)'
        BY <1>0, <2>1, <3>3, <4>1 DEF Under, AtMostAs, Newer
      <4>4. Under(s, Target(p))'
        BY <1>3, <4>3 DEF Under, AtMostAs, Newer
      <4> QED BY <1>2, <1>3, <3>1, <4>2, <4>4 DEF Older
    <3> QED BY <1>4, <3>2, <3>3
  <2>3. \A q \in Narrators : run'[q].at = "looking" => run'[q].read = live'
    BY <1>1, <1>2 DEF Clean, Snapshots
  <2> QED BY <1>1, <1>5, <2>1, <2>2, <2>3, CleanWhenStoriesStay
<1>7. CASE story[t].state = "none"
  <2>1. /\ story'[t] = [state |-> "open", version |-> run[p].version, marked |-> FALSE]
        /\ \A s \in Stories \ {t} : story'[s] = story[s]
    BY <1>0, <1>7 DEF Writes, NarrativesTypeOK
  <2>2. t \notin Readable /\ t \in Standing' /\ Readable' = Readable \cup {t}
    BY <1>7, <2>1 DEF Readable, Standing
  <2>3. Aging /\ Standing \subseteq Standing' /\ Standing \subseteq Readable
    BY <2>1, <2>2 DEF Aging, Readable, Standing
  <2>4. Topped' /\ Told \subseteq Told'
    BY <2>2, <2>3, ToppedKept DEF Clean
  <2>5. \A s \in run'[p].olds \ {t} : Older(p, s)'
    <3> SUFFICES ASSUME NEW s \in run'[p].olds \ {t} PROVE Older(p, s)'
      OBVIOUS
    <3>1. s \in Readable /\ s \in Readable' /\ s # t /\ story'[s] = story[s]
      BY <1>4, <2>1, <2>2 DEF Readable
    <3>2. CASE s[1] \subseteq run[p].read /\ s[1] # run[p].read
      BY <1>2, <3>1, <3>2 DEF Older
    <3>3. CASE s[1] = run[p].read /\ story[s].version < run[p].version
      <4>1. story'[t].version > story'[s].version
        <5>1. story[s].version \in Nat /\ run[p].version \in Nat
          BY <3>1 DEF NarrativesTypeOK, Readable
        <5> QED BY <2>1, <3>1, <3>3, <5>1
      <4>2. Under(s, t)'
        BY <1>0, <3>1, <3>3, <4>1 DEF Under, AtMostAs, Newer
      <4>3. Under(s, Target(p))'
        BY <1>3, <4>2 DEF Under, AtMostAs, Newer
      <4> QED BY <1>2, <1>3, <2>2, <3>1, <4>3 DEF Older
    <3> QED BY <1>4, <3>2, <3>3
  <2>6. Olds'
    BY <1>1, <1>3, <2>3, <2>5, OldsKept DEF Clean
  <2>7. Snapshots'
    <3>1. ASSUME NEW S \in SUBSET Episodes, Seen(S)' PROVE Seen(S)
      <4>1. CASE \E s \in Readable' : S = s[1]
        BY <1>0, <1>1, <2>2, <4>1 DEF Seen, Reading
      <4>2. CASE \E q \in Narrators : run'[q].at \in Reading /\ S = run'[q].read
        BY <1>5, <4>2 DEF Seen
      <4> QED BY <3>1, <4>1, <4>2 DEF Seen
    <3>2. \A q \in Narrators : run'[q].at = "looking" => run'[q].read = live'
      BY <1>1, <1>2 DEF Clean, Snapshots
    <3> QED BY <3>1, <3>2, SnapshotsKept DEF Clean
  <2>8. NeverForgotten'
    BY <1>1, <2>1 DEF Clean, NeverForgotten
  <2> QED BY <2>4, <2>6, <2>7, <2>8 DEF Clean
<1> QED BY <1>6, <1>7

(* A version is closed only where another stands above it.                  *)
LEMMA ClosingKeeps ==
  ASSUME NarrativesTypeOK, NarrativesTypeOK', Clean, live' = live, UNCHANGED orphans, NEW shut \in SUBSET Standing,
         story' = [s \in Stories |-> IF s \in shut THEN Closed(s) ELSE story[s]],
         \A s \in shut : \E t \in Standing \ shut : AtMostAs(s, t),
         \A p \in Narrators :
            \/ run'[p].at = "idle"
            \/ /\ run'[p].at = run[p].at /\ run'[p].read = run[p].read
               /\ run'[p].version = run[p].version /\ run'[p].olds \subseteq run[p].olds
  PROVE  Clean' /\ Told \subseteq Told'
<1>1. /\ \A s \in Stories : story'[s].version = story[s].version
      /\ \A s \in Stories \ shut : story'[s].state = story[s].state
      /\ \A s \in shut : story'[s].state = "closed" /\ story[s].state = "open"
  BY ClosedTyped DEF Standing
<1>2. Readable' = Readable /\ Standing' = Standing \ shut
  BY <1>1 DEF Readable, Standing
<1>3. Aging
  BY <1>1, <1>2 DEF Aging, Readable
<1>4. Topped' /\ Told \subseteq Told'
  BY <1>2, <1>3, ToppedKept DEF Clean
<1>5. Olds'
  <2>1. ASSUME NEW p \in Narrators, run'[p].at \in {"writing", "closing"},
               NEW s \in run'[p].olds \ {Target(p)'}
        PROVE  Older(p, s)'
    <3>1. /\ run'[p].at = run[p].at /\ run'[p].read = run[p].read /\ run'[p].version = run[p].version
          /\ s \in run[p].olds \ {Target(p)}
      BY <2>1 DEF Target
    <3>2. Older(p, s)
      BY <2>1, <3>1 DEF Clean, Olds
    <3> QED BY <1>3, <3>1, <3>2, OlderKept
  <2> QED BY <2>1 DEF Olds
<1>6. Snapshots'
  <2>1. ASSUME NEW S \in SUBSET Episodes, Seen(S)' PROVE Seen(S)
    <3>1. CASE \E s \in Readable' : S = s[1]
      BY <1>2, <3>1 DEF Seen
    <3>2. CASE \E q \in Narrators : run'[q].at \in Reading /\ S = run'[q].read
      BY <3>2 DEF Seen, Reading
    <3> QED BY <2>1, <3>1, <3>2 DEF Seen
  <2>2. \A q \in Narrators : run'[q].at = "looking" => run'[q].read = live'
    BY DEF Clean, Snapshots
  <2> QED BY <2>1, <2>2, SnapshotsKept DEF Clean
<1>7. NeverForgotten'
  BY <1>1 DEF Clean, NeverForgotten
<1> QED BY <1>4, <1>5, <1>6, <1>7 DEF Clean

LEMMA ShorterListKeeps ==
  ASSUME NarrativesTypeOK, NarrativesTypeOK', Clean, live' = live, UNCHANGED orphans, UNCHANGED story,
         \A p \in Narrators :
            \/ run'[p].at = "idle"
            \/ /\ run'[p].at = run[p].at /\ run'[p].read = run[p].read
               /\ run'[p].version = run[p].version /\ run'[p].olds \subseteq run[p].olds
  PROVE  Clean' /\ Told \subseteq Told'
<1>1. PICK shut \in SUBSET Standing : shut = {}
  OBVIOUS
<1>2. story' = [s \in Stories |-> IF s \in shut THEN Closed(s) ELSE story[s]]
  BY <1>1 DEF NarrativesTypeOK
<1>3. \A s \in shut : \E t \in Standing \ shut : AtMostAs(s, t)
  BY <1>1
<1> QED BY <1>2, <1>3, ClosingKeeps

LEMMA SupersedesClean ==
  ASSUME NarrativesTypeOK, NarrativesTypeOK', Clean, live' = live,
         NEW p \in Narrators, Supersedes(p)
  PROVE  Clean' /\ Told \subseteq Told'
<1>0. PICK t \in Stories : t = Target(p) /\ t[1] = run[p].read
  BY TargetIsAStory DEF Supersedes, Reading
<1>1. run \in [Narrators -> Run] /\ run[p].at = "closing" /\ UNCHANGED orphans
  BY DEF Supersedes, NarrativesTypeOK, Run
<1>2. CASE Ends(p) /\ UNCHANGED story
  <2>1. run'[p] = Nobody /\ \A q \in Narrators \ {p} : run'[q] = run[q]
    BY <1>1, <1>2, GoesTyped, NobodyTyped DEF Ends
  <2>2. run'[p].at = "idle"
    BY <2>1 DEF Nobody
  <2>4. \A q \in Narrators :
            \/ run'[q].at = "idle"
            \/ /\ run'[q].at = run[q].at /\ run'[q].read = run[q].read
               /\ run'[q].version = run[q].version /\ run'[q].olds \subseteq run[q].olds
    BY <2>1, <2>2
  <2> QED BY <1>1, <1>2, <2>4, ShorterListKeeps
<1>3. ASSUME story[t].state # "none", NEW s \in run[p].olds \ {t},
             story' = [story EXCEPT ![s] = Closed(s)],
             Goes(p, [run[p] EXCEPT !.olds = (run[p].olds \ {t}) \ {s}])
      PROVE  Clean' /\ Told \subseteq Told'
  <2>1. /\ s \in Readable /\ s \in Stories /\ s # t
        /\ t \in Readable /\ AtMostAs(s, t)
    <3>1. Older(p, s)
      BY <1>0, <1>1, <1>3 DEF Clean, Olds
    <3>2. s \in Readable /\ s \in Stories
      BY <3>1 DEF Older, Readable
    <3>3. t \in Readable
      BY <1>0, <1>3 DEF Readable, Clean, NeverForgotten, NarrativesTypeOK, States
    <3>4. AtMostAs(s, t)
      BY <1>0, <1>1, <3>1 DEF Older, AtMostAs, Under
    <3> QED BY <1>3, <3>2, <3>3, <3>4
  <2>2. \A q \in Narrators :
            \/ run'[q].at = "idle"
            \/ /\ run'[q].at = run[q].at /\ run'[q].read = run[q].read
               /\ run'[q].version = run[q].version /\ run'[q].olds \subseteq run[q].olds
    <3> DEFINE r == [run[p] EXCEPT !.olds = (run[p].olds \ {t}) \ {s}]
    <3>1. /\ r \in Run /\ r.at = run[p].at /\ r.read = run[p].read /\ r.version = run[p].version
          /\ r.olds \subseteq run[p].olds
      <4>1. run[p] \in Run
        BY <1>1
      <4> QED BY <4>1 DEF Run
    <3> HIDE DEF r
    <3>2. Goes(p, r)
      BY <1>3 DEF r
    <3>3. run'[p] = r /\ \A q \in Narrators \ {p} : run'[q] = run[q]
      BY <1>1, <3>1, <3>2, GoesTyped
    <3> QED BY <3>1, <3>3
  <2>3. PICK u \in Standing : AtMostAs(t, u)
    BY <2>1 DEF Clean, Topped
  <2>4. CASE s \in Standing
    <3>1. AtMostAs(s, u) /\ u # s
      <4>1. u \in Stories
        BY DEF Standing
      <4>2. AtMostAs(s, u)
        BY <2>1, <2>3, <4>1, OrderIsTransitive
      <4>3. ASSUME u = s PROVE FALSE
        BY <2>1, <2>3, <4>3, OrderIsAntisymmetric
      <4> QED BY <4>2, <4>3
    <3>2. story' = [v \in Stories |-> IF v \in {s} THEN Closed(v) ELSE story[v]]
      BY <1>3, <2>1 DEF NarrativesTypeOK
    <3>3. {s} \in SUBSET Standing /\ \A v \in {s} : \E w \in Standing \ {s} : AtMostAs(v, w)
      BY <2>4, <3>1
    <3> QED BY <1>1, <2>2, <3>2, <3>3, ClosingKeeps
  <2>5. CASE s \notin Standing
    <3>1. Closed(s) = story[s]
      <4>1. story[s] \in Version /\ Closed(s) \in Version
        BY <2>1, ClosedTyped DEF NarrativesTypeOK, Version
      <4>2. story[s].state # "open"
        BY <2>1, <2>5 DEF Standing
      <4> QED BY <4>1, <4>2 DEF Closed, Version
    <3>2. UNCHANGED story
      BY <1>3, <2>1, <3>1 DEF NarrativesTypeOK
    <3> QED BY <1>1, <2>2, <3>2, ShorterListKeeps
  <2> QED BY <2>4, <2>5
<1>4. \/ Ends(p) /\ UNCHANGED story
      \/ /\ story[t].state # "none"
         /\ \E s \in run[p].olds \ {t} :
              /\ story' = [story EXCEPT ![s] = Closed(s)]
              /\ Goes(p, [run[p] EXCEPT !.olds = (run[p].olds \ {t}) \ {s}])
  BY <1>0 DEF Supersedes
<1> QED BY <1>2, <1>3, <1>4

LEMMA MergingClean ==
  ASSUME NarrativesTypeOK, NarrativesTypeOK', Clean, live' = live, MergesDuplicates
  PROVE  Clean' /\ Told \subseteq Told'
<1>1. PICK keep \in First(Widest) :
         story' = [s \in Stories |-> IF s \in Standing \ {keep} THEN Closed(s) ELSE story[s]]
  BY DEF MergesDuplicates
<1>2. /\ keep \in Standing /\ \A t \in Standing : Covers(t) <= Covers(keep)
      /\ \A t \in Widest : Newer(keep, t)
  BY DEF First, Widest
<1>3. ASSUME NEW s \in Standing PROVE AtMostAs(s, keep)
  <2>1. /\ s \in Stories /\ keep \in Stories /\ s \in Readable /\ keep \in Readable
        /\ s[1] \in SUBSET Episodes /\ keep[1] \in SUBSET Episodes
    BY <1>2, StoryParts DEF Standing, Readable
  <2>2. s[1] \subseteq keep[1] \/ keep[1] \subseteq s[1]
    BY <2>1 DEF Clean, Snapshots, Seen
  <2>3. IsFiniteSet(s[1]) /\ IsFiniteSet(keep[1])
    BY <2>1, NarrativesAssumption, FS_Subset
  <2>4. Cardinality(s[1]) \in Nat /\ Cardinality(keep[1]) \in Nat
    BY <2>3, FS_CardinalityType
  <2>5. s[1] \subseteq keep[1]
    <3>1. Cardinality(s[1]) <= Cardinality(keep[1])
      BY <1>2 DEF Covers
    <3>2. ASSUME keep[1] \subseteq s[1] PROVE keep[1] = s[1]
      <4>1. Cardinality(keep[1]) <= Cardinality(s[1])
        BY <2>3, <3>2, FS_Subset
      <4>2. Cardinality(keep[1]) = Cardinality(s[1])
        BY <2>4, <3>1, <4>1
      <4> QED BY <2>3, <3>2, <4>2, FS_Subset
    <3> QED BY <2>2, <3>2
  <2>6. ASSUME s[1] = keep[1] PROVE Newer(keep, s)
    <3>1. s \in Widest
      BY <1>2, <2>6 DEF Widest, Covers
    <3> QED BY <1>2, <3>1
  <2> QED BY <2>5, <2>6 DEF AtMostAs
<1>4. /\ Standing \ {keep} \in SUBSET Standing
      /\ \A s \in Standing \ {keep} : \E t \in Standing \ (Standing \ {keep}) : AtMostAs(s, t)
  BY <1>2, <1>3
<1>5. UNCHANGED <<orphans, run>>
  BY DEF MergesDuplicates
<1>6. \A q \in Narrators :
         \/ run'[q].at = "idle"
         \/ /\ run'[q].at = run[q].at /\ run'[q].read = run[q].read
            /\ run'[q].version = run[q].version /\ run'[q].olds \subseteq run[q].olds
  BY <1>5
<1> DEFINE shut == Standing \ {keep}
<1>7. story' = [s \in Stories |-> IF s \in shut THEN Closed(s) ELSE story[s]]
  BY <1>1
<1>8. shut \in SUBSET Standing /\ \A s \in shut : \E t \in Standing \ shut : AtMostAs(s, t)
  BY <1>4
<1> HIDE DEF shut
<1> QED BY <1>5, <1>6, <1>7, <1>8, ClosingKeeps

LEMMA CleanStep ==
  ASSUME NarrativesInv, NarrativesTypeOK', [NarrativesNext]_narratives, Steady'
  PROVE  Clean' /\ Told \subseteq Told'
<1>0. /\ NarrativesTypeOK /\ Clean /\ gone' = {} /\ ~excused' /\ live \subseteq live'
      /\ \A e \in Episodes : ~Forgets(e)
  BY SteadyBefore DEF NarrativesInv, Steady
<1> SUFFICES Clean' /\ Told \subseteq Told'
  OBVIOUS
<1>1. orphans = {} /\ run \in [Narrators -> Run] /\ Nobody.at = "idle"
  BY <1>0 DEF Clean, NeverForgotten, NarrativesTypeOK, Run, Nobody
<1>2. ASSUME orphans' = {}, live' = live,
             \A s \in Stories : story'[s].state = story[s].state /\ story'[s].version = story[s].version,
             \A p \in Narrators : run'[p] = run[p] \/ run'[p].at \in {"idle", "called"}
      PROVE  Clean' /\ Told \subseteq Told'
  <2>1. \A p \in Narrators : run'[p].at \in Reading =>
             (run'[p].read = run[p].read /\ run[p].at \in Reading) \/ (run'[p].read = live /\ live # {})
    BY <1>2 DEF Reading
  <2>2. \A p \in Narrators : run'[p].at = "looking" => run'[p].read = live'
    BY <1>0, <1>2 DEF Clean, Snapshots
  <2>3. \A p \in Narrators : \/ run'[p] = run[p]
                             \/ run'[p].at \notin {"writing", "closing"}
                             \/ \A s \in run'[p].olds \ {Target(p)'} : Older(p, s)'
    BY <1>2
  <2> QED BY <1>0, <1>2, <2>1, <2>2, <2>3, CleanWhenStoriesStay
<1>3. ASSUME NEW e \in Episodes, Arrives(e) PROVE Clean' /\ Told \subseteq Told'
  <2>1. UNCHANGED <<story, run, orphans>> /\ \A p \in Narrators : run[p].at # "looking"
    BY <1>0, <1>3 DEF Arrives
  <2>2. \A p \in Narrators : run'[p].at \in Reading =>
             (run'[p].read = run[p].read /\ run[p].at \in Reading) \/ (run'[p].read = live /\ live # {})
    BY <2>1
  <2> QED BY <1>0, <1>1, <2>1, <2>2, CleanWhenStoriesStay
<1>4. CASE Corrects
  <2>1. \A s \in Stories : story'[s].state = story[s].state /\ story'[s].version = story[s].version
    <3>1. story \in [Stories -> Version]
      BY <1>0 DEF NarrativesTypeOK, Version
    <3>2. ASSUME NEW v \in Version, NEW m
          PROVE  [v EXCEPT !.marked = m].state = v.state /\ [v EXCEPT !.marked = m].version = v.version
      BY DEF Version
    <3>3. story' = [s \in Stories |-> [story[s] EXCEPT !.marked = story[s].marked \/ s \in Standing]]
      BY <1>4 DEF Corrects
    <3> QED BY <3>1, <3>2, <3>3
  <2> QED BY <1>1, <1>2, <1>4, <2>1 DEF Corrects, session
<1>5. CASE MergesDuplicates
  BY <1>0, <1>5, MergingClean DEF MergesDuplicates, session
<1>6. ~FindsOrphans
  <2>1. ASSUME NEW s \in Standing PROVE live # {}
    <3>1. s \in Readable /\ s[1] \in SUBSET Episodes
      BY StoryParts DEF Standing, Readable
    <3> QED BY <1>0, <3>1 DEF Clean, Snapshots, Seen
  <2> QED BY <2>1 DEF FindsOrphans
<1>7. ~ForgetsOrphan
  BY <1>1 DEF ForgetsOrphan
<1>8. CASE Crash
  BY <1>1, <1>2, <1>8 DEF Crash, session
<1>9. ASSUME NEW p \in Narrators, Loads(p) PROVE Clean' /\ Told \subseteq Told'
  <2>1. UNCHANGED <<live, story, orphans>>
    BY <1>9 DEF Loads, session
  <2>2. CASE Ends(p)
    <3>1. run'[p] = Nobody /\ \A q \in Narrators \ {p} : run'[q] = run[q]
      BY <1>1, <2>2, GoesTyped, NobodyTyped DEF Ends
    <3> QED BY <1>1, <1>2, <2>1, <3>1
  <2>3. ASSUME live # {}, NEW r \in Run, Goes(p, r), r.at = "looking", r.read = live
        PROVE  Clean' /\ Told \subseteq Told'
    <3>1. run'[p] = r /\ \A q \in Narrators \ {p} : run'[q] = run[q]
      BY <1>1, <2>3, GoesTyped
    <3>2. \A q \in Narrators : run'[q].at \in Reading =>
             (run'[q].read = run[q].read /\ run[q].at \in Reading) \/ (run'[q].read = live /\ live # {})
      BY <2>3, <3>1
    <3>3. \A q \in Narrators : run'[q].at = "looking" => run'[q].read = live'
      BY <1>0, <2>1, <2>3, <3>1 DEF Clean, Snapshots
    <3>4. \A q \in Narrators : \/ run'[q] = run[q]
                               \/ run'[q].at \notin {"writing", "closing"}
                               \/ \A s \in run'[q].olds \ {Target(q)'} : Older(q, s)'
      BY <2>3, <3>1
    <3> QED BY <1>0, <1>1, <2>1, <3>2, <3>3, <3>4, CleanWhenStoriesStay
  <2>4. ASSUME NEW calm PROVE LET r == [Nobody EXCEPT !.at = "looking", !.read = live, !.calm = calm]
                              IN  calm \in BOOLEAN => r \in Run /\ r.at = "looking" /\ r.read = live
    BY <1>0, NobodyTyped DEF Run, Steps, NarrativesTypeOK
  <2> QED BY <1>9, <2>2, <2>3, <2>4 DEF Loads
<1>10. ASSUME NEW p \in Narrators, Looks(p) PROVE Clean' /\ Told \subseteq Told'
  BY <1>0, <1>10, LooksClean DEF Looks, session
<1>11. ASSUME NEW p \in Narrators, CompressionFails(p) PROVE Clean' /\ Told \subseteq Told'
  <2>1. run'[p] = Nobody /\ \A q \in Narrators \ {p} : run'[q] = run[q]
    BY <1>1, <1>11, GoesTyped, NobodyTyped DEF CompressionFails, Ends
  <2> QED BY <1>1, <1>2, <1>11, <2>1 DEF CompressionFails, session
<1>12. ASSUME NEW p \in Narrators, Writes(p) PROVE Clean' /\ Told \subseteq Told'
  BY <1>0, <1>12, WritesClean DEF Writes, session
<1>13. ASSUME NEW p \in Narrators, Supersedes(p) PROVE Clean' /\ Told \subseteq Told'
  BY <1>0, <1>13, SupersedesClean DEF Supersedes, session
<1>14. ASSUME NEW p \in Narrators, Calls(p) PROVE Clean' /\ Told \subseteq Told'
  <2>1. [Nobody EXCEPT !.at = "called"] \in Run /\ [Nobody EXCEPT !.at = "called"].at = "called"
    BY NobodyTyped DEF Run, Steps
  <2>2. run'[p].at = "called" /\ \A q \in Narrators \ {p} : run'[q] = run[q]
    BY <1>1, <1>14, <2>1, GoesTyped DEF Calls
  <2> QED BY <1>1, <1>2, <1>14, <2>2 DEF Calls, session
<1>15. CASE UNCHANGED narratives
  BY <1>1, <1>2, <1>15 DEF narratives, session
<1> QED BY <1>0, <1>3, <1>4, <1>5, <1>6, <1>7, <1>8, <1>9, <1>10, <1>11, <1>12, <1>13, <1>14, <1>15
        DEF NarrativesNext

LEMMA NarrativesInvInit == NarrativesInit => NarrativesInv
<1> SUFFICES ASSUME NarrativesInit PROVE NarrativesInv
  OBVIOUS
<1>1. NarrativesTypeOK
  <2>1. [state |-> "none", version |-> 0, marked |-> FALSE] \in Version
    BY DEF Version, States
  <2>2. story \in [Stories -> Version]
    BY <2>1 DEF NarrativesInit
  <2>3. run \in [Narrators -> Run]
    BY NobodyTyped DEF NarrativesInit
  <2>4. /\ live \subseteq Episodes /\ gone \subseteq Episodes \ live /\ orphans \subseteq Stories
        /\ marks \in 0..MaxMarks /\ crashes \in 0..MaxCrashes /\ excused \in BOOLEAN
    <3>1. live = {} /\ gone = {} /\ orphans = {} /\ marks = 0 /\ crashes = 0 /\ excused = FALSE
      BY DEF NarrativesInit
    <3>2. MaxMarks \in Nat /\ MaxCrashes \in Nat
      BY NarrativesAssumption
    <3>3. marks \in 0..MaxMarks /\ crashes \in 0..MaxCrashes
      BY <3>1, <3>2
    <3>4. excused \in BOOLEAN
      BY <3>1
    <3> QED BY <3>1, <3>3, <3>4
  <2> QED BY <2>2, <2>3, <2>4 DEF NarrativesTypeOK, Version, Run
<1>2. Readable = {} /\ orphans = {} /\ \A s \in Stories : story[s].state # "forgotten"
  BY DEF NarrativesInit, Readable
<1>3. \A p \in Narrators : run[p].at = "idle"
  BY DEF NarrativesInit, Nobody
<1>4. \A S : ~Seen(S)
  BY <1>2, <1>3 DEF Seen, Reading
<1>5. Snapshots
  BY <1>3, <1>4 DEF Snapshots
<1> QED BY <1>1, <1>2, <1>3, <1>5 DEF NarrativesInv, Clean, NeverForgotten, Topped, Olds

LEMMA NarrativesInvStep == NarrativesInv /\ [NarrativesNext]_narratives => NarrativesInv'
<1>1. ASSUME NarrativesInv, [NarrativesNext]_narratives PROVE NarrativesTypeOK'
  BY <1>1, NarrativesTypedStep DEF NarrativesInv
<1>2. ASSUME NarrativesInv, [NarrativesNext]_narratives, Steady' PROVE Clean'
  BY <1>1, <1>2, CleanStep
<1> QED BY <1>1, <1>2 DEF NarrativesInv

(* The types of the narratives' state (narratives.ts, narrative-write.ts).   *)
THEOREM NarrativesTypes == NarrativesSpec => []NarrativesTypeOK
<1>1. NarrativesInv => NarrativesTypeOK
  BY DEF NarrativesInv
<1> QED BY NarrativesInvInit, NarrativesInvStep, <1>1, PTL DEF NarrativesSpec

(* Whatever narrators overlap and whatever a crash cuts short, a cleanup     *)
(* repeated after one included, what the standing versions tell of a session *)
(* does not shrink (closeSuperseded, mergeDuplicateNarratives), but for the  *)
(* three things that take it away: a forgotten episode, one that arrived     *)
(* between the two reads of a narrator, and a cleanup that met an older node *)
(* of its own and closes a newer version for it.                             *)
THEOREM ToldIsKept == NarrativesSpec => CoverageNeverShrinks
<1>1. NarrativesInv /\ [NarrativesNext]_narratives
        => [gone' = {} /\ ~excused' => Told \subseteq Told']_narratives
  <2>1. ASSUME NarrativesInv, [NarrativesNext]_narratives, gone' = {}, ~excused'
        PROVE  Told \subseteq Told'
    <3>1. NarrativesTypeOK'
      BY <2>1, NarrativesInvStep DEF NarrativesInv
    <3> QED BY <2>1, <3>1, CleanStep DEF Steady
  <2> QED BY <2>1
<1> QED BY NarrativesInvInit, NarrativesInvStep, <1>1, PTL DEF NarrativesSpec, CoverageNeverShrinks
=============================================================================
