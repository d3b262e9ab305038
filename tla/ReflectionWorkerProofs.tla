------------------------ MODULE ReflectionWorkerProofs ------------------------
(***************************************************************************)
(* ReflectionWorker for any number of workers, jobs, pool places, attempts *)
(* and expired claims.                                                     *)
(***************************************************************************)
EXTENDS ReflectionWorker, TLAPS

(* The claim table, for any rows and claimants: its types, and an attempt  *)
(* left for whoever holds a claim.                                         *)
TableInv == TableTypeOK /\ ClaimedRowsHaveAttemptsLeft

LEMMA TableInitially == TableInit => TableInv
BY TableAssumption DEF TableInit, TableInv, TableTypeOK, ClaimedRowsHaveAttemptsLeft

(* Every statement, from every claimant, keeps the invariant; the type of  *)
(* attempts needs the second conjunct, because release counts.             *)
LEMMA TableStep == TableInv /\ [TableNext]_table => TableInv'
<1> SUFFICES ASSUME TableInv, [TableNext]_table PROVE TableInv'
  OBVIOUS
<1> USE TableAssumption DEF TableInv, TableTypeOK, ClaimedRowsHaveAttemptsLeft
<1>1. ASSUME NEW j \in Jobs, Enqueue(j) PROVE TableInv'
  BY <1>1 DEF Enqueue
<1>2. ASSUME NEW S \in SUBSET Jobs, Drop(S) PROVE TableInv'
  BY <1>2 DEF Drop, Remove, Unclaimed
<1>3. ASSUME NEW j \in Jobs, Relane(j) PROVE TableInv'
  BY <1>3 DEF Relane, Unclaimed
<1>4. ASSUME NEW j \in Jobs, Expire(j) PROVE TableInv'
  BY <1>4 DEF Expire
<1>5. ASSUME NEW c \in Claimants, NEW j \in Jobs, Claim(c, j) PROVE TableInv'
  BY <1>5 DEF Claim, Claimable, Unclaimed
<1>6. ASSUME NEW c \in Claimants, NEW j \in Jobs, Release(c, j) PROVE TableInv'
  <2>1. CASE Owns(c, j)
    <3>1. attempts[j] + 1 \in 0..MaxAttempts
      BY <2>1 DEF Owns
    <3>2. /\ attempts' = [attempts EXCEPT ![j] = @ + 1]
          /\ claimedBy' = [claimedBy EXCEPT ![j] = NoOne]
          /\ stale' = [stale EXCEPT ![j] = FALSE]
          /\ UNCHANGED <<minted, queued>>
      BY <1>6, <2>1 DEF Release
    <3>3. TableTypeOK'
      BY <3>1, <3>2
    <3>4. ClaimedRowsHaveAttemptsLeft'
      BY <3>2
    <3> QED BY <3>3, <3>4
  <2>2. CASE ~Owns(c, j)
    BY <1>6, <2>2 DEF Release, table
  <2> QED BY <2>1, <2>2
<1>7. ASSUME NEW c \in Claimants, NEW j \in Jobs, Complete(c, j) PROVE TableInv'
  <2>1. CASE Owns(c, j)
    <3>1. Remove({j})
      BY <1>7, <2>1 DEF Complete
    <3> QED BY <3>1 DEF Remove
  <2>2. CASE ~Owns(c, j)
    BY <1>7, <2>2 DEF Complete, table
  <2> QED BY <2>1, <2>2
<1>8. ASSUME NEW except \in Claimants \cup {NoOne}, ReclaimStale(except) PROVE TableInv'
  BY <1>8 DEF ReclaimStale
<1>9. CASE UNCHANGED table
  BY <1>9 DEF table
<1> QED BY <1>1, <1>2, <1>3, <1>4, <1>5, <1>6, <1>7, <1>8, <1>9 DEF TableNext

(* The table's types and its attempt bound are invariants of its           *)
(* specification.                                                          *)
THEOREM TableSafe == TableSpec => [](TableTypeOK /\ ClaimedRowsHaveAttemptsLeft)
<1>1. TableInv => TableTypeOK /\ ClaimedRowsHaveAttemptsLeft
  BY DEF TableInv
<1> QED BY TableInitially, TableStep, <1>1, PTL DEF TableSpec

-----------------------------------------------------------------------------
LEMMA SlotType == ASSUME WorkerTypeOK, NEW w \in Claimants, NEW s \in Slots
                  PROVE  /\ slot[w][s] \in Run \cup {Idle}
                         /\ slot[w][s] # Idle => slot[w][s] \in Run
                         /\ slot[w][s] # Idle => slot[w][s].job \in Jobs
BY DEF WorkerTypeOK, Run

(* A failed run gives its claim back when the attempts are spent, and holds *)
(* it behind a timer otherwise.                                             *)
LEMMA FailEffect ==
    ASSUME NEW w \in Claimants, NEW s \in Slots, RunFails(w, s)
    PROVE  \/ Release(w, slot[w][s].job) /\ UNCHANGED <<held, timers>>
           \/ /\ held' = [held EXCEPT ![w] = @ \cup {slot[w][s].job}]
              /\ timers' = [timers EXCEPT ![w][slot[w][s].job] = @ + 1]
              /\ UNCHANGED table
BY DEF RunFails, Hold

-----------------------------------------------------------------------------
(* Every step of the worker is one statement on the table, or none.        *)
LEMMA StepOnTable == WorkerTypeOK /\ [Next]_vars => [TableNext]_table
<1> SUFFICES ASSUME WorkerTypeOK, [Next]_vars PROVE [TableNext]_table
  OBVIOUS
<1>1. ASSUME NEW w \in Claimants, WorkerStep(w) PROVE [TableNext]_table
  <2>1. ASSUME NEW s \in Slots, NEW j \in Jobs, PumpClaim(w, s, j) PROVE [TableNext]_table
    BY <2>1 DEF PumpClaim, TableNext
  <2>2. ASSUME NEW s \in Slots, RunSucceeds(w, s) PROVE [TableNext]_table
    BY <2>2, SlotType DEF RunSucceeds, TableNext
  <2>3. ASSUME NEW s \in Slots, RunFails(w, s) PROVE [TableNext]_table
    <3>1. slot[w][s].job \in Jobs
      BY <2>3, SlotType DEF RunFails
    <3>2. Release(w, slot[w][s].job) \/ UNCHANGED table
      BY <2>3 DEF RunFails, Hold
    <3> QED BY <3>1, <3>2 DEF TableNext
  <2>4. ASSUME NEW j \in Jobs, TimerFires(w, j) \/ GiveBack(w, j) PROVE [TableNext]_table
    BY <2>4 DEF TimerFires, GiveBack, TableNext
  <2>5. CASE PumpDone(w) \/ CooldownEnds(w) \/ VectorsDrained(w) \/ AwaitRuns(w) \/ StopDone(w)
    BY <2>5 DEF PumpDone, CooldownEnds, VectorsDrained, AwaitRuns, StopDone
  <2>6. CASE Reap(w)
    BY <2>6 DEF Reap, TableNext
  <2> QED BY <1>1, <2>1, <2>2, <2>3, <2>4, <2>5, <2>6 DEF WorkerStep, RunEnds
<1>2. ASSUME NEW w \in Claimants, Start(w) PROVE [TableNext]_table
  BY <1>2 DEF Start, TableNext
<1>3. ASSUME NEW w \in Claimants, Stop(w) \/ Crash(w) PROVE [TableNext]_table
  BY <1>3 DEF Stop, Crash
<1>4. ASSUME NEW w \in Claimants, NEW j \in Jobs, Intake(w, j) PROVE [TableNext]_table
  BY <1>4 DEF Intake, TableNext
<1>5. ASSUME NEW j \in Jobs, ReEnqueue(j) \/ DeadLetter(j) \/ ClaimExpires(j)
      PROVE [TableNext]_table
  BY <1>5 DEF ReEnqueue, DeadLetter, ClaimExpires, TableNext
<1>6. ASSUME NEW S \in SUBSET Jobs, QueueDrop(S) PROVE [TableNext]_table
  BY <1>6 DEF QueueDrop, TableNext
<1>7. CASE UNCHANGED vars
  BY <1>7 DEF vars
<1> QED BY <1>1, <1>2, <1>3, <1>4, <1>5, <1>6, <1>7 DEF Next

-----------------------------------------------------------------------------
(* Types.                                                                   *)
LEMMA TypesInitially == Init => WorkerTypeOK
BY WorkerAssumption DEF Init, WorkerTypeOK, Phases

LEMMA TypesStep == WorkerTypeOK /\ TableTypeOK /\ [Next]_vars => WorkerTypeOK'
<1> SUFFICES ASSUME WorkerTypeOK, TableTypeOK, [Next]_vars PROVE WorkerTypeOK'
  OBVIOUS
<1> USE WorkerAssumption DEF WorkerTypeOK, Phases
<1>1. ASSUME NEW w \in Claimants, NEW s \in Slots, NEW j \in Jobs, PumpClaim(w, s, j)
      PROVE WorkerTypeOK'
  <2>1. [job |-> j, attempts |-> attempts[j]] \in Run
    BY DEF TableTypeOK, Run
  <2> QED BY <1>1, <2>1 DEF PumpClaim
<1>2. ASSUME NEW w \in Claimants, NEW s \in Slots, RunSucceeds(w, s) PROVE WorkerTypeOK'
  BY <1>2 DEF RunSucceeds, CallPump
<1>3. ASSUME NEW w \in Claimants, NEW s \in Slots, RunFails(w, s) PROVE WorkerTypeOK'
  <2>1. slot[w][s].job \in Jobs
    BY <1>3, SlotType DEF RunFails
  <2>2. held' \in [Claimants -> SUBSET Jobs] /\ timers' \in [Claimants -> [Jobs -> Nat]]
    <3>1. CASE UNCHANGED <<held, timers>>
      BY <3>1
    <3>2. CASE /\ held' = [held EXCEPT ![w] = @ \cup {slot[w][s].job}]
               /\ timers' = [timers EXCEPT ![w][slot[w][s].job] = @ + 1]
      BY <3>2, <2>1
    <3> QED BY <1>3, <3>1, <3>2, FailEffect
  <2>3. failures' \in [Claimants -> 0..BreakerThreshold]
    BY <1>3 DEF RunFails, NoteFailure
  <2>4. paused' \in [Claimants -> BOOLEAN]
    <3>1. PICK b \in BOOLEAN : paused' = [paused EXCEPT ![w] = b]
      BY <1>3, Zenon DEF RunFails, NoteFailure
    <3> QED BY <3>1
  <2>5. cooldown' \in [Claimants -> BOOLEAN]
    <3>1. PICK b \in BOOLEAN : cooldown' = [cooldown EXCEPT ![w] = b]
      BY <1>3, Zenon DEF RunFails, NoteFailure
    <3> QED BY <3>1
  <2> QED BY <1>3, <2>2, <2>3, <2>4, <2>5 DEF RunFails, CallPump
<1>4. ASSUME NEW w \in Claimants, NEW j \in Jobs, TimerFires(w, j) PROVE WorkerTypeOK'
  BY <1>4 DEF TimerFires, CallPump
<1>5. ASSUME NEW w \in Claimants, NEW j \in Jobs, GiveBack(w, j) PROVE WorkerTypeOK'
  BY <1>5 DEF GiveBack
<1>6. ASSUME NEW w \in Claimants, PumpDone(w) \/ AwaitRuns(w) \/ StopDone(w)
      PROVE WorkerTypeOK'
  BY <1>6 DEF PumpDone, AwaitRuns, StopDone
<1>7. ASSUME NEW w \in Claimants, CooldownEnds(w) PROVE WorkerTypeOK'
  BY <1>7 DEF CooldownEnds, CallPump
<1>8. ASSUME NEW w \in Claimants, VectorsDrained(w) \/ Reap(w) PROVE WorkerTypeOK'
  BY <1>8 DEF VectorsDrained, Reap, CallPump
<1>9. ASSUME NEW w \in Claimants, Start(w) \/ Stop(w) PROVE WorkerTypeOK'
  BY <1>9 DEF Start, Stop
<1>10. ASSUME NEW w \in Claimants, Crash(w) PROVE WorkerTypeOK'
  BY <1>10 DEF Crash
<1>11. ASSUME NEW w \in Claimants, NEW j \in Jobs, Intake(w, j) PROVE WorkerTypeOK'
  BY <1>11 DEF Intake, CallPump
<1>12. ASSUME NEW j \in Jobs, ReEnqueue(j) \/ DeadLetter(j) \/ ClaimExpires(j)
       PROVE WorkerTypeOK'
  BY <1>12 DEF ReEnqueue, DeadLetter, ClaimExpires, worker
<1>13. ASSUME NEW S \in SUBSET Jobs, QueueDrop(S) PROVE WorkerTypeOK'
  BY <1>13 DEF QueueDrop, worker
<1>14. CASE UNCHANGED vars
  BY <1>14 DEF vars, worker
<1> QED BY <1>1, <1>2, <1>3, <1>4, <1>5, <1>6, <1>7, <1>8, <1>9, <1>10, <1>11, <1>12, <1>13, <1>14
        DEF Next, WorkerStep, RunEnds

-----------------------------------------------------------------------------
(* The pool, the held retries and the table agree.                          *)

\* Nothing pumps once stop has begun, and nothing is left when it is done.
Lifecycle == \A w \in Claimants :
    /\ pc[w] = "pump" => ~Stopped(w)
    /\ phase[w] = "stopped" => NothingRuns(w) /\ held[w] = {}

WorkerInv == WorkerTypeOK /\ TableInv /\ Lifecycle /\ NoOrphanedClaim

LEMMA InvInitially == Init => WorkerInv
<1> SUFFICES ASSUME Init PROVE WorkerInv
  OBVIOUS
<1>1. WorkerTypeOK /\ TableInv
  BY TypesInitially, TableInitially DEF Init
<1>2. Lifecycle
  BY DEF Init, Lifecycle, Stopped, NothingRuns
<1>3. NoOrphanedClaim
  BY TableAssumption DEF Init, TableInit, NoOrphanedClaim
<1> QED BY <1>1, <1>2, <1>3 DEF WorkerInv

LEMMA LifecycleStep == WorkerInv /\ [Next]_vars => Lifecycle'
<1> SUFFICES ASSUME WorkerInv, [Next]_vars, NEW v \in Claimants
             PROVE  /\ (pc[v] = "pump" => ~Stopped(v))'
                    /\ (phase[v] = "stopped" => NothingRuns(v) /\ held[v] = {})'
  BY DEF Lifecycle
<1> DEFINE Goal == /\ pc[v] = "pump" => ~Stopped(v)
                   /\ phase[v] = "stopped" => NothingRuns(v) /\ held[v] = {}
<1>0. Goal
  BY DEF WorkerInv, Lifecycle
<1> USE <1>0 DEF Goal, WorkerInv, WorkerTypeOK, Stopped, NothingRuns, Free, Up
<1>1. ASSUME NEW w \in Claimants, NEW s \in Slots, NEW j \in Jobs, PumpClaim(w, s, j) PROVE Goal'
  BY <1>1 DEF PumpClaim
<1>2. ASSUME NEW w \in Claimants, NEW s \in Slots, RunSucceeds(w, s) PROVE Goal'
  BY <1>2 DEF RunSucceeds, CallPump
<1>3. ASSUME NEW w \in Claimants, NEW s \in Slots, RunFails(w, s) PROVE Goal'
  <2>1. CASE v = w
    BY <1>3, <2>1 DEF RunFails, CallPump
  <2>2. CASE v # w
    <3>1. pc'[v] = pc[v] /\ phase'[v] = phase[v] /\ slot'[v] = slot[v]
      BY <1>3, <2>2 DEF RunFails, CallPump
    <3>2. held'[v] = held[v]
      BY <1>3, <2>2, FailEffect
    <3> QED BY <3>1, <3>2
  <2> QED BY <2>1, <2>2
<1>4. ASSUME NEW w \in Claimants, NEW j \in Jobs, TimerFires(w, j) PROVE Goal'
  BY <1>4 DEF TimerFires, CallPump
<1>5. ASSUME NEW w \in Claimants, NEW j \in Jobs, GiveBack(w, j) PROVE Goal'
  BY <1>5 DEF GiveBack
<1>6. ASSUME NEW w \in Claimants, PumpDone(w) \/ AwaitRuns(w) \/ StopDone(w) PROVE Goal'
  BY <1>6 DEF PumpDone, AwaitRuns, StopDone
<1>7. ASSUME NEW w \in Claimants, CooldownEnds(w) PROVE Goal'
  BY <1>7 DEF CooldownEnds, CallPump
<1>8. ASSUME NEW w \in Claimants, VectorsDrained(w) \/ Reap(w) PROVE Goal'
  BY <1>8 DEF VectorsDrained, Reap, CallPump
<1>9. ASSUME NEW w \in Claimants, Start(w) \/ Stop(w) PROVE Goal'
  BY <1>9 DEF Start, Stop
<1>10. ASSUME NEW w \in Claimants, Crash(w) PROVE Goal'
  BY <1>10 DEF Crash
<1>11. ASSUME NEW w \in Claimants, NEW j \in Jobs, Intake(w, j) PROVE Goal'
  BY <1>11 DEF Intake, CallPump
<1>12. ASSUME NEW j \in Jobs, ReEnqueue(j) \/ DeadLetter(j) \/ ClaimExpires(j)
       PROVE Goal'
  BY <1>12 DEF ReEnqueue, DeadLetter, ClaimExpires, worker
<1>13. ASSUME NEW S \in SUBSET Jobs, QueueDrop(S) PROVE Goal'
  BY <1>13 DEF QueueDrop, worker
<1>14. CASE UNCHANGED vars
  BY <1>14 DEF vars, worker
<1> QED BY <1>1, <1>2, <1>3, <1>4, <1>5, <1>6, <1>7, <1>8, <1>9, <1>10, <1>11, <1>12, <1>13, <1>14
        DEF Next, WorkerStep, RunEnds

(* Giving a row back, or losing it, only takes it out of claimedBy.         *)
LEMMA ReleaseFrees ==
    ASSUME TableInv, NEW c \in Claimants, NEW j \in Jobs, Release(c, j) \/ Complete(c, j)
    PROVE  \A v \in Claimants, k \in Jobs :
               claimedBy'[k] = v => claimedBy[k] = v /\ ~(v = c /\ k = j)
<1> USE TableAssumption DEF TableInv, TableTypeOK
<1>1. CASE Owns(c, j)
  <2>1. claimedBy' = [claimedBy EXCEPT ![j] = NoOne]
    BY <1>1 DEF Release, Complete, Remove
  <2> QED BY <2>1
<1>2. CASE ~Owns(c, j)
  <2>1. UNCHANGED table
    BY <1>2 DEF Release, Complete
  <2>2. claimedBy[j] # c
    BY <1>2 DEF Owns, ClaimedRowsHaveAttemptsLeft
  <2> QED BY <2>1, <2>2 DEF table
<1> QED BY <1>1, <1>2

(* A drop takes unclaimed rows only.                                        *)
LEMMA DropKeepsClaims ==
    ASSUME TableInv, NEW v \in Claimants, NEW S \in SUBSET Jobs, Drop(S)
    PROVE  \A k \in Jobs : /\ claimedBy'[k] = v => claimedBy[k] = v
                           /\ Owns(v, k) => Owns(v, k)'
                           /\ claimedBy'[k] = v /\ stale'[k] => claimedBy[k] = v /\ stale[k]
BY TableAssumption DEF TableInv, TableTypeOK, Owns, Drop, Remove, Unclaimed

LEMMA NoOrphanStep == WorkerInv /\ [Next]_vars => NoOrphanedClaim'
<1> SUFFICES ASSUME WorkerInv, [Next]_vars, NEW v \in Claimants, NEW k \in Jobs,
                    claimedBy'[k] = v, phase'[v] # "dead"
             PROVE  InPool(v, k)' \/ k \in held'[v]
  BY DEF NoOrphanedClaim, Up
<1> DEFINE Goal == InPool(v, k)' \/ k \in held'[v]
<1> DEFINE Before == claimedBy[k] = v /\ phase[v] # "dead"
<1>0. Before => InPool(v, k) \/ k \in held[v]
  BY DEF WorkerInv, NoOrphanedClaim, Up
<1> USE TableAssumption DEF WorkerInv, WorkerTypeOK, TableInv, TableTypeOK, InPool
<1>1. ASSUME NEW w \in Claimants, NEW s \in Slots, NEW j \in Jobs, PumpClaim(w, s, j) PROVE Goal
  <2>1. CASE v = w /\ k = j
    BY <1>1, <2>1 DEF PumpClaim
  <2>2. CASE ~(v = w /\ k = j)
    <3>1. Before
      BY <1>1, <2>2 DEF PumpClaim, Claim
    <3>2. \A t \in Slots : slot[v][t].job = k => slot'[v][t].job = k
      BY <1>1, WorkerAssumption DEF PumpClaim, Idle
    <3> QED BY <1>0, <1>1, <3>1, <3>2 DEF PumpClaim
  <2> QED BY <2>1, <2>2
<1>2. ASSUME NEW w \in Claimants, NEW s \in Slots, RunSucceeds(w, s) PROVE Goal
  <2>1. slot[w][s].job \in Jobs
    BY <1>2, SlotType DEF RunSucceeds
  <2>2. Complete(w, slot[w][s].job)
    BY <1>2 DEF RunSucceeds
  <2>3. Before /\ ~(v = w /\ k = slot[w][s].job)
    <3>1. claimedBy[k] = v /\ ~(v = w /\ k = slot[w][s].job)
      BY <2>1, <2>2, ReleaseFrees
    <3> QED BY <1>2, <3>1 DEF RunSucceeds
  <2>4. \A t \in Slots : slot[v][t].job = k => slot'[v][t].job = k
    BY <1>2, <2>3 DEF RunSucceeds
  <2> QED BY <1>0, <1>2, <2>3, <2>4 DEF RunSucceeds
<1>3. ASSUME NEW w \in Claimants, NEW s \in Slots, RunFails(w, s) PROVE Goal
  <2>1. slot[w][s].job \in Jobs
    BY <1>3, SlotType DEF RunFails
  <2>2. \A t \in Slots : slot[v][t].job = k /\ ~(v = w /\ k = slot[w][s].job)
                            => slot'[v][t].job = k
    BY <1>3 DEF RunFails
  <2>3. phase' = phase
    BY <1>3 DEF RunFails
  <2>4. CASE Release(w, slot[w][s].job) /\ UNCHANGED <<held, timers>>
    <3>1. Before /\ ~(v = w /\ k = slot[w][s].job)
      BY <2>1, <2>3, <2>4, ReleaseFrees
    <3> QED BY <1>0, <2>2, <2>4, <3>1
  <2>5. CASE /\ held' = [held EXCEPT ![w] = @ \cup {slot[w][s].job}]
             /\ timers' = [timers EXCEPT ![w][slot[w][s].job] = @ + 1]
             /\ UNCHANGED table
    BY <1>0, <2>1, <2>2, <2>3, <2>5 DEF table
  <2> QED BY <1>3, <2>4, <2>5, FailEffect
<1>4. ASSUME NEW w \in Claimants, NEW j \in Jobs, TimerFires(w, j) \/ GiveBack(w, j) PROVE Goal
  <2>1. Release(w, j) /\ phase' = phase
    BY <1>4 DEF TimerFires, GiveBack
  <2>2. claimedBy[k] = v /\ ~(v = w /\ k = j)
    BY <2>1, ReleaseFrees
  <2>3. slot' = slot /\ held' = [held EXCEPT ![w] = @ \ {j}]
    BY <1>4 DEF TimerFires, GiveBack
  <2> QED BY <1>0, <2>1, <2>2, <2>3
<1>5. ASSUME NEW w \in Claimants,
             \/ PumpDone(w) \/ AwaitRuns(w) \/ StopDone(w) \/ CooldownEnds(w)
             \/ VectorsDrained(w) \/ Stop(w)
      PROVE Goal
  BY <1>0, <1>5 DEF PumpDone, AwaitRuns, StopDone, CooldownEnds, VectorsDrained, Stop, table, Free, Up
<1>6. ASSUME NEW w \in Claimants, Reap(w) \/ Start(w) PROVE Goal
  BY <1>0, <1>6 DEF Reap, Start, ReclaimStale, Free, Up
<1>7. ASSUME NEW w \in Claimants, Crash(w) PROVE Goal
  BY <1>0, <1>7 DEF Crash, table
<1>8. ASSUME NEW w \in Claimants, NEW j \in Jobs, Intake(w, j) PROVE Goal
  BY <1>0, <1>8 DEF Intake, Enqueue
<1>9. ASSUME NEW j \in Jobs, ReEnqueue(j) \/ DeadLetter(j) \/ ClaimExpires(j)
      PROVE Goal
  BY <1>0, <1>9 DEF ReEnqueue, DeadLetter, ClaimExpires, Enqueue, Relane, Expire, worker
<1>10. ASSUME NEW S \in SUBSET Jobs, QueueDrop(S) PROVE Goal
  <2>1. UNCHANGED worker /\ Drop(S)
    BY <1>10 DEF QueueDrop
  <2> QED BY <1>0, <2>1, DropKeepsClaims DEF worker
<1>11. CASE UNCHANGED vars
  BY <1>0, <1>11 DEF vars, table, worker
<1> QED BY <1>1, <1>2, <1>3, <1>4, <1>5, <1>6, <1>7, <1>8, <1>9, <1>10, <1>11
        DEF Next, WorkerStep, RunEnds

LEMMA InvStep == WorkerInv /\ [Next]_vars => WorkerInv'
BY TypesStep, StepOnTable, TableStep, LifecycleStep, NoOrphanStep DEF WorkerInv, TableInv

-----------------------------------------------------------------------------
(* Every variable keeps its type, whatever crashes, expires or races.       *)
THEOREM WorkerTypes == Spec => []TypeOK
<1>1. WorkerInv => TypeOK
  BY DEF WorkerInv, TableInv, TypeOK
<1> QED BY InvInitially, InvStep, <1>1, PTL DEF Spec

(* A worker that is up never loses track of a claim it holds, even when     *)
(* live claims expire and other processes take its rows.                    *)
THEOREM ClaimsAreTracked == Spec => []NoOrphanedClaim
<1>1. WorkerInv => NoOrphanedClaim
  BY DEF WorkerInv
<1> QED BY InvInitially, InvStep, <1>1, PTL DEF Spec

(* stop leaves no claim behind.                                             *)
THEOREM StopLeavesNothing == Spec => []StopGivesEverythingBack
<1>1. WorkerInv => StopGivesEverythingBack
  BY WorkerAssumption DEF WorkerInv, Lifecycle, NoOrphanedClaim, StopGivesEverythingBack, NothingRuns,
     InPool, Up, Idle
<1> QED BY InvInitially, InvStep, <1>1, PTL DEF Spec

-----------------------------------------------------------------------------
(* One run per row, when only the claims of dead processes expire.          *)

\* What w runs and holds is exactly what it owns, once each, and only a dead
\* worker's claim is stale.
Exclusive(w) ==
    /\ \A s \in Slots : slot[w][s] # Idle =>
          Owns(w, slot[w][s].job) /\ slot[w][s].job \notin held[w]
    /\ \A s, t \in Slots : s # t /\ slot[w][s] # Idle => slot[w][s].job # slot[w][t].job
    /\ \A j \in held[w] : Owns(w, j)
    /\ \A j \in Jobs : timers[w][j] = IF j \in held[w] THEN 1 ELSE 0
    /\ phase[w] = "dead" => NothingRuns(w) /\ held[w] = {}
    /\ \A j \in Jobs : claimedBy[j] = w /\ stale[j] => phase[w] = "dead"

ExclusiveInv == WorkerInv /\ \A w \in Claimants : Exclusive(w)

LEMMA ExclusiveInitially == Init => ExclusiveInv
<1> SUFFICES ASSUME Init, NEW w \in Claimants PROVE Exclusive(w)
  BY InvInitially DEF ExclusiveInv
<1> QED BY DEF Init, TableInit, Exclusive, NothingRuns

(* A worker that takes no part in a step, and whose claims the step leaves  *)
(* to it, stays exclusive.                                                  *)
LEMMA Bystander ==
    ASSUME NEW v \in Claimants, Exclusive(v),
           phase'[v] = phase[v], slot'[v] = slot[v], held'[v] = held[v], timers'[v] = timers[v],
           phase[v] = "dead" \/ \A j \in Jobs : Owns(v, j) => Owns(v, j)',
           \A j \in Jobs : claimedBy'[j] = v /\ stale'[j] => claimedBy[j] = v /\ stale[j],
           WorkerTypeOK
    PROVE  Exclusive(v)'
<1>1. \A s \in Slots : slot[v][s] # Idle => slot[v][s].job \in Jobs
  BY SlotType
<1>2. held[v] \subseteq Jobs
  BY DEF WorkerTypeOK
<1>3. CASE phase[v] = "dead"
  BY <1>3 DEF Exclusive, NothingRuns
<1>4. CASE phase[v] # "dead"
  <2>1. \A s \in Slots : slot[v][s] # Idle =>
            Owns(v, slot[v][s].job)' /\ slot[v][s].job \notin held[v]
    BY <1>1, <1>4 DEF Exclusive
  <2>2. \A j \in held[v] : Owns(v, j)'
    BY <1>2, <1>4 DEF Exclusive
  <2>3. \A s \in Slots : slot'[v][s] # Idle =>
            (Owns(v, slot[v][s].job))' /\ slot'[v][s].job \notin held'[v]
    BY <2>1 DEF Owns
  <2>4. \A j \in held'[v] : Owns(v, j)'
    BY <2>2
  <2>5. \A j \in Jobs : claimedBy'[j] = v /\ stale'[j] => phase'[v] = "dead"
    BY DEF Exclusive
  <2> QED BY <1>4, <2>3, <2>4, <2>5 DEF Exclusive
<1> QED BY <1>3, <1>4

(* A statement of another claimant leaves v the rows v owns.                *)
LEMMA OthersRowsKept ==
    ASSUME TableInv, NEW v \in Claimants, NEW c \in Claimants, NEW j \in Jobs,
           \/ c # v /\ (Release(c, j) \/ Complete(c, j))
           \/ c # v /\ Claim(c, j)
           \/ Enqueue(j) \/ Relane(j)
           \/ UNCHANGED table
    PROVE  \A k \in Jobs : /\ Owns(v, k) => Owns(v, k)'
                           /\ claimedBy'[k] = v /\ stale'[k] => claimedBy[k] = v /\ stale[k]
<1> USE TableAssumption DEF TableInv, TableTypeOK, Owns
<1>1. CASE c # v /\ Release(c, j)
  BY <1>1 DEF Release, table
<1>2. CASE c # v /\ Complete(c, j)
  BY <1>2 DEF Complete, Remove, table
<1>3. CASE c # v /\ Claim(c, j)
  BY <1>3 DEF Claim, Claimable, Unclaimed
<1>4. CASE Enqueue(j)
  BY <1>4 DEF Enqueue
<1>5. CASE Relane(j)
  BY <1>5 DEF Relane
<1>6. CASE UNCHANGED table
  BY <1>6 DEF table
<1> QED BY <1>1, <1>2, <1>3, <1>4, <1>5, <1>6

(* The sweep takes back the claims of dead workers only.                    *)
LEMMA SweepTakesDeadClaims ==
    ASSUME ExclusiveInv, NEW except \in Claimants \cup {NoOne}, ReclaimStale(except),
           NEW v \in Claimants
    PROVE  /\ phase[v] = "dead" \/ \A j \in Jobs : Owns(v, j) => Owns(v, j)'
           /\ \A j \in Jobs : claimedBy'[j] = v /\ stale'[j] => claimedBy[j] = v /\ stale[j]
BY TableAssumption DEF ExclusiveInv, WorkerInv, TableInv, TableTypeOK, Exclusive, ReclaimStale,
   StaleClaims, Owns

(* A row v gives back, or completes, leaves v's pool and held retries with  *)
(* it.                                                                      *)
LEMMA RowDeparts ==
    ASSUME NEW v \in Claimants, NEW j \in Jobs, Exclusive(v), WorkerTypeOK, TableInv,
           Owns(v, j), Release(v, j) \/ Complete(v, j),
           phase'[v] = phase[v], phase[v] # "dead",
           \A t \in Slots : slot'[v][t] # Idle => slot'[v][t] = slot[v][t] /\ slot[v][t].job # j,
           held'[v] = held[v] \ {j},
           \A k \in Jobs : timers'[v][k] = IF k = j THEN 0 ELSE timers[v][k]
    PROVE  Exclusive(v)'
<1>1. /\ \A k \in Jobs \ {j} : Owns(v, k) => Owns(v, k)'
      /\ \A k \in Jobs : claimedBy'[k] = v /\ stale'[k] => claimedBy[k] = v /\ stale[k]
  <2>1. CASE Release(v, j)
    BY <2>1, TableAssumption DEF Release, Owns, TableInv, TableTypeOK
  <2>2. CASE Complete(v, j)
    BY <2>2, TableAssumption DEF Complete, Remove, Owns, TableInv, TableTypeOK
  <2> QED BY <2>1, <2>2
<1>2. \A t \in Slots : slot'[v][t] # Idle =>
          (Owns(v, slot[v][t].job))' /\ slot'[v][t].job \notin held'[v]
  <2> SUFFICES ASSUME NEW t \in Slots, slot'[v][t] # Idle
               PROVE (Owns(v, slot[v][t].job))' /\ slot'[v][t].job \notin held'[v]
    OBVIOUS
  <2>1. slot'[v][t] = slot[v][t] /\ slot[v][t].job \in Jobs \ {j}
    BY SlotType
  <2>2. Owns(v, slot[v][t].job) /\ slot[v][t].job \notin held[v]
    BY <2>1 DEF Exclusive
  <2> QED BY <1>1, <2>1, <2>2 DEF Owns
<1>3. \A t, u \in Slots : t # u /\ slot'[v][t] # Idle => slot'[v][t].job # slot'[v][u].job
  BY SlotType, WorkerAssumption DEF Exclusive, Idle
<1>4. \A k \in held'[v] : Owns(v, k)'
  BY <1>1 DEF Exclusive, WorkerTypeOK
<1>5. \A k \in Jobs : timers'[v][k] = IF k \in held'[v] THEN 1 ELSE 0
  BY DEF Exclusive
<1>6. \A k \in Jobs : claimedBy'[k] = v /\ stale'[k] => phase'[v] = "dead"
  BY <1>1 DEF Exclusive
<1> QED BY <1>2, <1>3, <1>4, <1>5, <1>6 DEF Exclusive

LEMMA ExclusiveStep ==
    ASSUME ~LiveClaimsExpire, ExclusiveInv, [Next]_vars, NEW v \in Claimants
    PROVE  Exclusive(v)'
<1> USE DEF ExclusiveInv, WorkerInv
<1>0. Exclusive(v) /\ WorkerTypeOK /\ TableInv
  OBVIOUS
<1>1. ASSUME NEW w \in Claimants, NEW s \in Slots, NEW j \in Jobs, PumpClaim(w, s, j)
      PROVE Exclusive(v)'
  <2>1. CASE v # w
    BY <1>0, <1>1, <2>1, Bystander, OthersRowsKept DEF PumpClaim, WorkerTypeOK
  <2>2. CASE v = w
    <3> USE <1>0, <1>1, <2>2
    <3>1. claimedBy[j] = NoOne /\ j \in queued
      BY DEF PumpClaim, Claim, Claimable, Unclaimed
    <3>2. j \notin held[v] /\ ~InPool(v, j)
      BY <3>1, TableAssumption, WorkerAssumption DEF Exclusive, Owns, InPool, Idle
    <3>3. /\ slot'[v][s] = [job |-> j, attempts |-> attempts[j]]
          /\ \A t \in Slots \ {s} : slot'[v][t] = slot[v][t]
          /\ held'[v] = held[v] /\ timers'[v] = timers[v] /\ phase'[v] = phase[v]
          /\ phase[v] # "dead"
      BY DEF PumpClaim, WorkerTypeOK, Up
    <3>4. /\ \A k \in Jobs : Owns(v, k) => Owns(v, k)'
          /\ Owns(v, j)'
          /\ \A k \in Jobs : claimedBy'[k] = v /\ stale'[k] => claimedBy[k] = v /\ stale[k]
      BY <3>1 DEF PumpClaim, Claim, Owns, TableInv, TableTypeOK
    <3>5. \A t \in Slots : slot'[v][t] # Idle =>
              /\ (Owns(v, slot[v][t].job))'
              /\ slot'[v][t].job \notin held'[v]
      <4> SUFFICES ASSUME NEW t \in Slots, slot'[v][t] # Idle
                   PROVE (Owns(v, slot[v][t].job))' /\ slot'[v][t].job \notin held'[v]
        OBVIOUS
      <4>1. CASE t = s
        BY <3>2, <3>3, <3>4, <4>1 DEF Owns
      <4>2. CASE t # s
        BY <3>3, <3>4, <4>2, SlotType DEF Exclusive, Owns
      <4> QED BY <4>1, <4>2
    <3>6. \A t, u \in Slots : t # u /\ slot'[v][t] # Idle => slot'[v][t].job # slot'[v][u].job
      BY <3>2, <3>3 DEF Exclusive, InPool
    <3>7. \A k \in held'[v] : Owns(v, k)'
      BY <3>3, <3>4 DEF Exclusive, WorkerTypeOK
    <3>8. \A k \in Jobs : claimedBy'[k] = v /\ stale'[k] => phase'[v] = "dead"
      BY <3>3, <3>4 DEF Exclusive
    <3> QED BY <3>3, <3>5, <3>6, <3>7, <3>8 DEF Exclusive
  <2> QED BY <2>1, <2>2
<1>2. ASSUME NEW w \in Claimants, NEW s \in Slots, RunSucceeds(w, s) PROVE Exclusive(v)'
  <2>1. slot[w][s].job \in Jobs
    BY <1>0, <1>2, SlotType DEF RunSucceeds
  <2>2. CASE v # w
    BY <1>0, <1>2, <2>1, <2>2, Bystander, OthersRowsKept DEF RunSucceeds, WorkerTypeOK
  <2>3. CASE v = w
    <3>1. /\ Owns(v, slot[v][s].job) /\ slot[v][s].job \notin held[v]
          /\ \A t \in Slots : t # s => slot[v][t].job # slot[v][s].job
      BY <1>0, <1>2, <2>3 DEF RunSucceeds, Exclusive
    <3>2. /\ phase'[v] = phase[v] /\ phase[v] # "dead"
          /\ held'[v] = held[v] /\ timers'[v] = timers[v]
          /\ \A t \in Slots : slot'[v][t] = IF t = s THEN Idle ELSE slot[v][t]
      BY <1>0, <1>2, <2>3 DEF RunSucceeds, WorkerTypeOK, Free, Up
    <3>3. timers[v][slot[v][s].job] = 0
      BY <1>0, <2>1, <2>3, <3>1 DEF Exclusive
    <3> QED BY <1>0, <1>2, <2>1, <2>3, <3>1, <3>2, <3>3, RowDeparts DEF RunSucceeds
  <2> QED BY <2>2, <2>3
<1>3. ASSUME NEW w \in Claimants, NEW s \in Slots, RunFails(w, s) PROVE Exclusive(v)'
  <2>1. slot[w][s].job \in Jobs
    BY <1>0, <1>3, SlotType DEF RunFails
  <2>2. CASE v # w
    <3>1. held'[v] = held[v] /\ timers'[v] = timers[v]
      BY <1>0, <1>3, <2>2, FailEffect DEF WorkerTypeOK
    <3>2. phase'[v] = phase[v] /\ slot'[v] = slot[v]
      BY <1>0, <1>3, <2>2 DEF RunFails, WorkerTypeOK
    <3>3. Release(w, slot[w][s].job) \/ UNCHANGED table
      BY <1>3, FailEffect
    <3> QED BY <1>0, <2>1, <2>2, <3>1, <3>2, <3>3, Bystander, OthersRowsKept
  <2>3. CASE v = w
    <3> DEFINE j == slot[v][s].job
    <3>1. /\ Owns(v, j) /\ j \notin held[v] /\ j \in Jobs
          /\ \A t \in Slots : t # s => slot[v][t].job # j
      BY <1>0, <1>3, <2>1, <2>3 DEF RunFails, Exclusive
    <3>2. /\ phase'[v] = phase[v] /\ phase[v] # "dead"
          /\ \A t \in Slots : slot'[v][t] = IF t = s THEN Idle ELSE slot[v][t]
      BY <1>0, <1>3, <2>3 DEF RunFails, WorkerTypeOK, Free, Up
    <3>3. timers[v][j] = 0
      BY <1>0, <3>1 DEF Exclusive
    <3>4. CASE Release(w, slot[w][s].job) /\ UNCHANGED <<held, timers>>
      BY <1>0, <2>3, <3>1, <3>2, <3>3, <3>4, RowDeparts
    <3>5. CASE /\ held' = [held EXCEPT ![w] = @ \cup {slot[w][s].job}]
               /\ timers' = [timers EXCEPT ![w][slot[w][s].job] = @ + 1]
               /\ UNCHANGED table
      <4>1. /\ held'[v] = held[v] \cup {j}
            /\ \A k \in Jobs : timers'[v][k] = IF k = j THEN 1 ELSE timers[v][k]
        BY <1>0, <2>3, <3>1, <3>3, <3>5 DEF WorkerTypeOK
      <4>2. \A k \in Jobs : Owns(v, k)' <=> Owns(v, k)
        BY <3>5 DEF table, Owns
      <4>3. \A t \in Slots : slot'[v][t] # Idle =>
                (Owns(v, slot[v][t].job))' /\ slot'[v][t].job \notin held'[v]
        <5> SUFFICES ASSUME NEW t \in Slots, slot'[v][t] # Idle
                     PROVE (Owns(v, slot[v][t].job))' /\ slot'[v][t].job \notin held'[v]
          OBVIOUS
        <5>1. t # s /\ slot'[v][t] = slot[v][t] /\ slot[v][t] # Idle
          BY <3>2
        <5>2. Owns(v, slot[v][t].job) /\ slot[v][t].job \notin held[v] /\ slot[v][t].job # j
          BY <1>0, <3>1, <5>1 DEF Exclusive
        <5> QED BY <3>5, <4>1, <5>1, <5>2 DEF Owns, table
      <4>4. \A t, u \in Slots : t # u /\ slot'[v][t] # Idle => slot'[v][t].job # slot'[v][u].job
        BY <1>0, <3>2, SlotType, WorkerAssumption DEF Exclusive, Idle
      <4>5. \A k \in held'[v] : Owns(v, k)'
        BY <1>0, <3>1, <4>1, <4>2 DEF Exclusive, WorkerTypeOK
      <4>6. \A k \in Jobs : timers'[v][k] = IF k \in held'[v] THEN 1 ELSE 0
        BY <1>0, <4>1 DEF Exclusive
      <4>7. \A k \in Jobs : claimedBy'[k] = v /\ stale'[k] => phase'[v] = "dead"
        BY <1>0, <3>2, <3>5 DEF Exclusive, table
      <4> QED BY <3>2, <4>3, <4>4, <4>5, <4>6, <4>7 DEF Exclusive
    <3> QED BY <1>3, <2>3, <3>4, <3>5, FailEffect
  <2> QED BY <2>2, <2>3
<1>4. ASSUME NEW w \in Claimants, NEW j \in Jobs, TimerFires(w, j) \/ GiveBack(w, j)
      PROVE Exclusive(v)'
  <2>1. Release(w, j) /\ phase' = phase /\ slot' = slot /\ held' = [held EXCEPT ![w] = @ \ {j}]
    BY <1>4 DEF TimerFires, GiveBack
  <2>2. CASE v # w
    <3>1. held'[v] = held[v] /\ timers'[v] = timers[v]
      BY <1>0, <1>4, <2>2 DEF TimerFires, GiveBack, WorkerTypeOK
    <3> QED BY <1>0, <2>1, <2>2, <3>1, Bystander, OthersRowsKept
  <2>3. CASE v = w
    <3>1. j \in held[v]
      BY <1>0, <1>4, <2>3 DEF TimerFires, GiveBack, Exclusive
    <3>2. Owns(v, j) /\ timers[v][j] = 1 /\ \A t \in Slots : slot[v][t] # Idle => slot[v][t].job # j
      BY <1>0, <3>1 DEF Exclusive
    <3>3. /\ phase[v] # "dead" /\ held'[v] = held[v] \ {j}
          /\ \A k \in Jobs : timers'[v][k] = IF k = j THEN 0 ELSE timers[v][k]
      BY <1>0, <1>4, <2>1, <2>3, <3>2 DEF TimerFires, GiveBack, WorkerTypeOK, Free, Up
    <3> QED BY <1>0, <2>1, <2>3, <3>2, <3>3, RowDeparts
  <2> QED BY <2>2, <2>3
<1>5. ASSUME NEW w \in Claimants,
             \/ PumpDone(w) \/ AwaitRuns(w) \/ StopDone(w) \/ CooldownEnds(w)
             \/ VectorsDrained(w) \/ Stop(w)
      PROVE Exclusive(v)'
  <2>1. UNCHANGED <<table, slot, held, timers>>
    BY <1>5 DEF PumpDone, AwaitRuns, StopDone, CooldownEnds, VectorsDrained, Stop
  <2>2. phase'[v] = phase[v] \/ (phase[v] # "dead" /\ phase'[v] # "dead")
    BY <1>0, <1>5 DEF PumpDone, AwaitRuns, StopDone, CooldownEnds, VectorsDrained, Stop, WorkerTypeOK
  <2> QED BY <1>0, <2>1, <2>2 DEF Exclusive, Owns, NothingRuns, table
<1>6. ASSUME NEW w \in Claimants, Reap(w) \/ Start(w) PROVE Exclusive(v)'
  <2>1. PICK except \in Claimants \cup {NoOne} : ReclaimStale(except)
    BY <1>6 DEF Reap, Start
  <2>2. UNCHANGED <<slot, held, timers>>
    BY <1>6 DEF Reap, Start
  <2>3. phase'[v] = phase[v] \/ (phase[v] # "dead" /\ phase'[v] # "dead")
    BY <1>0, <1>6 DEF Reap, Start, WorkerTypeOK
  <2>4. CASE phase'[v] = phase[v]
    BY <1>0, <2>1, <2>2, <2>4, SweepTakesDeadClaims, Bystander
  <2>5. CASE phase[v] # "dead" /\ phase'[v] # "dead"
    <3>1. \A s \in Slots : slot[v][s] # Idle => slot[v][s].job \in Jobs
      BY <1>0, SlotType
    <3>2. \A s \in Slots : slot'[v][s] # Idle =>
              (Owns(v, slot[v][s].job))' /\ slot'[v][s].job \notin held'[v]
      BY <1>0, <2>1, <2>2, <2>5, <3>1, SweepTakesDeadClaims DEF Exclusive, Owns
    <3>3. \A k \in held'[v] : Owns(v, k)'
      BY <1>0, <2>1, <2>2, <2>5, SweepTakesDeadClaims DEF Exclusive, WorkerTypeOK
    <3>4. \A k \in Jobs : ~(claimedBy'[k] = v /\ stale'[k])
      BY <1>0, <2>1, <2>5, SweepTakesDeadClaims DEF Exclusive
    <3> QED BY <1>0, <2>2, <2>5, <3>2, <3>3, <3>4 DEF Exclusive
  <2> QED BY <2>3, <2>4, <2>5
<1>7. ASSUME NEW w \in Claimants, Crash(w) PROVE Exclusive(v)'
  <2>1. CASE v # w
    BY <1>0, <1>7, <2>1, Bystander DEF Crash, WorkerTypeOK, Owns, table
  <2>2. CASE v = w
    BY <1>0, <1>7, <2>2 DEF Crash, WorkerTypeOK, Exclusive, NothingRuns
  <2> QED BY <2>1, <2>2
<1>8. ASSUME NEW w \in Claimants, NEW j \in Jobs, Intake(w, j) PROVE Exclusive(v)'
  BY <1>0, <1>8, Bystander, OthersRowsKept DEF Intake
<1>9. ASSUME NEW j \in Jobs, ReEnqueue(j) \/ DeadLetter(j) PROVE Exclusive(v)'
  <2>1. UNCHANGED worker /\ (Enqueue(j) \/ Relane(j))
    BY <1>9 DEF ReEnqueue, DeadLetter
  <2> QED BY <1>0, <2>1, Bystander, OthersRowsKept DEF worker
<1>10. ASSUME NEW j \in Jobs, ClaimExpires(j) PROVE Exclusive(v)'
  <2>1. /\ phase[claimedBy[j]] = "dead" /\ UNCHANGED <<queued, claimedBy, phase, slot, held, timers>>
        /\ stale' = [stale EXCEPT ![j] = TRUE]
    BY <1>10 DEF ClaimExpires, Expire, worker
  <2> QED BY <1>0, <2>1 DEF Exclusive, Owns, NothingRuns, TableInv, TableTypeOK
<1>11. ASSUME NEW S \in SUBSET Jobs, QueueDrop(S) PROVE Exclusive(v)'
  <2>1. UNCHANGED worker /\ Drop(S)
    BY <1>11 DEF QueueDrop
  <2> QED BY <1>0, <2>1, Bystander, DropKeepsClaims DEF worker
<1>12. CASE UNCHANGED vars
  BY <1>0, <1>12, Bystander DEF vars, table, worker, Owns
<1> QED BY <1>1, <1>2, <1>3, <1>4, <1>5, <1>6, <1>7, <1>8, <1>9, <1>10, <1>11, <1>12
        DEF Next, WorkerStep, RunEnds

(* Unless a live claim expires, a run in a pool owns its row, and no row is *)
(* run twice at once, for any number of processes, crashes and restarts.    *)
THEOREM RowsRunOnce == Spec => []OneRunPerRow
<1>1. CASE LiveClaimsExpire
  <2>1. OneRunPerRow
    BY <1>1 DEF OneRunPerRow
  <2> QED BY <2>1, PTL
<1>2. CASE ~LiveClaimsExpire
  <2>1. ExclusiveInv /\ [Next]_vars => ExclusiveInv'
    BY <1>2, ExclusiveStep, InvStep DEF ExclusiveInv
  <2>2. ExclusiveInv => OneRunPerRow
    BY DEF ExclusiveInv, Exclusive, OneRunPerRow
  <2> QED BY ExclusiveInitially, <2>1, <2>2, PTL DEF Spec
<1> QED BY <1>1, <1>2
=============================================================================
