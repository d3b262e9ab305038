--------------------------- MODULE ReflectionWorker ---------------------------
(***************************************************************************)
(* ReflectionWorker (core/src/reflection/application/worker.ts) over the   *)
(* claim table: the processes that drain reflection_queue.                 *)
(*                                                                         *)
(* A worker is one instance and one claimant id; a process that crashes    *)
(* comes back as another.  Its handlers run on one event loop, so a        *)
(* handler's synchronous part is never cut by another handler of the same  *)
(* worker, but other processes' statements fall between its own: pc[w] is  *)
(* the synchronous loop w is inside ("pump" in #pump, "giveback" in        *)
(* #releaseHeld), and every action issues at most one SQL statement.       *)
(***************************************************************************)
EXTENDS ClaimTable, FiniteSets

CONSTANTS
    Slots,             \* places in the pool: workerCount of them
    BreakerThreshold,  \* consecutive failures that pause claiming
    LiveClaimsExpire,  \* may a run outlive the stale-claim timeout?
    Quietly,           \* the jobs that may become claimable with no worker signalled
    MaxExpiries        \* bound: claims that expire in one behaviour

ASSUME WorkerAssumption == /\ NoOne \notin Jobs
                           /\ BreakerThreshold \in Nat \ {0}
                           /\ LiveClaimsExpire \in BOOLEAN
                           /\ Quietly \subseteq Jobs
                           /\ MaxExpiries \in Nat

VARIABLES
    phase,     \* lifecycle of the instance: #started and #stopped together
    pc,        \* the synchronous loop its event loop is inside, or "idle"
    slot,      \* #running: the run in each place of the pool, with the job as claimed
    held,      \* keys of #retries: jobs whose claim is held through a backoff
    timers,    \* backoff timers armed per job; a later one may shadow an earlier in #retries
    failures,  \* #consecutiveFailures, saturated at the threshold
    paused,    \* #paused
    cooldown,  \* #cooldown is armed
    seen,      \* jobs that carry the dead-letter marker
    expiries   \* claims expired so far

worker == <<phase, pc, slot, held, timers, failures, paused, cooldown>>
vars == <<table, worker, seen, expiries>>

Idle == [job |-> NoOne, attempts |-> 0]
Run  == [job : Jobs, attempts : 0..MaxAttempts]

Phases == {"fresh", "vectors", "live", "stopping", "stopped", "dead"}
Started(w) == phase[w] \in {"vectors", "live", "stopping"}
Stopped(w) == phase[w] \in {"stopping", "stopped"}
Up(w) == phase[w] # "dead"
Free(w) == pc[w] = "idle" /\ Up(w)     \* the event loop can take the next handler

InPool(w, j) == \E s \in Slots : slot[w][s].job = j
NothingRuns(w) == \A s \in Slots : slot[w][s] = Idle

WorkerTypeOK ==
    /\ phase \in [Claimants -> Phases]
    /\ pc \in [Claimants -> {"idle", "pump", "giveback"}]
    /\ slot \in [Claimants -> [Slots -> Run \cup {Idle}]]
    /\ held \in [Claimants -> SUBSET Jobs]
    /\ timers \in [Claimants -> [Jobs -> Nat]]
    /\ failures \in [Claimants -> 0..BreakerThreshold]
    /\ paused \in [Claimants -> BOOLEAN]
    /\ cooldown \in [Claimants -> BOOLEAN]
    /\ seen \subseteq Jobs
    /\ expiries \in 0..MaxExpiries

(* Types of the table and of every worker's memory.                        *)
TypeOK == TableTypeOK /\ WorkerTypeOK

Init == /\ TableInit
        /\ phase = [w \in Claimants |-> "fresh"]
        /\ pc = [w \in Claimants |-> "idle"]
        /\ slot = [w \in Claimants |-> [s \in Slots |-> Idle]]
        /\ held = [w \in Claimants |-> {}]
        /\ timers = [w \in Claimants |-> [j \in Jobs |-> 0]]
        /\ failures = [w \in Claimants |-> 0]
        /\ paused = [w \in Claimants |-> FALSE]
        /\ cooldown = [w \in Claimants |-> FALSE]
        /\ seen = {}
        /\ expiries = 0

-----------------------------------------------------------------------------
(* #pump: guarded once by #stopped and #paused, then one claimNext per      *)
(* free place until the pool is full or nothing is claimable.               *)

\* w calls #pump as the last thing its handler does; `isPaused` is #paused by then.
CallPump(w, isPaused) ==
    pc' = [pc EXCEPT ![w] = IF Stopped(w) \/ isPaused THEN "idle" ELSE "pump"]

PumpClaim(w, s, j) ==
    /\ pc[w] = "pump" /\ Up(w)
    /\ slot[w][s] = Idle
    /\ Claim(w, j)
    /\ slot' = [slot EXCEPT ![w][s] = [job |-> j, attempts |-> attempts[j]]]
    /\ UNCHANGED <<phase, pc, held, timers, failures, paused, cooldown, seen, expiries>>

PumpDone(w) ==
    /\ pc[w] = "pump" /\ Up(w)
    /\ \/ \A s \in Slots : slot[w][s] # Idle
       \/ \A j \in Jobs : ~Claimable(j)
    /\ pc' = [pc EXCEPT ![w] = "idle"]
    /\ UNCHANGED <<table, phase, slot, held, timers, failures, paused, cooldown, seen, expiries>>

-----------------------------------------------------------------------------
(* #execute, #succeed and #fail, and the settled wrapper of #launch that    *)
(* frees the place and pumps again.                                         *)

\* The run applied, or found the episode already applied or unavailable.
RunSucceeds(w, s) ==
    /\ Free(w) /\ slot[w][s] # Idle
    /\ Complete(w, slot[w][s].job)
    /\ slot' = [slot EXCEPT ![w][s] = Idle]
    /\ failures' = [failures EXCEPT ![w] = 0]
    /\ CallPump(w, paused[w])
    /\ UNCHANGED <<phase, held, timers, paused, cooldown, seen, expiries>>

\* #noteFailure.
NoteFailure(w) ==
    LET n == IF failures[w] < BreakerThreshold THEN failures[w] + 1 ELSE failures[w]
        trips == n >= BreakerThreshold /\ ~paused[w]
    IN /\ failures' = [failures EXCEPT ![w] = n]
       /\ paused' = [paused EXCEPT ![w] = @ \/ trips]
       /\ cooldown' = [cooldown EXCEPT ![w] = @ \/ trips]

\* Mutant: the backoff is not armed.
ForgetJob(w, j) == UNCHANGED <<table, held, timers>>

\* The claim stays held until the backoff timer gives it back.
Hold(w, j) == /\ held' = [held EXCEPT ![w] = @ \cup {j}]
              /\ timers' = [timers EXCEPT ![w][j] = @ + 1]
              /\ UNCHANGED table

\* The run threw, or completed with a failed stage; the claim is held through the backoff.
\* The attempt is counted on the job as it was claimed, which may not be the row as it is.
RunFails(w, s) ==
    LET run == slot[w][s]
        spent == run.attempts + 1 >= MaxAttempts
    IN /\ Free(w) /\ run # Idle
       /\ slot' = [slot EXCEPT ![w][s] = Idle]
       /\ NoteFailure(w)
       /\ IF spent THEN Release(w, run.job) /\ UNCHANGED <<held, timers>>
                   ELSE Hold(w, run.job)
       /\ CallPump(w, paused'[w])
       /\ UNCHANGED <<phase, seen, expiries>>

\* The callback of one backoff timer: forget the key, count the attempt, pump.
TimerFires(w, j) ==
    /\ Free(w) /\ timers[w][j] > 0
    /\ timers' = [timers EXCEPT ![w][j] = @ - 1]
    /\ held' = [held EXCEPT ![w] = @ \ {j}]
    /\ Release(w, j)
    /\ CallPump(w, paused[w])
    /\ UNCHANGED <<phase, slot, failures, paused, cooldown, seen, expiries>>

CooldownEnds(w) ==
    /\ Free(w) /\ cooldown[w]
    /\ cooldown' = [cooldown EXCEPT ![w] = FALSE]
    /\ paused' = [paused EXCEPT ![w] = FALSE]
    /\ failures' = [failures EXCEPT ![w] = 0]
    /\ CallPump(w, FALSE)
    /\ UNCHANGED <<table, phase, slot, held, timers, seen, expiries>>

-----------------------------------------------------------------------------
(* Lifecycle.                                                               *)

NoOtherUp(w) == \A v \in Claimants \ {w} : ~Started(v)

\* start, up to its first await: every expired claim comes back, its own id included.
Start(w) ==
    /\ Free(w) /\ phase[w] \in {"fresh", "stopped"}
    /\ ReclaimStale(NoOne)
    /\ phase' = [phase EXCEPT ![w] = "vectors"]
    /\ UNCHANGED <<pc, slot, held, timers, failures, paused, cooldown, seen, expiries>>

\* #drainPendingVectors returns, whatever it attached, and #drainQueue pumps.
VectorsDrained(w) ==
    /\ Free(w) /\ phase[w] = "vectors"
    /\ phase' = [phase EXCEPT ![w] = "live"]
    /\ CallPump(w, paused[w])
    /\ UNCHANGED <<table, slot, held, timers, failures, paused, cooldown, seen, expiries>>

\* stop, up to its first #releaseHeld; the reaper and the cooldown are cleared.
Stop(w) ==
    /\ Free(w) /\ phase[w] \in {"vectors", "live"}
    /\ phase' = [phase EXCEPT ![w] = "stopping"]
    /\ cooldown' = [cooldown EXCEPT ![w] = FALSE]
    /\ paused' = [paused EXCEPT ![w] = FALSE]
    /\ pc' = [pc EXCEPT ![w] = "giveback"]
    /\ UNCHANGED <<table, slot, held, timers, failures, seen, expiries>>

\* One turn of #releaseHeld: in stop's first pass, or in the second once nothing runs.
GiveBack(w, j) ==
    /\ phase[w] = "stopping"
    /\ pc[w] = "giveback" \/ NothingRuns(w)
    /\ j \in held[w]
    /\ held' = [held EXCEPT ![w] = @ \ {j}]
    /\ timers' = [timers EXCEPT ![w][j] = IF @ > 0 THEN @ - 1 ELSE 0]
    /\ Release(w, j)
    /\ UNCHANGED <<phase, pc, slot, failures, paused, cooldown, seen, expiries>>

\* stop's first pass is over: it awaits the runs in flight.
AwaitRuns(w) ==
    /\ pc[w] = "giveback" /\ Up(w) /\ held[w] = {}
    /\ pc' = [pc EXCEPT ![w] = "idle"]
    /\ UNCHANGED <<table, phase, slot, held, timers, failures, paused, cooldown, seen, expiries>>

\* Mutant: what failed while stop waited is not given back.
StopDoneEarly(w) ==
    /\ Free(w) /\ phase[w] = "stopping" /\ NothingRuns(w)
    /\ phase' = [phase EXCEPT ![w] = "stopped"]
    /\ UNCHANGED <<table, pc, slot, held, timers, failures, paused, cooldown, seen, expiries>>

StopDone(w) ==
    /\ Free(w) /\ phase[w] = "stopping"
    /\ NothingRuns(w) /\ held[w] = {}
    /\ phase' = [phase EXCEPT ![w] = "stopped"]
    /\ UNCHANGED <<table, pc, slot, held, timers, failures, paused, cooldown, seen, expiries>>

\* The process dies at any point; nothing in memory survives, its claims do.
Crash(w) ==
    /\ phase[w] \in {"vectors", "live", "stopping"}
    /\ phase' = [phase EXCEPT ![w] = "dead"]
    /\ pc' = [pc EXCEPT ![w] = "idle"]
    /\ slot' = [slot EXCEPT ![w] = [s \in Slots |-> Idle]]
    /\ held' = [held EXCEPT ![w] = {}]
    /\ timers' = [timers EXCEPT ![w] = [j \in Jobs |-> 0]]
    /\ failures' = [failures EXCEPT ![w] = 0]
    /\ paused' = [paused EXCEPT ![w] = FALSE]
    /\ cooldown' = [cooldown EXCEPT ![w] = FALSE]
    /\ UNCHANGED <<table, seen, expiries>>

-----------------------------------------------------------------------------
(* What arrives from outside the worker.                                    *)

\* Intake in w's own process commits a row and calls wake, inert before start and after stop.
Intake(w, j) ==
    /\ Free(w) /\ (Started(w) \/ NoOtherUp(w) \/ j \in Quietly)
    /\ Enqueue(j)
    /\ IF Started(w) THEN CallPump(w, paused[w]) ELSE UNCHANGED pc
    /\ UNCHANGED <<phase, slot, held, timers, failures, paused, cooldown, seen, expiries>>

\* reconcile --re-enqueue, from the CLI or the reconcile_reenqueue operation: nobody wakes a worker.
ReEnqueue(j) ==
    /\ j \in Quietly
    /\ Enqueue(j)
    /\ UNCHANGED <<worker, seen, expiries>>

\* The dead_letter operation gives a spent row its one retry, and wakes nobody either.
DeadLetter(j) ==
    /\ j \in Quietly
    /\ Exhausted(j) /\ j \notin seen
    /\ Relane(j)
    /\ seen' = seen \cup {j}
    /\ UNCHANGED <<worker, expiries>>

\* aion queue drop.
QueueDrop(S) ==
    /\ Drop(S)
    /\ UNCHANGED <<worker, seen, expiries>>

ClaimExpires(j) ==
    /\ expiries < MaxExpiries
    /\ Expire(j)
    /\ LiveClaimsExpire \/ phase[claimedBy[j]] = "dead"
    /\ expiries' = expiries + 1
    /\ UNCHANGED <<worker, seen>>

\* #reapStaleClaims, on its timer, when there is something to reap.
Reap(w) ==
    /\ Free(w) /\ phase[w] \in {"vectors", "live"}
    /\ StaleClaims(w) # {}
    /\ ReclaimStale(w)
    /\ CallPump(w, paused[w])
    /\ UNCHANGED <<phase, slot, held, timers, failures, paused, cooldown, seen, expiries>>

-----------------------------------------------------------------------------
RunEnds(w, s) == RunSucceeds(w, s) \/ RunFails(w, s)

WorkerStep(w) ==
    \/ \E s \in Slots, j \in Jobs : PumpClaim(w, s, j)
    \/ PumpDone(w)
    \/ \E s \in Slots : RunEnds(w, s)
    \/ \E j \in Jobs : TimerFires(w, j)
    \/ CooldownEnds(w)
    \/ VectorsDrained(w)
    \/ \E j \in Jobs : GiveBack(w, j)
    \/ AwaitRuns(w)
    \/ StopDone(w)
    \/ Reap(w)

Next ==
    \/ \E w \in Claimants : WorkerStep(w) \/ Start(w) \/ Stop(w) \/ Crash(w)
    \/ \E w \in Claimants, j \in Jobs : Intake(w, j)
    \/ \E j \in Jobs : ReEnqueue(j) \/ DeadLetter(j) \/ ClaimExpires(j)
    \/ \E S \in (SUBSET Jobs) \ {{}} : QueueDrop(S)

Spec == Init /\ [][Next]_vars

(* The event loop runs every handler that is due; timers fire; a run ends,  *)
(* because every stage works under a deadline; time passes; and a service   *)
(* that is down is started again.  Nothing is assumed of intake, of         *)
(* maintenance, of stops or of crashes.                                     *)
Fairness ==
    /\ \A w \in Claimants :
         /\ WF_vars(\E s \in Slots, j \in Jobs : PumpClaim(w, s, j))
         /\ WF_vars(PumpDone(w))
         /\ \A s \in Slots : WF_vars(RunEnds(w, s))
         /\ \A j \in Jobs : WF_vars(TimerFires(w, j)) /\ WF_vars(GiveBack(w, j))
         /\ WF_vars(CooldownEnds(w))
         /\ WF_vars(VectorsDrained(w))
         /\ WF_vars(AwaitRuns(w)) /\ WF_vars(StopDone(w))
         /\ WF_vars(Reap(w))
         /\ WF_vars(Start(w))
    /\ \A j \in Jobs : WF_vars(ClaimExpires(j))

FairSpec == Spec /\ Fairness

-----------------------------------------------------------------------------
(* A row claimed by a worker that is up is one it is running or holding    *)
(* through a backoff.  Its own sweep never takes its own claims back, so a *)
(* claim it lost track of would keep the episode unenriched until the      *)
(* process ends.  This holds even when another process takes a live claim  *)
(* away and the two workers' timers and runs interleave over the row.      *)
NoOrphanedClaim ==
    \A w \in Claimants, j \in Jobs :
        claimedBy[j] = w /\ Up(w) => InPool(w, j) \/ j \in held[w]

(* As long as only the claims of dead processes expire, a run in a pool    *)
(* still owns its row, so no episode is in the pipeline twice: not in two  *)
(* places of one pool, not in two processes, and not while its retry waits *)
(* out a backoff.                                                          *)
OneRunPerRow ==
    ~LiveClaimsExpire =>
    /\ \A w \in Claimants, s \in Slots :
         slot[w][s] # Idle => Owns(w, slot[w][s].job) /\ slot[w][s].job \notin held[w]
    /\ \A w \in Claimants, s, t \in Slots :
         s # t /\ slot[w][s] # Idle => slot[w][s].job # slot[w][t].job

(* A worker that has stopped left no claim behind, so the next process     *)
(* need not wait out the stale timeout for any of its rows.                *)
StopGivesEverythingBack ==
    \A w \in Claimants : phase[w] = "stopped" => \A j \in Jobs : claimedBy[j] # w

(* Once some worker stays up, and as long as no two serve at once, every   *)
(* row its intake signalled is enriched, or dropped, or spends its         *)
(* attempts: crashes, expired claims, stops, breaker pauses and rows that  *)
(* maintenance queues without a signal notwithstanding.                    *)
EveryRowSettles ==
    /\ [](\A w \in Claimants : Started(w) => NoOtherUp(w))
    /\ <>[](\E w \in Claimants : phase[w] = "live")
    =>
        \A j \in Jobs \ Quietly : (j \in queued /\ ~Exhausted(j)) ~> (j \notin queued \/ Exhausted(j))
=============================================================================
