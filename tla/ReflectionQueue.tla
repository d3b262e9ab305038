---------------------------- MODULE ReflectionQueue ----------------------------
(***************************************************************************)
(* The table reflection_queue with its order of service: lanes, turns and  *)
(* rowids, the operator's drop and promote (reflection-queue-admin.ts, run *)
(* by cli/src/queue.ts) and the dead_letter pass.                          *)
(*                                                                         *)
(* Any process may issue any statement at any time, so an action is one    *)
(* SQL statement or transaction.  A caller that reads, and acts on what it *)
(* read later, takes one step for each.                                    *)
(***************************************************************************)
EXTENDS Integers, FiniteSets, FiniteSetsExt

CONSTANTS Jobs, Claimants, NoOne, MaxAttempts,
          Sessions,     \* graph sessions; a job without one is in a session of its own kind
          SessionOf,    \* the session of each job's episode
          Batch,        \* maintenance.deadLetterBatchSize; 0 turns the pass off
          Filters,      \* what somebody passes aion queue drop and promote
          Watched,      \* the jobs whose overtakers the history records
          MaxCrashes    \* bound: dead_letter passes cut short by a crash

ASSUME QueueAssumption == /\ NoOne \notin Claimants \cup Jobs
                          /\ MaxAttempts \in Nat \ {0}
                          /\ SessionOf \in [Jobs -> Sessions]
                          /\ Batch \in Nat
                          /\ Filters \subseteq [session : Sessions \cup {NoOne},
                                          lane : {"interactive", "bulk", NoOne}]
                          /\ Watched \subseteq Jobs
                          /\ MaxCrashes \in Nat

VARIABLES
    minted,     \* ids ever inserted
    rows,       \* the table: its rows by id
    seen,       \* ids with the ledger key intro:dead_letter:seen:<id>
    todo,       \* dead_letter: rows listed and not yet reached
    unmarked,   \* dead_letter: the row just relaned whose marker is not written yet
    operator,   \* the aion queue command waiting to act on what it read
    crashes,    \* dead_letter passes lost so far
    overtakers, \* history: rows of the same lane served while a claimable row waited
    moved,      \* history: rows promoted or relaned, whose turn is not the one they were enqueued with
    relanes     \* history: retries each row was given

queue == <<minted, rows>>
sweep == <<todo, unmarked, crashes>>
history == <<overtakers, moved, relanes>>
vars == <<queue, seen, sweep, operator, history>>

Lanes == {"interactive", "bulk"}
Row == [lane : Lanes, laneSeq : Nat \ {0}, rowid : Nat \ {0}, attempts : 0..MaxAttempts,
        claimedBy : Claimants \cup {NoOne}, stale : BOOLEAN]

NoCommand == [does |-> NoOne]

(* Types of the table, the sweep and the operator's command.               *)
TypeOK ==
    /\ minted \subseteq Jobs
    /\ DOMAIN rows \subseteq minted /\ \A j \in DOMAIN rows : rows[j] \in Row
    /\ seen \subseteq Jobs /\ todo \subseteq Jobs /\ unmarked \in Jobs \cup {NoOne}
    /\ crashes \in 0..MaxCrashes
    /\ \/ operator = NoCommand
       \/ operator \in [does : {"drop"}, filter : Filters, ids : SUBSET Jobs]
       \/ operator \in [does : {"promote"}, ids : SUBSET Jobs]
    /\ overtakers \in [Jobs -> SUBSET Jobs] /\ moved \subseteq Jobs /\ relanes \in [Jobs -> Nat]

Init == /\ minted = {} /\ rows = [j \in {} |-> NoOne]
        /\ seen = {} /\ todo = {} /\ unmarked = NoOne /\ crashes = 0
        /\ operator = NoCommand
        /\ overtakers = [j \in Jobs |-> {}] /\ moved = {} /\ relanes = [j \in Jobs |-> 0]

-----------------------------------------------------------------------------
Queued == DOMAIN rows
Unclaimed(j) == j \in Queued /\ rows[j].claimedBy = NoOne
Claimable(j) == Unclaimed(j) /\ rows[j].attempts < MaxAttempts
Exhausted(j) == Unclaimed(j) /\ rows[j].attempts >= MaxAttempts
Owns(c, j)   == j \in Queued /\ rows[j].claimedBy = c

Group(lane, s) == {j \in Queued : rows[j].lane = lane /\ SessionOf[j] = s}
GroupSize(lane, s) == Cardinality(Group(lane, s))     \* mutant: COUNT for MAX
HighWater(lane, s) == Max({rows[j].laneSeq : j \in Group(lane, s)} \cup {0})

\* The ORDER BY of CLAIM_NEXT.
LaneRank(j) == IF rows[j].lane = "interactive" THEN 0 ELSE 1
ByArrival(j, k) == \/ LaneRank(j) < LaneRank(k)      \* mutant: no turns
                   \/ LaneRank(j) = LaneRank(k) /\ rows[j].rowid < rows[k].rowid
Before(j, k) == \/ LaneRank(j) < LaneRank(k)
                \/ /\ LaneRank(j) = LaneRank(k)
                   /\ \/ rows[j].laneSeq < rows[k].laneSeq
                      \/ rows[j].laneSeq = rows[k].laneSeq /\ rows[j].rowid < rows[k].rowid
First(j) == Claimable(j) /\ \A k \in Queued \ {j} : Claimable(k) => Before(j, k)

Delete(S) == rows' = [j \in Queued \ S |-> rows[j]] /\ UNCHANGED minted

-----------------------------------------------------------------------------
(* The statements of the claim path.                                        *)

\* SQLite gives a fresh row the rowid after the largest in the table.
enqueueReflectionJob(j, lane) ==
    /\ j \notin minted
    /\ minted' = minted \cup {j}
    /\ LET row == [lane |-> lane, laneSeq |-> HighWater(lane, SessionOf[j]) + 1,
                   rowid |-> Max({rows[k].rowid : k \in Queued} \cup {0}) + 1,
                   attempts |-> 0, claimedBy |-> NoOne, stale |-> FALSE]
       IN rows' = [k \in Queued \cup {j} |-> IF k = j THEN row ELSE rows[k]]
    /\ UNCHANGED <<seen, sweep, operator, history>>

claimNext(c) == \E j \in Queued :
    /\ First(j)
    /\ rows' = [rows EXCEPT ![j].claimedBy = c, ![j].stale = FALSE]
    /\ overtakers' = [k \in Jobs |->
           IF k = j THEN {}
           ELSE IF k \in Watched /\ Claimable(k) /\ rows[k].lane = rows[j].lane
           THEN overtakers[k] \cup {j}
           ELSE overtakers[k]]
    /\ UNCHANGED <<minted, seen, sweep, operator, moved, relanes>>

release(c, j) ==
    /\ Owns(c, j)
    /\ rows' = [rows EXCEPT ![j].claimedBy = NoOne, ![j].stale = FALSE, ![j].attempts = @ + 1]
    /\ UNCHANGED <<minted, seen, sweep, operator, history>>

complete(c, j) ==
    /\ Owns(c, j)
    /\ Delete({j})
    /\ UNCHANGED <<seen, sweep, operator, history>>

reclaimStaleReflectionJobs(except) ==
    /\ rows' = [j \in Queued |->
           IF rows[j].stale /\ rows[j].claimedBy \notin {NoOne, except}
           THEN [rows[j] EXCEPT !.claimedBy = NoOne, !.stale = FALSE]
           ELSE rows[j]]
    /\ UNCHANGED <<minted, seen, sweep, operator, history>>

\* The clock passes the stale-claim timeout of the claim on j.
Expire(j) ==
    /\ j \in Queued /\ rows[j].claimedBy # NoOne /\ ~rows[j].stale
    /\ rows' = [rows EXCEPT ![j].stale = TRUE]
    /\ UNCHANGED <<minted, seen, sweep, operator, history>>

-----------------------------------------------------------------------------
(* The operator.  drop counts, asks, and drops once confirmed; promote      *)
(* lists the rows it will move and then moves them in one transaction.      *)

\* Mutant: claimed rows match as well.
MatchingClaimed(f) == {j \in Queued : /\ f.session \in {NoOne, SessionOf[j]}
                                      /\ f.lane \in {NoOne, rows[j].lane}}

\* A filter names a session, a lane, both or neither.
Matching(f) == {j \in Queued : /\ Unclaimed(j)
                               /\ f.session \in {NoOne, SessionOf[j]}
                               /\ f.lane \in {NoOne, rows[j].lane}}

runDrop(f) ==
    /\ operator = NoCommand
    /\ Matching(f) # {}
    /\ operator' = [does |-> "drop", filter |-> f, ids |-> Matching(f)]
    /\ UNCHANGED <<queue, seen, sweep, history>>

dropUnclaimedJobs ==
    /\ operator.does = "drop"
    /\ Delete(Matching(operator.filter))
    /\ operator' = NoCommand
    /\ UNCHANGED <<seen, sweep, history>>

Declined ==
    /\ operator.does = "drop"
    /\ operator' = NoCommand
    /\ UNCHANGED <<queue, seen, sweep, history>>

runPromote(f) ==
    /\ operator = NoCommand
    /\ operator' = [does |-> "promote",
                    ids |-> {j \in Matching(f) : rows[j].lane # "interactive"}]
    /\ UNCHANGED <<queue, seen, sweep, history>>

\* Each row takes the turn after the one before it of its session left behind.
promoteJobs ==
    /\ operator.does = "promote"
    /\ LET moving == {j \in operator.ids : Unclaimed(j) /\ rows[j].lane # "interactive"}
           turn(j) == HighWater("interactive", SessionOf[j])
                      + Cardinality({k \in moving : /\ SessionOf[k] = SessionOf[j]
                                                    /\ rows[k].laneSeq <= rows[j].laneSeq})
       IN /\ rows' = [j \in Queued |->
                IF j \in moving
                THEN [rows[j] EXCEPT !.lane = "interactive", !.laneSeq = turn(j)]
                ELSE rows[j]]
          /\ moved' = moved \cup moving
    /\ operator' = NoCommand
    /\ UNCHANGED <<minted, seen, sweep, overtakers, relanes>>

-----------------------------------------------------------------------------
(* The dead_letter operation: list a batch, then relane and mark each row.  *)

Spent == {j \in Queued : Exhausted(j)}     \* mutant: retried rows are listed again
Unseen == {j \in Queued : Exhausted(j) /\ j \notin seen}

\* enqueued_at orders rows as rowid does: both are stamped by the insert.
Older(j) == {k \in Unseen : rows[k].rowid < rows[j].rowid}

\* Mutant: the caller skips the retried rows, which still fill its batch.
ListsSpent ==
    /\ todo = {} /\ unmarked = NoOne
    /\ todo' = {j \in Spent : Cardinality({k \in Spent : rows[k].rowid < rows[j].rowid}) < Batch}
                \ seen
    /\ todo' # {}
    /\ UNCHANGED <<queue, seen, unmarked, crashes, operator, history>>

listExhaustedJobs ==
    /\ todo = {} /\ unmarked = NoOne
    /\ todo' = {j \in Unseen : Cardinality(Older(j)) < Batch}
    /\ todo' # {}
    /\ UNCHANGED <<queue, seen, unmarked, crashes, operator, history>>

relaneDeadLetterJob(j) ==
    /\ unmarked = NoOne /\ j \in todo
    /\ todo' = todo \ {j}
    /\ IF Unclaimed(j)
       THEN /\ rows' = [rows EXCEPT ![j].lane = "bulk", ![j].attempts = 0,
                                    ![j].laneSeq = HighWater("bulk", SessionOf[j]) + 1]
            /\ unmarked' = j
            /\ moved' = moved \cup {j}
            /\ relanes' = [relanes EXCEPT ![j] = @ + 1]
       ELSE UNCHANGED <<rows, unmarked, moved, relanes>>
    /\ UNCHANGED <<minted, seen, crashes, operator, overtakers>>

markLedgerApplied ==
    /\ unmarked # NoOne
    /\ seen' = seen \cup {unmarked}
    /\ unmarked' = NoOne
    /\ UNCHANGED <<queue, todo, crashes, operator, history>>

CrashSweep ==
    /\ crashes < MaxCrashes
    /\ todo # {} \/ unmarked # NoOne
    /\ todo' = {} /\ unmarked' = NoOne /\ crashes' = crashes + 1
    /\ UNCHANGED <<queue, seen, operator, history>>

-----------------------------------------------------------------------------
DeadLetter == listExhaustedJobs \/ (\E j \in Jobs : relaneDeadLetterJob(j)) \/ markLedgerApplied

Next ==
    \/ \E j \in Jobs, lane \in Lanes : enqueueReflectionJob(j, lane)
    \/ \E c \in Claimants : claimNext(c)
    \/ \E c \in Claimants, j \in Jobs : release(c, j) \/ complete(c, j)
    \/ \E except \in Claimants \cup {NoOne} : reclaimStaleReflectionJobs(except)
    \/ \E j \in Jobs : Expire(j)
    \/ \E f \in Filters : runDrop(f) \/ runPromote(f)
    \/ dropUnclaimedJobs \/ Declined \/ promoteJobs
    \/ DeadLetter \/ CrashSweep

Spec == Init /\ [][Next]_vars

\* The introspector runs dead_letter again while health reports exhausted rows.
FairSpec == Spec /\ WF_vars(DeadLetter)

-----------------------------------------------------------------------------
Table == INSTANCE ClaimTable WITH
    queued    <- Queued,
    attempts  <- [j \in Jobs |-> IF j \in Queued THEN rows[j].attempts ELSE 0],
    claimedBy <- [j \in Jobs |-> IF j \in Queued THEN rows[j].claimedBy ELSE NoOne],
    stale     <- [j \in Jobs |-> j \in Queued /\ rows[j].stale]

(* Lanes, turns, promotion and dead-lettering only decide the order of      *)
(* service: seen through ids, attempts and claims, every statement is one   *)
(* the claim table allows, so what holds of that table holds of this one.   *)
ImplementsClaimTable == Table!TableSpec

(* No two rows of a (lane, session) group share a turn, however rows enter  *)
(* the group: enqueued, promoted in a batch, or relaned after exhaustion.   *)
LaneTurnsDistinct ==
    \A j, k \in Queued :
        j # k /\ rows[j].lane = rows[k].lane /\ SessionOf[j] = SessionOf[k]
            => rows[j].laneSeq # rows[k].laneSeq

(* claim.ts:57: one session pushing a thousand episodes delays another's    *)
(* first episode by one job.  A row enqueued with turn 1 is overtaken, in   *)
(* its lane, by at most one row of each other session, and of its own by    *)
(* none; rows an operator promoted or dead_letter relaned do not count.     *)
FirstTurnWaitsOneJobPerSession ==
    \A j \in (Queued \cap Watched) \ moved : rows[j].laneSeq = 1 =>
        \A s \in Sessions :
            Cardinality({k \in overtakers[j] \ moved : SessionOf[k] = s})
                <= (IF s = SessionOf[j] THEN 0 ELSE 1)

(* A row is retried by dead_letter once in its life, however often it is    *)
(* exhausted, listed or touched by the operator in between; each further    *)
(* retry costs a crash between the relane and its marker.                   *)
RetriesCostCrashes == \A j \in Jobs : relanes[j] <= 1 + crashes

(* Rows that spent their retry do not fill the batch: every exhausted row   *)
(* gets its turn in the end, even with a batch of one.                      *)
EveryExhaustedRowGetsItsRetry ==
    \A j \in Jobs : (j \in Unseen) ~> (j \notin Unseen)
=============================================================================
