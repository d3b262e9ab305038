------------------------------ MODULE ClaimTable ------------------------------
(***************************************************************************)
(* What the SQLite table reflection_queue promises the processes that      *)
(* share it, with the order of service left out: a row is claimed by at    *)
(* most one claimant, counts an attempt only when its claimant gives it    *)
(* back, and comes back to the pool by that or by the stale-claim sweep.   *)
(*                                                                         *)
(* Each operator below is one SQL statement of claim.ts, reflection-queue  *)
(* .ts, reflection-queue-admin.ts or dead-letter-queue.ts.  SQLite's write *)
(* lock makes a statement atomic, so each is one step here, whichever      *)
(* process issues it.  Which claimable row claimNext picks is the subject  *)
(* of ReflectionQueue, which implements this table.                        *)
(***************************************************************************)
EXTENDS Naturals

CONSTANTS Jobs,         \* row ids, UUIDs: an id is never used twice
          Claimants,    \* ids of ReflectionQueueClaimant instances
          NoOne,        \* claimed_by IS NULL
          MaxAttempts   \* workerMaxAttempts, read by every process alike

ASSUME TableAssumption == /\ NoOne \notin Claimants
                          /\ MaxAttempts \in Nat \ {0}

VARIABLES minted,     \* the ids that have ever been inserted
          queued,     \* the ids of the rows in the table
          attempts,   \* column attempts
          claimedBy,  \* column claimed_by
          stale       \* claimed_at is older than the stale-claim timeout

table == <<minted, queued, attempts, claimedBy, stale>>

TableTypeOK == /\ minted \subseteq Jobs
               /\ queued \subseteq minted
               /\ attempts \in [Jobs -> 0..MaxAttempts]
               /\ claimedBy \in [Jobs -> Claimants \cup {NoOne}]
               /\ stale \in [Jobs -> BOOLEAN]

TableInit == /\ minted = {}
             /\ queued = {}
             /\ attempts = [j \in Jobs |-> 0]
             /\ claimedBy = [j \in Jobs |-> NoOne]
             /\ stale = [j \in Jobs |-> FALSE]

-----------------------------------------------------------------------------
Unclaimed(j) == j \in queued /\ claimedBy[j] = NoOne
ClaimableForever(j) == Unclaimed(j)     \* mutant: no attempt limit
Claimable(j) == Unclaimed(j) /\ attempts[j] < MaxAttempts
Exhausted(j) == Unclaimed(j) /\ attempts[j] >= MaxAttempts
Owns(c, j)   == j \in queued /\ claimedBy[j] = c

\* DELETE of a set of rows; the columns of an absent row are reset to NULL.
Remove(S) == /\ queued' = queued \ S
             /\ attempts' = [j \in Jobs |-> IF j \in S THEN 0 ELSE attempts[j]]
             /\ claimedBy' = [j \in Jobs |-> IF j \in S THEN NoOne ELSE claimedBy[j]]
             /\ stale' = [j \in Jobs |-> stale[j] /\ j \notin S]
             /\ UNCHANGED minted

\* INSERT of a fresh row.
Enqueue(j) == /\ j \notin minted
              /\ minted' = minted \cup {j}
              /\ queued' = queued \cup {j}
              /\ UNCHANGED <<attempts, claimedBy, stale>>

\* claimNext's UPDATE ... RETURNING, once it has picked row j.
Claim(c, j) == /\ Claimable(j)
               /\ claimedBy' = [claimedBy EXCEPT ![j] = c]
               /\ stale' = [stale EXCEPT ![j] = FALSE]
               /\ UNCHANGED <<minted, queued, attempts>>

\* release: scoped to claimed_by = c, and a no-op on a row c does not hold.
Release(c, j) ==
    IF Owns(c, j)
    THEN /\ attempts' = [attempts EXCEPT ![j] = @ + 1]
         /\ claimedBy' = [claimedBy EXCEPT ![j] = NoOne]
         /\ stale' = [stale EXCEPT ![j] = FALSE]
         /\ UNCHANGED <<minted, queued>>
    ELSE UNCHANGED table

\* complete: the DELETE is scoped the same way.
Complete(c, j) == IF Owns(c, j) THEN Remove({j}) ELSE UNCHANGED table

\* Mutants: live claims as well; the sweeper's own claims only.
AllClaims(except) == {j \in queued : claimedBy[j] # NoOne /\ claimedBy[j] # except}
OwnStaleClaims(except) == {j \in queued : claimedBy[j] # NoOne /\ claimedBy[j] = except /\ stale[j]}

\* reclaimStaleReflectionJobs: every expired claim but those of `except`.
StaleClaims(except) == {j \in queued : /\ claimedBy[j] # NoOne
                                       /\ claimedBy[j] # except
                                       /\ stale[j]}

ReclaimStale(except) ==
    /\ claimedBy' = [j \in Jobs |-> IF j \in StaleClaims(except) THEN NoOne
                                                                 ELSE claimedBy[j]]
    /\ stale' = [j \in Jobs |-> stale[j] /\ j \notin StaleClaims(except)]
    /\ UNCHANGED <<minted, queued, attempts>>

\* dropUnclaimedJobs, when S are the unclaimed rows its filter matches.
Drop(S) == (\A j \in S : Unclaimed(j)) /\ Remove(S)

\* relaneDeadLetterJob on a row listExhaustedJobs returned.
Relane(j) == /\ Unclaimed(j)
             /\ attempts' = [attempts EXCEPT ![j] = 0]
             /\ UNCHANGED <<minted, queued, claimedBy, stale>>

\* The wall clock passes the stale-claim timeout for the claim on j.
Expire(j) == /\ j \in queued /\ claimedBy[j] # NoOne /\ ~stale[j]
             /\ stale' = [stale EXCEPT ![j] = TRUE]
             /\ UNCHANGED <<minted, queued, attempts, claimedBy>>

-----------------------------------------------------------------------------
TableNext ==
    \/ \E j \in Jobs : Enqueue(j) \/ Relane(j) \/ Expire(j)
    \/ \E S \in SUBSET Jobs : Drop(S)
    \/ \E c \in Claimants, j \in Jobs : Claim(c, j) \/ Release(c, j) \/ Complete(c, j)
    \/ \E except \in Claimants \cup {NoOne} : ReclaimStale(except)

TableSpec == TableInit /\ [][TableNext]_table

-----------------------------------------------------------------------------
(* A row under a claim always has an attempt left: release and the sweep   *)
(* clear the claim in the statement that changes the count, and claimNext  *)
(* skips spent rows, so no attempt past the maximum is ever counted,       *)
(* however claims expire and change hands.                                 *)
ClaimedRowsHaveAttemptsLeft ==
    \A j \in Jobs : claimedBy[j] # NoOne => j \in queued /\ attempts[j] < MaxAttempts
=============================================================================
