----------------------------- MODULE CircuitBreaker -----------------------------
(***************************************************************************)
(* The breaker in front of the remote model, shared by every caller of one *)
(* process: the worker's runs, the introspector and the narrative closer.  *)
(* run() is synchronous up to the call it wraps, so a call is two steps,   *)
(* its start and its answer, and the calls of several callers overlap.     *)
(*                                                                         *)
(* The clock is reduced to what run() asks of it: whether the cooldown     *)
(* that openedAt started is spent.                                         *)
(***************************************************************************)
EXTENDS Naturals, FiniteSets

CONSTANTS Callers, FailureThreshold

ASSUME BreakerAssumption == IsFiniteSet(Callers) /\ FailureThreshold \in Nat \ {0}

VARIABLES
    openedAt,             \* "null", "cooling" or "cooled"
    halfOpen,
    consecutiveFailures,
    call,                 \* each caller's call: "none", "plain", or "trial" when begun half-open
    cost                  \* history: failed calls of a caller since the cooldown it spent

breaker == <<openedAt, halfOpen, consecutiveFailures, call, cost>>

(* Types; calls begun before it opened may overshoot the threshold.        *)
BreakerTypeOK ==
    /\ openedAt \in {"null", "cooling", "cooled"} /\ halfOpen \in BOOLEAN
    /\ consecutiveFailures \in 0..(FailureThreshold - 1 + Cardinality(Callers))
    /\ call \in [Callers -> {"none", "plain", "trial"}]
    /\ cost \in [Callers -> Nat]

NoCost == [c \in Callers |-> 0]

BreakerInit ==
    /\ openedAt = "null" /\ halfOpen = FALSE /\ consecutiveFailures = 0
    /\ call = [c \in Callers |-> "none"] /\ cost = NoCost

CooldownPasses ==
    /\ openedAt = "cooling"
    /\ openedAt' = "cooled"
    /\ UNCHANGED <<halfOpen, consecutiveFailures, call, cost>>

\* Closed: the call goes through, a trial as well when the breaker is half-open already.
StartsPlain(c) ==
    /\ call[c] = "none" /\ openedAt = "null"
    /\ call' = [call EXCEPT ![c] = IF halfOpen THEN "trial" ELSE "plain"]
    /\ UNCHANGED <<openedAt, halfOpen, consecutiveFailures, cost>>

\* The cooldown is spent: this call is the trial, and the counter stays where it is.
StartsTrial(c) ==
    /\ call[c] = "none" /\ openedAt = "cooled"
    /\ openedAt' = "null" /\ halfOpen' = TRUE
    /\ call' = [call EXCEPT ![c] = "trial"]
    /\ cost' = NoCost
    /\ UNCHANGED consecutiveFailures

Answers(c) == call[c] # "none" /\ call' = [call EXCEPT ![c] = "none"]

\* A success closes the half-open breaker and never clears openedAt.
Succeeds(c) ==
    /\ Answers(c)
    /\ consecutiveFailures' = 0 /\ halfOpen' = FALSE
    /\ cost' = NoCost
    /\ UNCHANGED openedAt

Charge(c) == cost' = IF call[c] = "trial" THEN [cost EXCEPT ![c] = @ + 1] ELSE cost

\* A failed trial that does not re-open.
FailsAgain(c) ==
    /\ Answers(c) /\ halfOpen
    /\ Charge(c) /\ UNCHANGED <<openedAt, halfOpen, consecutiveFailures>>

\* openedAt moves to now, so a cooldown under way starts over.
FailsHalfOpen(c) ==
    /\ Answers(c) /\ halfOpen
    /\ openedAt' = "cooling"
    /\ Charge(c)
    /\ UNCHANGED <<halfOpen, consecutiveFailures>>

OpensLate(n) == n > FailureThreshold     \* mutant: off by one
Opens(n) == n >= FailureThreshold

FailsClosed(c) ==
    /\ Answers(c) /\ ~halfOpen
    /\ consecutiveFailures' = consecutiveFailures + 1
    /\ openedAt' = IF Opens(consecutiveFailures') THEN "cooling" ELSE openedAt
    /\ Charge(c)
    /\ UNCHANGED halfOpen

\* A deadline or a shutdown says nothing of the provider.
Aborts(c) == Answers(c) /\ UNCHANGED <<openedAt, halfOpen, consecutiveFailures, cost>>

BreakerNext ==
    \/ CooldownPasses
    \/ \E c \in Callers : \/ StartsPlain(c) \/ StartsTrial(c)
                          \/ Succeeds(c) \/ FailsHalfOpen(c) \/ FailsClosed(c) \/ Aborts(c)

BreakerSpec == BreakerInit /\ [][BreakerNext]_breaker

-----------------------------------------------------------------------------
(* A breaker that lets calls through as usual has budget left, whatever     *)
(* answers came late from calls begun before it opened.                     *)
BudgetLeft == openedAt = "null" /\ ~halfOpen => consecutiveFailures < FailureThreshold

(* A provider that stays down costs a caller one call per cooldown, not a   *)
(* fresh budget: nothing it starts half-open fails twice before the next    *)
(* cooldown is spent.                                                       *)
OneFailurePerCooldown == \A c \in Callers : cost[c] <= 1
=============================================================================
