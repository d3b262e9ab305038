--------------------------- MODULE ReflectionPipeline ---------------------------
(***************************************************************************)
(* One episode's way through ReflectionOrchestrator: the run key, the key  *)
(* of each stage, the two keys kept inside stages, and what the stages     *)
(* read from and write to the graph.  Every await of a run is a step, so   *)
(* runs of two queue rows for one episode interleave, and a crash falls    *)
(* between any write and the key that should cover it.                     *)
(*                                                                         *)
(* A stage is reduced to what later stages and the keys can tell apart:    *)
(* the entities the episode mentions, the cognitive nodes with and without *)
(* a content vector, and what it reports.                                  *)
(***************************************************************************)
EXTENDS Naturals, Sequences, FiniteSets

CONSTANTS Rows,         \* queue rows for the episode; two only after a double re-enqueue
          Entities,     \* what extraction may name in it
          MaxNodes,     \* cognitive nodes of one extraction
          MaxAttempts, MaxCrashes, MaxFailures   \* the first is the worker's, the others bounds

ASSUME PipelineAssumption == /\ MaxAttempts \in Nat \ {0} /\ MaxNodes \in Nat /\ IsFiniteSet(Entities)
                             /\ MaxCrashes \in Nat /\ MaxFailures \in Nat

VARIABLES
    row,        \* each row: "queued", "running", "done", "spent"
    attempts,   \* its attempts
    run,        \* the run of each row: where it is and whether a stage has failed
    runKey,     \* ledger: reflection:orchestrator:{version}:{episode}
    stageKeys,  \* ledger: the stages with reflection:stage:{version}:{stage}:{episode}
    pairsKey,   \* ledger: the co-occurrence key of the episode
    burstKey,   \* ledger: the co-extraction key of the episode
    readable,   \* the episode is in the graph and not forgotten
    mentions,   \* graph: entities the episode mentions
    facts,      \* graph: how many cognitive nodes it has, without and with a content vector
    observed,   \* graph: times each entity pair was counted for this episode
    bursts,     \* co-extraction bursts in the reinforcement queue
    mints,      \* history: cognitive extractions that wrote a node
    torn,       \* history: those of them that reported failure
    cuts,       \* history: runs that ended between the first pair and the key of the pairs
    deduped,    \* history: entities entity-dedup has run on
    partial,    \* history: an extraction of entities has failed over mentions in the graph
    late,       \* history: entities first named after that
    crashes, failures

rows   == <<row, attempts>>
ledger == <<runKey, stageKeys, pairsKey, burstKey>>
graph  == <<readable, mentions, facts, observed>>
woven  == <<deduped, partial, late>>
others == <<bursts, mints, torn, cuts, woven, crashes, failures>>
vars == <<rows, run, ledger, graph, others>>

\* reflectionStages, in order.
Stages == <<"entities", "entity-dedup", "associations", "cognitive", "semantic-relationships",
            "supersession", "reinforcement", "context-vectors", "narratives">>
StageNames == {Stages[i] : i \in DOMAIN Stages}

Pairs == {p \in SUBSET Entities : Cardinality(p) = 2}
PairsOf(S) == {p \in SUBSET S : Cardinality(p) = 2}

Outcome == {"ok", "skipped", "waits", "failed"}

\* at: where the run is; "out" is between a stage's last write and the mark of its key.
\* out: what that stage reported; failed: whether one has; left: the pairs still to count.
Ready == [at |-> "none", stage |-> 1, out |-> "ok", failed |-> FALSE, left |-> {}]

Spots == {"none", "load", "enter", "in", "pairs", "burst", "out", "mark", "settle"}
RunState == [at : Spots, stage : DOMAIN Stages, out : Outcome, failed : BOOLEAN, left : SUBSET Pairs]

(* Types of the rows, the runs, the ledger and the graph.                  *)
TypeOK ==
    /\ row \in [Rows -> {"queued", "running", "done", "spent"}]
    /\ attempts \in [Rows -> 0..MaxAttempts]
    /\ run \in [Rows -> RunState]
    /\ runKey \in BOOLEAN /\ stageKeys \subseteq StageNames
    /\ pairsKey \in BOOLEAN /\ burstKey \in BOOLEAN /\ readable \in BOOLEAN
    /\ mentions \subseteq Entities /\ facts \in [bare : Nat, vectored : Nat]
    /\ observed \in [Pairs -> Nat]
    /\ bursts \in Nat /\ mints \in Nat /\ torn \in Nat /\ cuts \in Nat
    /\ deduped \subseteq Entities /\ partial \in BOOLEAN /\ late \subseteq Entities
    /\ crashes \in 0..MaxCrashes /\ failures \in 0..MaxFailures

Init == /\ row = [r \in Rows |-> "queued"] /\ attempts = [r \in Rows |-> 0]
        /\ run = [r \in Rows |-> Ready]
        /\ runKey = FALSE /\ stageKeys = {} /\ pairsKey = FALSE /\ burstKey = FALSE
        /\ readable = TRUE /\ mentions = {} /\ facts = [bare |-> 0, vectored |-> 0]
        /\ observed = [p \in Pairs |-> 0] /\ bursts = 0 /\ mints = 0 /\ torn = 0 /\ cuts = 0
        /\ deduped = {} /\ partial = FALSE /\ late = {}
        /\ crashes = 0 /\ failures = 0

-----------------------------------------------------------------------------
(* The run around its stages.                                               *)

\* A move of the run within its stage.
Goes(r, at, out, left) ==
    run' = [run EXCEPT ![r] = [at |-> at, stage |-> run[r].stage, out |-> out,
                               failed |-> run[r].failed, left |-> left]]

\* The worker takes the row, and the run reads the run key: one SQLite read.
Begin(r) ==
    /\ row[r] = "queued" /\ attempts[r] < MaxAttempts
    /\ IF runKey
       THEN row' = [row EXCEPT ![r] = "done"] /\ UNCHANGED run
       ELSE /\ row' = [row EXCEPT ![r] = "running"]
            /\ Goes(r, "load", "ok", {})
    /\ UNCHANGED <<attempts, ledger, graph, others>>

\* The worker's #fail: the row waits for its next attempt, its backoff left out, or is spent.
Spend(r) ==
    /\ attempts' = [attempts EXCEPT ![r] = @ + 1]
    /\ row' = [row EXCEPT ![r] = IF attempts[r] + 1 < MaxAttempts THEN "queued" ELSE "spent"]

\* loadEpisodeContext; an unreadable episode finishes the job.
Load(r) ==
    /\ run[r].at = "load"
    /\ IF readable
       THEN Goes(r, "enter", "ok", {}) /\ UNCHANGED row
       ELSE /\ row' = [row EXCEPT ![r] = "done"]
            /\ run' = [run EXCEPT ![r] = Ready]
    /\ UNCHANGED <<attempts, ledger, graph, others>>

\* The read throws, and the run with it.
LoadFails(r) ==
    /\ run[r].at = "load" /\ failures < MaxFailures
    /\ Spend(r)
    /\ run' = [run EXCEPT ![r] = Ready]
    /\ failures' = failures + 1
    /\ UNCHANGED <<ledger, graph, bursts, mints, torn, cuts, woven, crashes>>

Stage(r) == Stages[run[r].stage]
InStage(r, name) == run[r].at = "in" /\ Stage(r) = name

\* Where a run stands once a stage is over.
After(r, failed) ==
    LET more == run[r].stage < Len(Stages) IN
    [at |-> IF more THEN "enter" ELSE "mark",
     stage |-> IF more THEN run[r].stage + 1 ELSE run[r].stage,
     out |-> "ok", failed |-> run[r].failed \/ failed, left |-> {}]

Ungated(r) == FALSE     \* mutant: the key is not asked for
Gated(r) == Stage(r) \in stageKeys

\* #runOrSkip's gate.
Enter(r) ==
    /\ run[r].at = "enter"
    /\ IF Gated(r) THEN run' = [run EXCEPT ![r] = After(r, FALSE)] ELSE Goes(r, "in", "ok", {})
    /\ UNCHANGED <<rows, ledger, graph, others>>

\* #runStage: the stage ends with an outcome.  "waits" is a skip for want of input.
Report(r, outcome) ==
    /\ Goes(r, "out", outcome, {})
    /\ outcome = "failed" => failures < MaxFailures
    /\ failures' = IF outcome = "failed" THEN failures + 1 ELSE failures

MarksWaits(outcome) == outcome # "failed"     \* mutant: a wait closes the key

\* #runOrSkip after the stage: a failure and a wait keep the stage's key open.
Marks(outcome) == outcome \in {"ok", "skipped"}

MarkStage(r) ==
    /\ run[r].at = "out"
    /\ stageKeys' = IF Marks(run[r].out) THEN stageKeys \cup {Stage(r)} ELSE stageKeys
    /\ run' = [run EXCEPT ![r] = After(r, run[r].out = "failed")]
    /\ UNCHANGED <<rows, runKey, pairsKey, burstKey, graph, others>>

\* Mutants: a failed stage does not matter; every stage must have closed its key.
AlwaysApplies(r) == TRUE
AppliesAllKeyed(r) == StageNames \subseteq stageKeys

\* shouldMarkApplied.
Applies(r) == ~run[r].failed

\* The run key is marked last.
MarkRun(r) ==
    /\ run[r].at = "mark"
    /\ runKey' = (runKey \/ Applies(r))
    /\ Goes(r, "settle", "ok", {})
    /\ UNCHANGED <<rows, stageKeys, pairsKey, burstKey, graph, others>>

\* The worker's #succeed or #fail.
Settle(r) ==
    /\ run[r].at = "settle"
    /\ IF run[r].failed THEN Spend(r) ELSE row' = [row EXCEPT ![r] = "done"] /\ UNCHANGED attempts
    /\ run' = [run EXCEPT ![r] = Ready]
    /\ UNCHANGED <<ledger, graph, others>>

-----------------------------------------------------------------------------
(* The stages.                                                              *)

\* Any stage may throw, time out or report failure with nothing written.
StageFails(r) ==
    /\ run[r].at = "in"
    /\ Report(r, "failed")
    /\ partial' = (partial \/ (Stage(r) = "entities" /\ mentions # {}))
    /\ UNCHANGED <<rows, ledger, graph, bursts, mints, torn, cuts, deduped, late, crashes>>

\* The mentions are one write, and may have landed when the call reports an error.
Entity(r) ==
    /\ InStage(r, "entities")
    /\ \E named \in SUBSET Entities, outcome \in {"ok", "failed"} :
         /\ mentions' = mentions \cup named
         /\ late' = IF partial THEN late \cup (named \ mentions) ELSE late
         /\ partial' = (partial \/ (outcome = "failed" /\ mentions' # {}))
         /\ Report(r, outcome)
    /\ UNCHANGED <<rows, ledger, readable, facts, observed, bursts, mints, torn, cuts, deduped, crashes>>

\* Writes each node in turn; a write that fails leaves those before it.  When the embedding
\* call fails the nodes are written all the same, and wait for a vector.
Cognitive(r) ==
    /\ InStage(r, "cognitive")
    /\ \E outcome \in {"ok", "skipped", "failed"}, kind \in {"bare", "vectored"}, n \in 0..MaxNodes :
         /\ outcome = "skipped" => n = 0
         /\ facts' = [facts EXCEPT ![kind] = @ + n]
         /\ mints' = IF n > 0 THEN mints + 1 ELSE mints
         /\ torn' = IF n > 0 /\ outcome = "failed" THEN torn + 1 ELSE torn
         /\ Report(r, outcome)
    /\ UNCHANGED <<rows, ledger, readable, mentions, observed, bursts, cuts, woven, crashes>>

\* What it proposes and merges is EntityLifecycle's.
Dedup(r) ==
    /\ InStage(r, "entity-dedup")
    /\ Report(r, IF mentions = {} THEN "waits" ELSE "ok")
    /\ deduped' = deduped \cup mentions
    /\ UNCHANGED <<rows, ledger, graph, bursts, mints, torn, cuts, partial, late, crashes>>

AllPairs == PairsOf(mentions)     \* mutant: the co-occurrence key is not read
Uncounted == IF pairsKey THEN {} ELSE PairsOf(mentions)

\* Pairs are read once, then counted one write at a time; the key follows the last.
AssociationPairs(r) ==
    /\ InStage(r, "associations") /\ mentions # {}
    /\ Goes(r, "pairs", "ok", Uncounted)
    /\ UNCHANGED <<rows, ledger, graph, others>>

CountPair(r) ==
    /\ run[r].at = "pairs"
    /\ \E p \in run[r].left :
         /\ observed' = [observed EXCEPT ![p] = @ + 1]
         /\ Goes(r, "pairs", "ok", run[r].left \ {p})
    /\ UNCHANGED <<rows, ledger, readable, mentions, facts, others>>

CountFails(r) ==
    /\ run[r].at = "pairs" /\ run[r].left # {}
    /\ Report(r, "failed")
    /\ cuts' = cuts + 1
    /\ UNCHANGED <<rows, ledger, graph, bursts, mints, torn, woven, crashes>>

\* The key of the pairs, then the similarity edges, which are idempotent and may fail.
MarkPairs(r) ==
    /\ run[r].at = "pairs" /\ run[r].left = {}
    /\ pairsKey' = TRUE
    /\ \E outcome \in {"ok", "failed"} : Report(r, outcome)
    /\ UNCHANGED <<rows, runKey, stageKeys, burstKey, graph, bursts, mints, torn, cuts, woven, crashes>>

\* The ledger check, then the nodes; the burst and its key share one transaction.
Nodes == Cardinality(mentions) + facts.bare + facts.vectored

NotAsked == FALSE     \* mutant: the co-extraction key is not read
CoExtracted == burstKey

BurstChecked(r) ==
    /\ InStage(r, "reinforcement") /\ ~CoExtracted
    /\ Goes(r, "burst", "ok", {})
    /\ UNCHANGED <<rows, ledger, graph, others>>

Burst(r) ==
    /\ run[r].at = "burst"
    /\ Report(r, IF Nodes = 0 THEN "waits" ELSE "ok")
    /\ IF Nodes > 1
       THEN burstKey' = TRUE /\ bursts' = bursts + 1
       ELSE UNCHANGED <<burstKey, bursts>>
    /\ UNCHANGED <<rows, runKey, stageKeys, pairsKey, graph, mints, torn, cuts, woven, crashes>>

BurstAlready(r) ==
    /\ InStage(r, "reinforcement") /\ CoExtracted
    /\ Report(r, "skipped")
    /\ UNCHANGED <<rows, ledger, graph, bursts, mints, torn, cuts, woven, crashes>>

\* The stages whose own writes no key and no other stage of this model depends on.
Outcomes(name) ==
    CASE name = "semantic-relationships" -> IF Nodes < 2 THEN {"waits"} ELSE {"ok"}
      [] name = "supersession"           -> IF facts.vectored > 0 THEN {"ok"} ELSE {"waits"}
      [] name = "context-vectors"        -> IF Nodes = 0 THEN {"waits"} ELSE {"ok", "waits"}
      [] name = "narratives"              -> {"ok", "skipped"}
      [] name = "associations"           -> IF mentions = {} THEN {"waits"} ELSE {}
      [] OTHER                           -> {}

StageEnds(r) ==
    /\ run[r].at = "in"
    /\ \E outcome \in Outcomes(Stage(r)) : Report(r, outcome)
    /\ UNCHANGED <<rows, ledger, graph, bursts, mints, torn, cuts, woven, crashes>>

-----------------------------------------------------------------------------
(* What happens around the runs.                                            *)

\* Every running run dies; the claims come back with their attempts as they were.
Crash ==
    /\ crashes < MaxCrashes
    /\ \E r \in Rows : row[r] = "running"
    /\ row' = [r \in Rows |-> IF row[r] = "running" THEN "queued" ELSE row[r]]
    /\ run' = [r \in Rows |-> Ready]
    /\ crashes' = crashes + 1
    /\ cuts' = cuts + Cardinality({r \in Rows : run[r].at = "pairs"})
    /\ UNCHANGED <<attempts, ledger, graph, bursts, mints, torn, woven, failures>>

\* A worker starting elsewhere attaches pending vectors.
AttachVectors ==
    /\ facts.bare > 0
    /\ facts' = [bare |-> 0, vectored |-> facts.vectored + facts.bare]
    /\ UNCHANGED <<rows, run, ledger, readable, mentions, observed, others>>

\* aion forget takes the episode out of reading.
Forget ==
    /\ readable
    /\ readable' = FALSE
    /\ UNCHANGED <<rows, run, ledger, mentions, facts, observed, others>>

RunStep(r) ==
    \/ Begin(r) \/ Load(r) \/ LoadFails(r) \/ Enter(r) \/ MarkStage(r) \/ MarkRun(r) \/ Settle(r)
    \/ StageFails(r) \/ StageEnds(r)
    \/ Entity(r) \/ Dedup(r) \/ Cognitive(r)
    \/ AssociationPairs(r) \/ CountPair(r) \/ CountFails(r) \/ MarkPairs(r)
    \/ BurstChecked(r) \/ Burst(r) \/ BurstAlready(r)

Next == (\E r \in Rows : RunStep(r)) \/ Crash \/ AttachVectors \/ Forget

Spec == Init /\ [][Next]_vars

\* The worker claims what is claimable and every stage ends, under its deadline.
FairSpec == Spec /\ \A r \in Rows : WF_vars(RunStep(r))

-----------------------------------------------------------------------------
(* The run key closes the episode for good, so whatever failed and crashed  *)
(* on the way, under it each of its entities has been through entity-dedup  *)
(* and each pair of them has been counted: a stage that found nothing       *)
(* because extraction failed was re-entered after a retry found something.  *)
(* Not so for an entity first named by a retry of an extraction that had    *)
(* failed over mentions already written: the stages may have closed their   *)
(* keys on those.                                                           *)
EntitiesAreWoven ==
    runKey => \A e \in mentions \ late :
                 /\ e \in deduped
                 /\ \A f \in mentions \ late : e # f => observed[{e, f}] > 0

(* A finished row means an episode nobody can read, or one all of whose     *)
(* stages have closed their keys, but for those that found too little in    *)
(* the graph to work on and those that wait for vectors (supersession,      *)
(* context-vectors).                                                        *)
DoneMeansEnriched ==
    (\E r \in Rows : row[r] = "done") /\ readable =>
        /\ runKey /\ {"entities", "cognitive", "narratives"} \subseteq stageKeys
        /\ mentions # {} => {"entity-dedup", "associations"} \subseteq stageKeys
        /\ Nodes > 0 => "reinforcement" \in stageKeys
        /\ Nodes > 1 => "semantic-relationships" \in stageKeys

(* An extraction that minted nodes is repeated only when a crash kept it    *)
(* from its key, or one of its own writes failed (stage.ts:100-110): no     *)
(* failure of another stage mints near-duplicates.                          *)
RemintedOnlyWhenCutShort == mints <= 1 + crashes + torn

(* The reinforcement queue gets one burst from an episode, however often    *)
(* its runs fail or crash.                                                  *)
OneBurst == bursts <= 1

(* Waiting for input holds nothing up: while stages fail less often than    *)
(* the row may be tried, the episode ends enriched or unreadable.           *)
EpisodeGetsEnriched == <>(runKey \/ ~readable)

(* An episode's pairs are counted once (associations.ts:107-109), and again *)
(* only by a run after one that was cut short inside the loop.              *)
PairsRecountedOnlyAfterCut == \A p \in Pairs : observed[p] <= 1 + cuts
=============================================================================
