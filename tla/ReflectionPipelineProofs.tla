------------------------ MODULE ReflectionPipelineProofs ------------------------
(***************************************************************************)
(* What the keys of one episode keep, for any entities, any number of       *)
(* attempts, crashes and failures, while the episode has one queue row     *)
(* (Intake's OneRowPerEpisode; a second row breaks several of these).       *)
(***************************************************************************)
EXTENDS ReflectionPipeline, FiniteSetTheorems, TLAPS

LEMMA StageList ==
  /\ Len(Stages) = 9 /\ DOMAIN Stages = 1..9
  /\ Stages[1] = "entities" /\ Stages[2] = "entity-dedup" /\ Stages[3] = "associations"
  /\ Stages[4] = "cognitive" /\ Stages[5] = "semantic-relationships" /\ Stages[6] = "supersession"
  /\ Stages[7] = "reinforcement" /\ Stages[8] = "context-vectors" /\ Stages[9] = "narratives"
  BY DEF Stages

(* A stage is known by its place in the order.                              *)
LEMMA StageNumber ==
  ASSUME NEW i \in 1..9
  PROVE  /\ Stages[i] \in StageNames
         /\ Stages[i] = "entities" <=> i = 1
         /\ Stages[i] = "entity-dedup" <=> i = 2
         /\ Stages[i] = "associations" <=> i = 3
         /\ Stages[i] = "cognitive" <=> i = 4
         /\ Stages[i] = "semantic-relationships" <=> i = 5
         /\ Stages[i] = "reinforcement" <=> i = 7
         /\ Stages[i] = "narratives" <=> i = 9
<1>1. i = 1 \/ i = 2 \/ i = 3 \/ i = 4 \/ i = 5 \/ i = 6 \/ i = 7 \/ i = 8 \/ i = 9
  OBVIOUS
<1>2. Stages[i] \in StageNames
  BY StageList DEF StageNames
<1> QED BY <1>1, <1>2, StageList

-----------------------------------------------------------------------------
(* One move of a run, column by column. *)

RunTyped == run \in [Rows -> RunState]

LEMMA Columns ==
  ASSUME RunTyped, NEW r \in Rows
  PROVE  /\ run[r].at \in Spots /\ run[r].stage \in 1..9 /\ run[r].out \in Outcome
         /\ run[r].failed \in BOOLEAN /\ run[r].left \subseteq Pairs
  BY StageList DEF RunTyped, RunState

LEMMA MoveColumns ==
  ASSUME RunTyped, NEW r \in Rows, NEW at \in Spots, NEW out \in Outcome, NEW left \in SUBSET Pairs,
         Goes(r, at, out, left)
  PROVE  /\ RunTyped'
         /\ run'[r].at = at /\ run'[r].stage = run[r].stage /\ run'[r].out = out
         /\ run'[r].failed = run[r].failed /\ run'[r].left = left
<1> DEFINE next == [at |-> at, stage |-> run[r].stage, out |-> out, failed |-> run[r].failed, left |-> left]
<1>1. next \in RunState
  BY Columns, StageList DEF RunState
<1>2. run'[r] = next
  BY DEF Goes, RunTyped
<1>3. RunTyped'
  BY <1>1 DEF Goes, RunTyped
<1> QED BY <1>2, <1>3

LEMMA AfterColumns ==
  ASSUME RunTyped, NEW r \in Rows, NEW failed \in BOOLEAN, run' = [run EXCEPT ![r] = After(r, failed)]
  PROVE  /\ RunTyped'
         /\ run[r].stage < 9 => run'[r].at = "enter" /\ run'[r].stage = run[r].stage + 1
         /\ run[r].stage = 9 => run'[r].at = "mark" /\ run'[r].stage = 9
         /\ run'[r].out = "ok" /\ run'[r].left = {}
         /\ run'[r].failed <=> (run[r].failed \/ failed)
<1>1. run'[r] = After(r, failed)
  BY DEF RunTyped
<1>2. /\ run[r].stage < 9 => After(r, failed).at = "enter" /\ After(r, failed).stage = run[r].stage + 1
      /\ run[r].stage = 9 => After(r, failed).at = "mark" /\ After(r, failed).stage = 9
      /\ After(r, failed).out = "ok" /\ After(r, failed).left = {}
  BY StageList, Columns DEF After
<1>3. PICK f \in BOOLEAN : f = (run[r].failed \/ failed)
  BY Columns
<1>4. After(r, failed).failed = f
  BY <1>3 DEF After
<1>5. After(r, failed) \in RunState
  <2>1. run[r].stage \in 1..9 /\ Len(Stages) = 9
    BY StageList, Columns
  <2>2. PICK a \in Spots : a = IF run[r].stage < 9 THEN "enter" ELSE "mark"
    BY DEF Spots
  <2>3. PICK s \in 1..9 : s = IF run[r].stage < 9 THEN run[r].stage + 1 ELSE run[r].stage
    BY <2>1
  <2>4. After(r, failed) = [at |-> a, stage |-> s, out |-> "ok", failed |-> f, left |-> {}]
    BY <1>3, <2>1, <2>2, <2>3 DEF After
  <2> QED BY <2>4, StageList DEF RunState, Outcome
<1> QED BY <1>1, <1>2, <1>3, <1>4, <1>5 DEF RunTyped

LEMMA ResetColumns ==
  ASSUME RunTyped, NEW r \in Rows, run' = [run EXCEPT ![r] = Ready]
  PROVE  /\ RunTyped'
         /\ run'[r].at = "none" /\ run'[r].stage = 1 /\ run'[r].out = "ok"
         /\ run'[r].failed = FALSE /\ run'[r].left = {}
<1>1. Ready \in RunState
  BY StageList DEF Ready, RunState, Spots, Outcome
<1>2. run'[r] = Ready
  BY DEF RunTyped
<1> QED BY <1>1, <1>2 DEF RunTyped, Ready

(* The end of a stage.                                                      *)
LEMMA ReportColumns ==
  ASSUME RunTyped, NEW r \in Rows, NEW outcome \in Outcome, Report(r, outcome)
  PROVE  /\ RunTyped'
         /\ run'[r].at = "out" /\ run'[r].stage = run[r].stage /\ run'[r].out = outcome
         /\ run'[r].failed = run[r].failed /\ run'[r].left = {}
  BY MoveColumns DEF Report, Spots
-----------------------------------------------------------------------------
(* Types. *)

RowsTyped   == row \in [Rows -> {"queued", "running", "done", "spent"}] /\ attempts \in [Rows -> 0..MaxAttempts]
LedgerTyped == /\ runKey \in BOOLEAN /\ stageKeys \subseteq StageNames
               /\ pairsKey \in BOOLEAN /\ burstKey \in BOOLEAN
GraphTyped  == /\ readable \in BOOLEAN
               /\ mentions \subseteq Entities /\ facts \in [bare : Nat, vectored : Nat]
               /\ observed \in [Pairs -> Nat]
CountsTyped == /\ bursts \in Nat /\ mints \in Nat /\ torn \in Nat /\ cuts \in Nat
               /\ deduped \subseteq Entities /\ partial \in BOOLEAN /\ late \subseteq Entities
               /\ crashes \in 0..MaxCrashes /\ failures \in 0..MaxFailures

\* A run in progress has an attempt left, and only a running row has a run.
Places == \A r \in Rows :
    /\ run[r].at # "none" => attempts[r] < MaxAttempts
    /\ row[r] # "running" => run[r].at = "none"
    /\ run[r].at \in {"none", "load"} => run[r].stage = 1
    /\ run[r].at = "burst" => run[r].stage = 7
    /\ run[r].at = "pairs" => run[r].stage = 3
    /\ run[r].at = "in" => Stage(r) \notin stageKeys

Typed == RowsTyped /\ RunTyped /\ LedgerTyped /\ GraphTyped /\ CountsTyped

LEMMA TypeParts == Typed <=> TypeOK
  BY DEF Typed, TypeOK, RowsTyped, RunTyped, LedgerTyped, GraphTyped, CountsTyped

LEMMA MentionedPairs == ASSUME mentions \subseteq Entities PROVE Uncounted \subseteq Pairs
  BY DEF Uncounted, PairsOf, Pairs

(* The number of nodes, and what leaves it as it is.                        *)
LEMMA NodesNat == ASSUME GraphTyped PROVE Nodes \in Nat
<1>1. Cardinality(mentions) \in Nat
  BY PipelineAssumption, FS_Subset, FS_CardinalityType DEF GraphTyped
<1> QED BY <1>1 DEF Nodes, GraphTyped

LEMMA NodesKept ==
  ASSUME GraphTyped, UNCHANGED <<mentions, facts>> \/ AttachVectors PROVE Nodes' = Nodes
<1>1. Cardinality(mentions) \in Nat /\ facts.bare \in Nat /\ facts.vectored \in Nat
  BY PipelineAssumption, FS_Subset, FS_CardinalityType DEF GraphTyped
<1>2. CASE UNCHANGED <<mentions, facts>>
  BY <1>2 DEF Nodes
<1>3. CASE AttachVectors
  BY <1>1, <1>3 DEF Nodes, AttachVectors
<1> QED BY <1>2, <1>3

LEMMA ReportCounts ==
  ASSUME CountsTyped, NEW r \in Rows, NEW outcome, Report(r, outcome)
  PROVE  failures' \in 0..MaxFailures
  BY PipelineAssumption DEF CountsTyped, Report

LEMMA Outcomes4 ==
  ASSUME NEW name PROVE Outcomes(name) \subseteq {"ok", "skipped", "waits"}
  BY DEF Outcomes

LEMMA RunTypesInductive ==
  ASSUME RunTyped, GraphTyped, [Next]_vars
  PROVE  RunTyped'
<1>1. CASE UNCHANGED run
  BY <1>1 DEF RunTyped
<1>2. {} \in SUBSET Pairs /\ {"none", "load", "enter", "in", "pairs", "burst", "out", "mark", "settle"} \subseteq Spots
      /\ {"ok", "skipped", "waits", "failed"} \subseteq Outcome
  BY DEF Spots, Outcome
<1>3. ASSUME NEW r \in Rows, Begin(r) \/ Load(r) \/ LoadFails(r) \/ Enter(r) \/ MarkRun(r) \/ Settle(r) \/ BurstChecked(r)
      PROVE  RunTyped'
  <2>1. \/ UNCHANGED run \/ run' = [run EXCEPT ![r] = Ready] \/ run' = [run EXCEPT ![r] = After(r, FALSE)]
        \/ Goes(r, "load", "ok", {}) \/ Goes(r, "enter", "ok", {}) \/ Goes(r, "in", "ok", {})
        \/ Goes(r, "settle", "ok", {}) \/ Goes(r, "burst", "ok", {})
    BY <1>3 DEF Begin, Load, LoadFails, Enter, MarkRun, Settle, BurstChecked
  <2> QED BY <2>1, <1>1, <1>2, MoveColumns, AfterColumns, ResetColumns
<1>4. ASSUME NEW r \in Rows, MarkStage(r)
      PROVE  RunTyped'
  <2>1. PICK f \in BOOLEAN : f = (run[r].out = "failed")
    OBVIOUS
  <2>2. run' = [run EXCEPT ![r] = After(r, f)]
    BY <1>4, <2>1 DEF MarkStage
  <2> QED BY <2>2, AfterColumns
<1>5. ASSUME NEW r \in Rows, AssociationPairs(r)
      PROVE  RunTyped'
  <2>1. PICK left \in SUBSET Pairs : left = Uncounted
    BY MentionedPairs DEF GraphTyped
  <2>2. Goes(r, "pairs", "ok", left)
    BY <1>5, <2>1 DEF AssociationPairs
  <2> QED BY <2>2, <1>2, MoveColumns
<1>6. ASSUME NEW r \in Rows, CountPair(r)
      PROVE  RunTyped'
  <2>1. PICK p \in run[r].left : Goes(r, "pairs", "ok", run[r].left \ {p})
    BY <1>6 DEF CountPair
  <2>2. PICK left \in SUBSET Pairs : left = run[r].left \ {p}
    BY Columns
  <2>3. Goes(r, "pairs", "ok", left)
    BY <2>1, <2>2
  <2> QED BY <2>3, <1>2, MoveColumns
<1>7. ASSUME NEW r \in Rows,
             \/ StageFails(r) \/ StageEnds(r) \/ Entity(r) \/ Dedup(r) \/ Cognitive(r) \/ CountFails(r)
             \/ MarkPairs(r) \/ Burst(r) \/ BurstAlready(r)
      PROVE  RunTyped'
  <2>1. \E outcome \in {"ok", "skipped", "waits", "failed"} : Report(r, outcome)
    BY <1>7, Outcomes4 DEF StageFails, StageEnds, Entity, Dedup, Cognitive, CountFails, MarkPairs, Burst, BurstAlready
  <2> QED BY <2>1, <1>2, ReportColumns
<1>8. CASE Crash
  <2>1. Ready \in RunState
    BY <1>2, StageList DEF Ready, RunState
  <2> QED BY <1>8, <2>1 DEF Crash, RunTyped
<1>9. CASE AttachVectors \/ Forget \/ UNCHANGED vars
  BY <1>1, <1>9 DEF AttachVectors, Forget, vars
<1> QED BY <1>3, <1>4, <1>5, <1>6, <1>7, <1>8, <1>9 DEF Next, RunStep

LEMMA TypesInductive ==
  ASSUME NEW r, Rows = {r}, Typed, Places, [Next]_vars
  PROVE  Typed'
<1> USE PipelineAssumption
<1>1. RowsTyped /\ RunTyped /\ LedgerTyped /\ GraphTyped /\ CountsTyped
  BY DEF Typed
<1>2. RunTyped'
  BY <1>1, RunTypesInductive
<1>3. CASE UNCHANGED vars
  BY <1>1, <1>2, <1>3 DEF Typed, vars, rows, ledger, graph, others, woven, RowsTyped, LedgerTyped, GraphTyped, CountsTyped
<1>4. CASE Begin(r) \/ Load(r) \/ Enter(r) \/ MarkRun(r) \/ BurstChecked(r) \/ AssociationPairs(r)
  <2>1. UNCHANGED <<graph, others>> /\ UNCHANGED <<stageKeys, pairsKey, burstKey, attempts>>
    BY <1>4 DEF Begin, Load, Enter, MarkRun, BurstChecked, AssociationPairs, ledger, rows
  <2>2. runKey' \in BOOLEAN
    BY <1>1, <1>4 DEF Begin, Load, Enter, MarkRun, BurstChecked, AssociationPairs, ledger, LedgerTyped
  <2>3. row' \in [Rows -> {"queued", "running", "done", "spent"}]
    BY <1>1, <1>4 DEF Begin, Load, Enter, MarkRun, BurstChecked, AssociationPairs, rows, RowsTyped
  <2> QED BY <1>1, <1>2, <2>1, <2>2, <2>3 DEF Typed, graph, others, woven, RowsTyped, LedgerTyped, GraphTyped, CountsTyped
<1>5. CASE Settle(r) \/ LoadFails(r)
  <2>1. attempts' \in [Rows -> 0..MaxAttempts]
    <3>1. attempts[r] \in 0..MaxAttempts /\ attempts[r] < MaxAttempts
      BY <1>1, <1>5 DEF Settle, LoadFails, RowsTyped, Places
    <3>2. attempts[r] + 1 \in 0..MaxAttempts
      BY <3>1
    <3> QED BY <1>1, <1>5, <3>2 DEF Settle, LoadFails, Spend, RowsTyped
  <2>2. row' \in [Rows -> {"queued", "running", "done", "spent"}]
    BY <1>1, <1>5 DEF Settle, LoadFails, Spend, RowsTyped
  <2>3. failures' \in 0..MaxFailures
    BY <1>1, <1>5 DEF Settle, LoadFails, others, CountsTyped
  <2> QED BY <1>1, <1>2, <1>5, <2>1, <2>2, <2>3
          DEF Typed, Settle, LoadFails, ledger, graph, others, woven, RowsTyped, LedgerTyped, GraphTyped, CountsTyped
<1>6. CASE MarkStage(r)
  <2>1. stageKeys' \subseteq StageNames
    BY <1>1, <1>6, Columns, StageNumber DEF MarkStage, LedgerTyped, Stage
  <2> QED BY <1>1, <1>2, <1>6, <2>1 DEF Typed, MarkStage, rows, graph, others, woven, RowsTyped, LedgerTyped, GraphTyped, CountsTyped
<1>7. ASSUME NEW outcome, Report(r, outcome), UNCHANGED <<rows, ledger, graph, bursts, mints, torn, late, crashes>>,
             cuts' \in Nat, deduped' \subseteq Entities, partial' \in BOOLEAN
      PROVE  Typed'
  <2>1. failures' \in 0..MaxFailures
    BY <1>1, <1>7, ReportCounts
  <2> QED BY <1>1, <1>2, <1>7, <2>1 DEF Typed, rows, ledger, graph, RowsTyped, LedgerTyped, GraphTyped, CountsTyped
<1>8. CASE StageFails(r) \/ StageEnds(r) \/ Dedup(r) \/ CountFails(r) \/ BurstAlready(r)
  <2>1. \E outcome \in Outcome : Report(r, outcome)
    BY <1>8, Outcomes4 DEF StageFails, StageEnds, Dedup, CountFails, BurstAlready, Outcome
  <2>2. UNCHANGED <<rows, ledger, graph, bursts, mints, torn, late, crashes>> /\ cuts' \in Nat
    BY <1>1, <1>8 DEF StageFails, StageEnds, Dedup, CountFails, BurstAlready, CountsTyped, woven
  <2>3. deduped' \subseteq Entities
    BY <1>1, <1>8 DEF StageFails, StageEnds, Dedup, CountFails, BurstAlready, CountsTyped, GraphTyped, woven
  <2>4. partial' \in BOOLEAN
    BY <1>1, <1>8 DEF StageFails, StageEnds, Dedup, CountFails, BurstAlready, CountsTyped, woven
  <2> QED BY <2>1, <2>2, <2>3, <2>4, <1>7
<1>9. CASE Entity(r)
  <2>1. failures' \in 0..MaxFailures
    BY <1>1, <1>9, ReportCounts DEF Entity
  <2>2. mentions' \subseteq Entities /\ late' \subseteq Entities
    BY <1>1, <1>9 DEF Entity, GraphTyped, CountsTyped
  <2>3. partial' \in BOOLEAN
    BY <1>9 DEF Entity
  <2> QED BY <1>1, <1>2, <1>9, <2>1, <2>2, <2>3 DEF Typed, Entity, rows, ledger, RowsTyped, LedgerTyped, GraphTyped, CountsTyped
<1>10. CASE Cognitive(r)
  <2>1. failures' \in 0..MaxFailures
    BY <1>1, <1>10, ReportCounts DEF Cognitive
  <2>2. PICK kind \in {"bare", "vectored"}, n \in 0..MaxNodes : facts' = [facts EXCEPT ![kind] = @ + n]
    BY <1>10 DEF Cognitive
  <2>3. facts' \in [bare : Nat, vectored : Nat]
    <3>1. n \in Nat /\ facts \in [bare : Nat, vectored : Nat]
      BY <1>1, <2>2 DEF GraphTyped
    <3>2. CASE kind = "bare"
      <4>1. facts' = [bare |-> facts.bare + n, vectored |-> facts.vectored]
        BY <2>2, <3>1, <3>2
      <4> QED BY <3>1, <4>1
    <3>3. CASE kind = "vectored"
      <4>1. facts' = [bare |-> facts.bare, vectored |-> facts.vectored + n]
        BY <2>2, <3>1, <3>3
      <4> QED BY <3>1, <4>1
    <3> QED BY <3>2, <3>3
  <2>4. mints' \in Nat /\ torn' \in Nat
    BY <1>1, <1>10 DEF Cognitive, CountsTyped
  <2> QED BY <1>1, <1>2, <1>10, <2>1, <2>3, <2>4
          DEF Typed, Cognitive, rows, ledger, woven, RowsTyped, LedgerTyped, GraphTyped, CountsTyped
<1>11. CASE CountPair(r)
  <2>1. PICK p \in run[r].left : observed' = [observed EXCEPT ![p] = @ + 1]
    BY <1>11 DEF CountPair
  <2>2. p \in Pairs
    BY <1>1, <2>1, Columns
  <2>3. observed' \in [Pairs -> Nat]
    BY <1>1, <2>1, <2>2 DEF GraphTyped
  <2> QED BY <1>1, <1>2, <1>11, <2>3 DEF Typed, CountPair, rows, ledger, others, woven, RowsTyped, LedgerTyped, GraphTyped, CountsTyped
<1>12. CASE MarkPairs(r)
  <2>1. failures' \in 0..MaxFailures
    BY <1>1, <1>12, ReportCounts DEF MarkPairs
  <2> QED BY <1>1, <1>2, <1>12, <2>1 DEF Typed, MarkPairs, rows, graph, woven, RowsTyped, LedgerTyped, GraphTyped, CountsTyped
<1>13. CASE Burst(r)
  <2>1. failures' \in 0..MaxFailures
    BY <1>1, <1>13, ReportCounts DEF Burst
  <2>2. CASE Nodes > 1
    <3>1. burstKey' = TRUE /\ bursts' = bursts + 1
      BY <1>13, <2>2 DEF Burst
    <3>2. bursts' \in Nat /\ burstKey' \in BOOLEAN
      BY <1>1, <3>1 DEF CountsTyped
    <3> QED BY <1>1, <1>2, <1>13, <2>1, <3>2 DEF Typed, Burst, rows, graph, woven, RowsTyped, LedgerTyped, GraphTyped, CountsTyped
  <2>3. CASE ~(Nodes > 1)
    <3>1. UNCHANGED <<burstKey, bursts>>
      BY <1>13, <2>3 DEF Burst
    <3> QED BY <1>1, <1>2, <1>13, <2>1, <3>1 DEF Typed, Burst, rows, graph, woven, RowsTyped, LedgerTyped, GraphTyped, CountsTyped
  <2> QED BY <2>2, <2>3
<1>14. CASE Crash
  <2>1. row' \in [Rows -> {"queued", "running", "done", "spent"}] /\ crashes' \in 0..MaxCrashes
    BY <1>1, <1>14 DEF Crash, RowsTyped, CountsTyped
  <2>2. Cardinality({q \in Rows : run[q].at = "pairs"}) \in Nat
    <3>1. IsFiniteSet(Rows)
      BY FS_Singleton
    <3> QED BY <3>1, FS_Subset, FS_CardinalityType
  <2>3. cuts' \in Nat
    BY <1>1, <1>14, <2>2 DEF Crash, CountsTyped
  <2> QED BY <1>1, <1>2, <1>14, <2>1, <2>3 DEF Typed, Crash, ledger, graph, woven, RowsTyped, LedgerTyped, GraphTyped, CountsTyped
<1>15. CASE AttachVectors \/ Forget
  <2>1. facts' \in [bare : Nat, vectored : Nat]
    BY <1>1, <1>15 DEF AttachVectors, Forget, GraphTyped
  <2> QED BY <1>1, <1>2, <1>15, <2>1
          DEF Typed, AttachVectors, Forget, rows, ledger, others, woven, RowsTyped, LedgerTyped, GraphTyped, CountsTyped
<1> QED BY <1>3, <1>4, <1>5, <1>6, <1>8, <1>9, <1>10, <1>11, <1>12, <1>13, <1>14, <1>15 DEF Next, RunStep
-----------------------------------------------------------------------------
(* Where each action leaves its run. *)

Moved(r, at, left) ==
    /\ run'[r].at = at /\ run'[r].stage = run[r].stage /\ run'[r].out = "ok"
    /\ run'[r].failed = run[r].failed /\ run'[r].left = left
Ended(r, outcome) ==
    /\ run'[r].at = "out" /\ run'[r].stage = run[r].stage /\ run'[r].out = outcome
    /\ run'[r].failed = run[r].failed /\ run'[r].left = {}
Advanced(r, failed) ==
    /\ run[r].stage < 9 => run'[r].at = "enter" /\ run'[r].stage = run[r].stage + 1
    /\ run[r].stage = 9 => run'[r].at = "mark" /\ run'[r].stage = 9
    /\ run'[r].failed <=> (run[r].failed \/ failed)
    /\ run'[r].out = "ok" /\ run'[r].left = {}
Reset(r) ==
    run'[r].at = "none" /\ run'[r].stage = 1 /\ run'[r].failed = FALSE /\ run'[r].left = {}

LEMMA GoesLands ==
  ASSUME RunTyped, NEW r \in Rows, NEW at \in Spots, NEW left \in SUBSET Pairs, Goes(r, at, "ok", left)
  PROVE  Moved(r, at, left)
<1>1. "ok" \in Outcome
  BY DEF Outcome
<1> QED BY <1>1, MoveColumns DEF Moved

LEMMA Lands ==
  ASSUME RunTyped, GraphTyped, NEW r \in Rows
  PROVE  /\ Begin(r) => (runKey /\ run' = run) \/ (~runKey /\ Moved(r, "load", {}))
         /\ Load(r) => (readable /\ Moved(r, "enter", {})) \/ (~readable /\ Reset(r))
         /\ Enter(r) => \/ Stage(r) \in stageKeys /\ Advanced(r, FALSE)
                        \/ Stage(r) \notin stageKeys /\ Moved(r, "in", {})
         /\ MarkStage(r) => Advanced(r, run[r].out = "failed")
         /\ MarkRun(r) => Moved(r, "settle", {})
         /\ Settle(r) => Reset(r)
         /\ LoadFails(r) => Reset(r)
         /\ AssociationPairs(r) => Moved(r, "pairs", Uncounted)
         /\ CountPair(r) => \E p \in run[r].left : /\ p \in Pairs /\ Moved(r, "pairs", run[r].left \ {p})
                                                   /\ observed' = [observed EXCEPT ![p] = @ + 1]
         /\ BurstChecked(r) => Moved(r, "burst", {})
<1>1. {} \in SUBSET Pairs /\ {"none", "load", "enter", "in", "pairs", "burst", "out", "mark", "settle"} \subseteq Spots
  BY DEF Spots
<1>2. Begin(r) => (runKey /\ run' = run) \/ (~runKey /\ Moved(r, "load", {}))
  BY <1>1, GoesLands DEF Begin
<1>3. Load(r) => (readable /\ Moved(r, "enter", {})) \/ (~readable /\ Reset(r))
  BY <1>1, GoesLands, ResetColumns DEF Load, Reset
<1>4. Enter(r) => \/ Stage(r) \in stageKeys /\ Advanced(r, FALSE)
                  \/ Stage(r) \notin stageKeys /\ Moved(r, "in", {})
  BY <1>1, GoesLands, AfterColumns DEF Enter, Gated, Advanced
<1>5. MarkStage(r) => Advanced(r, run[r].out = "failed")
  <2>1. PICK f \in BOOLEAN : f = (run[r].out = "failed")
    OBVIOUS
  <2>2. MarkStage(r) => run' = [run EXCEPT ![r] = After(r, f)]
    BY <2>1 DEF MarkStage
  <2>3. MarkStage(r) => Advanced(r, f)
    BY <2>2, AfterColumns DEF Advanced
  <2> QED BY <2>1, <2>3
<1>6. MarkRun(r) => Moved(r, "settle", {})
  BY <1>1, GoesLands DEF MarkRun
<1>7. (Settle(r) => Reset(r)) /\ (LoadFails(r) => Reset(r))
  BY ResetColumns DEF Settle, LoadFails, Reset
<1>8. AssociationPairs(r) => Moved(r, "pairs", Uncounted)
  <2>1. PICK left \in SUBSET Pairs : left = Uncounted
    BY MentionedPairs DEF GraphTyped
  <2> QED BY <1>1, <2>1, GoesLands DEF AssociationPairs
<1>9. ASSUME CountPair(r)
      PROVE  \E p \in run[r].left : /\ p \in Pairs /\ Moved(r, "pairs", run[r].left \ {p})
                                    /\ observed' = [observed EXCEPT ![p] = @ + 1]
  <2>1. PICK p \in run[r].left : Goes(r, "pairs", "ok", run[r].left \ {p}) /\ observed' = [observed EXCEPT ![p] = @ + 1]
    BY <1>9 DEF CountPair
  <2>2. PICK left \in SUBSET Pairs : left = run[r].left \ {p}
    BY Columns
  <2>3. Moved(r, "pairs", left)
    BY <1>1, <2>1, <2>2, GoesLands
  <2> QED BY <2>1, <2>2, <2>3, Columns
<1>10. BurstChecked(r) => Moved(r, "burst", {})
  BY <1>1, GoesLands DEF BurstChecked
<1> QED BY <1>2, <1>3, <1>4, <1>5, <1>6, <1>7, <1>8, <1>9, <1>10

\* The actions that end a stage.
EndsStage(r) ==
    \/ StageFails(r) \/ StageEnds(r) \/ Entity(r) \/ Dedup(r) \/ Cognitive(r) \/ CountFails(r)
    \/ MarkPairs(r) \/ Burst(r) \/ BurstAlready(r)

LEMMA EndLands ==
  ASSUME RunTyped, NEW r \in Rows, NEW outcome \in {"ok", "skipped", "waits", "failed"}, Report(r, outcome)
  PROVE  Ended(r, outcome)
  BY ReportColumns DEF Ended, Outcome

LEMMA StageEnded ==
  ASSUME RunTyped, NEW r \in Rows, EndsStage(r)
  PROVE  /\ \E outcome \in {"ok", "skipped", "waits", "failed"} : Ended(r, outcome)
         /\ run[r].at \in {"in", "pairs", "burst"}
         /\ UNCHANGED <<rows, runKey, stageKeys, readable, crashes>>
<1>1. \E outcome \in {"ok", "skipped", "waits", "failed"} : Report(r, outcome)
  BY Outcomes4 DEF EndsStage, StageFails, StageEnds, Entity, Dedup, Cognitive, CountFails, MarkPairs, Burst, BurstAlready
<1>2. UNCHANGED <<rows, runKey, stageKeys, readable, crashes>>
  BY DEF EndsStage, StageFails, StageEnds, Entity, Dedup, Cognitive, CountFails, MarkPairs, Burst, BurstAlready, ledger, graph
<1>3. run[r].at \in {"in", "pairs", "burst"}
  BY DEF EndsStage, StageFails, StageEnds, Entity, Dedup, Cognitive, CountFails, MarkPairs, Burst, BurstAlready, InStage
<1> QED BY <1>1, <1>2, <1>3, EndLands

LEMMA PlacesInductive ==
  ASSUME NEW r, Rows = {r}, Typed, Places, [Next]_vars
  PROVE  Places'
<1>1. /\ run[r].at # "none" => attempts[r] < MaxAttempts
      /\ row[r] # "running" => run[r].at = "none"
      /\ run[r].at \in {"none", "load"} => run[r].stage = 1
      /\ run[r].at = "burst" => run[r].stage = 7
      /\ run[r].at = "pairs" => run[r].stage = 3
      /\ run[r].at = "in" => Stage(r) \notin stageKeys
  BY DEF Places
<1>2. SUFFICES /\ run'[r].at # "none" => attempts'[r] < MaxAttempts
               /\ row'[r] # "running" => run'[r].at = "none"
               /\ run'[r].at \in {"none", "load"} => run'[r].stage = 1
               /\ run'[r].at = "burst" => run'[r].stage = 7
               /\ run'[r].at = "pairs" => run'[r].stage = 3
               /\ run'[r].at = "in" => Stages[run'[r].stage] \notin stageKeys'
  BY DEF Places, Stage
<1>3. RunTyped /\ GraphTyped /\ RowsTyped /\ run[r].stage \in 1..9
  BY Columns DEF Typed
<1>4. CASE Begin(r)
  <2>1. row[r] = "queued" /\ attempts[r] < MaxAttempts /\ attempts' = attempts
        /\ (runKey => row' = [row EXCEPT ![r] = "done"]) /\ (~runKey => row' = [row EXCEPT ![r] = "running"])
    BY <1>4 DEF Begin
  <2>2. (runKey => row'[r] = "done") /\ (~runKey => row'[r] = "running")
    BY <2>1, <1>3 DEF RowsTyped
  <2> QED BY <1>1, <1>3, <1>4, <2>1, <2>2, Lands DEF Moved
<1>5. CASE Load(r)
  <2>1. run[r].at = "load" /\ attempts' = attempts /\ (readable => row' = row)
    BY <1>5 DEF Load
  <2> QED BY <1>1, <1>3, <1>5, <2>1, Lands DEF Moved, Reset
<1>6. CASE Enter(r)
  <2>1. run[r].at = "enter" /\ attempts' = attempts /\ row' = row /\ stageKeys' = stageKeys
    BY <1>6 DEF Enter, rows, ledger
  <2> QED BY <1>1, <1>3, <1>6, <2>1, Lands DEF Moved, Advanced, Stage
<1>7. CASE MarkStage(r)
  <2>1. run[r].at = "out" /\ attempts' = attempts /\ row' = row
    BY <1>7 DEF MarkStage, rows
  <2> QED BY <1>1, <1>3, <1>7, <2>1, Lands DEF Advanced
<1>8. CASE MarkRun(r) \/ AssociationPairs(r) \/ CountPair(r)
  <2>1. run[r].at # "none" /\ attempts' = attempts /\ row' = row
    BY <1>8 DEF MarkRun, AssociationPairs, CountPair, InStage, rows
  <2>2. run'[r].at \in {"settle", "pairs"} /\ run'[r].stage = run[r].stage
    BY <1>3, <1>8, Lands DEF Moved
  <2>3. run'[r].at = "pairs" => run[r].stage = 3
    <3>1. CASE MarkRun(r)
      BY <1>3, <3>1, Lands DEF Moved
    <3>2. CASE AssociationPairs(r)
      BY <1>3, <3>2, StageNumber DEF AssociationPairs, InStage, Stage
    <3>3. CASE CountPair(r)
      BY <1>1, <3>3 DEF CountPair
    <3> QED BY <1>8, <3>1, <3>2, <3>3
  <2> QED BY <1>1, <2>1, <2>2, <2>3
<1>9. CASE Settle(r) \/ LoadFails(r)
  <2>1. run'[r].at = "none" /\ run'[r].stage = 1
    BY <1>3, <1>9, Lands DEF Reset
  <2> QED BY <2>1
<1>10. CASE BurstChecked(r)
  <2>1. run[r].at = "in" /\ Stages[run[r].stage] = "reinforcement" /\ attempts' = attempts /\ row' = row
    BY <1>10 DEF BurstChecked, InStage, Stage, rows
  <2>2. run[r].stage = 7
    BY <1>3, <2>1, StageNumber
  <2> QED BY <1>1, <1>3, <1>10, <2>1, <2>2, Lands DEF Moved
<1>11. CASE EndsStage(r)
  <2>1. attempts' = attempts /\ row' = row /\ run'[r].at = "out" /\ run[r].at # "none"
    BY <1>3, <1>11, StageEnded DEF Ended, rows
  <2> QED BY <1>1, <2>1
<1>12. CASE Crash
  <2>1. run'[r].at = "none" /\ run'[r].stage = 1
    BY <1>12 DEF Crash, Ready
  <2> QED BY <2>1
<1>13. CASE AttachVectors \/ Forget \/ UNCHANGED vars
  <2>1. row' = row /\ attempts' = attempts /\ run' = run /\ stageKeys' = stageKeys
    BY <1>13 DEF AttachVectors, Forget, vars, rows, ledger
  <2> QED BY <1>1, <2>1 DEF Stage
<1> QED BY <1>4, <1>5, <1>6, <1>7, <1>8, <1>9, <1>10, <1>11, <1>12, <1>13 DEF Next, RunStep, EndsStage
-----------------------------------------------------------------------------
(* The burst and its key are one transaction, so the key stands for the     *)
(* burst at every instant, and a run past the check holds it open.          *)

BurstKept == /\ bursts = IF burstKey THEN 1 ELSE 0
             /\ \A r \in Rows : run[r].at = "burst" => ~burstKey

LEMMA BurstInductive ==
  ASSUME NEW r, Rows = {r}, Typed, BurstKept, [Next]_vars
  PROVE  BurstKept'
<1>1. RunTyped /\ GraphTyped /\ burstKey \in BOOLEAN
  BY DEF Typed, LedgerTyped
<1>2. bursts = (IF burstKey THEN 1 ELSE 0) /\ (run[r].at = "burst" => ~burstKey)
  BY DEF BurstKept
<1>3. SUFFICES bursts' = (IF burstKey' THEN 1 ELSE 0) /\ (run'[r].at = "burst" => ~burstKey')
  BY DEF BurstKept
<1>4. CASE Begin(r) \/ Load(r) \/ LoadFails(r) \/ Enter(r) \/ MarkStage(r) \/ MarkRun(r) \/ Settle(r)
           \/ AssociationPairs(r) \/ CountPair(r)
  <2>1. UNCHANGED <<burstKey, bursts>>
    BY <1>4 DEF Begin, Load, LoadFails, Enter, MarkStage, MarkRun, Settle, AssociationPairs, CountPair, ledger, others
  <2>2. run'[r].at # "burst" \/ run' = run
    <3>1. run[r].stage \in 1..9
      BY <1>1, Columns
    <3>2. CASE Begin(r) \/ MarkRun(r) \/ AssociationPairs(r) \/ CountPair(r)
      BY <1>1, <3>2, Lands DEF Moved
    <3>3. CASE Load(r) \/ LoadFails(r) \/ Settle(r)
      BY <1>1, <3>3, Lands DEF Moved, Reset
    <3>4. CASE Enter(r) \/ MarkStage(r)
      BY <1>1, <3>1, <3>4, Lands DEF Moved, Advanced
    <3> QED BY <1>4, <3>2, <3>3, <3>4
  <2> QED BY <1>2, <2>1, <2>2
<1>5. CASE BurstChecked(r)
  <2>1. ~burstKey /\ UNCHANGED <<burstKey, bursts>>
    BY <1>5 DEF BurstChecked, CoExtracted, ledger, others
  <2> QED BY <1>2, <2>1
<1>6. CASE EndsStage(r)
  <2>1. run'[r].at = "out"
    BY <1>1, <1>6, StageEnded DEF Ended
  <2>2. CASE Burst(r) /\ Nodes > 1
    <3>1. burstKey' = TRUE /\ bursts' = bursts + 1 /\ run[r].at = "burst"
      BY <2>2 DEF Burst
    <3> QED BY <1>2, <2>1, <3>1
  <2>3. CASE ~(Burst(r) /\ Nodes > 1)
    <3>1. UNCHANGED <<burstKey, bursts>>
      BY <1>6, <2>3 DEF EndsStage, StageFails, StageEnds, Entity, Dedup, Cognitive, CountFails, MarkPairs, Burst, BurstAlready, ledger
    <3> QED BY <1>2, <2>1, <3>1
  <2> QED BY <2>2, <2>3
<1>7. CASE Crash
  <2>1. run'[r].at = "none" /\ UNCHANGED <<burstKey, bursts>>
    BY <1>7 DEF Crash, Ready, ledger
  <2> QED BY <1>2, <2>1
<1>8. CASE AttachVectors \/ Forget \/ UNCHANGED vars
  <2>1. run' = run /\ UNCHANGED <<burstKey, bursts>>
    BY <1>8 DEF AttachVectors, Forget, vars, ledger, others
  <2> QED BY <1>2, <2>1
<1> QED BY <1>4, <1>5, <1>6, <1>7, <1>8 DEF Next, RunStep, EndsStage

-----------------------------------------------------------------------------
(* An extraction that minted and did not fail is covered by its key, or     *)
(* still to be: only a crash comes between, and it pays for the next one.   *)

MintCovered == \A r \in Rows :
    \/ mints <= crashes + torn
    \/ /\ mints <= crashes + torn + 1
       /\ \/ "cognitive" \in stageKeys
          \/ run[r].at = "out" /\ run[r].stage = 4 /\ run[r].out = "ok"

LEMMA MintInductive ==
  ASSUME NEW r, Rows = {r}, Typed, Places, MintCovered, [Next]_vars
  PROVE  MintCovered'
<1>1. /\ RunTyped /\ GraphTyped /\ mints \in Nat /\ torn \in Nat /\ crashes \in Nat /\ run[r].stage \in 1..9
      /\ run[r].at = "in" => Stages[run[r].stage] \notin stageKeys
  BY PipelineAssumption, Columns DEF Typed, CountsTyped, Places, Stage
<1>2. \/ mints <= crashes + torn
      \/ /\ mints <= crashes + torn + 1
         /\ \/ "cognitive" \in stageKeys
            \/ run[r].at = "out" /\ run[r].stage = 4 /\ run[r].out = "ok"
  BY DEF MintCovered
<1>3. SUFFICES \/ mints' <= crashes' + torn'
               \/ /\ mints' <= crashes' + torn' + 1
                  /\ \/ "cognitive" \in stageKeys'
                     \/ run'[r].at = "out" /\ run'[r].stage = 4 /\ run'[r].out = "ok"
  BY DEF MintCovered
<1>4. CASE Begin(r) \/ Load(r) \/ LoadFails(r) \/ Enter(r) \/ MarkRun(r) \/ Settle(r)
           \/ AssociationPairs(r) \/ CountPair(r) \/ BurstChecked(r)
  <2>1. UNCHANGED <<mints, torn, crashes, stageKeys>>
    BY <1>4 DEF Begin, Load, LoadFails, Enter, MarkRun, Settle, AssociationPairs, CountPair, BurstChecked, ledger, others
  <2>2. run[r].at # "out" \/ run' = run
    <3>1. CASE Settle(r) \/ Load(r) \/ LoadFails(r) \/ Enter(r) \/ MarkRun(r) \/ AssociationPairs(r) \/ CountPair(r) \/ BurstChecked(r)
      BY <3>1 DEF Load, LoadFails, Enter, MarkRun, Settle, AssociationPairs, CountPair, BurstChecked, InStage
    <3>2. CASE Begin(r)
      BY <3>2 DEF Begin, Places
    <3> QED BY <1>4, <3>1, <3>2
  <2> QED BY <1>2, <2>1, <2>2
<1>5. CASE MarkStage(r)
  <2>1. UNCHANGED <<mints, torn, crashes>>
    BY <1>5 DEF MarkStage, others
  <2>2. stageKeys' = IF run[r].out \in {"ok", "skipped"} THEN stageKeys \cup {Stages[run[r].stage]} ELSE stageKeys
    BY <1>5 DEF MarkStage, Marks, Stage
  <2> QED BY <1>2, <2>1, <2>2, StageList
<1>6. CASE Cognitive(r)
  <2>1. run[r].at = "in" /\ Stages[run[r].stage] = "cognitive" /\ UNCHANGED <<stageKeys, crashes>>
    BY <1>6 DEF Cognitive, InStage, Stage, ledger
  <2>2. run[r].stage = 4 /\ "cognitive" \notin stageKeys
    BY <1>1, <2>1, StageNumber
  <2>3. PICK outcome \in {"ok", "skipped", "failed"} :
          /\ \/ UNCHANGED <<mints, torn>>
             \/ mints' = mints + 1 /\ torn' = torn /\ outcome = "ok"
             \/ mints' = mints + 1 /\ torn' = torn + 1
          /\ Report(r, outcome)
    BY <1>6 DEF Cognitive
  <2>4. Ended(r, outcome)
    BY <1>1, <2>3, EndLands
  <2> QED BY <1>1, <1>2, <2>1, <2>2, <2>3, <2>4 DEF Ended
<1>7. CASE StageFails(r) \/ StageEnds(r) \/ Entity(r) \/ Dedup(r) \/ CountFails(r) \/ MarkPairs(r) \/ Burst(r) \/ BurstAlready(r)
  <2>1. run[r].at # "out" /\ UNCHANGED <<mints, torn, crashes, stageKeys>>
    BY <1>7 DEF StageFails, StageEnds, Entity, Dedup, CountFails, MarkPairs, Burst, BurstAlready, InStage, ledger
  <2> QED BY <1>2, <2>1
<1>8. CASE Crash
  <2>1. crashes' = crashes + 1 /\ mints' = mints /\ torn' = torn
    BY <1>8 DEF Crash
  <2> QED BY <1>1, <1>2, <2>1
<1>9. CASE AttachVectors \/ Forget \/ UNCHANGED vars
  <2>1. run' = run /\ UNCHANGED <<mints, torn, crashes, stageKeys>>
    BY <1>9 DEF AttachVectors, Forget, vars, ledger, others
  <2> QED BY <1>2, <2>1
<1> QED BY <1>4, <1>5, <1>6, <1>7, <1>8, <1>9 DEF Next, RunStep
-----------------------------------------------------------------------------
(* Before the key of the pairs a pair has been counted at most once per cut *)
(* loop, and a pair still to be counted no more often than that.            *)

PairsKept == \A r \in Rows :
    /\ \A p \in Pairs : observed[p] <= 1 + cuts
    /\ ~pairsKey /\ run[r].at # "pairs" => \A p \in Pairs : observed[p] <= cuts
    /\ run[r].at = "pairs" => \A p \in run[r].left : observed[p] <= cuts
    /\ pairsKey /\ run[r].at = "pairs" => run[r].left = {}

LEMMA PairsInductive ==
  ASSUME NEW r, Rows = {r}, Typed, Places, PairsKept, [Next]_vars
  PROVE  PairsKept'
<1>1. /\ RunTyped /\ GraphTyped /\ observed \in [Pairs -> Nat] /\ cuts \in Nat /\ run[r].stage \in 1..9
      /\ run[r].left \subseteq Pairs
  BY Columns DEF Typed, GraphTyped, CountsTyped
<1>2. /\ \A p \in Pairs : observed[p] <= 1 + cuts
      /\ ~pairsKey /\ run[r].at # "pairs" => \A p \in Pairs : observed[p] <= cuts
      /\ run[r].at = "pairs" => \A p \in run[r].left : observed[p] <= cuts
      /\ pairsKey /\ run[r].at = "pairs" => run[r].left = {}
  BY DEF PairsKept
<1>3. SUFFICES /\ \A p \in Pairs : observed'[p] <= 1 + cuts'
               /\ ~pairsKey' /\ run'[r].at # "pairs" => \A p \in Pairs : observed'[p] <= cuts'
               /\ run'[r].at = "pairs" => \A p \in run'[r].left : observed'[p] <= cuts'
               /\ pairsKey' /\ run'[r].at = "pairs" => run'[r].left = {}
  BY DEF PairsKept
<1>4. CASE Begin(r) \/ Load(r) \/ LoadFails(r) \/ Enter(r) \/ MarkStage(r) \/ MarkRun(r) \/ Settle(r) \/ BurstChecked(r)
  <2>1. UNCHANGED <<observed, pairsKey, cuts>>
    BY <1>4 DEF Begin, Load, LoadFails, Enter, MarkStage, MarkRun, Settle, BurstChecked, ledger, graph, others
  <2>2. (run'[r].at # "pairs" /\ run[r].at # "pairs") \/ run' = run
    <3>1. CASE Begin(r)
      BY <1>1, <3>1, Lands DEF Moved, Begin, Places
    <3>2. CASE Load(r) \/ LoadFails(r) \/ Settle(r)
      BY <1>1, <3>2, Lands DEF Moved, Reset, Load, LoadFails, Settle
    <3>3. CASE Enter(r)
      <4>1. run[r].at = "enter"
        BY <3>3 DEF Enter
      <4> QED BY <1>1, <3>3, <4>1, Lands DEF Moved, Advanced
    <3>4. CASE MarkStage(r)
      <4>1. run[r].at = "out"
        BY <3>4 DEF MarkStage
      <4> QED BY <1>1, <3>4, <4>1, Lands DEF Advanced
    <3>5. CASE MarkRun(r) \/ BurstChecked(r)
      BY <1>1, <3>5, Lands DEF Moved, MarkRun, BurstChecked, InStage
    <3> QED BY <1>4, <3>1, <3>2, <3>3, <3>4, <3>5
  <2> QED BY <1>2, <2>1, <2>2
<1>5. CASE AssociationPairs(r)
  <2>1. UNCHANGED <<observed, pairsKey, cuts>> /\ run[r].at = "in"
    BY <1>5 DEF AssociationPairs, InStage, ledger, graph, others
  <2>2. run'[r].left = Uncounted
    BY <1>1, <1>5, Lands DEF Moved
  <2>3. Uncounted \subseteq Pairs /\ (pairsKey => Uncounted = {})
    BY <1>1, MentionedPairs DEF GraphTyped, Uncounted
  <2> QED BY <1>2, <2>1, <2>2, <2>3
<1>6. CASE CountPair(r)
  <2>1. PICK p \in run[r].left : /\ p \in Pairs /\ Moved(r, "pairs", run[r].left \ {p})
                                 /\ observed' = [observed EXCEPT ![p] = @ + 1]
    BY <1>1, <1>6, Lands
  <2>2. UNCHANGED <<pairsKey, cuts>> /\ run[r].at = "pairs"
    BY <1>6 DEF CountPair, ledger, others
  <2>3. run'[r].at = "pairs" /\ run'[r].left = run[r].left \ {p}
    BY <2>1 DEF Moved
  <2>4. \A q \in Pairs : observed'[q] = IF q = p THEN observed[q] + 1 ELSE observed[q]
    BY <1>1, <2>1
  <2> QED BY <1>1, <1>2, <2>1, <2>2, <2>3, <2>4
<1>7. CASE EndsStage(r)
  <2>1. run'[r].at = "out" /\ run'[r].left = {}
    BY <1>1, <1>7, StageEnded DEF Ended
  <2>2. CASE StageFails(r) \/ StageEnds(r) \/ Entity(r) \/ Dedup(r) \/ Cognitive(r) \/ Burst(r) \/ BurstAlready(r)
    <3>1. UNCHANGED <<observed, pairsKey, cuts>> /\ run[r].at # "pairs"
      BY <2>2 DEF StageFails, StageEnds, Entity, Dedup, Cognitive, Burst, BurstAlready, InStage, ledger, graph
    <3> QED BY <1>2, <2>1, <3>1
  <2>3. CASE CountFails(r)
    <3>1. UNCHANGED <<observed, pairsKey>> /\ cuts' = cuts + 1
      BY <2>3 DEF CountFails, ledger, graph
    <3> QED BY <1>1, <1>2, <2>1, <3>1
  <2>4. CASE MarkPairs(r)
    <3>1. UNCHANGED <<observed, cuts>> /\ pairsKey' = TRUE
      BY <2>4 DEF MarkPairs, graph
    <3> QED BY <1>2, <2>1, <3>1
  <2> QED BY <1>7, <2>2, <2>3, <2>4 DEF EndsStage
<1>8. CASE Crash
  <2>1. run'[r].at = "none" /\ UNCHANGED <<observed, pairsKey>>
    BY <1>8 DEF Crash, Ready, ledger, graph
  <2>2. cuts' = cuts + Cardinality({q \in Rows : run[q].at = "pairs"})
    BY <1>8 DEF Crash
  <2>3. CASE run[r].at = "pairs"
    <3>1. {q \in Rows : run[q].at = "pairs"} = {r}
      BY <2>3
    <3>2. cuts' = cuts + 1
      BY <2>2, <3>1, FS_Singleton
    <3> QED BY <1>1, <1>2, <2>1, <3>2
  <2>4. CASE run[r].at # "pairs"
    <3>1. {q \in Rows : run[q].at = "pairs"} = {}
      BY <2>4
    <3>2. cuts' = cuts
      BY <1>1, <2>2, <3>1, FS_EmptySet
    <3> QED BY <1>2, <2>1, <2>4, <3>2
  <2> QED BY <2>3, <2>4
<1>9. CASE AttachVectors \/ Forget \/ UNCHANGED vars
  <2>1. run' = run /\ UNCHANGED <<observed, pairsKey, cuts>>
    BY <1>9 DEF AttachVectors, Forget, vars, ledger, graph, others
  <2> QED BY <1>2, <2>1
<1> QED BY <1>4, <1>5, <1>6, <1>7, <1>8, <1>9 DEF Next, RunStep, EndsStage
-----------------------------------------------------------------------------
(* What a stage may report, and what the key of the associations stands     *)
(* for: none of the stages the run key vouches for waits once there is      *)
(* something to work on.                                                    *)

Reports == \A r \in Rows :
    /\ "associations" \in stageKeys => pairsKey
    /\ run[r].at = "out" =>
          /\ run[r].stage \in {1, 4, 9} => run[r].out # "waits"
          /\ run[r].stage \in {2, 3} /\ mentions # {} => run[r].out # "waits"
          /\ run[r].stage = 3 /\ run[r].out \in {"ok", "skipped"} => pairsKey
          /\ run[r].stage = 5 /\ Nodes > 1 => run[r].out # "waits"
          /\ run[r].stage = 7 /\ Nodes > 0 => run[r].out # "waits"

LEMMA ReportsInductive ==
  ASSUME NEW r, Rows = {r}, Typed, Places, Reports, [Next]_vars
  PROVE  Reports'
<1>1. RunTyped /\ GraphTyped /\ run[r].stage \in 1..9 /\ Nodes \in Nat
  BY Columns, NodesNat DEF Typed
<1>2. /\ "associations" \in stageKeys => pairsKey
      /\ run[r].at = "out" =>
          /\ run[r].stage \in {1, 4, 9} => run[r].out # "waits"
          /\ run[r].stage \in {2, 3} /\ mentions # {} => run[r].out # "waits"
          /\ run[r].stage = 3 /\ run[r].out \in {"ok", "skipped"} => pairsKey
          /\ run[r].stage = 5 /\ Nodes > 1 => run[r].out # "waits"
          /\ run[r].stage = 7 /\ Nodes > 0 => run[r].out # "waits"
  BY DEF Reports
<1>3. SUFFICES /\ "associations" \in stageKeys' => pairsKey'
               /\ run'[r].at = "out" =>
                    /\ run'[r].stage \in {1, 4, 9} => run'[r].out # "waits"
                    /\ run'[r].stage \in {2, 3} /\ mentions' # {} => run'[r].out # "waits"
                    /\ run'[r].stage = 3 /\ run'[r].out \in {"ok", "skipped"} => pairsKey'
                    /\ run'[r].stage = 5 /\ Nodes' > 1 => run'[r].out # "waits"
                    /\ run'[r].stage = 7 /\ Nodes' > 0 => run'[r].out # "waits"
  BY DEF Reports
<1>4. CASE Begin(r) \/ Load(r) \/ LoadFails(r) \/ Enter(r) \/ MarkRun(r) \/ Settle(r)
           \/ AssociationPairs(r) \/ CountPair(r) \/ BurstChecked(r)
  <2>1. UNCHANGED <<stageKeys, pairsKey, mentions, facts>>
    BY <1>4 DEF Begin, Load, LoadFails, Enter, MarkRun, Settle, AssociationPairs, CountPair, BurstChecked, ledger, graph
  <2>2. run'[r].at # "out" \/ run' = run
    <3>1. CASE Begin(r) \/ MarkRun(r) \/ AssociationPairs(r) \/ CountPair(r) \/ BurstChecked(r)
      BY <1>1, <3>1, Lands DEF Moved
    <3>2. CASE Load(r) \/ LoadFails(r) \/ Settle(r)
      BY <1>1, <3>2, Lands DEF Moved, Reset
    <3>3. CASE Enter(r)
      BY <1>1, <3>3, Lands DEF Moved, Advanced
    <3> QED BY <1>4, <3>1, <3>2, <3>3
  <2>3. Nodes' = Nodes
    BY <1>1, <2>1, NodesKept
  <2> QED BY <1>2, <2>1, <2>2, <2>3
<1>5. CASE MarkStage(r)
  <2>1. run[r].at = "out" /\ UNCHANGED <<pairsKey, mentions>>
    BY <1>5 DEF MarkStage, graph
  <2>2. stageKeys' = IF run[r].out \in {"ok", "skipped"} THEN stageKeys \cup {Stages[run[r].stage]} ELSE stageKeys
    BY <1>5 DEF MarkStage, Marks, Stage
  <2>3. run'[r].at # "out"
    BY <1>1, <1>5, Lands DEF Advanced
  <2>4. Stages[run[r].stage] = "associations" <=> run[r].stage = 3
    BY <1>1, StageNumber
  <2> QED BY <1>2, <2>1, <2>2, <2>3, <2>4
<1>14. CASE Dedup(r)
  <2>1. run[r].stage = 2 /\ UNCHANGED <<stageKeys, pairsKey, mentions>>
    BY <1>1, <1>14, StageNumber DEF Dedup, InStage, Stage, ledger, graph
  <2>2. PICK outcome \in {"ok", "waits"} : Report(r, outcome) /\ (mentions # {} => outcome = "ok")
    BY <1>14 DEF Dedup
  <2>3. Ended(r, outcome)
    BY <1>1, <2>2, EndLands
  <2> QED BY <1>2, <2>1, <2>2, <2>3 DEF Ended
<1>6. CASE Entity(r)
  <2>1. run[r].stage = 1 /\ UNCHANGED <<stageKeys, pairsKey>>
    BY <1>1, <1>6, StageNumber DEF Entity, InStage, Stage, ledger
  <2>2. \E outcome \in {"ok", "failed"} : Report(r, outcome)
    BY <1>6 DEF Entity
  <2>3. \E outcome \in {"ok", "failed"} : Ended(r, outcome)
    BY <1>1, <2>2, EndLands
  <2> QED BY <1>2, <2>1, <2>3 DEF Ended
<1>7. CASE Cognitive(r)
  <2>1. run[r].stage = 4 /\ UNCHANGED <<stageKeys, pairsKey>>
    BY <1>1, <1>7, StageNumber DEF Cognitive, InStage, Stage, ledger
  <2>2. \E outcome \in {"ok", "skipped", "failed"} : Report(r, outcome)
    BY <1>7 DEF Cognitive
  <2>3. \E outcome \in {"ok", "skipped", "failed"} : Ended(r, outcome)
    BY <1>1, <2>2, EndLands
  <2> QED BY <1>2, <2>1, <2>3 DEF Ended
<1>8. CASE MarkPairs(r)
  <2>1. pairsKey' = TRUE
    BY <1>8 DEF MarkPairs
  <2>2. \E outcome \in {"ok", "failed"} : Report(r, outcome)
    BY <1>8 DEF MarkPairs
  <2>3. \E outcome \in {"ok", "failed"} : Ended(r, outcome)
    BY <1>1, <2>2, EndLands
  <2> QED BY <2>1, <2>3 DEF Ended
<1>9. CASE StageFails(r) \/ CountFails(r)
  <2>1. Report(r, "failed") /\ UNCHANGED <<stageKeys, pairsKey>>
    BY <1>9 DEF StageFails, CountFails, ledger
  <2>2. Ended(r, "failed")
    BY <1>1, <2>1, EndLands
  <2> QED BY <1>2, <2>1, <2>2 DEF Ended
<1>10. CASE Burst(r) \/ BurstAlready(r)
  <2>1. run[r].stage = 7
    BY <1>1, <1>10, StageNumber DEF Burst, BurstAlready, InStage, Stage, Places
  <2>2. UNCHANGED <<stageKeys, pairsKey, mentions, facts>>
    BY <1>10 DEF Burst, BurstAlready, ledger, graph
  <2>3. Nodes' = Nodes
    BY <1>1, <2>2, NodesKept
  <2>4. PICK outcome \in {"ok", "skipped", "waits"} : Report(r, outcome) /\ (Nodes > 0 => outcome # "waits")
    BY <1>1, <1>10 DEF Burst, BurstAlready
  <2>5. Ended(r, outcome)
    BY <1>1, <2>4, EndLands
  <2> QED BY <1>2, <2>1, <2>2, <2>3, <2>4, <2>5 DEF Ended
<1>11. CASE StageEnds(r)
  <2>1. PICK outcome \in Outcomes(Stages[run[r].stage]) : Report(r, outcome)
    BY <1>11 DEF StageEnds, Stage
  <2>2. Ended(r, outcome)
    BY <1>1, <2>1, EndLands, Outcomes4
  <2>3. UNCHANGED <<stageKeys, pairsKey, mentions, facts>>
    BY <1>11 DEF StageEnds, ledger, graph
  <2>5. Nodes' = Nodes
    BY <1>1, <2>3, NodesKept
  <2>4. /\ run[r].stage \in {1, 3, 4, 9} /\ mentions # {} => outcome # "waits"
        /\ run[r].stage \in {1, 4, 9} => outcome # "waits"
        /\ run[r].stage # 2
        /\ run[r].stage = 3 => outcome = "waits"
        /\ run[r].stage = 5 /\ Nodes > 1 => outcome # "waits"
        /\ run[r].stage # 7
    BY <1>1, <2>1, StageList DEF Outcomes
  <2> QED BY <1>2, <2>2, <2>3, <2>4, <2>5 DEF Ended
<1>12. CASE Crash
  <2>1. run'[r].at = "none" /\ UNCHANGED <<stageKeys, pairsKey>>
    BY <1>12 DEF Crash, Ready, ledger
  <2> QED BY <1>2, <2>1
<1>13. CASE AttachVectors \/ Forget \/ UNCHANGED vars
  <2>1. run' = run /\ UNCHANGED <<stageKeys, pairsKey, mentions>>
    BY <1>13 DEF AttachVectors, Forget, vars, ledger, graph
  <2>2. Nodes' = Nodes
    <3>1. CASE AttachVectors
      BY <1>1, <3>1, NodesKept
    <3>2. CASE Forget \/ UNCHANGED vars
      BY <1>1, <3>2, NodesKept DEF Forget, vars, graph
    <3> QED BY <1>13, <3>1, <3>2
  <2> QED BY <1>2, <2>1, <2>2
<1> QED BY <1>4, <1>5, <1>6, <1>7, <1>8, <1>9, <1>10, <1>11, <1>12, <1>13, <1>14 DEF Next, RunStep
-----------------------------------------------------------------------------
(* A run that has failed nowhere leaves behind it the keys of the stages it *)
(* passed, those of the weaving stages as soon as there is an entity.       *)

Past(r, i) == \/ run[r].at \in {"mark", "settle"}
              \/ run[r].at \in {"enter", "in", "pairs", "burst", "out"} /\ run[r].stage > i

Passed == \A r \in Rows : ~run[r].failed =>
    /\ Past(r, 1) => "entities" \in stageKeys
    /\ Past(r, 2) /\ mentions # {} => "entity-dedup" \in stageKeys
    /\ Past(r, 3) /\ mentions # {} => "associations" \in stageKeys
    /\ Past(r, 4) => "cognitive" \in stageKeys
    /\ Past(r, 5) /\ Nodes > 1 => "semantic-relationships" \in stageKeys
    /\ Past(r, 7) /\ Nodes > 0 => "reinforcement" \in stageKeys
    /\ Past(r, 9) => "narratives" \in stageKeys

LEMMA PassedInductive ==
  ASSUME NEW r, Rows = {r}, Typed, Places, Reports, Passed, [Next]_vars
  PROVE  Passed'
<1>1. RunTyped /\ GraphTyped /\ run[r].stage \in 1..9 /\ run[r].failed \in BOOLEAN /\ Nodes \in Nat
  BY Columns, NodesNat DEF Typed
<1>2. ~run[r].failed =>
        /\ Past(r, 1) => "entities" \in stageKeys
        /\ Past(r, 2) /\ mentions # {} => "entity-dedup" \in stageKeys
        /\ Past(r, 3) /\ mentions # {} => "associations" \in stageKeys
        /\ Past(r, 4) => "cognitive" \in stageKeys
        /\ Past(r, 5) /\ Nodes > 1 => "semantic-relationships" \in stageKeys
        /\ Past(r, 7) /\ Nodes > 0 => "reinforcement" \in stageKeys
        /\ Past(r, 9) => "narratives" \in stageKeys
  BY DEF Passed
<1>16. UNCHANGED graph => Nodes' = Nodes
  BY <1>1, NodesKept DEF graph
<1> DEFINE Been(i) == \/ run'[r].at \in {"mark", "settle"}
                      \/ run'[r].at \in {"enter", "in", "pairs", "burst", "out"} /\ run'[r].stage > i
<1> DEFINE Keyed == /\ Been(1) => "entities" \in stageKeys'
                    /\ Been(2) /\ mentions' # {} => "entity-dedup" \in stageKeys'
                    /\ Been(3) /\ mentions' # {} => "associations" \in stageKeys'
                    /\ Been(4) => "cognitive" \in stageKeys'
                    /\ Been(5) /\ Nodes' > 1 => "semantic-relationships" \in stageKeys'
                    /\ Been(7) /\ Nodes' > 0 => "reinforcement" \in stageKeys'
                    /\ Been(9) => "narratives" \in stageKeys'
<1>3. SUFFICES ASSUME ~run'[r].failed PROVE Keyed
  BY DEF Passed, Past
<1>4. ASSUME ~run[r].failed, UNCHANGED <<stageKeys, mentions>>, Nodes' = Nodes,
             \A i \in {1, 2, 3, 4, 5, 7, 9} : Been(i) => Past(r, i)
      PROVE  Keyed
  BY <1>2, <1>4
<1>5. ASSUME ~run[r].failed, UNCHANGED mentions, Nodes' = Nodes, stageKeys \subseteq stageKeys', Advanced(r, FALSE),
             run[r].at \in {"enter", "out"},
             \/ Stages[run[r].stage] \in stageKeys'
             \/ run[r].stage \in {2, 3} /\ mentions = {}
             \/ run[r].stage = 5 /\ ~(Nodes > 1)
             \/ run[r].stage = 7 /\ ~(Nodes > 0)
             \/ run[r].stage \in {6, 8}
      PROVE  Keyed
  <2>1. \A i \in {1, 2, 3, 4, 5, 7, 9} : Been(i) => Past(r, i) \/ run[r].stage = i
    BY <1>1, <1>5 DEF Past, Advanced
  <2> QED BY <1>2, <1>5, <2>1, StageList
<1>6. CASE Begin(r)
  <2>1. UNCHANGED <<stageKeys, mentions>> /\ Nodes' = Nodes
    BY <1>6, <1>16 DEF Begin, ledger, graph
  <2>2. run' = run \/ Moved(r, "load", {})
    BY <1>1, <1>6, Lands
  <2>3. ~run[r].failed /\ \A i \in {1, 2, 3, 4, 5, 7, 9} : Been(i) => Past(r, i)
    BY <1>3, <2>2 DEF Moved, Past
  <2> QED BY <1>4, <2>1, <2>3
<1>7. CASE Load(r)
  <2>1. Moved(r, "enter", {}) \/ Reset(r)
    BY <1>1, <1>7, Lands
  <2>2. run[r].stage = 1
    BY <1>7 DEF Load, Places
  <2>3. ~Been(1) /\ ~Been(2) /\ ~Been(3) /\ ~Been(4) /\ ~Been(5) /\ ~Been(7) /\ ~Been(9)
    BY <2>1, <2>2 DEF Moved, Reset
  <2> QED BY <2>3
<1>8. CASE Enter(r)
  <2>1. UNCHANGED <<stageKeys, mentions>> /\ Nodes' = Nodes /\ run[r].at = "enter"
    BY <1>8, <1>16 DEF Enter, ledger, graph
  <2>2. CASE Moved(r, "in", {})
    <3>1. ~run[r].failed /\ \A i \in {1, 2, 3, 4, 5, 7, 9} : Been(i) => Past(r, i)
      BY <1>3, <2>1, <2>2 DEF Moved, Past
    <3> QED BY <1>4, <2>1, <3>1
  <2>3. CASE Stage(r) \in stageKeys /\ Advanced(r, FALSE)
    <3>1. ~run[r].failed
      BY <1>3, <2>3 DEF Advanced
    <3>2. Stages[run[r].stage] \in stageKeys'
      BY <2>1, <2>3 DEF Stage
    <3> QED BY <1>5, <2>1, <2>3, <3>1, <3>2
  <2> QED BY <1>1, <1>8, <2>2, <2>3, Lands
<1>9. CASE MarkStage(r)
  <2>1. Advanced(r, run[r].out = "failed") /\ run[r].at = "out" /\ UNCHANGED mentions /\ Nodes' = Nodes
    BY <1>1, <1>9, <1>16, Lands DEF MarkStage, graph
  <2>2. ~run[r].failed /\ run[r].out # "failed" /\ run[r].out \in Outcome
    BY <1>1, <1>3, <2>1, Columns DEF Advanced
  <2>3. Advanced(r, FALSE)
    BY <2>1, <2>2 DEF Advanced
  <2>4. stageKeys' = IF run[r].out \in {"ok", "skipped"} THEN stageKeys \cup {Stages[run[r].stage]} ELSE stageKeys
    BY <1>9 DEF MarkStage, Marks, Stage
  <2>5. /\ run[r].stage \in {1, 4, 9} => run[r].out # "waits"
        /\ run[r].stage \in {2, 3} /\ mentions # {} => run[r].out # "waits"
        /\ run[r].stage = 5 /\ Nodes > 1 => run[r].out # "waits"
        /\ run[r].stage = 7 /\ Nodes > 0 => run[r].out # "waits"
    BY <2>1 DEF Reports
  <2>6. CASE run[r].out = "waits"
    BY <1>1, <1>5, <2>1, <2>2, <2>3, <2>4, <2>5, <2>6
  <2>7. CASE run[r].out # "waits"
    <3>1. Stages[run[r].stage] \in stageKeys' /\ stageKeys \subseteq stageKeys'
      BY <2>2, <2>4, <2>7 DEF Outcome
    <3> QED BY <1>5, <2>1, <2>2, <2>3, <3>1
  <2> QED BY <2>6, <2>7
<1>10. CASE MarkRun(r)
  <2>1. Moved(r, "settle", {}) /\ run[r].at = "mark" /\ UNCHANGED <<stageKeys, mentions>> /\ Nodes' = Nodes
    BY <1>1, <1>10, <1>16, Lands DEF MarkRun, graph
  <2>2. ~run[r].failed /\ \A i \in {1, 2, 3, 4, 5, 7, 9} : Been(i) => Past(r, i)
    BY <1>3, <2>1 DEF Moved, Past
  <2> QED BY <1>4, <2>1, <2>2
<1>11. CASE Settle(r) \/ LoadFails(r) \/ Crash
  <2>1. run'[r].at = "none"
    <3>1. CASE Settle(r) \/ LoadFails(r)
      BY <1>1, <3>1, Lands DEF Reset
    <3>2. CASE Crash
      BY <3>2 DEF Crash, Ready
    <3> QED BY <1>11, <3>1, <3>2
  <2>2. ~Been(1) /\ ~Been(2) /\ ~Been(3) /\ ~Been(4) /\ ~Been(5) /\ ~Been(7) /\ ~Been(9)
    BY <2>1
  <2> QED BY <2>2
<1>12. CASE AssociationPairs(r) \/ CountPair(r) \/ BurstChecked(r)
  <2>0. UNCHANGED <<stageKeys, mentions, facts>>
    BY <1>12 DEF AssociationPairs, CountPair, BurstChecked, ledger, graph
  <2>1. UNCHANGED <<stageKeys, mentions>> /\ Nodes' = Nodes /\ run[r].at \in {"in", "pairs"}
    BY <1>1, <1>12, <2>0, NodesKept DEF AssociationPairs, CountPair, BurstChecked, InStage, ledger, graph
  <2>2. /\ run'[r].at \in {"pairs", "burst"} /\ run'[r].stage = run[r].stage
        /\ run'[r].failed = run[r].failed
    BY <1>1, <1>12, Lands DEF Moved
  <2>3. ~run[r].failed /\ \A i \in {1, 2, 3, 4, 5, 7, 9} : Been(i) => Past(r, i)
    BY <1>3, <2>1, <2>2 DEF Past
  <2> QED BY <1>4, <2>1, <2>3
<1>13. CASE EndsStage(r)
  <2>1. /\ run'[r].at = "out" /\ run'[r].stage = run[r].stage /\ run'[r].failed = run[r].failed
        /\ run[r].at \in {"in", "pairs", "burst"} /\ UNCHANGED stageKeys
    BY <1>1, <1>13, StageEnded DEF Ended
  <2>2. ~run[r].failed /\ \A i \in {1, 2, 3, 4, 5, 7, 9} : Been(i) => Past(r, i)
    BY <1>3, <2>1 DEF Past
  <2>3. CASE Entity(r)
    <3>1. run[r].stage = 1
      BY <1>1, <2>3, StageNumber DEF Entity, InStage, Stage
    <3>2. ~Been(1) /\ ~Been(2) /\ ~Been(3) /\ ~Been(4) /\ ~Been(5) /\ ~Been(7) /\ ~Been(9)
      BY <2>1, <3>1
    <3> QED BY <3>2
  <2>4. CASE Cognitive(r)
    <3>1. run[r].stage = 4 /\ UNCHANGED mentions
      BY <1>1, <2>4, StageNumber DEF Cognitive, InStage, Stage
    <3>2. ~Been(4) /\ ~Been(5) /\ ~Been(7) /\ ~Been(9)
      BY <2>1, <3>1
    <3> QED BY <1>2, <2>1, <2>2, <3>1, <3>2
  <2>5. CASE ~Entity(r) /\ ~Cognitive(r)
    <3>1. UNCHANGED <<mentions, facts>>
      BY <1>13, <2>5 DEF EndsStage, StageFails, StageEnds, Dedup, CountFails, MarkPairs, Burst, BurstAlready, graph
    <3>2. Nodes' = Nodes
      BY <1>1, <3>1, NodesKept
    <3> QED BY <1>4, <2>1, <2>2, <3>1, <3>2
  <2> QED BY <2>3, <2>4, <2>5
<1>14. CASE AttachVectors \/ Forget \/ UNCHANGED vars
  <2>0. UNCHANGED <<mentions, facts>> \/ AttachVectors
    BY <1>14 DEF Forget, vars, graph
  <2>1. run' = run /\ UNCHANGED <<stageKeys, mentions>> /\ Nodes' = Nodes
    BY <1>1, <1>14, <2>0, NodesKept DEF AttachVectors, Forget, vars, ledger, graph
  <2>2. ~run[r].failed /\ \A i \in {1, 2, 3, 4, 5, 7, 9} : Been(i) => Past(r, i)
    BY <1>3, <2>1 DEF Past
  <2> QED BY <1>4, <2>1, <2>2
<1> QED BY <1>6, <1>7, <1>8, <1>9, <1>10, <1>11, <1>12, <1>13, <1>14 DEF Next, RunStep, EndsStage
-----------------------------------------------------------------------------
(* The run key is written by a run that passed every stage, nothing follows *)
(* it but settling, and a row that settles well has it.                     *)

Sealed == /\ {"entities", "cognitive", "narratives"} \subseteq stageKeys
          /\ mentions # {} => pairsKey /\ {"entity-dedup", "associations"} \subseteq stageKeys
          /\ Nodes > 0 => "reinforcement" \in stageKeys
          /\ Nodes > 1 => "semantic-relationships" \in stageKeys

Closed == \A r \in Rows :
    /\ runKey => Sealed /\ run[r].at \in {"none", "settle"}
    /\ run[r].at = "settle" /\ ~run[r].failed => runKey
    /\ row[r] = "done" => ~readable \/ runKey

LEMMA ClosedInductive ==
  ASSUME NEW r, Rows = {r}, Typed, Places, Reports, Passed, Closed, [Next]_vars
  PROVE  Closed'
<1>1. /\ RunTyped /\ GraphTyped /\ RowsTyped /\ run[r].stage \in 1..9 /\ run[r].failed \in BOOLEAN
      /\ runKey \in BOOLEAN
  BY Columns DEF Typed, LedgerTyped
<1>2. /\ runKey => Sealed /\ run[r].at \in {"none", "settle"}
      /\ run[r].at = "settle" /\ ~run[r].failed => runKey
      /\ row[r] = "done" => ~readable \/ runKey
  BY DEF Closed
<1>3. SUFFICES /\ runKey' => Sealed' /\ run'[r].at \in {"none", "settle"}
               /\ run'[r].at = "settle" /\ ~run'[r].failed => runKey'
               /\ row'[r] = "done" => ~readable' \/ runKey'
  BY DEF Closed
<1>4. row[r] # "running" => run[r].at = "none"
  BY DEF Places
<1>5. UNCHANGED <<stageKeys, pairsKey, mentions>> /\ Nodes' = Nodes /\ Sealed => Sealed'
  BY DEF Sealed
<1>14. UNCHANGED graph => Nodes' = Nodes
  BY <1>1, NodesKept DEF graph
<1>6. CASE Begin(r)
  <2>1. UNCHANGED <<runKey, stageKeys, pairsKey, mentions, readable>> /\ Nodes' = Nodes /\ row[r] = "queued"
    BY <1>6, <1>14 DEF Begin, ledger, graph
  <2>2. ~runKey => row'[r] = "running"
    BY <1>1, <1>6 DEF Begin, RowsTyped
  <2>3. (runKey /\ run' = run) \/ (~runKey /\ run'[r].at = "load")
    BY <1>1, <1>6, Lands DEF Moved
  <2> QED BY <1>2, <1>4, <1>5, <2>1, <2>2, <2>3
<1>7. CASE Load(r)
  <2>1. UNCHANGED <<runKey, stageKeys, pairsKey, mentions, readable>> /\ Nodes' = Nodes /\ run[r].at = "load"
        /\ (readable => row' = row)
    BY <1>7, <1>14 DEF Load, ledger, graph
  <2>2. run'[r].at \in {"enter", "none"}
    BY <1>1, <1>7, Lands DEF Moved, Reset
  <2> QED BY <1>2, <2>1, <2>2
<1>8. CASE Enter(r) \/ MarkStage(r) \/ AssociationPairs(r) \/ CountPair(r) \/ BurstChecked(r)
  <2>1. UNCHANGED <<runKey, row, readable>> /\ run[r].at \in {"enter", "out", "in", "pairs"}
    BY <1>8 DEF Enter, MarkStage, AssociationPairs, CountPair, BurstChecked, InStage, rows, ledger, graph
  <2>2. run'[r].at # "settle"
    <3>1. CASE AssociationPairs(r) \/ CountPair(r) \/ BurstChecked(r)
      BY <1>1, <3>1, Lands DEF Moved
    <3>2. CASE Enter(r)
      BY <1>1, <3>2, Lands DEF Moved, Advanced
    <3>3. CASE MarkStage(r)
      BY <1>1, <3>3, Lands DEF Advanced
    <3> QED BY <1>8, <3>1, <3>2, <3>3
  <2> QED BY <1>2, <2>1, <2>2
<1>9. CASE MarkRun(r)
  <2>1. /\ run[r].at = "mark" /\ UNCHANGED <<row, stageKeys, pairsKey, mentions, readable>> /\ Nodes' = Nodes
        /\ runKey' = (runKey \/ ~run[r].failed)
    BY <1>9, <1>14 DEF MarkRun, Applies, rows, graph
  <2>2. ~runKey
    BY <1>2, <2>1
  <2>3. run'[r].at = "settle" /\ run'[r].failed = run[r].failed
    BY <1>1, <1>9, Lands DEF Moved
  <2>4. ~run[r].failed => Sealed
    BY <2>1 DEF Passed, Past, Reports, Sealed
  <2> QED BY <1>2, <1>5, <2>1, <2>2, <2>3, <2>4
<1>15. CASE LoadFails(r)
  <2>1. UNCHANGED <<runKey, stageKeys, pairsKey, mentions, readable>> /\ Nodes' = Nodes /\ run[r].at = "load"
    BY <1>14, <1>15 DEF LoadFails, ledger, graph
  <2>2. row'[r] # "done"
    BY <1>1, <1>15 DEF LoadFails, Spend, RowsTyped
  <2>3. run'[r].at = "none"
    BY <1>1, <1>15, Lands DEF Reset
  <2> QED BY <1>2, <1>5, <2>1, <2>2, <2>3
<1>10. CASE Settle(r)
  <2>1. UNCHANGED <<runKey, stageKeys, pairsKey, mentions, readable>> /\ Nodes' = Nodes /\ run[r].at = "settle"
    BY <1>10, <1>14 DEF Settle, ledger, graph
  <2>2. run[r].failed => row'[r] # "done"
    BY <1>1, <1>10 DEF Settle, Spend, RowsTyped
  <2>3. run'[r].at = "none"
    BY <1>1, <1>10, Lands DEF Reset
  <2> QED BY <1>2, <1>5, <2>1, <2>2, <2>3
<1>11. CASE EndsStage(r)
  <2>1. /\ UNCHANGED <<row, runKey, readable>> /\ run'[r].at = "out"
        /\ run[r].at \in {"in", "pairs", "burst"}
    BY <1>1, <1>11, StageEnded DEF Ended, rows
  <2> QED BY <1>2, <2>1
<1>12. CASE Crash
  <2>1. UNCHANGED <<runKey, stageKeys, pairsKey, mentions, readable>> /\ Nodes' = Nodes /\ run'[r].at = "none"
    BY <1>12, <1>14 DEF Crash, Ready, ledger, graph
  <2>2. row'[r] = "done" => row[r] = "done"
    BY <1>12 DEF Crash
  <2> QED BY <1>2, <1>5, <2>1, <2>2
<1>13. CASE AttachVectors \/ Forget \/ UNCHANGED vars
  <2>0. UNCHANGED <<mentions, facts>> \/ AttachVectors
    BY <1>13 DEF Forget, vars, graph
  <2>1. UNCHANGED <<row, runKey, stageKeys, pairsKey, mentions>> /\ Nodes' = Nodes /\ run' = run /\ (readable' => readable)
    BY <1>1, <1>13, <2>0, NodesKept DEF AttachVectors, Forget, vars, rows, ledger, graph
  <2>2. readable' \in BOOLEAN /\ (~readable => ~readable')
    BY <1>1, <2>1, <1>13 DEF AttachVectors, Forget, vars, graph, GraphTyped
  <2> QED BY <1>2, <1>5, <2>1, <2>2
<1> QED BY <1>6, <1>7, <1>8, <1>9, <1>10, <1>11, <1>12, <1>13, <1>15 DEF Next, RunStep, EndsStage

-----------------------------------------------------------------------------
(* What the keys of the weaving stages say of the entities: all but the     *)
(* late ones are behind them.  Before an extraction has closed its key, or  *)
(* has failed over mentions in the graph, neither key is closed.            *)

Counted(S) == \A p \in PairsOf(S) : observed[p] > 0

Woven ==
    /\ "entity-dedup" \in stageKeys => mentions \ late \subseteq deduped
    /\ pairsKey => Counted(mentions \ late)
    /\ "entity-dedup" \in stageKeys \/ pairsKey => partial \/ "entities" \in stageKeys
    /\ \A r \in Rows :
         /\ Past(r, 1) /\ mentions # {} => partial \/ "entities" \in stageKeys
         /\ run[r].at = "out" /\ run[r].stage = 1 /\ run[r].out = "failed" /\ mentions # {} => partial
         /\ run[r].at = "out" /\ run[r].stage = 2 /\ run[r].out \in {"ok", "skipped"} =>
               mentions # {} /\ mentions \subseteq deduped
         /\ run[r].at = "pairs" =>
               /\ mentions # {}
               /\ ~pairsKey => \A p \in PairsOf(mentions) : p \in run[r].left \/ observed[p] > 0

LEMMA WovenInductive ==
  ASSUME NEW r, Rows = {r}, Typed, Places, Reports, PairsKept, Woven, [Next]_vars
  PROVE  Woven'
<1>1. /\ RunTyped /\ GraphTyped /\ run[r].stage \in 1..9 /\ observed \in [Pairs -> Nat]
      /\ partial \in BOOLEAN
  BY Columns DEF Typed, GraphTyped, CountsTyped
<1>2. /\ "entity-dedup" \in stageKeys => mentions \ late \subseteq deduped
      /\ pairsKey => Counted(mentions \ late)
      /\ "entity-dedup" \in stageKeys \/ pairsKey => partial \/ "entities" \in stageKeys
      /\ Past(r, 1) /\ mentions # {} => partial \/ "entities" \in stageKeys
      /\ run[r].at = "out" /\ run[r].stage = 1 /\ run[r].out = "failed" /\ mentions # {} => partial
      /\ run[r].at = "out" /\ run[r].stage = 2 /\ run[r].out \in {"ok", "skipped"} =>
            mentions # {} /\ mentions \subseteq deduped
      /\ run[r].at = "pairs" =>
            /\ mentions # {}
            /\ ~pairsKey => \A p \in PairsOf(mentions) : p \in run[r].left \/ observed[p] > 0
  BY DEF Woven
<1> DEFINE Been == \/ run'[r].at \in {"mark", "settle"}
                   \/ run'[r].at \in {"enter", "in", "pairs", "burst", "out"} /\ run'[r].stage > 1
<1> DEFINE Tables == /\ "entity-dedup" \in stageKeys' => mentions' \ late' \subseteq deduped'
                     /\ pairsKey' => Counted(mentions \ late)'
                     /\ "entity-dedup" \in stageKeys' \/ pairsKey' => partial' \/ "entities" \in stageKeys'
<1> DEFINE Runs == /\ Been /\ mentions' # {} => partial' \/ "entities" \in stageKeys'
                   /\ run'[r].at = "out" /\ run'[r].stage = 1 /\ run'[r].out = "failed" /\ mentions' # {} => partial'
                   /\ run'[r].at = "out" /\ run'[r].stage = 2 /\ run'[r].out \in {"ok", "skipped"} =>
                         mentions' # {} /\ mentions' \subseteq deduped'
                   /\ run'[r].at = "pairs" =>
                         /\ mentions' # {}
                         /\ ~pairsKey' => \A p \in PairsOf(mentions)' : p \in run'[r].left \/ observed'[p] > 0
<1>3. SUFFICES Tables /\ Runs
  BY DEF Woven, Past
<1>4. UNCHANGED <<stageKeys, pairsKey, mentions, late, deduped, partial, observed>> => Tables
  <2>1. SUFFICES ASSUME UNCHANGED <<stageKeys, pairsKey, mentions, late, deduped, partial, observed>>
                 PROVE  Tables
    OBVIOUS
  <2>2. Counted(mentions \ late)' <=> Counted(mentions \ late)
    BY <2>1 DEF Counted
  <2> QED BY <1>2, <2>1, <2>2
\* A step of the run alone.
<1>5. CASE Begin(r) \/ Load(r) \/ LoadFails(r) \/ Enter(r) \/ MarkRun(r) \/ Settle(r)
           \/ BurstChecked(r) \/ Crash \/ AttachVectors \/ Forget \/ UNCHANGED vars
  <2>1. UNCHANGED <<stageKeys, pairsKey, mentions, late, deduped, partial, observed>>
    <3>1. CASE Begin(r) \/ Load(r) \/ LoadFails(r) \/ Enter(r)
      BY <3>1 DEF Begin, Load, LoadFails, Enter, ledger, graph, others, woven
    <3>2. CASE MarkRun(r) \/ Settle(r) \/ BurstChecked(r)
      BY <3>2 DEF MarkRun, Settle, BurstChecked, ledger, graph, others, woven
    <3>3. CASE Crash \/ AttachVectors \/ Forget \/ UNCHANGED vars
      BY <3>3 DEF Crash, AttachVectors, Forget, vars, ledger, graph, others, woven
    <3> QED BY <1>5, <3>1, <3>2, <3>3
  <2>2. \/ run' = run
        \/ run'[r].at \notin {"out", "pairs"} /\ (Been => Past(r, 1) \/ "entities" \in stageKeys)
    <3>1. CASE Begin(r)
      BY <1>1, <3>1, Lands DEF Moved
    <3>2. CASE Load(r)
      <4>1. run[r].stage = 1
        BY <3>2 DEF Load, Places
      <4>2. (run'[r].at = "enter" \/ run'[r].at = "none") /\ run'[r].stage = 1
        BY <1>1, <3>2, <4>1, Lands DEF Moved, Reset
      <4> QED BY <4>2
    <3>3. CASE LoadFails(r) \/ Settle(r)
      BY <1>1, <3>3, Lands DEF Reset
    <3>4. CASE Enter(r)
      <4>1. run[r].at = "enter"
        BY <3>4 DEF Enter
      <4>2. CASE Moved(r, "in", {})
        BY <4>1, <4>2 DEF Moved, Past
      <4>3. CASE Stage(r) \in stageKeys /\ Advanced(r, FALSE)
        <5>1. run[r].stage = 1 => "entities" \in stageKeys
          BY <1>1, <4>3, StageNumber DEF Stage
        <5>2. run'[r].at \in {"enter", "mark"} /\ (run[r].stage > 1 => Past(r, 1))
          BY <1>1, <4>1, <4>3 DEF Advanced, Past
        <5> QED BY <1>1, <5>1, <5>2
      <4> QED BY <1>1, <3>4, <4>2, <4>3, Lands
    <3>5. CASE MarkRun(r)
      BY <1>1, <3>5, Lands DEF Moved, MarkRun, Past
    <3>6. CASE BurstChecked(r)
      BY <1>1, <3>6, Lands DEF Moved, BurstChecked, InStage, Past
    <3>7. CASE Crash
      BY <3>7 DEF Crash, Ready
    <3>8. CASE AttachVectors \/ Forget \/ UNCHANGED vars
      BY <3>8 DEF AttachVectors, Forget, vars
    <3> QED BY <1>5, <3>1, <3>2, <3>3, <3>4, <3>5, <3>6, <3>7, <3>8
  <2>3. CASE run' = run
    BY <1>2, <1>4, <2>1, <2>3 DEF Past
  <2>4. CASE run'[r].at \notin {"out", "pairs"} /\ (Been => Past(r, 1) \/ "entities" \in stageKeys)
    BY <1>2, <1>4, <2>1, <2>4
  <2> QED BY <2>2, <2>3, <2>4
<1>6. CASE MarkStage(r)
  <2>1. run[r].at = "out" /\ UNCHANGED <<pairsKey, mentions, late, deduped, partial, observed>>
    BY <1>6 DEF MarkStage, graph, others, woven
  <2>2. stageKeys' = IF run[r].out \in {"ok", "skipped"} THEN stageKeys \cup {Stages[run[r].stage]} ELSE stageKeys
    BY <1>6 DEF MarkStage, Marks, Stage
  <2>3. run'[r].at \in {"enter", "mark"}
    BY <1>1, <1>6, Lands DEF Advanced
  <2>4. run[r].stage > 1 => Past(r, 1)
    BY <2>1 DEF Past
  <2>5. run[r].stage = 1 /\ mentions # {} => partial \/ "entities" \in stageKeys'
    <3>1. run[r].out \in Outcome /\ (run[r].stage = 1 => run[r].out # "waits")
      BY <1>1, <2>1, Columns DEF Reports
    <3> QED BY <1>2, <2>1, <2>2, <3>1, StageList DEF Outcome
  <2>6. mentions # {} => partial \/ "entities" \in stageKeys'
    BY <1>1, <1>2, <2>2, <2>4, <2>5
  <2>7. "entity-dedup" \in stageKeys' =>
           "entity-dedup" \in stageKeys \/ (mentions # {} /\ mentions \subseteq deduped)
    BY <1>1, <1>2, <2>1, <2>2, StageNumber
  <2>8. Counted(mentions \ late)' <=> Counted(mentions \ late)
    BY <2>1 DEF Counted
  <2>9. stageKeys \subseteq stageKeys'
    BY <2>2
  <2>10. Tables
    BY <1>2, <2>1, <2>6, <2>7, <2>8, <2>9
  <2>11. Runs
    BY <2>1, <2>3, <2>6
  <2> QED BY <2>10, <2>11
<1>7. CASE AssociationPairs(r)
  <2>1. UNCHANGED <<stageKeys, pairsKey, mentions, late, deduped, partial, observed>> /\ mentions # {}
        /\ run[r].at = "in" /\ run[r].stage = 3
    BY <1>1, <1>7, StageNumber DEF AssociationPairs, InStage, Stage, ledger, graph, others, woven
  <2>2. /\ run'[r].at = "pairs" /\ run'[r].left = Uncounted
        /\ PairsOf(mentions)' = PairsOf(mentions)
    BY <1>1, <1>7, <2>1, Lands DEF Moved
  <2>3. ~pairsKey => Uncounted = PairsOf(mentions)
    BY DEF Uncounted
  <2>4. partial \/ "entities" \in stageKeys
    BY <1>2, <2>1 DEF Past
  <2> QED BY <1>4, <2>1, <2>2, <2>3, <2>4
<1>8. CASE CountPair(r)
  <2>1. PICK p \in run[r].left : /\ p \in Pairs /\ Moved(r, "pairs", run[r].left \ {p})
                                 /\ observed' = [observed EXCEPT ![p] = @ + 1]
    BY <1>1, <1>8, Lands
  <2>2. UNCHANGED <<stageKeys, pairsKey, mentions, late, deduped, partial>> /\ run[r].at = "pairs"
    BY <1>8 DEF CountPair, ledger, others, woven
  <2>3. run[r].stage = 3 /\ mentions # {}
    BY <1>2, <2>2 DEF Places
  <2>4. partial \/ "entities" \in stageKeys
    BY <1>2, <2>2, <2>3 DEF Past
  <2>5. \A q \in Pairs : observed'[q] = IF q = p THEN observed[q] + 1 ELSE observed[q]
    BY <1>1, <2>1
  <2>6. PairsOf(mentions \ late) \subseteq Pairs /\ PairsOf(mentions) \subseteq Pairs
    BY <1>1 DEF PairsOf, Pairs, GraphTyped
  <2>7. pairsKey => Counted(mentions \ late)'
    <3>1. SUFFICES ASSUME pairsKey, NEW q \in PairsOf(mentions \ late) PROVE observed'[q] > 0
      BY <2>2 DEF Counted
    <3>2. q \in Pairs /\ observed[q] > 0 /\ observed[q] \in Nat
      BY <1>1, <1>2, <2>6, <3>1 DEF Counted
    <3> QED BY <2>5, <3>2
  <2>8. ~pairsKey => \A q \in PairsOf(mentions) : q \in run'[r].left \/ observed'[q] > 0
    <3>1. SUFFICES ASSUME ~pairsKey, NEW q \in PairsOf(mentions), q \notin run'[r].left
                   PROVE  observed'[q] > 0
      OBVIOUS
    <3>2. q = p \/ q \notin run[r].left
      BY <2>1, <3>1 DEF Moved
    <3>3. q \in Pairs /\ observed[q] \in Nat
      BY <1>1, <2>6, <3>1
    <3>4. q # p => observed[q] > 0
      BY <1>2, <2>2, <3>1, <3>2
    <3> QED BY <2>5, <3>3, <3>4
  <2>9. run'[r].at = "pairs"
    BY <2>1 DEF Moved
  <2>10. PairsOf(mentions)' = PairsOf(mentions)
    BY <2>2
  <2>11. Tables
    BY <1>2, <2>2, <2>7
  <2>12. Runs
    BY <2>2, <2>3, <2>4, <2>8, <2>9, <2>10
  <2> QED BY <2>11, <2>12
<1>9. CASE MarkPairs(r)
  <2>1. /\ run[r].at = "pairs" /\ run[r].left = {} /\ pairsKey' = TRUE
        /\ UNCHANGED <<stageKeys, mentions, late, deduped, partial, observed>>
    BY <1>9 DEF MarkPairs, graph, woven
  <2>2. run[r].stage = 3 /\ mentions # {}
    BY <1>2, <2>1 DEF Places
  <2>3. partial \/ "entities" \in stageKeys
    BY <1>2, <2>1, <2>2 DEF Past
  <2>4. Counted(mentions \ late)
    <3>1. PairsOf(mentions \ late) \subseteq PairsOf(mentions)
      BY DEF PairsOf
    <3> QED BY <1>2, <2>1, <3>1 DEF Counted
  <2>5. Counted(mentions \ late)'
    BY <2>1, <2>4 DEF Counted
  <2>6. run'[r].at = "out" /\ run'[r].stage = 3
    BY <1>1, <1>9, <2>2, StageEnded DEF EndsStage, Ended
  <2> QED BY <1>2, <2>1, <2>3, <2>5, <2>6
<1>10. CASE Entity(r)
  <2>1. run[r].at = "in" /\ run[r].stage = 1 /\ UNCHANGED <<stageKeys, pairsKey, deduped, observed>>
    BY <1>1, <1>10, StageNumber DEF Entity, InStage, Stage, ledger
  <2>2. "entities" \notin stageKeys
    BY <2>1, StageList DEF Places, Stage
  <2>3. PICK named \in SUBSET Entities, outcome \in {"ok", "failed"} :
           /\ mentions' = mentions \cup named
           /\ late' = IF partial THEN late \cup (named \ mentions) ELSE late
           /\ partial' = (partial \/ (outcome = "failed" /\ mentions' # {}))
           /\ Report(r, outcome)
    BY <1>10 DEF Entity
  <2>4. Ended(r, outcome)
    BY <1>1, <2>3, EndLands
  <2>5. partial => mentions' \ late' \subseteq mentions \ late
    BY <2>3
  <2>6. partial /\ Counted(mentions \ late) => Counted(mentions \ late)'
    <3>1. partial => PairsOf(mentions' \ late') \subseteq PairsOf(mentions \ late)
      BY <2>5 DEF PairsOf
    <3> QED BY <2>1, <3>1 DEF Counted, PairsOf
  <2>7. partial => partial'
    BY <2>3
  <2>8. Tables
    BY <1>2, <2>1, <2>2, <2>5, <2>6, <2>7
  <2>9. run'[r].at = "out" /\ run'[r].stage = 1 /\ run'[r].out = outcome
    BY <2>1, <2>4 DEF Ended
  <2>10. outcome = "failed" /\ mentions' # {} => partial'
    BY <2>3
  <2> QED BY <2>8, <2>9, <2>10
<1>11. CASE Dedup(r)
  <2>1. /\ run[r].at = "in" /\ run[r].stage = 2 /\ deduped' = deduped \cup mentions
        /\ UNCHANGED <<stageKeys, pairsKey, mentions, late, partial, observed>>
    BY <1>1, <1>11, StageNumber DEF Dedup, InStage, Stage, ledger, graph
  <2>2. PICK outcome \in {"ok", "waits"} : Report(r, outcome) /\ (mentions = {} => outcome = "waits")
    BY <1>11 DEF Dedup
  <2>3. Ended(r, outcome)
    BY <1>1, <2>2, EndLands
  <2>4. mentions # {} => partial \/ "entities" \in stageKeys
    BY <1>2, <2>1 DEF Past
  <2>5. Counted(mentions \ late)' <=> Counted(mentions \ late)
    BY <2>1 DEF Counted
  <2> QED BY <1>2, <2>1, <2>2, <2>3, <2>4, <2>5 DEF Ended
<1>12. CASE StageFails(r)
  <2>1. /\ run[r].at = "in" /\ UNCHANGED <<stageKeys, pairsKey, mentions, late, deduped, observed>>
        /\ partial' = (partial \/ (Stage(r) = "entities" /\ mentions # {}))
    BY <1>12 DEF StageFails, ledger, graph
  <2>2. Ended(r, "failed")
    BY <1>1, <1>12, EndLands DEF StageFails
  <2>3. run[r].stage = 1 => Stage(r) = "entities"
    BY StageList DEF Stage
  <2>4. run[r].stage > 1 /\ mentions # {} => partial \/ "entities" \in stageKeys
    BY <1>2, <2>1 DEF Past
  <2>5. Counted(mentions \ late)' <=> Counted(mentions \ late)
    BY <2>1 DEF Counted
  <2> QED BY <1>2, <2>1, <2>2, <2>3, <2>4, <2>5 DEF Ended
<1>13. CASE StageEnds(r) \/ Cognitive(r) \/ CountFails(r) \/ Burst(r) \/ BurstAlready(r)
  <2>1. UNCHANGED <<stageKeys, pairsKey, mentions, late, deduped, partial, observed>>
    BY <1>13 DEF StageEnds, Cognitive, CountFails, Burst, BurstAlready, ledger, graph, woven
  <2>2. run[r].stage \notin {1, 2}
    <3>1. CASE StageEnds(r)
      BY <3>1, StageList DEF StageEnds, Stage, Outcomes
    <3>2. CASE Cognitive(r)
      BY <1>1, <3>2, StageNumber DEF Cognitive, InStage, Stage
    <3>3. CASE CountFails(r)
      BY <3>3 DEF CountFails, Places
    <3>4. CASE Burst(r)
      BY <3>4 DEF Burst, Places
    <3>5. CASE BurstAlready(r)
      BY <1>1, <3>5, StageNumber DEF BurstAlready, InStage, Stage
    <3> QED BY <1>13, <3>1, <3>2, <3>3, <3>4, <3>5
  <2>3. run'[r].at = "out" /\ run'[r].stage = run[r].stage /\ run[r].at \in {"in", "pairs", "burst"}
    BY <1>1, <1>13, StageEnded DEF EndsStage, Ended
  <2>4. mentions # {} => partial \/ "entities" \in stageKeys
    BY <1>1, <1>2, <2>2, <2>3 DEF Past
  <2> QED BY <1>4, <2>1, <2>2, <2>3, <2>4
<1> QED BY <1>5, <1>6, <1>7, <1>8, <1>9, <1>10, <1>11, <1>12, <1>13 DEF Next, RunStep

-----------------------------------------------------------------------------
(* The theorems, for an episode with one queue row. *)

Kept == Typed /\ Places /\ BurstKept /\ MintCovered /\ PairsKept /\ Reports /\ Passed /\ Closed /\ Woven

LEMMA KeptInitially ==
  ASSUME NEW r, Rows = {r}, Init
  PROVE  Kept
<1>1. /\ row[r] = "queued" /\ attempts[r] = 0 /\ run[r] = Ready
  BY DEF Init
<1>2. /\ run[r].at = "none" /\ run[r].stage = 1 /\ run[r].failed = FALSE /\ run[r].left = {}
      /\ Ready \in RunState
  BY <1>1, StageList DEF Ready, RunState, Spots, Outcome
<1>3. Typed
  <2>1. RowsTyped
    BY PipelineAssumption DEF Init, RowsTyped
  <2>2. RunTyped
    BY <1>2 DEF Init, RunTyped
  <2>3. LedgerTyped
    BY DEF Init, LedgerTyped
  <2>4. GraphTyped
    BY DEF Init, GraphTyped
  <2>5. CountsTyped
    <3>1. 0 \in 0..MaxCrashes /\ 0 \in 0..MaxFailures
      BY PipelineAssumption
    <3> QED BY <3>1 DEF Init, CountsTyped
  <2> QED BY <2>1, <2>2, <2>3, <2>4, <2>5 DEF Typed
<1>4. Places /\ BurstKept /\ MintCovered
  BY <1>1, <1>2, PipelineAssumption DEF Init, Places, BurstKept, MintCovered
<1>5. PairsKept
  BY <1>1, <1>2 DEF Init, PairsKept
<1>6. Reports /\ Passed /\ Closed
  BY <1>1, <1>2 DEF Init, Reports, Passed, Past, Closed
<1>7. Woven
  BY <1>1, <1>2 DEF Init, Woven, Past
<1> QED BY <1>3, <1>4, <1>5, <1>6, <1>7 DEF Kept

LEMMA KeptAlways == ASSUME NEW r, Rows = {r} PROVE Spec => []Kept
<1>1. Init => Kept
  BY KeptInitially
<1>2. Kept /\ [Next]_vars => Kept'
  <2>1. Kept /\ [Next]_vars => Typed' /\ Places' /\ BurstKept'
    BY TypesInductive, PlacesInductive, BurstInductive DEF Kept
  <2>2. Kept /\ [Next]_vars => MintCovered' /\ PairsKept' /\ Reports'
    BY MintInductive, PairsInductive, ReportsInductive DEF Kept
  <2>3. Kept /\ [Next]_vars => Passed' /\ Closed' /\ Woven'
    BY PassedInductive, ClosedInductive, WovenInductive DEF Kept
  <2> QED BY <2>1, <2>2, <2>3 DEF Kept
<1> QED BY <1>1, <1>2, PTL DEF Spec

(* Types.                                                                   *)
THEOREM PipelineTypes == ASSUME NEW r, Rows = {r} PROVE Spec => []TypeOK
<1>1. Kept => TypeOK
  BY TypeParts DEF Kept
<1> QED BY <1>1, KeptAlways, PTL

(* The reinforcement queue gets at most one burst from an episode, whatever *)
(* fails or crashes.                                                        *)
THEOREM OneBurstPerEpisode == ASSUME NEW r, Rows = {r} PROVE Spec => []OneBurst
<1>1. Kept => OneBurst
  BY DEF Kept, BurstKept, OneBurst
<1> QED BY <1>1, KeptAlways, PTL

(* Only a crash before its key, or a failed write of its own, repeats an    *)
(* extraction that minted nodes.                                            *)
THEOREM ExtractionRepeatsOnlyWhenCutShort ==
  ASSUME NEW r, Rows = {r} PROVE Spec => []RemintedOnlyWhenCutShort
<1>1. Kept => RemintedOnlyWhenCutShort
  <2>1. Kept => mints \in Nat /\ torn \in Nat /\ crashes \in Nat
    BY PipelineAssumption DEF Kept, Typed, CountsTyped
  <2> QED BY <2>1 DEF Kept, MintCovered, RemintedOnlyWhenCutShort
<1> QED BY <1>1, KeptAlways, PTL

(* A pair is counted again only after a loop that was cut short.            *)
THEOREM PairsCountedOncePerLoop ==
  ASSUME NEW r, Rows = {r} PROVE Spec => []PairsRecountedOnlyAfterCut
<1>1. Kept => PairsRecountedOnlyAfterCut
  BY DEF Kept, PairsKept, PairsRecountedOnlyAfterCut
<1> QED BY <1>1, KeptAlways, PTL

LEMMA TwoMakeAPair ==
  ASSUME NEW S, NEW e \in S, NEW f \in S, e # f PROVE {e, f} \in PairsOf(S)
<1>1. IsFiniteSet({e}) /\ Cardinality({e}) = 1
  BY FS_Singleton
<1>2. Cardinality({e} \cup {f}) = 2
  BY <1>1, FS_AddElement
<1>3. {e} \cup {f} = {e, f}
  OBVIOUS
<1> QED BY <1>2, <1>3 DEF PairsOf

(* Under the run key each entity, but those a retry named late, has been    *)
(* deduplicated and counted with each other one.                            *)
THEOREM RunKeyMeansWoven == ASSUME NEW r, Rows = {r} PROVE Spec => []EntitiesAreWoven
<1>1. ASSUME Kept, runKey, NEW e \in mentions \ late
      PROVE  e \in deduped /\ \A f \in mentions \ late : e # f => observed[{e, f}] > 0
  <2>1. pairsKey /\ "entity-dedup" \in stageKeys
    BY <1>1 DEF Kept, Closed, Sealed
  <2>2. e \in deduped /\ Counted(mentions \ late)
    BY <1>1, <2>1 DEF Kept, Woven
  <2> QED BY <1>1, <2>2, TwoMakeAPair DEF Counted
<1>2. Kept => EntitiesAreWoven
  BY <1>1 DEF EntitiesAreWoven
<1> QED BY <1>2, KeptAlways, PTL

(* A finished row means an episode nobody can read, or one whose stages     *)
(* have closed their keys, but for those with nothing to work on and those  *)
(* waiting for vectors.                                                     *)
THEOREM FinishedMeansEnriched == ASSUME NEW r, Rows = {r} PROVE Spec => []DoneMeansEnriched
<1>1. Kept => DoneMeansEnriched
  BY DEF Kept, Closed, Sealed, DoneMeansEnriched
<1> QED BY <1>1, KeptAlways, PTL
=============================================================================
