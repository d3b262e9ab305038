# Aion: a TLA+ verification project

Aion is a local memory service for coding agents. A client pushes *experiences* over MCP; the
service stores each as an Episode in Neo4j, queues a job in SQLite, and a worker runs a pipeline
of model calls that turns the episode into entities, facts and associations. An introspection
loop repairs and prunes what accumulates, a recall path answers queries from the graph, and a
command line reads and edits the same two stores from its own process.

What makes it hard is not the model calls: it is that two stores without a common transaction,
several processes over one SQLite file, timers, retries, crashes and overlapping calls have to
agree on what is stored, enriched, current, merged and told. This directory models that. Every
definition is translated from `src/packages`; `PROJECT.json` maps each to its lines, lists the
hazards of the code, the runs, a mutant for each property and the theorems.

## 1. Inventory

Paths are under `src/packages`; `C` is `core/src`.

| Component | State | Operations | What is hard | What makes it correct |
|---|---|---|---|---|
| Reflection queue (`C/infrastructure/sqlite/{claim,reflection-queue,reflection-queue-admin,dead-letter-queue,ops-ledger}.ts`) | table `reflection_queue`: lane, turn, attempts, claim; ops ledger | enqueue, claim, release, complete, stale sweep, drop, promote, relane | statements of several processes in any order; claims that expire while their run lives | a row has one claimant; attempts stay bounded; fair turns |
| Reflection worker (`C/reflection/application/worker.ts`) | pool, held retries, timers, breaker pause, lifecycle flags | start, wake, pump, run, fail, backoff, cooldown, reap, stop | backoff timers shadowing each other, late failures during stop, crashes with claims held | no claim lost, no row run twice, stop leaves nothing, every row settles |
| Orchestrator and stages (`C/reflection/application/{orchestrator,pipeline}.ts`, `stages/`, `domain/stage.ts`) | run key and stage keys in the ledger, two keys inside stages, the graph | run, gate, stage, mark | a failure or crash between any write and its key; stages waiting on failed stages | nothing done twice that must not be, nothing closed that was not done |
| Intake (`C/reflection/application/{intake,experience-store}.ts`, `C/session/session-manager.ts`, `graph/{sessions,locks,episodes}.ts`, `sqlite/experience-archive.ts`) | session cache, Session nodes, FOLLOWS chain, episodes, archive rows, queue rows | ensure session, dedupe, store, archive and queue, attach vectors | concurrent pushes, a crash between the stores, caches that outlive a failure | one episode per experience, one chain, what was acknowledged is kept |
| Reconcile (`C/reflection/application/reconcile.ts`, `cli/src/queue.ts`, operation `reconcile_reenqueue`) | none of its own | list, join against ledger and queue, re-enqueue | three reads and a write, in two kinds of process | finds every stranded episode; adds no second row |
| Circuit breaker (`C/infrastructure/providers/circuit-breaker.ts`) | openedAt, halfOpen, failure count | run | calls that overlap the opening and the trial | bounded cost of a dead provider |
| Introspection loop (`C/introspection/application/{engine,observe,operation-scoring,tier3-consult}.ts`, `domain/{decide,buckets}.ts`, `sqlite/introspection-counters.ts`) | cycles waited, scores and pending measures, bucket keys in SQLite | tick: observe, score, decide, consult, claim the bucket, run, record; start, stop | two processes over one file, deaths in the middle of a run, responders that preempt for ever, starvation | an operation runs at most once per bucket; nothing starves |
| Bitemporal store (`C/infrastructure/graph/{bitemporal,unsupersede,read-modes,edges,supersession-queries}.ts`) | validity and transaction intervals of nodes, lineage edges | close, reopen, forget, read as of | writers that stamp the clock they read long before they commit | an earlier read keeps its answer; lineage and currency agree |
| Supersession (`stages/supersession*.ts`, `C/reflection/application/proposals.ts`, operations `proposal_resolution`, `claim_dedup`, `intention_upkeep`, `cli/src/{proposals,unsupersede,forget}.ts`) | proposal rows | judge, review, close, rule, dismiss, reopen, undo | a close is a graph transaction, its ruling a SQLite row; three writers read rows they act on later | no judgment hidden behind a resolved row; a dismissal stands |
| Entity merge and unmerge (`stages/entity-dedup*.ts`, `entity-merge-writer.ts`, `graph/{entity-queries,entity-merge-queries,unmerge-queries,identifier-decay-queries}.ts`, their operations) | keys, mentions, merge records, decision rows, ledger marks, the reconcile's cursor | extract, merge, record, unmerge, decay, forget, reconcile | merges that share an entity, each decided off a snapshot; a crash before the decision row | no name lost; every merge can be named, undone and argued with |
| Narratives (`C/reflection/application/narrative*.ts`, `domain/{narrative,mid-session}.ts`, `graph/narrative-*.ts`) | narrative nodes of sessions, regrounding markers | close, sweep, stage, reground, clean up | four narrators of one session, each with two reads, a model call and two writes | what is told never shrinks; one version of the whole session stands in the end |
| Session registry and service (`mcp/src/{session-registry,session-idle-sweeper,service,mcp-server,bootstrap}.ts`, `sqlite/served-items.ts`) | open sessions in use order, calls in flight, served rows, pending closes and writes | initialize, call, delete, evict, idle close, sweep, drain, close all, tear down | one session closed along several ways at once; work that outlives its session or its store | close hooks run once; nothing writes to a closed store |
| Plasticity (`C/plasticity`, `sqlite/{reinforcement-queue,usage-events}.ts`) | capped signal queue, edge weights | enqueue, flush, decay, replay | crash between graph and queue, cap trimming | signals applied at least once and bounded |
| Recall (`C/recall`) | served items per session, last pack | recall, side effects | side effects after the answer | ranking quality |
| Lane assignment, replay, providers, routing, config, redaction, prompts, protocol, hooks | little or none | HTTP calls, parsing, sequential commands | deadlines and retries | — |

Interaction: intake writes Neo4j, then SQLite, then calls `worker.wake()`. The worker claims rows
and calls the orchestrator, which reads the graph, calls the provider through the breaker, and
writes the graph and the ledger. The introspector runs in the service's process and touches the
queue (`dead_letter`, `reconcile_reenqueue`), the claims, the entities and the narratives. The
command line does so from another process, with no way to wake the worker. A closing transport
runs one hook: the narrative closer, `SessionManager.forget`, the session's served rows.

## 2. Modules

| Module | Models | State and actions |
|---|---|---|
| `ClaimTable` | what the queue table promises the processes sharing it: the abstract specification | a column is a variable (`attempts`, `claimedBy`; `stale` is "`claimed_at` is older than the timeout"), an action is one SQL statement, atomic under SQLite's write lock |
| `ReflectionWorker` | every handler of `worker.ts`, extends `ClaimTable` | one record of variables per instance; `slot` is `#running`, `held` and `timers` are `#retries` and the armed `setTimeout`s (two timers may share a key), `pc` is the synchronous loop the event loop is inside, so that another process's statement falls between two of its claims |
| `ReflectionQueue` | the same table with its order of service, the operator's commands, the `dead_letter` pass | `rows` holds lane, turn and rowid; a caller that reads and acts later (`runDrop`, `promoteJobs`, the pass) takes a step for each; refines `ClaimTable` |
| `ReflectionPipeline` | `ReflectionOrchestrator` and the stages of one episode | `run[r].at` is where a run stands between awaits; `stageKeys`, `runKey`, `pairsKey`, `burstKey` are ledger keys; `mentions`, `facts` (cognitive nodes without and with a vector), `observed` are what stages leave in the graph, a failed stage included |
| `Intake` | a push from session to acknowledgement, and reconcile | `at[p]` is where a push stands; `at[p] = "chaining"` and `writer` are the two Neo4j node locks, held from the lock to the commit, and `prior` the chain tail read under the first; `ensured` is `SessionManager.#ensured`, and a push "joined" waits on `#inFlight` |
| `CircuitBreaker` | `CircuitBreaker.run` | a call is its start and its answer |
| `Introspector` | the maintenance loop of several processes over one file | a tick is one step up to its first await (`Ticks`), one after it (`Observes`: score, decide, claim the bucket) and the run's end; `record` is an operation's score, `pending` the measures that wait for a later snapshot, `claimed` the bucket keys of the current windows, which `RollsOver` frees; what a snapshot says is chosen at every observation |
| `Bitemporal` | the graph's two timelines | `node` and `lineage` hold the stamps; each operator is what one write transaction leaves, or one read at an instant |
| `Supersession` | who closes a claim, and on whose word; extends `Bitemporal` | `filed` and `resolved` are the proposal table; `at[w]`, `on[w]` and `began[w]` say at which await the stage, the introspection operation and the person stand, on which pair, and with which clock they stamp; `reopens` are the `unsupersede` transactions between their two statements |
| `EntityLifecycle` | an entity's names, merges and ends; extends `Bitemporal` | `key` is `name_norm`, `records` is `merge_provenance`, `decisions` and `marked` are the SQLite row and the ledger mark, `cursor` the walk of `merge_decision_reconcile` |
| `Narratives` | the four narrators of one session and the cleanup | `story[s]` is a node whose id is the set of episodes it covers and who wrote it; `run[p]` is what narrator p has read and where it waits: called by a scan, loading, deciding, writing, closing |
| `Service` | registry, idle sweep, calls, served rows, teardown | `map` is the LRU map, `closing` the servers whose `onclose` is still to come, `chain` and `access` the deferred work, `phase` the line of `teardown` that is awaited |
| `MC*` | instances for TLC | constants, symmetry |
| `*Proofs` | the theorems | section 5 |

Interleaving follows the runtime: JavaScript runs to the next `await`, so a handler's synchronous
part is one action unless another *process* can get in between, where each SQLite statement is
its own action. A Neo4j transaction is the lock with the reads it protects, then the commit; one
that takes no lock and reads nothing it relies on is one step, and what a caller read in an earlier
transaction, or in an earlier statement no lock protects, is a step of its own. `unsupersedeNode` is
such a transaction of two steps: its first statement locks the edges it found and nothing else, so
any other writer may commit before its second.

How they compose: `ReflectionWorker` and `ReflectionQueue` both implement `ClaimTable`, which is
what lets each leave the other's half out. `Supersession` and `EntityLifecycle` are the writers of
`Bitemporal`. Where two components meet that are not composed, one holds an action for what the
other does: `Intake` has `Enrich` for the worker and `forgetSession` for the close hook,
`ReflectionWorker` has `RunEnds` for the pipeline, `Narratives` has the close hook that `Service`
counts.

## 3. Runs

| Run | Bounds | What it shows |
|---|---|---|
| `worker` | 2 processes that may overlap, 2 rows, pools of 2, 2 attempts, 2 expired claims; one of the rows may become claimable without a signal | `NoOrphanedClaim`, `OneRunPerRow`, `StopGivesEverythingBack`, `ClaimedRowsHaveAttemptsLeft` and `EveryRowSettles` through crash, restart, drop, re-enqueue, dead-lettering. Two of each are what the races need: two rows for two places of a pool, a second process to sweep the first one's claim. Only claims of dead processes expire here (`LiveClaimsExpire = FALSE`): with expiring claims of live runs, and the shadowed timers they bring, the state space outgrows a run, and `NoOrphanedClaim` is covered by its theorem alone |
| `queue_order` | 3 rows of 2 sessions, 1 claimant, 1 attempt, filters "all" and "bulk of B" | order of service and the refinement of `ClaimTable`; three rows give a backlog of two against another session |
| `queue_sweep` | 2 rows of one session, batch 1, 1 crash of the pass | retries and starvation of the pass: with a batch of one any row listed twice would hide the other |
| `pipeline_retry` | 3 entities (three pairs), 1 cognitive node per extraction, 3 attempts, 2 failures, 1 crash | the key discipline, failures over partial writes included; the failures are fewer than the attempts, which `EpisodeGetsEnriched` needs. One node per extraction already makes a second extraction a duplicate, and with the entities reaches every threshold the stages ask about |
| `intake_store` | 2 pushes of one payload, 1 command-line reconcile, 1 each of crash, graph failure, forget, drop | dedupe, acknowledgement, cache |
| `intake_live` | 3 pushes of 2 sessions, 1 crash, no command line | chain, single row, enrichment without a client's retry |
| `breaker_overlap` | 3 callers, threshold 3 | the breaker's budget and its cost per cooldown |
| `introspector` | 2 processes, 2 operations of two widths, 2 crashes or stops, tier 3 acting | one run per bucket; the slow operation runs although the other is critical for ever. Both have one relevance, so that `MaxWait`, where the count of cycles saturates, never decides between them |
| `supersession` | 3 claims of 2 episodes, 1 judged pair, 2 modes, a clock of 2 instants, 1 undo or forget of one claim by the person | lineage, history, proposal rows. Two claims of one episode make the sibling an episode close and a family close take along; two instants are an earlier read and a later write. One claim to reopen is enough for a reopen to be crossed by each kind of close |
| `entity_life` | 3 nodes, 2 names, 2 mergers, 1 reversal or forget | the smallest instance with a merge of a merge, and a node split back out; the clock stands still, no property reading an instant |
| `narratives` | 2 episodes, 4 narrators of which 2 at once, 1 each of forget, correction, crash | coverage and settling: two episodes give a wider and a narrower version, two at once every race of a pair of narrators. The order of the node ids differs between the sets, so a tie goes once to the cleanup's version and once to the other. A cleanup that died after its write finds its node on the next try, which is not excused; the cleanup on an older node of its own, which is, takes two corrections and does not occur here, so that exemption weighs in the theorem only |
| `service` | 3 sessions at a cap of 2, 1 call, 1 shutdown or crash | hooks, teardown, served rows: three sessions make one eviction, one call can outlive its session, the drain and the restart |

Every bound is a CONSTANT: `MaxExpiries`, `MaxCrashes`, `MaxFailures`, `MaxForgets`, `MaxDrops`,
`MaxDowns`, `MaxHands`, `MaxMarks`, `MaxNodes`, `MaxBusy`, `MaxClock`, `MaxWait`, `MaxBalance`,
`BreakerThreshold` (at which the worker's failure count saturates, nothing depending on more). The
number of rows, pushes, sessions and callers bounds the rest. Crashes and failures leave nothing
behind but what the stores hold, so a second one meets the states of the first again. Where section
5 proves a property it holds whatever the bounds.

`CHECK_DEADLOCK FALSE` is in every configuration but `introspector`'s. Each system may stop for
good: the queue is empty, all pushes are answered, the episode is enriched, the bounded crashes are
spent; for the breaker, whose callers always have a step, the setting has no effect.

### Fairness

- *Worker* (`ReflectionWorker!Fairness`): handlers that are due run and timers fire (the event
  loop); a run ends, because every stage calls the model under a deadline
  (`infrastructure/providers/deadline-signal.ts`); claims of dead processes grow old (the clock);
  the reaper's timer fires; a stopped service is started again. Nothing is assumed of intake,
  maintenance, stop or crash. `EveryRowSettles` assumes besides that some worker stays up in the
  end, and that no two serve at once: the signal of a row's intake reaches the worker of its own
  process only. It is stated of the rows whose intake signals (section 6, *Quietly*).
- *Queue*: weak fairness of the `dead_letter` pass, which `introspector` bears out: an operation
  that has work is selected again and again, at most once per bucket.
- *Pipeline*: weak fairness of the row's run: the worker claims it and each stage ends.
- *Intake*: weak fairness of the recurring reconcile operation (as for `dead_letter`) and of the
  worker per episode; none of any client, so `StoredIsEnriched` does not lean on a retry.
- *Introspector*: timers, runs and consultations end, windows roll over, a process that is down is
  started; strong fairness of an observation that reads the whole substrate, which a process that
  keeps observing makes now and then. A substrate that never answers whole again is section 6.
- *Narratives*: the upkeep's timer, the sweep's, reads and second writes; none of the other narrators'
  calls; strong fairness of the version a narrator writes, since what stands between is a provider
  that may fail but is asked again.
- *Service*: timers, deferred work, the shutdown's own steps, the end of a call (its deadline), and
  a service that is down is started again (`restart: unless-stopped` in the compose file, or a
  person). Nothing of the clients, who may
  leave a session open or close it at any time.

## 4. Properties

Stated beside the definitions in each module, with a comment each. By component:

- *Queue*: `LaneTurnsDistinct` (no two rows of a lane and session share a turn, however rows enter
  the group), `FirstTurnWaitsOneJobPerSession` (the bound `claim.ts:57` claims, over the history of
  who overtook whom), `RetriesCostCrashes`, `EveryExhaustedRowGetsItsRetry`, and
  `ImplementsClaimTable`, by which what holds of the abstract table holds of this one.
- *Worker*: `NoOrphanedClaim` matters because a worker's own sweep never takes its own claims: one it
  forgot would stay until the process ends. `OneRunPerRow` needs that live claims do not expire (the
  default timeout of 600 s against stage deadlines); `LiveClaimsExpire` lifts that in the theorem on
  `NoOrphanedClaim`, where expiry makes two workers' timers and runs meet on one row.
- *Pipeline*: `EntitiesAreWoven` speaks of what the stages did (dedup ran on the entity, its pairs are
  counted), `DoneMeansEnriched` of the keys; `RemintedOnlyWhenCutShort`, `PairsRecountedOnlyAfterCut`
  and `OneBurst` bound what a retry repeats; with `EpisodeGetsEnriched`, over every placement of
  failures, partial writes and a crash. Entities first named after a partly failed extraction are
  exempt from `EntitiesAreWoven`, and extractions that fail over their own writes from
  `RemintedOnlyWhenCutShort` (section 6).
- *Intake*: `OneEpisodePerExperience`, `ChainIsALine`, `CacheIsBacked`, `AckedIsKept`,
  `OneRowPerEpisode` (service alone), `StoredIsEnriched`.
- *Breaker*: `BudgetLeft`, `OneFailurePerCooldown`.
- *Introspector*: `OneRunPerWindow` over a history of the runs begun in each window, crashes in the
  middle of a run and tier 3 included; `EveryOperationRuns`.
- *Supersession*: `LineageMatchesCurrency` (a closed claim has a live lineage edge or a mark of the
  upkeep, an open one no live lineage edge, unless a close crossed its reopen), `HistoryIsFinal` (a
  `knew_at` read behind everything in flight keeps its answer, but for a reopen that removes the
  node's stamps and a close that opens a closed link again), `NoHiddenJudgment`, `DismissalIsFinal`
  (whoever may still close a dismissed pair by its row had its last look before the dismissal; the
  keyed close and `claim_dedup` go by no row). Lineage is not claimed of entities, where decay and an
  unmerge of closed edges break it (section 6).
- *Entities*: `MergedNamesHaveAnHeir`, `AbsorbedCanBeSplit`, `DecisionsAreTrue`, `WalkExplainsAll`.
- *Narratives*: `CoverageNeverShrinks` and `SessionSettles`, both up to three things after which the
  code does regress (section 6): a forgotten episode, one that arrives between a narrator's two
  reads, and a cleanup that meets an older node of its own and closes a newer version of the same
  episodes for it. A cleanup tried again after a crash is not exempt.
- *Service*: `SessionsEndOnce`, up to crashes and to sessions opened after the shutdown listed the
  others; `NothingMeetsAClosedStore`, up to calls the drain gave up on; `ServedRowsGo`.

Each property of a run has a mutant in `PROJECT.json`, a plausible slip in the code (a sweep without
its guard, a lock not taken, a key not read) under which TLC finds it violated. Type invariants are
no properties of the runs: they are theorems (`*Types`, `TableSafe`).

## 5. Proofs

All with TLAPS, for every value of the constants, from the modules' named assumptions
(`TableAssumption`, `QueueAssumption`, `WorkerAssumption`, `IntakeAssumption`, `BreakerAssumption`,
`IntrospectorAssumption`, `SupersessionAssumption` with `NeverAssumption` and `ClockAssumption`,
`EntityAssumption`, `NarrativesAssumption`, `ServiceAssumption`): the constants' types, and that the
null values are none of the others. `NarrativesAssumption` says besides that two narratives have two
node ids, which are hashes of what they cover and of who wrote them, `EntityAssumption` that no two
nodes are born under one name, which the graph's constraint on `name_norm` sees to
(`entity_name_unique`, `graph/migrations.ts`).
The theorems about the pipeline assume one queue row per episode.

- `ReflectionWorkerProofs` — first the table alone (`TableSafe`): its types with
  `ClaimedRowsHaveAttemptsLeft` are inductive as they stand. The worker follows in three layers.
  1. `StepOnTable`: a worker step is a table step or leaves the table alone, so the table's invariant
     comes along.
  2. `WorkerInv`: types, the table's invariant, `Lifecycle` (nothing pumps once stop has begun; a
     stopped worker runs and holds nothing) and `NoOrphanedClaim`. `Lifecycle` is the strengthening
     that lets `StopLeavesNothing` follow from claim tracking.
  3. `ExclusiveInv`, when only dead processes' claims expire: what a worker runs and holds is exactly
     what it owns, once each, with one timer per held row. The equality of timers and held rows is what
     rules out a shadowed timer releasing a later claim. `Bystander` disposes of all workers but the
     acting one; `RowsRunOnce` follows.
- `ReflectionQueueProofs` — the types of the table need two facts the type invariant does not state: the
  table is finite (or a group would have no high-water mark) and a claimed row has an attempt left.
  With them (`TableOK`), `TurnsAreDistinct` is inductive: a row enters a group past its high-water mark
  (`NextTurn`), and `promoteJobs` spreads the rows it moves by how many of their session go before them
  (`PromotedTurns`, a count that grows strictly along distinct turns). `RetriesAreBounded` rests on
  `RetryInv`: what is listed is not marked, and only the row just relaned is ahead of its crashes.
  `FirstTurnIsFair` adds `Overtaken`: behind a row that overtook a waiting first turn, no other row of
  its session stands before that turn, since it would share the overtaker's turn or come before it.
  `QueueImplementsTable` maps each statement to one of `ClaimTable`, or to a stutter for a promotion or
  a read. `MaxIsGreatest` finds a finite set's maximum by well-founded inclusion, since the library's
  induction over finite sets is out of the provers' reach.
- `IntakeProofs` — the invariant says that a push inside its write transaction holds its session's
  lock (`Locked`) and that its experience is not stored (`Fresh`); nobody else could store it without
  that lock, so a commit keeps `OneEpisodePerExperience`. `Resolved` and `Kept` carry a push to its
  answer. `SessionsChain` rests on `ReadStands`: a creation under the Member's lock still holds the
  chain's end, and the node it is about to write is new. `RowsDoNotDouble` assumes there is no
  reconcile pass from the command line (`Passes = {}`), and is false with one (section 6).
- `BackgroundProofs` holds the proofs of three components that share no state.
  - The breaker: a caller that has paid in this cooldown is in no trial and cannot start one while the
    breaker lets calls through (`PaidOnce`). The type invariant bounds how far late answers overshoot
    the threshold, which needs `Overshoot`: while the breaker is not half-open, the count and the calls
    in flight together stay under the ceiling, since each late failure takes one call out of the air.
  - The maintenance loop: `KeyBeforeRun`, a window in which a run began has its bucket key in the
    ledger, and one run only. The key is written before the run and goes with the window, so neither a
    crash nor a second process gets another.
  - The narratives: `ToldIsKept` orders versions by what they cover and, between two of one set, by
    number and id (`AtMostAs`). While nothing was forgotten and no excuse arose (`Steady`, which only a
    step from a steady state reaches), `Clean` holds: all that was read or written is a snapshot of one
    growing session, so any two are comparable (`Snapshots`); some standing version lies above every
    readable one (`Topped`); and what a narrator is about to close lies under what it closes it for
    (`Olds`). The hard case is a narrator whose own target was closed by another in the meantime:
    `Topped` finds the version standing above that target, and antisymmetry, which is where the
    unique ids come in, says that it is not the one being closed (`SupersedesClean`).
- `ReflectionPipelineProofs` — `Kept` is the conjunction of one invariant per property and the two they
  share: `Places` says where in its stage a run may stand, `Reports` what an outcome says about what the
  stage has just written. `MintCovered` counts the extractions against keys, crashes and failed writes,
  `PairsKept` says what of the co-occurrence loop is still to write, `Passed` carries each stage a run
  has left without failure to the end of the run, and `Closed` is what `Passed` leaves behind the run
  key. `Woven` carries `EntitiesAreWoven`: the entities that are not late are behind the keys of dedup
  and pairs, and neither key closes before an extraction closed its own or failed over its mentions.
- `EntityLifecycleProofs` — first the writes of the graph one by one (what upserting, closing and
  pruning edges leave open), then each transaction as a whole, for merge, reopen and split. Five
  invariants lean on each other.
  1. `Typed`: what a record names and what a writer holds across its awaits was born.
  2. `NoDeadEnd` for `MergedNamesHaveAnHeir`: no set of absent nodes keeps all its heirs to itself.
     Stated of sets it can be kept step by step, where a path to a live node is rerouted by every
     merge; the set of all that can be reached from an absent node is one that keeps its heirs, so
     something in it stands.
  3. `AbsorbedCanBeSplit`, with `SplitsWhatIsNamed`: between the preview of a split and the split,
     merges may absorb the canonical, and its trail goes along. `KeysKnown` covers the name a merge
     records from its load: it is still the member's, or a split handed it on and a record above says
     so.
  4. `DecisionsAreTrue`, with `TrailIsWhole` (a merge the trail knows has a record for each member) and
     `DesksAreTrue` (so has one a writer is about to record).
  5. `Walk` for `WalkExplainsAll`: what a walk still owes has a row, is on the desk, or lies beyond the
     cursor.

  `Above`, what can be reached along lineage, is defined as the least closed set, so that it can be
  reasoned about without recursion.
- `SupersessionProofs` — first each graph transaction for itself (`SupersedeKeeps`,
  `UnsupersedeKeeps`, `MarksKeep`), where lineage needs `EdgesSound` (the two timelines of an edge
  open and close together) and `ReopensSound` (a reopen between its statements holds edges into its
  own node only; `crossed` are the nodes a close reached in that gap); then `Sound`, which adds that a
  writer's desk names a pair wherever it stands (`DesksTyped`) and that a ruling is of a resolved row.
  `NoHiddenJudgment` rests on `JudgmentsShown` (who stands after a close can show its lineage),
  `HistoryIsFinal` on a transaction never stamping before its writer began, `DismissalIsFinal` on
  `NoNewCloser`: who becomes able to close by a row has just found that row unresolved.

- `ServiceProofs` — the map is a sequence in recency order, so the file begins with what `Without` and
  `Append` do to its members. `SessionsEndOnce` needs `Known` (who is open was opened) and `Owed` (a
  session still to be closed by the shutdown is open, or listed, or came late). `StoreClosesLast` needs
  `Drains` (a call that runs past the drain was given up on) and `Awaits`: once the map is cleared, a
  server that has yet to report its end is not in it, so the closes counted then are all there will be.

Every safety property the runs check is a theorem. Only model-checked are the liveness properties, which
are out of the prover's reach: `EveryRowSettles`, `EveryExhaustedRowGetsItsRetry`,
`EpisodeGetsEnriched`, `StoredIsEnriched`, `EveryOperationRuns`, `SessionSettles`, `ServedRowsGo`.

## 6. Where the code and its comments part

Found while modelling. Each is a behaviour of the model as it stands; the properties above are
stated around it, as said there.

*Queue and worker.* A relaned row is promised "exactly one more cycle" (`dead-letter.ts:16-20`), but
nothing wakes an idle worker for it, and the reaper pumps only after reclaiming something
(`worker.ts:286-291`); the same goes for `reconcile.ts:120` and for a row the command line queues
(`Quietly` in `ReflectionWorker`). A wake during the startup vector drain claims at once, before
pending vectors are attached (`worker.ts:196`, against 203-208). `aion queue drop` removes rows
enqueued after the count it asked about (`cli/src/queue.ts:171,179`). The turns of a session whose
rows arrive late do not interleave with those of sessions already past turn one
(`reflection-queue.ts:89-91`). `worker.ts:365` never passes the shutdown signal
`orchestrator.ts:57-60` describes.

*Pipeline.* The run key closes only when "every stage either did its work or had none to do"
(`stage.ts:142-144`); it also closes over a supersession stage that waits for vectors (157-159,
`supersession.ts:132-137`). A key "is what keeps a retry out of" a stage (`stage.ts:100-110`); the
cognitive stage may fail after writing some of its nodes, its key open, and the retry mints them again
under other ids (`cognitive.ts:318-358`; `RemintedOnlyWhenCutShort` counts these failures). When the
entity extraction fails over written mentions, dedup and the associations run on those and close their
keys; an entity first named by the retry is never deduplicated or paired, though the run key closes
(`late` in `ReflectionPipeline`). Two rows of one episode running at once double its co-extraction burst
(against `reconcile.ts:20-21`), which is why the theorems assume one row.

*Intake.* "The CLI container claims, it does not enqueue" (`intake.ts:140-141`); `aion queue
reconcile --re-enqueue` does, and may give an episode a second row. A reconcile between a push's
graph commit and its SQLite transaction queues a job whose experience the archive does not hold yet
(against `intake.ts:201-202`), for good if the service dies there and the client never retries.

*Breaker.* "Then allows one trial call" (`circuit-breaker.ts:17-21`); callers arriving during the
trial go through as well, so n callers pay n calls per cooldown.

*Introspector.* A collector that stays degraded keeps pending measures unresolved, so a responder's
record never reaches its grace and it preempts every tick while its condition stands
(`decide.ts:186`, `operation-scoring.ts:65-75`, against `docs/architecture.md:353-357`, "Preemption is
not open-ended"); an operation whose metric throws does the same. Of two overlapping processes one may
score the other's measure with a snapshot begun before that run ended (`operation-scoring.ts:59-63`);
a run may go on across a window's end while another process begins the next; a tick that is observing
when `stop()` is called still claims a bucket and starts a run, with an aborted signal.

*Bitemporal and supersession.* `knew_at` promises what was believed (`read-modes.ts:121-125,171-177`,
`unsupersede.ts:17-21`, `docs/architecture.md:493-495`); a reopen removes `tx_until`, so the interval
in which the node was closed is gone from every earlier read. "A closed node without lineage is not a
state" (`bitemporal.ts:252-254`, `docs/architecture.md:453-456`); `intention_upkeep`,
`identifier_decay` and `forgetNarrative` close without lineage. "No mode may close what a person
dismissed" (`supersession-apply.ts:218-219`); the family close of a sibling pair writes exactly the
dismissed edge, and in auto mode a dismissal that lands between the look at the row and the close does
not stop it; the keyed close and `claim_dedup` look at no row at all. A reopen's two halves "have to
land together" (`unsupersede.ts:151-153`); they are two statements that read what is committed, so a
close that commits between them leaves a current node with an open lineage edge into it (`crossed` in
`Bitemporal`). `mergeClaimPair` and `closeKeyedClaims` read currency in their transaction without a
lock (`locks.ts:14-20`), so two may give one claim two successors (against
`claim-dedup-queries.ts:152-160`). Two reciprocal proposals, one applied by a person and one by the
resolver, can close both sides.

*Entities.* "A mention must never override `aion forget`" (`entity-queries.ts:176-178`): preview,
decay, forget and a mention in this order clear `forgotten_at`. An unsuperseded entity that decay had
closed keeps its marks with `valid_until` null, and no mention restores it. `applyUnmerge` writes back
every recorded edge, closed ones included: a pruned association comes back open (against
`entity-merge-queries.ts:66-71`), a closed lineage edge reopens onto a current node (against
`unsupersede.ts:151-153`). Merge, vectors and mention links are three transactions, so a live mention
may hang on an absorbed node (against `identifier-decay-queries.ts:171-176`). The decay scan protects
canonical nodes, its close re-derives mentions only. The mark `entity.merge:` blocks merging a pair
again that a person reopened (against `entity-merge-writer.ts:185-186`), while tier 0 merges an
identity again that a person has just split. After an unmerge of X and then of W, W's name resolves to
an older node. A reconcile between the check and the upsert of a person's decision overwrites it
(`entity-merge-review.ts:122-130`).

*Narratives.* A regeneration's id depends on nothing but the episodes and `grounded-1`, and the merge
writes properties only on create: a second correction of the same episodes is never rewritten, its
marker stays (against `narrative-queries.ts:279-283`). If that node is closed by now, by a forget or
by a merge of two equal versions, the cleanup closes the standing version in its favour: nothing open
tells the session, and every narrator skips it from then on, since a closed version covers the same
episodes. A narrator loads episodes before versions: an arrival and another narrator's write in
between make it close the wider version for a narrower one, and two can close each other's, after
which the session is returned by the idle query and skipped for ever (against
`domain/narrative.ts:129`). Forgetting an episode and adding one leaves the count equal: the new one
is never told. The cleanup of a second process overlapping the first takes no lock either.

*Service.* No `initialize` is refused while stopping: a session opened after `closeAll` listed the
others is dropped without its hook (`session-registry.ts:87-96`). "The rows outlive a session by at
most the idle window" (`bootstrap.ts:381-383`); a call that outlives its deleted session writes rows
that stay until a purge. The purge also takes the rows of a live session that has not recalled for
the idle window (against `served-items.ts:103-107`). A call past the drain's deadline may still write
after the driver closed. So may the event a boot records of the models it unloaded, which is not awaited
(`bootstrap.ts:309`); `NothingMeetsAClosedStore` does not speak of it.

*Not modelled, seen beside.* The reinforcement queue's cap may cut the oldest burst in half
(`reinforcement-queue.ts:72-92`), so that a flush computes a smaller clique's discount, against "a
burst that arrives whole" (118-127); "the only delete in this module is this one" there is no longer
true.

## 7. Abstractions

Real numbers, texts, vectors and wording are gone: a stage is its outcome and what later stages can
tell from the graph; a judge's verdict, a snapshot's contents and an effectiveness reading are
choices. In `Intake` the worker is one action (`Enrich`), its own behaviour being
`ReflectionWorker`'s, and in `ReflectionWorker` a run is its outcome, being `ReflectionPipeline`'s. In
the pipeline the backoff between attempts is left out, and an extraction mints at most `MaxNodes`
cognitive nodes; a dedup that merges two of the episode's own entities is `EntityLifecycle`'s. A
statement of SQLite does not fail on its own (the process dies instead). A graph transaction that
fails rolls back and the caller is told. Retention by `limit` (20 000 episodes per reconcile) is not
modelled. Session backbone edges other than FOLLOWS are not modelled. One Member is modelled, as in
the service, whose backbone is fixed.

In `Introspector` relevance is a whole number of tenths, `waited` counts the cycles of any process and
an operation's cost and effectiveness are two levels each. In `EntityLifecycle` any two open nodes may
be judged the same, so the cascade's scoring is a choice, and an heir may itself
be decayed or forgotten. The preview of `aion unsupersede` is taken together with the reopen's first
statement. In `Narratives` one session is followed and
the kill switch of mid-session narratives is left on. In `Service` the clock is whether the idle
window has passed since a session's last request (`quiet`) and over its newest served row ("old"), and
the SDK's `onclose` comes some time after the close was asked for.

### Not modelled

- *Plasticity*: edge weights are real numbers under Hebbian updates and exponential decay; beyond
  their order nothing is left for TLC. That an episode hands the queue one burst is `OneBurst`.
- *Recall*: a read path of floating-point scoring; the reads at an instant it is built on are
  `Bitemporal`'s, what it leaves behind (served rows, access writes) is in `Service`.
- *Lane assignment*: one pure decision over two windows of arrival times; `ReflectionQueue` takes any
  lane for any row.
- *Replay*: a sequential command that pushes archived payloads through the modelled intake.
- *Providers and routing, redaction, configuration, prompts, hooks*: HTTP clients, string matching
  and parsing; a call's outcome is a choice in the modules that make it.
- Of modelled components: `last_error` and the counting queries; the rollup of old narratives and the
  consolidation of claims; weight and vector upkeep among the introspection operations.
