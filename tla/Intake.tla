--------------------------------- MODULE Intake ---------------------------------
(***************************************************************************)
(* The write path of one service process, from a reflection call to its    *)
(* acknowledgement, and the reconcile passes that repair what a crash      *)
(* leaves between the two stores.                                          *)
(*                                                                         *)
(* A push ensures its Session node (SessionManager over                    *)
(* ensureGraphSession), stores its episode under the session's lock, then  *)
(* archives and queues in one SQLite transaction.  Every await is a step.  *)
(* A graph transaction is two steps, the lock with the reads it protects   *)
(* and the commit; a crash between them rolls it back.                     *)
(*                                                                         *)
(* An episode's id is its place in the order of commits.                   *)
(***************************************************************************)
EXTENDS Naturals, Sequences, FiniteSets, SequencesExt, FiniteSetsExt

CONSTANTS
    Pushes, SessionOf, ContentOf,   \* reflection calls, their identity and content hash
    Passes,                         \* reconcile runs of the command line, each run once
    NoOne,
    None,                           \* no episode
    Batch,                          \* maintenance.reconcileBatchSize
    MaxCrashes, MaxFailures, MaxForgets, MaxDrops   \* bounds

Sessions == {SessionOf[p] : p \in Pushes}
Experience(p) == <<SessionOf[p], ContentOf[p]>>

ASSUME IntakeAssumption ==
    /\ Batch \in Nat \ {0} /\ NoOne \notin Pushes \cup Sessions /\ None \notin Nat
    /\ MaxCrashes \in Nat /\ MaxFailures \in Nat /\ MaxForgets \in Nat /\ MaxDrops \in Nat

VARIABLES
    at,          \* where each push is; "idle" may be tried again, "acked" was answered
    found,       \* the episode a push resolved to
    ensured,     \* SessionManager #ensured, lost with the process
    sessions,    \* graph: Session nodes
    follows,     \* graph: FOLLOWS edges between them
    prior,       \* graph: the end of the chain each open session transaction read
    writer,      \* graph: per session, the push holding its lock
    episodes,    \* graph: the experience of each stored episode, oldest first
    forgotten,   \* graph: those with forgotten_at
    archive,     \* SQLite: experiences in experience_archive
    jobs,        \* SQLite: how many queue rows each stored episode has
    applied,     \* SQLite: episodes with a run key
    pass,        \* the reconcile passes: the service's own and the command line's
    dropped,     \* history: episodes a row of which an operator dropped
    crashes, failures

graph == <<sessions, follows, episodes, forgotten>>
locks == <<prior, writer>>
store == <<archive, jobs, applied>>
bounds == <<dropped, crashes, failures>>
vars == <<at, found, ensured, graph, locks, store, pass, bounds>>

\* An experience has one readable episode, so only forgetting makes room for another.
Ids == 1..(Cardinality(Pushes) + MaxForgets)
Stored == DOMAIN episodes
Recurring == "service"   \* the introspector's reconcile_reenqueue
Idle == [at |-> "idle", seen |-> {}, skip |-> {}]

(* Types, and what is open: only a transaction keeps its read or its lock. *)
TypeOK ==
    /\ at \in [Pushes -> {"idle", "creating", "joined", "chaining", "looking", "storing",
                          "writing", "queueing", "embedding", "acked"}]
    /\ found \in [Pushes -> Stored \cup {None}]
    /\ ensured \subseteq Sessions /\ sessions \subseteq Sessions
    /\ follows \subseteq Sessions \X Sessions
    /\ prior \in [Pushes -> Sessions \cup {NoOne}]
    /\ writer \in [Sessions -> Pushes \cup {NoOne}]
    /\ \A p \in Pushes : /\ at[p] # "chaining" => prior[p] = NoOne
                        /\ at[p] = "writing" <=> writer[SessionOf[p]] = p
    /\ Stored \subseteq Ids
    /\ ToSet(episodes) \subseteq {Experience(p) : p \in Pushes}
    /\ forgotten \subseteq Stored
    /\ archive \subseteq {Experience(p) : p \in Pushes}
    /\ jobs \in [Stored -> Nat] /\ applied \subseteq Stored
    /\ \A k \in Passes \cup {Recurring} :
         /\ pass[k].at \in {"idle", "listed", "gated", "joined", "done"}
         /\ pass[k].seen \subseteq Stored /\ pass[k].skip \subseteq Stored
    /\ dropped \subseteq Stored /\ crashes \in 0..MaxCrashes /\ failures \in 0..MaxFailures

Init ==
    /\ at = [p \in Pushes |-> "idle"] /\ found = [p \in Pushes |-> None]
    /\ ensured = {} /\ sessions = {} /\ follows = {}
    /\ prior = [p \in Pushes |-> NoOne] /\ writer = [s \in Sessions |-> NoOne]
    /\ episodes = << >> /\ forgotten = {}
    /\ archive = {} /\ jobs = << >> /\ applied = {}
    /\ pass = [k \in Passes \cup {Recurring} |-> Idle]
    /\ dropped = {} /\ crashes = 0 /\ failures = 0

-----------------------------------------------------------------------------
(* The session.                                                             *)

Creating(s) == {p \in Pushes : SessionOf[p] = s /\ at[p] \in {"creating", "chaining"}}
Joined(s) == {p \in Pushes : SessionOf[p] = s /\ at[p] = "joined"}

\* Mutant: the identity is cached before its node is written.
EnsureTooSoon(p) ==
    /\ at[p] = "idle"
    /\ at' = [at EXCEPT ![p] = IF SessionOf[p] \in ensured THEN "looking" ELSE "creating"]
    /\ ensured' = ensured \cup {SessionOf[p]}
    /\ UNCHANGED <<found, graph, locks, store, pass, bounds>>

\* A known identity is answered from #ensured; one being created is waited for.
ensureSession(p) ==
    /\ at[p] = "idle"
    /\ at' = [at EXCEPT ![p] = IF SessionOf[p] \in ensured THEN "looking"
                               ELSE IF Creating(SessionOf[p]) # {} THEN "joined" ELSE "creating"]
    /\ UNCHANGED <<found, ensured, graph, locks, store, pass, bounds>>

\* The creation resolves for its caller and for everyone who joined it.
Resolve(p) ==
    LET all == {p} \cup Joined(SessionOf[p])
    IN  /\ ensured' = ensured \cup {SessionOf[p]}
        /\ at' = [q \in Pushes |-> IF q \in all THEN "looking" ELSE at[q]]

\* The MERGE found the node of an earlier process: no chain is derived.
SessionKnown(p) ==
    /\ at[p] = "creating" /\ SessionOf[p] \in sessions
    /\ Resolve(p)
    /\ UNCHANGED <<found, graph, locks, store, pass, bounds>>

\* The sessions nothing follows: findPriorSessionId reads one of them.
Tails == {s \in sessions : ~\E t \in sessions : <<t, s>> \in follows}

Unlocked == TRUE     \* mutant: no lock on the Member
MemberFree == \A p \in Pushes : at[p] # "chaining"

lockMember(p) ==
    /\ at[p] = "creating" /\ SessionOf[p] \notin sessions
    /\ MemberFree
    /\ \E s \in IF Tails = {} THEN {NoOne} ELSE Tails : prior' = [prior EXCEPT ![p] = s]
    /\ at' = [at EXCEPT ![p] = "chaining"]
    /\ UNCHANGED <<found, ensured, graph, writer, store, pass, bounds>>

commitSession(p) ==
    /\ at[p] = "chaining"
    /\ sessions' = sessions \cup {SessionOf[p]}
    /\ follows' = IF prior[p] = NoOne THEN follows
                  ELSE follows \cup {<<SessionOf[p], prior[p]>>}
    /\ prior' = [prior EXCEPT ![p] = NoOne]
    /\ Resolve(p)
    /\ UNCHANGED <<found, episodes, forgotten, writer, store, pass, bounds>>

\* The transport closes: the cached resolution goes, the node stays.
forgetSession(s) ==
    /\ s \in ensured
    /\ ensured' = ensured \ {s}
    /\ UNCHANGED <<at, found, graph, locks, store, pass, bounds>>

-----------------------------------------------------------------------------
(* The episode.                                                             *)

\* FIND_EPISODE_BY_CONTENT_HASH: the earliest, and never a forgotten one.
Known(p) == {e \in Stored \ forgotten : episodes[e] = Experience(p)}

Took(p, e) == found' = [found EXCEPT ![p] = e] /\ at' = [at EXCEPT ![p] = "queueing"]

\* The read that spares a re-push the transaction.
findEpisodeByContentHash(p) ==
    /\ at[p] = "looking"
    /\ IF Known(p) # {}
       THEN Took(p, Min(Known(p)))
       ELSE at' = [at EXCEPT ![p] = "storing"] /\ UNCHANGED found
    /\ UNCHANGED <<ensured, graph, locks, store, pass, bounds>>

AnyTime(p) == TRUE     \* mutant: no lock on the session
SessionFree(p) == writer[SessionOf[p]] = NoOne

\* The session's lock, then the read that decides.
lockSession(p) ==
    /\ at[p] = "storing" /\ SessionFree(p)
    /\ IF Known(p) # {}
       THEN Took(p, Min(Known(p))) /\ UNCHANGED writer
       ELSE /\ writer' = [writer EXCEPT ![SessionOf[p]] = p]
            /\ at' = [at EXCEPT ![p] = "writing"]
            /\ UNCHANGED found
    /\ UNCHANGED <<ensured, graph, prior, store, pass, bounds>>

commitEpisode(p) ==
    /\ at[p] = "writing"
    /\ episodes' = Append(episodes, Experience(p))
    /\ jobs' = Append(jobs, 0)
    /\ writer' = [writer EXCEPT ![SessionOf[p]] = NoOne]
    /\ Took(p, Len(episodes) + 1)
    /\ UNCHANGED <<ensured, sessions, follows, forgotten, prior, archive, applied, pass, bounds>>

Rollback(p) ==
    /\ prior' = [prior EXCEPT ![p] = NoOne]
    /\ writer' = [s \in Sessions |-> IF writer[s] = p THEN NoOne ELSE writer[s]]

\* The graph refuses or is gone: the transaction rolls back, the caller is told, and whoever
\* joined the same creation is told too.
GraphFails(p) ==
    /\ at[p] \in {"creating", "chaining", "looking", "storing", "writing"}
    /\ failures < MaxFailures /\ failures' = failures + 1
    /\ LET told == {p} \cup (IF p \in Creating(SessionOf[p]) THEN Joined(SessionOf[p]) ELSE {})
       IN  at' = [q \in Pushes |-> IF q \in told THEN "idle" ELSE at[q]]
    /\ Rollback(p)
    /\ UNCHANGED <<found, ensured, graph, store, pass, dropped, crashes>>

-----------------------------------------------------------------------------
(* The queue row.                                                           *)

Queued == {e \in Stored : jobs[e] > 0}

\* Mutants: no look at the queue; no job for an experience the archive holds.
AddJob(e) == [jobs EXCEPT ![e] = @ + 1]
JobOfNewArchive(e) == IF episodes[e] \in archive THEN jobs ELSE [jobs EXCEPT ![e] = @ + 1]

\* ensureIntegrateJob: only when no row of the episode is pending.
Ensured(e) == IF jobs[e] > 0 THEN jobs ELSE [jobs EXCEPT ![e] = @ + 1]

\* One transaction: the archive row unless its key is there, and the job.
archiveAndQueue(p) ==
    /\ at[p] = "queueing"
    /\ archive' = archive \cup {Experience(p)}
    /\ jobs' = Ensured(found[p])
    /\ at' = [at EXCEPT ![p] = "embedding"]
    /\ UNCHANGED <<found, ensured, graph, locks, applied, pass, bounds>>

\* attachVectors, whose failure is logged; then the answer.
attachVectors(p) ==
    /\ at[p] = "embedding"
    /\ at' = [at EXCEPT ![p] = "acked"]
    /\ UNCHANGED <<found, ensured, graph, locks, store, pass, bounds>>

\* The worker, whole: one row, and the run key unless the episode is unreadable.
Enrich(e) ==
    /\ e \in Queued
    /\ jobs' = [jobs EXCEPT ![e] = @ - 1]
    /\ applied' = IF e \in forgotten THEN applied ELSE applied \cup {e}
    /\ UNCHANGED <<at, found, ensured, graph, locks, archive, pass, bounds>>

\* aion queue drop.
Drop(e) ==
    /\ e \in Queued /\ Cardinality(dropped) < MaxDrops
    /\ jobs' = [jobs EXCEPT ![e] = @ - 1]
    /\ dropped' = dropped \cup {e}
    /\ UNCHANGED <<at, found, ensured, graph, locks, archive, applied, pass, crashes, failures>>

\* aion forget.
Forget(e) ==
    /\ e \in Stored \ forgotten /\ Cardinality(forgotten) < MaxForgets
    /\ forgotten' = forgotten \cup {e}
    /\ UNCHANGED <<at, found, ensured, sessions, follows, episodes, locks, store, pass, bounds>>

-----------------------------------------------------------------------------
(* reconcileEnrichment.  The service's own pass awaits the graph and then   *)
(* nothing; the command line is another process, so its SQLite statements   *)
(* are steps.                                                               *)

listStoredEpisodes(k) ==
    /\ pass[k].at = "idle"
    /\ pass' = [pass EXCEPT ![k] = [at |-> "listed", skip |-> {}, seen |-> Stored \ forgotten]]
    /\ UNCHANGED <<at, found, ensured, graph, locks, store, bounds>>

OnlyArchived(seen, skip) == {e \in seen \ skip : episodes[e] \in archive}     \* mutant
Orphaned(seen, skip) == seen \ skip

\* Oldest first, no more than the batch, and no look at what is queued by now.
reconcileInService ==
    /\ pass[Recurring].at = "listed"
    /\ LET orphaned == Orphaned(pass[Recurring].seen, applied \cup Queued)
           batch == {e \in orphaned : Cardinality({f \in orphaned : f < e}) < Batch}
       IN  jobs' = [e \in Stored |-> IF e \in batch THEN jobs[e] + 1 ELSE jobs[e]]
    /\ pass' = [pass EXCEPT ![Recurring] = Idle]
    /\ UNCHANGED <<at, found, ensured, graph, locks, archive, applied, bounds>>

appliedEpisodeIds(k) ==
    /\ k # Recurring /\ pass[k].at = "listed"
    /\ pass' = [pass EXCEPT ![k].at = "gated", ![k].skip = applied]
    /\ UNCHANGED <<at, found, ensured, graph, locks, store, bounds>>

queuedEpisodeIds(k) ==
    /\ pass[k].at = "gated"
    /\ pass' = [pass EXCEPT ![k].at = "joined", ![k].skip = @ \cup Queued]
    /\ UNCHANGED <<at, found, ensured, graph, locks, store, bounds>>

reEnqueue(k) ==
    /\ pass[k].at = "joined"
    /\ LET orphaned == Orphaned(pass[k].seen, pass[k].skip)
           next == Min(orphaned)
       IN  IF orphaned = {}
           THEN pass' = [pass EXCEPT ![k] = [Idle EXCEPT !.at = "done"]] /\ UNCHANGED jobs
           ELSE /\ jobs' = [jobs EXCEPT ![next] = @ + 1]
                /\ pass' = [pass EXCEPT ![k].skip = @ \cup {next}]
    /\ UNCHANGED <<at, found, ensured, graph, locks, archive, applied, bounds>>

-----------------------------------------------------------------------------
(* The service dies: its calls, its caches and its open transactions go.    *)
Crash ==
    /\ crashes < MaxCrashes /\ crashes' = crashes + 1
    /\ at' = [p \in Pushes |-> IF at[p] = "acked" THEN "acked" ELSE "idle"]
    /\ ensured' = {}
    /\ prior' = [p \in Pushes |-> NoOne] /\ writer' = [s \in Sessions |-> NoOne]
    /\ pass' = [pass EXCEPT ![Recurring] = Idle]
    /\ UNCHANGED <<found, graph, store, dropped, failures>>

Push(p) ==
    \/ ensureSession(p) \/ SessionKnown(p) \/ lockMember(p) \/ commitSession(p)
    \/ findEpisodeByContentHash(p) \/ lockSession(p) \/ commitEpisode(p) \/ GraphFails(p)
    \/ archiveAndQueue(p) \/ attachVectors(p)

Reconcile(k) == listStoredEpisodes(k) \/ appliedEpisodeIds(k) \/ queuedEpisodeIds(k) \/ reEnqueue(k)

Service == listStoredEpisodes(Recurring) \/ reconcileInService

Next == \/ \E p \in Pushes : Push(p)
        \/ \E e \in Stored : Enrich(e) \/ Drop(e) \/ Forget(e)
        \/ \E s \in Sessions : forgetSession(s)
        \/ \E k \in Passes : Reconcile(k)
        \/ Service \/ Crash

Spec == Init /\ [][Next]_vars

\* The introspector keeps running the operation and the worker keeps draining; no client
\* has to retry.
FairSpec == Spec /\ WF_vars(Service) /\ \A e \in Ids : WF_vars(Enrich(e))

-----------------------------------------------------------------------------
(* Dedupe holds under concurrent pushes, crashes and retries: a session     *)
(* never holds two readable episodes of one content.                        *)
OneEpisodePerExperience ==
    \A e, f \in Stored \ forgotten : episodes[e] = episodes[f] => e = f

(* The member's sessions form one chain: a single first session, a single   *)
(* last one, nobody followed twice and no cycle.                            *)
ChainIsALine ==
    /\ \A s \in sessions : Cardinality({t \in sessions : <<s, t>> \in follows}) <= 1
    /\ \A s \in sessions : Cardinality({t \in sessions : <<t, s>> \in follows}) <= 1
    /\ sessions # {} => /\ Cardinality(Tails) = 1
                        /\ Cardinality(follows) = Cardinality(sessions) - 1

(* A cached identity has its node: the session lock would otherwise bind    *)
(* nothing.                                                                 *)
CacheIsBacked == ensured \subseteq sessions

(* What the answer promised: the experience is archived, and its episode is *)
(* enriched, queued, forgotten, or was dropped by an operator.              *)
AckedIsKept ==
    \A p \in Pushes : at[p] = "acked" =>
        /\ Experience(p) \in archive
        /\ found[p] \in applied \cup Queued \cup forgotten \cup dropped

(* While only the service enqueues, an episode has one row at most, however *)
(* its intake and the reconcile pass fall.                                  *)
OneRowPerEpisode == \A e \in Stored : jobs[e] <= 1

(* A stored episode is enriched in the end with no help from its client:    *)
(* the reconcile pass finds what a crash left without a row.                *)
StoredIsEnriched == \A e \in Ids : e \in Stored ~> e \in applied \cup forgotten
=============================================================================
