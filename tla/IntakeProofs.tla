------------------------------ MODULE IntakeProofs ------------------------------
(***************************************************************************)
(* Dedupe, the session cache and the acknowledgement of Intake, for any    *)
(* number of pushes, sessions, crashes, retries and reconcile passes.      *)
(*                                                                         *)
(* The invariant says what a push inside its write transaction may rely    *)
(* on: it holds its session's lock, and since it looked nobody else has    *)
(* stored its experience, because whoever could would need that lock.      *)
(***************************************************************************)
EXTENDS Intake, FiniteSetTheorems, TLAPS

Places == {"idle", "creating", "joined", "chaining", "looking", "storing",
           "writing", "queueing", "embedding", "acked"}

Types ==
    /\ at \in [Pushes -> Places] /\ found \in [Pushes -> Nat \cup {None}]
    /\ writer \in [Sessions -> Pushes \cup {NoOne}]
    /\ episodes \in Seq({Experience(p) : p \in Pushes}) /\ forgotten \subseteq Stored
    /\ jobs \in Seq(Nat) /\ Len(jobs) = Len(episodes)

\* A push that will write holds the lock it needs, and its experience is not there.
Locked == \A p \in Pushes : at[p] = "writing" => writer[SessionOf[p]] = p
Fresh == \A p \in Pushes : at[p] = "writing" => Known(p) = {}

\* A push that resolved names an episode; once archived and queued, it stays kept.
Resolved == \A p \in Pushes : at[p] \in {"queueing", "embedding", "acked"} => found[p] \in Stored
Kept == \A p \in Pushes : at[p] \in {"embedding", "acked"} =>
            /\ Experience(p) \in archive
            /\ found[p] \in applied \cup Queued \cup forgotten \cup dropped

IInv == Types /\ Locked /\ Fresh /\ Resolved /\ Kept /\ OneEpisodePerExperience /\ CacheIsBacked

LEMMA Initially == Init => IInv
<1> SUFFICES ASSUME Init PROVE IInv
  OBVIOUS
<1> USE DEF Init
<1>1. Types
  BY DEF Types, Places, Stored
<1>2. Locked /\ Fresh /\ Resolved /\ Kept
  BY DEF Locked, Fresh, Resolved, Kept
<1>3. OneEpisodePerExperience /\ CacheIsBacked
  BY DEF OneEpisodePerExperience, CacheIsBacked, Stored
<1> QED
  BY <1>1, <1>2, <1>3 DEF IInv

-----------------------------------------------------------------------------
(* The steps, by what they change.                                         *)

\* A step that moves pushes between places none of which holds or promises anything.
Quiet == {"idle", "creating", "joined", "chaining", "looking", "storing"}
Untouched == /\ UNCHANGED <<found, episodes, forgotten, jobs, applied, archive, dropped>>
             /\ at' \in [Pushes -> Places]
             /\ \A p \in Pushes : at'[p] = at[p] \/ at'[p] \in Quiet

LEMMA QuietStep ==
    ASSUME IInv, Untouched, ensured' \subseteq sessions',
           writer' \in [Sessions -> Pushes \cup {NoOne}],
           \A p \in Pushes : at'[p] = "writing" => writer'[SessionOf[p]] = writer[SessionOf[p]]
    PROVE  IInv'
<1> USE DEF IInv, Untouched, Quiet
<1>1. Types'
  BY DEF Types, Stored
<1>2. Locked' /\ Fresh'
  BY DEF Locked, Fresh, Known, Stored
<1>3. Resolved' /\ Kept'
  BY DEF Resolved, Kept, Stored, Queued
<1>4. OneEpisodePerExperience' /\ CacheIsBacked'
  BY DEF OneEpisodePerExperience, CacheIsBacked, Stored
<1> QED
  BY <1>1, <1>2, <1>3, <1>4

\* What the session path does to the rest is quiet.
LEMMA SessionSteps ==
    ASSUME IInv, NEW p \in Pushes,
           \/ ensureSession(p) \/ SessionKnown(p) \/ lockMember(p) \/ commitSession(p)
    PROVE  IInv'
<1> USE DEF IInv, graph, locks, store, bounds
<1>0. SessionOf[p] \in Sessions
  BY DEF Sessions
<1>1. CASE ensureSession(p)
  <2>1. Untouched /\ ensured' \subseteq sessions' /\ writer' = writer
    BY <1>1 DEF ensureSession, Untouched, Quiet, Types, Places, CacheIsBacked
  <2> QED
    BY <2>1, QuietStep DEF Types
<1>2. CASE SessionKnown(p)
  <2>1. Untouched /\ ensured' \subseteq sessions' /\ writer' = writer
    BY <1>2 DEF SessionKnown, Resolve, Untouched, Quiet, Types, Places, CacheIsBacked
  <2> QED
    BY <2>1, QuietStep DEF Types
<1>3. CASE lockMember(p)
  <2>1. Untouched /\ ensured' \subseteq sessions' /\ writer' = writer
    BY <1>3 DEF lockMember, Untouched, Quiet, Types, Places, CacheIsBacked
  <2> QED
    BY <2>1, QuietStep DEF Types
<1>4. CASE commitSession(p)
  <2>1. Untouched /\ ensured' \subseteq sessions' /\ writer' = writer
    BY <1>4 DEF commitSession, Resolve, Untouched, Quiet, Types, Places, CacheIsBacked
  <2> QED
    BY <2>1, QuietStep DEF Types
<1> QED
  BY <1>1, <1>2, <1>3, <1>4

LEMMA LossSteps ==
    ASSUME IInv, IntakeAssumption, Crash \/ \E p \in Pushes : GraphFails(p)
    PROVE  IInv'
<1> USE DEF IInv, graph, locks, store, bounds
<1>1. CASE Crash
  <2>1. Untouched /\ ensured' \subseteq sessions'
    BY <1>1 DEF Crash, Untouched, Quiet, Types, Places
  <2>2. /\ writer' \in [Sessions -> Pushes \cup {NoOne}]
        /\ \A q \in Pushes : at'[q] # "writing"
    BY <1>1 DEF Crash
  <2> QED
    BY <2>1, <2>2, QuietStep
<1>2. ASSUME NEW p \in Pushes, GraphFails(p) PROVE IInv'
  <2>1. Untouched /\ ensured' \subseteq sessions'
    BY <1>2 DEF GraphFails, Untouched, Quiet, Types, Places, CacheIsBacked
  <2>2. writer' \in [Sessions -> Pushes \cup {NoOne}]
    BY <1>2 DEF GraphFails, Rollback, Types
  <2>3. ASSUME NEW q \in Pushes, at'[q] = "writing"
        PROVE  writer'[SessionOf[q]] = writer[SessionOf[q]]
    <3>1. q # p /\ at[q] = "writing"
      BY <1>2, <2>3 DEF GraphFails, Types
    <3>2. SessionOf[q] \in Sessions /\ writer[SessionOf[q]] = q
      BY <3>1 DEF Sessions, Locked
    <3> QED
      BY <1>2, <3>1, <3>2 DEF GraphFails, Rollback
  <2> QED
    BY <2>1, <2>2, <2>3, QuietStep
<1> QED
  BY <1>1, <1>2

-----------------------------------------------------------------------------
(* The write of the episode.                                               *)

LEMMA KnownIsFound ==
    ASSUME IInv, NEW p \in Pushes, Known(p) # {}
    PROVE  Min(Known(p)) \in Stored
<1>1. PICK e \in Known(p) : TRUE
  OBVIOUS
<1>2. Known(p) = {e} /\ e \in Stored /\ e \in Nat
  BY <1>1 DEF IInv, OneEpisodePerExperience, Known, Types, Stored
<1>3. Min({e}) \in {e}
  BY <1>2 DEF Min
<1> QED
  BY <1>2, <1>3

LEMMA ResolveSteps ==
    ASSUME IInv, NEW p \in Pushes, findEpisodeByContentHash(p) \/ lockSession(p)
    PROVE  IInv'
<1> USE DEF IInv, graph, locks, store, bounds
<1>0. SessionOf[p] \in Sessions
  BY DEF Sessions
<1>1. CASE Known(p) # {}
  <2> DEFINE e == Min(Known(p))
  <2>1. e \in Stored
    BY <1>1, KnownIsFound
  <2>2. /\ Took(p, e) /\ at[p] \in {"looking", "storing"}
        /\ UNCHANGED <<writer, episodes, forgotten, jobs, archive, applied, dropped,
                       ensured, sessions>>
    BY <1>1 DEF findEpisodeByContentHash, lockSession
  <2> HIDE DEF e
  <2>3. Types'
    BY <2>1, <2>2 DEF Types, Took, Places, Stored
  <2>4. Locked' /\ Fresh'
    BY <2>2 DEF Locked, Fresh, Known, Took, Types, Stored
  <2>5. Resolved' /\ Kept'
    BY <2>1, <2>2 DEF Resolved, Kept, Took, Types, Stored, Queued
  <2>6. OneEpisodePerExperience' /\ CacheIsBacked'
    BY <2>2 DEF OneEpisodePerExperience, CacheIsBacked, Stored
  <2> QED
    BY <2>3, <2>4, <2>5, <2>6
<1>2. CASE Known(p) = {} /\ findEpisodeByContentHash(p)
  <2>1. Untouched /\ ensured' \subseteq sessions' /\ writer' = writer
    BY <1>2 DEF findEpisodeByContentHash, Untouched, Quiet, Types, Places, CacheIsBacked
  <2> QED
    BY <2>1, QuietStep DEF Types
<1>3. CASE Known(p) = {} /\ lockSession(p)
  <2>1. /\ writer' = [writer EXCEPT ![SessionOf[p]] = p] /\ writer[SessionOf[p]] = NoOne
        /\ at' = [at EXCEPT ![p] = "writing"]
        /\ UNCHANGED <<found, episodes, forgotten, jobs, archive, applied, dropped,
                       ensured, sessions>>
    BY <1>3 DEF lockSession, SessionFree
  <2>2. Types'
    BY <1>0, <2>1 DEF Types, Places, Stored
  <2>3. Locked'
    BY <1>0, <2>1, IntakeAssumption DEF Locked, Types, Sessions
  <2>4. Fresh'
    BY <1>3, <2>1 DEF Fresh, Known, Types, Stored
  <2>5. Resolved' /\ Kept'
    BY <2>1 DEF Resolved, Kept, Types, Stored, Queued
  <2>6. OneEpisodePerExperience' /\ CacheIsBacked'
    BY <2>1 DEF OneEpisodePerExperience, CacheIsBacked, Stored
  <2> QED
    BY <2>2, <2>3, <2>4, <2>5, <2>6
<1> QED
  BY <1>1, <1>2, <1>3

LEMMA CommitStep ==
    ASSUME IInv, NEW p \in Pushes, commitEpisode(p)
    PROVE  IInv'
<1> USE DEF IInv, graph, locks, store, bounds
<1> DEFINE n == Len(episodes) + 1
<1>1. /\ at[p] = "writing" /\ at' = [at EXCEPT ![p] = "queueing"]
      /\ found' = [found EXCEPT ![p] = n]
      /\ episodes' = Append(episodes, Experience(p)) /\ jobs' = Append(jobs, 0)
      /\ writer' = [writer EXCEPT ![SessionOf[p]] = NoOne]
      /\ UNCHANGED <<forgotten, archive, applied, dropped, ensured, sessions>>
  BY DEF commitEpisode, Took
<1>2. /\ Stored = 1..Len(episodes) /\ Stored' = Stored \cup {n} /\ n \in Nat /\ n \notin Stored
      /\ episodes'[n] = Experience(p) /\ \A e \in Stored : episodes'[e] = episodes[e]
      /\ \A e \in Stored : jobs'[e] = jobs[e]
  BY <1>1 DEF Types, Stored
<1>3. \A q \in Pushes : at'[q] = "writing" =>
          q # p /\ at[q] = "writing" /\ SessionOf[q] # SessionOf[p]
  BY <1>1 DEF Types, Locked
<1>4. Types'
  <2>1. episodes' \in Seq({Experience(q) : q \in Pushes}) /\ Len(episodes') = n
    BY <1>1 DEF Types
  <2>2. jobs' \in Seq(Nat) /\ Len(jobs') = n
    BY <1>1 DEF Types
  <2>3. at' \in [Pushes -> Places] /\ found' \in [Pushes -> Nat \cup {None}]
    BY <1>1, <1>2 DEF Types, Places
  <2>4. writer' \in [Sessions -> Pushes \cup {NoOne}] /\ forgotten' \subseteq Stored'
    BY <1>1, <1>2 DEF Types
  <2> QED
    BY <2>1, <2>2, <2>3, <2>4 DEF Types
<1>5. Locked'
  BY <1>1, <1>3 DEF Locked, Types, Sessions
<1>6. Fresh'
  <2> SUFFICES ASSUME NEW q \in Pushes, at'[q] = "writing", NEW e \in Stored' \ forgotten
               PROVE  episodes'[e] # Experience(q)
    BY <1>1 DEF Fresh, Known
  <2>1. CASE e = n
    <3>1. Experience(q) # Experience(p)
      BY <1>3 DEF Experience
    <3> QED
      BY <1>2, <2>1, <3>1
  <2>2. CASE e \in Stored
    BY <1>2, <1>3, <2>2 DEF Fresh, Known
  <2> QED
    BY <1>2, <2>1, <2>2
<1>7. Resolved'
  BY <1>1, <1>2 DEF Resolved, Types
<1>8. Kept'
  <2>1. Queued \subseteq Queued'
    BY <1>2 DEF Queued
  <2> QED
    BY <1>1, <2>1 DEF Kept, Types
<1>9. OneEpisodePerExperience'
  <2>1. \A e \in Stored \ forgotten : episodes[e] # Experience(p)
    BY <1>1 DEF Fresh, Known
  <2> QED
    BY <1>1, <1>2, <2>1 DEF OneEpisodePerExperience
<1>10. CacheIsBacked'
  BY <1>1 DEF CacheIsBacked
<1> QED
  BY <1>4, <1>5, <1>6, <1>7, <1>8, <1>9, <1>10

-----------------------------------------------------------------------------
(* The queue.                                                              *)

\* A statement on the queue rows alone, which loses none that is still needed.
RowsOnly ==
    /\ UNCHANGED <<found, episodes, forgotten, writer, ensured, sessions>>
    /\ jobs' \in Seq(Nat) /\ Len(jobs') = Len(jobs)
    /\ at' \in [Pushes -> Places]
    /\ \A q \in Pushes : \/ at'[q] = at[q]
                         \/ at[q] \in {"queueing", "embedding"} /\ at'[q] \in {"embedding", "acked"}

LEMMA RowsStep == ASSUME IInv, RowsOnly, Kept' PROVE IInv'
<1> USE DEF IInv, RowsOnly
<1>1. Types'
  BY DEF Types, Stored
<1>2. Locked' /\ Fresh'
  BY DEF Locked, Fresh, Known, Stored
<1>3. Resolved'
  BY DEF Resolved, Stored
<1>4. OneEpisodePerExperience' /\ CacheIsBacked'
  BY DEF OneEpisodePerExperience, CacheIsBacked, Stored
<1> QED
  BY <1>1, <1>2, <1>3, <1>4

LEMMA QueueSteps ==
    ASSUME IInv, NEW p \in Pushes, archiveAndQueue(p) \/ attachVectors(p)
    PROVE  IInv'
<1> USE DEF IInv, graph, locks, store, bounds
<1>1. CASE archiveAndQueue(p)
  <2>1. found[p] \in Stored
    BY <1>1 DEF archiveAndQueue, Resolved
  <2>2. /\ jobs' = Ensured(found[p]) /\ archive' = archive \cup {Experience(p)}
        /\ at' = [at EXCEPT ![p] = "embedding"] /\ at[p] = "queueing"
        /\ UNCHANGED <<found, episodes, forgotten, writer, ensured, sessions, applied, dropped>>
    BY <1>1 DEF archiveAndQueue
  <2>3. /\ jobs' \in Seq(Nat) /\ Len(jobs') = Len(jobs)
        /\ Queued \cup {found[p]} \subseteq Queued'
    BY <2>1, <2>2 DEF Ensured, Queued, Types, Stored
  <2>4. Kept'
    BY <2>2, <2>3 DEF Kept, Types
  <2>5. at' \in [Pushes -> Places] /\ \A q \in Pushes : q # p => at'[q] = at[q]
    BY <2>2 DEF Types, Places
  <2>6. at'[p] = "embedding"
    BY <2>2 DEF Types
  <2>7. RowsOnly
    BY <2>2, <2>3, <2>5, <2>6 DEF RowsOnly
  <2> QED
    BY <2>4, <2>7, RowsStep
<1>2. CASE attachVectors(p)
  <2>1. Kept'
    BY <1>2 DEF attachVectors, Kept, Types, Queued, Stored
  <2>2. /\ at' \in [Pushes -> Places] /\ at[p] = "embedding" /\ at'[p] = "acked"
        /\ \A q \in Pushes : q # p => at'[q] = at[q]
    BY <1>2 DEF attachVectors, Types, Places
  <2>3. /\ UNCHANGED <<found, episodes, forgotten, writer, ensured, sessions, jobs>>
        /\ jobs \in Seq(Nat)
    BY <1>2 DEF attachVectors, Types
  <2>4. RowsOnly
    BY <2>2, <2>3 DEF RowsOnly
  <2> QED
    BY <2>1, <2>4, RowsStep
<1> QED
  BY <1>1, <1>2

LEMMA RowSteps ==
    ASSUME IInv, NEW e \in Stored, Enrich(e) \/ Drop(e)
    PROVE  IInv'
<1> USE DEF IInv, graph, locks, store, bounds
<1>1. /\ jobs' = [jobs EXCEPT ![e] = @ - 1] /\ e \in Queued
      /\ e \in applied' \cup forgotten \cup dropped'
      /\ applied \subseteq applied' /\ dropped \subseteq dropped'
      /\ UNCHANGED <<at, found, episodes, forgotten, archive, writer, ensured, sessions>>
  BY DEF Enrich, Drop
<1>2. /\ jobs' \in Seq(Nat) /\ Len(jobs') = Len(jobs) /\ Queued \ {e} \subseteq Queued'
  BY <1>1 DEF Queued, Types, Stored
<1>3. Kept'
  BY <1>1, <1>2 DEF Kept
<1>4. at' \in [Pushes -> Places]
  BY <1>1 DEF Types
<1>5. RowsOnly
  BY <1>1, <1>2, <1>4 DEF RowsOnly
<1> QED
  BY <1>3, <1>5, RowsStep

LEMMA PassSteps ==
    ASSUME IInv, reconcileInService \/ \E k \in Passes : reEnqueue(k)
    PROVE  IInv'
<1> USE DEF IInv, graph, locks, store, bounds
<1> DEFINE Grown == /\ jobs' \in Seq(Nat) /\ Len(jobs') = Len(jobs)
                    /\ \A e \in Stored : jobs'[e] = jobs[e] \/ jobs'[e] = jobs[e] + 1
<1>1. Grown
  <2>1. CASE reconcileInService
    <3>1. PICK batch : jobs' = [e \in Stored |-> IF e \in batch THEN jobs[e] + 1 ELSE jobs[e]]
      BY <2>1 DEF reconcileInService
    <3> QED
      BY <3>1 DEF Types, Stored
  <2>2. ASSUME NEW k \in Passes, reEnqueue(k) PROVE Grown
    <3>1. PICK h : jobs' = jobs \/ jobs' = [jobs EXCEPT ![h] = @ + 1]
      BY <2>2 DEF reEnqueue
    <3>2. jobs \in Seq(Nat) /\ DOMAIN jobs = Stored /\ \A e \in Stored : jobs[e] \in Nat
      BY DEF Types, Stored
    <3>3. CASE h \in Stored /\ jobs' = [jobs EXCEPT ![h] = @ + 1]
      BY <3>2, <3>3
    <3>4. CASE jobs' = jobs
      BY <3>2, <3>4
    <3>5. CASE h \notin Stored /\ jobs' = [jobs EXCEPT ![h] = @ + 1]
      <4>1. jobs' = jobs
        BY <3>2, <3>5
      <4> QED
        BY <3>2, <4>1
    <3> QED
      BY <3>1, <3>3, <3>4, <3>5
  <2> QED
    BY <2>1, <2>2
<1>2. UNCHANGED <<at, found, episodes, forgotten, archive, applied, dropped, writer,
                  ensured, sessions>>
  BY DEF reconcileInService, reEnqueue
<1>3. Kept'
  <2>1. Queued \subseteq Queued'
    BY <1>1, <1>2 DEF Queued, Types, Stored
  <2> QED
    BY <1>2, <2>1 DEF Kept
<1>4. at' \in [Pushes -> Places]
  BY <1>2 DEF Types
<1>5. RowsOnly
  BY <1>1, <1>2, <1>4 DEF RowsOnly
<1> QED
  BY <1>3, <1>5, RowsStep

-----------------------------------------------------------------------------
LEMMA EveryStep == IInv /\ [Next]_vars => IInv'
<1> SUFFICES ASSUME IInv, [Next]_vars PROVE IInv'
  OBVIOUS
<1>1. ASSUME NEW p \in Pushes, Push(p) PROVE IInv'
  BY <1>1, SessionSteps, ResolveSteps, CommitStep, LossSteps, QueueSteps, IntakeAssumption
  DEF Push
<1>2. ASSUME NEW e \in Stored, Forget(e) PROVE IInv'
  <2> USE DEF IInv, Forget, graph, locks, store, bounds
  <2>1. Types' /\ Locked'
    BY <1>2 DEF Types, Locked, Stored
  <2>2. Fresh' /\ OneEpisodePerExperience'
    BY <1>2 DEF Fresh, Known, OneEpisodePerExperience, Stored
  <2>3. Resolved' /\ Kept' /\ CacheIsBacked'
    BY <1>2 DEF Resolved, Kept, CacheIsBacked, Stored, Queued
  <2> QED
    BY <2>1, <2>2, <2>3
<1>3. ASSUME NEW e \in Stored, Enrich(e) \/ Drop(e) PROVE IInv'
  BY <1>3, RowSteps
<1>4. ASSUME NEW s \in Sessions, forgetSession(s) PROVE IInv'
  <2>1. Untouched /\ ensured' \subseteq sessions' /\ writer' = writer
    BY <1>4 DEF forgetSession, Untouched, Quiet, IInv, Types, CacheIsBacked, graph, locks, store, bounds
  <2> QED
    BY <2>1, QuietStep DEF IInv, Types
<1>5. ASSUME NEW k, listStoredEpisodes(k) \/ appliedEpisodeIds(k) \/ queuedEpisodeIds(k)
      PROVE  IInv'
  <2>1. Untouched /\ ensured' \subseteq sessions' /\ writer' = writer
    BY <1>5 DEF listStoredEpisodes, appliedEpisodeIds, queuedEpisodeIds, Untouched, Quiet,
                IInv, Types, CacheIsBacked, graph, locks, store, bounds
  <2> QED
    BY <2>1, QuietStep DEF IInv, Types
<1>6. CASE Crash
  BY <1>6, LossSteps, IntakeAssumption
<1>7. CASE UNCHANGED vars
  <2>1. Untouched /\ ensured' \subseteq sessions' /\ writer' = writer
    BY <1>7 DEF vars, Untouched, Quiet, IInv, Types, CacheIsBacked, graph, locks, store, bounds
  <2> QED
    BY <2>1, QuietStep DEF IInv, Types
<1> QED
  BY <1>1, <1>2, <1>3, <1>4, <1>5, <1>6, <1>7, PassSteps DEF Next, Reconcile, Service

LEMMA Always == Spec => []IInv
BY Initially, EveryStep, PTL DEF Spec

(* storeEpisode: the session's lock makes the dedupe read decide, so no    *)
(* interleaving of pushes, crashes and retries stores an experience twice. *)
THEOREM DedupeHolds == Spec => []OneEpisodePerExperience
<1>1. IInv => OneEpisodePerExperience
  BY DEF IInv
<1> QED
  BY Always, <1>1, PTL

(* SessionManager: what #ensured answers for has its node in the graph.    *)
THEOREM CacheNeverLies == Spec => []CacheIsBacked
<1>1. IInv => CacheIsBacked
  BY DEF IInv
<1> QED
  BY Always, <1>1, PTL

(* handleReflection: an answered push is archived, and its episode is      *)
(* enriched or queued unless somebody forgot or dropped it.                *)
THEOREM AnswersAreKept == Spec => []AckedIsKept
<1>1. IInv => AckedIsKept
  BY DEF IInv, Kept, AckedIsKept
<1> QED
  BY Always, <1>1, PTL

-----------------------------------------------------------------------------
(* The chain of sessions.  Its invariant says the chain is a line and, for *)
(* the one creation that may hold the Member's lock, that the end it read  *)
(* is still the end when it commits.                                       *)

ChainTypes ==
    /\ at \in [Pushes -> Places] /\ prior \in [Pushes -> Sessions \cup {NoOne}]
    /\ sessions \subseteq Sessions /\ IsFiniteSet(sessions)
    /\ follows \subseteq sessions \X sessions /\ IsFiniteSet(follows)

\* Nobody follows two sessions and nobody is followed twice.
Line == \A s, t, u \in sessions :
            /\ <<s, t>> \in follows /\ <<s, u>> \in follows => t = u
            /\ <<t, s>> \in follows /\ <<u, s>> \in follows => t = u

OneEnd == sessions # {} => /\ \E s \in sessions : Tails = {s}
                           /\ Cardinality(follows) = Cardinality(sessions) - 1

\* A creation under the lock is alone, its node is new and it holds the chain's end.
ReadStands ==
    \A p \in Pushes : at[p] = "chaining" =>
        /\ \A q \in Pushes : at[q] = "chaining" => p = q
        /\ SessionOf[p] \notin sessions
        /\ IF sessions = {} THEN prior[p] = NoOne ELSE prior[p] \in Tails

ChainInv == ChainTypes /\ Line /\ OneEnd /\ ReadStands

LEMMA ChainInitially == Init => ChainInv
<1> SUFFICES ASSUME Init PROVE ChainInv
  OBVIOUS
<1>1. IsFiniteSet({}) /\ sessions = {} /\ follows = {} /\ \A p \in Pushes : at[p] = "idle"
  BY FS_EmptySet DEF Init
<1>2. ChainTypes
  BY <1>1 DEF Init, ChainTypes, Places
<1> QED
  BY <1>1, <1>2 DEF ChainInv, Line, OneEnd, ReadStands

\* A step that writes no node, no edge, and takes no lock.
LEMMA ChainKept ==
    ASSUME ChainInv, UNCHANGED <<sessions, follows>>,
           at' \in [Pushes -> Places], prior' \in [Pushes -> Sessions \cup {NoOne}],
           \A p \in Pushes : at'[p] = "chaining" => at[p] = "chaining" /\ prior'[p] = prior[p]
    PROVE  ChainInv'
<1>1. ChainTypes' /\ Line' /\ OneEnd'
  BY DEF ChainInv, ChainTypes, Line, OneEnd, Tails
<1>2. ReadStands'
  BY DEF ChainInv, ReadStands, Tails
<1> QED
  BY <1>1, <1>2 DEF ChainInv

LEMMA LockKeepsChain ==
    ASSUME ChainInv, NEW p \in Pushes, lockMember(p)
    PROVE  ChainInv'
<1>1. PICK s \in IF Tails = {} THEN {NoOne} ELSE Tails : prior' = [prior EXCEPT ![p] = s]
  BY DEF lockMember
<1>2. /\ at[p] = "creating" /\ SessionOf[p] \notin sessions
      /\ \A q \in Pushes : at[q] # "chaining"
      /\ at' = [at EXCEPT ![p] = "chaining"] /\ UNCHANGED <<sessions, follows>>
  BY DEF lockMember, MemberFree, graph
<1>3. s \in Sessions \cup {NoOne} /\ Tails \subseteq sessions
  BY <1>1 DEF ChainInv, ChainTypes, Tails
<1>4. ChainTypes' /\ Line' /\ OneEnd' /\ Tails' = Tails
  BY <1>1, <1>2, <1>3 DEF ChainInv, ChainTypes, Line, OneEnd, Tails, Places
<1>5. ReadStands'
  <2>1. \A q \in Pushes : at'[q] = "chaining" => q = p
    BY <1>2 DEF ChainInv, ChainTypes
  <2>2. prior'[p] = s
    BY <1>1 DEF ChainInv, ChainTypes
  <2>3. IF sessions = {} THEN s = NoOne ELSE s \in Tails
    <3>1. Tails = {} <=> sessions = {}
      BY <1>3 DEF ChainInv, OneEnd
    <3> QED
      BY <1>1, <3>1
  <2> QED
    BY <1>2, <1>4, <2>1, <2>2, <2>3 DEF ReadStands
<1> QED
  BY <1>4, <1>5 DEF ChainInv

LEMMA CommitExtendsChain ==
    ASSUME ChainInv, IntakeAssumption, NEW p \in Pushes, commitSession(p)
    PROVE  ChainInv'
<1> DEFINE s == SessionOf[p]
           t == prior[p]
<1>1. /\ at[p] = "chaining" /\ s \in Sessions /\ s \notin sessions
      /\ IF sessions = {} THEN t = NoOne ELSE t \in Tails
      /\ \A q \in Pushes : at[q] = "chaining" => q = p
  BY DEF commitSession, ChainInv, ReadStands, Sessions
<1>2. /\ sessions' = sessions \cup {s}
      /\ follows' = IF t = NoOne THEN follows ELSE follows \cup {<<s, t>>}
      /\ prior' = [prior EXCEPT ![p] = NoOne]
      /\ at' = [q \in Pushes |-> IF q \in {p} \cup Joined(s) THEN "looking" ELSE at[q]]
  BY DEF commitSession, Resolve
<1>3. at' \in [Pushes -> Places] /\ prior' \in [Pushes -> Sessions \cup {NoOne}]
  BY <1>2 DEF ChainInv, ChainTypes, Places
<1>4. ReadStands'
  BY <1>1, <1>2 DEF ReadStands
<1>5. IsFiniteSet(sessions') /\ Cardinality(sessions') = Cardinality(sessions) + 1
  BY <1>1, <1>2, FS_AddElement DEF ChainInv, ChainTypes
<1>6. Cardinality(sessions) \in Nat /\ Cardinality(follows) \in Nat
  BY FS_CardinalityType DEF ChainInv, ChainTypes
<1>7. CASE sessions = {}
  <2>1. follows = {} /\ follows' = {} /\ sessions' = {s}
    BY <1>1, <1>2, <1>7 DEF ChainInv, ChainTypes
  <2>2. ChainTypes' /\ Line'
    BY <1>1, <1>3, <1>5, <2>1, FS_EmptySet DEF ChainInv, ChainTypes, Line
  <2>3. Tails' = {s}
    BY <2>1 DEF Tails
  <2>4. Cardinality(follows') = 0 /\ Cardinality(sessions') = 1
    BY <2>1, FS_EmptySet, FS_Singleton
  <2>5. OneEnd'
    BY <2>1, <2>3, <2>4 DEF OneEnd
  <2> QED
    BY <1>4, <2>2, <2>5 DEF ChainInv
<1>8. CASE sessions # {}
  <2>1. /\ t \in sessions /\ t # s /\ Tails = {t} /\ t # NoOne
        /\ \A u \in sessions : <<u, t>> \notin follows
    BY <1>1, <1>8 DEF ChainInv, ChainTypes, OneEnd, Tails, IntakeAssumption
  <2>2. follows' = follows \cup {<<s, t>>} /\ <<s, t>> \notin follows
    BY <1>1, <1>2, <2>1 DEF ChainInv, ChainTypes
  <2>3. IsFiniteSet(follows') /\ Cardinality(follows') = Cardinality(follows) + 1
    BY <2>2, FS_AddElement DEF ChainInv, ChainTypes
  <2>4. ChainTypes'
    BY <1>1, <1>2, <1>3, <1>5, <2>1, <2>2, <2>3 DEF ChainInv, ChainTypes
  <2>5. \A u \in sessions : <<s, u>> \notin follows /\ <<u, s>> \notin follows
    BY <1>1 DEF ChainInv, ChainTypes
  <2>6. Line'
    <3>1. <<s, s>> \notin follows
      BY <1>1 DEF ChainInv, ChainTypes
    <3>2. ASSUME NEW a \in sessions', NEW b \in sessions', NEW c \in sessions',
                 <<a, b>> \in follows', <<a, c>> \in follows'
          PROVE  b = c
      BY <1>1, <1>2, <2>1, <2>2, <2>5, <3>1, <3>2 DEF ChainInv, Line
    <3>3. ASSUME NEW a \in sessions', NEW b \in sessions', NEW c \in sessions',
                 <<b, a>> \in follows', <<c, a>> \in follows'
          PROVE  b = c
      BY <1>1, <1>2, <2>1, <2>2, <2>5, <3>1, <3>3 DEF ChainInv, Line
    <3> QED
      BY <3>2, <3>3 DEF Line
  <2>7. Tails' = {s}
    <3>1. <<s, s>> \notin follows
      BY <1>1 DEF ChainInv, ChainTypes
    <3>2. ASSUME NEW u \in sessions PROVE \E v \in sessions' : <<v, u>> \in follows'
      <4>1. CASE u = t
        BY <1>2, <2>2, <4>1
      <4>2. CASE u # t
        BY <1>2, <2>1, <2>2, <4>2 DEF Tails
      <4> QED
        BY <4>1, <4>2
    <3>3. \A v \in sessions' : <<v, s>> \notin follows'
      BY <1>2, <2>1, <2>2, <2>5, <3>1
    <3> QED
      BY <1>2, <3>2, <3>3 DEF Tails
  <2>8. OneEnd'
    BY <1>2, <1>5, <1>6, <1>8, <2>3, <2>7 DEF ChainInv, OneEnd
  <2> QED
    BY <1>4, <2>4, <2>6, <2>8 DEF ChainInv
<1> QED
  BY <1>7, <1>8

LEMMA ChainEveryStep == IInv /\ ChainInv /\ [Next]_vars => ChainInv'
<1> SUFFICES ASSUME IInv, ChainInv, [Next]_vars PROVE ChainInv'
  OBVIOUS
<1> USE DEF ChainInv, ChainTypes, Places, graph, locks, store, bounds
<1>1. ASSUME NEW p \in Pushes, Push(p) PROVE ChainInv'
  <2>1. CASE lockMember(p)
    BY <2>1, LockKeepsChain
  <2>2. CASE commitSession(p)
    BY <2>2, CommitExtendsChain, IntakeAssumption
  <2>3. CASE ensureSession(p)
    BY <2>3, ChainKept DEF ensureSession
  <2>4. CASE SessionKnown(p)
    BY <2>4, ChainKept DEF SessionKnown, Resolve
  <2>5. CASE findEpisodeByContentHash(p) \/ lockSession(p)
    BY <2>5, ChainKept DEF findEpisodeByContentHash, lockSession, Took
  <2>6. CASE commitEpisode(p) \/ archiveAndQueue(p) \/ attachVectors(p)
    BY <2>6, ChainKept DEF commitEpisode, archiveAndQueue, attachVectors, Took
  <2>7. CASE GraphFails(p)
    <3>1. UNCHANGED <<sessions, follows>> /\ at' \in [Pushes -> Places]
      BY <2>7 DEF GraphFails
    <3>2. prior' \in [Pushes -> Sessions \cup {NoOne}]
      BY <2>7 DEF GraphFails, Rollback
    <3>3. \A q \in Pushes : at'[q] = "chaining" => at[q] = "chaining" /\ prior'[q] = prior[q]
      BY <2>7 DEF GraphFails, Rollback
    <3> QED
      BY <3>1, <3>2, <3>3, ChainKept
  <2> QED
    BY <1>1, <2>1, <2>2, <2>3, <2>4, <2>5, <2>6, <2>7 DEF Push
<1>2. CASE \E e \in Stored : Enrich(e) \/ Drop(e) \/ Forget(e)
  BY <1>2, ChainKept DEF Enrich, Drop, Forget
<1>3. CASE \E s \in Sessions : forgetSession(s)
  BY <1>3, ChainKept DEF forgetSession
<1>4. CASE \E k \in Passes : Reconcile(k)
  BY <1>4, ChainKept DEF Reconcile, listStoredEpisodes, appliedEpisodeIds, queuedEpisodeIds, reEnqueue
<1>5. CASE Service
  BY <1>5, ChainKept DEF Service, listStoredEpisodes, reconcileInService
<1>6. CASE Crash
  BY <1>6, ChainKept DEF Crash
<1>7. CASE UNCHANGED vars
  BY <1>7, ChainKept DEF vars
<1> QED
  BY <1>1, <1>2, <1>3, <1>4, <1>5, <1>6, <1>7 DEF Next

LEMMA AtMostOne ==
    ASSUME NEW S, IsFiniteSet(S), \A x, y \in S : x = y
    PROVE  Cardinality(S) <= 1
<1>1. CASE S = {}
  BY <1>1, FS_EmptySet
<1>2. ASSUME NEW x \in S PROVE Cardinality(S) <= 1
  <2>1. S = {x}
    OBVIOUS
  <2> QED
    BY <2>1, FS_Singleton
<1> QED
  BY <1>1, <1>2

LEMMA ChainInvIsALine == ChainInv => ChainIsALine
<1> SUFFICES ASSUME ChainInv PROVE ChainIsALine
  OBVIOUS
<1>1. ASSUME NEW s \in sessions
      PROVE  /\ Cardinality({t \in sessions : <<s, t>> \in follows}) <= 1
             /\ Cardinality({t \in sessions : <<t, s>> \in follows}) <= 1
  <2> DEFINE After == {t \in sessions : <<s, t>> \in follows}
             Before == {t \in sessions : <<t, s>> \in follows}
  <2>1. IsFiniteSet(After) /\ IsFiniteSet(Before)
    BY FS_Subset DEF ChainInv, ChainTypes
  <2>2. (\A x, y \in After : x = y) /\ (\A x, y \in Before : x = y)
    BY DEF ChainInv, Line
  <2> HIDE DEF After, Before
  <2>3. Cardinality(After) <= 1 /\ Cardinality(Before) <= 1
    BY <2>1, <2>2, AtMostOne
  <2> QED
    BY <2>3 DEF After, Before
<1>2. ASSUME sessions # {} PROVE Cardinality(Tails) = 1
  BY <1>2, FS_Singleton DEF ChainInv, OneEnd
<1> QED
  BY <1>1, <1>2 DEF ChainIsALine, ChainInv, OneEnd

(* ensureGraphSession: the Member's lock makes the end of the chain a      *)
(* session reads still the end when its edge is written, so the sessions   *)
(* stay one line whatever is created, retried or cut off at once.          *)
THEOREM SessionsChain == Spec => []ChainIsALine
<1>1. Spec => []ChainInv
  BY Always, ChainInitially, ChainEveryStep, PTL DEF Spec
<1> QED
  BY <1>1, ChainInvIsALine, PTL

-----------------------------------------------------------------------------
(* The queue rows while only the service enqueues.                         *)

LEMMA OneRowKept ==
    ASSUME Passes = {}, IInv, OneRowPerEpisode, [Next]_vars
    PROVE  OneRowPerEpisode'
<1> USE DEF graph, store, locks, bounds
<1>0. /\ jobs \in Seq(Nat) /\ DOMAIN jobs = Stored /\ \A e \in Stored : jobs[e] \in Nat
  BY DEF IInv, Types, Stored
<1>1. CASE UNCHANGED <<jobs, episodes>>
  BY <1>1 DEF OneRowPerEpisode, Stored
<1>2. ASSUME NEW p \in Pushes, commitEpisode(p) PROVE OneRowPerEpisode'
  <2>1. episodes' = Append(episodes, Experience(p)) /\ jobs' = Append(jobs, 0)
    BY <1>2 DEF commitEpisode
  <2>2. \A e \in Stored' : jobs'[e] = 0 \/ (e \in Stored /\ jobs'[e] = jobs[e])
    BY <1>0, <2>1 DEF IInv, Types, Stored
  <2> QED
    BY <2>2 DEF OneRowPerEpisode
<1>3. ASSUME NEW p \in Pushes, archiveAndQueue(p) PROVE OneRowPerEpisode'
  BY <1>0, <1>3 DEF archiveAndQueue, Ensured, OneRowPerEpisode, Stored, IInv, Resolved
<1>4. ASSUME NEW e \in Stored, Enrich(e) \/ Drop(e) PROVE OneRowPerEpisode'
  BY <1>0, <1>4 DEF Enrich, Drop, Queued, OneRowPerEpisode, Stored
<1>5. CASE reconcileInService
  <2> DEFINE orphaned == Orphaned(pass[Recurring].seen, applied \cup Queued)
             batch == {e \in orphaned : Cardinality({f \in orphaned : f < e}) < Batch}
  <2>1. /\ jobs' = [e \in Stored |-> IF e \in batch THEN jobs[e] + 1 ELSE jobs[e]]
        /\ episodes' = episodes
    BY <1>5 DEF reconcileInService
  <2>2. \A e \in batch : e \in Stored => jobs[e] = 0
    BY <1>0 DEF Orphaned, Queued
  <2> HIDE DEF batch
  <2> QED
    BY <1>0, <2>1, <2>2 DEF OneRowPerEpisode, Stored
<1>6. ASSUME NEW p \in Pushes, Push(p) PROVE OneRowPerEpisode'
  <2>1. CASE \/ ensureSession(p) \/ SessionKnown(p) \/ lockMember(p) \/ commitSession(p)
             \/ findEpisodeByContentHash(p) \/ lockSession(p) \/ GraphFails(p) \/ attachVectors(p)
    BY <1>1, <2>1 DEF ensureSession, SessionKnown, lockMember, commitSession,
                      findEpisodeByContentHash, lockSession, GraphFails, attachVectors
  <2> QED
    BY <1>2, <1>3, <1>6, <2>1 DEF Push
<1>7. CASE Crash \/ (\E s \in Sessions : forgetSession(s)) \/ (\E e \in Stored : Forget(e))
  BY <1>1, <1>7 DEF Crash, forgetSession, Forget
<1>8. CASE listStoredEpisodes(Recurring) \/ UNCHANGED vars
  BY <1>1, <1>8 DEF listStoredEpisodes, vars
<1> QED
  BY <1>4, <1>5, <1>6, <1>7, <1>8 DEF Next, Service

(* ensureIntegrateJob and the recurring reconcile: neither enqueues over a *)
(* row the other just wrote, so while no command line reconciles an        *)
(* episode has one row at most.                                            *)
THEOREM RowsDoNotDouble == ASSUME Passes = {} PROVE Spec => []OneRowPerEpisode
<1>1. Init => OneRowPerEpisode
  BY DEF Init, OneRowPerEpisode, Stored
<1>2. IInv /\ OneRowPerEpisode /\ [Next]_vars => OneRowPerEpisode'
  BY OneRowKept
<1> QED
  BY Always, <1>1, <1>2, PTL DEF Spec
=============================================================================
