------------------------- MODULE ReflectionQueueProofs -------------------------
(***************************************************************************)
(* ReflectionQueue for any number of jobs, sessions, processes, attempts,  *)
(* filters and crashes.                                                    *)
(***************************************************************************)
EXTENDS ReflectionQueue, FiniteSetTheorems, WellFoundedInduction, TLAPS

(* Max of a finite set of naturals is its greatest member: the sets of      *)
(* members above a member are ordered by inclusion, and the least is empty. *)
LEMMA MaxIsGreatest ==
    ASSUME NEW S \in SUBSET Nat, S # {}, IsFiniteSet(S)
    PROVE  Max(S) \in S /\ \A x \in S : x <= Max(S)
<1> DEFINE Above(x) == {y \in S : y > x}
           Cuts == {A \in SUBSET S : \E x \in S : A = Above(x)}
<1>1. PICK A \in Cuts : \A B \in Cuts : ~(<<B, A>> \in StrictSubsetOrdering(S))
  <2>1. Cuts \subseteq FiniteSubsetsOf(S)
    BY FS_FiniteSubsetsOfFinite
  <2>2. Cuts # {}
    <3>1. PICK x \in S : TRUE
      OBVIOUS
    <3>2. Above(x) \in Cuts
      OBVIOUS
    <3> QED BY <3>2
  <2> HIDE DEF Cuts
  <2> QED BY <2>1, <2>2, FS_StrictSubsetOrderingWellFounded, WFMin
<1>2. PICK x \in S : A = Above(x)
  OBVIOUS
<1>3. A = {}
  <2> SUFFICES ASSUME NEW y \in A PROVE FALSE
    OBVIOUS
  <2>1. y \in S /\ y > x
    BY <1>2
  <2>2. Above(y) \in Cuts
    BY <2>1
  <2>3. Above(y) \subseteq A /\ y \notin Above(y)
    <3>1. ~(y > y) /\ \A z \in S : z > y => z > x
      BY <2>1
    <3>2. \A z \in Above(y) : z \in Above(x)
      BY <3>1
    <3> QED BY <1>2, <3>1, <3>2
  <2>4. <<Above(y), A>> \in StrictSubsetOrdering(S)
    BY <2>2, <2>3 DEF StrictSubsetOrdering
  <2> QED BY <1>1, <2>2, <2>4
<1>4. \A y \in S : x >= y
  BY <1>2, <1>3
<1> QED BY <1>4 DEF Max

(* The high-water mark of a column over some rows, zero when there are none. *)
LEMMA MaxOfColumn ==
    ASSUME NEW S, IsFiniteSet(S), NEW f \in [S -> Nat]
    PROVE  /\ Max({f[j] : j \in S} \cup {0}) \in Nat
           /\ \A j \in S : f[j] <= Max({f[k] : k \in S} \cup {0})
<1> DEFINE T == {f[j] : j \in S}
<1>1. IsFiniteSet(T)
  <2>1. f \in Surjection(S, T)
    BY DEF Surjection
  <2> HIDE DEF T
  <2> QED BY <2>1, FS_Surjection
<1>2. IsFiniteSet(T \cup {0})
  <2> HIDE DEF T
  <2> QED BY <1>1, FS_AddElement
<1>3. T \cup {0} \in SUBSET Nat /\ T \cup {0} # {}
  OBVIOUS
<1>4. Max(T \cup {0}) \in T \cup {0} /\ \A x \in T \cup {0} : x <= Max(T \cup {0})
  <2> HIDE DEF T
  <2> QED BY <1>2, <1>3, MaxIsGreatest
<1> QED BY <1>3, <1>4

-----------------------------------------------------------------------------
(* Types, and a table that stays finite.                                    *)
Solvent(r) == r.claimedBy # NoOne => r.attempts < MaxAttempts

\* A claimed row has an attempt left, or release could count past the maximum.
TableOK == /\ minted \subseteq Jobs /\ Queued \subseteq minted /\ IsFiniteSet(Queued)
           /\ \A j \in Queued : rows[j] \in Row /\ Solvent(rows[j])

OperatorOK == \/ operator = NoCommand
              \/ operator \in [does : {"drop"}, filter : Filters, ids : SUBSET Jobs]
              \/ operator \in [does : {"promote"}, ids : SUBSET Jobs]

SweepOK == /\ seen \subseteq Jobs /\ todo \subseteq Jobs /\ unmarked \in Jobs \cup {NoOne}
           /\ crashes \in 0..MaxCrashes

HistoryOK == overtakers \in [Jobs -> SUBSET Jobs] /\ moved \subseteq Jobs /\ relanes \in [Jobs -> Nat]

LEMMA TypeParts == TableOK /\ OperatorOK /\ SweepOK /\ HistoryOK => TypeOK
BY DEF TypeOK, TableOK, OperatorOK, SweepOK, HistoryOK, Queued

(* A turn past the high-water mark is a turn nobody has.                    *)
LEMMA NextTurn ==
    ASSUME TableOK, NEW lane, NEW s
    PROVE  /\ HighWater(lane, s) \in Nat
           /\ \A j \in Queued : rows[j].lane = lane /\ SessionOf[j] = s
                                    => rows[j].laneSeq <= HighWater(lane, s)
<1> DEFINE G == Group(lane, s)
           f == [j \in G |-> rows[j].laneSeq]
<1>1. G \subseteq Queued /\ \A j \in G : rows[j].laneSeq \in Nat
  BY DEF Group, TableOK, Row
<1>2. IsFiniteSet(G)
  <2> HIDE DEF G
  <2> QED BY <1>1, FS_Subset DEF TableOK
<1>3. f \in [G -> Nat] /\ \A j \in G : f[j] = rows[j].laneSeq
  BY <1>1
<1>4. {f[j] : j \in G} = {rows[j].laneSeq : j \in G}
  BY <1>3
<1>5. /\ Max({f[j] : j \in G} \cup {0}) \in Nat
      /\ \A j \in G : f[j] <= Max({f[k] : k \in G} \cup {0})
  <2> HIDE DEF G, f
  <2> QED BY <1>2, <1>3, MaxOfColumn
<1> QED BY <1>3, <1>4, <1>5 DEF HighWater, Group

LEMMA NextRowid ==
    ASSUME TableOK
    PROVE  Max({rows[k].rowid : k \in Queued} \cup {0}) \in Nat
<1> DEFINE f == [j \in Queued |-> rows[j].rowid]
<1>1. f \in [Queued -> Nat] /\ {f[j] : j \in Queued} = {rows[j].rowid : j \in Queued}
  BY DEF TableOK, Row
<1> HIDE DEF f
<1> QED BY <1>1, MaxOfColumn DEF TableOK

(* promoteJobs: a row moves to a turn of its own, later for a later row.    *)
Moving == {j \in operator.ids : Unclaimed(j) /\ rows[j].lane # "interactive"}
Ahead(j) == {k \in Moving : SessionOf[k] = SessionOf[j] /\ rows[k].laneSeq <= rows[j].laneSeq}
Turn(j) == HighWater("interactive", SessionOf[j]) + Cardinality(Ahead(j))

LEMMA PromotedTurns ==
    ASSUME TableOK
    PROVE  /\ \A j \in Moving : Cardinality(Ahead(j)) \in Nat \ {0}
           /\ \A j, k \in Moving :
                  SessionOf[j] = SessionOf[k] /\ rows[j].laneSeq < rows[k].laneSeq
                      => Cardinality(Ahead(j)) < Cardinality(Ahead(k))
<1>1. Moving \subseteq Queued /\ \A j \in Moving : rows[j].laneSeq \in Nat
  BY DEF Moving, Unclaimed, TableOK, Row
<1>2. ASSUME NEW j PROVE IsFiniteSet(Ahead(j))
  <2>1. Ahead(j) \subseteq Queued
    BY <1>1 DEF Ahead
  <2> QED BY <2>1, FS_Subset DEF TableOK
<1>3. ASSUME NEW j \in Moving PROVE Cardinality(Ahead(j)) \in Nat \ {0}
  <2>1. j \in Ahead(j)
    BY <1>1 DEF Ahead
  <2> QED BY <1>2, <2>1, FS_EmptySet, FS_CardinalityType
<1>4. ASSUME NEW j \in Moving, NEW k \in Moving,
             SessionOf[j] = SessionOf[k], rows[j].laneSeq < rows[k].laneSeq
      PROVE  Cardinality(Ahead(j)) < Cardinality(Ahead(k))
  <2>1. \A i \in Moving : rows[i].laneSeq <= rows[j].laneSeq => rows[i].laneSeq <= rows[k].laneSeq
    BY <1>1, <1>4
  <2>2. Ahead(j) \subseteq Ahead(k)
    BY <1>4, <2>1 DEF Ahead
  <2>3. k \in Ahead(k) /\ k \notin Ahead(j)
    BY <1>1, <1>4 DEF Ahead
  <2>4. /\ Cardinality(Ahead(j)) <= Cardinality(Ahead(k))
        /\ Cardinality(Ahead(j)) # Cardinality(Ahead(k))
    BY <1>2, <2>2, <2>3, FS_Subset
  <2> QED BY <1>3, <2>4
<1> QED BY <1>3, <1>4

LEMMA PromoteEffect ==
    ASSUME promoteJobs
    PROVE  rows' = [j \in Queued |-> IF j \in Moving
                        THEN [rows[j] EXCEPT !.lane = "interactive", !.laneSeq = Turn(j)]
                        ELSE rows[j]]
BY DEF promoteJobs, Moving, Ahead, Turn

-----------------------------------------------------------------------------
(* A statement on one row disturbs no other.                                *)
LEMMA OneRow ==
    ASSUME TableOK, NEW j \in Queued, NEW r \in Row, Solvent(r),
           rows' = [rows EXCEPT ![j] = r], UNCHANGED minted
    PROVE  TableOK'
<1>1. Queued' = Queued /\ \A k \in Queued : rows'[k] = IF k = j THEN r ELSE rows[k]
  BY DEF Queued
<1> QED BY <1>1 DEF TableOK, Solvent

(* A deletion leaves the other rows alone.                                  *)
LEMMA Deletion == ASSUME TableOK, NEW S, Delete(S) PROVE TableOK'
<1>1. Queued' = Queued \ S /\ \A k \in Queued' : rows'[k] = rows[k]
  BY DEF Delete, Queued
<1>2. IsFiniteSet(Queued')
  BY <1>1, FS_Subset DEF TableOK
<1> QED BY <1>1, <1>2 DEF TableOK, Solvent, Delete

LEMMA TableStep == TableOK /\ [Next]_vars => TableOK'
<1> SUFFICES ASSUME TableOK, [Next]_vars PROVE TableOK'
  OBVIOUS
<1> USE QueueAssumption
<1>0. ASSUME NEW j \in Queued
      PROVE  /\ rows[j] \in Row /\ Solvent(rows[j])
             /\ rows[j].attempts \in 0..MaxAttempts /\ rows[j].claimedBy \in Claimants \cup {NoOne}
             /\ rows[j].stale \in BOOLEAN /\ rows[j].lane \in Lanes /\ rows[j].laneSeq \in Nat \ {0}
  BY DEF TableOK, Row
<1>1. ASSUME NEW j \in Jobs, NEW lane \in Lanes, enqueueReflectionJob(j, lane) PROVE TableOK'
  <2>1. HighWater(lane, SessionOf[j]) + 1 \in Nat \ {0}
    BY NextTurn
  <2>2. Max({rows[k].rowid : k \in Queued} \cup {0}) + 1 \in Nat \ {0}
    BY NextRowid
  <2>3. Queued' = Queued \cup {j} /\ minted' = minted \cup {j} /\ j \notin Queued
    BY <1>1 DEF enqueueReflectionJob, Queued, TableOK
  <2>4. rows'[j] \in Row /\ Solvent(rows'[j]) /\ \A k \in Queued : rows'[k] = rows[k]
    BY <1>1, <2>1, <2>2, <2>3 DEF enqueueReflectionJob, Row, Solvent
  <2>5. IsFiniteSet(Queued')
    BY <2>3, FS_AddElement DEF TableOK
  <2> QED BY <2>3, <2>4, <2>5 DEF TableOK, Solvent
<1>2. ASSUME NEW c \in Claimants, claimNext(c) PROVE TableOK'
  <2>1. PICK j \in Queued : First(j) /\ rows' = [rows EXCEPT ![j].claimedBy = c, ![j].stale = FALSE]
    BY <1>2 DEF claimNext
  <2> DEFINE r == [rows[j] EXCEPT !.claimedBy = c, !.stale = FALSE]
  <2>2. r \in Row
    BY <1>0 DEF Row
  <2>3. Solvent(r)
    BY <1>0, <2>1 DEF Solvent, First, Claimable, Row
  <2>4. rows' = [rows EXCEPT ![j] = r]
    BY <2>1 DEF Queued
  <2> HIDE DEF r
  <2> QED BY <1>2, <2>2, <2>3, <2>4, OneRow DEF claimNext
<1>3. ASSUME NEW c \in Claimants, NEW j \in Jobs, release(c, j) PROVE TableOK'
  <2>1. j \in Queued /\ rows[j].claimedBy # NoOne
    BY <1>3 DEF release, Owns
  <2>2. rows[j].attempts + 1 \in 0..MaxAttempts
    BY <1>0, <2>1 DEF Solvent
  <2> DEFINE r == [rows[j] EXCEPT !.claimedBy = NoOne, !.stale = FALSE,
                                  !.attempts = rows[j].attempts + 1]
  <2>3. r \in Row
    BY <1>0, <2>1, <2>2 DEF Row
  <2>4. Solvent(r)
    BY <1>0, <2>1 DEF Solvent, Row
  <2>5. rows' = [rows EXCEPT ![j] = r]
    BY <1>3, <2>1 DEF release, Queued
  <2> HIDE DEF r
  <2> QED BY <1>3, <2>1, <2>3, <2>4, <2>5, OneRow DEF release
<1>4. ASSUME NEW c \in Claimants, NEW j \in Jobs, complete(c, j) PROVE TableOK'
  BY <1>4, Deletion DEF complete
<1>5. ASSUME NEW except \in Claimants \cup {NoOne}, reclaimStaleReflectionJobs(except)
      PROVE  TableOK'
  <2>1. Queued' = Queued /\ UNCHANGED minted
    BY <1>5 DEF reclaimStaleReflectionJobs, Queued
  <2>2. ASSUME NEW j \in Queued PROVE rows'[j] \in Row /\ Solvent(rows'[j])
    <3> DEFINE r == [rows[j] EXCEPT !.claimedBy = NoOne, !.stale = FALSE]
    <3>1. rows'[j] \in {r, rows[j]}
      BY <1>5 DEF reclaimStaleReflectionJobs
    <3>2. r \in Row /\ Solvent(r)
      BY <1>0 DEF Solvent, Row
    <3> HIDE DEF r
    <3> QED BY <1>0, <3>1, <3>2
  <2> QED BY <2>1, <2>2 DEF TableOK, Solvent
<1>6. ASSUME NEW j \in Jobs, Expire(j) PROVE TableOK'
  <2> DEFINE r == [rows[j] EXCEPT !.stale = TRUE]
  <2>1. j \in Queued /\ rows' = [rows EXCEPT ![j] = r] /\ UNCHANGED minted
    BY <1>6 DEF Expire, Queued
  <2>2. r \in Row /\ Solvent(r)
    BY <1>0, <2>1 DEF Solvent, Row
  <2> HIDE DEF r
  <2> QED BY <2>1, <2>2, OneRow
<1>7. CASE dropUnclaimedJobs
  BY <1>7, Deletion DEF dropUnclaimedJobs
<1>8. CASE promoteJobs
  <2>1. Queued' = Queued /\ UNCHANGED minted
    BY <1>8, PromoteEffect DEF promoteJobs, Queued
  <2>2. ASSUME NEW j \in Queued PROVE rows'[j] \in Row /\ Solvent(rows'[j])
    <3>1. CASE j \in Moving
      <4>1. Turn(j) \in Nat \ {0}
        <5>1. HighWater("interactive", SessionOf[j]) \in Nat /\ Cardinality(Ahead(j)) \in Nat \ {0}
          BY <3>1, NextTurn, PromotedTurns
        <5> QED BY <5>1 DEF Turn
      <4> DEFINE r == [rows[j] EXCEPT !.lane = "interactive", !.laneSeq = Turn(j)]
      <4>2. r \in Row /\ Solvent(r)
        BY <1>0, <4>1 DEF Solvent, Row, Lanes
      <4>3. rows'[j] = r
        BY <1>8, <3>1, PromoteEffect
      <4> HIDE DEF r
      <4> QED BY <4>2, <4>3
    <3>2. CASE j \notin Moving
      BY <1>0, <1>8, <3>2, PromoteEffect
    <3> QED BY <3>1, <3>2
  <2> QED BY <2>1, <2>2 DEF TableOK, Solvent
<1>9. ASSUME NEW j \in Jobs, relaneDeadLetterJob(j) PROVE TableOK'
  <2>1. CASE Unclaimed(j)
    <3> DEFINE r == [rows[j] EXCEPT !.lane = "bulk", !.attempts = 0,
                                    !.laneSeq = HighWater("bulk", SessionOf[j]) + 1]
    <3>1. j \in Queued /\ rows[j].claimedBy = NoOne
      BY <2>1 DEF Unclaimed
    <3>2. r \in Row
      <4>1. HighWater("bulk", SessionOf[j]) + 1 \in Nat \ {0}
        BY NextTurn
      <4> DEFINE q == HighWater("bulk", SessionOf[j]) + 1
      <4>2. q \in Nat \ {0}
        BY <4>1
      <4> HIDE DEF q
      <4>3. [rows[j] EXCEPT !.lane = "bulk", !.attempts = 0, !.laneSeq = q] \in Row
        <5>1. 0 \in 0..MaxAttempts /\ "bulk" \in Lanes
          BY DEF Lanes
        <5>2. rows[j] \in Row
          BY <1>0, <3>1
        <5> QED BY <4>2, <5>1, <5>2 DEF Row
      <4> QED BY <4>3 DEF q
    <3>3. Solvent(r)
      BY <1>0, <3>1 DEF Solvent, Row
    <3>4. rows' = [rows EXCEPT ![j] = r] /\ UNCHANGED minted
      BY <1>9, <2>1, <3>1 DEF relaneDeadLetterJob, Queued
    <3> HIDE DEF r
    <3> QED BY <3>1, <3>2, <3>3, <3>4, OneRow
  <2>2. CASE ~Unclaimed(j)
    BY <1>9, <2>2 DEF relaneDeadLetterJob, TableOK, Queued, Solvent
  <2> QED BY <2>1, <2>2
<1>10. CASE UNCHANGED queue
  BY <1>10 DEF queue, TableOK, Queued, Solvent
<1>11. CASE \/ \E f \in Filters : runDrop(f) \/ runPromote(f)
            \/ Declined \/ listExhaustedJobs \/ markLedgerApplied \/ CrashSweep
            \/ UNCHANGED vars
  BY <1>10, <1>11 DEF runDrop, runPromote, Declined, listExhaustedJobs, markLedgerApplied,
                      CrashSweep, vars
<1> QED BY <1>1, <1>2, <1>3, <1>4, <1>5, <1>6, <1>7, <1>8, <1>9, <1>11 DEF Next, DeadLetter

LEMMA OperatorStep == TableOK /\ OperatorOK /\ [Next]_vars => OperatorOK'
<1> SUFFICES ASSUME TableOK, OperatorOK, [Next]_vars PROVE OperatorOK'
  OBVIOUS
<1>1. ASSUME NEW f \in Filters, runDrop(f) \/ runPromote(f) PROVE OperatorOK'
  <2>1. Matching(f) \subseteq Jobs
    BY DEF Matching, TableOK
  <2> QED BY <1>1, <2>1 DEF runDrop, runPromote, OperatorOK
<1>2. CASE UNCHANGED operator \/ operator' = NoCommand
  BY <1>2 DEF OperatorOK, NoCommand
<1> QED BY <1>1, <1>2
        DEF Next, enqueueReflectionJob, claimNext, release, complete, reclaimStaleReflectionJobs,
            Expire, dropUnclaimedJobs, Declined, promoteJobs, DeadLetter, listExhaustedJobs,
            relaneDeadLetterJob, markLedgerApplied, CrashSweep, vars

LEMMA SweepStep == TableOK /\ SweepOK /\ [Next]_vars => SweepOK'
<1> SUFFICES ASSUME TableOK, SweepOK, [Next]_vars PROVE SweepOK'
  OBVIOUS
<1> USE QueueAssumption DEF SweepOK
<1>1. CASE listExhaustedJobs
  BY <1>1 DEF listExhaustedJobs, Unseen, TableOK
<1>2. ASSUME NEW j \in Jobs, relaneDeadLetterJob(j) PROVE SweepOK'
  BY <1>2 DEF relaneDeadLetterJob
<1>3. CASE markLedgerApplied
  BY <1>3 DEF markLedgerApplied
<1>4. CASE CrashSweep
  BY <1>4 DEF CrashSweep
<1>5. CASE UNCHANGED <<seen, sweep>>
  BY <1>5 DEF sweep
<1> QED BY <1>1, <1>2, <1>3, <1>4, <1>5
        DEF Next, DeadLetter, enqueueReflectionJob, claimNext, release, complete,
            reclaimStaleReflectionJobs, Expire, runDrop, runPromote, dropUnclaimedJobs, Declined,
            promoteJobs, vars

LEMMA HistoryStep == TableOK /\ HistoryOK /\ [Next]_vars => HistoryOK'
<1> SUFFICES ASSUME TableOK, HistoryOK, [Next]_vars PROVE HistoryOK'
  OBVIOUS
<1> USE DEF HistoryOK
<1>1. ASSUME NEW c \in Claimants, claimNext(c) PROVE HistoryOK'
  BY <1>1 DEF claimNext, TableOK
<1>2. CASE promoteJobs
  BY <1>2 DEF promoteJobs, Unclaimed, TableOK
<1>3. ASSUME NEW j \in Jobs, relaneDeadLetterJob(j) PROVE HistoryOK'
  BY <1>3 DEF relaneDeadLetterJob
<1>4. CASE UNCHANGED history
  BY <1>4 DEF history
<1> QED BY <1>1, <1>2, <1>3, <1>4
        DEF Next, DeadLetter, enqueueReflectionJob, release, complete,
            reclaimStaleReflectionJobs, Expire, runDrop, runPromote, dropUnclaimedJobs, Declined,
            listExhaustedJobs, markLedgerApplied, CrashSweep, vars

LEMMA PartsInitially == Init => TableOK /\ OperatorOK /\ SweepOK /\ HistoryOK
BY QueueAssumption, FS_EmptySet DEF Init, TableOK, Queued, OperatorOK, SweepOK, HistoryOK

(* The table, the sweep and the operator keep their types; that no release  *)
(* counts past the maximum needs every claimed row to have an attempt left. *)
THEOREM QueueTypes == Spec => []TypeOK
<1>1. TableOK /\ OperatorOK /\ SweepOK /\ HistoryOK /\ [Next]_vars
          => (TableOK /\ OperatorOK /\ SweepOK /\ HistoryOK)'
  BY TableStep, OperatorStep, SweepStep, HistoryStep
<1> QED BY <1>1, PartsInitially, TypeParts, PTL DEF Spec

-----------------------------------------------------------------------------
(* No statement changes a row's lane or turn but promoteJobs and            *)
(* relaneDeadLetterJob.                                                     *)
LEMMA TurnsKept ==
    ASSUME LaneTurnsDistinct, Queued' \subseteq Queued,
           \A j \in Queued' : /\ rows'[j].lane = rows[j].lane
                              /\ rows'[j].laneSeq = rows[j].laneSeq
    PROVE  LaneTurnsDistinct'
BY DEF LaneTurnsDistinct

(* A row that takes the turn past the high-water mark of its group.         *)
LEMMA TurnTaken ==
    ASSUME TableOK, LaneTurnsDistinct, NEW j, NEW lane,
           Queued' = Queued \cup {j},
           rows'[j].lane = lane, rows'[j].laneSeq = HighWater(lane, SessionOf[j]) + 1,
           \A k \in Queued \ {j} : rows'[k] = rows[k]
    PROVE  LaneTurnsDistinct'
<1>1. ASSUME NEW k \in Queued \ {j}, rows[k].lane = lane, SessionOf[k] = SessionOf[j]
      PROVE  rows'[k].laneSeq # rows'[j].laneSeq
  <2>1. rows[k].laneSeq <= HighWater(lane, SessionOf[j]) /\ HighWater(lane, SessionOf[j]) \in Nat
    BY <1>1, NextTurn
  <2>2. rows[k].laneSeq \in Nat
    BY DEF TableOK, Row
  <2> QED BY <2>1, <2>2
<1> QED BY <1>1 DEF LaneTurnsDistinct

LEMMA TurnsStep == TableOK /\ LaneTurnsDistinct /\ [Next]_vars => LaneTurnsDistinct'
<1> SUFFICES ASSUME TableOK, LaneTurnsDistinct, [Next]_vars PROVE LaneTurnsDistinct'
  OBVIOUS
<1>0. ASSUME NEW j \in Queued PROVE rows[j] \in Row
  BY DEF TableOK
<1>1. ASSUME NEW j \in Jobs, NEW lane \in Lanes, enqueueReflectionJob(j, lane)
      PROVE  LaneTurnsDistinct'
  <2>1. j \notin Queued /\ Queued' = Queued \cup {j} /\ \A k \in Queued : rows'[k] = rows[k]
    BY <1>1 DEF enqueueReflectionJob, Queued, TableOK
  <2>2. rows'[j].lane = lane /\ rows'[j].laneSeq = HighWater(lane, SessionOf[j]) + 1
    BY <1>1 DEF enqueueReflectionJob
  <2> QED BY <2>1, <2>2, TurnTaken
<1>2. ASSUME NEW c \in Claimants, claimNext(c) PROVE LaneTurnsDistinct'
  BY <1>0, <1>2, TurnsKept DEF claimNext, Queued, Row
<1>3. ASSUME NEW c \in Claimants, NEW j \in Jobs, release(c, j) PROVE LaneTurnsDistinct'
  BY <1>0, <1>3, TurnsKept DEF release, Queued, Row
<1>4. ASSUME NEW S, Delete(S) PROVE LaneTurnsDistinct'
  BY <1>4, TurnsKept DEF Delete, Queued
<1>5. ASSUME NEW except \in Claimants \cup {NoOne}, reclaimStaleReflectionJobs(except)
      PROVE  LaneTurnsDistinct'
  BY <1>0, <1>5, TurnsKept DEF reclaimStaleReflectionJobs, Queued, Row
<1>6. ASSUME NEW j \in Jobs, Expire(j) PROVE LaneTurnsDistinct'
  BY <1>0, <1>6, TurnsKept DEF Expire, Queued, Row
<1>7. CASE promoteJobs
  <2>1. Queued' = Queued
    BY <1>7, PromoteEffect DEF Queued
  <2>2. ASSUME NEW j \in Queued
        PROVE  /\ rows[j].lane \in Lanes /\ rows[j].laneSeq \in Nat
               /\ HighWater("interactive", SessionOf[j]) \in Nat
    BY <1>0, NextTurn DEF Row
  <2>3. ASSUME NEW j \in Moving
        PROVE  /\ j \in Queued /\ rows[j].lane = "bulk"
               /\ rows'[j].lane = "interactive" /\ rows'[j].laneSeq = Turn(j)
               /\ Cardinality(Ahead(j)) \in Nat \ {0}
    <3>1. j \in Queued /\ rows[j].lane # "interactive"
      BY DEF Moving, Unclaimed
    <3>2. Cardinality(Ahead(j)) \in Nat \ {0}
      BY PromotedTurns
    <3>3. rows'[j] = [rows[j] EXCEPT !.lane = "interactive", !.laneSeq = Turn(j)]
      BY <1>7, <3>1, PromoteEffect
    <3> QED BY <1>0, <2>2, <3>1, <3>2, <3>3 DEF Lanes, Row
  <2>4. ASSUME NEW j \in Queued \ Moving PROVE rows'[j] = rows[j]
    BY <1>7, PromoteEffect
  <2>5. ASSUME NEW j \in Moving, NEW k \in Moving, j # k, SessionOf[j] = SessionOf[k]
        PROVE  Turn(j) # Turn(k)
    <3>1. rows[j].laneSeq # rows[k].laneSeq
      BY <2>3, <2>5 DEF LaneTurnsDistinct
    <3>2. Cardinality(Ahead(j)) # Cardinality(Ahead(k))
      <4>1. rows[j].laneSeq < rows[k].laneSeq \/ rows[k].laneSeq < rows[j].laneSeq
        BY <2>2, <2>3, <3>1
      <4>2. /\ rows[j].laneSeq < rows[k].laneSeq => Cardinality(Ahead(j)) < Cardinality(Ahead(k))
            /\ rows[k].laneSeq < rows[j].laneSeq => Cardinality(Ahead(k)) < Cardinality(Ahead(j))
        BY <2>5, PromotedTurns
      <4> QED BY <2>3, <4>1, <4>2
    <3> QED BY <2>2, <2>3, <2>5, <3>2 DEF Turn
  <2>6. ASSUME NEW j \in Moving, NEW k \in Queued \ Moving,
               rows[k].lane = "interactive", SessionOf[j] = SessionOf[k]
        PROVE  rows[k].laneSeq # Turn(j)
    <3>1. rows[k].laneSeq <= HighWater("interactive", SessionOf[j])
      BY <2>6, NextTurn
    <3> QED BY <2>2, <2>3, <3>1 DEF Turn
  <2> QED BY <2>1, <2>3, <2>4, <2>5, <2>6 DEF LaneTurnsDistinct
<1>8. ASSUME NEW j \in Jobs, relaneDeadLetterJob(j) PROVE LaneTurnsDistinct'
  <2>1. CASE Unclaimed(j)
    <3>1. j \in Queued
      BY <2>1 DEF Unclaimed
    <3> DEFINE q == HighWater("bulk", SessionOf[j]) + 1
    <3>2. rows' = [rows EXCEPT ![j].lane = "bulk", ![j].attempts = 0, ![j].laneSeq = q]
      BY <1>8, <2>1 DEF relaneDeadLetterJob
    <3> HIDE DEF q
    <3>3. Queued' = Queued \cup {j} /\ \A k \in Queued \ {j} : rows'[k] = rows[k]
      BY <3>1, <3>2 DEF Queued
    <3>4. rows'[j].lane = "bulk" /\ rows'[j].laneSeq = q
      BY <1>0, <3>1, <3>2 DEF Queued, Row
    <3> QED BY <3>3, <3>4, TurnTaken DEF q
  <2>2. CASE ~Unclaimed(j)
    BY <1>8, <2>2, TurnsKept DEF relaneDeadLetterJob, Queued
  <2> QED BY <2>1, <2>2
<1>9. CASE UNCHANGED rows
  BY <1>9, TurnsKept DEF Queued
<1> QED BY <1>1, <1>2, <1>3, <1>4, <1>5, <1>6, <1>7, <1>8, <1>9
        DEF Next, complete, dropUnclaimedJobs, runDrop, runPromote, Declined, DeadLetter,
            listExhaustedJobs, markLedgerApplied, CrashSweep, queue, vars

(* Rows of one lane and session never share a turn, however many enter the  *)
(* group in one promotion and whatever left it before.                      *)
THEOREM TurnsAreDistinct == Spec => []LaneTurnsDistinct
<1>1. Init => LaneTurnsDistinct
  BY DEF Init, LaneTurnsDistinct, Queued
<1>2. TableOK /\ LaneTurnsDistinct /\ [Next]_vars => (TableOK /\ LaneTurnsDistinct)'
  BY TableStep, TurnsStep
<1> QED BY <1>1, <1>2, PartsInitially, PTL DEF Spec

-----------------------------------------------------------------------------
(* A row listed was never marked; one relaned and not yet marked is in no   *)
(* list; any other unmarked row was relaned only before a crash.            *)
RetryInv ==
    /\ todo \cap seen = {} /\ unmarked \notin todo
    /\ \A j \in Jobs : /\ relanes[j] <= 1 + crashes
                       /\ j \notin seen /\ j # unmarked => relanes[j] <= crashes

LEMMA RetryStep ==
    ASSUME TableOK, SweepOK, HistoryOK, RetryInv, [Next]_vars PROVE RetryInv'
<1> USE QueueAssumption DEF RetryInv, SweepOK, HistoryOK
<1>1. CASE listExhaustedJobs
  <2>1. todo' \cap seen = {} /\ unmarked = NoOne /\ todo' \subseteq Jobs
    BY <1>1 DEF listExhaustedJobs, Unseen, TableOK
  <2> QED BY <1>1, <2>1 DEF listExhaustedJobs, history
<1>2. ASSUME NEW j \in Jobs, relaneDeadLetterJob(j) PROVE RetryInv'
  <2>1. /\ unmarked = NoOne /\ j \in todo /\ todo' = todo \ {j}
        /\ UNCHANGED <<seen, crashes>>
    BY <1>2 DEF relaneDeadLetterJob
  <2>2. CASE Unclaimed(j)
    <3>1. unmarked' = j /\ relanes' = [relanes EXCEPT ![j] = @ + 1]
      BY <1>2, <2>2 DEF relaneDeadLetterJob
    <3>2. relanes[j] <= crashes
      BY <2>1
    <3> QED BY <2>1, <3>1, <3>2
  <2>3. CASE ~Unclaimed(j)
    BY <1>2, <2>1, <2>3 DEF relaneDeadLetterJob
  <2> QED BY <2>2, <2>3
<1>3. CASE markLedgerApplied
  BY <1>3 DEF markLedgerApplied, history
<1>4. CASE CrashSweep
  BY <1>4 DEF CrashSweep, history
<1>5. CASE UNCHANGED <<seen, sweep, relanes>>
  BY <1>5 DEF sweep
<1> QED BY <1>1, <1>2, <1>3, <1>4, <1>5
        DEF Next, DeadLetter, enqueueReflectionJob, claimNext, release, complete,
            reclaimStaleReflectionJobs, Expire, runDrop, runPromote, dropUnclaimedJobs, Declined,
            promoteJobs, history, vars

(* dead_letter retries a row once in its life; each further retry costs a   *)
(* crash between the relane and its marker.                                 *)
THEOREM RetriesAreBounded == Spec => []RetriesCostCrashes
<1>1. Init => RetryInv
  BY QueueAssumption DEF Init, RetryInv
<1>2. TableOK /\ OperatorOK /\ SweepOK /\ HistoryOK /\ RetryInv /\ [Next]_vars
          => (TableOK /\ OperatorOK /\ SweepOK /\ HistoryOK /\ RetryInv)'
  BY TableStep, OperatorStep, SweepStep, HistoryStep, RetryStep
<1>3. RetryInv => RetriesCostCrashes
  BY DEF RetryInv, RetriesCostCrashes
<1> QED BY <1>1, <1>2, <1>3, PartsInitially, PTL DEF Spec

-----------------------------------------------------------------------------
(* Who is served before a first turn.  Behind an overtaker of session s no  *)
(* other row of s still stands before the waiting row: it would have to     *)
(* share the overtaker's turn, or to have come earlier than it did.         *)

Waiting == {j \in (Queued \cap Watched) \ moved : rows[j].laneSeq = 1}

\* Another row of i's session that would be served before j.
StandsBefore(i, j) == /\ i \in Queued \ moved
                      /\ rows[i].lane = rows[j].lane /\ rows[i].laneSeq = 1
                      /\ rows[i].rowid < rows[j].rowid

Overtaken ==
    /\ \A j \in Jobs : overtakers[j] # {} => j \in minted
    /\ \A j \in Waiting : \A k \in overtakers[j] \ moved :
           /\ SessionOf[k] # SessionOf[j]
           /\ \A i \in Queued : StandsBefore(i, j) /\ SessionOf[i] = SessionOf[k] => i = k
           /\ \A i \in overtakers[j] \ moved : SessionOf[i] = SessionOf[k] => i = k

(* No statement but claimNext serves anybody, and rows nobody moved keep    *)
(* the place they were enqueued with.                                       *)
LEMMA PlacesKept ==
    ASSUME Overtaken, UNCHANGED overtakers, moved \subseteq moved', minted \subseteq minted',
           \A i \in Queued' \ moved' :
               /\ i \in Queued /\ rows'[i].lane = rows[i].lane
               /\ rows'[i].laneSeq = rows[i].laneSeq /\ rows'[i].rowid = rows[i].rowid
    PROVE  Overtaken'
<1>1. \A j \in Jobs : overtakers'[j] # {} => j \in minted'
  BY DEF Overtaken
<1>2. ASSUME NEW j \in Waiting', NEW k \in overtakers'[j] \ moved'
      PROVE  /\ SessionOf[k] # SessionOf[j]
             /\ \A i \in Queued' : StandsBefore(i, j)' /\ SessionOf[i] = SessionOf[k] => i = k
             /\ \A i \in overtakers'[j] \ moved' : SessionOf[i] = SessionOf[k] => i = k
  <2>1. j \in Waiting /\ k \in overtakers[j] \ moved /\ j \in Queued' \ moved'
    BY DEF Waiting
  <2>2. \A i \in Queued' : StandsBefore(i, j)' => i \in Queued /\ StandsBefore(i, j)
    BY <2>1 DEF StandsBefore
  <2>3. \A i \in overtakers'[j] \ moved' : i \in overtakers[j] \ moved
    OBVIOUS
  <2> QED BY <2>1, <2>2, <2>3 DEF Overtaken
<1> QED BY <1>1, <1>2 DEF Overtaken

(* A fresh row stands behind every row there is.                            *)
LEMMA NewestRowid ==
    ASSUME TableOK, NEW j \in Queued
    PROVE  rows[j].rowid < Max({rows[k].rowid : k \in Queued} \cup {0}) + 1
<1> DEFINE f == [i \in Queued |-> rows[i].rowid]
<1>1. f \in [Queued -> Nat] /\ {f[i] : i \in Queued} = {rows[i].rowid : i \in Queued}
      /\ f[j] = rows[j].rowid /\ f[j] \in Nat
  BY DEF TableOK, Row
<1> HIDE DEF f
<1>2. /\ Max({f[i] : i \in Queued} \cup {0}) \in Nat
      /\ \A i \in Queued : f[i] <= Max({f[k] : k \in Queued} \cup {0})
  BY <1>1, MaxOfColumn DEF TableOK
<1>3. Max({f[i] : i \in Queued} \cup {0}) = Max({rows[i].rowid : i \in Queued} \cup {0})
  BY <1>1
<1> DEFINE m == Max({rows[i].rowid : i \in Queued} \cup {0})
<1>4. m \in Nat /\ f[j] <= m
  BY <1>2, <1>3
<1> HIDE DEF m
<1>5. rows[j].rowid < m + 1
  BY <1>1, <1>4
<1> QED BY <1>5 DEF m

LEMMA EnqueueStandsBehind ==
    ASSUME TableOK, HistoryOK, Overtaken,
           NEW n \in Jobs, NEW lane \in Lanes, enqueueReflectionJob(n, lane)
    PROVE  Overtaken'
<1>1. /\ n \notin Queued /\ Queued' = Queued \cup {n} /\ \A k \in Queued : rows'[k] = rows[k]
      /\ n \notin minted /\ minted' = minted \cup {n} /\ UNCHANGED <<overtakers, moved>>
  BY DEF enqueueReflectionJob, Queued, TableOK, history
<1>2. \A j \in Queued : rows[j].rowid < rows'[n].rowid
  BY NewestRowid DEF enqueueReflectionJob
<1>3. overtakers[n] = {}
  BY <1>1 DEF Overtaken
<1>4. \A j \in Jobs : overtakers'[j] # {} => j \in minted'
  BY <1>1 DEF Overtaken
<1>5. ASSUME NEW j \in Waiting', NEW k \in overtakers'[j] \ moved'
      PROVE  /\ SessionOf[k] # SessionOf[j]
             /\ \A i \in Queued' : StandsBefore(i, j)' /\ SessionOf[i] = SessionOf[k] => i = k
             /\ \A i \in overtakers'[j] \ moved' : SessionOf[i] = SessionOf[k] => i = k
  <2>1. j # n /\ j \in Queued /\ j \in Waiting
    BY <1>1, <1>3 DEF Waiting
  <2>2. \A i \in Queued : StandsBefore(i, j)' => StandsBefore(i, j)
    BY <1>1, <2>1 DEF StandsBefore
  <2>3. ~StandsBefore(n, j)'
    <3>1. rows[j].rowid < rows'[n].rowid /\ rows'[j] = rows[j]
      BY <1>1, <1>2, <2>1
    <3>2. rows[j].rowid \in Nat /\ rows'[n].rowid \in Nat
      <4>1. rows'[n].rowid = Max({rows[i].rowid : i \in Queued} \cup {0}) + 1
        BY DEF enqueueReflectionJob
      <4> QED BY <2>1, <4>1, NextRowid DEF TableOK, Row
    <3> QED BY <3>1, <3>2 DEF StandsBefore
  <2>4. k \in overtakers[j] \ moved
    BY <1>1
  <2>5. \A i \in Queued : StandsBefore(i, j) /\ SessionOf[i] = SessionOf[k] => i = k
    BY <2>1, <2>4 DEF Overtaken
  <2>6. /\ SessionOf[k] # SessionOf[j]
        /\ \A i \in overtakers[j] \ moved : SessionOf[i] = SessionOf[k] => i = k
    BY <2>1, <2>4 DEF Overtaken
  <2>7. \A i \in Queued' : StandsBefore(i, j)' => i \in Queued
    BY <1>1, <2>3
  <2> QED BY <1>1, <2>2, <2>5, <2>6, <2>7
<1> QED BY <1>4, <1>5 DEF Overtaken

(* The row claimNext serves has the first turn of its session if a first    *)
(* turn of its lane waits, and nobody else of its session has.              *)
LEMMA ServedInTurn ==
    ASSUME TableOK, NEW k \in Queued, First(k), NEW j \in Waiting, j # k,
           Claimable(j), rows[j].lane = rows[k].lane
    PROVE  rows[k].laneSeq = 1 /\ rows[k].rowid < rows[j].rowid
<1>1. Before(k, j) /\ rows[j].laneSeq = 1
  BY DEF First, Waiting
<1>2. LaneRank(k) = LaneRank(j) /\ LaneRank(j) \in Nat
  BY DEF LaneRank
<1>3. rows[k].laneSeq \in Nat \ {0}
  BY DEF TableOK, Row
<1> QED BY <1>1, <1>2, <1>3 DEF Before

LEMMA ClaimOvertakesOnce ==
    ASSUME TableOK, LaneTurnsDistinct, HistoryOK, Overtaken, NEW c \in Claimants, claimNext(c)
    PROVE  Overtaken'
<1>1. PICK k \in Queued :
          /\ First(k)
          /\ rows' = [rows EXCEPT ![k].claimedBy = c, ![k].stale = FALSE]
          /\ overtakers' = [j \in Jobs |->
                 IF j = k THEN {}
                 ELSE IF j \in Watched /\ Claimable(j) /\ rows[j].lane = rows[k].lane
                 THEN overtakers[j] \cup {k}
                 ELSE overtakers[j]]
          /\ UNCHANGED <<minted, moved>>
  BY DEF claimNext
<1>2. /\ Queued' = Queued
      /\ \A i \in Queued : /\ rows'[i].lane = rows[i].lane /\ rows'[i].laneSeq = rows[i].laneSeq
                           /\ rows'[i].rowid = rows[i].rowid
  BY <1>1 DEF Queued, TableOK, Row
<1>3. Waiting' = Waiting /\ \A i \in Queued, j \in Queued : StandsBefore(i, j)' <=> StandsBefore(i, j)
  BY <1>1, <1>2 DEF Waiting, StandsBefore
<1>4. \A j \in Jobs : overtakers'[j] # {} => j \in minted'
  <2>1. \A j \in Jobs : Claimable(j) => j \in minted
    BY DEF Claimable, Unclaimed, TableOK
  <2> QED BY <1>1, <2>1 DEF Overtaken
<1>5. ASSUME NEW j \in Waiting, NEW m \in overtakers'[j] \ moved
      PROVE  /\ SessionOf[m] # SessionOf[j]
             /\ \A i \in Queued : StandsBefore(i, j) /\ SessionOf[i] = SessionOf[m] => i = m
             /\ \A i \in overtakers'[j] \ moved : SessionOf[i] = SessionOf[m] => i = m
  <2>1. j \in Jobs /\ j \in Queued
    BY DEF Waiting, TableOK
  <2>2. CASE overtakers'[j] = overtakers[j]
    BY <2>2 DEF Overtaken
  <2>3. CASE /\ j # k /\ Claimable(j) /\ rows[j].lane = rows[k].lane
             /\ overtakers'[j] = overtakers[j] \cup {k}
    <3>1. rows[k].laneSeq = 1 /\ rows[k].rowid < rows[j].rowid /\ rows[j].laneSeq = 1
      BY <1>1, <2>3, ServedInTurn DEF Waiting
    <3>2. \A i \in Queued : rows[i].lane = rows[k].lane /\ rows[i].laneSeq = 1
                                /\ SessionOf[i] = SessionOf[k] => i = k
      BY <3>1 DEF LaneTurnsDistinct
    <3>3. SessionOf[k] # SessionOf[j]
      BY <2>1, <2>3, <3>1, <3>2
    <3>4. \A i \in Queued : StandsBefore(i, j) /\ SessionOf[i] = SessionOf[k] => i = k
      BY <2>3, <3>2 DEF StandsBefore
    <3>5. k \notin moved => StandsBefore(k, j)
      BY <2>3, <3>1 DEF StandsBefore
    <3>6. \A i \in overtakers[j] \ moved :
              k \notin moved /\ SessionOf[k] = SessionOf[i] => k = i
      BY <3>5 DEF Overtaken
    <3>7. CASE m = k
      <4>1. SessionOf[m] # SessionOf[j]
        BY <3>3, <3>7
      <4>2. \A i \in Queued : StandsBefore(i, j) /\ SessionOf[i] = SessionOf[m] => i = m
        BY <3>4, <3>7
      <4>3. \A i \in overtakers'[j] \ moved : i = k \/ i \in overtakers[j] \ moved
        BY <2>3
      <4>4. m \notin moved
        OBVIOUS
      <4>5. \A i \in overtakers'[j] \ moved : SessionOf[i] = SessionOf[m] => i = m
        BY <3>6, <3>7, <4>3, <4>4
      <4> QED BY <4>1, <4>2, <4>5
    <3>8. CASE m # k
      <4>1. m \in overtakers[j] \ moved
        BY <2>3, <3>8
      <4>2. \A i \in overtakers'[j] \ moved : SessionOf[i] = SessionOf[m] => i = m
        BY <2>3, <3>6, <4>1 DEF Overtaken
      <4> QED BY <4>1, <4>2 DEF Overtaken
    <3> QED BY <3>7, <3>8
  <2>4. CASE overtakers'[j] = {}
    BY <2>4
  <2> QED BY <1>1, <2>1, <2>2, <2>3, <2>4
<1> QED
  <2>1. \A j \in Waiting : j \in Queued
    BY DEF Waiting
  <2> QED BY <1>1, <1>2, <1>3, <1>4, <1>5, <2>1 DEF Overtaken

LEMMA OvertakenStep ==
    TableOK /\ LaneTurnsDistinct /\ HistoryOK /\ Overtaken /\ [Next]_vars => Overtaken'
<1> SUFFICES ASSUME TableOK, LaneTurnsDistinct, HistoryOK, Overtaken, [Next]_vars PROVE Overtaken'
  OBVIOUS
<1>0. ASSUME NEW j \in Queued PROVE rows[j] \in Row
  BY DEF TableOK
<1> USE DEF history
<1>1. ASSUME NEW j \in Jobs, NEW lane \in Lanes, enqueueReflectionJob(j, lane) PROVE Overtaken'
  BY <1>1, EnqueueStandsBehind
<1>2. ASSUME NEW c \in Claimants, claimNext(c) PROVE Overtaken'
  BY <1>2, ClaimOvertakesOnce
<1>3. ASSUME NEW c \in Claimants, NEW j \in Jobs, release(c, j) PROVE Overtaken'
  BY <1>0, <1>3, PlacesKept DEF release, Queued, Row
<1>4. ASSUME NEW S, Delete(S), UNCHANGED <<overtakers, moved>> PROVE Overtaken'
  BY <1>4, PlacesKept DEF Delete, Queued
<1>5. ASSUME NEW except \in Claimants \cup {NoOne}, reclaimStaleReflectionJobs(except)
      PROVE  Overtaken'
  BY <1>0, <1>5, PlacesKept DEF reclaimStaleReflectionJobs, Queued, Row
<1>6. ASSUME NEW j \in Jobs, Expire(j) PROVE Overtaken'
  BY <1>0, <1>6, PlacesKept DEF Expire, Queued, Row
<1>7. CASE promoteJobs
  <2>1. Queued' = Queued /\ UNCHANGED <<overtakers, minted>> /\ moved' = moved \cup Moving
    BY <1>7, PromoteEffect DEF promoteJobs, Queued, Moving
  <2>2. \A i \in Queued \ Moving : rows'[i] = rows[i]
    BY <1>7, PromoteEffect
  <2> QED BY <2>1, <2>2, PlacesKept
<1>8. ASSUME NEW j \in Jobs, relaneDeadLetterJob(j) PROVE Overtaken'
  <2>1. CASE Unclaimed(j)
    <3> DEFINE q == HighWater("bulk", SessionOf[j]) + 1
    <3>1. /\ rows' = [rows EXCEPT ![j].lane = "bulk", ![j].attempts = 0, ![j].laneSeq = q]
          /\ moved' = moved \cup {j} /\ UNCHANGED <<overtakers, minted>>
      BY <1>8, <2>1 DEF relaneDeadLetterJob
    <3> HIDE DEF q
    <3>2. Queued' = Queued /\ \A i \in Queued \ {j} : rows'[i] = rows[i]
      BY <3>1 DEF Queued
    <3> QED BY <3>1, <3>2, PlacesKept
  <2>2. CASE ~Unclaimed(j)
    BY <1>8, <2>2, PlacesKept DEF relaneDeadLetterJob, Queued
  <2> QED BY <2>1, <2>2
<1>9. CASE UNCHANGED <<queue, overtakers, moved>>
  BY <1>9, PlacesKept DEF queue, Queued
<1>10. CASE dropUnclaimedJobs \/ \E c \in Claimants, j \in Jobs : complete(c, j)
  BY <1>4, <1>10 DEF dropUnclaimedJobs, complete
<1> QED BY <1>1, <1>2, <1>3, <1>5, <1>6, <1>7, <1>8, <1>9, <1>10
        DEF Next, DeadLetter, runDrop, runPromote, Declined, listExhaustedJobs, markLedgerApplied,
            CrashSweep, vars

LEMMA AllAlike ==
    ASSUME NEW S, \A x, y \in S : x = y
    PROVE  Cardinality(S) \in {0, 1}
<1>1. S = {} \/ \E x \in S : S = {x}
  OBVIOUS
<1> QED BY <1>1, FS_EmptySet, FS_Singleton

(* claim.ts:57: one session pushing a thousand episodes delays another's    *)
(* first episode by one job, whatever is enqueued, claimed, released,       *)
(* dropped, promoted and relaned while it waits.                            *)
THEOREM FirstTurnIsFair == Spec => []FirstTurnWaitsOneJobPerSession
<1> DEFINE Inv == TableOK /\ OperatorOK /\ SweepOK /\ HistoryOK /\ LaneTurnsDistinct /\ Overtaken
<1>1. Init => Inv
  BY PartsInitially DEF Init, LaneTurnsDistinct, Overtaken, Waiting, Queued
<1>2. Inv /\ [Next]_vars => Inv'
  BY TableStep, OperatorStep, SweepStep, HistoryStep, TurnsStep, OvertakenStep
<1>3. Inv => FirstTurnWaitsOneJobPerSession
  <2> SUFFICES ASSUME Overtaken, NEW j \in Waiting, NEW s \in Sessions
               PROVE  Cardinality({k \in overtakers[j] \ moved : SessionOf[k] = s})
                          <= (IF s = SessionOf[j] THEN 0 ELSE 1)
    BY DEF FirstTurnWaitsOneJobPerSession, Waiting
  <2> DEFINE S == {k \in overtakers[j] \ moved : SessionOf[k] = s}
  <2>1. \A x, y \in S : x = y
    BY DEF Overtaken
  <2>2. s = SessionOf[j] => S = {}
    BY DEF Overtaken
  <2> HIDE DEF S
  <2>3. Cardinality(S) \in {0, 1} /\ (s = SessionOf[j] => Cardinality(S) = 0)
    BY <2>1, <2>2, AllAlike, FS_EmptySet
  <2>4. Cardinality(S) <= (IF s = SessionOf[j] THEN 0 ELSE 1)
    BY <2>3
  <2> QED BY <2>4 DEF S
<1> HIDE DEF Inv
<1> QED BY <1>1, <1>2, <1>3, PTL DEF Spec

-----------------------------------------------------------------------------
(* The refinement, statement by statement.                                  *)

\* The columns of the claim table, over the rows there are.
Attempts == [j \in Jobs |-> IF j \in Queued THEN rows[j].attempts ELSE 0]
ClaimedBy == [j \in Jobs |-> IF j \in Queued THEN rows[j].claimedBy ELSE NoOne]
Stale == [j \in Jobs |-> j \in Queued /\ rows[j].stale]

SameColumns(k) == /\ rows'[k].attempts = rows[k].attempts
                  /\ rows'[k].claimedBy = rows[k].claimedBy
                  /\ rows'[k].stale = rows[k].stale

LEMMA StepOnClaimTable == TableOK /\ [Next]_vars => [Table!TableNext]_(Table!table)
<1> SUFFICES ASSUME TableOK, [Next]_vars PROVE Table!TableNext \/ UNCHANGED Table!table
  OBVIOUS
<1> USE QueueAssumption
<1>0. Queued \subseteq Jobs /\ \A j \in Queued : rows[j] \in Row
  BY DEF TableOK
<1>1. ASSUME NEW j \in Jobs, NEW lane \in Lanes, enqueueReflectionJob(j, lane)
      PROVE  Table!TableNext
  <2>1. /\ Queued' = Queued \cup {j} /\ j \notin Queued
        /\ rows'[j].attempts = 0 /\ rows'[j].claimedBy = NoOne /\ rows'[j].stale = FALSE
        /\ \A k \in Queued : rows'[k] = rows[k]
    BY <1>1 DEF enqueueReflectionJob, Queued, TableOK
  <2>2. Table!Enqueue(j)
    BY <1>1, <2>1 DEF enqueueReflectionJob, Table!Enqueue
  <2> QED BY <2>2 DEF Table!TableNext
<1>2. ASSUME NEW c \in Claimants, claimNext(c) PROVE Table!TableNext
  <2>1. PICK j \in Queued :
            /\ First(j) /\ rows' = [rows EXCEPT ![j].claimedBy = c, ![j].stale = FALSE]
            /\ UNCHANGED minted
    BY <1>2 DEF claimNext
  <2>2. Table!Claimable(j)
    BY <1>0, <2>1 DEF First, Claimable, Unclaimed, Table!Claimable, Table!Unclaimed
  <2>3. /\ Queued' = Queued /\ UNCHANGED minted
        /\ \A k \in Queued \ {j} : SameColumns(k)
        /\ rows'[j].claimedBy = c /\ rows'[j].stale = FALSE /\ rows'[j].attempts = rows[j].attempts
    BY <1>0, <2>1 DEF Queued, Row, SameColumns
  <2>4. Table!Claim(c, j)
    BY <1>0, <2>2, <2>3 DEF Table!Claim, SameColumns
  <2> QED BY <1>0, <2>4 DEF Table!TableNext
<1>3. ASSUME NEW c \in Claimants, NEW j \in Jobs, release(c, j) PROVE Table!TableNext
  <2>1. j \in Queued /\ rows[j].claimedBy = c
    BY <1>3 DEF release, Owns
  <2>2. /\ Queued' = Queued /\ UNCHANGED minted
        /\ \A k \in Queued \ {j} : SameColumns(k)
        /\ rows'[j].claimedBy = NoOne /\ rows'[j].stale = FALSE
        /\ rows'[j].attempts = rows[j].attempts + 1
    BY <1>0, <1>3, <2>1 DEF release, Queued, Row, SameColumns
  <2>3. Table!Release(c, j)
    BY <1>0, <2>1, <2>2 DEF Table!Release, Table!Owns, SameColumns
  <2> QED BY <2>3 DEF Table!TableNext
<1>4. ASSUME NEW S \in SUBSET Jobs, Delete(S) PROVE Table!Remove(S)
  <2>1. /\ Queued' = Queued \ S /\ UNCHANGED minted
        /\ \A k \in Queued \ S : rows'[k] = rows[k]
    BY <1>4 DEF Delete, Queued
  <2> QED BY <2>1 DEF Table!Remove
<1>5. ASSUME NEW c \in Claimants, NEW j \in Jobs, complete(c, j) PROVE Table!TableNext
  <2>1. Table!Complete(c, j)
    BY <1>4, <1>5 DEF complete, Owns, Table!Complete, Table!Owns
  <2> QED BY <2>1 DEF Table!TableNext
<1>6. ASSUME NEW except \in Claimants \cup {NoOne}, reclaimStaleReflectionJobs(except)
      PROVE  Table!TableNext
  <2> DEFINE Swept(k) == rows[k].stale /\ rows[k].claimedBy \notin {NoOne, except}
  <2>1. Queued' = Queued /\ UNCHANGED minted
    BY <1>6 DEF reclaimStaleReflectionJobs, Queued
  <2>2. ASSUME NEW k \in Queued
        PROVE  /\ rows'[k].attempts = rows[k].attempts
               /\ rows'[k].claimedBy = IF Swept(k) THEN NoOne ELSE rows[k].claimedBy
               /\ rows'[k].stale <=> rows[k].stale /\ ~Swept(k)
    BY <1>0, <1>6 DEF reclaimStaleReflectionJobs, Row
  <2>3. Table!ReclaimStale(except)
    BY <1>0, <2>1, <2>2 DEF Table!ReclaimStale, Table!StaleClaims
  <2> QED BY <2>3 DEF Table!TableNext
<1>7. ASSUME NEW j \in Jobs, Expire(j) PROVE Table!TableNext
  <2>1. /\ j \in Queued /\ rows[j].claimedBy # NoOne /\ ~rows[j].stale
        /\ Queued' = Queued /\ UNCHANGED minted
        /\ \A k \in Queued \ {j} : SameColumns(k)
        /\ rows'[j].stale = TRUE /\ rows'[j].attempts = rows[j].attempts
        /\ rows'[j].claimedBy = rows[j].claimedBy
    BY <1>0, <1>7 DEF Expire, Queued, Row, SameColumns
  <2>2. Table!Expire(j)
    BY <2>1 DEF Table!Expire, SameColumns
  <2> QED BY <2>2 DEF Table!TableNext
<1>8. CASE dropUnclaimedJobs
  <2>1. PICK S \in SUBSET Jobs : Delete(S) /\ \A j \in S : Table!Unclaimed(j)
    BY <1>0, <1>8 DEF dropUnclaimedJobs, Matching, Unclaimed, Table!Unclaimed
  <2>2. Table!Drop(S)
    BY <1>4, <2>1 DEF Table!Drop
  <2> QED BY <2>1, <2>2 DEF Table!TableNext
<1>9. CASE promoteJobs
  <2>1. /\ Queued' = Queued /\ UNCHANGED minted
        /\ \A k \in Queued : SameColumns(k)
    BY <1>0, <1>9, PromoteEffect DEF promoteJobs, Queued, Row, SameColumns
  <2> QED BY <2>1 DEF Table!table, SameColumns
<1>10. ASSUME NEW j \in Jobs, relaneDeadLetterJob(j) PROVE Table!TableNext \/ UNCHANGED Table!table
  <2>1. CASE Unclaimed(j)
    <3> DEFINE q == HighWater("bulk", SessionOf[j]) + 1
    <3>1. /\ rows' = [rows EXCEPT ![j].lane = "bulk", ![j].attempts = 0, ![j].laneSeq = q]
          /\ UNCHANGED minted /\ j \in Queued /\ rows[j].claimedBy = NoOne
      BY <1>10, <2>1 DEF relaneDeadLetterJob, Unclaimed
    <3> HIDE DEF q
    <3>2. /\ Queued' = Queued /\ \A k \in Queued \ {j} : SameColumns(k)
          /\ rows'[j].attempts = 0 /\ rows'[j].claimedBy = rows[j].claimedBy
          /\ rows'[j].stale = rows[j].stale
      BY <1>0, <3>1 DEF Queued, Row, SameColumns
    <3>3. Table!Relane(j)
      <4>1. Table!Unclaimed(j)
        BY <3>1 DEF Table!Unclaimed
      <4>2. \A k \in Queued : /\ rows'[k].claimedBy = rows[k].claimedBy
                             /\ rows'[k].stale = rows[k].stale
                             /\ rows'[k].attempts = IF k = j THEN 0 ELSE rows[k].attempts
        BY <3>2 DEF SameColumns
      <4>3. Queued' = Queued /\ j \in Queued
        BY <3>1, <3>2
      <4>4. ClaimedBy' = ClaimedBy /\ Stale' = Stale
        BY <4>2, <4>3 DEF ClaimedBy, Stale
      <4>5. Attempts' = [Attempts EXCEPT ![j] = 0]
        BY <4>2, <4>3 DEF Attempts
      <4> QED BY <3>1, <4>1, <4>3, <4>4, <4>5 DEF Table!Relane, ClaimedBy, Stale, Attempts
    <3> QED BY <3>3 DEF Table!TableNext
  <2>2. CASE ~Unclaimed(j)
    BY <1>10, <2>2 DEF relaneDeadLetterJob, Table!table, Queued
  <2> QED BY <2>1, <2>2
<1>11. CASE UNCHANGED queue
  BY <1>11 DEF queue, Queued, Table!table
<1> QED BY <1>1, <1>2, <1>3, <1>5, <1>6, <1>7, <1>8, <1>9, <1>10, <1>11
        DEF Next, DeadLetter, runDrop, runPromote, Declined, listExhaustedJobs, markLedgerApplied,
            CrashSweep, vars

(* Lanes, turns, promotion and dead-lettering only decide who is served     *)
(* next: every statement is one the claim table allows, so TableSafe and    *)
(* all that is proved of that table hold of this one.                       *)
THEOREM QueueImplementsTable == Spec => ImplementsClaimTable
<1>1. Init => Table!TableInit
  BY DEF Init, Table!TableInit, Queued
<1>2. TableOK /\ [Next]_vars => TableOK'
  BY TableStep
<1> QED BY <1>1, <1>2, PartsInitially, StepOnClaimTable, PTL
        DEF Spec, ImplementsClaimTable, Table!TableSpec

=============================================================================
