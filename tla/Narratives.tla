----------------------------- MODULE Narratives -----------------------------
(***************************************************************************)
(* The narratives of one session: who notices that one is due, what it is  *)
(* decided on, and how a version replaces another (packages/core/src/      *)
(* reflection, narratives.ts, narrative-write.ts, narrative-sweeper.ts,    *)
(* narrative-cleanup.ts and domain/narrative.ts).  Four narrators of one   *)
(* process reach the same routine and nothing makes them take turns: the   *)
(* close hook, the idle sweep, the reflection stage of an episode, and the *)
(* cleanup that rewrites what a correction invalidated.                    *)
(*                                                                         *)
(* A story is a narrative node.  Its id is derived from the set of         *)
(* episodes it covers and from whether a cleanup wrote it.                 *)
(***************************************************************************)
EXTENDS Naturals, FiniteSets

CONSTANTS
  Episodes,    \* the episodes the session may come to hold
  Narrators,   \* those of "closer", "sweep", "stage", "cleanup" that run
  NodeId,      \* the order of the node ids, which are hashes
  MidSession,  \* reflection.midSessionEpisodes
  MaxBusy,     \* bound on narrators at work at once
  MaxForgets,  \* bound on forgotten episodes
  MaxMarks,    \* bound on corrections
  MaxCrashes   \* bound on crashes

Stories == ((SUBSET Episodes) \ {{}}) \X BOOLEAN

ASSUME NarrativesAssumption ==
  /\ IsFiniteSet(Episodes)
  /\ Narrators \subseteq {"closer", "sweep", "stage", "cleanup"}
  /\ NodeId \in [Stories -> Nat] /\ \A s, t \in Stories : NodeId[s] = NodeId[t] => s = t
  /\ MidSession \in Nat \ {0}
  /\ MaxBusy \in Nat \ {0}
  /\ MaxForgets \in Nat /\ MaxMarks \in Nat /\ MaxCrashes \in Nat

VARIABLES
  live,     \* the episodes the session holds
  gone,     \* the episodes that were forgotten
  story,    \* story[s]: whether the node is there, its version and its marker
  orphans,  \* versions the upkeep found with no episode behind them
  run,      \* run[p]: where narrator p stands and what it has read
  marks,    \* corrections so far
  crashes,  \* crashes so far
  excused   \* history: an episode arrived between a narrator's read of the
            \* episodes and of the versions, or a cleanup wrote on a node of an
            \* earlier cleanup that is no newer than a version it replaces

session    == <<live, gone>>
bounds     == <<marks, crashes>>
narratives == <<session, story, run, orphans, bounds, excused>>

States == {"none", "open", "closed", "forgotten"}
Steps  == {"idle", "called", "looking", "writing", "closing"}

Nobody == [at |-> "idle", read |-> {}, calm |-> FALSE, version |-> 0, olds |-> {}]

NarrativesTypeOK ==
  /\ live \subseteq Episodes /\ gone \subseteq Episodes \ live
  /\ story \in [Stories -> [state : States, version : Nat, marked : BOOLEAN]]
  /\ run \in [Narrators -> [at : Steps, read : SUBSET Episodes, calm : BOOLEAN,
                            version : Nat, olds : SUBSET Stories]]
  /\ orphans \subseteq Stories
  /\ marks \in 0..MaxMarks /\ crashes \in 0..MaxCrashes /\ excused \in BOOLEAN

NarrativesInit ==
  /\ live = {} /\ gone = {}
  /\ story = [s \in Stories |-> [state |-> "none", version |-> 0, marked |-> FALSE]]
  /\ run = [p \in Narrators |-> Nobody] /\ orphans = {}
  /\ marks = 0 /\ crashes = 0 /\ excused = FALSE

-----------------------------------------------------------------------------
(* Readings. *)

Standing  == {s \in Stories : story[s].state = "open"}
Readable  == {s \in Stories : story[s].state \in {"open", "closed"}}
Covers(s) == Cardinality(s[1])
Highest   == IF Readable = {} THEN 0
             ELSE CHOOSE v \in {story[s].version : s \in Readable} :
                    \A s \in Readable : story[s].version <= v

(* How versions are listed: the newest first, ties by id. *)
Newer(s, t) == \/ story[s].version > story[t].version
               \/ story[s].version = story[t].version /\ NodeId[s] <= NodeId[t]
First(some) == {s \in some : \A t \in some : Newer(s, t)}

(* The sweep's query: a quiet session no current narrative covers in full. *)
UncoveredOnly == Standing = {}                   \* only what was never narrated
Due == \A s \in Standing : Covers(s) < Cardinality(live)

(* When a narrator may go on: the close is a boundary of its own, the sweep  *)
(* and the stage need silence or a mid-session boundary.  `paused`: the two  *)
(* newest episodes lie a pause apart.                                        *)
Boundary(r, paused) ==
  LET uncovered(n) == \A s \in Standing : Covers(s) + n <= Cardinality(r.read)
  IN \/ r.calm \/ uncovered(MidSession)
     \/ uncovered(1) /\ paused /\ Cardinality(r.read) > 1

-----------------------------------------------------------------------------
(* The session. *)

Arrives(e) ==
  /\ e \notin live \cup gone
  /\ live' = live \cup {e}
  /\ excused' = (excused \/ \E p \in Narrators : run[p].at = "looking")
  /\ UNCHANGED <<gone, story, run, orphans, bounds>>

Forgets(e) ==
  /\ e \in live /\ Cardinality(gone) < MaxForgets
  /\ live' = live \ {e} /\ gone' = gone \cup {e}
  /\ UNCHANGED <<story, run, orphans, bounds, excused>>

(* A correction of a claim of the session stamps its current versions with   *)
(* the regrounding marker.                                                   *)
Corrects ==
  /\ marks < MaxMarks /\ marks' = marks + 1
  /\ \E s \in Standing : ~story[s].marked
  /\ story' = [s \in Stories |-> [story[s] EXCEPT !.marked = @ \/ s \in Standing]]
  /\ UNCHANGED <<session, run, orphans, crashes, excused>>

-----------------------------------------------------------------------------
(* The narrators. *)

Closed(s) == [story[s] EXCEPT !.state = IF @ = "open" THEN "closed" ELSE @]

Goes(p, r) == run' = [run EXCEPT ![p] = r]

Ends(p) == Goes(p, Nobody)

(* The sweep and the cleanup are called by a scan of the sessions, and       *)
(* narrate what it found when its turn comes.  Whether the idle window has   *)
(* passed is chosen freely; the sweep is called when it has.                 *)
Called(p) == \/ p = "sweep" /\ Due
             \/ p = "cleanup" /\ \E s \in Standing : story[s].marked

MayStart(p) == /\ run[p].at = "idle" /\ live # {}
               /\ Cardinality({q \in Narrators : run[q].at # "idle"}) < MaxBusy

Calls(p) ==
  /\ MayStart(p) /\ Called(p)
  /\ Goes(p, [Nobody EXCEPT !.at = "called"])
  /\ UNCHANGED <<session, story, orphans, bounds, excused>>

(* The first read of a narration, of the episodes: what the scan found is    *)
(* not looked at again.  A close may come at any time, and so may an         *)
(* episode's stage: rows are retried, replayed and drained late.             *)
Loads(p) ==
  /\ run[p].at = "called" \/ (p \in {"closer", "stage"} /\ MayStart(p))
  /\ IF live = {} THEN Ends(p)
     ELSE \E calm \in IF p = "stage" THEN BOOLEAN ELSE {TRUE} :
            Goes(p, [Nobody EXCEPT !.at = "looking", !.read = live, !.calm = calm])
  /\ UNCHANGED <<session, story, orphans, bounds, excused>>

(* narrateSession and decideSessionNarrative, on the versions there are now  *)
(* and the episodes read before them.                                        *)
DecidesNarrative(p, paused) ==
  LET r         == run[p]
      matching  == First({s \in Readable : s[1] = r.read})
      create    == [r EXCEPT !.at = "writing", !.calm = FALSE, !.version = Highest + 1, !.olds = Standing]
      repair(s) == [r EXCEPT !.at = "closing", !.calm = FALSE, !.olds = Standing \ {s}]
      enough    == \E s \in First(Standing) : Cardinality(r.read) <= Covers(s)
  IN IF p = "cleanup" THEN Goes(p, create)
     ELSE IF ~Boundary(r, paused) THEN Ends(p)
     ELSE \/ \E s \in matching : IF s \in Standing THEN Goes(p, repair(s)) ELSE Ends(p)
          \/ matching = {} /\ IF enough THEN Ends(p) ELSE Goes(p, create)

Looks(p) ==
  /\ run[p].at = "looking"
  /\ \E paused \in BOOLEAN : DecidesNarrative(p, paused)
  /\ UNCHANGED <<session, story, orphans, bounds, excused>>

(* The provider failed, or no sentence cited a source. *)
CompressionFails(p) ==
  /\ run[p].at = "writing"
  /\ Ends(p)
  /\ UNCHANGED <<session, story, orphans, bounds, excused>>

Target(p) == <<run[p].read, p = "cleanup">>

(* A cleanup that finds the node of an earlier one, and closes for it a      *)
(* version of the same episodes that is listed before it.                    *)
WritesOnOlder(p) ==
  /\ p = "cleanup" /\ story[Target(p)].state # "none"
  /\ \E s \in run[p].olds \ {Target(p)} : s[1] = run[p].read /\ ~Newer(Target(p), s)

(* Compression, then MERGE: a node that is there keeps its stamp and all its *)
(* properties.                                                               *)
Writes(p) ==
  /\ run[p].at = "writing"
  /\ story' = [story EXCEPT ![Target(p)] =
                 IF @.state = "none" THEN [state |-> "open", version |-> run[p].version, marked |-> FALSE]
                 ELSE @]
  /\ excused' = (excused \/ WritesOnOlder(p))
  /\ Goes(p, [run[p] EXCEPT !.at = "closing"])
  /\ UNCHANGED <<session, orphans, bounds>>

(* closeSuperseded: one transaction for each older version, its own target   *)
(* left out.  With no node to hang the lineage on, the run throws.           *)
Supersedes(p) ==
  /\ run[p].at = "closing"
  /\ LET olds == run[p].olds \ {Target(p)}
     IN \/ olds = {} /\ Ends(p) /\ UNCHANGED story
        \/ olds # {} /\ story[Target(p)].state = "none" /\ Ends(p) /\ UNCHANGED story
        \/ /\ story[Target(p)].state # "none"
           /\ \E s \in olds :
                /\ story' = [story EXCEPT ![s] = Closed(s)]
                /\ Goes(p, [run[p] EXCEPT !.olds = olds \ {s}])
  /\ UNCHANGED <<session, orphans, bounds, excused>>

-----------------------------------------------------------------------------
(* Upkeep, which calls no model. *)

(* One transaction under the session's lock, on the versions open inside it. *)
Newest == Standing                               \* the version number decides
Widest == {s \in Standing : \A t \in Standing : Covers(t) <= Covers(s)}

MergesDuplicates ==
  /\ Cardinality(Standing) > 1
  /\ \E keep \in First(Widest) :
       story' = [s \in Stories |-> IF s \in Standing \ {keep} THEN Closed(s) ELSE story[s]]
  /\ UNCHANGED <<session, run, orphans, bounds, excused>>

(* A version whose session holds no episode: found first, forgotten later.   *)
FindsOrphans ==
  /\ live = {} /\ Standing # {} /\ orphans' = Standing
  /\ UNCHANGED <<session, story, run, bounds, excused>>

ForgetsOrphan ==
  /\ \E s \in orphans :
       /\ orphans' = orphans \ {s}
       /\ story' = [story EXCEPT ![s].state = "forgotten"]
  /\ UNCHANGED <<session, run, bounds, excused>>

Crash ==
  /\ crashes < MaxCrashes /\ crashes' = crashes + 1
  /\ run' = [p \in Narrators |-> Nobody] /\ orphans' = {}
  /\ UNCHANGED <<session, story, marks, excused>>

NarrativesNext ==
  \/ \E e \in Episodes : Arrives(e) \/ Forgets(e)
  \/ Corrects \/ MergesDuplicates \/ FindsOrphans \/ ForgetsOrphan \/ Crash
  \/ \E p \in Narrators :
       \/ Calls(p) \/ Loads(p) \/ Looks(p) \/ CompressionFails(p) \/ Writes(p) \/ Supersedes(p)

NarrativesSpec == NarrativesInit /\ [][NarrativesNext]_narratives

(* A session left alone goes quiet and is swept, reads and writes end, and a *)
(* provider that is asked again and again answers.                           *)
Proceeds(p) == \/ run[p].at = "called" /\ Loads(p)
               \/ Looks(p) \/ Supersedes(p)

NarrativesFairness ==
  /\ WF_narratives(MergesDuplicates)
  /\ WF_narratives(\E p \in Narrators \cap {"sweep"} : Calls(p))
  /\ \A p \in Narrators : WF_narratives(Proceeds(p)) /\ SF_narratives(Writes(p))

NarrativesFairSpec == NarrativesSpec /\ NarrativesFairness

-----------------------------------------------------------------------------
Told == UNION {s[1] : s \in Standing}

(* What the standing versions tell never shrinks: whatever narrators overlap *)
(* and whatever a crash cuts short, a version is closed only for one that    *)
(* covers it ("leaves the standing narrative alone rather than regressing    *)
(* it", domain/narrative.ts:129).  Three things take the promise away: an    *)
(* episode forgotten, one that arrives between the two reads of a narrator,  *)
(* and a cleanup that writes on an older node of its own (WritesOnOlder):    *)
(* the node may be closed by now, and the version it closes for it told the  *)
(* session.  A cleanup repeated after a crash is not among them.             *)
CoverageNeverShrinks ==
  [][gone' = {} /\ ~excused' => Told \subseteq Told']_narratives

(* One version of all the session holds ends up standing alone: the sweep    *)
(* does not return a settled session for ever (narrative-queries.ts:194) and *)
(* no pair of versions is carried indefinitely (narrative-cleanup-queries.ts *)
(* :14).  The same three things take it away: a session whose last version   *)
(* was closed for a closed node is skipped by every narrator after.          *)
SessionSettles ==
  [](gone = {} /\ ~excused) =>
    <>[](live = {} \/ \E s \in Stories : Standing = {s} /\ s[1] = live)
=============================================================================
