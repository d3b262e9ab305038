-------------------------- MODULE EntityLifecycle --------------------------
(***************************************************************************)
(* The life of an entity: born under a name, mentioned, merged into        *)
(* another, split back out, decayed, forgotten (packages/core/src/         *)
(* infrastructure/graph/{entity-queries,entity-merge-queries,              *)
(* unmerge-queries,identifier-decay-queries}.ts and their callers).        *)
(*                                                                         *)
(* The nodes are numbered in the order of their birth.  Three writers act  *)
(* at once: the reflection worker, the introspector and a person.  A merge *)
(* is a graph transaction and, after it, a SQLite one; a writer may fail   *)
(* or die at any await.                                                    *)
(***************************************************************************)
EXTENDS Bitemporal, FiniteSets

CONSTANTS
  Names,      \* the names an extraction may read
  Born,       \* the nodes that exist from the start
  NameOf,     \* NameOf[n]: the name node n of Born was extracted under
  Mergers,    \* the writers that merge
  Unborn,     \* the key of a node that does not exist yet
  Released,   \* the key of a node whose name an unmerge handed on
  Nothing,
  MaxHands    \* bound on how often a person reverses or forgets something

Writers == {"worker", "introspector", "person"}
Merges  == [canonical : Nodes, members : SUBSET Nodes]

ASSUME EntityAssumption ==
  /\ IsFiniteSet(Nodes) /\ Nodes = 1..Cardinality(Nodes)
  /\ Born \subseteq Nodes
  /\ NameOf \in [Born -> Names]
  /\ \A n, m \in Born : n # m => NameOf[n] # NameOf[m]
  /\ Mergers \subseteq Writers
  /\ {Unborn, Released} \cap Names = {} /\ Unborn # Released
  /\ MaxHands \in Nat

VARIABLES
  key,       \* key[n]: name_norm
  mention,   \* mention[n]: the newest MENTIONS edge of n
  records,   \* records[n]: merge_provenance, one record per absorbed node
  decisions, \* the entity_merge_decisions rows
  marked,    \* the merges whose `entity.merge:` ledger key is marked
  cursor,    \* where merge_decision_reconcile stopped
  at, on,    \* the await each writer stands at, and what it works on
  owed,      \* history: the merges this walk of the trail has to explain
  hands      \* the person's reversals and forgets so far

graph  == <<node, lineage, clock, key, mention, records>>
tables == <<decisions, marked, cursor>>
place  == <<at, on>>
bounds == <<hands, owed>>
vars   == <<graph, tables, place, bounds>>

Places == {"idle", "linking", "merging", "recording", "decaying", "closing",
           "reconciling", "forgetting", "splitting", "reopening"}

TypeOK ==
  /\ GraphTypeOK
  /\ key \in [Nodes -> Names \cup {Unborn, Released}]
  /\ mention \in [Nodes -> {"none", "closed", "open"}]
  /\ \A n \in Nodes : \A r \in records[n] :
       r.merged \in Nodes /\ r.key \in Names \cup {Released} /\ r.split \in BOOLEAN
  /\ decisions \subseteq Merges /\ marked \subseteq Merges
  /\ cursor \in Nodes \cup {0}
  /\ at \in [Writers -> Places]

Init ==
  /\ GraphInit
  /\ key = [n \in Nodes |-> IF n \in Born THEN NameOf[n] ELSE Unborn]
  /\ mention = [n \in Nodes |-> IF n \in Born THEN "open" ELSE "none"]
  /\ records = [n \in Nodes |-> {}]
  /\ decisions = {} /\ marked = {} /\ cursor = 0
  /\ at = [w \in Writers |-> "idle"] /\ on = [w \in Writers |-> Nothing]
  /\ hands = 0 /\ owed = {}

-----------------------------------------------------------------------------

Exists(n)   == key[n] # Unborn
Standing(n) == Exists(n) /\ Current(n)
Owners(nm)  == {n \in Nodes : key[n] = nm}
NextNode    == {n \in Nodes : ~Exists(n) /\ \A m \in Nodes : m < n => Exists(m)}

Go(w, to, what) == at' = [at EXCEPT ![w] = to] /\ on' = [on EXCEPT ![w] = what]
Leave(w)        == Go(w, "idle", Nothing)

(* Everything that reaches n along SUPERSEDES edges, open or closed: the    *)
(* walk of the MERGE statement asks nothing of the edges.                   *)
EverPreceded(n) == {m \in Nodes : lineage[<<m, n>>].created # Never}
Above(step(_), n) ==
  {m \in Nodes : \A S \in SUBSET Nodes :
      step(n) \subseteq S /\ (\A k \in S : step(k) \subseteq S) => m \in S}

-----------------------------------------------------------------------------
(* The extraction: one MERGE on the name, then, after the embedding, the    *)
(* mention.                                                                 *)

(* ON MATCH: a node that maintenance closed is current again.               *)
Reopens(n) == Closed(n) /\ node[n].closedBy

(* The oldest current node the chain leads to, when the node stays closed.  *)
Resolved(n) ==
  LET heads == {m \in Above(EverPreceded, n) : Standing(m)}
  IN IF Closed(n) /\ ~Reopens(n) /\ heads # {}
     THEN CHOOSE h \in heads : \A m \in heads : h <= m ELSE n

MergesEntity(nm) ==
  /\ at["worker"] = "idle"
  /\ \/ \E n \in Owners(nm) :
          /\ node' = IF Reopens(n) THEN [node EXCEPT ![n] = Fresh] ELSE node
          /\ Go("worker", "linking", Resolved(n))
          /\ UNCHANGED key
     \/ /\ Owners(nm) = {}
        /\ \E n \in NextNode : key' = [key EXCEPT ![n] = nm] /\ Go("worker", "linking", n)
        /\ UNCHANGED node
  /\ UNCHANGED <<lineage, clock, mention, records, tables, bounds>>

LinksMention ==
  /\ at["worker"] = "linking"
  /\ mention' = [mention EXCEPT ![on["worker"]] = "open"]
  /\ Leave("worker")
  /\ UNCHANGED <<node, lineage, clock, key, records, tables, bounds>>

-----------------------------------------------------------------------------
(* A merge, whoever decided it: the cascade, merge_auto, a proposal.  The    *)
(* names of the members are those of the load.                               *)

MergeOf(group) == [canonical |-> group.canonical, members |-> group.members]

LoadsGroup(w, c, members) ==
  /\ w \in Mergers /\ at[w] = "idle"
  /\ c \notin members /\ members # {}
  /\ \A n \in members \cup {c} : Exists(n) /\ ~Closed(n)
  /\ [canonical |-> c, members |-> members] \notin marked
  /\ Go(w, "merging", [canonical |-> c, members |-> members,
                       keys |-> [n \in members |-> key[n]]])
  /\ UNCHANGED <<graph, tables, bounds>>

(* One record per absorbed node: the name it was loaded under, and the       *)
(* lineage edges it has, closed ones included.                               *)
RecordOf(x, name, members) ==
  [merged |-> x, members |-> members, key |-> name, split |-> FALSE,
   mentioned |-> mention[x] # "none",
   out |-> {y \in Nodes : lineage[<<x, y>>].created # Never},
   in  |-> {y \in Nodes : lineage[<<y, x>>].created # Never}]

(* The open lineage of a member moves onto the canonical, in both           *)
(* directions, and each member is superseded by it.                         *)
Open(e) == lineage[e].created # Never /\ lineage[e].validUntil = Never

Opened(c, members) ==
  LET outside == Nodes \ (members \cup {c})
      moved == {<<c, y>> : y \in {z \in outside : \E x \in members : Open(<<x, z>>)}}
               \cup {<<y, c>> : y \in {z \in outside : \E x \in members : Open(<<z, x>>)}}
  IN moved \cup ({c} \X members)

OpenedBy(edges) ==
  lineage' = [e \in Nodes \X Nodes |->
                IF e \in edges THEN Upserted(lineage[e], clock) ELSE lineage[e]]

(* The property is set whole: the stored records and the added ones.        *)
OnlyAdded(stored, added) == added                \* the list of an older read
Trail(stored, added) == stored \cup added

HeldByReopen == IF at["person"] = "reopening" THEN on["person"].found ELSE {}

AbsorbsUnchecked(w) ==                           \* no currency read under the locks
  LET c == on[w].canonical  members == on[w].members IN
  /\ at[w] = "merging"
  /\ OpenedBy(Opened(c, members))
  /\ node' = [n \in Nodes |-> IF n \in members THEN CloseStamps(node[n], clock, clock) ELSE node[n]]
  /\ records' = [records EXCEPT ![c] = Trail(@, {RecordOf(x, on[w].keys[x], members) : x \in members})]
  /\ mention' = IF \E x \in members : mention[x] = "open"
                THEN [mention EXCEPT ![c] = "open"] ELSE mention
  /\ Go(w, "recording", MergeOf(on[w]))
  /\ UNCHANGED <<clock, key, tables, bounds>>

(* redirectAndAbsorb, under the locks of the whole group.  A side that lost *)
(* its currency makes the group stale and nothing is written.  It waits for  *)
(* an edge that a reopen holds.                                              *)
Absorbs(w) ==
  LET c == on[w].canonical  members == on[w].members IN
  /\ at[w] = "merging"
  /\ \A n \in members \cup {c} : Current(n)
  /\ Opened(c, members) \cap HeldByReopen = {}
  /\ OpenedBy(Opened(c, members))
  /\ node' = [n \in Nodes |-> IF n \in members THEN CloseStamps(node[n], clock, clock) ELSE node[n]]
  /\ records' = [records EXCEPT ![c] = Trail(@, {RecordOf(x, on[w].keys[x], members) : x \in members})]
  /\ mention' = IF \E x \in members : mention[x] = "open"
                THEN [mention EXCEPT ![c] = "open"] ELSE mention
  /\ Go(w, "recording", MergeOf(on[w]))
  /\ UNCHANGED <<clock, key, tables, bounds>>

GroupIsStale(w) ==
  /\ at[w] = "merging"
  /\ \E n \in on[w].members \cup {on[w].canonical} : ~Current(n)
  /\ Leave(w)
  /\ UNCHANGED <<graph, tables, bounds>>

RecordsFirst(w) ==                               \* SQLite before the graph
  /\ at[w] \in {"merging", "recording"}
  /\ decisions' = decisions \cup {MergeOf(on[w])}
  /\ marked' = marked \cup {MergeOf(on[w])}
  /\ Leave(w)
  /\ UNCHANGED <<graph, cursor, bounds>>

RecordsDecision(w) ==
  /\ at[w] = "recording"
  /\ decisions' = decisions \cup {on[w]}
  /\ marked' = marked \cup {on[w]}
  /\ Leave(w)
  /\ UNCHANGED <<graph, cursor, bounds>>

-----------------------------------------------------------------------------
(* identifier_decay.  The age of a mention is not kept: the half-life may   *)
(* pass between any two steps.  The scan spares the target of a merge; the  *)
(* close asks about the mentions again, but its read takes no lock, so      *)
(* another writer may commit between the read and the close.                *)

Silent(n) == Standing(n) /\ mention[n] = "open"

DecayScans(n) ==
  /\ at["introspector"] = "idle"
  /\ Silent(n)
  /\ \A m \in Nodes : n \notin EverPreceded(m)
  /\ Go("introspector", "decaying", n)
  /\ UNCHANGED <<graph, tables, bounds>>

DecayReads ==
  /\ at["introspector"] = "decaying"
  /\ IF Silent(on["introspector"]) THEN Go("introspector", "closing", on["introspector"])
                                   ELSE Leave("introspector")
  /\ UNCHANGED <<graph, tables, bounds>>

DecayCloses ==
  LET n == on["introspector"] IN
  /\ at["introspector"] = "closing"
  /\ node' = [node EXCEPT ![n] =
                [CloseStamps(@, clock, clock) EXCEPT !.forgotten = TRUE, !.closedBy = TRUE]]
  /\ mention' = [mention EXCEPT ![n] = "closed"]
  /\ Leave("introspector")
  /\ UNCHANGED <<lineage, clock, key, records, tables, bounds>>

-----------------------------------------------------------------------------
(* merge_decision_reconcile: one page of canonicals in id order, the cursor *)
(* written as soon as the page is read; a short page sends it to the start. *)

MergesOn(c) == {[canonical |-> c, members |-> r.members] : r \in records[c]}

PageOfCurrent ==                                 \* canonicals that still stand
  {c \in Nodes : cursor < c /\ records[c] # {} /\ Current(c)
     /\ \A b \in Nodes : cursor < b /\ b < c => records[b] = {} \/ ~Current(b)}

Page ==
  {c \in Nodes : cursor < c /\ records[c] # {}
     /\ \A b \in Nodes : cursor < b /\ b < c => records[b] = {}}

ReconcileReads ==
  /\ at["introspector"] = "idle"
  /\ cursor' = IF Page = {} THEN 0 ELSE CHOOSE c \in Page : TRUE
  /\ owed' = IF Page = {} THEN {}
             ELSE IF cursor = 0 THEN UNION {MergesOn(c) : c \in Nodes} ELSE owed
  /\ Go("introspector", "reconciling", UNION {MergesOn(c) : c \in Page})
  /\ UNCHANGED <<graph, decisions, marked, hands>>

(* A row for every merge of the page that has none; the ledger is not        *)
(* marked.                                                                   *)
ReconcileWrites ==
  /\ at["introspector"] = "reconciling"
  /\ decisions' = decisions \cup on["introspector"]
  /\ Leave("introspector")
  /\ UNCHANGED <<graph, marked, cursor, bounds>>

-----------------------------------------------------------------------------
(* The person. *)

ByHand == hands < MaxHands /\ hands' = hands + 1

(* `aion forget`: the node is shown, then a person confirms. *)
PreviewsForget(n) ==
  /\ at["person"] = "idle" /\ hands < MaxHands
  /\ Exists(n) /\ ~node[n].forgotten
  /\ Go("person", "forgetting", n)
  /\ UNCHANGED <<graph, tables, bounds>>

Forgets ==
  LET n == on["person"] IN
  /\ at["person"] = "forgetting"
  /\ ByHand
  /\ ForgetNode(n)
  /\ Leave("person")
  /\ UNCHANGED <<clock, key, mention, records, tables, owed>>

(* `aion unmerge`: any canonical with a trail above the node, and the first  *)
(* record for the node on it.                                                *)
PreviewsUnmerge(x) ==
  /\ at["person"] = "idle" /\ hands < MaxHands
  /\ \E c \in EverPreceded(x) : \E r \in records[c] :
       /\ r.merged = x
       /\ \A s \in records[c] : s.merged = x => ~s.split
       /\ Go("person", "splitting", [canonical |-> c, record |-> r])
  /\ UNCHANGED <<graph, tables, bounds>>

(* applyUnmerge: the name goes to a new node, which supersedes the absorbed  *)
(* one and takes back every edge on the record, the closed ones too.  A      *)
(* second owner of the name fails the transaction.                           *)
Splits ==
  LET c == on["person"].canonical  r == on["person"].record IN
  /\ at["person"] = "splitting"
  /\ ByHand
  /\ r.key = Released \/ Owners(r.key) \subseteq {r.merged}
  /\ \E n \in NextNode :
       LET restored == ({n} \X (r.out \cup {r.merged})) \cup (r.in \X {n}) IN
       /\ key' = [key EXCEPT ![r.merged] = Released, ![n] = r.key]
       /\ OpenedBy(restored)
       /\ node' = [node EXCEPT ![r.merged] = CloseStamps(@, clock, clock)]
       /\ mention' = IF r.mentioned THEN [mention EXCEPT ![n] = "open"] ELSE mention
  /\ records' = [records EXCEPT ![c] =
                   {IF s.merged = r.merged THEN [s EXCEPT !.split = TRUE] ELSE s : s \in @}]
  /\ Leave("person")
  /\ UNCHANGED <<clock, tables, owed>>

(* `aion unsupersede`: the first statement of its transaction, and the       *)
(* second with the commit.                                                   *)
FindsLineage(n) ==
  /\ at["person"] = "idle" /\ hands < MaxHands
  /\ Closed(n) \/ Successors(n) # {}
  /\ Go("person", "reopening", [node |-> n, found |-> LineageInto(n)])
  /\ UNCHANGED <<graph, tables, bounds>>

Unsupersedes ==
  /\ at["person"] = "reopening"
  /\ ByHand
  /\ Unsupersede(on["person"].node, on["person"].found, clock)
  /\ Leave("person")
  /\ UNCHANGED <<clock, key, mention, records, tables, owed>>

(* A call that fails, a run that is cut off, a prompt answered with no, a    *)
(* process that dies: what is committed stays.                               *)
Abandons(w) ==
  /\ at[w] # "idle"
  /\ owed' = IF at[w] = "reconciling" THEN owed \ on[w] ELSE owed
  /\ Leave(w)
  /\ UNCHANGED <<graph, tables, hands>>

-----------------------------------------------------------------------------

Next ==
  \/ \E nm \in Names : MergesEntity(nm)
  \/ LinksMention
  \/ \E n \in Nodes :
       \/ DecayScans(n)
       \/ PreviewsForget(n) \/ PreviewsUnmerge(n) \/ FindsLineage(n)
  \/ \E w \in Writers :
       \/ \E c \in Nodes, members \in SUBSET Nodes : LoadsGroup(w, c, members)
       \/ Absorbs(w) \/ GroupIsStale(w) \/ RecordsDecision(w) \/ Abandons(w)
  \/ DecayReads \/ DecayCloses \/ ReconcileReads \/ ReconcileWrites
  \/ Forgets \/ Splits \/ Unsupersedes

Spec == Init /\ [][Next]_vars

-----------------------------------------------------------------------------
(* A node that was closed without a mark of the upkeep was merged or split:  *)
(* along open lineage there is a node that still stands for it.  Merges      *)
(* of overlapping groups, undone, redone and raced by decay, leave no circle *)
(* of closed nodes and no dead end behind (entity-merge-queries.ts:350).     *)
Absent(n) == Exists(n) /\ Closed(n) /\ ~node[n].closedBy
HeirsOf(n) == {m \in Nodes : Open(<<m, n>>)}
MergedNamesHaveAnHeir ==
  \A n \in Nodes : Absent(n) => \E m \in Above(HeirsOf, n) : ~Absent(m)

(* Whatever a merge closed can be named again: a canonical above the node    *)
(* carries its record, with the key it had, or the key was handed on already *)
(* (unmerge-queries.ts:311, "a merge that landed in between would otherwise  *)
(* have its alias and its record erased by this write").                     *)
AbsorbedCanBeSplit ==
  \A x \in Nodes :
    Absent(x) => \E c \in EverPreceded(x) : \E r \in records[c] :
                    r.merged = x /\ (r.split \/ r.key = key[x])

(* A decision row, and the ledger mark beside it, speak of a merge that is   *)
(* in the graph, whoever wrote the row: the writer that merged, or the       *)
(* reconcile that found the merge without one.                               *)
DecisionsAreTrue ==
  \A d \in decisions \cup marked : \A x \in d.members :
    \E r \in records[d.canonical] : r.merged = x /\ r.members = d.members

(* A walk of the whole trail explains every merge that was in the graph when *)
(* it began, whatever merges, splits and deaths its pages are interleaved    *)
(* with; only a page that was cut off may be left for the next walk          *)
(* (merge-decision-reconcile-operation.ts:141, "a run that always started at *)
(* the lexicographically first canonical would ... never reach an orphan     *)
(* behind it").                                                              *)
WalkExplainsAll == [][cursor # 0 /\ cursor' = 0 => owed \subseteq decisions]_vars
=============================================================================
