----------------------- MODULE EntityLifecycleProofs -----------------------
(***************************************************************************)
(* What merges, splits, decay, forgetting and the walk of the trail leave  *)
(* behind, for any number of entities, any names and any of the three      *)
(* writers merging at once.                                                *)
(***************************************************************************)
EXTENDS EntityLifecycle, FiniteSetTheorems, WellFoundedInduction, TLAPS

Keys   == Names \cup {Released}
Record == [merged : Nodes, members : SUBSET Nodes, key : Keys, split : BOOLEAN,
           mentioned : BOOLEAN, out : SUBSET Nodes, in : SUBSET Nodes]

Desks == at \in [Writers -> Places] /\ on = [w \in Writers |-> on[w]]

(* Types, and what a record, an absorbed node and a writer refer to exists. *)
Stored ==
  /\ GraphTypeOK
  /\ key \in [Nodes -> Keys \cup {Unborn}]
  /\ mention \in [Nodes -> {"none", "closed", "open"}]
  /\ records \in [Nodes -> SUBSET Record]
  /\ decisions \subseteq Merges /\ marked \subseteq Merges
  /\ cursor \in Nodes \cup {0}
  /\ Desks

(* A node is born open, and what a trail names was born.                    *)
Births ==
  /\ \A n \in Nodes : Closed(n) => Exists(n)
  /\ \A c \in Nodes : \A r \in records[c] : Exists(r.merged)

(* What a writer holds across its awaits.                                   *)
Holds(w) ==
  /\ at[w] \in {"linking", "decaying", "closing", "forgetting"} => on[w] \in Nodes /\ Exists(on[w])
  /\ at[w] = "merging" =>
       /\ on[w].canonical \in Nodes /\ on[w].members \subseteq Nodes
       /\ on[w].canonical \notin on[w].members
       /\ \A n \in on[w].members : Exists(n) /\ on[w].keys[n] \in Keys
  /\ at[w] = "recording" => on[w] \in Merges
  /\ at[w] = "reconciling" => on[w] \subseteq Merges
  /\ at[w] = "splitting" => on[w] \in [canonical : Nodes, record : Record] /\ Exists(on[w].record.merged)
  /\ at[w] = "reopening" => on[w].node \in Nodes /\ \A e \in on[w].found : e[2] = on[w].node

Typed == Stored /\ Births /\ \A w \in Writers : Holds(w)

-----------------------------------------------------------------------------
(* No set of absent nodes keeps its heirs to itself.                        *)
NoDeadEnd ==
  \A S \in SUBSET Nodes :
    S # {} /\ (\A n \in S : Absent(n)) => \E n \in S : ~(HeirsOf(n) \subseteq S)

(* A record above an absorbed node names it, and a split that was previewed *)
(* finds the record still there.                                            *)
Named(x, c) == c \in EverPreceded(x) /\ \E r \in records[c] : r.merged = x
SplitsWhatIsNamed ==
  \A w \in Writers : at[w] = "splitting" => Named(on[w].record.merged, on[w].canonical)

(* The name a merge loaded a member under is the one it still has, unless a  *)
(* split handed it on, and then a record above the member says so.           *)
HandedOn(x) == \E c \in EverPreceded(x) : \E r \in records[c] : r.merged = x /\ r.split
KeysKnown ==
  \A w \in Writers : at[w] = "merging" =>
    \A x \in on[w].members : on[w].keys[x] = key[x] \/ HandedOn(x)

(* A merge the trail explains: it has a record for each of its members.     *)
Explained(d) ==
  \A x \in d.members : \E r \in records[d.canonical] : r.merged = x /\ r.members = d.members
TrailIsWhole == \A c \in Nodes : \A d \in MergesOn(c) : Explained(d)
TrueDesk(w) == /\ at[w] = "recording" => Explained(on[w])
               /\ at[w] = "reconciling" => \A d \in on[w] : Explained(d)
DesksAreTrue == \A w \in Writers : TrueDesk(w)

(* What a walk owes is explained, on the desk, or still ahead of it.        *)
Walk ==
  cursor # 0 =>
    \A d \in owed :
      \/ d \in decisions
      \/ at["introspector"] = "reconciling" /\ d \in on["introspector"]
      \/ d.canonical \in Nodes /\ cursor < d.canonical /\ d \in MergesOn(d.canonical)

IInv == /\ Typed /\ NoDeadEnd /\ AbsorbedCanBeSplit /\ SplitsWhatIsNamed
        /\ KeysKnown /\ TrailIsWhole /\ DesksAreTrue /\ DecisionsAreTrue /\ Walk

-----------------------------------------------------------------------------
(* The writes of the graph, one node or edge at a time. *)

LEMMA StampsClose ==
  ASSUME NEW s \in Stamped, NEW k \in Nat
  PROVE  /\ CloseStamps(s, k, k) \in Stamped
         /\ CloseStamps(s, k, k).validUntil # Never
         /\ CloseStamps(s, k, k).closedBy = s.closedBy
<1>1. CloseStamps(s, k, k) =
        [validUntil |-> Coalesce(s.validUntil, k), txUntil |-> Coalesce(s.txUntil, k),
         forgotten |-> s.forgotten, closedBy |-> s.closedBy]
  BY DEF CloseStamps
<1>2. /\ Coalesce(s.validUntil, k) \in Stamps /\ Coalesce(s.validUntil, k) # Never
      /\ Coalesce(s.txUntil, k) \in Stamps
  BY NeverAssumption DEF Coalesce, Stamped, Stamps
<1>3. s.forgotten \in BOOLEAN /\ s.closedBy \in BOOLEAN
  BY DEF Stamped
<1> QED BY <1>1, <1>2, <1>3 DEF Stamped

LEMMA EdgeOpens ==
  ASSUME NEW e \in Edge, NEW k \in Nat
  PROVE  /\ Upserted(e, k) \in Edge
         /\ Upserted(e, k).created # Never /\ Upserted(e, k).validUntil = Never
<1>1. CASE e.created = Never
  BY <1>1, NeverAssumption DEF Upserted, NoEdge, Edge, Stamps
<1>2. CASE e.created # Never /\ e.validUntil # Never
  <2>1. Upserted(e, k) = [created |-> e.created, validUntil |-> Never, txUntil |-> Never]
    BY <1>2 DEF Upserted, Edge
  <2> QED BY <1>2, <2>1 DEF Edge, Stamps
<1>3. CASE e.created # Never /\ e.validUntil = Never
  BY <1>3 DEF Upserted
<1> QED BY <1>1, <1>2, <1>3

LEMMA EdgeCloses ==
  ASSUME NEW e \in Edge, NEW k \in Nat
  PROVE  ClosedEdge(e, k) \in Edge /\ ClosedEdge(e, k).created = e.created
<1>1. CASE Held(e)
  <2>1. ClosedEdge(e, k) = [created |-> e.created, validUntil |-> k, txUntil |-> k]
    BY <1>1 DEF ClosedEdge, Edge
  <2> QED BY <2>1 DEF Edge, Stamps
<1>2. CASE ~Held(e)
  BY <1>2 DEF ClosedEdge
<1> QED BY <1>1, <1>2

(* A clause of edges written by upsert: what was open stays open, and what  *)
(* was asked for is.                                                        *)
LEMMA EdgesUpserted ==
  ASSUME lineage \in [Nodes \X Nodes -> Edge], clock \in Nat, NEW T \in SUBSET (Nodes \X Nodes),
         lineage' = [e \in Nodes \X Nodes |-> IF e \in T THEN Upserted(lineage[e], clock) ELSE lineage[e]]
  PROVE  /\ lineage' \in [Nodes \X Nodes -> Edge]
         /\ \A e \in Nodes \X Nodes : Open(e) => Open(e)'
         /\ \A e \in T : Open(e)'
         /\ \A e \in Nodes \X Nodes : lineage[e].created # Never => lineage'[e].created # Never
<1>1. \A e \in Nodes \X Nodes : lineage[e] \in Edge
  OBVIOUS
<1>2. \A e \in T : lineage'[e] \in Edge /\ lineage'[e].created # Never /\ lineage'[e].validUntil = Never
  BY <1>1, EdgeOpens
<1>3. \A e \in (Nodes \X Nodes) \ T : lineage'[e] = lineage[e]
  OBVIOUS
<1> QED BY <1>1, <1>2, <1>3 DEF Open

-----------------------------------------------------------------------------
(* What each transaction does. *)

Grows == \A n \in Nodes : Exists(n) => Exists(n)'
Linked == \A e \in Nodes \X Nodes : lineage[e].created # Never => lineage'[e].created # Never
Kin(r, s) == r.merged = s.merged /\ r.members = s.members
Kept == \A c \in Nodes : \A r \in records[c] : \E s \in records'[c] : Kin(r, s)

LEMMA GoEffect ==
  ASSUME Desks, NEW w \in Writers, NEW to \in Places, NEW what, Go(w, to, what)
  PROVE  /\ Desks' /\ at'[w] = to /\ on'[w] = what
         /\ \A v \in Writers \ {w} : at'[v] = at[v] /\ on'[v] = on[v]
BY DEF Desks, Go

LEMMA DeskMoves ==
  ASSUME Desks, \A v \in Writers : Holds(v), Grows, Linked,
         NEW w \in Writers, NEW to \in Places, NEW what, Go(w, to, what), Holds(w)'
  PROVE  Desks' /\ \A v \in Writers : Holds(v)'
<1>1. Desks' /\ \A v \in Writers \ {w} : at'[v] = at[v] /\ on'[v] = on[v]
  BY GoEffect
<1>2. ASSUME NEW v \in Writers \ {w} PROVE Holds(v)'
  <2>1. Holds(v) /\ at'[v] = at[v] /\ on'[v] = on[v]
    BY <1>1
  <2>3. \A d \in [canonical : Nodes, record : Record] : d.record.merged \in Nodes
    BY DEF Record
  <2> QED BY <2>1, <2>3 DEF Holds, Grows
<1> QED BY <1>1, <1>2

LEMMA DeskLeaves ==
  ASSUME Desks, \A v \in Writers : Holds(v), Grows, Linked, NEW w \in Writers, Leave(w)
  PROVE  Desks' /\ \A v \in Writers : Holds(v)'
<1>1. "idle" \in Places /\ Go(w, "idle", Nothing)
  BY DEF Places, Leave
<1>2. at'[w] = "idle"
  BY <1>1, GoEffect
<1>3. Holds(w)'
  BY <1>2 DEF Holds
<1> QED BY <1>1, <1>3, DeskMoves

-----------------------------------------------------------------------------
(* Types. *)

LEMMA NodesAreNumbers == Nodes \subseteq Nat /\ IsFiniteSet(Nodes)
<1>1. Cardinality(Nodes) \in Nat
  BY EntityAssumption, FS_CardinalityType
<1> QED BY <1>1, EntityAssumption

(* Some of the nodes, if any, have an oldest.                               *)
LEMMA Oldest ==
  ASSUME NEW S \in SUBSET Nodes, S # {}
  PROVE  \E h \in S : \A m \in S : h <= m
<1> DEFINE Before(h) == {m \in S : m < h}
           Cuts == {A \in SUBSET S : \E h \in S : A = Before(h)}
<1>1. S \subseteq Nat /\ IsFiniteSet(S)
  BY NodesAreNumbers, FS_Subset
<1>2. PICK A \in Cuts : \A B \in Cuts : ~(<<B, A>> \in StrictSubsetOrdering(S))
  <2>1. Cuts \subseteq FiniteSubsetsOf(S)
    BY <1>1, FS_FiniteSubsetsOfFinite
  <2>2. Cuts # {}
    <3>1. PICK h \in S : TRUE
      OBVIOUS
    <3>2. Before(h) \in Cuts
      OBVIOUS
    <3> QED BY <3>2
  <2> HIDE DEF Cuts
  <2> QED BY <1>1, <2>1, <2>2, FS_StrictSubsetOrderingWellFounded, WFMin
<1>3. PICK h \in S : A = Before(h)
  OBVIOUS
<1>4. ASSUME NEW m \in A PROVE FALSE
  <2>1. m \in S /\ m < h /\ Before(m) \in Cuts
    BY <1>3, <1>4
  <2>2. Before(m) \subseteq A /\ m \notin Before(m)
    <3>1. ~(m < m) /\ \A z \in S : z < m => z < h
      BY <1>1, <2>1
    <3> QED BY <1>3, <3>1
  <2>3. <<Before(m), A>> \in StrictSubsetOrdering(S)
    BY <1>4, <2>1, <2>2 DEF StrictSubsetOrdering
  <2> QED BY <1>2, <2>1, <2>3
<1>5. \A m \in S : h <= m
  BY <1>1, <1>3, <1>4
<1> QED BY <1>5

LEMMA ResolvedStands ==
  ASSUME NEW n \in Nodes, Exists(n)
  PROVE  Resolved(n) \in Nodes /\ Exists(Resolved(n))
<1> DEFINE heads == {m \in Above(EverPreceded, n) : Standing(m)}
<1>1. heads \in SUBSET Nodes /\ \A h \in heads : Exists(h)
  BY DEF Above, Standing
<1> HIDE DEF heads
<1>2. CASE heads = {}
  BY <1>2 DEF Resolved, heads
<1>3. CASE heads # {}
  <2>1. \E h \in heads : \A m \in heads : h <= m
    BY <1>1, <1>3, Oldest
  <2>2. (CHOOSE h \in heads : \A m \in heads : h <= m) \in heads
    BY <2>1
  <2>3. Resolved(n) = n \/ Resolved(n) = CHOOSE h \in heads : \A m \in heads : h <= m
    BY DEF Resolved, heads
  <2> QED BY <1>1, <2>2, <2>3
<1> QED BY <1>2, <1>3

(* A step that touches neither the graph nor the trail.                     *)
LEMMA GraphKept ==
  ASSUME UNCHANGED graph
  PROVE  Grows /\ Linked /\ Kept /\ (Births => Births')
BY DEF graph, Grows, Linked, Kept, Kin, Births, Exists, Closed

LEMMA MergesEntityTyped ==
  ASSUME Typed, NEW nm \in Names, MergesEntity(nm)
  PROVE  Typed' /\ Grows /\ Linked /\ Kept
<1> USE DEF Typed
<1>0. "worker" \in Writers /\ "linking" \in Places
  BY DEF Writers, Places
<1>1. Linked /\ Kept
  BY DEF MergesEntity, Linked, Kept, Kin
<1>2. CASE \E n \in Owners(nm) :
             /\ node' = IF Reopens(n) THEN [node EXCEPT ![n] = Fresh] ELSE node
             /\ Go("worker", "linking", Resolved(n))
             /\ UNCHANGED key
  <2>1. PICK n \in Owners(nm) :
             /\ node' = IF Reopens(n) THEN [node EXCEPT ![n] = Fresh] ELSE node
             /\ Go("worker", "linking", Resolved(n))
             /\ UNCHANGED key
    BY <1>2
  <2>2. n \in Nodes /\ Exists(n)
    BY <2>1, EntityAssumption DEF Owners, Exists
  <2>3. Grows
    BY <2>1 DEF Grows, Exists
  <2>4. node' \in [Nodes -> Stamped] /\ \A m \in Nodes : Closed(m)' => Closed(m)
    <3>1. Fresh \in Stamped /\ Fresh.validUntil = Never
      BY DEF Fresh, Stamped, Stamps
    <3> QED BY <2>1, <2>2, <3>1 DEF Stored, GraphTypeOK, Closed
  <2>5. Births'
    BY <2>1, <2>4 DEF MergesEntity, Births, Exists
  <2>6. PICK h \in Nodes : h = Resolved(n) /\ Exists(h)
    BY <2>2, ResolvedStands
  <2>7. Go("worker", "linking", h) /\ at'["worker"] = "linking" /\ on'["worker"] = h
    BY <1>0, <2>1, <2>6, GoEffect DEF Stored
  <2>8. Holds("worker")'
    BY <2>3, <2>6, <2>7 DEF Holds, Grows
  <2>9. Desks' /\ \A v \in Writers : Holds(v)'
    BY <1>0, <1>1, <2>7, <2>3, <2>8, DeskMoves DEF Stored
  <2> QED BY <1>1, <2>1, <2>3, <2>4, <2>5, <2>9 DEF MergesEntity, Stored, GraphTypeOK, tables
<1>3. CASE \E n \in NextNode : /\ key' = [key EXCEPT ![n] = nm] /\ Go("worker", "linking", n)
                               /\ UNCHANGED node
  <2>1. PICK n \in NextNode : /\ key' = [key EXCEPT ![n] = nm] /\ Go("worker", "linking", n)
                              /\ UNCHANGED node
    BY <1>3
  <2>2. n \in Nodes /\ ~Exists(n)
    BY <2>1 DEF NextNode
  <2>3. /\ key' \in [Nodes -> Keys \cup {Unborn}] /\ key'[n] # Unborn
        /\ \A m \in Nodes \ {n} : key'[m] = key[m]
    BY <2>1, <2>2, EntityAssumption DEF Stored, Keys
  <2>4. Grows /\ Exists(n)'
    BY <2>3 DEF Grows, Exists
  <2>5. Births'
    BY <2>1, <2>4 DEF MergesEntity, Births, Grows, Closed, Stored, Record
  <2>6. at'["worker"] = "linking" /\ on'["worker"] = n
    BY <1>0, <2>1, GoEffect DEF Stored
  <2>7. Holds("worker")'
    BY <2>2, <2>4, <2>6 DEF Holds
  <2>8. Desks' /\ \A v \in Writers : Holds(v)'
    BY <1>0, <1>1, <2>1, <2>4, <2>7, DeskMoves DEF Stored
  <2> QED BY <1>1, <2>1, <2>3, <2>4, <2>5, <2>8 DEF MergesEntity, Stored, GraphTypeOK, tables
<1> QED BY <1>2, <1>3 DEF MergesEntity

LEMMA LinksMentionTyped ==
  ASSUME Typed, LinksMention
  PROVE  Typed' /\ Grows /\ Linked /\ Kept
<1> USE DEF Typed
<1>1. "worker" \in Writers
  BY DEF Writers
<1>2. Grows /\ Linked /\ Kept /\ Births'
  BY DEF LinksMention, Grows, Linked, Kept, Kin, Births, Exists, Closed
<1>3. mention' \in [Nodes -> {"none", "closed", "open"}]
  BY <1>1 DEF LinksMention, Stored, Holds
<1>4. Desks' /\ \A v \in Writers : Holds(v)'
  BY <1>1, <1>2, DeskLeaves DEF LinksMention, Stored
<1> QED BY <1>2, <1>3, <1>4 DEF LinksMention, Stored, GraphTypeOK, tables

(* A merge: its members close, the canonical and everybody else keep their  *)
(* stamps, every edge that was open still is, and each member has an open   *)
(* edge from the canonical and a record on it.                              *)
LEMMA MergeEffect ==
  ASSUME Typed, NEW w \in Writers, Absorbs(w),
         NEW c, c = on[w].canonical, NEW members, members = on[w].members
  PROVE  /\ MergeOf(on[w]) \in Merges /\ c \in Nodes /\ members \subseteq Nodes /\ c \notin members
         /\ node' \in [Nodes -> Stamped] /\ lineage' \in [Nodes \X Nodes -> Edge]
         /\ \A n \in Nodes \ members : node'[n] = node[n]
         /\ \A n \in members : Closed(n)' /\ Exists(n) /\ Current(n)
         /\ ~Closed(c)
         /\ \A e \in Nodes \X Nodes : Open(e) => Open(e)'
         /\ \A x \in members : Open(<<c, x>>)'
         /\ Linked
<1> DEFINE T == Opened(c, members)
<1>1. c \in Nodes /\ members \subseteq Nodes /\ c \notin members /\ \A n \in members : Exists(n)
  BY DEF Typed, Holds, Absorbs
<1>2. MergeOf(on[w]) \in Merges
  BY <1>1 DEF Merges, MergeOf
<1>3. /\ \A n \in members \cup {c} : Current(n)
      /\ OpenedBy(T)
      /\ node' = [n \in Nodes |-> IF n \in members THEN CloseStamps(node[n], clock, clock) ELSE node[n]]
  BY DEF Absorbs
<1>4. /\ node \in [Nodes -> Stamped] /\ lineage \in [Nodes \X Nodes -> Edge] /\ clock \in Nat
  BY DEF Typed, Stored, GraphTypeOK
<1>5. /\ node' \in [Nodes -> Stamped]
      /\ \A n \in Nodes \ members : node'[n] = node[n]
      /\ \A n \in members : node'[n].validUntil # Never
  <2>1. \A n \in members : CloseStamps(node[n], clock, clock) \in Stamped
                           /\ CloseStamps(node[n], clock, clock).validUntil # Never
    BY <1>1, <1>4, StampsClose
  <2> QED BY <1>1, <1>3, <1>4, <2>1
<1>6. T \in SUBSET (Nodes \X Nodes) /\ \A x \in members : <<c, x>> \in T
  <2>1. /\ \A e \in T : e \in Nodes \X Nodes
        /\ {c} \X members \subseteq T
    BY <1>1 DEF Opened
  <2> HIDE DEF T
  <2> QED BY <2>1
<1>7. lineage' = [e \in Nodes \X Nodes |-> IF e \in T THEN Upserted(lineage[e], clock) ELSE lineage[e]]
  BY <1>3 DEF OpenedBy
<1> HIDE DEF T
<1>8. /\ lineage' \in [Nodes \X Nodes -> Edge]
      /\ \A e \in Nodes \X Nodes : Open(e) => Open(e)'
      /\ \A e \in T : Open(e)'
      /\ Linked
  BY <1>4, <1>6, <1>7, EdgesUpserted DEF Linked
<1>9. \A x \in members : Open(<<c, x>>)'
  BY <1>6, <1>8
<1>10. /\ \A n \in members : Closed(n)' /\ Exists(n) /\ Current(n)
       /\ ~Closed(c)
  BY <1>1, <1>3, <1>5 DEF Closed, Current
<1> QED BY <1>1, <1>2, <1>5, <1>8, <1>9, <1>10

LEMMA RecordTyped ==
  ASSUME Stored, NEW x \in Nodes, NEW name \in Keys, NEW members \in SUBSET Nodes
  PROVE  /\ RecordOf(x, name, members) \in Record
         /\ RecordOf(x, name, members).merged = x /\ RecordOf(x, name, members).members = members
         /\ RecordOf(x, name, members).key = name
<1>1. (mention[x] # "none") \in BOOLEAN
  OBVIOUS
<1>2. /\ {y \in Nodes : lineage[<<x, y>>].created # Never} \in SUBSET Nodes
      /\ {y \in Nodes : lineage[<<y, x>>].created # Never} \in SUBSET Nodes
  OBVIOUS
<1> QED BY <1>1, <1>2 DEF RecordOf, Record

(* The trail of the canonical gains a record for each member, and no other  *)
(* trail changes.                                                           *)
LEMMA TrailEffect ==
  ASSUME Typed, NEW w \in Writers, Absorbs(w),
         NEW c, c = on[w].canonical, NEW members, members = on[w].members,
         NEW names, names = on[w].keys
  PROVE  /\ records' \in [Nodes -> SUBSET Record] /\ Kept
         /\ \A b \in Nodes : records[b] \subseteq records'[b]
         /\ \A b \in Nodes \ {c} : records'[b] = records[b]
         /\ \A x \in members : \E r \in records'[c] :
                r.merged = x /\ r.members = members /\ r.key = names[x]
         /\ \A r \in records'[c] \ records[c] : r.merged \in members /\ r.members = members
<1> DEFINE added == {RecordOf(x, names[x], members) : x \in members}
<1>1. c \in Nodes /\ members \subseteq Nodes /\ \A n \in members : names[n] \in Keys
  BY DEF Typed, Holds, Absorbs
<1>2. records' = [records EXCEPT ![c] = records[c] \cup added]
  BY DEF Absorbs, Trail
<1>3. \A x \in members : /\ RecordOf(x, names[x], members) \in Record
                         /\ RecordOf(x, names[x], members).merged = x /\ RecordOf(x, names[x], members).members = members
                         /\ RecordOf(x, names[x], members).key = names[x]
  <2> SUFFICES ASSUME NEW x \in members
               PROVE  /\ RecordOf(x, names[x], members) \in Record
                      /\ RecordOf(x, names[x], members).merged = x /\ RecordOf(x, names[x], members).members = members
                      /\ RecordOf(x, names[x], members).key = names[x]
    OBVIOUS
  <2>1. Stored /\ x \in Nodes /\ names[x] \in Keys /\ members \in SUBSET Nodes
    BY <1>1 DEF Typed
  <2> QED BY <2>1, RecordTyped
<1>4. added \in SUBSET Record
  BY <1>3
<1>5. /\ \A r \in added : r.merged \in members /\ r.members = members
      /\ \A x \in members : \E r \in added : r.merged = x /\ r.members = members /\ r.key = names[x]
  BY <1>3
<1> HIDE DEF added
<1>6. records \in [Nodes -> SUBSET Record]
  BY DEF Typed, Stored
<1>7. records'[c] = records[c] \cup added /\ \A b \in Nodes \ {c} : records'[b] = records[b]
  BY <1>1, <1>2, <1>6
<1>8. \A b \in Nodes : records[b] \subseteq records'[b]
  BY <1>7
<1>9. Kept
  BY <1>8 DEF Kept, Kin
<1> QED BY <1>1, <1>2, <1>4, <1>5, <1>6, <1>7, <1>8, <1>9

LEMMA AbsorbsTyped ==
  ASSUME Typed, NEW w \in Writers, Absorbs(w)
  PROVE  Typed' /\ Grows /\ Linked /\ Kept
<1>0. PICK c, members : c = on[w].canonical /\ members = on[w].members
  OBVIOUS
<1> USE <1>0
<1>1. /\ MergeOf(on[w]) \in Merges /\ c \notin members /\ Linked
      /\ node' \in [Nodes -> Stamped] /\ lineage' \in [Nodes \X Nodes -> Edge]
      /\ \A n \in Nodes \ members : node'[n] = node[n]
      /\ \A n \in members : Exists(n)
  BY <1>0, MergeEffect
<1>2. c \in Nodes /\ members \subseteq Nodes
  BY <1>0, MergeEffect
<1>3. Grows /\ UNCHANGED key
  BY DEF Absorbs, Grows, Exists
<1>4. records' \in [Nodes -> SUBSET Record] /\ Kept
  BY <1>0, TrailEffect
<1>5. mention' \in [Nodes -> {"none", "closed", "open"}]
  BY <1>0, <1>2 DEF Absorbs, Typed, Stored
<1>6. Births'
  <2>1. ASSUME NEW n \in Nodes, Closed(n)' PROVE Exists(n)'
    BY <1>1, <1>3, <2>1 DEF Closed, Exists, Typed, Births
  <2>2. ASSUME NEW b \in Nodes, NEW r \in records'[b] PROVE Exists(r.merged)'
    <3>1. r \in records[b] \/ (b = c /\ r.merged \in members)
      BY <1>0, TrailEffect
    <3> QED BY <1>1, <1>3, <3>1 DEF Exists, Typed, Births
  <2> QED BY <2>1, <2>2 DEF Births
<1>7. Desks' /\ \A v \in Writers : Holds(v)'
  <2>1. "recording" \in Places /\ Go(w, "recording", MergeOf(on[w]))
    BY DEF Places, Absorbs
  <2>2. at'[w] = "recording" /\ on'[w] = MergeOf(on[w])
    BY <2>1, GoEffect DEF Typed, Stored
  <2>3. Holds(w)'
    BY <1>1, <2>2 DEF Holds
  <2> QED BY <1>1, <1>3, <2>1, <2>3, DeskMoves DEF Typed, Stored
<1> QED BY <1>1, <1>3, <1>4, <1>5, <1>6, <1>7 DEF Absorbs, Typed, Stored, GraphTypeOK, tables

LEMMA DecayClosesTyped ==
  ASSUME Typed, DecayCloses
  PROVE  /\ Typed' /\ Grows /\ Linked /\ Kept
         /\ \A n \in Nodes : /\ node'[n].closedBy = node[n].closedBy /\ (Closed(n)' => Closed(n))
                             \/ node'[n].closedBy
<1> USE DEF Typed
<1>0. PICK n : n = on["introspector"]
  OBVIOUS
<1> USE <1>0
<1>1. "introspector" \in Writers /\ n \in Nodes /\ Exists(n)
  BY DEF Writers, DecayCloses, Holds
<1>2. Grows /\ Linked /\ Kept
  BY DEF DecayCloses, Grows, Linked, Kept, Kin, Exists
<1>3. /\ node' \in [Nodes -> Stamped] /\ node'[n].closedBy
      /\ \A m \in Nodes \ {n} : node'[m] = node[m]
  <2>1. /\ node \in [Nodes -> Stamped] /\ clock \in Nat
    BY DEF Stored, GraphTypeOK
  <2>2. PICK s \in Stamped : s = CloseStamps(node[n], clock, clock)
    BY <1>1, <2>1, StampsClose
  <2>3. node' = [node EXCEPT ![n] = [s EXCEPT !.forgotten = TRUE, !.closedBy = TRUE]]
    BY <2>2 DEF DecayCloses
  <2>4. [s EXCEPT !.forgotten = TRUE, !.closedBy = TRUE] \in Stamped
        /\ [s EXCEPT !.forgotten = TRUE, !.closedBy = TRUE].closedBy
    BY DEF Stamped
  <2> QED BY <1>1, <2>1, <2>3, <2>4
<1>4. mention' \in [Nodes -> {"none", "closed", "open"}]
  BY <1>1 DEF DecayCloses, Stored
<1>5. Births'
  BY <1>1, <1>3 DEF DecayCloses, Births, Exists, Closed
<1>6. Desks' /\ \A v \in Writers : Holds(v)'
  BY <1>1, <1>2, DeskLeaves DEF DecayCloses, Stored
<1>7. \A m \in Nodes : /\ node'[m].closedBy = node[m].closedBy /\ (Closed(m)' => Closed(m))
                       \/ node'[m].closedBy
  BY <1>3 DEF Closed
<1> QED BY <1>2, <1>3, <1>4, <1>5, <1>6, <1>7 DEF DecayCloses, Stored, GraphTypeOK, tables

LEMMA ForgetsTyped ==
  ASSUME Typed, Forgets
  PROVE  /\ Typed' /\ Grows /\ Linked /\ Kept
         /\ \A n \in Nodes : node'[n].closedBy = node[n].closedBy /\ (Closed(n)' <=> Closed(n))
<1> USE DEF Typed
<1>1. "person" \in Writers
  BY DEF Writers
<1>2. Grows /\ Linked /\ Kept
  BY DEF Forgets, ForgetNode, Grows, Linked, Kept, Kin, Exists
<1>3. /\ node' \in [Nodes -> Stamped]
      /\ \A m \in Nodes : node'[m].closedBy = node[m].closedBy /\ node'[m].validUntil = node[m].validUntil
  <2>1. PICK n : n = on["person"] /\ node' = [node EXCEPT ![n].forgotten = TRUE]
    BY DEF Forgets, ForgetNode
  <2>2. node \in [Nodes -> Stamped]
    BY DEF Stored, GraphTypeOK
  <2>3. \A s \in Stamped : [s EXCEPT !.forgotten = TRUE] \in Stamped
    BY DEF Stamped
  <2> QED BY <2>1, <2>2, <2>3 DEF Stamped
<1>4. Births' /\ \A m \in Nodes : Closed(m)' <=> Closed(m)
  BY <1>3 DEF Forgets, Births, Exists, Closed
<1>5. Desks' /\ \A v \in Writers : Holds(v)'
  BY <1>1, <1>2, DeskLeaves DEF Forgets, Stored
<1> QED BY <1>2, <1>3, <1>4, <1>5 DEF Forgets, ForgetNode, Stored, GraphTypeOK, tables

(* Reopening a node: it is open, and only edges into it close.              *)
LEMMA UnsupersedesTyped ==
  ASSUME Typed, Unsupersedes, NEW n, n = on["person"].node
  PROVE  /\ n \in Nodes /\ Typed' /\ Grows /\ Linked /\ Kept /\ ~Closed(n)'
         /\ \A m \in Nodes \ {n} : node'[m] = node[m]
         /\ \A e \in Nodes \X Nodes : e[2] # n => lineage'[e] = lineage[e]
<1> USE DEF Typed
<1>1. /\ node \in [Nodes -> Stamped] /\ lineage \in [Nodes \X Nodes -> Edge] /\ clock \in Nat
  BY DEF Stored, GraphTypeOK
<1>0. "person" \in Writers /\ n \in Nodes /\ \A e \in on["person"].found : e[2] = n
  BY DEF Writers, Unsupersedes, Holds
<1>2. /\ lineage' = [e \in Nodes \X Nodes |->
                      IF e \in on["person"].found THEN ClosedEdge(lineage[e], clock) ELSE lineage[e]]
      /\ node' = [node EXCEPT ![n].validUntil = Never, ![n].txUntil = Never]
      /\ UNCHANGED <<clock, key, mention, records, tables, owed>>
  BY DEF Unsupersedes, Unsupersede
<1>3. lineage' \in [Nodes \X Nodes -> Edge] /\ Linked
  <2>1. \A e \in Nodes \X Nodes : lineage'[e] \in Edge /\ lineage'[e].created = lineage[e].created
    BY <1>1, <1>2, EdgeCloses
  <2> QED BY <1>2, <2>1 DEF Linked
<1>4. /\ node' \in [Nodes -> Stamped] /\ ~Closed(n)'
      /\ \A m \in Nodes \ {n} : node'[m] = node[m]
  <2>1. \A s \in Stamped : /\ [s EXCEPT !.validUntil = Never, !.txUntil = Never] \in Stamped
                           /\ [s EXCEPT !.validUntil = Never, !.txUntil = Never].validUntil = Never
    BY DEF Stamped, Stamps
  <2>2. node' = [node EXCEPT ![n] = [node[n] EXCEPT !.validUntil = Never, !.txUntil = Never]]
    BY <1>0, <1>1, <1>2
  <2> QED BY <1>0, <1>1, <2>1, <2>2 DEF Closed
<1>5. Grows /\ Kept
  BY <1>2 DEF Grows, Kept, Kin, Exists
<1>6. Births'
  BY <1>2, <1>4 DEF Births, Exists, Closed
<1>7. Desks' /\ \A v \in Writers : Holds(v)'
  BY <1>0, <1>3, <1>5, DeskLeaves DEF Unsupersedes, Stored
<1>8. \A e \in Nodes \X Nodes : e[2] # n => lineage'[e] = lineage[e]
  BY <1>0, <1>2
<1> QED BY <1>0, <1>1, <1>2, <1>3, <1>4, <1>5, <1>6, <1>7, <1>8 DEF Stored, GraphTypeOK, tables

(* A split: the absorbed node x ends up closed, below a new node that is    *)
(* born open; names and stamps of the others stay, edges only open, and the *)
(* records of x on the canonical are marked.                                *)
LEMMA SplitEffect ==
  ASSUME Typed, Splits, NEW c, c = on["person"].canonical, NEW r, r = on["person"].record
  PROVE  /\ c \in Nodes /\ r \in Record /\ Exists(r.merged)
         /\ node' \in [Nodes -> Stamped] /\ lineage' \in [Nodes \X Nodes -> Edge]
         /\ Closed(r.merged)' /\ \A m \in Nodes \ {r.merged} : node'[m] = node[m]
         /\ node'[r.merged].closedBy = node[r.merged].closedBy
         /\ \A e \in Nodes \X Nodes : Open(e) => Open(e)'
         /\ Linked
         /\ key' \in [Nodes -> Keys \cup {Unborn}] /\ Grows
         /\ \E n \in Nodes : /\ ~Exists(n) /\ Exists(n)' /\ Open(<<n, r.merged>>)'
                             /\ \A m \in Nodes \ {n, r.merged} : key'[m] = key[m]
         /\ mention' \in [Nodes -> {"none", "closed", "open"}]
<1> USE DEF Typed
<1>1. /\ on["person"] \in [canonical : Nodes, record : Record]
      /\ Exists(on["person"].record.merged)
  BY DEF Splits, Holds, Writers
<1>2. /\ c \in Nodes /\ r \in Record /\ Exists(r.merged)
      /\ r.merged \in Nodes /\ r.key \in Keys /\ r.out \subseteq Nodes /\ r.in \subseteq Nodes
  BY <1>1 DEF Record
<1>3. PICK n \in NextNode :
        LET restored == ({n} \X (r.out \cup {r.merged})) \cup (r.in \X {n}) IN
        /\ key' = [key EXCEPT ![r.merged] = Released, ![n] = r.key]
        /\ OpenedBy(restored)
        /\ node' = [node EXCEPT ![r.merged] = CloseStamps(@, clock, clock)]
        /\ mention' = IF r.mentioned THEN [mention EXCEPT ![n] = "open"] ELSE mention
  BY DEF Splits
<1> DEFINE restored == ({n} \X (r.out \cup {r.merged})) \cup (r.in \X {n})
<1>4. n \in Nodes /\ ~Exists(n) /\ n # r.merged
  BY <1>2, <1>3 DEF NextNode
<1>5. /\ node \in [Nodes -> Stamped] /\ lineage \in [Nodes \X Nodes -> Edge] /\ clock \in Nat
      /\ key \in [Nodes -> Keys \cup {Unborn}] /\ mention \in [Nodes -> {"none", "closed", "open"}]
  BY DEF Stored, GraphTypeOK
<1>6. /\ node' \in [Nodes -> Stamped]
      /\ Closed(r.merged)' /\ \A m \in Nodes \ {r.merged} : node'[m] = node[m]
      /\ node'[r.merged].closedBy = node[r.merged].closedBy
  <2>1. /\ CloseStamps(node[r.merged], clock, clock) \in Stamped
        /\ CloseStamps(node[r.merged], clock, clock).validUntil # Never
        /\ CloseStamps(node[r.merged], clock, clock).closedBy = node[r.merged].closedBy
    BY <1>2, <1>5, StampsClose
  <2>2. node' = [node EXCEPT ![r.merged] = CloseStamps(node[r.merged], clock, clock)]
    BY <1>3
  <2>3. /\ node' \in [Nodes -> Stamped] /\ node'[r.merged] = CloseStamps(node[r.merged], clock, clock)
        /\ \A m \in Nodes \ {r.merged} : node'[m] = node[m]
    BY <1>2, <1>5, <2>1, <2>2
  <2>4. ASSUME NEW m \in Nodes, m = r.merged PROVE Closed(m)'
    BY <2>1, <2>3, <2>4 DEF Closed
  <2> QED BY <1>2, <2>1, <2>3, <2>4
<1>7. /\ lineage' \in [Nodes \X Nodes -> Edge] /\ Linked
      /\ \A e \in Nodes \X Nodes : Open(e) => Open(e)'
      /\ Open(<<n, r.merged>>)'
  <2>1. restored \in SUBSET (Nodes \X Nodes) /\ <<n, r.merged>> \in restored
    BY <1>2, <1>4
  <2>2. lineage' = [e \in Nodes \X Nodes |-> IF e \in restored THEN Upserted(lineage[e], clock) ELSE lineage[e]]
    BY <1>3 DEF OpenedBy
  <2> HIDE DEF restored
  <2>3. /\ lineage' \in [Nodes \X Nodes -> Edge]
        /\ \A e \in Nodes \X Nodes : Open(e) => Open(e)'
        /\ \A e \in restored : Open(e)'
        /\ Linked
    BY <1>5, <2>1, <2>2, EdgesUpserted DEF Linked
  <2> QED BY <2>1, <2>3
<1>8. /\ key' \in [Nodes -> Keys \cup {Unborn}] /\ Grows
      /\ Exists(n)' /\ \A m \in Nodes \ {n, r.merged} : key'[m] = key[m]
  <2>1. /\ key' \in [Nodes -> Keys \cup {Unborn}]
        /\ key'[n] = r.key /\ key'[r.merged] = Released
        /\ \A m \in Nodes \ {n, r.merged} : key'[m] = key[m]
    BY <1>2, <1>3, <1>4, <1>5 DEF Keys
  <2>2. Unborn \notin Keys
    BY EntityAssumption DEF Keys
  <2> QED BY <1>2, <1>4, <2>1, <2>2 DEF Grows, Exists, Keys
<1>9. mention' \in [Nodes -> {"none", "closed", "open"}]
  BY <1>3, <1>4, <1>5
<1> QED BY <1>2, <1>4, <1>6, <1>7, <1>8, <1>9

(* Marking keeps who was merged, with whom and under which key.             *)
LEMMA MarkEffect ==
  ASSUME Typed, Splits, NEW c, c = on["person"].canonical, NEW r, r = on["person"].record
  PROVE  /\ records' \in [Nodes -> SUBSET Record] /\ Kept
         /\ \A b \in Nodes : \A s \in records'[b] : \E q \in records[b] : Kin(q, s)
         /\ \A b \in Nodes : \A s \in records[b] : s.merged # r.merged => s \in records'[b]
         /\ \A b \in Nodes : \A s \in records[b] : \E q \in records'[b] :
                Kin(s, q) /\ q.key = s.key /\ (s.split => q.split)
                /\ (b = c /\ s.merged = r.merged => q.split)
<1> DEFINE mark(s) == IF s.merged = r.merged THEN [s EXCEPT !.split = TRUE] ELSE s
<1>1. records \in [Nodes -> SUBSET Record] /\ c \in Nodes
  BY SplitEffect DEF Typed, Stored
<1>2. records' = [records EXCEPT ![c] = {mark(s) : s \in records[c]}]
  BY DEF Splits
<1>3. \A s \in Record : /\ mark(s) \in Record /\ Kin(s, mark(s)) /\ mark(s).key = s.key
                        /\ (s.split => mark(s).split)
                        /\ (s.merged = r.merged => mark(s).split)
                        /\ (s.merged # r.merged => mark(s) = s)
  <2> SUFFICES ASSUME NEW s \in Record
               PROVE  /\ mark(s) \in Record /\ Kin(s, mark(s)) /\ mark(s).key = s.key
                      /\ (s.split => mark(s).split)
                      /\ (s.merged = r.merged => mark(s).split)
                      /\ (s.merged # r.merged => mark(s) = s)
    OBVIOUS
  <2>1. CASE s.merged = r.merged
    BY <2>1 DEF Record, Kin
  <2>2. CASE s.merged # r.merged
    BY <2>2 DEF Kin
  <2> QED BY <2>1, <2>2
<1> HIDE DEF mark
<1>4. /\ records'[c] = {mark(s) : s \in records[c]}
      /\ \A b \in Nodes \ {c} : records'[b] = records[b]
  BY <1>1, <1>2
<1>5. records' \in [Nodes -> SUBSET Record]
  BY <1>1, <1>2, <1>3
<1>6. ASSUME NEW b \in Nodes, NEW s \in records[b]
      PROVE  /\ \E q \in records'[b] :
                  Kin(s, q) /\ q.key = s.key /\ (s.split => q.split)
                  /\ (b = c /\ s.merged = r.merged => q.split)
             /\ s.merged # r.merged => s \in records'[b]
  <2>1. s \in Record
    BY <1>1
  <2>2. CASE b = c
    BY <1>3, <1>4, <2>1, <2>2
  <2>3. CASE b # c
    BY <1>4, <2>3 DEF Kin
  <2> QED BY <2>2, <2>3
<1>7. ASSUME NEW b \in Nodes, NEW s \in records'[b] PROVE \E q \in records[b] : Kin(q, s)
  <2>1. CASE b = c
    BY <1>1, <1>3, <1>4, <2>1
  <2>2. CASE b # c
    BY <1>4, <2>2 DEF Kin
  <2> QED BY <2>1, <2>2
<1>8. Kept
  BY <1>6 DEF Kept
<1> QED BY <1>5, <1>6, <1>7, <1>8

LEMMA SplitsTyped ==
  ASSUME Typed, Splits
  PROVE  Typed' /\ Grows /\ Linked /\ Kept
<1>0. PICK c, r : c = on["person"].canonical /\ r = on["person"].record
  OBVIOUS
<1> USE <1>0
<1>1. /\ r \in Record /\ Exists(r.merged)
      /\ node' \in [Nodes -> Stamped] /\ lineage' \in [Nodes \X Nodes -> Edge]
      /\ \A m \in Nodes \ {r.merged} : node'[m] = node[m]
      /\ Linked /\ Grows
      /\ key' \in [Nodes -> Keys \cup {Unborn}]
      /\ mention' \in [Nodes -> {"none", "closed", "open"}]
  BY SplitEffect
<1>2. /\ records' \in [Nodes -> SUBSET Record] /\ Kept
      /\ \A b \in Nodes : \A s \in records'[b] : \E q \in records[b] : Kin(q, s)
  BY MarkEffect
<1>3. Births'
  <2>1. ASSUME NEW m \in Nodes, Closed(m)' PROVE Exists(m)'
    BY <1>1, <2>1 DEF Typed, Births, Closed, Grows
  <2>2. ASSUME NEW b \in Nodes, NEW s \in records'[b] PROVE Exists(s.merged)'
    <3>1. PICK q \in records[b] : q.merged = s.merged
      BY <1>2 DEF Kin
    <3>2. Exists(q.merged) /\ q.merged \in Nodes
      BY <3>1 DEF Typed, Births, Stored, Record
    <3>3. \A m \in Nodes : m = q.merged => Exists(m)'
      BY <1>1, <3>2 DEF Grows
    <3> QED BY <3>1, <3>2, <1>1 DEF Grows, Exists
  <2> QED BY <2>1, <2>2 DEF Births
<1>4. Desks' /\ \A v \in Writers : Holds(v)'
  <2>1. "person" \in Writers /\ Leave("person")
    BY DEF Writers, Splits
  <2> QED BY <1>1, <2>1, DeskLeaves DEF Typed, Stored
<1> QED BY <1>1, <1>2, <1>3, <1>4 DEF Splits, Typed, Stored, GraphTypeOK, tables

(* The steps that leave the graph alone, and what they put on a desk.       *)
LEMMA DeskStep ==
  ASSUME Typed, UNCHANGED graph,
         decisions' \subseteq Merges, marked' \subseteq Merges, cursor' \in Nodes \cup {0},
         NEW w \in Writers, NEW to \in Places, NEW what, Go(w, to, what), Holds(w)'
  PROVE  Typed' /\ Grows /\ Linked /\ Kept
<1>1. Grows /\ Linked /\ Kept /\ Births'
  BY GraphKept DEF Typed
<1>2. Desks' /\ \A v \in Writers : Holds(v)'
  BY <1>1, DeskMoves DEF Typed, Stored
<1> QED BY <1>1, <1>2 DEF Typed, Stored, GraphTypeOK, graph

LEMMA DeskEmptied ==
  ASSUME Typed, UNCHANGED graph,
         decisions' \subseteq Merges, marked' \subseteq Merges, cursor' \in Nodes \cup {0},
         NEW w \in Writers, Leave(w)
  PROVE  Typed' /\ Grows /\ Linked /\ Kept
<1>1. "idle" \in Places /\ Go(w, "idle", Nothing)
  BY DEF Places, Leave
<1>2. at'[w] = "idle"
  BY <1>1, GoEffect DEF Typed, Stored
<1>3. Holds(w)'
  BY <1>2 DEF Holds
<1> QED BY <1>1, <1>3, DeskStep

LEMMA TablesKept ==
  ASSUME Typed, UNCHANGED tables
  PROVE  decisions' \subseteq Merges /\ marked' \subseteq Merges /\ cursor' \in Nodes \cup {0}
BY DEF Typed, Stored, tables

Reads == \/ \E n \in Nodes : \/ DecayScans(n) \/ PreviewsForget(n)
                            \/ PreviewsUnmerge(n) \/ FindsLineage(n)
         \/ \E w \in Writers : \E c \in Nodes, members \in SUBSET Nodes : LoadsGroup(w, c, members)
         \/ DecayReads

(* What is read and put on a desk is there.                                 *)
LEMMA ReadsTyped ==
  ASSUME Typed, Reads
  PROVE  Typed' /\ Grows /\ Linked /\ Kept
<1>0. {"introspector", "person"} \subseteq Writers
      /\ {"decaying", "closing", "forgetting", "splitting", "merging",
        "reopening"} \subseteq Places
  BY DEF Writers, Places
<1>1. UNCHANGED graph /\ UNCHANGED tables
  BY DEF Reads, DecayScans, PreviewsForget, PreviewsUnmerge, FindsLineage, LoadsGroup, DecayReads
<1>2. decisions' \subseteq Merges /\ marked' \subseteq Merges /\ cursor' \in Nodes \cup {0}
  BY <1>1, TablesKept
<1>3. ASSUME NEW w \in Writers, NEW n \in Nodes, Exists(n),
             NEW to \in {"decaying", "closing", "forgetting"}, Go(w, to, n)
      PROVE  Typed' /\ Grows /\ Linked /\ Kept
  <2>1. to \in Places /\ at'[w] = to /\ on'[w] = n
    BY <1>0, <1>3, GoEffect DEF Typed, Stored
  <2>2. Holds(w)'
    BY <1>1, <1>3, <2>1 DEF Holds, Exists, graph
  <2> QED BY <1>1, <1>2, <1>3, <2>1, <2>2, DeskStep
<1>4. ASSUME NEW n \in Nodes, DecayScans(n) PROVE Typed' /\ Grows /\ Linked /\ Kept
  BY <1>0, <1>3, <1>4 DEF DecayScans, Silent, Standing
<1>5. ASSUME NEW n \in Nodes, PreviewsForget(n) PROVE Typed' /\ Grows /\ Linked /\ Kept
  BY <1>0, <1>3, <1>5 DEF PreviewsForget
<1>6. CASE DecayReads
  <2>1. on["introspector"] \in Nodes /\ Exists(on["introspector"])
    BY <1>0, <1>6 DEF DecayReads, Typed, Holds
  <2>2. CASE Go("introspector", "closing", on["introspector"])
    BY <1>0, <1>3, <2>1, <2>2
  <2>3. CASE Leave("introspector")
    BY <1>0, <1>1, <1>2, <2>3, DeskEmptied
  <2> QED BY <1>6, <2>2, <2>3 DEF DecayReads
<1>7. ASSUME NEW n \in Nodes, PreviewsUnmerge(n) PROVE Typed' /\ Grows /\ Linked /\ Kept
  <2>1. PICK c \in EverPreceded(n) : \E r \in records[c] :
               r.merged = n /\ Go("person", "splitting", [canonical |-> c, record |-> r])
    BY <1>7 DEF PreviewsUnmerge
  <2>2. PICK r \in records[c] :
               r.merged = n /\ Go("person", "splitting", [canonical |-> c, record |-> r])
    BY <2>1
  <2>3. c \in Nodes
    BY DEF EverPreceded
  <2>4. r \in Record /\ Exists(r.merged)
    BY <2>2, <2>3 DEF Typed, Stored, Births
  <2>5. at'["person"] = "splitting" /\ on'["person"] = [canonical |-> c, record |-> r]
    BY <1>0, <2>2, GoEffect DEF Typed, Stored
  <2>6. Holds("person")'
    BY <1>1, <2>3, <2>4, <2>5 DEF Holds, Exists, graph
  <2> QED BY <1>0, <1>1, <1>2, <2>2, <2>6, DeskStep
<1>8. ASSUME NEW w \in Writers, NEW c \in Nodes, NEW members \in SUBSET Nodes, LoadsGroup(w, c, members)
      PROVE  Typed' /\ Grows /\ Linked /\ Kept
  <2>1. PICK names : names = [n \in members |-> key[n]]
    OBVIOUS
  <2>2. /\ c \notin members /\ (\A n \in members : Exists(n))
        /\ Go(w, "merging", [canonical |-> c, members |-> members, keys |-> names])
    BY <1>8, <2>1 DEF LoadsGroup
  <2>3. at'[w] = "merging" /\ on'[w] = [canonical |-> c, members |-> members, keys |-> names]
    BY <1>0, <2>2, GoEffect DEF Typed, Stored
  <2>4. key \in [Nodes -> Keys \cup {Unborn}] /\ UNCHANGED key
    BY <1>1 DEF Typed, Stored, graph
  <2>5. \A n \in members : Exists(n)' /\ names[n] \in Keys
    BY <2>1, <2>2, <2>4 DEF Exists
  <2>6. Holds(w)'
    BY <2>2, <2>3, <2>5 DEF Holds
  <2> QED BY <1>0, <1>1, <1>2, <2>2, <2>6, DeskStep
<1>9. ASSUME NEW n \in Nodes, FindsLineage(n) PROVE Typed' /\ Grows /\ Linked /\ Kept
  <2>1. PICK desk : desk = [node |-> n, found |-> LineageInto(n)] /\ Go("person", "reopening", desk)
    BY <1>9 DEF FindsLineage
  <2>2. at'["person"] = "reopening" /\ on'["person"] = desk
    BY <1>0, <2>1, GoEffect DEF Typed, Stored
  <2>3. \A e \in LineageInto(n) : e[2] = n
    BY DEF LineageInto
  <2>4. Holds("person")'
    BY <2>1, <2>2, <2>3 DEF Holds
  <2> QED BY <1>0, <1>1, <1>2, <2>1, <2>4, DeskStep
<1> QED BY <1>4, <1>5, <1>6, <1>7, <1>8, <1>9 DEF Reads

LEMMA DesksClearedTyped ==
  ASSUME Typed, NEW w \in Writers, GroupIsStale(w) \/ RecordsDecision(w) \/ Abandons(w)
  PROVE  Typed' /\ Grows /\ Linked /\ Kept
<1>1. UNCHANGED graph /\ Leave(w)
  BY DEF GroupIsStale, RecordsDecision, Abandons
<1>2. decisions' \subseteq Merges /\ marked' \subseteq Merges /\ cursor' \in Nodes \cup {0}
  BY TablesKept DEF GroupIsStale, RecordsDecision, Abandons, Typed, Stored, Holds
<1> QED BY <1>1, <1>2, DeskEmptied

(* The page a walk reads is one canonical or none.                          *)
LEMMA PageEffect ==
  ASSUME Typed, ReconcileReads
  PROVE  /\ Page = {} => cursor' = 0 /\ owed' = {}
         /\ Page # {} => /\ cursor' \in Nodes /\ Page = {cursor'}
                         /\ owed' = IF cursor = 0 THEN UNION {MergesOn(c) : c \in Nodes} ELSE owed
<1>1. ASSUME NEW b \in Page, NEW c \in Page PROVE b = c
  <2>1. b \in Nat /\ c \in Nat
    BY NodesAreNumbers DEF Page
  <2>2. /\ b \in Nodes /\ c \in Nodes /\ cursor < b /\ cursor < c /\ records[b] # {} /\ records[c] # {}
        /\ ~(b < c) /\ ~(c < b)
    BY DEF Page
  <2> QED BY <2>1, <2>2
<1>2. CASE Page # {}
  <2>1. PICK c \in Page : TRUE
    BY <1>2
  <2>2. Page = {c} /\ c \in Nodes
    BY <1>1 DEF Page
  <2>3. cursor' = CHOOSE b \in Page : TRUE
    BY <1>2 DEF ReconcileReads
  <2>4. cursor' = c
    BY <2>2, <2>3
  <2> QED BY <1>2, <2>2, <2>4 DEF ReconcileReads
<1>3. CASE Page = {}
  BY <1>3 DEF ReconcileReads
<1> QED BY <1>2, <1>3

LEMMA ReconcileTyped ==
  ASSUME Typed, ReconcileReads \/ ReconcileWrites
  PROVE  Typed' /\ Grows /\ Linked /\ Kept
<1>0. "introspector" \in Writers /\ "reconciling" \in Places
  BY DEF Writers, Places
<1>1. CASE ReconcileReads
  <2>1. UNCHANGED graph /\ UNCHANGED <<decisions, marked>>
    BY <1>1 DEF ReconcileReads
  <2>2. cursor' \in Nodes \cup {0}
    BY <1>1, PageEffect
  <2>3. PICK d : d = UNION {MergesOn(c) : c \in Page} /\ Go("introspector", "reconciling", d)
    BY <1>1 DEF ReconcileReads
  <2>4. d \subseteq Merges
    BY <2>3 DEF MergesOn, Page, Merges, Typed, Stored, Record
  <2>5. at'["introspector"] = "reconciling" /\ on'["introspector"] = d
    BY <1>0, <2>3, GoEffect DEF Typed, Stored
  <2>6. Holds("introspector")'
    BY <2>4, <2>5 DEF Holds
  <2>7. decisions' \subseteq Merges /\ marked' \subseteq Merges
    BY <2>1 DEF Typed, Stored
  <2> QED BY <1>0, <2>1, <2>2, <2>3, <2>6, <2>7, DeskStep
<1>2. CASE ReconcileWrites
  <2>1. UNCHANGED graph /\ Leave("introspector")
    BY <1>2 DEF ReconcileWrites
  <2>2. decisions' \subseteq Merges /\ marked' \subseteq Merges /\ cursor' \in Nodes \cup {0}
    BY <1>0, <1>2 DEF ReconcileWrites, Typed, Stored, Holds
  <2> QED BY <1>0, <2>1, <2>2, DeskEmptied
<1> QED BY <1>1, <1>2

LEMMA TypedStep ==
  ASSUME Typed, [Next]_vars
  PROVE  Typed' /\ Grows /\ Linked /\ Kept
<1>1. CASE UNCHANGED vars
  BY <1>1, GraphKept DEF vars, graph, tables, place, Typed, Stored, GraphTypeOK, Births, Holds, Desks,
     Exists, Closed
<1>2. ASSUME NEW w \in Writers, Absorbs(w) PROVE Typed' /\ Grows /\ Linked /\ Kept
  BY <1>2, AbsorbsTyped
<1>3. CASE Unsupersedes
  BY <1>3, UnsupersedesTyped
<1> QED BY <1>1, <1>2, <1>3, MergesEntityTyped, LinksMentionTyped, DecayClosesTyped, ForgetsTyped,
           SplitsTyped, ReadsTyped, DesksClearedTyped, ReconcileTyped DEF Next, Reads

LEMMA InitiallyTyped == Init => Typed
<1> SUFFICES ASSUME Init PROVE Typed
  OBVIOUS
<1> USE DEF Init, GraphInit
<1>1. GraphTypeOK
  BY NeverAssumption DEF GraphTypeOK, Fresh, NoEdge, Stamped, Edge, Stamps
<1>2. key \in [Nodes -> Keys \cup {Unborn}]
  BY EntityAssumption DEF Keys
<1>3. Desks
  BY DEF Desks, Places
<1>4. Stored
  BY <1>1, <1>2, <1>3 DEF Stored
<1>5. Births
  BY DEF Births, Closed, Fresh
<1>6. \A w \in Writers : Holds(w)
  BY DEF Holds
<1> QED BY <1>4, <1>5, <1>6 DEF Typed

-----------------------------------------------------------------------------
(* Dead ends. *)

(* A step makes no dead end when a node that is absent after it was absent  *)
(* before and keeps its heirs, or has an heir that stands.                  *)
LEMMA NoDeadEndMade ==
  ASSUME NoDeadEnd,
         \A n \in Nodes : Absent(n)' =>
            \/ Absent(n) /\ \A m \in Nodes : Open(<<m, n>>) => Open(<<m, n>>)'
            \/ \E h \in Nodes : ~Absent(h)' /\ Open(<<h, n>>)'
  PROVE  NoDeadEnd'
<1> SUFFICES ASSUME NEW S \in SUBSET Nodes, S # {}, \A n \in S : Absent(n)'
             PROVE  \E n \in S : ~(HeirsOf(n)' \subseteq S)
  BY DEF NoDeadEnd
<1>1. CASE \E n \in S : \E h \in Nodes : ~Absent(h)' /\ Open(<<h, n>>)'
  BY <1>1 DEF HeirsOf
<1>2. CASE \A n \in S : Absent(n) /\ \A m \in Nodes : Open(<<m, n>>) => Open(<<m, n>>)'
  <2>1. PICK n \in S : ~(HeirsOf(n) \subseteq S)
    BY <1>2 DEF NoDeadEnd
  <2>2. HeirsOf(n) \subseteq HeirsOf(n)'
    BY <1>2 DEF HeirsOf
  <2> QED BY <2>1, <2>2
<1> QED BY <1>1, <1>2

LEMMA NoDeadEndStep ==
  ASSUME Typed, NoDeadEnd, [Next]_vars
  PROVE  NoDeadEnd'
<1>1. CASE UNCHANGED graph
  BY <1>1, NoDeadEndMade DEF graph, Absent, Exists, Closed, Open
<1>2. ASSUME NEW nm \in Names, MergesEntity(nm) PROVE NoDeadEnd'
  <2>1. ASSUME NEW n \in Nodes, Absent(n)' PROVE Absent(n)
    <3>1. CASE \E m \in Owners(nm) : UNCHANGED key
               /\ node' = IF Reopens(m) THEN [node EXCEPT ![m] = Fresh] ELSE node
      <4>1. node'[n] = node[n] \/ node'[n] = Fresh
        BY <3>1 DEF Typed, Stored, GraphTypeOK
      <4> QED BY <2>1, <3>1, <4>1 DEF Absent, Exists, Closed, Fresh
    <3>2. CASE UNCHANGED node
      BY <2>1, <3>2 DEF Absent, Closed, Typed, Births
    <3> QED BY <1>2, <3>1, <3>2 DEF MergesEntity
  <2>2. UNCHANGED lineage
    BY <1>2 DEF MergesEntity
  <2> QED BY <2>1, <2>2, NoDeadEndMade DEF Open
<1>3. ASSUME NEW w \in Writers, Absorbs(w) PROVE NoDeadEnd'
  <2>0. PICK c, members : c = on[w].canonical /\ members = on[w].members
    OBVIOUS
  <2> USE <2>0
  <2>1. /\ c \in Nodes /\ c \notin members /\ ~Closed(c)
        /\ \A n \in Nodes \ members : node'[n] = node[n]
        /\ \A e \in Nodes \X Nodes : Open(e) => Open(e)'
        /\ \A x \in members : Open(<<c, x>>)'
    BY <1>3, <2>0, MergeEffect
  <2>2. UNCHANGED key
    BY <1>3 DEF Absorbs
  <2>3. ~Absent(c)'
    BY <2>1 DEF Absent, Closed
  <2>4. \A n \in Nodes \ members : Absent(n)' => Absent(n)
    BY <2>1, <2>2 DEF Absent, Exists, Closed
  <2>5. \A n, m \in Nodes : Open(<<m, n>>) => Open(<<m, n>>)'
    BY <2>1
  <2> QED BY <2>1, <2>3, <2>4, <2>5, NoDeadEndMade
<1>4. CASE DecayCloses
  <2>1. \A n \in Nodes : Absent(n)' => Absent(n)
    BY <1>4, DecayClosesTyped DEF DecayCloses, Absent, Exists
  <2> QED BY <1>4, <2>1, NoDeadEndMade DEF DecayCloses, Open
<1>5. CASE Forgets
  <2>1. \A n \in Nodes : Absent(n)' => Absent(n)
    BY <1>5, ForgetsTyped DEF Forgets, Absent, Exists
  <2> QED BY <1>5, <2>1, NoDeadEndMade DEF Forgets, ForgetNode, Open
<1>6. CASE Unsupersedes
  <2>0. PICK x : x = on["person"].node
    OBVIOUS
  <2>1. /\ x \in Nodes /\ ~Closed(x)' /\ \A m \in Nodes \ {x} : node'[m] = node[m]
        /\ \A e \in Nodes \X Nodes : e[2] # x => lineage'[e] = lineage[e]
    BY <1>6, <2>0, UnsupersedesTyped
  <2>2. ~Absent(x)'
    BY <2>1 DEF Absent
  <2>3. \A n \in Nodes \ {x} : Absent(n)' => Absent(n)
    BY <1>6, <2>1 DEF Unsupersedes, Absent, Exists, Closed
  <2>4. \A n \in Nodes \ {x} : \A m \in Nodes : lineage'[<<m, n>>] = lineage[<<m, n>>]
    BY <2>1
  <2> QED BY <2>1, <2>2, <2>3, <2>4, NoDeadEndMade DEF Open
<1>7. CASE Splits
  <2>0. PICK c, r : c = on["person"].canonical /\ r = on["person"].record
    OBVIOUS
  <2> USE <2>0
  <2>1. /\ \A m \in Nodes \ {r.merged} : node'[m] = node[m]
        /\ \A e \in Nodes \X Nodes : Open(e) => Open(e)'
        /\ Exists(r.merged)
    BY <1>7, SplitEffect
  <2>2. PICK b \in Nodes : /\ ~Exists(b) /\ Open(<<b, r.merged>>)'
                           /\ \A m \in Nodes \ {b, r.merged} : key'[m] = key[m]
    BY <1>7, SplitEffect
  <2>3. ~Closed(b) /\ b # r.merged
    BY <2>1, <2>2 DEF Typed, Births
  <2>4. ~Absent(b)'
    BY <2>1, <2>2, <2>3 DEF Absent, Closed
  <2>5. \A n \in Nodes \ {b, r.merged} : Absent(n)' => Absent(n)
    BY <2>1, <2>2 DEF Absent, Exists, Closed
  <2>6. \A n, m \in Nodes : Open(<<m, n>>) => Open(<<m, n>>)'
    BY <2>1
  <2> QED BY <2>2, <2>4, <2>5, <2>6, NoDeadEndMade
<1>8. CASE LinksMention
  BY <1>8, NoDeadEndMade DEF LinksMention, Absent, Exists, Closed, Open
<1>9. Reads => UNCHANGED graph
  BY DEF Reads, DecayScans, PreviewsForget, PreviewsUnmerge, FindsLineage, LoadsGroup, DecayReads
<1>10. \A w \in Writers : GroupIsStale(w) \/ RecordsDecision(w) \/ Abandons(w) => UNCHANGED graph
  BY DEF GroupIsStale, RecordsDecision, Abandons
<1>11. ReconcileReads \/ ReconcileWrites => UNCHANGED graph
  BY DEF ReconcileReads, ReconcileWrites
<1>12. UNCHANGED vars => UNCHANGED graph
  BY DEF vars
<1> QED BY <1>1, <1>2, <1>3, <1>4, <1>5, <1>6, <1>7, <1>8, <1>9, <1>10, <1>11, <1>12 DEF Next, Reads

LEMMA NoDeadEndMeansHeirs ==
  ASSUME NoDeadEnd
  PROVE  MergedNamesHaveAnHeir
<1> SUFFICES ASSUME NEW n \in Nodes, Absent(n), \A m \in Above(HeirsOf, n) : Absent(m)
             PROVE  FALSE
  BY DEF MergedNamesHaveAnHeir
<1> DEFINE A == Above(HeirsOf, n)
<1>1. A = {m \in Nodes : \A S \in SUBSET Nodes :
                HeirsOf(n) \subseteq S /\ (\A k \in S : HeirsOf(k) \subseteq S) => m \in S}
  BY DEF Above
<1>2. \A k \in Nodes : HeirsOf(k) \subseteq Nodes
  BY DEF HeirsOf
<1>3. HeirsOf(n) \subseteq A
  BY <1>1, <1>2
<1>4. ASSUME NEW k \in A PROVE HeirsOf(k) \subseteq A
  <2> SUFFICES ASSUME NEW m \in HeirsOf(k), NEW S \in SUBSET Nodes,
                      HeirsOf(n) \subseteq S, \A j \in S : HeirsOf(j) \subseteq S
               PROVE  m \in S
    BY <1>1, <1>2
  <2>1. k \in S
    BY <1>1
  <2> QED BY <2>1
<1>5. A \subseteq Nodes /\ \A m \in A : Absent(m)
  BY <1>1
<1> HIDE DEF A
<1>6. A \cup {n} \in SUBSET Nodes /\ \A m \in A \cup {n} : Absent(m)
  BY <1>5
<1>7. PICK k \in A \cup {n} : ~(HeirsOf(k) \subseteq A \cup {n})
  BY <1>6 DEF NoDeadEnd
<1> QED BY <1>3, <1>4, <1>7

-----------------------------------------------------------------------------
(* Desks: what a step may put on one, and what may take a page off one. *)

KeysRead(w) == \A x \in on[w].members : on[w].keys[x] = key[x]

Watched == {"merging", "recording", "reconciling", "splitting"}
Settled(w) == (at'[w] = at[w] /\ on'[w] = on[w]) \/ at'[w] \notin Watched

LEMMA DesksSettle ==
  ASSUME Desks, NEW w \in Writers, NEW to \in Places \ Watched, NEW what, Go(w, to, what)
  PROVE  \A v \in Writers : Settled(v)
BY GoEffect DEF Settled

LEMMA DeskCases ==
  ASSUME Typed, [Next]_vars
  PROVE  \/ \A v \in Writers : Settled(v)
         \/ \E w \in Writers : /\ Absorbs(w) /\ at'[w] = "recording" /\ on'[w] = MergeOf(on[w])
                                /\ \A v \in Writers \ {w} : Settled(v)
         \/ \E w \in Writers : /\ at'[w] = "merging" /\ KeysRead(w)'
                                /\ \A v \in Writers \ {w} : Settled(v)
         \/ /\ ReconcileReads /\ at'["introspector"] = "reconciling"
            /\ on'["introspector"] = UNION {MergesOn(c) : c \in Page}
            /\ \A v \in Writers \ {"introspector"} : Settled(v)
         \/ /\ \E n \in Nodes : \E c \in EverPreceded(n) : \E r \in records[c] :
                  r.merged = n /\ on'["person"] = [canonical |-> c, record |-> r]
            /\ at'["person"] = "splitting" /\ UNCHANGED graph
            /\ \A v \in Writers \ {"person"} : Settled(v)
<1> DEFINE Goal ==
         \/ \A v \in Writers : Settled(v)
         \/ \E w \in Writers : /\ Absorbs(w) /\ at'[w] = "recording" /\ on'[w] = MergeOf(on[w])
                                /\ \A v \in Writers \ {w} : Settled(v)
         \/ \E w \in Writers : /\ at'[w] = "merging" /\ KeysRead(w)'
                                /\ \A v \in Writers \ {w} : Settled(v)
         \/ /\ ReconcileReads /\ at'["introspector"] = "reconciling"
            /\ on'["introspector"] = UNION {MergesOn(c) : c \in Page}
            /\ \A v \in Writers \ {"introspector"} : Settled(v)
         \/ /\ \E n \in Nodes : \E c \in EverPreceded(n) : \E r \in records[c] :
                  r.merged = n /\ on'["person"] = [canonical |-> c, record |-> r]
            /\ at'["person"] = "splitting" /\ UNCHANGED graph
            /\ \A v \in Writers \ {"person"} : Settled(v)
<1> SUFFICES Goal
  OBVIOUS
<1>0. /\ {"worker", "introspector", "person"} = Writers
      /\ {"idle", "linking", "decaying", "closing", "forgetting", "reopening"}
           \subseteq Places \ Watched
      /\ Watched \subseteq Places /\ Desks
  BY DEF Writers, Places, Watched, Typed, Stored
<1>1. ASSUME NEW w \in Writers, NEW to \in Places \ Watched, NEW what, Go(w, to, what) PROVE Goal
  BY <1>0, <1>1, DesksSettle
<1>2. ASSUME NEW w \in Writers, Leave(w) PROVE Goal
  BY <1>0, <1>1, <1>2 DEF Leave
<1>3. ASSUME NEW w \in Writers, Absorbs(w) PROVE Goal
  <2>1. Go(w, "recording", MergeOf(on[w])) /\ "recording" \in Places
    BY <1>0, <1>3 DEF Absorbs, Watched
  <2>2. at'[w] = "recording" /\ on'[w] = MergeOf(on[w]) /\ \A v \in Writers \ {w} : Settled(v)
    BY <1>0, <2>1, GoEffect DEF Settled
  <2> QED BY <1>3, <2>2
<1>4. CASE ReconcileReads
  <2>1. PICK d : d = UNION {MergesOn(c) : c \in Page} /\ Go("introspector", "reconciling", d)
    BY <1>4 DEF ReconcileReads
  <2>2. /\ at'["introspector"] = "reconciling" /\ on'["introspector"] = d
        /\ \A v \in Writers \ {"introspector"} : Settled(v)
    BY <1>0, <2>1, GoEffect DEF Settled, Watched
  <2> QED BY <1>4, <2>1, <2>2
<1>5. ASSUME NEW n \in Nodes, PreviewsUnmerge(n) PROVE Goal
  <2>1. PICK c \in EverPreceded(n) : \E r \in records[c] :
               r.merged = n /\ Go("person", "splitting", [canonical |-> c, record |-> r])
    BY <1>5 DEF PreviewsUnmerge
  <2>2. PICK r \in records[c] :
               r.merged = n /\ Go("person", "splitting", [canonical |-> c, record |-> r])
    BY <2>1
  <2>3. /\ at'["person"] = "splitting" /\ on'["person"] = [canonical |-> c, record |-> r]
        /\ \A v \in Writers \ {"person"} : Settled(v)
    BY <1>0, <2>2, GoEffect DEF Settled, Watched
  <2>4. UNCHANGED graph
    BY <1>5 DEF PreviewsUnmerge
  <2> QED BY <2>2, <2>3, <2>4
<1>6. ASSUME NEW n \in Nodes, FindsLineage(n) PROVE Goal
  <2>1. PICK desk : Go("person", "reopening", desk)
    BY <1>6 DEF FindsLineage
  <2> QED BY <1>0, <1>1, <2>1
<1>7. ASSUME NEW nm \in Names, MergesEntity(nm) PROVE Goal
  <2>1. PICK n : Go("worker", "linking", n)
    BY <1>7 DEF MergesEntity
  <2> QED BY <1>0, <1>1, <2>1
<1>8. CASE DecayReads
  BY <1>0, <1>1, <1>2, <1>8 DEF DecayReads
<1>9. ASSUME NEW n \in Nodes, DecayScans(n) \/ PreviewsForget(n) PROVE Goal
  BY <1>0, <1>1, <1>9 DEF DecayScans, PreviewsForget
<1>10. ASSUME NEW w \in Writers, NEW c \in Nodes, NEW members \in SUBSET Nodes, LoadsGroup(w, c, members)
       PROVE  Goal
  <2>1. PICK names : names = [n \in members |-> key[n]]
    OBVIOUS
  <2>2. /\ UNCHANGED graph
        /\ Go(w, "merging", [canonical |-> c, members |-> members, keys |-> names])
    BY <1>10, <2>1 DEF LoadsGroup
  <2>3. /\ at'[w] = "merging" /\ on'[w] = [canonical |-> c, members |-> members, keys |-> names]
        /\ \A v \in Writers \ {w} : Settled(v)
    BY <1>0, <2>2, GoEffect DEF Settled, Watched
  <2>4. KeysRead(w)'
    BY <2>1, <2>2, <2>3 DEF KeysRead, graph
  <2> QED BY <2>3, <2>4
<1>11. CASE LinksMention \/ DecayCloses \/ ReconcileWrites \/ Forgets \/ Splits \/ Unsupersedes
  BY <1>0, <1>2, <1>11 DEF LinksMention, DecayCloses, ReconcileWrites, Forgets, Splits, Unsupersedes
<1>12. ASSUME NEW w \in Writers, GroupIsStale(w) \/ RecordsDecision(w) \/ Abandons(w) PROVE Goal
  BY <1>2, <1>12 DEF GroupIsStale, RecordsDecision, Abandons
<1>13. CASE UNCHANGED vars
  BY <1>13 DEF vars, place, Settled
<1> HIDE DEF Goal
<1>14. CASE \E n \in Nodes : \/ DecayScans(n)
                          \/ PreviewsForget(n) \/ PreviewsUnmerge(n) \/ FindsLineage(n)
  BY <1>5, <1>6, <1>9, <1>14
<1>15. CASE \E w \in Writers :
            \/ \E c \in Nodes, members \in SUBSET Nodes : LoadsGroup(w, c, members)
            \/ Absorbs(w) \/ GroupIsStale(w) \/ RecordsDecision(w) \/ Abandons(w)
  BY <1>3, <1>10, <1>12, <1>15
<1> QED BY <1>4, <1>7, <1>8, <1>11, <1>13, <1>14, <1>15 DEF Next

-----------------------------------------------------------------------------
(* Records: what was absorbed can be named. *)

Nameable(x) == \E c \in EverPreceded(x) : \E r \in records[c] :
                  r.merged = x /\ (r.split \/ r.key = key[x])

LEMMA StillNameable ==
  ASSUME Linked, NEW x \in Nodes, Nameable(x), key'[x] = key[x],
         \A c \in Nodes : \A r \in records[c] : \E s \in records'[c] :
             s.merged = r.merged /\ s.key = r.key /\ (r.split => s.split)
  PROVE  Nameable(x)'
<1>1. PICK c \in EverPreceded(x) : \E r \in records[c] :
                  r.merged = x /\ (r.split \/ r.key = key[x])
  BY DEF Nameable
<1>2. PICK r \in records[c] : r.merged = x /\ (r.split \/ r.key = key[x])
  BY <1>1
<1>3. c \in Nodes /\ c \in EverPreceded(x)'
  BY DEF EverPreceded, Linked
<1>4. PICK s \in records'[c] : s.merged = r.merged /\ s.key = r.key /\ (r.split => s.split)
  BY <1>3
<1> QED BY <1>2, <1>3, <1>4 DEF Nameable

LEMMA StillNamed ==
  ASSUME Linked, Kept, NEW x \in Nodes, NEW c \in Nodes, Named(x, c)
  PROVE  Named(x, c)'
<1>1. PICK r \in records[c] : r.merged = x
  BY DEF Named
<1>2. PICK s \in records'[c] : s.merged = x
  BY <1>1 DEF Kept, Kin
<1>3. c \in EverPreceded(x)'
  BY DEF Named, EverPreceded, Linked
<1> QED BY <1>2, <1>3 DEF Named

LEMMA SplitsNamedStep ==
  ASSUME Typed, SplitsWhatIsNamed, [Next]_vars
  PROVE  SplitsWhatIsNamed'
<1>0. Linked /\ Kept
  BY TypedStep
<1>1. ASSUME NEW w \in Writers, Settled(w), at'[w] = "splitting"
      PROVE  Named(on[w].record.merged, on[w].canonical)'
  <2>1. at[w] = "splitting" /\ on'[w] = on[w]
    BY <1>1 DEF Settled, Watched
  <2>2. PICK x, c : x = on[w].record.merged /\ c = on[w].canonical
    OBVIOUS
  <2>3. x \in Nodes /\ c \in Nodes
    BY <2>1, <2>2 DEF Typed, Holds, Record
  <2>4. Named(x, c)
    BY <2>1, <2>2 DEF SplitsWhatIsNamed
  <2>5. Named(x, c)'
    BY <1>0, <2>3, <2>4, StillNamed
  <2>6. on'[w].record.merged = x /\ on'[w].canonical = c
    BY <2>1, <2>2
  <2> QED BY <2>5, <2>6 DEF Named, EverPreceded
<1>2. CASE \E n \in Nodes : \E c \in EverPreceded(n) : \E r \in records[c] :
              /\ r.merged = n /\ on'["person"] = [canonical |-> c, record |-> r]
              /\ UNCHANGED graph
              /\ \A v \in Writers \ {"person"} : Settled(v)
  <2>0. PICK n \in Nodes : \E c \in EverPreceded(n) : \E r \in records[c] :
              /\ r.merged = n /\ on'["person"] = [canonical |-> c, record |-> r]
              /\ UNCHANGED graph
              /\ \A v \in Writers \ {"person"} : Settled(v)
    BY <1>2
  <2>1. PICK c \in EverPreceded(n) : \E r \in records[c] :
              /\ r.merged = n /\ on'["person"] = [canonical |-> c, record |-> r]
              /\ UNCHANGED graph
              /\ \A v \in Writers \ {"person"} : Settled(v)
    BY <2>0
  <2>2. PICK r \in records[c] :
              /\ r.merged = n /\ on'["person"] = [canonical |-> c, record |-> r]
              /\ UNCHANGED graph
              /\ \A v \in Writers \ {"person"} : Settled(v)
    BY <2>1
  <2>3. on'["person"].record.merged = n /\ on'["person"].canonical = c
    BY <2>2
  <2>4. records' = records /\ lineage' = lineage
    BY <2>2 DEF graph
  <2>5. Named(on["person"].record.merged, on["person"].canonical)'
    BY <2>2, <2>3, <2>4 DEF Named, EverPreceded
  <2> QED BY <1>1, <2>2, <2>5 DEF SplitsWhatIsNamed
<1>3. ASSUME NEW w \in Writers, at'[w] # "splitting", \A v \in Writers \ {w} : Settled(v)
      PROVE  SplitsWhatIsNamed'
  BY <1>1, <1>3 DEF SplitsWhatIsNamed
<1>4. CASE \A v \in Writers : Settled(v)
  BY <1>1, <1>4 DEF SplitsWhatIsNamed
<1>5. "introspector" \in Writers
  BY DEF Writers
<1>6. CASE \E w \in Writers : /\ at'[w] = "merging" /\ KeysRead(w)'
                              /\ \A v \in Writers \ {w} : Settled(v)
  BY <1>3, <1>6
<1>7. CASE \E w \in Writers : /\ Absorbs(w) /\ at'[w] = "recording" /\ on'[w] = MergeOf(on[w])
                              /\ \A v \in Writers \ {w} : Settled(v)
  BY <1>3, <1>7
<1>8. CASE /\ ReconcileReads /\ at'["introspector"] = "reconciling"
           /\ on'["introspector"] = UNION {MergesOn(c) : c \in Page}
           /\ \A v \in Writers \ {"introspector"} : Settled(v)
  BY <1>3, <1>5, <1>8
<1>9. CASE /\ \E n \in Nodes : \E c \in EverPreceded(n) : \E r \in records[c] :
                r.merged = n /\ on'["person"] = [canonical |-> c, record |-> r]
           /\ at'["person"] = "splitting" /\ UNCHANGED graph
           /\ \A v \in Writers \ {"person"} : Settled(v)
  BY <1>2, <1>9
<1> QED BY <1>4, <1>6, <1>7, <1>8, <1>9, DeskCases

(* A name a split handed on stays handed on.                                *)
LEMMA StillHandedOn ==
  ASSUME Linked, NEW x \in Nodes, HandedOn(x),
         \A c \in Nodes : \A r \in records[c] : \E s \in records'[c] :
             s.merged = r.merged /\ (r.split => s.split)
  PROVE  HandedOn(x)'
<1>1. PICK c \in EverPreceded(x) : \E r \in records[c] : r.merged = x /\ r.split
  BY DEF HandedOn
<1>2. PICK r \in records[c] : r.merged = x /\ r.split
  BY <1>1
<1>3. c \in Nodes /\ c \in EverPreceded(x)'
  BY DEF EverPreceded, Linked
<1>4. PICK s \in records'[c] : s.merged = x /\ s.split
  BY <1>2, <1>3
<1> QED BY <1>3, <1>4 DEF HandedOn

LEMMA KeysKnownStep ==
  ASSUME Typed, KeysKnown, SplitsWhatIsNamed, [Next]_vars
  PROVE  KeysKnown'
<1>0. Linked /\ Kept
  BY TypedStep
<1>1. ASSUME NEW x \in Nodes, Exists(x)
      PROVE  /\ HandedOn(x) => HandedOn(x)'
             /\ key'[x] = key[x] \/ HandedOn(x)'
  <2>1. CASE Splits
    <3>0. PICK c, r : c = on["person"].canonical /\ r = on["person"].record
      OBVIOUS
    <3>1. /\ c \in Nodes /\ Exists(r.merged)
          /\ \E n \in Nodes : ~Exists(n) /\ \A m \in Nodes \ {n, r.merged} : key'[m] = key[m]
      BY <2>1, <3>0, SplitEffect
    <3>2. \A b \in Nodes : \A s \in records[b] : \E q \in records'[b] :
             Kin(s, q) /\ q.key = s.key /\ (s.split => q.split)
             /\ (b = c /\ s.merged = r.merged => q.split)
      BY <2>1, <3>0, MarkEffect
    <3>3. HandedOn(x) => HandedOn(x)'
      BY <1>0, <3>2, StillHandedOn DEF Kin
    <3>4. CASE x = r.merged
      <4>1. at["person"] = "splitting" /\ "person" \in Writers
        BY <2>1 DEF Splits, Writers
      <4>2. Named(x, c)
        BY <3>0, <3>4, <4>1 DEF SplitsWhatIsNamed
      <4>3. c \in EverPreceded(x)'
        BY <1>0, <4>2 DEF Named, EverPreceded, Linked
      <4>4. PICK s \in records[c] : s.merged = x
        BY <4>2 DEF Named
      <4>5. PICK q \in records'[c] : q.merged = x /\ q.split
        BY <3>1, <3>2, <3>4, <4>4 DEF Kin
      <4> QED BY <3>3, <4>3, <4>5 DEF HandedOn
    <3>5. CASE x # r.merged
      BY <1>1, <3>1, <3>3, <3>5
    <3> QED BY <3>4, <3>5
  <2>2. CASE key'[x] = key[x] /\ \A c \in Nodes : records[c] \subseteq records'[c]
    BY <1>0, <2>2, StillHandedOn
  <2>3. ASSUME NEW w \in Writers, Absorbs(w)
        PROVE  key'[x] = key[x] /\ \A c \in Nodes : records[c] \subseteq records'[c]
    BY <2>3, TrailEffect DEF Absorbs
  <2>4. ASSUME NEW nm \in Names, MergesEntity(nm)
        PROVE  key'[x] = key[x] /\ UNCHANGED records
    BY <1>1, <2>4 DEF MergesEntity, NextNode, Typed, Stored
  <2>5. CASE UNCHANGED <<key, records>>
    BY <2>2, <2>5
  <2>6. \/ LinksMention \/ Reads \/ ReconcileReads \/ ReconcileWrites \/ UNCHANGED vars
        \/ DecayCloses \/ Forgets \/ Unsupersedes
        \/ \E w \in Writers : GroupIsStale(w) \/ RecordsDecision(w) \/ Abandons(w)
        => UNCHANGED <<key, records>>
    BY DEF LinksMention, Reads, DecayScans, PreviewsForget, PreviewsUnmerge, FindsLineage, LoadsGroup,
           DecayReads, DecayCloses, Forgets, Unsupersedes, ReconcileReads, ReconcileWrites,
           GroupIsStale, RecordsDecision, Abandons, vars, graph
  <2> QED BY <2>1, <2>2, <2>3, <2>4, <2>5, <2>6 DEF Next, Reads
<1>2. ASSUME NEW w \in Writers, Settled(w), at'[w] = "merging", NEW x \in on'[w].members
      PROVE  on'[w].keys[x] = key'[x] \/ HandedOn(x)'
  <2>1. at[w] = "merging" /\ on'[w] = on[w]
    BY <1>2 DEF Settled, Watched
  <2>2. x \in Nodes /\ Exists(x)
    BY <1>2, <2>1 DEF Typed, Holds
  <2>3. on[w].keys[x] = key[x] \/ HandedOn(x)
    BY <1>2, <2>1 DEF KeysKnown
  <2>4. on'[w].keys[x] = on[w].keys[x]
    BY <2>1
  <2> QED BY <1>1, <2>2, <2>3, <2>4
<1>3. ASSUME NEW w \in Writers, \A v \in Writers \ {w} : Settled(v),
             at'[w] = "merging" => KeysRead(w)'
      PROVE  KeysKnown'
  BY <1>2, <1>3 DEF KeysKnown, KeysRead, HandedOn, EverPreceded
<1>4. CASE \A v \in Writers : Settled(v)
  BY <1>2, <1>4 DEF KeysKnown, HandedOn, EverPreceded
<1>5. "introspector" \in Writers /\ "person" \in Writers
  BY DEF Writers
<1>6. CASE \E w \in Writers : /\ at'[w] = "merging" /\ KeysRead(w)'
                              /\ \A v \in Writers \ {w} : Settled(v)
  <2>1. PICK w \in Writers : /\ at'[w] = "merging" /\ KeysRead(w)'
                              /\ \A v \in Writers \ {w} : Settled(v)
    BY <1>6
  <2> QED BY <1>3, <2>1
<1>7. CASE \E w \in Writers : /\ Absorbs(w) /\ at'[w] = "recording" /\ on'[w] = MergeOf(on[w])
                              /\ \A v \in Writers \ {w} : Settled(v)
  BY <1>3, <1>7
<1>8. CASE /\ ReconcileReads /\ at'["introspector"] = "reconciling"
           /\ on'["introspector"] = UNION {MergesOn(c) : c \in Page}
           /\ \A v \in Writers \ {"introspector"} : Settled(v)
  BY <1>3, <1>5, <1>8
<1>9. CASE /\ \E n \in Nodes : \E c \in EverPreceded(n) : \E r \in records[c] :
                r.merged = n /\ on'["person"] = [canonical |-> c, record |-> r]
           /\ at'["person"] = "splitting" /\ UNCHANGED graph
           /\ \A v \in Writers \ {"person"} : Settled(v)
  BY <1>3, <1>5, <1>9
<1> QED BY <1>4, <1>6, <1>7, <1>8, <1>9, DeskCases

LEMMA AbsorbedCanBeSplitStep ==
  ASSUME Typed, AbsorbedCanBeSplit, SplitsWhatIsNamed, KeysKnown, [Next]_vars
  PROVE  AbsorbedCanBeSplit'
<1>0. Linked /\ Kept
  BY TypedStep
<1>1. \A x \in Nodes : Absent(x) => Nameable(x)
  BY DEF AbsorbedCanBeSplit, Nameable
<1> SUFFICES ASSUME NEW x \in Nodes, Absent(x)'
             PROVE  Nameable(x)'
  BY DEF AbsorbedCanBeSplit, Nameable
<1>2. CASE UNCHANGED records /\ key'[x] = key[x] /\ Absent(x)
  BY <1>0, <1>1, <1>2, StillNameable
<1>3. ASSUME NEW nm \in Names, MergesEntity(nm) PROVE Nameable(x)'
  <2>1. CASE \E m \in Owners(nm) : UNCHANGED key
             /\ node' = IF Reopens(m) THEN [node EXCEPT ![m] = Fresh] ELSE node
    <3>1. node'[x] = node[x] \/ node'[x] = Fresh
      BY <2>1 DEF Typed, Stored, GraphTypeOK
    <3>2. Absent(x)
      BY <2>1, <3>1 DEF Absent, Exists, Closed, Fresh
    <3> QED BY <1>2, <1>3, <2>1, <3>2 DEF MergesEntity
  <2>2. CASE UNCHANGED node /\ \E n \in NextNode : key' = [key EXCEPT ![n] = nm]
    <3>1. Absent(x)
      BY <2>2 DEF Absent, Closed, Typed, Births
    <3>2. key'[x] = key[x]
      BY <2>2, <3>1 DEF NextNode, Absent, Typed, Stored
    <3> QED BY <1>2, <1>3, <3>1, <3>2 DEF MergesEntity
  <2> QED BY <1>3, <2>1, <2>2 DEF MergesEntity
<1>4. ASSUME NEW w \in Writers, Absorbs(w) PROVE Nameable(x)'
  <2>0. PICK c, members, names :
          c = on[w].canonical /\ members = on[w].members /\ names = on[w].keys
    OBVIOUS
  <2> USE <2>0
  <2>1. /\ c \in Nodes
        /\ \A n \in Nodes \ members : node'[n] = node[n]
        /\ \A m \in members : Open(<<c, m>>)'
    BY <1>4, <2>0, MergeEffect
  <2>2. UNCHANGED key
    BY <1>4 DEF Absorbs
  <2>3. /\ \A b \in Nodes : records[b] \subseteq records'[b]
        /\ \A m \in members : \E r \in records'[c] :
                r.merged = m /\ r.members = members /\ r.key = names[m]
    BY <1>4, <2>0, TrailEffect
  <2>4. \A b \in Nodes : \A r \in records[b] : \E s \in records'[b] :
           s.merged = r.merged /\ s.key = r.key /\ (r.split => s.split)
    BY <2>3
  <2>5. CASE x \in members
    <3>1. c \in EverPreceded(x)'
      BY <2>1, <2>5 DEF Open, EverPreceded
    <3>2. names[x] = key[x] \/ HandedOn(x)
      BY <1>4, <2>5 DEF KeysKnown, Absorbs
    <3>3. CASE names[x] = key[x]
      BY <2>2, <2>3, <2>5, <3>1, <3>3 DEF Nameable
    <3>4. CASE HandedOn(x)
      <4>1. Nameable(x)
        BY <3>4 DEF HandedOn, Nameable
      <4> QED BY <1>0, <2>2, <2>4, <4>1, StillNameable
    <3> QED BY <3>2, <3>3, <3>4
  <2>6. CASE x \notin members
    <3>1. Absent(x)
      BY <2>1, <2>2, <2>6 DEF Absent, Exists, Closed
    <3> QED BY <1>0, <1>1, <2>2, <2>4, <3>1, StillNameable
  <2> QED BY <2>5, <2>6
<1>5. CASE DecayCloses
  <2>1. Absent(x)
    BY <1>5, DecayClosesTyped DEF DecayCloses, Absent, Exists
  <2> QED BY <1>2, <1>5, <2>1 DEF DecayCloses
<1>6. CASE Forgets
  <2>1. Absent(x)
    BY <1>6, ForgetsTyped DEF Forgets, Absent, Exists
  <2> QED BY <1>2, <1>6, <2>1 DEF Forgets
<1>7. CASE Unsupersedes
  <2>0. PICK n : n = on["person"].node
    OBVIOUS
  <2>1. ~Closed(n)' /\ \A m \in Nodes \ {n} : node'[m] = node[m]
    BY <1>7, <2>0, UnsupersedesTyped
  <2>2. x # n
    BY <2>1 DEF Absent
  <2>3. Absent(x)
    BY <1>7, <2>1, <2>2 DEF Unsupersedes, Absent, Exists, Closed
  <2> QED BY <1>2, <1>7, <2>3 DEF Unsupersedes
<1>8. CASE Splits
  <2>0. PICK c, r : c = on["person"].canonical /\ r = on["person"].record
    OBVIOUS
  <2> USE <2>0
  <2>1. /\ c \in Nodes /\ Exists(r.merged) /\ r \in Record
        /\ \A m \in Nodes \ {r.merged} : node'[m] = node[m]
    BY <1>8, SplitEffect
  <2>2. PICK b \in Nodes : ~Exists(b) /\ \A m \in Nodes \ {b, r.merged} : key'[m] = key[m]
    BY <1>8, SplitEffect
  <2>3. \A d \in Nodes : \A s \in records[d] : \E q \in records'[d] :
                Kin(s, q) /\ q.key = s.key /\ (s.split => q.split)
                /\ (d = c /\ s.merged = r.merged => q.split)
    BY <1>8, MarkEffect
  <2>4. x # b
    BY <2>1, <2>2 DEF Absent, Closed, Typed, Births
  <2>5. CASE x = r.merged
    <3>1. at["person"] = "splitting" /\ "person" \in Writers
      BY <1>8 DEF Splits, Writers
    <3>2. Named(x, c)
      BY <2>5, <3>1 DEF SplitsWhatIsNamed
    <3>3. c \in EverPreceded(x)'
      BY <1>0, <3>2 DEF Named, EverPreceded, Linked
    <3>4. PICK s \in records[c] : s.merged = x
      BY <3>2 DEF Named
    <3>5. PICK q \in records'[c] : q.merged = x /\ q.split
      BY <2>1, <2>3, <2>5, <3>4 DEF Kin
    <3> QED BY <3>3, <3>5 DEF Nameable
  <2>6. CASE x # r.merged
    <3>1. key'[x] = key[x] /\ node'[x] = node[x]
      BY <2>1, <2>2, <2>4, <2>6
    <3>2. Absent(x)
      BY <3>1 DEF Absent, Exists, Closed
    <3>3. \A d \in Nodes : \A s \in records[d] : \E q \in records'[d] :
             q.merged = s.merged /\ q.key = s.key /\ (s.split => q.split)
      BY <2>3 DEF Kin
    <3> QED BY <1>0, <1>1, <3>1, <3>2, <3>3, StillNameable
  <2> QED BY <2>5, <2>6
<1>9. CASE UNCHANGED <<node, lineage, key, records>>
  <2>1. Absent(x)
    BY <1>9 DEF Absent, Exists, Closed
  <2> QED BY <1>2, <1>9, <2>1
<1>10. \/ LinksMention \/ Reads \/ ReconcileReads \/ ReconcileWrites \/ UNCHANGED vars
       \/ \E w \in Writers : GroupIsStale(w) \/ RecordsDecision(w) \/ Abandons(w)
       => UNCHANGED <<node, lineage, key, records>>
  BY DEF LinksMention, Reads, DecayScans, PreviewsForget, PreviewsUnmerge, FindsLineage,
         LoadsGroup, DecayReads,
         ReconcileReads, ReconcileWrites, GroupIsStale, RecordsDecision, Abandons, vars, graph
<1> QED BY <1>3, <1>4, <1>5, <1>6, <1>7, <1>8, <1>9, <1>10 DEF Next, Reads

-----------------------------------------------------------------------------
(* Merges: what is written down is in the graph. *)

LEMMA StillExplained ==
  ASSUME Kept, NEW d, d.canonical \in Nodes, Explained(d)
  PROVE  Explained(d)'
<1> SUFFICES ASSUME NEW x \in d.members
             PROVE  \E s \in records'[d.canonical] : s.merged = x /\ s.members = d.members
  BY DEF Explained
<1>1. PICK r \in records[d.canonical] : r.merged = x /\ r.members = d.members
  BY DEF Explained
<1> QED BY <1>1 DEF Kept, Kin

LEMMA TrailStep ==
  ASSUME Typed, TrailIsWhole, [Next]_vars
  PROVE  TrailIsWhole'
<1>0. Kept
  BY TypedStep
<1> SUFFICES ASSUME NEW b \in Nodes, NEW s \in records'[b],
                    NEW d, d = [canonical |-> b, members |-> s.members]
             PROVE  Explained(d)'
  BY DEF TrailIsWhole, MergesOn
<1>1. CASE \E q \in records[b] : q.members = s.members
  <2>1. d \in MergesOn(b)
    BY <1>1 DEF MergesOn
  <2> QED BY <1>0, <2>1, StillExplained DEF TrailIsWhole
<1>2. ASSUME NEW w \in Writers, Absorbs(w) PROVE Explained(d)'
  <2>0. PICK c, members : c = on[w].canonical /\ members = on[w].members
    OBVIOUS
  <2>1. /\ \A a \in Nodes \ {c} : records'[a] = records[a]
        /\ \A x \in members : \E r \in records'[c] :
               r.merged = x /\ r.members = members
        /\ \A r \in records'[c] \ records[c] : r.merged \in members /\ r.members = members
    BY <1>2, <2>0, TrailEffect
  <2>2. CASE s \in records[b]
    BY <1>1, <2>2
  <2>3. CASE s \notin records[b]
    <3>1. b = c /\ s.members = members
      BY <2>1, <2>3
    <3> QED BY <2>1, <3>1 DEF Explained
  <2> QED BY <2>2, <2>3
<1>3. CASE Splits
  <2>0. PICK c, r : c = on["person"].canonical /\ r = on["person"].record
    OBVIOUS
  <2>1. \E q \in records[b] : Kin(q, s)
    BY <1>3, <2>0, MarkEffect
  <2> QED BY <1>1, <2>1 DEF Kin
<1>4. CASE UNCHANGED records
  BY <1>1, <1>4
<1>5. ASSUME NEW w \in Writers, ~Absorbs(w), [Next]_vars, ~Splits,
             \A v \in Writers : ~Absorbs(v)
      PROVE  UNCHANGED records
  BY <1>5 DEF Next, MergesEntity, LinksMention, DecayScans, PreviewsForget, PreviewsUnmerge,
         FindsLineage, Unsupersedes, LoadsGroup, GroupIsStale, RecordsDecision, Abandons, DecayReads, DecayCloses,
         ReconcileReads, ReconcileWrites, Forgets, vars, graph
<1> QED BY <1>2, <1>3, <1>4, <1>5 DEF Writers

LEMMA MergesAreTyped ==
  ASSUME Typed
  PROVE  \A c \in Nodes : \A d \in MergesOn(c) :
            d \in Merges /\ d.canonical = c /\ \E r \in records[c] : d.members = r.members
BY DEF MergesOn, Merges, Typed, Stored, Record

LEMMA DesksAreTrueStep ==
  ASSUME Typed, TrailIsWhole, DesksAreTrue, [Next]_vars
  PROVE  DesksAreTrue'
<1>0. Kept
  BY TypedStep
<1>1. ASSUME NEW w \in Writers, Settled(w) PROVE TrueDesk(w)'
  <2>1. CASE at'[w] \notin Watched
    BY <2>1 DEF Watched, TrueDesk
  <2>2. CASE at'[w] = at[w] /\ on'[w] = on[w]
    <3>1. ASSUME at[w] = "recording" PROVE Explained(on[w])'
      <4>1. PICK d \in Merges : d = on[w] /\ Explained(d)
        BY <3>1 DEF DesksAreTrue, TrueDesk, Typed, Holds
      <4>2. Explained(d)'
        BY <1>0, <4>1, StillExplained DEF Merges
      <4>3. on'[w] = d
        BY <2>2, <4>1
      <4> QED BY <4>2, <4>3 DEF Explained
    <3>2. ASSUME at[w] = "reconciling", NEW d \in on[w] PROVE Explained(d)'
      <4>1. d \in Merges /\ Explained(d)
        BY <3>2 DEF DesksAreTrue, TrueDesk, Typed, Holds
      <4> QED BY <1>0, <4>1, StillExplained DEF Merges
    <3> QED BY <2>2, <3>1, <3>2 DEF TrueDesk
  <2> QED BY <1>1, <2>1, <2>2 DEF Settled
<1>2. ASSUME NEW w \in Writers, Absorbs(w), at'[w] = "recording", on'[w] = MergeOf(on[w])
      PROVE  TrueDesk(w)'
  <2>0. PICK c, members : c = on[w].canonical /\ members = on[w].members
    OBVIOUS
  <2>1. \A x \in members : \E r \in records'[c] :
               r.merged = x /\ r.members = members
    BY <1>2, <2>0, TrailEffect
  <2>2. on'[w].members = members /\ on'[w].canonical = c
    BY <1>2, <2>0 DEF MergeOf
  <2> QED BY <1>2, <2>1, <2>2 DEF TrueDesk, Explained
<1>3. ASSUME ReconcileReads, on'["introspector"] = UNION {MergesOn(c) : c \in Page},
             at'["introspector"] = "reconciling"
      PROVE  TrueDesk("introspector")'
  <2>1. \A d \in on'["introspector"] : \E c \in Nodes : d \in MergesOn(c)
    BY <1>3 DEF Page
  <2>2. ASSUME NEW d \in on'["introspector"] PROVE Explained(d)'
    <3>1. d \in Merges /\ Explained(d)
      BY <2>1, MergesAreTyped DEF TrailIsWhole
    <3> QED BY <1>0, <3>1, StillExplained DEF Merges
  <2> QED BY <1>3, <2>2 DEF TrueDesk
<1>4. at'["person"] = "splitting" => TrueDesk("person")'
  BY DEF TrueDesk
<1>5. \A w \in Writers : TrueDesk(w)'
  <2>1. CASE \A v \in Writers : Settled(v)
    BY <1>1, <2>1
  <2>2. CASE \E w \in Writers : /\ Absorbs(w) /\ at'[w] = "recording" /\ on'[w] = MergeOf(on[w])
                                /\ \A v \in Writers \ {w} : Settled(v)
    BY <1>1, <1>2, <2>2
  <2>3. CASE /\ ReconcileReads /\ at'["introspector"] = "reconciling"
             /\ on'["introspector"] = UNION {MergesOn(c) : c \in Page}
             /\ \A v \in Writers \ {"introspector"} : Settled(v)
    BY <1>1, <1>3, <2>3
  <2>4. CASE at'["person"] = "splitting" /\ \A v \in Writers \ {"person"} : Settled(v)
    BY <1>1, <1>4, <2>4
  <2>5. CASE \E w \in Writers : /\ at'[w] = "merging" /\ KeysRead(w)'
                                /\ \A v \in Writers \ {w} : Settled(v)
    <3>1. PICK w \in Writers : at'[w] = "merging" /\ \A v \in Writers \ {w} : Settled(v)
      BY <2>5
    <3>2. TrueDesk(w)'
      BY <3>1 DEF TrueDesk
    <3> QED BY <1>1, <3>1, <3>2
  <2> QED BY <2>1, <2>2, <2>3, <2>4, <2>5, DeskCases
<1> QED BY <1>5 DEF DesksAreTrue

(* A row is written by the writer that merged, or off the page of a walk.   *)
LEMMA RowsWritten ==
  ASSUME Typed, [Next]_vars
  PROVE  /\ decisions \subseteq decisions'
         /\ \A d \in decisions' \cup marked' :
               \/ d \in decisions \cup marked
               \/ \E w \in Writers : \/ at[w] = "recording" /\ d = on[w]
                                     \/ at[w] = "reconciling" /\ d \in on[w]
<1>1. ASSUME NEW w \in Writers, RecordsDecision(w)
      PROVE  /\ decisions \subseteq decisions' /\ at[w] = "recording"
             /\ decisions' = decisions \cup {on[w]} /\ marked' = marked \cup {on[w]}
  BY <1>1 DEF RecordsDecision
<1>2. CASE ReconcileWrites
  <2>1. decisions' = decisions \cup on["introspector"] /\ marked' = marked
    BY <1>2 DEF ReconcileWrites
  <2>2. "introspector" \in Writers /\ at["introspector"] = "reconciling"
    BY <1>2 DEF Writers, ReconcileWrites
  <2> QED BY <2>1, <2>2
<1>3. CASE ~ReconcileWrites /\ \A w \in Writers : ~RecordsDecision(w)
  <2>1. UNCHANGED <<decisions, marked>>
    BY <1>3 DEF Next, MergesEntity, LinksMention, DecayScans, PreviewsForget, PreviewsUnmerge,
         FindsLineage, Unsupersedes, LoadsGroup, Absorbs, GroupIsStale, Abandons, DecayReads, DecayCloses,
         ReconcileReads, Forgets, Splits, vars, tables
  <2> QED BY <2>1
<1>4. CASE \E w \in Writers : RecordsDecision(w)
  <2>1. PICK w \in Writers : RecordsDecision(w)
    BY <1>4
  <2>2. /\ at[w] = "recording"
        /\ decisions' = decisions \cup {on[w]} /\ marked' = marked \cup {on[w]}
    BY <1>1, <2>1
  <2> QED BY <2>2
<1> QED BY <1>2, <1>3, <1>4

LEMMA DecisionsAreExplained ==
  DecisionsAreTrue <=> \A d \in decisions \cup marked : Explained(d)
BY DEF DecisionsAreTrue, Explained

LEMMA DecisionsAreTrueStep ==
  ASSUME Typed, DesksAreTrue, DecisionsAreTrue, [Next]_vars
  PROVE  DecisionsAreTrue'
<1>0. Kept
  BY TypedStep
<1>1. ASSUME NEW d \in decisions' \cup marked' PROVE Explained(d)'
  <2>1. CASE d \in decisions \cup marked
    <3>1. Explained(d)
      BY <2>1, DecisionsAreExplained
    <3>2. d.canonical \in Nodes
      BY <2>1 DEF Typed, Stored, Merges
    <3> QED BY <1>0, <3>1, <3>2, StillExplained
  <2>2. ASSUME NEW w \in Writers,
               \/ at[w] = "recording" /\ d = on[w]
               \/ at[w] = "reconciling" /\ d \in on[w]
        PROVE  Explained(d)'
    <3>1. d \in Merges /\ Explained(d)
      BY <2>2 DEF DesksAreTrue, TrueDesk, Typed, Holds
    <3> QED BY <1>0, <3>1, StillExplained DEF Merges
  <2> QED BY <1>1, <2>1, <2>2, RowsWritten
<1> QED BY <1>1 DEF DecisionsAreTrue, Explained

-----------------------------------------------------------------------------
(* The walk of the trail. *)

(* Nothing is passed over: what has a record beyond the cursor is on the    *)
(* page or beyond the new cursor.                                           *)
LEMMA PagePassesNothing ==
  ASSUME Typed, ReconcileReads, NEW c \in Nodes, records[c] # {}, cursor < c
  PROVE  Page # {} /\ (c \in Page \/ cursor' < c)
<1> DEFINE ahead == {b \in Nodes : cursor < b /\ records[b] # {}}
<1>0. cursor \in Nat /\ Nodes \subseteq Nat
  BY NodesAreNumbers DEF Typed, Stored
<1>1. PICK h \in ahead : \A m \in ahead : h <= m
  <2>1. ahead \in SUBSET Nodes /\ c \in ahead
    OBVIOUS
  <2> HIDE DEF ahead
  <2> QED BY <2>1, Oldest
<1>2. h \in Page
  <2>1. ASSUME NEW b \in Nodes, cursor < b, b < h PROVE records[b] = {}
    <3>1. ~(h <= b)
      BY <1>0, <2>1
    <3> QED BY <1>1, <2>1, <3>1
  <2> QED BY <2>1 DEF Page
<1>3. h \in Nodes /\ h = cursor' /\ h <= c
  BY <1>1, <1>2, PageEffect
<1>4. h = c \/ h < c
  BY <1>0, <1>3
<1> QED BY <1>2, <1>3, <1>4

LEMMA WalkStep ==
  ASSUME Typed, Walk, [Next]_vars
  PROVE  Walk'
<1>0. Kept /\ decisions \subseteq decisions' /\ "introspector" \in Writers
  BY TypedStep, RowsWritten DEF Writers
<1>1. \A c \in Nodes : MergesOn(c) \subseteq MergesOn(c)'
  BY <1>0 DEF MergesOn, Kept, Kin
<1> SUFFICES ASSUME cursor' # 0, NEW d \in owed'
             PROVE  \/ d \in decisions'
                    \/ at'["introspector"] = "reconciling" /\ d \in on'["introspector"]
                    \/ d.canonical \in Nodes /\ cursor' < d.canonical /\ d \in MergesOn(d.canonical)'
  BY DEF Walk, MergesOn
<1>2. CASE ReconcileReads
  <2>1. /\ Page # {} /\ Page = {cursor'} /\ UNCHANGED <<graph, decisions>>
        /\ owed' = IF cursor = 0 THEN UNION {MergesOn(c) : c \in Nodes} ELSE owed
    BY <1>2, PageEffect DEF ReconcileReads
  <2>2. /\ at'["introspector"] = "reconciling"
        /\ on'["introspector"] = UNION {MergesOn(c) : c \in Page}
    <3>1. PICK p : p = UNION {MergesOn(c) : c \in Page} /\ Go("introspector", "reconciling", p)
      BY <1>2 DEF ReconcileReads
    <3> QED BY <1>0, <3>1, GoEffect DEF Places, Typed, Stored
  <2>3. \/ d \in decisions
        \/ d.canonical \in Nodes /\ cursor < d.canonical /\ d \in MergesOn(d.canonical)
    <3>1. CASE cursor = 0
      <4>1. PICK c \in Nodes : d \in MergesOn(c)
        BY <2>1, <3>1
      <4>2. d.canonical = c
        BY <4>1, MergesAreTyped
      <4>3. 0 < c
        BY EntityAssumption, FS_CardinalityType
      <4> QED BY <3>1, <4>1, <4>2, <4>3
    <3>2. CASE cursor # 0
      <4>1. at["introspector"] # "reconciling" /\ d \in owed
        BY <1>2, <2>1, <3>2 DEF ReconcileReads
      <4> QED BY <3>2, <4>1 DEF Walk
    <3> QED BY <3>1, <3>2
  <2>4. ASSUME d.canonical \in Nodes, cursor < d.canonical, d \in MergesOn(d.canonical)
        PROVE  d.canonical \in Page \/ cursor' < d.canonical
    <3>1. records[d.canonical] # {}
      BY <2>4 DEF MergesOn
    <3> QED BY <1>2, <2>4, <3>1, PagePassesNothing
  <2> QED BY <1>0, <1>1, <2>2, <2>3, <2>4
<1>3. CASE ReconcileWrites
  <2>1. d \in owed /\ cursor' = cursor /\ decisions' = decisions \cup on["introspector"]
    BY <1>3 DEF ReconcileWrites, bounds
  <2> QED BY <1>1, <2>1 DEF Walk
<1>4. CASE Abandons("introspector")
  <2>1. /\ cursor' = cursor /\ d \in owed
        /\ ~(at["introspector"] = "reconciling" /\ d \in on["introspector"])
    BY <1>4 DEF Abandons, tables
  <2> QED BY <1>0, <1>1, <2>1 DEF Walk
<1>5. CASE ~ReconcileReads /\ ~ReconcileWrites /\ ~Abandons("introspector")
  <2>1. cursor' = cursor /\ owed' \subseteq owed
    BY <1>5 DEF Next, MergesEntity, LinksMention, DecayScans, PreviewsForget, PreviewsUnmerge,
         FindsLineage, Unsupersedes, LoadsGroup, Absorbs, GroupIsStale, RecordsDecision, Abandons, DecayReads,
         DecayCloses, Forgets, Splits, vars, tables, bounds
  <2>2. at["introspector"] = "reconciling" =>
          at'["introspector"] = at["introspector"] /\ on'["introspector"] = on["introspector"]
    <3> SUFFICES ASSUME at["introspector"] = "reconciling"
                 PROVE  at'["introspector"] = at["introspector"] /\ on'["introspector"] = on["introspector"]
      OBVIOUS
    <3>1. ASSUME NEW w \in Writers \ {"introspector"}, NEW to, NEW what, Go(w, to, what)
          PROVE  at'["introspector"] = at["introspector"] /\ on'["introspector"] = on["introspector"]
      BY <1>0, <3>1 DEF Go, Typed, Stored, Desks
    <3>2. "worker" \in Writers \ {"introspector"} /\ "person" \in Writers \ {"introspector"}
      BY DEF Writers
    <3>3. ASSUME NEW nm \in Names, MergesEntity(nm)
          PROVE  at'["introspector"] = at["introspector"] /\ on'["introspector"] = on["introspector"]
      <4>1. PICK n : Go("worker", "linking", n)
        BY <3>3 DEF MergesEntity
      <4> QED BY <3>1, <3>2, <4>1
    <3>4. CASE LinksMention \/ Forgets \/ Splits \/ Unsupersedes
      BY <3>1, <3>2, <3>4 DEF LinksMention, Forgets, Splits, Unsupersedes, Leave
    <3>5. ASSUME NEW n \in Nodes, PreviewsForget(n) \/ PreviewsUnmerge(n) \/ FindsLineage(n)
          PROVE  at'["introspector"] = at["introspector"] /\ on'["introspector"] = on["introspector"]
      BY <3>1, <3>2, <3>5 DEF PreviewsForget, PreviewsUnmerge, FindsLineage
    <3>6. ASSUME NEW w \in Writers,
                 \/ Absorbs(w) \/ GroupIsStale(w) \/ RecordsDecision(w) \/ Abandons(w)
                 \/ \E c \in Nodes, members \in SUBSET Nodes : LoadsGroup(w, c, members)
          PROVE  at'["introspector"] = at["introspector"] /\ on'["introspector"] = on["introspector"]
      <4>1. w # "introspector"
        BY <1>5, <3>6 DEF Absorbs, GroupIsStale, RecordsDecision, LoadsGroup
      <4>2. PICK to, what : Go(w, to, what)
        BY <3>6 DEF Absorbs, GroupIsStale, RecordsDecision, Abandons, LoadsGroup, Leave
      <4> QED BY <3>1, <4>1, <4>2
    <3>7. CASE UNCHANGED <<at, on>>
      BY <3>7
    <3>8. UNCHANGED vars => UNCHANGED <<at, on>>
      BY DEF vars, place
    <3>9. ~DecayReads /\ ~DecayCloses /\ \A n \in Nodes : ~DecayScans(n)
      BY DEF DecayReads, DecayCloses, DecayScans
    <3> QED BY <1>5, <3>3, <3>4, <3>5, <3>6, <3>7, <3>8, <3>9 DEF Next
  <2> QED BY <1>0, <1>1, <2>1, <2>2 DEF Walk
<1> QED BY <1>2, <1>3, <1>4, <1>5

LEMMA WalkEnds ==
  ASSUME Typed, Walk, [Next]_vars, cursor # 0, cursor' = 0
  PROVE  owed \subseteq decisions
<1>1. ReconcileReads
  BY DEF Next, MergesEntity, LinksMention, DecayScans, PreviewsForget, PreviewsUnmerge,
         FindsLineage, Unsupersedes, LoadsGroup, Absorbs, GroupIsStale, RecordsDecision, Abandons, DecayReads,
         DecayCloses, ReconcileWrites, Forgets, Splits, vars, tables
<1>2. at["introspector"] # "reconciling"
  BY <1>1 DEF ReconcileReads
<1>3. Page = {}
  <2>1. 0 \notin Nodes
    BY EntityAssumption, FS_CardinalityType
  <2> QED BY <1>1, <2>1, PageEffect
<1>4. ASSUME NEW d \in owed, d \notin decisions PROVE FALSE
  <2>1. d.canonical \in Nodes /\ cursor < d.canonical /\ d \in MergesOn(d.canonical)
    BY <1>2, <1>4 DEF Walk
  <2>2. records[d.canonical] # {}
    BY <2>1 DEF MergesOn
  <2> QED BY <1>1, <1>3, <2>1, <2>2, PagePassesNothing
<1> QED BY <1>4

-----------------------------------------------------------------------------
(* What the specification keeps. *)

LEMMA InitiallyTrue == Init => IInv
<1> SUFFICES ASSUME Init PROVE IInv
  OBVIOUS
<1>1. Typed
  BY InitiallyTyped
<1>2. \A n \in Nodes : ~Absent(n)
  BY DEF Init, GraphInit, Absent, Closed, Fresh
<1>3. NoDeadEnd /\ AbsorbedCanBeSplit
  BY <1>2 DEF NoDeadEnd, AbsorbedCanBeSplit
<1>4. \A w \in Writers : at[w] = "idle"
  BY DEF Init
<1>5. SplitsWhatIsNamed /\ DesksAreTrue
  BY <1>4 DEF SplitsWhatIsNamed, DesksAreTrue, TrueDesk
<1>7. KeysKnown
  BY <1>4 DEF KeysKnown
<1>6. TrailIsWhole /\ DecisionsAreTrue /\ Walk
  BY DEF Init, TrailIsWhole, MergesOn, DecisionsAreTrue, Walk
<1> QED BY <1>1, <1>3, <1>5, <1>6, <1>7 DEF IInv

LEMMA IInvStep == IInv /\ [Next]_vars => IInv'
<1> SUFFICES ASSUME IInv, [Next]_vars PROVE IInv'
  OBVIOUS
<1> USE DEF IInv
<1>1. Typed'
  BY TypedStep
<1>2. NoDeadEnd'
  BY NoDeadEndStep
<1>3. AbsorbedCanBeSplit' /\ SplitsWhatIsNamed' /\ KeysKnown'
  BY AbsorbedCanBeSplitStep, SplitsNamedStep, KeysKnownStep
<1>4. TrailIsWhole' /\ DesksAreTrue' /\ DecisionsAreTrue'
  BY TrailStep, DesksAreTrueStep, DecisionsAreTrueStep
<1>5. Walk'
  BY WalkStep
<1> QED BY <1>1, <1>2, <1>3, <1>4, <1>5

LEMMA Invariant == Spec => []IInv
BY InitiallyTrue, IInvStep, PTL DEF Spec

(* The graph, the trail and the tables keep their types: what a trail names *)
(* is a node under a key a name can have, whoever wrote it.                 *)
THEOREM EntityTypes == Spec => []TypeOK
<1>1. IInv => TypeOK
  BY DEF IInv, Typed, Stored, Keys, Record, Desks, TypeOK
<1> QED BY <1>1, Invariant, PTL

(* Merges of overlapping groups, splits, reversals and decay leave no       *)
(* circle of closed entities and no dead end: along open lineage, an absent *)
(* entity reaches one that stands.                                          *)
THEOREM HeirsAreReached == Spec => []MergedNamesHaveAnHeir
<1>1. IInv => MergedNamesHaveAnHeir
  BY NoDeadEndMeansHeirs DEF IInv
<1> QED BY <1>1, Invariant, PTL

(* Whatever a merge closed can be named again, through every trail an       *)
(* unmerge may come upon.                                                   *)
THEOREM AbsorbedStaysSplittable == Spec => []AbsorbedCanBeSplit
<1>1. IInv => AbsorbedCanBeSplit
  BY DEF IInv
<1> QED BY <1>1, Invariant, PTL

(* A decision row and a ledger mark speak of a merge that is in the graph.  *)
THEOREM RowsTellOfMerges == Spec => []DecisionsAreTrue
<1>1. IInv => DecisionsAreTrue
  BY DEF IInv
<1> QED BY <1>1, Invariant, PTL

(* A walk of the trail ends with a row for everything it owed, whatever was *)
(* merged or split around its pages.                                        *)
THEOREM WalksExplainAll == Spec => WalkExplainsAll
<1>1. IInv /\ [Next]_vars => [cursor # 0 /\ cursor' = 0 => owed \subseteq decisions]_vars
  BY WalkEnds DEF IInv
<1> QED BY <1>1, Invariant, PTL DEF Spec, WalkExplainsAll
=============================================================================
