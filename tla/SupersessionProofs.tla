-------------------------- MODULE SupersessionProofs --------------------------
(***************************************************************************)
(* What the closing writers keep for any claims, episodes, pairs and modes, *)
(* and for any clock.  First the graph, one transaction at a time; then the *)
(* desks of the writers and the proposal rows; then the properties.         *)
(***************************************************************************)
EXTENDS Supersession, TLAPS

-----------------------------------------------------------------------------
(* The graph. *)

(* The two timelines of a lineage edge are open or closed together. *)
EdgesSound == \A e \in Nodes \X Nodes : lineage[e].validUntil = Never <=> lineage[e].txUntil = Never

(* A reopen holds edges into its own node only.                             *)
ReopensSound ==
  /\ reopens \subseteq Reopens /\ crossed \subseteq Nodes
  /\ \A r \in reopens : \A e \in r.found : e[2] = r.node

GraphSound == GraphTypeOK /\ EdgesSound /\ LineageMatchesCurrency /\ ReopensSound

(* What lineage says of one node.                                           *)
Agrees(n) ==
  /\ Closed(n) <=> node[n].txUntil # Never
  /\ Closed(n) => Successors(n) # {} \/ node[n].closedBy
  /\ Successors(n) # {} => Closed(n) \/ n \in crossed

Linked(e) == lineage[e].created # Never

(* Closing keeps the stamps a node has, and gives it those it lacks.        *)
LEMMA ClosingStamps ==
  ASSUME NEW s \in Stamped, NEW validUntil \in Nat, NEW now \in Nat
  PROVE  LET t == CloseStamps(s, validUntil, now) IN
         /\ t \in Stamped /\ t.validUntil # Never /\ t.txUntil # Never
         /\ t.forgotten = s.forgotten /\ t.closedBy = s.closedBy
         /\ t.txUntil = s.txUntil \/ (s.txUntil = Never /\ t.txUntil = now)
<1>1. CloseStamps(s, validUntil, now) =
        [validUntil |-> Coalesce(s.validUntil, validUntil), txUntil |-> Coalesce(s.txUntil, now),
         forgotten |-> s.forgotten, closedBy |-> s.closedBy]
  BY DEF CloseStamps
<1>2. /\ Coalesce(s.validUntil, validUntil) \in Stamps /\ Coalesce(s.validUntil, validUntil) # Never
      /\ Coalesce(s.txUntil, now) \in Stamps /\ Coalesce(s.txUntil, now) # Never
  BY NeverAssumption DEF Coalesce, Stamped, Stamps
<1>3. Coalesce(s.txUntil, now) = s.txUntil \/ (s.txUntil = Never /\ Coalesce(s.txUntil, now) = now)
  BY DEF Coalesce
<1>4. s.forgotten \in BOOLEAN /\ s.closedBy \in BOOLEAN
  BY DEF Stamped
<1> QED BY <1>1, <1>2, <1>3, <1>4 DEF Stamped

(* An upserted edge is open, and one that was open is left as it is.        *)
LEMMA UpsertingAnEdge ==
  ASSUME NEW edge \in Edge, edge.validUntil = Never <=> edge.txUntil = Never, NEW now \in Nat
  PROVE  LET up == Upserted(edge, now) IN
         /\ up \in Edge /\ Held(up) /\ up.validUntil = Never
         /\ edge.created # Never => up.created = edge.created
         /\ edge.created = Never => up.created = now
         /\ edge.created # Never /\ edge.txUntil = Never => up = edge
<1>1. CASE edge.created = Never
  BY <1>1, NeverAssumption DEF Upserted, NoEdge, Edge, Stamps, Held
<1>2. CASE edge.created # Never /\ edge.validUntil # Never
  <2>1. Upserted(edge, now) = [created |-> edge.created, validUntil |-> Never, txUntil |-> Never]
    BY <1>2 DEF Upserted, Edge
  <2> QED BY <2>1, <1>2 DEF Edge, Stamps, Held
<1>3. CASE edge.created # Never /\ edge.validUntil = Never
  BY <1>3 DEF Upserted, Held
<1> QED BY <1>1, <1>2, <1>3

(* One close: the graph stays sound, the closed nodes are linked to their   *)
(* successor, and no link is lost.                                          *)
LEMMA SupersedeKeeps ==
  ASSUME GraphSound, NEW olds \in SUBSET Nodes, NEW new \in Nodes,
         NEW validUntil \in Nat, NEW now \in Nat,
         Close(olds, new, validUntil, now), UNCHANGED <<clock, reopens>>
  PROVE  /\ GraphSound'
         /\ \A e \in Nodes \X Nodes : Linked(e) => Linked(e)'
         /\ \A o \in olds : Linked(<<new, o>>)'
<1> USE DEF GraphSound
<1>0. Supersede(olds, new, validUntil, now) /\ crossed' = crossed \ olds
  BY DEF Close
<1>1. \A n \in Nodes : node'[n] = IF n \in olds THEN CloseStamps(node[n], validUntil, now) ELSE node[n]
  BY <1>0 DEF Supersede
<1>2. \A e \in Nodes \X Nodes :
        lineage'[e] = IF e[1] = new /\ e[2] \in olds THEN Upserted(lineage[e], now) ELSE lineage[e]
  BY <1>0 DEF Supersede
<1>3. \A n \in Nodes : node[n] \in Stamped
  BY DEF GraphTypeOK
<1>4. \A e \in Nodes \X Nodes : lineage[e] \in Edge /\ (lineage[e].validUntil = Never <=> lineage[e].txUntil = Never)
  BY DEF GraphTypeOK, EdgesSound
<1>5. \A n \in olds :
        /\ node'[n] \in Stamped /\ Closed(n)' /\ node'[n].txUntil # Never
  BY <1>1, <1>3, ClosingStamps DEF Closed
<1>6. \A e \in Nodes \X Nodes : e[1] = new /\ e[2] \in olds =>
        lineage'[e] \in Edge /\ Held(lineage'[e]) /\ lineage'[e].validUntil = Never /\ lineage'[e].created # Never
  BY <1>2, <1>4, UpsertingAnEdge DEF Held
<1>7. GraphTypeOK'
  <2>1. node' \in [Nodes -> Stamped]
    <3>1. \A n \in Nodes : node'[n] \in Stamped
      BY <1>1, <1>3, <1>5
    <3> QED BY <1>0, <3>1 DEF Supersede
  <2>2. lineage' \in [Nodes \X Nodes -> Edge]
    <3>1. \A e \in Nodes \X Nodes : lineage'[e] \in Edge
      BY <1>2, <1>4, <1>6
    <3> QED BY <1>0, <3>1 DEF Supersede
  <2> QED BY <2>1, <2>2 DEF GraphTypeOK
<1>8. EdgesSound'
  BY <1>2, <1>4, <1>6 DEF EdgesSound, Held
<1>9. \A o \in olds : <<new, o>> \in Nodes \X Nodes /\ Held(lineage'[<<new, o>>]) /\ Linked(<<new, o>>)'
  BY <1>6 DEF Linked
<1>10. \A e \in Nodes \X Nodes : Linked(e) => Linked(e)'
  BY <1>2, <1>6 DEF Linked
<1>11. ASSUME NEW n \in Nodes
       PROVE  Agrees(n)'
  <2>1. CASE n \in olds
    <3>1. new \in Successors(n)'
      BY <2>1, <1>9 DEF Successors
    <3> QED BY <3>1, <2>1, <1>5 DEF Agrees
  <2>2. CASE n \notin olds
    <3>1. node'[n] = node[n] /\ (n \in crossed => n \in crossed')
      BY <2>2, <1>0, <1>1
    <3>2. \A m \in Nodes : lineage'[<<m, n>>] = lineage[<<m, n>>]
      BY <2>2, <1>2
    <3>3. Successors(n)' = Successors(n)
      BY <3>2 DEF Successors
    <3>4. Agrees(n)
      BY DEF Agrees, LineageMatchesCurrency
    <3> QED BY <3>1, <3>3, <3>4 DEF Closed, Agrees
  <2> QED BY <2>1, <2>2
<1>12. ReopensSound'
  BY <1>0 DEF ReopensSound
<1> QED BY <1>7, <1>8, <1>9, <1>10, <1>11, <1>12 DEF LineageMatchesCurrency, Agrees

(* A reopen closes the edges it found, all of them into its node; what is    *)
(* left open into the node makes it one that a close has crossed.            *)
LEMMA UnsupersedeKeeps ==
  ASSUME GraphSound, NEW r \in reopens, Reopened(r)
  PROVE  /\ GraphSound'
         /\ \A e \in Nodes \X Nodes : lineage'[e].created = lineage[e].created
<1>0. PICK n \in Nodes, now \in Nat : n = r.node /\ now = r.now
  BY DEF GraphSound, ReopensSound, Reopens
<1>9. /\ Unsupersede(n, r.found, now) /\ UNCHANGED clock /\ reopens' = reopens \ {r}
      /\ crossed' = IF LineageInto(n) \subseteq r.found THEN crossed \ {n} ELSE crossed \cup {n}
      /\ \A e \in r.found : e[2] = n
  BY <1>0 DEF Reopened, GraphSound, ReopensSound
<1> USE DEF GraphSound
<1>1. \A e \in Nodes \X Nodes :
        lineage'[e] = IF e \in r.found THEN ClosedEdge(lineage[e], now) ELSE lineage[e]
  BY <1>9 DEF Unsupersede
<1>2. \A e \in Nodes \X Nodes : lineage[e] \in Edge /\ (lineage[e].validUntil = Never <=> lineage[e].txUntil = Never)
  BY DEF GraphTypeOK, EdgesSound
<1>3. ASSUME NEW edge \in Edge, edge.validUntil = Never <=> edge.txUntil = Never
      PROVE  /\ ClosedEdge(edge, now) \in Edge /\ ~Held(ClosedEdge(edge, now))
             /\ ClosedEdge(edge, now).created = edge.created
             /\ ClosedEdge(edge, now).validUntil = Never <=> ClosedEdge(edge, now).txUntil = Never
  <2>1. CASE Held(edge)
    <3>1. ClosedEdge(edge, now) = [created |-> edge.created, validUntil |-> now, txUntil |-> now]
      BY <2>1 DEF ClosedEdge, Edge
    <3> QED BY <3>1, NeverAssumption DEF Edge, Stamps, Held
  <2>2. CASE ~Held(edge)
    BY <2>2, <1>3 DEF ClosedEdge
  <2> QED BY <2>1, <2>2
<1>4. \A e \in Nodes \X Nodes :
        /\ lineage'[e] \in Edge /\ lineage'[e].created = lineage[e].created
        /\ lineage'[e].validUntil = Never <=> lineage'[e].txUntil = Never
        /\ e \in r.found => ~Held(lineage'[e])
  BY <1>1, <1>2, <1>3
<1>5. /\ node'[n] = [validUntil |-> Never, txUntil |-> Never, forgotten |-> node[n].forgotten, closedBy |-> node[n].closedBy]
      /\ \A m \in Nodes \ {n} : node'[m] = node[m]
  BY <1>9 DEF Unsupersede, GraphTypeOK, Stamped
<1>6. GraphTypeOK'
  <2>1. node' \in [Nodes -> Stamped]
    <3>1. node[n] \in Stamped
      BY DEF GraphTypeOK
    <3>2. node'[n] \in Stamped
      BY <3>1, <1>5 DEF Stamped, Stamps
    <3> QED BY <1>5, <1>9, <3>2 DEF Unsupersede, GraphTypeOK
  <2>2. lineage' \in [Nodes \X Nodes -> Edge]
    BY <1>4, <1>9 DEF Unsupersede
  <2> QED BY <1>9, <2>1, <2>2 DEF GraphTypeOK
<1>7. EdgesSound'
  BY <1>4 DEF EdgesSound
<1>8. ASSUME NEW m \in Nodes
      PROVE  Agrees(m)'
  <2>0. Agrees(m)
    BY DEF Agrees, LineageMatchesCurrency
  <2>1. CASE m = n
    <3>1. CASE LineageInto(n) \subseteq r.found
      <4>1. \A x \in Nodes : ~Held(lineage'[<<x, n>>])
        <5> SUFFICES ASSUME NEW x \in Nodes PROVE ~Held(lineage'[<<x, n>>])
          OBVIOUS
        <5>1. CASE <<x, n>> \in r.found
          BY <1>4, <5>1
        <5>2. CASE <<x, n>> \notin r.found
          <6>1. ~Held(lineage[<<x, n>>])
            BY <3>1, <5>2 DEF LineageInto, Successors
          <6> QED BY <1>1, <5>2, <6>1
        <5> QED BY <5>1, <5>2
      <4>2. Successors(n)' = {}
        BY <4>1 DEF Successors
      <4> QED BY <2>1, <4>2, <1>5 DEF Closed, Agrees
    <3>2. CASE ~(LineageInto(n) \subseteq r.found)
      <4>1. n \in crossed'
        BY <1>9, <3>2
      <4> QED BY <2>1, <4>1, <1>5 DEF Closed, Agrees
    <3> QED BY <3>1, <3>2
  <2>2. CASE m # n
    <3>1. \A x \in Nodes : lineage'[<<x, m>>] = lineage[<<x, m>>]
      BY <2>2, <1>1, <1>9
    <3>2. Successors(m)' = Successors(m)
      BY <3>1 DEF Successors
    <3>3. m \in crossed => m \in crossed'
      BY <2>2, <1>9
    <3> QED BY <2>0, <2>2, <3>2, <3>3, <1>5 DEF Closed, Agrees
  <2> QED BY <2>1, <2>2
<1>10. ReopensSound'
  BY <1>9 DEF ReopensSound
<1> QED BY <1>4, <1>6, <1>7, <1>8, <1>10 DEF LineageMatchesCurrency, Agrees

(* Beginning a reopen, and cutting one short, touch no node and no edge.     *)
LEMMA ReopensKeep ==
  ASSUME GraphSound, (\E n \in Nodes : PersonUnsupersedes(n)) \/ \E r \in reopens : ReopenAborts(r)
  PROVE  GraphSound'
<1> USE DEF GraphSound
<1>1. UNCHANGED <<node, lineage, clock, crossed>>
  BY DEF PersonUnsupersedes, ReopenAborts
<1>2. \A n \in Nodes : LineageInto(n) \subseteq Nodes \X Nodes /\ \A e \in LineageInto(n) : e[2] = n
  BY DEF LineageInto, Successors
<1>3. \A r \in reopens' \ reopens : r \in Reopens /\ \A e \in r.found : e[2] = r.node
  <2>1. CASE \E n \in Nodes : PersonUnsupersedes(n)
    <3>1. PICK n \in Nodes : reopens' = reopens \cup {[node |-> n, found |-> LineageInto(n), now |-> clock]}
      BY <2>1 DEF PersonUnsupersedes
    <3> QED BY <3>1, <1>2 DEF Reopens, GraphTypeOK
  <2>2. CASE \E r \in reopens : ReopenAborts(r)
    <3>1. PICK r \in reopens : reopens' \subseteq reopens \cup {[r EXCEPT !.found = LineageInto(r.node)]}
      BY <2>2 DEF ReopenAborts
    <3>2. r.node \in Nodes /\ r.now \in Nat /\ [r EXCEPT !.found = LineageInto(r.node)]
                = [node |-> r.node, found |-> LineageInto(r.node), now |-> r.now]
      BY DEF ReopensSound, Reopens
    <3> QED BY <3>1, <3>2, <1>2 DEF Reopens
  <2> QED BY <2>1, <2>2
<1>4. ReopensSound'
  BY <1>1, <1>3 DEF ReopensSound
<1>5. GraphTypeOK' /\ EdgesSound'
  BY <1>1 DEF GraphTypeOK, EdgesSound
<1>6. LineageMatchesCurrency'
  BY <1>1 DEF LineageMatchesCurrency, Closed, Successors
<1> QED BY <1>4, <1>5, <1>6

(* Forgetting a node and the upkeep's close leave the lineage alone.        *)
LEMMA MarksKeep ==
  ASSUME GraphSound, NEW n \in Nodes, UNCHANGED <<lineage, clock, reopens>>,
         \/ node' = [node EXCEPT ![n].forgotten = TRUE] /\ UNCHANGED crossed
         \/ /\ node' = [node EXCEPT ![n] = [CloseStamps(@, clock, clock) EXCEPT !.closedBy = TRUE]]
            /\ crossed' = crossed \ {n}
  PROVE  GraphSound'
<1> USE DEF GraphSound
<1>1. clock \in Nat /\ node[n] \in Stamped
  BY DEF GraphTypeOK
<1>2. PICK t \in Stamped :
        /\ node' = [node EXCEPT ![n] = t]
        /\ \/ /\ t.validUntil = node[n].validUntil /\ t.txUntil = node[n].txUntil
              /\ t.closedBy = node[n].closedBy /\ crossed' = crossed
           \/ /\ t.validUntil # Never /\ t.txUntil # Never /\ t.closedBy
              /\ crossed' = crossed \ {n}
  <2>1. CASE node' = [node EXCEPT ![n].forgotten = TRUE] /\ UNCHANGED crossed
    <3>1. [node[n] EXCEPT !.forgotten = TRUE] \in Stamped
      BY <1>1 DEF Stamped
    <3> QED BY <2>1, <3>1, <1>1 DEF Stamped
  <2>2. CASE /\ node' = [node EXCEPT ![n] = [CloseStamps(@, clock, clock) EXCEPT !.closedBy = TRUE]]
             /\ crossed' = crossed \ {n}
    <3>1. PICK s \in Stamped : s = CloseStamps(node[n], clock, clock) /\ s.validUntil # Never /\ s.txUntil # Never
      BY <1>1, ClosingStamps
    <3>2. [s EXCEPT !.closedBy = TRUE] \in Stamped
      BY DEF Stamped
    <3> QED BY <2>2, <3>1, <3>2 DEF Stamped
  <2> QED BY <2>1, <2>2
<1>3. GraphTypeOK' /\ EdgesSound' /\ ReopensSound'
  BY <1>2 DEF GraphTypeOK, EdgesSound, ReopensSound
<1>4. \A m \in Nodes : Successors(m)' = Successors(m)
  BY DEF Successors
<1>5. ASSUME NEW m \in Nodes
      PROVE  Agrees(m)'
  <2>0. Agrees(m)
    BY DEF Agrees, LineageMatchesCurrency
  <2>1. CASE m = n
    <3>1. node'[n] = t
      BY <1>2 DEF GraphTypeOK
    <3> QED BY <2>0, <2>1, <3>1, <1>2, <1>4 DEF Closed, Agrees
  <2>2. CASE m # n
    <3>1. node'[m] = node[m] /\ (m \in crossed => m \in crossed')
      BY <2>2, <1>2 DEF GraphTypeOK
    <3> QED BY <2>0, <3>1, <1>4 DEF Closed, Agrees
  <2> QED BY <2>1, <2>2
<1> QED BY <1>3, <1>5 DEF LineageMatchesCurrency, Agrees
-----------------------------------------------------------------------------
(* The desks of the writers, and the rows. *)

RowsTyped == filed \subseteq Pairs /\ resolved \subseteq filed /\ applied \subseteq Pairs /\ ruled \subseteq resolved

(* Where a writer stands says what it may rely on: it works on a pair, the  *)
(* row of a pair it weighs or closes was filed, and a second pass is held   *)
(* in one mode only.                                                        *)
Desk(w) ==
  /\ at[w] \in Places /\ on[w] \in Pairs \cup {NoPair} /\ began[w] \in Nat
  /\ at[w] # "idle" => on[w] \in Pairs
  /\ at[w] \in {"weighing", "closing", "sourced", "closed"} => on[w] \in filed
  /\ at[w] = "reviewing" => mode = "unanimous"

DesksTyped ==
  /\ mode \in Modes /\ hands \in Nat
  /\ at \in [Writers -> Places] /\ on \in [Writers -> Pairs \cup {NoPair}] /\ began \in [Writers -> Nat]
  /\ late \subseteq Writers
  /\ \A w \in Writers : Desk(w)

(* A row resolved as applied, or about to be, has its close in the graph.   *)
Shown(p) == Linked(<<New(p), Old(p)>>) \/ Linked(<<SourceOf[New(p)], SourceOf[Old(p)]>>)

JudgmentsShown ==
  /\ \A p \in applied : Shown(p)
  /\ \A w \in Writers : at[w] = "closed" => Shown(on[w])

LEMMA WriterNames == {"stage", "introspector", "person"} = Writers
  BY DEF Writers

LEMMA LeavingKeepsDesks ==
  ASSUME DesksTyped, NEW w \in Writers, Rests(w), late' \subseteq Writers,
         filed \subseteq filed', UNCHANGED mode, hands' \in Nat
  PROVE  DesksTyped'
<1>1. \A v \in Writers : Desk(v)'
  BY DEF DesksTyped, Desk, Rests, Places
<1>2. /\ at' \in [Writers -> Places] /\ on' \in [Writers -> Pairs \cup {NoPair}]
      /\ began' \in [Writers -> Nat]
  BY DEF DesksTyped, Rests, Places
<1> QED BY <1>1, <1>2 DEF DesksTyped

LEMMA GoingKeepsDesks ==
  ASSUME DesksTyped, NEW w \in Writers, NEW place \in Places, Go(w, place), at[w] # "idle",
         place \in {"weighing", "closing", "sourced", "closed"} => on[w] \in filed',
         place = "reviewing" => mode = "unanimous",
         filed \subseteq filed', UNCHANGED mode, hands' \in Nat
  PROVE  DesksTyped'
<1>1. \A v \in Writers : Desk(v)'
  BY DEF DesksTyped, Desk, Go
<1>2. /\ at' \in [Writers -> Places] /\ on' \in [Writers -> Pairs \cup {NoPair}]
      /\ began' \in [Writers -> Nat] /\ late' \subseteq Writers
  BY DEF DesksTyped, Go
<1> QED BY <1>1, <1>2 DEF DesksTyped

LEMMA TakingKeepsDesks ==
  ASSUME DesksTyped, NEW w \in Writers, NEW p \in Pairs, NEW place \in Places, Take(w, p, place),
         place \in {"weighing", "closing", "sourced", "closed"} => p \in filed, place # "reviewing",
         clock \in Nat, UNCHANGED <<filed, mode, hands>>
  PROVE  DesksTyped'
<1>1. \A v \in Writers : Desk(v)'
  BY DEF DesksTyped, Desk, Take
<1>2. /\ at' \in [Writers -> Places] /\ on' \in [Writers -> Pairs \cup {NoPair}]
      /\ began' \in [Writers -> Nat] /\ late' \subseteq Writers
  BY DEF DesksTyped, Take
<1> QED BY <1>1, <1>2 DEF DesksTyped

LEMMA StayingKeepsDesks ==
  ASSUME DesksTyped, UNCHANGED <<at, on, began, filed, mode>>, late' \subseteq Writers, hands' \in Nat
  PROVE  DesksTyped'
  BY DEF DesksTyped, Desk

-----------------------------------------------------------------------------
(* The closing writers are one operation on the graph: some nodes of the    *)
(* pair's old side close in favour of one node, stamped with the clock the  *)
(* writer began at, and the pair is shown.                                  *)

ClosesFor(w) ==
  \E olds \in SUBSET Nodes, new \in Nodes, validUntil \in Nat :
    /\ Close(olds, new, validUntil, began[w])
    /\ \/ new = New(on[w]) /\ Old(on[w]) \in olds
       \/ new = SourceOf[New(on[w])] /\ SourceOf[Old(on[w])] \in olds

LEMMA PairSides ==
  ASSUME NEW p \in Pairs
  PROVE  /\ Old(p) \in Facts /\ New(p) \in Facts /\ Old(p) \in Nodes /\ New(p) \in Nodes
         /\ SourceOf[Old(p)] \in Nodes /\ SourceOf[New(p)] \in Nodes
  BY SupersessionAssumption DEF Old, New

LEMMA ClaimIsAClose ==
  ASSUME NEW w \in Writers, on[w] \in Pairs, NEW validUntil \in Nat, CloseClaim(on[w], validUntil, began[w])
  PROVE  ClosesFor(w)
<1>1. PICK p \in Pairs : p = on[w]
  OBVIOUS
<1>2. PICK olds \in SUBSET Nodes : olds = {Old(p)}
  BY PairSides
<1>3. PICK new \in Nodes : new = New(p)
  BY PairSides
<1>4. Close(olds, new, validUntil, began[w])
  BY <1>1, <1>2, <1>3 DEF CloseClaim
<1> QED BY <1>1, <1>2, <1>3, <1>4 DEF ClosesFor

LEMMA FamilyIsAClose ==
  ASSUME NEW w \in Writers, on[w] \in Pairs, NEW validUntil \in Nat, CloseFamily(on[w], validUntil, began[w])
  PROVE  ClosesFor(w)
<1>1. PICK p \in Pairs : p = on[w]
  OBVIOUS
<1>2. PICK siblings \in SUBSET OpenSiblings(Old(p)) :
        Close({Old(p)} \cup siblings, New(p), validUntil, began[w])
  BY <1>1 DEF CloseFamily
<1>3. siblings \subseteq Nodes
  BY <1>2, SupersessionAssumption DEF OpenSiblings
<1>4. PICK olds \in SUBSET Nodes : olds = {Old(p)} \cup siblings
  BY <1>3, PairSides
<1>5. PICK new \in Nodes : new = New(p)
  BY PairSides
<1>6. Close(olds, new, validUntil, began[w])
  BY <1>2, <1>4, <1>5
<1> QED BY <1>1, <1>4, <1>5, <1>6 DEF ClosesFor

LEMMA EpisodeIsAClose ==
  ASSUME NEW w \in Writers, on[w] \in Pairs, NEW validUntil \in Nat, CloseEpisode(on[w], validUntil, began[w])
  PROVE  ClosesFor(w)
<1>1. PICK p \in Pairs : p = on[w]
  OBVIOUS
<1>2. PICK olds : olds = {SourceOf[Old(p)]} \cup {f \in Facts : SourceOf[f] = SourceOf[Old(p)] /\ Current(f)}
  OBVIOUS
<1>3. olds \in SUBSET Nodes /\ SourceOf[Old(p)] \in olds
  BY <1>2, PairSides, SupersessionAssumption
<1>4. PICK new \in Nodes : new = SourceOf[New(p)]
  BY PairSides
<1>5. Close(olds, new, validUntil, began[w])
  BY <1>1, <1>2, <1>4 DEF CloseEpisode
<1> QED BY <1>1, <1>3, <1>4, <1>5 DEF ClosesFor

AnyClose(w) ==
  \/ w = "stage" /\ StageClosesAuto
  \/ w = "person" /\ ClosesSource
  \/ Merges(w) \/ Closes(w)

LEMMA WritersClose ==
  ASSUME DesksTyped, NEW w \in Writers, AnyClose(w)
  PROVE  ClosesFor(w) /\ at[w] # "idle" /\ on[w] \in Pairs /\ UNCHANGED <<clock, reopens>>
<1>1. at[w] # "idle" /\ UNCHANGED <<clock, reopens>>
  BY DEF AnyClose, StageClosesAuto, Merges, Closes, ClosesSource
<1>2. on[w] \in Pairs /\ began[w] \in Nat
  BY <1>1 DEF DesksTyped, Desk
<1>3. PICK now \in Nat : now = began[w]
  BY <1>2
<1>4. \/ CloseClaim(on[w], 0, began[w]) \/ CloseClaim(on[w], now, began[w])
      \/ CloseFamily(on[w], 0, began[w]) \/ CloseFamily(on[w], now, began[w])
      \/ CloseEpisode(on[w], 0, began[w]) \/ CloseEpisode(on[w], now, began[w])
  BY <1>3 DEF AnyClose, StageClosesAuto, Merges, Closes, ClosesSource
<1>5. 0 \in Nat
  OBVIOUS
<1> QED BY <1>1, <1>2, <1>3, <1>4, <1>5, ClaimIsAClose, FamilyIsAClose, EpisodeIsAClose

(* A close keeps the graph sound, shows its pair and hides none.            *)
LEMMA CloseKeeps ==
  ASSUME GraphSound, DesksTyped, NEW w \in Writers, NEW p \in Pairs, p = on[w], ClosesFor(w), UNCHANGED <<clock, reopens>>
  PROVE  GraphSound' /\ (\A q \in Pairs : Shown(q) => Shown(q)') /\ Shown(p)'
<1>1. PICK olds \in SUBSET Nodes, new \in Nodes, validUntil \in Nat :
        /\ Close(olds, new, validUntil, began[w])
        /\ \/ new = New(p) /\ Old(p) \in olds
           \/ new = SourceOf[New(p)] /\ SourceOf[Old(p)] \in olds
  BY DEF ClosesFor
<1>2. PICK now \in Nat : now = began[w]
  BY DEF DesksTyped
<1>3. Close(olds, new, validUntil, now)
  BY <1>1, <1>2
<1>4. /\ GraphSound'
      /\ \A e \in Nodes \X Nodes : Linked(e) => Linked(e)'
      /\ \A o \in olds : Linked(<<new, o>>)'
  BY <1>3, SupersedeKeeps
<1>5. \A q \in Pairs : Shown(q) => Shown(q)'
  BY <1>4, PairSides DEF Shown
<1>6. CASE new = New(p) /\ Old(p) \in olds
  <2>1. PICK o \in olds : o = Old(p)
    BY <1>6
  <2>2. lineage'[<<new, o>>].created # Never
    BY <1>4, <2>1 DEF Linked
  <2>3. lineage'[<<New(p), Old(p)>>].created # Never
    BY <1>6, <2>1, <2>2
  <2>4. Shown(p)'
    BY <2>3 DEF Shown, Linked, Old, New
  <2> QED BY <1>4, <1>5, <2>4
<1>7. CASE new = SourceOf[New(p)] /\ SourceOf[Old(p)] \in olds
  <2>1. PICK o \in olds : o = SourceOf[Old(p)]
    BY <1>7
  <2>2. lineage'[<<new, o>>].created # Never
    BY <1>4, <2>1 DEF Linked
  <2>3. lineage'[<<SourceOf[New(p)], SourceOf[Old(p)]>>].created # Never
    BY <1>7, <2>1, <2>2
  <2>4. Shown(p)'
    BY <2>3 DEF Shown, Linked, Old, New
  <2> QED BY <1>4, <1>5, <2>4
<1> QED BY <1>1, <1>4, <1>5, <1>6, <1>7
-----------------------------------------------------------------------------
(* Types and the sound graph. *)

Sound == GraphSound /\ RowsTyped /\ DesksTyped

LEMMA GraphInductive ==
  ASSUME Sound, [Next]_vars
  PROVE  GraphSound' /\ \A q \in Pairs : Shown(q) => Shown(q)'
<1> USE DEF Sound
<1>1. CASE UNCHANGED <<node, lineage, reopens, crossed>> /\ clock' \in Nat
  BY <1>1 DEF GraphSound, ReopensSound, GraphTypeOK, EdgesSound, LineageMatchesCurrency, Closed, Successors, Shown, Linked
<1>2. clock \in Nat
  BY DEF GraphSound, GraphTypeOK
<1>3. ASSUME NEW w \in Writers, AnyClose(w)
      PROVE  GraphSound' /\ \A q \in Pairs : Shown(q) => Shown(q)'
  <2>1. ClosesFor(w) /\ on[w] \in Pairs /\ UNCHANGED <<clock, reopens>>
    BY <1>3, WritersClose
  <2>2. PICK p \in Pairs : p = on[w]
    BY <2>1
  <2> QED BY <2>1, <2>2, CloseKeeps
<1>4. ASSUME NEW r \in reopens, Reopened(r)
      PROVE  GraphSound' /\ \A q \in Pairs : Shown(q) => Shown(q)'
  <2>1. GraphSound' /\ \A e \in Nodes \X Nodes : lineage'[e].created = lineage[e].created
    BY <1>4, UnsupersedeKeeps
  <2> QED BY <2>1, PairSides DEF Shown, Linked
<1>13. Touched \subseteq Nodes /\ Intentions \subseteq Nodes
  BY SupersessionAssumption
<1>14. CASE (\E n \in Touched : PersonUnsupersedes(n)) \/ \E r \in reopens : ReopenAborts(r)
  <2>1. GraphSound'
    BY <1>13, <1>14, ReopensKeep
  <2>2. UNCHANGED lineage
    BY <1>14 DEF PersonUnsupersedes, ReopenAborts
  <2> QED BY <2>1, <2>2 DEF Shown, Linked
<1>5. ASSUME NEW n \in Nodes, PersonForgets(n) \/ UpkeepCloses(n)
      PROVE  GraphSound' /\ \A q \in Pairs : Shown(q) => Shown(q)'
  <2>1. UNCHANGED <<lineage, clock, reopens>>
    BY <1>5 DEF PersonForgets, UpkeepCloses, ForgetNode
  <2>2. GraphSound'
    BY <1>5, <2>1, MarksKeep DEF PersonForgets, UpkeepCloses, ForgetNode
  <2> QED BY <2>1, <2>2 DEF Shown, Linked
<1>6. CASE TimePasses
  BY <1>1, <1>2, <1>6 DEF TimePasses, Tick
<1>7. CASE UNCHANGED graph
  BY <1>1, <1>2, <1>7 DEF graph
<1>8. ASSUME NEW p \in Pairs,
             \/ StageJudges(p) \/ KeyedReads(p) \/ DedupReads(p) \/ ResolverTakes(p)
             \/ PersonApplies(p) \/ Dismisses(p) \/ PersonReopensRow(p)
      PROVE  UNCHANGED graph
  BY <1>8 DEF StageJudges, KeyedReads, DedupReads, ResolverTakes, PersonApplies, Dismisses, PersonReopensRow
<1>9. ASSUME StageRules \/ StageReviews \/ StageReadsCurrency \/ StageFindsStale \/ StageOpens \/ ResolverRules \/ FindsSource
      PROVE  UNCHANGED graph
  BY <1>9 DEF StageRules, StageReviews, StageReadsCurrency, StageFindsStale, StageOpens, ResolverRules, FindsSource
<1>10. ASSUME NEW w \in Writers, Resolves(w) \/ Abandons(w)
       PROVE  UNCHANGED graph
  BY <1>10 DEF Resolves, Abandons
<1>11. CASE StageClosesAuto \/ ClosesSource
  BY <1>3, <1>11, WriterNames DEF AnyClose
<1>15. ASSUME NEW w \in Writers, Merges(w) \/ Closes(w)
       PROVE  GraphSound' /\ \A q \in Pairs : Shown(q) => Shown(q)'
  BY <1>3, <1>15 DEF AnyClose
<1>12. CASE UNCHANGED vars
  BY <1>7, <1>12 DEF vars
<1> QED BY <1>4, <1>5, <1>6, <1>7, <1>8, <1>9, <1>10, <1>11, <1>12, <1>13, <1>14, <1>15 DEF Next

LEMMA RowsInductive ==
  ASSUME Sound, [Next]_vars
  PROVE  RowsTyped' /\ filed \subseteq filed'
<1> USE DEF Sound
<1>1. CASE UNCHANGED rows
  BY <1>1 DEF RowsTyped, rows
<1>2. \A w \in Writers :
        /\ at[w] # "idle" => on[w] \in Pairs
        /\ at[w] \in {"weighing", "closing", "sourced", "closed"} => on[w] \in filed
  BY DEF DesksTyped, Desk
<1>3. CASE StageRules \/ StageReviews \/ StageOpens
  <2>1. on["stage"] \in Pairs
    <3>1. at["stage"] \in {"judging", "reviewing", "clear"}
      BY <1>3 DEF StageRules, StageReviews, StageOpens
    <3>2. "stage" \in Writers /\ at["stage"] # "idle"
      BY <3>1, WriterNames
    <3> QED BY <1>2, <3>2
  <2>2. (filed' = filed \/ filed' = filed \cup {on["stage"]}) /\ UNCHANGED <<resolved, applied, ruled>>
    BY <1>3 DEF StageRules, StageReviews, StageOpens, Record
  <2> QED BY <2>1, <2>2 DEF RowsTyped
<1>4. CASE StageFindsStale
  <2>1. on["stage"] \in Pairs
    <3>1. at["stage"] = "gone"
      BY <1>4 DEF StageFindsStale
    <3>2. "stage" \in Writers /\ at["stage"] # "idle"
      BY <3>1, WriterNames
    <3> QED BY <1>2, <3>2
  <2> QED BY <1>4, <2>1 DEF StageFindsStale, Record, RowsTyped
<1>5. ASSUME NEW p \in filed, Dismissal(p)
      PROVE  RowsTyped' /\ filed \subseteq filed'
  BY <1>5 DEF Dismissal, RowsTyped
<1>6. CASE ResolverRules
  <2>1. on["introspector"] \in filed
    <3>1. at["introspector"] = "weighing"
      BY <1>6 DEF ResolverRules
    <3>2. "introspector" \in Writers
      BY WriterNames
    <3> QED BY <1>2, <3>1, <3>2
  <2>2. PICK p \in filed : p = on["introspector"]
    BY <2>1
  <2>3. UNCHANGED rows \/ Dismissal(p)
    BY <1>6, <2>2 DEF ResolverRules
  <2> QED BY <1>1, <1>5, <2>3
<1>7. ASSUME NEW p \in Pairs, Dismisses(p)
      PROVE  RowsTyped' /\ filed \subseteq filed'
  BY <1>5, <1>7 DEF Dismisses
<1>8. ASSUME NEW p \in Pairs, PersonReopensRow(p)
      PROVE  RowsTyped' /\ filed \subseteq filed'
  BY <1>8 DEF PersonReopensRow, RowsTyped
<1>9. ASSUME NEW w \in Writers, Resolves(w)
      PROVE  RowsTyped' /\ filed \subseteq filed'
  <2>1. on[w] \in filed
    <3>1. at[w] = "closed"
      BY <1>9 DEF Resolves
    <3> QED BY <1>2, <3>1
  <2> QED BY <1>9, <2>1 DEF Resolves, RowsTyped
<1>10. ASSUME NEW p \in Pairs,
              StageJudges(p) \/ KeyedReads(p) \/ DedupReads(p) \/ ResolverTakes(p) \/ PersonApplies(p)
       PROVE  UNCHANGED rows
  BY <1>10 DEF StageJudges, KeyedReads, DedupReads, ResolverTakes, PersonApplies
<1>11. ASSUME StageReadsCurrency \/ StageClosesAuto \/ FindsSource \/ ClosesSource \/ TimePasses
       PROVE  UNCHANGED rows
  BY <1>11 DEF StageReadsCurrency, StageClosesAuto, FindsSource, ClosesSource, TimePasses
<1>12. ASSUME NEW w \in Writers, Merges(w) \/ Closes(w) \/ Abandons(w)
       PROVE  UNCHANGED rows
  BY <1>12 DEF Merges, Closes, Abandons
<1>13. ASSUME NEW n, PersonUnsupersedes(n) \/ PersonForgets(n) \/ UpkeepCloses(n)
       PROVE  UNCHANGED rows
  BY <1>13 DEF PersonUnsupersedes, PersonForgets, UpkeepCloses
<1>15. ASSUME NEW r, Reopened(r) \/ ReopenAborts(r)
       PROVE  UNCHANGED rows
  BY <1>15 DEF Reopened, ReopenAborts
<1>14. CASE UNCHANGED vars
  BY <1>1, <1>14 DEF vars
<1> QED BY <1>1, <1>3, <1>4, <1>6, <1>7, <1>8, <1>9, <1>10, <1>11, <1>12, <1>13, <1>14, <1>15 DEF Next

LEMMA DesksInductive ==
  ASSUME Sound, filed \subseteq filed', [Next]_vars
  PROVE  DesksTyped'
<1> USE DEF Sound
<1>1. CASE UNCHANGED <<at, on, began, filed, mode>> /\ late' \subseteq Writers /\ hands' \in Nat
  BY <1>1, StayingKeepsDesks
<1>2. clock \in Nat /\ hands \in Nat /\ late \subseteq Writers
  BY DEF GraphSound, GraphTypeOK, DesksTyped
<1>3. ASSUME NEW p \in Pairs, NEW w \in Writers, NEW place \in {"judging", "merging"},
             Take(w, p, place), UNCHANGED <<filed, mode, hands>>
      PROVE  DesksTyped'
  BY <1>2, <1>3, TakingKeepsDesks DEF Places
<1>4. ASSUME NEW p \in filed, NEW w \in Writers, NEW place \in {"weighing", "closing"},
             Take(w, p, place), UNCHANGED <<filed, mode, hands>>
      PROVE  DesksTyped'
  BY <1>2, <1>4, TakingKeepsDesks DEF Places, RowsTyped
<1>5. ASSUME NEW w \in Writers, Leave(w), UNCHANGED <<mode, hands>>
      PROVE  DesksTyped'
  BY <1>2, <1>5, LeavingKeepsDesks DEF Leave
<1>6. ASSUME NEW w \in Writers, at[w] # "idle", UNCHANGED <<mode, hands>>,
             NEW place \in {"gating", "gone", "clear"}, Go(w, place)
      PROVE  DesksTyped'
  BY <1>2, <1>6, GoingKeepsDesks DEF Places
<1>7. ASSUME NEW w \in Writers, at[w] # "idle", UNCHANGED <<mode, hands>>,
             NEW place \in {"closing", "sourced", "closed"}, Go(w, place), on[w] \in filed'
      PROVE  DesksTyped'
  BY <1>2, <1>7, GoingKeepsDesks DEF Places
<1>8. ASSUME NEW p \in Pairs, StageJudges(p) \/ KeyedReads(p) \/ DedupReads(p)
      PROVE  DesksTyped'
  <2>1. /\ \/ Take("stage", p, "judging") \/ Take("stage", p, "merging")
           \/ Take("introspector", p, "merging")
        /\ UNCHANGED <<filed, mode, hands>>
    BY <1>8 DEF StageJudges, KeyedReads, DedupReads, rows
  <2> QED BY <2>1, <1>3, WriterNames
<1>9. ASSUME NEW p \in Pairs, ResolverTakes(p) \/ PersonApplies(p)
      PROVE  DesksTyped'
  <2>1. /\ p \in filed
        /\ Take("introspector", p, "weighing") \/ Take("person", p, "closing")
        /\ UNCHANGED <<filed, mode, hands>>
    BY <1>9 DEF ResolverTakes, PersonApplies, rows
  <2> QED BY <2>1, <1>4, WriterNames
<1>10. CASE StageRules
  <2>1. at["stage"] # "idle" /\ UNCHANGED <<mode, hands>>
    BY <1>10 DEF StageRules
  <2>2. \/ Leave("stage")
        \/ mode = "unanimous" /\ Go("stage", "reviewing")
        \/ Go("stage", "gating")
    BY <1>10 DEF StageRules
  <2>3. CASE mode = "unanimous" /\ Go("stage", "reviewing")
    <3>1. "reviewing" \in Places
      BY DEF Places
    <3> QED BY <1>2, <2>1, <2>3, <3>1, WriterNames, GoingKeepsDesks
  <2> QED BY <2>1, <2>2, <2>3, <1>5, <1>6, WriterNames
<1>11. CASE StageReviews \/ StageReadsCurrency \/ StageFindsStale
  <2>1. at["stage"] # "idle" /\ UNCHANGED <<mode, hands>>
    BY <1>11 DEF StageReviews, StageReadsCurrency, StageFindsStale
  <2>2. \/ Leave("stage") \/ Go("stage", "gating") \/ Go("stage", "gone") \/ Go("stage", "clear")
    BY <1>11 DEF StageReviews, StageReadsCurrency, StageFindsStale
  <2> QED BY <2>1, <2>2, <1>5, <1>6, WriterNames
<1>12. CASE StageOpens
  <2>1. at["stage"] # "idle" /\ UNCHANGED <<mode, hands>> /\ on["stage"] \in filed'
    BY <1>12 DEF StageOpens, Record
  <2>2. Leave("stage") \/ Go("stage", "closing")
    BY <1>12 DEF StageOpens
  <2> QED BY <2>1, <2>2, <1>5, <1>7, WriterNames
<1>13. CASE ResolverRules
  <2>0. PICK w \in Writers : w = "introspector"
    BY WriterNames
  <2>1. at["introspector"] = "weighing" /\ UNCHANGED <<mode, hands>>
    BY <1>13 DEF ResolverRules
  <2>2. Leave(w) \/ Go(w, "closing") \/ (Rests(w) /\ late' \subseteq Writers)
    BY <1>2, <1>13, <2>0 DEF ResolverRules, Dismissal
  <2>3. on[w] \in filed'
    BY <2>0, <2>1 DEF DesksTyped, Desk
  <2> QED BY <2>0, <2>1, <2>2, <2>3, <1>2, <1>5, <1>7, LeavingKeepsDesks
<1>14. ASSUME NEW w \in Writers, Closes(w)
       PROVE  DesksTyped'
  <2>1. at[w] = "closing" /\ UNCHANGED <<mode, hands>> /\ Go(w, "closed")
    BY <1>14 DEF Closes
  <2>2. on[w] \in filed'
    BY <2>1 DEF DesksTyped, Desk
  <2> QED BY <2>1, <2>2, <1>7
<1>20. CASE FindsSource \/ ClosesSource
  <2>1. PICK w \in Writers : w = "person"
    BY WriterNames
  <2>2. /\ at[w] \in {"closing", "sourced"} /\ UNCHANGED <<mode, hands>>
        /\ Go(w, "sourced") \/ Go(w, "closed")
    BY <1>20, <2>1 DEF FindsSource, ClosesSource
  <2>3. on[w] \in filed'
    BY <2>2 DEF DesksTyped, Desk
  <2> QED BY <2>2, <2>3, <1>7
<1>21. ASSUME NEW r, Reopened(r) \/ ReopenAborts(r)
       PROVE  DesksTyped'
  BY <1>1, <1>2, <1>21 DEF Reopened, ReopenAborts, rows, desks
<1>15. CASE StageClosesAuto
  BY <1>5, <1>15, WriterNames DEF StageClosesAuto
<1>16. ASSUME NEW w \in Writers, Merges(w) \/ Resolves(w) \/ Abandons(w)
       PROVE  DesksTyped'
  BY <1>5, <1>16 DEF Merges, Resolves, Abandons
<1>17. ASSUME NEW p \in Pairs, Dismisses(p) \/ PersonReopensRow(p)
       PROVE  DesksTyped'
  BY <1>1, <1>2, <1>17 DEF Dismisses, Dismissal, PersonReopensRow, ByHand, desks
<1>18. ASSUME NEW n, PersonUnsupersedes(n) \/ PersonForgets(n) \/ UpkeepCloses(n)
       PROVE  DesksTyped'
  BY <1>1, <1>2, <1>18 DEF PersonUnsupersedes, PersonForgets, UpkeepCloses, ByHand, rows, desks
<1>19. CASE TimePasses \/ UNCHANGED vars
  BY <1>1, <1>2, <1>19 DEF TimePasses, vars, rows, desks
<1> QED BY <1>8, <1>9, <1>10, <1>11, <1>12, <1>13, <1>14, <1>15, <1>16, <1>17, <1>18, <1>19, <1>20, <1>21 DEF Next

LEMMA SoundInitially == Init => Sound
<1> SUFFICES ASSUME Init PROVE Sound
  OBVIOUS
<1>1. GraphSound
  BY NeverAssumption DEF Init, GraphInit, GraphSound, ReopensSound, GraphTypeOK, EdgesSound, LineageMatchesCurrency,
                         Stamped, Stamps, Edge, Fresh, NoEdge, Closed, Successors, Held
<1>2. RowsTyped /\ DesksTyped
  BY DEF Init, RowsTyped, DesksTyped, Desk, Places
<1> QED BY <1>1, <1>2 DEF Sound

LEMMA SoundInductive == Sound /\ [Next]_vars => Sound'
  BY GraphInductive, RowsInductive, DesksInductive DEF Sound

LEMMA SoundAlways == Spec => []Sound
  BY SoundInitially, SoundInductive, PTL DEF Spec

(* The graph, the rows and the writers keep their types; a resolved row was *)
(* filed, whoever resolved it.                                              *)
THEOREM SupersessionTypes == Spec => []TypeOK
<1>1. Sound => TypeOK
  BY DEF Sound, GraphSound, ReopensSound, RowsTyped, DesksTyped, TypeOK
<1> QED BY <1>1, SoundAlways, PTL

(* Lineage agrees with currency under every interleaving of closes, family  *)
(* and episode closes, reopens, forgets and the upkeep's unlinked closes.   *)
THEOREM LineageAgrees == Spec => []LineageMatchesCurrency
<1>1. Sound => LineageMatchesCurrency
  BY DEF Sound, GraphSound
<1> QED BY <1>1, SoundAlways, PTL
-----------------------------------------------------------------------------
(* What a resolved row hides. *)

(* A step that adds no applied row and brings no writer to "closed" keeps   *)
(* every judgment shown.                                                    *)
LEMMA NothingNewToShow ==
  ASSUME Sound, JudgmentsShown, \A q \in Pairs : Shown(q) => Shown(q)',
         applied' \subseteq applied,
         \A w \in Writers : at'[w] = "closed" => at[w] = "closed" /\ on'[w] = on[w]
  PROVE  JudgmentsShown'
<1>1. \A p \in applied' : Shown(p)'
  BY DEF Sound, RowsTyped, JudgmentsShown
<1>2. ASSUME NEW w \in Writers, at'[w] = "closed" PROVE Shown(on[w])' 
  <2>1. PICK p \in Pairs : p = on[w]
    BY <1>2 DEF Sound, DesksTyped, Desk
  <2>2. PICK q : q = on'[w]
    OBVIOUS
  <2>3. q = p /\ Shown(p)
    BY <1>2, <2>1, <2>2 DEF JudgmentsShown
  <2>4. Shown(q)'
    BY <2>3
  <2> QED BY <2>2, <2>4 DEF Shown, Linked, Old, New
<1> QED BY <1>1, <1>2 DEF JudgmentsShown

LEMMA JudgmentsInductive ==
  ASSUME Sound, JudgmentsShown, \A q \in Pairs : Shown(q) => Shown(q)', [Next]_vars
  PROVE  JudgmentsShown'
<1>1. ASSUME applied' \subseteq applied,
             \A w \in Writers : at'[w] = "closed" => at[w] = "closed" /\ on'[w] = on[w]
      PROVE  JudgmentsShown'
  BY <1>1, NothingNewToShow
<1>2. at \in [Writers -> Places] /\ on \in [Writers -> Pairs \cup {NoPair}]
  BY DEF Sound, DesksTyped
<1>3. ASSUME applied' \subseteq applied, NEW v \in Writers,
             \/ Rests(v) \/ \E place \in Places \ {"closed"} : Go(v, place) \/ \E p \in Pairs : Take(v, p, place)
      PROVE  JudgmentsShown'
  <2>1. \A w \in Writers : at'[w] = "closed" => at[w] = "closed" /\ on'[w] = on[w]
    BY <1>2, <1>3 DEF Rests, Go, Take
  <2> QED BY <1>1, <1>3, <2>1
<1>4. ASSUME applied' \subseteq applied, UNCHANGED <<at, on>> PROVE JudgmentsShown'
  BY <1>1, <1>4
<1>5. ASSUME NEW w \in Writers, Closes(w) \/ (w = "person" /\ ClosesSource) PROVE JudgmentsShown'
  <2>1. ClosesFor(w) /\ on[w] \in Pairs /\ UNCHANGED <<clock, reopens>>
    BY <1>5, WritersClose DEF Sound, AnyClose
  <2>2. PICK p \in Pairs : p = on[w]
    BY <2>1
  <2>3. Shown(p)'
    BY <2>1, <2>2, CloseKeeps DEF Sound
  <2>4. UNCHANGED <<applied, on>> /\ at' = [at EXCEPT ![w] = "closed"]
    BY <1>5 DEF Closes, ClosesSource, Go, rows
  <2>5. \A q \in applied' : Shown(q)'
    BY <2>4 DEF Sound, RowsTyped, JudgmentsShown
  <2>6. ASSUME NEW v \in Writers, at'[v] = "closed" PROVE Shown(on[v])'
    <3>1. CASE v = w
      BY <3>1, <2>2, <2>3, <2>4 DEF Shown, Linked, Old, New
    <3>2. CASE v # w
      <4>1. at[v] = "closed"
        BY <3>2, <2>4, <2>6, <1>2
      <4>2. PICK q \in Pairs : q = on[v] /\ Shown(q)
        BY <4>1 DEF Sound, DesksTyped, Desk, JudgmentsShown
      <4>3. Shown(q)'
        BY <4>2
      <4> QED BY <4>2, <4>3, <2>4 DEF Shown, Linked, Old, New
    <3> QED BY <3>1, <3>2
  <2> QED BY <2>5, <2>6 DEF JudgmentsShown
<1>6. ASSUME NEW w \in Writers, Resolves(w) PROVE JudgmentsShown'
  <2>1. at[w] = "closed" /\ applied' \subseteq applied \cup {on[w]} /\ Leave(w)
    BY <1>6 DEF Resolves
  <2>2. PICK p \in Pairs : p = on[w] /\ Shown(p)
    BY <2>1 DEF Sound, DesksTyped, Desk, JudgmentsShown
  <2>3. \A q \in applied' : Shown(q)'
    BY <2>1, <2>2 DEF Sound, RowsTyped, JudgmentsShown
  <2>4. ASSUME NEW v \in Writers, at'[v] = "closed" PROVE Shown(on[v])'
    <3>1. at[v] = "closed" /\ on'[v] = on[v]
      BY <2>1, <2>4, <1>2 DEF Leave, Rests
    <3>2. PICK q \in Pairs : q = on[v] /\ Shown(q)
      BY <3>1 DEF Sound, DesksTyped, Desk, JudgmentsShown
    <3>3. Shown(q)'
      BY <3>2
    <3> QED BY <3>1, <3>2, <3>3 DEF Shown, Linked, Old, New
  <2> QED BY <2>3, <2>4 DEF JudgmentsShown
<1>7. {"idle", "judging", "reviewing", "gating", "clear", "gone", "closing", "sourced", "weighing", "merging"}
        \subseteq Places \ {"closed"}
  BY DEF Places
<1>8. ASSUME NEW p \in Pairs, StageJudges(p) \/ KeyedReads(p) \/ DedupReads(p) \/ ResolverTakes(p) \/ PersonApplies(p)
      PROVE  JudgmentsShown'
  <2>1. UNCHANGED applied /\ \E v \in Writers, place \in Places \ {"closed"} : Take(v, p, place)
    BY <1>7, <1>8, WriterNames DEF StageJudges, KeyedReads, DedupReads, ResolverTakes, PersonApplies, rows
  <2> QED BY <1>3, <2>1
<1>9. CASE StageRules \/ StageReviews \/ StageReadsCurrency \/ StageFindsStale \/ StageOpens
  <2>1. UNCHANGED applied
    BY <1>9 DEF StageRules, StageReviews, StageReadsCurrency, StageFindsStale, StageOpens, rows
  <2>2. Leave("stage") \/ \E place \in {"reviewing", "gating", "gone", "clear", "closing"} : Go("stage", place)
    BY <1>9 DEF StageRules, StageReviews, StageReadsCurrency, StageFindsStale, StageOpens
  <2> QED BY <1>3, <1>7, <2>1, <2>2, WriterNames DEF Leave
<1>10. CASE ResolverRules
  <2>1. UNCHANGED applied /\ (Rests("introspector") \/ Go("introspector", "closing"))
    BY <1>10 DEF ResolverRules, Dismissal, Leave, rows
  <2> QED BY <1>3, <1>7, <2>1, WriterNames
<1>11. CASE StageClosesAuto
  BY <1>3, <1>11, WriterNames DEF StageClosesAuto, Leave, rows
<1>12. ASSUME NEW w \in Writers, Merges(w) \/ Abandons(w) PROVE JudgmentsShown'
  BY <1>3, <1>12 DEF Merges, Abandons, Leave, rows
<1>13. ASSUME NEW p \in Pairs, Dismisses(p) \/ PersonReopensRow(p) PROVE JudgmentsShown'
  BY <1>4, <1>13 DEF Dismisses, Dismissal, PersonReopensRow, desks
<1>14. ASSUME NEW n, PersonUnsupersedes(n) \/ PersonForgets(n) \/ UpkeepCloses(n) PROVE JudgmentsShown'
  BY <1>4, <1>14 DEF PersonUnsupersedes, PersonForgets, UpkeepCloses, rows, desks
<1>16. CASE FindsSource
  BY <1>3, <1>7, <1>16, WriterNames DEF FindsSource, rows
<1>17. CASE ClosesSource
  BY <1>5, <1>17, WriterNames
<1>18. ASSUME NEW r, Reopened(r) \/ ReopenAborts(r) PROVE JudgmentsShown'
  BY <1>4, <1>18 DEF Reopened, ReopenAborts, rows, desks
<1>15. CASE TimePasses \/ UNCHANGED vars
  BY <1>4, <1>15 DEF TimePasses, vars, rows, desks
<1> QED BY <1>5, <1>6, <1>8, <1>9, <1>10, <1>11, <1>12, <1>13, <1>14, <1>15, <1>16, <1>17, <1>18 DEF Next

(* A row resolved as applied has its close in the graph, whatever failed or *)
(* crashed between the two, and whoever else wrote the row.                 *)
THEOREM JudgmentsAreNotHidden == Spec => []NoHiddenJudgment
<1>1. Init => JudgmentsShown
  BY DEF Init, JudgmentsShown
<1>2. Sound /\ JudgmentsShown /\ [Next]_vars => JudgmentsShown'
  <2> SUFFICES ASSUME Sound, JudgmentsShown, [Next]_vars PROVE JudgmentsShown'
    OBVIOUS
  <2> QED BY GraphInductive, JudgmentsInductive
<1>3. JudgmentsShown => NoHiddenJudgment
  BY DEF JudgmentsShown, NoHiddenJudgment, Shown, Linked
<1> QED BY <1>1, <1>2, <1>3, SoundAlways, PTL DEF Spec
-----------------------------------------------------------------------------
(* What a dismissal stops. *)

LEMMA PairIsNotNoPair == \A p \in Pairs : p # NoPair
  BY SupersessionAssumption

(* A step after which a writer may close a pair that it could not close     *)
(* before is one that has just found the row unresolved.                    *)
LEMMA NoNewCloser ==
  ASSUME Sound, DismissalIsFinal, ruled' \subseteq ruled,
         \A w \in Writers : Closing(w)' =>
            \/ on'[w] \notin ruled'
            \/ Closing(w) /\ on'[w] = on[w] /\ (w \in late => w \in late')
  PROVE  DismissalIsFinal'
<1> SUFFICES ASSUME NEW w \in Writers, on'[w] \in ruled', Closing(w)'
             PROVE  w \in late'
  BY DEF DismissalIsFinal
<1>1. Closing(w) /\ on[w] \in ruled /\ (w \in late => w \in late')
  OBVIOUS
<1> QED BY <1>1 DEF DismissalIsFinal

LEMMA DismissalInductive ==
  ASSUME Sound, DismissalIsFinal, [Next]_vars
  PROVE  DismissalIsFinal'
<1> USE DEF Sound
<1>1. /\ at \in [Writers -> Places] /\ on \in [Writers -> Pairs \cup {NoPair}]
      /\ ruled \subseteq resolved /\ resolved \subseteq filed /\ filed \subseteq Pairs
      /\ \A w \in Writers : at[w] = "reviewing" => mode = "unanimous"
  BY DEF DesksTyped, RowsTyped, Desk
<1>2. CASE ruled' \subseteq ruled /\ UNCHANGED <<at, on, late, mode>>
  BY <1>2, NoNewCloser DEF Closing
<1>3. ASSUME NEW v \in Writers, Leave(v), ruled' \subseteq ruled, UNCHANGED mode
      PROVE  DismissalIsFinal'
  <2>1. \A w \in Writers : Closing(w)' => Closing(w) /\ on'[w] = on[w] /\ (w \in late => w \in late')
    BY <1>1, <1>3 DEF Closing, Leave, Rests
  <2> QED BY <1>3, <2>1, NoNewCloser
<1>4. ASSUME NEW v \in Writers, NEW place \in {"reviewing", "gone", "closed"}, Go(v, place), UNCHANGED <<ruled, mode>>
      PROVE  DismissalIsFinal'
  <2>1. \A w \in Writers : Closing(w)' => Closing(w) /\ on'[w] = on[w] /\ (w \in late => w \in late')
    BY <1>1, <1>4 DEF Closing, Go
  <2> QED BY <1>4, <2>1, NoNewCloser
<1>5. ASSUME NEW v \in Writers, NEW place, Go(v, place), on[v] \notin resolved, UNCHANGED <<ruled, mode>>
      PROVE  DismissalIsFinal'
  <2>1. \A w \in Writers : Closing(w)' => on'[w] \notin ruled' \/ (Closing(w) /\ on'[w] = on[w] /\ (w \in late => w \in late'))
    BY <1>1, <1>5 DEF Closing, Go
  <2> QED BY <1>5, <2>1, NoNewCloser
<1>6. ASSUME NEW v \in Writers, NEW p \in Pairs, NEW place \in {"judging", "merging", "weighing"},
             Take(v, p, place), UNCHANGED <<ruled, mode>>
      PROVE  DismissalIsFinal'
  <2>1. \A w \in Writers : Closing(w)' => Closing(w) /\ on'[w] = on[w] /\ (w \in late => w \in late')
    BY <1>1, <1>6 DEF Closing, Take
  <2> QED BY <1>6, <2>1, NoNewCloser
<1>7. ASSUME NEW p \in Pairs, StageJudges(p) \/ KeyedReads(p) \/ DedupReads(p) \/ ResolverTakes(p)
      PROVE  DismissalIsFinal'
  <2>1. /\ \/ Take("stage", p, "judging") \/ Take("stage", p, "merging")
           \/ Take("introspector", p, "merging") \/ Take("introspector", p, "weighing")
        /\ UNCHANGED <<ruled, mode>>
    BY <1>7 DEF StageJudges, KeyedReads, DedupReads, ResolverTakes, rows
  <2> QED BY <2>1, <1>6, WriterNames
<1>8. ASSUME NEW p \in Pairs, PersonApplies(p)
      PROVE  DismissalIsFinal'
  <2>1. p \notin ruled /\ Take("person", p, "closing") /\ UNCHANGED <<ruled, mode>>
    BY <1>1, <1>8 DEF PersonApplies, rows
  <2>2. \A w \in Writers : Closing(w)' => on'[w] \notin ruled' \/ (Closing(w) /\ on'[w] = on[w] /\ (w \in late => w \in late'))
    BY <1>1, <2>1, WriterNames DEF Closing, Take
  <2> QED BY <2>1, <2>2, NoNewCloser
<1>9. CASE StageRules
  <2>1. UNCHANGED <<ruled, mode>>
    BY <1>9 DEF StageRules
  <2>2. \/ Leave("stage")
        \/ Go("stage", "reviewing")
        \/ on["stage"] \notin resolved /\ Go("stage", "gating")
    BY <1>9 DEF StageRules
  <2> QED BY <2>1, <2>2, <1>3, <1>4, <1>5, WriterNames
<1>10. CASE StageReviews
  <2>1. at["stage"] = "reviewing" /\ UNCHANGED <<ruled, mode>>
    BY <1>10 DEF StageReviews
  <2>2. Leave("stage") \/ Go("stage", "gating")
    BY <1>10 DEF StageReviews
  <2>3. mode = "unanimous"
    BY <1>1, <2>1, WriterNames
  <2>4. CASE Go("stage", "gating")
    <3>1. \A w \in Writers : Closing(w)' => Closing(w) /\ on'[w] = on[w] /\ (w \in late => w \in late')
      BY <1>1, <2>1, <2>3, <2>4 DEF Closing, Go
    <3> QED BY <2>1, <3>1, NoNewCloser
  <2> QED BY <2>1, <2>2, <2>4, <1>3, WriterNames
<1>11. CASE StageReadsCurrency
  <2>1. at["stage"] = "gating" /\ UNCHANGED <<ruled, mode>> /\ (Go("stage", "gone") \/ Go("stage", "clear"))
    BY <1>11 DEF StageReadsCurrency, rows
  <2>2. CASE Go("stage", "clear")
    <3>1. \A w \in Writers : Closing(w)' => Closing(w) /\ on'[w] = on[w] /\ (w \in late => w \in late')
      BY <1>1, <2>1, <2>2 DEF Closing, Go
    <3> QED BY <2>1, <3>1, NoNewCloser
  <2> QED BY <2>1, <2>2, <1>4, WriterNames
<1>12. CASE StageOpens
  <2>1. UNCHANGED <<ruled, mode>>
    BY <1>12 DEF StageOpens
  <2>2. Leave("stage") \/ (on["stage"] \notin resolved /\ Go("stage", "closing"))
    BY <1>12 DEF StageOpens
  <2> QED BY <2>1, <2>2, <1>3, <1>5, WriterNames
<1>13. CASE StageFindsStale \/ StageClosesAuto
  <2>1. Leave("stage") /\ UNCHANGED <<ruled, mode>>
    BY <1>13 DEF StageFindsStale, StageClosesAuto, rows
  <2> QED BY <2>1, <1>3, WriterNames
<1>14. ASSUME NEW w \in Writers, Merges(w) \/ Resolves(w) \/ Abandons(w)
       PROVE  DismissalIsFinal'
  <2>1. Leave(w) /\ UNCHANGED <<ruled, mode>>
    BY <1>14 DEF Merges, Resolves, Abandons, rows
  <2> QED BY <2>1, <1>3
<1>15. ASSUME NEW w \in Writers, Closes(w)
       PROVE  DismissalIsFinal'
  <2>1. Go(w, "closed") /\ UNCHANGED <<ruled, mode>>
    BY <1>15 DEF Closes, rows
  <2> QED BY <2>1, <1>4
(* A dismissal finds the writers that are past their last look.             *)
<1>16. ASSUME NEW p \in Pairs, Dismissal(p), UNCHANGED mode,
              UNCHANGED <<at, on>> \/ \E v \in Writers : Rests(v)
       PROVE  DismissalIsFinal'
  <2> SUFFICES ASSUME NEW w \in Writers, on'[w] \in ruled', Closing(w)' PROVE w \in late'
    BY DEF DismissalIsFinal
  <2>1. Closing(w) /\ on'[w] = on[w]
    BY <1>1, <1>16 DEF Closing, Rests
  <2>2. late \subseteq late'
    BY <1>16 DEF Dismissal
  <2>3. CASE on[w] \in ruled
    BY <2>1, <2>2, <2>3 DEF DismissalIsFinal
  <2>4. CASE on[w] \notin ruled
    <3>1. on[w] = p /\ p \notin resolved
      BY <1>16, <2>1, <2>4 DEF Dismissal
    <3> QED BY <1>16, <2>1, <3>1 DEF Dismissal
  <2> QED BY <2>3, <2>4
<1>17. CASE ResolverRules
  <2>1. at["introspector"] = "weighing" /\ UNCHANGED mode
    BY <1>17 DEF ResolverRules
  <2>2. PICK p \in Pairs : p = on["introspector"]
    BY <2>1, WriterNames DEF DesksTyped, Desk
  <2>3. \/ Leave("introspector") /\ UNCHANGED ruled
        \/ Dismissal(p) /\ Rests("introspector")
        \/ p \notin resolved /\ Go("introspector", "closing") /\ UNCHANGED ruled
    BY <1>17, <2>2 DEF ResolverRules, rows
  <2> QED BY <2>1, <2>2, <2>3, <1>3, <1>5, <1>16, WriterNames
<1>18. ASSUME NEW p \in Pairs, Dismisses(p)
       PROVE  DismissalIsFinal'
  BY <1>16, <1>18 DEF Dismisses
<1>19. ASSUME NEW p \in Pairs, PersonReopensRow(p)
       PROVE  DismissalIsFinal'
  BY <1>2, <1>19 DEF PersonReopensRow, desks
<1>20. ASSUME NEW n, PersonUnsupersedes(n) \/ PersonForgets(n) \/ UpkeepCloses(n)
       PROVE  DismissalIsFinal'
  BY <1>2, <1>20 DEF PersonUnsupersedes, PersonForgets, UpkeepCloses, rows, desks
<1>22. CASE FindsSource
  <2>1. at["person"] = "closing" /\ Go("person", "sourced") /\ UNCHANGED <<ruled, mode>>
    BY <1>22 DEF FindsSource, rows
  <2>2. \A w \in Writers : Closing(w)' => Closing(w) /\ on'[w] = on[w] /\ (w \in late => w \in late')
    BY <1>1, <2>1 DEF Closing, Go
  <2> QED BY <2>1, <2>2, NoNewCloser
<1>23. CASE ClosesSource
  <2>1. Go("person", "closed") /\ UNCHANGED <<ruled, mode>>
    BY <1>23 DEF ClosesSource, rows
  <2> QED BY <2>1, <1>4, WriterNames
<1>24. ASSUME NEW r, Reopened(r) \/ ReopenAborts(r)
       PROVE  DismissalIsFinal'
  BY <1>2, <1>24 DEF Reopened, ReopenAborts, rows, desks
<1>21. CASE TimePasses \/ UNCHANGED vars
  BY <1>2, <1>21 DEF TimePasses, vars, rows, desks
<1> QED BY <1>7, <1>8, <1>9, <1>10, <1>11, <1>12, <1>13, <1>14, <1>15, <1>17, <1>18, <1>19, <1>20, <1>21, <1>22, <1>23, <1>24 DEF Next

(* Of the writers that go by a pair's row, only those that a dismissal found *)
(* past their last look may still close it, for any number of pairs, in any  *)
(* mode and for any order of judging, reviewing and dismissing.              *)
THEOREM DismissalsStand == Spec => []DismissalIsFinal
<1>1. Init => DismissalIsFinal
  BY DEF Init, DismissalIsFinal
<1>2. Sound /\ DismissalIsFinal /\ [Next]_vars => DismissalIsFinal'
  BY DismissalInductive
<1> QED BY <1>1, <1>2, SoundAlways, PTL DEF Spec
-----------------------------------------------------------------------------
(* What a past read returns. *)

SameRow(n, k) == HeldAt(n, k)' = HeldAt(n, k) \/ (Closed(n) /\ ~Closed(n)')
SameLink(m, n, k) ==
  \/ LinkedAt(m, n, k)' = LinkedAt(m, n, k)
  \/ lineage[<<m, n>>].txUntil # Never /\ Held(lineage[<<m, n>>])'
SameRead(n, k) == SameRow(n, k) /\ \A m \in Nodes : SameLink(m, n, k)

(* The row of a read: tx_until stays, or is set after the instant.          *)
LEMMA LaterStampsKeepTheRow ==
  ASSUME NEW n \in Nodes, NEW k \in Nat,
         \/ node'[n].txUntil = node[n].txUntil
         \/ node[n].txUntil = Never /\ node'[n].txUntil # Never /\ node'[n].txUntil > k
  PROVE  SameRow(n, k)
<1>1. HeldAt(n, k)' <=> HeldAt(n, k)
  BY DEF HeldAt
<1>2. HeldAt(n, k) \in BOOLEAN /\ HeldAt(n, k)' \in BOOLEAN
  BY DEF HeldAt
<1> QED BY <1>1, <1>2 DEF SameRow

(* A link of a read: it stays, or it is written after the instant.          *)
LEMMA LaterWritesKeepTheLink ==
  ASSUME NEW n \in Nodes, NEW m \in Nodes, NEW k \in Nat, NEW now \in Nat, k < now,
         NEW e \in Edge, e = lineage[<<m, n>>], NEW f \in Edge, f = lineage'[<<m, n>>],
         \/ f = e
         \/ e.created = Never /\ f.created = now
         \/ e.txUntil = Never /\ f.created = e.created /\ f.txUntil = now
         \/ e.txUntil # Never /\ Held(f)
  PROVE  SameLink(m, n, k)
<1>1. CASE f = e
  BY <1>1 DEF SameLink, LinkedAt
<1>2. CASE e.txUntil # Never /\ Held(f)
  BY <1>2 DEF SameLink
<1>3. CASE \/ e.created = Never /\ f.created = now
           \/ e.txUntil = Never /\ f.created = e.created /\ f.txUntil = now
  <2>1. LinkedAt(m, n, k)' <=> LinkedAt(m, n, k)
    BY <1>3, NeverAssumption DEF LinkedAt, Edge, Stamps
  <2>2. LinkedAt(m, n, k) \in BOOLEAN /\ LinkedAt(m, n, k)' \in BOOLEAN
    BY DEF LinkedAt
  <2> QED BY <2>1, <2>2 DEF SameLink
<1> QED BY <1>1, <1>2, <1>3

LEMMA SameEdgesSameLinks ==
  ASSUME NEW n \in Nodes, NEW k \in Nat, \A m \in Nodes : lineage'[<<m, n>>] = lineage[<<m, n>>]
  PROVE  \A m \in Nodes : SameLink(m, n, k)
BY DEF SameLink, LinkedAt

(* A close stamped after the instant of the read leaves it alone.           *)
LEMMA LaterClosesKeepReads ==
  ASSUME GraphSound, NEW n \in Nodes, NEW k \in Nat,
         NEW olds \in SUBSET Nodes, NEW new \in Nodes, NEW validUntil \in Nat, NEW now \in Nat,
         k < now, Close(olds, new, validUntil, now), UNCHANGED <<clock, reopens>>
  PROVE  SameRead(n, k)
<1>0. Supersede(olds, new, validUntil, now)
  BY DEF Close
<1>1. node'[n] = IF n \in olds THEN CloseStamps(node[n], validUntil, now) ELSE node[n]
  BY <1>0 DEF Supersede
<1>2. PICK s \in Stamped : s = node[n]
  BY DEF GraphSound, GraphTypeOK
<1>3. \/ node'[n].txUntil = node[n].txUntil
      \/ node[n].txUntil = Never /\ node'[n].txUntil # Never /\ node'[n].txUntil > k
  <2>1. CASE n \in olds
    <3>1. node'[n].txUntil = s.txUntil \/ (s.txUntil = Never /\ node'[n].txUntil = now)
      BY <2>1, <1>1, <1>2, ClosingStamps
    <3> QED BY <3>1, <1>2, NeverAssumption
  <2>2. CASE n \notin olds
    BY <2>2, <1>1
  <2> QED BY <2>1, <2>2
<1>4. ASSUME NEW m \in Nodes
      PROVE  SameLink(m, n, k)
  <2>1. PICK e \in Edge : e = lineage[<<m, n>>] /\ (e.validUntil = Never <=> e.txUntil = Never)
    BY DEF GraphSound, GraphTypeOK, EdgesSound
  <2>2. PICK f \in Edge : f = lineage'[<<m, n>>]
    <3>1. GraphSound'
      BY SupersedeKeeps
    <3> QED BY <3>1 DEF GraphSound, GraphTypeOK
  <2>3. f = e \/ f = Upserted(e, now)
    BY <1>0, <2>1, <2>2 DEF Supersede
  <2>4. \/ f = e
        \/ e.created = Never /\ f.created = now
        \/ e.txUntil # Never /\ Held(f)
    BY <2>1, <2>3, UpsertingAnEdge
  <2> QED BY <2>1, <2>2, <2>4, LaterWritesKeepTheLink
<1> QED BY <1>3, <1>4, LaterStampsKeepTheRow DEF SameRead

(* A reopen stamped after the instant of the read gives the row back and     *)
(* leaves its links alone.                                                   *)
LEMMA LaterReopensKeepReads ==
  ASSUME GraphSound, NEW n \in Nodes, NEW k \in Nat, NEW r \in reopens, k < r.now, Reopened(r)
  PROVE  SameRead(n, k)
<1>1. PICK x \in Nodes, now \in Nat : x = r.node /\ now = r.now
  BY DEF GraphSound, ReopensSound, Reopens
<1>2. /\ node' = [node EXCEPT ![x].validUntil = Never, ![x].txUntil = Never]
      /\ \A e \in Nodes \X Nodes :
           lineage'[e] = IF e \in r.found THEN ClosedEdge(lineage[e], now) ELSE lineage[e]
      /\ node \in [Nodes -> Stamped]
  BY <1>1 DEF Reopened, Unsupersede, GraphSound, GraphTypeOK
<1>3. SameRow(n, k)
  <2>1. CASE x = n
    <3>1. node'[n] = [node[n] EXCEPT !.validUntil = Never, !.txUntil = Never] /\ node[n] \in Stamped
      BY <1>2, <2>1
    <3>2. ~Closed(n)' /\ node'[n].txUntil = Never
      BY <3>1 DEF Closed, Stamped
    <3>3. CASE Closed(n)
      BY <3>2, <3>3 DEF SameRow
    <3>4. CASE ~Closed(n)
      <4>1. node[n].txUntil = Never
        BY <3>4 DEF GraphSound, LineageMatchesCurrency
      <4> QED BY <3>2, <4>1, LaterStampsKeepTheRow
    <3> QED BY <3>3, <3>4
  <2>2. CASE x # n
    <3>1. node'[n].txUntil = node[n].txUntil
      BY <1>2, <2>2
    <3> QED BY <3>1, LaterStampsKeepTheRow
  <2> QED BY <2>1, <2>2
<1>4. ASSUME NEW m \in Nodes
      PROVE  SameLink(m, n, k)
  <2>1. PICK e \in Edge : e = lineage[<<m, n>>] /\ (e.validUntil = Never <=> e.txUntil = Never)
    BY DEF GraphSound, GraphTypeOK, EdgesSound
  <2>2. PICK f \in Edge : f = lineage'[<<m, n>>]
    <3>1. GraphSound'
      BY UnsupersedeKeeps
    <3> QED BY <3>1 DEF GraphSound, GraphTypeOK
  <2>3. f = e \/ f = ClosedEdge(e, now)
    BY <1>2, <2>1, <2>2
  <2>4. f = e \/ (e.txUntil = Never /\ f.created = e.created /\ f.txUntil = now)
    BY <2>1, <2>3 DEF ClosedEdge, Held, Edge
  <2> QED BY <1>1, <2>1, <2>2, <2>4, LaterWritesKeepTheLink
<1> QED BY <1>3, <1>4 DEF SameRead

LEMMA HistoryStep ==
  ASSUME Sound, [Next]_vars, NEW n \in Nodes, NEW k \in 0..MaxClock, Before(k)
  PROVE  SameRead(n, k)
<1>1. k \in Nat /\ clock \in Nat /\ GraphSound /\ k < clock
  BY ClockAssumption DEF Sound, GraphSound, GraphTypeOK, Before
<1>2. CASE UNCHANGED <<node, lineage>>
  BY <1>1, <1>2, LaterStampsKeepTheRow, SameEdgesSameLinks DEF SameRead
<1>3. ASSUME NEW w \in Writers, AnyClose(w)
      PROVE  SameRead(n, k)
  <2>1. ClosesFor(w) /\ at[w] # "idle" /\ UNCHANGED <<clock, reopens>>
    BY <1>3, WritersClose DEF Sound
  <2>2. PICK now \in Nat : now = began[w]
    BY DEF Sound, DesksTyped
  <2>3. PICK olds \in SUBSET Nodes, new \in Nodes, validUntil \in Nat : Close(olds, new, validUntil, now)
    BY <2>1, <2>2 DEF ClosesFor
  <2>4. k < now
    BY <2>1, <2>2 DEF Before
  <2> QED BY <1>1, <2>1, <2>3, <2>4, LaterClosesKeepReads
<1>4. ASSUME NEW r \in reopens, Reopened(r)
      PROVE  SameRead(n, k)
  <2>1. k < r.now
    BY DEF Before
  <2> QED BY <1>1, <1>4, <2>1, LaterReopensKeepReads
<1>5. ASSUME NEW m \in Nodes, PersonForgets(m)
      PROVE  SameRead(n, k)
  <2>1. node'[n].txUntil = node[n].txUntil
    BY <1>1, <1>5 DEF PersonForgets, ForgetNode, GraphSound, GraphTypeOK, Stamped
  <2>2. UNCHANGED lineage
    BY <1>5 DEF PersonForgets, ForgetNode
  <2> QED BY <1>1, <2>1, <2>2, LaterStampsKeepTheRow, SameEdgesSameLinks DEF SameRead
<1>6. ASSUME NEW m \in Nodes, UpkeepCloses(m)
      PROVE  SameRead(n, k)
  <2>1. UNCHANGED lineage
    BY <1>6 DEF UpkeepCloses
  <2>2. CASE m # n
    <3>1. node'[n].txUntil = node[n].txUntil
      BY <1>1, <1>6, <2>2 DEF UpkeepCloses, GraphSound, GraphTypeOK
    <3> QED BY <1>1, <2>1, <3>1, LaterStampsKeepTheRow, SameEdgesSameLinks DEF SameRead
  <2>3. CASE m = n
    <3>1. PICK s \in Stamped : s = node[n]
      BY <1>1 DEF GraphSound, GraphTypeOK
    <3>2. PICK t \in Stamped : /\ t = CloseStamps(s, clock, clock)
                               /\ t.txUntil # Never
                               /\ t.txUntil = s.txUntil \/ (s.txUntil = Never /\ t.txUntil = clock)
      BY <1>1, ClosingStamps
    <3>3. node'[n] = [t EXCEPT !.closedBy = TRUE]
      BY <1>1, <1>6, <2>3, <3>1, <3>2 DEF UpkeepCloses, GraphSound, GraphTypeOK
    <3>4. node'[n].txUntil = t.txUntil
      BY <3>3 DEF Stamped
    <3>5. \/ node'[n].txUntil = node[n].txUntil
          \/ node[n].txUntil = Never /\ node'[n].txUntil # Never /\ node'[n].txUntil > k
      BY <1>1, <3>1, <3>2, <3>4
    <3> QED BY <1>1, <2>1, <3>5, LaterStampsKeepTheRow, SameEdgesSameLinks DEF SameRead
  <2> QED BY <2>2, <2>3
<1>7. ASSUME NEW p \in Pairs,
             \/ StageJudges(p) \/ KeyedReads(p) \/ DedupReads(p) \/ ResolverTakes(p)
             \/ PersonApplies(p) \/ Dismisses(p) \/ PersonReopensRow(p)
      PROVE  UNCHANGED <<node, lineage>>
  BY <1>7 DEF StageJudges, KeyedReads, DedupReads, ResolverTakes, PersonApplies, Dismisses, PersonReopensRow, graph
<1>8. ASSUME \/ StageRules \/ StageReviews \/ StageReadsCurrency \/ StageFindsStale \/ StageOpens
             \/ ResolverRules \/ FindsSource \/ TimePasses \/ UNCHANGED vars
      PROVE  UNCHANGED <<node, lineage>>
  BY <1>8 DEF StageRules, StageReviews, StageReadsCurrency, StageFindsStale, StageOpens, ResolverRules,
              FindsSource, TimePasses, Tick, graph, vars
<1>9. ASSUME NEW w \in Writers, Resolves(w) \/ Abandons(w)
      PROVE  UNCHANGED <<node, lineage>>
  BY <1>9 DEF Resolves, Abandons, graph
<1>10. CASE StageClosesAuto \/ ClosesSource
  BY <1>3, <1>10, WriterNames DEF AnyClose
<1>11. ASSUME NEW w \in Writers, Merges(w) \/ Closes(w)
       PROVE  SameRead(n, k)
  BY <1>3, <1>11 DEF AnyClose
<1>12. CASE (\E m \in Touched : PersonUnsupersedes(m)) \/ \E r \in reopens : ReopenAborts(r)
  BY <1>2, <1>12 DEF PersonUnsupersedes, ReopenAborts
<1>13. Touched \subseteq Nodes /\ Intentions \subseteq Nodes
  BY SupersessionAssumption
<1> QED BY <1>2, <1>4, <1>5, <1>6, <1>7, <1>8, <1>9, <1>10, <1>11, <1>12, <1>13 DEF Next

(* A knew_at read of a past instant that every transaction in flight is      *)
(* stamped after keeps its answer, for any clock and any order of closes and *)
(* reopens: the row, except in the step of a reopen that removes the node's  *)
(* stamps, and each link, except in the step of a close that opens a link    *)
(* again.                                                                    *)
THEOREM HistoryKeeps == Spec => HistoryIsFinal
<1>1. ASSUME Sound, [Next]_vars
      PROVE  [\A n \in Nodes, k \in 0..MaxClock : Before(k) =>
                /\ HeldAt(n, k)' = HeldAt(n, k) \/ (Closed(n) /\ ~Closed(n)')
                /\ \A m \in Nodes :
                     \/ LinkedAt(m, n, k)' = LinkedAt(m, n, k)
                     \/ lineage[<<m, n>>].txUntil # Never /\ Held(lineage[<<m, n>>])']_vars
  <2>1. ASSUME NEW n \in Nodes, NEW k \in 0..MaxClock, Before(k)
        PROVE  SameRead(n, k)
    BY <1>1, <2>1, HistoryStep
  <2> QED BY <2>1 DEF SameRead, SameRow, SameLink
<1> QED BY <1>1, SoundAlways, PTL DEF Spec, HistoryIsFinal
=============================================================================
