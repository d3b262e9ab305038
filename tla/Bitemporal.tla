----------------------------- MODULE Bitemporal -----------------------------
(***************************************************************************)
(* The two timelines a graph node carries and the SUPERSEDES lineage       *)
(* between nodes (packages/core/src/infrastructure/graph/bitemporal.ts,    *)
(* unsupersede.ts, read-modes.ts and the edge upsert of edges.ts).         *)
(*                                                                         *)
(* Each operator below is what one write transaction leaves in the graph.  *)
(* The modules that extend this one say who runs them, when, after which   *)
(* reads, and on which instant: a writer stamps the clock it read when its *)
(* run began, which may lie well before the transaction commits.           *)
(***************************************************************************)
EXTENDS Naturals

CONSTANTS
  Nodes,     \* the nodes the model follows
  Never,     \* the null of valid_until, tx_until and created_at
  MaxClock   \* bound on the clock

ASSUME NeverAssumption == Never \notin Nat
ASSUME ClockAssumption == MaxClock \in Nat

VARIABLES
  node,      \* node[n]: the stamps of node n
  lineage,   \* lineage[<<new, old>>]: the SUPERSEDES edge from new to old
  clock      \* the wall clock

Stamps == Nat \cup {Never}

Stamped == [validUntil : Stamps, txUntil : Stamps, forgotten : BOOLEAN, closedBy : BOOLEAN]
Edge    == [created : Stamps, validUntil : Stamps, txUntil : Stamps]

(* stampNew writes neither valid_until nor tx_until. *)
Fresh  == [validUntil |-> Never, txUntil |-> Never, forgotten |-> FALSE, closedBy |-> FALSE]
NoEdge == [created |-> Never, validUntil |-> Never, txUntil |-> Never]

GraphTypeOK ==
  /\ node \in [Nodes -> Stamped]
  /\ lineage \in [Nodes \X Nodes -> Edge]
  /\ clock \in Nat

GraphInit ==
  /\ node = [n \in Nodes |-> Fresh]
  /\ lineage = [e \in Nodes \X Nodes |-> NoEdge]
  /\ clock = 0

-----------------------------------------------------------------------------
(* Readings of one node. *)

Closed(n)  == node[n].validUntil # Never
Current(n) == ~Closed(n) /\ ~node[n].forgotten

Held(edge)     == edge.created # Never /\ edge.txUntil = Never
Successors(n)  == {m \in Nodes : Held(lineage[<<m, n>>])}
LineageInto(n) == Successors(n) \X {n}

(* A knew_at read pinned at k: whether the row is returned, and whether it   *)
(* is returned as superseded by m.                                           *)
HeldAt(n, k)      == node[n].txUntil = Never \/ node[n].txUntil > k
LinkedAt(m, n, k) == LET edge == lineage[<<m, n>>] IN
  /\ edge.created # Never /\ edge.created <= k
  /\ edge.txUntil = Never \/ edge.txUntil > k

-----------------------------------------------------------------------------
(* The writes. *)

Overwrites(stamp, now) == now                    \* a close without coalesce

Coalesce(stamp, now) == IF stamp = Never THEN now ELSE stamp

(* closeFragment: the first close's stamps stand. *)
CloseStamps(s, validUntil, now) ==
  [validUntil |-> Coalesce(s.validUntil, validUntil), txUntil |-> Coalesce(s.txUntil, now),
   forgotten |-> s.forgotten, closedBy |-> s.closedBy]

(* The edge upsert: created_at survives a match, and an edge that was       *)
(* closed is open again.                                                    *)
Upserted(edge, now) ==
  IF edge.created = Never THEN [NoEdge EXCEPT !.created = now]
  ELSE IF edge.validUntil # Never THEN [edge EXCEPT !.validUntil = Never, !.txUntil = Never]
  ELSE edge

(* supersedeInTransaction on every node of olds, in one transaction. *)
Supersede(olds, new, validUntil, now) ==
  /\ node' = [n \in Nodes |-> IF n \in olds THEN CloseStamps(node[n], validUntil, now)
                                            ELSE node[n]]
  /\ lineage' = [e \in Nodes \X Nodes |->
                   IF e[1] = new /\ e[2] \in olds THEN Upserted(lineage[e], now)
                                                  ELSE lineage[e]]

(* unsupersedeNode is one transaction of two statements.  The first closes    *)
(* the open edges into n that it found, on both timelines, and holds them     *)
(* locked; the second takes the node and removes its two stamps (forgotten_at *)
(* and closed_by stay).  Both land when the second commits.  Nothing locks    *)
(* the node between them, so an edge that opened meanwhile is not in found    *)
(* and stays open.                                                            *)
SystemTimeOnly(edge, now) ==                     \* valid_until left open
  IF Held(edge) THEN [edge EXCEPT !.txUntil = now] ELSE edge

ClosedEdge(edge, now) ==
  IF Held(edge) THEN [edge EXCEPT !.validUntil = now, !.txUntil = now] ELSE edge

Unsupersede(n, found, now) ==
  /\ lineage' = [e \in Nodes \X Nodes |->
                   IF e \in found THEN ClosedEdge(lineage[e], now) ELSE lineage[e]]
  /\ node' = [node EXCEPT ![n].validUntil = Never, ![n].txUntil = Never]

(* forgetNode. *)
ForgetNode(n) ==
  /\ node' = [node EXCEPT ![n].forgotten = TRUE]
  /\ UNCHANGED lineage

Tick ==
  /\ clock < MaxClock
  /\ clock' = clock + 1
  /\ UNCHANGED <<node, lineage>>

=============================================================================
