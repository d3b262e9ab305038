---------------------------- MODULE Supersession ----------------------------
(***************************************************************************)
(* Who closes a claim, and on whose word.  Three writers work on the graph *)
(* of Bitemporal and on the supersession_proposals table at once: the      *)
(* reflection worker's supersession stage, one introspection operation     *)
(* (proposal_resolution or claim_dedup) and a person at the command line.  *)
(* A close is a graph transaction and a ruling is a SQLite row, so no step *)
(* writes both: a writer reads the row, waits for the graph, and resolves  *)
(* the row afterwards.                                                     *)
(***************************************************************************)
EXTENDS Bitemporal

CONSTANTS
  Facts,       \* claims extracted from the episodes
  Episodes,
  SourceOf,    \* SourceOf[f]: the one episode claim f was extracted from
  Pairs,       \* <<old, new>>: the pairs a judge may find contradictory
  Intentions,  \* the claims intention upkeep may close
  Modes,       \* the supersede modes the process may be started in
  Touched,     \* the nodes a person reopens or forgets
  MaxHands,    \* bound on how often
  NoPair

Writers == {"stage", "introspector", "person"}

ASSUME SupersessionAssumption ==
  /\ Nodes = Facts \cup Episodes
  /\ SourceOf \in [Facts -> Episodes]
  /\ Pairs \subseteq Facts \X Facts
  /\ \A p \in Pairs : SourceOf[p[1]] # SourceOf[p[2]]
  /\ Intentions \subseteq Facts
  /\ Modes \subseteq {"propose", "auto", "unanimous"}
  /\ Touched \subseteq Nodes
  /\ NoPair \notin Pairs

VARIABLES
  mode,      \* AION_SUPERSEDE_MODE
  filed,     \* the pairs that have a proposal row
  resolved,  \* the rows whose resolved_at is set
  at,        \* at[w]: the await writer w stands at
  on,        \* on[w]: the pair it is working on
  began,     \* began[w]: the clock it stamps its writes with
  applied,   \* history: the pairs a writer resolved as applied
  ruled,     \* history: the dismissals that stand
  late,      \* history: the writers a dismissal of their pair found past their
             \* last look at the row
  reopens,   \* the reopen transactions between their two statements
  crossed,   \* history: the open nodes that a close and a reopen crossed on
  hands      \* the person's undos and forgets so far

graph == <<node, lineage, clock, reopens, crossed>>
rows  == <<filed, resolved, applied, ruled>>
desks == <<at, on, began, late>>
vars  == <<graph, mode, rows, desks, hands>>

Places == {"idle", "judging", "reviewing", "gating", "clear", "gone",
           "closing", "sourced", "closed", "weighing", "merging"}

Reopens == [node : Nodes, found : SUBSET (Nodes \X Nodes), now : Nat]

TypeOK ==
  /\ GraphTypeOK
  /\ mode \in Modes
  /\ filed \subseteq Pairs /\ resolved \subseteq filed
  /\ at \in [Writers -> Places]
  /\ on \in [Writers -> Pairs \cup {NoPair}]
  /\ began \in [Writers -> Nat]
  /\ applied \subseteq Pairs /\ ruled \subseteq Pairs /\ late \subseteq Writers
  /\ reopens \subseteq Reopens /\ crossed \subseteq Nodes
  /\ hands \in Nat

Init ==
  /\ GraphInit
  /\ mode \in Modes
  /\ filed = {} /\ resolved = {} /\ applied = {} /\ ruled = {}
  /\ at = [w \in Writers |-> "idle"]
  /\ on = [w \in Writers |-> NoPair]
  /\ began = [w \in Writers |-> 0]
  /\ late = {} /\ reopens = {} /\ crossed = {}
  /\ hands = 0

-----------------------------------------------------------------------------
(* Moving a writer, and what several writers share. *)

Old(p) == p[1]
New(p) == p[2]

Go(w, place) == at' = [at EXCEPT ![w] = place] /\ UNCHANGED <<on, began, late>>

Rests(w) ==
  /\ at' = [at EXCEPT ![w] = "idle"]
  /\ on' = [on EXCEPT ![w] = NoPair]
  /\ began' = [began EXCEPT ![w] = 0]

Leave(w) == Rests(w) /\ late' = late \ {w}

Take(w, p, place) ==
  /\ at[w] = "idle"
  /\ at' = [at EXCEPT ![w] = place]
  /\ on' = [on EXCEPT ![w] = p]
  /\ began' = [began EXCEPT ![w] = clock]
  /\ UNCHANGED late

Gone(p) == ~Current(Old(p)) \/ ~Current(New(p))

(* A writer that goes by the row of p and may still commit a close without   *)
(* asking the row again.  In auto mode the last look comes before the read   *)
(* of currency, in the others right before the close.                        *)
Closing(w) ==
  \/ at[w] \in {"closing", "sourced"}
  \/ at[w] \in {"gating", "clear"} /\ mode = "auto"

(* The upsert on (old_id, new_id): resolved_at survives it. *)
Record(p) == filed' = filed \cup {p}

(* applyScope: the claim alone, the siblings of its observation that are    *)
(* still open, or the observation with everything only it supports.         *)
OpenSiblings(f) ==
  IF Current(SourceOf[f])
  THEN {s \in Facts \ {f} : SourceOf[s] = SourceOf[f] /\ Current(s)} ELSE {}

(* One close.  It waits for an edge that a reopen holds.                     *)
HeldByReopens == UNION {r.found : r \in reopens}
Close(olds, new, validUntil, now) ==
  /\ ({new} \X olds) \cap HeldByReopens = {}
  /\ Supersede(olds, new, validUntil, now)
  /\ crossed' = crossed \ olds

CloseClaim(p, validUntil, now)  == Close({Old(p)}, New(p), validUntil, now)
CloseFamily(p, validUntil, now) ==
  \E siblings \in SUBSET OpenSiblings(Old(p)) :
    Close({Old(p)} \cup siblings, New(p), validUntil, now)
CloseEpisode(p, validUntil, now) ==
  LET source == SourceOf[Old(p)]
      derived == {f \in Facts : SourceOf[f] = source /\ Current(f)}
  IN Close({source} \cup derived, SourceOf[New(p)], validUntil, now)

-----------------------------------------------------------------------------
(* The supersession stage of one reflection run.  It judges a claim of its  *)
(* episode that still stood when the run began against a claim that is      *)
(* current, and stamps the run's clock.                                     *)

StageJudges(p) ==
  /\ Current(Old(p)) /\ Current(New(p))
  /\ Take("stage", p, "judging")
  /\ UNCHANGED <<hands, graph, mode, rows>>

(* applyJudgment once the judge has said the pair contradicts. *)
StageRules ==
  /\ at["stage"] = "judging"
  /\ LET p == on["stage"] IN
     \/ p \in resolved /\ Leave("stage") /\ UNCHANGED filed      \* decidedAlready
     \/ p \notin resolved /\ mode = "unanimous" /\ Go("stage", "reviewing") /\ UNCHANGED filed
     \/ p \notin resolved /\ mode = "auto" /\ Go("stage", "gating") /\ UNCHANGED filed
     \/ p \notin resolved /\ mode # "unanimous" /\ Record(p) /\ Leave("stage")
  /\ UNCHANGED <<hands, graph, mode, resolved, applied, ruled>>

(* The second pass: a veto files the pair, agreement goes on to the gate. *)
StageReviews ==
  /\ at["stage"] = "reviewing"
  /\ \/ Record(on["stage"]) /\ Leave("stage")
     \/ Go("stage", "gating") /\ UNCHANGED filed
  /\ UNCHANGED <<hands, graph, mode, resolved, applied, ruled>>

(* goneSides. *)
StageReadsCurrency ==
  /\ at["stage"] = "gating"
  /\ Go("stage", IF Gone(on["stage"]) THEN "gone" ELSE "clear")
  /\ UNCHANGED <<hands, graph, mode, rows>>

(* A side was gone: under unanimous the row is filed and resolved. *)
StageFindsStale ==
  /\ at["stage"] = "gone"
  /\ IF mode = "unanimous"
     THEN Record(on["stage"]) /\ resolved' = resolved \cup {on["stage"]}
     ELSE UNCHANGED <<filed, resolved>>
  /\ Leave("stage")
  /\ UNCHANGED <<hands, graph, mode, applied, ruled>>

OpensAnyRow ==                                   \* no check of resolved_at
  /\ at["stage"] = "clear" /\ mode = "unanimous"
  /\ Record(on["stage"])
  /\ Go("stage", "closing")
  /\ UNCHANGED <<hands, graph, mode, resolved, applied, ruled>>

(* Unanimous: file the row and open it, which throws when it is resolved. *)
StageOpens ==
  /\ at["stage"] = "clear" /\ mode = "unanimous"
  /\ Record(on["stage"])
  /\ IF on["stage"] \in resolved THEN Leave("stage") ELSE Go("stage", "closing")
  /\ UNCHANGED <<hands, graph, mode, resolved, applied, ruled>>

(* Auto: the legacy gate closes the claim and files nothing. *)
StageClosesAuto ==
  /\ at["stage"] = "clear" /\ mode = "auto"
  /\ CloseClaim(on["stage"], 0, began["stage"])
  /\ Leave("stage")
  /\ UNCHANGED <<hands, clock, reopens, mode, rows>>

(* The keyed close of cognitive extraction and the claim_dedup merge read   *)
(* currency inside their transaction, but a read takes no lock: another     *)
(* writer may commit between the read and the close.                        *)
KeyedReads(p) ==
  /\ Current(Old(p))
  /\ Take("stage", p, "merging")
  /\ UNCHANGED <<hands, graph, mode, rows>>

DedupReads(p) ==
  /\ ~Gone(p)
  /\ Take("introspector", p, "merging")
  /\ UNCHANGED <<hands, graph, mode, rows>>

Merges(w) ==
  /\ at[w] = "merging"
  /\ IF w = "stage" THEN CloseFamily(on[w], 0, began[w])
                    ELSE CloseClaim(on[w], began[w], began[w])
  /\ Leave(w)
  /\ UNCHANGED <<hands, clock, reopens, mode, rows>>

-----------------------------------------------------------------------------
(* proposal_resolution: an open row whose two claims can be read. *)

ResolverTakes(p) ==
  /\ p \in filed \ resolved
  /\ ~node[Old(p)].forgotten /\ ~node[New(p)].forgotten
  /\ Take("introspector", p, "weighing")
  /\ UNCHANGED <<hands, graph, mode, rows>>

(* A dismissal is one guarded update. *)
Dismissal(p) ==
  /\ resolved' = resolved \cup {p}
  /\ IF p \in resolved THEN UNCHANGED <<ruled, late>>
     ELSE /\ ruled' = ruled \cup {p}
          /\ late' = late \cup {w \in Writers : on[w] = p /\ Closing(w)}
  /\ UNCHANGED <<filed, applied>>

ResolverRules ==
  LET w == "introspector"  p == on[w] IN
  /\ at[w] = "weighing"
  /\ \/ Leave(w) /\ UNCHANGED rows                        \* unanswered
     \/ Dismissal(p) /\ Rests(w)
     \/ /\ IF p \in resolved THEN Leave(w) ELSE Go(w, "closing")
        /\ UNCHANGED rows
  /\ UNCHANGED <<hands, graph, mode>>

(* applySupersessionProposal after open(): the close commits, then the      *)
(* narratives are marked, then the row is resolved.                         *)
Closes(w) ==
  /\ at[w] = "closing"
  /\ LET validUntil == IF w = "stage" THEN 0 ELSE began[w] IN
     \/ CloseFamily(on[w], validUntil, began[w])
     \/ w = "person" /\ CloseClaim(on[w], validUntil, began[w])
  /\ Go(w, "closed")
  /\ UNCHANGED <<hands, clock, reopens, mode, rows>>

(* The episode scope: the open source is found by a read of its own, and the *)
(* close asks about it no more.                                              *)
FindsSource ==
  /\ at["person"] = "closing"
  /\ Current(SourceOf[Old(on["person"])])
  /\ Go("person", "sourced")
  /\ UNCHANGED <<hands, graph, mode, rows>>

ClosesSource ==
  /\ at["person"] = "sourced"
  /\ CloseEpisode(on["person"], began["person"], began["person"])
  /\ Go("person", "closed")
  /\ UNCHANGED <<hands, clock, reopens, mode, rows>>

ResolvesEarly(w) ==                              \* the row before the graph
  /\ at[w] \in {"closing", "sourced", "closed"}
  /\ resolved' = resolved \cup {on[w]}
  /\ applied' = IF on[w] \in resolved THEN applied ELSE applied \cup {on[w]}
  /\ Leave(w)
  /\ UNCHANGED <<hands, graph, mode, filed, ruled>>

Resolves(w) ==
  /\ at[w] = "closed"
  /\ resolved' = resolved \cup {on[w]}
  /\ applied' = IF on[w] \in resolved THEN applied ELSE applied \cup {on[w]}
  /\ Leave(w)
  /\ UNCHANGED <<hands, graph, mode, filed, ruled>>

(* A call that fails, a run that is cut off, a process that dies. *)
Abandons(w) ==
  /\ at[w] # "idle"
  /\ Leave(w)
  /\ UNCHANGED <<hands, graph, mode, rows>>

-----------------------------------------------------------------------------
(* The person, and the sweeps that act alone. *)

PersonApplies(p) ==
  /\ p \in filed \ resolved
  /\ Take("person", p, "closing")
  /\ UNCHANGED <<hands, graph, mode, rows>>

(* `aion proposals dismiss`, and proposal_hygiene on a row past its horizon. *)
Dismisses(p) ==
  /\ p \in filed \ resolved
  /\ Dismissal(p)
  /\ UNCHANGED <<hands, graph, mode, at, on, began>>

ByHand == hands < MaxHands /\ hands' = hands + 1

PersonReopensRow(p) ==
  /\ ByHand
  /\ p \in resolved
  /\ resolved' = resolved \ {p}
  /\ ruled' = ruled \ {p}
  /\ applied' = applied \ {p}
  /\ UNCHANGED <<graph, mode, filed, desks>>

(* `aion unsupersede`: the preview, then the transaction.  Its instant is    *)
(* the caller's, taken before the first statement.                           *)
PersonUnsupersedes(n) ==
  /\ ByHand
  /\ Closed(n) \/ Successors(n) # {}
  /\ LineageInto(n) \cap HeldByReopens = {}
  /\ reopens' = reopens \cup {[node |-> n, found |-> LineageInto(n), now |-> clock]}
  /\ UNCHANGED <<node, lineage, clock, crossed, mode, rows, desks>>

(* The second statement and the commit. *)
Reopened(r) ==
  /\ reopens' = reopens \ {r}
  /\ Unsupersede(r.node, r.found, r.now)
  /\ crossed' = IF LineageInto(r.node) \subseteq r.found THEN crossed \ {r.node}
                                                         ELSE crossed \cup {r.node}
  /\ UNCHANGED <<clock, hands, mode, rows, desks>>

(* The transaction is aborted, for a deadlock on its edges or with its        *)
(* process; the driver may run it again from its first statement.             *)
ReopenAborts(r) ==
  /\ \/ reopens' = reopens \ {r}
     \/ /\ LineageInto(r.node) \cap UNION {q.found : q \in reopens \ {r}} = {}
        /\ reopens' = (reopens \ {r}) \cup {[r EXCEPT !.found = LineageInto(r.node)]}
  /\ UNCHANGED <<node, lineage, clock, crossed, hands, mode, rows, desks>>

PersonForgets(n) ==
  /\ ByHand
  /\ ~node[n].forgotten
  /\ ForgetNode(n)
  /\ UNCHANGED <<clock, reopens, crossed, mode, rows, desks>>

(* closeStaleIntentions: both timelines, the mark, no lineage. *)
UpkeepCloses(n) ==
  /\ Current(n)
  /\ node' = [node EXCEPT ![n] = [CloseStamps(@, clock, clock) EXCEPT !.closedBy = TRUE]]
  /\ crossed' = crossed \ {n}
  /\ UNCHANGED <<hands, lineage, clock, reopens, mode, rows, desks>>

TimePasses == Tick /\ UNCHANGED <<hands, reopens, crossed, mode, rows, desks>>

Next ==
  \/ \E p \in Pairs :
       \/ StageJudges(p) \/ KeyedReads(p) \/ DedupReads(p) \/ ResolverTakes(p)
       \/ PersonApplies(p) \/ Dismisses(p) \/ PersonReopensRow(p)
  \/ StageRules \/ StageReviews \/ StageReadsCurrency \/ StageFindsStale
  \/ StageOpens \/ StageClosesAuto \/ ResolverRules
  \/ \E w \in Writers : Merges(w) \/ Closes(w) \/ Resolves(w) \/ Abandons(w)
  \/ FindsSource \/ ClosesSource
  \/ \E n \in Touched : PersonUnsupersedes(n) \/ PersonForgets(n)
  \/ \E r \in reopens : Reopened(r) \/ ReopenAborts(r)
  \/ \E n \in Intentions : UpkeepCloses(n)
  \/ TimePasses

Spec == Init /\ [][Next]_vars

-----------------------------------------------------------------------------
(* A node whose currency is gone says why: an open lineage edge names its    *)
(* successor, or the upkeep that closed it left its mark.  Both timelines    *)
(* close together.  A node that is open has no open lineage edge, unless a   *)
(* close committed between the two statements of its reopen and nothing has  *)
(* closed or reopened it since.  For that one interleaving the code does     *)
(* not keep what it says of its two halves, "a node current again while an   *)
(* open SUPERSEDES edge still points at it would read as superseded to every *)
(* lineage projection" (unsupersede.ts:151).                                 *)
LineageMatchesCurrency ==
  \A n \in Nodes :
    /\ Closed(n) <=> node[n].txUntil # Never
    /\ Closed(n) => Successors(n) # {} \/ node[n].closedBy
    /\ Successors(n) # {} => Closed(n) \/ n \in crossed

(* A knew_at read pinned at an instant that has passed, and that every       *)
(* transaction in flight is stamped after, keeps its answer: a later close,  *)
(* a repeated close, a family close of another writer and a reopen move no   *)
(* stamp and no link it looks at.  Two steps are excepted, and only in the   *)
(* one thing they rewrite: the reopen that removes the node's stamps, which  *)
(* may return a row that was not held at that instant, and a close that      *)
(* opens again a link some reopen had closed, which drops the time it was    *)
(* closed.                                                                   *)
Before(k) ==
  /\ k < clock
  /\ \A w \in Writers : at[w] # "idle" => k < began[w]
  /\ \A r \in reopens : k < r.now

HistoryIsFinal ==
  [][\A n \in Nodes, k \in 0..MaxClock : Before(k) =>
       /\ HeldAt(n, k)' = HeldAt(n, k) \/ (Closed(n) /\ ~Closed(n)')
       /\ \A m \in Nodes :
            \/ LinkedAt(m, n, k)' = LinkedAt(m, n, k)
            \/ lineage[<<m, n>>].txUntil # Never /\ Held(lineage[<<m, n>>])']_vars

(* "A graph write that succeeded and a row that says otherwise is           *)
(* recoverable by re-reading the graph, while the reverse would hide an     *)
(* unapplied judgment behind a resolved row" (proposals.ts:198): a row      *)
(* resolved as applied has the lineage of its close in the graph, whatever  *)
(* failed between the two writes.                                           *)
NoHiddenJudgment ==
  \A p \in applied :
    \/ lineage[<<New(p), Old(p)>>].created # Never
    \/ lineage[<<SourceOf[New(p)], SourceOf[Old(p)]>>].created # Never

(* A dismissal holds against the writers that go by its row, the stage, the  *)
(* resolver and a person: once a pair is dismissed, whoever may still close  *)
(* it was already past its last look at the row, however long before it      *)
(* judged the pair or reviewed it.  Such a late close does commit: in auto   *)
(* mode the look comes before the read of currency, and the pipeline says    *)
(* "no mode may close what a person dismissed" (supersession-apply.ts:218).  *)
(* The keyed close of extraction and the claim_dedup merge ask no row and    *)
(* are not spoken of.                                                        *)
DismissalIsFinal ==
  \A w \in Writers : on[w] \in ruled /\ Closing(w) => w \in late

=============================================================================
