---------------------------- MODULE Introspector ----------------------------
(***************************************************************************)
(* The maintenance loop: observe the substrate, decide which one operation *)
(* the cycle calls for, run it, score what it did (packages/core/src/      *)
(* introspection).  Several service processes may run the loop over one    *)
(* SQLite file.  A tick is one step up to its first await and one after    *)
(* it: scoring, deciding and claiming share a synchronous stretch.         *)
(*                                                                         *)
(* Operations are numbered in the order of their names.  What a snapshot   *)
(* says is chosen freely at every observation.                             *)
(***************************************************************************)
EXTENDS Integers, FiniteSets

CONSTANTS
  Processes,
  Ops,         \* the enabled operations of the catalog
  Width,       \* Width[o]: its bucket; a wider window spans whole narrower ones
  Relevance,   \* Relevance[o]: relevance of o when it has work, in tenths
  Slow,        \* the operations whose mean run time pays the cost ceiling
  Responders,  \* the operations that answer a critical condition
  Measured,    \* the operations with a metric (one that throws is left out)
  Improves,    \* the ones whose metric may get better
  AlwaysDue,   \* the operations that always have work
  Starvation,  \* AION_MAINTENANCE_STARVATION_CYCLES
  Threshold,   \* AION_MAINTENANCE_URGENCY_THRESHOLD, in tenths
  Grace,       \* CRITICAL_PREEMPTION_GRACE_RUNS
  Tier3Acts,   \* tier 3 enabled and in mode `act`
  MaxWait,     \* bound on the cycles an operation is counted to wait
  MaxBalance,  \* bound on the record of an operation
  MaxDowns     \* bound on crashes and stops

ASSUME IntrospectorAssumption ==
  /\ Ops \subseteq Nat /\ IsFiniteSet(Ops)
  /\ Width \in [Ops -> Nat] /\ Relevance \in [Ops -> Nat \ {0}]
  /\ Slow \cup Responders \cup Measured \cup AlwaysDue \subseteq Ops
  /\ Responders \subseteq Measured /\ Improves \subseteq Measured
  /\ Starvation \in Nat \ {0} /\ Threshold \in Nat /\ Grace \in Nat
  /\ Tier3Acts \in BOOLEAN
  /\ MaxWait \in Nat /\ MaxBalance \in Nat \ {0} /\ MaxDowns \in Nat

VARIABLES
  waited,    \* waited[o]: cycles since o was selected
  record,    \* record[o]: its resolved runs, and improved runs minus the others
  pending,   \* the operations whose last run waits for a later snapshot
  claimed,   \* the operations whose current window is in the ops ledger
  begun,     \* history: begun[o]: runs of o that began in its current window
  at,        \* at[p]: where the loop of process p stands
  on,        \* on[p]: the operation it runs, or the ones tier 3 may name
  stopping,  \* the processes whose stop() was called
  downs      \* crashes and stops so far

tables == <<waited, record, pending, claimed, begun>>
life   == <<stopping, downs>>
vars   == <<tables, at, on, life>>

Places == {"down", "waiting", "observing", "consulting", "acting"}

TypeOK ==
  /\ waited \in [Ops -> 0..MaxWait]
  /\ record \in [Ops -> [runs : 0..Grace, balance : -MaxBalance..MaxBalance]]
  /\ pending \subseteq Measured /\ claimed \subseteq Ops
  /\ begun \in [Ops -> Nat]
  /\ at \in [Processes -> Places] /\ on \in [Processes -> SUBSET Ops]
  /\ \A p \in Processes : at[p] = "acting" => \E o \in Ops : on[p] = {o}
  /\ stopping \subseteq Processes /\ downs \in 0..MaxDowns

Init ==
  /\ waited = [o \in Ops |-> 0]
  /\ record = [o \in Ops |-> [runs |-> 0, balance |-> 0]]
  /\ pending = {} /\ claimed = {}
  /\ begun = [o \in Ops |-> 0]
  /\ at = [p \in Processes |-> "down"] /\ on = [p \in Processes |-> {}]
  /\ stopping = {} /\ downs = 0

Go(p, place, ops) == at' = [at EXCEPT ![p] = place] /\ on' = [on EXCEPT ![p] = ops]

-----------------------------------------------------------------------------
(* What a run is scored on. *)

AtMost(n, k)  == IF n > k THEN k ELSE n
AtLeast(n, k) == IF n < k THEN k ELSE n

Counted(r)  == [r EXCEPT !.runs = AtMost(@ + 1, Grace)]
Better(r)   == [Counted(r) EXCEPT !.balance = AtMost(@ + 1, MaxBalance)]
NoBetter(r) == [Counted(r) EXCEPT !.balance = AtLeast(@ - 1, -MaxBalance)]

(* Effectiveness, improved over scored, against a floor of one half. *)
Weak(o, rec)   == o \in Measured /\ rec[o].runs > 0 /\ rec[o].balance < 0

Earned(o, rec) == rec[o].runs < Grace \/ ~Weak(o, rec)

(* A partial snapshot scores nothing. *)
Scored(whole, better) ==
  [o \in Ops |-> IF ~whole \/ o \notin pending THEN record[o]
                 ELSE IF o \in better THEN Better(record[o]) ELSE NoBetter(record[o])]

-----------------------------------------------------------------------------
(* decide. *)

NeverBoosted(o) == Starvation                    \* waiting raises nothing
Boost(o) == Starvation + waited[o]

Urgency(o, rec) ==
  Relevance[o] * Boost(o) * (IF Weak(o, rec) THEN 1 ELSE 2) * (IF o \in Slow THEN 1 ELSE 2)

Emergency(o, rec, critical, due) == o \in critical \cap due /\ Earned(o, rec)
Routine(o, rec, due) == o \in due /\ Urgency(o, rec) >= Threshold * Starvation * 4

(* Tier before score, then the longer wait, then the name. *)
Beats(a, b, rec, critical, due) ==
  LET ea == Emergency(a, rec, critical, due)
      eb == Emergency(b, rec, critical, due)
      sa == IF ea THEN Relevance[a] ELSE Urgency(a, rec)
      sb == IF eb THEN Relevance[b] ELSE Urgency(b, rec)
  IN \/ ea /\ ~eb
     \/ /\ ea = eb
        /\ \/ sa > sb
           \/ sa = sb /\ waited[a] > waited[b]
           \/ sa = sb /\ waited[a] = waited[b] /\ a < b

-----------------------------------------------------------------------------
(* One tick. *)

Ticks(p) ==
  /\ at[p] = "waiting" /\ p \notin stopping
  /\ waited' = [o \in Ops |-> AtMost(waited[o] + 1, MaxWait)]
  /\ Go(p, "observing", {})
  /\ UNCHANGED <<record, pending, claimed, begun, life>>

ObservationFails(p) ==
  /\ at[p] = "observing"
  /\ Go(p, "waiting", {})
  /\ UNCHANGED <<tables, life>>

(* The claim lands before the run. *)
ClaimsAfterTheRun(o) ==                          \* only markLedgerApplied writes the key
  /\ UNCHANGED claimed
  /\ begun' = [begun EXCEPT ![o] = @ + 1]

Begins(o) ==
  /\ claimed' = claimed \cup {o}
  /\ begun' = [begun EXCEPT ![o] = @ + 1]

(* The snapshot is there: score the pending runs, then decide again and     *)
(* again, stamping what was selected, until a claim succeeds.  When nothing *)
(* is left to select, tier 3 is asked about the rest.                       *)
Decides(p, whole, critical, due, better) ==
  LET rec   == Scored(whole, better)
      fit   == {o \in Ops : Emergency(o, rec, critical, due) \/ Routine(o, rec, due)}
      free  == fit \ claimed
      first == {o \in free : \A q \in free \ {o} : Beats(o, q, rec, critical, due)}
      taken == IF first = {} THEN fit
               ELSE first \cup {o \in fit : \A q \in first : Beats(o, q, rec, critical, due)}
  IN /\ at[p] = "observing"
     /\ record' = rec
     /\ pending' = IF whole THEN {} ELSE pending
     /\ waited' = [o \in Ops |-> IF o \in taken THEN 0 ELSE waited[o]]
     /\ \/ \E o \in first : Begins(o) /\ Go(p, "acting", {o})
        \/ /\ first = {}
           /\ IF Tier3Acts /\ whole THEN Go(p, "consulting", due \ taken) ELSE Go(p, "waiting", {})
           /\ UNCHANGED <<claimed, begun>>
     /\ UNCHANGED life

Observes(p, whole) ==
  \E critical \in SUBSET Responders, due \in SUBSET Ops, better \in SUBSET (Improves \cap pending) :
    /\ whole => AlwaysDue \subseteq due
    /\ Decides(p, whole, critical, due, better)

(* The advisor recommends an operation that the second pass upholds, or     *)
(* nothing.  A claim that is lost ends the tick.                            *)
Consults(p) ==
  /\ at[p] = "consulting"
  /\ \/ Go(p, "waiting", {}) /\ UNCHANGED <<waited, claimed, begun>>
     \/ \E o \in on[p] :
          /\ waited' = [waited EXCEPT ![o] = 0]
          /\ IF o \in claimed THEN Go(p, "waiting", {}) /\ UNCHANGED <<claimed, begun>>
                              ELSE Begins(o) /\ Go(p, "acting", {o})
  /\ UNCHANGED <<record, pending, life>>

(* A failure resolves at once; a measured run waits for the next snapshot;  *)
(* any other counts as a run and says nothing.                              *)
RunEnds(p) ==
  /\ at[p] = "acting"
  /\ \E o \in on[p] :
       \/ /\ record' = [record EXCEPT ![o] = IF o \in Measured THEN NoBetter(@) ELSE Counted(@)]
          /\ pending' = pending \ {o}
       \/ /\ o \in Measured
          /\ pending' = pending \cup {o}
          /\ UNCHANGED record
       \/ /\ o \notin Measured
          /\ record' = [record EXCEPT ![o] = Counted(@)]
          /\ UNCHANGED pending
  /\ Go(p, "waiting", {})
  /\ UNCHANGED <<waited, claimed, begun, life>>

-----------------------------------------------------------------------------
(* The process around the loop, and the clock. *)

Starts(p) ==
  /\ at[p] = "down"
  /\ Go(p, "waiting", {})
  /\ UNCHANGED <<tables, life>>

(* stop(): the timer is cleared; a tick in progress goes on to its end.     *)
StopCalled(p) ==
  /\ at[p] # "down" /\ p \notin stopping
  /\ downs < MaxDowns /\ downs' = downs + 1
  /\ stopping' = stopping \cup {p}
  /\ UNCHANGED <<tables, at, on>>

Stopped(p) ==
  /\ at[p] = "waiting" /\ p \in stopping
  /\ stopping' = stopping \ {p}
  /\ Go(p, "down", {})
  /\ UNCHANGED <<tables, downs>>

Crashes(p) ==
  /\ at[p] # "down"
  /\ downs < MaxDowns /\ downs' = downs + 1
  /\ stopping' = stopping \ {p}
  /\ Go(p, "down", {})
  /\ UNCHANGED tables

(* A window of width w ends, and with it every narrower one.                *)
RollsOver(w) ==
  /\ claimed' = {o \in claimed : Width[o] > w}
  /\ begun' = [o \in Ops |-> IF Width[o] > w THEN begun[o] ELSE 0]
  /\ UNCHANGED <<waited, record, pending, at, on, life>>

Widths == {Width[o] : o \in Ops}

Next ==
  \/ \E p \in Processes :
       \/ Ticks(p) \/ ObservationFails(p) \/ Observes(p, TRUE) \/ Observes(p, FALSE)
       \/ Consults(p) \/ RunEnds(p)
       \/ Starts(p) \/ StopCalled(p) \/ Stopped(p) \/ Crashes(p)
  \/ \E w \in Widths : RollsOver(w)

Spec == Init /\ [][Next]_vars

(* Timers fire, observations and runs end, the clock goes on, and a process *)
(* that keeps observing sees the whole substrate now and then.              *)
Fairness ==
  /\ \A p \in Processes :
       /\ WF_vars(Ticks(p)) /\ WF_vars(Consults(p)) /\ WF_vars(RunEnds(p))
       /\ WF_vars(Starts(p)) /\ WF_vars(Stopped(p))
       /\ SF_vars(Observes(p, TRUE))
  /\ \A w \in Widths : WF_vars(RollsOver(w))

FairSpec == Spec /\ Fairness

-----------------------------------------------------------------------------
(* "Every maintenance operation runs at most once per bucket" (buckets.ts:2) *)
(* however many processes tick over one file, whichever of them dies in the  *)
(* middle of a run, and whichever tier selected it.                          *)
OneRunPerWindow == \A o \in Ops : begun[o] <= 1

(* An operation that always has work runs again and again, however small its *)
(* relevance: waiting carries it over the threshold and past the others, a   *)
(* responder that repairs nothing loses its preemption, and a crash in the   *)
(* middle of a run costs one window (decide.ts:120, decide.ts:172).          *)
EveryOperationRuns ==
  \A o \in AlwaysDue : []<>(\E p \in Processes : at[p] = "acting" /\ on[p] = {o})
=============================================================================
