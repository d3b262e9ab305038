-------------------------------- MODULE Service --------------------------------
(***************************************************************************)
(* The life of the MCP service and of the sessions it serves: the registry *)
(* (session-registry.ts), the idle sweep over it, the tool calls in flight *)
(* (mcp-server.ts), the record of what a session was served, and the order *)
(* in which teardown (bootstrap.ts) stops all of it before the driver and  *)
(* the store go.                                                           *)
(*                                                                         *)
(* One event loop: an action is what runs between two awaits.  What closes *)
(* a transport is the SDK's; its onclose comes some time after the close   *)
(* was asked for.  A session's end reaches the rest through one hook, here *)
(* its narrative on the chain and the end of its served rows; what the     *)
(* hook does to SessionManager is Intake's forgetSession, and what the     *)
(* narrative does is Narratives.                                           *)
(***************************************************************************)
EXTENDS Naturals, Sequences, FiniteSets, SequencesExt

CONSTANTS Sessions,     \* transport session ids; each is generated once
          Calls,        \* tool calls clients will make
          NoSession,
          MaxSessions,  \* MAX_SESSIONS
          MaxDowns      \* bound: shutdowns and crashes

ASSUME ServiceAssumption == /\ NoSession \notin Sessions
                            /\ MaxSessions \in Nat \ {0} /\ MaxDowns \in Nat

VARIABLES
    map,      \* #sessions, least recently used first
    closing,  \* sessions whose server was asked to close and has not told yet
    quiet,    \* sessions of the map without a request for the idle window
    working,  \* the session each running call works for; #inFlight
    answered, \* calls that ended, or were refused
    served,   \* served_items per session: "none", "fresh", or "old" for the idle window
    chain,    \* SessionNarrativeCloser.#pending: how many closes are still to run
    access,   \* RecallSideEffects.#pending: access writes still to run
    phase,    \* where the process is in its life
    drained,  \* the calls drain waits for
    toClose,  \* the sessions closeAll has left
    awaited,  \* entries of the chain, then access writes, that teardown waits for
    timedOut, \* drain gave up on a call
    opened,   \* history: sessions ever opened
    hooks,    \* history: runs of the close hook per session
    late,     \* history: sessions opened after closeAll listed the others
    lost,     \* history: sessions a crash took
    downs

registry == <<map, closing, quiet>>
tasks    == <<chain, access>>
teardown == <<drained, toClose, awaited, timedOut>>
history  == <<opened, late, lost, downs>>
vars == <<registry, working, answered, served, tasks, phase, teardown, hooks, history>>

\* maintenance: teardown awaits the introspector; killed: the process died where it stood.
Phases == {"up", "maintenance", "draining", "closing", "cleared", "narratives", "access", "down", "killed"}
Up == phase \notin {"down", "killed"}
Listening == phase \in {"up", "maintenance", "draining", "closing", "cleared"}
Running(c) == working[c] # NoSession

(* Types of the registry, the calls and the teardown.                      *)
TypeOK ==
    /\ map \in Seq(Sessions) /\ Len(map) <= MaxSessions
    /\ closing \subseteq Sessions /\ quiet \subseteq Sessions
    /\ working \in [Calls -> Sessions \cup {NoSession}] /\ answered \subseteq Calls
    /\ served \in [Sessions -> {"none", "fresh", "old"}]
    /\ chain \in Nat /\ access \in Nat /\ phase \in Phases
    /\ drained \subseteq Calls /\ toClose \in Seq(Sessions) /\ awaited \in Nat /\ timedOut \in BOOLEAN
    /\ opened \subseteq Sessions /\ hooks \in [Sessions -> Nat]
    /\ late \subseteq Sessions /\ lost \subseteq Sessions /\ downs \in 0..MaxDowns

Init == /\ map = <<>> /\ closing = {} /\ quiet = {}
        /\ working = [c \in Calls |-> NoSession] /\ answered = {}
        /\ chain = 0 /\ access = 0 /\ phase = "up"
        /\ drained = {} /\ toClose = <<>> /\ awaited = 0 /\ timedOut = FALSE
        /\ served = [s \in Sessions |-> "none"]
        /\ opened = {} /\ hooks = [s \in Sessions |-> 0] /\ late = {} /\ lost = {} /\ downs = 0

-----------------------------------------------------------------------------
(* The registry.                                                            *)

\* onSessionClosed, for the sessions that just left the map.
Ended(gone) ==
    /\ hooks' = [s \in Sessions |-> IF s \in gone THEN hooks[s] + 1 ELSE hooks[s]]
    /\ chain' = chain + Cardinality(gone)
    /\ served' = [s \in Sessions |-> IF s \in gone THEN "none" ELSE served[s]]

\* sessions.delete: the map, which holds a session once, without it.
Without(s) == IF \E i \in DOMAIN map : map[i] = s
              THEN RemoveAt(map, CHOOSE i \in DOMAIN map : map[i] = s) ELSE map

ForgetTwice(s) ==       \* mutant: the hook runs whether or not the map still had it
    /\ map' = Without(s)
    /\ quiet' = quiet \ {s}
    /\ Ended({s})

forget(s) ==
    /\ map' = Without(s)
    /\ quiet' = quiet \ {s}
    /\ Ended({s} \cap ToSet(map))

\* open, with #evictOverflow: the hook of the evicted runs here, its server closes on its own.
open(s) ==
    LET full    == Len(map) = MaxSessions
        evicted == IF full THEN {Head(map)} ELSE {}
    IN  /\ map' = Append(IF full THEN Tail(map) ELSE map, s)
        /\ quiet' = quiet \ evicted
        /\ closing' = closing \cup evicted
        /\ Ended(evicted)

\* An initialize request, which no shutdown refuses while the port is bound.
Initialize(s) ==
    /\ Listening /\ s \notin opened
    /\ open(s)
    /\ opened' = opened \cup {s}
    /\ late' = IF phase \in {"closing", "cleared"} THEN late \cup {s} ELSE late
    /\ UNCHANGED <<working, answered, access, phase, teardown, lost, downs>>

touch(s) == /\ map' = Append(Without(s), s)
            /\ quiet' = quiet \ {s}

\* isStopping, read per call.
Stopping == phase \notin {"up", "maintenance"}
Accepts == ~Stopping

\* A tools/call request; one that arrives while stopping is refused.
CallTool(c, s) ==
    /\ Listening /\ s \in ToSet(map) /\ c \notin answered /\ ~Running(c)
    /\ touch(s)
    /\ IF Accepts
       THEN working' = [working EXCEPT ![c] = s] /\ UNCHANGED answered
       ELSE answered' = answered \cup {c} /\ UNCHANGED working
    /\ UNCHANGED <<closing, served, tasks, phase, teardown, hooks, history>>

\* A recall records what it served and schedules its access write; a reflection does neither.
\* A store that is closed under it answers with an error.
CallEnds(c) ==
    /\ Running(c)
    /\ working' = [working EXCEPT ![c] = NoSession]
    /\ answered' = answered \cup {c}
    /\ \/ UNCHANGED <<served, access>>
       \/ Up /\ served' = [served EXCEPT ![working[c]] = "fresh"] /\ access' = access + 1
    /\ UNCHANGED <<registry, chain, phase, teardown, hooks, history>>

\* DELETE: onsessionclosed, and the transport closes.
Delete(s) ==
    /\ Listening /\ s \in ToSet(map)
    /\ forget(s)
    /\ closing' = closing \cup {s}
    /\ UNCHANGED <<working, answered, access, phase, teardown, history>>

\* server.onclose.
OnClose(s) ==
    /\ Up /\ s \in closing
    /\ forget(s)
    /\ closing' = closing \ {s}
    /\ UNCHANGED <<working, answered, access, phase, teardown, history>>

\* The idle window passes over a session's last request, and over its newest served row.
GoesQuiet(s) ==
    /\ s \in ToSet(map) \ quiet
    /\ quiet' = quiet \cup {s}
    /\ UNCHANGED <<map, closing, working, answered, served, tasks, phase, teardown, hooks, history>>

RowsAge(s) ==
    /\ served[s] = "fresh"
    /\ served' = [served EXCEPT ![s] = "old"]
    /\ UNCHANGED <<registry, working, answered, tasks, phase, teardown, hooks, history>>

KnownOnly(s) == served[s] = "old" /\ s \in ToSet(map)    \* mutant: the purge asks the map
Purged(s) == served[s] = "old"

\* sweepOnce: closeIdle asks the servers to close, then purgeServedItemsIdleSince.
SweepIdle ==
    /\ phase = "up"
    /\ \/ \E s \in quiet : s \notin closing
       \/ \E s \in Sessions : Purged(s)
    /\ closing' = closing \cup quiet
    /\ served' = [s \in Sessions |-> IF Purged(s) THEN "none" ELSE served[s]]
    /\ UNCHANGED <<map, quiet, working, answered, tasks, phase, teardown, hooks, history>>

-----------------------------------------------------------------------------
(* Deferred work.                                                           *)

\* SessionNarrativeCloser runs its chain one close at a time.
RunClose ==
    /\ Up /\ chain > 0
    /\ chain' = chain - 1
    /\ awaited' = IF phase = "narratives" /\ awaited > 0 THEN awaited - 1 ELSE awaited
    /\ UNCHANGED <<registry, working, answered, served, access, phase, drained, toClose, timedOut, hooks, history>>

WriteAccess ==
    /\ Up /\ access > 0
    /\ access' = access - 1
    /\ awaited' = IF phase = "access" /\ awaited > 0 THEN awaited - 1 ELSE awaited
    /\ UNCHANGED <<registry, working, answered, served, chain, phase, drained, toClose, timedOut, hooks, history>>

-----------------------------------------------------------------------------
(* Teardown, in its order.                                                  *)

\* idleSessions.stop, then introspector.stop is awaited.
Stop ==
    /\ phase = "up" /\ downs < MaxDowns
    /\ phase' = "maintenance" /\ downs' = downs + 1
    /\ UNCHANGED <<registry, working, answered, served, tasks, teardown, hooks, opened, late, lost>>

\* service.close refuses calls from here, and drains the ones that run.
BeginDrain ==
    /\ phase = "maintenance"
    /\ phase' = "draining"
    /\ drained' = {c \in Calls : Running(c)}
    /\ UNCHANGED <<registry, working, answered, served, tasks, toClose, awaited, timedOut, hooks, history>>

\* drain settles, or gives up at its deadline; closeAll lists the sessions.
EndDrain ==
    /\ phase = "draining"
    /\ phase' = "closing"
    /\ timedOut' = \E c \in drained : Running(c)
    /\ drained' = {}
    /\ toClose' = map
    /\ UNCHANGED <<registry, working, answered, served, tasks, awaited, hooks, history>>

\* closeAll awaits one server's close after the other.
CloseNext ==
    /\ phase = "closing" /\ toClose # <<>>
    /\ forget(Head(toClose))
    /\ closing' = closing \ {Head(toClose)}
    /\ toClose' = Tail(toClose)
    /\ UNCHANGED <<working, answered, access, phase, drained, awaited, timedOut, history>>

\* #sessions.clear() drops what is left, without a hook.
Clear ==
    /\ phase = "closing" /\ toClose = <<>>
    /\ phase' = "cleared"
    /\ map' = <<>> /\ quiet' = {}
    /\ UNCHANGED <<closing, working, answered, served, tasks, teardown, hooks, history>>

AwaitNothing == 0     \* mutant: teardown does not wait for the narratives
AwaitChain == chain

\* The port is unbound and its sockets destroyed; whenIdle of the narrative closer.
Unlisten ==
    /\ phase = "cleared"
    /\ phase' = "narratives"
    /\ awaited' = AwaitChain
    /\ UNCHANGED <<registry, working, answered, served, tasks, drained, toClose, timedOut, hooks, history>>

\* whenIdle of the side effects.
NarrativesIdle ==
    /\ phase = "narratives" /\ awaited = 0
    /\ phase' = "access"
    /\ awaited' = access
    /\ UNCHANGED <<registry, working, answered, served, tasks, drained, toClose, timedOut, hooks, history>>

\* The narrative sweeper and the worker stop; the driver and the store close.
Down ==
    /\ phase = "access" /\ awaited = 0
    /\ phase' = "down"
    /\ UNCHANGED <<registry, working, answered, served, tasks, teardown, hooks, history>>

\* The process ends, and with it all but the store.
Dies(next) ==
    /\ map' = <<>> /\ closing' = {} /\ quiet' = {}
    /\ working' = [c \in Calls |-> NoSession]
    /\ answered' = answered \cup {c \in Calls : Running(c)}
    /\ chain' = 0 /\ access' = 0 /\ phase' = next
    /\ drained' = {} /\ toClose' = <<>> /\ awaited' = 0 /\ timedOut' = FALSE
    /\ UNCHANGED <<served, hooks, opened, late>>

Crash ==
    /\ Up /\ downs < MaxDowns
    /\ Dies("killed") /\ downs' = downs + 1
    /\ lost' = lost \cup ToSet(map)

Boot == ~Up /\ Dies("up") /\ UNCHANGED <<lost, downs>>

-----------------------------------------------------------------------------
Teardown == BeginDrain \/ EndDrain \/ CloseNext \/ Clear \/ Unlisten \/ NarrativesIdle \/ Down

Next ==
    \/ \E s \in Sessions : Initialize(s) \/ Delete(s) \/ OnClose(s) \/ GoesQuiet(s) \/ RowsAge(s)
    \/ \E c \in Calls, s \in Sessions : CallTool(c, s)
    \/ \E c \in Calls : CallEnds(c)
    \/ SweepIdle \/ RunClose \/ WriteAccess
    \/ Stop \/ Teardown \/ Crash \/ Boot

Spec == Init /\ [][Next]_vars

(* Timers fire, calls and narratives end under their deadlines, a shutdown  *)
(* goes on, and compose restarts what is down.  Nothing is assumed of the   *)
(* clients.                                                                 *)
FairSpec ==
    /\ Spec
    /\ WF_vars(SweepIdle) /\ WF_vars(RunClose) /\ WF_vars(WriteAccess)
    /\ WF_vars(Teardown) /\ WF_vars(Boot)
    /\ \A c \in Calls : WF_vars(CallEnds(c))
    /\ \A s \in Sessions : WF_vars(RowsAge(s)) /\ WF_vars(OnClose(s))

-----------------------------------------------------------------------------
(* A session's end is handed over exactly once, whichever of its ways out   *)
(* race: DELETE, idle close, eviction, the shutdown's close and the onclose *)
(* each of them brings.  Only a crash, and a session opened after the       *)
(* shutdown listed the others, end without (service.ts:230-267 refuses no   *)
(* initialize while stopping).                                              *)
SessionsEndOnce ==
    \A s \in opened :
        \/ hooks[s] = IF s \in ToSet(map) THEN 0 ELSE 1
        \/ s \in late \cup lost /\ hooks[s] = 0

(* bootstrap.ts:174-199: whatever still writes is done before the driver    *)
(* and the store close: no narrative close is pending and, unless the drain *)
(* gave up on a call, no call runs and no access write is pending.          *)
NothingMeetsAClosedStore ==
    phase = "down" =>
        /\ chain = 0
        /\ timedOut \/ (access = 0 /\ \A c \in Calls : ~Running(c))

(* The served rows of a session that ended go in the end, those a call      *)
(* wrote after the hook had deleted them and those a crash left behind      *)
(* included.                                                                *)
ServedRowsGo ==
    \A s \in Sessions :
        (served[s] # "none" /\ s \notin ToSet(map)) ~> (served[s] = "none")
=============================================================================
