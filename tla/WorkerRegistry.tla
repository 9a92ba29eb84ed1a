--------------------------- MODULE WorkerRegistry ---------------------------
(***************************************************************************)
(* The threads behind asynchronous mapped streams                          *)
(* (reverie-rpc-transport/src/mapped/workers.rs).  Each connection has a   *)
(* notification worker and a helper thread that joins it; a shared reaper  *)
(* joins the helpers and the reaper before it.  A constructor starts all   *)
(* three; when it fails half way, its Drop hands what it started to whoever*)
(* can still join it.                                                      *)
(*                                                                         *)
(* A step is a section under the registry's or a record's mutex, the start *)
(* of a thread, its end or its join.  Any spawn may fail, any thread may   *)
(* end before it reports readiness, a worker may end at any time, a        *)
(* constructor may unwind between two steps and a helper, once, before its *)
(* join.  Condition variables are conditions:                              *)
(* every change that a plain wait is for notifies under the same mutex,    *)
(* the other waits look again after RECHECK.  A connection names its       *)
(* record, constructor, helper, worker and the reaper it may start.        *)
(***************************************************************************)
EXTENDS FiniteSets, Naturals

CONSTANTS
    Connections, NoOne,
    Faulty     \* the connections in whose construction something may fail

ASSUME FaultyAreConnections == NoOne \notin Connections /\ Faulty \subseteq Connections
ASSUME ConnectionsAreFinite == IsFiniteSet(Connections)

VARIABLES
    \* State: the registry
    phase, records, reservations, current, retiring, recovering_current, recovering_retiring,
    start,        \* the reaper whose ReaperStart is installed
    entered, cancelled,
    rec,          \* RecordState of each connection
    completion,   \* its MappedCompletion: worker, helper, and the two reapers of a recovery
    ctor,         \* the constructors: pc, owns_start, published
    hlp, wrk,     \* the helper and worker threads
    rpr           \* the reaper threads: pc, and the helper being joined

registryVars == <<phase, records, reservations, current, retiring, recovering_current,
                  recovering_retiring, start, entered, cancelled>>
threadVars == <<ctor, hlp, wrk, rpr>>
wVars == <<registryVars, rec, completion, threadVars>>

NewRecord == [helper |-> FALSE, helper_joining |-> FALSE, helper_started |-> FALSE,
              helper_ready |-> FALSE, helper_failed_start |-> FALSE, worker_ready |-> FALSE,
              worker_failed_start |-> FALSE, assignment |-> "Waiting",
              current |-> NoOne, retiring |-> NoOne]   \* Recovery's handles

RegistryInit ==
    /\ phase = "Idle" /\ records = {} /\ reservations = 0
    /\ current = NoOne /\ retiring = NoOne
    /\ recovering_current = FALSE /\ recovering_retiring = FALSE
    /\ start = NoOne /\ entered = {} /\ cancelled = {}
    /\ rec = [c \in Connections |-> NewRecord]
    /\ completion = [c \in Connections |-> [worker |-> "none", helper |-> "none",
                                           current |-> "NotRequired", retiring |-> "NotRequired"]]
    /\ ctor = [c \in Connections |-> [pc |-> "new", owns_start |-> FALSE, published |-> FALSE]]
    /\ hlp = [c \in Connections |-> [pc |-> "none", panicked |-> FALSE]]
    /\ wrk = [c \in Connections |-> "none"]
    /\ rpr = [c \in Connections |-> [pc |-> "none", joins |-> NoOne]]

Ctor(c, pc) == ctor' = [ctor EXCEPT ![c].pc = pc]
Hlp(c, pc) == hlp' = [hlp EXCEPT ![c].pc = pc]
Rpr(g, pc) == rpr' = [rpr EXCEPT ![g].pc = pc]

-----------------------------------------------------------------------------
\* Registry::spawn, the constructor.
ReserveRecord(c) ==
    /\ ctor[c].pc = "new"
    /\ reservations' = reservations + 1
    /\ records' = records \cup {c}
    /\ Ctor(c, "spawn_helper")
    /\ UNCHANGED <<phase, current, retiring, recovering_current, recovering_retiring, start, entered,
                   cancelled, rec, completion, hlp, wrk, rpr>>

\* Spawn and handoff_helper.
SpawnHelper(c, ok) ==
    /\ ctor[c].pc = "spawn_helper"
    /\ IF ok THEN /\ rec' = [rec EXCEPT ![c].helper = TRUE, ![c].helper_started = TRUE]
                  /\ Hlp(c, "entry") /\ Ctor(c, "await_helper")
       ELSE Ctor(c, "drop") /\ UNCHANGED <<rec, hlp>>
    /\ UNCHANGED <<registryVars, completion, wrk, rpr>>

AwaitHelper(c) ==
    /\ ctor[c].pc = "await_helper"
    /\ IF rec[c].helper_ready THEN Ctor(c, "ensure_reaper") /\ UNCHANGED rec
       ELSE /\ rec[c].helper_failed_start \/ (rec[c].helper /\ hlp[c].pc = "ended")
            /\ rec' = [rec EXCEPT ![c].helper_failed_start = TRUE]
            /\ Ctor(c, "drop")
    /\ UNCHANGED <<registryVars, completion, hlp, wrk, rpr>>

\* Mutant: begins a generation while another is starting or in recovery.
EnsureReaperEager(c) ==
    /\ ctor[c].pc = "ensure_reaper"
    /\ phase # "Running"
    /\ retiring' = current /\ current' = NoOne
    /\ phase' = "Starting" /\ start' = c
    /\ ctor' = [ctor EXCEPT ![c].pc = "spawn_reaper", ![c].owns_start = TRUE]
    /\ UNCHANGED <<records, reservations, recovering_current, recovering_retiring, entered,
                   cancelled, rec, completion, hlp, wrk, rpr>>

\* ensure_reaper: use the one that runs, or begin a generation; wait otherwise.
EnsureReaper(c) ==
    /\ ctor[c].pc = "ensure_reaper"
    /\ \/ /\ phase = "Running"
          /\ Ctor(c, "spawn_worker")
          /\ UNCHANGED <<phase, current, retiring, start>>
       \/ /\ phase = "Idle"
          /\ retiring' = current /\ current' = NoOne
          /\ phase' = "Starting" /\ start' = c
          /\ ctor' = [ctor EXCEPT ![c].pc = "spawn_reaper", ![c].owns_start = TRUE]
    /\ UNCHANGED <<records, reservations, recovering_current, recovering_retiring, entered,
                   cancelled, rec, completion, hlp, wrk, rpr>>

\* Spawn and handoff_reaper.
SpawnReaper(c, ok) ==
    /\ ctor[c].pc = "spawn_reaper"
    /\ IF ok THEN current' = c /\ Rpr(c, "entry") /\ Ctor(c, "await_reaper")
       ELSE Ctor(c, "drop") /\ UNCHANGED <<current, rpr>>
    /\ UNCHANGED <<phase, records, reservations, retiring, recovering_current,
                   recovering_retiring, start, entered, cancelled, rec, completion, hlp, wrk>>

AwaitReaper(c) ==
    /\ ctor[c].pc = "await_reaper"
    /\ IF c \in entered
       THEN /\ phase' = "Running"
            /\ ctor' = [ctor EXCEPT ![c].pc = "spawn_worker", ![c].owns_start = FALSE]
       ELSE rpr[c].pc = "ended" /\ Ctor(c, "drop") /\ UNCHANGED phase
    /\ UNCHANGED <<records, reservations, current, retiring, recovering_current,
                   recovering_retiring, start, entered, cancelled, rec, completion, hlp, wrk, rpr>>

\* Spawn and handoff_worker.
SpawnWorker(c, ok) ==
    /\ ctor[c].pc = "spawn_worker"
    /\ IF ok THEN /\ wrk' = [wrk EXCEPT ![c] = "entry"]
                  /\ rec' = [rec EXCEPT ![c].assignment = "Worker"]
                  /\ Ctor(c, "await_worker")
       ELSE Ctor(c, "drop") /\ UNCHANGED <<wrk, rec>>
    /\ UNCHANGED <<registryVars, completion, hlp, rpr>>

AwaitWorker(c) ==
    /\ ctor[c].pc = "await_worker"
    /\ rec[c].worker_ready \/ rec[c].worker_failed_start
    /\ ctor' = [ctor EXCEPT ![c].pc = "drop", ![c].published = rec[c].worker_ready]
    /\ UNCHANGED <<registryVars, rec, completion, hlp, wrk, rpr>>

\* A panic between two steps; Drop's handoffs are those made at the spawns.
ConstructorUnwind(c) ==
    /\ c \in Faulty /\ ctor[c].pc \notin {"new", "drop", "done"}
    /\ Ctor(c, "drop")
    /\ UNCHANGED <<registryVars, rec, completion, hlp, wrk, rpr>>

-----------------------------------------------------------------------------
\* Drop for Constructor, under both mutexes.
Recovers(c) == ~ctor[c].published /\ ctor[c].owns_start /\ current # NoOne
GivesUpStart(c) == ~ctor[c].published /\ ctor[c].owns_start /\ current = NoOne

DropRegistry(c) ==
    /\ phase' = CASE Recovers(c) -> "Recovering" [] GivesUpStart(c) -> "Idle" [] OTHER -> phase
    /\ current' = CASE Recovers(c) -> NoOne [] GivesUpStart(c) -> retiring [] OTHER -> current
    /\ retiring' = IF Recovers(c) \/ GivesUpStart(c) THEN NoOne ELSE retiring
    /\ start' = IF GivesUpStart(c) THEN NoOne ELSE start
    /\ cancelled' = IF Recovers(c) \/ GivesUpStart(c) THEN cancelled \cup {start} ELSE cancelled
    /\ recovering_current' = (recovering_current \/ Recovers(c))
    /\ recovering_retiring' = IF Recovers(c) THEN retiring # NoOne ELSE recovering_retiring
    /\ reservations' = reservations - 1
    /\ records' = IF rec[c].helper_started THEN records ELSE records \ {c}
    /\ UNCHANGED entered

DropRecord(c) ==
    /\ rec' = [rec EXCEPT ![c] =
            IF Recovers(c)
            THEN [@ EXCEPT !.assignment = "Recovery", !.current = current, !.retiring = retiring]
            ELSE IF ~ctor[c].published /\ @.assignment = "Waiting"
            THEN [@ EXCEPT !.assignment = "Abandoned"] ELSE @]
    /\ completion' = [completion EXCEPT ![c] =
            IF Recovers(c)
            THEN [@ EXCEPT !.current = "Pending",
                           !.retiring = IF retiring = NoOne THEN "NotRequired" ELSE "Pending"]
            ELSE @]

DropConstructor(c) ==
    /\ ctor[c].pc = "drop"
    /\ DropRegistry(c)
    /\ DropRecord(c)
    /\ Ctor(c, "done")
    /\ UNCHANGED <<hlp, wrk, rpr>>

-----------------------------------------------------------------------------
\* The notification worker: Ready::mark, or an end before it; then its end.
WorkerReady(c) ==
    /\ wrk[c] = "entry"
    /\ wrk' = [wrk EXCEPT ![c] = "ready"]
    /\ rec' = [rec EXCEPT ![c].worker_ready = TRUE]
    /\ UNCHANGED <<registryVars, completion, ctor, hlp, rpr>>

WorkerEnd(c) ==
    /\ wrk[c] = "ready" \/ (c \in Faulty /\ wrk[c] = "entry")
    /\ wrk' = [wrk EXCEPT ![c] = "ended"]
    /\ UNCHANGED <<registryVars, rec, completion, ctor, hlp, rpr>>

-----------------------------------------------------------------------------
\* The helper thread.  It may end before helper_assignment makes it ready.
HelperReady(c) ==
    /\ hlp[c].pc = "entry"
    /\ rec' = [rec EXCEPT ![c].helper_ready = TRUE]
    /\ Hlp(c, "assignment")
    /\ UNCHANGED <<registryVars, completion, ctor, wrk, rpr>>

HelperFailsStart(c) ==
    /\ c \in Faulty /\ hlp[c].pc = "entry"
    /\ hlp' = [hlp EXCEPT ![c] = [pc |-> "ended", panicked |-> TRUE]]
    /\ UNCHANGED <<registryVars, rec, completion, ctor, wrk, rpr>>

TakeAssignment(c) ==
    /\ hlp[c].pc = "assignment"
    /\ rec[c].assignment # "Waiting"
    /\ rec' = [rec EXCEPT ![c].assignment = "Taken"]
    /\ Hlp(c, CASE rec[c].assignment = "Worker" -> "watch"
                [] rec[c].assignment = "Abandoned" -> "leave"
                [] rec[c].assignment = "Recovery" -> "recover_current"
                [] OTHER -> "unreachable")
    /\ UNCHANGED <<registryVars, completion, ctor, wrk, rpr>>

\* Mutants: a worker that never became ready is not reported; the join is
\* skipped because the worker is ready.
WatchWorkerSilently(c) ==
    /\ hlp[c].pc = "watch"
    /\ rec[c].worker_ready \/ wrk[c] = "ended"
    /\ Hlp(c, "join")
    /\ UNCHANGED <<registryVars, rec, completion, ctor, wrk, rpr>>
WatchWorkerOnly(c) ==
    /\ hlp[c].pc = "watch"
    /\ rec[c].worker_ready
    /\ Hlp(c, "complete")
    /\ UNCHANGED <<registryVars, rec, completion, ctor, wrk, rpr>>

WatchWorker(c) ==
    /\ hlp[c].pc = "watch"
    /\ rec[c].worker_ready \/ wrk[c] = "ended"
    /\ rec' = [rec EXCEPT ![c].worker_failed_start = @ \/ ~rec[c].worker_ready]
    /\ Hlp(c, "join")
    /\ UNCHANGED <<registryVars, completion, ctor, wrk, rpr>>

\* AssignedWorker's Drop puts the handle back; helper() calls again.
HelperUnwind(c) ==
    /\ c \in Faulty /\ hlp[c].pc = "join" /\ ~hlp[c].panicked
    /\ rec' = [rec EXCEPT ![c].assignment = "Worker"]
    /\ hlp' = [hlp EXCEPT ![c] = [pc |-> "assignment", panicked |-> TRUE]]
    /\ UNCHANGED <<registryVars, completion, ctor, wrk, rpr>>

JoinWorker(c) ==
    /\ hlp[c].pc = "join"
    /\ wrk[c] = "ended"
    /\ wrk' = [wrk EXCEPT ![c] = "joined"]
    /\ Hlp(c, "complete")
    /\ UNCHANGED <<registryVars, rec, completion, ctor, rpr>>

CompleteWorker(c) ==
    /\ hlp[c].pc = "complete"
    /\ completion' = [completion EXCEPT ![c].worker = "outcome"]
    /\ Hlp(c, "leave")
    /\ UNCHANGED <<registryVars, rec, ctor, wrk, rpr>>

HelperEnd(c) ==
    /\ hlp[c].pc = "leave"
    /\ Hlp(c, "ended")
    /\ UNCHANGED <<registryVars, rec, completion, ctor, wrk, rpr>>

-----------------------------------------------------------------------------
\* recover: join the reaper that was starting, then the one it replaced.
RecoverCurrent(c) ==
    /\ hlp[c].pc = "recover_current"
    /\ rpr[rec[c].current].pc = "ended"
    /\ Rpr(rec[c].current, "joined")
    /\ completion' = [completion EXCEPT ![c].current = "Joined"]
    /\ recovering_current' = FALSE
    /\ Hlp(c, "recover_retiring")
    /\ UNCHANGED <<phase, records, reservations, current, retiring, recovering_retiring, start,
                   entered, cancelled, rec, ctor, wrk>>

RecoverRetiring(c) ==
    LET g == rec[c].retiring IN
    /\ hlp[c].pc = "recover_retiring"
    /\ IF g = NoOne THEN UNCHANGED <<rpr, completion, recovering_retiring>>
       ELSE /\ rpr[g].pc = "ended"
            /\ Rpr(g, "joined")
            /\ completion' = [completion EXCEPT ![c].retiring = "Joined"]
            /\ recovering_retiring' = FALSE
    /\ Hlp(c, "recovered")
    /\ UNCHANGED <<phase, records, reservations, current, retiring, recovering_current, start,
                   entered, cancelled, rec, ctor, wrk>>

RecoverEnd(c) ==
    /\ hlp[c].pc = "recovered"
    /\ phase' = "Idle" /\ start' = NoOne
    /\ Hlp(c, "leave")
    /\ UNCHANGED <<records, reservations, current, retiring, recovering_current,
                   recovering_retiring, entered, cancelled, rec, completion, ctor, wrk, rpr>>

-----------------------------------------------------------------------------
\* reap.  The thread may end before it stores entered.
ReaperEnter(g) ==
    /\ rpr[g].pc = "entry"
    /\ entered' = entered \cup {g}
    /\ Rpr(g, "wait")
    /\ UNCHANGED <<phase, records, reservations, current, retiring, recovering_current,
                   recovering_retiring, start, cancelled, rec, completion, ctor, hlp, wrk>>

ReaperFailsStart(g) ==
    /\ g \in Faulty /\ rpr[g].pc = "entry"
    /\ Rpr(g, "ended")
    /\ UNCHANGED <<registryVars, rec, completion, ctor, hlp, wrk>>

ReaperBegin(g) ==
    /\ rpr[g].pc = "wait"
    /\ phase # "Starting" \/ g \in cancelled
    /\ Rpr(g, IF g \in cancelled THEN "exit" ELSE "loop")
    /\ UNCHANGED <<registryVars, rec, completion, ctor, hlp, wrk>>

Finished == {c \in records : rec[c].helper /\ hlp[c].pc = "ended"}
RetiringFinished == retiring # NoOne /\ rpr[retiring].pc = "ended"

ReapHelper(g, c) ==
    /\ rpr[g].pc = "loop"
    /\ c \in Finished
    /\ rec' = [rec EXCEPT ![c].helper = FALSE, ![c].helper_joining = TRUE,
                          ![c].helper_failed_start = @ \/ ~rec[c].helper_ready]
    /\ rpr' = [rpr EXCEPT ![g] = [pc |-> "join_helper", joins |-> c]]
    /\ UNCHANGED <<registryVars, completion, ctor, hlp, wrk>>

JoinHelper(g) ==
    LET c == rpr[g].joins IN
    /\ rpr[g].pc = "join_helper"
    /\ Hlp(c, "joined")
    /\ completion' = [completion EXCEPT ![c].helper = IF hlp[c].panicked THEN "Panicked" ELSE "Ok"]
    /\ Rpr(g, "remove")
    /\ UNCHANGED <<registryVars, rec, ctor, wrk>>

RemoveRecord(g) ==
    LET c == rpr[g].joins IN
    /\ rpr[g].pc = "remove"
    /\ rec' = [rec EXCEPT ![c].helper_joining = FALSE]
    /\ records' = records \ {c}
    /\ rpr' = [rpr EXCEPT ![g] = [pc |-> "loop", joins |-> NoOne]]
    /\ UNCHANGED <<phase, reservations, current, retiring, recovering_current, recovering_retiring,
                   start, entered, cancelled, completion, ctor, hlp, wrk>>

ReapRetiring(g) ==
    /\ rpr[g].pc = "loop"
    /\ Finished = {}
    /\ RetiringFinished
    /\ retiring' = NoOne /\ recovering_retiring' = TRUE
    /\ rpr' = [rpr EXCEPT ![g] = [pc |-> "join_retiring", joins |-> retiring]]
    /\ UNCHANGED <<phase, records, reservations, current, recovering_current, start, entered,
                   cancelled, rec, completion, ctor, hlp, wrk>>

JoinRetiring(g) ==
    /\ rpr[g].pc = "join_retiring"
    /\ rpr' = [rpr EXCEPT ![rpr[g].joins].pc = "joined", ![g] = [pc |-> "loop", joins |-> NoOne]]
    /\ recovering_retiring' = FALSE
    /\ UNCHANGED <<phase, records, reservations, current, retiring, recovering_current, start,
                   entered, cancelled, rec, completion, ctor, hlp, wrk>>

\* Mutant: retires with records left.
MayRetireUnreserved == reservations = 0 /\ retiring = NoOne

MayRetire == records = {} /\ reservations = 0 /\ retiring = NoOne

Retire(g) ==
    /\ rpr[g].pc = "loop"
    /\ MayRetire
    /\ phase' = "Idle" /\ start' = NoOne
    /\ Rpr(g, "exit")
    /\ UNCHANGED <<records, reservations, current, retiring, recovering_current,
                   recovering_retiring, entered, cancelled, rec, completion, ctor, hlp, wrk>>

ReaperEnd(g) ==
    /\ rpr[g].pc = "exit"
    /\ Rpr(g, "ended")
    /\ UNCHANGED <<registryVars, rec, completion, ctor, hlp, wrk>>

-----------------------------------------------------------------------------
ConstructorStep(c) ==
    \/ \E ok \in {TRUE, c \notin Faulty} : SpawnHelper(c, ok) \/ SpawnReaper(c, ok) \/ SpawnWorker(c, ok)
    \/ AwaitHelper(c) \/ EnsureReaper(c) \/ AwaitReaper(c) \/ AwaitWorker(c) \/ DropConstructor(c)

HelperStep(c) ==
    \/ HelperReady(c) \/ HelperFailsStart(c) \/ TakeAssignment(c) \/ WatchWorker(c)
    \/ HelperUnwind(c) \/ JoinWorker(c) \/ CompleteWorker(c) \/ HelperEnd(c)
    \/ RecoverCurrent(c) \/ RecoverRetiring(c) \/ RecoverEnd(c)

ReaperStep(g) ==
    \/ ReaperEnter(g) \/ ReaperFailsStart(g) \/ ReaperBegin(g) \/ JoinHelper(g)
    \/ (\E c \in Connections : ReapHelper(g, c)) \/ RemoveRecord(g)
    \/ ReapRetiring(g) \/ JoinRetiring(g) \/ Retire(g) \/ ReaperEnd(g)

RegistryNext == \E c \in Connections :
    \/ ReserveRecord(c) \/ ConstructorStep(c) \/ ConstructorUnwind(c)
    \/ WorkerReady(c) \/ WorkerEnd(c) \/ HelperStep(c) \/ ReaperStep(c)

RegistrySpec == RegistryInit /\ [][RegistryNext]_wVars

\* Threads are scheduled; a worker that was started becomes ready or ends.
RegistryLive ==
    /\ RegistrySpec
    /\ \A c \in Connections :
        /\ WF_wVars(ConstructorStep(c)) /\ WF_wVars(HelperStep(c)) /\ WF_wVars(ReaperStep(c))
        /\ WF_wVars(wrk[c] = "entry" /\ (WorkerReady(c) \/ WorkerEnd(c)))

-----------------------------------------------------------------------------
Maybe == Connections \cup {NoOne}

\* Every variable has its type.
RegistryTypeOK ==
    /\ phase \in {"Idle", "Starting", "Running", "Recovering"}
    /\ records \subseteq Connections /\ reservations \in 0 .. Cardinality(Connections)
    /\ current \in Maybe /\ retiring \in Maybe /\ start \in Maybe
    /\ recovering_current \in BOOLEAN /\ recovering_retiring \in BOOLEAN
    /\ entered \subseteq Connections /\ cancelled \subseteq Connections
    /\ \A c \in Connections :
        /\ DOMAIN rec[c] = DOMAIN NewRecord
        /\ rec[c].assignment \in {"Waiting", "Worker", "Abandoned", "Recovery", "Taken"}
        /\ hlp[c].pc \in {"none", "entry", "assignment", "watch", "join", "complete", "leave",
                          "recover_current", "recover_retiring", "recovered", "ended", "joined"}

\* The assertions of Constructor, ensure_reaper, recover, reap and publish
\* hold wherever they are reached: a start has one owner, an idle registry
\* has nobody retiring, a recovery ends with every reaper joined, and no
\* completion is published twice.
AssertionsHold ==
    \A c \in Connections :
        LET at == ctor[c].pc IN
        /\ at = "ensure_reaper" /\ phase = "Idle" =>
            retiring = NoOne /\ ~recovering_current /\ ~recovering_retiring
        /\ at = "spawn_reaper" => phase = "Starting" /\ current = NoOne /\ start = c
        /\ at = "await_reaper" => current = c
        /\ at = "spawn_worker" => rec[c].assignment = "Waiting"
        /\ at = "drop" => /\ reservations > 0
                          /\ rec[c].helper_ready => rec[c].helper_started
                          /\ ctor[c].owns_start => phase = "Starting" /\ start = c
                          /\ Recovers(c) => rec[c].helper_ready /\ rec[c].assignment = "Waiting"
        /\ hlp[c].pc = "recovered" =>
            /\ phase = "Recovering" /\ current = NoOne /\ retiring = NoOne
            /\ ~recovering_current /\ ~recovering_retiring
        /\ hlp[c].pc = "complete" => completion[c].worker = "none"
        /\ rpr[c].pc = "loop" =>
            phase = "Running" /\ (MayRetire => ~recovering_current /\ ~recovering_retiring)
        /\ rpr[c].pc = "join_helper" => completion[rpr[c].joins].helper = "none"

\* Who holds the join handle of reaper g.
Owners(g) ==
    {w \in {"current"} : current = g} \cup {w \in {"retiring"} : retiring = g}
    \cup {<<"recovery", c>> : c \in {d \in Connections :
            \/ rec[d].current = g /\ (rec[d].assignment = "Recovery" \/ hlp[d].pc = "recover_current")
            \/ rec[d].retiring = g /\ (rec[d].assignment = "Recovery"
                                       \/ hlp[d].pc \in {"recover_current", "recover_retiring"})}}
    \cup {<<"reaper", h>> : h \in {r \in Connections : rpr[r].pc = "join_retiring" /\ rpr[r].joins = g}}

\* No thread is detached and none is joined twice, whatever fails: the handle
\* of every started reaper has exactly one holder until its join; that of a
\* helper is in its record, which stays in the registry; and no helper ends
\* before its worker was joined.
NoHandleLost ==
    \A c \in Connections :
        /\ Cardinality(Owners(c)) = (IF rpr[c].pc \in {"none", "joined"} THEN 0 ELSE 1)
        /\ hlp[c].pc \notin {"none", "joined"} => c \in records /\ rec[c].helper # rec[c].helper_joining
        /\ hlp[c].pc \in {"ended", "joined"} => wrk[c] \in {"none", "joined"}

Reaping == {"wait", "loop", "join_helper", "remove", "join_retiring"}

\* A connection handed to its caller has a reaper that will not retire before
\* its helper has been joined, and never two that would join the same one.
PublishedIsAttended ==
    /\ \A c \in Connections : ctor[c].published /\ hlp[c].pc # "joined" =>
        phase = "Running" /\ current # NoOne /\ rpr[current].pc \in Reaping
    /\ \A g, h \in Connections :
        rpr[g].pc \in Reaping \ {"wait"} /\ rpr[h].pc \in Reaping \ {"wait"} => g = h

\* MappedCompletion tells the truth: result() only after the worker's join,
\* helper_result() only after the helper's and after result(), and Joined
\* of reaper_recovery() only after that reaper's.
ObservationsAreTrue ==
    \A c \in Connections :
        /\ completion[c].worker # "none" => wrk[c] = "joined"
        /\ completion[c].helper # "none" =>
            hlp[c].pc = "joined" /\ (wrk[c] # "none" => completion[c].worker # "none")
        /\ completion[c].current = "Joined" => rpr[c].pc = "joined"
        /\ completion[c].retiring = "Joined" => rpr[rec[c].retiring].pc = "joined"

\* The registry owns every thread it started: AssertionsHold, NoHandleLost and
\* ObservationsAreTrue, and the types.
RegistrySafe == RegistryTypeOK /\ AssertionsHold /\ NoHandleLost /\ ObservationsAreTrue

\* Registry::spawn returns to its caller, with a stream or an error: no
\* constructor waits for ever on a thread that ended or on another's start.
ConstructorsReturn ==
    \A c \in Connections : ctor[c].pc # "new" ~> ctor[c].pc = "done"

\* The worker of a published stream, once it ended, is joined and so is its
\* helper: both observations arrive.
WorkersAreReclaimed ==
    \A c \in Connections :
        ctor[c].published /\ wrk[c] = "ended" ~> completion[c].helper # "none"

=============================================================================
