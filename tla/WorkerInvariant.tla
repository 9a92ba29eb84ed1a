--------------------------- MODULE WorkerInvariant ---------------------------
(***************************************************************************)
(* The inductive invariant of WorkerRegistry, and what a step keeps of it. *)
(* It says, for each pc of a constructor, a helper, a worker and a reaper, *)
(* what their record and the registry hold.                                *)
(***************************************************************************)
EXTENDS WorkerRegistry

CtorPcs == {"new", "spawn_helper", "await_helper", "ensure_reaper", "spawn_reaper", "await_reaper",
            "spawn_worker", "await_worker", "drop", "done"}
HlpPcs == {"none", "entry", "assignment", "watch", "join", "complete", "leave",
           "recover_current", "recover_retiring", "recovered", "ended", "joined"}
RprPcs == {"none", "entry", "wait", "loop", "join_helper", "remove", "join_retiring", "exit",
           "ended", "joined"}
Assignments == {"Waiting", "Worker", "Abandoned", "Recovery", "Taken"}

RegistryOK ==
    /\ phase \in {"Idle", "Starting", "Running", "Recovering"}
    /\ records \subseteq Connections
    /\ current \in Maybe /\ retiring \in Maybe /\ start \in Maybe
    /\ recovering_current \in BOOLEAN /\ recovering_retiring \in BOOLEAN
    /\ entered \subseteq Connections /\ cancelled \subseteq Connections

Records == [helper : BOOLEAN, helper_joining : BOOLEAN, helper_started : BOOLEAN,
            helper_ready : BOOLEAN, helper_failed_start : BOOLEAN, worker_ready : BOOLEAN,
            worker_failed_start : BOOLEAN, assignment : Assignments,
            current : Maybe, retiring : Maybe]
Completions == [worker : {"none", "outcome"}, helper : {"none", "Ok", "Panicked"},
                current : {"NotRequired", "Pending", "Joined"},
                retiring : {"NotRequired", "Pending", "Joined"}]

CtorOK == ctor \in [Connections -> [pc : CtorPcs, owns_start : BOOLEAN, published : BOOLEAN]]
HlpOK == hlp \in [Connections -> [pc : HlpPcs, panicked : BOOLEAN]]
WrkOK == wrk \in [Connections -> {"none", "entry", "ready", "ended", "joined"}]
RprOK == rpr \in [Connections -> [pc : RprPcs, joins : Maybe]]
RecOK == rec \in [Connections -> Records]
CompletionOK == completion \in [Connections -> Completions]

Owning(c) == ctor[c].owns_start /\ ctor[c].pc # "done"

ConstructorOK(c) ==
    LET at == ctor[c].pc IN
    /\ at \in {"new", "spawn_helper"} => ~rec[c].helper_started
    /\ at \notin {"await_worker", "drop", "done"} => rec[c].assignment = "Waiting" /\ wrk[c] = "none"
    /\ at \in {"ensure_reaper", "spawn_reaper", "await_reaper", "spawn_worker", "await_worker"} => rec[c].helper_ready
    /\ at \in {"spawn_reaper", "await_reaper"} => ctor[c].owns_start
    /\ at \notin {"drop", "done"} => ~ctor[c].published
    /\ Owning(c) =>
        /\ at \in {"spawn_reaper", "await_reaper", "drop"}
        /\ ~ctor[c].published /\ rec[c].helper_ready /\ rec[c].assignment = "Waiting"
    /\ ctor[c].published => rec[c].helper_ready

HelperOK(c) ==
    LET at == hlp[c].pc IN
    /\ rec[c].helper_started <=> at # "none"
    /\ ~rec[c].helper_ready => at \in {"none", "entry", "ended", "joined"} /\ rec[c].assignment \in {"Waiting", "Abandoned"}
    /\ rec[c].helper_ready => at \notin {"none", "entry"} /\ (at = "assignment" <=> rec[c].assignment # "Taken")
    /\ at \in {"none", "joined"} => ~rec[c].helper
    /\ rec[c].helper_joining => at \in {"ended", "joined"}
    /\ at \notin {"none", "joined"} => (rec[c].helper <=> ~rec[c].helper_joining)
    /\ at = "joined" <=> completion[c].helper # "none"

WorkerOK(c) ==
    LET at == hlp[c].pc IN
    /\ rec[c].assignment = "Worker" \/ at \in {"watch", "join"} <=> wrk[c] \in {"entry", "ready", "ended"}
    /\ at = "complete" => wrk[c] = "joined"
    /\ completion[c].worker # "none" <=> wrk[c] = "joined" /\ at # "complete"

HoldsStarting(c) == rec[c].assignment = "Recovery" \/ hlp[c].pc = "recover_current"
HoldsReplaced(c) == HoldsStarting(c) \/ hlp[c].pc = "recover_retiring"
UnderWay(c) == HoldsReplaced(c) \/ hlp[c].pc = "recovered"
Retired(g) == rpr[g].pc \in {"exit", "ended"}

\* The registry's phase tells where the one reaper is that was started last,
\* and that the one it replaces, if any, has retired.
OneGeneration ==
    /\ phase = "Idle" => start = NoOne /\ retiring = NoOne /\ (current # NoOne => Retired(current))
    /\ phase # "Idle" => start \in Connections
    /\ phase = "Starting" =>
        /\ Owning(start) /\ start \notin cancelled
        /\ \/ current = NoOne /\ rpr[start].pc = "none"
           \/ current = start /\ rpr[start].pc \in {"entry", "wait", "ended"}
              /\ (rpr[start].pc = "ended" => start \notin entered)
    /\ phase = "Running" => current = start /\ rpr[start].pc \in Reaping /\ start \notin cancelled
    /\ phase = "Recovering" =>
        /\ current = NoOne /\ retiring = NoOne /\ start \in cancelled /\ UnderWay(start)
        /\ HoldsStarting(start) => rpr[start].pc \in {"entry", "wait", "exit", "ended"}
        /\ HoldsReplaced(start) /\ rec[start].retiring # NoOne =>
            rec[start].retiring \in Connections \ {start} /\ Retired(rec[start].retiring)
    /\ retiring # NoOne => retiring \in Connections \ {current} /\ Retired(retiring)
    /\ recovering_current <=> phase = "Recovering" /\ HoldsStarting(start)
    /\ recovering_retiring <=> \/ phase = "Recovering" /\ HoldsReplaced(start) /\ rec[start].retiring # NoOne
                               \/ phase = "Running" /\ rpr[start].pc = "join_retiring"

Held(g) ==
    \/ g \in {current, retiring}
    \/ phase = "Recovering" /\ HoldsStarting(start) /\ g = start
    \/ phase = "Recovering" /\ HoldsReplaced(start) /\ g = rec[start].retiring
    \/ phase = "Running" /\ rpr[start].pc = "join_retiring" /\ g = rpr[start].joins

InPhase(c) ==
    LET at == ctor[c].pc IN
    /\ Owning(c) => phase = "Starting" /\ start = c
    /\ at = "spawn_reaper" => current = NoOne
    /\ at = "await_reaper" => current = c
    /\ at \in {"new", "spawn_helper", "await_helper", "ensure_reaper", "spawn_reaper"} =>
        rpr[c].pc = "none"
    /\ at \in {"spawn_worker", "await_worker"} \/ (ctor[c].published /\ hlp[c].pc # "joined") =>
        phase = "Running"
    /\ UnderWay(c) => phase = "Recovering" /\ start = c /\ rec[c].current = c
    /\ c \in cancelled => ctor[c].pc = "done"

ReaperOK(c) ==
    /\ rpr[c].pc \in Reaping \ {"wait"} => phase = "Running" /\ start = c
    /\ rpr[c].pc \notin {"none", "joined"} => Held(c)
    /\ c \in entered => rpr[c].pc \notin {"none", "entry"}
    /\ completion[c].current = "Joined" => rpr[c].pc = "joined"
    /\ completion[c].retiring = "Joined" =>
        rec[c].retiring \in Connections /\ rpr[rec[c].retiring].pc = "joined"

Joins ==
    /\ phase = "Running" /\ rpr[start].pc = "join_retiring" =>
        rpr[start].joins \in Connections /\ rpr[rpr[start].joins].pc = "ended" /\ retiring = NoOne
    /\ phase = "Running" /\ rpr[start].pc \in {"join_helper", "remove"} =>
        /\ rpr[start].joins \in Connections /\ rec[rpr[start].joins].helper_joining
        /\ hlp[rpr[start].joins].pc = (IF rpr[start].pc = "remove" THEN "joined" ELSE "ended")
    /\ \A c \in Connections : rec[c].helper_joining =>
        phase = "Running" /\ rpr[start].pc \in {"join_helper", "remove"} /\ rpr[start].joins = c

\* The constructors that hold a reservation.
Constructing == {c \in Connections : ctor[c].pc \notin {"new", "done"}}

\* The record of a helper that may still be joined is in the registry.
Kept(c) == ctor[c].pc = "spawn_helper" \/ hlp[c].pc \notin {"none", "joined"} => c \in records

LocalOK(c) == ConstructorOK(c) /\ HelperOK(c) /\ WorkerOK(c) /\ Kept(c)

TablesOK == CtorOK /\ HlpOK /\ WrkOK /\ RprOK /\ RecOK /\ CompletionOK

WorkersInv ==
    /\ RegistryOK /\ TablesOK
    /\ \A c \in Connections : LocalOK(c) /\ InPhase(c) /\ ReaperOK(c)
    /\ OneGeneration /\ Joins

-----------------------------------------------------------------------------
(* What a step keeps. *)

SameHelper(c) ==
    /\ rec'[c].helper = rec[c].helper /\ rec'[c].helper_joining = rec[c].helper_joining
    /\ rec'[c].helper_started = rec[c].helper_started /\ rec'[c].helper_ready = rec[c].helper_ready
SameRecovery(c) == rec'[c].current = rec[c].current /\ rec'[c].retiring = rec[c].retiring
\* All but the flags only a constructor waits for.
SameFields(c) == SameHelper(c) /\ SameRecovery(c) /\ rec'[c].assignment = rec[c].assignment
OtherRecords(c) == \A d \in Connections \ {c} : rec'[d] = rec[d]
OtherCompletions(c) == \A d \in Connections \ {c} : completion'[d] = completion[d]

Same(d) ==
    /\ ctor'[d] = ctor[d] /\ hlp'[d] = hlp[d] /\ wrk'[d] = wrk[d] /\ rec'[d] = rec[d]
    /\ completion'[d] = completion[d] /\ (d \in records => d \in records')
Apart(c) == \A d \in Connections \ {c} : Same(d)

generationVars == <<phase, current, retiring, recovering_current, recovering_retiring, start,
                    entered, cancelled, rpr>>

\* What the generation of reapers sees of connection c.
Quiet(c) ==
    /\ UNCHANGED generationVars
    /\ Owning(c)' <=> Owning(c)
    /\ HoldsStarting(c)' <=> HoldsStarting(c)
    /\ HoldsReplaced(c)' <=> HoldsReplaced(c)
    /\ UnderWay(c)' <=> UnderWay(c)
    /\ SameRecovery(c) /\ rec'[c].helper_joining = rec[c].helper_joining
    /\ hlp[c].pc \in {"ended", "joined"} => hlp'[c].pc = hlp[c].pc
    /\ completion'[c].current = completion[c].current
    /\ completion'[c].retiring = completion[c].retiring

\* A step of connection c that leaves the generation alone.
Calm(c) == TablesOK' /\ Apart(c) /\ LocalOK(c)' /\ InPhase(c)' /\ Quiet(c)

\* All of the invariant but the types of the registry's own fields.
Settled ==
    /\ TablesOK' /\ OneGeneration' /\ Joins'
    /\ \A d \in Connections : LocalOK(d)' /\ InPhase(d)' /\ ReaperOK(d)'

=============================================================================
