----------------------------- MODULE RpcServer ------------------------------
(***************************************************************************)
(* The coordinator's RPC server (reverie-rpc-transport/src/server.rs): the *)
(* serving loop that accepts, spawns one task per connection, joins them   *)
(* and aborts them at shutdown; the connection task; and the three records *)
(* kept across tasks: RequestCancellation, RpcIssueMonitor and the tool    *)
(* activation run.                                                         *)
(*                                                                         *)
(* A task's step is what it does between two awaits.  Frames are reduced   *)
(* to their kind, and the handshake and the config and state frames of a   *)
(* connection's start are one write.                                       *)
(***************************************************************************)
EXTENDS ToolActivation, FiniteSets, Sequences

CONSTANTS Configurations, \* the sets of options a server is started with
          IssueCap,       \* 64 reservations of RpcIssueMonitor
          OutcomeCap      \* 64 outcomes of RequestCancellation

\* "strict" is native-successor admission: every sender is checked.
ASSUME OptionsAssumption ==
    Configurations \subseteq
        SUBSET {"activation", "admission", "cancellation", "issues", "strict"}
ASSUME CapsAssumption == IssueCap \in Nat /\ OutcomeCap \in Nat
ASSUME NamesAssumption == IsFiniteSet(Conns) /\ NoConn \notin Conns /\ NoPid \notin Pids

VARIABLES
    options,    \* those of this server, set when it is built
    srv,        \* the loop: "head", "polled" (in its select), "aborting", "stopped"
    accepting,
    serveErr,   \* it ended with an error
    task,       \* each connection's task
    process,    \* RequestCancellation: the process whose requests are cancelled,
    joined, idle, overflow, drained,
    midpoll,    \* tasks that were past their check when that was published
    issues, reserved, planned,    \* RpcIssueMonitor
    acks,       \* history: acknowledgements written on each connection
    receipt     \* history: completed() has been Ok

cancelVars == <<process, joined, idle, overflow, drained>>
issueVars == <<issues, reserved>>
loopVars == <<srv, accepting, serveErr>>
serverVars == <<activationVars, loopVars, task, cancelVars, midpoll, issueVars, planned,
                acks, receipt>>

HasActivation == "activation" \in options
HasAdmission == "admission" \in options
HasCancellation == "cancellation" \in options
HasIssues == "issues" \in options
Strict == "strict" \in options

NoTask == [st |-> "none", pid |-> NoPid, asked |-> FALSE, control |-> "none", out |-> "none"]
InFlight == {"dispatched", "handling", "replying"}
Awaiting == InFlight \cup {"config", "reading", "acking", "capturing"}
Live(c) == task[c].st \in Awaiting \cup {"spawned"}

ServerInit ==
    /\ options \in Configurations
    /\ ActivationInit
    /\ srv = "head" /\ accepting = TRUE /\ serveErr = FALSE
    /\ task = [c \in Conns |-> NoTask]
    /\ process = NoPid /\ joined = {} /\ idle = {} /\ overflow = FALSE /\ drained = FALSE
    /\ midpoll = {}
    /\ issues = {} /\ reserved = 0 /\ planned = FALSE
    /\ acks = [c \in Conns |-> <<>>] /\ receipt = FALSE

-----------------------------------------------------------------------------
\* The launcher: bind_root, RequestCancellation::request, planned_shutdown.
BindRoot(pid) ==
    /\ HasActivation
    /\ bind_root(pid)
    /\ UNCHANGED <<loopVars, task, cancelVars, midpoll, issueVars, planned, acks, receipt>>

RequestCancel(pid) ==
    /\ HasCancellation /\ process = NoPid
    /\ process' = pid
    /\ midpoll' \in SUBSET {c \in Conns : task[c].st \in Awaiting /\ task[c].pid = pid}
    /\ UNCHANGED <<activationVars, loopVars, task, joined, idle, overflow, drained, issueVars,
                   planned, acks, receipt>>

PlanShutdown ==
    /\ HasIssues /\ ~planned
    /\ planned' = TRUE
    /\ UNCHANGED <<activationVars, loopVars, task, cancelVars, midpoll, issueVars, acks, receipt>>

-----------------------------------------------------------------------------
\* Mutant: an empty set of tasks is drained, accepting or not.
PollLoopDrainedWhenEmpty ==
    /\ srv = "head"
    /\ drained' = (drained \/ (HasCancellation /\ ~\E c \in Conns : Live(c) \/ task[c].st = "ended"))
    /\ IF accepting /\ process # NoPid THEN accepting' = FALSE /\ UNCHANGED srv
                                       ELSE srv' = "polled" /\ UNCHANGED accepting
    /\ UNCHANGED <<activationVars, serveErr, task, process, joined, idle, overflow, midpoll,
                   issueVars, planned, acks, receipt>>

\* The head of the loop: report an empty JoinSet once accepts have stopped,
\* then poll: the cancellation intent is looked at before the listener.
PollLoop ==
    /\ srv = "head"
    /\ drained' = (drained \/ (/\ HasCancellation /\ ~accepting
                               /\ ~\E c \in Conns : Live(c) \/ task[c].st = "ended"))
    /\ IF accepting /\ process # NoPid THEN accepting' = FALSE /\ UNCHANGED srv
                                       ELSE srv' = "polled" /\ UNCHANGED accepting
    /\ UNCHANGED <<activationVars, serveErr, task, process, joined, idle, overflow, midpoll,
                   issueVars, planned, acks, receipt>>

\* The intent is published while the loop waits.
StopAccepting ==
    /\ srv = "polled" /\ accepting /\ process # NoPid
    /\ accepting' = FALSE /\ srv' = "head"
    /\ UNCHANGED <<activationVars, serveErr, task, cancelVars, midpoll, issueVars, planned,
                   acks, receipt>>

\* accept, reserve an issue slot (or end serving), spawn the task.
Accept(c, pid) ==
    /\ srv = "polled" /\ accepting
    /\ task[c].st = "none"
    /\ IF HasIssues /\ reserved = IssueCap
       THEN srv' = "aborting" /\ serveErr' = TRUE /\ UNCHANGED <<task, reserved>>
       ELSE /\ srv' = "head" /\ UNCHANGED serveErr
            /\ task' = [task EXCEPT ![c] = [NoTask EXCEPT !.st = "spawned", !.pid = pid]]
            /\ reserved' = IF HasIssues THEN reserved + 1 ELSE reserved
    /\ UNCHANGED <<activationVars, accepting, cancelVars, midpoll, issues, planned, acks, receipt>>

\* The listener fails, or the owner shuts down: both abort every task.
StopServing(err) ==
    /\ srv = "polled" /\ (err => accepting)
    /\ srv' = "aborting" /\ serveErr' = err
    /\ UNCHANGED <<activationVars, accepting, task, cancelVars, midpoll, issueVars, planned,
                   acks, receipt>>

\* Join an ended task; RequestCancellation::joined keeps a cancelled one's
\* outcome, or notes that it could not.
Join(c) ==
    /\ srv \in {"polled", "aborting"}
    /\ task[c].st = "ended"
    /\ task' = [task EXCEPT ![c].st = "joined"]
    /\ srv' = IF srv = "polled" THEN "head" ELSE srv
    /\ LET full == Cardinality(joined) + Cardinality(idle) = OutcomeCap
           out == task[c].out
       IN  /\ overflow' = (overflow \/ (out \in {"request", "idle"} /\ full))
           /\ joined' = IF out = "request" /\ ~full THEN joined \cup {c} ELSE joined
           /\ idle' = IF out = "idle" /\ ~full THEN idle \cup {c} ELSE idle
    /\ UNCHANGED <<activationVars, accepting, serveErr, process, drained, midpoll, issueVars,
                   planned, acks, receipt>>

\* Every task is joined; a serving error fails the activation run.
Stop ==
    /\ srv = "aborting"
    /\ \A c \in Conns : task[c].st \in {"none", "joined"}
    /\ srv' = "stopped"
    /\ phase' = IF HasActivation /\ serveErr THEN Failed ELSE phase
    /\ UNCHANGED <<root, applications, accepting, serveErr, task, cancelVars, midpoll,
                   issueVars, planned, acks, receipt>>

-----------------------------------------------------------------------------

\* A task's step leaves the loop and the launcher's records alone.
TaskStep(c) ==
    /\ midpoll' = midpoll \ {c}
    /\ UNCHANGED <<root, loopVars, cancelVars, planned>>

\* connection_io and the dispatch look for the intent before they poll.
Cancelled(c) == HasCancellation /\ HasAdmission /\ process = task[c].pid
Polls(c) == ~Cancelled(c) \/ c \in midpoll

Goto(c, st) == task' = [task EXCEPT ![c].st = st]
Keep == UNCHANGED <<issueVars, acks, receipt>>

\* Mutant: a cancelled task keeps its reservation.
SettleUnlessCancelled(c, out) ==
    LET retained == out \in {"error", "panic"} \/ (out = "abort" /\ ~planned)
    IN  IF ~HasIssues \/ out \in {"request", "idle"} THEN UNCHANGED issueVars
        ELSE /\ issues' = IF retained THEN issues \cup {c} ELSE issues
             /\ reserved' = IF retained THEN reserved ELSE reserved - 1

\* IssueGuard: a failure, and an interruption nobody planned, is recorded and
\* keeps its reservation; any other end returns it.
Settle(c, out) ==
    LET retained == out \in {"error", "panic"} \/ (out = "abort" /\ ~planned)
    IN  IF ~HasIssues THEN UNCHANGED issueVars
        ELSE /\ issues' = IF retained THEN issues \cup {c} ELSE issues
             /\ reserved' = IF retained THEN reserved ELSE reserved - 1

\* Mutant: a task dropped before its clean end leaves the run as it is.
EndPhaseKeptOnDrop(c, out) ==
    IF out \in {"error", "request", "idle"} /\ HasActivation
    THEN phase' = Failed ELSE UNCHANGED phase

\* What the end of the task does to the run: an error fails it, and so does
\* dropping the connection or a pending ack before FinishedAck.
EndPhase(c, out) ==
    LET dropped == out \in {"panic", "abort"}
    IN  IF \/ ~HasActivation \/ out = "ok"
           \/ out = "abort" /\ task[c].st = "spawned"
           \/ dropped /\ phase.tag = "FinishedAckCommitted"
        THEN UNCHANGED phase
        ELSE phase' = Failed

\* The task ends: its application, connection, ack and issue guards drop.
End(c, out) ==
    /\ task' = [task EXCEPT ![c].st = "ended", ![c].out = out]
    /\ applications' = IF HasActivation /\ task[c].st \in InFlight THEN applications - 1
                                                                  ELSE applications
    /\ EndPhase(c, out)
    /\ Settle(c, out)
    /\ UNCHANGED <<acks, receipt>>

\* The connection joins the run and is admitted, or fails.
Setup(c, ok) ==
    /\ task[c].st = "spawned"
    /\ TaskStep(c)
    /\ IF ok /\ (HasActivation => AcceptedOk)
       THEN Goto(c, "config") /\ UNCHANGED <<phase, applications>> /\ Keep
       ELSE End(c, "error")

WriteConfig(c) ==
    /\ task[c].st = "config" /\ Polls(c)
    /\ TaskStep(c)
    /\ Goto(c, "reading") /\ UNCHANGED <<phase, applications>> /\ Keep

\* The loop of serve_connection_requests reads end of file ...
ReadClosed(c) ==
    /\ task[c].st = "reading" /\ Polls(c)
    /\ TaskStep(c)
    /\ IF HasActivation => ClosedOk(c)
       THEN End(c, "ok") ELSE End(c, "error")

\* ... a mapping-capture request, which is answered without the tool ...
ReadCapture(c) ==
    /\ task[c].st = "reading" /\ Polls(c)
    /\ TaskStep(c)
    /\ IF HasActivation => BeforeApplicationOk
       THEN Goto(c, "capturing") /\ UNCHANGED <<phase, applications>> /\ Keep
       ELSE End(c, "error")

\* ... a lifecycle control, which no other server takes ...
ReadControl(c, control, digest) ==
    /\ task[c].st = "reading" /\ Polls(c)
    /\ TaskStep(c)
    /\ IF HasActivation /\ StageOk(c, task[c].pid, control, digest)
       THEN /\ stage(c, control) /\ UNCHANGED applications /\ Keep
            /\ task' = [task EXCEPT ![c].st = "acking", ![c].control = control]
       ELSE End(c, "error")

\* ... or a request of sender, dispatched if the run and admission allow.
ReadRequest(c, sender) ==
    LET checked == HasAdmission /\ (Strict \/ HasCancellation \/ ~task[c].asked)
    IN  /\ task[c].st = "reading" /\ Polls(c)
        /\ TaskStep(c)
        /\ IF /\ HasActivation => ApplicationOk(c, sender)
              /\ checked => sender = task[c].pid
           THEN /\ task' = [task EXCEPT ![c].st = "dispatched", ![c].asked = TRUE]
                /\ applications' = IF HasActivation THEN applications + 1 ELSE applications
                /\ UNCHANGED phase /\ Keep
           ELSE End(c, "error")

\* The acknowledgement is out, then committed.
WriteAck(c) ==
    /\ task[c].st = "acking" /\ Polls(c)
    /\ TaskStep(c)
    /\ IF CommitOk(c, task[c].control)
       THEN /\ commit(c, task[c].control) /\ Goto(c, "reading")
            /\ acks' = [acks EXCEPT ![c] = Append(@, task[c].control)]
            /\ receipt' = (receipt \/ task[c].control = "Finished")
            /\ UNCHANGED <<applications, issueVars>>
       ELSE End(c, "error")

\* The tool starts on the request, and returns a response.
Receive(c) ==
    /\ task[c].st = "dispatched" /\ Polls(c)
    /\ TaskStep(c)
    /\ Goto(c, "handling") /\ UNCHANGED <<phase, applications>> /\ Keep

Respond(c) ==
    /\ task[c].st = "handling" /\ Polls(c)
    /\ TaskStep(c)
    /\ Goto(c, "replying") /\ UNCHANGED <<phase, applications>> /\ Keep

\* The reply is written and the application's reservation dropped.
WriteReply(c) ==
    /\ task[c].st \in {"replying", "capturing"} /\ Polls(c)
    /\ TaskStep(c)
    /\ Goto(c, "reading")
    /\ applications' = IF HasActivation /\ task[c].st = "replying" THEN applications - 1
                                                                  ELSE applications
    /\ UNCHANGED phase /\ Keep

\* Any read or write may fail; the tool may panic; the intent is seen; the
\* owner aborts.
FailIo(c) ==
    /\ task[c].st \in Awaiting \ {"dispatched", "handling"} /\ Polls(c)
    /\ TaskStep(c)
    /\ End(c, "error")

Panic(c) ==
    /\ task[c].st = "handling" /\ Polls(c)
    /\ TaskStep(c)
    /\ End(c, "panic")

\* Mutant: only a dispatched request looks for the intent.
SeeIntentWhenDispatched(c) ==
    /\ task[c].st \in {"dispatched", "handling"} /\ Cancelled(c)
    /\ TaskStep(c)
    /\ End(c, "request")

SeeIntent(c) ==
    /\ task[c].st \in Awaiting /\ Cancelled(c)
    /\ TaskStep(c)
    /\ End(c, IF task[c].st \in {"dispatched", "handling"} THEN "request" ELSE "idle")

Abort(c) ==
    /\ srv = "aborting" /\ Live(c)
    /\ TaskStep(c)
    /\ End(c, "abort")

-----------------------------------------------------------------------------
Loop == PollLoop \/ StopAccepting \/ (\E c \in Conns : Join(c)) \/ Stop

ServerNext ==
    \/ Loop
    \/ \E p \in Pids \cup {NoPid} : BindRoot(p)
    \/ \E p \in Pids : RequestCancel(p)
    \/ PlanShutdown
    \/ \E err \in BOOLEAN : StopServing(err)
    \/ \E c \in Conns, p \in Pids : Accept(c, p)
    \/ \E c \in Conns :
         \/ \E ok \in BOOLEAN : Setup(c, ok)
         \/ WriteConfig(c) \/ ReadClosed(c) \/ ReadCapture(c)
         \/ \E k \in Controls, digest \in BOOLEAN : ReadControl(c, k, digest)
         \/ \E p \in Pids : ReadRequest(c, p)
         \/ WriteAck(c) \/ Receive(c) \/ Respond(c) \/ WriteReply(c)
         \/ FailIo(c) \/ Panic(c) \/ SeeIntent(c) \/ Abort(c)

\* The runtime polls the loop and every task that can go on by itself.
ServerSpec ==
    /\ ServerInit /\ [][ServerNext /\ UNCHANGED options]_<<serverVars, options>>
    /\ WF_serverVars(Loop)
    /\ \A c \in Conns : /\ WF_serverVars(\E ok \in BOOLEAN : Setup(c, ok))
                        /\ WF_serverVars(SeeIntent(c))
                        /\ WF_serverVars(Abort(c))

-----------------------------------------------------------------------------
ServerTypeOK ==
    /\ root \in Pids \cup {NoPid} /\ phase \in Phases /\ applications \in 0 .. Cardinality(Conns)
    /\ srv \in {"head", "polled", "aborting", "stopped"}
    /\ {accepting, serveErr, overflow, drained, planned, receipt} \subseteq BOOLEAN
    /\ \A c \in Conns : task[c].st \in {"none", "spawned", "ended", "joined"} \cup Awaiting
    /\ process \in Pids \cup {NoPid}
    /\ {joined, idle, issues, midpoll} \subseteq SUBSET Conns
    /\ reserved \in 0 .. IssueCap /\ options \in Configurations

\* A receipt is earned: the launcher sees FinishedAckCommitted only if the
\* three acknowledgements went out, in order, on one connection of the root.
ReceiptIsEarned ==
    phase.tag = "FinishedAckCommitted" =>
        /\ acks[phase.primary] = <<"Claim", "Started", "Finished">>
        /\ task[phase.primary].pid = root

\* Nothing enters the tool after Finished: from the staging of Finished on,
\* and whatever fails after the receipt, no request is in flight on any
\* connection, also none that was read before.
FinishedIsQuiet ==
    receipt \/ (phase.tag = "Pending" /\ phase.control = "Finished") =>
        \A c \in Conns : task[c].st \notin InFlight

\* A run whose primary is gone before FinishedAck has failed, so the
\* launcher cannot wait for it in vain.
PrimaryIsThere ==
    phase.tag \in {"Pending", "Claimed", "StartedAckCommitted"} => Live(phase.primary)

\* The launcher can rely on what the activation run says: the three
\* statements above, and the types.
LifecycleSafe == ServerTypeOK /\ ReceiptIsEarned /\ FinishedIsQuiet /\ PrimaryIsThere

\* The 64 reservations are exactly the live tasks and the retained issues:
\* none leaks and no failure finds its slot taken.
ReservationsAccounted ==
    HasIssues => reserved = Cardinality(issues) + Cardinality({c \in Conns : Live(c)})

\* A drain is what it says: no task is left or will come, and every
\* cancelled one is reported unless the overflow is.
DrainIsExact ==
    drained =>
        /\ ~accepting
        /\ \A c \in Conns : task[c].st \in {"none", "joined"}
        /\ ~overflow => /\ joined = {c \in Conns : task[c].out = "request"}
                        /\ idle = {c \in Conns : task[c].out = "idle"}

\* The intent alone drains the server, unless it stops serving or another
\* process keeps its connection.
IntentDrains ==
    (process # NoPid) ~>
        \/ drained
        \/ srv \in {"aborting", "stopped"}
        \/ \E c \in Conns : Live(c) /\ ~Cancelled(c)

=============================================================================
