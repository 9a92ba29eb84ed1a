----------------------------- MODULE NativeExec -----------------------------
(***************************************************************************)
(* One guest process that execs natively: the driver of its old image      *)
(* (inject in native_exec.rs, the session of generic_native_exec_driver.rs)*)
(* talks over a control stream that can break (exec_control.rs) to the     *)
(* ticket registry; a successor image redeems the ticket on a connection   *)
(* that can fail after redemption (image_handshake in server.rs); and the  *)
(* launcher completes, fails or, on the watched death, ends transitions.   *)
(*                                                                         *)
(* At its leaf the generic driver refuses; an embedder's issues and calls  *)
(* the kernel as the contract of PreparedNativeExec prescribes.            *)
(***************************************************************************)
EXTENDS ExecTicket

CONSTANTS Conns,      \* connections on which a successor may redeem
          None, Open, Closed

ASSUME NoneAssumption == {None, Open, Closed} \cap Tickets = {}

VARIABLES
    exec,      \* where the image's exec attempt is
    ticket,    \* the ticket of that attempt
    original,  \* the failure a cancellation is on behalf of
    link,      \* is the control stream whole?
    wire,      \* its outstanding request or reply
    conn,      \* each redeeming connection: Open, the ticket it consumed, Closed
    held,      \* history: tickets whose state arrived in a successor
    resumed    \* history: tickets of attempts after which the old image went on

execVars == <<exec, ticket, original, link, wire, conn, held, resumed>>
nativeVars == <<ticketVars, execVars>>

Quiet == [op |-> "quiet", arg |-> None]

NativeInit ==
    /\ TicketInit
    /\ exec = "running" /\ ticket = None /\ original = "none"
    /\ link = TRUE /\ wire = Quiet
    /\ conn = [c \in Conns |-> Open]
    /\ held = {} /\ resumed = {}

-----------------------------------------------------------------------------
\* ExecControlClient::exchange: the request is written and its reply awaited
\* at l.  A broken stream answers every request with Dead.
Send(op, arg, l) == wire' = [op |-> op, arg |-> arg] /\ exec' = l
AnsweredByReply(l) == exec = l /\ wire.op \in {"ok", "refused"}  \* mutant: no Dead
Answered(l) == exec = l /\ (~link \/ wire.op \in {"ok", "refused"})
Granted == link /\ wire.op = "ok"

\* The attempt is over and the old image goes on, or it ends the process.
Resume ==
    /\ exec' = "running" /\ wire' = Quiet /\ ticket' = None /\ original' = "none"
    /\ resumed' = resumed \cup {ticket}
terminate ==
    /\ exec' = "terminated" /\ wire' = Quiet
    /\ UNCHANGED <<ticket, original, resumed>>

\* Cancel the ticket, then report failure f.
BeginCancel(f) == Send("Cancel", None, "cancelling") /\ original' = f

\* serve_exec_control handles the request with the registry locked, always
\* as the watched owner, and answers; q is the embedder's qualification.
Serve(q) ==
    LET reply(ok, arg) == wire' = [op |-> IF ok THEN "ok" ELSE "refused", arg |-> arg]
        grant(ok, call) == IF ok THEN call /\ reply(TRUE, None)
                           ELSE reply(FALSE, None) /\ UNCHANGED ticketVars
        n == wire.arg
    IN  /\ link
        /\ \/ /\ wire.op = "Prepare"
              /\ IF PrepareOk(Watched, Watched, n, n, q)
                 THEN Prepare(Watched, Watched, n, n, q) /\ reply(TRUE, next_ticket)
                 ELSE reply(FALSE, None) /\ UNCHANGED ticketVars
           \/ /\ wire.op = "Seal"
              /\ grant(SealOk(Watched, ticket, n, n, q), Seal(Watched, ticket, n, n, q))
           \/ /\ wire.op = "MarkDelivered"
              /\ grant(MarkOk(Watched, ticket), mark_provision_delivered(Watched, ticket))
           \/ /\ wire.op = "Issue"
              /\ LET d == transitions[ticket].state_digest
                 IN  grant(IssueOk(Watched, ticket, d), issue(Watched, ticket, d))
           \/ /\ wire.op = "Cancel"
              /\ grant(CancelOk(Watched, ticket), cancel(Watched, ticket))
        /\ UNCHANGED <<exec, ticket, original, link, conn, held, resumed>>

\* The stream breaks, before or after the request was served.
Break ==
    /\ link
    /\ link' = FALSE
    /\ UNCHANGED <<ticketVars, exec, ticket, original, wire, conn, held, resumed>>

-----------------------------------------------------------------------------
\* session.prepare with an encoding of s bytes (an empty one is refused
\* before anything is sent and changes nothing).
BeginPrepare(s) ==
    /\ exec = "running"
    /\ Send("Prepare", s, "preparing")
    /\ UNCHANGED <<ticketVars, ticket, original, link, conn, held, resumed>>

\* ... its reply: seal r runtime bytes, or the failure is terminal.
AfterPrepare(r) ==
    /\ Answered("preparing")
    /\ IF Granted
       THEN Send("Seal", r, "sealing") /\ ticket' = wire.arg /\ UNCHANGED <<original, resumed>>
       ELSE terminate
    /\ UNCHANGED <<ticketVars, link, conn, held>>

\* ... the provisioner delivers, has no delivery, or fails; only a receipt
\* is recorded, everything else cancels the ticket first.
AfterSeal(delivery) ==
    /\ Answered("sealing")
    /\ IF Granted /\ delivery = "received"
       THEN Send("MarkDelivered", None, "marking") /\ UNCHANGED original
       ELSE BeginCancel(IF Granted /\ delivery = "unavailable" THEN "Refused" ELSE "Terminal")
    /\ UNCHANGED <<ticketVars, ticket, link, conn, held, resumed>>

AfterMark ==
    /\ Answered("marking")
    /\ IF Granted THEN exec' = "prepared" /\ wire' = Quiet /\ UNCHANGED original
                  ELSE BeginCancel("Terminal")
    /\ UNCHANGED <<ticketVars, ticket, link, conn, held, resumed>>

\* Mutant: the old image goes on whatever became of the cancellation.
AfterCancelRegardless ==
    /\ Answered("cancelling")
    /\ IF original = "Refused" THEN Resume ELSE terminate
    /\ UNCHANGED <<ticketVars, link, conn, held>>

\* cancel_or_terminal and PreparedAttempt::cancel: an uncertain cancellation
\* is terminal.
AfterCancel ==
    /\ Answered("cancelling")
    /\ IF Granted /\ original = "Refused" THEN Resume ELSE terminate
    /\ UNCHANGED <<ticketVars, link, conn, held>>

\* Mutant: inject returns the refusal without cancelling.
RefuseSilently ==
    /\ exec = "prepared"
    /\ Resume
    /\ UNCHANGED <<ticketVars, link, conn, held>>

\* inject: a changed state or cut, and a leaf that is not there, are refused
\* and cancelled.
Refuse ==
    /\ exec = "prepared"
    /\ BeginCancel("Refused")
    /\ UNCHANGED <<ticketVars, ticket, link, conn, held, resumed>>

BeginIssue ==
    /\ exec = "prepared"
    /\ Send("Issue", None, "issuing")
    /\ UNCHANGED <<ticketVars, ticket, original, link, conn, held, resumed>>

AfterIssue ==
    /\ Answered("issuing")
    /\ IF Granted THEN exec' = "leaf" /\ wire' = Quiet /\ UNCHANGED <<ticket, original, resumed>>
                  ELSE terminate
    /\ UNCHANGED <<ticketVars, link, conn, held>>

\* The kernel replaces the image, or returns an errno, after which the
\* ticket is cancelled.
ExecSucceeds ==
    /\ exec = "leaf"
    /\ exec' = "replaced"
    /\ UNCHANGED <<ticketVars, ticket, original, link, wire, conn, held, resumed>>

ExecFails ==
    /\ exec = "leaf"
    /\ BeginCancel("Refused")
    /\ UNCHANGED <<ticketVars, ticket, link, conn, held, resumed>>

-----------------------------------------------------------------------------
\* image_handshake on connection c: a redemption consumes the ticket before
\* the acknowledgement, the config and the state are written.
RedeemOn(c, t) ==
    /\ conn[c] = Open
    /\ \/ Redeem(TRUE, t, TRUE, transitions[t].state_digest) /\ conn' = [conn EXCEPT ![c] = t]
       \/ conn' = [conn EXCEPT ![c] = Closed] /\ UNCHANGED ticketVars
    /\ UNCHANGED <<exec, ticket, original, link, wire, held, resumed>>

\* The frames arrive in the successor, or the connection fails under them.
Deliver(c) ==
    /\ conn[c] \in Tickets
    /\ held' = held \cup {conn[c]}
    /\ conn' = [conn EXCEPT ![c] = Closed]
    /\ UNCHANGED <<ticketVars, exec, ticket, original, link, wire, resumed>>

FailDelivery(c) ==
    /\ conn[c] \in Tickets
    /\ conn' = [conn EXCEPT ![c] = Closed]
    /\ UNCHANGED <<ticketVars, exec, ticket, original, link, wire, held, resumed>>

\* The launcher completes the transition once the successor holds its state;
\* the new image then runs with a control stream of its own.
Complete(q) ==
    /\ exec = "replaced" /\ ticket \in held
    /\ complete(Watched, ticket, q)
    /\ IF q THEN exec' = "running" /\ ticket' = None /\ link' = TRUE
            ELSE UNCHANGED <<exec, ticket, link>>
    /\ UNCHANGED <<original, wire, conn, held, resumed>>

\* The coordinator fails a transition; the process is killed or fails (a
\* request it sent may still be served); the watch reports its death.
CoordinatorFails(t) == failed(t) /\ UNCHANGED execVars

Kill ==
    /\ exec # "terminated"
    /\ exec' = "terminated"
    /\ UNCHANGED <<ticketVars, ticket, original, link, wire, conn, held, resumed>>

Watch ==
    /\ exec = "terminated" /\ ~dead
    /\ died
    /\ UNCHANGED execVars

-----------------------------------------------------------------------------
Driver ==
    \/ \E s \in 1 .. MaxSnapshot : BeginPrepare(s)
    \/ \E r \in 0 .. MaxState : AfterPrepare(r)
    \/ \E d \in {"received", "unavailable", "failed"} : AfterSeal(d)
    \/ AfterMark \/ AfterCancel \/ Refuse \/ BeginIssue \/ AfterIssue
    \/ ExecSucceeds \/ ExecFails

NativeNext ==
    \/ Driver
    \/ \E q \in BOOLEAN : Serve(q) \/ Complete(q)
    \/ \E c \in Conns, t \in Tickets : RedeemOn(c, t)
    \/ \E c \in Conns : Deliver(c) \/ FailDelivery(c)
    \/ \E t \in Tickets : CoordinatorFails(t)
    \/ Break \/ Kill \/ Watch

NativeSpec ==
    /\ NativeInit /\ [][NativeNext]_nativeVars
    /\ WF_nativeVars(Driver) /\ WF_nativeVars(\E q \in BOOLEAN : Serve(q))
    /\ WF_nativeVars(Watch)

-----------------------------------------------------------------------------
NativeTypeOK ==
    /\ TicketTypeOK
    /\ exec \in {"running", "preparing", "sealing", "marking", "cancelling", "prepared",
               "issuing", "leaf", "replaced", "terminated"}
    /\ ticket \in Tickets \cup {None}
    /\ original \in {"none", "Refused", "Terminal"}
    /\ link \in BOOLEAN
    /\ conn \in [Conns -> Tickets \cup {Open, Closed}]
    /\ held \subseteq Tickets
    /\ resumed \subseteq Tickets

\* Exec happens or it does not: a ticket whose attempt the old image
\* survived never hands its state to a successor, before or after, however
\* replies are lost and redemptions race the cancellation.
SurvivedOrSucceeded == \A t \in resumed : handed[t] = 0 /\ transitions[t].stage = "Cancelled"

\* A refusal owns no ticket: between attempts a running image has nothing
\* live in the registry, so its next prepare is not refused for it.
RefusalOwnsNoTicket ==
    exec = "running" => \A t \in Tickets : ~live(transitions[t].stage)

\* What the driver's caller is told is true: the two statements above, and
\* the types.
HandoverSafe == NativeTypeOK /\ SurvivedOrSucceeded /\ RefusalOwnsNoTicket

\* An exec attempt ends, and the authority of a process that ended is
\* withdrawn.
AttemptEnds == (exec \notin {"running", "replaced", "terminated"})
                 ~> (exec \in {"running", "replaced", "terminated"})
AuthorityWithdrawn ==
    (exec = "terminated") ~> (\A t \in Tickets : ~live(transitions[t].stage))

=============================================================================
