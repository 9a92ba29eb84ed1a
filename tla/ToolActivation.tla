--------------------------- MODULE ToolActivation ---------------------------
(***************************************************************************)
(* The launcher's record of one tool lifecycle                             *)
(* (reverie-rpc-transport/src/tool_activation.rs): a root process is       *)
(* bound, one connection of it becomes the primary by Claim, and Started   *)
(* and Finished follow on that connection.  Each control is Pending until  *)
(* its acknowledgement has been written.  Every operation runs with the    *)
(* run's mutex held, so it is one step; RpcServer calls them.              *)
(*                                                                         *)
(* An operation that returns an error also fails the run, once and for     *)
(* all; first-failure messages, receipts and the 48-byte frame codec are   *)
(* left out, and whether a control carries the connection's own config     *)
(* digest is a Boolean.                                                    *)
(***************************************************************************)
EXTENDS Naturals

CONSTANTS Conns, Pids, NoConn, NoPid

VARIABLES root, phase, applications

activationVars == <<root, phase, applications>>

Controls == {"Claim", "Started", "Finished"}

\* tag, the primary connection, and the control whose ack is being written
Phases == [tag : {"AwaitingRoot", "AwaitingClaim", "Pending", "Claimed",
                  "StartedAckCommitted", "FinishedAckCommitted", "Failed"},
           primary : Conns \cup {NoConn}, control : Controls \cup {"none"}]
Phase(tag, c, control) == [tag |-> tag, primary |-> c, control |-> control]
Failed == Phase("Failed", NoConn, "none")
HasFailed == phase.tag = "Failed"

ActivationInit ==
    /\ root = NoPid
    /\ phase = Phase("AwaitingRoot", NoConn, "none")
    /\ applications = 0

\* bind_root: exactly once, before any connection.
bind_root(pid) ==
    /\ IF root = NoPid /\ phase.tag = "AwaitingRoot" /\ pid # NoPid
       THEN root' = pid /\ phase' = Phase("AwaitingClaim", NoConn, "none")
       ELSE phase' = Failed /\ UNCHANGED root
    /\ UNCHANGED applications

\* accepted: a connection may join from the binding until Finished.
AcceptedOk == phase.tag \notin {"AwaitingRoot", "FinishedAckCommitted", "Failed"}

\* closed: the primary may close only after FinishedAck.
ClosedOk(c) == ~HasFailed /\ (phase.primary = c => phase.tag = "FinishedAckCommitted")

\* before_application and application: no request is dispatched once
\* Finished is staged, nor on the primary for another sender than the root.
BeforeApplicationOk ==
    /\ phase.tag \notin {"FinishedAckCommitted", "Failed"}
    /\ ~(phase.tag = "Pending" /\ phase.control = "Finished")

ApplicationOk(c, sender) == BeforeApplicationOk /\ (phase.primary = c => sender = root)

\* Mutant: Finished does not wait for the applications in flight.
StageOkWithApplications(c, pid, control, digest) ==
    /\ ~HasFailed /\ root = pid /\ digest
    /\ \/ phase.tag = "AwaitingClaim" /\ control = "Claim"
       \/ phase.tag = "Claimed" /\ control = "Started" /\ phase.primary = c
       \/ phase.tag = "StartedAckCommitted" /\ control = "Finished" /\ phase.primary = c

\* Mutant: Started and Finished are taken from any connection of the root.
StageOkOnAnyStream(c, pid, control, digest) ==
    /\ ~HasFailed /\ root = pid /\ digest
    /\ control = "Finished" => applications = 0
    /\ \/ phase.tag = "AwaitingClaim" /\ control = "Claim"
       \/ phase.tag = "Claimed" /\ control = "Started"
       \/ phase.tag = "StartedAckCommitted" /\ control = "Finished"

\* stage: from the bound root, with the connection's digest, in order, on
\* the primary, and Finished only with no application in flight.
StageOk(c, pid, control, digest) ==
    /\ ~HasFailed /\ root = pid /\ digest
    /\ control = "Finished" => applications = 0
    /\ \/ phase.tag = "AwaitingClaim" /\ control = "Claim"
       \/ phase.tag = "Claimed" /\ control = "Started" /\ phase.primary = c
       \/ phase.tag = "StartedAckCommitted" /\ control = "Finished" /\ phase.primary = c

stage(c, control) == phase' = Phase("Pending", c, control)

\* PendingAck::commit: the ack is out; a run that failed meanwhile stays so.
CommitOk(c, control) == phase = Phase("Pending", c, control)

commit(c, control) ==
    phase' = Phase(CASE control = "Claim" -> "Claimed"
                     [] control = "Started" -> "StartedAckCommitted"
                     [] control = "Finished" -> "FinishedAckCommitted", c, "none")

=============================================================================
