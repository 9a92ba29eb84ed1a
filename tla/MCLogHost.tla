----------------------------- MODULE MCLogHost -----------------------------
(***************************************************************************)
(* The two ends of the host's side of guest logging, checked side by side: *)
(* the retained log, with a process that writes one record while both      *)
(* tasks wait or one that forks a child, and the publication of records.   *)
(* A behaviour is one of the one or of the other.                          *)
(***************************************************************************)
EXTENDS RetainedLog, Publication

Writes == [records |-> [c \in Channels |-> IF c = 0 THEN 1 ELSE 0], forks |-> {},
           waits |-> {"ready", "finished"}]
Forks == [records |-> [c \in Channels |-> 0], forks |-> {0}, waits |-> {"ready"}]

WritesOrForks == {Writes, Forks}

VARIABLE subject

LogHostInit ==
    /\ subject \in {"retained", "publication"} /\ RetainedInit /\ PubInit
    /\ subject = "retained" => len = [o \in Orders |-> 0]
    /\ subject = "publication" => guest[0].forks

LogHostNext ==
    \/ subject = "retained" /\ RetainedNext /\ UNCHANGED <<subject, pubVars>>
    \/ subject = "publication" /\ PubNext /\ UNCHANGED <<subject, rVars>>

\* The fairness of RetainedSpec and of PubSpec, each where it is the subject.
LogHostSpec ==
    /\ LogHostInit /\ [][LogHostNext]_<<subject, rVars, pubVars>>
    /\ WF_rVars(subject = "retained" /\ Elapse) /\ WF_rVars(subject = "retained" /\ CollectorLoop)
    /\ \A t \in Tasks : WF_rVars(subject = "retained" /\ TaskStep(t))
    /\ WF_pubVars(subject = "publication" /\ WorkerNext)
    /\ WF_pubVars(subject = "publication" /\ \E j \in BOOLEAN : Finish(j))

=============================================================================
