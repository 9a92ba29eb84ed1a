----------------------------- MODULE MCWaiters -----------------------------
(***************************************************************************)
(* Two protocols of threads that wait for each other in one process,       *)
(* checked side by side: who waits for a change of the entry gate, and who *)
(* waits for the outcome of a patch site.  A behaviour is one of the one   *)
(* or of the other.                                                        *)
(***************************************************************************)
EXTENDS GateChange, MCPatchSites


VARIABLE subject

WaitersInit == subject \in {"gate", "patch"} /\ ChangeInit /\ PatchInit

WaitersNext ==
    \/ subject = "gate" /\ ChangeNext /\ UNCHANGED <<subject, pVars>>
    \/ subject = "patch" /\ PatchNext /\ UNCHANGED <<subject, nVars>>

\* What either is fair to is not enabled initially, so that only the subject is concerned.
WaitersSpec ==
    WaitersInit /\ [][WaitersNext]_<<subject, nVars, pVars>> /\ ChangeFairness /\ PatchFairness

=============================================================================
