---------------------------- MODULE MCOrderedLog ----------------------------
(***************************************************************************)
(* Instances of OrderedLog: two producers that race with enough records to *)
(* recycle credits and ring slots, and a guest and its child that compete  *)
(* for their role's bytes and credits.                                     *)
(***************************************************************************)
EXTENDS OrderedLog

RacingRecords == [p \in P |-> 2]
CompetingRecords == [p \in P |-> CASE p = 0 -> 0 [] p = 1 -> 2 [] OTHER -> 1]

\* The guests alone: the host has not begun to write, and its admission is open, so
\* that no end of all commits is observed.  Its half of the credits and bytes is
\* separate from theirs.
GuestsNext ==
    \/ \E p \in P \ {0} : ProducerStep(p) \/ ProducerStarts(p)
    \/ close("guest") \/ fail_guest \/ Cutoff
    \/ CollectorStep \/ ReleaseStep

GuestsSpec == OrderedInit /\ [][GuestsNext]_oVars /\ OrderedFairness

=============================================================================
