----------------------------- MODULE AtomicLog ------------------------------
(***************************************************************************)
(* What the ordered capture log promises its readers: emissions of several *)
(* producers form one sequence, the reader receives that sequence from its *)
(* start without a hole, a repetition or a change, and once it has been    *)
(* told that every commit was observed there is nothing more to come.      *)
(***************************************************************************)
EXTENDS Naturals, Sequences

CONSTANTS Emitters, Lengths

VARIABLES log, out, sealed

logVars == <<log, out, sealed>>

\* A producer's records are numbered from 1, in the order of its emissions.
Emitted(p) == Len(SelectSeq(log, LAMBDA e : e.producer = p))

LogInit == log = <<>> /\ out = <<>> /\ sealed = FALSE

Emit(p, n) ==
    /\ ~sealed
    /\ log' = Append(log, [producer |-> p, sequence |-> Emitted(p) + 1, length |-> n])
    /\ UNCHANGED <<out, sealed>>

Deliver ==
    /\ Len(out) < Len(log)
    /\ out' = Append(out, log[Len(out) + 1])
    /\ UNCHANGED <<log, sealed>>

Seal ==
    /\ out = log
    /\ sealed' = TRUE
    /\ UNCHANGED <<log, out>>

LogNext == Deliver \/ Seal \/ \E p \in Emitters, n \in Lengths : Emit(p, n)

LogSpec == LogInit /\ [][LogNext]_logVars

=============================================================================
