--------------------------- MODULE RpcServerProofs ---------------------------
(***************************************************************************)
(* The coordinator's server keeps its promises for every number of         *)
(* connections and processes, every set of options and every cap.          *)
(*                                                                         *)
(* None of the three invariants is inductive.  A receipt is earned because *)
(* the phase of the activation run always tells what the primary's task is *)
(* doing and which acknowledgements it has written (Lifecycle); nothing is *)
(* in the tool after Finished because applications counts the requests in  *)
(* flight (Applied).  Reservations add up because an issue belongs to a    *)
(* task that has ended (Issued), and a drain is exact because outcomes are *)
(* kept from the join on, whether or not a drain will be asked for         *)
(* (Outcomes).                                                             *)
(***************************************************************************)
EXTENDS RpcServer, FiniteSetTheorems, TLAPS

TaskStates == Awaiting \cup {"none", "spawned", "ended", "joined"}
Outs == {"none", "ok", "error", "panic", "abort", "request", "idle"}
TaskRecords == [st : TaskStates, pid : Pids \cup {NoPid}, asked : BOOLEAN,
                control : Controls \cup {"none"}, out : Outs]

\* The connections whose request is in the tool, and those with a task.
Applying == {c \in Conns : task[c].st \in InFlight}
Alive == {c \in Conns : Live(c)}

ServerTypes ==
    /\ root \in Pids \cup {NoPid} /\ phase \in Phases
    /\ srv \in {"head", "polled", "aborting", "stopped"}
    /\ accepting \in BOOLEAN /\ serveErr \in BOOLEAN /\ overflow \in BOOLEAN
    /\ drained \in BOOLEAN /\ planned \in BOOLEAN /\ receipt \in BOOLEAN
    /\ task \in [Conns -> TaskRecords] /\ acks \in [Conns -> Seq(Controls)]
    /\ process \in Pids \cup {NoPid}
    /\ joined \in SUBSET Conns /\ idle \in SUBSET Conns /\ issues \in SUBSET Conns
    /\ midpoll \in SUBSET Conns
    /\ options \in Configurations

\* What the acknowledgements of connection c are in the run's phase.
AckedIn(c) ==
    /\ phase.tag = "Pending" =>
        /\ phase.control = "Claim" => acks[c] = <<>>
        /\ phase.control = "Started" => acks[c] = <<"Claim">>
        /\ phase.control = "Finished" => acks[c] = <<"Claim", "Started">>
    /\ phase.tag = "Claimed" => acks[c] = <<"Claim">>
    /\ phase.tag = "StartedAckCommitted" => acks[c] = <<"Claim", "Started">>
    /\ phase.tag = "FinishedAckCommitted" => acks[c] = <<"Claim", "Started", "Finished">>

Undergoing == {"Pending", "Claimed", "StartedAckCommitted"}

\* The phase tells where the primary's task is and what it has acknowledged.
Lifecycle ==
    /\ phase.tag \in {"AwaitingRoot", "AwaitingClaim"} => \A c \in Conns : acks[c] = <<>>
    /\ phase.tag \in Undergoing \cup {"FinishedAckCommitted"} =>
        /\ phase.primary \in Conns
        /\ task[phase.primary].pid = root /\ task[phase.primary].st # "none"
        /\ AckedIn(phase.primary)
    /\ phase.tag \in Undergoing => task[phase.primary].st \in Awaiting
    /\ phase.tag = "Pending" =>
        /\ task[phase.primary].st = "acking"
        /\ task[phase.primary].control = phase.control /\ phase.control \in Controls

\* A receipt is never taken back, and who may send a request has none.
Receipted ==
    /\ receipt => phase.tag \in {"FinishedAckCommitted", "Failed"}
    /\ phase.tag = "FinishedAckCommitted" => receipt
    /\ FinishedIsQuiet

\* applications counts the requests in flight; without a run nothing moves.
Applied ==
    /\ HasActivation => applications = Cardinality(Applying)
    /\ ~HasActivation => applications = 0 /\ phase.tag = "AwaitingRoot"

\* An issue belongs to a task that has ended.
Issued ==
    /\ \A c \in issues : task[c].st \in {"ended", "joined"}
    /\ HasIssues => reserved = Cardinality(issues) + Cardinality(Alive)
    /\ ~HasIssues => reserved = 0
    /\ reserved <= IssueCap

\* Outcomes are kept when a task is joined, and a drain leaves none behind.
Outcomes ==
    /\ \A c \in Conns : task[c].out \in {"request", "idle"} => task[c].st \in {"ended", "joined"}
    /\ ~overflow => /\ joined = {c \in Conns : task[c].st = "joined" /\ task[c].out = "request"}
                    /\ idle = {c \in Conns : task[c].st = "joined" /\ task[c].out = "idle"}
    /\ drained => ~accepting /\ \A c \in Conns : task[c].st \in {"none", "joined"}

ServerInv == ServerTypes /\ Lifecycle /\ Receipted /\ Applied /\ Issued /\ Outcomes

-----------------------------------------------------------------------------
\* The connections can be counted, and so can any of them.
LEMMA ConnsCount ==
    ASSUME NEW S, S \subseteq Conns
    PROVE  /\ IsFiniteSet(S) /\ Cardinality(S) \in Nat /\ Cardinality(S) <= Cardinality(Conns)
           /\ Cardinality(Conns) \in Nat /\ (Cardinality(S) = 0 <=> S = {})
           /\ \A c \in S : Cardinality(S \ {c}) = Cardinality(S) - 1
           /\ \A c \in Conns \ S : Cardinality(S \cup {c}) = Cardinality(S) + 1
<1>1. IsFiniteSet(Conns)
  BY Zenon, NamesAssumption
<1>2. /\ IsFiniteSet(S) /\ Cardinality(S) <= Cardinality(Conns)
  BY Zenon, <1>1, FS_Subset
<1>3. Cardinality(S) \in Nat /\ Cardinality(Conns) \in Nat
  BY Zenon, <1>1, <1>2, FS_CardinalityType
<1>4. Cardinality(S) = 0 <=> S = {}
  BY Zenon, <1>2, FS_EmptySet
<1>5. \A c \in S : Cardinality(S \ {c}) = Cardinality(S) - 1
  BY Zenon, <1>2, FS_RemoveElement
<1>6. \A c \in Conns \ S : Cardinality(S \cup {c}) = Cardinality(S) + 1
  <2> TAKE c \in Conns \ S
  <2>1. c \notin S
    OBVIOUS
  <2> QED BY Zenon, <1>2, <2>1, FS_AddElement
<1> QED BY Zenon, <1>2, <1>3, <1>4, <1>5, <1>6

\* The task of connection c changes in its state, control and outcome.
Becomes(c, st, k, out) ==
    /\ task' \in [Conns -> TaskRecords] /\ \A d \in Conns : d # c => task'[d] = task[d]
    /\ task'[c].st = st /\ task'[c].control = k /\ task'[c].out = out
    /\ task'[c].pid = task[c].pid

\* Assignments to the fields of a task.
LEMMA TaskFields ==
    ASSUME ServerTypes, NEW c \in Conns, NEW st \in TaskStates, NEW k, NEW o
    PROVE  /\ task' = [task EXCEPT ![c].st = st] => Becomes(c, st, task[c].control, task[c].out)
           /\ task' = [task EXCEPT ![c].st = st, ![c].asked = TRUE] =>
                Becomes(c, st, task[c].control, task[c].out)
           /\ k \in Controls /\ task' = [task EXCEPT ![c].st = st, ![c].control = k] =>
                Becomes(c, st, k, task[c].out)
           /\ o \in Outs /\ task' = [task EXCEPT ![c].st = st, ![c].out = o] =>
                Becomes(c, st, task[c].control, o)
<1>1. task[c] \in TaskRecords /\ task \in [Conns -> TaskRecords]
  BY Zenon DEF ServerTypes
<1>2. ASSUME task' = [task EXCEPT ![c].st = st] PROVE Becomes(c, st, task[c].control, task[c].out)
  BY ZenonT(30), <1>1, <1>2 DEF Becomes, TaskRecords
<1>3. ASSUME task' = [task EXCEPT ![c].st = st, ![c].asked = TRUE]
      PROVE  Becomes(c, st, task[c].control, task[c].out)
  BY ZenonT(30), <1>1, <1>3 DEF Becomes, TaskRecords
<1>4. ASSUME k \in Controls, task' = [task EXCEPT ![c].st = st, ![c].control = k]
      PROVE  Becomes(c, st, k, task[c].out)
  BY ZenonT(30), <1>1, <1>4 DEF Becomes, TaskRecords
<1>5. ASSUME o \in Outs, task' = [task EXCEPT ![c].st = st, ![c].out = o]
      PROVE  Becomes(c, st, task[c].control, o)
  BY ZenonT(30), <1>1, <1>5 DEF Becomes, TaskRecords
<1> QED BY Zenon, <1>2, <1>3, <1>4, <1>5

\* What the change of one task does to those that are counted.
LEMMA CountedMove ==
    ASSUME NEW c \in Conns, NEW st, NEW k, NEW out, Becomes(c, st, k, out)
    PROVE  /\ Applying' = (IF st \in InFlight THEN Applying \cup {c} ELSE Applying \ {c})
           /\ Alive' = (IF st \in Awaiting \cup {"spawned"} THEN Alive \cup {c} ELSE Alive \ {c})
  BY Zenon DEF Becomes, Applying, Alive, Live

\* A task that is not in an acknowledgement goes on to another await: it may
\* take a request to the tool unless Finished was staged.
LEMMA TaskGoesOn ==
    ASSUME ServerInv, NEW c \in Conns, NEW st \in Awaiting \ {"acking"}, NEW k,
           Live(c), task[c].st # "acking", Becomes(c, st, k, task[c].out), TaskStep(c),
           UNCHANGED <<options, issueVars, phase, acks, receipt>>,
           st \in InFlight => task[c].st \in InFlight \/ (HasActivation => BeforeApplicationOk),
           applications' = IF ~HasActivation THEN applications
                           ELSE IF st \in InFlight /\ task[c].st \notin InFlight THEN applications + 1
                           ELSE IF st \notin InFlight /\ task[c].st \in InFlight THEN applications - 1
                           ELSE applications
    PROVE  ServerInv'
<1>1. ServerTypes'
  BY DEF ServerInv, ServerTypes, TaskStep, Becomes, loopVars, cancelVars, issueVars
<1>2. \A d \in Conns : /\ task'[d].pid = task[d].pid /\ task'[d].out = task[d].out
                       /\ d # c => task'[d] = task[d]
  BY Zenon DEF Becomes
<1>3. task'[c].st = st /\ phase' = phase /\ acks' = acks /\ root' = root /\ options' = options /\ receipt' = receipt
  BY Zenon DEF Becomes, TaskStep
<1>4. Lifecycle'
  BY <1>2, <1>3 DEF ServerInv, Lifecycle, AckedIn, Undergoing, Awaiting, InFlight, Live
<1>5. Receipted'
  BY <1>2, <1>3 DEF ServerInv, Receipted, FinishedIsQuiet, BeforeApplicationOk, Applied, HasActivation
<1>6. Applied'
  <2>1. Applying \subseteq Conns /\ (c \in Applying <=> task[c].st \in InFlight)
    BY Zenon DEF Applying
  <2>2. Applying' = (IF st \in InFlight THEN Applying \cup {c} ELSE Applying \ {c})
    BY Zenon, CountedMove
  <2>3. CASE ~HasActivation
    BY Zenon, <1>3, <2>3 DEF ServerInv, Applied, HasActivation
  <2>4. CASE HasActivation
    <3>1. applications' = Cardinality(Applying')
      <4>1. CASE st \in InFlight /\ task[c].st \notin InFlight
        BY <2>1, <2>2, <2>4, <4>1, ConnsCount DEF ServerInv, Applied
      <4>2. CASE st \notin InFlight /\ task[c].st \in InFlight
        BY <2>1, <2>2, <2>4, <4>2, ConnsCount DEF ServerInv, Applied
      <4>3. CASE (st \in InFlight <=> task[c].st \in InFlight)
        <5>1. Applying' = Applying
          BY Zenon, <2>1, <2>2, <4>3
        <5> QED BY Zenon, <5>1, <2>4, <4>3 DEF ServerInv, Applied
      <4> QED BY Zenon, <4>1, <4>2, <4>3
    <3> QED BY Zenon, <3>1, <2>4, <1>3 DEF Applied, HasActivation
  <2> QED BY Zenon, <2>3, <2>4
<1>7. Issued'
  <2>1. Alive' = Alive
    BY CountedMove DEF Alive
  <2>2. reserved' = reserved /\ issues' = issues /\ c \notin issues
    BY Zenon DEF issueVars, ServerInv, Issued, Live, Awaiting, InFlight
  <2> QED BY Zenon, <1>2, <1>3, <2>1, <2>2 DEF ServerInv, Issued, HasIssues, ServerTypes
<1>8. Outcomes'
  BY <1>2, <1>3 DEF ServerInv, Outcomes, TaskStep, loopVars, cancelVars, Live, Awaiting, InFlight
<1> QED BY Zenon, <1>1, <1>4, <1>5, <1>6, <1>7, <1>8 DEF ServerInv

\* A task ends; only after FinishedAck may its primary end without failing
\* the run.
LEMMA TaskEnds ==
    ASSUME ServerInv, NEW c \in Conns, NEW out \in Outs \ {"none"}, Live(c), TaskStep(c),
           End(c, out), UNCHANGED options, out = "ok" => (HasActivation => ClosedOk(c))
    PROVE  ServerInv'
<1>1. Becomes(c, "ended", task[c].control, out)
  <2>1. "ended" \in TaskStates /\ ServerTypes /\ task' = [task EXCEPT ![c].st = "ended", ![c].out = out]
    BY Zenon DEF TaskStates, ServerInv, End
  <2> QED BY Zenon, <2>1, TaskFields
<1>2. /\ root' = root /\ options' = options /\ acks' = acks /\ receipt' = receipt
      /\ planned' = planned /\ accepting' = accepting /\ overflow' = overflow
      /\ joined' = joined /\ idle' = idle /\ drained' = drained
  BY Zenon DEF TaskStep, End, loopVars, cancelVars
<1>3. /\ \A d \in Conns : task'[d].pid = task[d].pid /\ (d # c => task'[d] = task[d])
      /\ task'[c].st = "ended" /\ task'[c].out = out
  BY Zenon, <1>1 DEF Becomes
<1>4. phase' = phase \/ phase' = Failed
  BY Zenon DEF End, EndPhase
<1>5. ServerTypes'
  <2>1. Failed \in Phases
    BY Zenon DEF Failed, Phase, Phases
  <2>2. issues' \in SUBSET Conns
    BY Zenon DEF End, Settle, ServerInv, ServerTypes, issueVars
  <2> QED BY <1>1, <1>2, <1>4, <2>1, <2>2 DEF ServerInv, ServerTypes, TaskStep, loopVars, cancelVars, Becomes
<1>6. /\ Failed.tag = "Failed"
      /\ phase' = phase /\ phase.tag \in Undergoing => phase.primary # c
  <2>1. Failed.tag = "Failed"
    BY Zenon DEF Failed, Phase
  <2>2. ASSUME phase' = phase, phase.tag \in Undergoing, phase.primary = c PROVE FALSE
    <3>1. HasActivation /\ phase.tag # "FinishedAckCommitted" /\ phase # Failed
      BY Zenon, <2>1, <2>2 DEF ServerInv, Applied, Undergoing
    <3>2. task[c].st # "spawned"
      BY Zenon, <2>2 DEF ServerInv, Lifecycle, Awaiting, InFlight
    <3>3. out # "ok"
      BY Zenon, <2>2, <3>1 DEF ClosedOk
    <3> QED BY Zenon, <2>2, <3>1, <3>2, <3>3 DEF End, EndPhase
  <2> QED BY Zenon, <2>1, <2>2
<1>7. Lifecycle'
  BY <1>2, <1>3, <1>4, <1>6 DEF ServerInv, Lifecycle, AckedIn, Undergoing
<1>8. Receipted'
  <2>1. \A d \in Conns : task'[d].st \in InFlight => task[d].st \in InFlight
    BY Zenon, <1>3 DEF InFlight
  <2> QED BY Zenon, <1>2, <1>4, <1>6, <2>1 DEF ServerInv, Receipted, FinishedIsQuiet
<1>9. Applied'
  <2>1. Applying' = Applying \ {c} /\ Applying \subseteq Conns /\ (c \in Applying <=> task[c].st \in InFlight)
    BY <1>1, CountedMove DEF InFlight, Applying
  <2>2. CASE ~HasActivation
    BY Zenon, <1>2, <2>2 DEF ServerInv, Applied, HasActivation, End, EndPhase
  <2>3. CASE HasActivation
    <3>1. applications' = Cardinality(Applying')
      <4>1. CASE task[c].st \in InFlight
        BY <2>1, <2>3, <4>1, ConnsCount DEF ServerInv, Applied, End
      <4>2. CASE task[c].st \notin InFlight
        <5>1. Applying' = Applying
          BY Zenon, <2>1, <4>2
        <5> QED BY Zenon, <5>1, <2>3, <4>2 DEF ServerInv, Applied, End
      <4> QED BY Zenon, <4>1, <4>2
    <3> QED BY Zenon, <1>2, <2>3, <3>1 DEF Applied, HasActivation
  <2> QED BY Zenon, <2>2, <2>3
<1>10. Issued'
  <2>1. /\ Alive' = Alive \ {c} /\ c \in Alive /\ Alive \subseteq Conns /\ issues \subseteq Conns
        /\ c \notin issues
    BY <1>1, CountedMove DEF Alive, Awaiting, InFlight, ServerInv, ServerTypes, Issued, Live
  <2>2. /\ Cardinality(Alive') = Cardinality(Alive) - 1 /\ Cardinality(Alive) \in Nat
        /\ Cardinality(issues \cup {c}) = Cardinality(issues) + 1 /\ Cardinality(issues) \in Nat
    BY Zenon, <2>1, ConnsCount
  <2>3. \A d \in issues' : task'[d].st \in {"ended", "joined"}
    BY <1>3 DEF ServerInv, Issued, ServerTypes, End, Settle, issueVars
  <2>4. CASE ~HasIssues
    BY Zenon, <1>2, <2>3, <2>4 DEF ServerInv, Issued, HasIssues, End, Settle, issueVars
  <2>5. CASE HasIssues
    <3>1. reserved = Cardinality(issues) + Cardinality(Alive) /\ reserved <= IssueCap
      BY Zenon, <2>5 DEF ServerInv, Issued
    <3>2. \/ issues' = issues \cup {c} /\ reserved' = reserved
          \/ issues' = issues /\ reserved' = reserved - 1
      BY Zenon, <2>5 DEF End, Settle
    <3>3. reserved' = Cardinality(issues') + Cardinality(Alive') /\ reserved' <= IssueCap
      <4>1. CASE issues' = issues \cup {c} /\ reserved' = reserved
        BY <2>2, <3>1, <4>1
      <4>2. CASE issues' = issues /\ reserved' = reserved - 1
        BY <2>2, <3>1, <4>2, CapsAssumption
      <4> QED BY Zenon, <3>2, <4>1, <4>2
    <3> QED BY Zenon, <1>2, <2>3, <2>5, <3>3 DEF Issued, HasIssues
  <2> QED BY Zenon, <2>4, <2>5
<1>11. Outcomes'
  BY <1>2, <1>3 DEF ServerInv, Outcomes, Live, Awaiting, InFlight
<1> QED BY Zenon, <1>5, <1>7, <1>8, <1>9, <1>10, <1>11 DEF ServerInv

\* A control is staged: its connection is the primary, and after Finished
\* nothing is in the tool.
LEMMA ControlStaged ==
    ASSUME ServerInv, NEW c \in Conns, NEW k \in Controls, NEW digest \in BOOLEAN,
           task[c].st = "reading", TaskStep(c), HasActivation, StageOk(c, task[c].pid, k, digest),
           stage(c, k), UNCHANGED <<applications, issueVars, acks, receipt, options>>,
           task' = [task EXCEPT ![c].st = "acking", ![c].control = k]
    PROVE  ServerInv'
<1>1. Becomes(c, "acking", k, task[c].out)
  <2>1. "acking" \in TaskStates /\ ServerTypes
    BY Zenon DEF TaskStates, Awaiting, ServerInv
  <2> QED BY Zenon, <2>1, TaskFields
<1>2. /\ root' = root /\ options' = options /\ acks' = acks /\ receipt' = receipt
      /\ applications' = applications /\ issues' = issues /\ reserved' = reserved
      /\ accepting' = accepting /\ overflow' = overflow
      /\ joined' = joined /\ idle' = idle /\ drained' = drained
  BY Zenon DEF TaskStep, loopVars, cancelVars, issueVars
<1>3. /\ \A d \in Conns : /\ task'[d].pid = task[d].pid /\ task'[d].out = task[d].out
                          /\ d # c => task'[d] = task[d]
      /\ task'[c].st = "acking" /\ task'[c].control = k
  BY Zenon, <1>1 DEF Becomes
<1>4. phase'.tag = "Pending" /\ phase'.primary = c /\ phase'.control = k /\ phase' \in Phases
  BY Zenon DEF stage, Phase, Phases
<1>5. ServerTypes'
  BY <1>1, <1>2, <1>4 DEF ServerInv, ServerTypes, TaskStep, loopVars, cancelVars, Becomes
<1>6. Applying' = Applying /\ Alive' = Alive
  <2>1. c \notin Applying /\ c \in Alive /\ "acking" \notin InFlight /\ "acking" \in Awaiting
    BY Zenon DEF Applying, Alive, InFlight, Awaiting, Live
  <2>2. Applying' = Applying \ {c} /\ Alive' = Alive \cup {c}
    BY Zenon, <1>1, <2>1, CountedMove
  <2> QED BY Zenon, <2>1, <2>2
<1>7. acks[c] = (CASE k = "Claim" -> <<>> [] k = "Started" -> <<"Claim">> [] k = "Finished" -> <<"Claim", "Started">>)
  BY Zenon DEF StageOk, ServerInv, Lifecycle, AckedIn, Undergoing, Controls
<1>8. Lifecycle'
  <2>1. AckedIn(c)'
    BY Zenon, <1>2, <1>4, <1>7 DEF AckedIn
  <2>2. root = task[c].pid
    BY Zenon DEF StageOk
  <2> QED BY Zenon, <1>2, <1>3, <1>4, <2>1, <2>2 DEF Lifecycle, Undergoing, Awaiting
<1>9. Receipted'
  <2>1. ~receipt
    BY Zenon DEF StageOk, HasFailed, ServerInv, Receipted
  <2>2. k = "Finished" => Applying = {}
    <3>1. k = "Finished" => Cardinality(Applying) = 0
      BY Zenon DEF StageOk, ServerInv, Applied
    <3>2. Applying \subseteq Conns
      BY Zenon DEF Applying
    <3> QED BY Zenon, <3>1, <3>2, ConnsCount
  <2>3. ~receipt' /\ phase'.tag = "Pending" /\ phase'.control = k
    BY <1>2, <1>4, <2>1
  <2>4. k = "Finished" => \A d \in Conns : task'[d].st \notin InFlight
    BY Zenon, <1>6, <2>2 DEF Applying
  <2> QED BY Zenon, <2>3, <2>4 DEF Receipted, FinishedIsQuiet
<1>10. Applied'
  BY Zenon, <1>2, <1>6 DEF ServerInv, Applied, HasActivation
<1>11. Issued'
  <2>1. c \notin issues
    BY Zenon DEF ServerInv, Issued
  <2> QED BY Zenon, <1>2, <1>3, <1>6, <2>1 DEF ServerInv, Issued, HasIssues, ServerTypes
<1>12. Outcomes'
  <2>1. \A d \in Conns : /\ task'[d].out = task[d].out
                         /\ task'[d].st = "joined" <=> task[d].st = "joined"
                         /\ task[d].st \in {"ended", "joined"} => task'[d].st \in {"ended", "joined"}
    BY Zenon, <1>3
  <2>2. ~drained'
    BY Zenon, <1>2 DEF ServerInv, Outcomes
  <2>3. \A o : {d \in Conns : task'[d].st = "joined" /\ task'[d].out = o}
                = {d \in Conns : task[d].st = "joined" /\ task[d].out = o}
    BY Zenon, <2>1
  <2>4. \A d \in Conns : task'[d].out \in {"request", "idle"} => task'[d].st \in {"ended", "joined"}
    BY Zenon, <2>1 DEF ServerInv, Outcomes
  <2> QED BY Zenon, <1>2, <2>2, <2>3, <2>4 DEF ServerInv, Outcomes
<1> QED BY Zenon, <1>5, <1>8, <1>9, <1>10, <1>11, <1>12 DEF ServerInv

\* The acknowledgements of a connection as they are appended.
LEMMA SecondAck ==
    ASSUME NEW a, NEW b PROVE Append(<<a>>, b) = <<a, b>>
<1>1. <<a>> \in Seq({a}) /\ Len(<<a>>) = 1 /\ <<a>>[1] = a
  OBVIOUS
<1>2. Append(<<a>>, b) = [i \in 1 .. 2 |-> IF i = 2 THEN b ELSE <<a>>[i]]
  BY <1>1 DEF Append
<1>3. \A i \in 1 .. 2 : (IF i = 2 THEN b ELSE <<a>>[i]) = <<a, b>>[i]
  BY <1>1
<1>4. <<a, b>> = [i \in 1 .. 2 |-> <<a, b>>[i]]
  OBVIOUS
<1> QED BY Zenon, <1>2, <1>3, <1>4

LEMMA ThirdAck ==
    ASSUME NEW a, NEW b, NEW c PROVE Append(<<a, b>>, c) = <<a, b, c>>
<1>1. <<a, b>> \in Seq({a, b}) /\ Len(<<a, b>>) = 2 /\ <<a, b>>[1] = a /\ <<a, b>>[2] = b
  OBVIOUS
<1>2. Append(<<a, b>>, c) = [i \in 1 .. 3 |-> IF i = 3 THEN c ELSE <<a, b>>[i]]
  BY <1>1 DEF Append
<1>3. \A i \in 1 .. 3 : (IF i = 3 THEN c ELSE <<a, b>>[i]) = <<a, b, c>>[i]
  BY <1>1
<1>4. <<a, b, c>> = [i \in 1 .. 3 |-> <<a, b, c>>[i]]
  OBVIOUS
<1> QED BY Zenon, <1>2, <1>3, <1>4

\* An acknowledgement is written and committed.
LEMMA AckCommitted ==
    ASSUME ServerInv, NEW c \in Conns, task[c].st = "acking", TaskStep(c), UNCHANGED options,
           CommitOk(c, task[c].control), commit(c, task[c].control), Goto(c, "reading"),
           acks' = [acks EXCEPT ![c] = Append(@, task[c].control)],
           receipt' = (receipt \/ task[c].control = "Finished"),
           UNCHANGED <<applications, issueVars>>
    PROVE  ServerInv'
<1> DEFINE k == task[c].control
<1>1. Becomes(c, "reading", task[c].control, task[c].out)
  BY Zenon, TaskFields DEF ServerInv, ServerTypes, TaskRecords, Outs, TaskStates, Awaiting, Goto, Controls
<1>2. /\ root' = root /\ options' = options
      /\ applications' = applications /\ issues' = issues /\ reserved' = reserved
      /\ accepting' = accepting /\ overflow' = overflow
      /\ joined' = joined /\ idle' = idle /\ drained' = drained
  BY Zenon DEF TaskStep, loopVars, cancelVars, issueVars
<1>3. /\ \A d \in Conns : /\ task'[d].pid = task[d].pid /\ task'[d].out = task[d].out
                          /\ d # c => task'[d] = task[d]
      /\ task'[c].st = "reading"
  BY Zenon, <1>1 DEF Becomes
<1>4. phase.tag = "Pending" /\ phase.primary = c /\ phase.control = k
  BY Zenon DEF CommitOk, Phase
<1>5. k \in Controls /\ task[c].pid = root
  BY Zenon, <1>4 DEF ServerInv, Lifecycle, Undergoing
<1>6. /\ phase' \in Phases /\ phase'.primary = c
      /\ phase'.tag = (CASE k = "Claim" -> "Claimed" [] k = "Started" -> "StartedAckCommitted"
                         [] k = "Finished" -> "FinishedAckCommitted")
  BY Zenon, <1>5 DEF commit, Phase, Phases, Controls
<1>7. /\ acks' \in [Conns -> Seq(Controls)] /\ acks'[c] = Append(acks[c], k)
  BY <1>5 DEF ServerInv, ServerTypes
<1>8. ServerTypes'
  BY Zenon, <1>1, <1>2, <1>6, <1>7 DEF ServerInv, ServerTypes, TaskStep, loopVars, cancelVars, Becomes
<1>9. Applying' = Applying /\ Alive' = Alive
  BY <1>1, CountedMove DEF Applying, Alive, InFlight, Awaiting, Live
<1>10. AckedIn(c)'
  <2>1. CASE k = "Claim"
    <3>1. acks[c] = <<>>
      BY Zenon, <1>4, <2>1 DEF ServerInv, Lifecycle, AckedIn, Undergoing
    <3> QED BY <1>6, <1>7, <2>1, <3>1 DEF AckedIn
  <2>2. CASE k = "Started"
    <3>1. acks[c] = <<"Claim">>
      BY Zenon, <1>4, <2>2 DEF ServerInv, Lifecycle, AckedIn, Undergoing
    <3>2. Append(<<"Claim">>, "Started") = <<"Claim", "Started">>
      BY Zenon, SecondAck
    <3> QED BY Zenon, <1>6, <1>7, <2>2, <3>1, <3>2 DEF AckedIn
  <2>3. CASE k = "Finished"
    <3>1. acks[c] = <<"Claim", "Started">>
      BY Zenon, <1>4, <2>3 DEF ServerInv, Lifecycle, AckedIn, Undergoing
    <3>2. Append(<<"Claim", "Started">>, "Finished") = <<"Claim", "Started", "Finished">>
      BY Zenon, ThirdAck
    <3> QED BY Zenon, <1>6, <1>7, <2>3, <3>1, <3>2 DEF AckedIn
  <2> QED BY Zenon, <1>5, <2>1, <2>2, <2>3 DEF Controls
<1>11. Lifecycle'
  <2>1. phase'.tag \in {"Claimed", "StartedAckCommitted", "FinishedAckCommitted"}
    BY Zenon, <1>5, <1>6 DEF Controls
  <2> QED BY Zenon, <1>2, <1>3, <1>5, <1>6, <1>10, <2>1 DEF Lifecycle, Undergoing, Awaiting
<1>12. Receipted'
  <2>1. ~receipt /\ (k = "Finished" => Applying = {})
    BY Zenon, <1>4 DEF ServerInv, Receipted, FinishedIsQuiet, Applying
  <2>2. receipt' <=> k = "Finished"
    BY Zenon, <2>1
  <2> QED BY Zenon, <1>5, <1>6, <1>9, <2>1, <2>2 DEF Receipted, FinishedIsQuiet, Applying, Controls
<1>13. Applied'
  BY Zenon, <1>2, <1>4, <1>9 DEF ServerInv, Applied, HasActivation
<1>14. Issued'
  <2>1. c \notin issues
    BY Zenon DEF ServerInv, Issued
  <2> QED BY Zenon, <1>2, <1>3, <1>9, <2>1 DEF ServerInv, Issued, HasIssues, ServerTypes
<1>15. Outcomes'
  BY <1>2, <1>3 DEF ServerInv, Outcomes
<1> QED BY Zenon, <1>8, <1>11, <1>12, <1>13, <1>14, <1>15 DEF ServerInv

-----------------------------------------------------------------------------
\* A connection is accepted, or the slots for issues have run out.
LEMMA AcceptKeeps ==
    ASSUME ServerInv, NEW c \in Conns, NEW p \in Pids, Accept(c, p), UNCHANGED options
    PROVE  ServerInv'
<1>1. /\ root' = root /\ phase' = phase /\ applications' = applications /\ options' = options
      /\ acks' = acks /\ receipt' = receipt /\ issues' = issues /\ accepting' = accepting
      /\ joined' = joined /\ idle' = idle /\ overflow' = overflow /\ drained' = drained
      /\ accepting /\ task[c].st = "none"
  BY Zenon DEF Accept, activationVars, cancelVars
<1>2. CASE task' = task /\ reserved' = reserved
  <2>1. Applying' = Applying /\ Alive' = Alive
    BY Zenon, <1>2 DEF Applying, Alive, Live
  <2>2. ServerTypes'
    BY Zenon, <1>1, <1>2 DEF ServerInv, ServerTypes, Accept, cancelVars
  <2>3. Lifecycle' /\ Receipted'
    BY Zenon, <1>1, <1>2 DEF ServerInv, Lifecycle, AckedIn, Receipted, FinishedIsQuiet
  <2>4. Applied' /\ Issued' /\ Outcomes'
    BY Zenon, <1>1, <1>2, <2>1 DEF ServerInv, Applied, HasActivation, Issued, HasIssues, Outcomes
  <2> QED BY Zenon, <2>2, <2>3, <2>4 DEF ServerInv
<1>3. CASE /\ ~(HasIssues /\ reserved = IssueCap)
           /\ task' = [task EXCEPT ![c] = [NoTask EXCEPT !.st = "spawned", !.pid = p]]
           /\ reserved' = IF HasIssues THEN reserved + 1 ELSE reserved
  <2> DEFINE r == [NoTask EXCEPT !.st = "spawned", !.pid = p]
  <2>1. r \in TaskRecords /\ r.st = "spawned" /\ r.out = "none"
    BY Zenon DEF NoTask, TaskRecords, TaskStates, Outs
  <2>2. task' \in [Conns -> TaskRecords] /\ task'[c] = r /\ \A d \in Conns : d # c => task'[d] = task[d]
    BY Zenon, <1>3, <2>1 DEF ServerInv, ServerTypes
  <2>3. Applying' = Applying /\ Alive' = Alive \cup {c} /\ c \notin Alive /\ Alive \subseteq Conns
    BY Zenon, <1>1, <2>1, <2>2 DEF Applying, Alive, Live, InFlight, Awaiting
  <2>4. ServerTypes'
    BY Zenon, <1>1, <1>3, <2>2 DEF ServerInv, ServerTypes, Accept, cancelVars
  <2>5. Lifecycle' /\ Receipted'
    BY Zenon, <1>1, <2>1, <2>2 DEF ServerInv, Lifecycle, AckedIn, Undergoing, Receipted, FinishedIsQuiet, InFlight
  <2>6. Applied'
    BY Zenon, <1>1, <2>3 DEF ServerInv, Applied, HasActivation
  <2>7. Issued'
    <3>1. /\ Cardinality(Alive') = Cardinality(Alive) + 1 /\ Cardinality(Alive) \in Nat
          /\ Cardinality(issues) \in Nat
      BY Zenon, <2>3, ConnsCount DEF ServerInv, ServerTypes
    <3>2. c \notin issues
      BY Zenon, <1>1 DEF ServerInv, Issued
    <3> QED BY <1>1, <1>3, <2>2, <3>1, <3>2, CapsAssumption DEF ServerInv, Issued, HasIssues, ServerTypes
  <2>8. Outcomes'
    <3>1. \A d \in Conns : /\ task'[d].st = "joined" <=> task[d].st = "joined"
                           /\ task'[d].out \in {"request", "idle"} =>
                                task'[d].out = task[d].out /\ task'[d].st = task[d].st
                           /\ task'[d].st = "joined" => task'[d].out = task[d].out
      BY Zenon, <1>1, <2>1, <2>2
    <3>2. ~drained
      BY Zenon, <1>1 DEF ServerInv, Outcomes
    <3> QED BY <1>1, <3>1, <3>2 DEF ServerInv, Outcomes
  <2> QED BY Zenon, <2>4, <2>5, <2>6, <2>7, <2>8 DEF ServerInv
<1> QED BY Zenon, <1>2, <1>3 DEF Accept

\* A task is joined and its outcome kept, or the overflow noted.
LEMMA JoinKeeps ==
    ASSUME ServerInv, NEW c \in Conns, Join(c), UNCHANGED options
    PROVE  ServerInv'
<1>1. /\ root' = root /\ phase' = phase /\ applications' = applications /\ options' = options
      /\ acks' = acks /\ receipt' = receipt /\ issues' = issues /\ reserved' = reserved
      /\ accepting' = accepting /\ drained' = drained
      /\ task[c].st = "ended"
  BY Zenon DEF Join, activationVars, issueVars
<1>2. task[c].out \in Outs
  BY Zenon DEF ServerInv, ServerTypes, TaskRecords
<1>3. Becomes(c, "joined", task[c].control, task[c].out)
  <2>1. "joined" \in TaskStates /\ ServerTypes /\ task' = [task EXCEPT ![c].st = "joined"]
    BY Zenon DEF TaskStates, ServerInv, Join
  <2> QED BY Zenon, <2>1, TaskFields
<1>4. /\ \A d \in Conns : /\ task'[d].pid = task[d].pid /\ task'[d].out = task[d].out
                          /\ d # c => task'[d] = task[d]
      /\ task'[c].st = "joined"
  BY Zenon, <1>3 DEF Becomes
<1>5. Applying' = Applying /\ Alive' = Alive
  BY <1>1, <1>3, CountedMove DEF Applying, Alive, InFlight, Awaiting, Live
<1>6. ServerTypes'
  <2>1. joined' \in SUBSET Conns /\ idle' \in SUBSET Conns /\ overflow' \in BOOLEAN
    BY Zenon DEF Join, ServerInv, ServerTypes
  <2>2. srv' \in {"head", "polled", "aborting", "stopped"}
    BY Zenon DEF Join, ServerInv, ServerTypes
  <2> QED BY Zenon, <1>1, <1>3, <2>1, <2>2 DEF ServerInv, ServerTypes, Join, Becomes
<1>7. Lifecycle' /\ Receipted'
  BY <1>1, <1>4, <1>5 DEF ServerInv, Lifecycle, AckedIn, Undergoing, Receipted, FinishedIsQuiet, Applying, Awaiting, InFlight
<1>8. Applied' /\ Issued'
  BY Zenon, <1>1, <1>4, <1>5 DEF ServerInv, Applied, HasActivation, Issued, HasIssues, ServerTypes
<1>9. Outcomes'
  <2>1. ~drained
    BY Zenon, <1>1 DEF ServerInv, Outcomes
  <2>2. ~overflow' => /\ ~overflow
                      /\ joined' = IF task[c].out = "request" THEN joined \cup {c} ELSE joined
                      /\ idle' = IF task[c].out = "idle" THEN idle \cup {c} ELSE idle
    BY Zenon DEF Join
  <2> QED BY <1>1, <1>4, <2>1, <2>2 DEF ServerInv, Outcomes
<1> QED BY Zenon, <1>6, <1>7, <1>8, <1>9 DEF ServerInv

\* The loop and the launcher leave every task alone.
LEMMA OwnersKeep ==
    ASSUME ServerInv, UNCHANGED options,
           \/ PollLoop \/ StopAccepting \/ Stop \/ PlanShutdown
           \/ \E p \in Pids \cup {NoPid} : BindRoot(p)
           \/ \E p \in Pids : RequestCancel(p)
           \/ \E err \in BOOLEAN : StopServing(err)
    PROVE  ServerInv'
<1>1. /\ task' = task /\ applications' = applications /\ options' = options /\ acks' = acks
      /\ receipt' = receipt /\ issues' = issues /\ reserved' = reserved
      /\ joined' = joined /\ idle' = idle /\ overflow' = overflow
  BY Zenon DEF PollLoop, StopAccepting, Stop, PlanShutdown, BindRoot, RequestCancel, StopServing, bind_root,
         activationVars, cancelVars, issueVars
<1>2. \/ phase' = phase /\ root' = root
      \/ phase' = Failed /\ root' = root /\ HasActivation
      \/ phase.tag = "AwaitingRoot" /\ phase' = Phase("AwaitingClaim", NoConn, "none") /\ HasActivation
  BY Zenon DEF PollLoop, StopAccepting, Stop, PlanShutdown, BindRoot, RequestCancel, StopServing, bind_root,
         activationVars
<1>3. /\ Failed \in Phases /\ Failed.tag = "Failed"
      /\ Phase("AwaitingClaim", NoConn, "none") \in Phases
      /\ Phase("AwaitingClaim", NoConn, "none").tag = "AwaitingClaim"
  BY Zenon DEF Failed, Phase, Phases
<1>4. Applying' = Applying /\ Alive' = Alive
  BY Zenon, <1>1 DEF Applying, Alive, Live
<1>5. ServerTypes'
  <2>1. phase' \in Phases /\ root' \in Pids \cup {NoPid}
    BY Zenon, <1>2, <1>3 DEF ServerInv, ServerTypes, PollLoop, StopAccepting, Stop, PlanShutdown, BindRoot,
       RequestCancel, StopServing, bind_root, activationVars
  <2>2. /\ srv' \in {"head", "polled", "aborting", "stopped"} /\ accepting' \in BOOLEAN
        /\ serveErr' \in BOOLEAN /\ drained' \in BOOLEAN /\ planned' \in BOOLEAN
    BY Zenon DEF ServerInv, ServerTypes, PollLoop, StopAccepting, Stop, PlanShutdown, BindRoot,
       RequestCancel, StopServing, loopVars, cancelVars
  <2>3. process' \in Pids \cup {NoPid} /\ midpoll' \in SUBSET Conns
    BY Zenon DEF ServerInv, ServerTypes, PollLoop, StopAccepting, Stop, PlanShutdown, BindRoot,
       RequestCancel, StopServing, cancelVars
  <2> QED BY Zenon, <1>1, <2>1, <2>2, <2>3 DEF ServerInv, ServerTypes
<1>6. Lifecycle' /\ Receipted'
  BY Zenon, <1>1, <1>2, <1>3, <1>4 DEF ServerInv, Lifecycle, AckedIn, Undergoing, Receipted, FinishedIsQuiet, Applying
<1>7. Applied' /\ Issued'
  BY Zenon, <1>1, <1>2, <1>4 DEF ServerInv, Applied, HasActivation, Issued, HasIssues
<1>8. Outcomes'
  <2>1. /\ accepting' => accepting
        /\ drained' => drained \/ (~accepting /\ ~\E c \in Conns : Live(c) \/ task[c].st = "ended")
    BY DEF ServerInv, ServerTypes, PollLoop, StopAccepting, Stop, PlanShutdown, BindRoot,
       RequestCancel, StopServing, loopVars, cancelVars
  <2>2. \A c \in Conns : task[c].st \in TaskStates
    BY Zenon DEF ServerInv, ServerTypes, TaskRecords
  <2> QED BY Zenon, <1>1, <2>1, <2>2 DEF ServerInv, Outcomes, ServerTypes, Live, TaskStates
<1> QED BY Zenon, <1>5, <1>6, <1>7, <1>8 DEF ServerInv

-----------------------------------------------------------------------------
\* Every step of a connection's task.
LEMMA TaskKeeps ==
    ASSUME ServerInv, UNCHANGED options, NEW c \in Conns,
           \/ \E ok \in BOOLEAN : Setup(c, ok)
           \/ WriteConfig(c) \/ ReadClosed(c) \/ ReadCapture(c)
           \/ \E k \in Controls, digest \in BOOLEAN : ReadControl(c, k, digest)
           \/ \E p \in Pids : ReadRequest(c, p)
           \/ WriteAck(c) \/ Receive(c) \/ Respond(c) \/ WriteReply(c)
           \/ FailIo(c) \/ Panic(c) \/ SeeIntent(c) \/ Abort(c)
    PROVE  ServerInv'
<1> USE DEF Outs, Awaiting, InFlight
<1>1. \A st \in Awaiting : task' = [task EXCEPT ![c].st = st] => Becomes(c, st, task[c].control, task[c].out)
  BY Zenon, TaskFields DEF ServerInv, TaskStates, Controls
<1>2. ASSUME NEW ok \in BOOLEAN, Setup(c, ok) PROVE ServerInv'
  <2>1. CASE End(c, "error")
    BY Zenon, <1>2, <2>1, TaskEnds DEF Setup, Live
  <2>2. CASE Goto(c, "config") /\ UNCHANGED <<phase, applications>> /\ Keep
    BY <1>1, <1>2, <2>2, TaskGoesOn DEF Setup, Live, Goto, Keep, issueVars
  <2> QED BY Zenon, <1>2, <2>1, <2>2 DEF Setup
<1>3. CASE WriteConfig(c) \/ Receive(c) \/ Respond(c)
  BY <1>1, <1>3, TaskGoesOn DEF WriteConfig, Receive, Respond, Live, Goto, Keep, issueVars
<1>4. CASE WriteReply(c)
  BY <1>1, <1>4, TaskGoesOn DEF WriteReply, Live, Goto, Keep, issueVars
<1>5. CASE ReadClosed(c)
  BY Zenon, <1>5, TaskEnds DEF ReadClosed, Live
<1>6. CASE ReadCapture(c)
  <2>1. CASE End(c, "error")
    BY Zenon, <1>6, <2>1, TaskEnds DEF ReadCapture, Live
  <2>2. CASE Goto(c, "capturing") /\ UNCHANGED <<phase, applications>> /\ Keep
    BY <1>1, <1>6, <2>2, TaskGoesOn DEF ReadCapture, Live, Goto, Keep, issueVars
  <2> QED BY Zenon, <1>6, <2>1, <2>2 DEF ReadCapture
<1>7. ASSUME NEW k \in Controls, NEW digest \in BOOLEAN, ReadControl(c, k, digest) PROVE ServerInv'
  <2>1. CASE End(c, "error")
    BY Zenon, <1>7, <2>1, TaskEnds DEF ReadControl, Live
  <2>2. CASE /\ HasActivation /\ StageOk(c, task[c].pid, k, digest)
             /\ stage(c, k) /\ UNCHANGED applications /\ Keep
             /\ task' = [task EXCEPT ![c].st = "acking", ![c].control = k]
    BY Zenon, <1>7, <2>2, ControlStaged DEF ReadControl, Keep
  <2> QED BY Zenon, <1>7, <2>1, <2>2 DEF ReadControl
<1>8. ASSUME NEW p \in Pids, ReadRequest(c, p) PROVE ServerInv'
  <2>1. CASE End(c, "error")
    BY Zenon, <1>8, <2>1, TaskEnds DEF ReadRequest, Live
  <2>2. CASE /\ HasActivation => ApplicationOk(c, p)
             /\ task' = [task EXCEPT ![c].st = "dispatched", ![c].asked = TRUE]
             /\ applications' = IF HasActivation THEN applications + 1 ELSE applications
             /\ UNCHANGED phase /\ Keep
    <3>1. Becomes(c, "dispatched", task[c].control, task[c].out)
      BY Zenon, <2>2, TaskFields DEF ServerInv, TaskStates, Controls
    <3> QED BY Zenon, <1>8, <2>2, <3>1, TaskGoesOn DEF ReadRequest, ApplicationOk, Live, Keep, issueVars
  <2> QED BY Zenon, <1>8, <2>1, <2>2 DEF ReadRequest
<1>9. CASE WriteAck(c)
  <2>1. CASE End(c, "error")
    BY Zenon, <1>9, <2>1, TaskEnds DEF WriteAck, Live
  <2>2. CASE ~End(c, "error")
    BY Zenon, <1>9, <2>2, AckCommitted DEF WriteAck
  <2> QED BY Zenon, <2>1, <2>2
<1>10. CASE FailIo(c) \/ Panic(c) \/ SeeIntent(c) \/ Abort(c)
  <2>1. \E out \in {"error", "panic", "request", "idle", "abort"} : End(c, out) /\ TaskStep(c) /\ Live(c)
    BY Zenon, <1>10 DEF FailIo, Panic, SeeIntent, Abort, Live
  <2> QED BY Zenon, <2>1, TaskEnds
<1> QED BY Zenon, <1>2, <1>3, <1>4, <1>5, <1>6, <1>7, <1>8, <1>9, <1>10

\* The invariant holds when the server is built.
LEMMA ServerStarts == ServerInit => ServerInv
<1> SUFFICES ASSUME ServerInit PROVE ServerInv
  OBVIOUS
<1>1. task \in [Conns -> TaskRecords] /\ \A c \in Conns : task[c].st = "none" /\ task[c].out = "none"
  BY Zenon DEF ServerInit, NoTask, TaskRecords, TaskStates, Outs
<1>2. phase \in Phases /\ phase.tag = "AwaitingRoot"
  BY Zenon DEF ServerInit, ActivationInit, Phase, Phases
<1>3. Applying = {} /\ Alive = {}
  BY Zenon, <1>1 DEF Applying, Alive, Live, InFlight, Awaiting
<1>4. Cardinality({}) = 0
  BY Zenon, FS_EmptySet
<1>5. ServerTypes
  <2>1. acks \in [Conns -> Seq(Controls)]
    BY DEF ServerInit
  <2> QED BY Zenon, <1>1, <1>2, <2>1 DEF ServerTypes, ServerInit, ActivationInit
<1>6. Lifecycle /\ Receipted
  BY Zenon, <1>1, <1>2, <1>3 DEF Lifecycle, Undergoing, Receipted, FinishedIsQuiet, ServerInit, Applying
<1>7. Applied /\ Issued /\ Outcomes
  BY <1>1, <1>2, <1>3, <1>4, CapsAssumption DEF Applied, Issued, Outcomes, ServerInit, ActivationInit
<1> QED BY Zenon, <1>5, <1>6, <1>7 DEF ServerInv

\* Every step keeps the invariant.
LEMMA ServerKeeps == ServerInv /\ [ServerNext /\ UNCHANGED options]_<<serverVars, options>> => ServerInv'
<1> SUFFICES ASSUME ServerInv, [ServerNext /\ UNCHANGED options]_<<serverVars, options>>
             PROVE  ServerInv'
  OBVIOUS
<1>1. CASE UNCHANGED <<serverVars, options>>
  <2>1. Applying' = Applying /\ Alive' = Alive
    BY Zenon, <1>1 DEF Applying, Alive, Live, serverVars
  <2>2. ServerTypes' /\ Lifecycle' /\ Receipted'
    BY <1>1 DEF ServerInv, ServerTypes, Lifecycle, AckedIn, Receipted, FinishedIsQuiet,
       serverVars, activationVars, loopVars, cancelVars, issueVars
  <2>3. Applied' /\ Issued' /\ Outcomes'
    BY Zenon, <1>1, <2>1 DEF ServerInv, Applied, Issued, HasIssues, HasActivation, Outcomes,
       serverVars, activationVars, loopVars, cancelVars, issueVars
  <2> QED BY Zenon, <2>2, <2>3 DEF ServerInv
<1>2. CASE ServerNext /\ UNCHANGED options
  BY ZenonT(30), <1>2, TaskKeeps, OwnersKeep, AcceptKeeps, JoinKeeps DEF ServerNext, Loop
<1> QED BY Zenon, <1>1, <1>2

\* The invariant says what the three properties say.
LEMMA ServerInvImplies == ServerInv => LifecycleSafe /\ ReservationsAccounted /\ DrainIsExact
<1> SUFFICES ASSUME ServerInv PROVE LifecycleSafe /\ ReservationsAccounted /\ DrainIsExact
  OBVIOUS
<1>1. \A c \in Conns : task[c].st \in {"none", "spawned", "ended", "joined"} \cup Awaiting
  BY Zenon DEF ServerInv, ServerTypes, TaskRecords, TaskStates
<1>2. applications \in 0 .. Cardinality(Conns)
  <2>1. Applying \subseteq Conns
    BY Zenon DEF Applying
  <2>2. Cardinality(Applying) \in Nat /\ Cardinality(Applying) <= Cardinality(Conns) /\ Cardinality(Conns) \in Nat
    BY Zenon, <2>1, ConnsCount
  <2> QED BY <2>2 DEF ServerInv, Applied
<1>3. reserved \in 0 .. IssueCap
  <2>1. Alive \subseteq Conns /\ issues \subseteq Conns
    BY Zenon DEF Alive, ServerInv, ServerTypes
  <2>2. Cardinality(Alive) \in Nat /\ Cardinality(issues) \in Nat
    BY Zenon, <2>1, ConnsCount
  <2> QED BY <2>2, CapsAssumption DEF ServerInv, Issued
<1>4. ServerTypeOK
  BY Zenon, <1>1, <1>2, <1>3 DEF ServerInv, ServerTypes, ServerTypeOK
<1>5. ReceiptIsEarned /\ FinishedIsQuiet /\ PrimaryIsThere
  BY Zenon DEF ServerInv, Lifecycle, AckedIn, Undergoing, Receipted, ReceiptIsEarned, PrimaryIsThere, Live
<1>6. ReservationsAccounted
  BY Zenon DEF ServerInv, Issued, ReservationsAccounted, Alive
<1>7. DrainIsExact
  <2>1. \A c \in Conns : drained /\ task[c].out \in {"request", "idle"} => task[c].st = "joined"
    BY Zenon DEF ServerInv, Outcomes
  <2> QED BY Zenon, <2>1 DEF ServerInv, Outcomes, DrainIsExact
<1> QED BY Zenon, <1>4, <1>5, <1>6, <1>7 DEF LifecycleSafe

\* The invariant holds in every behaviour.
LEMMA ServerInvariant == ServerSpec => []ServerInv
<1> QED BY ServerStarts, ServerKeeps, PTL DEF ServerSpec

\* Whatever connections send, however tasks and the loop interleave and
\* whatever fails, panics or is aborted: a FinishedAck is given only after
\* the three acknowledgements on one connection of the bound root, nothing
\* enters the tool after Finished, and a run whose primary is gone has failed.
THEOREM LifecycleIsSafe == ServerSpec => []LifecycleSafe
BY ServerInvariant, ServerInvImplies, PTL

\* The reservations of RpcIssueMonitor are the live tasks and the retained
\* issues, for every cap.
THEOREM NoReservationLeaks == ServerSpec => []ReservationsAccounted
BY ServerInvariant, ServerInvImplies, PTL

\* A reported drain leaves no task behind and names every cancelled one,
\* unless it says that it could not.
THEOREM DrainsAreExact == ServerSpec => []DrainIsExact
BY ServerInvariant, ServerInvImplies, PTL

=============================================================================
