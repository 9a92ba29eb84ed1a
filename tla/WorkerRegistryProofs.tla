------------------------ MODULE WorkerRegistryProofs ------------------------
(***************************************************************************)
(* Proofs about WorkerRegistry: the steps that change the generation of    *)
(* reapers, that every step keeps the invariant, and what follows from it. *)
(***************************************************************************)
EXTENDS WorkerRecordProofs, FiniteSetTheorems

-----------------------------------------------------------------------------
(* What a reaper does while its generation runs. *)

\* A reaper past its wait is the one that runs.
LEMMA RunningReaper ==
    ASSUME WorkersInv, NEW g \in Connections, rpr[g].pc \in Reaping \ {"wait"}
    PROVE  /\ OneGeneration /\ Joins /\ g # NoOne
           /\ phase = "Running" /\ start = g /\ current = g /\ g \notin cancelled
           /\ ~recovering_current /\ (recovering_retiring <=> rpr[g].pc = "join_retiring")
  BY Zenon, Parts DEF ReaperOK, OneGeneration

\* Joining a helper: the generation goes on running.
LEMMA KeepsRunning ==
    ASSUME WorkersInv, NEW g \in Connections, NEW c \in Connections,
           rpr[g].pc \in {"loop", "join_helper", "remove"},
           rpr'[g].pc \in {"loop", "join_helper", "remove"},
           UNCHANGED <<phase, current, retiring, recovering_current, recovering_retiring, start,
                       entered, cancelled, ctor, wrk>>,
           \A h \in Connections \ {g} : rpr'[h] = rpr[h],
           \A d \in Connections \ {c} : hlp'[d] = hlp[d] /\ (d \in records => d \in records'),
           OtherRecords(c), SameRecovery(c), OtherCompletions(c),
           rec'[c].assignment = rec[c].assignment,
           hlp[c].pc \in {"ended", "joined"}, hlp'[c].pc \in {hlp[c].pc, "joined"},
           completion'[c].current = completion[c].current,
           completion'[c].retiring = completion[c].retiring,
           TablesOK', Joins', LocalOK(c)'
    PROVE  Settled
<1>1. /\ OneGeneration /\ g # NoOne /\ phase = "Running" /\ start = g /\ current = g /\ g \notin cancelled
      /\ ~recovering_current /\ ~recovering_retiring
  BY Zenon, RunningReaper DEF Reaping
<1>2. /\ OneGeneration'
      /\ \A d \in Connections : rpr'[d].pc = "none" <=> rpr[d].pc = "none"
  BY Zenon, <1>1 DEF OneGeneration, Retired, Reaping
<1>3. InPhase(c)' /\ \A d \in Connections \ {c} : LocalOK(d)' /\ InPhase(d)'
  <2>1. Apart(c)
    BY Zenon DEF Apart, Same, OtherRecords, OtherCompletions
  <2>2. InPhase(c)'
    BY ZenonT(30), <1>1, <1>2, Parts DEF InPhase, Owning, UnderWay, HoldsReplaced, HoldsStarting
  <2>3. QED BY Zenon, <1>2, <2>1, <2>2, ElsewhereStays
<1>4. ASSUME NEW d \in Connections PROVE ReaperOK(d)'
  <2>1. /\ ReaperOK(d) /\ d # NoOne /\ (d # g => rpr'[d] = rpr[d])
        /\ rec'[d].retiring = rec[d].retiring /\ completion'[d].current = completion[d].current
        /\ completion'[d].retiring = completion[d].retiring
    BY Zenon, Parts DEF OtherRecords, OtherCompletions, SameRecovery
  <2>2. rec[d].retiring \in Connections /\ rpr[rec[d].retiring].pc = "joined" => rpr'[rec[d].retiring].pc = "joined"
    BY Zenon
  <2>3. QED BY Zenon, <1>1, <2>1, <2>2 DEF ReaperOK, Held, Reaping
<1>5. QED BY Zenon, <1>2, <1>3, <1>4 DEF Settled

\* The reaper takes the handle of a helper that has completed.
LEMMA HelperReaped ==
    ASSUME WorkersInv, NEW g \in Connections, NEW c \in Connections, ReapHelper(g, c)
    PROVE  Settled
<1>1. /\ rpr[g].pc = "loop" /\ rec[c].helper /\ hlp[c].pc = "ended"
      /\ rec' = [rec EXCEPT ![c].helper = FALSE, ![c].helper_joining = TRUE,
                            ![c].helper_failed_start = rec[c].helper_failed_start \/ ~rec[c].helper_ready]
      /\ rpr' = [rpr EXCEPT ![g] = [pc |-> "join_helper", joins |-> c]]
      /\ phase' = phase /\ current' = current /\ retiring' = retiring /\ start' = start
      /\ recovering_current' = recovering_current /\ recovering_retiring' = recovering_retiring
      /\ entered' = entered /\ cancelled' = cancelled /\ ctor' = ctor /\ wrk' = wrk
      /\ records' = records /\ hlp' = hlp /\ completion' = completion
  BY Zenon DEF ReapHelper, Finished, registryVars
<1>2. /\ RecOK' /\ OtherRecords(c) /\ SameRecovery(c)
      /\ rec'[c].helper = FALSE /\ rec'[c].helper_joining = TRUE
      /\ rec'[c].helper_started = rec[c].helper_started
      /\ rec'[c].helper_ready = rec[c].helper_ready
      /\ rec'[c].assignment = rec[c].assignment
  <2>1. (rec[c].helper_failed_start \/ ~rec[c].helper_ready) \in BOOLEAN
    OBVIOUS
  <2>2. QED BY Zenon, <1>1, <2>1, RecJoining DEF WorkersInv, TablesOK
<1>3. /\ RprOK' /\ rpr'[g].pc = "join_helper" /\ rpr'[g].joins = c
      /\ (\A h \in Connections \ {g} : rpr'[h] = rpr[h])
  BY Zenon, <1>1, RprPut DEF WorkersInv, TablesOK, RprPcs, Maybe
<1>4. TablesOK'
  BY Zenon, <1>1, <1>2, <1>3, TablesStay DEF WorkersInv, TablesOK
<1>5. phase = "Running" /\ start = g /\ Joins
  BY Zenon, <1>1, RunningReaper DEF Reaping
<1>6. LocalOK(c)'
  <2>1. LocalOK(c) /\ InPhase(c) /\ ReaperOK(c) /\ OneGeneration /\ c # NoOne
    BY Zenon, Parts
  <2>2. QED BY Zenon, <1>1, <1>2, <2>1 DEF LocalOK, ConstructorOK, HelperOK, WorkerOK, Kept, Owning
<1>7. Joins'
  <2>1. \A d \in Connections : rec'[d].helper_joining => d = c
    BY <1>1, <1>2, <1>5 DEF Joins, OtherRecords
  <2>2. phase' = "Running" /\ start' = g /\ hlp'[c].pc = "ended"
    BY Zenon, <1>1, <1>5
  <2>3. QED BY Zenon, <1>2, <1>3, <2>1, <2>2 DEF Joins
<1>8. QED BY Zenon, <1>1, <1>2, <1>3, <1>4, <1>6, <1>7, KeepsRunning DEF OtherCompletions

\* The reaper has joined that helper.
LEMMA HelperIsJoined ==
    ASSUME WorkersInv, NEW g \in Connections, JoinHelper(g)
    PROVE  Settled
<1>1. PICK c \in Connections :
        /\ c = rpr[g].joins /\ phase = "Running" /\ start = g /\ Joins
        /\ hlp[c].pc = "ended" /\ rec[c].helper_joining /\ rpr[g].pc = "join_helper"
  BY Zenon, RunningReaper DEF Reaping, JoinHelper, Joins
<1>2. /\ Hlp(c, "joined") /\ Rpr(g, "remove")
      /\ completion' = [completion EXCEPT ![c].helper = IF hlp[c].panicked THEN "Panicked" ELSE "Ok"]
      /\ phase' = phase /\ current' = current /\ retiring' = retiring /\ start' = start
      /\ recovering_current' = recovering_current /\ recovering_retiring' = recovering_retiring
      /\ entered' = entered /\ cancelled' = cancelled /\ ctor' = ctor /\ wrk' = wrk
      /\ records' = records /\ rec' = rec
  BY Zenon, <1>1 DEF JoinHelper, registryVars
<1>3. /\ CompletionOK' /\ OtherCompletions(c) /\ completion'[c].helper # "none"
      /\ completion'[c].worker = completion[c].worker
      /\ completion'[c].current = completion[c].current
      /\ completion'[c].retiring = completion[c].retiring
  <2>1. PICK r \in {"Ok", "Panicked"} : completion' = [completion EXCEPT ![c].helper = r]
    BY Zenon, <1>2
  <2>2. QED BY Zenon, <2>1, CompletionSet DEF WorkersInv, TablesOK
<1>4. /\ RprOK' /\ rpr'[g].pc = "remove" /\ rpr'[g].joins = c /\ (\A h \in Connections \ {g} : rpr'[h] = rpr[h])
      /\ HlpOK' /\ hlp'[c].pc = "joined" /\ (\A d \in Connections \ {c} : hlp'[d] = hlp[d])
  BY Zenon, <1>1, <1>2, RprPc, HlpPc DEF WorkersInv, TablesOK, RprPcs, HlpPcs
<1>5. TablesOK'
  BY Zenon, <1>2, <1>3, <1>4, TablesStay DEF WorkersInv, TablesOK
<1>6. LocalOK(c)'
  <2>1. LocalOK(c) /\ InPhase(c) /\ ReaperOK(c) /\ OneGeneration /\ c # NoOne
    BY Zenon, Parts
  <2>2. QED BY Zenon, <1>1, <1>2, <1>3, <1>4, <2>1 DEF LocalOK, ConstructorOK, HelperOK, WorkerOK, Kept, Owning
<1>7. Joins'
  <2>1. phase' = "Running" /\ start' = g /\ rec' = rec
    BY Zenon, <1>1, <1>2
  <2>2. QED BY <1>1, <1>4, <2>1 DEF Joins
<1>8. QED BY ZenonT(30), <1>1, <1>2, <1>3, <1>4, <1>5, <1>6, <1>7, KeepsRunning DEF OtherRecords, SameRecovery

\* The reaper removes the record of a connection whose helper is joined.
LEMMA RecordRemoved ==
    ASSUME WorkersInv, NEW g \in Connections, RemoveRecord(g)
    PROVE  Settled
<1>1. PICK c \in Connections :
        /\ c = rpr[g].joins /\ phase = "Running" /\ start = g /\ Joins
        /\ hlp[c].pc = "joined" /\ rec[c].helper_joining /\ rpr[g].pc = "remove"
  BY Zenon, RunningReaper DEF Reaping, RemoveRecord, Joins
<1>2. /\ rec' = [rec EXCEPT ![c].helper_joining = FALSE] /\ records' = records \ {c}
      /\ rpr' = [rpr EXCEPT ![g] = [pc |-> "loop", joins |-> NoOne]]
      /\ phase' = phase /\ current' = current /\ retiring' = retiring /\ start' = start
      /\ recovering_current' = recovering_current /\ recovering_retiring' = recovering_retiring
      /\ entered' = entered /\ cancelled' = cancelled /\ ctor' = ctor /\ wrk' = wrk
      /\ hlp' = hlp /\ completion' = completion
  BY Zenon, <1>1 DEF RemoveRecord
<1>3. /\ RecOK' /\ OtherRecords(c) /\ SameRecovery(c)
      /\ rec'[c].helper = rec[c].helper /\ ~rec'[c].helper_joining
      /\ rec'[c].helper_started = rec[c].helper_started
      /\ rec'[c].helper_ready = rec[c].helper_ready
      /\ rec'[c].assignment = rec[c].assignment
      /\ RprOK' /\ rpr'[g].pc = "loop" /\ (\A h \in Connections \ {g} : rpr'[h] = rpr[h])
  BY Zenon, <1>2, RecJoined, RprPut DEF WorkersInv, TablesOK, RprPcs, Maybe
<1>4. TablesOK'
  BY Zenon, <1>2, <1>3, TablesStay DEF WorkersInv, TablesOK
<1>5. LocalOK(c)'
  <2>1. LocalOK(c) /\ InPhase(c) /\ ReaperOK(c) /\ OneGeneration /\ c # NoOne
    BY Zenon, Parts
  <2>2. QED BY Zenon, <1>1, <1>2, <1>3, <2>1 DEF LocalOK, ConstructorOK, HelperOK, WorkerOK, Kept, Owning
<1>6. Joins'
  BY <1>1, <1>2, <1>3 DEF Joins, OtherRecords
<1>7. QED BY Zenon, <1>1, <1>2, <1>3, <1>4, <1>5, <1>6, KeepsRunning DEF OtherCompletions

\* The reaper takes the handle of the reaper it replaced.
LEMMA ReplacedReaped ==
    ASSUME WorkersInv, NEW g \in Connections, ReapRetiring(g)
    PROVE  Settled
<1>1. PICK j \in Connections :
        /\ j = retiring /\ j # NoOne /\ j # g /\ rpr[j].pc = "ended" /\ rpr[g].pc = "loop"
        /\ OneGeneration /\ Joins /\ g # NoOne /\ phase = "Running" /\ start = g
        /\ current = g /\ g \notin cancelled /\ ~recovering_current
  <2>1. rpr[g].pc = "loop" /\ retiring # NoOne /\ rpr[retiring].pc = "ended"
    BY Zenon DEF ReapRetiring, RetiringFinished
  <2>2. QED BY Zenon, <2>1, RunningReaper DEF Reaping, OneGeneration
<1>2. /\ retiring' = NoOne /\ recovering_retiring' = TRUE
      /\ rpr' = [rpr EXCEPT ![g] = [pc |-> "join_retiring", joins |-> j]]
      /\ phase' = phase /\ current' = current /\ start' = start
      /\ recovering_current' = recovering_current /\ entered' = entered /\ cancelled' = cancelled
      /\ rec' = rec /\ completion' = completion /\ ctor' = ctor /\ hlp' = hlp /\ wrk' = wrk
      /\ records' = records
  BY Zenon, <1>1 DEF ReapRetiring
<1>3. /\ RprOK' /\ rpr'[g].pc = "join_retiring" /\ rpr'[g].joins = j
      /\ (\A h \in Connections \ {g} : rpr'[h] = rpr[h])
  BY Zenon, <1>2, RprPut DEF WorkersInv, TablesOK, RprPcs, Maybe
<1>4. /\ TablesOK' /\ (\A d \in Connections : LocalOK(d)' /\ InPhase(d)')
  <2>1. \A d \in Connections : rpr'[d].pc = "none" <=> rpr[d].pc = "none"
    BY Zenon, <1>1, <1>3
  <2>2. QED BY Zenon, <1>2, <1>3, <2>1, OnlyReapers
<1>5. OneGeneration' /\ Joins'
  BY Zenon, <1>1, <1>2, <1>3 DEF OneGeneration, Reaping, Joins
<1>6. ASSUME NEW d \in Connections PROVE ReaperOK(d)'
  <2>1. ReaperOK(d) /\ d # NoOne /\ (d # g => rpr'[d] = rpr[d])
    BY Zenon, <1>3, Parts
  <2>2. rec[d].retiring \in Connections /\ rpr[rec[d].retiring].pc = "joined" => rpr'[rec[d].retiring].pc = "joined"
    BY Zenon, <1>1, <1>3
  <2>3. QED BY Zenon, <1>1, <1>2, <1>3, <2>1, <2>2 DEF ReaperOK, Held, Reaping
<1>7. QED BY Zenon, <1>4, <1>5, <1>6 DEF Settled

\* The reaper has joined the reaper it replaced.
LEMMA ReplacedJoined ==
    ASSUME WorkersInv, NEW g \in Connections, JoinRetiring(g)
    PROVE  Settled
<1>1. PICK j \in Connections :
        /\ j = rpr[g].joins /\ j # NoOne /\ j # g /\ rpr[j].pc = "ended" /\ rpr[g].pc = "join_retiring"
        /\ OneGeneration /\ Joins /\ g # NoOne /\ phase = "Running" /\ start = g
        /\ current = g /\ g \notin cancelled /\ ~recovering_current /\ retiring = NoOne
  <2>1. rpr[g].pc = "join_retiring"
    BY Zenon DEF JoinRetiring
  <2>2. QED BY Zenon, <2>1, RunningReaper, Parts DEF Reaping, Joins
<1>2. /\ recovering_retiring' = FALSE /\ retiring' = retiring
      /\ rpr' = [rpr EXCEPT ![j].pc = "joined", ![g] = [pc |-> "loop", joins |-> NoOne]]
      /\ phase' = phase /\ current' = current /\ start' = start
      /\ recovering_current' = recovering_current /\ entered' = entered /\ cancelled' = cancelled
      /\ rec' = rec /\ completion' = completion /\ ctor' = ctor /\ hlp' = hlp /\ wrk' = wrk
      /\ records' = records
  BY Zenon, <1>1 DEF JoinRetiring
<1>3. /\ RprOK' /\ rpr'[g].pc = "loop" /\ rpr'[j].pc = "joined"
      /\ (\A h \in Connections \ {g, j} : rpr'[h] = rpr[h])
  <2>1. RprOK
    BY Zenon DEF WorkersInv, TablesOK
  <2>2. QED BY <1>1, <1>2, <2>1 DEF RprOK, RprPcs, Maybe
<1>4. /\ TablesOK' /\ (\A d \in Connections : LocalOK(d)' /\ InPhase(d)')
  <2>1. \A d \in Connections : rpr'[d].pc = "none" <=> rpr[d].pc = "none"
    BY SMTT(20), <1>1, <1>3
  <2>2. QED BY Zenon, <1>2, <1>3, <2>1, OnlyReapers
<1>5. OneGeneration' /\ Joins'
  BY Zenon, <1>1, <1>2, <1>3 DEF OneGeneration, Reaping, Joins
<1>6. ASSUME NEW d \in Connections PROVE ReaperOK(d)'
  <2>1. ReaperOK(d) /\ d # NoOne /\ (d \notin {g, j} => rpr'[d] = rpr[d])
    BY Zenon, <1>3, Parts
  <2>2. rec[d].retiring \in Connections /\ rpr[rec[d].retiring].pc = "joined" => rpr'[rec[d].retiring].pc = "joined"
    BY Zenon, <1>1, <1>3
  <2>3. (d = g \/ d = j \/ rpr'[d] = rpr[d]) /\ ReaperOK(d) /\ d # NoOne
    BY Zenon, <2>1
  <2>4. QED BY Zenon, <1>1, <1>2, <1>3, <2>2, <2>3 DEF ReaperOK, Held, Reaping
<1>7. QED BY Zenon, <1>4, <1>5, <1>6 DEF Settled

\* Nothing is left and nobody constructs: the reaper retires.
LEMMA ReaperRetires ==
    ASSUME WorkersInv, NEW g \in Connections, Retire(g), Constructing = {}
    PROVE  Settled
<1>1. /\ rpr[g].pc = "loop" /\ records = {} /\ retiring = NoOne
      /\ OneGeneration /\ Joins /\ g # NoOne /\ phase = "Running" /\ start = g
      /\ current = g /\ g \notin cancelled /\ ~recovering_current /\ ~recovering_retiring
  BY Zenon, RunningReaper DEF Reaping, Retire, MayRetire
<1>2. /\ phase' = "Idle" /\ start' = NoOne /\ Rpr(g, "exit")
      /\ current' = current /\ retiring' = retiring
      /\ recovering_current' = recovering_current /\ recovering_retiring' = recovering_retiring
      /\ entered' = entered /\ cancelled' = cancelled
      /\ rec' = rec /\ completion' = completion /\ ctor' = ctor /\ hlp' = hlp /\ wrk' = wrk
      /\ records' = records
  BY Zenon DEF Retire
<1>3. RprOK' /\ rpr'[g].pc = "exit" /\ (\A h \in Connections \ {g} : rpr'[h] = rpr[h])
  BY Zenon, <1>2, RprPc DEF WorkersInv, TablesOK, RprPcs
<1>4. TablesOK'
  BY Zenon, <1>2, <1>3, TablesStay DEF WorkersInv, TablesOK
<1>5. OneGeneration' /\ Joins'
  BY Zenon, <1>1, <1>2, <1>3 DEF OneGeneration, Retired, Joins
<1>6. ASSUME NEW d \in Connections PROVE LocalOK(d)' /\ InPhase(d)' /\ ReaperOK(d)'
  <2>1. /\ LocalOK(d) /\ InPhase(d) /\ ReaperOK(d) /\ d # NoOne /\ (d # g => rpr'[d] = rpr[d])
        /\ LocalOK(d)' /\ (Owning(d)' <=> Owning(d)) /\ (UnderWay(d)' <=> UnderWay(d))
    BY Zenon, <1>2, <1>3, Parts, SameIsSame DEF Same
  <2>2. ctor[d].pc \in {"new", "done"} /\ hlp[d].pc \in {"none", "joined"}
    BY Zenon, <1>1, <2>1 DEF Constructing, LocalOK, Kept
  <2>3. InPhase(d)'
    BY Zenon, <1>1, <1>2, <1>3, <2>1, <2>2 DEF InPhase, LocalOK, ConstructorOK, HelperOK
  <2>4. rec[d].retiring \in Connections /\ rpr[rec[d].retiring].pc = "joined" => rpr'[rec[d].retiring].pc = "joined"
    BY Zenon, <1>1, <1>3
  <2>5. ReaperOK(d)'
    BY Zenon, <1>1, <1>2, <1>3, <2>1, <2>4 DEF ReaperOK, Held, Reaping
  <2>6. QED BY Zenon, <2>1, <2>3, <2>5
<1>7. QED BY Zenon, <1>4, <1>5, <1>6 DEF Settled


-----------------------------------------------------------------------------
(* Every step. *)

\* Every step of a constructor, its unwinding and Drop included.
LEMMA ConstructorKeeps ==
    ASSUME WorkersInv, NEW c \in Connections, ReserveRecord(c) \/ ConstructorStep(c) \/ ConstructorUnwind(c)
    PROVE  Settled
<1>1. TablesOK /\ LocalOK(c) /\ InPhase(c)
  BY Zenon, Parts
<1>2. CASE DropConstructor(c)
  BY Zenon, <1>2, DropRecovers, DropGivesUp, DropCalm
<1>3. CASE ReserveRecord(c) \/ ConstructorUnwind(c) \/ AwaitHelper(c) \/ AwaitWorker(c)
  BY Zenon, <1>1, <1>3, CalmSteps, CalmSettles
<1>4. CASE AwaitReaper(c)
  BY Zenon, <1>1, <1>4, StartSucceeds, CalmSteps, CalmSettles
<1>5. CASE EnsureReaper(c)
  <2>1. phase \in {"Idle", "Running"}
    BY Zenon, <1>5 DEF EnsureReaper
  <2>2. QED BY Zenon, <1>1, <1>5, <2>1, StartBegins, CalmSteps, CalmSettles
<1>6. ASSUME NEW ok \in {TRUE, c \notin Faulty}, SpawnHelper(c, ok) \/ SpawnReaper(c, ok) \/ SpawnWorker(c, ok)
      PROVE  Settled
  <2>1. \/ SpawnReaper(c, TRUE)
        \/ SpawnHelper(c, TRUE) \/ SpawnWorker(c, TRUE)
        \/ SpawnHelper(c, FALSE) \/ SpawnReaper(c, FALSE) \/ SpawnWorker(c, FALSE)
    BY Zenon, <1>6
  <2>2. QED BY Zenon, <1>1, <2>1, ReaperSpawned, CalmSteps, CalmSettles
<1>7. QED BY Zenon, <1>2, <1>3, <1>4, <1>5, <1>6 DEF ConstructorStep

\* Every step of a helper, its recovery of reapers included.
LEMMA HelperKeeps ==
    ASSUME WorkersInv, NEW c \in Connections, WorkerReady(c) \/ WorkerEnd(c) \/ HelperStep(c)
    PROVE  Settled
<1>1. TablesOK /\ LocalOK(c) /\ InPhase(c)
  BY Zenon, Parts
<1>2. QED BY Zenon, <1>1, CalmSteps, CalmSettles, CurrentRecovered, ReplacedRecovered, RecoveryEnds DEF HelperStep

\* Every step of a reaper.
LEMMA ReaperKeeps ==
    ASSUME WorkersInv, NEW g \in Connections, ReaperStep(g), reservations = 0 => Constructing = {}
    PROVE  Settled
<1>1. CASE ReaperEnter(g)
  BY <1>1, NotBegun, ReaperMoves DEF ReaperEnter, RprPcs
<1>2. CASE ReaperFailsStart(g)
  BY Zenon, <1>2, NotBegun, ReaperMoves DEF ReaperFailsStart, RprPcs, registryVars
<1>3. CASE ReaperBegin(g)
  BY <1>3, NotBegun, ReaperMoves DEF ReaperBegin, RprPcs, registryVars
<1>4. CASE ReaperEnd(g)
  BY <1>4, RetiredEnds, ReaperMoves DEF ReaperEnd, RprPcs, registryVars
<1>5. CASE Retire(g)
  BY Zenon, <1>5, ReaperRetires DEF Retire, MayRetire
<1>6. CASE JoinHelper(g) \/ RemoveRecord(g) \/ ReapRetiring(g) \/ JoinRetiring(g) \/ \E c \in Connections : ReapHelper(g, c)
  BY Zenon, <1>6, HelperIsJoined, RecordRemoved, ReplacedReaped, ReplacedJoined, HelperReaped
<1>7. QED BY Zenon, <1>1, <1>2, <1>3, <1>4, <1>5, <1>6 DEF ReaperStep

\* The registry's own fields keep their types.
LEMMA RegistryTyped ==
    ASSUME WorkersInv, NEW c \in Connections,
           \/ ReserveRecord(c) \/ ConstructorStep(c) \/ ConstructorUnwind(c)
           \/ WorkerReady(c) \/ WorkerEnd(c) \/ HelperStep(c) \/ ReaperStep(c)
    PROVE  RegistryOK'
<1>1. RegistryOK /\ c \in Maybe /\ NoOne \in Maybe
  BY Zenon DEF WorkersInv, Maybe
<1>2. CASE UNCHANGED registryVars
  BY Zenon, <1>1, <1>2 DEF RegistryOK, registryVars
<1>3. CASE ReserveRecord(c) \/ EnsureReaper(c) \/ AwaitReaper(c) \/ \E ok : SpawnReaper(c, ok)
  BY Zenon, <1>1, <1>3 DEF RegistryOK, ReserveRecord, EnsureReaper, AwaitReaper, SpawnReaper
<1>4. CASE DropConstructor(c)
  <2>1. DropRegistry(c) /\ (Recovers(c) \/ GivesUpStart(c) => start = c)
    BY Zenon, <1>4, DropCtor DEF DropConstructor
  <2>2. QED BY Zenon, <1>1, <2>1 DEF RegistryOK, DropRegistry
<1>5. CASE RecoverCurrent(c) \/ RecoverRetiring(c) \/ RecoverEnd(c)
  BY Zenon, <1>1, <1>5 DEF RegistryOK, RecoverCurrent, RecoverRetiring, RecoverEnd
<1>6. CASE ReaperEnter(c) \/ RemoveRecord(c) \/ ReapRetiring(c) \/ JoinRetiring(c) \/ Retire(c)
  BY Zenon, <1>1, <1>6 DEF RegistryOK, ReaperEnter, RemoveRecord, ReapRetiring, JoinRetiring, Retire
<1>7. QED
  <2>1. CASE ConstructorStep(c) \/ ReserveRecord(c) \/ ConstructorUnwind(c)
    BY Zenon, <1>2, <1>3, <1>4, <2>1 DEF ConstructorStep, SpawnHelper, SpawnWorker, AwaitHelper,
       AwaitWorker, ConstructorUnwind
  <2>2. CASE WorkerReady(c) \/ WorkerEnd(c) \/ HelperStep(c)
    BY Zenon, <1>2, <1>5, <2>2 DEF WorkerReady, WorkerEnd, HelperStep, HelperReady, HelperFailsStart,
       TakeAssignment, WatchWorker, HelperUnwind, JoinWorker, CompleteWorker, HelperEnd
  <2>3. CASE ReaperStep(c)
    BY Zenon, <1>2, <1>6, <2>3 DEF ReaperStep, ReaperFailsStart, ReaperBegin, ReapHelper,
       JoinHelper, ReaperEnd
  <2>4. QED BY Zenon, <2>1, <2>2, <2>3

\* The invariant is inductive, given what the reservations count.
LEMMA WorkersStep ==
    ASSUME WorkersInv, [RegistryNext]_wVars, reservations = 0 => Constructing = {}
    PROVE  WorkersInv'
<1>1. CASE RegistryNext
  <2>1. PICK c \in Connections :
          \/ ReserveRecord(c) \/ ConstructorStep(c) \/ ConstructorUnwind(c)
          \/ WorkerReady(c) \/ WorkerEnd(c) \/ HelperStep(c) \/ ReaperStep(c)
    BY Zenon, <1>1 DEF RegistryNext
  <2>2. QED BY Zenon, <2>1, ConstructorKeeps, HelperKeeps, ReaperKeeps, RegistryTyped DEF WorkersInv, Settled
<1>2. CASE UNCHANGED wVars
  <2>1. RegistryOK'
    BY Zenon, <1>2 DEF WorkersInv, RegistryOK, wVars, registryVars
  <2>2. CASE Connections # {}
    <3>1. PICK c \in Connections : TablesOK /\ LocalOK(c) /\ InPhase(c)
      BY ZenonT(30), <2>2 DEF WorkersInv
    <3>2. QED BY Zenon, <1>2, <2>1, <3>1, CalmSteps, CalmSettles DEF WorkersInv, Settled
  <2>3. CASE Connections = {}
    BY <1>2, <2>1, <2>3, TablesStay DEF WorkersInv, TablesOK, OneGeneration, Joins, RegistryOK, Maybe,
       wVars, registryVars, threadVars
  <2>4. QED BY Zenon, <2>2, <2>3
<1>3. QED BY Zenon, <1>1, <1>2

\* The invariant holds before any connection is made.
LEMMA WorkersStart ==
    RegistryInit => WorkersInv
<1> SUFFICES ASSUME RegistryInit PROVE WorkersInv
  OBVIOUS
<1>1. RegistryOK
  BY Zenon DEF RegistryInit, RegistryOK, Maybe
<1>2. TablesOK
  <2>1. NewRecord \in Records
    BY Zenon DEF NewRecord, Records, Assignments, Maybe
  <2>2. CtorOK /\ HlpOK /\ WrkOK /\ RecOK
    BY Zenon, <2>1 DEF RegistryInit, CtorOK, CtorPcs, HlpOK, HlpPcs, WrkOK, RecOK
  <2>3. RprOK /\ CompletionOK
    BY Zenon DEF RegistryInit, RprOK, RprPcs, Maybe, CompletionOK, Completions
  <2>4. QED BY Zenon, <2>2, <2>3 DEF TablesOK
<1>3. ASSUME NEW c \in Connections
      PROVE  /\ rec[c] = NewRecord /\ wrk[c] = "none" /\ hlp[c].pc = "none" /\ rpr[c].pc = "none"
             /\ ctor[c].pc = "new" /\ ~ctor[c].owns_start /\ ~ctor[c].published
             /\ completion[c].worker = "none" /\ completion[c].helper = "none"
             /\ completion[c].current = "NotRequired" /\ completion[c].retiring = "NotRequired"
             /\ ~NewRecord.helper /\ ~NewRecord.helper_joining /\ ~NewRecord.helper_started
             /\ ~NewRecord.helper_ready /\ NewRecord.assignment = "Waiting"
  BY Zenon DEF RegistryInit, NewRecord
<1>4. ASSUME NEW c \in Connections PROVE LocalOK(c) /\ InPhase(c) /\ ReaperOK(c)
  BY <1>3 DEF RegistryInit, LocalOK, ConstructorOK, HelperOK, WorkerOK, InPhase, ReaperOK, Kept,
     Owning, UnderWay, HoldsStarting, HoldsReplaced, Reaping
<1>5. OneGeneration /\ Joins
  BY Zenon, <1>3 DEF RegistryInit, OneGeneration, Joins
<1>6. QED BY Zenon, <1>1, <1>2, <1>4, <1>5 DEF WorkersInv

-----------------------------------------------------------------------------
(* What the invariant says of handles, completions and published streams. *)

\* A reservation is taken by a constructor that begins and given back by its Drop.
LEMMA ReservationsMove ==
    ASSUME WorkersInv, [RegistryNext]_wVars
    PROVE  \/ Constructing' = Constructing /\ reservations' = reservations
           \/ \E c \in Connections \ Constructing :
                Constructing' = Constructing \cup {c} /\ reservations' = reservations + 1
           \/ \E c \in Constructing :
                Constructing' = Constructing \ {c} /\ reservations' = reservations - 1
<1> DEFINE Stays == Constructing' = Constructing /\ reservations' = reservations
<1>1. ASSUME ctor' = ctor PROVE Constructing' = Constructing
  BY Zenon, <1>1 DEF Constructing
<1>2. CASE UNCHANGED wVars
  BY Zenon, <1>1, <1>2 DEF wVars, registryVars, threadVars
<1>3. ASSUME NEW c \in Connections, WorkerReady(c) \/ WorkerEnd(c) \/ HelperStep(c) \/ ReaperStep(c) PROVE Stays
  BY Zenon, <1>1, <1>3 DEF WorkerReady, WorkerEnd, HelperStep, HelperReady, HelperFailsStart,
     TakeAssignment, WatchWorker, HelperUnwind, JoinWorker, CompleteWorker, HelperEnd, RecoverCurrent,
     RecoverRetiring, RecoverEnd, ReaperStep, ReaperEnter, ReaperFailsStart, ReaperBegin, ReapHelper,
     JoinHelper, RemoveRecord, ReapRetiring, JoinRetiring, Retire, ReaperEnd, registryVars
<1>4. ASSUME NEW c \in Connections, ReserveRecord(c)
      PROVE  c \notin Constructing /\ Constructing' = Constructing \cup {c} /\ reservations' = reservations + 1
  <2>1. ctor[c].pc = "new" /\ Ctor(c, "spawn_helper") /\ reservations' = reservations + 1
    BY Zenon, <1>4 DEF ReserveRecord
  <2>2. ctor'[c].pc = "spawn_helper" /\ \A d \in Connections \ {c} : ctor'[d] = ctor[d]
    BY Zenon, <2>1, CtorPc DEF WorkersInv, TablesOK, CtorPcs
  <2>3. QED BY Zenon, <2>1, <2>2 DEF Constructing
<1>5. ASSUME NEW c \in Connections, DropConstructor(c)
      PROVE  c \in Constructing /\ Constructing' = Constructing \ {c} /\ reservations' = reservations - 1
  <2>1. /\ ctor[c].pc = "drop" /\ ctor'[c].pc = "done" /\ reservations' = reservations - 1
        /\ \A d \in Connections \ {c} : ctor'[d] = ctor[d]
    BY Zenon, <1>5, DropCtor DEF DropConstructor, DropRegistry
  <2>2. QED BY Zenon, <2>1 DEF Constructing
<1>6. ASSUME NEW c \in Connections, ConstructorUnwind(c) \/ (ConstructorStep(c) /\ ~DropConstructor(c)) PROVE Stays
  <2>1. PICK pc \in CtorPcs \ {"new", "done"}, b \in BOOLEAN :
          \/ Ctor(c, pc)
          \/ ctor' = [ctor EXCEPT ![c].pc = pc, ![c].owns_start = b]
          \/ ctor' = [ctor EXCEPT ![c].pc = pc, ![c].published = b]
    <3>1. CASE AwaitWorker(c)
      <4>1. rec[c].worker_ready \in BOOLEAN
        BY Zenon, Parts DEF TablesOK, RecOK, Records
      <4>2. QED BY Zenon, <3>1, <4>1 DEF AwaitWorker, CtorPcs
    <3>2. CASE ~AwaitWorker(c)
      BY ZenonT(30), <1>6, <3>2 DEF ConstructorStep, ConstructorUnwind, SpawnHelper, SpawnReaper, SpawnWorker, AwaitHelper,
         EnsureReaper, AwaitReaper, CtorPcs
    <3>3. QED BY Zenon, <3>1, <3>2
  <2>2. ctor[c].pc \notin {"new", "done"} /\ reservations' = reservations
    BY Zenon, <1>6 DEF ConstructorStep, ConstructorUnwind, SpawnHelper, SpawnReaper, SpawnWorker, AwaitHelper,
       EnsureReaper, AwaitReaper, AwaitWorker, registryVars
  <2>3. ctor'[c].pc = pc /\ \A d \in Connections \ {c} : ctor'[d] = ctor[d]
    <3>1. CtorOK /\ pc \in CtorPcs
      BY Zenon DEF WorkersInv, TablesOK
    <3>2. CASE Ctor(c, pc)
      BY Zenon, <3>1, <3>2, CtorPc
    <3>3. CASE \/ ctor' = [ctor EXCEPT ![c].pc = pc, ![c].owns_start = b]
               \/ ctor' = [ctor EXCEPT ![c].pc = pc, ![c].published = b]
      BY <3>1, <3>3 DEF CtorOK
    <3>4. QED BY Zenon, <2>1, <3>2, <3>3
  <2>4. QED BY Zenon, <2>2, <2>3 DEF Constructing
<1>7. CASE RegistryNext
  <2>1. PICK c \in Connections :
          \/ ReserveRecord(c) \/ ConstructorStep(c) \/ ConstructorUnwind(c)
          \/ WorkerReady(c) \/ WorkerEnd(c) \/ HelperStep(c) \/ ReaperStep(c)
    BY Zenon, <1>7 DEF RegistryNext
  <2>2. CASE ReserveRecord(c)
    BY Zenon, <1>4, <2>2
  <2>3. CASE DropConstructor(c)
    BY Zenon, <1>5, <2>3
  <2>4. CASE ~ReserveRecord(c) /\ ~DropConstructor(c)
    BY Zenon, <1>3, <1>6, <2>1, <2>4
  <2>5. QED BY Zenon, <2>2, <2>3, <2>4
<1>8. QED BY Zenon, <1>2, <1>7

\* The join handle of a reaper that was started and not joined has one holder.
LEMMA OneHolder ==
    ASSUME WorkersInv, NEW g \in Connections
    PROVE  IF rpr[g].pc \in {"none", "joined"} THEN Owners(g) = {} ELSE \E w : Owners(g) = {w}
<1> DEFINE C(d) == \/ rec[d].current = g /\ (rec[d].assignment = "Recovery" \/ hlp[d].pc = "recover_current")
                   \/ rec[d].retiring = g /\ (rec[d].assignment = "Recovery"
                                              \/ hlp[d].pc \in {"recover_current", "recover_retiring"})
           D(h) == rpr[h].pc = "join_retiring" /\ rpr[h].joins = g
<1>1. Owners(g) = {w \in {"current"} : current = g} \cup {w \in {"retiring"} : retiring = g}
                  \cup {<<"recovery", c>> : c \in {d \in Connections : C(d)}}
                  \cup {<<"reaper", h>> : h \in {r \in Connections : D(r)}}
  BY Zenon DEF Owners
<1>2. /\ OneGeneration /\ Joins /\ g # NoOne /\ phase \in {"Idle", "Starting", "Running", "Recovering"}
      /\ rpr[g].pc \notin {"none", "joined"} => Held(g)
  BY Zenon, Parts DEF ReaperOK
<1>3. \A d \in Connections : C(d) => /\ phase = "Recovering" /\ start = d
                                     /\ (HoldsStarting(d) /\ g = d) \/ (HoldsReplaced(d) /\ g = rec[d].retiring)
  <2> SUFFICES ASSUME NEW d \in Connections, C(d)
               PROVE  /\ phase = "Recovering" /\ start = d
                      /\ (HoldsStarting(d) /\ g = d) \/ (HoldsReplaced(d) /\ g = rec[d].retiring)
    OBVIOUS
  <2>1. UnderWay(d)
    BY Zenon DEF UnderWay, HoldsReplaced, HoldsStarting
  <2>2. QED BY Zenon, <2>1, RecoveryOf DEF HoldsReplaced, HoldsStarting
<1>4. \A h \in Connections : D(h) => phase = "Running" /\ start = h
  BY Zenon, RunningReaper DEF Reaping
<1>5. phase = "Recovering" => /\ HoldsStarting(start) /\ g = start => C(start)
                              /\ HoldsReplaced(start) /\ g = rec[start].retiring => C(start)
  <2>1. phase = "Recovering" => rec[start].current = start
    BY Zenon, <1>2, RecoveryOf DEF OneGeneration
  <2>2. QED BY Zenon, <2>1 DEF HoldsReplaced, HoldsStarting
<1>6. D(start) <=> rpr[start].pc = "join_retiring" /\ g = rpr[start].joins
  BY Zenon
<1> HIDE DEF C, D
<1>7. \/ /\ rpr[g].pc \in {"none", "joined"} /\ current # g /\ retiring # g
         /\ \A d \in Connections : ~C(d) /\ ~D(d)
      \/ /\ rpr[g].pc \notin {"none", "joined"} /\ current = g /\ retiring # g
         /\ \A d \in Connections : ~C(d) /\ ~D(d)
      \/ /\ rpr[g].pc \notin {"none", "joined"} /\ current # g /\ retiring = g
         /\ \A d \in Connections : ~C(d) /\ ~D(d)
      \/ /\ rpr[g].pc \notin {"none", "joined"} /\ current # g /\ retiring # g
         /\ start \in Connections /\ C(start) /\ \A d \in Connections : (C(d) => d = start) /\ ~D(d)
      \/ /\ rpr[g].pc \notin {"none", "joined"} /\ current # g /\ retiring # g
         /\ start \in Connections /\ D(start) /\ \A d \in Connections : (D(d) => d = start) /\ ~C(d)
  <2>1. CASE phase \in {"Idle", "Starting"}
    BY SMTT(20), <1>2, <1>3, <1>4, <2>1 DEF OneGeneration, Held, Retired
  <2>2. CASE phase = "Running"
    BY SMTT(20), <1>2, <1>3, <1>4, <1>6, <2>2 DEF OneGeneration, Joins, Held, Retired, Reaping
  <2>3. CASE phase = "Recovering"
    BY <1>2, <1>3, <1>4, <1>5, <2>3 DEF OneGeneration, Held, Retired
  <2>4. QED BY ZenonT(30), <1>2, <2>1, <2>2, <2>3
<1>8. CASE rpr[g].pc \in {"none", "joined"}
  BY Zenon, <1>1, <1>7, <1>8
<1>9. CASE rpr[g].pc \notin {"none", "joined"}
  <2>1. \/ Owners(g) = {"current"} \/ Owners(g) = {"retiring"}
        \/ Owners(g) = {<<"recovery", start>>} \/ Owners(g) = {<<"reaper", start>>}
    <3>1. current = g => Owners(g) = {"current"}
      BY Zenon, <1>1, <1>7, <1>9
    <3>2. retiring = g => Owners(g) = {"retiring"}
      BY Zenon, <1>1, <1>7, <1>9
    <3>3. current # g /\ retiring # g /\ C(start) => Owners(g) = {<<"recovery", start>>}
      BY Zenon, <1>1, <1>7, <1>9
    <3>4. current # g /\ retiring # g /\ ~C(start) => Owners(g) = {<<"reaper", start>>}
      BY Zenon, <1>1, <1>7, <1>9
    <3>5. QED BY Zenon, <3>1, <3>2, <3>3, <3>4
  <2>2. QED BY Zenon, <1>9, <2>1
<1>10. QED BY Zenon, <1>8, <1>9

\* The assertions in Constructor, ensure_reaper, recover, reap and publish.
LEMMA AssertionsFollow ==
    ASSUME WorkersInv, \A c \in Connections : ctor[c].pc = "drop" => reservations > 0
    PROVE  AssertionsHold
<1> SUFFICES ASSUME NEW c \in Connections
             PROVE  /\ ctor[c].pc = "ensure_reaper" /\ phase = "Idle" =>
                        retiring = NoOne /\ ~recovering_current /\ ~recovering_retiring
                    /\ ctor[c].pc = "spawn_reaper" => phase = "Starting" /\ current = NoOne /\ start = c
                    /\ ctor[c].pc = "await_reaper" => current = c
                    /\ ctor[c].pc = "spawn_worker" => rec[c].assignment = "Waiting"
                    /\ ctor[c].pc = "drop" =>
                        /\ rec[c].helper_ready => rec[c].helper_started
                        /\ ctor[c].owns_start => phase = "Starting" /\ start = c
                        /\ Recovers(c) => rec[c].helper_ready /\ rec[c].assignment = "Waiting"
                    /\ hlp[c].pc = "recovered" =>
                        /\ phase = "Recovering" /\ current = NoOne /\ retiring = NoOne
                        /\ ~recovering_current /\ ~recovering_retiring
                    /\ hlp[c].pc = "complete" => completion[c].worker = "none"
                    /\ rpr[c].pc = "loop" => phase = "Running" /\ ~recovering_current /\ ~recovering_retiring
                    /\ rpr[c].pc = "join_helper" => completion[rpr[c].joins].helper = "none"
  BY ZenonT(30) DEF AssertionsHold
<1>1. phase = "Idle" => retiring = NoOne /\ ~recovering_current /\ ~recovering_retiring
  BY Zenon, Parts DEF OneGeneration
<1>2. /\ ctor[c].pc = "spawn_reaper" => phase = "Starting" /\ current = NoOne /\ start = c
      /\ ctor[c].pc = "await_reaper" => current = c
      /\ ctor[c].pc = "spawn_worker" => rec[c].assignment = "Waiting"
      /\ ctor[c].pc = "drop" =>
            /\ rec[c].helper_ready => rec[c].helper_started
            /\ ctor[c].owns_start => phase = "Starting" /\ start = c
            /\ Recovers(c) => rec[c].helper_ready /\ rec[c].assignment = "Waiting"
      /\ hlp[c].pc = "complete" => completion[c].worker = "none"
  BY Zenon, Parts DEF LocalOK, ConstructorOK, HelperOK, WorkerOK, InPhase, Owning, Recovers
<1>3. hlp[c].pc = "recovered" => /\ phase = "Recovering" /\ current = NoOne /\ retiring = NoOne
                                 /\ ~recovering_current /\ ~recovering_retiring
  <2>1. CASE hlp[c].pc = "recovered"
    BY Zenon, <2>1, RecoveryOf, Parts DEF UnderWay, HoldsReplaced, HoldsStarting, OneGeneration
  <2>2. QED BY Zenon, <2>1
<1>4. rpr[c].pc = "loop" => phase = "Running" /\ ~recovering_current /\ ~recovering_retiring
  BY Zenon, RunningReaper DEF Reaping
<1>5. rpr[c].pc = "join_helper" => completion[rpr[c].joins].helper = "none"
  <2>1. CASE rpr[c].pc = "join_helper"
    <3>1. rpr[c].joins \in Connections /\ hlp[rpr[c].joins].pc = "ended"
      BY Zenon, <2>1, RunningReaper DEF Reaping, Joins
    <3>2. LocalOK(rpr[c].joins)
      BY Zenon, <3>1, Parts
    <3>3. QED BY Zenon, <3>1, <3>2 DEF LocalOK, HelperOK
  <2>2. QED BY Zenon, <2>1
<1>6. QED BY Zenon, <1>1, <1>2, <1>3, <1>4, <1>5

\* Handles of helpers, and what a MappedCompletion reports.
LEMMA ThreadsFollow ==
    ASSUME WorkersInv
    PROVE  /\ \A c \in Connections :
                /\ hlp[c].pc \notin {"none", "joined"} => c \in records /\ rec[c].helper # rec[c].helper_joining
                /\ hlp[c].pc \in {"ended", "joined"} => wrk[c] \in {"none", "joined"}
           /\ ObservationsAreTrue
<1>1. ASSUME NEW c \in Connections
      PROVE  /\ hlp[c].pc \notin {"none", "joined"} => c \in records /\ rec[c].helper # rec[c].helper_joining
             /\ hlp[c].pc \in {"ended", "joined"} => wrk[c] \in {"none", "joined"}
             /\ completion[c].worker # "none" => wrk[c] = "joined"
             /\ completion[c].helper # "none" =>
                 hlp[c].pc = "joined" /\ (wrk[c] # "none" => completion[c].worker # "none")
  <2>1. /\ LocalOK(c) /\ wrk[c] \in {"none", "entry", "ready", "ended", "joined"}
        /\ rec[c].helper \in BOOLEAN /\ rec[c].helper_joining \in BOOLEAN
    BY Zenon, Parts DEF TablesOK, WrkOK, RecOK, Records
  <2>2. hlp[c].pc \notin {"none", "joined"} => c \in records /\ rec[c].helper # rec[c].helper_joining
    BY Zenon, <2>1 DEF LocalOK, HelperOK, Kept
  <2>3. QED BY Zenon, <2>1, <2>2 DEF LocalOK, HelperOK, WorkerOK
<1>2. QED BY Zenon, <1>1, Parts DEF ObservationsAreTrue, ReaperOK

\* A published stream has a reaper at work that will join its helper.
LEMMA AttendedFollows ==
    ASSUME WorkersInv
    PROVE  PublishedIsAttended
<1>1. ASSUME NEW c \in Connections, ctor[c].published, hlp[c].pc # "joined"
      PROVE  phase = "Running" /\ current # NoOne /\ rpr[current].pc \in Reaping
  <2>1. phase = "Running" /\ OneGeneration
    BY Zenon, <1>1, Parts DEF InPhase
  <2>2. QED BY Zenon, <2>1, FaultyAreConnections DEF OneGeneration
<1>2. ASSUME NEW g \in Connections, NEW h \in Connections,
             rpr[g].pc \in Reaping \ {"wait"}, rpr[h].pc \in Reaping \ {"wait"}
      PROVE  g = h
  BY Zenon, <1>2, RunningReaper
<1>3. QED BY Zenon, <1>1, <1>2 DEF PublishedIsAttended

-----------------------------------------------------------------------------
(* The reservations are counted, which lets the reaper retire. *)

Counted == reservations = Cardinality(Constructing)

\* The reservation count is that of the constructors under way.
LEMMA CountedFacts ==
    ASSUME Counted
    PROVE  /\ IsFiniteSet(Constructing)
           /\ reservations \in 0 .. Cardinality(Connections)
           /\ reservations = 0 <=> Constructing = {}
<1>1. Constructing \in SUBSET Connections /\ IsFiniteSet(Connections)
  BY Zenon, ConnectionsAreFinite DEF Constructing
<1>2. IsFiniteSet(Constructing) /\ Cardinality(Constructing) <= Cardinality(Connections)
  BY Zenon, <1>1, FS_Subset
<1>3. /\ Cardinality(Constructing) \in Nat /\ Cardinality(Connections) \in Nat
      /\ Cardinality(Constructing) = 0 <=> Constructing = {}
  BY Zenon, <1>1, <1>2, FS_CardinalityType, FS_EmptySet
<1>4. QED BY <1>2, <1>3 DEF Counted

\* Every step keeps the count of reservations.
LEMMA CountedStep ==
    ASSUME WorkersInv, Counted, [RegistryNext]_wVars
    PROVE  Counted'
<1>1. IsFiniteSet(Constructing)
  BY Zenon, CountedFacts
<1>2. CASE Constructing' = Constructing /\ reservations' = reservations
  BY Zenon, <1>2 DEF Counted
<1>3. ASSUME NEW c \in Connections \ Constructing,
             Constructing' = Constructing \cup {c}, reservations' = reservations + 1
      PROVE  Counted'
  BY Zenon, <1>1, <1>3, FS_AddElement DEF Counted
<1>4. ASSUME NEW c \in Constructing, Constructing' = Constructing \ {c}, reservations' = reservations - 1
      PROVE  Counted'
  BY Zenon, <1>1, <1>4, FS_RemoveElement DEF Counted
<1>5. QED BY Zenon, <1>2, <1>3, <1>4, ReservationsMove

\* Every variable has its type.
LEMMA TypesFollow ==
    ASSUME WorkersInv, Counted
    PROVE  RegistryTypeOK
<1>1. RegistryOK /\ reservations \in 0 .. Cardinality(Connections)
  BY Zenon, CountedFacts DEF WorkersInv
<1>2. ASSUME NEW c \in Connections
      PROVE  /\ DOMAIN rec[c] = DOMAIN NewRecord
             /\ rec[c].assignment \in {"Waiting", "Worker", "Abandoned", "Recovery", "Taken"}
             /\ hlp[c].pc \in HlpPcs
  <2>1. rec[c] \in Records /\ hlp[c].pc \in HlpPcs
    BY Zenon DEF WorkersInv, TablesOK, RecOK, HlpOK
  <2>2. QED BY Zenon, <2>1 DEF Records, NewRecord, Assignments
<1>3. QED BY Zenon, <1>1, <1>2 DEF RegistryTypeOK, RegistryOK, HlpPcs

\* Every handle has one holder until it is joined.
LEMMA HandlesFollow ==
    ASSUME WorkersInv
    PROVE  NoHandleLost
<1>1. ASSUME NEW c \in Connections
      PROVE  Cardinality(Owners(c)) = (IF rpr[c].pc \in {"none", "joined"} THEN 0 ELSE 1)
  BY Zenon, OneHolder, FS_EmptySet, FS_Singleton
<1>2. QED BY Zenon, <1>1, ThreadsFollow DEF NoHandleLost

\* The invariant implies all of RegistrySafe.
LEMMA SafetyFollows ==
    ASSUME WorkersInv, Counted
    PROVE  RegistrySafe
<1>1. ASSUME NEW c \in Connections, ctor[c].pc = "drop" PROVE reservations > 0
  <2>1. Constructing # {}
    BY Zenon, <1>1 DEF Constructing
  <2>2. QED BY <2>1, CountedFacts
<1>2. QED BY Zenon, <1>1, TypesFollow, AssertionsFollow, HandlesFollow, ThreadsFollow DEF RegistrySafe

\* The invariant holds in every behaviour.
LEMMA WorkersInvariant ==
    RegistrySpec => [](WorkersInv /\ Counted)
<1>1. RegistryInit => WorkersInv /\ Counted
  <2>1. RegistryInit => Constructing = {} /\ reservations = 0
    BY DEF RegistryInit, Constructing
  <2>2. QED BY Zenon, <2>1, WorkersStart, FS_EmptySet DEF Counted
<1>2. WorkersInv /\ Counted /\ [RegistryNext]_wVars => WorkersInv' /\ Counted'
  BY Zenon, CountedFacts, CountedStep, WorkersStep
<1>3. QED BY <1>1, <1>2, PTL DEF RegistrySpec

\* However constructors, workers, helpers and reapers interleave and whatever
\* fails to start or unwinds, the registry's assertions hold, every thread
\* that was started has one holder of its join handle until it is joined, and
\* a MappedCompletion reports only joins that happened.
THEOREM ThreadsAreOwned == RegistrySpec => []RegistrySafe
<1>1. WorkersInv /\ Counted => RegistrySafe
  BY Zenon, SafetyFollows
<1>2. QED BY <1>1, WorkersInvariant, PTL

\* The registry does not retire its reaper while a published stream's helper
\* is to be joined, and never has two reapers at work.
THEOREM StreamsAreAttended == RegistrySpec => []PublishedIsAttended
<1>1. WorkersInv => PublishedIsAttended
  BY Zenon, AttendedFollows
<1>2. QED BY <1>1, WorkersInvariant, PTL

=============================================================================
