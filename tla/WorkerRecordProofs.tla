------------------------- MODULE WorkerRecordProofs -------------------------
(***************************************************************************)
(* Proofs about WorkerRegistry: the steps that change one connection's     *)
(* threads and record and leave the generation of reapers alone.           *)
(***************************************************************************)
EXTENDS WorkerInvariant, TLAPS

-----------------------------------------------------------------------------
(* What an assignment to one entry of a table does. *)

\* A constructor goes on to its next step.
LEMMA CtorPc ==
    ASSUME CtorOK, NEW c \in Connections, NEW pc \in CtorPcs, Ctor(c, pc)
    PROVE  /\ CtorOK'
           /\ ctor'[c].pc = pc /\ ctor'[c].owns_start = ctor[c].owns_start
           /\ ctor'[c].published = ctor[c].published
           /\ \A d \in Connections \ {c} : ctor'[d] = ctor[d]
  BY Zenon DEF CtorOK, Ctor

\* A helper goes on to its next step.
LEMMA HlpPc ==
    ASSUME HlpOK, NEW c \in Connections, NEW pc \in HlpPcs, Hlp(c, pc)
    PROVE  /\ HlpOK' /\ hlp'[c].pc = pc
           /\ \A d \in Connections \ {c} : hlp'[d] = hlp[d]
  BY Zenon DEF HlpOK, Hlp

\* A reaper goes on to its next step.
LEMMA RprPc ==
    ASSUME RprOK, NEW g \in Connections, NEW pc \in RprPcs, Rpr(g, pc)
    PROVE  /\ RprOK' /\ rpr'[g].pc = pc /\ rpr'[g].joins = rpr[g].joins
           /\ \A h \in Connections \ {g} : rpr'[h] = rpr[h]
  BY Zenon DEF RprOK, Rpr

\* A worker thread is started, is ready, ends or is joined.
LEMMA WrkPut ==
    ASSUME WrkOK, NEW c \in Connections, NEW w \in {"none", "entry", "ready", "ended", "joined"},
           wrk' = [wrk EXCEPT ![c] = w]
    PROVE  WrkOK' /\ wrk'[c] = w /\ \A d \in Connections \ {c} : wrk'[d] = wrk[d]
  BY Zenon DEF WrkOK

\* A helper's entry is replaced.
LEMMA HlpPut ==
    ASSUME HlpOK, NEW c \in Connections, NEW pc \in HlpPcs,
           hlp' = [hlp EXCEPT ![c] = [pc |-> pc, panicked |-> TRUE]]
    PROVE  HlpOK' /\ hlp'[c].pc = pc /\ \A d \in Connections \ {c} : hlp'[d] = hlp[d]
  BY Zenon DEF HlpOK

\* A reaper's entry is replaced.
LEMMA RprPut ==
    ASSUME RprOK, NEW g \in Connections, NEW pc \in RprPcs, NEW j \in Maybe,
           rpr' = [rpr EXCEPT ![g] = [pc |-> pc, joins |-> j]]
    PROVE  /\ RprOK' /\ rpr'[g].pc = pc /\ rpr'[g].joins = j
           /\ \A h \in Connections \ {g} : rpr'[h] = rpr[h]
  BY Zenon DEF RprOK

\* A table a step does not assign keeps its type.
LEMMA TablesStay ==
    /\ CtorOK /\ ctor' = ctor => CtorOK'
    /\ HlpOK /\ hlp' = hlp => HlpOK'
    /\ WrkOK /\ wrk' = wrk => WrkOK'
    /\ RprOK /\ rpr' = rpr => RprOK'
    /\ RecOK /\ rec' = rec => RecOK'
    /\ CompletionOK /\ completion' = completion => CompletionOK'
  BY Zenon DEF CtorOK, HlpOK, WrkOK, RprOK, RecOK, CompletionOK

\* The helper is spawned: its handle is in the record.
LEMMA RecStarted ==
    ASSUME RecOK, NEW c \in Connections,
           rec' = [rec EXCEPT ![c].helper = TRUE, ![c].helper_started = TRUE]
    PROVE  /\ RecOK' /\ OtherRecords(c) /\ SameRecovery(c)
           /\ rec'[c].helper /\ rec'[c].helper_started
           /\ rec'[c].helper_joining = rec[c].helper_joining
           /\ rec'[c].helper_ready = rec[c].helper_ready
           /\ rec'[c].assignment = rec[c].assignment
  BY ZenonT(30) DEF RecOK, Records, OtherRecords, SameRecovery

\* The helper reports that it has started.
LEMMA RecReady ==
    ASSUME RecOK, NEW c \in Connections, rec' = [rec EXCEPT ![c].helper_ready = TRUE]
    PROVE  /\ RecOK' /\ OtherRecords(c) /\ SameRecovery(c)
           /\ rec'[c].helper = rec[c].helper /\ rec'[c].helper_joining = rec[c].helper_joining
           /\ rec'[c].helper_started = rec[c].helper_started /\ rec'[c].helper_ready
           /\ rec'[c].assignment = rec[c].assignment
  BY Zenon DEF RecOK, Records, OtherRecords, SameRecovery

\* The helper is assigned a worker, a recovery or nothing.
LEMMA RecAssign ==
    ASSUME RecOK, NEW c \in Connections, NEW a \in Assignments,
           rec' = [rec EXCEPT ![c].assignment = a]
    PROVE  RecOK' /\ OtherRecords(c) /\ SameRecovery(c) /\ SameHelper(c) /\ rec'[c].assignment = a
  BY DEF RecOK, Records, OtherRecords, SameRecovery, SameHelper

\* The helper ends before it reported.
LEMMA RecHelperFailed ==
    ASSUME RecOK, NEW c \in Connections, rec' = [rec EXCEPT ![c].helper_failed_start = TRUE]
    PROVE  RecOK' /\ OtherRecords(c) /\ SameFields(c)
  BY Zenon DEF RecOK, Records, OtherRecords, SameRecovery, SameHelper, SameFields

\* The worker reports that it has started.
LEMMA RecWorkerReady ==
    ASSUME RecOK, NEW c \in Connections, rec' = [rec EXCEPT ![c].worker_ready = TRUE]
    PROVE  RecOK' /\ OtherRecords(c) /\ SameFields(c)
  BY Zenon DEF RecOK, Records, OtherRecords, SameRecovery, SameHelper, SameFields

\* The worker ends before it reported.
LEMMA RecWorkerFailed ==
    ASSUME RecOK, NEW c \in Connections, NEW b \in BOOLEAN,
           rec' = [rec EXCEPT ![c].worker_failed_start = b]
    PROVE  RecOK' /\ OtherRecords(c) /\ SameFields(c)
  BY DEF RecOK, Records, OtherRecords, SameRecovery, SameHelper, SameFields

\* The reaper takes the helper's handle to join it.
LEMMA RecJoining ==
    ASSUME RecOK, NEW c \in Connections, NEW b \in BOOLEAN,
           rec' = [rec EXCEPT ![c].helper = FALSE, ![c].helper_joining = TRUE,
                              ![c].helper_failed_start = b]
    PROVE  /\ RecOK' /\ OtherRecords(c) /\ SameRecovery(c)
           /\ rec'[c].helper = FALSE /\ rec'[c].helper_joining = TRUE
           /\ rec'[c].helper_started = rec[c].helper_started
           /\ rec'[c].helper_ready = rec[c].helper_ready
           /\ rec'[c].assignment = rec[c].assignment
<1> DEFINE r == [rec[c] EXCEPT !.helper = FALSE, !.helper_joining = TRUE, !.helper_failed_start = b]
<1>1. rec[c] \in Records
  BY Zenon DEF RecOK
<1>2. /\ r \in Records /\ r.helper = FALSE /\ r.helper_joining = TRUE
      /\ r.helper_started = rec[c].helper_started /\ r.helper_ready = rec[c].helper_ready
      /\ r.assignment = rec[c].assignment /\ r.current = rec[c].current /\ r.retiring = rec[c].retiring
  BY Zenon, <1>1 DEF Records
<1>3. rec' = [rec EXCEPT ![c] = r]
  BY Zenon
<1> HIDE DEF r
<1>4. RecOK' /\ rec'[c] = r /\ OtherRecords(c)
  BY ZenonT(30), <1>2, <1>3 DEF RecOK, OtherRecords
<1>5. QED BY Zenon, <1>2, <1>4 DEF SameRecovery

\* The reaper has joined the helper.
LEMMA RecJoined ==
    ASSUME RecOK, NEW c \in Connections, rec' = [rec EXCEPT ![c].helper_joining = FALSE]
    PROVE  /\ RecOK' /\ OtherRecords(c) /\ SameRecovery(c)
           /\ rec'[c].helper = rec[c].helper /\ ~rec'[c].helper_joining
           /\ rec'[c].helper_started = rec[c].helper_started
           /\ rec'[c].helper_ready = rec[c].helper_ready
           /\ rec'[c].assignment = rec[c].assignment
  BY Zenon DEF RecOK, Records, OtherRecords, SameRecovery

\* One outcome of a MappedCompletion is set.
LEMMA CompletionSet ==
    ASSUME CompletionOK, NEW c \in Connections
    PROVE  /\ completion' = [completion EXCEPT ![c].worker = "outcome"] =>
                /\ CompletionOK' /\ OtherCompletions(c) /\ completion'[c].worker = "outcome"
                /\ completion'[c].helper = completion[c].helper
                /\ completion'[c].current = completion[c].current
                /\ completion'[c].retiring = completion[c].retiring
           /\ \A r \in {"Ok", "Panicked"} : completion' = [completion EXCEPT ![c].helper = r] =>
                /\ CompletionOK' /\ OtherCompletions(c) /\ completion'[c].helper # "none"
                /\ completion'[c].worker = completion[c].worker
                /\ completion'[c].current = completion[c].current
                /\ completion'[c].retiring = completion[c].retiring
           /\ completion' = [completion EXCEPT ![c].current = "Joined"] =>
                /\ CompletionOK' /\ OtherCompletions(c)
                /\ completion'[c].worker = completion[c].worker
                /\ completion'[c].helper = completion[c].helper
                /\ completion'[c].retiring = completion[c].retiring
           /\ completion' = [completion EXCEPT ![c].retiring = "Joined"] =>
                /\ CompletionOK' /\ OtherCompletions(c)
                /\ completion'[c].worker = completion[c].worker
                /\ completion'[c].helper = completion[c].helper
                /\ completion'[c].current = completion[c].current
  BY DEF CompletionOK, Completions, OtherCompletions

\* A constructor takes or gives up the start, or publishes.
LEMMA CtorPut ==
    ASSUME CtorOK, NEW c \in Connections, NEW pc \in CtorPcs, NEW b \in BOOLEAN
    PROVE  /\ ctor' = [ctor EXCEPT ![c].pc = pc, ![c].owns_start = b] =>
                /\ CtorOK' /\ ctor'[c].pc = pc /\ ctor'[c].owns_start = b
                /\ ctor'[c].published = ctor[c].published
                /\ \A d \in Connections \ {c} : ctor'[d] = ctor[d]
           /\ ctor' = [ctor EXCEPT ![c].pc = pc, ![c].published = b] =>
                /\ CtorOK' /\ ctor'[c].pc = pc /\ ctor'[c].owns_start = ctor[c].owns_start
                /\ ctor'[c].published = b
                /\ \A d \in Connections \ {c} : ctor'[d] = ctor[d]
  BY DEF CtorOK

-----------------------------------------------------------------------------
(* The steps that leave the generation of reapers alone: each changes what   *)
(* one connection's threads and record are, and keeps what is said of them.  *)

\* The steps of a constructor, a helper and a worker on their own record.
LEMMA CalmSteps ==
    ASSUME TablesOK, NEW c \in Connections, LocalOK(c), InPhase(c)
    PROVE  \/ ReserveRecord(c) \/ ConstructorUnwind(c) \/ AwaitHelper(c) \/ AwaitWorker(c)
           \/ SpawnHelper(c, TRUE) \/ SpawnWorker(c, TRUE)
           \/ SpawnHelper(c, FALSE) \/ SpawnReaper(c, FALSE) \/ SpawnWorker(c, FALSE)
           \/ (EnsureReaper(c) /\ phase = "Running") \/ (AwaitReaper(c) /\ c \notin entered)
           \/ WorkerReady(c) \/ WorkerEnd(c) \/ HelperReady(c) \/ HelperFailsStart(c)
           \/ TakeAssignment(c) \/ WatchWorker(c) \/ HelperUnwind(c) \/ JoinWorker(c)
           \/ CompleteWorker(c) \/ HelperEnd(c) \/ UNCHANGED wVars
           => Calm(c)
<1>1. ASSUME NEW pc \in CtorPcs, Ctor(c, pc), records \subseteq records', pc # "new",
             UNCHANGED <<generationVars, rec, completion, hlp, wrk>>,
             \/ ctor[c].pc = "new" /\ pc = "spawn_helper" /\ c \in records'
             \/ ctor[c].pc = "await_helper" /\ pc = "ensure_reaper" /\ rec[c].helper_ready
             \/ ctor[c].pc = "ensure_reaper" /\ pc = "spawn_worker" /\ phase = "Running"
             \/ ctor[c].pc \notin {"new", "drop", "done"} /\ pc = "drop"
      PROVE  Calm(c)
  <2>1. CtorOK' /\ ctor'[c].pc = pc /\ ctor'[c].owns_start = ctor[c].owns_start /\ ctor'[c].published = ctor[c].published
        /\ \A d \in Connections \ {c} : ctor'[d] = ctor[d]
    BY Zenon, <1>1, CtorPc DEF TablesOK
  <2>2. rec' = rec /\ completion' = completion /\ hlp' = hlp /\ wrk' = wrk /\ UNCHANGED generationVars
    BY Zenon, <1>1
  <2>3. TablesOK' /\ Apart(c)
    BY Zenon, TablesStay, <1>1, <2>1, <2>2 DEF TablesOK, Apart, Same, generationVars
  <2>4. LocalOK(c)' /\ InPhase(c)' /\ Quiet(c)
    BY <1>1, <2>1, <2>2 DEF LocalOK, ConstructorOK, HelperOK, WorkerOK, InPhase, Quiet, Kept, Owning, UnderWay, HoldsStarting, HoldsReplaced, SameRecovery, generationVars
  <2>5. QED BY Zenon, <2>3, <2>4 DEF Calm
<1>2. CASE SpawnHelper(c, TRUE)
  <2>1. /\ ctor[c].pc = "spawn_helper" /\ Ctor(c, "await_helper") /\ Hlp(c, "entry")
        /\ rec' = [rec EXCEPT ![c].helper = TRUE, ![c].helper_started = TRUE]
        /\ wrk' = wrk /\ completion' = completion /\ records' = records /\ UNCHANGED generationVars
    BY Zenon, <1>2 DEF SpawnHelper, registryVars, generationVars
  <2>2. CtorOK' /\ ctor'[c].pc = "await_helper" /\ ctor'[c].owns_start = ctor[c].owns_start /\ ctor'[c].published = ctor[c].published
        /\ \A d \in Connections \ {c} : ctor'[d] = ctor[d]
    BY Zenon, <2>1, CtorPc DEF TablesOK, CtorPcs
  <2>3. HlpOK' /\ hlp'[c].pc = "entry" /\ \A d \in Connections \ {c} : hlp'[d] = hlp[d]
    BY Zenon, <2>1, HlpPc DEF TablesOK, HlpPcs
  <2>4. /\ RecOK' /\ OtherRecords(c) /\ SameRecovery(c)
        /\ rec'[c].helper /\ rec'[c].helper_started
        /\ rec'[c].helper_joining = rec[c].helper_joining
        /\ rec'[c].helper_ready = rec[c].helper_ready
        /\ rec'[c].assignment = rec[c].assignment
    BY Zenon, <2>1, RecStarted DEF TablesOK
  <2>5. TablesOK' /\ Apart(c)
    BY Zenon, TablesStay, <2>1, <2>2, <2>3, <2>4 DEF TablesOK, Apart, Same, generationVars, OtherRecords
  <2>6. LocalOK(c)' /\ InPhase(c)' /\ Quiet(c)
    BY Zenon, <2>1, <2>2, <2>3, <2>4 DEF LocalOK, ConstructorOK, HelperOK, WorkerOK, InPhase, Quiet, Kept, Owning, UnderWay, HoldsStarting, HoldsReplaced, SameRecovery, generationVars
  <2>7. QED BY Zenon, <2>5, <2>6 DEF Calm
<1>3. CASE AwaitHelper(c) /\ ~rec[c].helper_ready
  <2>1. /\ ctor[c].pc = "await_helper"
        /\ Ctor(c, "drop")
        /\ rec' = [rec EXCEPT ![c].helper_failed_start = TRUE]
        /\ UNCHANGED <<generationVars, records, hlp, wrk, completion>>
    BY Zenon, <1>3 DEF AwaitHelper, registryVars, generationVars
  <2>2. /\ CtorOK'
        /\ ctor'[c].pc = "drop"
        /\ ctor'[c].owns_start = ctor[c].owns_start
        /\ ctor'[c].published = ctor[c].published
        /\ \A d \in Connections \ {c} : ctor'[d] = ctor[d]
    BY Zenon, <2>1, CtorPc DEF TablesOK, CtorPcs
  <2>3. /\ RecOK'
        /\ OtherRecords(c)
        /\ SameFields(c)
    BY Zenon, <2>1, RecHelperFailed DEF TablesOK
  <2>4. TablesOK' /\ Apart(c)
    BY Zenon, TablesStay, <2>1, <2>2, <2>3 DEF TablesOK, Apart, Same, generationVars, OtherRecords
  <2>5. LocalOK(c)' /\ InPhase(c)' /\ Quiet(c)
    BY <2>1, <2>2, <2>3 DEF LocalOK, ConstructorOK, HelperOK, WorkerOK, InPhase, Quiet, Kept, Owning, UnderWay, HoldsStarting, HoldsReplaced, SameRecovery, generationVars, SameHelper, SameFields
  <2>6. QED BY Zenon, <2>4, <2>5 DEF Calm
<1>4. CASE SpawnWorker(c, TRUE)
  <2>1. /\ ctor[c].pc = "spawn_worker"
        /\ Ctor(c, "await_worker")
        /\ wrk' = [wrk EXCEPT ![c] = "entry"]
        /\ rec' = [rec EXCEPT ![c].assignment = "Worker"]
        /\ UNCHANGED <<generationVars, records, hlp, completion>>
    BY Zenon, <1>4 DEF SpawnWorker, registryVars, generationVars
  <2>2. /\ CtorOK'
        /\ ctor'[c].pc = "await_worker"
        /\ ctor'[c].owns_start = ctor[c].owns_start
        /\ ctor'[c].published = ctor[c].published
        /\ \A d \in Connections \ {c} : ctor'[d] = ctor[d]
    BY Zenon, <2>1, CtorPc DEF TablesOK, CtorPcs
  <2>3. /\ WrkOK'
        /\ wrk'[c] = "entry"
        /\ \A d \in Connections \ {c} : wrk'[d] = wrk[d]
    BY Zenon, <2>1, WrkPut DEF TablesOK
  <2>4. /\ RecOK'
        /\ OtherRecords(c)
        /\ SameRecovery(c)
        /\ SameHelper(c)
        /\ rec'[c].assignment = "Worker"
    BY Zenon, <2>1, RecAssign DEF TablesOK, Assignments
  <2>5. TablesOK' /\ Apart(c)
    BY Zenon, TablesStay, <2>1, <2>2, <2>3, <2>4 DEF TablesOK, Apart, Same, generationVars, OtherRecords
  <2>6. LocalOK(c)' /\ InPhase(c)' /\ Quiet(c)
    BY <2>1, <2>2, <2>3, <2>4 DEF LocalOK, ConstructorOK, HelperOK, WorkerOK, InPhase, Quiet, Kept, Owning, UnderWay, HoldsStarting, HoldsReplaced, SameRecovery, generationVars, SameHelper
  <2>7. QED BY Zenon, <2>5, <2>6 DEF Calm
<1>5. CASE WorkerReady(c)
  <2>1. /\ wrk[c] = "entry"
        /\ wrk' = [wrk EXCEPT ![c] = "ready"]
        /\ rec' = [rec EXCEPT ![c].worker_ready = TRUE]
        /\ UNCHANGED <<generationVars, records, ctor, hlp, completion>>
    BY Zenon, <1>5 DEF WorkerReady, registryVars, generationVars
  <2>2. /\ WrkOK'
        /\ wrk'[c] = "ready"
        /\ \A d \in Connections \ {c} : wrk'[d] = wrk[d]
    BY Zenon, <2>1, WrkPut DEF TablesOK
  <2>3. /\ RecOK'
        /\ OtherRecords(c)
        /\ SameFields(c)
    BY Zenon, <2>1, RecWorkerReady DEF TablesOK
  <2>4. TablesOK' /\ Apart(c)
    BY Zenon, TablesStay, <2>1, <2>2, <2>3 DEF TablesOK, Apart, Same, generationVars, OtherRecords
  <2>5. LocalOK(c)' /\ InPhase(c)' /\ Quiet(c)
    BY <2>1, <2>2, <2>3 DEF LocalOK, ConstructorOK, HelperOK, WorkerOK, InPhase, Quiet, Kept, Owning, UnderWay, HoldsStarting, HoldsReplaced, SameRecovery, generationVars, SameHelper, SameFields
  <2>6. QED BY Zenon, <2>4, <2>5 DEF Calm
<1>6. CASE WorkerEnd(c)
  <2>1. /\ wrk[c] \in {"entry", "ready"}
        /\ wrk' = [wrk EXCEPT ![c] = "ended"]
        /\ UNCHANGED <<generationVars, records, ctor, hlp, rec, completion>>
    BY Zenon, <1>6 DEF WorkerEnd, registryVars, generationVars
  <2>2. /\ WrkOK'
        /\ wrk'[c] = "ended"
        /\ \A d \in Connections \ {c} : wrk'[d] = wrk[d]
    BY Zenon, <2>1, WrkPut DEF TablesOK
  <2>3. TablesOK' /\ Apart(c)
    BY Zenon, TablesStay, <2>1, <2>2 DEF TablesOK, Apart, Same, generationVars
  <2>4. LocalOK(c)' /\ InPhase(c)' /\ Quiet(c)
    BY <2>1, <2>2 DEF LocalOK, ConstructorOK, HelperOK, WorkerOK, InPhase, Quiet, Kept, Owning, UnderWay, HoldsStarting, HoldsReplaced, SameRecovery, generationVars
  <2>5. QED BY Zenon, <2>3, <2>4 DEF Calm
<1>7. CASE HelperReady(c)
  <2>1. /\ hlp[c].pc = "entry"
        /\ Hlp(c, "assignment")
        /\ rec' = [rec EXCEPT ![c].helper_ready = TRUE]
        /\ UNCHANGED <<generationVars, records, ctor, wrk, completion>>
    BY Zenon, <1>7 DEF HelperReady, registryVars, generationVars
  <2>2. /\ HlpOK'
        /\ hlp'[c].pc = "assignment"
        /\ \A d \in Connections \ {c} : hlp'[d] = hlp[d]
    BY Zenon, <2>1, HlpPc DEF TablesOK, HlpPcs
  <2>3. /\ RecOK'
        /\ OtherRecords(c)
        /\ SameRecovery(c)
        /\ rec'[c].helper = rec[c].helper
        /\ rec'[c].helper_joining = rec[c].helper_joining
        /\ rec'[c].helper_started = rec[c].helper_started
        /\ rec'[c].helper_ready
        /\ rec'[c].assignment = rec[c].assignment
    BY Zenon, <2>1, RecReady DEF TablesOK
  <2>4. TablesOK' /\ Apart(c)
    BY Zenon, TablesStay, <2>1, <2>2, <2>3 DEF TablesOK, Apart, Same, generationVars, OtherRecords
  <2>5. LocalOK(c)' /\ InPhase(c)' /\ Quiet(c)
    BY <2>1, <2>2, <2>3 DEF LocalOK, ConstructorOK, HelperOK, WorkerOK, InPhase, Quiet, Kept, Owning, UnderWay, HoldsStarting, HoldsReplaced, SameRecovery, generationVars, SameHelper
  <2>6. QED BY Zenon, <2>4, <2>5 DEF Calm
<1>8. CASE HelperFailsStart(c)
  <2>1. /\ hlp[c].pc = "entry"
        /\ hlp' = [hlp EXCEPT ![c] = [pc |-> "ended", panicked |-> TRUE]]
        /\ UNCHANGED <<generationVars, records, ctor, wrk, rec, completion>>
    BY Zenon, <1>8 DEF HelperFailsStart, registryVars, generationVars
  <2>2. /\ HlpOK'
        /\ hlp'[c].pc = "ended"
        /\ \A d \in Connections \ {c} : hlp'[d] = hlp[d]
    BY Zenon, <2>1, HlpPut DEF TablesOK, HlpPcs
  <2>3. TablesOK' /\ Apart(c)
    BY Zenon, TablesStay, <2>1, <2>2 DEF TablesOK, Apart, Same, generationVars
  <2>4. LocalOK(c)' /\ InPhase(c)' /\ Quiet(c)
    BY <2>1, <2>2 DEF LocalOK, ConstructorOK, HelperOK, WorkerOK, InPhase, Quiet, Kept, Owning, UnderWay, HoldsStarting, HoldsReplaced, SameRecovery, generationVars
  <2>5. QED BY Zenon, <2>3, <2>4 DEF Calm
<1>9. CASE WatchWorker(c)
  <2>1. /\ hlp[c].pc = "watch"
        /\ Hlp(c, "join")
        /\ rec' = [rec EXCEPT ![c].worker_failed_start = @ \/ ~rec[c].worker_ready]
        /\ UNCHANGED <<generationVars, records, ctor, wrk, completion>>
    BY Zenon, <1>9 DEF WatchWorker, registryVars, generationVars
  <2>2. /\ HlpOK'
        /\ hlp'[c].pc = "join"
        /\ \A d \in Connections \ {c} : hlp'[d] = hlp[d]
    BY Zenon, <2>1, HlpPc DEF TablesOK, HlpPcs
  <2>3. /\ RecOK'
        /\ OtherRecords(c)
        /\ SameFields(c)
    <3>1. (rec[c].worker_failed_start \/ ~rec[c].worker_ready) \in BOOLEAN
      BY Zenon
    <3>2. QED BY Zenon, <2>1, <3>1, RecWorkerFailed DEF TablesOK
  <2>4. TablesOK' /\ Apart(c)
    BY Zenon, TablesStay, <2>1, <2>2, <2>3 DEF TablesOK, Apart, Same, generationVars, OtherRecords
  <2>5. LocalOK(c)' /\ InPhase(c)' /\ Quiet(c)
    BY <2>1, <2>2, <2>3 DEF LocalOK, ConstructorOK, HelperOK, WorkerOK, InPhase, Quiet, Kept, Owning, UnderWay, HoldsStarting, HoldsReplaced, SameRecovery, generationVars, SameHelper, SameFields
  <2>6. QED BY Zenon, <2>4, <2>5 DEF Calm
<1>10. CASE HelperUnwind(c)
  <2>1. /\ hlp[c].pc = "join"
        /\ hlp' = [hlp EXCEPT ![c] = [pc |-> "assignment", panicked |-> TRUE]]
        /\ rec' = [rec EXCEPT ![c].assignment = "Worker"]
        /\ UNCHANGED <<generationVars, records, ctor, wrk, completion>>
    BY Zenon, <1>10 DEF HelperUnwind, registryVars, generationVars
  <2>2. /\ HlpOK'
        /\ hlp'[c].pc = "assignment"
        /\ \A d \in Connections \ {c} : hlp'[d] = hlp[d]
    BY Zenon, <2>1, HlpPut DEF TablesOK, HlpPcs
  <2>3. /\ RecOK'
        /\ OtherRecords(c)
        /\ SameRecovery(c)
        /\ SameHelper(c)
        /\ rec'[c].assignment = "Worker"
    BY Zenon, <2>1, RecAssign DEF TablesOK, Assignments
  <2>4. TablesOK' /\ Apart(c)
    BY Zenon, TablesStay, <2>1, <2>2, <2>3 DEF TablesOK, Apart, Same, generationVars, OtherRecords
  <2>5. LocalOK(c)' /\ InPhase(c)' /\ Quiet(c)
    BY <2>1, <2>2, <2>3 DEF LocalOK, ConstructorOK, HelperOK, WorkerOK, InPhase, Quiet, Kept, Owning, UnderWay, HoldsStarting, HoldsReplaced, SameRecovery, generationVars, SameHelper
  <2>6. QED BY Zenon, <2>4, <2>5 DEF Calm
<1>11. CASE JoinWorker(c)
  <2>1. /\ hlp[c].pc = "join"
        /\ wrk[c] = "ended"
        /\ Hlp(c, "complete")
        /\ wrk' = [wrk EXCEPT ![c] = "joined"]
        /\ UNCHANGED <<generationVars, records, ctor, rec, completion>>
    BY Zenon, <1>11 DEF JoinWorker, registryVars, generationVars
  <2>2. /\ HlpOK'
        /\ hlp'[c].pc = "complete"
        /\ \A d \in Connections \ {c} : hlp'[d] = hlp[d]
    BY Zenon, <2>1, HlpPc DEF TablesOK, HlpPcs
  <2>3. /\ WrkOK'
        /\ wrk'[c] = "joined"
        /\ \A d \in Connections \ {c} : wrk'[d] = wrk[d]
    BY Zenon, <2>1, WrkPut DEF TablesOK
  <2>4. TablesOK' /\ Apart(c)
    BY Zenon, TablesStay, <2>1, <2>2, <2>3 DEF TablesOK, Apart, Same, generationVars
  <2>5. LocalOK(c)' /\ InPhase(c)' /\ Quiet(c)
    BY Zenon, <2>1, <2>2, <2>3 DEF LocalOK, ConstructorOK, HelperOK, WorkerOK, InPhase, Quiet, Kept, Owning, UnderWay, HoldsStarting, HoldsReplaced, SameRecovery, generationVars
  <2>6. QED BY Zenon, <2>4, <2>5 DEF Calm
<1>12. CASE CompleteWorker(c)
  <2>1. /\ hlp[c].pc = "complete"
        /\ Hlp(c, "leave")
        /\ completion' = [completion EXCEPT ![c].worker = "outcome"]
        /\ UNCHANGED <<generationVars, records, ctor, wrk, rec>>
    BY Zenon, <1>12 DEF CompleteWorker, registryVars, generationVars
  <2>2. /\ HlpOK'
        /\ hlp'[c].pc = "leave"
        /\ \A d \in Connections \ {c} : hlp'[d] = hlp[d]
    BY Zenon, <2>1, HlpPc DEF TablesOK, HlpPcs
  <2>3. /\ CompletionOK'
        /\ OtherCompletions(c)
        /\ completion'[c].worker = "outcome"
        /\ completion'[c].helper = completion[c].helper
        /\ completion'[c].current = completion[c].current
        /\ completion'[c].retiring = completion[c].retiring
    BY Zenon, <2>1, CompletionSet DEF TablesOK
  <2>4. TablesOK' /\ Apart(c)
    BY Zenon, TablesStay, <2>1, <2>2, <2>3 DEF TablesOK, Apart, Same, generationVars, OtherCompletions
  <2>5. LocalOK(c)' /\ InPhase(c)' /\ Quiet(c)
    BY Zenon, <2>1, <2>2, <2>3 DEF LocalOK, ConstructorOK, HelperOK, WorkerOK, InPhase, Quiet, Kept, Owning, UnderWay, HoldsStarting, HoldsReplaced, SameRecovery, generationVars
  <2>6. QED BY Zenon, <2>4, <2>5 DEF Calm
<1>13. CASE HelperEnd(c)
  <2>1. /\ hlp[c].pc = "leave"
        /\ Hlp(c, "ended")
        /\ UNCHANGED <<generationVars, records, ctor, wrk, rec, completion>>
    BY Zenon, <1>13 DEF HelperEnd, registryVars, generationVars
  <2>2. /\ HlpOK'
        /\ hlp'[c].pc = "ended"
        /\ \A d \in Connections \ {c} : hlp'[d] = hlp[d]
    BY Zenon, <2>1, HlpPc DEF TablesOK, HlpPcs
  <2>3. TablesOK' /\ Apart(c)
    BY Zenon, TablesStay, <2>1, <2>2 DEF TablesOK, Apart, Same, generationVars
  <2>4. LocalOK(c)' /\ InPhase(c)' /\ Quiet(c)
    BY <2>1, <2>2 DEF LocalOK, ConstructorOK, HelperOK, WorkerOK, InPhase, Quiet, Kept, Owning, UnderWay, HoldsStarting, HoldsReplaced, SameRecovery, generationVars
  <2>5. QED BY Zenon, <2>3, <2>4 DEF Calm
<1>14. CASE AwaitWorker(c)
  <2>1. /\ ctor[c].pc = "await_worker"
        /\ ctor' = [ctor EXCEPT ![c].pc = "drop", ![c].published = rec[c].worker_ready]
        /\ UNCHANGED <<generationVars, records, hlp, wrk, rec, completion>>
    BY Zenon, <1>14 DEF AwaitWorker, registryVars, generationVars
  <2>2. rec[c].worker_ready \in BOOLEAN
    BY Zenon DEF TablesOK, RecOK, Records
  <2>3. /\ CtorOK' /\ ctor'[c].pc = "drop" /\ ctor'[c].owns_start = ctor[c].owns_start
        /\ ctor'[c].published = rec[c].worker_ready
        /\ \A d \in Connections \ {c} : ctor'[d] = ctor[d]
    BY Zenon, <2>1, <2>2, CtorPut DEF TablesOK, CtorPcs
  <2>4. TablesOK' /\ Apart(c)
    BY Zenon, TablesStay, <2>1, <2>3 DEF TablesOK, Apart, Same, generationVars
  <2>5. LocalOK(c)' /\ InPhase(c)' /\ Quiet(c)
    BY Zenon, <2>1, <2>3 DEF LocalOK, ConstructorOK, HelperOK, WorkerOK, InPhase, Quiet, Kept, Owning, UnderWay, HoldsStarting, HoldsReplaced, SameRecovery, generationVars
  <2>6. QED BY Zenon, <2>4, <2>5 DEF Calm
<1>15. CASE TakeAssignment(c)
  <2>1. rec[c].assignment \in {"Worker", "Abandoned", "Recovery"} /\ hlp[c].pc = "assignment"
    <3>1. rec[c].assignment \in Assignments
      BY Zenon DEF TablesOK, RecOK, Records
    <3>2. QED BY Zenon, <3>1, <1>15 DEF TakeAssignment, LocalOK, HelperOK, Assignments
  <2>2. PICK pc \in HlpPcs :
          /\ Hlp(c, pc)
          /\ rec[c].assignment = "Worker" => pc = "watch"
          /\ rec[c].assignment = "Abandoned" => pc = "leave"
          /\ rec[c].assignment = "Recovery" => pc = "recover_current"
    <3>1. CASE rec[c].assignment = "Worker"
      <4>1. Hlp(c, "watch")
        BY Zenon, <3>1, <1>15 DEF TakeAssignment
      <4>2. QED BY Zenon, <3>1, <4>1 DEF HlpPcs
    <3>2. CASE rec[c].assignment = "Abandoned"
      <4>1. Hlp(c, "leave")
        BY Zenon, <1>15, <3>2 DEF TakeAssignment
      <4>2. QED BY Zenon, <3>2, <4>1 DEF HlpPcs
    <3>3. CASE rec[c].assignment = "Recovery"
      <4>1. Hlp(c, "recover_current")
        BY Zenon, <1>15, <3>3 DEF TakeAssignment
      <4>2. QED BY Zenon, <3>3, <4>1 DEF HlpPcs
    <3>4. QED BY Zenon, <2>1, <3>1, <3>2, <3>3
  <2>3. /\ rec' = [rec EXCEPT ![c].assignment = "Taken"]
        /\ UNCHANGED <<generationVars, records, ctor, wrk, completion>>
    BY Zenon, <1>15 DEF TakeAssignment, registryVars, generationVars
  <2>4. HlpOK' /\ hlp'[c].pc = pc /\ \A d \in Connections \ {c} : hlp'[d] = hlp[d]
    BY Zenon, <2>2, HlpPc DEF TablesOK
  <2>5. RecOK' /\ OtherRecords(c) /\ SameRecovery(c) /\ SameHelper(c) /\ rec'[c].assignment = "Taken"
    BY Zenon, <2>3, RecAssign DEF TablesOK, Assignments
  <2>6. TablesOK' /\ Apart(c)
    BY Zenon, TablesStay, <2>3, <2>4, <2>5 DEF TablesOK, Apart, Same, generationVars, OtherRecords
  <2>7. LocalOK(c)' /\ InPhase(c)' /\ Quiet(c)
    BY <2>1, <2>2, <2>3, <2>4, <2>5 DEF LocalOK, ConstructorOK, HelperOK, WorkerOK, InPhase, Quiet, Kept, Owning, UnderWay, HoldsStarting, HoldsReplaced, SameRecovery, generationVars, SameHelper
  <2>8. QED BY Zenon, <2>6, <2>7 DEF Calm
<1>16. CASE ReserveRecord(c)
  <2>1. /\ Ctor(c, "spawn_helper") /\ ctor[c].pc = "new" /\ records' = records \cup {c}
        /\ UNCHANGED <<generationVars, rec, completion, hlp, wrk>>
    BY Zenon, <1>16 DEF ReserveRecord, generationVars
  <2>2. QED BY Zenon, <1>1, <2>1 DEF CtorPcs
<1>17. CASE ConstructorUnwind(c)
  <2>1. /\ Ctor(c, "drop") /\ ctor[c].pc \notin {"new", "drop", "done"} /\ records' = records
        /\ UNCHANGED <<generationVars, rec, completion, hlp, wrk>>
    BY Zenon, <1>17 DEF ConstructorUnwind, generationVars, registryVars
  <2>2. QED BY Zenon, <1>1, <2>1 DEF CtorPcs
<1>18. CASE AwaitHelper(c) /\ rec[c].helper_ready
  <2>1. /\ Ctor(c, "ensure_reaper") /\ ctor[c].pc = "await_helper" /\ rec[c].helper_ready
        /\ UNCHANGED <<generationVars, records, rec, completion, hlp, wrk>>
    BY Zenon, <1>18 DEF AwaitHelper, registryVars, generationVars
  <2>2. QED BY Zenon, <1>1, <2>1 DEF CtorPcs
<1>19. CASE EnsureReaper(c) /\ phase = "Running"
  <2>1. /\ Ctor(c, "spawn_worker") /\ ctor[c].pc = "ensure_reaper" /\ phase = "Running"
        /\ UNCHANGED <<generationVars, records, rec, completion, hlp, wrk>>
    BY Zenon, <1>19 DEF EnsureReaper, generationVars
  <2>2. QED BY Zenon, <1>1, <2>1 DEF CtorPcs
<1>20. CASE AwaitReaper(c) /\ c \notin entered
  <2>1. /\ Ctor(c, "drop") /\ ctor[c].pc = "await_reaper"
        /\ UNCHANGED <<generationVars, records, rec, completion, hlp, wrk>>
    BY Zenon, <1>20 DEF AwaitReaper, generationVars
  <2>2. QED BY Zenon, <1>1, <2>1 DEF CtorPcs
<1>21. CASE SpawnHelper(c, FALSE) \/ SpawnReaper(c, FALSE) \/ SpawnWorker(c, FALSE)
  <2>1. /\ Ctor(c, "drop") /\ ctor[c].pc \in {"spawn_helper", "spawn_reaper", "spawn_worker"}
        /\ UNCHANGED <<generationVars, records, rec, completion, hlp, wrk>>
    BY Zenon, <1>21 DEF SpawnHelper, SpawnReaper, SpawnWorker, registryVars, generationVars
  <2>2. QED BY Zenon, <1>1, <2>1 DEF CtorPcs
<1>22. CASE UNCHANGED wVars
  <2>1. /\ rec' = rec /\ completion' = completion /\ ctor' = ctor /\ hlp' = hlp /\ wrk' = wrk
        /\ UNCHANGED <<generationVars, records>>
    BY Zenon, <1>22 DEF wVars, registryVars, threadVars, generationVars
  <2>2. TablesOK' /\ Apart(c)
    BY Zenon, TablesStay, <2>1 DEF TablesOK, Apart, Same, generationVars
  <2>3. LocalOK(c)' /\ InPhase(c)' /\ Quiet(c)
    BY <2>1 DEF LocalOK, ConstructorOK, HelperOK, WorkerOK, InPhase, Quiet, Kept, Owning, UnderWay,
       HoldsStarting, HoldsReplaced, SameRecovery, generationVars
  <2>4. QED BY Zenon, <2>2, <2>3 DEF Calm
<1>23. QED BY Zenon, <1>2, <1>3, <1>4, <1>5, <1>6, <1>7, <1>8, <1>9, <1>10, <1>11, <1>12, <1>13,
          <1>14, <1>15, <1>16, <1>17, <1>18, <1>19, <1>20, <1>21, <1>22

\* A calm step leaves the generation of reapers as it is.
LEMMA CalmSettles ==
    ASSUME WorkersInv, NEW c \in Connections, Calm(c)
    PROVE  Settled
<1> DEFINE Alike(d) ==
        /\ Owning(d)' <=> Owning(d)
        /\ HoldsStarting(d)' <=> HoldsStarting(d)
        /\ HoldsReplaced(d)' <=> HoldsReplaced(d)
        /\ UnderWay(d)' <=> UnderWay(d)
        /\ SameRecovery(d) /\ rec'[d].helper_joining = rec[d].helper_joining
        /\ hlp[d].pc \in {"ended", "joined"} => hlp'[d].pc = hlp[d].pc
        /\ completion'[d].current = completion[d].current
        /\ completion'[d].retiring = completion[d].retiring
<1>1. /\ phase' = phase /\ current' = current /\ retiring' = retiring /\ start' = start
      /\ recovering_current' = recovering_current /\ recovering_retiring' = recovering_retiring
      /\ entered' = entered /\ cancelled' = cancelled /\ rpr' = rpr
      /\ OneGeneration /\ Joins /\ phase \in {"Idle", "Starting", "Running", "Recovering"}
  BY Zenon DEF Calm, Quiet, generationVars, WorkersInv, RegistryOK
<1>2. ASSUME NEW d \in Connections PROVE Alike(d)
  <2>1. CASE d = c
    BY Zenon, <2>1 DEF Calm, Quiet
  <2>2. CASE d # c
    BY Zenon, <2>2 DEF Calm, Apart, Same, Owning, HoldsStarting, HoldsReplaced, UnderWay, SameRecovery
  <2>3. QED BY Zenon, <2>1, <2>2
<1> HIDE DEF Alike
<1>3. phase # "Idle" => start \in Connections /\ Alike(start)
  BY Zenon, <1>1, <1>2 DEF OneGeneration
<1>4. OneGeneration'
  BY SMTT(20), <1>1, <1>3 DEF OneGeneration, Alike, Retired, SameRecovery
<1>5. Joins'
  <2>1. phase = "Running" /\ rpr[start].joins \in Connections => Alike(rpr[start].joins)
    BY Zenon, <1>2
  <2>2. ASSUME NEW d \in Connections, rec'[d].helper_joining PROVE rec[d].helper_joining
    BY Zenon, <1>2, <2>2 DEF Alike
  <2>3. QED BY Zenon, <1>1, <2>1, <2>2 DEF Joins, Alike
<1>6. ASSUME NEW d \in Connections, d # c PROVE LocalOK(d)' /\ InPhase(d)'
  <2>1. LocalOK(d) /\ InPhase(d) /\ Same(d)
    BY Zenon, <1>6 DEF WorkersInv, Calm, Apart
  <2>2. QED BY <1>1, <2>1 DEF Same, LocalOK, ConstructorOK, HelperOK, WorkerOK, Kept, InPhase, Owning,
               UnderWay, HoldsReplaced, HoldsStarting
<1>7. ASSUME NEW d \in Connections PROVE ReaperOK(d)'
  <2>1. ReaperOK(d) /\ Alike(d)
    BY Zenon, <1>2 DEF WorkersInv
  <2>2. Held(d) => Held(d)'
    BY Zenon, <1>1, <1>3 DEF Held, Alike, SameRecovery
  <2>3. QED BY Zenon, <1>1, <2>1, <2>2 DEF ReaperOK, Alike, SameRecovery
<1>8. QED BY Zenon, <1>4, <1>5, <1>6, <1>7 DEF Settled, Calm

\* What the invariant says of one connection.
LEMMA Parts ==
    ASSUME WorkersInv, NEW c \in Connections
    PROVE  /\ TablesOK /\ OneGeneration /\ Joins /\ LocalOK(c) /\ InPhase(c) /\ ReaperOK(c) /\ c # NoOne
           /\ phase \in {"Idle", "Starting", "Running", "Recovering"}
  BY Zenon, FaultyAreConnections DEF WorkersInv, RegistryOK

\* What is not assigned keeps what is said of it.
LEMMA SameIsSame ==
    ASSUME NEW d \in Connections, LocalOK(d), Same(d)
    PROVE  /\ LocalOK(d)' /\ (Owning(d)' <=> Owning(d)) /\ (HoldsStarting(d)' <=> HoldsStarting(d))
           /\ (HoldsReplaced(d)' <=> HoldsReplaced(d)) /\ (UnderWay(d)' <=> UnderWay(d))
  BY DEF Same, LocalOK, ConstructorOK, HelperOK, WorkerOK, Kept, Owning, HoldsStarting, HoldsReplaced, UnderWay

\* A step of connection c that changes the phase is one of the owner of the
\* start: nobody else looks at what it changes.
LEMMA ElsewhereStays ==
    ASSUME WorkersInv, NEW c \in Connections, Apart(c),
           \A d \in Connections \ {c} : /\ rpr'[d].pc = "none" <=> rpr[d].pc = "none"
                                        /\ d \in cancelled' => d \in cancelled,
           \/ phase' = phase /\ start' = start /\ current' = current
           \/ phase = "Idle"
           \/ phase \in {"Starting", "Recovering"} /\ start = c
    PROVE  \A d \in Connections \ {c} : LocalOK(d)' /\ InPhase(d)'
<1> SUFFICES ASSUME NEW d \in Connections \ {c} PROVE LocalOK(d)' /\ InPhase(d)'
  OBVIOUS
<1>1. Same(d) /\ LocalOK(d) /\ InPhase(d)
  BY Zenon, Parts DEF Apart
<1>2. LocalOK(d)' /\ (Owning(d)' <=> Owning(d)) /\ (UnderWay(d)' <=> UnderWay(d))
  BY Zenon, <1>1, SameIsSame
<1>3. QED BY <1>1, <1>2 DEF InPhase, Same, LocalOK, ConstructorOK, Owning

-----------------------------------------------------------------------------
(* The start of a generation. *)

\* An idle registry begins a generation; what retired last is now replaced.
LEMMA StartBegins ==
    ASSUME WorkersInv, NEW c \in Connections, EnsureReaper(c), phase = "Idle"
    PROVE  Settled
<1>1. /\ ctor[c].pc = "ensure_reaper"
      /\ retiring' = current /\ current' = NoOne /\ phase' = "Starting" /\ start' = c
      /\ ctor' = [ctor EXCEPT ![c].pc = "spawn_reaper", ![c].owns_start = TRUE]
      /\ rpr' = rpr /\ hlp' = hlp /\ wrk' = wrk /\ rec' = rec /\ completion' = completion
      /\ recovering_current' = recovering_current /\ recovering_retiring' = recovering_retiring
      /\ entered' = entered /\ cancelled' = cancelled /\ records' = records
  BY Zenon DEF EnsureReaper
<1>2. /\ TablesOK' /\ ctor'[c].pc = "spawn_reaper" /\ ctor'[c].owns_start = TRUE
      /\ ctor'[c].published = ctor[c].published /\ \A d \in Connections \ {c} : ctor'[d] = ctor[d]
  BY Zenon, <1>1, CtorPut, TablesStay DEF WorkersInv, TablesOK, CtorPcs
<1>3. LocalOK(c)' /\ InPhase(c)' /\ Owning(c)' /\ rpr[c].pc = "none" /\ c \notin cancelled
  <2>1. LocalOK(c) /\ InPhase(c) /\ ReaperOK(c) /\ OneGeneration /\ c # NoOne
    BY Zenon, Parts
  <2>2. QED BY Zenon, <1>1, <1>2, <2>1 DEF LocalOK, ConstructorOK, HelperOK, WorkerOK, Kept, InPhase, Owning,
     HoldsStarting, HoldsReplaced, UnderWay
<1>4. OneGeneration' /\ Joins'
  BY Zenon, <1>1, <1>3, Parts DEF OneGeneration, Joins, Retired, WorkersInv, RegistryOK, Maybe
<1>5. ASSUME NEW d \in Connections PROVE ReaperOK(d)'
  <2>1. ReaperOK(d) /\ retiring = NoOne /\ d # NoOne
    BY Zenon, Parts DEF OneGeneration
  <2>2. QED BY Zenon, <1>1, <2>1 DEF ReaperOK, Held
<1>6. \A d \in Connections \ {c} : LocalOK(d)' /\ InPhase(d)'
  BY Zenon, <1>1, <1>2, ElsewhereStays DEF Apart, Same
<1>7. QED BY Zenon, <1>2, <1>3, <1>4, <1>5, <1>6 DEF Settled

\* The reaper that was spawned is the current one.
LEMMA ReaperSpawned ==
    ASSUME WorkersInv, NEW c \in Connections, SpawnReaper(c, TRUE)
    PROVE  Settled
<1>1. /\ ctor[c].pc = "spawn_reaper" /\ current' = c /\ Rpr(c, "entry") /\ Ctor(c, "await_reaper")
      /\ phase' = phase /\ start' = start /\ retiring' = retiring
      /\ hlp' = hlp /\ wrk' = wrk /\ rec' = rec /\ completion' = completion
      /\ recovering_current' = recovering_current /\ recovering_retiring' = recovering_retiring
      /\ entered' = entered /\ cancelled' = cancelled /\ records' = records
  BY Zenon DEF SpawnReaper
<1>2. /\ TablesOK' /\ ctor'[c].pc = "await_reaper" /\ ctor'[c].owns_start = ctor[c].owns_start
      /\ ctor'[c].published = ctor[c].published /\ \A d \in Connections \ {c} : ctor'[d] = ctor[d]
      /\ rpr'[c].pc = "entry" /\ \A h \in Connections \ {c} : rpr'[h] = rpr[h]
  BY ZenonT(30), <1>1, CtorPc, RprPc, TablesStay DEF WorkersInv, TablesOK, CtorPcs, RprPcs
<1>3. /\ rpr[c].pc = "none" /\ phase = "Starting" /\ start = c /\ c # NoOne
      /\ current = NoOne /\ c \notin cancelled /\ c \notin entered /\ retiring # c
  BY <1>1, Parts DEF InPhase, LocalOK, ConstructorOK, Owning, ReaperOK, OneGeneration, Retired
<1>4. LocalOK(c)' /\ InPhase(c)' /\ Owning(c)'
  <2>1. LocalOK(c) /\ InPhase(c) /\ ReaperOK(c) /\ OneGeneration /\ c # NoOne
    BY Zenon, Parts
  <2>2. QED BY Zenon, <1>1, <1>2, <1>3, <2>1 DEF LocalOK, ConstructorOK, HelperOK, WorkerOK, Kept, InPhase, Owning,
     HoldsStarting, HoldsReplaced, UnderWay
<1>5. OneGeneration' /\ Joins'
  BY Zenon, <1>1, <1>2, <1>3, <1>4, Parts DEF OneGeneration, Joins, Retired
<1>6. ASSUME NEW d \in Connections PROVE ReaperOK(d)'
  <2>1. ReaperOK(d) /\ d # NoOne
    BY Zenon, Parts
  <2>2. QED BY Zenon, <1>1, <1>2, <1>3, <2>1 DEF ReaperOK, Held, Reaping
<1>7. \A d \in Connections \ {c} : LocalOK(d)' /\ InPhase(d)'
  BY Zenon, <1>1, <1>2, <1>3, ElsewhereStays DEF Apart, Same
<1>8. QED BY Zenon, <1>2, <1>4, <1>5, <1>6, <1>7 DEF Settled

\* The reaper has entered: the generation runs.
LEMMA StartSucceeds ==
    ASSUME WorkersInv, NEW c \in Connections, AwaitReaper(c), c \in entered
    PROVE  Settled
<1>1. /\ ctor[c].pc = "await_reaper" /\ phase' = "Running"
      /\ ctor' = [ctor EXCEPT ![c].pc = "spawn_worker", ![c].owns_start = FALSE]
      /\ start' = start /\ retiring' = retiring /\ current' = current
      /\ rpr' = rpr /\ hlp' = hlp /\ wrk' = wrk /\ rec' = rec /\ completion' = completion
      /\ recovering_current' = recovering_current /\ recovering_retiring' = recovering_retiring
      /\ entered' = entered /\ cancelled' = cancelled /\ records' = records
  BY Zenon DEF AwaitReaper
<1>2. /\ TablesOK' /\ ctor'[c].pc = "spawn_worker" /\ ctor'[c].owns_start = FALSE
      /\ ctor'[c].published = ctor[c].published /\ \A d \in Connections \ {c} : ctor'[d] = ctor[d]
  BY Zenon, <1>1, CtorPut, TablesStay DEF WorkersInv, TablesOK, CtorPcs
<1>3. /\ phase = "Starting" /\ start = c /\ current = c
      /\ rpr[c].pc = "wait" /\ c \notin cancelled /\ c # NoOne
  BY <1>1, Parts DEF InPhase, LocalOK, ConstructorOK, Owning, OneGeneration, ReaperOK
<1>4. LocalOK(c)' /\ InPhase(c)'
  <2>1. LocalOK(c) /\ InPhase(c) /\ ReaperOK(c) /\ OneGeneration /\ c # NoOne
    BY Zenon, Parts
  <2>2. QED BY Zenon, <1>1, <1>2, <1>3, <2>1 DEF LocalOK, ConstructorOK, HelperOK, WorkerOK, Kept, InPhase, Owning,
     HoldsStarting, HoldsReplaced, UnderWay
<1>5. OneGeneration' /\ Joins'
  BY Zenon, <1>1, <1>3, Parts DEF OneGeneration, Joins, Retired, Reaping
<1>6. ASSUME NEW d \in Connections PROVE ReaperOK(d)'
  <2>1. ReaperOK(d)
    BY Zenon, Parts
  <2>2. QED BY Zenon, <1>1, <1>3, <2>1 DEF ReaperOK, Held
<1>7. \A d \in Connections \ {c} : LocalOK(d)' /\ InPhase(d)'
  BY Zenon, <1>1, <1>2, <1>3, ElsewhereStays DEF Apart, Same
<1>8. QED BY Zenon, <1>2, <1>4, <1>5, <1>6, <1>7 DEF Settled

-----------------------------------------------------------------------------
(* Drop of a constructor. *)

\* What Drop leaves of the constructor.
LEMMA DropCtor ==
    ASSUME WorkersInv, NEW c \in Connections, DropConstructor(c)
    PROVE  /\ ctor[c].pc = "drop" /\ CtorOK' /\ ctor'[c].pc = "done" /\ ~Owning(c)'
           /\ ctor'[c].published = ctor[c].published
           /\ \A d \in Connections \ {c} : ctor'[d] = ctor[d] /\ (d \in records => d \in records')
           /\ hlp' = hlp /\ wrk' = wrk /\ rpr' = rpr /\ entered' = entered
           /\ rec[c].helper_started /\ c \in records => c \in records'
           /\ Recovers(c) \/ GivesUpStart(c) => Owning(c) /\ phase = "Starting" /\ start = c
           /\ Owning(c) => Recovers(c) \/ GivesUpStart(c)
<1>1. /\ ctor[c].pc = "drop" /\ Ctor(c, "done") /\ hlp' = hlp /\ wrk' = wrk /\ rpr' = rpr /\ entered' = entered
      /\ records' = IF rec[c].helper_started THEN records ELSE records \ {c}
  BY Zenon DEF DropConstructor, DropRegistry
<1>2. /\ CtorOK' /\ ctor'[c].pc = "done" /\ ctor'[c].published = ctor[c].published
      /\ \A d \in Connections \ {c} : ctor'[d] = ctor[d]
  BY Zenon, <1>1, CtorPc DEF WorkersInv, TablesOK, CtorPcs
<1>3. QED BY Zenon, <1>1, <1>2, Parts DEF Owning, Recovers, GivesUpStart, InPhase, LocalOK, ConstructorOK

\* What Drop assigns to the helper.
LEMMA DropRec ==
    ASSUME RecOK, NEW c \in Connections, DropRecord(c), ~Recovers(c)
    PROVE  /\ RecOK' /\ OtherRecords(c) /\ SameHelper(c) /\ SameRecovery(c)
           /\ rec'[c].assignment = (IF ~ctor[c].published /\ rec[c].assignment = "Waiting"
                                    THEN "Abandoned" ELSE rec[c].assignment)
           /\ completion' = [completion EXCEPT ![c] = completion[c]]
<1>1. completion' = [completion EXCEPT ![c] = completion[c]]
  BY Zenon DEF DropRecord
<1>2. CASE ~ctor[c].published /\ rec[c].assignment = "Waiting"
  <2>1. rec' = [rec EXCEPT ![c].assignment = "Abandoned"]
    BY Zenon, <1>2 DEF DropRecord
  <2>2. QED BY Zenon, <1>1, <1>2, <2>1, RecAssign DEF Assignments
<1>3. CASE ~(~ctor[c].published /\ rec[c].assignment = "Waiting")
  <2>1. rec' = rec
    BY Zenon, <1>3 DEF DropRecord, RecOK
  <2>2. QED BY Zenon, <1>1, <1>3, <2>1 DEF RecOK, OtherRecords, SameHelper, SameRecovery
<1>4. QED BY Zenon, <1>2, <1>3

\* A constructor that does not own the start leaves the generation alone.
LEMMA DropCalm ==
    ASSUME WorkersInv, NEW c \in Connections, DropConstructor(c), ~Recovers(c), ~GivesUpStart(c)
    PROVE  Settled
<1>1. /\ phase' = phase /\ current' = current /\ retiring' = retiring /\ start' = start
      /\ cancelled' = cancelled /\ recovering_current' = recovering_current
      /\ recovering_retiring' = recovering_retiring /\ DropRecord(c)
  BY Zenon DEF DropConstructor, DropRegistry, WorkersInv, RegistryOK
<1>2. /\ RecOK' /\ OtherRecords(c) /\ SameHelper(c) /\ SameRecovery(c)
      /\ rec'[c].assignment = (IF ~ctor[c].published /\ rec[c].assignment = "Waiting"
                               THEN "Abandoned" ELSE rec[c].assignment)
      /\ completion' = completion
  BY <1>1, DropRec DEF WorkersInv, TablesOK, CompletionOK
<1>3. /\ ctor[c].pc = "drop" /\ ctor'[c].pc = "done" /\ ~Owning(c)' /\ ~Owning(c)
      /\ ctor'[c].published = ctor[c].published /\ hlp' = hlp /\ wrk' = wrk /\ rpr' = rpr /\ entered' = entered
      /\ rec[c].helper_started /\ c \in records => c \in records'
      /\ CtorOK' /\ \A d \in Connections \ {c} : ctor'[d] = ctor[d] /\ (d \in records => d \in records')
  BY Zenon, DropCtor
<1>4. TablesOK'
  BY Zenon, <1>2, <1>3, TablesStay DEF WorkersInv, TablesOK
<1>5. Apart(c)
  BY Zenon, <1>2, <1>3 DEF Apart, Same, OtherRecords
<1>6. LocalOK(c)' /\ InPhase(c)' /\ Quiet(c)
  <2>1. LocalOK(c) /\ InPhase(c) /\ ReaperOK(c) /\ OneGeneration /\ c # NoOne
    BY Zenon, Parts
  <2>2. QED BY ZenonT(30), <1>1, <1>2, <1>3, <2>1 DEF LocalOK, ConstructorOK, HelperOK, WorkerOK, Kept, SameHelper, Owning,
     InPhase, Quiet, UnderWay, HoldsStarting, HoldsReplaced, SameRecovery, generationVars
<1>7. QED BY Zenon, <1>4, <1>5, <1>6, CalmSettles DEF Calm

\* One whose reaper was never spawned gives the start back.
LEMMA DropGivesUp ==
    ASSUME WorkersInv, NEW c \in Connections, DropConstructor(c), GivesUpStart(c)
    PROVE  Settled
<1>1. /\ ctor[c].pc = "drop" /\ ctor'[c].pc = "done" /\ ~Owning(c)' /\ Owning(c)
      /\ ctor'[c].published = ctor[c].published /\ hlp' = hlp /\ wrk' = wrk /\ rpr' = rpr /\ entered' = entered
      /\ rec[c].helper_started /\ c \in records => c \in records'
      /\ CtorOK' /\ \A d \in Connections \ {c} : ctor'[d] = ctor[d] /\ (d \in records => d \in records')
      /\ phase = "Starting" /\ start = c /\ current = NoOne /\ ~Recovers(c)
  BY Zenon, DropCtor DEF GivesUpStart, Recovers
<1>2. /\ phase' = "Idle" /\ current' = retiring /\ retiring' = NoOne /\ start' = NoOne
      /\ cancelled' = cancelled \cup {c} /\ recovering_current' = recovering_current
      /\ recovering_retiring' = recovering_retiring /\ DropRecord(c)
  BY Zenon, <1>1 DEF DropConstructor, DropRegistry, WorkersInv, RegistryOK
<1>3. /\ RecOK' /\ OtherRecords(c) /\ SameHelper(c) /\ SameRecovery(c)
      /\ rec'[c].assignment = (IF ~ctor[c].published /\ rec[c].assignment = "Waiting"
                               THEN "Abandoned" ELSE rec[c].assignment)
      /\ completion' = completion
  BY <1>1, <1>2, DropRec DEF WorkersInv, TablesOK, CompletionOK
<1>4. TablesOK'
  BY Zenon, <1>1, <1>3, TablesStay DEF WorkersInv, TablesOK
<1>5. Apart(c)
  BY Zenon, <1>1, <1>3 DEF Apart, Same, OtherRecords
<1>6. LocalOK(c)' /\ InPhase(c)'
  <2>1. LocalOK(c) /\ InPhase(c) /\ ReaperOK(c) /\ OneGeneration /\ c # NoOne
    BY Zenon, Parts
  <2>2. QED BY ZenonT(30), <1>1, <1>2, <1>3, <2>1 DEF LocalOK, ConstructorOK, HelperOK, WorkerOK, Kept, SameHelper, Owning,
     InPhase, UnderWay, HoldsStarting, HoldsReplaced
<1>7. OneGeneration' /\ Joins'
  <2>1. ASSUME NEW d \in Connections PROVE ~rec'[d].helper_joining
    BY ZenonT(30), <1>1, <1>3, Parts DEF Joins, OtherRecords, SameHelper
  <2>2. QED BY ZenonT(30), <1>1, <1>2, <2>1, Parts DEF OneGeneration, Joins, Retired
<1>8. ASSUME NEW d \in Connections PROVE ReaperOK(d)'
  <2>1. ReaperOK(d) /\ d # NoOne /\ rec'[d].retiring = rec[d].retiring /\ (d = c => rpr[d].pc = "none")
    BY Zenon, <1>1, <1>3, Parts DEF OtherRecords, SameRecovery, OneGeneration
  <2>2. QED BY Zenon, <1>1, <1>2, <1>3, <2>1 DEF ReaperOK, Held
<1>9. \A d \in Connections \ {c} : LocalOK(d)' /\ InPhase(d)'
  BY Zenon, <1>1, <1>2, <1>5, ElsewhereStays
<1>10. QED BY Zenon, <1>4, <1>6, <1>7, <1>8, <1>9 DEF Settled

\* Drop hands the reaper that was spawned to the helper.
LEMMA DropIntoRecovery ==
    ASSUME RecOK, CompletionOK, NEW c \in Connections, DropRecord(c), Recovers(c),
           current \in Maybe, retiring \in Maybe
    PROVE  /\ RecOK' /\ OtherRecords(c) /\ SameHelper(c)
           /\ rec'[c].assignment = "Recovery" /\ rec'[c].current = current /\ rec'[c].retiring = retiring
           /\ CompletionOK' /\ OtherCompletions(c)
           /\ completion'[c].worker = completion[c].worker /\ completion'[c].helper = completion[c].helper
           /\ completion'[c].current # "Joined" /\ completion'[c].retiring # "Joined"
<1> DEFINE r == [rec[c] EXCEPT !.assignment = "Recovery", !.current = current, !.retiring = retiring]
           q == IF retiring = NoOne THEN "NotRequired" ELSE "Pending"
           o == [completion[c] EXCEPT !.current = "Pending", !.retiring = q]
<1>1. rec' = [rec EXCEPT ![c] = r] /\ completion' = [completion EXCEPT ![c] = o]
  BY Zenon DEF DropRecord
<1>2. /\ r \in Records /\ r.assignment = "Recovery" /\ r.current = current /\ r.retiring = retiring
      /\ r.helper = rec[c].helper /\ r.helper_joining = rec[c].helper_joining
      /\ r.helper_started = rec[c].helper_started /\ r.helper_ready = rec[c].helper_ready
  <2>1. rec[c] \in Records
    BY Zenon DEF RecOK
  <2>2. QED BY Zenon, <2>1 DEF Records, Assignments
<1>3. /\ o \in Completions /\ o.worker = completion[c].worker /\ o.helper = completion[c].helper
      /\ o.current # "Joined" /\ o.retiring # "Joined"
  <2>1. completion[c] \in Completions /\ q \in {"NotRequired", "Pending"}
    BY Zenon DEF CompletionOK
  <2>2. QED BY Zenon, <2>1 DEF Completions
<1> HIDE DEF r, q, o
<1>4. RecOK' /\ rec'[c] = r /\ OtherRecords(c) /\ CompletionOK' /\ completion'[c] = o /\ OtherCompletions(c)
  BY Zenon, <1>1, <1>2, <1>3 DEF RecOK, OtherRecords, CompletionOK, OtherCompletions
<1>5. QED BY Zenon, <1>2, <1>3, <1>4 DEF SameHelper

\* One whose reaper was spawned hands it, and the one it replaces, to its
\* helper.
LEMMA DropRecovers ==
    ASSUME WorkersInv, NEW c \in Connections, DropConstructor(c), Recovers(c)
    PROVE  Settled
<1>1. /\ ctor[c].pc = "drop" /\ ctor'[c].pc = "done" /\ ~Owning(c)' /\ Owning(c)
      /\ ctor'[c].published = ctor[c].published /\ hlp' = hlp /\ wrk' = wrk /\ rpr' = rpr /\ entered' = entered
      /\ rec[c].helper_started /\ c \in records => c \in records'
      /\ CtorOK' /\ \A d \in Connections \ {c} : ctor'[d] = ctor[d] /\ (d \in records => d \in records')
      /\ phase = "Starting" /\ start = c /\ current # NoOne /\ ~GivesUpStart(c)
  BY Zenon, DropCtor DEF GivesUpStart, Recovers
<1>2. /\ phase' = "Recovering" /\ current' = NoOne /\ retiring' = NoOne /\ start' = c
      /\ cancelled' = cancelled \cup {c} /\ recovering_current' = TRUE
      /\ recovering_retiring' = (retiring # NoOne) /\ DropRecord(c)
  BY Zenon, <1>1 DEF DropConstructor, DropRegistry
<1>3. /\ RecOK' /\ OtherRecords(c) /\ SameHelper(c)
      /\ rec'[c].assignment = "Recovery" /\ rec'[c].current = current /\ rec'[c].retiring = retiring
      /\ CompletionOK' /\ OtherCompletions(c)
      /\ completion'[c].worker = completion[c].worker /\ completion'[c].helper = completion[c].helper
      /\ completion'[c].current # "Joined" /\ completion'[c].retiring # "Joined"
  BY Zenon, <1>2, DropIntoRecovery DEF WorkersInv, RegistryOK, TablesOK
<1>4. TablesOK' /\ current = c /\ rpr[c].pc \in {"entry", "wait", "ended"} /\ retiring # c
  <2>1. TablesOK'
    BY Zenon, <1>1, <1>3, TablesStay DEF WorkersInv, TablesOK
  <2>2. QED BY Zenon, <1>1, <2>1, Parts DEF OneGeneration
<1>5. Apart(c)
  BY Zenon, <1>1, <1>3 DEF Apart, Same, OtherRecords, OtherCompletions
<1>6. LocalOK(c)' /\ InPhase(c)' /\ HoldsStarting(c)' /\ HoldsReplaced(c)' /\ UnderWay(c)'
  <2>1. LocalOK(c) /\ InPhase(c) /\ ReaperOK(c) /\ OneGeneration /\ c # NoOne
    BY Zenon, Parts
  <2>2. QED BY ZenonT(30), <1>1, <1>2, <1>3, <1>4, <2>1 DEF LocalOK, ConstructorOK, HelperOK, WorkerOK, Kept, SameHelper,
     Owning, InPhase, UnderWay, HoldsStarting, HoldsReplaced
<1>7. OneGeneration' /\ Joins'
  <2>1. ASSUME NEW d \in Connections PROVE ~rec'[d].helper_joining
    BY Zenon, <1>1, <1>3, Parts DEF Joins, OtherRecords, SameHelper
  <2>2. QED BY Zenon, <1>1, <1>2, <1>3, <1>4, <1>6, <2>1, Parts DEF OneGeneration, Joins, Retired
<1>8. ASSUME NEW d \in Connections PROVE ReaperOK(d)'
  <2>1. ReaperOK(d) /\ d # NoOne /\ (d # c => rec'[d] = rec[d] /\ completion'[d] = completion[d])
    BY Zenon, <1>3, Parts DEF OtherRecords, OtherCompletions
  <2>2. QED BY Zenon, <1>1, <1>2, <1>3, <1>4, <1>6, <2>1 DEF ReaperOK, Held
<1>9. \A d \in Connections \ {c} : LocalOK(d)' /\ InPhase(d)'
  BY Zenon, <1>1, <1>2, <1>5, ElsewhereStays
<1>10. QED BY Zenon, <1>4, <1>6, <1>7, <1>8, <1>9 DEF Settled

-----------------------------------------------------------------------------
(* Recovery: the helper joins the reaper that was starting, then the one it  *)
(* replaced.                                                                 *)

\* Where the recovery of c is, the registry is recovering on its behalf.
LEMMA RecoveryOf ==
    ASSUME WorkersInv, NEW c \in Connections, UnderWay(c)
    PROVE  /\ phase = "Recovering" /\ start = c /\ rec[c].current = c
           /\ c # NoOne /\ current = NoOne /\ retiring = NoOne /\ c \in cancelled
           /\ hlp[c].pc \in {"recover_current", "recover_retiring", "recovered"} => rec[c].assignment = "Taken"
           /\ HoldsReplaced(c) /\ rec[c].retiring # NoOne =>
                rec[c].retiring \in Connections \ {c} /\ Retired(rec[c].retiring)
  BY Parts DEF OneGeneration, InPhase, LocalOK, HelperOK

\* The helper has joined the reaper that was starting.
LEMMA CurrentRecovered ==
    ASSUME WorkersInv, NEW c \in Connections, RecoverCurrent(c)
    PROVE  Settled
<1>1. /\ hlp[c].pc = "recover_current" /\ HoldsStarting(c) /\ HoldsReplaced(c) /\ UnderWay(c)
      /\ phase = "Recovering" /\ start = c /\ rec[c].current = c /\ rec[c].assignment = "Taken"
      /\ c # NoOne /\ current = NoOne /\ retiring = NoOne /\ c \in cancelled
      /\ rec[c].retiring # NoOne => rec[c].retiring \in Connections \ {c} /\ Retired(rec[c].retiring)
  <2>1. hlp[c].pc = "recover_current" /\ HoldsStarting(c) /\ HoldsReplaced(c) /\ UnderWay(c)
    BY Zenon DEF RecoverCurrent, UnderWay, HoldsReplaced, HoldsStarting
  <2>2. QED BY Zenon, <2>1, RecoveryOf
<1>2. /\ rpr[c].pc = "ended" /\ Rpr(c, "joined") /\ Hlp(c, "recover_retiring")
      /\ completion' = [completion EXCEPT ![c].current = "Joined"] /\ recovering_current' = FALSE
      /\ phase' = phase /\ current' = current /\ retiring' = retiring /\ start' = start
      /\ recovering_retiring' = recovering_retiring /\ entered' = entered /\ cancelled' = cancelled
      /\ rec' = rec /\ ctor' = ctor /\ wrk' = wrk /\ records' = records
  BY Zenon, <1>1 DEF RecoverCurrent
<1>3. /\ RprOK' /\ rpr'[c].pc = "joined" /\ \A h \in Connections \ {c} : rpr'[h] = rpr[h]
      /\ HlpOK' /\ hlp'[c].pc = "recover_retiring" /\ \A d \in Connections \ {c} : hlp'[d] = hlp[d]
      /\ CompletionOK' /\ OtherCompletions(c)
      /\ completion'[c].worker = completion[c].worker
      /\ completion'[c].helper = completion[c].helper
      /\ completion'[c].retiring = completion[c].retiring
  BY Zenon, <1>2, RprPc, HlpPc, CompletionSet DEF WorkersInv, TablesOK, RprPcs, HlpPcs
<1>4. TablesOK' /\ Apart(c)
  BY Zenon, <1>2, <1>3, TablesStay DEF WorkersInv, TablesOK, Apart, Same, OtherCompletions
<1>5. LocalOK(c)' /\ InPhase(c)' /\ UnderWay(c)' /\ HoldsReplaced(c)' /\ ~HoldsStarting(c)'
  <2>1. LocalOK(c) /\ InPhase(c) /\ ReaperOK(c) /\ OneGeneration /\ c # NoOne
    BY Zenon, Parts
  <2>2. QED BY Zenon, <1>1, <1>2, <1>3, <2>1 DEF LocalOK, ConstructorOK, HelperOK, WorkerOK, Kept, Owning, InPhase,
     UnderWay, HoldsStarting, HoldsReplaced
<1>6. OneGeneration' /\ Joins'
  BY Zenon, <1>1, <1>2, <1>3, <1>5, Parts DEF OneGeneration, Joins, Retired
<1>7. ASSUME NEW d \in Connections PROVE ReaperOK(d)'
  <2>1. /\ ReaperOK(d) /\ d # NoOne
        /\ d # c => rpr'[d] = rpr[d] /\ completion'[d] = completion[d]
    BY Zenon, <1>3, Parts DEF OtherCompletions
  <2>2. QED BY <1>1, <1>2, <1>3, <1>5, <2>1 DEF ReaperOK, Held, Reaping
<1>8. \A d \in Connections \ {c} : LocalOK(d)' /\ InPhase(d)'
  BY Zenon, <1>2, <1>3, <1>4, ElsewhereStays
<1>9. QED BY Zenon, <1>4, <1>5, <1>6, <1>7, <1>8 DEF Settled

\* The helper has joined the reaper that was replaced.
LEMMA ReplacedRecovered ==
    ASSUME WorkersInv, NEW c \in Connections, RecoverRetiring(c)
    PROVE  Settled
<1> DEFINE g == rec[c].retiring
<1>1. /\ hlp[c].pc = "recover_retiring" /\ ~HoldsStarting(c) /\ HoldsReplaced(c) /\ UnderWay(c)
      /\ phase = "Recovering" /\ start = c /\ rec[c].current = c /\ rec[c].assignment = "Taken"
      /\ c # NoOne /\ current = NoOne /\ retiring = NoOne /\ c \in cancelled
      /\ g # NoOne => g \in Connections \ {c} /\ Retired(g)
  <2>1. hlp[c].pc = "recover_retiring" /\ HoldsReplaced(c) /\ UnderWay(c)
    BY Zenon DEF RecoverRetiring, UnderWay, HoldsReplaced
  <2>2. QED BY Zenon, <2>1, RecoveryOf DEF HoldsStarting
<1>2. /\ Hlp(c, "recovered")
      /\ phase' = phase /\ current' = current /\ retiring' = retiring /\ start' = start
      /\ recovering_current' = recovering_current /\ entered' = entered /\ cancelled' = cancelled
      /\ rec' = rec /\ ctor' = ctor /\ wrk' = wrk /\ records' = records
      /\ g = NoOne => rpr' = rpr /\ completion' = completion /\ recovering_retiring' = recovering_retiring
      /\ g # NoOne => /\ rpr[g].pc = "ended" /\ Rpr(g, "joined") /\ recovering_retiring' = FALSE
                      /\ completion' = [completion EXCEPT ![c].retiring = "Joined"]
  BY Zenon DEF RecoverRetiring
<1> HIDE DEF g
<1>3. /\ RprOK' /\ (\A h \in Connections \ {g} : rpr'[h] = rpr[h])
      /\ CompletionOK' /\ OtherCompletions(c)
      /\ completion'[c].worker = completion[c].worker
      /\ completion'[c].helper = completion[c].helper
      /\ completion'[c].current = completion[c].current
      /\ g # NoOne => g \in Connections /\ rpr[g].pc = "ended" /\ rpr'[g].pc = "joined"
  <2>1. CASE g = NoOne
    BY Zenon, <1>2, <2>1, TablesStay DEF WorkersInv, TablesOK, OtherCompletions
  <2>2. CASE g # NoOne
    BY Zenon, <1>1, <1>2, <2>2, RprPc, CompletionSet DEF WorkersInv, TablesOK, RprPcs
  <2>3. QED BY Zenon, <2>1, <2>2
<1>4. HlpOK' /\ hlp'[c].pc = "recovered" /\ \A d \in Connections \ {c} : hlp'[d] = hlp[d]
  BY Zenon, <1>2, HlpPc DEF WorkersInv, TablesOK, HlpPcs
<1>5. TablesOK' /\ Apart(c)
  BY Zenon, <1>2, <1>3, <1>4, TablesStay DEF WorkersInv, TablesOK, Apart, Same, OtherCompletions
<1>6. /\ LocalOK(c)' /\ UnderWay(c)' /\ ~HoldsReplaced(c)' /\ ~HoldsStarting(c)' /\ InPhase(c)'
  <2>1. LocalOK(c) /\ InPhase(c) /\ ReaperOK(c) /\ OneGeneration /\ c # NoOne
    BY Zenon, Parts
  <2>2. QED BY <1>1, <1>2, <1>3, <1>4, <2>1 DEF LocalOK, ConstructorOK, HelperOK, WorkerOK, Kept, Owning, InPhase,
     UnderWay, HoldsStarting, HoldsReplaced
<1>7. OneGeneration' /\ Joins'
  BY <1>1, <1>2, <1>6, Parts DEF OneGeneration, Joins, g
<1>8. ASSUME NEW d \in Connections PROVE ReaperOK(d)'
  <2>1. /\ ReaperOK(d) /\ d # NoOne
        /\ (d # g => rpr'[d] = rpr[d]) /\ (d # c => completion'[d] = completion[d])
    BY Zenon, <1>3, Parts DEF OtherCompletions
  <2>2. rpr[d].pc \notin {"none", "joined"} => d = g
    BY Zenon, <1>1, <2>1 DEF ReaperOK, Held, g
  <2>3. /\ rpr'[d].pc \in {"none", "joined"}
        /\ rpr[d].pc # "none" => rpr'[d].pc = "joined"
    BY Zenon, <1>3, <2>1, <2>2
  <2>4. \A h \in Connections : rpr[h].pc = "joined" => rpr'[h].pc = "joined"
    <3>1. TAKE h \in Connections
    <3>2. h # NoOne
      BY Zenon, Parts
    <3>3. QED BY Zenon, <1>3, <3>2
  <2>5. completion'[d].retiring = "Joined" =>
            rec[d].retiring \in Connections /\ rpr'[rec[d].retiring].pc = "joined"
    <3>1. CASE d = c /\ g # NoOne
      BY Zenon, <1>3, <3>1 DEF g
    <3>2. CASE ~(d = c /\ g # NoOne)
      BY Zenon, <1>2, <2>1, <2>4, <3>2 DEF ReaperOK
    <3>3. QED BY Zenon, <3>1, <3>2
  <2>6. /\ completion'[d].current = "Joined" => rpr'[d].pc = "joined"
        /\ d \in entered => rpr'[d].pc \notin {"none", "entry"}
    BY Zenon, <1>3, <2>1, <2>3 DEF ReaperOK
  <2>7. QED BY Zenon, <1>2, <2>3, <2>5, <2>6 DEF ReaperOK, Reaping
<1>9. \A d \in Connections \ {c} : LocalOK(d)' /\ InPhase(d)'
  <2>1. ASSUME NEW d \in Connections PROVE rpr'[d].pc = "none" <=> rpr[d].pc = "none"
    <3>1. d # NoOne
      BY Zenon, Parts
    <3>2. QED BY Zenon, <1>3, <3>1
  <2>2. QED BY Zenon, <1>2, <1>5, <2>1, ElsewhereStays
<1>10. QED BY Zenon, <1>5, <1>6, <1>7, <1>8, <1>9 DEF Settled

\* The registry is idle again.
LEMMA RecoveryEnds ==
    ASSUME WorkersInv, NEW c \in Connections, RecoverEnd(c)
    PROVE  Settled
<1>1. /\ hlp[c].pc = "recovered" /\ ~HoldsReplaced(c) /\ ~HoldsStarting(c)
      /\ phase = "Recovering" /\ start = c /\ rec[c].assignment = "Taken"
      /\ c # NoOne /\ current = NoOne /\ retiring = NoOne
  <2>1. hlp[c].pc = "recovered" /\ UnderWay(c)
    BY Zenon DEF RecoverEnd, UnderWay
  <2>2. QED BY Zenon, <2>1, RecoveryOf DEF HoldsReplaced, HoldsStarting
<1>2. /\ Hlp(c, "leave") /\ phase' = "Idle" /\ start' = NoOne
      /\ current' = current /\ retiring' = retiring /\ rpr' = rpr /\ completion' = completion
      /\ recovering_current' = recovering_current /\ recovering_retiring' = recovering_retiring
      /\ entered' = entered /\ cancelled' = cancelled /\ rec' = rec /\ ctor' = ctor /\ wrk' = wrk
      /\ records' = records
  BY Zenon DEF RecoverEnd
<1>3. HlpOK' /\ hlp'[c].pc = "leave" /\ \A d \in Connections \ {c} : hlp'[d] = hlp[d]
  BY Zenon, <1>2, HlpPc DEF WorkersInv, TablesOK, HlpPcs
<1>4. TablesOK' /\ Apart(c)
  BY ZenonT(30), <1>2, <1>3, TablesStay DEF WorkersInv, TablesOK, Apart, Same
<1>5. LocalOK(c)' /\ InPhase(c)'
  <2>1. LocalOK(c) /\ InPhase(c) /\ ReaperOK(c) /\ OneGeneration /\ c # NoOne
    BY Zenon, Parts
  <2>2. QED BY Zenon, <1>1, <1>2, <1>3, <2>1 DEF LocalOK, ConstructorOK, HelperOK, WorkerOK, Kept, Owning, InPhase,
     UnderWay, HoldsStarting, HoldsReplaced
<1>6. OneGeneration' /\ Joins'
  BY Zenon, <1>1, <1>2, Parts DEF OneGeneration, Joins
<1>7. ASSUME NEW d \in Connections PROVE ReaperOK(d)'
  <2>1. ReaperOK(d) /\ d # NoOne
    BY Zenon, Parts
  <2>2. QED BY Zenon, <1>1, <1>2, <2>1 DEF ReaperOK, Held
<1>8. \A d \in Connections \ {c} : LocalOK(d)' /\ InPhase(d)'
  BY Zenon, <1>1, <1>2, <1>4, ElsewhereStays
<1>9. QED BY Zenon, <1>4, <1>5, <1>6, <1>7, <1>8 DEF Settled

-----------------------------------------------------------------------------
(* The reaper thread. *)

\* A step of a reaper alone.
LEMMA OnlyReapers ==
    ASSUME WorkersInv, RprOK', \A d \in Connections : rpr'[d].pc = "none" <=> rpr[d].pc = "none",
           UNCHANGED <<phase, start, current, cancelled, records, rec, completion, ctor, hlp, wrk>>
    PROVE  /\ TablesOK'
           /\ \A d \in Connections : LocalOK(d)' /\ InPhase(d)'
           /\ \A d \in Connections : /\ (Owning(d)' <=> Owning(d)) /\ (HoldsStarting(d)' <=> HoldsStarting(d))
                                     /\ (HoldsReplaced(d)' <=> HoldsReplaced(d)) /\ (UnderWay(d)' <=> UnderWay(d))
<1>1. TablesOK'
  BY ZenonT(30), TablesStay DEF WorkersInv, TablesOK
<1>2. ASSUME NEW d \in Connections
      PROVE  /\ LocalOK(d)' /\ InPhase(d)'
             /\ (Owning(d)' <=> Owning(d)) /\ (HoldsStarting(d)' <=> HoldsStarting(d))
             /\ (HoldsReplaced(d)' <=> HoldsReplaced(d)) /\ (UnderWay(d)' <=> UnderWay(d))
  <2>1. /\ InPhase(d) /\ LocalOK(d)' /\ (Owning(d)' <=> Owning(d)) /\ (HoldsStarting(d)' <=> HoldsStarting(d))
        /\ (HoldsReplaced(d)' <=> HoldsReplaced(d)) /\ (UnderWay(d)' <=> UnderWay(d))
    BY Zenon, Parts, SameIsSame DEF Same
  <2>2. QED BY Zenon, <2>1 DEF InPhase
<1>3. QED BY Zenon, <1>1, <1>2

\* A reaper that has not begun is the one that is starting, running or recovered.
LEMMA NotBegun ==
    ASSUME WorkersInv, NEW g \in Connections, rpr[g].pc \in {"entry", "wait"}
    PROVE  /\ start = g
           /\ \/ phase = "Starting" /\ current = g /\ g \notin cancelled
              \/ phase = "Running" /\ current = g /\ g \notin cancelled /\ rpr[g].pc = "wait"
              \/ phase = "Recovering" /\ HoldsStarting(g) /\ g \in cancelled
<1>1. OneGeneration /\ Joins /\ g # NoOne /\ Held(g) /\ phase \in {"Idle", "Starting", "Running", "Recovering"}
  BY Zenon, Parts DEF ReaperOK
<1>2. CASE phase \in {"Idle", "Starting"}
  BY <1>1, <1>2 DEF Held, OneGeneration, Retired
<1>3. CASE phase = "Running"
  BY Zenon, <1>1, <1>3 DEF Held, OneGeneration, Joins, Retired, Reaping
<1>4. CASE phase = "Recovering"
  BY <1>1, <1>4 DEF Held, OneGeneration, Retired
<1>5. QED BY Zenon, <1>1, <1>2, <1>3, <1>4

\* A reaper that is not the last one started has retired, and ends.
LEMMA RetiredEnds ==
    ASSUME WorkersInv, NEW g \in Connections, g # start, rpr[g].pc = "exit", Rpr(g, "ended"),
           UNCHANGED <<phase, current, retiring, recovering_current, recovering_retiring, start,
                       entered, cancelled, records, rec, completion, ctor, hlp, wrk>>
    PROVE  Settled
<1>1. /\ RprOK' /\ rpr'[g].pc = "ended" /\ \A h \in Connections \ {g} : rpr'[h] = rpr[h]
  BY Zenon, RprPc DEF WorkersInv, TablesOK, RprPcs
<1>2. \A d \in Connections : rpr'[d].pc = rpr[d].pc \/ (rpr[d].pc = "exit" /\ rpr'[d].pc = "ended")
  BY Zenon, <1>1
<1>3. /\ TablesOK' /\ (\A d \in Connections : LocalOK(d)' /\ InPhase(d)')
      /\ \A d \in Connections : /\ (Owning(d)' <=> Owning(d)) /\ (HoldsStarting(d)' <=> HoldsStarting(d))
                                /\ (HoldsReplaced(d)' <=> HoldsReplaced(d)) /\ (UnderWay(d)' <=> UnderWay(d))
  <2>1. \A d \in Connections : rpr'[d].pc = "none" <=> rpr[d].pc = "none"
    BY Zenon, <1>2
  <2>2. QED BY Zenon, <1>1, <2>1, OnlyReapers
<1>4. /\ start \in Connections => rpr'[start] = rpr[start]
      /\ OneGeneration /\ Joins /\ phase \in {"Idle", "Starting", "Running", "Recovering"}
  BY Zenon, <1>1, Parts
<1>5. OneGeneration'
  <2>1. \A d \in Connections : Retired(d) => Retired(d)'
    BY Zenon, <1>2 DEF Retired
  <2>2. CASE start \in Connections
    <3>1. /\ (Owning(start)' <=> Owning(start)) /\ (HoldsStarting(start)' <=> HoldsStarting(start))
          /\ (HoldsReplaced(start)' <=> HoldsReplaced(start)) /\ (UnderWay(start)' <=> UnderWay(start))
      BY Zenon, <1>3, <2>2
    <3>2. current \in Connections \/ current = NoOne
      BY Zenon DEF WorkersInv, RegistryOK, Maybe
    <3>3. QED BY Zenon, <1>4, <2>1, <2>2, <3>1, <3>2 DEF OneGeneration
  <2>3. CASE start \notin Connections
    <3>1. phase = "Idle" /\ (current \in Connections \/ current = NoOne)
      BY ZenonT(30), <1>4, <2>3 DEF OneGeneration, WorkersInv, RegistryOK, Maybe
    <3>2. QED BY Zenon, <1>4, <2>1, <3>1 DEF OneGeneration
  <2>4. QED BY Zenon, <2>2, <2>3
<1>6. Joins'
  <2>1. \A d \in Connections : rpr[d].pc = "ended" => rpr'[d].pc = "ended"
    BY Zenon, <1>2
  <2>2. phase = "Running" => start \in Connections
    BY Zenon, <1>4 DEF OneGeneration
  <2>3. QED BY <1>4, <2>1, <2>2 DEF Joins
<1>7. ASSUME NEW d \in Connections PROVE ReaperOK(d)'
  <2>1. ReaperOK(d) /\ (phase # "Idle" => start \in Connections)
    BY ZenonT(30), <1>4, Parts DEF OneGeneration
  <2>2. Held(d) => Held(d)'
    BY Zenon, <1>3, <1>4, <2>1 DEF Held
  <2>3. rec[d].retiring \in Connections /\ rpr[rec[d].retiring].pc = "joined" => rpr'[rec[d].retiring].pc = "joined"
    BY Zenon, <1>2
  <2>4. rpr'[d].pc = rpr[d].pc \/ (rpr[d].pc = "exit" /\ rpr'[d].pc = "ended")
    BY Zenon, <1>2
  <2>5. QED BY Zenon, <2>1, <2>2, <2>3, <2>4 DEF ReaperOK, Reaping
<1>8. QED BY Zenon, <1>3, <1>5, <1>6, <1>7 DEF Settled

\* The reaper started last enters, fails to, is cancelled or begins, and may end.
LEMMA ReaperMoves ==
    ASSUME WorkersInv, NEW g \in Connections, NEW pc \in RprPcs, Rpr(g, pc), start = g,
           UNCHANGED <<phase, current, retiring, recovering_current, recovering_retiring, start,
                       cancelled, records, rec, completion, ctor, hlp, wrk>>,
           \/ rpr[g].pc = "entry" /\ pc = "wait" /\ entered' = entered \cup {g}
           \/ rpr[g].pc = "entry" /\ pc = "ended" /\ entered' = entered
           \/ rpr[g].pc = "wait" /\ pc = "exit" /\ g \in cancelled /\ entered' = entered
           \/ rpr[g].pc = "wait" /\ pc = "loop" /\ g \notin cancelled /\ phase # "Starting"
                /\ entered' = entered
           \/ rpr[g].pc = "exit" /\ pc = "ended" /\ entered' = entered
    PROVE  Settled
<1>1. /\ RprOK' /\ rpr'[g].pc = pc /\ rpr'[g].joins = rpr[g].joins
      /\ (\A h \in Connections \ {g} : rpr'[h] = rpr[h])
  BY Zenon, RprPc DEF WorkersInv, TablesOK
<1>2. /\ OneGeneration /\ Joins /\ ReaperOK(g) /\ g # NoOne
      /\ phase \in {"Idle", "Starting", "Running", "Recovering"}
  BY Zenon, Parts
<1>3. /\ TablesOK' /\ (\A d \in Connections : LocalOK(d)' /\ InPhase(d)')
      /\ (Owning(g)' <=> Owning(g)) /\ (HoldsStarting(g)' <=> HoldsStarting(g))
      /\ (HoldsReplaced(g)' <=> HoldsReplaced(g)) /\ (UnderWay(g)' <=> UnderWay(g))
  <2>1. \A d \in Connections : rpr'[d].pc = "none" <=> rpr[d].pc = "none"
    BY Zenon, <1>1
  <2>2. QED BY Zenon, <1>1, <2>1, OnlyReapers
<1>4. \/ phase = "Starting" /\ current = g /\ g \notin cancelled
         /\ rpr[g].pc = "entry" /\ g \notin entered /\ pc \in {"wait", "ended"}
      \/ phase = "Running" /\ current = g /\ g \notin cancelled /\ rpr[g].pc = "wait" /\ pc = "loop"
      \/ phase = "Recovering" /\ HoldsStarting(g) /\ g \in cancelled
         /\ rpr[g].pc \in {"entry", "wait", "exit"} /\ pc \in {"wait", "ended", "exit"}
  <2>1. CASE rpr[g].pc \in {"entry", "wait"}
    BY Zenon, <1>2, <2>1, NotBegun DEF ReaperOK
  <2>2. CASE rpr[g].pc = "exit"
    BY Zenon, <1>2, <2>2 DEF OneGeneration, ReaperOK, Held, Reaping, Retired
  <2>3. QED BY Zenon, <2>1, <2>2
<1>5. OneGeneration' /\ Joins'
  <2>1. \A d \in Connections : d # g /\ Retired(d) => Retired(d)'
    BY Zenon, <1>1 DEF Retired
  <2>2. retiring # NoOne => retiring # g
    BY Zenon, <1>2, <1>4 DEF OneGeneration, Retired
  <2>3. QED BY Zenon, <1>1, <1>2, <1>3, <1>4, <2>1, <2>2 DEF OneGeneration, Joins, Reaping
<1>6. ASSUME NEW d \in Connections PROVE ReaperOK(d)'
  <2>1. ReaperOK(d) /\ d # NoOne /\ (d # g => rpr'[d] = rpr[d])
    BY Zenon, <1>1, Parts
  <2>2. Held(d) => Held(d)'
    BY Zenon, <1>3, <1>4 DEF Held
  <2>3. rec[d].retiring \in Connections /\ rpr[rec[d].retiring].pc = "joined" => rpr'[rec[d].retiring].pc = "joined"
    BY Zenon, <1>1, <1>4
  <2>4. QED BY Zenon, <1>1, <1>4, <2>1, <2>2, <2>3 DEF ReaperOK, Reaping
<1>7. QED BY Zenon, <1>3, <1>5, <1>6 DEF Settled

=============================================================================
