---------------------------- MODULE Publication -----------------------------
(***************************************************************************)
(* Publication of collected log records to a destination                   *)
(* (reverie-rpc-transport/src/guest_log/capture/publication.rs): the       *)
(* collector's thread enqueues or discards records, a worker thread writes *)
(* them to a destination that may be slow, write a part, fail or panic, and*)
(* finish_until freezes the report at the join or at a deadline.           *)
(*                                                                         *)
(* A step is a section under the state mutex, a channel operation or a call*)
(* of the destination.  A record is its order, its content its length; the *)
(* diagnostic prefix, the counters' overflow and the clock are left out: a *)
(* budget or deadline may expire whenever it runs.                         *)
(***************************************************************************)
EXTENDS Naturals, Sequences, FiniteSetsExt, Functions

CONSTANTS Records,     \* records the source will yield
          MaxLen,      \* bytes of a record
          Slots        \* capacity of the channel

ASSUME PublicationBounds == Records \in Nat /\ MaxLen \in Nat /\ Slots \in Nat \ {0}

Orders == 1 .. Records
NoAttempt == [order |-> 0, acknowledged |-> 0, attempted_end |-> 0]

VARIABLES
    len,          \* the records' lengths
    \* the collector's loop
    collecting, publication_failed, handed,   \* records handed over so far
    \* the channel
    queue, open, receiver,
    \* the worker
    pc, record, offset, next, result,
    dest,         \* bytes the destination has taken
    \* State
    ready, drained, finalized, stable, progress, attempt, error,
    unpublished, first_unpublished, revoked, attempt_started, unattempted,
    frozen,
    released      \* history: credit releases of each record

collectorVars == <<len, collecting, publication_failed, handed>>
channelVars == <<queue, open, receiver>>
workerVars == <<pc, record, offset, next, result, dest>>
failureVars == <<error, unpublished, first_unpublished, revoked, unattempted>>
reportVars == <<ready, drained, finalized, stable, progress, attempt, attempt_started, frozen>>
pubVars == <<collectorVars, channelVars, workerVars, failureVars, reportVars, released>>

\* unattempted: the bytes reserved for each order not being written, 0 .. MaxLen,
\* or None when the map has no entry.
None == MaxLen + 1
NoReservation == [o \in Orders |-> None]
Unfrozen == [set |-> FALSE]

PubInit ==
    /\ len \in [Orders -> 0 .. MaxLen]
    /\ collecting = TRUE /\ publication_failed = FALSE /\ handed = 0
    /\ queue = <<>> /\ open = TRUE /\ receiver = TRUE
    /\ pc = "start" /\ record = 0 /\ offset = 0 /\ next = 1 /\ result = "none" /\ dest = 0
    /\ ready = FALSE /\ drained = FALSE /\ finalized = FALSE /\ stable = FALSE
    /\ progress = 0 /\ attempt = NoAttempt /\ attempt_started = FALSE
    /\ error = FALSE /\ unpublished = 0 /\ first_unpublished = 0 /\ revoked = FALSE
    /\ unattempted = NoReservation
    /\ frozen = Unfrozen
    /\ released = [o \in Orders |-> 0]

-----------------------------------------------------------------------------
Lower(a, b) == IF a = 0 THEN b ELSE IF b = 0 THEN a ELSE Min({a, b})

\* Mutant: what waits in the channel is forgotten.
failureForgetting(unatt) ==
    /\ error' = TRUE /\ revoked' = TRUE
    /\ unattempted' = NoReservation
    /\ UNCHANGED <<unpublished, first_unpublished>>

\* failure, given the reservations at that point: the first error stays,
\* publishing is revoked and what nobody tried to write is accounted.
failure(unatt) ==
    LET left == {o \in Orders : unatt[o] # None}
    IN  /\ error' = TRUE /\ revoked' = TRUE
        /\ unattempted' = NoReservation
        /\ unpublished' = unpublished + SumFunctionOnSet(unatt, left)
        /\ first_unpublished' = IF left = {} THEN first_unpublished
                                ELSE Lower(first_unpublished, Min(left))

\* Mutant: the latest order instead of the earliest.
account_unpublishedLatest(o, n) ==
    /\ unpublished' = unpublished + n
    /\ first_unpublished' = o

account_unpublished(o, n) ==
    /\ unpublished' = unpublished + n
    /\ first_unpublished' = Lower(first_unpublished, o)

-----------------------------------------------------------------------------
\* The collector: check_blocked, whose answer it keeps for the iteration ...
CheckBlocked(blocked) ==
    /\ collecting
    /\ blocked => attempt_started
    /\ publication_failed' = (revoked \/ blocked)
    /\ IF blocked THEN failure(unattempted) ELSE UNCHANGED failureVars
    /\ UNCHANGED <<len, collecting, handed, channelVars, workerVars, reportVars, released>>

\* ... then the next record: discard it (revocation precedes, so a failed
\* release has nothing left to change),
Discard ==
    /\ collecting /\ publication_failed /\ handed < Records
    /\ handed' = handed + 1
    /\ account_unpublished(handed + 1, len[handed + 1])
    /\ released' = [released EXCEPT ![handed + 1] = @ + 1]
    /\ UNCHANGED <<len, collecting, publication_failed, error, revoked, unattempted,
                   channelVars, workerVars, reportVars>>

\* Mutant: a refused record is dropped and the collector goes on.
EnqueueLossy ==
    /\ collecting /\ ~publication_failed /\ handed < Records
    /\ handed' = handed + 1
    /\ IF ~revoked /\ open /\ receiver /\ Len(queue) < Slots
       THEN /\ queue' = Append(queue, handed + 1)
            /\ unattempted' = [unattempted EXCEPT ![handed + 1] = len[handed + 1]]
       ELSE UNCHANGED <<queue, unattempted>>
    /\ UNCHANGED <<len, collecting, publication_failed, open, receiver, workerVars,
                   error, unpublished, first_unpublished, revoked, reportVars, released>>

\* or enqueue it; a refused record is kept for the next iteration.
Enqueue ==
    /\ collecting /\ ~publication_failed /\ handed < Records
    /\ ~revoked /\ open /\ receiver /\ Len(queue) < Slots
    /\ LET o == handed + 1
       IN  /\ handed' = o
           /\ queue' = Append(queue, o)
           /\ unattempted' = [unattempted EXCEPT ![o] = len[o]]
    /\ UNCHANGED <<len, collecting, publication_failed, open, receiver, workerVars,
                   error, unpublished, first_unpublished, revoked, reportVars, released>>

\* The collector ends, with records left or not, and calls finish_until; the
\* owner may call it at its deadline while the collector still runs.  Either
\* closes the channel.
Close(ends) ==
    /\ collecting /\ (open \/ ends)
    /\ collecting' = ~ends /\ open' = FALSE
    /\ UNCHANGED <<len, publication_failed, handed, queue, receiver, workerVars, failureVars,
                   reportVars, released>>

-----------------------------------------------------------------------------
WorkerStep == UNCHANGED <<collectorVars, open, finalized, stable, frozen>>

Ready ==
    /\ pc = "start"
    /\ pc' = "recv" /\ ready' = TRUE
    /\ WorkerStep
    /\ UNCHANGED <<queue, receiver, record, offset, next, result, dest, drained, progress,
                   attempt, attempt_started, failureVars, released>>

Recv ==
    /\ pc = "recv" /\ queue # <<>>
    /\ record' = Head(queue) /\ queue' = Tail(queue)
    /\ offset' = 0 /\ pc' = "inspect"
    /\ WorkerStep
    /\ UNCHANGED <<receiver, next, result, dest, ready, drained, progress, attempt,
                   attempt_started, failureVars, released>>

\* Mutant: a record seen after the revocation goes back without its release.
InspectDrops ==
    /\ pc = "inspect"
    /\ pc' = IF revoked THEN "recv" ELSE "publish"
    /\ next' = IF revoked THEN next + 1 ELSE next
    /\ WorkerStep
    /\ UNCHANGED <<queue, receiver, record, offset, result, dest, ready, drained, progress,
                   attempt, attempt_started, failureVars, released>>

\* Source order is checked, then a revoked record is only released.
Inspect ==
    /\ pc = "inspect"
    /\ IF record # next THEN failure(unattempted) ELSE UNCHANGED failureVars
    /\ pc' = IF revoked \/ record # next THEN "release" ELSE "publish"
    /\ WorkerStep
    /\ UNCHANGED <<queue, receiver, record, offset, next, result, dest, ready, drained,
                   progress, attempt, attempt_started, released>>

\* publish of an empty record.
PublishEmpty ==
    /\ pc = "publish" /\ len[record] = 0
    /\ IF revoked THEN UNCHANGED failureVars
       ELSE LET left == [unattempted EXCEPT ![record] = None]
            IN  IF unattempted[record] = 0
                THEN unattempted' = left /\ UNCHANGED <<error, unpublished, first_unpublished, revoked>>
                ELSE failure(left)
    /\ pc' = "release"
    /\ WorkerStep
    /\ UNCHANGED <<queue, receiver, record, offset, next, result, dest, ready, drained,
                   progress, attempt, attempt_started, released>>

\* Mutant: an attempt starts without looking at the revocation.
BeginAttemptRevoked ==
    /\ pc = "publish" /\ offset < len[record]
    /\ pc' = "writing"
    /\ unattempted' = [unattempted EXCEPT ![record] = None]
    /\ attempt' = [order |-> record, acknowledged |-> offset, attempted_end |-> len[record]]
    /\ attempt_started' = TRUE
    /\ WorkerStep
    /\ UNCHANGED <<queue, receiver, record, offset, next, result, dest, ready, drained,
                   progress, error, unpublished, first_unpublished, revoked, released>>

\* publish: turn the reservation of the rest into an attempt.
BeginAttempt ==
    /\ pc = "publish" /\ offset < len[record]
    /\ IF revoked
       THEN pc' = "release" /\ UNCHANGED <<failureVars, attempt, attempt_started>>
       ELSE LET left == [unattempted EXCEPT ![record] = None]
            IN  IF unattempted[record] # len[record] - offset
                THEN pc' = "release" /\ failure(left) /\ UNCHANGED <<attempt, attempt_started>>
                ELSE /\ pc' = "writing"
                     /\ unattempted' = left
                     /\ attempt' = [order |-> record, acknowledged |-> offset,
                                    attempted_end |-> len[record]]
                     /\ attempt_started' = TRUE
                     /\ UNCHANGED <<error, unpublished, first_unpublished, revoked>>
    /\ WorkerStep
    /\ UNCHANGED <<queue, receiver, record, offset, next, result, dest, ready, drained,
                   progress, released>>

\* Destination::write of the rest: it takes n bytes and returns them, or takes
\* n and says Interrupted, takes n and fails, returns something else than it
\* took ("invalid": zero, or a progress that does not fit), panics, or, by
\* taking no step, blocks.
DestinationWrite(n, outcome) ==
    /\ pc = "writing"
    /\ n \in 0 .. len[record] - offset
    /\ outcome = "ok" => n > 0
    /\ outcome \in {"invalid", "panic"} => n = 0
    /\ dest' = dest + n
    /\ result' = outcome
    /\ pc' = IF outcome = "panic" THEN "unwinding" ELSE "reporting"
    /\ receiver' = (outcome # "panic")
    /\ queue' = IF outcome = "panic" THEN <<>> ELSE queue
    /\ WorkerStep
    /\ UNCHANGED <<record, offset, next, ready, drained, progress, attempt, attempt_started,
                   failureVars, released>>

\* publish after the write, up to the next attempt or the end of the record.
ReportWrite ==
    /\ pc = "reporting"
    /\ LET count == dest - progress
           reached == offset + count
           rest == len[record] - reached
       IN  /\ progress' = dest
           /\ offset' = reached
           /\ IF result \in {"error", "invalid"}
              THEN /\ pc' = "release" /\ failure(unattempted)
                   /\ attempt' = [attempt EXCEPT !.acknowledged = reached]
                   /\ UNCHANGED attempt_started
              ELSE /\ attempt' = NoAttempt
                   /\ IF rest = 0 THEN UNCHANGED failureVars
                      ELSE IF revoked
                      THEN account_unpublished(record, rest) /\ UNCHANGED <<error, revoked, unattempted>>
                      ELSE /\ unattempted' = [unattempted EXCEPT ![record] = rest]
                           /\ UNCHANGED <<error, unpublished, first_unpublished, revoked>>
                   /\ pc' = IF revoked \/ rest = 0 THEN "release" ELSE "publish"
                   /\ attempt_started' = (attempt_started /\ (revoked \/ count = 0))
    /\ result' = "none"
    /\ WorkerStep
    /\ UNCHANGED <<queue, receiver, record, next, dest, ready, drained, released>>

\* Record::release may fail on a damaged credit.
ReleaseRecord(ok) ==
    /\ pc = "release"
    /\ released' = [released EXCEPT ![record] = @ + 1]
    /\ IF ok THEN UNCHANGED failureVars ELSE failure(unattempted)
    /\ next' = next + 1 /\ pc' = "recv"
    /\ WorkerStep
    /\ UNCHANGED <<queue, receiver, record, offset, result, dest, ready, drained, progress,
                   attempt, attempt_started>>

\* The channel is closed and empty: flush, unless revoked.
BeginFlush ==
    /\ pc = "recv" /\ queue = <<>> /\ ~open
    /\ pc' = IF revoked THEN "done" ELSE "flushing"
    /\ receiver' = ~revoked
    /\ attempt_started' = (attempt_started \/ ~revoked)
    /\ WorkerStep
    /\ UNCHANGED <<queue, record, offset, next, result, dest, ready, drained, progress, attempt,
                   failureVars, released>>

\* Destination::flush and the section after it.
Flush(outcome) ==
    /\ pc = "flushing"
    /\ receiver' = FALSE
    /\ pc' = IF outcome = "panic" THEN "unwinding" ELSE "done"
    /\ drained' = (outcome = "ok" /\ ~revoked)
    /\ attempt_started' = (outcome = "panic")
    /\ IF outcome = "error" THEN failure(unattempted) ELSE UNCHANGED failureVars
    /\ WorkerStep
    /\ UNCHANGED <<queue, record, offset, next, result, dest, ready, progress, attempt, released>>

\* catch_unwind caught the destination's panic; the channel's records went with
\* its receiver.
Unwound ==
    /\ pc = "unwinding"
    /\ failure(unattempted)
    /\ pc' = "done"
    /\ WorkerStep
    /\ UNCHANGED <<queue, receiver, record, offset, next, result, dest, ready, drained,
                   progress, attempt, attempt_started, released>>

-----------------------------------------------------------------------------
OwnerStep == UNCHANGED <<collectorVars, channelVars, workerVars, released>>

\* finish_until: check_blocked at the head of its loop,
FinishBlocked ==
    /\ ~open /\ ~frozen.set /\ attempt_started
    /\ failure(unattempted)
    /\ OwnerStep /\ UNCHANGED reportVars

\* Mutant: the report is taken before the failure accounts what is left.
FreezeEarly(joined) ==
    frozen' = [set |-> TRUE, stable |-> joined, drained |-> drained, error |-> error',
               progress |-> progress, attempt |-> attempt, unpublished |-> unpublished,
               first_unpublished |-> first_unpublished, delivered |-> handed, taken |-> dest]

\* The report that is frozen; delivered and taken are history: the records handed
\* over and the bytes the destination had taken when it froze.
Freeze(joined) ==
    frozen' = [set |-> TRUE, stable |-> joined, drained |-> drained, error |-> error',
               progress |-> progress, attempt |-> attempt, unpublished |-> unpublished',
               first_unpublished |-> first_unpublished', delivered |-> handed, taken |-> dest]

Finalize(joined) ==
    /\ finalized' = TRUE /\ stable' = joined
    /\ IF joined /\ (drained \/ error) THEN UNCHANGED failureVars ELSE failure(unattempted)
    /\ Freeze(joined)
    /\ OwnerStep /\ UNCHANGED <<ready, drained, progress, attempt, attempt_started>>

\* Mutant: no deadline.
FinishJoins(joined) == ~open /\ ~frozen.set /\ joined /\ pc = "done" /\ Finalize(joined)

\* then the worker has ended (it stays ended once seen), or the deadline passed.
Finish(joined) == ~open /\ ~frozen.set /\ (joined => pc = "done") /\ Finalize(joined)

\* Drop for Publication, after the collector's and the owner's finish_until.
DropPublication ==
    /\ frozen.set /\ ~collecting
    /\ failure(unattempted)
    /\ OwnerStep /\ UNCHANGED reportVars

WorkerNext ==
    \/ Ready \/ Recv \/ Inspect \/ PublishEmpty \/ BeginAttempt \/ ReportWrite
    \/ \E ok \in BOOLEAN : ReleaseRecord(ok)
    \/ BeginFlush \/ Unwound

DestinationNext ==
    \/ \E n \in 0 .. MaxLen, o \in {"ok", "interrupted", "error", "invalid", "panic"} :
         DestinationWrite(n, o)
    \/ \E o \in {"ok", "error", "panic"} : Flush(o)

PubNext ==
    \/ \E b \in BOOLEAN : CheckBlocked(b)
    \/ Discard \/ Enqueue
    \/ \E e \in BOOLEAN : Close(e)
    \/ WorkerNext \/ DestinationNext
    \/ FinishBlocked
    \/ \E j \in BOOLEAN : Finish(j)
    \/ DropPublication

\* The threads run and a deadline is reached; nothing obliges the destination to
\* return, nor the collector to end.
PubSpec ==
    PubInit /\ [][PubNext]_pubVars /\ WF_pubVars(WorkerNext) /\ WF_pubVars(\E j \in BOOLEAN : Finish(j))

-----------------------------------------------------------------------------
Total == SumFunctionOnSet(len, Orders)
Sum(o) == SumFunctionOnSet(len, 1 .. o)
Uncertain(a) == a.attempted_end - a.acknowledged
Attempts == [order : 0 .. Records, acknowledged : 0 .. MaxLen, attempted_end : 0 .. MaxLen]

\* Types of the collector's, the worker's and the report's state.
PubTypeOK ==
    /\ len \in [Orders -> 0 .. MaxLen]
    /\ {collecting, publication_failed, open, receiver} \subseteq BOOLEAN
    /\ {ready, drained, finalized, stable, error, revoked, attempt_started} \subseteq BOOLEAN
    /\ handed \in 0 .. Records /\ Len(queue) <= Slots /\ Range(queue) \subseteq Orders
    /\ pc \in {"start", "recv", "inspect", "publish", "writing", "reporting", "release",
               "flushing", "unwinding", "done"}
    /\ record \in 0 .. Records /\ offset \in 0 .. MaxLen /\ next \in 1 .. Records + 1
    /\ result \in {"none", "ok", "interrupted", "error", "invalid", "panic"}
    /\ {dest, progress, unpublished} \subseteq 0 .. Total
    /\ attempt \in Attempts
    /\ first_unpublished \in 0 .. Records
    /\ unattempted \in [Orders -> 0 .. None]
    /\ released \in [Orders -> Nat]

\* Once-only accounting: every byte the collector handed over is acknowledged, in
\* the uncertain range of the one attempt, reserved for a later attempt, or
\* counted as unpublished, and in exactly one of them, whatever mixture of short
\* writes, errors, panics, budgets and discards happened.
OnceOnlyAccounting ==
    Sum(handed) = progress + Uncertain(attempt) + unpublished
                  + SumFunctionOnSet(unattempted, {o \in Orders : unattempted[o] # None})

\* The returned report accounts for every byte delivered when it froze, without
\* anything left to reserve: a caller needs no later state to know what is lost.
FrozenAccounts ==
    frozen.set =>
        Sum(frozen.delivered) = frozen.progress + Uncertain(frozen.attempt) + frozen.unpublished

\* What the destination takes after the report is frozen stays within the one
\* uncertain range the report names, and a report that says Stable is final: a
\* write in flight at the deadline may complete, the worker begins no other.
LateWritesWithinAttempt ==
    frozen.set =>
        /\ frozen.progress <= dest /\ dest <= frozen.progress + Uncertain(frozen.attempt)
        /\ frozen.stable => dest = frozen.taken

\* A report that says drained without an error means the destination has taken
\* every byte the collector will ever hand over.
DrainedMeansAll ==
    frozen.set /\ frozen.drained /\ ~frozen.error =>
        /\ dest = Sum(handed) /\ frozen.unpublished = 0 /\ frozen.first_unpublished = 0

\* A record's credit is never released twice, and a worker whose destination did
\* not panic in a write leaves none of the enqueued records charged.
CreditsReturned ==
    /\ \A o \in Orders : released[o] <= IF o <= handed THEN 1 ELSE 0
    /\ pc = "done" /\ result # "panic" => \A o \in 1 .. handed : released[o] = 1

\* What the destination took, or may have taken, is a prefix of source order, and
\* the report names the record where it ends: none is skipped by a revocation
\* that races the worker or by a discard that overtakes queued records.
PublishedPrefix ==
    LET reached == progress + Uncertain(attempt)
    IN  revoked =>
            IF first_unpublished = 0 THEN reached = Sum(handed)
            ELSE Sum(first_unpublished - 1) <= reached /\ reached <= Sum(first_unpublished)

\* At every moment the publication's own state accounts for each byte and each
\* record: OnceOnlyAccounting, CreditsReturned and PublishedPrefix, and the types.
PublicationSafe == PubTypeOK /\ OnceOnlyAccounting /\ CreditsReturned /\ PublishedPrefix

\* The report that finish_until returned stays true whatever the worker and the
\* destination do later: FrozenAccounts, LateWritesWithinAttempt and DrainedMeansAll.
ReportIsTrue == FrozenAccounts /\ LateWritesWithinAttempt /\ DrainedMeansAll

\* finish_until returns although the destination never does.
FinishReturns == ~open ~> frozen.set

=============================================================================
