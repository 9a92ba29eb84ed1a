---------------------------- MODULE AsyncStream ----------------------------
(***************************************************************************)
(* The asynchronous adapter of the mapped stream (mapped/asynchronous.rs). *)
(*                                                                         *)
(* Tasks poll the stream for reading (slot 0) and for writing (slot 1);    *)
(* a poll that would block registers a clone of its task's Waker and tries *)
(* once more.  A notification thread sleeps on the progress word of the    *)
(* mapping and consumes the registered Wakers, outside the lock, because a *)
(* Waker is arbitrary code: cloning or waking one may panic.               *)
(*                                                                         *)
(* The bytes are MappedStream's business: here ready[s] says whether an    *)
(* attempt on slot s would get past WouldBlock.  Polls take &mut self, so  *)
(* only one is under way at a time.  The progress word is only compared    *)
(* with the monitor's sample, so moved says whether it has changed since.  *)
(***************************************************************************)
EXTENDS Integers, Sequences

CONSTANTS Uses,              \* the slots that are polled
          MaxRegistrations,  \* bound on the Wakers cloned
          MayFail            \* may futexes and Wakers fail?

ASSUME UsesAssumption == Uses \subseteq {0, 1}
ASSUME RegistrationsAssumption == MaxRegistrations \in Nat
ASSUME FailAssumption == MayFail \in BOOLEAN

Slots == {0, 1}
Agents == {"peer", "stream", "aborter", "worker"}
None == [slot |-> 0, id |-> 0, notify |-> FALSE]
Nodes == [slot : Slots, id : 1 .. MaxRegistrations, notify : BOOLEAN]

\* What a slot adds to a list of nodes.
Linked(n) == IF n = None THEN <<>> ELSE <<n>>

VARIABLES
    ready, failed,        \* the mapping: room or bytes per slot, the sticky failure
    moved, notifying,     \* the progress word, and how far each notify call is
    stopped,              \* Wake: the stream was dropped
    accepting, cloning, slots, retired,      \* Registrations
    poll, polled,         \* where the current poll is, and in which slot
    registered,           \* the registration made by the current or last poll of a slot
    pending,              \* slots whose last poll returned Pending
    monitor, hand,        \* where the worker is, and the node it has unlinked
    outcome,              \* the worker's result
    issued,               \* history: Wakers cloned
    woken, discarded      \* history: Wakers woken, and dropped without a wake

mappingVars == <<ready, failed, moved, notifying>>
registrationVars == <<accepting, cloning, slots, retired>>
pollVars == <<poll, polled, registered, pending>>
workerVars == <<monitor, hand, outcome>>
historyVars == <<issued, woken, discarded>>
vars == <<mappingVars, stopped, registrationVars, pollVars, workerVars, historyVars>>

Init ==
    /\ ready = [s \in Slots |-> FALSE] /\ failed = FALSE
    /\ moved = FALSE /\ notifying = [a \in Agents |-> "idle"]
    /\ stopped = FALSE
    /\ accepting = TRUE /\ cloning = 0
    /\ slots = [s \in Slots |-> None] /\ retired = <<>>
    /\ poll = "out" /\ polled = 0
    /\ registered = [s \in Slots |-> 0] /\ pending = {}
    /\ monitor = "loop" /\ hand = None /\ outcome = "ok"
    /\ issued = 0 /\ woken = {} /\ discarded = {}

-----------------------------------------------------------------------------
\* notify: the fetch_add on the progress word, then FUTEX_WAKE.
Notify(a) == notifying' = [notifying EXCEPT ![a] = "bump"]

Bump(a) ==
    /\ notifying[a] = "bump"
    /\ notifying' = [notifying EXCEPT ![a] = "wake"]
    /\ moved' = TRUE
    /\ UNCHANGED <<ready, failed, stopped, registrationVars, pollVars, workerVars, historyVars>>

FutexWake(a) ==
    /\ notifying[a] = "wake"
    /\ notifying' = [notifying EXCEPT ![a] = "idle"]
    /\ monitor' = IF monitor = "asleep" THEN "loop" ELSE monitor
    /\ UNCHANGED <<ready, failed, moved, stopped, registrationVars, pollVars, hand,
                   outcome, historyVars>>

\* The peer moves bytes, or closes an end of a ring.
PeerMoves(s) ==
    /\ notifying["peer"] = "idle" /\ ~ready[s]
    /\ ready' = [ready EXCEPT ![s] = TRUE]
    /\ Notify("peer")
    /\ UNCHANGED <<failed, moved, stopped, registrationVars, pollVars, workerVars, historyVars>>

\* A holder of the abort handle fails the connection.
Abort ==
    /\ notifying["aborter"] = "idle" /\ ~failed
    /\ failed' = TRUE
    /\ Notify("aborter")
    /\ UNCHANGED <<ready, moved, stopped, registrationVars, pollVars, workerVars, historyVars>>

-----------------------------------------------------------------------------
\* poll_read (slot 0) or poll_write (slot 1) is called.
Poll(s) ==
    /\ poll = "out" /\ notifying["stream"] = "idle" /\ ~stopped
    /\ issued < MaxRegistrations
    /\ poll' = "check" /\ polled' = s
    /\ pending' = pending \ {s}
    /\ UNCHANGED <<mappingVars, stopped, registrationVars, registered, workerVars, historyVars>>

\* Mutant: Pending right after the registration, without a second attempt.
CheckFailure_Once ==
    /\ poll \in {"check", "recheck"}
    /\ poll' = IF poll = "check" /\ ~failed THEN "try" ELSE "out"
    /\ pending' = IF poll = "recheck" THEN pending \cup {polled} ELSE pending
    /\ UNCHANGED <<mappingVars, stopped, registrationVars, polled, registered,
                   workerVars, historyVars>>

\* try_read, try_write: first the failure word ...
CheckFailure ==
    /\ poll \in {"check", "recheck"}
    /\ poll' = IF failed THEN "out" ELSE IF poll = "check" THEN "try" ELSE "retry"
    /\ UNCHANGED <<mappingVars, stopped, registrationVars, polled, registered, pending,
                   workerVars, historyVars>>

\* ... then the queue.  An attempt that gets through ends the poll: at the
\* end of a closed ring it changes nothing, otherwise it moves bytes, perhaps
\* as many as there are, and notifies.
Progress ==
    /\ poll \in {"try", "retry"} /\ ready[polled]
    /\ poll' = "out"
    /\ \/ UNCHANGED <<ready, notifying>>
       \/ /\ \E more \in BOOLEAN : ready' = [ready EXCEPT ![polled] = more]
          /\ Notify("stream")
    /\ UNCHANGED <<failed, moved, stopped, registrationVars, polled, registered, pending,
                   workerVars, historyVars>>

\* WouldBlock: the first time register and try again, then Pending.
WouldBlock ==
    /\ poll \in {"try", "retry"} /\ ~ready[polled]
    /\ IF poll = "try" THEN poll' = "register" /\ UNCHANGED pending
       ELSE poll' = "out" /\ pending' = pending \cup {polled}
    /\ UNCHANGED <<mappingVars, stopped, registrationVars, polled, registered,
                   workerVars, historyVars>>

\* register: a reservation under the lock, unless the worker is closing.
register ==
    /\ poll = "register"
    /\ cloning' = IF accepting THEN cloning + 1 ELSE cloning
    /\ poll' = IF accepting THEN "clone" ELSE "recheck"
    /\ registered' = [registered EXCEPT ![polled] = 0]
    /\ UNCHANGED <<mappingVars, stopped, accepting, slots, retired, polled, pending,
                   workerVars, historyVars>>

\* Registration::drop gives the reservation back and tells the worker, which
\* may be waiting in close_and_drain.
Release ==
    /\ cloning' = cloning - 1
    /\ monitor' = IF monitor = "waiting" THEN "drain" ELSE monitor

\* Mutant: the Waker being replaced is thrown away while the new one is
\* retired, so that the slot keeps the older of the two.
CloneReturns_KeepsOld ==
    /\ poll = "clone"
    /\ issued' = issued + 1
    /\ LET node == [slot |-> polled, id |-> issued + 1, notify |-> TRUE]
       IN  IF accepting /\ slots[polled] = None
           THEN slots' = [slots EXCEPT ![polled] = node] /\ UNCHANGED retired
           ELSE retired' = <<[node EXCEPT !.notify = ~accepting]>> \o retired /\ UNCHANGED slots
    /\ registered' = [registered EXCEPT ![polled] = issued + 1]
    /\ Release
    /\ poll' = "recheck"
    /\ UNCHANGED <<mappingVars, stopped, accepting, polled, pending, hand, outcome,
                   woken, discarded>>

\* The clone is in hand: it takes the slot, and the node it replaces is
\* retired without a wake; once admission is closed it is retired itself.
CloneReturns ==
    /\ poll = "clone"
    /\ issued' = issued + 1
    /\ LET node == [slot |-> polled, id |-> issued + 1, notify |-> TRUE]
           prior == slots[polled]
       IN  IF accepting
           THEN /\ slots' = [slots EXCEPT ![polled] = node]
                /\ retired' = IF prior = None THEN retired
                              ELSE <<[prior EXCEPT !.notify = FALSE]>> \o retired
           ELSE retired' = <<node>> \o retired /\ UNCHANGED slots
    /\ registered' = [registered EXCEPT ![polled] = issued + 1]
    /\ Release
    /\ poll' = "recheck"
    /\ UNCHANGED <<mappingVars, stopped, accepting, polled, pending, hand, outcome,
                   woken, discarded>>

\* Mutant: an unwinding clone keeps its reservation.
ClonePanics_Reserved ==
    /\ MayFail /\ poll = "clone"
    /\ poll' = "out"
    /\ UNCHANGED <<mappingVars, stopped, registrationVars, polled, registered, pending,
                   workerVars, historyVars>>

\* The clone panics: the guard releases the reservation and the panic goes
\* on through the poll.
ClonePanics ==
    /\ MayFail /\ poll = "clone"
    /\ Release
    /\ poll' = "out"
    /\ UNCHANGED <<mappingVars, stopped, accepting, slots, retired, polled, registered,
                   pending, hand, outcome, historyVars>>

\* Drop: the worker is asked to stop and notified.  The ends of the rings are
\* closed after that, with notifications of their own (MappedStream).
Drop ==
    /\ poll = "out" /\ notifying["stream"] = "idle" /\ ~stopped
    /\ stopped' = TRUE
    /\ Notify("stream")
    /\ UNCHANGED <<ready, failed, moved, registrationVars, pollVars, workerVars, historyVars>>

-----------------------------------------------------------------------------
\* The worker runs when it is at l, has no Waker in hand, and is not inside
\* an abort's notification.
At(l) == monitor = l /\ hand = None /\ notifying["worker"] = "idle"

\* monitor: the loop condition, ...
LoopCondition ==
    /\ At("loop")
    /\ monitor' = IF stopped THEN "close" ELSE "sample"
    /\ UNCHANGED <<mappingVars, stopped, registrationVars, pollVars, hand, outcome, historyVars>>

\* ... the sample of the progress word, ...
Sample ==
    /\ At("sample")
    /\ moved' = FALSE
    /\ monitor' = "stopped"
    /\ UNCHANGED <<ready, failed, notifying, stopped, registrationVars, pollVars, hand,
                   outcome, historyVars>>

\* Mutant: the flag is not read again.
CheckStopped_Not ==
    /\ At("stopped")
    /\ monitor' = "slot0"
    /\ UNCHANGED <<mappingVars, stopped, registrationVars, pollVars, hand, outcome, historyVars>>

\* ... and the flag again, since a stop may have fallen between the two.
CheckStopped ==
    /\ At("stopped")
    /\ monitor' = IF stopped THEN "close" ELSE "slot0"
    /\ UNCHANGED <<mappingVars, stopped, registrationVars, pollVars, hand, outcome, historyVars>>

\* wake_all takes the two slots one after the other, ...
TakeSlot(s) ==
    /\ At(<<"slot0", "slot1">>[s + 1])
    /\ hand' = slots[s]
    /\ slots' = [slots EXCEPT ![s] = None]
    /\ monitor' = <<"slot1", "retired">>[s + 1]
    /\ UNCHANGED <<mappingVars, stopped, accepting, cloning, retired, pollVars, outcome,
                   historyVars>>

\* ... then the retired nodes.
TakeRetired ==
    /\ At("retired")
    /\ IF retired = <<>> THEN monitor' = "wait" /\ UNCHANGED <<hand, retired>>
       ELSE hand' = Head(retired) /\ retired' = Tail(retired) /\ UNCHANGED monitor
    /\ UNCHANGED <<mappingVars, stopped, accepting, cloning, slots, pollVars, outcome,
                   historyVars>>

\* consume: the Waker in hand is woken or dropped.
Consumed ==
    /\ hand # None
    /\ IF hand.notify THEN woken' = woken \cup {hand.id} /\ UNCHANGED discarded
       ELSE discarded' = discarded \cup {hand.id} /\ UNCHANGED woken
    /\ hand' = None
    /\ UNCHANGED issued

consume ==
    /\ Consumed
    /\ UNCHANGED <<mappingVars, stopped, registrationVars, pollVars, monitor, outcome>>

\* A Waker panics.  Under monitor that ends the loop; close_and_drain goes on
\* with the next node.  Either way the connection is aborted, and the first
\* failure is the outcome.
ConsumePanics ==
    /\ MayFail
    /\ Consumed
    /\ failed' = TRUE /\ Notify("worker")
    /\ outcome' = IF outcome = "ok" THEN "panicked" ELSE outcome
    /\ monitor' = IF monitor = "drain" THEN "drain" ELSE "failing"
    /\ UNCHANGED <<ready, moved, stopped, registrationVars, pollVars>>

\* wait: FUTEX_WAIT sleeps if the word still holds the sample, ...
FutexWait ==
    /\ At("wait")
    /\ monitor' = IF moved THEN "loop" ELSE "asleep"
    /\ UNCHANGED <<mappingVars, stopped, registrationVars, pollVars, hand, outcome, historyVars>>

\* ... for 100 ms at most, or until a signal, ...
Timeout ==
    /\ At("asleep")
    /\ monitor' = "loop"
    /\ UNCHANGED <<mappingVars, stopped, registrationVars, pollVars, hand, outcome, historyVars>>

\* ... or fails, which aborts the connection and ends the loop.
FutexError ==
    /\ MayFail /\ At("wait")
    /\ failed' = TRUE /\ Notify("worker")
    /\ outcome' = "error"
    /\ monitor' = "failing"
    /\ UNCHANGED <<ready, moved, stopped, registrationVars, pollVars, hand, historyVars>>

\* A loop that failed aborts once more, to be sure, before it closes.
Failing ==
    /\ At("failing")
    /\ failed' = TRUE /\ Notify("worker")
    /\ monitor' = "close"
    /\ UNCHANGED <<ready, moved, stopped, registrationVars, pollVars, hand, outcome, historyVars>>

\* Mutant: what is in the slots is left there.
close_LeavesSlots ==
    /\ At("close")
    /\ accepting' = FALSE
    /\ monitor' = "drain"
    /\ UNCHANGED <<mappingVars, stopped, cloning, slots, retired, pollVars, hand, outcome,
                   historyVars>>

\* close_and_drain: admission ends and both slots are retired, to be woken ...
close ==
    /\ At("close")
    /\ accepting' = FALSE
    /\ retired' = Linked(slots[1]) \o (Linked(slots[0]) \o retired)
    /\ slots' = [s \in Slots |-> None]
    /\ monitor' = "drain"
    /\ UNCHANGED <<mappingVars, stopped, cloning, pollVars, hand, outcome, historyVars>>

\* Mutant: the worker does not wait for clones that were admitted.
drain_Early ==
    /\ At("drain")
    /\ IF retired = <<>> THEN monitor' = "done" /\ UNCHANGED <<hand, retired>>
       ELSE hand' = Head(retired) /\ retired' = Tail(retired) /\ UNCHANGED monitor
    /\ UNCHANGED <<mappingVars, stopped, accepting, cloning, slots, pollVars, outcome,
                   historyVars>>

\* ... and the worker ends when nothing is retired and no clone is under way.
drain ==
    /\ At("drain")
    /\ IF retired = <<>>
       THEN monitor' = (IF cloning = 0 THEN "done" ELSE "waiting") /\ UNCHANGED <<hand, retired>>
       ELSE hand' = Head(retired) /\ retired' = Tail(retired) /\ UNCHANGED monitor
    /\ UNCHANGED <<mappingVars, stopped, accepting, cloning, slots, pollVars, outcome,
                   historyVars>>

Worker ==
    \/ LoopCondition \/ Sample \/ CheckStopped
    \/ \E s \in Slots : TakeSlot(s)
    \/ TakeRetired \/ consume \/ ConsumePanics
    \/ FutexWait \/ FutexError \/ Failing
    \/ close \/ drain

PollStep == CheckFailure \/ Progress \/ WouldBlock \/ register \/ CloneReturns \/ ClonePanics

Next ==
    \/ \E a \in Agents : Bump(a) \/ FutexWake(a)
    \/ \E s \in Uses : PeerMoves(s) \/ Poll(s)
    \/ Abort \/ Drop \/ PollStep \/ Worker \/ Timeout

Spec == Init /\ [][Next]_vars

\* The worker thread is scheduled and its Wakers return; a poll, once begun,
\* returns, and a notification, once begun, is completed.  No fairness is
\* asked of the peer, of who polls, drops or aborts, nor of the timeout.
AsyncLive ==
    /\ Spec
    /\ WF_vars(Worker)
    /\ WF_vars(PollStep)
    /\ \A a \in Agents : WF_vars(Bump(a) \/ FutexWake(a))

-----------------------------------------------------------------------------
\* Type invariant of the adapter and of the mapping it watches.
AsyncTypeOK ==
    /\ ready \in [Slots -> BOOLEAN] /\ failed \in BOOLEAN /\ moved \in BOOLEAN
    /\ notifying \in [Agents -> {"idle", "bump", "wake"}]
    /\ stopped \in BOOLEAN /\ accepting \in BOOLEAN /\ cloning \in {0, 1}
    /\ slots \in [Slots -> Nodes \cup {None}]
    /\ retired \in Seq(Nodes) /\ hand \in Nodes \cup {None}
    /\ poll \in {"out", "check", "try", "register", "clone", "recheck", "retry"}
    /\ polled \in Slots /\ pending \subseteq Slots
    /\ registered \in [Slots -> 0 .. MaxRegistrations]
    /\ monitor \in {"loop", "sample", "stopped", "slot0", "slot1", "retired", "wait",
                    "asleep", "failing", "close", "drain", "waiting", "done"}
    /\ outcome \in {"ok", "panicked", "error"}
    /\ issued \in 0 .. MaxRegistrations
    /\ woken \subseteq 1 .. MaxRegistrations /\ discarded \subseteq 1 .. MaxRegistrations

\* The nodes the adapter holds, in a slot, retired or in the worker's hand.
Held == {slots[s] : s \in Slots} \cup {retired[i] : i \in DOMAIN retired} \cup {hand}

\* While anyone is still to bump the progress word or to wake its sleepers,
\* a sleeping monitor will go round its loop.
NotificationUnderWay == \E a \in Agents : notifying[a] # "idle"

\* poll_read and poll_write never return Pending for good: while the poll of
\* a slot is Pending, its Waker has been woken or is still held with the
\* intent to wake it, and if meanwhile an attempt would succeed or fail then
\* the monitor is not asleep, or a notification that will rouse it is under way.
PendingIsWoken ==
    \A s \in pending :
        \/ stopped
        \/ registered[s] \in woken
        \/ /\ \E n \in Held : n.id = registered[s] /\ n.id # 0 /\ n.notify
           /\ ready[s] \/ failed => monitor # "asleep" \/ NotificationUnderWay

\* Dropping the stream does not rely on the timeout: a monitor never sleeps
\* on a progress word sampled after the stop was requested and notified.
StopIsSeen == stopped /\ monitor = "asleep" => NotificationUnderWay

\* When the worker ends, every Waker ever cloned was consumed, none is held,
\* and none can arrive any more: the final drain boundary.
DrainIsFinal ==
    monitor = "done" =>
        /\ cloning = 0 /\ Held = {None}
        /\ woken \cup discarded = 1 .. issued

\* A Waker is consumed once, and one that is dropped without a wake was
\* superseded: it is not the Waker of the last poll of its slot.
OnlySupersededAreDropped ==
    /\ woken \cap discarded = {}
    /\ \A n \in Held : n.id \notin woken \cup discarded
    /\ \A s \in Slots : registered[s] \notin discarded

\* The adapter's promise: no poll stays Pending past its event, the stop is
\* seen, and every Waker is consumed once, before the worker is gone.
AsyncSafe ==
    AsyncTypeOK /\ PendingIsWoken /\ StopIsSeen /\ DrainIsFinal /\ OnlySupersededAreDropped

\* A task whose poll is Pending is woken once an attempt would get somewhere,
\* unless it polls again or the stream goes away.
PollersResume ==
    \A s \in Slots :
        s \in pending /\ (ready[s] \/ failed)
            ~> s \notin pending \/ registered[s] \in woken \/ stopped

\* After the stream is dropped, or the worker failed, the worker finishes
\* without being left behind by a registration that was under way.
WorkerEnds == stopped \/ outcome # "ok" ~> monitor = "done"

=============================================================================
