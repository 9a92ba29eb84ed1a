------------------------------ MODULE GateChange ------------------------------
(***************************************************************************)
(* How those who wait at an entry gate learn that it changed               *)
(* (reverie-kvm-core/src/entry.rs; the gate itself is module EntryGate).   *)
(* Blocking copies and a blocking closer park on a condition variable,     *)
(* asynchronous waiters hold the gate's change future, watchers its        *)
(* failure future.  Every change is made under the registry lock and       *)
(* notified after it is released, and only if somebody can be waiting.     *)
(*                                                                         *)
(* A blocking closer holds its memory's allocation transaction.  A         *)
(* retirement deferred under that transaction delivers what it owes to     *)
(* subscribers only once it is released.  The memory is used by copies:    *)
(* an entry's acknowledgement is notified as a copy's retirement is.       *)
(***************************************************************************)
CONSTANTS
    Copiers,        \* threads in copy_blocking or holding a CopyAccess
    Subscribers,    \* asynchronous waiters for an open gate
    Closer          \* the waiter in Closing::finish

ASSUME ChangeAssumption == Closer \notin Subscribers

VARIABLES
    admission, failure, operands,   \* of the gate
    copier,         \* idle, parked, woken or copying
    sub,            \* idle, subscribed or waiting
    closer,         \* the closing thread, see the actions
    blocking,       \* whether the close is close_blocking
    holders, taken, \* ChangeFuture: who holds the current future, and its flag
    senders,        \* futures replaced and not yet completed: who holds them, deferred or not
    done,           \* the waiters whose future completed
    wakes,          \* whether a notify_all is owed: two that are owed wake the same
    failure_future  \* the failure future: armed, sent or done

nVars == <<admission, failure, operands, copier, sub, closer, blocking, holders, taken, senders,
           done, wakes, failure_future>>

\* The three counters, as the sets of those they count: only zero is told apart.
copies == {k \in Copiers : copier[k] = "copying"}
blocked_copiers == {k \in Copiers : copier[k] \in {"parked", "woken"}}
blocked_closers == {c \in {Closer} : closer \in {"parked", "woken", "lingering", "stirred"}}

ChangeInit ==
    /\ admission = "Open" /\ failure = FALSE /\ operands = {}
    /\ copier = [k \in Copiers |-> "idle"]
    /\ sub = [s \in Subscribers |-> "idle"]
    /\ closer = "idle" /\ blocking = FALSE
    /\ holders = {} /\ taken = FALSE /\ senders = {} /\ done = {}
    /\ wakes = FALSE /\ failure_future = "armed"

-----------------------------------------------------------------------------
\* ChangeFuture::subscribe, by waiter w, who holds no other future now.
subscribe(w) ==
    /\ holders' = holders \cup {w} /\ taken' = TRUE
    /\ senders' = {[sender EXCEPT !.holders = @ \ {w}] : sender \in senders}
    /\ done' = done \ {w}

\* Mutant: only copies register as blocked.
WakeCopies_Only == wakes' = (wakes \/ blocked_copiers # {})

\* A condition variable is notified if someone is registered as blocked.
WakeCopies == wakes' = (wakes \/ blocked_copiers # {} \/ blocked_closers # {})

\* ChangeFuture::rearm_if_taken.
rearm_if_taken(deferred) ==
    IF taken
    THEN /\ senders' = senders \cup {[holders |-> holders, deferred |-> deferred]}
         /\ holders' = {} /\ taken' = FALSE
    ELSE UNCHANGED <<senders, holders, taken>>

\* Mutant: what a retirement owes to the condition variable is skipped too.
changed_Deferred(deferred) ==
    /\ rearm_if_taken(deferred)
    /\ IF deferred THEN UNCHANGED wakes ELSE WakeCopies
    /\ failure_future' = IF failure' /\ failure_future = "armed" THEN "sent" ELSE failure_future
    /\ UNCHANGED done

\* State::changed, after a step that leaves failure' behind.
changed(deferred) ==
    /\ rearm_if_taken(deferred) /\ WakeCopies
    /\ failure_future' = IF failure' /\ failure_future = "armed" THEN "sent" ELSE failure_future
    /\ UNCHANGED done

changed_without_subscribers ==
    WakeCopies /\ UNCHANGED <<holders, taken, senders, done, failure_future>>

futureVars == <<holders, taken, senders, done, failure_future>>

-----------------------------------------------------------------------------
\* notify, of what a change left: the condition variable, a subscriber's
\* future, the failure future.
AllocationHeld == blocking /\ closer # "idle"

NotifyCopies ==
    /\ wakes /\ wakes' = FALSE
    /\ copier' = [k \in Copiers |-> IF copier[k] = "parked" THEN "woken" ELSE copier[k]]
    /\ closer' = CASE closer = "parked" -> "woken" [] closer = "lingering" -> "stirred"
                   [] OTHER -> closer
    /\ UNCHANGED <<admission, failure, operands, sub, blocking, futureVars>>

NotifySender(sender) ==
    /\ sender \in senders /\ ~(sender.deferred /\ AllocationHeld)
    /\ senders' = senders \ {sender}
    /\ done' = done \cup sender.holders
    /\ UNCHANGED <<admission, failure, operands, copier, sub, closer, blocking, holders, taken,
                   wakes, failure_future>>

NotifyFailed ==
    /\ failure_future = "sent" /\ failure_future' = "done"
    /\ UNCHANGED <<admission, failure, operands, copier, sub, closer, blocking, holders, taken,
                   senders, done, wakes>>

-----------------------------------------------------------------------------
\* copy_blocking, from its start or from its wait.
copy_blocking(k) ==
    /\ copier[k] \in {"idle", "woken"}
    /\ copier' = [copier EXCEPT ![k] = CASE failure -> "idle"
                                         [] ~failure /\ admission = "Open" -> "copying"
                                         [] OTHER -> "parked"]
    /\ UNCHANGED <<admission, failure, operands, sub, closer, blocking, wakes, futureVars>>

retain_operand(k) ==
    /\ copier[k] = "copying" /\ ~failure
    /\ operands' = operands \cup {k}
    /\ UNCHANGED <<admission, failure, copier, sub, closer, blocking, wakes, futureVars>>

\* CopyAccess's drop, or retire_deferred_with, whose copies are woken at once.
retire(k, deferred) ==
    /\ copier[k] = "copying"
    /\ copier' = [copier EXCEPT ![k] = "idle"]
    /\ UNCHANGED <<admission, failure, operands, sub, closer, blocking>>
    /\ changed(deferred)

DropOperand(k) ==
    /\ k \in operands /\ operands' = operands \ {k}
    /\ UNCHANGED <<admission, failure, copier, sub, closer, blocking>>
    /\ changed(FALSE)

\* A subscriber takes the future, looks at the gate, and awaits.
Subscribe(s) ==
    /\ sub[s] = "idle"
    /\ sub' = [sub EXCEPT ![s] = "subscribed"]
    /\ subscribe(s)
    /\ UNCHANGED <<admission, failure, operands, copier, closer, blocking, wakes, failure_future>>

Recheck(s) ==
    /\ sub[s] = "subscribed"
    /\ sub' = [sub EXCEPT ![s] = IF failure \/ admission = "Open" THEN "idle" ELSE "waiting"]
    /\ UNCHANGED <<admission, failure, operands, copier, closer, blocking, wakes, futureVars>>

Resumes(s) ==
    /\ sub[s] = "waiting" /\ s \in done
    /\ sub' = [sub EXCEPT ![s] = "idle"]
    /\ UNCHANGED <<admission, failure, operands, copier, closer, blocking, wakes, futureVars>>

-----------------------------------------------------------------------------
\* try_close: the caller may hold its allocation transaction.
try_close(block) ==
    /\ closer = "idle" /\ ~failure /\ admission = "Open"
    /\ admission' = "Closing" /\ closer' = "closing" /\ blocking' = block
    /\ UNCHANGED <<failure, operands, copier, sub>>
    /\ changed_without_subscribers

\* Closing::finish, one look: it subscribes under the same hold of the lock.
\* With a failure the token is dropped, which is a change too.
finish ==
    /\ ~blocking /\ (closer = "closing" \/ (closer = "awaiting" /\ Closer \in done))
    /\ \/ /\ ~failure /\ copies = {}
          /\ closer' = "closed" /\ admission' = "Closed"
          /\ UNCHANGED <<failure, wakes, futureVars>>
       \/ /\ ~failure /\ copies # {}
          /\ closer' = "awaiting" /\ subscribe(Closer)
          /\ UNCHANGED <<failure, admission, wakes, failure_future>>
       \/ /\ failure /\ closer' = "idle" /\ UNCHANGED <<failure, admission>> /\ changed(FALSE)
    /\ UNCHANGED <<operands, copier, sub, blocking>>

\* finish_blocking: one look.
finish_blocking ==
    /\ blocking /\ closer \in {"closing", "woken"}
    /\ \/ /\ ~failure /\ closer' = IF copies = {} THEN "closed" ELSE "parked"
          /\ admission' = IF copies = {} THEN "Closed" ELSE admission
          /\ UNCHANGED <<failure, wakes, futureVars>>
       \/ /\ failure /\ closer' = "idle" /\ UNCHANGED <<failure, admission>> /\ changed(FALSE)
    /\ UNCHANGED <<operands, copier, sub, blocking>>

finish_blocking_TimedOut ==
    /\ blocking /\ closer \in {"closing", "parked", "woken"} /\ ~failure /\ copies # {}
    /\ admission' = "Open" /\ closer' = "idle"
    /\ UNCHANGED <<failure, operands, copier, sub, blocking>>
    /\ changed(FALSE)

\* wait_for_operands_outside, likewise; on a timeout the caller gives up.
wait_for_operands_outside ==
    /\ blocking /\ closer \in {"closed", "stirred"}
    /\ closer' = IF failure \/ operands = {} THEN "drained" ELSE "lingering"
    /\ UNCHANGED <<admission, failure, operands, copier, sub, blocking, wakes, futureVars>>

wait_for_operands_TimedOut ==
    /\ closer = "lingering" /\ ~failure /\ operands # {}
    /\ closer' = "drained"
    /\ UNCHANGED <<admission, failure, operands, copier, sub, blocking, wakes, futureVars>>

publish ==
    /\ blocking /\ closer = "drained" /\ ~failure /\ operands = {}
    /\ closer' = "published"
    /\ UNCHANGED <<admission, failure, operands, copier, sub, blocking>>
    /\ changed_without_subscribers

\* Mutant: reopening is not told to subscribers.
DropClosed_Quietly ==
    /\ closer \in IF blocking THEN {"drained", "published"} ELSE {"closed"}
    /\ admission' = "Open" /\ closer' = "idle"
    /\ UNCHANGED <<failure, operands, copier, sub, blocking>>
    /\ changed_without_subscribers

DropClosed ==
    /\ closer \in IF blocking THEN {"drained", "published"} ELSE {"closed"}
    /\ admission' = "Open" /\ closer' = "idle"
    /\ UNCHANGED <<failure, operands, copier, sub, blocking>>
    /\ changed(FALSE)

\* Drop for Closing: an unfinished asynchronous close is given up.
DropClosing ==
    /\ ~blocking /\ closer \in {"closing", "awaiting"}
    /\ failure' = TRUE /\ closer' = "idle"
    /\ UNCHANGED <<admission, operands, copier, sub, blocking>>
    /\ changed(FALSE)

poison ==
    /\ ~failure /\ failure' = TRUE
    /\ UNCHANGED <<admission, operands, copier, sub, closer, blocking>>
    /\ changed(FALSE)

CloseStep ==
    \/ finish \/ finish_blocking \/ wait_for_operands_outside \/ DropClosed

NotifyNext == NotifyCopies \/ NotifyFailed \/ \E sender \in senders : NotifySender(sender)

ChangeNext ==
    \/ NotifyNext \/ CloseStep
    \/ \E k \in Copiers :
        \/ copy_blocking(k) \/ retain_operand(k) \/ DropOperand(k)
        \/ \E deferred \in BOOLEAN : retire(k, deferred)
    \/ \E s \in Subscribers : Subscribe(s) \/ Recheck(s) \/ Resumes(s)
    \/ \E block \in BOOLEAN : try_close(block)
    \/ finish_blocking_TimedOut \/ wait_for_operands_TimedOut \/ publish
    \/ DropClosing \/ poison

ChangeSpec == ChangeInit /\ [][ChangeNext]_nVars

\* Threads run, copies are short, owed notifications are delivered, a closer
\* drops its token and does not wait for an operand beyond its bound.  Nobody
\* need retire an operand, and the bound on stopping need not pass.  What was
\* deferred is delivered by whoever releases the transaction, though another
\* may begin at once.
ChangeFairness ==
    /\ WF_nVars(NotifyCopies)
    /\ \A w \in Subscribers \cup {Closer} :
        SF_nVars(\E sender \in senders : w \in sender.holders /\ NotifySender(sender))
    /\ WF_nVars(CloseStep \/ wait_for_operands_TimedOut)
    /\ \A k \in Copiers : WF_nVars(\E deferred \in BOOLEAN : retire(k, deferred))
    /\ \A s \in Subscribers : WF_nVars(Resumes(s))

ChangeLive == ChangeSpec /\ ChangeFairness

-----------------------------------------------------------------------------
\* w's future has completed, or a change that saw it will complete it.
Promised(w) == w \in done \/ \E sender \in senders : w \in sender.holders

\* No wakeup is lost, as changed() promises: nobody sleeps for a change that
\* has happened unless the notification is still on its way, whether a change
\* was skipped for want of waiters, deferred, or withheld from subscribers.
NoWakeupLost ==
    /\ \A k \in Copiers : copier[k] = "parked" /\ (failure \/ admission = "Open") => wakes
    /\ closer = "parked" /\ (failure \/ copies = {}) => wakes
    /\ closer = "lingering" /\ (failure \/ operands = {}) => wakes
    /\ \A s \in Subscribers : sub[s] = "waiting" /\ (failure \/ admission = "Open") => Promised(s)
    /\ closer = "awaiting" /\ (failure \/ copies = {}) => Promised(Closer)
    /\ failure => failure_future # "armed"

\* A close that waits on its thread, holding the allocation transaction,
\* sees the copies drain although what they owe to subscribers is deferred
\* until it is done: it need not wait out its bound.
DrainIsSeen == closer = "parked" ~> closer # "parked"

\* Whoever awaits the change future is resumed.
SubscribersResume == \A s \in Subscribers : sub[s] = "waiting" ~> sub[s] # "waiting"

\* Nobody sleeps through a change for good: the two statements above.
SleepersResume == DrainIsSeen /\ SubscribersResume

=============================================================================
