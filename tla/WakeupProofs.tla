---------------------------- MODULE WakeupProofs ----------------------------
(***************************************************************************)
(* Whoever waits is woken: the waiters at an entry gate (GateChange) and the *)
(* tasks that poll an asynchronous stream (AsyncStream), for every number of *)
(* waiters, slots and registrations.                                       *)
(***************************************************************************)
EXTENDS GateChange, AsyncStream, TLAPS

-----------------------------------------------------------------------------
(***************************************************************************)
(* Entry gates.  NoWakeupLost is not inductive: that a subscriber who waits *)
(* is promised its future once the gate changes rests on its having held the *)
(* current future, or one that was replaced, ever since it subscribed      *)
(* (Waiters), and on the flag taken being up whenever someone holds the    *)
(* current one, since rearm_if_taken looks at nothing else.                *)
(***************************************************************************)

Awaiters == Subscribers \cup {Closer}

\* Where everybody is.
PartiesOK ==
    /\ admission \in {"Open", "Closing", "Closed"} /\ failure \in BOOLEAN
    /\ copier \in [Copiers -> {"idle", "parked", "woken", "copying"}]
    /\ sub \in [Subscribers -> {"idle", "subscribed", "waiting"}]
    /\ closer \in {"idle", "closing", "parked", "woken", "awaiting", "closed", "lingering",
                   "stirred", "drained", "published"}
    /\ blocking \in BOOLEAN

\* The futures, and the flag that guards the current one.
FuturesOK ==
    /\ taken \in BOOLEAN /\ senders \in SUBSET [holders : SUBSET Awaiters, deferred : BOOLEAN]
    /\ holders \in SUBSET Awaiters /\ done \in SUBSET Awaiters
    /\ holders # {} => taken

ChangeTypeOK == PartiesOK /\ FuturesOK /\ wakes \in BOOLEAN

\* Waiter w holds a future: the current one, or one a change has replaced.
HeldBy(w) == w \in holders \/ Promised(w)

Waiters ==
    /\ \A s \in Subscribers : sub[s] # "idle" => HeldBy(s)
    /\ closer = "awaiting" => HeldBy(Closer)

ChangeInv == ChangeTypeOK /\ Waiters /\ NoWakeupLost

-----------------------------------------------------------------------------
\* The count of copies says whether somebody copies, now and after a step.
LEMMA Copying ==
    /\ copies = {} <=> \A k \in Copiers : copier[k] # "copying"
    /\ copies' = {} <=> \A k \in Copiers : copier'[k] # "copying"
BY Zenon DEF copies

\* What WakeCopies owes: whoever sleeps on the condition variable is woken,
\* and nothing owed before is forgotten.
WakesAll ==
    /\ wakes' \in BOOLEAN /\ (wakes => wakes')
    /\ (\E k \in Copiers : copier[k] = "parked") => wakes'
    /\ closer \in {"parked", "lingering"} => wakes'

LEMMA CopiesWake == ASSUME ChangeTypeOK, WakeCopies PROVE WakesAll
<1>1. wakes' = (wakes \/ blocked_copiers # {} \/ blocked_closers # {})
  BY DEF WakeCopies
<1>2. ASSUME NEW k \in Copiers, copier[k] = "parked" PROVE blocked_copiers # {}
  <2>1. {j \in Copiers : copier[j] \in {"parked", "woken"}} # {}
    BY <1>2
  <2> QED
    BY <2>1, Zenon DEF blocked_copiers
<1>3. closer \in {"parked", "lingering"} => blocked_closers # {}
  BY DEF blocked_closers
<1> QED
  BY <1>1, <1>2, <1>3, Zenon DEF WakesAll, ChangeTypeOK

\* rearm_if_taken turns every future that is held into a promise.
LEMMA Rearms ==
    ASSUME FuturesOK, NEW deferred \in BOOLEAN, rearm_if_taken(deferred), UNCHANGED done
    PROVE  FuturesOK' /\ \A w : HeldBy(w) => Promised(w)'
<1>1. CASE taken
  <2> DEFINE sender == [holders |-> holders, deferred |-> deferred]
  <2>1. /\ senders' = senders \cup {sender}
        /\ holders' = {} /\ taken' = FALSE /\ done' = done
    BY <1>1 DEF rearm_if_taken
  <2>2. sender \in [holders : SUBSET Awaiters, deferred : BOOLEAN] /\ sender.holders = holders
    BY DEF FuturesOK
  <2> HIDE DEF sender
  <2>3. FuturesOK'
    BY Zenon, <2>1, <2>2 DEF FuturesOK
  <2>4. ASSUME NEW w, HeldBy(w) PROVE Promised(w)'
    <3>1. CASE w \in done
      BY <3>1, <2>1, Zenon DEF Promised
    <3>2. CASE w \in holders
      BY <3>2, <2>1, <2>2, Zenon DEF Promised
    <3>3. ASSUME NEW older \in senders, w \in older.holders PROVE Promised(w)'
      <4>1. older \in senders'
        BY <2>1, Zenon
      <4> QED
        BY <4>1, <3>3, Zenon DEF Promised
    <3> QED
      BY <2>4, <3>1, <3>2, <3>3, Zenon DEF HeldBy, Promised
  <2> QED
    BY <2>3, <2>4
<1>2. CASE ~taken
  <2>1. UNCHANGED <<senders, holders, taken, done>> /\ holders = {}
    BY <1>2, Zenon DEF rearm_if_taken, FuturesOK
  <2> QED
    BY <2>1, Zenon DEF FuturesOK, HeldBy, Promised
<1> QED
  BY <1>1, <1>2

\* subscribe takes the current future and lets go of no other waiter's.
LEMMA Subscribes ==
    ASSUME FuturesOK, NEW w \in Awaiters, subscribe(w)
    PROVE  /\ FuturesOK' /\ HeldBy(w)'
           /\ \A v : v # w => (HeldBy(v) => HeldBy(v)') /\ (Promised(v) => Promised(v)')
<1>1. /\ holders' = holders \cup {w} /\ taken' = TRUE /\ done' = done \ {w}
      /\ senders' = {[sender EXCEPT !.holders = @ \ {w}] : sender \in senders}
  BY DEF subscribe
<1>2. FuturesOK'
  BY <1>1 DEF FuturesOK
<1>3. ASSUME NEW v, v # w, Promised(v) PROVE Promised(v)'
  <2>1. CASE v \in done
    BY <2>1, <1>1, <1>3, Zenon DEF Promised
  <2>2. ASSUME NEW sender \in senders, v \in sender.holders PROVE Promised(v)'
    <3>1. sender \in [holders : SUBSET Awaiters, deferred : BOOLEAN]
      BY DEF FuturesOK
    <3>2. v \in [sender EXCEPT !.holders = @ \ {w}].holders
      BY <3>1, <2>2, <1>3
    <3>3. [sender EXCEPT !.holders = @ \ {w}] \in senders'
      BY <1>1, Zenon
    <3> QED
      BY <3>2, <3>3, Zenon DEF Promised
  <2> QED
    BY <1>3, <2>1, <2>2, Zenon DEF Promised
<1> QED
  BY <1>1, <1>2, <1>3, Zenon DEF HeldBy

-----------------------------------------------------------------------------
\* changed() settles every debt at once: whatever it changed, whoever sleeps
\* afterwards and slept before is owed a notification.  Nobody falls asleep in
\* a step that calls it.
LEMMA ChangedKeeps ==
    ASSUME ChangeInv, PartiesOK', NEW deferred \in BOOLEAN, changed(deferred),
           UNCHANGED sub, \A k \in Copiers : copier'[k] = "parked" => copier[k] = "parked",
           closer' \in {"parked", "lingering", "awaiting"} => closer' = closer
    PROVE  ChangeInv'
<1>1. WakesAll
  BY CopiesWake, Zenon DEF ChangeInv, changed
<1>2. FuturesOK' /\ \A w : HeldBy(w) => Promised(w)'
  <2>1. FuturesOK
    BY Zenon DEF ChangeInv, ChangeTypeOK
  <2>2. rearm_if_taken(deferred) /\ UNCHANGED done
    BY Zenon DEF changed
  <2> QED
    BY <2>1, <2>2, Rearms, Zenon
<1>3. ChangeTypeOK'
  BY <1>1, <1>2, Zenon DEF ChangeTypeOK, WakesAll
<1>4. /\ \A s \in Subscribers : sub'[s] # "idle" => Promised(s)'
      /\ closer' = "awaiting" => Promised(Closer)'
  BY <1>2, Zenon DEF ChangeInv, Waiters
<1>5. Waiters'
  BY <1>2, <1>4, Zenon DEF Waiters, HeldBy, FuturesOK
<1>6. failure' => failure_future' # "armed"
  BY DEF changed
<1>7. /\ \A k \in Copiers : copier'[k] = "parked" => wakes'
      /\ closer' \in {"parked", "lingering"} => wakes'
  BY <1>1, Zenon DEF WakesAll
<1>8. NoWakeupLost'
  BY <1>4, <1>6, <1>7, Zenon DEF NoWakeupLost
<1> QED
  BY <1>3, <1>5, <1>8, Zenon DEF ChangeInv

\* A step that neither subscribes nor changes the futures keeps who holds one.
LEMMA SameFutures ==
    ASSUME UNCHANGED <<holders, taken, senders, done>>
    PROVE  \A w : (HeldBy(w)' <=> HeldBy(w)) /\ (Promised(w)' <=> Promised(w))
BY Zenon DEF HeldBy, Promised

LEMMA ChangeInitOK == ChangeInit => ChangeInv
<1> SUFFICES ASSUME ChangeInit PROVE ChangeInv
  OBVIOUS
<1>1. ChangeTypeOK
  BY Zenon DEF ChangeInit, ChangeTypeOK, PartiesOK, FuturesOK
<1>2. Waiters /\ NoWakeupLost
  BY DEF ChangeInit, Waiters, NoWakeupLost
<1> QED
  BY <1>1, <1>2 DEF ChangeInv

-----------------------------------------------------------------------------
\* Deliveries.
LEMMA NotifyKeeps == ASSUME ChangeInv, NotifyNext PROVE ChangeInv'
<1>1. CASE NotifyCopies
  <2>1. /\ ~wakes' /\ UNCHANGED <<admission, failure, operands, sub, blocking, holders, taken,
                                    senders, done, failure_future>>
        /\ \A k \in Copiers : copier'[k] # "parked"
        /\ closer' \notin {"parked", "lingering"}
        /\ closer' = "awaiting" => closer = "awaiting"
        /\ copies' = {} => copies = {}
    <3>1. copier' = [k \in Copiers |-> IF copier[k] = "parked" THEN "woken" ELSE copier[k]]
      BY <1>1 DEF NotifyCopies
    <3>2. \A k \in Copiers : copier[k] = "copying" => copier'[k] = "copying"
      BY <3>1
    <3>3. copies' = {} => copies = {}
      BY <3>2, Copying, Zenon
    <3> QED
      BY <1>1, <3>1, <3>3 DEF NotifyCopies, futureVars
  <2>2. ChangeTypeOK'
    BY Zenon, <1>1 DEF NotifyCopies, futureVars, ChangeInv, ChangeTypeOK, PartiesOK, FuturesOK
  <2>3. \A w : (HeldBy(w)' <=> HeldBy(w)) /\ (Promised(w)' <=> Promised(w))
    BY <2>1, SameFutures, Zenon
  <2>4. Waiters'
    BY <2>1, <2>3, Zenon DEF ChangeInv, Waiters
  <2>5. NoWakeupLost'
    BY <2>1, <2>3, Zenon DEF ChangeInv, NoWakeupLost
  <2> QED
    BY <2>2, <2>4, <2>5, Zenon DEF ChangeInv
<1>2. ASSUME NEW sender \in senders, NotifySender(sender) PROVE ChangeInv'
  <2>1. /\ UNCHANGED <<admission, failure, operands, copier, sub, closer, blocking, holders,
                       taken, wakes, failure_future>>
        /\ senders' = senders \ {sender} /\ done' = done \cup sender.holders
    BY <1>2 DEF NotifySender
  <2>2. copies' = copies
    BY <2>1, Zenon DEF copies
  <2>3. ChangeTypeOK'
    BY <2>1, ZenonT(30) DEF ChangeInv, ChangeTypeOK, PartiesOK, FuturesOK
  <2>4. ASSUME NEW w, Promised(w) PROVE Promised(w)'
    <3>1. CASE w \in done \/ w \in sender.holders
      BY <2>1, <3>1, Zenon DEF Promised
    <3>2. ASSUME NEW other \in senders, other # sender, w \in other.holders PROVE Promised(w)'
      BY <2>1, <3>2, Zenon DEF Promised
    <3> QED
      BY <2>4, <3>1, <3>2, Zenon DEF Promised
  <2>5. \A w : HeldBy(w) => HeldBy(w)'
    BY <2>1, <2>4, Zenon DEF HeldBy
  <2>6. Waiters'
    BY <2>1, <2>5, Zenon DEF ChangeInv, Waiters
  <2>7. NoWakeupLost'
    BY <2>1, <2>2, <2>4, Zenon DEF ChangeInv, NoWakeupLost
  <2> QED
    BY <2>3, <2>6, <2>7, Zenon DEF ChangeInv
<1>3. CASE NotifyFailed
  <2>1. /\ UNCHANGED <<admission, failure, operands, copier, sub, closer, blocking, holders,
                       taken, senders, done, wakes>>
        /\ failure_future' = "done"
    BY <1>3 DEF NotifyFailed
  <2>2. copies' = copies
    BY <2>1, Zenon DEF copies
  <2>3. ChangeTypeOK' /\ (failure' => failure_future' # "armed")
    BY <2>1 DEF ChangeInv, ChangeTypeOK, PartiesOK, FuturesOK
  <2>4. \A w : (HeldBy(w)' <=> HeldBy(w)) /\ (Promised(w)' <=> Promised(w))
    BY <2>1, SameFutures, Zenon
  <2>5. Waiters' /\ NoWakeupLost'
    BY <2>1, <2>2, <2>3, <2>4, Zenon DEF ChangeInv, Waiters, NoWakeupLost
  <2> QED
    BY <2>3, <2>5, Zenon DEF ChangeInv
<1> QED
  BY <1>1, <1>2, <1>3, Zenon DEF NotifyNext

-----------------------------------------------------------------------------
\* Steps that leave failure and futures alone.  Who falls asleep in one of
\* them has just found that nothing it waits for has happened.
Unheard ==
    /\ UNCHANGED <<failure, holders, taken, senders, done, failure_future>>
    /\ wakes => wakes'
    /\ admission' = "Open" => admission = "Open"
    /\ copies' = {} => copies = {}
    /\ operands' = {} => operands = {}
    /\ \A k \in Copiers : copier'[k] = "parked" =>
        copier[k] = "parked" \/ (~failure /\ admission # "Open")
    /\ closer' = "parked" => closer = "parked" \/ (~failure /\ copies # {})
    /\ closer' = "lingering" => closer = "lingering" \/ (~failure /\ operands # {})
    /\ closer' = "awaiting" => closer = "awaiting"
    /\ \A s \in Subscribers :
        /\ sub'[s] # "idle" => sub[s] # "idle"
        /\ sub'[s] = "waiting" => sub[s] = "waiting" \/ (~failure /\ admission # "Open")

LEMMA QuietKeeps ==
    ASSUME ChangeInv, PartiesOK', wakes' \in BOOLEAN, Unheard PROVE ChangeInv'
<1>1. /\ \A w : (HeldBy(w)' <=> HeldBy(w)) /\ (Promised(w)' <=> Promised(w))
      /\ UNCHANGED <<failure, holders, taken, senders, done, failure_future>>
  BY SameFutures, Zenon DEF Unheard
<1>2. ChangeTypeOK'
  BY <1>1, Zenon DEF ChangeInv, ChangeTypeOK, FuturesOK
<1>3. Waiters'
  <2>1. Waiters /\ (closer' = "awaiting" => closer = "awaiting")
        /\ \A s \in Subscribers : sub'[s] # "idle" => sub[s] # "idle"
    BY Zenon DEF ChangeInv, Unheard
  <2> QED
    BY <1>1, <2>1, Zenon DEF Waiters
<1>4. \A k \in Copiers : copier'[k] = "parked" /\ (failure' \/ admission' = "Open") => wakes'
  BY <1>1 DEF ChangeInv, NoWakeupLost, Unheard
<1>5. /\ closer' = "parked" /\ (failure' \/ copies' = {}) => wakes'
      /\ closer' = "lingering" /\ (failure' \/ operands' = {}) => wakes'
  BY <1>1 DEF ChangeInv, NoWakeupLost, Unheard
<1>6. \A s \in Subscribers :
        sub'[s] = "waiting" /\ (failure' \/ admission' = "Open") => Promised(s)'
  BY <1>1 DEF ChangeInv, NoWakeupLost, Unheard
<1>7. /\ closer' = "awaiting" /\ (failure' \/ copies' = {}) => Promised(Closer)'
      /\ failure' => failure_future' # "armed"
  BY <1>1 DEF ChangeInv, NoWakeupLost, Unheard
<1> QED
  BY <1>2, <1>3, <1>4, <1>5, <1>6, <1>7, Zenon DEF ChangeInv, NoWakeupLost

\* A copy's steps: it is admitted or parks, keeps an operand, or retires.
LEMMA CopierKeeps ==
    ASSUME ChangeInv, NEW k \in Copiers,
           \/ copy_blocking(k) \/ retain_operand(k) \/ DropOperand(k)
           \/ \E deferred \in BOOLEAN : retire(k, deferred)
    PROVE  ChangeInv'
<1> USE DEF futureVars
<1>0. PartiesOK
  BY Zenon DEF ChangeInv, ChangeTypeOK
<1>1. CASE copy_blocking(k)
  <2>1. /\ UNCHANGED <<admission, failure, operands, sub, closer, blocking, wakes, holders, taken,
                       senders, done, failure_future>>
        /\ copier[k] # "copying"
        /\ copier' = [copier EXCEPT ![k] = CASE failure -> "idle"
                                             [] ~failure /\ admission = "Open" -> "copying"
                                             [] OTHER -> "parked"]
    BY <1>1 DEF copy_blocking
  <2>2. PartiesOK' /\ wakes' \in BOOLEAN
    BY <1>0, <2>1 DEF PartiesOK, ChangeInv, ChangeTypeOK
  <2>3. /\ \A j \in Copiers : copier[j] = "copying" => copier'[j] = "copying"
        /\ \A j \in Copiers : copier'[j] = "parked" =>
            copier[j] = "parked" \/ (~failure /\ admission # "Open")
    BY <1>0, <2>1 DEF PartiesOK
  <2>4. copies' = {} => copies = {}
    BY <2>3, Copying, Zenon
  <2>5. Unheard
    BY <2>1, <2>3, <2>4, Zenon DEF Unheard
  <2> QED
    BY <2>2, <2>5, QuietKeeps, Zenon
<1>2. CASE retain_operand(k)
  <2>1. /\ UNCHANGED <<admission, failure, copier, sub, closer, blocking, wakes, holders, taken,
                       senders, done, failure_future>>
        /\ operands' # {}
    BY <1>2 DEF retain_operand
  <2>2. copies' = copies
    BY <2>1, Zenon DEF copies
  <2>3. Unheard /\ PartiesOK' /\ wakes' \in BOOLEAN
    BY <1>0, <2>1, <2>2, ZenonT(30) DEF Unheard, PartiesOK, ChangeInv, ChangeTypeOK
  <2> QED
    BY <2>3, QuietKeeps, Zenon
<1>3. CASE DropOperand(k)
  <2>1. UNCHANGED <<admission, failure, copier, sub, closer, blocking>> /\ changed(FALSE)
    BY Zenon, <1>3 DEF DropOperand
  <2>2. PartiesOK'
    BY <1>0, <2>1, Zenon DEF PartiesOK
  <2> QED
    BY <2>1, <2>2, ChangedKeeps, Zenon
<1>4. ASSUME NEW deferred \in BOOLEAN, retire(k, deferred) PROVE ChangeInv'
  <2>1. /\ UNCHANGED <<admission, failure, sub, closer, blocking>> /\ changed(deferred)
        /\ copier' = [copier EXCEPT ![k] = "idle"]
    BY <1>4 DEF retire
  <2>2. PartiesOK' /\ \A j \in Copiers : copier'[j] = "parked" => copier[j] = "parked"
    BY <1>0, <2>1 DEF PartiesOK
  <2> QED
    BY <2>1, <2>2, ChangedKeeps, Zenon
<1> QED
  BY <1>1, <1>2, <1>3, <1>4, Zenon

\* A subscriber's steps: it takes the future, looks again, and is resumed.
LEMMA SubscriberKeeps ==
    ASSUME ChangeInv, NEW s \in Subscribers, Subscribe(s) \/ Recheck(s) \/ Resumes(s)
    PROVE  ChangeInv'
<1> USE DEF futureVars
<1>0. PartiesOK /\ FuturesOK
  BY Zenon DEF ChangeInv, ChangeTypeOK
<1>1. CASE Subscribe(s)
  <2>1. /\ UNCHANGED <<admission, failure, operands, copier, closer, blocking, wakes, failure_future>>
        /\ sub' = [sub EXCEPT ![s] = "subscribed"] /\ subscribe(s) /\ s \in Awaiters
    BY <1>1 DEF Subscribe, Awaiters
  <2>2. /\ FuturesOK' /\ HeldBy(s)'
        /\ \A v : v # s => (HeldBy(v) => HeldBy(v)') /\ (Promised(v) => Promised(v)')
    BY <1>0, <2>1, Subscribes, Zenon
  <2>3. /\ PartiesOK' /\ copies' = copies /\ wakes' \in BOOLEAN
        /\ \A t \in Subscribers \ {s} : sub'[t] = sub[t]
        /\ sub'[s] = "subscribed"
    BY <1>0, <2>1 DEF PartiesOK, copies, ChangeInv, ChangeTypeOK
  <2>4. ChangeTypeOK'
    BY <2>2, <2>3, Zenon DEF ChangeTypeOK
  <2>5. Closer # s
    BY ChangeAssumption
  <2>6. Waiters'
    <3>1. \A t \in Subscribers : sub'[t] # "idle" => HeldBy(t)'
      BY <2>2, <2>3, Zenon DEF ChangeInv, Waiters
    <3>2. closer' = "awaiting" => HeldBy(Closer)'
      BY <2>1, <2>2, <2>5, Zenon DEF ChangeInv, Waiters
    <3> QED
      BY <2>2, <3>1, <3>2, Zenon DEF Waiters, FuturesOK
  <2>7. \A t \in Subscribers :
          sub'[t] = "waiting" /\ (failure' \/ admission' = "Open") => Promised(t)'
    BY <2>1, <2>2, <2>3 DEF ChangeInv, NoWakeupLost
  <2>8. NoWakeupLost'
    BY <2>1, <2>2, <2>3, <2>5, <2>7, Zenon DEF ChangeInv, NoWakeupLost
  <2> QED
    BY <2>4, <2>6, <2>8, Zenon DEF ChangeInv
<1>2. CASE Recheck(s) \/ Resumes(s)
  <2>1. /\ UNCHANGED <<admission, failure, operands, copier, closer, blocking, wakes, holders,
                       taken, senders, done, failure_future>>
        /\ sub[s] # "idle"
        /\ \/ sub' = [sub EXCEPT ![s] = IF failure \/ admission = "Open" THEN "idle"
                                                                          ELSE "waiting"]
           \/ sub' = [sub EXCEPT ![s] = "idle"]
    BY <1>2 DEF Recheck, Resumes
  <2>2. PartiesOK' /\ copies' = copies /\ wakes' \in BOOLEAN
    BY <1>0, <2>1 DEF PartiesOK, copies, ChangeInv, ChangeTypeOK
  <2>3. \A t \in Subscribers :
          /\ sub'[t] # "idle" => sub[t] # "idle"
          /\ sub'[t] = "waiting" => sub[t] = "waiting" \/ (~failure /\ admission # "Open")
    BY <1>0, <2>1 DEF PartiesOK
  <2>4. Unheard
    BY <2>1, <2>2, <2>3, Zenon DEF Unheard
  <2> QED
    BY <2>2, <2>4, QuietKeeps, Zenon
<1> QED
  BY <1>1, <1>2

\* An asynchronous closer's look, which subscribes while copies remain.
LEMMA FinishKeeps == ASSUME ChangeInv, finish PROVE ChangeInv'
<1> USE DEF futureVars
<1>0. PartiesOK /\ FuturesOK
  BY Zenon DEF ChangeInv, ChangeTypeOK
<1>1. UNCHANGED <<operands, copier, sub, blocking>> /\ copies' = copies
  BY Zenon DEF finish, copies
<1>2. CASE /\ closer' = "closed" /\ admission' = "Closed"
           /\ UNCHANGED <<failure, wakes, futureVars>>
  <2>1. PartiesOK' /\ wakes' \in BOOLEAN
    BY <1>0, <1>1, <1>2 DEF PartiesOK, ChangeInv, ChangeTypeOK
  <2>2. Unheard
    BY <1>1, <1>2 DEF Unheard
  <2> QED
    BY <2>1, <2>2, QuietKeeps, Zenon
<1>3. CASE /\ ~failure /\ copies # {} /\ closer' = "awaiting" /\ subscribe(Closer)
           /\ UNCHANGED <<failure, admission, wakes, failure_future>>
  <2>1. /\ FuturesOK' /\ HeldBy(Closer)'
        /\ \A v : v # Closer => (HeldBy(v) => HeldBy(v)') /\ (Promised(v) => Promised(v)')
    <3>1. Closer \in Awaiters
      BY DEF Awaiters
    <3> QED
      BY <1>0, <1>3, <3>1, Subscribes, Zenon
  <2>2. PartiesOK' /\ wakes' \in BOOLEAN
    BY <1>0, <1>1, <1>3 DEF PartiesOK, ChangeInv, ChangeTypeOK
  <2>3. ChangeTypeOK'
    BY <2>1, <2>2, Zenon DEF ChangeTypeOK
  <2>4. \A s \in Subscribers : s # Closer
    BY ChangeAssumption
  <2>5. Waiters'
    BY <1>1, <2>1, <2>4, Zenon DEF ChangeInv, Waiters, FuturesOK
  <2>6. \A s \in Subscribers :
          sub'[s] = "waiting" /\ (failure' \/ admission' = "Open") => Promised(s)'
    BY <1>1, <1>3, <2>1, <2>4 DEF ChangeInv, NoWakeupLost
  <2>7. NoWakeupLost'
    BY <1>1, <1>3, <2>6 DEF ChangeInv, NoWakeupLost
  <2> QED
    BY <2>3, <2>5, <2>7, Zenon DEF ChangeInv
<1>4. CASE closer' = "idle" /\ UNCHANGED <<failure, admission>> /\ changed(FALSE)
  <2>1. PartiesOK'
    BY <1>0, <1>1, <1>4 DEF PartiesOK
  <2>2. closer' \in {"parked", "lingering", "awaiting"} => closer' = closer
    BY <1>4
  <2> QED
    BY <1>1, <1>4, <2>1, <2>2, ChangedKeeps, Zenon
<1> QED
  BY <1>2, <1>3, <1>4, Zenon DEF finish

\* Whoever closes, closes again, gives up or poisons, and then calls changed().
LEMMA ClosersChange ==
    ASSUME ChangeInv, finish_blocking_TimedOut \/ DropClosed \/ DropClosing \/ poison
    PROVE  ChangeInv'
<1>0. PartiesOK
  BY Zenon DEF ChangeInv, ChangeTypeOK
<1>1. /\ UNCHANGED <<operands, copier, sub, blocking>> /\ changed(FALSE)
      /\ closer' \in {"idle", closer} /\ admission' \in {"Open", admission}
      /\ failure' \in {TRUE, failure}
  BY Zenon DEF finish_blocking_TimedOut, DropClosed, DropClosing, poison
<1>2. PartiesOK' /\ (closer' \in {"parked", "lingering", "awaiting"} => closer' = closer)
  BY Zenon, <1>0, <1>1 DEF PartiesOK
<1> QED
  BY <1>1, <1>2, ChangedKeeps, Zenon

\* A blocking closer's other steps, and the first step of any closer.
LEMMA BlockingKeeps ==
    ASSUME ChangeInv, \/ finish_blocking \/ wait_for_operands_outside
                      \/ wait_for_operands_TimedOut \/ publish
                      \/ \E block \in BOOLEAN : try_close(block)
    PROVE  ChangeInv'
<1> USE DEF futureVars
<1>0. PartiesOK
  BY Zenon DEF ChangeInv, ChangeTypeOK
<1>1. UNCHANGED <<operands, copier, sub>> /\ copies' = copies
  BY Zenon DEF finish_blocking, wait_for_operands_outside, wait_for_operands_TimedOut, publish,
     try_close, copies
<1>2. CASE finish_blocking
  <2>1. CASE /\ ~failure /\ closer' = IF copies = {} THEN "closed" ELSE "parked"
             /\ admission' = IF copies = {} THEN "Closed" ELSE admission
             /\ UNCHANGED <<failure, wakes, futureVars, blocking>>
    <3>1. PartiesOK' /\ wakes' \in BOOLEAN
      BY <1>0, <1>1, <2>1 DEF PartiesOK, ChangeInv, ChangeTypeOK
    <3>2. Unheard
      BY <1>1, <2>1 DEF Unheard
    <3> QED
      BY <3>1, <3>2, QuietKeeps, Zenon
  <2>2. CASE closer' = "idle" /\ UNCHANGED <<failure, admission, blocking>> /\ changed(FALSE)
    <3>1. PartiesOK' /\ closer' \notin {"parked", "lingering", "awaiting"}
      BY <1>0, <1>1, <2>2 DEF PartiesOK
    <3> QED
      BY <1>1, <2>2, <3>1, ChangedKeeps, Zenon
  <2> QED
    BY <1>2, <2>1, <2>2, Zenon DEF finish_blocking
<1>3. CASE wait_for_operands_outside \/ wait_for_operands_TimedOut
  <2>1. /\ UNCHANGED <<admission, failure, blocking, wakes, futureVars>>
        /\ \/ closer' = "drained"
           \/ closer' = "lingering" /\ ~failure /\ operands # {}
    BY <1>3 DEF wait_for_operands_outside, wait_for_operands_TimedOut
  <2>2. PartiesOK' /\ wakes' \in BOOLEAN
    BY <1>0, <1>1, <2>1 DEF PartiesOK, ChangeInv, ChangeTypeOK
  <2>3. Unheard
    BY <1>1, <2>1 DEF Unheard
  <2> QED
    BY <2>2, <2>3, QuietKeeps, Zenon
<1>4. CASE publish \/ \E block \in BOOLEAN : try_close(block)
  <2>1. /\ UNCHANGED <<failure, holders, taken, senders, done, failure_future>> /\ WakeCopies
        /\ blocking' \in BOOLEAN /\ closer' \in {"published", "closing"}
        /\ admission' \in {"Closing", admission}
    BY <1>0, <1>4 DEF publish, try_close, changed_without_subscribers, PartiesOK
  <2>2. WakesAll
    BY <2>1, CopiesWake, Zenon DEF ChangeInv
  <2>3. PartiesOK'
    BY <1>0, <1>1, <2>1 DEF PartiesOK
  <2>4. Unheard /\ wakes' \in BOOLEAN
    BY <1>1, <2>1, <2>2 DEF Unheard, WakesAll
  <2> QED
    BY <2>3, <2>4, QuietKeeps, Zenon
<1> QED
  BY <1>2, <1>3, <1>4, Zenon

LEMMA ChangeNextKeeps == ChangeInv /\ [ChangeNext]_nVars => ChangeInv'
<1> SUFFICES ASSUME ChangeInv, [ChangeNext]_nVars PROVE ChangeInv'
  OBVIOUS
<1>1. CASE UNCHANGED nVars
  <2>1. /\ UNCHANGED <<admission, failure, operands, copier, sub, closer, blocking, wakes>>
        /\ UNCHANGED <<holders, taken, senders, done, failure_future>>
    BY <1>1, Zenon DEF nVars
  <2>2. PartiesOK' /\ wakes' \in BOOLEAN /\ copies' = copies
    BY <2>1, Zenon DEF ChangeInv, ChangeTypeOK, PartiesOK, copies
  <2>3. Unheard
    BY <2>1, <2>2, Zenon DEF Unheard
  <2> QED
    BY <2>2, <2>3, QuietKeeps, Zenon
<1>2. CASE NotifyNext
  BY <1>2, NotifyKeeps, Zenon
<1>3. CASE CloseStep
  BY <1>3, FinishKeeps, BlockingKeeps, ClosersChange, Zenon DEF CloseStep
<1>4. CASE \E k \in Copiers : \/ copy_blocking(k) \/ retain_operand(k) \/ DropOperand(k)
                              \/ \E deferred \in BOOLEAN : retire(k, deferred)
  BY <1>4, CopierKeeps, Zenon
<1>5. CASE \E s \in Subscribers : Subscribe(s) \/ Recheck(s) \/ Resumes(s)
  BY <1>5, SubscriberKeeps, Zenon
<1>6. CASE \/ \E block \in BOOLEAN : try_close(block)
           \/ finish_blocking_TimedOut \/ wait_for_operands_TimedOut \/ publish
           \/ DropClosing \/ poison
  BY <1>6, BlockingKeeps, ClosersChange, Zenon
<1> QED
  BY <1>1, <1>2, <1>3, <1>4, <1>5, <1>6, Zenon DEF ChangeNext

\* However copies, subscribers and a closer interleave with the gate's changes
\* and with their delayed notifications (State::changed, notify), nobody sleeps
\* for a change that happened unless its notification is on the way.
THEOREM GateWakeupsAreKept == ChangeSpec => []NoWakeupLost
<1>1. ChangeInv => NoWakeupLost
  BY DEF ChangeInv
<1> QED
  BY <1>1, ChangeInitOK, ChangeNextKeeps, PTL DEF ChangeSpec

-----------------------------------------------------------------------------
(***************************************************************************)
(* The asynchronous adapter, whatever slots are polled and however many    *)
(* Wakers are registered, with or without failures.  The inductive invariant *)
(* has four parts besides the types: where the Wakers are (each in one place *)
(* until it is consumed, once), which of them is the newest of its slot, what *)
(* a poll under way may rely on, and why a monitor that sleeps is roused.  *)
(***************************************************************************)

Elems(q) == {q[i] : i \in DOMAIN q}
Distinct(q) == \A i, j \in DOMAIN q : q[i].id = q[j].id => i = j

LEMMA NodeFacts ==
    /\ None.id = 0 /\ None.notify = FALSE /\ None \notin Nodes
    /\ \A n \in Nodes :
         /\ n.id \in 1 .. MaxRegistrations /\ n.id \in Nat /\ n.id # 0
         /\ n.slot \in Slots /\ n.notify \in BOOLEAN /\ n # None
         /\ [n EXCEPT !.notify = FALSE] \in Nodes
         /\ [n EXCEPT !.notify = FALSE].id = n.id
         /\ [n EXCEPT !.notify = FALSE].notify = FALSE
<1>1. None.id = 0 /\ None.notify = FALSE
  BY Zenon DEF None
<1>2. ASSUME NEW n \in Nodes
      PROVE  /\ n.id \in 1 .. MaxRegistrations /\ n.id \in Nat /\ n.id # 0
             /\ n.slot \in Slots /\ n.notify \in BOOLEAN
  BY <1>2, RegistrationsAssumption DEF Nodes
<1>3. ASSUME NEW n \in Nodes
      PROVE  /\ [n EXCEPT !.notify = FALSE] \in Nodes
             /\ [n EXCEPT !.notify = FALSE].id = n.id
             /\ [n EXCEPT !.notify = FALSE].notify = FALSE
  BY Zenon, <1>3 DEF Nodes
<1> QED BY Zenon, <1>1, <1>2, <1>3

\* A list of nodes with one more in front.
LEMMA Pushed ==
    ASSUME NEW q \in Seq(Nodes), NEW n \in Nodes
    PROVE  /\ <<n>> \o q \in Seq(Nodes)
           /\ Elems(<<n>> \o q) = Elems(q) \cup {n}
           /\ Distinct(q) /\ (\A m \in Elems(q) : m.id # n.id) => Distinct(<<n>> \o q)
<1> DEFINE p == <<n>> \o q
<1>1. p \in Seq(Nodes) /\ Len(p) = Len(q) + 1 /\ p[1] = n
  OBVIOUS
<1>2. \A i \in 1 .. Len(q) : p[i + 1] = q[i]
  OBVIOUS
<1>3. \A i \in 2 .. Len(p) : i - 1 \in 1 .. Len(q) /\ p[i] = q[i - 1]
  BY <1>1
<1>4. DOMAIN p = 1 .. Len(p) /\ DOMAIN q = 1 .. Len(q) /\ Len(q) \in Nat
  BY <1>1
<1> HIDE DEF p
<1>5. Elems(p) = Elems(q) \cup {n}
  <2>1. \A m \in Elems(p) : m \in Elems(q) \cup {n}
    <3> SUFFICES ASSUME NEW i \in DOMAIN p PROVE p[i] \in Elems(q) \cup {n}
      BY Zenon DEF Elems
    <3>1. i = 1 \/ i \in 2 .. Len(p)
      BY <1>4
    <3>2. CASE i \in 2 .. Len(p)
      BY Zenon, <1>3, <1>4, <3>2 DEF Elems
    <3> QED BY Zenon, <1>1, <3>1, <3>2
  <2>2. \A m \in Elems(q) : m \in Elems(p)
    <3> SUFFICES ASSUME NEW i \in DOMAIN q PROVE q[i] \in Elems(p)
      BY Zenon DEF Elems
    <3>1. i + 1 \in DOMAIN p /\ p[i + 1] = q[i]
      BY <1>1, <1>2, <1>4
    <3> QED BY Zenon, <3>1 DEF Elems
  <2>3. n \in Elems(p)
    <3>1. 1 \in DOMAIN p
      BY <1>1, <1>4
    <3> QED BY Zenon, <1>1, <3>1 DEF Elems
  <2> QED BY Zenon, <2>1, <2>2, <2>3
<1>6. ASSUME Distinct(q), \A m \in Elems(q) : m.id # n.id
      PROVE  Distinct(p)
  <2> SUFFICES ASSUME NEW i \in DOMAIN p, NEW j \in DOMAIN p, p[i].id = p[j].id
               PROVE  i = j
    BY Zenon DEF Distinct
  <2>1. \A k \in 2 .. Len(p) : p[k].id # n.id
    BY Zenon, <1>3, <1>4, <1>6 DEF Elems
  <2>2. CASE i = 1 \/ j = 1
    BY <1>1, <1>4, <2>1, <2>2
  <2>3. CASE i # 1 /\ j # 1
    <3>1. i \in 2 .. Len(p) /\ j \in 2 .. Len(p)
      BY <1>1, <1>4, <2>3
    <3>2. i - 1 = j - 1
      BY Zenon, <1>3, <1>4, <1>6, <3>1 DEF Distinct
    <3> QED BY <3>1, <3>2
  <2> QED BY Zenon, <2>2, <2>3
<1> QED BY Zenon, <1>1, <1>5, <1>6 DEF p

\* ... and with the first taken off.
LEMMA Popped ==
    ASSUME NEW q \in Seq(Nodes), q # <<>>
    PROVE  /\ Head(q) \in Nodes /\ Tail(q) \in Seq(Nodes)
           /\ Elems(q) = Elems(Tail(q)) \cup {Head(q)}
           /\ Distinct(q) => /\ Distinct(Tail(q))
                             /\ \A m \in Elems(Tail(q)) : m.id # Head(q).id
<1> DEFINE p == Tail(q)
<1>1. /\ Head(q) \in Nodes /\ p \in Seq(Nodes) /\ Len(q) \in Nat /\ Len(q) >= 1
      /\ Len(p) = Len(q) - 1 /\ Head(q) = q[1]
  OBVIOUS
<1>2. \A i \in 1 .. Len(p) : p[i] = q[i + 1]
  OBVIOUS
<1>3. DOMAIN p = 1 .. Len(p) /\ DOMAIN q = 1 .. Len(q)
  BY <1>1
<1> HIDE DEF p
<1>4. \A i \in DOMAIN p : i + 1 \in DOMAIN q /\ p[i] = q[i + 1]
  BY <1>1, <1>2, <1>3
<1>5. \A i \in DOMAIN q : i = 1 \/ (i - 1 \in DOMAIN p /\ q[i] = p[i - 1])
  BY <1>1, <1>2, <1>3
<1>6. 1 \in DOMAIN q
  BY <1>1, <1>3
<1>7. Elems(q) = Elems(p) \cup {Head(q)}
  <2>1. \A m \in Elems(q) : m \in Elems(p) \cup {Head(q)}
    BY <1>1, <1>5 DEF Elems
  <2>2. \A m \in Elems(p) : m \in Elems(q)
    BY Zenon, <1>4 DEF Elems
  <2>3. Head(q) \in Elems(q)
    BY Zenon, <1>1, <1>6 DEF Elems
  <2> QED BY Zenon, <2>1, <2>2, <2>3
<1>8. ASSUME Distinct(q) PROVE Distinct(p) /\ \A m \in Elems(p) : m.id # Head(q).id
  <2>1. Distinct(p)
    <3> SUFFICES ASSUME NEW i \in DOMAIN p, NEW j \in DOMAIN p, p[i].id = p[j].id
                 PROVE  i = j
      BY Zenon DEF Distinct
    <3>1. i + 1 = j + 1
      BY <1>4, <1>8 DEF Distinct
    <3> QED BY <1>1, <1>3, <3>1
  <2>2. ASSUME NEW i \in DOMAIN p PROVE p[i].id # Head(q).id
    <3>1. i + 1 # 1
      BY <1>1, <1>3
    <3> QED BY Zenon, <1>1, <1>4, <1>6, <1>8, <3>1 DEF Distinct
  <2> QED BY Zenon, <2>1, <2>2 DEF Elems
<1> QED BY Zenon, <1>1, <1>7, <1>8 DEF p

-----------------------------------------------------------------------------
\* Where the Wakers are: every node is in one place, a slot, the retired list
\* or the worker's hand, until it is consumed; no Waker ever cloned is lost.
R == Elems(retired)
Gone == woken \cup discarded

SlotsApart ==
    /\ \A s \in Slots : slots[s] # None =>
         /\ slots[s].notify
         /\ slots[s].id \in 1 .. issued /\ slots[s].id \notin Gone
         /\ slots[s].id # hand.id
         /\ \A n \in R : n.id # slots[s].id
    /\ slots[0].id = slots[1].id => slots[0] = None

HandApart ==
    hand # None => /\ hand.id \in 1 .. issued /\ hand.id \notin Gone
                   /\ \A n \in R : n.id # hand.id

RetiredApart ==
    /\ Distinct(retired)
    /\ \A n \in R : n.id \in 1 .. issued /\ n.id \notin Gone

ConsumedOnce ==
    /\ woken \cap discarded = {}
    /\ woken \subseteq 1 .. issued /\ discarded \subseteq 1 .. issued

Placed(i) == \/ i \in Gone \/ i = hand.id
             \/ \E s \in Slots : slots[s].id = i
             \/ \E n \in R : n.id = i

NoneLost == \A i \in 1 .. issued : Placed(i)

Places == SlotsApart /\ HandApart /\ RetiredApart /\ ConsumedOnce /\ NoneLost

\* Which is the newest of its slot: never one that was or will be dropped
\* without a wake.
Current ==
    /\ \A s \in Slots : registered[s] <= issued /\ registered[s] \notin discarded
    /\ registered[0] = registered[1] => registered[0] = 0
    /\ \A s, u \in Slots :
         slots[s] # None /\ registered[u] # 0 => (slots[s].id = registered[u] <=> s = u)

Superseded == \A n \in R \cup {hand} : ~n.notify => \A s \in Slots : n.id # registered[s] \/ n.id = 0

Newest == Current /\ Superseded

\* What the poll under way and the worker may rely on.
Closing == {"drain", "waiting", "done"}

PollFacts ==
    /\ cloning = IF poll = "clone" THEN 1 ELSE 0
    /\ poll \in {"check", "try", "register", "clone"} => issued < MaxRegistrations
    /\ stopped => poll = "out"
    /\ poll = "recheck" /\ registered[polled] = 0 => failed
    /\ poll = "retry" => registered[polled] # 0
    /\ poll # "out" => polled \notin pending
    /\ \A s \in pending : registered[s] # 0

WorkerFacts ==
    /\ accepting <=> monitor \notin Closing
    /\ monitor \in Closing => \A s \in Slots : slots[s] = None
    /\ monitor \in Closing \cup {"failing", "close"} => stopped \/ failed
    /\ accepting => \A n \in R : ~n.notify
    /\ hand # None => monitor \in {"slot1", "retired", "drain"}
    /\ monitor = "done" => retired = <<>> /\ cloning = 0

Polls == PollFacts /\ WorkerFacts

\* Why a monitor that sleeps will be roused.
Bumping == \E a \in Agents : notifying[a] = "bump"
Waking == \E a \in Agents : notifying[a] = "wake"
Roused == Bumping \/ (monitor # "asleep" /\ moved) \/ (monitor = "asleep" /\ Waking)

\* There the worker looks at the stop flag before it sleeps again, or never
\* sleeps again.
Awake == {"loop", "sample", "stopped", "failing", "close", "drain", "waiting", "done"}

\* The poll of s has to be woken: it is Pending, or about to be without
\* having seen a failure.
Due(s) == \/ s \in pending /\ (ready[s] \/ failed)
          \/ poll = "retry" /\ polled = s /\ failed

Seen(s) == \/ Roused
           \/ monitor \in Awake \cup {"slot0"}
           \/ monitor = "slot1" /\ s = 1
           \/ hand.id = registered[s]

Wakes ==
    /\ stopped => Roused \/ monitor \in Awake
    /\ \A s \in Slots : Due(s) /\ ~stopped /\ registered[s] \notin woken => Seen(s)

AsyncInv == AsyncTypeOK /\ Places /\ Newest /\ Polls /\ Wakes

-----------------------------------------------------------------------------
\* The types, in three parts.
MappingOK ==
    /\ ready \in [Slots -> BOOLEAN] /\ failed \in BOOLEAN /\ moved \in BOOLEAN
    /\ notifying \in [Agents -> {"idle", "bump", "wake"}]

ControlOK ==
    /\ stopped \in BOOLEAN /\ accepting \in BOOLEAN /\ cloning \in {0, 1}
    /\ poll \in {"out", "check", "try", "register", "clone", "recheck", "retry"}
    /\ polled \in Slots /\ pending \subseteq Slots
    /\ registered \in [Slots -> 0 .. MaxRegistrations]
    /\ monitor \in {"loop", "sample", "stopped", "slot0", "slot1", "retired", "wait",
                    "asleep", "failing", "close", "drain", "waiting", "done"}
    /\ outcome \in {"ok", "panicked", "error"}
    /\ issued \in 0 .. MaxRegistrations

NodesOK ==
    /\ slots \in [Slots -> Nodes \cup {None}]
    /\ retired \in Seq(Nodes) /\ hand \in Nodes \cup {None}
    /\ woken \subseteq 1 .. MaxRegistrations /\ discarded \subseteq 1 .. MaxRegistrations

LEMMA TypeParts == AsyncTypeOK <=> MappingOK /\ ControlOK /\ NodesOK
BY Zenon DEF AsyncTypeOK, MappingOK, ControlOK, NodesOK

LEMMA MappingStep ==
    ASSUME MappingOK, ControlOK, Next
    PROVE  MappingOK'
<1> USE DEF MappingOK
<1>0. /\ {"peer", "stream", "aborter", "worker"} \subseteq Agents /\ polled \in Slots
      /\ \A a \in Agents : Notify(a) => notifying' \in [Agents -> {"idle", "bump", "wake"}]
  BY DEF Agents, Notify, ControlOK
<1>1. ASSUME NEW a \in Agents, Bump(a) PROVE MappingOK'
  BY Zenon, <1>1 DEF Bump
<1>2. ASSUME NEW a \in Agents, FutexWake(a) PROVE MappingOK'
  BY Zenon, <1>2 DEF FutexWake
<1>3. ASSUME NEW s \in Uses, PeerMoves(s) PROVE MappingOK'
  <2>1. s \in Slots
    BY Zenon, UsesAssumption DEF Slots
  <2> QED BY Zenon, <1>0, <1>3, <2>1 DEF PeerMoves
<1>4. CASE Progress
  BY Zenon, <1>0, <1>4 DEF Progress
<1>5. CASE Abort \/ Drop \/ ConsumePanics \/ FutexError \/ Failing
  BY Zenon, <1>0, <1>5 DEF Abort, Drop, ConsumePanics, FutexError, Failing
<1>6. CASE Sample
  BY Zenon, <1>6 DEF Sample
<1>7. ASSUME UNCHANGED mappingVars PROVE MappingOK'
  BY Zenon, <1>7 DEF mappingVars
<1>8. \/ \E a \in Agents : Bump(a) \/ FutexWake(a)
      \/ \E s \in Uses : PeerMoves(s)
      \/ Progress \/ Abort \/ Drop \/ ConsumePanics \/ FutexError \/ Failing \/ Sample
      \/ UNCHANGED mappingVars
  BY Zenon DEF Next, PollStep, Worker, Poll, CheckFailure, WouldBlock, register, CloneReturns, ClonePanics,
     LoopCondition, CheckStopped, TakeSlot, TakeRetired, consume, FutexWait, close, drain, Timeout
<1> QED BY Zenon, <1>1, <1>2, <1>3, <1>4, <1>5, <1>6, <1>7, <1>8

LEMMA ControlStep ==
    ASSUME ControlOK, Polls, Next
    PROVE  ControlOK'
<1> USE DEF ControlOK, pollVars, workerVars, registrationVars, historyVars
<1>0. MaxRegistrations \in Nat
  BY Zenon, RegistrationsAssumption
<1>1. ASSUME NEW a \in Agents, Bump(a) PROVE ControlOK'
  BY ZenonT(30), <1>1 DEF Bump
<1>2. ASSUME NEW a \in Agents, FutexWake(a) PROVE ControlOK'
  BY Zenon, <1>2 DEF FutexWake
<1>3. ASSUME NEW s \in Uses, PeerMoves(s) \/ Poll(s) PROVE ControlOK'
  <2>1. s \in Slots
    BY Zenon, UsesAssumption DEF Slots
  <2> QED BY <1>3, <2>1 DEF PeerMoves, Poll
<1>4. CASE Abort \/ Drop
  BY Zenon, <1>4 DEF Abort, Drop
<1>5. CASE CheckFailure \/ WouldBlock \/ Progress
  BY <1>5 DEF CheckFailure, WouldBlock, Progress
<1>a. cloning = IF poll = "clone" THEN 1 ELSE 0
  BY Zenon DEF Polls, PollFacts
<1>6. CASE register
  <2>1. registered' \in [Slots -> 0 .. MaxRegistrations]
    BY <1>0, <1>6 DEF register
  <2>2. cloning' \in {0, 1} /\ poll' \in {"clone", "recheck"}
    BY <1>a, <1>6 DEF register
  <2> QED BY Zenon, <1>6, <2>1, <2>2 DEF register
<1>7. CASE ClonePanics
  BY <1>a, <1>7 DEF ClonePanics, Release
<1>8. CASE CloneReturns
  <2>1. issued' \in 0 .. MaxRegistrations /\ issued + 1 \in 0 .. MaxRegistrations
    BY <1>0, <1>8 DEF CloneReturns, Polls, PollFacts
  <2>2. registered' \in [Slots -> 0 .. MaxRegistrations]
    BY Zenon, <1>8, <2>1 DEF CloneReturns
  <2>3. cloning' \in {0, 1} /\ monitor' \in {monitor, "drain"} /\ poll' = "recheck"
        /\ UNCHANGED <<stopped, accepting, polled, pending, outcome>>
    BY <1>a, <1>8 DEF CloneReturns, Release
  <2> QED BY Zenon, <2>1, <2>2, <2>3
<1>9. CASE LoopCondition \/ Sample \/ CheckStopped \/ FutexWait \/ Timeout
  BY <1>9 DEF LoopCondition, Sample, CheckStopped, FutexWait, Timeout
<1>10. ASSUME NEW s \in Slots, TakeSlot(s) PROVE ControlOK'
  BY <1>10 DEF TakeSlot, Slots
<1>11. CASE TakeRetired \/ drain
  BY <1>11 DEF TakeRetired, drain
<1>12. CASE consume \/ ConsumePanics
  BY <1>12 DEF consume, ConsumePanics, Consumed
<1>13. CASE FutexError \/ Failing
  BY <1>13 DEF FutexError, Failing
<1>14. CASE close
  BY Zenon, <1>14 DEF close
<1> QED BY Zenon, <1>1, <1>2, <1>3, <1>4, <1>5, <1>6, <1>7, <1>8, <1>9, <1>10, <1>11, <1>12, <1>13,
           <1>14 DEF Next, PollStep, Worker

\* What the steps that move nodes do to the types.
LEMMA NewNode ==
    ASSUME ControlOK, Polls, CloneReturns
    PROVE  /\ [slot |-> polled, id |-> issued + 1, notify |-> TRUE] \in Nodes
           /\ issued \in Nat /\ issued + 1 \in 1 .. MaxRegistrations /\ issued' = issued + 1
<1>1. issued \in Nat /\ issued + 1 \in 1 .. MaxRegistrations
  BY RegistrationsAssumption DEF ControlOK, Polls, PollFacts, CloneReturns
<1>2. polled \in Slots
  BY Zenon DEF ControlOK
<1> QED BY Zenon, <1>1, <1>2 DEF Nodes, CloneReturns

LEMMA LinkedOK ==
    ASSUME NEW n \in Nodes \cup {None}, NEW q \in Seq(Nodes)
    PROVE  /\ n = None => Linked(n) \o q = q
           /\ n # None => Linked(n) \o q = <<n>> \o q
           /\ Linked(n) \o q \in Seq(Nodes)
<1>1. CASE n = None
  BY <1>1 DEF Linked
<1>2. CASE n # None
  BY Zenon, <1>2, Pushed DEF Linked
<1> QED BY Zenon, <1>1, <1>2

LEMMA NodesStep ==
    ASSUME ControlOK, NodesOK, Polls, Next
    PROVE  NodesOK'
<1>1. CASE UNCHANGED <<slots, retired, hand, woken, discarded>>
  BY Zenon, <1>1 DEF NodesOK
<1>2. CASE CloneReturns
  <2> DEFINE node == [slot |-> polled, id |-> issued + 1, notify |-> TRUE]
             dropped == [slots[polled] EXCEPT !.notify = FALSE]
  <2>1. node \in Nodes /\ polled \in Slots
    BY Zenon, <1>2, NewNode DEF ControlOK
  <2>2. slots[polled] # None => dropped \in Nodes
    BY Zenon, <2>1, NodeFacts DEF NodesOK
  <2>3. <<node>> \o retired \in Seq(Nodes) /\ (slots[polled] # None => <<dropped>> \o retired \in Seq(Nodes))
    BY Zenon, <2>1, <2>2, Pushed DEF NodesOK
  <2>4. /\ slots' = slots \/ slots' = [slots EXCEPT ![polled] = node]
        /\ \/ retired' = retired \/ retired' = <<node>> \o retired
           \/ slots[polled] # None /\ retired' = <<dropped>> \o retired
        /\ UNCHANGED <<hand, woken, discarded>>
    BY Zenon, <1>2 DEF CloneReturns
  <2> HIDE DEF node, dropped
  <2>5. slots' \in [Slots -> Nodes \cup {None}]
    BY Zenon, <2>1, <2>4 DEF NodesOK
  <2> QED BY Zenon, <2>3, <2>4, <2>5 DEF NodesOK
<1>3. ASSUME NEW s \in Slots, TakeSlot(s) PROVE NodesOK'
  <2>1. /\ hand' = slots[s] /\ slots' = [slots EXCEPT ![s] = None]
        /\ UNCHANGED <<retired, woken, discarded>>
    BY Zenon, <1>3 DEF TakeSlot, historyVars
  <2> QED BY Zenon, <2>1 DEF NodesOK
<1>4. CASE TakeRetired \/ drain
  <2>1. /\ UNCHANGED <<slots, woken, discarded>>
        /\ \/ UNCHANGED <<hand, retired>>
           \/ retired # <<>> /\ hand' = Head(retired) /\ retired' = Tail(retired)
    BY Zenon, <1>4 DEF TakeRetired, drain, historyVars
  <2> QED BY Zenon, <1>1, <2>1, Popped DEF NodesOK
<1>5. CASE Consumed /\ UNCHANGED <<slots, retired>>
  <2>1. hand.id \in 1 .. MaxRegistrations
    BY Zenon, <1>5, NodeFacts DEF NodesOK, Consumed
  <2> QED BY Zenon, <1>5, <2>1 DEF NodesOK, Consumed
<1>6. CASE close
  <2>1. Linked(slots[1]) \o (Linked(slots[0]) \o retired) \in Seq(Nodes)
    <3>1. slots[0] \in Nodes \cup {None} /\ slots[1] \in Nodes \cup {None}
      BY Zenon DEF NodesOK, Slots
    <3> QED BY Zenon, <3>1, LinkedOK DEF NodesOK
  <2>2. UNCHANGED <<hand, woken, discarded>> /\ slots' = [s \in Slots |-> None]
        /\ retired' = Linked(slots[1]) \o (Linked(slots[0]) \o retired)
    BY Zenon, <1>6 DEF close, historyVars
  <2> QED BY Zenon, <2>1, <2>2 DEF NodesOK
<1>7. \/ UNCHANGED <<slots, retired, hand, woken, discarded>>
      \/ CloneReturns \/ TakeRetired \/ drain \/ close
      \/ \E s \in Slots : TakeSlot(s)
      \/ Consumed /\ UNCHANGED <<slots, retired>>
  BY Zenon DEF Next, PollStep, Worker, Bump, FutexWake, PeerMoves, Poll, Abort, Drop, CheckFailure,
     Progress, WouldBlock, register, ClonePanics, LoopCondition, Sample, CheckStopped, consume,
     ConsumePanics, FutexWait, FutexError, Failing, Timeout, registrationVars, workerVars,
     historyVars
<1> QED BY Zenon, <1>1, <1>2, <1>3, <1>4, <1>5, <1>6, <1>7

-----------------------------------------------------------------------------
\* The head of the retired list is taken in hand.
LEMMA TakenKeeps ==
    ASSUME NodesOK, Places, Newest, hand = None, retired # <<>>,
           hand' = Head(retired), retired' = Tail(retired),
           UNCHANGED <<slots, issued, woken, discarded, registered>>
    PROVE  Places' /\ Newest'
<1>1. /\ R = R' \cup {hand'} /\ hand' \in Nodes
      /\ Distinct(retired') /\ \A m \in R' : m.id # hand'.id
  BY Zenon, Popped DEF NodesOK, Places, RetiredApart, R
<1>2. Gone' = Gone
  BY Zenon DEF Gone
<1>3. hand.id = 0 /\ hand'.id # 0 /\ hand' # None
  BY Zenon, <1>1, NodeFacts
<1>4. SlotsApart'
  BY Zenon, <1>1, <1>2 DEF Places, SlotsApart
<1>5. HandApart' /\ RetiredApart' /\ ConsumedOnce'
  BY Zenon, <1>1, <1>2 DEF Places, RetiredApart, HandApart, ConsumedOnce
<1>6. NoneLost'
  BY <1>1, <1>2, <1>3 DEF Places, NoneLost, Placed
<1>7. Current'
  BY Zenon DEF Newest, Current
<1>8. Superseded'
  BY Zenon, <1>1 DEF Newest, Superseded
<1> QED BY Zenon, <1>4, <1>5, <1>6, <1>7, <1>8 DEF Places, Newest

\* wake_all takes what is in a slot.
LEMMA TakeSlotKeeps ==
    ASSUME NodesOK, Places, Newest, NEW s \in Slots, TakeSlot(s)
    PROVE  Places' /\ Newest'
<1>1. /\ hand = None /\ hand' = slots[s] /\ slots' = [slots EXCEPT ![s] = None]
      /\ UNCHANGED <<retired, issued, woken, discarded, registered>>
  BY Zenon DEF TakeSlot, At, pollVars, historyVars
<1>2. R' = R /\ Gone' = Gone
  BY Zenon, <1>1 DEF R, Gone
<1>3. hand.id = 0 /\ slots'[s] = None /\ \A u \in Slots : u # s => slots'[u] = slots[u]
  BY Zenon, <1>1, NodeFacts DEF NodesOK
<1>4. None.id = 0 /\ None.notify = FALSE
      /\ \A u \in Slots : slots[u] # None => slots[u].id # 0
  BY Zenon, NodeFacts DEF NodesOK
<1>5. SlotsApart'
  BY <1>1, <1>2, <1>3, <1>4 DEF Places, SlotsApart, Slots
<1>6. HandApart' /\ RetiredApart' /\ ConsumedOnce'
  BY Zenon, <1>1, <1>2 DEF Places, SlotsApart, RetiredApart, HandApart, ConsumedOnce
<1>7. NoneLost'
  BY <1>1, <1>2, <1>3 DEF Places, NoneLost, Placed
<1>8. Current'
  BY <1>1, <1>3 DEF Newest, Current
<1>9. Superseded'
  BY Zenon, <1>1, <1>2, <1>4 DEF Newest, Superseded, Places, SlotsApart
<1> QED BY Zenon, <1>5, <1>6, <1>7, <1>8, <1>9 DEF Places, Newest

\* A node that is consumed is gone; one that is not to be notified was
\* superseded.
LEMMA ConsumedKeeps ==
    ASSUME NodesOK, Places, Newest, Consumed, UNCHANGED <<slots, retired, registered>>
    PROVE  Places' /\ Newest'
<1>1. /\ hand # None /\ hand' = None /\ issued' = issued
      /\ hand.notify => woken' = woken \cup {hand.id} /\ discarded' = discarded
      /\ ~hand.notify => discarded' = discarded \cup {hand.id} /\ woken' = woken
  BY Zenon DEF Consumed
<1>2. R' = R /\ Gone' = Gone \cup {hand.id}
  BY Zenon, <1>1 DEF R, Gone
<1>3. hand.id # 0 /\ hand'.id = 0 /\ hand'.notify = FALSE
  BY Zenon, <1>1, NodeFacts DEF NodesOK
<1>4. SlotsApart'
  BY <1>1, <1>2, <1>3, NodeFacts DEF Places, SlotsApart, NodesOK
<1>5. HandApart' /\ RetiredApart' /\ ConsumedOnce'
  BY Zenon, <1>1, <1>2 DEF Places, RetiredApart, HandApart, ConsumedOnce, Gone
<1>6. NoneLost'
  BY Zenon, <1>1, <1>2 DEF Places, NoneLost, Placed
<1>7. Current'
  BY Zenon, <1>1, <1>3 DEF Newest, Current, Superseded
<1>8. Superseded'
  BY Zenon, <1>1, <1>2, <1>3 DEF Newest, Superseded
<1> QED BY Zenon, <1>4, <1>5, <1>6, <1>7, <1>8 DEF Places, Newest

LEMMA LinkedElems ==
    ASSUME NEW n \in Nodes \cup {None}, NEW q \in Seq(Nodes)
    PROVE  /\ Elems(Linked(n) \o q) = Elems(q) \cup ({n} \ {None})
           /\ Distinct(q) /\ (n # None => \A m \in Elems(q) : m.id # n.id)
                => Distinct(Linked(n) \o q)
<1>1. CASE n = None
  BY Zenon, <1>1, LinkedOK
<1>2. CASE n # None
  <2>1. n \in Nodes /\ Linked(n) \o q = <<n>> \o q /\ {n} \ {None} = {n}
    BY Zenon, <1>2, LinkedOK
  <2> QED BY Zenon, <1>2, <2>1, Pushed
<1> QED BY Zenon, <1>1, <1>2

\* close_and_drain retires both slots.
LEMMA CloseKeeps ==
    ASSUME NodesOK, Places, Newest, close
    PROVE  Places' /\ Newest'
<1> DEFINE q == Linked(slots[0]) \o retired
<1>1. /\ hand = None /\ slots' = [s \in Slots |-> None]
      /\ retired' = Linked(slots[1]) \o q
      /\ UNCHANGED <<hand, issued, woken, discarded, registered>>
  BY Zenon DEF close, At, pollVars, historyVars
<1>2. /\ slots[0] \in Nodes \cup {None} /\ slots[1] \in Nodes \cup {None}
      /\ retired \in Seq(Nodes) /\ 0 \in Slots /\ 1 \in Slots
  BY Zenon DEF NodesOK, Slots
<1>3. q \in Seq(Nodes)
  BY Zenon, <1>2, LinkedOK
<1>4. Elems(q) = R \cup ({slots[0]} \ {None}) /\ Distinct(q)
  BY Zenon, <1>2, LinkedElems DEF R, Places, SlotsApart, RetiredApart
<1> HIDE DEF q
<1>5. slots[1] # None => \A m \in Elems(q) : m.id # slots[1].id
  BY Zenon, <1>2, <1>4 DEF Places, SlotsApart
<1>6. R' = Elems(q) \cup ({slots[1]} \ {None}) /\ Distinct(retired')
  BY Zenon, <1>1, <1>2, <1>3, <1>4, <1>5, LinkedElems DEF R
<1>7. \A n : n \in R' <=> n \in R \/ (n # None /\ \E s \in Slots : n = slots[s])
  BY Zenon, <1>4, <1>6 DEF Slots
<1>8. Gone' = Gone /\ hand.id = 0 /\ \A s \in Slots : slots'[s] = None
  BY Zenon, <1>1, NodeFacts DEF Gone
<1>9. SlotsApart' /\ HandApart' /\ ConsumedOnce'
  BY ZenonT(30), <1>1, <1>2, <1>8 DEF Places, SlotsApart, HandApart, ConsumedOnce
<1>10. RetiredApart'
  BY <1>1, <1>6, <1>7, <1>8 DEF Places, SlotsApart, RetiredApart
<1>11. NoneLost'
  <2> SUFFICES ASSUME NEW i \in 1 .. issued PROVE Placed(i)'
    BY Zenon, <1>1 DEF NoneLost
  <2>1. Placed(i)
    BY Zenon DEF Places, NoneLost
  <2>2. ASSUME NEW s \in Slots, slots[s].id = i PROVE Placed(i)'
    <3>1. i # 0 /\ slots[s] # None
      BY <2>2, NodeFacts
    <3>2. slots[s] \in R'
      BY Zenon, <1>7, <3>1
    <3> QED BY Zenon, <2>2, <3>2 DEF Placed
  <2> QED BY Zenon, <1>1, <1>7, <1>8, <2>1, <2>2 DEF Placed
<1>12. Current'
  BY Zenon, <1>1, <1>8 DEF Newest, Current
<1>13. Superseded'
  <2>1. \A n \in R' : n \in R \/ n.notify
    BY <1>7 DEF Places, SlotsApart
  <2> QED BY Zenon, <1>1, <2>1 DEF Newest, Superseded
<1> QED BY Zenon, <1>9, <1>10, <1>11, <1>12, <1>13 DEF Places, Newest

\* A new Waker takes its slot, and its predecessor there is retired without a
\* wake, or it is retired itself.
LEMMA CloneKeeps ==
    ASSUME ControlOK, NodesOK, Places, Newest, Polls, CloneReturns
    PROVE  Places' /\ Newest'
<1> DEFINE node == [slot |-> polled, id |-> issued + 1, notify |-> TRUE]
           dropped == [slots[polled] EXCEPT !.notify = FALSE]
<1>1. /\ node \in Nodes /\ node.id = issued + 1 /\ node.notify
      /\ issued \in Nat /\ issued' = issued + 1
      /\ polled \in Slots /\ 0 \in Slots /\ 1 \in Slots
  BY Zenon, NewNode DEF ControlOK, Slots
<1>2. /\ registered' = [registered EXCEPT ![polled] = issued + 1]
      /\ UNCHANGED <<hand, woken, discarded>>
      /\ accepting => /\ slots' = [slots EXCEPT ![polled] = node]
                      /\ slots[polled] = None => retired' = retired
                      /\ slots[polled] # None => retired' = <<dropped>> \o retired
      /\ ~accepting => slots' = slots /\ retired' = <<node>> \o retired
  BY Zenon DEF CloneReturns
<1>3. slots[polled] # None => /\ dropped \in Nodes /\ dropped.id = slots[polled].id
                              /\ dropped.notify = FALSE
  BY Zenon, <1>1, NodeFacts DEF NodesOK
<1> HIDE DEF node, dropped
<1>4. /\ \A s \in Slots : slots[s].id \in 0 .. issued /\ (slots[s] = None => slots[s].id = 0)
                          /\ (slots[s] # None => slots[s] \in Nodes /\ slots[s].id # 0)
      /\ hand.id \in 0 .. issued /\ \A n \in R : n.id \in 1 .. issued
      /\ \A i \in Gone : i \in 1 .. issued
  BY <1>1, NodeFacts DEF NodesOK, Places, SlotsApart, HandApart, RetiredApart, ConsumedOnce, Gone
<1>5. Gone' = Gone /\ ConsumedOnce'
  BY <1>1, <1>2 DEF Gone, Places, ConsumedOnce
<1>8. registered'[polled] = issued + 1 /\ \A s \in Slots : s # polled => registered'[s] = registered[s]
  BY Zenon, <1>1, <1>2 DEF ControlOK
<1>9. Current'
  <2>1. /\ accepting => slots'[polled] = node
        /\ ~accepting => \A s \in Slots : slots'[s] = None
        /\ \A s \in Slots : s # polled => slots'[s] = slots[s]
    BY Zenon, <1>1, <1>2 DEF NodesOK, Polls, WorkerFacts
  <2>2. \A s \in Slots : registered[s] \in 0 .. issued
    BY <1>1 DEF ControlOK, Newest, Current
  <2>3. \A s \in Slots : registered'[s] <= issued' /\ registered'[s] \notin discarded'
    BY <1>1, <1>2, <1>4, <1>8, <2>2 DEF Newest, Current, Gone
  <2>4. registered'[0] = registered'[1] => registered'[0] = 0
    BY <1>1, <1>8, <2>2 DEF Slots
  <2>5. \A s, u \in Slots : slots'[s] # None /\ registered'[u] # 0
                              => (slots'[s].id = registered'[u] <=> s = u)
    BY <1>1, <1>4, <1>8, <2>1, <2>2 DEF Newest, Current
  <2> QED BY Zenon, <2>3, <2>4, <2>5 DEF Current
<1>6. CASE accepting /\ slots[polled] = None
  <2>1. R' = R /\ slots'[polled] = node /\ \A s \in Slots : s # polled => slots'[s] = slots[s]
    BY Zenon, <1>1, <1>2, <1>6 DEF R, NodesOK
  <2>2. SlotsApart'
    BY <1>1, <1>2, <1>4, <1>5, <2>1 DEF Places, SlotsApart, Slots
  <2>3. HandApart' /\ RetiredApart'
    BY <1>1, <1>2, <1>4, <1>5, <1>6, <2>1 DEF Places, HandApart, RetiredApart
  <2>4. NoneLost'
    BY <1>1, <1>2, <1>4, <1>5, <1>6, <2>1 DEF Places, NoneLost, Placed
  <2>5. Superseded'
    BY <1>1, <1>2, <1>4, <2>1 DEF Newest, Superseded
  <2> QED BY Zenon, <1>5, <1>9, <2>2, <2>3, <2>4, <2>5 DEF Places, Newest
<1>7. CASE accepting /\ slots[polled] # None
  <2>1. slots'[polled] = node /\ \A s \in Slots : s # polled => slots'[s] = slots[s]
    BY Zenon, <1>1, <1>2, <1>7 DEF NodesOK
  <2>2. R' = R \cup {dropped} /\ Distinct(retired') /\ \A n \in R : n.id # dropped.id
    <3>1. \A n \in R : n.id # dropped.id
      BY Zenon, <1>1, <1>3, <1>7 DEF Places, SlotsApart
    <3>2. retired \in Seq(Nodes) /\ dropped \in Nodes /\ retired' = <<dropped>> \o retired
          /\ Distinct(retired)
      BY Zenon, <1>2, <1>3, <1>7 DEF NodesOK, Places, RetiredApart
    <3> QED BY Zenon, <3>1, <3>2, Pushed DEF R
  <2>3. dropped.id = slots[polled].id /\ dropped.id \in 1 .. issued /\ dropped.id \notin Gone
        /\ dropped.id # hand.id /\ \A s \in Slots : s # polled => slots[s].id # dropped.id
    BY ZenonT(30), <1>1, <1>3, <1>4, <1>7 DEF Places, SlotsApart, Slots
  <2>4. SlotsApart'
    BY SMTT(20), <1>1, <1>2, <1>4, <1>5, <2>1, <2>2, <2>3 DEF Places, SlotsApart, Slots
  <2>5. HandApart' /\ RetiredApart'
    BY <1>1, <1>2, <1>4, <1>5, <2>2, <2>3 DEF Places, HandApart, RetiredApart
  <2>6. NoneLost'
    <3> SUFFICES ASSUME NEW i \in 1 .. issued' PROVE Placed(i)'
      BY Zenon DEF NoneLost
    <3>1. CASE i = issued + 1
      BY Zenon, <1>1, <2>1, <3>1 DEF Placed
    <3>2. CASE i # issued + 1
      <4>1. Placed(i)
        BY <1>1, <3>2 DEF Places, NoneLost
      <4>2. ASSUME NEW s \in Slots, slots[s].id = i PROVE Placed(i)'
        <5>1. CASE s = polled
          BY Zenon, <2>2, <2>3, <4>2, <5>1 DEF Placed
        <5>2. CASE s # polled
          BY Zenon, <2>1, <4>2, <5>2 DEF Placed
        <5> QED BY Zenon, <5>1, <5>2
      <4> QED BY Zenon, <1>2, <1>5, <2>2, <4>1, <4>2 DEF Placed
    <3> QED BY Zenon, <3>1, <3>2
  <2>7. Superseded'
    BY <1>1, <1>2, <1>4, <1>7, <1>8, <2>2, <2>3 DEF Newest, Superseded, Current
  <2> QED BY Zenon, <1>5, <1>9, <2>4, <2>5, <2>6, <2>7 DEF Places, Newest
<1>10. CASE ~accepting
  <2>1. slots' = slots /\ \A s \in Slots : slots[s] = None
    BY Zenon, <1>2, <1>10 DEF Polls, WorkerFacts
  <2>2. R' = R \cup {node} /\ Distinct(retired')
    <3>1. \A n \in R : n.id # node.id
      BY <1>1, <1>4
    <3> QED BY ZenonT(30), <1>1, <1>2, <1>10, <3>1, Pushed DEF R, NodesOK, Places, RetiredApart
  <2>3. SlotsApart'
    BY Zenon, <1>1, <2>1 DEF SlotsApart
  <2>4. HandApart' /\ RetiredApart'
    BY <1>1, <1>2, <1>4, <1>5, <2>2 DEF Places, HandApart, RetiredApart
  <2>5. NoneLost'
    BY <1>1, <1>2, <1>4, <1>5, <2>1, <2>2 DEF Places, NoneLost, Placed
  <2>6. Superseded'
    BY <1>1, <1>2, <1>4, <1>8, <2>2 DEF Newest, Superseded
  <2> QED BY Zenon, <1>5, <1>9, <2>3, <2>4, <2>5, <2>6 DEF Places, Newest
<1> QED BY Zenon, <1>6, <1>7, <1>10

LEMMA PlacesStep ==
    ASSUME ControlOK, NodesOK, Places, Newest, Polls, Next
    PROVE  Places' /\ Newest'
<1>1. CASE UNCHANGED <<slots, retired, hand, issued, woken, discarded>>
  <2>1. R' = R /\ Gone' = Gone
    BY Zenon, <1>1 DEF R, Gone
  <2>2. SlotsApart' /\ HandApart' /\ RetiredApart' /\ ConsumedOnce'
    BY Zenon, <1>1, <2>1 DEF Places, SlotsApart, HandApart, RetiredApart, ConsumedOnce
  <2>3. NoneLost'
    BY Zenon, <1>1, <2>1 DEF Places, NoneLost, Placed
  <2>4. CASE registered' = registered
    BY Zenon, <1>1, <2>1, <2>2, <2>3, <2>4 DEF Places, Newest, Current, Superseded
  <2>5. CASE registered' = [registered EXCEPT ![polled] = 0]
    <3>1. \A s \in Slots : registered'[s] = 0 \/ registered'[s] = registered[s]
      BY Zenon, <2>5 DEF ControlOK
    <3>2. 0 \notin discarded /\ 0 <= issued
      BY DEF Places, ConsumedOnce, ControlOK
    <3>3. Current'
      BY Zenon, <1>1, <3>1, <3>2 DEF Newest, Current, Slots
    <3>4. Superseded'
      BY Zenon, <1>1, <2>1, <3>1 DEF Newest, Superseded
    <3> QED BY Zenon, <2>2, <2>3, <3>3, <3>4 DEF Places, Newest
  <2>6. registered' = registered \/ registered' = [registered EXCEPT ![polled] = 0] \/ CloneReturns
    BY Zenon DEF Next, PollStep, Worker, Bump, FutexWake, PeerMoves, Poll, Abort, Drop, CheckFailure,
       Progress, WouldBlock, register, ClonePanics, LoopCondition, Sample, CheckStopped, TakeSlot,
       TakeRetired, consume, ConsumePanics, FutexWait, FutexError, Failing, close, drain, Timeout,
       pollVars
  <2> QED BY Zenon, <2>4, <2>5, <2>6, CloneKeeps
<1>2. CASE TakeRetired \/ drain
  <2>1. /\ hand = None /\ UNCHANGED <<slots, issued, woken, discarded, registered>>
        /\ \/ UNCHANGED <<hand, retired>>
           \/ retired # <<>> /\ hand' = Head(retired) /\ retired' = Tail(retired)
    BY Zenon, <1>2 DEF TakeRetired, drain, At, historyVars, pollVars
  <2> QED BY Zenon, <1>1, <2>1, TakenKeeps
<1>3. \/ UNCHANGED <<slots, retired, hand, issued, woken, discarded>>
      \/ CloneReturns \/ TakeRetired \/ drain \/ close
      \/ \E s \in Slots : TakeSlot(s)
      \/ Consumed /\ UNCHANGED <<slots, retired, registered>>
  BY Zenon DEF Next, PollStep, Worker, Bump, FutexWake, PeerMoves, Poll, Abort, Drop, CheckFailure,
     Progress, WouldBlock, register, ClonePanics, LoopCondition, Sample, CheckStopped, consume,
     ConsumePanics, FutexWait, FutexError, Failing, Timeout, registrationVars, workerVars,
     historyVars, pollVars
<1> QED BY Zenon, <1>1, <1>2, <1>3, CloneKeeps, TakeSlotKeeps, CloseKeeps, ConsumedKeeps

-----------------------------------------------------------------------------
LEMMA PollFactsStep ==
    ASSUME ControlOK, Polls, Next
    PROVE  PollFacts'
<1> USE DEF PollFacts
<1>0. failed => failed'
  BY Zenon DEF Next, PollStep, Worker, Bump, FutexWake, PeerMoves, Poll, Abort, Drop, CheckFailure,
     Progress, WouldBlock, register, CloneReturns, ClonePanics, LoopCondition, Sample, CheckStopped,
     TakeSlot, TakeRetired, consume, ConsumePanics, FutexWait, FutexError, Failing, close, drain,
     Timeout, mappingVars
<1>1. PollFacts
  BY Zenon DEF Polls
<1>2. CASE UNCHANGED <<cloning, poll, polled, issued, stopped, registered, pending>>
  BY Zenon, <1>0, <1>1, <1>2
<1>3. ASSUME NEW s \in Uses, Poll(s) PROVE PollFacts'
  BY Zenon, <1>1, <1>3 DEF Poll, registrationVars, historyVars
<1>4. CASE CheckFailure
  BY Zenon, <1>1, <1>4 DEF CheckFailure, registrationVars, historyVars
<1>5. CASE Progress
  BY Zenon, <1>1, <1>5 DEF Progress, registrationVars, historyVars
<1>6. CASE WouldBlock
  BY Zenon, <1>1, <1>6 DEF WouldBlock, registrationVars, historyVars
<1>7. CASE register
  <2>1. poll = "register" /\ ~stopped /\ (accepting \/ failed)
    BY Zenon, <1>1, <1>7 DEF register, Polls, WorkerFacts
  <2>2. registered'[polled] = 0 /\ \A s \in Slots : s # polled => registered'[s] = registered[s]
    BY Zenon, <1>7 DEF register, ControlOK
  <2>3. pending \subseteq Slots
    BY Zenon DEF ControlOK
  <2> QED BY <1>0, <1>1, <1>7, <2>1, <2>2, <2>3 DEF register, historyVars
<1>8. CASE CloneReturns
  <2>1. /\ poll = "clone" /\ poll' = "recheck" /\ cloning' = cloning - 1
        /\ UNCHANGED <<stopped, polled, pending>> /\ issued \in 0 .. MaxRegistrations
    BY Zenon, <1>8 DEF CloneReturns, Release, ControlOK
  <2>2. registered'[polled] # 0 /\ \A s \in Slots : s # polled => registered'[s] = registered[s]
    BY <1>8, <2>1, RegistrationsAssumption DEF CloneReturns, ControlOK
  <2>3. pending \subseteq Slots
    BY DEF ControlOK
  <2> QED BY <1>1, <2>1, <2>2, <2>3
<1>9. CASE ClonePanics
  BY <1>1, <1>9 DEF ClonePanics, Release, historyVars
<1>10. CASE Drop
  BY Zenon, <1>1, <1>10 DEF Drop, pollVars, registrationVars, historyVars
<1>11. \/ UNCHANGED <<cloning, poll, polled, issued, stopped, registered, pending>>
       \/ \E s \in Uses : Poll(s)
       \/ PollStep \/ Drop
  BY Zenon DEF Next, Worker, Bump, FutexWake, PeerMoves, Abort, LoopCondition, Sample, CheckStopped,
     TakeSlot, TakeRetired, consume, ConsumePanics, Consumed, FutexWait, FutexError, Failing, close,
     drain, Timeout, pollVars, registrationVars, historyVars
<1> QED BY Zenon, <1>2, <1>3, <1>4, <1>5, <1>6, <1>7, <1>8, <1>9, <1>10, <1>11 DEF PollStep

LEMMA WorkerFactsStep ==
    ASSUME ControlOK, NodesOK, Polls, Next
    PROVE  WorkerFacts'
<1> USE DEF WorkerFacts, Closing
<1>1. WorkerFacts /\ PollFacts
  BY Zenon DEF Polls
<1>2. CASE UNCHANGED <<accepting, slots, retired, hand, cloning>> /\ (stopped => stopped')
           /\ (failed => failed') /\ monitor' = monitor
  BY Zenon, <1>1, <1>2 DEF R
<1>3. ASSUME UNCHANGED <<accepting, slots, retired, cloning>>, hand' \in {hand, None},
             stopped => stopped', failed => failed',
             monitor' \notin Closing, monitor \notin Closing,
             monitor' \in {"failing", "close"} => stopped' \/ failed',
             hand' # None => monitor' = monitor
      PROVE  WorkerFacts'
  <2>1. R' = R
    BY Zenon, <1>3 DEF R
  <2> QED BY Zenon, <1>1, <1>3, <2>1
<1>4. ASSUME NEW a \in Agents, FutexWake(a) PROVE WorkerFacts'
  <2>1. CASE monitor # "asleep"
    BY Zenon, <1>2, <1>4, <2>1 DEF FutexWake, registrationVars
  <2>2. CASE monitor = "asleep"
    <3>1. hand = None
      BY Zenon, <1>1, <2>2
    <3> QED BY Zenon, <1>3, <1>4, <2>2, <3>1 DEF FutexWake, registrationVars
  <2> QED BY Zenon, <2>1, <2>2
<1>5. CASE register
  <2>1. /\ UNCHANGED <<accepting, slots, retired, hand, stopped, failed, monitor>>
        /\ ~accepting => cloning' = cloning
    BY Zenon, <1>5 DEF register, workerVars, mappingVars
  <2>2. R' = R
    BY Zenon, <2>1 DEF R
  <2> QED BY Zenon, <1>1, <2>1, <2>2
<1>6. CASE ClonePanics
  <2>1. /\ UNCHANGED <<accepting, slots, retired, hand, stopped, failed>> /\ monitor # "done"
        /\ monitor' = IF monitor = "waiting" THEN "drain" ELSE monitor
    BY <1>1, <1>6 DEF PollFacts, ClonePanics, Release, mappingVars
  <2>2. R' = R
    BY Zenon, <2>1 DEF R
  <2> QED BY Zenon, <1>1, <2>1, <2>2
<1>7. CASE CloneReturns
  <2> DEFINE dropped == [slots[polled] EXCEPT !.notify = FALSE]
  <2>1. /\ UNCHANGED <<accepting, hand, stopped, failed>> /\ monitor # "done"
        /\ monitor' = IF monitor = "waiting" THEN "drain" ELSE monitor
        /\ ~accepting => slots' = slots
    BY <1>1, <1>7 DEF PollFacts, CloneReturns, Release, mappingVars
  <2>2. ASSUME accepting PROVE \A n \in R' : ~n.notify
    <3>1. CASE slots[polled] = None
      BY Zenon, <1>1, <1>7, <2>2, <3>1 DEF R, CloneReturns
    <3>2. CASE slots[polled] # None
      <4>1. dropped \in Nodes /\ dropped.notify = FALSE /\ retired \in Seq(Nodes)
        BY Zenon, <3>2, NodeFacts DEF ControlOK, NodesOK
      <4>2. retired' = <<dropped>> \o retired
        BY Zenon, <1>7, <2>2, <3>2 DEF CloneReturns
      <4> HIDE DEF dropped
      <4>3. R' = R \cup {dropped}
        BY Zenon, <4>1, <4>2, Pushed DEF R
      <4> QED BY Zenon, <1>1, <2>2, <4>1, <4>3
    <3> QED BY Zenon, <3>1, <3>2
  <2> QED BY ZenonT(30), <1>1, <2>1, <2>2
<1>8. CASE LoopCondition
  BY Zenon, <1>3, <1>8 DEF LoopCondition, At, registrationVars, mappingVars
<1>9. CASE Sample
  BY Zenon, <1>3, <1>9 DEF Sample, At, registrationVars
<1>10. CASE CheckStopped
  BY Zenon, <1>3, <1>10 DEF CheckStopped, At, registrationVars, mappingVars
<1>11. ASSUME NEW s \in Slots, TakeSlot(s) PROVE WorkerFacts'
  <2>1. /\ UNCHANGED <<accepting, retired, cloning, stopped, failed>>
        /\ monitor \in {"slot0", "slot1"} /\ monitor' \in {"slot1", "retired"}
    BY <1>11 DEF TakeSlot, At, Slots, mappingVars
  <2>2. R' = R
    BY Zenon, <2>1 DEF R
  <2> QED BY Zenon, <1>1, <2>1, <2>2
<1>12. CASE TakeRetired \/ drain
  <2>1. /\ UNCHANGED <<accepting, slots, cloning, stopped, failed>> /\ hand = None
        /\ monitor \in {"retired", "drain"}
        /\ \/ /\ UNCHANGED <<hand, retired>>
              /\ monitor = "retired" => monitor' = "wait"
              /\ monitor = "drain" => monitor' \in {"done", "waiting"}
              /\ monitor' = "done" => retired = <<>> /\ cloning = 0
           \/ UNCHANGED monitor /\ retired # <<>> /\ retired' = Tail(retired)
    BY Zenon, <1>12 DEF TakeRetired, drain, At, mappingVars
  <2>2. \A n \in R' : n \in R
    BY Zenon, <2>1, Popped DEF R, NodesOK
  <2> QED BY Zenon, <1>1, <2>1, <2>2
<1>13. CASE consume
  <2>1. /\ UNCHANGED <<accepting, slots, retired, cloning, stopped, failed, monitor>> /\ hand' = None
    BY Zenon, <1>13 DEF consume, Consumed, registrationVars, mappingVars
  <2>2. R' = R
    BY Zenon, <2>1 DEF R
  <2> QED BY Zenon, <1>1, <2>1, <2>2
<1>14. CASE ConsumePanics
  <2>1. /\ UNCHANGED <<accepting, slots, retired, cloning, stopped>> /\ hand # None /\ hand' = None
        /\ failed' = TRUE
        /\ monitor' = IF monitor = "drain" THEN "drain" ELSE "failing"
    BY Zenon, <1>14 DEF ConsumePanics, Consumed, registrationVars
  <2>2. R' = R
    BY Zenon, <2>1 DEF R
  <2> QED BY Zenon, <1>1, <2>1, <2>2
<1>15. CASE FutexWait \/ Timeout
  BY Zenon, <1>3, <1>15 DEF FutexWait, Timeout, At, registrationVars, mappingVars
<1>16. CASE FutexError \/ Failing
  BY Zenon, <1>3, <1>16 DEF FutexError, Failing, At, registrationVars
<1>17. CASE close
  <2>1. /\ UNCHANGED <<hand, stopped, failed>> /\ hand = None /\ accepting' = FALSE
        /\ monitor = "close" /\ monitor' = "drain" /\ slots' = [s \in Slots |-> None]
    BY Zenon, <1>17 DEF close, At, mappingVars
  <2> QED BY Zenon, <1>1, <2>1
<1>18. ASSUME NEW s \in Uses, PeerMoves(s) \/ Poll(s) PROVE WorkerFacts'
  BY Zenon, <1>2, <1>18 DEF PeerMoves, Poll, registrationVars, workerVars, mappingVars
<1>19. CASE Abort \/ Drop \/ CheckFailure \/ Progress \/ WouldBlock
  BY Zenon, <1>2, <1>19 DEF Abort, Drop, CheckFailure, Progress, WouldBlock, registrationVars, workerVars,
     mappingVars
<1>20. ASSUME NEW a \in Agents, Bump(a) PROVE WorkerFacts'
  BY Zenon, <1>2, <1>20 DEF Bump, registrationVars, workerVars
<1> QED BY Zenon, <1>4, <1>5, <1>6, <1>7, <1>8, <1>9, <1>10, <1>11, <1>12, <1>13, <1>14, <1>15,
           <1>16, <1>17, <1>18, <1>19, <1>20 DEF Next, PollStep, Worker

-----------------------------------------------------------------------------
\* A Waker that is due is in its slot when the monitor comes there.
LEMMA DueIsInSlot ==
    ASSUME ControlOK, NodesOK, Places, Newest, Polls, hand = None, accepting,
           NEW s \in Slots, Due(s), registered[s] \notin woken
    PROVE  slots[s].id = registered[s] /\ registered[s] # 0
<1>1. registered[s] # 0 /\ registered[s] \in 1 .. issued /\ registered[s] \notin discarded
  BY DEF Due, Polls, PollFacts, ControlOK, Newest, Current
<1>2. hand.id = 0
  BY Zenon, NodeFacts
<1>3. ~\E n \in R : n.id = registered[s]
  BY Zenon, <1>1 DEF Polls, WorkerFacts, Newest, Superseded
<1>4. PICK u \in Slots : slots[u].id = registered[s]
  BY Zenon, <1>1, <1>2, <1>3 DEF Places, NoneLost, Placed, Gone
<1>5. slots[u] # None
  BY Zenon, <1>1, <1>4, NodeFacts
<1> QED BY Zenon, <1>1, <1>4, <1>5 DEF Newest, Current

\* Steps that leave alone what the wake-ups depend on, but for fewer polls
\* being due.
LEMMA WakesKept ==
    ASSUME Wakes, UNCHANGED <<notifying, moved, stopped, hand, woken>>,
           monitor' = monitor \/ monitor' \in Awake,
           \A s \in Slots : Due(s)' => Due(s) /\ registered'[s] = registered[s]
    PROVE  Wakes'
<1>1. Bumping' = Bumping /\ Waking' = Waking
  BY Zenon DEF Bumping, Waking
<1>2. CASE monitor' = monitor
  <2>1. Roused' = Roused /\ \A s \in Slots : registered'[s] = registered[s] => (Seen(s)' = Seen(s))
    BY Zenon, <1>1, <1>2 DEF Roused, Seen
  <2> QED BY Zenon, <1>2, <2>1 DEF Wakes
<1>3. CASE monitor' \in Awake
  BY Zenon, <1>3 DEF Wakes, Seen
<1> QED BY Zenon, <1>2, <1>3

LEMMA RousedIsEnough == Roused' => Wakes'
BY Zenon DEF Wakes, Seen

LEMMA NotifyRouses ==
    ASSUME MappingOK, NEW a \in Agents, Notify(a)
    PROVE  Roused'
<1>1. notifying'[a] = "bump"
  BY Zenon DEF MappingOK, Notify
<1> QED BY Zenon, <1>1 DEF Roused, Bumping

\* The polls and their callers.
LEMMA PollWakes ==
    ASSUME MappingOK, ControlOK, Polls, Wakes,
           PollStep \/ (\E s \in Uses : Poll(s)) \/ Drop
    PROVE  Wakes'
<1> USE DEF mappingVars, pollVars, workerVars, registrationVars, historyVars
<1>0. {"peer", "stream", "aborter", "worker"} \subseteq Agents
  BY Zenon DEF Agents
<1>a. PollFacts /\ polled \in Slots /\ registered \in [Slots -> 0 .. MaxRegistrations]
  BY Zenon DEF Polls, ControlOK
<1>b. {"drain", "waiting"} \subseteq Awake
  BY Zenon DEF Awake
<1>1. ASSUME NEW s \in Uses, Poll(s) PROVE Wakes'
  BY Zenon, <1>1, WakesKept DEF Poll, Due
<1>2. CASE CheckFailure
  BY Zenon, <1>2, WakesKept DEF CheckFailure, Due
<1>3. CASE Progress
  <2>1. CASE UNCHANGED <<ready, notifying>>
    BY Zenon, <1>3, <2>1, WakesKept DEF Progress, Due
  <2>2. CASE Notify("stream")
    BY Zenon, <1>0, <2>2, NotifyRouses, RousedIsEnough
  <2> QED BY Zenon, <1>3, <2>1, <2>2 DEF Progress
<1>4. CASE WouldBlock
  <2>1. \A s \in Slots : Due(s)' => Due(s)
    BY Zenon, <1>4 DEF WouldBlock, Due
  <2> QED BY Zenon, <1>4, <2>1, WakesKept DEF WouldBlock
<1>5. CASE register
  <2>1. \A s \in Slots : Due(s)' => s \in pending /\ Due(s)
    BY Zenon, <1>5 DEF register, Due
  <2>2. polled \notin pending /\ \A s \in Slots : s # polled => registered'[s] = registered[s]
    BY Zenon, <1>a, <1>5 DEF register, PollFacts
  <2> QED BY Zenon, <1>5, <2>1, <2>2, WakesKept DEF register
<1>6. CASE CloneReturns
  <2>1. \A s \in Slots : Due(s)' => s \in pending /\ Due(s)
    BY Zenon, <1>6 DEF CloneReturns, Due
  <2>2. polled \notin pending /\ \A s \in Slots : s # polled => registered'[s] = registered[s]
    BY Zenon, <1>a, <1>6 DEF CloneReturns, PollFacts
  <2>3. monitor' = monitor \/ monitor' \in Awake
    BY Zenon, <1>b, <1>6 DEF CloneReturns, Release
  <2> QED BY Zenon, <1>6, <2>1, <2>2, <2>3, WakesKept DEF CloneReturns
<1>7. CASE ClonePanics
  <2>1. \A s \in Slots : Due(s)' => Due(s)
    BY Zenon, <1>7 DEF ClonePanics, Due
  <2>2. monitor' = monitor \/ monitor' \in Awake
    BY Zenon, <1>b, <1>7 DEF ClonePanics, Release
  <2> QED BY Zenon, <1>7, <2>1, <2>2, WakesKept DEF ClonePanics
<1>8. CASE Drop
  BY Zenon, <1>0, <1>8, NotifyRouses, RousedIsEnough DEF Drop
<1> QED BY Zenon, <1>1, <1>2, <1>3, <1>4, <1>5, <1>6, <1>7, <1>8 DEF PollStep

\* The worker, which takes a Waker in hand on its way from the sample to the
\* sleep if its event fell before that.
LEMMA WorkerWakes ==
    ASSUME MappingOK, ControlOK, NodesOK, Places, Newest, Polls, Wakes, Worker \/ Timeout
    PROVE  Wakes'
<1> USE DEF mappingVars, pollVars, workerVars, registrationVars, historyVars
<1>0. "worker" \in Agents
  BY Zenon DEF Agents
<1>1. CASE ConsumePanics \/ FutexError \/ Failing
  BY Zenon, <1>0, <1>1, NotifyRouses, RousedIsEnough DEF ConsumePanics, FutexError, Failing
<1>2. ASSUME UNCHANGED <<stopped, notifying, pollVars, ready, failed, woken>>,
             monitor' \in Awake
      PROVE  Wakes'
  BY Zenon, <1>2 DEF Wakes, Seen
<1>3. CASE LoopCondition \/ Sample \/ Timeout \/ close
  BY Zenon, <1>2, <1>3 DEF LoopCondition, Sample, Timeout, close, Awake
<1>4. CASE CheckStopped
  <2>1. CASE stopped
    BY Zenon, <1>2, <1>4, <2>1 DEF CheckStopped, Awake
  <2>2. CASE ~stopped
    BY Zenon, <1>4, <2>2 DEF CheckStopped, Wakes, Seen
  <2> QED BY Zenon, <2>1, <2>2
\* Past the sample the progress word has moved, or is about to.
<1>5. ASSUME UNCHANGED <<stopped, notifying, moved, ready, failed, poll, polled, pending, registered, woken>>,
             monitor \notin Awake, monitor # "asleep", monitor' # "asleep",
             \A s \in Slots : Due(s) /\ ~stopped /\ registered[s] \notin woken =>
                Roused \/ hand'.id = registered[s] \/ (monitor' = "slot1" /\ s = 1)
      PROVE  Wakes'
  <2>1. Roused => Roused'
    BY Zenon, <1>5 DEF Roused, Bumping
  <2>2. \A s \in Slots : Due(s)' => Due(s)
    BY Zenon, <1>5 DEF Due
  <2> QED BY Zenon, <1>5, <2>1, <2>2 DEF Wakes, Seen
<1>6. ASSUME NEW s \in Slots, TakeSlot(s) PROVE Wakes'
  <2>1. /\ hand = None /\ hand' = slots[s]
        /\ UNCHANGED <<stopped, notifying, moved, ready, failed, poll, polled, pending, registered, woken>>
    BY Zenon, <1>6 DEF TakeSlot, At
  <2>2. \/ s = 0 /\ monitor = "slot0" /\ monitor' = "slot1"
        \/ s = 1 /\ monitor = "slot1" /\ monitor' = "retired"
    <3>1. monitor = <<"slot0", "slot1">>[s + 1] /\ monitor' = <<"slot1", "retired">>[s + 1]
      BY Zenon, <1>6 DEF TakeSlot, At
    <3> QED BY <3>1 DEF Slots
  <2>3. accepting /\ monitor \notin Awake /\ monitor # "asleep" /\ monitor' # "asleep"
    BY Zenon, <2>2 DEF Polls, WorkerFacts, Awake, Closing
  <2>4. Due(s) /\ registered[s] \notin woken => hand'.id = registered[s]
    BY Zenon, <2>1, <2>3, DueIsInSlot
  <2>5. ASSUME NEW u \in Slots, u # s, Due(u), ~stopped, registered[u] \notin woken
        PROVE  Roused \/ (monitor' = "slot1" /\ u = 1)
    <3>1. CASE s = 0
      BY Zenon, <2>2, <2>5, <3>1 DEF Slots
    <3>2. CASE s = 1
      <4>1. hand.id # registered[u]
        BY Zenon, <2>1, <2>3, <2>5, DueIsInSlot, NodeFacts
      <4> QED BY Zenon, <2>2, <2>3, <2>5, <3>2, <4>1 DEF Wakes, Seen, Slots
    <3> QED BY Zenon, <3>1, <3>2 DEF Slots
  <2> QED BY Zenon, <1>5, <2>1, <2>3, <2>4, <2>5
<1>7. CASE TakeRetired
  <2>1. /\ hand = None /\ monitor = "retired" /\ monitor' \in {"retired", "wait"}
        /\ UNCHANGED <<stopped, notifying, moved, ready, failed, poll, polled, pending, registered, woken>>
    BY Zenon, <1>7 DEF TakeRetired, At
  <2>2. accepting /\ monitor \notin Awake \cup {"slot0"} /\ monitor' # "asleep"
    BY Zenon, <2>1 DEF Polls, WorkerFacts, Awake, Closing
  <2>3. ASSUME NEW s \in Slots, Due(s), ~stopped, registered[s] \notin woken
        PROVE  Roused
    <3>1. hand.id # registered[s]
      BY Zenon, <2>1, <2>2, <2>3, DueIsInSlot, NodeFacts
    <3> QED BY Zenon, <2>1, <2>2, <2>3, <3>1 DEF Wakes, Seen
  <2> QED BY Zenon, <1>5, <2>1, <2>2, <2>3
<1>8. CASE consume
  <2>1. /\ UNCHANGED <<stopped, notifying, moved, ready, failed, poll, polled, pending, registered, monitor>>
        /\ hand # None /\ hand.notify => woken' = woken \cup {hand.id}
        /\ woken \subseteq woken'
    BY Zenon, <1>8 DEF consume, Consumed
  <2>2. Roused' = Roused /\ \A s \in Slots : Due(s)' => Due(s)
    BY Zenon, <2>1 DEF Roused, Bumping, Waking, Due
  <2>3. \A s \in Slots : hand.id = registered[s] => hand.notify
    BY Zenon, <1>8, NodeFacts DEF consume, Consumed, Newest, Superseded, NodesOK
  <2>4. ASSUME NEW s \in Slots, Seen(s), registered[s] \notin woken' PROVE Seen(s)'
    <3>1. hand.id # registered[s]
      BY Zenon, <1>8, <2>1, <2>3, <2>4 DEF consume, Consumed
    <3> QED BY Zenon, <2>1, <2>2, <2>4, <3>1 DEF Seen
  <2> QED BY Zenon, <2>1, <2>2, <2>4 DEF Wakes
<1>9. CASE FutexWait
  <2>1. /\ hand = None /\ monitor = "wait" /\ monitor' = IF moved THEN "loop" ELSE "asleep"
        /\ UNCHANGED <<stopped, notifying, moved, ready, failed, poll, polled, pending, registered, woken>>
    BY Zenon, <1>9 DEF FutexWait, At
  <2>2. CASE moved
    BY Zenon, <1>2, <2>1, <2>2 DEF Awake
  <2>3. CASE ~moved
    <3>1. accepting /\ monitor \notin Awake \cup {"slot0", "slot1"}
      BY Zenon, <2>1 DEF Polls, WorkerFacts, Awake, Closing
    <3>2. Roused => Roused'
      BY Zenon, <2>1, <2>3 DEF Roused, Bumping
    <3>3. ASSUME NEW s \in Slots, Due(s), ~stopped, registered[s] \notin woken
          PROVE  Roused
      <4>1. hand.id # registered[s]
        BY Zenon, <2>1, <3>1, <3>3, DueIsInSlot, NodeFacts
      <4> QED BY Zenon, <2>1, <3>1, <3>3, <4>1 DEF Wakes, Seen
    <3>4. \A s \in Slots : Due(s)' => Due(s)
      BY Zenon, <2>1 DEF Due
    <3> QED BY Zenon, <2>1, <3>1, <3>2, <3>3, <3>4 DEF Wakes, Seen
  <2> QED BY Zenon, <2>2, <2>3
<1>10. CASE drain
  BY Zenon, <1>2, <1>10 DEF drain, At, Awake
<1> QED BY Zenon, <1>1, <1>3, <1>4, <1>6, <1>7, <1>8, <1>9, <1>10 DEF Worker

LEMMA WakesStep ==
    ASSUME MappingOK, ControlOK, NodesOK, Places, Newest, Polls, Wakes, Next
    PROVE  Wakes'
<1> USE DEF mappingVars, pollVars, workerVars, registrationVars, historyVars
<1>1. ASSUME NEW a \in Agents, Bump(a) PROVE Wakes'
  <2>1. moved' = TRUE /\ notifying'[a] = "wake"
    BY Zenon, <1>1 DEF Bump, MappingOK
  <2> QED BY Zenon, <2>1, RousedIsEnough DEF Roused, Waking
<1>2. ASSUME NEW a \in Agents, FutexWake(a) PROVE Wakes'
  <2>1. CASE monitor = "asleep"
    <3>1. monitor' \in Awake
      BY Zenon, <1>2, <2>1 DEF FutexWake, Awake
    <3> QED BY Zenon, <3>1 DEF Wakes, Seen
  <2>2. CASE monitor # "asleep"
    <3>1. /\ UNCHANGED <<ready, failed, moved, stopped, pollVars, monitor, hand, woken>>
      BY Zenon, <1>2, <2>2 DEF FutexWake
    <3>2. Bumping => Bumping'
      BY Zenon, <1>2 DEF FutexWake, MappingOK, Bumping
    <3>3. (Roused => Roused') /\ \A s \in Slots : Due(s)' => Due(s)
      BY Zenon, <2>2, <3>1, <3>2 DEF Roused, Due
    <3> QED BY Zenon, <3>1, <3>3 DEF Wakes, Seen
  <2> QED BY Zenon, <2>1, <2>2
<1>3. ASSUME NEW s \in Uses, PeerMoves(s) PROVE Wakes'
  <2>1. "peer" \in Agents
    BY Zenon DEF Agents
  <2> QED BY Zenon, <1>3, <2>1, NotifyRouses, RousedIsEnough DEF PeerMoves
<1>4. CASE Abort
  <2>1. "aborter" \in Agents
    BY Zenon DEF Agents
  <2> QED BY Zenon, <1>4, <2>1, NotifyRouses, RousedIsEnough DEF Abort
<1> QED BY Zenon, <1>1, <1>2, <1>3, <1>4, PollWakes, WorkerWakes DEF Next

-----------------------------------------------------------------------------
LEMMA AsyncInitOK == Init => AsyncInv
<1> SUFFICES ASSUME Init PROVE AsyncInv
  OBVIOUS
<1>1. R = {} /\ Gone = {} /\ Distinct(retired)
  BY DEF Init, R, Gone, Elems, Distinct
<1>2. \A s \in Slots : slots[s] = None
  BY Zenon DEF Init
<1>3. 0 \in Slots /\ 1 \in Slots /\ MaxRegistrations \in Nat /\ None.id = 0
  BY Zenon, RegistrationsAssumption, NodeFacts DEF Slots
<1>4. MappingOK
  BY Zenon DEF Init, MappingOK
<1>5. ControlOK
  <2>1. 0 \in 0 .. MaxRegistrations /\ 0 \in {0, 1}
    BY <1>3
  <2>2. registered \in [Slots -> 0 .. MaxRegistrations]
    BY Zenon, <2>1 DEF Init
  <2> QED BY Zenon, <1>3, <2>1, <2>2 DEF Init, ControlOK
<1>6. NodesOK
  <2>1. retired \in Seq(Nodes)
    BY DEF Init
  <2>2. slots \in [Slots -> Nodes \cup {None}]
    BY Zenon DEF Init
  <2> QED BY Zenon, <2>1, <2>2 DEF Init, NodesOK
<1>7. SlotsApart /\ HandApart /\ RetiredApart /\ ConsumedOnce
  BY Zenon, <1>1, <1>2, <1>3 DEF Init, SlotsApart, HandApart, RetiredApart, ConsumedOnce
<1>8. NoneLost
  BY DEF Init, NoneLost
<1>9. Newest
  BY <1>1, <1>2, <1>3 DEF Init, Newest, Current, Superseded
<1>10. Polls
  BY Zenon, <1>1 DEF Init, Polls, PollFacts, WorkerFacts, Closing
<1>11. Wakes
  BY Zenon DEF Init, Wakes, Seen, Awake
<1> QED BY Zenon, <1>4, <1>5, <1>6, <1>7, <1>8, <1>9, <1>10, <1>11, TypeParts DEF AsyncInv, Places

LEMMA AsyncNextKeeps == AsyncInv /\ [Next]_vars => AsyncInv'
<1> SUFFICES ASSUME AsyncInv, [Next]_vars PROVE AsyncInv'
  OBVIOUS
<1>0. MappingOK' /\ ControlOK' /\ NodesOK' => AsyncTypeOK'
  BY Zenon DEF AsyncTypeOK, MappingOK, ControlOK, NodesOK
<1>1. CASE Next
  BY Zenon, <1>0, <1>1, TypeParts, MappingStep, ControlStep, NodesStep, PlacesStep,
     PollFactsStep, WorkerFactsStep, WakesStep DEF AsyncInv, Polls
<1>2. CASE UNCHANGED vars
  <2>0. /\ UNCHANGED <<ready, failed, moved, notifying, stopped>>
        /\ UNCHANGED <<accepting, cloning, slots, retired, poll, polled, registered, pending>>
        /\ UNCHANGED <<monitor, hand, outcome, issued, woken, discarded>>
    BY Zenon, <1>2 DEF vars, mappingVars, pollVars, workerVars, registrationVars, historyVars
  <2>1. AsyncTypeOK'
    <3>1. MappingOK' /\ NodesOK'
      BY Zenon, <2>0, TypeParts DEF AsyncInv, MappingOK, NodesOK
    <3>2. ControlOK'
      BY ZenonT(30), <2>0, TypeParts DEF AsyncInv, ControlOK
    <3> QED BY Zenon, <1>0, <3>1, <3>2
  <2>2. R' = R /\ Gone' = Gone
    BY Zenon, <2>0 DEF R, Gone
  <2>3. Places' /\ Newest'
    <3>1. SlotsApart' /\ HandApart' /\ RetiredApart' /\ ConsumedOnce'
      BY Zenon, <2>0, <2>2 DEF AsyncInv, Places, SlotsApart, HandApart, RetiredApart, ConsumedOnce
    <3>2. NoneLost'
      BY Zenon, <2>0, <2>2 DEF AsyncInv, Places, NoneLost, Placed
    <3>3. Newest'
      BY Zenon, <2>0, <2>2 DEF AsyncInv, Newest, Current, Superseded
    <3> QED BY Zenon, <3>1, <3>2, <3>3 DEF Places
  <2>4. Polls'
    BY Zenon, <2>0, <2>2 DEF AsyncInv, Polls, PollFacts, WorkerFacts
  <2>5. Wakes'
    BY Zenon, <2>0 DEF AsyncInv, Wakes, Seen, Roused, Bumping, Waking, Due
  <2> QED BY Zenon, <2>1, <2>3, <2>4, <2>5 DEF AsyncInv
<1> QED BY Zenon, <1>1, <1>2

\* What the run checks follows from the inductive invariant.
LEMMA AsyncImplies == AsyncInv => AsyncSafe
<1> SUFFICES ASSUME AsyncInv PROVE AsyncSafe
  OBVIOUS
<1>1. ControlOK /\ NodesOK
  BY Zenon, TypeParts DEF AsyncInv
<1>2. \A n : n \in Held <=> n \in R \/ n = hand \/ \E s \in Slots : n = slots[s]
  BY Zenon DEF Held, R, Elems
<1>3. \A n \in Held : n.id \notin Gone
  <2>1. 0 \notin Gone /\ None.id = 0
    BY NodeFacts DEF AsyncInv, Places, ConsumedOnce, Gone
  <2> QED BY Zenon, <1>2, <2>1 DEF AsyncInv, Places, SlotsApart, HandApart, RetiredApart
<1>4. Roused => NotificationUnderWay \/ monitor # "asleep"
  BY Zenon DEF Roused, Bumping, Waking, NotificationUnderWay
<1>5. "asleep" \notin Awake \cup {"slot0", "slot1"}
  BY Zenon DEF Awake
<1>6. PendingIsWoken
  <2> SUFFICES ASSUME NEW s \in pending, ~stopped, registered[s] \notin woken
               PROVE  /\ \E n \in Held : n.id = registered[s] /\ n.id # 0 /\ n.notify
                      /\ ready[s] \/ failed => monitor # "asleep" \/ NotificationUnderWay
    BY Zenon DEF PendingIsWoken
  <2>1. s \in Slots /\ registered[s] \in 1 .. issued /\ registered[s] # 0
        /\ registered[s] \notin discarded
    BY <1>1 DEF ControlOK, AsyncInv, Polls, PollFacts, Newest, Current
  <2>2. PICK n \in Held : n.id = registered[s]
    BY Zenon, <1>2, <2>1 DEF AsyncInv, Places, NoneLost, Placed, Gone
  <2>3. n.notify
    <3>1. CASE n \in R \cup {hand}
      BY Zenon, <2>1, <2>2, <3>1 DEF AsyncInv, Newest, Superseded
    <3>2. ASSUME NEW u \in Slots, n = slots[u] PROVE n.notify
      BY Zenon, <2>1, <2>2, <3>2, NodeFacts DEF AsyncInv, Places, SlotsApart
    <3> QED BY Zenon, <1>2, <3>1, <3>2
  <2>4. hand.id = registered[s] => monitor # "asleep"
    <3>1. hand.id = registered[s] => hand # None
      BY Zenon, <2>1, NodeFacts
    <3> QED BY Zenon, <3>1 DEF AsyncInv, Polls, WorkerFacts
  <2>5. ready[s] \/ failed => monitor # "asleep" \/ NotificationUnderWay
    BY Zenon, <1>4, <1>5, <2>1, <2>4 DEF AsyncInv, Wakes, Seen, Due
  <2> QED BY Zenon, <2>1, <2>2, <2>3, <2>5
<1>7. StopIsSeen
  BY Zenon, <1>4, <1>5 DEF AsyncInv, Wakes, StopIsSeen
<1>8. DrainIsFinal
  <2> SUFFICES ASSUME monitor = "done"
               PROVE  cloning = 0 /\ Held = {None} /\ woken \cup discarded = 1 .. issued
    BY Zenon DEF DrainIsFinal
  <2>1. /\ cloning = 0 /\ retired = <<>> /\ hand = None /\ 0 \in Slots
        /\ \A s \in Slots : slots[s] = None
    BY Zenon DEF AsyncInv, Polls, WorkerFacts, Closing, Slots
  <2>2. R = {}
    BY <2>1 DEF R, Elems
  <2>3. Held = {None}
    BY Zenon, <1>2, <2>1, <2>2
  <2>4. \A i \in 1 .. issued : i # 0
    BY <1>1 DEF ControlOK
  <2>5. \A i \in 1 .. issued : i \in Gone
    <3>1. hand.id = 0 /\ \A s \in Slots : slots[s].id = 0
      BY Zenon, <2>1, NodeFacts
    <3> QED BY Zenon, <2>2, <2>4, <3>1 DEF AsyncInv, Places, NoneLost, Placed
  <2>6. woken \subseteq 1 .. issued /\ discarded \subseteq 1 .. issued
    BY Zenon DEF AsyncInv, Places, ConsumedOnce
  <2> QED BY Zenon, <2>1, <2>3, <2>5, <2>6 DEF Gone
<1>9. OnlySupersededAreDropped
  BY Zenon, <1>3 DEF AsyncInv, Places, ConsumedOnce, Newest, Current, OnlySupersededAreDropped, Gone
<1> QED BY Zenon, <1>6, <1>7, <1>8, <1>9 DEF AsyncSafe, AsyncInv

\* The asynchronous adapter of mapped/asynchronous.rs keeps its promise for
\* both slots, any number of Wakers and all interleavings: no poll stays
\* Pending past its event, the monitor sees the stop without the timeout,
\* each Waker is consumed once, none that is current is dropped without a
\* wake, and nothing is left behind when the worker ends.
THEOREM AdapterIsSafe == Spec => []AsyncSafe
BY AsyncInitOK, AsyncNextKeeps, AsyncImplies, PTL DEF Spec
=============================================================================
