---------------------------- MODULE MappedStream ----------------------------
(***************************************************************************)
(* The shared-memory byte stream of reverie-rpc-transport (mapped.rs).     *)
(*                                                                         *)
(* Two endpoints, sides 0 and 1, share one mapping with two byte rings:    *)
(* ring q is written by side q and read by side 1 - q.  Every operation is *)
(* taken apart at its loads and stores of shared memory: the progress      *)
(* sample, the failure check, the closed flag, the peer's cursor, each     *)
(* byte copied, the cursor store, the bump of the progress word and the    *)
(* futex wake.  A third party, the holder of a MappedAbort, can fail the   *)
(* connection at any time, and an endpoint's process can die anywhere.     *)
(*                                                                         *)
(* Payload is abstracted to its position: the k-th byte ever written to a  *)
(* ring is the number k, so that a lost, repeated, torn or overwritten     *)
(* byte is a wrong number at the reader.  The progress word is only ever   *)
(* compared with an earlier sample of itself, so each call carries the     *)
(* number of bumps since its sample instead of the word.                   *)
(***************************************************************************)
EXTENDS Integers, Sequences

CONSTANTS Capacity,     \* bytes in each ring (the header's capacity)
          MaxCursor,    \* largest cursor value: u64::MAX in the code
          ProgressMod,  \* number of values of the futex word: 2^32 in the code
          MaxLen,       \* bound on the length of one caller's buffer
          Uses,         \* the calls made: pairs of a side and "read" or "write"
          MayCrash      \* may an endpoint's process die?

Sides == {0, 1}
Owner == 2
Procs == {0, 1, 2}
Slots == 0 .. Capacity - 1

ASSUME CapacityAssumption == Capacity \in Nat \ {0}
ASSUME MaxCursorAssumption == MaxCursor \in Nat
ASSUME ProgressAssumption == ProgressMod \in Nat \ {0}
ASSUME MaxLenAssumption == MaxLen \in Nat \ {0}
ASSUME UsesAssumption == Uses \subseteq Sides \X {"read", "write"}
ASSUME CrashAssumption == MayCrash \in BOOLEAN

VARIABLES
    read, written,                  \* Queue: the consumer's and the producer's cursor
    writer_closed, reader_closed,   \* Queue: the two close flags
    data,                           \* the bytes of each ring
    failure,                        \* Header: sticky failure of the connection
    pc, call,                       \* where each process is, and its call's locals
    received,                       \* history: bytes a ring's reader has returned
    eof                             \* history: has a ring's reader returned end of file?

vars == <<read, written, writer_closed, reader_closed, data, failure, pc, call,
          received, eof>>

\* A call: its kind and buffer length, the bumps of the progress word since
\* it sampled it, the closed flag it loaded, the bytes it will move, and the
\* part of its buffer already copied.
CallType == [op : {"none", "read", "write", "close", "drop", "abort"},
             want : Nat, behind : Nat, closed : BOOLEAN,
             count : Int, chunk : Seq(Nat)]

NewCall(kind, n) == [op |-> kind, want |-> n, behind |-> 0, closed |-> FALSE,
                     count |-> 0, chunk |-> <<>>]
NoCall == NewCall("none", 0)

Lesser(a, b) == IF a <= b THEN a ELSE b

\* The ring side e works on in its current call (it writes its own ring and
\* reads the peer's), and the cursor of that ring that it owns.
RingOf(e) == IF call[e].op = "read" THEN 1 - e ELSE e

Cursor(e) == IF call[e].op = "read" THEN read[1 - e] ELSE written[e]

\* A copy goes in two pieces, up to the end of the ring and then from its
\* start; this is the slot of the i-th of n bytes at cursor c.
\* Mutant: the second piece does not restart at the ring's first slot.
SlotSecondPieceShifted(c, n, i) ==
    LET start == c % Capacity
        first == Lesser(n, Capacity - start)
    IN  IF i < first THEN start + i ELSE (i - first + 1) % Capacity

Slot(c, n, i) ==
    LET start == c % Capacity
        first == Lesser(n, Capacity - start)
    IN  IF i < first THEN start + i ELSE i - first

Goto(p, l) == pc' = [pc EXCEPT ![p] = l]

\* The call of side e goes on to l with record c; at "idle" it has returned.
Continue(e, l, c) ==
    /\ Goto(e, l)
    /\ call' = [call EXCEPT ![e] = IF l = "idle" THEN NoCall ELSE c]

-----------------------------------------------------------------------------
Init ==
    /\ read = [q \in Sides |-> 0]
    /\ written = [q \in Sides |-> 0]
    /\ writer_closed = [q \in Sides |-> FALSE]
    /\ reader_closed = [q \in Sides |-> FALSE]
    /\ data = [q \in Sides |-> [s \in Slots |-> 0]]
    /\ failure = "none"
    /\ pc = [p \in Procs |-> IF p = 1 THEN "unborn" ELSE "idle"]
    /\ call = [p \in Procs |-> NoCall]
    /\ received = [q \in Sides |-> <<>>]
    /\ eof = [q \in Sides |-> FALSE]

\* from_owned_fd: the compare-exchange of peer_claimed lets exactly one
\* importer become side 1; any other is refused and changes nothing.
Import ==
    /\ pc[1] = "unborn"
    /\ Goto(1, "idle")
    /\ UNCHANGED <<read, written, writer_closed, reader_closed, data, failure,
                   call, received, eof>>

\* Read::read or Write::write is called with a buffer of n bytes.
Call(e, kind, n) ==
    /\ pc[e] = "idle"
    /\ Continue(e, "sample", NewCall(kind, n))
    /\ UNCHANGED <<read, written, writer_closed, reader_closed, data, failure,
                   received, eof>>

\* The blocking loop samples the progress word before it tries.
Sample(e) ==
    /\ pc[e] = "sample"
    /\ Continue(e, "check", [call[e] EXCEPT !.behind = 0])
    /\ UNCHANGED <<read, written, writer_closed, reader_closed, data, failure,
                   received, eof>>

\* check_failure: a failed connection ends the call with its error.
CheckFailure(e) ==
    /\ pc[e] = "check"
    /\ Continue(e, IF failure = "none" THEN "flag" ELSE "idle", call[e])
    /\ UNCHANGED <<read, written, writer_closed, reader_closed, data, failure,
                   received, eof>>

\* Mutant: a writer does not look at its own closed flag.
LoadClosedPeerOnly(e) ==
    /\ pc[e] = "flag"
    /\ IF call[e].op = "read"
       THEN Continue(e, "cursor", [call[e] EXCEPT !.closed = writer_closed[1 - e]])
       ELSE Continue(e, IF reader_closed[e] THEN "idle" ELSE "cursor", call[e])
    /\ UNCHANGED <<read, written, writer_closed, reader_closed, data, failure,
                   received, eof>>

\* A reader remembers whether the writer had closed; a writer stops with
\* BrokenPipe when either end of its ring is closed.
LoadClosed(e) ==
    /\ pc[e] = "flag"
    /\ IF call[e].op = "read"
       THEN Continue(e, "cursor", [call[e] EXCEPT !.closed = writer_closed[1 - e]])
       ELSE Continue(e, IF reader_closed[e] \/ writer_closed[e] THEN "idle" ELSE "cursor",
                     call[e])
    /\ UNCHANGED <<read, written, writer_closed, reader_closed, data, failure,
                   received, eof>>

\* Mutant: end of file without a look at the bytes still there.
LoadCursorEofFirst(e) ==
    /\ pc[e] = "cursor"
    /\ LET q == RingOf(e)
           used == written[q] - read[q]
           room == IF call[e].op = "read" THEN used ELSE Capacity - used
           n == Lesser(room, call[e].want)
           atEof == call[e].op = "read" /\ call[e].closed
           next == IF atEof THEN "idle" ELSE IF room = 0 THEN "wait" ELSE "copy"
       IN  /\ Continue(e, next, [call[e] EXCEPT !.count = n])
           /\ eof' = [eof EXCEPT ![q] = @ \/ atEof]
    /\ UNCHANGED <<read, written, writer_closed, reader_closed, data, failure, received>>

\* Mutant: the check of the cursors takes one for the other.
LoadCursorSwapped(e) ==
    /\ pc[e] = "cursor"
    /\ LET q == RingOf(e)
           used == read[q] - written[q]
           room == IF call[e].op = "read" THEN used ELSE Capacity - used
           n == Lesser(room, call[e].want)
           legal == used \in 0 .. Capacity /\ Cursor(e) + n <= MaxCursor
       IN  Continue(e, IF ~legal THEN "protocol" ELSE IF room = 0 THEN "wait" ELSE "copy",
                    [call[e] EXCEPT !.count = n])
    /\ UNCHANGED <<read, written, writer_closed, reader_closed, data, failure, received, eof>>

\* The peer's cursor is loaded and checked (used), then the call either has
\* room to move bytes, is at end of file, must wait, or meets a cursor
\* violation: more than a ring of bytes in use, or a cursor past u64::MAX.
LoadCursor(e) ==
    /\ pc[e] = "cursor"
    /\ LET q == RingOf(e)
           used == written[q] - read[q]
           room == IF call[e].op = "read" THEN used ELSE Capacity - used
           n == Lesser(room, call[e].want)
           legal == used \in 0 .. Capacity
           atEof == legal /\ room = 0 /\ call[e].op = "read" /\ call[e].closed
           next == CASE atEof -> "idle"
                     [] legal /\ room = 0 /\ ~atEof -> "wait"
                     [] legal /\ room > 0 /\ Cursor(e) + n <= MaxCursor -> "copy"
                     [] OTHER -> "protocol"
       IN  /\ Continue(e, next, [call[e] EXCEPT !.count = n])
           /\ eof' = [eof EXCEPT ![q] = @ \/ atEof]
    /\ UNCHANGED <<read, written, writer_closed, reader_closed, data, failure, received>>

\* One byte of copy_nonoverlapping, in or out of the ring.
CopyByte(e) ==
    /\ pc[e] = "copy"
    /\ Len(call[e].chunk) < call[e].count
    /\ LET q == RingOf(e)
           i == Len(call[e].chunk)
           s == Slot(Cursor(e), call[e].count, i)
           byte == IF call[e].op = "read" THEN data[q][s] ELSE written[e] + i + 1
       IN  /\ call' = [call EXCEPT ![e].chunk = Append(@, byte)]
           /\ data' = IF call[e].op = "read" THEN data ELSE [data EXCEPT ![q][s] = byte]
    /\ UNCHANGED <<read, written, writer_closed, reader_closed, failure, pc,
                   received, eof>>

\* Mutant: the consumer's cursor goes the wrong way.
StoreCursorBackwards(e) ==
    /\ pc[e] = "copy"
    /\ Len(call[e].chunk) = call[e].count
    /\ IF call[e].op = "read"
       THEN read' = [read EXCEPT ![1 - e] = @ - call[e].count] /\ UNCHANGED written
       ELSE written' = [written EXCEPT ![e] = @ + call[e].count] /\ UNCHANGED read
    /\ Goto(e, "bump")
    /\ UNCHANGED <<received, writer_closed, reader_closed, data, failure, call, eof>>

\* Mutant: the writer does not notify.
StoreCursorSilently(e) ==
    /\ pc[e] = "copy"
    /\ Len(call[e].chunk) = call[e].count
    /\ IF call[e].op = "read"
       THEN /\ read' = [read EXCEPT ![1 - e] = @ + call[e].count]
            /\ received' = [received EXCEPT ![1 - e] = @ \o call[e].chunk]
            /\ UNCHANGED written
       ELSE /\ written' = [written EXCEPT ![e] = @ + call[e].count]
            /\ UNCHANGED <<read, received>>
    /\ Continue(e, IF call[e].op = "read" THEN "bump" ELSE "idle", call[e])
    /\ UNCHANGED <<writer_closed, reader_closed, data, failure, eof>>

\* The release store of the cursor that publishes the bytes, or frees them.
StoreCursor(e) ==
    /\ pc[e] = "copy"
    /\ Len(call[e].chunk) = call[e].count
    /\ IF call[e].op = "read"
       THEN /\ read' = [read EXCEPT ![1 - e] = @ + call[e].count]
            /\ received' = [received EXCEPT ![1 - e] = @ \o call[e].chunk]
            /\ UNCHANGED written
       ELSE /\ written' = [written EXCEPT ![e] = @ + call[e].count]
            /\ UNCHANGED <<read, received>>
    /\ Goto(e, "bump")
    /\ UNCHANGED <<writer_closed, reader_closed, data, failure, call, eof>>

-----------------------------------------------------------------------------
\* notify: fetch_add on the progress word ...
Bump(p) ==
    /\ pc[p] = "bump"
    /\ call' = [r \in Procs |->
                  IF pc[r] \in {"check", "flag", "cursor", "wait"}
                  THEN [call[r] EXCEPT !.behind = @ + 1] ELSE call[r]]
    /\ Goto(p, "wake")
    /\ UNCHANGED <<read, written, writer_closed, reader_closed, data, failure,
                   received, eof>>

\* ... then FUTEX_WAKE of every sleeper, who goes round its loop again.  The
\* notifying call is over.
Wake(p) ==
    /\ pc[p] = "wake"
    /\ pc' = [r \in Procs |->
                CASE r = p -> IF call[p].op \in {"drop", "abort"} THEN "gone" ELSE "idle"
                  [] r # p /\ pc[r] = "asleep" -> "sample"
                  [] OTHER -> pc[r]]
    /\ call' = [call EXCEPT ![p] = NoCall]
    /\ UNCHANGED <<read, written, writer_closed, reader_closed, data, failure,
                   received, eof>>

\* Mutant: the sleep does not compare the word with the sample.
FutexWaitBlindly(e) ==
    /\ pc[e] = "wait"
    /\ Goto(e, "asleep")
    /\ UNCHANGED <<read, written, writer_closed, reader_closed, data, failure,
                   call, received, eof>>

\* wait: FUTEX_WAIT sleeps only if the word still holds the sampled value
\* (otherwise EAGAIN), compared and enqueued in one step.  The word wraps.
FutexWait(e) ==
    /\ pc[e] = "wait"
    /\ Goto(e, IF call[e].behind % ProgressMod = 0 THEN "asleep" ELSE "sample")
    /\ UNCHANGED <<read, written, writer_closed, reader_closed, data, failure,
                   call, received, eof>>

\* Mutant: a sleep that times out is resumed without another try.
TimeoutResumed(e) ==
    /\ pc[e] = "asleep"
    /\ Goto(e, "wait")
    /\ UNCHANGED <<read, written, writer_closed, reader_closed, data, failure,
                   call, received, eof>>

\* The 100 ms timeout or a signal ends the sleep: ETIMEDOUT, EINTR.
Timeout(e) ==
    /\ pc[e] = "asleep"
    /\ Goto(e, "sample")
    /\ UNCHANGED <<read, written, writer_closed, reader_closed, data, failure,
                   call, received, eof>>

\* abort: compare-exchange of the failure word from 0, so the first failure
\* stays, then notify.
Abort(p, f) ==
    /\ failure' = IF failure = "none" THEN f ELSE failure
    /\ Goto(p, "bump")
    /\ UNCHANGED <<read, written, writer_closed, reader_closed, data, received, eof>>

ProtocolError(e) ==
    /\ pc[e] = "protocol"
    /\ Abort(e, "Protocol")
    /\ UNCHANGED call

\* FUTEX_WAIT fails in any other way: the connection is aborted.
FutexError(e) ==
    /\ pc[e] = "wait"
    /\ Abort(e, "PeerFailed")
    /\ UNCHANGED call

\* MappedAbort::abort by the lifecycle owner.  One call is enough: the
\* failure is sticky, so a second one only notifies again.
OwnerAbort(f) ==
    /\ pc[Owner] = "idle"
    /\ Abort(Owner, f)
    /\ call' = [call EXCEPT ![Owner].op = "abort"]

-----------------------------------------------------------------------------
\* close_write.  A second call would store the same flag and notify again;
\* it is left out to keep the number of notifications finite.
CloseWrite(e) ==
    /\ pc[e] = "idle"
    /\ ~writer_closed[e]
    /\ writer_closed' = [writer_closed EXCEPT ![e] = TRUE]
    /\ call' = [call EXCEPT ![e].op = "close"]
    /\ Goto(e, "bump")
    /\ UNCHANGED <<read, written, reader_closed, data, failure, received, eof>>

\* Drop of an endpoint closes its writes and then its reads, two stores.
DropWriter(e) ==
    /\ pc[e] = "idle"
    /\ writer_closed' = [writer_closed EXCEPT ![e] = TRUE]
    /\ call' = [call EXCEPT ![e].op = "drop"]
    /\ Goto(e, "drop")
    /\ UNCHANGED <<read, written, reader_closed, data, failure, received, eof>>

DropReader(e) ==
    /\ pc[e] = "drop"
    /\ reader_closed' = [reader_closed EXCEPT ![1 - e] = TRUE]
    /\ Goto(e, "bump")
    /\ UNCHANGED <<read, written, writer_closed, data, failure, call, received, eof>>

\* An endpoint's process dies between any two of its steps; nothing is run
\* on its behalf.  "dead" is a process that died owing a notification.
Crash(e) ==
    /\ MayCrash
    /\ pc[e] \notin {"unborn", "gone", "dead"}
    /\ Goto(e, IF pc[e] \in {"bump", "wake", "drop"} THEN "dead" ELSE "gone")
    /\ call' = [call EXCEPT ![e] = NoCall]
    /\ UNCHANGED <<read, written, writer_closed, reader_closed, data, failure,
                   received, eof>>

-----------------------------------------------------------------------------
\* The steps an endpoint takes by itself once it is in a call.
Step(e) ==
    \/ Sample(e) \/ CheckFailure(e) \/ LoadClosed(e) \/ LoadCursor(e)
    \/ CopyByte(e) \/ StoreCursor(e) \/ ProtocolError(e) \/ DropReader(e)
    \/ FutexWait(e)

Next ==
    \/ Import
    \/ \E use \in Uses, n \in 1 .. MaxLen : Call(use[1], use[2], n)
    \/ \E e \in Sides : Step(e)
    \/ \E p \in Procs : Bump(p) \/ Wake(p)
    \/ \E e \in Sides : Timeout(e) \/ FutexError(e)
    \/ \E f \in {"Cancelled", "PeerFailed"} : OwnerAbort(f)
    \/ \E e \in Sides : CloseWrite(e) \/ DropWriter(e) \/ Crash(e)

Spec == Init /\ [][Next]_vars

\* A thread that is in a call keeps running until it sleeps.
RunFairness ==
    /\ \A e \in Sides : WF_vars(Step(e))
    /\ \A p \in Procs : WF_vars(Bump(p) \/ Wake(p))

\* Sleeps end by wake-ups alone: no timeout is assumed to fire.
WakeSpec == Spec /\ RunFairness

\* The kernel also honours the 100 ms timeout.
TimedSpec == WakeSpec /\ \A e \in Sides : WF_vars(Timeout(e))

-----------------------------------------------------------------------------
Labels == {"unborn", "idle", "sample", "check", "flag", "cursor", "copy",
           "bump", "wake", "wait", "asleep", "protocol", "drop", "gone", "dead"}

TypeOK ==
    /\ read \in [Sides -> Nat]
    /\ written \in [Sides -> Nat]
    /\ writer_closed \in [Sides -> BOOLEAN]
    /\ reader_closed \in [Sides -> BOOLEAN]
    /\ data \in [Sides -> [Slots -> Nat]]
    /\ failure \in {"none", "Cancelled", "PeerFailed", "Protocol"}
    /\ pc \in [Procs -> Labels]
    /\ call \in [Procs -> CallType]
    /\ received \in [Sides -> Seq(Nat)]
    /\ eof \in [Sides -> BOOLEAN]

\* What a reader has returned is exactly the bytes written, in order and
\* without a gap: no copy reads a slot before it is published, after it is
\* reused, or twice, however the two endpoints' copies interleave.
Integrity ==
    \A q \in Sides :
        /\ Len(received[q]) = read[q]
        /\ \A k \in 1 .. Len(received[q]) : received[q][k] = k

\* End of file is final and complete: it is returned only when the writer
\* has closed and every byte it ever publishes has been returned before.
EofComplete ==
    \A q \in Sides : eof[q] => writer_closed[q] /\ Len(received[q]) = written[q]

\* Correct endpoints never trip the cursor check on each other: a Protocol
\* failure means that a cursor was about to pass its largest value.
ProtocolOnlyAtLimit ==
    failure = "Protocol" =>
        \E q \in Sides : read[q] + MaxLen > MaxCursor \/ written[q] + MaxLen > MaxCursor

\* What an endpoint is told of the stream is true: the types and the three
\* statements above.
StreamIsFaithful == TypeOK /\ Integrity /\ EofComplete /\ ProtocolOnlyAtLimit

\* May the call side e is blocked in return something now?
Ready(e) ==
    \/ failure # "none"
    \/ call[e].op = "read" /\ (written[1 - e] > read[1 - e] \/ writer_closed[1 - e])
    \/ call[e].op = "write" /\ (written[e] - read[e] < Capacity \/ reader_closed[e])

\* A side that sleeps although its call could return is about to be woken.
SleepOK(e) ==
    pc[e] = "asleep" /\ Ready(e) /\ call[e].behind < ProgressMod =>
        \E p \in Procs \ {e} : pc[p] \in {"bump", "wake", "drop", "dead"}

\* No lost wake-up: a sleeper in wait whose call could return has its wake-up
\* coming from a peer or an owner that has yet to finish its notify, unless a
\* peer died, perhaps before it did, or the futex word has wrapped.
NoLostWakeup == \A e \in Sides : SleepOK(e)

\* A blocked call that can return does return (or its process dies).
Blocked(e) == pc[e] \in {"sample", "check", "flag", "cursor", "wait", "asleep"}

ReadyCallReturns ==
    \A e \in Sides : (Blocked(e) /\ Ready(e)) ~> ~Blocked(e)

-----------------------------------------------------------------------------
\* The stream is a ByteChannel: its bytes sent are the positions below the
\* producer's cursor.
Channel == INSTANCE ByteChannel WITH
    Directions <- Sides,
    Limit <- Capacity,
    sent <- [q \in Sides |-> [k \in 1 .. written[q] |-> k]],
    got <- received,
    ended <- writer_closed

\* Every step of the stream, taken apart as it is, is a step of the
\* first-in first-out channel or leaves it alone: bytes appear and leave at
\* the cursor stores, end of file comes last, the first failure stays.
ImplementsChannel == Channel!ChanSpec

-----------------------------------------------------------------------------
\* The inductive strengthening behind the properties above.

\* A ring never holds more than Capacity bytes, and every published byte
\* that is still unread is in its slot.
RingInv ==
    \A q \in Sides :
        /\ read[q] <= written[q]
        /\ written[q] <= read[q] + Capacity
        /\ \A p \in read[q] .. written[q] - 1 : data[q][p % Capacity] = p + 1

\* A copy stays within the bytes, or the room, its cursor check saw: the
\* peer can only add to it meanwhile.
CopyOK(e) ==
    pc[e] = "copy" =>
        /\ call[e].count >= 1
        /\ Len(call[e].chunk) <= call[e].count
        /\ call[e].op = "read" =>
             /\ read[1 - e] + call[e].count <= written[1 - e]
             /\ \A k \in 1 .. Len(call[e].chunk) : call[e].chunk[k] = read[1 - e] + k
        /\ call[e].op = "write" =>
             /\ written[e] + call[e].count <= read[e] + Capacity
             /\ \A p \in written[e] .. written[e] + Len(call[e].chunk) - 1 :
                  data[e][p % Capacity] = p + 1

\* What a call knows from its earlier loads still holds later.
CallOK(e) ==
    /\ pc[e] \in {"sample", "check", "flag", "cursor", "wait", "asleep", "copy", "protocol"}
         => call[e].op \in {"read", "write"} /\ call[e].want \in 1 .. MaxLen
    /\ pc[e] \in {"sample", "check", "flag", "cursor", "wait", "asleep"} => call[e].chunk = <<>>
    /\ pc[e] \in {"cursor", "copy"} /\ call[e].op = "write" => ~writer_closed[e]
    /\ pc[e] = "cursor" /\ call[e].op = "read" /\ call[e].closed => writer_closed[1 - e]
    /\ pc[e] = "protocol" => Cursor(e) + MaxLen > MaxCursor

CallInv == \A e \in Sides : CopyOK(e) /\ CallOK(e)

\* A process that has changed the shared state and has yet to bump the
\* progress word, or died before it did.
Owing == {"bump", "drop", "dead"}

Unannounced(e) == \E p \in Procs \ {e} : pc[p] \in Owing

\* A change that a call's loads missed, although no bump came after its
\* sample, is still to be announced.
WakeOK(e) ==
    call[e].behind = 0 =>
        /\ pc[e] \in {"flag", "cursor"} /\ failure # "none" => Unannounced(e)
        /\ pc[e] = "cursor" /\ call[e].op = "read" /\ ~call[e].closed
             /\ writer_closed[1 - e] => Unannounced(e)
        /\ pc[e] = "cursor" /\ call[e].op = "write" /\ reader_closed[e] => Unannounced(e)
        /\ pc[e] = "wait" /\ Ready(e) => Unannounced(e)

WakeInv == \A e \in Sides : WakeOK(e)

IInv == TypeOK /\ Integrity /\ RingInv /\ CallInv /\ EofComplete /\ ProtocolOnlyAtLimit

=============================================================================
