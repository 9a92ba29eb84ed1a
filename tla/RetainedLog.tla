---------------------------- MODULE RetainedLog ----------------------------
(***************************************************************************)
(* The retained guest log (V3): the LogHandle whose Report a launcher      *)
(* keeps, the LogSink that owns its start, the Collector that drains the   *)
(* producers' rings, and the Producers of buffer.rs, a root process and    *)
(* the children it forks.                                                  *)
(*                                                                         *)
(* The lease decides who ends the log: a stop that finds the collector not *)
(* running ends it at once, one that finds it running leaves it to drain   *)
(* until the deadline.  Readers of the report wait with tokio's Notify;    *)
(* whoever changed the state calls notify_waiters once its lock is         *)
(* released, and a task that looks in between sees the change, so that the *)
(* change and the call are one step.                                       *)
(*                                                                         *)
(* A frame is its kind; payloads, pids and the texts of issues are left    *)
(* out.  No prepared capture is installed.                                 *)
(***************************************************************************)
EXTENDS Naturals, Sequences, TLC

CONSTANTS
    Incarnations,   \* the channels of the mapping; the root process has channel 0
    RingSlots,      \* slots of a channel's ring
    ByteLimit,      \* options.byte_limit, in chunks
    RecordLengths,  \* lengths of records, in chunks
    Plans           \* what the guest does and who waits: how many records the process of a
                    \* channel writes, which processes fork, and the tasks that wait

ASSUME RetainedBounds ==
    Incarnations \in Nat \ {0} /\ RingSlots \in Nat \ {0} /\ ByteLimit \in Nat
    /\ RecordLengths \subseteq Nat
    /\ \A plan \in Plans :
          /\ plan.records \in [0 .. Incarnations - 1 -> Nat]
          /\ plan.forks \subseteq 0 .. Incarnations - 1
          /\ plan.waits \subseteq {"ready", "finished"}

VARIABLES
    \* Retention
    phase, reader, lease, stop_at, mapped,
    reported,       \* report.streams: complete records and the end, per channel
    task,           \* the tasks in ready() and finished(), and whether they were notified
    sink,           \* the LogSink: held, or gone (transferred or dropped)
    \* the collector's thread
    col, closed, invalid, complete, any, consumed, scan, budget, decoded,
    \* the shared mapping
    map_stop, map_failure, allocated_to, reserved_bytes, chan, frames,
    \* the producers' processes
    guest

Retention == <<phase, reader, lease, stop_at, mapped>>
Locals == <<closed, invalid, complete, any, consumed, scan, budget, decoded>>
Collecting == <<col, Locals>>
Mapping == <<map_stop, map_failure, allocated_to, reserved_bytes, chan, frames>>
rVars == <<Retention, reported, task, sink, Collecting, Mapping, guest>>

Channels == 0 .. Incarnations - 1
Tasks == {"ready", "finished"}
Terminal == {"Complete", "Incomplete"}

NoChannel == [state |-> "UNUSED", pid |-> FALSE, fork_result |-> "none", head |-> 0,
              terminal_head |-> 0, terminal_sequence |-> 0]
NoDecoded == [next |-> 1, length |-> 0, got |-> 0, open |-> FALSE, records |-> 0,
              finished |-> FALSE, failed |-> FALSE]
NewGuest == [pc |-> "absent", length |-> 0, sent |-> 0, sequence |-> 1, written |-> 0,
             broken |-> FALSE, finished |-> FALSE, child |-> 0]

RetainedInit ==
    /\ phase = "NotStarted" /\ reader = "Unassigned" /\ lease = "STARTUP"
    /\ stop_at = "none" /\ mapped = FALSE
    /\ reported = [c \in Channels |-> [records |-> 0, finished |-> FALSE]]
    /\ sink = "held"
    /\ col = "none" /\ closed = FALSE /\ invalid = FALSE /\ complete = FALSE
    /\ any = FALSE /\ consumed = {} /\ scan = [at |-> 0, limit |-> 0] /\ budget = ByteLimit
    /\ decoded = [c \in Channels |-> NoDecoded]
    /\ map_stop = FALSE /\ map_failure = FALSE /\ allocated_to = 1 /\ reserved_bytes = 0
    /\ chan = [c \in Channels |-> IF c = 0 THEN [NoChannel EXCEPT !.state = "RESERVED"] ELSE NoChannel]
    /\ frames = [c \in Channels |-> <<>>]
    /\ \E plan \in Plans :
          /\ task = [t \in Tasks |-> [at |-> IF t \in plan.waits THEN "idle" ELSE "absent", notified |-> FALSE]]
          /\ guest = [c \in Channels |-> [todo |-> plan.records[c], forks |-> c \in plan.forks] @@ NewGuest]

-----------------------------------------------------------------------------
\* notify_waiters reaches every future that is enabled.
Notified == [t \in Tasks |-> [task[t] EXCEPT !.notified = @ \/ task[t].at \in {"enabled", "waiting"}]]

\* Mutant: a stop leaves a queued collector its lease.
StoppedByDraining ==
    /\ stop_at' = IF stop_at = "none" THEN "set" ELSE stop_at
    /\ map_stop' = (map_stop \/ mapped)
    /\ IF lease = "STARTUP" THEN lease' = "FINAL" /\ phase' = "Incomplete"
       ELSE /\ phase' = IF phase \in Terminal THEN phase ELSE "Draining"
            /\ UNCHANGED lease

\* Mutant: a stop that comes late puts an ended log back to draining.
StoppedAgain ==
    /\ stop_at' = IF stop_at = "none" THEN "set" ELSE stop_at
    /\ map_stop' = (map_stop \/ mapped)
    /\ IF lease \in {"STARTUP", "QUEUED"} THEN lease' = "FINAL" /\ phase' = "Incomplete"
       ELSE phase' = "Draining" /\ UNCHANGED lease

\* What stop does under the lock.
Stopped ==
    /\ stop_at' = IF stop_at = "none" THEN "set" ELSE stop_at
    /\ map_stop' = (map_stop \/ mapped)
    /\ IF lease \in {"STARTUP", "QUEUED"} THEN lease' = "FINAL" /\ phase' = "Incomplete"
       ELSE /\ phase' = IF phase \in Terminal THEN phase ELSE "Draining"
            /\ UNCHANGED lease

\* LogHandle::stop by the launcher, at any time.
Stop ==
    /\ stop_at = "none"
    /\ Stopped /\ task' = Notified
    /\ UNCHANGED <<reader, mapped, reported, sink, Collecting, map_failure, allocated_to,
                   reserved_bytes, chan, frames, guest>>

\* The drain duration passes after a stop.
Elapse ==
    /\ stop_at = "set" /\ stop_at' = "elapsed"
    /\ UNCHANGED <<phase, reader, lease, mapped, reported, task, sink, Collecting, Mapping, guest>>

\* ready and finished: enable the future,
Enable(t) ==
    /\ task[t].at = "idle"
    /\ task' = [task EXCEPT ![t] = [at |-> "enabled", notified |-> FALSE]]
    /\ UNCHANGED <<Retention, reported, sink, Collecting, Mapping, guest>>

\* What ready and finished return for the present state, if they return.
Answer(t) ==
    IF t = "ready"
    THEN IF stop_at # "none" \/ phase \in Terminal THEN "refused"
         ELSE IF reader = "Ready" THEN "done" ELSE "none"
    ELSE IF phase \in Terminal THEN "done" ELSE "none"

\* Mutant: the future is enabled only after the look.
LookThenEnable(t) ==
    /\ \/ /\ task[t].at = "enabled"
          /\ task' = [task EXCEPT ![t].at = IF Answer(t) = "none" THEN "late" ELSE Answer(t)]
       \/ task[t].at = "late" /\ task' = [task EXCEPT ![t] = [at |-> "waiting", notified |-> FALSE]]
    /\ UNCHANGED <<Retention, reported, sink, Collecting, Mapping, guest>>

\* then look at the state, and only then wait.
Look(t) ==
    /\ task[t].at = "enabled"
    /\ task' = [task EXCEPT ![t].at = IF Answer(t) = "none" THEN "waiting" ELSE Answer(t)]
    /\ UNCHANGED <<Retention, reported, sink, Collecting, Mapping, guest>>

Await(t) ==
    /\ task[t].at = "waiting" /\ task[t].notified
    /\ task' = [task EXCEPT ![t] = [at |-> "idle", notified |-> FALSE]]
    /\ UNCHANGED <<Retention, reported, sink, Collecting, Mapping, guest>>

-----------------------------------------------------------------------------
\* LogSink::reader: the lease goes to a queued collector, unless a stop was first
\* (then the sink is dropped, which stops again).
Reader ==
    /\ sink = "held"
    /\ sink' = "gone" /\ task' = Notified
    /\ IF lease = "STARTUP"
       THEN /\ lease' = "QUEUED" /\ mapped' = TRUE /\ reader' = "Queued" /\ col' = "queued"
            /\ UNCHANGED <<phase, stop_at, map_stop>>
       ELSE Stopped /\ UNCHANGED <<mapped, reader, col>>
    /\ UNCHANGED <<reported, Locals, map_failure, allocated_to, reserved_bytes, chan, frames, guest>>

\* Drop of a LogSink that was never transferred.
DropSink ==
    /\ sink = "held"
    /\ sink' = "gone" /\ task' = Notified
    /\ Stopped
    /\ UNCHANGED <<reader, mapped, reported, Collecting, map_failure, allocated_to,
                   reserved_bytes, chan, frames, guest>>

\* Collector::run takes the lease, or finds it revoked.
Run ==
    /\ col = "queued"
    /\ IF lease = "QUEUED" THEN lease' = "RUNNING" /\ col' = "start"
       ELSE col' = "done" /\ UNCHANGED lease
    /\ UNCHANGED <<phase, reader, stop_at, mapped, reported, task, sink, Locals, Mapping, guest>>

Start ==
    /\ col = "start"
    /\ phase' = IF stop_at = "none" THEN "Collecting" ELSE phase
    /\ reader' = "Ready" /\ col' = "top" /\ task' = Notified
    /\ UNCHANGED <<lease, stop_at, mapped, reported, sink, Locals, Mapping, guest>>

\* A queued collector is dropped without running: stop, then the end.
DropQueued ==
    /\ col = "queued" /\ col' = "dropping"
    /\ Stopped /\ task' = Notified
    /\ UNCHANGED <<reader, mapped, reported, sink, Locals, map_failure, allocated_to,
                   reserved_bytes, chan, frames, guest>>

DropFinal ==
    /\ col = "dropping" /\ col' = "done"
    /\ phase' = "Incomplete" /\ mapped' = FALSE /\ lease' = "FINAL" /\ task' = Notified
    /\ UNCHANGED <<reader, stop_at, reported, sink, Locals, Mapping, guest>>

\* The top of the loop: a sticky failure of a producer stops the log.
Top ==
    /\ col = "top" /\ col' = "peer"
    /\ IF map_failure THEN Stopped /\ task' = Notified
       ELSE UNCHANGED <<stop_at, map_stop, lease, phase, task>>
    /\ UNCHANGED <<reader, mapped, reported, sink, Locals, map_failure, allocated_to,
                   reserved_bytes, chan, frames, guest>>

\* No process holds a lifetime endpoint: the launcher's went to the root process.
PeersGone == guest[0].pc = "gone" /\ \A c \in Channels : guest[c].pc \in {"absent", "gone"}

\* A scan starts with nothing found and the channels allocated by now.
NewScan == any' = FALSE /\ consumed' = {} /\ scan' = [at |-> 0, limit |-> allocated_to]

\* peer_closed, before any ring is looked at.
Peer ==
    /\ col = "peer" /\ col' = "scan"
    /\ closed' = (closed \/ PeersGone) /\ NewScan
    /\ UNCHANGED <<Retention, reported, task, sink, invalid, complete, budget, decoded, Mapping, guest>>

\* The endpoint's recvmsg fails, or brings a packet.
PeerError ==
    /\ col = "peer" /\ col' = "scan"
    /\ ~ invalid /\ invalid' = TRUE /\ NewScan
    /\ Stopped /\ task' = Notified
    /\ UNCHANGED <<reader, mapped, reported, sink, closed, complete, budget, decoded,
                   map_failure, allocated_to, reserved_bytes, chan, frames, guest>>

\* Decoded::accept takes frame f of a producer's stream d, or is invalid.
Acceptable(d, f) ==
    /\ ~ d.finished /\ f.sequence = d.next
    /\ CASE f.kind = "BEGIN" -> ~ d.open /\ f.offset = 0 /\ f.total <= budget
         [] f.kind = "DATA" -> d.open /\ f.total = d.length /\ f.offset = d.got /\ d.got < d.length
         [] f.kind = "END" -> d.open /\ f.total = d.length /\ f.offset = d.length /\ d.got = d.length
         [] OTHER -> ~ d.open /\ f.total = 0 /\ f.offset = 0

\* Mutant: the sequence number is not advanced past a complete record.
AcceptedInPlace(d, f) ==
    CASE f.kind = "BEGIN" -> [d EXCEPT !.open = TRUE, !.length = f.total]
      [] f.kind = "DATA" -> [d EXCEPT !.got = @ + 1]
      [] f.kind = "END" -> [d EXCEPT !.open = FALSE, !.length = 0, !.got = 0, !.records = @ + 1]
      [] OTHER -> [d EXCEPT !.finished = TRUE]

Accepted(d, f) ==
    CASE f.kind = "BEGIN" -> [d EXCEPT !.open = TRUE, !.length = f.total]
      [] f.kind = "DATA" -> [d EXCEPT !.got = @ + 1]
      [] f.kind = "END" -> [d EXCEPT !.open = FALSE, !.length = 0, !.got = 0, !.records = @ + 1,
                                     !.next = @ + 1]
      [] OTHER -> [d EXCEPT !.finished = TRUE]

\* One channel of the scan: at most one frame of a live, unfailed stream is taken;
\* a frame that is not acceptable fails its stream and stops the log.
Scan ==
    LET c == scan.at
        looks == ~ decoded[c].failed /\ chan[c].state \in {"ACTIVE", "FINISHED"} /\ frames[c] # <<>>
        f == Head(frames[c])
    IN  /\ col = "scan" /\ scan.at < scan.limit
        /\ scan' = [scan EXCEPT !.at = @ + 1]
        /\ any' = (any \/ looks)
        /\ consumed' = IF looks THEN consumed \cup {c} ELSE consumed
        /\ IF ~ looks THEN UNCHANGED <<decoded, budget, invalid, stop_at, map_stop, lease, phase, task>>
           ELSE IF Acceptable(decoded[c], f)
           THEN /\ decoded' = [decoded EXCEPT ![c] = Accepted(decoded[c], f)]
                /\ budget' = IF f.kind = "BEGIN" THEN budget - f.total ELSE budget
                /\ UNCHANGED <<invalid, stop_at, map_stop, lease, phase, task>>
           ELSE /\ decoded' = [decoded EXCEPT ![c].failed = TRUE]
                /\ invalid' = TRUE /\ Stopped /\ task' = Notified
                /\ UNCHANGED budget
        /\ UNCHANGED <<reader, mapped, reported, sink, col, closed, complete, map_failure,
                       allocated_to, reserved_bytes, chan, frames, guest>>

\* After the scan the streams are copied to the report,
Report ==
    /\ col = "scan" /\ scan.at = scan.limit /\ col' = "decide"
    /\ reported' = [c \in Channels |-> [records |-> decoded[c].records, finished |-> decoded[c].finished]]
    /\ task' = Notified
    /\ UNCHANGED <<Retention, sink, Locals, Mapping, guest>>

\* Mutant: a reserved child that never registered is taken as cancelled.
ChannelIsWholeUnlessReserved(c) ==
    \/ c # 0 /\ chan[c].state \in {"RESERVED", "CANCELLED_FORK"}
    \/ /\ chan[c].state = "FINISHED" /\ frames[c] = <<>>
       /\ decoded[c].finished /\ ~ decoded[c].open

\* Collector::complete of one channel.
ChannelIsWhole(c) ==
    IF c # 0 /\ chan[c].state = "CANCELLED_FORK" THEN chan[c].fork_result = "failed"
    ELSE /\ chan[c].state = "FINISHED" /\ chan[c].pid /\ chan[c].fork_result = "pid"
         /\ frames[c] = <<>> /\ chan[c].head = chan[c].terminal_head
         /\ decoded[c].finished /\ ~ decoded[c].open
         /\ chan[c].terminal_sequence = decoded[c].next

\* The judgement of a collection that is over at once closed and not cut off.
IsComplete == closed /\ ~ invalid /\ ~ map_failure /\ \A c \in 0 .. allocated_to - 1 : ChannelIsWhole(c)

\* The slots of the frames taken go back to the producers.
Consumed == [c \in Channels |-> IF c \in consumed THEN Tail(frames[c]) ELSE frames[c]]

\* Mutant: the collector waits for no deadline.
DecideWithoutDeadline ==
    /\ col = "decide"
    /\ frames' = Consumed
    /\ IF closed /\ ~ any THEN col' = "end" /\ complete' = IsComplete
       ELSE col' = "top" /\ UNCHANGED complete
    /\ UNCHANGED <<Retention, reported, task, sink, closed, invalid, any, consumed, scan, budget, decoded,
                   map_stop, map_failure, allocated_to, reserved_bytes, chan, guest>>

\* Mutant: the lifetime endpoint is looked at after the scan.
DecideRechecking ==
    /\ col = "decide"
    /\ frames' = Consumed
    /\ closed' = (closed \/ PeersGone)
    /\ IF stop_at = "elapsed" \/ (closed' /\ ~ any)
       THEN col' = "end" /\ complete' = (stop_at # "elapsed" /\ IsComplete)
       ELSE col' = "top" /\ UNCHANGED complete
    /\ UNCHANGED <<Retention, reported, task, sink, invalid, any, consumed, scan, budget, decoded,
                   map_stop, map_failure, allocated_to, reserved_bytes, chan, guest>>

\* The slots are given back only after the report has their records.  Past the stop
\* deadline, or closed with nothing left to read, the collection is over and judged
\* (the mapping is still when it is closed, and a cutoff is never complete),
Decide ==
    /\ col = "decide"
    /\ frames' = Consumed
    /\ IF stop_at = "elapsed" \/ (closed /\ ~ any)
       THEN col' = "end" /\ complete' = (stop_at # "elapsed" /\ IsComplete)
       ELSE col' = "top" /\ UNCHANGED complete
    /\ UNCHANGED <<Retention, reported, task, sink, closed, invalid, any, consumed, scan, budget, decoded,
                   map_stop, map_failure, allocated_to, reserved_bytes, chan, guest>>

\* and becomes the phase under it, unless a stop came between.
Conclude ==
    /\ col = "end" /\ col' = "done"
    /\ phase' = IF complete /\ stop_at = "none" THEN "Complete" ELSE "Incomplete"
    /\ mapped' = FALSE /\ lease' = "FINAL" /\ task' = Notified
    /\ UNCHANGED <<reader, stop_at, reported, sink, Locals, Mapping, guest>>

CollectorLoop == Start \/ Top \/ Peer \/ Scan \/ Report \/ Decide \/ Conclude \/ DropFinal

-----------------------------------------------------------------------------
\* The launcher starts the root process once ready() returned; it may give up instead.
Spawn ==
    /\ guest[0].pc = "absent" /\ task["ready"].at = "done"
    /\ guest' = [guest EXCEPT ![0].pc = "birth"]
    /\ UNCHANGED <<Retention, reported, task, sink, Collecting, Mapping>>

Abandon ==
    /\ guest[0].pc = "absent"
    /\ guest' = [guest EXCEPT ![0].pc = "gone"]
    /\ UNCHANGED <<Retention, reported, task, sink, Collecting, Mapping>>

\* A process ends, after its last call or in the middle of one.
Die(c) ==
    /\ guest[c].pc \notin {"absent", "gone"}
    /\ guest' = [guest EXCEPT ![c] = [NewGuest EXCEPT !.pc = "gone", !.written = guest[c].written]]
    /\ UNCHANGED <<Retention, reported, task, sink, Collecting, Mapping>>

\* What a process does to the shared memory leaves the host's side alone.
HostUnchanged == UNCHANGED <<Retention, reported, task, sink, Collecting, map_stop>>

\* SharedBuffer::activate in the process that owns the reserved channel.
Activate(c) ==
    /\ guest[c].pc = "birth" /\ chan[c].state = "RESERVED"
    /\ chan' = [chan EXCEPT ![c].state = "ACTIVE", ![c].pid = TRUE,
                            ![c].fork_result = IF c = 0 THEN "pid" ELSE @]
    /\ guest' = [guest EXCEPT ![c].pc = "idle"]
    /\ HostUnchanged /\ UNCHANGED <<map_failure, allocated_to, reserved_bytes, frames>>

\* write_record takes its bytes from the common budget before the first frame.
WriteRecord(c) ==
    /\ guest[c].pc = "idle" /\ ~ guest[c].broken /\ ~ guest[c].finished
    /\ guest[c].written < guest[c].todo
    /\ \E length \in RecordLengths :
          IF reserved_bytes + length <= ByteLimit
          THEN /\ reserved_bytes' = reserved_bytes + length
               /\ guest' = [guest EXCEPT ![c].pc = "BEGIN", ![c].length = length, ![c].sent = 0]
               /\ UNCHANGED map_failure
          ELSE /\ map_failure' = TRUE /\ guest' = [guest EXCEPT ![c].broken = TRUE]
               /\ UNCHANGED reserved_bytes
    /\ HostUnchanged /\ UNCHANGED <<allocated_to, chan, frames>>

\* finish starts with the same checks as write_record.
FinishProducer(c) ==
    /\ guest[c].pc = "idle" /\ ~ guest[c].finished
    /\ IF guest[c].broken THEN map_failure' = TRUE /\ UNCHANGED guest
       ELSE guest' = [guest EXCEPT ![c].pc = "FINISH"] /\ UNCHANGED map_failure
    /\ HostUnchanged /\ UNCHANGED <<allocated_to, reserved_bytes, chan, frames>>

\* The frame a process sends next, and where it goes then.
NextFrame(g) ==
    [kind |-> g.pc, sequence |-> g.sequence,
     total |-> IF g.pc = "FINISH" THEN 0 ELSE g.length,
     offset |-> IF g.pc = "DATA" THEN g.sent ELSE IF g.pc = "END" THEN g.length ELSE 0]

Sent(g) ==
    CASE g.pc = "BEGIN" -> [g EXCEPT !.pc = IF g.length = 0 THEN "END" ELSE "DATA"]
      [] g.pc = "DATA" -> [g EXCEPT !.sent = @ + 1, !.pc = IF g.sent + 1 = g.length THEN "END" ELSE "DATA"]
      [] g.pc = "END" -> [g EXCEPT !.pc = "idle", !.sequence = @ + 1, !.written = @ + 1,
                                   !.length = 0, !.sent = 0]
      [] OTHER -> [g EXCEPT !.pc = "terminal"]

\* send: a stopped mapping refuses the frame, a full ring makes the process wait.
Send(c) ==
    /\ guest[c].pc \in {"BEGIN", "DATA", "END", "FINISH"}
    /\ \/ /\ map_stop /\ map_failure' = TRUE
          /\ guest' = [guest EXCEPT ![c].pc = "idle", ![c].broken = TRUE]
          /\ UNCHANGED <<chan, frames>>
       \/ /\ ~ map_stop /\ Len(frames[c]) < RingSlots
          /\ frames' = [frames EXCEPT ![c] = Append(@, NextFrame(guest[c]))]
          /\ chan' = [chan EXCEPT ![c].head = @ + 1]
          /\ guest' = [guest EXCEPT ![c] = Sent(guest[c])]
          /\ UNCHANGED map_failure
    /\ HostUnchanged /\ UNCHANGED <<allocated_to, reserved_bytes>>

\* finish stores the terminal words after the FINISH frame is committed.
StoreFinished(c) ==
    /\ guest[c].pc = "terminal"
    /\ chan' = [chan EXCEPT ![c].state = "FINISHED", ![c].terminal_head = chan[c].head,
                            ![c].terminal_sequence = guest[c].sequence]
    /\ guest' = [guest EXCEPT ![c].pc = "idle", ![c].finished = TRUE]
    /\ HostUnchanged /\ UNCHANGED <<map_failure, allocated_to, reserved_bytes, frames>>

\* reserve_child: a channel is taken, then marked; with none left the log has failed.
ReserveChild(c) ==
    /\ guest[c].pc = "idle" /\ guest[c].forks /\ guest[c].child = 0 /\ chan[c].state = "ACTIVE"
    /\ IF allocated_to < Incarnations
       THEN /\ allocated_to' = allocated_to + 1
            /\ guest' = [guest EXCEPT ![c].pc = "reserve", ![c].child = allocated_to]
            /\ UNCHANGED map_failure
       ELSE map_failure' = TRUE /\ UNCHANGED <<allocated_to, guest>>
    /\ HostUnchanged /\ UNCHANGED <<reserved_bytes, chan, frames>>

MarkReserved(c) ==
    /\ guest[c].pc = "reserve"
    /\ chan' = [chan EXCEPT ![guest[c].child].state = "RESERVED"]
    /\ guest' = [guest EXCEPT ![c].pc = "fork"]
    /\ HostUnchanged /\ UNCHANGED <<map_failure, allocated_to, reserved_bytes, frames>>

\* The guest's fork itself, which may fail.
Fork(c) ==
    /\ guest[c].pc = "fork"
    /\ \/ guest' = [guest EXCEPT ![c].pc = "resolve", ![guest[c].child].pc = "birth"]
       \/ guest' = [guest EXCEPT ![c].pc = "cancel"]
    /\ HostUnchanged /\ UNCHANGED <<map_failure, allocated_to, reserved_bytes, chan, frames>>

\* resolve_fork in the parent: the child's pid, or two stores that cancel the channel.
ResolveFork(c) ==
    LET child == guest[c].child IN
    /\ \/ /\ guest[c].pc = "resolve"
          /\ chan' = [chan EXCEPT ![child].pid = TRUE, ![child].fork_result = "pid"]
          /\ guest' = [guest EXCEPT ![c].pc = "idle"]
       \/ /\ guest[c].pc = "cancel"
          /\ chan' = [chan EXCEPT ![child].state = "CANCELLED_FORK"]
          /\ guest' = [guest EXCEPT ![c].pc = "cancelled"]
       \/ /\ guest[c].pc = "cancelled"
          /\ chan' = [chan EXCEPT ![child].fork_result = "failed"]
          /\ guest' = [guest EXCEPT ![c].pc = "idle"]
    /\ HostUnchanged /\ UNCHANGED <<map_failure, allocated_to, reserved_bytes, frames>>

GuestStep(c) ==
    \/ Activate(c) \/ WriteRecord(c) \/ FinishProducer(c) \/ Send(c) \/ StoreFinished(c)
    \/ ReserveChild(c) \/ MarkReserved(c) \/ Fork(c) \/ ResolveFork(c) \/ Die(c)

TaskStep(t) == Enable(t) \/ Look(t) \/ Await(t)

RetainedNext ==
    \/ Stop \/ Elapse \/ Reader \/ DropSink \/ Run \/ DropQueued \/ PeerError \/ CollectorLoop
    \/ Spawn \/ Abandon
    \/ \E t \in Tasks : TaskStep(t)
    \/ \E c \in Channels : GuestStep(c)

\* Time passes, a thread that has taken the lease is scheduled, and the
\* runtime polls its tasks.  That a queued collector ever runs, that a
\* sink is used and that a process goes on are not assumed.
RetainedSpec ==
    /\ RetainedInit /\ [][RetainedNext]_rVars
    /\ WF_rVars(Elapse) /\ WF_rVars(CollectorLoop) /\ \A t \in Tasks : WF_rVars(TaskStep(t))

-----------------------------------------------------------------------------
RetainedTypeOK ==
    /\ phase \in {"NotStarted", "Collecting", "Draining"} \cup Terminal
    /\ reader \in {"Unassigned", "Queued", "Ready"} /\ lease \in {"STARTUP", "QUEUED", "RUNNING", "FINAL"}
    /\ stop_at \in {"none", "set", "elapsed"}
    /\ allocated_to \in 1 .. Incarnations /\ reserved_bytes \in 0 .. ByteLimit /\ budget \in 0 .. ByteLimit
    /\ \A c \in Channels : Len(frames[c]) <= RingSlots /\ frames[c] \in Seq([kind : {"BEGIN", "DATA", "END", "FINISH"},
                                  sequence : Nat, total : Nat, offset : Nat])

\* A log that says Complete is complete: every channel handed out was either cancelled by a
\* failed fork or finished by its process, whose every committed record is in the report.
CompleteIsWhole ==
    phase = "Complete" =>
        \A c \in 0 .. allocated_to - 1 :
            \/ chan[c].state = "CANCELLED_FORK" /\ guest[c].pc = "absent"
            \/ reported[c] = [records |-> guest[c].written, finished |-> TRUE]

\* A log says Incomplete only for a reason: a stop, a producer's failure, a bad lifetime
\* endpoint, or a process that was reserved or started and did not finish.
IncompleteHasCause ==
    phase = "Incomplete" =>
        \/ stop_at # "none" \/ map_failure \/ invalid
        \/ \E c \in 0 .. allocated_to - 1 :
              \/ chan[c].state \notin {"FINISHED", "CANCELLED_FORK"}
              \/ chan[c].fork_result = "none"

\* The frames of a producer, however they interleave with the scans, are never rejected.
ProducersAreAccepted == \A c \in Channels : ~ decoded[c].failed

\* The lease is final exactly when the report is terminal: whoever ended the log, under
\* the lock, ended both.
LeaseIsThePhase == phase \in Terminal <=> lease = "FINAL"

\* LogHandle, LogSink and Collector agree on one honest end of the log.
RetainedIsHonest ==
    RetainedTypeOK /\ CompleteIsWhole /\ IncompleteHasCause /\ ProducersAreAccepted /\ LeaseIsThePhase

\* A terminal report stays as it is: no late stop, revoked collector or dropped sink
\* reopens it.
TerminalStays ==
    [][(phase \in Terminal) => (phase' = phase /\ reported' = reported)]_rVars

\* Every stop ends the log, also one that finds the collector queued and never scheduled;
\* so does the end of all processes under a running collector.
LogEnds ==
    /\ stop_at # "none" ~> phase \in Terminal
    /\ lease = "RUNNING" /\ PeersGone ~> phase \in Terminal

\* No wakeup of ready() or finished() is lost.
WaitersReturn ==
    /\ stop_at # "none" ~> task["ready"].at \in {"done", "refused", "absent"}
    /\ reader = "Ready" ~> task["ready"].at \in {"done", "refused", "absent"}
    /\ phase \in Terminal ~> task["finished"].at \in {"done", "absent"}
=============================================================================
