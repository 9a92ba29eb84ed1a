----------------------------- MODULE OrderedLog -----------------------------
(***************************************************************************)
(* The ordered (V4) capture buffer of reverie-rpc-transport                *)
(* (src/guest_log/buffer/ordered.rs and the parts of buffer.rs it uses):   *)
(* a host producer (0), a root guest (1) and the guests it forks write     *)
(* records of BEGIN, DATA and END frames to rings in shared memory, each   *)
(* record under a credit; END takes a capture-wide order inside an         *)
(* admission that can be closed at any time; one collector puts the records*)
(* back in order.                                                          *)
(*                                                                         *)
(* A step is one access another process can tell apart; a process that is  *)
(* killed between two of them is one that takes no further step, which the *)
(* specification without fairness allows anywhere.  A record's content     *)
(* is its length, one DATA frame a unit of it.  Futex waits are retries    *)
(* (every waiter in the code polls) that a deadline may end.  The V3 stop  *)
(* word, counter overflow and descriptor passing are left out.             *)
(***************************************************************************)
EXTENDS Integers, Sequences, FiniteSetsExt

CONSTANTS Producers,      \* producers of the mapping, at least 2
          Slots,          \* frames of a ring
          PendingRecords, \* credits; the lower half is the host's
          PendingBytes,   \* limit of each role's bytes
          Lengths,        \* lengths of records
          MaxRecords      \* records each producer writes

ASSUME OrderedBounds ==
    /\ Producers \in Nat /\ Producers >= 2
    /\ PendingRecords \in Nat /\ PendingRecords >= 2
    /\ Slots \in Nat \ {0} /\ PendingBytes \in Nat 
    /\ MaxRecords \in [0 .. Producers - 1 -> Nat]
    /\ Lengths \subseteq 0 .. PendingBytes

P == 0 .. Producers - 1
Roles == {"host", "guest"}
RoleOf(p) == IF p = 0 THEN "host" ELSE "guest"
Credits == 0 .. PendingRecords - 1
CreditsOf(role) == {c \in Credits : (c < PendingRecords \div 2) <=> role = "host"}

VARIABLES
    admission,      \* per role: closed, entrants
    used,           \* per role: bytes charged
    next_order, order_fault, guest_failure, failure,
    credits,        \* state, generation, producer, sequence, length, order
    allocated,      \* channels in use
    channel,        \* state, pid, fork_result, head, terminal_head, terminal_sequence
    ring,           \* the frames between a channel's tail and its head
    w,              \* the producers' private state
    \* the collector
    partial, sequences, finished, rejected, pending, next,
    held,           \* records delivered and not yet released
    observed,       \* commits_observed has said yes
    committed, out  \* history: the records by order; the records as delivered

sharedVars == <<admission, used, next_order, order_fault, guest_failure, failure, credits>>
channelVars == <<allocated, channel, ring>>
collectorVars == <<partial, sequences, finished, rejected, pending, next, held, observed, out>>
oVars == <<sharedVars, channelVars, w, collectorVars, committed>>

Channel(state) == [state |-> state, pid |-> FALSE, fork_result |-> "none", head |-> 0,
                   terminal_head |-> 0, terminal_sequence |-> 0]
Writer(pc) == [pc |-> pc, checked |-> FALSE, broken |-> FALSE, finished |-> FALSE,
               sequence |-> 1, length |-> 0, sent |-> 0, credit |-> 0, order |-> 0, child |-> 0]
NoPartial == [set |-> FALSE]

OrderedInit ==
    /\ admission = [r \in Roles |-> [closed |-> FALSE, entrants |-> 0]]
    /\ used = [r \in Roles |-> 0]
    /\ next_order = 1 /\ order_fault = FALSE /\ guest_failure = FALSE /\ failure = FALSE
    /\ credits = [c \in Credits |-> [state |-> "FREE", generation |-> 0, producer |-> 0,
                                     sequence |-> 0, length |-> 0, order |-> 0]]
    /\ allocated = 2
    /\ channel = [p \in P |-> Channel(IF p < 2 THEN "RESERVED" ELSE "UNUSED")]
    /\ ring = [p \in P |-> <<>>]
    /\ w = [p \in P |-> Writer(IF p < 2 THEN "start" ELSE "absent")]
    /\ partial = [p \in P |-> NoPartial]
    /\ sequences = [p \in P |-> 1]
    /\ finished = [p \in P |-> FALSE] /\ rejected = [p \in P |-> FALSE]
    /\ pending = {} /\ next = 1 /\ held = {} /\ observed = FALSE
    /\ committed = <<>> /\ out = <<>>

-----------------------------------------------------------------------------
\* check: "ok", or the error it returns.
check(role) ==
    IF order_fault \/ failure THEN "Invalid"
    ELSE IF admission[role].closed \/ (role = "guest" /\ guest_failure) THEN "Stopped"
    ELSE "ok"

Runs(p, pc) == w[p].pc = pc
Becomes(p, r) == w' = [w EXCEPT ![p] = r]
Goto(p, pc) == Becomes(p, [w[p] EXCEPT !.pc = pc])

\* write_record's error path: the producer is broken, and every error but
\* Stopped is a fault of the capture.
Refuse(p, error) ==
    /\ Becomes(p, [w[p] EXCEPT !.pc = "idle", !.broken = TRUE])
    /\ order_fault' = (order_fault \/ error # "Stopped")

\* activate
Activate(p) ==
    /\ Runs(p, "start")
    /\ IF check(RoleOf(p)) # "ok" THEN Goto(p, "gone") /\ UNCHANGED channel
       ELSE /\ Goto(p, "idle")
            /\ channel' = [channel EXCEPT ![p].state = "ACTIVE", ![p].pid = TRUE,
                                          ![p].fork_result = IF p < 2 THEN "pid" ELSE @]
    /\ UNCHANGED <<sharedVars, allocated, ring, collectorVars, committed>>

\* write_record: its guard,
StartRecord(p, n) ==
    /\ Runs(p, "idle") /\ ~w[p].broken /\ ~w[p].finished /\ w[p].sequence <= MaxRecords[p]
    /\ Becomes(p, [w[p] EXCEPT !.pc = "reserve", !.length = n, !.sent = 0, !.checked = FALSE])
    /\ UNCHANGED <<sharedVars, channelVars, collectorVars, committed>>

\* reserve: a free credit of the role's half (the scan may pass one that is
\* freed behind it),
Reserve(p) ==
    /\ Runs(p, "reserve")
    /\ LET error == check(RoleOf(p))
       IN  IF error # "ok" THEN Refuse(p, error) /\ UNCHANGED credits
           ELSE \E c \in CreditsOf(RoleOf(p)) :
                  /\ credits[c].state = "FREE"
                  /\ credits' = [credits EXCEPT ![c].state = "RESERVED"]
                  /\ Becomes(p, [w[p] EXCEPT !.pc = "charge", !.credit = c])
                  /\ UNCHANGED order_fault
    /\ UNCHANGED <<admission, used, next_order, guest_failure, failure, channelVars,
                   collectorVars, committed>>

\* Mutant: a reservation that finds no bytes keeps its credit.
ChargeKeepingCredit(p) ==
    /\ Runs(p, "charge")
    /\ LET r == RoleOf(p)
           c == w[p].credit
       IN  IF used[r] + w[p].length <= PendingBytes
           THEN /\ used' = [used EXCEPT ![r] = @ + w[p].length]
                /\ credits' = [credits EXCEPT ![c] =
                       [state |-> "RESERVED", generation |-> @.generation + 1, producer |-> p,
                        sequence |-> w[p].sequence, length |-> w[p].length, order |-> 0]]
                /\ Goto(p, "BEGIN")
           ELSE Goto(p, "reserve") /\ UNCHANGED <<used, credits>>
    /\ UNCHANGED <<admission, next_order, order_fault, guest_failure, failure, channelVars,
                   collectorVars, committed>>

\* then its bytes, or the credit goes back and reserve starts over.
Charge(p) ==
    /\ Runs(p, "charge")
    /\ LET r == RoleOf(p)
           c == w[p].credit
       IN  IF used[r] + w[p].length <= PendingBytes
           THEN /\ used' = [used EXCEPT ![r] = @ + w[p].length]
                /\ credits' = [credits EXCEPT ![c] =
                       [state |-> "RESERVED", generation |-> @.generation + 1, producer |-> p,
                        sequence |-> w[p].sequence, length |-> w[p].length, order |-> 0]]
                /\ Goto(p, "BEGIN")
           ELSE /\ credits' = [credits EXCEPT ![c].state = "FREE"]
                /\ Goto(p, "reserve")
                /\ UNCHANGED used
    /\ UNCHANGED <<admission, next_order, order_fault, guest_failure, failure, channelVars,
                   collectorVars, committed>>

Full(p) == Len(ring[p]) >= Slots

Frame(p, kind, c, order) ==
    [kind |-> kind, sequence |-> w[p].sequence, total |-> IF kind = "FINISH" THEN 0 ELSE w[p].length,
     offset |-> IF kind = "DATA" THEN w[p].sent ELSE IF kind = "END" THEN w[p].length ELSE 0,
     credit |-> c, generation |-> credits[c].generation, order |-> order]

Publish(p, frame) ==
    /\ ring' = [ring EXCEPT ![p] = Append(@, frame)]
    /\ channel' = [channel EXCEPT ![p].head = @ + 1]

AfterBegin(p, sent) == IF sent < w[p].length THEN "DATA" ELSE "END"

\* send, first half: the check before each try,
SendCheck(p) ==
    /\ w[p].pc \in {"BEGIN", "DATA", "FINISH"} /\ ~w[p].checked
    /\ LET error == check(RoleOf(p))
       IN  IF error = "ok" THEN Becomes(p, [w[p] EXCEPT !.checked = TRUE]) /\ UNCHANGED order_fault
           ELSE Refuse(p, IF w[p].pc = "FINISH" THEN "Stopped" ELSE error)
    /\ UNCHANGED <<admission, used, next_order, guest_failure, failure, credits, channelVars,
                   collectorVars, committed>>

\* second half: publish, or wait and check again.
SendPublish(p) ==
    /\ w[p].pc \in {"BEGIN", "DATA", "FINISH"} /\ w[p].checked
    /\ IF Full(p)
       THEN Becomes(p, [w[p] EXCEPT !.checked = FALSE]) /\ UNCHANGED <<channel, ring>>
       ELSE LET sent == IF w[p].pc = "DATA" THEN w[p].sent + 1 ELSE w[p].sent
            IN  /\ Publish(p, Frame(p, w[p].pc, w[p].credit, 0))
                /\ Becomes(p, [w[p] EXCEPT !.checked = FALSE, !.sent = sent,
                                 !.pc = IF @ = "FINISH" THEN "terminal" ELSE AfterBegin(p, sent)])
    /\ UNCHANGED <<sharedVars, allocated, collectorVars, committed>>

\* A wait for a credit or for a slot ends at the caller's deadline.
GiveUp(p) ==
   
    /\ \/ /\ w[p].pc = "reserve"
          /\ \/ \A c \in CreditsOf(RoleOf(p)) : credits[c].state # "FREE"
             \/ used[RoleOf(p)] + w[p].length > PendingBytes
       \/ w[p].pc \in {"BEGIN", "DATA", "FINISH", "END"} /\ Full(p)
    /\ Refuse(p, IF w[p].pc = "FINISH" THEN "Stopped" ELSE "Full")
    /\ UNCHANGED <<admission, used, next_order, guest_failure, failure, credits, channelVars,
                   collectorVars, committed>>

\* The commit: END waits for its slot,
EndRoom(p) ==
    /\ Runs(p, "END")
    /\ LET error == check(RoleOf(p))
       IN  IF error # "ok" THEN Refuse(p, error)
           ELSE ~Full(p) /\ Goto(p, "enter") /\ UNCHANGED order_fault
    /\ UNCHANGED <<admission, used, next_order, guest_failure, failure, credits, channelVars,
                   collectorVars, committed>>

\* enter: the admission is taken in one access, if it is not closed,
Enter(p) ==
    /\ Runs(p, "enter")
    /\ LET error == check(RoleOf(p))
       IN  IF error # "ok" THEN Refuse(p, error) /\ UNCHANGED admission
           ELSE /\ Goto(p, "recheck")
                /\ admission' = [admission EXCEPT ![RoleOf(p)].entrants = @ + 1]
                /\ UNCHANGED order_fault
    /\ UNCHANGED <<used, next_order, guest_failure, failure, credits, channelVars,
                   collectorVars, committed>>

\* the state is checked again inside (an error drops the entrant),
Recheck(p) ==
    /\ Runs(p, "recheck")
    /\ LET error == check(RoleOf(p))
       IN  IF error = "ok" THEN Goto(p, "order") /\ UNCHANGED <<order_fault, admission>>
           ELSE /\ Refuse(p, error)
                /\ admission' = [admission EXCEPT ![RoleOf(p)].entrants = @ - 1]
    /\ UNCHANGED <<used, next_order, guest_failure, failure, credits, channelVars,
                   collectorVars, committed>>

\* the order is taken,
TakeOrder(p) ==
    /\ Runs(p, "order")
    /\ next_order' = next_order + 1
    /\ Becomes(p, [w[p] EXCEPT !.pc = "commit", !.order = next_order])
    /\ committed' = Append(committed, [producer |-> p, sequence |-> w[p].sequence,
                                       length |-> w[p].length])
    /\ UNCHANGED <<admission, used, order_fault, guest_failure, failure, credits, channelVars,
                   collectorVars>>

\* Mutant: END is published before the credit is committed.
CommitLate(p) ==
    /\ Runs(p, "commit")
    /\ Publish(p, Frame(p, "END", w[p].credit, w[p].order))
    /\ Goto(p, "leave")
    /\ UNCHANGED <<sharedVars, allocated, collectorVars, committed>>

\* the credit is committed and END becomes visible with the head,
Commit(p) ==
    /\ Runs(p, "commit")
    /\ credits' = [credits EXCEPT ![w[p].credit].order = w[p].order,
                                  ![w[p].credit].state = "COMMITTED"]
    /\ Publish(p, Frame(p, "END", w[p].credit, w[p].order))
    /\ Goto(p, "leave")
    /\ UNCHANGED <<admission, used, next_order, order_fault, guest_failure, failure, allocated,
                   collectorVars, committed>>

\* and the entrant leaves.
Leave(p) ==
    /\ Runs(p, "leave")
    /\ admission' = [admission EXCEPT ![RoleOf(p)].entrants = @ - 1]
    /\ Becomes(p, [w[p] EXCEPT !.pc = "idle", !.sequence = @ + 1, !.order = 0])
    /\ UNCHANGED <<used, next_order, order_fault, guest_failure, failure, credits, channelVars,
                   collectorVars, committed>>

\* finish: its own check, then send, then the terminal words of the channel.
StartFinish(p) ==
    /\ Runs(p, "idle") /\ ~w[p].broken /\ ~w[p].finished
    /\ check(RoleOf(p)) = "ok"
    /\ Becomes(p, [w[p] EXCEPT !.pc = "FINISH", !.checked = FALSE])
    /\ UNCHANGED <<sharedVars, channelVars, collectorVars, committed>>

Terminal(p) ==
    /\ Runs(p, "terminal")
    /\ Becomes(p, [w[p] EXCEPT !.pc = "idle", !.finished = TRUE])
    /\ channel' = [channel EXCEPT ![p].terminal_sequence = w[p].sequence,
                                  ![p].terminal_head = channel[p].head,
                                  ![p].state = "FINISHED"]
    /\ UNCHANGED <<sharedVars, allocated, ring, collectorVars, committed>>

-----------------------------------------------------------------------------
\* A guest forks: reserve_child, fork, and resolve_fork with its result; the
\* child activates at any time after the fork.
ReserveChild(p) ==
    /\ Runs(p, "idle") /\ p # 0 /\ channel[p].state = "ACTIVE" /\ check("guest") = "ok"
    /\ IF allocated < Producers
       THEN /\ allocated' = allocated + 1
            /\ channel' = [channel EXCEPT ![allocated].state = "RESERVED"]
            /\ Becomes(p, [w[p] EXCEPT !.pc = "fork", !.child = allocated])
            /\ UNCHANGED failure
       ELSE failure' = TRUE /\ UNCHANGED <<allocated, channel, w>>
    /\ UNCHANGED <<admission, used, next_order, order_fault, guest_failure, credits, ring,
                   collectorVars, committed>>

Fork(p) ==
    /\ Runs(p, "fork")
    /\ w' = [w EXCEPT ![p].pc = "resolve", ![w[p].child] = Writer("start")]
    /\ UNCHANGED <<sharedVars, channelVars, collectorVars, committed>>

ResolveFork(p) ==
    /\ w[p].pc \in {"fork", "resolve"}
    /\ Goto(p, "idle")
    /\ channel' = IF w[p].pc = "fork"
                  THEN [channel EXCEPT ![w[p].child].state = "CANCELLED_FORK",
                                       ![w[p].child].fork_result = "failed"]
                  ELSE [channel EXCEPT ![w[p].child].pid = TRUE, ![w[p].child].fork_result = "pid"]
    /\ UNCHANGED <<sharedVars, allocated, ring, collectorVars, committed>>

-----------------------------------------------------------------------------
\* Admissions are closed by the owner, by a stop of the guest or by the guest's
\* end; fail_guest is the guest's own report.
close(role) ==
    /\ admission' = [admission EXCEPT ![role].closed = TRUE]
    /\ UNCHANGED <<used, next_order, order_fault, guest_failure, failure, credits, channelVars, w,
                   collectorVars, committed>>

fail_guest ==
    /\ guest_failure' = TRUE
    /\ admission' = [admission EXCEPT !["guest"].closed = TRUE]
    /\ UNCHANGED <<used, next_order, order_fault, failure, credits, channelVars, w, collectorVars,
                   committed>>

\* unresolved_guest_commit, at the collector's cutoff.
Cutoff ==
    /\ admission["guest"].closed /\ admission["guest"].entrants # 0
    /\ order_fault' = TRUE
    /\ UNCHANGED <<admission, used, next_order, guest_failure, failure, credits, channelVars, w,
                   collectorVars, committed>>

\* accept's conditions on a frame of channel p.
Acceptable(p, f) ==
    LET c == credits[f.credit]
        q == partial[p]
    IN  /\ ~finished[p] /\ f.sequence = sequences[p]
        /\ CASE f.kind = "BEGIN" ->
                  /\ ~q.set /\ f.offset = 0
                  /\ c.state \in {"RESERVED", "COMMITTED"}
                  /\ c.generation = f.generation /\ c.producer = p
                  /\ c.sequence = f.sequence /\ c.length = f.total
             [] f.kind = "DATA" ->
                  q.set /\ f.total = q.length /\ f.offset = q.got /\ q.got < q.length
             [] f.kind = "END" ->
                  /\ q.set /\ f.total = q.length /\ f.offset = f.total /\ q.got = q.length
                  /\ f.credit = q.credit /\ f.generation = q.generation
                  /\ f.order >= next /\ \A r \in pending : r.order # f.order
                  /\ c.state = "COMMITTED" /\ c.order = f.order
             [] f.kind = "FINISH" -> ~q.set /\ f.total = 0 /\ f.offset = 0

\* Mutant: a channel is read once it holds the end of a record.
ReadableWhole(p) ==
    p < allocated /\ ~rejected[p] /\ \E i \in DOMAIN ring[p] : ring[p][i].kind \in {"END", "FINISH"}

\* The channels that poll reads a frame of.
Readable(p) == p < allocated /\ ~rejected[p] /\ ring[p] # <<>>

\* poll reads a frame of a channel and accepts it, or keeps it as the channel's
\* rejected frame.
PollRead(p) ==
    /\ Readable(p)
    /\ LET f == Head(ring[p])
       IN  IF ~Acceptable(p, f)
           THEN /\ rejected' = [rejected EXCEPT ![p] = TRUE]
                /\ order_fault' = TRUE
                /\ UNCHANGED <<ring, partial, pending, sequences, finished>>
           ELSE /\ ring' = [ring EXCEPT ![p] = Tail(@)]
                /\ partial' = [partial EXCEPT ![p] =
                       CASE f.kind = "BEGIN" -> [set |-> TRUE, credit |-> f.credit, got |-> 0,
                                                 generation |-> f.generation, length |-> f.total]
                         [] f.kind = "DATA" -> [@ EXCEPT !.got = @ + 1]
                         [] OTHER -> NoPartial]
                /\ pending' = IF f.kind # "END" THEN pending
                              ELSE pending \cup
                                  {[order |-> f.order, producer |-> p, sequence |-> f.sequence,
                                    credit |-> f.credit, generation |-> f.generation,
                                    length |-> partial[p].got]}
                /\ sequences' = [sequences EXCEPT ![p] = IF f.kind = "END" THEN @ + 1 ELSE @]
                /\ finished' = [finished EXCEPT ![p] = @ \/ f.kind = "FINISH"]
                /\ UNCHANGED <<rejected, order_fault>>
    /\ UNCHANGED <<admission, used, next_order, guest_failure, failure, credits, allocated,
                   channel, w, next, held, observed, out, committed>>

\* Mutant: poll hands out whatever is there.
PollTakeAny ==
    /\ ~order_fault
    /\ \E r \in pending :
         /\ pending' = pending \ {r} /\ held' = held \cup {r} /\ next' = next + 1
         /\ out' = Append(out, [producer |-> r.producer, sequence |-> r.sequence, length |-> r.length])
    /\ UNCHANGED <<sharedVars, channelVars, w, partial, sequences, finished, rejected, observed,
                   committed>>

\* poll hands out the next record in order, unless the order has failed.
PollTake ==
    /\ ~order_fault
    /\ \E r \in pending :
         /\ r.order = next
         /\ pending' = pending \ {r} /\ held' = held \cup {r} /\ next' = next + 1
         /\ out' = Append(out, [producer |-> r.producer, sequence |-> r.sequence, length |-> r.length])
    /\ UNCHANGED <<sharedVars, channelVars, w, partial, sequences, finished, rejected, observed,
                   committed>>

\* Mutant: entrants are not waited for.
SettledEarly == \A r \in Roles : admission[r].closed

Settled == \A r \in Roles : admission[r].closed /\ admission[r].entrants = 0
Drained == \A p \in 0 .. allocated - 1 : ring[p] = <<>>
Hole == pending # {} \/ next # next_order

\* commits_observed
CommitsObserved ==
    /\ ~order_fault /\ Settled /\ Drained /\ \A r \in pending : r.order # next
    /\ IF Hole THEN order_fault' = TRUE /\ UNCHANGED observed
       ELSE observed' = TRUE /\ UNCHANGED order_fault
    /\ UNCHANGED <<admission, used, next_order, guest_failure, failure, credits, channelVars, w,
                   partial, sequences, finished, rejected, pending, next, held, out, committed>>

\* Mutant: the bytes of a released credit stay charged.
ReleaseStartFree(r) ==
    /\ r \in held /\ held' = held \ {r}
    /\ credits' = [credits EXCEPT ![r.credit].state = "FREE"]
    /\ UNCHANGED <<admission, used, next_order, order_fault, guest_failure, failure, channelVars, w,
                   partial, sequences, finished, rejected, pending, next, observed, out, committed>>

\* Record::release by the publication worker: the credit is claimed and its bytes
\* given back,
ReleaseStart(r) ==
    /\ r \in held
    /\ LET c == credits[r.credit]
       IN  IF c.generation = r.generation /\ c.order = r.order /\ c.state = "COMMITTED"
           THEN /\ credits' = [credits EXCEPT ![r.credit].state = "RELEASING"]
                /\ used' = [used EXCEPT ![RoleOf(r.producer)] = @ - c.length]
                /\ UNCHANGED order_fault
           ELSE order_fault' = TRUE /\ UNCHANGED <<credits, used>>
    /\ held' = held \ {r}
    /\ UNCHANGED <<admission, next_order, guest_failure, failure, channelVars, w, partial, sequences,
                   finished, rejected, pending, next, observed, out, committed>>

\* Mutant: a credit is freed when its record is committed.
ReleaseEndEarly(c) ==
    /\ credits[c].state \in {"COMMITTED", "RELEASING"}
    /\ credits' = [credits EXCEPT ![c].state = "FREE"]
    /\ UNCHANGED <<admission, used, next_order, order_fault, guest_failure, failure, channelVars, w,
                   collectorVars, committed>>

\* then it is free.
ReleaseEnd(c) ==
    /\ credits[c].state = "RELEASING"
    /\ credits' = [credits EXCEPT ![c].state = "FREE"]
    /\ UNCHANGED <<admission, used, next_order, order_fault, guest_failure, failure, channelVars, w,
                   collectorVars, committed>>

-----------------------------------------------------------------------------
\* Mutant: a child that has not come up yet is taken for a failed fork.
ChannelCameUp(p) ==
    LET c == channel[p]
    IN  \/ p > 1 /\ c.state \in {"RESERVED", "CANCELLED_FORK"}
        \/ /\ c.state = "FINISHED" /\ c.pid /\ c.fork_result = "pid"
           /\ ring[p] = <<>> /\ c.head = c.terminal_head
           /\ finished[p] /\ ~partial[p].set /\ c.terminal_sequence = sequences[p]

\* guest_complete: every guest channel is a failed fork, or finished with its
\* FINISH, its terminal words and its parent's result agreeing.
ChannelComplete(p) ==
    LET c == channel[p]
    IN  \/ p > 1 /\ c.state = "CANCELLED_FORK" /\ c.fork_result = "failed"
        \/ /\ c.state = "FINISHED" /\ c.pid /\ c.fork_result = "pid"
           /\ ring[p] = <<>> /\ c.head = c.terminal_head
           /\ finished[p] /\ ~partial[p].set /\ c.terminal_sequence = sequences[p]

guest_complete ==
    ~order_fault /\ ~guest_failure /\ \A p \in 1 .. allocated - 1 : ChannelComplete(p)

ProducerStep(p) ==
    \/ Reserve(p) \/ Charge(p) \/ SendCheck(p) \/ SendPublish(p) \/ EndRoom(p) \/ Enter(p)
    \/ Recheck(p) \/ TakeOrder(p) \/ Commit(p) \/ Leave(p) \/ Terminal(p)

ProducerStarts(p) ==
    \/ Activate(p) \/ StartFinish(p) \/ GiveUp(p)
    \/ \E n \in Lengths : StartRecord(p, n)
    \/ ReserveChild(p) \/ Fork(p) \/ ResolveFork(p)

CollectorStep ==
    \/ \E p \in P : PollRead(p)
    \/ PollTake

ReleaseStep ==
    \/ \E r \in held : ReleaseStart(r)
    \/ \E c \in Credits : ReleaseEnd(c)

OrderedNext ==
    \/ \E p \in P : ProducerStep(p) \/ ProducerStarts(p)
    \/ \E r \in Roles : close(r)
    \/ fail_guest \/ Cutoff
    \/ CollectorStep \/ CommitsObserved \/ ReleaseStep

OrderedSpec == OrderedInit /\ [][OrderedNext]_oVars

\* Producers that live go on, the collector polls and the publication releases.
OrderedFairness ==
    /\ \A p \in P : WF_oVars(ProducerStep(p))
    /\ WF_oVars(CollectorStep) /\ WF_oVars(ReleaseStep)

-----------------------------------------------------------------------------
Records(S) == \A r \in S : r.order \in 1 .. next_order - 1 /\ r.credit \in Credits /\ r.producer \in P

\* Types of the shared header, the channels, the producers and the collector.
OrderedTypeOK ==
    /\ admission \in [Roles -> [closed : BOOLEAN, entrants : 0 .. Producers]]
    /\ used \in [Roles -> 0 .. PendingBytes]
    /\ next_order \in Nat \ {0} /\ {order_fault, guest_failure, failure, observed} \subseteq BOOLEAN
    /\ \A c \in Credits : credits[c].state \in {"FREE", "RESERVED", "COMMITTED", "RELEASING"}
    /\ allocated \in 2 .. Producers
    /\ \A p \in P : Len(ring[p]) <= Slots /\ sequences[p] \in 1 .. MaxRecords[p] + 1
    /\ \A p \in P : channel[p].state \in {"UNUSED", "RESERVED", "ACTIVE", "FINISHED", "CANCELLED_FORK"}
    /\ \A p \in P : w[p].pc \in {"absent", "gone", "start", "idle", "reserve", "charge", "BEGIN",
                       "DATA", "END", "enter", "recheck", "order", "commit", "leave", "FINISH",
                       "terminal", "fork", "resolve"}
    /\ Records(pending) /\ Records(held)

\* The log the producers and the reader of the capture see is an atomic one:
\* commit order is emission order, the collector delivers exactly that sequence,
\* and after commits_observed says yes no commit can appear, although producers
\* race the closing of their admission and die anywhere.
Atomic == INSTANCE AtomicLog WITH Emitters <- P, log <- committed, sealed <- observed
ImplementsLog == Atomic!LogSpec

\* The collector never refuses what the producers do: no frame is rejected, no
\* record's credit has been recycled under it, and closed, settled and drained
\* rings never show a hole, whichever producer stopped between two accesses.
CollectorNeverRefuses ==
    /\ \A p \in P : ~rejected[p]
    /\ ~order_fault /\ Settled /\ Drained /\ (\A r \in pending : r.order # next) => ~Hole
    /\ \A r \in held : LET c == credits[r.credit] IN
         c.generation = r.generation /\ c.order = r.order /\ c.state = "COMMITTED"

\* A reserved credit is one that a producer is writing with or stopped with.
NoCreditLost ==
    \A c \in Credits : credits[c].state = "RESERVED" =>
        \E p \in P : w[p].credit = c /\ (w[p].broken \/ w[p].pc \in {"charge", "BEGIN", "DATA",
                        "END", "enter", "recheck", "order", "commit"})

\* The bytes charged to a role are those of its reserved and committed credits,
\* and no credit is lost: a refused reservation gives its credit back, and a
\* producer that stops leaves its own charge and no other.
ChargeIsExact ==
    /\ NoCreditLost
    /\ \A role \in Roles :
          used[role] = MapThenSumSet(LAMBDA c : credits[c].length,
              {c \in CreditsOf(role) :
                  /\ credits[c].state \in {"RESERVED", "COMMITTED"}
                  /\ ~\E p \in P : w[p].pc = "charge" /\ w[p].credit = c})

\* The buffer's bookkeeping holds: CollectorNeverRefuses, ChargeIsExact, the types.
BufferSafe == OrderedTypeOK /\ CollectorNeverRefuses /\ ChargeIsExact

\* A guest reported complete is over: every process it ever forked has finished
\* and all its records have been accepted; nothing it does can take that back.
CompleteIsOver ==
    guest_complete => \A p \in 1 .. allocated - 1 :
        /\ w[p].finished \/ w[p].pc = "absent"
        /\ w[p].sequence = sequences[p]

\* Waits end: while the collector polls and the publication releases, an emission
\* of a live producer returns, although it waits for a credit or for bytes that a
\* record of another process holds, which waits in turn for slots and to be polled
\* in order, and although that process may give up or be refused and keep them.
WriteEnds == \A p \in P : w[p].pc = "reserve" ~> w[p].pc = "idle"

=============================================================================
