# Verification of reverie

TLA+ models of the concurrent protocols of reverie, the TLC configurations that check them
on small instances, and theorems about them whose proofs TLAPS checks for every value of
the constants (eight proof modules, some of which take ten minutes). `PROJECT.json` records, for every definition, the source lines it models, the
hazards considered, and for every property a mutation of the code that breaks it.

To check a run: `tlc -config X.cfg M`; to check proofs: `tlapm XProofs.tla`. Both need the
TLA+ community modules.

## The system and its parts

reverie intercepts the system calls of guest processes and gives them to a *Tool*. Backends
(ptrace, in-guest with seccomp or patched call sites, KVM with an emulated Linux) run the
Tool near the guest, and a *coordinator* process keeps the Tool's global state. Parts that
run concurrently meet in a few protocols, and those are what is modelled:

| Part | Source | Modules |
|---|---|---|
| Shared-memory byte stream between guest and coordinator | `reverie-rpc-transport/src/mapped.rs` | `MappedStream`, abstract `ByteChannel` |
| Its asynchronous adapter with a notification thread | `mapped/asynchronous.rs` | `AsyncStream` |
| The threads behind such adapters | `mapped/workers.rs` | `WorkerRegistry` |
| Coordinator server: accept loop, connection tasks, cancellation, retained issues, shutdown | `server.rs` | `RpcServer` |
| Lifecycle controls of one Tool run | `tool_activation.rs` | `ToolActivation`, used by `RpcServer` |
| Single-use tickets that carry Tool state across exec | `exec_ticket.rs` | `ExecTicket` |
| One native exec: driver, control stream, redemption, death | `exec_control.rs`, `reverie-inguest/src/guest/{native_exec,generic_native_exec_driver}.rs` | `NativeExec`, which extends `ExecTicket` |
| Ordered capture log in shared memory, with forks | `guest_log/buffer/ordered.rs`, `buffer.rs` | `OrderedLog`, abstract `AtomicLog` |
| Retained guest log: stop, lease, collector, reporting | `guest_log.rs`, `guest_log/buffer.rs` | `RetainedLog` |
| Publication of captured records to a destination | `guest_log/capture/publication.rs` | `Publication` |
| Admission to a KVM guest's address space | `reverie-kvm-core/src/entry.rs`, `entry/signal.rs`, `entry/vcpu_run.rs` | `EntryGate` |
| How waiters at that gate are woken | `entry.rs` | `GateChange` |
| Claiming and patching of call sites in a running guest | `reverie-liteinst/src/runtime.rs` | `PatchSites` |

How they interact: a guest's request crosses `MappedStream`; the coordinator's end is polled
through `AsyncStream`, whose worker is started and joined by `WorkerRegistry`; a task of
`RpcServer` reads it and drives `ToolActivation` and, at an exec, the tickets of
`NativeExec`. A guest's log is either retained by its launcher
(`RetainedLog`) or captured: then records go through `OrderedLog` to `Publication`. `EntryGate` and
`GateChange` are two views of one object: the first takes waiting for granted (a guard), the
second is about nothing else. `PatchSites` stands by itself: it decides, inside the guest, how
a trap reaches the Tool.

Every other part of the repository is listed with its reason in `PROJECT.json`, status
`not_modelled`; see also the last section.

## Modules, state and actions

Naming: actions and variables have the names of the functions and fields they model, `drop`
becoming `DropX`. A definition marked *Mutant* stands just before the one it mutates and is
used by no specification.

* **MappedStream.** `read`, `written`, `writer_closed`, `reader_closed`, `data` and
  `failure` are the words of the mapping. `pc` and `call` say where each endpoint is in
  `try_read` or `try_write`. Every load, store and copied byte is a step, and a process can
  die between any two. The k-th byte ever written to a ring is the number k, so a lost,
  repeated or torn byte is a wrong number. Each call carries how often the progress word was
  bumped since it sampled it, modulo `ProgressMod` (2^32 in the code). `ByteChannel` has one
  bounded queue per direction, a close flag and a sticky failure; the refinement mapping
  (`ImplementsChannel`) reads its queue off the cursors.
* **AsyncStream.** `accepting`, `cloning`, `slots` and `retired` are `Registrations`;
  `monitor` and `hand` are the worker and the node it unlinked. Bytes are reduced to
  `ready[slot]`. Cloning and waking run outside the lock and may panic.
* **WorkerRegistry.** A connection names its record, constructor, worker, helper and the
  reaper it may start. Any spawn may fail, any constructor may unwind between two steps.
* **ExecTicket.** One record per ticket: stage, sealed state, delivery. Calls run under
  the coordinator's mutex and are one step each; they are tried with right and wrong arguments.
* **NativeExec.** Adds where the driver is (`exec`), the control stream, the connections
  that redeem, and the launcher's watch. At its leaf the driver in the repository refuses and
  an embedder's issues, as the contract of `PreparedNativeExec` prescribes; the model has
  both.
* **RpcServer, ToolActivation.** A step is what a task does between two awaits. Frames are
  their kind. `options`, chosen initially among `Configurations`, says which of the
  optional parts a server has.
* **OrderedLog.** Admissions, credits, rings and commit words, one shared access a step; a
  killed producer is one that takes no further step. `AtomicLog` appends whole records to
  one sequence.
* **RetainedLog.** `phase`, `reader`, `lease`, `stop_at` are the handle's state, `task` the
  two kinds of waiters, `col` and its locals the collector's loop, `chan` and `frames` the
  shared channels, `guest` the processes. The collector's loads of one channel are a step; so
  are the looks at the lifetime endpoint, at the deadline, and the final lock. A frame keeps
  the fields `Decoded::accept` checks. `Plans` says what the guest does and who waits.
* **Publication.** Sections under the mutex, channel operations and calls of a destination
  that writes short, is interrupted, fails, panics or never returns.
* **EntryGate.** `admission`, `holder`, `generation`, `copies`, `failure` are the gate;
  `activity`, `kicks`, `run` its members' records; `pending`, `immediate_exit`, `balance`,
  `taken` the reserved signal and its accounting; `image[b]` is the generation whose
  installation last wrote byte b, so that torn, stale or unannounced images are numbers
  that differ. Kernel delivery (`interrupt`) is an action of its own.
* **GateChange.** The condition variable, the change future with its sender, the failure
  future, and notifications owed: made due under the lock, delivered after it. The counters of
  copies and of blocked threads are the sets of those they count: the code tests them for zero.
* **PatchSites.** `state`, `publication_attempted`, `words_recorded`, `instruction_len` are the
  slots of the table, `INSTALL_HELD` the lock, `code[x]` the site whose jump wrote byte x.
  `pc` and `at` follow a thread from its trap to the point where it resumes: a load or store
  another thread can tell apart is a step, a section under the lock several. The guest may
  trap at any site whose instruction is original, also inside another's eight bytes, which is
  what the checks of neighbours are there for. Mapping calls replace code no thread is in, in
  whole or in part.

## Runs

| Run | Shows |
|---|---|
| `stream_safety` | every interleaving, crash, close, abort and timeout of two endpoints: order and content, complete end of file, no lost wake-up, refinement of `ByteChannel` |
| `stream_timeouts` | a call that can return does, also when the progress word wraps and notifiers die |
| `async_stream` | no poll stays Pending past its event; a stop is seen without the timeout; the final drain consumes every Waker; the worker ends |
| `workers` | no assertion of the registry fails, no thread is detached, what is published is attended, constructors return, everything is joined in the end |
| `exec_handover` | an exec leaves the old image or hands its state to one successor; one live ticket, each state handed out at most once, nothing retained of a terminal ticket; every attempt ends |
| `server` | a receipt is given only for acknowledged controls of one connection; a cancellation drains exactly; reservations never leak when slots run out; a published intent drains |
| `log_host` | of the retained log: Complete means that every process finished and every record is reported; Incomplete has a cause; the end is final; every stop ends the log; no waiter is lost. Of publication: every byte is accounted once, a report stays true, `finish_until` returns |
| `ordered_race` | refinement of `AtomicLog`, exact charges and no credit lost, while credits, bytes and slots run out and are used again |
| `ordered_fork` | a guest said to be complete is over, with a forked child; every emission returns although the records of parent and child compete for credits and bytes |
| `gate` | closes exclude each other and a closed gate is quiet; signals are accounted for; images are whole, retained pointers keep their bytes, caches are sound; a vCPU inside a closing gate has a signal or an immediate exit pending, so that it does not depend on the guest to leave |
| `waiters` | at the gate no waiter sleeps through what it waits for, and a blocking close sees copies drain. At patch sites an emulated instruction resumes on original code, a jump that may be written is never declined as failed, an active site has its jump, no jump tears another, and every trap returns or ends the guest |
| `patch_decline` | a violation, see below |

`log_host` and `waiters` check two components each; a variable chosen initially says which of
them a behaviour is about, and the other does not move.

**A disagreement.** `patch_decline` refutes what the SAFETY comment of `LiteinstPatcher`
(`runtime.rs:3322`) and the contract of `Patcher` (`reverie-inguest/src/guest/patcher.rs:43`)
say: that a site is declined only while its code is unchanged. Two threads trap at one system
call. The first publishes the jump, and then fails to turn instruction faulting on again; it
marks the site as fallback (`runtime.rs:3390`) and refuses its trap. The second, which waited,
finds a fallback of which no jump is said to be possibly written, declines, and resumes inside
the jump. For that reason `FailureEndsGuest` speaks of failed installations only.

Two limits of what is claimed. A system call that is declined after any failure (native
enabling, a busy lock, a byte mismatch) may have a neighbour's jump over the point where it
resumes; the instruction path ends the guest there, the system call path does not look, and
`EmulationIsUntouched` is about the instruction path. And when the table is full both paths
decline without reserving anything (`runtime.rs:3323-3325`): the answer itself writes nothing,
as the comment there says, but a neighbour installed before the thread has resumed does not find
the site and may cover it. `EmulationIsUntouched` is claimed only of a table with room.

**Bounds.** Cursors, tickets, registrations, closes, entries and generations are counters
bounded by named constants; the bound stands for the code's largest value where the code
checks one (`MaxCursor`, `MaxGeneration`, `MaxClose`, `MaxRun`, `MaxTransitions`), so the
exhaustion branches run too. Each is large enough for the case that matters to happen twice:
a ring of two bytes wraps and meets the cursor limit; one-slot rings, single credits and
the bytes of one record are reused, and three records compete for them; two closers compete for one generation while a third identity is left; two
registrations supersede each other; one ticket is cancelled and another redeemed. `RetainedLog` runs with a
record that fits the byte budget and one that does not, and with a fork that may fail.
`PatchSites` has two sites of which the first's jump covers the second, a system call and an
instruction, and a table that is never full; three sites in a row were checked once as well.
In `ordered_fork` the host does not write: its half of credits and bytes is separate, and its
steps would only multiply those of the guests (`GuestsSpec`).
`RpcServer` chooses the optional parts of a server in its initial states.

**Deadlock** is not checked where the system may come to rest: endpoints that are gone,
finished workers, exhausted bounds. What must not come to rest is a liveness property.

**Fairness.** Weak fairness of a thread that can go on by itself (the operating system
schedules it; the runtime polls it) and of a notification that was begun. Beyond that:
`stream_timeouts` assumes the futex timeout, which the kernel honours; `ordered_fork` that the
collector polls and the publication worker releases what was collected, not that any deadline
passes; `waiters` has strong fairness for a deferred notification, because whoever releases
the allocation transaction delivers it, though another may begin at once; and schedules
every thread inside a trap handler; `log_host` assumes that deadlines pass, that a collector
which took the lease is scheduled, not that a queued one ever is, and nothing of the destination.
Peers, callers, aborts and
deaths are never assumed to happen.

## Proofs

All theorems hold for every value of the constants under the named assumptions next to
their declarations (non-empty rings, naturals, finite sets). Each rests on an inductive
invariant with one lemma per action.

* **MappedStreamProofs:** `FaithfulStream`: types, content, complete end of file, and a
  protocol error only at the largest cursor. Integrity alone is not inductive: that the next byte read is
  right depends on the bytes in the ring, on those being copied in beyond the published cursor
  and out before the consumed one, and on two positions less than a ring apart lying in
  different slots (`ModInjective`). `IInv` says what each slot holds between the cursors, what
  a half-done copy has moved, and that a reader which loaded the closed flag will see the
  last cursor; writer and reader then touch disjoint slots.
  `WakeupsAreKept`, that is `NoLostWakeup`: what a sleeper missed it missed earlier, so
  `WakeInv` is about the steps before the sleep. As long as the progress word has not moved
  since an endpoint sampled it, whatever it has looked at and found wanting is still wanting,
  or whoever changed it still owes the bump (`Owing`). `FUTEX_WAIT` compares the word, so only
  such an endpoint falls asleep. `StreamIsChannel`: `MappedStream` implements `ByteChannel`;
  the cursor stores map to sending and receiving, the stores of flags to closing and failing,
  and all else to stuttering. It needs `IInv` for what a receive delivers.
* **WakeupProofs**, of two components. `GateWakeupsAreKept` (`GateChange`): `NoWakeupLost`
  needs `Waiters`, that a subscriber has held the current future or a replaced one ever since
  it subscribed, and that the flag `taken` is up while anyone holds the current one.
  `AdapterIsSafe` (`AsyncStream`): `AsyncInv` adds to the types `Places`, that every Waker is in
  one place until it is consumed; `Newest`, which Waker of a slot is its last; `Polls`, what a
  poll between its attempt and its registration may rely on; `Wakes`, that a monitor which
  sleeps has nothing left to look at, or is about to be notified.
* **WorkerRecordProofs, WorkerRegistryProofs:** `ThreadsAreOwned` and `StreamsAreAttended`.
  The properties speak of a few states of many threads, so `WorkersInv` (module
  `WorkerInvariant`) says for every point of a constructor, helper, worker and reaper what its
  record and the registry hold; `OneGeneration` ties the registry's phase to the one reaper
  that was started last. The first module has the steps within one connection's record, the
  second those that change the generation of reapers, and the count of publications.
* **RpcServerProofs:** `LifecycleIsSafe`, `NoReservationLeaks`, `DrainsAreExact`. `ServerInv`
  adds to the types: `Lifecycle`, that the phase of the activation run tells where the
  primary's task is and exactly which controls it has acknowledged; `Receipted`, that a receipt
  outlives a later failure; `Applied`, that `applications` is the number of requests in the
  tool, which is why nothing is there after Finished; `Issued`, that an issue belongs to a task
  that has ended, so a reservation passes from one to the other; `Outcomes`, that outcomes are
  recorded at the join whether or not a drain follows. Connections are finite; pids are not.
* **PublicationProofs:** `PublicationIsSafe`, `ReportsStayTrue`. The accounts are sums over
  records, so the module first proves what is needed of `SumFunctionOnSet` (adding, removing
  and replacing one record, and a prefix). Induction over sets is not available, and each such
  fact is shown of a smallest counterexample instead (`Least`, `Minimal`). `PubInv` adds to the
  types: `Place`, `Queued` and `Position`, that worker, channel and acknowledged bytes are
  consecutive pieces of what was handed over; `Reservations`, that until a revocation exactly
  the bytes not yet attempted are reserved, and none after; `Accounts` and `Credits`; `Taken`,
  how far the destination can be ahead of what was acknowledged; `Reports`, that after a report
  is frozen no attempt begins, so only the one it names can still move the destination.
* **ImageProofs**, of two components. `DecisionsAreTrue` and `JumpsAreKept` (`PatchSites`), for
  all sites, lengths and threads, assuming `Room`: while a site has no slot the table is not
  full. (A full table declines a site it knows nothing of, and the first theorem is false of
  it.) `PatchInv` adds to the properties: `StateOK` and `OneInstaller`, that a site's state says
  how far its only installer is; `CodeInv`, that a byte of a jump belongs to a site with a slot
  whose publication was attempted, so that the checks under the lock find every jump there is;
  `WindowOK`, that what the holder of the lock has checked stays true until it writes;
  `ClearInv`, that nobody who passed the check of neighbours is about to cover the end of a
  settled site; `TornOK`, that a jump written and not recorded is in the hands of its
  installer or has raised the flag. The lock orders a settlement and a publication of two
  neighbours: whichever comes second sees the first.

  `RegistryIsSafe` and `TombstonesStay` (`ExecTicket`, any calls in any order): `RegistryInv`
  says what is sound of one ticket; only `SingleLive` relates two, so every call reduces to
  `OneRecord`, replacing one record by a sound one that is not newly live. `ExecHappensOrNot`,
  `RegistryIsSafeInUse` and `TombstonesStayInUse` (`NativeExec`): `HandoverInv` adds
  `Conversation`, which requests and replies can be on the stream at each point of the driver;
  `OwnTicket`, that only the driver's own ticket can be live, and from which point on;
  `CancelledStays`, that a granted cancellation has left a tombstone, on which no redemption
  that comes later succeeds.
* **EntryGateProofs:** `GateTypeCorrect`, `ClosersAreAlone`, `SignalsAccounted`, `OneLastUser`,
  `ClosesAreHeard`. Three frame lemmas say what the step of a member, a copier or a closer
  leaves alone. `GateInv` adds to the properties: `Agreement`, that a member's record agrees
  with where its thread is; `Counted`, that `copies` is the number of copiers inside;
  `Signals`, that kicks are recorded only for a target and nothing is taken before an entry
  finishes; `Last`, that who is told to be last has retired. `MemoryStaysCoherent`, and
  `OverlapIsSharing`, that the range test is exact: relative to `GateInv`, `ImageInv` adds
  `Announced`, that unless the gate failed no byte is newer than the generation, but for a
  closer that installed the next and has yet to announce it; `OperandsApart`, that a
  publication being installed avoids every retained range; `Cached`, what was read under a
  generation until the next is installed.

Every safety property of the runs is thus proved, but for the following, which are only
model-checked:

* `RetainedLog` (`RetainedIsHonest`, `TerminalStays`). Complete means that every record was
  reported because the collector's scan, the lifetime endpoint and the final lock were looked
  at in that order while processes write, fork and die; the invariant has to relate the scan's
  locals to every channel and every process at each step of the collector.
* `OrderedLog` (`BufferSafe`, `CompleteIsOver`, and that it implements `AtomicLog`). The
  charges are sums over the admissions of a tree of processes, and the mapping to one sequence
  reads the order in which commit words were stored, across slots that are used again.
* All liveness, which is beyond TLAPS.

## Not modelled

* Serialisation, frames, digests, descriptor passing and the layout of mappings: data.
* Hardware, KVM, ptrace and Linux themselves. The kernel appears where the code waits for it:
  futexes, the reserved signal, KVM_RUN, process death.
* Memory orderings weaker than sequential consistency. Accesses the code makes with
  release and acquire are single steps in program order.
* System call emulation (`reverie-linuxemu`), binary checks (`reverie-liteinst-artifact`),
  loaders and containers: large, mostly sequential, with a reference outside the
  repository.

## Plan

1. Callback owners and driver of the KVM gate (`entry/owner.rs`, `entry/driver.rs`), composed
   with `EntryGate`'s poison; then first-failure retention (`failure.rs`).
2. The ptrace notifier (`safeptrace/src/notifier.rs`): status queue, exit publication,
   retirement of TIDs; an abstract specification "each status is seen once, in order, by the
   generation it belongs to" and the notifier shown to implement it.
3. Small protocols: in-guest dispatch against installation (`guest/host.rs`), the registry of
   reserved inputs, ptrace timers.
4. Pure algorithms as operators against a reference: mapping lists of guest memory, signal
   delivery prediction.
5. Proofs, in this order: `RetainedLog` (`TerminalStays`, then that Complete means all),
   `OrderedLog`'s charges, and its refinement of `AtomicLog`.
