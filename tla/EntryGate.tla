------------------------------ MODULE EntryGate ------------------------------
(***************************************************************************)
(* Admission to one guest address space of the KVM backend                 *)
(* (reverie-kvm-core/src/entry.rs and entry/signal.rs).  vCPU threads enter*)
(* the guest through the gate, host threads copy guest memory through it,  *)
(* and a closer that changes the mappings first closes it: it interrupts   *)
(* the running vCPUs with the reserved signal, waits until every member is *)
(* stopped and every copy retired, installs the new image and reopens.     *)
(*                                                                         *)
(* A step is one critical section of the registry lock, or what a thread   *)
(* does between two of them.  The kernel delivers a signal some time after *)
(* it was sent.  Waiting is a guard: how waiters are woken is the matter   *)
(* of module GateChange.                                                   *)
(***************************************************************************)
EXTENDS Integers, FiniteSets

CONSTANTS
    Members,        \* participants: one vCPU thread each
    Copiers,        \* host threads that copy guest memory
    Closers,        \* threads that close the gate
    Arena,          \* bytes of the guest arena
    MaxRun, MaxClose, MaxGeneration   \* what stands for u64::MAX

ASSUME GateAssumption ==
    /\ IsFiniteSet(Copiers)
    /\ Arena \in Nat /\ MaxRun \in Nat /\ MaxClose \in Nat /\ MaxGeneration \in Nat

VARIABLES
    \* State, under the registry lock
    admission, holder,      \* Admission and the identity in it
    generation, next_close, members, copies, retained_operands, failure,
    run, activity, kicks, retired, last_at_retirement,   \* Member
    \* the members' threads
    pc, entry_generation, cleanup,
    pending, balance,       \* signals sent and not taken; DELIVERED - RECORDED
    taken,                  \* the kicks withdraw reported
    published_exit, immediate_exit,
    \* the copiers: CopyAccess and RetainedOperand
    cpy, copy_generation,
    \* the closers: Closing and Closed
    cpc, id, published, expected, replaced,
    \* the guest's memory: which publication installed each byte; and what a
    \* copier saw of it when it retained its operand or cached its bytes
    image, operand_image, seen_generation, seen_image

gateVars == <<admission, holder, next_close>>
memoryVars == <<generation, image>>
lifeVars == <<members, retired, last_at_retirement>>
identityVars == <<run, entry_generation>>
entryVars == <<identityVars, activity>>
signalVars == <<kicks, pending, balance, taken, published_exit, immediate_exit>>
threadVars == <<pc, cleanup>>
seenVars == <<seen_generation, seen_image>>
copyVars == <<copies, retained_operands, cpy, copy_generation, operand_image, seenVars>>
closerVars == <<cpc, id, published, expected, replaced>>
gVars == <<gateVars, memoryVars, lifeVars, entryVars, signalVars, threadVars, copyVars, closerVars,
           failure>>

Bytes == 0 .. Arena - 1
Ranges == {r \in [start : 0 .. Arena, end : 0 .. Arena] : r.start <= r.end}
None == [start |-> 0, end |-> 0]

\* Mutant: a range that begins before the operand is overlooked.
ranges_overlap_FromStart(first, second) ==
    first.start <= second.start /\ second.start < first.end

ranges_overlap(first, second) ==
    /\ first.start < first.end /\ second.start < second.end
    /\ first.start < second.end /\ second.start < first.end

Image == [Bytes -> Nat]

GateInit ==
    /\ admission = "Open" /\ holder = 0 /\ generation = 0 /\ next_close = 0
    /\ members = {} /\ copies = 0 /\ retained_operands = [k \in Copiers |-> None]
    /\ failure = FALSE
    /\ run = [m \in Members |-> 0] /\ activity = [m \in Members |-> "Stopped"]
    /\ kicks = [m \in Members |-> 0] /\ retired = [m \in Members |-> FALSE]
    /\ last_at_retirement = [m \in Members |-> FALSE]
    /\ pc = [m \in Members |-> "new"]
    /\ entry_generation = [m \in Members |-> 0]
    /\ cleanup = [m \in Members |-> TRUE]
    /\ pending = [m \in Members |-> 0] /\ balance = [m \in Members |-> 0]
    /\ taken = [m \in Members |-> 0]
    /\ published_exit = [m \in Members |-> FALSE] /\ immediate_exit = [m \in Members |-> FALSE]
    /\ cpy = [k \in Copiers |-> "idle"] /\ copy_generation = [k \in Copiers |-> 0]
    /\ operand_image = [k \in Copiers |-> [b \in Bytes |-> 0]]
    /\ seen_generation = [k \in Copiers |-> 0]
    /\ seen_image = [k \in Copiers |-> [b \in Bytes |-> 0]]
    /\ cpc = [c \in Closers |-> "idle"] /\ id = [c \in Closers |-> 0]
    /\ published = [c \in Closers |-> FALSE] /\ expected = [c \in Closers |-> 0]
    /\ replaced = [c \in Closers |-> None]
    /\ image = [b \in Bytes |-> 0]

\* Mutant: admitted copies are overlooked.
stopped_MembersOnly == \A m \in members : activity[m] = "Stopped"

stopped == copies = 0 /\ \A m \in members : activity[m] = "Stopped"
Live == {m \in members : ~retired[m]}
Running == {m \in members : activity[m] = "Running"}
overlapping_operand(r) == \E k \in Copiers : ranges_overlap(retained_operands[k], r)

-----------------------------------------------------------------------------
\* The participants.  A thread registers when it is created, by a live thread.
register(m) ==
    /\ pc[m] = "new" /\ ~failure
    /\ Live # {} \/ \A n \in Members : pc[n] = "new"
    /\ members' = members \cup {m}
    /\ pc' = [pc EXCEPT ![m] = "out"]
    /\ UNCHANGED <<gateVars, memoryVars, retired, last_at_retirement, entryVars, signalVars,
                   cleanup, copyVars, closerVars, failure>>

retire_from_guest(m) ==
    /\ pc[m] = "out" /\ ~retired[m]
    /\ retired' = [retired EXCEPT ![m] = TRUE]
    /\ last_at_retirement' = [last_at_retirement EXCEPT ![m] =
                                 \A n \in members \ {m} : retired[n]]
    /\ UNCHANGED <<gateVars, memoryVars, members, entryVars, signalVars, threadVars, copyVars,
                   closerVars, failure>>

\* Drop for Participant, of a stopped member and of one whose entry was lost.
DropParticipant(m) ==
    /\ pc[m] \in {"out", "lost"}
    /\ IF activity[m] = "Stopped"
       THEN members' = members \ {m} /\ UNCHANGED failure
       ELSE failure' = TRUE /\ UNCHANGED members
    /\ activity' = [activity EXCEPT ![m] = IF @ = "Stopped" THEN @ ELSE "Retiring"]
    /\ pc' = [pc EXCEPT ![m] = "gone"]
    /\ UNCHANGED <<gateVars, memoryVars, retired, last_at_retirement, identityVars, signalVars,
                   cleanup, copyVars, closerVars>>

\* try_enter: refused while not open, fails after retirement or the last run.
try_enter(m) ==
    /\ pc[m] = "out" /\ ~failure /\ admission = "Open"
    /\ IF retired[m] \/ run[m] = MaxRun
       THEN failure' = TRUE /\ UNCHANGED <<entryVars, pc>>
       ELSE /\ run' = [run EXCEPT ![m] = @ + 1]
            /\ activity' = [activity EXCEPT ![m] = "Setup"]
            /\ entry_generation' = [entry_generation EXCEPT ![m] = generation]
            /\ pc' = [pc EXCEPT ![m] = "setup"]
            /\ UNCHANGED failure
    /\ UNCHANGED <<gateVars, memoryVars, lifeVars, signalVars, cleanup, copyVars, closerVars>>

\* Control::arm: publishes the exit byte and wants every instance explained.
\* An error goes through withdraw to acknowledge.
arm(m, ok) ==
    /\ pc[m] = "setup"
    /\ IF ok /\ balance[m] = 0
       THEN /\ published_exit' = [published_exit EXCEPT ![m] = TRUE]
            /\ pc' = [pc EXCEPT ![m] = "armed"]
            /\ UNCHANGED <<cleanup, activity, kicks>>
       ELSE /\ activity' = [activity EXCEPT ![m] = "Retiring"]
            /\ kicks' = [kicks EXCEPT ![m] = 0]
            /\ cleanup' = [cleanup EXCEPT ![m] = FALSE]
            /\ pc' = [pc EXCEPT ![m] = "acknowledge"]
            /\ UNCHANGED published_exit
    /\ UNCHANGED <<gateVars, memoryVars, lifeVars, identityVars, pending, balance, taken,
                   immediate_exit, copyVars, closerVars, failure>>

\* Drop for Entry: setup unwound before there was anything to clean up.
DropEntry(m) ==
    /\ pc[m] = "setup"
    /\ activity' = [activity EXCEPT ![m] = "Retiring"]
    /\ failure' = TRUE
    /\ pc' = [pc EXCEPT ![m] = "lost"]
    /\ UNCHANGED <<gateVars, memoryVars, lifeVars, identityVars, signalVars, cleanup, copyVars,
                   closerVars>>

\* Mutant: admission is not checked again.
activate_Unchecked(m) ==
    /\ pc[m] = "armed"
    /\ activity' = [activity EXCEPT ![m] = "Running"]
    /\ pc' = [pc EXCEPT ![m] = "run"]
    /\ UNCHANGED <<gateVars, memoryVars, lifeVars, identityVars, signalVars, cleanup, copyVars,
                   closerVars, failure>>

\* activate: the final open check and the publication of the target.
activate(m) ==
    /\ pc[m] = "armed"
    /\ IF ~failure /\ admission = "Open"
       THEN /\ activity' = [activity EXCEPT ![m] = "Running"]
            /\ pc' = [pc EXCEPT ![m] = "run"]
       ELSE pc' = [pc EXCEPT ![m] = "decoded"] /\ UNCHANGED activity
    /\ UNCHANGED <<gateVars, memoryVars, lifeVars, identityVars, signalVars, cleanup, copyVars,
                   closerVars, failure>>

\* run_vcpu: KVM_RUN returns at once when the byte is set.
kvm_run(m) ==
    /\ pc[m] = "run"
    /\ pc' = [pc EXCEPT ![m] = IF immediate_exit[m] THEN "returned" ELSE "guest"]
    /\ UNCHANGED <<gateVars, memoryVars, lifeVars, entryVars, signalVars, cleanup, copyVars,
                   closerVars, failure>>

\* The guest leaves by itself.
GuestExit(m) ==
    /\ pc[m] = "guest"
    /\ pc' = [pc EXCEPT ![m] = "returned"]
    /\ UNCHANGED <<gateVars, memoryVars, lifeVars, entryVars, signalVars, cleanup, copyVars,
                   closerVars, failure>>

\* The handler, interrupt(): it also ends a KVM_RUN.
interrupt(m) ==
    /\ pending[m] > 0
    /\ pending' = [pending EXCEPT ![m] = @ - 1]
    /\ balance' = [balance EXCEPT ![m] = @ + 1]
    /\ immediate_exit' = [immediate_exit EXCEPT ![m] = @ \/ published_exit[m]]
    /\ pc' = [pc EXCEPT ![m] = IF @ = "guest" THEN "returned" ELSE @]
    /\ UNCHANGED <<gateVars, memoryVars, lifeVars, entryVars, kicks, taken, published_exit, cleanup,
                   copyVars, closerVars, failure>>

\* Control::retract, once KVM_RUN returned.
retract(m) ==
    /\ pc[m] = "returned"
    /\ published_exit' = [published_exit EXCEPT ![m] = FALSE]
    /\ immediate_exit' = [immediate_exit EXCEPT ![m] = FALSE]
    /\ pc' = [pc EXCEPT ![m] = "decoded"]
    /\ UNCHANGED <<gateVars, memoryVars, lifeVars, entryVars, kicks, pending, balance, taken,
                   cleanup, copyVars, closerVars, failure>>

\* RunEntry::cleanup: withdraw, finish the signals, acknowledge.  An entry
\* that unwinds comes here before or after its run, with an error.
withdraw(m, clock) ==
    /\ pc[m] \in {"run", "decoded"} /\ (pc[m] = "run" => ~clock)
    /\ activity' = [activity EXCEPT ![m] = "Retiring"]
    /\ taken' = [taken EXCEPT ![m] = kicks[m]]
    /\ kicks' = [kicks EXCEPT ![m] = 0]
    /\ cleanup' = [cleanup EXCEPT ![m] = clock]
    /\ pc' = [pc EXCEPT ![m] = "finish"]
    /\ UNCHANGED <<gateVars, memoryVars, lifeVars, identityVars, pending, balance, published_exit,
                   immediate_exit, copyVars, closerVars, failure>>

\* Control::finish: a kicked entry first takes what is pending.
finish(m) ==
    LET delivered == IF taken[m] # 0 THEN pending[m] ELSE 0
        now == balance[m] + delivered - taken[m]
    IN
    /\ pc[m] = "finish"
    /\ pending' = [pending EXCEPT ![m] = @ - delivered]
    /\ balance' = [balance EXCEPT ![m] = now]
    /\ taken' = [taken EXCEPT ![m] = 0]
    /\ published_exit' = [published_exit EXCEPT ![m] = FALSE]
    /\ immediate_exit' = [immediate_exit EXCEPT ![m] = FALSE]
    /\ cleanup' = [cleanup EXCEPT ![m] = @ /\ now = 0]
    /\ pc' = [pc EXCEPT ![m] = "acknowledge"]
    /\ UNCHANGED <<gateVars, memoryVars, lifeVars, entryVars, kicks, copyVars, closerVars, failure>>

acknowledge(m) ==
    /\ pc[m] = "acknowledge"
    /\ activity' = [activity EXCEPT ![m] = "Stopped"]
    /\ failure' = (failure \/ ~cleanup[m])
    /\ cleanup' = [cleanup EXCEPT ![m] = TRUE]
    /\ pc' = [pc EXCEPT ![m] = "out"]
    /\ UNCHANGED <<gateVars, memoryVars, lifeVars, identityVars, signalVars, copyVars, closerVars>>

-----------------------------------------------------------------------------
\* Host copies and the pointers retained after them.
admit_copy(k) ==
    /\ cpy[k] = "idle" /\ ~failure /\ admission = "Open"
    /\ copies' = copies + 1
    /\ cpy' = [cpy EXCEPT ![k] = "copying"]
    /\ copy_generation' = [copy_generation EXCEPT ![k] = generation]
    /\ UNCHANGED <<gateVars, memoryVars, lifeVars, entryVars, signalVars, threadVars,
                   retained_operands, operand_image, seenVars, closerVars, failure>>

retain_operand(k, range) ==
    /\ cpy[k] = "copying" /\ ~failure /\ retained_operands[k] = None
    /\ retained_operands' = [retained_operands EXCEPT ![k] = range]
    /\ operand_image' = [operand_image EXCEPT ![k] = image]
    /\ UNCHANGED <<gateVars, memoryVars, lifeVars, entryVars, signalVars, threadVars, copies, cpy,
                   copy_generation, seenVars, closerVars, failure>>

\* CopyAccess::retire; the issuer may keep what it read.
retire_copy(k, panicking) ==
    /\ cpy[k] = "copying"
    /\ copies' = copies - 1
    /\ failure' = (failure \/ panicking)
    /\ cpy' = [cpy EXCEPT ![k] = "idle"]
    /\ seen_generation' = [seen_generation EXCEPT ![k] = copy_generation[k]]
    /\ seen_image' = [seen_image EXCEPT ![k] = image]
    /\ UNCHANGED <<gateVars, memoryVars, lifeVars, entryVars, signalVars, threadVars,
                   retained_operands, copy_generation, operand_image, closerVars>>

\* Drop for RetainedOperand: the host operation returned.
DropOperand(k, panicking) ==
    /\ retained_operands[k] # None
    /\ retained_operands' = [retained_operands EXCEPT ![k] = None]
    /\ failure' = (failure \/ panicking)
    /\ UNCHANGED <<gateVars, memoryVars, lifeVars, entryVars, signalVars, threadVars, copies, cpy,
                   copy_generation, operand_image, seenVars, closerVars>>

poison ==
    /\ ~failure
    /\ failure' = TRUE
    /\ UNCHANGED <<gateVars, memoryVars, lifeVars, entryVars, signalVars, threadVars, copyVars,
                   closerVars>>

-----------------------------------------------------------------------------
\* The closers.  One first stages a mapping against the current generation.
Stage(c) ==
    /\ cpc[c] = "idle" /\ ~failure
    /\ expected' = [expected EXCEPT ![c] = generation]
    /\ cpc' = [cpc EXCEPT ![c] = "staged"]
    /\ UNCHANGED <<gateVars, memoryVars, lifeVars, entryVars, signalVars, threadVars, copyVars, id,
                   published, replaced, failure>>

\* Records a kick and sends the signal, for each member of sent.
Kick(sent) ==
    /\ kicks' = [m \in Members |-> IF m \in sent THEN kicks[m] + 1 ELSE kicks[m]]
    /\ pending' = [m \in Members |-> IF m \in sent THEN pending[m] + 1 ELSE pending[m]]
    /\ UNCHANGED <<balance, taken, published_exit, immediate_exit>>

\* Mutant: closes whatever admission is.
try_close_Anyway(c) ==
    /\ cpc[c] = "staged" /\ ~failure /\ next_close < MaxClose
    /\ next_close' = next_close + 1
    /\ admission' = "Closing" /\ holder' = next_close + 1
    /\ id' = [id EXCEPT ![c] = next_close + 1]
    /\ Kick(Running)
    /\ cpc' = [cpc EXCEPT ![c] = "closing"]
    /\ UNCHANGED <<memoryVars, lifeVars, entryVars, threadVars, copyVars, published, expected,
                   replaced, failure>>

try_close(c) ==
    /\ cpc[c] = "staged" /\ ~failure /\ admission = "Open"
    /\ IF next_close = MaxClose
       THEN /\ failure' = TRUE /\ cpc' = [cpc EXCEPT ![c] = "idle"]
            /\ UNCHANGED <<gateVars, signalVars, id>>
       ELSE /\ next_close' = next_close + 1
            /\ admission' = "Closing" /\ holder' = next_close + 1
            /\ id' = [id EXCEPT ![c] = next_close + 1]
            /\ Kick(Running)
            /\ cpc' = [cpc EXCEPT ![c] = "closing"]
            /\ UNCHANGED failure
    /\ UNCHANGED <<memoryVars, lifeVars, entryVars, threadVars, copyVars, published, expected,
                   replaced>>

\* Mutant: the failed send stays recorded.
try_close_SendFailed_Recorded(c, failed, sent) ==
    /\ cpc[c] = "staged" /\ ~failure /\ admission = "Open" /\ next_close < MaxClose
    /\ failed \in Running /\ sent \subseteq Running \ {failed}
    /\ next_close' = next_close + 1
    /\ kicks' = [m \in Members |-> IF m \in sent \cup {failed} THEN kicks[m] + 1 ELSE kicks[m]]
    /\ pending' = [m \in Members |-> IF m \in sent THEN pending[m] + 1 ELSE pending[m]]
    /\ cpc' = [cpc EXCEPT ![c] = "idle"]
    /\ UNCHANGED <<admission, holder, memoryVars, lifeVars, entryVars, threadVars, copyVars, id,
                   balance, taken, published_exit, immediate_exit, published, expected, replaced,
                   failure>>

\* A send fails: members before the failed one were kicked, its own is undone.
try_close_SendFailed(c, failed, sent) ==
    /\ cpc[c] = "staged" /\ ~failure /\ admission = "Open" /\ next_close < MaxClose
    /\ failed \in Running /\ sent \subseteq Running \ {failed}
    /\ next_close' = next_close + 1
    /\ Kick(sent)
    /\ cpc' = [cpc EXCEPT ![c] = "idle"]
    /\ UNCHANGED <<admission, holder, memoryVars, lifeVars, entryVars, threadVars, copyVars, id,
                   published, expected, replaced, failure>>

try_close_quiescent(c, live) ==
    /\ cpc[c] = "staged" /\ ~failure /\ admission = "Open"
    /\ Cardinality(Live) = live /\ stopped
    /\ \A k \in Copiers : retained_operands[k] = None
    /\ generation < MaxGeneration /\ next_close < MaxClose
    /\ next_close' = next_close + 1
    /\ admission' = "Closed" /\ holder' = next_close + 1
    /\ id' = [id EXCEPT ![c] = next_close + 1]
    /\ cpc' = [cpc EXCEPT ![c] = "closed"]
    /\ UNCHANGED <<memoryVars, lifeVars, entryVars, signalVars, threadVars, copyVars, published,
                   expected, replaced, failure>>

\* Closing::finish and finish_blocking; with a failure the token is dropped
\* and admission stays as it is.
finish_close(c) ==
    /\ cpc[c] = "closing"
    /\ \/ ~failure /\ stopped /\ admission' = "Closed" /\ cpc' = [cpc EXCEPT ![c] = "closed"]
       \/ failure /\ cpc' = [cpc EXCEPT ![c] = "idle"] /\ UNCHANGED admission
    /\ UNCHANGED <<holder, next_close, memoryVars, lifeVars, entryVars, signalVars, threadVars,
                   copyVars, id, published, expected, replaced, failure>>

finish_TimedOut(c) ==
    /\ cpc[c] = "closing" /\ ~failure /\ ~stopped
    /\ admission' = "Open"
    /\ cpc' = [cpc EXCEPT ![c] = "idle"]
    /\ UNCHANGED <<holder, next_close, memoryVars, lifeVars, entryVars, signalVars, threadVars,
                   copyVars, id, published, expected, replaced, failure>>

\* Drop for Closing, before it was finished.
DropClosing(c) ==
    /\ cpc[c] = "closing"
    /\ failure' = TRUE
    /\ cpc' = [cpc EXCEPT ![c] = "idle"]
    /\ UNCHANGED <<gateVars, memoryVars, lifeVars, entryVars, signalVars, threadVars, copyVars, id,
                   published, expected, replaced>>

\* Closed::publish, up to the operation; and its refusals, which poison.
Publishable(c, range) ==
    /\ generation = expected[c] /\ ~published[c]
    /\ ~overlapping_operand(range)
    /\ generation < MaxGeneration

publish(c, range) ==
    /\ cpc[c] = "closed" /\ ~failure
    /\ IF Publishable(c, range)
       THEN /\ replaced' = [replaced EXCEPT ![c] = range]
            /\ cpc' = [cpc EXCEPT ![c] = "publishing"]
            /\ UNCHANGED failure
       ELSE failure' = TRUE /\ UNCHANGED <<replaced, cpc>>
    /\ UNCHANGED <<gateVars, memoryVars, lifeVars, entryVars, signalVars, threadVars, copyVars, id,
                   published, expected>>

InRange(b, range) == range.start <= b /\ b < range.end

\* The operation runs without the lock; it may fail with a part installed.
Install(c) ==
    /\ cpc[c] = "publishing"
    /\ image' = [b \in Bytes |-> IF InRange(b, replaced[c]) THEN expected[c] + 1 ELSE image[b]]
    /\ cpc' = [cpc EXCEPT ![c] = "installed"]
    /\ UNCHANGED <<gateVars, generation, lifeVars, entryVars, signalVars, threadVars, copyVars, id,
                   published, expected, replaced, failure>>

\* Mutant: a failed operation does not poison.
InstallFails_Quietly(c, part) ==
    /\ cpc[c] = "publishing"
    /\ image' = [b \in Bytes |-> IF InRange(b, replaced[c]) /\ b \in part
                                 THEN expected[c] + 1 ELSE image[b]]
    /\ cpc' = [cpc EXCEPT ![c] = "closed"]
    /\ UNCHANGED <<gateVars, generation, lifeVars, entryVars, signalVars, threadVars, copyVars, id,
                   published, expected, replaced, failure>>

InstallFails(c, part) ==
    /\ cpc[c] = "publishing"
    /\ image' = [b \in Bytes |-> IF InRange(b, replaced[c]) /\ b \in part
                                 THEN expected[c] + 1 ELSE image[b]]
    /\ failure' = TRUE
    /\ cpc' = [cpc EXCEPT ![c] = "closed"]
    /\ UNCHANGED <<gateVars, generation, lifeVars, entryVars, signalVars, threadVars, copyVars, id,
                   published, expected, replaced>>

\* Mutant: the generation stays.
Advance_Not(c) ==
    /\ cpc[c] = "installed"
    /\ published' = [published EXCEPT ![c] = TRUE]
    /\ cpc' = [cpc EXCEPT ![c] = "closed"]
    /\ UNCHANGED <<gateVars, memoryVars, lifeVars, entryVars, signalVars, threadVars, copyVars, id,
                   expected, replaced, failure>>

\* The rest of publish: the generation advances, unless the gate failed.
Advance(c) ==
    /\ cpc[c] = "installed"
    /\ IF failure THEN UNCHANGED <<generation, published>>
       ELSE generation' = expected[c] + 1 /\ published' = [published EXCEPT ![c] = TRUE]
    /\ cpc' = [cpc EXCEPT ![c] = "closed"]
    /\ UNCHANGED <<gateVars, image, lifeVars, entryVars, signalVars, threadVars, copyVars, id,
                   expected, replaced, failure>>

\* Drop for Closed reopens, also after a failure, which nobody passes.
DropClosed(c, panicking) ==
    /\ cpc[c] = "closed"
    /\ admission' = "Open"
    /\ failure' = (failure \/ panicking)
    /\ published' = [published EXCEPT ![c] = FALSE]
    /\ cpc' = [cpc EXCEPT ![c] = "idle"]
    /\ UNCHANGED <<holder, next_close, memoryVars, lifeVars, entryVars, signalVars, threadVars,
                   copyVars, id, expected, replaced>>

-----------------------------------------------------------------------------
EntryStep(m) ==
    \/ \E ok \in BOOLEAN : arm(m, ok) \/ withdraw(m, ok)
    \/ activate(m) \/ kvm_run(m) \/ retract(m) \/ finish(m) \/ acknowledge(m)

MemberNext(m) ==
    \/ register(m) \/ retire_from_guest(m) \/ DropParticipant(m) \/ try_enter(m)
    \/ EntryStep(m) \/ DropEntry(m) \/ GuestExit(m) \/ interrupt(m)

CopierNext(k) ==
    \/ admit_copy(k)
    \/ \E range \in Ranges \ {r \in Ranges : r.start = r.end} : retain_operand(k, range)
    \/ \E panicking \in BOOLEAN : retire_copy(k, panicking) \/ DropOperand(k, panicking)

CloserNext(c) ==
    \/ Stage(c) \/ try_close(c)
    \/ \E failed \in Members, sent \in SUBSET Members : try_close_SendFailed(c, failed, sent)
    \/ \E live \in {0, 1} : try_close_quiescent(c, live)
    \/ finish_close(c) \/ finish_TimedOut(c) \/ DropClosing(c)
    \/ \E range \in Ranges : publish(c, range)
    \/ Install(c) \/ Advance(c)
    \/ \E part \in SUBSET Bytes : InstallFails(c, part)
    \/ \E panicking \in BOOLEAN : DropClosed(c, panicking)

GateNext ==
    \/ \E m \in Members : MemberNext(m)
    \/ \E k \in Copiers : CopierNext(k)
    \/ \E c \in Closers : CloserNext(c)
    \/ poison

GateSpec == GateInit /\ [][GateNext]_gVars

-----------------------------------------------------------------------------
Inside == {"run", "guest", "returned"}                   \* between activate and decode
Entered == Inside \cup {"setup", "armed", "decoded"}     \* between try_enter and withdraw
Holding == {"closed", "publishing", "installed"}

\* Every variable has its type.
GateTypeOK ==
    /\ admission \in {"Open", "Closing", "Closed"} /\ failure \in BOOLEAN
    /\ holder \in Nat /\ generation \in Nat /\ next_close \in Nat /\ copies \in Int
    /\ members \subseteq Members
    /\ retained_operands \in [Copiers -> Ranges]
    /\ run \in [Members -> Nat] /\ kicks \in [Members -> Nat]
    /\ activity \in [Members -> {"Stopped", "Setup", "Running", "Retiring"}]
    /\ retired \in [Members -> BOOLEAN] /\ last_at_retirement \in [Members -> BOOLEAN]
    /\ pc \in [Members -> Entered \cup {"new", "out", "lost", "gone", "finish", "acknowledge"}]
    /\ entry_generation \in [Members -> Nat] /\ cleanup \in [Members -> BOOLEAN]
    /\ pending \in [Members -> Nat] /\ balance \in [Members -> Int] /\ taken \in [Members -> Nat]
    /\ published_exit \in [Members -> BOOLEAN] /\ immediate_exit \in [Members -> BOOLEAN]
    /\ cpy \in [Copiers -> {"idle", "copying"}] /\ copy_generation \in [Copiers -> Nat]
    /\ operand_image \in [Copiers -> Image]
    /\ seen_generation \in [Copiers -> Nat] /\ seen_image \in [Copiers -> Image]
    /\ cpc \in [Closers -> Holding \cup {"idle", "staged", "closing"}]
    /\ id \in [Closers -> Nat] /\ expected \in [Closers -> Nat]
    /\ published \in [Closers -> BOOLEAN] /\ replaced \in [Closers -> Ranges]
    /\ image \in Image

\* What Closed and Closing assert whenever they are used: admission is theirs,
\* with their identity, so no two closers hold the gate at once, not even
\* after one was abandoned, timed out or failed.
TokensAreExclusive ==
    /\ \A c \in Closers : cpc[c] = "closing" => admission = "Closing" /\ holder = id[c]
    /\ \A c \in Closers : cpc[c] \in Holding => admission = "Closed" /\ holder = id[c]
    /\ \A c, d \in Closers : /\ cpc[c] \in Holding \cup {"closing"}
                             /\ cpc[d] \in Holding \cup {"closing"}
                             => c = d

\* Nothing uses guest memory while a closer holds the gate: no vCPU is between
\* its admission and its acknowledgement, no copy is admitted.
ClosedMeansQuiet ==
    admission = "Closed" =>
        /\ \A k \in Copiers : cpy[k] = "idle"
        /\ \A m \in Members : pc[m] \in {"new", "out", "gone"}

\* A vCPU or a copy admitted against a generation uses that very image: the
\* generation has not moved (activate's and retain_operand's assertions), and
\* no byte is of an installation that was not announced, failed ones included.
AccessSeesItsImage ==
    /\ \A m \in Members : pc[m] \in Entered =>
        entry_generation[m] = generation /\ \A b \in Bytes : image[b] <= generation
    /\ \A k \in Copiers : cpy[k] = "copying" =>
        copy_generation[k] = generation /\ \A b \in Bytes : image[b] <= generation

\* The bytes under a retained host pointer are never replaced, though the
\* mapping around them may be.
OperandsKeepTheirBytes ==
    \A k \in Copiers : \A b \in Bytes :
        InRange(b, retained_operands[k]) => image[b] = operand_image[k][b]

\* admit_operation_unchanged answers true only if bytes cached under that
\* generation are still those of the guest.
CachedBytesAreCurrent ==
    \A k \in Copiers :
        ~failure /\ admission = "Open" /\ generation = seen_generation[k]
        => image = seen_image[k]

\* Every signal is accounted for: the instances pending or taken are exactly
\* the kicks recorded.  So arm and finish never refuse for an unexplained or
\* an undelivered one, and no kick outlives the entry it was sent to.
KicksAreAccounted ==
    \A m \in Members :
        /\ pending[m] + balance[m] = kicks[m] + taken[m]
        /\ pc[m] \notin Inside \cup {"decoded", "finish"} => pending[m] = 0 /\ balance[m] = 0
        /\ pc[m] \in {"setup", "armed"} => ~immediate_exit[m]

\* Of the threads of an address space exactly the last one to retire is told
\* so: when it is, nobody is live any more.
LastUserIsLast ==
    \A m \in Members : last_at_retirement[m] =>
        Live = {} /\ \A n \in Members : last_at_retirement[n] => n = m

\* A close is heard: no thread is in the guest, or about to go there, while a
\* closer waits for it, unless a signal that ends its run is on the way or its
\* run will end at once.  So a close needs no exit of the guest's own.
CloseIsHeard ==
    \A c \in Closers : cpc[c] = "closing" => \A m \in Members :
        /\ pc[m] = "guest" => pending[m] > 0
        /\ pc[m] = "run" => pending[m] > 0 \/ immediate_exit[m]

\* Changes are made alone: TokensAreExclusive and ClosedMeansQuiet.
ChangesAreAlone == GateTypeOK /\ TokensAreExclusive /\ ClosedMeansQuiet

\* Who uses the memory finds the bytes it was promised: AccessSeesItsImage,
\* OperandsKeepTheirBytes and CachedBytesAreCurrent.
MemoryIsCoherent == AccessSeesItsImage /\ OperandsKeepTheirBytes /\ CachedBytesAreCurrent

=============================================================================
