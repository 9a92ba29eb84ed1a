----------------------------- MODULE PatchSites -----------------------------
(***************************************************************************)
(* LiteInst's table of patch sites.  A thread that traps at a system call  *)
(* or a subscribed instruction claims its site and tries to write a jump   *)
(* of eight bytes over it, under an installation lock that nobody waits    *)
(* for; the others that trap there wait for the outcome.  When the site is *)
(* declined or refused the thread resumes just past its instruction, which *)
(* is only right while the code there is the original.                     *)
(*                                                                         *)
(* code[x] is the site whose jump wrote byte x, 0 for the guest's own.  A  *)
(* slot of the table, once it has an address, keeps it, so that probing    *)
(* finds the one slot of an address or the first free one: the table is a  *)
(* set of claimed sites with a capacity.  The guest may trap at any site   *)
(* whose instruction is original, as a branch into a window does.  A       *)
(* mapping call replaces code that no thread is in, a part of a window or  *)
(* all of it, by the same code, and marks its sites before a thread is in  *)
(* that code again.                                                        *)
(***************************************************************************)
EXTENDS Naturals, FiniteSets

CONSTANTS
    Threads,
    Sites,          \* the addresses of the instructions that trap
    SyscallSites,   \* those that are system calls; the others are CPUID, RDTSC, RDTSCP
    LengthOf,       \* the length of a site's instruction
    TableSize,      \* MAX_PATCH_SITES
    Regions,        \* the sets of bytes that a mapping call replaces
    MaxRemaps

WORD_PATCH_BYTES == 8

Window(s) == s .. s + WORD_PATCH_BYTES - 1
Instruction(s) == s .. s + LengthOf[s] - 1
Bytes == UNION {Window(s) : s \in Sites}

ASSUME SitesAssumption ==
    /\ Sites \subseteq Nat \ {0} /\ SyscallSites \subseteq Sites
    /\ LengthOf \in [Sites -> {2, 3}] /\ TableSize \in Nat
    /\ \A s, o \in Sites : s # o => Instruction(s) \cap Instruction(o) = {}
    /\ MaxRemaps \in Nat

VARIABLES
    state,                  \* SiteSlot.state; "free" has no slot, "claimed" is state 0
    publication_attempted, words_recorded, instruction_len,
    INSTALL_HELD,           \* the thread that has the installation lock, or none
    SITE_JUMP_POSSIBLY_WRITTEN,
    code,
    pc, at,                 \* what a thread does, and the site it is at (0: none)
    ended,                  \* the guest was ended
    remaps

pVars == <<state, publication_attempted, words_recorded, instruction_len, INSTALL_HELD,
           SITE_JUMP_POSSIBLY_WRITTEN, code, pc, at, ended, remaps>>
slotVars == <<state, publication_attempted, words_recorded, instruction_len>>
lockVars == <<INSTALL_HELD, SITE_JUMP_POSSIBLY_WRITTEN, code>>

PatchInit ==
    /\ state = [s \in Sites |-> "free"]
    /\ publication_attempted = [s \in Sites |-> FALSE]
    /\ words_recorded = [s \in Sites |-> FALSE] /\ instruction_len = [s \in Sites |-> 0]
    /\ INSTALL_HELD = {} /\ SITE_JUMP_POSSIBLY_WRITTEN = FALSE
    /\ code = [x \in Bytes |-> 0]
    /\ pc = [t \in Threads |-> "away"] /\ at = [t \in Threads |-> 0]
    /\ ended = FALSE /\ remaps = 0

Original(X) == \A x \in X : code[x] = 0

\* A thread resumes past its instruction: the site was declined (NotPatched, Emulate),
\* refused, or run by an adapter that returns there.
Resuming == {"declined", "refused", "returning"}

\* A thread runs on elsewhere; a trampoline returns behind what the jump displaced.
RunsOn(t) == pc' = [pc EXCEPT ![t] = "away"] /\ at' = [at EXCEPT ![t] = 0]

Goes(t, l) == pc' = [pc EXCEPT ![t] = l] /\ UNCHANGED at

-----------------------------------------------------------------------------
\* A thread executes the instruction of a site and traps.
Trap(t, s) ==
    /\ pc[t] = "away" /\ Original(Instruction(s))
    /\ pc' = [pc EXCEPT ![t] = "claim"] /\ at' = [at EXCEPT ![t] = s]
    /\ UNCHANGED <<slotVars, lockVars, ended, remaps>>

\* A thread that resumed past its instruction leaves the site.
Leave(t) ==
    /\ pc[t] \in Resuming /\ RunsOn(t)
    /\ UNCHANGED <<slotVars, lockVars, ended, remaps>>

\* Mutant: only sites whose installation failed are marked.
RemapFallbackOnly(r) ==
    /\ remaps < MaxRemaps /\ remaps' = remaps + 1
    /\ \A t \in Threads : at[t] # 0 => (at[t] .. at[t] + LengthOf[at[t]]) \cap r = {}
    /\ code' = [x \in Bytes |-> IF x \in r THEN 0 ELSE code[x]]
    /\ state' = [s \in Sites |-> IF s \in r /\ state[s] = "FALLBACK" THEN "STALE" ELSE state[s]]
    /\ UNCHANGED <<publication_attempted, words_recorded, instruction_len, INSTALL_HELD,
                   SITE_JUMP_POSSIBLY_WRITTEN, pc, at, ended>>

\* A mapping call replaces region r, and observe_mapping_generation marks its sites.
Remap(r) ==
    /\ remaps < MaxRemaps /\ remaps' = remaps + 1
    /\ \A t \in Threads : at[t] # 0 => (at[t] .. at[t] + LengthOf[at[t]]) \cap r = {}
    /\ code' = [x \in Bytes |-> IF x \in r THEN 0 ELSE code[x]]
    /\ state' = [s \in Sites |-> IF s \in r /\ state[s] \in {"ACTIVE", "FALLBACK"} THEN "STALE" ELSE state[s]]
    /\ UNCHANGED <<publication_attempted, words_recorded, instruction_len, INSTALL_HELD,
                   SITE_JUMP_POSSIBLY_WRITTEN, pc, at, ended>>

-----------------------------------------------------------------------------
\* Mutant: a slot that another thread installs is claimed again.
ClaimSiteTwice(t) ==
    LET s == at[t] IN
    /\ pc[t] = "claim" /\ state[s] # "claimed"
    /\ \/ state[s] = "free" /\ state' = [state EXCEPT ![s] = "claimed"] /\ Goes(t, "claimed")
       \/ /\ state[s] \in {"STALE", "INSTALLING"}
          /\ state' = [state EXCEPT ![s] = "INSTALLING"] /\ Goes(t, "native")
       \/ /\ state[s] \notin {"free", "STALE", "INSTALLING"} /\ Goes(t, "wait") /\ UNCHANGED state
    /\ UNCHANGED <<publication_attempted, words_recorded, instruction_len, lockVars, ended, remaps>>

\* claim_site: a free slot, or a stale one, is this thread's to install; with no slot left
\* the site is declined; else another thread decides.  A slot whose state is not stored yet
\* is waited for.
ClaimSite(t) ==
    LET s == at[t] IN
    /\ pc[t] = "claim" /\ state[s] # "claimed"
    /\ \/ /\ state[s] = "free"
          /\ IF Cardinality({o \in Sites : state[o] # "free"}) < TableSize
             THEN state' = [state EXCEPT ![s] = "claimed"] /\ Goes(t, "claimed")
             ELSE Goes(t, "declined") /\ UNCHANGED state
       \/ /\ state[s] = "STALE"
          /\ state' = [state EXCEPT ![s] = "INSTALLING"] /\ Goes(t, "native")
       \/ /\ state[s] \notin {"free", "STALE"} /\ Goes(t, "wait") /\ UNCHANGED state
    /\ UNCHANGED <<publication_attempted, words_recorded, instruction_len, lockVars, ended, remaps>>

\* The state of a slot just claimed is stored after its address.
StoreInstalling(t) ==
    /\ pc[t] = "claimed" /\ state' = [state EXCEPT ![at[t]] = "INSTALLING"] /\ Goes(t, "native")
    /\ UNCHANGED <<publication_attempted, words_recorded, instruction_len, lockVars, ended, remaps>>

\* Faulting is turned off for the installation; when that fails nothing was attempted.
EnableNative(t) ==
    /\ pc[t] = "native"
    /\ Goes(t, "lock") \/ (at[t] \in SyscallSites /\ Goes(t, "untouched"))
    /\ UNCHANGED <<slotVars, lockVars, ended, remaps>>

\* At an instruction every thread turns faulting off and on again, and ends the guest when
\* either fails.
FaultingFails(t) ==
    /\ pc[t] \in {"native", "wait"} /\ at[t] \notin SyscallSites /\ ended' = TRUE
    /\ UNCHANGED <<slotVars, lockVars, pc, at, remaps>>

\* lock_installation does not wait: a busy lock fails, and counts as touched.
LockInstallation(t) ==
    /\ pc[t] = "lock"
    /\ IF INSTALL_HELD = {} THEN INSTALL_HELD' = {t} /\ Goes(t, "bytes")
       ELSE Goes(t, "touched") /\ UNCHANGED INSTALL_HELD
    /\ UNCHANGED <<slotVars, SITE_JUMP_POSSIBLY_WRITTEN, code, ended, remaps>>

\* slot_patch_survives: only a recorded patch of which no byte is left is gone.
PatchSurvives(s) ==
    publication_attempted[s] /\ (~ words_recorded[s] \/ \E x \in Window(s) : code[x] = s)

\* Without an arena, with other bytes than the instruction, or with an earlier patch
\* that may survive, the installation fails as touched.
CheckBytes(t) ==
    LET s == at[t] IN
    /\ pc[t] = "bytes"
    /\ \/ INSTALL_HELD' = {} /\ Goes(t, "touched") /\ UNCHANGED instruction_len
       \/ /\ Original(Instruction(s))
          /\ instruction_len' = [instruction_len EXCEPT ![s] = LengthOf[s]]
          /\ IF PatchSurvives(s) THEN INSTALL_HELD' = {} /\ Goes(t, "touched")
             ELSE Goes(t, "neighbours") /\ UNCHANGED INSTALL_HELD
    /\ UNCHANGED <<state, publication_attempted, words_recorded, SITE_JUMP_POSSIBLY_WRITTEN, code, ended, remaps>>

-----------------------------------------------------------------------------
\* site_footprint: another site's window may hold bytes that this runtime wrote.
Footprint(o) == state[o] = "ACTIVE" \/ (state[o] # "free" /\ PatchSurvives(o))

InsidePublishedPatch(s) ==
    \E o \in Sites \ {s} : Footprint(o) /\ o < s + LengthOf[s] /\ o + WORD_PATCH_BYTES > s

\* Mutant: only a jump that begins before the site is in its way.
OverlapsEarlierPatch(s) ==
    \E o \in Sites \ {s} : Footprint(o) /\ o < s /\ o + WORD_PATCH_BYTES > s

OverlapsPublishedPatch(s) ==
    \E o \in Sites \ {s} : Footprint(o) /\ o < s + WORD_PATCH_BYTES /\ o + WORD_PATCH_BYTES > s

\* Mutant: an unpatchable site reserves nothing.
CoversUndecidedSite(s) ==
    \E o \in Sites \ {s} :
        /\ state[o] \in {"INSTALLING", "STALE", "FALLBACK", "UNPUBLISHED"}
        /\ s < o + (IF instruction_len[o] = 0 THEN 3 ELSE instruction_len[o])
        /\ s + WORD_PATCH_BYTES > o

\* A site that a thread may resume past, or is deciding about, is not patched over.
CoversContinuationSite(s) ==
    \E o \in Sites \ {s} :
        /\ state[o] \in {"INSTALLING", "UNPATCHABLE", "STALE", "FALLBACK", "UNPUBLISHED"}
        /\ s < o + (IF instruction_len[o] = 0 THEN 3 ELSE instruction_len[o])
        /\ s + WORD_PATCH_BYTES > o

\* check_neighbours, then the refusals that leave everything as it is: the end of the
\* mapping, a shared mapping, the scan, the census, the budget of a split word.
CheckNeighbours(t) ==
    LET s == at[t] IN
    /\ pc[t] = "neighbours"
    /\ \/ InsidePublishedPatch(s) /\ INSTALL_HELD' = {} /\ Goes(t, "touched")
       \/ ~ InsidePublishedPatch(s) /\ INSTALL_HELD' = {} /\ Goes(t, "untouched")
       \/ /\ ~ OverlapsPublishedPatch(s) /\ ~ CoversContinuationSite(s)
          /\ Goes(t, "publish") /\ UNCHANGED INSTALL_HELD
    /\ UNCHANGED <<slotVars, SITE_JUMP_POSSIBLY_WRITTEN, code, ended, remaps>>

\* install_unpublished_syscall: an adapter instead of a jump, for a split word.
InstallUnpublished(t) ==
    LET s == at[t] IN
    /\ pc[t] = "publish" /\ s \in SyscallSites
    /\ state' = [state EXCEPT ![s] = "UNPUBLISHED"]
    /\ INSTALL_HELD' = {} /\ Goes(t, "installed")
    /\ UNCHANGED <<publication_attempted, words_recorded, instruction_len, SITE_JUMP_POSSIBLY_WRITTEN,
                   code, ended, remaps>>

\* The attempt is noted before the protection is changed.
Attempt(t) ==
    LET s == at[t] IN
    /\ pc[t] = "publish"
    /\ publication_attempted' = [publication_attempted EXCEPT ![s] = TRUE]
    /\ words_recorded' = [words_recorded EXCEPT ![s] = FALSE]
    /\ Goes(t, "write")
    /\ UNCHANGED <<state, instruction_len, lockVars, ended, remaps>>

\* published_failure: no plan, and the site falls back while the lock is held.
PlanFails(t) ==
    /\ pc[t] = "write"
    /\ state' = [state EXCEPT ![at[t]] = "FALLBACK"]
    /\ INSTALL_HELD' = {} /\ Goes(t, "touched")
    /\ UNCHANGED <<publication_attempted, words_recorded, instruction_len, SITE_JUMP_POSSIBLY_WRITTEN,
                   code, ended, remaps>>

Jumped(s) == [x \in Bytes |-> IF x \in Window(s) THEN s ELSE code[x]]

\* The jump is written; the activation, or the protection after it, may fail.
Activate(t) ==
    /\ pc[t] = "write"
    /\ \/ code' = Jumped(at[t]) /\ (Goes(t, "written") \/ Goes(t, "failing"))
       \/ UNCHANGED code /\ Goes(t, "failing")
    /\ UNCHANGED <<slotVars, INSTALL_HELD, SITE_JUMP_POSSIBLY_WRITTEN, ended, remaps>>

\* Mutant: the site falls back before the flag says that its jump may be written.
FlagWrittenLate(t) ==
    /\ pc[t] = "failing"
    /\ state' = [state EXCEPT ![at[t]] = "FALLBACK"] /\ Goes(t, "fallen")
    /\ UNCHANGED <<publication_attempted, words_recorded, instruction_len, lockVars, ended, remaps>>

\* written_failure: first the flag,
FlagWritten(t) ==
    /\ pc[t] = "failing"
    /\ SITE_JUMP_POSSIBLY_WRITTEN' = TRUE /\ Goes(t, "flagged")
    /\ UNCHANGED <<slotVars, INSTALL_HELD, code, ended, remaps>>

\* then the state.
FallBackWritten(t) ==
    /\ pc[t] = "flagged"
    /\ state' = [state EXCEPT ![at[t]] = "FALLBACK"]
    /\ INSTALL_HELD' = {} /\ Goes(t, "fallen")
    /\ UNCHANGED <<publication_attempted, words_recorded, instruction_len, SITE_JUMP_POSSIBLY_WRITTEN,
                   code, ended, remaps>>

\* The installing thread ends the guest.
EndGuest(t) ==
    /\ pc[t] = "fallen" /\ ended' = TRUE
    /\ UNCHANGED <<slotVars, lockVars, pc, at, remaps>>

\* A completed publication is recorded and the site is active.
Record(t) ==
    LET s == at[t] IN
    /\ pc[t] = "written"
    /\ words_recorded' = [words_recorded EXCEPT ![s] = TRUE]
    /\ state' = [state EXCEPT ![s] = "ACTIVE"]
    /\ INSTALL_HELD' = {} /\ Goes(t, "installed")
    /\ UNCHANGED <<publication_attempted, instruction_len, SITE_JUMP_POSSIBLY_WRITTEN, code, ended, remaps>>

-----------------------------------------------------------------------------
\* Mutant: a system call's failed installation leaves the site as it is.
DeclareQuietly(t) ==
    /\ pc[t] \in {"untouched", "touched"} /\ Goes(t, "wait")
    /\ UNCHANGED <<slotVars, lockVars, ended, remaps>>

\* Mutant: every failure of an instruction's installation counts as untouched.
DeclareUnpatchable(t) ==
    LET s == at[t] IN
    /\ pc[t] \in {"untouched", "touched"}
    /\ state' = [state EXCEPT ![s] = IF s \notin SyscallSites THEN "UNPATCHABLE" ELSE "FALLBACK"]
    /\ Goes(t, "wait")
    /\ UNCHANGED <<publication_attempted, words_recorded, instruction_len, lockVars, ended, remaps>>

\* The failure is stored after the lock was released: an instruction whose code is
\* proved untouched is unpatchable, everything else falls back.
Declare(t) ==
    LET s == at[t] IN
    /\ pc[t] \in {"untouched", "touched"}
    /\ state' = [state EXCEPT ![s] = IF s \notin SyscallSites /\ pc[t] = "untouched" THEN "UNPATCHABLE"
                                     ELSE "FALLBACK"]
    /\ Goes(t, "wait")
    /\ UNCHANGED <<publication_attempted, words_recorded, instruction_len, lockVars, ended, remaps>>

\* An installed instruction site is waited for like any other.
InstructionInstalled(t) ==
    /\ pc[t] = "installed" /\ at[t] \notin SyscallSites /\ Goes(t, "wait")
    /\ UNCHANGED <<slotVars, lockVars, ended, remaps>>

\* Faulting is turned on again after an installation at a system call, also after a failed
\* one; when that fails the site is marked fallback and the trap refused.
RestoreFaulting(t) ==
    /\ at[t] \in SyscallSites
    /\ \/ pc[t] = "installed" /\ Goes(t, "wait") /\ UNCHANGED state
       \/ /\ pc[t] \in {"installed", "untouched", "touched"}
          /\ state' = [state EXCEPT ![at[t]] = "FALLBACK"] /\ Goes(t, "refused")
    /\ UNCHANGED <<publication_attempted, words_recorded, instruction_len, lockVars, ended, remaps>>

\* The spin ends when the site is decided; an instruction then looks once,
WaitInstruction(t) ==
    LET s == at[t] IN
    /\ pc[t] = "wait" /\ s \notin SyscallSites /\ state[s] \notin {"claimed", "INSTALLING"}
    /\ CASE state[s] = "ACTIVE" -> RunsOn(t) /\ UNCHANGED ended
         [] state[s] = "UNPATCHABLE" -> Goes(t, "declined") /\ UNCHANGED ended
         [] OTHER -> ended' = TRUE /\ UNCHANGED <<pc, at>>
    /\ UNCHANGED <<slotVars, lockVars, remaps>>

\* a system call three times: for a fallback of which the jump may be written,
WaitSyscall(t) ==
    LET s == at[t] IN
    /\ pc[t] = "wait" /\ s \in SyscallSites /\ state[s] \notin {"claimed", "INSTALLING"}
    /\ IF state[s] = "FALLBACK" /\ SITE_JUMP_POSSIBLY_WRITTEN THEN ended' = TRUE /\ UNCHANGED <<pc, at>>
       ELSE Goes(t, "active?") /\ UNCHANGED ended
    /\ UNCHANGED <<slotVars, lockVars, remaps>>

\* for a hook,
LookActive(t) ==
    /\ pc[t] = "active?"
    /\ IF state[at[t]] = "ACTIVE" THEN RunsOn(t) ELSE Goes(t, "unpublished?")
    /\ UNCHANGED <<slotVars, lockVars, ended, remaps>>

\* and for an adapter; all else is declined.
LookUnpublished(t) ==
    /\ pc[t] = "unpublished?"
    /\ IF state[at[t]] = "UNPUBLISHED" THEN Goes(t, "adapter") ELSE Goes(t, "declined")
    /\ UNCHANGED <<slotVars, lockVars, ended, remaps>>

\* unpublished_syscall_entry: another number than read or write, or a busy lock, is refused;
EnterAdapter(t) ==
    /\ pc[t] = "adapter"
    /\ \/ Goes(t, "refused") /\ UNCHANGED INSTALL_HELD
       \/ INSTALL_HELD = {} /\ INSTALL_HELD' = {t} /\ Goes(t, "checking")
    /\ UNCHANGED <<slotVars, SITE_JUMP_POSSIBLY_WRITTEN, code, ended, remaps>>

\* under the lock the adapter is entered only over original code that no site conflicts with,
\* and the mapping's protection, bytes and arena may still refuse it.
CheckAdapter(t) ==
    LET s == at[t] IN
    /\ pc[t] = "checking" /\ INSTALL_HELD' = {}
    /\ \/ Goes(t, "refused")
       \/ /\ state[s] = "UNPUBLISHED" /\ Original(Window(s)) /\ ~ PatchSurvives(s)
          /\ ~ InsidePublishedPatch(s) /\ ~ OverlapsPublishedPatch(s) /\ ~ CoversContinuationSite(s)
          /\ Goes(t, "returning")
    /\ UNCHANGED <<slotVars, SITE_JUMP_POSSIBLY_WRITTEN, code, ended, remaps>>

Handler(t) ==
    \/ ClaimSite(t) \/ StoreInstalling(t) \/ EnableNative(t) \/ FaultingFails(t) \/ LockInstallation(t) \/ CheckBytes(t)
    \/ CheckNeighbours(t) \/ InstallUnpublished(t) \/ Attempt(t) \/ PlanFails(t) \/ Activate(t)
    \/ FlagWritten(t) \/ FallBackWritten(t) \/ EndGuest(t) \/ Record(t) \/ Declare(t)
    \/ InstructionInstalled(t) \/ RestoreFaulting(t) \/ WaitInstruction(t) \/ WaitSyscall(t) \/ LookActive(t)
    \/ LookUnpublished(t) \/ EnterAdapter(t) \/ CheckAdapter(t)

PatchNext ==
    /\ ~ ended
    /\ \/ \E t \in Threads : Leave(t) \/ Handler(t) \/ \E s \in Sites : Trap(t, s)
       \/ \E r \in Regions : Remap(r)

\* The operating system schedules every thread that is in its handler.
PatchFairness == \A t \in Threads : WF_pVars(~ ended /\ Handler(t))

PatchSpec == PatchInit /\ [][PatchNext]_pVars /\ PatchFairness

-----------------------------------------------------------------------------
PatchTypeOK ==
    /\ \A s \in Sites : state[s] \in {"free", "claimed", "INSTALLING", "ACTIVE", "FALLBACK", "STALE",
                                      "UNPATCHABLE", "UNPUBLISHED"}
    /\ INSTALL_HELD \in SUBSET Threads /\ code \in [Bytes -> {0} \cup Sites] /\ at \in [Threads -> Nat]

\* The code at the point just past a site's instruction is the guest's, or a jump of its own.
ResumePointIsWhole(s) == code[s + LengthOf[s]] \in {0, s + LengthOf[s]}

\* A decision made under the lock stays true: as long as a thread is at the point past an
\* instruction it emulates (Emulate) or has an adapter return there, no jump covers it.  This
\* is claimed while the table is not full: a site without a slot is declined unseen.
EmulationIsUntouched ==
    \A t \in Threads :
        \/ pc[t] = "declined" /\ at[t] \notin SyscallSites
        \/ pc[t] = "returning"
        => ResumePointIsWhole(at[t])

\* A failure after the activation began ends the guest: the waiters of a system call never
\* take its fallback (NotPatched) for one that left the bytes as they were.
FailureEndsGuest ==
    \A t \in Threads : LET s == at[t] IN
        pc[t] = "declined" /\ code[s + LengthOf[s]] = s => words_recorded[s]

\* An active site has its jump: no thread is sent to the trampoline of a site that a
\* mapping call replaced.
ActiveIsWritten == \A s \in Sites : state[s] = "ACTIVE" => code[s] = s

\* What the patcher decides of a site is true of its code: the types and the three
\* statements above.
PatchesAreSafe == PatchTypeOK /\ EmulationIsUntouched /\ FailureEndsGuest /\ ActiveIsWritten

\* Patcher's contract: a method that declines has left the site's code unchanged, the code
\* just past the instruction, where the guest resumes, included.
DeclineIsUntouched == \A t \in Threads : pc[t] = "declined" => ResumePointIsWhole(at[t])

\* Publications do not tear each other, whatever was remapped between them: a byte of a jump
\* goes only with its mapping.
JumpsStay == [][\A x \in Bytes : code[x] # 0 => code'[x] \in {0, code[x]}]_pVars

\* A thread that trapped runs on or the guest is ended: nobody spins for ever on a site that
\* its installer gave up.
TrapsReturn == \A t \in Threads : pc[t] # "away" ~> pc[t] \in Resuming \cup {"away"} \/ ended
=============================================================================
