-------------------------- MODULE EntryGateProofs ---------------------------
(* What holds of the entry gate for every number of members, copiers and   *)
(* closers: its state keeps its types, a close is heard, signals are       *)
(* accounted for, one thread is told that it retired last, a closed gate   *)
(* is quiet, and the guest's memory changes only under it.                 *)
(*                                                                         *)
(* The types are inductive as they stand; balance and copies are integers, *)
(* as nothing in a single step keeps a debt from being settled twice.      *)
(* Agreement says that the registry agrees with where the threads are.     *)
(* SignalsOf adds to the balance of KicksAreAccounted that nothing is      *)
(* recorded for a thread that is no target, which is what makes the count  *)
(* vanish once an entry is over (NothingPending).  CloseIsHeard needs that *)
(* the exit byte is published for whoever may run (Heard), that try_close  *)
(* signals all who do (Agreement) and that nobody starts to run while a    *)
(* closer holds its token (TokensAreExclusive).  The Keep lemmas say which *)
(* variables an actor leaves alone, so that each invariant looks only at   *)
(* the actors that can disturb it.                                         *)
(*                                                                         *)
(* ClosedMeansQuiet is not inductive: finish_close believes the registry   *)
(* (State::stopped), so the registry must agree with the threads           *)
(* (Agreement) and the number of copies with the copies that are admitted  *)
(* (Counted).  Only the holder of a closed gate changes the image, and     *)
(* then nobody is admitted.  Announced ties the image to its generation    *)
(* but for the one closer between installing and announcing; Cached ties   *)
(* what was read to the generation it was read under; OperandsApart says   *)
(* that what is being replaced shares no byte with a retained operand,     *)
(* because publish refuses an overlap (OverlapIsSharing) and no operand is *)
(* added while the gate is closed.                                         *)
EXTENDS EntryGate, FiniteSetTheorems, TLAPS

\* Every variable has its type at first.
LEMMA GateTypeInit == GateInit => GateTypeOK
<1> SUFFICES ASSUME GateInit PROVE GateTypeOK
  OBVIOUS
<1>1. None \in Ranges
  BY GateAssumption DEF None, Ranges
<1>2. [b \in Bytes |-> 0] \in Image
  BY Zenon DEF Image
<1>3. /\ retained_operands \in [Copiers -> Ranges] /\ replaced \in [Closers -> Ranges]
      /\ operand_image \in [Copiers -> Image] /\ image \in Image
      /\ seen_image \in [Copiers -> Image]
  BY Zenon, <1>1, <1>2 DEF GateInit
<1>4. /\ run \in [Members -> Nat] /\ kicks \in [Members -> Nat] /\ pending \in [Members -> Nat]
      /\ balance \in [Members -> Int] /\ taken \in [Members -> Nat]
      /\ entry_generation \in [Members -> Nat]
      /\ copy_generation \in [Copiers -> Nat] /\ seen_generation \in [Copiers -> Nat]
      /\ id \in [Closers -> Nat] /\ expected \in [Closers -> Nat]
      /\ holder \in Nat /\ generation \in Nat /\ next_close \in Nat /\ copies \in Int
  BY DEF GateInit
<1>5. /\ activity \in [Members -> {"Stopped", "Setup", "Running", "Retiring"}]
      /\ pc \in [Members -> Entered \cup {"new", "out", "lost", "gone", "finish", "acknowledge"}]
      /\ cpy \in [Copiers -> {"idle", "copying"}]
      /\ cpc \in [Closers -> Holding \cup {"idle", "staged", "closing"}]
      /\ admission \in {"Open", "Closing", "Closed"} /\ members \subseteq Members
  BY Zenon DEF GateInit
<1>6. /\ retired \in [Members -> BOOLEAN] /\ last_at_retirement \in [Members -> BOOLEAN]
      /\ cleanup \in [Members -> BOOLEAN] /\ published_exit \in [Members -> BOOLEAN]
      /\ immediate_exit \in [Members -> BOOLEAN] /\ published \in [Closers -> BOOLEAN]
      /\ failure \in BOOLEAN
  BY Zenon DEF GateInit
<1> QED
  BY Zenon, <1>3, <1>4, <1>5, <1>6 DEF GateTypeOK

\* Kicks are counted in naturals.
LEMMA KickType ==
    ASSUME NEW sent, Kick(sent), kicks \in [Members -> Nat], pending \in [Members -> Nat]
    PROVE  kicks' \in [Members -> Nat] /\ pending' \in [Members -> Nat]
BY DEF Kick

\* Every step keeps the types.
LEMMA GateTypeStep == GateTypeOK /\ [GateNext]_gVars => GateTypeOK'
<1> SUFFICES ASSUME GateTypeOK, [GateNext]_gVars PROVE GateTypeOK'
  OBVIOUS
<1> USE DEF GateTypeOK, gateVars, memoryVars, lifeVars, identityVars, entryVars, signalVars,
        threadVars, seenVars, copyVars, closerVars, Entered, Inside, Holding
<1>1. ASSUME NEW m \in Members, register(m)
      PROVE  GateTypeOK'
  BY Zenon, <1>1 DEF register
<1>2. ASSUME NEW m \in Members, retire_from_guest(m)
      PROVE  GateTypeOK'
  BY Zenon, <1>2 DEF retire_from_guest
<1>3. ASSUME NEW m \in Members, DropParticipant(m)
      PROVE  GateTypeOK'
  BY <1>3, Zenon DEF DropParticipant
<1>4. ASSUME NEW m \in Members, try_enter(m)
      PROVE  GateTypeOK'
  <2>1. CASE retired[m] \/ run[m] = MaxRun
    BY <1>4, <2>1, Zenon DEF try_enter
  <2>2. CASE ~(retired[m] \/ run[m] = MaxRun)
    BY <1>4, <2>2 DEF try_enter
  <2> QED
    BY Zenon, <2>1, <2>2
<1>5. ASSUME NEW m \in Members, NEW ok \in BOOLEAN, arm(m, ok)
      PROVE  GateTypeOK'
  <2>1. pc' \in [Members -> Entered \cup {"new", "out", "lost", "gone", "finish", "acknowledge"}]
    BY <1>5 DEF arm
  <2>2. /\ activity' \in [Members -> {"Stopped", "Setup", "Running", "Retiring"}]
        /\ kicks' \in [Members -> Nat]
    BY <1>5 DEF arm
  <2>3. published_exit' \in [Members -> BOOLEAN] /\ cleanup' \in [Members -> BOOLEAN]
    BY <1>5, ZenonT(30) DEF arm
  <2> QED
    BY Zenon, <1>5, <2>1, <2>2, <2>3 DEF arm
<1>6. ASSUME NEW m \in Members, DropEntry(m)
      PROVE  GateTypeOK'
  BY Zenon, <1>6 DEF DropEntry
<1>7. ASSUME NEW m \in Members, activate(m)
      PROVE  GateTypeOK'
  BY <1>7, ZenonT(60) DEF activate
<1>8. ASSUME NEW m \in Members, kvm_run(m)
      PROVE  GateTypeOK'
  BY Zenon, <1>8 DEF kvm_run
<1>9. ASSUME NEW m \in Members, GuestExit(m)
      PROVE  GateTypeOK'
  BY Zenon, <1>9 DEF GuestExit
<1>10. ASSUME NEW m \in Members, interrupt(m)
      PROVE  GateTypeOK'
  BY <1>10 DEF interrupt
<1>11. ASSUME NEW m \in Members, retract(m)
      PROVE  GateTypeOK'
  BY Zenon, <1>11 DEF retract
<1>12. ASSUME NEW m \in Members, NEW clock \in BOOLEAN, withdraw(m, clock)
      PROVE  GateTypeOK'
  BY Zenon, <1>12 DEF withdraw
<1>13. ASSUME NEW m \in Members, finish(m)
      PROVE  GateTypeOK'
  BY <1>13 DEF finish
<1>14. ASSUME NEW m \in Members, acknowledge(m)
      PROVE  GateTypeOK'
  BY Zenon, <1>14 DEF acknowledge
<1>15. ASSUME NEW k \in Copiers, admit_copy(k)
      PROVE  GateTypeOK'
  BY <1>15 DEF admit_copy
<1>16. ASSUME NEW k \in Copiers, NEW range \in Ranges, retain_operand(k, range)
      PROVE  GateTypeOK'
  BY Zenon, <1>16 DEF retain_operand
<1>17. ASSUME NEW k \in Copiers, NEW panicking \in BOOLEAN, retire_copy(k, panicking)
      PROVE  GateTypeOK'
  BY <1>17 DEF retire_copy
<1>18. ASSUME NEW k \in Copiers, NEW panicking \in BOOLEAN, DropOperand(k, panicking)
      PROVE  GateTypeOK'
  <2>1. None \in Ranges
    BY GateAssumption DEF None, Ranges
  <2> QED
    BY Zenon, <1>18, <2>1 DEF DropOperand
<1>19. ASSUME poison
      PROVE  GateTypeOK'
  BY Zenon, <1>19 DEF poison
<1>20. ASSUME NEW c \in Closers, Stage(c)
      PROVE  GateTypeOK'
  BY Zenon, <1>20 DEF Stage
<1>21. ASSUME NEW c \in Closers, try_close(c)
      PROVE  GateTypeOK'
  <2>1. CASE next_close = MaxClose
    BY <1>21, <2>1 DEF try_close
  <2>2. CASE next_close # MaxClose
    <3>1. kicks' \in [Members -> Nat] /\ pending' \in [Members -> Nat]
      <4>1. Kick(Running)
        BY Zenon, <1>21, <2>2 DEF try_close
      <4> QED
        BY Zenon, <4>1, KickType
    <3>2. next_close' \in Nat /\ holder' \in Nat /\ id' \in [Closers -> Nat]
      BY <1>21, <2>2 DEF try_close
    <3>3. /\ admission' \in {"Open", "Closing", "Closed"} /\ failure' \in BOOLEAN
          /\ cpc' \in [Closers -> Holding \cup {"idle", "staged", "closing"}]
      BY Zenon, <1>21, <2>2 DEF try_close
    <3> QED
      BY <1>21, <2>2, <3>1, <3>2, <3>3 DEF try_close, Kick
  <2> QED
    BY Zenon, <2>1, <2>2
<1>22. ASSUME NEW c \in Closers, NEW failed \in Members, NEW sent \in SUBSET Members,
              try_close_SendFailed(c, failed, sent)
      PROVE  GateTypeOK'
  BY <1>22 DEF try_close_SendFailed, Kick
<1>23. ASSUME NEW c \in Closers, NEW live \in {0, 1}, try_close_quiescent(c, live)
      PROVE  GateTypeOK'
  BY <1>23 DEF try_close_quiescent
<1>24. ASSUME NEW c \in Closers, finish_close(c)
      PROVE  GateTypeOK'
  BY Zenon, <1>24 DEF finish_close
<1>25. ASSUME NEW c \in Closers, finish_TimedOut(c)
      PROVE  GateTypeOK'
  BY Zenon, <1>25 DEF finish_TimedOut
<1>26. ASSUME NEW c \in Closers, DropClosing(c)
      PROVE  GateTypeOK'
  BY Zenon, <1>26 DEF DropClosing
<1>27. ASSUME NEW c \in Closers, NEW range \in Ranges, publish(c, range)
      PROVE  GateTypeOK'
  BY <1>27, ZenonT(60) DEF publish
<1>28. ASSUME NEW c \in Closers, Install(c)
      PROVE  GateTypeOK'
  BY <1>28 DEF Install, Image
<1>29. ASSUME NEW c \in Closers, NEW part \in SUBSET Bytes, InstallFails(c, part)
      PROVE  GateTypeOK'
  BY <1>29 DEF InstallFails, Image
<1>30. ASSUME NEW c \in Closers, Advance(c)
      PROVE  GateTypeOK'
  <2>1. generation' \in Nat
    BY <1>30 DEF Advance
  <2>2. published' \in [Closers -> BOOLEAN]
    BY <1>30, Zenon DEF Advance
  <2>3. cpc' \in [Closers -> Holding \cup {"idle", "staged", "closing"}]
    BY Zenon, <1>30 DEF Advance
  <2> QED
    BY Zenon, <1>30, <2>1, <2>2, <2>3 DEF Advance
<1>31. ASSUME NEW c \in Closers, NEW panicking \in BOOLEAN, DropClosed(c, panicking)
      PROVE  GateTypeOK'
  BY Zenon, <1>31 DEF DropClosed
<1>32. CASE UNCHANGED gVars
  BY Zenon, <1>32 DEF gVars
<1> QED
  BY ZenonT(30), <1>1, <1>2, <1>3, <1>4, <1>5, <1>6, <1>7, <1>8, <1>9, <1>10, <1>11, <1>12, <1>13, <1>14,
     <1>15, <1>16, <1>17, <1>18, <1>19, <1>20, <1>21, <1>22, <1>23, <1>24, <1>25, <1>26, <1>27,
     <1>28, <1>29, <1>30, <1>31, <1>32
     DEF GateNext, MemberNext, EntryStep, CopierNext, CloserNext

\* Types are respected, whatever the numbers of members, copiers and closers.
THEOREM GateTypeCorrect == GateSpec => []GateTypeOK
BY GateTypeInit, GateTypeStep, PTL DEF GateSpec

-----------------------------------------------------------------------------
\* What each party leaves alone; a failure is never cleared.
MemberFrame == UNCHANGED <<gateVars, memoryVars, copyVars, closerVars>> /\ (failure => failure')
CopierFrame == /\ UNCHANGED <<gateVars, memoryVars, lifeVars, entryVars, signalVars, threadVars,
                              closerVars>>
               /\ failure => failure'
CloserFrame == UNCHANGED <<lifeVars, entryVars, threadVars, copyVars>> /\ (failure => failure')

\* A member's step changes neither admission, nor memory, nor copies or closers.
LEMMA MembersKeep == ASSUME NEW m \in Members, MemberNext(m) PROVE MemberFrame
<1> USE DEF MemberFrame, gateVars, memoryVars, copyVars, seenVars, closerVars
<1>1. CASE register(m) \/ retire_from_guest(m) \/ DropParticipant(m) \/ try_enter(m)
  BY <1>1 DEF register, retire_from_guest, DropParticipant, try_enter
<1>2. CASE \E ok \in BOOLEAN : arm(m, ok) \/ withdraw(m, ok)
  BY <1>2 DEF arm, withdraw
<1>3. CASE activate(m) \/ kvm_run(m) \/ retract(m)
  BY <1>3 DEF activate, kvm_run, retract
<1>4. CASE DropEntry(m) \/ GuestExit(m) \/ interrupt(m)
  BY <1>4 DEF DropEntry, GuestExit, interrupt
<1>5. CASE finish(m)
  BY Zenon, <1>5 DEF finish
<1>6. CASE acknowledge(m)
  BY <1>6, Zenon DEF acknowledge
<1> QED
  BY Zenon, <1>1, <1>2, <1>3, <1>4, <1>5, <1>6 DEF MemberNext, EntryStep

\* A copier's step changes neither the gate nor the members.
LEMMA CopiersKeep == ASSUME NEW k \in Copiers, CopierNext(k) PROVE CopierFrame
BY Zenon DEF CopierFrame, gateVars, memoryVars, lifeVars, entryVars, identityVars, signalVars, threadVars,
       closerVars, CopierNext, admit_copy, retain_operand, retire_copy, DropOperand

\* A closer's step leaves threads and copies to themselves.
LEMMA ClosersKeep == ASSUME NEW c \in Closers, CloserNext(c) PROVE CloserFrame
<1> USE DEF CloserFrame, lifeVars, entryVars, identityVars, threadVars, copyVars, seenVars
<1>1. CASE Stage(c) \/ try_close(c) \/ finish_close(c) \/ finish_TimedOut(c) \/ DropClosing(c)
  BY <1>1 DEF Stage, try_close, finish_close, finish_TimedOut, DropClosing
<1>2. CASE \E failed \in Members, sent \in SUBSET Members : try_close_SendFailed(c, failed, sent)
  BY Zenon, <1>2 DEF try_close_SendFailed
<1>3. CASE \E live \in {0, 1} : try_close_quiescent(c, live)
  BY Zenon, <1>3 DEF try_close_quiescent
<1>4. CASE \E range \in Ranges : publish(c, range)
  BY Zenon, <1>4 DEF publish
<1>5. CASE Install(c)
  BY <1>5, Zenon DEF Install
<1>6. CASE Advance(c)
  BY <1>6, Zenon DEF Advance
<1>7. CASE \E part \in SUBSET Bytes : InstallFails(c, part)
  BY <1>7, Zenon DEF InstallFails
<1>8. CASE \E panicking \in BOOLEAN : DropClosed(c, panicking)
  BY <1>8, Zenon DEF DropClosed
<1> HIDE DEF CloserFrame
<1> QED
  BY <1>1, <1>2, <1>3, <1>4, <1>5, <1>6, <1>7, <1>8, Zenon DEF CloserNext

-----------------------------------------------------------------------------
\* The registry's account of a member agrees with where its thread is.
Agrees(m) ==
    /\ pc[m] \in {"new", "gone"} => activity[m] # "Running"
    /\ pc[m] = "new" => activity[m] = "Stopped" /\ ~retired[m]
    /\ pc[m] \notin {"new", "gone"} => m \in members
    /\ pc[m] = "out" => activity[m] = "Stopped"
    /\ pc[m] \in {"setup", "armed"} => activity[m] = "Setup"
    /\ pc[m] \in Inside => activity[m] = "Running"
    /\ pc[m] = "decoded" => activity[m] \in {"Setup", "Running"}
    /\ pc[m] \in {"finish", "acknowledge", "lost"} => activity[m] = "Retiring"

Agreement == \A m \in Members : Agrees(m)

\* Every step keeps the registry in agreement with the threads.
LEMMA AgreementStep == GateTypeOK /\ Agreement /\ [GateNext]_gVars => Agreement'
<1> SUFFICES ASSUME GateTypeOK, Agreement, [GateNext]_gVars PROVE Agreement'
  OBVIOUS
<1> USE DEF Agreement, Agrees, Inside
<1>t. /\ pc \in [Members -> Entered \cup {"new", "out", "lost", "gone", "finish", "acknowledge"}]
      /\ activity \in [Members -> {"Stopped", "Setup", "Running", "Retiring"}]
      /\ members \subseteq Members /\ retired \in [Members -> BOOLEAN]
  BY Zenon DEF GateTypeOK
<1>1. ASSUME NEW m \in Members, MemberNext(m) PROVE Agreement'
  <2> USE <1>t DEF lifeVars, entryVars, identityVars, threadVars
  <2>1. CASE register(m)
    BY Zenon, <2>1 DEF register
  <2>2. CASE retire_from_guest(m)
    BY Zenon, <2>2 DEF retire_from_guest
  <2>3. CASE DropParticipant(m)
    BY Zenon, <2>3 DEF DropParticipant
  <2>4. CASE try_enter(m)
    BY <2>4 DEF try_enter
  <2>5. ASSUME NEW ok \in BOOLEAN, arm(m, ok) PROVE Agreement'
    BY <2>5 DEF arm
  <2>6. ASSUME NEW clock \in BOOLEAN, withdraw(m, clock) PROVE Agreement'
    BY Zenon, <2>6 DEF withdraw
  <2>7. CASE DropEntry(m) \/ activate(m)
    BY <2>7 DEF DropEntry, activate
  <2>8. CASE kvm_run(m) \/ GuestExit(m) \/ interrupt(m) \/ retract(m)
    BY <2>8 DEF kvm_run, GuestExit, interrupt, retract
  <2>9. CASE finish(m)
    BY Zenon, <2>9 DEF finish
  <2>10. CASE acknowledge(m)
    BY Zenon, <2>10 DEF acknowledge
  <2> QED
    BY <1>1, <2>1, <2>2, <2>3, <2>4, <2>5, <2>6, <2>7, <2>8, <2>9, <2>10, Zenon DEF MemberNext, EntryStep
<1>2. CASE UNCHANGED <<lifeVars, entryVars, threadVars>>
  BY Zenon, <1>2 DEF lifeVars, entryVars, identityVars, threadVars
<1>3. \/ UNCHANGED <<lifeVars, entryVars, threadVars>>
      \/ \E m \in Members : MemberNext(m)
  BY Zenon, CopiersKeep, ClosersKeep DEF GateNext, gVars, poison, CopierFrame, CloserFrame
<1> QED
  BY <1>1, <1>2, <1>3, Zenon

-----------------------------------------------------------------------------
\* The tokens of closers stay exclusive.
LEMMA TokensStep == GateTypeOK /\ TokensAreExclusive /\ [GateNext]_gVars => TokensAreExclusive'
<1> SUFFICES ASSUME GateTypeOK, TokensAreExclusive, [GateNext]_gVars PROVE TokensAreExclusive'
  OBVIOUS
<1>t. /\ cpc \in [Closers -> Holding \cup {"idle", "staged", "closing"}]
      /\ id \in [Closers -> Nat] /\ holder \in Nat /\ next_close \in Nat
  BY Zenon DEF GateTypeOK
<1> USE DEF TokensAreExclusive, Holding
<1>1. ASSUME NEW c \in Closers, CloserNext(c) PROVE TokensAreExclusive'
  <2> USE <1>t DEF gateVars
  <2>1. CASE Stage(c)
    BY Zenon, <2>1 DEF Stage, closerVars
  <2>2. CASE try_close(c)
    BY <2>2 DEF try_close
  <2>3. ASSUME NEW failed \in Members, NEW sent \in SUBSET Members, try_close_SendFailed(c, failed, sent)
        PROVE  TokensAreExclusive'
    BY Zenon, <2>3 DEF try_close_SendFailed
  <2>4. ASSUME NEW live \in {0, 1}, try_close_quiescent(c, live) PROVE TokensAreExclusive'
    BY Zenon, <2>4 DEF try_close_quiescent
  <2>5. CASE finish_close(c)
    BY <2>5 DEF finish_close
  <2>6. CASE finish_TimedOut(c)
    BY Zenon, <2>6 DEF finish_TimedOut
  <2>7. CASE DropClosing(c)
    BY Zenon, <2>7 DEF DropClosing
  <2>8. ASSUME NEW range \in Ranges, publish(c, range) PROVE TokensAreExclusive'
    BY <2>8 DEF publish
  <2>9. CASE Install(c) \/ Advance(c)
    BY <2>9 DEF Install, Advance
  <2>10. ASSUME NEW part \in SUBSET Bytes, InstallFails(c, part) PROVE TokensAreExclusive'
    BY <2>10 DEF InstallFails
  <2>11. ASSUME NEW panicking \in BOOLEAN, DropClosed(c, panicking) PROVE TokensAreExclusive'
    BY Zenon, <2>11 DEF DropClosed
  <2> HIDE DEF TokensAreExclusive
  <2> QED
    BY <1>1, <2>1, <2>2, <2>3, <2>4, <2>5, <2>6, <2>7, <2>8, <2>9, <2>10, <2>11, Zenon DEF CloserNext
<1>2. CASE UNCHANGED <<gateVars, closerVars>>
  BY Zenon, <1>2 DEF gateVars, closerVars
<1>3. UNCHANGED <<gateVars, closerVars>> \/ \E c \in Closers : CloserNext(c)
  BY Zenon, MembersKeep, CopiersKeep DEF GateNext, gVars, poison, MemberFrame, CopierFrame
<1> QED
  BY Zenon, <1>1, <1>2, <1>3

-----------------------------------------------------------------------------
\* One member's signals: kicks are recorded only while it is a target, what
\* was recorded is pending or was taken, and the exit byte is clear outside.
SignalsOf(m) ==
    /\ pending[m] + balance[m] = kicks[m] + taken[m]
    /\ balance[m] >= 0
    /\ activity[m] # "Running" => kicks[m] = 0
    /\ pc[m] # "finish" => taken[m] = 0
    /\ pc[m] \notin Inside \cup {"decoded", "finish"} => ~immediate_exit[m]

Signals == \A m \in Members : SignalsOf(m)

\* Outside its entry a member has no signal pending.
LEMMA NothingPending ==
    ASSUME GateTypeOK, Agreement, Signals, NEW m \in Members,
           pc[m] \notin Inside \cup {"decoded", "finish"}
    PROVE  pending[m] = 0 /\ balance[m] = 0 /\ kicks[m] = 0 /\ taken[m] = 0
<1>1. activity[m] # "Running" /\ pc[m] # "finish"
  BY Zenon DEF GateTypeOK, Agreement, Agrees, Inside, Entered
<1>2. kicks[m] = 0 /\ taken[m] = 0 /\ pending[m] + balance[m] = 0 /\ balance[m] >= 0
  BY <1>1 DEF Signals, SignalsOf, GateTypeOK
<1>3. pending[m] \in Nat /\ balance[m] \in Int
  BY Zenon DEF GateTypeOK
<1> QED
  BY <1>2, <1>3

\* Every step keeps the signals accounted for.
LEMMA SignalsStep == GateTypeOK /\ Agreement /\ Signals /\ [GateNext]_gVars => Signals'
<1> SUFFICES ASSUME GateTypeOK, Agreement, Signals, [GateNext]_gVars, NEW n \in Members
             PROVE  SignalsOf(n)'
  BY Zenon DEF Signals
<1>t. /\ pc \in [Members -> Entered \cup {"new", "out", "lost", "gone", "finish", "acknowledge"}]
      /\ activity \in [Members -> {"Stopped", "Setup", "Running", "Retiring"}]
      /\ kicks \in [Members -> Nat] /\ pending \in [Members -> Nat]
      /\ balance \in [Members -> Int] /\ taken \in [Members -> Nat]
  BY Zenon DEF GateTypeOK
<1>b. immediate_exit \in [Members -> BOOLEAN] /\ published_exit \in [Members -> BOOLEAN]
  BY Zenon DEF GateTypeOK
<1>n. SignalsOf(n) /\ Agrees(n)
  BY Zenon DEF Signals, Agreement
<1>1. ASSUME NEW m \in Members, MemberNext(m) PROVE SignalsOf(n)'
  <2> USE <1>t, <1>b, <1>n DEF SignalsOf, signalVars, entryVars, identityVars, threadVars, Inside
  <2>1. CASE register(m) \/ retire_from_guest(m)
    BY <2>1, Zenon DEF register, retire_from_guest
  <2>2. CASE DropParticipant(m)
    BY <2>2, Zenon DEF DropParticipant, Agrees
  <2>3. CASE try_enter(m)
    BY <2>3, Zenon DEF try_enter, Agrees
  <2>4. ASSUME NEW ok \in BOOLEAN, arm(m, ok) PROVE SignalsOf(n)'
    BY <2>4, Zenon DEF arm, Agrees
  <2>5. ASSUME NEW clock \in BOOLEAN, withdraw(m, clock) PROVE SignalsOf(n)'
    BY <2>5 DEF withdraw
  <2>6. CASE DropEntry(m) \/ activate(m)
    BY <2>6, ZenonT(60) DEF DropEntry, activate, Agrees
  <2>7. CASE kvm_run(m) \/ GuestExit(m)
    BY <2>7, Zenon DEF kvm_run, GuestExit
  <2>8. CASE interrupt(m)
    <3>1. pc[m] \in Inside \cup {"decoded", "finish"}
      BY <2>8, NothingPending DEF interrupt
    <3> QED
      BY <2>8, <3>1 DEF interrupt
  <2>9. CASE retract(m)
    BY Zenon, <2>9 DEF retract
  <2>10. CASE finish(m)
    <3> DEFINE delivered == IF taken[m] # 0 THEN pending[m] ELSE 0
    <3>1. /\ pending' = [pending EXCEPT ![m] = @ - delivered]
          /\ balance' = [balance EXCEPT ![m] = balance[m] + delivered - taken[m]]
          /\ taken' = [taken EXCEPT ![m] = 0]
          /\ pc' = [pc EXCEPT ![m] = "acknowledge"]
          /\ immediate_exit' = [immediate_exit EXCEPT ![m] = FALSE]
          /\ UNCHANGED <<activity, kicks>> /\ pc[m] = "finish"
      BY <2>10, ZenonT(60) DEF finish
    <3>2. CASE n # m
      BY Zenon, <3>1, <3>2
    <3>3. CASE n = m
      <4>1. delivered \in Int /\ kicks[m] = 0
        BY <3>1, <3>3 DEF Agrees
      <4>2. balance[m] + delivered - taken[m] >= 0
        BY <3>3, <4>1
      <4> HIDE DEF delivered
      <4> QED
        BY <3>1, <3>3, <4>1, <4>2
    <3> QED
      BY <3>2, <3>3, Zenon
  <2>11. CASE acknowledge(m)
    BY <2>11, ZenonT(60) DEF acknowledge, Agrees
  <2> HIDE DEF SignalsOf
  <2> QED
    BY Zenon, <1>1, <2>1, <2>2, <2>3, <2>4, <2>5, <2>6, <2>7, <2>8, <2>9, <2>10, <2>11
       DEF MemberNext, EntryStep
<1>2. ASSUME NEW c \in Closers, CloserNext(c) PROVE SignalsOf(n)'
  <2>1. UNCHANGED <<pc, activity>>
    BY Zenon, <1>2, ClosersKeep DEF CloserFrame, entryVars, threadVars
  <2>2. ASSUME NEW sent, sent \subseteq Running, Kick(sent) PROVE SignalsOf(n)'
    BY <1>t, <1>b, <1>n, <2>1, <2>2 DEF Kick, Running, SignalsOf
  <2>3. CASE UNCHANGED signalVars
    BY <1>n, <2>1, <2>3, Zenon DEF signalVars, SignalsOf
  <2>4. UNCHANGED signalVars \/ \E sent : sent \subseteq Running /\ Kick(sent)
    <3>1. CASE try_close(c)
      BY Zenon, <3>1 DEF try_close
    <3>2. CASE \E failed \in Members, sent \in SUBSET Members : try_close_SendFailed(c, failed, sent)
      BY Zenon, <3>2 DEF try_close_SendFailed
    <3>3. CASE ~(try_close(c) \/ \E failed \in Members, sent \in SUBSET Members :
                                    try_close_SendFailed(c, failed, sent))
      BY <1>2, <3>3, Zenon DEF CloserNext, Stage, try_close_quiescent, finish_close, finish_TimedOut,
         DropClosing, publish, Install, InstallFails, Advance, DropClosed
    <3> QED
      BY Zenon, <3>1, <3>2, <3>3
  <2> QED
    BY Zenon, <2>2, <2>3, <2>4
<1>3. CASE UNCHANGED <<entryVars, signalVars, threadVars>>
  BY <1>n, <1>3, ZenonT(60) DEF entryVars, signalVars, threadVars, SignalsOf
<1>4. \/ UNCHANGED <<entryVars, signalVars, threadVars>>
      \/ \E m \in Members : MemberNext(m)
      \/ \E c \in Closers : CloserNext(c)
  BY Zenon, CopiersKeep DEF GateNext, gVars, poison, CopierFrame
<1> QED
  BY Zenon, <1>1, <1>2, <1>3, <1>4

-----------------------------------------------------------------------------
\* Who is told that it retired last.
Last == LastUserIsLast /\ \A m \in Members : last_at_retirement[m] => retired[m]

\* Retirement is decided under the lock.
LEMMA LastStep == GateTypeOK /\ Agreement /\ Last /\ [GateNext]_gVars => Last'
<1> SUFFICES ASSUME GateTypeOK, Agreement, Last, [GateNext]_gVars PROVE Last'
  OBVIOUS
<1>t. /\ retired \in [Members -> BOOLEAN] /\ last_at_retirement \in [Members -> BOOLEAN]
      /\ members \subseteq Members
  BY Zenon DEF GateTypeOK
<1>1. ASSUME NEW m \in Members, register(m) PROVE Last'
  <2>1. \A n \in Members : ~last_at_retirement[n]
    BY <1>1, ZenonT(60) DEF register, Last, LastUserIsLast, Agreement, Agrees
  <2> QED
    BY <1>1, <2>1, Zenon DEF register, Last, LastUserIsLast
<1>2. ASSUME NEW m \in Members, retire_from_guest(m) PROVE Last'
  <2>1. m \in Live
    BY <1>2, ZenonT(60) DEF retire_from_guest, Agreement, Agrees, Live
  <2>2. \A n \in Members : ~last_at_retirement[n]
    BY Zenon, <2>1 DEF Last, LastUserIsLast
  <2>3. retired' = [retired EXCEPT ![m] = TRUE] /\ members' = members
    BY <1>2, ZenonT(60) DEF retire_from_guest
  <2>4. \A n \in Members : last_at_retirement'[n] => n = m /\ \A l \in members \ {m} : retired[l]
    BY Zenon, <1>2, <1>t, <2>2 DEF retire_from_guest
  <2>5. \A n \in Members : last_at_retirement'[n] => Live' = {}
    BY Zenon, <1>t, <2>3, <2>4 DEF Live
  <2> QED
    BY Zenon, <1>t, <2>3, <2>4, <2>5 DEF Last, LastUserIsLast
<1>3. ASSUME NEW m \in Members, DropParticipant(m) PROVE Last'
  <2>1. Live' \subseteq Live
    BY Zenon, <1>3 DEF DropParticipant, Live
  <2> QED
    BY Zenon, <1>3, <2>1 DEF DropParticipant, Last, LastUserIsLast
<1>4. CASE UNCHANGED lifeVars
  BY <1>4, ZenonT(60) DEF lifeVars, Last, LastUserIsLast, Live
<1>5. ASSUME NEW m \in Members, MemberNext(m)
      PROVE  register(m) \/ retire_from_guest(m) \/ DropParticipant(m) \/ UNCHANGED lifeVars
  <2>1. CASE try_enter(m) \/ DropEntry(m) \/ GuestExit(m) \/ interrupt(m)
    BY <2>1, Zenon DEF try_enter, DropEntry, GuestExit, interrupt
  <2>2. CASE EntryStep(m)
    BY <2>2, ZenonT(60) DEF EntryStep, arm, withdraw, activate, kvm_run, retract, finish, acknowledge
  <2> QED
    BY Zenon, <1>5, <2>1, <2>2 DEF MemberNext
<1>6. UNCHANGED lifeVars \/ \E m \in Members : MemberNext(m)
  BY Zenon, CopiersKeep, ClosersKeep DEF GateNext, gVars, poison, CopierFrame, CloserFrame
<1> QED
  BY Zenon, <1>1, <1>2, <1>3, <1>4, <1>5, <1>6
-----------------------------------------------------------------------------
\* The exit byte is published for whoever may run, so that a signal's handler
\* finds it: CloseIsHeard, and what keeps it so.
Heard ==
    /\ \A m \in Members : pc[m] \in Inside \cup {"armed"} => published_exit[m]
    /\ CloseIsHeard

\* Every step keeps closes heard: activate admits nobody while a closer waits,
\* and try_close signals everybody the registry believes to run.
LEMMA HeardStep ==
    GateTypeOK /\ Agreement /\ TokensAreExclusive /\ Heard /\ [GateNext]_gVars => Heard'
<1> SUFFICES ASSUME GateTypeOK, Agreement, TokensAreExclusive, Heard, [GateNext]_gVars
             PROVE  Heard'
  OBVIOUS
<1>t. /\ pc \in [Members -> Entered \cup {"new", "out", "lost", "gone", "finish", "acknowledge"}]
      /\ pending \in [Members -> Nat] /\ published_exit \in [Members -> BOOLEAN]
      /\ immediate_exit \in [Members -> BOOLEAN]
      /\ cpc \in [Closers -> Holding \cup {"idle", "staged", "closing"}]
  BY Zenon DEF GateTypeOK
<1>1. ASSUME NEW m \in Members, MemberNext(m) PROVE Heard'
  <2>c. cpc' = cpc
    BY Zenon, <1>1, MembersKeep DEF MemberFrame, closerVars
  <2>t. admission = "Open" => \A c \in Closers : cpc[c] # "closing"
    BY Zenon DEF TokensAreExclusive
  <2> USE <1>t, <2>c DEF Heard, CloseIsHeard, signalVars, threadVars, Inside, Entered
  <2>1. CASE register(m) \/ retire_from_guest(m) \/ DropParticipant(m)
    BY <2>1 DEF register, retire_from_guest, DropParticipant
  <2>2. CASE try_enter(m) \/ DropEntry(m)
    BY <2>2 DEF try_enter, DropEntry
  <2>3. ASSUME NEW ok \in BOOLEAN, arm(m, ok) PROVE Heard'
    BY <2>3 DEF arm
  <2>4. ASSUME NEW clock \in BOOLEAN, withdraw(m, clock) PROVE Heard'
    BY Zenon, <2>4 DEF withdraw
  <2>5. CASE activate(m)
    BY Zenon, <2>5, <2>t DEF activate
  <2>6. CASE kvm_run(m)
    BY SMTT(20), <2>6 DEF kvm_run
  <2>7. CASE GuestExit(m) \/ acknowledge(m)
    BY <2>7 DEF GuestExit, acknowledge
  <2>8. CASE interrupt(m)
    BY Zenon, <2>8 DEF interrupt
  <2>9. CASE retract(m)
    BY Zenon, <2>9 DEF retract
  <2>10. CASE finish(m)
    BY Zenon, <2>10 DEF finish
  <2> HIDE DEF Heard
  <2> QED
    BY <1>1, <2>1, <2>2, <2>3, <2>4, <2>5, <2>6, <2>7, <2>8, <2>9, <2>10, Zenon
       DEF MemberNext, EntryStep
<1>2. ASSUME NEW c \in Closers, CloserNext(c) PROVE Heard'
  <2>p. pc' = pc
    BY Zenon, <1>2, ClosersKeep DEF CloserFrame, threadVars
  <2> USE <1>t, <2>p DEF Heard, CloseIsHeard, signalVars
  <2>1. CASE try_close(c)
    <3>1. \A m \in Members : pc[m] \in Inside => m \in Running
      BY Zenon DEF Agreement, Agrees, Running, Inside
    <3>2. UNCHANGED <<published_exit, immediate_exit>>
      BY Zenon, <2>1 DEF try_close, Kick
    <3>3. CASE Kick(Running)
      <4>1. \A m \in Members : pc[m] \in Inside => pending'[m] > 0
        BY <3>1, <3>3 DEF Kick
      <4> QED
        BY Zenon, <3>2, <4>1 DEF Inside
    <3>4. CASE UNCHANGED signalVars /\ cpc' = [cpc EXCEPT ![c] = "idle"]
      BY Zenon, <3>4
    <3> QED
      BY <2>1, <3>3, <3>4, ZenonT(30) DEF try_close
  <2>2. ASSUME NEW failed \in Members, NEW sent \in SUBSET Members,
               try_close_SendFailed(c, failed, sent)
        PROVE  Heard'
    <3>1. /\ UNCHANGED <<published_exit, immediate_exit>> /\ cpc' = [cpc EXCEPT ![c] = "idle"]
          /\ \A m \in Members : pending[m] > 0 => pending'[m] > 0
      BY <2>2 DEF try_close_SendFailed, Kick
    <3> QED
      BY Zenon, <3>1
  <2>3. ASSUME UNCHANGED signalVars, \A d \in Closers : cpc'[d] = "closing" => cpc[d] = "closing"
        PROVE  Heard'
    BY Zenon, <2>3
  <2> HIDE DEF Heard, CloseIsHeard
  <2>4. CASE Stage(c) \/ finish_close(c) \/ finish_TimedOut(c) \/ DropClosing(c)
    BY <2>4, <2>3, Zenon DEF Stage, finish_close, finish_TimedOut, DropClosing
  <2>5. ASSUME NEW live \in {0, 1}, try_close_quiescent(c, live) PROVE Heard'
    BY <2>5, <2>3, Zenon DEF try_close_quiescent
  <2>6. ASSUME NEW range \in Ranges, publish(c, range) PROVE Heard'
    BY <2>6, <2>3, Zenon DEF publish
  <2>7. CASE Install(c) \/ Advance(c)
    BY <2>7, <2>3, Zenon DEF Install, Advance
  <2>8. ASSUME NEW part \in SUBSET Bytes, InstallFails(c, part) PROVE Heard'
    BY <2>8, <2>3, Zenon DEF InstallFails
  <2>9. ASSUME NEW panicking \in BOOLEAN, DropClosed(c, panicking) PROVE Heard'
    BY <2>9, <2>3, Zenon DEF DropClosed
  <2> QED
    BY <1>2, <2>1, <2>2, <2>4, <2>5, <2>6, <2>7, <2>8, <2>9, Zenon DEF CloserNext
<1>3. CASE UNCHANGED <<signalVars, threadVars, closerVars>>
  BY <1>3, Zenon DEF signalVars, threadVars, closerVars, Heard, CloseIsHeard
<1>4. \/ UNCHANGED <<signalVars, threadVars, closerVars>>
      \/ \E m \in Members : MemberNext(m)
      \/ \E c \in Closers : CloserNext(c)
  BY Zenon, CopiersKeep DEF GateNext, gVars, poison, CopierFrame
<1> QED
  BY <1>1, <1>2, <1>3, <1>4, Zenon

-----------------------------------------------------------------------------
\* The inductive invariant for the gate, its tokens and its signals.
GateInv ==
    GateTypeOK /\ Agreement /\ TokensAreExclusive /\ Signals /\ Last /\ Heard

\* A new gate satisfies the invariant.
LEMMA GateInvInit == GateInit => GateInv
<1> SUFFICES ASSUME GateInit PROVE GateInv
  OBVIOUS
<1>1. GateTypeOK
  BY Zenon, GateTypeInit
<1>2. Agreement
  BY Zenon DEF GateInit, Agreement, Agrees, Inside
<1>3. TokensAreExclusive
  BY Zenon DEF GateInit, TokensAreExclusive, Holding
<1>4. Signals
  BY DEF GateInit, Signals, SignalsOf
<1>5. Last
  BY Zenon DEF GateInit, Last, LastUserIsLast
<1>6. Heard
  BY Zenon DEF GateInit, Heard, CloseIsHeard, Inside
<1> QED
  BY Zenon, <1>1, <1>2, <1>3, <1>4, <1>5, <1>6 DEF GateInv

\* Every step keeps the invariant.
LEMMA GateInvStep == GateInv /\ [GateNext]_gVars => GateInv'
BY GateTypeStep, AgreementStep, TokensStep, SignalsStep, LastStep, HeardStep, Zenon DEF GateInv

\* The invariant holds throughout.
LEMMA GateInvariant == GateSpec => []GateInv
BY GateInvInit, GateInvStep, PTL DEF GateSpec

\* Every signal sent is accounted for, and none outlives its entry.
THEOREM SignalsAccounted == GateSpec => []KicksAreAccounted
<1>1. GateInv => KicksAreAccounted
  <2> SUFFICES ASSUME GateInv, NEW m \in Members
               PROVE  /\ pending[m] + balance[m] = kicks[m] + taken[m]
                      /\ pc[m] \notin Inside \cup {"decoded", "finish"}
                            => pending[m] = 0 /\ balance[m] = 0
                      /\ pc[m] \in {"setup", "armed"} => ~immediate_exit[m]
    BY Zenon DEF KicksAreAccounted
  <2>1. SignalsOf(m)
    BY Zenon DEF GateInv, Signals
  <2> QED
    BY Zenon, <2>1, NothingPending DEF GateInv, SignalsOf, Inside
<1> QED
  BY <1>1, GateInvariant, PTL

\* At most one thread is told that it was the last user, and it was.
THEOREM OneLastUser == GateSpec => []LastUserIsLast
<1>1. GateInv => LastUserIsLast
  BY Zenon DEF GateInv, Last
<1> QED
  BY <1>1, GateInvariant, PTL

\* While a closer waits, whoever is in the guest or about to enter it has a
\* signal on the way or will leave at once (try_close's kicks, interrupt()).
THEOREM ClosesAreHeard == GateSpec => []CloseIsHeard
<1>1. GateInv => CloseIsHeard
  BY Zenon DEF GateInv, Heard
<1> QED
  BY <1>1, GateInvariant, PTL


\* copies counts the admitted ones.
Copying == {k \in Copiers : cpy[k] = "copying"}
Counted == copies = Cardinality(Copying)

\* The admitted copies can be counted.
LEMMA CopyingFinite ==
    /\ IsFiniteSet(Copying)
    /\ Cardinality(Copying) = 0 <=> Copying = {}
<1>1. Copying \in SUBSET Copiers /\ IsFiniteSet(Copiers)
  BY Zenon, GateAssumption DEF Copying
<1>2. IsFiniteSet(Copying)
  BY <1>1, FS_Subset, Zenon
<1> QED
  BY <1>2, FS_EmptySet, Zenon

\* Every admission and every retirement of a copy is counted.
LEMMA CountedStep == GateTypeOK /\ Counted /\ [GateNext]_gVars => Counted'
<1> SUFFICES ASSUME GateTypeOK, Counted, [GateNext]_gVars PROVE Counted'
  OBVIOUS
<1>t. cpy \in [Copiers -> {"idle", "copying"}] /\ copies \in Int
  BY Zenon DEF GateTypeOK
<1>1. ASSUME NEW k \in Copiers, admit_copy(k) PROVE Counted'
  <2>1. Copying' = Copying \cup {k} /\ k \notin Copying
    BY Zenon, <1>t, <1>1 DEF admit_copy, Copying
  <2>2. Cardinality(Copying') = Cardinality(Copying) + 1
    BY <2>1, CopyingFinite, FS_AddElement, Zenon
  <2>3. copies' = copies + 1
    BY Zenon, <1>1 DEF admit_copy
  <2> QED
    BY Zenon, <2>2, <2>3 DEF Counted
<1>2. ASSUME NEW k \in Copiers, NEW panicking \in BOOLEAN, retire_copy(k, panicking) PROVE Counted'
  <2>1. Copying' = Copying \ {k} /\ k \in Copying
    BY Zenon, <1>t, <1>2 DEF retire_copy, Copying
  <2>2. Cardinality(Copying') = Cardinality(Copying) - 1
    BY <2>1, CopyingFinite, FS_RemoveElement, Zenon
  <2>3. copies' = copies - 1
    BY Zenon, <1>2 DEF retire_copy
  <2> QED
    BY Zenon, <2>2, <2>3 DEF Counted
<1>3. CASE UNCHANGED <<copies, cpy>>
  BY Zenon, <1>3 DEF Counted, Copying
<1>4. ASSUME NEW k \in Copiers, CopierNext(k) PROVE Counted'
  <2>1. \/ admit_copy(k)
        \/ \E panicking \in BOOLEAN : retire_copy(k, panicking)
        \/ UNCHANGED <<copies, cpy>>
    BY <1>4, Zenon DEF CopierNext, retain_operand, DropOperand
  <2> QED
    BY <2>1, <1>1, <1>2, <1>3, Zenon
<1>5. UNCHANGED <<copies, cpy>> \/ \E k \in Copiers : CopierNext(k)
  BY MembersKeep, ClosersKeep, Zenon
     DEF GateNext, gVars, copyVars, poison, MemberFrame, CloserFrame
<1> QED
  BY Zenon, <1>3, <1>4, <1>5

\* When the gate counts as stopped, no thread is between admission and
\* acknowledgement and no copy is admitted.
LEMMA StoppedIsQuiet ==
    ASSUME GateTypeOK, Agreement, Counted, stopped
    PROVE  /\ \A k \in Copiers : cpy[k] = "idle"
           /\ \A m \in Members : pc[m] \in {"new", "out", "gone"}
<1>1. Copying = {}
  BY Zenon, CopyingFinite DEF stopped, Counted
<1>2. \A k \in Copiers : cpy[k] = "idle"
  BY Zenon, <1>1 DEF Copying, GateTypeOK
<1>3. ASSUME NEW m \in Members PROVE pc[m] \in {"new", "out", "gone"}
  <2>1. m \in members => activity[m] = "Stopped"
    BY Zenon DEF stopped
  <2>2. pc[m] \in Entered \cup {"new", "out", "lost", "gone", "finish", "acknowledge"}
    BY Zenon DEF GateTypeOK
  <2> QED
    BY Zenon, <2>1, <2>2 DEF Agreement, Agrees, Entered, Inside
<1> QED
  BY Zenon, <1>2, <1>3

\* A gate becomes closed only when quiet, and nobody is admitted while it is.
LEMMA QuietStep ==
    GateTypeOK /\ Agreement /\ Counted /\ ClosedMeansQuiet /\ [GateNext]_gVars => ClosedMeansQuiet'
<1> SUFFICES ASSUME GateTypeOK, Agreement, Counted, ClosedMeansQuiet, [GateNext]_gVars,
                    admission' = "Closed"
             PROVE  /\ \A k \in Copiers : cpy'[k] = "idle"
                    /\ \A m \in Members : pc'[m] \in {"new", "out", "gone"}
  BY Zenon DEF ClosedMeansQuiet
<1> DEFINE Goal == /\ \A k \in Copiers : cpy'[k] = "idle"
                   /\ \A m \in Members : pc'[m] \in {"new", "out", "gone"}
<1>t. /\ pc \in [Members -> Entered \cup {"new", "out", "lost", "gone", "finish", "acknowledge"}]
      /\ cpy \in [Copiers -> {"idle", "copying"}]
  BY Zenon DEF GateTypeOK
<1>1. ASSUME NEW m \in Members, MemberNext(m) PROVE Goal
  <2>1. admission = "Closed" /\ cpy' = cpy
    BY Zenon, <1>1, MembersKeep DEF MemberFrame, gateVars, copyVars
  <2>2. /\ \A k \in Copiers : cpy[k] = "idle"
        /\ \A n \in Members : pc[n] \in {"new", "out", "gone"}
    BY Zenon, <2>1 DEF ClosedMeansQuiet
  <2> USE <1>t, <2>1, <2>2 DEF threadVars
  <2>3. CASE register(m) \/ retire_from_guest(m) \/ DropParticipant(m) \/ interrupt(m)
    BY Zenon, <2>3 DEF register, retire_from_guest, DropParticipant, interrupt
  <2>4. CASE try_enter(m)
    BY Zenon, <2>4 DEF try_enter
  <2>5. CASE EntryStep(m) \/ DropEntry(m) \/ GuestExit(m)
    BY <2>5, Zenon DEF EntryStep, arm, withdraw, activate, kvm_run, retract, finish, acknowledge, DropEntry,
                GuestExit
  <2> QED
    BY Zenon, <1>1, <2>3, <2>4, <2>5 DEF MemberNext
<1>2. ASSUME NEW k \in Copiers, CopierNext(k) PROVE Goal
  <2>1. admission = "Closed" /\ pc' = pc
    BY Zenon, <1>2, CopiersKeep DEF CopierFrame, gateVars, threadVars
  <2> QED
    BY Zenon, <1>2, <1>t, <2>1
       DEF ClosedMeansQuiet, CopierNext, admit_copy, retain_operand, retire_copy, DropOperand
<1>3. ASSUME NEW c \in Closers, CloserNext(c) PROVE Goal
  <2>1. cpy' = cpy /\ pc' = pc
    BY Zenon, <1>3, ClosersKeep DEF CloserFrame, copyVars, threadVars
  <2>2. admission = "Closed" \/ stopped
    BY <1>3, ZenonT(60) DEF CloserNext, gateVars, Stage, try_close, try_close_SendFailed, try_close_quiescent,
                finish_close, finish_TimedOut, DropClosing, publish, Install, InstallFails, Advance,
                DropClosed
  <2> QED
    BY Zenon, <2>1, <2>2, StoppedIsQuiet DEF ClosedMeansQuiet
<1>4. CASE poison \/ UNCHANGED gVars
  BY Zenon, <1>4 DEF poison, gVars, gateVars, copyVars, threadVars, ClosedMeansQuiet
<1> QED
  BY Zenon, <1>1, <1>2, <1>3, <1>4 DEF GateNext

-----------------------------------------------------------------------------
\* Unless the gate has failed, the image is that of the current generation,
\* but for the one closer that has installed the next and not announced it.
Announced ==
    ~failure =>
        /\ \A c \in Closers : cpc[c] \in {"publishing", "installed"} => expected[c] = generation
        /\ \A c \in Closers : cpc[c] = "installed" => \A b \in Bytes : image[b] <= generation + 1
        /\ (\A c \in Closers : cpc[c] # "installed") => \A b \in Bytes : image[b] <= generation

\* Publications advance the image and its generation together.
LEMMA AnnouncedStep ==
    GateTypeOK /\ TokensAreExclusive /\ Announced /\ [GateNext]_gVars => Announced'
<1> SUFFICES ASSUME GateTypeOK, TokensAreExclusive, Announced, [GateNext]_gVars PROVE Announced'
  OBVIOUS
<1>t. /\ cpc \in [Closers -> Holding \cup {"idle", "staged", "closing"}]
      /\ expected \in [Closers -> Nat] /\ generation \in Nat /\ image \in [Bytes -> Nat]
      /\ failure \in BOOLEAN
  BY Zenon DEF GateTypeOK, Image
<1>1. ASSUME NEW c \in Closers, CloserNext(c) PROVE Announced'
  <2> USE <1>t DEF Announced, memoryVars, Holding
  <2>1. CASE Stage(c)
    BY SMTT(20), <2>1 DEF Stage
  <2>2. CASE try_close(c) \/ finish_close(c) \/ finish_TimedOut(c) \/ DropClosing(c)
    BY Zenon, <2>2 DEF try_close, finish_close, finish_TimedOut, DropClosing
  <2>3. ASSUME NEW failed \in Members, NEW sent \in SUBSET Members, try_close_SendFailed(c, failed, sent)
        PROVE  Announced'
    BY Zenon, <2>3 DEF try_close_SendFailed
  <2>4. ASSUME NEW live \in {0, 1}, try_close_quiescent(c, live) PROVE Announced'
    BY Zenon, <2>4 DEF try_close_quiescent
  <2>5. ASSUME NEW range \in Ranges, publish(c, range) PROVE Announced'
    BY SMTT(20), <2>5 DEF publish, Publishable
  <2>6. CASE Install(c)
    BY <2>6 DEF Install, TokensAreExclusive
  <2>7. ASSUME NEW part \in SUBSET Bytes, InstallFails(c, part) PROVE Announced'
    BY Zenon, <2>7 DEF InstallFails
  <2>8. CASE Advance(c)
    BY <2>8 DEF Advance, TokensAreExclusive
  <2>9. ASSUME NEW panicking \in BOOLEAN, DropClosed(c, panicking) PROVE Announced'
    BY SMTT(20), <2>9 DEF DropClosed
  <2> HIDE DEF Announced
  <2> QED
    BY <1>1, <2>1, <2>2, <2>3, <2>4, <2>5, <2>6, <2>7, <2>8, <2>9, ZenonT(30) DEF CloserNext
<1>2. CASE UNCHANGED <<memoryVars, closerVars>> /\ (failure => failure')
  BY ZenonT(30), <1>2 DEF memoryVars, closerVars, Announced
<1>3. \/ UNCHANGED <<memoryVars, closerVars>> /\ (failure => failure')
      \/ \E c \in Closers : CloserNext(c)
  BY Zenon, MembersKeep, CopiersKeep DEF GateNext, gVars, poison, MemberFrame, CopierFrame
<1> QED
  BY Zenon, <1>1, <1>2, <1>3

\* Only the holder of a closed gate changes the image or its generation.
LEMMA ImageChangesWhenClosed ==
    ASSUME TokensAreExclusive, [GateNext]_gVars, admission # "Closed"
    PROVE  UNCHANGED memoryVars
<1>1. ASSUME NEW c \in Closers, CloserNext(c) PROVE UNCHANGED memoryVars
  <2>1. cpc[c] \notin Holding
    BY Zenon DEF TokensAreExclusive
  <2> QED
    BY <1>1, <2>1, Zenon DEF CloserNext, Holding, Stage, try_close, try_close_SendFailed,
       try_close_quiescent, finish_close, finish_TimedOut, DropClosing, publish, Install,
       InstallFails, Advance, DropClosed
<1> QED
  BY Zenon, <1>1, MembersKeep, CopiersKeep DEF GateNext, gVars, poison, MemberFrame, CopierFrame

\* The image does not change under those who were admitted to it.
LEMMA AccessStep ==
    /\ GateTypeOK /\ TokensAreExclusive /\ ClosedMeansQuiet /\ Announced /\ AccessSeesItsImage
    /\ [GateNext]_gVars
    => AccessSeesItsImage'
<1> SUFFICES ASSUME GateTypeOK, TokensAreExclusive, ClosedMeansQuiet, Announced, AccessSeesItsImage,
                    [GateNext]_gVars
             PROVE  AccessSeesItsImage'
  OBVIOUS
<1>t. /\ pc \in [Members -> Entered \cup {"new", "out", "lost", "gone", "finish", "acknowledge"}]
      /\ cpy \in [Copiers -> {"idle", "copying"}]
      /\ entry_generation \in [Members -> Nat] /\ copy_generation \in [Copiers -> Nat]
  BY Zenon DEF GateTypeOK
<1>1. ASSUME ~failure, admission = "Open" PROVE \A b \in Bytes : image[b] <= generation
  BY <1>1, Zenon DEF TokensAreExclusive, Holding, Announced
<1>2. ASSUME NEW m \in Members, MemberNext(m) PROVE AccessSeesItsImage'
  <2>1. UNCHANGED <<memoryVars, copyVars>>
    BY Zenon, <1>2, MembersKeep DEF MemberFrame
  <2> USE <1>t, <2>1 DEF AccessSeesItsImage, memoryVars, copyVars, entryVars, identityVars,
          threadVars, Entered, Inside
  <2>2. CASE try_enter(m)
    BY <2>2, <1>1, Zenon DEF try_enter
  <2>3. CASE register(m) \/ retire_from_guest(m) \/ DropParticipant(m) \/ interrupt(m)
    BY <2>3, ZenonT(30) DEF register, retire_from_guest, DropParticipant, interrupt
  <2>4. CASE EntryStep(m)
    <3>1. CASE \E ok \in BOOLEAN : arm(m, ok) \/ withdraw(m, ok)
      BY Zenon, <3>1 DEF arm, withdraw
    <3>2. CASE activate(m) \/ kvm_run(m) \/ retract(m)
      BY <3>2, ZenonT(60) DEF activate, kvm_run, retract
    <3>3. CASE finish(m) \/ acknowledge(m)
      BY ZenonT(30), <3>3 DEF finish, acknowledge
    <3> QED
      BY <2>4, <3>1, <3>2, <3>3, ZenonT(60) DEF EntryStep
  <2>5. CASE DropEntry(m) \/ GuestExit(m)
    BY Zenon, <2>5 DEF DropEntry, GuestExit
  <2> QED
    BY <1>2, <2>2, <2>3, <2>4, <2>5, Zenon DEF MemberNext
<1>3. ASSUME NEW k \in Copiers, CopierNext(k) PROVE AccessSeesItsImage'
  <2>1. UNCHANGED <<memoryVars, entryVars, threadVars>>
    BY Zenon, <1>3, CopiersKeep DEF CopierFrame
  <2> USE <1>t, <2>1 DEF AccessSeesItsImage, memoryVars, entryVars, identityVars, threadVars
  <2>2. CASE admit_copy(k)
    BY Zenon, <2>2, <1>1 DEF admit_copy
  <2>3. CASE ~admit_copy(k)
    BY <1>3, <2>3, Zenon DEF CopierNext, retain_operand, retire_copy, DropOperand
  <2> QED
    BY <2>2, <2>3, Zenon
<1>4. CASE UNCHANGED <<entryVars, threadVars, copyVars>>
  <2>1. CASE admission = "Closed"
    <3>1. /\ pc' = pc /\ cpy' = cpy
          /\ \A m \in Members : pc[m] \notin Entered
          /\ \A k \in Copiers : cpy[k] # "copying"
      BY <1>4, <2>1, ZenonT(30) DEF ClosedMeansQuiet, threadVars, copyVars, Entered, Inside
    <3> QED
      BY <3>1, Zenon DEF AccessSeesItsImage
  <2>2. CASE admission # "Closed"
    BY ZenonT(30), <1>4, <2>2, ImageChangesWhenClosed
       DEF AccessSeesItsImage, memoryVars, entryVars, identityVars, threadVars, copyVars
  <2> QED
    BY Zenon, <2>1, <2>2
<1>5. \/ UNCHANGED <<entryVars, threadVars, copyVars>>
      \/ \E m \in Members : MemberNext(m)
      \/ \E k \in Copiers : CopierNext(k)
  BY Zenon, ClosersKeep DEF GateNext, gVars, poison, CloserFrame
<1> QED
  BY Zenon, <1>2, <1>3, <1>4, <1>5

-----------------------------------------------------------------------------
\* ranges_overlap holds exactly when the two ranges share a byte.
THEOREM OverlapIsSharing ==
    ASSUME NEW first \in Ranges, NEW second \in Ranges
    PROVE  ranges_overlap(first, second) <=> \E b \in Bytes : InRange(b, first) /\ InRange(b, second)
<1>t. /\ first.start \in 0 .. Arena /\ first.end \in 0 .. Arena
      /\ second.start \in 0 .. Arena /\ second.end \in 0 .. Arena
  BY Zenon DEF Ranges
<1>1. ASSUME ranges_overlap(first, second)
      PROVE  \E b \in Bytes : InRange(b, first) /\ InRange(b, second)
  <2>1. CASE first.start <= second.start
    <3>1. second.start \in Bytes /\ InRange(second.start, first) /\ InRange(second.start, second)
      BY <1>t, <1>1, <2>1, GateAssumption DEF ranges_overlap, InRange, Bytes
    <3> QED
      BY Zenon, <3>1
  <2>2. CASE second.start < first.start
    <3>1. first.start \in Bytes /\ InRange(first.start, first) /\ InRange(first.start, second)
      BY <1>t, <1>1, <2>2, GateAssumption DEF ranges_overlap, InRange, Bytes
    <3> QED
      BY Zenon, <3>1
  <2> QED
    BY <1>t, <2>1, <2>2
<1>2. ASSUME NEW b \in Bytes, InRange(b, first), InRange(b, second)
      PROVE  ranges_overlap(first, second)
  BY <1>t, <1>2, GateAssumption DEF ranges_overlap, InRange, Bytes
<1> QED
  BY Zenon, <1>1, <1>2

\* No retained operand shares a byte with what is being replaced.
OperandsApart ==
    \A c \in Closers, k \in Copiers : cpc[c] = "publishing" =>
        \A b \in Bytes : ~(InRange(b, retained_operands[k]) /\ InRange(b, replaced[c]))

\* The empty range has no byte.
LEMMA NoneIsEmpty == \A b \in Bytes : ~InRange(b, None)
BY GateAssumption DEF Bytes, InRange, None

\* publish refuses an overlap, and no operand is added while the gate is closed.
LEMMA OperandsApartStep ==
    /\ GateTypeOK /\ TokensAreExclusive /\ ClosedMeansQuiet /\ OperandsApart /\ [GateNext]_gVars
    => OperandsApart'
<1> SUFFICES ASSUME GateTypeOK, TokensAreExclusive, ClosedMeansQuiet, OperandsApart, [GateNext]_gVars
             PROVE  OperandsApart'
  OBVIOUS
<1>t. /\ cpc \in [Closers -> Holding \cup {"idle", "staged", "closing"}]
      /\ replaced \in [Closers -> Ranges] /\ retained_operands \in [Copiers -> Ranges]
  BY Zenon DEF GateTypeOK
<1>1. ASSUME NEW c \in Closers, CloserNext(c) PROVE OperandsApart'
  <2>1. retained_operands' = retained_operands
    BY Zenon, <1>1, ClosersKeep DEF CloserFrame, copyVars
  <2>2. ASSUME NEW range \in Ranges, publish(c, range) PROVE OperandsApart'
    <3>1. CASE Publishable(c, range)
      <4>1. \A k \in Copiers : ~ranges_overlap(retained_operands[k], range)
        BY Zenon, <3>1 DEF Publishable, overlapping_operand
      <4>2. \A k \in Copiers, b \in Bytes : ~(InRange(b, retained_operands[k]) /\ InRange(b, range))
        BY Zenon, <1>t, <4>1, OverlapIsSharing
      <4>3. replaced' = [replaced EXCEPT ![c] = range] /\ cpc' = [cpc EXCEPT ![c] = "publishing"]
        BY Zenon, <2>2, <3>1 DEF publish
      <4> QED
        BY Zenon, <1>t, <2>1, <4>2, <4>3 DEF OperandsApart
    <3>2. CASE ~Publishable(c, range)
      BY Zenon, <2>1, <2>2, <3>2 DEF publish, OperandsApart
    <3> QED
      BY Zenon, <3>1, <3>2
  <2>3. CASE ~\E range \in Ranges : publish(c, range)
    <3>1. replaced' = replaced /\ \A d \in Closers : cpc'[d] = "publishing" => cpc[d] = "publishing"
      BY <1>1, <1>t, <2>3, Zenon DEF CloserNext, closerVars, Stage, try_close, try_close_SendFailed,
         try_close_quiescent, finish_close, finish_TimedOut, DropClosing, Install, InstallFails,
         Advance, DropClosed
    <3> QED
      BY Zenon, <2>1, <3>1 DEF OperandsApart
  <2> QED
    BY Zenon, <2>2, <2>3
<1>2. ASSUME NEW k \in Copiers, CopierNext(k) PROVE OperandsApart'
  <2>1. UNCHANGED closerVars
    BY Zenon, <1>2, CopiersKeep DEF CopierFrame
  <2>2. CASE \E range \in Ranges : retain_operand(k, range)
    <3>1. \A c \in Closers : cpc[c] # "publishing"
      BY <2>2, ZenonT(60) DEF retain_operand, ClosedMeansQuiet, TokensAreExclusive, Holding
    <3> QED
      BY <2>1, <3>1, Zenon DEF closerVars, OperandsApart
  <2>3. CASE \E panicking \in BOOLEAN : DropOperand(k, panicking)
    BY Zenon, <1>t, <2>1, <2>3, NoneIsEmpty DEF DropOperand, closerVars, OperandsApart
  <2>4. CASE admit_copy(k) \/ \E panicking \in BOOLEAN : retire_copy(k, panicking)
    BY <2>1, <2>4, ZenonT(60) DEF admit_copy, retire_copy, closerVars, OperandsApart
  <2> QED
    BY <1>2, <2>2, <2>3, <2>4, Zenon DEF CopierNext
<1>3. CASE UNCHANGED <<closerVars, copyVars>>
  BY <1>3, Zenon DEF closerVars, copyVars, OperandsApart
<1>4. \/ UNCHANGED <<closerVars, copyVars>>
      \/ \E c \in Closers : CloserNext(c)
      \/ \E k \in Copiers : CopierNext(k)
  BY Zenon, MembersKeep DEF GateNext, gVars, poison, MemberFrame
<1> QED
  BY Zenon, <1>1, <1>2, <1>3, <1>4

\* Installing a mapping touches no byte of a retained operand.
LEMMA OperandsKeepStep ==
    GateTypeOK /\ OperandsApart /\ OperandsKeepTheirBytes /\ [GateNext]_gVars
    => OperandsKeepTheirBytes'
<1> SUFFICES ASSUME GateTypeOK, OperandsApart, OperandsKeepTheirBytes, [GateNext]_gVars
             PROVE  OperandsKeepTheirBytes'
  OBVIOUS
<1>t. /\ retained_operands \in [Copiers -> Ranges] /\ operand_image \in [Copiers -> Image]
      /\ image \in Image
  BY Zenon DEF GateTypeOK
<1>1. ASSUME NEW c \in Closers, CloserNext(c) PROVE OperandsKeepTheirBytes'
  <2>1. UNCHANGED <<retained_operands, operand_image>>
    BY Zenon, <1>1, ClosersKeep DEF CloserFrame, copyVars
  <2>2. image' = image \/ (/\ cpc[c] = "publishing"
                           /\ \A b \in Bytes : ~InRange(b, replaced[c]) => image'[b] = image[b])
    BY <1>1, <1>t, Zenon DEF CloserNext, memoryVars, Stage, try_close, try_close_SendFailed,
       try_close_quiescent, finish_close, finish_TimedOut, DropClosing, publish, Install,
       InstallFails, Advance, DropClosed
  <2> QED
    BY <2>1, <2>2, Zenon DEF OperandsApart, OperandsKeepTheirBytes
<1>2. ASSUME NEW k \in Copiers, CopierNext(k) PROVE OperandsKeepTheirBytes'
  <2>1. image' = image
    BY Zenon, <1>2, CopiersKeep DEF CopierFrame, memoryVars
  <2>2. CASE \E range \in Ranges : retain_operand(k, range)
    BY <1>t, <2>1, <2>2 DEF retain_operand, OperandsKeepTheirBytes
  <2>3. CASE \E panicking \in BOOLEAN : DropOperand(k, panicking)
    BY Zenon, <1>t, <2>1, <2>3, NoneIsEmpty DEF DropOperand, OperandsKeepTheirBytes
  <2>4. CASE admit_copy(k) \/ \E panicking \in BOOLEAN : retire_copy(k, panicking)
    BY <2>1, <2>4, ZenonT(60) DEF admit_copy, retire_copy, OperandsKeepTheirBytes
  <2> QED
    BY <1>2, <2>2, <2>3, <2>4, Zenon DEF CopierNext
<1>3. CASE UNCHANGED <<memoryVars, copyVars>>
  BY Zenon, <1>3 DEF memoryVars, copyVars, OperandsKeepTheirBytes
<1>4. \/ UNCHANGED <<memoryVars, copyVars>>
      \/ \E c \in Closers : CloserNext(c)
      \/ \E k \in Copiers : CopierNext(k)
  BY Zenon, MembersKeep DEF GateNext, gVars, poison, MemberFrame
<1> QED
  BY Zenon, <1>1, <1>2, <1>3, <1>4

-----------------------------------------------------------------------------
\* What was read under the current generation is still the image.
Cached ==
    \A k \in Copiers :
        /\ seen_generation[k] <= generation
        /\ /\ ~failure /\ \A c \in Closers : cpc[c] # "installed"
           /\ generation = seen_generation[k]
           => image = seen_image[k]

\* A changed image has a new generation.
LEMMA CachedStep ==
    GateTypeOK /\ Announced /\ AccessSeesItsImage /\ Cached /\ [GateNext]_gVars => Cached'
<1> SUFFICES ASSUME GateTypeOK, Announced, AccessSeesItsImage, Cached, [GateNext]_gVars
             PROVE  Cached'
  OBVIOUS
<1>t. /\ cpc \in [Closers -> Holding \cup {"idle", "staged", "closing"}]
      /\ expected \in [Closers -> Nat] /\ generation \in Nat
      /\ seen_generation \in [Copiers -> Nat] /\ seen_image \in [Copiers -> Image]
      /\ copy_generation \in [Copiers -> Nat] /\ failure \in BOOLEAN
  BY Zenon DEF GateTypeOK
<1>1. ASSUME NEW c \in Closers, CloserNext(c) PROVE Cached'
  <2>1. UNCHANGED <<seen_generation, seen_image>> /\ (failure => failure')
    BY Zenon, <1>1, ClosersKeep DEF CloserFrame, copyVars, seenVars
  <2>2. CASE Install(c)
    BY Zenon, <1>t, <2>1, <2>2 DEF Install, Cached
  <2>3. CASE \E part \in SUBSET Bytes : InstallFails(c, part)
    BY <1>t, <2>1, <2>3 DEF InstallFails, Cached
  <2>4. CASE Advance(c)
    <3>1. CASE failure
      BY <2>1, <2>4, <3>1, ZenonT(60) DEF Advance, Cached
    <3>2. CASE ~failure
      <4>1. generation' = generation + 1
        BY Zenon, <2>4, <3>2 DEF Advance, Announced
      <4>2. \A k \in Copiers : seen_generation[k] < generation'
        BY <1>t, <4>1 DEF Cached
      <4> QED
        BY <1>t, <2>1, <4>1, <4>2 DEF Cached
    <3> QED
      BY Zenon, <3>1, <3>2
  <2>5. CASE ~(Install(c) \/ Advance(c) \/ \E part \in SUBSET Bytes : InstallFails(c, part))
    <3>1. /\ UNCHANGED <<generation, image>>
          /\ \A d \in Closers : cpc[d] = "installed" => cpc'[d] = "installed"
      BY <1>1, <1>t, <2>5, Zenon DEF CloserNext, memoryVars, Stage, try_close, try_close_SendFailed,
         try_close_quiescent, finish_close, finish_TimedOut, DropClosing, publish, DropClosed
    <3> QED
      BY Zenon, <2>1, <3>1 DEF Cached
  <2> QED
    BY Zenon, <2>2, <2>3, <2>4, <2>5
<1>2. ASSUME NEW k \in Copiers, CopierNext(k) PROVE Cached'
  <2>1. UNCHANGED <<memoryVars, closerVars>> /\ (failure => failure')
    BY Zenon, <1>2, CopiersKeep DEF CopierFrame
  <2>2. ASSUME NEW panicking \in BOOLEAN, retire_copy(k, panicking) PROVE Cached'
    <3>1. copy_generation[k] = generation
      BY <2>2, ZenonT(60) DEF retire_copy, AccessSeesItsImage
    <3>2. /\ seen_generation' = [seen_generation EXCEPT ![k] = generation]
          /\ seen_image' = [seen_image EXCEPT ![k] = image]
      BY ZenonT(30), <2>2, <3>1 DEF retire_copy
    <3> QED
      BY <1>t, <2>1, <3>2 DEF Cached, memoryVars, closerVars
  <2>3. CASE ~\E panicking \in BOOLEAN : retire_copy(k, panicking)
    BY Zenon, <1>2, <2>1, <2>3
       DEF CopierNext, admit_copy, retain_operand, DropOperand, seenVars, memoryVars, closerVars, Cached
  <2> QED
    BY Zenon, <2>2, <2>3
<1>3. CASE UNCHANGED <<memoryVars, copyVars, closerVars>> /\ (failure => failure')
  BY <1>3, ZenonT(60) DEF memoryVars, copyVars, seenVars, closerVars, Cached
<1>4. \/ UNCHANGED <<memoryVars, copyVars, closerVars>> /\ (failure => failure')
      \/ \E c \in Closers : CloserNext(c)
      \/ \E k \in Copiers : CopierNext(k)
  BY Zenon, MembersKeep DEF GateNext, gVars, poison, MemberFrame
<1> QED
  BY Zenon, <1>1, <1>2, <1>3, <1>4
-----------------------------------------------------------------------------
\* The inductive invariant of this module, relative to GateInv, for a quiet gate and its memory.
ImageInv ==
    /\ Counted /\ ClosedMeansQuiet
    /\ Announced /\ AccessSeesItsImage /\ OperandsApart /\ OperandsKeepTheirBytes /\ Cached

\* A new gate satisfies the invariant.
LEMMA ImageInvInit == GateInit => ImageInv
<1> SUFFICES ASSUME GateInit PROVE ImageInv
  OBVIOUS
<1>1. Announced
  BY DEF GateInit, Announced
<1>2. AccessSeesItsImage
  BY Zenon DEF GateInit, AccessSeesItsImage, Entered, Inside
<1>3. OperandsApart /\ OperandsKeepTheirBytes
  BY ZenonT(60) DEF GateInit, OperandsApart, OperandsKeepTheirBytes
<1>4. Cached
  BY DEF GateInit, Cached
<1>5. Counted
  <2>1. Copying = {}
    BY Zenon DEF GateInit, Copying
  <2> QED
    BY Zenon, <2>1, FS_EmptySet DEF GateInit, Counted
<1>6. ClosedMeansQuiet
  BY Zenon DEF GateInit, ClosedMeansQuiet
<1> QED
  BY SMTT(20), <1>1, <1>2, <1>3, <1>4, <1>5, <1>6 DEF ImageInv

\* Every step of a gate within GateInv keeps the invariant.
LEMMA ImageInvStep == GateInv /\ ImageInv /\ [GateNext]_gVars => ImageInv'
BY CountedStep, QuietStep, AnnouncedStep, AccessStep, OperandsApartStep, OperandsKeepStep, CachedStep,
   Zenon DEF GateInv, ImageInv

\* The invariant holds throughout.
LEMMA ImageInvariant == GateSpec => [](GateInv /\ ImageInv)
BY GateInvariant, ImageInvInit, ImageInvStep, PTL DEF GateSpec

\* For every number of threads, copies and closers: two closers never hold
\* the gate at once, while the gate is closed nothing uses the guest's
\* memory, and the gate's state keeps its types.
THEOREM ClosersAreAlone == GateSpec => []ChangesAreAlone
<1>1. GateInv /\ ImageInv => ChangesAreAlone
  BY Zenon DEF GateInv, ImageInv, ChangesAreAlone
<1> QED
  BY <1>1, ImageInvariant, PTL

\* Whoever was admitted sees one announced image, a retained pointer its own
\* bytes, and cached bytes that admit_operation_unchanged approves are the
\* guest's.
THEOREM MemoryStaysCoherent == GateSpec => []MemoryIsCoherent
<1>1. GateInv /\ ImageInv => CachedBytesAreCurrent
  <2> SUFFICES ASSUME GateInv, ImageInv, NEW k \in Copiers, ~failure, admission = "Open",
                      generation = seen_generation[k]
               PROVE  image = seen_image[k]
    BY Zenon DEF CachedBytesAreCurrent
  <2>1. \A c \in Closers : cpc[c] # "installed"
    BY ZenonT(60) DEF GateInv, TokensAreExclusive, Holding
  <2> QED
    BY Zenon, <2>1 DEF ImageInv, Cached
<1>2. GateInv /\ ImageInv => MemoryIsCoherent
  BY Zenon, <1>1 DEF ImageInv, MemoryIsCoherent
<1> QED
  BY <1>2, ImageInvariant, PTL
=============================================================================
