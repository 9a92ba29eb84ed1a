---------------------------- MODULE ImageProofs -----------------------------
(***************************************************************************)
(* What a guest's image rests on: the decisions of its patcher (PatchSites) *)
(* and the exec that replaces it (ExecTicket, NativeExec).                 *)
(***************************************************************************)
EXTENDS PatchSites, NativeExec, TLAPS

-----------------------------------------------------------------------------
(***************************************************************************)
(* The patcher, for every number of threads, every placement of the sites and *)
(* every sequence of mapping calls, while the table has a slot for every   *)
(* site.                                                                   *)
(***************************************************************************)

\* The table does not fill while a site is without a slot: so it is when
\* Sites is finite and has at most TableSize members.
Room == \A S \in SUBSET Sites : S # Sites => Cardinality(S) < TableSize

Decided == {"ACTIVE", "FALLBACK", "UNPATCHABLE", "UNPUBLISHED"}
States == Decided \cup {"free", "claimed", "INSTALLING", "STALE"}

\* Where a thread is that has claimed a site, holds the lock, or follows
\* what was decided.
Undecided == {"native", "lock", "bytes", "neighbours", "publish", "write", "written",
              "failing", "flagged", "untouched"}
Installers == Undecided \cup {"claimed", "touched", "fallen", "installed"}
Holders == {"bytes", "neighbours", "publish", "write", "written", "failing", "flagged", "checking"}
Followers == {"active?", "unpublished?", "adapter", "checking", "declined", "refused", "returning"}
Labels == Installers \cup Followers \cup {"away", "claim", "wait"}

Types ==
    /\ state \in [Sites -> States]
    /\ publication_attempted \in [Sites -> BOOLEAN] /\ words_recorded \in [Sites -> BOOLEAN]
    /\ instruction_len \in [Sites -> Nat]
    /\ INSTALL_HELD \subseteq Threads /\ SITE_JUMP_POSSIBLY_WRITTEN \in BOOLEAN
    /\ code \in [Bytes -> {0} \cup Sites]
    /\ pc \in [Threads -> Labels] /\ at \in [Threads -> {0} \cup Sites]
    /\ \A t \in Threads : pc[t] # "away" => at[t] \in Sites
    /\ \A s \in Sites : instruction_len[s] \in {0, LengthOf[s]}

HoldsLock(t) == pc[t] \in Holders => INSTALL_HELD = {t}

\* The state of a site says how far its installer is, and a thread that
\* follows a decision follows one that stays.
StateOK(t) ==
    /\ pc[t] = "claimed" => state[at[t]] = "claimed"
    /\ pc[t] \in Undecided => state[at[t]] = "INSTALLING"
    /\ pc[t] = "touched" => state[at[t]] \in {"INSTALLING", "FALLBACK"}
    /\ pc[t] = "fallen" => state[at[t]] = "FALLBACK"
    /\ pc[t] = "installed" => state[at[t]] \in {"ACTIVE", "UNPUBLISHED"}
    /\ pc[t] = "wait" => state[at[t]] \in Decided \cup {"INSTALLING"}
    /\ pc[t] \in Followers => state[at[t]] \in Decided
    /\ pc[t] = "returning" => state[at[t]] \in {"FALLBACK", "UNPUBLISHED"}
    /\ pc[t] = "declined" /\ at[t] \notin SyscallSites => state[at[t]] = "UNPATCHABLE"
    /\ pc[t] \in {"active?", "unpublished?"} => at[t] \in SyscallSites

OneInstaller ==
    \A t, u \in Threads :
        t # u /\ pc[t] \in Installers /\ pc[u] \in Installers => at[t] # at[u]

\* A byte of a jump is in the window of its site, which has a slot and whose
\* publication was attempted.
CodeInv ==
    \A x \in Bytes : code[x] # 0 =>
        x \in Window(code[x]) /\ publication_attempted[code[x]] /\ state[code[x]] # "free"

\* What the lock's holder has checked stays true.
WindowOK(t) ==
    /\ pc[t] \in {"neighbours", "publish", "write"} =>
         instruction_len[at[t]] = LengthOf[at[t]] /\ \A x \in Window(at[t]) : code[x] # at[t]
    /\ pc[t] \in {"publish", "write"} => Original(Window(at[t]))
    /\ pc[t] = "write" => publication_attempted[at[t]]
    /\ pc[t] = "written" => code[at[t]] = at[t]
    /\ pc[t] \in {"flagged", "fallen"} => SITE_JUMP_POSSIBLY_WRITTEN

\* A site is settled when a thread emulates its instruction or returns from
\* its adapter, or is bound to.
Rests(t) == pc[t] = "returning" \/ (pc[t] = "untouched" /\ at[t] \notin SyscallSites)
Settled(s) == state[s] = "UNPATCHABLE" \/ \E t \in Threads : at[t] = s /\ Rests(t)

\* Nobody is about to write a jump over the end of a settled site.
Clear(t, s) ==
    pc[t] \in {"publish", "write"} /\ Settled(s) =>
        s + LengthOf[s] <= at[t] \/ at[t] + WORD_PATCH_BYTES <= s
ClearInv == \A t \in Threads : \A s \in Sites \ {at[t]} : Clear(t, s)

WholeInv == \A s \in Sites : Settled(s) => ResumePointIsWhole(s)

\* A jump that was written and not recorded is being written or has raised
\* the flag, and nobody goes on past it.
Torn(s) == code[s + LengthOf[s]] = s /\ ~ words_recorded[s]
Writing(s) == \E t \in Threads : at[t] = s /\ pc[t] \in {"written", "failing", "flagged"}

TornOK(s) ==
    Torn(s) => /\ state[s] \in {"INSTALLING", "FALLBACK", "STALE"}
               /\ SITE_JUMP_POSSIBLY_WRITTEN \/ Writing(s)
Intact(t) ==
    (pc[t] \in {"neighbours", "publish", "write", "active?", "unpublished?", "declined"} \/ Rests(t))
        => ~ Torn(at[t])

PatchInv ==
    /\ Types /\ OneInstaller /\ CodeInv /\ ClearInv /\ WholeInv /\ ActiveIsWritten
    /\ \A t \in Threads : HoldsLock(t) /\ StateOK(t) /\ WindowOK(t) /\ Intact(t)
    /\ \A s \in Sites : TornOK(s)

-----------------------------------------------------------------------------
LEMMA WindowFacts ==
    ASSUME NEW s \in Sites
    PROVE  /\ s \in Nat \ {0} /\ LengthOf[s] \in {2, 3}
           /\ Window(s) \subseteq Bytes /\ s \in Window(s) /\ s + LengthOf[s] \in Window(s)
           /\ \A x \in Window(s) : x \in Nat /\ s <= x /\ x < s + WORD_PATCH_BYTES
<1>1. s \in Nat \ {0} /\ LengthOf[s] \in {2, 3}
  BY Zenon, SitesAssumption
<1>2. Window(s) \subseteq Bytes
  BY Zenon DEF Bytes
<1>3. QED BY <1>1, <1>2 DEF Window, WORD_PATCH_BYTES

LEMMA PatchInitInv == PatchInit => PatchInv
<1> SUFFICES ASSUME PatchInit PROVE PatchInv
  OBVIOUS
<1>1. Types
  BY Zenon DEF PatchInit, Types, States, Decided, Labels
<1>2. \A t \in Threads : pc[t] = "away"
  BY Zenon DEF PatchInit
<1>3. \A s \in Sites : state[s] = "free"
  BY Zenon DEF PatchInit
<1>4. \A x \in Bytes : code[x] = 0
  BY Zenon DEF PatchInit
<1>5. \A s \in Sites : ~ Settled(s) /\ ~ Torn(s)
  <2> TAKE s \in Sites
  <2>1. ~ Settled(s)
    BY Zenon, <1>2, <1>3 DEF Settled, Rests
  <2>2. ~ Torn(s)
    BY Zenon, <1>4, WindowFacts DEF Torn
  <2>3. QED BY Zenon, <2>1, <2>2
<1>6. OneInstaller /\ ClearInv
  BY Zenon, <1>2 DEF OneInstaller, ClearInv, Clear, Installers, Undecided
<1>7. CodeInv /\ WholeInv /\ ActiveIsWritten
  BY Zenon, <1>3, <1>4, <1>5 DEF CodeInv, WholeInv, ActiveIsWritten
<1>8. \A t \in Threads : HoldsLock(t) /\ StateOK(t) /\ WindowOK(t) /\ Intact(t)
  BY Zenon, <1>2 DEF HoldsLock, StateOK, WindowOK, Intact, Rests, Holders, Undecided, Followers
<1>9. QED BY Zenon, <1>1, <1>5, <1>6, <1>7, <1>8 DEF PatchInv, TornOK

-----------------------------------------------------------------------------
\* What the invariant needs of a step of thread t that stays at its site: it
\* changes the slot of that site only, the code and the rest of the slot only
\* under the lock, and the state only as its installer.
Local(t) ==
    /\ UNCHANGED at /\ \A u \in Threads \ {t} : pc'[u] = pc[u]
    /\ \A o \in Sites \ {at[t]} :
         /\ state'[o] = state[o] /\ instruction_len'[o] = instruction_len[o]
         /\ publication_attempted'[o] = publication_attempted[o]
         /\ words_recorded'[o] = words_recorded[o]
    /\ pc[t] \in Holders \/ UNCHANGED <<publication_attempted, words_recorded, instruction_len, code>>
    /\ pc[t] \in Holders \/ INSTALL_HELD = {} \/ UNCHANGED INSTALL_HELD
    /\ code' = code \/ (pc[t] = "write" /\ code' = Jumped(at[t]))
    /\ publication_attempted[at[t]] => publication_attempted'[at[t]]
    /\ SITE_JUMP_POSSIBLY_WRITTEN => SITE_JUMP_POSSIBLY_WRITTEN'
    /\ \/ state'[at[t]] = state[at[t]]
       \/ pc[t] = "claim" /\ state[at[t]] \in {"free", "STALE"} /\ state'[at[t]] # "free"
       \/ /\ pc[t] \in Installers /\ state'[at[t]] \in Decided \cup {"INSTALLING"}
          /\ state[at[t]] \in Decided => state'[at[t]] = "FALLBACK"

\* How thread t may come to install, rest, publish or activate.
Justified(t) ==
    /\ pc'[t] \in Installers =>
         pc[t] \in Installers \/ (pc[t] = "claim" /\ state[at[t]] \in {"free", "STALE"})
    /\ Rests(t)' => Rests(t) \/ (pc[t] \in {"neighbours", "checking"} /\ ResumePointIsWhole(at[t]))
    /\ pc'[t] \in {"publish", "write"} =>
         pc[t] = "publish" \/ (pc[t] = "neighbours" /\ ~ CoversContinuationSite(at[t]))
    /\ state'[at[t]] = "UNPATCHABLE" => state[at[t]] = "UNPATCHABLE" \/ Rests(t)
    /\ state'[at[t]] = "ACTIVE" => state[at[t]] = "ACTIVE" \/ pc[t] = "written"
    /\ Torn(at[t])' => Torn(at[t]) \/ pc[t] = "write"

\* The lock's holder is alone.
LEMMA HolderIsAlone ==
    ASSUME PatchInv, NEW t \in Threads, NEW u \in Threads, t # u,
           pc[t] \in Holders
    PROVE  pc[u] \notin Holders /\ INSTALL_HELD # {}
BY Zenon DEF PatchInv, HoldsLock

\* The threads that do not step keep the lock, their states and what they
\* checked.
LEMMA OthersKeep ==
    ASSUME PatchInv, NEW t \in Threads, at[t] \in Sites, Local(t), Justified(t),
           NEW u \in Threads, u # t
    PROVE  HoldsLock(u)' /\ StateOK(u)' /\ WindowOK(u)' /\ Intact(u)'
<1>0. pc'[u] = pc[u] /\ at'[u] = at[u]
  BY Zenon DEF Local
<1>1. HoldsLock(u)'
  BY Zenon, <1>0, HolderIsAlone DEF Local, HoldsLock, PatchInv
<1>2. StateOK(u) /\ StateOK(t) /\ (pc[u] # "away" => at[u] \in Sites)
  BY Zenon DEF PatchInv, Types
<1>3. StateOK(u)'
  <2>1. CASE at[u] # at[t]
    <3>1. pc[u] # "away" => state'[at[u]] = state[at[u]]
      BY Zenon, <1>2, <2>1 DEF Local
    <3>2. QED BY Zenon, <1>0, <1>2, <3>1 DEF StateOK, Undecided, Followers
  <2>2. CASE at[u] = at[t] /\ state'[at[t]] = state[at[t]]
    BY Zenon, <1>0, <1>2, <2>2 DEF StateOK
  <2>3. CASE /\ at[u] = at[t] /\ pc[t] = "claim"
             /\ state[at[t]] \in {"free", "STALE"} /\ state'[at[t]] # "free"
    BY Zenon, <1>0, <1>2, <2>3 DEF StateOK, Undecided, Followers, Decided
  <2>4. CASE /\ at[u] = at[t] /\ pc[t] \in Installers
             /\ state'[at[t]] \in Decided \cup {"INSTALLING"}
             /\ state[at[t]] \in Decided => state'[at[t]] = "FALLBACK"
    <3>1. pc[u] \notin Installers
      BY Zenon, <2>4 DEF PatchInv, OneInstaller
    <3>2. QED
      BY <1>0, <1>2, <2>4, <3>1 DEF StateOK, Installers, Undecided, Followers, Decided
  <2>5. QED BY Zenon, <2>1, <2>2, <2>3, <2>4 DEF Local
<1>4. WindowOK(u)'
  <2>1. WindowOK(u)
    BY Zenon DEF PatchInv
  <2>2. CASE pc[u] \in Holders
    <3>1. UNCHANGED <<publication_attempted, words_recorded, instruction_len, code>>
      BY Zenon, <2>2, HolderIsAlone DEF Local
    <3>2. QED BY Zenon, <1>0, <2>1, <3>1 DEF WindowOK, Local, Original
  <2>3. CASE pc[u] \notin Holders
    BY Zenon, <1>0, <2>1, <2>3 DEF WindowOK, Local, Holders
  <2>4. QED BY Zenon, <2>2, <2>3
<1>5. Intact(u)'
  <2> SUFFICES ASSUME pc[u] \in {"neighbours", "publish", "write", "active?", "unpublished?", "declined"} \/ Rests(u)
               PROVE  ~ Torn(at[u])'
    BY Zenon, <1>0 DEF Intact, Rests
  <2>1. ~ Torn(at[u]) /\ at[u] \in Sites
    BY Zenon, <1>2 DEF PatchInv, Intact, Rests
  <2>2. CASE at[u] # at[t]
    <3>1. words_recorded'[at[u]] = words_recorded[at[u]]
      BY Zenon, <2>1, <2>2 DEF Local
    <3>2. at[u] + LengthOf[at[u]] \in Bytes
      BY Zenon, <2>1, WindowFacts
    <3>3. code'[at[u] + LengthOf[at[u]]] = at[u] => code[at[u] + LengthOf[at[u]]] = at[u]
      BY Zenon, <2>2, <3>2 DEF Local, Jumped
    <3>4. QED BY Zenon, <1>0, <2>1, <3>1, <3>3 DEF Torn
  <2>3. CASE at[u] = at[t]
    <3>1. pc[t] # "write"
      <4>1. pc[u] \in Installers \/ state[at[u]] \in Decided
        BY Zenon, <1>2 DEF StateOK, Rests, Installers, Undecided, Followers
      <4>2. pc[t] = "write" => state[at[t]] = "INSTALLING" /\ pc[t] \in Installers
        BY Zenon, <1>2 DEF StateOK, Undecided, Installers
      <4>3. QED BY Zenon, <2>3, <4>1, <4>2 DEF PatchInv, OneInstaller, Decided
    <3>2. QED BY Zenon, <2>1, <2>3, <3>1, <1>0 DEF Justified, Local, Torn
  <2>4. QED BY Zenon, <2>2, <2>3
<1>6. QED BY Zenon, <1>1, <1>3, <1>4, <1>5

\* A site settles only under the lock, and then with whole code behind it.
LEMMA SettledBefore ==
    ASSUME PatchInv, NEW t \in Threads, at[t] \in Sites, Local(t), Justified(t),
           NEW s \in Sites, Settled(s)'
    PROVE  \/ Settled(s)
           \/ /\ s = at[t] /\ Rests(t)' /\ pc[t] \in {"neighbours", "checking"}
              /\ ResumePointIsWhole(s)
<1>1. CASE state'[s] = "UNPATCHABLE"
  BY Zenon, <1>1 DEF Local, Justified, Settled
<1>2. ASSUME NEW u \in Threads, at'[u] = s, Rests(u)', u # t
      PROVE  Settled(s)
  BY <1>2 DEF Local, Rests, Settled
<1>3. CASE at'[t] = s /\ Rests(t)'
  BY Zenon, <1>3 DEF Local, Justified, Settled
<1>4. QED BY Zenon, <1>1, <1>2, <1>3 DEF Settled

\* The installer of a site that it publishes is not at a settled site.
LEMMA PublisherUnsettled ==
    ASSUME PatchInv, NEW t \in Threads, pc[t] \in {"publish", "write"}
    PROVE  ~ Settled(at[t])
<1>1. state[at[t]] = "INSTALLING" /\ pc[t] \in Installers
  BY Zenon DEF PatchInv, StateOK, Undecided, Installers
<1>2. ASSUME NEW u \in Threads, at[u] = at[t], Rests(u) PROVE FALSE
  <2>1. u # t
    BY Zenon, <1>2 DEF Rests
  <2>2. CASE pc[u] = "returning"
    BY Zenon, <1>1, <1>2, <2>2 DEF PatchInv, StateOK
  <2>3. CASE pc[u] = "untouched"
    <3>1. pc[u] \in Installers
      BY Zenon, <2>3 DEF Installers, Undecided
    <3>2. QED BY Zenon, <1>1, <1>2, <2>1, <3>1 DEF PatchInv, OneInstaller
  <2>4. QED BY Zenon, <1>2, <2>2, <2>3 DEF Rests
<1>3. QED BY Zenon, <1>1, <1>2 DEF Settled

\* CoversContinuationSite sees every settled site.
LEMMA SettledIsSeen ==
    ASSUME PatchInv, NEW s \in Sites, NEW o \in Sites, o # s, Settled(o),
           ~ CoversContinuationSite(s)
    PROVE  o + LengthOf[o] <= s \/ s + WORD_PATCH_BYTES <= o
<1>1. state[o] \in {"INSTALLING", "UNPATCHABLE", "STALE", "FALLBACK", "UNPUBLISHED"}
  BY Zenon DEF Settled, Rests, PatchInv, StateOK, Undecided
<1>2. instruction_len[o] \in {0, LengthOf[o]} /\ LengthOf[o] \in {2, 3} /\ o \in Nat /\ s \in Nat
  BY Zenon, WindowFacts DEF PatchInv, Types
<1>3. ~ (/\ s < o + (IF instruction_len[o] = 0 THEN 3 ELSE instruction_len[o])
        /\ s + WORD_PATCH_BYTES > o)
  BY Zenon, <1>1 DEF CoversContinuationSite
<1>4. QED BY <1>2, <1>3 DEF WORD_PATCH_BYTES

LEMMA ClearKept ==
    ASSUME PatchInv, NEW t \in Threads, at[t] \in Sites, Local(t), Justified(t)
    PROVE  ClearInv'
<1> SUFFICES ASSUME NEW u \in Threads, NEW s \in Sites \ {at[u]},
                    pc'[u] \in {"publish", "write"}, Settled(s)'
             PROVE  s + LengthOf[s] <= at[u] \/ at[u] + WORD_PATCH_BYTES <= s
  BY Zenon DEF ClearInv, Clear, Local
<1>1. CASE u # t
  <2>1. pc[u] \in {"publish", "write"} /\ pc[u] \in Holders
    BY Zenon, <1>1 DEF Local, Holders
  <2>2. pc[t] \notin {"neighbours", "checking"}
    BY Zenon, <1>1, <2>1, HolderIsAlone DEF Holders
  <2>3. Settled(s)
    BY Zenon, <2>2, SettledBefore
  <2>4. QED BY Zenon, <2>1, <2>3 DEF PatchInv, ClearInv, Clear
<1>2. CASE u = t
  <2>1. Settled(s)
    BY Zenon, <1>2, SettledBefore
  <2>2. CASE pc[t] = "publish"
    BY Zenon, <1>2, <2>1, <2>2 DEF PatchInv, ClearInv, Clear
  <2>3. CASE ~ CoversContinuationSite(at[t])
    BY Zenon, <1>2, <2>1, <2>3, SettledIsSeen
  <2>4. QED BY Zenon, <1>2, <2>2, <2>3 DEF Justified
<1>3. QED BY Zenon, <1>1, <1>2

LEMMA WholeKept ==
    ASSUME PatchInv, NEW t \in Threads, at[t] \in Sites, Local(t), Justified(t)
    PROVE  WholeInv'
<1> SUFFICES ASSUME NEW s \in Sites, Settled(s)' PROVE ResumePointIsWhole(s)'
  BY Zenon DEF WholeInv
<1>1. ResumePointIsWhole(s)
  BY Zenon, SettledBefore DEF PatchInv, WholeInv
<1>2. CASE code' = code
  BY Zenon, <1>1, <1>2 DEF ResumePointIsWhole
<1>3. CASE pc[t] = "write" /\ code' = Jumped(at[t])
  <2>1. Settled(s)
    BY Zenon, <1>3, SettledBefore
  <2>2. s # at[t]
    BY Zenon, <1>3, <2>1, PublisherUnsettled
  <2>3. s + LengthOf[s] <= at[t] \/ at[t] + WORD_PATCH_BYTES <= s
    BY Zenon, <1>3, <2>1, <2>2 DEF PatchInv, ClearInv, Clear
  <2>4. /\ s \in Nat /\ LengthOf[s] \in {2, 3} /\ s + LengthOf[s] \in Bytes /\ at[t] \in Nat
        /\ \A x \in Window(at[t]) : at[t] <= x /\ x < at[t] + WORD_PATCH_BYTES
    BY Zenon, WindowFacts
  <2>5. s + LengthOf[s] \in Window(at[t]) => s + LengthOf[s] = at[t]
    BY <2>3, <2>4 DEF WORD_PATCH_BYTES
  <2>6. code'[s + LengthOf[s]] = IF s + LengthOf[s] \in Window(at[t]) THEN at[t] ELSE code[s + LengthOf[s]]
    BY Zenon, <1>3, <2>4 DEF Jumped
  <2>7. QED BY Zenon, <1>1, <2>5, <2>6 DEF ResumePointIsWhole
<1>4. QED BY Zenon, <1>2, <1>3 DEF Local

\* A publication writes over original code and takes no other site's byte.
LEMMA JumpedBytes ==
    ASSUME PatchInv, NEW t \in Threads, at[t] \in Sites, Local(t), NEW x \in Bytes
    PROVE  \/ code'[x] = code[x]
           \/ pc[t] = "write" /\ x \in Window(at[t]) /\ code[x] = 0 /\ code'[x] = at[t]
<1>1. CASE pc[t] = "write" /\ code' = Jumped(at[t])
  <2>1. \A y \in Window(at[t]) : code[y] = 0
    BY Zenon, <1>1 DEF PatchInv, WindowOK, Original
  <2>2. QED BY Zenon, <1>1, <2>1 DEF Jumped
<1>2. QED BY Zenon, <1>1 DEF Local

LEMMA CodeKept ==
    ASSUME PatchInv, NEW t \in Threads, at[t] \in Sites, Local(t)
    PROVE  CodeInv'
<1> SUFFICES ASSUME NEW x \in Bytes, code'[x] # 0
             PROVE  /\ x \in Window(code'[x]) /\ publication_attempted'[code'[x]]
                    /\ state'[code'[x]] # "free"
  BY Zenon DEF CodeInv
<1>1. ASSUME NEW o \in Sites, publication_attempted[o], state[o] # "free"
      PROVE  publication_attempted'[o] /\ state'[o] # "free"
  BY Zenon, <1>1 DEF Local, Decided
<1>2. CASE code'[x] = code[x]
  <2>1. /\ code[x] \in Sites /\ x \in Window(code[x])
        /\ publication_attempted[code[x]] /\ state[code[x]] # "free"
    BY Zenon, <1>2 DEF PatchInv, CodeInv, Types
  <2>2. QED BY Zenon, <1>1, <1>2, <2>1
<1>3. CASE pc[t] = "write" /\ x \in Window(at[t]) /\ code'[x] = at[t]
  <2>1. publication_attempted[at[t]] /\ state[at[t]] # "free"
    BY Zenon, <1>3 DEF PatchInv, WindowOK, StateOK, Undecided
  <2>2. QED BY Zenon, <1>1, <1>3, <2>1
<1>4. QED BY Zenon, <1>2, <1>3, JumpedBytes

LEMMA ActiveKept ==
    ASSUME PatchInv, NEW t \in Threads, at[t] \in Sites, Local(t), Justified(t)
    PROVE  ActiveIsWritten'
<1> SUFFICES ASSUME NEW s \in Sites, state'[s] = "ACTIVE" PROVE code'[s] = s
  BY Zenon DEF ActiveIsWritten
<1>1. s \in Bytes /\ s # 0
  BY Zenon, WindowFacts
<1>2. code[s] = s
  <2>1. CASE s = at[t] /\ pc[t] = "written"
    BY Zenon, <2>1 DEF PatchInv, WindowOK
  <2>2. CASE state[s] = "ACTIVE"
    BY Zenon, <2>2 DEF PatchInv, ActiveIsWritten
  <2>3. QED BY Zenon, <2>1, <2>2 DEF Local, Justified
<1>3. QED BY Zenon, <1>1, <1>2, JumpedBytes

LEMMA OneInstallerKept ==
    ASSUME PatchInv, NEW t \in Threads, at[t] \in Sites, Local(t), Justified(t)
    PROVE  OneInstaller'
<1> SUFFICES ASSUME NEW u \in Threads, u # t, pc'[t] \in Installers, pc'[u] \in Installers
             PROVE  at[t] # at[u]
  BY Zenon DEF OneInstaller, Local, PatchInv
<1>1. pc[u] \in Installers
  BY Zenon DEF Local
<1>2. CASE pc[t] \in Installers
  BY Zenon, <1>1, <1>2 DEF PatchInv, OneInstaller
<1>3. CASE state[at[t]] \in {"free", "STALE"}
  BY Zenon, <1>1, <1>3 DEF PatchInv, StateOK, Installers, Undecided
<1>4. QED BY Zenon, <1>2, <1>3 DEF Justified

\* A jump of another site stays recorded, or about to be, as it was.
LEMMA OthersTorn ==
    ASSUME PatchInv, NEW t \in Threads, at[t] \in Sites, Local(t),
           NEW s \in Sites \ {at[t]}
    PROVE  TornOK(s)'
<1> SUFFICES ASSUME Torn(s)'
             PROVE  /\ state'[s] \in {"INSTALLING", "FALLBACK", "STALE"}
                    /\ SITE_JUMP_POSSIBLY_WRITTEN' \/ Writing(s)'
  BY Zenon DEF TornOK
<1>1. Torn(s)
  <2>1. s + LengthOf[s] \in Bytes
    BY Zenon, WindowFacts
  <2>2. QED BY Zenon, <2>1, JumpedBytes DEF Torn, Local
<1>2. Writing(s) => Writing(s)'
  BY Zenon DEF Writing, Local
<1>3. QED BY Zenon, <1>1, <1>2 DEF PatchInv, TornOK, Local

\* A local and justified step after which its own thread is in order
\* preserves the invariant.
LEMMA LocalKeeps ==
    ASSUME PatchInv, Types', NEW t \in Threads, at[t] \in Sites, Local(t), Justified(t),
           HoldsLock(t)', StateOK(t)', WindowOK(t)', Intact(t)', TornOK(at[t])'
    PROVE  PatchInv'
<1>1. \A u \in Threads : HoldsLock(u)' /\ StateOK(u)' /\ WindowOK(u)' /\ Intact(u)'
  BY Zenon, OthersKeep
<1>2. \A s \in Sites : TornOK(s)'
  <2> SUFFICES ASSUME NEW s \in Sites PROVE TornOK(s)'
    OBVIOUS
  <2>1. CASE s # at[t]
    BY Zenon, <2>1, OthersTorn
  <2>2. CASE s = at[t]
    <3>1. at'[t] = s
      BY Zenon, <2>2 DEF Local
    <3>2. QED BY Zenon, <3>1 DEF TornOK, Torn, Writing
  <2>3. QED BY Zenon, <2>1, <2>2
<1>3. QED
  BY Zenon, <1>1, <1>2, ClearKept, WholeKept, CodeKept, ActiveKept, OneInstallerKept DEF PatchInv

\* A thread that comes to a site, or leaves one, and changes nothing else.
LEMMA DepartKeeps ==
    ASSUME PatchInv, NEW t \in Threads, UNCHANGED <<slotVars, lockVars>>,
           pc[t] \notin Installers \cup Holders,
           NEW l \in {"away", "claim"}, NEW s \in {0} \cup Sites, l = "claim" => s \in Sites,
           pc' = [pc EXCEPT ![t] = l], at' = [at EXCEPT ![t] = s]
    PROVE  PatchInv'
<1>1. /\ pc'[t] = l /\ at'[t] = s
      /\ \A u \in Threads \ {t} : pc'[u] = pc[u] /\ at'[u] = at[u]
  BY Zenon DEF PatchInv, Types
<1>2. /\ UNCHANGED <<state, publication_attempted, words_recorded, instruction_len>>
      /\ UNCHANGED <<INSTALL_HELD, SITE_JUMP_POSSIBLY_WRITTEN, code>>
  BY Zenon DEF slotVars, lockVars
<1>3. Types'
  BY Zenon, <1>1, <1>2 DEF PatchInv, Types, Labels
<1>4. OneInstaller' /\ CodeInv' /\ ActiveIsWritten'
  BY <1>1, <1>2 DEF PatchInv, OneInstaller, CodeInv, ActiveIsWritten, Installers, Undecided
<1>5. ASSUME NEW o \in Sites, Settled(o)' PROVE Settled(o)
  BY Zenon, <1>1, <1>2, <1>5 DEF Settled, Rests
<1>6. ClearInv'
  BY Zenon, <1>1, <1>5 DEF PatchInv, ClearInv, Clear
<1>7. WholeInv'
  BY Zenon, <1>2, <1>5 DEF PatchInv, WholeInv, ResumePointIsWhole
<1>8. ASSUME NEW o \in Sites PROVE TornOK(o)'
  <2>1. Writing(o) => Writing(o)'
    BY Zenon, <1>1 DEF Writing, Installers, Undecided
  <2>2. QED BY Zenon, <1>2, <2>1 DEF PatchInv, TornOK, Torn
<1>9. ASSUME NEW u \in Threads
      PROVE  HoldsLock(u)' /\ StateOK(u)' /\ WindowOK(u)' /\ Intact(u)'
  <2>1. CASE u = t
    BY Zenon, <1>1, <2>1 DEF HoldsLock, StateOK, WindowOK, Intact, Rests, Holders, Undecided, Followers
  <2>2. CASE u # t
    <3>1. HoldsLock(u)' /\ StateOK(u)'
      <4>1. HoldsLock(u) /\ StateOK(u)
        BY Zenon DEF PatchInv
      <4>2. HoldsLock(u)'
        BY Zenon, <1>1, <1>2, <2>2, <4>1 DEF HoldsLock
      <4>3. StateOK(u)'
        BY Zenon, <1>1, <1>2, <2>2, <4>1 DEF StateOK
      <4>4. QED BY Zenon, <4>2, <4>3
    <3>2. WindowOK(u)' /\ Intact(u)'
      BY <1>1, <1>2, <2>2 DEF PatchInv, WindowOK, Intact, Rests, Torn, Original
    <3>3. QED BY Zenon, <3>1, <3>2
  <2>3. QED BY Zenon, <2>1, <2>2
<1>10. QED BY Zenon, <1>3, <1>4, <1>6, <1>7, <1>8, <1>9 DEF PatchInv

\* A mapping call takes code only where no thread is.
LEMMA RemapKeeps ==
    ASSUME PatchInv, NEW r \in Regions, Remap(r)
    PROVE  PatchInv'
<1>1. /\ UNCHANGED <<publication_attempted, words_recorded, instruction_len, INSTALL_HELD>>
      /\ UNCHANGED <<SITE_JUMP_POSSIBLY_WRITTEN, pc, at>>
  BY Zenon DEF Remap
<1>2. \A x \in Bytes : code'[x] = IF x \in r THEN 0 ELSE code[x]
  BY Zenon DEF Remap
<1>3. \A s \in Sites : state'[s] = IF s \in r /\ state[s] \in {"ACTIVE", "FALLBACK"} THEN "STALE" ELSE state[s]
  BY Zenon DEF Remap
<1>4. ASSUME NEW t \in Threads, at[t] \in Sites PROVE at[t] \notin r
  <2>1. at[t] # 0 /\ at[t] \in at[t] .. at[t] + LengthOf[at[t]]
    BY <1>4, WindowFacts
  <2>2. QED BY Zenon, <2>1 DEF Remap
<1>5. Types'
  <2>1. state' \in [Sites -> States] /\ code' \in [Bytes -> {0} \cup Sites]
    BY Zenon DEF Remap, PatchInv, Types, States
  <2>2. QED BY Zenon, <1>1, <2>1 DEF PatchInv, Types
<1>6. CodeInv'
  BY <1>1, <1>2, <1>3 DEF PatchInv, CodeInv, Types
<1>7. ActiveIsWritten'
  BY Zenon, <1>2, <1>3, WindowFacts DEF PatchInv, ActiveIsWritten
<1>8. ASSUME NEW s \in Sites, Settled(s)' PROVE Settled(s)
  BY Zenon, <1>1, <1>3, <1>8 DEF Settled, Rests
<1>9. OneInstaller' /\ ClearInv'
  BY Zenon, <1>1, <1>8 DEF PatchInv, OneInstaller, ClearInv, Clear
<1>10. WholeInv'
  BY Zenon, <1>2, <1>8, WindowFacts DEF PatchInv, WholeInv, ResumePointIsWhole
<1>11. ASSUME NEW s \in Sites, Torn(s)' PROVE Torn(s)
  BY Zenon, <1>1, <1>2, <1>11, WindowFacts DEF Torn
<1>12. ASSUME NEW s \in Sites PROVE TornOK(s)'
  <2>1. Writing(s)' = Writing(s)
    BY Zenon, <1>1 DEF Writing
  <2>2. QED BY Zenon, <1>1, <1>3, <1>11, <2>1 DEF PatchInv, TornOK
<1>13. ASSUME NEW t \in Threads
       PROVE  HoldsLock(t)' /\ StateOK(t)' /\ WindowOK(t)' /\ Intact(t)'
  <2>1. HoldsLock(t)'
    BY Zenon, <1>1 DEF PatchInv, HoldsLock
  <2>2. CASE pc[t] = "away"
    BY Zenon, <1>1, <2>1, <2>2 DEF StateOK, WindowOK, Intact, Rests, Undecided, Followers
  <2>3. CASE pc[t] # "away"
    <3>1. /\ at[t] \in Sites /\ state'[at[t]] = state[at[t]]
          /\ code'[at[t]] = code[at[t]]
      BY Zenon, <2>3, <1>2, <1>3, <1>4, WindowFacts DEF PatchInv, Types
    <3>2. StateOK(t)'
      BY Zenon, <1>1, <3>1 DEF PatchInv, StateOK
    <3>3. \A x \in Window(at[t]) : code'[x] \in {0, code[x]} /\ at[t] # 0
      BY Zenon, <1>2, <3>1, WindowFacts
    <3>4. WindowOK(t)'
      <4>1. WindowOK(t)
        BY Zenon DEF PatchInv
      <4>2. QED BY Zenon, <1>1, <3>1, <3>3, <4>1 DEF WindowOK, Original
    <3>5. Intact(t)'
      BY Zenon, <1>1, <1>11, <3>1 DEF PatchInv, Intact, Rests
    <3>6. QED BY Zenon, <2>1, <3>2, <3>4, <3>5
  <2>4. QED BY Zenon, <2>2, <2>3
<1>14. QED BY Zenon, <1>5, <1>6, <1>7, <1>9, <1>10, <1>12, <1>13 DEF PatchInv

\* What is left of a step that goes to l and stores v in its site's state,
\* without a change of the code or the rest of the slot.
LEMMA GoesKeeps ==
    ASSUME PatchInv, NEW t \in Threads, pc[t] # "away",
           NEW l \in Labels \ {"away"}, Goes(t, l),
           NEW v \in States, state' = [state EXCEPT ![at[t]] = v],
           UNCHANGED <<publication_attempted, words_recorded, instruction_len, code>>,
           SITE_JUMP_POSSIBLY_WRITTEN' \in BOOLEAN,
           SITE_JUMP_POSSIBLY_WRITTEN => SITE_JUMP_POSSIBLY_WRITTEN',
           INSTALL_HELD' \subseteq Threads,
           pc[t] \in Holders \/ INSTALL_HELD = {} \/ UNCHANGED INSTALL_HELD,
           \/ v = state[at[t]]
           \/ pc[t] = "claim" /\ state[at[t]] \in {"free", "STALE"} /\ v # "free"
           \/ /\ pc[t] \in Installers /\ v \in Decided \cup {"INSTALLING"}
              /\ state[at[t]] \in Decided => v = "FALLBACK",
           Justified(t),
           HoldsLock(t)', StateOK(t)', WindowOK(t)',
           (l \in {"neighbours", "publish", "write", "active?", "unpublished?", "declined"} \/ Rests(t)')
              => ~ Torn(at[t]),
           Torn(at[t]) => v \in {"INSTALLING", "FALLBACK", "STALE"},
           pc[t] \in {"written", "failing", "flagged"} =>
              l \in {"written", "failing", "flagged"} \/ SITE_JUMP_POSSIBLY_WRITTEN'
    PROVE  PatchInv'
<1>1. /\ at[t] \in Sites /\ at' = at /\ pc'[t] = l
      /\ \A u \in Threads \ {t} : pc'[u] = pc[u]
  BY Zenon DEF PatchInv, Types, Goes
<1>2. state'[at[t]] = v /\ \A o \in Sites \ {at[t]} : state'[o] = state[o]
  BY Zenon, <1>1 DEF PatchInv, Types
<1>3. Types'
  BY Zenon, <1>1 DEF PatchInv, Types, Goes
<1>4. Local(t)
  BY Zenon, <1>1, <1>2 DEF Local
<1>5. Torn(at[t])' = Torn(at[t])
  BY Zenon, <1>1 DEF Torn
<1>6. Intact(t)'
  BY Zenon, <1>1, <1>5 DEF Intact
<1>7. TornOK(at[t])'
  <2> SUFFICES ASSUME Torn(at[t])
               PROVE  SITE_JUMP_POSSIBLY_WRITTEN' \/ Writing(at[t])'
    BY Zenon, <1>1, <1>2, <1>5 DEF TornOK
  <2>1. CASE SITE_JUMP_POSSIBLY_WRITTEN
    BY Zenon, <2>1
  <2>2. CASE Writing(at[t])
    BY Zenon, <1>1, <2>2 DEF Writing
  <2>3. QED BY Zenon, <1>1, <2>1, <2>2 DEF PatchInv, TornOK
<1>8. QED BY Zenon, <1>1, <1>3, <1>4, <1>6, <1>7, LocalKeeps

\* A step that stores nothing in its slot.
LEMMA QuietKeeps ==
    ASSUME PatchInv, NEW t \in Threads, pc[t] # "away",
           NEW l \in Labels \ {"away"}, Goes(t, l), UNCHANGED slotVars, UNCHANGED code,
           SITE_JUMP_POSSIBLY_WRITTEN' \in BOOLEAN,
           SITE_JUMP_POSSIBLY_WRITTEN => SITE_JUMP_POSSIBLY_WRITTEN',
           INSTALL_HELD' \subseteq Threads,
           pc[t] \in Holders \/ INSTALL_HELD = {} \/ UNCHANGED INSTALL_HELD,
           l \in Installers => pc[t] \in Installers,
           Rests(t)' => pc[t] \in {"neighbours", "checking"} /\ ResumePointIsWhole(at[t]),
           l \in {"publish", "write"} => pc[t] = "neighbours" /\ ~ CoversContinuationSite(at[t]),
           HoldsLock(t)', StateOK(t)', WindowOK(t)',
           (l \in {"neighbours", "publish", "write", "active?", "unpublished?", "declined"} \/ Rests(t)')
              => ~ Torn(at[t]),
           pc[t] \in {"written", "failing", "flagged"} =>
              l \in {"written", "failing", "flagged"} \/ SITE_JUMP_POSSIBLY_WRITTEN'
    PROVE  PatchInv'
<1>1. at[t] \in Sites /\ at' = at /\ pc'[t] = l
  BY Zenon DEF PatchInv, Types, Goes
<1>2. /\ UNCHANGED <<state, publication_attempted, words_recorded, instruction_len>>
      /\ state' = [state EXCEPT ![at[t]] = state[at[t]]] /\ state[at[t]] \in States
  BY Zenon, <1>1 DEF slotVars, PatchInv, Types
<1>3. Justified(t)
  BY Zenon, <1>1, <1>2 DEF Justified, Torn
<1>4. Torn(at[t]) => state[at[t]] \in {"INSTALLING", "FALLBACK", "STALE"}
  BY Zenon, <1>1 DEF PatchInv, TornOK
<1>5. QED BY Zenon, <1>1, <1>2, <1>3, <1>4, GoesKeeps

\* A step that stores v in its site's state, as the site's installer, and
\* goes on without having to know more.
LEMMA StoreKeeps ==
    ASSUME PatchInv, NEW t \in Threads, pc[t] \in Installers,
           NEW l \in {"native", "touched", "fallen", "wait", "installed", "refused"}, Goes(t, l),
           NEW v \in Decided \cup {"INSTALLING"}, state' = [state EXCEPT ![at[t]] = v],
           UNCHANGED <<publication_attempted, words_recorded, instruction_len, code>>,
           UNCHANGED SITE_JUMP_POSSIBLY_WRITTEN,
           INSTALL_HELD' \subseteq Threads,
           pc[t] \in Holders \/ UNCHANGED INSTALL_HELD,
           state[at[t]] \in Decided => v = "FALLBACK",
           v = "UNPATCHABLE" => Rests(t),
           v # "ACTIVE",
           StateOK(t)', WindowOK(t)',
           Torn(at[t]) => v \in {"INSTALLING", "FALLBACK", "STALE"},
           pc[t] \in {"written", "failing", "flagged"} => SITE_JUMP_POSSIBLY_WRITTEN
    PROVE  PatchInv'
<1>1. /\ pc[t] # "away" /\ at[t] \in Sites /\ at' = at /\ pc'[t] = l
      /\ state'[at[t]] = v /\ SITE_JUMP_POSSIBLY_WRITTEN \in BOOLEAN
  BY Zenon DEF PatchInv, Types, Goes, Installers, Undecided
<1>2. l \in Labels \ {"away"} /\ v \in States
  BY Zenon DEF Labels, Installers, Undecided, Followers, States
<1>3. l \notin {"neighbours", "publish", "write", "active?", "unpublished?", "declined"} /\ ~ Rests(t)'
  BY Zenon, <1>1 DEF Rests
<1>4. Justified(t)
  BY Zenon, <1>1, <1>3 DEF Justified, Torn
<1>5. HoldsLock(t)'
  BY Zenon, <1>1 DEF HoldsLock, Holders
<1>6. QED BY Zenon, <1>1, <1>2, <1>3, <1>4, <1>5, GoesKeeps

-----------------------------------------------------------------------------
LEMMA TrapKeeps ==
    ASSUME PatchInv, NEW t \in Threads, NEW s \in Sites, Trap(t, s)
    PROVE  PatchInv'
<1>1. pc[t] \notin Installers \cup Holders
  BY Zenon DEF Trap, Installers, Undecided, Holders
<1>2. QED BY Zenon, <1>1, DepartKeeps DEF Trap

\* A thread that runs on has no claim and no lock.
LEMMA RunsOnKeeps ==
    ASSUME PatchInv, NEW t \in Threads, RunsOn(t), UNCHANGED <<slotVars, lockVars>>,
           pc[t] \in Resuming \cup {"wait", "active?"}
    PROVE  PatchInv'
<1>1. pc[t] \notin Installers \cup Holders
  BY Zenon DEF Resuming, Installers, Undecided, Holders
<1>2. QED BY Zenon, <1>1, DepartKeeps DEF RunsOn

LEMMA LeaveKeeps ==
    ASSUME PatchInv, NEW t \in Threads, Leave(t)
    PROVE  PatchInv'
BY Zenon, RunsOnKeeps DEF Leave

\* A guest that ends leaves the rest as it is.
LEMMA EndKeeps ==
    ASSUME PatchInv, UNCHANGED <<slotVars, lockVars, pc, at>>
    PROVE  PatchInv'
<1>1. /\ UNCHANGED <<state, publication_attempted, words_recorded, instruction_len>>
      /\ UNCHANGED <<INSTALL_HELD, SITE_JUMP_POSSIBLY_WRITTEN, code, pc, at>>
  BY Zenon DEF slotVars, lockVars
<1>2. Types' /\ OneInstaller' /\ CodeInv' /\ ActiveIsWritten'
  <2>1. Types'
    BY Zenon, <1>1 DEF PatchInv, Types
  <2>2. OneInstaller' /\ CodeInv' /\ ActiveIsWritten'
    BY Zenon, <1>1 DEF PatchInv, OneInstaller, CodeInv, ActiveIsWritten
  <2>3. QED BY Zenon, <2>1, <2>2
<1>3. \A s \in Sites : Settled(s)' = Settled(s) /\ TornOK(s)'
  <2>1. \A s \in Sites : Settled(s)' = Settled(s)
    BY Zenon, <1>1 DEF Settled, Rests
  <2>2. \A s \in Sites : Torn(s)' = Torn(s) /\ Writing(s)' = Writing(s)
    BY Zenon, <1>1 DEF Torn, Writing
  <2>3. \A s \in Sites : TornOK(s)'
    BY Zenon, <1>1, <2>2 DEF PatchInv, TornOK
  <2>4. QED BY Zenon, <2>1, <2>3
<1>4. ClearInv' /\ WholeInv'
  BY Zenon, <1>1, <1>3 DEF PatchInv, ClearInv, Clear, WholeInv, ResumePointIsWhole
<1>5. \A t \in Threads : HoldsLock(t)' /\ StateOK(t)' /\ WindowOK(t)' /\ Intact(t)'
  <2> SUFFICES ASSUME NEW t \in Threads PROVE HoldsLock(t)' /\ StateOK(t)' /\ WindowOK(t)' /\ Intact(t)'
    OBVIOUS
  <2>1. HoldsLock(t) /\ StateOK(t) /\ WindowOK(t) /\ Intact(t)
    BY Zenon DEF PatchInv
  <2>2. HoldsLock(t)'
    BY Zenon, <1>1, <2>1 DEF HoldsLock
  <2>3. StateOK(t)'
    BY Zenon, <1>1, <2>1 DEF StateOK
  <2>4. WindowOK(t)'
    BY Zenon, <1>1, <2>1 DEF WindowOK, Original
  <2>5. Intact(t)'
    BY Zenon, <1>1, <2>1 DEF Intact, Rests, Torn
  <2>6. QED BY Zenon, <2>2, <2>3, <2>4, <2>5
<1>6. QED BY Zenon, <1>2, <1>3, <1>4, <1>5 DEF PatchInv

\* Where a thread is after Goes.
LEMMA GoesFacts ==
    ASSUME PatchInv, NEW t \in Threads, NEW l, Goes(t, l)
    PROVE  at' = at /\ pc'[t] = l /\ (pc[t] # "away" => at[t] \in Sites)
BY Zenon DEF PatchInv, Types, Goes

\* With room in the table a free slot can be claimed.
LEMMA ClaimHasRoom ==
    ASSUME Room, NEW s \in Sites, state[s] = "free"
    PROVE  Cardinality({o \in Sites : state[o] # "free"}) < TableSize
<1> DEFINE taken == {o \in Sites : state[o] # "free"}
<1>1. taken \subseteq Sites /\ taken # Sites
  OBVIOUS
<1>2. QED BY Zenon, <1>1 DEF Room

LEMMA ClaimKeeps ==
    ASSUME Room, PatchInv, NEW t \in Threads, ClaimSite(t)
    PROVE  PatchInv'
<1>1. /\ pc[t] = "claim" /\ at[t] \in Sites /\ state[at[t]] \in States \ {"claimed"}
      /\ pc[t] \notin Installers \cup Holders
      /\ SITE_JUMP_POSSIBLY_WRITTEN \in BOOLEAN /\ INSTALL_HELD \subseteq Threads
      /\ UNCHANGED <<publication_attempted, words_recorded, instruction_len>>
      /\ UNCHANGED <<INSTALL_HELD, SITE_JUMP_POSSIBLY_WRITTEN, code>>
  BY Zenon DEF ClaimSite, PatchInv, Types, Installers, Undecided, Holders, lockVars
<1>2. Torn(at[t]) => state[at[t]] # "free"
  BY Zenon, <1>1 DEF PatchInv, TornOK
<1>3. ASSUME NEW l \in {"claimed", "native"}, NEW v \in {"claimed", "INSTALLING"},
             state[at[t]] \in {"free", "STALE"},
             l = "claimed" <=> v = "claimed", l = "claimed" => state[at[t]] = "free",
             state' = [state EXCEPT ![at[t]] = v], Goes(t, l)
      PROVE  PatchInv'
  <2>1. at' = at /\ pc'[t] = l /\ state'[at[t]] = v
    BY Zenon, <1>1, <1>3, GoesFacts DEF PatchInv, Types
  <2>2. l \in Labels \ {"away"} /\ v \in States /\ ~ Rests(t)' /\ l \notin Holders
    BY Zenon, <1>3, <2>1 DEF Labels, Installers, Undecided, States, Rests, Holders
  <2>3. Justified(t)
    BY Zenon, <1>1, <1>3, <2>1, <2>2 DEF Justified, Torn
  <2>4. HoldsLock(t)' /\ WindowOK(t)'
    BY Zenon, <2>1, <2>2, <1>3 DEF HoldsLock, WindowOK
  <2>5. StateOK(t)'
    BY Zenon, <2>1, <1>3 DEF StateOK, Undecided, Followers
  <2>6. QED BY Zenon, <1>1, <1>2, <1>3, <2>2, <2>3, <2>4, <2>5, GoesKeeps
<1>4. CASE state[at[t]] = "free"
  <2>1. state' = [state EXCEPT ![at[t]] = "claimed"] /\ Goes(t, "claimed")
    BY Zenon, <1>1, <1>4, ClaimHasRoom DEF ClaimSite
  <2>2. QED BY Zenon, <1>3, <1>4, <2>1
<1>5. CASE state[at[t]] = "STALE"
  <2>1. state' = [state EXCEPT ![at[t]] = "INSTALLING"] /\ Goes(t, "native")
    BY Zenon, <1>5 DEF ClaimSite
  <2>2. QED BY Zenon, <1>3, <1>5, <2>1
<1>6. CASE state[at[t]] \notin {"free", "STALE"}
  <2>1. Goes(t, "wait") /\ UNCHANGED slotVars
    BY Zenon, <1>1, <1>6 DEF ClaimSite, slotVars
  <2>2. at' = at /\ pc'[t] = "wait" /\ state' = state
    BY Zenon, <2>1, GoesFacts DEF slotVars
  <2>3. "wait" \in Labels \ {"away"} /\ "wait" \notin Installers /\ ~ Rests(t)'
    BY Zenon, <2>2 DEF Labels, Installers, Undecided, Rests
  <2>4. HoldsLock(t)' /\ WindowOK(t)' /\ StateOK(t)'
    BY Zenon, <1>1, <1>6, <2>2 DEF HoldsLock, WindowOK, StateOK, Holders, Undecided, Followers, States, Decided
  <2>5. QED BY Zenon, <1>1, <2>1, <2>3, <2>4, QuietKeeps
<1>7. QED BY Zenon, <1>4, <1>5, <1>6

\* The installer's stores of the site's state.
LEMMA InstallerStores ==
    ASSUME PatchInv, NEW t \in Threads,
           \/ StoreInstalling(t) \/ InstallUnpublished(t) \/ PlanFails(t)
           \/ FallBackWritten(t) \/ Declare(t)
    PROVE  PatchInv'
<1>0. StateOK(t) /\ WindowOK(t) /\ Intact(t) /\ INSTALL_HELD \subseteq Threads
  BY Zenon DEF PatchInv, Types
<1>1. CASE StoreInstalling(t)
  <2>1. /\ pc[t] = "claimed" /\ Goes(t, "native") /\ UNCHANGED lockVars
        /\ state' = [state EXCEPT ![at[t]] = "INSTALLING"] /\ pc[t] \in Installers
    BY Zenon, <1>1 DEF StoreInstalling, Installers
  <2>2. /\ at[t] \in Sites /\ at' = at /\ pc'[t] = "native" /\ state'[at[t]] = "INSTALLING"
        /\ UNCHANGED <<INSTALL_HELD, SITE_JUMP_POSSIBLY_WRITTEN, code>>
    BY Zenon, <2>1, GoesFacts DEF PatchInv, Types, lockVars
  <2>3. StateOK(t)' /\ WindowOK(t)' /\ state[at[t]] \notin Decided
    BY Zenon, <1>0, <2>1, <2>2 DEF StateOK, WindowOK, Undecided, Followers, Decided
  <2>4. QED BY Zenon, <1>0, <1>1, <2>1, <2>2, <2>3, StoreKeeps DEF StoreInstalling
<1>2. CASE InstallUnpublished(t)
  <2>1. /\ pc[t] = "publish" /\ Goes(t, "installed") /\ INSTALL_HELD' = {}
        /\ state' = [state EXCEPT ![at[t]] = "UNPUBLISHED"]
        /\ pc[t] \in Installers \cap Holders
    BY Zenon, <1>2 DEF InstallUnpublished, Installers, Undecided, Holders
  <2>2. /\ at[t] \in Sites /\ at' = at /\ pc'[t] = "installed" /\ state'[at[t]] = "UNPUBLISHED"
    BY Zenon, <2>1, GoesFacts DEF PatchInv, Types
  <2>3. /\ StateOK(t)' /\ WindowOK(t)' /\ state[at[t]] \notin Decided
        /\ ~ Torn(at[t]) /\ "UNPUBLISHED" \in Decided
    BY Zenon, <1>0, <2>1, <2>2 DEF StateOK, WindowOK, Intact, Undecided, Followers, Decided
  <2>4. QED BY Zenon, <1>2, <2>1, <2>3, StoreKeeps DEF InstallUnpublished
<1>3. ASSUME NEW l \in {"touched", "fallen"}, Goes(t, l), INSTALL_HELD' = {},
             state' = [state EXCEPT ![at[t]] = "FALLBACK"],
             UNCHANGED <<publication_attempted, words_recorded, instruction_len, code>>,
             UNCHANGED SITE_JUMP_POSSIBLY_WRITTEN,
             \/ pc[t] = "write" /\ l = "touched"
             \/ pc[t] = "flagged" /\ l = "fallen"
      PROVE  PatchInv'
  <2>1. /\ at[t] \in Sites /\ at' = at /\ pc'[t] = l /\ state'[at[t]] = "FALLBACK"
        /\ pc[t] \in Installers \cap Holders /\ "FALLBACK" \in Decided
    BY Zenon, <1>3, GoesFacts DEF PatchInv, Types, Installers, Undecided, Holders, Decided
  <2>2. StateOK(t)' /\ WindowOK(t)' /\ (pc[t] = "flagged" => SITE_JUMP_POSSIBLY_WRITTEN)
    BY Zenon, <1>0, <1>3, <2>1 DEF StateOK, WindowOK, Undecided, Followers
  <2>3. QED BY Zenon, <1>3, <2>1, <2>2, StoreKeeps
<1>4. CASE PlanFails(t) \/ FallBackWritten(t)
  BY Zenon, <1>3, <1>4 DEF PlanFails, FallBackWritten
<1>5. CASE Declare(t)
  <2> DEFINE v == IF at[t] \notin SyscallSites /\ pc[t] = "untouched" THEN "UNPATCHABLE" ELSE "FALLBACK"
  <2>1. /\ pc[t] \in {"untouched", "touched"} /\ Goes(t, "wait") /\ UNCHANGED lockVars
        /\ state' = [state EXCEPT ![at[t]] = v] /\ pc[t] \in Installers
    BY Zenon, <1>5 DEF Declare, Installers, Undecided
  <2>2. /\ at[t] \in Sites /\ at' = at /\ pc'[t] = "wait" /\ state'[at[t]] = v
        /\ UNCHANGED <<INSTALL_HELD, SITE_JUMP_POSSIBLY_WRITTEN, code>>
    BY Zenon, <2>1, GoesFacts DEF PatchInv, Types, lockVars
  <2>3. /\ v \in Decided /\ v # "ACTIVE" /\ (v = "UNPATCHABLE" => Rests(t))
        /\ v # "FALLBACK" => ~ Torn(at[t]) /\ state[at[t]] \notin Decided
    BY Zenon, <1>0, <2>1 DEF Decided, Rests, Intact, StateOK, Undecided
  <2> HIDE DEF v
  <2>4. StateOK(t)' /\ WindowOK(t)'
    BY Zenon, <2>2, <2>3 DEF StateOK, WindowOK, Undecided, Followers
  <2>5. QED BY ZenonT(30), <1>0, <1>5, <2>1, <2>2, <2>3, <2>4, StoreKeeps DEF Declare
<1>6. QED BY Zenon, <1>1, <1>2, <1>4, <1>5

\* A step to a place where a thread has to know nothing but the state.
LEMMA PlainKeeps ==
    ASSUME PatchInv, NEW t \in Threads, pc[t] # "away",
           NEW l \in {"lock", "bytes", "untouched", "touched", "wait", "failing", "flagged",
                      "adapter", "checking", "refused"},
           Goes(t, l), UNCHANGED slotVars, UNCHANGED code,
           SITE_JUMP_POSSIBLY_WRITTEN' \in BOOLEAN,
           SITE_JUMP_POSSIBLY_WRITTEN => SITE_JUMP_POSSIBLY_WRITTEN',
           INSTALL_HELD' \subseteq Threads,
           pc[t] \in Holders \/ INSTALL_HELD = {} \/ UNCHANGED INSTALL_HELD,
           l \in Installers => pc[t] \in Installers,
           l = "untouched" => at[t] \in SyscallSites,
           l \in Holders => INSTALL_HELD' = {t},
           l = "flagged" => SITE_JUMP_POSSIBLY_WRITTEN',
           StateOK(t)',
           pc[t] \in {"written", "failing", "flagged"} => l = "flagged"
    PROVE  PatchInv'
<1>1. at' = at /\ pc'[t] = l
  BY Zenon, GoesFacts
<1>2. /\ l \in Labels \ {"away"} /\ ~ Rests(t)'
      /\ l \notin {"neighbours", "publish", "write", "active?", "unpublished?", "declined"}
  BY Zenon, <1>1 DEF Labels, Installers, Undecided, Followers, Rests
<1>3. HoldsLock(t)' /\ WindowOK(t)'
  BY Zenon, <1>1, <1>2 DEF HoldsLock, WindowOK
<1>4. QED BY Zenon, <1>1, <1>2, <1>3, QuietKeeps

\* RestoreFaulting, successful or not.
LEMMA RestoreKeeps ==
    ASSUME PatchInv, NEW t \in Threads, RestoreFaulting(t)
    PROVE  PatchInv'
<1>0. /\ StateOK(t) /\ INSTALL_HELD \subseteq Threads /\ SITE_JUMP_POSSIBLY_WRITTEN \in BOOLEAN
      /\ UNCHANGED <<INSTALL_HELD, SITE_JUMP_POSSIBLY_WRITTEN, code>>
  BY Zenon DEF PatchInv, Types, RestoreFaulting, lockVars
<1>1. CASE pc[t] = "installed" /\ Goes(t, "wait") /\ UNCHANGED state
  <2>1. UNCHANGED slotVars /\ pc[t] # "away" /\ "wait" \notin Installers \cup Holders
    BY ZenonT(30), <1>1 DEF RestoreFaulting, slotVars, Installers, Undecided, Holders
  <2>2. at' = at /\ pc'[t] = "wait" /\ state'[at[t]] \in {"ACTIVE", "UNPUBLISHED"}
    BY Zenon, <1>0, <1>1, GoesFacts DEF StateOK
  <2>3. "wait" \notin Undecided \cup Followers /\ {"ACTIVE", "UNPUBLISHED"} \subseteq Decided
    BY Zenon DEF Undecided, Followers, Decided
  <2>4. StateOK(t)'
    BY Zenon, <2>2, <2>3 DEF StateOK
  <2>5. QED BY Zenon, <1>0, <1>1, <2>1, <2>4, PlainKeeps
<1>2. CASE /\ pc[t] \in {"installed", "untouched", "touched"}
           /\ state' = [state EXCEPT ![at[t]] = "FALLBACK"] /\ Goes(t, "refused")
  <2>1. /\ at[t] \in Sites /\ at' = at /\ pc'[t] = "refused" /\ state'[at[t]] = "FALLBACK"
        /\ pc[t] \in Installers /\ "FALLBACK" \in Decided
    BY Zenon, <1>2, GoesFacts DEF PatchInv, Types, Installers, Undecided, Decided
  <2>2. StateOK(t)' /\ WindowOK(t)'
    BY Zenon, <2>1 DEF StateOK, WindowOK, Undecided, Followers
  <2>3. QED BY Zenon, <1>0, <1>2, <2>1, <2>2, StoreKeeps DEF RestoreFaulting
<1>3. QED BY Zenon, <1>1, <1>2 DEF RestoreFaulting

\* EnableNative, LockInstallation, FlagWritten, InstructionInstalled,
\* EnterAdapter: moves that look at nothing but the lock.
LEMMA PlainSteps ==
    ASSUME PatchInv, NEW t \in Threads,
           \/ EnableNative(t) \/ LockInstallation(t) \/ FlagWritten(t)
           \/ InstructionInstalled(t) \/ EnterAdapter(t)
    PROVE  PatchInv'
<1>0. /\ StateOK(t) /\ INSTALL_HELD \subseteq Threads /\ SITE_JUMP_POSSIBLY_WRITTEN \in BOOLEAN
      /\ UNCHANGED slotVars /\ UNCHANGED code /\ pc[t] # "away" /\ state' = state
  BY Zenon DEF PatchInv, Types, EnableNative, LockInstallation, FlagWritten, InstructionInstalled,
         EnterAdapter, lockVars, slotVars
<1>1. ASSUME NEW l, Goes(t, l),
             \/ pc[t] = "native" /\ l \in {"lock", "untouched"}
             \/ pc[t] = "lock" /\ l \in {"bytes", "touched"}
             \/ pc[t] = "failing" /\ l = "flagged"
             \/ pc[t] = "installed" /\ l = "wait"
             \/ pc[t] = "adapter" /\ l \in {"refused", "checking"}
      PROVE  StateOK(t)' /\ (l \in Installers => pc[t] \in Installers)
  <2>1. at' = at /\ pc'[t] = l
    BY Zenon, <1>1, GoesFacts
  <2>2. StateOK(t)'
    BY Zenon, <1>0, <1>1, <2>1 DEF StateOK, Undecided, Followers, Decided
  <2>3. QED BY Zenon, <1>1, <2>2 DEF Installers, Undecided
<1>2. CASE EnableNative(t)
  <2>1. "lock" \notin Holders /\ "untouched" \notin Holders
    BY Zenon DEF Holders
  <2>2. UNCHANGED <<INSTALL_HELD, SITE_JUMP_POSSIBLY_WRITTEN>> /\ pc[t] = "native"
    BY Zenon, <1>2 DEF EnableNative, lockVars
  <2>3. CASE Goes(t, "lock")
    BY ZenonT(30), <1>0, <1>1, <2>1, <2>2, <2>3, PlainKeeps
  <2>4. CASE at[t] \in SyscallSites /\ Goes(t, "untouched")
    BY Zenon, <1>0, <1>1, <2>1, <2>2, <2>4, PlainKeeps
  <2>5. QED BY Zenon, <1>2, <2>3, <2>4 DEF EnableNative
<1>3. CASE LockInstallation(t)
  <2>1. UNCHANGED SITE_JUMP_POSSIBLY_WRITTEN /\ pc[t] = "lock" /\ "touched" \notin Holders
    BY Zenon, <1>3 DEF LockInstallation, Holders
  <2>2. CASE INSTALL_HELD = {} /\ INSTALL_HELD' = {t} /\ Goes(t, "bytes")
    BY Zenon, <1>0, <1>1, <2>1, <2>2, PlainKeeps
  <2>3. CASE Goes(t, "touched") /\ UNCHANGED INSTALL_HELD
    BY Zenon, <1>0, <1>1, <2>1, <2>3, PlainKeeps
  <2>4. QED BY Zenon, <1>3, <2>2, <2>3 DEF LockInstallation
<1>4. CASE FlagWritten(t)
  <2>1. /\ pc[t] = "failing" /\ Goes(t, "flagged") /\ SITE_JUMP_POSSIBLY_WRITTEN' = TRUE
        /\ UNCHANGED INSTALL_HELD /\ INSTALL_HELD = {t}
    BY Zenon, <1>4 DEF FlagWritten, PatchInv, HoldsLock, Holders
  <2>2. QED BY Zenon, <1>0, <1>1, <2>1, PlainKeeps
<1>5. CASE InstructionInstalled(t)
  <2>1. /\ pc[t] = "installed" /\ Goes(t, "wait") /\ "wait" \notin Holders
        /\ UNCHANGED <<INSTALL_HELD, SITE_JUMP_POSSIBLY_WRITTEN>>
    BY Zenon, <1>5 DEF InstructionInstalled, lockVars, Holders
  <2>2. QED BY Zenon, <1>0, <1>1, <2>1, PlainKeeps
<1>6. CASE EnterAdapter(t)
  <2>1. UNCHANGED SITE_JUMP_POSSIBLY_WRITTEN /\ pc[t] = "adapter" /\ "refused" \notin Holders
    BY Zenon, <1>6 DEF EnterAdapter, Holders
  <2>2. CASE INSTALL_HELD = {} /\ INSTALL_HELD' = {t} /\ Goes(t, "checking")
    BY Zenon, <1>0, <1>1, <2>1, <2>2, PlainKeeps
  <2>3. CASE Goes(t, "refused") /\ UNCHANGED INSTALL_HELD
    BY Zenon, <1>0, <1>1, <2>1, <2>3, PlainKeeps
  <2>4. QED BY Zenon, <1>6, <2>2, <2>3 DEF EnterAdapter
<1>7. QED BY Zenon, <1>2, <1>3, <1>4, <1>5, <1>6

-----------------------------------------------------------------------------
\* A thread that waited follows the decision: its site is decided, and its
\* jump is not half written.
LEMMA FollowKeeps ==
    ASSUME PatchInv, NEW t \in Threads, pc[t] \in {"wait", "active?", "unpublished?"},
           NEW l \in {"active?", "unpublished?", "adapter", "declined"}, Goes(t, l),
           UNCHANGED <<slotVars, lockVars>>,
           state[at[t]] \in Decided, ~ Torn(at[t]),
           l = "declined" /\ at[t] \notin SyscallSites => state[at[t]] = "UNPATCHABLE",
           l \in {"active?", "unpublished?"} => at[t] \in SyscallSites
    PROVE  PatchInv'
<1>1. /\ at' = at /\ pc'[t] = l /\ state' = state
      /\ UNCHANGED <<INSTALL_HELD, SITE_JUMP_POSSIBLY_WRITTEN, code>> /\ UNCHANGED slotVars
      /\ INSTALL_HELD \subseteq Threads /\ SITE_JUMP_POSSIBLY_WRITTEN \in BOOLEAN
  BY Zenon, GoesFacts DEF slotVars, lockVars, PatchInv, Types
<1>2. /\ l \in Labels \ {"away"} /\ l \notin Installers \cup Holders /\ ~ Rests(t)'
  BY Zenon, <1>1 DEF Labels, Installers, Undecided, Followers, Holders, Rests
<1>3. HoldsLock(t)' /\ WindowOK(t)' /\ StateOK(t)'
  BY Zenon, <1>1, <1>2 DEF HoldsLock, WindowOK, StateOK, Undecided
<1>4. QED BY Zenon, <1>1, <1>2, <1>3, QuietKeeps

LEMMA WaitKeeps ==
    ASSUME PatchInv, NEW t \in Threads,
           WaitInstruction(t) \/ WaitSyscall(t) \/ LookActive(t) \/ LookUnpublished(t)
    PROVE  PatchInv'
<1>0. /\ StateOK(t) /\ Intact(t) /\ UNCHANGED <<slotVars, lockVars>>
      /\ pc[t] \in {"wait", "active?", "unpublished?"} /\ at[t] \in Sites /\ TornOK(at[t])
  BY Zenon DEF PatchInv, Types, WaitInstruction, WaitSyscall, LookActive, LookUnpublished
<1>1. CASE WaitInstruction(t)
  <2>1. CASE state[at[t]] = "ACTIVE"
    <3>1. RunsOn(t)
      BY Zenon, <1>1, <2>1 DEF WaitInstruction
    <3>2. pc[t] \in Resuming \cup {"wait", "active?"}
      BY Zenon, <1>1 DEF WaitInstruction
    <3>3. QED BY Zenon, <1>0, <3>1, <3>2, RunsOnKeeps
  <2>2. CASE state[at[t]] = "UNPATCHABLE"
    <3>1. Goes(t, "declined")
      BY Zenon, <1>1, <2>2 DEF WaitInstruction
    <3>2. ~ Torn(at[t]) /\ state[at[t]] \in Decided
      BY Zenon, <1>0, <2>2 DEF TornOK, Decided
    <3>3. QED BY Zenon, <1>0, <2>2, <3>1, <3>2, FollowKeeps
  <2>3. CASE state[at[t]] \notin {"ACTIVE", "UNPATCHABLE"}
    <3>1. UNCHANGED <<pc, at>>
      BY Zenon, <1>1, <2>3 DEF WaitInstruction
    <3>2. QED BY Zenon, <1>0, <3>1, EndKeeps
  <2>4. QED BY Zenon, <2>1, <2>2, <2>3
<1>2. CASE WaitSyscall(t)
  <2>1. CASE state[at[t]] = "FALLBACK" /\ SITE_JUMP_POSSIBLY_WRITTEN
    BY Zenon, <1>0, <1>2, <2>1, EndKeeps DEF WaitSyscall
  <2>2. CASE ~ (state[at[t]] = "FALLBACK" /\ SITE_JUMP_POSSIBLY_WRITTEN)
    <3>1. /\ Goes(t, "active?") /\ pc[t] = "wait" /\ state[at[t]] # "INSTALLING"
          /\ at[t] \in SyscallSites
      BY Zenon, <1>2, <2>2 DEF WaitSyscall
    <3>2. state[at[t]] \in Decided
      BY Zenon, <1>0, <3>1 DEF StateOK
    <3>3. ~ Torn(at[t])
      <4>1. Writing(at[t]) => state[at[t]] = "INSTALLING"
        BY Zenon DEF Writing, PatchInv, StateOK, Undecided
      <4>2. QED BY Zenon, <1>0, <2>2, <3>1, <3>2, <4>1 DEF TornOK, Decided
    <3>4. QED BY Zenon, <1>0, <3>1, <3>2, <3>3, FollowKeeps
  <2>3. QED BY Zenon, <2>1, <2>2
<1>3. CASE LookActive(t)
  <2>1. /\ pc[t] = "active?" /\ state[at[t]] \in Decided /\ ~ Torn(at[t])
        /\ at[t] \in SyscallSites
    BY Zenon, <1>0, <1>3 DEF LookActive, StateOK, Intact, Followers
  <2>2. CASE RunsOn(t)
    BY Zenon, <1>0, <2>1, <2>2, RunsOnKeeps
  <2>3. CASE Goes(t, "unpublished?")
    BY Zenon, <1>0, <2>1, <2>3, FollowKeeps
  <2>4. QED BY Zenon, <1>3, <2>2, <2>3 DEF LookActive
<1>4. CASE LookUnpublished(t)
  <2>1. /\ pc[t] = "unpublished?" /\ state[at[t]] \in Decided /\ ~ Torn(at[t])
        /\ at[t] \in SyscallSites
    BY Zenon, <1>0, <1>4 DEF LookUnpublished, StateOK, Intact, Followers
  <2>2. CASE Goes(t, "adapter")
    BY Zenon, <1>0, <2>1, <2>2, FollowKeeps
  <2>3. CASE Goes(t, "declined")
    BY Zenon, <1>0, <2>1, <2>3, FollowKeeps
  <2>4. QED BY Zenon, <1>4, <2>2, <2>3 DEF LookUnpublished
<1>5. QED BY Zenon, <1>1, <1>2, <1>3, <1>4

\* check_neighbours: the three outcomes, each justified by what was seen.
LEMMA CheckNeighboursKeeps ==
    ASSUME PatchInv, NEW t \in Threads, CheckNeighbours(t)
    PROVE  PatchInv'
<1>0. /\ StateOK(t) /\ Intact(t) /\ WindowOK(t) /\ HoldsLock(t) /\ at[t] \in Sites
      /\ INSTALL_HELD \subseteq Threads /\ SITE_JUMP_POSSIBLY_WRITTEN \in BOOLEAN
      /\ pc[t] = "neighbours" /\ pc[t] \in Installers \cap Holders
      /\ UNCHANGED slotVars /\ UNCHANGED <<state, instruction_len, publication_attempted, code>>
      /\ UNCHANGED SITE_JUMP_POSSIBLY_WRITTEN
  BY Zenon DEF PatchInv, Types, CheckNeighbours, Installers, Undecided, Holders, slotVars
<1>1. \A x \in Window(at[t]) : code[x] # at[t]
  BY Zenon, <1>0 DEF WindowOK
<1>2. ASSUME NEW x \in Window(at[t]), code[x] # 0
      PROVE  /\ code[x] \in Sites \ {at[t]} /\ Footprint(code[x]) /\ x \in Window(code[x])
  <2>1. x \in Bytes
    BY Zenon, <1>0, WindowFacts
  <2>2. /\ code[x] \in Sites \ {at[t]} /\ x \in Window(code[x])
        /\ publication_attempted[code[x]] /\ state[code[x]] # "free"
    BY Zenon, <1>1, <1>2, <2>1 DEF PatchInv, CodeInv, Types
  <2>3. QED BY Zenon, <2>2 DEF Footprint, PatchSurvives
<1>3. CASE InsidePublishedPatch(at[t]) /\ INSTALL_HELD' = {} /\ Goes(t, "touched")
  <2>1. at' = at /\ pc'[t] = "touched"
    BY Zenon, <1>3, GoesFacts
  <2>2. StateOK(t)' /\ "touched" \notin Holders
    BY Zenon, <1>0, <2>1 DEF StateOK, Undecided, Followers, Holders
  <2>3. QED BY Zenon, <1>0, <1>3, <2>2, PlainKeeps
<1>4. CASE ~ InsidePublishedPatch(at[t]) /\ INSTALL_HELD' = {} /\ Goes(t, "untouched")
  <2>1. ResumePointIsWhole(at[t])
    <3> DEFINE x == at[t] + LengthOf[at[t]]
               o == code[x]
    <3>1. x \in Window(at[t]) /\ at[t] \in Nat /\ LengthOf[at[t]] \in {2, 3}
      BY Zenon, <1>0, WindowFacts
    <3>2. CASE o # 0
      <4>1. o \in Sites \ {at[t]} /\ Footprint(o) /\ x \in Window(o)
        BY Zenon, <1>2, <3>1, <3>2
      <4>2. o \in Nat /\ o <= x /\ x < o + WORD_PATCH_BYTES
        BY Zenon, <4>1, WindowFacts
      <4>3. ~ (o < at[t] + LengthOf[at[t]] /\ o + WORD_PATCH_BYTES > at[t])
        BY Zenon, <1>4, <4>1 DEF InsidePublishedPatch
      <4> HIDE DEF o
      <4>4. o = x
        BY <3>1, <4>2, <4>3 DEF WORD_PATCH_BYTES
      <4>5. QED BY Zenon, <4>4 DEF o, ResumePointIsWhole
    <3>3. QED BY Zenon, <3>2 DEF ResumePointIsWhole
  <2>2. at' = at /\ pc'[t] = "untouched"
    BY Zenon, <1>4, GoesFacts
  <2>3. /\ StateOK(t)' /\ HoldsLock(t)' /\ WindowOK(t)' /\ ~ Torn(at[t])
        /\ "untouched" \in Labels \ {"away"}
    BY Zenon, <1>0, <2>2 DEF StateOK, HoldsLock, WindowOK, Intact, Undecided, Followers, Holders,
                      Labels, Installers
  <2>4. QED BY Zenon, <1>0, <1>4, <2>1, <2>3, QuietKeeps
<1>5. CASE /\ ~ OverlapsPublishedPatch(at[t]) /\ ~ CoversContinuationSite(at[t])
           /\ Goes(t, "publish") /\ UNCHANGED INSTALL_HELD
  <2>1. Original(Window(at[t]))
    <3> SUFFICES ASSUME NEW x \in Window(at[t]), code[x] # 0 PROVE FALSE
      BY Zenon DEF Original
    <3>1. /\ code[x] \in Sites \ {at[t]} /\ Footprint(code[x])
          /\ code[x] \in Nat /\ code[x] <= x /\ x < code[x] + WORD_PATCH_BYTES
          /\ x \in Nat /\ at[t] \in Nat /\ at[t] <= x /\ x < at[t] + WORD_PATCH_BYTES
      BY Zenon, <1>0, <1>2, WindowFacts
    <3>2. code[x] < at[t] + WORD_PATCH_BYTES /\ code[x] + WORD_PATCH_BYTES > at[t]
      BY <3>1 DEF WORD_PATCH_BYTES
    <3>3. QED BY Zenon, <1>5, <3>1, <3>2 DEF OverlapsPublishedPatch
  <2>2. at' = at /\ pc'[t] = "publish"
    BY Zenon, <1>5, GoesFacts
  <2>3. /\ StateOK(t)' /\ HoldsLock(t)' /\ ~ Torn(at[t]) /\ ~ Rests(t)'
        /\ "publish" \in Labels \ {"away"}
    BY Zenon, <1>0, <1>5, <2>2 DEF StateOK, HoldsLock, Intact, Undecided, Followers, Labels, Installers, Rests
  <2>4. WindowOK(t)'
    BY Zenon, <1>0, <2>1, <2>2 DEF WindowOK, Original
  <2>5. QED BY Zenon, <1>0, <1>5, <2>3, <2>4, QuietKeeps
<1>6. QED BY Zenon, <1>3, <1>4, <1>5 DEF CheckNeighbours

\* The adapter is entered over original code.
LEMMA CheckAdapterKeeps ==
    ASSUME PatchInv, NEW t \in Threads, CheckAdapter(t)
    PROVE  PatchInv'
<1>0. /\ StateOK(t) /\ at[t] \in Sites
      /\ INSTALL_HELD' = {} /\ SITE_JUMP_POSSIBLY_WRITTEN \in BOOLEAN
      /\ pc[t] = "checking" /\ pc[t] \in Holders
      /\ UNCHANGED slotVars /\ UNCHANGED <<state, code, SITE_JUMP_POSSIBLY_WRITTEN>>
  BY Zenon DEF PatchInv, Types, CheckAdapter, Holders, slotVars
<1>1. CASE Goes(t, "refused")
  <2>1. at' = at /\ pc'[t] = "refused"
    BY Zenon, <1>1, GoesFacts
  <2>2. StateOK(t)' /\ "refused" \notin Holders \cup Installers
    BY Zenon, <1>0, <2>1 DEF StateOK, Undecided, Followers, Holders, Installers
  <2>3. QED BY Zenon, <1>0, <1>1, <2>2, PlainKeeps
<1>2. CASE state[at[t]] = "UNPUBLISHED" /\ Original(Window(at[t])) /\ Goes(t, "returning")
  <2>1. code[at[t] + LengthOf[at[t]]] = 0 /\ at[t] # 0
    BY Zenon, <1>0, <1>2, WindowFacts DEF Original
  <2>2. ResumePointIsWhole(at[t]) /\ ~ Torn(at[t])
    BY Zenon, <2>1 DEF ResumePointIsWhole, Torn
  <2>3. at' = at /\ pc'[t] = "returning"
    BY Zenon, <1>2, GoesFacts
  <2>4. /\ StateOK(t)' /\ HoldsLock(t)' /\ WindowOK(t)'
        /\ "returning" \in Labels \ {"away"} /\ "returning" \notin Installers
    BY Zenon, <1>0, <1>2, <2>3 DEF StateOK, HoldsLock, WindowOK, Undecided, Followers, Holders,
                            Labels, Installers, Decided
  <2>5. QED BY Zenon, <1>0, <1>2, <2>2, <2>4, QuietKeeps
<1>3. QED BY Zenon, <1>1, <1>2 DEF CheckAdapter

-----------------------------------------------------------------------------
\* The bytes are compared, the length noted and an earlier patch looked for.
LEMMA CheckBytesKeeps ==
    ASSUME PatchInv, NEW t \in Threads, CheckBytes(t)
    PROVE  PatchInv'
<1>0. /\ StateOK(t) /\ HoldsLock(t) /\ at[t] \in Sites /\ TornOK(at[t])
      /\ INSTALL_HELD \subseteq Threads /\ SITE_JUMP_POSSIBLY_WRITTEN \in BOOLEAN
      /\ pc[t] = "bytes" /\ pc[t] \in Installers \cap Holders
      /\ UNCHANGED <<state, publication_attempted, words_recorded, SITE_JUMP_POSSIBLY_WRITTEN, code>>
  BY Zenon DEF PatchInv, Types, CheckBytes, Installers, Undecided, Holders
<1>1. CASE INSTALL_HELD' = {} /\ Goes(t, "touched") /\ UNCHANGED instruction_len
  <2>1. at' = at /\ pc'[t] = "touched"
    BY Zenon, <1>1, GoesFacts
  <2>2. StateOK(t)' /\ "touched" \notin Holders
    BY Zenon, <1>0, <2>1 DEF StateOK, Undecided, Followers, Holders
  <2>3. UNCHANGED slotVars
    BY Zenon, <1>0, <1>1 DEF slotVars
  <2>4. QED BY Zenon, <1>0, <1>1, <2>2, <2>3, PlainKeeps
<1>2. ASSUME NEW l \in {"touched", "neighbours"}, Goes(t, l),
             instruction_len' = [instruction_len EXCEPT ![at[t]] = LengthOf[at[t]]],
             INSTALL_HELD' \subseteq Threads,
             l = "neighbours" => ~ PatchSurvives(at[t]) /\ UNCHANGED INSTALL_HELD
      PROVE  PatchInv'
  <2>1. /\ at' = at /\ pc'[t] = l /\ \A u \in Threads \ {t} : pc'[u] = pc[u]
        /\ pc' \in [Threads -> Labels]
    BY Zenon, <1>2 DEF PatchInv, Types, Goes, Labels, Installers, Undecided
  <2>2. /\ instruction_len'[at[t]] = LengthOf[at[t]]
        /\ \A o \in Sites \ {at[t]} : instruction_len'[o] = instruction_len[o]
        /\ instruction_len' \in [Sites -> Nat]
    <3>1. instruction_len \in [Sites -> Nat] /\ LengthOf[at[t]] \in Nat
      BY <1>0, WindowFacts DEF PatchInv, Types
    <3>2. QED BY Zenon, <1>0, <1>2, <3>1
  <2>3. Types'
    BY Zenon, <1>0, <1>2, <2>1, <2>2 DEF PatchInv, Types
  <2>4. Local(t)
    BY Zenon, <1>0, <2>1, <2>2 DEF Local
  <2>5. ~ Rests(t)' /\ Torn(at[t])' = Torn(at[t])
    BY Zenon, <1>0, <1>2, <2>1 DEF Rests, Torn
  <2>6. Justified(t)
    BY Zenon, <1>0, <1>2, <2>1, <2>5 DEF Justified
  <2>7. HoldsLock(t)' /\ StateOK(t)'
    BY Zenon, <1>0, <1>2, <2>1 DEF HoldsLock, StateOK, Undecided, Followers, Holders
  <2>8. l = "neighbours" => \A x \in Window(at[t]) : code[x] # at[t]
    <3> SUFFICES ASSUME l = "neighbours", NEW x \in Window(at[t]), code[x] = at[t] PROVE FALSE
      OBVIOUS
    <3>1. x \in Bytes /\ at[t] # 0
      BY Zenon, <1>0, WindowFacts
    <3>2. publication_attempted[at[t]]
      BY Zenon, <3>1 DEF PatchInv, CodeInv
    <3>3. QED BY Zenon, <1>2, <3>2 DEF PatchSurvives
  <2>9. WindowOK(t)'
    BY Zenon, <1>0, <1>2, <2>1, <2>2, <2>8 DEF WindowOK
  <2>10. Intact(t)'
    BY Zenon, <1>0, <1>2, <2>1, <2>5, <2>8, WindowFacts DEF Intact, Torn
  <2>11. TornOK(at[t])'
    <3>1. Writing(at[t]) => Writing(at[t])'
      BY Zenon, <1>0, <2>1 DEF Writing
    <3>2. QED BY Zenon, <1>0, <2>1, <2>5, <3>1 DEF TornOK
  <2>12. QED BY ZenonT(30), <1>0, <2>3, <2>4, <2>6, <2>7, <2>9, <2>10, <2>11, LocalKeeps
<1>3. QED BY Zenon, <1>0, <1>1, <1>2 DEF CheckBytes

\* The attempt is noted.
LEMMA AttemptKeeps ==
    ASSUME PatchInv, NEW t \in Threads, Attempt(t)
    PROVE  PatchInv'
<1>0. /\ StateOK(t) /\ HoldsLock(t) /\ WindowOK(t) /\ at[t] \in Sites
      /\ pc[t] = "publish" /\ pc[t] \in Installers \cap Holders /\ Goes(t, "write")
      /\ UNCHANGED <<state, instruction_len, INSTALL_HELD, SITE_JUMP_POSSIBLY_WRITTEN, code>>
      /\ publication_attempted' = [publication_attempted EXCEPT ![at[t]] = TRUE]
      /\ words_recorded' = [words_recorded EXCEPT ![at[t]] = FALSE]
  BY Zenon DEF PatchInv, Types, Attempt, Installers, Undecided, Holders, lockVars
<1>1. /\ at' = at /\ pc'[t] = "write" /\ \A u \in Threads \ {t} : pc'[u] = pc[u]
      /\ pc' \in [Threads -> Labels]
  BY Zenon, <1>0 DEF PatchInv, Types, Goes, Labels, Installers, Undecided
<1>2. /\ publication_attempted'[at[t]]
      /\ \A o \in Sites \ {at[t]} : /\ publication_attempted'[o] = publication_attempted[o]
                                   /\ words_recorded'[o] = words_recorded[o]
  BY Zenon, <1>0 DEF PatchInv, Types
<1>3. Types'
  BY Zenon, <1>0, <1>1 DEF PatchInv, Types
<1>4. Local(t)
  BY Zenon, <1>0, <1>1, <1>2 DEF Local
<1>5. ~ Rests(t)' /\ ~ Torn(at[t])'
  BY Zenon, <1>0, <1>1, WindowFacts DEF Rests, Torn, WindowOK
<1>6. Justified(t)
  BY Zenon, <1>0, <1>1, <1>5 DEF Justified
<1>7. HoldsLock(t)' /\ StateOK(t)'
  BY Zenon, <1>0, <1>1 DEF HoldsLock, StateOK, Undecided, Followers, Holders
<1>8. WindowOK(t)'
  BY Zenon, <1>0, <1>1, <1>2 DEF WindowOK, Original
<1>9. Intact(t)' /\ TornOK(at[t])'
  BY Zenon, <1>1, <1>5 DEF Intact, TornOK
<1>10. QED BY Zenon, <1>0, <1>3, <1>4, <1>6, <1>7, <1>8, <1>9, LocalKeeps

\* The jump is written, or is not.
LEMMA ActivateKeeps ==
    ASSUME PatchInv, NEW t \in Threads, Activate(t)
    PROVE  PatchInv'
<1>0. /\ StateOK(t) /\ HoldsLock(t) /\ WindowOK(t) /\ at[t] \in Sites
      /\ INSTALL_HELD \subseteq Threads /\ SITE_JUMP_POSSIBLY_WRITTEN \in BOOLEAN
      /\ pc[t] = "write" /\ pc[t] \in Installers \cap Holders
      /\ UNCHANGED slotVars /\ UNCHANGED <<INSTALL_HELD, SITE_JUMP_POSSIBLY_WRITTEN>>
      /\ UNCHANGED <<state, publication_attempted, words_recorded, instruction_len>>
  BY Zenon DEF PatchInv, Types, Activate, Installers, Undecided, Holders, slotVars
<1>1. CASE UNCHANGED code /\ Goes(t, "failing")
  <2>1. at' = at /\ pc'[t] = "failing"
    BY Zenon, <1>1, GoesFacts
  <2>2. StateOK(t)' /\ INSTALL_HELD' = {t}
    BY Zenon, <1>0, <2>1 DEF StateOK, Undecided, Followers, HoldsLock
  <2>3. QED BY Zenon, <1>0, <1>1, <2>2, PlainKeeps
<1>2. ASSUME NEW l \in {"written", "failing"}, Goes(t, l), code' = Jumped(at[t])
      PROVE  PatchInv'
  <2>1. /\ at' = at /\ pc'[t] = l /\ \A u \in Threads \ {t} : pc'[u] = pc[u]
        /\ pc' \in [Threads -> Labels]
    BY Zenon, <1>2 DEF PatchInv, Types, Goes, Labels, Installers, Undecided
  <2>2. code' \in [Bytes -> {0} \cup Sites] /\ code'[at[t]] = at[t]
    BY Zenon, <1>0, <1>2, WindowFacts DEF PatchInv, Types, Jumped
  <2>3. Types'
    BY Zenon, <1>0, <2>1, <2>2 DEF PatchInv, Types
  <2>4. Local(t)
    BY Zenon, <1>0, <1>2, <2>1 DEF Local
  <2>5. ~ Rests(t)'
    BY Zenon, <1>2, <2>1 DEF Rests
  <2>6. Justified(t)
    BY Zenon, <1>0, <1>2, <2>1, <2>5 DEF Justified
  <2>7. HoldsLock(t)' /\ StateOK(t)'
    BY Zenon, <1>0, <1>2, <2>1 DEF HoldsLock, StateOK, Undecided, Followers
  <2>8. WindowOK(t)' /\ Intact(t)'
    BY Zenon, <1>2, <2>1, <2>2, <2>5 DEF WindowOK, Intact
  <2>9. TornOK(at[t])'
    <3>1. Writing(at[t])' /\ state'[at[t]] = "INSTALLING"
      BY Zenon, <1>0, <1>2, <2>1 DEF Writing, StateOK, Undecided
    <3>2. QED BY Zenon, <2>1, <3>1 DEF TornOK
  <2>10. QED BY Zenon, <1>0, <2>3, <2>4, <2>6, <2>7, <2>8, <2>9, LocalKeeps
<1>3. QED BY Zenon, <1>1, <1>2 DEF Activate

\* A completed publication is recorded.
LEMMA RecordKeeps ==
    ASSUME PatchInv, NEW t \in Threads, Record(t)
    PROVE  PatchInv'
<1>0. /\ StateOK(t) /\ at[t] \in Sites
      /\ pc[t] = "written" /\ pc[t] \in Installers \cap Holders /\ Goes(t, "installed")
      /\ UNCHANGED <<publication_attempted, instruction_len, SITE_JUMP_POSSIBLY_WRITTEN, code>>
      /\ INSTALL_HELD' = {} /\ state' = [state EXCEPT ![at[t]] = "ACTIVE"]
      /\ words_recorded' = [words_recorded EXCEPT ![at[t]] = TRUE]
  BY Zenon DEF PatchInv, Types, Record, Installers, Undecided, Holders
<1>1. /\ at' = at /\ pc'[t] = "installed" /\ \A u \in Threads \ {t} : pc'[u] = pc[u]
      /\ pc' \in [Threads -> Labels]
  BY Zenon, <1>0 DEF PatchInv, Types, Goes, Labels, Installers
<1>2. /\ state'[at[t]] = "ACTIVE" /\ words_recorded'[at[t]] /\ state' \in [Sites -> States]
      /\ \A o \in Sites \ {at[t]} : state'[o] = state[o] /\ words_recorded'[o] = words_recorded[o]
  BY Zenon, <1>0 DEF PatchInv, Types, States, Decided
<1>3. Types'
  BY <1>0, <1>1, <1>2 DEF PatchInv, Types
<1>4. Local(t)
  <2>1. state[at[t]] \notin Decided /\ state'[at[t]] \in Decided
    BY Zenon, <1>0, <1>2 DEF StateOK, Undecided, Decided
  <2>2. QED BY Zenon, <1>0, <1>1, <1>2, <2>1 DEF Local
<1>5. ~ Rests(t)' /\ ~ Torn(at[t])'
  BY Zenon, <1>1, <1>2 DEF Rests, Torn
<1>6. Justified(t)
  BY Zenon, <1>0, <1>1, <1>2, <1>5 DEF Justified
<1>7. HoldsLock(t)' /\ StateOK(t)' /\ WindowOK(t)' /\ Intact(t)' /\ TornOK(at[t])'
  BY Zenon, <1>1, <1>2, <1>5 DEF HoldsLock, StateOK, WindowOK, Intact, TornOK, Undecided, Followers, Holders
<1>8. QED BY Zenon, <1>0, <1>3, <1>4, <1>6, <1>7, LocalKeeps

-----------------------------------------------------------------------------
LEMMA PatchNextInv ==
    ASSUME Room, PatchInv, [PatchNext]_pVars
    PROVE  PatchInv'
<1>1. ASSUME NEW t \in Threads, Handler(t) PROVE PatchInv'
  <2>1. CASE ClaimSite(t)
    BY Zenon, <2>1, ClaimKeeps
  <2>2. CASE StoreInstalling(t) \/ InstallUnpublished(t) \/ PlanFails(t) \/ FallBackWritten(t) \/ Declare(t)
    BY Zenon, <2>2, InstallerStores
  <2>3. CASE EnableNative(t) \/ LockInstallation(t) \/ FlagWritten(t) \/ InstructionInstalled(t) \/ EnterAdapter(t)
    BY Zenon, <2>3, PlainSteps
  <2>4. CASE FaultingFails(t) \/ EndGuest(t)
    BY Zenon, <2>4, EndKeeps DEF FaultingFails, EndGuest
  <2>5. CASE CheckBytes(t)
    BY Zenon, <2>5, CheckBytesKeeps
  <2>6. CASE CheckNeighbours(t)
    BY Zenon, <2>6, CheckNeighboursKeeps
  <2>7. CASE Attempt(t)
    BY <2>7, AttemptKeeps
  <2>8. CASE Activate(t)
    BY <2>8, ActivateKeeps
  <2>9. CASE Record(t)
    BY <2>9, RecordKeeps
  <2>10. CASE RestoreFaulting(t)
    BY <2>10, RestoreKeeps
  <2>11. CASE WaitInstruction(t) \/ WaitSyscall(t) \/ LookActive(t) \/ LookUnpublished(t)
    BY Zenon, <2>11, WaitKeeps
  <2>12. CASE CheckAdapter(t)
    BY <2>12, CheckAdapterKeeps
  <2>13. QED
    BY ZenonT(30), <1>1, <2>1, <2>2, <2>3, <2>4, <2>5, <2>6, <2>7, <2>8, <2>9, <2>10, <2>11, <2>12 DEF Handler
<1>2. ASSUME NEW t \in Threads, Leave(t) PROVE PatchInv'
  BY <1>2, LeaveKeeps
<1>3. ASSUME NEW t \in Threads, NEW s \in Sites, Trap(t, s) PROVE PatchInv'
  BY Zenon, <1>3, TrapKeeps
<1>4. ASSUME NEW r \in Regions, Remap(r) PROVE PatchInv'
  BY <1>4, RemapKeeps
<1>5. CASE UNCHANGED pVars
  BY Zenon, <1>5, EndKeeps DEF pVars, slotVars, lockVars
<1>6. QED BY Zenon, <1>1, <1>2, <1>3, <1>4, <1>5 DEF PatchNext

LEMMA PatchInvSafe == PatchInv => PatchesAreSafe
<1> SUFFICES ASSUME PatchInv PROVE PatchesAreSafe
  OBVIOUS
<1>1. PatchTypeOK
  <2>1. \A s \in Sites : state[s] \in States
    BY Zenon DEF PatchInv, Types
  <2>2. INSTALL_HELD \in SUBSET Threads /\ code \in [Bytes -> {0} \cup Sites]
    BY Zenon DEF PatchInv, Types
  <2>3. {0} \cup Sites \subseteq Nat /\ at \in [Threads -> {0} \cup Sites]
    BY SitesAssumption DEF PatchInv, Types
  <2>4. at \in [Threads -> Nat]
    BY Zenon, <2>3
  <2>5. QED BY Zenon, <2>1, <2>2, <2>4 DEF PatchTypeOK, States, Decided
<1>2. EmulationIsUntouched
  <2> SUFFICES ASSUME NEW t \in Threads,
                      (pc[t] = "declined" /\ at[t] \notin SyscallSites) \/ pc[t] = "returning"
               PROVE  ResumePointIsWhole(at[t])
    BY Zenon DEF EmulationIsUntouched
  <2>1. at[t] \in Sites /\ Settled(at[t])
    BY Zenon DEF PatchInv, Types, StateOK, Settled, Rests
  <2>2. QED BY Zenon, <2>1 DEF PatchInv, WholeInv
<1>3. FailureEndsGuest
  BY Zenon DEF PatchInv, Intact, Torn, FailureEndsGuest
<1>4. QED BY Zenon, <1>1, <1>2, <1>3 DEF PatchesAreSafe, PatchInv

\* Only a publication writes jumps, over original code, and only a mapping
\* call takes them away.
LEMMA BytesStay ==
    ASSUME PatchInv, [PatchNext]_pVars, NEW x \in Bytes, code[x] # 0
    PROVE  code'[x] \in {0, code[x]}
<1>1. CASE UNCHANGED code
  BY Zenon, <1>1
<1>2. ASSUME NEW r \in Regions, Remap(r) PROVE code'[x] \in {0, code[x]}
  BY Zenon, <1>2 DEF Remap
<1>3. ASSUME NEW t \in Threads, Activate(t) PROVE code'[x] \in {0, code[x]}
  <2>1. \A y \in Window(at[t]) : code[y] = 0
    BY Zenon, <1>3 DEF Activate, PatchInv, WindowOK, Original
  <2>2. QED BY Zenon, <1>3, <2>1 DEF Activate, Jumped
<1>4. ASSUME NEW t \in Threads, Handler(t), ~ Activate(t) PROVE UNCHANGED code
  <2>1. CASE ClaimSite(t) \/ StoreInstalling(t) \/ EnableNative(t) \/ FaultingFails(t) \/ LockInstallation(t)
    BY Zenon, <2>1 DEF ClaimSite, StoreInstalling, EnableNative, FaultingFails, LockInstallation, lockVars
  <2>2. CASE CheckBytes(t) \/ CheckNeighbours(t) \/ InstallUnpublished(t) \/ Attempt(t) \/ PlanFails(t)
    BY Zenon, <2>2 DEF CheckBytes, CheckNeighbours, InstallUnpublished, Attempt, PlanFails, lockVars
  <2>3. CASE FlagWritten(t) \/ FallBackWritten(t) \/ EndGuest(t) \/ Record(t) \/ Declare(t)
    BY Zenon, <2>3 DEF FlagWritten, FallBackWritten, EndGuest, Record, Declare, lockVars
  <2>4. CASE InstructionInstalled(t) \/ RestoreFaulting(t) \/ WaitInstruction(t) \/ WaitSyscall(t)
    BY Zenon, <2>4 DEF InstructionInstalled, RestoreFaulting, WaitInstruction, WaitSyscall, lockVars
  <2>5. CASE LookActive(t) \/ LookUnpublished(t) \/ EnterAdapter(t) \/ CheckAdapter(t)
    BY Zenon, <2>5 DEF LookActive, LookUnpublished, EnterAdapter, CheckAdapter, lockVars
  <2>6. QED BY Zenon, <1>4, <2>1, <2>2, <2>3, <2>4, <2>5 DEF Handler
<1>5. ASSUME NEW t \in Threads, Leave(t) \/ \E s \in Sites : Trap(t, s) PROVE UNCHANGED code
  BY Zenon, <1>5 DEF Leave, Trap, lockVars
<1>6. UNCHANGED pVars => UNCHANGED code
  BY Zenon DEF pVars
<1>7. QED BY Zenon, <1>1, <1>2, <1>3, <1>4, <1>5, <1>6 DEF PatchNext

LEMMA PatchInvariant == Room /\ PatchSpec => []PatchInv
<1>1. Room /\ PatchInv /\ [PatchNext]_pVars => PatchInv'
  BY Zenon, PatchNextInv
<1>2. SUFFICES ASSUME Room PROVE PatchSpec => []PatchInv
  OBVIOUS
<1>3. PatchInv /\ [PatchNext]_pVars => PatchInv'
  BY Zenon, <1>1, <1>2
<1>4. QED BY <1>3, PatchInitInv, PTL DEF PatchSpec

\* Wherever the sites are and however many threads trap, fail, wait and remap:
\* what publish_patch, check_neighbours and the failure paths decide of a site
\* is true of its code.  A thread that emulates an instruction or returns from
\* an adapter has whole code before it, no waiter takes a half-written jump for
\* an untouched site, and an active site has its jump.
THEOREM DecisionsAreTrue == Room /\ PatchSpec => []PatchesAreSafe
BY PatchInvariant, PatchInvSafe, PTL

\* No publication overwrites a byte of another's jump, nor of an earlier one of
\* its own: what check_neighbours and slot_patch_survives saw under the lock
\* still holds when the jump is written.
THEOREM JumpsAreKept == Room /\ PatchSpec => JumpsStay
<1>1. PatchInv /\ [PatchNext]_pVars =>
        [\A x \in Bytes : code[x] # 0 => code'[x] \in {0, code[x]}]_pVars
  BY Zenon, BytesStay
<1>2. QED BY <1>1, PatchInvariant, PTL DEF PatchSpec, JumpsStay


-----------------------------------------------------------------------------
(***************************************************************************)
(* The registry of exec tickets and the exec that uses it, for every table *)
(* size, snapshot and state bound and every set of owners and connections. *)
(* Each call changes the record of one ticket (died: of the live ones), so *)
(* the registry's invariant is taken apart into what it says of one ticket *)
(* and SingleLive, the only part that relates two.  The driver's adds which *)
(* ticket may be live at each point of its conversation.                   *)
(***************************************************************************)

\* A step that replaces the record of ticket t by r, and raises the counter
\* only past t, keeps the invariant if r is sound and not newly live.
LEMMA OneRecord ==
    ASSUME RegistryInv, ~dead, dead' = FALSE, terminal_failure' \in BOOLEAN,
           NEW t \in Tickets, NEW r, NEW h \in Nat,
           transitions' = [transitions EXCEPT ![t] = r],
           handed' = [handed EXCEPT ![t] = h],
           next_ticket' = next_ticket \/ (next_ticket' = next_ticket + 1 /\ t = next_ticket),
           Sound(r, h, FALSE), r.stage # "None",
           \/ live(r.stage) => live(transitions[t].stage)
           \/ \A u \in Tickets : ~live(transitions[u].stage),
           t < next_ticket \/ next_ticket' = next_ticket + 1
    PROVE  RegistryInv'
<1>1. r \in Transition
  BY Zenon DEF Sound
<1>2. next_ticket \in Nat /\ MaxTransitions \in Nat /\ t \in Nat /\ t <= MaxTransitions
  BY BoundsAssumption DEF RegistryInv, Counted, Tickets
<1>3. Counted'
  <2>1. next_ticket' \in 1 .. MaxTransitions + 1
    BY <1>2 DEF RegistryInv, Counted
  <2>2. transitions' \in [Tickets -> Transition] /\ handed' \in [Tickets -> Nat]
    BY Zenon, <1>1 DEF RegistryInv, Counted
  <2> QED BY ZenonT(60), <2>1, <2>2 DEF Counted
<1>4. \A u \in Tickets : u # t => transitions'[u] = transitions[u] /\ handed'[u] = handed[u]
  BY Zenon DEF RegistryInv, Counted
<1>5. transitions'[t] = r /\ handed'[t] = h
  BY Zenon DEF RegistryInv, Counted
<1>6. SingleLive'
  BY ZenonT(30), <1>4, <1>5 DEF RegistryInv, SingleLive
<1>7. AllSound'
  <2> SUFFICES ASSUME NEW u \in Tickets
               PROVE  Sound(transitions'[u], handed'[u], u >= next_ticket')
    BY Zenon DEF AllSound
  <2>1. CASE u = t
    <3>1. ~(t >= next_ticket')
      BY <1>2
    <3> QED BY Zenon, <2>1, <3>1, <1>5 DEF Sound
  <2>2. CASE u # t
    <3>1. u \in Nat
      BY DEF Tickets
    <3>2. u >= next_ticket' => u >= next_ticket
      BY <3>1, <1>2
    <3>3. Sound(transitions[u], handed[u], u >= next_ticket)
      BY Zenon DEF RegistryInv, AllSound
    <3> QED BY Zenon, <2>2, <1>4, <3>2, <3>3 DEF Sound
  <2> QED BY Zenon, <2>1, <2>2
<1> QED BY Zenon, <1>3, <1>6, <1>7 DEF RegistryInv

\* Updating the record of t field by field is replacing it, and a function
\* that does not change is one whose value at t is replaced by itself.
LEMMA Replaced ==
    ASSUME RegistryInv, NEW t \in Tickets
    PROVE  /\ \A st : [transitions EXCEPT ![t].stage = st] =
                        [transitions EXCEPT ![t] = [transitions[t] EXCEPT !.stage = st]]
           /\ handed = [handed EXCEPT ![t] = handed[t]]
           /\ transitions[t] \in Transition /\ handed[t] \in Nat
           /\ Sound(transitions[t], handed[t], t >= next_ticket)
           /\ transitions[t].stage # "None" => t < next_ticket
           /\ live(transitions[t].stage) => ~dead
           /\ next_ticket \in Nat /\ t \in Nat
<1>1. handed = [handed EXCEPT ![t] = handed[t]]
  BY Zenon DEF RegistryInv, Counted
<1>2. Sound(transitions[t], handed[t], t >= next_ticket)
  BY Zenon DEF RegistryInv, AllSound
<1>3. next_ticket \in Nat /\ t \in Nat
  BY BoundsAssumption DEF RegistryInv, Counted, Tickets
<1>4. transitions[t].stage # "None" => t < next_ticket
  BY <1>2, <1>3 DEF Sound, NoTransition
<1>5. live(transitions[t].stage) => ~dead
  BY Zenon DEF RegistryInv, Counted
<1> QED BY Zenon, <1>1, <1>2, <1>3, <1>4, <1>5 DEF RegistryInv, Counted

\* Erasing a live record leaves a sound one.
LEMMA EraseSound ==
    ASSUME NEW r \in Transition, NEW h \in Nat, NEW st \in {"Cancelled", "Failed", "Dead"},
           Sound(r, h, FALSE), live(r.stage),
           st = "Cancelled" => r.stage # "Redeemed"
    PROVE  /\ Sound(Erase(r, st), h, FALSE)
           /\ Erase(r, st).stage = st
<1>1. /\ Erase(r, st).stage = st /\ Erase(r, st).tool = 0 /\ Erase(r, st).state = NoState
      /\ Erase(r, st) \in Transition
  BY ZenonT(60) DEF Erase, Transition, NoState, Stages
<1> QED BY Zenon, <1>1 DEF Sound, live

LEMMA PrepareInv ==
    ASSUME RegistryInv, NEW o, NEW b, NEW s, NEW d, NEW q, Prepare(o, b, s, d, q)
    PROVE  RegistryInv'
<1> DEFINE r == [NoTransition EXCEPT !.stage = "Prepared", !.tool = s]
<1>1. next_ticket \in Tickets
  BY BoundsAssumption DEF Prepare, PrepareOk, RegistryInv, Counted, Tickets
<1>2. s \in Nat
  BY BoundsAssumption DEF Prepare, PrepareOk
<1>3. /\ r.stage = "Prepared" /\ r.tool = s /\ r.state = NoState /\ r.state_digest = NoState
      /\ r \in Transition
  BY ZenonT(60), <1>2 DEF NoTransition, Transition, NoState, Stages
<1>4. transitions[next_ticket] = NoTransition /\ handed[next_ticket] = 0
  <2>1. Sound(transitions[next_ticket], handed[next_ticket], TRUE)
    BY <1>1, Replaced DEF Sound
  <2> QED BY <2>1 DEF Sound, NoTransition
<1> HIDE DEF r
<1>5. Sound(r, 0, FALSE)
  BY <1>3 DEF Sound, live
<1>6. /\ transitions' = [transitions EXCEPT ![next_ticket] = r]
      /\ handed' = [handed EXCEPT ![next_ticket] = 0]
      /\ next_ticket' = next_ticket + 1
      /\ ~dead /\ dead' = FALSE /\ terminal_failure' \in BOOLEAN
      /\ \A u \in Tickets : ~live(transitions[u].stage)
  BY Zenon, <1>1, <1>4, Replaced DEF Prepare, PrepareOk, check_owner, r, RegistryInv, Counted
<1> QED BY ZenonT(60), <1>1, <1>3, <1>5, <1>6, OneRecord

LEMMA SealInv ==
    ASSUME RegistryInv, NEW o, NEW t, NEW n, NEW d, NEW q, Seal(o, t, n, d, q)
    PROVE  RegistryInv'
<1> DEFINE snapshot == <<transitions[t].tool, n>>
           r == [transitions[t] EXCEPT !.tool = 0, !.state = snapshot, !.state_digest = snapshot]
<1>1. /\ t \in Tickets /\ transitions[t].stage = "Prepared" /\ n \in 1 .. MaxState
      /\ transitions[t].tool + n <= MaxState /\ ~dead
  BY Zenon DEF Seal, SealOk, transaction, check_owner
<1>2. transitions[t] \in Transition /\ n \in Nat /\ transitions[t].tool \in Nat
  BY <1>1, Replaced, BoundsAssumption DEF Transition
<1>3. /\ snapshot \in Nat \X Nat /\ snapshot # NoState
      /\ snapshot[1] + snapshot[2] \in 1 .. MaxState
  BY <1>1, <1>2, BoundsAssumption DEF NoState
<1> HIDE DEF snapshot
<1>4. /\ r.stage = "Prepared" /\ r.tool = 0 /\ r.state = snapshot /\ r.state_digest = snapshot
      /\ r \in Transition
  BY ZenonT(60), <1>1, <1>2, <1>3 DEF Transition
<1>5. handed[t] = 0
  BY Zenon, <1>1, Replaced DEF Sound
<1>6. /\ transitions' = [transitions EXCEPT ![t] = r]
      /\ next_ticket' = next_ticket /\ handed' = [handed EXCEPT ![t] = 0]
      /\ dead' = FALSE /\ terminal_failure' \in BOOLEAN
  BY ZenonT(60), <1>1, <1>5, Replaced DEF Seal, RegistryInv, Counted, snapshot
<1> HIDE DEF r
<1>7. Sound(r, 0, FALSE)
  BY <1>3, <1>4 DEF Sound, live
<1>8. t < next_ticket /\ (live(r.stage) => live(transitions[t].stage)) /\ r.stage # "None"
  BY Zenon, <1>1, <1>4, Replaced DEF live
<1> QED BY ZenonT(60), <1>1, <1>6, <1>7, <1>8, OneRecord

\* Moving a live ticket of the invariant forward to a sound live record, or
\* to completion.
LEMMA StageInv ==
    ASSUME RegistryInv, NEW t \in Tickets, NEW r, NEW h \in Nat,
           transitions[t].stage # "None", ~dead,
           live(transitions[t].stage),
           transitions' = [transitions EXCEPT ![t] = r],
           handed' = [handed EXCEPT ![t] = h],
           UNCHANGED <<next_ticket, dead>>, terminal_failure' \in BOOLEAN,
           Sound(r, h, FALSE), r.stage # "None"
    PROVE  RegistryInv'
<1>1. t < next_ticket /\ dead' = FALSE /\ next_ticket' = next_ticket
  BY Zenon, Replaced DEF RegistryInv, Counted
<1> QED BY ZenonT(60), <1>1, OneRecord

LEMMA MarkInv ==
    ASSUME RegistryInv, NEW o, NEW t, mark_provision_delivered(o, t)
    PROVE  RegistryInv'
<1> DEFINE r == [transitions[t] EXCEPT !.delivered = TRUE]
<1>1. t \in Tickets /\ transitions[t].stage = "Prepared" /\ ~dead
  BY Zenon DEF mark_provision_delivered, MarkOk, transaction, check_owner
<1>2. transitions[t] \in Transition /\ Sound(transitions[t], handed[t], FALSE) /\ handed[t] \in Nat
  BY Zenon, <1>1, Replaced DEF Sound
<1>3. /\ r \in Transition /\ r.stage = transitions[t].stage /\ r.tool = transitions[t].tool
      /\ r.state = transitions[t].state /\ r.state_digest = transitions[t].state_digest
  BY ZenonT(60), <1>2 DEF Transition
<1>4. /\ transitions' = [transitions EXCEPT ![t] = r]
      /\ handed' = [handed EXCEPT ![t] = handed[t]]
      /\ UNCHANGED <<next_ticket, dead>> /\ terminal_failure' \in BOOLEAN
  BY Zenon, <1>1, Replaced DEF mark_provision_delivered, RegistryInv, Counted
<1> HIDE DEF r
<1>5. Sound(r, handed[t], FALSE)
  BY Zenon, <1>2, <1>3 DEF Sound
<1> QED BY ZenonT(60), <1>1, <1>2, <1>3, <1>4, <1>5, StageInv DEF live

LEMMA IssueInv ==
    ASSUME RegistryInv, NEW o, NEW t, NEW d, issue(o, t, d)
    PROVE  RegistryInv'
<1> DEFINE r == [transitions[t] EXCEPT !.stage = "Issued"]
<1>1. /\ t \in Tickets /\ transitions[t].stage = "Prepared" /\ ~dead
      /\ transitions[t].state_digest # NoState
  BY Zenon DEF issue, IssueOk, transaction, check_owner
<1>2. transitions[t] \in Transition /\ Sound(transitions[t], handed[t], FALSE) /\ handed[t] \in Nat
  BY Zenon, <1>1, Replaced DEF Sound
<1>3. /\ r \in Transition /\ r.stage = "Issued" /\ r.tool = transitions[t].tool
      /\ r.state = transitions[t].state /\ r.state_digest = transitions[t].state_digest
  BY Zenon, <1>2 DEF Transition, Stages
<1>4. /\ transitions' = [transitions EXCEPT ![t] = r]
      /\ handed' = [handed EXCEPT ![t] = handed[t]]
      /\ UNCHANGED <<next_ticket, dead>> /\ terminal_failure' \in BOOLEAN
  BY Zenon, <1>1, Replaced DEF issue, RegistryInv, Counted
<1> HIDE DEF r
<1>5. Sound(r, handed[t], FALSE)
  BY Zenon, <1>1, <1>2, <1>3 DEF Sound, live
<1> QED BY ZenonT(60), <1>1, <1>2, <1>3, <1>4, <1>5, StageInv DEF live

LEMMA RedeemInv ==
    ASSUME RegistryInv, NEW p, NEW t, NEW c, NEW d, Redeem(p, t, c, d)
    PROVE  RegistryInv'
<1> DEFINE r == [transitions[t] EXCEPT !.stage = "Redeemed", !.state = NoState]
<1>1. t \in Tickets /\ transitions[t].stage = "Issued" /\ ~dead
  BY Zenon DEF Redeem, check_owner
<1>2. transitions[t] \in Transition /\ Sound(transitions[t], handed[t], FALSE) /\ handed[t] \in Nat
  BY Zenon, <1>1, Replaced DEF Sound
<1>3. transitions[t].tool = 0 /\ handed[t] = 0
  BY Zenon, <1>1, <1>2 DEF Sound
<1>4. /\ r \in Transition /\ r.stage = "Redeemed" /\ r.tool = 0
      /\ r.state = NoState /\ r.state_digest = transitions[t].state_digest
  BY ZenonT(60), <1>2, <1>3 DEF Transition, Stages, NoState
<1>5. /\ transitions' = [transitions EXCEPT ![t] = r]
      /\ handed' = [handed EXCEPT ![t] = 1]
      /\ UNCHANGED <<next_ticket, dead>> /\ terminal_failure' \in BOOLEAN
  <2>1. transitions' = [transitions EXCEPT ![t] = r]
    BY ZenonT(60), <1>1 DEF Redeem, RegistryInv, Counted
  <2>2. handed' = [handed EXCEPT ![t] = 1]
    BY <1>1, <1>3 DEF Redeem
  <2> QED BY ZenonT(60), <2>1, <2>2 DEF Redeem, RegistryInv, Counted
<1> HIDE DEF r
<1>6. Sound(r, 1, FALSE)
  BY <1>1, <1>4 DEF Sound, live
<1> QED BY ZenonT(60), <1>1, <1>4, <1>5, <1>6, StageInv DEF live

LEMMA CancelInv ==
    ASSUME RegistryInv, NEW o, NEW t, cancel(o, t)
    PROVE  RegistryInv'
<1>1. t \in Tickets /\ transitions[t].stage \in {"Prepared", "Issued"} /\ ~dead
  BY Zenon DEF cancel, CancelOk, transaction, check_owner
<1>2. transitions[t] \in Transition /\ Sound(transitions[t], handed[t], FALSE) /\ handed[t] \in Nat
  BY Zenon, <1>1, Replaced DEF Sound
<1>3. /\ Sound(Erase(transitions[t], "Cancelled"), handed[t], FALSE)
      /\ Erase(transitions[t], "Cancelled").stage = "Cancelled"
  BY ZenonT(60), <1>1, <1>2, EraseSound DEF live
<1>4. /\ transitions' = [transitions EXCEPT ![t] = Erase(transitions[t], "Cancelled")]
      /\ handed' = [handed EXCEPT ![t] = handed[t]]
      /\ UNCHANGED <<next_ticket, dead>> /\ terminal_failure' \in BOOLEAN
  BY Zenon, <1>1, Replaced DEF cancel, RegistryInv, Counted
<1> QED BY ZenonT(60), <1>1, <1>2, <1>3, <1>4, StageInv DEF live

LEMMA FailedInv ==
    ASSUME RegistryInv, NEW t, failed(t)
    PROVE  RegistryInv'
<1>1. t \in Tickets /\ live(transitions[t].stage)
  BY Zenon DEF failed
<1>2. /\ transitions[t] \in Transition /\ Sound(transitions[t], handed[t], FALSE)
      /\ handed[t] \in Nat /\ ~dead
  BY Zenon, <1>1, Replaced DEF Sound
<1>3. /\ Sound(Erase(transitions[t], "Failed"), handed[t], FALSE)
      /\ Erase(transitions[t], "Failed").stage = "Failed"
  BY ZenonT(60), <1>1, <1>2, EraseSound
<1>4. /\ transitions' = [transitions EXCEPT ![t] = Erase(transitions[t], "Failed")]
      /\ handed' = [handed EXCEPT ![t] = handed[t]]
      /\ UNCHANGED <<next_ticket, dead>> /\ terminal_failure' \in BOOLEAN
  BY Zenon, <1>1, Replaced DEF failed
<1> QED BY ZenonT(60), <1>1, <1>2, <1>3, <1>4, StageInv DEF live

LEMMA CompleteInv ==
    ASSUME RegistryInv, NEW o, NEW t, NEW q \in BOOLEAN, complete(o, t, q)
    PROVE  RegistryInv'
<1> DEFINE r == [transitions[t] EXCEPT !.stage = "Completed"]
<1>1. t \in Tickets /\ transitions[t].stage = "Redeemed" /\ ~dead
  BY Zenon DEF complete, transaction, check_owner
<1>2. CASE q
  <2>1. transitions[t] \in Transition /\ Sound(transitions[t], handed[t], FALSE) /\ handed[t] \in Nat
    BY Zenon, <1>1, Replaced DEF Sound
  <2>2. /\ r \in Transition /\ r.stage = "Completed" /\ r.tool = transitions[t].tool
        /\ r.state = transitions[t].state /\ r.state_digest = transitions[t].state_digest
    BY Zenon, <2>1 DEF Transition, Stages
  <2>3. /\ transitions' = [transitions EXCEPT ![t] = r]
        /\ handed' = [handed EXCEPT ![t] = handed[t]]
        /\ UNCHANGED <<next_ticket, dead>> /\ terminal_failure' \in BOOLEAN
    BY Zenon, <1>1, <1>2, Replaced DEF complete, RegistryInv, Counted
  <2> HIDE DEF r
  <2>4. Sound(r, handed[t], FALSE)
    BY Zenon, <1>1, <2>1, <2>2 DEF Sound, live
  <2> QED BY ZenonT(60), <1>1, <2>1, <2>2, <2>3, <2>4, StageInv DEF live
<1>3. CASE ~q
  BY Zenon, <1>3, FailedInv DEF complete
<1> QED BY Zenon, <1>2, <1>3

LEMMA DiedInv ==
    ASSUME RegistryInv, died
    PROVE  RegistryInv'
<1>1. ASSUME NEW t \in Tickets
      PROVE  /\ Sound(transitions'[t], handed[t], t >= next_ticket)
             /\ ~live(transitions'[t].stage)
             /\ transitions'[t] \in Transition
  <2>1. CASE live(transitions[t].stage)
    <3>1. transitions'[t] = Erase(transitions[t], "Dead")
      BY Zenon, <2>1 DEF died
    <3>2. /\ transitions[t] \in Transition /\ Sound(transitions[t], handed[t], FALSE)
          /\ handed[t] \in Nat /\ ~(t >= next_ticket)
      BY <2>1, Replaced DEF Sound, live
    <3>3. /\ Sound(Erase(transitions[t], "Dead"), handed[t], FALSE)
          /\ Erase(transitions[t], "Dead").stage = "Dead"
      BY ZenonT(60), <2>1, <3>2, EraseSound
    <3> QED BY Zenon, <3>1, <3>2, <3>3 DEF Sound, live
  <2>2. CASE ~live(transitions[t].stage)
    BY Zenon, <2>2, Replaced DEF died
  <2> QED BY Zenon, <2>1, <2>2
<1>2. transitions' \in [Tickets -> Transition]
  BY Zenon, <1>1 DEF died
<1>3. Counted'
  BY Zenon, <1>1, <1>2 DEF died, RegistryInv, Counted
<1>4. AllSound'
  BY Zenon, <1>1 DEF died, AllSound
<1>5. SingleLive'
  BY Zenon, <1>1 DEF SingleLive
<1> QED BY Zenon, <1>3, <1>4, <1>5 DEF RegistryInv

-----------------------------------------------------------------------------
LEMMA InitInv == TicketInit => RegistryInv
<1> SUFFICES ASSUME TicketInit PROVE RegistryInv
  OBVIOUS
<1>1. NoTransition \in Transition /\ NoTransition.stage = "None"
      /\ NoTransition.tool = 0 /\ NoTransition.state = NoState
  BY Zenon DEF NoTransition, Transition, NoState, Stages
<1>2. Counted
  <2>1. next_ticket \in 1 .. MaxTransitions + 1
    BY BoundsAssumption DEF TicketInit
  <2>2. transitions \in [Tickets -> Transition] /\ handed \in [Tickets -> Nat]
    BY Zenon, <1>1 DEF TicketInit
  <2> QED BY ZenonT(60), <2>1, <2>2 DEF TicketInit, Counted
<1>3. SingleLive
  BY Zenon, <1>1 DEF TicketInit, SingleLive, live
<1>4. AllSound
  BY <1>1 DEF TicketInit, AllSound, Sound, live
<1> QED BY Zenon, <1>2, <1>3, <1>4 DEF RegistryInv

\* A call that mints a ticket, and any other call, whoever makes it and with
\* whatever arguments.
PrepareCall == \E o, b, s, d, q : Prepare(o, b, s, d, q)

OtherCall ==
    \/ \E o, t, r, d, q : Seal(o, t, r, d, q)
    \/ \E o, t : mark_provision_delivered(o, t)
    \/ \E o, t : cancel(o, t)
    \/ \E o, t, d : issue(o, t, d)
    \/ \E p, t, c, d : Redeem(p, t, c, d)
    \/ \E o, t : \E q \in BOOLEAN : complete(o, t, q)
    \/ \E t : failed(t)
    \/ died

Call == PrepareCall \/ OtherCall

LEMMA NextCalls == TicketNext => Call
BY Zenon DEF TicketNext, Call, PrepareCall, OtherCall

LEMMA CallInv == RegistryInv /\ [Call]_ticketVars => RegistryInv'
<1> SUFFICES ASSUME RegistryInv, [Call]_ticketVars
             PROVE  RegistryInv'
  OBVIOUS
<1>1. CASE UNCHANGED ticketVars
  BY Zenon, <1>1 DEF ticketVars, RegistryInv, Counted, SingleLive, AllSound
<1>2. CASE PrepareCall
  BY Zenon, <1>2, PrepareInv DEF PrepareCall
<1>3. CASE OtherCall
  BY ZenonT(30), <1>3, SealInv, MarkInv, IssueInv, RedeemInv, CancelInv, CompleteInv,
     FailedInv, DiedInv DEF OtherCall
<1> QED BY Zenon, <1>1, <1>2, <1>3 DEF Call

LEMMA NextInv == RegistryInv /\ [TicketNext]_ticketVars => RegistryInv'
BY Zenon, NextCalls, CallInv

\* What the runs check follows from the inductive invariant.
LEMMA InvImplies ==
    RegistryInv => TicketTypeOK /\ HandedOnce /\ IssuedIsDeliverable /\ NothingRetained
<1> SUFFICES ASSUME RegistryInv
             PROVE  TicketTypeOK /\ HandedOnce /\ IssuedIsDeliverable /\ NothingRetained
  OBVIOUS
<1>1. TicketTypeOK
  BY Zenon DEF RegistryInv, Counted, TicketTypeOK
<1>2. HandedOnce
  BY Zenon DEF RegistryInv, AllSound, Sound, HandedOnce
<1>3. IssuedIsDeliverable
  BY Zenon DEF RegistryInv, AllSound, Sound, IssuedIsDeliverable
<1>4. NothingRetained
  BY Zenon DEF RegistryInv, AllSound, Sound, Counted, NothingRetained
<1> QED BY Zenon, <1>1, <1>2, <1>3, <1>4

\* Whatever calls with whatever arguments the registry of exec_ticket.rs
\* serves, it never has two live transitions, redeem hands a ticket's state
\* out at most once and never for a cancelled ticket, what it returns for an
\* issued ticket is what was sealed and fits the successor's bound, and no
\* bytes of a terminal ticket or of a dead process are kept.
THEOREM RegistryIsSafe == TicketSpec => [](TicketTypeOK /\ TicketsAreSafe)
<1>1. RegistryInv => TicketTypeOK /\ TicketsAreSafe
  BY Zenon, InvImplies DEF RegistryInv, TicketsAreSafe
<1> QED BY InitInv, NextInv, <1>1, PTL DEF TicketSpec

-----------------------------------------------------------------------------
\* The new ticket is live and alone, and every other stage stays.
LEMMA PrepareForward ==
    ASSUME RegistryInv, PrepareCall
    PROVE  /\ next_ticket \in Tickets /\ ~dead /\ ~terminal_failure
           /\ transitions[next_ticket].stage = "None"
           /\ transitions'[next_ticket].stage = "Prepared"
           /\ \A u \in Tickets : /\ ~live(transitions[u].stage)
                                 /\ u # next_ticket => transitions'[u].stage = transitions[u].stage
<1> PICK o, b, s, d, q : Prepare(o, b, s, d, q)
  BY Zenon DEF PrepareCall
<1>1. transitions \in [Tickets -> Transition]
  BY Zenon DEF RegistryInv, Counted
<1>2. next_ticket \in Tickets
  BY BoundsAssumption DEF Prepare, PrepareOk, RegistryInv, Counted, Tickets
<1>3. transitions[next_ticket].stage = "None"
  BY <1>2, Replaced DEF Sound, NoTransition
<1>4. [NoTransition EXCEPT !.stage = "Prepared", !.tool = s].stage = "Prepared"
  BY Zenon DEF NoTransition
<1> QED BY Zenon, <1>1, <1>2, <1>3, <1>4 DEF Prepare, PrepareOk, check_owner

\* Any other call moves one stage forward and makes no ticket live, and it
\* moves none once the registry has failed or the process has died.
LEMMA OtherForward ==
    ASSUME RegistryInv, OtherCall, NEW u \in Tickets
    PROVE  /\ Forward(transitions[u].stage, transitions'[u].stage)
           /\ live(transitions'[u].stage) => live(transitions[u].stage)
           /\ dead \/ terminal_failure =>
                transitions'[u].stage \in {transitions[u].stage, "Dead", "Failed"}
<1> USE DEF Forward
<1>a. transitions \in [Tickets -> Transition]
  BY Zenon DEF RegistryInv, Counted
<1>2. ASSUME NEW o, NEW t, NEW n, NEW d, NEW q, Seal(o, t, n, d, q)
      PROVE  transitions'[u].stage = transitions[u].stage
  BY ZenonT(30), <1>2, <1>a DEF Seal, SealOk, transaction, Transition
<1>3. ASSUME NEW o, NEW t, mark_provision_delivered(o, t)
      PROVE  transitions'[u].stage = transitions[u].stage
  BY Zenon, <1>3, <1>a DEF mark_provision_delivered, MarkOk, transaction, Transition
<1>4. ASSUME NEW o, NEW t, NEW d, issue(o, t, d)
      PROVE  /\ transitions'[u].stage = transitions[u].stage \/
                  (transitions[u].stage = "Prepared" /\ transitions'[u].stage = "Issued")
             /\ ~dead /\ ~terminal_failure
  BY Zenon, <1>4, <1>a DEF issue, IssueOk, transaction, check_owner, Transition
<1>5. ASSUME NEW p, NEW t, NEW c, NEW d, Redeem(p, t, c, d)
      PROVE  /\ transitions'[u].stage = transitions[u].stage \/
                  (transitions[u].stage = "Issued" /\ transitions'[u].stage = "Redeemed")
             /\ ~dead /\ ~terminal_failure
  BY Zenon, <1>5, <1>a DEF Redeem, check_owner, Transition
<1>6. ASSUME NEW o, NEW t, cancel(o, t)
      PROVE  /\ transitions'[u].stage = transitions[u].stage \/
                  (transitions[u].stage \in {"Prepared", "Issued"}
                     /\ transitions'[u].stage = "Cancelled")
             /\ ~dead /\ ~terminal_failure
  BY Zenon, <1>6, <1>a DEF cancel, CancelOk, transaction, check_owner, Transition, Erase
<1>7. ASSUME NEW t, failed(t)
      PROVE  transitions'[u].stage = transitions[u].stage \/
                  (live(transitions[u].stage) /\ transitions'[u].stage = "Failed")
  BY Zenon, <1>7, <1>a DEF failed, Transition, Erase
<1>8. ASSUME NEW o, NEW t, NEW q \in BOOLEAN, complete(o, t, q)
      PROVE  \/ transitions'[u].stage = transitions[u].stage
             \/ live(transitions[u].stage) /\ transitions'[u].stage = "Failed"
             \/ /\ transitions[u].stage = "Redeemed" /\ transitions'[u].stage = "Completed"
                /\ ~dead /\ ~terminal_failure
  <2>1. CASE q
    BY <1>8, <1>a, <2>1 DEF complete, transaction, check_owner, Transition
  <2>2. CASE ~q
    BY ZenonT(60), <1>8, <1>7, <2>2 DEF complete
  <2> QED BY Zenon, <2>1, <2>2
<1>9. ASSUME died
      PROVE  transitions'[u].stage = transitions[u].stage \/
                  (live(transitions[u].stage) /\ transitions'[u].stage = "Dead")
  BY ZenonT(60), <1>9, <1>a DEF died, Transition, Erase
<1> QED BY Zenon, <1>2, <1>3, <1>4, <1>5, <1>6, <1>7, <1>8, <1>9 DEF OtherCall, live

LEMMA CallForward ==
    ASSUME RegistryInv, Call, NEW u \in Tickets
    PROVE  /\ Forward(transitions[u].stage, transitions'[u].stage)
           /\ dead \/ terminal_failure =>
                transitions'[u].stage \in {transitions[u].stage, "Dead", "Failed"}
<1>1. CASE PrepareCall
  BY Zenon, <1>1, PrepareForward DEF Forward
<1>2. CASE OtherCall
  BY Zenon, <1>2, OtherForward
<1> QED BY Zenon, <1>1, <1>2 DEF Call

\* A tombstone never comes back to life and no stage is taken twice.
THEOREM TombstonesStay == TicketSpec => StagesGoForward
<1>1. RegistryInv /\ [TicketNext]_ticketVars =>
        [\A t \in Tickets :
           /\ Forward(transitions[t].stage, transitions'[t].stage)
           /\ dead \/ terminal_failure =>
                transitions'[t].stage \in {transitions[t].stage, "Dead", "Failed"}]_ticketVars
  BY Zenon, NextCalls, CallForward
<1> QED BY InitInv, NextInv, <1>1, PTL DEF TicketSpec, StagesGoForward

-----------------------------------------------------------------------------
\* The types of the driver's own variables.
ExecTypeOK ==
    /\ exec \in {"running", "preparing", "sealing", "marking", "cancelling", "prepared",
               "issuing", "leaf", "replaced", "terminated"}
    /\ ticket \in Tickets \cup {None}
    /\ original \in {"none", "Refused", "Terminal"}
    /\ link \in BOOLEAN
    /\ conn \in [Conns -> Tickets \cup {Open, Closed}]
    /\ held \subseteq Tickets
    /\ resumed \subseteq Tickets

\* One request at a time: at l the wire holds the request op or its answer.
Awaits(l, op) == exec = l => wire.op \in {op, "ok", "refused"}

Conversation ==
    /\ Awaits("preparing", "Prepare") /\ Awaits("sealing", "Seal")
    /\ Awaits("marking", "MarkDelivered") /\ Awaits("issuing", "Issue")
    /\ Awaits("cancelling", "Cancel")
    /\ exec \in {"running", "prepared", "leaf", "replaced"} => wire.op = "quiet"
    /\ exec = "preparing" /\ wire.op = "ok" => wire.arg \in Tickets
    /\ exec \notin {"running", "preparing", "terminated"} => ticket \in Tickets

\* Only the ticket of the current attempt is live, which while its
\* preparation is answered only the answer names.
Mine(t) ==
    \/ exec = "terminated"
    \/ exec = "preparing" /\ wire.op = "ok" /\ t = wire.arg
    \/ exec \notin {"running", "preparing"} /\ t = ticket

OwnTicket == \A t \in Tickets : live(transitions[t].stage) => Mine(t)

\* A granted cancellation, reported or not yet, has left a tombstone.
CancelledStays ==
    /\ exec = "cancelling" /\ wire.op = "ok" => transitions[ticket].stage = "Cancelled"
    /\ \A t \in resumed : transitions[t].stage = "Cancelled"

HandoverInv == ExecTypeOK /\ RegistryInv /\ Conversation /\ OwnTicket /\ CancelledStays

\* Every call but prepare, and none at all, makes no ticket live and leaves
\* the cancelled ones cancelled.
LEMMA TicketsKept ==
    ASSUME RegistryInv, OtherCall \/ UNCHANGED ticketVars
    PROVE  /\ RegistryInv'
           /\ \A t \in Tickets :
                /\ live(transitions'[t].stage) => live(transitions[t].stage)
                /\ transitions[t].stage = "Cancelled" => transitions'[t].stage = "Cancelled"
<1>1. RegistryInv'
  BY Zenon, CallInv DEF Call
<1>2. CASE UNCHANGED ticketVars
  BY Zenon, <1>1, <1>2 DEF ticketVars
<1>3. CASE OtherCall
  <2>1. ASSUME NEW t \in Tickets, transitions[t].stage = "Cancelled"
        PROVE  transitions'[t].stage = "Cancelled"
    BY Zenon, <1>3, <2>1, OtherForward DEF Forward, live
  <2> QED BY Zenon, <1>1, <1>3, <2>1, OtherForward
<1> QED BY Zenon, <1>2, <1>3

LEMMA HandoverInitOK == NativeInit => HandoverInv
<1> SUFFICES ASSUME NativeInit PROVE HandoverInv
  OBVIOUS
<1>1. RegistryInv
  BY Zenon, InitInv DEF NativeInit
<1>2. \A t \in Tickets : transitions[t].stage = "None"
  BY Zenon DEF NativeInit, TicketInit, NoTransition
<1>3. ExecTypeOK /\ Conversation /\ CancelledStays
  BY Zenon DEF NativeInit, Quiet, ExecTypeOK, Conversation, Awaits, CancelledStays
<1>4. OwnTicket
  BY Zenon, <1>2 DEF OwnTicket, live
<1> QED BY Zenon, <1>1, <1>3, <1>4 DEF HandoverInv

\* The driver's steps call nothing themselves: they write a request, or read
\* an answer.
LEMMA DriverKeeps ==
    ASSUME HandoverInv, Driver
    PROVE  HandoverInv'
<1>1. UNCHANGED <<ticketVars, link, conn, held>>
  BY Zenon DEF Driver, BeginPrepare, AfterPrepare, AfterSeal, AfterMark, AfterCancel, Refuse,
     BeginIssue, AfterIssue, ExecSucceeds, ExecFails
<1>2. RegistryInv' /\ transitions' = transitions
  BY Zenon, <1>1, TicketsKept DEF HandoverInv, ticketVars
<1> USE DEF HandoverInv, ExecTypeOK, Conversation, Awaits, OwnTicket, Mine, CancelledStays
<1>3. ASSUME NEW s, BeginPrepare(s) PROVE HandoverInv'
  BY ZenonT(30), <1>1, <1>2, <1>3 DEF BeginPrepare, Send
<1>4. ASSUME NEW r, AfterPrepare(r) PROVE HandoverInv'
  BY <1>1, <1>2, <1>4 DEF AfterPrepare, Send, Answered, Granted, terminate, Quiet
<1>5. ASSUME NEW d, AfterSeal(d) PROVE HandoverInv'
  BY SMTT(20), <1>1, <1>2, <1>5 DEF AfterSeal, Send, Answered, Granted, BeginCancel
<1>6. ASSUME AfterMark PROVE HandoverInv'
  BY SMTT(20), <1>1, <1>2, <1>6 DEF AfterMark, Send, Answered, Granted, BeginCancel, Quiet
<1>7. ASSUME AfterCancel PROVE HandoverInv'
  BY <1>1, <1>2, <1>7 DEF AfterCancel, Answered, Granted, Resume, terminate, Quiet, live
<1>8. ASSUME Refuse PROVE HandoverInv'
  BY Zenon, <1>1, <1>2, <1>8 DEF Refuse, BeginCancel, Send
<1>9. ASSUME BeginIssue PROVE HandoverInv'
  BY ZenonT(30), <1>1, <1>2, <1>9 DEF BeginIssue, Send
<1>10. ASSUME AfterIssue PROVE HandoverInv'
  BY <1>1, <1>2, <1>10 DEF AfterIssue, Answered, Granted, terminate, Quiet
<1>11. ASSUME ExecSucceeds PROVE HandoverInv'
  BY Zenon, <1>1, <1>2, <1>11 DEF ExecSucceeds
<1>12. ASSUME ExecFails PROVE HandoverInv'
  BY Zenon, <1>1, <1>2, <1>12 DEF ExecFails, BeginCancel, Send
<1> QED BY ZenonT(30), <1>3, <1>4, <1>5, <1>6, <1>7, <1>8, <1>9, <1>10, <1>11, <1>12 DEF Driver

\* serve_exec_control: a granted prepare is the only way to a live ticket,
\* and its answer names it; a granted cancel leaves a tombstone.
LEMMA ServeKeeps ==
    ASSUME HandoverInv, NEW q, Serve(q)
    PROVE  HandoverInv'
<1>1. UNCHANGED <<exec, ticket, original, link, conn, held, resumed>> /\ link
  BY Zenon DEF Serve
<1> DEFINE Reply(ok, arg) == wire' = [op |-> IF ok THEN "ok" ELSE "refused", arg |-> arg]
<1>2. CASE wire.op = "Prepare"
  <2>1. CASE PrepareCall /\ Reply(TRUE, next_ticket)
    <3>1. RegistryInv'
      BY Zenon, <2>1, CallInv DEF HandoverInv, Call
    <3>2. /\ next_ticket \in Tickets
          /\ transitions[next_ticket].stage = "None"
          /\ \A u \in Tickets : /\ ~live(transitions[u].stage)
                                /\ u # next_ticket => transitions'[u].stage = transitions[u].stage
      BY Zenon, <2>1, PrepareForward DEF HandoverInv
    <3>3. wire'.op = "ok" /\ wire'.arg = next_ticket
      BY Zenon, <2>1
    <3>4. exec \in {"preparing", "terminated"}
      BY Zenon, <1>2 DEF HandoverInv, Conversation, Awaits, ExecTypeOK
    <3>5. ExecTypeOK' /\ Conversation'
      BY Zenon, <1>1, <3>2, <3>3, <3>4 DEF HandoverInv, ExecTypeOK, Conversation, Awaits
    <3>6. OwnTicket'
      BY Zenon, <1>1, <3>2, <3>3, <3>4 DEF OwnTicket, Mine
    <3>7. CancelledStays'
      BY Zenon, <1>1, <3>2, <3>4 DEF HandoverInv, CancelledStays, ExecTypeOK
    <3> QED BY Zenon, <3>1, <3>5, <3>6, <3>7 DEF HandoverInv
  <2>2. CASE UNCHANGED ticketVars /\ Reply(FALSE, None)
    <3>1. RegistryInv' /\ transitions' = transitions
      BY Zenon, <2>2, TicketsKept DEF HandoverInv, ticketVars
    <3>2. wire'.op = "refused"
      BY Zenon, <2>2
    <3> QED
      BY Zenon, <1>1, <1>2, <3>1, <3>2
      DEF HandoverInv, ExecTypeOK, Conversation, Awaits, OwnTicket, Mine, CancelledStays
  <2> QED BY ZenonT(30), <1>2, <2>1, <2>2 DEF Serve, PrepareCall
<1>3. ASSUME wire.op \in {"Seal", "MarkDelivered", "Issue", "Cancel"},
             OtherCall \/ UNCHANGED ticketVars,
             wire'.op \in {"ok", "refused"},
             wire.op = "Cancel" /\ wire'.op = "ok" /\ ticket \in Tickets =>
               transitions'[ticket].stage = "Cancelled"
      PROVE  HandoverInv'
  <2>1. /\ RegistryInv'
        /\ \A t \in Tickets :
             /\ live(transitions'[t].stage) => live(transitions[t].stage)
             /\ transitions[t].stage = "Cancelled" => transitions'[t].stage = "Cancelled"
    BY Zenon, <1>3, TicketsKept DEF HandoverInv
  <2>2. exec \in {"sealing", "marking", "issuing", "cancelling", "terminated"}
    BY Zenon, <1>3 DEF HandoverInv, ExecTypeOK, Conversation, Awaits
  <2>3. ExecTypeOK' /\ Conversation'
    BY ZenonT(30), <1>1, <1>3, <2>2 DEF HandoverInv, ExecTypeOK, Conversation, Awaits
  <2>4. OwnTicket'
    BY Zenon, <1>1, <2>1, <2>2 DEF HandoverInv, OwnTicket, Mine
  <2>5. CancelledStays'
    BY Zenon, <1>1, <1>3, <2>1, <2>2 DEF HandoverInv, CancelledStays, Conversation, Awaits, ExecTypeOK
  <2> QED BY Zenon, <2>1, <2>3, <2>4, <2>5 DEF HandoverInv
<1>4. ASSUME Reply(TRUE, None) \/ Reply(FALSE, None)
      PROVE  wire'.op \in {"ok", "refused"}
  BY <1>4
<1>5. CASE wire.op = "Cancel"
  <2>1. CASE cancel(Watched, ticket) /\ Reply(TRUE, None)
    <3>1. ticket \in Tickets /\ transitions \in [Tickets -> Transition]
      BY Zenon, <2>1 DEF cancel, CancelOk, transaction, HandoverInv, RegistryInv, Counted
    <3>2. transitions'[ticket].stage = "Cancelled"
      BY Zenon, <2>1, <3>1 DEF cancel, Erase, Transition
    <3>3. OtherCall
      BY Zenon, <2>1 DEF OtherCall
    <3> QED BY Zenon, <1>3, <1>5, <2>1, <3>2, <3>3
  <2>2. CASE UNCHANGED ticketVars /\ Reply(FALSE, None)
    BY Zenon, <1>3, <1>5, <2>2
  <2> QED BY Zenon, <1>5, <2>1, <2>2 DEF Serve
<1>6. CASE wire.op \in {"Seal", "MarkDelivered", "Issue"}
  <2>1. OtherCall \/ UNCHANGED ticketVars
    BY Zenon, <1>6 DEF Serve, OtherCall
  <2>2. Reply(TRUE, None) \/ Reply(FALSE, None)
    BY Zenon, <1>6 DEF Serve
  <2>3. wire'.op \in {"ok", "refused"}
    BY Zenon, <1>4, <2>2
  <2> QED BY Zenon, <1>3, <1>6, <2>1, <2>3
<1>7. wire.op \in {"Prepare", "Seal", "MarkDelivered", "Issue", "Cancel"}
  BY Zenon DEF Serve
<1> QED BY Zenon, <1>2, <1>5, <1>6, <1>7

\* The steps of the successor, the launcher and the watch make no ticket
\* live, and but for a completion they leave the driver where it is.
LEMMA BystandersKeep ==
    ASSUME HandoverInv, OtherCall \/ UNCHANGED ticketVars,
           UNCHANGED <<ticket, original, wire, resumed>>,
           exec' = exec \/ exec' = "terminated",
           link' \in BOOLEAN, conn' \in [Conns -> Tickets \cup {Open, Closed}],
           held' \subseteq Tickets
    PROVE  HandoverInv'
<1>1. /\ RegistryInv'
      /\ \A t \in Tickets :
           /\ live(transitions'[t].stage) => live(transitions[t].stage)
           /\ transitions[t].stage = "Cancelled" => transitions'[t].stage = "Cancelled"
  BY Zenon, TicketsKept DEF HandoverInv
<1>2. ExecTypeOK' /\ Conversation'
  BY ZenonT(30) DEF HandoverInv, ExecTypeOK, Conversation, Awaits
<1>3. OwnTicket'
  BY <1>1 DEF HandoverInv, OwnTicket, Mine
<1>4. CancelledStays'
  BY Zenon, <1>1 DEF HandoverInv, CancelledStays, Conversation, Awaits, ExecTypeOK
<1> QED BY Zenon, <1>1, <1>2, <1>3, <1>4 DEF HandoverInv

LEMMA CompleteKeeps ==
    ASSUME HandoverInv, NEW q \in BOOLEAN, Complete(q)
    PROVE  HandoverInv'
<1>1. OtherCall
  BY Zenon DEF Complete, OtherCall
<1>2. CASE ~q
  BY Zenon, <1>1, <1>2, BystandersKeep DEF Complete, HandoverInv, ExecTypeOK
<1>3. CASE q
  <2>1. /\ RegistryInv'
        /\ \A t \in Tickets :
             /\ live(transitions'[t].stage) => live(transitions[t].stage)
             /\ transitions[t].stage = "Cancelled" => transitions'[t].stage = "Cancelled"
    BY Zenon, <1>1, TicketsKept DEF HandoverInv
  <2>2. /\ exec = "replaced" /\ exec' = "running" /\ ticket' = None /\ link' = TRUE
        /\ UNCHANGED <<original, wire, conn, held, resumed>>
    BY Zenon, <1>3 DEF Complete
  <2>3. ticket \in Tickets /\ wire.op = "quiet"
    BY Zenon, <2>2 DEF HandoverInv, Conversation
  <2>4. ~live(transitions'[ticket].stage)
    <3>1. transitions \in [Tickets -> Transition]
      BY Zenon DEF HandoverInv, RegistryInv, Counted
    <3> QED BY <1>3, <2>3, <3>1 DEF Complete, complete, Transition, live
  <2>5. ExecTypeOK' /\ Conversation'
    BY Zenon, <2>2, <2>3 DEF HandoverInv, ExecTypeOK, Conversation, Awaits
  <2>6. OwnTicket'
    BY Zenon, <2>1, <2>2, <2>4 DEF HandoverInv, OwnTicket, Mine
  <2>7. CancelledStays'
    BY Zenon, <2>1, <2>2 DEF HandoverInv, CancelledStays, ExecTypeOK
  <2> QED BY Zenon, <2>1, <2>5, <2>6, <2>7 DEF HandoverInv
<1> QED BY Zenon, <1>2, <1>3

LEMMA HandoverNextKeeps == HandoverInv /\ [NativeNext]_nativeVars => HandoverInv'
<1> SUFFICES ASSUME HandoverInv, [NativeNext]_nativeVars
             PROVE  HandoverInv'
  OBVIOUS
<1> USE DEF HandoverInv, ExecTypeOK
<1>1. CASE UNCHANGED nativeVars
  BY Zenon, <1>1, BystandersKeep DEF nativeVars, execVars
<1>2. ASSUME NEW c \in Conns, NEW t \in Tickets, RedeemOn(c, t)
      PROVE  HandoverInv'
  <2>1. OtherCall \/ UNCHANGED ticketVars
    BY Zenon, <1>2 DEF RedeemOn, OtherCall
  <2>2. conn' \in [Conns -> Tickets \cup {Open, Closed}]
    BY Zenon, <1>2 DEF RedeemOn
  <2> QED BY Zenon, <1>2, <2>1, <2>2, BystandersKeep DEF RedeemOn
<1>3. ASSUME NEW c \in Conns, Deliver(c) \/ FailDelivery(c)
      PROVE  HandoverInv'
  BY Zenon, <1>3, BystandersKeep DEF Deliver, FailDelivery
<1>4. ASSUME NEW t, CoordinatorFails(t)
      PROVE  HandoverInv'
  BY Zenon, <1>4, BystandersKeep DEF CoordinatorFails, OtherCall, execVars
<1>5. CASE Break \/ Kill
  BY Zenon, <1>5, BystandersKeep DEF Break, Kill
<1>6. CASE Watch
  BY Zenon, <1>6, BystandersKeep DEF Watch, OtherCall, execVars
<1> QED BY ZenonT(30), <1>1, <1>2, <1>3, <1>4, <1>5, <1>6, DriverKeeps, ServeKeeps, CompleteKeeps
        DEF NativeNext

\* What the run checks follows from the inductive invariant.
LEMMA HandoverImplies == HandoverInv => HandoverSafe /\ TicketsAreSafe
<1> SUFFICES ASSUME HandoverInv PROVE HandoverSafe /\ TicketsAreSafe
  OBVIOUS
<1>1. TicketTypeOK /\ TicketsAreSafe
  BY Zenon, InvImplies DEF HandoverInv, RegistryInv, TicketsAreSafe
<1>2. NativeTypeOK
  BY Zenon, <1>1 DEF HandoverInv, ExecTypeOK, NativeTypeOK
<1>3. SurvivedOrSucceeded
  BY Zenon, <1>1 DEF HandoverInv, CancelledStays, ExecTypeOK, SurvivedOrSucceeded, TicketsAreSafe,
     HandedOnce
<1>4. RefusalOwnsNoTicket
  BY Zenon DEF HandoverInv, OwnTicket, Mine, RefusalOwnsNoTicket
<1> QED BY Zenon, <1>1, <1>2, <1>3, <1>4 DEF HandoverSafe

\* Exec happens or it does not: when the old image survives an attempt, its
\* ticket is cancelled and its state was and will be handed to no successor,
\* and between attempts it has nothing live in the registry, however replies
\* are lost, redemptions race the cancellation and coordinator or kernel fail.
THEOREM ExecHappensOrNot == NativeSpec => []HandoverSafe
BY HandoverInitOK, HandoverNextKeeps, HandoverImplies, PTL DEF NativeSpec

\* The registry keeps its promises in the hands of driver, successor and
\* launcher.
THEOREM RegistryIsSafeInUse == NativeSpec => []TicketsAreSafe
BY HandoverInitOK, HandoverNextKeeps, HandoverImplies, PTL DEF NativeSpec

\* All they do to it are calls.
LEMMA NativeCalls == [NativeNext]_nativeVars => [Call]_ticketVars
<1> SUFFICES ASSUME [NativeNext]_nativeVars PROVE [Call]_ticketVars
  OBVIOUS
<1>1. ASSUME NEW q, Serve(q) PROVE Call \/ UNCHANGED ticketVars
  <2>1. CASE wire.op = "Prepare"
    BY Zenon, <1>1, <2>1 DEF Serve, Call, PrepareCall
  <2>2. CASE wire.op # "Prepare"
    BY Zenon, <1>1, <2>2 DEF Serve, Call, OtherCall
  <2> QED BY Zenon, <2>1, <2>2
<1>2. ASSUME NEW q \in BOOLEAN, Complete(q) PROVE Call
  BY Zenon, <1>2 DEF Complete, Call, OtherCall
<1>3. ASSUME Driver PROVE UNCHANGED ticketVars
  BY Zenon, <1>3 DEF Driver, BeginPrepare, AfterPrepare, AfterSeal, AfterMark, AfterCancel,
     Refuse, BeginIssue, AfterIssue, ExecSucceeds, ExecFails
<1>4. ASSUME NEW c, NEW t, RedeemOn(c, t) PROVE Call \/ UNCHANGED ticketVars
  BY Zenon, <1>4 DEF RedeemOn, Call, OtherCall
<1>5. ASSUME NEW c, Deliver(c) \/ FailDelivery(c) \/ Break \/ Kill PROVE UNCHANGED ticketVars
  BY Zenon, <1>5 DEF Deliver, FailDelivery, Break, Kill
<1>6. ASSUME NEW t, CoordinatorFails(t) \/ Watch PROVE Call
  BY Zenon, <1>6 DEF CoordinatorFails, Watch, Call, OtherCall
<1>7. UNCHANGED nativeVars => UNCHANGED ticketVars
  BY Zenon DEF nativeVars
<1> QED BY ZenonT(30), <1>1, <1>2, <1>3, <1>4, <1>5, <1>6, <1>7 DEF NativeNext

\* In use, too, a tombstone never comes back to life, no stage is taken
\* twice, and a failed registry lets nothing go forward.
THEOREM TombstonesStayInUse == NativeSpec => StagesGoForward
<1>1. HandoverInv => RegistryInv
  BY Zenon DEF HandoverInv
<1>2. RegistryInv /\ [Call]_ticketVars =>
        [\A t \in Tickets :
           /\ Forward(transitions[t].stage, transitions'[t].stage)
           /\ dead \/ terminal_failure =>
                transitions'[t].stage \in {transitions[t].stage, "Dead", "Failed"}]_ticketVars
  BY Zenon, CallForward
<1> QED BY HandoverInitOK, HandoverNextKeeps, NativeCalls, <1>1, <1>2, PTL
        DEF NativeSpec, StagesGoForward
=============================================================================
