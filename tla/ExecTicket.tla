----------------------------- MODULE ExecTicket -----------------------------
(***************************************************************************)
(* The registry of single-use exec tickets of one watched process birth    *)
(* (reverie-rpc-transport/src/exec_ticket.rs).  Calls are serialised by    *)
(* the coordinator's mutex, so each call is one step; a refused call       *)
(* changes nothing and is no step.                                         *)
(*                                                                         *)
(* A ticket is its ordinal: the keyed hash is injective.  Retained bytes   *)
(* are represented by their length, and a digest by what it is a digest    *)
(* of, so the composite state of tool and runtime bytes is a pair.         *)
(***************************************************************************)
EXTENDS Naturals

CONSTANTS MaxTransitions,   \* MAX_TRANSITIONS
          MaxSnapshot,      \* MAX_SNAPSHOT_BYTES
          MaxState,         \* MAX_STATE_BYTES = successor::MAX_STATE_LEN
          Owners, Watched   \* identities, and the one the proof names

ASSUME BoundsAssumption == MaxTransitions \in Nat /\ MaxSnapshot \in Nat /\ MaxState \in Nat
ASSUME OwnerAssumption == Watched \in Owners

Tickets == 1 .. MaxTransitions
Lengths == 0 .. MaxState + 1
NoState == <<0, 0>>

VARIABLES next_ticket, transitions, dead, terminal_failure,
          handed     \* history: how often redeem returned a ticket's state

ticketVars == <<next_ticket, transitions, dead, terminal_failure, handed>>

Stages == {"Prepared", "Issued", "Redeemed", "Completed", "Cancelled", "Dead", "Failed"}

Transition == [stage : Stages \cup {"None"}, delivered : BOOLEAN,
               tool : Nat, state : Nat \X Nat, state_digest : Nat \X Nat]

NoTransition == [stage |-> "None", delivered |-> FALSE,
                 tool |-> 0, state |-> NoState, state_digest |-> NoState]

\* ExecStage::live
live(stage) == stage \in {"Prepared", "Issued", "Redeemed"}

\* Ends in stage st; the retained bytes are dropped.
Erase(entry, st) == [entry EXCEPT !.stage = st, !.tool = 0, !.state = NoState]

TicketInit ==
    /\ next_ticket = 1
    /\ transitions = [t \in Tickets |-> NoTransition]
    /\ dead = FALSE
    /\ terminal_failure = FALSE
    /\ handed = [t \in Tickets |-> 0]

check_owner(o) == ~dead /\ ~terminal_failure /\ o = Watched

\* A record is found only under its own ticket; prepare saw to it that its
\* binding has the owner.
transaction(o, t) == check_owner(o) /\ t \in Tickets /\ transitions[t].stage # "None"

-----------------------------------------------------------------------------
PrepareOk(o, b, s, digest, qualified) ==
    /\ check_owner(o) /\ b = o
    /\ \A t \in Tickets : ~live(transitions[t].stage)
    /\ next_ticket <= MaxTransitions
    /\ s \in 1 .. MaxSnapshot /\ digest = s /\ qualified

\* prepare: mint the next ticket and retain the tool snapshot of length s.
Prepare(o, b, s, digest, qualified) ==
    /\ PrepareOk(o, b, s, digest, qualified)
    /\ transitions' = [transitions EXCEPT ![next_ticket] =
                         [NoTransition EXCEPT !.stage = "Prepared", !.tool = s]]
    /\ next_ticket' = next_ticket + 1
    /\ UNCHANGED <<dead, terminal_failure, handed>>

\* Mutant: only the runtime bytes are held against the bound.
SealOkRuntimeOnly(o, t, r, digest, qualified) ==
    /\ transaction(o, t)
    /\ r \in 1 .. MaxState /\ digest = r /\ qualified
    /\ transitions[t].stage = "Prepared" /\ transitions[t].state_digest = NoState

SealOk(o, t, r, digest, qualified) ==
    /\ transaction(o, t)
    /\ r \in 1 .. MaxState /\ digest = r /\ qualified
    /\ transitions[t].stage = "Prepared" /\ transitions[t].state_digest = NoState
    /\ transitions[t].tool + r <= MaxState

\* seal: the composite of tool and runtime bytes, once.
Seal(o, t, r, digest, qualified) ==
    /\ SealOk(o, t, r, digest, qualified)
    /\ LET state == <<transitions[t].tool, r>>
       IN  transitions' = [transitions EXCEPT ![t].tool = 0, ![t].state = state,
                                              ![t].state_digest = state]
    /\ UNCHANGED <<next_ticket, dead, terminal_failure, handed>>

MarkOk(o, t) == transaction(o, t) /\ transitions[t].stage = "Prepared"

mark_provision_delivered(o, t) ==
    /\ MarkOk(o, t)
    /\ transitions' = [transitions EXCEPT ![t].delivered = TRUE]
    /\ UNCHANGED <<next_ticket, dead, terminal_failure, handed>>

IssueOk(o, t, digest) ==
    /\ transaction(o, t)
    /\ transitions[t].stage = "Prepared"
    /\ transitions[t].state_digest = digest /\ digest # NoState
    /\ transitions[t].delivered

issue(o, t, digest) ==
    /\ IssueOk(o, t, digest)
    /\ transitions' = [transitions EXCEPT ![t].stage = "Issued"]
    /\ UNCHANGED <<next_ticket, dead, terminal_failure, handed>>

\* Mutant: the ticket is consumed only by completion.
RedeemWithoutConsuming(peer, t, config, digest) ==
    /\ check_owner(Watched) /\ peer
    /\ t \in Tickets /\ transitions[t].stage \in {"Issued", "Redeemed"}
    /\ config /\ transitions[t].state_digest = digest
    /\ transitions' = [transitions EXCEPT ![t].stage = "Redeemed"]
    /\ handed' = [handed EXCEPT ![t] = @ + 1]
    /\ UNCHANGED <<next_ticket, dead, terminal_failure>>

\* redeem by the accepted peer: consume, then return the state.
Redeem(peer, t, config, digest) ==
    /\ check_owner(Watched) /\ peer
    /\ t \in Tickets /\ transitions[t].stage = "Issued"
    /\ config /\ transitions[t].state_digest = digest
    /\ transitions' = [transitions EXCEPT ![t].stage = "Redeemed", ![t].state = NoState]
    /\ handed' = [handed EXCEPT ![t] = @ + 1]
    /\ UNCHANGED <<next_ticket, dead, terminal_failure>>

\* Mutant: a redeemed ticket can still be cancelled.
CancelOkWhileLive(o, t) == transaction(o, t) /\ live(transitions[t].stage)

CancelOk(o, t) == transaction(o, t) /\ transitions[t].stage \in {"Prepared", "Issued"}

cancel(o, t) ==
    /\ CancelOk(o, t)
    /\ transitions' = [transitions EXCEPT ![t] = Erase(@, "Cancelled")]
    /\ UNCHANGED <<next_ticket, dead, terminal_failure, handed>>

\* failed: the tombstone stays and the registry serves nobody any more.
failed(t) ==
    /\ t \in Tickets /\ live(transitions[t].stage)
    /\ transitions' = [transitions EXCEPT ![t] = Erase(@, "Failed")]
    /\ terminal_failure' = TRUE
    /\ UNCHANGED <<next_ticket, dead, handed>>

\* complete: by the launcher; a refused qualification is a failure.
complete(o, t, qualified) ==
    /\ transaction(o, t)
    /\ transitions[t].stage = "Redeemed"
    /\ IF qualified
       THEN /\ transitions' = [transitions EXCEPT ![t].stage = "Completed"]
            /\ UNCHANGED <<next_ticket, dead, terminal_failure, handed>>
       ELSE failed(t)

\* Mutant: death is noted and the records are left as they are.
DiedLeavingBytes ==
    /\ dead' = TRUE
    /\ UNCHANGED <<next_ticket, transitions, terminal_failure, handed>>

\* died: the watch saw the process end.
died ==
    /\ dead' = TRUE
    /\ transitions' = [t \in Tickets |-> IF live(transitions[t].stage)
                                         THEN Erase(transitions[t], "Dead") ELSE transitions[t]]
    /\ UNCHANGED <<next_ticket, terminal_failure, handed>>

-----------------------------------------------------------------------------
\* Every call, with right and wrong arguments, in any order.
TicketNext ==
    \/ \E o, b \in Owners, s, d \in Lengths, q \in BOOLEAN : Prepare(o, b, s, d, q)
    \/ \E o \in Owners, t \in Tickets, r, d \in Lengths, q \in BOOLEAN : Seal(o, t, r, d, q)
    \/ \E o \in Owners, t \in Tickets :
          mark_provision_delivered(o, t) \/ cancel(o, t)
    \/ \E o \in Owners, t \in Tickets, d \in Lengths \X Lengths : issue(o, t, d)
    \/ \E peer, config \in BOOLEAN, t \in Tickets, d \in Lengths \X Lengths :
          Redeem(peer, t, config, d)
    \/ \E o \in Owners, t \in Tickets, q \in BOOLEAN : complete(o, t, q)
    \/ \E t \in Tickets : failed(t)
    \/ died

TicketSpec == TicketInit /\ [][TicketNext]_ticketVars

-----------------------------------------------------------------------------
TicketTypeOK ==
    /\ next_ticket \in 1 .. MaxTransitions + 1
    /\ transitions \in [Tickets -> Transition]
    /\ dead \in BOOLEAN
    /\ terminal_failure \in BOOLEAN
    /\ handed \in [Tickets -> Nat]

\* The single-live-transition rule: whatever is cancelled, failed or
\* completed in between, two tickets are never live together.
SingleLive ==
    \A t, u \in Tickets :
        live(transitions[t].stage) /\ live(transitions[u].stage) => t = u

\* Consume before send: a ticket's state leaves the registry at most once,
\* and only a ticket whose state has left is Redeemed or Completed.
HandedOnce ==
    \A t \in Tickets :
        /\ handed[t] <= 1
        /\ transitions[t].stage \in {"Redeemed", "Completed"} => handed[t] = 1
        /\ transitions[t].stage \in {"None", "Prepared", "Issued", "Cancelled"} => handed[t] = 0

\* An issued ticket cannot fail after it is consumed: its state is there, is
\* what was sealed, and passes the successor's check_state bound.
IssuedIsDeliverable ==
    \A t \in Tickets :
        transitions[t].stage = "Issued" =>
            LET s == transitions[t].state
            IN  /\ s = transitions[t].state_digest
                /\ s[1] + s[2] \in 1 .. MaxState

\* No bytes of the old image outlive their use: once a ticket is terminal,
\* or the watched process is dead, neither tool nor composite state is kept.
NothingRetained ==
    \A t \in Tickets :
        ~live(transitions[t].stage) \/ dead =>
            transitions[t].tool = 0 /\ transitions[t].state = NoState

\* What the registry promises the two images of an exec: the four
\* statements above.
TicketsAreSafe == SingleLive /\ HandedOnce /\ IssuedIsDeliverable /\ NothingRetained

\* The inductive invariant.  What it says of one ticket whose record is r, whose state was
\* handed out h times and which is unused if fresh.
Sound(r, h, fresh) ==
    /\ r \in Transition /\ h \in Nat
    /\ h <= 1
    /\ r.stage \in {"Redeemed", "Completed"} => h = 1
    /\ r.stage \in {"None", "Prepared", "Issued", "Cancelled"} => h = 0
    /\ r.stage = "Issued" => r.state_digest # NoState
    /\ ~live(r.stage) => r.tool = 0 /\ r.state = NoState
    /\ fresh => r = NoTransition
    /\ r.stage \in {"Prepared", "Issued"} /\ r.state_digest # NoState =>
         /\ r.tool = 0
         /\ r.state = r.state_digest
         /\ r.state[1] + r.state[2] \in 1 .. MaxState
    /\ r.stage \in {"Redeemed", "Completed"} => r.tool = 0 /\ r.state = NoState

Counted ==
    /\ next_ticket \in 1 .. MaxTransitions + 1
    /\ transitions \in [Tickets -> Transition]
    /\ handed \in [Tickets -> Nat]
    /\ dead \in BOOLEAN /\ terminal_failure \in BOOLEAN
    /\ dead => \A t \in Tickets : ~live(transitions[t].stage)

AllSound == \A t \in Tickets : Sound(transitions[t], handed[t], t >= next_ticket)

\* Every ticket is sound, and at most one is live.
RegistryInv == Counted /\ SingleLive /\ AllSound

\* Tombstones do not come back to life, a stage is never taken twice, and a
\* registry that failed or whose process died lets nothing go forward.
Forward(a, b) ==
    \/ a = b
    \/ <<a, b>> \in {<<"None", "Prepared">>, <<"Prepared", "Issued">>,
                     <<"Issued", "Redeemed">>, <<"Redeemed", "Completed">>}
    \/ live(a) /\ b \in {"Dead", "Failed"}
    \/ a \in {"Prepared", "Issued"} /\ b = "Cancelled"

StagesGoForward ==
    [][\A t \in Tickets :
         /\ Forward(transitions[t].stage, transitions'[t].stage)
         /\ dead \/ terminal_failure =>
              transitions'[t].stage \in {transitions[t].stage, "Dead", "Failed"}]_ticketVars

=============================================================================
