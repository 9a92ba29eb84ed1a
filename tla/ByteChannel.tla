----------------------------- MODULE ByteChannel ----------------------------
(***************************************************************************)
(* What a duplex byte stream promises, with no memory, cursor or thread in *)
(* sight: per direction a bounded first-in first-out sequence of bytes, a  *)
(* writer that may close it, a reader that learns of the end only after    *)
(* the last byte, and one failure of the whole connection that stays.      *)
(***************************************************************************)
EXTENDS Integers, Sequences

CONSTANTS Directions, Limit   \* Limit: bytes that may be in flight

VARIABLES sent, got,          \* the bytes written and the bytes returned, ever
          ended,              \* the writer has closed
          eof,                \* the reader has been told so
          failure

chanVars == <<sent, got, ended, eof, failure>>

ChanInit ==
    /\ sent = [d \in Directions |-> <<>>]
    /\ got = [d \in Directions |-> <<>>]
    /\ ended = [d \in Directions |-> FALSE]
    /\ eof = [d \in Directions |-> FALSE]
    /\ failure = "none"

\* s grows by at least one byte and keeps what it had.
Extends(s, t) == Len(s) < Len(t) /\ \A k \in 1 .. Len(s) : t[k] = s[k]

Send(d) ==
    /\ ~ended[d]
    /\ Extends(sent[d], sent'[d])
    /\ Len(sent'[d]) <= Len(got[d]) + Limit
    /\ \A c \in Directions \ {d} : sent'[c] = sent[c]
    /\ UNCHANGED <<got, ended, eof, failure>>

Receive(d) ==
    /\ ~eof[d]
    /\ Extends(got[d], got'[d])
    /\ Len(got'[d]) <= Len(sent[d])
    /\ \A k \in 1 .. Len(got'[d]) : got'[d][k] = sent[d][k]
    /\ \A c \in Directions \ {d} : got'[c] = got[c]
    /\ UNCHANGED <<sent, ended, eof, failure>>

End(d) ==
    /\ ended' = [ended EXCEPT ![d] = TRUE]
    /\ UNCHANGED <<sent, got, eof, failure>>

ReturnEof(d) ==
    /\ ended[d]
    /\ Len(got[d]) = Len(sent[d])
    /\ eof' = [eof EXCEPT ![d] = TRUE]
    /\ UNCHANGED <<sent, got, ended, failure>>

Fail(f) ==
    /\ failure = "none"
    /\ failure' = f
    /\ UNCHANGED <<sent, got, ended, eof>>

ChanNext ==
    \/ \E d \in Directions : Send(d) \/ Receive(d) \/ End(d) \/ ReturnEof(d)
    \/ \E f \in {"Cancelled", "PeerFailed", "Protocol"} : Fail(f)

ChanSpec == ChanInit /\ [][ChanNext]_chanVars

=============================================================================
