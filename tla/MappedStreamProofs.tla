-------------------------- MODULE MappedStreamProofs ------------------------
(***************************************************************************)
(* The safety of the mapped byte stream for every capacity, cursor bound,  *)
(* buffer length, size of the futex word and pattern of calls; and what it *)
(* is to those who call it.  Taken apart at its loads and stores, it       *)
(* implements the first-in first-out channel ByteChannel.  And no wake-up  *)
(* is lost: what sleeps although it could go on is owed a wake-up by a     *)
(* process that has not finished its notify.                               *)
(***************************************************************************)
EXTENDS MappedStream, TLAPS

\* Two positions less than one ring apart never share a slot.
LEMMA ModInjective ==
    ASSUME NEW a \in Nat, NEW b \in Nat, a < b, b < a + Capacity
    PROVE  a % Capacity # b % Capacity
<1> DEFINE qa == a \div Capacity
           qb == b \div Capacity
<1> USE CapacityAssumption
<1>1. /\ qa \in Nat /\ qb \in Nat
      /\ a % Capacity \in 0 .. Capacity - 1 /\ b % Capacity \in 0 .. Capacity - 1
      /\ a = Capacity * qa + (a % Capacity)
      /\ b = Capacity * qb + (b % Capacity)
  OBVIOUS
<1>2. SUFFICES ASSUME a % Capacity = b % Capacity PROVE FALSE
  OBVIOUS
<1>3. b - a = Capacity * qb - Capacity * qa
  BY <1>1, <1>2
<1>4. b - a = Capacity * (qb - qa)
  BY <1>1, <1>3
<1>5. CASE qb - qa >= 1
  <2>1. Capacity * (qb - qa) >= Capacity
    BY <1>1, <1>5
  <2>2. QED BY <2>1, <1>4, <1>1
<1>6. CASE qb - qa <= 0
  <2>1. Capacity * (qb - qa) <= 0
    BY <1>1, <1>6
  <2>2. QED BY <2>1, <1>4, <1>1
<1>7. QED BY <1>5, <1>6, <1>1

\* A remainder is determined by any decomposition of a number.
LEMMA RemainderUnique ==
    ASSUME NEW a \in Nat, NEW k \in Nat, NEW r \in 0 .. Capacity - 1,
           a = Capacity * k + r
    PROVE  a % Capacity = r
<1> USE CapacityAssumption
<1> DEFINE q == a \div Capacity
           m == a % Capacity
<1>1. q \in Nat /\ m \in 0 .. Capacity - 1 /\ a = Capacity * q + m
  OBVIOUS
<1>2. Capacity * (q - k) = r - m
  BY <1>1
<1>3. CASE q - k >= 1
  <2>1. Capacity * (q - k) >= Capacity
    BY <1>1, <1>3
  <2>2. QED BY <2>1, <1>2, <1>1
<1>4. CASE q - k <= -1
  <2>1. Capacity * (q - k) <= -Capacity
    BY <1>1, <1>4
  <2>2. QED BY <2>1, <1>2, <1>1
<1>5. CASE q = k
  BY <1>1, <1>2, <1>5
<1>6. QED BY <1>1, <1>3, <1>4, <1>5

\* The two-piece copy of try_read and try_write visits the slots modulo the
\* capacity.
LEMMA SlotIsModular ==
    ASSUME NEW c \in Nat, NEW n \in Nat, NEW i \in Nat, i < n, n <= Capacity
    PROVE  Slot(c, n, i) = (c + i) % Capacity /\ Slot(c, n, i) \in Slots
<1> USE CapacityAssumption
<1> DEFINE q == c \div Capacity
           s == c % Capacity
<1>1. q \in Nat /\ s \in 0 .. Capacity - 1 /\ c = Capacity * q + s
  OBVIOUS
<1>2. CASE s + i < Capacity
  <2>1. Slot(c, n, i) = s + i
    BY <1>1, <1>2 DEF Slot, Lesser
  <2>2. (c + i) % Capacity = s + i
    BY <1>1, <1>2
  <2>3. QED BY <2>1, <2>2, <1>1, <1>2 DEF Slots
<1>3. CASE s + i >= Capacity
  <2>1. Slot(c, n, i) = s + i - Capacity
    BY <1>1, <1>3 DEF Slot, Lesser
  <2>2. c + i = Capacity * (q + 1) + (s + i - Capacity)
    BY <1>1
  <2> DEFINE a == c + i
             r == s + i - Capacity
             k == q + 1
  <2>3. (c + i) % Capacity = s + i - Capacity
    <3>1. a \in Nat /\ k \in Nat /\ r \in 0 .. Capacity - 1
      BY <1>1, <1>3
    <3>2. a = Capacity * k + r
      BY Zenon, <2>2
    <3> HIDE DEF a, r, k
    <3>3. a % Capacity = r
      BY Zenon, <3>1, <3>2, RemainderUnique
    <3>4. QED BY Zenon, <3>3 DEF a, r
  <2>4. QED BY <2>1, <2>3, <1>1, <1>3 DEF Slots
<1>4. QED BY <1>1, <1>2, <1>3

-----------------------------------------------------------------------------
LEMMA InitIInv == Init => IInv
<1> SUFFICES ASSUME Init PROVE IInv
  OBVIOUS
<1> USE CapacityAssumption DEF Init, Sides, Procs, Slots, NoCall, NewCall
<1>1. TypeOK
  BY DEF TypeOK, Labels, CallType
<1>2. Integrity /\ EofComplete
  BY DEF Integrity, EofComplete
<1>3. RingInv /\ CallInv
  BY DEF RingInv, CopyOK, CallOK, CallInv
<1>4. ProtocolOnlyAtLimit
  BY Zenon DEF ProtocolOnlyAtLimit
<1>5. QED BY Zenon, <1>1, <1>2, <1>3, <1>4 DEF IInv

\* A process's place and its call record are well typed after it goes on.
LEMMA ContinueType ==
    ASSUME TypeOK, NEW e \in Sides, NEW l \in Labels, NEW c \in CallType,
           Continue(e, l, c)
    PROVE  /\ pc' \in [Procs -> Labels]
           /\ call' \in [Procs -> CallType]
           /\ pc'[e] = l
           /\ call'[e] = IF l = "idle" THEN NoCall ELSE c
           /\ \A p \in Procs \ {e} : pc'[p] = pc[p] /\ call'[p] = call[p]
<1>1. NoCall \in CallType
  BY DEF NoCall, NewCall, CallType
<1>2. QED BY Zenon, <1>1 DEF Continue, Goto, TypeOK, Sides, Procs

\* A step that moves no byte keeps the rings and what was received, and the
\* side that does not step keeps what it knows, provided a closed flag is
\* only ever raised and a side's own only by itself.
LEMMA ControlFrame ==
    ASSUME IInv,
           UNCHANGED <<read, written, data, received>>,
           writer_closed' \in [Sides -> BOOLEAN],
           \A q \in Sides : writer_closed[q] => writer_closed'[q]
    PROVE  /\ Integrity' /\ RingInv'
           /\ \A d \in Sides :
                pc'[d] = pc[d] /\ call'[d] = call[d] /\ writer_closed'[d] = writer_closed[d]
                  => CopyOK(d)' /\ CallOK(d)'
           /\ UNCHANGED eof => EofComplete'
           /\ (UNCHANGED failure \/ failure' # "Protocol") => ProtocolOnlyAtLimit'
<1>1. Integrity' /\ RingInv'
  BY Zenon DEF IInv, Integrity, RingInv
<1>2. SUFFICES ASSUME NEW d \in Sides, pc'[d] = pc[d], call'[d] = call[d],
                      writer_closed'[d] = writer_closed[d]
               PROVE  CopyOK(d)' /\ CallOK(d)'
  <2>1. UNCHANGED eof => EofComplete'
    BY Zenon DEF IInv, EofComplete
  <2>2. (UNCHANGED failure \/ failure' # "Protocol") => ProtocolOnlyAtLimit'
    BY Zenon DEF IInv, ProtocolOnlyAtLimit
  <2>3. QED BY Zenon, <1>1, <2>1, <2>2
<1>3. CopyOK(d) /\ CallOK(d)
  BY Zenon DEF IInv, CallInv
<1>4. CopyOK(d)'
  BY Zenon, <1>2, <1>3 DEF CopyOK
<1>5. CallOK(d)'
  BY <1>2, <1>3 DEF CallOK, Cursor, Sides
<1>6. QED BY Zenon, <1>4, <1>5


\* The steps of a call that only look: the rings and the cursors are
\* untouched, so only what the call knows, and end of file, need an argument.
LEMMA LookStep ==
    ASSUME IInv, NEW e \in Sides, NEW l \in Labels, NEW c \in CallType,
           Continue(e, l, c),
           UNCHANGED <<read, written, writer_closed, reader_closed, data, failure, received>>,
           CopyOK(e)' /\ CallOK(e)',
           UNCHANGED eof \/ (eof' \in [Sides -> BOOLEAN] /\ EofComplete')
    PROVE  IInv'
<1>1. TypeOK'
  BY Zenon, ContinueType DEF IInv, TypeOK
<1>2. \A d \in Sides \ {e} : pc'[d] = pc[d] /\ call'[d] = call[d]
  BY ContinueType DEF IInv, Sides, Procs
<1>3. CallInv'
  BY ZenonT(60), <1>2, ControlFrame DEF CallInv, IInv, TypeOK
<1>4. QED BY Zenon, <1>1, <1>3, ControlFrame DEF IInv, TypeOK

\* The fields of a call record keep their types when one of them is set.
LEMMA CallFields ==
    ASSUME NEW c \in CallType, NEW n \in Nat, NEW m \in Int, NEW b \in BOOLEAN
    PROVE  /\ [c EXCEPT !.behind = n] \in CallType
           /\ [c EXCEPT !.count = m] \in CallType
           /\ [c EXCEPT !.closed = b] \in CallType
BY Zenon DEF CallType

LEMMA CallStep ==
    ASSUME IInv, NEW e \in Sides, NEW kind \in {"read", "write"}, NEW n \in 1 .. MaxLen,
           Call(e, kind, n)
    PROVE  IInv'
<1> DEFINE c == NewCall(kind, n)
<1>1. c \in CallType /\ c.op = kind /\ c.want = n /\ c.chunk = <<>>
  BY MaxLenAssumption DEF CallType, NewCall
<1>2. "sample" \in Labels
  BY Zenon DEF Labels
<1>3. Continue(e, "sample", c)
  BY Zenon DEF Call
<1> HIDE DEF c
<1>4. pc'[e] = "sample" /\ call'[e] = c
  BY <1>1, <1>2, <1>3, ContinueType DEF IInv
<1>5. CopyOK(e)' /\ CallOK(e)'
  BY Zenon, <1>1, <1>4 DEF CopyOK, CallOK
<1>6. QED BY Zenon, <1>1, <1>2, <1>3, <1>5, LookStep DEF Call

LEMMA SampleStep ==
    ASSUME IInv, NEW e \in Sides, Sample(e)
    PROVE  IInv'
<1> DEFINE c == [call[e] EXCEPT !.behind = 0]
<1>0. call[e] \in CallType
  BY Zenon DEF IInv, TypeOK, Sides, Procs
<1>1. c \in CallType /\ c.op = call[e].op /\ c.want = call[e].want /\ c.chunk = call[e].chunk
  BY Zenon, <1>0, CallFields DEF CallType
<1>2. "check" \in Labels
  BY Zenon DEF Labels
<1>3. Continue(e, "check", c) /\ pc[e] = "sample"
  BY Zenon DEF Sample
<1> HIDE DEF c
<1>4. pc'[e] = "check" /\ call'[e] = c
  BY <1>1, <1>2, <1>3, ContinueType DEF IInv
<1>5. CallOK(e)
  BY Zenon DEF IInv, CallInv
<1>6. CopyOK(e)' /\ CallOK(e)'
  BY Zenon, <1>1, <1>3, <1>4, <1>5 DEF CopyOK, CallOK
<1>7. QED BY Zenon, <1>1, <1>2, <1>3, <1>6, LookStep DEF Sample

LEMMA CheckFailureStep ==
    ASSUME IInv, NEW e \in Sides, CheckFailure(e)
    PROVE  IInv'
<1> DEFINE l == IF failure = "none" THEN "flag" ELSE "idle"
<1>1. call[e] \in CallType
  BY DEF IInv, TypeOK, Sides, Procs
<1>2. l \in Labels /\ l \in {"flag", "idle"}
  BY Zenon DEF Labels
<1>3. Continue(e, l, call[e]) /\ pc[e] = "check"
  BY Zenon DEF CheckFailure
<1> HIDE DEF l
<1>4. pc'[e] = l /\ call'[e] = IF l = "idle" THEN NoCall ELSE call[e]
  BY Zenon, <1>1, <1>2, <1>3, ContinueType DEF IInv
<1>5. CallOK(e)
  BY DEF IInv, CallInv
<1>6. CopyOK(e)' /\ CallOK(e)'
  BY Zenon, <1>2, <1>3, <1>4, <1>5 DEF CopyOK, CallOK
<1>7. QED BY Zenon, <1>1, <1>2, <1>3, <1>6, LookStep DEF CheckFailure

LEMMA LoadClosedStep ==
    ASSUME IInv, NEW e \in Sides, LoadClosed(e)
    PROVE  IInv'
<1>0. call[e] \in CallType /\ 1 - e \in Sides /\ writer_closed[1 - e] \in BOOLEAN
  BY DEF IInv, TypeOK, Sides, Procs
<1>1. CallOK(e) /\ pc[e] = "flag"
  BY Zenon DEF IInv, CallInv, LoadClosed
<1>2. CASE call[e].op = "read"
  <2> DEFINE c == [call[e] EXCEPT !.closed = writer_closed[1 - e]]
  <2>1. /\ c \in CallType /\ c.op = "read" /\ c.want = call[e].want
        /\ c.closed = writer_closed[1 - e] /\ c.chunk = call[e].chunk
    BY Zenon, <1>0, <1>2, CallFields DEF CallType
  <2>2. "cursor" \in Labels
    BY Zenon DEF Labels
  <2>3. Continue(e, "cursor", c)
    BY Zenon, <1>2 DEF LoadClosed
  <2> HIDE DEF c
  <2>4. pc'[e] = "cursor" /\ call'[e] = c
    BY <2>1, <2>2, <2>3, ContinueType DEF IInv
  <2>5. UNCHANGED writer_closed
    BY Zenon DEF LoadClosed
  <2>6. CopyOK(e)' /\ CallOK(e)'
    BY Zenon, <1>1, <2>1, <2>4, <2>5 DEF CopyOK, CallOK
  <2>7. QED BY Zenon, <2>1, <2>2, <2>3, <2>6, LookStep DEF LoadClosed
<1>3. CASE call[e].op # "read"
  <2> DEFINE l == IF reader_closed[e] \/ writer_closed[e] THEN "idle" ELSE "cursor"
  <2>1. l \in Labels /\ l \in {"idle", "cursor"} /\ (l = "cursor" => ~writer_closed[e])
    BY Zenon DEF Labels
  <2>2. Continue(e, l, call[e])
    BY Zenon, <1>3 DEF LoadClosed
  <2> HIDE DEF l
  <2>3. pc'[e] = l /\ call'[e] = IF l = "idle" THEN NoCall ELSE call[e]
    BY <1>0, <2>1, <2>2, ContinueType DEF IInv
  <2>4. UNCHANGED writer_closed
    BY DEF LoadClosed
  <2>5. CopyOK(e)' /\ CallOK(e)'
    BY Zenon, <1>1, <1>3, <2>1, <2>3, <2>4 DEF CopyOK, CallOK
  <2>6. QED BY Zenon, <1>0, <2>1, <2>2, <2>5, LookStep DEF LoadClosed
<1>4. QED BY Zenon, <1>2, <1>3


LEMMA LoadCursorStep ==
    ASSUME IInv, NEW e \in Sides, LoadCursor(e)
    PROVE  IInv'
<1> DEFINE q == RingOf(e)
           used == written[q] - read[q]
           room == IF call[e].op = "read" THEN used ELSE Capacity - used
           n == Lesser(room, call[e].want)
           legal == used \in 0 .. Capacity
           atEof == legal /\ room = 0 /\ call[e].op = "read" /\ call[e].closed
           l == CASE atEof -> "idle"
                  [] legal /\ room = 0 /\ ~atEof -> "wait"
                  [] legal /\ room > 0 /\ Cursor(e) + n <= MaxCursor -> "copy"
                  [] OTHER -> "protocol"
           c == [call[e] EXCEPT !.count = n]
<1>1. pc[e] = "cursor" /\ Continue(e, l, c) /\ eof' = [eof EXCEPT ![q] = @ \/ atEof]
  BY Zenon DEF LoadCursor
<1>2. /\ call[e] \in CallType
      /\ call[e].op \in {"read", "write"} /\ call[e].want \in 1 .. MaxLen
      /\ call[e].chunk = <<>>
      /\ call[e].op = "write" => ~writer_closed[e]
      /\ call[e].op = "read" /\ call[e].closed => writer_closed[1 - e]
  BY Zenon, <1>1 DEF IInv, TypeOK, CallInv, CallOK, Sides, Procs
<1>3. q \in Sides /\ q = IF call[e].op = "read" THEN 1 - e ELSE e
  BY DEF RingOf, Sides
<1>4. /\ read[q] \in Nat /\ written[q] \in Nat
      /\ read[q] <= written[q] /\ written[q] <= read[q] + Capacity
  BY Zenon, <1>3 DEF IInv, TypeOK, RingInv
<1>5. legal /\ room \in 0 .. Capacity
  BY <1>3, <1>4, CapacityAssumption
<1>6. /\ n \in Int /\ n <= room /\ n <= MaxLen
      /\ room > 0 => n >= 1
  BY <1>2, <1>5, CapacityAssumption, MaxLenAssumption DEF Lesser
<1>7. c \in CallType /\ c.count = n /\ c.op = call[e].op /\ c.want = call[e].want
      /\ c.chunk = <<>>
  BY Zenon, <1>2, <1>6, CallFields DEF CallType
<1>8. /\ l \in Labels
      /\ l \in {"idle", "wait", "copy", "protocol"}
      /\ l = "copy" => room > 0
      /\ l = "protocol" => Cursor(e) + n > MaxCursor
  <2>1. Cursor(e) \in Nat
    BY Zenon, <1>4, <1>3 DEF Cursor
  <2>2. l \in {"idle", "wait", "copy", "protocol"}
    OBVIOUS
  <2>3. l = "copy" => room > 0
    BY Zenon, <1>5
  <2>4. l = "protocol" => Cursor(e) + n > MaxCursor
    BY <1>5, <2>1, <1>6, MaxCursorAssumption, CapacityAssumption
  <2>5. QED BY Zenon, <2>2, <2>3, <2>4 DEF Labels
<1> HIDE DEF l, c
<1>9. pc'[e] = l /\ call'[e] = IF l = "idle" THEN NoCall ELSE c
  BY Zenon, <1>1, <1>7, <1>8, ContinueType DEF IInv
<1>10. UNCHANGED <<read, written, writer_closed, data, received>>
  BY Zenon DEF LoadCursor
<1>11. CopyOK(e)'
  <2> SUFFICES ASSUME l = "copy" PROVE CopyOK(e)'
    BY Zenon, <1>8, <1>9 DEF CopyOK
  <2>1. call'[e] = c /\ c.count >= 1 /\ c.count <= room /\ Len(c.chunk) = 0
    BY Zenon, <1>6, <1>7, <1>8, <1>9
  <2>2. c.op = "read" => read[1 - e] + c.count <= written[1 - e]
    <3> SUFFICES ASSUME c.op = "read" PROVE read[1 - e] + c.count <= written[1 - e]
      OBVIOUS
    <3>1. q = 1 - e /\ room = used
      BY Zenon, <1>3, <1>7
    <3>2. QED BY <3>1, <2>1, <1>4, <1>6, <1>7
  <2>3. c.op = "write" => written[e] + c.count <= read[e] + Capacity
    <3> SUFFICES ASSUME c.op = "write" PROVE written[e] + c.count <= read[e] + Capacity
      OBVIOUS
    <3>1. q = e /\ room = Capacity - used
      BY Zenon, <1>3, <1>7
    <3>2. QED BY <3>1, <2>1, <1>4, <1>6, <1>7, CapacityAssumption
  <2>4. \A k \in 1 .. Len(c.chunk) : FALSE
    BY <2>1
  <2>5. c.op = "write" => \A p \in written[e] .. written[e] + Len(c.chunk) - 1 : FALSE
    BY <2>1, <1>3, <1>4, <1>7
  <2>6. QED BY <2>1, <2>2, <2>3, <2>4, <2>5, <1>6, <1>7, <1>9, <1>10 DEF CopyOK
<1>12. CallOK(e)'
  <2>1. CASE l = "idle"
    BY Zenon, <2>1, <1>9 DEF CallOK
  <2>2. CASE l = "wait" \/ l = "copy"
    BY Zenon, <2>2, <1>2, <1>7, <1>9, <1>10 DEF CallOK
  <2>3. CASE l = "protocol"
    <3>1. Cursor(e)' = Cursor(e) /\ Cursor(e) \in Nat
      BY Zenon, <2>3, <1>3, <1>4, <1>7, <1>9, <1>10 DEF Cursor
    <3>2. Cursor(e)' + MaxLen > MaxCursor
      BY <3>1, <2>3, <1>6, <1>8, MaxCursorAssumption, MaxLenAssumption
    <3>3. QED BY Zenon, <2>3, <3>2, <1>2, <1>7, <1>9 DEF CallOK
  <2>4. QED BY Zenon, <2>1, <2>2, <2>3, <1>8
<1>13. eof' \in [Sides -> BOOLEAN]
  BY Zenon, <1>1, <1>3 DEF IInv, TypeOK
<1>14. EofComplete'
  <2>1. atEof => writer_closed[q] /\ Len(received[q]) = written[q]
    BY <1>2, <1>3, <1>4 DEF IInv, Integrity
  <2>2. \A r \in Sides : eof'[r] => eof[r] \/ (r = q /\ atEof)
    BY Zenon, <1>1 DEF IInv, TypeOK
  <2>3. QED BY Zenon, <2>1, <2>2, <1>10 DEF IInv, EofComplete
<1>15. QED BY Zenon, <1>1, <1>7, <1>8, <1>11, <1>12, <1>13, <1>14, LookStep DEF LoadCursor

\* Appending to the chunk keeps the record typed and only changes the chunk.
LEMMA ChunkAppend ==
    ASSUME TypeOK, NEW e \in Sides, NEW b \in Nat,
           call' = [call EXCEPT ![e].chunk = Append(@, b)]
    PROVE  /\ call' \in [Procs -> CallType]
           /\ \A p \in Procs \ {e} : call'[p] = call[p]
           /\ call'[e].op = call[e].op /\ call'[e].want = call[e].want
           /\ call'[e].closed = call[e].closed /\ call'[e].count = call[e].count
           /\ call'[e].chunk = Append(call[e].chunk, b)
<1>1. call \in [Procs -> CallType] /\ e \in Procs
  BY Zenon DEF TypeOK, Sides, Procs
<1> DEFINE c == [call[e] EXCEPT !.chunk = Append(@, b)]
<1>2. call[e] \in CallType /\ call[e].chunk \in Seq(Nat)
  BY Zenon, <1>1 DEF CallType
<1>3. Append(call[e].chunk, b) \in Seq(Nat)
  BY <1>2
<1>4. /\ c \in CallType
      /\ c.op = call[e].op /\ c.want = call[e].want
      /\ c.closed = call[e].closed /\ c.count = call[e].count
      /\ c.chunk = Append(call[e].chunk, b)
  BY ZenonT(60), <1>2, <1>3 DEF CallType
<1>5. call' = [call EXCEPT ![e] = c]
  OBVIOUS
<1> HIDE DEF c
<1>6. QED BY ZenonT(60), <1>1, <1>4, <1>5

LEMMA CopyByteStep ==
    ASSUME IInv, NEW e \in Sides, CopyByte(e)
    PROVE  IInv'
<1> DEFINE q == RingOf(e)
           i == Len(call[e].chunk)
           s == Slot(Cursor(e), call[e].count, i)
           byte == IF call[e].op = "read" THEN data[q][s] ELSE written[e] + i + 1
           pos == Cursor(e) + i
<1>1. /\ pc[e] = "copy" /\ i < call[e].count
      /\ call' = [call EXCEPT ![e].chunk = Append(@, byte)]
      /\ data' = IF call[e].op = "read" THEN data ELSE [data EXCEPT ![q][s] = byte]
      /\ UNCHANGED <<read, written, writer_closed, reader_closed, failure, pc, received, eof>>
  BY Zenon DEF CopyByte
<1>2. /\ call[e] \in CallType /\ call[e].chunk \in Seq(Nat) /\ call[e].count \in Int
      /\ i \in Nat /\ call[e].op \in {"read", "write"}
  <2>1. call[e] \in CallType
    BY DEF IInv, TypeOK, Sides, Procs
  <2>2. call[e].op \in {"read", "write"}
    BY Zenon, <1>1 DEF IInv, CallInv, CallOK
  <2>3. QED BY <2>1, <2>2 DEF CallType
<1>3. q \in Sides /\ q = IF call[e].op = "read" THEN 1 - e ELSE e
  BY DEF RingOf, Sides
<1>4. CopyOK(e) /\ CallOK(e)
  BY Zenon DEF IInv, CallInv
<1>5. /\ read[q] \in Nat /\ written[q] \in Nat
      /\ read[q] <= written[q] /\ written[q] <= read[q] + Capacity
      /\ \A p \in read[q] .. written[q] - 1 : data[q][p % Capacity] = p + 1
  BY Zenon, <1>3 DEF IInv, TypeOK, RingInv
<1>6. Cursor(e) \in Nat /\ call[e].count <= Capacity
  <2>1. CASE call[e].op = "read"
    BY <2>1, <1>1, <1>2, <1>3, <1>4, <1>5, CapacityAssumption DEF Cursor, CopyOK
  <2>2. CASE call[e].op = "write"
    BY <2>2, <1>1, <1>2, <1>3, <1>4, <1>5, CapacityAssumption DEF Cursor, CopyOK
  <2>3. QED BY Zenon, <2>1, <2>2, <1>2
<1>a. pos = Cursor(e) + i
  OBVIOUS
<1>b. i \in Nat
  BY Zenon, <1>2
<1>c. call[e].count \in Int /\ i < call[e].count
  BY Zenon, <1>1, <1>2
<1>7. s = pos % Capacity /\ s \in Slots
  <2> HIDE DEF i
  <2>1. call[e].count \in Nat
    BY <1>b, <1>c
  <2>2. QED BY Zenon, <1>b, <1>c, <1>6, <2>1, SlotIsModular
<1> HIDE DEF s
<1>8. byte = pos + 1 /\ byte \in Nat /\ pos \in Nat
  <2>1. CASE call[e].op = "read"
    <3>1. pos \in read[q] .. written[q] - 1
      <4>1. q = 1 - e /\ Cursor(e) = read[q]
        BY Zenon, <2>1, <1>3 DEF Cursor
      <4>2. read[q] + call[e].count <= written[q]
        BY Zenon, <2>1, <4>1, <1>1, <1>4 DEF CopyOK
      <4> HIDE DEF q, i, pos
      <4>3. read[q] \in Nat /\ written[q] \in Nat
        BY Zenon, <1>5
      <4>4. QED BY <4>1, <4>2, <4>3, <1>a, <1>b, <1>c
    <3>2. data[q][pos % Capacity] = pos + 1
      BY Zenon, <3>1, <1>5
    <3>3. QED BY <2>1, <3>1, <3>2, <1>5, <1>7
  <2>2. CASE call[e].op = "write"
    BY <2>2, <1>2, <1>3, <1>5 DEF Cursor
  <2>3. QED BY Zenon, <2>1, <2>2, <1>2
<1> HIDE DEF byte
<1>9. /\ call' \in [Procs -> CallType]
      /\ \A p \in Procs \ {e} : call'[p] = call[p]
      /\ call'[e].op = call[e].op /\ call'[e].want = call[e].want
      /\ call'[e].closed = call[e].closed /\ call'[e].count = call[e].count
      /\ call'[e].chunk = Append(call[e].chunk, byte)
  BY ZenonT(60), <1>1, <1>8, ChunkAppend DEF IInv
<1>10. /\ Len(call'[e].chunk) = i + 1
       /\ \A k \in 1 .. i : call'[e].chunk[k] = call[e].chunk[k]
       /\ call'[e].chunk[i + 1] = pos + 1
  BY <1>2, <1>8, <1>9
<1>11. data' \in [Sides -> [Slots -> Nat]]
  BY Zenon, <1>1, <1>3, <1>7, <1>8 DEF IInv, TypeOK
<1>12. TypeOK'
  BY Zenon, <1>1, <1>9, <1>11 DEF IInv, TypeOK
<1>13. Integrity' /\ EofComplete' /\ ProtocolOnlyAtLimit'
  BY Zenon, <1>1 DEF IInv, Integrity, EofComplete, ProtocolOnlyAtLimit
\* The slot being written belongs to no position of the last Capacity ones.
<1>14. ASSUME call[e].op = "write", NEW p \in read[e] .. pos - 1
       PROVE  data'[e][p % Capacity] = data[e][p % Capacity]
  <2>1. p \in Nat /\ p < pos /\ pos < p + Capacity
    <3>1. q = e /\ Cursor(e) = written[e]
      BY Zenon, <1>14, <1>3 DEF Cursor
    <3>2. written[e] + call[e].count <= read[e] + Capacity
      BY Zenon, <1>14, <1>1, <1>4 DEF CopyOK
    <3> HIDE DEF q, i, pos
    <3>3. p \in read[e] .. pos - 1
      BY Zenon, <1>14
    <3>4. read[e] \in Nat /\ written[e] \in Nat /\ pos \in Nat
      BY Zenon, <3>1, <1>5, <1>8
    <3>5. QED BY <3>1, <3>2, <3>3, <3>4, <1>a, <1>b, <1>c, CapacityAssumption
  <2>2. p % Capacity # pos % Capacity
    BY Zenon, <2>1, <1>8, ModInjective
  <2>3. p % Capacity \in Slots
    BY <2>1, CapacityAssumption DEF Slots
  <2>4. data' = [data EXCEPT ![e][s] = byte]
    BY Zenon, <1>14, <1>1, <1>3
  <2>5. QED BY Zenon, <2>2, <2>3, <2>4, <1>7 DEF IInv, TypeOK
<1>15. \A d \in Sides : d # e \/ call[e].op = "read" => data'[d] = data[d]
  BY Zenon, <1>1, <1>3 DEF IInv, TypeOK
<1>16. RingInv'
  <2> SUFFICES ASSUME NEW r \in Sides, NEW p \in read[r] .. written[r] - 1
               PROVE  data'[r][p % Capacity] = p + 1
    BY Zenon, <1>1 DEF IInv, RingInv
  <2>1. data[r][p % Capacity] = p + 1
    BY Zenon DEF IInv, RingInv
  <2>2. CASE r # e \/ call[e].op = "read"
    BY Zenon, <2>1, <2>2, <1>15
  <2>3. CASE r = e /\ call[e].op = "write"
    <3>1. p \in read[e] .. pos - 1
      <4>1. Cursor(e) = written[e] /\ read[e] \in Nat /\ written[e] \in Nat
        BY Zenon, <2>3, <1>3, <1>5 DEF Cursor
      <4> HIDE DEF q, i, pos
      <4>2. QED BY <2>3, <4>1, <1>a, <1>b
    <3>2. QED BY Zenon, <2>1, <2>3, <3>1, <1>14
  <2>4. QED BY Zenon, <2>2, <2>3, <1>2
<1>17. CopyOK(e)'
  <2>1. CASE call[e].op = "read"
    <3>1. pos = read[1 - e] + i /\ read[1 - e] \in Nat
      BY Zenon, <2>1, <1>3, <1>5 DEF Cursor
    <3>2. \A k \in 1 .. i + 1 : call'[e].chunk[k] = read[1 - e] + k
      <4>1. \A k \in 1 .. i : call[e].chunk[k] = read[1 - e] + k
        BY Zenon, <2>1, <1>1, <1>4 DEF CopyOK
      <4> HIDE DEF q, i, pos
      <4>2. call'[e].chunk[i + 1] = read[1 - e] + (i + 1)
        <5>1. pos + 1 = read[1 - e] + (i + 1)
          BY <3>1, <1>b
        <5>2. QED BY Zenon, <5>1, <1>10
      <4>3. \A k \in 1 .. i + 1 : k \in 1 .. i \/ k = i + 1
        BY <1>2
      <4>4. QED BY Zenon, <4>1, <4>2, <4>3, <1>10
    <3>3. QED BY <2>1, <3>2, <1>1, <1>2, <1>4, <1>9, <1>10 DEF CopyOK
  <2>2. CASE call[e].op = "write"
    <3>1. pos = written[e] + i /\ written[e] \in Nat
      BY Zenon, <2>2, <1>3, <1>5 DEF Cursor
    <3>2. data'[e][pos % Capacity] = pos + 1
      BY Zenon, <2>2, <1>1, <1>3, <1>7, <1>8 DEF IInv, TypeOK
    <3>3. \A p \in written[e] .. pos - 1 : data'[e][p % Capacity] = p + 1
      <4> TAKE p \in written[e] .. pos - 1
      <4>1. data[e][p % Capacity] = p + 1
        BY <2>2, <3>1, <1>1, <1>2, <1>4 DEF CopyOK
      <4>2. p \in read[e] .. pos - 1
        BY <2>2, <3>1, <1>3, <1>5, <1>2
      <4>3. QED BY Zenon, <4>1, <4>2, <2>2, <1>14
    <3>4. \A p \in written[e] .. written[e] + (i + 1) - 1 : data'[e][p % Capacity] = p + 1
      <4> HIDE DEF q, i, pos
      <4>1. \A p \in written[e] .. written[e] + (i + 1) - 1 :
                p \in written[e] .. pos - 1 \/ p = pos
        BY <3>1, <1>b
      <4>2. QED BY Zenon, <4>1, <3>2, <3>3
    <3>5. QED BY <2>2, <3>4, <1>1, <1>2, <1>4, <1>9, <1>10 DEF CopyOK
  <2>3. QED BY Zenon, <2>1, <2>2, <1>2
<1>18. CallOK(e)'
  BY Zenon, <1>1, <1>4, <1>9 DEF CallOK
<1>19. \A d \in Sides \ {e} : CopyOK(d)' /\ CallOK(d)'
  <2> TAKE d \in Sides \ {e}
  <2>1. CopyOK(d) /\ CallOK(d) /\ call'[d] = call[d] /\ pc'[d] = pc[d] /\ data'[d] = data[d]
    BY Zenon, <1>1, <1>9, <1>15 DEF IInv, CallInv, Sides, Procs
  <2>2. CopyOK(d)'
    BY Zenon, <2>1, <1>1 DEF CopyOK
  <2>3. CallOK(d)'
    BY Zenon, <2>1, <1>1 DEF CallOK, Cursor
  <2>4. QED BY Zenon, <2>2, <2>3
<1>20. QED BY Zenon, <1>12, <1>13, <1>16, <1>17, <1>18, <1>19 DEF IInv, CallInv

\* Concatenation adds lengths.
LEMMA ConcatSeq ==
    \A a, b \in Seq(Nat) : a \o b \in Seq(Nat) /\ Len(a \o b) = Len(a) + Len(b)
OBVIOUS

\* What a store of the cursor may rely on.
LEMMA StoreFacts ==
    ASSUME IInv, NEW e \in Sides, StoreCursor(e)
    PROVE  /\ call[e].op \in {"read", "write"} /\ call[e].count \in Nat \ {0}
           /\ \A q \in Sides : read[q] \in Nat /\ written[q] \in Nat
           /\ CopyOK(e) /\ pc[e] = "copy" /\ pc' = [pc EXCEPT ![e] = "bump"]
           /\ call[e].chunk \in Seq(Nat) /\ Len(call[e].chunk) = call[e].count
           /\ call[e].op = "write" => ~writer_closed[e]
<1>1. call[e] \in CallType
  BY DEF IInv, TypeOK, Sides, Procs
<1>2. CopyOK(e) /\ CallOK(e) /\ pc[e] = "copy"
  BY Zenon DEF IInv, CallInv, StoreCursor
<1>3. call[e].count \in Int /\ call[e].count >= 1 /\ call[e].chunk \in Seq(Nat)
  BY Zenon, <1>1, <1>2 DEF CallType, CopyOK
<1>4. call[e].op \in {"read", "write"} /\ (call[e].op = "write" => ~writer_closed[e])
  BY Zenon, <1>2 DEF CallOK
<1>5. \A q \in Sides : read[q] \in Nat /\ written[q] \in Nat
  BY Zenon DEF IInv, TypeOK
<1>6. QED BY <1>2, <1>3, <1>4, <1>5 DEF StoreCursor, Goto

LEMMA StoreReadStep ==
    ASSUME IInv, NEW e \in Sides, StoreCursor(e), call[e].op = "read"
    PROVE  IInv'
<1> DEFINE q == 1 - e
           n == call[e].count
<1>1. q \in Sides /\ n \in Nat \ {0} /\ read[q] \in Nat /\ written[q] \in Nat
  BY StoreFacts DEF Sides
<1>2. /\ read' = [read EXCEPT ![q] = @ + n]
      /\ received' = [received EXCEPT ![q] = @ \o call[e].chunk]
      /\ UNCHANGED <<written, writer_closed, reader_closed, data, failure, call, eof>>
  BY ZenonT(60) DEF StoreCursor
<1>3. read[q] + n <= written[q]
  BY Zenon, StoreFacts DEF CopyOK
<1>4. /\ received[q] \o call[e].chunk \in Seq(Nat)
      /\ Len(received[q] \o call[e].chunk) = read[q] + n
      /\ \A k \in 1 .. Len(received[q] \o call[e].chunk) : (received[q] \o call[e].chunk)[k] = k
  <2>1. \A k \in 1 .. n : call[e].chunk[k] = read[q] + k
    BY Zenon, StoreFacts DEF CopyOK
  <2>2. received[q] \in Seq(Nat) /\ Len(received[q]) = read[q]
        /\ \A k \in 1 .. read[q] : received[q][k] = k
    BY Zenon, <1>1 DEF IInv, TypeOK, Integrity
  <2>3. call[e].chunk \in Seq(Nat) /\ Len(call[e].chunk) = n /\ n \in Nat
    BY Zenon, StoreFacts
  <2> DEFINE a == received[q]
             b == call[e].chunk
             m == read[q]
  <2>4. /\ a \in Seq(Nat) /\ b \in Seq(Nat) /\ m \in Nat /\ n \in Nat
        /\ Len(a) = m /\ Len(b) = n
        /\ \A k \in 1 .. m : a[k] = k
        /\ \A k \in 1 .. n : b[k] = m + k
    BY Zenon, <2>1, <2>2, <2>3, <1>1
  <2> HIDE DEF q, n, a, b, m
  <2>5. /\ a \o b \in Seq(Nat) /\ Len(a \o b) = m + n
        /\ \A k \in 1 .. Len(a \o b) : (a \o b)[k] = k
    <3>0. a \in Seq(Nat) /\ b \in Seq(Nat) /\ Len(a) = m /\ Len(b) = n
      BY Zenon, <2>4
    <3>1. a \o b \in Seq(Nat) /\ Len(a \o b) = m + n
      <4>1. a \o b \in Seq(Nat) /\ Len(a \o b) = Len(a) + Len(b)
        BY <3>0, ConcatSeq, Zenon
      <4>2. QED BY Zenon, <4>1, <3>0
    <3>2. ASSUME NEW k \in 1 .. m + n PROVE (a \o b)[k] = k
      <4>1. CASE k \in 1 .. m
        <5>1. (a \o b)[k] = a[k]
          BY <4>1, <2>4
        <5>2. QED BY Zenon, <4>1, <5>1, <2>4
      <4>2. CASE k > m
        <5>1. (a \o b)[k] = b[k - m] /\ k - m \in 1 .. n
          BY <4>2, <3>2, <2>4
        <5>2. b[k - m] = m + (k - m)
          BY Zenon, <5>1, <2>4
        <5>3. QED BY <5>1, <5>2, <3>2, <2>4
      <4>3. QED BY <4>1, <4>2, <3>2, <2>4
    <3>3. QED BY Zenon, <3>1, <3>2
  <2>6. QED BY ZenonT(60), <2>5 DEF a, b, m
<1>5. /\ read'[q] = read[q] + n /\ received'[q] = received[q] \o call[e].chunk
      /\ \A r \in Sides \ {q} : read'[r] = read[r] /\ received'[r] = received[r]
  BY ZenonT(60), <1>1, <1>2 DEF IInv, TypeOK
<1>6. read' \in [Sides -> Nat] /\ received' \in [Sides -> Seq(Nat)]
  BY <1>1, <1>2, <1>4 DEF IInv, TypeOK
<1>7. pc' \in [Procs -> Labels] /\ pc'[e] = "bump" /\ \A p \in Procs \ {e} : pc'[p] = pc[p]
  BY StoreFacts DEF IInv, TypeOK, Labels, Sides, Procs
<1>8. TypeOK'
  BY Zenon, <1>2, <1>6, <1>7 DEF IInv, TypeOK
<1>9. Integrity'
  BY ZenonT(60), <1>4, <1>5 DEF IInv, Integrity
<1>10. RingInv'
  <2>1. \A p \in read'[q] .. written[q] - 1 : p \in read[q] .. written[q] - 1
    BY <1>1, <1>5
  <2>2. read'[q] <= written[q] /\ written[q] <= read'[q] + Capacity
    BY <1>1, <1>3, <1>5, CapacityAssumption DEF IInv, RingInv
  <2>3. QED BY Zenon, <2>1, <2>2, <1>2, <1>5 DEF IInv, RingInv
<1>11. EofComplete'
  <2>1. ~eof[q]
    BY <1>1, <1>3 DEF IInv, EofComplete, Integrity
  <2>2. QED BY ZenonT(60), <2>1, <1>2, <1>5 DEF IInv, EofComplete
<1>12. ProtocolOnlyAtLimit'
  <2>1. \A r \in Sides : read[r] \in Nat /\ read'[r] >= read[r] /\ read'[r] \in Nat
    <3> TAKE r \in Sides
    <3>1. read[r] \in Nat /\ read'[r] \in Nat
      BY Zenon, <1>6 DEF IInv, TypeOK
    <3>2. CASE r = q
      BY <3>1, <3>2, <1>1, <1>5
    <3>3. CASE r # q
      BY <3>1, <3>3, <1>5
    <3>4. QED BY Zenon, <3>1, <3>2, <3>3
  <2>2. QED BY <2>1, <1>2, MaxLenAssumption, MaxCursorAssumption DEF IInv, ProtocolOnlyAtLimit
<1>13. CopyOK(e)' /\ CallOK(e)'
  BY Zenon, <1>7 DEF CopyOK, CallOK
<1>14. \A d \in Sides \ {e} : CopyOK(d)' /\ CallOK(d)'
  <2> TAKE d \in Sides \ {e}
  <2>1. d = q /\ 1 - d \in Sides \ {q} /\ CopyOK(d) /\ CallOK(d) /\ pc'[d] = pc[d]
    BY <1>7 DEF IInv, CallInv, Sides, Procs
  <2>2. read'[1 - d] = read[1 - d]
    BY Zenon, <2>1, <1>5
  <2>3. pc[d] = "copy" /\ call[d].op = "write" =>
            written[d] + call[d].count <= read'[d] + Capacity
    <3>1. call[d].count \in Int
      BY ZenonT(60) DEF IInv, TypeOK, CallType, Sides, Procs
    <3>2. SUFFICES ASSUME pc[d] = "copy", call[d].op = "write"
                   PROVE  written[d] + call[d].count <= read'[d] + Capacity
      OBVIOUS
    <3>3. written[d] + call[d].count <= read[d] + Capacity
      BY Zenon, <3>2, <2>1 DEF CopyOK
    <3>4. read'[d] = read[d] + n /\ read[d] \in Nat /\ written[d] \in Nat
      BY Zenon, <2>1, <1>1, <1>5
    <3> HIDE DEF n
    <3>5. QED BY <3>1, <3>3, <3>4, <1>1, CapacityAssumption
  <2>4. CopyOK(d)'
    BY Zenon, <2>1, <2>2, <2>3, <1>2 DEF CopyOK
  <2>5. CallOK(d)'
    BY Zenon, <2>1, <2>2, <1>2 DEF CallOK, Cursor
  <2>6. QED BY Zenon, <2>4, <2>5
<1>15. QED BY Zenon, <1>8, <1>9, <1>10, <1>11, <1>12, <1>13, <1>14 DEF IInv, CallInv

LEMMA StoreWriteStep ==
    ASSUME IInv, NEW e \in Sides, StoreCursor(e), call[e].op = "write"
    PROVE  IInv'
<1> DEFINE n == call[e].count
<1>1. n \in Nat \ {0} /\ read[e] \in Nat /\ written[e] \in Nat /\ ~writer_closed[e]
  BY Zenon, StoreFacts
<1>2. /\ written' = [written EXCEPT ![e] = @ + n]
      /\ UNCHANGED <<read, received, writer_closed, reader_closed, data, failure, call, eof>>
  BY Zenon DEF StoreCursor
<1>3. /\ written[e] + n <= read[e] + Capacity
      /\ \A p \in written[e] .. written[e] + n - 1 : data[e][p % Capacity] = p + 1
  BY Zenon, StoreFacts DEF CopyOK
<1>4. written'[e] = written[e] + n /\ \A r \in Sides \ {e} : written'[r] = written[r]
  BY Zenon, <1>1, <1>2 DEF IInv, TypeOK
<1>5. written' \in [Sides -> Nat]
  BY <1>1, <1>2 DEF IInv, TypeOK
<1>6. pc' \in [Procs -> Labels] /\ pc'[e] = "bump" /\ \A p \in Procs \ {e} : pc'[p] = pc[p]
  BY StoreFacts DEF IInv, TypeOK, Labels, Sides, Procs
<1>7. TypeOK'
  BY Zenon, <1>2, <1>5, <1>6 DEF IInv, TypeOK
<1>8. Integrity'
  BY Zenon, <1>2 DEF IInv, Integrity
<1>9. RingInv'
  <2>1. read[e] <= written[e]
        /\ \A p \in read[e] .. written[e] - 1 : data[e][p % Capacity] = p + 1
    BY Zenon DEF IInv, RingInv
  <2>2. \A p \in read[e] .. written'[e] - 1 :
            p \in read[e] .. written[e] - 1 \/ p \in written[e] .. written[e] + n - 1
    BY <1>1, <1>4
  <2>3. \A p \in read[e] .. written'[e] - 1 : data[e][p % Capacity] = p + 1
    BY Zenon, <2>1, <2>2, <1>3
  <2>4. read[e] <= written'[e] /\ written'[e] <= read[e] + Capacity
    BY <2>1, <1>1, <1>3, <1>4
  <2>5. QED BY Zenon, <2>3, <2>4, <1>2, <1>4 DEF IInv, RingInv
<1>10. EofComplete'
  BY Zenon, <1>1, <1>2, <1>4 DEF IInv, EofComplete
<1>11. ProtocolOnlyAtLimit'
  <2>1. \A r \in Sides : written[r] \in Nat /\ written'[r] >= written[r] /\ written'[r] \in Nat
    <3> TAKE r \in Sides
    <3>1. written[r] \in Nat /\ written'[r] \in Nat
      BY Zenon, <1>5 DEF IInv, TypeOK
    <3>2. CASE r = e
      BY <3>1, <3>2, <1>1, <1>4
    <3>3. CASE r # e
      BY <3>1, <3>3, <1>4
    <3>4. QED BY Zenon, <3>1, <3>2, <3>3
  <2>2. QED BY <2>1, <1>2, MaxLenAssumption, MaxCursorAssumption DEF IInv, ProtocolOnlyAtLimit
<1>12. CopyOK(e)' /\ CallOK(e)'
  BY Zenon, <1>6 DEF CopyOK, CallOK
<1>13. \A d \in Sides \ {e} : CopyOK(d)' /\ CallOK(d)'
  <2> TAKE d \in Sides \ {e}
  <2>1. 1 - d = e /\ CopyOK(d) /\ CallOK(d) /\ pc'[d] = pc[d] /\ written'[d] = written[d]
    BY <1>4, <1>6 DEF IInv, CallInv, Sides, Procs
  <2>2. pc[d] = "copy" /\ call[d].op = "read" =>
            read[e] + call[d].count <= written'[e]
    <3>1. call[d].count \in Int
      BY ZenonT(60) DEF IInv, TypeOK, CallType, Sides, Procs
    <3>2. QED BY <3>1, <2>1, <1>1, <1>4 DEF CopyOK
  <2>3. CopyOK(d)'
    BY Zenon, <2>1, <2>2, <1>2 DEF CopyOK
  <2>4. CallOK(d)'
    BY Zenon, <2>1, <1>2 DEF CallOK, Cursor
  <2>5. QED BY Zenon, <2>3, <2>4
<1>14. QED BY Zenon, <1>7, <1>8, <1>9, <1>10, <1>11, <1>12, <1>13 DEF IInv, CallInv

-----------------------------------------------------------------------------
\* The steps outside the two try loops move no byte: they move processes and
\* raise flags.  A process that is not in a loop has nothing to remember.
LEMMA ControlStep ==
    ASSUME IInv, NEW p \in Procs,
           UNCHANGED <<read, written, data, received, eof>>,
           writer_closed' \in [Sides -> BOOLEAN], reader_closed' \in [Sides -> BOOLEAN],
           \A q \in Sides : writer_closed[q] => writer_closed'[q],
           \A q \in Sides \ {p} : writer_closed'[q] = writer_closed[q],
           failure' \in {"none", "Cancelled", "PeerFailed", "Protocol"},
           ProtocolOnlyAtLimit' \/ failure' = failure,
           call' \in [Procs -> CallType], pc' \in [Procs -> Labels],
           \A r \in Procs \ {p} : pc'[r] = pc[r] /\ call'[r] = call[r],
           \/ pc'[p] \in {"idle", "bump", "wake", "drop", "gone", "dead"}
           \/ /\ pc'[p] \in {"sample", "asleep"} /\ pc[p] \in {"wait", "asleep"}
              /\ call'[p] = call[p]
    PROVE  IInv'
<1>1. TypeOK'
  BY Zenon DEF IInv, TypeOK
<1>2. Integrity' /\ RingInv' /\ EofComplete' /\ ProtocolOnlyAtLimit'
  BY ZenonT(60), ControlFrame
<1>3. \A d \in Sides \ {p} : CopyOK(d)' /\ CallOK(d)'
  BY Zenon, ControlFrame DEF Sides, Procs
<1>4. p \in Sides => CopyOK(p)' /\ CallOK(p)'
  BY Zenon DEF IInv, CallInv, CopyOK, CallOK
<1>5. QED BY Zenon, <1>1, <1>2, <1>3, <1>4 DEF IInv, CallInv

\* Where a Goto leads, and the record a process keeps.
LEMMA GotoType ==
    ASSUME TypeOK, NEW p \in Procs, NEW l \in Labels, Goto(p, l)
    PROVE  /\ pc' \in [Procs -> Labels] /\ pc'[p] = l
           /\ \A r \in Procs \ {p} : pc'[r] = pc[r]
BY Zenon DEF Goto, TypeOK

LEMMA SetOp ==
    ASSUME TypeOK, NEW p \in Procs, NEW o \in {"close", "drop", "abort"},
           call' = [call EXCEPT ![p].op = o]
    PROVE  call' \in [Procs -> CallType] /\ \A r \in Procs \ {p} : call'[r] = call[r]
<1>1. [call[p] EXCEPT !.op = o] \in CallType
  BY ZenonT(60) DEF TypeOK, CallType
<1>2. QED BY Zenon, <1>1 DEF TypeOK

LEMMA ClearCall ==
    ASSUME TypeOK, NEW p \in Procs, call' = [call EXCEPT ![p] = NoCall]
    PROVE  call' \in [Procs -> CallType] /\ \A r \in Procs \ {p} : call'[r] = call[r]
<1>1. NoCall \in CallType
  BY DEF NoCall, NewCall, CallType
<1>2. QED BY Zenon, <1>1 DEF TypeOK

LEMMA ImportStep ==
    ASSUME IInv, Import PROVE IInv'
<1>1. 1 \in Procs /\ "idle" \in Labels /\ TypeOK
  BY Zenon DEF Procs, Labels, IInv
<1>2. Goto(1, "idle") /\ UNCHANGED <<read, written, writer_closed, reader_closed, data, failure,
                   call, received, eof>>
  BY Zenon DEF Import
<1>3. /\ pc' \in [Procs -> Labels] /\ pc'[1] = "idle"
      /\ \A r \in Procs \ {1} : pc'[r] = pc[r]
  BY Zenon, <1>1, <1>2, GotoType
<1>4. QED BY ZenonT(60), <1>1, <1>2, <1>3, ControlStep DEF TypeOK

LEMMA SleepStep ==
    ASSUME IInv, NEW e \in Sides, FutexWait(e) \/ Timeout(e) PROVE IInv'
<1>1. e \in Procs /\ TypeOK /\ pc[e] \in {"wait", "asleep"}
  BY Zenon DEF Procs, Sides, IInv, FutexWait, Timeout
<1>2. PICK l \in {"asleep", "sample"} : Goto(e, l)
  BY Zenon DEF FutexWait, Timeout
<1>3. UNCHANGED <<read, written, writer_closed, reader_closed, data, failure,
                   call, received, eof>>
  BY Zenon DEF FutexWait, Timeout
<1>4. l \in Labels
  BY Zenon DEF Labels
<1>5. /\ pc' \in [Procs -> Labels] /\ pc'[e] = l
      /\ \A r \in Procs \ {e} : pc'[r] = pc[r]
  BY Zenon, <1>1, <1>2, <1>4, GotoType
<1>6. QED BY ZenonT(60), <1>1, <1>3, <1>5, ControlStep DEF TypeOK

\* abort keeps the first failure; only a cursor at its limit makes it Protocol.
LEMMA AbortStep ==
    ASSUME IInv, NEW p \in Procs, NEW f \in {"Cancelled", "PeerFailed", "Protocol"},
           Abort(p, f),
           call' \in [Procs -> CallType],
           \A r \in Procs \ {p} : call'[r] = call[r],
           f = "Protocol" => \E q \in Sides : read[q] + MaxLen > MaxCursor
                                              \/ written[q] + MaxLen > MaxCursor
    PROVE  IInv'
<1>1. "bump" \in Labels /\ TypeOK
  BY Zenon DEF Labels, IInv
<1>2. /\ pc' \in [Procs -> Labels] /\ pc'[p] = "bump"
      /\ \A r \in Procs \ {p} : pc'[r] = pc[r]
  BY Zenon, <1>1, GotoType DEF Abort
<1>3. /\ UNCHANGED <<read, written, writer_closed, reader_closed, data, received, eof>>
      /\ failure' = IF failure = "none" THEN f ELSE failure
  BY Zenon DEF Abort
<1>4. ProtocolOnlyAtLimit'
  BY Zenon, <1>3 DEF IInv, ProtocolOnlyAtLimit
<1>5. failure' \in {"none", "Cancelled", "PeerFailed", "Protocol"}
  BY Zenon, <1>1, <1>3 DEF TypeOK
<1>6. QED BY ZenonT(60), <1>1, <1>2, <1>3, <1>4, <1>5, ControlStep DEF TypeOK

LEMMA ErrorStep ==
    ASSUME IInv, NEW e \in Sides, ProtocolError(e) \/ FutexError(e) PROVE IInv'
<1>1. e \in Procs /\ call' = call /\ call \in [Procs -> CallType]
  BY Zenon DEF Procs, Sides, IInv, TypeOK, ProtocolError, FutexError
<1>2. CASE ProtocolError(e)
  <2>1. pc[e] = "protocol" /\ Abort(e, "Protocol")
    BY Zenon, <1>2 DEF ProtocolError
  <2>2. Cursor(e) + MaxLen > MaxCursor
    BY Zenon, <2>1 DEF IInv, CallInv, CallOK
  <2>3. \E q \in Sides : read[q] + MaxLen > MaxCursor \/ written[q] + MaxLen > MaxCursor
    BY <2>2 DEF Cursor, Sides
  <2>4. QED BY Zenon, <2>1, <2>3, <1>1, AbortStep
<1>3. CASE FutexError(e)
  BY Zenon, <1>1, <1>3, AbortStep DEF FutexError
<1>4. QED BY Zenon, <1>2, <1>3

LEMMA OwnerAbortStep ==
    ASSUME IInv, NEW f \in {"Cancelled", "PeerFailed"}, OwnerAbort(f) PROVE IInv'
<1>1. Owner \in Procs /\ TypeOK /\ Abort(Owner, f)
      /\ call' = [call EXCEPT ![Owner].op = "abort"]
  BY Zenon DEF Procs, Owner, IInv, OwnerAbort
<1>2. call' \in [Procs -> CallType] /\ \A r \in Procs \ {Owner} : call'[r] = call[r]
  BY ZenonT(60), <1>1, SetOp
<1>3. QED BY Zenon, <1>1, <1>2, AbortStep

LEMMA CloseStep ==
    ASSUME IInv, NEW e \in Sides, CloseWrite(e) \/ DropWriter(e) PROVE IInv'
<1>1. e \in Procs /\ TypeOK
  BY Zenon DEF Procs, Sides, IInv
<1>2. PICK l \in {"bump", "drop"} : Goto(e, l)
  BY Zenon DEF CloseWrite, DropWriter
<1>3. PICK o \in {"close", "drop"} : call' = [call EXCEPT ![e].op = o]
  BY Zenon DEF CloseWrite, DropWriter
<1>4. /\ writer_closed' = [writer_closed EXCEPT ![e] = TRUE]
      /\ UNCHANGED <<read, written, reader_closed, data, failure, received, eof>>
  BY Zenon DEF CloseWrite, DropWriter
<1>5. call' \in [Procs -> CallType] /\ \A r \in Procs \ {e} : call'[r] = call[r]
  BY ZenonT(60), <1>1, <1>3, SetOp
<1>6. l \in Labels
  BY Zenon DEF Labels
<1>7. /\ pc' \in [Procs -> Labels] /\ pc'[e] = l
      /\ \A r \in Procs \ {e} : pc'[r] = pc[r]
  BY Zenon, <1>1, <1>2, <1>6, GotoType
<1>8. /\ writer_closed' \in [Sides -> BOOLEAN]
      /\ \A q \in Sides : writer_closed[q] => writer_closed'[q]
      /\ \A q \in Sides \ {e} : writer_closed'[q] = writer_closed[q]
  BY Zenon, <1>1, <1>4 DEF TypeOK
<1>9. QED BY ZenonT(60), <1>1, <1>4, <1>5, <1>7, <1>8, ControlStep DEF TypeOK

LEMMA DropReaderStep ==
    ASSUME IInv, NEW e \in Sides, DropReader(e) PROVE IInv'
<1>1. e \in Procs /\ TypeOK /\ "bump" \in Labels /\ Goto(e, "bump")
  BY Zenon DEF Procs, Sides, IInv, Labels, DropReader
<1>2. /\ reader_closed' = [reader_closed EXCEPT ![1 - e] = TRUE]
      /\ UNCHANGED <<read, written, writer_closed, data, failure, call, received, eof>>
  BY Zenon DEF DropReader
<1>3. /\ pc' \in [Procs -> Labels] /\ pc'[e] = "bump"
      /\ \A r \in Procs \ {e} : pc'[r] = pc[r]
  BY Zenon, <1>1, GotoType
<1>4. reader_closed' \in [Sides -> BOOLEAN]
  BY Zenon, <1>1, <1>2 DEF TypeOK, Sides
<1>5. QED BY ZenonT(60), <1>1, <1>2, <1>3, <1>4, ControlStep DEF TypeOK

LEMMA CrashStep ==
    ASSUME IInv, NEW e \in Sides, Crash(e) PROVE IInv'
<1>1. e \in Procs /\ TypeOK /\ call' = [call EXCEPT ![e] = NoCall]
  BY Zenon DEF Procs, Sides, IInv, Crash
<1>2. PICK l \in {"dead", "gone"} : Goto(e, l)
  BY Zenon DEF Crash
<1>3. UNCHANGED <<read, written, writer_closed, reader_closed, data, failure, received, eof>>
  BY Zenon DEF Crash
<1>4. l \in Labels
  BY Zenon DEF Labels
<1>5. /\ pc' \in [Procs -> Labels] /\ pc'[e] = l
      /\ \A r \in Procs \ {e} : pc'[r] = pc[r]
  BY Zenon, <1>1, <1>2, <1>4, GotoType
<1>6. call' \in [Procs -> CallType] /\ \A r \in Procs \ {e} : call'[r] = call[r]
  BY ZenonT(60), <1>1, ClearCall
<1>7. QED BY ZenonT(60), <1>1, <1>3, <1>5, <1>6, ControlStep DEF TypeOK

\* notify only counts one more bump in the calls under way.
LEMMA BumpStep ==
    ASSUME IInv, NEW p \in Procs, Bump(p) PROVE IInv'
<1>1. TypeOK /\ "wake" \in Labels /\ Goto(p, "wake") /\ pc[p] = "bump"
  BY Zenon DEF IInv, Labels, Bump
<1>2. /\ pc' \in [Procs -> Labels] /\ pc'[p] = "wake"
      /\ \A r \in Procs \ {p} : pc'[r] = pc[r]
  BY Zenon, <1>1, GotoType
<1>3. UNCHANGED <<read, written, writer_closed, reader_closed, data, failure, received, eof>>
  BY Zenon DEF Bump
<1>4. \A r \in Procs :
        /\ call'[r] \in CallType
        /\ call'[r].op = call[r].op /\ call'[r].want = call[r].want
        /\ call'[r].closed = call[r].closed /\ call'[r].count = call[r].count
        /\ call'[r].chunk = call[r].chunk
  <2> TAKE r \in Procs
  <2>1. call[r] \in CallType
    BY Zenon, <1>1 DEF TypeOK
  <2>2. call[r].behind + 1 \in Nat
    BY <2>1 DEF CallType
  <2>3. call'[r] = [call[r] EXCEPT !.behind = call[r].behind + 1] \/ call'[r] = call[r]
    BY Zenon DEF Bump
  <2> DEFINE n == call[r].behind + 1
  <2>4. n \in Nat /\ (call'[r] = [call[r] EXCEPT !.behind = n] \/ call'[r] = call[r])
    BY Zenon, <2>2, <2>3
  <2> HIDE DEF n
  <2>5. QED BY Zenon, <2>1, <2>4 DEF CallType
<1>5. call' \in [Procs -> CallType]
  <2>1. call' = [r \in Procs |-> call'[r]]
    BY Zenon DEF Bump
  <2>2. QED BY Zenon, <2>1, <1>4
<1>6. TypeOK'
  BY Zenon, <1>1, <1>2, <1>3, <1>5 DEF TypeOK
<1>7. Integrity' /\ RingInv' /\ EofComplete' /\ ProtocolOnlyAtLimit'
  BY Zenon, <1>1, <1>3, ControlFrame DEF TypeOK
<1>8. CallInv'
  <2> SUFFICES ASSUME NEW d \in Sides PROVE CopyOK(d)' /\ CallOK(d)'
    BY Zenon DEF CallInv
  <2>1. CopyOK(d) /\ CallOK(d) /\ d \in Procs
    BY Zenon DEF IInv, CallInv, Sides, Procs
  <2>2. /\ call'[d].op = call[d].op /\ call'[d].want = call[d].want
        /\ call'[d].closed = call[d].closed /\ call'[d].count = call[d].count
        /\ call'[d].chunk = call[d].chunk
    BY Zenon, <2>1, <1>4
  <2>3. CASE d = p
    BY Zenon, <2>3, <1>2 DEF CopyOK, CallOK
  <2>4. CASE d # p
    <3>1. pc'[d] = pc[d]
      BY Zenon, <2>1, <2>4, <1>2
    <3>2. CopyOK(d)'
      BY Zenon, <3>1, <2>1, <2>2, <1>3 DEF CopyOK
    <3>3. CallOK(d)'
      BY ZenonT(60), <3>1, <2>1, <2>2, <1>3 DEF CallOK, Cursor
    <3>4. QED BY Zenon, <3>2, <3>3
  <2>5. QED BY Zenon, <2>3, <2>4
<1>9. QED BY Zenon, <1>6, <1>7, <1>8 DEF IInv

LEMMA WakeStep ==
    ASSUME IInv, NEW p \in Procs, Wake(p) PROVE IInv'
<1>1. TypeOK /\ call' = [call EXCEPT ![p] = NoCall]
  BY Zenon DEF IInv, Wake
<1>2. UNCHANGED <<read, written, writer_closed, reader_closed, data, failure, received, eof>>
  BY Zenon DEF Wake
<1>3. call' \in [Procs -> CallType] /\ \A r \in Procs \ {p} : call'[r] = call[r]
  BY ZenonT(60), <1>1, ClearCall
<1>4. /\ pc'[p] \in {"gone", "idle"}
      /\ \A r \in Procs \ {p} : pc'[r] = pc[r] \/ (pc[r] = "asleep" /\ pc'[r] = "sample")
  BY Zenon DEF Wake
<1>5. pc' \in [Procs -> Labels]
  <2>1. pc' = [r \in Procs |-> pc'[r]]
    BY Zenon DEF Wake
  <2>2. \A r \in Procs : pc'[r] \in Labels
    BY Zenon, <1>1, <1>4 DEF TypeOK, Labels
  <2>3. QED BY Zenon, <2>1, <2>2
<1>6. TypeOK'
  BY Zenon, <1>1, <1>2, <1>3, <1>5 DEF TypeOK
<1>7. Integrity' /\ RingInv' /\ EofComplete' /\ ProtocolOnlyAtLimit'
  BY Zenon, <1>1, <1>2, ControlFrame DEF TypeOK
<1>8. CallInv'
  <2> SUFFICES ASSUME NEW d \in Sides PROVE CopyOK(d)' /\ CallOK(d)'
    BY DEF CallInv
  <2>1. CopyOK(d) /\ CallOK(d) /\ d \in Procs
    BY DEF IInv, CallInv, Sides, Procs
  <2>2. CASE d = p
    BY Zenon, <2>2, <1>4 DEF CopyOK, CallOK
  <2>3. CASE d # p /\ pc'[d] = pc[d]
    BY Zenon, <2>1, <2>3, <1>1, <1>2, <1>3, ControlFrame DEF TypeOK
  <2>4. CASE d # p /\ pc[d] = "asleep" /\ pc'[d] = "sample"
    BY Zenon, <2>1, <2>4, <1>3 DEF CopyOK, CallOK
  <2>5. QED BY Zenon, <2>1, <2>2, <2>3, <2>4, <1>4
<1>9. QED BY <1>6, <1>7, <1>8 DEF IInv

-----------------------------------------------------------------------------
LEMMA NextIInv == IInv /\ [Next]_vars => IInv'
<1> SUFFICES ASSUME IInv, [Next]_vars PROVE IInv'
  OBVIOUS
<1>1. CASE Import
  BY Zenon, <1>1, ImportStep
<1>2. ASSUME NEW use \in Uses, NEW n \in 1 .. MaxLen, Call(use[1], use[2], n) PROVE IInv'
  <2>1. use[1] \in Sides /\ use[2] \in {"read", "write"}
    BY Zenon, UsesAssumption
  <2>2. QED BY Zenon, <1>2, <2>1, CallStep
<1>3. ASSUME NEW e \in Sides, Step(e) PROVE IInv'
  <2>1. CASE Sample(e)         BY Zenon, <2>1, SampleStep
  <2>2. CASE CheckFailure(e)   BY Zenon, <2>2, CheckFailureStep
  <2>3. CASE LoadClosed(e)     BY <2>3, LoadClosedStep
  <2>4. CASE LoadCursor(e)     BY <2>4, LoadCursorStep
  <2>5. CASE CopyByte(e)       BY <2>5, CopyByteStep
  <2>6. CASE StoreCursor(e)    BY Zenon, <2>6, StoreFacts, StoreReadStep, StoreWriteStep
  <2>7. CASE ProtocolError(e)  BY Zenon, <2>7, ErrorStep
  <2>8. CASE DropReader(e)     BY <2>8, DropReaderStep
  <2>9. CASE FutexWait(e)      BY Zenon, <2>9, SleepStep
  <2>10. QED
    BY Zenon, <1>3, <2>1, <2>2, <2>3, <2>4, <2>5, <2>6, <2>7, <2>8, <2>9 DEF Step
<1>4. ASSUME NEW p \in Procs, Bump(p) \/ Wake(p) PROVE IInv'
  BY Zenon, <1>4, BumpStep, WakeStep
<1>5. ASSUME NEW e \in Sides, Timeout(e) \/ FutexError(e) PROVE IInv'
  BY Zenon, <1>5, SleepStep, ErrorStep
<1>6. ASSUME NEW f \in {"Cancelled", "PeerFailed"}, OwnerAbort(f) PROVE IInv'
  BY Zenon, <1>6, OwnerAbortStep
<1>7. ASSUME NEW e \in Sides, CloseWrite(e) \/ DropWriter(e) \/ Crash(e) PROVE IInv'
  BY Zenon, <1>7, CloseStep, CrashStep
<1>8. CASE UNCHANGED vars
  <2>1. TypeOK' /\ Integrity' /\ RingInv' /\ EofComplete' /\ ProtocolOnlyAtLimit'
    BY Zenon, <1>8 DEF vars, IInv, TypeOK, Integrity, RingInv, EofComplete, ProtocolOnlyAtLimit
  <2>2. CallInv'
    BY ZenonT(60), <1>8 DEF vars, IInv, CallInv, CopyOK, CallOK, Cursor
  <2>3. QED BY Zenon, <2>1, <2>2 DEF IInv
<1>9. QED BY Zenon, <1>1, <1>2, <1>3, <1>4, <1>5, <1>6, <1>7, <1>8 DEF Next

\* Every reachable state of the mapped stream satisfies the invariant.
THEOREM Invariant == Spec => []IInv
BY InitIInv, NextIInv, PTL DEF Spec

\* try_read and try_write deliver the bytes written, in order, each once, at
\* every capacity: the two-piece copies never meet in a slot.  try_read loads
\* the closed flag before the cursor, so end of file is never returned while
\* published bytes remain; used and checked_add reject only a cursor that is
\* about to overflow; and shared words, calls and histories keep their types.
THEOREM FaithfulStream == Spec => []StreamIsFaithful
<1>1. IInv => StreamIsFaithful  BY Zenon DEF IInv, StreamIsFaithful
<1>2. QED BY <1>1, Invariant, PTL

-----------------------------------------------------------------------------

\* The abstract bytes of a direction whose producer's cursor is n.
Positions(n) == [k \in 1 .. n |-> k]

LEMMA PositionsFacts ==
    ASSUME NEW n \in Nat
    PROVE  /\ Positions(n) \in Seq(Nat) /\ Len(Positions(n)) = n
           /\ \A k \in 1 .. n : Positions(n)[k] = k
BY DEF Positions

\* The abstract bytes sent of a direction are determined by its cursor.
Sent == [q \in Sides |-> Positions(written[q])]

LEMMA SentFacts ==
    ASSUME TypeOK
    PROVE  /\ Sent = [q \in Sides |-> [k \in 1 .. written[q] |-> k]]
           /\ \A q \in Sides : Len(Sent[q]) = written[q]
           /\ \A q \in Sides : \A k \in 1 .. written[q] : Sent[q][k] = k
<1>1. \A q \in Sides : written[q] \in Nat
  BY Zenon DEF TypeOK
<1>2. \A q \in Sides : Sent[q] = Positions(written[q])
  BY Zenon DEF Sent
<1>3. Sent = [q \in Sides |-> [k \in 1 .. written[q] |-> k]]
  BY Zenon DEF Sent, Positions
<1>4. QED BY Zenon, <1>1, <1>2, <1>3, PositionsFacts

\* A step that leaves the abstract state alone.
LEMMA Stutters ==
    ASSUME UNCHANGED <<written, received, writer_closed, eof, failure>>
    PROVE  UNCHANGED Channel!chanVars
BY Zenon DEF Channel!chanVars

-----------------------------------------------------------------------------
\* The consumer's store of its cursor hands out the bytes it copied.
LEMMA StoreReceives ==
    ASSUME IInv, IInv', NEW e \in Sides, StoreCursor(e), call[e].op = "read"
    PROVE  Channel!Receive(1 - e)
<1> DEFINE q == 1 - e
           n == call[e].count
<1>1. q \in Sides /\ read[q] \in Nat /\ written[q] \in Nat /\ n \in Nat \ {0}
  BY StoreFacts DEF Sides
<1>2. read[q] + n <= written[q]
  BY Zenon, StoreFacts DEF CopyOK
<1>3. /\ read' = [read EXCEPT ![q] = @ + n]
      /\ received' = [received EXCEPT ![q] = @ \o call[e].chunk]
      /\ UNCHANGED <<written, writer_closed, eof, failure>>
  BY ZenonT(60) DEF StoreCursor
<1>4. /\ read'[q] = read[q] + n
      /\ \A c \in Sides \ {q} : received'[c] = received[c]
  BY ZenonT(60), <1>1, <1>3 DEF IInv, TypeOK
<1> HIDE DEF q, n
<1>5. Len(received[q]) = read[q] /\ \A k \in 1 .. read[q] : received[q][k] = k
  BY Zenon, <1>1 DEF IInv, Integrity
<1>6. /\ Len(received'[q]) = read[q] + n
      /\ \A k \in 1 .. read[q] + n : received'[q][k] = k
  BY Zenon, <1>1, <1>4 DEF IInv, Integrity
<1>7. ~eof[q]
  BY <1>1, <1>2, <1>5 DEF IInv, EofComplete
<1>8. /\ Len(Sent[q]) = written[q]
      /\ \A k \in 1 .. written[q] : Sent[q][k] = k
      /\ Sent = [d \in Sides |-> [k \in 1 .. written[d] |-> k]]
  BY Zenon, <1>1, SentFacts DEF IInv
<1>9. Channel!Extends(received[q], received'[q])
  <2>1. Len(received[q]) < Len(received'[q])
    BY <1>1, <1>5, <1>6
  <2>2. ASSUME NEW k \in 1 .. Len(received[q]) PROVE received'[q][k] = received[q][k]
    BY <1>1, <1>5, <1>6
  <2>3. QED BY Zenon, <2>1, <2>2 DEF Channel!Extends
<1>10. /\ Len(received'[q]) <= Len(Sent[q])
       /\ \A k \in 1 .. Len(received'[q]) : received'[q][k] = Sent[q][k]
  BY <1>1, <1>2, <1>6, <1>8
<1>11. Channel!Receive(q)
  BY Zenon, <1>3, <1>4, <1>7, <1>8, <1>9, <1>10 DEF Channel!Receive
<1>12. QED BY Zenon, <1>11 DEF q

\* The producer's store of its cursor sends the bytes it copied.
LEMMA StoreSends ==
    ASSUME IInv, NEW e \in Sides, StoreCursor(e), call[e].op # "read"
    PROVE  Channel!Send(e)
<1> DEFINE n == call[e].count
<1>1. /\ e \in Procs /\ read[e] \in Nat /\ written[e] \in Nat /\ n \in Int
  BY Zenon DEF IInv, TypeOK, CallType, Sides, Procs
<1>2. pc[e] = "copy" /\ call[e].op = "write"
  BY Zenon DEF StoreCursor, IInv, CallInv, CallOK
<1>3. n >= 1 /\ written[e] + n <= read[e] + Capacity /\ ~writer_closed[e]
  BY Zenon, <1>2 DEF IInv, CallInv, CopyOK, CallOK
<1>4. Len(received[e]) = read[e]
  BY Zenon DEF IInv, Integrity
<1>5. /\ written' = [written EXCEPT ![e] = @ + n]
      /\ UNCHANGED <<received, writer_closed, eof, failure>>
  BY Zenon DEF StoreCursor
<1>6. /\ written'[e] = written[e] + n
      /\ \A c \in Sides \ {e} : written'[c] = written[c]
  BY Zenon, <1>5 DEF IInv, TypeOK
<1> HIDE DEF n
<1>7. /\ Len(Sent[e]) = written[e] /\ Len(Sent'[e]) = written[e] + n
      /\ \A k \in 1 .. written[e] : Sent[e][k] = k
      /\ \A k \in 1 .. written[e] + n : Sent'[e][k] = k
      /\ Sent = [d \in Sides |-> [k \in 1 .. written[d] |-> k]]
      /\ Sent' = [d \in Sides |-> [k \in 1 .. written'[d] |-> k]]
  <2>1. /\ Len(Sent[e]) = written[e]
        /\ \A k \in 1 .. written[e] : Sent[e][k] = k
        /\ Sent = [d \in Sides |-> [k \in 1 .. written[d] |-> k]]
    BY Zenon, SentFacts DEF IInv
  <2>2. Sent' = [d \in Sides |-> [k \in 1 .. written'[d] |-> k]]
    BY Zenon DEF Sent, Positions
  <2>3. Sent'[e] = Positions(written[e] + n)
    BY Zenon, <1>6 DEF Sent
  <2>4. written[e] + n \in Nat
    BY <1>1, <1>3
  <2>5. /\ Len(Positions(written[e] + n)) = written[e] + n
        /\ \A k \in 1 .. written[e] + n : Positions(written[e] + n)[k] = k
    BY Zenon, <2>4, PositionsFacts
  <2>6. QED BY Zenon, <2>1, <2>2, <2>3, <2>5
<1>8. Channel!Extends(Sent[e], Sent'[e])
  BY <1>1, <1>3, <1>7 DEF Channel!Extends
<1>9. Len(Sent'[e]) <= Len(received[e]) + Capacity
  BY Zenon, <1>1, <1>3, <1>4, <1>7
<1>10. \A c \in Sides \ {e} : Sent'[c] = Sent[c]
  BY Zenon, <1>6 DEF Sent
<1>11. QED BY Zenon, <1>3, <1>5, <1>7, <1>8, <1>9, <1>10 DEF Channel!Send

\* End of file is returned by a reader that saw the flag and then no byte.
LEMMA LoadCursorSteps ==
    ASSUME IInv, NEW e \in Sides, LoadCursor(e)
    PROVE  [Channel!ChanNext]_(Channel!chanVars)
<1> DEFINE q == RingOf(e)
           used == written[q] - read[q]
           room == IF call[e].op = "read" THEN used ELSE Capacity - used
           atEof == used \in 0 .. Capacity /\ room = 0 /\ call[e].op = "read" /\ call[e].closed
<1>1. /\ pc[e] = "cursor"
      /\ eof' = [eof EXCEPT ![q] = @ \/ atEof]
      /\ UNCHANGED <<written, received, writer_closed, failure>>
  BY Zenon DEF LoadCursor
<1>2. q \in Sides /\ read[q] \in Nat /\ written[q] \in Nat /\ eof[q] \in BOOLEAN
      /\ eof \in [Sides -> BOOLEAN]
  BY DEF RingOf, IInv, TypeOK, Sides
<1>3. CASE ~atEof
  <2>1. eof' = eof
    <3> HIDE DEF atEof, q
    <3>1. QED BY Zenon, <1>1, <1>2, <1>3
  <2>2. QED BY Zenon, <1>1, <2>1, Stutters
<1>4. CASE atEof
  <2>1. eof' = [eof EXCEPT ![q] = TRUE]
    <3> HIDE DEF atEof, q
    <3>1. QED BY ZenonT(30), <1>1, <1>2, <1>4
  <2>2. q = 1 - e /\ writer_closed[q]
    BY ZenonT(30), <1>1, <1>4 DEF RingOf, IInv, CallInv, CallOK
  <2>3. written[q] = read[q] /\ Len(received[q]) = read[q]
    BY <1>2, <1>4 DEF IInv, Integrity
  <2>4. /\ Len(Sent[q]) = written[q]
        /\ Sent = [d \in Sides |-> [k \in 1 .. written[d] |-> k]]
    BY Zenon, <1>2, SentFacts DEF IInv
  <2> HIDE DEF q, used, room, atEof
  <2>5. Channel!ReturnEof(q)
    BY Zenon, <1>1, <2>1, <2>2, <2>3, <2>4 DEF Channel!ReturnEof
  <2>6. QED BY Zenon, <1>2, <2>5 DEF Channel!ChanNext
<1>5. QED BY Zenon, <1>3, <1>4

\* abort sets the failure once.
LEMMA AbortSteps ==
    ASSUME NEW p, NEW f \in {"Cancelled", "PeerFailed", "Protocol"}, Abort(p, f)
    PROVE  [Channel!ChanNext]_(Channel!chanVars)
<1>1. UNCHANGED <<written, received, writer_closed, eof>>
  BY Zenon DEF Abort
<1>2. CASE failure = "none"
  <2>1. Channel!Fail(f)
    BY Zenon, <1>1, <1>2 DEF Abort, Channel!Fail
  <2>2. QED BY Zenon, <2>1 DEF Channel!ChanNext
<1>3. CASE failure # "none"
  <2>1. UNCHANGED failure
    BY Zenon, <1>3 DEF Abort
  <2>2. QED BY Zenon, <1>1, <2>1, Stutters
<1>4. QED BY Zenon, <1>2, <1>3

\* close_write, and the first half of a drop.
LEMMA CloseSteps ==
    ASSUME NEW e \in Sides, CloseWrite(e) \/ DropWriter(e)
    PROVE  [Channel!ChanNext]_(Channel!chanVars)
<1>1. Channel!End(e)
  BY Zenon DEF CloseWrite, DropWriter, Channel!End
<1>2. QED BY Zenon, <1>1 DEF Channel!ChanNext

-----------------------------------------------------------------------------
LEMMA InitRefines == Init => Channel!ChanInit
<1> SUFFICES ASSUME Init PROVE Channel!ChanInit
  OBVIOUS
<1>1. [k \in 1 .. 0 |-> k] = <<>>
  OBVIOUS
<1>2. [q \in Sides |-> [k \in 1 .. written[q] |-> k]] = [q \in Sides |-> <<>>]
  BY Zenon, <1>1 DEF Init
<1>3. QED BY Zenon, <1>2 DEF Init, Channel!ChanInit

LEMMA NextRefines ==
    ASSUME IInv, IInv', [Next]_vars
    PROVE  [Channel!ChanNext]_(Channel!chanVars)
<1>1. CASE Import
  BY Zenon, <1>1, Stutters DEF Import
<1>2. ASSUME NEW use \in Uses, NEW n \in 1 .. MaxLen, Call(use[1], use[2], n)
      PROVE  UNCHANGED Channel!chanVars
  BY Zenon, <1>2, Stutters DEF Call
<1>3. ASSUME NEW e \in Sides, Step(e) PROVE [Channel!ChanNext]_(Channel!chanVars)
  <2>1. CASE Sample(e) \/ CheckFailure(e) \/ LoadClosed(e)
    BY Zenon, <2>1, Stutters DEF Sample, CheckFailure, LoadClosed
  <2>2. CASE LoadCursor(e)
    BY Zenon, <2>2, LoadCursorSteps
  <2>3. CASE CopyByte(e) \/ DropReader(e) \/ FutexWait(e)
    BY Zenon, <2>3, Stutters DEF CopyByte, DropReader, FutexWait
  <2>4. CASE StoreCursor(e)
    <3>1. 1 - e \in Sides
      BY DEF Sides
    <3>2. QED BY Zenon, <2>4, <3>1, StoreReceives, StoreSends DEF Channel!ChanNext
  <2>5. CASE ProtocolError(e)
    BY Zenon, <2>5, AbortSteps DEF ProtocolError
  <2>6. QED BY Zenon, <1>3, <2>1, <2>2, <2>3, <2>4, <2>5 DEF Step
<1>4. ASSUME NEW p \in Procs, Bump(p) \/ Wake(p) PROVE UNCHANGED Channel!chanVars
  BY Zenon, <1>4, Stutters DEF Bump, Wake
<1>5. ASSUME NEW e \in Sides, Timeout(e) \/ FutexError(e)
      PROVE  [Channel!ChanNext]_(Channel!chanVars)
  BY Zenon, <1>5, Stutters, AbortSteps DEF Timeout, FutexError
<1>6. ASSUME NEW f \in {"Cancelled", "PeerFailed"}, OwnerAbort(f)
      PROVE  [Channel!ChanNext]_(Channel!chanVars)
  BY Zenon, <1>6, AbortSteps DEF OwnerAbort
<1>7. ASSUME NEW e \in Sides, CloseWrite(e) \/ DropWriter(e) \/ Crash(e)
      PROVE  [Channel!ChanNext]_(Channel!chanVars)
  <2>1. CASE CloseWrite(e) \/ DropWriter(e)
    BY Zenon, <2>1, CloseSteps
  <2>2. CASE Crash(e)
    BY Zenon, <2>2, Stutters DEF Crash
  <2>3. QED BY Zenon, <1>7, <2>1, <2>2
<1>8. CASE UNCHANGED vars
  BY Zenon, <1>8, Stutters DEF vars
<1>9. QED BY Zenon, <1>1, <1>2, <1>3, <1>4, <1>5, <1>6, <1>7, <1>8 DEF Next

\* The whole of the mapped stream (rings, cursors, flags, futex) behaves to
\* its callers as a bounded first-in first-out byte channel in each direction,
\* with one sticky failure: each cursor store is one send or one receive, and
\* every other step of read, write, notify, abort, close, drop or a crash is
\* an end, an end of file, the first failure or nothing at all.
THEOREM StreamIsChannel == Spec => ImplementsChannel
<1>1. IInv /\ IInv' /\ [Next]_vars => [Channel!ChanNext]_(Channel!chanVars)
  BY Zenon, NextRefines
<1>2. QED BY <1>1, InitRefines, Invariant, PTL DEF Spec, ImplementsChannel, Channel!ChanSpec

-----------------------------------------------------------------------------
\* What the wake-up argument needs of a step of process p that is neither
\* half of notify: it leaves the other processes where they are, it does not
\* shed a debt, and a change of a shared word makes p owe a notification.
Ordinary(p) ==
    /\ \A r \in Procs \ {p} : pc'[r] = pc[r] /\ call'[r] = call[r]
    /\ pc[p] \in Owing => pc'[p] \in Owing
    /\ pc[p] = "wake" => pc'[p] \in {"wake", "dead"}
    /\ \/ UNCHANGED <<failure, read, written, writer_closed, reader_closed>>
       \/ pc'[p] \in {"bump", "drop"}

\* A process e that does not step keeps what it knows: a change of a word it
\* looked at is one that the stepping process has yet to announce.
LEMMA OthersKeep ==
    ASSUME NEW e \in Sides, NEW p \in Procs \ {e}, Ordinary(p), WakeOK(e), SleepOK(e)
    PROVE  WakeOK(e)' /\ SleepOK(e)'
<1>1. pc'[e] = pc[e] /\ call'[e] = call[e]
  BY Zenon DEF Ordinary, Sides, Procs
<1>2. Unannounced(e) => Unannounced(e)'
  BY Zenon DEF Ordinary, Unannounced
<1>3. (\E r \in Procs \ {e} : pc[r] \in {"bump", "wake", "drop", "dead"})
        => (\E r \in Procs \ {e} : pc'[r] \in {"bump", "wake", "drop", "dead"})
  BY Zenon DEF Ordinary, Owing
<1>4. CASE UNCHANGED <<failure, read, written, writer_closed, reader_closed>>
  <2>1. Ready(e)' = Ready(e)
    BY Zenon, <1>1, <1>4 DEF Ready
  <2>2. WakeOK(e)'
    BY Zenon, <1>1, <1>2, <1>4, <2>1 DEF WakeOK
  <2>3. SleepOK(e)'
    BY Zenon, <1>1, <1>3, <2>1 DEF SleepOK
  <2>4. QED BY Zenon, <2>2, <2>3
<1>5. CASE pc'[p] \in {"bump", "drop"}
  <2>1. Unannounced(e)'
    BY Zenon, <1>5 DEF Unannounced, Owing
  <2>2. \E r \in Procs \ {e} : pc'[r] \in {"bump", "wake", "drop", "dead"}
    BY Zenon, <1>5
  <2>3. QED BY Zenon, <2>1, <2>2 DEF WakeOK, SleepOK
<1>6. QED BY Zenon, <1>4, <1>5 DEF Ordinary

\* Outside the loads and the sleep there is nothing to know.
LEMMA ElsewhereKeeps ==
    ASSUME NEW e \in Sides, pc'[e] \notin {"flag", "cursor", "wait", "asleep"}
    PROVE  WakeOK(e)' /\ SleepOK(e)'
BY Zenon DEF WakeOK, SleepOK

\* An ordinary step that leaves its own process with nothing unannounced to
\* know preserves both invariants.
LEMMA OrdinaryKeeps ==
    ASSUME WakeInv, NoLostWakeup, NEW p \in Procs, Ordinary(p),
           p \in Sides => WakeOK(p)' /\ SleepOK(p)'
    PROVE  WakeInv' /\ NoLostWakeup'
<1> SUFFICES ASSUME NEW e \in Sides PROVE WakeOK(e)' /\ SleepOK(e)'
  BY Zenon DEF WakeInv, NoLostWakeup
<1>1. CASE e = p
  BY Zenon, <1>1
<1>2. CASE e # p
  BY Zenon, <1>2, OthersKeep DEF WakeInv, NoLostWakeup
<1>3. QED BY Zenon, <1>1, <1>2

-----------------------------------------------------------------------------
\* Continue and Goto move one process.
LEMMA ContinueMoves ==
    ASSUME TypeOK, NEW e \in Sides, NEW l, NEW c, Continue(e, l, c)
    PROVE  /\ pc'[e] = l
           /\ call'[e] = IF l = "idle" THEN NoCall ELSE c
           /\ \A r \in Procs \ {e} : pc'[r] = pc[r] /\ call'[r] = call[r]
BY Zenon DEF Continue, Goto, TypeOK, Sides, Procs

LEMMA GotoMoves ==
    ASSUME TypeOK, NEW p \in Procs, NEW l, Goto(p, l)
    PROVE  pc'[p] = l /\ \A r \in Procs \ {p} : pc'[r] = pc[r]
BY Zenon DEF Goto, TypeOK

\* The call begins and samples: its loads are still to come.
LEMMA QuietWakes ==
    ASSUME TypeOK, WakeInv, NoLostWakeup, NEW e \in Sides,
           \/ \E kind \in {"read", "write"}, n \in 1 .. MaxLen : Call(e, kind, n)
           \/ Sample(e)
    PROVE  WakeInv' /\ NoLostWakeup'
<1>1. /\ pc[e] \in {"idle", "sample"}
      /\ pc'[e] \in {"sample", "check"}
      /\ \A r \in Procs \ {e} : pc'[r] = pc[r] /\ call'[r] = call[r]
      /\ UNCHANGED <<failure, read, written, writer_closed, reader_closed>>
  BY Zenon, ContinueMoves DEF Call, Sample
<1>2. e \in Procs /\ Ordinary(e)
  BY Zenon, <1>1 DEF Ordinary, Owing, Sides, Procs
<1>3. QED BY Zenon, <1>1, <1>2, ElsewhereKeeps, OrdinaryKeeps

\* check_failure saw no failure: what is set later is still unannounced.
LEMMA CheckFailureWakes ==
    ASSUME TypeOK, WakeInv, NoLostWakeup, NEW e \in Sides, CheckFailure(e)
    PROVE  WakeInv' /\ NoLostWakeup'
<1>1. /\ pc[e] = "check"
      /\ pc'[e] = IF failure = "none" THEN "flag" ELSE "idle"
      /\ \A r \in Procs \ {e} : pc'[r] = pc[r] /\ call'[r] = call[r]
      /\ UNCHANGED <<failure, read, written, writer_closed, reader_closed>>
  BY Zenon, ContinueMoves DEF CheckFailure
<1>2. e \in Procs /\ Ordinary(e)
  BY Zenon, <1>1 DEF Ordinary, Owing, Sides, Procs
<1>3. WakeOK(e)' /\ SleepOK(e)'
  BY Zenon, <1>1 DEF WakeOK, SleepOK
<1>4. QED BY Zenon, <1>2, <1>3, OrdinaryKeeps

\* The closed flag: a reader notes it, a writer stops at it, so a close that
\* comes later is unannounced, and so is a failure the check did not see.
LEMMA LoadClosedWakes ==
    ASSUME TypeOK, WakeInv, NoLostWakeup, NEW e \in Sides, LoadClosed(e)
    PROVE  WakeInv' /\ NoLostWakeup'
<1>1. /\ pc[e] = "flag"
      /\ \A r \in Procs \ {e} : pc'[r] = pc[r] /\ call'[r] = call[r]
      /\ UNCHANGED <<failure, read, written, writer_closed, reader_closed>>
  BY Zenon, ContinueMoves DEF LoadClosed
<1>2. pc'[e] \in {"cursor", "idle"}
  BY Zenon, ContinueMoves DEF LoadClosed
<1>3. e \in Procs /\ Ordinary(e)
  BY Zenon, <1>1, <1>2 DEF Ordinary, Owing, Sides, Procs
<1>4. call[e] \in CallType /\ WakeOK(e) /\ (Unannounced(e) => Unannounced(e)')
  BY Zenon, <1>1 DEF TypeOK, Sides, Procs, WakeInv, Unannounced
<1>5. CASE call[e].op = "read"
  <2>1. /\ pc'[e] = "cursor"
        /\ call'[e] = [call[e] EXCEPT !.closed = writer_closed[1 - e]]
    BY <1>5, ContinueMoves DEF LoadClosed
  <2>2. /\ call'[e].op = "read" /\ call'[e].behind = call[e].behind
        /\ call'[e].closed = writer_closed[1 - e]
    BY Zenon, <1>4, <1>5, <2>1 DEF CallType
  <2>3. WakeOK(e)' /\ SleepOK(e)'
    BY Zenon, <1>1, <1>4, <2>1, <2>2 DEF WakeOK, SleepOK
  <2>4. QED BY Zenon, <2>3, <1>3, OrdinaryKeeps
<1>6. CASE call[e].op # "read"
  <2>1. /\ pc'[e] = IF reader_closed[e] \/ writer_closed[e] THEN "idle" ELSE "cursor"
        /\ pc'[e] = "cursor" => call'[e] = call[e]
    BY SMTT(20), <1>6, ContinueMoves DEF LoadClosed
  <2>2. WakeOK(e)' /\ SleepOK(e)'
    BY ZenonT(30), <1>1, <1>4, <1>6, <2>1 DEF WakeOK, SleepOK
  <2>3. QED BY <2>2, <1>3, OrdinaryKeeps
<1>7. QED BY Zenon, <1>5, <1>6

\* A call that goes to sleep found no byte, or no room: what else could let
\* it return came after its other loads.
LEMMA LoadCursorWakes ==
    ASSUME TypeOK, WakeInv, NoLostWakeup, NEW e \in Sides, LoadCursor(e)
    PROVE  WakeInv' /\ NoLostWakeup'
<1> DEFINE q == RingOf(e)
           used == written[q] - read[q]
           room == IF call[e].op = "read" THEN used ELSE Capacity - used
           n == Lesser(room, call[e].want)
           legal == used \in 0 .. Capacity
           atEof == legal /\ room = 0 /\ call[e].op = "read" /\ call[e].closed
           next == CASE atEof -> "idle"
                     [] legal /\ room = 0 /\ ~atEof -> "wait"
                     [] legal /\ room > 0 /\ Cursor(e) + n <= MaxCursor -> "copy"
                     [] OTHER -> "protocol"
           c == [call[e] EXCEPT !.count = n]
<1>1. /\ pc[e] = "cursor" /\ Continue(e, next, c)
      /\ UNCHANGED <<failure, read, written, writer_closed, reader_closed>>
  BY Zenon DEF LoadCursor
<1>2. /\ pc'[e] = next
      /\ call'[e] = IF next = "idle" THEN NoCall ELSE c
      /\ \A r \in Procs \ {e} : pc'[r] = pc[r] /\ call'[r] = call[r]
  <2> HIDE DEF next, c
  <2>1. QED BY Zenon, <1>1, ContinueMoves
<1>3. next \in {"idle", "wait", "copy", "protocol"} /\ (next = "wait" => room = 0 /\ ~atEof /\ legal)
  OBVIOUS
<1>4. e \in Procs /\ Ordinary(e)
  <2> HIDE DEF next
  <2>1. QED BY Zenon, <1>1, <1>2, <1>3 DEF Ordinary, Owing, Sides, Procs
<1>5. CASE next # "wait"
  <2> HIDE DEF next
  <2>1. QED BY Zenon, <1>2, <1>3, <1>4, <1>5, ElsewhereKeeps, OrdinaryKeeps
<1>6. CASE next = "wait"
  <2>1. call[e] \in CallType /\ WakeOK(e) /\ (Unannounced(e) => Unannounced(e)')
    BY Zenon, <1>2 DEF TypeOK, Sides, Procs, WakeInv, Unannounced
  <2>2. room = 0 /\ (call[e].op = "read" => ~call[e].closed)
    BY Zenon, <1>3, <1>6
  <2>3. pc'[e] = "wait" /\ call'[e] = c
    BY Zenon, <1>2, <1>6
  <2>4. /\ call'[e].op = call[e].op /\ call'[e].behind = call[e].behind
        /\ call'[e].closed = call[e].closed
    <3> HIDE DEF n
    <3>1. QED BY Zenon, <2>1, <2>3 DEF CallType
  <2>5. /\ call[e].op = "read" => ~(written[1 - e] > read[1 - e])
        /\ call[e].op = "write" => ~(written[e] - read[e] < Capacity)
    BY SMTT(20), <2>2, CapacityAssumption DEF RingOf, TypeOK, Sides
  <2> HIDE DEF next, c, n, room, used, q, legal, atEof
  <2>6. WakeOK(e)' /\ SleepOK(e)'
    BY Zenon, <1>1, <2>1, <2>2, <2>3, <2>4, <2>5 DEF WakeOK, SleepOK, Ready
  <2>7. QED BY <2>6, <1>4, OrdinaryKeeps
<1>7. QED BY SMTT(20), <1>5, <1>6

\* FUTEX_WAIT compares the word: a call sleeps with no bump since its sample
\* (or a whole turn of the word), and what it missed is unannounced.
LEMMA FutexWaitWakes ==
    ASSUME TypeOK, WakeInv, NoLostWakeup, NEW e \in Sides, FutexWait(e)
    PROVE  WakeInv' /\ NoLostWakeup'
<1> DEFINE b == call[e].behind
<1>1. e \in Procs /\ b \in Nat
  BY ZenonT(30) DEF TypeOK, CallType, Sides, Procs
<1>2. /\ pc[e] = "wait"
      /\ pc'[e] = IF b % ProgressMod = 0 THEN "asleep" ELSE "sample"
      /\ \A r \in Procs \ {e} : pc'[r] = pc[r] /\ call'[r] = call[r]
      /\ UNCHANGED <<failure, read, written, writer_closed, reader_closed, call>>
  BY ZenonT(30), <1>1, GotoMoves DEF FutexWait
<1>3. Ordinary(e)
  BY ZenonT(30), <1>2 DEF Ordinary, Owing
<1>4. WakeOK(e)'
  BY ZenonT(30), <1>2 DEF WakeOK
<1>5. SleepOK(e)'
  <2> SUFFICES ASSUME pc'[e] = "asleep", Ready(e)', b < ProgressMod
               PROVE  \E p \in Procs \ {e} : pc'[p] \in {"bump", "wake", "drop", "dead"}
    BY Zenon, <1>2 DEF SleepOK
  <2>1. b % ProgressMod = 0
    BY Zenon, <1>2
  <2>2. b = 0
    BY <1>1, <2>1, ProgressAssumption
  <2>3. Ready(e)
    BY Zenon, <1>2 DEF Ready
  <2>4. Unannounced(e)
    BY SMTT(20), <1>2, <2>2, <2>3 DEF WakeInv, WakeOK
  <2>5. QED BY Zenon, <1>2, <2>4 DEF Unannounced, Owing
<1>6. QED BY Zenon, <1>1, <1>3, <1>4, <1>5, OrdinaryKeeps

\* The steps that end in a place where no load is remembered, and owe a
\* notification for whatever shared word they change.
LEMMA DirectWakes ==
    ASSUME TypeOK, WakeInv, NoLostWakeup, NEW p \in Procs, NEW l,
           Goto(p, l),
           \A r \in Procs \ {p} : call'[r] = call[r],
           l \notin {"flag", "cursor", "wait", "asleep"},
           pc[p] \in Owing => l \in Owing,
           pc[p] = "wake" => l = "dead",
           \/ UNCHANGED <<failure, read, written, writer_closed, reader_closed>>
           \/ l \in {"bump", "drop"}
    PROVE  WakeInv' /\ NoLostWakeup'
<1>1. pc'[p] = l /\ \A r \in Procs \ {p} : pc'[r] = pc[r]
  BY Zenon, GotoMoves
<1>2. Ordinary(p)
  BY Zenon, <1>1 DEF Ordinary
<1>3. QED BY Zenon, <1>1, <1>2, ElsewhereKeeps, OrdinaryKeeps

\* One byte copied, which nobody waits for.
LEMMA CopyByteWakes ==
    ASSUME TypeOK, WakeInv, NoLostWakeup, NEW e \in Sides, CopyByte(e)
    PROVE  WakeInv' /\ NoLostWakeup'
<1>1. /\ pc[e] = "copy" /\ UNCHANGED pc
      /\ \A r \in Procs \ {e} : call'[r] = call[r]
      /\ UNCHANGED <<failure, read, written, writer_closed, reader_closed>>
  BY Zenon DEF CopyByte, TypeOK, Procs
<1>2. e \in Procs /\ Ordinary(e)
  BY Zenon, <1>1 DEF Ordinary, Owing, Sides, Procs
<1>3. QED BY Zenon, <1>1, <1>2, ElsewhereKeeps, OrdinaryKeeps

\* The stores, aborts, closes, drops, crashes and timeouts.
LEMMA StoreWakes ==
    ASSUME TypeOK, WakeInv, NoLostWakeup, NEW e \in Sides,
           \/ StoreCursor(e) \/ ProtocolError(e) \/ FutexError(e) \/ Timeout(e)
           \/ CloseWrite(e) \/ DropWriter(e) \/ DropReader(e) \/ Crash(e)
    PROVE  WakeInv' /\ NoLostWakeup'
<1>0. e \in Procs
  BY SMTT(20) DEF Sides, Procs
<1>1. CASE StoreCursor(e)
  BY ZenonT(30), <1>0, <1>1, DirectWakes DEF StoreCursor, Owing
<1>2. CASE ProtocolError(e)
  BY SMTT(20), <1>0, <1>2, DirectWakes DEF ProtocolError, Abort, Owing
<1>3. CASE FutexError(e)
  BY ZenonT(30), <1>0, <1>3, DirectWakes DEF FutexError, Abort, Owing
<1>4. CASE Timeout(e)
  BY Zenon, <1>0, <1>4, DirectWakes DEF Timeout, Owing
<1>5. CASE CloseWrite(e)
  <2>1. \A r \in Procs \ {e} : call'[r] = call[r]
    BY Zenon, <1>5 DEF CloseWrite, TypeOK
  <2>2. QED BY Zenon, <1>0, <1>5, <2>1, DirectWakes DEF CloseWrite, Owing
<1>6. CASE DropWriter(e)
  <2>1. \A r \in Procs \ {e} : call'[r] = call[r]
    BY Zenon, <1>6 DEF DropWriter, TypeOK
  <2>2. QED BY Zenon, <1>0, <1>6, <2>1, DirectWakes DEF DropWriter, Owing
<1>7. CASE DropReader(e)
  BY Zenon, <1>0, <1>7, DirectWakes DEF DropReader, Owing
<1>8. CASE Crash(e)
  <2> DEFINE l == IF pc[e] \in {"bump", "wake", "drop"} THEN "dead" ELSE "gone"
  <2>1. /\ pc[e] # "dead" /\ Goto(e, l)
        /\ UNCHANGED <<failure, read, written, writer_closed, reader_closed>>
    BY Zenon, <1>8 DEF Crash
  <2>2. \A r \in Procs \ {e} : call'[r] = call[r]
    BY Zenon, <1>8 DEF Crash, TypeOK
  <2>3. /\ l \notin {"flag", "cursor", "wait", "asleep"}
        /\ pc[e] \in Owing => l \in Owing
        /\ pc[e] = "wake" => l = "dead"
    BY Zenon, <2>1 DEF Owing
  <2> HIDE DEF l
  <2>4. QED BY Zenon, <1>0, <2>1, <2>2, <2>3, DirectWakes
<1>9. QED BY Zenon, <1>1, <1>2, <1>3, <1>4, <1>5, <1>6, <1>7, <1>8

\* An importer appears, or the lifecycle owner aborts.
LEMMA ImportWakes ==
    ASSUME TypeOK, WakeInv, NoLostWakeup, Import
    PROVE  WakeInv' /\ NoLostWakeup'
<1>1. 1 \in Procs
  BY Zenon DEF Procs
<1>2. QED BY Zenon, <1>1, DirectWakes DEF Import, Owing

LEMMA OwnerAbortWakes ==
    ASSUME TypeOK, WakeInv, NoLostWakeup, NEW f, OwnerAbort(f)
    PROVE  WakeInv' /\ NoLostWakeup'
<1>1. Owner \in Procs /\ \A r \in Procs \ {Owner} : call'[r] = call[r]
  BY Zenon DEF Owner, Procs, OwnerAbort, TypeOK
<1>2. QED BY Zenon, <1>1, DirectWakes DEF OwnerAbort, Abort, Owing

-----------------------------------------------------------------------------
\* The bump of the progress word: whoever is between its sample and its sleep
\* will not sleep, and whoever sleeps is about to be woken.
LEMMA BumpWakes ==
    ASSUME TypeOK, WakeInv, NoLostWakeup, NEW p \in Procs, Bump(p)
    PROVE  WakeInv' /\ NoLostWakeup'
<1> SUFFICES ASSUME NEW e \in Sides PROVE WakeOK(e)' /\ SleepOK(e)'
  BY Zenon DEF WakeInv, NoLostWakeup
<1>1. pc[p] = "bump" /\ pc'[p] = "wake" /\ \A r \in Procs \ {p} : pc'[r] = pc[r]
  BY Zenon, GotoMoves DEF Bump
<1>2. e \in Procs /\ call[e] \in CallType
  BY Zenon DEF Sides, Procs, TypeOK
<1>3. CASE e = p
  BY Zenon, <1>1, <1>3, ElsewhereKeeps
<1>4. CASE e # p /\ pc[e] \in {"flag", "cursor", "wait"}
  <2>1. call'[e] = [call[e] EXCEPT !.behind = @ + 1]
    BY Zenon, <1>2, <1>4 DEF Bump
  <2>2. call'[e].behind # 0
    BY <1>2, <2>1 DEF CallType
  <2>3. pc'[e] # "asleep"
    BY Zenon, <1>1, <1>2, <1>4
  <2>4. QED BY Zenon, <2>2, <2>3 DEF WakeOK, SleepOK
<1>5. CASE e # p /\ pc[e] \notin {"flag", "cursor", "wait"}
  <2>1. pc'[e] = pc[e] /\ p \in Procs \ {e}
    BY Zenon, <1>1, <1>2, <1>5
  <2>2. WakeOK(e)'
    BY Zenon, <1>5, <2>1 DEF WakeOK
  <2>3. SleepOK(e)'
    BY Zenon, <1>1, <2>1 DEF SleepOK
  <2>4. QED BY Zenon, <2>2, <2>3
<1>6. QED BY Zenon, <1>3, <1>4, <1>5

\* FUTEX_WAKE: nobody is left asleep, and it was not this process's debt that
\* the others' knowledge rests on.
LEMMA WakeWakes ==
    ASSUME TypeOK, WakeInv, NoLostWakeup, NEW p \in Procs, Wake(p)
    PROVE  WakeInv' /\ NoLostWakeup'
<1> SUFFICES ASSUME NEW e \in Sides PROVE WakeOK(e)' /\ SleepOK(e)'
  BY DEF WakeInv, NoLostWakeup
<1>1. /\ pc[p] = "wake" /\ pc'[p] \in {"idle", "gone"}
      /\ \A r \in Procs \ {p} :
           /\ call'[r] = call[r]
           /\ pc[r] = "asleep" => pc'[r] = "sample"
           /\ pc[r] # "asleep" => pc'[r] = pc[r]
      /\ UNCHANGED <<failure, read, written, writer_closed, reader_closed>>
  BY Zenon DEF Wake, TypeOK
<1>2. e \in Procs
  BY Zenon DEF Sides, Procs
<1>3. CASE e = p
  BY Zenon, <1>1, <1>3, ElsewhereKeeps
<1>4. CASE e # p /\ pc[e] = "asleep"
  BY Zenon, <1>1, <1>2, <1>4, ElsewhereKeeps
<1>5. CASE e # p /\ pc[e] # "asleep"
  <2>1. pc'[e] = pc[e] /\ call'[e] = call[e]
    BY Zenon, <1>1, <1>2, <1>5
  <2>2. Unannounced(e) => Unannounced(e)'
    BY Zenon, <1>1 DEF Unannounced, Owing
  <2>3. Ready(e)' = Ready(e)
    BY Zenon, <1>1, <2>1 DEF Ready
  <2>4. WakeOK(e)'
    BY Zenon, <1>1, <2>1, <2>2, <2>3 DEF WakeInv, WakeOK
  <2>5. SleepOK(e)'
    BY Zenon, <1>5, <2>1 DEF SleepOK
  <2>6. QED BY <2>4, <2>5
<1>6. QED BY Zenon, <1>3, <1>4, <1>5

-----------------------------------------------------------------------------
LEMMA InitWakes == Init => WakeInv /\ NoLostWakeup
<1> SUFFICES ASSUME Init, NEW e \in Sides PROVE WakeOK(e) /\ SleepOK(e)
  BY Zenon DEF WakeInv, NoLostWakeup
<1>1. pc[e] \in {"idle", "unborn"}
  BY Zenon DEF Init, Sides, Procs
<1>2. QED BY Zenon, <1>1 DEF WakeOK, SleepOK

LEMMA NextWakes ==
    ASSUME TypeOK, WakeInv, NoLostWakeup, [Next]_vars
    PROVE  WakeInv' /\ NoLostWakeup'
<1>1. CASE Import
  BY Zenon, <1>1, ImportWakes
<1>2. ASSUME NEW use \in Uses, NEW n \in 1 .. MaxLen, Call(use[1], use[2], n)
      PROVE  WakeInv' /\ NoLostWakeup'
  <2>1. use[1] \in Sides /\ use[2] \in {"read", "write"}
    BY Zenon, UsesAssumption
  <2>2. QED BY Zenon, <1>2, <2>1, QuietWakes
<1>3. ASSUME NEW e \in Sides, Step(e) PROVE WakeInv' /\ NoLostWakeup'
  BY Zenon, <1>3, QuietWakes, CheckFailureWakes, LoadClosedWakes, LoadCursorWakes,
     CopyByteWakes, StoreWakes, FutexWaitWakes DEF Step
<1>4. ASSUME NEW p \in Procs, Bump(p) \/ Wake(p) PROVE WakeInv' /\ NoLostWakeup'
  BY Zenon, <1>4, BumpWakes, WakeWakes
<1>5. ASSUME NEW e \in Sides,
             \/ Timeout(e) \/ FutexError(e)
             \/ CloseWrite(e) \/ DropWriter(e) \/ Crash(e)
      PROVE  WakeInv' /\ NoLostWakeup'
  BY Zenon, <1>5, StoreWakes
<1>6. ASSUME NEW f \in {"Cancelled", "PeerFailed"}, OwnerAbort(f)
      PROVE  WakeInv' /\ NoLostWakeup'
  BY SMTT(20), <1>6, OwnerAbortWakes
<1>7. CASE UNCHANGED vars
  BY ZenonT(30), <1>7 DEF vars, WakeInv, WakeOK, NoLostWakeup, SleepOK, Ready, Unannounced
<1>8. QED BY Zenon, <1>1, <1>2, <1>3, <1>4, <1>5, <1>6, <1>7 DEF Next

\* The order of the blocking loop of read and write (sample the progress
\* word, try, FUTEX_WAIT on the sample) against that of notify (change, bump,
\* FUTEX_WAKE) loses no wake-up, wherever the two are interleaved and however
\* often a sleep times out: an endpoint asleep in a call that could return is
\* owed a wake-up, unless a peer has died or 2^32 bumps came in between.
THEOREM WakeupsAreKept == Spec => []NoLostWakeup
<1>1. IInv => TypeOK
  BY Zenon DEF IInv
<1>2. IInv /\ WakeInv /\ NoLostWakeup /\ [Next]_vars => WakeInv' /\ NoLostWakeup'
  BY Zenon, <1>1, NextWakes
<1>3. QED BY <1>2, InitWakes, Invariant, PTL DEF Spec

=============================================================================
