---------------------------- MODULE LoggingProofs ----------------------------
(***************************************************************************)
(* Proofs about AsyncLogging: the asserts of the back-end's loop hold, a   *)
(* full buffer never waits for the flush interval, and no line is lost,    *)
(* repeated or put out of order.  And about LogFile: its files hold the    *)
(* lines, under names that increase, and it rolls and flushes in time.     *)
(*                                                                         *)
(* The assert that matters is the one on the refill of newBuffer2.  The    *)
(* back-end gives newBuffer2 away when it finds nextBuffer_ empty; it can  *)
(* refill both buffers then only if it takes at least two.  That is so     *)
(* because the front-end uses nextBuffer_ up only as it queues a buffer,   *)
(* in the same critical section: SpareUsed below.                          *)
(***************************************************************************)
EXTENDS AsyncLogging, LogFile, TLAPS

\* The types the argument needs.
Shape ==
    /\ lines \in 0 .. MaxLines
    /\ currentBuffer_ \in Buffers
    /\ buffers_ \in Seq(Buffers)
    /\ buffersToWrite \in Seq(Buffers)
    /\ nextBuffer_ \in {<<>>, Null}
    /\ newBuffer1 \in {<<>>, Null}
    /\ newBuffer2 \in {<<>>, Null}
    /\ pc \in {"none", "while", "wait", "write", "exited"}

\* The front-end has used the next buffer only if it queued one since.
SpareUsed == nextBuffer_ = Null => buffers_ # <<>>

\* What the back-end holds at each place of its loop.
BackendHolds ==
    /\ pc = "none" => buffersToWrite = <<>>
    /\ pc \in {"while", "wait"} => newBuffer1 = <<>> /\ newBuffer2 = <<>> /\ buffersToWrite = <<>>
    /\ pc = "write" =>
        /\ Len(buffersToWrite) >= 1
        /\ newBuffer2 = Null => Len(buffersToWrite) >= 2

\* The inductive invariant.
RefillInv == Shape /\ SpareUsed /\ BackendHolds /\ FullBufferNotifies

\* A spare buffer is a buffer, and it is not Null.
LEMMA EmptyBuffer == <<>> \in Buffers /\ <<>> # Null
<1>1. <<>> \in Seq(Nat) /\ <<>> \in Seq(1 .. MaxLines)
  OBVIOUS
<1> QED BY <1>1, AsyncLoggingAssumption, Zenon DEF Buffers

\* The invariant implies the asserts: the drop and the resize leave two buffers
\* whenever there were two.
LEMMA RefillInvAsserts == RefillInv => AssertsHold
<1> SUFFICES ASSUME RefillInv PROVE AssertsHold
  OBVIOUS
<1>1. ASSUME NEW bs \in Seq(Buffers)
      PROVE  /\ Kept(bs) \in Seq(Buffers)
             /\ Len(bs) >= 1 => Len(Kept(bs)) >= 1
             /\ Len(bs) >= 2 => Len(Kept(bs)) >= 2
  BY AsyncLoggingAssumption DEF Kept
<1>2. ASSUME NEW bs \in Seq(Buffers)
      PROVE  /\ Len(bs) >= 1 => Len(Resized(bs)) >= 1
             /\ Len(bs) >= 2 => Len(Resized(bs)) >= 2
  BY DEF Resized
<1>3. pc = "write" => CanRefill
  BY <1>1, <1>2 DEF RefillInv, Shape, BackendHolds, CanRefill
<1> QED BY <1>3 DEF RefillInv, BackendHolds, AssertsHold

\* Taking the buffers, from while or from the wait, keeps the invariant.
LEMMA TakeBuffersStep ==
    ASSUME RefillInv, TakeBuffers, pc \in {"while", "wait"}
    PROVE  RefillInv'
<1> USE EmptyBuffer DEF RefillInv
<1>1. Shape'
  <2>1. Append(buffers_, currentBuffer_) \in Seq(Buffers)
    BY DEF Shape
  <2> QED BY <2>1 DEF Shape, BackendHolds, TakeBuffers
<1>2. SpareUsed'
  BY DEF Shape, BackendHolds, TakeBuffers, SpareUsed
<1>3. BackendHolds'
  <2>1. Len(Append(buffers_, currentBuffer_)) = Len(buffers_) + 1 /\ Len(buffers_) \in Nat
    BY DEF Shape
  <2>2. buffers_ # <<>> => Len(buffers_) >= 1
    BY DEF Shape
  <2> QED BY <2>1, <2>2 DEF Shape, BackendHolds, TakeBuffers, SpareUsed
<1>4. FullBufferNotifies'
  BY DEF TakeBuffers, FullBufferNotifies
<1> QED BY <1>1, <1>2, <1>3, <1>4

\* Every step keeps the invariant.
LEMMA RefillInvStep == RefillInv /\ [Next]_vars => RefillInv'
<1> SUFFICES ASSUME RefillInv, [Next]_vars PROVE RefillInv'
  OBVIOUS
<1> USE EmptyBuffer
<1>1. ASSUME NEW huge \in BOOLEAN, AppendLine(huge) PROVE RefillInv'
  <2>1. lines + 1 \in 1 .. MaxLines
    BY <1>1, AsyncLoggingAssumption DEF AppendLine, RefillInv, Shape
  <2>2. Append(currentBuffer_, lines + 1) \in Buffers /\ <<lines + 1>> \in Buffers
    BY <2>1 DEF RefillInv, Shape, Buffers
  <2>3. Append(buffers_, currentBuffer_) \in Seq(Buffers) /\ Append(buffers_, currentBuffer_) # <<>>
    <3>1. /\ Append(buffers_, currentBuffer_) \in Seq(Buffers)
          /\ Len(Append(buffers_, currentBuffer_)) = Len(buffers_) + 1
          /\ Len(buffers_) \in Nat
      BY DEF RefillInv, Shape
    <3>2. Len(Append(buffers_, currentBuffer_)) # 0
      BY <3>1
    <3> QED BY <3>1, <3>2
  <2>4. FreshBuffer(lines + 1, huge) \in Buffers
    BY <2>2, Zenon DEF FreshBuffer
  <2>5. lines' \in 0 .. MaxLines
    BY <1>1, <2>1 DEF AppendLine
  <2>6. Shape'
    BY <1>1, <2>2, <2>3, <2>4, <2>5, Zenon DEF AppendLine, RefillInv, Shape, backendVars
  <2>7. SpareUsed' /\ FullBufferNotifies'
    <3>1. SpareUsed'
      BY <1>1, <2>3 DEF AppendLine, RefillInv, SpareUsed
    <3>2. FullBufferNotifies'
      <4>1. /\ pc' = pc
            /\ (buffers_' = buffers_ /\ notified' = notified) \/ notified' = (pc = "wait")
        BY <1>1, Zenon DEF AppendLine
      <4> QED BY <4>1, Zenon DEF RefillInv, FullBufferNotifies
    <3> QED BY <3>1, <3>2
  <2>8. BackendHolds'
    BY <1>1 DEF AppendLine, RefillInv, BackendHolds, backendVars
  <2> QED BY <2>6, <2>7, <2>8 DEF RefillInv
<1>2. CASE Start
  <2>1. Shape'
    BY <1>2 DEF Start, RefillInv, Shape, sharedVars
  <2>2. SpareUsed' /\ BackendHolds' /\ FullBufferNotifies'
    BY <1>2 DEF Start, RefillInv, Shape, SpareUsed, BackendHolds, FullBufferNotifies, sharedVars
  <2> QED BY <2>1, <2>2 DEF RefillInv
<1>3. CASE Stop
  <2>1. Shape' /\ SpareUsed' /\ BackendHolds'
    BY <1>3 DEF Stop, RefillInv, Shape, SpareUsed, BackendHolds, sharedVars, backendVars
  <2>2. FullBufferNotifies'
    BY <1>3, Zenon DEF Stop, RefillInv, FullBufferNotifies
  <2> QED BY <2>1, <2>2 DEF RefillInv
<1>4. CASE While
  <2>1. CASE TakeBuffers
    BY <1>4, <2>1, TakeBuffersStep DEF While
  <2>2. CASE ~TakeBuffers
    BY <1>4, <2>2, Zenon DEF While, RefillInv, Shape, SpareUsed, BackendHolds, FullBufferNotifies,
                      sharedVars, backendVars
  <2> QED BY <2>1, <2>2
<1>5. CASE WaitNotified
  BY <1>5, TakeBuffersStep DEF WaitNotified
<1>6. CASE WaitAgain
  BY <1>6 DEF WaitAgain, RefillInv, Shape, SpareUsed, BackendHolds, FullBufferNotifies,
              sharedVars, backendVars
<1>7. CASE WaitTimesOut
  BY <1>7, TakeBuffersStep DEF WaitTimesOut
<1>8. CASE Write
  BY <1>8 DEF Write, RefillInv, Shape, SpareUsed, BackendHolds, FullBufferNotifies, sharedVars,
              Reset
<1>9. CASE UNCHANGED vars
  BY <1>9 DEF vars, RefillInv, Shape, SpareUsed, BackendHolds, FullBufferNotifies, sharedVars,
              backendVars
<1> QED BY <1>1, <1>2, <1>3, <1>4, <1>5, <1>6, <1>7, <1>8, <1>9 DEF Next, Backend

\* It holds at the start.
LEMMA RefillInvInit == Init => RefillInv
<1> SUFFICES ASSUME Init PROVE RefillInv
  OBVIOUS
<1>1. <<>> \in Seq(Buffers)
  OBVIOUS
<1> QED BY <1>1, EmptyBuffer, AsyncLoggingAssumption
        DEF Init, RefillInv, Shape, SpareUsed, BackendHolds, FullBufferNotifies

\* The inductive invariant holds.
LEMMA RefillInvHolds == Spec => []RefillInv
BY RefillInvInit, RefillInvStep, PTL DEF Spec

\* No assert of ThreadFunction fails, for any sizes and any interleaving of Append,
\* Stop and the back-end.
THEOREM BackendAsserts == Spec => []AssertsHold
BY RefillInvHolds, RefillInvAsserts, PTL

\* No notification of a full buffer is lost: the back-end never sits in its wait over a
\* queued buffer that it has not been told of.
THEOREM FullBufferIsTold == Spec => []FullBufferNotifies
<1>1. RefillInv => FullBufferNotifies
  BY DEF RefillInv
<1> QED BY <1>1, RefillInvHolds, PTL

(***************************************************************************)
(* AsyncLogging: the lines, from Append to the LogFile.                    *)
(***************************************************************************)
\* The lines of a sequence of buffers increase, but for the notices in it.
Increasing(s) ==
    \A i, j \in DOMAIN s : \A k \in DOMAIN s[i], l \in DOMAIN s[j] :
        /\ i < j \/ (i = j /\ k < l)
        /\ DropNotice \notin {s[i][k], s[j][l]}
        => s[i][k] < s[j][l]

\* The lines of s are earlier than those of t, but for notices.
Before(s, t) ==
    \A x \in LinesOf(s), y \in LinesOf(t) : DropNotice \notin {x, y} => x < y

\* What LinesOf collects.
LEMMA InLines ==
  ASSUME NEW s, NEW x
  PROVE  x \in LinesOf(s) <=> \E i \in DOMAIN s : \E k \in DOMAIN s[i] : x = s[i][k]
<1>1. x \in LinesOf(s) <=> \E i \in DOMAIN s : x \in Range(s[i])
  BY Zenon DEF LinesOf
<1>2. ASSUME NEW i \in DOMAIN s
      PROVE  x \in Range(s[i]) <=> \E k \in DOMAIN s[i] : x = s[i][k]
  BY Zenon DEF Range
<1> QED
  BY <1>1, <1>2, Zenon

\* An element of a sequence.
LEMMA Element ==
  ASSUME NEW S, NEW s \in Seq(S), NEW k \in DOMAIN s
  PROVE  s[k] \in S
OBVIOUS

\* Where an element of a concatenation comes from.
LEMMA Places ==
  ASSUME NEW S, NEW s \in Seq(S), NEW t \in Seq(S), NEW u, u = s \o t
  PROVE  /\ u \in Seq(S) /\ Len(s) \in Nat
         /\ \A i \in DOMAIN s : i \in DOMAIN u /\ u[i] = s[i] /\ i \in Nat /\ i <= Len(s)
         /\ \A i \in DOMAIN t :
               Len(s) + i \in DOMAIN u /\ u[Len(s) + i] = t[i] /\ i \in Nat /\ 0 < i
         /\ \A i \in DOMAIN u :
               i \in DOMAIN s \/ (i - Len(s) \in DOMAIN t /\ i = Len(s) + (i - Len(s)))
OBVIOUS

\* The lines of a concatenation are those of its parts.
LEMMA LinesJoined ==
  ASSUME NEW S, NEW s \in Seq(S), NEW t \in Seq(S)
  PROVE  LinesOf(s \o t) = LinesOf(s) \cup LinesOf(t)
<1> DEFINE u == s \o t
<1>1. u = s \o t
  OBVIOUS
<1> HIDE DEF u
<1>2. /\ \A i \in DOMAIN s : i \in DOMAIN u /\ u[i] = s[i]
      /\ \A i \in DOMAIN t : Len(s) + i \in DOMAIN u /\ u[Len(s) + i] = t[i]
      /\ \A i \in DOMAIN u :
            i \in DOMAIN s \/ (i - Len(s) \in DOMAIN t /\ i = Len(s) + (i - Len(s)))
  BY <1>1, Places
<1>3. ASSUME NEW x \in LinesOf(u) PROVE x \in LinesOf(s) \/ x \in LinesOf(t)
  <2>1. PICK i \in DOMAIN u : \E k \in DOMAIN u[i] : x = u[i][k]
    BY InLines
  <2>2. CASE i \in DOMAIN s
    <3>1. \E k \in DOMAIN s[i] : x = s[i][k]
      BY <1>2, <2>1, <2>2, Zenon
    <3> QED
      BY <2>2, <3>1, InLines, Zenon
  <2>3. CASE i - Len(s) \in DOMAIN t /\ i = Len(s) + (i - Len(s))
    <3> DEFINE j == i - Len(s)
    <3>1. j \in DOMAIN t /\ u[i] = t[j]
      BY <1>2, <2>3, Zenon
    <3> HIDE DEF j
    <3>2. \E k \in DOMAIN t[j] : x = t[j][k]
      BY <2>1, <3>1, Zenon
    <3> QED
      BY <3>1, <3>2, InLines, Zenon
  <2> QED
    BY <1>2, <2>2, <2>3, Zenon
<1>4. ASSUME NEW x \in LinesOf(s) PROVE x \in LinesOf(u)
  <2>1. PICK i \in DOMAIN s : \E k \in DOMAIN s[i] : x = s[i][k]
    BY InLines
  <2>2. i \in DOMAIN u /\ \E k \in DOMAIN u[i] : x = u[i][k]
    BY <1>2, <2>1, Zenon
  <2> QED
    BY <2>2, InLines, Zenon
<1>5. ASSUME NEW x \in LinesOf(t) PROVE x \in LinesOf(u)
  <2>1. PICK i \in DOMAIN t : \E k \in DOMAIN t[i] : x = t[i][k]
    BY InLines
  <2> DEFINE j == Len(s) + i
  <2>2. j \in DOMAIN u /\ u[j] = t[i]
    BY <1>2, Zenon
  <2> HIDE DEF j
  <2>3. \E k \in DOMAIN u[j] : x = u[j][k]
    BY <2>1, <2>2, Zenon
  <2> QED
    BY <2>2, <2>3, InLines, Zenon
<1>6. LinesOf(u) = LinesOf(s) \cup LinesOf(t)
  BY <1>3, <1>4, <1>5
<1> QED
  BY <1>6 DEF u

\* A concatenation increases when its parts do and one is before the other.
LEMMA OrderJoined ==
  ASSUME NEW S, NEW s \in Seq(S), NEW t \in Seq(S)
  PROVE  Increasing(s \o t) <=> Increasing(s) /\ Increasing(t) /\ Before(s, t)
<1> DEFINE u == s \o t
<1>1. u = s \o t
  OBVIOUS
<1> HIDE DEF u
<1>2. /\ Len(s) \in Nat
      /\ \A i \in DOMAIN s : i \in DOMAIN u /\ u[i] = s[i] /\ i \in Nat /\ i <= Len(s)
      /\ \A i \in DOMAIN t : Len(s) + i \in DOMAIN u /\ u[Len(s) + i] = t[i] /\ i \in Nat /\ 0 < i
      /\ \A i \in DOMAIN u :
            i \in DOMAIN s \/ (i - Len(s) \in DOMAIN t /\ i = Len(s) + (i - Len(s)))
  BY <1>1, Places
<1>3. ASSUME Increasing(u) PROVE Increasing(s) /\ Increasing(t) /\ Before(s, t)
  <2>1. Increasing(s)
    <3> SUFFICES ASSUME NEW i \in DOMAIN s, NEW j \in DOMAIN s,
                        NEW k \in DOMAIN s[i], NEW l \in DOMAIN s[j],
                        i < j \/ (i = j /\ k < l), DropNotice \notin {s[i][k], s[j][l]}
                 PROVE  s[i][k] < s[j][l]
      BY Zenon DEF Increasing
    <3>1. i \in DOMAIN u /\ j \in DOMAIN u /\ u[i] = s[i] /\ u[j] = s[j]
      BY <1>2, Zenon
    <3>2. u[i][k] < u[j][l]
      BY <1>3, <3>1, Zenon DEF Increasing
    <3> QED
      BY <3>1, <3>2, Zenon
  <2>2. Increasing(t)
    <3> SUFFICES ASSUME NEW i \in DOMAIN t, NEW j \in DOMAIN t,
                        NEW k \in DOMAIN t[i], NEW l \in DOMAIN t[j],
                        i < j \/ (i = j /\ k < l), DropNotice \notin {t[i][k], t[j][l]}
                 PROVE  t[i][k] < t[j][l]
      BY Zenon DEF Increasing
    <3> DEFINE a == Len(s) + i
               b == Len(s) + j
    <3>1. a \in DOMAIN u /\ b \in DOMAIN u /\ u[a] = t[i] /\ u[b] = t[j]
      BY <1>2, Zenon
    <3>2. a < b \/ (a = b /\ k < l)
      BY <1>2
    <3> HIDE DEF a, b
    <3>3. u[a][k] < u[b][l]
      BY <1>3, <3>1, <3>2, Zenon DEF Increasing
    <3> QED
      BY <3>1, <3>3, Zenon
  <2>3. Before(s, t)
    <3> SUFFICES ASSUME NEW x \in LinesOf(s), NEW y \in LinesOf(t), DropNotice \notin {x, y}
                 PROVE  x < y
      BY Zenon DEF Before
    <3>1. PICK i \in DOMAIN s : \E k \in DOMAIN s[i] : x = s[i][k]
      BY InLines
    <3>2. PICK k \in DOMAIN s[i] : x = s[i][k]
      BY <3>1
    <3>3. PICK j \in DOMAIN t : \E l \in DOMAIN t[j] : y = t[j][l]
      BY InLines
    <3>4. PICK l \in DOMAIN t[j] : y = t[j][l]
      BY <3>3
    <3> DEFINE b == Len(s) + j
    <3>5. i \in DOMAIN u /\ b \in DOMAIN u /\ u[i] = s[i] /\ u[b] = t[j]
      BY <1>2, Zenon
    <3>6. i < b
      BY <1>2
    <3> HIDE DEF b
    <3>7. u[i][k] < u[b][l]
      BY <1>3, <3>2, <3>4, <3>5, <3>6, Zenon DEF Increasing
    <3> QED
      BY <3>2, <3>4, <3>5, <3>7, Zenon
  <2> QED
    BY <2>1, <2>2, <2>3
<1>4. ASSUME Increasing(s), Increasing(t), Before(s, t) PROVE Increasing(u)
  <2> SUFFICES ASSUME NEW i \in DOMAIN u, NEW j \in DOMAIN u,
                      NEW k \in DOMAIN u[i], NEW l \in DOMAIN u[j],
                      i < j \/ (i = j /\ k < l), DropNotice \notin {u[i][k], u[j][l]}
               PROVE  u[i][k] < u[j][l]
    BY Zenon DEF Increasing
  <2>1. CASE i \in DOMAIN s /\ j \in DOMAIN s
    <3>1. u[i] = s[i] /\ u[j] = s[j]
      BY <1>2, <2>1, Zenon
    <3>2. s[i][k] < s[j][l]
      BY <1>4, <2>1, <3>1, Zenon DEF Increasing
    <3> QED
      BY <3>1, <3>2, Zenon
  <2>2. CASE i \in DOMAIN s /\ j \notin DOMAIN s
    <3> DEFINE b == j - Len(s)
    <3>1. b \in DOMAIN t /\ j = Len(s) + b
      BY <1>2, <2>2, Zenon
    <3> HIDE DEF b
    <3>2. u[i] = s[i] /\ u[j] = t[b]
      BY <1>2, <2>2, <3>1, Zenon
    <3>3. u[i][k] \in LinesOf(s) /\ u[j][l] \in LinesOf(t)
      BY <2>2, <3>1, <3>2, InLines, Zenon
    <3> QED
      BY <1>4, <3>3, Zenon DEF Before
  <2>3. CASE i \notin DOMAIN s
    <3> DEFINE a == i - Len(s)
               b == j - Len(s)
    <3>1. a \in DOMAIN t /\ i = Len(s) + a
      BY <1>2, <2>3, Zenon
    <3>2. j \notin DOMAIN s
      <4> SUFFICES ASSUME j \in DOMAIN s PROVE FALSE
        OBVIOUS
      <4>1. j \in Nat /\ j <= Len(s) /\ a \in Nat /\ 0 < a /\ Len(s) \in Nat
        BY <1>2, <3>1, Zenon
      <4> HIDE DEF a
      <4> QED
        BY <3>1, <4>1
    <3>3. b \in DOMAIN t /\ j = Len(s) + b
      BY <1>2, <3>2, Zenon
    <3>4. a \in Nat /\ b \in Nat /\ Len(s) \in Nat
      BY <1>2, <3>1, <3>3, Zenon
    <3> HIDE DEF a, b
    <3>5. a < b \/ (a = b /\ k < l)
      BY <3>1, <3>3, <3>4
    <3>6. u[i] = t[a] /\ u[j] = t[b]
      BY <1>2, <3>1, <3>3, Zenon
    <3>7. t[a][k] < t[b][l]
      BY <1>4, <3>1, <3>3, <3>5, <3>6, Zenon DEF Increasing
    <3> QED
      BY <3>6, <3>7, Zenon
  <2> QED
    BY <2>1, <2>2, <2>3, Zenon
<1>5. Increasing(u) <=> Increasing(s) /\ Increasing(t) /\ Before(s, t)
  BY <1>3, <1>4, Zenon
<1> QED
  BY <1>5 DEF u

\* What Stages says of its four parts.
OrderOf(a, b, c, d) ==
    /\ Increasing(a) /\ Increasing(b) /\ Increasing(c) /\ Increasing(d)
    /\ Before(a, b) /\ Before(a, c) /\ Before(a, d) /\ Before(b, c) /\ Before(b, d) /\ Before(c, d)

\* The lines of u are those of all four.
Comprises(u, a, b, c, d) == LinesOf(u) = LinesOf(a) \cup LinesOf(b) \cup LinesOf(c) \cup LinesOf(d)

\* Four parts in a row.
LEMMA FourParts ==
  ASSUME NEW S, NEW a \in Seq(S), NEW b \in Seq(S), NEW c \in Seq(S), NEW d \in Seq(S)
  PROVE  /\ Comprises(a \o b \o c \o d, a, b, c, d)
         /\ Increasing(a \o b \o c \o d) <=> OrderOf(a, b, c, d)
<1> DEFINE ab == a \o b
           abc == ab \o c
<1>1. ab \in Seq(S) /\ abc \in Seq(S)
  OBVIOUS
<1>2. LinesOf(ab) = LinesOf(a) \cup LinesOf(b)
  BY LinesJoined
<1>3. Increasing(ab) <=> Increasing(a) /\ Increasing(b) /\ Before(a, b)
  BY OrderJoined, Zenon
<1> HIDE DEF ab
<1>4. LinesOf(abc) = LinesOf(ab) \cup LinesOf(c)
  BY <1>1, LinesJoined
<1>5. Increasing(abc) <=> Increasing(ab) /\ Increasing(c) /\ Before(ab, c)
  BY <1>1, OrderJoined, Zenon
<1> HIDE DEF abc
<1>6. LinesOf(abc \o d) = LinesOf(abc) \cup LinesOf(d)
  BY <1>1, LinesJoined
<1>7. Increasing(abc \o d) <=> Increasing(abc) /\ Increasing(d) /\ Before(abc, d)
  BY <1>1, OrderJoined, Zenon
<1>8. Before(ab, c) <=> Before(a, c) /\ Before(b, c)
  BY <1>2 DEF Before
<1>9. Before(abc, d) <=> Before(ab, d) /\ Before(c, d)
  BY <1>4 DEF Before
<1>10. Before(ab, d) <=> Before(a, d) /\ Before(b, d)
  BY <1>2 DEF Before
<1>11. Comprises(abc \o d, a, b, c, d)
  BY <1>2, <1>4, <1>6, Zenon DEF Comprises
<1>12. Increasing(abc \o d) <=> OrderOf(a, b, c, d)
  BY <1>3, <1>5, <1>7, <1>8, <1>9, <1>10, Zenon DEF OrderOf
<1> QED
  BY <1>11, <1>12, Zenon DEF ab, abc

\* No buffers hold no lines.
LEMMA NoBuffers == LinesOf(<<>>) = {} /\ Increasing(<<>>)
<1>1. DOMAIN <<>> = {}
  OBVIOUS
<1> QED
  BY <1>1, Zenon DEF LinesOf, Increasing

\* The lines of one buffer, and their order.
LEMMA OneBuffer ==
  ASSUME NEW b
  PROVE  /\ LinesOf(<<b>>) = Range(b)
         /\ Increasing(<<b>>) <=> \A k, l \in DOMAIN b :
                k < l /\ DropNotice \notin {b[k], b[l]} => b[k] < b[l]
<1>1. DOMAIN <<b>> = {1} /\ <<b>>[1] = b /\ ~(1 < 1)
  OBVIOUS
<1> DEFINE s == <<b>>
<1> HIDE DEF s
<1>2. DOMAIN s = {1} /\ s[1] = b
  BY <1>1 DEF s
<1>3. LinesOf(s) = Range(b)
  BY <1>2, Zenon DEF LinesOf
<1>4. Increasing(s) <=> \A k, l \in DOMAIN b :
                k < l /\ DropNotice \notin {b[k], b[l]} => b[k] < b[l]
  BY <1>1, <1>2 DEF Increasing
<1> QED
  BY <1>3, <1>4 DEF s

\* What the first buffers of a sequence keep of it.
LEMMA FirstBuffers ==
  ASSUME NEW S, NEW s \in Seq(S), NEW n \in 0 .. Len(s)
  PROVE  /\ SubSeq(s, 1, n) \in Seq(S)
         /\ LinesOf(SubSeq(s, 1, n)) \subseteq LinesOf(s)
         /\ Increasing(s) => Increasing(SubSeq(s, 1, n))
<1> DEFINE t == SubSeq(s, 1, n)
<1>1. t \in Seq(S) /\ \A i \in DOMAIN t : i \in DOMAIN s /\ t[i] = s[i]
  OBVIOUS
<1> HIDE DEF t
<1>2. ASSUME NEW x \in LinesOf(t) PROVE x \in LinesOf(s)
  <2>1. PICK i \in DOMAIN t : \E k \in DOMAIN t[i] : x = t[i][k]
    BY InLines
  <2>2. i \in DOMAIN s /\ \E k \in DOMAIN s[i] : x = s[i][k]
    BY <1>1, <2>1, Zenon
  <2> QED
    BY <2>2, InLines, Zenon
<1>3. ASSUME Increasing(s) PROVE Increasing(t)
  <2> SUFFICES ASSUME NEW i \in DOMAIN t, NEW j \in DOMAIN t,
                      NEW k \in DOMAIN t[i], NEW l \in DOMAIN t[j],
                      i < j \/ (i = j /\ k < l), DropNotice \notin {t[i][k], t[j][l]}
               PROVE  t[i][k] < t[j][l]
    BY Zenon DEF Increasing
  <2>1. i \in DOMAIN s /\ j \in DOMAIN s /\ t[i] = s[i] /\ t[j] = s[j]
    BY <1>1, Zenon
  <2>2. s[i][k] < s[j][l]
    BY <1>3, <2>1, Zenon DEF Increasing
  <2> QED
    BY <2>1, <2>2, Zenon
<1> QED
  BY <1>1, <1>2, <1>3 DEF t


\* Buffers are sequences of numbers, and the parts of Stages sequences of them.
LEMMA PartsTyped ==
  ASSUME AsyncLoggingAssumption,
         NEW a \in Seq(Seq(0 .. MaxLines)), NEW b \in Seq(Buffers), NEW c \in Seq(Buffers),
         NEW d \in Buffers
  PROVE  /\ a \in Seq(Seq(Nat)) /\ b \in Seq(Seq(Nat)) /\ c \in Seq(Seq(Nat))
         /\ <<d>> \in Seq(Seq(Nat)) /\ b \in Seq(Seq(0 .. MaxLines))
<1>1. MaxLines \in Nat
  BY Zenon DEF AsyncLoggingAssumption
<1>2. \A s \in Seq(0 .. MaxLines) : s \in Seq(Nat)
  BY <1>1
<1>3. \A s \in Buffers : s \in Seq(Nat) /\ s \in Seq(0 .. MaxLines)
  BY <1>1 DEF Buffers
<1>4. a \in Seq(Seq(Nat))
  BY <1>2
<1>5. b \in Seq(Seq(Nat)) /\ c \in Seq(Seq(Nat)) /\ b \in Seq(Seq(0 .. MaxLines))
  BY <1>3
<1>6. <<d>> \in Seq(Seq(Nat))
  BY <1>3
<1> QED
  BY <1>4, <1>5, <1>6

\* InOrder and LinesOf(Stages), by the parts of Stages, in a state and the next.
LEMMA StagesParts ==
  /\ TypeOK => /\ InOrder <=> OrderOf(output, buffersToWrite, buffers_, <<currentBuffer_>>)
               /\ LinesOf(Stages) = LinesOf(output) \cup LinesOf(buffersToWrite)
                                      \cup LinesOf(buffers_) \cup LinesOf(<<currentBuffer_>>)
  /\ TypeOK' => /\ InOrder' <=> OrderOf(output', buffersToWrite', buffers_', <<currentBuffer_'>>)
                /\ LinesOf(Stages') = LinesOf(output') \cup LinesOf(buffersToWrite')
                                       \cup LinesOf(buffers_') \cup LinesOf(<<currentBuffer_'>>)
<1>1. ASSUME TypeOK
      PROVE  /\ InOrder <=> OrderOf(output, buffersToWrite, buffers_, <<currentBuffer_>>)
             /\ LinesOf(Stages) = LinesOf(output) \cup LinesOf(buffersToWrite)
                                      \cup LinesOf(buffers_) \cup LinesOf(<<currentBuffer_>>)
  <2>1. /\ output \in Seq(Seq(Nat)) /\ buffersToWrite \in Seq(Seq(Nat))
        /\ buffers_ \in Seq(Seq(Nat)) /\ <<currentBuffer_>> \in Seq(Seq(Nat))
    BY <1>1, AsyncLoggingAssumption, PartsTyped, Zenon DEF TypeOK
  <2>2. InOrder <=> Increasing(Stages)
    BY Zenon DEF InOrder, Increasing
  <2>3. Stages = output \o buffersToWrite \o buffers_ \o <<currentBuffer_>>
    BY Zenon DEF Stages
  <2>4. Comprises(output \o buffersToWrite \o buffers_ \o <<currentBuffer_>>,
                  output, buffersToWrite, buffers_, <<currentBuffer_>>)
    BY <2>1, FourParts, Zenon
  <2>5. Increasing(output \o buffersToWrite \o buffers_ \o <<currentBuffer_>>)
           <=> OrderOf(output, buffersToWrite, buffers_, <<currentBuffer_>>)
    BY <2>1, FourParts, Zenon
  <2> QED
    BY <2>2, <2>3, <2>4, <2>5, Zenon DEF Comprises
<1>2. ASSUME TypeOK'
      PROVE  /\ InOrder' <=> OrderOf(output', buffersToWrite', buffers_', <<currentBuffer_'>>)
             /\ LinesOf(Stages') = LinesOf(output') \cup LinesOf(buffersToWrite')
                                       \cup LinesOf(buffers_') \cup LinesOf(<<currentBuffer_'>>)
  <2>1. /\ output' \in Seq(Seq(Nat)) /\ buffersToWrite' \in Seq(Seq(Nat))
        /\ buffers_' \in Seq(Seq(Nat)) /\ <<currentBuffer_'>> \in Seq(Seq(Nat))
    BY <1>2, AsyncLoggingAssumption, PartsTyped, Zenon DEF TypeOK
  <2>2. InOrder' <=> Increasing(Stages')
    BY Zenon DEF InOrder, Increasing
  <2>3. Stages' = output' \o buffersToWrite' \o buffers_' \o <<currentBuffer_'>>
    BY Zenon DEF Stages
  <2>4. Comprises(output' \o buffersToWrite' \o buffers_' \o <<currentBuffer_'>>,
                  output', buffersToWrite', buffers_', <<currentBuffer_'>>)
    BY <2>1, FourParts, Zenon
  <2>5. Increasing(output' \o buffersToWrite' \o buffers_' \o <<currentBuffer_'>>)
           <=> OrderOf(output', buffersToWrite', buffers_', <<currentBuffer_'>>)
    BY <2>1, FourParts, Zenon
  <2> QED
    BY <2>2, <2>3, <2>4, <2>5, Zenon DEF Comprises
<1> QED
  BY <1>1, <1>2, Zenon

\* The inductive invariant of the lines.
LinesInv == RefillInv /\ LinesAccounted

\* A step that leaves the lines where they are.
LEMMA LinesStay ==
  ASSUME LinesInv, TypeOK',
         UNCHANGED <<lines, lost, output, buffersToWrite, buffers_, currentBuffer_>>
  PROVE  LinesAccounted'
<1>1. /\ lines' = lines /\ lost' = lost /\ output' = output /\ buffersToWrite' = buffersToWrite
      /\ buffers_' = buffers_ /\ currentBuffer_' = currentBuffer_
  OBVIOUS
<1>2. TypeOK /\ InOrder /\ Accounted
  BY Zenon DEF LinesInv, LinesAccounted
<1>3. InOrder'
  BY <1>1, <1>2, StagesParts, Zenon
<1>4. Accounted'
  BY <1>1, <1>2, Zenon DEF Accounted, Stages
<1> QED
  BY <1>3, <1>4, Zenon DEF LinesAccounted

\* The step under mutex_ moves the queue and the current buffer, as they are, behind what
\* is written.
LEMMA TakeKeepsLines ==
  ASSUME LinesInv, TypeOK', TakeBuffers, pc \in {"while", "wait"}
  PROVE  LinesAccounted'
<1> DEFINE d == <<currentBuffer_>>
<1>1. TypeOK /\ InOrder /\ Accounted /\ RefillInv
  BY Zenon DEF LinesInv, LinesAccounted
<1>2. /\ buffersToWrite' = buffers_ \o d /\ buffers_' = <<>> /\ currentBuffer_' = <<>>
      /\ output' = output /\ lines' = lines /\ lost' = lost /\ buffersToWrite = <<>>
  <2>1. Append(buffers_, currentBuffer_) = buffers_ \o d
    BY <1>1 DEF TypeOK
  <2>2. newBuffer1 = <<>> /\ buffersToWrite = <<>>
    BY <1>1, Zenon DEF RefillInv, BackendHolds
  <2> QED
    BY <2>1, <2>2, Zenon DEF TakeBuffers
<1>3. buffers_ \in Seq(Seq(Nat)) /\ d \in Seq(Seq(Nat))
  BY <1>1, AsyncLoggingAssumption, PartsTyped, Zenon DEF TypeOK
<1>4. OrderOf(output, <<>>, buffers_, d)
  BY <1>1, <1>2, StagesParts, Zenon
<1>5. LinesOf(Stages) = LinesOf(output) \cup LinesOf(buffers_) \cup LinesOf(d)
  BY <1>1, <1>2, StagesParts, NoBuffers, Zenon
<1>6. /\ LinesOf(<<>>) = {} /\ Increasing(<<>>)
      /\ LinesOf(<< <<>> >>) = {} /\ Increasing(<< <<>> >>)
  <2>1. DOMAIN <<>> = {}
    OBVIOUS
  <2>2. Range(<<>>) = {}
    BY <2>1, Zenon DEF Range
  <2> QED
    BY <2>1, <2>2, NoBuffers, OneBuffer, Zenon
<1> HIDE DEF d
<1>7. LinesOf(buffers_ \o d) = LinesOf(buffers_) \cup LinesOf(d)
  BY <1>3, LinesJoined
<1>8. Increasing(buffers_ \o d) /\ Before(output, buffers_ \o d)
  <2>1. Increasing(buffers_) /\ Increasing(d) /\ Before(buffers_, d)
    BY <1>4, Zenon DEF OrderOf
  <2>2. Before(output, buffers_) /\ Before(output, d)
    BY <1>4, Zenon DEF OrderOf
  <2>3. Increasing(buffers_ \o d)
    BY <1>3, <2>1, OrderJoined, Zenon
  <2>4. Before(output, buffers_ \o d)
    BY <1>7, <2>2 DEF Before
  <2> QED
    BY <2>3, <2>4
<1>9. OrderOf(output', buffersToWrite', buffers_', <<currentBuffer_'>>)
  <2>1. \A s : Before(s, <<>>) /\ Before(s, << <<>> >>) /\ Before(<<>>, s)
    BY <1>6, Zenon DEF Before
  <2>2. Increasing(output)
    BY <1>4, Zenon DEF OrderOf
  <2> QED
    BY <1>2, <1>6, <1>8, <2>1, <2>2, Zenon DEF OrderOf
<1>10. InOrder'
  BY <1>9, StagesParts, Zenon
<1>11. LinesOf(Stages') = LinesOf(Stages)
  <2>1. LinesOf(Stages') = LinesOf(output) \cup LinesOf(buffers_ \o d) \cup {} \cup {}
    BY <1>2, <1>6, StagesParts, Zenon
  <2> QED
    BY <1>5, <1>7, <2>1, Zenon
<1>12. Accounted'
  BY <1>1, <1>2, <1>11, Zenon DEF Accounted
<1> QED
  BY <1>10, <1>12, Zenon DEF LinesAccounted


\* Lines that are numbered after all there are come after them.
LEMMA AppendKeepsLines ==
  ASSUME LinesInv, TypeOK', NEW huge \in BOOLEAN, AppendLine(huge)
  PROVE  LinesAccounted'
<1> DEFINE m == lines + 1
           d == <<currentBuffer_>>
           e == <<currentBuffer_'>>
           fits == ~huge /\ Len(currentBuffer_) < BufferLines
<1>1. TypeOK /\ InOrder /\ Accounted
  BY Zenon DEF LinesInv, LinesAccounted
<1>2. /\ lines' = m /\ output' = output /\ buffersToWrite' = buffersToWrite
      /\ lost' = IF huge THEN lost \cup {m} ELSE lost
  BY Zenon DEF AppendLine, backendVars
<1>3. /\ lines \in Nat /\ 1 .. m = 1 .. lines \cup {m} /\ m # DropNotice /\ m \in Nat
  BY <1>1, AsyncLoggingAssumption DEF TypeOK, DropNotice
<1>4. /\ OrderOf(output, buffersToWrite, buffers_, d)
      /\ LinesOf(Stages) = LinesOf(output) \cup LinesOf(buffersToWrite)
                             \cup LinesOf(buffers_) \cup LinesOf(d)
  BY <1>1, StagesParts, Zenon
<1>5. \A x \in LinesOf(Stages) : x # DropNotice => x < m
  <2>1. \A x \in LinesOf(Stages) : x # DropNotice => x \in 1 .. lines
    BY <1>1, Zenon DEF Accounted
  <2> QED
    BY <1>3, <2>1
<1>6. buffers_ \in Seq(Seq(Nat)) /\ d \in Seq(Seq(Nat)) /\ currentBuffer_ \in Seq(Nat)
  <2>1. buffers_ \in Seq(Seq(Nat)) /\ d \in Seq(Seq(Nat))
    BY <1>1, AsyncLoggingAssumption, PartsTyped, Zenon DEF TypeOK
  <2>2. currentBuffer_ \in Seq(Nat)
    BY <1>1, AsyncLoggingAssumption DEF TypeOK, Buffers
  <2> QED
    BY <2>1, <2>2
<1> HIDE DEF m
<1>7. CASE fits
  <2>1. currentBuffer_' = Append(currentBuffer_, m) /\ buffers_' = buffers_ /\ lost' = lost
    BY <1>2, <1>7, Zenon DEF AppendLine, m
  <2> DEFINE b == currentBuffer_
             c == currentBuffer_'
  <2>2. /\ DOMAIN c = DOMAIN b \cup {Len(b) + 1} /\ c[Len(b) + 1] = m
        /\ \A k \in DOMAIN b : c[k] = b[k] /\ k < Len(b) + 1 /\ k \in Nat
        /\ Len(b) + 1 \in Nat
    BY <1>3, <1>6, <2>1
  <2>3. Range(c) = Range(b) \cup {m}
    <3> HIDE DEF b, c
    <3>1. ASSUME NEW x PROVE x \in Range(c) <=> x \in Range(b) \/ x = m
      BY <2>2, Zenon DEF Range
    <3> QED
      BY <3>1
  <2>4. LinesOf(d) = Range(b) /\ LinesOf(e) = LinesOf(d) \cup {m}
    BY <2>3, OneBuffer, Zenon
  <2>5. \A x \in Range(b) : x # DropNotice => x < m
    BY <1>4, <1>5, <2>4, Zenon
  <2>6. Increasing(e)
    <3>1. \A k, l \in DOMAIN b : k < l /\ DropNotice \notin {b[k], b[l]} => b[k] < b[l]
      BY <1>4, OneBuffer, Zenon DEF OrderOf
    <3>2. \A k \in DOMAIN b : b[k] \in Range(b)
      BY Zenon DEF Range
    <3> HIDE DEF b, c
    <3>3. ASSUME NEW k \in DOMAIN c, NEW l \in DOMAIN c, k < l, DropNotice \notin {c[k], c[l]}
          PROVE  c[k] < c[l]
      <4>1. k \in DOMAIN b
        BY <2>2, <3>3
      <4>2. CASE l \in DOMAIN b
        BY <2>2, <3>1, <3>3, <4>1, <4>2, Zenon
      <4>3. CASE l = Len(b) + 1
        <5>1. c[l] = m /\ c[k] = b[k] /\ b[k] \in Range(b) /\ b[k] # DropNotice
          BY <2>2, <3>2, <3>3, <4>1, <4>3, Zenon
        <5> QED
          BY <2>5, <5>1, Zenon
      <4> QED
        BY <2>2, <4>2, <4>3, Zenon
    <3> QED
      BY <3>3, OneBuffer, Zenon DEF c
  <2> HIDE DEF b, c, d, e
  <2>7. \A s : LinesOf(s) \subseteq LinesOf(Stages) /\ Before(s, d) => Before(s, e)
    BY <1>5, <2>4, Zenon DEF Before
  <2>8. OrderOf(output', buffersToWrite', buffers_', e)
    BY <1>2, <1>4, <2>1, <2>6, <2>7, Zenon DEF OrderOf
  <2>9. InOrder'
    BY <2>8, StagesParts, Zenon DEF e
  <2>10. LinesOf(Stages') = LinesOf(Stages) \cup {m}
    <3>1. LinesOf(Stages') = LinesOf(output) \cup LinesOf(buffersToWrite)
                                \cup LinesOf(buffers_) \cup LinesOf(e)
      BY <1>2, <2>1, StagesParts, Zenon DEF e
    <3> QED
      BY <1>4, <2>4, <3>1, Zenon
  <2>11. Accounted'
    BY <1>1, <1>2, <1>3, <2>1, <2>10, Zenon DEF Accounted
  <2> QED
    BY <2>9, <2>11, Zenon DEF LinesAccounted
<1>8. CASE ~fits
  <2>1. /\ buffers_' = buffers_ \o d
        /\ currentBuffer_' = IF huge THEN <<>> ELSE <<m>>
    <3>1. Append(buffers_, currentBuffer_) = buffers_ \o d
      BY <1>6
    <3>2. /\ buffers_' = Append(buffers_, currentBuffer_)
          /\ currentBuffer_' = IF huge THEN <<>> ELSE <<m>>
      BY <1>8, Zenon DEF AppendLine, FreshBuffer, m
    <3> QED
      BY <3>1, <3>2, Zenon
  <2>2. LinesOf(e) = (IF huge THEN {} ELSE {m}) /\ Increasing(e)
    <3>1. DOMAIN <<>> = {} /\ DOMAIN <<m>> = {1} /\ <<m>>[1] = m /\ ~(1 < 1)
      OBVIOUS
    <3>2. Range(<<>>) = {} /\ Range(<<m>>) = {m}
      BY <3>1 DEF Range
    <3>3. CASE huge
      BY <2>1, <3>1, <3>2, <3>3, OneBuffer, Zenon
    <3>4. CASE ~huge
      <4> DEFINE c == <<m>>
      <4>1. e = <<c>> /\ DOMAIN c = {1} /\ Range(c) = {m}
        BY <2>1, <3>1, <3>2, <3>4, Zenon
      <4> HIDE DEF c, e
      <4>2. LinesOf(<<c>>) = {m} /\ Increasing(<<c>>)
        BY <3>1, <4>1, OneBuffer, Zenon
      <4> QED
        BY <3>4, <4>1, <4>2, Zenon
    <3> QED
      BY <3>3, <3>4, Zenon
  <2> HIDE DEF d, e
  <2>3. LinesOf(buffers_ \o d) = LinesOf(buffers_) \cup LinesOf(d)
    BY <1>6, LinesJoined
  <2>4. Increasing(buffers_ \o d)
    BY <1>4, <1>6, OrderJoined, Zenon DEF OrderOf
  <2>5. Before(output, buffers_ \o d) /\ Before(buffersToWrite, buffers_ \o d)
    <3>1. Before(output, buffers_) /\ Before(output, d)
      BY <1>4, Zenon DEF OrderOf
    <3>2. Before(buffersToWrite, buffers_) /\ Before(buffersToWrite, d)
      BY <1>4, Zenon DEF OrderOf
    <3> QED
      BY <2>3, <3>1, <3>2 DEF Before
  <2>6. \A s : LinesOf(s) \subseteq LinesOf(Stages) => Before(s, e)
    <3>1. \A y \in LinesOf(e) : y = m
      BY <2>2, Zenon
    <3> QED
      BY <1>5, <3>1, Zenon DEF Before
  <2>7. Before(output, e) /\ Before(buffersToWrite, e) /\ Before(buffers_ \o d, e)
    BY <1>4, <2>3, <2>6, Zenon
  <2>8. OrderOf(output', buffersToWrite', buffers_', e)
    BY <1>2, <1>4, <2>1, <2>2, <2>4, <2>5, <2>7, Zenon DEF OrderOf
  <2>9. InOrder'
    BY <2>8, StagesParts, Zenon DEF e
  <2>10. LinesOf(Stages') = LinesOf(Stages) \cup (IF huge THEN {} ELSE {m})
    <3>1. LinesOf(Stages') = LinesOf(output) \cup LinesOf(buffersToWrite)
                                \cup LinesOf(buffers_ \o d) \cup LinesOf(e)
      BY <1>2, <2>1, StagesParts, Zenon DEF e
    <3> QED
      BY <1>4, <2>2, <2>3, <3>1, Zenon
  <2>11. Accounted'
    <3>1. CASE huge
      BY <1>1, <1>2, <1>3, <2>10, <3>1, Zenon DEF Accounted
    <3>2. CASE ~huge
      BY <1>1, <1>2, <1>3, <2>10, <3>2, Zenon DEF Accounted
    <3> QED
      BY <3>1, <3>2, Zenon
  <2> QED
    BY <2>9, <2>11, Zenon DEF LinesAccounted
<1> QED
  BY <1>7, <1>8, Zenon


\* The back-end writes a prefix of what it took behind what is written, and what it drops
\* is lost.
LEMMA WriteKeepsLines ==
  ASSUME LinesInv, TypeOK', Write
  PROVE  LinesAccounted'
<1> DEFINE b == buffersToWrite
           kept == Kept(b)
           note == IF kept = b THEN <<>> ELSE << <<DropNotice>> >>
           d == <<currentBuffer_>>
<1>1. TypeOK /\ InOrder /\ Accounted
  BY Zenon DEF LinesInv, LinesAccounted
<1>2. /\ output' = output \o note \o Written(kept) /\ buffersToWrite' = <<>>
      /\ buffers_' = buffers_ /\ currentBuffer_' = currentBuffer_ /\ lines' = lines
      /\ lost' = lost \cup (LinesOf(b) \ LinesOf(kept))
  BY Zenon DEF Write, sharedVars
<1>3. output \in Seq(Seq(Nat)) /\ b \in Seq(Seq(Nat))
  BY <1>1, AsyncLoggingAssumption, PartsTyped, Zenon DEF TypeOK
<1>4. /\ OrderOf(output, b, buffers_, d)
      /\ LinesOf(Stages) = LinesOf(output) \cup LinesOf(b) \cup LinesOf(buffers_) \cup LinesOf(d)
  BY <1>1, StagesParts, Zenon
<1>5. kept \in Seq(Seq(Nat)) /\ LinesOf(kept) \subseteq LinesOf(b) /\ Increasing(kept)
  <2>1. CASE Len(b) > MaxBuffers
    <3>1. kept = SubSeq(b, 1, 2)
      BY <2>1, Zenon DEF Kept
    <3>2. 2 \in 0 .. Len(b)
      BY <1>3, <2>1, AsyncLoggingAssumption
    <3>3. Increasing(b)
      BY <1>4, Zenon DEF OrderOf
    <3> HIDE DEF kept, b
    <3> QED
      BY <1>3, <3>1, <3>2, <3>3, FirstBuffers, Zenon
  <2>2. CASE ~(Len(b) > MaxBuffers)
    <3>1. kept = b
      BY <2>2, Zenon DEF Kept
    <3> QED
      BY <1>3, <1>4, <3>1, Zenon DEF OrderOf
  <2> QED
    BY <2>1, <2>2, Zenon
<1> HIDE DEF kept, b
<1>6. /\ Written(kept) \in Seq(Seq(Nat)) /\ Increasing(Written(kept))
      /\ LinesOf(Written(kept)) = LinesOf(kept)
  <2>1. <<>> \in Seq(Seq(Nat))
    OBVIOUS
  <2>2. CASE LinesOf(kept) = {}
    BY <2>1, <2>2, NoBuffers, Zenon DEF Written
  <2>3. CASE LinesOf(kept) # {}
    BY <1>5, <2>3, Zenon DEF Written
  <2> QED
    BY <2>2, <2>3, Zenon
<1>7. note \in Seq(Seq(Nat)) /\ Increasing(note) /\ LinesOf(note) \subseteq {DropNotice}
  <2>1. <<>> \in Seq(Seq(Nat)) /\ << <<DropNotice>> >> \in Seq(Seq(Nat))
    BY DEF DropNotice
  <2> DEFINE c == <<DropNotice>>
  <2>2. DOMAIN c = {1} /\ c[1] = DropNotice /\ ~(1 < 1)
    OBVIOUS
  <2> HIDE DEF c
  <2>3. Range(c) = {DropNotice}
    BY <2>2 DEF Range
  <2>4. LinesOf(<<c>>) = {DropNotice} /\ Increasing(<<c>>)
    BY <2>2, <2>3, OneBuffer, Zenon
  <2>5. CASE note = <<>>
    BY <2>1, <2>5, NoBuffers, Zenon
  <2>6. CASE note = <<c>>
    BY <2>1, <2>4, <2>6, Zenon DEF c
  <2> QED
    BY <2>5, <2>6, Zenon DEF c
<1> DEFINE w == Written(kept)
           a == output \o note
           out == a \o w
<1> HIDE DEF note, w
<1>8. a \in Seq(Seq(Nat)) /\ w \in Seq(Seq(Nat))
  BY <1>3, <1>6, <1>7 DEF w
<1>9. LinesOf(a) = LinesOf(output) \cup LinesOf(note) /\ LinesOf(out) = LinesOf(a) \cup LinesOf(w)
  <2>1. LinesOf(a) = LinesOf(output) \cup LinesOf(note)
    BY <1>3, <1>7, LinesJoined
  <2> HIDE DEF a
  <2>2. LinesOf(out) = LinesOf(a) \cup LinesOf(w)
    BY <1>8, LinesJoined
  <2> QED
    BY <2>1, <2>2
<1>10. LinesOf(w) = LinesOf(kept) /\ Increasing(w)
  BY <1>6, Zenon DEF w
<1>11. \A s : Before(s, note) /\ Before(note, s)
  BY <1>7, Zenon DEF Before
<1>12. \A s : /\ Before(b, s) => Before(w, s)
              /\ Before(s, b) => Before(s, w)
  BY <1>5, <1>10, Zenon DEF Before
<1>13. Increasing(out)
  <2>1. Increasing(output) /\ Before(output, b)
    BY <1>4, Zenon DEF OrderOf
  <2>2. Increasing(a)
    BY <1>3, <1>7, <1>11, <2>1, OrderJoined, Zenon
  <2> HIDE DEF a
  <2>3. Before(a, w)
    <3>1. Before(a, w) <=> Before(output, w) /\ Before(note, w)
      BY <1>9 DEF Before
    <3>2. Before(output, w) /\ Before(note, w)
      BY <1>11, <1>12, <2>1, Zenon
    <3> QED
      BY <3>1, <3>2, Zenon
  <2> QED
    BY <1>8, <1>10, <2>2, <2>3, OrderJoined, Zenon
<1> HIDE DEF a, out
<1>14. Before(out, buffers_) /\ Before(out, d)
  <2>1. ASSUME NEW s, Before(output, s), Before(b, s) PROVE Before(out, s)
    <3>1. Before(a, s) <=> Before(output, s) /\ Before(note, s)
      BY <1>9 DEF Before
    <3>2. Before(out, s) <=> Before(a, s) /\ Before(w, s)
      BY <1>9 DEF Before
    <3> QED
      BY <1>11, <1>12, <2>1, <3>1, <3>2, Zenon
  <2> QED
    BY <1>4, <2>1, Zenon DEF OrderOf
<1>15. output' = out
  BY <1>2, Zenon DEF out, a, w
<1>16. OrderOf(output', buffersToWrite', buffers_', <<currentBuffer_'>>)
  <2>1. \A s : Before(s, <<>>) /\ Before(<<>>, s)
    BY NoBuffers, Zenon DEF Before
  <2>2. Increasing(buffers_) /\ Increasing(d) /\ Before(buffers_, d)
    BY <1>4, Zenon DEF OrderOf
  <2> QED
    BY <1>2, <1>13, <1>14, <1>15, <2>1, <2>2, NoBuffers, Zenon DEF OrderOf
<1>17. InOrder'
  BY <1>16, StagesParts, Zenon
<1>18. Accounted'
  <2> DEFINE rest == LinesOf(buffers_) \cup LinesOf(d)
  <2>1. LinesOf(Stages) = LinesOf(output) \cup LinesOf(b) \cup rest
    BY <1>4, Zenon
  <2>2. LinesOf(Stages') = LinesOf(out) \cup {} \cup LinesOf(buffers_) \cup LinesOf(d)
    BY <1>2, <1>15, StagesParts, NoBuffers, Zenon
  <2>3. LinesOf(Stages') = LinesOf(output) \cup LinesOf(note) \cup LinesOf(kept) \cup rest
    BY <1>9, <1>10, <2>2, Zenon
  <2> HIDE DEF rest
  <2>4. DropNotice \notin LinesOf(b)
    <3>1. b \in Seq(Buffers)
      BY <1>1, Zenon DEF TypeOK, b
    <3> SUFFICES ASSUME DropNotice \in LinesOf(b) PROVE FALSE
      OBVIOUS
    <3>2. PICK i \in DOMAIN b : \E k \in DOMAIN b[i] : DropNotice = b[i][k]
      BY InLines
    <3>3. b[i] \in Seq(1 .. MaxLines)
      BY <3>1 DEF Buffers
    <3>4. PICK k \in DOMAIN b[i] : DropNotice = b[i][k]
      BY <3>2
    <3>5. b[i][k] \in 1 .. MaxLines
      BY <3>3, <3>4, Element, Zenon
    <3> QED
      BY <3>4, <3>5 DEF DropNotice
  <2>5. 1 .. lines = (LinesOf(Stages) \ {DropNotice}) \cup lost
    BY <1>1, Zenon DEF Accounted
  <2>6. 1 .. lines = (LinesOf(Stages') \ {DropNotice}) \cup lost'
    BY <1>2, <1>5, <1>7, <2>1, <2>3, <2>4, <2>5
  <2> QED
    BY <1>2, <2>6, Zenon DEF Accounted
<1> QED
  BY <1>17, <1>18, Zenon DEF LinesAccounted


\* Every step keeps every variable of its type.
LEMMA LogTypeStep == LinesInv /\ [Next]_vars => TypeOK'
<1> SUFFICES ASSUME LinesInv, [Next]_vars PROVE TypeOK'
  OBVIOUS
<1>1. TypeOK /\ Accounted /\ RefillInv
  BY Zenon DEF LinesInv, LinesAccounted
<1>2. Shape'
  BY <1>1, RefillInvStep, Zenon DEF RefillInv
<1>3. /\ running_ \in BOOLEAN /\ notified \in BOOLEAN /\ lost \subseteq 1 .. MaxLines
      /\ output \in Seq(Seq(0 .. MaxLines)) /\ buffersToWrite \in Seq(Buffers)
  BY <1>1, Zenon DEF TypeOK
<1>4. running_' \in BOOLEAN /\ notified' \in BOOLEAN
  <2>1. TakeBuffers => running_' = running_ /\ notified' = FALSE
    BY Zenon DEF TakeBuffers
  <2>2. \A huge \in BOOLEAN : AppendLine(huge)
           => running_' = running_ /\ (notified' = notified \/ notified' = (pc = "wait"))
    BY Zenon DEF AppendLine
  <2>3. Start => running_' = TRUE /\ notified' = notified
    BY Zenon DEF Start
  <2>4. Stop => running_' = FALSE /\ notified' = (pc = "wait")
    BY Zenon DEF Stop
  <2>5. While => (running_' = running_ /\ notified' = notified) \/ TakeBuffers
    BY Zenon DEF While
  <2>6. WaitNotified \/ WaitTimesOut => TakeBuffers
    BY Zenon DEF WaitNotified, WaitTimesOut
  <2>7. WaitAgain => running_' = running_ /\ notified' = FALSE
    BY Zenon DEF WaitAgain
  <2>8. Write => running_' = running_ /\ notified' = notified
    BY Zenon DEF Write
  <2>9. UNCHANGED vars => running_' = running_ /\ notified' = notified
    BY Zenon DEF vars
  <2>10. running_' \in {running_, TRUE, FALSE} /\ notified' \in {notified, FALSE, (pc = "wait")}
    BY <2>1, <2>2, <2>3, <2>4, <2>5, <2>6, <2>7, <2>8, <2>9, Zenon DEF Next, Backend
  <2> QED
    BY <1>3, <2>10, Zenon
<1>5. lost' \subseteq 1 .. MaxLines /\ output' \in Seq(Seq(0 .. MaxLines))
  <2>1. CASE UNCHANGED <<lost, output>>
    BY <1>3, <2>1
  <2>2. ASSUME NEW huge \in BOOLEAN, AppendLine(huge)
        PROVE  lost' \subseteq 1 .. MaxLines /\ output' \in Seq(Seq(0 .. MaxLines))
    <3>1. lines + 1 \in 1 .. MaxLines
      BY <1>1, <2>2, AsyncLoggingAssumption DEF TypeOK, AppendLine
    <3>2. output' = output /\ lost' \in {lost, lost \cup {lines + 1}}
      BY <2>2, Zenon DEF AppendLine, backendVars
    <3> QED
      BY <1>3, <3>1, <3>2, Zenon
  <2>3. CASE Write
    <3> DEFINE b == buffersToWrite
               kept == Kept(b)
               note == IF kept = b THEN <<>> ELSE << <<DropNotice>> >>
    <3>1. /\ output' = output \o note \o Written(kept)
          /\ lost' = lost \cup (LinesOf(b) \ LinesOf(kept))
      BY <2>3, Zenon DEF Write
    <3>2. LinesOf(b) \subseteq 1 .. MaxLines
      <4> SUFFICES ASSUME NEW x \in LinesOf(b) PROVE x \in 1 .. MaxLines
        BY Zenon
      <4>1. PICK i \in DOMAIN b : \E k \in DOMAIN b[i] : x = b[i][k]
        BY InLines
      <4>2. PICK k \in DOMAIN b[i] : x = b[i][k]
        BY <4>1
      <4>3. b[i] \in Seq(1 .. MaxLines)
        BY <1>3, Element, Zenon DEF Buffers
      <4> QED
        BY <4>2, <4>3, Element, Zenon
    <3>3. b \in Seq(Seq(0 .. MaxLines))
      BY <1>1, AsyncLoggingAssumption, PartsTyped, Zenon DEF TypeOK
    <3>4. kept \in Seq(Seq(0 .. MaxLines))
      <4>1. Len(b) > MaxBuffers => 2 \in 0 .. Len(b)
        BY <1>3, AsyncLoggingAssumption
      <4> QED
        BY <3>3, <4>1, FirstBuffers, Zenon DEF Kept
    <3>5. Written(kept) \in Seq(Seq(0 .. MaxLines)) /\ note \in Seq(Seq(0 .. MaxLines))
      <4>1. <<>> \in Seq(Seq(0 .. MaxLines)) /\ << <<DropNotice>> >> \in Seq(Seq(0 .. MaxLines))
        BY AsyncLoggingAssumption DEF DropNotice
      <4> QED
        BY <3>4, <4>1, Zenon DEF Written
    <3> HIDE DEF kept, note, b
    <3>6. output \o note \o Written(kept) \in Seq(Seq(0 .. MaxLines))
      BY <1>3, <3>5
    <3> QED
      BY <1>3, <3>1, <3>2, <3>6, Zenon
  <2>4. TakeBuffers => UNCHANGED <<lost, output>>
    BY Zenon DEF TakeBuffers
  <2>5. Start \/ Stop \/ While \/ WaitNotified \/ WaitAgain \/ WaitTimesOut \/ UNCHANGED vars
           => UNCHANGED <<lost, output>>
    BY <2>4, Zenon DEF Start, Stop, While, WaitNotified, WaitAgain, WaitTimesOut, vars, backendVars
  <2> QED
    BY <2>1, <2>2, <2>3, <2>5, Zenon DEF Next, Backend
<1> QED
  BY <1>2, <1>4, <1>5, Zenon DEF TypeOK, Shape

\* Every step keeps the lines in order and accounted for.
LEMMA LinesInvStep == LinesInv /\ [Next]_vars => LinesInv'
<1> SUFFICES ASSUME LinesInv, [Next]_vars PROVE LinesInv'
  OBVIOUS
<1>1. RefillInv' /\ TypeOK'
  BY RefillInvStep, LogTypeStep, Zenon DEF LinesInv
<1> SUFFICES LinesAccounted'
  BY <1>1, Zenon DEF LinesInv
<1>2. ASSUME NEW huge \in BOOLEAN, AppendLine(huge) PROVE LinesAccounted'
  BY <1>1, <1>2, AppendKeepsLines, Zenon
<1>3. CASE Start \/ Stop
  <2>1. UNCHANGED <<lines, lost, output, buffersToWrite, buffers_, currentBuffer_>>
    BY <1>3, Zenon DEF Start, Stop, sharedVars, backendVars
  <2> QED
    BY <1>1, <2>1, LinesStay, Zenon
<1>4. CASE While
  <2>1. CASE TakeBuffers
    BY <1>1, <1>4, <2>1, TakeKeepsLines, Zenon DEF While
  <2>2. CASE ~TakeBuffers
    <3>1. UNCHANGED <<lines, lost, output, buffersToWrite, buffers_, currentBuffer_>>
      BY <1>4, <2>2, Zenon DEF While, sharedVars, backendVars
    <3> QED
      BY <1>1, <3>1, LinesStay, Zenon
  <2> QED
    BY <2>1, <2>2, Zenon
<1>5. CASE WaitNotified \/ WaitTimesOut
  BY <1>1, <1>5, TakeKeepsLines, Zenon DEF WaitNotified, WaitTimesOut
<1>6. CASE WaitAgain \/ UNCHANGED vars
  <2>1. UNCHANGED <<lines, lost, output, buffersToWrite, buffers_, currentBuffer_>>
    BY <1>6, Zenon DEF WaitAgain, vars, sharedVars, backendVars
  <2> QED
    BY <1>1, <2>1, LinesStay, Zenon
<1>7. CASE Write
  BY <1>1, <1>7, WriteKeepsLines, Zenon
<1> QED
  BY <1>2, <1>3, <1>4, <1>5, <1>6, <1>7, Zenon DEF Next, Backend

\* At the start there are no lines.
LEMMA LinesInvInit == Init => LinesInv
<1> SUFFICES ASSUME Init PROVE LinesInv
  OBVIOUS
<1>1. RefillInv
  BY RefillInvInit, Zenon
<1>2. /\ lines = 0 /\ lost = {} /\ output = <<>> /\ buffersToWrite = <<>> /\ buffers_ = <<>>
      /\ currentBuffer_ = <<>>
  BY Zenon DEF Init
<1>3. TypeOK
  <2>1. <<>> \in Seq(Seq(0 .. MaxLines))
    OBVIOUS
  <2>2. running_ \in BOOLEAN /\ notified \in BOOLEAN /\ lost \subseteq 1 .. MaxLines
    BY Zenon DEF Init
  <2> QED
    BY <1>1, <1>2, <2>1, <2>2, Zenon DEF TypeOK, RefillInv, Shape
<1>4. /\ LinesOf(<<>>) = {} /\ Increasing(<<>>)
      /\ LinesOf(<< <<>> >>) = {} /\ Increasing(<< <<>> >>)
  <2>1. DOMAIN <<>> = {}
    OBVIOUS
  <2>2. Range(<<>>) = {}
    BY <2>1, Zenon DEF Range
  <2> QED
    BY <2>1, <2>2, NoBuffers, OneBuffer, Zenon
<1>5. OrderOf(<<>>, <<>>, <<>>, << <<>> >>)
  BY <1>4, Zenon DEF OrderOf, Before
<1>6. InOrder
  BY <1>2, <1>3, <1>5, StagesParts, Zenon
<1>7. LinesOf(Stages) = {}
  <2>1. LinesOf(Stages) = {} \cup {} \cup {} \cup {}
    BY <1>2, <1>3, <1>4, StagesParts, Zenon
  <2> QED
    BY <2>1, Zenon
<1>8. Accounted
  <2>1. 1 .. lines = {}
    BY <1>2
  <2> QED
    BY <1>2, <1>7, <2>1, Zenon DEF Accounted
<1> QED
  BY <1>1, <1>3, <1>6, <1>8, Zenon DEF LinesInv, LinesAccounted

\* Append and ThreadFunction neither lose, repeat nor reorder a line, but for those given up
\* on purpose, for any sizes and any interleaving of Append, Stop and the back-end.
THEOREM LinesArrive == Spec => []LinesAccounted
<1>1. LinesInv => LinesAccounted
  BY Zenon DEF LinesInv
<1> QED
  BY <1>1, LinesInvInit, LinesInvStep, PTL DEF Spec

(***************************************************************************)
(* LogFile.                                                                *)
(***************************************************************************)
\* Unless the clock was set back, the file that is open was begun, and flushed last, before
\* any line that waits in its buffer was appended, if every flush has succeeded.
InSequence ==
    /\ lastRoll_ <= lastFlush_ /\ lastFlush_ <= now /\ lastAppend <= now
    /\ ~flushFailed => \A t \in file_.dirty : lastFlush_ <= t

\* The inductive invariant: RollFile leaves lastRoll_ and startOfPeriod_ as the name of the
\* open file says.
FileInv ==
    /\ LogKept /\ RolledInTime
    /\ lastRoll_ = file_.name /\ startOfPeriod_ = Period(lastRoll_)
    /\ ~setBack => InSequence

\* The count of lines since the last check starts again at 0, and stays below the limit
\* until it is due.
LEMMA LineCount ==
  \A N \in Nat \ {0} :
     /\ 0 \in 0 .. N - 1
     /\ \A n \in 0 .. N - 1 : ~(n + 1 >= N) => n + 1 \in 0 .. N - 1 /\ n + 1 # 0
OBVIOUS

\* A flush that is not due was made in the interval.
LEMMA NotOverdue == \A a, b, c \in Nat : ~(a - b > c) => a - b <= c
OBVIOUS

\* A period begins at most kRollPerSeconds before its last second.
LEMMA PeriodBounds ==
  ASSUME NEW t \in Nat
  PROVE  Period(t) \in Nat /\ Period(t) <= t /\ t - Period(t) < kRollPerSeconds
<1> DEFINE k == kRollPerSeconds
           q == t \div k
<1>1. k \in Nat \ {0}
  BY LogFileAssumption
<1> HIDE DEF k
<1>2. q \in Nat /\ q * k <= t /\ t < q * k + k
  BY <1>1
<1>3. q * k \in Nat
  BY <1>1, <1>2
<1> HIDE DEF q
<1>4. Period(t) = q * k
  BY DEF Period, q, k
<1> QED
  BY <1>1, <1>2, <1>3, <1>4 DEF k

\* Every line of the files fs is one of app, the bytes of each line, and every one is there.
Exact(fs, app) ==
    /\ \A i \in DOMAIN fs : \A k \in DOMAIN fs[i].lines :
          \E n \in DOMAIN app : fs[i].lines[k] = <<n, app[n]>>
    /\ \A n \in DOMAIN app :
          \E i \in DOMAIN fs : \E k \in DOMAIN fs[i].lines : fs[i].lines[k] = <<n, app[n]>>

\* The lines are in the order of their numbers, over all files.
Ascending(fs) ==
    \A i, j \in DOMAIN fs : \A k \in DOMAIN fs[i].lines, l \in DOMAIN fs[j].lines :
        i < j \/ (i = j /\ k < l) => fs[i].lines[k][1] < fs[j].lines[l][1]

Held(fs, app) == Exact(fs, app) /\ Ascending(fs)

\* Only the last file can have lines that are not flushed.
Clean(fs) == \A i \in 1 .. Len(fs) - 1 : fs[i].dirty = {}
CleanFiles == ~flushFailed => Clean(files)

\* Held is about the lines of the files alone.
LEMMA SameHeld ==
  ASSUME NEW fs, NEW gs, NEW app, Held(fs, app), DOMAIN gs = DOMAIN fs,
         \A i \in DOMAIN fs : gs[i].lines = fs[i].lines
  PROVE  Held(gs, app)
<1>1. Exact(fs, app) /\ Ascending(fs)
  BY Zenon DEF Held
<1>2. ASSUME NEW i \in DOMAIN gs, NEW k \in DOMAIN gs[i].lines
      PROVE  \E n \in DOMAIN app : gs[i].lines[k] = <<n, app[n]>>
  <2>1. i \in DOMAIN fs /\ gs[i].lines = fs[i].lines /\ k \in DOMAIN fs[i].lines
    BY Zenon
  <2>2. \E n \in DOMAIN app : fs[i].lines[k] = <<n, app[n]>>
    BY <1>1, <2>1, Zenon DEF Exact
  <2> QED
    BY <2>1, <2>2, Zenon
<1>3. ASSUME NEW n \in DOMAIN app
      PROVE  \E i \in DOMAIN gs : \E k \in DOMAIN gs[i].lines : gs[i].lines[k] = <<n, app[n]>>
  <2>1. PICK i \in DOMAIN fs : \E k \in DOMAIN fs[i].lines : fs[i].lines[k] = <<n, app[n]>>
    BY <1>1, Zenon DEF Exact
  <2>2. i \in DOMAIN gs /\ gs[i].lines = fs[i].lines
    BY Zenon
  <2>3. \E k \in DOMAIN gs[i].lines : gs[i].lines[k] = <<n, app[n]>>
    BY <2>1, <2>2, Zenon
  <2> QED
    BY <2>2, <2>3, Zenon
<1>4. ASSUME NEW i \in DOMAIN gs, NEW j \in DOMAIN gs,
             NEW k \in DOMAIN gs[i].lines, NEW l \in DOMAIN gs[j].lines,
             i < j \/ (i = j /\ k < l)
      PROVE  gs[i].lines[k][1] < gs[j].lines[l][1]
  <2>1. i \in DOMAIN fs /\ gs[i].lines = fs[i].lines /\ k \in DOMAIN fs[i].lines
    BY Zenon
  <2>2. j \in DOMAIN fs /\ gs[j].lines = fs[j].lines /\ l \in DOMAIN fs[j].lines
    BY Zenon
  <2>3. fs[i].lines[k][1] < fs[j].lines[l][1]
    BY <1>1, <1>4, <2>1, <2>2, Zenon DEF Ascending
  <2> QED
    BY <2>1, <2>2, <2>3, Zenon
<1> QED
  BY <1>2, <1>3, <1>4, Zenon DEF Held, Exact, Ascending

\* The lines of the files are those of app if each is and each is there.
LEMMA SameLines ==
  ASSUME NEW fs, NEW app
  PROVE  UNION {Range(fs[i].lines) : i \in DOMAIN fs} = {<<n, app[n]>> : n \in DOMAIN app}
           <=> Exact(fs, app)
<1> DEFINE kept == UNION {Range(fs[i].lines) : i \in DOMAIN fs}
           given == {<<n, app[n]>> : n \in DOMAIN app}
<1>1. \A x : x \in kept <=> \E i \in DOMAIN fs : \E k \in DOMAIN fs[i].lines : x = fs[i].lines[k]
  <2>1. \A x : x \in kept <=> \E i \in DOMAIN fs : x \in Range(fs[i].lines)
    BY Zenon
  <2>2. \A i \in DOMAIN fs : \A x :
           x \in Range(fs[i].lines) <=> \E k \in DOMAIN fs[i].lines : x = fs[i].lines[k]
    BY Zenon DEF Range
  <2> HIDE DEF kept
  <2> SUFFICES ASSUME NEW x
               PROVE  x \in kept
                        <=> \E i \in DOMAIN fs : \E k \in DOMAIN fs[i].lines : x = fs[i].lines[k]
    OBVIOUS
  <2>3. ASSUME x \in kept
        PROVE  \E i \in DOMAIN fs : \E k \in DOMAIN fs[i].lines : x = fs[i].lines[k]
    <3>1. PICK i \in DOMAIN fs : x \in Range(fs[i].lines)
      BY <2>1, <2>3, Zenon
    <3>2. \E k \in DOMAIN fs[i].lines : x = fs[i].lines[k]
      BY <2>2, <3>1, Zenon
    <3> QED
      BY <3>2
  <2>4. ASSUME NEW i \in DOMAIN fs, NEW k \in DOMAIN fs[i].lines, x = fs[i].lines[k]
        PROVE  x \in kept
    <3>1. x \in Range(fs[i].lines)
      BY <2>2, <2>4, Zenon
    <3> QED
      BY <2>1, <3>1, Zenon
  <2> QED
    BY <2>3, <2>4, Zenon
<1>2. \A x : x \in given <=> \E n \in DOMAIN app : x = <<n, app[n]>>
  BY Zenon
<1>3. kept = given <=>
        /\ \A i \in DOMAIN fs : \A k \in DOMAIN fs[i].lines :
              \E n \in DOMAIN app : fs[i].lines[k] = <<n, app[n]>>
        /\ \A n \in DOMAIN app : \E i \in DOMAIN fs : \E k \in DOMAIN fs[i].lines :
              fs[i].lines[k] = <<n, app[n]>>
  <2> HIDE DEF kept, given
  <2>1. ASSUME kept = given
        PROVE  /\ \A i \in DOMAIN fs : \A k \in DOMAIN fs[i].lines :
                    \E n \in DOMAIN app : fs[i].lines[k] = <<n, app[n]>>
               /\ \A n \in DOMAIN app : \E i \in DOMAIN fs : \E k \in DOMAIN fs[i].lines :
                    fs[i].lines[k] = <<n, app[n]>>
    <3>1. \A x : x \in kept <=> x \in given
      BY <2>1, Zenon
    <3>2. ASSUME NEW i \in DOMAIN fs, NEW k \in DOMAIN fs[i].lines
          PROVE  \E n \in DOMAIN app : fs[i].lines[k] = <<n, app[n]>>
      <4>1. fs[i].lines[k] \in given
        BY <1>1, <3>1, Zenon
      <4> QED
        BY <1>2, <4>1, Zenon
    <3>3. ASSUME NEW n \in DOMAIN app
          PROVE  \E i \in DOMAIN fs : \E k \in DOMAIN fs[i].lines :
                    fs[i].lines[k] = <<n, app[n]>>
      <4>1. <<n, app[n]>> \in kept
        BY <1>2, <3>1, Zenon
      <4>0. PICK i \in DOMAIN fs : \E k \in DOMAIN fs[i].lines : <<n, app[n]>> = fs[i].lines[k]
        BY <1>1, <4>1, Zenon
      <4>2. PICK k \in DOMAIN fs[i].lines : <<n, app[n]>> = fs[i].lines[k]
        BY <4>0
      <4> QED
        BY <4>2
    <3> QED
      BY <3>2, <3>3, Zenon
  <2>2. ASSUME \A i \in DOMAIN fs : \A k \in DOMAIN fs[i].lines :
                 \E n \in DOMAIN app : fs[i].lines[k] = <<n, app[n]>>,
               \A n \in DOMAIN app : \E i \in DOMAIN fs : \E k \in DOMAIN fs[i].lines :
                 fs[i].lines[k] = <<n, app[n]>>
        PROVE  kept = given
    <3>1. \A x : x \in kept <=> x \in given
      <4> SUFFICES ASSUME NEW x PROVE x \in kept <=> x \in given
        OBVIOUS
      <4>1. ASSUME x \in kept PROVE x \in given
        <5>0. PICK i \in DOMAIN fs : \E k \in DOMAIN fs[i].lines : x = fs[i].lines[k]
          BY <1>1, <4>1, Zenon
        <5>1. PICK k \in DOMAIN fs[i].lines : x = fs[i].lines[k]
          BY <5>0
        <5> QED
          BY <1>2, <2>2, <5>1, Zenon
      <4>2. ASSUME x \in given PROVE x \in kept
        <5>1. PICK n \in DOMAIN app : x = <<n, app[n]>>
          BY <1>2, <4>2, Zenon
        <5>0. PICK i \in DOMAIN fs : \E k \in DOMAIN fs[i].lines : fs[i].lines[k] = <<n, app[n]>>
          BY <2>2, Zenon
        <5>2. PICK k \in DOMAIN fs[i].lines : fs[i].lines[k] = <<n, app[n]>>
          BY <5>0
        <5>3. x = fs[i].lines[k]
          BY <5>1, <5>2, Zenon
        <5> QED
          BY <1>1, <5>3, Zenon
      <4> QED
        BY <4>1, <4>2, Zenon
    <3> QED
      BY <3>1
  <2> QED
    BY <2>1, <2>2, Zenon
<1> QED
  BY <1>3, Zenon DEF Exact

\* LinesKept, element by element, in a state and the next.
LEMMA HeldLines ==
  /\ LinesKept <=> Held(files, appended) /\ CleanFiles
  /\ LinesKept' <=> Held(files', appended') /\ CleanFiles'
<1>1. LinesKept <=> Held(files, appended) /\ CleanFiles
  <2>1. UNION {Range(files[i].lines) : i \in DOMAIN files}
             = {<<n, appended[n]>> : n \in DOMAIN appended}
           <=> Exact(files, appended)
    BY SameLines, Zenon
  <2> QED
    BY <2>1, Zenon DEF LinesKept, Held, Ascending, Clean, CleanFiles
<1>2. LinesKept' <=> Held(files', appended') /\ CleanFiles'
  <2>1. UNION {Range(files'[i].lines) : i \in DOMAIN files'}
             = {<<n, appended'[n]>> : n \in DOMAIN appended'}
           <=> Exact(files', appended')
    BY SameLines, Zenon
  <2> QED
    BY <2>1, Zenon DEF LinesKept, Held, Ascending, Clean, CleanFiles
<1> QED
  BY <1>1, <1>2

\* The files with another one in the place of the last.
LEMMA LastReplaced ==
  ASSUME NEW fs \in Seq(Files), fs # <<>>, NEW h \in Files
  PROVE  LET gs == [fs EXCEPT ![Len(fs)] = h]
         IN  /\ gs \in Seq(Files) /\ Len(gs) = Len(fs) /\ DOMAIN gs = DOMAIN fs
             /\ Len(fs) \in Nat \ {0} /\ Len(fs) \in DOMAIN fs
             /\ gs[Len(fs)] = h
             /\ \A i \in DOMAIN fs : i # Len(fs) => gs[i] = fs[i] /\ i < Len(fs)
OBVIOUS

\* A sequence with one element more.
LEMMA Appended ==
  ASSUME NEW S, NEW s \in Seq(S), NEW e \in S, NEW t, t = Append(s, e)
  PROVE  /\ DOMAIN t = DOMAIN s \cup {Len(s) + 1} /\ t[Len(s) + 1] = e
         /\ \A k \in DOMAIN s : t[k] = s[k] /\ k < Len(s) + 1 /\ k \in Nat
OBVIOUS

\* A new line at the end of the open file is held there, behind all others.
LEMMA LineAdded ==
  ASSUME NEW fs \in Seq(Files), fs # <<>>, NEW app \in Seq(Nat), Held(fs, app), NEW h \in Files,
         NEW n \in Nat, h.lines = Append(fs[Len(fs)].lines, <<Len(app) + 1, n>>)
  PROVE  Held([fs EXCEPT ![Len(fs)] = h], Append(app, n))
<1> DEFINE gs == [fs EXCEPT ![Len(fs)] = h]
           last == Len(fs)
           old == fs[last].lines
           new == Append(app, n)
           m == Len(app) + 1
<1>1. /\ gs \in Seq(Files) /\ Len(gs) = last /\ DOMAIN gs = DOMAIN fs
      /\ last \in Nat \ {0} /\ last \in DOMAIN fs /\ gs[last] = h
      /\ \A i \in DOMAIN fs : i # last => gs[i] = fs[i] /\ i < last
  BY LastReplaced
<1>2. /\ old \in Seq(Nat \X Nat) /\ h.lines = Append(old, <<m, n>>) /\ Len(old) \in Nat
      /\ \A i \in DOMAIN fs : fs[i].lines \in Seq(Nat \X Nat)
  <2>1. \A i \in DOMAIN fs : fs[i] \in Files
    OBVIOUS
  <2>2. \A f \in Files : f.lines \in Seq(Nat \X Nat)
    BY DEF Files
  <2>3. \A i \in DOMAIN fs : fs[i].lines \in Seq(Nat \X Nat)
    BY <2>1, <2>2, Zenon
  <2>4. old \in Seq(Nat \X Nat)
    BY <1>1, <2>3, Zenon
  <2>5. Len(old) \in Nat
    BY <2>4
  <2> QED
    BY <2>3, <2>4, <2>5, Zenon
<1> HIDE DEF gs, last, old
<1>3. /\ DOMAIN (h.lines) = DOMAIN old \cup {Len(old) + 1}
      /\ h.lines[Len(old) + 1] = <<m, n>>
      /\ \A k \in DOMAIN old : h.lines[k] = old[k] /\ k < Len(old) + 1 /\ k \in Nat
  <2>1. m \in Nat /\ <<m, n>> \in Nat \X Nat
    OBVIOUS
  <2> DEFINE e == <<m, n>>
             ls == h.lines
             S == Nat \X Nat
  <2>2. e \in S /\ ls = Append(old, e) /\ old \in Seq(S)
    BY <1>2, <2>1, Zenon
  <2> HIDE DEF e, ls, S
  <2>3. /\ DOMAIN ls = DOMAIN old \cup {Len(old) + 1} /\ ls[Len(old) + 1] = e
        /\ \A k \in DOMAIN old : ls[k] = old[k] /\ k < Len(old) + 1 /\ k \in Nat
    BY <2>2, Appended
  <2> QED
    BY <2>3, Zenon DEF e, ls
<1>4. /\ m \in Nat /\ new[m] = n /\ DOMAIN new = DOMAIN app \cup {m}
      /\ \A x \in DOMAIN app : new[x] = app[x] /\ x < m /\ x \in Nat
  OBVIOUS
<1> HIDE DEF new, m
<1>5. \A i \in DOMAIN gs : \A k \in DOMAIN gs[i].lines :
         \/ i = last /\ k = Len(old) + 1 /\ gs[i].lines[k] = <<m, n>>
         \/ /\ i \in DOMAIN fs /\ k \in DOMAIN fs[i].lines /\ gs[i].lines[k] = fs[i].lines[k]
            /\ i = last => k < Len(old) + 1
  BY <1>1, <1>3, Zenon DEF old
<1>6. \A i \in DOMAIN fs : \A k \in DOMAIN fs[i].lines :
         k \in DOMAIN gs[i].lines /\ gs[i].lines[k] = fs[i].lines[k]
  BY <1>1, <1>3, Zenon DEF old
<1>7. last \in DOMAIN gs /\ Len(old) + 1 \in DOMAIN gs[last].lines
      /\ gs[last].lines[Len(old) + 1] = <<m, n>>
  BY <1>1, <1>3, Zenon
<1>8. \A i \in DOMAIN gs : \A k \in DOMAIN gs[i].lines :
          \E x \in DOMAIN new : gs[i].lines[k] = <<x, new[x]>>
  <2> SUFFICES ASSUME NEW i \in DOMAIN gs, NEW k \in DOMAIN gs[i].lines
               PROVE  \E x \in DOMAIN new : gs[i].lines[k] = <<x, new[x]>>
    OBVIOUS
  <2>1. CASE gs[i].lines[k] = <<m, n>>
    BY <1>4, <2>1
  <2>2. CASE i \in DOMAIN fs /\ k \in DOMAIN fs[i].lines /\ gs[i].lines[k] = fs[i].lines[k]
    <3>1. PICK x \in DOMAIN app : fs[i].lines[k] = <<x, app[x]>>
      BY <2>2, Zenon DEF Held, Exact, Ascending
    <3> QED
      BY <1>4, <2>2, <3>1
  <2> QED
    BY <1>5, <2>1, <2>2, Zenon
<1>9. \A x \in DOMAIN new :
          \E i \in DOMAIN gs : \E k \in DOMAIN gs[i].lines : gs[i].lines[k] = <<x, new[x]>>
  <2> SUFFICES ASSUME NEW x \in DOMAIN new
               PROVE  \E i \in DOMAIN gs : \E k \in DOMAIN gs[i].lines :
                         gs[i].lines[k] = <<x, new[x]>>
    BY Zenon
  <2>1. CASE x = m
    BY <1>4, <1>7, <2>1
  <2>2. CASE x \in DOMAIN app
    <3>0. PICK i \in DOMAIN fs : \E k \in DOMAIN fs[i].lines : fs[i].lines[k] = <<x, app[x]>>
      BY <2>2, Zenon DEF Held, Exact, Ascending
    <3>1. PICK k \in DOMAIN fs[i].lines : fs[i].lines[k] = <<x, app[x]>>
      BY <3>0
    <3>2. i \in DOMAIN gs /\ k \in DOMAIN gs[i].lines /\ gs[i].lines[k] = <<x, new[x]>>
      BY <1>1, <1>4, <1>6, <2>2, <3>1
    <3> QED
      BY <3>2
  <2> QED
    BY <1>4, <2>1, <2>2
<1>10. \A i \in DOMAIN fs : \A k \in DOMAIN fs[i].lines : fs[i].lines[k][1] < m
  <2> SUFFICES ASSUME NEW i \in DOMAIN fs, NEW k \in DOMAIN fs[i].lines
               PROVE  fs[i].lines[k][1] < m
    OBVIOUS
  <2>1. PICK x \in DOMAIN app : fs[i].lines[k] = <<x, app[x]>>
    BY Zenon DEF Held, Exact, Ascending
  <2>2. x < m /\ <<x, app[x]>>[1] = x
    BY <1>4, Zenon
  <2> QED
    BY <2>1, <2>2, Zenon
<1>11. ASSUME NEW i \in DOMAIN gs, NEW j \in DOMAIN gs,
              NEW k \in DOMAIN gs[i].lines, NEW l \in DOMAIN gs[j].lines,
              i < j \/ (i = j /\ k < l)
       PROVE  gs[i].lines[k][1] < gs[j].lines[l][1]
  <2>1. i \in Nat /\ j \in Nat /\ i <= last /\ j <= last
    BY <1>1
  <2>2. ~(i = last /\ k = Len(old) + 1)
    <3> SUFFICES ASSUME i = last, k = Len(old) + 1 PROVE FALSE
      OBVIOUS
    <3>1. i = j
      BY <1>11, <2>1
    <3>2. l \in DOMAIN old \cup {Len(old) + 1}
      BY <1>1, <1>3, <3>1, Zenon
    <3> QED
      <4>1. k < l /\ k = Len(old) + 1 /\ Len(old) \in Nat
        BY <1>2, <1>11, <2>1, <3>1
      <4>2. CASE l \in DOMAIN old
        <5>1. l < Len(old) + 1 /\ l \in Nat
          BY <1>3, <4>2, Zenon
        <5> QED
          BY <4>1, <5>1
      <4>3. CASE l = Len(old) + 1
        BY <4>1, <4>3
      <4> QED
        BY <3>2, <4>2, <4>3
  <2>3. i \in DOMAIN fs /\ k \in DOMAIN fs[i].lines /\ gs[i].lines[k] = fs[i].lines[k]
    BY <1>5, <2>2, Zenon
  <2>4. CASE j = last /\ l = Len(old) + 1
    <3>1. gs[j].lines[l][1] = m
      BY <1>7, <2>4
    <3> QED
      BY <1>10, <2>3, <3>1, Zenon
  <2>5. CASE ~(j = last /\ l = Len(old) + 1)
    <3>1. j \in DOMAIN fs /\ l \in DOMAIN fs[j].lines /\ gs[j].lines[l] = fs[j].lines[l]
      BY <1>5, <2>5, Zenon
    <3>2. fs[i].lines[k][1] < fs[j].lines[l][1]
      BY <1>11, <2>3, <3>1, Zenon DEF Held, Exact, Ascending
    <3> QED
      BY <2>3, <3>1, <3>2
  <2> QED
    BY <2>4, <2>5
<1> QED
  BY <1>8, <1>9, <1>11, Zenon DEF Held, Exact, Ascending, gs, new

\* A new, empty file changes nothing about the lines.
LEMMA FileAdded ==
  ASSUME NEW fs \in Seq(Files), NEW app \in Seq(Nat), Held(fs, app), NEW h \in Files, h.lines = <<>>
  PROVE  Held(Append(fs, h), app)
<1> DEFINE gs == Append(fs, h)
<1>1. /\ DOMAIN gs = DOMAIN fs \cup {Len(fs) + 1} /\ gs[Len(fs) + 1] = h
      /\ \A i \in DOMAIN fs : gs[i] = fs[i]
  OBVIOUS
<1>2. DOMAIN gs[Len(fs) + 1].lines = {}
  BY <1>1
<1> HIDE DEF gs
<1>3. \A i \in DOMAIN gs : \A k \in DOMAIN gs[i].lines : i \in DOMAIN fs /\ gs[i] = fs[i]
  BY <1>1, <1>2, Zenon
<1>4. \A i \in DOMAIN fs : i \in DOMAIN gs /\ gs[i] = fs[i]
  BY <1>1, Zenon
<1>5. \A i \in DOMAIN gs : \A k \in DOMAIN gs[i].lines :
          \E n \in DOMAIN app : gs[i].lines[k] = <<n, app[n]>>
  BY <1>3 DEF Held, Exact
<1>6. \A n \in DOMAIN app :
          \E i \in DOMAIN gs : \E k \in DOMAIN gs[i].lines : gs[i].lines[k] = <<n, app[n]>>
  <2> SUFFICES ASSUME NEW n \in DOMAIN app
               PROVE  \E i \in DOMAIN gs : \E k \in DOMAIN gs[i].lines :
                         gs[i].lines[k] = <<n, app[n]>>
    BY Zenon
  <2>0. PICK i \in DOMAIN fs : \E k \in DOMAIN fs[i].lines : fs[i].lines[k] = <<n, app[n]>>
    BY Zenon DEF Held, Exact, Ascending
  <2>1. PICK k \in DOMAIN fs[i].lines : fs[i].lines[k] = <<n, app[n]>>
    BY <2>0
  <2> QED
    BY <1>4, <2>1, Zenon
<1>7. ASSUME NEW i \in DOMAIN gs, NEW j \in DOMAIN gs,
             NEW k \in DOMAIN gs[i].lines, NEW l \in DOMAIN gs[j].lines,
             i < j \/ (i = j /\ k < l)
      PROVE  gs[i].lines[k][1] < gs[j].lines[l][1]
  <2>1. i \in DOMAIN fs /\ j \in DOMAIN fs /\ gs[i] = fs[i] /\ gs[j] = fs[j]
    BY <1>3, Zenon
  <2>2. k \in DOMAIN fs[i].lines /\ l \in DOMAIN fs[j].lines
    BY <2>1
  <2>3. fs[i].lines[k][1] < fs[j].lines[l][1]
    BY <1>7, <2>1, <2>2, Zenon DEF Held, Exact, Ascending
  <2> QED
    BY <2>1, <2>3
<1> QED
  BY <1>5, <1>6, <1>7, Zenon DEF Held, Exact, Ascending, gs


\* What a file is made of, and what stays of it when it is flushed.
LEMMA FileFields ==
  /\ \A f \in Files : /\ f.name \in 1 .. MaxTime /\ f.writtenBytes_ \in Nat
                      /\ f.lines \in Seq(Nat \X Nat) /\ f.dirty \in SUBSET (1 .. MaxTime)
                      /\ Flushed(f) \in Files /\ Flushed(f).name = f.name
                      /\ Flushed(f).writtenBytes_ = f.writtenBytes_
                      /\ Flushed(f).lines = f.lines /\ Flushed(f).dirty = {}
  /\ \A t \in 1 .. MaxTime :
        /\ NewFile(t) \in Files /\ NewFile(t).name = t /\ NewFile(t).writtenBytes_ = 0
        /\ NewFile(t).lines = <<>> /\ NewFile(t).dirty = {}
<1>1. \A f \in Files : /\ f.name \in 1 .. MaxTime /\ f.writtenBytes_ \in Nat
                       /\ f.lines \in Seq(Nat \X Nat) /\ f.dirty \in SUBSET (1 .. MaxTime)
  BY DEF Files
<1>2. \A f \in Files : /\ Flushed(f) \in Files /\ Flushed(f).name = f.name
                       /\ Flushed(f).writtenBytes_ = f.writtenBytes_
                       /\ Flushed(f).lines = f.lines /\ Flushed(f).dirty = {}
  BY Zenon DEF Files, Flushed
<1>3. \A t \in 1 .. MaxTime :
        /\ NewFile(t) \in Files /\ NewFile(t).name = t /\ NewFile(t).writtenBytes_ = 0
        /\ NewFile(t).lines = <<>> /\ NewFile(t).dirty = {}
  <2>1. <<>> \in Seq(Nat \X Nat)
    OBVIOUS
  <2> QED
    BY <2>1 DEF Files, NewFile
<1> QED
  BY <1>1, <1>2, <1>3, Zenon

\* A flush that may fail changes nothing of a file but what waits in its buffer.
LEMMA FlushOutcome ==
  ASSUME NEW f \in Files, NEW g \in Outcomes(f), Flushes(g), flushFailed \in BOOLEAN
  PROVE  /\ g \in Files /\ g.name = f.name /\ g.writtenBytes_ = f.writtenBytes_
         /\ g.lines = f.lines /\ (g = f \/ g = Flushed(f)) /\ (g.dirty = {} \/ g.dirty = f.dirty)
         /\ flushFailed' \in BOOLEAN
         /\ ~flushFailed' => ~flushFailed /\ g.dirty = {}
<1>1. g = f \/ g = Flushed(f)
  BY Zenon DEF Outcomes
<1>2. flushFailed' \in BOOLEAN /\ (~flushFailed' => ~flushFailed /\ g.dirty = {})
  BY Zenon DEF Flushes
<1>3. /\ Flushed(f) \in Files /\ Flushed(f).name = f.name
      /\ Flushed(f).writtenBytes_ = f.writtenBytes_
      /\ Flushed(f).lines = f.lines /\ Flushed(f).dirty = {}
  BY FileFields, Zenon
<1> QED
  BY <1>1, <1>2, <1>3, Zenon

\* A step that writes the open file anew keeps the files in order.
LEMMA LastWritten ==
  ASSUME FileInv, NEW h \in Files, h.name = file_.name, files' = Replaced(h),
         Held(files', appended'), ~flushFailed' => ~flushFailed
  PROVE  /\ files' \in Seq(Files) /\ files' # <<>> /\ file_' = h
         /\ LinesKept' /\ NamesIncrease'
<1> DEFINE last == Len(files)
<1>1. files \in Seq(Files) /\ files # <<>>
  BY Zenon DEF FileInv, LogKept, FileTypeOK
<1>2. /\ files' \in Seq(Files) /\ Len(files') = last /\ DOMAIN files' = DOMAIN files
      /\ last \in Nat \ {0} /\ last \in DOMAIN files
      /\ files'[last] = h
      /\ \A i \in DOMAIN files : i # last => files'[i] = files[i] /\ i < last
  BY <1>1, LastReplaced DEF Replaced
<1>3. files' # <<>>
  BY <1>2
<1>4. file_' = h
  BY <1>2 DEF file_
<1>5. \A i \in DOMAIN files : files'[i].name = files[i].name
  BY <1>2 DEF file_
<1>6. NamesIncrease'
  <2>1. NamesIncrease
    BY Zenon DEF FileInv, LogKept
  <2>2. ASSUME NEW i \in DOMAIN files', NEW j \in DOMAIN files', i < j
        PROVE  files'[i].name < files'[j].name
    <3>1. i \in DOMAIN files /\ j \in DOMAIN files
      BY <1>2, Zenon
    <3>2. files[i].name < files[j].name
      BY <2>1, <2>2, <3>1, Zenon DEF NamesIncrease
    <3> QED
      BY <1>5, <3>1, <3>2, Zenon
  <2> QED
    BY <2>2, Zenon DEF NamesIncrease
<1>7. CleanFiles'
  <2> SUFFICES ASSUME ~flushFailed' PROVE Clean(files')
    BY Zenon DEF CleanFiles
  <2>1. Clean(files)
    BY HeldLines, Zenon DEF FileInv, LogKept, CleanFiles
  <2> QED
    BY <1>2, <2>1 DEF Clean
<1>8. LinesKept'
  BY <1>7, HeldLines, Zenon
<1> QED
  BY <1>2, <1>3, <1>4, <1>6, <1>8, Zenon

\* A step that writes the open file, closes it and begins one with a later name does too.
LEMMA LastClosed ==
  ASSUME FileInv, NEW h \in Files, h.name = file_.name, now > lastRoll_,
         ~flushFailed' => ~flushFailed /\ h.dirty = {},
         files' = Append(Replaced(h), NewFile(now)), Held(Replaced(h), appended'),
         appended' \in Seq(Nat)
  PROVE  /\ files' \in Seq(Files) /\ files' # <<>> /\ file_' = NewFile(now)
         /\ LinesKept' /\ NamesIncrease'
<1> DEFINE last == Len(files)
           fs == Replaced(h)
           e == NewFile(now)
<1>1. files \in Seq(Files) /\ files # <<>> /\ now \in 1 .. MaxTime
  BY DEF FileInv, LogKept, FileTypeOK
<1>2. /\ fs \in Seq(Files) /\ Len(fs) = last /\ DOMAIN fs = DOMAIN files
      /\ last \in Nat \ {0} /\ last \in DOMAIN files
      /\ fs[last] = h
      /\ \A i \in DOMAIN files : i # last => fs[i] = files[i] /\ i < last
  BY <1>1, LastReplaced DEF Replaced
<1>3. e \in Files /\ e.name = now /\ e.lines = <<>> /\ files' = Append(fs, e)
  BY <1>1, FileFields, Zenon
<1> HIDE DEF fs, e
<1>4. /\ files' \in Seq(Files) /\ Len(files') = last + 1
      /\ DOMAIN files' = DOMAIN files \cup {last + 1} /\ files'[last + 1] = e
      /\ \A i \in DOMAIN files : files'[i] = fs[i]
  BY <1>2, <1>3
<1>5. files' # <<>> /\ file_' = e
  BY <1>2, <1>4 DEF file_
<1>6. Held(files', appended')
  <2>1. Held(fs, appended')
    BY DEF fs
  <2> QED
    BY <1>2, <1>3, <2>1, FileAdded, Zenon
<1>7. CleanFiles'
  <2> SUFFICES ASSUME ~flushFailed' PROVE Clean(files')
    BY Zenon DEF CleanFiles
  <2>1. Clean(files) /\ h.dirty = {}
    BY HeldLines, Zenon DEF FileInv, LogKept, CleanFiles
  <2>2. ASSUME NEW i \in 1 .. Len(files') - 1 PROVE files'[i].dirty = {}
    <3>1. i \in DOMAIN files /\ files'[i] = fs[i]
      BY <1>1, <1>2, <1>4
    <3>2. CASE i = last
      BY <1>2, <2>1, <3>1, <3>2
    <3>3. CASE i # last
      <4>1. fs[i] = files[i] /\ i \in 1 .. last - 1
        BY <1>1, <1>2, <3>1, <3>3
      <4> QED
        BY <2>1, <3>1, <4>1 DEF Clean
    <3> QED
      BY <3>2, <3>3
  <2> QED
    BY <2>2, Zenon DEF Clean
<1>8. LinesKept'
  BY <1>6, <1>7, HeldLines, Zenon
<1>9. \A i \in DOMAIN files : files'[i].name = files[i].name
  <2>1. \A i \in DOMAIN files : fs[i].name = files[i].name
    BY <1>2 DEF file_
  <2> QED
    BY <1>4, <2>1
<1>10. \A i \in DOMAIN files : files[i].name < now
  <2>1. files[last].name < now /\ NamesIncrease
    BY DEF FileInv, LogKept, file_
  <2>2. \A i \in DOMAIN files : i # last => files[i].name < files[last].name
    BY <1>2, <2>1, Zenon DEF NamesIncrease
  <2>3. \A i \in DOMAIN files : files[i].name \in 1 .. MaxTime
    BY <1>1, FileFields
  <2>4. last \in DOMAIN files
    BY <1>2, Zenon
  <2>5. ASSUME NEW i \in DOMAIN files, i # last PROVE files[i].name < now
    <3>1. files[i].name < files[last].name
      BY <2>2, <2>5, Zenon
    <3>2. files[i].name \in 1 .. MaxTime /\ files[last].name \in 1 .. MaxTime
      BY <2>3, <2>4, Zenon
    <3> QED
      BY <1>1, <2>1, <3>1, <3>2
  <2> QED
    BY <2>1, <2>5, Zenon
<1>11. NamesIncrease'
  <2> SUFFICES ASSUME NEW i \in DOMAIN files', NEW j \in DOMAIN files', i < j
               PROVE  files'[i].name < files'[j].name
    BY Zenon DEF NamesIncrease
  <2>1. i \in DOMAIN files /\ files'[i].name = files[i].name
    BY <1>1, <1>2, <1>4, <1>9
  <2>2. CASE j = last + 1
    BY <1>3, <1>4, <1>10, <2>1, <2>2
  <2>3. CASE j \in DOMAIN files
    <3>1. files[i].name < files[j].name
      BY <2>1, <2>3, Zenon DEF NamesIncrease, FileInv, LogKept
    <3> QED
      BY <1>9, <2>1, <2>3, <3>1
  <2> QED
    BY <1>4, <2>2, <2>3
<1> QED
  BY <1>4, <1>5, <1>8, <1>11, Zenon DEF e


\* The invariant, from what a step does to the files and what it does to the rest.
Timing ==
    /\ RolledInTime
    /\ lastRoll_ = file_.name /\ startOfPeriod_ = Period(lastRoll_)
    /\ ~setBack => InSequence

\* The types of the numbers.
Counters ==
    /\ count_ \in 0 .. checkEveryN - 1
    /\ now \in 1 .. MaxTime /\ lastRoll_ \in 1 .. MaxTime
    /\ lastFlush_ \in 1 .. MaxTime /\ lastAppend \in 1 .. MaxTime
    /\ startOfPeriod_ \in 0 .. MaxTime /\ setBack \in BOOLEAN /\ flushFailed \in BOOLEAN

\* The invariant is what it says of the numbers, the files and the time.
LEMMA FileInvParts ==
  /\ FileInv <=> /\ Counters /\ files \in Seq(Files) /\ files # <<>> /\ appended \in Seq(Nat)
                 /\ LinesKept /\ NamesIncrease /\ Timing
  /\ FileInv' <=> /\ Counters' /\ files' \in Seq(Files) /\ files' # <<>> /\ appended' \in Seq(Nat)
                  /\ LinesKept' /\ NamesIncrease' /\ Timing'
<1>1. FileTypeOK <=> /\ Counters /\ files \in Seq(Files) /\ files # <<>> /\ appended \in Seq(Nat)
  BY DEF FileTypeOK, Counters
<1>2. FileTypeOK' <=> /\ Counters' /\ files' \in Seq(Files) /\ files' # <<>>
                      /\ appended' \in Seq(Nat)
  BY DEF FileTypeOK, Counters
<1> QED
  BY <1>1, <1>2, Zenon DEF FileInv, LogKept, Timing

\* After a roll the file is new, and all clocks are the present.
LEMMA RollTiming ==
  ASSUME Counters, now' = now, setBack' = setBack, lastAppend' = now, file_' = NewFile(now),
         lastRoll_' = now, lastFlush_' = now, startOfPeriod_' = Period(now),
         count_' \in 0 .. checkEveryN - 1, flushFailed' \in BOOLEAN
  PROVE  Counters' /\ Timing'
<1>1. now \in 1 .. MaxTime /\ now \in Nat
  BY LogFileAssumption DEF Counters
<1>2. /\ file_'.name = now /\ file_'.writtenBytes_ = 0 /\ file_'.dirty = {}
  BY <1>1, FileFields, Zenon
<1>3. Period(now) \in Nat /\ Period(now) <= now /\ now - Period(now) < kRollPerSeconds
  BY <1>1, PeriodBounds, Zenon
<1>4. Counters'
  <2>1. Period(now) \in 0 .. MaxTime
    BY <1>1, <1>3, LogFileAssumption
  <2> QED
    BY <1>1, <2>1, Zenon DEF Counters
<1>5. RolledBySize' /\ RolledByPeriod' /\ FlushedInTime'
  BY <1>1, <1>2, <1>3, LogFileAssumption DEF RolledBySize, RolledByPeriod, FlushedInTime
<1>6. InSequence'
  BY <1>1, <1>2 DEF InSequence
<1>7. startOfPeriod_' = Period(lastRoll_)'
  BY Zenon DEF Period
<1> QED
  BY <1>2, <1>4, <1>5, <1>6, <1>7, Zenon DEF Timing, RolledInTime

\* When the clock was never set back and a roll is refused, it is still the second of the
\* last roll, and of every line that is not flushed.
LEMMA RefusedTiming ==
  ASSUME Counters, Timing, ~(now > lastRoll_), ~setBack
  PROVE  now = lastRoll_ /\ lastFlush_ = now /\ Period(now) = startOfPeriod_
<1>1. lastRoll_ <= lastFlush_ /\ lastFlush_ <= now
  BY Zenon DEF Timing, InSequence
<1>2. now = lastRoll_ /\ lastFlush_ = now
  BY <1>1 DEF Counters
<1> QED
  BY <1>2, Zenon DEF Timing

\* What the lines that wait for a flush say of an Append that does not roll.
LEMMA StayTiming ==
  ASSUME Counters, Timing, now' = now, setBack' = setBack, lastAppend' = now,
         NEW h \in Files, file_' = h, h.name = file_.name,
         lastRoll_' = lastRoll_, startOfPeriod_' = startOfPeriod_,
         \/ lastFlush_' = lastFlush_ /\ h.dirty \subseteq file_.dirty \cup {now}
         \/ lastFlush_' = now /\ (~flushFailed' => h.dirty = {}),
         flushFailed' \in BOOLEAN, ~flushFailed' => ~flushFailed,
         count_' \in 0 .. checkEveryN - 1,
         h.writtenBytes_ > rollSize => ~(now > lastRoll_),
         count_' = 0 /\ ~setBack =>
             /\ now - startOfPeriod_ < kRollPerSeconds
             /\ lastFlush_' = now \/ now - lastFlush_' <= flushInterval
  PROVE  Counters' /\ Timing'
<1>1. /\ now \in 1 .. MaxTime /\ lastRoll_ \in 1 .. MaxTime /\ lastFlush_ \in 1 .. MaxTime
      /\ startOfPeriod_ \in 0 .. MaxTime /\ MaxTime \in Nat /\ flushInterval \in Nat
  BY LogFileAssumption DEF Counters
<1>2. h.dirty \in SUBSET (1 .. MaxTime) /\ h.writtenBytes_ \in Nat
  BY FileFields, Zenon
<1>3. Counters'
  <2>1. lastFlush_' \in 1 .. MaxTime
    BY <1>1, Zenon
  <2> QED
    BY <1>1, <2>1, Zenon DEF Counters
<1>4. RolledBySize'
  <2>1. file_'.writtenBytes_ > rollSize => now <= lastRoll_
    BY <1>1
  <2> QED
    BY <2>1 DEF RolledBySize
<1>5. RolledByPeriod'
  BY <1>1 DEF RolledByPeriod
<1>6. ASSUME ~setBack
      PROVE  InSequence'
  <2>1. lastRoll_ <= lastFlush_ /\ lastFlush_ <= now
    BY <1>6, Zenon DEF Timing, InSequence
  <2>2. lastRoll_' <= lastFlush_' /\ lastFlush_' <= now' /\ lastAppend' <= now'
    <3>1. lastFlush_' = lastFlush_ \/ lastFlush_' = now
      BY Zenon
    <3> QED
      BY <1>1, <2>1, <3>1
  <2>3. ASSUME ~flushFailed' PROVE \A t \in h.dirty : lastFlush_' <= t
    <3>1. \A t \in file_.dirty : lastFlush_ <= t
      BY <1>6, <2>3, Zenon DEF Timing, InSequence
    <3>2. \/ lastFlush_' = lastFlush_ /\ h.dirty \subseteq file_.dirty \cup {now}
          \/ h.dirty = {}
      BY <2>3, Zenon
    <3> QED
      BY <1>1, <2>1, <3>1, <3>2
  <2> QED
    BY <2>2, <2>3, Zenon DEF InSequence
<1>7. FlushedInTime'
  <2> SUFFICES ASSUME count_' = 0, ~setBack, ~flushFailed', NEW t \in h.dirty
               PROVE  now - t <= flushInterval
    BY Zenon DEF FlushedInTime
  <2>1. lastFlush_' <= t
    BY <1>6, Zenon DEF InSequence
  <2>2. t \in 1 .. MaxTime
    BY <1>2
  <2> QED
    BY <1>1, <2>1, <2>2
<1>8. startOfPeriod_' = Period(lastRoll_)'
  BY Zenon DEF Period, Timing
<1>9. lastRoll_' = file_'.name
  BY Zenon DEF Timing
<1> QED
  BY <1>3, <1>4, <1>5, <1>6, <1>7, <1>8, <1>9, Zenon DEF Timing, RolledInTime


\* The open file after AppendFile::Append of the next line, flushed or not, is in its place.
LEMMA LineWritten ==
  ASSUME FileInv, NEW size \in Nat, NEW n \in Nat, appended' = Append(appended, n),
         NEW f, f = AppendTo(file_, Len(appended) + 1, size, n)
  PROVE  /\ appended' \in Seq(Nat)
         /\ f \in Files /\ f.name = file_.name /\ f.dirty = file_.dirty \cup {now}
         /\ Held(Replaced(f), appended') /\ Held(Replaced(Flushed(f)), appended')
<1> DEFINE m == Len(appended) + 1
<1>1. /\ Counters /\ files \in Seq(Files) /\ files # <<>> /\ appended \in Seq(Nat)
      /\ LinesKept
  BY FileInvParts, Zenon
<1>2. file_ \in Files /\ m \in Nat /\ now \in 1 .. MaxTime
  BY <1>1 DEF file_, Counters
<1>3. /\ file_.name \in 1 .. MaxTime /\ file_.writtenBytes_ \in Nat
      /\ file_.lines \in Seq(Nat \X Nat) /\ file_.dirty \in SUBSET (1 .. MaxTime)
  BY <1>2, FileFields, Zenon
<1> HIDE DEF m
<1>4. f = [name |-> file_.name,
           writtenBytes_ |-> file_.writtenBytes_ + (IF n = size THEN size ELSE 0),
           lines |-> Append(file_.lines, <<m, n>>), dirty |-> file_.dirty \cup {now}]
  BY Zenon DEF AppendTo, m
<1>5. /\ f.name = file_.name /\ f.lines = Append(file_.lines, <<m, n>>)
      /\ f.dirty = file_.dirty \cup {now}
  BY <1>4
<1>6. f \in Files
  <2>1. file_.writtenBytes_ + (IF n = size THEN size ELSE 0) \in Nat
    BY <1>3
  <2>2. Append(file_.lines, <<m, n>>) \in Seq(Nat \X Nat)
    BY <1>2, <1>3
  <2>3. file_.dirty \cup {now} \in SUBSET (1 .. MaxTime)
    BY <1>2, <1>3
  <2> DEFINE w == file_.writtenBytes_ + (IF n = size THEN size ELSE 0)
             ls == Append(file_.lines, <<m, n>>)
             d == file_.dirty \cup {now}
             a == file_.name
  <2>4. /\ f = [name |-> a, writtenBytes_ |-> w, lines |-> ls, dirty |-> d]
        /\ a \in 1 .. MaxTime /\ w \in Nat /\ ls \in Seq(Nat \X Nat) /\ d \in SUBSET (1 .. MaxTime)
    BY <1>3, <1>4, <2>1, <2>2, <2>3, Zenon
  <2> HIDE DEF w, ls, d, a
  <2> QED
    BY <2>4 DEF Files
<1>7. Flushed(f) \in Files /\ Flushed(f).lines = f.lines
  BY <1>6, FileFields, Zenon
<1>8. Held(files, appended)
  BY <1>1, HeldLines, Zenon
<1>9. Held(Replaced(f), appended')
  BY <1>1, <1>5, <1>6, <1>8, LineAdded, Zenon DEF Replaced, file_, m
<1>10. Held(Replaced(Flushed(f)), appended')
  BY <1>1, <1>5, <1>7, <1>8, LineAdded, Zenon DEF Replaced, file_, m
<1>11. appended' \in Seq(Nat)
  BY <1>1
<1> QED
  BY <1>5, <1>6, <1>9, <1>10, <1>11, Zenon

\* RollFile with the file that was just written keeps the invariant, whether or not it rolls,
\* if the check that called it is one that a refusal may follow.
LEMMA RollKeeps ==
  ASSUME FileInv, NEW f \in Files, f.name = file_.name, f.dirty = file_.dirty \cup {now},
         appended' \in Seq(Nat),
         Held(Replaced(f), appended'), Held(Replaced(Flushed(f)), appended'),
         now' = now, setBack' = setBack, lastAppend' = now,
         count_' \in 0 .. checkEveryN - 1, RollFile(f)
  PROVE  FileInv'
<1>1. Counters /\ Timing
  BY FileInvParts, Zenon
<1>2. flushFailed \in BOOLEAN
  BY <1>1, Zenon DEF Counters
<1>3. CASE now > lastRoll_
  <2>0. PICK g \in Outcomes(f) : Flushes(g) /\ files' = Append(Replaced(g), NewFile(now))
    BY <1>3, Zenon DEF RollFile
  <2>1. lastRoll_' = now /\ lastFlush_' = now /\ startOfPeriod_' = Period(now)
    BY <1>3, Zenon DEF RollFile
  <2>4. /\ g \in Files /\ g.name = file_.name /\ Held(Replaced(g), appended')
        /\ flushFailed' \in BOOLEAN /\ (~flushFailed' => ~flushFailed /\ g.dirty = {})
    BY <1>2, <2>0, FlushOutcome, Zenon
  <2>2. /\ files' \in Seq(Files) /\ files' # <<>> /\ file_' = NewFile(now)
        /\ LinesKept' /\ NamesIncrease'
    BY <1>3, <2>0, <2>4, LastClosed, Zenon
  <2>3. Counters' /\ Timing'
    BY <1>1, <2>1, <2>2, <2>4, RollTiming, Zenon
  <2> QED
    BY <2>2, <2>3, FileInvParts, Zenon
<1>4. CASE ~(now > lastRoll_)
  <2>1. /\ files' = Replaced(f)
        /\ lastRoll_' = lastRoll_ /\ lastFlush_' = lastFlush_ /\ startOfPeriod_' = startOfPeriod_
        /\ flushFailed' = flushFailed
    BY <1>4, Zenon DEF RollFile
  <2>2. /\ files' \in Seq(Files) /\ files' # <<>> /\ file_' = f
        /\ LinesKept' /\ NamesIncrease'
    BY <2>1, LastWritten, Zenon
  <2>3. ~setBack => /\ now - startOfPeriod_ < kRollPerSeconds
                    /\ lastFlush_' = now
    <3> SUFFICES ASSUME ~setBack
                 PROVE  now - startOfPeriod_ < kRollPerSeconds /\ lastFlush_' = now
      OBVIOUS
    <3>1. lastFlush_ = now /\ Period(now) = startOfPeriod_
      BY <1>1, <1>4, RefusedTiming, Zenon
    <3>2. now \in Nat
      BY <1>1, LogFileAssumption DEF Counters
    <3>3. now - Period(now) < kRollPerSeconds
      BY <3>2, PeriodBounds, Zenon
    <3> QED
      BY <2>1, <3>1, <3>3, Zenon
  <2>4. f.dirty \subseteq file_.dirty \cup {now}
    BY Zenon
  <2>5. Counters' /\ Timing'
    BY <1>1, <1>2, <1>4, <2>1, <2>2, <2>3, <2>4, StayTiming, Zenon
  <2> QED
    BY <2>2, <2>5, FileInvParts, Zenon
<1> QED
  BY <1>3, <1>4, Zenon

\* So does AppendUnlocked after the write.
LEMMA AfterWriteKeeps ==
  ASSUME FileInv, NEW f \in Files, f.name = file_.name, f.dirty = file_.dirty \cup {now},
         appended' \in Seq(Nat),
         Held(Replaced(f), appended'), Held(Replaced(Flushed(f)), appended'),
         now' = now, setBack' = setBack, lastAppend' = now, AfterWrite(f)
  PROVE  FileInv'
<1>1. Counters /\ Timing
  BY FileInvParts, Zenon
<1>2. /\ count_ \in 0 .. checkEveryN - 1 /\ now \in Nat /\ lastFlush_ \in Nat
      /\ checkEveryN \in Nat \ {0} /\ flushInterval \in Nat
  BY <1>1, LogFileAssumption DEF Counters
<1>3. now - Period(now) < kRollPerSeconds
  BY <1>2, PeriodBounds, Zenon
<1>4. CASE TooLarge(f) /\ RollFile(f) /\ UNCHANGED count_
  BY <1>2, <1>4, RollKeeps, Zenon
<1>5. CASE /\ ~TooLarge(f) /\ ~CheckDue
           /\ count_' = count_ + 1
           /\ files' = Replaced(f)
           /\ UNCHANGED <<startOfPeriod_, lastRoll_, lastFlush_, flushFailed>>
  <2>0. flushFailed' \in BOOLEAN /\ (~flushFailed' => ~flushFailed)
    <3>1. flushFailed' = flushFailed /\ flushFailed \in BOOLEAN
      BY <1>1, <1>5, Zenon DEF Counters
    <3> QED
      BY <3>1
  <2>1. count_' \in 0 .. checkEveryN - 1 /\ count_' # 0
    BY <1>2, <1>5, LineCount, Zenon DEF CheckDue
  <2>2. /\ files' \in Seq(Files) /\ files' # <<>> /\ file_' = f
        /\ LinesKept' /\ NamesIncrease'
    BY <1>5, <2>0, LastWritten, Zenon
  <2>3. ~(f.writtenBytes_ > rollSize)
    BY <1>5, Zenon DEF TooLarge
  <2>4. /\ startOfPeriod_' = startOfPeriod_ /\ lastRoll_' = lastRoll_ /\ lastFlush_' = lastFlush_
        /\ f.dirty \subseteq file_.dirty \cup {now}
    BY <1>5, Zenon
  <2>5. Counters' /\ Timing'
    BY <1>1, <2>0, <2>1, <2>2, <2>3, <2>4, StayTiming, Zenon
  <2> QED
    BY <2>2, <2>5, FileInvParts, Zenon
<1>6. CASE /\ ~TooLarge(f) /\ CheckDue
           /\ count_' = 0
           /\ Period(now) # startOfPeriod_ /\ RollFile(f)
  <2>1. count_' \in 0 .. checkEveryN - 1
    BY <1>2, <1>6, LineCount, Zenon
  <2> QED
    BY <1>6, <2>1, RollKeeps, Zenon
<1>7. CASE /\ ~TooLarge(f) /\ CheckDue
           /\ count_' = 0
           /\ Period(now) = startOfPeriod_
           /\ IF now - lastFlush_ > flushInterval
              THEN lastFlush_' = now /\ Flush(f)
              ELSE files' = Replaced(f) /\ UNCHANGED <<lastFlush_, flushFailed>>
           /\ UNCHANGED <<startOfPeriod_, lastRoll_>>
  <2>0. flushFailed \in BOOLEAN
    BY <1>1, Zenon DEF Counters
  <2>1. /\ count_' \in 0 .. checkEveryN - 1
        /\ startOfPeriod_' = startOfPeriod_ /\ lastRoll_' = lastRoll_
        /\ now - startOfPeriod_ < kRollPerSeconds
    BY <1>2, <1>3, <1>7, LineCount, Zenon
  <2>2. ~(f.writtenBytes_ > rollSize)
    BY <1>7, Zenon DEF TooLarge
  <2>3. CASE now - lastFlush_ > flushInterval
    <3>1. lastFlush_' = now
      BY <1>7, <2>3, Zenon
    <3>0. PICK g \in Outcomes(f) : Flushes(g) /\ files' = Replaced(g)
      BY <1>7, <2>3, Zenon DEF Flush
    <3>2. /\ g \in Files /\ g.name = file_.name /\ g.writtenBytes_ = f.writtenBytes_
          /\ Held(files', appended') /\ files' = Replaced(g)
          /\ flushFailed' \in BOOLEAN /\ (~flushFailed' => ~flushFailed /\ g.dirty = {})
      BY <2>0, <3>0, FlushOutcome, Zenon
    <3>3. /\ files' \in Seq(Files) /\ files' # <<>> /\ file_' = g
          /\ LinesKept' /\ NamesIncrease'
      BY <3>2, LastWritten, Zenon
    <3>4. Counters' /\ Timing'
      BY <1>1, <2>1, <2>2, <3>1, <3>2, <3>3, StayTiming, Zenon
    <3> QED
      BY <3>3, <3>4, FileInvParts, Zenon
  <2>4. CASE ~(now - lastFlush_ > flushInterval)
    <3>1. lastFlush_' = lastFlush_ /\ files' = Replaced(f) /\ flushFailed' = flushFailed
      BY <1>7, <2>4, Zenon
    <3>2. /\ files' \in Seq(Files) /\ files' # <<>> /\ file_' = f
          /\ LinesKept' /\ NamesIncrease'
      BY <3>1, LastWritten, Zenon
    <3>3. now - lastFlush_' <= flushInterval
      BY <1>2, <2>4, <3>1, NotOverdue, Zenon
    <3>4. f.dirty \subseteq file_.dirty \cup {now}
      BY Zenon
    <3>5. Counters' /\ Timing'
      BY <1>1, <2>0, <2>1, <2>2, <3>1, <3>2, <3>3, <3>4, StayTiming, Zenon
    <3> QED
      BY <3>2, <3>5, FileInvParts, Zenon
  <2> QED
    BY <2>3, <2>4, Zenon
<1> QED
  BY <1>4, <1>5, <1>6, <1>7, Zenon DEF AfterWrite


\* LogFile's constructor begins in the invariant.
LEMMA FileInvInit == FileInit => FileInv
<1> SUFFICES ASSUME FileInit PROVE FileInv
  OBVIOUS
<1> DEFINE e == NewFile(1)
<1>1. 1 \in 1 .. MaxTime /\ MaxTime \in Nat /\ checkEveryN \in Nat \ {0}
  BY LogFileAssumption
<1>2. /\ e \in Files /\ e.name = 1 /\ e.writtenBytes_ = 0 /\ e.lines = <<>> /\ e.dirty = {}
  BY <1>1, FileFields, Zenon
<1>3. /\ now = 1 /\ count_ = 0 /\ lastRoll_ = 1 /\ lastFlush_ = 1 /\ lastAppend = 1
      /\ startOfPeriod_ = Period(1) /\ files = <<e>> /\ appended = <<>> /\ setBack = FALSE
      /\ flushFailed = FALSE
  BY Zenon DEF FileInit
<1> HIDE DEF e
<1>4. /\ files \in Seq(Files) /\ files # <<>> /\ Len(files) = 1
      /\ DOMAIN files = {1} /\ files[1] = e
      /\ appended \in Seq(Nat) /\ DOMAIN appended = {} /\ file_ = e
  BY <1>2, <1>3 DEF file_
<1>5. Period(1) \in Nat /\ Period(1) <= 1 /\ 1 - Period(1) < kRollPerSeconds
  BY PeriodBounds
<1>6. Counters
  <2>1. Period(1) \in 0 .. MaxTime
    BY <1>1, <1>5
  <2>2. 0 \in 0 .. checkEveryN - 1 /\ setBack \in BOOLEAN /\ flushFailed \in BOOLEAN
    <3>1. 0 \in 0 .. checkEveryN - 1
      BY <1>1
    <3> QED
      BY <1>3, <3>1, Zenon
  <2> QED
    BY <1>1, <1>3, <2>1, <2>2, Zenon DEF Counters
<1>7. LinesKept
  <2>1. DOMAIN files[1].lines = {}
    BY <1>2, <1>4
  <2>2. Held(files, appended)
    BY <1>4, <2>1, Zenon DEF Held, Exact, Ascending
  <2>3. Clean(files)
    BY <1>4 DEF Clean
  <2> QED
    BY <2>2, <2>3, HeldLines, Zenon DEF CleanFiles
<1>8. NamesIncrease
  BY <1>4 DEF NamesIncrease
<1>9. RolledBySize /\ RolledByPeriod /\ FlushedInTime
  BY <1>2, <1>3, <1>4, <1>5, LogFileAssumption DEF RolledBySize, RolledByPeriod, FlushedInTime
<1>10. InSequence
  <2>1. 1 <= 1
    OBVIOUS
  <2> QED
    BY <1>2, <1>3, <1>4, <2>1, Zenon DEF InSequence
<1>11. Timing
  BY <1>2, <1>3, <1>4, <1>9, <1>10, Zenon DEF Timing, RolledInTime
<1> QED
  BY <1>4, <1>6, <1>7, <1>8, <1>11, FileInvParts, Zenon

\* Every step of the log file keeps it.
LEMMA FileInvStep == FileInv /\ [FileNext]_fileVars => FileInv'
<1> SUFFICES ASSUME FileInv, [FileNext]_fileVars PROVE FileInv'
  OBVIOUS
<1>1. /\ Counters /\ files \in Seq(Files) /\ files # <<>> /\ appended \in Seq(Nat)
      /\ LinesKept /\ NamesIncrease /\ Timing
  BY FileInvParts, Zenon
<1>2. /\ now \in 1 .. MaxTime /\ lastRoll_ \in 1 .. MaxTime /\ lastFlush_ \in 1 .. MaxTime
      /\ lastAppend \in 1 .. MaxTime /\ MaxTime \in Nat
  BY <1>1, LogFileAssumption DEF Counters
<1>3. ASSUME NEW size \in Sizes, LogFileAppend(size)
      PROVE  FileInv'
  <2>1. PICK n \in {size - 1, size} \cap Nat :
           /\ appended' = Append(appended, n)
           /\ AfterWrite(AppendTo(file_, Len(appended) + 1, size, n))
    BY <1>3, Zenon DEF LogFileAppend
  <2>2. lastAppend' = now /\ now' = now /\ setBack' = setBack
    BY <1>3, Zenon DEF LogFileAppend
  <2> DEFINE f == AppendTo(file_, Len(appended) + 1, size, n)
  <2>3. size \in Nat /\ n \in Nat
    BY LogFileAssumption
  <2>4. /\ appended' \in Seq(Nat)
        /\ f \in Files /\ f.name = file_.name /\ f.dirty = file_.dirty \cup {now}
        /\ Held(Replaced(f), appended') /\ Held(Replaced(Flushed(f)), appended')
    BY <2>1, <2>3, LineWritten, Zenon
  <2> QED
    BY <2>1, <2>2, <2>4, AfterWriteKeeps, Zenon
<1>4. CASE CallFlush
  <2>2. file_ \in Files /\ flushFailed \in BOOLEAN
    BY <1>1 DEF file_, Counters
  <2>0. PICK h \in Outcomes(file_) : Flushes(h) /\ files' = Replaced(h)
    BY <1>4, Zenon DEF CallFlush, Flush
  <2>1. /\ files' = Replaced(h)
        /\ count_' = count_ /\ startOfPeriod_' = startOfPeriod_ /\ lastRoll_' = lastRoll_
        /\ lastFlush_' = lastFlush_ /\ now' = now /\ appended' = appended
        /\ lastAppend' = lastAppend /\ setBack' = setBack
    BY <1>4, <2>0, Zenon DEF CallFlush
  <2>3. /\ h \in Files /\ h.name = file_.name /\ h.writtenBytes_ = file_.writtenBytes_
        /\ h.lines = file_.lines /\ flushFailed' \in BOOLEAN
        /\ (~flushFailed' => ~flushFailed /\ h.dirty = {})
    BY <2>0, <2>2, FlushOutcome, Zenon
  <2>4. Held(files', appended')
    <3>1. /\ DOMAIN files' = DOMAIN files
          /\ \A i \in DOMAIN files : files'[i].lines = files[i].lines
      BY <1>1, <2>1, <2>3, Zenon DEF Replaced, file_
    <3>2. Held(files, appended)
      BY <1>1, HeldLines, Zenon
    <3> QED
      BY <2>1, <3>1, <3>2, SameHeld, Zenon
  <2>5. /\ files' \in Seq(Files) /\ files' # <<>> /\ file_' = h
        /\ LinesKept' /\ NamesIncrease'
    BY <2>1, <2>3, <2>4, LastWritten, Zenon
  <2>6. Counters'
    BY <1>1, <2>1, <2>3, Zenon DEF Counters
  <2>7. Timing'
    <3>1. RolledBySize' /\ RolledByPeriod' /\ FlushedInTime'
      BY <1>1, <2>1, <2>3, <2>5, Zenon
      DEF Timing, RolledInTime, RolledBySize, RolledByPeriod, FlushedInTime
    <3>2. ~setBack => InSequence'
      BY <1>1, <2>1, <2>3, <2>5, Zenon DEF Timing, InSequence
    <3>3. lastRoll_' = file_'.name /\ startOfPeriod_' = Period(lastRoll_)'
      BY <1>1, <2>1, <2>3, <2>5, Zenon DEF Timing, Period
    <3> QED
      BY <2>1, <3>1, <3>2, <3>3, Zenon DEF Timing, RolledInTime
  <2>8. appended' \in Seq(Nat)
    BY <1>1, <2>1, Zenon
  <2> QED
    BY <2>5, <2>6, <2>7, <2>8, FileInvParts, Zenon
<1>5. ASSUME UNCHANGED <<count_, startOfPeriod_, lastRoll_, lastFlush_, files, appended,
                         lastAppend, flushFailed>>,
             now' \in 1 .. MaxTime, setBack' \in BOOLEAN,
             ~setBack' => ~setBack /\ now <= now'
      PROVE  FileInv'
  <2>1. /\ count_' = count_ /\ startOfPeriod_' = startOfPeriod_ /\ lastRoll_' = lastRoll_
        /\ lastFlush_' = lastFlush_ /\ files' = files /\ appended' = appended
        /\ lastAppend' = lastAppend /\ flushFailed' = flushFailed
    BY <1>5, Zenon
  <2>2. Counters'
    BY <1>1, <1>5, <2>1, Zenon DEF Counters
  <2>3. LinesKept' /\ NamesIncrease'
    BY <1>1, <2>1, HeldLines, Zenon DEF NamesIncrease, CleanFiles
  <2>4. file_' = file_
    BY <2>1, Zenon DEF file_
  <2>8. ~flushFailed' => ~flushFailed
    BY <2>1
  <2>5. RolledBySize' /\ RolledByPeriod' /\ FlushedInTime'
    BY <1>1, <1>5, <2>1, <2>4, <2>8, Zenon
    DEF Timing, RolledInTime, RolledBySize, RolledByPeriod, FlushedInTime
  <2>6. ASSUME ~setBack' PROVE InSequence'
    <3>1. /\ lastRoll_ <= lastFlush_ /\ lastFlush_ <= now /\ lastAppend <= now
          /\ ~flushFailed => \A t \in file_.dirty : lastFlush_ <= t
      BY <1>1, <1>5, <2>6, Zenon DEF Timing, InSequence
    <3>2. lastFlush_ <= now' /\ lastAppend <= now'
      BY <1>2, <1>5, <2>6, <3>1
    <3> QED
      BY <2>1, <2>4, <3>1, <3>2, Zenon DEF InSequence
  <2>7. Timing'
    BY <1>1, <2>1, <2>4, <2>5, <2>6, Zenon DEF Timing, RolledInTime, Period
  <2> QED
    BY <1>1, <2>1, <2>2, <2>3, <2>7, FileInvParts, Zenon
<1>6. CASE Tick
  <2>1. /\ UNCHANGED <<count_, startOfPeriod_, lastRoll_, lastFlush_, files, appended, lastAppend,
                       flushFailed>>
        /\ setBack' = setBack /\ now < MaxTime /\ now' = now + 1
    BY <1>6 DEF Tick, historyVars
  <2>2. now' \in 1 .. MaxTime /\ now <= now'
    BY <1>2, <2>1
  <2>3. setBack' \in BOOLEAN
    BY <1>1, <2>1, Zenon DEF Counters
  <2> QED
    BY <1>5, <2>1, <2>2, <2>3, Zenon
<1>7. CASE SetClockBack
  <2>1. /\ UNCHANGED <<count_, startOfPeriod_, lastRoll_, lastFlush_, files, appended, lastAppend,
                       flushFailed>>
        /\ setBack' = TRUE
    BY <1>7, Zenon DEF SetClockBack
  <2>2. now' \in 1 .. MaxTime
    BY <1>2, <1>7 DEF SetClockBack
  <2> QED
    BY <1>5, <2>1, <2>2, Zenon
<1>8. CASE UNCHANGED fileVars
  <2>1. /\ UNCHANGED <<count_, startOfPeriod_, lastRoll_, lastFlush_, files, appended, lastAppend,
                       flushFailed>>
        /\ now' = now /\ setBack' = setBack
    BY <1>8, Zenon DEF fileVars, historyVars
  <2>2. now' \in 1 .. MaxTime /\ now <= now'
    BY <1>2, <2>1
  <2>3. setBack' \in BOOLEAN
    BY <1>1, <2>1, Zenon DEF Counters
  <2> QED
    BY <1>5, <2>1, <2>2, <2>3, Zenon
<1> QED
  BY <1>3, <1>4, <1>6, <1>7, <1>8, Zenon DEF FileNext

\* The log files hold the lines that were given to LogFile::Append, in order and once, but
\* for bytes whose write or flush failed, and their names increase, whatever the clock does.
THEOREM LogIsKept == FileSpec => []LogKept
<1>1. FileInv => LogKept
  BY Zenon DEF FileInv
<1> QED
  BY <1>1, FileInvInit, FileInvStep, PTL DEF FileSpec

\* LogFile rolls a file that is too large or of an earlier period, and flushes, in time, as
\* of its check of every checkEveryN-th line.
THEOREM LogRollsInTime == FileSpec => []RolledInTime
<1>1. FileInv => RolledInTime
  BY Zenon DEF FileInv
<1> QED
  BY <1>1, FileInvInit, FileInvStep, PTL DEF FileSpec
=============================================================================
