--------------------------- MODULE TcpStreamProofs ---------------------------
(***************************************************************************)
(* Proofs about the bytes that a TcpConnection carries: what send is given *)
(* reaches the socket once, whole and in order, or is accounted for.  For  *)
(* every set of threads and every number of sends; on the types and the    *)
(* functor lemmas of TcpConnectionProofs.                                  *)
(***************************************************************************)
EXTENDS TcpConnectionProofs

(***************************************************************************)
(* The order of the bytes.                                                 *)
(***************************************************************************)
\* The functors of q carry bytes in the order in which they were sent.
Later(q) == \A i, j \in DOMAIN q : i < j => Before(q[i].data, q[j].data)

\* The bytes written, w, those buffered, o, and those of the functors in b and then in q are
\* in the order in which they were sent.
Ordered(w, o, b, q) ==
    /\ Ascending(w) /\ Ascending(o) /\ Before(w, o)
    /\ \A f \in Range(b) \cup Range(q) :
          Ascending(f.data) /\ Before(w, f.data) /\ Before(o, f.data)
    /\ Later(b) /\ Later(q)
    /\ \A f \in Range(b), g \in Range(q) : Before(f.data, g.data)

\* The byte x is in one of these places.
Held(w, o, b, q, x) ==
    \/ x \in Range(w) \/ x \in Range(o)
    \/ \E f \in Range(b) \cup Range(q) : x \in Range(f.data)

\* The inductive invariant: the order, that only Send of other threads queues data, and that
\* the bytes held are those sent, unless some were given up.
StreamInv ==
    /\ Ordered(wire, outputBuffer_, batch, queue)
    /\ \A f \in Range(batch) \cup Range(queue) :
          /\ f.op # "sendInLoop" => f.data = <<>>
          /\ \A x \in Range(f.data) : x[1] \in Threads
    /\ \A x \in Bytes : Held(wire, outputBuffer_, batch, queue, x) => x[2] <= sent[x[1]]
    /\ ~gaveUp => \A x \in Bytes : x[2] <= sent[x[1]] => Held(wire, outputBuffer_, batch, queue, x)

\* Bytes are pairs, and their numbers are numbers.
LEMMA ByteNumbers ==
  ASSUME NEW p \in Seq(Bytes)
  PROVE  /\ Range(p) \subseteq Bytes
         /\ \A x \in Range(p) : x[1] \in Senders /\ x[2] \in Nat
         /\ \A i \in DOMAIN p : p[i] \in Range(p)
BY DEF Range, Bytes

\* Two sequences one after the other.
LEMMA Concat ==
  ASSUME NEW p \in Seq(Bytes), NEW r \in Seq(Bytes)
  PROVE  /\ p \o r \in Seq(Bytes) /\ Range(p \o r) = Range(p) \cup Range(r)
         /\ Ascending(p) /\ Ascending(r) /\ Before(p, r) => Ascending(p \o r)
<1>1. /\ p \o r \in Seq(Bytes) /\ DOMAIN (p \o r) = 1 .. Len(p) + Len(r)
      /\ DOMAIN p = 1 .. Len(p) /\ DOMAIN r = 1 .. Len(r) /\ Len(p) \in Nat /\ Len(r) \in Nat
  OBVIOUS
<1>2. \A i \in 1 .. Len(p) : i \in DOMAIN (p \o r) /\ (p \o r)[i] = p[i]
  BY <1>1
<1>3. \A i \in 1 .. Len(r) : Len(p) + i \in DOMAIN (p \o r) /\ (p \o r)[Len(p) + i] = r[i]
  BY <1>1
<1>4. \A i \in DOMAIN (p \o r) : i \notin 1 .. Len(p) =>
         i - Len(p) \in 1 .. Len(r) /\ (p \o r)[i] = r[i - Len(p)]
  BY <1>1
<1>5. Range(p \o r) = Range(p) \cup Range(r)
  <2>1. Range(p \o r) \subseteq Range(p) \cup Range(r)
    BY <1>1, <1>2, <1>4 DEF Range
  <2>2. Range(p) \subseteq Range(p \o r)
    BY <1>1, <1>2 DEF Range
  <2>3. Range(r) \subseteq Range(p \o r)
    BY <1>1, <1>3 DEF Range
  <2> QED
    BY <2>1, <2>2, <2>3
<1>6. ASSUME Ascending(p), Ascending(r), Before(p, r) PROVE Ascending(p \o r)
  <2> SUFFICES ASSUME NEW i \in DOMAIN (p \o r), NEW j \in DOMAIN (p \o r), i < j,
                      (p \o r)[i][1] = (p \o r)[j][1]
               PROVE  (p \o r)[i][2] < (p \o r)[j][2]
    BY DEF Ascending
  <2>1. CASE j \in 1 .. Len(p)
    <3>1. i \in 1 .. Len(p)
      BY <1>1, <2>1
    <3> QED
      BY <1>1, <1>2, <1>6, <2>1, <3>1 DEF Ascending
  <2>2. CASE i \in 1 .. Len(p) /\ j \notin 1 .. Len(p)
    <3>1. p[i] \in Range(p) /\ r[j - Len(p)] \in Range(r)
      BY <1>1, <1>4, <2>2, ByteNumbers
    <3> QED
      BY <1>2, <1>4, <1>6, <2>2, <3>1 DEF Before
  <2>3. CASE i \notin 1 .. Len(p) /\ j \notin 1 .. Len(p)
    <3>1. i - Len(p) < j - Len(p)
      BY <1>1
    <3> QED
      BY <1>1, <1>4, <1>6, <2>3, <3>1 DEF Ascending
  <2> QED
    BY <2>1, <2>2, <2>3
<1> QED
  BY <1>1, <1>5, <1>6

\* s has x and, behind it, y.
InTurn(s, x, y) == \E k, l \in DOMAIN s : k < l /\ s[k] = x /\ s[l] = y

\* fs has what b and q have, in the order of each, and that of b first.
Joined(fs, b, q) ==
    /\ Range(fs) = Range(b) \cup Range(q)
    /\ \A i, j \in DOMAIN fs : i < j =>
          \/ InTurn(b, fs[i], fs[j]) \/ InTurn(q, fs[i], fs[j])
          \/ fs[i] \in Range(b) /\ fs[j] \in Range(q)

\* One sequence after another.
LEMMA SequencesJoined ==
  ASSUME NEW S, NEW b \in Seq(S), NEW q \in Seq(S), NEW fs, fs = b \o q
  PROVE  fs \in Seq(S) /\ Joined(fs, b, q)
<1>1. PICK m \in Nat, n \in Nat : m = Len(b) /\ n = Len(q)
  OBVIOUS
<1>2. fs \in Seq(S) /\ DOMAIN fs = 1 .. m + n /\ DOMAIN b = 1 .. m /\ DOMAIN q = 1 .. n
  BY <1>1
<1>3. /\ \A i \in 1 .. m : i \in DOMAIN fs /\ fs[i] = b[i]
      /\ \A i \in 1 .. n : m + i \in DOMAIN fs /\ fs[m + i] = q[i]
      /\ \A i \in 1 .. m + n : i \notin 1 .. m => i - m \in 1 .. n /\ fs[i] = q[i - m]
  BY <1>1, <1>2
<1>4. \A i \in 1 .. m : fs[i] \in Range(b)
  BY <1>2, <1>3, Zenon DEF Range
<1>5. \A i \in 1 .. m + n : i \notin 1 .. m => fs[i] \in Range(q)
  BY <1>2, <1>3, Zenon DEF Range
<1>6. Range(fs) = Range(b) \cup Range(q)
  <2>1. Range(fs) \subseteq Range(b) \cup Range(q)
    BY <1>2, <1>4, <1>5 DEF Range
  <2>2. Range(b) \subseteq Range(fs)
    BY <1>2, <1>3 DEF Range
  <2>3. ASSUME NEW x \in Range(q) PROVE x \in Range(fs)
    <3>1. PICK k \in 1 .. n : x = q[k]
      BY <1>2, <2>3, Zenon DEF Range
    <3>2. m + k \in DOMAIN fs /\ fs[m + k] = x
      BY <1>3, <3>1, Zenon
    <3> QED
      BY <3>2, Zenon DEF Range
  <2> QED
    BY <2>1, <2>2, <2>3, Zenon
<1>7. ASSUME NEW i \in DOMAIN fs, NEW j \in DOMAIN fs, i < j
      PROVE  \/ InTurn(b, fs[i], fs[j]) \/ InTurn(q, fs[i], fs[j])
             \/ fs[i] \in Range(b) /\ fs[j] \in Range(q)
  <2>1. CASE j \in 1 .. m
    <3>1. i \in 1 .. m
      BY <1>2, <1>7, <2>1
    <3>2. fs[i] = b[i] /\ fs[j] = b[j]
      BY <1>3, <2>1, <3>1, Zenon
    <3> QED
      BY <1>2, <1>7, <2>1, <3>1, <3>2, Zenon DEF InTurn
  <2>2. CASE i \notin 1 .. m /\ j \notin 1 .. m
    <3>1. i - m < j - m
      BY <1>2, <1>7
    <3>2. /\ i - m \in 1 .. n /\ fs[i] = q[i - m]
          /\ j - m \in 1 .. n /\ fs[j] = q[j - m]
      BY <1>2, <1>3, <2>2, Zenon
    <3> QED
      BY <1>2, <3>1, <3>2, Zenon DEF InTurn
  <2>3. CASE i \in 1 .. m /\ j \notin 1 .. m
    BY <1>2, <1>4, <1>5, <2>3, Zenon
  <2> QED
    BY <2>1, <2>2, <2>3, Zenon
<1> QED
  BY <1>2, <1>6, <1>7, Zenon DEF Joined

\* The two parts of a sequence.
LEMMA Split ==
  ASSUME NEW p \in Seq(Bytes), NEW n \in 0 .. Len(p), Ascending(p)
  PROVE  LET u == SubSeq(p, 1, n)
             v == SubSeq(p, n + 1, Len(p))
         IN  /\ Ascending(u) /\ Ascending(v) /\ Before(u, v)
             /\ Range(u) \cup Range(v) = Range(p)
<1> DEFINE u == SubSeq(p, 1, n)
           v == SubSeq(p, n + 1, Len(p))
<1>1. /\ u \in Seq(Bytes) /\ v \in Seq(Bytes) /\ Len(u) = n /\ Len(v) = Len(p) - n
      /\ Len(p) \in Nat /\ DOMAIN p = 1 .. Len(p)
  BY Pieces
<1>2. \A i \in 1 .. n : u[i] = p[i]
  OBVIOUS
<1>3. \A i \in 1 .. Len(p) - n : v[i] = p[n + i]
  OBVIOUS
<1> HIDE DEF u, v
<1>4. DOMAIN u = 1 .. n /\ DOMAIN v = 1 .. Len(p) - n
  BY <1>1
<1>5. \A i \in 1 .. n : i \in DOMAIN p
  BY <1>1
<1>6. \A i \in 1 .. Len(p) - n : n + i \in DOMAIN p
  BY <1>1
<1>7. \A i, j \in 1 .. Len(p) - n : i < j => n + i < n + j
  BY <1>1
<1>8. \A i \in 1 .. n : \A j \in 1 .. Len(p) - n : i < n + j
  BY <1>1
<1>9. Ascending(u)
  BY <1>2, <1>4, <1>5 DEF Ascending
<1>10. Ascending(v)
  <2> SUFFICES ASSUME NEW i \in 1 .. Len(p) - n, NEW j \in 1 .. Len(p) - n, i < j,
                      v[i][1] = v[j][1]
               PROVE  v[i][2] < v[j][2]
    BY <1>4, Zenon DEF Ascending
  <2>1. PICK k \in DOMAIN p : k = n + i
    BY <1>6
  <2>2. PICK l \in DOMAIN p : l = n + j
    BY <1>6
  <2> QED
    BY <1>3, <1>7, <2>1, <2>2 DEF Ascending
<1>11. Before(u, v)
  <2> SUFFICES ASSUME NEW b \in Range(u), NEW c \in Range(v), b[1] = c[1]
               PROVE  b[2] < c[2]
    BY DEF Before
  <2>1. PICK k \in 1 .. n : b = p[k] /\ k \in DOMAIN p
    BY <1>2, <1>4, <1>5 DEF Range
  <2>2. PICK j \in 1 .. Len(p) - n : c = v[j]
    BY <1>4 DEF Range
  <2>3. PICK l \in DOMAIN p : l = n + j /\ c = p[l]
    BY <1>3, <1>6, <2>2
  <2> QED
    BY <1>8, <2>1, <2>3 DEF Ascending
<1>12. Range(u) \cup Range(v) = Range(p)
  <2>1. Range(u) \subseteq Range(p) /\ Range(v) \subseteq Range(p)
    BY <1>2, <1>3, <1>4, <1>5, <1>6 DEF Range
  <2>2. \A i \in DOMAIN p : i \in 1 .. n \/ (i - n \in 1 .. Len(p) - n /\ n + (i - n) = i)
    BY <1>1
  <2>3. Range(p) \subseteq Range(u) \cup Range(v)
    BY <1>2, <1>3, <1>4, <2>2 DEF Range
  <2> QED
    BY <2>1, <2>3
<1> QED
  BY <1>9, <1>10, <1>11, <1>12 DEF u, v

\* Queueing a functor and running one.
LEMMA QueueRange ==
  ASSUME NEW q \in Seq(Functors)
  PROVE  /\ Range(q) \subseteq Functors
         /\ \A f \in Functors :
               /\ Range(Append(q, f)) = Range(q) \cup {f}
               /\ Later(q) /\ (\A g \in Range(q) : Before(g.data, f.data)) => Later(Append(q, f))
         /\ q # <<>> =>
               /\ Head(q) \in Functors /\ Range(q) = {Head(q)} \cup Range(Tail(q))
               /\ Later(q) => Later(Tail(q)) /\ \A g \in Range(Tail(q)) : Before(Head(q).data, g.data)
<1>0. DOMAIN q = 1 .. Len(q) /\ Len(q) \in Nat /\ \A i \in 1 .. Len(q) : q[i] \in Functors
  OBVIOUS
<1>1. ASSUME NEW f \in Functors
      PROVE  /\ Range(Append(q, f)) = Range(q) \cup {f}
             /\ Later(q) /\ (\A g \in Range(q) : Before(g.data, f.data)) => Later(Append(q, f))
  <2>1. /\ DOMAIN Append(q, f) = 1 .. Len(q) + 1 /\ Append(q, f)[Len(q) + 1] = f
        /\ \A i \in 1 .. Len(q) : Append(q, f)[i] = q[i]
    OBVIOUS
  <2>2. \A i \in 1 .. Len(q) + 1 : i = Len(q) + 1 \/ i \in 1 .. Len(q)
    BY <1>0
  <2>3. \A i \in 1 .. Len(q) : i \in 1 .. Len(q) + 1
    BY <1>0
  <2>4. Len(q) + 1 \in 1 .. Len(q) + 1
    BY <1>0
  <2>5. Range(Append(q, f)) = Range(q) \cup {f}
    BY <1>0, <2>1, <2>2, <2>3, <2>4 DEF Range
  <2>6. ASSUME Later(q), \A g \in Range(q) : Before(g.data, f.data) PROVE Later(Append(q, f))
    <3> SUFFICES ASSUME NEW i \in 1 .. Len(q) + 1, NEW j \in 1 .. Len(q) + 1, i < j
                 PROVE  Before(Append(q, f)[i].data, Append(q, f)[j].data)
      BY <2>1 DEF Later
    <3>1. i \in 1 .. Len(q)
      BY <1>0
    <3>2. q[i] \in Range(q) /\ Append(q, f)[i] = q[i]
      BY <1>0, <2>1, <3>1 DEF Range
    <3>3. CASE j \in 1 .. Len(q)
      BY <1>0, <2>1, <2>6, <3>1, <3>3 DEF Later
    <3>4. CASE j = Len(q) + 1
      BY <2>1, <2>6, <3>2, <3>4
    <3> QED
      BY <2>2, <3>3, <3>4
  <2> QED
    BY <2>5, <2>6
<1>2. ASSUME q # <<>>
      PROVE  /\ Head(q) \in Functors /\ Range(q) = {Head(q)} \cup Range(Tail(q))
             /\ Later(q) => Later(Tail(q)) /\ \A g \in Range(Tail(q)) : Before(Head(q).data, g.data)
  <2>1. /\ DOMAIN Tail(q) = 1 .. Len(q) - 1 /\ Len(q) >= 1 /\ Head(q) = q[1]
        /\ \A i \in 1 .. Len(q) - 1 : Tail(q)[i] = q[i + 1]
    BY <1>2
  <2>2. \A i \in 1 .. Len(q) - 1 : i + 1 \in 1 .. Len(q) /\ 1 < i + 1
    BY <1>0
  <2>3. \A i \in 1 .. Len(q) : i = 1 \/ (i - 1 \in 1 .. Len(q) - 1 /\ (i - 1) + 1 = i)
    BY <1>0
  <2>4. 1 \in 1 .. Len(q)
    BY <1>0, <2>1
  <2>5. \A x \in Range(Tail(q)) : \E k \in 1 .. Len(q) : 1 < k /\ x = q[k]
    BY <2>1, <2>2 DEF Range
  <2>6. Range(q) = {Head(q)} \cup Range(Tail(q))
    <3>1. Range(Tail(q)) \subseteq Range(q) /\ Head(q) \in Range(q)
      BY <1>0, <2>1, <2>4, <2>5 DEF Range
    <3>2. Range(q) \subseteq {Head(q)} \cup Range(Tail(q))
      <4> SUFFICES ASSUME NEW x \in Range(q) PROVE x = Head(q) \/ x \in Range(Tail(q))
        OBVIOUS
      <4>1. PICK i \in 1 .. Len(q) : x = q[i]
        BY <1>0 DEF Range
      <4>2. CASE i = 1
        BY <2>1, <4>1, <4>2
      <4>3. CASE i # 1
        <5>1. PICK k \in 1 .. Len(q) - 1 : k + 1 = i
          BY <2>3, <4>3
        <5> QED
          BY <2>1, <4>1, <5>1, Zenon DEF Range
      <4> QED
        BY <4>2, <4>3
    <3> QED
      BY <3>1, <3>2
  <2>7. ASSUME Later(q) PROVE Later(Tail(q))
    <3> SUFFICES ASSUME NEW i \in 1 .. Len(q) - 1, NEW j \in 1 .. Len(q) - 1, i < j
                 PROVE  Before(Tail(q)[i].data, Tail(q)[j].data)
      BY <2>1, Zenon DEF Later
    <3>1. PICK k \in 1 .. Len(q) : k = i + 1
      BY <2>2
    <3>2. PICK l \in 1 .. Len(q) : l = j + 1
      BY <2>2
    <3>3. k < l
      BY <3>1, <3>2
    <3> QED
      BY <1>0, <2>1, <2>7, <3>1, <3>2, <3>3 DEF Later
  <2>8. ASSUME Later(q), NEW g \in Range(Tail(q)) PROVE Before(Head(q).data, g.data)
    BY <1>0, <2>1, <2>4, <2>5, <2>8 DEF Later
  <2> QED
    BY <1>0, <2>1, <2>4, <2>6, <2>7, <2>8
<1>3. Range(q) \subseteq Functors
  BY <1>0 DEF Range
<1> QED
  BY <1>1, <1>2, <1>3

\* Sending d: n bytes of it are written, the others buffered.
LEMMA SendOrder ==
  ASSUME NEW w \in Seq(Bytes), NEW o \in Seq(Bytes), NEW b, NEW q, NEW d \in Seq(Bytes),
         NEW n \in 0 .. Len(d), n > 0 => o = <<>>, Ordered(w, o, b, q),
         Ascending(d), Before(w, d), Before(o, d),
         \A f \in Range(b) \cup Range(q) : Before(d, f.data)
  PROVE  LET u == SubSeq(d, 1, n)
             v == SubSeq(d, n + 1, Len(d))
         IN  /\ Ordered(w \o u, o \o v, b, q)
             /\ \A x : Held(w \o u, o \o v, b, q, x) <=> Held(w, o, b, q, x) \/ x \in Range(d)
<1> DEFINE u == SubSeq(d, 1, n)
           v == SubSeq(d, n + 1, Len(d))
<1>1. u \in Seq(Bytes) /\ v \in Seq(Bytes) /\ (n = 0 => u = <<>>)
  BY Pieces
<1>2. Ascending(u) /\ Ascending(v) /\ Before(u, v) /\ Range(u) \cup Range(v) = Range(d)
  BY Split
<1> HIDE DEF u, v
<1>3. Range(w \o u) = Range(w) \cup Range(u) /\ Range(o \o v) = Range(o) \cup Range(v)
  BY <1>1, Concat
<1>4. Ascending(w \o u) /\ Ascending(o \o v)
  <2>1. Before(w, u) /\ Before(o, v)
    BY <1>2 DEF Before
  <2> QED
    BY <1>1, <1>2, <2>1, Concat DEF Ordered
<1>5. Before(w \o u, o \o v)
  <2>1. Before(w, o) /\ Before(w, v)
    BY <1>2 DEF Before, Ordered
  <2>2. Before(u, o)
    <3>1. CASE n = 0
      <4>1. Range(u) = {}
        BY <1>1, <3>1 DEF Range
      <4> QED
        BY <4>1 DEF Before
    <3>2. CASE n > 0
      <4>1. Range(o) = {}
        BY <3>2 DEF Range
      <4> QED
        BY <4>1 DEF Before
    <3> QED
      BY <3>1, <3>2
  <2> QED
    BY <1>2, <1>3, <2>1, <2>2 DEF Before
<1>6. \A f \in Range(b) \cup Range(q) :
         Ascending(f.data) /\ Before(w \o u, f.data) /\ Before(o \o v, f.data)
  BY <1>2, <1>3 DEF Ordered, Before
<1>7. Ordered(w \o u, o \o v, b, q)
  BY <1>4, <1>5, <1>6 DEF Ordered
<1>8. \A x : Held(w \o u, o \o v, b, q, x) <=> Held(w, o, b, q, x) \/ x \in Range(d)
  BY <1>2, <1>3 DEF Held
<1> QED
  BY <1>7, <1>8 DEF u, v

\* HandleWrite moves the first n bytes of the buffer.
LEMMA DrainOrder ==
  ASSUME NEW w \in Seq(Bytes), NEW o \in Seq(Bytes), NEW b, NEW q, NEW n \in 0 .. Len(o),
         Ordered(w, o, b, q)
  PROVE  LET u == SubSeq(o, 1, n)
             v == SubSeq(o, n + 1, Len(o))
         IN  /\ Ordered(w \o u, v, b, q)
             /\ \A x : Held(w \o u, v, b, q, x) <=> Held(w, o, b, q, x)
<1> DEFINE u == SubSeq(o, 1, n)
           v == SubSeq(o, n + 1, Len(o))
<1>1. u \in Seq(Bytes) /\ v \in Seq(Bytes)
  BY Pieces
<1>2. Ascending(u) /\ Ascending(v) /\ Before(u, v) /\ Range(u) \cup Range(v) = Range(o)
  BY Split DEF Ordered
<1> HIDE DEF u, v
<1>3. Range(w \o u) = Range(w) \cup Range(u)
  BY <1>1, Concat
<1>4. Ascending(w \o u)
  <2>1. Before(w, u)
    BY <1>2 DEF Before, Ordered
  <2> QED
    BY <1>1, <1>2, <2>1, Concat DEF Ordered
<1>5. Before(w \o u, v)
  BY <1>2, <1>3 DEF Before, Ordered
<1>6. \A f \in Range(b) \cup Range(q) :
         Ascending(f.data) /\ Before(w \o u, f.data) /\ Before(v, f.data)
  BY <1>2, <1>3 DEF Ordered, Before
<1>7. Ordered(w \o u, v, b, q)
  BY <1>2, <1>4, <1>5, <1>6 DEF Ordered
<1>8. \A x : Held(w \o u, v, b, q, x) <=> Held(w, o, b, q, x)
  BY <1>2, <1>3 DEF Held
<1> QED
  BY <1>7, <1>8 DEF u, v

\* Queueing a functor whose bytes were sent after all others.
LEMMA PushOrder ==
  ASSUME NEW w, NEW o, NEW b, NEW q \in Seq(Functors), NEW f \in Functors,
         Ordered(w, o, b, q), Ascending(f.data), Before(w, f.data), Before(o, f.data),
         \A g \in Range(b) \cup Range(q) : Before(g.data, f.data)
  PROVE  /\ Ordered(w, o, b, Append(q, f))
         /\ \A x : Held(w, o, b, Append(q, f), x) <=> Held(w, o, b, q, x) \/ x \in Range(f.data)
<1>1. Range(Append(q, f)) = Range(q) \cup {f} /\ Later(Append(q, f))
  BY QueueRange DEF Ordered
<1>2. Ordered(w, o, b, Append(q, f))
  BY <1>1 DEF Ordered
<1>3. \A x : Held(w, o, b, Append(q, f), x) <=> Held(w, o, b, q, x) \/ x \in Range(f.data)
  BY <1>1 DEF Held
<1> QED
  BY <1>2, <1>3

\* Taking the next functor of the batch.
LEMMA PopOrder ==
  ASSUME NEW w, NEW o, NEW b \in Seq(Functors), NEW q, b # <<>>, Ordered(w, o, b, q)
  PROVE  LET d == Head(b).data
         IN  /\ Ordered(w, o, Tail(b), q)
             /\ Ascending(d) /\ Before(w, d) /\ Before(o, d)
             /\ \A f \in Range(Tail(b)) \cup Range(q) : Before(d, f.data)
             /\ \A x : Held(w, o, b, q, x) <=> Held(w, o, Tail(b), q, x) \/ x \in Range(d)
<1>1. /\ Range(b) = {Head(b)} \cup Range(Tail(b)) /\ Later(Tail(b))
      /\ \A g \in Range(Tail(b)) : Before(Head(b).data, g.data)
  BY QueueRange DEF Ordered
<1>2. Ordered(w, o, Tail(b), q)
  BY <1>1 DEF Ordered
<1>3. \A x : Held(w, o, b, q, x) <=> Held(w, o, Tail(b), q, x) \/ x \in Range(Head(b).data)
  BY <1>1 DEF Held
<1> QED
  BY <1>1, <1>2, <1>3 DEF Ordered

\* Taking all functors at once.
LEMMA SwapOrder ==
  ASSUME NEW w, NEW o, NEW q, Ordered(w, o, <<>>, q)
  PROVE  /\ Ordered(w, o, q, <<>>)
         /\ \A x : Held(w, o, q, <<>>, x) <=> Held(w, o, <<>>, q, x)
<1>1. Range(<<>>) = {} /\ Later(<<>>)
  BY DEF Range, Later
<1>2. Ordered(w, o, q, <<>>)
  BY <1>1 DEF Ordered
<1>3. \A x : Held(w, o, q, <<>>, x) <=> Held(w, o, <<>>, q, x)
  BY <1>1 DEF Held
<1> QED
  BY <1>2, <1>3

\* No data: nothing to order.
LEMMA NoData ==
  /\ Range(<<>>) = {} /\ Ascending(<<>>)
  /\ \A p : Before(p, <<>>) /\ Before(<<>>, p)
BY DEF Range, Ascending, Before

\* No data is queued.
Plain == queue' = queue \/ \E f \in Functors : queue' = Append(queue, f) /\ f.data = <<>>

\* DoSendInLoop and HandleWrite queue no data.
LEMMA PlainSteps ==
  ASSUME TypeOK
  PROVE  /\ \A d \in Seq(Bytes) : SendInLoop(d) => Plain
         /\ EventOut => Plain
<1>0. DataTypes
  BY Parts
<1>1. ASSUME NEW op \in {"writeComplete", "highWaterMark"}, queue' = Append(queue, Functor(op))
      PROVE  Plain
  <2>1. Functor(op) \in Functors /\ Functor(op).data = <<>>
    BY FunctorTypes DEF Ops
  <2> HIDE DEF Functor
  <2> QED
    BY <1>1, <2>1 DEF Plain
<1>2. ASSUME NEW d \in Seq(Bytes), SendInLoop(d) PROVE Plain
  <2>1. GivesUp \/ \E n \in 0 .. Len(d) : Written(d, n)
    BY <1>0, <1>2, SendEffect
  <2>2. \/ queue' = queue \/ queue' = Append(queue, Functor("writeComplete"))
        \/ queue' = Append(queue, Functor("highWaterMark"))
    BY <2>1 DEF GivesUp, Written
  <2> QED
    BY <1>1, <2>2 DEF Plain
<1>3. ASSUME EventOut PROVE Plain
  <2>1. queue' = queue \/ queue' = Append(queue, Functor("writeComplete"))
    BY <1>0, <1>3, WriteEffect DEF Drains
  <2> QED
    BY <1>1, <2>1 DEF Plain
<1> QED
  BY <1>2, <1>3

\* Queueing functors without data changes no order.
LEMMA PlainOrder ==
  ASSUME QueueTypes, NEW w, NEW o, NEW b, Ordered(w, o, b, queue), Plain
  PROVE  /\ Ordered(w, o, b, queue')
         /\ \A x : Held(w, o, b, queue', x) <=> Held(w, o, b, queue, x)
<1>1. ASSUME NEW f \in Functors, queue' = Append(queue, f), f.data = <<>>
      PROVE  /\ Ordered(w, o, b, queue')
             /\ \A x : Held(w, o, b, queue', x) <=> Held(w, o, b, queue, x)
  <2>1. /\ Ascending(f.data) /\ Range(f.data) = {}
        /\ Before(w, f.data) /\ Before(o, f.data)
        /\ \A g \in Range(b) \cup Range(queue) : Before(g.data, f.data)
    BY <1>1, NoData
  <2>2. queue \in Seq(Functors)
    BY DEF QueueTypes
  <2>3. /\ Ordered(w, o, b, Append(queue, f))
        /\ \A x : Held(w, o, b, Append(queue, f), x) <=> Held(w, o, b, queue, x) \/ x \in Range(f.data)
    BY <2>1, <2>2, PushOrder
  <2> QED
    BY <1>1, <2>1, <2>3
<1> QED
  BY <1>1 DEF Plain

\* What a new message is: the sender's next bytes.
LEMMA MessageOrder ==
  ASSUME TypeOK, StreamInv, NEW s \in Senders, NEW len \in 1 .. MaxMessage
  PROVE  LET m == Message(s, len)
         IN  /\ m \in Seq(Bytes) /\ Ascending(m) /\ Before(wire, m) /\ Before(outputBuffer_, m)
             /\ \A f \in Range(batch) \cup Range(queue) : Before(f.data, m)
             /\ \A x \in Bytes : x \in Range(m) <=>
                   x[1] = s /\ sent[s] < x[2] /\ x[2] <= sent[s] + len
<1> DEFINE m == Message(s, len)
<1>0. DataTypes /\ QueueTypes
  BY Parts
<1>1. m \in Seq(Bytes) /\ Len(m) = len /\ \A i \in 1 .. len : m[i] = <<s, sent[s] + i>>
  BY <1>0, Messages
<1>2. sent[s] \in Nat /\ len \in Nat /\ DOMAIN m = 1 .. len
  BY <1>0, <1>1, TcpConnectionAssumption DEF DataTypes
<1> HIDE DEF m
<1>3. Ascending(m)
  BY <1>1, <1>2 DEF Ascending
<1>4. \A x \in Bytes : x \in Range(m) <=> x[1] = s /\ sent[s] < x[2] /\ x[2] <= sent[s] + len
  <2> SUFFICES ASSUME NEW x \in Bytes
               PROVE  x \in Range(m) <=> x[1] = s /\ sent[s] < x[2] /\ x[2] <= sent[s] + len
    OBVIOUS
  <2>1. x = <<x[1], x[2]>> /\ x[2] \in Nat
    BY DEF Bytes
  <2>2. ASSUME x \in Range(m) PROVE x[1] = s /\ sent[s] < x[2] /\ x[2] <= sent[s] + len
    <3>1. PICK i \in 1 .. len : x = <<s, sent[s] + i>>
      BY <1>1, <1>2, <2>2, Zenon DEF Range
    <3> QED
      BY <1>2, <3>1
  <2>3. ASSUME x[1] = s, sent[s] < x[2], x[2] <= sent[s] + len PROVE x \in Range(m)
    <3>1. PICK i \in 1 .. len : x[2] = sent[s] + i
      <4>1. x[2] - sent[s] \in 1 .. len /\ x[2] = sent[s] + (x[2] - sent[s])
        BY <1>2, <2>1, <2>3
      <4> QED
        BY <4>1
    <3>2. x = m[i]
      BY <1>1, <2>1, <2>3, <3>1
    <3> QED
      BY <1>2, <3>2 DEF Range
  <2> QED
    BY <2>2, <2>3
<1>5. ASSUME NEW p \in Seq(Bytes),
             \A x \in Range(p) : Held(wire, outputBuffer_, batch, queue, x)
      PROVE  Before(p, m)
  <2> SUFFICES ASSUME NEW x \in Range(p), NEW y \in Range(m), x[1] = y[1] PROVE x[2] < y[2]
    BY DEF Before
  <2>1. x \in Bytes /\ y \in Bytes /\ x[2] \in Nat /\ y[2] \in Nat
    BY <1>1, <1>5, ByteNumbers
  <2>2. x[2] <= sent[x[1]]
    BY <1>5, <2>1 DEF StreamInv
  <2>3. y[1] = s /\ sent[s] < y[2]
    BY <1>4, <2>1
  <2> QED
    BY <1>2, <2>1, <2>2, <2>3
<1>6. Before(wire, m) /\ Before(outputBuffer_, m)
  BY <1>0, <1>5 DEF DataTypes, Held
<1>7. ASSUME NEW f \in Range(batch) \cup Range(queue) PROVE Before(f.data, m)
  <2>1. f \in Functors
    BY <1>0, QueueRange DEF QueueTypes
  <2>2. f.data \in Seq(Bytes)
    BY <2>1 DEF Functors
  <2> QED
    BY <1>5, <2>2 DEF Held
<1> QED
  BY <1>1, <1>3, <1>4, <1>6, <1>7 DEF m

\* What Send takes is counted.
LEMMA Accepted ==
  ASSUME DataTypes, NEW s \in Senders, NEW len \in 1 .. MaxMessage, Accept(s, len)
  PROVE  /\ sent'[s] = sent[s] + len /\ sent[s] \in Nat /\ len \in Nat
         /\ \A r \in Senders \ {s} : sent'[r] = sent[r]
<1>1. sent' = [sent EXCEPT ![s] = @ + len] /\ len \in Nat
  BY TcpConnectionAssumption DEF Accept
<1> QED
  BY <1>1 DEF DataTypes

\* What the functors carry.
LEMMA FunctorsCarry ==
  ASSUME TypeOK, StreamInv, [Next]_vars
  PROVE  \A f \in Range(batch') \cup Range(queue') :
            /\ f.op # "sendInLoop" => f.data = <<>>
            /\ \A x \in Range(f.data) : x[1] \in Threads
<1> DEFINE Carry(f) == /\ f.op # "sendInLoop" => f.data = <<>>
                       /\ \A x \in Range(f.data) : x[1] \in Threads
<1>0. QueueTypes /\ DataTypes /\ queue \in Seq(Functors) /\ batch \in Seq(Functors)
  BY Parts DEF QueueTypes
<1>1. \A f \in Range(batch) \cup Range(queue) : Carry(f)
  BY Zenon DEF StreamInv
<1>2. ASSUME Grows PROVE \A f \in Range(queue') : Carry(f)
  <2>1. PICK f \in Functors :
           /\ queue' = Append(queue, f)
           /\ \/ f.data = <<>>
              \/ /\ f.op = "sendInLoop"
                 /\ \E len \in 1 .. MaxMessage : \E t \in Threads : f.data = Message(t, len)
    BY <1>2 DEF Grows
  <2>2. Carry(f)
    <3>1. CASE f.data = <<>>
      BY <3>1, NoData
    <3>2. ASSUME f.op = "sendInLoop", NEW len \in 1 .. MaxMessage, NEW t \in Threads,
                 f.data = Message(t, len)
          PROVE  Carry(f)
      <4>1. /\ Message(t, len) \in Seq(Bytes)
            /\ \A x \in Bytes : x \in Range(Message(t, len)) => x[1] = t
        BY MessageOrder DEF Senders
      <4>2. \A x \in Range(Message(t, len)) : x[1] = t
        BY <4>1, ByteNumbers
      <4> QED
        BY <3>2, <4>2
    <3> QED
      BY <2>1, <3>1, <3>2
  <2>3. Range(queue') = Range(queue) \cup {f}
    BY <1>0, <2>1, QueueRange
  <2> HIDE DEF Carry
  <2> QED
    BY <1>1, <2>2, <2>3
<1> HIDE DEF Carry
<1>3. CASE SwapPending
  <2>1. batch' = queue /\ queue' = <<>>
    BY <1>3 DEF SwapPending
  <2>2. \A f \in Range(batch') \cup Range(queue') : Carry(f)
    BY <1>1, <2>1, NoData
  <2> QED
    BY <2>2 DEF Carry
<1>4. CASE Shrinks /\ (queue' = queue \/ Grows)
  <2>1. \A f \in Range(queue') : Carry(f)
    BY <1>1, <1>2, <1>4
  <2>2. \A f \in Range(batch') : Carry(f)
    <3>1. batch # <<>> => Range(Tail(batch)) \subseteq Range(batch)
      BY <1>0, QueueRange
    <3> QED
      BY <1>1, <1>4, <3>1, Zenon DEF Shrinks
  <2>3. \A f \in Range(batch') \cup Range(queue') : Carry(f)
    BY <2>1, <2>2
  <2> QED
    BY <2>3 DEF Carry
<1> QED
  BY <1>3, <1>4, QueueSteps

\* The bytes held against the bytes sent.
Accounted(w, o, b, q, counts, lost) ==
    /\ \A x \in Bytes : Held(w, o, b, q, x) => x[2] <= counts[x[1]]
    /\ ~lost => \A x \in Bytes : x[2] <= counts[x[1]] => Held(w, o, b, q, x)

\* DoSendInLoop puts its data after what was written and buffered before, and before what the
\* functors of b and of the queue carry; or it gives the data up.
LEMMA SendStream ==
  ASSUME TypeOK, NEW b, NEW d \in Seq(Bytes), SendInLoop(d),
         Ordered(wire, outputBuffer_, b, queue),
         Ascending(d), Before(wire, d), Before(outputBuffer_, d),
         \A f \in Range(b) \cup Range(queue) : Before(d, f.data)
  PROVE  /\ Ordered(wire', outputBuffer_', b, queue')
         /\ \A x : Held(wire', outputBuffer_', b, queue', x)
                      => Held(wire, outputBuffer_, b, queue, x) \/ x \in Range(d)
         /\ ~gaveUp' =>
               /\ ~gaveUp
               /\ \A x : Held(wire, outputBuffer_, b, queue, x) \/ x \in Range(d)
                            => Held(wire', outputBuffer_', b, queue', x)
<1>0. DataTypes /\ QueueTypes /\ wire \in Seq(Bytes) /\ outputBuffer_ \in Seq(Bytes)
  BY Parts DEF DataTypes
<1>1. Plain
  BY PlainSteps
<1>2. CASE GivesUp
  <2>1. gaveUp' /\ wire' = wire /\ outputBuffer_' = outputBuffer_ /\ queue' = queue
    BY <1>2 DEF GivesUp
  <2> QED
    BY <2>1
<1>3. ASSUME NEW n \in 0 .. Len(d), Written(d, n)
      PROVE  /\ gaveUp' = gaveUp
             /\ Ordered(wire', outputBuffer_', b, queue')
             /\ \A x : Held(wire', outputBuffer_', b, queue', x)
                          <=> Held(wire, outputBuffer_, b, queue, x) \/ x \in Range(d)
  <2>1. /\ gaveUp' = gaveUp /\ wire' = wire \o SubSeq(d, 1, n)
        /\ outputBuffer_' = outputBuffer_ \o SubSeq(d, n + 1, Len(d))
        /\ n > 0 => outputBuffer_ = <<>>
    BY <1>3, Zenon DEF Written, MayWrite
  <2>2. /\ Ordered(wire', outputBuffer_', b, queue)
        /\ \A x : Held(wire', outputBuffer_', b, queue, x)
                     <=> Held(wire, outputBuffer_, b, queue, x) \/ x \in Range(d)
    BY <1>0, <2>1, SendOrder, Zenon
  <2>3. /\ Ordered(wire', outputBuffer_', b, queue')
        /\ \A x : Held(wire', outputBuffer_', b, queue', x)
                     <=> Held(wire', outputBuffer_', b, queue, x)
    BY <1>0, <1>1, <2>2, PlainOrder
  <2> QED
    BY <2>1, <2>2, <2>3, Zenon
<1> QED
  BY <1>0, <1>2, <1>3, SendEffect, Zenon

\* A message that is put into one of the places, or given up.
LEMMA MessageAccounted ==
  ASSUME TypeOK, StreamInv, NEW s \in Senders, NEW len \in 1 .. MaxMessage, Accept(s, len),
         NEW w, NEW o, NEW b, NEW q,
         \A x : Held(w, o, b, q, x) => \/ Held(wire, outputBuffer_, batch, queue, x)
                                       \/ x \in Range(Message(s, len)),
         ~gaveUp' =>
            /\ ~gaveUp
            /\ \A x : Held(wire, outputBuffer_, batch, queue, x) \/ x \in Range(Message(s, len))
                         => Held(w, o, b, q, x)
  PROVE  Accounted(w, o, b, q, sent', gaveUp')
<1>1. /\ sent'[s] = sent[s] + len /\ sent[s] \in Nat /\ len \in Nat
      /\ \A r \in Senders \ {s} : sent'[r] = sent[r]
  BY Accepted, Parts, Zenon
<1>2. \A x \in Bytes : x \in Range(Message(s, len)) <=>
         x[1] = s /\ sent[s] < x[2] /\ x[2] <= sent[s] + len
  BY MessageOrder
<1>3. \A x \in Bytes : x[1] \in Senders /\ x[2] \in Nat
  BY DEF Bytes
<1>4. \A x \in Bytes : x[2] <= sent'[x[1]] <=> x[2] <= sent[x[1]] \/ x \in Range(Message(s, len))
  <2> SUFFICES ASSUME NEW x \in Bytes
               PROVE  x[2] <= sent'[x[1]] <=> x[2] <= sent[x[1]] \/ x \in Range(Message(s, len))
    OBVIOUS
  <2>1. CASE x[1] = s
    BY <1>1, <1>2, <1>3, <2>1
  <2>2. CASE x[1] # s
    BY <1>1, <1>2, <1>3, <2>2
  <2> QED
    BY <2>1, <2>2
<1> QED
  BY <1>4, Zenon DEF StreamInv, Accounted

\* Send in the io loop's thread: the functors carry none of this sender's bytes.
LEMMA SendHereStream ==
  ASSUME TypeOK, StreamInv, NEW len \in 1 .. MaxMessage, SendHere(len)
  PROVE  /\ Ordered(wire', outputBuffer_', batch', queue')
         /\ Accounted(wire', outputBuffer_', batch', queue', sent', gaveUp')
<1>0. "loop" \in Senders /\ "loop" \notin Threads
  BY TcpConnectionAssumption DEF Senders
<1>1. PICK d \in Seq(Bytes) :
         /\ d = Message("loop", len)
         /\ Ascending(d) /\ Before(wire, d) /\ Before(outputBuffer_, d)
         /\ \A x \in Bytes : x \in Range(d) => x[1] = "loop"
  BY <1>0, MessageOrder, Zenon
<1>2. SendInLoop(d) /\ Accept("loop", len) /\ batch' = batch
  BY <1>1 DEF SendHere, batchVars
<1>3. \A f \in Range(batch) \cup Range(queue) : Before(d, f.data)
  BY <1>0, <1>1, ByteNumbers, Zenon DEF StreamInv, Before
<1>4. /\ Ordered(wire', outputBuffer_', batch, queue')
      /\ \A x : Held(wire', outputBuffer_', batch, queue', x)
                   => Held(wire, outputBuffer_, batch, queue, x) \/ x \in Range(d)
      /\ ~gaveUp' =>
            /\ ~gaveUp
            /\ \A x : Held(wire, outputBuffer_, batch, queue, x) \/ x \in Range(d)
                         => Held(wire', outputBuffer_', batch, queue', x)
  BY <1>1, <1>2, <1>3, SendStream, Zenon DEF StreamInv
<1>5. Accounted(wire', outputBuffer_', batch, queue', sent', gaveUp')
  BY <1>0, <1>1, <1>2, <1>4, MessageAccounted, Zenon
<1> QED
  BY <1>2, <1>4, <1>5

\* SendInLoop in a functor: its data has been sent before what the functors after it carry.
LEMMA RunSendStream ==
  ASSUME TypeOK, StreamInv, RunSend
  PROVE  /\ Ordered(wire', outputBuffer_', batch', queue')
         /\ Accounted(wire', outputBuffer_', batch', queue', sent', gaveUp')
<1>0. QueueTypes /\ batch \in Seq(Functors)
  BY Parts DEF QueueTypes
<1>1. batch # <<>> /\ batch' = Tail(batch) /\ sent' = sent
  BY DEF RunSend, RunFunctor
<1>2. PICK d \in Seq(Bytes) : d = Head(batch).data
  BY <1>1, SentData
<1>3. SendInLoop(d)
  BY <1>2 DEF RunSend
<1>4. /\ Ordered(wire, outputBuffer_, batch', queue)
      /\ Ascending(d) /\ Before(wire, d) /\ Before(outputBuffer_, d)
      /\ \A f \in Range(batch') \cup Range(queue) : Before(d, f.data)
      /\ \A x : Held(wire, outputBuffer_, batch, queue, x)
                   <=> Held(wire, outputBuffer_, batch', queue, x) \/ x \in Range(d)
  BY <1>0, <1>1, <1>2, PopOrder, Zenon DEF StreamInv
<1>5. /\ Ordered(wire', outputBuffer_', batch', queue')
      /\ \A x : Held(wire', outputBuffer_', batch', queue', x)
                   => Held(wire, outputBuffer_, batch', queue, x) \/ x \in Range(d)
      /\ ~gaveUp' =>
            /\ ~gaveUp
            /\ \A x : Held(wire, outputBuffer_, batch', queue, x) \/ x \in Range(d)
                         => Held(wire', outputBuffer_', batch', queue', x)
  BY <1>3, <1>4, SendStream
<1>6. Accounted(wire', outputBuffer_', batch', queue', sent', gaveUp')
  BY <1>1, <1>4, <1>5, Zenon DEF StreamInv, Accounted
<1> QED
  BY <1>5, <1>6

\* Send in another thread queues its data behind all that was sent before.
LEMMA QueueSendStream ==
  ASSUME TypeOK, StreamInv, NEW len \in 1 .. MaxMessage, NEW t \in Threads, QueueSend(t, len)
  PROVE  /\ Ordered(wire', outputBuffer_', batch', queue')
         /\ Accounted(wire', outputBuffer_', batch', queue', sent', gaveUp')
<1>0. t \in Senders /\ queue \in Seq(Functors)
  BY Parts DEF Senders, QueueTypes
<1>1. PICK d \in Seq(Bytes) :
         /\ d = Message(t, len)
         /\ Ascending(d) /\ Before(wire, d) /\ Before(outputBuffer_, d)
         /\ \A f \in Range(batch) \cup Range(queue) : Before(f.data, d)
  BY <1>0, MessageOrder
<1>2. PICK f \in Functors : f.data = d /\ queue' = Append(queue, f)
  <2>1. [op |-> "sendInLoop", data |-> d] \in Functors
    BY Zenon DEF Functors, Ops
  <2> QED
    BY <1>1, <2>1 DEF QueueSend
<1>3. Accept(t, len) /\ UNCHANGED <<outputBuffer_, wire, gaveUp, batch>>
  BY DEF QueueSend, batchVars
<1>4. /\ Ordered(wire, outputBuffer_, batch, queue')
      /\ \A x : Held(wire, outputBuffer_, batch, queue', x)
                   <=> Held(wire, outputBuffer_, batch, queue, x) \/ x \in Range(d)
  BY <1>0, <1>1, <1>2, PushOrder, Zenon DEF StreamInv
<1>5. Accounted(wire, outputBuffer_, batch, queue', sent', gaveUp')
  BY <1>0, <1>1, <1>3, <1>4, MessageAccounted, Zenon
<1> QED
  BY <1>3, <1>4, <1>5

\* HandleWrite moves bytes from the buffer to the socket.
LEMMA EventOutStream ==
  ASSUME TypeOK, StreamInv, EventOut
  PROVE  /\ Ordered(wire', outputBuffer_', batch', queue')
         /\ Accounted(wire', outputBuffer_', batch', queue', sent', gaveUp')
<1>0. DataTypes /\ QueueTypes /\ wire \in Seq(Bytes) /\ outputBuffer_ \in Seq(Bytes)
  BY Parts DEF DataTypes
<1>1. batch' = batch /\ Plain
  BY PlainSteps, Zenon DEF EventOut, batchVars
<1>2. /\ Ordered(wire', outputBuffer_', batch, queue) /\ UNCHANGED <<sent, gaveUp>>
      /\ \A x : Held(wire', outputBuffer_', batch, queue, x)
                   <=> Held(wire, outputBuffer_, batch, queue, x)
  <2>1. CASE UNCHANGED <<outputBuffer_, wire, sent, gaveUp>>
    BY <2>1, Zenon DEF StreamInv
  <2>2. ASSUME NEW n \in 1 .. Len(outputBuffer_), Drains(n)
        PROVE  /\ Ordered(wire', outputBuffer_', batch, queue) /\ UNCHANGED <<sent, gaveUp>>
               /\ \A x : Held(wire', outputBuffer_', batch, queue, x)
                            <=> Held(wire, outputBuffer_, batch, queue, x)
    <3>1. /\ wire' = wire \o SubSeq(outputBuffer_, 1, n) /\ UNCHANGED <<sent, gaveUp>>
          /\ outputBuffer_' = SubSeq(outputBuffer_, n + 1, Len(outputBuffer_))
      BY <2>2, Zenon DEF Drains
    <3>2. n \in 0 .. Len(outputBuffer_)
      OBVIOUS
    <3> QED
      BY <1>0, <3>1, <3>2, DrainOrder, Zenon DEF StreamInv
  <2> QED
    BY <1>0, <2>1, <2>2, WriteEffect
<1>3. /\ Ordered(wire', outputBuffer_', batch, queue')
      /\ \A x : Held(wire', outputBuffer_', batch, queue', x)
                   <=> Held(wire', outputBuffer_', batch, queue, x)
  BY <1>0, <1>1, <1>2, PlainOrder
<1>4. Accounted(wire', outputBuffer_', batch, queue', sent', gaveUp')
  BY <1>2, <1>3, Zenon DEF StreamInv, Accounted
<1> QED
  BY <1>1, <1>3, <1>4

\* The other steps move functors, and lose none that carries data.
LEMMA OtherStream ==
  ASSUME TypeOK, StreamInv, [Next]_vars, ~RunSend, UNCHANGED dataVars,
         ~\E len \in 1 .. MaxMessage : \E t \in Threads : QueueSend(t, len)
  PROVE  /\ Ordered(wire', outputBuffer_', batch', queue')
         /\ Accounted(wire', outputBuffer_', batch', queue', sent', gaveUp')
<1>0. QueueTypes /\ batch \in Seq(Functors)
  BY Parts DEF QueueTypes
<1>1. UNCHANGED <<outputBuffer_, wire, sent, gaveUp>>
  BY DEF dataVars
<1>2. /\ Ordered(wire, outputBuffer_, batch', queue')
      /\ \A x : Held(wire, outputBuffer_, batch', queue', x)
                   <=> Held(wire, outputBuffer_, batch, queue, x)
  <2>1. CASE SwapPending
    <3>1. batch = <<>> /\ batch' = queue /\ queue' = <<>>
      BY <2>1 DEF SwapPending, Idle
    <3> QED
      BY <3>1, SwapOrder, Zenon DEF StreamInv
  <2>2. CASE Shrinks /\ (queue' = queue \/ Grows)
    <3>1. Plain
      BY <2>2, Zenon DEF Grows, Plain
    <3>2. /\ Ordered(wire, outputBuffer_, batch', queue)
          /\ \A x : Held(wire, outputBuffer_, batch', queue, x)
                       <=> Held(wire, outputBuffer_, batch, queue, x)
      <4>1. CASE batch' = batch
        BY <4>1, Zenon DEF StreamInv
      <4>2. CASE batch # <<>> /\ batch' = Tail(batch) /\ Head(batch).op # "sendInLoop"
        <5>1. Head(batch) \in Range(batch)
          BY <1>0, <4>2, QueueRange, Zenon
        <5>2. Range(Head(batch).data) = {}
          BY <4>2, <5>1, NoData, Zenon DEF StreamInv
        <5> QED
          BY <1>0, <4>2, <5>2, PopOrder, Zenon DEF StreamInv
      <4> QED
        BY <2>2, <4>1, <4>2 DEF Shrinks
    <3> QED
      BY <1>0, <3>1, <3>2, PlainOrder
  <2> QED
    BY <2>1, <2>2, QueueSteps
<1>3. Accounted(wire, outputBuffer_, batch', queue', sent, gaveUp)
  BY <1>2, Zenon DEF StreamInv, Accounted
<1> QED
  BY <1>1, <1>2, <1>3

\* The inductive invariant holds.
LEMMA StreamInvHolds == Spec => []StreamInv
<1>1. Init => StreamInv
  <2> SUFFICES ASSUME Init PROVE StreamInv
    OBVIOUS
  <2>1. /\ wire = <<>> /\ outputBuffer_ = <<>> /\ batch = <<>>
        /\ queue = <<Functor("connectEstablished")>>
        /\ \A s \in Senders : sent[s] = 0
    BY DEF Init
  <2>2. Functor("connectEstablished").data = <<>> /\ Range(queue) = {Functor("connectEstablished")}
    <3>1. PICK f : f = Functor("connectEstablished")
      BY Zenon
    <3>2. f.data = <<>>
      BY <3>1 DEF Functor
    <3>3. DOMAIN <<f>> = 1 .. 1 /\ <<f>>[1] = f
      OBVIOUS
    <3>4. Range(<<f>>) = {f}
      BY <3>3 DEF Range
    <3> QED
      BY <2>1, <3>1, <3>2, <3>4, Zenon
  <2>3. Later(queue) /\ Later(batch)
    BY <2>1 DEF Later
  <2> HIDE DEF Functor
  <2>4. Ordered(wire, outputBuffer_, batch, queue)
    BY <2>1, <2>2, <2>3, NoData, Zenon DEF Ordered
  <2>5. \A x : ~Held(wire, outputBuffer_, batch, queue, x)
    BY <2>1, <2>2, NoData DEF Held
  <2>6. \A x \in Bytes : ~(x[2] <= sent[x[1]])
    BY <2>1 DEF Bytes
  <2> QED
    BY <2>1, <2>2, <2>4, <2>5, <2>6, NoData, Zenon DEF StreamInv
<1>2. TypeOK /\ StreamInv /\ [Next]_vars => StreamInv'
  <2> SUFFICES ASSUME TypeOK, StreamInv, [Next]_vars PROVE StreamInv'
    OBVIOUS
  <2>1. /\ Ordered(wire', outputBuffer_', batch', queue')
        /\ Accounted(wire', outputBuffer_', batch', queue', sent', gaveUp')
    BY DataSteps, SendHereStream, RunSendStream, QueueSendStream, EventOutStream, OtherStream
  <2>2. \A f \in Range(batch') \cup Range(queue') :
           /\ f.op # "sendInLoop" => f.data = <<>>
           /\ \A x \in Range(f.data) : x[1] \in Threads
    BY FunctorsCarry
  <2> QED
    BY <2>1, <2>2, Zenon DEF StreamInv, Accounted
<1> QED
  BY <1>1, <1>2, TypesHold, PTL DEF Spec

\* The parts of StreamIntact are the bytes written, those buffered, and the functors' data.
LEMMA StreamOrder ==
  ASSUME TypeOK, StreamInv
  PROVE  StreamIntact
<1>0. /\ batch \in Seq(Functors) /\ queue \in Seq(Functors)
      /\ wire \in Seq(Bytes) /\ outputBuffer_ \in Seq(Bytes)
      /\ \A s \in Senders : sent[s] \in Nat
  BY Parts DEF QueueTypes, DataTypes
<1>1. PICK fs : fs = batch \o queue
  BY Zenon
<1>2. fs \in Seq(Functors) /\ Joined(fs, batch, queue)
  BY <1>0, <1>1, SequencesJoined, Zenon
<1>d. PICK ds : ds = [i \in DOMAIN fs |-> fs[i].data]
  BY Zenon
<1>e. /\ ds \in Seq(Seq(Bytes)) /\ DOMAIN ds = DOMAIN fs
      /\ \A i \in DOMAIN fs : ds[i] = fs[i].data
  <2>1. PICK n \in Nat : n = Len(fs) /\ DOMAIN fs = 1 .. n /\ \A i \in 1 .. n : fs[i] \in Functors
    BY <1>2
  <2>2. \A i \in 1 .. n : fs[i].data \in Seq(Bytes)
    BY <2>1 DEF Functors
  <2>3. [i \in 1 .. n |-> fs[i].data] \in Seq(Seq(Bytes))
    BY <2>2
  <2>4. ds = [i \in 1 .. n |-> fs[i].data] /\ DOMAIN ds = DOMAIN fs
    BY <1>d, <2>1, Zenon
  <2>5. \A i \in DOMAIN fs : ds[i] = fs[i].data
    BY <1>d, Zenon
  <2> QED
    BY <2>3, <2>4, <2>5, Zenon
<1>t. PICK two \in Seq(Seq(Bytes)) : /\ two = <<wire, outputBuffer_>> /\ DOMAIN two = 1 .. 2
                                     /\ two[1] = wire /\ two[2] = outputBuffer_
  <2>1. <<wire, outputBuffer_>> \in Seq(Seq(Bytes)) /\ DOMAIN <<wire, outputBuffer_>> = 1 .. 2
    BY <1>0
  <2> QED
    BY <2>1, Zenon
<1>p. PICK parts : parts = two \o ds
  BY Zenon
<1>3. parts \in Seq(Seq(Bytes)) /\ Joined(parts, two, ds)
  BY <1>e, <1>p, SequencesJoined, Zenon
<1>4. /\ Range(two) = {wire, outputBuffer_}
      /\ \A x, y : InTurn(two, x, y) => x = wire /\ y = outputBuffer_
  BY <1>t DEF Range, InTurn
<1>o. /\ Ascending(wire) /\ Ascending(outputBuffer_) /\ Before(wire, outputBuffer_)
      /\ \A f \in Range(batch) \cup Range(queue) :
            Ascending(f.data) /\ Before(wire, f.data) /\ Before(outputBuffer_, f.data)
      /\ Later(batch) /\ Later(queue)
      /\ \A f \in Range(batch), g \in Range(queue) : Before(f.data, g.data)
  BY Zenon DEF StreamInv, Ordered
<1>f. Range(fs) = Range(batch) \cup Range(queue) /\ Range(parts) = Range(two) \cup Range(ds)
  BY <1>2, <1>3, Zenon DEF Joined
<1>r. \A x : x \in Range(ds) <=> \E f \in Range(batch) \cup Range(queue) : x = f.data
  <2>1. \A x : x \in Range(ds) <=> \E f \in Range(fs) : x = f.data
    BY <1>e, Zenon DEF Range
  <2> QED
    BY <1>f, <2>1, Zenon
<1>5. \A x, y : InTurn(ds, x, y) => Before(x, y)
  <2>1. \A f, g : InTurn(batch, f, g) => Before(f.data, g.data)
    BY <1>o, Zenon DEF Later, InTurn
  <2>2. \A f, g : InTurn(queue, f, g) => Before(f.data, g.data)
    BY <1>o, Zenon DEF Later, InTurn
  <2>3. \A i, j \in DOMAIN fs : i < j => Before(fs[i].data, fs[j].data)
    <3> SUFFICES ASSUME NEW i \in DOMAIN fs, NEW j \in DOMAIN fs, i < j
                 PROVE  Before(fs[i].data, fs[j].data)
      BY Zenon
    <3>1. \/ InTurn(batch, fs[i], fs[j]) \/ InTurn(queue, fs[i], fs[j])
          \/ fs[i] \in Range(batch) /\ fs[j] \in Range(queue)
      BY <1>2, Zenon DEF Joined
    <3> QED
      BY <1>o, <2>1, <2>2, <3>1, Zenon
  <2> SUFFICES ASSUME NEW x, NEW y, InTurn(ds, x, y) PROVE Before(x, y)
    BY Zenon
  <2>4. PICK k \in DOMAIN ds, l \in DOMAIN ds : k < l /\ ds[k] = x /\ ds[l] = y
    BY Zenon DEF InTurn
  <2>5. x = fs[k].data /\ y = fs[l].data /\ k \in DOMAIN fs /\ l \in DOMAIN fs
    BY <1>e, <2>4, Zenon
  <2> QED
    BY <2>3, <2>4, <2>5, Zenon
<1>6. \A x \in Range(parts) : Ascending(x)
  <2>1. \A x \in Range(two) : Ascending(x)
    BY <1>4, <1>o, Zenon
  <2>2. \A x \in Range(ds) : Ascending(x)
    BY <1>o, <1>r, Zenon
  <2> QED
    BY <1>f, <2>1, <2>2, Zenon
<1>7. \A i, j \in DOMAIN parts : i < j => Before(parts[i], parts[j])
  <2> SUFFICES ASSUME NEW i \in DOMAIN parts, NEW j \in DOMAIN parts, i < j
               PROVE  Before(parts[i], parts[j])
    BY Zenon
  <2>1. \/ InTurn(two, parts[i], parts[j]) \/ InTurn(ds, parts[i], parts[j])
        \/ parts[i] \in Range(two) /\ parts[j] \in Range(ds)
    BY <1>3, Zenon DEF Joined
  <2>2. CASE InTurn(two, parts[i], parts[j])
    BY <1>4, <1>o, <2>2, Zenon
  <2>3. CASE parts[i] \in Range(two) /\ parts[j] \in Range(ds)
    BY <1>4, <1>o, <1>r, <2>3, Zenon
  <2> QED
    BY <1>5, <2>1, <2>2, <2>3, Zenon
<1>8. \A x : Held(wire, outputBuffer_, batch, queue, x) <=> \E p \in Range(parts) : x \in Range(p)
  <2> SUFFICES ASSUME NEW x
               PROVE  Held(wire, outputBuffer_, batch, queue, x)
                         <=> \E p \in Range(parts) : x \in Range(p)
    BY Zenon
  <2>1. \A p : p \in Range(parts) <=>
           p = wire \/ p = outputBuffer_ \/ \E f \in Range(batch) \cup Range(queue) : p = f.data
    BY <1>4, <1>f, <1>r, Zenon
  <2> QED
    BY <2>1, Zenon DEF Held
<1>9. \A i \in DOMAIN parts : parts[i] \in Range(parts) /\ Range(parts[i]) \subseteq Bytes
  <2>1. \A i \in DOMAIN parts : parts[i] \in Range(parts) /\ parts[i] \in Seq(Bytes)
    BY <1>3 DEF Range
  <2> QED
    BY <2>1, ByteNumbers, Zenon
<1>10. \A i \in DOMAIN parts : \A b \in Range(parts[i]) : b[2] <= sent[b[1]]
  BY <1>8, <1>9, Zenon DEF StreamInv
<1>11. ~gaveUp => \A s \in Senders : \A k \in 1 .. sent[s] :
                     \E i \in DOMAIN parts : <<s, k>> \in Range(parts[i])
  <2>1. \A s \in Senders : \A k \in 1 .. sent[s] :
           <<s, k>> \in Bytes /\ <<s, k>>[1] = s /\ <<s, k>>[2] = k /\ k <= sent[s]
    BY <1>0 DEF Bytes
  <2>2. ASSUME ~gaveUp, NEW s \in Senders, NEW k \in 1 .. sent[s]
        PROVE  \E i \in DOMAIN parts : <<s, k>> \in Range(parts[i])
    <3>1. Held(wire, outputBuffer_, batch, queue, <<s, k>>)
      BY <2>1, <2>2, Zenon DEF StreamInv
    <3>2. PICK p \in Range(parts) : <<s, k>> \in Range(p)
      BY <1>8, <3>1, Zenon
    <3>3. PICK i \in DOMAIN parts : p = parts[i]
      BY Zenon DEF Range
    <3> QED
      BY <3>2, <3>3, Zenon
  <2> QED
    BY <2>2, Zenon
<1>12. \A i \in DOMAIN parts : Ascending(parts[i])
  BY <1>6, <1>9, Zenon
<1>13. parts = <<wire, outputBuffer_>> \o [i \in DOMAIN fs |-> fs[i].data]
  BY <1>d, <1>p, <1>t, Zenon
<1> QED
  BY <1>1, <1>7, <1>10, <1>11, <1>12, <1>13, Zenon DEF StreamIntact

\* Send keeps its promise: through partial writes, buffering, functors and shutdowns the bytes
\* of a sender are written in order and at most once, none is lost unless DoSendInLoop gives up
\* on a dead connection, and the write side is not shut down over buffered data.
THEOREM DataArrives == Spec => []DataDelivered
<1>1. BufferInv => ShutdownAfterData
  BY DEF BufferInv, Closed, ShutdownAfterData
<1>2. TypeOK /\ StreamInv => StreamIntact
  BY StreamOrder
<1>3. TypeOK /\ BufferInv /\ StreamInv => DataDelivered
  BY <1>1, <1>2 DEF DataDelivered
<1> QED
  BY <1>3, TypesHold, BufferInvHolds, StreamInvHolds, PTL

=============================================================================
