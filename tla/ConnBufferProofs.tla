--------------------------- MODULE ConnBufferProofs ---------------------------
(***************************************************************************)
(* Proofs about ConnBuffer, for every size of the buffer, of its prepend   *)
(* area, of extrabuf and of the calls.                                     *)
(***************************************************************************)
EXTENDS ConnBuffer, NaturalsInduction, WellFoundedInduction, TLAPS

\* The constants.
LEMMA Constants ==
  /\ kCheapPrepend \in Nat /\ kInitialSize \in Nat /\ extrabuf \in Nat /\ MaxLen \in Nat
  /\ Base \in Nat /\ Base > 1 /\ 0 \in Byte /\ CR \in Byte /\ LF \in Byte
BY ConnBufferAssumption DEF Byte

(***************************************************************************)
(* Bytes in memory.                                                        *)
(***************************************************************************)
\* Sequences of bytes are equal if they have the same length and bytes.
LEMMA SameBytes ==
  ASSUME NEW s \in Seq(Byte), NEW t \in Seq(Byte), Len(s) = Len(t),
         \A i \in 1 .. Len(s) : s[i] = t[i]
  PROVE  s = t
OBVIOUS

\* A cut of a sequence.
LEMMA Cut ==
  ASSUME NEW s \in Seq(Byte), NEW m \in Nat, NEW n \in Nat, m <= n, n <= Len(s)
  PROVE  /\ SubSeq(s, m + 1, n) \in Seq(Byte) /\ Len(SubSeq(s, m + 1, n)) = n - m
         /\ \A i \in 1 .. n - m : SubSeq(s, m + 1, n)[i] = s[m + i]
<1>1. Len(SubSeq(s, m + 1, n)) = n - m
  OBVIOUS
<1> QED
  BY <1>1

\* Two sequences one after the other.
LEMMA Concat ==
  ASSUME NEW u \in Seq(Byte), NEW v \in Seq(Byte)
  PROVE  /\ u \o v \in Seq(Byte) /\ Len(u \o v) = Len(u) + Len(v)
         /\ \A i \in 1 .. Len(u) : (u \o v)[i] = u[i]
         /\ \A i \in 1 .. Len(u) + Len(v) : i > Len(u) => (u \o v)[i] = v[i - Len(u)]
<1>1. u \o v \in Seq(Byte) /\ Len(u \o v) = Len(u) + Len(v)
  OBVIOUS
<1>2. \A i \in 1 .. Len(u) : (u \o v)[i] = u[i]
  OBVIOUS
<1>3. \A i \in 1 .. Len(u) + Len(v) : i > Len(u) => (u \o v)[i] = v[i - Len(u)]
  OBVIOUS
<1> QED
  BY <1>1, <1>2, <1>3

\* A sequence cut in two is its two parts.
LEMMA Parts ==
  ASSUME NEW s \in Seq(Byte), NEW m \in Nat, m <= Len(s)
  PROVE  SubSeq(s, 1, m) \o SubSeq(s, m + 1, Len(s)) = s
<1> DEFINE u == SubSeq(s, 0 + 1, m)
           v == SubSeq(s, m + 1, Len(s))
           c == u \o v
<1>1. u \in Seq(Byte) /\ Len(u) = m - 0 /\ \A i \in 1 .. m - 0 : u[i] = s[0 + i]
  BY Cut
<1>2. /\ v \in Seq(Byte) /\ Len(v) = Len(s) - m
      /\ \A i \in 1 .. Len(s) - m : v[i] = s[m + i]
  BY Cut
<1>3. u = SubSeq(s, 1, m)
  OBVIOUS
<1> HIDE DEF u, v
<1>4. /\ c \in Seq(Byte) /\ Len(c) = Len(s)
      /\ \A i \in 1 .. m : c[i] = u[i]
      /\ \A i \in 1 .. Len(s) : i > m => c[i] = v[i - m]
  <2>1. /\ c \in Seq(Byte) /\ Len(c) = Len(u) + Len(v)
        /\ \A i \in 1 .. Len(u) : c[i] = u[i]
        /\ \A i \in 1 .. Len(u) + Len(v) : i > Len(u) => c[i] = v[i - Len(u)]
    BY <1>1, <1>2, Concat, Zenon
  <2> HIDE DEF c
  <2>2. Len(u) = m /\ Len(u) + Len(v) = Len(s)
    BY <1>1, <1>2
  <2> QED
    BY <2>1, <2>2
<1> HIDE DEF c
<1>5. ASSUME NEW i \in 1 .. Len(s) PROVE c[i] = s[i]
  <2>1. CASE i <= m
    BY <1>1, <1>4, <2>1
  <2>2. CASE i > m
    <3>1. i - m \in 1 .. Len(s) - m /\ m + (i - m) = i
      BY <2>2
    <3> QED
      BY <1>2, <1>4, <2>2, <3>1
  <2> QED
    BY <2>1, <2>2
<1>6. c = s
  BY <1>4, <1>5, SameBytes
<1> QED
  BY <1>3, <1>6, Zenon DEF c, v

\* s has the bytes of v at the offset r.
At(s, r, v) == r + Len(v) <= Len(s) /\ \A i \in 1 .. Len(v) : s[r + i] = v[i]

\* So it has a cut of v, further on.
LEMMA AtCut ==
  ASSUME NEW s \in Seq(Byte), NEW r \in Nat, NEW v \in Seq(Byte), At(s, r, v),
         NEW m \in Nat, NEW n \in Nat, m <= n, n <= Len(v)
  PROVE  At(s, r + m, SubSeq(v, m + 1, n))
<1> DEFINE c == SubSeq(v, m + 1, n)
<1>1. Len(c) = n - m /\ \A i \in 1 .. n - m : c[i] = v[m + i]
  BY Cut
<1> HIDE DEF c
<1>2. (r + m) + Len(c) <= Len(s)
  BY <1>1 DEF At
<1>3. ASSUME NEW i \in 1 .. Len(c) PROVE s[(r + m) + i] = c[i]
  <2>1. m + i \in 1 .. Len(v) /\ (r + m) + i = r + (m + i) /\ i \in 1 .. n - m
    BY <1>1
  <2>2. s[r + (m + i)] = v[m + i]
    BY <2>1 DEF At
  <2> QED
    BY <1>1, <2>1, <2>2
<1> QED
  BY <1>2, <1>3 DEF At, c

\* What lies behind v is read after it.
LEMMA AtConcat ==
  ASSUME NEW s \in Seq(Byte), NEW r \in Nat, NEW v \in Seq(Byte), NEW x \in Seq(Byte),
         At(s, r, v), At(s, r + Len(v), x)
  PROVE  At(s, r, v \o x)
<1> DEFINE c == v \o x
<1>1. /\ c \in Seq(Byte) /\ Len(c) = Len(v) + Len(x) /\ Len(v) \in Nat /\ Len(x) \in Nat
      /\ \A i \in 1 .. Len(v) : c[i] = v[i]
      /\ \A i \in 1 .. Len(v) + Len(x) : i > Len(v) => c[i] = x[i - Len(v)]
  BY Concat
<1> HIDE DEF c
<1>2. r + Len(c) <= Len(s)
  BY <1>1 DEF At
<1>3. ASSUME NEW i \in 1 .. Len(c) PROVE s[r + i] = c[i]
  <2>1. CASE i \in 1 .. Len(v)
    BY <1>1, <2>1 DEF At
  <2>2. CASE i > Len(v)
    <3>1. i - Len(v) \in 1 .. Len(x) /\ (r + Len(v)) + (i - Len(v)) = r + i
      BY <1>1, <2>2
    <3>2. s[(r + Len(v)) + (i - Len(v))] = x[i - Len(v)]
      BY <3>1 DEF At
    <3> QED
      BY <1>1, <2>2, <3>1, <3>2
  <2> QED
    BY <1>1, <2>1, <2>2
<1> QED
  BY <1>2, <1>3 DEF At, c

\* std::copy keeps the size of the vector ...
LEMMA Copied ==
  ASSUME NEW x \in Seq(Byte), NEW s \in Seq(Byte), NEW at \in Nat, at + Len(x) <= Len(s)
  PROVE  Copy(x, s, at) \in Seq(Byte) /\ Len(Copy(x, s, at)) = Len(s)
<1>1. \A i \in 1 .. Len(s) : (IF i \in (at + 1) .. (at + Len(x)) THEN x[i - at] ELSE s[i]) \in Byte
  OBVIOUS
<1>2. Copy(x, s, at) \in [1 .. Len(s) -> Byte]
  BY <1>1 DEF Copy
<1> QED
  BY <1>2

\* ... puts the bytes in their place ...
LEMMA AtCopy ==
  ASSUME NEW x \in Seq(Byte), NEW s \in Seq(Byte), NEW at \in Nat, at + Len(x) <= Len(s)
  PROVE  At(Copy(x, s, at), at, x)
<1>1. \A i \in 1 .. Len(x) : Copy(x, s, at)[at + i] = x[i]
  BY DEF Copy
<1>2. Len(Copy(x, s, at)) = Len(s)
  BY Copied
<1> QED
  BY <1>1, <1>2 DEF At

\* ... and leaves the others alone.
LEMMA AtKept ==
  ASSUME NEW x \in Seq(Byte), NEW s \in Seq(Byte), NEW at \in Nat, at + Len(x) <= Len(s),
         NEW r \in Nat, NEW v \in Seq(Byte), At(s, r, v), r + Len(v) <= at \/ at + Len(x) <= r
  PROVE  At(Copy(x, s, at), r, v)
<1>1. \A i \in 1 .. Len(s) : i <= at \/ i > at + Len(x) => Copy(x, s, at)[i] = s[i]
  BY DEF Copy
<1>2. Len(Copy(x, s, at)) = Len(s)
  BY Copied
<1> DEFINE t == Copy(x, s, at)
<1> HIDE DEF t
<1>3. ASSUME NEW i \in 1 .. Len(v) PROVE t[r + i] = v[i]
  <2>1. r + i \in 1 .. Len(s) /\ (r + i <= at \/ r + i > at + Len(x))
    BY DEF At
  <2>2. t[r + i] = s[r + i]
    BY <1>1, <2>1 DEF t
  <2> QED
    BY <2>2 DEF At
<1> QED
  BY <1>2, <1>3 DEF At, t

\* resize makes a larger vector with the same bytes in front.
LEMMA Resized ==
  ASSUME NEW s \in Seq(Byte), NEW size \in Nat, Len(s) <= size
  PROVE  Resize(s, size) \in Seq(Byte) /\ Len(Resize(s, size)) = size
<1>1. \A i \in 1 .. size : (IF i <= Len(s) THEN s[i] ELSE 0) \in Byte
  BY Constants
<1>2. Resize(s, size) \in [1 .. size -> Byte]
  BY <1>1 DEF Resize
<1> QED
  BY <1>2

\* What it held it still holds.
LEMMA AtResized ==
  ASSUME NEW s \in Seq(Byte), NEW size \in Nat, Len(s) <= size,
         NEW r \in Nat, NEW v \in Seq(Byte), At(s, r, v)
  PROVE  At(Resize(s, size), r, v)
<1>1. \A i \in 1 .. Len(s) : Resize(s, size)[i] = s[i]
  BY DEF Resize
<1>2. Len(Resize(s, size)) = size
  BY Resized
<1> DEFINE t == Resize(s, size)
<1> HIDE DEF t
<1>3. ASSUME NEW i \in 1 .. Len(v) PROVE t[r + i] = v[i]
  <2>1. r + i \in 1 .. Len(s)
    BY DEF At
  <2> QED
    BY <1>1, <2>1 DEF At, t
<1>4. r + Len(v) <= Len(t)
  BY <1>2 DEF At, t
<1> QED
  BY <1>3, <1>4 DEF At, t

(***************************************************************************)
(* Buffers.                                                                *)
(***************************************************************************)
\* The Buffer of these fields.
B(s, r, w) == [buffer_ |-> s, readerIndex_ |-> r, writerIndex_ |-> w]

\* Fields that are set.
LEMMA SetFields ==
  ASSUME NEW s, NEW r, NEW w, NEW x
  PROVE  /\ [B(s, r, w) EXCEPT !.buffer_ = x] = B(x, r, w)
         /\ [B(s, r, w) EXCEPT !.readerIndex_ = x] = B(s, x, w)
         /\ [B(s, r, w) EXCEPT !.writerIndex_ = x] = B(s, r, x)
BY DEF B

\* The fields of a Buffer that reads as v.
Reads(b, s, r, v) ==
    /\ s \in Seq(Byte) /\ r \in Nat /\ v \in Seq(Byte) /\ At(s, r, v)
    /\ b = B(s, r, r + Len(v)) /\ v = ToStringView(b)
    /\ b.buffer_ = s /\ b.readerIndex_ = r /\ b.writerIndex_ = r + Len(v)
    /\ ReadableBytes(b) = Len(v) /\ WritableBytes(b) = Len(s) - (r + Len(v))
    /\ PrependableBytes(b) = r

\* A Buffer that is put together from a vector with v at the offset r reads as v.
LEMMA Made ==
  ASSUME NEW s \in Seq(Byte), NEW r \in Nat, NEW v \in Seq(Byte), At(s, r, v)
  PROVE  B(s, r, r + Len(v)) \in Buffers /\ Reads(B(s, r, r + Len(v)), s, r, v)
<1> DEFINE w == r + Len(v)
           u == SubSeq(s, r + 1, w)
<1>1. w \in Nat /\ r <= w /\ w <= Len(s) /\ w - r = Len(v) /\ Len(v) \in Nat
  BY DEF At
<1>2. u \in Seq(Byte) /\ Len(u) = w - r /\ \A i \in 1 .. w - r : u[i] = s[r + i]
  <2> HIDE DEF w
  <2> QED
    BY <1>1, Cut
<1>3. u = v
  <2> HIDE DEF u, w
  <2>1. Len(u) = Len(v) /\ \A i \in 1 .. Len(u) : u[i] = v[i]
    BY <1>1, <1>2 DEF At
  <2> QED
    BY <1>2, <2>1, SameBytes
<1>4. ToStringView(B(s, r, w)) = u
  BY DEF ToStringView, B
<1> HIDE DEF u, w
<1>5. B(s, r, w) \in Buffers
  BY <1>1 DEF Buffers, B
<1>6. /\ B(s, r, w).buffer_ = s /\ B(s, r, w).readerIndex_ = r /\ B(s, r, w).writerIndex_ = w
      /\ ReadableBytes(B(s, r, w)) = w - r /\ WritableBytes(B(s, r, w)) = Len(s) - w
      /\ PrependableBytes(B(s, r, w)) = r
  BY DEF B, ReadableBytes, WritableBytes, PrependableBytes
<1> QED
  BY <1>1, <1>3, <1>4, <1>5, <1>6 DEF w, Reads

\* Every Buffer has them.
LEMMA Apart ==
  ASSUME NEW b \in Buffers
  PROVE  Reads(b, b.buffer_, b.readerIndex_, ToStringView(b))
<1> DEFINE s == b.buffer_
           r == b.readerIndex_
           w == b.writerIndex_
           v == SubSeq(s, r + 1, w)
<1>1. /\ s \in Seq(Byte) /\ Len(s) \in Nat /\ r \in Nat /\ w \in Nat /\ r <= w /\ w <= Len(s)
      /\ b = B(s, r, w)
  BY DEF Buffers, B
<1>2. ReadableBytes(b) = w - r /\ WritableBytes(b) = Len(s) - w /\ PrependableBytes(b) = r
  BY DEF ReadableBytes, WritableBytes, PrependableBytes
<1>3. v = ToStringView(b)
  BY DEF ToStringView
<1>4. b.buffer_ = s /\ b.readerIndex_ = r /\ b.writerIndex_ = w
  OBVIOUS
<1> HIDE DEF s, r, w
<1>5. v \in Seq(Byte) /\ Len(v) = w - r /\ \A i \in 1 .. w - r : v[i] = s[r + i]
  BY <1>1, Cut
<1> HIDE DEF v
<1>6. r + Len(v) = w
  BY <1>1, <1>5
<1>7. At(s, r, v)
  BY <1>1, <1>5, <1>6 DEF At
<1>8. Reads(b, s, r, v)
  BY <1>1, <1>2, <1>3, <1>4, <1>5, <1>6, <1>7 DEF Reads
<1> QED
  BY <1>3, <1>8 DEF s, r

\* What is readable is a sequence of bytes.
LEMMA View ==
  ASSUME NEW b \in Buffers
  PROVE  /\ ToStringView(b) \in Seq(Byte) /\ ReadableBytes(b) = Len(ToStringView(b))
         /\ ReadableBytes(b) \in Nat /\ WritableBytes(b) \in Nat /\ PrependableBytes(b) \in Nat
         /\ Len(b.buffer_) \in Nat /\ b.readerIndex_ \in Nat /\ PrependableBytes(b) = b.readerIndex_
<1>1. PICK s, r, v : Reads(b, s, r, v)
  BY Apart
<1> QED
  BY <1>1 DEF Reads, At

\* Bytes put behind the readable ones are added to them.
LEMMA Filled ==
  ASSUME NEW b \in Buffers, NEW x \in Seq(Byte), Len(x) <= WritableBytes(b)
  PROVE  /\ Fill(b, x) \in Buffers /\ ToStringView(Fill(b, x)) = ToStringView(b) \o x
         /\ Fill(b, x).readerIndex_ = b.readerIndex_ /\ Len(Fill(b, x).buffer_) = Len(b.buffer_)
         /\ ReadableBytes(Fill(b, x)) = ReadableBytes(b) + Len(x)
<1>0. PICK s, r, v : Reads(b, s, r, v)
  BY Apart
<1> DEFINE t == Copy(x, s, r + Len(v))
           y == v \o x
<1>1. r + Len(v) \in Nat /\ (r + Len(v)) + Len(x) <= Len(s) /\ Len(v) \in Nat /\ Len(x) \in Nat
  BY <1>0 DEF Reads
<1>2. t \in Seq(Byte) /\ Len(t) = Len(s)
  BY <1>0, <1>1, Copied DEF Reads
<1>3. At(t, r, v) /\ At(t, r + Len(v), x)
  <2>1. At(t, r, v)
    BY <1>0, <1>1, AtKept DEF Reads
  <2>2. At(t, r + Len(v), x)
    BY <1>0, <1>1, AtCopy DEF Reads
  <2> QED
    BY <2>1, <2>2
<1>4. y \in Seq(Byte) /\ Len(y) = Len(v) + Len(x)
  BY <1>0, Concat DEF Reads
<1>5. At(t, r, y)
  <2> HIDE DEF t
  <2> QED
    BY <1>0, <1>2, <1>3, AtConcat, Zenon DEF Reads
<1>6. Fill(b, x) = B(t, r, r + Len(y))
  <2>1. Fill(b, x) = HasWritten([b EXCEPT !.buffer_ = t], Len(x))
    BY <1>0, Zenon DEF Fill, Reads
  <2>2. [b EXCEPT !.buffer_ = t] = B(t, r, r + Len(v))
    <3> HIDE DEF t
    <3> QED
      BY <1>0, SetFields DEF Reads
  <2>3. HasWritten(B(t, r, r + Len(v)), Len(x)) = B(t, r, (r + Len(v)) + Len(x))
    BY DEF B, HasWritten
  <2>4. (r + Len(v)) + Len(x) = r + Len(y)
    <3> HIDE DEF y
    <3> QED
      BY <1>0, <1>1, <1>4 DEF Reads
  <2> HIDE DEF t, y
  <2> QED
    BY <2>1, <2>2, <2>3, <2>4
<1> HIDE DEF t, y
<1>7. B(t, r, r + Len(y)) \in Buffers /\ Reads(B(t, r, r + Len(y)), t, r, y)
  <2>1. t \in Seq(Byte) /\ y \in Seq(Byte) /\ r \in Nat
    BY <1>0, <1>2, <1>4 DEF Reads
  <2> QED
    BY <1>5, <2>1, Made, Zenon
<1> QED
  BY <1>0, <1>2, <1>4, <1>6, <1>7, Zenon DEF Reads, y

\* EnsureWritableBytes makes room and keeps the readable bytes.  It moves them only towards the
\* front, leaves a prepend area, and takes more memory only if they would not fit otherwise.
Roomier(b, len, e) ==
    /\ e \in Buffers /\ ToStringView(e) = ToStringView(b) /\ ReadableBytes(e) = ReadableBytes(b)
    /\ WritableBytes(e) >= len
    /\ e.readerIndex_ = b.readerIndex_ \/ e.readerIndex_ = kCheapPrepend
    /\ Len(e.buffer_) >= Len(b.buffer_)
    /\ Len(e.buffer_) > Len(b.buffer_) =>
          kCheapPrepend + ReadableBytes(b) + len > Len(b.buffer_)

\* There is enough room already.
LEMMA EnoughRoom ==
  ASSUME NEW b \in Buffers, NEW len \in Nat, ~(WritableBytes(b) < len)
  PROVE  Roomier(b, len, b)
<1>1. PICK s, r, v : Reads(b, s, r, v)
  BY Apart
<1>2. WritableBytes(b) \in Int /\ Len(s) \in Nat
  BY <1>1 DEF Reads
<1> QED
  BY <1>1, <1>2 DEF Roomier, Reads

\* The buffer grows.
LEMMA Grown ==
  ASSUME NEW b \in Buffers, NEW len \in Nat, WritableBytes(b) < len, MustGrow(b, len)
  PROVE  Roomier(b, len, [b EXCEPT !.buffer_ = Resize(@, b.writerIndex_ + len)])
<1>1. PICK s, r, v : Reads(b, s, r, v)
  BY Apart
<1>2. /\ s \in Seq(Byte) /\ r \in Nat /\ v \in Seq(Byte) /\ At(s, r, v)
      /\ Len(s) \in Nat /\ Len(v) \in Nat
  BY <1>1 DEF Reads
<1> DEFINE size == (r + Len(v)) + len
           t == Resize(s, size)
<1>3. size \in Nat /\ Len(s) < size /\ size - (r + Len(v)) = len
  BY <1>1, <1>2 DEF Reads
<1>4. kCheapPrepend + Len(v) + len > Len(s)
  BY <1>1, <1>2, Constants DEF MustGrow, Reads
<1>5. [b EXCEPT !.buffer_ = Resize(@, b.writerIndex_ + len)] = B(t, r, r + Len(v))
  <2>1. [b EXCEPT !.buffer_ = Resize(@, b.writerIndex_ + len)] = [b EXCEPT !.buffer_ = t]
    BY <1>1 DEF Reads
  <2> HIDE DEF t
  <2> QED
    BY <1>1, <2>1, SetFields DEF Reads
<1> HIDE DEF size
<1>6. t \in Seq(Byte) /\ Len(t) = size
  BY <1>2, <1>3, Resized
<1>7. At(t, r, v)
  BY <1>2, <1>3, AtResized
<1> HIDE DEF t
<1>8. B(t, r, r + Len(v)) \in Buffers /\ Reads(B(t, r, r + Len(v)), t, r, v)
  BY <1>2, <1>6, <1>7, Made, Zenon
<1>9. v = ToStringView(b) /\ ReadableBytes(b) = Len(v) /\ b.buffer_ = s /\ b.readerIndex_ = r
  BY <1>1 DEF Reads
<1>10. Roomier(b, len, B(t, r, r + Len(v)))
  BY <1>2, <1>3, <1>4, <1>6, <1>8, <1>9, Constants DEF Roomier, Reads
<1> QED
  BY <1>5, <1>10

\* The readable bytes are moved to the front.
LEMMA Moved ==
  ASSUME NEW b \in Buffers, NEW len \in Nat, WritableBytes(b) < len, ~MustGrow(b, len)
  PROVE  /\ kCheapPrepend < b.readerIndex_
         /\ Roomier(b, len, [buffer_ |-> Copy(ToStringView(b), b.buffer_, kCheapPrepend),
                             readerIndex_ |-> kCheapPrepend,
                             writerIndex_ |-> kCheapPrepend + ReadableBytes(b)])
<1>1. PICK s, r, v : Reads(b, s, r, v)
  BY Apart
<1>2. /\ s \in Seq(Byte) /\ r \in Nat /\ v \in Seq(Byte) /\ At(s, r, v)
      /\ Len(s) \in Nat /\ Len(v) \in Nat
  BY <1>1 DEF Reads
<1> DEFINE t == Copy(v, s, kCheapPrepend)
<1>3. /\ kCheapPrepend \in Nat /\ kCheapPrepend < r
      /\ kCheapPrepend + Len(v) <= Len(s) /\ Len(s) - (kCheapPrepend + Len(v)) >= len
  BY <1>1, <1>2, Constants DEF MustGrow, Reads, At
<1>4. [buffer_ |-> Copy(ToStringView(b), b.buffer_, kCheapPrepend), readerIndex_ |-> kCheapPrepend,
       writerIndex_ |-> kCheapPrepend + ReadableBytes(b)]
         = B(t, kCheapPrepend, kCheapPrepend + Len(v))
  BY <1>1 DEF Reads, B
<1>5. t \in Seq(Byte) /\ Len(t) = Len(s)
  BY <1>2, <1>3, Copied
<1>6. At(t, kCheapPrepend, v)
  BY <1>2, <1>3, AtCopy
<1> DEFINE e == B(t, kCheapPrepend, kCheapPrepend + Len(v))
<1> HIDE DEF t
<1>7. e \in Buffers /\ Reads(e, t, kCheapPrepend, v)
  BY <1>2, <1>3, <1>5, <1>6, Made, Zenon
<1>8. v = ToStringView(b) /\ ReadableBytes(b) = Len(v) /\ b.buffer_ = s /\ b.readerIndex_ = r
  BY <1>1 DEF Reads
<1> HIDE DEF e
<1>9. Roomier(b, len, e)
  <2>1. /\ ToStringView(e) = v /\ e.readerIndex_ = kCheapPrepend /\ e.buffer_ = t
        /\ ReadableBytes(e) = Len(v) /\ WritableBytes(e) = Len(t) - (kCheapPrepend + Len(v))
    BY <1>7 DEF Reads
  <2>2. WritableBytes(e) >= len /\ Len(e.buffer_) = Len(b.buffer_) /\ Len(b.buffer_) \in Nat
    BY <1>2, <1>3, <1>5, <1>8, <2>1
  <2> QED
    BY <1>7, <1>8, <2>1, <2>2 DEF Roomier
<1> QED
  BY <1>3, <1>4, <1>8, <1>9 DEF e

\* In every case there is room.
LEMMA Ensured ==
  ASSUME NEW b \in Buffers, NEW len \in Nat
  PROVE  /\ Roomier(b, len, EnsureWritableBytes(b, len))
         /\ WritableBytes(b) < len => MustGrow(b, len) \/ kCheapPrepend < b.readerIndex_
BY EnoughRoom, Grown, Moved DEF EnsureWritableBytes, MakeSpace

\* Append adds its bytes at the end.
Longer(b, x, c) ==
    /\ c \in Buffers /\ ToStringView(c) = ToStringView(b) \o x
    /\ ReadableBytes(c) = ReadableBytes(b) + Len(x)
    /\ c.readerIndex_ = b.readerIndex_ \/ c.readerIndex_ = kCheapPrepend
    /\ Len(c.buffer_) >= Len(b.buffer_)
    /\ Len(c.buffer_) > Len(b.buffer_) =>
          kCheapPrepend + ReadableBytes(c) > Len(b.buffer_)

\* It does, having made room.
LEMMA Appended ==
  ASSUME NEW b \in Buffers, NEW x \in Seq(Byte)
  PROVE  Longer(b, x, AppendBytes(b, x))
<1> DEFINE e == EnsureWritableBytes(b, Len(x))
           c == Fill(e, x)
<1>1. Len(x) \in Nat /\ c = AppendBytes(b, x)
  BY DEF AppendBytes
<1>2. Roomier(b, Len(x), e)
  BY <1>1, Ensured
<1> HIDE DEF e
<1>3. e \in Buffers /\ WritableBytes(e) \in Int /\ ReadableBytes(b) \in Nat
  <2>1. e \in Buffers
    BY <1>2 DEF Roomier
  <2> QED
    BY <2>1, View
<1>4. Len(x) <= WritableBytes(e)
  BY <1>1, <1>2, <1>3 DEF Roomier
<1>5. /\ c \in Buffers /\ ToStringView(c) = ToStringView(e) \o x
      /\ c.readerIndex_ = e.readerIndex_ /\ Len(c.buffer_) = Len(e.buffer_)
      /\ ReadableBytes(c) = ReadableBytes(e) + Len(x)
  BY <1>3, <1>4, Filled
<1> HIDE DEF c
<1>6. Longer(b, x, c)
  BY <1>1, <1>2, <1>3, <1>5, Constants DEF Longer, Roomier
<1> QED
  BY <1>1, <1>6

\* Prepend adds its bytes at the front.
LEMMA Prepended ==
  ASSUME NEW b \in Buffers, NEW x \in Seq(Byte), Len(x) <= PrependableBytes(b)
  PROVE  /\ Prepend(b, x) \in Buffers /\ ToStringView(Prepend(b, x)) = x \o ToStringView(b)
         /\ Len(Prepend(b, x).buffer_) = Len(b.buffer_)
<1>1. PICK s, r, v : Reads(b, s, r, v)
  BY Apart
<1>2. /\ s \in Seq(Byte) /\ r \in Nat /\ v \in Seq(Byte) /\ At(s, r, v)
      /\ Len(s) \in Nat /\ Len(v) \in Nat /\ Len(x) \in Nat
  BY <1>1 DEF Reads
<1> DEFINE p == r - Len(x)
           t == Copy(x, s, p)
           y == x \o v
<1>3. p \in Nat /\ p + Len(x) = r /\ p + Len(x) <= Len(s) /\ p + Len(x) <= r
  BY <1>1, <1>2 DEF Reads, At
<1>4. Prepend(b, x) = B(t, p, r + Len(v))
  <2> DEFINE w == r + Len(v)
             moved == [b EXCEPT !.readerIndex_ = b.readerIndex_ - Len(x)]
  <2>1. b.readerIndex_ - Len(x) = p /\ b = B(s, r, w)
    BY <1>1 DEF Reads
  <2>2. Prepend(b, x) = [moved EXCEPT !.buffer_ = Copy(x, moved.buffer_, moved.readerIndex_)]
    BY DEF Prepend
  <2> HIDE DEF p, w
  <2>3. [B(s, r, w) EXCEPT !.readerIndex_ = p] = B(s, p, w)
    BY DEF B
  <2>4. moved = B(s, p, w)
    BY <2>1, <2>3, Zenon
  <2> HIDE DEF moved
  <2>5. moved.buffer_ = s /\ moved.readerIndex_ = p
    BY <2>4 DEF B
  <2>6. Copy(x, moved.buffer_, moved.readerIndex_) = t
    BY <2>5
  <2>7. Prepend(b, x) = [moved EXCEPT !.buffer_ = t]
    BY <2>2, <2>6
  <2> HIDE DEF t
  <2>8. [B(s, p, w) EXCEPT !.buffer_ = t] = B(t, p, w)
    BY DEF B
  <2> QED
    BY <2>4, <2>7, <2>8, Zenon DEF w
<1> HIDE DEF p
<1>5. t \in Seq(Byte) /\ Len(t) = Len(s)
  BY <1>2, <1>3, Copied
<1>6. At(t, p, x)
  BY <1>2, <1>3, AtCopy
<1>7. At(t, r, v)
  BY <1>2, <1>3, AtKept
<1>8. y \in Seq(Byte) /\ Len(y) = Len(x) + Len(v)
  BY <1>2, Concat
<1> HIDE DEF t
<1>9. At(t, p, y)
  <2>1. At(t, p + Len(x), v)
    BY <1>3, <1>7
  <2> QED
    BY <1>2, <1>3, <1>5, <1>6, <2>1, AtConcat
<1>10. r + Len(v) = p + Len(y)
  <2>1. Len(y) = Len(x) + Len(v)
    BY <1>8
  <2> HIDE DEF y
  <2>2. p + Len(y) = (p + Len(x)) + Len(v)
    BY <1>2, <1>3, <2>1
  <2> QED
    BY <1>3, <2>2
<1> HIDE DEF y
<1>11. B(t, p, p + Len(y)) \in Buffers /\ Reads(B(t, p, p + Len(y)), t, p, y)
  BY <1>3, <1>5, <1>8, <1>9, Made, Zenon
<1>12. v = ToStringView(b) /\ b.buffer_ = s
  BY <1>1 DEF Reads
<1> QED
  BY <1>4, <1>5, <1>10, <1>11, <1>12 DEF y, Reads

\* The vector has room for the prepend area.
Sized == {b \in Buffers : kCheapPrepend <= Len(b.buffer_)}

\* Retrieve takes bytes from the front.
LEMMA Retrieved ==
  ASSUME NEW b \in Sized, NEW len \in Nat, len <= ReadableBytes(b)
  PROVE  /\ Retrieve(b, len) \in Buffers
         /\ ToStringView(Retrieve(b, len)) = SubSeq(ToStringView(b), len + 1, Len(ToStringView(b)))
         /\ Len(Retrieve(b, len).buffer_) = Len(b.buffer_)
         /\ \/ Retrieve(b, len).readerIndex_ >= b.readerIndex_
            \/ Retrieve(b, len).readerIndex_ >= kCheapPrepend
<1>0. b \in Buffers /\ kCheapPrepend <= Len(b.buffer_)
  BY DEF Sized
<1>1. PICK s, r, v : Reads(b, s, r, v)
  BY <1>0, Apart
<1>2. /\ s \in Seq(Byte) /\ r \in Nat /\ v \in Seq(Byte) /\ At(s, r, v)
      /\ Len(s) \in Nat /\ Len(v) \in Nat /\ len <= Len(v) /\ kCheapPrepend \in Nat
      /\ kCheapPrepend <= Len(s)
  BY <1>0, <1>1, Constants DEF Reads
<1>3. v = ToStringView(b) /\ b.buffer_ = s /\ b.readerIndex_ = r /\ ReadableBytes(b) = Len(v)
  BY <1>1 DEF Reads
<1> DEFINE c == SubSeq(v, len + 1, Len(v))
<1>4. c \in Seq(Byte) /\ Len(c) = Len(v) - len
  <2>1. Len(v) <= Len(v)
    BY <1>2
  <2> QED
    BY <1>2, <2>1, Cut, Zenon
<1>5. CASE len < Len(v)
  <2>1. Retrieve(b, len) = [b EXCEPT !.readerIndex_ = b.readerIndex_ + len]
    BY <1>3, <1>5 DEF Retrieve
  <2>2. Retrieve(b, len) = B(s, r + len, r + Len(v))
    BY <1>1, <2>1, Zenon DEF Reads, B
  <2> DEFINE q == r + len
  <2>3. At(s, q, c)
    BY <1>2, AtCut
  <2> HIDE DEF c
  <2>4. r + Len(v) = q + Len(c) /\ q \in Nat /\ q >= r
    BY <1>2, <1>4
  <2> HIDE DEF q
  <2>5. B(s, q, q + Len(c)) \in Buffers /\ Reads(B(s, q, q + Len(c)), s, q, c)
    BY <1>2, <1>4, <2>3, <2>4, Made, Zenon
  <2>6. Retrieve(b, len) = B(s, q, q + Len(c))
    BY <2>2, <2>4 DEF q
  <2> QED
    BY <1>3, <2>4, <2>5, <2>6 DEF c, Reads
<1>6. CASE len = Len(v)
  <2>1. Retrieve(b, len) = RetrieveAll(b)
    BY <1>2, <1>3, <1>6 DEF Retrieve
  <2>2. Retrieve(b, len) = B(s, kCheapPrepend, kCheapPrepend)
    BY <1>1, <2>1, Zenon DEF Reads, B, RetrieveAll
  <2> HIDE DEF c
  <2>3. Len(c) = 0 /\ kCheapPrepend = kCheapPrepend + Len(c)
    BY <1>2, <1>4, <1>6
  <2>4. At(s, kCheapPrepend, c)
    BY <1>2, <2>3 DEF At
  <2>5. /\ B(s, kCheapPrepend, kCheapPrepend + Len(c)) \in Buffers
        /\ Reads(B(s, kCheapPrepend, kCheapPrepend + Len(c)), s, kCheapPrepend, c)
    BY <1>2, <1>4, <2>4, Made, Zenon
  <2> QED
    BY <1>2, <1>3, <2>2, <2>3, <2>5 DEF c, Reads
<1> QED
  BY <1>2, <1>5, <1>6

\* Unwrite throws bytes away at the end.
LEMMA Unwritten ==
  ASSUME NEW b \in Buffers, NEW len \in Nat, len <= ReadableBytes(b)
  PROVE  /\ Unwrite(b, len) \in Buffers
         /\ ToStringView(Unwrite(b, len)) = SubSeq(ToStringView(b), 1, Len(ToStringView(b)) - len)
         /\ Len(Unwrite(b, len).buffer_) = Len(b.buffer_)
         /\ Unwrite(b, len).readerIndex_ = b.readerIndex_
<1>1. PICK s, r, v : Reads(b, s, r, v)
  BY Apart
<1>2. /\ s \in Seq(Byte) /\ r \in Nat /\ v \in Seq(Byte) /\ At(s, r, v)
      /\ Len(s) \in Nat /\ Len(v) \in Nat /\ len <= Len(v)
  BY <1>1 DEF Reads
<1>3. v = ToStringView(b) /\ b.buffer_ = s /\ b.readerIndex_ = r
  BY <1>1 DEF Reads
<1> DEFINE n == Len(v) - len
           c == SubSeq(v, 0 + 1, n)
<1>4. n \in Nat /\ n <= Len(v) /\ r + n = (r + Len(v)) - len
  BY <1>2
<1>5. Unwrite(b, len) = B(s, r, (r + Len(v)) - len)
  BY <1>1, SMTT(20) DEF Unwrite, Reads, B
<1> HIDE DEF n
<1>6. c \in Seq(Byte) /\ Len(c) = n
  BY <1>2, <1>4, Cut
<1>7. At(s, r, c)
  <2>1. At(s, r + 0, c)
    BY <1>2, <1>4, AtCut
  <2> HIDE DEF c
  <2> QED
    BY <1>2, <2>1
<1>8. c = SubSeq(v, 1, n)
  OBVIOUS
<1> HIDE DEF c
<1>9. B(s, r, r + Len(c)) \in Buffers /\ Reads(B(s, r, r + Len(c)), s, r, c)
  BY <1>2, <1>6, <1>7, Made, Zenon
<1> QED
  BY <1>3, <1>4, <1>5, <1>6, <1>8, <1>9 DEF n, Reads

\* A new Buffer is empty.
LEMMA NewOne ==
  ASSUME NEW n \in Nat
  PROVE  /\ NewBuffer(n) \in Buffers /\ ToStringView(NewBuffer(n)) = <<>>
         /\ NewBuffer(n).readerIndex_ = kCheapPrepend
         /\ Len(NewBuffer(n).buffer_) = kCheapPrepend + n
<1> DEFINE s == [i \in 1 .. (kCheapPrepend + n) |-> 0]
           none == <<>>
<1>1. /\ kCheapPrepend \in Nat /\ kCheapPrepend + n \in Nat
      /\ none \in Seq(Byte) /\ Len(none) = 0 /\ kCheapPrepend + Len(none) = kCheapPrepend
  BY Constants
<1>2. s \in [1 .. (kCheapPrepend + n) -> Byte]
  BY Constants
<1>3. s \in Seq(Byte) /\ Len(s) = kCheapPrepend + n
  BY <1>1, <1>2
<1>4. NewBuffer(n) = B(s, kCheapPrepend, kCheapPrepend)
  BY DEF NewBuffer, B
<1> HIDE DEF s, none
<1>5. At(s, kCheapPrepend, none)
  BY <1>1, <1>3 DEF At
<1> DEFINE b == B(s, kCheapPrepend, kCheapPrepend + Len(none))
<1>6. b \in Buffers /\ Reads(b, s, kCheapPrepend, none)
  BY <1>1, <1>3, <1>5, Made, Zenon
<1>7. b = NewBuffer(n)
  BY <1>1, <1>4
<1> HIDE DEF b
<1> QED
  BY <1>3, <1>6, <1>7 DEF none, Reads

\* Nothing before a sequence.
LEMMA EmptyBefore ==
  ASSUME NEW v \in Seq(Byte)
  PROVE  <<>> \o v = v
OBVIOUS

\* Shrink keeps the readable bytes, and makes a new prepend area.
LEMMA Shrunk ==
  ASSUME NEW b \in Buffers, NEW reserve \in Nat
  PROVE  /\ Shrink(b, reserve) \in Sized /\ ToStringView(Shrink(b, reserve)) = ToStringView(b)
         /\ Shrink(b, reserve).readerIndex_ = kCheapPrepend
<1> DEFINE a == NewBuffer(kInitialSize)
           len == ReadableBytes(b) + reserve
           e == EnsureWritableBytes(a, len)
           c == AppendBytes(e, ToStringView(b))
<1>1. /\ a \in Buffers /\ ToStringView(a) = <<>> /\ a.readerIndex_ = kCheapPrepend
      /\ kCheapPrepend <= Len(a.buffer_) /\ kCheapPrepend \in Nat
  <2>1. kCheapPrepend \in Nat /\ kInitialSize \in Nat
    BY Constants
  <2>2. Len(a.buffer_) = kCheapPrepend + kInitialSize
    BY <2>1, NewOne
  <2>3. a \in Buffers /\ ToStringView(a) = <<>> /\ a.readerIndex_ = kCheapPrepend
    BY <2>1, NewOne
  <2> HIDE DEF a
  <2> QED
    BY <2>1, <2>2, <2>3
<1>2. len \in Nat /\ ToStringView(b) \in Seq(Byte)
  BY View
<1>3. c = Shrink(b, reserve)
  BY DEF Shrink
<1> HIDE DEF a, len
<1>4. Roomier(a, len, e)
  BY <1>1, <1>2, Ensured
<1> HIDE DEF e
<1>5. e \in Buffers /\ ToStringView(e) = <<>> /\ e.readerIndex_ = kCheapPrepend
  BY <1>1, <1>4 DEF Roomier
<1>6. Longer(e, ToStringView(b), c)
  BY <1>2, <1>5, Appended
<1> HIDE DEF c
<1>7. Len(a.buffer_) \in Nat /\ Len(e.buffer_) \in Nat /\ Len(c.buffer_) \in Nat /\ c \in Buffers
  BY <1>1, <1>5, <1>6, View DEF Longer
<1>8. kCheapPrepend <= Len(c.buffer_)
  BY <1>1, <1>4, <1>6, <1>7 DEF Roomier, Longer
<1>9. ToStringView(c) = ToStringView(b)
  BY <1>2, <1>5, <1>6, EmptyBefore DEF Longer
<1>10. c.readerIndex_ = kCheapPrepend
  BY <1>5, <1>6 DEF Longer
<1> QED
  BY <1>3, <1>7, <1>8, <1>9, <1>10 DEF Sized

\* Three sequences one after the other.
LEMMA Associative ==
  ASSUME NEW u \in Seq(Byte), NEW v \in Seq(Byte), NEW w \in Seq(Byte)
  PROVE  (u \o v) \o w = u \o (v \o w)
OBVIOUS

\* ReadFd adds what it reads at the end, also what went to extrabuf.
LEMMA ReadIn ==
  ASSUME NEW b \in Buffers, NEW x \in Seq(Byte)
  PROVE  Longer(b, x, ReadFd(b, x))
<1> DEFINE n == WritableBytes(b)
<1>1. n \in Nat /\ Len(x) \in Nat /\ Len(b.buffer_) \in Nat /\ ToStringView(b) \in Seq(Byte)
  BY View
<1>2. CASE Len(x) <= n
  <2>1. ReadFd(b, x) = Fill(b, x)
    BY <1>2 DEF ReadFd
  <2>2. /\ Fill(b, x) \in Buffers /\ ToStringView(Fill(b, x)) = ToStringView(b) \o x
        /\ Fill(b, x).readerIndex_ = b.readerIndex_ /\ Len(Fill(b, x).buffer_) = Len(b.buffer_)
        /\ ReadableBytes(Fill(b, x)) = ReadableBytes(b) + Len(x)
    BY <1>2, Filled
  <2> QED
    BY <1>1, <2>1, <2>2 DEF Longer
<1>3. CASE n < Len(x)
  <2> DEFINE u == SubSeq(x, 1, n)
             w == SubSeq(x, n + 1, Len(x))
             f == Fill(b, u)
             c == AppendBytes(f, w)
  <2>1. c = ReadFd(b, x)
    BY <1>1, <1>3 DEF ReadFd
  <2>2. u \o w = x
    <3> HIDE DEF n
    <3>1. n <= Len(x)
      BY <1>1, <1>3
    <3> QED
      BY <1>1, <3>1, Parts, Zenon
  <2>3. u \in Seq(Byte) /\ Len(u) = n
    BY <1>1, <1>3
  <2>4. w \in Seq(Byte) /\ Len(w) = Len(x) - n
    BY <1>1, <1>3, Cut
  <2> HIDE DEF u, w, n
  <2>5. /\ f \in Buffers /\ ToStringView(f) = ToStringView(b) \o u
        /\ f.readerIndex_ = b.readerIndex_ /\ Len(f.buffer_) = Len(b.buffer_)
        /\ ReadableBytes(f) = ReadableBytes(b) + Len(u)
    <3>1. Len(u) <= WritableBytes(b)
      BY <1>1, <2>3 DEF n
    <3> QED
      BY <2>3, <3>1, Filled
  <2> HIDE DEF f
  <2>6. Longer(f, w, c)
    BY <2>4, <2>5, Appended
  <2> HIDE DEF c
  <2>7. ToStringView(c) = ToStringView(b) \o x
    <3>1. ToStringView(c) = (ToStringView(b) \o u) \o w
      BY <2>5, <2>6 DEF Longer
    <3>2. (ToStringView(b) \o u) \o w = ToStringView(b) \o (u \o w)
      BY <1>1, <2>3, <2>4, Associative, ZenonT(40)
    <3> QED
      BY <2>2, <3>1, <3>2, Zenon
  <2>8. ReadableBytes(c) = ReadableBytes(b) + Len(x)
    <3>1. ReadableBytes(b) \in Nat
      BY View
    <3> QED
      BY <1>1, <2>3, <2>4, <2>5, <2>6, <3>1 DEF Longer
  <2>9. Longer(b, x, c)
    BY <2>5, <2>6, <2>7, <2>8 DEF Longer
  <2> QED
    BY <2>1, <2>9
<1> QED
  BY <1>1, <1>2, <1>3

(***************************************************************************)
(* The arguments and results of calls.                                     *)
(***************************************************************************)
\* The strings of a call are sequences of bytes ...
LEMMA StringsAreBytes ==
  ASSUME NEW x \in Q!Strings
  PROVE  x \in Seq(Byte)
BY Constants DEF Q!Strings

\* A digit is a byte.
LEMMA Digits ==
  ASSUME NEW x \in Int, NEW p \in Int, NEW q \in Int
  PROVE  ((x % p) \div q) % Base \in Byte
<1>1. ((x % p) \div q) % Base \in 0 .. (Base - 1)
  BY Constants
<1> QED
  BY <1>1 DEF Byte

\* ... and so is an integer in memory.
LEMMA IntegersAreStrings ==
  ASSUME NEW w \in Widths, NEW x \in Ints(w)
  PROVE  HostToNetwork(x, w) \in Q!Strings
<1>1. w \in Nat /\ w \in 0 .. MaxLen
  BY ConnBufferAssumption
<1>2. x \in Int
  <2>1. Base ^ w \in Int
    BY <1>1, Constants
  <2> QED
    BY <2>1 DEF Ints
<1>3. ASSUME NEW i \in 1 .. w PROVE ((x % Base ^ w) \div Base ^ (w - i)) % Base \in Byte
  <2> DEFINE p == Base ^ w
             q == Base ^ (w - i)
  <2>1. p \in Int /\ q \in Int
    BY <1>1, Constants
  <2> HIDE DEF p, q
  <2>2. ((x % p) \div q) % Base \in Byte
    BY <1>2, <2>1, Digits
  <2> QED
    BY <2>2 DEF p, q
<1>4. HostToNetwork(x, w) \in [1 .. w -> Byte]
  BY <1>3 DEF HostToNetwork
<1> QED
  BY <1>1, <1>4 DEF Q!Strings

\* A set of numbers that is not empty has a least element.
LEMMA MinOf ==
  ASSUME NEW S, S \subseteq Nat, S # {}
  PROVE  Min(S) \in S /\ \A y \in S : Min(S) <= y
<1>1. PICK x \in S : \A y \in S : ~(<<y, x>> \in OpToRel(<, Nat))
  BY NatLessThanWellFounded, WFMin, Zenon
<1>2. \A y \in S : y \in Nat /\ x \in Nat => ~(y < x)
  BY <1>1, Zenon DEF OpToRel
<1>3. x \in S
  BY <1>1, Zenon
<1>4. \A y \in S : x <= y
  BY <1>2, <1>3
<1> QED
  BY <1>3, <1>4, Zenon DEF Min

\* FindEol and FindCrlf find the end of the first mark.
LEMMA EndFound ==
  ASSUME buf \in Buffers, NEW mark \in Seq(Byte)
  PROVE  /\ Q!IsEndOf(EndOfLine(buf, mark), mark)
         /\ EndOfLine(buf, mark) \in 0 .. Len(ToStringView(buf))
<1> DEFINE d == ToStringView(buf)
           l == Len(mark)
           F == Found(buf, mark)
           E == {k \in l .. Len(d) : SubSeq(d, k - l + 1, k) = mark}
           n == EndOfLine(buf, mark)
<1>1. Len(d) \in Nat /\ l \in Nat
  BY View
<1>2. F = {i \in 0 .. (Len(d) - l) : SubSeq(d, i + 1, i + l) = mark}
  BY DEF Found
<1>3. n = IF F = {} THEN 0 ELSE Min(F) + l
  BY DEF EndOfLine
<1>4. Q!IsEndOf(n, mark) <=> IF E = {} THEN n = 0 ELSE n \in E /\ \A k \in E : n <= k
  BY Zenon DEF Q!IsEndOf
<1> HIDE DEF d, l, F, n
<1>5. ASSUME NEW i \in F PROVE i + l \in E /\ i \in Nat
  <2>1. i + l \in l .. Len(d) /\ i \in Nat /\ (i + l) - l = i
    BY <1>1, <1>2
  <2> QED
    BY <1>2, <2>1
<1>6. ASSUME NEW k \in E PROVE k - l \in F /\ k \in Nat
  <2>1. k - l \in 0 .. (Len(d) - l) /\ k \in Nat /\ (k - l) + l = k
    BY <1>1
  <2> QED
    BY <1>2, <2>1, Zenon
<1>7. \A k \in E : k \in 0 .. Len(d)
  BY <1>1
<1> HIDE DEF E
<1>8. CASE F = {}
  <2>1. E = {} /\ n = 0
    BY <1>3, <1>6, <1>8
  <2> QED
    BY <1>1, <1>4, <2>1 DEF n, d
<1>9. CASE F # {}
  <2>1. Min(F) \in F /\ \A i \in F : Min(F) <= i
    BY <1>5, <1>9, MinOf
  <2>2. n = Min(F) + l
    BY <1>3, <1>9
  <2>3. n \in E
    BY <1>5, <2>1, <2>2
  <2>4. ASSUME NEW k \in E PROVE n <= k
    <3>1. Min(F) <= k - l /\ Min(F) \in Nat /\ k \in Nat
      BY <1>5, <1>6, <2>1
    <3> QED
      BY <1>1, <2>2, <3>1
  <2>5. n \in 0 .. Len(d)
    BY <1>7, <2>3
  <2> QED
    BY <1>4, <2>3, <2>4, <2>5 DEF n, d
<1> QED
  BY <1>8, <1>9

(***************************************************************************)
(* The calls.                                                              *)
(***************************************************************************)
\* A call leaves a Buffer with room for its prepend area, does to the queue of bytes what it
\* should, and manages the room well.
CallDone == buf' \in Sized /\ Q!Next /\ PrependAreaKept /\ GrowsOnlyIfFull

\* Append, AppendInt and ReadFd.
LEMMA PutDone ==
  ASSUME buf \in Sized, NEW x \in Q!Strings, NEW op \in {"Append", "AppendInt", "ReadFd"},
         Longer(buf, x, buf'), call' = [op |-> op, arg |-> x, result |-> <<>>]
  PROVE  CallDone
<1>1. /\ buf \in Buffers /\ kCheapPrepend <= Len(buf.buffer_) /\ kCheapPrepend \in Nat
      /\ Len(buf.buffer_) \in Nat /\ buf.readerIndex_ \in Nat
  BY View, Constants DEF Sized
<1>2. buf' \in Buffers /\ Len(buf'.buffer_) \in Nat
  BY View DEF Longer
<1>3. buf' \in Sized
  BY <1>1, <1>2 DEF Longer, Sized
<1>4. Q!Put(op, x)
  BY DEF Q!Put, Q!Called, Longer
<1>5. PrependAreaKept
  BY <1>1 DEF PrependAreaKept, Longer
<1>6. GrowsOnlyIfFull
  BY DEF GrowsOnlyIfFull, Longer
<1> QED
  BY <1>3, <1>4, <1>5, <1>6 DEF CallDone, Q!Next

\* Prepend and PrependInt.
LEMMA PushDone ==
  ASSUME buf \in Sized, NEW x \in Q!Strings, NEW op \in {"Prepend", "PrependInt"},
         CallPrepend(op, x)
  PROVE  CallDone
<1>1. buf \in Buffers /\ kCheapPrepend <= Len(buf.buffer_)
  BY DEF Sized
<1>2. call' = [op |-> op, arg |-> x, result |-> <<>>] /\ Len(x) <= PrependableBytes(buf)
  BY DEF CallPrepend
<1>3. /\ buf' \in Buffers /\ ToStringView(buf') = x \o ToStringView(buf)
      /\ Len(buf'.buffer_) = Len(buf.buffer_)
  BY <1>1, <1>2, StringsAreBytes, Prepended DEF CallPrepend
<1>4. buf' \in Sized
  BY <1>1, <1>3 DEF Sized
<1>5. Q!Push(op, x)
  BY <1>2, <1>3 DEF Q!Push, Q!Called
<1>6. PrependAreaKept /\ GrowsOnlyIfFull
  BY <1>2 DEF PrependAreaKept, GrowsOnlyIfFull
<1> QED
  BY <1>4, <1>5, <1>6 DEF CallDone, Q!Next

\* RetrieveAsString, ReadInt, and Retrieve up to what FindEol or FindCrlf found.
LEMMA TakeDone ==
  ASSUME buf \in Sized, NEW len \in Nat,
         NEW op \in {"RetrieveAsString", "ReadInt", "FindEol", "FindCrlf"}, CallRetrieve(op, len),
         op = "FindEol" => Q!IsEndOf(len, <<LF>>), op = "FindCrlf" => Q!IsEndOf(len, <<CR, LF>>)
  PROVE  CallDone
<1>1. buf \in Buffers /\ kCheapPrepend <= Len(buf.buffer_) /\ Len(buf.buffer_) \in Nat
  BY View DEF Sized
<1>2. len \in 0 .. Len(ToStringView(buf))
  BY <1>1, View DEF CallRetrieve
<1>3. call' = [op |-> op, arg |-> len, result |-> SubSeq(ToStringView(buf), 1, len)]
  BY DEF CallRetrieve
<1>4. /\ buf' \in Buffers
      /\ ToStringView(buf') = SubSeq(ToStringView(buf), len + 1, Len(ToStringView(buf)))
      /\ Len(buf'.buffer_) = Len(buf.buffer_)
      /\ buf'.readerIndex_ >= buf.readerIndex_ \/ buf'.readerIndex_ >= kCheapPrepend
  BY Retrieved DEF CallRetrieve
<1>5. buf' \in Sized
  BY <1>1, <1>4 DEF Sized
<1>6. Q!Take(op, len)
  BY <1>3, <1>4 DEF Q!Take, Q!Called
<1>7. PrependAreaKept /\ GrowsOnlyIfFull
  BY <1>1, <1>4 DEF PrependAreaKept, GrowsOnlyIfFull
<1>8. Q!Next
  BY <1>2, <1>6 DEF Q!Next
<1> QED
  BY <1>5, <1>7, <1>8 DEF CallDone

\* Unwrite.
LEMMA ChopDone ==
  ASSUME buf \in Sized, NEW len \in Nat, len <= ReadableBytes(buf), buf' = Unwrite(buf, len),
         call' = [op |-> "Unwrite", arg |-> len, result |-> <<>>]
  PROVE  CallDone
<1>1. /\ buf \in Buffers /\ kCheapPrepend <= Len(buf.buffer_) /\ Len(buf.buffer_) \in Nat
      /\ buf.readerIndex_ \in Nat
  BY View DEF Sized
<1>2. len \in 0 .. Len(ToStringView(buf))
  BY <1>1, View
<1>3. /\ buf' \in Buffers
      /\ ToStringView(buf') = SubSeq(ToStringView(buf), 1, Len(ToStringView(buf)) - len)
      /\ Len(buf'.buffer_) = Len(buf.buffer_) /\ buf'.readerIndex_ = buf.readerIndex_
  BY <1>1, Unwritten
<1>4. buf' \in Sized
  BY <1>1, <1>3 DEF Sized
<1>5. Q!Chop("Unwrite", len)
  BY <1>3 DEF Q!Chop, Q!Called
<1>6. PrependAreaKept /\ GrowsOnlyIfFull
  BY <1>1, <1>3 DEF PrependAreaKept, GrowsOnlyIfFull
<1>7. Q!Next
  BY <1>2, <1>5 DEF Q!Next
<1> QED
  BY <1>4, <1>6, <1>7 DEF CallDone

\* EnsureWritableBytes and Shrink.
LEMMA ResizeDone ==
  ASSUME buf \in Sized, NEW len \in 0 .. MaxLen, NEW op \in {"EnsureWritableBytes", "Shrink"},
         buf' = IF op = "Shrink" THEN Shrink(buf, len) ELSE EnsureWritableBytes(buf, len),
         call' = [op |-> op, arg |-> len, result |-> <<>>]
  PROVE  CallDone
<1>1. /\ buf \in Buffers /\ kCheapPrepend <= Len(buf.buffer_) /\ Len(buf.buffer_) \in Nat
      /\ buf.readerIndex_ \in Nat /\ kCheapPrepend \in Nat /\ len \in Nat
  BY View, Constants DEF Sized
<1>2. /\ buf' \in Sized /\ ToStringView(buf') = ToStringView(buf)
      /\ buf'.readerIndex_ = buf.readerIndex_ \/ buf'.readerIndex_ = kCheapPrepend
  <2>1. CASE op = "Shrink"
    BY <1>1, <2>1, Shrunk
  <2>2. CASE op # "Shrink"
    <3>1. Roomier(buf, len, buf')
      BY <1>1, <2>2, Ensured
    <3>2. buf' \in Buffers /\ Len(buf'.buffer_) \in Nat
      BY <3>1, View DEF Roomier
    <3> QED
      BY <1>1, <3>1, <3>2 DEF Roomier, Sized
  <2> QED
    BY <2>1, <2>2
<1>3. Q!Resize(op, len)
  BY <1>2 DEF Q!Resize, Q!Called
<1>4. PrependAreaKept /\ GrowsOnlyIfFull
  BY <1>1, <1>2 DEF PrependAreaKept, GrowsOnlyIfFull
<1> QED
  BY <1>2, <1>3, <1>4 DEF CallDone, Q!Next

\* Every call is one of these.
LEMMA EveryCall ==
  ASSUME buf \in Sized, Next
  PROVE  CallDone
<1>0. buf \in Buffers
  BY DEF Sized
<1>1. ASSUME NEW x \in Q!Strings, CallWrite("Append", x) PROVE CallDone
  BY <1>0, <1>1, StringsAreBytes, Appended, PutDone, Zenon DEF CallWrite
<1>2. ASSUME NEW x \in Q!Strings, CallPrepend("Prepend", x) PROVE CallDone
  BY <1>2, PushDone
<1>3. ASSUME NEW x \in Q!Strings, buf' = ReadFd(buf, x),
             call' = [op |-> "ReadFd", arg |-> x, result |-> <<>>]
      PROVE  CallDone
  BY <1>0, <1>3, StringsAreBytes, ReadIn, PutDone, Zenon
<1>4. ASSUME NEW w \in Widths, NEW x \in Ints(w), CallWrite("AppendInt", HostToNetwork(x, w))
      PROVE  CallDone
  <2> DEFINE y == HostToNetwork(x, w)
  <2>1. y \in Q!Strings
    BY IntegersAreStrings
  <2> HIDE DEF y
  <2>2. CallWrite("AppendInt", y)
    BY <1>4 DEF y
  <2> QED
    BY <1>0, <2>1, <2>2, StringsAreBytes, Appended, PutDone, Zenon DEF CallWrite
<1>5. ASSUME NEW w \in Widths, NEW x \in Ints(w), CallPrepend("PrependInt", HostToNetwork(x, w))
      PROVE  CallDone
  BY <1>5, IntegersAreStrings, PushDone
<1>6. ASSUME NEW w \in Widths, CallRetrieve("ReadInt", w) PROVE CallDone
  <2>1. w \in Nat
    BY ConnBufferAssumption
  <2> QED
    BY <1>6, <2>1, TakeDone
<1>7. ASSUME NEW len \in 0 .. ReadableBytes(buf), CallRetrieve("RetrieveAsString", len)
      PROVE  CallDone
  <2>1. len \in Nat
    BY <1>0, View
  <2> QED
    BY <1>7, <2>1, TakeDone
<1>8. ASSUME CallRetrieve("FindEol", EndOfLine(buf, <<LF>>)) PROVE CallDone
  <2> DEFINE n == EndOfLine(buf, <<LF>>)
  <2>1. <<LF>> \in Seq(Byte)
    BY Constants
  <2>2. Q!IsEndOf(n, <<LF>>) /\ n \in 0 .. Len(ToStringView(buf))
    BY <1>0, <2>1, EndFound, Zenon
  <2> HIDE DEF n
  <2>3. n \in Nat /\ CallRetrieve("FindEol", n)
    BY <1>8, <2>2 DEF n
  <2> QED
    BY <2>2, <2>3, TakeDone
<1>9. ASSUME CallRetrieve("FindCrlf", EndOfLine(buf, <<CR, LF>>)) PROVE CallDone
  <2> DEFINE n == EndOfLine(buf, <<CR, LF>>)
  <2>1. <<CR, LF>> \in Seq(Byte)
    BY Constants
  <2>2. Q!IsEndOf(n, <<CR, LF>>) /\ n \in 0 .. Len(ToStringView(buf))
    BY <1>0, <2>1, EndFound, Zenon
  <2> HIDE DEF n
  <2>3. n \in Nat /\ CallRetrieve("FindCrlf", n)
    BY <1>9, <2>2 DEF n
  <2> QED
    BY <2>2, <2>3, TakeDone
<1>10. ASSUME NEW len \in 0 .. MaxLen, len <= ReadableBytes(buf), buf' = Unwrite(buf, len),
              call' = [op |-> "Unwrite", arg |-> len, result |-> <<>>]
       PROVE  CallDone
  BY <1>10, ChopDone
<1>11. ASSUME NEW len \in 0 .. MaxLen, buf' = EnsureWritableBytes(buf, len),
              call' = [op |-> "EnsureWritableBytes", arg |-> len, result |-> <<>>]
       PROVE  CallDone
  BY <1>11, ResizeDone, Zenon
<1>12. ASSUME NEW len \in 0 .. MaxLen, buf' = Shrink(buf, len),
              call' = [op |-> "Shrink", arg |-> len, result |-> <<>>]
       PROVE  CallDone
  BY <1>12, ResizeDone, Zenon
<1> QED
  BY <1>1, <1>2, <1>3, <1>4, <1>5, <1>6, <1>7, <1>8, <1>9, <1>10, <1>11, <1>12, Zenon DEF Next

\* The inductive invariant: the buffer is one with room for its prepend area, which RetrieveAll
\* relies on.
BufferInv == buf \in Sized

\* It holds.
LEMMA BufferInvHolds == Spec => []BufferInv
<1>1. Init => BufferInv
  <2> SUFFICES ASSUME Init PROVE BufferInv
    OBVIOUS
  <2>1. /\ NewBuffer(kInitialSize) \in Buffers
        /\ Len(NewBuffer(kInitialSize).buffer_) = kCheapPrepend + kInitialSize
    BY NewOne, Constants
  <2> QED
    BY <2>1, Constants DEF Init, BufferInv, Sized
<1>2. BufferInv /\ [Next]_vars => BufferInv'
  BY EveryCall DEF CallDone, vars, BufferInv
<1> QED
  BY <1>1, <1>2, PTL DEF Spec

\* Whatever calls come in whatever order, the indexes stay in order and within the vector, and
\* the asserts of MakeSpace and EnsureWritableBytes hold for every length asked for.
THEOREM BufferStaysSound == Spec => []BufferAsserts
<1>1. BufferInv => BufferAsserts
  <2> SUFFICES ASSUME BufferInv PROVE BufferAsserts
    OBVIOUS
  <2>1. buf \in Buffers
    BY DEF BufferInv, Sized
  <2>2. ASSUME NEW len \in 0 .. MaxLen
        PROVE  /\ WritableBytes(buf) < len => MustGrow(buf, len) \/ kCheapPrepend < buf.readerIndex_
               /\ WritableBytes(EnsureWritableBytes(buf, len)) >= len
    <3>1. len \in Nat
      BY Constants
    <3> QED
      BY <2>1, <3>1, Ensured DEF Roomier
  <2> QED
    BY <2>1, <2>2 DEF BufferAsserts, TypeOK, MakeSpaceAsserts
<1> QED
  BY <1>1, BufferInvHolds, PTL

\* Only Prepend eats into the prepend area, and the vector grows only when the readable bytes
\* and the prepend area would not fit in it.
THEOREM RoomIsManaged == Spec => SpaceManaged
<1>1. BufferInv /\ [Next]_vars => [PrependAreaKept /\ GrowsOnlyIfFull]_vars
  BY EveryCall DEF CallDone, BufferInv
<1> QED
  BY <1>1, BufferInvHolds, PTL DEF Spec, SpaceManaged

\* The buffer implements a queue of bytes: through moving, growing, shrinking and reading beyond
\* its end, every call adds, takes and returns the bytes it should.
THEOREM ImplementsByteQueue == Spec => IsByteQueue
<1>1. Init => Q!Init
  BY NewOne, Constants DEF Init, Q!Init
<1>2. BufferInv /\ [Next]_vars => [Q!Next]_Q!vars
  <2> SUFFICES ASSUME BufferInv, [Next]_vars PROVE [Q!Next]_Q!vars
    OBVIOUS
  <2>1. CASE Next
    BY <2>1, EveryCall DEF CallDone, BufferInv
  <2>2. CASE UNCHANGED vars
    BY <2>2 DEF vars, Q!vars
  <2> QED
    BY <2>1, <2>2
<1> QED
  BY <1>1, <1>2, BufferInvHolds, PTL DEF Spec, IsByteQueue, Q!Spec
==============================================================================
