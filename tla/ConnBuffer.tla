----------------------------- MODULE ConnBuffer -----------------------------
(***************************************************************************)
(* Buffer (src/src/file/ConnBuffer.h, ConnBuffer.cc), the input and output *)
(* buffer of a connection:                                                 *)
(*                                                                         *)
(*   | prependable |    readable    |  writable  |                         *)
(*   0      <=  readerIndex_ <= writerIndex_ <= size                       *)
(*                                                                         *)
(* A Buffer is a record, a member function an operator from Buffers to     *)
(* Buffers, and a call of a public one a step.  Asserts are conjuncts of   *)
(* the steps.  Pointers into the buffer are offsets.                       *)
(***************************************************************************)
EXTENDS Integers, Sequences, FiniteSetsExt

CONSTANTS kCheapPrepend, kInitialSize,
          extrabuf,       (* 65536: bytes ReadFd reads beyond the buffer    *)
          Base,           (* 256: how many values a byte has                *)
          CR, LF,
          Widths,         (* {1, 2, 4, 8}: sizes of integers                *)
          MaxLen,         (* bound: bytes in one call                       *)
          MaxSize         (* bound: size of the buffer                      *)

Byte == 0 .. (Base - 1)

ASSUME ConnBufferAssumption ==
    /\ {kCheapPrepend, kInitialSize, extrabuf, MaxLen, MaxSize} \subseteq Nat
    /\ Base \in Nat \ {0, 1} /\ {CR, LF} \subseteq Byte
    /\ Widths \subseteq 1 .. MaxLen

VARIABLES buf,    (* the Buffer                                             *)
          call,   (* the last call: its name, argument and result           *)
          int     (* history: the last integer put in: where and what it is *)

vars == <<buf, call, int>>

NewBuffer(initialSize) ==
    [buffer_ |-> [i \in 1 .. (kCheapPrepend + initialSize) |-> 0],
     readerIndex_ |-> kCheapPrepend, writerIndex_ |-> kCheapPrepend]

ReadableBytes(b) == b.writerIndex_ - b.readerIndex_
WritableBytes(b) == Len(b.buffer_) - b.writerIndex_
PrependableBytes(b) == b.readerIndex_

\* The readable bytes: ToStringView.
ToStringView(b) == SubSeq(b.buffer_, b.readerIndex_ + 1, b.writerIndex_)

\* std::copy of bytes to offset at.
Copy(bytes, s, at) ==
    [i \in 1 .. Len(s) |-> IF i \in (at + 1) .. (at + Len(bytes)) THEN bytes[i - at] ELSE s[i]]

\* vector::resize to a larger size.
Resize(s, size) == [i \in 1 .. size |-> IF i <= Len(s) THEN s[i] ELSE 0]

(***************************************************************************)
(* Writing.                                                                *)
(***************************************************************************)
MustGrow(b, len) == WritableBytes(b) + PrependableBytes(b) < len + kCheapPrepend

\* Mutant: the prepend area is taken for free space.
MakeSpaceGreedy(b, len) ==
    IF WritableBytes(b) + PrependableBytes(b) < len
    THEN [b EXCEPT !.buffer_ = Resize(@, b.writerIndex_ + len)]
    ELSE [buffer_ |-> Copy(ToStringView(b), b.buffer_, kCheapPrepend),
          readerIndex_ |-> kCheapPrepend,
          writerIndex_ |-> kCheapPrepend + ReadableBytes(b)]

\* The readable data is moved to the front if that makes enough room.
MakeSpace(b, len) ==
    IF MustGrow(b, len)
    THEN [b EXCEPT !.buffer_ = Resize(@, b.writerIndex_ + len)]
    ELSE [buffer_ |-> Copy(ToStringView(b), b.buffer_, kCheapPrepend),
          readerIndex_ |-> kCheapPrepend,
          writerIndex_ |-> kCheapPrepend + ReadableBytes(b)]

EnsureWritableBytes(b, len) == IF WritableBytes(b) < len THEN MakeSpace(b, len) ELSE b

HasWritten(b, len) == [b EXCEPT !.writerIndex_ = @ + len]

\* Bytes are put where there is room for them, at BeginWrite().
Fill(b, bytes) == HasWritten([b EXCEPT !.buffer_ = Copy(bytes, @, b.writerIndex_)], Len(bytes))

AppendBytes(b, bytes) == Fill(EnsureWritableBytes(b, Len(bytes)), bytes)

Unwrite(b, len) == [b EXCEPT !.writerIndex_ = @ - len]

Prepend(b, bytes) ==
    LET moved == [b EXCEPT !.readerIndex_ = @ - Len(bytes)]
    IN  [moved EXCEPT !.buffer_ = Copy(bytes, @, moved.readerIndex_)]

\* A new Buffer is filled and swapped with this one.
Shrink(b, reserve) ==
    AppendBytes(EnsureWritableBytes(NewBuffer(kInitialSize), ReadableBytes(b) + reserve),
                ToStringView(b))

\* Mutant: what went to extrabuf is appended behind a gap or a cut.
ReadFdMisplaces(b, bytes) ==
    LET writable == WritableBytes(b)
    IN  IF Len(bytes) <= writable
        THEN Fill(b, bytes)
        ELSE AppendBytes(b, SubSeq(bytes, writable + 1, Len(bytes)))

\* ReadFd after readv has put bytes in the buffer's end and, if there are more,
\* in extrabuf: then the writerIndex_ is at the buffer's size, and they are appended.
ReadFd(b, bytes) ==
    LET writable == WritableBytes(b)
    IN  IF Len(bytes) <= writable
        THEN Fill(b, bytes)
        ELSE AppendBytes(Fill(b, SubSeq(bytes, 1, writable)),
                         SubSeq(bytes, writable + 1, Len(bytes)))

\* How many bytes readv may return.
ReadLimit(b) == WritableBytes(b) + IF WritableBytes(b) < extrabuf THEN extrabuf ELSE 0

(***************************************************************************)
(* Reading.                                                                *)
(***************************************************************************)
\* Mutant: the prepend area is not set up again.
RetrieveAllToStart(b) == [b EXCEPT !.readerIndex_ = 0, !.writerIndex_ = 0]

RetrieveAll(b) == [b EXCEPT !.readerIndex_ = kCheapPrepend, !.writerIndex_ = kCheapPrepend]

Retrieve(b, len) ==
    IF len < ReadableBytes(b) THEN [b EXCEPT !.readerIndex_ = @ + len] ELSE RetrieveAll(b)

\* std::search and memchr: the offsets from Peek() at which mark is found.
Found(b, mark) ==
    LET bytes == ToStringView(b)
    IN  {i \in 0 .. (Len(bytes) - Len(mark)) : SubSeq(bytes, i + 1, i + Len(mark)) = mark}

\* Up to where RetrieveUntil takes a line: the end of the first mark that FindEol or
\* FindCrlf finds, or Peek() if they find none.
EndOfLine(b, mark) == IF Found(b, mark) = {} THEN 0 ELSE Min(Found(b, mark)) + Len(mark)

(***************************************************************************)
(* Integers of w bytes, in network byte order.                             *)
(***************************************************************************)
Ints(w) == LET half == Base ^ w \div 2 IN (-half) .. (Base ^ w - half - 1)

\* The bytes in memory of HostToNetwork(x).
HostToNetwork(x, w) == [i \in 1 .. w |-> ((x % Base ^ w) \div Base ^ (w - i)) % Base]

\* NetworkToHost of bytes in memory.
NetworkToHost(bytes) ==
    LET w == Len(bytes)
        u[n \in 0 .. w] == IF n = 0 THEN 0 ELSE u[n - 1] * Base + bytes[n]
    IN  IF u[w] \in Ints(w) THEN u[w] ELSE u[w] - Base ^ w

\* Mutant: the integer is copied from Begin() instead of Peek().
PeekIntOfBegin(b, w) == NetworkToHost(SubSeq(b.buffer_, 1, w))

\* PeekInt64 to PeekInt8, and what ReadInt64 to ReadInt8 return.
PeekInt(b, w) == NetworkToHost(SubSeq(ToStringView(b), 1, w))

(***************************************************************************)
(* The calls.                                                              *)
(***************************************************************************)
Q == INSTANCE ByteQueue WITH data <- ToStringView(buf)

NoInt == [at |-> 0, w |-> 0, x |-> 0]

\* What is followed when n bytes come, or -n go, in front of it: the integer, unless some
\* of its bytes are gone.
Shifted(n) ==
    IF int.w > 0 /\ int.at + n >= 0 /\ int.at + n + int.w <= ReadableBytes(buf')
    THEN [int EXCEPT !.at = @ + n] ELSE NoInt

Init ==
    /\ buf = NewBuffer(kInitialSize)
    /\ call = [op |-> "none", arg |-> <<>>, result |-> <<>>]
    /\ int = NoInt

CallWrite(op, bytes) ==
    /\ buf' = AppendBytes(buf, bytes)
    /\ call' = [op |-> op, arg |-> bytes, result |-> <<>>]

CallPrepend(op, bytes) ==
    /\ Len(bytes) <= PrependableBytes(buf)
    /\ buf' = Prepend(buf, bytes)
    /\ call' = [op |-> op, arg |-> bytes, result |-> <<>>]

CallRetrieve(op, len) ==
    /\ len <= ReadableBytes(buf)
    /\ buf' = Retrieve(buf, len)
    /\ call' = [op |-> op, arg |-> len, result |-> SubSeq(ToStringView(buf), 1, len)]
    /\ int' = Shifted(-len)

Next ==
    /\ \/ \E bytes \in Q!Strings :
             \/ CallPrepend("Prepend", bytes) /\ int' = Shifted(Len(bytes))
             \/ /\ \/ CallWrite("Append", bytes)
                   \/ /\ Len(bytes) <= ReadLimit(buf)
                      /\ buf' = ReadFd(buf, bytes)
                      /\ call' = [op |-> "ReadFd", arg |-> bytes, result |-> <<>>]
                /\ int' = Shifted(0)
       \/ \E w \in Widths : \E x \in Ints(w) :
             \/ /\ CallWrite("AppendInt", HostToNetwork(x, w))
                /\ int' = [at |-> ReadableBytes(buf), w |-> w, x |-> x]
             \/ /\ CallPrepend("PrependInt", HostToNetwork(x, w))
                /\ int' = [at |-> 0, w |-> w, x |-> x]
       \/ \E w \in Widths : CallRetrieve("ReadInt", w)
       \/ \E len \in 0 .. ReadableBytes(buf) : CallRetrieve("RetrieveAsString", len)
       \/ CallRetrieve("FindEol", EndOfLine(buf, <<LF>>))
       \/ CallRetrieve("FindCrlf", EndOfLine(buf, <<CR, LF>>))
       \/ \E len \in 0 .. MaxLen :
             /\ \/ /\ len <= ReadableBytes(buf)
                   /\ buf' = Unwrite(buf, len)
                   /\ call' = [op |-> "Unwrite", arg |-> len, result |-> <<>>]
                \/ /\ buf' = EnsureWritableBytes(buf, len)
                   /\ call' = [op |-> "EnsureWritableBytes", arg |-> len, result |-> <<>>]
                \/ /\ buf' = Shrink(buf, len)
                   /\ call' = [op |-> "Shrink", arg |-> len, result |-> <<>>]
             /\ int' = Shifted(0)
    /\ Len(buf'.buffer_) <= MaxSize

Spec == Init /\ [][Next]_vars
-----------------------------------------------------------------------------
\* Its bytes are bytes and its indexes are in order.
Buffers ==
    {b \in [buffer_ : Seq(Byte), readerIndex_ : Nat, writerIndex_ : Nat] :
        b.readerIndex_ <= b.writerIndex_ /\ b.writerIndex_ <= Len(b.buffer_)}

\* The buffer is one.
TypeOK == buf \in Buffers

\* The asserts of MakeSpace and EnsureWritableBytes, in any state and for any length:
\* data is only moved towards the front, and there is room afterwards.
MakeSpaceAsserts ==
    \A len \in 0 .. MaxLen :
        /\ WritableBytes(buf) < len => MustGrow(buf, len) \/ kCheapPrepend < buf.readerIndex_
        /\ WritableBytes(EnsureWritableBytes(buf, len)) >= len

\* The indexes stay in order and the asserts of EnsureWritableBytes and MakeSpace hold.
BufferAsserts == TypeOK /\ MakeSpaceAsserts

\* Whatever the buffer does with its indexes, moving, growing, shrinking or reading
\* beyond its end, its readable bytes are a queue: what each call adds, takes and
\* returns is what it should.
IsByteQueue == Q!Spec

\* An integer that AppendInt or PrependInt put in is what ReadInt returns when its turn
\* comes, of the right sign: whatever is written, prepended, read and taken back around it,
\* and wherever MakeSpace and Shrink move it meanwhile.
IntegersSurvive == int.w > 0 => PeekInt(Retrieve(buf, int.at), int.w) = int.x

\* Only Prepend eats into the prepend area: no other call leaves less of it than
\* there was, or than kCheapPrepend.
PrependAreaKept ==
    call'.op \notin {"Prepend", "PrependInt"} =>
        buf'.readerIndex_ >= buf.readerIndex_ \/ buf'.readerIndex_ >= kCheapPrepend

\* The buffer grows only if its data and the prepend area would not fit otherwise.
GrowsOnlyIfFull ==
    Len(buf'.buffer_) > Len(buf.buffer_) /\ call'.op \in {"Append", "AppendInt", "ReadFd"} =>
        kCheapPrepend + ReadableBytes(buf') > Len(buf.buffer_)

\* MakeSpace and Retrieve manage the room well: the prepend area is kept for Prepend, and
\* memory is asked for only when it is needed.
SpaceManaged == [][PrependAreaKept /\ GrowsOnlyIfFull]_vars
=============================================================================
