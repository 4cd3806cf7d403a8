----------------------------- MODULE ByteQueue -----------------------------
(***************************************************************************)
(* What the connection buffer promises: a queue of bytes that grows and    *)
(* shrinks at both ends.  The last call, with its argument and its result, *)
(* is part of the state.                                                   *)
(***************************************************************************)
EXTENDS Integers, Sequences

CONSTANTS Byte, CR, LF,
          MaxLen     (* bound: bytes in one call                            *)

VARIABLES data, call

vars == <<data, call>>

Strings == UNION {[1 .. n -> Byte] : n \in 0 .. MaxLen}

\* n is the end of the first occurrence of mark, or 0 if there is none.
IsEndOf(n, mark) ==
    LET ends == {k \in Len(mark) .. Len(data) : SubSeq(data, k - Len(mark) + 1, k) = mark}
    IN  IF ends = {} THEN n = 0 ELSE n \in ends /\ \A k \in ends : n <= k

Called(op, arg, result) == call' = [op |-> op, arg |-> arg, result |-> result]

Init == data = <<>> /\ call = [op |-> "none", arg |-> <<>>, result |-> <<>>]

\* Bytes are added at the end ...
Put(op, bytes) == Called(op, bytes, <<>>) /\ data' = data \o bytes

\* ... or at the front.
Push(op, bytes) == Called(op, bytes, <<>>) /\ data' = bytes \o data

\* The first n bytes are taken away and returned.
Take(op, n) == Called(op, n, SubSeq(data, 1, n)) /\ data' = SubSeq(data, n + 1, Len(data))

\* The last n bytes are thrown away.
Chop(op, n) == Called(op, n, <<>>) /\ data' = SubSeq(data, 1, Len(data) - n)

\* Room is made, or given back.
Resize(op, n) == Called(op, n, <<>>) /\ UNCHANGED data

Next ==
    \/ \E bytes \in Strings :
          \/ \E op \in {"Append", "AppendInt", "ReadFd"} : Put(op, bytes)
          \/ \E op \in {"Prepend", "PrependInt"} : Push(op, bytes)
    \/ \E n \in 0 .. Len(data) :
          \/ \E op \in {"RetrieveAsString", "ReadInt"} : Take(op, n)
          \/ Take("FindEol", n) /\ IsEndOf(n, <<LF>>)
          \/ Take("FindCrlf", n) /\ IsEndOf(n, <<CR, LF>>)
          \/ Chop("Unwrite", n)
    \/ \E n \in 0 .. MaxLen : Resize("EnsureWritableBytes", n) \/ Resize("Shrink", n)

Spec == Init /\ [][Next]_vars
=============================================================================
