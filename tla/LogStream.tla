----------------------------- MODULE LogStream -----------------------------
(***************************************************************************)
(* LogStream (src/src/log/LogStream.cc) and the line of a Logger: how      *)
(* integers become text, and what becomes of a line that is too long for   *)
(* its buffer.  These are functions; their input is chosen at the start.   *)
(***************************************************************************)
EXTENDS Integers, SequencesExt

CONSTANTS SIZE,             (* kSmallSize: bytes of a SizedBuffer           *)
          kMaxNumericSize,  (* room asked for before a number is formatted  *)
          MaxPieces         (* bound: what a user puts in a line            *)

VARIABLE input              (* an integer or a line                         *)

(***************************************************************************)
(* Convert and ConvertHex.  A string is a sequence of digits, with minus   *)
(* for '-'.                                                                *)
(***************************************************************************)
minus == -1
digits == <<9, 8, 7, 6, 5, 4, 3, 2, 1, 0, 1, 2, 3, 4, 5, 6, 7, 8, 9>>
zero(i) == digits[i + 10]

\* Division in C++ rounds towards zero, and the remainder has the sign of a.
Quotient(a, b) == IF a < 0 /\ a % b # 0 THEN a \div b + 1 ELSE a \div b
Remainder(a, b) == a - b * Quotient(a, b)

RECURSIVE Lsds(_)
\* The do-while loop of Convert: the digits of i, least significant first.
Lsds(i) ==
    <<zero(Remainder(i, 10))>> \o
    IF Quotient(i, 10) = 0 THEN <<>> ELSE Lsds(Quotient(i, 10))

\* Mutant: the sign is tested after the loop, on what is left of the value.
ConvertNoSign(value) == Reverse(Lsds(value))

Convert(value) == Reverse(Lsds(value) \o IF value < 0 THEN <<minus>> ELSE <<>>)

RECURSIVE ConvertHex(_)
ConvertHex(value) ==
    (IF value \div 16 = 0 THEN <<>> ELSE ConvertHex(value \div 16)) \o <<value % 16>>

(***************************************************************************)
(* FormatSi and FormatIec: value / 10^decimals, and letters for the unit.  *)
(* printf rounds to the nearest; of a tie, the double may lie on either    *)
(* side.  Steps are [below, decimals, unit, letters], with thresholds that *)
(* are not integers rounded up.                                            *)
(***************************************************************************)
Rounded(a, b) == {q \in {a \div b, a \div b + 1} : 2 * (q * b - a) \in (-b) .. b}

Text(values, decimals, letters) ==
    {[value |-> v, decimals |-> decimals, letters |-> letters] : v \in values}

Step(below, decimals, unit) == [below |-> below, decimals |-> decimals, unit |-> unit]

SiSteps ==
    << Step(9995, 2, 10^3), Step(99950, 1, 10^3), Step(999500, 0, 10^3),
       Step(9995000, 2, 10^6), Step(99950000, 1, 10^6), Step(999500000, 0, 10^6) >>

IecSteps ==
    << Step(10235, 2, 1024), Step(102349, 1, 1024), Step(1048064, 0, 1024),
       Step(10480518, 2, 1024^2), Step(104805172, 1, 1024^2), Step(1073217536, 0, 1024^2) >>

\* The step of the first branch whose condition holds.
StepOf(s, steps) == steps[Min({i \in DOMAIN steps : s < steps[i].below})]

FormatSi(s) ==
    IF s < 1000 THEN Text({s}, 0, 0)
    ELSE LET step == StepOf(s, SiSteps)
         IN  Text(Rounded(s, step.unit \div 10^step.decimals), step.decimals, 1)

FormatIec(s) ==
    IF s < 1024 THEN Text({s}, 0, 0)
    ELSE LET step == StepOf(s, IecSteps)
         IN  Text(Rounded(s * 10^step.decimals, step.unit), step.decimals, 2)

Length(text) ==
    Len(Convert(text.value)) + text.letters + IF text.decimals > 0 THEN 1 ELSE 0

(***************************************************************************)
(* A line: pieces of text and numbers, put into a SizedBuffer.             *)
(***************************************************************************)
piece(kind, len) == [kind |-> kind, len |-> len]
EmptyBuffer == [cur_ |-> 0, pieces |-> <<>>]
Avail(b) == SIZE - b.cur_
Add(b, p) == [cur_ |-> b.cur_ + p.len, pieces |-> Append(b.pieces, p.kind)]

\* SizedBuffer::Append: all of the text or nothing.
AppendText(b, p) == IF Avail(b) > p.len THEN Add(b, p) ELSE b

\* FormatInteger, and the operators << for pointers and doubles.
FormatNumber(b, p) == IF Avail(b) >= kMaxNumericSize THEN Add(b, p) ELSE b

Put(b, p) == IF p.kind = "number" THEN FormatNumber(b, p) ELSE AppendText(b, p)

\* What the constructor of Logger::Impl puts in a line: time, thread and level.  The
\* text of errno and the function's name, if any, are pieces like the user's.
Header == <<piece("time", 1), piece("tid", 1), piece("level", 1)>>

\* Finish: " - ", the file, ':', the line's number and '\n'.
Finish == <<piece("-", 1), piece("file", 2), piece(":", 1), piece("number", 1), piece("\n", 1)>>

\* The buffer that ~Logger gives to the output function.
Line(user) == FoldLeft(Put, EmptyBuffer, Header \o user \o Finish)

(***************************************************************************)
(* The inputs: integers, among them those near a threshold, and lines.     *)
(***************************************************************************)
Near(n) == {k \in (n - 6) .. (n + 6) : k >= 0}

Numbers ==
    LET steps == SiSteps \o IecSteps
    IN  (-1100) .. 1100 \cup {-2147483647 - 1, -2147483647, 2147483647}
        \cup UNION {Near(steps[i].below) \cup Near(steps[i].below \div 10) : i \in DOMAIN steps}

Users ==
    LET pieces == {piece("text", 1), piece("text", 3), piece("number", 1), piece("number", kMaxNumericSize - 1)}
    IN  UNION {[1 .. n -> pieces] : n \in 0 .. MaxPieces}

Init == input \in [number : Numbers] \cup [line : Users]
-----------------------------------------------------------------------------
\* A text has the sign of v and the digits of -|v|, which does not overflow.
HasValue(text, v) ==
    LET ds == SelectSeq(text, LAMBDA d : d # minus)
    IN  /\ text[1] = minus <=> v < 0
        /\ FoldLeft(LAMBDA a, d : 10 * a - d, 0, ds) = IF v < 0 THEN v ELSE -v

\* Convert writes the decimal form of every integer, the least one included, whose
\* negation would overflow: the digits have its value, no zero leads, and there is room
\* for them.  ConvertHex writes the hexadecimal one.
ConvertIsDecimal ==
    "number" \in DOMAIN input =>
        LET v == input.number
        IN  /\ HasValue(Convert(v), v)
            /\ Convert(v)[1] # 0 \/ v = 0
            /\ Len(Convert(v)) < kMaxNumericSize
            /\ v >= 0 => /\ FoldLeft(LAMBDA a, d : 16 * a + d, 0, ConvertHex(v)) = v
                         /\ ConvertHex(v)[1] # 0 \/ v = 0

\* The thresholds of FormatSi and FormatIec allow for the rounding that printf does: the
\* text never has more than three digits (four for 1000 to 1023 with FormatIec), and so
\* fits in a column of five, or six.
FormatsFit ==
    "number" \in DOMAIN input /\ input.number >= 0 =>
        LET s == input.number
        IN  /\ s < Last(SiSteps).below => \A t \in FormatSi(s) : Length(t) <= 5 /\ t.value < 1000
            /\ s < Last(IecSteps).below => \A t \in FormatIec(s) : Length(t) <= 6 /\ t.value < 1024

\* However much a user puts in a line, there is room for a '\0' after it, and it ends with
\* its newline unless not a byte of text was left for it.
LineFits ==
    "line" \in DOMAIN input =>
        LET b == Line(input.line)
        IN  b.cur_ < SIZE /\ (Last(b.pieces) = "\n" \/ b.cur_ = SIZE - 1)
=============================================================================
