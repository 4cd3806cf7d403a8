---------------------------- MODULE MCSequential ----------------------------
(***************************************************************************)
(* The parts of the library that one thread at a time uses, for TLC: a     *)
(* behaviour is one of ConnBuffer or of LogFile, or the choice of an input *)
(* for LogStream or FileReader.  The other parts stay as they are at the   *)
(* start.  A byte has two values.                                          *)
(***************************************************************************)
EXTENDS ConnBuffer, LogFile

CONSTANTS SIZE, kMaxNumericSize, MaxPieces, kBufferSize, MaxFile

VARIABLES subject, input

S == INSTANCE LogStream
R == INSTANCE FileReader

noInput == [none |-> 0]

MCInit ==
    /\ Init /\ FileInit
    /\ \/ subject \in {"ConnBuffer", "LogFile"} /\ input = noInput
       \/ subject = "functions" /\ (S!Init \/ R!Init)

MCNext ==
    \/ subject = "ConnBuffer" /\ Next /\ UNCHANGED <<subject, input, fileVars>>
    \/ subject = "LogFile" /\ FileNext /\ UNCHANGED <<subject, input, vars>>

MCSpec == MCInit /\ [][MCNext]_<<vars, fileVars, subject, input>>

\* What tells states apart: not the buffer's last call, which no guard and no invariant
\* reads.  The action properties, which do, are checked on every step all the same.
View == <<buf, int, fileVars, subject, input>>
-----------------------------------------------------------------------------
\* LogStream's text is right: Convert and ConvertHex write the number, FormatSi and
\* FormatIec within their width, and a Logger's line ends with its newline unless full.
TextRight == S!ConvertIsDecimal /\ S!FormatsFit /\ S!LineFits

\* FileReader reads what it should, or returns an error: ReadToString all that is left of
\* the file, up to maxSize, and ReadToBuffer no more than leaves room for the '\0'.
ReadsWhole == R!ReadsAll /\ R!BufferTerminated
=============================================================================
