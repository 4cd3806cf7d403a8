------------------------------ MODULE LogFile ------------------------------
(***************************************************************************)
(* LogFile (src/src/log/LogFile.cc) on AppendFile (src/src/file/File.cc):  *)
(* lines are appended to a file, a new file is begun when it is large or a *)
(* new period has come, and its stdio buffer is flushed now and then.      *)
(* Append holds the mutex, or is called in one thread: it is one step.     *)
(*                                                                         *)
(* A line is its number and the bytes of it that were written.  The wall   *)
(* clock, in seconds, goes on and is sometimes set back.                   *)
(***************************************************************************)
EXTENDS Integers, Sequences, Functions

CONSTANTS rollSize, flushInterval, checkEveryN, kRollPerSeconds,
          Sizes,              (* of lines                                   *)
          MaxAppends, MaxTime (* bounds                                     *)

ASSUME LogFileAssumption ==
    /\ {rollSize, flushInterval, MaxAppends} \subseteq Nat /\ Sizes \subseteq Nat
    /\ {checkEveryN, kRollPerSeconds, MaxTime} \subseteq Nat \ {0}

VARIABLES
    count_, startOfPeriod_, lastRoll_, lastFlush_,
    files,      (* all files, oldest first; the last is file_: its name (the *)
                (* second in it), writtenBytes_, its lines, and when those   *)
                (* that are not flushed were appended                        *)
    now,        (* the wall clock                                           *)
    appended,   (* history: the bytes written of each line                  *)
    lastAppend, (* history: the time of the last call of Append             *)
    setBack,    (* history: the clock was set back                          *)
    flushFailed (* history: an fflush or fclose left lines unwritten        *)

historyVars == <<lastAppend, setBack, flushFailed>>
fileVars == <<count_, startOfPeriod_, lastRoll_, lastFlush_, files, now, appended, historyVars>>

file_ == files[Len(files)]
Period(t) == (t \div kRollPerSeconds) * kRollPerSeconds

\* AppendFile's constructor.
NewFile(t) == [name |-> t, writtenBytes_ |-> 0, lines |-> <<>>, dirty |-> {}]

\* The fflush of AppendFile::Flush and the fclose of its destructor write what is in the
\* buffer, or fail and do not, which neither looks at.
Flushed(f) == [f EXCEPT !.dirty = {}]
Outcomes(f) == {Flushed(f), f}
Flushes(g) == flushFailed' = (flushFailed \/ g.dirty # {})

\* The constructor's RollFile, at a time later than 0.
FileInit ==
    /\ now = 1
    /\ count_ = 0 /\ lastRoll_ = now /\ lastFlush_ = now /\ startOfPeriod_ = Period(now)
    /\ files = <<NewFile(now)>>
    /\ appended = <<>> /\ lastAppend = now /\ setBack = FALSE /\ flushFailed = FALSE

\* AppendFile::Append of line i.  An error cuts it off at n bytes, of which writtenBytes_
\* counts none.
AppendTo(f, i, size, n) ==
    [name |-> f.name, writtenBytes_ |-> f.writtenBytes_ + (IF n = size THEN size ELSE 0),
     lines |-> Append(f.lines, <<i, n>>), dirty |-> f.dirty \cup {now}]

\* The files, with f for the one that is open.
Replaced(f) == [files EXCEPT ![Len(files)] = f]

\* Mutant: a second file is begun in the same second, under the same name.
RollFileAgain(f) ==
    /\ lastRoll_' = now /\ lastFlush_' = now /\ startOfPeriod_' = Period(now)
    /\ \E g \in Outcomes(f) : Flushes(g) /\ files' = Append(Replaced(g), NewFile(now))

\* RollFile, with f for the file that is open.
RollFile(f) ==
    IF now > lastRoll_
    THEN /\ lastRoll_' = now /\ lastFlush_' = now /\ startOfPeriod_' = Period(now)
         /\ \E g \in Outcomes(f) : Flushes(g) /\ files' = Append(Replaced(g), NewFile(now))
    ELSE /\ files' = Replaced(f)
         /\ UNCHANGED <<lastRoll_, lastFlush_, startOfPeriod_, flushFailed>>

\* Mutant: the file is rolled when it is twice as large.
TooLargeLate(f) == f.writtenBytes_ > 2 * rollSize

TooLarge(f) == f.writtenBytes_ > rollSize

\* Flush, with f for the file that is open.
Flush(f) == \E g \in Outcomes(f) : Flushes(g) /\ files' = Replaced(g)

CheckDue == count_ + 1 >= checkEveryN

\* AppendUnlocked, after the write.
AfterWrite(f) ==
    \/ TooLarge(f) /\ RollFile(f) /\ UNCHANGED count_
    \/ /\ ~TooLarge(f) /\ ~CheckDue
       /\ count_' = count_ + 1
       /\ files' = Replaced(f)
       /\ UNCHANGED <<startOfPeriod_, lastRoll_, lastFlush_, flushFailed>>
    \/ /\ ~TooLarge(f) /\ CheckDue
       /\ count_' = 0
       /\ \/ Period(now) # startOfPeriod_ /\ RollFile(f)
          \/ /\ Period(now) = startOfPeriod_
             /\ IF now - lastFlush_ > flushInterval
                THEN lastFlush_' = now /\ Flush(f)
                ELSE files' = Replaced(f) /\ UNCHANGED <<lastFlush_, flushFailed>>
             /\ UNCHANGED <<startOfPeriod_, lastRoll_>>

\* Append of a line, which may fail in AppendFile::Append.
LogFileAppend(size) ==
    /\ Len(appended) < MaxAppends
    /\ lastAppend' = now
    /\ \E n \in {size - 1, size} \cap Nat :
          /\ appended' = Append(appended, n)
          /\ AfterWrite(AppendTo(file_, Len(appended) + 1, size, n))
    /\ UNCHANGED <<now, setBack>>

\* LogFile::Flush.
CallFlush ==
    /\ Flush(file_)
    /\ UNCHANGED <<count_, startOfPeriod_, lastRoll_, lastFlush_, now, appended, lastAppend, setBack>>

\* The clock.
Tick ==
    /\ now < MaxTime
    /\ now' = now + 1
    /\ UNCHANGED <<count_, startOfPeriod_, lastRoll_, lastFlush_, files, appended, historyVars>>

SetClockBack ==
    /\ \E t \in 1 .. now - 1 : now' = t
    /\ setBack' = TRUE
    /\ UNCHANGED <<count_, startOfPeriod_, lastRoll_, lastFlush_, files, appended, lastAppend,
                   flushFailed>>

FileNext == (\E size \in Sizes : LogFileAppend(size)) \/ CallFlush \/ Tick \/ SetClockBack

FileSpec == FileInit /\ [][FileNext]_fileVars
-----------------------------------------------------------------------------
Files == [name : 1 .. MaxTime, writtenBytes_ : Nat, lines : Seq(Nat \X Nat),
          dirty : SUBSET (1 .. MaxTime)]

\* Every variable is of its type, and a file is open.
FileTypeOK ==
    /\ count_ \in 0 .. checkEveryN - 1
    /\ {now, lastRoll_, lastFlush_, lastAppend} \subseteq 1 .. MaxTime
    /\ startOfPeriod_ \in 0 .. MaxTime
    /\ files \in Seq(Files) /\ files # <<>>
    /\ appended \in Seq(Nat)
    /\ setBack \in BOOLEAN /\ flushFailed \in BOOLEAN

\* The files, one after the other, hold what was appended, in order and once, but for the
\* bytes whose write failed, at once or in a flush; and if no flush has failed, only the
\* last can have lines that are not flushed.
LinesKept ==
    /\ UNION {Range(files[i].lines) : i \in DOMAIN files}
         = {<<n, appended[n]>> : n \in DOMAIN appended}
    /\ \A i, j \in DOMAIN files :
       \A k \in DOMAIN files[i].lines, l \in DOMAIN files[j].lines :
           i < j \/ (i = j /\ k < l) => files[i].lines[k][1] < files[j].lines[l][1]
    /\ ~flushFailed => \A i \in 1 .. Len(files) - 1 : files[i].dirty = {}

\* The name of a file has its second in it: no two have the same, and they sort in the
\* order of the lines, whatever the clock does.
NamesIncrease == \A i, j \in DOMAIN files : i < j => files[i].name < files[j].name

\* A file with more than rollSize bytes counted is still written to only while the clock has not
\* passed the second of the last roll.
RolledBySize == file_.writtenBytes_ > rollSize => lastAppend <= lastRoll_

\* After the check that every checkEveryN-th line makes, the file is one of the line's
\* period, if the clock was never set back.
RolledByPeriod ==
    count_ = 0 /\ ~setBack => lastAppend - startOfPeriod_ < kRollPerSeconds

\* After that check, no line waits to be flushed for more than flushInterval seconds, if
\* the clock was never set back and no flush has failed: lastFlush_ is the time of the
\* last flush that was tried.
FlushedInTime ==
    count_ = 0 /\ ~setBack /\ ~flushFailed
        => \A t \in file_.dirty : lastAppend - t <= flushInterval

\* The log files, one after the other, hold the lines that were given to LogFile's Append,
\* in order and once, but for bytes whose write or flush failed; only the last has any that
\* are not flushed, and the names that GetLogFileName makes increase.
LogKept == FileTypeOK /\ LinesKept /\ NamesIncrease

\* LogFile rolls and flushes in time: a file over rollSize is written to only within the
\* second of the last roll, and after the check of every checkEveryN-th line the file is
\* one of the period and no line has waited for its flush longer than flushInterval; what
\* is written between two checks waits for the next, however long that takes.
RolledInTime == RolledBySize /\ RolledByPeriod /\ FlushedInTime
=============================================================================
