---------------------------- MODULE AsyncLogging ----------------------------
(***************************************************************************)
(* AsyncLogging (src/src/log/AsynLogBackend.cc): front-end threads append  *)
(* log lines to a current buffer under mutex_; a back-end thread takes the *)
(* filled buffers, writes them to a LogFile and gives two of them back.    *)
(*                                                                         *)
(* Log lines are numbered in the order in which their Append calls take    *)
(* mutex_; a buffer is the sequence of its lines.  A line is ordinary, and *)
(* BufferLines of them fit in a buffer, or huge, and fits in none.  Buffer *)
(* pointers are the buffer or Null.  The LogFile is private to the         *)
(* back-end: it is the sequence of what has been appended to it.           *)
(***************************************************************************)
EXTENDS Naturals, Sequences, Functions

CONSTANTS BufferLines,   (* how many ordinary lines a buffer takes           *)
          MaxBuffers,    (* 25: more buffers than that are thrown away       *)
          MaxLines,      (* bound: how many lines are ever appended          *)
          Null

ASSUME AsyncLoggingAssumption ==
    /\ BufferLines \in Nat \ {0}
    /\ MaxBuffers \in Nat \ {0, 1}
    /\ MaxLines \in Nat
    /\ Null \notin Seq(Nat)

\* The line that tells of dropped buffers.
DropNotice == 0

VARIABLES
    running_,
    lines,                        (* how many lines have been appended       *)
    currentBuffer_, nextBuffer_,  (* shared, under mutex_                    *)
    buffers_,
    newBuffer1, newBuffer2,       (* the back-end's own                      *)
    buffersToWrite,
    output,                       (* the LogFile                             *)
    pc,                           (* where the back-end is                   *)
    notified,                     (* the back-end's wait has been notified   *)
    lost                          (* history: lines dropped or too long      *)

sharedVars == <<currentBuffer_, nextBuffer_, buffers_>>
backendVars == <<newBuffer1, newBuffer2, buffersToWrite, output>>
vars == <<running_, lines, sharedVars, backendVars, pc, notified, lost>>

Init ==
    /\ running_ = FALSE
    /\ lines = 0
    /\ currentBuffer_ = <<>> /\ nextBuffer_ = <<>> /\ buffers_ = <<>>
    /\ newBuffer1 = Null /\ newBuffer2 = Null /\ buffersToWrite = <<>>
    /\ output = <<>>
    /\ pc = "none"
    /\ notified = FALSE
    /\ lost = {}

(***************************************************************************)
(* The front-end.                                                          *)
(***************************************************************************)
\* The new current buffer after Append of line m: a huge line
\* does not fit even in an empty buffer, and SizedBuffer::Append drops it.
FreshBuffer(m, huge) == IF huge THEN <<>> ELSE <<m>>

\* Mutant: no notify_one.
AppendLineQuiet(huge) ==
    LET m == lines + 1
        fits == ~huge /\ Len(currentBuffer_) < BufferLines
    IN  /\ lines < MaxLines
        /\ lines' = m
        /\ currentBuffer_' = IF fits THEN Append(currentBuffer_, m) ELSE FreshBuffer(m, huge)
        /\ nextBuffer_' = IF fits THEN nextBuffer_ ELSE Null
        /\ buffers_' = IF fits THEN buffers_ ELSE Append(buffers_, currentBuffer_)
        /\ lost' = IF huge THEN lost \cup {m} ELSE lost
        /\ UNCHANGED <<running_, backendVars, pc, notified>>

\* Append of the next line.  The line goes to the current buffer if it fits; else
\* that buffer is queued and the back-end notified.
AppendLine(huge) ==
    LET m == lines + 1
        fits == ~huge /\ Len(currentBuffer_) < BufferLines
    IN  /\ lines < MaxLines
        /\ lines' = m
        /\ \/ /\ fits
              /\ currentBuffer_' = Append(currentBuffer_, m)
              /\ UNCHANGED <<nextBuffer_, buffers_, notified>>
           \/ /\ ~fits
              /\ buffers_' = Append(buffers_, currentBuffer_)
              /\ currentBuffer_' = FreshBuffer(m, huge)
              /\ nextBuffer_' = Null
              /\ notified' = (pc = "wait")
        /\ lost' = IF huge THEN lost \cup {m} ELSE lost
        /\ UNCHANGED <<running_, backendVars, pc>>

\* Start, up to the latch: the back-end has made its two buffers.
Start ==
    /\ pc = "none"
    /\ running_' = TRUE
    /\ newBuffer1' = <<>> /\ newBuffer2' = <<>>
    /\ pc' = "while"
    /\ UNCHANGED <<lines, sharedVars, buffersToWrite, output, notified, lost>>

\* Stop, up to its Join.
Stop ==
    /\ running_
    /\ running_' = FALSE
    /\ notified' = (pc = "wait")
    /\ UNCHANGED <<lines, sharedVars, backendVars, pc, lost>>

(***************************************************************************)
(* The back-end, ThreadFunction.                                           *)
(***************************************************************************)
\* Mutant: the current buffer is put before the full ones.
TakeBuffersCurrentFirst ==
    /\ buffersToWrite' = <<currentBuffer_>> \o buffers_
    /\ buffers_' = <<>>
    /\ currentBuffer_' = newBuffer1
    /\ newBuffer1' = Null
    /\ nextBuffer_' = <<>>
    /\ newBuffer2' = IF nextBuffer_ = Null THEN Null ELSE newBuffer2
    /\ notified' = FALSE
    /\ pc' = "write"
    /\ UNCHANGED <<running_, lines, output, lost>>

\* What happens under mutex_ once the wait is over: the current buffer is queued,
\* the queue taken, and the two spare buffers are handed to the front-end.
TakeBuffers ==
    /\ buffersToWrite' = Append(buffers_, currentBuffer_)
    /\ buffers_' = <<>>
    /\ currentBuffer_' = newBuffer1
    /\ newBuffer1' = Null
    /\ IF nextBuffer_ = Null
       THEN nextBuffer_' = newBuffer2 /\ newBuffer2' = Null
       ELSE UNCHANGED <<nextBuffer_, newBuffer2>>
    /\ notified' = FALSE
    /\ pc' = "write"
    /\ UNCHANGED <<running_, lines, output, lost>>

\* while (running_): leave, or lock mutex_ and wait unless there is a full buffer.
While ==
    /\ pc = "while"
    /\ \/ /\ ~running_
          /\ pc' = "exited"
          /\ UNCHANGED <<running_, lines, sharedVars, backendVars, notified, lost>>
       \/ running_ /\ buffers_ # <<>> /\ TakeBuffers
       \/ /\ running_
          /\ buffers_ = <<>>
          /\ pc' = "wait"
          /\ UNCHANGED <<running_, lines, sharedVars, backendVars, notified, lost>>

\* The wait is notified and its predicate holds.
WaitNotified ==
    /\ pc = "wait"
    /\ notified
    /\ buffers_ # <<>>
    /\ TakeBuffers

\* It is notified (by Stop) and the predicate does not hold: it goes on waiting.
WaitAgain ==
    /\ pc = "wait"
    /\ notified
    /\ buffers_ = <<>>
    /\ notified' = FALSE
    /\ UNCHANGED <<running_, lines, sharedVars, backendVars, pc, lost>>

\* Mutant: the current buffer is only taken along with a full one.
WaitTimesOutIdle ==
    /\ pc = "wait"
    /\ buffers_ # <<>>
    /\ TakeBuffers

\* flushInterval is over.
WaitTimesOut ==
    /\ pc = "wait"
    /\ TakeBuffers

\* Mutant: the erase keeps one buffer instead of two.
KeptOne(bs) == IF Len(bs) > MaxBuffers THEN SubSeq(bs, 1, 1) ELSE bs

\* The buffers left after too many of them have been cut down to the first two.
Kept(bs) == IF Len(bs) > MaxBuffers THEN SubSeq(bs, 1, 2) ELSE bs

\* The buffers left after resize(2).
Resized(bs) == IF Len(bs) > 2 THEN SubSeq(bs, 1, 2) ELSE bs

\* SizedBuffer::Reset.
Reset(b) == <<>>

\* The lines of a sequence of buffers.
LinesOf(bs) == UNION {Range(bs[i]) : i \in DOMAIN bs}

\* What appending these buffers adds to the LogFile: nothing if all of them are empty.
Written(bs) == IF LinesOf(bs) = {} THEN <<>> ELSE bs

\* The asserts on the refill: a buffer is left for each spare one that was given
\* away.  newBuffer1 always was.
CanRefill ==
    Len(Resized(Kept(buffersToWrite))) >= IF newBuffer2 = Null THEN 2 ELSE 1

\* The rest of the loop's body, outside mutex_: too many buffers are dropped with
\* a notice, the others written and flushed, and the spare buffers refilled from
\* the back.
Write ==
    LET kept  == Kept(buffersToWrite)
        spare == Resized(kept)
    IN  /\ pc = "write"
        /\ CanRefill
        /\ output' = output \o (IF kept = buffersToWrite THEN <<>> ELSE << <<DropNotice>> >>)
                            \o Written(kept)
        /\ lost' = lost \cup (LinesOf(buffersToWrite) \ LinesOf(kept))
        /\ newBuffer1' = Reset(spare[Len(spare)])
        /\ newBuffer2' = IF newBuffer2 = Null THEN Reset(spare[Len(spare) - 1]) ELSE newBuffer2
        /\ buffersToWrite' = <<>>
        /\ pc' = "while"
        /\ UNCHANGED <<running_, lines, sharedVars, notified>>

Backend == While \/ WaitNotified \/ WaitAgain \/ WaitTimesOut \/ Write

Next ==
    \/ \E huge \in BOOLEAN : AppendLine(huge)
    \/ Start
    \/ Stop
    \/ Backend

Spec == Init /\ [][Next]_vars

\* The back-end thread is scheduled, and wait_for returns after flushInterval.
FairSpec == Spec /\ WF_vars(Backend) /\ WF_vars(WaitTimesOut)

-----------------------------------------------------------------------------
Buffers == Seq(1 .. MaxLines)

\* Every variable is of its type.
TypeOK ==
    /\ running_ \in BOOLEAN
    /\ lines \in 0 .. MaxLines
    /\ currentBuffer_ \in Buffers
    /\ nextBuffer_ \in {<<>>, Null}
    /\ buffers_ \in Seq(Buffers)
    /\ newBuffer1 \in {<<>>, Null} /\ newBuffer2 \in {<<>>, Null}
    /\ buffersToWrite \in Seq(Buffers)
    /\ output \in Seq(Seq(0 .. MaxLines))
    /\ pc \in {"none", "while", "wait", "write", "exited"}
    /\ notified \in BOOLEAN
    /\ lost \subseteq 1 .. MaxLines

\* The asserts of ThreadFunction: the spare buffers are there, empty, when an
\* iteration begins, and an iteration takes enough buffers to refill both.
AssertsHold ==
    /\ pc = "while" => newBuffer1 = <<>> /\ newBuffer2 = <<>> /\ buffersToWrite = <<>>
    /\ pc = "write" => CanRefill

\* A full buffer never waits for the flush interval: Append's notify reaches the
\* wait although the back-end tests buffers_ and blocks without a loop of its own.
FullBufferNotifies == pc = "wait" /\ buffers_ # <<>> => notified

\* Where lines can be, oldest first.
Stages == output \o buffersToWrite \o buffers_ \o <<currentBuffer_>>

\* Lines are in the LogFile, and on their way to it, in the order they were
\* appended and at most once, whatever the exchange of buffers between threads.
InOrder ==
    LET stages == Stages
    IN  \A i, j \in DOMAIN stages : \A k \in DOMAIN stages[i], l \in DOMAIN stages[j] :
            /\ i < j \/ (i = j /\ k < l)
            /\ DropNotice \notin {stages[i][k], stages[j][l]}
            => stages[i][k] < stages[j][l]

\* No line goes missing unless the back-end dropped it for overload or it is too
\* long for a buffer.
Accounted == 1 .. lines = (LinesOf(Stages) \ {DropNotice}) \cup lost

\* Append and ThreadFunction between them neither lose, repeat nor reorder a line, but
\* for those given up on purpose.
LinesAccounted == TypeOK /\ InOrder /\ Accounted

\* While the back-end runs, every line gets to the LogFile or is lost on purpose.
LineIsWritten ==
    \A m \in 1 .. MaxLines :
        (m <= lines /\ running_) ~> (m \in LinesOf(output) \cup lost \/ ~running_)

\* Stop's Join returns: the back-end leaves its loop.
StopReturns == (pc # "none" /\ ~running_) ~> (pc = "exited")

\* The back-end goes on serving: it writes what is appended, and leaves when stopped.
LogServed == LineIsWritten /\ StopReturns

=============================================================================
