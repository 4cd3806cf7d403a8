----------------------------- MODULE FileReader -----------------------------
(***************************************************************************)
(* FileReader (src/src/file/File.cc): reading a file when read() may       *)
(* return fewer bytes than asked for, or fail.  A result is the error, if  *)
(* any, and how many bytes were read: by ReadToString from the offset of   *)
(* the descriptor, which is 0 in a new FileReader and where the last call  *)
(* has left it otherwise, by ReadToBuffer from the file's start.           *)
(***************************************************************************)
EXTENDS Integers, FiniteSetsExt

CONSTANTS kBufferSize,
          MaxFile        (* bound: size of the file                         *)

VARIABLE input           (* what is at the path, its size, the descriptor's *)
                         (* offset, and the arguments of the call           *)

Result(err, got) == [err |-> err, got |-> got]

\* read() and pread() of at most count bytes at offset: a Result for each outcome.
Read(f, offset, count) ==
    LET rest == Min({count, f.size - offset})
    IN  CASE f.kind = "directory" -> {Result(TRUE, 0)}
          [] rest = 0 -> {Result(FALSE, 0)}
          [] OTHER -> {Result(TRUE, 0)} \cup {Result(FALSE, n) : n \in 1 .. rest}

RECURSIVE ReadLoop(_, _, _), ReadLoopShort(_, _, _)
\* Mutant: a short read is taken for the end of the file.
ReadLoopShort(f, err, got) ==
    IF got >= f.maxSize THEN {Result(err, got)}
    ELSE UNION {IF r.err THEN {Result(TRUE, got)}
                ELSE IF r.got < Min({f.maxSize - got, kBufferSize}) THEN {Result(err, got + r.got)}
                ELSE ReadLoopShort(f, err, got + r.got) :
                r \in Read(f, f.offset + got, Min({f.maxSize - got, kBufferSize}))}

\* The while loop of ReadToString, when got bytes have been read.
ReadLoop(f, err, got) ==
    IF got >= f.maxSize THEN {Result(err, got)}
    ELSE UNION {IF r.err THEN {Result(TRUE, got)}
                ELSE IF r.got = 0 THEN {Result(err, got)}
                ELSE ReadLoop(f, err, got + r.got) :
                r \in Read(f, f.offset + got, Min({f.maxSize - got, kBufferSize}))}

\* fstat, which is called only if the size is asked for: the error it leaves, as it may
\* fail and as a directory is one.  The file is read all the same.
StatErrors(f) ==
    IF ~f.askSize THEN {FALSE} ELSE IF f.kind = "directory" THEN {TRUE} ELSE BOOLEAN

ReadToString(f) ==
    IF f.kind = "missing" THEN {Result(TRUE, 0)}
    ELSE UNION {ReadLoop(f, err, 0) : err \in StatErrors(f)}

ReadToBuffer(f) ==
    IF f.kind = "missing" THEN {Result(TRUE, 0)} ELSE Read(f, 0, kBufferSize - 1)

Init ==
    \/ input \in [kind : {"directory", "missing"}, size : {0}, offset : {0},
                  maxSize : 0 .. MaxFile, askSize : BOOLEAN]
    \/ \E size \in 0 .. MaxFile :
          input \in [kind : {"file"}, size : {size}, offset : 0 .. size,
                     maxSize : 0 .. MaxFile, askSize : BOOLEAN]
-----------------------------------------------------------------------------
\* ReadToString without an error has read the file from where the last call has left it
\* up to its end or to maxSize bytes, however short the reads were.
ReadsAll ==
    "kind" \in DOMAIN input =>
        \A r \in ReadToString(input) :
            /\ r.got <= input.maxSize
            /\ ~r.err => /\ input.kind # "missing"
                         /\ r.got = Min({input.size - input.offset, input.maxSize})

\* The '\0' that ReadToBuffer puts after the bytes is within buf_: of a file of kBufferSize
\* bytes or more it reads less than the file.
BufferTerminated == "kind" \in DOMAIN input => \A r \in ReadToBuffer(input) : r.got < kBufferSize
=============================================================================
