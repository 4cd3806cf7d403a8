----------------------------- MODULE TaskQueue -----------------------------
(***************************************************************************)
(* What EventLoop promises to the code that hands it callbacks: a FIFO     *)
(* queue of tasks, each run once, in the order they were queued, plus      *)
(* tasks that the loop thread runs on the spot.  Nothing is said of        *)
(* threads, locks, batches or wake-ups.                                    *)
(***************************************************************************)
EXTENDS Sequences, Functions

CONSTANTS Task,   (* the tasks *)
          None    (* "no task has run yet" *)

VARIABLES queue,  (* tasks queued and not yet run, oldest first *)
          last    (* the task run most recently *)

vars == <<queue, last>>

Init == queue = <<>> /\ last = None

\* A task is queued: QueueInLoop, or RunInLoop from another thread.
Post(f) ==
    /\ f \notin Range(queue)
    /\ queue' = Append(queue, f)
    /\ UNCHANGED last

\* The oldest task runs.
RunHead ==
    /\ queue # <<>>
    /\ last' = Head(queue)
    /\ queue' = Tail(queue)

\* RunInLoop called in the loop thread runs its task within the call.
RunNow(f) ==
    /\ f \notin Range(queue)
    /\ last' = f
    /\ UNCHANGED queue

Next == \/ \E f \in Task : Post(f) \/ RunNow(f)
        \/ RunHead

Spec == Init /\ [][Next]_vars
=============================================================================
