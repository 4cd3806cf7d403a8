----------------------------- MODULE LoopThread -----------------------------
(***************************************************************************)
(* EventLoopThread (src/src/network/LoopThread.cc): a thread with an       *)
(* EventLoop on its stack, and the owner that starts it, uses the loop and *)
(* destroys the EventLoopThread.  The loop is the component EventLoop; its *)
(* steps are taken here between the statements of threadFunc.              *)
(***************************************************************************)
EXTENDS EventLoop

CONSTANT Owner       (* the thread that owns the EventLoopThread *)

ASSUME LoopThreadAssumption == Owner \in Threads

VARIABLES own,       (* where the owner is                       *)
          thr,       (* where threadFunc is                      *)
          loop_,     (* whether loop_ points to the loop         *)
          quitBy     (* history: a callback or user quit it      *)

threadVars == <<vars, own, thr, loop_, quitBy>>

ThreadInit == Init /\ own = "constructed" /\ thr = "none" /\ loop_ = FALSE /\ quitBy = FALSE

\* startLoop up to its wait: the thread is created and constructs its loop.
StartLoop ==
    /\ own = "constructed"
    /\ own' = "waiting"
    /\ thr' = "init"
    /\ UNCHANGED <<vars, loop_, quitBy>>

\* The wait's predicate holds: startLoop returns the loop.
StartLoopReturns ==
    /\ own = "waiting"
    /\ loop_
    /\ own' = "started"
    /\ UNCHANGED <<vars, thr, loop_, quitBy>>

\* Mutant: a loop that has been told to quit is not waited for.
DestructorTrustsQuit ==
    /\ own = "started"
    /\ \A t \in Threads : call[t] = "none"
    /\ own' = IF loop_ /\ ~quit_ THEN "quit" ELSE "destroyed"
    /\ UNCHANGED <<vars, thr, loop_, quitBy>>

\* The destructor's test of loop_, without mutex_.  If loop_ is null there is
\* neither quit nor join, and ~Thread detaches the thread.  The users are done
\* with the loop by then: that is up to the program.
Destructor ==
    /\ own = "started"
    /\ \A t \in Threads : call[t] = "none"
    /\ own' = IF loop_ THEN "quit" ELSE "destroyed"
    /\ UNCHANGED <<vars, thr, loop_, quitBy>>

\* loop_->quit() ...
DestructorQuits ==
    /\ own = "quit"
    /\ Quit(Owner)
    /\ own' = "wakeup"
    /\ UNCHANGED <<thr, loop_, quitBy>>

\* Mutant: Quit does not wake the loop up.
DestructorWakesNot ==
    /\ own = "wakeup"
    /\ call' = [call EXCEPT ![Owner] = "none"]
    /\ own' = "join"
    /\ UNCHANGED <<pc, looping_, quit_, callingPendingFunctors_, activeChannels_,
                   pendingFunctors_, functors, wakeupFd_, lastRun, silent, thr, loop_, quitBy>>

\* ... which wakes the loop up.  threadFunc may have returned by then: the write goes to
\* an eventfd that is closed, through a loop that is gone, and reaches no one ...
DestructorWakes ==
    /\ own = "wakeup"
    /\ CallWakeup(Owner)
    /\ own' = "join"
    /\ UNCHANGED <<thr, loop_, quitBy>>

\* Mutant: the destructor does not wait for the thread.
DestructorDoesNotJoin ==
    /\ own = "join"
    /\ own' = "destroyed"
    /\ UNCHANGED <<vars, thr, loop_, quitBy>>

\* ... and Join(), which returns when the thread is over.
DestructorJoins ==
    /\ own = "join"
    /\ thr = "exited"
    /\ own' = "destroyed"
    /\ UNCHANGED <<vars, thr, loop_, quitBy>>

\* callback_ has run: loop_ is set and the owner notified, under mutex_.
Publish ==
    /\ thr = "init"
    /\ loop_' = TRUE
    /\ thr' = "published"
    /\ UNCHANGED <<vars, own, quitBy>>

\* loop.loop()
EnterLoop ==
    /\ thr = "published"
    /\ Loop
    /\ thr' = "looping"
    /\ UNCHANGED <<own, loop_, quitBy>>

\* loop() has returned: loop_ is reset under mutex_.
Unpublish ==
    /\ thr = "looping"
    /\ pc = "outside"
    /\ loop_' = FALSE
    /\ thr' = "unlock"
    /\ UNCHANGED <<vars, own, quitBy>>

\* mutex_ is unlocked, the loop destroyed and the thread over.
ExitThread ==
    /\ thr = "unlock"
    /\ thr' = "exited"
    /\ UNCHANGED <<vars, own, loop_, quitBy>>

\* callback_ calls the loop before Loop(); then the loop works, and runs callbacks.
LoopWorks ==
    /\ \/ thr = "init" /\ CallHere
       \/ thr = "looping" /\ pc # "outside" /\ (LoopStep \/ CallHere)
    /\ quitBy' = (quitBy \/ (quit_' /\ ~quit_))
    /\ UNCHANGED <<own, thr, loop_>>

\* The owner, and other users of the pointer that startLoop returned.
UserCalls(t) ==
    /\ own = "started"
    /\ CallFrom(t)
    /\ quitBy' = (quitBy \/ (quit_' /\ ~quit_))
    /\ UNCHANGED <<own, thr, loop_>>

OwnerStep == \/ StartLoopReturns \/ DestructorQuits \/ DestructorWakes
             \/ DestructorJoins
ThreadStep == Publish \/ EnterLoop \/ Unpublish \/ ExitThread

ThreadNext == \/ StartLoop \/ Destructor \/ OwnerStep \/ ThreadStep \/ LoopWorks
              \/ \E t \in Threads : UserCalls(t)

ThreadSpec == ThreadInit /\ [][ThreadNext]_threadVars

\* The owner and the thread go on while they are not blocked, and so does the
\* loop.  Nothing makes the owner start or destroy.
FairThreadSpec ==
    ThreadSpec /\ Fairness /\ WF_threadVars(OwnerStep) /\ WF_threadVars(ThreadStep)

-----------------------------------------------------------------------------
\* The types of the owner's and the thread's state; loop_ is set exactly while the
\* thread is between its two critical sections.
ThreadTypeOK ==
    /\ own \in {"constructed", "waiting", "started", "quit", "wakeup", "join", "destroyed"}
    /\ thr \in {"none", "init", "published", "looping", "unlock", "exited"}
    /\ loop_ \in BOOLEAN /\ (loop_ <=> thr \in {"published", "looping"})
    /\ quitBy \in BOOLEAN

\* The loop that startLoop returned exists while its callers may use it, and when the
\* destructor dereferences loop_ to store quit_, when only the destructor quits it (the
\* pool's use of it).
PointerValid == own \in {"started", "quit"} /\ ~quitBy => thr \in {"published", "looping"}

\* The wakeup() behind that store is the one use that may come too late, as the comments
\* in Quit and in the destructor say: the loop may see quit_, return and be destroyed
\* in between.  It comes late only then, so that there is nothing left to wake.
LateOnlyAfterQuit == own = "wakeup" => thr \in {"published", "looping"} \/ quit_

\* threadFunc's uses of mutex_ and loop_ come before the end of the
\* EventLoopThread whose members they are, when only the destructor quits the
\* loop.
MembersOutliveThread == own = "destroyed" /\ ~quitBy => thr = "exited"

\* Neither side uses what the other has destroyed, when only the destructor quits the
\* loop, with one exception: not the caller of startLoop the loop, nor threadFunc the
\* EventLoopThread, but the destructor's quit() may call wakeup() on a loop that has
\* seen its quit_ and is gone.
DanglesOnlyInQuit == ThreadTypeOK /\ PointerValid /\ LateOnlyAfterQuit /\ MembersOutliveThread

\* Even when users quit the loop, so that the destructor may find loop_ null and
\* skip the join, no thread is left in or before its loop when the EventLoopThread
\* is gone: at most threadFunc's unlock of mutex_ is outstanding.
NoThreadLeftLooping == own = "destroyed" => thr \in {"unlock", "exited"}

\* Once Loop() has been entered, the destructor's quit() and Join() end the thread.
JoinReturnsOnceLooping == (own = "quit" /\ looping_) ~> (own = "destroyed")

\* The destructor joins the thread, as the pool's comment says.
JoinReturns == (own = "quit") ~> (own = "destroyed")
=============================================================================
