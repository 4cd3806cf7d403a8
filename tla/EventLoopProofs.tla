-------------------------- MODULE EventLoopProofs --------------------------
(***************************************************************************)
(* Proofs about EventLoop and about LoopThread, the thread around it, for  *)
(* every set of threads, functors and channels and every limit of the      *)
(* eventfd.                                                                *)
(***************************************************************************)
EXTENDS LoopThread, SequenceTheorems, TLAPS

\* looping_ and callingPendingFunctors_ follow the loop thread through Loop() and
\* DoPendingFunctors, whatever is called from callbacks and from other threads.
THEOREM FlagsFollowLoop == Spec => []FlagsExact
<1> USE EventLoopAssumption DEF FlagsExact, TypeOK
<1>1. Init => FlagsExact
  <2> SUFFICES ASSUME Init PROVE FlagsExact
    OBVIOUS
  <2>1. pendingFunctors_ \in Seq(Functors) /\ functors \in Seq(Functors)
    BY DEF Init
  <2>2. call \in [Threads -> {"none", "wakeup"}] /\ wakeupFd_ \in 0..MaxCount
    BY DEF Init
  <2> QED
    BY <2>1, <2>2, Zenon DEF Init
<1>2. FlagsExact /\ [Next]_vars => FlagsExact'
  <2> SUFFICES ASSUME FlagsExact, [Next]_vars PROVE FlagsExact'
    OBVIOUS
  <2>1. CASE Loop
    BY <2>1, Zenon DEF Loop
  <2>2. CASE While
    BY <2>2, Zenon DEF While
  <2>3. ASSUME NEW ready \in SUBSET Channels, PollReturns(ready) PROVE FlagsExact'
    BY <2>3 DEF PollReturns
  <2>4. CASE PollTimesOut
    BY <2>4 DEF PollTimesOut
  <2>5. ASSUME NEW c \in Channels \cup {Wakeup}, HandleEvent(c) PROVE FlagsExact'
    BY <2>5 DEF HandleEvent
  <2>6. CASE HandlerReturns
    BY <2>6 DEF HandlerReturns
  <2>7. CASE EnterDoPendingFunctors
    BY <2>7 DEF EnterDoPendingFunctors
  <2>8. CASE SwapPending
    BY <2>8 DEF SwapPending
  <2>9. CASE RunFunctor
    BY <2>9 DEF RunFunctor
  <2>10. CASE FunctorReturns
    BY <2>10 DEF FunctorReturns
  <2>11. CASE LeaveDoPendingFunctors
    BY <2>11, Zenon DEF LeaveDoPendingFunctors
  <2>12. CASE QuitHere
    BY <2>12 DEF QuitHere, loopVars
  <2>13. ASSUME NEW f \in Functors, QueueInLoopHere(f) PROVE FlagsExact'
    BY <2>13 DEF QueueInLoopHere, loopVars, WakeUp
  <2>14. ASSUME NEW f \in Functors, RunInLoopHere(f) PROVE FlagsExact'
    BY <2>14 DEF RunInLoopHere, loopVars
  <2>15. ASSUME NEW t \in Threads, Quit(t) PROVE FlagsExact'
    BY <2>15 DEF Quit, loopVars
  <2>16. ASSUME NEW t \in Threads, CallWakeup(t) PROVE FlagsExact'
    BY <2>16 DEF CallWakeup, loopVars, WakeUp
  <2>17. ASSUME NEW t \in Threads, NEW f \in Functors, QueueInLoop(t, f) PROVE FlagsExact'
    BY <2>17 DEF QueueInLoop, loopVars
  <2>18. CASE UNCHANGED vars
    BY <2>18 DEF vars, loopVars
  <2> QED
    BY <2>1, <2>2, <2>3, <2>4, <2>5, <2>6, <2>7, <2>8, <2>9, <2>10, <2>11, <2>12,
       <2>13, <2>14, <2>15, <2>16, <2>17, <2>18, Zenon
       DEF Next, LoopStep, CallHere, CallFrom
<1> QED
  BY <1>1, <1>2, PTL DEF Spec

(***************************************************************************)
(* No lost wake-up.  The promise has to hold from the swap on, not only in *)
(* poll: what is queued after the swap waits for the next poll.            *)
(***************************************************************************)
PendingSignalled ==
    WakeupComing \/ \A i \in DOMAIN pendingFunctors_ : pendingFunctors_[i] \in silent

WakeInv ==
    /\ pc \in {"outside", "run", "functor", "while", "poll"} => PendingSignalled
    /\ pc = "poll" /\ quit_ => WakeupComing

\* A wakeup() leaves the eventfd readable, even when its counter was full.
LEMMA WakeUpWakes == FlagsExact /\ WakeUp => wakeupFd_' > 0
BY EventLoopAssumption DEF FlagsExact, TypeOK, WakeUp

\* When neither the eventfd nor a caller's progress changes, a wake-up that is
\* coming still is.
LEMMA ComingStays == WakeupComing /\ UNCHANGED <<wakeupFd_, call>> => WakeupComing'
BY DEF WakeupComing

\* Every step keeps WakeInv.
LEMMA WakeInvStep == FlagsExact /\ WakeInv /\ [Next]_vars => WakeInv'
<1> SUFFICES ASSUME FlagsExact, WakeInv, [Next]_vars PROVE WakeInv'
  OBVIOUS
<1> USE DEF WakeInv, PendingSignalled
<1>1. CASE Loop
  BY <1>1, ComingStays DEF Loop
<1>2. CASE While
  BY <1>2, ComingStays DEF While
<1>3. ASSUME NEW ready \in SUBSET Channels, PollReturns(ready) PROVE WakeInv'
  BY <1>3 DEF PollReturns
<1>4. CASE PollTimesOut
  BY <1>4 DEF PollTimesOut
<1>5. ASSUME NEW c \in Channels \cup {Wakeup}, HandleEvent(c) PROVE WakeInv'
  BY <1>5 DEF HandleEvent
<1>6. CASE HandlerReturns
  BY <1>6 DEF HandlerReturns
<1>7. CASE EnterDoPendingFunctors
  BY <1>7 DEF EnterDoPendingFunctors
<1>8. CASE SwapPending
  BY <1>8 DEF SwapPending
<1>9. CASE RunFunctor
  BY <1>9, ComingStays DEF RunFunctor
<1>10. CASE FunctorReturns
  BY <1>10, ComingStays DEF FunctorReturns
<1>11. CASE LeaveDoPendingFunctors
  BY <1>11, ComingStays DEF LeaveDoPendingFunctors
<1>12. CASE QuitHere
  BY <1>12, ComingStays DEF QuitHere, InUserCode, loopVars
<1>13. ASSUME NEW f \in Functors, QueueInLoopHere(f) PROVE WakeInv'
  <2>1. pc' = pc /\ pc # "poll"
    BY <1>13 DEF QueueInLoopHere, InUserCode, loopVars
  <2>2. CASE pc = "handler"
    BY <2>1, <2>2
  <2>3. CASE pc = "functor"
    <3>1. wakeupFd_' > 0
      BY <1>13, <2>3, WakeUpWakes DEF QueueInLoopHere, FlagsExact, TypeOK
    <3> QED
      BY <2>1, <2>3, <3>1 DEF WakeupComing
  <2>4. CASE pc = "outside"
    <3>1. UNCHANGED <<wakeupFd_, call>>
      BY <1>13, <2>4 DEF QueueInLoopHere, FlagsExact, TypeOK
    <3>2. silent' = silent \cup {f} /\ pendingFunctors_' = Append(pendingFunctors_, f)
      BY <1>13, <2>4 DEF QueueInLoopHere
    <3>3. CASE WakeupComing
      BY <2>1, <3>1, <3>3, ComingStays
    <3>4. CASE \A i \in DOMAIN pendingFunctors_ : pendingFunctors_[i] \in silent
      <4>1. \A i \in DOMAIN pendingFunctors_' : pendingFunctors_'[i] \in silent'
        BY <3>2, <3>4 DEF FlagsExact, TypeOK
      <4> QED
        BY <2>1, <4>1
    <3> QED
      BY <2>4, <3>3, <3>4
  <2> QED
    BY <1>13, <2>2, <2>3, <2>4 DEF QueueInLoopHere, InUserCode
<1>14. ASSUME NEW f \in Functors, RunInLoopHere(f) PROVE WakeInv'
  BY <1>14, ComingStays DEF RunInLoopHere, loopVars
<1>15. ASSUME NEW t \in Threads, Quit(t) PROVE WakeInv'
  <2>1. call'[t] = "wakeup"
    BY <1>15 DEF Quit, FlagsExact, TypeOK
  <2> QED
    BY <2>1 DEF WakeupComing
<1>16. ASSUME NEW t \in Threads, CallWakeup(t) PROVE WakeInv'
  BY <1>16, WakeUpWakes DEF CallWakeup, WakeupComing
<1>17. ASSUME NEW t \in Threads, NEW f \in Functors, QueueInLoop(t, f) PROVE WakeInv'
  <2>1. call'[t] = "wakeup"
    BY <1>17 DEF QueueInLoop, FlagsExact, TypeOK
  <2> QED
    BY <2>1 DEF WakeupComing
<1>18. CASE UNCHANGED vars
  BY <1>18, ComingStays DEF vars, loopVars
<1> QED
  BY <1>1, <1>2, <1>3, <1>4, <1>5, <1>6, <1>7, <1>8, <1>9, <1>10, <1>11, <1>12,
     <1>13, <1>14, <1>15, <1>16, <1>17, <1>18, Zenon
     DEF Next, LoopStep, CallHere, CallFrom

\* The loop never sleeps in poll over a functor queued with QueueInLoop, or over a
\* Quit, without a wake-up on its way.
THEOREM NoLostWakeups == Spec => []NothingLost
<1>1. Init => WakeInv
  BY DEF Init, WakeInv, PendingSignalled
<1>2. WakeInv => NothingLost
  BY DEF WakeInv, PendingSignalled, NothingLost, NoLostWakeup, NoLostQuit
<1> QED
  BY <1>1, <1>2, WakeInvStep, FlagsFollowLoop, PTL DEF Spec

(***************************************************************************)
(* EventLoop implements TaskQueue.  The abstract queue is what is left of  *)
(* the batch followed by pendingFunctors_; the lemmas say how the          *)
(* operations on the two parts look on their concatenation.                *)
(***************************************************************************)
\* Pushing onto the second part pushes onto the whole.
LEMMA ConcatAppend ==
  ASSUME NEW S, NEW s \in Seq(S), NEW t \in Seq(S), NEW e \in S
  PROVE  s \o Append(t, e) = Append(s \o t, e)
OBVIOUS

\* Popping the first part, when it is not empty, pops the whole.
LEMMA ConcatPop ==
  ASSUME NEW S, NEW s \in Seq(S), NEW t \in Seq(S), s # <<>>
  PROVE  /\ s \o t # <<>>
         /\ Head(s \o t) = Head(s)
         /\ Tail(s \o t) = Tail(s) \o t
<1>1. Len(s \o t) > 0 /\ s \o t \in Seq(S)
  OBVIOUS
<1>2. Head(s \o t) = Head(s)
  OBVIOUS
<1>3. Tail(s \o t) = Tail(s) \o t
  OBVIOUS
<1> QED
  BY <1>1, <1>2, <1>3

\* What the whole holds is what its parts hold.
LEMMA ConcatRange ==
  ASSUME NEW S, NEW s \in Seq(S), NEW t \in Seq(S), NEW e,
         e \notin Range(s) \cup Range(t)
  PROVE  e \notin Range(s \o t)
BY DEF Range

\* The batch is empty unless its functors are being run: the swap does not
\* overwrite functors that have yet to run.
BatchInv == pc \in {"run", "functor"} \/ functors = <<>>

\* No step of the loop or of a caller leaves a batch behind outside DoPendingFunctors.
LEMMA BatchInvStep == FlagsExact /\ BatchInv /\ [Next]_vars => BatchInv'
BY Zenon DEF FlagsExact, TypeOK, BatchInv, Next, LoopStep, Loop, While, PollReturns, PollTimesOut,
       HandleEvent, HandlerReturns, EnterDoPendingFunctors, SwapPending, RunFunctor,
       FunctorReturns, LeaveDoPendingFunctors, CallHere, QuitHere, QueueInLoopHere,
       RunInLoopHere, CallFrom, Quit, CallWakeup, QueueInLoop, InUserCode, loopVars, vars

\* Every step of the loop or of a caller is a step of the abstract queue, or
\* changes nothing that it sees.
LEMMA TaskQueueStep == FlagsExact /\ BatchInv /\ [Next]_vars => [TQ!Next]_(TQ!vars)
<1> SUFFICES ASSUME FlagsExact, BatchInv, [Next]_vars PROVE [TQ!Next]_(TQ!vars)
  OBVIOUS
<1>0. functors \in Seq(Functors) /\ pendingFunctors_ \in Seq(Functors)
  BY DEF FlagsExact, TypeOK
<1>1. CASE SwapPending
  <2>1. functors = <<>>
    BY <1>1 DEF SwapPending, BatchInv
  <2>2. functors \o pendingFunctors_ = functors' \o pendingFunctors_'
    BY <1>0, <1>1, <2>1 DEF SwapPending
  <2> QED
    BY <1>1, <2>2 DEF SwapPending, TQ!vars
<1>2. CASE RunFunctor
  <2>1. functors # <<>>
    BY <1>2 DEF RunFunctor
  <2>2. functors' \o pendingFunctors_' = Tail(functors \o pendingFunctors_)
    BY <1>0, <1>2, <2>1, ConcatPop, Zenon DEF RunFunctor
  <2>3. lastRun' = Head(functors \o pendingFunctors_)
    BY <1>0, <1>2, <2>1, ConcatPop DEF RunFunctor
  <2>4. functors \o pendingFunctors_ # <<>>
    BY <1>0, <2>1, ConcatPop
  <2> QED
    BY <2>2, <2>3, <2>4 DEF TQ!Next, TQ!RunHead
<1>3. ASSUME NEW f \in Functors, Free(f), UNCHANGED <<functors, lastRun>>,
             pendingFunctors_' = Append(pendingFunctors_, f)
      PROVE  TQ!Post(f)
  <2>1. f \notin Range(functors \o pendingFunctors_)
    BY <1>0, <1>3, ConcatRange DEF Free
  <2>2. functors' \o pendingFunctors_' = Append(functors \o pendingFunctors_, f)
    BY <1>0, <1>3, ConcatAppend
  <2> QED
    BY <1>3, <2>1, <2>2 DEF TQ!Post, TQ!Range, Range
<1>4. ASSUME NEW f \in Functors, RunInLoopHere(f) PROVE TQ!RunNow(f)
  <2>1. f \notin Range(functors \o pendingFunctors_)
    BY <1>0, <1>4, ConcatRange DEF RunInLoopHere, Free
  <2> QED
    BY <1>4, <2>1 DEF RunInLoopHere, loopVars, TQ!RunNow, TQ!Range, Range
<1>5. ASSUME NEW f \in Functors, QueueInLoopHere(f) PROVE TQ!Post(f)
  BY <1>3, <1>5 DEF QueueInLoopHere, loopVars
<1>6. ASSUME NEW t \in Threads, NEW f \in Functors, QueueInLoop(t, f) PROVE TQ!Post(f)
  BY <1>3, <1>6 DEF QueueInLoop, loopVars
<1>7. CASE UNCHANGED <<functors, pendingFunctors_, lastRun>>
  BY <1>7 DEF TQ!vars
<1>8. ASSUME \/ Loop \/ While \/ PollTimesOut \/ HandlerReturns
             \/ EnterDoPendingFunctors \/ FunctorReturns \/ LeaveDoPendingFunctors
             \/ QuitHere \/ UNCHANGED vars
             \/ \E ready \in SUBSET Channels : PollReturns(ready)
             \/ \E c \in Channels \cup {Wakeup} : HandleEvent(c)
             \/ \E t \in Threads : Quit(t) \/ CallWakeup(t)
      PROVE  UNCHANGED <<functors, pendingFunctors_, lastRun>>
  BY <1>8, Zenon DEF Loop, While, PollTimesOut, HandlerReturns, EnterDoPendingFunctors,
              FunctorReturns, LeaveDoPendingFunctors, QuitHere, PollReturns,
              HandleEvent, Quit, CallWakeup, loopVars, vars
<1> QED
  BY <1>1, <1>2, <1>4, <1>5, <1>6, <1>7, <1>8
     DEF Next, LoopStep, CallHere, CallFrom, TQ!Next

\* EventLoop is a FIFO task queue: each functor handed to QueueInLoop, or to
\* RunInLoop from another thread, runs at most once and in queueing order.
THEOREM ImplementsTaskQueue == Spec => IsTaskQueue
<1>1. Init => TQ!Init /\ BatchInv
  BY DEF Init, TQ!Init, BatchInv
<1> QED
  BY <1>1, FlagsFollowLoop, BatchInvStep, TaskQueueStep, PTL DEF Spec, IsTaskQueue, TQ!Spec

(***************************************************************************)
(* The loop in an EventLoopThread.                                         *)
(***************************************************************************)
\* The destructor is past its quit().
DestructorHasQuit == own \in {"wakeup", "join", "destroyed"}

\* loop() has returned, or is about to make threadFunc return.
LoopIsOver == (thr = "looping" /\ pc = "outside") \/ thr \in {"unlock", "exited"}

(***************************************************************************)
(* The owner and threadFunc keep in step through loop_ alone.  What makes  *)
(* the properties inductive is where each of the two is when the other is  *)
(* at a given place, and who is to be blamed for a quit_ that is set and   *)
(* for a loop that has ended.                                              *)
(***************************************************************************)
ThreadInv ==
    /\ DanglesOnlyInQuit
    /\ NoThreadLeftLooping
    /\ quit_ \in BOOLEAN
    /\ own = "constructed" <=> thr = "none"
    /\ own \in {"constructed", "waiting"} \/ thr \notin {"none", "init"}
    /\ thr = "looping" \/ pc = "outside"
    /\ LoopIsOver => quit_
    /\ quit_ => quitBy \/ DestructorHasQuit

\* A step of Loop() leaves quit_ alone once Loop() is entered, and returns only if
\* it is set.
LEMMA LoopStepEffect ==
  ASSUME pc # "outside", LoopStep
  PROVE  quit_' = quit_ /\ (pc' = "outside" => quit_)
BY DEF LoopStep, Loop, While, PollReturns, PollTimesOut,
       HandleEvent, HandlerReturns, EnterDoPendingFunctors, SwapPending,
       RunFunctor, FunctorReturns, LeaveDoPendingFunctors

\* A call in the loop thread moves the loop nowhere; it may set quit_.
LEMMA CallHereEffect ==
  ASSUME CallHere
  PROVE  pc' = pc /\ (quit_' = quit_ \/ quit_' = TRUE)
BY DEF CallHere, QuitHere, QueueInLoopHere, RunInLoopHere, loopVars

\* Nor does a call in another thread; Quit sets quit_.
LEMMA CallFromEffect ==
  ASSUME NEW t \in Threads, CallFrom(t)
  PROVE  pc' = pc /\ (quit_' = quit_ \/ quit_' = TRUE)
BY DEF CallFrom, Quit, CallWakeup, QueueInLoop, loopVars

\* Every step of the owner, of threadFunc, of the loop and of its users keeps
\* ThreadInv.
LEMMA ThreadInvStep == ThreadInv /\ [ThreadNext]_threadVars => ThreadInv'
<1> SUFFICES ASSUME ThreadInv, [ThreadNext]_threadVars PROVE ThreadInv'
  OBVIOUS
<1> USE DEF ThreadInv, DanglesOnlyInQuit, ThreadTypeOK, PointerValid, LateOnlyAfterQuit, MembersOutliveThread,
            NoThreadLeftLooping, DestructorHasQuit, LoopIsOver, vars, loopVars
<1>1. CASE StartLoop
  BY <1>1 DEF StartLoop
<1>2. CASE StartLoopReturns
  BY <1>2 DEF StartLoopReturns
<1>3. CASE Destructor
  BY <1>3 DEF Destructor
<1>4. CASE DestructorQuits
  BY <1>4 DEF DestructorQuits, Quit, loopVars
<1>5. CASE DestructorWakes
  BY <1>5 DEF DestructorWakes, CallWakeup, loopVars
<1>6. CASE DestructorJoins
  BY <1>6 DEF DestructorJoins
<1>7. CASE Publish
  BY <1>7 DEF Publish
<1>8. CASE EnterLoop
  BY <1>8, Zenon DEF EnterLoop, Loop
<1>9. CASE Unpublish
  BY <1>9, Zenon DEF Unpublish
<1>10. CASE ExitThread
  BY <1>10 DEF ExitThread
<1>11. CASE LoopWorks
  <2>1. CASE thr = "looping" /\ pc # "outside" /\ LoopStep
    BY <1>11, <2>1, LoopStepEffect DEF LoopWorks
  <2>2. CASE CallHere
    BY <1>11, <2>2, CallHereEffect, Zenon DEF LoopWorks
  <2> QED
    BY <1>11, <2>1, <2>2 DEF LoopWorks
<1>12. ASSUME NEW t \in Threads, UserCalls(t) PROVE ThreadInv'
  BY <1>12, CallFromEffect, Zenon DEF UserCalls
<1>13. CASE UNCHANGED threadVars
  BY <1>13 DEF threadVars
<1> QED
  BY <1>1, <1>2, <1>3, <1>4, <1>5, <1>6, <1>7, <1>8, <1>9, <1>10, <1>11, <1>12, <1>13, Zenon
     DEF ThreadNext, OwnerStep, ThreadStep

\* The invariant holds from the construction of the EventLoopThread on.
LEMMA ThreadInvHolds == ThreadSpec => []ThreadInv
<1>1. ThreadInit => ThreadInv
  BY Zenon DEF ThreadInit, Init, ThreadInv, DanglesOnlyInQuit, ThreadTypeOK, PointerValid, LateOnlyAfterQuit,
         MembersOutliveThread, NoThreadLeftLooping, DestructorHasQuit, LoopIsOver
<1> QED
  BY <1>1, ThreadInvStep, PTL DEF ThreadSpec

\* When only the destructor quits the loop, the pointer that startLoop returns stays good
\* up to the store of quit_, and threadFunc is done with mutex_ and loop_ before they go;
\* quit()'s wakeup() may find the loop gone only because it has seen quit_.
THEOREM PointersValid == ThreadSpec => []DanglesOnlyInQuit
BY ThreadInvHolds, PTL DEF ThreadInv

\* Whoever quits the loop, ~EventLoopThread leaves no thread in or before its loop.
THEOREM ThreadEnds == ThreadSpec => []NoThreadLeftLooping
BY ThreadInvHolds, PTL DEF ThreadInv

\* threadFunc, startLoop and the destructor use the loop as EventLoop allows: every
\* behaviour of an EventLoopThread is one of its EventLoop.
THEOREM ThreadUsesLoop == ThreadSpec => Spec
<1>1. ASSUME [ThreadNext]_threadVars PROVE [Next]_vars
  <2>1. CASE StartLoop \/ StartLoopReturns \/ Destructor \/ DestructorJoins
    BY <2>1, Zenon DEF StartLoop, StartLoopReturns, Destructor, DestructorJoins
  <2>2. CASE DestructorQuits \/ DestructorWakes
    BY <2>2, LoopThreadAssumption, Zenon DEF DestructorQuits, DestructorWakes, Next, CallFrom
  <2>3. CASE Publish \/ Unpublish \/ ExitThread
    BY <2>3, Zenon DEF Publish, Unpublish, ExitThread
  <2>4. CASE EnterLoop
    BY <2>4, Zenon DEF EnterLoop, Next, LoopStep
  <2>5. CASE LoopWorks
    BY <2>5, Zenon DEF LoopWorks, Next
  <2>6. ASSUME NEW t \in Threads, UserCalls(t) PROVE Next
    BY <2>6, Zenon DEF UserCalls, Next
  <2>7. CASE UNCHANGED threadVars
    BY <2>7, Zenon DEF threadVars
  <2> QED
    BY <1>1, <2>1, <2>2, <2>3, <2>4, <2>5, <2>6, <2>7, Zenon
       DEF ThreadNext, OwnerStep, ThreadStep
<1>2. ThreadInit => Init
  BY DEF ThreadInit
<1> QED
  BY <1>1, <1>2, PTL DEF ThreadSpec, Spec

\* What EventLoop promises is therefore kept in the EventLoopThread: no functor and no quit
\* is slept over, up to the destructor's own, and functors run in order and once.
THEOREM ThreadKeepsPromises == ThreadSpec => []NothingLost /\ IsTaskQueue
BY ThreadUsesLoop, NoLostWakeups, ImplementsTaskQueue, PTL
=============================================================================
