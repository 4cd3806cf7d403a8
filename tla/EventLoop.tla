----------------------------- MODULE EventLoop -----------------------------
(***************************************************************************)
(* EventLoop (src/src/network/EventLoop.cc): the reactor of one thread.    *)
(*                                                                         *)
(* The loop thread runs Loop(): poll, handle the active channels, run the  *)
(* pending functors, again, until quit_ is seen.  Other threads hand it    *)
(* functors through pendingFunctors_ (under mutex_) and get it out of poll *)
(* by writing to the eventfd wakeupFd_.  Each step below is one access to  *)
(* state that the two sides share; what only the loop thread touches in    *)
(* between is part of the step.                                            *)
(*                                                                         *)
(* Callbacks are user code: while one runs (pc "handler" or "functor") the *)
(* loop thread may make any call of the public interface, any number of    *)
(* times.                                                                  *)
(***************************************************************************)
EXTENDS Naturals, Sequences, Functions

CONSTANTS Functors,    (* callbacks handed to RunInLoop and QueueInLoop     *)
          Threads,     (* the threads other than the loop's own             *)
          Channels,    (* the registered channels other than wakeupChannel_ *)
          Wakeup,      (* wakeupChannel_                                    *)
          NoFunctor,   (* no functor has run yet                            *)
          MaxCount     (* the value at which the eventfd's counter is full  *)

ASSUME EventLoopAssumption ==
    /\ NoFunctor \notin Functors
    /\ Wakeup \notin Channels
    /\ MaxCount \in Nat \ {0}

VARIABLES
    pc,                       (* where the loop thread is               *)
    looping_, quit_, callingPendingFunctors_,
    activeChannels_,          (* active and not yet handled             *)
    pendingFunctors_,
    functors,                 (* DoPendingFunctors' local vector        *)
    wakeupFd_,                (* the eventfd's counter                  *)
    call,                     (* call[t]: "none", or "wakeup" when t is *)
                              (* past its store and has yet to wake up  *)
    lastRun,                  (* history: the functor run last          *)
    silent                    (* history: the functors queued by the    *)
                              (* loop thread while Loop() is not running *)

loopVars == <<pc, looping_, callingPendingFunctors_, activeChannels_, functors>>
vars == <<loopVars, quit_, pendingFunctors_, wakeupFd_, call, lastRun, silent>>

\* Init: the constructor.
Init ==
    /\ pc = "outside"
    /\ looping_ = FALSE
    /\ quit_ = FALSE
    /\ callingPendingFunctors_ = FALSE
    /\ activeChannels_ = {}
    /\ pendingFunctors_ = <<>>
    /\ functors = <<>>
    /\ wakeupFd_ = 0
    /\ call = [t \in Threads |-> "none"]
    /\ lastRun = NoFunctor
    /\ silent = {}

\* A write of 1 to a non-blocking eventfd: it fails, and changes nothing, when
\* the counter is full.  The result is only logged.
WakeUp == wakeupFd_' = IF wakeupFd_ < MaxCount THEN wakeupFd_ + 1 ELSE wakeupFd_

(***************************************************************************)
(* The loop thread in Loop().                                              *)
(***************************************************************************)
\* The entry of Loop().  It resets quit_.
Loop ==
    /\ pc = "outside"
    /\ ~looping_
    /\ looping_' = TRUE
    /\ quit_' = FALSE
    /\ pc' = "while"
    /\ UNCHANGED <<callingPendingFunctors_, activeChannels_, functors,
                   pendingFunctors_, wakeupFd_, call, lastRun, silent>>

\* while (!quit_): enter poll, or leave Loop().
While ==
    /\ pc = "while"
    /\ \/ /\ ~quit_
          /\ pc' = "poll"
          /\ activeChannels_' = {}
          /\ UNCHANGED looping_
       \/ /\ quit_
          /\ pc' = "outside"
          /\ looping_' = FALSE
          /\ UNCHANGED activeChannels_
    /\ UNCHANGED <<callingPendingFunctors_, functors, quit_, pendingFunctors_,
                   wakeupFd_, call, lastRun, silent>>

\* poll returns because file descriptors are ready.  The eventfd is watched
\* level-triggered: it is reported whenever its counter is not zero.
PollReturns(ready) ==
    /\ pc = "poll"
    /\ activeChannels_' = ready \cup (IF wakeupFd_ > 0 THEN {Wakeup} ELSE {})
    /\ activeChannels_' # {}
    /\ pc' = "events"
    /\ UNCHANGED <<looping_, callingPendingFunctors_, functors, quit_,
                   pendingFunctors_, wakeupFd_, call, lastRun, silent>>

\* poll returns after kPollTimeMs with nothing ready.
PollTimesOut ==
    /\ pc = "poll"
    /\ wakeupFd_ = 0
    /\ pc' = "events"
    /\ UNCHANGED <<looping_, callingPendingFunctors_, activeChannels_, functors,
                   quit_, pendingFunctors_, wakeupFd_, call, lastRun, silent>>

\* handleEvent on the next active channel: HandleWakeUp reads the eventfd, which
\* empties it; any other channel runs user callbacks.
HandleEvent(c) ==
    /\ pc = "events"
    /\ c \in activeChannels_
    /\ activeChannels_' = activeChannels_ \ {c}
    /\ IF c = Wakeup THEN wakeupFd_' = 0 /\ UNCHANGED pc
                     ELSE pc' = "handler" /\ UNCHANGED wakeupFd_
    /\ UNCHANGED <<looping_, callingPendingFunctors_, functors, quit_,
                   pendingFunctors_, call, lastRun, silent>>

HandlerReturns ==
    /\ pc = "handler"
    /\ pc' = "events"
    /\ UNCHANGED <<looping_, callingPendingFunctors_, activeChannels_, functors,
                   quit_, pendingFunctors_, wakeupFd_, call, lastRun, silent>>

\* All active channels are handled: DoPendingFunctors sets its flag ...
EnterDoPendingFunctors ==
    /\ pc = "events"
    /\ activeChannels_ = {}
    /\ callingPendingFunctors_' = TRUE
    /\ pc' = "swap"
    /\ UNCHANGED <<looping_, activeChannels_, functors, quit_, pendingFunctors_,
                   wakeupFd_, call, lastRun, silent>>

\* Mutant: the queue is copied instead of swapped.
SwapPendingCopies ==
    /\ pc = "swap"
    /\ functors' = pendingFunctors_
    /\ silent' = {}
    /\ pc' = "run"
    /\ UNCHANGED <<looping_, callingPendingFunctors_, activeChannels_, quit_,
                   pendingFunctors_, wakeupFd_, call, lastRun>>

\* ... takes the whole queue, under mutex_ ...
SwapPending ==
    /\ pc = "swap"
    /\ functors' = pendingFunctors_
    /\ pendingFunctors_' = <<>>
    /\ silent' = {}
    /\ pc' = "run"
    /\ UNCHANGED <<looping_, callingPendingFunctors_, activeChannels_, quit_,
                   wakeupFd_, call, lastRun>>

\* Mutant: no local vector, functors queued meanwhile join the batch.
RunFunctorLive ==
    /\ pc = "run"
    /\ functors # <<>>
    /\ lastRun' = Head(functors)
    /\ functors' = Tail(functors) \o pendingFunctors_
    /\ pendingFunctors_' = <<>>
    /\ pc' = "functor"
    /\ UNCHANGED <<looping_, callingPendingFunctors_, activeChannels_, quit_,
                   wakeupFd_, call, silent>>

\* ... runs what it took, in order ...
RunFunctor ==
    /\ pc = "run"
    /\ functors # <<>>
    /\ lastRun' = Head(functors)
    /\ functors' = Tail(functors)
    /\ pc' = "functor"
    /\ UNCHANGED <<looping_, callingPendingFunctors_, activeChannels_, quit_,
                   pendingFunctors_, wakeupFd_, call, silent>>

FunctorReturns ==
    /\ pc = "functor"
    /\ pc' = "run"
    /\ UNCHANGED <<looping_, callingPendingFunctors_, activeChannels_, functors,
                   quit_, pendingFunctors_, wakeupFd_, call, lastRun, silent>>

\* Mutant: quit_ is reset in every iteration.
LeaveDoPendingFunctorsResets ==
    /\ pc = "run"
    /\ functors = <<>>
    /\ callingPendingFunctors_' = FALSE
    /\ quit_' = FALSE
    /\ pc' = "while"
    /\ UNCHANGED <<looping_, activeChannels_, functors, pendingFunctors_,
                   wakeupFd_, call, lastRun, silent>>

\* Mutant: the flag is not cleared.
LeaveDoPendingFunctorsFlagged ==
    /\ pc = "run"
    /\ functors = <<>>
    /\ pc' = "while"
    /\ UNCHANGED <<looping_, callingPendingFunctors_, activeChannels_, functors, quit_,
                   pendingFunctors_, wakeupFd_, call, lastRun, silent>>

\* ... and clears the flag.
LeaveDoPendingFunctors ==
    /\ pc = "run"
    /\ functors = <<>>
    /\ callingPendingFunctors_' = FALSE
    /\ pc' = "while"
    /\ UNCHANGED <<looping_, activeChannels_, functors, quit_, pendingFunctors_,
                   wakeupFd_, call, lastRun, silent>>

LoopStep ==
    \/ Loop \/ While
    \/ (\E ready \in SUBSET Channels : PollReturns(ready)) \/ PollTimesOut
    \/ (\E c \in Channels \cup {Wakeup} : HandleEvent(c)) \/ HandlerReturns
    \/ EnterDoPendingFunctors \/ SwapPending
    \/ RunFunctor \/ FunctorReturns \/ LeaveDoPendingFunctors

(***************************************************************************)
(* Calls made in the loop thread: before or after Loop(), or in a callback.*)
(* No other step of the loop thread comes between their parts.             *)
(***************************************************************************)
InUserCode == pc \in {"outside", "handler", "functor"}

\* A functor object that is neither queued nor about to run: one that a caller
\* may hand over (a bound on the model, every call has its own object).
Free(f) == f \notin Range(pendingFunctors_) \cup Range(functors)

\* Mutant: the test of callingPendingFunctors_ is forgotten.
QueueInLoopHereQuiet(f) ==
    /\ InUserCode
    /\ Free(f)
    /\ pendingFunctors_' = Append(pendingFunctors_, f)
    /\ silent' = IF pc = "outside" THEN silent \cup {f} ELSE silent
    /\ UNCHANGED <<loopVars, quit_, wakeupFd_, call, lastRun>>

\* QueueInLoop in the loop thread: it wakes up only while functors are run.
QueueInLoopHere(f) ==
    /\ InUserCode
    /\ Free(f)
    /\ pendingFunctors_' = Append(pendingFunctors_, f)
    /\ IF callingPendingFunctors_ THEN WakeUp ELSE UNCHANGED wakeupFd_
    /\ silent' = IF pc = "outside" THEN silent \cup {f} ELSE silent
    /\ UNCHANGED <<loopVars, quit_, call, lastRun>>

\* RunInLoop in the loop thread: the functor runs within the call.
RunInLoopHere(f) ==
    /\ InUserCode
    /\ Free(f)
    /\ lastRun' = f
    /\ UNCHANGED <<loopVars, quit_, pendingFunctors_, wakeupFd_, call, silent>>

\* Quit in the loop thread: no wake-up.
QuitHere ==
    /\ InUserCode
    /\ quit_' = TRUE
    /\ UNCHANGED <<loopVars, pendingFunctors_, wakeupFd_, call, lastRun, silent>>

CallHere == QuitHere \/ \E f \in Functors : QueueInLoopHere(f) \/ RunInLoopHere(f)

(***************************************************************************)
(* Calls made in another thread t.  The wake-up is a step of its own.      *)
(***************************************************************************)
\* QueueInLoop, and RunInLoop which comes to the same, up to the unlock.
QueueInLoop(t, f) ==
    /\ call[t] = "none"
    /\ Free(f)
    /\ pendingFunctors_' = Append(pendingFunctors_, f)
    /\ call' = [call EXCEPT ![t] = "wakeup"]
    /\ UNCHANGED <<loopVars, quit_, wakeupFd_, lastRun, silent>>

\* Quit, up to its store.
Quit(t) ==
    /\ call[t] = "none"
    /\ quit_' = TRUE
    /\ call' = [call EXCEPT ![t] = "wakeup"]
    /\ UNCHANGED <<loopVars, pendingFunctors_, wakeupFd_, lastRun, silent>>

\* The wakeup() that ends both.
CallWakeup(t) ==
    /\ call[t] = "wakeup"
    /\ WakeUp
    /\ call' = [call EXCEPT ![t] = "none"]
    /\ UNCHANGED <<loopVars, quit_, pendingFunctors_, lastRun, silent>>

CallFrom(t) == Quit(t) \/ CallWakeup(t) \/ \E f \in Functors : QueueInLoop(t, f)

Next == LoopStep \/ CallHere \/ \E t \in Threads : CallFrom(t)

Spec == Init /\ [][Next]_vars

(***************************************************************************)
(* Fairness.  A thread that is inside the library and not blocked goes on, *)
(* and callbacks return.  Nothing is assumed of Loop() being called, of    *)
(* channels becoming ready, or of the poll timeout: a wake-up has to do    *)
(* without the timeout's help.                                             *)
(***************************************************************************)
PollWakes == wakeupFd_ > 0 /\ \E ready \in SUBSET Channels : PollReturns(ready)

Fairness ==
    /\ WF_vars(While) /\ WF_vars(PollWakes)
    /\ WF_vars(\E c \in Channels \cup {Wakeup} : HandleEvent(c))
    /\ WF_vars(HandlerReturns) /\ WF_vars(EnterDoPendingFunctors)
    /\ WF_vars(SwapPending) /\ WF_vars(RunFunctor)
    /\ WF_vars(FunctorReturns) /\ WF_vars(LeaveDoPendingFunctors)
    /\ \A t \in Threads : WF_vars(CallWakeup(t))

FairSpec == Spec /\ Fairness

-----------------------------------------------------------------------------
(***************************************************************************)
(* Properties.                                                             *)
(***************************************************************************)
\* Every variable is of its type.
TypeOK ==
    /\ pc \in {"outside", "while", "poll", "events", "handler", "swap", "run",
               "functor"}
    /\ looping_ \in BOOLEAN /\ quit_ \in BOOLEAN /\ callingPendingFunctors_ \in BOOLEAN
    /\ activeChannels_ \subseteq Channels \cup {Wakeup}
    /\ pendingFunctors_ \in Seq(Functors)
    /\ functors \in Seq(Functors)
    /\ wakeupFd_ \in 0..MaxCount
    /\ call \in [Threads -> {"none", "wakeup"}]
    /\ lastRun \in Functors \cup {NoFunctor}
    /\ silent \subseteq Functors

\* The flags tell where the loop thread is, in every iteration and every call of Loop(),
\* whatever its callbacks do: looping_, on which Loop() asserts, is set exactly inside
\* Loop(), and callingPendingFunctors_, by which QueueInLoop decides whether it has to
\* wake its own loop up, exactly inside DoPendingFunctors.
FlagsExact ==
    /\ TypeOK
    /\ looping_ <=> pc # "outside"
    /\ callingPendingFunctors_ <=> pc \in {"swap", "run", "functor"}

\* poll will return by itself: the eventfd is readable or about to be.
WakeupComing == wakeupFd_ > 0 \/ \E t \in Threads : call[t] = "wakeup"

\* No lost wake-up (QueueInLoop's condition on wakeup()): when the loop sleeps in
\* poll over a queued functor, a wake-up is on its way, whichever thread and
\* callback queued it.  The exception is the code's own: a functor queued in the
\* loop thread while Loop() is not running waits for the next event or timeout.
NoLostWakeup ==
    pc = "poll" => \/ WakeupComing
                   \/ \A i \in DOMAIN pendingFunctors_ : pendingFunctors_[i] \in silent

\* No lost quit: when the loop sleeps in poll although quit_ is set, Quit's
\* wake-up is on its way.
NoLostQuit == pc = "poll" /\ quit_ => WakeupComing

\* Nothing asked of the loop is lost: it sleeps in poll over neither a functor that
\* QueueInLoop was given nor a quit_ that Quit has set.
NothingLost == NoLostWakeup /\ NoLostQuit

\* A queued functor runs, or the loop ends, without help of the poll timeout.
FunctorRuns ==
    \A f \in Functors :
        (looping_ /\ ~Free(f) /\ f \notin silent) ~> (Free(f) \/ ~looping_)

\* Quit on a running loop ends it, again without the timeout's help.
QuitStops == (looping_ /\ quit_) ~> ~looping_

\* What QueueInLoop and Quit ask of a running loop is done, without the poll timeout.
RequestsServed == FunctorRuns /\ QuitStops

\* A run of DoPendingFunctors ends even if its functors keep queueing themselves
\* again: the queue is taken once, so polling is not starved.
DoPendingFunctorsReturns == (pc = "run") ~> (pc = "while")

\* The loop is a FIFO task queue: functors run once each, in the order in which
\* the calls took mutex_, whichever thread they come from and however the
\* batches fall.
TQ == INSTANCE TaskQueue WITH Task <- Functors, None <- NoFunctor,
                              queue <- functors \o pendingFunctors_,
                              last <- lastRun
IsTaskQueue == TQ!Spec
=============================================================================
