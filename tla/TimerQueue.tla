----------------------------- MODULE TimerQueue -----------------------------
(***************************************************************************)
(* TimerQueue (src/src/network/TimerQueue.cc): the timers of one loop,     *)
(* kept in two sets of raw pointers and driven by one timerfd.             *)
(*                                                                         *)
(* Timer objects live at addresses that are reused once freed.  Other      *)
(* threads add and cancel through the loop's functor queue (RunInLoop);    *)
(* the loop thread does so directly, in a timer's callback (calling TRUE)  *)
(* or in any other callback.  Timestamps are wall-clock ticks, the timerfd *)
(* counts ticks of the monotonic clock; a tick is the 100us below which    *)
(* HowMuchTimeFromNow does not go.                                         *)
(***************************************************************************)
EXTENDS Integers, Sequences, FiniteSets, FiniteSetsExt

CONSTANTS Threads,     (* threads other than the loop's                     *)
          Addrs,       (* addresses a Timer can have                        *)
          Intervals,   (* intervals in ticks; 0: the timer does not repeat  *)
          MaxTime,     (* bound: the last wall-clock time                   *)
          MaxSeq,      (* bound: how many timers are ever created           *)
          ClockSteps,  (* bound: how often the wall clock is stepped        *)
          Null         (* no timer, no id, a disarmed timerfd               *)

ASSUME TimerQueueAssumption ==
    /\ Intervals \subseteq Nat /\ \E longest \in Intervals : \A i \in Intervals : i <= longest
    /\ Null \notin Nat /\ Null \notin [seq : Nat, exp : Nat, interval : Nat]
    /\ MaxTime \in Nat \ {0}
    /\ MaxSeq \in Nat
    /\ ClockSteps \in Nat

VARIABLES
    now,                    (* the wall clock                                *)
    steps,                  (* how often it has been stepped                 *)
    timerfd,                (* ticks left, 0 when readable, Null if disarmed *)
    heap,                   (* heap[a]: the Timer at a, or Null              *)
    sNumCreated,
    timers_,                (* entries <<expiration, address>>               *)
    activeTimers_,          (* pairs <<address, sequence>>                   *)
    cancelingTimers_,
    polled,                 (* poll has reported the timerfd, for HandleRead *)
    callingExpiredTimers_,
    expired,                (* HandleRead's local vector                     *)
    toRun,                  (* the part of it that has yet to run            *)
    handleNow,              (* HandleRead's now                              *)
    queue,                  (* functors of this component queued in the loop *)
    adding,                 (* adding[t]: t's Timer, while t is in AddTimer  *)
    ids,                    (* the TimerIds that AddTimer returned           *)
    cancelled               (* history: the sequences that CancelInLoop      *)
                            (* found added (TRUE) or not (FALSE)             *)

handleVars == <<polled, callingExpiredTimers_, expired, toRun, handleNow>>
setVars == <<timers_, activeTimers_>>
vars == <<now, steps, timerfd, heap, sNumCreated, setVars, cancelingTimers_, handleVars,
          queue, adding, ids, cancelled>>

Init ==
    /\ now = 1 /\ steps = 0
    /\ timerfd = Null
    /\ heap = [a \in Addrs |-> Null]
    /\ sNumCreated = 0
    /\ timers_ = {} /\ activeTimers_ = {} /\ cancelingTimers_ = {}
    /\ polled = FALSE /\ callingExpiredTimers_ = FALSE
    /\ expired = {} /\ toRun = {}
    /\ handleNow = 0
    /\ queue = <<>>
    /\ adding = [t \in Threads |-> Null]
    /\ ids = {}
    /\ cancelled = {}

\* The expirations that occur: those asked for, and those of repeated timers.
Times == 1..(MaxTime + Max(Intervals))

Time(entries) == {e[1] : e \in entries}

\* HowMuchTimeFromNow, the argument of timerfd_settime.
HowMuchTimeFromNow(when) == Max({when - now, 1})

\* Insert's result: the new timer is the first to expire.
EarliestChanged(when, entries) ==
    entries = {} \/ when < Min(Time(entries))

(***************************************************************************)
(* The functors, as the loop thread runs them.                             *)
(***************************************************************************)
\* AddTimerInLoop on the Timer tm at address a: Insert, and re-arm when it is the
\* first to expire.
AddTimerInLoop(a, tm) ==
    /\ timers_' = timers_ \cup {<<tm.exp, a>>}
    /\ activeTimers_' = activeTimers_ \cup {<<a, tm.seq>>}
    /\ timerfd' = IF EarliestChanged(tm.exp, timers_)
                  THEN HowMuchTimeFromNow(tm.exp) ELSE timerfd
    /\ UNCHANGED cancelled

\* CancelInLoop: an active timer is deleted; one that is being handled is noted for
\* Reset; any other id is ignored.
CancelInLoop(id) ==
    LET a == id[1]
        active == id \in activeTimers_
    IN  /\ timers_' = IF active THEN timers_ \ {<<heap[a].exp, a>>} ELSE timers_
        /\ activeTimers_' = activeTimers_ \ {id}
        /\ heap' = IF active THEN [heap EXCEPT ![a] = Null] ELSE heap
        /\ cancelingTimers_' = IF ~active /\ callingExpiredTimers_
                               THEN cancelingTimers_ \cup {id} ELSE cancelingTimers_
        /\ cancelled' = cancelled \cup
               {<<id[2], active \/ \E e \in expired : e[2] = a /\ heap[a].seq = id[2]>>}
        /\ UNCHANGED timerfd

(***************************************************************************)
(* The public calls.                                                       *)
(***************************************************************************)
\* A Timer to be placed at a free address.
NewTimer(when, interval) == [seq |-> sNumCreated, exp |-> when, interval |-> interval]

Allocate(a, tm) ==
    /\ heap[a] = Null
    /\ sNumCreated < MaxSeq
    /\ sNumCreated' = sNumCreated + 1
    /\ heap' = [heap EXCEPT ![a] = tm]

\* AddTimer in the loop thread: RunInLoop runs AddTimerInLoop within the call.
AddTimerHere(a, when, interval) ==
    LET tm == NewTimer(when, interval)
    IN  /\ Allocate(a, tm)
        /\ AddTimerInLoop(a, tm)
        /\ ids' = ids \cup {<<a, tm.seq>>}
        /\ UNCHANGED <<now, steps, cancelingTimers_, handleVars, queue, adding>>

\* AddTimer in thread t, up to the return of RunInLoop ...
AddTimer(t, a, when, interval) ==
    LET tm == NewTimer(when, interval)
    IN  /\ adding[t] = Null
        /\ Allocate(a, tm)
        /\ queue' = Append(queue, [op |-> "add", id |-> <<a, tm.seq>>])
        /\ adding' = [adding EXCEPT ![t] = <<a, tm.seq>>]
        /\ UNCHANGED <<now, steps, timerfd, setVars, cancelingTimers_, handleVars, ids, cancelled>>

\* ... and its last statement, which reads the sequence from the Timer.  If the
\* Timer is freed by then it may read the old sequence, that of a Timer placed
\* there since, or one that is no timer's.
AddTimerReturns(t) ==
    LET a == adding[t][1]
    IN  /\ adding[t] # Null
        /\ adding' = [adding EXCEPT ![t] = Null]
        /\ \/ heap[a] # Null /\ ids' = ids \cup {<<a, heap[a].seq>>}
           \/ heap[a] = Null /\ ids' \in {ids, ids \cup {adding[t]}}
        /\ UNCHANGED <<now, steps, timerfd, heap, sNumCreated, setVars, cancelingTimers_,
                       handleVars, queue, cancelled>>

\* Cancel in the loop thread.
CancelHere(id) ==
    /\ CancelInLoop(id)
    /\ UNCHANGED <<now, steps, sNumCreated, handleVars, queue, adding, ids>>

\* Cancel in another thread.
Cancel(id) ==
    /\ \A i \in DOMAIN queue : queue[i] # [op |-> "cancel", id |-> id]
    /\ queue' = Append(queue, [op |-> "cancel", id |-> id])
    /\ UNCHANGED <<now, steps, timerfd, heap, sNumCreated, setVars, cancelingTimers_,
                   handleVars, adding, ids, cancelled>>

\* DoPendingFunctors reaches the next functor of this component.
RunQueued ==
    /\ ~polled /\ ~callingExpiredTimers_
    /\ queue # <<>>
    /\ queue' = Tail(queue)
    /\ LET id == Head(queue).id
       IN  \/ Head(queue).op = "cancel" /\ CancelInLoop(id)
           \/ /\ Head(queue).op = "add"
              /\ AddTimerInLoop(id[1], heap[id[1]])
              /\ UNCHANGED <<heap, cancelingTimers_>>
    /\ UNCHANGED <<now, steps, sNumCreated, handleVars, adding, ids>>

(***************************************************************************)
(* HandleRead, the callback of timerfdChannel_.                            *)
(***************************************************************************)
\* Mutant: the time is that of the last read.
GetExpiredStale == {e \in timers_ : e[1] <= handleNow}

\* What GetExpired moves out of timers_: the entries below its sentry.
GetExpired == {e \in timers_ : e[1] <= now}

\* activeTimers_ once GetExpired has erased the timers that are due.
ActiveAfter(due) == activeTimers_ \ {<<e[2], heap[e[2]].seq>> : e \in due}

\* epoll_wait reports the timerfd.  The handlers of other channels may come before
\* HandleRead.
Poll ==
    /\ timerfd = 0
    /\ ~polled /\ ~callingExpiredTimers_
    /\ polled' = TRUE
    /\ UNCHANGED <<now, steps, timerfd, heap, sNumCreated, setVars, cancelingTimers_,
                   callingExpiredTimers_, expired, toRun, handleNow, queue, adding, ids, cancelled>>

\* The timerfd is read, which disarms it, or fails if it was re-armed since the poll,
\* and GetExpired moves out the timers that are due.
HandleRead ==
    LET due == GetExpired
    IN  /\ polled /\ ~callingExpiredTimers_
        /\ polled' = FALSE
        /\ timerfd' = IF timerfd = 0 THEN Null ELSE timerfd
        /\ handleNow' = now
        /\ expired' = due
        /\ toRun' = due
        /\ timers_' = timers_ \ due
        /\ activeTimers_' = ActiveAfter(due)
        /\ callingExpiredTimers_' = TRUE
        /\ cancelingTimers_' = {}
        /\ UNCHANGED <<now, steps, heap, sNumCreated, queue, adding, ids, cancelled>>

\* The next callback, in order of expiration.  Its calls follow.
Run(e) ==
    /\ callingExpiredTimers_
    /\ e \in toRun
    /\ e[1] = Min(Time(toRun))
    /\ toRun' = toRun \ {e}
    /\ UNCHANGED <<now, steps, timerfd, heap, sNumCreated, setVars, cancelingTimers_, polled,
                   callingExpiredTimers_, expired, handleNow, queue, adding, ids, cancelled>>

\* Mutant: a timer cancelled in a callback is restarted all the same.
RestartsAll(e) == heap[e[2]].interval > 0

\* Reset's condition for restarting an expired timer rather than deleting it.
Restarts(e) ==
    /\ heap[e[2]].interval > 0
    /\ <<e[2], heap[e[2]].seq>> \notin cancelingTimers_

\* Mutant: the Timer keeps its old expiration.
RestartForgets(tm) == tm

\* Timer::Restart, on a timer that repeats.
Restart(tm) == [tm EXCEPT !.exp = handleNow + tm.interval]

\* Mutant: the timerfd is re-armed only when Reset restarted a timer.
NextExpireRestarted(entries, restarted) ==
    IF restarted = {} THEN Null ELSE HowMuchTimeFromNow(Min(Time(entries)))

\* What Reset leaves in the timerfd.
NextExpire(entries, restarted) ==
    IF entries = {} THEN timerfd ELSE HowMuchTimeFromNow(Min(Time(entries)))

\* All callbacks have run: Reset restarts or deletes each expired timer and re-arms
\* the timerfd for the first one left.
Reset ==
    LET restarted == {e[2] : e \in {x \in expired : Restarts(x)}}
        deleted == {e[2] : e \in expired} \ restarted
        entries == timers_ \cup {<<handleNow + heap[a].interval, a>> : a \in restarted}
    IN  /\ callingExpiredTimers_
        /\ toRun = {}
        /\ callingExpiredTimers_' = FALSE
        /\ heap' = [a \in Addrs |->
                      IF a \in deleted THEN Null
                      ELSE IF a \in restarted
                           THEN Restart(heap[a])
                           ELSE heap[a]]
        /\ timers_' = entries
        /\ activeTimers_' = activeTimers_ \cup {<<a, heap[a].seq>> : a \in restarted}
        /\ timerfd' = NextExpire(entries, restarted)
        /\ expired' = {}
        /\ handleNow' = 0
        /\ UNCHANGED <<now, steps, sNumCreated, cancelingTimers_, polled, toRun, queue, adding,
                       ids, cancelled>>

(***************************************************************************)
(* Time.                                                                   *)
(***************************************************************************)
\* A tick of both clocks; the wall clock stops at its bound.
Tick ==
    /\ now < MaxTime \/ timerfd \notin {0, Null}
    /\ now' = Min({now + 1, MaxTime})
    /\ timerfd' = IF timerfd \in {0, Null} THEN timerfd ELSE timerfd - 1
    /\ UNCHANGED <<steps, heap, sNumCreated, setVars, cancelingTimers_, handleVars, queue,
                   adding, ids, cancelled>>

\* The wall clock is set, forwards or backwards.
StepClock ==
    /\ steps < ClockSteps
    /\ steps' = steps + 1
    /\ now' \in 1..MaxTime
    /\ UNCHANGED <<timerfd, heap, sNumCreated, setVars, cancelingTimers_, handleVars,
                   queue, adding, ids, cancelled>>

Call == \/ \E a \in Addrs, when \in Times, i \in Intervals :
              AddTimerHere(a, when, i) \/ \E t \in Threads : AddTimer(t, a, when, i)
        \/ \E t \in Threads : AddTimerReturns(t)
        \/ \E id \in ids : CancelHere(id) \/ Cancel(id)

Next == \/ Call \/ RunQueued \/ Poll \/ HandleRead \/ Reset \/ Tick \/ StepClock
        \/ \E e \in toRun : Run(e)

Spec == Init /\ [][Next]_vars

\* Time passes, the loop goes on polling and running functors, callbacks return.
Fairness == /\ WF_vars(Tick) /\ WF_vars(Poll) /\ WF_vars(HandleRead) /\ WF_vars(Reset)
            /\ WF_vars(RunQueued) /\ WF_vars(\E e \in toRun : Run(e))

FairSpec == Spec /\ Fairness
-----------------------------------------------------------------------------
Entries == Times \X Addrs
Ids == Addrs \X (0..MaxSeq)

\* The types of the sets of pointers, the clock, the timerfd and the calls under way.
TypeOK ==
    /\ now \in 1..MaxTime /\ handleNow \in 0..MaxTime /\ steps \in 0..ClockSteps
    /\ timerfd \in Times \cup {0, Null}
    /\ heap \in [Addrs -> [seq : 0..MaxSeq, exp : Times, interval : Intervals]
                          \cup {Null}]
    /\ sNumCreated \in 0..MaxSeq
    /\ timers_ \subseteq Entries /\ toRun \subseteq expired /\ expired \subseteq Entries
    /\ activeTimers_ \subseteq Ids /\ cancelingTimers_ \subseteq Ids /\ ids \subseteq Ids
    /\ polled \in BOOLEAN /\ callingExpiredTimers_ \in BOOLEAN
    /\ queue \in Seq([op : {"add", "cancel"}, id : Ids])
    /\ adding \in [Threads -> Ids \cup {Null}]

\* The two sets describe the same live timers: every entry of timers_ points to a
\* Timer that has not been freed and has the entry's expiration, and activeTimers_
\* holds exactly those timers under their sequences.  All the assertions on sizes,
\* insertions and erasures rest on this.
SetsAgree ==
    /\ \A e \in timers_ : heap[e[2]] # Null /\ heap[e[2]].exp = e[1]
    /\ activeTimers_ = {<<e[2], heap[e[2]].seq>> : e \in timers_}
    /\ Cardinality(timers_) = Cardinality(activeTimers_)

\* While HandleRead runs callbacks, the Timers of its vector are alive and no longer
\* active: no callback's Cancel frees a Timer that is still to run or to be reset.
ExpiredAlive ==
    \A e \in expired : heap[e[2]] # Null /\ \A x \in activeTimers_ : x[1] # e[2]

\* The sets of raw pointers, the vector of expired timers and the Timer objects agree,
\* through Insert, Cancel, GetExpired and Reset.
TimersConsistent == TypeOK /\ SetsAgree /\ ExpiredAlive

\* The timerfd is never left disarmed over a timer, also when the earliest one is
\* cancelled, and when the wall clock is stepped.
Armed == timers_ # {} => timerfd # Null \/ callingExpiredTimers_

\* It goes off no later than the earliest timer is due, but for the one tick that
\* HowMuchTimeFromNow adds to a timer already due, if the wall clock is not stepped.
ArmedInTime ==
    timers_ # {} /\ ~callingExpiredTimers_ /\ steps = 0 =>
        timerfd # Null /\ timerfd <= Max({1, Min(Time(timers_)) - now})

\* While there is a timer the timerfd is armed for it, by Insert or by Reset, and in time
\* for the earliest.
TimerfdArmed == Armed /\ ArmedInTime

\* A timer that Cancel has found, in the queue or among those being handled (a
\* timer may cancel itself), is not active again.
CancelIsFinal == \A id \in activeTimers_ : <<id[2], TRUE>> \notin cancelled

\* A timer that is due does not stay so: it is run or cancelled, however the clock
\* is stepped.
Due(a) == \E e \in timers_ : e[2] = a /\ e[1] <= now
DueTimerRuns == \A a \in Addrs : Due(a) ~> ~Due(a)

\* AddTimer is safe to call from other threads: the Timer whose sequence it reads
\* before it returns is still the one it created.
AddTimerReadsItsTimer ==
    \A t \in Threads : adding[t] # Null =>
        heap[adding[t][1]] # Null /\ heap[adding[t][1]].seq = adding[t][2]
=============================================================================
