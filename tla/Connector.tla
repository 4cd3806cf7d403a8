----------------------------- MODULE Connector -----------------------------
(***************************************************************************)
(* Connector (src/src/network/Connector.cc): connects to a server, and     *)
(* tries again after a growing delay until it succeeds or is stopped.      *)
(*                                                                         *)
(* The loop polls (the channel's events, timers), then runs the batch of   *)
(* functors that were queued.  Start and Stop are called in the loop's     *)
(* thread between its handlers, or by another thread, which first stores   *)
(* connect_ and then queues a functor.  Restart is called in the loop's    *)
(* thread when the connection that was handed over is at its end.  An      *)
(* iteration of the loop is shorter than kInitRetryDelayMs: a timer set by *)
(* a functor does not fire in the poll that follows.                       *)
(***************************************************************************)
EXTENDS Naturals, Sequences, FiniteSetsExt

CONSTANTS Threads,          (* threads other than the loop's                *)
          kInitRetryDelayMs, kMaxRetryDelayMs,
          MaxStarts,        (* bound: calls of Start                        *)
          MaxQueue          (* bound: functors queued by users              *)

ASSUME ConnectorAssumption ==
    /\ {MaxStarts, MaxQueue, kInitRetryDelayMs} \subseteq Nat \ {0}
    /\ kMaxRetryDelayMs \in Nat /\ kInitRetryDelayMs <= kMaxRetryDelayMs

VARIABLES
    connect_, state_, retryDelayMs_,
    channel_,           (* "none", "watched" or "removed" from the poller   *)
    revents,            (* of the channel, reported by poll, not yet handled *)
    sockets,            (* sockets made, not closed and not handed over     *)
    queue, batch,       (* the loop's functors, and those being run         *)
    young, ripe,        (* timers for StartInLoop set in this iteration, and before *)
    conn,               (* the user has a connection                        *)
    call,               (* call[t]: how far t is in its call                *)
    starts,             (* history: calls of Start                          *)
    gaveUp              (* history: connect() failed in a way that is not retried *)

loopVars == <<queue, batch, young, ripe>>
socketVars == <<state_, channel_, sockets>>
historyVars == <<starts, gaveUp>>
vars == <<connect_, retryDelayMs_, socketVars, revents, loopVars, conn, call, historyVars>>

Init ==
    /\ connect_ = FALSE /\ state_ = "kDisconnected" /\ retryDelayMs_ = kInitRetryDelayMs
    /\ channel_ = "none" /\ revents = {} /\ sockets = 0
    /\ queue = <<>> /\ batch = <<>> /\ young = 0 /\ ripe = 0
    /\ conn = FALSE /\ call = [t \in Threads |-> "none"]
    /\ starts = 0 /\ gaveUp = FALSE

(***************************************************************************)
(* What the loop does in its handlers and functors.                        *)
(***************************************************************************)
NextDelay(delay) == Min({delay * 2, kMaxRetryDelayMs})

\* Mutant: the state is not set back.
RetryKeepsState(open, connect, delay) ==
    /\ sockets' = open - 1
    /\ state_' = state_
    /\ IF connect THEN young' = young + 1 /\ retryDelayMs_' = NextDelay(delay)
                  ELSE young' = young /\ retryDelayMs_' = delay

\* Mutant: no timer is set.
RetryNever(open, connect, delay) ==
    /\ sockets' = open - 1
    /\ state_' = "kDisconnected"
    /\ young' = young /\ retryDelayMs_' = NextDelay(delay)

\* Mutant: the socket is not closed.
RetryLeaks(open, connect, delay) ==
    /\ sockets' = open
    /\ state_' = "kDisconnected"
    /\ IF connect THEN young' = young + 1 /\ retryDelayMs_' = NextDelay(delay)
                  ELSE young' = young /\ retryDelayMs_' = delay

\* Retry closes the socket, one of those that are open, and reads connect_.
Retry(open, connect, delay) ==
    /\ sockets' = open - 1
    /\ state_' = "kDisconnected"
    /\ IF connect THEN young' = young + 1 /\ retryDelayMs_' = NextDelay(delay)
                  ELSE young' = young /\ retryDelayMs_' = delay

\* Connecting, with its assert.
Connecting ==
    /\ channel_ = "none"
    /\ state_' = "kConnecting"
    /\ channel_' = "watched"
    /\ sockets' = sockets + 1

\* Another thread's Stop stores connect_ while the loop's thread is in a call.
StopComesIn ==
    /\ \E t \in Threads : call[t] = "none" /\ call' = [call EXCEPT ![t] = "stopInLoop"]
    /\ connect_' = FALSE

\* Connect with its new socket, connect_ being set: under way, to be tried again, not
\* to be tried again as a Stop came in before Retry, or failed for good and closed.
Connect(delay) ==
    \/ /\ Connecting /\ young' = young /\ retryDelayMs_' = delay
       /\ connect_' = TRUE /\ UNCHANGED <<gaveUp, call>>
    \/ /\ Retry(sockets + 1, TRUE, delay)
       /\ connect_' = TRUE /\ UNCHANGED <<channel_, gaveUp, call>>
    \/ /\ Retry(sockets + 1, FALSE, delay)
       /\ StopComesIn /\ UNCHANGED <<channel_, gaveUp>>
    \/ /\ gaveUp' = TRUE /\ state_' = "kDisconnected"
       /\ young' = young /\ retryDelayMs_' = delay
       /\ connect_' = TRUE /\ UNCHANGED <<channel_, sockets, call>>

\* StartInLoop, with its assert.
StartInLoop ==
    /\ state_ = "kDisconnected"
    /\ IF connect_ THEN Connect(retryDelayMs_)
       ELSE UNCHANGED <<connect_, call, socketVars, young, retryDelayMs_, gaveUp>>

\* RemoveAndResetChannel, after which its caller closes the socket or hands it over.
RemoveAndResetChannel ==
    /\ channel_' = "removed"
    /\ queue' = Append(queue, "resetChannel")

(***************************************************************************)
(* The loop.                                                               *)
(***************************************************************************)
Polling == revents = {} /\ batch = <<>>

\* epoll_wait reports the connecting socket.
Poll ==
    /\ Polling
    /\ channel_ = "watched"
    /\ revents' \in {{"OUT"}, {"ERR"}, {"ERR", "OUT"}}
    /\ UNCHANGED <<connect_, retryDelayMs_, socketVars, loopVars, conn, call, historyVars>>

\* HandleError.
EventErr ==
    /\ "ERR" \in revents
    /\ revents' = revents \ {"ERR"}
    /\ IF state_ = "kConnecting"
       THEN RemoveAndResetChannel /\ Retry(sockets, connect_, retryDelayMs_)
       ELSE UNCHANGED <<socketVars, queue, young, retryDelayMs_>>
    /\ UNCHANGED <<connect_, batch, ripe, conn, call, historyVars>>

\* HandleWrite: SO_ERROR is set or the socket is connected to itself, or it is
\* connected and is handed over, or closed if the connector has been stopped.
EventOut ==
    /\ revents = {"OUT"}
    /\ revents' = {}
    /\ \/ /\ state_ = "kConnecting"
          /\ RemoveAndResetChannel
          /\ \/ Retry(sockets, connect_, retryDelayMs_) /\ UNCHANGED conn
             \/ /\ state_' = "kConnected"
                /\ conn' = connect_ /\ sockets' = sockets - 1
                /\ UNCHANGED <<young, retryDelayMs_>>
       \/ /\ state_ = "kDisconnected"
          /\ UNCHANGED <<socketVars, queue, young, retryDelayMs_, conn>>
    /\ UNCHANGED <<connect_, batch, ripe, call, historyVars>>

\* A retry timer fires.
TimerFires ==
    /\ Polling
    /\ ripe > 0
    /\ ripe' = ripe - 1
    /\ StartInLoop
    /\ UNCHANGED <<revents, queue, batch, conn, starts>>

\* DoPendingFunctors takes the queue.
SwapPending ==
    /\ Polling
    /\ queue # <<>> \/ young > 0
    /\ batch' = queue /\ queue' = <<>>
    /\ ripe' = ripe + young /\ young' = 0
    /\ UNCHANGED <<connect_, retryDelayMs_, socketVars, revents, conn, call, historyVars>>

\* Mutant: StopInLoop leaves the attempt alone.
StopInLoopIgnored == UNCHANGED <<socketVars, queue, young, retryDelayMs_>>

StopInLoop ==
    IF state_ = "kConnecting"
    THEN RemoveAndResetChannel /\ Retry(sockets, connect_, retryDelayMs_)
    ELSE UNCHANGED <<socketVars, queue, young, retryDelayMs_>>

RunFunctor ==
    /\ batch # <<>>
    /\ batch' = Tail(batch)
    /\ CASE Head(batch) = "startInLoop" -> StartInLoop /\ UNCHANGED queue
         [] Head(batch) = "stopInLoop" -> StopInLoop /\ UNCHANGED <<connect_, call, gaveUp>>
         [] Head(batch) = "resetChannel" ->
                /\ channel_' = "none"
                /\ UNCHANGED <<connect_, call, state_, sockets, queue, young, retryDelayMs_, gaveUp>>
    /\ UNCHANGED <<revents, ripe, conn, starts>>

LoopStep == Poll \/ EventErr \/ EventOut \/ TimerFires \/ SwapPending \/ RunFunctor

(***************************************************************************)
(* The user.                                                               *)
(***************************************************************************)
MayQueue == Len(queue) < MaxQueue

\* Start in the loop's thread: connect_ = true and StartInLoop.  A Stop that another
\* thread stores between the two leaves what one that comes before Retry does.
StartHere ==
    /\ revents = {} /\ starts < MaxStarts
    /\ starts' = starts + 1
    /\ state_ = "kDisconnected"
    /\ Connect(retryDelayMs_)
    /\ UNCHANGED <<revents, queue, batch, ripe, conn>>

StopHere ==
    /\ revents = {} /\ MayQueue
    /\ connect_' = FALSE
    /\ queue' = Append(queue, "stopInLoop")
    /\ UNCHANGED <<retryDelayMs_, socketVars, revents, batch, young, ripe, conn, call, historyVars>>

\* Start and Stop in another thread: the store ...
Store(t) ==
    /\ call[t] = "none"
    /\ \/ starts < MaxStarts /\ starts' = starts + 1
          /\ connect_' = TRUE /\ call' = [call EXCEPT ![t] = "startInLoop"]
       \/ connect_' = FALSE /\ call' = [call EXCEPT ![t] = "stopInLoop"] /\ UNCHANGED starts
    /\ UNCHANGED <<retryDelayMs_, socketVars, revents, loopVars, conn, gaveUp>>

\* ... and the functor.
Queue(t) ==
    /\ call[t] # "none" /\ MayQueue
    /\ queue' = Append(queue, call[t])
    /\ call' = [call EXCEPT ![t] = "none"]
    /\ UNCHANGED <<connect_, retryDelayMs_, socketVars, revents, batch, young, ripe, conn, historyVars>>

\* The connection ends, in a poll after the one that made it, and the user calls
\* Restart or does not.
ConnectionEnds ==
    /\ conn /\ revents = {}
    /\ "resetChannel" \notin Range(queue) \cup Range(batch)
    /\ conn' = FALSE
    /\ \/ Connect(kInitRetryDelayMs)
       \/ UNCHANGED <<connect_, socketVars, young, retryDelayMs_, gaveUp, call>>
    /\ UNCHANGED <<revents, queue, batch, ripe, starts>>

Next ==
    \/ LoopStep \/ StartHere \/ StopHere \/ ConnectionEnds
    \/ \E t \in Threads : Store(t) \/ Queue(t)

Spec == Init /\ [][Next]_vars

\* The loop goes on and its timers fire; threads finish their calls.  The server can
\* be reached: connect() and the handshake do not fail every time.
Fairness ==
    /\ WF_vars(LoopStep) /\ WF_vars(TimerFires)
    /\ SF_vars(TimerFires /\ Connecting) /\ SF_vars(RunFunctor /\ Connecting)
    /\ SF_vars(Poll /\ revents' = {"OUT"}) /\ SF_vars(EventOut /\ state_' = "kConnected")
    /\ \A t \in Threads : WF_vars(Queue(t))

FairSpec == Spec /\ Fairness
-----------------------------------------------------------------------------
\* Every variable is of its type; the delay stays within its bounds.
TypeOK ==
    /\ connect_ \in BOOLEAN /\ conn \in BOOLEAN /\ gaveUp \in BOOLEAN
    /\ state_ \in {"kDisconnected", "kConnecting", "kConnected"}
    /\ retryDelayMs_ \in kInitRetryDelayMs .. kMaxRetryDelayMs
    /\ channel_ \in {"none", "watched", "removed"}
    /\ revents \subseteq {"ERR", "OUT"}
    /\ {sockets, young, ripe, starts} \subseteq Nat
    /\ {queue, batch} \subseteq Seq({"startInLoop", "stopInLoop", "resetChannel"})
    /\ call \in [Threads -> {"none", "startInLoop", "stopInLoop"}]

Occurrences(op, s) == Cardinality({i \in DOMAIN s : s[i] = op})
Count(op) == Occurrences(op, batch \o queue)

\* There is one attempt at a time: a call of StartInLoop that is on its way, a timer
\* for one, or a socket that is connecting.  So StartInLoop's assert on state_ holds
\* whenever it runs with connect_ set, and Connecting's on channel_.
OneAttempt ==
    LET pending == Count("startInLoop") + young + ripe
    IN  /\ pending + (IF state_ = "kConnecting" THEN 1 ELSE 0) <= 1
        /\ pending > 0 => state_ = "kDisconnected"
        /\ ripe > 0 /\ Polling => channel_ = "none"

\* HandleWrite's assert, "what happened?": an event is handled while the channel that
\* reported it exists, and in state kConnecting, or kDisconnected after HandleError.
EventsHandled == revents # {} => channel_ # "none" /\ state_ \in {"kConnecting", "kDisconnected"}

\* The Channel that ResetChannel destroys is out of the poller, as ~Channel asserts.
ResetsRemoved == Count("resetChannel") > 0 => channel_ = "removed"

\* The asserts of StartInLoop, Connecting, HandleWrite and ~Channel hold, however an
\* attempt ends and whether Start, Restart or a timer begins the next, as long as Start
\* is called once: a second Start while an attempt or its timer is there, which Stop
\* does not cancel, fails StartInLoop's assert.
AttemptsOrdered == TypeOK /\ OneAttempt /\ EventsHandled /\ ResetsRemoved

\* No socket is leaked or closed twice by Connect, Retry, HandleWrite and StopInLoop: those
\* made and neither closed nor handed over are the one that the channel watches.
SocketsAccounted == sockets = IF channel_ = "watched" THEN 1 ELSE 0

\* A connector that is started connects, unless it is stopped or connect() fails in a
\* way that is not retried.
Connects == (starts > 0 /\ connect_ /\ state_ # "kConnected") ~> (conn \/ ~connect_ \/ gaveUp)

\* Stop stops: once the functors of its calls have run, a connector whose connect_ is
\* still false has no attempt under way, however Start, Restart and the retry timers
\* interleaved with them.
StopStops ==
    /\ ~connect_ /\ Count("stopInLoop") = 0
    /\ \A t \in Threads : call[t] # "stopInLoop"
    => state_ # "kConnecting"
=============================================================================
