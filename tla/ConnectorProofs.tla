-------------------------- MODULE ConnectorProofs --------------------------
(***************************************************************************)
(* Proofs about Connector, for every set of threads, all delays and any    *)
(* number of calls and of queued functors.                                 *)
(***************************************************************************)
EXTENDS Connector, FiniteSetTheorems, TLAPS

(***************************************************************************)
(* The channel follows state_ and is reset by exactly one functor; nothing *)
(* runs between poll and the handling of its events.                       *)
(***************************************************************************)
ChannelInv ==
    /\ TypeOK
    /\ EventsHandled
    /\ SocketsAccounted
    /\ state_ = "kConnecting" <=> channel_ = "watched"
    /\ Count("resetChannel") = IF channel_ = "removed" THEN 1 ELSE 0
    /\ revents # {} => batch = <<>>
    /\ conn => state_ = "kConnected"

\* A thread is between Start's store of connect_ and its functor.
StartComing == \E t \in Threads : call[t] = "startInLoop"
Pending == Count("startInLoop") + young + ripe

(***************************************************************************)
(* Until Start is called a second time there is one attempt, wherever it   *)
(* is: in a caller, a functor, a timer, the socket or the connection.      *)
(***************************************************************************)
SingleAttempt ==
    /\ starts = 0 => Pending = 0 /\ state_ = "kDisconnected" /\ ~StartComing
    /\ \A t, u \in Threads : call[t] = "startInLoop" /\ call[u] = "startInLoop" => t = u
    /\ StartComing => Pending = 0 /\ state_ = "kDisconnected"
    /\ Pending <= 1
    /\ Pending > 0 => state_ = "kDisconnected"
    /\ "resetChannel" \in Range(queue) => ripe = 0

AttemptInv == starts <= 1 => SingleAttempt

(***************************************************************************)
(* Counting the functors of a queue.                                       *)
(***************************************************************************)
\* The number of occurrences is a number, and positive for what is in the sequence.
LEMMA OccurrencesType ==
  ASSUME NEW S, NEW s \in Seq(S), NEW op
  PROVE  /\ IsFiniteSet({i \in DOMAIN s : s[i] = op})
         /\ Occurrences(op, s) \in Nat
         /\ Occurrences(op, s) = 0 <=> op \notin Range(s)
<1> DEFINE P == {i \in DOMAIN s : s[i] = op}
<1>1. IsFiniteSet(1 .. Len(s)) /\ P \subseteq 1 .. Len(s)
  BY FS_Interval
<1>2. IsFiniteSet(P)
  BY <1>1, FS_Subset
<1>3. Occurrences(op, s) \in Nat /\ (Occurrences(op, s) = 0 <=> P = {})
  BY <1>2, FS_CardinalityType, FS_EmptySet DEF Occurrences
<1>4. P = {} <=> op \notin Range(s)
  BY DEF Range
<1> QED
  BY <1>2, <1>3, <1>4

\* A functor that is pushed is counted.
LEMMA OccurrencesAppend ==
  ASSUME NEW S, NEW s \in Seq(S), NEW e \in S, NEW op
  PROVE  Occurrences(op, Append(s, e)) = Occurrences(op, s) + (IF e = op THEN 1 ELSE 0)
<1> DEFINE P == {i \in DOMAIN s : s[i] = op}
           Q == {i \in DOMAIN Append(s, e) : Append(s, e)[i] = op}
<1>1. IsFiniteSet(P) /\ Cardinality(P) \in Nat
  BY OccurrencesType, Zenon DEF Occurrences
<1>2. Len(s) + 1 \notin P
  OBVIOUS
<1>3. e = op => Q = P \cup {Len(s) + 1}
  OBVIOUS
<1>4. e # op => Q = P
  OBVIOUS
<1>5. Cardinality(P \cup {Len(s) + 1}) = Cardinality(P) + 1
  <2> HIDE DEF P
  <2> QED
    BY <1>1, <1>2, FS_AddElement, Zenon
<1> HIDE DEF P, Q
<1>6. Cardinality(Q) = Cardinality(P) + (IF e = op THEN 1 ELSE 0)
  <2>1. CASE e = op
    BY <1>3, <1>5, <2>1, Zenon
  <2>2. CASE e # op
    BY <1>1, <1>4, <2>2
  <2> QED
    BY <2>1, <2>2
<1> QED
  BY <1>6, Zenon DEF Occurrences, P, Q

\* A functor that is popped is no longer counted.
LEMMA OccurrencesTail ==
  ASSUME NEW S, NEW s \in Seq(S), s # <<>>, NEW op
  PROVE  Occurrences(op, Tail(s)) = Occurrences(op, s) - (IF Head(s) = op THEN 1 ELSE 0)
<1> DEFINE P == {i \in DOMAIN s : s[i] = op}
           Q == {i \in DOMAIN Tail(s) : Tail(s)[i] = op}
           f == [i \in Q |-> i + 1]
<1>1. IsFiniteSet(P) /\ Cardinality(P) \in Nat
  BY OccurrencesType, Zenon DEF Occurrences
<1>3. Len(s) >= 1 /\ Tail(s) \in Seq(S) /\ Len(Tail(s)) = Len(s) - 1
  OBVIOUS
<1>2. IsFiniteSet(Q) /\ Cardinality(Q) \in Nat
  BY <1>3, OccurrencesType, Zenon DEF Occurrences
<1>4. \A i \in 1 .. Len(s) - 1 : Tail(s)[i] = s[i + 1]
  BY <1>3
<1>5. f \in Bijection(Q, P \ {1})
  <2>1. Q \subseteq Nat /\ P \subseteq Nat
    BY <1>3
  <2>2. ASSUME NEW i \in Q PROVE i + 1 \in P \ {1}
    BY <1>3, <1>4
  <2>3. ASSUME NEW j \in P \ {1} PROVE j - 1 \in Q /\ f[j - 1] = j
    BY <1>3, <1>4
  <2>4. f \in [Q -> P \ {1}]
    BY <2>2
  <2>5. \A i, j \in Q : f[i] = f[j] => i = j
    BY <2>1
  <2> HIDE DEF f, Q, P
  <2> QED
    BY <2>3, <2>4, <2>5 DEF Bijection, Injection, Surjection, IsInjective
<1>6. Cardinality(Q) = Cardinality(P \ {1})
  <2> HIDE DEF f, Q, P
  <2>1. ExistsBijection(Q, P \ {1})
    BY <1>5, Zenon DEF ExistsBijection
  <2> QED
    BY <1>2, <2>1, FS_Bijection, Zenon
<1>7. 1 \in P <=> Head(s) = op
  BY <1>3
<1>8. Cardinality(P \ {1}) = Cardinality(P) - (IF Head(s) = op THEN 1 ELSE 0)
  <2> HIDE DEF P
  <2>1. CASE 1 \in P
    BY <1>1, <1>7, <2>1, FS_RemoveElement, Zenon
  <2>2. CASE 1 \notin P
    <3>1. Cardinality(P \ {1}) = Cardinality(P)
      BY <1>1, <2>2, FS_RemoveElement, Zenon
    <3> QED
      BY <1>1, <1>7, <2>2, <3>1
  <2> QED
    BY <2>1, <2>2
<1> QED
  BY <1>6, <1>8, Zenon DEF Occurrences

(***************************************************************************)
(* The same of the functors that are queued or being run.                  *)
(***************************************************************************)
Ops == {"startInLoop", "stopInLoop", "resetChannel"}

\* What is queued or being run is counted with a number, positive if there is any.
LEMMA CountType ==
  ASSUME batch \in Seq(Ops), queue \in Seq(Ops), NEW op
  PROVE  /\ Count(op) \in Nat
         /\ Count(op) = 0 <=> op \notin Range(queue) \cup Range(batch)
<1>1. batch \o queue \in Seq(Ops)
  OBVIOUS
<1>2. Range(batch \o queue) = Range(queue) \cup Range(batch)
  <2>1. Len(batch \o queue) = Len(batch) + Len(queue)
    OBVIOUS
  <2>2. ASSUME NEW i \in 1 .. Len(batch \o queue)
        PROVE  (batch \o queue)[i] \in Range(queue) \cup Range(batch)
    BY <2>1 DEF Range
  <2>3. ASSUME NEW i \in DOMAIN batch PROVE batch[i] \in Range(batch \o queue)
    <3>1. batch[i] = (batch \o queue)[i] /\ i \in DOMAIN (batch \o queue)
      BY <2>1
    <3> QED
      BY <3>1 DEF Range
  <2>4. ASSUME NEW i \in DOMAIN queue PROVE queue[i] \in Range(batch \o queue)
    <3>1. /\ queue[i] = (batch \o queue)[Len(batch) + i]
          /\ Len(batch) + i \in DOMAIN (batch \o queue)
      BY <2>1
    <3> QED
      BY <3>1 DEF Range
  <2>5. Range(batch \o queue) \subseteq Range(queue) \cup Range(batch)
    BY <1>1, <2>2 DEF Range
  <2> QED
    BY <2>3, <2>4, <2>5, Zenon DEF Range
<1> QED
  BY <1>1, <1>2, OccurrencesType, Zenon DEF Count

\* QueueInLoop adds its functor.
LEMMA CountPush ==
  ASSUME batch \in Seq(Ops), queue \in Seq(Ops), NEW e \in Ops, NEW op,
         queue' = Append(queue, e), batch' = batch
  PROVE  Count(op)' = Count(op) + (IF e = op THEN 1 ELSE 0)
<1>1. batch' \o queue' = Append(batch \o queue, e) /\ batch \o queue \in Seq(Ops)
  OBVIOUS
<1>2. Occurrences(op, Append(batch \o queue, e))
          = Occurrences(op, batch \o queue) + (IF e = op THEN 1 ELSE 0)
  BY <1>1, OccurrencesAppend, Zenon
<1> QED
  BY <1>1, <1>2 DEF Count

\* A functor that is run is gone.
LEMMA CountPop ==
  ASSUME batch \in Seq(Ops), queue \in Seq(Ops), batch # <<>>, NEW op,
         queue' = queue, batch' = Tail(batch)
  PROVE  Count(op)' = Count(op) - (IF Head(batch) = op THEN 1 ELSE 0)
<1>1. Tail(batch) \o queue = Tail(batch \o queue)
  OBVIOUS
<1>2. batch \o queue \in Seq(Ops) /\ batch \o queue # <<>> /\ Head(batch \o queue) = Head(batch)
  OBVIOUS
<1> QED
  BY <1>1, <1>2, OccurrencesTail, Zenon DEF Count

\* A functor that is run may queue another.
LEMMA CountPopPush ==
  ASSUME batch \in Seq(Ops), queue \in Seq(Ops), batch # <<>>, NEW e \in Ops, NEW op,
         queue' = Append(queue, e), batch' = Tail(batch)
  PROVE  Count(op)' = Count(op) - (IF Head(batch) = op THEN 1 ELSE 0)
                                + (IF e = op THEN 1 ELSE 0)
<1>1. Tail(batch) \o Append(queue, e) = Append(Tail(batch) \o queue, e)
  OBVIOUS
<1>2. Tail(batch) \o queue = Tail(batch \o queue)
  OBVIOUS
<1>3. batch \o queue \in Seq(Ops) /\ batch \o queue # <<>> /\ Head(batch \o queue) = Head(batch)
  OBVIOUS
<1>4. Tail(batch \o queue) \in Seq(Ops)
  BY <1>3
<1>5. Occurrences(op, Append(Tail(batch \o queue), e))
          = Occurrences(op, Tail(batch \o queue)) + (IF e = op THEN 1 ELSE 0)
  BY <1>4, OccurrencesAppend, Zenon
<1>6. Occurrences(op, Tail(batch \o queue)) = Count(op) - (IF Head(batch) = op THEN 1 ELSE 0)
  BY <1>3, OccurrencesTail, Zenon DEF Count
<1> QED
  BY <1>1, <1>2, <1>5, <1>6, Zenon DEF Count

\* DoPendingFunctors' swap keeps all functors.
LEMMA CountSwap ==
  ASSUME batch = <<>>, queue \in Seq(Ops), NEW op, queue' = <<>>, batch' = queue
  PROVE  Count(op)' = Count(op)
<1>1. batch' \o queue' = batch \o queue
  OBVIOUS
<1> QED
  BY <1>1 DEF Count

\* The delay stays within its bounds when it grows.
LEMMA DelayBounded ==
  ASSUME NEW d \in kInitRetryDelayMs .. kMaxRetryDelayMs
  PROVE  NextDelay(d) \in kInitRetryDelayMs .. kMaxRetryDelayMs
<1>1. d * 2 \in Nat /\ d * 2 >= kInitRetryDelayMs
  BY ConnectorAssumption
<1>2. \E x \in {d * 2, kMaxRetryDelayMs} : \A y \in {d * 2, kMaxRetryDelayMs} : x =< y
  BY <1>1, ConnectorAssumption
<1>3. NextDelay(d) \in {d * 2, kMaxRetryDelayMs} /\ NextDelay(d) =< kMaxRetryDelayMs
  BY <1>2 DEF NextDelay, Min
<1> QED
  BY <1>1, <1>3, ConnectorAssumption

(***************************************************************************)
(* ChannelInv: the attempts, one by one.                                   *)
(***************************************************************************)
\* Handlers and functors leave alone what they do not mention, and the functors are
\* of the three kinds.
LEMMA Functors == ChannelInv => batch \in Seq(Ops) /\ queue \in Seq(Ops)
BY DEF ChannelInv, TypeOK, Ops

\* Whoever is between Start's store and its functor is so after the step.
StartersKept == \A t \in Threads : call'[t] = "startInLoop" <=> call[t] = "startInLoop"

\* A connect() that is tried: the socket is watched, or the attempt is over; a Stop
\* that comes in stores connect_.
ConnectTried ==
    /\ connect_' \in BOOLEAN
    /\ call' \in [Threads -> {"none", "startInLoop", "stopInLoop"}]
    /\ state_' \in {"kDisconnected", "kConnecting"}
    /\ channel_' \in {"none", "watched", "removed"}
    /\ state_' = "kConnecting" <=> channel_' = "watched"
    /\ channel_' # channel_ => channel_ = "none" /\ channel_' = "watched"
    /\ sockets' = IF channel_' = "watched" THEN 1 ELSE 0
    /\ retryDelayMs_' \in kInitRetryDelayMs .. kMaxRetryDelayMs
    /\ young' \in Nat /\ gaveUp' \in BOOLEAN

\* An attempt that is given up: it is taken down, and its channel reset later.
AttemptOver ==
    /\ state_' = "kDisconnected" /\ channel_' = "removed" /\ sockets' = 0
    /\ retryDelayMs_' \in kInitRetryDelayMs .. kMaxRetryDelayMs
    /\ young' \in Nat
    /\ queue' = Append(queue, "resetChannel") /\ queue' \in Seq(Ops)

\* A Stop that comes in is of a thread that is not in Start.
LEMMA StopComing ==
  ASSUME call \in [Threads -> {"none", "startInLoop", "stopInLoop"}], StopComesIn
  PROVE  /\ call' \in [Threads -> {"none", "startInLoop", "stopInLoop"}]
         /\ StartersKept
<1>1. PICK t \in Threads : call[t] = "none" /\ call' = [call EXCEPT ![t] = "stopInLoop"]
  BY Zenon DEF StopComesIn
<1> QED
  BY <1>1 DEF StartersKept

\* Connect, outside an attempt, starts one or leaves none.
LEMMA ConnectKeeps ==
  ASSUME ChannelInv, state_ # "kConnecting",
         NEW delay \in kInitRetryDelayMs .. kMaxRetryDelayMs, Connect(delay)
  PROVE  ConnectTried
<1> USE DEF ChannelInv, TypeOK, SocketsAccounted, ConnectTried
<1>0. connect_' \in BOOLEAN
  BY Zenon DEF Connect, StopComesIn
<1>1. CASE /\ Connecting /\ young' = young /\ retryDelayMs_' = delay
           /\ connect_' = TRUE /\ UNCHANGED <<gaveUp, call>>
  BY <1>0, <1>1 DEF Connecting
<1>2. CASE /\ Retry(sockets + 1, TRUE, delay)
           /\ connect_' = TRUE /\ UNCHANGED <<channel_, gaveUp, call>>
  <2>1. retryDelayMs_' \in kInitRetryDelayMs .. kMaxRetryDelayMs
    BY <1>2, DelayBounded, Zenon DEF Retry
  <2>2. /\ state_' = "kDisconnected" /\ young' = young + 1 /\ sockets' = (sockets + 1) - 1
        /\ channel_' = channel_ /\ gaveUp' = gaveUp /\ call' = call
    BY <1>2, Zenon DEF Retry
  <2>3. young' \in Nat /\ channel_ \in {"none", "removed"} /\ sockets' = sockets
    BY <2>2
  <2> QED
    BY <1>0, <2>1, <2>2, <2>3
<1>3. CASE /\ Retry(sockets + 1, FALSE, delay)
           /\ StopComesIn /\ UNCHANGED <<channel_, gaveUp>>
  <2>1. call' \in [Threads -> {"none", "startInLoop", "stopInLoop"}]
    BY <1>3, StopComing, Zenon
  <2>2. /\ state_' = "kDisconnected" /\ young' = young /\ sockets' = (sockets + 1) - 1
        /\ retryDelayMs_' = delay /\ channel_' = channel_ /\ gaveUp' = gaveUp
    BY <1>3, Zenon DEF Retry
  <2>3. channel_ \in {"none", "removed"} /\ sockets' = sockets
    BY <2>2
  <2> QED
    BY <1>0, <2>1, <2>2, <2>3
<1>4. CASE /\ gaveUp' = TRUE /\ state_' = "kDisconnected"
           /\ young' = young /\ retryDelayMs_' = delay
           /\ connect_' = TRUE /\ UNCHANGED <<channel_, sockets, call>>
  BY <1>0, <1>4
<1> QED
  BY <1>1, <1>2, <1>3, <1>4, Zenon DEF Connect

\* Retry, with the removal of the channel before it, ends an attempt.
LEMMA RetryKeeps ==
  ASSUME ChannelInv, state_ = "kConnecting", Retry(sockets, connect_, retryDelayMs_),
         RemoveAndResetChannel
  PROVE  AttemptOver
<1>1. queue' = Append(queue, "resetChannel") /\ queue' \in Seq(Ops)
  BY Functors DEF RemoveAndResetChannel, Ops
<1> QED
  BY <1>1, DelayBounded DEF ChannelInv, TypeOK, SocketsAccounted, RemoveAndResetChannel,
                            Retry, AttemptOver

\* Every step keeps ChannelInv.
LEMMA ChannelInvStep == ChannelInv /\ [Next]_vars => ChannelInv'
<1> SUFFICES ASSUME ChannelInv, [Next]_vars PROVE ChannelInv'
  OBVIOUS
<1>0. batch \in Seq(Ops) /\ queue \in Seq(Ops)
  BY Functors
<1>a. state_ = "kConnecting" /\ Retry(sockets, connect_, retryDelayMs_) /\ RemoveAndResetChannel
        => AttemptOver
  BY RetryKeeps
<1>b. ASSUME state_ # "kConnecting",
             NEW delay \in kInitRetryDelayMs .. kMaxRetryDelayMs, Connect(delay)
      PROVE  ConnectTried
  BY <1>b, ConnectKeeps
<1>c. ASSUME NEW op \in {"startInLoop", "stopInLoop"},
             queue' = Append(queue, op) /\ batch' = batch
      PROVE  Count("resetChannel")' = Count("resetChannel")
  <2>1. op \in Ops /\ op # "resetChannel"
    BY DEF Ops
  <2>2. Count("resetChannel")' = Count("resetChannel") + (IF op = "resetChannel" THEN 1 ELSE 0)
    BY <1>0, <1>c, <2>1, CountPush, Zenon
  <2>3. Count("resetChannel") \in Nat
    BY <1>0, CountType, Zenon
  <2> QED
    BY <2>1, <2>2, <2>3
<1> USE ConnectorAssumption DEF ChannelInv, TypeOK, EventsHandled, SocketsAccounted,
        socketVars, loopVars, historyVars, Ops
<1>1. CASE Poll
  <2>1. Count("resetChannel")' = Count("resetChannel")
    BY <1>1 DEF Poll, Count
  <2> QED
    BY <1>1, <2>1 DEF Poll, Polling
<1>2. CASE EventErr
  <2>1. CASE state_ = "kConnecting"
    <3>1. RemoveAndResetChannel /\ Retry(sockets, connect_, retryDelayMs_)
      BY <1>2, <2>1 DEF EventErr
    <3>2. Count("resetChannel")' = Count("resetChannel") + 1
      BY <1>0, <1>2, <3>1, CountPush DEF EventErr, RemoveAndResetChannel
    <3> QED
      BY <1>2, <2>1, <3>1, <3>2, <1>a DEF EventErr, AttemptOver
  <2>2. CASE state_ # "kConnecting"
    <3>1. Count("resetChannel")' = Count("resetChannel")
      BY <1>2, <2>2 DEF EventErr, Count
    <3> QED
      BY <1>2, <2>2, <3>1 DEF EventErr
  <2> QED
    BY <2>1, <2>2, Zenon
<1>3. CASE EventOut
  <2>1. CASE state_ = "kConnecting"
    <3>1. RemoveAndResetChannel
      BY <1>3, <2>1 DEF EventOut
    <3>2. Count("resetChannel")' = Count("resetChannel") + 1
      BY <1>0, <1>3, <3>1, CountPush DEF EventOut, RemoveAndResetChannel
    <3>3. CASE Retry(sockets, connect_, retryDelayMs_) /\ UNCHANGED conn
      BY <1>3, <2>1, <3>1, <3>2, <3>3, <1>a DEF EventOut, AttemptOver
    <3>4. CASE /\ state_' = "kConnected" /\ conn' = connect_ /\ sockets' = sockets - 1
               /\ UNCHANGED <<young, retryDelayMs_>>
      BY <1>3, <2>1, <3>1, <3>2, <3>4 DEF EventOut, RemoveAndResetChannel
    <3> QED
      BY <1>3, <2>1, <3>3, <3>4 DEF EventOut
  <2>2. CASE state_ # "kConnecting"
    <3>1. Count("resetChannel")' = Count("resetChannel")
      BY <1>3, <2>2 DEF EventOut, Count
    <3> QED
      BY <1>3, <2>2, <3>1 DEF EventOut
  <2> QED
    BY <2>1, <2>2, Zenon
<1>4. CASE TimerFires
  <2>1. Count("resetChannel")' = Count("resetChannel")
    BY <1>4 DEF TimerFires, Count
  <2>2. CASE connect_
    <3>1. ConnectTried
      BY <1>4, <2>2, <1>b DEF TimerFires, StartInLoop
    <3>2. /\ UNCHANGED <<revents, queue, batch, conn, starts>> /\ ripe' \in Nat
          /\ revents = {} /\ state_ = "kDisconnected"
      BY <1>4 DEF TimerFires, Polling, StartInLoop
    <3>3. TypeOK'
      BY <3>1, <3>2 DEF ConnectTried
    <3>4. SocketsAccounted' /\ (state_' = "kConnecting" <=> channel_' = "watched")
      BY <3>1 DEF ConnectTried
    <3>5. Count("resetChannel")' = IF channel_' = "removed" THEN 1 ELSE 0
      BY <2>1, <3>1 DEF ConnectTried
    <3> QED
      BY <3>2, <3>3, <3>4, <3>5
  <2>3. CASE ~connect_
    BY <1>4, <2>1, <2>3 DEF TimerFires, Polling, StartInLoop
  <2> QED
    BY <2>2, <2>3, Zenon
<1>5. CASE SwapPending
  <2>1. Count("resetChannel")' = Count("resetChannel")
    BY <1>0, <1>5, CountSwap DEF SwapPending, Polling
  <2> QED
    BY <1>5, <2>1 DEF SwapPending, Polling
<1>6. CASE RunFunctor
  <2>0. batch # <<>> /\ revents = {} /\ revents' = {} /\ batch' = Tail(batch)
    BY <1>6 DEF RunFunctor
  <2>1. CASE Head(batch) = "startInLoop"
    <3>1. StartInLoop /\ UNCHANGED queue
      BY <1>6, <2>1, Zenon DEF RunFunctor
    <3>2. Count("resetChannel")' = Count("resetChannel")
      BY <1>0, <2>0, <2>1, <3>1, CountPop, CountType
    <3>3. CASE connect_
      BY <1>0, <1>6, <2>0, <3>1, <3>2, <3>3, <1>b DEF ConnectTried, RunFunctor, StartInLoop
    <3>4. CASE ~connect_
      BY <1>0, <1>6, <2>0, <3>1, <3>2, <3>4 DEF RunFunctor, StartInLoop
    <3> QED
      BY <3>3, <3>4, Zenon
  <2>2. CASE Head(batch) = "stopInLoop"
    <3>1. StopInLoop /\ UNCHANGED <<connect_, call, gaveUp>>
      BY <1>6, <2>2, Zenon DEF RunFunctor
    <3>2. CASE state_ = "kConnecting"
      <4>1. RemoveAndResetChannel /\ Retry(sockets, connect_, retryDelayMs_)
        BY <3>1, <3>2 DEF StopInLoop
      <4>2. Count("resetChannel")' = Count("resetChannel") + 1
        <5>1. queue' = Append(queue, "resetChannel") /\ "resetChannel" \in Ops
          BY <4>1 DEF RemoveAndResetChannel
        <5>2. Count("resetChannel")' = Count("resetChannel")
                  - (IF Head(batch) = "resetChannel" THEN 1 ELSE 0)
                  + (IF "resetChannel" = "resetChannel" THEN 1 ELSE 0)
          <6> HIDE DEF Ops
          <6> QED
            BY <1>0, <2>0, <5>1, CountPopPush, Zenon
        <5> QED
          BY <1>0, <2>2, <5>2, CountType
      <4> QED
        BY <1>0, <1>6, <2>0, <3>1, <3>2, <4>1, <4>2, <1>a DEF RunFunctor, AttemptOver
    <3>3. CASE state_ # "kConnecting"
      <4>1. Count("resetChannel")' = Count("resetChannel")
        <5>1. queue' = queue
          BY <3>1, <3>3, Zenon DEF StopInLoop
        <5>2. Count("resetChannel")' = Count("resetChannel")
                  - (IF Head(batch) = "resetChannel" THEN 1 ELSE 0)
          <6> HIDE DEF Ops
          <6> QED
            BY <1>0, <2>0, <5>1, CountPop, Zenon
        <5>3. Count("resetChannel") \in Nat
          BY <1>0, CountType
        <5> QED
          BY <2>2, <5>2, <5>3
      <4> QED
        BY <1>0, <1>6, <2>0, <3>1, <3>3, <4>1 DEF RunFunctor, StopInLoop
    <3> QED
      BY <3>2, <3>3, Zenon
  <2>3. CASE Head(batch) = "resetChannel"
    <3>1. /\ channel_' = "none"
          /\ UNCHANGED <<connect_, call, state_, sockets, queue, young, retryDelayMs_, gaveUp>>
      BY <1>6, <2>3, Zenon DEF RunFunctor
    <3>2. Count("resetChannel")' = Count("resetChannel") - 1
      BY <1>0, <2>0, <2>3, <3>1, CountPop, CountType
    <3>3. Count("resetChannel") > 0
      BY <1>0, <2>0, <2>3, CountType DEF Range
    <3> QED
      BY <1>0, <1>6, <2>0, <3>1, <3>2, <3>3 DEF RunFunctor
  <2> QED
    BY <1>0, <2>0, <2>1, <2>2, <2>3
<1>7. ASSUME NEW delay \in kInitRetryDelayMs .. kMaxRetryDelayMs, Connect(delay),
             state_ # "kConnecting", revents = {}, UNCHANGED <<revents, queue, batch, ripe>>,
             starts' \in Nat, conn' = FALSE
      PROVE  ChannelInv'
  <2>1. Count("resetChannel")' = Count("resetChannel")
    BY <1>7 DEF Count
  <2>2. ConnectTried
    BY <1>7, <1>b
  <2>3. connect_' \in BOOLEAN /\ conn' \in BOOLEAN
    BY <1>7, <2>2, Zenon DEF ConnectTried
  <2>4. UNCHANGED <<revents, queue, batch, ripe>> /\ starts' \in Nat
    BY <1>7
  <2>5. TypeOK'
    BY <2>2, <2>3, <2>4 DEF ConnectTried
  <2>6. SocketsAccounted' /\ (state_' = "kConnecting" <=> channel_' = "watched")
    BY <2>2 DEF ConnectTried
  <2>7. Count("resetChannel")' = IF channel_' = "removed" THEN 1 ELSE 0
    BY <2>1, <2>2 DEF ConnectTried
  <2> QED
    BY <1>7, <2>5, <2>6, <2>7
<1>8. CASE StartHere
  <2>1. conn' = FALSE /\ starts' \in Nat
    BY <1>8 DEF StartHere
  <2> QED
    BY <1>7, <1>8, <2>1, Zenon DEF StartHere
<1>9. CASE StopHere
  <2>1. Count("resetChannel")' = Count("resetChannel")
    <3>1. queue' = Append(queue, "stopInLoop") /\ batch' = batch
      BY <1>9, Zenon DEF StopHere
    <3> QED
      BY <3>1, <1>c, Zenon
  <2>2. queue' \in Seq(Ops)
    BY <1>0, <1>9 DEF StopHere
  <2> QED
    BY <1>0, <1>9, <2>1, <2>2, Zenon DEF StopHere
<1>10. CASE ConnectionEnds
  <2>1. CASE Connect(kInitRetryDelayMs)
    <3>1. state_ # "kConnecting" /\ starts' \in Nat
          /\ kInitRetryDelayMs \in kInitRetryDelayMs .. kMaxRetryDelayMs
      BY <1>10 DEF ConnectionEnds
    <3> QED
      BY <1>7, <1>10, <2>1, <3>1, Zenon DEF ConnectionEnds
  <2>2. CASE UNCHANGED <<connect_, socketVars, young, retryDelayMs_, gaveUp, call>>
    <3>1. Count("resetChannel")' = Count("resetChannel")
      BY <1>10 DEF ConnectionEnds, Count
    <3> QED
      BY <1>10, <2>2, <3>1, Zenon DEF ConnectionEnds
  <2> QED
    BY <1>10, <2>1, <2>2 DEF ConnectionEnds
<1>11. ASSUME NEW t \in Threads, Store(t) PROVE ChannelInv'
  <2>1. Count("resetChannel")' = Count("resetChannel")
    BY <1>11 DEF Store, Count
  <2>2. call' \in [Threads -> {"none", "startInLoop", "stopInLoop"}]
    BY <1>11 DEF Store
  <2>4. connect_' \in BOOLEAN
    BY <1>11, Zenon DEF Store
  <2>5. starts' \in Nat
    BY <1>11 DEF Store
  <2>3. UNCHANGED <<retryDelayMs_, socketVars, revents, loopVars, conn, gaveUp>>
    BY <1>11 DEF Store
  <2> QED
    BY <2>1, <2>2, <2>3, <2>4, <2>5
<1>12. ASSUME NEW t \in Threads, Queue(t) PROVE ChannelInv'
  <2>1. call[t] \in {"startInLoop", "stopInLoop"}
    BY <1>12 DEF Queue
  <2>2. Count("resetChannel")' = Count("resetChannel")
    <3>1. queue' = Append(queue, call[t]) /\ batch' = batch
      BY <1>12, Zenon DEF Queue
    <3> QED
      BY <2>1, <3>1, <1>c, Zenon
  <2> QED
    BY <1>0, <1>12, <2>1, <2>2 DEF Queue
<1>13. CASE UNCHANGED vars
  <2>1. Count("resetChannel")' = Count("resetChannel")
    BY <1>13 DEF vars, Count
  <2> QED
    BY <1>13, <2>1 DEF vars
<1> QED
  BY <1>1, <1>2, <1>3, <1>4, <1>5, <1>6, <1>8, <1>9, <1>10, <1>11, <1>12, <1>13, Zenon
     DEF Next, LoopStep

(***************************************************************************)
(* Stop stops.                                                             *)
(***************************************************************************)
\* An attempt that starts leaves connect_ set.
LEMMA ConnectSets ==
  ASSUME NEW delay, Connect(delay)
  PROVE  connect_' = TRUE \/ state_' = "kDisconnected"
BY DEF Connect, Retry

\* StopStops is kept: an attempt starts only with connect_ set, whoever clears
\* connect_ has a StopInLoop coming, and StopInLoop ends the attempt it finds.
LEMMA StopStopsStep == ChannelInv /\ StopStops /\ [Next]_vars => StopStops'
<1> SUFFICES ASSUME ChannelInv, StopStops, [Next]_vars, ~connect_', state_' = "kConnecting",
                    \A t \in Threads : call'[t] # "stopInLoop"
             PROVE  Count("stopInLoop")' # 0
  BY DEF StopStops
<1>0. batch \in Seq(Ops) /\ queue \in Seq(Ops) /\ Count("stopInLoop") \in Nat
  BY Functors, CountType
<1>1. CASE Poll \/ UNCHANGED vars
  BY <1>1 DEF Poll, vars, StopStops, Count, socketVars, loopVars
<1>2. CASE EventErr
  BY <1>2 DEF EventErr, StopStops, Count, socketVars, loopVars, Retry
<1>3. CASE EventOut
  BY <1>3 DEF EventOut, StopStops, Count, socketVars, loopVars, Retry
<1>4. CASE TimerFires
  BY <1>4, ConnectSets, Zenon DEF TimerFires, StartInLoop, socketVars
<1>5. CASE SwapPending
  <2>1. Count("stopInLoop")' = Count("stopInLoop")
    BY <1>0, <1>5, CountSwap DEF SwapPending, Polling
  <2> QED
    BY <1>5, <2>1 DEF SwapPending, StopStops, socketVars
<1>6. CASE RunFunctor
  <2>1. Head(batch) # "startInLoop"
    BY <1>6, ConnectSets, Zenon DEF RunFunctor, StartInLoop, socketVars
  <2>2. Head(batch) # "stopInLoop"
    BY <1>6, Zenon DEF RunFunctor, StopInLoop, Retry, socketVars
  <2>3. Head(batch) = "resetChannel"
    BY <1>0, <1>6, <2>1, <2>2 DEF RunFunctor, Ops
  <2>4. Count("stopInLoop")' = Count("stopInLoop")
    <3>1. batch # <<>> /\ batch' = Tail(batch) /\ queue' = queue
      BY <1>6, <2>3, Zenon DEF RunFunctor
    <3> QED
      BY <1>0, <2>3, <3>1, CountPop
  <2> QED
    BY <1>6, <2>3, <2>4, Zenon DEF RunFunctor, StopStops
<1>7. CASE StartHere
  BY <1>7, ConnectSets, Zenon DEF StartHere
<1>8. CASE StopHere
  <2>1. Count("stopInLoop")' = Count("stopInLoop") + 1
    BY <1>0, <1>8, CountPush DEF StopHere, Ops
  <2> QED
    BY <1>0, <2>1
<1>9. CASE ConnectionEnds
  BY <1>9, ConnectSets, Zenon DEF ConnectionEnds, socketVars, ChannelInv
<1>10. ASSUME NEW t \in Threads, Store(t) PROVE Count("stopInLoop")' # 0
  <2>1. call \in [Threads -> {"none", "startInLoop", "stopInLoop"}]
    BY DEF ChannelInv, TypeOK
  <2>2. connect_' # FALSE
    BY <1>10, <2>1 DEF Store
  <2> QED
    BY <1>10, <2>2, Zenon DEF Store
<1>11. ASSUME NEW t \in Threads, Queue(t) PROVE Count("stopInLoop")' # 0
  <2>1. call \in [Threads -> {"none", "startInLoop", "stopInLoop"}] /\ call[t] \in Ops
    BY <1>11 DEF ChannelInv, TypeOK, Queue, Ops
  <2>2. Count("stopInLoop")'
            = Count("stopInLoop") + (IF call[t] = "stopInLoop" THEN 1 ELSE 0)
    BY <1>0, <1>11, <2>1, CountPush DEF Queue
  <2>3. CASE call[t] = "stopInLoop"
    BY <1>0, <2>2, <2>3
  <2>4. CASE call[t] # "stopInLoop"
    <3>1. \A u \in Threads : call[u] # "stopInLoop"
      BY <1>11, <2>1, <2>4 DEF Queue
    <3> QED
      BY <1>0, <1>11, <2>2, <2>4, <3>1 DEF Queue, StopStops, socketVars
  <2> QED
    BY <2>3, <2>4
<1> QED
  BY <1>1, <1>2, <1>3, <1>4, <1>5, <1>6, <1>7, <1>8, <1>9, <1>10, <1>11
     DEF Next, LoopStep

(***************************************************************************)
(* One attempt at a time.                                                  *)
(***************************************************************************)
\* What a step leaves of SingleAttempt when it changes neither the calls of Start under
\* way nor their number: the attempt may only move on.
LEMMA AttemptMoves ==
  ASSUME ChannelInv, SingleAttempt, StartersKept, starts' = starts,
         Pending' \in Nat, Pending' <= 1, Pending' > 0 => state_' = "kDisconnected",
         starts = 0 \/ StartComing => Pending' = 0 /\ state_' = "kDisconnected",
         "resetChannel" \in Range(queue') => ripe' = 0
  PROVE  SingleAttempt'
<1>1. StartComing' <=> StartComing
  BY DEF StartComing, StartersKept
<1> QED
  BY <1>1 DEF SingleAttempt, StartersKept

\* Connect takes an attempt that is due, and leaves it to the socket, to a timer, or
\* to nobody.
LEMMA ConnectMoves ==
  ASSUME NEW delay, young \in Nat, Connect(delay),
         call \in [Threads -> {"none", "startInLoop", "stopInLoop"}]
  PROVE  /\ \/ state_' = "kConnecting" /\ young' = young
            \/ state_' = "kDisconnected" /\ young' \in {young, young + 1}
         /\ StartersKept
<1>1. \/ state_' = "kConnecting" /\ young' = young
      \/ state_' = "kDisconnected" /\ young' \in {young, young + 1}
  BY DEF Connect, Connecting, Retry
<1>2. call' = call \/ StopComesIn
  BY Zenon DEF Connect
<1>3. StartersKept
  BY <1>2, StopComing, Zenon DEF StartersKept
<1> QED
  BY <1>1, <1>3

\* Every step keeps the attempt single.
LEMMA AttemptInvStep == ChannelInv /\ AttemptInv /\ [Next]_vars => AttemptInv'
<1> SUFFICES ASSUME ChannelInv, AttemptInv, [Next]_vars, starts' <= 1
             PROVE  SingleAttempt'
  BY DEF AttemptInv
<1>0. /\ batch \in Seq(Ops) /\ queue \in Seq(Ops)
      /\ Count("startInLoop") \in Nat /\ young \in Nat /\ ripe \in Nat /\ starts \in Nat
  BY Functors, CountType DEF ChannelInv, TypeOK
<1>t. call \in [Threads -> {"none", "startInLoop", "stopInLoop"}]
  BY DEF ChannelInv, TypeOK
<1>1. starts <= 1 /\ SingleAttempt
  <2>1. starts' \in {starts, starts + 1}
    BY <1>0, Zenon DEF Next, LoopStep, Poll, EventErr, EventOut, TimerFires, SwapPending,
                RunFunctor, StartHere, StopHere, ConnectionEnds, Store, Queue, historyVars, vars
  <2> QED
    BY <1>0, <2>1 DEF AttemptInv
<1>2. CASE Poll \/ UNCHANGED vars
  <2>1. UNCHANGED <<call, starts, state_, young, ripe, queue, batch>>
    BY <1>2 DEF Poll, vars, socketVars, loopVars, historyVars
  <2> QED
    BY <1>1, <2>1 DEF SingleAttempt, StartComing, Pending, Count
<1>k. call' = call => StartersKept
  BY Zenon DEF StartersKept
<1>3. ASSUME state_ = "kConnecting", RemoveAndResetChannel, UNCHANGED <<call, starts, ripe>>,
             Count("startInLoop")' = 0,
             \/ Retry(sockets, connect_, retryDelayMs_)
             \/ state_' = "kConnected" /\ young' = young
      PROVE  SingleAttempt'
  <2>1. Pending = 0 /\ ~StartComing /\ starts # 0
    BY <1>0, <1>1, <1>3 DEF SingleAttempt, Pending
  <2>2. young = 0 /\ ripe = 0
    BY <1>0, <2>1 DEF Pending
  <2>3. young' \in {0, 1} /\ (young' = 1 => state_' = "kDisconnected")
    BY <1>3, <2>2 DEF Retry
  <2>4. Pending' = young' /\ ripe' = 0
    BY <1>3, <2>2, <2>3 DEF Pending
  <2> QED
    BY <1>k, <1>1, <1>3, <2>1, <2>3, <2>4, AttemptMoves
<1>4. CASE EventErr
  <2>1. CASE state_ = "kConnecting"
    <3>1. Count("startInLoop") = 0
      BY <1>0, <1>1, <2>1 DEF SingleAttempt, Pending
    <3>2. RemoveAndResetChannel /\ batch' = batch
      BY <1>4, <2>1 DEF EventErr
    <3>3. Count("startInLoop")' = 0
      BY <1>0, <3>1, <3>2, CountPush DEF RemoveAndResetChannel, Ops
    <3> QED
      BY <1>3, <1>4, <2>1, <3>3 DEF EventErr, historyVars
  <2>2. CASE state_ # "kConnecting"
    <3>1. UNCHANGED <<call, starts, state_, young, ripe, queue, batch>>
      BY <1>4, <2>2 DEF EventErr, socketVars, historyVars
    <3> QED
      BY <1>1, <3>1 DEF SingleAttempt, StartComing, Pending, Count
  <2> QED
    BY <2>1, <2>2
<1>5. CASE EventOut
  <2>1. CASE state_ = "kConnecting"
    <3>1. Count("startInLoop") = 0
      BY <1>0, <1>1, <2>1 DEF SingleAttempt, Pending
    <3>2. RemoveAndResetChannel /\ batch' = batch
      BY <1>5, <2>1 DEF EventOut
    <3>3. Count("startInLoop")' = 0
      BY <1>0, <3>1, <3>2, CountPush DEF RemoveAndResetChannel, Ops
    <3> QED
      BY <1>3, <1>5, <2>1, <3>3 DEF EventOut, historyVars
  <2>2. CASE state_ # "kConnecting"
    <3>1. UNCHANGED <<call, starts, state_, young, ripe, queue, batch>>
      BY <1>5, <2>2 DEF EventOut, socketVars, historyVars
    <3> QED
      BY <1>1, <3>1 DEF SingleAttempt, StartComing, Pending, Count
  <2> QED
    BY <2>1, <2>2
<1>6. ASSUME StartInLoop, UNCHANGED starts, young = 0, ripe' = 0,
             Count("startInLoop")' = 0, ~StartComing, starts # 0
      PROVE  SingleAttempt'
  <2>1. young' \in {0, 1} /\ (young' = 1 => state_' = "kDisconnected") /\ StartersKept
    <3>1. CASE connect_
      BY <1>t, <1>6, <3>1, ConnectMoves DEF StartInLoop
    <3>2. CASE ~connect_
      BY <1>k, <1>6, <3>2 DEF StartInLoop
    <3> QED
      BY <3>1, <3>2
  <2>2. Pending' = young'
    BY <1>6, <2>1 DEF Pending
  <2> QED
    BY <1>1, <1>6, <2>1, <2>2, AttemptMoves
<1>7. CASE TimerFires
  <2>1. Pending > 0 /\ ripe > 0
    BY <1>0, <1>7 DEF TimerFires, Pending
  <2>2. Pending <= 1 /\ ~StartComing /\ starts # 0
    BY <1>0, <1>1, <2>1 DEF SingleAttempt
  <2>3. Count("startInLoop") = 0 /\ young = 0 /\ ripe = 1
    BY <1>0, <2>1, <2>2 DEF Pending
  <2>4. Count("startInLoop")' = Count("startInLoop")
    BY <1>7 DEF TimerFires, Count
  <2> QED
    BY <1>6, <1>7, <2>2, <2>3, <2>4 DEF TimerFires
<1>8. CASE SwapPending
  <2>1. Count("startInLoop")' = Count("startInLoop")
    BY <1>0, <1>8, CountSwap DEF SwapPending, Polling
  <2>2. Pending' = Pending /\ Pending \in Nat
    BY <1>0, <1>8, <2>1 DEF SwapPending, Pending
  <2>3. "resetChannel" \notin Range(queue')
    BY <1>8 DEF SwapPending, Range
  <2>4. UNCHANGED <<state_, call, starts>>
    BY <1>8 DEF SwapPending, socketVars, historyVars
  <2> QED
    BY <1>k, <1>1, <2>2, <2>3, <2>4, AttemptMoves DEF SingleAttempt
<1>9. ASSUME UNCHANGED <<state_, call, starts, young, ripe>>,
             Count("startInLoop")' = Count("startInLoop"),
             "resetChannel" \in Range(queue') => "resetChannel" \in Range(queue)
      PROVE  SingleAttempt'
  <2>1. Pending' = Pending /\ Pending \in Nat
    BY <1>0, <1>9 DEF Pending
  <2> QED
    BY <1>k, <1>1, <1>9, <2>1, AttemptMoves DEF SingleAttempt
<1>10. CASE RunFunctor
  <2>0. batch # <<>> /\ batch' = Tail(batch) /\ UNCHANGED <<ripe, starts>>
    BY <1>10 DEF RunFunctor
  <2>1. CASE Head(batch) = "startInLoop"
    <3>1. StartInLoop /\ queue' = queue
      BY <1>10, <2>1, Zenon DEF RunFunctor
    <3>2. "startInLoop" \in Range(batch)
      BY <1>0, <2>0, <2>1 DEF Range
    <3>3. Count("startInLoop") > 0
      BY <1>0, <3>2, CountType
    <3>4. Pending <= 1 /\ Pending > 0 /\ ~StartComing /\ starts # 0
      BY <1>0, <1>1, <3>3 DEF SingleAttempt, Pending
    <3>5. Count("startInLoop") = 1 /\ young = 0 /\ ripe = 0
      BY <1>0, <3>3, <3>4 DEF Pending
    <3>6. Count("startInLoop")' = 0
      BY <1>0, <2>0, <2>1, <3>1, <3>5, CountPop
    <3> QED
      BY <1>6, <2>0, <3>1, <3>4, <3>5, <3>6
  <2>2. CASE Head(batch) = "stopInLoop"
    <3>1. StopInLoop /\ call' = call
      BY <1>10, <2>2, Zenon DEF RunFunctor
    <3>2. CASE state_ = "kConnecting"
      <4>1. Count("startInLoop") = 0
        BY <1>0, <1>1, <3>2 DEF SingleAttempt, Pending
      <4>2. RemoveAndResetChannel /\ Retry(sockets, connect_, retryDelayMs_)
        BY <3>1, <3>2 DEF StopInLoop
      <4>3. queue' = Append(queue, "resetChannel") /\ "resetChannel" \in Ops
        BY <4>2 DEF RemoveAndResetChannel, Ops
      <4>4. Count("startInLoop")' = 0
        BY <1>0, <2>0, <2>2, <4>1, <4>3, CountPopPush
      <4> QED
        BY <1>3, <2>0, <3>1, <3>2, <4>2, <4>4
    <3>3. CASE state_ # "kConnecting"
      <4>1. UNCHANGED <<state_, queue, young>>
        BY <3>1, <3>3 DEF StopInLoop, socketVars
      <4>2. Count("startInLoop")' = Count("startInLoop")
        BY <1>0, <2>0, <2>2, <4>1, CountPop
      <4> QED
        BY <1>9, <2>0, <3>1, <4>1, <4>2
    <3> QED
      BY <3>2, <3>3
  <2>3. CASE Head(batch) = "resetChannel"
    <3>1. UNCHANGED <<state_, queue, young, call>>
      BY <1>10, <2>3, Zenon DEF RunFunctor
    <3>2. Count("startInLoop")' = Count("startInLoop")
      BY <1>0, <2>0, <2>3, <3>1, CountPop
    <3> QED
      BY <1>9, <2>0, <3>1, <3>2
  <2> QED
    BY <1>0, <2>0, <2>1, <2>2, <2>3 DEF Ops
<1>11. ASSUME NEW delay, Connect(delay), UNCHANGED <<queue, batch, ripe>>,
              Pending = 0, ~StartComing, starts' # 0
       PROVE  SingleAttempt'
  <2>1. Count("startInLoop")' = Count("startInLoop")
    BY <1>11 DEF Count
  <2>2. Count("startInLoop") = 0 /\ young = 0 /\ ripe = 0
    BY <1>0, <1>11 DEF Pending
  <2>3. ~StartComing'
    BY <1>0, <1>t, <1>11, ConnectMoves DEF StartComing, StartersKept
  <2>4. /\ young' \in {0, 1} /\ (young' = 1 => state_' = "kDisconnected")
    BY <1>0, <1>t, <1>11, <2>2, ConnectMoves
  <2>5. Pending' = young' /\ ripe' = 0
    BY <1>11, <2>1, <2>2, <2>4 DEF Pending
  <2> QED
    BY <1>11, <2>3, <2>4, <2>5 DEF SingleAttempt, StartComing
<1>12. CASE StartHere
  <2>1. starts = 0 /\ starts' = 1
    BY <1>0, <1>12 DEF StartHere
  <2>2. Pending = 0 /\ ~StartComing
    BY <1>1, <2>1 DEF SingleAttempt
  <2> QED
    BY <1>11, <1>12, <2>1, <2>2 DEF StartHere
<1>13. CASE StopHere
  <2>1. Count("startInLoop")' = Count("startInLoop")
    BY <1>0, <1>13, CountPush DEF StopHere, Ops
  <2>2. "resetChannel" \in Range(queue') => "resetChannel" \in Range(queue)
    BY <1>0, <1>13 DEF StopHere, Range
  <2> QED
    BY <1>9, <1>13, <2>1, <2>2 DEF StopHere, socketVars, historyVars
<1>14. CASE ConnectionEnds
  <2>1. state_ = "kConnected"
    BY <1>14 DEF ConnectionEnds, ChannelInv
  <2>2. Pending = 0 /\ ~StartComing /\ starts # 0
    BY <1>0, <1>1, <2>1 DEF SingleAttempt, Pending
  <2>3. CASE Connect(kInitRetryDelayMs)
    BY <1>11, <1>14, <2>2, <2>3 DEF ConnectionEnds
  <2>4. CASE UNCHANGED <<connect_, socketVars, young, retryDelayMs_, gaveUp, call>>
    <3>1. UNCHANGED <<call, starts, state_, young, ripe, queue, batch>>
      BY <1>14, <2>4 DEF ConnectionEnds, socketVars
    <3> QED
      BY <1>1, <3>1 DEF SingleAttempt, StartComing, Pending, Count
  <2> QED
    BY <1>14, <2>3, <2>4 DEF ConnectionEnds
<1>15. ASSUME NEW t \in Threads, Store(t) PROVE SingleAttempt'
  <2>1. UNCHANGED <<state_, young, ripe, queue, batch>>
    BY <1>15 DEF Store, socketVars, loopVars
  <2>2. Pending' = Pending
    BY <2>1 DEF Pending, Count
  <2>3. CASE call' = [call EXCEPT ![t] = "startInLoop"] /\ starts' = starts + 1
    <3>1. starts = 0 /\ starts' = 1
      BY <1>0, <2>3
    <3>2. Pending = 0 /\ state_ = "kDisconnected" /\ ~StartComing
      BY <1>1, <3>1 DEF SingleAttempt
    <3>3. \A u \in Threads : call'[u] = "startInLoop" => u = t
      BY <1>t, <2>3, <3>2 DEF StartComing
    <3> QED
      BY <1>1, <2>1, <2>2, <3>1, <3>2, <3>3 DEF SingleAttempt
  <2>4. CASE call' = [call EXCEPT ![t] = "stopInLoop"] /\ starts' = starts
    <3>1. \A u \in Threads : call'[u] = "startInLoop" => call[u] = "startInLoop"
      BY <1>t, <2>4
    <3> QED
      BY <1>1, <2>1, <2>2, <2>4, <3>1 DEF SingleAttempt, StartComing
  <2> QED
    BY <1>15, <2>3, <2>4 DEF Store
<1>16. ASSUME NEW t \in Threads, Queue(t) PROVE SingleAttempt'
  <2>1. UNCHANGED <<state_, young, ripe, starts, batch>>
    BY <1>16 DEF Queue, socketVars, historyVars
  <2>2. call[t] \in Ops /\ queue' = Append(queue, call[t]) /\ call' = [call EXCEPT ![t] = "none"]
    BY <1>t, <1>16 DEF Queue, Ops
  <2>3. "resetChannel" \in Range(queue') => "resetChannel" \in Range(queue)
    BY <1>t, <1>0, <1>16 DEF Queue, Range
  <2>4. Count("startInLoop")'
            = Count("startInLoop") + (IF call[t] = "startInLoop" THEN 1 ELSE 0)
    BY <1>0, <2>1, <2>2, CountPush
  <2>5. CASE call[t] = "startInLoop"
    <3>1. StartComing /\ Pending = 0 /\ state_ = "kDisconnected" /\ starts # 0
      BY <1>1, <2>5 DEF SingleAttempt, StartComing
    <3>2. \A u \in Threads : call'[u] # "startInLoop"
      BY <1>t, <1>1, <2>2, <2>5 DEF SingleAttempt
    <3>3. Pending' = 1
      BY <1>0, <2>1, <2>4, <2>5, <3>1 DEF Pending
    <3> QED
      BY <1>1, <2>1, <2>3, <3>1, <3>2, <3>3 DEF SingleAttempt, StartComing
  <2>6. CASE call[t] # "startInLoop"
    <3>1. \A u \in Threads : call'[u] = "startInLoop" => call[u] = "startInLoop"
      BY <1>t, <2>2
    <3>2. Pending' = Pending
      BY <1>0, <2>1, <2>4, <2>6 DEF Pending
    <3> QED
      BY <1>1, <2>1, <2>3, <3>1, <3>2 DEF SingleAttempt, StartComing
  <2> QED
    BY <2>5, <2>6
<1> QED
  BY <1>2, <1>4, <1>5, <1>7, <1>8, <1>10, <1>12, <1>13, <1>14, <1>15, <1>16
     DEF Next, LoopStep

\* The three invariants hold from the constructor on.
LEMMA ConnectorInvariants == Spec => [](ChannelInv /\ AttemptInv /\ StopStops)
<1>1. ASSUME Init PROVE ChannelInv /\ AttemptInv /\ StopStops
  <2>1. batch \in Seq(Ops) /\ queue \in Seq(Ops) /\ Range(queue) \cup Range(batch) = {}
    BY <1>1 DEF Init, Range
  <2>2. \A op : Count(op) = 0
    BY <2>1, CountType
  <2>3. ChannelInv
    <3>1. connect_ \in BOOLEAN /\ conn \in BOOLEAN /\ gaveUp \in BOOLEAN
      BY <1>1, Zenon DEF Init
    <3>2. TypeOK
      BY <1>1, <2>1, <3>1, ConnectorAssumption DEF Init, TypeOK, Ops
    <3> QED
      BY <1>1, <2>2, <3>2 DEF Init, ChannelInv, EventsHandled, SocketsAccounted
  <2>4. AttemptInv
    BY <1>1, <2>1, <2>2 DEF Init, AttemptInv, SingleAttempt, StartComing, Pending
  <2> QED
    BY <1>1, <2>3, <2>4 DEF Init, StopStops
<1> QED
  BY <1>1, ChannelInvStep, AttemptInvStep, StopStopsStep, PTL DEF Spec

\* Until Start is called a second time, the asserts of StartInLoop, Connecting,
\* HandleWrite and ~Channel hold: there is one attempt at a time, whatever Stop,
\* Restart, the retry timers and the events of the socket do.
THEOREM AttemptsInOrder == Spec => [](starts <= 1 => AttemptsOrdered)
<1>1. ASSUME ChannelInv, AttemptInv, starts <= 1 PROVE AttemptsOrdered
  <2>0. /\ batch \in Seq(Ops) /\ queue \in Seq(Ops) /\ young \in Nat /\ ripe \in Nat
        /\ Count("startInLoop") \in Nat
    BY <1>1, Functors, CountType DEF ChannelInv, TypeOK
  <2>1. SingleAttempt
    BY <1>1 DEF AttemptInv
  <2>2. ASSUME ripe > 0, Polling PROVE channel_ = "none"
    <3>1. Pending > 0
      BY <2>0, <2>2 DEF Pending
    <3>2. state_ = "kDisconnected" /\ "resetChannel" \notin Range(queue)
      BY <2>0, <2>1, <2>2, <3>1 DEF SingleAttempt
    <3>3. Count("resetChannel") = 0
      BY <2>0, <2>2, <3>2, CountType DEF Polling, Range
    <3> QED
      BY <1>1, <3>2, <3>3 DEF ChannelInv, TypeOK
  <2>3. OneAttempt
    BY <2>0, <2>1, <2>2 DEF OneAttempt, SingleAttempt, Pending
  <2> QED
    BY <1>1, <2>3 DEF AttemptsOrdered, ChannelInv, ResetsRemoved
<1> QED
  BY <1>1, ConnectorInvariants, PTL

\* However often Start, Stop and Restart are called, each socket that Connect makes is
\* closed or handed over once: the one that is neither is the one the channel watches.
THEOREM SocketsOwned == Spec => []SocketsAccounted
<1>1. ChannelInv => SocketsAccounted
  BY DEF ChannelInv
<1> QED
  BY <1>1, ConnectorInvariants, PTL

\* Once the functors of all calls of Stop have run, a connector whose connect_ is false
\* has no attempt under way.
THEOREM StopIsFinal == Spec => []StopStops
BY ConnectorInvariants, PTL
=============================================================================
