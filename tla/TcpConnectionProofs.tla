------------------------ MODULE TcpConnectionProofs ------------------------
(***************************************************************************)
(* Proofs about TcpConnection.                                             *)
(***************************************************************************)
EXTENDS TcpConnection, TLAPS

\* The functors in the io loop's queue.
Functors == [op : Ops, data : Seq(Bytes)]

\* The parts of TypeOK.
ChannelTypes ==
    /\ state_ \in {"kConnecting", "kConnected", "kDisconnecting", "kDisconnected"}
    /\ events \subseteq {"read", "write"}
    /\ index \in {"kNew", "kAdded", "kDeleted"} /\ (events # {} => index = "kAdded")
    /\ revents \subseteq {"HUP", "ERR", "IN", "OUT"}
DataTypes ==
    /\ outputBuffer_ \in Seq(Bytes) /\ wire \in Seq(Bytes)
    /\ sent \in [Senders -> Nat] /\ completed \in Nat
    /\ gaveUp \in BOOLEAN /\ highWater \in BOOLEAN
FlagTypes ==
    /\ reading_ \in BOOLEAN /\ shutWr \in BOOLEAN /\ soError \in BOOLEAN /\ polled \in BOOLEAN
    /\ batchOwns \in BOOLEAN /\ inMap \in BOOLEAN /\ serverGone \in BOOLEAN /\ userRef \in BOOLEAN
    /\ peer \in {"open", "fin", "reset"}
QueueTypes ==
    /\ queue \in Seq(Functors) /\ batch \in Seq(Functors)
    /\ call \in [Threads -> {"none", "send", "shutdown", "forceClose", "shutdownInLoop",
                             "forceCloseInLoop"}]
    /\ removals \in Nat

\* TypeOK is its parts.
LEMMA Parts == TypeOK <=> ChannelTypes /\ DataTypes /\ FlagTypes /\ QueueTypes
BY DEF TypeOK, ChannelTypes, DataTypes, FlagTypes, QueueTypes, Functors

\* A functor of no data, by its name.
LEMMA FunctorTypes ==
  \A op \in Ops : Functor(op) \in Functors /\ Functor(op).op = op /\ Functor(op).data = <<>>
<1>1. <<>> \in Seq(Bytes)
  OBVIOUS
<1> QED
  BY <1>1 DEF Functor, Functors

\* The part of a sequence that was written and the part that was not.
LEMMA Pieces ==
  ASSUME NEW p \in Seq(Bytes), NEW n \in 0 .. Len(p)
  PROVE  /\ SubSeq(p, 1, n) \in Seq(Bytes) /\ SubSeq(p, n + 1, Len(p)) \in Seq(Bytes)
         /\ Len(SubSeq(p, 1, n)) = n /\ Len(SubSeq(p, n + 1, Len(p))) = Len(p) - n
         /\ n = Len(p) => SubSeq(p, 1, n) = p /\ SubSeq(p, n + 1, Len(p)) = <<>>
         /\ n = 0 => SubSeq(p, 1, n) = <<>> /\ SubSeq(p, n + 1, Len(p)) = p
<1>1. Len(p) \in Nat
  OBVIOUS
<1>2. \A i \in 1 .. Len(p) : p[i] \in Bytes
  OBVIOUS
<1>3. SubSeq(p, 1, n) \in Seq(Bytes) /\ Len(SubSeq(p, 1, n)) = n
  BY <1>1, <1>2
<1>4. SubSeq(p, n + 1, Len(p)) \in Seq(Bytes) /\ Len(SubSeq(p, n + 1, Len(p))) = Len(p) - n
  BY <1>1, <1>2
<1>5. n = Len(p) => SubSeq(p, 1, n) = p /\ SubSeq(p, n + 1, Len(p)) = <<>>
  BY <1>1
<1>6. n = 0 => SubSeq(p, 1, n) = <<>> /\ SubSeq(p, n + 1, Len(p)) = p
  BY <1>1
<1> QED
  BY <1>3, <1>4, <1>5, <1>6

\* A message is of bytes, numbered on from those that the sender sent before.
LEMMA Messages ==
  ASSUME DataTypes, NEW s \in Senders, NEW len \in 1 .. MaxMessage
  PROVE  /\ Message(s, len) \in Seq(Bytes) /\ Len(Message(s, len)) = len
         /\ \A i \in 1 .. len : Message(s, len)[i] = <<s, sent[s] + i>>
<1>1. MaxMessage \in Nat /\ sent[s] \in Nat /\ len \in Nat
  BY TcpConnectionAssumption DEF DataTypes
<1>2. \A i \in 1 .. len : <<s, sent[s] + i>> \in Bytes
  BY <1>1 DEF Bytes
<1> QED
  BY <1>1, <1>2 DEF Message

\* DoSendInLoop gives the data up.
GivesUp ==
    /\ gaveUp' = TRUE
    /\ UNCHANGED <<outputBuffer_, wire, completed, highWater, events, index, queue>>

\* DoSendInLoop writes n bytes of d and buffers the others.
Written(d, n) ==
    /\ gaveUp' = gaveUp
    /\ wire' = wire \o SubSeq(d, 1, n)
    /\ outputBuffer_' = outputBuffer_ \o SubSeq(d, n + 1, Len(d))
    /\ n > 0 => MayWrite
    /\ MayWrite => ~shutWr
    /\ state_ # "kDisconnected"
    /\ n = Len(d) => /\ outputBuffer_' = outputBuffer_ /\ completed' = Len(wire')
                     /\ queue' = Append(queue, Functor("writeComplete"))
                     /\ UNCHANGED <<highWater, events, index>>
    /\ n < Len(d) => /\ AskForRoom /\ completed' = completed
                     /\ IF CrossesMark(Len(outputBuffer_), Len(outputBuffer_) + (Len(d) - n))
                        THEN queue' = Append(queue, Functor("highWaterMark")) /\ highWater' = TRUE
                        ELSE UNCHANGED <<queue, highWater>>

\* These are the two outcomes of DoSendInLoop.
LEMMA SendEffect ==
  ASSUME DataTypes, NEW d \in Seq(Bytes), SendInLoop(d)
  PROVE  GivesUp \/ \E n \in 0 .. Len(d) : Written(d, n)
<1>0. Len(d) \in Nat
  OBVIOUS
<1>1. CASE state_ = "kDisconnected"
  BY <1>1 DEF SendInLoop, channelVars, GivesUp
<1>2. CASE state_ # "kDisconnected"
  <2>1. PICK n \in IF MayWrite THEN WriteResults(Len(d)) ELSE {0} : DoSendInLoop(d, n)
    BY <1>2 DEF SendInLoop
  <2>2. n = -1 \/ n = Len(d) \/ n \in 0 .. Len(d) - 1
    BY <1>0, <2>1 DEF WriteResults
  <2>3. CASE n = -1
    BY <1>0, <2>1, <2>3 DEF DoSendInLoop, channelVars, GivesUp
  <2>4. CASE n = Len(d)
    <3>1. /\ wire' = wire \o d /\ completed' = Len(wire')
          /\ queue' = Append(queue, Functor("writeComplete"))
          /\ UNCHANGED <<outputBuffer_, gaveUp, highWater, events, index>>
      BY <1>0, <2>1, <2>4 DEF DoSendInLoop, QueueWriteComplete, channelVars
    <3>2. SubSeq(d, 1, n) = d /\ SubSeq(d, n + 1, Len(d)) = <<>>
      BY <1>0, <2>4, Pieces
    <3>3. outputBuffer_ \o <<>> = outputBuffer_
      BY DEF DataTypes
    <3>4. (n > 0 => MayWrite) /\ (MayWrite => ~shutWr)
      BY <1>0, <2>1, <2>4 DEF WriteResults
    <3>5. Written(d, n)
      <4>1. ~(n < Len(d))
        BY <1>0, <2>4
      <4>2. /\ wire' = wire \o SubSeq(d, 1, n)
            /\ outputBuffer_' = outputBuffer_ \o SubSeq(d, n + 1, Len(d))
        BY <3>1, <3>2, <3>3, Zenon
      <4> QED
        BY <1>2, <3>1, <3>4, <4>1, <4>2, Zenon DEF Written
    <3> QED
      BY <1>0, <2>4, <3>5
  <2>5. CASE n \in 0 .. Len(d) - 1
    <3>0. n # -1 /\ n # Len(d)
      BY <1>0, <2>5
    <3>1. Len(SubSeq(d, n + 1, Len(d))) = Len(d) - n
      BY <1>0, <2>5, Pieces
    <3>2. /\ wire' = wire \o SubSeq(d, 1, n) /\ completed' = completed
          /\ outputBuffer_' = outputBuffer_ \o SubSeq(d, n + 1, Len(d))
      BY <2>1, <3>0, Zenon DEF DoSendInLoop
    <3>3. AskForRoom /\ UNCHANGED gaveUp
      BY <2>1, <3>0, Zenon DEF DoSendInLoop
    <3>4. IF CrossesMark(Len(outputBuffer_), Len(outputBuffer_) + (Len(d) - n))
          THEN queue' = Append(queue, Functor("highWaterMark")) /\ highWater' = TRUE
          ELSE UNCHANGED <<queue, highWater>>
      BY <2>1, <3>0, <3>1, Zenon DEF DoSendInLoop
    <3>5. (n > 0 => MayWrite) /\ (MayWrite => ~shutWr)
      BY <2>1, <2>5 DEF WriteResults
    <3>6. Written(d, n)
      BY <1>0, <1>2, <2>5, <3>2, <3>3, <3>4, <3>5 DEF Written
    <3> QED
      BY <1>0, <2>5, <3>6
  <2> QED
    BY <2>2, <2>3, <2>4, <2>5
<1> QED
  BY <1>1, <1>2

\* HandleWrite writes n bytes of the buffer.
Drains(n) ==
    /\ "write" \in events
    /\ wire' = wire \o SubSeq(outputBuffer_, 1, n)
    /\ outputBuffer_' = SubSeq(outputBuffer_, n + 1, Len(outputBuffer_))
    /\ highWater' = (highWater /\ Len(outputBuffer_') >= highWaterMark_)
    /\ IF outputBuffer_' = <<>>
       THEN /\ UpdateChannel(events \ {"write"}) /\ Drained
            /\ queue' = Append(queue, Functor("writeComplete")) /\ completed' = Len(wire')
       ELSE UNCHANGED <<events, index, queue, completed, shutWr>>
    /\ UNCHANGED <<sent, gaveUp>>

\* HandleWrite does nothing, or writes.
LEMMA WriteEffect ==
  ASSUME DataTypes, EventOut
  PROVE  \/ UNCHANGED <<outputBuffer_, wire, sent, gaveUp, completed, highWater, events, index,
                        queue, shutWr>>
         \/ \E n \in 1 .. Len(outputBuffer_) : Drains(n)
<1>0. Len(outputBuffer_) \in Nat
  BY DEF DataTypes
<1>1. CASE "write" \notin events
  BY <1>1 DEF EventOut, channelVars, dataVars
<1>2. CASE "write" \in events
  <2> DEFINE left(n) == SubSeq(outputBuffer_, n + 1, Len(outputBuffer_))
  <2>1. PICK n \in WriteResults(Len(outputBuffer_)) :
           \/ /\ n <= 0
              /\ UNCHANGED <<channelVars, dataVars, queue, shutWr>>
           \/ /\ n > 0
              /\ wire' = wire \o SubSeq(outputBuffer_, 1, n)
              /\ outputBuffer_' = left(n)
              /\ highWater' = (highWater /\ Len(left(n)) >= highWaterMark_)
              /\ IF left(n) = <<>>
                 THEN UpdateChannel(events \ {"write"}) /\ QueueWriteComplete /\ Drained
                 ELSE UNCHANGED <<channelVars, queue, completed, shutWr>>
              /\ UNCHANGED <<sent, gaveUp>>
    BY <1>2, Zenon DEF EventOut
  <2>2. CASE n <= 0
    BY <1>0, <2>1, <2>2 DEF WriteResults, channelVars, dataVars
  <2>3. CASE n > 0
    <3>1. n \in 1 .. Len(outputBuffer_) /\ ~(n <= 0)
      BY <1>0, <2>1, <2>3 DEF WriteResults
    <3> HIDE DEF left
    <3>2. Drains(n)
      BY <1>2, <2>1, <3>1, Zenon DEF Drains, left, QueueWriteComplete, channelVars
    <3> QED
      BY <3>1, <3>2
  <2>4. n \in Int
    BY <1>0, <2>1 DEF WriteResults
  <2> QED
    BY <2>2, <2>3, <2>4
<1> QED
  BY <1>1, <1>2

\* The steps that touch the data.
LEMMA DataSteps ==
  ASSUME [Next]_vars
  PROVE  \/ UNCHANGED dataVars
         \/ EventOut \/ RunSend
         \/ \E len \in 1 .. MaxMessage : SendHere(len) \/ \E t \in Threads : QueueSend(t, len)
BY Zenon DEF Next, IoLoop, UserCalls, Poll, EventHup, EventErr, EventIn, SwapPending,
   RunEstablished,
       RunDestroyed, RunShutdown, RunForceClose, RunReadControl, RunUserCallback, ShutdownHere,
       ForceCloseHere, ReadControlHere, DropRef, Test, Store, Queue, QueueReadControl, RunRemove,
       DestroyServer, PeerCloses, vars

\* A functor is queued.  ConnectDestroyed is, as the connection leaves the map; only Send
\* queues data.
Grows ==
    \E f \in Functors :
        /\ queue' = Append(queue, f)
        /\ f.op # "connectEstablished"
        /\ f.op = "connectDestroyed" => inMap /\ inMap' = FALSE
        /\ f.op \in {"startReadInLoop", "stopReadInLoop"} => ReadControl
        /\ \/ f.data = <<>>
           \/ /\ f.op = "sendInLoop"
              /\ \E len \in 1 .. MaxMessage : \E t \in Threads :
                    QueueSend(t, len) /\ f.data = Message(t, len)

\* The batch stays as it is, or its next functor is run; only RunSend runs one with data, and
\* only RunDestroyed runs ConnectDestroyed.
Shrinks ==
    \/ batch' = batch
    \/ batch # <<>> /\ batch' = Tail(batch)
       /\ (RunSend \/ Head(batch).op # "sendInLoop")
       /\ (RunDestroyed \/ Head(batch).op # "connectDestroyed")

\* A functor without data is queued.
LEMMA GrowsBy ==
  ASSUME NEW op \in Ops \ {"connectEstablished"}, queue' = Append(queue, Functor(op)),
         op = "connectDestroyed" => inMap /\ inMap' = FALSE,
         op \in {"startReadInLoop", "stopReadInLoop"} => ReadControl
  PROVE  Grows
<1>1. /\ Functor(op) \in Functors /\ Functor(op).op = op /\ Functor(op).data = <<>>
  BY FunctorTypes
<1> HIDE DEF Functor
<1> QED
  BY <1>1 DEF Grows

\* The io loop takes all functors at once and runs them one by one, while it and the other
\* threads queue more.
LEMMA QueueSteps ==
  ASSUME TypeOK, [Next]_vars
  PROVE  \/ Shrinks /\ (queue' = queue \/ Grows)
         \/ SwapPending
<1> USE Parts
<1> DEFINE Goal == Shrinks /\ (queue' = queue \/ Grows)
<1>1. CASE \/ \E data, room \in BOOLEAN : Poll(data, room)
           \/ EventErr \/ RunEstablished \/ RunDestroyed \/ RunShutdown \/ RunReadControl
           \/ RunUserCallback \/ ShutdownHere \/ ReadControlHere \/ DropRef
           \/ \E t \in Threads : Store(t) \/ \E op \in ThreadCalls : Test(t, op)
           \/ PeerCloses \/ UNCHANGED vars
  BY <1>1, Zenon DEF Poll, EventErr, RunEstablished, RunDestroyed, RunShutdown, RunReadControl,
     RunFunctor,
              RunUserCallback, ShutdownHere, ReadControlHere, DropRef, Store, Test, PeerCloses,
              batchVars, vars, Shrinks
<1>2. ASSUME HandleClose PROVE queue' = queue \/ Grows
  <2>1. \/ queue' = queue
        \/ queue' = Append(queue, Functor("connectDestroyed")) /\ inMap /\ inMap' = FALSE
    BY <1>2 DEF HandleClose, RemoveConnectionInLoop
  <2> QED
    BY <2>1, GrowsBy, Zenon DEF Ops
<1>3. CASE EventHup \/ EventIn \/ RunForceClose
  <2>1. queue' = queue \/ HandleClose
    BY <1>3 DEF EventHup, EventIn, RunForceClose
  <2>2. Shrinks
    BY <1>3 DEF EventHup, EventIn, RunForceClose, RunFunctor, batchVars, Shrinks
  <2> QED
    BY <1>2, <2>1, <2>2
<1>4. CASE RunRemove \/ DestroyServer
  <2>1. /\ batch' = batch
        /\ \/ queue' = queue
           \/ queue' = Append(queue, Functor("connectDestroyed")) /\ inMap /\ inMap' = FALSE
    BY <1>4 DEF RunRemove, RemoveConnectionInLoop, DestroyServer, batchVars
  <2> QED
    BY <2>1, GrowsBy, Zenon DEF Ops, Shrinks
<1>5. ASSUME NEW d \in Seq(Bytes), SendInLoop(d) PROVE queue' = queue \/ Grows
  <2>1. GivesUp \/ \E n \in 0 .. Len(d) : Written(d, n)
    BY <1>5, SendEffect
  <2>2. \/ queue' = queue \/ queue' = Append(queue, Functor("writeComplete"))
        \/ queue' = Append(queue, Functor("highWaterMark"))
    BY <2>1 DEF GivesUp, Written
  <2> QED
    BY <2>2, GrowsBy, Zenon DEF Ops
<1>6. CASE RunSend
  <2>1. /\ Head(batch) \in Functors /\ batch # <<>> /\ batch' = Tail(batch)
        /\ Head(batch).op = "sendInLoop"
    BY <1>6 DEF RunSend, RunFunctor, QueueTypes
  <2>2. Head(batch).data \in Seq(Bytes)
    BY <2>1 DEF Functors
  <2> QED
    BY <1>5, <1>6, <2>1, <2>2 DEF RunSend, Shrinks
<1>7. ASSUME NEW len \in 1 .. MaxMessage, SendHere(len) PROVE Goal
  <2>1. Message("loop", len) \in Seq(Bytes)
    BY Messages DEF Senders
  <2> QED
    BY <1>5, <1>7, <2>1 DEF SendHere, batchVars, Shrinks
<1>8. CASE EventOut
  <2>1. batch' = batch
    BY <1>8 DEF EventOut, batchVars
  <2>2. queue' = queue \/ queue' = Append(queue, Functor("writeComplete"))
    BY <1>8, WriteEffect DEF Drains
  <2> QED
    BY <2>1, <2>2, GrowsBy, Zenon DEF Ops, Shrinks
<1>9. CASE ForceCloseHere
  BY <1>9, GrowsBy, Zenon DEF ForceCloseHere, batchVars, Ops, Shrinks
<1>10. ASSUME NEW t \in Threads, Queue(t) \/ QueueReadControl(t) PROVE Goal
  <2>1. PICK op \in {"shutdownInLoop", "forceCloseInLoop", "startReadInLoop", "stopReadInLoop"} :
           /\ queue' = Append(queue, Functor(op))
           /\ op \in {"startReadInLoop", "stopReadInLoop"} => ReadControl
    BY <1>10 DEF Queue, QueueReadControl
  <2> QED
    BY <1>10, <2>1, GrowsBy, Zenon DEF Queue, QueueReadControl, batchVars, Ops, Shrinks
<1>11. ASSUME NEW t \in Threads, NEW len \in 1 .. MaxMessage, QueueSend(t, len) PROVE Goal
  <2> DEFINE f == [op |-> "sendInLoop", data |-> Message(t, len)]
  <2>1. f \in Functors
    BY Messages DEF Functors, Senders, Ops
  <2>2. queue' = Append(queue, f) /\ batch' = batch /\ f.op = "sendInLoop" /\ f.data = Message(t, len)
    BY <1>11 DEF QueueSend, batchVars
  <2> HIDE DEF f
  <2> QED
    BY <1>11, <2>1, <2>2 DEF Grows, Shrinks
<1> QED
  BY <1>1, <1>3, <1>4, <1>6, <1>7, <1>8, <1>9, <1>10, <1>11 DEF Next, IoLoop, UserCalls

\* A message of the io loop's own thread is data; so is what a functor carries.
LEMMA SentData ==
  ASSUME TypeOK
  PROVE  /\ \A len \in 1 .. MaxMessage : Message("loop", len) \in Seq(Bytes)
         /\ batch # <<>> => Head(batch) \in Functors /\ Head(batch).data \in Seq(Bytes)
<1>1. \A len \in 1 .. MaxMessage : Message("loop", len) \in Seq(Bytes)
  BY Parts, Messages DEF Senders
<1>2. batch # <<>> => Head(batch) \in Functors
  BY Parts DEF QueueTypes
<1> QED
  BY <1>1, <1>2 DEF Functors

\* The connection's state and its channel keep their types.
LEMMA ChannelTypesKept ==
  ASSUME TypeOK, [Next]_vars
  PROVE  ChannelTypes'
<1>0. ChannelTypes
  BY Parts
<1> USE DEF ChannelTypes
<1>1. ASSUME NEW data \in BOOLEAN, NEW room \in BOOLEAN, Poll(data, room) PROVE ChannelTypes'
  BY <1>0, <1>1, Zenon DEF Poll, channelVars
<1>2. CASE EventHup
  BY <1>0, <1>2, Zenon DEF EventHup, HandleClose, UpdateChannel, channelVars
<1>3. CASE EventErr \/ SwapPending \/ RunShutdown \/ RunUserCallback \/ DropRef \/ PeerCloses
           \/ RunRemove \/ UNCHANGED vars \/ ShutdownHere \/ ForceCloseHere
  BY <1>0, <1>3, Zenon DEF EventErr, SwapPending, RunShutdown, RunUserCallback, RunFunctor, DropRef,
                    PeerCloses, RunRemove, vars, ShutdownHere, ForceCloseHere, channelVars
<1>4. CASE EventIn
  BY <1>0, <1>4, Zenon DEF EventIn, HandleClose, UpdateChannel, channelVars
<1>5. CASE EventOut
  <2>1. UNCHANGED <<events, index>> \/ UpdateChannel(events \ {"write"})
    BY <1>5, WriteEffect, Parts, Zenon DEF Drains
  <2> QED
    BY <1>0, <1>5, <2>1, Zenon DEF EventOut, UpdateChannel
<1>6. CASE RunEstablished \/ RunDestroyed \/ RunForceClose
  BY <1>0, <1>6, Zenon DEF RunEstablished, RunDestroyed, RunForceClose, RunFunctor,
     ConnectEstablished,
                    ConnectDestroyed, HandleClose, UpdateChannel, channelVars
<1>7. CASE RunReadControl \/ ReadControlHere
  BY <1>0, <1>7, Zenon DEF RunReadControl, ReadControlHere, RunFunctor, StartReadInLoop,
     StopReadInLoop,
                    UpdateChannel, channelVars
<1>8. CASE RunSend \/ \E len \in 1 .. MaxMessage : SendHere(len)
  <2>1. UNCHANGED <<state_, revents>> /\ \E d \in Seq(Bytes) : SendInLoop(d)
    BY <1>8, SentData DEF RunSend, RunFunctor, SendHere
  <2>2. UNCHANGED <<events, index>> \/ AskForRoom
    <3>1. PICK d \in Seq(Bytes) : SendInLoop(d)
      BY <2>1
    <3>2. GivesUp \/ \E n \in 0 .. Len(d) : Written(d, n)
      BY <3>1, SendEffect, Parts
    <3>3. ASSUME NEW n \in 0 .. Len(d), Written(d, n)
          PROVE  UNCHANGED <<events, index>> \/ AskForRoom
      <4>1. n = Len(d) \/ n < Len(d)
        OBVIOUS
      <4> QED
        BY <3>3, <4>1, Zenon DEF Written
    <3> QED
      BY <3>2, <3>3 DEF GivesUp
  <2> QED
    BY <1>0, <2>1, <2>2, Zenon DEF AskForRoom, UpdateChannel, channelVars
<1>9. ASSUME NEW t \in Threads,
             \/ \E op \in ThreadCalls : Test(t, op)
             \/ Store(t) \/ Queue(t) \/ QueueReadControl(t)
             \/ \E len \in 1 .. MaxMessage : QueueSend(t, len)
      PROVE  ChannelTypes'
  BY <1>0, <1>9, Zenon DEF Test, Store, Queue, QueueReadControl, QueueSend, channelVars
<1>10. CASE DestroyServer
  BY <1>0, <1>10, Zenon DEF DestroyServer, ConnectDestroyed, channelVars
<1> QED
  BY <1>1, <1>2, <1>3, <1>4, <1>5, <1>6, <1>7, <1>8, <1>9, <1>10 DEF Next, IoLoop, UserCalls

\* The data keeps its types.
LEMMA DataTypesKept ==
  ASSUME TypeOK, [Next]_vars
  PROVE  DataTypes'
<1>0. DataTypes
  BY Parts
<1>1. ASSUME NEW d \in Seq(Bytes), SendInLoop(d)
      PROVE  /\ outputBuffer_' \in Seq(Bytes) /\ wire' \in Seq(Bytes) /\ completed' \in Nat
             /\ gaveUp' \in BOOLEAN /\ highWater' \in BOOLEAN
  <2>1. CASE GivesUp
    BY <1>0, <2>1 DEF GivesUp, DataTypes
  <2>2. ASSUME NEW n \in 0 .. Len(d), Written(d, n)
        PROVE  /\ outputBuffer_' \in Seq(Bytes) /\ wire' \in Seq(Bytes) /\ completed' \in Nat
               /\ gaveUp' \in BOOLEAN /\ highWater' \in BOOLEAN
    <3>1. SubSeq(d, 1, n) \in Seq(Bytes) /\ SubSeq(d, n + 1, Len(d)) \in Seq(Bytes)
      BY Pieces
    <3>2. outputBuffer_' \in Seq(Bytes) /\ wire' \in Seq(Bytes)
      BY <1>0, <2>2, <3>1 DEF Written, DataTypes
    <3>3. completed' = completed \/ completed' = Len(wire')
      BY <2>2 DEF Written
    <3>4. completed' \in Nat
      BY <1>0, <3>2, <3>3 DEF DataTypes
    <3>5. gaveUp' \in BOOLEAN /\ highWater' \in BOOLEAN
      <4>1. gaveUp' = gaveUp /\ (highWater' = highWater \/ highWater' = TRUE)
        <5>1. n = Len(d) \/ n < Len(d)
          OBVIOUS
        <5> QED
          BY <2>2, <5>1, Zenon DEF Written
      <4> QED
        BY <1>0, <4>1, Zenon DEF DataTypes
    <3> QED
      BY <3>2, <3>4, <3>5
  <2> QED
    BY <1>0, <1>1, <2>1, <2>2, SendEffect
<1>2. CASE UNCHANGED dataVars
  BY <1>0, <1>2 DEF dataVars, DataTypes
<1>3. CASE RunSend
  <2>1. sent' = sent /\ SendInLoop(Head(batch).data) /\ batch # <<>>
    BY <1>3 DEF RunSend, RunFunctor
  <2> QED
    BY <1>0, <1>1, <2>1, SentData DEF DataTypes
<1>4. ASSUME NEW s \in Senders, NEW len \in 1 .. MaxMessage, Accept(s, len)
      PROVE  sent' \in [Senders -> Nat]
  <2>1. sent' = [sent EXCEPT ![s] = @ + len] /\ len \in Nat
    BY <1>4, TcpConnectionAssumption DEF Accept
  <2> QED
    BY <1>0, <2>1 DEF DataTypes
<1>5. ASSUME NEW len \in 1 .. MaxMessage, SendHere(len) PROVE DataTypes'
  <2>1. Accept("loop", len) /\ SendInLoop(Message("loop", len)) /\ "loop" \in Senders
    BY <1>5 DEF SendHere, Senders
  <2>2. sent' \in [Senders -> Nat]
    BY <1>4, <2>1
  <2> QED
    BY <1>1, <2>1, <2>2, SentData DEF DataTypes
<1>6. ASSUME NEW len \in 1 .. MaxMessage, NEW t \in Threads, QueueSend(t, len) PROVE DataTypes'
  <2>1. Accept(t, len) /\ t \in Senders
    BY <1>6 DEF QueueSend, Senders
  <2>2. sent' \in [Senders -> Nat]
    BY <1>4, <2>1
  <2>3. UNCHANGED <<outputBuffer_, wire, gaveUp, completed, highWater>>
    BY <1>6 DEF QueueSend
  <2> QED
    BY <1>0, <2>2, <2>3 DEF DataTypes
<1>7. CASE EventOut
  <2>1. CASE UNCHANGED <<outputBuffer_, wire, sent, gaveUp, completed, highWater>>
    BY <1>0, <2>1 DEF DataTypes
  <2>2. ASSUME NEW n \in 1 .. Len(outputBuffer_), Drains(n) PROVE DataTypes'
    <3>1. n \in 0 .. Len(outputBuffer_) /\ outputBuffer_ \in Seq(Bytes) /\ wire \in Seq(Bytes)
      BY <1>0 DEF DataTypes
    <3>2. /\ SubSeq(outputBuffer_, 1, n) \in Seq(Bytes)
          /\ SubSeq(outputBuffer_, n + 1, Len(outputBuffer_)) \in Seq(Bytes)
      BY <3>1, Pieces
    <3>3. outputBuffer_' \in Seq(Bytes) /\ wire' \in Seq(Bytes) /\ UNCHANGED <<sent, gaveUp>>
      <4>1. /\ wire' = wire \o SubSeq(outputBuffer_, 1, n)
            /\ outputBuffer_' = SubSeq(outputBuffer_, n + 1, Len(outputBuffer_))
            /\ UNCHANGED <<sent, gaveUp>>
        BY <2>2, Zenon DEF Drains
      <4> QED
        BY <3>1, <3>2, <4>1
    <3>4. completed' = completed \/ completed' = Len(wire')
      BY <2>2 DEF Drains
    <3>5. completed' \in Nat
      BY <1>0, <3>3, <3>4 DEF DataTypes
    <3>6. highWater' \in BOOLEAN
      BY <2>2 DEF Drains
    <3> QED
      BY <1>0, <3>3, <3>5, <3>6 DEF DataTypes
  <2> QED
    BY <1>0, <1>7, <2>1, <2>2, WriteEffect
<1> QED
  BY <1>2, <1>3, <1>5, <1>6, <1>7, DataSteps

\* The flags keep their types.
LEMMA FlagTypesKept ==
  ASSUME TypeOK, [Next]_vars
  PROVE  FlagTypes'
<1>0. FlagTypes
  BY Parts
<1> USE DEF FlagTypes
<1>1. ASSUME NEW data \in BOOLEAN, NEW room \in BOOLEAN, Poll(data, room) PROVE FlagTypes'
  BY <1>0, <1>1 DEF Poll, socketVars, serverVars, userVars
<1>2. CASE EventHup
  BY <1>0, <1>2, Zenon DEF EventHup, HandleClose, RemoveConnectionInLoop, socketVars, batchVars,
     userVars
<1>3. CASE EventErr \/ SwapPending
  <2>1. CASE EventErr
    BY <1>0, <2>1, Zenon DEF EventErr, batchVars, serverVars, userVars
  <2>2. CASE SwapPending
    BY <1>0, <2>2, Zenon DEF SwapPending, socketVars, serverVars, userVars
  <2> QED
    BY <1>3, <2>1, <2>2
<1>4. CASE EventIn
  BY <1>0, <1>4, Zenon DEF EventIn, HandleClose, RemoveConnectionInLoop, batchVars, userVars
<1>5. CASE EventOut
  <2>1. shutWr' \in BOOLEAN
    BY <1>0, <1>5, Parts, WriteEffect, Zenon DEF Drains, Drained
  <2>2. soError' \in BOOLEAN
    BY <1>0, <1>5, Zenon DEF EventOut
  <2> QED
    BY <1>0, <1>5, <2>1, <2>2 DEF EventOut, batchVars, serverVars, userVars
<1>6. ASSUME NEW op, RunFunctor(op) PROVE batchOwns' \in BOOLEAN /\ UNCHANGED <<peer, polled>>
  BY <1>6 DEF RunFunctor
<1>7. CASE RunEstablished \/ RunDestroyed
  BY <1>0, <1>6, <1>7, Zenon DEF RunEstablished, RunDestroyed, ConnectEstablished, ConnectDestroyed,
                          serverVars, userVars
<1>8. CASE RunShutdown
  <2>1. shutWr' \in BOOLEAN
    BY <1>8 DEF RunShutdown, ShutdownInLoop
  <2> QED
    BY <1>0, <1>6, <1>8, <2>1 DEF RunShutdown, serverVars, userVars
<1>9. CASE RunForceClose
  BY <1>0, <1>6, <1>9, Zenon DEF RunForceClose, HandleClose, RemoveConnectionInLoop, userVars
<1>10. CASE RunReadControl \/ RunUserCallback
  <2>1. CASE RunReadControl
    BY <1>0, <1>6, <2>1, Zenon DEF RunReadControl, StartReadInLoop, StopReadInLoop, serverVars,
                                   userVars
  <2>2. CASE RunUserCallback
    BY <1>0, <1>6, <2>2, Zenon DEF RunUserCallback, serverVars, userVars
  <2> QED
    BY <1>10, <2>1, <2>2
<1>11. ASSUME NEW d, SendInLoop(d) PROVE soError' \in BOOLEAN
  BY <1>0, <1>11, Zenon DEF SendInLoop, DoSendInLoop
<1>12. CASE RunSend
  BY <1>0, <1>6, <1>11, <1>12 DEF RunSend, serverVars, userVars
<1>13. ASSUME NEW len \in 1 .. MaxMessage, SendHere(len) PROVE FlagTypes'
  BY <1>0, <1>11, <1>13 DEF SendHere, batchVars, serverVars, userVars
<1>14. CASE ShutdownHere
  <2>1. shutWr' \in BOOLEAN
    BY <1>14 DEF ShutdownHere, ShutdownInLoop
  <2> QED
    BY <1>0, <1>14, <2>1 DEF ShutdownHere, batchVars, serverVars, userVars
<1>15. CASE ForceCloseHere \/ DropRef \/ UNCHANGED vars
  <2>1. CASE ForceCloseHere
    BY <1>0, <2>1, Zenon DEF ForceCloseHere, socketVars, batchVars, serverVars, userVars
  <2>2. CASE DropRef
    BY <1>0, <2>2, Zenon DEF DropRef, socketVars, batchVars, serverVars, userVars
  <2>3. CASE UNCHANGED vars
    BY <1>0, <2>3, Zenon DEF vars, socketVars, batchVars, serverVars, userVars
  <2> QED
    BY <1>15, <2>1, <2>2, <2>3
<1>19. CASE ReadControlHere
  <2>1. reading_' \in BOOLEAN
    BY <1>0, <1>19, Zenon DEF ReadControlHere, StartReadInLoop, StopReadInLoop
  <2> QED
    BY <1>0, <1>19, <2>1 DEF ReadControlHere, socketVars, batchVars, serverVars, userVars
<1>16. ASSUME NEW t \in Threads,
              \/ \E op \in ThreadCalls : Test(t, op)
              \/ Store(t) \/ Queue(t) \/ QueueReadControl(t)
              \/ \E len \in 1 .. MaxMessage : QueueSend(t, len)
       PROVE  FlagTypes'
  <2>1. UNCHANGED <<reading_, socketVars, batchVars, serverVars, userRef>>
    BY <1>16, Zenon DEF Test, Store, Queue, QueueReadControl, QueueSend, userVars
  <2> QED
    BY <1>0, <2>1 DEF socketVars, batchVars, serverVars
<1>17. CASE RunRemove \/ DestroyServer
  BY <1>0, <1>17, Zenon DEF RunRemove, RemoveConnectionInLoop, DestroyServer, socketVars,
     batchVars, userVars
<1>18. CASE PeerCloses
  BY <1>0, <1>18, Zenon DEF PeerCloses, batchVars, serverVars, userVars
<1> QED
  BY <1>1, <1>2, <1>3, <1>4, <1>5, <1>7, <1>8, <1>9, <1>10, <1>12, <1>13, <1>14, <1>15, <1>16,
     <1>17, <1>18, <1>19, Zenon DEF Next, IoLoop, UserCalls

\* The functors keep their types, and so do the calls of other threads.
LEMMA QueueTypesKept ==
  ASSUME TypeOK, [Next]_vars
  PROVE  QueueTypes'
<1>0. QueueTypes /\ FlagTypes
  BY Parts
<1>1. queue' \in Seq(Functors) /\ batch' \in Seq(Functors)
  <2>1. queue \in Seq(Functors) /\ batch \in Seq(Functors)
    BY <1>0 DEF QueueTypes
  <2>2. CASE SwapPending
    BY <2>1, <2>2 DEF SwapPending
  <2>3. ASSUME Grows PROVE queue' \in Seq(Functors)
    <3>1. PICK f \in Functors : queue' = Append(queue, f)
      BY <2>3 DEF Grows
    <3> QED
      BY <2>1, <3>1
  <2>4. batch # <<>> => Tail(batch) \in Seq(Functors)
    BY <2>1
  <2> QED
    BY <2>1, <2>2, <2>3, <2>4, QueueSteps, Zenon DEF Shrinks
<1>2. call' \in [Threads -> {"none", "send", "shutdown", "forceClose", "shutdownInLoop",
                             "forceCloseInLoop"}]
  <2>1. \/ call' = call
        \/ \E t \in Threads :
              \E v \in {"none", "send", "shutdown", "forceClose", "shutdownInLoop", "forceCloseInLoop"} :
                  call' = [call EXCEPT ![t] = v]
    <3>1. ASSUME NEW t \in Threads, NEW op \in ThreadCalls, Test(t, op)
          PROVE  op \in {"send", "shutdown", "forceClose"} /\ call' = [call EXCEPT ![t] = op]
      BY <3>1, TcpConnectionAssumption DEF Test
    <3>2. ASSUME NEW t \in Threads, Store(t)
          PROVE  \E v \in {"shutdownInLoop", "forceCloseInLoop"} : call' = [call EXCEPT ![t] = v]
      BY <1>0, <3>2, Zenon DEF Store, QueueTypes
    <3>3. ASSUME NEW t \in Threads, Queue(t) \/ \E len \in 1 .. MaxMessage : QueueSend(t, len)
          PROVE  call' = [call EXCEPT ![t] = "none"]
      BY <3>3, Zenon DEF Queue, QueueSend
    <3>4. ASSUME ~\E t \in Threads : \/ \E op \in ThreadCalls : Test(t, op)
                                     \/ Store(t) \/ Queue(t)
                                     \/ \E len \in 1 .. MaxMessage : QueueSend(t, len)
          PROVE  call' = call
      BY <3>4, Zenon DEF Next, IoLoop, UserCalls, Poll, EventHup, EventErr, EventIn, EventOut,
         SwapPending,
           RunEstablished, RunDestroyed, RunSend, RunShutdown, RunForceClose, RunReadControl,
           RunUserCallback, SendHere, ShutdownHere, ForceCloseHere, ReadControlHere, DropRef,
           QueueReadControl, RunRemove, DestroyServer, PeerCloses, vars, userVars
    <3> QED
      BY <3>1, <3>2, <3>3, <3>4
  <2> QED
    BY <1>0, <2>1 DEF QueueTypes
<1>3. removals' \in Nat
  <2>1. removals' \in {removals, removals + 1} \/ (removals > 0 /\ removals' = removals - 1)
    BY Zenon DEF Next, IoLoop, UserCalls, Poll, EventHup, EventErr, EventIn, EventOut, SwapPending,
           RunEstablished, RunDestroyed, RunSend, RunShutdown, RunForceClose, RunReadControl,
           RunUserCallback, SendHere, ShutdownHere, ForceCloseHere, ReadControlHere, DropRef, Test,
           Store, Queue, QueueSend, QueueReadControl, RunRemove, DestroyServer, PeerCloses, vars,
           serverVars, HandleClose
  <2> QED
    BY <1>0, <2>1 DEF QueueTypes
<1> QED
  BY <1>1, <1>2, <1>3 DEF QueueTypes

\* TypeOK holds.
LEMMA TypesHold == Spec => []TypeOK
<1>1. Init => TypeOK
  <2> SUFFICES ASSUME Init PROVE TypeOK
    OBVIOUS
  <2>1. queue \in Seq(Functors) /\ batch \in Seq(Functors)
    <3>1. Functor("connectEstablished") \in Functors
      BY FunctorTypes DEF Ops
    <3> HIDE DEF Functor
    <3> QED
      BY <3>1 DEF Init
  <2>2. QueueTypes
    BY <2>1 DEF Init, QueueTypes
  <2> QED
    <3>1. ChannelTypes /\ FlagTypes
      BY Zenon DEF Init, ChannelTypes, FlagTypes
    <3>2. DataTypes
      <4>1. outputBuffer_ \in Seq(Bytes) /\ wire \in Seq(Bytes) /\ sent \in [Senders -> Nat]
        BY DEF Init
      <4> QED
        BY <4>1, Zenon DEF Init, DataTypes
    <3> QED
      BY <2>2, <3>1, <3>2, Parts
<1>2. TypeOK /\ [Next]_vars => TypeOK'
  <2> SUFFICES ASSUME TypeOK, [Next]_vars PROVE TypeOK'
    OBVIOUS
  <2>1. ChannelTypes' /\ DataTypes' /\ FlagTypes' /\ QueueTypes'
    BY ChannelTypesKept, DataTypesKept, FlagTypesKept, QueueTypesKept
  <2> QED
    BY <2>1 DEF TypeOK, ChannelTypes, DataTypes, FlagTypes, QueueTypes, Functors
<1> QED
  BY <1>1, <1>2, PTL DEF Spec

(***************************************************************************)
(* The buffer, the interest in room and the callbacks.                     *)
(***************************************************************************)
\* HandleClose has run, or the server is gone.
Closed == ~inMap \/ removals > 0

\* A functor op is in q.
Has(q, op) == \E i \in DOMAIN q : q[i].op = op

\* The inductive invariant: ConnectDestroyed comes after the connection has left the map;
\* until it is closed it is watched for room exactly while data is buffered, and then its
\* write side is open; and the callbacks keep up with the buffer.
BufferInv ==
    /\ Has(queue, "connectDestroyed") \/ Has(batch, "connectDestroyed") => ~inMap
    /\ \/ Closed
       \/ /\ "write" \in events <=> outputBuffer_ # <<>>
          /\ shutWr => outputBuffer_ = <<>>
    /\ WriteCompleteQueued /\ HighWaterTold

\* What a queue has, after a functor is queued and after one is run.
LEMMA HasSteps ==
  ASSUME NEW q \in Seq(Functors)
  PROVE  /\ \A op : \A f \in Functors : Has(Append(q, f), op) <=> Has(q, op) \/ f.op = op
         /\ q # <<>> => \A op : /\ Has(Tail(q), op) => Has(q, op)
                                /\ Head(q).op = op => Has(q, op)
                                /\ Head(q).op # op => (Has(Tail(q), op) <=> Has(q, op))
         /\ \A op : ~Has(<<>>, op)
<1>1. ASSUME NEW f \in Functors, NEW op
      PROVE  Has(Append(q, f), op) <=> Has(q, op) \/ f.op = op
  <2>1. /\ DOMAIN Append(q, f) = 1 .. Len(q) + 1 /\ DOMAIN q = 1 .. Len(q) /\ Len(q) \in Nat
        /\ Append(q, f)[Len(q) + 1] = f /\ \A i \in 1 .. Len(q) : Append(q, f)[i] = q[i]
    OBVIOUS
  <2> QED
    BY <2>1 DEF Has
<1>2. ASSUME q # <<>>, NEW op
      PROVE  /\ Has(Tail(q), op) => Has(q, op)
             /\ Head(q).op = op => Has(q, op)
             /\ Head(q).op # op => (Has(Tail(q), op) <=> Has(q, op))
  <2>1. /\ DOMAIN Tail(q) = 1 .. Len(q) - 1 /\ DOMAIN q = 1 .. Len(q) /\ Len(q) \in Nat /\ Len(q) >= 1
        /\ Head(q) = q[1] /\ \A i \in 1 .. Len(q) - 1 : Tail(q)[i] = q[i + 1]
    BY <1>2
  <2>2. Has(Tail(q), op) => Has(q, op)
    <3>1. \A i \in 1 .. Len(q) - 1 : i + 1 \in 1 .. Len(q)
      BY <2>1
    <3> QED
      BY <2>1, <3>1 DEF Has
  <2>3. Head(q).op = op => Has(q, op)
    BY <2>1 DEF Has
  <2>4. ASSUME Head(q).op # op, Has(q, op) PROVE Has(Tail(q), op)
    <3>1. PICK i \in 1 .. Len(q) : q[i].op = op
      BY <2>1, <2>4 DEF Has
    <3>2. i - 1 \in 1 .. Len(q) - 1 /\ Tail(q)[i - 1] = q[i]
      BY <2>1, <2>4, <3>1
    <3> QED
      BY <2>1, <3>1, <3>2 DEF Has
  <2> QED
    BY <2>2, <2>3, <2>4
<1>3. \A op : ~Has(<<>>, op)
  BY DEF Has
<1> QED
  BY <1>1, <1>2, <1>3

\* A connection that left the map does not come back, and a removal that is asked for is
\* taken back only by the connection leaving the map.
LEMMA MapSteps ==
  ASSUME TypeOK, [Next]_vars
  PROVE  /\ inMap' => inMap
         /\ removals' \in {removals, removals + 1} \/ ~inMap'
<1>1. CASE EventHup \/ EventIn \/ RunForceClose
  BY <1>1 DEF EventHup, EventIn, RunForceClose, HandleClose, RemoveConnectionInLoop
<1>2. CASE RunRemove \/ DestroyServer
  BY <1>2 DEF RunRemove, RemoveConnectionInLoop, DestroyServer
<1>3. ASSUME ~(EventHup \/ EventIn \/ RunForceClose \/ RunRemove \/ DestroyServer)
      PROVE  UNCHANGED serverVars
  BY <1>3, Zenon DEF Next, IoLoop, UserCalls, Poll, EventErr, EventOut, SwapPending, RunEstablished,
       RunDestroyed, RunSend, RunShutdown, RunReadControl, RunUserCallback, SendHere, ShutdownHere,
       ForceCloseHere, ReadControlHere, DropRef, Test, Store, Queue, QueueSend, QueueReadControl,
       PeerCloses, vars
<1> QED
  BY <1>1, <1>2, <1>3 DEF serverVars

\* Once closed, a connection stays closed.
LEMMA ClosedStays ==
  ASSUME TypeOK, [Next]_vars, Closed
  PROVE  Closed'
<1>1. removals \in Nat
  BY Parts DEF QueueTypes
<1> QED
  BY <1>1, MapSteps DEF Closed

\* ConnectDestroyed is queued when the connection leaves the map.
LEMMA DestroyedLate ==
  ASSUME TypeOK, [Next]_vars,
         Has(queue, "connectDestroyed") \/ Has(batch, "connectDestroyed") => ~inMap
  PROVE  (Has(queue, "connectDestroyed") \/ Has(batch, "connectDestroyed") => ~inMap)'
<1> DEFINE cd == "connectDestroyed"
<1>0. queue \in Seq(Functors) /\ batch \in Seq(Functors)
  BY Parts DEF QueueTypes
<1>1. inMap' => inMap
  BY MapSteps
<1>2. CASE SwapPending
  <2>1. batch' = queue /\ queue' = <<>>
    BY <1>2 DEF SwapPending
  <2> QED
    BY <1>0, <1>1, <2>1, HasSteps
<1>3. ASSUME queue' = queue \/ Grows PROVE Has(queue', cd) => Has(queue, cd) \/ ~inMap'
  <2>1. CASE Grows
    <3>1. PICK f \in Functors : queue' = Append(queue, f) /\ (f.op = cd => ~inMap')
      BY <2>1 DEF Grows
    <3> QED
      BY <1>0, <3>1, HasSteps
  <2> QED
    BY <1>3, <2>1
<1>4. ASSUME Shrinks
      PROVE  Has(batch', cd) => Has(batch, cd)
  <2>1. CASE batch # <<>> /\ batch' = Tail(batch)
    BY <1>0, <2>1, HasSteps
  <2> QED
    BY <1>4, <2>1 DEF Shrinks
<1> QED
  BY <1>1, <1>2, <1>3, <1>4, QueueSteps

\* What BufferInv says of the buffer while the connection is open.
Watched == ("write" \in events <=> outputBuffer_ # <<>>) /\ (shutWr => outputBuffer_ = <<>>)

\* Sending: what is not written at once is buffered, and room for it is waited for.
LEMMA SendKeeps ==
  ASSUME TypeOK, Closed \/ Watched, WriteCompleteQueued, HighWaterTold,
         NEW d \in Seq(Bytes), SendInLoop(d), UNCHANGED <<shutWr, serverVars>>
  PROVE  (Closed' \/ Watched') /\ WriteCompleteQueued' /\ HighWaterTold'
<1>0. outputBuffer_ \in Seq(Bytes) /\ wire \in Seq(Bytes) /\ highWaterMark_ \in Nat
  BY Parts, TcpConnectionAssumption DEF DataTypes
<1>1. Closed' <=> Closed
  BY DEF Closed, serverVars
<1>2. CASE GivesUp
  BY <1>1, <1>2 DEF GivesUp, Watched, WriteCompleteQueued, HighWaterTold
<1>3. ASSUME NEW n \in 0 .. Len(d), Written(d, n)
      PROVE  (Closed' \/ Watched') /\ WriteCompleteQueued' /\ HighWaterTold'
  <2>1. CASE n = Len(d)
    <3>1. /\ outputBuffer_' = outputBuffer_ /\ completed' = Len(wire')
          /\ UNCHANGED <<highWater, events, shutWr>>
      BY <1>3, <2>1, Zenon DEF Written
    <3> QED
      BY <1>1, <3>1 DEF Watched, WriteCompleteQueued, HighWaterTold
  <2>2. CASE n < Len(d)
    <3> DEFINE rest == SubSeq(d, n + 1, Len(d))
    <3>1. /\ outputBuffer_' = outputBuffer_ \o rest /\ AskForRoom
          /\ n > 0 => MayWrite
          /\ MayWrite => ~shutWr
          /\ IF CrossesMark(Len(outputBuffer_), Len(outputBuffer_) + (Len(d) - n))
             THEN highWater' = TRUE
             ELSE highWater' = highWater
      BY <1>3, <2>2, Zenon DEF Written
    <3>2. rest \in Seq(Bytes) /\ Len(rest) = Len(d) - n /\ Len(d) \in Nat
      BY Pieces
    <3> HIDE DEF rest
    <3>3. Len(outputBuffer_') = Len(outputBuffer_) + (Len(d) - n) /\ Len(outputBuffer_) \in Nat
      <4>1. outputBuffer_' = outputBuffer_ \o rest
        BY <3>1
      <4>2. Len(outputBuffer_ \o rest) = Len(outputBuffer_) + Len(rest) /\ Len(outputBuffer_) \in Nat
        BY <1>0, <3>2
      <4> QED
        BY <3>2, <4>1, <4>2
    <3>4. Len(outputBuffer_') > 0
      BY <2>2, <3>2, <3>3
    <3>5. outputBuffer_' # <<>>
      BY <3>4
    <3>6. "write" \in events'
      BY <3>1 DEF AskForRoom, UpdateChannel, channelVars
    <3>7. HighWaterTold'
      <4>1. CASE Len(outputBuffer_) >= highWaterMark_
        <5>1. ~CrossesMark(Len(outputBuffer_), Len(outputBuffer_) + (Len(d) - n))
          BY <1>0, <3>3, <4>1 DEF CrossesMark
        <5> QED
          BY <3>1, <4>1, <5>1 DEF HighWaterTold
      <4>2. CASE ~(Len(outputBuffer_) >= highWaterMark_)
        <5>1. Len(outputBuffer_') >= highWaterMark_ =>
                 CrossesMark(Len(outputBuffer_), Len(outputBuffer_) + (Len(d) - n))
          BY <1>0, <3>3, <4>2 DEF CrossesMark
        <5> QED
          BY <3>1, <5>1 DEF HighWaterTold
      <4> QED
        BY <4>1, <4>2
    <3>8. Closed \/ ~shutWr'
      BY <3>1 DEF Watched, MayWrite
    <3> QED
      BY <1>1, <3>5, <3>6, <3>7, <3>8 DEF Watched, WriteCompleteQueued
  <2> QED
    BY <2>1, <2>2
<1> QED
  BY <1>2, <1>3, SendEffect, Parts

\* HandleWrite: when the buffer is empty, room is no longer waited for.
LEMMA WriteKeeps ==
  ASSUME TypeOK, Closed \/ Watched, WriteCompleteQueued, HighWaterTold, EventOut
  PROVE  (Closed' \/ Watched') /\ WriteCompleteQueued' /\ HighWaterTold'
<1>0. outputBuffer_ \in Seq(Bytes) /\ wire \in Seq(Bytes) /\ highWaterMark_ \in Nat
  BY Parts, TcpConnectionAssumption DEF DataTypes
<1>1. Closed' <=> Closed
  BY DEF EventOut, Closed, serverVars
<1>2. CASE UNCHANGED <<outputBuffer_, wire, completed, highWater, events, shutWr>>
  BY <1>1, <1>2 DEF Watched, WriteCompleteQueued, HighWaterTold
<1>3. ASSUME NEW n \in 1 .. Len(outputBuffer_), Drains(n)
      PROVE  (Closed' \/ Watched') /\ WriteCompleteQueued' /\ HighWaterTold'
  <2>1. /\ "write" \in events
        /\ outputBuffer_' = SubSeq(outputBuffer_, n + 1, Len(outputBuffer_))
        /\ highWater' = (highWater /\ Len(outputBuffer_') >= highWaterMark_)
    BY <1>3, Zenon DEF Drains
  <2>2. /\ Len(outputBuffer_') = Len(outputBuffer_) - n /\ Len(outputBuffer_) \in Nat /\ n >= 1
        /\ outputBuffer_ # <<>>
    BY <1>0, <2>1, Pieces
  <2>3. HighWaterTold'
    <3>1. Len(outputBuffer_') >= highWaterMark_ => Len(outputBuffer_) >= highWaterMark_
      BY <1>0, <2>2
    <3> QED
      BY <2>1, <3>1, Zenon DEF HighWaterTold
  <2>4. CASE outputBuffer_' = <<>>
    <3>1. UpdateChannel(events \ {"write"}) /\ completed' = Len(wire')
      BY <1>3, <2>4, Zenon DEF Drains
    <3> QED
      BY <2>3, <2>4, <3>1 DEF UpdateChannel, Watched, WriteCompleteQueued
  <2>5. CASE outputBuffer_' # <<>>
    <3>1. UNCHANGED <<events, shutWr>>
      BY <1>3, <2>5, Zenon DEF Drains
    <3>2. Closed' \/ Watched'
      BY <1>1, <2>1, <2>2, <2>5, <3>1 DEF Watched
    <3> QED
      BY <2>3, <2>5, <3>2 DEF WriteCompleteQueued
  <2> QED
    BY <2>4, <2>5
<1> QED
  BY <1>2, <1>3, WriteEffect, Parts

\* The other steps leave the data alone; they change the interest in room only as they close
\* the connection, and shut the write side down only when no data is waited for.
LEMMA OthersWatch ==
  ASSUME TypeOK, BufferInv, [Next]_vars,
         ~EventOut, ~RunSend, ~\E len \in 1 .. MaxMessage : SendHere(len)
  PROVE  \/ Closed'
         \/ /\ "write" \in events' <=> "write" \in events
            /\ shutWr' => shutWr \/ "write" \notin events
<1> DEFINE Goal == \/ Closed'
                   \/ /\ "write" \in events' <=> "write" \in events
                      /\ shutWr' => shutWr \/ "write" \notin events
<1>1. ASSUME HandleClose PROVE Closed'
  <2>1. removals \in Nat
    BY Parts DEF QueueTypes
  <2> QED
    BY <1>1, <2>1 DEF HandleClose, RemoveConnectionInLoop, Closed
<1>2. CASE EventHup
  BY <1>1, <1>2 DEF EventHup, channelVars, socketVars
<1>3. CASE EventIn
  BY <1>1, <1>3 DEF EventIn, channelVars
<1>4. CASE RunForceClose
  BY <1>1, <1>4 DEF RunForceClose, channelVars
<1>5. CASE RunDestroyed
  <2>1. Has(batch, "connectDestroyed")
    BY <1>5, HasSteps, Parts DEF RunDestroyed, RunFunctor, QueueTypes
  <2>2. inMap' = inMap
    BY <1>5 DEF RunDestroyed, serverVars
  <2> QED
    BY <2>1, <2>2 DEF BufferInv, Closed
<1>6. CASE DestroyServer
  BY <1>6 DEF DestroyServer, Closed
<1>7. CASE RunEstablished
  BY <1>7 DEF RunEstablished, ConnectEstablished, UpdateChannel
<1>8. CASE RunReadControl \/ ReadControlHere
  BY <1>8 DEF RunReadControl, ReadControlHere, StartReadInLoop, StopReadInLoop, UpdateChannel,
              channelVars, socketVars
<1>9. CASE RunShutdown \/ ShutdownHere
  BY <1>9, Zenon DEF RunShutdown, ShutdownHere, ShutdownInLoop, channelVars
<1>10. ASSUME ~(EventHup \/ EventIn \/ RunForceClose \/ RunDestroyed \/ DestroyServer \/ RunEstablished
                \/ RunReadControl \/ ReadControlHere \/ RunShutdown \/ ShutdownHere)
       PROVE  UNCHANGED <<channelVars, shutWr>>
  BY <1>10, Zenon DEF Next, IoLoop, UserCalls, Poll, EventErr, SwapPending, RunUserCallback,
     ForceCloseHere,
       DropRef, Test, Store, Queue, QueueSend, QueueReadControl, RunRemove, PeerCloses, vars,
       socketVars
<1> QED
  BY <1>2, <1>3, <1>4, <1>5, <1>6, <1>7, <1>8, <1>9, <1>10 DEF channelVars

\* The inductive invariant holds.
LEMMA BufferInvHolds == Spec => []BufferInv
<1>1. Init => BufferInv
  <2> SUFFICES ASSUME Init PROVE BufferInv
    OBVIOUS
  <2>1. highWaterMark_ > 0 /\ highWaterMark_ \in Nat
    BY TcpConnectionAssumption
  <2>2. Watched /\ WriteCompleteQueued /\ HighWaterTold
    BY <2>1 DEF Init, Watched, WriteCompleteQueued, HighWaterTold
  <2>3. ~Has(batch, "connectDestroyed") /\ ~Has(queue, "connectDestroyed")
    BY DEF Init, Has, Functor
  <2> QED
    BY <2>2, <2>3 DEF BufferInv, Watched
<1>2. TypeOK /\ BufferInv /\ [Next]_vars => BufferInv'
  <2> SUFFICES ASSUME TypeOK, BufferInv, [Next]_vars PROVE BufferInv'
    OBVIOUS
  <2>1. (Closed \/ Watched) /\ WriteCompleteQueued /\ HighWaterTold
    BY DEF BufferInv, Watched
  <2>2. (Closed' \/ Watched') /\ WriteCompleteQueued' /\ HighWaterTold'
    <3>1. CASE EventOut
      BY <2>1, <3>1, WriteKeeps
    <3>2. CASE RunSend
      <4>1. /\ SendInLoop(Head(batch).data) /\ Head(batch).data \in Seq(Bytes)
            /\ UNCHANGED <<shutWr, serverVars>>
        BY <3>2, SentData DEF RunSend, RunFunctor
      <4> QED
        BY <2>1, <4>1, SendKeeps
    <3>3. ASSUME NEW len \in 1 .. MaxMessage, SendHere(len)
          PROVE  (Closed' \/ Watched') /\ WriteCompleteQueued' /\ HighWaterTold'
      <4>1. /\ SendInLoop(Message("loop", len)) /\ Message("loop", len) \in Seq(Bytes)
            /\ UNCHANGED <<shutWr, serverVars>>
        BY <3>3, SentData DEF SendHere
      <4> QED
        BY <2>1, <4>1, SendKeeps
    <3>4. CASE ~EventOut /\ ~RunSend /\ ~\E len \in 1 .. MaxMessage : SendHere(len)
      <4>1. UNCHANGED <<outputBuffer_, wire, completed, highWater>>
        BY <3>4, DataSteps, Zenon DEF dataVars, QueueSend
      <4>2. \/ Closed'
            \/ /\ "write" \in events' <=> "write" \in events
               /\ shutWr' => shutWr \/ "write" \notin events
        BY <3>4, OthersWatch
      <4>3. Closed => Closed'
        BY ClosedStays
      <4> QED
        BY <2>1, <4>1, <4>2, <4>3 DEF Watched, WriteCompleteQueued, HighWaterTold
    <3> QED
      BY <3>1, <3>2, <3>3, <3>4
  <2>3. (Has(queue, "connectDestroyed") \/ Has(batch, "connectDestroyed") => ~inMap)'
    BY DestroyedLate DEF BufferInv
  <2> QED
    BY <2>2, <2>3 DEF BufferInv, Watched
<1> QED
  BY <1>1, <1>2, TypesHold, PTL DEF Spec

\* Data is not stuck and the loop does not spin: until it is closed, a connection is watched
\* for room exactly while it has data buffered, whatever the partial writes, the shutdowns and
\* the calls of other threads.
THEOREM WatchedWhileBuffered == Spec => []WriteInterest
<1>1. TypeOK /\ BufferInv => WriteInterest
  BY DEF BufferInv, Closed, WriteInterest
<1> QED
  BY <1>1, TypesHold, BufferInvHolds, PTL

\* The user is told when all data is written, and when the buffer has grown to the mark.
THEOREM UserIsTold == Spec => []CallbacksTold
<1>1. BufferInv => CallbacksTold
  BY DEF BufferInv, CallbacksTold
<1> QED
  BY <1>1, BufferInvHolds, PTL

(***************************************************************************)
(* The asserts on the way to the end.                                      *)
(***************************************************************************)
\* ConnectDestroyed is queued or taken.
Destroying == Has(queue, "connectDestroyed") \/ Has(batch, "connectDestroyed")

\* ConnectDestroyed is in q at most once.
Once(q) == \A i, j \in DOMAIN q : q[i].op = "connectDestroyed" /\ q[j].op = "connectDestroyed" => i = j

\* q has functors of ConnectEstablished only.
OnlyEstablish(q) == \A i \in DOMAIN q : q[i].op = "connectEstablished"

\* q has no functor of StartRead and StopRead.
NoReadControl(q) == ~Has(q, "startReadInLoop") /\ ~Has(q, "stopReadInLoop")

\* Before ConnectEstablished: nobody knows the connection yet.
Starting ==
    /\ inMap /\ removals = 0 /\ index = "kNew" /\ events = {} /\ ~userRef
    /\ \A t \in Threads : call[t] = "none"
    /\ OnlyEstablish(queue) /\ OnlyEstablish(batch)

\* Until HandleClose: the server has the connection, and its channel is polled for data.
Running == inMap /\ removals = 0 /\ index = "kAdded" /\ "read" \in events

\* After HandleClose: the removal is on its way to the base loop, or ConnectDestroyed is on its
\* way to the io loop, or has run.
Ending ==
    /\ events = {}
    /\ \/ inMap /\ removals = 1 /\ index = "kDeleted"
       \/ ~inMap /\ removals = 0 /\ Destroying /\ index = "kDeleted"
       \/ ~inMap /\ removals = 0 /\ ~Destroying /\ index = "kNew"

\* What holds in the state that state_ names.
Phases ==
    /\ state_ = "kConnecting" => Starting
    /\ CloseAsserts => Running
    /\ state_ = "kDisconnected" => Ending

\* The functors: ConnectDestroyed is queued once, by whoever takes the connection out of the map.
FunctorInv ==
    /\ Destroying => ~inMap
    /\ Once(queue) /\ Once(batch)
    /\ ~(Has(queue, "connectDestroyed") /\ Has(batch, "connectDestroyed"))
    /\ NoReadControl(queue) /\ NoReadControl(batch)

\* What poll has reported is handled before functors run, and before the connection is closed.
ReventsInv ==
    /\ revents = {} \/ batch = <<>>
    /\ revents \cap {"HUP", "IN"} # {} => CloseAsserts

\* The inductive invariant of the teardown.
TeardownInv ==
    /\ FunctorInv /\ ReventsInv /\ Phases
    /\ \A t \in Threads : call[t] \in {"none", "send"}

\* Other threads only send, nobody stops or starts reading, and the server outlives the
\* connection.
Disciplined == ThreadCalls \subseteq {"send"} /\ ~ReadControl /\ ~ServerGoes

\* Queues in which ConnectDestroyed is at most once.
LEMMA OnceSteps ==
  ASSUME NEW q \in Seq(Functors)
  PROVE  /\ \A f \in Functors :
               Once(q) /\ (f.op = "connectDestroyed" => ~Has(q, "connectDestroyed")) => Once(Append(q, f))
         /\ q # <<>> /\ Once(q) =>
               /\ Once(Tail(q))
               /\ Head(q).op = "connectDestroyed" => ~Has(Tail(q), "connectDestroyed")
         /\ Once(<<>>)
<1>0. DOMAIN q = 1 .. Len(q) /\ Len(q) \in Nat
  OBVIOUS
<1>1. ASSUME NEW f \in Functors, Once(q), f.op = "connectDestroyed" => ~Has(q, "connectDestroyed")
      PROVE  Once(Append(q, f))
  <2>1. /\ DOMAIN Append(q, f) = 1 .. Len(q) + 1 /\ Append(q, f)[Len(q) + 1] = f
        /\ \A i \in 1 .. Len(q) : Append(q, f)[i] = q[i]
    OBVIOUS
  <2>2. \A i \in 1 .. Len(q) + 1 : i = Len(q) + 1 \/ i \in 1 .. Len(q)
    BY <1>0
  <2> QED
    BY <1>0, <1>1, <2>1, <2>2 DEF Once, Has
<1>2. ASSUME q # <<>>, Once(q)
      PROVE  /\ Once(Tail(q))
             /\ Head(q).op = "connectDestroyed" => ~Has(Tail(q), "connectDestroyed")
  <2>1. /\ DOMAIN Tail(q) = 1 .. Len(q) - 1 /\ Len(q) >= 1 /\ Head(q) = q[1]
        /\ \A i \in 1 .. Len(q) - 1 : Tail(q)[i] = q[i + 1] /\ i + 1 \in 1 .. Len(q) /\ i + 1 # 1
    BY <1>0, <1>2
  <2>2. \A i, j \in 1 .. Len(q) - 1 : i + 1 = j + 1 => i = j
    BY <1>0
  <2>3. 1 \in 1 .. Len(q)
    BY <1>0, <2>1
  <2>4. Once(Tail(q))
    BY <1>0, <1>2, <2>1, <2>2 DEF Once
  <2>5. Head(q).op = "connectDestroyed" => ~Has(Tail(q), "connectDestroyed")
    BY <1>0, <1>2, <2>1, <2>3 DEF Once, Has
  <2> QED
    BY <2>4, <2>5
<1>3. Once(<<>>)
  BY DEF Once
<1> QED
  BY <1>1, <1>2, <1>3

\* Only the step that takes the connection out of the map queues ConnectDestroyed, and only
\* RunDestroyed uses it up.
LEMMA FunctorStep ==
  ASSUME TypeOK, [Next]_vars, FunctorInv, ~ReadControl
  PROVE  /\ FunctorInv'
         /\ ~inMap /\ ~RunDestroyed => (Destroying' <=> Destroying)
         /\ RunDestroyed => ~Destroying'
<1> DEFINE cd == "connectDestroyed"
<1>0. queue \in Seq(Functors) /\ batch \in Seq(Functors)
  BY Parts DEF QueueTypes
<1>1. (Destroying => ~inMap)'
  BY DestroyedLate DEF FunctorInv, Destroying
<1>2. CASE SwapPending
  <2>1. batch = <<>> /\ batch' = queue /\ queue' = <<>>
    BY <1>2 DEF SwapPending, Idle
  <2>2. /\ Once(queue') /\ Once(batch') /\ ~Has(queue', cd)
        /\ NoReadControl(queue') /\ NoReadControl(batch')
        /\ Has(batch', cd) <=> Has(queue, cd)
        /\ ~Has(batch, cd)
    BY <1>0, <2>1, HasSteps, OnceSteps DEF FunctorInv, NoReadControl
  <2>3. ~RunDestroyed
    BY <2>1 DEF RunDestroyed, RunFunctor
  <2> QED
    BY <1>1, <2>2, <2>3 DEF FunctorInv, Destroying
<1>3. CASE Shrinks /\ (queue' = queue \/ Grows)
  <2>1. /\ Once(queue') /\ NoReadControl(queue')
        /\ Has(queue', cd) <=> Has(queue, cd) \/ (Has(queue', cd) /\ inMap /\ ~Destroying)
    <3>1. CASE Grows
      <4>1. PICK f \in Functors : /\ queue' = Append(queue, f)
                                  /\ f.op = cd => inMap
                                  /\ f.op \notin {"startReadInLoop", "stopReadInLoop"}
        BY <3>1 DEF Grows
      <4>2. f.op = cd => ~Has(queue, cd) /\ ~Has(batch, cd)
        BY <4>1 DEF FunctorInv, Destroying
      <4> QED
        BY <1>0, <4>1, <4>2, HasSteps, OnceSteps, Zenon DEF FunctorInv, NoReadControl, Destroying
    <3>2. CASE queue' = queue
      BY <3>2 DEF FunctorInv
    <3> QED
      BY <1>3, <3>1, <3>2
  <2>2. /\ Once(batch') /\ NoReadControl(batch') /\ (Has(batch', cd) => Has(batch, cd))
        /\ ~RunDestroyed => (Has(batch', cd) <=> Has(batch, cd))
    <3>1. CASE batch' = batch
      BY <3>1 DEF FunctorInv
    <3>2. CASE batch # <<>> /\ batch' = Tail(batch) /\ (RunDestroyed \/ Head(batch).op # cd)
      BY <1>0, <3>2, HasSteps, OnceSteps DEF FunctorInv, NoReadControl
    <3> QED
      BY <1>3, <3>1, <3>2 DEF Shrinks
  <2>3. ASSUME RunDestroyed PROVE ~Has(batch', cd) /\ ~Has(queue', cd)
    <3>1. batch # <<>> /\ batch' = Tail(batch) /\ Head(batch).op = cd /\ queue' = queue
      BY <2>3 DEF RunDestroyed, RunFunctor
    <3>2. Has(batch, cd) /\ ~Has(Tail(batch), cd)
      BY <1>0, <3>1, HasSteps, OnceSteps DEF FunctorInv
    <3> QED
      BY <3>1, <3>2 DEF FunctorInv
  <2> QED
    BY <1>1, <2>1, <2>2, <2>3 DEF FunctorInv, Destroying
<1> QED
  BY <1>2, <1>3, QueueSteps

\* Other threads go on to do nothing but send.
LEMMA CallsStep ==
  ASSUME TypeOK, [Next]_vars, Disciplined, \A t \in Threads : call[t] \in {"none", "send"}
  PROVE  \A t \in Threads : call'[t] \in {"none", "send"}
<1>1. DOMAIN call = Threads
  BY Parts DEF QueueTypes
<1>2. CASE \E t \in Threads : \/ \E op \in ThreadCalls : Test(t, op)
                              \/ \E len \in 1 .. MaxMessage : QueueSend(t, len)
  BY <1>1, <1>2, Zenon DEF Disciplined, Test, QueueSend
<1>3. CASE ~\E t \in Threads : \/ \E op \in ThreadCalls : Test(t, op)
                               \/ \E len \in 1 .. MaxMessage : QueueSend(t, len)
  <2>1. ~\E t \in Threads : Store(t) \/ Queue(t)
    BY DEF Store, Queue
  <2>2. call' = call
    BY <1>3, <2>1, Zenon DEF Next, IoLoop, UserCalls, Poll, EventHup, EventErr, EventIn, EventOut,
       SwapPending,
         RunEstablished, RunDestroyed, RunSend, RunShutdown, RunForceClose, RunReadControl,
         RunUserCallback, SendHere, ShutdownHere, ForceCloseHere, ReadControlHere, DropRef,
         QueueReadControl, RunRemove, DestroyServer, PeerCloses, userVars, vars
  <2> QED
    BY <2>2
<1> QED
  BY <1>2, <1>3, Zenon

\* Before ConnectEstablished runs, nothing else can happen to the connection.
LEMMA StartingSteps ==
  ASSUME TypeOK, [Next]_vars, Disciplined, TeardownInv, state_ = "kConnecting"
  PROVE  \/ RunEstablished
         \/ /\ UNCHANGED <<state_, channelVars, serverVars, userVars>>
            /\ SwapPending \/ UNCHANGED <<queue, batch>>
<1>1. /\ Starting /\ ~CloseAsserts /\ "HUP" \notin revents /\ "IN" \notin revents
  BY DEF TeardownInv, Phases, ReventsInv, CloseAsserts
<1>2. batch # <<>> => Head(batch).op = "connectEstablished"
  <2>1. batch \in Seq(Functors)
    BY Parts DEF QueueTypes
  <2>2. batch # <<>> => 1 \in DOMAIN batch /\ Head(batch) = batch[1]
    BY <2>1
  <2> QED
    BY <1>1, <2>2 DEF Starting, OnlyEstablish
<1>3. /\ ~RunDestroyed /\ ~RunSend /\ ~RunShutdown /\ ~RunForceClose /\ ~RunReadControl
      /\ ~RunUserCallback
  BY <1>2, Zenon DEF RunDestroyed, RunSend, RunShutdown, RunForceClose, RunReadControl, RunUserCallback,
              RunFunctor
<1>4. /\ ~EventHup /\ ~EventIn /\ ~RunRemove /\ ~DestroyServer
      /\ ~\E data, room \in BOOLEAN : Poll(data, room)
  <2>1. removals = 0 /\ index # "kAdded"
    BY <1>1 DEF Starting
  <2>2. ~RunRemove /\ ~DestroyServer
    BY <2>1 DEF RunRemove, DestroyServer, Disciplined
  <2>3. ~\E data, room \in BOOLEAN : Poll(data, room)
    BY <2>1, Zenon DEF Poll
  <2> QED
    BY <1>1, <2>2, <2>3 DEF EventHup, EventIn
<1>5. ~UserCalls
  BY <1>1, Zenon DEF UserCalls, SendHere, QueueSend, ShutdownHere, ForceCloseHere,
     ReadControlHere, DropRef,
              Test, Store, Queue, QueueReadControl, MayCall, Starting
<1>6. CASE EventOut
  BY <1>1, <1>6, Zenon DEF EventOut, Starting, batchVars
<1>7. CASE EventErr \/ SwapPending \/ PeerCloses \/ UNCHANGED vars
  BY <1>7, Zenon DEF EventErr, SwapPending, PeerCloses, vars, batchVars
<1> QED
  BY <1>3, <1>4, <1>5, <1>6, <1>7 DEF Next, IoLoop

\* From ConnectEstablished to HandleClose the channel goes on being polled for data: only the
\* interest in room comes and goes.
LEMMA RunningSteps ==
  ASSUME TypeOK, [Next]_vars, Disciplined, TeardownInv, CloseAsserts
  PROVE  \/ (EventHup \/ EventIn \/ RunForceClose) /\ HandleClose
         \/ /\ state_' \in {"kConnected", "kDisconnecting"} /\ UNCHANGED <<inMap, removals>>
            /\ index' = "kAdded" /\ "read" \in events'
<1> DEFINE Goal == /\ state_' \in {"kConnected", "kDisconnecting"} /\ UNCHANGED <<inMap, removals>>
                   /\ index' = "kAdded" /\ "read" \in events'
<1>1. /\ Running /\ ~Destroying /\ state_ \in {"kConnected", "kDisconnecting"}
  BY DEF TeardownInv, Phases, FunctorInv, Running, CloseAsserts
<1>2. batch # <<>> => Head(batch).op \notin {"connectDestroyed", "startReadInLoop", "stopReadInLoop"}
  <2>1. batch \in Seq(Functors)
    BY Parts DEF QueueTypes
  <2> QED
    BY <1>1, <2>1, HasSteps DEF Destroying, TeardownInv, FunctorInv, NoReadControl
<1>3. /\ ~RunDestroyed /\ ~RunReadControl /\ ~RunEstablished /\ ~RunRemove /\ ~DestroyServer
      /\ ~ReadControlHere
  <2>1. ~RunDestroyed
    BY <1>2, Zenon DEF RunDestroyed, RunFunctor
  <2>2. ~RunReadControl
    BY <1>2, Zenon DEF RunReadControl, RunFunctor
  <2>3. ~RunEstablished
    BY <1>1, Zenon DEF RunEstablished, ConnectEstablished
  <2>4. ~RunRemove /\ ~DestroyServer
    BY <1>1 DEF RunRemove, DestroyServer, Running, Disciplined
  <2>5. ~ReadControlHere
    BY <1>1, Zenon DEF ReadControlHere, Running, Disciplined
  <2> QED
    BY <2>1, <2>2, <2>3, <2>4, <2>5
<1>4. ASSUME NEW d, SendInLoop(d) PROVE index' = "kAdded" /\ "read" \in events'
  <2>1. UNCHANGED channelVars \/ AskForRoom
    BY <1>4, Zenon DEF SendInLoop, DoSendInLoop
  <2> QED
    BY <1>1, <2>1 DEF AskForRoom, UpdateChannel, channelVars, Running
<1>5. CASE RunSend
  BY <1>1, <1>4, <1>5 DEF RunSend, serverVars
<1>6. ASSUME NEW len \in 1 .. MaxMessage, SendHere(len) PROVE Goal
  BY <1>1, <1>4, <1>6 DEF SendHere, serverVars
<1>7. CASE EventOut
  <2>1. UNCHANGED channelVars \/ UpdateChannel(events \ {"write"})
    BY <1>7, Zenon DEF EventOut
  <2>2. index' = "kAdded" /\ "read" \in events'
    BY <1>1, <2>1 DEF UpdateChannel, channelVars, Running
  <2> QED
    BY <1>1, <1>7, <2>2 DEF EventOut, serverVars
<1>8. CASE EventHup \/ EventIn \/ RunForceClose
  BY <1>1, <1>8, Zenon DEF EventHup, EventIn, RunForceClose, channelVars, Running
<1>9. CASE ShutdownHere \/ ForceCloseHere
  BY <1>1, <1>9, Zenon DEF ShutdownHere, ForceCloseHere, channelVars, serverVars, Running
<1>10. ~\E t \in Threads : Store(t) \/ Queue(t)
  BY DEF Store, Queue, TeardownInv
<1>11. CASE /\ ~(EventOut \/ RunSend \/ EventHup \/ EventIn \/ RunForceClose \/ ShutdownHere)
            /\ ~(ForceCloseHere \/ \E len \in 1 .. MaxMessage : SendHere(len))
  <2>1. UNCHANGED <<state_, channelVars, serverVars>>
    BY <1>3, <1>10, <1>11, Zenon DEF Next, IoLoop, UserCalls, Poll, EventErr, SwapPending,
       RunShutdown,
         RunUserCallback, DropRef, Test, QueueSend, QueueReadControl, PeerCloses, vars
  <2> QED
    BY <1>1, <2>1 DEF Running, channelVars, serverVars
<1> QED
  BY <1>5, <1>6, <1>7, <1>8, <1>9, <1>11

\* After HandleClose, only the removal and ConnectDestroyed are left to do.
LEMMA EndingSteps ==
  ASSUME TypeOK, [Next]_vars, Disciplined, TeardownInv, state_ = "kDisconnected"
  PROVE  RunDestroyed \/ RunRemove \/ UNCHANGED <<state_, channelVars, serverVars>>
<1>1. Ending /\ ~CloseAsserts
  BY DEF TeardownInv, Phases, CloseAsserts
<1>2. batch # <<>> => Head(batch).op \notin {"startReadInLoop", "stopReadInLoop"}
  <2>1. batch \in Seq(Functors)
    BY Parts DEF QueueTypes
  <2> QED
    BY <2>1, HasSteps DEF TeardownInv, FunctorInv, NoReadControl
<1>3. ~HandleClose /\ ~RunReadControl /\ ~RunEstablished /\ ~DestroyServer /\ ~ReadControlHere
  BY <1>1, <1>2, Zenon DEF HandleClose, RunReadControl, RunFunctor, RunEstablished, ConnectEstablished,
       DestroyServer, ReadControlHere, Disciplined
<1>4. /\ ~ShutdownHere /\ ~ForceCloseHere /\ ~\E t \in Threads : Store(t) \/ Queue(t)
      /\ ~\E len \in 1 .. MaxMessage : SendHere(len)
  BY <1>1, Zenon DEF ShutdownHere, ForceCloseHere, Store, Queue, SendHere, TeardownInv
<1>5. CASE EventHup \/ EventIn \/ RunForceClose
  BY <1>3, <1>5 DEF EventHup, EventIn, RunForceClose, serverVars
<1>6. CASE EventOut
  BY <1>1, <1>6, Zenon DEF EventOut, Ending
<1>7. CASE RunSend
  BY <1>7 DEF RunSend, SendInLoop
<1>8. CASE ~(EventHup \/ EventIn \/ RunForceClose \/ EventOut \/ RunSend \/ RunDestroyed \/ RunRemove)
  BY <1>3, <1>4, <1>8, Zenon DEF Next, IoLoop, UserCalls, Poll, EventErr, SwapPending, RunShutdown,
       RunUserCallback, DropRef, Test, QueueSend, QueueReadControl, PeerCloses, vars
<1> QED
  BY <1>5, <1>6, <1>7, <1>8

\* What poll reports belongs to a connection that is not closed, and it is used up when
\* HandleClose runs.
LEMMA ReventsStep ==
  ASSUME TypeOK, [Next]_vars, Disciplined, TeardownInv
  PROVE  ReventsInv'
<1>1. \/ \E data, room \in BOOLEAN : Poll(data, room)
      \/ SwapPending
      \/ revents' \subseteq revents /\ (batch' = batch \/ batch # <<>>)
  BY Zenon DEF Next, IoLoop, UserCalls, EventHup, EventErr, EventIn, EventOut, RunEstablished,
     RunDestroyed,
       RunSend, RunShutdown, RunForceClose, RunReadControl, RunUserCallback, RunFunctor, SendHere,
       ShutdownHere, ForceCloseHere, ReadControlHere, DropRef, Test, Store, Queue, QueueSend,
       QueueReadControl, RunRemove, DestroyServer, PeerCloses, batchVars, vars
<1>2. ASSUME NEW data \in BOOLEAN, NEW room \in BOOLEAN, Poll(data, room) PROVE ReventsInv'
  <2>1. batch = <<>> /\ batch' = batch /\ index = "kAdded" /\ state_' = state_
    BY <1>2, Zenon DEF Poll, Idle
  <2>2. state_ \in {"kConnecting", "kConnected", "kDisconnecting", "kDisconnected"}
    BY Parts DEF ChannelTypes
  <2>3. CloseAsserts
    BY <2>1, <2>2 DEF TeardownInv, Phases, Starting, Ending, CloseAsserts
  <2> QED
    BY <2>1, <2>3 DEF ReventsInv, CloseAsserts
<1>3. CASE SwapPending
  BY <1>3 DEF SwapPending, Idle, ReventsInv
<1>4. CASE revents' \subseteq revents /\ (batch' = batch \/ batch # <<>>)
  <2>1. revents' = {} \/ batch' = <<>>
    BY <1>4 DEF TeardownInv, ReventsInv
  <2>2. ASSUME revents' \cap {"HUP", "IN"} # {} PROVE CloseAsserts'
    <3>1. CloseAsserts /\ batch = <<>>
      BY <1>4, <2>2 DEF TeardownInv, ReventsInv
    <3>2. ~((EventHup \/ EventIn \/ RunForceClose) /\ HandleClose)
      <4>1. ~RunForceClose
        BY <3>1 DEF RunForceClose, RunFunctor
      <4>2. ~EventIn
        BY <2>2 DEF EventIn
      <4>3. ~(EventHup /\ HandleClose)
        <5>1. EventHup /\ "IN" \in revents => UNCHANGED state_
          BY DEF EventHup
        <5>2. HandleClose => state_ # state_'
          BY DEF HandleClose, CloseAsserts
        <5>3. EventHup => revents' = revents \ {"HUP"}
          BY DEF EventHup
        <5> QED
          BY <2>2, <5>1, <5>2, <5>3
      <4> QED
        BY <4>1, <4>2, <4>3
    <3> QED
      BY <3>1, <3>2, RunningSteps DEF CloseAsserts
  <2> QED
    BY <2>1, <2>2 DEF ReventsInv
<1> QED
  BY <1>1, <1>2, <1>3, <1>4

\* Each step leads from a phase to itself or to the next one.
LEMMA PhaseStep ==
  ASSUME TypeOK, [Next]_vars, Disciplined, TeardownInv
  PROVE  Phases'
<1>0. /\ state_ \in {"kConnecting", "kConnected", "kDisconnecting", "kDisconnected"}
      /\ queue \in Seq(Functors) /\ batch \in Seq(Functors)
  BY Parts DEF ChannelTypes, QueueTypes
<1>1. FunctorInv /\ Phases /\ ~ReadControl
  BY DEF TeardownInv, Disciplined
<1>2. CASE state_ = "kConnecting"
  <2>1. Starting
    BY <1>1, <1>2 DEF Phases
  <2>2. CASE RunEstablished
    <3>1. /\ state_' = "kConnected" /\ UNCHANGED <<inMap, removals>>
          /\ UpdateChannel(events \cup {"read"})
      BY <2>2 DEF RunEstablished, ConnectEstablished, serverVars
    <3>2. Running'
      BY <2>1, <3>1 DEF Starting, Running, UpdateChannel
    <3> QED
      BY <3>1, <3>2 DEF Phases, CloseAsserts
  <2>3. CASE /\ UNCHANGED <<state_, channelVars, serverVars, userVars>>
             /\ SwapPending \/ UNCHANGED <<queue, batch>>
    <3>1. OnlyEstablish(queue') /\ OnlyEstablish(batch')
      <4>1. CASE SwapPending
        <5>1. batch' = queue /\ queue' = <<>>
          BY <4>1 DEF SwapPending
        <5> QED
          BY <2>1, <5>1 DEF Starting, OnlyEstablish
      <4> QED
        BY <2>1, <2>3, <4>1 DEF Starting
    <3>2. Starting'
      BY <2>1, <2>3, <3>1 DEF Starting, channelVars, serverVars, userVars
    <3> QED
      BY <1>2, <2>3, <3>2 DEF Phases, CloseAsserts
  <2> QED
    BY <1>2, <2>2, <2>3, StartingSteps
<1>3. CASE CloseAsserts
  <2>1. Running
    BY <1>1, <1>3 DEF Phases
  <2>2. CASE HandleClose
    <3>1. /\ state_' = "kDisconnected" /\ events' = {} /\ index' = "kDeleted"
          /\ \/ /\ inMap' = FALSE /\ removals' = removals
                /\ queue' = Append(queue, Functor("connectDestroyed"))
             \/ removals' = removals + 1 /\ UNCHANGED inMap
      BY <2>1, <2>2, Zenon DEF HandleClose, UpdateChannel, RemoveConnectionInLoop, Running
    <3>2. queue' = Append(queue, Functor("connectDestroyed")) => Has(queue', "connectDestroyed")
      <4>1. /\ Functor("connectDestroyed") \in Functors
            /\ Functor("connectDestroyed").op = "connectDestroyed"
        BY FunctorTypes DEF Ops
      <4> HIDE DEF Functor
      <4> QED
        BY <1>0, <4>1, HasSteps
    <3>3. \/ ~inMap' /\ removals' = 0 /\ Has(queue', "connectDestroyed")
          \/ inMap' /\ removals' = 1
      <4>1. inMap /\ removals = 0
        BY <2>1 DEF Running
      <4>2. removals' = removals => removals' = 0
        BY <4>1
      <4>3. removals' = removals + 1 => removals' = 1
        BY <4>1
      <4> QED
        BY <3>1, <3>2, <4>1, <4>2, <4>3, Zenon
    <3>4. Ending'
      BY <3>1, <3>3 DEF Ending, Destroying
    <3> QED
      BY <3>1, <3>4 DEF Phases, CloseAsserts
  <2>3. CASE /\ state_' \in {"kConnected", "kDisconnecting"} /\ UNCHANGED <<inMap, removals>>
             /\ index' = "kAdded" /\ "read" \in events'
    BY <2>1, <2>3 DEF Phases, Running, CloseAsserts
  <2> QED
    BY <1>3, <2>2, <2>3, RunningSteps
<1>4. CASE state_ = "kDisconnected"
  <2>1. Ending
    BY <1>1, <1>4 DEF Phases
  <2>2. CASE RunDestroyed
    <3>1. /\ batch # <<>> /\ Head(batch).op = "connectDestroyed" /\ UNCHANGED <<inMap, removals>>
          /\ state_' = "kDisconnected" /\ events' = {} /\ index' = "kNew"
      BY <1>4, <2>2 DEF RunDestroyed, RunFunctor, ConnectDestroyed, serverVars
    <3>2. ~inMap
      BY <1>0, <1>1, <3>1, HasSteps DEF FunctorInv, Destroying
    <3>3. ~Destroying'
      BY <1>1, <2>2, FunctorStep
    <3>4. Ending'
      BY <2>1, <3>1, <3>2, <3>3 DEF Ending
    <3> QED
      BY <3>1, <3>4 DEF Phases, CloseAsserts
  <2>3. CASE RunRemove
    <3>1. /\ removals > 0 /\ removals' = removals - 1 /\ inMap' = FALSE
          /\ queue' = Append(queue, Functor("connectDestroyed"))
          /\ UNCHANGED <<state_, events, index>>
      BY <2>3 DEF RunRemove, RemoveConnectionInLoop, channelVars
    <3>2. Has(queue', "connectDestroyed")
      <4>1. /\ Functor("connectDestroyed") \in Functors
            /\ Functor("connectDestroyed").op = "connectDestroyed"
        BY FunctorTypes DEF Ops
      <4> HIDE DEF Functor
      <4> QED
        BY <1>0, <3>1, <4>1, HasSteps
    <3>3. Ending'
      BY <2>1, <3>1, <3>2 DEF Ending, Destroying
    <3> QED
      BY <1>4, <3>1, <3>3 DEF Phases, CloseAsserts
  <2>4. CASE UNCHANGED <<state_, channelVars, serverVars>> /\ ~RunDestroyed
    <3>1. ~inMap => (Destroying' <=> Destroying)
      BY <1>1, <2>4, FunctorStep
    <3>2. UNCHANGED <<events, index, inMap, removals>>
      BY <2>4 DEF channelVars, serverVars
    <3>3. Ending'
      BY <2>1, <3>1, <3>2 DEF Ending
    <3> QED
      BY <1>4, <2>4, <3>3 DEF Phases, CloseAsserts
  <2> QED
    BY <1>4, <2>2, <2>3, <2>4, EndingSteps
<1> QED
  BY <1>0, <1>2, <1>3, <1>4 DEF CloseAsserts

\* The asserts on a connection's way to its end hold, with a server that outlives it and other
\* threads that only send: HandleClose runs once, the server is asked to remove the connection
\* once and has it then, ConnectDestroyed finds the channel disabled, and the destructor finds
\* the connection disconnected and its channel out of the loop.
THEOREM TeardownIsSafe == Disciplined => (Spec => []TeardownAsserts)
<1> SUFFICES ASSUME Disciplined PROVE Spec => []TeardownAsserts
  OBVIOUS
<1>1. Init => TeardownInv
  <2> SUFFICES ASSUME Init PROVE TeardownInv
    OBVIOUS
  <2>1. PICK f \in Functors : f.op = "connectEstablished" /\ queue = <<f>> /\ batch = <<>>
    BY FunctorTypes, Zenon DEF Init, Ops
  <2>2. DOMAIN queue = {1} /\ queue[1] = f /\ DOMAIN batch = {}
    BY <2>1
  <2>3. /\ ~Destroying /\ Once(queue) /\ Once(batch) /\ NoReadControl(queue) /\ NoReadControl(batch)
        /\ OnlyEstablish(queue) /\ OnlyEstablish(batch)
    BY <2>1, <2>2 DEF Destroying, Has, Once, NoReadControl, OnlyEstablish
  <2>4. /\ state_ = "kConnecting" /\ revents = {} /\ inMap /\ removals = 0 /\ index = "kNew"
        /\ events = {} /\ ~userRef /\ \A t \in Threads : call[t] = "none"
    BY DEF Init
  <2> QED
    BY <2>3, <2>4 DEF TeardownInv, FunctorInv, ReventsInv, Phases, Starting, CloseAsserts,
       Destroying
<1>2. TypeOK /\ TeardownInv /\ [Next]_vars => TeardownInv'
  <2> SUFFICES ASSUME TypeOK, TeardownInv, [Next]_vars PROVE TeardownInv'
    OBVIOUS
  <2>1. FunctorInv'
    BY FunctorStep DEF TeardownInv, Disciplined
  <2>2. ReventsInv' /\ Phases'
    BY ReventsStep, PhaseStep
  <2>3. \A t \in Threads : call'[t] \in {"none", "send"}
    BY CallsStep, Zenon DEF TeardownInv
  <2> QED
    BY <2>1, <2>2, <2>3 DEF TeardownInv
<1>3. TypeOK /\ TeardownInv => TeardownAsserts
  <2> SUFFICES ASSUME TypeOK, TeardownInv PROVE TeardownAsserts
    OBVIOUS
  <2>0. /\ state_ \in {"kConnecting", "kConnected", "kDisconnecting", "kDisconnected"}
        /\ queue \in Seq(Functors) /\ batch \in Seq(Functors)
    BY Parts DEF ChannelTypes, QueueTypes
  <2>1. HandleCloseAssert
    BY DEF TeardownInv, ReventsInv, HandleCloseAssert
  <2>2. (removals > 0 => inMap) /\ (CloseAsserts => inMap)
    BY <2>0 DEF TeardownInv, Phases, Starting, Running, Ending, CloseAsserts
  <2>3. ASSUME batch # <<>>, Head(batch).op = "connectDestroyed" PROVE CanRemove
    <3>1. Destroying
      BY <2>0, <2>3, HasSteps DEF Destroying
    <3> QED
      BY <2>0, <3>1 DEF TeardownInv, FunctorInv, Phases, Starting, Running, Ending, CloseAsserts,
                        CanRemove
  <2>4. ASSUME Destroyed PROVE state_ = "kDisconnected" /\ index = "kNew"
    <3>1. ~inMap
      BY <2>4 DEF Destroyed
    <3>2. ~Destroying
      <4>1. ASSUME NEW f \in Range(queue) \cup Range(batch) PROVE f.op # "connectDestroyed"
        BY <2>4 DEF Destroyed, Owns
      <4> QED
        BY <4>1, Zenon DEF Destroying, Has, Range
    <3> QED
      BY <2>0, <3>1, <3>2 DEF TeardownInv, Phases, Starting, Running, Ending, CloseAsserts
  <2> QED
    BY <2>1, <2>2, <2>3, <2>4 DEF TeardownAsserts, RemoveAsserts, DestructorAsserts
<1> QED
  BY <1>1, <1>2, <1>3, TypesHold, PTL DEF Spec

=============================================================================
