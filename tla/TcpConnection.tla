--------------------------- MODULE TcpConnection ---------------------------
(***************************************************************************)
(* TcpConnection (src/src/network/TcpConnection.cc) with its Channel, its  *)
(* entry in the Epoll of its io loop and in the map of its TcpServer, from *)
(* TcpServer::NewConnection to the destructor.                             *)
(*                                                                         *)
(* The io loop takes one step at a time: a poll, the next callback of      *)
(* HandleEventWithGuard, or the next functor of the batch that             *)
(* DoPendingFunctors took.  Callbacks are user code, so calls made in the  *)
(* io loop may come between any two of these steps.  Other threads' calls  *)
(* first test state_, then store it, then queue a functor.  A byte is the  *)
(* sender that passed it to Send and a number that counts the sender's     *)
(* bytes.                                                                  *)
(*                                                                         *)
(* A failing assert stops the program: it is a conjunct of the action, and *)
(* the properties say that it holds.                                       *)
(***************************************************************************)
EXTENDS Integers, Sequences, FiniteSetsExt

CONSTANTS Threads,        (* threads other than the io loop's               *)
          BaseIsIo,       (* whether the server's loop is the io loop       *)
          ThreadCalls,    (* what these threads call: "send", "shutdown", "forceClose" *)
          ReadControl,    (* whether StartRead and StopRead are called      *)
          ServerGoes,     (* whether ~TcpServer runs before the connection's end *)
          highWaterMark_,
          MaxMessage,     (* bound: bytes in a message                      *)
          MaxBytes,       (* bound: bytes ever sent                         *)
          MaxQueue        (* bound: functors queued by users                *)

ASSUME TcpConnectionAssumption ==
    /\ {BaseIsIo, ReadControl, ServerGoes} \subseteq BOOLEAN
    /\ ThreadCalls \subseteq {"send", "shutdown", "forceClose"}
    /\ "loop" \notin Threads
    /\ {highWaterMark_, MaxMessage, MaxBytes, MaxQueue} \subseteq Nat \ {0}

VARIABLES
    state_, reading_,
    events, index,          (* the Channel's, with the Epoll's view of it   *)
    revents,                (* reported by poll and not yet handled         *)
    outputBuffer_,
    wire,                   (* the bytes that write() has taken             *)
    shutWr,                 (* the socket's write side is shut down         *)
    peer,                   (* "open", "fin" or "reset"                     *)
    soError,                (* whether SO_ERROR is pending                  *)
    queue, batch,           (* the io loop's functors, and those being run  *)
    polled,                 (* poll has returned since they were last taken *)
    batchOwns,              (* a functor run in this batch owns a reference *)
    inMap,                  (* the server's map has the connection          *)
    removals,               (* RemoveConnectionInLoop calls queued in the base loop *)
    serverGone,
    userRef,                (* the user holds a reference                   *)
    call,                   (* call[t]: how far t is in its call            *)
    sent,                   (* history: how many bytes Send took from each sender *)
    gaveUp,                 (* history: DoSendInLoop has dropped bytes      *)
    completed,              (* history: Len(wire) at the last write-complete callback *)
    highWater               (* history: the high-water callback was queued  *)
                            (* since the buffer was last below the mark     *)

channelVars == <<events, index>>
dataVars == <<outputBuffer_, wire, sent, gaveUp, completed, highWater>>
socketVars == <<shutWr, peer, soError>>
batchVars == <<batch, polled, batchOwns>>
serverVars == <<inMap, removals, serverGone>>
userVars == <<userRef, call>>
vars == <<state_, reading_, channelVars, revents, dataVars, socketVars, queue,
          batchVars, serverVars, userVars>>

\* The io loop's own thread, as a sender, and the other threads.
Senders == Threads \cup {"loop"}

Ops == {"connectEstablished", "connectDestroyed", "sendInLoop", "shutdownInLoop",
        "forceCloseInLoop", "startReadInLoop", "stopReadInLoop", "writeComplete", "highWaterMark"}

Functor(op) == [op |-> op, data |-> <<>>]

\* NewConnection has made the connection, put it in the map and queued
\* ConnectEstablished.
Init ==
    /\ state_ = "kConnecting" /\ reading_ = TRUE
    /\ events = {} /\ index = "kNew" /\ revents = {}
    /\ outputBuffer_ = <<>> /\ wire = <<>>
    /\ shutWr = FALSE /\ peer = "open" /\ soError = FALSE
    /\ queue = <<Functor("connectEstablished")>> /\ batch = <<>>
    /\ polled = FALSE /\ batchOwns = FALSE
    /\ inMap = TRUE /\ removals = 0 /\ serverGone = FALSE
    /\ userRef = FALSE /\ call = [t \in Threads |-> "none"]
    /\ sent = [s \in Senders |-> 0] /\ gaveUp = FALSE /\ completed = 0 /\ highWater = FALSE

\* Whether a functor holds a shared_ptr; the others are bound to a raw this.
Owns(f) == f.op \notin {"sendInLoop", "shutdownInLoop", "startReadInLoop", "stopReadInLoop"}

\* The last reference is gone: the destructor has run.
Destroyed ==
    /\ ~inMap /\ removals = 0 /\ ~userRef /\ ~batchOwns
    /\ \A f \in Range(queue) \cup Range(batch) : ~Owns(f)

(***************************************************************************)
(* Channel and Epoll.                                                      *)
(***************************************************************************)
\* Channel::Update with new events, and Epoll::UpdateChannel: a channel that is
\* not in the epoll set is added to it whatever its events.
UpdateChannel(evs) ==
    /\ events' = evs
    /\ index' = IF index = "kAdded" /\ evs = {} THEN "kDeleted" ELSE "kAdded"

\* The asserts of Channel::remove and Epoll::RemoveChannel.
CanRemove == events = {} /\ index # "kNew"

(***************************************************************************)
(* What the io loop does in its handlers and functors.                     *)
(***************************************************************************)
\* What write() may return for len > 0 bytes; 0 stands for EWOULDBLOCK, -1 for
\* EPIPE and ECONNRESET.
WriteResults(len) == IF shutWr \/ peer = "reset" THEN {-1} ELSE 0 .. len

\* Mutant: data is written even when older data is buffered.
MayWriteAlways == TRUE

\* DoSendInLoop writes at once only if nothing is buffered before it.
MayWrite == "write" \notin events /\ outputBuffer_ = <<>>

\* Mutant: the mark is only looked at when the buffer was empty.
CrossesMarkFromEmpty(oldLen, newLen) == newLen >= highWaterMark_ /\ oldLen = 0

CrossesMark(oldLen, newLen) == newLen >= highWaterMark_ /\ oldLen < highWaterMark_

\* Mutant: write events are not asked for.
AskForRoomNot == UNCHANGED channelVars

AskForRoom ==
    IF "write" \in events THEN UNCHANGED channelVars
                          ELSE UpdateChannel(events \cup {"write"})

\* All data is written: the user's callback is queued.
QueueWriteComplete ==
    /\ queue' = Append(queue, Functor("writeComplete"))
    /\ completed' = Len(wire')

\* DoSendInLoop of data once write() has returned n: what is left is buffered
\* and write events are asked for, unless the write failed for good.
DoSendInLoop(data, n) ==
    LET written == SubSeq(data, 1, n)
        rest == SubSeq(data, n + 1, Len(data))
        newLen == Len(outputBuffer_) + Len(rest)
    IN  \/ /\ n = -1
           /\ gaveUp' = TRUE
           /\ soError' = FALSE
           /\ UNCHANGED <<outputBuffer_, wire, completed, highWater, channelVars, queue>>
        \/ /\ n = Len(data)
           /\ wire' = wire \o data
           /\ QueueWriteComplete
           /\ UNCHANGED <<outputBuffer_, gaveUp, highWater, channelVars, soError>>
        \/ /\ n \in 0 .. (Len(data) - 1)
           /\ wire' = wire \o written
           /\ outputBuffer_' = outputBuffer_ \o rest
           /\ IF CrossesMark(Len(outputBuffer_), newLen)
              THEN queue' = Append(queue, Functor("highWaterMark")) /\ highWater' = TRUE
              ELSE UNCHANGED <<queue, highWater>>
           /\ AskForRoom
           /\ UNCHANGED <<gaveUp, completed, soError>>

\* The whole of DoSendInLoop.
SendInLoop(data) ==
    \/ /\ state_ = "kDisconnected"
       /\ gaveUp' = TRUE
       /\ UNCHANGED <<outputBuffer_, wire, completed, highWater, channelVars, queue, soError>>
    \/ /\ state_ # "kDisconnected"
       /\ \E n \in IF MayWrite THEN WriteResults(Len(data)) ELSE {0} : DoSendInLoop(data, n)

\* ShutdownInLoop: not while data is buffered.
ShutdownInLoop == shutWr' = (shutWr \/ "write" \notin events)

\* Mutant: the connection is left in the map.
RemoveConnectionInLoopKeeps ==
    /\ inMap
    /\ inMap' = inMap
    /\ queue' = Append(queue, Functor("connectDestroyed"))

\* RemoveConnectionInLoop, with its assert.
RemoveConnectionInLoop ==
    /\ inMap
    /\ inMap' = FALSE
    /\ queue' = Append(queue, Functor("connectDestroyed"))

CloseAsserts == state_ \in {"kConnected", "kDisconnecting"}

\* Mutant: HandleClose leaves the state as it is.
HandleCloseStateless ==
    /\ CloseAsserts
    /\ ~serverGone
    /\ state_' = state_
    /\ UpdateChannel({})
    /\ IF BaseIsIo THEN RemoveConnectionInLoop /\ UNCHANGED <<removals, serverGone>>
                   ELSE removals' = removals + 1 /\ UNCHANGED <<inMap, serverGone, queue>>

\* HandleClose: its closeCallback_ is the server's RemoveConnection, which needs
\* the server.
HandleClose ==
    /\ CloseAsserts
    /\ ~serverGone
    /\ state_' = "kDisconnected"
    /\ UpdateChannel({})
    /\ IF BaseIsIo THEN RemoveConnectionInLoop /\ UNCHANGED <<removals, serverGone>>
                   ELSE removals' = removals + 1 /\ UNCHANGED <<inMap, serverGone, queue>>

\* ConnectDestroyed: a connected channel has its events cleared, then the channel
\* is removed, which asserts that it has none.
ConnectDestroyed ==
    /\ state_ = "kConnected" \/ CanRemove
    /\ state_' = IF state_ = "kConnected" THEN "kDisconnected" ELSE state_
    /\ events' = {}
    /\ index' = "kNew"

\* ConnectEstablished; the connection callback may keep the reference it is given.
ConnectEstablished ==
    /\ state_ = "kConnecting"
    /\ state_' = "kConnected"
    /\ UpdateChannel(events \cup {"read"})
    /\ userRef' = TRUE

StartReadInLoop ==
    IF ~reading_ \/ "read" \notin events
    THEN UpdateChannel(events \cup {"read"}) /\ reading_' = TRUE
    ELSE UNCHANGED <<channelVars, reading_>>

StopReadInLoop ==
    IF reading_ \/ "read" \in events
    THEN UpdateChannel(events \ {"read"}) /\ reading_' = FALSE
    ELSE UNCHANGED <<channelVars, reading_>>

(***************************************************************************)
(* The io loop: poll, the channel's callbacks, the functors.               *)
(***************************************************************************)
Idle == revents = {} /\ batch = <<>>

\* epoll_wait reports the channel.  Hang-ups and errors are reported whatever the
\* events; data and room in the socket's buffer come as they like.
Poll(data, room) ==
    LET closed == peer # "open"
    IN  /\ Idle /\ ~polled
        /\ polled' = TRUE
        /\ index = "kAdded" /\ ~Destroyed
        /\ revents' = {r \in {"HUP", "ERR", "IN", "OUT"} :
              CASE r = "HUP" -> peer = "reset" \/ (closed /\ shutWr)
                [] r = "ERR" -> soError
                [] r = "IN"  -> "read" \in events /\ (data \/ closed)
                [] r = "OUT" -> "write" \in events /\ (room \/ peer = "reset")}
        /\ revents' # {}
        /\ UNCHANGED <<state_, reading_, channelVars, dataVars, socketVars, queue, batch,
                       batchOwns, serverVars, userVars>>

\* HandleEventWithGuard's first test: a hang-up with nothing left to read.
EventHup ==
    /\ "HUP" \in revents
    /\ IF "IN" \in revents
       THEN UNCHANGED <<state_, channelVars, inMap, removals, serverGone, queue>>
       ELSE HandleClose
    /\ revents' = revents \ {"HUP"}
    /\ UNCHANGED <<reading_, dataVars, socketVars, batchVars, userVars>>

\* HandleError reads SO_ERROR, which clears it.
EventErr ==
    /\ "ERR" \in revents /\ "HUP" \notin revents
    /\ soError' = FALSE
    /\ revents' = revents \ {"ERR"}
    /\ UNCHANGED <<state_, reading_, channelVars, dataVars, shutWr, peer, queue, batchVars,
                   serverVars, userVars>>

\* Mutant: end of file is taken for an error.
EventInIgnoresEof ==
    /\ "IN" \in revents /\ revents \cap {"HUP", "ERR"} = {}
    /\ revents' = revents \ {"IN"}
    /\ soError' = FALSE
    /\ UNCHANGED <<state_, reading_, channelVars, dataVars, shutWr, peer, queue, batchVars,
                   serverVars, userVars>>

\* HandleRead: an error is logged, end of file closes, data goes to the user.
EventIn ==
    /\ "IN" \in revents /\ revents \cap {"HUP", "ERR"} = {}
    /\ revents' = revents \ {"IN"}
    /\ soError' = FALSE
    /\ \/ UNCHANGED <<state_, channelVars, inMap, removals, serverGone, queue>>
       \/ peer # "open" /\ ~soError /\ HandleClose
    /\ UNCHANGED <<reading_, dataVars, shutWr, peer, batchVars, userVars>>

\* Mutant: the shutdown that waited for the data is forgotten.
DrainedForgets == UNCHANGED shutWr

\* HandleWrite has emptied the buffer: a shutdown that waited for it is made up for.
\* The channel's write events are off by then.
Drained == shutWr' = (shutWr \/ state_ = "kDisconnecting")

\* HandleWrite.
EventOut ==
    /\ revents = {"OUT"}
    /\ revents' = {}
    /\ \/ /\ "write" \notin events
          /\ UNCHANGED <<channelVars, dataVars, queue, shutWr, soError>>
       \/ /\ "write" \in events
          /\ \E n \in WriteResults(Len(outputBuffer_)) :
                LET left == SubSeq(outputBuffer_, n + 1, Len(outputBuffer_))
                IN  \/ /\ n <= 0
                       /\ soError' = (soError /\ n = 0)
                       /\ UNCHANGED <<channelVars, dataVars, queue, shutWr>>
                    \/ /\ n > 0
                       /\ wire' = wire \o SubSeq(outputBuffer_, 1, n)
                       /\ outputBuffer_' = left
                       /\ highWater' = (highWater /\ Len(left) >= highWaterMark_)
                       /\ IF left = <<>>
                          THEN /\ UpdateChannel(events \ {"write"})
                               /\ QueueWriteComplete
                               /\ Drained
                          ELSE UNCHANGED <<channelVars, queue, completed, shutWr>>
                       /\ UNCHANGED <<sent, gaveUp, soError>>
    /\ UNCHANGED <<state_, reading_, peer, batchVars, serverVars, userVars>>

\* DoPendingFunctors takes the queue, after a poll that may not have reported this
\* channel.
SwapPending ==
    /\ Idle
    /\ polled \/ queue # <<>>
    /\ polled' = FALSE
    /\ batch' = queue
    /\ queue' = <<>>
    /\ UNCHANGED <<state_, reading_, channelVars, revents, dataVars, socketVars, batchOwns,
                   serverVars, userVars>>

\* It runs the next functor.  The functors, and the references they hold, are
\* destroyed with the batch.  What a functor with a raw this does to a connection
\* that is gone is not modelled.
RunFunctor(op) ==
    /\ batch # <<>> /\ Head(batch).op = op
    /\ ~Destroyed
    /\ batch' = Tail(batch)
    /\ batchOwns' = (Tail(batch) # <<>> /\ (batchOwns \/ Owns(Head(batch))))
    /\ UNCHANGED <<revents, peer, polled>>

RunEstablished ==
    /\ RunFunctor("connectEstablished")
    /\ ConnectEstablished
    /\ UNCHANGED <<reading_, dataVars, shutWr, soError, queue, serverVars, call>>

RunDestroyed ==
    /\ RunFunctor("connectDestroyed")
    /\ ConnectDestroyed
    /\ UNCHANGED <<reading_, dataVars, shutWr, soError, queue, serverVars, userVars>>

RunSend ==
    /\ RunFunctor("sendInLoop")
    /\ SendInLoop(Head(batch).data)
    /\ UNCHANGED <<state_, reading_, sent, shutWr, serverVars, userVars>>

RunShutdown ==
    /\ RunFunctor("shutdownInLoop")
    /\ ShutdownInLoop
    /\ UNCHANGED <<state_, reading_, channelVars, dataVars, soError, queue, serverVars, userVars>>

\* ForceCloseInLoop.
RunForceClose ==
    /\ RunFunctor("forceCloseInLoop")
    /\ IF CloseAsserts THEN HandleClose
       ELSE UNCHANGED <<state_, channelVars, inMap, removals, serverGone, queue>>
    /\ UNCHANGED <<reading_, dataVars, shutWr, soError, userVars>>

RunReadControl ==
    /\ \/ RunFunctor("startReadInLoop") /\ StartReadInLoop
       \/ RunFunctor("stopReadInLoop") /\ StopReadInLoop
    /\ UNCHANGED <<state_, dataVars, shutWr, soError, queue, serverVars, userVars>>

\* The user's write-complete and high-water callbacks.
RunUserCallback ==
    /\ RunFunctor("writeComplete") \/ RunFunctor("highWaterMark")
    /\ UNCHANGED <<state_, reading_, channelVars, dataVars, shutWr, soError, queue, serverVars,
                   userVars>>

IoLoop ==
    \/ \E data, room \in BOOLEAN : Poll(data, room)
    \/ EventHup \/ EventErr \/ EventIn \/ EventOut
    \/ SwapPending \/ RunEstablished \/ RunDestroyed \/ RunSend \/ RunShutdown
    \/ RunForceClose \/ RunReadControl \/ RunUserCallback

(***************************************************************************)
(* The user's calls in the io loop.                                        *)
(***************************************************************************)
\* The next len bytes of a sender.
Message(s, len) == [i \in 1 .. len |-> <<s, sent[s] + i>>]

Accept(s, len) ==
    /\ MapThenSumSet(LAMBDA x : sent[x], Senders) + len <= MaxBytes
    /\ sent' = [sent EXCEPT ![s] = @ + len]

\* The user has a reference to the connection, and makes no more calls than the
\* bound allows.
MayCall == userRef /\ Len(queue) < MaxQueue

SendHere(len) ==
    /\ MayCall
    /\ state_ = "kConnected"
    /\ Accept("loop", len)
    /\ SendInLoop(Message("loop", len))
    /\ UNCHANGED <<state_, reading_, revents, shutWr, peer, batchVars, serverVars, userVars>>

ShutdownHere ==
    /\ MayCall
    /\ state_ = "kConnected"
    /\ state_' = "kDisconnecting"
    /\ ShutdownInLoop
    /\ UNCHANGED <<reading_, channelVars, revents, dataVars, peer, soError, queue, batchVars,
                   serverVars, userVars>>

ForceCloseHere ==
    /\ MayCall
    /\ CloseAsserts
    /\ state_' = "kDisconnecting"
    /\ queue' = Append(queue, Functor("forceCloseInLoop"))
    /\ UNCHANGED <<reading_, channelVars, revents, dataVars, socketVars, batchVars, serverVars,
                   userVars>>

ReadControlHere ==
    /\ MayCall /\ ReadControl
    /\ StartReadInLoop \/ StopReadInLoop
    /\ UNCHANGED <<state_, revents, dataVars, socketVars, queue, batchVars, serverVars, userVars>>

(***************************************************************************)
(* The user's calls in another thread, which holds a reference meanwhile.  *)
(***************************************************************************)
\* The first step: the test of state_.
Test(t, op) ==
    /\ MayCall
    /\ call[t] = "none"
    /\ state_ = "kConnected" \/ (op = "forceClose" /\ CloseAsserts)
    /\ call' = [call EXCEPT ![t] = op]
    /\ UNCHANGED <<state_, reading_, channelVars, revents, dataVars, socketVars, queue, batchVars,
                   serverVars, userRef>>

\* Shutdown and ForceClose store the new state ...
Store(t) ==
    /\ call[t] \in {"shutdown", "forceClose"}
    /\ state_' = "kDisconnecting"
    /\ call' = [call EXCEPT ![t] = IF @ = "shutdown" THEN "shutdownInLoop" ELSE "forceCloseInLoop"]
    /\ UNCHANGED <<reading_, channelVars, revents, dataVars, socketVars, queue, batchVars,
                   serverVars, userRef>>

\* ... and queue their functor.
Queue(t) ==
    /\ call[t] \in {"shutdownInLoop", "forceCloseInLoop"}
    /\ queue' = Append(queue, Functor(call[t]))
    /\ call' = [call EXCEPT ![t] = "none"]
    /\ UNCHANGED <<state_, reading_, channelVars, revents, dataVars, socketVars, batchVars,
                   serverVars, userRef>>

\* Send queues a copy of the message.
QueueSend(t, len) ==
    /\ call[t] = "send"
    /\ Accept(t, len)
    /\ queue' = Append(queue, [op |-> "sendInLoop", data |-> Message(t, len)])
    /\ call' = [call EXCEPT ![t] = "none"]
    /\ UNCHANGED <<state_, reading_, channelVars, revents, outputBuffer_, wire, gaveUp, completed,
                   highWater, socketVars, batchVars, serverVars, userRef>>

\* StartRead and StopRead test nothing.
QueueReadControl(t) ==
    /\ MayCall /\ ReadControl
    /\ call[t] = "none"
    /\ \E op \in {"startReadInLoop", "stopReadInLoop"} : queue' = Append(queue, Functor(op))
    /\ UNCHANGED <<state_, reading_, channelVars, revents, dataVars, socketVars, batchVars,
                   serverVars, userVars>>

\* The user lets go of the connection.
DropRef ==
    /\ userRef
    /\ \A t \in Threads : call[t] = "none"
    /\ userRef' = FALSE
    /\ UNCHANGED <<state_, reading_, channelVars, revents, dataVars, socketVars, queue, batchVars,
                   serverVars, call>>

UserCalls ==
    \/ \E len \in 1 .. MaxMessage : SendHere(len) \/ \E t \in Threads : QueueSend(t, len)
    \/ ShutdownHere \/ ForceCloseHere \/ ReadControlHere \/ DropRef
    \/ \E t \in Threads :
          \/ \E op \in ThreadCalls : Test(t, op)
          \/ Store(t) \/ Queue(t) \/ QueueReadControl(t)

(***************************************************************************)
(* The server, in its own loop, and the peer.                              *)
(***************************************************************************)
\* The base loop runs a RemoveConnectionInLoop.
RunRemove ==
    /\ removals > 0
    /\ ~serverGone
    /\ removals' = removals - 1
    /\ RemoveConnectionInLoop
    /\ UNCHANGED <<state_, reading_, channelVars, revents, dataVars, socketVars, batchVars,
                   serverGone, userVars>>

\* ~TcpServer: the connection is dropped from the map and ConnectDestroyed run, in
\* the io loop.  In the io loop's own thread NewConnection has run
\* ConnectEstablished within the call, and the server is not destroyed while this
\* channel is active (EventLoop::RemoveChannel asserts it).
DestroyServer ==
    /\ ServerGoes /\ ~serverGone
    /\ serverGone' = TRUE
    /\ inMap' = FALSE
    /\ \/ /\ inMap /\ BaseIsIo
          /\ state_ # "kConnecting" /\ revents = {}
          /\ ConnectDestroyed
          /\ UNCHANGED queue
       \/ /\ inMap /\ ~BaseIsIo
          /\ queue' = Append(queue, Functor("connectDestroyed"))
          /\ UNCHANGED <<state_, channelVars>>
       \/ /\ ~inMap
          /\ UNCHANGED <<state_, channelVars, queue>>
    /\ UNCHANGED <<reading_, revents, dataVars, socketVars, batchVars, removals, userVars>>

\* The peer closes its side, or resets the connection.
PeerCloses ==
    /\ ~Destroyed
    /\ \/ peer = "open" /\ peer' = "fin" /\ UNCHANGED soError
       \/ peer # "reset" /\ peer' = "reset" /\ soError' = TRUE
    /\ UNCHANGED <<state_, reading_, channelVars, revents, dataVars, shutWr, queue, batchVars,
                   serverVars, userVars>>

Next == IoLoop \/ UserCalls \/ RunRemove \/ DestroyServer \/ PeerCloses

Spec == Init /\ [][Next]_vars

\* The io loop and the base loop go on, and so do the threads that are in a call.
\* The peer reads: a socket that is polled for room again and again takes data in
\* the end.  What it sent before it closed is finite.
Fairness ==
    /\ WF_vars(SwapPending) /\ WF_vars(\E op \in Ops : RunFunctor(op) /\ IoLoop)
    /\ WF_vars(EventHup \/ EventErr \/ EventIn \/ EventOut)
    /\ SF_vars(\E data \in BOOLEAN : Poll(data, TRUE))
    /\ SF_vars(EventOut /\ wire' # wire)
    /\ SF_vars(EventIn /\ HandleClose)
    /\ WF_vars(RunRemove)
    /\ \A t \in Threads : WF_vars(Store(t) \/ Queue(t))

FairSpec == Spec /\ Fairness
-----------------------------------------------------------------------------
Bytes == Senders \X (Nat \ {0})

\* Every variable is of its type, and a channel with events is in the epoll set.
TypeOK ==
    /\ state_ \in {"kConnecting", "kConnected", "kDisconnecting", "kDisconnected"}
    /\ reading_ \in BOOLEAN
    /\ events \subseteq {"read", "write"}
    /\ index \in {"kNew", "kAdded", "kDeleted"} /\ (events # {} => index = "kAdded")
    /\ revents \subseteq {"HUP", "ERR", "IN", "OUT"}
    /\ outputBuffer_ \in Seq(Bytes) /\ wire \in Seq(Bytes)
    /\ {shutWr, soError, polled, batchOwns, inMap, serverGone, userRef, gaveUp, highWater} \subseteq BOOLEAN
    /\ peer \in {"open", "fin", "reset"}
    /\ queue \in Seq([op : Ops, data : Seq(Bytes)]) /\ batch \in Seq([op : Ops, data : Seq(Bytes)])
    /\ call \in [Threads -> {"none", "send", "shutdown", "forceClose", "shutdownInLoop",
                             "forceCloseInLoop"}]
    /\ sent \in [Senders -> Nat] /\ {removals, completed} \subseteq Nat

\* HandleClose's assert: whenever the events just polled lead to HandleClose, by a
\* hang-up or by end of file, the connection has not been closed before.
HandleCloseAssert ==
    /\ "HUP" \in revents /\ "IN" \notin revents => CloseAsserts
    /\ revents # {} /\ revents \subseteq {"IN", "OUT"} /\ "IN" \in revents /\ peer # "open"
           /\ ~soError => CloseAsserts

\* The asserts of the removal: RemoveConnectionInLoop finds the connection in the
\* server's map, so it is asked once only, be it through a functor of the base loop or,
\* with one loop, by HandleClose itself; and when ConnectDestroyed is the next functor,
\* the channel it removes has no events and is known to the epoll set.
RemoveAsserts ==
    /\ removals > 0 => inMap
    /\ BaseIsIo /\ ~serverGone /\ CloseAsserts => inMap
    /\ batch # <<>> /\ Head(batch).op = "connectDestroyed" => state_ = "kConnected" \/ CanRemove

\* The destructor's assert, and the one of the Channel it owns: whoever lets go of
\* the last reference, the connection is disconnected and its channel out of the loop.
DestructorAsserts == Destroyed => state_ = "kDisconnected" /\ index = "kNew"

\* The asserts on a connection's way to its end hold: those of HandleClose, of
\* RemoveConnectionInLoop and ConnectDestroyed, and of the destructors.
TeardownAsserts == TypeOK /\ HandleCloseAssert /\ RemoveAsserts /\ DestructorAsserts

\* A sender's bytes are in p in the order in which it sent them.
Ascending(p) == \A i, j \in DOMAIN p : i < j /\ p[i][1] = p[j][1] => p[i][2] < p[j][2]

\* A sender sent the bytes of p before those of q.
Before(p, q) == \A b \in Range(p), c \in Range(q) : b[1] = c[1] => b[2] < c[2]

\* What Send has taken is written, buffered or queued.  A sender's bytes get there in the
\* order in which it sent them and at most once, through partial writes, buffering and
\* batches of functors; and none is missing unless DoSendInLoop gave data up.
StreamIntact ==
    LET fs == batch \o queue
        parts == <<wire, outputBuffer_>> \o [i \in DOMAIN fs |-> fs[i].data]
    IN  /\ \A i \in DOMAIN parts : Ascending(parts[i])
        /\ \A i, j \in DOMAIN parts : i < j => Before(parts[i], parts[j])
        /\ \A i \in DOMAIN parts : \A b \in Range(parts[i]) : b[2] <= sent[b[1]]
        /\ ~gaveUp => \A s \in Senders : \A n \in 1 .. sent[s] :
                         \E i \in DOMAIN parts : <<s, n>> \in Range(parts[i])

\* A connection that has not been closed is watched for room exactly while it has
\* data buffered: else data is stuck, or the level-triggered loop spins.
WriteInterest ==
    inMap /\ state_ \in {"kConnected", "kDisconnecting"} =>
        removals > 0 \/ ("write" \in events <=> outputBuffer_ # <<>>)

\* The write side is never shut down over buffered data, unless the connection has
\* been closed already.
ShutdownAfterData == shutWr /\ outputBuffer_ # <<>> => removals > 0 \/ ~inMap

\* What Send was given is written in order and whole, and before the write side is shut
\* down by ShutdownInLoop or HandleWrite.
DataDelivered == StreamIntact /\ ShutdownAfterData

\* Once everything is written, the write-complete callback for it has been queued.
WriteCompleteQueued == outputBuffer_ = <<>> => completed = Len(wire)

\* When the buffer is at or above the mark, the user has been told since it was
\* last below.
HighWaterTold == Len(outputBuffer_) >= highWaterMark_ => highWater

\* The user of DoSendInLoop and HandleWrite is told of the buffer's two ends: of data all
\* written, and of data piled up to the mark.
CallbacksTold == WriteCompleteQueued /\ HighWaterTold

\* A closed connection that the user lets go of is destroyed: no leak.
ClosedIsDestroyed == (state_ = "kDisconnected" /\ ~userRef) ~> Destroyed

\* ForceClose closes the connection.
ForceCloseCloses ==
    (\E f \in Range(queue) : f.op = "forceCloseInLoop") ~> (state_ = "kDisconnected")

\* Shutdown is done in the end, even if it had to wait for data.
ShutdownHappens == (state_ = "kDisconnecting") ~> (shutWr \/ state_ = "kDisconnected")

\* What the user asks for is done: ForceClose closes, and Shutdown shuts down.
ClosesWhenAsked == ForceCloseCloses /\ ShutdownHappens

\* A connection whose peer has closed is closed, if it goes on reading.
PeerCloseNoticed == (peer # "open" /\ "read" \in events) ~> (state_ = "kDisconnected")
=============================================================================
