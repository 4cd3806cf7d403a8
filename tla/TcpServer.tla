----------------------------- MODULE TcpServer -----------------------------
(***************************************************************************)
(* TcpServer with its Acceptor, its EventLoopThreadPool and the Epoll of   *)
(* each loop: many connections, spread over the loops, on file descriptors *)
(* that are reused and can run out.  What happens inside one connection is *)
(* in TcpConnection; here it is made, established, closed and destroyed.   *)
(*                                                                         *)
(* Loop 0 is the server's own, 1 .. numThreads_ are those of the pool.  A  *)
(* loop handles events and runs its functors, in the order in which they   *)
(* were queued, one at a time.  Another part of the process (a log file    *)
(* that is rolled, say) opens and closes descriptors of its own.           *)
(***************************************************************************)
EXTENDS Integers, Sequences, FiniteSetsExt

CONSTANTS MaxThreads,     (* bound: threads of the pool                     *)
          MaxFd,          (* bound: the descriptors are 0 .. MaxFd          *)
          MaxPeers        (* bound: peers that connect                      *)

ASSUME TcpServerAssumption ==
    /\ {MaxThreads, MaxFd, MaxPeers} \subseteq Nat
    /\ MaxFd >= 1 /\ MaxPeers >= 1

VARIABLES
    started_, numThreads_, loops_, next_, nextConnId_,
    connections_,       (* the names in the map, which are the numbers of connections *)
    conn,               (* conn[c]: state_, descriptor and loop of connection c *)
    channels_,          (* channels_[l][fd]: the connection in the Epoll of l, 0 if none *)
    functors,           (* functors[l]: queued in loop l                    *)
    open,               (* descriptors in use                               *)
    idleFd_, accepting, (* the acceptor's spare descriptor, and its step    *)
    backlog, peers,     (* peers that wait to be accepted; all that came    *)
    other, stolen       (* the other part's descriptor; it got the spare one *)

acceptorVars == <<idleFd_, accepting, backlog, peers, stolen>>
poolVars == <<started_, numThreads_, loops_, next_, nextConnId_>>
connVars == <<connections_, conn, channels_, functors>>
vars == <<poolVars, connVars, open, other, acceptorVars>>

Conns == 1 .. MaxPeers
Fds == 0 .. MaxFd
Loops == 0 .. MaxThreads
acceptSocket_ == 0
none == -1
NoConn == [state_ |-> "none", fd |-> none, loop |-> 0]

\* The kernel gives the lowest descriptor that is free.
NewFd(used) == IF Fds \subseteq used THEN none ELSE Min(Fds \ used)

Init ==
    /\ started_ = FALSE /\ numThreads_ = 0 /\ loops_ = <<>>
    /\ next_ = 0 /\ nextConnId_ = 1
    /\ connections_ = {} /\ conn = [c \in Conns |-> NoConn]
    /\ channels_ = [l \in Loops |-> [fd \in Fds |-> 0]]
    /\ functors = [l \in Loops |-> <<>>]
    /\ open = {acceptSocket_, 1} /\ idleFd_ = 1
    /\ accepting = "idle" /\ backlog = 0 /\ peers = 0
    /\ other = none /\ stolen = FALSE

(***************************************************************************)
(* One connection, in its loop.                                            *)
(***************************************************************************)
\* ConnectEstablished: the channel is enabled, which UpdateChannel adds to the table.
ConnectEstablished(c, k) ==
    /\ conn' = [conn EXCEPT ![c] = [k EXCEPT !.state_ = "kConnected"]]
    /\ channels_' = [channels_ EXCEPT ![k.loop][k.fd] = c]

\* Mutant: the channel is left in the table.
ConnectDestroyedKeeps(c) ==
    /\ channels_' = channels_
    /\ conn' = [conn EXCEPT ![c].state_ = "freed"]
    /\ open' = open \ {conn[c].fd}

\* ConnectDestroyed removes the channel; then the last reference to the connection,
\* which is in the functor, ends and its Socket closes the descriptor.
ConnectDestroyed(c) ==
    /\ channels_' = [channels_ EXCEPT ![conn[c].loop][conn[c].fd] = 0]
    /\ conn' = [conn EXCEPT ![c].state_ = "freed"]
    /\ open' = open \ {conn[c].fd}

RemoveConnectionInLoop(c, queues) ==
    /\ connections_' = connections_ \ {c}
    /\ functors' = [queues EXCEPT ![conn[c].loop] = Append(@, <<"connectDestroyed", c>>)]

\* Mutant: a connection of another loop is not passed on.
RemoveConnectionHere(c) ==
    IF conn[c].loop = 0
    THEN RemoveConnectionInLoop(c, functors)
    ELSE UNCHANGED <<functors, connections_>>

\* RemoveConnection, called in the connection's loop.
RemoveConnection(c) ==
    IF conn[c].loop = 0
    THEN RemoveConnectionInLoop(c, functors)
    ELSE /\ functors' = [functors EXCEPT ![0] = Append(@, <<"removeConnection", c>>)]
         /\ UNCHANGED connections_

\* HandleClose of a connection whose channel is enabled: it is disabled, and stays in
\* the table; the close callback is RemoveConnection.
HandleClose(c) ==
    /\ conn[c].state_ = "kConnected"
    /\ conn[c].loop = 0 => accepting \in {"idle", "readable"}
    /\ conn' = [conn EXCEPT ![c].state_ = "kDisconnected"]
    /\ RemoveConnection(c)
    /\ UNCHANGED <<poolVars, channels_, open, other, acceptorVars>>

RunFunctor(l) ==
    /\ functors[l] # <<>>
    /\ l = 0 => accepting = "idle"
    /\ LET c == Head(functors[l])[2]
           rest == [functors EXCEPT ![l] = Tail(@)]
       IN  \/ /\ Head(functors[l])[1] = "connectEstablished"
              /\ ConnectEstablished(c, conn[c])
              /\ functors' = rest /\ UNCHANGED <<connections_, open>>
           \/ /\ Head(functors[l])[1] = "removeConnection"
              /\ RemoveConnectionInLoop(c, rest)
              /\ UNCHANGED <<conn, channels_, open>>
           \/ /\ Head(functors[l])[1] = "connectDestroyed"
              /\ ConnectDestroyed(c)
              /\ functors' = rest /\ UNCHANGED connections_
    /\ UNCHANGED <<poolVars, other, acceptorVars>>

(***************************************************************************)
(* The acceptor, in loop 0.                                                *)
(***************************************************************************)
\* SetThreadNum, "must be called before start".
SetThreadNum(n) ==
    /\ ~started_
    /\ numThreads_' = n
    /\ UNCHANGED <<started_, loops_, next_, nextConnId_, connVars, open, other, acceptorVars>>

\* The pool's start: one loop for each thread.
StartPool == loops_' = [i \in 1 .. numThreads_ |-> i]

\* Start, in the loop's thread, with Listen; calls after the first do nothing.
Start ==
    /\ ~started_
    /\ started_' = TRUE
    /\ StartPool
    /\ UNCHANGED <<numThreads_, next_, nextConnId_, connVars, open, other, acceptorVars>>

PeerConnects ==
    /\ started_ /\ peers < MaxPeers
    /\ peers' = peers + 1 /\ backlog' = backlog + 1
    /\ UNCHANGED <<poolVars, connVars, open, other, idleFd_, accepting, stolen>>

PeerAborts ==
    /\ backlog > 0
    /\ backlog' = backlog - 1
    /\ UNCHANGED <<poolVars, connVars, open, other, idleFd_, accepting, stolen, peers>>

\* The poll reports the listening socket.
PollReadable ==
    /\ accepting = "idle" /\ backlog > 0
    /\ accepting' = "readable"
    /\ UNCHANGED <<poolVars, connVars, open, other, idleFd_, backlog, peers, stolen>>

\* Mutant: next_ is not advanced.
GetNextLoopSame == IF loops_ = <<>> THEN <<0, next_>> ELSE <<loops_[next_ + 1], next_>>

\* GetNextLoop: the loop, and next_ after it (next_ counts from 0).
GetNextLoop ==
    IF loops_ = <<>> THEN <<0, next_>>
    ELSE <<loops_[next_ + 1], IF next_ + 1 >= Len(loops_) THEN 0 ELSE next_ + 1>>

\* NewConnection, whose ConnectEstablished runs at once in loop 0.
NewConnection(fd) ==
    LET c == nextConnId_
        l == GetNextLoop[1]
        k == [state_ |-> "kConnecting", fd |-> fd, loop |-> l]
    IN  /\ next_' = GetNextLoop[2] /\ nextConnId_' = nextConnId_ + 1
        /\ connections_' = connections_ \cup {c}
        /\ \/ l = 0 /\ ConnectEstablished(c, k) /\ UNCHANGED functors
           \/ l # 0 /\ conn' = [conn EXCEPT ![c] = k] /\ UNCHANGED channels_
                    /\ functors' = [functors EXCEPT ![l] = Append(@, <<"connectEstablished", c>>)]

\* accept4 returns a connection.
HandleRead ==
    /\ accepting = "readable" /\ backlog > 0 /\ NewFd(open) # none
    /\ accepting' = "idle" /\ backlog' = backlog - 1
    /\ open' = open \cup {NewFd(open)}
    /\ NewConnection(NewFd(open))
    /\ UNCHANGED <<started_, numThreads_, loops_, other, idleFd_, peers, stolen>>

\* Sockets::accept fails in a way that is expected: the peer is gone again (EAGAIN,
\* ECONNABORTED), or there is no descriptor (EMFILE) and the LOG_SYSERR of HandleRead
\* changes errno.
HandleReadFails ==
    /\ accepting = "readable"
    /\ backlog = 0 \/ NewFd(open) = none
    /\ accepting' = "idle"
    /\ UNCHANGED <<poolVars, connVars, open, other, idleFd_, backlog, peers, stolen>>

\* Mutant: EMFILE is ignored.
HandleReadEmfileIgnored ==
    /\ accepting = "readable" /\ NewFd(open) = none
    /\ accepting' = "idle"
    /\ UNCHANGED <<poolVars, connVars, open, other, idleFd_, backlog, peers, stolen>>

\* EMFILE: close(idleFd_) ...
HandleReadEmfile ==
    /\ accepting = "readable" /\ NewFd(open) = none
    /\ accepting' = "accept"
    /\ open' = open \ {idleFd_}
    /\ UNCHANGED <<poolVars, connVars, other, idleFd_, backlog, peers, stolen>>

\* ... idleFd_ = accept() ...
AcceptSpare ==
    /\ accepting = "accept"
    /\ accepting' = "close"
    /\ IF backlog > 0 /\ NewFd(open) # none
       THEN idleFd_' = NewFd(open) /\ open' = open \cup {NewFd(open)} /\ backlog' = backlog - 1
       ELSE idleFd_' = none /\ UNCHANGED <<open, backlog>>
    /\ UNCHANGED <<poolVars, connVars, other, peers, stolen>>

\* Mutant: the peer that is turned away is not closed.
CloseSpareNot ==
    /\ accepting = "close"
    /\ accepting' = "open"
    /\ UNCHANGED <<poolVars, connVars, open, other, idleFd_, backlog, peers, stolen>>

\* ... close(idleFd_) ...
CloseSpare ==
    /\ accepting = "close"
    /\ accepting' = "open"
    /\ open' = open \ {idleFd_}
    /\ UNCHANGED <<poolVars, connVars, other, idleFd_, backlog, peers, stolen>>

\* ... and idleFd_ = open("/dev/null").
OpenSpare ==
    /\ accepting = "open"
    /\ accepting' = "idle"
    /\ idleFd_' = NewFd(open)
    /\ open' = (open \cup {NewFd(open)}) \ {none}
    /\ UNCHANGED <<poolVars, connVars, other, backlog, peers, stolen>>

AcceptorStep ==
    \/ PollReadable \/ HandleRead \/ HandleReadFails \/ HandleReadEmfile
    \/ AcceptSpare \/ CloseSpare \/ OpenSpare

\* Another part of the process opens or closes a descriptor.
Other ==
    /\ \/ other = none /\ NewFd(open) # none
          /\ other' = NewFd(open) /\ open' = open \cup {NewFd(open)}
          /\ stolen' = (stolen \/ accepting \in {"accept", "close", "open"})
       \/ other # none /\ other' = none /\ open' = open \ {other} /\ UNCHANGED stolen
    /\ UNCHANGED <<poolVars, connVars, idleFd_, accepting, backlog, peers>>

Next ==
    \/ Start \/ PeerConnects \/ PeerAborts \/ AcceptorStep \/ Other
    \/ \E n \in Loops : SetThreadNum(n)
    \/ \E l \in Loops : RunFunctor(l)
    \/ \E c \in Conns : HandleClose(c)

Spec == Init /\ [][Next]_vars

\* The loops go on, and logging does not overwrite errno every time.
Fairness ==
    /\ WF_vars(AcceptorStep) /\ SF_vars(HandleReadEmfile)
    /\ SF_vars(RunFunctor(0)) /\ \A l \in Loops \ {0} : WF_vars(RunFunctor(l))

FairSpec == Spec /\ Fairness
-----------------------------------------------------------------------------
\* Every variable is of its type.
TypeOK ==
    /\ started_ \in BOOLEAN /\ stolen \in BOOLEAN
    /\ numThreads_ \in Loops /\ loops_ \in Seq(Loops) /\ nextConnId_ \in 1 .. MaxPeers + 1
    /\ next_ \in 0 .. IF loops_ = <<>> THEN 0 ELSE Len(loops_) - 1
    /\ connections_ \subseteq Conns /\ open \subseteq Fds
    /\ conn \in [Conns -> [state_ : {"none", "kConnecting", "kConnected", "kDisconnected", "freed"},
                           fd : Fds \cup {none}, loop : Loops]]
    /\ channels_ \in [Loops -> [Fds -> 0 .. MaxPeers]]
    /\ functors \in [Loops -> Seq({"connectEstablished", "removeConnection", "connectDestroyed"}
                                  \X Conns)]
    /\ {idleFd_, other} \subseteq Fds \cup {none}
    /\ backlog \in 0 .. MaxPeers /\ peers \in 0 .. MaxPeers
    /\ accepting \in {"idle", "readable", "accept", "close", "open"}

Alive == {c \in Conns : conn[c].state_ \notin {"none", "freed"}}

\* The descriptors in use each have one owner: the listening socket, a connection, the
\* spare one while HandleRead has not closed it, or the other part.  None leaks, none is
\* closed by one owner and used by another.
DescriptorsOwned ==
    LET spare == IF accepting \in {"accept", "open"} THEN {} ELSE {idleFd_} \ {none}
        owned == {acceptSocket_} \cup {conn[c].fd : c \in Alive} \cup spare \cup ({other} \ {none})
    IN  /\ open = owned
        /\ Cardinality(owned) = 1 + Cardinality(Alive) + Cardinality(spare) + Cardinality({other} \ {none})

\* Epoll's asserts on channels_, across reuse of a descriptor: the table of a loop has
\* exactly the connections that are established and not destroyed, under their
\* descriptors, which are open.
EpollAsserts ==
    \A l \in Loops : \A fd \in Fds :
        {c \in Conns : conn[c].loop = l /\ conn[c].fd = fd
                       /\ conn[c].state_ \in {"kConnected", "kDisconnected"}}
            = {channels_[l][fd]} \ {0}

\* "assert(n == 1)" of RemoveConnectionInLoop: a connection that can still be closed is in
\* the map, and so is one that is on its way to it, which it is once.
RemoveAssert ==
    LET removals == {i \in DOMAIN functors[0] : functors[0][i][1] = "removeConnection"}
    IN  /\ \A i, j \in removals : functors[0][i] = functors[0][j] => i = j
        /\ \A i \in removals : functors[0][i][2] \in connections_
        /\ \A c \in Conns : conn[c].state_ \in {"kConnecting", "kConnected"} => c \in connections_

\* A connection that is in the map, or still has a functor, is alive; and one that is
\* alive is in the map or on its way to its end.
MapAgrees ==
    \A c \in Conns : c \in Alive <=>
        \/ c \in connections_
        \/ \E l \in Loops : <<"connectDestroyed", c>> \in Range(functors[l])

\* The server's map, the loops' tables of channels and the connections that are alive
\* agree, so that the asserts of TcpServer and Epoll hold.
TablesAgree == EpollAsserts /\ RemoveAssert /\ MapAgrees

\* Round robin: the numbers of connections given to two loops of the pool differ by at
\* most one, "new connections are assigned on a round-robin basis".
RoundRobin ==
    LET given(l) == Cardinality({c \in Conns : conn[c].state_ # "none" /\ conn[c].loop = l})
    IN  \A k, l \in Range(loops_) : given(k) <= given(l) + 1

\* The acceptor has its spare descriptor whenever it may need it, unless another part of
\* the process took it in the short time for which it was closed.
SpareKept == accepting \in {"idle", "readable"} /\ idleFd_ = none => stolen

\* Descriptors are accounted for across accept, close, reuse and the limit: each has one
\* owner, and the acceptor keeps its spare one.
DescriptorsAccounted == TypeOK /\ DescriptorsOwned /\ SpareKept

\* No peer waits for ever: it is accepted, or turned away when descriptors have run out,
\* even if no connection is ever closed, as long as the spare descriptor is kept.
BacklogDrains == []<>(backlog = 0 \/ stolen)

\* A connection that is closed is destroyed and its descriptor freed.
ClosedIsFreed == \A c \in Conns : conn[c].state_ = "kDisconnected" ~> conn[c].state_ = "freed"
=============================================================================
