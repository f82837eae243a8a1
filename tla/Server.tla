-------------------------------- MODULE Server --------------------------------
(***************************************************************************)
(* The life of connections between the loop that accepts them and the      *)
(* loop that serves them: Acceptor, Server, EventLoopThreadPool and the    *)
(* state, channel and ownership of each Connection.                        *)
(*                                                                         *)
(* A loop is what EventLoop promises: epoll_wait, then the handlers of the *)
(* active channels, then the functors queued so far, in order. One handler *)
(* or functor is one step, except where it calls into another loop's       *)
(* queue, which comes last in each of them. What is sent and received is   *)
(* left to ConnectionOutput; here a read yields data or the end of the     *)
(* stream.                                                                 *)
(*                                                                         *)
(* A ConnectionPtr is a std::shared_ptr: a Connection is destroyed, and    *)
(* its descriptor closed, when the last reference goes. References are     *)
(* read off the state: the connections_ table, the functors queued or in a *)
(* running batch (the batch vector keeps its functors to the end), and the *)
(* pointers the application keeps.                                         *)
(***************************************************************************)
EXTENDS Naturals, Sequences, FiniteSets

CONSTANTS Conns,      \* the Connection objects, one per accepted client
          Fds,        \* the descriptors the process may use for them
          BaseLoop,   \* the acceptor's loop: Server::loop_
          IoLoops,    \* the loops of the I/O threads, in order of creation
          PoolSizes,  \* the thread numbers start() may be given
          None        \* an empty slot of connections_

ASSUME FdsAssumption == Fds \subseteq Nat
ASSUME PoolAssumption == /\ IoLoops \in Seq({IoLoops[i] : i \in DOMAIN IoLoops})
                         /\ PoolSizes \subseteq 0 .. Len(IoLoops)
                         /\ \A i \in DOMAIN IoLoops : IoLoops[i] # BaseLoop
ASSUME NoneAssumption == None \notin Conns

VARIABLES conn,          \* the Connection objects and their Channels
          connections_,  \* Server: descriptor -> ConnectionPtr
          pool,          \* EventLoopThreadPool: loops_ and next_
          pending,       \* each loop's pendingFunctors_
          loop,          \* each loop's thread
          peerClosed,    \* connections whose client has closed or reset
          held           \* connections the application keeps a pointer to

vars == <<conn, connections_, pool, pending, loop, peerClosed, held>>

Elems(s) == {s[i] : i \in DOMAIN s}
Loops == {BaseLoop} \union Elems(IoLoops)
StatE == {"kConnecting", "kConnected", "kDisconnecting", "kDisconnected"}
Open == {"kConnecting", "kConnected", "kDisconnecting"}

Functor == [op : {"connectEstablished", "removeConnectionInLoop",
                  "connectDestroyed", "forceCloseInLoop"}, c : Conns]
Listen == "listen"   \* the acceptor's channel among the active ones
Connection == [state : StatE \union {"none"}, fd : Fds \union {0},
               loop : Loops, events : SUBSET {"IN"}, inEpoll : BOOLEAN,
               tied : BOOLEAN, ups : Nat, downs : Nat, ended : Nat]
LoopThread == [pc : {"poll", "dispatch", "run"},
               active : SUBSET (Conns \union {Listen}),
               batch : Seq(Functor), at : Nat \ {0}]

ASSUME ListenAssumption == Listen \notin Conns

TypeOK == /\ conn \in [Conns -> Connection]
          /\ connections_ \in [Fds -> Conns \union {None}]
          /\ pool \in [loops : Seq(Loops), next : Nat]
          /\ pool.loops # <<>> => pool.next < Len(pool.loops)
          /\ pending \in [Loops -> Seq(Functor)]
          /\ loop \in [Loops -> LoopThread]
          /\ peerClosed \subseteq Conns
          /\ held \subseteq Conns

Init == /\ conn = [c \in Conns |->
                     [state |-> "none", fd |-> 0, loop |-> BaseLoop,
                      events |-> {}, inEpoll |-> FALSE, tied |-> FALSE,
                      ups |-> 0, downs |-> 0, ended |-> 0]]
        /\ connections_ = [fd \in Fds |-> None]
        /\ \E n \in PoolSizes :
             pool = [loops |-> SubSeq(IoLoops, 1, n), next |-> 0]
        /\ pending = [l \in Loops |-> <<>>]
        /\ loop = [l \in Loops |-> [pc |-> "poll", active |-> {},
                                    batch |-> <<>>, at |-> 1]]
        /\ peerClosed = {}
        /\ held = {}

-----------------------------------------------------------------------------
(* Ownership and descriptors.                                              *)

(* The functor made by forceClose() captures a plain this.                 *)
Owns(f, c) == f.c = c /\ f.op # "forceCloseInLoop"

Referenced(c) == \/ \E fd \in Fds : connections_[fd] = c
                 \/ \E l \in Loops :
                      \E f \in Elems(pending[l]) \union Elems(loop[l].batch) :
                        Owns(f, c)
                 \/ c \in held

Alive(c) == conn[c].state # "none" /\ Referenced(c)
Destroyed(c) == conn[c].state # "none" /\ ~Referenced(c)

(* Variant for testing the properties: the descriptor is closed by         *)
(* handleClose() and not by ~Socket().                                     *)
FreeFdsAfterClose ==
  Fds \ {conn[c].fd : c \in {d \in Conns : conn[d].state \in Open}}

(* ~Connection, ~Socket: a descriptor is in use as long as its Connection. *)
FreeFds == Fds \ {conn[c].fd : c \in {d \in Conns : Alive(d)}}

-----------------------------------------------------------------------------
(* Channel and Epoll, on the record r of a Connection.                     *)

UpdateChannel(r) ==
  [r EXCEPT !.inEpoll = ~(r.inEpoll /\ r.events = {})]

DisableAll(r) == UpdateChannel([r EXCEPT !.events = {}])
EnableReading(r) == UpdateChannel([r EXCEPT !.events = {"IN"}])
Remove(r) == [r EXCEPT !.inEpoll = FALSE]

Enqueue(l, op, c) ==
  pending' = [pending EXCEPT ![l] = Append(@, [op |-> op, c |-> c])]

-----------------------------------------------------------------------------
(* Server                                                                  *)

GetNextLoop ==
  IF pool.loops = <<>> THEN BaseLoop ELSE pool.loops[pool.next + 1]

AdvanceNext ==
  pool' = IF pool.loops = <<>> THEN pool
          ELSE [pool EXCEPT !.next = @ % Len(pool.loops)]

ConnectEstablished(r) == EnableReading([r EXCEPT !.state = "kConnected",
                                                 !.tied = TRUE,
                                                 !.ups = @ + 1])

(* What handleClose() and connectDestroyed() do to state_ and channel_,    *)
(* with the connectionCallback_ that announces it.                         *)
Close(r) == DisableAll([r EXCEPT !.state = "kDisconnected", !.downs = @ + 1])

(* The new Connection c with descriptor fd on loop l.                      *)
NewConn(c, fd, l) == [conn[c] EXCEPT !.state = "kConnecting", !.fd = fd,
                                     !.loop = l]

(* Variant: the server's table does not keep the new connection.           *)
NewConnectionNotKept(c, fd) ==
  /\ UNCHANGED connections_
  /\ AdvanceNext
  /\ conn' = [conn EXCEPT ![c] = NewConn(c, fd, GetNextLoop)]
  /\ Enqueue(GetNextLoop, "connectEstablished", c)

NewConnection(c, fd) ==
  /\ connections_' = [connections_ EXCEPT ![fd] = c]
  /\ AdvanceNext
  /\ IF GetNextLoop = BaseLoop
     THEN /\ conn' = [conn EXCEPT ![c] =
                        ConnectEstablished(NewConn(c, fd, BaseLoop))]
          /\ UNCHANGED pending
     ELSE /\ conn' = [conn EXCEPT ![c] = NewConn(c, fd, GetNextLoop)]
          /\ Enqueue(GetNextLoop, "connectEstablished", c)

(* Variant: connectDestroyed() is not queued.                              *)
RemoveConnectionInLoopForgotten(c) ==
  /\ connections_' = [connections_ EXCEPT ![conn[c].fd] = None]
  /\ UNCHANGED pending

(* Variant: connectDestroyed() is queued in the acceptor's loop.           *)
RemoveConnectionInLoopAtHome(c) ==
  /\ connections_' = [connections_ EXCEPT ![conn[c].fd] = None]
  /\ Enqueue(BaseLoop, "connectDestroyed", c)

(* Variant: the entry stays in the table.                                  *)
RemoveConnectionInLoopNoErase(c) ==
  /\ UNCHANGED connections_
  /\ Enqueue(conn[c].loop, "connectDestroyed", c)

RemoveConnectionInLoop(c) ==
  /\ connections_' = [connections_ EXCEPT ![conn[c].fd] = None]
  /\ Enqueue(conn[c].loop, "connectDestroyed", c)

(* Variant: on the acceptor's loop the functor runs and is queued too.     *)
RemoveConnectionTwice(l, c) ==
  IF l = BaseLoop
  THEN /\ connections_' = [connections_ EXCEPT ![conn[c].fd] = None]
       /\ pending' = [pending EXCEPT ![l] =
                         @ \o <<[op |-> "connectDestroyed", c |-> c],
                                [op |-> "removeConnectionInLoop", c |-> c]>>]
  ELSE Enqueue(BaseLoop, "removeConnectionInLoop", c) /\ UNCHANGED connections_

RemoveConnection(l, c) ==
  IF l = BaseLoop
  THEN RemoveConnectionInLoop(c)
  ELSE Enqueue(BaseLoop, "removeConnectionInLoop", c) /\ UNCHANGED connections_

-----------------------------------------------------------------------------
(* Connection, called on the thread of loop l.                             *)

HandleClose(l, c) ==
  /\ conn' = [conn EXCEPT ![c] = Close(@)]
  /\ RemoveConnection(l, c)

(* History: ended counts the calls.                                        *)
End(r) == [r EXCEPT !.ended = @ + 1]

ConnectDestroyed(c) ==
  conn' = [conn EXCEPT ![c] =
             End(Remove(IF @.state = "kConnected" THEN Close(@) ELSE @))]

(* Variant: shutdown() does not test the state.                            *)
ShutdownUntested(c) ==
  /\ conn' = [conn EXCEPT ![c].state = "kDisconnecting"]
  /\ UNCHANGED pending

(* Half-closing the socket is ConnectionOutput's.                          *)
Shutdown(c) ==
  /\ conn[c].state = "kConnected"
  /\ conn' = [conn EXCEPT ![c].state = "kDisconnecting"]
  /\ UNCHANGED pending

(* Variant: forceClose() does not test the state.                          *)
ForceCloseUntested(c) == /\ Enqueue(conn[c].loop, "forceCloseInLoop", c)
                         /\ UNCHANGED conn

ForceClose(c) ==
  /\ conn[c].state \in {"kConnected", "kDisconnecting"}
  /\ conn' = [conn EXCEPT ![c].state = "kDisconnecting"]
  /\ Enqueue(conn[c].loop, "forceCloseInLoop", c)

(* Variant: the state is not tested again when the functor runs.           *)
ForceCloseInLoopUntested(l, c) == HandleClose(l, c)

ForceCloseInLoop(l, c) ==
  IF conn[c].state \in {"kConnected", "kDisconnecting"}
  THEN HandleClose(l, c)
  ELSE UNCHANGED <<conn, connections_, pending>>

(* messageCallback_: the application may close its own connection or one   *)
(* it keeps a pointer to, on the same loop.                                *)
MessageCallback(l, c) ==
  /\ \/ UNCHANGED <<conn, pending>>
     \/ \E d \in {c} \union held :
          conn[d].loop = l /\ (Shutdown(d) \/ ForceClose(d))
  /\ UNCHANGED connections_

(* A read that finds data (or EAGAIN), or the end of the stream. Data that *)
(* arrived before the client's close is read before the close is modelled. *)
HandleRead(l, c) == \/ c \notin peerClosed /\ MessageCallback(l, c)
                    \/ c \in peerClosed /\ HandleClose(l, c)

(* Channel::handleEvent(): a tied channel of a destroyed Connection is     *)
(* skipped; without interest in reading only a hang-up is reported.        *)
HandleEvent(l, c) ==
  IF conn[c].tied /\ ~Alive(c)
  THEN UNCHANGED <<conn, connections_, pending>>
  ELSE IF "IN" \in conn[c].events THEN HandleRead(l, c) ELSE HandleClose(l, c)

-----------------------------------------------------------------------------
(* The loops.                                                              *)

Served(l) == {c \in Conns : conn[c].loop = l /\ Alive(c) /\ conn[c].inEpoll}

(* epoll_wait: a channel whose client closed is reported, one with data    *)
(* may be. With functors queued the wakeup makes it return in any case.    *)
(* Clients come as long as Conns has objects for them and a descriptor is  *)
(* left: without one accept() fails and the process exits (perror_if).     *)
Poll(l) ==
  /\ loop[l].pc = "poll"
  /\ \E data \in SUBSET Served(l), client \in SUBSET {Listen} :
       LET active == (Served(l) \intersect peerClosed) \union data
                       \union (IF l = BaseLoop THEN client ELSE {})
       IN /\ client # {} => /\ \E c \in Conns : conn[c].state = "none"
                            /\ FreeFds # {}
          /\ active # {} \/ pending[l] # <<>>
          /\ loop' = [loop EXCEPT ![l].pc = "dispatch", ![l].active = active]
  /\ UNCHANGED <<conn, connections_, pool, pending, peerClosed, held>>

(* Acceptor::handleRead(): the kernel gives the lowest free descriptor.    *)
Accept ==
  /\ loop[BaseLoop].pc = "dispatch"
  /\ Listen \in loop[BaseLoop].active
  /\ \E c \in Conns, fd \in FreeFds :
       /\ conn[c].state = "none"
       /\ \A g \in FreeFds : fd <= g
       /\ NewConnection(c, fd)
  /\ loop' = [loop EXCEPT ![BaseLoop].active = @ \ {Listen}]
  /\ UNCHANGED <<peerClosed, held>>

Dispatch(l, c) ==
  /\ loop[l].pc = "dispatch"
  /\ c \in loop[l].active
  /\ HandleEvent(l, c)
  /\ loop' = [loop EXCEPT ![l].active = @ \ {c}]
  /\ UNCHANGED <<pool, peerClosed, held>>

BeginPending(l) ==
  /\ loop[l].pc = "dispatch"
  /\ loop[l].active = {}
  /\ loop' = [loop EXCEPT ![l].pc = "run", ![l].batch = pending[l]]
  /\ pending' = [pending EXCEPT ![l] = <<>>]
  /\ UNCHANGED <<conn, connections_, pool, peerClosed, held>>

Run(l, f) ==
  CASE f.op = "connectEstablished" ->
         /\ conn' = [conn EXCEPT ![f.c] = ConnectEstablished(@)]
         /\ UNCHANGED <<connections_, pending>>
    [] f.op = "removeConnectionInLoop" ->
         RemoveConnectionInLoop(f.c) /\ UNCHANGED conn
    [] f.op = "connectDestroyed" ->
         ConnectDestroyed(f.c) /\ UNCHANGED <<connections_, pending>>
    [] f.op = "forceCloseInLoop" -> ForceCloseInLoop(l, f.c)

RunFunctor(l) ==
  /\ loop[l].pc = "run"
  /\ loop[l].at <= Len(loop[l].batch)
  /\ Run(l, loop[l].batch[loop[l].at])
  /\ loop' = [loop EXCEPT ![l].at = @ + 1]
  /\ UNCHANGED <<pool, peerClosed, held>>

(* The batch vector and the pointers its functors captured go.             *)
EndPending(l) ==
  /\ loop[l].pc = "run"
  /\ loop[l].at > Len(loop[l].batch)
  /\ loop' = [loop EXCEPT ![l].pc = "poll", ![l].batch = <<>>, ![l].at = 1]
  /\ UNCHANGED <<conn, connections_, pool, pending, peerClosed, held>>

-----------------------------------------------------------------------------
(* The clients and the application.                                        *)
PeerClose(c) ==
  /\ Alive(c) /\ c \notin peerClosed
  /\ peerClosed' = peerClosed \union {c}
  /\ UNCHANGED <<conn, connections_, pool, pending, loop, held>>

(* The application copies the pointer it gets in connectionCallback_ and   *)
(* drops the copy whenever it likes, on any thread.                        *)
Hold(c) ==
  /\ conn[c].state = "kConnected" /\ c \notin held
  /\ held' = held \union {c}
  /\ UNCHANGED <<conn, connections_, pool, pending, loop, peerClosed>>

Release(c) ==
  /\ c \in held
  /\ held' = held \ {c}
  /\ UNCHANGED <<conn, connections_, pool, pending, loop, peerClosed>>

-----------------------------------------------------------------------------
LoopStep(l) == \/ \E c \in Conns : Dispatch(l, c)
               \/ l = BaseLoop /\ Accept
               \/ BeginPending(l) \/ RunFunctor(l) \/ EndPending(l)

Next == \/ \E l \in Loops : Poll(l) \/ LoopStep(l)
        \/ \E c \in Conns : PeerClose(c) \/ Hold(c) \/ Release(c)

Spec == Init /\ [][Next]_vars

(* A loop with a closed client or a queued functor to attend to leaves     *)
(* epoll_wait (EventLoop's NoLostWakeup), a loop that left it takes its    *)
(* next step, and the application drops the pointers of closed connections.*)
MustPoll(l) == Served(l) \intersect peerClosed # {} \/ pending[l] # <<>>

Fairness ==
  /\ \A l \in Loops : WF_vars(LoopStep(l)) /\ WF_vars(MustPoll(l) /\ Poll(l))
  /\ \A c \in Conns : WF_vars(conn[c].state = "kDisconnected" /\ Release(c))

FairSpec == Spec /\ Fairness
-----------------------------------------------------------------------------
(***************************************************************************)
(* Properties.                                                             *)
(***************************************************************************)

(* The table and the open connections agree, also when descriptors are     *)
(* reused: an open connection is registered under its descriptor until it  *)
(* closes, every entry is a live connection with that descriptor, so that  *)
(* connections_[sockfd] = conn never overwrites an entry and erase(fd)     *)
(* never removes another connection's (Server.cpp:111, :139).              *)
TableMatches ==
  /\ \A c \in Conns : conn[c].state \in Open => connections_[conn[c].fd] = c
  /\ \A fd \in Fds : connections_[fd] # None
                       => /\ conn[connections_[fd]].fd = fd
                          /\ Alive(connections_[fd])

(* epoll_event.data.ptr and activeChannel hold plain pointers: whenever a  *)
(* loop is about to handle an active channel, its Connection still exists  *)
(* and belongs to that loop.                                               *)
NoDanglingChannel ==
  \A l \in Loops : \A c \in loop[l].active \ {Listen} :
    Alive(c) /\ conn[c].loop = l

(* A connection is announced once when it comes and once when it goes:     *)
(* neither handleClose() nor connectDestroyed() ever closes it a second    *)
(* time, which would fail the assertion at Connection.cpp:191 (the comment *)
(* at :183 suspects that it happens).                                      *)
ClosedOnce == \A c \in Conns : conn[c].downs <= conn[c].ups /\ conn[c].ups <= 1

(* ~Connection finds an orderly end, whichever thread drops the last       *)
(* reference: the close was announced, the channel is out of epoll, and    *)
(* connectDestroyed() has run, once, which removeConnection() hands from   *)
(* loop to loop twice (Server.cpp:127-143).                                *)
DestroyedAfterClose ==
  \A c \in Conns : Destroyed(c) => /\ conn[c].state = "kDisconnected"
                                   /\ conn[c].downs = 1
                                   /\ ~conn[c].inEpoll
                                   /\ conn[c].ended = 1

(* The functor forceClose() queues captures this and takes shared_from_this*)
(* only when it runs: the Connection must still exist then.                *)
Todo(l) == {loop[l].batch[i] : i \in loop[l].at .. Len(loop[l].batch)}
ForceCloseAlive ==
  \A l \in Loops : \A f \in Elems(pending[l]) \union Todo(l) :
    f.op = "forceCloseInLoop" => Alive(f.c)

(* What these rest on. A loop has active channels while it dispatches and  *)
(* a batch while it runs functors, and active channels belong to open      *)
(* connections of that loop.                                               *)
LoopsInv ==
  \A l \in Loops :
    /\ loop[l].pc # "dispatch" => loop[l].active = {}
    /\ loop[l].pc # "run" => loop[l].batch = <<>>
    /\ loop[l].at <= Len(loop[l].batch) + 1
    /\ \A c \in loop[l].active \ {Listen} :
         /\ conn[c].loop = l
         /\ conn[c].state \in {"kConnected", "kDisconnecting"}

(* state_, the channel and the announcements go together.                  *)
PhaseInv ==
  \A c \in Conns :
    /\ conn[c].state # "none" => conn[c].fd \in Fds
    /\ conn[c].inEpoll <=> conn[c].state \in {"kConnected", "kDisconnecting"}
    /\ conn[c].ups = IF conn[c].state \in {"none", "kConnecting"} THEN 0 ELSE 1
    /\ conn[c].downs = IF conn[c].state = "kDisconnected" THEN 1 ELSE 0

(* The functors of a loop that have not begun, and that one of them is     *)
(* there only once.                                                        *)
Waiting(l) == Elems(pending[l]) \union Todo(l)

Once(l, f) ==
  /\ \A i, j \in DOMAIN pending[l] :
       pending[l][i] = f /\ pending[l][j] = f => i = j
  /\ \A i, j \in loop[l].at .. Len(loop[l].batch) :
       loop[l].batch[i] = f /\ loop[l].batch[j] = f => i = j
  /\ f \notin Todo(l) \intersect Elems(pending[l])

(* A functor waits on its connection's loop, or on the acceptor's for the  *)
(* removal from the table; the connection has the state that the functor   *)
(* is for, and one that may not run twice is not there twice.              *)
FunctorsInv ==
  \A l \in Loops : \A f \in Waiting(l) :
    /\ conn[f.c].state # "none"
    /\ f.op # "removeConnectionInLoop" => conn[f.c].loop = l
    /\ f.op = "connectEstablished" => /\ conn[f.c].state = "kConnecting"
                                      /\ Once(l, f)
    /\ f.op = "removeConnectionInLoop" =>
         /\ l = BaseLoop
         /\ conn[f.c].state = "kDisconnected"
         /\ connections_[conn[f.c].fd] = f.c
         /\ Once(l, f)
    /\ f.op = "connectDestroyed" => conn[f.c].state = "kDisconnected"

(* A functor of forceClose() waits only while the table has its connection *)
(* or connectDestroyed() is queued for it, not in an earlier batch.        *)
KeptInv ==
  \A l \in Loops, c \in Conns :
    LET force == [op |-> "forceCloseInLoop", c |-> c]
        destroy == [op |-> "connectDestroyed", c |-> c]
    IN force \in Waiting(l) =>
         \/ connections_[conn[c].fd] = c
         \/ destroy \in Elems(pending[l])
         \/ /\ destroy \in Elems(loop[l].batch)
            /\ force \notin Elems(pending[l])

(* connectDestroyed() is still to come for a closed connection, through    *)
(* exactly one of the two functors that lead to it (Server.cpp:127-143),   *)
(* or it has run once (Connection.cpp:70-81), never twice.                 *)
EndedInv ==
  \A c \in Conns :
    LET remove == [op |-> "removeConnectionInLoop", c |-> c]
        destroy == [op |-> "connectDestroyed", c |-> c]
    IN /\ conn[c].state # "kDisconnected" => conn[c].ended = 0
       /\ remove \in Waiting(BaseLoop) => conn[c].ended = 0
       /\ \A l \in Loops :
            destroy \in Waiting(l) => /\ conn[c].ended = 0
                                     /\ remove \notin Waiting(BaseLoop)
                                     /\ Once(l, destroy)
       /\ conn[c].state = "kDisconnected" /\ conn[c].ended # 1 =>
            \/ remove \in Waiting(BaseLoop)
            \/ destroy \in Waiting(conn[c].loop)

ServerInv == /\ TypeOK /\ LoopsInv /\ PhaseInv /\ TableMatches
             /\ FunctorsInv /\ KeptInv

(* state_ only moves forward, from kConnecting to kDisconnected.           *)
Rank(s) == CASE s = "none" -> 0 [] s = "kConnecting" -> 1
             [] s = "kConnected" -> 2 [] s = "kDisconnecting" -> 3
             [] s = "kDisconnected" -> 4
StateForward ==
  [][\A c \in Conns : Rank(conn[c].state) <= Rank(conn'[c].state)]_vars

(* No descriptor leaks: a connection whose client went away is destroyed.  *)
ClosedIsReleased == \A c \in Conns : c \in peerClosed ~> Destroyed(c)
=============================================================================
