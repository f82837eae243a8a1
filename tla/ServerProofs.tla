----------------------------- MODULE ServerProofs -----------------------------
(***************************************************************************)
(* Theorems about Server, for every set of connections and descriptors,    *)
(* every number of I/O loops and every size of the pool.                   *)
(***************************************************************************)
EXTENDS Server, SequenceTheorems, TLAPS

-----------------------------------------------------------------------------
(* The record operators.                                                   *)

(* updateChannel() changes only whether epoll has the channel.             *)
LEMMA UpdateRecord ==
  ASSUME NEW r \in Connection
  PROVE  LET q == UpdateChannel(r)
         IN /\ q \in Connection
            /\ q.state = r.state /\ q.fd = r.fd /\ q.loop = r.loop
            /\ q.ups = r.ups /\ q.downs = r.downs /\ q.ended = r.ended
            /\ q.inEpoll = ~(r.inEpoll /\ r.events = {})
  <1> DEFINE b == ~(r.inEpoll /\ r.events = {})
  <1>1. b \in BOOLEAN
    OBVIOUS
  <1> HIDE DEF b
  <1>2. UpdateChannel(r) = [r EXCEPT !.inEpoll = b]
    BY DEF UpdateChannel, b
  <1>3. /\ UpdateChannel(r) \in Connection
        /\ UpdateChannel(r).state = r.state /\ UpdateChannel(r).fd = r.fd
        /\ UpdateChannel(r).loop = r.loop /\ UpdateChannel(r).ups = r.ups
        /\ UpdateChannel(r).downs = r.downs
        /\ UpdateChannel(r).ended = r.ended
        /\ UpdateChannel(r).inEpoll = b
    BY <1>1, <1>2 DEF Connection
  <1>4. QED
    BY <1>3 DEF b

(* The record of a connection that is closed: announced once more, and out *)
(* of epoll's interest.                                                    *)
LEMMA CloseRecord ==
  ASSUME NEW r \in Connection
  PROVE  LET q == Close(r)
         IN /\ q \in Connection
            /\ q.state = "kDisconnected" /\ q.fd = r.fd /\ q.loop = r.loop
            /\ q.ups = r.ups /\ q.downs = r.downs + 1
            /\ q.ended = r.ended /\ q.inEpoll = ~r.inEpoll
  <1> DEFINE t == [r EXCEPT !.state = "kDisconnected", !.downs = @ + 1]
             u == [t EXCEPT !.events = {}]
  <1>1. /\ u \in Connection
        /\ u.state = "kDisconnected" /\ u.fd = r.fd /\ u.loop = r.loop
        /\ u.ups = r.ups /\ u.downs = r.downs + 1
        /\ u.ended = r.ended /\ u.inEpoll = r.inEpoll /\ u.events = {}
    <2>1. t \in Connection
      <3> DEFINE q == [r EXCEPT !.state = "kDisconnected"]
      <3>1. q \in Connection /\ q.downs \in Nat
        BY DEF Connection, StatE
      <3>2. t = [q EXCEPT !.downs = q.downs + 1]
        BY DEF Connection
      <3> HIDE DEF q, t
      <3>3. QED
        BY <3>1, <3>2 DEF Connection
    <2>2. u \in Connection
      BY <2>1 DEF Connection
    <2>3. /\ t.state = "kDisconnected" /\ t.fd = r.fd /\ t.loop = r.loop
          /\ t.ups = r.ups /\ t.downs = r.downs + 1
          /\ t.ended = r.ended /\ t.inEpoll = r.inEpoll
      BY DEF Connection
    <2>4. /\ u.state = t.state /\ u.fd = t.fd /\ u.loop = t.loop
          /\ u.ups = t.ups /\ u.downs = t.downs
          /\ u.ended = t.ended /\ u.inEpoll = t.inEpoll /\ u.events = {}
      BY <2>1 DEF Connection
    <2>5. QED
      BY <2>2, <2>3, <2>4
  <1>2. Close(r) = UpdateChannel(u)
    BY DEF Close, DisableAll
  <1> HIDE DEF t, u
  <1>3. (~(u.inEpoll /\ u.events = {})) = ~r.inEpoll
    BY <1>1
  <1>4. QED
    BY <1>1, <1>2, <1>3, UpdateRecord

(* The record after connectEstablished().                                  *)
LEMMA EstablishRecord ==
  ASSUME NEW r \in Connection
  PROVE  LET q == ConnectEstablished(r)
         IN /\ q \in Connection
            /\ q.state = "kConnected" /\ q.fd = r.fd /\ q.loop = r.loop
            /\ q.ups = r.ups + 1 /\ q.downs = r.downs
            /\ q.ended = r.ended /\ q.inEpoll = TRUE
  <1> DEFINE t == [r EXCEPT !.state = "kConnected", !.tied = TRUE,
                            !.ups = @ + 1]
             u == [t EXCEPT !.events = {"IN"}]
  <1>1. /\ u \in Connection
        /\ u.state = "kConnected" /\ u.fd = r.fd /\ u.loop = r.loop
        /\ u.ups = r.ups + 1 /\ u.downs = r.downs
        /\ u.ended = r.ended /\ u.events = {"IN"}
    <2>1. t \in Connection
      <3> DEFINE q == [r EXCEPT !.state = "kConnected"]
                 p == [q EXCEPT !.tied = TRUE]
      <3>1. q \in Connection
        BY DEF Connection, StatE
      <3>2. p \in Connection /\ p.ups \in Nat
        BY <3>1 DEF Connection
      <3>3. t = [p EXCEPT !.ups = p.ups + 1]
        BY DEF Connection
      <3> HIDE DEF p, q, t
      <3>4. QED
        BY <3>2, <3>3 DEF Connection
    <2>2. u \in Connection
      BY <2>1 DEF Connection
    <2>3. /\ t.state = "kConnected" /\ t.fd = r.fd /\ t.loop = r.loop
          /\ t.ups = r.ups + 1 /\ t.downs = r.downs
          /\ t.ended = r.ended
      BY DEF Connection
    <2>4. /\ u.state = t.state /\ u.fd = t.fd /\ u.loop = t.loop
          /\ u.ups = t.ups /\ u.downs = t.downs
          /\ u.ended = t.ended /\ u.events = {"IN"}
      BY <2>1 DEF Connection
    <2>5. QED
      BY <2>2, <2>3, <2>4
  <1>2. ConnectEstablished(r) = UpdateChannel(u)
    BY DEF ConnectEstablished, EnableReading
  <1> HIDE DEF t, u
  <1>3. (~(u.inEpoll /\ u.events = {})) = TRUE
    BY <1>1
  <1> DEFINE q == UpdateChannel(u)
  <1>4. /\ q \in Connection
        /\ q.state = u.state /\ q.fd = u.fd /\ q.loop = u.loop
        /\ q.ups = u.ups /\ q.downs = u.downs /\ q.ended = u.ended
        /\ q.inEpoll = ~(u.inEpoll /\ u.events = {})
    BY <1>1, UpdateRecord
  <1>5. q.inEpoll = TRUE
    BY <1>3, <1>4
  <1>6. QED
    BY <1>1, <1>2, <1>4, <1>5

(* del() takes the channel out of epoll and changes nothing else.          *)
LEMMA RemoveRecord ==
  ASSUME NEW r \in Connection
  PROVE  /\ Remove(r) \in Connection
         /\ Remove(r).state = r.state /\ Remove(r).fd = r.fd
         /\ Remove(r).loop = r.loop /\ Remove(r).ups = r.ups
         /\ Remove(r).downs = r.downs /\ Remove(r).inEpoll = FALSE
         /\ Remove(r).ended = r.ended
  BY DEF Remove, Connection

(* The record after connectDestroyed() of a closed connection: one call    *)
(* more.                                                                   *)
LEMMA EndRecord ==
  ASSUME NEW r \in Connection
  PROVE  LET q == End(Remove(r))
         IN /\ q \in Connection
            /\ q.state = r.state /\ q.fd = r.fd /\ q.loop = r.loop
            /\ q.ups = r.ups /\ q.downs = r.downs
            /\ q.inEpoll = FALSE /\ q.ended = r.ended + 1
  <1> DEFINE p == Remove(r)
             n == p.ended + 1
  <1>1. /\ p \in Connection
        /\ p.state = r.state /\ p.fd = r.fd /\ p.loop = r.loop
        /\ p.ups = r.ups /\ p.downs = r.downs
        /\ p.inEpoll = FALSE /\ p.ended = r.ended
    BY RemoveRecord
  <1>2. n \in Nat
    BY <1>1 DEF Connection
  <1>3. End(p) = [p EXCEPT !.ended = n]
    BY <1>1 DEF End, Connection
  <1> HIDE DEF p, n
  <1>4. /\ End(p) \in Connection
        /\ End(p).state = p.state /\ End(p).fd = p.fd
        /\ End(p).loop = p.loop /\ End(p).ups = p.ups
        /\ End(p).downs = p.downs /\ End(p).inEpoll = p.inEpoll
        /\ End(p).ended = n
    BY <1>1, <1>2, <1>3 DEF Connection
  <1>5. QED
    BY <1>1, <1>4 DEF p, n

(* The record of a new connection.                                         *)
LEMMA NewRecord ==
  ASSUME TypeOK, NEW c \in Conns, NEW fd \in Fds, NEW l \in Loops
  PROVE  LET q == NewConn(c, fd, l)
         IN /\ q \in Connection
            /\ q.state = "kConnecting" /\ q.fd = fd /\ q.loop = l
            /\ q.ups = conn[c].ups /\ q.downs = conn[c].downs
            /\ q.inEpoll = conn[c].inEpoll /\ q.ended = conn[c].ended
  <1> DEFINE r == conn[c]
             q == [r EXCEPT !.state = "kConnecting", !.fd = fd, !.loop = l]
  <1>1. r \in Connection
    BY DEF TypeOK
  <1>2. NewConn(c, fd, l) = q
    BY DEF NewConn
  <1> HIDE DEF r
  <1>3. /\ q.state = "kConnecting" /\ q.fd = fd /\ q.loop = l
        /\ q.ups = r.ups /\ q.downs = r.downs /\ q.inEpoll = r.inEpoll
        /\ q.ended = r.ended
    BY <1>1 DEF Connection
  <1>4. q \in Connection
    BY <1>1 DEF Connection, StatE
  <1> QED
    BY <1>2, <1>3, <1>4 DEF r

(* getNextLoop() returns a loop of the server.                             *)
LEMMA NextLoopType ==
  ASSUME TypeOK
  PROVE  GetNextLoop \in Loops
  <1>1. CASE pool.loops = <<>>
    BY <1>1 DEF GetNextLoop, Loops
  <1>2. CASE pool.loops # <<>>
    BY <1>2 DEF GetNextLoop, TypeOK
  <1>3. QED
    BY <1>1, <1>2

(* next_ stays inside loops_.                                              *)
LEMMA AdvanceNextType ==
  ASSUME TypeOK, AdvanceNext
  PROVE  /\ pool' \in [loops : Seq(Loops), next : Nat]
         /\ pool'.loops # <<>> => pool'.next < Len(pool'.loops)
  <1>1. CASE pool.loops = <<>>
    BY <1>1 DEF AdvanceNext, TypeOK
  <1>2. CASE pool.loops # <<>>
    <2>1. Len(pool.loops) \in Nat \ {0} /\ pool.next \in Nat
      BY <1>2 DEF TypeOK
    <2>2. pool.next % Len(pool.loops) \in 0 .. Len(pool.loops) - 1
      BY <2>1
    <2>3. pool' = [pool EXCEPT !.next = @ % Len(pool.loops)]
      BY <1>2 DEF AdvanceNext
    <2>4. pool \in [loops : Seq(Loops), next : Nat]
      BY DEF TypeOK
    <2>5. /\ pool' \in [loops : Seq(Loops), next : Nat]
          /\ pool'.loops = pool.loops
          /\ pool'.next = pool.next % Len(pool.loops)
      BY <2>1, <2>2, <2>3, <2>4
    <2>6. pool'.next < Len(pool'.loops)
      BY <2>1, <2>2, <2>5
    <2>7. QED
      BY <2>5, <2>6
  <1>3. QED
    BY <1>1, <1>2

-----------------------------------------------------------------------------
(* Queues. In one step of a loop batches stay, and at most one functor of  *)
(* a batch is over.                                                        *)
LoopFrame ==
  \A l \in Loops : /\ loop'[l].batch = loop[l].batch
                   /\ loop'[l].at \in {loop[l].at, loop[l].at + 1}

Ops == {"connectEstablished", "removeConnectionInLoop",
        "connectDestroyed", "forceCloseInLoop"}

(* A queue with one functor more is a queue.                               *)
LEMMA EnqueueType ==
  ASSUME TypeOK, NEW l \in Loops, NEW c \in Conns,
         NEW op \in Ops,
         Enqueue(l, op, c)
  PROVE  pending' \in [Loops -> Seq(Functor)]
  <1>1. [op |-> op, c |-> c] \in Functor
    BY DEF Functor, Ops
  <1>2. Append(pending[l], [op |-> op, c |-> c]) \in Seq(Functor)
    BY <1>1, AppendProperties DEF TypeOK
  <1>3. QED
    BY <1>2 DEF Enqueue, TypeOK

(* What is left of a batch only gets less within a step of a loop.         *)
LEMMA FrameTodo ==
  ASSUME TypeOK, LoopFrame, NEW l \in Loops
  PROVE  /\ Todo(l)' \subseteq Todo(l)
         /\ loop'[l].batch = loop[l].batch
         /\ loop'[l].at .. Len(loop'[l].batch)
              \subseteq loop[l].at .. Len(loop[l].batch)
  <1> DEFINE t == loop[l]
  <1>1. /\ t \in LoopThread
        /\ t.at \in Nat \ {0}
        /\ t.batch \in Seq(Functor)
        /\ Len(t.batch) \in Nat
    BY DEF TypeOK, LoopThread
  <1>2. loop'[l].batch = t.batch /\ loop'[l].at \in {t.at, t.at + 1}
    BY DEF LoopFrame
  <1> HIDE DEF t
  <1>3. loop'[l].at .. Len(loop'[l].batch) \subseteq t.at .. Len(t.batch)
    BY <1>1, <1>2
  <1>4. QED
    BY <1>2, <1>3 DEF Todo, t

(* Without a new functor, what waits can only become less.                 *)
LEMMA SameQueues ==
  ASSUME TypeOK, LoopFrame, UNCHANGED pending, NEW l \in Loops
  PROVE  /\ Waiting(l)' \subseteq Waiting(l)
         /\ \A f \in Functor : Once(l, f) => Once(l, f)'
  <1>1. Waiting(l)' \subseteq Waiting(l)
    BY FrameTodo DEF Waiting
  <1>2. ASSUME NEW f \in Functor, Once(l, f)
        PROVE  Once(l, f)'
    BY <1>2, FrameTodo DEF Once
  <1>3. QED
    BY <1>1, <1>2

(* A new functor is the only one that is added, and one that was not       *)
(* there waits once.                                                       *)
LEMMA EnqueueQueues ==
  ASSUME TypeOK, LoopFrame,
         NEW k \in Loops, NEW c \in Conns,
         NEW op \in Ops,
         Enqueue(k, op, c),
         NEW l \in Loops
  PROVE  LET g == [op |-> op, c |-> c]
         IN /\ l # k => Waiting(l)' \subseteq Waiting(l)
            /\ Waiting(l)' \subseteq Waiting(l) \union {g}
            /\ \A f \in Functor :
                 /\ Once(l, f) /\ (l # k \/ f # g) => Once(l, f)'
                 /\ l = k /\ f = g /\ f \notin Waiting(l) => Once(l, f)'
            /\ Elems(pending[l]) \subseteq Elems(pending'[l])
            /\ Elems(pending'[l]) \subseteq Elems(pending[l]) \union {g}
            /\ l = k => g \in Elems(pending'[l])
  <1> DEFINE g == [op |-> op, c |-> c]
             s == pending[l]
  <1>1. g \in Functor
    BY DEF Functor, Ops
  <1>2. s \in Seq(Functor)
    BY DEF TypeOK
  <1>3. /\ Len(Append(s, g)) = Len(s) + 1
        /\ \A i \in 1 .. Len(s) : Append(s, g)[i] = s[i]
        /\ Append(s, g)[Len(s) + 1] = g
        /\ DOMAIN s = 1 .. Len(s)
        /\ DOMAIN Append(s, g) = 1 .. Len(s) + 1
        /\ Len(s) \in Nat
    BY <1>1, <1>2, AppendProperties
  <1>4. l # k => pending'[l] = s
    BY DEF Enqueue, TypeOK
  <1>5. l = k => pending'[l] = Append(s, g)
    BY DEF Enqueue, TypeOK
  <1>6. /\ Elems(s) \subseteq Elems(pending'[l])
        /\ Elems(pending'[l]) \subseteq Elems(s) \union {g}
        /\ l = k => g \in Elems(pending'[l])
    <2>1. CASE l = k
      <3>1. ASSUME NEW i \in DOMAIN s
            PROVE  s[i] \in Elems(Append(s, g))
        <4>1. i \in DOMAIN Append(s, g) /\ Append(s, g)[i] = s[i]
          BY <1>3
        <4>2. QED
          BY <4>1 DEF Elems
      <3>2. ASSUME NEW i \in DOMAIN Append(s, g)
            PROVE  Append(s, g)[i] \in Elems(s) \union {g}
        <4>1. i = Len(s) + 1 \/ i \in DOMAIN s
          BY <1>3
        <4>2. QED
          BY <4>1, <1>3 DEF Elems
      <3>3. g \in Elems(Append(s, g))
        <4>1. Len(s) + 1 \in DOMAIN Append(s, g)
          BY <1>3
        <4>2. QED
          BY <4>1, <1>3 DEF Elems
      <3>4. /\ Elems(s) \subseteq Elems(Append(s, g))
            /\ Elems(Append(s, g)) \subseteq Elems(s) \union {g}
        BY <3>1, <3>2 DEF Elems
      <3>5. pending'[l] = Append(s, g)
        BY <2>1, <1>5
      <3>6. QED
        BY <3>3, <3>4, <3>5
    <2>2. CASE l # k
      <3>1. pending'[l] = s
        BY <2>2, <1>4
      <3>2. QED
        BY <2>2, <3>1
    <2>3. QED
      BY <2>1, <2>2
  <1>7. l # k => Waiting(l)' \subseteq Waiting(l)
    BY <1>4, FrameTodo DEF Waiting
  <1>8. Waiting(l)' \subseteq Waiting(l) \union {g}
    BY <1>6, FrameTodo DEF Waiting
  <1>9. ASSUME NEW f \in Functor, Once(l, f), l # k \/ f # g
        PROVE  Once(l, f)'
    <2>1. \A i, j \in DOMAIN pending'[l] :
            pending'[l][i] = f /\ pending'[l][j] = f => i = j
      <3>1. CASE l # k
        BY <3>1, <1>4, <1>9 DEF Once
      <3>2. CASE l = k
        <4>1. f # g /\ pending'[l] = Append(s, g)
          BY <3>2, <1>5, <1>9
        <4>2. \A i, j \in 1 .. Len(s) : s[i] = f /\ s[j] = f => i = j
          BY <1>3, <1>9 DEF Once
        <4>3. \A i \in 1 .. Len(s) + 1 :
                Append(s, g)[i] = f => i \in 1 .. Len(s) /\ s[i] = f
          <5>1. \A i \in 1 .. Len(s) + 1 : i \in 1 .. Len(s) \/ i = Len(s) + 1
            BY <1>3
          <5>2. QED
            BY <5>1, <4>1, <1>3
        <4>4. QED
          BY <4>1, <4>2, <4>3, <1>3
      <3>3. QED
        BY <3>1, <3>2
    <2>2. f \notin Todo(l)' \intersect Elems(pending'[l])
      BY <1>4, <1>6, <1>9, FrameTodo DEF Once
    <2>3. QED
      BY <2>1, <2>2, <1>9, FrameTodo DEF Once
  <1>10. ASSUME NEW f \in Functor, l = k, f = g, f \notin Waiting(l)
         PROVE  Once(l, f)'
    <2>1. f \notin Elems(s) /\ f \notin Todo(l)
      BY <1>10 DEF Waiting
    <2>2. \A i, j \in DOMAIN pending'[l] :
            pending'[l][i] = f /\ pending'[l][j] = f => i = j
      <3>1. \A i \in 1 .. Len(s) : s[i] # f
        BY <2>1, <1>3 DEF Elems
      <3>2. QED
        <4>1. pending'[l] = Append(s, g)
          BY <1>5, <1>10
        <4>2. \A i \in 1 .. Len(s) + 1 :
                Append(s, g)[i] = f => i = Len(s) + 1
          <5>1. \A i \in 1 .. Len(s) + 1 : i \in 1 .. Len(s) \/ i = Len(s) + 1
            BY <1>3
          <5>2. QED
            BY <5>1, <3>1, <1>3
        <4>3. QED
          BY <4>1, <4>2, <1>3
    <2>3. f \notin Todo(l)'
      BY <2>1, FrameTodo
    <2>4. \A i \in loop'[l].at .. Len(loop'[l].batch) : loop'[l].batch[i] # f
      BY <2>3 DEF Todo
    <2>5. QED
      BY <2>2, <2>3, <2>4 DEF Once
  <1>11. QED
    BY <1>6, <1>7, <1>8, <1>9, <1>10

(* The same of one functor that waits already.                            *)
LEMMA EnqueueKeepsOnce ==
  ASSUME TypeOK, LoopFrame,
         NEW k \in Loops, NEW c \in Conns,
         NEW op \in Ops,
         Enqueue(k, op, c),
         NEW l \in Loops, NEW f \in Functor,
         Once(l, f), l # k \/ f # [op |-> op, c |-> c]
  PROVE  Once(l, f)'
  BY EnqueueQueues

-----------------------------------------------------------------------------
(* What the operations preserve. An entry of the table refers to its own   *)
(* connection, so it is enough that the connection was made.               *)
TableInv ==
  /\ \A c \in Conns : conn[c].state \in Open => connections_[conn[c].fd] = c
  /\ \A fd \in Fds : connections_[fd] # None
                       => /\ conn[connections_[fd]].fd = fd
                          /\ conn[connections_[fd]].state # "none"

TypeInv == /\ conn \in [Conns -> Connection]
           /\ connections_ \in [Fds -> Conns \union {None}]
           /\ pending \in [Loops -> Seq(Functor)]

CoreInv == TypeInv /\ PhaseInv /\ TableInv /\ FunctorsInv /\ KeptInv

(* Of an entry of the table, the Connection is alive exactly if it was ever*)
(* set up: the entry refers to it.                                         *)
LEMMA EntryAlive ==
  ASSUME TypeOK
  PROVE  TableMatches <=> TableInv
  <1>1. ASSUME NEW fd \in Fds, connections_[fd] # None
        PROVE  Alive(connections_[fd])
                 <=> conn[connections_[fd]].state # "none"
    BY <1>1 DEF Alive, Referenced
  <1>2. QED
    BY <1>1 DEF TableMatches, TableInv

(* The parts of the invariant that a handler can disturb.                  *)
LEMMA CoreOfServer ==
  ASSUME ServerInv
  PROVE  CoreInv
  BY EntryAlive DEF ServerInv, CoreInv, TypeInv, TypeOK

(* What waits are functors of connections.                                 *)
LEMMA WaitingType ==
  ASSUME TypeOK, NEW l \in Loops
  PROVE  /\ Waiting(l) \subseteq Functor
         /\ Elems(loop[l].batch) \subseteq Functor
         /\ \A f \in Functor : f.c \in Conns
  <1>1. loop[l].batch \in Seq(Functor) /\ loop[l].at \in Nat \ {0}
    BY DEF TypeOK, LoopThread
  <1>2. pending[l] \in Seq(Functor)
    BY DEF TypeOK
  <1>3. Elems(loop[l].batch) \subseteq Functor
    BY <1>1 DEF Elems
  <1>4. Elems(pending[l]) \subseteq Functor
    BY <1>2 DEF Elems
  <1>5. Todo(l) \subseteq Functor
    BY <1>1 DEF Todo
  <1>6. \A f \in Functor : f.c \in Conns
    BY DEF Functor
  <1>7. QED
    BY <1>3, <1>4, <1>5, <1>6 DEF Waiting

(* Removing a connection from the table, which leads to its                *)
(* connectDestroyed(): at once when the acceptor's loop closes it, or when *)
(* the functor for it runs there.                                          *)
LEMMA RemoveConnectionInLoopInv ==
  ASSUME ServerInv, LoopFrame, PhaseInv',
         NEW c \in Conns, RemoveConnectionInLoop(c),
         conn' \in [Conns -> Connection],
         \A d \in Conns \ {c} : conn'[d] = conn[d],
         conn'[c].state = "kDisconnected",
         conn'[c].fd = conn[c].fd, conn'[c].loop = conn[c].loop,
         conn[c].state \notin {"none", "kConnecting"},
         connections_[conn[c].fd] = c,
         [op |-> "removeConnectionInLoop", c |-> c] \notin Waiting(BaseLoop)'
  PROVE  CoreInv'
  <1> DEFINE k == conn[c].loop
             g == [op |-> "connectDestroyed", c |-> c]
  <1>1. TypeOK /\ PhaseInv /\ TableInv /\ FunctorsInv /\ KeptInv
    BY CoreOfServer DEF CoreInv, ServerInv
  <1>2. /\ k \in Loops /\ conn[c].fd \in Fds
        /\ Enqueue(k, "connectDestroyed", c)
        /\ BaseLoop \in Loops /\ "connectDestroyed" \in Ops
    BY <1>1 DEF Ops, RemoveConnectionInLoop, TypeOK, Connection, PhaseInv, Loops
  <1>3. /\ connections_'[conn[c].fd] = None
        /\ \A fd \in Fds \ {conn[c].fd} : connections_'[fd] = connections_[fd]
        /\ connections_' \in [Fds -> Conns \union {None}]
    BY <1>1, <1>2 DEF RemoveConnectionInLoop, TypeOK
  <1>4. TypeInv'
    BY <1>1, <1>2, <1>3, EnqueueType DEF TypeInv
  <1>5. ASSUME NEW d \in Conns \ {c}, conn[d].fd \in Fds,
               connections_[conn[d].fd] = d
        PROVE  connections_'[conn'[d].fd] = d
    BY <1>3, <1>5
  <1>6. TableInv'
    <2>1. ASSUME NEW d \in Conns, conn'[d].state \in Open
          PROVE  connections_'[conn'[d].fd] = d
      <3>1. d # c
        BY <2>1 DEF Open
      <3>2. conn[d].state \in Open /\ conn'[d] = conn[d]
        BY <2>1, <3>1
      <3>3. conn[d].fd \in Fds /\ connections_[conn[d].fd] = d
        BY <1>1, <3>2 DEF TableInv, PhaseInv, Open
      <3>4. QED
        BY <1>5, <3>1, <3>3
    <2>2. ASSUME NEW fd \in Fds, connections_'[fd] # None
          PROVE  /\ conn'[connections_'[fd]].fd = fd
                 /\ conn'[connections_'[fd]].state # "none"
      <3>1. connections_'[fd] = connections_[fd] /\ fd # conn[c].fd
        BY <1>3, <2>2
      <3>2. /\ conn[connections_[fd]].fd = fd
            /\ conn[connections_[fd]].state # "none"
        BY <1>1, <2>2, <3>1 DEF TableInv
      <3>3. connections_[fd] \in Conns \ {c}
        BY <1>1, <2>2, <3>1, <3>2 DEF TypeOK
      <3>4. QED
        BY <3>1, <3>2, <3>3
    <2>3. QED
      BY <2>1, <2>2 DEF TableInv
  <1>7. FunctorsInv'
    <2> SUFFICES ASSUME NEW l \in Loops, NEW f \in Waiting(l)'
                 PROVE  /\ conn'[f.c].state # "none"
                        /\ f.op # "removeConnectionInLoop"
                             => conn'[f.c].loop = l
                        /\ f.op = "connectEstablished"
                             => /\ conn'[f.c].state = "kConnecting"
                                /\ Once(l, f)'
                        /\ f.op = "removeConnectionInLoop" =>
                             /\ l = BaseLoop
                             /\ conn'[f.c].state = "kDisconnected"
                             /\ connections_'[conn'[f.c].fd] = f.c
                             /\ Once(l, f)'
                        /\ f.op = "connectDestroyed"
                             => conn'[f.c].state = "kDisconnected"
      BY DEF FunctorsInv
    <2>1. CASE l = k /\ f = g
      BY <2>1
    <2>2. CASE ~(l = k /\ f = g)
      <3>1. f \in Waiting(l) /\ f \in Functor /\ f.c \in Conns
        <4>1. /\ l # k => Waiting(l)' \subseteq Waiting(l)
              /\ Waiting(l)' \subseteq Waiting(l) \union {g}
          BY <1>1, <1>2, EnqueueQueues
        <4>2. f \in Waiting(l)
          BY <2>2, <4>1
        <4>3. QED
          BY <1>1, <4>2, WaitingType
      <3>2. Once(l, f) => Once(l, f)'
        <4>1. \A e \in Functor : Once(l, e) /\ (l # k \/ e # g) => Once(l, e)'
          <5>1. /\ TypeOK /\ k \in Loops /\ "connectDestroyed" \in Ops
                /\ Enqueue(k, "connectDestroyed", c)
            BY <1>1, <1>2
          <5> HIDE DEF k
          <5>2. ASSUME NEW e \in Functor, Once(l, e), l # k \/ e # g
                PROVE  Once(l, e)'
            BY <5>1, <5>2, EnqueueKeepsOnce
          <5>3. QED
            BY <5>2
        <4>2. QED
          BY <2>2, <3>1, <4>1
      <3>3. CASE f.c # c
        <4>1. conn'[f.c] = conn[f.c]
          BY <3>1, <3>3
        <4>2. f.op = "removeConnectionInLoop"
                => connections_'[conn'[f.c].fd] = f.c
          BY <1>1, <1>5, <3>1, <3>3 DEF FunctorsInv, PhaseInv
        <4>3. QED
          BY <1>1, <3>1, <3>2, <4>1, <4>2 DEF FunctorsInv
      <3>4. CASE f.c = c
        <4>1. f.op # "connectEstablished"
          BY <1>1, <3>1, <3>4 DEF FunctorsInv
        <4>2. f.op # "removeConnectionInLoop"
          <5>1. SUFFICES ASSUME f.op = "removeConnectionInLoop" PROVE FALSE
            OBVIOUS
          <5>2. l = BaseLoop
            BY <1>1, <3>1, <5>1 DEF FunctorsInv
          <5>3. f = [op |-> "removeConnectionInLoop", c |-> c]
            BY <3>1, <3>4, <5>1 DEF Functor
          <5>4. QED
            BY <5>2, <5>3
        <4>3. QED
          BY <1>1, <3>1, <3>4, <4>1, <4>2 DEF FunctorsInv
      <3>5. QED
        BY <3>3, <3>4
    <2>3. QED
      BY <2>1, <2>2
  <1>8. KeptInv'
    <2> SUFFICES ASSUME NEW l \in Loops, NEW d \in Conns,
                        [op |-> "forceCloseInLoop", c |-> d] \in Waiting(l)'
                 PROVE  LET force == [op |-> "forceCloseInLoop", c |-> d]
                            destroy == [op |-> "connectDestroyed", c |-> d]
                        IN \/ connections_'[conn'[d].fd] = d
                           \/ destroy \in Elems(pending'[l])
                           \/ /\ destroy \in Elems(loop'[l].batch)
                              /\ force \notin Elems(pending'[l])
      BY DEF KeptInv
    <2> DEFINE force == [op |-> "forceCloseInLoop", c |-> d]
               destroy == [op |-> "connectDestroyed", c |-> d]
    <2>1. force # g /\ force.op = "forceCloseInLoop" /\ force.c = d
      OBVIOUS
    <2>2. force \in Waiting(l)
      BY <1>1, <1>2, <2>1, EnqueueQueues
    <2>3. /\ Elems(pending[l]) \subseteq Elems(pending'[l])
          /\ Elems(pending'[l]) \subseteq Elems(pending[l]) \union {g}
          /\ l = k => g \in Elems(pending'[l])
          /\ loop'[l].batch = loop[l].batch
      BY <1>1, <1>2, EnqueueQueues DEF LoopFrame
    <2>4. conn[d].loop = l /\ conn[d].state # "none"
      BY <1>1, <2>1, <2>2 DEF FunctorsInv
    <2>5. CASE d = c
      BY <2>3, <2>4, <2>5
    <2>6. CASE d # c
      <3>1. \/ connections_[conn[d].fd] = d
            \/ destroy \in Elems(pending[l])
            \/ /\ destroy \in Elems(loop[l].batch)
               /\ force \notin Elems(pending[l])
        BY <1>1, <2>2 DEF KeptInv
      <3>2. connections_[conn[d].fd] = d => connections_'[conn'[d].fd] = d
        BY <1>1, <1>5, <2>4, <2>6 DEF PhaseInv
      <3>3. QED
        BY <2>1, <2>3, <3>1, <3>2
    <2>7. QED
      BY <2>5, <2>6
  <1>9. QED
    BY <1>4, <1>6, <1>7, <1>8 DEF CoreInv

FunctorOk(l, f) ==
  /\ conn[f.c].state # "none"
  /\ f.op # "removeConnectionInLoop" => conn[f.c].loop = l
  /\ f.op = "connectEstablished" => /\ conn[f.c].state = "kConnecting"
                                    /\ Once(l, f)
  /\ f.op = "removeConnectionInLoop" =>
       /\ l = BaseLoop
       /\ conn[f.c].state = "kDisconnected"
       /\ connections_[conn[f.c].fd] = f.c
       /\ Once(l, f)
  /\ f.op = "connectDestroyed" => conn[f.c].state = "kDisconnected"

(* A step that queues at most one functor, which is in order when it is    *)
(* queued, that of forceClose() for a connection in the table.             *)
QueuesOne ==
  \/ UNCHANGED pending
  \/ \E k \in Loops, c \in Conns, op \in Ops :
       /\ Enqueue(k, op, c)
       /\ FunctorOk(k, [op |-> op, c |-> c])'
       /\ op = "forceCloseInLoop" => connections_[conn[c].fd] = c

(* What one call of queueInLoop() with a legal functor means for the       *)
(* queues.                                                                 *)
LEMMA QueuesOneFacts ==
  ASSUME TypeOK, LoopFrame, QueuesOne, NEW l \in Loops
  PROVE  /\ pending' \in [Loops -> Seq(Functor)]
         /\ \A f \in Waiting(l)' :
              \/ f \in Waiting(l) /\ (Once(l, f) => Once(l, f)')
              \/ FunctorOk(l, f)'
         /\ \A f \in Waiting(l)' :
              f.op = "forceCloseInLoop" /\ f \notin Waiting(l)
                => connections_[conn[f.c].fd] = f.c
         /\ Elems(pending[l]) \subseteq Elems(pending'[l])
         /\ \A f \in Elems(pending'[l]) :
              f.op = "forceCloseInLoop" /\ f \notin Elems(pending[l])
                => connections_[conn[f.c].fd] = f.c
  <1>1. CASE UNCHANGED pending
    BY <1>1, SameQueues, WaitingType DEF TypeOK
  <1>2. ASSUME NEW k \in Loops, NEW c \in Conns, NEW op \in Ops,
               Enqueue(k, op, c), FunctorOk(k, [op |-> op, c |-> c])',
               op = "forceCloseInLoop" => connections_[conn[c].fd] = c
        PROVE  /\ pending' \in [Loops -> Seq(Functor)]
               /\ \A f \in Waiting(l)' :
                    \/ f \in Waiting(l) /\ (Once(l, f) => Once(l, f)')
                    \/ FunctorOk(l, f)'
               /\ \A f \in Waiting(l)' :
                    f.op = "forceCloseInLoop" /\ f \notin Waiting(l)
                      => connections_[conn[f.c].fd] = f.c
               /\ Elems(pending[l]) \subseteq Elems(pending'[l])
               /\ \A f \in Elems(pending'[l]) :
                    f.op = "forceCloseInLoop" /\ f \notin Elems(pending[l])
                      => connections_[conn[f.c].fd] = f.c
    <2> DEFINE g == [op |-> op, c |-> c]
    <2>1. /\ l # k => Waiting(l)' \subseteq Waiting(l)
          /\ Waiting(l)' \subseteq Waiting(l) \union {g}
          /\ \A f \in Functor :
               Once(l, f) /\ (l # k \/ f # g) => Once(l, f)'
          /\ Elems(pending[l]) \subseteq Elems(pending'[l])
          /\ Elems(pending'[l]) \subseteq Elems(pending[l]) \union {g}
      <3>1. /\ l # k => Waiting(l)' \subseteq Waiting(l)
            /\ Waiting(l)' \subseteq Waiting(l) \union {g}
        BY <1>2, EnqueueQueues
      <3>2. \A f \in Functor :
              Once(l, f) /\ (l # k \/ f # g) => Once(l, f)'
        BY <1>2, EnqueueQueues
      <3>3. /\ Elems(pending[l]) \subseteq Elems(pending'[l])
            /\ Elems(pending'[l]) \subseteq Elems(pending[l]) \union {g}
        BY <1>2, EnqueueQueues
      <3>4. QED
        BY <3>1, <3>2, <3>3
    <2>2. pending' \in [Loops -> Seq(Functor)]
      BY <1>2, EnqueueType
    <2>3. ASSUME NEW f \in Waiting(l)'
          PROVE  \/ f \in Waiting(l) /\ (Once(l, f) => Once(l, f)')
                 \/ FunctorOk(l, f)'
      <3>1. CASE l = k /\ f = g
        BY <1>2, <3>1
      <3>2. CASE ~(l = k /\ f = g)
        <4>1. f \in Waiting(l)
          BY <2>1, <3>2
        <4>2. f \in Functor
          BY <4>1, WaitingType
        <4>3. QED
          BY <2>1, <3>2, <4>1, <4>2
      <3>3. QED
        BY <3>1, <3>2
    <2>4. g.op = op /\ g.c = c
      OBVIOUS
    <2>5. QED
      BY <1>2, <2>1, <2>2, <2>3, <2>4
  <1>3. QED
    BY <1>1, <1>2 DEF QueuesOne

(* Steps that leave the table as it is and change connections only in      *)
(* state, forward.                                                         *)
LEMMA SameTableInv ==
  ASSUME ServerInv, LoopFrame, QueuesOne, UNCHANGED connections_,
         conn' \in [Conns -> Connection], PhaseInv',
         \A d \in Conns :
           /\ conn'[d].fd = conn[d].fd /\ conn'[d].loop = conn[d].loop
           /\ conn'[d].state = "none" <=> conn[d].state = "none"
           /\ conn'[d].state \in Open => conn[d].state \in Open
           /\ conn[d].state = "kDisconnected" =>
                conn'[d].state = "kDisconnected",
         \A l \in Loops : \A f \in Waiting(l)' :
           f.op = "connectEstablished" => conn'[f.c].state = "kConnecting"
  PROVE  CoreInv'
  <1>1. TypeOK /\ PhaseInv /\ TableInv /\ FunctorsInv /\ KeptInv
    BY CoreOfServer DEF CoreInv, ServerInv
  <1>2. BaseLoop \in Loops
    BY DEF Loops
  <1>3. TypeInv'
    BY <1>1, <1>2, QueuesOneFacts DEF TypeInv, TypeOK
  <1>4. TableInv'
    <2>1. ASSUME NEW d \in Conns, conn'[d].state \in Open
          PROVE  connections_'[conn'[d].fd] = d
      BY <1>1, <2>1 DEF TableInv
    <2>2. ASSUME NEW fd \in Fds, connections_'[fd] # None
          PROVE  /\ conn'[connections_'[fd]].fd = fd
                 /\ conn'[connections_'[fd]].state # "none"
      <3>1. connections_[fd] \in Conns
        BY <1>1, <2>2 DEF TypeOK
      <3>2. QED
        BY <1>1, <2>2, <3>1 DEF TableInv
    <2>3. QED
      BY <2>1, <2>2 DEF TableInv
  <1>5. FunctorsInv'
    <2> SUFFICES ASSUME NEW l \in Loops, NEW f \in Waiting(l)'
                 PROVE  FunctorOk(l, f)'
      BY DEF FunctorsInv, FunctorOk
    <2>1. CASE f \in Waiting(l) /\ (Once(l, f) => Once(l, f)')
      <3>1. f.c \in Conns /\ FunctorOk(l, f)
        BY <1>1, <2>1, WaitingType DEF FunctorsInv, FunctorOk
      <3>2. QED
        BY <2>1, <3>1 DEF FunctorOk
    <2>2. QED
      BY <1>1, <2>1, QueuesOneFacts
  <1>6. KeptInv'
    <2> SUFFICES ASSUME NEW l \in Loops, NEW d \in Conns,
                        [op |-> "forceCloseInLoop", c |-> d] \in Waiting(l)'
                 PROVE  LET force == [op |-> "forceCloseInLoop", c |-> d]
                            destroy == [op |-> "connectDestroyed", c |-> d]
                        IN \/ connections_'[conn'[d].fd] = d
                           \/ destroy \in Elems(pending'[l])
                           \/ /\ destroy \in Elems(loop'[l].batch)
                              /\ force \notin Elems(pending'[l])
      BY DEF KeptInv
    <2> DEFINE force == [op |-> "forceCloseInLoop", c |-> d]
               destroy == [op |-> "connectDestroyed", c |-> d]
    <2>1. force.op = "forceCloseInLoop" /\ force.c = d
      OBVIOUS
    <2>2. /\ Elems(pending[l]) \subseteq Elems(pending'[l])
          /\ \A f \in Waiting(l)' :
               f.op = "forceCloseInLoop" /\ f \notin Waiting(l)
                 => connections_[conn[f.c].fd] = f.c
          /\ \A f \in Elems(pending'[l]) :
               f.op = "forceCloseInLoop" /\ f \notin Elems(pending[l])
                 => connections_[conn[f.c].fd] = f.c
          /\ loop'[l].batch = loop[l].batch
      BY <1>1, QueuesOneFacts DEF LoopFrame
    <2>3. CASE connections_[conn[d].fd] = d
      BY <2>3
    <2>4. CASE connections_[conn[d].fd] # d
      <3>1. force \in Waiting(l)
        BY <2>1, <2>2, <2>4
      <3>2. force \in Elems(pending'[l]) => force \in Elems(pending[l])
        BY <2>1, <2>2, <2>4
      <3>3. \/ destroy \in Elems(pending[l])
            \/ /\ destroy \in Elems(loop[l].batch)
               /\ force \notin Elems(pending[l])
        BY <1>1, <2>4, <3>1 DEF KeptInv
      <3>4. QED
        BY <2>2, <3>2, <3>3
    <2>5. QED
      BY <2>3, <2>4
  <1>7. QED
    BY <1>1, <1>3, <1>4, <1>5, <1>6 DEF CoreInv

-----------------------------------------------------------------------------
(* The operations, one by one. Each changes at most the Connection c.      *)
Changes(c, from, to) ==
  /\ \A d \in Conns \ {c} : conn'[d] = conn[d]
  /\ conn'[c].loop = conn[c].loop
  /\ conn[c].state \in from
  /\ conn'[c].state \in to

PhaseOk(d) ==
  /\ conn[d].state # "none" => conn[d].fd \in Fds
  /\ conn[d].inEpoll <=> conn[d].state \in {"kConnected", "kDisconnecting"}
  /\ conn[d].ups = IF conn[d].state \in {"none", "kConnecting"} THEN 0 ELSE 1
  /\ conn[d].downs = IF conn[d].state = "kDisconnected" THEN 1 ELSE 0

(* A step that changes one connection has to be checked for that one.      *)
LEMMA PhaseOne ==
  ASSUME PhaseInv, NEW c \in Conns,
         \A d \in Conns \ {c} : conn'[d] = conn[d],
         PhaseOk(c)'
  PROVE  PhaseInv'
  <1>1. ASSUME NEW d \in Conns
        PROVE  PhaseOk(d)'
    <2>1. CASE d = c
      BY <2>1
    <2>2. CASE d # c
      <3>1. PhaseOk(d)
        BY DEF PhaseInv, PhaseOk
      <3>2. conn'[d] = conn[d]
        BY <2>2
      <3>3. QED
        BY <3>1, <3>2 DEF PhaseOk
    <2>3. QED
      BY <2>1, <2>2
  <1>2. QED
    BY <1>1 DEF PhaseInv, PhaseOk

(* A connection that connectEstablished() waits for is left alone.         *)
LEMMA ConnectingKept ==
  ASSUME ServerInv, LoopFrame, QueuesOne, NEW c \in Conns,
         \A d \in Conns \ {c} : conn'[d] = conn[d],
         \/ conn[c].state # "kConnecting"
         \/ \A l \in Loops :
              [op |-> "connectEstablished", c |-> c] \notin Waiting(l)'
  PROVE  \A l \in Loops : \A f \in Waiting(l)' :
           f.op = "connectEstablished" => conn'[f.c].state = "kConnecting"
  <1> SUFFICES ASSUME NEW l \in Loops, NEW f \in Waiting(l)',
                      f.op = "connectEstablished"
               PROVE  conn'[f.c].state = "kConnecting"
    OBVIOUS
  <1>1. TypeOK /\ FunctorsInv
    BY DEF ServerInv
  <1>2. f \in Waiting(l) \/ FunctorOk(l, f)'
    BY <1>1, QueuesOneFacts
  <1>3. CASE f \in Waiting(l)
    <2>1. f \in Functor /\ f.c \in Conns /\ conn[f.c].state = "kConnecting"
      BY <1>1, <1>3, WaitingType DEF FunctorsInv
    <2>2. f = [op |-> "connectEstablished", c |-> f.c]
      BY <2>1 DEF Functor
    <2>3. f.c # c
      BY <2>1, <2>2
    <2>4. QED
      BY <2>1, <2>3
  <1>4. QED
    BY <1>2, <1>3 DEF FunctorOk

(* handleClose(), on the loop of a connection that is open.                *)
LEMMA HandleCloseInv ==
  ASSUME ServerInv, LoopFrame,
         NEW l \in Loops, NEW c \in Conns,
         conn[c].loop = l, conn[c].state \in {"kConnected", "kDisconnecting"},
         HandleClose(l, c)
  PROVE  /\ CoreInv'
         /\ Changes(c, {"kConnected", "kDisconnecting"}, {"kDisconnected"})
  <1> DEFINE g == [op |-> "removeConnectionInLoop", c |-> c]
  <1>1. TypeOK /\ PhaseInv /\ TableInv /\ FunctorsInv /\ KeptInv
    BY CoreOfServer DEF CoreInv, ServerInv
  <1>2. /\ conn[c] \in Connection /\ conn[c].fd \in Fds
        /\ connections_[conn[c].fd] = c
        /\ conn[c].inEpoll /\ conn[c].ups = 1 /\ conn[c].downs = 0
        /\ BaseLoop \in Loops
    BY <1>1 DEF TypeOK, PhaseInv, TableInv, Open, Loops
  <1>3. /\ conn' \in [Conns -> Connection]
        /\ \A d \in Conns \ {c} : conn'[d] = conn[d]
        /\ conn'[c].state = "kDisconnected"
        /\ conn'[c].fd = conn[c].fd /\ conn'[c].loop = conn[c].loop
        /\ conn'[c].ups = 1 /\ conn'[c].downs = 1
        /\ conn'[c].inEpoll = FALSE
    <2> DEFINE q == Close(conn[c])
    <2>1. conn' = [conn EXCEPT ![c] = q]
      BY DEF HandleClose
    <2>2. /\ q \in Connection
          /\ q.state = "kDisconnected" /\ q.fd = conn[c].fd
          /\ q.loop = conn[c].loop
          /\ q.ups = 1 /\ q.downs = 1 /\ q.inEpoll = FALSE
      <3>1. /\ q \in Connection
            /\ q.state = "kDisconnected" /\ q.fd = conn[c].fd
            /\ q.loop = conn[c].loop
            /\ q.ups = conn[c].ups /\ q.downs = conn[c].downs + 1
            /\ q.inEpoll = ~conn[c].inEpoll
        BY <1>2, CloseRecord
      <3>2. q.inEpoll = FALSE
        BY <1>2, <3>1
      <3>3. QED
        BY <1>2, <3>1, <3>2
    <2> HIDE DEF q
    <2>3. conn'[c] = q
      BY <1>1, <2>1 DEF TypeOK
    <2>4. QED
      BY <1>1, <2>1, <2>2, <2>3 DEF TypeOK
  <1>4. PhaseInv'
    <2>1. PhaseOk(c)'
      BY <1>2, <1>3 DEF PhaseOk
    <2>2. QED
      BY <1>1, <1>3, <2>1, PhaseOne
  <1>5. \A k \in Loops : g \notin Waiting(k)
    BY <1>1 DEF FunctorsInv
  <1>6. CASE l = BaseLoop
    <2>1. RemoveConnectionInLoop(c)
      BY <1>6 DEF HandleClose, RemoveConnection
    <2>2. Enqueue(l, "connectDestroyed", c) /\ "connectDestroyed" \in Ops
      BY <2>1 DEF RemoveConnectionInLoop, Ops
    <2>3. Waiting(BaseLoop)'
            \subseteq Waiting(BaseLoop) \union
                        {[op |-> "connectDestroyed", c |-> c]}
      BY <1>1, <1>2, <2>2, EnqueueQueues
    <2>4. g \notin Waiting(BaseLoop)'
      BY <1>2, <1>5, <2>3
    <2>5. CoreInv'
      BY <1>2, <1>3, <1>4, <2>1, <2>4, RemoveConnectionInLoopInv
    <2>6. QED
      BY <1>3, <2>5 DEF Changes
  <1>7. CASE l # BaseLoop
    <2>1. /\ Enqueue(BaseLoop, "removeConnectionInLoop", c)
          /\ UNCHANGED connections_
          /\ "removeConnectionInLoop" \in Ops
      BY <1>7 DEF HandleClose, RemoveConnection, Ops
    <2>2. g \in Functor
      BY DEF Functor
    <2>3. /\ Waiting(BaseLoop)' \subseteq Waiting(BaseLoop) \union {g}
          /\ Once(BaseLoop, g)'
      BY <1>1, <1>2, <1>5, <2>1, <2>2, EnqueueQueues
    <2>4. FunctorOk(BaseLoop, g)'
      BY <1>2, <1>3, <2>1, <2>3 DEF FunctorOk
    <2>5. QueuesOne
      BY <1>2, <2>1, <2>4 DEF QueuesOne
    <2>6. \A k \in Loops : \A f \in Waiting(k)' :
            f.op = "connectEstablished" => conn'[f.c].state = "kConnecting"
      BY <1>3, <2>5, ConnectingKept
    <2>7. \A d \in Conns :
            /\ conn'[d].fd = conn[d].fd /\ conn'[d].loop = conn[d].loop
            /\ conn'[d].state = "none" <=> conn[d].state = "none"
            /\ conn'[d].state \in Open => conn[d].state \in Open
            /\ conn[d].state = "kDisconnected"
                 => conn'[d].state = "kDisconnected"
      BY <1>3 DEF Open
    <2>8. CoreInv'
      BY <1>3, <1>4, <2>1, <2>5, <2>6, <2>7, SameTableInv
    <2>9. QED
      BY <1>3, <2>8 DEF Changes
  <1>8. QED
    BY <1>6, <1>7

(* shutdown() and forceClose(), by the application.                        *)
LEMMA ShutdownInv ==
  ASSUME ServerInv, LoopFrame, NEW c \in Conns, UNCHANGED connections_,
         Shutdown(c) \/ ForceClose(c)
  PROVE  /\ CoreInv'
         /\ Changes(c, {"kConnected", "kDisconnecting"}, {"kDisconnecting"})
  <1>1. TypeOK /\ PhaseInv /\ TableInv /\ FunctorsInv /\ KeptInv
    BY CoreOfServer DEF CoreInv, ServerInv
  <1>2. /\ conn[c].state \in {"kConnected", "kDisconnecting"}
        /\ conn' = [conn EXCEPT ![c].state = "kDisconnecting"]
    BY DEF Shutdown, ForceClose
  <1>3. conn[c] \in Connection
    BY <1>1 DEF TypeOK
  <1>4. /\ conn' \in [Conns -> Connection]
        /\ \A d \in Conns \ {c} : conn'[d] = conn[d]
        /\ conn'[c].state = "kDisconnecting"
        /\ conn'[c].fd = conn[c].fd /\ conn'[c].loop = conn[c].loop
        /\ conn'[c].ups = conn[c].ups /\ conn'[c].downs = conn[c].downs
        /\ conn'[c].inEpoll = conn[c].inEpoll
    <2> DEFINE q == [conn[c] EXCEPT !.state = "kDisconnecting"]
    <2>1. conn' = [conn EXCEPT ![c] = q]
      BY <1>2
    <2>2. /\ q \in Connection
          /\ q.state = "kDisconnecting" /\ q.fd = conn[c].fd
          /\ q.loop = conn[c].loop
          /\ q.ups = conn[c].ups /\ q.downs = conn[c].downs
          /\ q.inEpoll = conn[c].inEpoll
      BY <1>3 DEF Connection, StatE
    <2> HIDE DEF q
    <2>3. conn'[c] = q
      BY <1>1, <2>1 DEF TypeOK
    <2>4. QED
      BY <1>1, <2>1, <2>2, <2>3 DEF TypeOK
  <1>5. PhaseInv'
    <2>1. conn[c].inEpoll
      BY <1>1, <1>2 DEF PhaseInv
    <2>2. conn[c].fd \in Fds /\ conn[c].ups = 1 /\ conn[c].downs = 0
      BY <1>1, <1>2 DEF PhaseInv
    <2>3. PhaseOk(c)'
      BY <1>4, <2>1, <2>2 DEF PhaseOk
    <2>4. QED
      BY <1>1, <1>4, <2>3, PhaseOne
  <1>6. QueuesOne
    <2>1. CASE Shutdown(c)
      BY <2>1 DEF Shutdown, QueuesOne
    <2>2. CASE ForceClose(c)
      <3> DEFINE g == [op |-> "forceCloseInLoop", c |-> c]
      <3>1. PICK k \in Loops : k = conn[c].loop
        BY <1>3 DEF Connection
      <3>2. Enqueue(k, "forceCloseInLoop", c) /\ "forceCloseInLoop" \in Ops
        BY <2>2, <3>1 DEF ForceClose, Ops
      <3>3. FunctorOk(k, g)'
        BY <1>4, <3>1 DEF FunctorOk
      <3>4. connections_[conn[c].fd] = c
        BY <1>1, <1>2 DEF TableInv, Open
      <3>5. QED
        BY <3>2, <3>1, <3>3, <3>4 DEF QueuesOne
    <2>3. QED
      BY <2>1, <2>2
  <1>7. \A k \in Loops : \A f \in Waiting(k)' :
          f.op = "connectEstablished" => conn'[f.c].state = "kConnecting"
    BY <1>2, <1>4, <1>6, ConnectingKept
  <1>8. \A d \in Conns :
          /\ conn'[d].fd = conn[d].fd /\ conn'[d].loop = conn[d].loop
          /\ conn'[d].state = "none" <=> conn[d].state = "none"
          /\ conn'[d].state \in Open => conn[d].state \in Open
          /\ conn[d].state = "kDisconnected"
               => conn'[d].state = "kDisconnected"
    BY <1>2, <1>4 DEF Open
  <1>9. CoreInv'
    BY <1>4, <1>5, <1>6, <1>7, <1>8, SameTableInv
  <1>10. QED
    BY <1>2, <1>4, <1>9 DEF Changes

(* connectEstablished(), when its functor is over.                         *)
LEMMA ConnectEstablishedInv ==
  ASSUME ServerInv, LoopFrame, NEW c \in Conns,
         UNCHANGED <<connections_, pending>>,
         conn' = [conn EXCEPT ![c] = ConnectEstablished(@)],
         conn[c].state = "kConnecting",
         \A l \in Loops :
           [op |-> "connectEstablished", c |-> c] \notin Waiting(l)'
  PROVE  CoreInv' /\ Changes(c, {"kConnecting"}, {"kConnected"})
  <1>1. TypeOK /\ PhaseInv
    BY DEF ServerInv
  <1>2. conn[c] \in Connection
    BY <1>1 DEF TypeOK
  <1>3. /\ conn' \in [Conns -> Connection]
        /\ \A d \in Conns \ {c} : conn'[d] = conn[d]
        /\ conn'[c].state = "kConnected"
        /\ conn'[c].fd = conn[c].fd /\ conn'[c].loop = conn[c].loop
        /\ conn'[c].ups = conn[c].ups + 1 /\ conn'[c].downs = conn[c].downs
        /\ conn'[c].inEpoll = TRUE
    <2> DEFINE q == ConnectEstablished(conn[c])
    <2>1. conn' = [conn EXCEPT ![c] = q]
      OBVIOUS
    <2>2. /\ q \in Connection
          /\ q.state = "kConnected" /\ q.fd = conn[c].fd
          /\ q.loop = conn[c].loop
          /\ q.ups = conn[c].ups + 1 /\ q.downs = conn[c].downs
          /\ q.inEpoll = TRUE
      BY <1>2, EstablishRecord
    <2> HIDE DEF q
    <2>3. conn'[c] = q
      BY <1>1, <2>1 DEF TypeOK
    <2>4. QED
      BY <1>1, <2>1, <2>2, <2>3 DEF TypeOK
  <1>4. PhaseInv'
    <2>1. conn[c].fd \in Fds /\ conn[c].ups = 0 /\ conn[c].downs = 0
      BY <1>1 DEF PhaseInv
    <2>2. PhaseOk(c)'
      BY <1>3, <2>1 DEF PhaseOk
    <2>3. QED
      BY <1>1, <1>3, <2>2, PhaseOne
  <1>5. QueuesOne
    BY DEF QueuesOne
  <1>6. \A l \in Loops : \A f \in Waiting(l)' :
          f.op = "connectEstablished" => conn'[f.c].state = "kConnecting"
    BY <1>3, <1>5, ConnectingKept
  <1>7. \A d \in Conns :
          /\ conn'[d].fd = conn[d].fd /\ conn'[d].loop = conn[d].loop
          /\ conn'[d].state = "none" <=> conn[d].state = "none"
          /\ conn'[d].state \in Open => conn[d].state \in Open
          /\ conn[d].state = "kDisconnected"
               => conn'[d].state = "kDisconnected"
    BY <1>3 DEF Open
  <1>8. CoreInv'
    BY <1>3, <1>4, <1>5, <1>6, <1>7, SameTableInv
  <1>9. QED
    BY <1>3, <1>8 DEF Changes

(* connectDestroyed() of a connection that handleClose() has closed.       *)
LEMMA ConnectDestroyedInv ==
  ASSUME ServerInv, LoopFrame, NEW c \in Conns,
         UNCHANGED <<connections_, pending>>,
         ConnectDestroyed(c), conn[c].state = "kDisconnected"
  PROVE  CoreInv' /\ Changes(c, {"kDisconnected"}, {"kDisconnected"})
  <1>1. TypeOK /\ PhaseInv
    BY DEF ServerInv
  <1>2. conn[c] \in Connection
    BY <1>1 DEF TypeOK
  <1>3. /\ conn' \in [Conns -> Connection]
        /\ \A d \in Conns \ {c} : conn'[d] = conn[d]
        /\ conn'[c].state = "kDisconnected"
        /\ conn'[c].fd = conn[c].fd /\ conn'[c].loop = conn[c].loop
        /\ conn'[c].ups = conn[c].ups /\ conn'[c].downs = conn[c].downs
        /\ conn'[c].inEpoll = FALSE
    <2> DEFINE q == End(Remove(conn[c]))
    <2>1. conn' = [conn EXCEPT ![c] = q]
      BY DEF ConnectDestroyed
    <2>2. /\ q \in Connection
          /\ q.state = "kDisconnected" /\ q.fd = conn[c].fd
          /\ q.loop = conn[c].loop
          /\ q.ups = conn[c].ups /\ q.downs = conn[c].downs
          /\ q.inEpoll = FALSE
      BY <1>2, EndRecord
    <2> HIDE DEF q
    <2>3. conn'[c] = q
      BY <1>1, <2>1 DEF TypeOK
    <2>4. QED
      BY <1>1, <2>1, <2>2, <2>3 DEF TypeOK
  <1>4. PhaseInv'
    <2>1. conn[c].fd \in Fds /\ conn[c].ups = 1 /\ conn[c].downs = 1
      BY <1>1 DEF PhaseInv
    <2>2. PhaseOk(c)'
      BY <1>3, <2>1 DEF PhaseOk
    <2>3. QED
      BY <1>1, <1>3, <2>2, PhaseOne
  <1>5. QueuesOne
    BY DEF QueuesOne
  <1>6. \A l \in Loops : \A f \in Waiting(l)' :
          f.op = "connectEstablished" => conn'[f.c].state = "kConnecting"
    BY <1>3, <1>5, ConnectingKept
  <1>7. \A d \in Conns :
          /\ conn'[d].fd = conn[d].fd /\ conn'[d].loop = conn[d].loop
          /\ conn'[d].state = "none" <=> conn[d].state = "none"
          /\ conn'[d].state \in Open => conn[d].state \in Open
          /\ conn[d].state = "kDisconnected"
               => conn'[d].state = "kDisconnected"
    BY <1>3
  <1>8. CoreInv'
    BY <1>3, <1>4, <1>5, <1>6, <1>7, SameTableInv
  <1>9. QED
    BY <1>3, <1>8 DEF Changes

(* A step of a loop that changes neither connections nor queues.           *)
LEMMA SkipInv ==
  ASSUME ServerInv, LoopFrame, UNCHANGED <<conn, connections_, pending>>
  PROVE  CoreInv'
  <1>1. TypeOK /\ PhaseInv /\ FunctorsInv
    BY DEF ServerInv
  <1>2. QueuesOne
    BY DEF QueuesOne
  <1>3. \A l \in Loops : \A f \in Waiting(l)' :
          f.op = "connectEstablished" => conn'[f.c].state = "kConnecting"
    BY <1>1, SameQueues DEF FunctorsInv
  <1>4. conn' \in [Conns -> Connection] /\ PhaseInv'
    BY <1>1 DEF TypeOK, PhaseInv
  <1>5. QED
    BY <1>2, <1>3, <1>4, SameTableInv

(* new_Connection(): a descriptor the kernel gives is not in the table,    *)
(* because an entry's Connection is alive and its descriptor in use; and   *)
(* nothing waits for an object that did not exist.                         *)
LEMMA NewConnectionInv ==
  ASSUME ServerInv, LoopFrame, NEW c \in Conns, NEW fd \in FreeFds,
         conn[c].state = "none", NewConnection(c, fd)
  PROVE  /\ CoreInv'
         /\ \A d \in Conns \ {c} : conn'[d] = conn[d]
         /\ conn'[c].state \in {"kConnecting", "kConnected"}
  <1> DEFINE g == [op |-> "connectEstablished", c |-> c]
  <1>1. TypeOK /\ PhaseInv /\ TableInv /\ FunctorsInv /\ KeptInv
    BY CoreOfServer DEF CoreInv, ServerInv
  <1>2. fd \in Fds /\ connections_[fd] = None
    <2>1. fd \in Fds
      BY DEF FreeFds
    <2>2. ASSUME connections_[fd] # None
          PROVE  FALSE
      <3>1. connections_[fd] \in Conns
        BY <1>1, <2>1, <2>2 DEF TypeOK
      <3>2. Alive(connections_[fd]) /\ conn[connections_[fd]].fd = fd
        BY <1>1, <2>1, <2>2 DEF TableInv, Alive, Referenced
      <3>3. QED
        BY <3>1, <3>2 DEF FreeFds
    <2>3. QED
      BY <2>1, <2>2
  <1>3. PICK k \in Loops : k = GetNextLoop
    BY <1>1, NextLoopType
  <1>4. /\ conn[c] \in Connection
        /\ conn[c].inEpoll = FALSE /\ conn[c].ups = 0 /\ conn[c].downs = 0
    <2>1. conn[c] \in Connection /\ conn[c].inEpoll \in BOOLEAN
      BY <1>1 DEF TypeOK, Connection
    <2>2. ~conn[c].inEpoll
      BY <1>1 DEF PhaseInv
    <2>3. conn[c].ups = 0 /\ conn[c].downs = 0
      BY <1>1 DEF PhaseInv
    <2>4. QED
      BY <2>1, <2>2, <2>3
  <1>5. /\ conn' \in [Conns -> Connection]
        /\ \A d \in Conns \ {c} : conn'[d] = conn[d]
        /\ conn'[c].state = IF k = BaseLoop THEN "kConnected" ELSE "kConnecting"
        /\ conn'[c].fd = fd /\ conn'[c].loop = k
        /\ PhaseOk(c)'
    <2> DEFINE q == NewConn(c, fd, k)
    <2>1. /\ q \in Connection
          /\ q.state = "kConnecting" /\ q.fd = fd /\ q.loop = k
          /\ q.ups = 0 /\ q.downs = 0 /\ q.inEpoll = FALSE
      BY <1>1, <1>2, <1>4, NewRecord
    <2>2. CASE k = BaseLoop
      <3> DEFINE p == ConnectEstablished(q)
      <3>1. conn' = [conn EXCEPT ![c] = p]
        BY <1>3, <2>2 DEF NewConnection
      <3> HIDE DEF q
      <3>2. /\ p \in Connection
            /\ p.state = "kConnected" /\ p.fd = fd /\ p.loop = k
            /\ p.ups = 1 /\ p.downs = 0 /\ p.inEpoll = TRUE
        <4>1. /\ p \in Connection
              /\ p.state = "kConnected" /\ p.fd = q.fd /\ p.loop = q.loop
              /\ p.ups = q.ups + 1 /\ p.downs = q.downs
              /\ p.inEpoll = TRUE
          BY <2>1, EstablishRecord
        <4>2. QED
          BY <2>1, <4>1
      <3> HIDE DEF p
      <3>3. /\ conn'[c] = p
            /\ conn' \in [Conns -> Connection]
            /\ \A d \in Conns \ {c} : conn'[d] = conn[d]
        BY <1>1, <3>1, <3>2 DEF TypeOK
      <3>4. PhaseOk(c)'
        BY <1>2, <3>2, <3>3 DEF PhaseOk
      <3>5. QED
        BY <2>2, <3>2, <3>3, <3>4
    <2>3. CASE k # BaseLoop
      <3>1. conn' = [conn EXCEPT ![c] = q]
        BY <1>3, <2>3 DEF NewConnection
      <3> HIDE DEF q
      <3>2. /\ conn'[c] = q
            /\ conn' \in [Conns -> Connection]
            /\ \A d \in Conns \ {c} : conn'[d] = conn[d]
        BY <1>1, <2>1, <3>1 DEF TypeOK
      <3>3. PhaseOk(c)'
        BY <1>2, <2>1, <3>2 DEF PhaseOk
      <3>4. QED
        BY <2>1, <2>3, <3>2, <3>3
    <2>4. QED
      BY <2>2, <2>3
  <1>6. PhaseInv'
    BY <1>1, <1>5, PhaseOne
  <1>7. /\ connections_'[fd] = c
        /\ \A h \in Fds \ {fd} : connections_'[h] = connections_[h]
        /\ connections_' \in [Fds -> Conns \union {None}]
    BY <1>1, <1>2 DEF NewConnection, TypeOK
  <1>8. ASSUME NEW d \in Conns, conn[d].fd \in Fds, d # c,
               connections_[conn[d].fd] = d
        PROVE  connections_'[conn'[d].fd] = d
    <2>1. conn[d].fd # fd
      BY <1>2, <1>8, NoneAssumption
    <2>2. QED
      BY <1>5, <1>7, <1>8, <2>1
  <1>9. TableInv'
    <2>1. ASSUME NEW d \in Conns, conn'[d].state \in Open
          PROVE  connections_'[conn'[d].fd] = d
      <3>1. CASE d = c
        BY <1>5, <1>7, <3>1
      <3>2. CASE d # c
        <4>1. conn[d].state \in Open
          BY <1>5, <2>1, <3>2
        <4>2. conn[d].fd \in Fds /\ connections_[conn[d].fd] = d
          BY <1>1, <4>1 DEF TableInv, PhaseInv, Open
        <4>3. QED
          BY <1>8, <3>2, <4>2
      <3>3. QED
        BY <3>1, <3>2
    <2>2. ASSUME NEW h \in Fds, connections_'[h] # None
          PROVE  /\ conn'[connections_'[h]].fd = h
                 /\ conn'[connections_'[h]].state # "none"
      <3>1. CASE h = fd
        BY <1>5, <1>7, <3>1
      <3>2. CASE h # fd
        <4>1. connections_'[h] = connections_[h]
          BY <1>7, <3>2
        <4>2. /\ conn[connections_[h]].fd = h
              /\ conn[connections_[h]].state # "none"
              /\ connections_[h] \in Conns
          BY <1>1, <2>2, <4>1 DEF TableInv, TypeOK
        <4>3. conn'[connections_[h]] = conn[connections_[h]]
          BY <1>5, <4>2
        <4>4. QED
          BY <4>1, <4>2, <4>3
      <3>3. QED
        BY <3>1, <3>2
    <2>3. QED
      BY <2>1, <2>2 DEF TableInv
  <1>10. \A l \in Loops : g \notin Waiting(l)
    BY <1>1 DEF FunctorsInv
  <1>11. /\ pending' \in [Loops -> Seq(Functor)]
         /\ \A l \in Loops :
              /\ Waiting(l)' \subseteq Waiting(l) \union {g}
              /\ Elems(pending[l]) \subseteq Elems(pending'[l])
              /\ Elems(pending'[l]) \subseteq Elems(pending[l]) \union {g}
         /\ QueuesOne
    <2>1. CASE k = BaseLoop
      <3>1. UNCHANGED pending
        BY <1>3, <2>1 DEF NewConnection
      <3>2. QED
        BY <1>1, <3>1, SameQueues DEF TypeOK, QueuesOne
    <2>2. CASE k # BaseLoop
      <3>1. Enqueue(k, "connectEstablished", c) /\ "connectEstablished" \in Ops
        BY <1>3, <2>2 DEF NewConnection, Ops
      <3>2. g \in Functor
        BY DEF Functor
      <3>3. Once(k, g)'
        BY <1>1, <1>10, <3>1, <3>2, EnqueueQueues
      <3>4. FunctorOk(k, g)'
        BY <1>5, <2>2, <3>3 DEF FunctorOk
      <3>5. QueuesOne
        BY <3>1, <3>4 DEF QueuesOne
      <3>6. pending' \in [Loops -> Seq(Functor)]
        BY <1>1, <3>1, EnqueueType
      <3>7. ASSUME NEW l \in Loops
            PROVE  /\ Waiting(l)' \subseteq Waiting(l) \union {g}
                   /\ Elems(pending[l]) \subseteq Elems(pending'[l])
                   /\ Elems(pending'[l]) \subseteq Elems(pending[l]) \union {g}
        BY <1>1, <3>1, EnqueueQueues
      <3>8. QED
        BY <3>5, <3>6, <3>7
    <2>3. QED
      BY <2>1, <2>2
  <1>12. TypeInv'
    BY <1>5, <1>7, <1>11 DEF TypeInv
  <1>13. FunctorsInv'
    <2> SUFFICES ASSUME NEW l \in Loops, NEW f \in Waiting(l)'
                 PROVE  FunctorOk(l, f)'
      BY DEF FunctorsInv, FunctorOk
    <2>1. CASE f \in Waiting(l) /\ (Once(l, f) => Once(l, f)')
      <3>1. f.c \in Conns /\ FunctorOk(l, f)
        BY <1>1, <2>1, WaitingType DEF FunctorsInv, FunctorOk
      <3>2. f.c # c /\ conn[f.c].fd \in Fds
        BY <1>1, <3>1 DEF FunctorOk, PhaseInv
      <3>3. conn'[f.c] = conn[f.c]
        BY <1>5, <3>1, <3>2
      <3>4. f.op = "removeConnectionInLoop" =>
              connections_'[conn'[f.c].fd] = f.c
        BY <1>8, <3>1, <3>2 DEF FunctorOk
      <3>5. QED
        BY <2>1, <3>1, <3>3, <3>4 DEF FunctorOk
    <2>2. \/ f \in Waiting(l) /\ (Once(l, f) => Once(l, f)')
          \/ FunctorOk(l, f)'
      BY <1>1, <1>11, QueuesOneFacts
    <2>3. QED
      BY <2>1, <2>2
  <1>14. KeptInv'
    <2> SUFFICES ASSUME NEW l \in Loops, NEW d \in Conns,
                        [op |-> "forceCloseInLoop", c |-> d] \in Waiting(l)'
                 PROVE  LET force == [op |-> "forceCloseInLoop", c |-> d]
                            destroy == [op |-> "connectDestroyed", c |-> d]
                        IN \/ connections_'[conn'[d].fd] = d
                           \/ destroy \in Elems(pending'[l])
                           \/ /\ destroy \in Elems(loop'[l].batch)
                              /\ force \notin Elems(pending'[l])
      BY DEF KeptInv
    <2> DEFINE force == [op |-> "forceCloseInLoop", c |-> d]
               destroy == [op |-> "connectDestroyed", c |-> d]
    <2>1. force # g /\ force.c = d
      OBVIOUS
    <2>2. /\ force \in Waiting(l)
          /\ Elems(pending[l]) \subseteq Elems(pending'[l])
          /\ force \in Elems(pending'[l]) => force \in Elems(pending[l])
          /\ loop'[l].batch = loop[l].batch
      BY <1>11, <2>1 DEF LoopFrame
    <2>3. d # c /\ conn[d].fd \in Fds
      BY <1>1, <2>1, <2>2 DEF FunctorsInv, PhaseInv
    <2>4. \/ connections_[conn[d].fd] = d
          \/ destroy \in Elems(pending[l])
          \/ /\ destroy \in Elems(loop[l].batch)
             /\ force \notin Elems(pending[l])
      BY <1>1, <2>2 DEF KeptInv
    <2>5. QED
      BY <1>8, <2>2, <2>3, <2>4
  <1>15. QED
    BY <1>5, <1>6, <1>9, <1>12, <1>13, <1>14 DEF CoreInv

-----------------------------------------------------------------------------
(* The steps of a loop. They change at most one connection of that loop.   *)
ChangesOne(l) ==
  \/ UNCHANGED conn
  \/ \E d \in Conns :
       /\ conn[d].loop = l
       /\ \/ Changes(d, {"kConnecting"}, {"kConnected"})
          \/ Changes(d, {"kConnected", "kDisconnecting"}, {"kDisconnecting"})
          \/ Changes(d, {"kConnected", "kDisconnecting"}, {"kDisconnected"})
          \/ Changes(d, {"kDisconnected"}, {"kDisconnected"})

(* The table refers to an open connection.                                 *)
LEMMA OpenIsAlive ==
  ASSUME ServerInv, NEW c \in Conns, conn[c].state \in Open
  PROVE  Alive(c)
  BY DEF ServerInv, TableMatches, PhaseInv, Alive, Referenced, Open

(* An active channel is one of an open connection of the loop: it is       *)
(* handled, and what follows concerns connections of this loop.            *)
LEMMA HandleEventInv ==
  ASSUME ServerInv, LoopFrame, NEW l \in Loops, NEW c \in Conns,
         c \in loop[l].active, HandleEvent(l, c)
  PROVE  /\ CoreInv'
         /\ \/ HandleClose(l, c)
            \/ UNCHANGED conn
            \/ \E d \in Conns :
                 /\ conn[d].loop = l
                 /\ Changes(d, {"kConnected", "kDisconnecting"},
                               {"kDisconnecting"})
  <1>1. /\ conn[c].loop = l
        /\ conn[c].state \in {"kConnected", "kDisconnecting"}
    BY ListenAssumption DEF ServerInv, LoopsInv
  <1>2. Alive(c)
    BY <1>1, OpenIsAlive DEF Open
  <1>3. HandleClose(l, c) \/ MessageCallback(l, c)
    BY <1>2 DEF HandleEvent, HandleRead
  <1>4. CASE HandleClose(l, c)
    BY <1>1, <1>4, HandleCloseInv
  <1>5. CASE MessageCallback(l, c)
    <2>1. CASE UNCHANGED <<conn, pending>>
      BY <1>5, <2>1, SkipInv DEF MessageCallback
    <2>2. ASSUME NEW d \in {c} \union held,
                 conn[d].loop = l, Shutdown(d) \/ ForceClose(d)
          PROVE  /\ CoreInv'
                 /\ d \in Conns
                 /\ Changes(d, {"kConnected", "kDisconnecting"},
                               {"kDisconnecting"})
      <3>1. d \in Conns
        BY DEF ServerInv, TypeOK
      <3>2. UNCHANGED connections_
        BY <1>5 DEF MessageCallback
      <3>3. QED
        BY <2>2, <3>1, <3>2, ShutdownInv
    <2>3. QED
      BY <1>5, <2>1, <2>2 DEF MessageCallback
  <1>6. QED
    BY <1>3, <1>4, <1>5

(* The functor at the head of the batch, which does not wait any longer    *)
(* once it has begun, if it was there once.                                *)
LEMMA FunctorBegins ==
  ASSUME TypeOK, NEW l \in Loops,
         loop[l].at <= Len(loop[l].batch),
         loop' = [loop EXCEPT ![l].at = @ + 1]
  PROVE  LET f == loop[l].batch[loop[l].at]
         IN /\ f \in Functor /\ f \in Waiting(l)
            /\ Once(l, f) => f \notin Todo(l)' /\ f \notin Elems(pending[l])
            /\ LoopFrame
            /\ loop' \in [Loops -> LoopThread]
  <1> DEFINE t == loop[l]
             f == t.batch[t.at]
  <1>1. /\ t \in LoopThread
        /\ t.at \in Nat \ {0} /\ t.batch \in Seq(Functor)
        /\ Len(t.batch) \in Nat
        /\ t.at \in 1 .. Len(t.batch)
    BY DEF TypeOK, LoopThread
  <1>2. f \in Functor
    BY <1>1
  <1>3. f \in Todo(l)
    BY <1>1 DEF Todo
  <1>4. /\ loop'[l] = [t EXCEPT !.at = t.at + 1]
        /\ \A k \in Loops \ {l} : loop'[k] = loop[k]
        /\ DOMAIN loop' = Loops
    BY DEF TypeOK
  <1>5. loop'[l].at = t.at + 1 /\ loop'[l].batch = t.batch
        /\ loop'[l] \in LoopThread
    BY <1>1, <1>4 DEF LoopThread
  <1>6. LoopFrame
    <2>1. ASSUME NEW k \in Loops
          PROVE  /\ loop'[k].batch = loop[k].batch
                 /\ loop'[k].at \in {loop[k].at, loop[k].at + 1}
      BY <1>4, <1>5
    <2>2. QED
      BY <2>1 DEF LoopFrame
  <1>7. loop' \in [Loops -> LoopThread]
    BY <1>4, <1>5 DEF TypeOK
  <1>8. ASSUME Once(l, f)
        PROVE  f \notin Todo(l)' /\ f \notin Elems(pending[l])
    <2>1. f \notin Elems(pending[l])
      BY <1>3, <1>8 DEF Once
    <2>2. \A i \in t.at + 1 .. Len(t.batch) : t.batch[i] # f
      <3>1. \A i \in t.at .. Len(t.batch) : t.batch[i] = f => i = t.at
        BY <1>1, <1>8 DEF Once
      <3>2. QED
        BY <1>1, <3>1
    <2>3. f \notin Todo(l)'
      BY <1>5, <2>2 DEF Todo
    <2>4. QED
      BY <2>1, <2>3
  <1>9. QED
    BY <1>2, <1>3, <1>6, <1>7, <1>8 DEF Waiting

(* A functor keeps the parts that handlers can disturb.                    *)
LEMMA RunInv ==
  ASSUME ServerInv, NEW l \in Loops, RunFunctor(l)
  PROVE  CoreInv' /\ ChangesOne(l)
  <1>1. TypeOK /\ PhaseInv /\ TableInv /\ FunctorsInv
    BY CoreOfServer DEF CoreInv, ServerInv
  <1>2. /\ loop[l].at <= Len(loop[l].batch)
        /\ loop' = [loop EXCEPT ![l].at = @ + 1]
    BY DEF RunFunctor
  <1>3. PICK f \in Functor : f = loop[l].batch[loop[l].at]
    BY <1>1, <1>2, FunctorBegins
  <1>4. /\ f \in Waiting(l)
        /\ Once(l, f) => f \notin Todo(l)' /\ f \notin Elems(pending[l])
        /\ LoopFrame
    BY <1>1, <1>2, <1>3, FunctorBegins
  <1>5. FunctorOk(l, f) /\ f.c \in Conns
    BY <1>1, <1>4 DEF FunctorsInv, FunctorOk, Functor
  <1>6. Run(l, f)
    BY <1>3 DEF RunFunctor
  <1>7. CASE f.op = "connectEstablished"
    <2>1. /\ conn' = [conn EXCEPT ![f.c] = ConnectEstablished(@)]
          /\ UNCHANGED <<connections_, pending>>
      BY <1>6, <1>7 DEF Run
    <2>2. conn[f.c].state = "kConnecting" /\ conn[f.c].loop = l
      BY <1>5, <1>7 DEF FunctorOk
    <2>3. f = [op |-> "connectEstablished", c |-> f.c]
      BY <1>7 DEF Functor
    <2>4. ASSUME NEW k \in Loops
          PROVE  f \notin Waiting(k)'
      <3>1. CASE k = l
        <4>1. f \notin Todo(l)' /\ f \notin Elems(pending[l])
          BY <1>4, <1>5, <1>7 DEF FunctorOk
        <4>2. QED
          BY <2>1, <3>1, <4>1 DEF Waiting
      <3>2. CASE k # l
        <4>1. f \notin Waiting(k)
          BY <1>1, <1>7, <2>2, <3>2 DEF FunctorsInv
        <4>2. QED
          BY <1>1, <1>4, <2>1, <4>1, SameQueues
      <3>3. QED
        BY <3>1, <3>2
    <2>5. CoreInv' /\ Changes(f.c, {"kConnecting"}, {"kConnected"})
      BY <1>4, <1>5, <2>1, <2>2, <2>3, <2>4, ConnectEstablishedInv
    <2>6. QED
      BY <1>5, <2>2, <2>5 DEF ChangesOne
  <1>8. CASE f.op = "removeConnectionInLoop"
    <2>1. RemoveConnectionInLoop(f.c) /\ UNCHANGED conn
      BY <1>6, <1>8 DEF Run
    <2>2. /\ l = BaseLoop /\ conn[f.c].state = "kDisconnected"
          /\ connections_[conn[f.c].fd] = f.c
          /\ Once(l, f)
      BY <1>5, <1>8 DEF FunctorOk
    <2>3. f = [op |-> "removeConnectionInLoop", c |-> f.c]
      BY <1>8 DEF Functor
    <2>4. PICK k \in Loops : k = conn[f.c].loop
      BY <1>1, <1>5 DEF TypeOK, Connection
    <2>5. Enqueue(k, "connectDestroyed", f.c) /\ "connectDestroyed" \in Ops
      BY <2>1, <2>4 DEF RemoveConnectionInLoop, Ops
    <2>6. Elems(pending'[l])
            \subseteq Elems(pending[l]) \union
                        {[op |-> "connectDestroyed", c |-> f.c]}
      BY <1>1, <1>4, <1>5, <2>5, EnqueueQueues
    <2>7. f \notin Waiting(l)'
      <3>1. f \notin Todo(l)' /\ f \notin Elems(pending[l])
        BY <1>4, <2>2
      <3>2. f # [op |-> "connectDestroyed", c |-> f.c]
        BY <1>8
      <3>3. QED
        BY <2>6, <3>1, <3>2 DEF Waiting
    <2>8. conn' \in [Conns -> Connection] /\ PhaseInv'
      BY <1>1, <2>1 DEF TypeOK, PhaseInv
    <2>9. CoreInv'
      BY <1>4, <1>5, <2>1, <2>2, <2>3, <2>7, <2>8, RemoveConnectionInLoopInv
    <2>10. QED
      BY <2>1, <2>9 DEF ChangesOne
  <1>9. CASE f.op = "connectDestroyed"
    <2>1. ConnectDestroyed(f.c) /\ UNCHANGED <<connections_, pending>>
      BY <1>6, <1>9 DEF Run
    <2>2. conn[f.c].state = "kDisconnected" /\ conn[f.c].loop = l
      BY <1>5, <1>9 DEF FunctorOk
    <2>3. CoreInv' /\ Changes(f.c, {"kDisconnected"}, {"kDisconnected"})
      BY <1>4, <1>5, <2>1, <2>2, ConnectDestroyedInv
    <2>4. QED
      BY <1>5, <2>2, <2>3 DEF ChangesOne
  <1>10. CASE f.op = "forceCloseInLoop"
    <2>1. ForceCloseInLoop(l, f.c)
      BY <1>6, <1>10 DEF Run
    <2>2. conn[f.c].loop = l
      BY <1>5, <1>10 DEF FunctorOk
    <2>3. CASE conn[f.c].state \in {"kConnected", "kDisconnecting"}
      <3>1. HandleClose(l, f.c)
        BY <2>1, <2>3 DEF ForceCloseInLoop
      <3>2. /\ CoreInv'
            /\ Changes(f.c, {"kConnected", "kDisconnecting"},
                            {"kDisconnected"})
        BY <1>4, <1>5, <2>2, <2>3, <3>1, HandleCloseInv
      <3>3. QED
        BY <1>5, <2>2, <3>2 DEF ChangesOne
    <2>4. CASE conn[f.c].state \notin {"kConnected", "kDisconnecting"}
      <3>1. UNCHANGED <<conn, connections_, pending>>
        BY <2>1, <2>4 DEF ForceCloseInLoop
      <3>2. QED
        BY <1>4, <3>1, SkipInv DEF ChangesOne
    <2>5. QED
      BY <2>3, <2>4
  <1>11. QED
    BY <1>7, <1>8, <1>9, <1>10 DEF Functor

-----------------------------------------------------------------------------
(* The inductive invariant is kept by every action.                        *)
LEMMA ServerOfCore ==
  ASSUME CoreInv', LoopsInv',
         pool' \in [loops : Seq(Loops), next : Nat],
         pool'.loops # <<>> => pool'.next < Len(pool'.loops),
         loop' \in [Loops -> LoopThread],
         peerClosed' \subseteq Conns, held' \subseteq Conns
  PROVE  ServerInv'
  <1>1. TypeOK'
    BY DEF CoreInv, TypeInv, TypeOK
  <1>2. ASSUME NEW fd \in Fds, connections_'[fd] # None
        PROVE  Alive(connections_[fd])'
    BY <1>2 DEF Alive, Referenced, CoreInv, TableInv
  <1>3. TableMatches'
    BY <1>2 DEF TableMatches, CoreInv, TableInv
  <1>4. QED
    BY <1>1, <1>3 DEF ServerInv, CoreInv

(* The start: no connection, nothing queued.                               *)
LEMMA InitInv == Init => ServerInv
  <1> SUFFICES ASSUME Init PROVE ServerInv
    OBVIOUS
  <1>1. PICK n \in PoolSizes :
          pool = [loops |-> SubSeq(IoLoops, 1, n), next |-> 0]
    BY DEF Init
  <1>2. pool \in [loops : Seq(Loops), next : Nat]
    <2>1. \A i \in DOMAIN IoLoops : IoLoops[i] \in Loops
      BY DEF Loops, Elems
    <2>2. IoLoops \in Seq(Loops) /\ n \in 0 .. Len(IoLoops)
      BY <2>1, PoolAssumption
    <2>3. SubSeq(IoLoops, 1, n) \in Seq(Loops)
      BY <2>2
    <2>4. QED
      BY <1>1, <2>3
  <1>3. pool.loops # <<>> => pool.next < Len(pool.loops)
    BY <1>1, <1>2
  <1>4. BaseLoop \in Loops
    BY DEF Loops
  <1>5. conn \in [Conns -> Connection]
    BY <1>4 DEF Init, Connection
  <1>6. TypeOK
    <2>1. loop \in [Loops -> LoopThread]
      BY DEF Init, LoopThread
    <2>2. pending \in [Loops -> Seq(Functor)]
      BY DEF Init
    <2>3. connections_ \in [Fds -> Conns \union {None}]
      BY DEF Init
    <2>4. peerClosed \subseteq Conns /\ held \subseteq Conns
      BY DEF Init
    <2>5. QED
      BY <1>2, <1>3, <1>5, <2>1, <2>2, <2>3, <2>4 DEF TypeOK
  <1>7. LoopsInv
    BY DEF Init, LoopsInv
  <1>8. PhaseInv
    BY DEF Init, PhaseInv
  <1>9. TableMatches
    BY DEF Init, TableMatches, Open
  <1>10. \A l \in Loops : Waiting(l) = {}
    BY DEF Init, Waiting, Todo, Elems
  <1>11. FunctorsInv /\ KeptInv
    BY <1>10 DEF FunctorsInv, KeptInv
  <1>12. QED
    BY <1>6, <1>7, <1>8, <1>9, <1>11 DEF ServerInv

(* Active channels stay those of open connections of their loop when one   *)
(* connection of loop l changes and is no longer active there.             *)
LEMMA LoopsKept ==
  ASSUME ServerInv, NEW l \in Loops,
         loop' \in [Loops -> LoopThread],
         \A k \in Loops \ {l} : loop'[k] = loop[k],
         loop'[l].pc = loop[l].pc, loop'[l].batch = loop[l].batch,
         loop'[l].active \subseteq loop[l].active,
         loop'[l].at <= Len(loop[l].batch) + 1,
         ChangesOne(l),
         \A d \in loop'[l].active \ {Listen} :
           conn'[d].state \in {"kConnected", "kDisconnecting"}
  PROVE  LoopsInv'
  <1>1. \A d \in Conns :
          /\ conn'[d].loop = conn[d].loop
          /\ conn[d].loop # l => conn'[d] = conn[d]
    BY DEF ChangesOne, Changes
  <1>2. ASSUME NEW k \in Loops
        PROVE  /\ loop'[k].pc # "dispatch" => loop'[k].active = {}
               /\ loop'[k].pc # "run" => loop'[k].batch = <<>>
               /\ loop'[k].at <= Len(loop'[k].batch) + 1
               /\ \A d \in loop'[k].active \ {Listen} :
                    /\ conn'[d].loop = k
                    /\ conn'[d].state \in {"kConnected", "kDisconnecting"}
    <2>1. /\ loop[k].pc # "dispatch" => loop[k].active = {}
          /\ loop[k].pc # "run" => loop[k].batch = <<>>
          /\ loop[k].at <= Len(loop[k].batch) + 1
          /\ loop[k].active \ {Listen} \subseteq Conns
          /\ \A d \in loop[k].active \ {Listen} :
               /\ conn[d].loop = k
               /\ conn[d].state \in {"kConnected", "kDisconnecting"}
      BY DEF ServerInv, LoopsInv, TypeOK, LoopThread
    <2>2. CASE k = l
      <3>1. ASSUME NEW d \in loop'[l].active \ {Listen}
            PROVE  conn'[d].loop = l
        <4>1. d \in loop[l].active \ {Listen}
          OBVIOUS
        <4>2. d \in Conns /\ conn[d].loop = l
          BY <2>1, <2>2, <4>1
        <4>3. QED
          BY <1>1, <4>2
      <3>2. loop'[k].active \subseteq loop[k].active
        BY <2>2
      <3>3. loop[k].active = {} => loop'[k].active = {}
        BY <3>2
      <3>4. QED
        BY <2>1, <2>2, <3>1, <3>3
    <2>3. CASE k # l
      <3>1. ASSUME NEW d \in loop[k].active \ {Listen}
            PROVE  conn'[d] = conn[d]
        <4>1. d \in Conns /\ conn[d].loop = k
          BY <2>1
        <4>2. QED
          BY <1>1, <2>3, <4>1
      <3>2. QED
        BY <2>1, <2>3, <3>1
    <2>4. QED
      BY <2>2, <2>3
  <1>3. QED
    BY <1>2 DEF LoopsInv

(* Handling an active channel keeps the invariant.                         *)
LEMMA DispatchInv ==
  ASSUME ServerInv, NEW l \in Loops, NEW c \in Conns, Dispatch(l, c)
  PROVE  ServerInv' /\ ChangesOne(l)
  <1>1. TypeOK /\ LoopsInv
    BY DEF ServerInv
  <1>2. /\ loop'[l] = [loop[l] EXCEPT !.active = @ \ {c}]
        /\ \A k \in Loops \ {l} : loop'[k] = loop[k]
        /\ DOMAIN loop' = Loops
        /\ loop[l] \in LoopThread /\ loop[l].at \in Nat
    BY <1>1 DEF Dispatch, TypeOK, LoopThread
  <1>3. /\ loop'[l] \in LoopThread
        /\ loop'[l].pc = loop[l].pc /\ loop'[l].batch = loop[l].batch
        /\ loop'[l].at = loop[l].at
        /\ loop'[l].active = loop[l].active \ {c}
    BY <1>2 DEF LoopThread
  <1>4. LoopFrame /\ loop' \in [Loops -> LoopThread]
    <2>1. \A k \in Loops :
            loop'[k].batch = loop[k].batch /\ loop'[k].at = loop[k].at
      BY <1>2, <1>3
    <2>2. LoopFrame
      BY <2>1 DEF LoopFrame
    <2>3. ASSUME NEW k \in Loops
          PROVE  loop'[k] \in LoopThread
      BY <1>1, <1>2, <1>3 DEF TypeOK
    <2>4. loop' = [k \in Loops |-> loop'[k]]
      BY <1>1 DEF Dispatch, TypeOK
    <2>5. QED
      BY <2>2, <2>3, <2>4
  <1>5. /\ CoreInv'
        /\ \/ HandleClose(l, c)
           \/ UNCHANGED conn
           \/ \E d \in Conns :
                /\ conn[d].loop = l
                /\ Changes(d, {"kConnected", "kDisconnecting"},
                              {"kDisconnecting"})
    BY <1>4, HandleEventInv DEF Dispatch
  <1>6. \A d \in loop[l].active \ {Listen} :
          /\ d \in Conns /\ conn[d].loop = l
          /\ conn[d].state \in {"kConnected", "kDisconnecting"}
    BY <1>1, <1>2 DEF LoopsInv, LoopThread
  <1>7. /\ ChangesOne(l)
        /\ \A d \in loop'[l].active \ {Listen} :
             conn'[d].state \in {"kConnected", "kDisconnecting"}
    <2>1. CASE HandleClose(l, c)
      <3>1. c \in loop[l].active \ {Listen}
        BY ListenAssumption DEF Dispatch
      <3>2. Changes(c, {"kConnected", "kDisconnecting"}, {"kDisconnected"})
        BY <1>4, <1>6, <2>1, <3>1, HandleCloseInv
      <3>3. QED
        BY <1>3, <1>6, <3>1, <3>2 DEF Changes, ChangesOne
    <2>2. CASE UNCHANGED conn
      BY <1>3, <1>6, <2>2 DEF ChangesOne
    <2>3. ASSUME NEW d \in Conns, conn[d].loop = l,
                 Changes(d, {"kConnected", "kDisconnecting"},
                            {"kDisconnecting"})
          PROVE  /\ ChangesOne(l)
                 /\ \A e \in loop'[l].active \ {Listen} :
                      conn'[e].state \in {"kConnected", "kDisconnecting"}
      <3>1. ChangesOne(l)
        BY <2>3 DEF ChangesOne
      <3>2. ASSUME NEW e \in loop'[l].active \ {Listen}
            PROVE  conn'[e].state \in {"kConnected", "kDisconnecting"}
        BY <1>3, <1>6, <2>3 DEF Changes
      <3>3. QED
        BY <3>1, <3>2
    <2>4. QED
      BY <1>5, <2>1, <2>2, <2>3
  <1>8. LoopsInv'
    <2>1. loop[l].at <= Len(loop[l].batch) + 1
      BY <1>1 DEF LoopsInv
    <2>2. QED
      BY <1>2, <1>3, <1>4, <1>7, <2>1, LoopsKept
  <1>9. UNCHANGED <<pool, peerClosed, held>>
    BY DEF Dispatch
  <1>10. QED
    BY <1>1, <1>4, <1>5, <1>7, <1>8, <1>9, ServerOfCore DEF TypeOK

(* Running a functor keeps the invariant.                                  *)
LEMMA RunFunctorInv ==
  ASSUME ServerInv, NEW l \in Loops, RunFunctor(l)
  PROVE  ServerInv' /\ ChangesOne(l)
  <1>1. TypeOK /\ LoopsInv
    BY DEF ServerInv
  <1>2. /\ loop[l].pc = "run" /\ loop[l].at <= Len(loop[l].batch)
        /\ loop' = [loop EXCEPT ![l].at = @ + 1]
        /\ UNCHANGED <<pool, peerClosed, held>>
    BY DEF RunFunctor
  <1>3. loop' \in [Loops -> LoopThread]
    BY <1>1, <1>2, FunctorBegins
  <1>4. /\ \A k \in Loops \ {l} : loop'[k] = loop[k]
        /\ loop'[l].pc = loop[l].pc /\ loop'[l].batch = loop[l].batch
        /\ loop'[l].at = loop[l].at + 1 /\ loop'[l].active = {}
        /\ loop[l].active = {}
        /\ loop[l].at \in Nat /\ Len(loop[l].batch) \in Nat
    <2>1. loop[l].active = {}
      BY <1>1, <1>2 DEF LoopsInv
    <2>2. loop[l] \in LoopThread /\ loop[l].at \in Nat
          /\ loop[l].batch \in Seq(Functor)
      BY <1>1 DEF TypeOK, LoopThread
    <2>3. QED
      BY <1>1, <1>2, <2>1, <2>2 DEF TypeOK, LoopThread
  <1>5. CoreInv' /\ ChangesOne(l)
    BY RunInv
  <1>6. loop'[l].at <= Len(loop[l].batch) + 1
    BY <1>2, <1>4
  <1>7. LoopsInv'
    BY <1>3, <1>4, <1>5, <1>6, LoopsKept
  <1>8. QED
    BY <1>1, <1>2, <1>3, <1>5, <1>7, ServerOfCore DEF TypeOK

(* Accepting a client keeps the invariant and sets up one connection.      *)
LEMMA AcceptInv ==
  ASSUME ServerInv, Accept
  PROVE  /\ ServerInv'
         /\ \E c \in Conns :
              /\ conn[c].state = "none"
              /\ \A d \in Conns \ {c} : conn'[d] = conn[d]
              /\ conn'[c].state \in {"kConnecting", "kConnected"}
  <1>1. TypeOK /\ LoopsInv /\ BaseLoop \in Loops
    BY DEF ServerInv, Loops
  <1>2. PICK c \in Conns, fd \in FreeFds :
          conn[c].state = "none" /\ NewConnection(c, fd)
    BY DEF Accept
  <1>3. /\ loop' = [loop EXCEPT ![BaseLoop].active = @ \ {Listen}]
        /\ UNCHANGED <<peerClosed, held>>
    BY DEF Accept
  <1>4. /\ loop'[BaseLoop] = [loop[BaseLoop] EXCEPT !.active = @ \ {Listen}]
        /\ \A k \in Loops \ {BaseLoop} : loop'[k] = loop[k]
        /\ loop[BaseLoop] \in LoopThread
    BY <1>1, <1>3 DEF TypeOK
  <1>5. /\ loop'[BaseLoop] \in LoopThread
        /\ loop'[BaseLoop].pc = loop[BaseLoop].pc
        /\ loop'[BaseLoop].batch = loop[BaseLoop].batch
        /\ loop'[BaseLoop].at = loop[BaseLoop].at
        /\ loop'[BaseLoop].active = loop[BaseLoop].active \ {Listen}
    BY <1>4 DEF LoopThread
  <1>6. \A k \in Loops :
          /\ loop'[k] \in LoopThread
          /\ loop'[k].pc = loop[k].pc
          /\ loop'[k].batch = loop[k].batch
          /\ loop'[k].at = loop[k].at
          /\ loop'[k].active \subseteq loop[k].active
          /\ loop'[k].active \ {Listen} \subseteq Conns
    <2>1. ASSUME NEW k \in Loops
          PROVE  /\ loop[k] \in LoopThread
                 /\ loop[k].active \ {Listen} \subseteq Conns
      BY <1>1 DEF TypeOK, LoopThread
    <2>2. ASSUME NEW k \in Loops
          PROVE  /\ loop'[k] \in LoopThread
                 /\ loop'[k].pc = loop[k].pc
                 /\ loop'[k].batch = loop[k].batch
                 /\ loop'[k].at = loop[k].at
                 /\ loop'[k].active \subseteq loop[k].active
                 /\ loop'[k].active \ {Listen} \subseteq Conns
      <3>1. CASE k = BaseLoop
        BY <1>5, <2>1, <3>1
      <3>2. CASE k # BaseLoop
        BY <1>4, <2>1, <3>2
      <3>3. QED
        BY <3>1, <3>2
    <2>3. QED
      BY <2>2
  <1>7. LoopFrame
    BY <1>6 DEF LoopFrame
  <1>8. loop' \in [Loops -> LoopThread]
    <2>1. loop' = [k \in Loops |-> loop'[k]]
      BY <1>1, <1>3 DEF TypeOK
    <2>2. QED
      BY <1>6, <2>1
  <1>9. /\ CoreInv'
        /\ \A d \in Conns \ {c} : conn'[d] = conn[d]
        /\ conn'[c].state \in {"kConnecting", "kConnected"}
    BY <1>2, <1>7, NewConnectionInv
  <1>10. LoopsInv'
    <2> SUFFICES ASSUME NEW k \in Loops
                 PROVE  /\ loop'[k].pc # "dispatch" => loop'[k].active = {}
                        /\ loop'[k].pc # "run" => loop'[k].batch = <<>>
                        /\ loop'[k].at <= Len(loop'[k].batch) + 1
                        /\ \A d \in loop'[k].active \ {Listen} :
                             /\ conn'[d].loop = k
                             /\ conn'[d].state
                                  \in {"kConnected", "kDisconnecting"}
      BY DEF LoopsInv
    <2>1. /\ loop[k].pc # "dispatch" => loop[k].active = {}
          /\ loop[k].pc # "run" => loop[k].batch = <<>>
          /\ loop[k].at <= Len(loop[k].batch) + 1
          /\ \A d \in loop[k].active \ {Listen} :
               /\ conn[d].loop = k
               /\ conn[d].state \in {"kConnected", "kDisconnecting"}
      BY <1>1 DEF LoopsInv
    <2>2. loop[k].active = {} => loop'[k].active = {}
      BY <1>6
    <2>3. ASSUME NEW d \in loop'[k].active \ {Listen}
          PROVE  /\ conn'[d].loop = k
                 /\ conn'[d].state \in {"kConnected", "kDisconnecting"}
      <3>1. d \in loop[k].active \ {Listen} /\ d \in Conns
        BY <1>6
      <3>2. /\ conn[d].loop = k
            /\ conn[d].state \in {"kConnected", "kDisconnecting"}
        BY <2>1, <3>1
      <3>3. conn'[d] = conn[d]
        BY <1>2, <1>9, <3>1, <3>2
      <3>4. QED
        BY <3>2, <3>3
    <2>4. QED
      BY <1>6, <2>1, <2>2, <2>3
  <1>11. /\ pool' \in [loops : Seq(Loops), next : Nat]
         /\ pool'.loops # <<>> => pool'.next < Len(pool'.loops)
    BY <1>1, <1>2, AdvanceNextType DEF NewConnection
  <1>12. ServerInv'
    BY <1>1, <1>3, <1>8, <1>9, <1>10, <1>11, ServerOfCore DEF TypeOK
  <1>13. QED
    BY <1>2, <1>9, <1>12

(* What epoll_wait reports are open connections of the loop that waits.    *)
LEMMA PollInv ==
  ASSUME ServerInv, NEW l \in Loops, Poll(l)
  PROVE  ServerInv'
  <1>1. TypeOK /\ LoopsInv /\ PhaseInv
    BY DEF ServerInv
  <1>2. PICK active \in SUBSET (Served(l) \union {Listen}) :
          /\ loop[l].pc = "poll"
          /\ loop' = [loop EXCEPT ![l].pc = "dispatch", ![l].active = active]
    <2>1. PICK data \in SUBSET Served(l), client \in SUBSET {Listen} :
            loop' = [loop EXCEPT ![l].pc = "dispatch",
                                 ![l].active =
                                    (Served(l) \intersect peerClosed)
                                      \union data
                                      \union (IF l = BaseLoop
                                              THEN client ELSE {})]
      BY DEF Poll
    <2>2. (Served(l) \intersect peerClosed) \union data
            \union (IF l = BaseLoop THEN client ELSE {})
              \in SUBSET (Served(l) \union {Listen})
      OBVIOUS
    <2>3. QED
      BY <2>1, <2>2 DEF Poll
  <1>3. UNCHANGED <<conn, connections_, pool, pending, peerClosed, held>>
    BY DEF Poll
  <1>4. \A d \in active \ {Listen} :
          /\ d \in Conns /\ conn[d].loop = l
          /\ conn[d].state \in {"kConnected", "kDisconnecting"}
    BY <1>1, <1>2 DEF Served, PhaseInv
  <1>5. /\ loop[l] \in LoopThread
        /\ loop'[l] = [loop[l] EXCEPT !.pc = "dispatch", !.active = active]
        /\ \A k \in Loops \ {l} : loop'[k] = loop[k]
    BY <1>1, <1>2 DEF TypeOK
  <1>6. /\ loop'[l] \in LoopThread
        /\ loop'[l].pc = "dispatch" /\ loop'[l].active = active
        /\ loop'[l].batch = loop[l].batch /\ loop'[l].at = loop[l].at
    <2>1. active \in SUBSET (Conns \union {Listen})
      BY <1>4
    <2>2. QED
      BY <1>5, <2>1 DEF LoopThread
  <1>7. LoopFrame
    <2>1. ASSUME NEW k \in Loops
          PROVE  loop'[k].batch = loop[k].batch /\ loop'[k].at = loop[k].at
      BY <1>5, <1>6
    <2>2. QED
      BY <2>1 DEF LoopFrame
  <1>8. loop' \in [Loops -> LoopThread]
    <2>1. ASSUME NEW k \in Loops
          PROVE  loop'[k] \in LoopThread
      BY <1>1, <1>5, <1>6 DEF TypeOK
    <2>2. loop' = [k \in Loops |-> loop'[k]]
      BY <1>1, <1>2 DEF TypeOK
    <2>3. QED
      BY <2>1, <2>2
  <1>9. LoopsInv'
    <2> SUFFICES ASSUME NEW k \in Loops
                 PROVE  /\ loop'[k].pc # "dispatch" => loop'[k].active = {}
                        /\ loop'[k].pc # "run" => loop'[k].batch = <<>>
                        /\ loop'[k].at <= Len(loop'[k].batch) + 1
                        /\ \A d \in loop'[k].active \ {Listen} :
                             /\ conn'[d].loop = k
                             /\ conn'[d].state
                                  \in {"kConnected", "kDisconnecting"}
      BY DEF LoopsInv
    <2>1. CASE k = l
      <3>1. loop[l].batch = <<>> /\ loop[l].at <= Len(loop[l].batch) + 1
        BY <1>1, <1>2 DEF LoopsInv
      <3>2. QED
        BY <1>3, <1>4, <1>6, <2>1, <3>1
    <2>2. CASE k # l
      BY <1>1, <1>3, <1>5, <2>2 DEF LoopsInv
    <2>3. QED
      BY <2>1, <2>2
  <1>10. CoreInv'
    BY <1>3, <1>7, SkipInv
  <1>11. QED
    BY <1>1, <1>3, <1>8, <1>9, <1>10, ServerOfCore DEF TypeOK

(* The client and the application.                                         *)
LEMMA OutsideInv ==
  ASSUME ServerInv, NEW c \in Conns,
         PeerClose(c) \/ Hold(c) \/ Release(c)
  PROVE  ServerInv'
  <1>1. TypeOK /\ LoopsInv
    BY DEF ServerInv
  <1>2. /\ UNCHANGED <<conn, connections_, pool, pending, loop>>
        /\ peerClosed' \subseteq Conns /\ held' \subseteq Conns
    BY <1>1 DEF TypeOK, PeerClose, Hold, Release
  <1>3. LoopFrame
    BY <1>2 DEF LoopFrame
  <1>4. CoreInv'
    BY <1>2, <1>3, SkipInv
  <1>5. LoopsInv'
    BY <1>1, <1>2 DEF LoopsInv
  <1>6. QED
    BY <1>1, <1>2, <1>4, <1>5, ServerOfCore DEF TypeOK

(* Taking the queue as a batch, or leaving a batch, changes neither what   *)
(* waits nor how often, and no functor of forceClose() is separated from   *)
(* the connectDestroyed() that keeps its connection.                       *)
LEMMA BatchInv ==
  ASSUME ServerInv, NEW l \in Loops, BeginPending(l) \/ EndPending(l)
  PROVE  /\ ServerInv'
         /\ \A k \in Loops : /\ Waiting(k)' = Waiting(k)
                             /\ \A f \in Functor : Once(k, f) => Once(k, f)'
  <1>1. /\ TypeOK /\ LoopsInv /\ PhaseInv /\ FunctorsInv /\ KeptInv
        /\ TableInv
    BY CoreOfServer DEF ServerInv, CoreInv
  <1>2. UNCHANGED <<conn, connections_, pool, peerClosed, held>>
    BY DEF BeginPending, EndPending
  <1>3. /\ loop[l] \in LoopThread /\ pending[l] \in Seq(Functor)
        /\ loop[l].at \in Nat \ {0} /\ loop[l].batch \in Seq(Functor)
        /\ Len(loop[l].batch) \in Nat /\ Len(pending[l]) \in Nat
        /\ loop[l].active = {}
        /\ DOMAIN pending[l] = 1 .. Len(pending[l])
    <2>1. loop[l] \in LoopThread /\ pending[l] \in Seq(Functor)
      BY <1>1 DEF TypeOK
    <2>2. /\ loop[l].at \in Nat \ {0} /\ loop[l].batch \in Seq(Functor)
          /\ loop[l].pc # "dispatch" => loop[l].active = {}
      BY <1>1, <2>1 DEF LoopThread, LoopsInv
    <2>3. loop[l].active = {}
      BY <2>2 DEF BeginPending, EndPending
    <2>4. QED
      BY <2>1, <2>2, <2>3
  <1>4. \A k \in Loops \ {l} : loop'[k] = loop[k] /\ pending'[k] = pending[k]
    BY <1>1 DEF BeginPending, EndPending, TypeOK
  <1>5. /\ loop'[l] \in LoopThread
        /\ pending'[l] \in Seq(Functor)
        /\ loop'[l].active = {}
        /\ loop'[l].pc # "run" => loop'[l].batch = <<>>
        /\ loop'[l].at = 1
        /\ \/ /\ loop[l].batch = <<>> /\ loop'[l].batch = pending[l]
              /\ pending'[l] = <<>> /\ loop[l].at = 1
           \/ /\ loop'[l].batch = <<>> /\ pending'[l] = pending[l]
              /\ loop[l].at > Len(loop[l].batch)
    <2>1. CASE BeginPending(l)
      <3>1. loop[l].batch = <<>> /\ loop[l].at = 1
        BY <1>1, <1>3, <2>1 DEF BeginPending, LoopsInv
      <3>2. /\ loop'[l] = [loop[l] EXCEPT !.pc = "run", !.batch = pending[l]]
            /\ pending'[l] = <<>>
        BY <1>1, <2>1 DEF BeginPending, TypeOK
      <3>3. /\ loop'[l] \in LoopThread
            /\ loop'[l].active = loop[l].active /\ loop'[l].pc = "run"
            /\ loop'[l].at = loop[l].at /\ loop'[l].batch = pending[l]
        BY <1>3, <3>2 DEF LoopThread
      <3>4. <<>> \in Seq(Functor)
        OBVIOUS
      <3>5. loop'[l].active = {} /\ loop'[l].at = 1
        BY <1>3, <3>1, <3>3
      <3>6. pending'[l] \in Seq(Functor)
        BY <3>2, <3>4
      <3>7. loop[l].batch = <<>> /\ loop'[l].batch = pending[l]
            /\ pending'[l] = <<>> /\ loop[l].at = 1
        BY <3>1, <3>2, <3>3
      <3>8. loop'[l].pc # "run" => loop'[l].batch = <<>>
        BY <3>3
      <3>9. QED
        BY <3>3, <3>5, <3>6, <3>7, <3>8
    <2>2. CASE EndPending(l)
      <3>1. /\ loop'[l] = [loop[l] EXCEPT !.pc = "poll", !.batch = <<>>,
                                          !.at = 1]
            /\ pending'[l] = pending[l]
        BY <1>1, <2>2 DEF EndPending, TypeOK
      <3>2. /\ loop'[l] \in LoopThread
            /\ loop'[l].active = loop[l].active /\ loop'[l].batch = <<>>
            /\ loop'[l].at = 1
        <4>1. /\ loop[l].active \in SUBSET (Conns \union {Listen})
              /\ <<>> \in Seq(Functor) /\ 1 \in Nat \ {0}
          BY <1>3 DEF LoopThread
        <4>2. loop'[l] = [pc |-> "poll", active |-> loop[l].active,
                          batch |-> <<>>, at |-> 1]
          BY <1>3, <3>1 DEF LoopThread
        <4>3. QED
          BY <4>1, <4>2 DEF LoopThread
      <3>3. QED
        BY <1>3, <2>2, <3>1, <3>2 DEF EndPending
    <2>3. QED
      BY <2>1, <2>2
  <1>6. /\ loop' \in [Loops -> LoopThread]
        /\ pending' \in [Loops -> Seq(Functor)]
    <2>1. ASSUME NEW k \in Loops
          PROVE  loop'[k] \in LoopThread /\ pending'[k] \in Seq(Functor)
      BY <1>1, <1>4, <1>5 DEF TypeOK
    <2>2. loop' = [k \in Loops |-> loop'[k]]
      BY <1>1 DEF BeginPending, EndPending, TypeOK
    <2>3. pending' = [k \in Loops |-> pending'[k]]
      BY <1>1 DEF BeginPending, EndPending, TypeOK
    <2>4. QED
      BY <2>1, <2>2, <2>3
  <1>7. ASSUME NEW k \in Loops
        PROVE  /\ Waiting(k)' = Waiting(k)
               /\ \A f \in Functor : Once(k, f) => Once(k, f)'
    <2>1. CASE k # l
      <3>1. loop'[k] = loop[k] /\ pending'[k] = pending[k]
        BY <1>4, <2>1
      <3>2. QED
        BY <3>1 DEF Waiting, Todo, Elems, Once
    <2>2. CASE /\ k = l /\ loop[l].batch = <<>> /\ loop[l].at = 1
               /\ loop'[l].batch = pending[l] /\ pending'[l] = <<>>
      <3>1. Todo(l) = {} /\ Elems(pending'[l]) = {}
        BY <2>2 DEF Todo, Elems
      <3>2. Todo(l)' = Elems(pending[l])
        BY <1>3, <1>5, <2>2 DEF Todo, Elems
      <3>3. ASSUME NEW f \in Functor, Once(l, f)
            PROVE  Once(l, f)'
        <4>1. \A i, j \in loop'[l].at .. Len(loop'[l].batch) :
                loop'[l].batch[i] = f /\ loop'[l].batch[j] = f => i = j
          BY <1>3, <1>5, <2>2, <3>3 DEF Once
        <4>2. DOMAIN pending'[l] = {}
          BY <2>2
        <4>3. QED
          BY <3>1, <4>1, <4>2 DEF Once
      <3>4. QED
        BY <2>2, <3>1, <3>2, <3>3 DEF Waiting
    <2>3. CASE /\ k = l /\ loop'[l].batch = <<>> /\ pending'[l] = pending[l]
               /\ loop[l].at > Len(loop[l].batch)
      <3>1. Todo(l) = {}
        BY <1>3, <2>3 DEF Todo
      <3>2. loop'[l].at .. Len(loop'[l].batch) = {} /\ Todo(l)' = {}
        BY <1>5, <2>3 DEF Todo
      <3>3. QED
        BY <2>3, <3>1, <3>2 DEF Waiting, Once
    <2>4. QED
      BY <1>5, <2>1, <2>2, <2>3
  <1>8. TypeInv' /\ PhaseInv' /\ TableInv'
    BY <1>1, <1>2, <1>6 DEF TypeInv, TypeOK, PhaseInv, TableInv
  <1>9. FunctorsInv'
    <2> SUFFICES ASSUME NEW k \in Loops, NEW f \in Waiting(k)'
                 PROVE  FunctorOk(k, f)'
      BY DEF FunctorsInv, FunctorOk
    <2>1. f \in Functor /\ FunctorOk(k, f) /\ (Once(k, f) => Once(k, f)')
      BY <1>1, <1>7, WaitingType DEF FunctorsInv, FunctorOk
    <2>2. QED
      BY <1>2, <2>1 DEF FunctorOk
  <1>10. KeptInv'
    <2> SUFFICES ASSUME NEW k \in Loops, NEW d \in Conns,
                        [op |-> "forceCloseInLoop", c |-> d] \in Waiting(k)'
                 PROVE  LET force == [op |-> "forceCloseInLoop", c |-> d]
                            destroy == [op |-> "connectDestroyed", c |-> d]
                        IN \/ connections_'[conn'[d].fd] = d
                           \/ destroy \in Elems(pending'[k])
                           \/ /\ destroy \in Elems(loop'[k].batch)
                              /\ force \notin Elems(pending'[k])
      BY DEF KeptInv
    <2> DEFINE force == [op |-> "forceCloseInLoop", c |-> d]
               destroy == [op |-> "connectDestroyed", c |-> d]
    <2>1. \/ connections_[conn[d].fd] = d
          \/ destroy \in Elems(pending[k])
          \/ /\ destroy \in Elems(loop[k].batch)
             /\ force \notin Elems(pending[k])
      BY <1>1, <1>7 DEF KeptInv
    <2>2. CASE k # l
      BY <1>2, <1>4, <2>1, <2>2
    <2>3. CASE /\ k = l /\ loop[l].batch = <<>> /\ loop[l].at = 1
               /\ loop'[l].batch = pending[l] /\ pending'[l] = <<>>
      BY <1>2, <2>1, <2>3 DEF Elems
    <2>4. CASE /\ k = l /\ loop'[l].batch = <<>> /\ pending'[l] = pending[l]
               /\ loop[l].at > Len(loop[l].batch)
      <3>1. Todo(l) = {}
        BY <1>3, <2>4 DEF Todo
      <3>2. force \in Elems(pending[l])
        BY <1>7, <2>4, <3>1 DEF Waiting
      <3>3. QED
        BY <1>2, <2>1, <2>4, <3>2
    <2>5. QED
      BY <1>5, <2>2, <2>3, <2>4
  <1>11. LoopsInv'
    <2> SUFFICES ASSUME NEW k \in Loops
                 PROVE  /\ loop'[k].pc # "dispatch" => loop'[k].active = {}
                        /\ loop'[k].pc # "run" => loop'[k].batch = <<>>
                        /\ loop'[k].at <= Len(loop'[k].batch) + 1
                        /\ \A d \in loop'[k].active \ {Listen} :
                             /\ conn'[d].loop = k
                             /\ conn'[d].state
                                  \in {"kConnected", "kDisconnecting"}
      BY DEF LoopsInv
    <2>1. CASE k = l
      <3>1. Len(loop'[l].batch) \in Nat
        BY <1>5 DEF LoopThread
      <3>2. QED
        BY <1>5, <2>1, <3>1
    <2>2. CASE k # l
      BY <1>1, <1>2, <1>4, <2>2 DEF LoopsInv
    <2>3. QED
      BY <2>1, <2>2
  <1>12. CoreInv'
    BY <1>8, <1>9, <1>10 DEF CoreInv
  <1>13. ServerInv'
    BY <1>1, <1>2, <1>6, <1>11, <1>12, ServerOfCore DEF TypeOK
  <1>14. QED
    BY <1>7, <1>13

(* Every step keeps the invariant.                                         *)
LEMMA NextInv ==
  ASSUME ServerInv, [Next]_vars
  PROVE  ServerInv'
  <1>1. CASE UNCHANGED vars
    <2>1. LoopFrame /\ UNCHANGED <<conn, connections_, pending>>
      BY <1>1 DEF vars, LoopFrame
    <2>2. CoreInv'
      BY <2>1, SkipInv
    <2>3. LoopsInv'
      BY <1>1 DEF vars, ServerInv, LoopsInv
    <2>4. QED
      BY <1>1, <2>2, <2>3, ServerOfCore DEF vars, ServerInv, TypeOK
  <1>2. ASSUME NEW l \in Loops, Poll(l) \/ LoopStep(l)
        PROVE  ServerInv'
    BY <1>2, PollInv, DispatchInv, AcceptInv, BatchInv, RunFunctorInv
       DEF LoopStep
  <1>3. ASSUME NEW c \in Conns, PeerClose(c) \/ Hold(c) \/ Release(c)
        PROVE  ServerInv'
    BY <1>3, OutsideInv
  <1>4. QED
    BY <1>1, <1>2, <1>3 DEF Next

-----------------------------------------------------------------------------
(***************************************************************************)
(* How often connectDestroyed() runs. A step begins the functors B and     *)
(* queues the functors A, both at most one, as pairs of a loop and a       *)
(* functor; the others go on waiting.                                      *)
(***************************************************************************)
Begins(B) ==
  /\ LoopFrame
  /\ \A l \in Loops : \A f \in Functor :
       /\ f \in Todo(l) /\ <<l, f>> \notin B => f \in Todo(l)'
       /\ <<l, f>> \in B /\ Once(l, f)
            => f \notin Todo(l)' /\ f \notin Elems(pending[l])

Moves(B, A) ==
  \A l \in Loops : \A f \in Functor :
    /\ f \in Waiting(l) /\ <<l, f>> \notin B => f \in Waiting(l)'
    /\ f \in Waiting(l)' /\ <<l, f>> \notin A => f \in Waiting(l)
    /\ <<l, f>> \in A => f \in Waiting(l)'
    /\ <<l, f>> \in B /\ <<l, f>> \notin A /\ Once(l, f)
         => f \notin Waiting(l)'
    /\ Once(l, f) /\ (<<l, f>> \in A => f \notin Waiting(l)) => Once(l, f)'
    /\ <<l, f>> \in A /\ f \notin Waiting(l) => Once(l, f)'

(* A step that queues nothing.                                             *)
LEMMA MovesNone ==
  ASSUME TypeOK, NEW B, Begins(B), UNCHANGED pending
  PROVE  Moves(B, {})
  <1> SUFFICES ASSUME NEW l \in Loops, NEW f \in Functor
               PROVE  /\ f \in Waiting(l) /\ <<l, f>> \notin B
                           => f \in Waiting(l)'
                      /\ f \in Waiting(l)' => f \in Waiting(l)
                      /\ <<l, f>> \in B /\ Once(l, f) => f \notin Waiting(l)'
                      /\ Once(l, f) => Once(l, f)'
    BY DEF Moves
  <1>1. /\ Waiting(l)' \subseteq Waiting(l)
        /\ Once(l, f) => Once(l, f)'
    BY SameQueues DEF Begins
  <1>2. /\ f \in Todo(l) /\ <<l, f>> \notin B => f \in Todo(l)'
        /\ <<l, f>> \in B /\ Once(l, f)
             => f \notin Todo(l)' /\ f \notin Elems(pending[l])
    BY DEF Begins
  <1>3. QED
    BY <1>1, <1>2 DEF Waiting

(* A step that queues one functor.                                         *)
LEMMA MovesOne ==
  ASSUME TypeOK, NEW B, Begins(B),
         NEW k \in Loops, NEW c \in Conns, NEW op \in Ops,
         Enqueue(k, op, c)
  PROVE  Moves(B, {<<k, [op |-> op, c |-> c]>>})
  <1> DEFINE g == [op |-> op, c |-> c]
             A == {<<k, g>>}
  <1> SUFFICES Moves(B, A)
    OBVIOUS
  <1>1. \A l, f : <<l, f>> \in A <=> l = k /\ f = g
    OBVIOUS
  <1>2. LoopFrame
    BY DEF Begins
  <1>3. ASSUME NEW l \in Loops, NEW f \in Functor
        PROVE  /\ l # k => Waiting(l)' \subseteq Waiting(l)
               /\ Waiting(l)' \subseteq Waiting(l) \union {g}
               /\ Once(l, f) /\ (l # k \/ f # g) => Once(l, f)'
               /\ l = k /\ f = g /\ f \notin Waiting(l) => Once(l, f)'
               /\ Elems(pending[l]) \subseteq Elems(pending'[l])
               /\ Elems(pending'[l]) \subseteq Elems(pending[l]) \union {g}
               /\ l = k => g \in Elems(pending'[l])
    BY <1>2, EnqueueQueues
  <1>4. \A l \in Loops : l # k => pending'[l] = pending[l]
    BY DEF Enqueue, TypeOK
  <1> HIDE DEF g, A
  <1>5. ASSUME NEW l \in Loops, NEW f \in Functor
        PROVE  /\ f \in Waiting(l) /\ <<l, f>> \notin B => f \in Waiting(l)'
               /\ f \in Waiting(l)' /\ <<l, f>> \notin A => f \in Waiting(l)
               /\ <<l, f>> \in A => f \in Waiting(l)'
               /\ <<l, f>> \in B /\ <<l, f>> \notin A /\ Once(l, f)
                    => f \notin Waiting(l)'
               /\ Once(l, f) /\ (<<l, f>> \in A => f \notin Waiting(l))
                    => Once(l, f)'
               /\ <<l, f>> \in A /\ f \notin Waiting(l) => Once(l, f)'
    <2>1. /\ f \in Todo(l) /\ <<l, f>> \notin B => f \in Todo(l)'
          /\ <<l, f>> \in B /\ Once(l, f)
               => f \notin Todo(l)' /\ f \notin Elems(pending[l])
      BY DEF Begins
    <2>2. /\ f \in Waiting(l)' <=> f \in Elems(pending'[l]) \/ f \in Todo(l)'
          /\ f \in Waiting(l) <=> f \in Elems(pending[l]) \/ f \in Todo(l)
      BY DEF Waiting
    <2>3. QED
      BY <1>1, <1>3, <1>4, <2>1, <2>2
  <1>6. QED
    BY <1>5 DEF Moves

(* EndedInv, for one connection.                                           *)
RemoveOf(c) == [op |-> "removeConnectionInLoop", c |-> c]
DestroyOf(c) == [op |-> "connectDestroyed", c |-> c]

EndedOf(c) ==
  /\ conn[c].state # "kDisconnected" => conn[c].ended = 0
  /\ RemoveOf(c) \in Waiting(BaseLoop) => conn[c].ended = 0
  /\ \A l \in Loops :
       DestroyOf(c) \in Waiting(l) => /\ conn[c].ended = 0
                                      /\ RemoveOf(c) \notin Waiting(BaseLoop)
                                      /\ Once(l, DestroyOf(c))
  /\ conn[c].state = "kDisconnected" /\ conn[c].ended # 1 =>
       \/ RemoveOf(c) \in Waiting(BaseLoop)
       \/ DestroyOf(c) \in Waiting(conn[c].loop)

(* None of the functors S leads to connectDestroyed() of c.                *)
Spares(S, c) ==
  \A l \in Loops : <<l, RemoveOf(c)>> \notin S /\ <<l, DestroyOf(c)>> \notin S

(* The two are functors.                                                   *)
LEMMA EndFunctors ==
  ASSUME NEW c \in Conns
  PROVE  RemoveOf(c) \in Functor /\ DestroyOf(c) \in Functor
  BY DEF RemoveOf, DestroyOf, Functor

(* A connection that the step does not bring nearer to its end.            *)
LEMMA EndedSpared ==
  ASSUME NEW c \in Conns, EndedOf(c), NEW B, NEW A, Moves(B, A),
         Spares(B, c), Spares(A, c),
         conn[c].state = "kDisconnected" => conn[c].loop \in Loops,
         conn'[c].ended = conn[c].ended,
         conn'[c].state = "kDisconnected" <=> conn[c].state = "kDisconnected",
         conn[c].state = "kDisconnected" => conn'[c].loop = conn[c].loop
  PROVE  EndedOf(c)'
  <1>1. /\ RemoveOf(c) \in Functor /\ DestroyOf(c) \in Functor
        /\ BaseLoop \in Loops
    BY EndFunctors DEF Loops
  <1>2. ASSUME NEW l \in Loops
        PROVE  /\ RemoveOf(c) \in Waiting(l)' <=> RemoveOf(c) \in Waiting(l)
               /\ DestroyOf(c) \in Waiting(l)' <=> DestroyOf(c) \in Waiting(l)
               /\ Once(l, DestroyOf(c)) => Once(l, DestroyOf(c))'
    BY <1>1 DEF Moves, Spares
  <1>3. QED
    BY <1>1, <1>2 DEF EndedOf

(* What is known of the two functors while they wait.                      *)
LEMMA EndWaiting ==
  ASSUME ServerInv, NEW c \in Conns, NEW l \in Loops
  PROVE  /\ RemoveOf(c) \in Waiting(l) =>
              /\ l = BaseLoop /\ conn[c].state = "kDisconnected"
              /\ Once(l, RemoveOf(c))
         /\ DestroyOf(c) \in Waiting(l) =>
              conn[c].state = "kDisconnected" /\ conn[c].loop = l
  BY DEF ServerInv, FunctorsInv, RemoveOf, DestroyOf

(* removeConnection() is on its way through the acceptor's loop.           *)
LEMMA EndedRemoving ==
  ASSUME ServerInv, NEW c \in Conns, NEW B, Spares(B, c),
         conn[c].state # "kDisconnected", EndedOf(c),
         Moves(B, {<<BaseLoop, RemoveOf(c)>>}),
         conn'[c].ended = conn[c].ended, conn'[c].loop = conn[c].loop
  PROVE  EndedOf(c)'
  <1> DEFINE A == {<<BaseLoop, RemoveOf(c)>>}
  <1>1. /\ RemoveOf(c) \in Functor /\ DestroyOf(c) \in Functor
        /\ BaseLoop \in Loops
    BY EndFunctors DEF Loops
  <1>2. \A l \in Loops : <<l, DestroyOf(c)>> \notin A
    BY DEF RemoveOf, DestroyOf
  <1>3. <<BaseLoop, RemoveOf(c)>> \in A
    OBVIOUS
  <1> HIDE DEF A
  <1>4. Moves(B, A)
    BY DEF A
  <1>5. /\ RemoveOf(c) \in Waiting(BaseLoop)'
        /\ \A l \in Loops : DestroyOf(c) \notin Waiting(l)'
    BY <1>1, <1>2, <1>3, <1>4, EndWaiting DEF Moves
  <1>6. conn'[c].ended = 0
    BY DEF EndedOf
  <1>7. QED
    BY <1>5, <1>6 DEF EndedOf

(* connectDestroyed() is queued for the first time.                        *)
LEMMA EndedQueued ==
  ASSUME ServerInv, NEW c \in Conns, NEW B, NEW k \in Loops,
         k = conn[c].loop, conn'[c].loop = k,
         conn[c].ended = 0, conn'[c].ended = 0,
         conn'[c].state = "kDisconnected",
         \A l \in Loops : DestroyOf(c) \notin Waiting(l),
         Moves(B, {<<k, DestroyOf(c)>>}),
         RemoveOf(c) \notin Waiting(BaseLoop)'
  PROVE  EndedOf(c)'
  <1> DEFINE A == {<<k, DestroyOf(c)>>}
  <1>1. \A l \in Loops : <<l, DestroyOf(c)>> \in A <=> l = k
    OBVIOUS
  <1> HIDE DEF A
  <1>2. Moves(B, A) /\ DestroyOf(c) \in Functor
    BY EndFunctors DEF A
  <1>3. DestroyOf(c) \in Waiting(k)' /\ Once(k, DestroyOf(c))'
    BY <1>1, <1>2 DEF Moves
  <1>4. \A l \in Loops : DestroyOf(c) \in Waiting(l)' => l = k
    BY <1>1, <1>2 DEF Moves
  <1>5. QED
    BY <1>3, <1>4 DEF EndedOf

(* connectDestroyed() runs.                                                *)
LEMMA EndedRun ==
  ASSUME ServerInv, NEW c \in Conns, NEW k \in Loops, EndedOf(c),
         DestroyOf(c) \in Waiting(k), Moves({<<k, DestroyOf(c)>>}, {}),
         conn'[c].ended = conn[c].ended + 1, conn'[c].state = "kDisconnected"
  PROVE  EndedOf(c)'
  <1> DEFINE B == {<<k, DestroyOf(c)>>}
  <1>1. <<k, DestroyOf(c)>> \in B
    OBVIOUS
  <1> HIDE DEF B
  <1>2. /\ Moves(B, {}) /\ BaseLoop \in Loops
        /\ RemoveOf(c) \in Functor /\ DestroyOf(c) \in Functor
    BY EndFunctors DEF B, Loops
  <1>3. /\ conn[c].ended = 0 /\ Once(k, DestroyOf(c))
        /\ RemoveOf(c) \notin Waiting(BaseLoop)
        /\ \A l \in Loops : DestroyOf(c) \in Waiting(l) => l = k
    BY EndWaiting DEF EndedOf
  <1>4. RemoveOf(c) \notin Waiting(BaseLoop)'
    BY <1>2, <1>3 DEF Moves
  <1>5. ASSUME NEW l \in Loops
        PROVE  DestroyOf(c) \notin Waiting(l)'
    BY <1>1, <1>2, <1>3 DEF Moves
  <1>6. conn'[c].ended = 1
    BY <1>3
  <1>7. QED
    BY <1>4, <1>5, <1>6 DEF EndedOf

(* EndedInv says this of every connection.                                 *)
LEMMA EndedEach == /\ EndedInv <=> \A c \in Conns : EndedOf(c)
                   /\ EndedInv' <=> \A c \in Conns : EndedOf(c)'
  BY DEF EndedInv, EndedOf, RemoveOf, DestroyOf

(* A step that brings no connection nearer to its end.                     *)
LEMMA EndedQuiet ==
  ASSUME ServerInv, EndedInv, NEW B, NEW A, Moves(B, A),
         \A d \in Conns :
           /\ Spares(B, d) /\ Spares(A, d)
           /\ conn'[d].ended = conn[d].ended
           /\ conn'[d].state = "kDisconnected"
                <=> conn[d].state = "kDisconnected"
           /\ conn[d].state = "kDisconnected" => conn'[d].loop = conn[d].loop
  PROVE  EndedInv'
  <1>1. ASSUME NEW d \in Conns
        PROVE  EndedOf(d)'
    <2>1. conn[d].loop \in Loops
      BY DEF ServerInv, TypeOK, Connection
    <2>2. EndedOf(d)
      BY EndedEach
    <2>3. QED
      BY <2>1, <2>2, EndedSpared
  <1>2. QED
    BY <1>1, EndedEach

(* A step that changes one connection has to be checked for that one.      *)
LEMMA EndedOne ==
  ASSUME ServerInv, EndedInv, NEW c \in Conns, NEW B, NEW A, Moves(B, A),
         \A d \in Conns \ {c} :
           conn'[d] = conn[d] /\ Spares(B, d) /\ Spares(A, d),
         EndedOf(c)'
  PROVE  EndedInv'
  <1>1. ASSUME NEW d \in Conns, d # c
        PROVE  EndedOf(d)'
    <2>1. conn[d].loop \in Loops
      BY DEF ServerInv, TypeOK, Connection
    <2>2. EndedOf(d)
      BY EndedEach
    <2>3. conn'[d] = conn[d] /\ Spares(B, d) /\ Spares(A, d)
      BY <1>1
    <2>4. QED
      BY <2>1, <2>2, <2>3, EndedSpared
  <1>2. QED
    BY <1>1, EndedEach

(* handleClose() starts the way to connectDestroyed(), on either loop.     *)
LEMMA HandleCloseEnded ==
  ASSUME ServerInv, EndedInv, NEW B, Begins(B),
         \A d \in Conns : Spares(B, d),
         NEW l \in Loops, NEW c \in Conns,
         conn[c].loop = l, conn[c].state \in {"kConnected", "kDisconnecting"},
         HandleClose(l, c)
  PROVE  EndedInv'
  <1>1. TypeOK /\ BaseLoop \in Loops /\ conn[c] \in Connection
    BY DEF ServerInv, TypeOK, Loops
  <1>2. /\ \A d \in Conns \ {c} : conn'[d] = conn[d]
        /\ conn'[c].ended = conn[c].ended
        /\ conn'[c].loop = conn[c].loop
        /\ conn'[c].state = "kDisconnected"
    <2> DEFINE q == Close(conn[c])
    <2>1. conn' = [conn EXCEPT ![c] = q]
      BY DEF HandleClose
    <2>2. /\ q.ended = conn[c].ended /\ q.loop = conn[c].loop
          /\ q.state = "kDisconnected"
      BY <1>1, CloseRecord
    <2> HIDE DEF q
    <2>3. QED
      BY <1>1, <2>1, <2>2 DEF TypeOK
  <1>3. /\ EndedOf(c) /\ conn[c].ended = 0
        /\ \A k \in Loops : /\ RemoveOf(c) \notin Waiting(k)
                            /\ DestroyOf(c) \notin Waiting(k)
    <2>1. EndedOf(c)
      BY EndedEach
    <2>2. QED
      BY <2>1, EndWaiting DEF EndedOf
  <1>4. CASE l = BaseLoop
    <2> DEFINE A == {<<l, DestroyOf(c)>>}
    <2>1. Enqueue(l, "connectDestroyed", c) /\ "connectDestroyed" \in Ops
      BY <1>4 DEF HandleClose, RemoveConnection, RemoveConnectionInLoop, Ops
    <2>2. Moves(B, A)
      BY <1>1, <2>1, MovesOne DEF DestroyOf
    <2>3. /\ \A d \in Conns \ {c} : Spares(A, d)
          /\ <<l, RemoveOf(c)>> \notin A
      BY DEF Spares, RemoveOf, DestroyOf
    <2>4. RemoveOf(c) \notin Waiting(BaseLoop)'
      <3> HIDE DEF A
      <3>1. RemoveOf(c) \in Functor
        BY EndFunctors
      <3>2. QED
        BY <1>1, <1>3, <1>4, <2>2, <2>3, <3>1 DEF Moves
    <2>5. EndedOf(c)'
      BY <1>2, <1>3, <2>2, <2>4, EndedQueued
    <2> HIDE DEF A
    <2>6. QED
      BY <1>2, <2>2, <2>3, <2>5, EndedOne
  <1>5. CASE l # BaseLoop
    <2> DEFINE A == {<<BaseLoop, RemoveOf(c)>>}
    <2>1. /\ Enqueue(BaseLoop, "removeConnectionInLoop", c)
          /\ "removeConnectionInLoop" \in Ops
      BY <1>5 DEF HandleClose, RemoveConnection, Ops
    <2>2. Moves(B, A)
      BY <1>1, <2>1, MovesOne DEF RemoveOf
    <2>3. \A d \in Conns \ {c} : Spares(A, d)
      BY DEF Spares, RemoveOf, DestroyOf
    <2>4. EndedOf(c)'
      BY <1>2, <1>3, <2>2, EndedRemoving
    <2> HIDE DEF A
    <2>5. QED
      BY <1>2, <2>2, <2>3, <2>4, EndedOne
  <1>6. QED
    BY <1>4, <1>5

(* shutdown() and forceClose() leave it to the close that follows.         *)
LEMMA ShutdownEnded ==
  ASSUME ServerInv, EndedInv, Begins({}), NEW c \in Conns,
         Shutdown(c) \/ ForceClose(c)
  PROVE  EndedInv'
  <1>1. TypeOK /\ conn[c] \in Connection
    BY DEF ServerInv, TypeOK
  <1>2. /\ \A d \in Conns \ {c} : conn'[d] = conn[d]
        /\ conn'[c].ended = conn[c].ended
        /\ conn'[c].state # "kDisconnected"
        /\ conn[c].state # "kDisconnected"
    <2> DEFINE q == [conn[c] EXCEPT !.state = "kDisconnecting"]
    <2>1. conn' = [conn EXCEPT ![c] = q]
      BY DEF Shutdown, ForceClose
    <2>2. q.ended = conn[c].ended /\ q.state = "kDisconnecting"
      BY <1>1 DEF Connection
    <2> HIDE DEF q
    <2>3. conn[c].state # "kDisconnected"
      BY DEF Shutdown, ForceClose
    <2>4. QED
      BY <1>1, <2>1, <2>2, <2>3 DEF TypeOK
  <1>3. PICK A : Moves({}, A) /\ \A d \in Conns : Spares(A, d)
    <2>1. CASE Shutdown(c)
      <3>1. Moves({}, {})
        BY <1>1, <2>1, MovesNone DEF Shutdown
      <3>2. QED
        BY <3>1 DEF Spares
    <2>2. CASE ForceClose(c)
      <3> DEFINE k == conn[c].loop
                 f == [op |-> "forceCloseInLoop", c |-> c]
      <3>1. /\ Enqueue(k, "forceCloseInLoop", c) /\ k \in Loops
            /\ "forceCloseInLoop" \in Ops
        BY <1>1, <2>2 DEF ForceClose, Ops, Connection
      <3> HIDE DEF k
      <3>2. Moves({}, {<<k, f>>})
        BY <1>1, <3>1, MovesOne
      <3>3. \A d \in Conns : Spares({<<k, f>>}, d)
        BY DEF Spares, RemoveOf, DestroyOf
      <3> HIDE DEF f
      <3>4. QED
        BY <3>2, <3>3
    <2>3. QED
      BY <2>1, <2>2
  <1>4. \A d \in Conns : Spares({}, d)
    BY DEF Spares
  <1>5. QED
    BY <1>2, <1>3, <1>4, EndedQuiet

(* A step that begins no functor.                                          *)
LEMMA BeginsNone ==
  ASSUME \A k \in Loops : /\ loop'[k].batch = loop[k].batch
                          /\ loop'[k].at = loop[k].at
  PROVE  Begins({})
  <1>1. LoopFrame
    BY DEF LoopFrame
  <1>2. \A k \in Loops : Todo(k)' = Todo(k)
    BY DEF Todo
  <1>3. QED
    BY <1>1, <1>2 DEF Begins

(* The functor at the head of the batch begins.                            *)
LEMMA BeginsHead ==
  ASSUME TypeOK, NEW l \in Loops, loop[l].at <= Len(loop[l].batch),
         loop' = [loop EXCEPT ![l].at = @ + 1]
  PROVE  Begins({<<l, loop[l].batch[loop[l].at]>>})
  <1> DEFINE t == loop[l]
             f == t.batch[t.at]
             B == {<<l, f>>}
  <1>1. /\ Once(l, f) => f \notin Todo(l)' /\ f \notin Elems(pending[l])
        /\ LoopFrame
    BY FunctorBegins
  <1>2. /\ t \in LoopThread
        /\ t.at \in Nat \ {0} /\ t.batch \in Seq(Functor)
        /\ Len(t.batch) \in Nat
    BY DEF TypeOK, LoopThread
  <1>3. /\ loop'[l] = [t EXCEPT !.at = t.at + 1]
        /\ \A k \in Loops \ {l} : loop'[k] = loop[k]
    BY DEF TypeOK
  <1>4. loop'[l].at = t.at + 1 /\ loop'[l].batch = t.batch
    BY <1>2, <1>3 DEF LoopThread
  <1>5. ASSUME NEW k \in Loops, NEW g \in Todo(k), <<k, g>> # <<l, f>>
        PROVE  g \in Todo(k)'
    <2>1. CASE k # l
      BY <1>3, <1>5, <2>1 DEF Todo
    <2>2. CASE k = l
      <3>1. PICK i \in t.at .. Len(t.batch) : t.batch[i] = g
        BY <1>5, <2>2 DEF Todo
      <3>2. i # t.at
        BY <1>5, <2>2, <3>1
      <3>3. i \in t.at + 1 .. Len(t.batch)
        BY <1>2, <3>1, <3>2
      <3>4. QED
        BY <1>4, <2>2, <3>1, <3>3 DEF Todo
    <2>3. QED
      BY <2>1, <2>2
  <1>6. \A k, g : <<k, g>> \in B <=> <<k, g>> = <<l, f>>
    OBVIOUS
  <1> SUFFICES Begins(B)
    OBVIOUS
  <1> HIDE DEF t, f, B
  <1>7. \A k, g : <<k, g>> \in B => k = l /\ g = f
    BY <1>6
  <1>8. QED
    BY <1>1, <1>5, <1>6, <1>7 DEF Begins

(* Handling an active channel.                                             *)
LEMMA DispatchEnded ==
  ASSUME ServerInv, EndedInv, NEW l \in Loops, NEW c \in Conns, Dispatch(l, c)
  PROVE  EndedInv'
  <1>1. TypeOK
    BY DEF ServerInv
  <1>2. Begins({})
    <2>1. /\ loop'[l] = [loop[l] EXCEPT !.active = @ \ {c}]
          /\ \A k \in Loops \ {l} : loop'[k] = loop[k]
          /\ loop[l] \in LoopThread
      BY <1>1 DEF Dispatch, TypeOK
    <2>2. loop'[l].batch = loop[l].batch /\ loop'[l].at = loop[l].at
      BY <2>1 DEF LoopThread
    <2>3. QED
      BY <2>1, <2>2, BeginsNone
  <1>3. \A d \in Conns : Spares({}, d)
    BY DEF Spares
  <1>4. /\ conn[c].loop = l
        /\ conn[c].state \in {"kConnected", "kDisconnecting"}
    BY ListenAssumption DEF ServerInv, LoopsInv, Dispatch
  <1>5. Alive(c)
    BY <1>4, OpenIsAlive DEF Open
  <1>6. HandleClose(l, c) \/ MessageCallback(l, c)
    BY <1>5 DEF Dispatch, HandleEvent, HandleRead
  <1>7. CASE HandleClose(l, c)
    BY <1>2, <1>3, <1>4, <1>7, HandleCloseEnded
  <1>8. CASE MessageCallback(l, c)
    <2>1. CASE UNCHANGED <<conn, pending>>
      <3>1. Moves({}, {})
        BY <1>1, <1>2, <2>1, MovesNone
      <3>2. QED
        BY <1>3, <2>1, <3>1, EndedQuiet
    <2>2. ASSUME NEW d \in {c} \union held, Shutdown(d) \/ ForceClose(d)
          PROVE  EndedInv'
      <3>1. d \in Conns
        BY <1>1 DEF TypeOK
      <3>2. QED
        BY <1>2, <2>2, <3>1, ShutdownEnded
    <2>3. QED
      BY <1>8, <2>1, <2>2 DEF MessageCallback
  <1>9. QED
    BY <1>6, <1>7, <1>8

(* Accepting a client.                                                     *)
LEMMA AcceptEnded ==
  ASSUME ServerInv, EndedInv, Accept
  PROVE  EndedInv'
  <1>1. TypeOK /\ BaseLoop \in Loops
    BY DEF ServerInv, Loops
  <1>2. Begins({})
    <2>1. /\ loop'[BaseLoop] = [loop[BaseLoop] EXCEPT !.active = @ \ {Listen}]
          /\ \A k \in Loops \ {BaseLoop} : loop'[k] = loop[k]
          /\ loop[BaseLoop] \in LoopThread
      BY <1>1 DEF Accept, TypeOK
    <2>2. /\ loop'[BaseLoop].batch = loop[BaseLoop].batch
          /\ loop'[BaseLoop].at = loop[BaseLoop].at
      BY <2>1 DEF LoopThread
    <2>3. QED
      BY <2>1, <2>2, BeginsNone
  <1>3. PICK c \in Conns, fd \in FreeFds :
          conn[c].state = "none" /\ NewConnection(c, fd)
    BY DEF Accept
  <1>4. PICK k \in Loops : k = GetNextLoop
    BY <1>1, NextLoopType
  <1>5. /\ \A d \in Conns \ {c} : conn'[d] = conn[d]
        /\ conn'[c].ended = conn[c].ended
        /\ conn'[c].state # "kDisconnected"
    <2> DEFINE q == NewConn(c, fd, k)
    <2>1. /\ q \in Connection
          /\ q.ended = conn[c].ended /\ q.state = "kConnecting"
      <3>1. fd \in Fds
        BY DEF FreeFds
      <3>2. QED
        BY <1>1, <3>1, NewRecord
    <2>2. CASE k = BaseLoop
      <3> DEFINE p == ConnectEstablished(q)
      <3>1. conn' = [conn EXCEPT ![c] = p]
        BY <1>3, <1>4, <2>2 DEF NewConnection
      <3> HIDE DEF q
      <3>2. p.ended = q.ended /\ p.state = "kConnected"
        BY <2>1, EstablishRecord
      <3> HIDE DEF p
      <3>3. QED
        BY <1>1, <2>1, <3>1, <3>2 DEF TypeOK
    <2>3. CASE k # BaseLoop
      <3>1. conn' = [conn EXCEPT ![c] = q]
        BY <1>3, <1>4, <2>3 DEF NewConnection
      <3> HIDE DEF q
      <3>2. QED
        BY <1>1, <2>1, <3>1 DEF TypeOK
    <2>4. QED
      BY <2>2, <2>3
  <1>6. PICK A : Moves({}, A) /\ \A d \in Conns : Spares(A, d)
    <2>1. CASE k = BaseLoop
      <3>1. UNCHANGED pending
        BY <1>3, <1>4, <2>1 DEF NewConnection
      <3>2. Moves({}, {})
        BY <1>1, <1>2, <3>1, MovesNone
      <3>3. QED
        BY <3>2 DEF Spares
    <2>2. CASE k # BaseLoop
      <3> DEFINE f == [op |-> "connectEstablished", c |-> c]
      <3>1. Enqueue(k, "connectEstablished", c) /\ "connectEstablished" \in Ops
        BY <1>3, <1>4, <2>2 DEF NewConnection, Ops
      <3>2. Moves({}, {<<k, f>>})
        BY <1>1, <1>2, <3>1, MovesOne
      <3>3. \A d \in Conns : Spares({<<k, f>>}, d)
        BY DEF Spares, RemoveOf, DestroyOf
      <3> HIDE DEF f
      <3>4. QED
        BY <3>2, <3>3
    <2>3. QED
      BY <2>1, <2>2
  <1>7. \A d \in Conns : Spares({}, d)
    BY DEF Spares
  <1>8. QED
    BY <1>3, <1>5, <1>6, <1>7, EndedQuiet

(* A functor of the batch: the way to connectDestroyed() goes one hop on,  *)
(* or ends.                                                                *)
LEMMA RunEnded ==
  ASSUME ServerInv, EndedInv, NEW l \in Loops, RunFunctor(l)
  PROVE  EndedInv'
  <1>1. TypeOK /\ FunctorsInv
    BY DEF ServerInv
  <1>2. /\ loop[l].at <= Len(loop[l].batch)
        /\ loop' = [loop EXCEPT ![l].at = @ + 1]
    BY DEF RunFunctor
  <1>3. PICK f \in Functor : f = loop[l].batch[loop[l].at]
    BY <1>1, <1>2, FunctorBegins
  <1>4. f \in Waiting(l) /\ f.c \in Conns
    BY <1>1, <1>2, <1>3, FunctorBegins, WaitingType
  <1> DEFINE B == {<<l, f>>}
  <1>5. Begins(B)
    BY <1>1, <1>2, <1>3, BeginsHead
  <1>6. Run(l, f)
    BY <1>3 DEF RunFunctor
  <1>7. PICK c \in Conns : c = f.c
    BY <1>4
  <1>8. EndedOf(c) /\ conn[c] \in Connection
    BY <1>1, EndedEach DEF TypeOK
  <1>9. CASE f.op \in {"connectEstablished", "forceCloseInLoop"}
    <2>1. \A d \in Conns : Spares(B, d)
      BY <1>9 DEF Spares, RemoveOf, DestroyOf
    <2>2. \A d \in Conns : Spares({}, d)
      BY DEF Spares
    <2> HIDE DEF B
    <2>3. CASE f.op = "connectEstablished"
      <3> DEFINE q == ConnectEstablished(conn[c])
      <3>1. conn' = [conn EXCEPT ![c] = q] /\ UNCHANGED pending
        BY <1>6, <1>7, <2>3 DEF Run
      <3>2. conn[c].state = "kConnecting"
        BY <1>1, <1>4, <1>7, <2>3 DEF FunctorsInv
      <3>3. q.ended = conn[c].ended /\ q.state = "kConnected"
        BY <1>8, EstablishRecord
      <3> HIDE DEF q
      <3>4. /\ conn'[c].ended = conn[c].ended
            /\ conn'[c].state = "kConnected"
            /\ \A d \in Conns \ {c} : conn'[d] = conn[d]
        BY <1>1, <3>1, <3>3 DEF TypeOK
      <3>5. Moves(B, {})
        BY <1>1, <1>5, <3>1, MovesNone
      <3>6. QED
        BY <2>1, <2>2, <3>2, <3>4, <3>5, EndedQuiet
    <2>4. CASE f.op = "forceCloseInLoop"
      <3>1. ForceCloseInLoop(l, c) /\ conn[c].loop = l
        BY <1>1, <1>4, <1>6, <1>7, <2>4 DEF Run, FunctorsInv
      <3>2. CASE conn[c].state \in {"kConnected", "kDisconnecting"}
        <4>1. HandleClose(l, c)
          BY <3>1, <3>2 DEF ForceCloseInLoop
        <4>2. QED
          BY <1>5, <2>1, <3>1, <3>2, <4>1, HandleCloseEnded
      <3>3. CASE conn[c].state \notin {"kConnected", "kDisconnecting"}
        <4>1. UNCHANGED <<conn, pending>>
          BY <3>1, <3>3 DEF ForceCloseInLoop
        <4>2. Moves(B, {})
          BY <1>1, <1>5, <4>1, MovesNone
        <4>3. QED
          BY <2>1, <2>2, <4>1, <4>2, EndedQuiet
      <3>4. QED
        BY <3>2, <3>3
    <2>5. QED
      BY <1>9, <2>3, <2>4
  <1>10. CASE f.op = "removeConnectionInLoop"
    <2> DEFINE k == conn[c].loop
               A == {<<k, DestroyOf(c)>>}
    <2>1. f = RemoveOf(c)
      BY <1>7, <1>10 DEF RemoveOf, Functor
    <2>2. /\ l = BaseLoop /\ conn[c].state = "kDisconnected"
          /\ Once(l, f) /\ conn[c].ended = 0
          /\ \A j \in Loops : DestroyOf(c) \notin Waiting(j)
      BY <1>4, <1>8, <2>1, EndWaiting DEF EndedOf
    <2>3. /\ Enqueue(k, "connectDestroyed", c) /\ UNCHANGED conn
          /\ "connectDestroyed" \in Ops /\ k \in Loops
      BY <1>6, <1>7, <1>8, <1>10
         DEF Run, RemoveConnectionInLoop, Ops, Connection
    <2>4. /\ \A d \in Conns \ {c} : Spares(A, d) /\ Spares(B, d)
          /\ <<l, f>> \in B /\ <<l, f>> \notin A
      BY <2>1 DEF Spares, RemoveOf, DestroyOf
    <2> HIDE DEF B, k
    <2>5. Moves(B, A)
      BY <1>1, <1>5, <2>3, MovesOne DEF DestroyOf
    <2>6. RemoveOf(c) \notin Waiting(BaseLoop)'
      <3> HIDE DEF A
      <3>1. QED
        BY <2>1, <2>2, <2>4, <2>5 DEF Moves
    <2>7. EndedOf(c)'
      BY <2>2, <2>3, <2>5, <2>6, EndedQueued DEF k
    <2> HIDE DEF A
    <2>8. QED
      BY <2>3, <2>4, <2>5, <2>7, EndedOne
  <1>11. CASE f.op = "connectDestroyed"
    <2> DEFINE q == End(Remove(conn[c]))
    <2>1. f = DestroyOf(c)
      BY <1>7, <1>11 DEF DestroyOf, Functor
    <2>2. ConnectDestroyed(c) /\ UNCHANGED pending
      BY <1>6, <1>7, <1>11 DEF Run
    <2>3. conn[c].state = "kDisconnected"
      BY <1>4, <2>1, EndWaiting
    <2>4. conn' = [conn EXCEPT ![c] = q]
      BY <2>2, <2>3 DEF ConnectDestroyed
    <2>5. q.ended = conn[c].ended + 1 /\ q.state = "kDisconnected"
      BY <1>8, <2>3, EndRecord
    <2> HIDE DEF q
    <2>6. /\ conn'[c].ended = conn[c].ended + 1
          /\ conn'[c].state = "kDisconnected"
          /\ \A d \in Conns \ {c} : conn'[d] = conn[d]
      BY <1>1, <2>4, <2>5 DEF TypeOK
    <2>7. Moves(B, {})
      <3> HIDE DEF B
      <3>1. QED
        BY <1>1, <1>5, <2>2, MovesNone
    <2>8. EndedOf(c)'
      BY <1>4, <1>8, <2>1, <2>6, <2>7, EndedRun
    <2>9. \A d \in Conns \ {c} : Spares(B, d) /\ Spares({}, d)
      BY <2>1 DEF Spares, RemoveOf, DestroyOf
    <2> HIDE DEF B
    <2>10. QED
      BY <2>6, <2>7, <2>8, <2>9, EndedOne
  <1>12. QED
    BY <1>9, <1>10, <1>11 DEF Functor

(* Steps that leave connections and what waits as they are.                *)
LEMMA OthersEnded ==
  ASSUME ServerInv, EndedInv, UNCHANGED conn,
         \A k \in Loops : /\ Waiting(k)' = Waiting(k)
                          /\ \A f \in Functor : Once(k, f) => Once(k, f)'
  PROVE  EndedInv'
  <1>1. Moves({}, {})
    BY DEF Moves
  <1>2. \A d \in Conns : Spares({}, d)
    BY DEF Spares
  <1>3. QED
    BY <1>1, <1>2, EndedQuiet

(* epoll_wait, the clients and the application.                            *)
LEMMA OutsideEnded ==
  ASSUME ServerInv, EndedInv, UNCHANGED <<conn, pending>>,
         \A k \in Loops : /\ loop'[k].batch = loop[k].batch
                          /\ loop'[k].at = loop[k].at
  PROVE  EndedInv'
  <1>1. Begins({}) /\ TypeOK
    BY BeginsNone DEF ServerInv
  <1>2. Moves({}, {})
    BY <1>1, MovesNone
  <1>3. \A d \in Conns : Spares({}, d)
    BY DEF Spares
  <1>4. QED
    BY <1>2, <1>3, EndedQuiet

(* Every step keeps it.                                                    *)
LEMMA NextEnded ==
  ASSUME ServerInv, EndedInv, [Next]_vars
  PROVE  EndedInv'
  <1>1. CASE UNCHANGED vars
    BY <1>1, OutsideEnded DEF vars
  <1>2. ASSUME NEW l \in Loops, Poll(l)
        PROVE  EndedInv'
    <2>1. PICK active :
            loop' = [loop EXCEPT ![l].pc = "dispatch", ![l].active = active]
      BY <1>2 DEF Poll
    <2>2. loop \in [Loops -> LoopThread]
      BY DEF ServerInv, TypeOK
    <2>3. /\ loop'[l] = [loop[l] EXCEPT !.pc = "dispatch", !.active = active]
          /\ \A k \in Loops \ {l} : loop'[k] = loop[k]
          /\ loop[l] \in LoopThread
      BY <2>1, <2>2
    <2>4. loop'[l].batch = loop[l].batch /\ loop'[l].at = loop[l].at
      BY <2>3 DEF LoopThread
    <2>5. UNCHANGED <<conn, pending>>
      BY <1>2 DEF Poll
    <2>6. QED
      BY <2>3, <2>4, <2>5, OutsideEnded
  <1>3. ASSUME NEW l \in Loops, LoopStep(l)
        PROVE  EndedInv'
    <2>1. ASSUME BeginPending(l) \/ EndPending(l)
          PROVE  EndedInv'
      <3>1. UNCHANGED conn
        BY <2>1 DEF BeginPending, EndPending
      <3>2. QED
        BY <2>1, <3>1, BatchInv, OthersEnded
    <2>2. QED
      BY <1>3, <2>1, DispatchEnded, AcceptEnded, RunEnded DEF LoopStep
  <1>4. ASSUME NEW c \in Conns, PeerClose(c) \/ Hold(c) \/ Release(c)
        PROVE  EndedInv'
    BY <1>4, OutsideEnded DEF PeerClose, Hold, Release
  <1>5. QED
    BY <1>1, <1>2, <1>3, <1>4 DEF Next

(* At the start nothing waits and nothing is closed.                       *)
LEMMA InitEnded == Init => EndedInv
  <1> SUFFICES ASSUME Init PROVE EndedInv
    OBVIOUS
  <1>1. \A l \in Loops : Waiting(l) = {}
    BY DEF Init, Waiting, Todo, Elems
  <1>2. \A c \in Conns : conn[c].state = "none" /\ conn[c].ended = 0
    BY DEF Init
  <1>3. BaseLoop \in Loops
    BY DEF Loops
  <1>4. QED
    BY <1>1, <1>2, <1>3 DEF EndedInv

-----------------------------------------------------------------------------
(* The inductive invariant of the server.                                  *)
THEOREM ServerInvariant == Spec => []ServerInv
  BY InitInv, NextInv, PTL DEF Spec

(* Every variable keeps its type; in particular next_ stays within the     *)
(* pool's loops (EventLoopThreadPool.cpp:31-42).                           *)
THEOREM TypeInvariant == Spec => []TypeOK
  <1>1. ServerInv => TypeOK
    BY DEF ServerInv
  <1>2. QED
    BY <1>1, ServerInvariant, PTL

(* connections_ and the open connections agree however descriptors are     *)
(* reused (Server.cpp:111, :139).                                          *)
THEOREM TableInvariant == Spec => []TableMatches
  <1>1. ServerInv => TableMatches
    BY DEF ServerInv
  <1>2. QED
    BY <1>1, ServerInvariant, PTL

(* No loop handles the channel of a Connection that is gone, or that       *)
(* another loop serves (Channel.cpp:46-111).                               *)
THEOREM ChannelsAlive == Spec => []NoDanglingChannel
  <1>1. ServerInv => NoDanglingChannel
    <2> SUFFICES ASSUME ServerInv, NEW l \in Loops,
                        NEW c \in loop[l].active \ {Listen}
                 PROVE  Alive(c) /\ conn[c].loop = l
      BY DEF NoDanglingChannel
    <2>1. c \in Conns
      BY DEF ServerInv, TypeOK, LoopThread
    <2>2. /\ conn[c].loop = l
          /\ conn[c].state \in {"kConnected", "kDisconnecting"}
      BY DEF ServerInv, LoopsInv
    <2>3. QED
      BY <2>1, <2>2, OpenIsAlive DEF Open
  <1>2. QED
    BY <1>1, ServerInvariant, PTL

(* A connection is announced at most once and closed at most once, never   *)
(* before it was announced: the assertion at Connection.cpp:191 holds.     *)
THEOREM ClosesOnce == Spec => []ClosedOnce
  <1>1. ServerInv => ClosedOnce
    <2> SUFFICES ASSUME ServerInv, NEW c \in Conns
                 PROVE  conn[c].downs <= conn[c].ups /\ conn[c].ups <= 1
      BY DEF ClosedOnce
    <2>1. /\ conn[c].ups = IF conn[c].state \in {"none", "kConnecting"}
                           THEN 0 ELSE 1
          /\ conn[c].downs = IF conn[c].state = "kDisconnected" THEN 1 ELSE 0
      BY DEF ServerInv, PhaseInv
    <2>2. QED
      BY <2>1
  <1>2. QED
    BY <1>1, ServerInvariant, PTL

(* A closed connection has connectDestroyed() before it, through one of    *)
(* the two functors that lead to it and never through both, or behind it,  *)
(* once (Server.cpp:127-143, Connection.cpp:70-81).                        *)
THEOREM EndedInvariant == Spec => [](ServerInv /\ EndedInv)
  <1>1. Init => ServerInv /\ EndedInv
    BY InitInv, InitEnded
  <1>2. ServerInv /\ EndedInv /\ [Next]_vars => (ServerInv /\ EndedInv)'
    BY NextInv, NextEnded
  <1>3. QED
    BY <1>1, <1>2, PTL DEF Spec

(* Whoever drops the last pointer to a Connection, its close has been      *)
(* announced, its channel is out of epoll, and connectDestroyed() has run  *)
(* for it, once.                                                           *)
THEOREM DestroyedAfter == Spec => []DestroyedAfterClose
  <1>1. ServerInv /\ EndedInv => DestroyedAfterClose
    <2> SUFFICES ASSUME ServerInv, EndedInv, NEW c \in Conns, Destroyed(c)
                 PROVE  /\ conn[c].state = "kDisconnected"
                        /\ conn[c].downs = 1
                        /\ ~conn[c].inEpoll
                        /\ conn[c].ended = 1
      BY DEF DestroyedAfterClose
    <2>1. conn[c].state \notin Open /\ conn[c].state # "none"
      BY OpenIsAlive DEF Destroyed, Alive
    <2>2. conn[c].state = "kDisconnected" /\ conn[c].loop \in Loops
      BY <2>1 DEF ServerInv, TypeOK, Connection, StatE, Open
    <2>3. conn[c].downs = 1 /\ ~conn[c].inEpoll
      BY <2>2 DEF ServerInv, PhaseInv
    <2>4. ASSUME NEW l \in Loops, NEW f \in Waiting(l), Owns(f, c)
          PROVE  FALSE
      <3>1. /\ loop[l] \in LoopThread /\ loop[l].at \in Nat \ {0}
            /\ loop[l].batch \in Seq(Functor)
        BY DEF ServerInv, TypeOK, LoopThread
      <3>2. Todo(l) \subseteq Elems(loop[l].batch)
        BY <3>1 DEF Todo, Elems
      <3>3. f \in Elems(pending[l]) \union Elems(loop[l].batch)
        BY <3>2 DEF Waiting
      <3>4. QED
        BY <2>4, <3>3 DEF Destroyed, Referenced
    <2>5. Owns(RemoveOf(c), c) /\ Owns(DestroyOf(c), c)
      BY DEF Owns, RemoveOf, DestroyOf
    <2>6. EndedOf(c) /\ BaseLoop \in Loops
      BY EndedEach DEF Loops
    <2>7. conn[c].ended = 1
      BY <2>2, <2>4, <2>5, <2>6 DEF EndedOf
    <2>8. QED
      BY <2>2, <2>3, <2>7
  <1>2. QED
    BY <1>1, EndedInvariant, PTL

(* The plain this in the functor of forceClose() (Connection.cpp:111) is   *)
(* valid until the functor has run.                                        *)
THEOREM ForceCloseSafe == Spec => []ForceCloseAlive
  <1>1. ServerInv => ForceCloseAlive
    <2> SUFFICES ASSUME ServerInv, NEW l \in Loops, NEW f \in Waiting(l),
                        f.op = "forceCloseInLoop"
                 PROVE  Alive(f.c)
      BY DEF ForceCloseAlive, Waiting
    <2> DEFINE destroy == [op |-> "connectDestroyed", c |-> f.c]
    <2>1. f \in Functor /\ f.c \in Conns
      BY WaitingType DEF ServerInv
    <2>2. f = [op |-> "forceCloseInLoop", c |-> f.c]
      BY <2>1 DEF Functor
    <2>3. conn[f.c].state # "none" /\ conn[f.c].fd \in Fds
      BY <2>1 DEF ServerInv, FunctorsInv, PhaseInv
    <2>4. \/ connections_[conn[f.c].fd] = f.c
          \/ destroy \in Elems(pending[l]) \union Elems(loop[l].batch)
      BY <2>1, <2>2 DEF ServerInv, KeptInv
    <2>5. Owns(destroy, f.c)
      BY DEF Owns
    <2>6. QED
      BY <2>3, <2>4, <2>5 DEF Alive, Referenced
  <1>2. QED
    BY <1>1, ServerInvariant, PTL

(* A step moves state_ forward or not at all: no closed connection is      *)
(* opened again, whatever functors were queued for it.                     *)
LEMMA ChangesForward ==
  ASSUME ServerInv, NEW l \in Loops, ChangesOne(l), NEW c \in Conns
  PROVE  Rank(conn[c].state) <= Rank(conn'[c].state)
  <1>1. conn[c].state \in StatE \union {"none"}
    BY DEF ServerInv, TypeOK, Connection
  <1>2. \/ conn'[c].state = conn[c].state
        \/ conn[c].state = "kConnecting" /\ conn'[c].state = "kConnected"
        \/ /\ conn[c].state \in {"kConnected", "kDisconnecting"}
           /\ conn'[c].state \in {"kDisconnecting", "kDisconnected"}
    BY DEF ChangesOne, Changes
  <1>3. QED
    BY <1>1, <1>2 DEF Rank, StatE

(* state_ goes from kConnecting to kDisconnected and never back, whichever *)
(* of handleClose(), forceCloseInLoop(), shutdown() and the functors comes *)
(* first (Connection.cpp).                                                 *)
THEOREM StateMovesForward == Spec => StateForward
  <1>1. ASSUME ServerInv, [Next]_vars
        PROVE  [\A c \in Conns :
                  Rank(conn[c].state) <= Rank(conn'[c].state)]_vars
    <2> SUFFICES ASSUME NEW c \in Conns
                 PROVE  Rank(conn[c].state) <= Rank(conn'[c].state)
      OBVIOUS
    <2>1. conn[c].state \in StatE \union {"none"}
      BY <1>1 DEF ServerInv, TypeOK, Connection
    <2>2. CASE UNCHANGED conn
      BY <2>1, <2>2 DEF Rank, StatE
    <2>3. ASSUME NEW l \in Loops, NEW d \in Conns, Dispatch(l, d)
          PROVE  Rank(conn[c].state) <= Rank(conn'[c].state)
      BY <1>1, <2>3, DispatchInv, ChangesForward
    <2>4. ASSUME NEW l \in Loops, RunFunctor(l)
          PROVE  Rank(conn[c].state) <= Rank(conn'[c].state)
      BY <1>1, <2>4, RunFunctorInv, ChangesForward
    <2>5. CASE Accept
      <3>1. PICK d \in Conns :
              /\ conn[d].state = "none"
              /\ \A e \in Conns \ {d} : conn'[e] = conn[e]
              /\ conn'[d].state \in {"kConnecting", "kConnected"}
        BY <1>1, <2>5, AcceptInv
      <3>2. \/ conn'[c].state = conn[c].state
            \/ /\ conn[c].state = "none"
               /\ conn'[c].state \in {"kConnecting", "kConnected"}
        BY <3>1
      <3>3. QED
        BY <2>1, <3>2 DEF Rank, StatE
    <2>6. QED
      BY <1>1, <2>2, <2>3, <2>4, <2>5
         DEF Next, LoopStep, Poll, BeginPending, EndPending, PeerClose, Hold,
             Release, vars
  <1>2. QED
    BY <1>1, ServerInvariant, PTL DEF Spec, StateForward
=============================================================================
