------------------------------ MODULE Connect ------------------------------
(***************************************************************************)
(* Connections between nodes, over InfiniBand: how the processes of a      *)
(* communicator pair their queue pairs (QPs), and how data and flags are   *)
(* posted over them (init.cc tcclAllRankIbInit, tcclIbInitUnconnectedPeer; *)
(* ib.cc; post.cc tcclPostIbFunc).                                         *)
(*                                                                         *)
(* A process uses one device.  For every peer it has three pairs of QPs:   *)
(* sendpair and recvpair, kept in a table that all its communicators share *)
(* (IB_connect_table), and a flagpair for each communicator.  The pairs of *)
(* neighbours in the ring are made when a communicator is created, all     *)
(* ranks together; those of other peers when they are first used, by the   *)
(* two processes alone, over a socket that the lower rank connects.  The   *)
(* higher rank accepts whoever comes and puts aside (accepts) whom it does *)
(* not need yet.                                                           *)
(*                                                                         *)
(* A post writes data on one QP and then a flag on another one, and polls  *)
(* for the completion of each; polling gives up after a while and the post *)
(* goes on as if nothing had happened.                                     *)
(*                                                                         *)
(* tcclProxyAllGather is used by what SocketRing shows of it.  A failure   *)
(* of resources_create is modelled in the creation of communicators, where *)
(* the ranks tell each other; on first use it ends the process.            *)
(***************************************************************************)
EXTENDS Layout

CONSTANTS Host,         \* the processes: address, device and card of each
          Comm,         \* communicators: their processes, by rank
          Programs      \* what the application calls, and what may go wrong:
                        \* the bounds MaxFailures (pairs that cannot be
                        \* made) and MaxTimeouts (polls that give up)

Procs == DOMAIN Host
Comms == DOMAIN Comm
Nobody == 0

\* Communicators are told apart from the tables of pairs they share (Kinds).
ASSUME HostAssumption == Procs \subseteq Nat \ {Nobody}
ASSUME CommAssumption == \A c \in Comms :
  /\ c \notin {"send", "recv"}
  /\ Comm[c] \in Seq(Procs) /\ IsInjective(Comm[c])
  /\ Placed([r \in 0 .. Len(Comm[c]) - 1 |-> Host[Comm[c][r + 1]]])

\* Calls: a communicator is created, connects all pairs of processes on
\* different nodes (tcclAlltoall), posts inBuff ("send") or outBuff ("recv")
\* once around its ring, is destroyed.
Calls == [do : {"create", "connect", "send", "recv", "destroy"}, comm : Comms]
Call(do, c) == [do |-> do, comm |-> c]
Posts == {"send", "recv"}

\* Those in which a process takes part.  It has its handle of a communicator
\* from creating it, and no longer after destroying it; a post on a pair that
\* is not there ends the process, so where pairs may fail they are connected
\* before.
Members == [c \in Comms |-> Range(Comm[c])]
CallsOf(program, p) == SelectSeq(program.calls, LAMBDA call : p \in Members[call.comm])
InOrder(calls) ==
  \A i \in DOMAIN calls :
    /\ calls[i].do = "create" <=> \A j \in 1 .. i - 1 : calls[j].comm # calls[i].comm
    /\ calls[i].do = "destroy" => \A j \in i + 1 .. Len(calls) : calls[j].comm # calls[i].comm
PostsConnected(calls) ==
  \A i \in DOMAIN calls : calls[i].do \in Posts =>
    \E j \in 1 .. i - 1 : calls[j] = Call("connect", calls[i].comm)
ASSUME ProgramsAssumption == \A program \in Programs :
  /\ program.MaxFailures \in Nat /\ program.MaxTimeouts \in Nat
  /\ \A p \in Procs :
       LET calls == CallsOf(program, p) IN
       /\ calls \in Seq({call \in Calls : p \in Members[call.comm]})
       /\ InOrder(calls)
       /\ program.MaxFailures > 0 => PostsConnected(calls)

\* The layout of each communicator, as every process computes it.
rank == [c \in Comms |-> [p \in Members[c] |-> CHOOSE r \in 0 .. Len(Comm[c]) - 1 : Comm[c][r + 1] = p]]
dev == [c \in Comms |-> [r \in 0 .. Len(Comm[c]) - 1 |-> Host[Comm[c][r + 1]]]]
layout == [c \in Comms |-> [p \in Members[c] |->
  tcclNicRankList(dev[c], rank[c][p], phyRankList(dev[c], rank[c][p]))]]
nextOf == [c \in Comms |-> [p \in Members[c] |-> Comm[c][layout[c][p].phyNextRank + 1]]]
prevOf == [c \in Comms |-> [p \in Members[c] |-> Comm[c][layout[c][p].phyPrevRank + 1]]]
IbPeers == [c \in Comms |-> [p \in Members[c] |->
  {q \in Members[c] : ~tcclIsInTheNode(dev[c], rank[c][p], rank[c][q])}]]
isPeerIbInRingOrTree == [c \in Comms |-> [p \in Members[c] |->
  IbPeers[c][p] \cap {nextOf[c][p], prevOf[c][p]}]]
OnMyNode == [c \in Comms |-> [p \in Members[c] |-> Members[c] \ IbPeers[c][p]]]
hasLock == [c \in Comms |-> \A p \in Members[c] : layout[c][p].card_num = 1]

\* The QPs that are ever posted to: for data and, by communicator, for flags.
Qps == UNION {{<<x[1], nextOf[c][x[1]], x[2]>> : x \in Members[c] \X {"send", "recv", c}} : c \in Comms}
Routes == UNION {{c} \X Members[c] \X Members[c] : c \in Comms}

First(c, S) == CHOOSE p \in S : \A q \in S : rank[c][p] <= rank[c][q]

VARIABLES
  prog,      \* the calls of the application, and the bounds
  todo,      \* those each process has left
  pc,        \* where it is in the first of them
  type,      \* the kind of pairs it is making: 0 send, 1 recv, 2 flag
  box,       \* what it has given to gathers, by communicator
  left,      \* the peers it has yet to connect to
  sock,      \* the socket it connects over: of which call, to whom
  listen,    \* connections waiting at its listening socket (proxyListen)
  accepts,   \* connections it has put aside
  mail,      \* messages on the sockets between two processes
  pair,      \* the pairs each process has taken from the table or made
  copied,    \* connect[myrank]: the peer whose pair lends its handles
  made,      \* how many times it has called resources_create
  freed,     \* memory regions deregistered
  lock,      \* ibHostLock: who holds it, on each node
  stream,    \* posts and waits queued, by communicator and process
  stage,     \* how far the first of them is
  wire,      \* writes under way, by the QP they are sent on
  cq,        \* completions nobody has polled yet
  landed,    \* data written, by sender, receiver and number
  flag,      \* flags written
  sent,      \* posts queued so far
  disturbed, \* connections whose polls may no longer be believed
  failures, timeouts

exchange == <<left, sock, listen, accepts, mail>>
handles == <<pair, copied, made, freed>>
post == <<stage, wire, cq, landed, flag, disturbed, timeouts>>
vars == <<prog, todo, pc, type, box, exchange, handles, lock, stream, post, sent, failures>>

-----------------------------------------------------------------------------
\* A pair: the QPs that data is sent on and received from, each with its
\* protection domain, memory region and, once connected, remote QP.
Null == <<>>
NoRes == [pd |-> Null, mr |-> Null, qp |-> Null, qppd |-> Null, remote |-> Null]
NoPair == [send |-> NoRes, recv |-> NoRes, initialized |-> FALSE]
Sides == {"send", "recv"}

\* The table that holds pairs of a type: the flag pairs are the communicator's.
Kind(c, t) == <<"send", "recv", c>>[t + 1]
Kinds == {"send", "recv"} \cup Comms
Pair(p, k, q) == IF <<k, q>> \in DOMAIN pair[p] THEN pair[p][<<k, q>>] ELSE NoPair
Put(p, k, new) ==
  pair' = [pair EXCEPT ![p] =
    [x \in DOMAIN @ \cup {<<k, q>> : q \in DOMAIN new} |->
       IF x[1] = k /\ x[2] \in DOMAIN new THEN new[x[2]] ELSE @[x]]]

Bug_IB_COPY(dst, src) == [dst EXCEPT !.mr = src.mr]
IB_COPY(dst, src) == [dst EXCEPT !.pd = src.pd, !.mr = src.mr]
CopyPair(dst, src) ==
  [dst EXCEPT !.send = IB_COPY(@, src.send), !.recv = IB_COPY(@, src.recv)]

\* What there is not is made, the QP always anew; new names are numbered.
resources_create(res, new) ==
  LET pd == IF res.pd = Null THEN new ELSE res.pd IN
  [res EXCEPT !.pd = pd, !.mr = IF @ = Null THEN pd ELSE @, !.qp = new, !.qppd = pd]

CreatePair(e, new) ==
  IF e.initialized THEN e
  ELSE [e EXCEPT !.send = resources_create(@, Append(new, 1)),
                 !.recv = resources_create(@, Append(new, 2))]
\* The lost sides of a pair fail: all they have is freed, also what was lent.
FailPair(e, new, lost) ==
  [CreatePair(e, new) EXCEPT !.send = IF "send" \in lost THEN NoRes ELSE @,
                             !.recv = IF "recv" \in lost THEN NoRes ELSE @]

get_con_data(e) == [send |-> e.send.qp, recv |-> e.recv.qp]

\* What one sends on, the other receives from.
connect_qp(e, remote) ==
  IF e.initialized THEN e
  ELSE [e EXCEPT !.send.remote = remote.recv, !.recv.remote = remote.send,
                 !.initialized = TRUE]

-----------------------------------------------------------------------------
Socket(c, q) == [comm |-> c, peer |-> q]
NoSocket == Socket("none", Nobody)

Init ==
  /\ prog \in Programs
  /\ todo = [p \in Procs |-> CallsOf(prog, p)]
  /\ pc = [p \in Procs |-> "call"]
  /\ type = [p \in Procs |-> 0]
  /\ box = [c \in Comms |-> [p \in Members[c] |-> <<>>]]
  /\ left = [p \in Procs |-> {}]
  /\ sock = [p \in Procs |-> NoSocket]
  /\ listen = [c \in Comms |-> [p \in Members[c] |-> <<>>]]
  /\ accepts = [p \in Procs |-> [q \in Procs |-> NoSocket]]
  /\ mail = [s \in Routes |-> <<>>]
  /\ pair = [p \in Procs |-> <<>>]
  /\ copied = [c \in Comms |-> [p \in Members[c] |-> [t \in 0 .. 2 |-> Nobody]]]
  /\ made = [p \in Procs |-> 0]
  /\ freed = {}
  /\ lock = [c \in Comms |-> [p \in Members[c] |-> Nobody]]
  /\ stream = [c \in Comms |-> [p \in Members[c] |-> <<>>]]
  /\ stage = [c \in Comms |-> [p \in Members[c] |-> "start"]]
  /\ wire = [q \in Qps |-> <<>>]
  /\ cq = [q \in Qps |-> 0]
  /\ landed = {}
  /\ flag = [s \in Routes |-> 0]
  /\ sent = [c \in Comms |-> [p \in Members[c] |-> 0]]
  /\ disturbed = {}
  /\ failures = 0 /\ timeouts = 0

Doing(p, call) == todo[p] # <<>> /\ Head(todo[p]).do = call
Current(p) == Head(todo[p]).comm
Goto(p, l) == pc' = [pc EXCEPT ![p] = l]
Return(p) == todo' = [todo EXCEPT ![p] = Tail(@)] /\ Goto(p, "call")

\* tcclProxyAllGather: a value is given, and everybody's is waited for.
Give(c, p, value) == box' = [box EXCEPT ![c][p] = Append(@, value)]
Bug_AllGave(c, p, S) == \A q \in S : Len(box[c][q]) > Len(box[c][p])
AllGave(c, p, S) == \A q \in S : Len(box[c][q]) >= Len(box[c][p])
Given(c, p, q) == box[c][q][Len(box[c][p])]

-----------------------------------------------------------------------------
\* tcclIbPairInit, for pairs of type t with the neighbours in the ring: the
\* first pair lends its handles to the others; those of failed fail, on one
\* side or on both.
PairCreate(p) ==
  LET c == Current(p)
      k == Kind(c, type[p])
      N == isPeerIbInRingOrTree[c][p]
      f == First(c, N)
      old == [q \in N |-> IF type[p] = 2 THEN NoPair ELSE Pair(p, k, q)]
      new(q) == <<p, made[p] + (IF q = f THEN 1 ELSE 2)>>
  IN
  /\ Doing(p, "create") /\ pc[p] = "call" /\ AllGave(c, p, Members[c])
  /\ \E failed \in SUBSET {q \in N : ~old[q].initialized} :
     \E lost \in [failed -> (SUBSET Sides) \ {{}}] :
     LET Made(q, e) == IF q \in failed THEN FailPair(e, new(q), lost[q]) ELSE CreatePair(e, new(q))
         first == Made(f, old[f])
         lent(q) == IF q = f THEN old[f] ELSE CopyPair(old[q], first) IN
     /\ failures + Cardinality(failed) <= prog.MaxFailures
     /\ failures' = failures + Cardinality(failed)
     /\ Put(p, k, [q \in N |-> Made(q, lent(q))])
     /\ freed' = freed \cup (UNION {{lent(q)[s].mr : s \in lost[q]} : q \in failed} \ {Null})
     /\ Give(c, p, [ok |-> failed = {}])
  /\ copied' = [copied EXCEPT ![c][p][type[p]] = IF N = {} THEN Nobody ELSE f]
  /\ made' = [made EXCEPT ![p] = @ + Cardinality(N)]
  /\ Goto(p, "rets")
  /\ UNCHANGED <<prog, todo, type, exchange, lock, stream, post, sent>>

\* The next type of pairs, or on to the lock.
NextType(p) ==
  /\ type' = [type EXCEPT ![p] = (@ + 1) % 3]
  /\ Goto(p, IF type[p] < 2 THEN "call" ELSE "lock")

\* Only if all pairs of all ranks have been made are they told to each other;
\* a failure is printed, and the creation goes on.
PairsMade(c, p) == \A q \in Members[c] : Given(c, p, q).ok
PairTell(p) ==
  LET c == Current(p) IN
  /\ pc[p] = "rets" /\ AllGave(c, p, Members[c])
  /\ IF PairsMade(c, p)
     THEN /\ Give(c, p, [q \in isPeerIbInRingOrTree[c][p] |->
                           get_con_data(Pair(p, Kind(c, type[p]), q))])
          /\ Goto(p, "qps") /\ UNCHANGED type
     ELSE NextType(p) /\ UNCHANGED box
  /\ UNCHANGED <<prog, todo, exchange, handles, lock, stream, post, sent, failures>>

PairConnect(p) ==
  LET c == Current(p) IN
  /\ pc[p] = "qps" /\ AllGave(c, p, Members[c])
  /\ Put(p, Kind(c, type[p]), [q \in isPeerIbInRingOrTree[c][p] |->
       connect_qp(Pair(p, Kind(c, type[p]), q), Given(c, p, q)[p])])
  /\ Give(c, p, [ok |-> TRUE])
  /\ NextType(p)
  /\ UNCHANGED <<prog, todo, exchange, copied, made, freed, lock, stream, post, sent, failures>>

\* Every process initialises the mutex of its node, in shared memory.
tcclIbHostLockInit(p) ==
  LET c == Current(p) IN
  /\ pc[p] = "lock" /\ AllGave(c, p, Members[c])
  /\ lock' = IF hasLock[c]
             THEN [lock EXCEPT ![c] = [q \in Members[c] |->
                     IF q \in OnMyNode[c][p] THEN Nobody ELSE @[q]]]
             ELSE lock
  /\ Give(c, p, [ok |-> TRUE])
  /\ Goto(p, "barrier")
  /\ UNCHANGED <<prog, todo, type, exchange, handles, stream, post, sent, failures>>

\* The barriers of the node later in the creation (tcclDevListInit).
Bug_Barrier(c, p) == TRUE
Barrier(c, p) == AllGave(c, p, OnMyNode[c][p])
Created(p) ==
  /\ pc[p] = "barrier" /\ Barrier(Current(p), p)
  /\ Return(p)
  /\ UNCHANGED <<prog, type, box, exchange, handles, lock, stream, post, sent, failures>>

-----------------------------------------------------------------------------
\* First use: tcclAlltoall goes through the peers on other nodes in order.
tcclAlltoall(p) ==
  /\ Doing(p, "connect") /\ pc[p] = "call"
  /\ left' = [left EXCEPT ![p] = IbPeers[Current(p)][p]]
  /\ Goto(p, "peer")
  /\ UNCHANGED <<prog, todo, type, box, sock, listen, accepts, mail, handles, lock, stream,
                 post, sent, failures>>

Peer(p) == First(Current(p), left[p])
Initialized(c, p, q) ==
  Pair(p, "send", q).initialized /\ Pair(p, c, q).initialized

\* tcclIbInitUnconnectedPeer: nothing to do for this peer, or for any.
SkipPeer(p) ==
  LET c == Current(p) IN
  /\ pc[p] = "peer"
  /\ IF left[p] = {} THEN Return(p) /\ UNCHANGED left
     ELSE /\ Initialized(c, p, Peer(p))
          /\ left' = [left EXCEPT ![p] = @ \ {Peer(p)}]
          /\ UNCHANGED <<prog, todo, pc>>
  /\ UNCHANGED <<prog, type, box, sock, listen, accepts, mail, handles, lock, stream, post,
                 sent, failures>>

Unconnected(p) == pc[p] = "peer" /\ left[p] # {} /\ ~Initialized(Current(p), p, Peer(p))

\* tcclIbPairInitPeer3: the lower rank connects and says who it is.
ConnectPeer(p) ==
  LET c == Current(p)
      q == Peer(p) IN
  /\ Unconnected(p) /\ rank[c][p] < rank[c][q]
  /\ listen' = [listen EXCEPT ![c][q] = Append(@, p)]
  /\ sock' = [sock EXCEPT ![p] = Socket(c, q)]
  /\ Goto(p, "offer")
  /\ UNCHANGED <<prog, todo, type, box, left, accepts, mail, handles, lock, stream, post, sent, failures>>

\* The higher rank looks among those it has put aside.  Of several from one
\* peer the vector yields the latest and drops the others.
PutAside(p, q) == accepts[p][q]
TakeAccepted(p) ==
  LET c == Current(p)
      q == Peer(p) IN
  /\ Unconnected(p) /\ rank[c][p] > rank[c][q]
  /\ IF PutAside(p, q) = NoSocket THEN Goto(p, "accept") /\ UNCHANGED <<sock, accepts>>
     ELSE /\ sock' = [sock EXCEPT ![p] = PutAside(p, q)]
          /\ accepts' = [accepts EXCEPT ![p][q] = NoSocket]
          /\ Goto(p, "offer")
  /\ UNCHANGED <<prog, todo, type, box, left, listen, mail, handles, lock, stream, post, sent, failures>>

\* Then it accepts until the one it needs has come.
Bug_IsNeeded(p, q) == TRUE
IsNeeded(p, q) == q = Peer(p)
AcceptPeer(p) ==
  LET c == Current(p)
      q == Head(listen[c][p]) IN
  /\ pc[p] = "accept" /\ listen[c][p] # <<>>
  /\ listen' = [listen EXCEPT ![c][p] = Tail(@)]
  /\ IF IsNeeded(p, q)
     THEN Goto(p, "offer") /\ sock' = [sock EXCEPT ![p] = Socket(c, q)] /\ UNCHANGED accepts
     ELSE /\ accepts' = [accepts EXCEPT ![p][q] = Socket(c, q)]
          /\ UNCHANGED <<pc, sock>>
  /\ UNCHANGED <<prog, todo, type, box, left, mail, handles, lock, stream, post, sent, failures>>

\* tcclIbPairInitPeer: the two make their pair, exchange its QPs, connect
\* them, and exchange how it went.
To(p) == <<sock[p].comm, p, sock[p].peer>>
From(p) == <<sock[p].comm, sock[p].peer, p>>

Offer(p) ==
  LET c == Current(p)
      q == Peer(p)
      k == Kind(c, type[p])
      f == copied[c][p][type[p]]
      old == IF type[p] = 2 THEN NoPair ELSE Pair(p, k, q)
      lent == IF f # Nobody /\ Pair(p, k, f).initialized THEN CopyPair(old, Pair(p, k, f)) ELSE old
  IN
  /\ pc[p] = "offer"
  /\ \E e \in {CreatePair(lent, <<p, made[p] + 1>>)} :
       /\ Put(p, k, [x \in {q} |-> e])
       /\ mail' = [mail EXCEPT ![To(p)] = Append(@, get_con_data(e))]
  /\ made' = [made EXCEPT ![p] = @ + 1]
  /\ Goto(p, "link")
  /\ UNCHANGED <<prog, todo, type, box, left, sock, listen, accepts, copied, freed, lock, stream,
                 post, sent, failures>>

LinkPeer(p) ==
  LET c == Current(p)
      q == Peer(p)
      k == Kind(c, type[p]) IN
  /\ pc[p] = "link" /\ mail[From(p)] # <<>>
  /\ Put(p, k, [x \in {q} |-> connect_qp(Pair(p, k, q), Head(mail[From(p)]))])
  /\ copied' = [copied EXCEPT ![c][p][type[p]] =
       IF @ = Nobody /\ ~Pair(p, k, q).initialized THEN q ELSE @]
  /\ mail' = [mail EXCEPT ![From(p)] = Tail(@), ![To(p)] = Append(@, "ret")]
  /\ Goto(p, "agree")
  /\ UNCHANGED <<prog, todo, type, box, left, sock, listen, accepts, made, freed, lock, stream,
                 post, sent, failures>>

Agree(p) ==
  /\ pc[p] = "agree" /\ mail[From(p)] # <<>>
  /\ mail' = [mail EXCEPT ![From(p)] = Tail(@)]
  /\ type' = [type EXCEPT ![p] = (@ + 1) % 3]
  /\ left' = IF type[p] = 2 THEN [left EXCEPT ![p] = @ \ {Peer(p)}] ELSE left
  /\ Goto(p, IF type[p] = 2 THEN "peer" ELSE "offer")
  /\ UNCHANGED <<prog, todo, box, sock, listen, accepts, handles, lock, stream, post, sent, failures>>

-----------------------------------------------------------------------------
\* The host queues a post to the next process of the ring and the wait for
\* that of the previous one, if they are on other nodes.
Post(q, k, n) == [do |-> "post", peer |-> q, kind |-> k, n |-> n]
Wait(q, n) == [do |-> "wait", peer |-> q, n |-> n]
QueuePost(p) ==
  LET c == Current(p)
      n == sent[c][p] + 1
      between == IbPeers[c][p] IN
  /\ pc[p] = "call"
  /\ \E k \in Posts :
       /\ Doing(p, k)
       /\ stream' = [stream EXCEPT ![c][p] = @
            \o (IF nextOf[c][p] \in between THEN <<Post(nextOf[c][p], k, n)>> ELSE <<>>)
            \o (IF prevOf[c][p] \in between THEN <<Wait(prevOf[c][p], n)>> ELSE <<>>)]
  /\ sent' = [sent EXCEPT ![c][p] = n]
  /\ Return(p)
  /\ UNCHANGED <<prog, type, box, exchange, handles, lock, post, failures>>

AtPost(c, p, s) == stream[c][p] # <<>> /\ Head(stream[c][p]).do = "post" /\ stage[c][p] = s
Step(c, p, s) == stage' = [stage EXCEPT ![c][p] = s]

\* tcclPostIbFunc: lock, and write the data.  Another stream of the process
\* that polls for data of the same pair makes the completions ambiguous.
PostData(c, p) ==
  LET m == Head(stream[c][p])
      qp == <<p, m.peer, m.kind>>
      rival == \E d \in Comms \ {c} :
        /\ p \in Members[d] /\ AtPost(d, p, "polldata")
        /\ Head(stream[d][p]).peer = m.peer /\ Head(stream[d][p]).kind = m.kind IN
  /\ AtPost(c, p, "start")
  /\ Pair(p, m.kind, m.peer).initialized
  /\ hasLock[c] => lock[c][p] = Nobody
  /\ lock' = IF hasLock[c] THEN [lock EXCEPT ![c] = [q \in Members[c] |->
                                   IF q \in OnMyNode[c][p] THEN p ELSE @[q]]]
             ELSE lock
  /\ wire' = [wire EXCEPT ![qp] = Append(@, <<c, m.n>>)]
  /\ disturbed' = IF rival THEN disturbed \cup {<<p, m.peer>>} ELSE disturbed
  /\ Step(c, p, "polldata")
  /\ UNCHANGED <<prog, todo, pc, type, box, exchange, handles, stream, cq, landed, flag, sent,
                 timeouts, failures>>

\* poll_completion: one completion, or none after a while.
Bug_Poll(qp) == UNCHANGED <<cq, disturbed, timeouts>>
Poll(qp) ==
  \/ /\ cq[qp] > 0
     /\ cq' = [cq EXCEPT ![qp] = @ - 1]
     /\ UNCHANGED <<disturbed, timeouts>>
  \/ /\ cq[qp] = 0 /\ timeouts < prog.MaxTimeouts
     /\ timeouts' = timeouts + 1
     /\ disturbed' = disturbed \cup {<<qp[1], qp[2]>>}
     /\ UNCHANGED cq

\* The data is through, or so it seems: write the flag.
PostFlag(c, p) ==
  LET m == Head(stream[c][p]) IN
  /\ AtPost(c, p, "polldata")
  /\ Pair(p, c, m.peer).initialized
  /\ Poll(<<p, m.peer, m.kind>>)
  /\ wire' = [wire EXCEPT ![<<p, m.peer, c>>] = Append(@, <<c, m.n>>)]
  /\ Step(c, p, "pollflag")
  /\ UNCHANGED <<prog, todo, pc, type, box, exchange, handles, lock, stream, landed, flag, sent,
                 failures>>

\* The flag is through: unlock.
PostDone(c, p) ==
  LET m == Head(stream[c][p]) IN
  /\ AtPost(c, p, "pollflag")
  /\ Poll(<<p, m.peer, c>>)
  /\ lock' = IF hasLock[c] THEN [lock EXCEPT ![c] = [q \in Members[c] |->
                                   IF q \in OnMyNode[c][p] THEN Nobody ELSE @[q]]]
             ELSE lock
  /\ stream' = [stream EXCEPT ![c][p] = Tail(@)]
  /\ Step(c, p, "start")
  /\ UNCHANGED <<prog, todo, pc, type, box, exchange, handles, wire, landed, flag, sent, failures>>

WaitFlag(c, p) ==
  LET m == Head(stream[c][p]) IN
  /\ stream[c][p] # <<>> /\ m.do = "wait"
  /\ flag[<<c, m.peer, p>>] >= m.n
  /\ stream' = [stream EXCEPT ![c][p] = Tail(@)]
  /\ UNCHANGED <<prog, todo, pc, type, box, exchange, handles, lock, post, sent, failures>>

\* The network (external): a QP delivers in order, to the QP it is connected
\* to, and reports the completion.
Deliver(qp) ==
  LET p == qp[1]
      k == qp[3]
      c == Head(wire[qp])[1]
      n == Head(wire[qp])[2]
      q == Pair(p, k, qp[2]).send.remote[1] IN
  /\ wire[qp] # <<>>
  /\ IF k \in Comms
     THEN flag' = [flag EXCEPT ![<<c, p, q>>] = n] /\ UNCHANGED landed
     ELSE landed' = landed \cup {<<c, p, q, n>>} /\ UNCHANGED flag
  /\ wire' = [wire EXCEPT ![qp] = Tail(@)]
  /\ cq' = [cq EXCEPT ![qp] = @ + 1]
  /\ UNCHANGED <<prog, todo, pc, type, box, exchange, handles, lock, stream, stage, sent,
                 disturbed, timeouts, failures>>

\* tcclCommDestroy, once its stream is through: the flag pairs are destroyed,
\* with what is under way on them; the others stay in the table.
tcclAllRankIbFini(p) ==
  LET c == Current(p) IN
  /\ Doing(p, "destroy") /\ pc[p] = "call"
  /\ stream[c][p] = <<>>
  /\ pair' = [pair EXCEPT ![p] = [x \in {y \in DOMAIN @ : y[1] # c} |-> @[x]]]
  /\ copied' = [copied EXCEPT ![c][p][2] = Nobody]
  /\ wire' = [qp \in Qps |-> IF qp[1] = p /\ qp[3] = c THEN <<>> ELSE wire[qp]]
  /\ Return(p)
  /\ UNCHANGED <<prog, type, box, exchange, made, freed, lock, stream, stage, cq, landed, flag,
                 disturbed, timeouts, sent, failures>>

-----------------------------------------------------------------------------
Process(p) ==
  \/ PairCreate(p) \/ PairTell(p) \/ PairConnect(p)
  \/ tcclIbHostLockInit(p) \/ Created(p)
  \/ tcclAlltoall(p) \/ SkipPeer(p) \/ ConnectPeer(p) \/ TakeAccepted(p) \/ AcceptPeer(p)
  \/ Offer(p) \/ LinkPeer(p) \/ Agree(p)
  \/ QueuePost(p) \/ tcclAllRankIbFini(p)

Stream(c, p) == PostData(c, p) \/ PostFlag(c, p) \/ PostDone(c, p) \/ WaitFlag(c, p)

Next ==
  \/ \E p \in Procs : Process(p)
  \/ \E c \in Comms : \E p \in Members[c] : Stream(c, p)
  \/ \E qp \in DOMAIN wire : Deliver(qp)

Spec == Init /\ [][Next]_vars

\* Some process, stream or the network goes on; what is left to do is finite.
FairSpec == Spec /\ WF_vars(Next)

-----------------------------------------------------------------------------
(***************************************************************************)
(* A process that takes a pair for connected sends on it to the QP from    *)
(* which its peer receives, and the other way round, whichever of the two  *)
(* ways made the pair, in whatever order connections came in and whatever  *)
(* had failed before (tcclIbPairInit, tcclIbPairInitPeer).                 *)
(***************************************************************************)
PairsMatch ==
  \A p \in Procs : \A x \in DOMAIN pair[p] :
    LET mine == pair[p][x]
        its == Pair(x[2], x[1], p) IN
    mine.initialized /\ its.initialized =>
      /\ mine.send.remote = its.recv.qp /\ mine.send.remote # Null
      /\ mine.recv.remote = its.send.qp /\ mine.recv.remote # Null

(***************************************************************************)
(* The memory region that a post names was registered in the protection    *)
(* domain of the QP it is posted on (IB_COPY, resources_create), as long   *)
(* as nothing failed and every communicator of the process has neighbours  *)
(* of it on other nodes, none but those of the first: IB_COPY also goes    *)
(* over the handles of pairs that were made in another domain, and with no *)
(* neighbour to lend its handles a pair gets a domain of its own.          *)
(***************************************************************************)
MetAtFirst(p) ==
  LET calls == CallsOf(prog, p)
      peers(i) == isPeerIbInRingOrTree[calls[i].comm][p] IN
  \A i \in DOMAIN calls : peers(i) # {} /\ peers(i) \subseteq peers(1)
KeysFit ==
  failures = 0 =>
    \A p \in Procs : MetAtFirst(p) => \A x \in DOMAIN pair[p], s \in Sides :
      LET res == pair[p][x][s] IN
      res.qp # Null => res.mr = res.qppd /\ res.mr \notin freed

\* A flag is never there before the data it announces, unless a poll gave up
\* or two communicators of the process posted to the peer at the same time
\* (tcclPostIbFunc: data and flags go over different QPs, and only polling
\* keeps them in order).
FlagAfterData ==
  \A c \in Comms : \A p, q \in Members[c] :
    <<p, q>> \notin disturbed => \A n \in 1 .. flag[<<c, p, q>>] : <<c, p, q, n>> \in landed

\* No two processes of a node are within a post of a communicator that has a
\* lock, although each of them initialises the mutex (tcclIbHostLockInit).
OnePoster ==
  \A c \in Comms : hasLock[c] => \A p \in Members[c] : \A q \in OnMyNode[c][p] \ {p} :
    stage[c][p] = "start" \/ stage[c][q] = "start"

\* All processes come to the end of their calls and their streams: nobody
\* waits for a connection or a flag that does not come, whatever failed when
\* the communicator was created, unless a poll gave up.  (In programs whose
\* pairs may fail nothing is posted before they are used for the first time:
\* a post on a pair that is not there ends the process.)
Through == \A c \in Comms : \A p \in Members[c] : stream[c][p] = <<>>
AllConnected ==
  <>(\/ (\A p \in Procs : todo[p] = <<>>) /\ Through
     \/ timeouts > 0)
=============================================================================
