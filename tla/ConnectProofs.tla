--------------------------- MODULE ConnectProofs ---------------------------
(***************************************************************************)
(* Proofs about Connect: posts stay behind each other's locks, flags stay  *)
(* behind their data and memory regions in the domains of their QPs, for   *)
(* every number of processes and communicators and all programs that       *)
(* create what they use (ProgramsAssumption).                              *)
(***************************************************************************)
EXTENDS Connect, LayoutProofs

-----------------------------------------------------------------------------
(***************************************************************************)
(* Types.  A handle is a sequence of numbers that begins with the process  *)
(* that made it.                                                           *)
(***************************************************************************)
Names == Seq(Nat)
Res == [pd : Names, mr : Names, qp : Names, qppd : Names, remote : Names]
Pairs == [send : Res, recv : Res, initialized : BOOLEAN]
Con == [send : Names, recv : Names]
Values == [ok : BOOLEAN] \cup UNION {[S -> Con] : S \in SUBSET Procs}
Cmds == [do : {"post"}, peer : Procs, kind : Posts, n : Nat] \cup [do : {"wait"}, peer : Procs, n : Nat]
Gathers == {"rets", "qps", "lock", "barrier"}
Sessions == {"offer", "link", "agree"}
Pcs == {"call", "peer", "accept"} \cup Gathers \cup Sessions
Socks == [comm : Comms, peer : Procs]

\* A table with a place for every process of a communicator.
Table(f) == f = [c \in Comms |-> [p \in Members[c] |-> f[c][p]]]

HostType ==
  /\ prog \in Programs
  /\ todo \in [Procs -> Seq(Calls)]
  /\ pc \in [Procs -> Pcs] /\ type \in [Procs -> 0 .. 2]
  /\ left \in [Procs -> SUBSET Procs]
  /\ sock \in [Procs -> Socks \cup {NoSocket}]
  /\ accepts \in [Procs -> [Procs -> Socks \cup {NoSocket}]]
  /\ Table(listen) /\ \A c \in Comms : \A p \in Members[c] : listen[c][p] \in Seq(Members[c])
  /\ failures \in Nat /\ failures <= prog.MaxFailures
BoxType ==
  /\ Table(box)
  /\ \A c \in Comms : \A p \in Members[c] : box[c][p] \in Seq(Values)
PairType ==
  /\ pair = [p \in Procs |-> [x \in DOMAIN pair[p] |-> pair[p][x]]]
  /\ \A p \in Procs : \A x \in DOMAIN pair[p] : x \in Kinds \X Procs /\ pair[p][x] \in Pairs
  /\ made \in [Procs -> Nat]
StreamType ==
  /\ Table(stream) /\ Table(stage) /\ Table(sent) /\ Table(lock)
  /\ \A c \in Comms : \A p \in Members[c] : stream[c][p] \in Seq(Cmds) /\ sent[c][p] \in Nat
  /\ wire \in [Qps -> Seq(Comms \X Nat)]
  /\ cq \in [Qps -> Nat] /\ flag \in [Routes -> Nat]

-----------------------------------------------------------------------------
\* Where a process is in its calls.
Fresh(c, p) == \E i \in DOMAIN todo[p] : todo[p][i] = Call("create", c)
Creating(c, p) == todo[p] # <<>> /\ Head(todo[p]) = Call("create", c)
RingPeers(c, p) == isPeerIbInRingOrTree[c][p]
Ctl(p) ==
  /\ \A i \in DOMAIN todo[p] : p \in Members[todo[p][i].comm]
  /\ pc[p] \in Gathers => Doing(p, "create")
  /\ pc[p] \notin Gathers \cup {"call"} => Doing(p, "connect") /\ left[p] \subseteq IbPeers[Current(p)][p]
  /\ type[p] # 0 => pc[p] \in {"rets", "qps"} \cup Sessions \/ (pc[p] = "call" /\ Doing(p, "create"))
  /\ pc[p] \in Sessions \cup {"accept"} => left[p] # {}
  /\ pc[p] \in Sessions =>
       /\ sock[p] \in Socks /\ sock[p].peer = Peer(p)
       /\ {p, sock[p].peer} \subseteq Members[sock[p].comm]
  /\ \A q \in Procs : accepts[p][q] # NoSocket =>
       accepts[p][q].peer = q /\ {p, q} \subseteq Members[accepts[p][q].comm]
CtlInv == \A p \in Procs : Ctl(p)

\* The calls a process has left.
NextReady(c, p) ==
  nextOf[c][p] \in IbPeers[c][p] => Initialized(c, p, nextOf[c][p])
Todo(p) ==
  /\ \A i, j \in DOMAIN todo[p] : i < j /\ todo[p][i].comm = todo[p][j].comm =>
       todo[p][i].do # "destroy" /\ todo[p][j].do # "create"
  /\ \A i \in DOMAIN todo[p] : todo[p][i].do \in Posts =>
       LET c == todo[p][i].comm IN
       \/ \E j \in 1 .. i - 1 : todo[p][j] = Call("connect", c)
       \/ prog.MaxFailures = 0 /\ \E j \in 1 .. i - 1 : todo[p][j] = Call("create", c)
       \/ ~Fresh(c, p) /\ NextReady(c, p)
TodoInv == \A p \in Procs : Todo(p)

-----------------------------------------------------------------------------
\* The gathers of a creation: that of the results of a kind of pairs is the
\* pos(c, t)-th, after it come one of QPs and one of results if all had theirs.
ok(c, i) == \A q \in Members[c] : i \in DOMAIN box[c][q] /\ box[c][q][i].ok
After(c, i) == i + (IF ok(c, i) THEN 3 ELSE 1)
pos(c, t) == CASE t = 0 -> 1
               [] t = 1 -> After(c, 1)
               [] t = 2 -> After(c, After(c, 1))
               [] OTHER -> After(c, After(c, After(c, 1)))
Known(c, i) == \A q \in Members[c] : Len(box[c][q]) >= i
Settled(c, p) ==
  Len(box[c][p]) = pos(c, 3) /\ \A q \in OnMyNode[c][p] : Len(box[c][q]) >= pos(c, 3)

BoxAt(c, p) ==
  LET n == Len(box[c][p])
      t == type[p] IN
  /\ \A q \in Members[c] : n <= Len(box[c][q]) + 1
  /\ Fresh(c, p) /\ ~Creating(c, p) => n = 0
  /\ Creating(c, p) =>
       /\ pc[p] = "call" => n = pos(c, t) - 1 /\ (t > 0 => Known(c, pos(c, t - 1)))
       /\ pc[p] = "rets" => n = pos(c, t)
       /\ pc[p] = "qps" => n = pos(c, t) + 1 /\ ok(c, pos(c, t))
       /\ pc[p] = "lock" => n = pos(c, 3) - 1 /\ Known(c, pos(c, 2))
       /\ pc[p] = "barrier" => n = pos(c, 3)
  /\ ~Fresh(c, p) => n = 0 \/ Settled(c, p)
  /\ (\E i \in DOMAIN todo[p] : todo[p][i].comm = c) => Fresh(c, p) \/ Settled(c, p)
BoxInv == \A c \in Comms : \A p \in Members[c] : BoxAt(c, p)

ConOf(p) == {e \in Con : e.send # Null /\ e.send[1] = p /\ e.recv # Null /\ e.recv[1] = p}
ValueAt(c, p, t) ==
  LET i == pos(c, t) IN
  /\ Len(box[c][p]) >= i => box[c][p][i] \in [ok : BOOLEAN] /\ (failures = 0 => box[c][p][i].ok)
  /\ Len(box[c][p]) > i /\ ok(c, i) => box[c][p][i + 1] \in [RingPeers(c, p) -> ConOf(p)]
ValueInv == \A c \in Comms : \A p \in Members[c] : \A t \in 0 .. 2 : ValueAt(c, p, t)

-----------------------------------------------------------------------------
Owns(p, e) ==
  e.send.qp # Null /\ e.send.qp[1] = p /\ e.recv.qp # Null /\ e.recv.qp[1] = p
Owned(p, q, e) == Owns(p, e) /\ e.send.remote # Null /\ e.send.remote[1] = q
OwnInv ==
  \A p \in Procs : \A x \in DOMAIN pair[p] : pair[p][x].initialized => Owned(p, x[2], pair[p][x])

CreateInv ==
  \A p \in Procs : Doing(p, "create") =>
    LET c == Current(p) IN
    /\ pc[p] = "qps" \/ (pc[p] = "rets" /\ box[c][p][Len(box[c][p])].ok) =>
         \A q \in RingPeers(c, p) : Owns(p, Pair(p, Kind(c, type[p]), q))
    /\ failures = 0 =>
         \A t \in 0 .. 2 : t < type[p] \/ pc[p] \in {"lock", "barrier"} =>
           \A q \in RingPeers(c, p) : Pair(p, Kind(c, t), q).initialized

\* The messages on a socket: in turns of QPs and results.
Turns(s, S, ret, next) ==
  /\ s \in Seq(Con \cup {"ret"})
  /\ \A i \in DOMAIN s : s[i] \in IF (i % 2 = 1) = ret THEN {"ret"} ELSE S
  /\ next = (((Len(s) + 1) % 2 = 1) = ret)
Speaks(c, p, q, l) == pc[p] = l /\ sock[p] = Socket(c, q)
MailInv ==
  /\ mail \in [Routes -> Seq(Con \cup {"ret"})]
  /\ \A c \in Comms : \A p, q \in Members[c] :
       Turns(mail[<<c, p, q>>], ConOf(p), Speaks(c, q, p, "agree"), Speaks(c, p, q, "link"))

HasPost(c, p) == \E i \in DOMAIN stream[c][p] : stream[c][p][i].do = "post"
FlagQp(c, p) == <<p, nextOf[c][p], c>>
SessionInv ==
  \A p \in Procs : pc[p] \notin Gathers \cup {"call"} =>
    LET c == Current(p)
        q == Peer(p) IN
    /\ \A o \in IbPeers[c][p] \ left[p] : Initialized(c, p, o)
    /\ pc[p] # "peer" =>
         /\ q = nextOf[c][p] => ~HasPost(c, p) /\ wire[FlagQp(c, p)] = <<>>
         /\ pc[p] = "link" => Owns(p, Pair(p, Kind(c, type[p]), q))
         /\ pc[p] = "agree" => Pair(p, Kind(c, type[p]), q).initialized
         /\ type[p] > 0 => Pair(p, "send", q).initialized

-----------------------------------------------------------------------------
PostInv ==
  \A c \in Comms : \A p \in Members[c] :
    LET s == stream[c][p] IN
    /\ \A i \in DOMAIN s : s[i].do = "post" =>
         /\ s[i].peer = nextOf[c][p] /\ nextOf[c][p] \in IbPeers[c][p] /\ s[i].n \in 1 .. sent[c][p]
         /\ \A j \in DOMAIN s : i < j /\ s[j].do = "post" => s[i].n < s[j].n
    /\ stage[c][p] \in {"start", "polldata", "pollflag"}
    /\ stage[c][p] # "start" => s # <<>> /\ Head(s).do = "post"
    /\ s # <<>> => Settled(c, p)
    /\ HasPost(c, p) \/ wire[FlagQp(c, p)] # <<>> => NextReady(c, p)
    /\ Fresh(c, p) => s = <<>> /\ wire[FlagQp(c, p)] = <<>>

LockInv ==
  \A c \in Comms : hasLock[c] => \A p \in Members[c] :
    stage[c][p] # "start" => \A q \in OnMyNode[c][p] : lock[c][q] = p

WireInv ==
  \A qp \in Qps : wire[qp] # <<>> => Pair(qp[1], qp[3], qp[2]).initialized

\* What has been written.
Landed(c, p, q, n) == \A m \in 1 .. n : <<c, p, q, m>> \in landed
Polls(c, qp) ==
  /\ qp[1] \in Members[c] /\ AtPost(c, qp[1], "polldata")
  /\ Head(stream[c][qp[1]]).peer = qp[2] /\ Head(stream[c][qp[1]]).kind = qp[3]
DataInv ==
  \A qp \in Qps : qp[3] \in Posts /\ <<qp[1], qp[2]>> \notin disturbed =>
    /\ \A c, d \in Comms : Polls(c, qp) /\ Polls(d, qp) => c = d
    /\ (\A c \in Comms : ~Polls(c, qp)) => wire[qp] = <<>> /\ cq[qp] = 0
    /\ \A c \in Comms : Polls(c, qp) =>
         LET n == Head(stream[c][qp[1]]).n IN
         \/ wire[qp] = << <<c, n>> >> /\ cq[qp] = 0
         \/ wire[qp] = <<>> /\ cq[qp] = 1 /\ <<c, qp[1], qp[2], n>> \in landed

SentInv ==
  \A c \in Comms : \A p \in Members[c] :
    LET q == nextOf[c][p]
        s == stream[c][p] IN
    /\ \A i \in DOMAIN wire[FlagQp(c, p)] : wire[FlagQp(c, p)][i][1] = c
    /\ q \in IbPeers[c][p] /\ <<p, q>> \notin disturbed =>
         /\ \A m \in 1 .. sent[c][p] :
              <<c, p, q, m>> \in landed \/ \E i \in DOMAIN s : s[i].do = "post" /\ s[i].n = m
         /\ stage[c][p] = "pollflag" => Landed(c, p, q, Head(s).n)
    /\ <<p, q>> \notin disturbed => \A i \in DOMAIN wire[FlagQp(c, p)] : Landed(c, p, q, wire[FlagQp(c, p)][i][2])

IInv ==
  /\ HostType /\ BoxType /\ PairType /\ StreamType
  /\ CtlInv /\ TodoInv /\ BoxInv /\ ValueInv /\ OwnInv /\ CreateInv /\ MailInv /\ SessionInv
  /\ PostInv /\ LockInv /\ WireInv /\ DataInv /\ SentInv /\ FlagAfterData

-----------------------------------------------------------------------------
(* Communicators.                                                          *)

LEMMA CommFacts ==
  ASSUME NEW c \in Comms
  PROVE  /\ c \notin {"send", "recv"}
         /\ Comm[c] \in Seq(Procs) /\ IsInjective(Comm[c])
         /\ Members[c] = Range(Comm[c]) /\ Members[c] \subseteq Procs
         /\ DOMAIN dev[c] = 0 .. Len(Comm[c]) - 1 /\ Placed(dev[c])
         /\ \A r \in DOMAIN dev[c] : dev[c][r] = Host[Comm[c][r + 1]]
<1>1. c \notin {"send", "recv"} /\ Comm[c] \in Seq(Procs) /\ IsInjective(Comm[c])
  BY CommAssumption
<1>2. Placed([r \in 0 .. Len(Comm[c]) - 1 |-> Host[Comm[c][r + 1]]])
  BY CommAssumption
<1>3. dev[c] = [r \in 0 .. Len(Comm[c]) - 1 |-> Host[Comm[c][r + 1]]]
  BY DEF dev
<1>4. Members[c] = Range(Comm[c])
  BY DEF Members
<1>5. Members[c] \subseteq Procs
  BY <1>1, <1>4 DEF Range
<1> QED
  BY <1>1, <1>2, <1>3, <1>4, <1>5

\* A process has one rank.
LEMMA RankFacts ==
  ASSUME NEW c \in Comms, NEW p \in Members[c]
  PROVE  /\ rank[c][p] \in DOMAIN dev[c] /\ rank[c][p] \in Nat
         /\ Comm[c][rank[c][p] + 1] = p
         /\ \A r \in DOMAIN dev[c] : Comm[c][r + 1] = p => r = rank[c][p]
<1>1. /\ Comm[c] \in Seq(Procs) /\ IsInjective(Comm[c]) /\ Members[c] = Range(Comm[c])
      /\ DOMAIN dev[c] = 0 .. Len(Comm[c]) - 1
  BY CommFacts
<1>2. rank[c][p] = CHOOSE r \in 0 .. Len(Comm[c]) - 1 : Comm[c][r + 1] = p
  BY DEF rank
<1>3. PICK i \in 1 .. Len(Comm[c]) : Comm[c][i] = p
  BY <1>1 DEF Range
<1>4. Len(Comm[c]) \in Nat /\ DOMAIN Comm[c] = 1 .. Len(Comm[c])
  BY <1>1
<1>5. i - 1 \in 0 .. Len(Comm[c]) - 1 /\ (i - 1) + 1 = i
  BY <1>4
<1>6. rank[c][p] \in 0 .. Len(Comm[c]) - 1 /\ Comm[c][rank[c][p] + 1] = p
  BY <1>2, <1>3, <1>5
<1>7. ASSUME NEW r \in 0 .. Len(Comm[c]) - 1, Comm[c][r + 1] = p
      PROVE  r = rank[c][p]
  <2>1. r + 1 \in DOMAIN Comm[c] /\ rank[c][p] + 1 \in DOMAIN Comm[c]
    BY <1>4, <1>6
  <2>2. r + 1 = rank[c][p] + 1
    BY <1>1, <1>6, <1>7, <2>1 DEF IsInjective
  <2> QED
    BY <1>4, <1>6, <2>2
<1> QED
  BY <1>1, <1>4, <1>6, <1>7

\* A peer is on the node if its host is that of the process.
LEMMA NodeFacts ==
  ASSUME NEW c \in Comms, NEW p \in Members[c]
  PROVE  /\ IbPeers[c][p] = {q \in Members[c] : Host[q].ip # Host[p].ip}
         /\ OnMyNode[c][p] = {q \in Members[c] : Host[q].ip = Host[p].ip}
<1>1. ASSUME NEW q \in Members[c]
      PROVE  tcclIsInTheNode(dev[c], rank[c][p], rank[c][q]) <=> Host[q].ip = Host[p].ip
  <2> DEFINE d == dev[c]
             r == rank[c][p]
             s == rank[c][q]
  <2>1. Placed(d) /\ r \in DOMAIN d /\ s \in DOMAIN d /\ d[r] = Host[p] /\ d[s] = Host[q]
    <3>1. Placed(dev[c]) /\ \A x \in DOMAIN dev[c] : dev[c][x] = Host[Comm[c][x + 1]]
      BY CommFacts
    <3>2. rank[c][p] \in DOMAIN dev[c] /\ Comm[c][rank[c][p] + 1] = p
      BY RankFacts
    <3>3. rank[c][q] \in DOMAIN dev[c] /\ Comm[c][rank[c][q] + 1] = q
      BY RankFacts
    <3> QED
      BY <3>1, <3>2, <3>3
  <2> HIDE DEF d, r, s
  <2>2. ASSUME Host[q].ip = Host[p].ip
        PROVE  tcclIsInTheNode(d, r, s)
    <3>1. s \in OnNode(d, r)
      BY <2>1, <2>2 DEF OnNode
    <3>2. s \in OnCard(d, s)
      BY <2>1, SameCard
    <3> QED
      BY <3>1, <3>2 DEF tcclIsInTheNode, CardsOfNode
  <2>3. ASSUME tcclIsInTheNode(d, r, s)
        PROVE  Host[q].ip = Host[p].ip
    <3>1. PICK x \in OnNode(d, r) : s \in OnCard(d, x)
      BY <2>3 DEF tcclIsInTheNode, CardsOfNode
    <3> QED
      BY <2>1, <3>1 DEF OnNode, OnCard, tcclIsOneCard
  <2> QED
    BY <2>2, <2>3 DEF d, r, s
<1>2. IbPeers[c][p] = {q \in Members[c] : ~tcclIsInTheNode(dev[c], rank[c][p], rank[c][q])}
  BY DEF IbPeers
<1>3. OnMyNode[c][p] = Members[c] \ IbPeers[c][p]
  BY DEF OnMyNode
<1> QED
  BY <1>1, <1>2, <1>3

\* The next process of the ring has this one as its previous one.
LEMMA RingFacts ==
  ASSUME NEW c \in Comms, NEW p \in Members[c]
  PROVE  /\ nextOf[c][p] \in Members[c] /\ prevOf[c][p] \in Members[c]
         /\ prevOf[c][nextOf[c][p]] = p /\ nextOf[c][prevOf[c][p]] = p
<1> DEFINE lay(r) == tcclNicRankList(dev[c], r, phyRankList(dev[c], r))
<1>1. ASSUME NEW q \in Members[c]
      PROVE  /\ nextOf[c][q] = Comm[c][lay(rank[c][q]).phyNextRank + 1]
             /\ prevOf[c][q] = Comm[c][lay(rank[c][q]).phyPrevRank + 1]
  <2>1. layout[c][q] = lay(rank[c][q])
    BY DEF layout
  <2> HIDE DEF lay
  <2> QED
    BY <2>1 DEF nextOf, prevOf
<1>2. ASSUME NEW r \in DOMAIN dev[c]
      PROVE  Comm[c][r + 1] \in Members[c] /\ rank[c][Comm[c][r + 1]] = r
  <2>1. Comm[c] \in Seq(Procs) /\ Members[c] = Range(Comm[c]) /\ r \in 0 .. Len(Comm[c]) - 1
    BY CommFacts
  <2>2. r + 1 \in DOMAIN Comm[c]
    BY <2>1
  <2>3. Comm[c][r + 1] \in Members[c]
    BY <2>1, <2>2 DEF Range
  <2> QED
    BY <2>3, RankFacts
<1>3. ASSUME NEW r \in DOMAIN dev[c]
      PROVE  /\ lay(r).phyNextRank \in DOMAIN dev[c] /\ lay(r).phyPrevRank \in DOMAIN dev[c]
             /\ lay(lay(r).phyNextRank).phyPrevRank = r
             /\ lay(lay(r).phyPrevRank).phyNextRank = r
  BY CommFacts, RingFits, NextOfPrevious
<1> HIDE DEF lay
<1> DEFINE r == rank[c][p]
<1>4. r \in DOMAIN dev[c] /\ Comm[c][r + 1] = p
  BY RankFacts
<1> HIDE DEF r
<1>5. /\ lay(r).phyNextRank \in DOMAIN dev[c] /\ lay(r).phyPrevRank \in DOMAIN dev[c]
      /\ lay(lay(r).phyNextRank).phyPrevRank = r
      /\ lay(lay(r).phyPrevRank).phyNextRank = r
  BY <1>3, <1>4
<1>6. nextOf[c][p] = Comm[c][lay(r).phyNextRank + 1] /\ prevOf[c][p] = Comm[c][lay(r).phyPrevRank + 1]
  BY <1>1 DEF r
<1>7. /\ nextOf[c][p] \in Members[c] /\ rank[c][nextOf[c][p]] = lay(r).phyNextRank
      /\ prevOf[c][p] \in Members[c] /\ rank[c][prevOf[c][p]] = lay(r).phyPrevRank
  BY <1>2, <1>5, <1>6
<1> QED
  BY <1>1, <1>4, <1>5, <1>7

\* A process is a neighbour of its neighbours.
LEMMA PeerFacts ==
  ASSUME NEW c \in Comms, NEW p \in Members[c]
  PROVE  /\ isPeerIbInRingOrTree[c][p] \subseteq IbPeers[c][p]
         /\ IbPeers[c][p] \subseteq Members[c] \ {p}
         /\ nextOf[c][p] \in IbPeers[c][p] => nextOf[c][p] \in isPeerIbInRingOrTree[c][p]
         /\ \A q \in isPeerIbInRingOrTree[c][p] : p \in isPeerIbInRingOrTree[c][q]
<1>1. \A q \in Members[c] :
        /\ isPeerIbInRingOrTree[c][q] = IbPeers[c][q] \cap {nextOf[c][q], prevOf[c][q]}
        /\ IbPeers[c][q] = {x \in Members[c] : Host[x].ip # Host[q].ip}
        /\ prevOf[c][nextOf[c][q]] = q /\ nextOf[c][prevOf[c][q]] = q
  BY NodeFacts, RingFacts DEF isPeerIbInRingOrTree
<1> QED
  BY <1>1

\* Of the processes of a node each knows who they are.
LEMMA NodeMates ==
  ASSUME NEW c \in Comms, NEW p \in Members[c]
  PROVE  /\ p \in OnMyNode[c][p] /\ OnMyNode[c][p] \subseteq Members[c]
         /\ \A q \in OnMyNode[c][p] : OnMyNode[c][q] = OnMyNode[c][p]
         /\ \A q \in Members[c] : q \notin OnMyNode[c][p] => OnMyNode[c][q] \cap OnMyNode[c][p] = {}
<1> DEFINE ip(q) == Host[q].ip
<1>1. ASSUME NEW q \in Members[c]
      PROVE  /\ OnMyNode[c][q] \subseteq Members[c]
             /\ \A x \in Members[c] : x \in OnMyNode[c][q] <=> ip(x) = ip(q)
  BY NodeFacts
<1> HIDE DEF ip
<1>2. p \in OnMyNode[c][p] /\ OnMyNode[c][p] \subseteq Members[c]
  BY <1>1
<1>3. ASSUME NEW q \in OnMyNode[c][p]
      PROVE  OnMyNode[c][q] = OnMyNode[c][p]
  BY <1>1, <1>2
<1>4. ASSUME NEW q \in Members[c], q \notin OnMyNode[c][p]
      PROVE  OnMyNode[c][q] \cap OnMyNode[c][p] = {}
  BY <1>1, <1>4
<1> QED
  BY <1>2, <1>3, <1>4

\* The peer that is next in the order of ranks.
LEMMA FirstIn ==
  ASSUME NEW c \in Comms, NEW S, S \subseteq Members[c], S # {}
  PROVE  First(c, S) \in S
<1> DEFINE T == {rank[c][p] : p \in S}
<1>1. T \subseteq Nat /\ T # {}
  BY RankFacts
<1>2. Min(T) \in T /\ \A x \in T : Min(T) <= x
  BY <1>1, LeastOf
<1>3. PICK p \in S : rank[c][p] = Min(T)
  BY <1>2
<1>4. \A q \in S : rank[c][p] <= rank[c][q]
  BY <1>2, <1>3
<1> QED
  BY <1>4 DEF First

-----------------------------------------------------------------------------
(* Tables, sequences and pairs.                                            *)

\* One place of a table is changed.
Sets(f, g, c, p, x) == g = [f EXCEPT ![c][p] = x]
LEMMA PlaceSet ==
  ASSUME NEW f, Table(f), NEW g, NEW c \in Comms, NEW p \in Members[c], NEW x, Sets(f, g, c, p, x)
  PROVE  Table(g) /\ \A d \in Comms : \A q \in Members[d] : g[d][q] = IF d = c /\ q = p THEN x ELSE f[d][q]
<1>1. f = [d \in Comms |-> [q \in Members[d] |-> f[d][q]]]
  BY DEF Table
<1>2. g = [d \in Comms |-> IF d = c THEN [f[c] EXCEPT ![p] = x] ELSE f[d]]
  BY <1>1 DEF Sets
<1>3. f[c] = [q \in Members[c] |-> f[c][q]]
  BY <1>1
<1>4. g[c] = [q \in Members[c] |-> IF q = p THEN x ELSE f[c][q]]
  BY <1>2, <1>3
<1>5. \A d \in Comms \ {c} : g[d] = f[d] /\ f[d] = [q \in Members[d] |-> f[d][q]]
  BY <1>1, <1>2
<1>6. g[c] = [q \in Members[c] |-> g[c][q]]
  BY <1>4
<1>7. \A d \in Comms : g[d] = [q \in Members[d] |-> g[d][q]]
  BY <1>5, <1>6
<1>8. Table(g)
  BY <1>2, <1>7 DEF Table
<1> QED
  BY <1>4, <1>5, <1>8

\* The places of a communicator are changed.
SetsAll(f, g, c, S, x) == g = [f EXCEPT ![c] = [q \in Members[c] |-> IF q \in S THEN x ELSE f[c][q]]]
LEMMA PlacesSet ==
  ASSUME NEW f, Table(f), NEW g, NEW c \in Comms, NEW S, NEW x, SetsAll(f, g, c, S, x)
  PROVE  Table(g) /\ \A d \in Comms : \A q \in Members[d] : g[d][q] = IF d = c /\ q \in S THEN x ELSE f[d][q]
<1>1. f = [d \in Comms |-> [q \in Members[d] |-> f[d][q]]]
  BY DEF Table
<1>2. g = [d \in Comms |-> IF d = c THEN [q \in Members[c] |-> IF q \in S THEN x ELSE f[c][q]] ELSE f[d]]
  BY <1>1 DEF SetsAll
<1>3. g[c] = [q \in Members[c] |-> g[c][q]]
  BY <1>2
<1>4. \A d \in Comms \ {c} : g[d] = [q \in Members[d] |-> g[d][q]]
  BY <1>1, <1>2
<1>5. \A d \in Comms : g[d] = [q \in Members[d] |-> g[d][q]]
  BY <1>3, <1>4
<1>6. g = [d \in Comms |-> g[d]]
  BY <1>2
<1>7. Table(g)
  BY <1>5, <1>6 DEF Table
<1>8. \A q \in Members[c] : g[c][q] = IF q \in S THEN x ELSE f[c][q]
  BY <1>2
<1>9. \A d \in Comms \ {c} : \A q \in Members[d] : g[d][q] = f[d][q]
  BY <1>2
<1> QED
  BY <1>7, <1>8, <1>9

\* What Append, Head and Tail do, element by element.
LEMMA Appended ==
  ASSUME NEW S, NEW s \in Seq(S), NEW x \in S
  PROVE  /\ Append(s, x) \in Seq(S) /\ Len(Append(s, x)) = Len(s) + 1
         /\ Append(s, x)[Len(s) + 1] = x
         /\ \A i \in 1 .. Len(s) : Append(s, x)[i] = s[i]
OBVIOUS

LEMMA Tailed ==
  ASSUME NEW S, NEW s \in Seq(S), s # <<>>
  PROVE  /\ Len(s) \in Nat \ {0} /\ Head(s) = s[1] /\ Head(s) \in S
         /\ Tail(s) \in Seq(S) /\ Len(Tail(s)) = Len(s) - 1
         /\ \A i \in 1 .. Len(s) - 1 : Tail(s)[i] = s[i + 1]
OBVIOUS

\* A table of pairs after some of one kind have been put into it.
LEMMA PutFacts ==
  ASSUME PairType, NEW p \in Procs, NEW k \in Kinds, NEW new, DOMAIN new \subseteq Procs,
         \A q \in DOMAIN new : new[q] \in Pairs, Put(p, k, new)
  PROVE  /\ pair' = [o \in Procs |-> [x \in DOMAIN pair'[o] |-> pair'[o][x]]]
         /\ \A o \in Procs : \A x \in DOMAIN pair'[o] : x \in Kinds \X Procs /\ pair'[o][x] \in Pairs
         /\ \A o \in Procs \ {p} : pair'[o] = pair[o]
         /\ DOMAIN pair'[p] = DOMAIN pair[p] \cup {<<k, q>> : q \in DOMAIN new}
         /\ \A q \in DOMAIN new : pair'[p][<<k, q>>] = new[q]
         /\ \A x \in DOMAIN pair[p] : x[1] # k \/ x[2] \notin DOMAIN new => pair'[p][x] = pair[p][x]
<1> DEFINE D == DOMAIN pair[p] \cup {<<k, q>> : q \in DOMAIN new}
           f == [x \in D |-> IF x[1] = k /\ x[2] \in DOMAIN new THEN new[x[2]] ELSE pair[p][x]]
<1>1. pair' = [pair EXCEPT ![p] = f]
  BY DEF Put
<1>2. pair = [o \in Procs |-> pair[o]]
  BY DEF PairType
<1>3. \A x \in DOMAIN pair[p] : x \in Kinds \X Procs /\ pair[p][x] \in Pairs
  BY DEF PairType
<1>4. \A x \in D : x \in Kinds \X Procs
  BY <1>3
<1>5. \A x \in D : f[x] \in Pairs
  BY <1>3
<1>6. \A q \in DOMAIN new : <<k, q>> \in D /\ f[<<k, q>>] = new[q]
  OBVIOUS
<1>7. \A x \in DOMAIN pair[p] : x[1] # k \/ x[2] \notin DOMAIN new => f[x] = pair[p][x]
  OBVIOUS
<1>8. DOMAIN f = D /\ f = [x \in DOMAIN f |-> f[x]]
  OBVIOUS
<1> HIDE DEF f
<1>9. pair'[p] = f /\ \A o \in Procs \ {p} : pair'[o] = pair[o]
  BY <1>1, <1>2
<1>10. DOMAIN pair' = Procs
  BY <1>1, <1>2
<1>11. \A o \in Procs : pair'[o] = [x \in DOMAIN pair'[o] |-> pair'[o][x]]
  BY <1>8, <1>9 DEF PairType
<1>12. pair' = [o \in Procs |-> pair'[o]]
  BY <1>1, <1>2, <1>10
<1>13. pair' = [o \in Procs |-> [x \in DOMAIN pair'[o] |-> pair'[o][x]]]
  BY <1>11, <1>12
<1> HIDE DEF D
<1>14. \A o \in Procs : \A x \in DOMAIN pair'[o] : x \in Kinds \X Procs /\ pair'[o][x] \in Pairs
  BY <1>4, <1>5, <1>8, <1>9 DEF PairType
<1> QED
  BY <1>6, <1>7, <1>8, <1>9, <1>13, <1>14 DEF D

\* The same, by the names the code uses for the pairs.
LEMMA PairAfter ==
  ASSUME PairType, NEW p \in Procs, NEW k \in Kinds, NEW new, DOMAIN new \subseteq Procs,
         \A q \in DOMAIN new : new[q] \in Pairs, Put(p, k, new)
  PROVE  /\ \A q \in DOMAIN new : Pair(p, k, q)' = new[q]
         /\ \A j, q : j # k \/ q \notin DOMAIN new => Pair(p, j, q)' = Pair(p, j, q)
         /\ \A o \in Procs \ {p} : \A j, q : Pair(o, j, q)' = Pair(o, j, q)
<1>1. /\ \A o \in Procs \ {p} : pair'[o] = pair[o]
      /\ DOMAIN pair'[p] = DOMAIN pair[p] \cup {<<k, q>> : q \in DOMAIN new}
      /\ \A q \in DOMAIN new : pair'[p][<<k, q>>] = new[q]
      /\ \A x \in DOMAIN pair[p] : x[1] # k \/ x[2] \notin DOMAIN new => pair'[p][x] = pair[p][x]
  BY PutFacts
<1>2. ASSUME NEW q \in DOMAIN new
      PROVE  Pair(p, k, q)' = new[q]
  BY <1>1 DEF Pair
<1>3. ASSUME NEW j, NEW q, j # k \/ q \notin DOMAIN new
      PROVE  Pair(p, j, q)' = Pair(p, j, q)
  <2>1. <<j, q>> \in DOMAIN pair'[p] <=> <<j, q>> \in DOMAIN pair[p]
    BY <1>1, <1>3
  <2>2. <<j, q>> \in DOMAIN pair[p] => pair'[p][<<j, q>>] = pair[p][<<j, q>>]
    BY <1>1, <1>3
  <2> QED
    BY <2>1, <2>2 DEF Pair
<1> QED
  BY <1>1, <1>2, <1>3 DEF Pair

\* The type of a pair, in the table or not.
LEMMA NamesFacts == Null \in Names /\ \A p, n \in Nat, i \in 1 .. 2 :
  Append(<<p, n>>, i) \in Names /\ Append(<<p, n>>, i) # Null /\ Append(<<p, n>>, i)[1] = p
<1>1. Null \in Names
  BY DEF Null, Names
<1>2. ASSUME NEW p \in Nat, NEW n \in Nat, NEW i \in 1 .. 2
      PROVE  Append(<<p, n>>, i) \in Names /\ Append(<<p, n>>, i) # Null /\ Append(<<p, n>>, i)[1] = p
  <2>1. <<p, n>> \in Seq(Nat) /\ Len(<<p, n>>) = 2 /\ <<p, n>>[1] = p /\ i \in Nat
    OBVIOUS
  <2> DEFINE s == <<p, n>>
  <2> HIDE DEF s
  <2>2. /\ Append(s, i) \in Seq(Nat) /\ Len(Append(s, i)) = 3
        /\ Append(s, i)[1] = s[1]
    BY <2>1, Appended DEF s
  <2>3. Append(s, i) # <<>>
    BY <2>2
  <2> QED
    BY <2>1, <2>2, <2>3 DEF s, Null, Names
<1> QED
  BY <1>1, <1>2

LEMMA NoPairType == NoPair \in Pairs /\ ~NoPair.initialized
BY NamesFacts DEF NoPair, NoRes, Pairs, Res

LEMMA PairTyped ==
  ASSUME PairType, NEW p \in Procs, NEW k, NEW q
  PROVE  Pair(p, k, q) \in Pairs
BY NoPairType DEF PairType, Pair

\* What is done to a pair: a pair that is connected keeps its QPs and where
\* they lead, and only connecting makes it one.
LEMMA CopyOps ==
  ASSUME NEW e \in Pairs, NEW f \in Pairs
  PROVE  LET x == CopyPair(e, f) IN
         /\ x \in Pairs /\ x.initialized = e.initialized
         /\ x.send.qp = e.send.qp /\ x.recv.qp = e.recv.qp /\ x.send.remote = e.send.remote
<1>1. e.send \in Res /\ e.recv \in Res /\ e.initialized \in BOOLEAN
  BY DEF Pairs
<1>2. f.send \in Res /\ f.recv \in Res
  BY DEF Pairs
<1>3. ASSUME NEW a \in Res, NEW b \in Res
      PROVE  /\ IB_COPY(a, b) \in Res
             /\ IB_COPY(a, b).qp = a.qp /\ IB_COPY(a, b).remote = a.remote
  BY DEF IB_COPY, Res
<1>4. /\ CopyPair(e, f) = [e EXCEPT !.send = IB_COPY(e.send, f.send), !.recv = IB_COPY(e.recv, f.recv)]
  BY DEF CopyPair, Pairs
<1>5. LET x == CopyPair(e, f) IN
      /\ x \in Pairs /\ x.initialized = e.initialized
      /\ x.send.qp = e.send.qp /\ x.recv.qp = e.recv.qp /\ x.send.remote = e.send.remote
  <2>1. IB_COPY(e.send, f.send) \in Res /\ IB_COPY(e.recv, f.recv) \in Res
    BY <1>1, <1>2, <1>3
  <2>2. CopyPair(e, f) \in Pairs /\ CopyPair(e, f).initialized = e.initialized
    BY <1>4, <2>1 DEF Pairs
  <2>3. CopyPair(e, f).send = IB_COPY(e.send, f.send) /\ CopyPair(e, f).recv = IB_COPY(e.recv, f.recv)
    BY <1>4 DEF Pairs
  <2> QED
    BY <1>1, <1>2, <1>3, <2>2, <2>3
<1> QED
  BY <1>5

LEMMA CreateOps ==
  ASSUME NEW e \in Pairs, NEW p \in Nat, NEW n \in Nat
  PROVE  LET x == CreatePair(e, <<p, n>>) IN
         /\ x \in Pairs /\ x.initialized = e.initialized
         /\ e.initialized => x = e
         /\ ~e.initialized => Owns(p, x)
<1>1. e.send \in Res /\ e.recv \in Res /\ e.initialized \in BOOLEAN
  BY DEF Pairs
<1>2. ASSUME NEW a \in Res, NEW new \in Names
      PROVE  resources_create(a, new) \in Res /\ resources_create(a, new).qp = new
  <2> DEFINE pd == IF a.pd = Null THEN new ELSE a.pd
             mr == IF a.mr = Null THEN pd ELSE a.mr
  <2>1. pd \in Names /\ mr \in Names
    BY DEF Res
  <2>2. resources_create(a, new) = [a EXCEPT !.pd = pd, !.mr = mr, !.qp = new, !.qppd = pd]
    BY DEF resources_create, Res
  <2> HIDE DEF pd, mr
  <2> QED
    BY <2>1, <2>2 DEF Res
<1>3. LET x == CreatePair(e, <<p, n>>) IN
      /\ x \in Pairs /\ x.initialized = e.initialized
      /\ e.initialized => x = e
      /\ ~e.initialized => Owns(p, x)
  <2> DEFINE s == Append(<<p, n>>, 1)
             r == Append(<<p, n>>, 2)
             x == CreatePair(e, <<p, n>>)
  <2>1. s \in Names /\ s # Null /\ s[1] = p /\ r \in Names /\ r # Null /\ r[1] = p
    BY NamesFacts
  <2>2. CASE e.initialized
    BY <2>2 DEF CreatePair
  <2>3. CASE ~e.initialized
    <3>1. x = [e EXCEPT !.send = resources_create(e.send, s), !.recv = resources_create(e.recv, r)]
      BY <2>3 DEF CreatePair, Pairs
    <3>2. /\ resources_create(e.send, s) \in Res /\ resources_create(e.send, s).qp = s
          /\ resources_create(e.recv, r) \in Res /\ resources_create(e.recv, r).qp = r
      BY <1>1, <1>2, <2>1
    <3> HIDE DEF s, r, x
    <3>3. /\ x.send = resources_create(e.send, s) /\ x.recv = resources_create(e.recv, r)
          /\ x.initialized = e.initialized /\ x \in Pairs
      BY <3>1, <3>2 DEF Pairs
    <3>4. Owns(p, x)
      BY <2>1, <3>2, <3>3 DEF Owns
    <3> QED
      BY <2>3, <3>3, <3>4 DEF x
  <2> QED
    BY <2>2, <2>3
<1> QED
  BY <1>3

LEMMA FailOps ==
  ASSUME NEW e \in Pairs, NEW p \in Nat, NEW n \in Nat, NEW lost
  PROVE  /\ FailPair(e, <<p, n>>, lost) \in Pairs
         /\ FailPair(e, <<p, n>>, lost).initialized = e.initialized
<1> DEFINE x == CreatePair(e, <<p, n>>)
<1>1. NoRes \in Res
  BY NamesFacts DEF NoRes, Res
<1>2. x \in Pairs /\ x.initialized = e.initialized
  BY CreateOps
<1>3. FailPair(e, <<p, n>>, lost) =
        [x EXCEPT !.send = IF "send" \in lost THEN NoRes ELSE x.send,
                  !.recv = IF "recv" \in lost THEN NoRes ELSE x.recv]
  BY <1>2 DEF FailPair, Pairs
<1> HIDE DEF x
<1> QED
  BY <1>1, <1>2, <1>3 DEF Pairs

LEMMA ConnectOps ==
  ASSUME NEW e \in Pairs, NEW m \in Con
  PROVE  LET x == connect_qp(e, m) IN
         /\ x \in Pairs /\ x.initialized
         /\ x.send.qp = e.send.qp /\ x.recv.qp = e.recv.qp
         /\ e.initialized => x = e
         /\ ~e.initialized => x.send.remote = m.recv
<1>1. e.send \in Res /\ e.recv \in Res /\ e.initialized \in BOOLEAN
  BY DEF Pairs
<1>2. LET x == connect_qp(e, m) IN
      /\ x \in Pairs /\ x.initialized
      /\ x.send.qp = e.send.qp /\ x.recv.qp = e.recv.qp
      /\ e.initialized => x = e
      /\ ~e.initialized => x.send.remote = m.recv
  <2>1. CASE e.initialized
    BY <2>1 DEF connect_qp
  <2>2. CASE ~e.initialized
    <3> DEFINE s == [e.send EXCEPT !.remote = m.recv]
               r == [e.recv EXCEPT !.remote = m.send]
               x == connect_qp(e, m)
    <3>1. /\ s \in Res /\ s.qp = e.send.qp /\ s.remote = m.recv
          /\ r \in Res /\ r.qp = e.recv.qp
      BY <1>1 DEF Res, Con
    <3>2. x = [e EXCEPT !.send = s, !.recv = r, !.initialized = TRUE]
      BY <2>2 DEF connect_qp, Pairs
    <3> HIDE DEF s, r, x
    <3>3. x \in Pairs /\ x.initialized /\ x.send = s /\ x.recv = r
      BY <3>1, <3>2 DEF Pairs
    <3> QED
      BY <2>2, <3>1, <3>3 DEF x
  <2> QED
    BY <2>1, <2>2
<1> QED
  BY <1>2

LEMMA ConData ==
  ASSUME NEW e \in Pairs
  PROVE  /\ get_con_data(e) \in Con
         /\ get_con_data(e).send = e.send.qp /\ get_con_data(e).recv = e.recv.qp
BY DEF get_con_data, Con, Pairs, Res
-----------------------------------------------------------------------------
(* Types and the course of a process.                                      *)

\* A process has at most two neighbours in a ring.
LEMMA PeersFinite ==
  ASSUME NEW c \in Comms, NEW p \in Members[c]
  PROVE  \A S \in SUBSET RingPeers(c, p) : IsFiniteSet(S) /\ Cardinality(S) \in Nat
<1>1. RingPeers(c, p) \subseteq {nextOf[c][p], prevOf[c][p]}
  BY DEF RingPeers, isPeerIbInRingOrTree
<1>2. IsFiniteSet({nextOf[c][p], prevOf[c][p]})
  <2>1. IsFiniteSet({nextOf[c][p]} \cup {prevOf[c][p]})
    BY FS_Singleton, FS_AddElement
  <2>2. {nextOf[c][p]} \cup {prevOf[c][p]} = {nextOf[c][p], prevOf[c][p]}
    OBVIOUS
  <2> QED
    BY <2>1, <2>2
<1>3. ASSUME NEW S \in SUBSET RingPeers(c, p)
      PROVE  IsFiniteSet(S) /\ Cardinality(S) \in Nat
  BY <1>1, <1>2, FS_Subset, FS_CardinalityType
<1> QED
  BY <1>3

\* How many pairs fail is a number, and that of all none only if none did.
LEMMA FailedFacts ==
  ASSUME HostType, NEW c \in Comms, NEW p \in Members[c], NEW failed \in SUBSET RingPeers(c, p),
         failures + Cardinality(failed) <= prog.MaxFailures
  PROVE  /\ failures + Cardinality(failed) \in Nat
         /\ failures + Cardinality(failed) = 0 => failures = 0 /\ failed = {}
<1>3. IsFiniteSet(failed)
  BY PeersFinite
<1>4. Cardinality(failed) \in Nat /\ (Cardinality(failed) = 0 => failed = {})
  BY <1>3, FS_CardinalityType, FS_EmptySet
<1>5. failures \in Nat
  BY DEF HostType
<1> QED
  BY <1>4, <1>5

\* What a call of a process is about.
LEMMA CallFacts ==
  ASSUME HostType, CtlInv, NEW p \in Procs, todo[p] # <<>>
  PROVE  /\ Head(todo[p]) = todo[p][1] /\ 1 \in DOMAIN todo[p] /\ Head(todo[p]) \in Calls
         /\ Current(p) \in Comms /\ p \in Members[Current(p)]
<1>1. todo[p] \in Seq(Calls)
  BY DEF HostType
<1>2. Head(todo[p]) = todo[p][1] /\ 1 \in DOMAIN todo[p] /\ Head(todo[p]) \in Calls
  BY <1>1, Tailed
<1> QED
  BY <1>2 DEF CtlInv, Ctl, Current, Calls

\* Whom a process is connecting to.
LEMMA PeerIn ==
  ASSUME HostType, CtlInv, NEW p \in Procs, pc[p] \notin Gathers \cup {"call"}, left[p] # {}
  PROVE  /\ Current(p) \in Comms /\ p \in Members[Current(p)]
         /\ Peer(p) \in left[p] /\ Peer(p) \in IbPeers[Current(p)][p]
         /\ Peer(p) \in Members[Current(p)] \ {p}
<1>1. Doing(p, "connect") /\ left[p] \subseteq IbPeers[Current(p)][p]
  BY DEF CtlInv, Ctl
<1>2. Current(p) \in Comms /\ p \in Members[Current(p)]
  BY <1>1, CallFacts DEF Doing
<1>3. IbPeers[Current(p)][p] \subseteq Members[Current(p)] \ {p}
  BY <1>2, PeerFacts
<1>4. First(Current(p), left[p]) \in left[p]
  BY <1>1, <1>2, <1>3, FirstIn
<1> QED
  BY <1>1, <1>2, <1>3, <1>4 DEF Peer

\* The steps of processes that set up pairs over sockets, and what the others
\* leave alone.
Exchanges(p) ==
  \/ tcclAlltoall(p) \/ SkipPeer(p) \/ ConnectPeer(p) \/ TakeAccepted(p) \/ AcceptPeer(p)
  \/ Offer(p) \/ LinkPeer(p) \/ Agree(p)

LEMMA OthersExchange ==
  ASSUME NEW p, Process(p)
  PROVE  Exchanges(p) \/ UNCHANGED exchange
<1>1. PairCreate(p) \/ PairTell(p) \/ PairConnect(p) \/ tcclIbHostLockInit(p) => UNCHANGED exchange
  BY Zenon DEF PairCreate, PairTell, PairConnect, tcclIbHostLockInit
<1>2. Created(p) \/ QueuePost(p) \/ tcclAllRankIbFini(p) => UNCHANGED exchange
  BY Zenon DEF Created, QueuePost, tcclAllRankIbFini
<1> QED
  BY <1>1, <1>2 DEF Process, Exchanges

\* Streams and the network leave the hosts alone.
HostVars == <<prog, todo, pc, type, box, exchange, handles, sent, failures>>
LEMMA OthersHost ==
  ASSUME Next, ~ \E p \in Procs : Process(p)
  PROVE  UNCHANGED HostVars
<1>1. ASSUME NEW c, NEW p, Stream(c, p)
      PROVE  UNCHANGED HostVars
  BY <1>1, Zenon DEF Stream, PostData, PostFlag, PostDone, WaitFlag, HostVars
<1>2. ASSUME NEW qp, Deliver(qp)
      PROVE  UNCHANGED HostVars
  BY <1>2 DEF Deliver, HostVars
<1> QED
  BY <1>1, <1>2 DEF Next

\* A process changes what is its own.
LEMMA OwnCourse ==
  ASSUME HostType, CtlInv, NEW p \in Procs, Process(p)
  PROVE  /\ prog' = prog
         /\ todo' = [todo EXCEPT ![p] = todo'[p]] /\ (todo'[p] = todo[p] \/ (todo[p] # <<>> /\ todo'[p] = Tail(todo[p])))
         /\ pc' = [pc EXCEPT ![p] = pc'[p]] /\ pc'[p] \in Pcs
         /\ type' = [type EXCEPT ![p] = type'[p]] /\ type'[p] \in 0 .. 2
<1>1. pc \in [Procs -> Pcs] /\ todo \in [Procs -> Seq(Calls)] /\ type \in [Procs -> 0 .. 2]
  BY DEF HostType
<1>2. ASSUME NEW l \in Pcs, Goto(p, l)
      PROVE  pc' = [pc EXCEPT ![p] = pc'[p]] /\ pc'[p] \in Pcs
  BY <1>1, <1>2 DEF Goto
<1>3. ASSUME Return(p), todo[p] # <<>>
      PROVE  /\ todo' = [todo EXCEPT ![p] = todo'[p]] /\ todo'[p] = Tail(todo[p])
             /\ pc' = [pc EXCEPT ![p] = pc'[p]] /\ pc'[p] \in Pcs
  BY <1>1, <1>3 DEF Return, Goto, Pcs
<1>4. ASSUME NextType(p)
      PROVE  /\ pc' = [pc EXCEPT ![p] = pc'[p]] /\ pc'[p] \in Pcs
             /\ type' = [type EXCEPT ![p] = type'[p]] /\ type'[p] \in 0 .. 2
  <2>1. (type[p] + 1) % 3 \in 0 .. 2
    BY <1>1
  <2> QED
    BY <1>1, <1>4, <2>1 DEF NextType, Goto, Pcs, Gathers
<1>5. UNCHANGED pc => pc' = [pc EXCEPT ![p] = pc'[p]] /\ pc'[p] \in Pcs
  BY <1>1
<1>6. UNCHANGED type => type' = [type EXCEPT ![p] = type'[p]] /\ type'[p] \in 0 .. 2
  BY <1>1
<1>7. UNCHANGED todo => todo' = [todo EXCEPT ![p] = todo'[p]] /\ todo'[p] = todo[p]
  BY <1>1
<1>8. CASE PairCreate(p)
  <2>1. Goto(p, "rets") /\ UNCHANGED <<prog, todo, type>>
    BY <1>8, Zenon DEF PairCreate
  <2> QED
    BY <1>2, <1>6, <1>7, <2>1 DEF Pcs, Gathers
<1>9. CASE PairTell(p)
  <2>1. UNCHANGED <<prog, todo>> /\ ((Goto(p, "qps") /\ UNCHANGED type) \/ NextType(p))
    BY <1>9 DEF PairTell
  <2> QED
    BY <1>2, <1>4, <1>6, <1>7, <2>1 DEF Pcs, Gathers
<1>10. CASE PairConnect(p)
  <2>1. UNCHANGED <<prog, todo>> /\ NextType(p)
    BY <1>10 DEF PairConnect
  <2> QED
    BY <1>4, <1>7, <2>1
<1>11. CASE tcclIbHostLockInit(p)
  <2>1. Goto(p, "barrier") /\ UNCHANGED <<prog, todo, type>>
    BY <1>11 DEF tcclIbHostLockInit
  <2> QED
    BY <1>2, <1>6, <1>7, <2>1 DEF Pcs, Gathers
<1>12. CASE Created(p)
  <2>1. Return(p) /\ UNCHANGED <<prog, type>> /\ pc[p] = "barrier"
    BY <1>12 DEF Created
  <2>2. todo[p] # <<>>
    BY <2>1 DEF CtlInv, Ctl, Doing, Gathers
  <2> QED
    BY <1>3, <1>6, <2>1, <2>2
<1>13. CASE tcclAlltoall(p)
  <2>1. Goto(p, "peer") /\ UNCHANGED <<prog, todo, type>>
    BY <1>13 DEF tcclAlltoall
  <2> QED
    BY <1>2, <1>6, <1>7, <2>1 DEF Pcs
<1>14. CASE SkipPeer(p)
  <2>1. UNCHANGED <<prog, type>> /\ pc[p] = "peer" /\ (Return(p) \/ UNCHANGED <<todo, pc>>)
    BY <1>14 DEF SkipPeer
  <2>2. todo[p] # <<>>
    BY <2>1 DEF CtlInv, Ctl, Doing, Gathers
  <2> QED
    BY <1>3, <1>5, <1>6, <1>7, <2>1, <2>2
<1>15. CASE ConnectPeer(p) \/ TakeAccepted(p) \/ AcceptPeer(p)
  <2>1. (Goto(p, "offer") \/ Goto(p, "accept") \/ UNCHANGED pc) /\ UNCHANGED <<prog, todo, type>>
    BY <1>15 DEF ConnectPeer, TakeAccepted, AcceptPeer
  <2> QED
    BY <1>2, <1>5, <1>6, <1>7, <2>1 DEF Pcs, Sessions
<1>16. CASE Offer(p) \/ LinkPeer(p)
  <2>1. (Goto(p, "link") \/ Goto(p, "agree")) /\ UNCHANGED <<prog, todo, type>>
    BY <1>16 DEF Offer, LinkPeer
  <2> QED
    BY <1>2, <1>6, <1>7, <2>1 DEF Pcs, Sessions
<1>17. CASE Agree(p)
  <2>1. /\ Goto(p, "peer") \/ Goto(p, "offer")
        /\ UNCHANGED <<prog, todo>> /\ type' = [type EXCEPT ![p] = (type[p] + 1) % 3]
    BY <1>17 DEF Agree
  <2>2. (type[p] + 1) % 3 \in 0 .. 2
    BY <1>1
  <2> QED
    BY <1>1, <1>2, <1>7, <2>1, <2>2 DEF Pcs, Sessions
<1>18. CASE QueuePost(p) \/ tcclAllRankIbFini(p)
  <2>1. Return(p) /\ UNCHANGED <<prog, type>> /\ todo[p] # <<>>
    BY <1>18 DEF QueuePost, tcclAllRankIbFini, Doing
  <2> QED
    BY <1>3, <1>6, <2>1
<1> QED
  BY <1>8, <1>9, <1>10, <1>11, <1>12, <1>13, <1>14, <1>15, <1>16, <1>17, <1>18 DEF Process

\* What a process changes of what belongs to the hosts.
LEMMA LeftChange ==
  ASSUME NEW p, Process(p)
  PROVE  tcclAlltoall(p) \/ SkipPeer(p) \/ Agree(p) \/ UNCHANGED left
<1>1. Exchanges(p) \/ UNCHANGED exchange
  BY OthersExchange
<1>2. ConnectPeer(p) \/ TakeAccepted(p) \/ AcceptPeer(p) \/ Offer(p) \/ LinkPeer(p) => UNCHANGED left
  BY DEF ConnectPeer, TakeAccepted, AcceptPeer, Offer, LinkPeer
<1> QED
  BY <1>1, <1>2 DEF Exchanges, exchange

LEMMA SockChange ==
  ASSUME NEW p, Process(p)
  PROVE  ConnectPeer(p) \/ TakeAccepted(p) \/ AcceptPeer(p) \/ UNCHANGED <<sock, accepts, listen>>
<1>1. Exchanges(p) \/ UNCHANGED exchange
  BY OthersExchange
<1>2. tcclAlltoall(p) \/ SkipPeer(p) \/ Offer(p) \/ LinkPeer(p) \/ Agree(p) => UNCHANGED <<sock, accepts, listen>>
  BY DEF tcclAlltoall, SkipPeer, Offer, LinkPeer, Agree
<1> QED
  BY <1>1, <1>2 DEF Exchanges, exchange

LEMMA HostTypeNext ==
  ASSUME HostType, CtlInv, Next
  PROVE  HostType'
<1>1. CASE ~ \E p \in Procs : Process(p)
  <2>1. UNCHANGED HostVars
    BY <1>1, OthersHost
  <2> QED
    BY <2>1 DEF HostType, HostVars, exchange, Table
<1>2. ASSUME NEW p \in Procs, Process(p)
      PROVE  HostType'
  <2>1. /\ prog' = prog
        /\ todo' = [todo EXCEPT ![p] = todo'[p]] /\ (todo'[p] = todo[p] \/ (todo[p] # <<>> /\ todo'[p] = Tail(todo[p])))
        /\ pc' = [pc EXCEPT ![p] = pc'[p]] /\ pc'[p] \in Pcs
        /\ type' = [type EXCEPT ![p] = type'[p]] /\ type'[p] \in 0 .. 2
    BY <1>2, OwnCourse
  <2>2. todo' \in [Procs -> Seq(Calls)]
    <3>1. todo \in [Procs -> Seq(Calls)]
      BY DEF HostType
    <3>2. todo'[p] \in Seq(Calls)
      BY <2>1, <3>1, Tailed
    <3> QED
      BY <2>1, <3>1, <3>2
  <2>3. pc' \in [Procs -> Pcs] /\ type' \in [Procs -> 0 .. 2]
    BY <2>1 DEF HostType
  <2>4. failures' \in Nat /\ failures' <= prog'.MaxFailures
    <3>1. CASE PairCreate(p)
      <4> DEFINE c == Current(p)
      <4>1. c \in Comms /\ p \in Members[c]
        BY <3>1, CallFacts, Zenon DEF PairCreate, Doing
      <4>2. PICK failed \in SUBSET RingPeers(c, p) :
              /\ failures + Cardinality(failed) <= prog.MaxFailures
              /\ failures' = failures + Cardinality(failed)
        BY <3>1, Zenon DEF PairCreate, RingPeers
      <4> HIDE DEF c
      <4>3. failures + Cardinality(failed) \in Nat
        BY <4>1, <4>2, FailedFacts
      <4> QED
        BY <2>1, <4>2, <4>3
    <3>2. CASE ~PairCreate(p)
      <4>1. failures' = failures
        BY <1>2, <3>2, Zenon DEF Process, PairTell, PairConnect, tcclIbHostLockInit, Created, tcclAlltoall,
              SkipPeer, ConnectPeer, TakeAccepted, AcceptPeer, Offer, LinkPeer, Agree, QueuePost,
              tcclAllRankIbFini
      <4> QED
        BY <2>1, <4>1 DEF HostType
    <3> QED
      BY <3>1, <3>2
  <2>5. left' \in [Procs -> SUBSET Procs]
    <3>0. left \in [Procs -> SUBSET Procs]
      BY DEF HostType
    <3>1. CASE UNCHANGED left
      BY <3>0, <3>1
    <3>2. CASE tcclAlltoall(p)
      <4> DEFINE c == Current(p)
      <4>1. c \in Comms /\ p \in Members[c]
        BY <3>2, CallFacts DEF tcclAlltoall, Doing
      <4>2. IbPeers[c][p] \subseteq Procs
        BY <4>1, PeerFacts, CommFacts
      <4>3. left' = [left EXCEPT ![p] = IbPeers[c][p]]
        BY <3>2 DEF tcclAlltoall
      <4> HIDE DEF c
      <4> QED
        BY <3>0, <4>2, <4>3
    <3>3. CASE SkipPeer(p) \/ Agree(p)
      <4> DEFINE q == Peer(p)
      <4>1. \/ left' = left \/ left' = [left EXCEPT ![p] = left[p] \ {q}]
        BY <3>3 DEF SkipPeer, Agree
      <4> HIDE DEF q
      <4> QED
        BY <3>0, <4>1
    <3> QED
      BY <1>2, <3>1, <3>2, <3>3, LeftChange
  <2>6. /\ sock' \in [Procs -> Socks \cup {NoSocket}]
        /\ accepts' \in [Procs -> [Procs -> Socks \cup {NoSocket}]]
        /\ Table(listen') /\ \A c \in Comms : \A q \in Members[c] : listen'[c][q] \in Seq(Members[c])
    <3>0. /\ sock \in [Procs -> Socks \cup {NoSocket}]
          /\ accepts \in [Procs -> [Procs -> Socks \cup {NoSocket}]]
          /\ Table(listen) /\ \A c \in Comms : \A q \in Members[c] : listen[c][q] \in Seq(Members[c])
      BY DEF HostType
    <3> DEFINE c == Current(p)
               q == Peer(p)
    <3>1. CASE UNCHANGED <<sock, accepts, listen>>
      BY <3>0, <3>1 DEF Table
    <3>2. CASE ConnectPeer(p) \/ TakeAccepted(p)
      <4>1. pc[p] = "peer" /\ left[p] # {}
        BY <3>2 DEF ConnectPeer, TakeAccepted, Unconnected
      <4>2. c \in Comms /\ p \in Members[c] /\ q \in Members[c] \ {p} /\ Members[c] \subseteq Procs
        BY <4>1, PeerIn, CommFacts DEF Gathers
      <4>3. CASE ConnectPeer(p)
        <5>1. /\ listen' = [listen EXCEPT ![c][q] = Append(listen[c][q], p)]
              /\ sock' = [sock EXCEPT ![p] = Socket(c, q)] /\ accepts' = accepts
          BY <4>3 DEF ConnectPeer
        <5>2. Socket(c, q) \in Socks
          BY <4>2 DEF Socket, Socks
        <5> HIDE DEF c, q
        <5>3. Append(listen[c][q], p) \in Seq(Members[c])
          BY <3>0, <4>2, Appended
        <5>4. Table(listen') /\ \A d \in Comms : \A o \in Members[d] :
                listen'[d][o] = IF d = c /\ o = q THEN Append(listen[c][q], p) ELSE listen[d][o]
          <6>1. Sets(listen, listen', c, q, Append(listen[c][q], p))
            BY <5>1 DEF Sets
          <6> QED
            BY <3>0, <4>2, <6>1, PlaceSet
        <5>5. \A d \in Comms : \A o \in Members[d] : listen'[d][o] \in Seq(Members[d])
          BY <3>0, <5>3, <5>4
        <5>6. sock' \in [Procs -> Socks \cup {NoSocket}]
          BY <3>0, <5>1, <5>2
        <5> QED
          BY <3>0, <5>1, <5>4, <5>5, <5>6
      <4>4. CASE TakeAccepted(p)
        <5>1. /\ listen' = listen
              /\ \/ UNCHANGED <<sock, accepts>>
                 \/ /\ sock' = [sock EXCEPT ![p] = accepts[p][q]]
                    /\ accepts' = [accepts EXCEPT ![p] = [accepts[p] EXCEPT ![q] = NoSocket]]
          BY <4>4 DEF TakeAccepted, PutAside
        <5> HIDE DEF c, q
        <5>2. q \in Procs
          BY <4>2
        <5>3. sock' \in [Procs -> Socks \cup {NoSocket}]
          BY <3>0, <5>1, <5>2
        <5>4. [accepts[p] EXCEPT ![q] = NoSocket] \in [Procs -> Socks \cup {NoSocket}]
          BY <3>0
        <5>5. accepts' \in [Procs -> [Procs -> Socks \cup {NoSocket}]]
          BY <3>0, <5>1, <5>4
        <5> QED
          BY <3>0, <5>1, <5>3, <5>5
      <4> QED
        BY <3>2, <4>3, <4>4
    <3>3. CASE AcceptPeer(p)
      <4> DEFINE o == Head(listen[c][p])
      <4>1. pc[p] = "accept" /\ listen[c][p] # <<>>
        BY <3>3 DEF AcceptPeer
      <4>2. c \in Comms /\ p \in Members[c] /\ Members[c] \subseteq Procs
        BY <4>1, PeerIn, CommFacts DEF Gathers, CtlInv, Ctl
      <4>3. o \in Members[c] /\ Tail(listen[c][p]) \in Seq(Members[c])
        BY <3>0, <4>1, <4>2, Tailed
      <4>4. Socket(c, o) \in Socks
        BY <4>2, <4>3 DEF Socket, Socks
      <4>5. /\ listen' = [listen EXCEPT ![c][p] = Tail(listen[c][p])]
            /\ \/ sock' = [sock EXCEPT ![p] = Socket(c, o)] /\ accepts' = accepts
               \/ /\ accepts' = [accepts EXCEPT ![p] = [accepts[p] EXCEPT ![o] = Socket(c, o)]]
                  /\ sock' = sock
        BY <3>3 DEF AcceptPeer
      <4> HIDE DEF c, o
      <4>6. Table(listen') /\ \A d \in Comms : \A r \in Members[d] :
              listen'[d][r] = IF d = c /\ r = p THEN Tail(listen[c][p]) ELSE listen[d][r]
        <5>1. Sets(listen, listen', c, p, Tail(listen[c][p]))
          BY <4>5 DEF Sets
        <5> QED
          BY <3>0, <4>2, <5>1, PlaceSet
      <4>7. \A d \in Comms : \A r \in Members[d] : listen'[d][r] \in Seq(Members[d])
        BY <3>0, <4>3, <4>6
      <4>8. sock' \in [Procs -> Socks \cup {NoSocket}]
        BY <3>0, <4>4, <4>5
      <4>9. [accepts[p] EXCEPT ![o] = Socket(c, o)] \in [Procs -> Socks \cup {NoSocket}]
        BY <3>0, <4>4
      <4>10. accepts' \in [Procs -> [Procs -> Socks \cup {NoSocket}]]
        BY <3>0, <4>5, <4>9, Zenon
      <4> QED
        BY <4>6, <4>7, <4>8, <4>10
    <3> QED
      BY <1>2, <3>1, <3>2, <3>3, SockChange
  <2> QED
    BY <2>1, <2>2, <2>3, <2>4, <2>5, <2>6 DEF HostType
<1> QED
  BY <1>1, <1>2
LEMMA BoxChange ==
  ASSUME NEW p, Process(p)
  PROVE  PairCreate(p) \/ PairTell(p) \/ PairConnect(p) \/ tcclIbHostLockInit(p) \/ UNCHANGED box
BY Zenon DEF Process, Created, tcclAlltoall, SkipPeer, ConnectPeer, TakeAccepted, AcceptPeer, Offer, LinkPeer,
       Agree, QueuePost, tcclAllRankIbFini

LEMMA PairChange ==
  ASSUME NEW p, Process(p)
  PROVE  PairCreate(p) \/ PairConnect(p) \/ Offer(p) \/ LinkPeer(p) \/ tcclAllRankIbFini(p) \/ UNCHANGED <<pair, made>>
BY DEF Process, PairTell, tcclIbHostLockInit, Created, tcclAlltoall, SkipPeer, ConnectPeer, TakeAccepted,
       AcceptPeer, Agree, QueuePost, handles

LEMMA MailChange ==
  ASSUME NEW p, Process(p)
  PROVE  Offer(p) \/ LinkPeer(p) \/ Agree(p) \/ UNCHANGED mail
<1>1. Exchanges(p) \/ UNCHANGED mail
  BY OthersExchange DEF exchange
<1> QED
  BY <1>1 DEF Exchanges, tcclAlltoall, SkipPeer, ConnectPeer, TakeAccepted, AcceptPeer

LEMMA PostChange ==
  ASSUME NEW p, Process(p)
  PROVE  /\ UNCHANGED <<stage, cq, landed, flag, disturbed, timeouts>>
         /\ tcclAllRankIbFini(p) \/ UNCHANGED wire
         /\ QueuePost(p) \/ UNCHANGED <<stream, sent>>
         /\ tcclIbHostLockInit(p) \/ UNCHANGED lock
<1>1. ASSUME PairCreate(p) \/ PairTell(p) \/ PairConnect(p) \/ Created(p)
      PROVE  UNCHANGED <<lock, stream, sent, post>>
  BY <1>1, Zenon DEF PairCreate, PairTell, PairConnect, Created
<1>2. ASSUME Exchanges(p)
      PROVE  UNCHANGED <<lock, stream, sent, post>>
  BY <1>2 DEF Exchanges, tcclAlltoall, SkipPeer, ConnectPeer, TakeAccepted, AcceptPeer, Offer, LinkPeer, Agree
<1>3. tcclIbHostLockInit(p) => UNCHANGED <<stream, sent, post>>
  BY DEF tcclIbHostLockInit
<1>4. QueuePost(p) => UNCHANGED <<lock, post>>
  BY DEF QueuePost
<1>5. tcclAllRankIbFini(p) =>
        UNCHANGED <<lock, stream, sent, stage, cq, landed, flag, disturbed, timeouts>>
  BY DEF tcclAllRankIbFini
<1> QED
  BY <1>1, <1>2, <1>3, <1>4, <1>5 DEF Process, Exchanges, post

\* A process of a communicator gives a value.
LEMMA GiveFacts ==
  ASSUME BoxType, NEW c \in Comms, NEW p \in Members[c], NEW v \in Values, Give(c, p, v)
  PROVE  BoxType' /\ \A d \in Comms : \A q \in Members[d] :
           box'[d][q] = IF d = c /\ q = p THEN Append(box[c][p], v) ELSE box[d][q]
<1>1. Sets(box, box', c, p, Append(box[c][p], v))
  BY DEF Give, Sets
<1>2. Table(box) /\ \A d \in Comms : \A q \in Members[d] : box[d][q] \in Seq(Values)
  BY DEF BoxType
<1>3. Table(box') /\ \A d \in Comms : \A q \in Members[d] :
        box'[d][q] = IF d = c /\ q = p THEN Append(box[c][p], v) ELSE box[d][q]
  BY <1>1, <1>2, PlaceSet
<1>4. Append(box[c][p], v) \in Seq(Values)
  BY <1>2, Appended
<1>5. \A d \in Comms : \A q \in Members[d] : box'[d][q] \in Seq(Values)
  BY <1>2, <1>3, <1>4
<1> QED
  BY <1>3, <1>5 DEF BoxType

LEMMA GivesTo ==
  ASSUME BoxType, NEW c \in Comms, NEW p \in Members[c], NEW v \in Values, Give(c, p, v)
  PROVE  box'[c][p] = Append(box[c][p], v) /\ box[c][p] \in Seq(Values)
<1>1. box'[c][p] = Append(box[c][p], v)
  BY GiveFacts
<1>2. box[c][p] \in Seq(Values)
  BY DEF BoxType
<1> QED
  BY <1>1, <1>2

\* What it gives: results first, then its QPs if all pairs were made.
LEMMA Gives ==
  ASSUME HostType, CtlInv, PairType, NEW p \in Procs,
         PairCreate(p) \/ PairTell(p) \/ PairConnect(p) \/ tcclIbHostLockInit(p)
  PROVE  LET c == Current(p) IN
         /\ c \in Comms /\ p \in Members[c] /\ Creating(c, p) /\ AllGave(c, p, Members[c])
         /\ UNCHANGED box \/ \E v \in Values : Give(c, p, v)
         /\ PairTell(p) /\ PairsMade(c, p) =>
              Give(c, p, [q \in RingPeers(c, p) |-> get_con_data(Pair(p, Kind(c, type[p]), q))])
         /\ PairTell(p) /\ ~PairsMade(c, p) => UNCHANGED box
         /\ ~PairTell(p) => \E b \in BOOLEAN : Give(c, p, [ok |-> b])
         /\ PairConnect(p) \/ tcclIbHostLockInit(p) => Give(c, p, [ok |-> TRUE])
<1> DEFINE c == Current(p)
           con == [q \in RingPeers(c, p) |-> get_con_data(Pair(p, Kind(c, type[p]), q))]
<1>1. Doing(p, "create")
  BY Zenon DEF CtlInv, Ctl, PairCreate, PairTell, PairConnect, tcclIbHostLockInit, Gathers
<1>2. c \in Comms /\ p \in Members[c] /\ Head(todo[p]) \in Calls
  BY <1>1, CallFacts DEF Doing
<1>3. Creating(c, p)
  BY <1>1, <1>2 DEF Doing, Creating, Call, Calls, Current
<1>4. AllGave(c, p, Members[c])
  BY Zenon DEF PairCreate, PairTell, PairConnect, tcclIbHostLockInit
<1>5. con \in Values
  <2>1. RingPeers(c, p) \subseteq Procs
    BY <1>2, PeerFacts, CommFacts DEF RingPeers
  <2>2. ASSUME NEW q \in RingPeers(c, p)
        PROVE  get_con_data(Pair(p, Kind(c, type[p]), q)) \in Con
    <3>1. Pair(p, Kind(c, type[p]), q) \in Pairs
      BY PairTyped
    <3> QED
      BY <3>1 DEF get_con_data, Con, Pairs, Res
  <2>3. con \in [RingPeers(c, p) -> Con]
    BY <2>2
  <2> HIDE DEF con
  <2> QED
    BY <2>1, <2>3 DEF Values
<1>6. \A b \in BOOLEAN : [ok |-> b] \in Values
  BY DEF Values
<1>7. PairTell(p) => IF PairsMade(c, p) THEN Give(c, p, con) ELSE UNCHANGED box
  BY DEF PairTell, RingPeers
<1>8. PairCreate(p) => \E b \in BOOLEAN : Give(c, p, [ok |-> b])
  BY Zenon DEF PairCreate
<1>9. PairConnect(p) \/ tcclIbHostLockInit(p) => Give(c, p, [ok |-> TRUE])
  BY DEF PairConnect, tcclIbHostLockInit
<1>10. PairTell(p) => ~PairConnect(p) /\ ~tcclIbHostLockInit(p) /\ ~PairCreate(p)
  BY DEF PairTell, PairConnect, tcclIbHostLockInit, PairCreate
<1> HIDE DEF c, con
<1>11. ~PairTell(p) => \E b \in BOOLEAN : Give(c, p, [ok |-> b])
  BY <1>8, <1>9
<1>12. UNCHANGED box \/ \E v \in Values : Give(c, p, v)
  BY <1>5, <1>6, <1>7, <1>11
<1> QED
  BY <1>2, <1>3, <1>4, <1>7, <1>9, <1>10, <1>11, <1>12 DEF c, con

\* Boxes only grow, and only that of a process that creates a communicator,
\* which has seen what all others have given until then.
Grown(c, p) ==
  \A d \in Comms : \A q \in Members[d] :
    /\ Len(box'[d][q]) = IF d = c /\ q = p THEN Len(box[d][q]) + 1 ELSE Len(box[d][q])
    /\ \A i \in 1 .. Len(box[d][q]) : box'[d][q][i] = box[d][q][i]
LEMMA BoxNext ==
  ASSUME HostType, CtlInv, PairType, BoxType, Next
  PROVE  /\ BoxType'
         /\ \/ UNCHANGED box
            \/ \E p \in Procs :
                 /\ PairCreate(p) \/ PairTell(p) \/ PairConnect(p) \/ tcclIbHostLockInit(p)
                 /\ Grown(Current(p), p)
<1>1. CASE UNCHANGED box
  BY <1>1 DEF BoxType, Table
<1>2. CASE box' # box
  <2>1. PICK p \in Procs : Process(p)
    BY <1>2, OthersHost DEF HostVars
  <2>2. PairCreate(p) \/ PairTell(p) \/ PairConnect(p) \/ tcclIbHostLockInit(p)
    BY <1>2, <2>1, BoxChange
  <2> DEFINE c == Current(p)
  <2>3. c \in Comms /\ p \in Members[c] /\ \E v \in Values : Give(c, p, v)
    BY <1>2, <2>2, Gives
  <2> HIDE DEF c
  <2>4. PICK v \in Values : Give(c, p, v)
    BY <2>3
  <2>5. BoxType' /\ \A d \in Comms : \A q \in Members[d] :
          box'[d][q] = IF d = c /\ q = p THEN Append(box[c][p], v) ELSE box[d][q]
    BY <2>3, <2>4, GiveFacts
  <2>6. Grown(c, p)
    <3> SUFFICES ASSUME NEW d \in Comms, NEW q \in Members[d]
                 PROVE  /\ Len(box'[d][q]) = IF d = c /\ q = p THEN Len(box[d][q]) + 1 ELSE Len(box[d][q])
                        /\ \A i \in 1 .. Len(box[d][q]) : box'[d][q][i] = box[d][q][i]
      BY DEF Grown
    <3>1. box[c][p] \in Seq(Values) /\ v \in Values
      BY <2>3, <2>4 DEF BoxType
    <3>2. CASE d = c /\ q = p
      <4>1. box'[d][q] = Append(box[c][p], v)
        BY <2>5, <3>2
      <4> QED
        BY <3>1, <3>2, <4>1, Appended
    <3>3. CASE ~(d = c /\ q = p)
      <4>1. box'[d][q] = box[d][q]
        BY <2>5, <3>3
      <4> QED
        BY <3>3, <4>1
    <3> QED
      BY <3>2, <3>3
  <2> QED
    BY <2>2, <2>5, <2>6 DEF c
<1> QED
  BY <1>1, <1>2


-----------------------------------------------------------------------------
(* The calls of a process, one step at a time.                             *)

\* Going on, to another place, another type of pairs or another call.
LEMMA Course ==
  ASSUME HostType, NEW p \in Procs
  PROVE  /\ \A l : Goto(p, l) => pc'[p] = l
         /\ Return(p) => pc'[p] = "call" /\ todo'[p] = Tail(todo[p])
         /\ NextType(p) => IF type[p] = 2 THEN type'[p] = 0 /\ pc'[p] = "lock"
                           ELSE type'[p] = type[p] + 1 /\ pc'[p] = "call"
         /\ UNCHANGED todo \/ (todo[p] # <<>> /\ todo'[p] = Tail(todo[p])) =>
              \A i \in DOMAIN todo'[p] : \E j \in DOMAIN todo[p] : todo'[p][i] = todo[p][j]
<1>1. pc \in [Procs -> Pcs] /\ todo \in [Procs -> Seq(Calls)] /\ type \in [Procs -> 0 .. 2]
  BY DEF HostType
<1>2. \A l : Goto(p, l) => pc'[p] = l
  BY <1>1 DEF Goto
<1>3. Return(p) => pc'[p] = "call" /\ todo'[p] = Tail(todo[p])
  BY <1>1 DEF Return, Goto
<1>4. NextType(p) => IF type[p] = 2 THEN type'[p] = 0 /\ pc'[p] = "lock"
                     ELSE type'[p] = type[p] + 1 /\ pc'[p] = "call"
  <2>1. type[p] \in {0, 1, 2}
    BY <1>1
  <2>2. NextType(p) => /\ type'[p] = (type[p] + 1) % 3
                       /\ pc'[p] = IF type[p] < 2 THEN "call" ELSE "lock"
    BY <1>1 DEF NextType, Goto
  <2> QED
    BY <2>1, <2>2
<1>5. ASSUME todo[p] # <<>>, todo'[p] = Tail(todo[p]), NEW i \in DOMAIN todo'[p]
      PROVE  \E j \in DOMAIN todo[p] : todo'[p][i] = todo[p][j]
  <2>1. todo[p] \in Seq(Calls)
    BY <1>1
  <2>2. i \in 1 .. Len(todo[p]) - 1 /\ todo'[p][i] = todo[p][i + 1] /\ Len(todo[p]) \in Nat
    BY <1>5, <2>1, Tailed
  <2>3. i + 1 \in DOMAIN todo[p]
    BY <2>1, <2>2
  <2> QED
    BY <2>2, <2>3
<1> QED
  BY <1>2, <1>3, <1>4, <1>5

\* A process goes on where it may.
LEMMA CtlNext ==
  ASSUME HostType, CtlInv, Next
  PROVE  CtlInv'
<1>1. CASE ~ \E p \in Procs : Process(p)
  <2>1. UNCHANGED HostVars
    BY <1>1, OthersHost
  <2> QED
    BY <2>1 DEF CtlInv, Ctl, HostVars, exchange, Doing, Current, Peer
<1>2. ASSUME NEW p \in Procs, Process(p)
      PROVE  CtlInv'
  <2>1. /\ todo' = [todo EXCEPT ![p] = todo'[p]] /\ (todo'[p] = todo[p] \/ (todo[p] # <<>> /\ todo'[p] = Tail(todo[p])))
        /\ pc' = [pc EXCEPT ![p] = pc'[p]] /\ type' = [type EXCEPT ![p] = type'[p]]
    BY <1>2, OwnCourse
  <2>2. /\ todo \in [Procs -> Seq(Calls)] /\ pc \in [Procs -> Pcs] /\ type \in [Procs -> 0 .. 2]
        /\ left \in [Procs -> SUBSET Procs] /\ sock \in [Procs -> Socks \cup {NoSocket}]
        /\ accepts \in [Procs -> [Procs -> Socks \cup {NoSocket}]]
        /\ \A c \in Comms : \A q \in Members[c] : listen[c][q] \in Seq(Members[c])
    BY DEF HostType
  <2>3. Ctl(p)
    BY DEF CtlInv
  <2>4. ASSUME NEW o \in Procs \ {p}
        PROVE  Ctl(o)'
    <3>1. todo'[o] = todo[o] /\ pc'[o] = pc[o] /\ type'[o] = type[o]
      BY <2>1, <2>2
    <3>2. left'[o] = left[o]
      BY <1>2, <2>2, LeftChange DEF tcclAlltoall, SkipPeer, Agree
    <3>3. sock'[o] = sock[o] /\ accepts'[o] = accepts[o]
      BY <1>2, <2>2, SockChange DEF ConnectPeer, TakeAccepted, AcceptPeer
    <3>4. Ctl(o)
      BY DEF CtlInv
    <3> QED
      BY <3>1, <3>2, <3>3, <3>4 DEF Ctl, Doing, Current, Peer
  <2>5. \A i \in DOMAIN todo'[p] : p \in Members[todo'[p][i].comm]
    <3>1. \A i \in DOMAIN todo'[p] : \E j \in DOMAIN todo[p] : todo'[p][i] = todo[p][j]
      BY <2>1, Course
    <3> QED
      BY <2>3, <3>1 DEF Ctl
  <2>6. Ctl(p)'
    <3>1. CASE PairCreate(p)
      <4>1. /\ Doing(p, "create") /\ pc'[p] = "rets"
            /\ UNCHANGED <<todo, type, left, sock, accepts>>
        BY <3>1, Course, Zenon DEF PairCreate, exchange
      <4> QED
        BY <2>3, <2>5, <4>1 DEF Ctl, Doing, Current, Peer, Gathers, Sessions
    <3>2. CASE PairTell(p) \/ PairConnect(p)
      <4>1. /\ pc[p] \in {"rets", "qps"} /\ UNCHANGED <<todo, left, sock, accepts>>
            /\ \/ pc'[p] = "qps" /\ UNCHANGED type
               \/ type'[p] = 0 /\ pc'[p] = "lock"
               \/ pc'[p] = "call"
        BY <3>2, Course DEF PairTell, PairConnect, exchange
      <4>2. Doing(p, "create")
        BY <2>3, <4>1 DEF Ctl, Gathers
      <4> QED
        BY <2>3, <2>5, <4>1, <4>2 DEF Ctl, Doing, Current, Peer, Gathers, Sessions
    <3>3. CASE tcclIbHostLockInit(p)
      <4>1. /\ pc[p] = "lock" /\ pc'[p] = "barrier" /\ UNCHANGED <<todo, type, left, sock, accepts>>
        BY <3>3, Course DEF tcclIbHostLockInit, exchange
      <4> QED
        BY <2>3, <2>5, <4>1 DEF Ctl, Doing, Current, Peer, Gathers, Sessions
    <3>4. CASE Created(p) \/ QueuePost(p) \/ tcclAllRankIbFini(p)
      <4>1. /\ pc[p] = "barrier" \/ (pc[p] = "call" /\ ~Doing(p, "create"))
            /\ pc'[p] = "call" /\ UNCHANGED <<type, left, sock, accepts>>
        BY <3>4, Course, Zenon DEF Created, QueuePost, tcclAllRankIbFini, exchange, Doing, Posts
      <4>2. type[p] = 0
        BY <2>3, <4>1 DEF Ctl, Sessions
      <4> QED
        BY <2>3, <2>5, <4>1, <4>2 DEF Ctl, Gathers, Sessions
    <3>5. CASE tcclAlltoall(p)
      <4>1. /\ Doing(p, "connect") /\ pc[p] = "call" /\ pc'[p] = "peer"
            /\ left'[p] = IbPeers[Current(p)][p] /\ UNCHANGED <<todo, type, sock, accepts>>
        BY <2>2, <3>5, Course DEF tcclAlltoall
      <4>2. type[p] = 0
        BY <2>3, <4>1 DEF Ctl, Doing, Sessions
      <4> QED
        BY <2>3, <2>5, <4>1, <4>2 DEF Ctl, Doing, Current, Gathers, Sessions
    <3>6. CASE SkipPeer(p)
      <4>1. /\ pc[p] = "peer" /\ UNCHANGED <<type, sock, accepts>>
            /\ \/ pc'[p] = "call"
               \/ pc'[p] = "peer" /\ UNCHANGED todo /\ left'[p] \subseteq left[p]
        BY <2>2, <3>6, Course DEF SkipPeer
      <4>2. type[p] = 0
        BY <2>3, <4>1 DEF Ctl, Sessions
      <4> QED
        BY <2>3, <2>5, <4>1, <4>2 DEF Ctl, Doing, Current, Gathers, Sessions
    <3>7. CASE ConnectPeer(p)
      <4> DEFINE c == Current(p)
                 q == Peer(p)
      <4>1. /\ pc[p] = "peer" /\ left[p] # {} /\ pc'[p] = "offer" /\ sock'[p] = Socket(c, q)
            /\ UNCHANGED <<todo, type, left, accepts>>
        BY <2>2, <3>7, Course DEF ConnectPeer, Unconnected
      <4>2. c \in Comms /\ p \in Members[c] /\ q \in Members[c] /\ Members[c] \subseteq Procs
        BY <4>1, PeerIn, CommFacts DEF Gathers
      <4>3. sock'[p] \in Socks /\ sock'[p].peer = q /\ sock'[p].comm = c
        BY <4>1, <4>2 DEF Socket, Socks
      <4>4. Peer(p)' = q
        BY <4>1 DEF Peer, Current
      <4>5. Doing(p, "connect") /\ left[p] \subseteq IbPeers[Current(p)][p]
        BY <2>3, <4>1 DEF Ctl, Gathers
      <4> HIDE DEF c, q
      <4> QED
        BY <2>3, <2>5, <4>1, <4>2, <4>3, <4>4, <4>5 DEF Ctl, Doing, Current, Gathers, Sessions
    <3>8. CASE TakeAccepted(p)
      <4> DEFINE q == Peer(p)
                 s == accepts[p][q]
      <4>1. /\ pc[p] = "peer" /\ left[p] # {} /\ UNCHANGED <<todo, type, left>>
            /\ \/ pc'[p] = "accept" /\ UNCHANGED <<sock, accepts>>
               \/ /\ s # NoSocket /\ pc'[p] = "offer" /\ sock'[p] = s
                  /\ accepts'[p] = [accepts[p] EXCEPT ![q] = NoSocket]
        BY <2>2, <3>8, Course DEF TakeAccepted, Unconnected, PutAside
      <4>2. q \in Procs
        BY <4>1, PeerIn, CommFacts DEF Gathers
      <4>3. s # NoSocket => s \in Socks /\ s.peer = q /\ {p, q} \subseteq Members[s.comm]
        BY <2>2, <2>3, <4>2 DEF Ctl
      <4>4. Peer(p)' = q
        BY <4>1 DEF Peer, Current
      <4>5. Doing(p, "connect") /\ left[p] \subseteq IbPeers[Current(p)][p]
        BY <2>3, <4>1 DEF Ctl, Gathers
      <4>6. \A o \in Procs : accepts'[p][o] \in {accepts[p][o], NoSocket}
        BY <2>2, <4>1
      <4>7. \A o \in Procs : accepts'[p][o] # NoSocket =>
              accepts'[p][o].peer = o /\ {p, o} \subseteq Members[accepts'[p][o].comm]
        BY <2>3, <4>6 DEF Ctl
      <4> HIDE DEF q, s
      <4> QED
        BY <2>3, <2>5, <4>1, <4>3, <4>4, <4>5, <4>7 DEF Ctl, Doing, Current, Gathers, Sessions
    <3>9. CASE AcceptPeer(p)
      <4> DEFINE c == Current(p)
                 q == Head(listen[c][p])
      <4>1. /\ pc[p] = "accept" /\ listen[c][p] # <<>> /\ UNCHANGED <<todo, type, left>>
            /\ \/ q = Peer(p) /\ pc'[p] = "offer" /\ sock'[p] = Socket(c, q) /\ UNCHANGED accepts
               \/ /\ pc'[p] = "accept" /\ UNCHANGED sock
                  /\ accepts'[p] = [accepts[p] EXCEPT ![q] = Socket(c, q)]
        BY <2>2, <3>9, Course DEF AcceptPeer, IsNeeded
      <4>2. left[p] # {}
        BY <2>3, <4>1 DEF Ctl
      <4>3. c \in Comms /\ p \in Members[c] /\ Members[c] \subseteq Procs
        BY <4>1, <4>2, PeerIn, CommFacts DEF Gathers
      <4>4. q \in Members[c]
        BY <2>2, <4>1, <4>3, Tailed
      <4>5. Socket(c, q) \in Socks /\ Socket(c, q).peer = q /\ Socket(c, q).comm = c
        BY <4>3, <4>4 DEF Socket, Socks
      <4>6. Peer(p)' = Peer(p)
        BY <4>1 DEF Peer, Current
      <4>7. Doing(p, "connect") /\ left[p] \subseteq IbPeers[Current(p)][p]
        BY <2>3, <4>1 DEF Ctl, Gathers
      <4>8. \A o \in Procs : accepts'[p][o] = accepts[p][o] \/ (o = q /\ accepts'[p][o] = Socket(c, q))
        BY <2>2, <4>1
      <4>9. \A o \in Procs : accepts'[p][o] # NoSocket =>
              accepts'[p][o].peer = o /\ {p, o} \subseteq Members[accepts'[p][o].comm]
        BY <2>3, <4>3, <4>4, <4>5, <4>8 DEF Ctl
      <4> HIDE DEF c, q
      <4> QED
        BY <2>3, <2>5, <4>1, <4>2, <4>3, <4>4, <4>5, <4>6, <4>7, <4>9 DEF Ctl, Doing, Current, Gathers, Sessions
    <3>10. CASE Offer(p) \/ LinkPeer(p)
      <4>1. pc[p] \in {"offer", "link"} /\ pc'[p] \in {"link", "agree"} /\ UNCHANGED <<todo, type, left, sock, accepts>>
        BY <3>10, Course DEF Offer, LinkPeer
      <4> QED
        BY <2>3, <2>5, <4>1 DEF Ctl, Doing, Current, Peer, Gathers, Sessions
    <3>11. CASE Agree(p)
      <4>1. /\ pc[p] = "agree" /\ UNCHANGED <<todo, sock, accepts>>
            /\ \/ pc'[p] = "peer" /\ type'[p] = 0 /\ left'[p] \subseteq left[p]
               \/ pc'[p] = "offer" /\ UNCHANGED left
        BY <2>2, <3>11, Course DEF Agree
      <4> QED
        BY <2>3, <2>5, <4>1 DEF Ctl, Doing, Current, Peer, Gathers, Sessions
    <3> QED
      BY <1>2, <3>1, <3>2, <3>3, <3>4, <3>5, <3>6, <3>7, <3>8, <3>9, <3>10, <3>11 DEF Process
  <2> QED
    BY <2>4, <2>6 DEF CtlInv
<1> QED
  BY <1>1, <1>2

-----------------------------------------------------------------------------
(* The gathers of a creation.                                              *)

\* The gathers of results follow one another.
LEMMA PosFacts ==
  ASSUME NEW c
  PROVE  /\ pos(c, 0) = 1
         /\ \A t \in 0 .. 2 : pos(c, t + 1) = After(c, pos(c, t))
         /\ \A t \in 0 .. 3 : pos(c, t) \in Nat \ {0}
         /\ \A s, t \in 0 .. 3 : s < t =>
              pos(c, t) >= pos(c, s) + 1 /\ (ok(c, pos(c, s)) => pos(c, t) >= pos(c, s) + 3)
<1>1. ASSUME NEW i \in Nat \ {0}
      PROVE  /\ After(c, i) \in Nat \ {0} /\ After(c, i) >= i + 1
             /\ ok(c, i) => After(c, i) >= i + 3
  BY DEF After
<1> DEFINE a == After(c, 1)
           b == After(c, a)
           d == After(c, b)
<1>2. pos(c, 0) = 1 /\ pos(c, 1) = a /\ pos(c, 2) = b /\ pos(c, 3) = d
  BY DEF pos
<1>3. a \in Nat \ {0} /\ a >= 2 /\ (ok(c, 1) => a >= 4)
  BY <1>1
<1> HIDE DEF a
<1>4. b \in Nat \ {0} /\ b >= a + 1 /\ (ok(c, a) => b >= a + 3)
  BY <1>1, <1>3
<1> HIDE DEF b
<1>5. d \in Nat \ {0} /\ d >= b + 1 /\ (ok(c, b) => d >= b + 3)
  BY <1>1, <1>4
<1> HIDE DEF d
<1>6. \A t \in 0 .. 2 : pos(c, t + 1) = After(c, pos(c, t))
  <2>1. a = After(c, 1) /\ b = After(c, a) /\ d = After(c, b)
    BY DEF a, b, d
  <2>2. ASSUME NEW t \in 0 .. 2
        PROVE  pos(c, t + 1) = After(c, pos(c, t))
    <3>1. t \in {0, 1, 2} /\ 0 + 1 = 1 /\ 1 + 1 = 2 /\ 2 + 1 = 3
      OBVIOUS
    <3>2. CASE t = 0
      BY <1>2, <2>1, <3>1, <3>2
    <3>3. CASE t = 1
      BY <1>2, <2>1, <3>1, <3>3
    <3>4. CASE t = 2
      BY <1>2, <2>1, <3>1, <3>4
    <3> QED
      BY <3>1, <3>2, <3>3, <3>4
  <2> QED
    BY <2>2
<1>7. ASSUME NEW t \in 0 .. 3
      PROVE  pos(c, t) \in Nat \ {0}
  <2>1. t \in {0, 1, 2, 3}
    OBVIOUS
  <2> QED
    BY <1>2, <1>3, <1>4, <1>5, <2>1
<1>8. ASSUME NEW s \in 0 .. 3, NEW t \in 0 .. 3, s < t
      PROVE  pos(c, t) >= pos(c, s) + 1 /\ (ok(c, pos(c, s)) => pos(c, t) >= pos(c, s) + 3)
  <2>1. s = 0 \/ s = 1 \/ s = 2
    BY <1>8
  <2>2. CASE s = 0
    <3>1. t = 1 \/ t = 2 \/ t = 3
      BY <1>8, <2>2
    <3> QED
      BY <1>2, <1>3, <1>4, <1>5, <2>2, <3>1
  <2>3. CASE s = 1
    <3>1. t = 2 \/ t = 3
      BY <1>8, <2>3
    <3> QED
      BY <1>2, <1>3, <1>4, <1>5, <2>3, <3>1
  <2>4. CASE s = 2
    <3>1. t = 3
      BY <1>8, <2>4
    <3> QED
      BY <1>2, <1>3, <1>4, <1>5, <2>4, <3>1
  <2> QED
    BY <2>1, <2>2, <2>3, <2>4
<1> QED
  BY <1>2, <1>6, <1>7, <1>8

\* What all have given stays what it was.
LEMMA OkKept ==
  ASSUME BoxType, BoxType', NEW d, NEW p, Grown(d, p), NEW c \in Comms, NEW i \in Nat \ {0}, Known(c, i)
  PROVE  Known(c, i)' /\ (ok(c, i)' <=> ok(c, i)) /\ After(c, i)' = After(c, i)
<1>1. ASSUME NEW q \in Members[c]
      PROVE  /\ Len(box[c][q]) >= i /\ Len(box'[c][q]) >= i /\ box'[c][q][i] = box[c][q][i]
             /\ i \in DOMAIN box[c][q] /\ i \in DOMAIN box'[c][q]
  <2>1. box[c][q] \in Seq(Values) /\ box'[c][q] \in Seq(Values)
    BY DEF BoxType
  <2>2. Len(box[c][q]) \in Nat /\ Len(box'[c][q]) \in Nat /\ Len(box[c][q]) >= i
    BY <2>1 DEF Known
  <2>3. Len(box'[c][q]) = Len(box[c][q]) + 1 \/ Len(box'[c][q]) = Len(box[c][q])
    BY DEF Grown
  <2>4. i \in 1 .. Len(box[c][q])
    BY <2>2
  <2> QED
    BY <2>1, <2>2, <2>3, <2>4 DEF Grown
<1>2. Known(c, i)'
  BY <1>1 DEF Known
<1>3. ok(c, i)' <=> ok(c, i)
  BY <1>1 DEF ok
<1> QED
  BY <1>2, <1>3 DEF After

\* So does the place of the gathers that come after.
LEMMA PosKept ==
  ASSUME BoxType, BoxType', NEW d, NEW p, Grown(d, p), NEW c \in Comms, NEW t \in 0 .. 3,
         t > 0 => Known(c, pos(c, t - 1))
  PROVE  /\ \A s \in 0 .. t : pos(c, s)' = pos(c, s)
         /\ \A s \in 0 .. t : s < t => Known(c, pos(c, s)) /\ Known(c, pos(c, s))'
<1>1. /\ pos(c, 0) = 1 /\ \A s \in 0 .. 2 : pos(c, s + 1) = After(c, pos(c, s))
      /\ \A s \in 0 .. 3 : pos(c, s) \in Nat \ {0}
      /\ \A r, s \in 0 .. 3 : r < s => pos(c, s) >= pos(c, r) + 1
  BY PosFacts
<1>2. pos(c, 0)' = 1 /\ \A s \in 0 .. 2 : pos(c, s + 1)' = After(c, pos(c, s))'
  <2>1. pos(c, 0)' = 1 /\ pos(c, 1)' = After(c, 1)' /\ pos(c, 2)' = After(c, After(c, 1))'
        /\ pos(c, 3)' = After(c, After(c, After(c, 1)))'
    BY DEF pos
  <2>2. ASSUME NEW s \in 0 .. 2
        PROVE  pos(c, s + 1)' = After(c, pos(c, s))'
    <3>1. s \in {0, 1, 2}
      OBVIOUS
    <3> QED
      BY <2>1, <3>1
  <2> QED
    BY <2>1, <2>2
<1>3. ASSUME NEW s \in 0 .. 3, s < t
      PROVE  Known(c, pos(c, s))
  <2>1. s = t - 1 \/ s < t - 1
    BY <1>3
  <2>2. pos(c, t - 1) >= pos(c, s) /\ pos(c, t - 1) \in Nat /\ pos(c, s) \in Nat
    BY <1>1, <1>3, <2>1
  <2>3. Known(c, pos(c, t - 1))
    BY <1>3
  <2>4. \A q \in Members[c] : Len(box[c][q]) \in Nat
    BY DEF BoxType
  <2> QED
    BY <2>2, <2>3, <2>4 DEF Known
<1>4. ASSUME NEW s \in 0 .. 2, s < t, pos(c, s)' = pos(c, s)
      PROVE  pos(c, s + 1)' = pos(c, s + 1) /\ Known(c, pos(c, s))'
  <2>1. pos(c, s) \in Nat \ {0} /\ Known(c, pos(c, s))
    BY <1>1, <1>3, <1>4
  <2>2. \A i \in Nat \ {0} : Known(c, i) => Known(c, i)' /\ After(c, i)' = After(c, i)
    BY OkKept
  <2>3. pos(c, s + 1)' = After(c, pos(c, s))' /\ pos(c, s + 1) = After(c, pos(c, s))
    BY <1>1, <1>2
  <2> QED
    BY <1>4, <2>1, <2>2, <2>3
<1> QED
  BY <1>1, <1>2, <1>3, <1>4

-----------------------------------------------------------------------------
(* What the steps of a process do to its pairs.                            *)

LEMMA OwnPair ==
  ASSUME OwnInv, NEW p \in Procs, NEW k, NEW q, Pair(p, k, q).initialized
  PROVE  Owned(p, q, Pair(p, k, q))
<1>1. <<k, q>> \in DOMAIN pair[p] /\ Pair(p, k, q) = pair[p][<<k, q>>]
  BY NoPairType DEF Pair
<1> QED
  BY <1>1 DEF OwnInv

\* The kinds of pairs are told apart.
LEMMA KindFacts ==
  ASSUME NEW c \in Comms
  PROVE  /\ Kind(c, 0) = "send" /\ Kind(c, 1) = "recv" /\ Kind(c, 2) = c
         /\ \A t \in 0 .. 2 : Kind(c, t) \in Kinds
         /\ \A s, t \in 0 .. 2 : Kind(c, s) = Kind(c, t) => s = t
         /\ \A t \in 0 .. 2 : t # 2 => Kind(c, t) \in Posts /\ Kind(c, t) \notin Comms
<1>1. Kind(c, 0) = "send" /\ Kind(c, 1) = "recv" /\ Kind(c, 2) = c
  BY DEF Kind
<1>2. c # "send" /\ c # "recv" /\ "send" \notin Comms /\ "recv" \notin Comms /\ "send" # "recv"
  BY CommFacts
<1>3. \A t \in 0 .. 2 : t = 0 \/ t = 1 \/ t = 2
  OBVIOUS
<1>4. \A t \in 0 .. 2 : Kind(c, t) \in Kinds
  BY <1>1, <1>3 DEF Kinds
<1>5. \A t \in 0 .. 2 : t # 2 => Kind(c, t) \in Posts /\ Kind(c, t) \notin Comms
  BY <1>1, <1>2, <1>3 DEF Posts
<1>6. \A s, t \in 0 .. 2 : Kind(c, s) = Kind(c, t) => s = t
  BY <1>1, <1>2, <1>3
<1> QED
  BY <1>1, <1>4, <1>5, <1>6

\* What comes of it when those of failed cannot be made, for want of
\* the sides in lost.
Outcome(p, c, t, k, failed, lost) ==
  LET N == RingPeers(c, p)
      f == First(c, N)
      old == [q \in N |-> IF t = 2 THEN NoPair ELSE Pair(p, k, q)]
      new(q) == <<p, made[p] + (IF q = f THEN 1 ELSE 2)>>
      Made(q, e) == IF q \in failed THEN FailPair(e, new(q), lost[q]) ELSE CreatePair(e, new(q))
      lent(q) == IF q = f THEN old[f] ELSE CopyPair(old[q], Made(f, old[f])) IN
  /\ failed \in SUBSET {q \in N : ~old[q].initialized}
  /\ lost \in [failed -> (SUBSET Sides) \ {{}}]
  /\ failures + Cardinality(failed) <= prog.MaxFailures /\ failures' = failures + Cardinality(failed)
  /\ Put(p, k, [q \in N |-> Made(q, lent(q))])
  /\ freed' = freed \cup (UNION {{lent(q)[s].mr : s \in lost[q]} : q \in failed} \ {Null})
  /\ Give(c, p, [ok |-> failed = {}])

\* tcclIbPairInit: pairs that are connected stay so, unless they are the
\* communicator's; if all goes well there are QPs in all of them.
LEMMA Creates ==
  ASSUME HostType, CtlInv, PairType, OwnInv, NEW p \in Procs, PairCreate(p),
         NEW c, c = Current(p), NEW t, t = type[p], NEW k, k = Kind(c, t)
  PROVE  /\ PairType'
         /\ \A o \in Procs \ {p} : \A j, q : Pair(o, j, q)' = Pair(o, j, q)
         /\ \A j, q : j # k \/ q \notin RingPeers(c, p) => Pair(p, j, q)' = Pair(p, j, q)
         /\ \A q \in RingPeers(c, p) :
              /\ t # 2 /\ Pair(p, k, q).initialized => Pair(p, k, q)'.initialized
              /\ Pair(p, k, q)'.initialized => Owned(p, q, Pair(p, k, q)')
         /\ \E b \in BOOLEAN :
              /\ Give(c, p, [ok |-> b]) /\ (failures' = 0 => b)
              /\ b => \A q \in RingPeers(c, p) : Owns(p, Pair(p, k, q)')
<1>0. Doing(p, "create")
  BY Zenon DEF PairCreate
<1> DEFINE N == RingPeers(c, p)
           f == First(c, N)
           old == [q \in N |-> IF t = 2 THEN NoPair ELSE Pair(p, k, q)]
           new(q) == <<p, made[p] + (IF q = f THEN 1 ELSE 2)>>
           Made(S, L, q, e) == IF q \in S THEN FailPair(e, new(q), L[q]) ELSE CreatePair(e, new(q))
           lent(S, L, q) == IF q = f THEN old[f] ELSE CopyPair(old[q], Made(S, L, f, old[f]))
           put(S, L) == [q \in N |-> Made(S, L, q, lent(S, L, q))]
<1>19. PICK failed, lost : Outcome(p, c, t, k, failed, lost)
  <2>1. \E failed, lost : Outcome(p, Current(p), type[p], Kind(Current(p), type[p]), failed, lost)
    BY Zenon DEF PairCreate, RingPeers, Outcome
  <2> QED
    BY <2>1
<1>1. /\ failed \in SUBSET {q \in N : ~old[q].initialized}
      /\ failures + Cardinality(failed) <= prog.MaxFailures /\ failures' = failures + Cardinality(failed)
      /\ Put(p, k, put(failed, lost))
      /\ Give(c, p, [ok |-> failed = {}])
  BY <1>19, Zenon DEF Outcome
<1>2. c \in Comms /\ p \in Members[c]
  BY <1>0, CallFacts DEF Doing
<1>3. t \in 0 .. 2 /\ k \in Kinds
  BY <1>2, KindFacts DEF HostType
<1>4. N \subseteq Procs /\ N \subseteq Members[c]
  BY <1>2, PeerFacts, CommFacts DEF RingPeers
<1>5. failures' = 0 => failed = {}
  <2>1. /\ failed \in SUBSET RingPeers(c, p) /\ failures + Cardinality(failed) <= prog.MaxFailures
        /\ failures' = failures + Cardinality(failed)
    BY <1>1, Zenon
  <2> QED
    BY <1>2, <2>1, FailedFacts
<1>6. made' = [made EXCEPT ![p] = made[p] + Cardinality(N)] /\ made \in [Procs -> Nat]
  BY Zenon DEF PairCreate, RingPeers, PairType
<1>7. Cardinality(N) \in Nat
  <2> QED
    BY <1>2, PeersFinite
<1>8. made' \in [Procs -> Nat]
  BY <1>6, <1>7
<1>9. p \in Nat /\ made[p] \in Nat
  BY <1>6, HostAssumption
<1>10. ASSUME NEW q \in N
       PROVE  /\ old[q] \in Pairs /\ (t = 2 => ~old[q].initialized)
              /\ t # 2 => old[q] = Pair(p, k, q)
              /\ old[q].initialized => Owned(p, q, old[q])
  BY NoPairType, PairTyped, OwnPair
<1> HIDE DEF old
<1>11. N # {} => f \in N
  BY <1>2, <1>4, FirstIn
<1> HIDE DEF f, N
<1>12. ASSUME NEW q \in N
       PROVE  /\ put(failed, lost)[q] \in Pairs /\ put(failed, lost)[q].initialized = old[q].initialized
              /\ put(failed, lost)[q].initialized => Owned(p, q, put(failed, lost)[q])
              /\ failed = {} => Owns(p, put(failed, lost)[q])
  <2>1. f \in N
    BY <1>11
  <2>2. old[f] \in Pairs /\ old[q] \in Pairs
    BY <1>10, <2>1
  <2>3. ASSUME NEW n \in Nat, NEW e \in Pairs
        PROVE  /\ CreatePair(e, <<p, n>>) \in Pairs /\ CreatePair(e, <<p, n>>).initialized = e.initialized
               /\ e.initialized => CreatePair(e, <<p, n>>) = e
               /\ ~e.initialized => Owns(p, CreatePair(e, <<p, n>>))
               /\ \A L : /\ FailPair(e, <<p, n>>, L) \in Pairs
                         /\ FailPair(e, <<p, n>>, L).initialized = e.initialized
    BY <1>9, CreateOps, FailOps
  <2>4. \A x \in N : \E n \in Nat : new(x) = <<p, n>>
    BY <1>9
  <2>5. Made(failed, lost, f, old[f]) \in Pairs
    BY <2>1, <2>2, <2>3, <2>4
  <2> DEFINE e == lent(failed, lost, q)
  <2>6. /\ e \in Pairs /\ e.initialized = old[q].initialized
        /\ e.send.qp = old[q].send.qp /\ e.recv.qp = old[q].recv.qp /\ e.send.remote = old[q].send.remote
    <3> DEFINE g == Made(failed, lost, f, old[f])
    <3>1. g \in Pairs
      BY <2>5
    <3> HIDE DEF g
    <3>2. LET x == CopyPair(old[q], g) IN
          /\ x \in Pairs /\ x.initialized = old[q].initialized
          /\ x.send.qp = old[q].send.qp /\ x.recv.qp = old[q].recv.qp /\ x.send.remote = old[q].send.remote
      BY <2>2, <3>1, CopyOps
    <3>3. e = IF q = f THEN old[f] ELSE CopyPair(old[q], g)
      BY DEF g
    <3> QED
      BY <2>2, <3>2, <3>3
  <2>7. put(failed, lost)[q] = Made(failed, lost, q, e)
    OBVIOUS
  <2> HIDE DEF e, lent
  <2>8. q \in failed => ~old[q].initialized
    BY <1>1
  <2>9. old[q].initialized => Owned(p, q, e)
    BY <1>10, <2>6 DEF Owned, Owns
  <2>10. CASE q \in failed
    <3>1. put(failed, lost)[q] = FailPair(e, new(q), lost[q])
      BY <2>7, <2>10
    <3>2. PICK n \in Nat : new(q) = <<p, n>>
      BY <2>4
    <3> HIDE DEF put, Made, new
    <3>3. /\ put(failed, lost)[q] \in Pairs
          /\ put(failed, lost)[q].initialized = e.initialized
      BY <2>3, <2>6, <3>1, <3>2
    <3> QED
      BY <2>6, <2>8, <2>10, <3>3
  <2>11. CASE q \notin failed
    <3>1. put(failed, lost)[q] = CreatePair(e, new(q))
      BY <2>7, <2>11
    <3>2. PICK n \in Nat : new(q) = <<p, n>>
      BY <2>4
    <3> HIDE DEF put, Made, new
    <3>3. e.initialized => put(failed, lost)[q] = e
      BY <2>3, <2>6, <3>1, <3>2
    <3>4. ~e.initialized => Owns(p, put(failed, lost)[q])
      BY <2>3, <2>6, <3>1, <3>2
    <3>5. put(failed, lost)[q] \in Pairs /\ put(failed, lost)[q].initialized = e.initialized
      BY <2>3, <2>6, <3>1, <3>2
    <3>6. Owned(p, q, e) => Owns(p, e)
      BY DEF Owned
    <3> QED
      BY <2>6, <2>9, <3>3, <3>4, <3>5, <3>6
  <2> QED
    BY <2>10, <2>11
<1> DEFINE now == put(failed, lost)
<1>13. DOMAIN now = N /\ Put(p, k, now)
  BY <1>1
<1> HIDE DEF now, put
<1>14. \A q \in N : /\ now[q] \in Pairs /\ now[q].initialized = old[q].initialized
                    /\ now[q].initialized => Owned(p, q, now[q])
                    /\ failed = {} => Owns(p, now[q])
  BY <1>12 DEF now
<1>15. /\ \A q \in N : Pair(p, k, q)' = now[q]
       /\ \A j, q : j # k \/ q \notin N => Pair(p, j, q)' = Pair(p, j, q)
       /\ \A o \in Procs \ {p} : \A j, q : Pair(o, j, q)' = Pair(o, j, q)
  <2>1. DOMAIN now \subseteq Procs /\ \A q \in DOMAIN now : now[q] \in Pairs
    BY <1>4, <1>13, <1>14
  <2>2. /\ \A q \in DOMAIN now : Pair(p, k, q)' = now[q]
        /\ \A j, q : j # k \/ q \notin DOMAIN now => Pair(p, j, q)' = Pair(p, j, q)
        /\ \A o \in Procs \ {p} : \A j, q : Pair(o, j, q)' = Pair(o, j, q)
    BY <1>3, <1>13, <2>1, PairAfter
  <2> QED
    BY <1>13, <2>2
<1>16. PairType'
  BY <1>3, <1>4, <1>8, <1>13, <1>14, PutFacts DEF PairType
<1>17. \A q \in N : /\ t # 2 /\ Pair(p, k, q).initialized => Pair(p, k, q)'.initialized
                    /\ Pair(p, k, q)'.initialized => Owned(p, q, Pair(p, k, q)')
  BY <1>10, <1>14, <1>15
<1>18. \E b \in BOOLEAN :
         /\ Give(c, p, [ok |-> b]) /\ (failures' = 0 => b)
         /\ b => \A q \in N : Owns(p, Pair(p, k, q)')
  BY <1>1, <1>5, <1>14, <1>15
<1> QED
  BY <1>15, <1>16, <1>17, <1>18 DEF N

\* What a neighbour has told about its QPs.
LEMMA Told ==
  ASSUME HostType, CtlInv, BoxType, BoxInv, ValueInv, NEW p \in Procs, pc[p] = "qps",
         NEW c, c = Current(p), AllGave(c, p, Members[c]), NEW q \in RingPeers(c, p)
  PROVE  Given(c, p, q)[p] \in ConOf(q)
<1>1. Doing(p, "create")
  BY DEF CtlInv, Ctl, Gathers
<1>2. c \in Comms /\ p \in Members[c] /\ Creating(c, p)
  BY <1>1, CallFacts DEF Doing, Creating, Current, Call, Calls
<1>3. q \in Members[c] /\ p \in RingPeers(c, q)
  BY <1>2, PeerFacts DEF RingPeers
<1> DEFINE t == type[p]
           i == pos(c, t)
<1>4. Len(box[c][p]) = i + 1 /\ ok(c, i)
  BY <1>2 DEF BoxInv, BoxAt
<1>5. t \in 0 .. 2 /\ i \in Nat
  BY PosFacts DEF HostType
<1>6. Len(box[c][q]) >= i + 1 /\ Len(box[c][q]) \in Nat
  BY <1>3, <1>4 DEF AllGave, BoxType
<1> HIDE DEF i
<1>7. Len(box[c][q]) > i
  BY <1>5, <1>6
<1>8. box[c][q][i + 1] \in [RingPeers(c, q) -> ConOf(q)]
  BY <1>2, <1>3, <1>4, <1>5, <1>7 DEF ValueInv, ValueAt, i
<1>9. Given(c, p, q) = box[c][q][i + 1]
  BY <1>4 DEF Given
<1> QED
  BY <1>3, <1>8, <1>9

\* tcclIbPairInit, second part: all pairs are connected to the right peers.
LEMMA Connects ==
  ASSUME HostType, CtlInv, BoxType, PairType, BoxInv, ValueInv, OwnInv, CreateInv,
         NEW p \in Procs, PairConnect(p), NEW c, c = Current(p), NEW k, k = Kind(c, type[p])
  PROVE  /\ PairType'
         /\ \A o \in Procs \ {p} : \A j, q : Pair(o, j, q)' = Pair(o, j, q)
         /\ \A j, q : j # k \/ q \notin RingPeers(c, p) => Pair(p, j, q)' = Pair(p, j, q)
         /\ \A q \in RingPeers(c, p) :
              Pair(p, k, q)'.initialized /\ Owned(p, q, Pair(p, k, q)')
<1>1. pc[p] = "qps" /\ AllGave(c, p, Members[c])
  BY DEF PairConnect
<1>2. Doing(p, "create")
  BY <1>1 DEF CtlInv, Ctl, Gathers
<1>3. c \in Comms /\ p \in Members[c]
  BY <1>2, CallFacts DEF Doing
<1>4. k \in Kinds
  BY <1>3, KindFacts DEF HostType
<1> DEFINE N == RingPeers(c, p)
           now == [q \in N |-> connect_qp(Pair(p, k, q), Given(c, p, q)[p])]
<1>5. Put(p, k, now) /\ UNCHANGED made
  <2>1. Put(p, Kind(Current(p), type[p]), [q \in RingPeers(Current(p), p) |->
          connect_qp(Pair(p, Kind(Current(p), type[p]), q), Given(Current(p), p, q)[p])])
    BY DEF PairConnect, RingPeers
  <2>2. UNCHANGED made
    BY DEF PairConnect
  <2> QED
    BY <2>1, <2>2
<1>6. N \subseteq Procs
  BY <1>3, PeerFacts, CommFacts DEF RingPeers
<1>7. ASSUME NEW q \in N
      PROVE  now[q] \in Pairs /\ now[q].initialized /\ Owned(p, q, now[q])
  <2> DEFINE e == Pair(p, k, q)
             m == Given(c, p, q)[p]
  <2>1. m \in ConOf(q)
    BY <1>1, Told
  <2>2. m \in Con /\ m.recv # Null /\ m.recv[1] = q
    BY <2>1 DEF ConOf
  <2>3. e \in Pairs
    BY PairTyped
  <2>4. Owns(p, e)
    BY <1>1, <1>2 DEF CreateInv
  <2>5. e.initialized => Owned(p, q, e)
    BY OwnPair
  <2>6. now[q] = connect_qp(e, m)
    OBVIOUS
  <2> HIDE DEF e, m, now
  <2>7. LET x == connect_qp(e, m) IN
        /\ x \in Pairs /\ x.initialized
        /\ x.send.qp = e.send.qp /\ x.recv.qp = e.recv.qp
        /\ e.initialized => x = e
        /\ ~e.initialized => x.send.remote = m.recv
    BY <2>2, <2>3, ConnectOps
  <2> QED
    BY <2>2, <2>4, <2>5, <2>6, <2>7 DEF Owned, Owns
<1>8. DOMAIN now = N
  OBVIOUS
<1> HIDE DEF now, N
<1>9. DOMAIN now \subseteq Procs /\ \A q \in DOMAIN now : now[q] \in Pairs
  BY <1>6, <1>7, <1>8
<1>10. /\ \A q \in DOMAIN now : Pair(p, k, q)' = now[q]
       /\ \A j, q : j # k \/ q \notin DOMAIN now => Pair(p, j, q)' = Pair(p, j, q)
       /\ \A o \in Procs \ {p} : \A j, q : Pair(o, j, q)' = Pair(o, j, q)
  BY <1>4, <1>5, <1>9, PairAfter
<1>11. PairType'
  BY <1>4, <1>5, <1>9, PutFacts DEF PairType
<1> QED
  BY <1>7, <1>8, <1>10, <1>11 DEF N

\* The first half of tcclIbPairInitPeer: there are QPs, and they are told.
LEMMA Offers ==
  ASSUME HostType, CtlInv, PairType, OwnInv, NEW p \in Procs, Offer(p),
         NEW c, c = Current(p), NEW q, q = Peer(p), NEW t, t = type[p], NEW k, k = Kind(c, t)
  PROVE  /\ PairType'
         /\ \A o \in Procs \ {p} : \A j, x : Pair(o, j, x)' = Pair(o, j, x)
         /\ \A j, x : j # k \/ x # q => Pair(p, j, x)' = Pair(p, j, x)
         /\ t # 2 /\ Pair(p, k, q).initialized => Pair(p, k, q)'.initialized
         /\ Pair(p, k, q)'.initialized => Owned(p, q, Pair(p, k, q)')
         /\ Owns(p, Pair(p, k, q)')
         /\ \E m \in ConOf(p) : mail' = [mail EXCEPT ![To(p)] = Append(mail[To(p)], m)]
<1>1. pc[p] = "offer"
  BY DEF Offer
<1>2. left[p] # {}
  BY <1>1 DEF CtlInv, Ctl, Sessions
<1>3. c \in Comms /\ p \in Members[c] /\ q \in Members[c] /\ Members[c] \subseteq Procs
  BY <1>1, <1>2, PeerIn, CommFacts DEF Gathers
<1>4. t \in 0 .. 2 /\ k \in Kinds
  BY <1>3, KindFacts DEF HostType
<1> DEFINE f == copied[c][p][t]
           old == IF t = 2 THEN NoPair ELSE Pair(p, k, q)
           lent == IF f # Nobody /\ Pair(p, k, f).initialized THEN CopyPair(old, Pair(p, k, f)) ELSE old
           e == CreatePair(lent, <<p, made[p] + 1>>)
           now == [x \in {q} |-> e]
<1>5. /\ Put(p, k, now) /\ mail' = [mail EXCEPT ![To(p)] = Append(mail[To(p)], get_con_data(e))]
      /\ made' = [made EXCEPT ![p] = made[p] + 1]
  BY Zenon DEF Offer
<1>6. made \in [Procs -> Nat] /\ p \in Nat
  BY HostAssumption DEF PairType
<1>7. old \in Pairs /\ (t = 2 => ~old.initialized) /\ (t # 2 => old = Pair(p, k, q))
      /\ (old.initialized => Owned(p, q, old))
  BY NoPairType, PairTyped, OwnPair
<1>8. Pair(p, k, f) \in Pairs
  BY PairTyped
<1> HIDE DEF old, f
<1>9. /\ lent \in Pairs /\ lent.initialized = old.initialized
      /\ lent.send.qp = old.send.qp /\ lent.recv.qp = old.recv.qp /\ lent.send.remote = old.send.remote
  BY <1>7, <1>8, CopyOps
<1> HIDE DEF lent
<1>10. /\ e \in Pairs /\ e.initialized = lent.initialized
       /\ lent.initialized => e = lent
       /\ ~lent.initialized => Owns(p, e)
  <2>1. made[p] + 1 \in Nat
    BY <1>6
  <2> QED
    BY <1>6, <1>9, <2>1, CreateOps
<1> HIDE DEF e
<1>11. e.initialized => Owned(p, q, e)
  BY <1>7, <1>9, <1>10 DEF Owned, Owns
<1>12. Owns(p, e)
  BY <1>10, <1>11 DEF Owned
<1>13. get_con_data(e) \in ConOf(p)
  BY <1>10, <1>12, ConData DEF ConOf, Owns
<1>14. DOMAIN now = {q} /\ now[q] = e
  OBVIOUS
<1> HIDE DEF now
<1>15. DOMAIN now \subseteq Procs /\ \A x \in DOMAIN now : now[x] \in Pairs
  BY <1>3, <1>10, <1>14
<1>16. /\ \A x \in DOMAIN now : Pair(p, k, x)' = now[x]
       /\ \A j, x : j # k \/ x \notin DOMAIN now => Pair(p, j, x)' = Pair(p, j, x)
       /\ \A o \in Procs \ {p} : \A j, x : Pair(o, j, x)' = Pair(o, j, x)
  BY <1>4, <1>5, <1>15, PairAfter
<1>17. made' \in [Procs -> Nat]
  BY <1>5, <1>6
<1>18. PairType'
  BY <1>4, <1>5, <1>15, <1>17, PutFacts DEF PairType
<1>19. t # 2 /\ Pair(p, k, q).initialized => e.initialized
  BY <1>7, <1>9, <1>10
<1> QED
  BY <1>5, <1>11, <1>12, <1>13, <1>14, <1>16, <1>18, <1>19

\* A process that is about to link has a message of its peer's QPs.
LEMMA Heard ==
  ASSUME HostType, CtlInv, MailInv, NEW p \in Procs, LinkPeer(p)
  PROVE  Head(mail[From(p)]) \in ConOf(Peer(p))
<1>1. pc[p] = "link" /\ mail[From(p)] # <<>>
  BY DEF LinkPeer
<1> DEFINE c == sock[p].comm
           q == sock[p].peer
           s == mail[<<c, q, p>>]
<1>2. sock[p] \in Socks /\ q = Peer(p) /\ {p, q} \subseteq Members[c]
  BY <1>1 DEF CtlInv, Ctl, Sessions
<1>3. c \in Comms
  BY <1>2 DEF Socks
<1>4. Turns(s, ConOf(q), Speaks(c, p, q, "agree"), Speaks(c, q, p, "link"))
  BY <1>2, <1>3 DEF MailInv
<1>5. ~Speaks(c, p, q, "agree")
  BY <1>1 DEF Speaks
<1>6. s # <<>> /\ From(p) = <<c, q, p>>
  BY <1>1 DEF From
<1> HIDE DEF s, c
<1>7. s \in Seq(Con \cup {"ret"}) /\ \A i \in DOMAIN s : i % 2 = 1 => s[i] \in ConOf(q)
  BY <1>4, <1>5 DEF Turns
<1>8. Head(s) = s[1] /\ 1 \in DOMAIN s
  BY <1>6, <1>7
<1>9. 1 % 2 = 1
  OBVIOUS
<1> QED
  BY <1>2, <1>6, <1>7, <1>8, <1>9 DEF s

LEMMA Links ==
  ASSUME HostType, CtlInv, PairType, OwnInv, MailInv, SessionInv, NEW p \in Procs, LinkPeer(p),
         NEW c, c = Current(p), NEW q, q = Peer(p), NEW k, k = Kind(c, type[p])
  PROVE  /\ PairType'
         /\ \A o \in Procs \ {p} : \A j, x : Pair(o, j, x)' = Pair(o, j, x)
         /\ \A j, x : j # k \/ x # q => Pair(p, j, x)' = Pair(p, j, x)
         /\ Pair(p, k, q)'.initialized /\ Owned(p, q, Pair(p, k, q)')
<1>1. pc[p] = "link"
  BY DEF LinkPeer
<1>2. left[p] # {}
  BY <1>1 DEF CtlInv, Ctl, Sessions
<1>3. c \in Comms /\ p \in Members[c] /\ q \in Members[c] /\ Members[c] \subseteq Procs
  BY <1>1, <1>2, PeerIn, CommFacts DEF Gathers
<1>4. k \in Kinds
  BY <1>3, KindFacts DEF HostType
<1> DEFINE m == Head(mail[From(p)])
           old == Pair(p, k, q)
           e == connect_qp(old, m)
           now == [x \in {q} |-> e]
<1>5. Put(p, k, now) /\ UNCHANGED made
  BY DEF LinkPeer
<1>6. m \in ConOf(q)
  BY Heard
<1>7. m \in Con /\ m.recv # Null /\ m.recv[1] = q
  BY <1>6 DEF ConOf
<1>8. old \in Pairs /\ (old.initialized => Owned(p, q, old))
  BY PairTyped, OwnPair
<1>9. Owns(p, old)
  BY <1>1 DEF SessionInv, Gathers
<1> HIDE DEF old, m
<1>10. /\ e \in Pairs /\ e.initialized
       /\ e.send.qp = old.send.qp /\ e.recv.qp = old.recv.qp
       /\ old.initialized => e = old
       /\ ~old.initialized => e.send.remote = m.recv
  BY <1>7, <1>8, ConnectOps
<1> HIDE DEF e
<1>11. Owned(p, q, e)
  BY <1>7, <1>8, <1>9, <1>10 DEF Owned, Owns
<1>12. DOMAIN now = {q} /\ now[q] = e
  OBVIOUS
<1> HIDE DEF now
<1>13. DOMAIN now \subseteq Procs /\ \A x \in DOMAIN now : now[x] \in Pairs
  BY <1>3, <1>10, <1>12
<1>14. /\ \A x \in DOMAIN now : Pair(p, k, x)' = now[x]
       /\ \A j, x : j # k \/ x \notin DOMAIN now => Pair(p, j, x)' = Pair(p, j, x)
       /\ \A o \in Procs \ {p} : \A j, x : Pair(o, j, x)' = Pair(o, j, x)
  BY <1>4, <1>5, <1>13, PairAfter
<1>15. PairType'
  BY <1>4, <1>5, <1>13, PutFacts DEF PairType
<1> QED
  BY <1>10, <1>11, <1>12, <1>14, <1>15

\* tcclAllRankIbFini: the flag pairs are gone, the others stay.
LEMMA Destroys ==
  ASSUME HostType, CtlInv, PairType, NEW p \in Procs, tcclAllRankIbFini(p), NEW c, c = Current(p)
  PROVE  /\ PairType'
         /\ \A o \in Procs \ {p} : \A j, q : Pair(o, j, q)' = Pair(o, j, q)
         /\ \A j, q : j # c => Pair(p, j, q)' = Pair(p, j, q)
         /\ \A q : ~Pair(p, c, q)'.initialized
<1> DEFINE f == [x \in {y \in DOMAIN pair[p] : y[1] # c} |-> pair[p][x]]
<1>1. pair' = [pair EXCEPT ![p] = f] /\ made' = made
  BY DEF tcclAllRankIbFini
<1>2. /\ pair = [o \in Procs |-> [x \in DOMAIN pair[o] |-> pair[o][x]]]
      /\ \A o \in Procs : \A x \in DOMAIN pair[o] : x \in Kinds \X Procs /\ pair[o][x] \in Pairs
      /\ made \in [Procs -> Nat]
  BY DEF PairType
<1>3. /\ DOMAIN f \subseteq DOMAIN pair[p] /\ f = [x \in DOMAIN f |-> f[x]]
      /\ \A x \in DOMAIN pair[p] : x[1] # c => x \in DOMAIN f /\ f[x] = pair[p][x]
      /\ \A x \in DOMAIN f : x[1] # c /\ f[x] = pair[p][x]
  OBVIOUS
<1> HIDE DEF f
<1>4. pair'[p] = f /\ \A o \in Procs \ {p} : pair'[o] = pair[o]
  BY <1>1, <1>2
<1>5. \A o \in Procs : pair'[o] = [x \in DOMAIN pair'[o] |-> pair'[o][x]]
  BY <1>2, <1>3, <1>4
<1>6. pair' = [o \in Procs |-> pair'[o]]
  BY <1>1, <1>2
<1>7. pair' = [o \in Procs |-> [x \in DOMAIN pair'[o] |-> pair'[o][x]]]
  BY <1>5, <1>6
<1>8. PairType'
  BY <1>1, <1>2, <1>3, <1>4, <1>7 DEF PairType
<1>9. \A j, q : j # c => Pair(p, j, q)' = Pair(p, j, q)
  BY <1>3, <1>4 DEF Pair
<1>10. \A q : ~Pair(p, c, q)'.initialized
  BY <1>3, <1>4, NoPairType DEF Pair
<1> QED
  BY <1>4, <1>8, <1>9, <1>10 DEF Pair

\* What the pairs rest on.
PairsInv ==
  /\ HostType /\ BoxType /\ PairType /\ CtlInv /\ BoxInv /\ ValueInv /\ OwnInv
  /\ CreateInv /\ MailInv /\ SessionInv

\* A pair that is connected stays so, with QPs of the process and its peer,
\* unless it is a communicator's and this is created, destroyed or connected.
LEMMA PairNext ==
  ASSUME PairsInv, Next
  PROVE  /\ PairType' /\ OwnInv'
         /\ \A o \in Procs : \A j, x : Pair(o, j, x).initialized =>
              \/ Pair(o, j, x)'.initialized
              \/ /\ j \in Comms /\ j = Current(o)
                 /\ PairCreate(o) \/ (Offer(o) /\ x = Peer(o)) \/ tcclAllRankIbFini(o)
<1> DEFINE Lost(o, j, x) ==
             /\ j \in Comms /\ j = Current(o)
             /\ PairCreate(o) \/ (Offer(o) /\ x = Peer(o)) \/ tcclAllRankIbFini(o)
<1>0. /\ HostType /\ BoxType /\ PairType /\ CtlInv /\ BoxInv /\ ValueInv /\ OwnInv
      /\ CreateInv /\ MailInv /\ SessionInv
  BY DEF PairsInv
<1> SUFFICES /\ PairType'
             /\ \A o \in Procs : \A j, x :
                  /\ Pair(o, j, x).initialized => Pair(o, j, x)'.initialized \/ Lost(o, j, x)
                  /\ Pair(o, j, x)'.initialized => Owned(o, x, Pair(o, j, x)')
  <2>1. ASSUME PairType',
               \A o \in Procs : \A j, x : Pair(o, j, x)'.initialized => Owned(o, x, Pair(o, j, x)')
        PROVE  OwnInv'
    <3>1. ASSUME NEW o \in Procs, NEW y \in DOMAIN pair'[o], pair'[o][y].initialized
          PROVE  Owned(o, y[2], pair'[o][y])
      <4>1. y = <<y[1], y[2]>>
        BY <2>1 DEF PairType
      <4>2. Pair(o, y[1], y[2])' = pair'[o][y]
        BY <4>1 DEF Pair
      <4> QED
        BY <2>1, <3>1, <4>2
    <3> QED
      BY <3>1 DEF OwnInv
  <2> QED
    BY <2>1
<1> HIDE DEF Lost
<1>1. ASSUME NEW o \in Procs, NEW j, NEW x, Pair(o, j, x)' = Pair(o, j, x)
      PROVE  /\ Pair(o, j, x).initialized => Pair(o, j, x)'.initialized \/ Lost(o, j, x)
             /\ Pair(o, j, x)'.initialized => Owned(o, x, Pair(o, j, x)')
  BY <1>0, <1>1, OwnPair
<1>2. CASE UNCHANGED <<pair, made>>
  <2>1. PairType'
    BY <1>0, <1>2 DEF PairType
  <2>2. \A o, j, x : Pair(o, j, x)' = Pair(o, j, x)
    BY <1>2 DEF Pair
  <2> QED
    BY <1>1, <2>1, <2>2
<1>3. ASSUME NEW p \in Procs, Process(p), ~UNCHANGED <<pair, made>>,
             NEW c, c = Current(p), NEW t, t = type[p], NEW q, q = Peer(p)
      PROVE  /\ PairType'
             /\ \A o \in Procs : \A j, x :
                  /\ Pair(o, j, x).initialized => Pair(o, j, x)'.initialized \/ Lost(o, j, x)
                  /\ Pair(o, j, x)'.initialized => Owned(o, x, Pair(o, j, x)')
  <2> DEFINE k == Kind(c, t)
  <2>1. PairCreate(p) \/ PairConnect(p) \/ Offer(p) \/ LinkPeer(p) \/ tcclAllRankIbFini(p)
    BY <1>3, PairChange
  <2>2. c \in Comms /\ t \in 0 .. 2
    <3>1. todo[p] # <<>>
      BY <1>0, <2>1, Zenon DEF CtlInv, Ctl, Gathers, Sessions, Doing, PairCreate, PairConnect, Offer, LinkPeer,
                       tcclAllRankIbFini
    <3> QED
      BY <1>0, <1>3, <3>1, CallFacts DEF HostType
  <2>3. t = 2 => k = c
    BY <2>2, KindFacts
  <2> HIDE DEF k
  <2>4. k = Kind(c, t) /\ k = Kind(c, type[p])
    BY <1>3 DEF k
  <2>5. CASE PairCreate(p)
    <3>1. /\ PairType'
          /\ \A o \in Procs \ {p} : \A j, x : Pair(o, j, x)' = Pair(o, j, x)
          /\ \A j, x : j # k \/ x \notin RingPeers(c, p) => Pair(p, j, x)' = Pair(p, j, x)
          /\ \A x \in RingPeers(c, p) :
               /\ t # 2 /\ Pair(p, k, x).initialized => Pair(p, k, x)'.initialized
               /\ Pair(p, k, x)'.initialized => Owned(p, x, Pair(p, k, x)')
      BY <1>0, <1>3, <2>4, <2>5, Creates
    <3>2. t = 2 => \A x : Lost(p, k, x)
      BY <1>3, <2>2, <2>3, <2>5 DEF Lost
    <3> QED
      BY <1>1, <3>1, <3>2
  <2>6. CASE PairConnect(p)
    <3>1. /\ PairType'
          /\ \A o \in Procs \ {p} : \A j, x : Pair(o, j, x)' = Pair(o, j, x)
          /\ \A j, x : j # k \/ x \notin RingPeers(c, p) => Pair(p, j, x)' = Pair(p, j, x)
          /\ \A x \in RingPeers(c, p) :
               Pair(p, k, x)'.initialized /\ Owned(p, x, Pair(p, k, x)')
      BY <1>0, <1>3, <2>4, <2>6, Connects
    <3> QED
      BY <1>1, <3>1
  <2>7. CASE Offer(p)
    <3>1. /\ PairType'
          /\ \A o \in Procs \ {p} : \A j, x : Pair(o, j, x)' = Pair(o, j, x)
          /\ \A j, x : j # k \/ x # q => Pair(p, j, x)' = Pair(p, j, x)
          /\ t # 2 /\ Pair(p, k, q).initialized => Pair(p, k, q)'.initialized
          /\ Pair(p, k, q)'.initialized => Owned(p, q, Pair(p, k, q)')
      BY <1>0, <1>3, <2>4, <2>7, Offers
    <3>2. t = 2 => Lost(p, k, q)
      BY <1>3, <2>2, <2>3, <2>7 DEF Lost
    <3> QED
      BY <1>1, <3>1, <3>2
  <2>8. CASE LinkPeer(p)
    <3>1. /\ PairType'
          /\ \A o \in Procs \ {p} : \A j, x : Pair(o, j, x)' = Pair(o, j, x)
          /\ \A j, x : j # k \/ x # q => Pair(p, j, x)' = Pair(p, j, x)
          /\ Pair(p, k, q)'.initialized /\ Owned(p, q, Pair(p, k, q)')
      BY <1>0, <1>3, <2>4, <2>8, Links
    <3> QED
      BY <1>1, <3>1
  <2>9. CASE tcclAllRankIbFini(p)
    <3>1. /\ PairType'
          /\ \A o \in Procs \ {p} : \A j, x : Pair(o, j, x)' = Pair(o, j, x)
          /\ \A j, x : j # c => Pair(p, j, x)' = Pair(p, j, x)
          /\ \A x : ~Pair(p, c, x)'.initialized
      BY <1>0, <1>3, <2>9, Destroys
    <3>2. \A x : Lost(p, c, x)
      BY <1>3, <2>2, <2>9 DEF Lost
    <3> QED
      BY <1>1, <3>1, <3>2
  <2> QED
    BY <2>1, <2>5, <2>6, <2>7, <2>8, <2>9
<1>4. CASE ~UNCHANGED <<pair, made>>
  <2>1. PICK p \in Procs : Process(p)
    BY <1>4, OthersHost DEF HostVars, handles
  <2> QED
    BY <1>3, <1>4, <2>1
<1> QED
  BY <1>2, <1>4 DEF Lost

\* Nobody else touches the pairs of a process.
LEMMA OwnPairs ==
  ASSUME PairsInv, NEW p \in Procs, Process(p), NEW o \in Procs, o # p
  PROVE  \A j, x : Pair(o, j, x)' = Pair(o, j, x)
<1>0. /\ HostType /\ BoxType /\ PairType /\ CtlInv /\ BoxInv /\ ValueInv /\ OwnInv
      /\ CreateInv /\ MailInv /\ SessionInv
  BY DEF PairsInv
<1>1. PairCreate(p) \/ PairConnect(p) \/ Offer(p) \/ LinkPeer(p) \/ tcclAllRankIbFini(p) \/ UNCHANGED pair
  BY PairChange
<1>2. UNCHANGED pair => \A j, x : Pair(o, j, x)' = Pair(o, j, x)
  BY DEF Pair
<1> QED
  BY <1>0, <1>1, <1>2, Creates, Connects, Offers, Links, Destroys

-----------------------------------------------------------------------------
(* The calls that are left.                                                *)

\* What a post needs stays.
LEMMA ReadyKept ==
  ASSUME PairsInv, Next, NEW c \in Comms, NEW p \in Members[c], NextReady(c, p)
  PROVE  \/ NextReady(c, p)'
         \/ /\ c = Current(p) /\ nextOf[c][p] \in IbPeers[c][p]
            /\ PairCreate(p) \/ (Offer(p) /\ nextOf[c][p] = Peer(p)) \/ tcclAllRankIbFini(p)
<1>1. p \in Procs /\ "send" \notin Comms
  BY CommFacts
<1>2. \A j, x : Pair(p, j, x).initialized =>
        \/ Pair(p, j, x)'.initialized
        \/ /\ j \in Comms /\ j = Current(p)
           /\ PairCreate(p) \/ (Offer(p) /\ x = Peer(p)) \/ tcclAllRankIbFini(p)
  BY <1>1, PairNext
<1> DEFINE q == nextOf[c][p]
<1>3. CASE q \notin IbPeers[c][p]
  BY <1>3 DEF NextReady
<1>4. CASE q \in IbPeers[c][p]
  <2>1. Pair(p, "send", q).initialized /\ Pair(p, c, q).initialized
    BY <1>4 DEF NextReady, Initialized
  <2> HIDE DEF q
  <2>2. Pair(p, "send", q)'.initialized
    BY <1>1, <1>2, <2>1
  <2>3. CASE Pair(p, c, q)'.initialized
    BY <2>2, <2>3 DEF NextReady, Initialized, q
  <2>4. CASE ~Pair(p, c, q)'.initialized
    BY <1>2, <1>4, <2>1, <2>4 DEF q
  <2> QED
    BY <2>3, <2>4
<1> QED
  BY <1>3, <1>4

\* A process returns from one of its calls.
LEMMA Returns ==
  ASSUME HostType, CtlInv, NEW p \in Procs, Process(p)
  PROVE  \/ UNCHANGED todo
         \/ /\ todo[p] # <<>> /\ todo' = [todo EXCEPT ![p] = Tail(todo[p])]
            /\ pc'[p] = "call" /\ type[p] = 0 /\ type'[p] = 0 /\ UNCHANGED box
            /\ \/ Created(p) /\ Doing(p, "create") /\ pc[p] = "barrier" /\ UNCHANGED pair
               \/ SkipPeer(p) /\ Doing(p, "connect") /\ pc[p] = "peer" /\ left[p] = {} /\ UNCHANGED pair
               \/ QueuePost(p) /\ Head(todo[p]).do \in Posts /\ pc[p] = "call"
               \/ tcclAllRankIbFini(p) /\ Doing(p, "destroy") /\ pc[p] = "call"
<1> DEFINE Returned == Return(p) /\ UNCHANGED <<type, box>>
<1>1. \/ Returned /\ Created(p) /\ pc[p] = "barrier" /\ UNCHANGED pair
      \/ Returned /\ SkipPeer(p) /\ pc[p] = "peer" /\ left[p] = {} /\ UNCHANGED pair
      \/ Returned /\ QueuePost(p) /\ Head(todo[p]).do \in Posts /\ todo[p] # <<>> /\ pc[p] = "call"
      \/ Returned /\ tcclAllRankIbFini(p) /\ Doing(p, "destroy") /\ pc[p] = "call"
      \/ UNCHANGED todo
  <2>1. PairCreate(p) \/ PairTell(p) \/ PairConnect(p) \/ tcclIbHostLockInit(p) => UNCHANGED todo
    BY Zenon DEF PairCreate, PairTell, PairConnect, tcclIbHostLockInit
  <2>2. tcclAlltoall(p) \/ ConnectPeer(p) \/ TakeAccepted(p) \/ AcceptPeer(p) => UNCHANGED todo
    BY DEF tcclAlltoall, ConnectPeer, TakeAccepted, AcceptPeer
  <2>3. Offer(p) \/ LinkPeer(p) \/ Agree(p) => UNCHANGED todo
    BY DEF Offer, LinkPeer, Agree
  <2>4. Created(p) => Returned /\ pc[p] = "barrier" /\ UNCHANGED pair
    BY DEF Created, handles
  <2>5. SkipPeer(p) => UNCHANGED todo \/ (Returned /\ pc[p] = "peer" /\ left[p] = {} /\ UNCHANGED pair)
    BY DEF SkipPeer, handles
  <2>6. QueuePost(p) => Returned /\ Head(todo[p]).do \in Posts /\ todo[p] # <<>> /\ pc[p] = "call"
    BY DEF QueuePost, Doing
  <2>7. tcclAllRankIbFini(p) => Returned /\ Doing(p, "destroy") /\ pc[p] = "call"
    BY DEF tcclAllRankIbFini
  <2> QED
    BY <2>1, <2>2, <2>3, <2>4, <2>5, <2>6, <2>7 DEF Process
<1>2. pc[p] = "barrier" => Doing(p, "create")
  BY DEF CtlInv, Ctl, Gathers
<1>3. pc[p] = "peer" => Doing(p, "connect")
  BY DEF CtlInv, Ctl, Gathers
<1>4. Return(p) => pc'[p] = "call" /\ todo' = [todo EXCEPT ![p] = Tail(todo[p])]
  BY Course DEF Return
<1>5. pc[p] \in {"barrier", "peer"} \/ (pc[p] = "call" /\ ~Doing(p, "create")) => type[p] = 0
  BY DEF CtlInv, Ctl, Sessions
<1>6. Head(todo[p]).do \in Posts \cup {"destroy"} => ~Doing(p, "create")
  BY DEF Posts, Doing
<1> QED
  BY <1>1, <1>2, <1>3, <1>4, <1>5, <1>6 DEF Doing

LEMMA TodoNext ==
  ASSUME PairsInv, TodoInv, Next
  PROVE  TodoInv'
<1>0. HostType /\ CtlInv /\ CreateInv /\ SessionInv
  BY DEF PairsInv
<1> SUFFICES ASSUME NEW o \in Procs
             PROVE  Todo(o)'
  BY DEF TodoInv
<1> DEFINE s == todo[o]
<1>1. s \in Seq(Calls) /\ \A i \in DOMAIN s : o \in Members[s[i].comm] /\ s[i].comm \in Comms
  <2>1. s \in Seq(Calls)
    BY <1>0 DEF HostType
  <2>2. \A i \in DOMAIN s : s[i] \in Calls
    BY <2>1
  <2> QED
    BY <1>0, <2>1, <2>2 DEF CtlInv, Ctl, Calls
<1>2. Todo(o)
  BY DEF TodoInv
<1>3. prog' = prog
  BY <1>0, OwnCourse, OthersHost DEF HostVars
<1>4. ASSUME NEW i \in DOMAIN s, s[i].do \in Posts, NEW c, c = s[i].comm, ~Fresh(c, o), NextReady(c, o)
      PROVE  NextReady(c, o)' \/ (\E j \in 1 .. i - 1 : s[j] = Call("connect", c) /\ Offer(o))
  <2>1. c \in Comms /\ o \in Members[c]
    BY <1>1, <1>4
  <2>2. ASSUME c = Current(o), PairCreate(o) \/ Offer(o) \/ tcclAllRankIbFini(o)
        PROVE  Offer(o) /\ \E j \in 1 .. i - 1 : s[j] = Call("connect", c)
    <3>1. i \in 1 .. Len(s) /\ Len(s) \in Nat
      BY <1>1
    <3>2. Doing(o, "create") \/ (Offer(o) /\ Doing(o, "connect")) \/ Doing(o, "destroy")
      BY <1>0, <2>2, Zenon DEF PairCreate, Offer, tcclAllRankIbFini, CtlInv, Ctl, Sessions, Gathers
    <3>3. 1 \in DOMAIN s /\ s[1] = Head(s) /\ s[1] \in Calls /\ s[1].comm = c
      BY <1>0, <2>2, <3>2, CallFacts DEF Doing, Current
    <3>4. s[1] = Call(s[1].do, c)
      BY <3>3 DEF Call, Calls
    <3>5. s[1].do # "create"
      BY <1>4, <3>3, <3>4 DEF Fresh
    <3>6. i # 1
      BY <1>4, <3>2, <3>3 DEF Doing, Posts
    <3>7. 1 < i
      BY <3>1, <3>6
    <3>8. s[1].do # "destroy"
      BY <1>2, <1>4, <3>3, <3>7 DEF Todo
    <3>9. Offer(o) /\ s[1].do = "connect"
      BY <3>2, <3>3, <3>5, <3>8 DEF Doing
    <3> QED
      BY <3>1, <3>4, <3>7, <3>9
  <2> QED
    BY <1>4, <2>1, <2>2, ReadyKept
<1>5. CASE todo'[o] = s
  <2>1. \A i, j \in DOMAIN todo'[o] : i < j /\ todo'[o][i].comm = todo'[o][j].comm =>
          todo'[o][i].do # "destroy" /\ todo'[o][j].do # "create"
    BY <1>2, <1>5 DEF Todo
  <2>2. ASSUME NEW i \in DOMAIN todo'[o], todo'[o][i].do \in Posts, NEW c, c = todo'[o][i].comm
        PROVE  \/ \E j \in 1 .. i - 1 : todo'[o][j] = Call("connect", c)
               \/ prog'.MaxFailures = 0 /\ \E j \in 1 .. i - 1 : todo'[o][j] = Call("create", c)
               \/ ~Fresh(c, o)' /\ NextReady(c, o)'
    <3>1. \/ \E j \in 1 .. i - 1 : s[j] = Call("connect", c)
          \/ prog.MaxFailures = 0 /\ \E j \in 1 .. i - 1 : s[j] = Call("create", c)
          \/ ~Fresh(c, o) /\ NextReady(c, o)
      BY <1>2, <1>5, <2>2 DEF Todo
    <3>2. Fresh(c, o)' <=> Fresh(c, o)
      BY <1>5 DEF Fresh
    <3> QED
      BY <1>3, <1>4, <1>5, <2>2, <3>1, <3>2
  <2> QED
    BY <2>1, <2>2 DEF Todo
<1>6. CASE todo'[o] # s
  <2>1. Process(o)
    <3>1. PICK p \in Procs : Process(p)
      BY <1>6, OthersHost DEF HostVars
    <3>2. todo' = [todo EXCEPT ![p] = todo'[p]]
      BY <1>0, <3>1, OwnCourse
    <3>3. p = o
      BY <1>0, <1>6, <3>2 DEF HostType
    <3> QED
      BY <3>1, <3>3
  <2>2. /\ s # <<>> /\ todo'[o] = Tail(s)
        /\ \/ Doing(o, "create") /\ pc[o] = "barrier" /\ UNCHANGED pair
           \/ Doing(o, "connect") /\ pc[o] = "peer" /\ left[o] = {} /\ UNCHANGED pair
           \/ Head(s).do \in Posts
           \/ Doing(o, "destroy")
    BY <1>0, <1>6, <2>1, Returns DEF HostType
  <2>3. /\ Len(s) \in Nat \ {0} /\ Head(s) = s[1] /\ 1 \in DOMAIN s
        /\ DOMAIN todo'[o] = 1 .. Len(s) - 1
        /\ \A i \in DOMAIN todo'[o] : i + 1 \in DOMAIN s /\ i + 1 > 1 /\ todo'[o][i] = s[i + 1]
    BY <1>1, <2>2, Tailed
  <2>4. \A i, j \in DOMAIN todo'[o] : i < j /\ todo'[o][i].comm = todo'[o][j].comm =>
          todo'[o][i].do # "destroy" /\ todo'[o][j].do # "create"
    <3>1. ASSUME NEW i \in DOMAIN todo'[o], NEW j \in DOMAIN todo'[o], i < j,
                 todo'[o][i].comm = todo'[o][j].comm
          PROVE  todo'[o][i].do # "destroy" /\ todo'[o][j].do # "create"
      <4>1. i + 1 < j + 1
        BY <2>3, <3>1
      <4> QED
        BY <1>2, <2>3, <3>1, <4>1 DEF Todo
    <3> QED
      BY <3>1
  <2>5. ASSUME NEW c, s[1].comm = c
        PROVE  ~Fresh(c, o)'
    <3>1. ASSUME NEW m \in DOMAIN todo'[o], todo'[o][m] = Call("create", c)
          PROVE  FALSE
      <4>1. s[m + 1].do = "create" /\ s[m + 1].comm = c /\ 1 < m + 1 /\ m + 1 \in DOMAIN s
        BY <2>3, <3>1 DEF Call
      <4> QED
        BY <1>2, <2>3, <2>5, <4>1 DEF Todo
    <3> QED
      BY <3>1 DEF Fresh
  <2>6. ASSUME NEW i \in DOMAIN todo'[o], todo'[o][i].do \in Posts, NEW c, c = todo'[o][i].comm
        PROVE  \/ \E j \in 1 .. i - 1 : todo'[o][j] = Call("connect", c)
               \/ prog'.MaxFailures = 0 /\ \E j \in 1 .. i - 1 : todo'[o][j] = Call("create", c)
               \/ ~Fresh(c, o)' /\ NextReady(c, o)'
    <3>1. i + 1 \in DOMAIN s /\ s[i + 1].do \in Posts /\ c = s[i + 1].comm /\ i \in Nat \ {0} /\ (i + 1) - 1 = i
      BY <2>3, <2>6
    <3>2. c \in Comms /\ o \in Members[c]
      BY <1>1, <3>1
    <3>3. \/ \E j \in 1 .. i : s[j] = Call("connect", c)
          \/ prog.MaxFailures = 0 /\ \E j \in 1 .. i : s[j] = Call("create", c)
          \/ ~Fresh(c, o) /\ NextReady(c, o)
      BY <1>2, <3>1 DEF Todo
    <3>4. ASSUME NEW d, NEW j \in 1 .. i, s[j] = d, j # 1
          PROVE  \E m \in 1 .. i - 1 : todo'[o][m] = d
      <4>1. j - 1 \in 1 .. i - 1 /\ j - 1 \in DOMAIN todo'[o] /\ (j - 1) + 1 = j
        BY <2>3, <3>1, <3>4
      <4> QED
        BY <2>3, <3>4, <4>1
    <3>5. CASE \E j \in 1 .. i : s[j] = Call("connect", c)
      <4>1. CASE s[1] = Call("connect", c)
        <5>1. Doing(o, "connect") /\ Current(o) = c
          BY <2>2, <2>3, <4>1 DEF Doing, Current, Call
        <5>2. pc[o] = "peer" /\ left[o] = {} /\ UNCHANGED pair
          BY <2>2, <5>1 DEF Doing, Posts
        <5>3. \A q \in IbPeers[c][o] : Initialized(c, o, q)
          BY <1>0, <5>1, <5>2 DEF SessionInv, Gathers
        <5>4. NextReady(c, o)'
          BY <5>2, <5>3 DEF NextReady, Initialized, Pair
        <5>5. ~Fresh(c, o)'
          BY <2>5, <4>1 DEF Call
        <5> QED
          BY <5>4, <5>5
      <4>2. CASE s[1] # Call("connect", c)
        BY <3>4, <3>5, <4>2
      <4> QED
        BY <4>1, <4>2
    <3>6. CASE prog.MaxFailures = 0 /\ \E j \in 1 .. i : s[j] = Call("create", c)
      <4>1. CASE s[1] = Call("create", c)
        <5>1. Doing(o, "create") /\ Current(o) = c
          BY <2>2, <2>3, <4>1 DEF Doing, Current, Call
        <5>2. pc[o] = "barrier" /\ UNCHANGED pair
          BY <2>2, <5>1 DEF Doing, Posts
        <5>3. \A t \in 0 .. 2 : \A q \in RingPeers(c, o) : Pair(o, Kind(c, t), q).initialized
          BY <1>0, <3>6, <5>1, <5>2 DEF CreateInv, HostType
        <5>4. \A q \in RingPeers(c, o) : Pair(o, "send", q).initialized /\ Pair(o, c, q).initialized
          <6>1. Kind(c, 0) = "send" /\ Kind(c, 2) = c /\ 0 \in 0 .. 2 /\ 2 \in 0 .. 2
            BY <3>2, KindFacts
          <6> QED
            BY <5>3, <6>1
        <5>5. NextReady(c, o)
          BY <3>2, <5>4, PeerFacts DEF NextReady, Initialized, RingPeers
        <5>6. NextReady(c, o)'
          BY <5>2, <5>5 DEF NextReady, Initialized, Pair
        <5>7. ~Fresh(c, o)'
          BY <2>5, <4>1 DEF Call
        <5> QED
          BY <5>6, <5>7
      <4>2. CASE s[1] # Call("create", c)
        BY <1>3, <3>4, <3>6, <4>2
      <4> QED
        BY <4>1, <4>2
    <3>7. CASE ~Fresh(c, o) /\ NextReady(c, o)
      <4>1. ~Fresh(c, o)'
        BY <2>3, <3>7 DEF Fresh
      <4>2. NextReady(c, o)' \/ (\E j \in 1 .. i : s[j] = Call("connect", c))
        BY <1>4, <3>1, <3>7
      <4> QED
        BY <3>5, <4>1, <4>2
    <3> QED
      BY <3>3, <3>5, <3>6, <3>7
  <2> QED
    BY <2>4, <2>6 DEF Todo
<1> QED
  BY <1>5, <1>6

-----------------------------------------------------------------------------
(* What processes have given to the gathers.                               *)

LEMMA KnownBy ==
  ASSUME BoxType, NEW c \in Comms, NEW p \in Members[c],
         \A q \in Members[c] : Len(box[c][p]) <= Len(box[c][q]) + 1,
         NEW i \in Nat, Len(box[c][p]) >= i + 1
  PROVE  Known(c, i)
<1>1. \A q \in Members[c] : Len(box[c][q]) \in Nat
  BY DEF BoxType
<1>2. ASSUME NEW q \in Members[c]
      PROVE  Len(box[c][q]) >= i
  BY <1>1
<1> QED
  BY <1>2 DEF Known

\* A process goes on being where it was in the gathers, whatever another one
\* gives.
LEMMA BoxStays ==
  ASSUME HostType, BoxType, BoxType', NEW d, NEW r, Grown(d, r),
         NEW c \in Comms, NEW o \in Members[c], BoxAt(c, o), ~(c = d /\ o = r), todo'[o] = todo[o],
         Creating(c, o) => pc'[o] = pc[o] /\ type'[o] = type[o]
  PROVE  BoxAt(c, o)'
<1> DEFINE n == Len(box[c][o])
           t == type[o]
<1>1. \A q \in Members[c] : Len(box[c][q]) \in Nat /\ Len(box'[c][q]) \in Nat /\ Len(box'[c][q]) >= Len(box[c][q])
  <2>1. ASSUME NEW q \in Members[c]
        PROVE  Len(box[c][q]) \in Nat /\ Len(box'[c][q]) \in Nat
    BY DEF BoxType
  <2>2. ASSUME NEW q \in Members[c]
        PROVE  Len(box'[c][q]) = Len(box[c][q]) + 1 \/ Len(box'[c][q]) = Len(box[c][q])
    BY DEF Grown
  <2> QED
    BY <2>1, <2>2
<1>2. Len(box'[c][o]) = n /\ n \in Nat
  BY <1>1 DEF Grown
<1>3. o \in Procs
  BY CommFacts
<1>4. /\ \A s \in 0 .. 3 : pos(c, s) \in Nat \ {0}
      /\ \A s, u \in 0 .. 3 : s < u => pos(c, u) >= pos(c, s) + 1
  BY PosFacts
<1>5. \A q \in Members[c] : n <= Len(box[c][q]) + 1
  BY DEF BoxAt
<1>6. ASSUME NEW u \in 0 .. 3, n >= pos(c, u)
      PROVE  u > 0 => Known(c, pos(c, u - 1))
  <2>1. SUFFICES ASSUME u > 0 PROVE Known(c, pos(c, u - 1))
    OBVIOUS
  <2>2. u - 1 \in 0 .. 3 /\ u - 1 < u
    BY <2>1
  <2>3. pos(c, u) >= pos(c, u - 1) + 1 /\ pos(c, u - 1) \in Nat /\ pos(c, u) \in Nat
    BY <1>4, <2>2
  <2>4. n >= pos(c, u - 1) + 1
    BY <1>2, <1>6, <2>3
  <2> QED
    BY <1>5, <2>3, <2>4, KnownBy
<1>7. ASSUME NEW u \in 0 .. 3, u > 0 => Known(c, pos(c, u - 1))
      PROVE  /\ \A s \in 0 .. u : pos(c, s)' = pos(c, s)
             /\ \A s \in 0 .. u : s < u => Known(c, pos(c, s))'
  BY <1>7, PosKept
<1>8. ASSUME Settled(c, o)
      PROVE  Settled(c, o)'
  <2>1. n = pos(c, 3) /\ \A q \in OnMyNode[c][o] : Len(box[c][q]) >= pos(c, 3)
    BY <1>8 DEF Settled
  <2>2. 3 \in 0 .. 3 /\ n >= pos(c, 3) /\ pos(c, 3) \in Nat
    BY <1>2, <1>4, <2>1
  <2>3. pos(c, 3)' = pos(c, 3)
    BY <1>6, <1>7, <2>2
  <2>4. \A q \in OnMyNode[c][o] : q \in Members[c]
    BY NodeMates
  <2>5. \A q \in OnMyNode[c][o] : Len(box'[c][q]) >= pos(c, 3)
    BY <1>1, <2>1, <2>2, <2>4
  <2> QED
    BY <1>2, <2>1, <2>3, <2>5 DEF Settled
<1>9. (Fresh(c, o)' <=> Fresh(c, o)) /\ (Creating(c, o)' <=> Creating(c, o))
  BY DEF Fresh, Creating
<1>10. \A q \in Members[c] : n <= Len(box'[c][q]) + 1
  BY <1>1, <1>2, <1>5
<1>11. ASSUME Creating(c, o)
       PROVE  /\ pc[o] = "call" => n = pos(c, t)' - 1 /\ (t > 0 => Known(c, pos(c, t - 1))')
              /\ pc[o] = "rets" => n = pos(c, t)'
              /\ pc[o] = "qps" => n = pos(c, t)' + 1 /\ ok(c, pos(c, t))'
              /\ pc[o] = "lock" => n = pos(c, 3)' - 1 /\ Known(c, pos(c, 2))'
              /\ pc[o] = "barrier" => n = pos(c, 3)'
              /\ t' = t
  <2>0. t \in 0 .. 2 /\ t' = t
    BY <1>3, <1>11 DEF HostType
  <2>1. ASSUME pc[o] = "call"
        PROVE  n = pos(c, t)' - 1 /\ (t > 0 => Known(c, pos(c, t - 1))')
    <3>1. n = pos(c, t) - 1 /\ (t > 0 => Known(c, pos(c, t - 1)))
      BY <1>11, <2>1 DEF BoxAt
    <3> HIDE DEF t
    <3>2. t \in 0 .. 3 /\ t \in 0 .. t /\ (t > 0 => t - 1 \in 0 .. t /\ t - 1 < t)
      BY <2>0
    <3>3. /\ \A s \in 0 .. t : pos(c, s)' = pos(c, s)
          /\ \A s \in 0 .. t : s < t => Known(c, pos(c, s))'
      BY <1>7, <3>1, <3>2
    <3> QED
      BY <2>0, <3>1, <3>2, <3>3
  <2>2. ASSUME pc[o] = "rets"
        PROVE  n = pos(c, t)'
    <3>1. n = pos(c, t)
      BY <1>11, <2>2 DEF BoxAt
    <3> HIDE DEF t
    <3>2. t \in 0 .. 3 /\ t \in 0 .. t /\ n >= pos(c, t)
      BY <1>2, <2>0, <3>1
    <3>3. pos(c, t)' = pos(c, t)
      BY <1>6, <1>7, <2>0, <3>2
    <3> QED
      BY <3>1, <3>3
  <2>3. ASSUME pc[o] = "qps"
        PROVE  n = pos(c, t)' + 1 /\ ok(c, pos(c, t))'
    <3>1. n = pos(c, t) + 1 /\ ok(c, pos(c, t))
      BY <1>11, <2>3 DEF BoxAt
    <3> HIDE DEF t
    <3>2. t \in 0 .. 3 /\ t \in 0 .. t /\ n >= pos(c, t) /\ pos(c, t) \in Nat \ {0} /\ n >= pos(c, t) + 1
      BY <1>2, <1>4, <2>0, <3>1
    <3>3. pos(c, t)' = pos(c, t)
      BY <1>6, <1>7, <2>0, <3>2
    <3>4. Known(c, pos(c, t))
      BY <1>5, <3>2, KnownBy
    <3>5. \A i \in Nat \ {0} : Known(c, i) => (ok(c, i)' <=> ok(c, i))
      BY OkKept
    <3>6. ok(c, pos(c, t))'
      BY <3>1, <3>2, <3>3, <3>4, <3>5
    <3> QED
      BY <3>1, <3>3, <3>6
  <2>4. ASSUME pc[o] = "lock"
        PROVE  n = pos(c, 3)' - 1 /\ Known(c, pos(c, 2))'
    <3>1. n = pos(c, 3) - 1 /\ Known(c, pos(c, 2))
      BY <1>11, <2>4 DEF BoxAt
    <3>2. 3 \in 0 .. 3 /\ 3 - 1 = 2 /\ 2 < 3 /\ 2 \in 0 .. 3
      OBVIOUS
    <3> QED
      BY <1>7, <3>1, <3>2
  <2>5. ASSUME pc[o] = "barrier"
        PROVE  n = pos(c, 3)'
    <3>1. n = pos(c, 3)
      BY <1>11, <2>5 DEF BoxAt
    <3>2. 3 \in 0 .. 3 /\ n >= pos(c, 3)
      BY <1>2, <3>1
    <3> QED
      BY <1>6, <1>7, <3>1, <3>2
  <2> QED
    BY <2>0, <2>1, <2>2, <2>3, <2>4, <2>5
<1>12. Fresh(c, o) /\ ~Creating(c, o) => n = 0
  BY DEF BoxAt
<1>13. ~Fresh(c, o) => n = 0 \/ Settled(c, o)
  BY DEF BoxAt
<1>14. (\E i \in DOMAIN todo[o] : todo[o][i].comm = c) => Fresh(c, o) \/ Settled(c, o)
  BY DEF BoxAt
<1> HIDE DEF n, t
<1>15. /\ Fresh(c, o)' /\ ~Creating(c, o)' => Len(box'[c][o]) = 0
       /\ ~Fresh(c, o)' => Len(box'[c][o]) = 0 \/ Settled(c, o)'
       /\ (\E i \in DOMAIN todo'[o] : todo'[o][i].comm = c) => Fresh(c, o)' \/ Settled(c, o)'
       /\ \A q \in Members[c] : Len(box'[c][o]) <= Len(box'[c][q]) + 1
  BY <1>2, <1>8, <1>9, <1>10, <1>12, <1>13, <1>14
<1> QED
  BY <1>2, <1>9, <1>11, <1>15 DEF BoxAt, t

\* If all boxes are as before so is what is told of them.
LEMMA BoxSame ==
  ASSUME UNCHANGED box, NEW c
  PROVE  /\ \A i : (ok(c, i)' <=> ok(c, i)) /\ (Known(c, i)' <=> Known(c, i))
         /\ \A t : pos(c, t)' = pos(c, t)
         /\ \A p : Settled(c, p)' <=> Settled(c, p)
<1>1. \A i : (ok(c, i)' <=> ok(c, i)) /\ (Known(c, i)' <=> Known(c, i))
  BY DEF ok, Known
<1>2. \A i : After(c, i)' = After(c, i)
  BY <1>1 DEF After
<1>3. \A t : pos(c, t)' = pos(c, t)
  <2> DEFINE a == After(c, 1)
             b == After(c, a)
             d == After(c, b)
  <2>1. a' = a
    BY <1>2
  <2>2. b' = b
    BY <1>2, <2>1
  <2>3. d' = d
    BY <1>2, <2>2
  <2> HIDE DEF a, b, d
  <2>4. \A t : pos(c, t) = CASE t = 0 -> 1 [] t = 1 -> a [] t = 2 -> b [] OTHER -> d
    BY DEF pos, a, b, d
  <2>5. \A t : pos(c, t)' = CASE t = 0 -> 1 [] t = 1 -> a' [] t = 2 -> b' [] OTHER -> d'
    BY DEF pos, a, b, d
  <2> QED
    BY <2>1, <2>2, <2>3, <2>4, <2>5
<1>4. \A p : Settled(c, p)' <=> Settled(c, p)
  BY <1>3 DEF Settled
<1> QED
  BY <1>1, <1>3, <1>4

\* When all pairs of all have been made.
LEMMA Asked ==
  ASSUME HostType, CtlInv, BoxType, BoxInv, NEW p \in Procs, PairTell(p), NEW c, c = Current(p)
  PROVE  /\ c \in Comms /\ p \in Members[c] /\ Len(box[c][p]) = pos(c, type[p])
         /\ Known(c, pos(c, type[p])) /\ (PairsMade(c, p) <=> ok(c, pos(c, type[p])))
<1>1. pc[p] = "rets" /\ AllGave(c, p, Members[c])
  BY DEF PairTell
<1>2. Doing(p, "create")
  BY <1>1 DEF CtlInv, Ctl, Gathers
<1>3. c \in Comms /\ p \in Members[c] /\ Creating(c, p)
  BY <1>2, CallFacts DEF Doing, Creating, Current, Call, Calls
<1>4. Len(box[c][p]) = pos(c, type[p])
  <2>1. BoxAt(c, p)
    BY <1>3 DEF BoxInv
  <2>2. Creating(c, p) /\ pc[p] = "rets" => Len(box[c][p]) = pos(c, type[p])
    BY <2>1 DEF BoxAt
  <2> QED
    BY <1>1, <1>3, <2>2
<1>6. pos(c, type[p]) \in Nat \ {0}
  <2>1. type[p] \in 0 .. 3
    BY DEF HostType
  <2> QED
    BY <2>1, PosFacts
<1>5. \A q \in Members[c] : box[c][q] \in Seq(Values) /\ Len(box[c][q]) >= pos(c, type[p])
  <2>1. \A q \in Members[c] : Len(box[c][q]) >= Len(box[c][p])
    BY <1>1 DEF AllGave
  <2>2. \A q \in Members[c] : box[c][q] \in Seq(Values)
    BY <1>3 DEF BoxType
  <2> QED
    BY <1>4, <1>6, <2>1, <2>2
<1>7. Known(c, pos(c, type[p]))
  BY <1>5 DEF Known
<1>8. \A q \in Members[c] : pos(c, type[p]) \in DOMAIN box[c][q]
  BY <1>5, <1>6
<1>9. PairsMade(c, p) <=> ok(c, pos(c, type[p]))
  BY <1>4, <1>8 DEF PairsMade, Given, ok
<1> QED
  BY <1>3, <1>4, <1>7, <1>9

LEMMA BoxInvNext ==
  ASSUME PairsInv, TodoInv, Next
  PROVE  BoxInv'
<1>0. HostType /\ CtlInv /\ BoxType /\ PairType /\ BoxInv
  BY DEF PairsInv
<1>1. BoxType'
  BY <1>0, BoxNext
<1> SUFFICES ASSUME NEW c \in Comms, NEW o \in Members[c]
             PROVE  BoxAt(c, o)'
  BY DEF BoxInv
<1>2. BoxAt(c, o) /\ o \in Procs
  BY <1>0, CommFacts DEF BoxInv
<1>3. CASE UNCHANGED box
  <2>1. /\ \A i : (ok(c, i)' <=> ok(c, i)) /\ (Known(c, i)' <=> Known(c, i))
        /\ \A t : pos(c, t)' = pos(c, t)
        /\ Settled(c, o)' <=> Settled(c, o)
    BY <1>3, BoxSame
  <2>2. \A q \in Members[c] : Len(box'[c][q]) = Len(box[c][q])
    BY <1>3
  <2>3. CASE todo'[o] = todo[o] /\ (Creating(c, o) => pc'[o] = pc[o] /\ type'[o] = type[o])
    <3>1. (Fresh(c, o)' <=> Fresh(c, o)) /\ (Creating(c, o)' <=> Creating(c, o))
      BY <2>3 DEF Fresh, Creating
    <3>2. CASE Creating(c, o)
      <4>1. pc'[o] = pc[o] /\ type'[o] = type[o]
        BY <2>3, <3>2
      <4>2. pos(c, type[o])' = pos(c, type[o]) /\ pos(c, type[o] - 1)' = pos(c, type[o] - 1) /\ pos(c, 3)' = pos(c, 3)
            /\ pos(c, 2)' = pos(c, 2)
        BY <2>1, <4>1
      <4>3. /\ ok(c, pos(c, type[o]))' <=> ok(c, pos(c, type[o]))
            /\ Known(c, pos(c, type[o] - 1))' <=> Known(c, pos(c, type[o] - 1))
            /\ Known(c, pos(c, 2))' <=> Known(c, pos(c, 2))
        BY <2>1, <4>2
      <4> QED
        BY <1>2, <2>1, <2>2, <2>3, <3>1, <3>2, <4>1, <4>2, <4>3 DEF BoxAt
    <3>3. CASE ~Creating(c, o)
      BY <1>2, <2>1, <2>2, <2>3, <3>1, <3>3 DEF BoxAt
    <3> QED
      BY <3>2, <3>3
  <2>4. CASE todo'[o] = todo[o] /\ Creating(c, o) /\ ~(pc'[o] = pc[o] /\ type'[o] = type[o])
    <3>1. Process(o)
      <4>1. PICK p \in Procs : Process(p)
        BY <2>4, OthersHost DEF HostVars
      <4>2. pc' = [pc EXCEPT ![p] = pc'[p]] /\ type' = [type EXCEPT ![p] = type'[p]]
        BY <1>0, <4>1, OwnCourse
      <4>3. p = o
        BY <1>0, <1>2, <2>4, <4>2 DEF HostType
      <4> QED
        BY <4>1, <4>3
    <3>2. Doing(o, "create") /\ Current(o) = c
      BY <2>4 DEF Creating, Doing, Current, Call
    <3>3. PairTell(o) /\ ~PairsMade(c, o) /\ NextType(o)
      <4>1. Exchanges(o) => ~Doing(o, "create")
        BY <1>0, <1>2, Zenon DEF Exchanges, tcclAlltoall, SkipPeer, ConnectPeer, TakeAccepted, AcceptPeer, Offer,
              LinkPeer, Agree, Unconnected, CtlInv, Ctl, Gathers, Sessions, Doing
      <4>2. Created(o) \/ QueuePost(o) \/ tcclAllRankIbFini(o) => todo'[o] # todo[o]
        <5>1. Created(o) \/ QueuePost(o) \/ tcclAllRankIbFini(o) => Return(o)
          BY DEF Created, QueuePost, tcclAllRankIbFini
        <5>2. todo[o] \in Seq(Calls) /\ todo[o] # <<>>
          BY <1>0, <1>2, <3>2 DEF HostType, Doing
        <5>3. Tail(todo[o]) # todo[o]
          <6> DEFINE s == todo[o]
                     u == Tail(s)
          <6>1. Len(u) = Len(s) - 1 /\ Len(s) \in Nat
            BY <5>2, Tailed
          <6> HIDE DEF s, u
          <6>2. u # s
            BY <6>1
          <6> QED
            BY <6>2 DEF s, u
        <5> QED
          BY <1>0, <1>2, <5>1, <5>3, Course
      <4>3. PairCreate(o) \/ PairTell(o) \/ PairConnect(o) \/ tcclIbHostLockInit(o)
        BY <2>4, <3>1, <3>2, <4>1, <4>2 DEF Process, Exchanges
      <4>4. ~ \E v \in Values : Give(c, o, v)
        <5>1. ASSUME NEW v \in Values, Give(c, o, v)
              PROVE  FALSE
          <6>0. BoxType
            BY <1>0
          <6>1. box'[c][o] = Append(box[c][o], v)
            BY <5>1, <6>0, GivesTo
          <6>2. box[c][o] \in Seq(Values)
            BY <1>0 DEF BoxType
          <6>3. Len(box'[c][o]) = Len(box[c][o]) + 1 /\ Len(box[c][o]) \in Nat
            BY <6>1, <6>2, Appended
          <6> QED
            BY <1>3, <6>3
        <5> QED
          BY <5>1
      <4>5. \A b \in BOOLEAN : [ok |-> b] \in Values
        BY DEF Values
      <4>6. /\ ~PairTell(o) => \E b \in BOOLEAN : Give(c, o, [ok |-> b])
            /\ PairTell(o) /\ PairsMade(c, o) => \E v : Give(c, o, v)
        BY <1>0, <1>2, <3>2, <4>3, Gives
      <4>7. PairTell(o)
        BY <4>4, <4>5, <4>6
      <4>8. PairsMade(c, o) => \E v : v \in Values /\ Give(c, o, v)
        <5> DEFINE con == [q \in RingPeers(c, o) |-> get_con_data(Pair(o, Kind(c, type[o]), q))]
        <5>1. PairsMade(c, o) => Give(c, o, con)
          BY <1>0, <1>2, <3>2, <4>7, Gives
        <5>2. RingPeers(c, o) \subseteq Procs
          BY PeerFacts, CommFacts DEF RingPeers
        <5>3. \A q \in RingPeers(c, o) : get_con_data(Pair(o, Kind(c, type[o]), q)) \in Con
          BY <1>0, <1>2, PairTyped, ConData
        <5>4. con \in [RingPeers(c, o) -> Con]
          BY <5>3
        <5> HIDE DEF con
        <5>5. con \in Values
          BY <5>2, <5>4 DEF Values
        <5> QED
          BY <5>1, <5>5
      <4>9. ~PairsMade(c, o)
        BY <4>4, <4>8
      <4> QED
        BY <3>2, <4>7, <4>9 DEF PairTell
    <3>4. /\ Len(box[c][o]) = pos(c, type[o]) /\ Known(c, pos(c, type[o]))
          /\ ~ok(c, pos(c, type[o])) /\ type[o] \in 0 .. 2
      BY <1>0, <1>2, <3>2, <3>3, Asked DEF HostType
    <3>5. pos(c, type[o] + 1) = pos(c, type[o]) + 1 /\ pos(c, type[o]) \in Nat
      <4>1. pos(c, type[o] + 1) = After(c, pos(c, type[o])) /\ pos(c, type[o]) \in Nat
        BY <3>4, PosFacts
      <4> QED
        BY <3>4, <4>1 DEF After
    <3>6. IF type[o] = 2 THEN type'[o] = 0 /\ pc'[o] = "lock" ELSE type'[o] = type[o] + 1 /\ pc'[o] = "call"
      BY <1>0, <1>2, <3>3, Course
    <3>7. (Fresh(c, o)' <=> Fresh(c, o)) /\ (Creating(c, o)' <=> Creating(c, o))
      BY <2>4 DEF Fresh, Creating
    <3>8. CASE type[o] = 2
      <4>1. pc'[o] = "lock" /\ Len(box'[c][o]) = pos(c, 3)' - 1 /\ Known(c, pos(c, 2))'
        <5>1. pos(c, 3)' = pos(c, 3) /\ pos(c, 2)' = pos(c, 2) /\ 2 + 1 = 3
          BY <2>1
        <5>2. Known(c, pos(c, 2))'
          BY <2>1, <3>4, <3>8, <5>1
        <5> QED
          BY <2>2, <3>4, <3>5, <3>6, <3>8, <5>1, <5>2
      <4> QED
        BY <1>2, <2>1, <2>2, <2>4, <3>7, <4>1 DEF BoxAt
    <3>9. CASE type[o] # 2
      <4>1. pc'[o] = "call" /\ type'[o] = type[o] + 1 /\ type'[o] - 1 = type[o] /\ type'[o] > 0
        BY <3>4, <3>6, <3>9
      <4>2. pos(c, type[o])' = pos(c, type[o] + 1) /\ pos(c, type[o] - 1)' = pos(c, type[o])
        BY <2>1, <4>1
      <4>3. Known(c, pos(c, type[o] - 1))' /\ Len(box'[c][o]) = pos(c, type[o])' - 1
        BY <2>1, <2>2, <3>4, <3>5, <4>2
      <4> QED
        BY <1>2, <2>1, <2>2, <2>4, <3>7, <4>1, <4>3 DEF BoxAt
    <3> QED
      BY <3>8, <3>9
  <2>5. CASE todo'[o] # todo[o]
    <3>1. Process(o)
      <4>1. PICK p \in Procs : Process(p)
        BY <2>5, OthersHost DEF HostVars
      <4>2. todo' = [todo EXCEPT ![p] = todo'[p]]
        BY <1>0, <4>1, OwnCourse
      <4>3. p = o
        BY <1>0, <1>2, <2>5, <4>2 DEF HostType
      <4> QED
        BY <4>1, <4>3
    <3>2. /\ todo[o] # <<>> /\ todo'[o] = Tail(todo[o]) /\ pc'[o] = "call" /\ type'[o] = 0
          /\ (Created(o) /\ Doing(o, "create") /\ pc[o] = "barrier") \/ ~Doing(o, "create")
      BY <1>0, <1>2, <2>5, <3>1, Returns DEF HostType, Doing, Posts
    <3>3. /\ Len(todo[o]) \in Nat \ {0} /\ Head(todo[o]) = todo[o][1] /\ 1 \in DOMAIN todo[o]
          /\ DOMAIN todo'[o] = 1 .. Len(todo[o]) - 1
          /\ \A i \in DOMAIN todo'[o] : i + 1 \in DOMAIN todo[o] /\ i + 1 > 1 /\ todo'[o][i] = todo[o][i + 1]
      <4>1. todo[o] \in Seq(Calls)
        BY <1>0, <1>2 DEF HostType
      <4> QED
        BY <3>2, <4>1, Tailed
    <3>4. Fresh(c, o)' => Fresh(c, o)
      BY <3>3 DEF Fresh
    <3>5. Fresh(c, o) => Fresh(c, o)' \/ Creating(c, o)
      <4>1. ASSUME NEW i \in DOMAIN todo[o], todo[o][i] = Call("create", c), ~Creating(c, o)
            PROVE  Fresh(c, o)'
        <5>1. i # 1
          BY <3>2, <3>3, <4>1 DEF Creating
        <5>2. i \in 1 .. Len(todo[o])
          BY <1>0, <1>2 DEF HostType
        <5>3. i - 1 \in DOMAIN todo'[o] /\ (i - 1) + 1 = i
          BY <3>3, <5>1, <5>2
        <5> QED
          BY <3>3, <4>1, <5>3 DEF Fresh
      <4> QED
        BY <4>1 DEF Fresh
    <3>6. (\E i \in DOMAIN todo'[o] : todo'[o][i].comm = c) => \E i \in DOMAIN todo[o] : todo[o][i].comm = c
      BY <3>3
    <3>7. 0 \in 0 .. 3 /\ pos(c, 0)' = 1
      BY <2>1, PosFacts
    <3>8. CASE Creating(c, o)
      <4>1. Created(o) /\ pc[o] = "barrier" /\ Current(o) = c
        BY <3>2, <3>8 DEF Creating, Doing, Current, Call
      <4>2. Len(box[c][o]) = pos(c, 3)
        BY <1>2, <3>8, <4>1 DEF BoxAt
      <4>3. Settled(c, o)
        BY <4>1, <4>2 DEF Created, Barrier, AllGave, Settled
      <4>4. ~Fresh(c, o)'
        <5>1. ASSUME NEW i \in DOMAIN todo'[o], todo'[o][i] = Call("create", c)
              PROVE  FALSE
          <6>1. todo[o][i + 1].do = "create" /\ todo[o][i + 1].comm = c /\ todo[o][1].comm = c
            BY <3>3, <3>8, <5>1 DEF Creating, Call
          <6>2. Todo(o)
            BY <1>2 DEF TodoInv
          <6> QED
            BY <3>3, <5>1, <6>1, <6>2 DEF Todo
        <5> QED
          BY <5>1 DEF Fresh
      <4>5. ~Creating(c, o)'
        <5>1. ASSUME Creating(c, o)'
              PROVE  FALSE
          <6>1. todo'[o] # <<>> /\ Head(todo'[o]) = Call("create", c) /\ todo'[o] \in Seq(Calls)
            BY <1>0, <1>2, <3>2, <5>1, Tailed DEF Creating, HostType
          <6>2. 1 \in DOMAIN todo'[o] /\ todo'[o][1] = Call("create", c)
            BY <6>1
          <6> QED
            BY <4>4, <6>2 DEF Fresh
        <5> QED
          BY <5>1
      <4> QED
        BY <1>2, <2>1, <2>2, <4>3, <4>4, <4>5 DEF BoxAt
    <3>9. CASE ~Creating(c, o)
      <4>1. Fresh(c, o)' <=> Fresh(c, o)
        BY <3>4, <3>5, <3>9
      <4>2. Fresh(c, o) => Len(box[c][o]) = 0
        BY <1>2, <3>9 DEF BoxAt
      <4>3. Creating(c, o)' => Fresh(c, o)'
        <5>1. ASSUME Creating(c, o)'
              PROVE  Fresh(c, o)'
          <6>1. todo'[o] # <<>> /\ Head(todo'[o]) = Call("create", c) /\ todo'[o] \in Seq(Calls)
            BY <1>0, <1>2, <3>2, <5>1, Tailed DEF Creating, HostType
          <6>2. 1 \in DOMAIN todo'[o] /\ todo'[o][1] = Call("create", c)
            BY <6>1
          <6> QED
            BY <6>2 DEF Fresh
        <5> QED
          BY <5>1
      <4>4. Creating(c, o)' => Len(box'[c][o]) = pos(c, type[o])' - 1
        <5>1. pos(c, type[o])' = 1
          BY <2>1, <3>2, <3>7
        <5> QED
          BY <2>2, <4>1, <4>2, <4>3, <5>1
      <4> QED
        BY <1>2, <2>1, <2>2, <3>2, <3>6, <4>1, <4>2, <4>3, <4>4 DEF BoxAt
    <3> QED
      BY <3>8, <3>9
  <2> QED
    BY <2>3, <2>4, <2>5
<1>4. ASSUME NEW p \in Procs, PairCreate(p) \/ PairTell(p) \/ PairConnect(p) \/ tcclIbHostLockInit(p),
             NEW d, d = Current(p), Grown(d, p), box' # box
      PROVE  BoxAt(c, o)'
  <2>1. /\ d \in Comms /\ p \in Members[d] /\ Creating(d, p) /\ AllGave(d, p, Members[d])
        /\ PairTell(p) => PairsMade(d, p)
    BY <1>0, <1>4, Gives, Zenon
  <2>2. UNCHANGED todo
    BY <1>4, Zenon DEF PairCreate, PairTell, PairConnect, tcclIbHostLockInit
  <2>3. Process(p)
    BY <1>4 DEF Process
  <2>4. CASE ~(c = d /\ o = p)
    <3>1. Creating(c, o) => o # p
      BY <1>4, <2>1, <2>4 DEF Creating, Call
    <3>2. o # p => pc'[o] = pc[o] /\ type'[o] = type[o]
      BY <1>0, <1>2, <2>3, OwnCourse DEF HostType
    <3> QED
      BY <1>0, <1>1, <1>2, <1>4, <2>2, <2>4, <3>1, <3>2, BoxStays
  <2>5. CASE c = d /\ o = p
    <3> DEFINE n == Len(box[c][p])
               t == type[p]
    <3>0. c \in Comms /\ p \in Members[c] /\ Creating(c, p) /\ BoxAt(c, p) /\ p \in Procs /\ t \in 0 .. 2
      BY <1>0, <1>2, <2>1, <2>5 DEF HostType
    <3>1. Creating(c, p)' /\ Fresh(c, p)'
      <4>1. Head(todo[p]) = todo[p][1] /\ 1 \in DOMAIN todo[p]
        BY <1>0, <3>0, CallFacts DEF Creating
      <4>2. Fresh(c, p)
        BY <3>0, <4>1 DEF Fresh, Creating
      <4> QED
        BY <2>2, <3>0, <4>2 DEF Fresh, Creating
    <3>2. n \in Nat /\ Len(box'[c][p]) = n + 1
      BY <1>0, <1>4, <2>5, <3>0 DEF Grown, BoxType
    <3>3. \A q \in Members[c] : Len(box[c][q]) \in Nat /\ Len(box[c][q]) >= n
                                /\ Len(box'[c][q]) >= Len(box[c][q])
      <4>1. \A q \in Members[c] : Len(box[c][q]) \in Nat
        BY <1>0 DEF BoxType
      <4>2. \A q \in Members[c] : Len(box'[c][q]) = Len(box[c][q]) + 1 \/ Len(box'[c][q]) = Len(box[c][q])
        BY <1>4, <2>5 DEF Grown
      <4>3. \A q \in Members[c] : Len(box[c][q]) >= n
        BY <2>1, <2>5 DEF AllGave
      <4> QED
        BY <4>1, <4>2, <4>3
    <3>4. \A q \in Members[c] : Len(box'[c][p]) <= Len(box'[c][q]) + 1
      <4>1. ASSUME NEW q \in Members[c]
            PROVE  Len(box'[c][p]) <= Len(box'[c][q]) + 1
        <5>1. Len(box'[c][q]) = Len(box[c][q]) + 1 \/ Len(box'[c][q]) = Len(box[c][q])
          BY <1>4, <2>5 DEF Grown
        <5> QED
          BY <3>2, <3>3, <5>1
      <4> QED
        BY <4>1
    <3>5. /\ \A s \in 0 .. 3 : pos(c, s) \in Nat \ {0}
          /\ \A s \in 0 .. 2 : pos(c, s + 1) = After(c, pos(c, s))
          /\ \A s, u \in 0 .. 3 : s < u => pos(c, u) >= pos(c, s) + 1
      BY PosFacts
    <3>6. ASSUME NEW i \in Nat, n >= i
          PROVE  Known(c, i)
      BY <3>2, <3>3, <3>6 DEF Known
    <3>7. ASSUME NEW u \in 0 .. 3, u > 0 => n >= pos(c, u - 1)
          PROVE  /\ \A s \in 0 .. u : pos(c, s)' = pos(c, s)
                 /\ \A s \in 0 .. u : s < u => Known(c, pos(c, s))'
      <4>1. u > 0 => u - 1 \in 0 .. 3
        OBVIOUS
      <4>2. u > 0 => Known(c, pos(c, u - 1))
        BY <3>5, <3>6, <3>7, <4>1
      <4> QED
        BY <1>0, <1>1, <1>4, <4>2, PosKept
    <3> HIDE DEF n, t
    <3>8. CASE PairCreate(p)
      <4>1. pc[p] = "call" /\ pc'[p] = "rets" /\ type'[p] = t
        BY <1>0, <3>8, Course, Zenon DEF PairCreate, t
      <4>2. n = pos(c, t) - 1 /\ (t > 0 => Known(c, pos(c, t - 1)))
        BY <3>0, <4>1 DEF BoxAt, n, t
      <4>3. t > 0 => n >= pos(c, t - 1)
        <5>1. t > 0 => Len(box[c][p]) >= pos(c, t - 1)
          BY <3>0, <4>2 DEF Known
        <5> QED
          BY <5>1 DEF n
      <4>4. pos(c, t)' = pos(c, t)
        <5>1. t \in 0 .. 3 /\ t \in 0 .. t
          BY <3>0
        <5>2. t' = t
          BY <4>1 DEF t
        <5> QED
          BY <3>7, <4>3, <5>1, <5>2
      <4>5. Len(box'[c][p]) = pos(c, type[p])'
        <5>1. t' = t
          BY <4>1 DEF t
        <5>2. pos(c, t)' = pos(c, type[p])'
          BY DEF t
        <5>3. pos(c, t) \in Nat
          BY <3>0, <3>5
        <5> QED
          BY <3>2, <4>2, <4>4, <5>2, <5>3
      <4> QED
        BY <2>5, <3>1, <3>4, <4>1, <4>5 DEF BoxAt
    <3>9. CASE PairTell(p)
      <4>1. n = pos(c, t) /\ Known(c, pos(c, t)) /\ ok(c, pos(c, t))
        <5>1. PairsMade(c, p) /\ c = Current(p)
          BY <1>4, <2>1, <2>5, <3>9
        <5> QED
          BY <1>0, <3>9, <5>1, Asked DEF n, t
      <4>2. pc'[p] = "qps" /\ type'[p] = t
        <5>1. PairsMade(Current(p), p)
          BY <1>4, <2>1, <2>5, <3>9
        <5> QED
          BY <1>0, <3>9, <5>1, Course DEF PairTell, t
      <4>3. pos(c, t) \in Nat \ {0} /\ t \in 0 .. 3 /\ t \in 0 .. t /\ (t > 0 => t - 1 \in 0 .. 3 /\ t - 1 < t)
        BY <3>0, <3>5
      <4>4. pos(c, t)' = pos(c, t)
        <5>1. t > 0 => n >= pos(c, t - 1)
          <6>1. t > 0 => pos(c, t) >= pos(c, t - 1) + 1 /\ pos(c, t - 1) \in Nat
            BY <3>5, <4>3
          <6> QED
            BY <4>1, <4>3, <6>1
        <5> QED
          BY <3>7, <4>2, <4>3, <5>1 DEF t
      <4>5. ok(c, pos(c, t))'
        <5>1. \A i \in Nat \ {0} : Known(c, i) => (ok(c, i)' <=> ok(c, i))
          BY <1>0, <1>1, <1>4, OkKept
        <5> QED
          BY <4>1, <4>3, <4>4, <5>1
      <4>6. Len(box'[c][p]) = pos(c, type[p])' + 1 /\ ok(c, pos(c, type[p]))'
        BY <3>2, <4>1, <4>4, <4>5 DEF t
      <4> QED
        BY <2>5, <3>1, <3>4, <4>2, <4>6 DEF BoxAt
    <3>10. CASE PairConnect(p)
      <4>1. /\ pc[p] = "qps"
            /\ IF t = 2 THEN type'[p] = 0 /\ pc'[p] = "lock" ELSE type'[p] = t + 1 /\ pc'[p] = "call"
        BY <1>0, <3>10, Course DEF PairConnect, t
      <4>2. n = pos(c, t) + 1 /\ ok(c, pos(c, t))
        BY <3>0, <4>1 DEF BoxAt, n, t
      <4>3. pos(c, t) \in Nat \ {0} /\ t + 1 \in 0 .. 3 /\ t \in 0 .. t + 1 /\ t + 1 \in 0 .. t + 1 /\ t < t + 1 /\ (t + 1) - 1 = t
        BY <3>0, <3>5
      <4>4. /\ pos(c, t + 1) = pos(c, t) + 3
        BY <3>0, <3>5, <4>2 DEF After
      <4> DEFINE u == t + 1
      <4>5. u \in 0 .. 3 /\ (u > 0 => n >= pos(c, u - 1)) /\ u \in 0 .. u /\ t \in 0 .. u
        BY <4>2, <4>3
      <4>6. /\ \A s \in 0 .. 3 : (s > 0 => n >= pos(c, s - 1)) =>
                 /\ \A r \in 0 .. s : pos(c, r)' = pos(c, r)
                 /\ \A r \in 0 .. s : r < s => Known(c, pos(c, r))'
        BY <3>7
      <4>7. CASE t = 2
        <5>1. u = 3 /\ pos(c, 3)' = pos(c, 3) /\ Known(c, pos(c, 2))'
          <6>1. 3 \in 0 .. 3 /\ (3 > 0 => n >= pos(c, 3 - 1)) /\ 2 \in 0 .. 3 /\ 2 < 3
            BY <4>5, <4>7
          <6> QED
            BY <4>6, <4>7, <6>1
        <5>2. Len(box'[c][p]) = pos(c, 3)' - 1
          <6>1. pos(c, 2) \in Nat /\ pos(c, 3) = pos(c, 2) + 3
            BY <4>3, <4>4, <4>7
          <6> QED
            BY <3>2, <4>2, <4>7, <5>1, <6>1
        <5> QED
          BY <2>5, <3>1, <3>4, <4>1, <4>7, <5>1, <5>2 DEF BoxAt
      <4>8. CASE t # 2
        <5>1. type'[p] = u /\ pc'[p] = "call" /\ type'[p] - 1 = t
          BY <4>1, <4>3, <4>8
        <5>2. \A s : s = u => pos(c, s)' = pos(c, s) /\ pos(c, s) = pos(c, t) + 3
          BY <4>4, <4>5, <4>6
        <5>3. \A s : s = t => Known(c, pos(c, s))'
          BY <4>3, <4>5, <4>6
        <5>4. Len(box'[c][p]) = pos(c, type[p])' - 1
          <6>1. pos(c, type[p])' = pos(c, t) + 3
            BY <5>1, <5>2
          <6> QED
            BY <3>2, <4>2, <4>3, <6>1
        <5>5. Known(c, pos(c, type[p] - 1))'
          BY <5>1, <5>3
        <5> QED
          BY <2>5, <3>1, <3>4, <5>1, <5>4, <5>5 DEF BoxAt
      <4> QED
        BY <4>7, <4>8
    <3>11. CASE tcclIbHostLockInit(p)
      <4>1. pc[p] = "lock" /\ pc'[p] = "barrier"
        BY <1>0, <3>11, Course DEF tcclIbHostLockInit
      <4>2. n = pos(c, 3) - 1 /\ Known(c, pos(c, 2))
        BY <3>0, <4>1 DEF BoxAt, n
      <4>3. n >= pos(c, 2)
        BY <3>0, <4>2 DEF Known, n
      <4>4. pos(c, 3)' = pos(c, 3) /\ pos(c, 3) \in Nat
        <5>1. 3 \in 0 .. 3 /\ 3 - 1 = 2
          OBVIOUS
        <5> QED
          BY <3>5, <3>7, <4>3, <5>1
      <4>5. Len(box'[c][p]) = pos(c, 3)'
        BY <3>2, <4>2, <4>4
      <4> QED
        BY <2>5, <3>1, <3>4, <4>1, <4>5 DEF BoxAt
    <3> QED
      BY <1>4, <3>8, <3>9, <3>10, <3>11
  <2> QED
    BY <2>4, <2>5
<1>5. CASE box' # box
  <2>1. PICK p \in Procs : /\ PairCreate(p) \/ PairTell(p) \/ PairConnect(p) \/ tcclIbHostLockInit(p)
                           /\ Grown(Current(p), p)
    BY <1>0, <1>5, BoxNext
  <2> QED
    BY <1>4, <1>5, <2>1
<1> QED
  BY <1>3, <1>5

\* The order of the gathers after a step.
LEMMA PosOrderNext ==
  ASSUME NEW c
  PROVE  /\ pos(c, 0)' = 1
         /\ \A t \in 0 .. 2 : pos(c, t + 1)' = After(c, pos(c, t))'
         /\ \A t \in 0 .. 3 : pos(c, t)' \in Nat \ {0}
         /\ \A s, t \in 0 .. 3 : s < t => pos(c, t)' >= pos(c, s)' + 1
<1> DEFINE F == /\ pos(c, 0) = 1
                /\ \A t \in 0 .. 2 : pos(c, t + 1) = After(c, pos(c, t))
                /\ \A t \in 0 .. 3 : pos(c, t) \in Nat \ {0}
                /\ \A s, t \in 0 .. 3 : s < t => pos(c, t) >= pos(c, s) + 1
<1>1. F
  BY PosFacts
<1> HIDE DEF F
<1>2. F'
  BY <1>1, PTL
<1> QED
  BY <1>2 DEF F

\* The place of a gather that somebody has come to is where it was.
LEMMA PosBack ==
  ASSUME BoxType, BoxType', NEW d, NEW p, Grown(d, p), NEW c \in Comms, NEW t \in 0 .. 3,
         NEW n \in Nat, \A i \in Nat : n >= i + 1 => Known(c, i), n >= pos(c, t)'
  PROVE  pos(c, t)' = pos(c, t)
<1>1. /\ pos(c, 0)' = 1
      /\ \A s \in 0 .. 2 : pos(c, s + 1)' = After(c, pos(c, s))'
      /\ \A s \in 0 .. 3 : pos(c, s)' \in Nat \ {0}
      /\ \A r, s \in 0 .. 3 : r < s => pos(c, s)' >= pos(c, r)' + 1
  BY PosOrderNext
<1>2. /\ pos(c, 0) = 1
      /\ \A s \in 0 .. 2 : pos(c, s + 1) = After(c, pos(c, s))
  BY PosFacts
<1>3. ASSUME NEW s \in 0 .. 2, s < t, pos(c, s)' = pos(c, s)
      PROVE  pos(c, s + 1)' = pos(c, s + 1)
  <2>1. s \in 0 .. 3 /\ pos(c, s)' \in Nat \ {0} /\ pos(c, t)' \in Nat /\ pos(c, t)' >= pos(c, s)' + 1
    BY <1>1, <1>3
  <2>2. n >= pos(c, s) + 1 /\ pos(c, s) \in Nat \ {0}
    BY <1>3, <2>1
  <2>3. Known(c, pos(c, s))
    BY <2>2
  <2>4. \A i \in Nat \ {0} : Known(c, i) => After(c, i)' = After(c, i)
    BY OkKept
  <2> QED
    BY <1>1, <1>2, <1>3, <2>2, <2>3, <2>4
<1>4. pos(c, 0)' = pos(c, 0)
  BY <1>1, <1>2
<1>5. t = 0 \/ t = 1 \/ t = 2 \/ t = 3
  OBVIOUS
<1>6. t > 0 => pos(c, 0 + 1)' = pos(c, 0 + 1)
  BY <1>3, <1>4
<1>7. t > 1 => pos(c, 1 + 1)' = pos(c, 1 + 1)
  BY <1>3, <1>6
<1>8. t > 2 => pos(c, 2 + 1)' = pos(c, 2 + 1)
  BY <1>3, <1>7
<1> QED
  BY <1>4, <1>5, <1>6, <1>7, <1>8

\* A process that gives a value is between the gathers, as its step says.
LEMMA Between ==
  ASSUME HostType, CtlInv, BoxType, PairType, BoxInv, NEW p \in Procs,
         PairCreate(p) \/ PairTell(p) \/ PairConnect(p) \/ tcclIbHostLockInit(p), box' # box,
         NEW c, c = Current(p), NEW u, u = type[p], NEW n, n = Len(box[c][p])
  PROVE  /\ c \in Comms /\ p \in Members[c] /\ n \in Nat /\ u \in 0 .. 2
         /\ PairCreate(p) => n = pos(c, u) - 1
         /\ PairTell(p) => n = pos(c, u) /\ ok(c, pos(c, u))
         /\ PairConnect(p) => n = pos(c, u) + 1 /\ ok(c, pos(c, u))
         /\ tcclIbHostLockInit(p) => n = pos(c, 3) - 1
         /\ \A q \in Members[c] : Len(box[c][q]) >= n /\ Len(box[c][q]) \in Nat
<1>1. c \in Comms /\ p \in Members[c] /\ Creating(c, p) /\ AllGave(c, p, Members[c])
  BY Gives
<1>2. PairTell(p) => PairsMade(c, p)
  BY Gives
<1>3. BoxAt(c, p)
  BY <1>1 DEF BoxInv
<1>4. u \in 0 .. 2
  BY DEF HostType
<1>5. \A q \in Members[c] : Len(box[c][q]) >= n /\ Len(box[c][q]) \in Nat
  BY <1>1 DEF AllGave, BoxType
<1>6. PairCreate(p) => n = pos(c, u) - 1
  <2>1. PairCreate(p) => pc[p] = "call"
    BY Zenon DEF PairCreate
  <2>2. pc[p] = "call" => Len(box[c][p]) = pos(c, type[p]) - 1
    BY <1>1, <1>3 DEF BoxAt
  <2> QED
    BY <2>1, <2>2
<1>7. PairTell(p) => n = pos(c, u) /\ ok(c, pos(c, u))
  BY <1>2, Asked
<1>8. PairConnect(p) => n = pos(c, u) + 1 /\ ok(c, pos(c, u))
  <2>1. PairConnect(p) => pc[p] = "qps"
    BY DEF PairConnect
  <2>2. pc[p] = "qps" => Len(box[c][p]) = pos(c, type[p]) + 1 /\ ok(c, pos(c, type[p]))
    BY <1>1, <1>3 DEF BoxAt
  <2> QED
    BY <2>1, <2>2
<1>9. tcclIbHostLockInit(p) => n = pos(c, 3) - 1
  <2>1. tcclIbHostLockInit(p) => pc[p] = "lock"
    BY DEF tcclIbHostLockInit
  <2>2. pc[p] = "lock" => Len(box[c][p]) = pos(c, 3) - 1
    BY <1>1, <1>3 DEF BoxAt
  <2> QED
    BY <2>1, <2>2
<1> QED
  BY <1>1, <1>4, <1>5, <1>6, <1>7, <1>8, <1>9

\* What has failed has failed.
LEMMA FailuresStay ==
  ASSUME HostType, CtlInv, Next
  PROVE  failures' = 0 => failures = 0
<1>1. (\E p \in Procs : PairCreate(p)) \/ UNCHANGED failures
  <2>1. CASE ~ \E p \in Procs : Process(p)
    BY <2>1, OthersHost DEF HostVars
  <2>2. ASSUME NEW p \in Procs, Process(p), ~PairCreate(p)
        PROVE  failures' = failures
    BY <2>2, Zenon DEF Process, PairTell, PairConnect, tcclIbHostLockInit, Created, tcclAlltoall, SkipPeer,
       ConnectPeer, TakeAccepted, AcceptPeer, Offer, LinkPeer, Agree, QueuePost, tcclAllRankIbFini
  <2> QED
    BY <2>1, <2>2
<1>2. ASSUME NEW p \in Procs, PairCreate(p)
      PROVE  failures' = 0 => failures = 0
  <2> DEFINE c == Current(p)
  <2>1. c \in Comms /\ p \in Members[c]
    BY <1>2, CallFacts, Zenon DEF PairCreate, Doing
  <2>2. PICK failed \in SUBSET RingPeers(c, p) :
          /\ failures + Cardinality(failed) <= prog.MaxFailures
          /\ failures' = failures + Cardinality(failed)
    BY <1>2, Zenon DEF PairCreate, RingPeers
  <2> HIDE DEF c
  <2> QED
    BY <2>1, <2>2, FailedFacts
<1> QED
  BY <1>1, <1>2

LEMMA ValueInvNext ==
  ASSUME PairsInv, Next
  PROVE  ValueInv'
<1>0. /\ HostType /\ CtlInv /\ BoxType /\ PairType /\ BoxInv /\ ValueInv /\ OwnInv /\ CreateInv
  BY DEF PairsInv
<1>1. BoxType' /\ (failures' = 0 => failures = 0)
  BY <1>0, BoxNext, FailuresStay
<1> SUFFICES ASSUME NEW c \in Comms, NEW o \in Members[c], NEW t \in 0 .. 2
             PROVE  ValueAt(c, o, t)'
  BY DEF ValueInv
<1>2. /\ Len(box[c][o]) >= pos(c, t) =>
           /\ box[c][o][pos(c, t)] \in [ok : BOOLEAN]
           /\ failures = 0 => box[c][o][pos(c, t)].ok
      /\ Len(box[c][o]) > pos(c, t) /\ ok(c, pos(c, t)) =>
           box[c][o][pos(c, t) + 1] \in [RingPeers(c, o) -> ConOf(o)]
  BY <1>0 DEF ValueInv, ValueAt
<1>3. CASE UNCHANGED box
  <2>1. pos(c, t)' = pos(c, t) /\ (ok(c, pos(c, t))' <=> ok(c, pos(c, t)))
    <3>1. pos(c, t)' = pos(c, t) /\ \A i : (ok(c, i)' <=> ok(c, i))
      BY <1>3, BoxSame
    <3> QED
      BY <3>1
  <2> QED
    BY <1>1, <1>2, <1>3, <2>1 DEF ValueAt
<1>4. ASSUME NEW p \in Procs, PairCreate(p) \/ PairTell(p) \/ PairConnect(p) \/ tcclIbHostLockInit(p),
             NEW d, d = Current(p), Grown(d, p), box' # box
      PROVE  ValueAt(c, o, t)'
  <2> DEFINE n == Len(box[c][o])
             m == Len(box'[c][o])
             i == pos(c, t)
  <2>1. n \in Nat /\ m \in Nat /\ i \in Nat \ {0} /\ pos(c, t)' \in Nat \ {0}
    <3>1. n \in Nat /\ m \in Nat
      BY <1>0, <1>1 DEF BoxType
    <3>2. t \in 0 .. 3
      OBVIOUS
    <3>3. i \in Nat \ {0} /\ pos(c, t)' \in Nat \ {0}
      BY <3>2, PosFacts, PosOrderNext
    <3> QED
      BY <3>1, <3>3
  <2>2. m = (IF c = d /\ o = p THEN n + 1 ELSE n) /\ \A j \in 1 .. n : box'[c][o][j] = box[c][o][j]
    BY <1>4 DEF Grown
  <2>3. \A q \in Members[c] : n <= Len(box[c][q]) + 1
    BY <1>0 DEF BoxInv, BoxAt
  <2>4. c = d /\ o = p => \A q \in Members[c] : n <= Len(box[c][q]) /\ Len(box[c][q]) \in Nat
    BY <1>0, <1>4, Between
  <2>5. \A j \in Nat : m >= j + 1 => Known(c, j)
    <3>1. CASE c = d /\ o = p
      BY <2>1, <2>2, <2>4, <3>1 DEF Known
    <3>2. CASE ~(c = d /\ o = p)
      BY <1>0, <2>1, <2>2, <2>3, <3>2, KnownBy
    <3> QED
      BY <3>1, <3>2
  <2>6. m >= pos(c, t)' => pos(c, t)' = i
    BY <1>0, <1>1, <1>4, <2>1, <2>5, PosBack
  <2>7. m > pos(c, t)' => (ok(c, i)' <=> ok(c, i))
    <3>1. \A j \in Nat \ {0} : Known(c, j) => (ok(c, j)' <=> ok(c, j))
      BY <1>0, <1>1, <1>4, OkKept
    <3>2. m > pos(c, t)' => m >= i + 1
      BY <2>1, <2>6
    <3> QED
      BY <2>1, <2>5, <2>6, <3>1, <3>2
  <2> HIDE DEF n, m, i
  <2>8. ASSUME m >= i
        PROVE  /\ box'[c][o][i] \in [ok : BOOLEAN]
               /\ failures' = 0 => box'[c][o][i].ok
    <3>1. CASE n >= i
      <4>1. box'[c][o][i] = box[c][o][i]
        BY <2>1, <2>2, <3>1
      <4> QED
        BY <1>1, <1>2, <3>1, <4>1 DEF n, i
    <3>2. CASE n < i
      <4>1. c = d /\ o = p /\ i = n + 1
        BY <2>1, <2>2, <2>8, <3>2
      <4>2. ~PairTell(p)
        <5>1. SUFFICES ASSUME PairTell(p) PROVE FALSE
          OBVIOUS
        <5> DEFINE u == type[p]
        <5>2. n = pos(c, u) /\ ok(c, pos(c, u)) /\ u \in 0 .. 2
          BY <1>0, <1>4, <4>1, <5>1, Between DEF n
        <5> HIDE DEF u
        <5>3. /\ \A x, y \in 0 .. 3 : x < y =>
                   pos(c, y) >= pos(c, x) + 1 /\ (ok(c, pos(c, x)) => pos(c, y) >= pos(c, x) + 3)
              /\ \A x \in 0 .. 3 : pos(c, x) \in Nat
          BY PosFacts
        <5>4. t \in 0 .. 3 /\ u \in 0 .. 3 /\ (t < u \/ t = u \/ u < t)
          BY <5>2
        <5>5. t < u => i < n
          BY <2>1, <5>2, <5>3, <5>4 DEF i
        <5>6. u < t => i >= n + 3
          BY <2>1, <5>2, <5>3, <5>4 DEF i
        <5>7. t = u => i = n
          BY <5>2 DEF i
        <5> QED
          BY <2>1, <4>1, <5>4, <5>5, <5>6, <5>7
      <4>3. \E b \in BOOLEAN : Give(c, p, [ok |-> b]) /\ (failures' = 0 => b)
        <5>1. CASE PairCreate(p)
          BY <1>0, <1>4, <4>1, <5>1, Creates
        <5>2. CASE PairConnect(p) \/ tcclIbHostLockInit(p)
          BY <1>0, <1>4, <4>1, <5>2, Gives
        <5> QED
          BY <1>4, <4>2, <5>1, <5>2
      <4>4. PICK b \in BOOLEAN : Give(c, p, [ok |-> b]) /\ (failures' = 0 => b)
        BY <4>3
      <4>5. [ok |-> b] \in Values
        BY DEF Values
      <4>6. box'[c][o] = Append(box[c][o], [ok |-> b])
        <5>1. Give(c, o, [ok |-> b])
          BY <4>1, <4>4
        <5> DEFINE v == [ok |-> b]
        <5> HIDE DEF v
        <5>2. v \in Values /\ Give(c, o, v)
          BY <4>5, <5>1 DEF v
        <5>3. BoxType
          BY <1>0
        <5>4. box'[c][o] = Append(box[c][o], v)
          BY <5>2, <5>3, GivesTo
        <5> QED
          BY <5>4 DEF v
      <4>7. box[c][o] \in Seq(Values)
        BY <1>0 DEF BoxType
      <4>8. box'[c][o][i] = [ok |-> b]
        BY <4>1, <4>5, <4>6, <4>7, Appended DEF n
      <4> QED
        BY <4>4, <4>8
    <3> QED
      BY <2>1, <3>1, <3>2
  <2>9. ASSUME m > i, ok(c, i)
        PROVE  box'[c][o][i + 1] \in [RingPeers(c, o) -> ConOf(o)]
    <3>1. CASE n > i
      <4>1. box'[c][o][i + 1] = box[c][o][i + 1]
        <5>1. i + 1 \in 1 .. n
          BY <2>1, <3>1
        <5> QED
          BY <2>2, <5>1
      <4> QED
        BY <1>2, <2>9, <3>1, <4>1 DEF n, i
    <3>2. CASE n <= i
      <4>1. c = d /\ o = p /\ i = n
        BY <2>1, <2>2, <2>9, <3>2
      <4> DEFINE u == type[p]
      <4>2. /\ u \in 0 .. 2
            /\ PairCreate(p) => n = pos(c, u) - 1
            /\ PairTell(p) => n = pos(c, u)
            /\ PairConnect(p) => n = pos(c, u) + 1 /\ ok(c, pos(c, u))
            /\ tcclIbHostLockInit(p) => n = pos(c, 3) - 1
        BY <1>0, <1>4, <4>1, Between DEF n
      <4> HIDE DEF u
      <4>3. /\ \A x, y \in 0 .. 3 : x < y =>
                 pos(c, y) >= pos(c, x) + 1 /\ (ok(c, pos(c, x)) => pos(c, y) >= pos(c, x) + 3)
            /\ \A x \in 0 .. 3 : pos(c, x) \in Nat
        BY PosFacts
      <4>4. t \in 0 .. 3 /\ u \in 0 .. 3 /\ 3 \in 0 .. 3 /\ t < 3 /\ (t < u \/ t = u \/ u < t)
        BY <4>2
      <4>5. ok(c, pos(c, t)) /\ n = pos(c, t) /\ pos(c, t) \in Nat /\ pos(c, u) \in Nat /\ pos(c, 3) \in Nat
        BY <2>9, <4>1, <4>3, <4>4 DEF i
      <4>6. /\ t < u => pos(c, u) >= n + 3
            /\ u < t => n >= pos(c, u) + 1 /\ (ok(c, pos(c, u)) => n >= pos(c, u) + 3)
            /\ t = u => pos(c, u) = n
            /\ pos(c, 3) >= n + 3
        BY <4>3, <4>4, <4>5
      <4>7. ~PairCreate(p) /\ ~PairConnect(p) /\ ~tcclIbHostLockInit(p)
        BY <4>2, <4>4, <4>5, <4>6
      <4>8. PairTell(p)
        BY <1>4, <4>7
      <4>9. t = u
        BY <4>2, <4>4, <4>5, <4>6, <4>8
      <4> DEFINE con == [q \in RingPeers(c, p) |-> get_con_data(Pair(p, Kind(c, u), q))]
      <4>10. Give(c, p, con)
        <5>1. PairsMade(d, p)
          BY <1>0, <1>4, <4>8, Gives
        <5> QED
          BY <1>0, <1>4, <4>1, <4>8, <5>1, Gives DEF u
      <4>11. box[c][p][n].ok
        <5>1. p \in Members[c]
          BY <4>1
        <5> QED
          BY <4>5, <5>1 DEF ok
      <4>12. \A q \in RingPeers(c, p) : Owns(p, Pair(p, Kind(c, u), q))
        <5>1. pc[p] = "rets"
          BY <4>8 DEF PairTell
        <5>2. Doing(p, "create")
          BY <1>0, <5>1 DEF CtlInv, Ctl, Gathers
        <5> QED
          BY <1>0, <1>4, <4>1, <4>11, <5>1, <5>2 DEF CreateInv, u, n
      <4>13. con \in [RingPeers(c, p) -> ConOf(p)]
        <5>1. \A q \in RingPeers(c, p) : Pair(p, Kind(c, u), q) \in Pairs
          BY <1>0, PairTyped
        <5>2. \A q \in RingPeers(c, p) : get_con_data(Pair(p, Kind(c, u), q)) \in ConOf(p)
          BY <4>12, <5>1, ConData DEF ConOf, Owns
        <5> QED
          BY <5>2
      <4>14. con \in Values
        <5>1. RingPeers(c, p) \subseteq Procs /\ ConOf(p) \subseteq Con
          BY <4>1, PeerFacts, CommFacts DEF RingPeers, ConOf
        <5> HIDE DEF con
        <5>2. con \in [RingPeers(c, p) -> Con]
          BY <4>13, <5>1
        <5> QED
          BY <5>1, <5>2 DEF Values
      <4> HIDE DEF con
      <4>15. box'[c][o] = Append(box[c][o], con)
        <5>1. BoxType
          BY <1>0
        <5>2. Give(c, o, con)
          BY <4>1, <4>10
        <5> QED
          BY <4>14, <5>1, <5>2, GivesTo
      <4>16. box[c][o] \in Seq(Values)
        BY <1>0 DEF BoxType
      <4>17. box'[c][o][i + 1] = con
        BY <4>1, <4>14, <4>15, <4>16, Appended DEF n
      <4> QED
        BY <4>1, <4>13, <4>17
    <3> QED
      BY <2>1, <3>1, <3>2
  <2>10. m >= pos(c, t)' => /\ box'[c][o][pos(c, t)'] \in [ok : BOOLEAN]
                            /\ failures' = 0 => box'[c][o][pos(c, t)'].ok
    BY <2>6, <2>8
  <2>11. m > pos(c, t)' /\ ok(c, pos(c, t))' => box'[c][o][pos(c, t)' + 1] \in [RingPeers(c, o) -> ConOf(o)]
    <3>1. m > pos(c, t)' => pos(c, t)' = i
      BY <2>1, <2>6
    <3>2. pos(c, t)' = i => (ok(c, pos(c, t))' <=> ok(c, i)')
      BY DEF ok, i
    <3> QED
      BY <2>7, <2>9, <3>1, <3>2
  <2> QED
    BY <1>1, <2>10, <2>11 DEF ValueAt, m, RingPeers, ConOf
<1>5. CASE box' # box
  <2>1. PICK p \in Procs : /\ PairCreate(p) \/ PairTell(p) \/ PairConnect(p) \/ tcclIbHostLockInit(p)
                           /\ Grown(Current(p), p)
    BY <1>0, <1>5, BoxNext
  <2> QED
    BY <1>4, <1>5, <2>1
<1> QED
  BY <1>3, <1>5

-----------------------------------------------------------------------------
(* The pairs of the neighbours, while a communicator is created.           *)

\* What a process that creates a communicator may do.
LEMMA CreateSteps ==
  ASSUME HostType, CtlInv, NEW p \in Procs, Process(p), Doing(p, "create"), todo'[p] = todo[p]
  PROVE  PairCreate(p) \/ PairTell(p) \/ PairConnect(p) \/ tcclIbHostLockInit(p)
<1>1. Exchanges(p) => ~Doing(p, "create")
  BY Zenon DEF Exchanges, tcclAlltoall, SkipPeer, ConnectPeer, TakeAccepted, AcceptPeer, Offer,
         LinkPeer, Agree, Unconnected, CtlInv, Ctl, Gathers, Sessions, Doing
<1>2. Created(p) \/ QueuePost(p) \/ tcclAllRankIbFini(p) => Return(p)
  BY DEF Created, QueuePost, tcclAllRankIbFini
<1>3. ~Return(p)
  <2> DEFINE s == todo[p]
             u == Tail(s)
  <2>1. s \in Seq(Calls) /\ s # <<>>
    BY DEF HostType, Doing
  <2>2. Len(u) = Len(s) - 1 /\ Len(s) \in Nat
    BY <2>1, Tailed
  <2> HIDE DEF s, u
  <2>3. u # s
    BY <2>2
  <2> QED
    BY <2>3, Course DEF s, u
<1> QED
  BY <1>1, <1>2, <1>3 DEF Process, Exchanges

\* A process gives for itself.
LEMMA OwnBox ==
  ASSUME HostType, CtlInv, PairType, BoxType, NEW p \in Procs, Process(p), NEW c \in Comms, NEW o \in Members[c], o # p
  PROVE  box'[c][o] = box[c][o]
<1>1. CASE UNCHANGED box
  BY <1>1
<1>2. CASE box' # box
  <2>1. PairCreate(p) \/ PairTell(p) \/ PairConnect(p) \/ tcclIbHostLockInit(p)
    BY <1>2, BoxChange
  <2> DEFINE d == Current(p)
  <2>2. d \in Comms /\ p \in Members[d] /\ \E v \in Values : Give(d, p, v)
    BY <1>2, <2>1, Gives
  <2> HIDE DEF d
  <2>3. PICK v \in Values : Give(d, p, v)
    BY <2>2
  <2> QED
    BY <2>2, <2>3, GiveFacts
<1> QED
  BY <1>1, <1>2

\* Where nothing has failed all pairs are made.
LEMMA AllMade ==
  ASSUME HostType, CtlInv, BoxType, BoxInv, ValueInv, NEW p \in Procs, PairTell(p), NEW c, c = Current(p),
         failures = 0
  PROVE  PairsMade(c, p)
<1>1. /\ c \in Comms /\ p \in Members[c] /\ Len(box[c][p]) = pos(c, type[p])
      /\ Known(c, pos(c, type[p])) /\ type[p] \in 0 .. 2
  BY Asked DEF HostType
<1> DEFINE i == pos(c, type[p])
<1>2. ASSUME NEW q \in Members[c]
      PROVE  box[c][q][i].ok
  <2>1. ValueAt(c, q, type[p]) /\ Len(box[c][q]) >= i
    BY <1>1 DEF ValueInv, Known
  <2> QED
    BY <2>1 DEF ValueAt
<1> QED
  BY <1>1, <1>2 DEF PairsMade, Given

\* The part of CreateInv that is one process's.
ReadyAt(p, c, t) ==
  /\ pc[p] = "qps" \/ (pc[p] = "rets" /\ box[c][p][Len(box[c][p])].ok) =>
       \A q \in RingPeers(c, p) : Owns(p, Pair(p, Kind(c, t), q))
  /\ failures = 0 =>
       \A s \in 0 .. 2 : s < t \/ pc[p] \in {"lock", "barrier"} =>
         \A q \in RingPeers(c, p) : Pair(p, Kind(c, s), q).initialized
Ready(p) == Doing(p, "create") => ReadyAt(p, Current(p), type[p])

LEMMA ReadyLater ==
  ASSUME NEW p,
         \A c, t : Doing(p, "create")' /\ c = Current(p)' /\ t = type'[p] => ReadyAt(p, c, t)'
  PROVE  Ready(p)'
BY DEF Ready, ReadyAt

LEMMA ReadyNext ==
  ASSUME PairsInv, Next, NEW p \in Procs, Process(p)
  PROVE  Ready(p)'
<1>0. /\ HostType /\ CtlInv /\ BoxType /\ PairType /\ BoxInv /\ ValueInv /\ OwnInv /\ CreateInv
  BY DEF PairsInv
<1>1. failures' = 0 => failures = 0
  BY <1>0, FailuresStay
<1>2. CASE todo'[p] # todo[p]
  <2>1. pc'[p] = "call" /\ type'[p] = 0
    BY <1>0, <1>2, Returns
  <2>2. \A s \in 0 .. 2 : ~(s < 0)
    OBVIOUS
  <2>3. \A c, t : t = type'[p] => ReadyAt(p, c, t)'
    BY <2>1, <2>2 DEF ReadyAt
  <2> QED
    BY <2>3, ReadyLater
<1>3. ASSUME todo'[p] = todo[p], Doing(p, "create"), NEW c, c = Current(p), NEW t, t = type[p]
      PROVE  /\ pc'[p] = "qps" \/ (pc'[p] = "rets" /\ box'[c][p][Len(box'[c][p])].ok) =>
                  type'[p] = t /\ \A q \in RingPeers(c, p) : Owns(p, Pair(p, Kind(c, t), q)')
             /\ failures' = 0 =>
                  \A s \in 0 .. 2 : s < type'[p] \/ pc'[p] \in {"lock", "barrier"} =>
                    \A q \in RingPeers(c, p) : Pair(p, Kind(c, s), q)'.initialized
  <2>1. /\ pc[p] = "qps" \/ (pc[p] = "rets" /\ box[c][p][Len(box[c][p])].ok) =>
             \A q \in RingPeers(c, p) : Owns(p, Pair(p, Kind(c, t), q))
        /\ failures = 0 =>
             \A s \in 0 .. 2 : s < t \/ pc[p] \in {"lock", "barrier"} =>
               \A q \in RingPeers(c, p) : Pair(p, Kind(c, s), q).initialized
    BY <1>0, <1>3 DEF CreateInv
  <2>2. c \in Comms /\ p \in Members[c] /\ t \in 0 .. 2
    BY <1>0, <1>3, CallFacts DEF Doing, HostType
  <2>3. \A s \in 0 .. 2 : s # t => Kind(c, s) # Kind(c, t)
    BY <2>2, KindFacts
  <2>4. UNCHANGED pair => \A k, q : Pair(p, k, q)' = Pair(p, k, q)
    BY DEF Pair
  <2> DEFINE k == Kind(c, t)
  <2>5. k = Kind(c, t) /\ k = Kind(c, type[p])
    BY <1>3
  <2> HIDE DEF k
  <2>6. CASE PairCreate(p)
    <3>1. pc'[p] = "rets" /\ type'[p] = t /\ pc[p] = "call"
      BY <1>0, <1>3, <2>6, Course, Zenon DEF PairCreate
    <3>2. /\ \A j, q : j # k \/ q \notin RingPeers(c, p) => Pair(p, j, q)' = Pair(p, j, q)
          /\ \E b \in BOOLEAN :
               /\ Give(c, p, [ok |-> b]) /\ (failures' = 0 => b)
               /\ b => \A q \in RingPeers(c, p) : Owns(p, Pair(p, k, q)')
      BY <1>0, <1>3, <2>5, <2>6, Creates
    <3>3. PICK b \in BOOLEAN : Give(c, p, [ok |-> b]) /\ (b => \A q \in RingPeers(c, p) : Owns(p, Pair(p, k, q)'))
      BY <3>2
    <3>4. box'[c][p][Len(box'[c][p])].ok = b
      <4> DEFINE v == [ok |-> b]
      <4>1. v \in Values /\ v.ok = b /\ Give(c, p, v)
        BY <3>3 DEF Values
      <4> HIDE DEF v
      <4>2. box'[c][p] = Append(box[c][p], v) /\ box[c][p] \in Seq(Values)
        <5>1. BoxType
          BY <1>0
        <5> QED
          BY <2>2, <4>1, <5>1, GivesTo
      <4>3. box'[c][p][Len(box'[c][p])] = v
        BY <4>1, <4>2, Appended
      <4> QED
        BY <4>1, <4>3
    <3>5. ASSUME NEW s \in 0 .. 2, s < type'[p] \/ pc'[p] \in {"lock", "barrier"}, failures' = 0,
                 NEW q \in RingPeers(c, p)
          PROVE  Pair(p, Kind(c, s), q)'.initialized
      <4>1. s < t /\ s # t
        BY <2>2, <3>1, <3>5
      <4>2. Pair(p, Kind(c, s), q).initialized
        BY <1>1, <2>1, <3>5, <4>1
      <4>3. Kind(c, s) # k
        BY <2>3, <2>5, <4>1
      <4> QED
        BY <3>2, <4>2, <4>3
    <3> QED
      BY <2>5, <3>1, <3>3, <3>4, <3>5
  <2>7. CASE PairTell(p)
    <3>1. UNCHANGED pair /\ pc[p] = "rets" /\ IF PairsMade(c, p) THEN pc'[p] = "qps" /\ type'[p] = t ELSE NextType(p)
      BY <1>0, <1>3, <2>7, Course DEF PairTell, handles
    <3>2. CASE PairsMade(c, p)
      <4>1. Len(box[c][p]) = pos(c, type[p]) /\ ok(c, pos(c, type[p]))
        BY <1>0, <1>3, <2>7, <3>2, Asked
      <4>2. box[c][p][Len(box[c][p])].ok
        BY <2>2, <4>1 DEF ok
      <4>3. \A q \in RingPeers(c, p) : Owns(p, Pair(p, Kind(c, t), q)')
        BY <2>1, <2>4, <3>1, <4>2
      <4>4. ASSUME NEW s \in 0 .. 2, s < type'[p] \/ pc'[p] \in {"lock", "barrier"}, failures' = 0,
                   NEW q \in RingPeers(c, p)
            PROVE  Pair(p, Kind(c, s), q)'.initialized
        <5>1. s < t
          BY <3>1, <3>2, <4>4
        <5> QED
          BY <1>1, <2>1, <2>4, <3>1, <4>4, <5>1
      <4> QED
        BY <3>1, <3>2, <4>3, <4>4
    <3>3. CASE ~PairsMade(c, p)
      <4>1. failures # 0
        BY <1>0, <1>3, <2>7, <3>3, AllMade
      <4>2. pc'[p] # "qps" /\ pc'[p] # "rets"
        BY <1>0, <3>1, <3>3, Course
      <4> QED
        BY <1>1, <4>1, <4>2
    <3> QED
      BY <3>2, <3>3
  <2>8. CASE PairConnect(p)
    <3>1. NextType(p)
      BY <2>8 DEF PairConnect
    <3>2. IF t = 2 THEN type'[p] = 0 /\ pc'[p] = "lock" ELSE type'[p] = t + 1 /\ pc'[p] = "call"
      BY <1>0, <1>3, <3>1, Course
    <3>3. /\ \A j, q : j # k \/ q \notin RingPeers(c, p) => Pair(p, j, q)' = Pair(p, j, q)
          /\ \A q \in RingPeers(c, p) : Pair(p, k, q)'.initialized
      BY <1>0, <1>3, <2>5, <2>8, Connects
    <3>4. ASSUME NEW s \in 0 .. 2, s < type'[p] \/ pc'[p] \in {"lock", "barrier"}, failures' = 0,
                 NEW q \in RingPeers(c, p)
          PROVE  Pair(p, Kind(c, s), q)'.initialized
      <4>1. s = t \/ (s < t /\ s # t)
        BY <2>2, <3>2, <3>4
      <4>2. CASE s = t
        BY <2>5, <3>3, <4>2
      <4>3. CASE s < t /\ s # t
        <5>1. Pair(p, Kind(c, s), q).initialized
          BY <1>1, <2>1, <3>4, <4>3
        <5>2. Kind(c, s) # k
          BY <2>3, <2>5, <4>3
        <5> QED
          BY <3>3, <5>1, <5>2
      <4> QED
        BY <4>1, <4>2, <4>3
    <3> QED
      BY <3>2, <3>4
  <2>9. CASE tcclIbHostLockInit(p)
    <3>1. pc[p] = "lock" /\ pc'[p] = "barrier" /\ UNCHANGED pair
      BY <1>0, <2>9, Course DEF tcclIbHostLockInit, handles
    <3> QED
      BY <1>1, <2>1, <2>4, <3>1
  <2> QED
    BY <1>0, <1>3, <2>6, <2>7, <2>8, <2>9, CreateSteps
<1>4. CASE todo'[p] = todo[p]
  <2> SUFFICES ASSUME NEW c, NEW u, Doing(p, "create")', c = Current(p)', u = type'[p]
               PROVE  ReadyAt(p, c, u)'
    BY ReadyLater
  <2>1. Doing(p, "create") /\ c = Current(p)
    BY <1>4 DEF Doing, Current
  <2>2. PICK t : t = type[p]
    OBVIOUS
  <2>3. /\ pc'[p] = "qps" \/ (pc'[p] = "rets" /\ box'[c][p][Len(box'[c][p])].ok) =>
             u = t /\ \A q \in RingPeers(c, p) : Owns(p, Pair(p, Kind(c, t), q)')
        /\ failures' = 0 =>
             \A s \in 0 .. 2 : s < u \/ pc'[p] \in {"lock", "barrier"} =>
               \A q \in RingPeers(c, p) : Pair(p, Kind(c, s), q)'.initialized
    BY <1>3, <1>4, <2>1, <2>2
  <2> QED
    BY <1>1, <2>3 DEF ReadyAt, Owns
<1> QED
  BY <1>2, <1>4

LEMMA CreateInvNext ==
  ASSUME PairsInv, Next
  PROVE  CreateInv'
<1>0. /\ HostType /\ CtlInv /\ BoxType /\ PairType /\ CreateInv
  BY DEF PairsInv
<1> SUFFICES ASSUME NEW o \in Procs
             PROVE  Ready(o)'
  BY DEF CreateInv, Ready, ReadyAt
<1>1. Ready(o)
  BY <1>0 DEF CreateInv, Ready, ReadyAt
<1>5. failures' = 0 => failures = 0
  BY <1>0, FailuresStay
<1>2. ASSUME todo'[o] = todo[o], pc'[o] = pc[o], type'[o] = type[o],
             \A c \in Comms : o \in Members[c] => box'[c][o] = box[c][o],
             \A k, q : Pair(o, k, q)' = Pair(o, k, q)
      PROVE  Ready(o)'
  <2> SUFFICES ASSUME NEW c, NEW t, Doing(o, "create")', c = Current(o)', t = type'[o]
               PROVE  ReadyAt(o, c, t)'
    BY ReadyLater
  <2>2. Doing(o, "create") /\ c = Current(o) /\ t = type[o]
    BY <1>2 DEF Doing, Current
  <2>3. c \in Comms /\ o \in Members[c]
    BY <1>0, <2>2, CallFacts DEF Doing
  <2>4. box'[c][o] = box[c][o]
    BY <1>2, <2>3
  <2>5. \A k, q : Pair(o, k, q)' = Pair(o, k, q)
    BY <1>2
  <2>6. ReadyAt(o, c, t)
    BY <1>1, <2>2 DEF Ready
  <2> QED
    BY <1>2, <1>5, <2>4, <2>5, <2>6 DEF ReadyAt, Owns
<1>3. CASE ~ \E p \in Procs : Process(p)
  <2>1. UNCHANGED HostVars
    BY <1>3, OthersHost
  <2>2. UNCHANGED <<todo, pc, type, prog, box, pair>>
    BY <2>1 DEF HostVars, handles
  <2>3. \A k, q : Pair(o, k, q)' = Pair(o, k, q)
    BY <2>2 DEF Pair
  <2> QED
    BY <1>2, <2>2, <2>3
<1>4. ASSUME NEW p \in Procs, Process(p), p # o
      PROVE  Ready(o)'
  <2>1. todo'[o] = todo[o] /\ pc'[o] = pc[o] /\ type'[o] = type[o]
    BY <1>0, <1>4, OwnCourse DEF HostType
  <2>2. \A k, q : Pair(o, k, q)' = Pair(o, k, q)
    BY <1>4, OwnPairs
  <2>3. \A c \in Comms : o \in Members[c] => box'[c][o] = box[c][o]
    BY <1>0, <1>4, OwnBox
  <2> QED
    BY <1>2, <2>1, <2>2, <2>3
<1> QED
  BY <1>3, <1>4, ReadyNext

-----------------------------------------------------------------------------
(* The messages on the sockets.                                            *)

LEMMA RouteFacts ==
  \A c \in Comms : \A p, q \in Members[c] : <<c, p, q>> \in Routes
BY DEF Routes

\* Another message, and the first one read: turns are kept.
LEMMA Parity == \A n \in Nat : (n + 1) % 2 = 1 <=> n % 2 # 1
OBVIOUS

LEMMA TurnsAppended ==
  ASSUME NEW s, NEW S \in SUBSET Con, NEW ret \in BOOLEAN, NEW next \in BOOLEAN, Turns(s, S, ret, next),
         NEW m, m \in IF next THEN {"ret"} ELSE S
  PROVE  Append(s, m) \in Seq(Con \cup {"ret"}) /\ Turns(Append(s, m), S, ret, ~next)
<1> DEFINE V == Con \cup {"ret"}
           z == Append(s, m)
<1>1. /\ s \in Seq(V)
      /\ \A i \in DOMAIN s : s[i] \in IF (i % 2 = 1) = ret THEN {"ret"} ELSE S
      /\ next = (((Len(s) + 1) % 2 = 1) = ret)
  BY DEF Turns
<1>2. m \in V
  OBVIOUS
<1> HIDE DEF V
<1>3. /\ z \in Seq(V) /\ Len(z) = Len(s) + 1 /\ Len(s) \in Nat /\ z[Len(s) + 1] = m
      /\ \A i \in 1 .. Len(s) : z[i] = s[i]
  BY <1>1, <1>2, Appended
<1> HIDE DEF z
<1>4. ~next = (((Len(z) + 1) % 2 = 1) = ret)
  <2> DEFINE n == Len(s) + 1
  <2>1. n \in Nat /\ Len(z) = n
    BY <1>3
  <2>2. (n + 1) % 2 = 1 <=> n % 2 # 1
    BY <2>1, Parity
  <2>3. next = ((n % 2 = 1) = ret)
    BY <1>1
  <2> HIDE DEF n
  <2>4. next <=> ((n % 2 = 1) <=> ret)
    BY <2>3
  <2> QED
    BY <2>1, <2>2, <2>4
<1>5. ASSUME NEW i \in DOMAIN z
      PROVE  z[i] \in IF (i % 2 = 1) = ret THEN {"ret"} ELSE S
  <2>1. i \in 1 .. Len(s) \/ i = Len(s) + 1
    BY <1>3
  <2>2. CASE i \in 1 .. Len(s)
    BY <1>1, <1>3, <2>2
  <2>3. CASE i = Len(s) + 1
    <3>1. next = ((i % 2 = 1) = ret) /\ z[i] = m
      BY <1>1, <1>3, <2>3
    <3> QED
      BY <3>1
  <2> QED
    BY <2>1, <2>2, <2>3
<1> QED
  BY <1>3, <1>4, <1>5 DEF Turns, V, z

LEMMA TurnsTailed ==
  ASSUME NEW s, NEW S \in SUBSET Con, NEW ret \in BOOLEAN, NEW next \in BOOLEAN, Turns(s, S, ret, next),
         s # <<>>
  PROVE  Tail(s) \in Seq(Con \cup {"ret"}) /\ Turns(Tail(s), S, ~ret, next)
<1> DEFINE V == Con \cup {"ret"}
           z == Tail(s)
<1>1. /\ s \in Seq(V)
      /\ \A i \in DOMAIN s : s[i] \in IF (i % 2 = 1) = ret THEN {"ret"} ELSE S
      /\ next = (((Len(s) + 1) % 2 = 1) = ret)
  BY DEF Turns
<1> HIDE DEF V
<1>2. /\ z \in Seq(V) /\ Len(z) = Len(s) - 1 /\ Len(s) \in Nat \ {0}
      /\ \A i \in 1 .. Len(s) - 1 : z[i] = s[i + 1]
  BY <1>1, Tailed
<1> HIDE DEF z
<1>3. next = (((Len(z) + 1) % 2 = 1) = ~ret)
  <2> DEFINE n == Len(s)
  <2>1. n \in Nat /\ Len(z) + 1 = n
    BY <1>2
  <2>2. (n + 1) % 2 = 1 <=> n % 2 # 1
    BY <2>1, Parity
  <2>3. next = (((n + 1) % 2 = 1) = ret)
    BY <1>1
  <2> HIDE DEF n
  <2>4. next <=> (((n + 1) % 2 = 1) <=> ret)
    BY <2>3
  <2> QED
    BY <2>1, <2>2, <2>4
<1>4. ASSUME NEW i \in DOMAIN z
      PROVE  z[i] \in IF (i % 2 = 1) = ~ret THEN {"ret"} ELSE S
  <2>1. i \in 1 .. Len(s) - 1 /\ i \in Nat
    BY <1>2
  <2>2. z[i] = s[i + 1] /\ i + 1 \in DOMAIN s
    BY <1>1, <1>2, <2>1
  <2>3. (i + 1) % 2 = 1 <=> i % 2 # 1
    BY <2>1, Parity
  <2>4. s[i + 1] \in IF ((i + 1) % 2 = 1) = ret THEN {"ret"} ELSE S
    BY <1>1, <2>2
  <2>5. (((i + 1) % 2 = 1) = ret) <=> ((i % 2 = 1) = ~ret)
    BY <2>3
  <2> QED
    BY <2>2, <2>4, <2>5
<1> QED
  BY <1>2, <1>3, <1>4 DEF Turns, V, z

\* The socket of a session is between the process and its peer.
LEMMA SockFacts ==
  ASSUME HostType, CtlInv, NEW p \in Procs, pc[p] \in Sessions
  PROVE  /\ sock[p].comm \in Comms /\ p \in Members[sock[p].comm] /\ sock[p].peer \in Members[sock[p].comm]
         /\ sock[p].peer # p /\ sock[p].peer = Peer(p) /\ sock[p] = Socket(sock[p].comm, sock[p].peer)
         /\ \A c, q : Socket(c, q) = sock[p] <=> c = sock[p].comm /\ q = sock[p].peer
<1>1. /\ sock[p] \in Socks /\ sock[p].peer = Peer(p)
      /\ {p, sock[p].peer} \subseteq Members[sock[p].comm] /\ left[p] # {}
  BY DEF CtlInv, Ctl
<1>2. pc[p] \notin Gathers \cup {"call"}
  BY DEF Sessions, Gathers
<1>3. Peer(p) # p
  BY <1>1, <1>2, PeerIn
<1> QED
  BY <1>1, <1>3 DEF Socks, Socket

\* Who is in the middle of an exchange, after a step.
LEMMA SpeakNext ==
  ASSUME HostType, CtlInv, NEW p \in Procs, Process(p)
  PROVE  /\ \A o \in Procs \ {p} : \A c, q, l : Speaks(c, o, q, l)' <=> Speaks(c, o, q, l)
         /\ Offer(p) => /\ pc[p] = "offer" /\ pc'[p] = "link" /\ UNCHANGED sock
         /\ LinkPeer(p) => /\ pc[p] = "link" /\ pc'[p] = "agree" /\ UNCHANGED sock
         /\ Agree(p) => /\ pc[p] = "agree" /\ pc'[p] \notin {"link", "agree"} /\ UNCHANGED sock
         /\ Offer(p) \/ LinkPeer(p) \/ Agree(p) \/ {pc[p], pc'[p]} \cap {"link", "agree"} = {}
<1>1. \A o \in Procs \ {p} : pc'[o] = pc[o]
  BY OwnCourse DEF HostType
<1>2. \A o \in Procs \ {p} : sock'[o] = sock[o]
  BY SockChange DEF HostType, ConnectPeer, TakeAccepted, AcceptPeer
<1>3. \A o \in Procs \ {p} : \A c, q, l : Speaks(c, o, q, l)' <=> Speaks(c, o, q, l)
  BY <1>1, <1>2 DEF Speaks
<1>4. Offer(p) => pc[p] = "offer" /\ pc'[p] = "link" /\ UNCHANGED sock
  BY Course DEF Offer
<1>5. LinkPeer(p) => pc[p] = "link" /\ pc'[p] = "agree" /\ UNCHANGED sock
  BY Course DEF LinkPeer
<1>6. Agree(p) => pc[p] = "agree" /\ pc'[p] \notin {"link", "agree"} /\ UNCHANGED sock
  <2>1. Agree(p) => pc[p] = "agree" /\ (pc'[p] = "peer" \/ pc'[p] = "offer") /\ UNCHANGED sock
    BY Course DEF Agree
  <2> QED
    BY <2>1
<1>7. PairCreate(p) \/ PairTell(p) \/ PairConnect(p) \/ tcclIbHostLockInit(p) =>
        pc[p] \in {"call", "rets", "qps", "lock"} /\ pc'[p] \in {"call", "rets", "qps", "lock", "barrier"}
  <2>1. PairCreate(p) => pc[p] = "call" /\ pc'[p] = "rets"
    BY Course, Zenon DEF PairCreate
  <2>2. NextType(p) => pc'[p] \in {"call", "lock"}
    BY Course
  <2>3. PairTell(p) => pc[p] = "rets" /\ pc'[p] \in {"qps", "call", "lock"}
    BY <2>2, Course DEF PairTell
  <2>4. PairConnect(p) => pc[p] = "qps" /\ pc'[p] \in {"call", "lock"}
    BY <2>2 DEF PairConnect
  <2>5. tcclIbHostLockInit(p) => pc[p] = "lock" /\ pc'[p] = "barrier"
    BY Course DEF tcclIbHostLockInit
  <2> QED
    BY <2>1, <2>3, <2>4, <2>5
<1>8. Created(p) \/ QueuePost(p) \/ tcclAllRankIbFini(p) => pc[p] \in {"call", "barrier"} /\ pc'[p] = "call"
  BY Course DEF Created, QueuePost, tcclAllRankIbFini
<1>9. tcclAlltoall(p) \/ SkipPeer(p) => pc[p] \in {"call", "peer"} /\ pc'[p] \in {"peer", "call"}
  BY Course DEF tcclAlltoall, SkipPeer
<1>10. ConnectPeer(p) \/ TakeAccepted(p) \/ AcceptPeer(p) => pc[p] \in {"peer", "accept"} /\ pc'[p] \in {"offer", "accept"}
  BY Course DEF ConnectPeer, TakeAccepted, AcceptPeer, Unconnected
<1>11. Offer(p) \/ LinkPeer(p) \/ Agree(p) \/ {pc[p], pc'[p]} \cap {"link", "agree"} = {}
  BY <1>7, <1>8, <1>9, <1>10 DEF Process
<1> QED
  BY <1>3, <1>4, <1>5, <1>6, <1>11

LEMMA MailNext ==
  ASSUME PairsInv, Next
  PROVE  MailInv'
<1>0. /\ HostType /\ CtlInv /\ PairType /\ OwnInv /\ MailInv
  BY DEF PairsInv
<1>1. /\ mail \in [Routes -> Seq(Con \cup {"ret"})]
      /\ \A c \in Comms : \A p, q \in Members[c] :
           Turns(mail[<<c, p, q>>], ConOf(p), Speaks(c, q, p, "agree"), Speaks(c, p, q, "link"))
  BY <1>0 DEF MailInv
<1>2. \A p : ConOf(p) \in SUBSET Con
  BY DEF ConOf
<1>3. \A c, p, q, l : Speaks(c, p, q, l) \in BOOLEAN /\ Speaks(c, p, q, l)' \in BOOLEAN
  BY DEF Speaks
<1>4. ASSUME UNCHANGED mail,
             \A c \in Comms : \A p, q \in Members[c] : \A l \in {"agree", "link"} :
               Speaks(c, p, q, l)' <=> Speaks(c, p, q, l)
      PROVE  MailInv'
  <2>1. ASSUME NEW c \in Comms, NEW p \in Members[c], NEW q \in Members[c]
        PROVE  Turns(mail'[<<c, p, q>>], ConOf(p), Speaks(c, q, p, "agree")', Speaks(c, p, q, "link")')
    <3>1. /\ Speaks(c, q, p, "agree")' = Speaks(c, q, p, "agree")
          /\ Speaks(c, p, q, "link")' = Speaks(c, p, q, "link")
      BY <1>3, <1>4
    <3> QED
      BY <1>1, <1>4, <3>1
  <2> QED
    BY <1>1, <1>4, <2>1 DEF MailInv, ConOf, Turns
<1>5. CASE ~ \E p \in Procs : Process(p)
  <2>1. UNCHANGED <<mail, pc, sock>>
    BY <1>5, OthersHost DEF HostVars, exchange
  <2> QED
    BY <1>4, <2>1 DEF Speaks
<1>6. ASSUME NEW r \in Procs, Process(r)
      PROVE  MailInv'
  <2>1. /\ \A o \in Procs \ {r} : \A c, q, l : Speaks(c, o, q, l)' <=> Speaks(c, o, q, l)
        /\ Offer(r) => /\ pc[r] = "offer" /\ pc'[r] = "link" /\ UNCHANGED sock
        /\ LinkPeer(r) => /\ pc[r] = "link" /\ pc'[r] = "agree" /\ UNCHANGED sock
        /\ Agree(r) => /\ pc[r] = "agree" /\ pc'[r] \notin {"link", "agree"} /\ UNCHANGED sock
        /\ Offer(r) \/ LinkPeer(r) \/ Agree(r) \/ {pc[r], pc'[r]} \cap {"link", "agree"} = {}
    BY <1>0, <1>6, SpeakNext
  <2>2. CASE ~(Offer(r) \/ LinkPeer(r) \/ Agree(r))
    <3>1. UNCHANGED mail
      BY <1>6, <2>2, MailChange
    <3>2. \A c, q : \A l \in {"agree", "link"} : ~Speaks(c, r, q, l) /\ ~Speaks(c, r, q, l)'
      BY <2>1, <2>2 DEF Speaks
    <3>3. \A c \in Comms : \A p \in Members[c] : p \in Procs
      BY CommFacts
    <3> QED
      BY <1>4, <2>1, <3>1, <3>2, <3>3
  <2>3. CASE Offer(r) \/ LinkPeer(r) \/ Agree(r)
    <3>0. PICK sc, sp : sc = sock[r].comm /\ sp = sock[r].peer
      OBVIOUS
    <3>1. /\ sc \in Comms /\ r \in Members[sc] /\ sp \in Members[sc] /\ sp # r /\ sock[r] = Socket(sc, sp)
          /\ \A c, q : Socket(c, q) = sock[r] <=> c = sc /\ q = sp
      BY <1>0, <2>1, <2>3, <3>0, SockFacts DEF Sessions
    <3>2. To(r) = <<sc, r, sp>> /\ From(r) = <<sc, sp, r>>
      BY <3>0 DEF To, From
    <3>3. <<sc, r, sp>> \in Routes /\ <<sc, sp, r>> \in Routes /\ <<sc, r, sp>> # <<sc, sp, r>>
      BY <3>1, RouteFacts
    <3>4. \A c, q, l : /\ Speaks(c, r, q, l) <=> pc[r] = l /\ c = sc /\ q = sp
                       /\ Speaks(c, r, q, l)' <=> pc'[r] = l /\ c = sc /\ q = sp
      BY <2>1, <2>3, <3>1 DEF Speaks
    <3>5. \A c \in Comms : \A o \in Members[c] : o # r => \A q, l : Speaks(c, o, q, l)' = Speaks(c, o, q, l)
      <4>1. \A c \in Comms : \A o \in Members[c] : o \in Procs
        BY CommFacts
      <4> QED
        BY <1>3, <2>1, <4>1
    <3>6. sp # r /\ sp \in Members[sc]
      BY <3>1
    <3> DEFINE to == mail[<<sc, r, sp>>]
               from == mail[<<sc, sp, r>>]
    <3>7. /\ Turns(to, ConOf(r), Speaks(sc, sp, r, "agree"), Speaks(sc, r, sp, "link"))
          /\ Turns(from, ConOf(sp), Speaks(sc, r, sp, "agree"), Speaks(sc, sp, r, "link"))
      BY <1>1, <3>1
    <3> HIDE DEF to, from
    <3>8. ASSUME NEW z \in Seq(Con \cup {"ret"}), NEW y \in Seq(Con \cup {"ret"}),
                 mail' = [s \in Routes |-> IF s = <<sc, r, sp>> THEN z ELSE IF s = <<sc, sp, r>> THEN y ELSE mail[s]],
                 Turns(z, ConOf(r), Speaks(sc, sp, r, "agree"), Speaks(sc, r, sp, "link")'),
                 Turns(y, ConOf(sp), Speaks(sc, r, sp, "agree")', Speaks(sc, sp, r, "link"))
          PROVE  MailInv'
      <4>1. mail' \in [Routes -> Seq(Con \cup {"ret"})]
        BY <1>1, <3>8
      <4>2. ASSUME NEW c \in Comms, NEW p \in Members[c], NEW q \in Members[c]
            PROVE  Turns(mail'[<<c, p, q>>], ConOf(p), Speaks(c, q, p, "agree")', Speaks(c, p, q, "link")')
        <5>1. <<c, p, q>> \in Routes
          BY RouteFacts
        <5>2. CASE <<c, p, q>> = <<sc, r, sp>>
          <6>1. mail'[<<c, p, q>>] = z /\ c = sc /\ p = r /\ q = sp
            BY <3>8, <5>1, <5>2
          <6>2. Speaks(sc, sp, r, "agree")' = Speaks(sc, sp, r, "agree")
            BY <3>1, <3>5
          <6> QED
            BY <3>8, <6>1, <6>2
        <5>3. CASE <<c, p, q>> = <<sc, sp, r>>
          <6>1. mail'[<<c, p, q>>] = y /\ c = sc /\ p = sp /\ q = r
            BY <3>3, <3>8, <5>1, <5>3
          <6>2. Speaks(sc, sp, r, "link")' = Speaks(sc, sp, r, "link")
            BY <3>1, <3>5
          <6> QED
            BY <3>8, <6>1, <6>2
        <5>4. CASE <<c, p, q>> # <<sc, r, sp>> /\ <<c, p, q>> # <<sc, sp, r>>
          <6>1. mail'[<<c, p, q>>] = mail[<<c, p, q>>]
            BY <3>8, <5>1, <5>4
          <6>2. Speaks(c, q, p, "agree")' = Speaks(c, q, p, "agree")
            <7>1. CASE q # r
              BY <3>5, <7>1
            <7>2. CASE q = r
              BY <1>3, <3>4, <5>4, <7>2
            <7> QED
              BY <7>1, <7>2
          <6>3. Speaks(c, p, q, "link")' = Speaks(c, p, q, "link")
            <7>1. CASE p # r
              BY <3>5, <7>1
            <7>2. CASE p = r
              BY <1>3, <3>4, <5>4, <7>2
            <7> QED
              BY <7>1, <7>2
          <6> QED
            BY <1>1, <6>1, <6>2, <6>3
        <5> QED
          BY <5>2, <5>3, <5>4
      <4> QED
        BY <4>1, <4>2 DEF MailInv, ConOf, Turns
    <3>9. to \in Seq(Con \cup {"ret"}) /\ from \in Seq(Con \cup {"ret"})
      BY <3>7 DEF Turns
    <3>10. CASE Offer(r)
      <4>1. PICK m \in ConOf(r) : mail' = [mail EXCEPT ![To(r)] = Append(mail[To(r)], m)]
        BY <1>0, <3>10, Offers
      <4>2. mail' = [mail EXCEPT ![<<sc, r, sp>>] = Append(to, m)]
        BY <3>2, <4>1 DEF to
      <4> DEFINE z == Append(to, m)
      <4>3. ~Speaks(sc, r, sp, "link") /\ Speaks(sc, r, sp, "link")'
            /\ ~Speaks(sc, r, sp, "agree") /\ ~Speaks(sc, r, sp, "agree")'
        BY <2>1, <3>4, <3>10
      <4>4. Turns(to, ConOf(r), Speaks(sc, sp, r, "agree"), FALSE)
        <5>1. Speaks(sc, r, sp, "link") = FALSE
          BY <1>3, <4>3
        <5> QED
          BY <3>7, <5>1
      <4>5. z \in Seq(Con \cup {"ret"}) /\ Turns(z, ConOf(r), Speaks(sc, sp, r, "agree"), ~FALSE)
        BY <1>2, <1>3, <4>4, TurnsAppended
      <4>6. Turns(z, ConOf(r), Speaks(sc, sp, r, "agree"), Speaks(sc, r, sp, "link")')
        <5>1. Speaks(sc, r, sp, "link")' = ~FALSE
          BY <1>3, <4>3
        <5> QED
          BY <4>5, <5>1
      <4>7. Turns(from, ConOf(sp), Speaks(sc, r, sp, "agree")', Speaks(sc, sp, r, "link"))
        <5>1. Speaks(sc, r, sp, "agree")' = Speaks(sc, r, sp, "agree")
          BY <1>3, <4>3
        <5> QED
          BY <3>7, <5>1
      <4> HIDE DEF z
      <4>8. mail' = [mail EXCEPT ![<<sc, r, sp>>] = z]
        BY <4>2 DEF z
      <4>9. mail' = [s \in Routes |-> IF s = <<sc, r, sp>> THEN z ELSE IF s = <<sc, sp, r>> THEN from ELSE mail[s]]
        BY <1>1, <4>8 DEF from
      <4> QED
        BY <3>8, <3>9, <4>5, <4>6, <4>7, <4>9
    <3>11. CASE LinkPeer(r)
      <4>1. from # <<>> /\ mail' = [[mail EXCEPT ![<<sc, sp, r>>] = Tail(from)] EXCEPT ![<<sc, r, sp>>] = Append(to, "ret")]
        <5>1. mail[From(r)] # <<>>
          BY <3>11 DEF LinkPeer
        <5>2. mail' = [mail EXCEPT ![From(r)] = Tail(@), ![To(r)] = Append(@, "ret")]
          BY <3>11 DEF LinkPeer
        <5>3. mail' = [mail EXCEPT ![<<sc, sp, r>>] = Tail(@), ![<<sc, r, sp>>] = Append(@, "ret")]
          BY <3>2, <5>2
        <5> QED
          BY <1>1, <3>2, <3>3, <5>1, <5>3 DEF to, from
      <4>2. Speaks(sc, r, sp, "link") /\ ~Speaks(sc, r, sp, "link")'
            /\ ~Speaks(sc, r, sp, "agree") /\ Speaks(sc, r, sp, "agree")'
        BY <2>1, <3>4, <3>11
      <4>3. /\ Speaks(sc, r, sp, "link") = TRUE /\ Speaks(sc, r, sp, "link")' = ~TRUE
            /\ Speaks(sc, r, sp, "agree") = FALSE /\ Speaks(sc, r, sp, "agree")' = ~FALSE
        BY <1>3, <4>2
      <4> DEFINE z == Append(to, "ret")
                 y == Tail(from)
      <4>4. z \in Seq(Con \cup {"ret"}) /\ Turns(z, ConOf(r), Speaks(sc, sp, r, "agree"), ~TRUE)
        <5>1. Turns(to, ConOf(r), Speaks(sc, sp, r, "agree"), TRUE)
          BY <3>7, <4>3
        <5> QED
          BY <1>2, <1>3, <5>1, TurnsAppended
      <4>5. y \in Seq(Con \cup {"ret"}) /\ Turns(y, ConOf(sp), ~FALSE, Speaks(sc, sp, r, "link"))
        <5>1. Turns(from, ConOf(sp), FALSE, Speaks(sc, sp, r, "link"))
          BY <3>7, <4>3
        <5> QED
          BY <1>2, <1>3, <4>1, <5>1, TurnsTailed
      <4> HIDE DEF z, y
      <4>6. /\ Turns(z, ConOf(r), Speaks(sc, sp, r, "agree"), Speaks(sc, r, sp, "link")')
            /\ Turns(y, ConOf(sp), Speaks(sc, r, sp, "agree")', Speaks(sc, sp, r, "link"))
        BY <4>3, <4>4, <4>5
      <4>7. mail' = [[mail EXCEPT ![<<sc, sp, r>>] = y] EXCEPT ![<<sc, r, sp>>] = z]
        BY <4>1 DEF z, y
      <4>8. mail' = [s \in Routes |-> IF s = <<sc, r, sp>> THEN z ELSE IF s = <<sc, sp, r>> THEN y ELSE mail[s]]
        BY <1>1, <4>7
      <4> QED
        BY <3>8, <4>4, <4>5, <4>6, <4>8
    <3>12. CASE Agree(r)
      <4>1. from # <<>> /\ mail' = [mail EXCEPT ![<<sc, sp, r>>] = Tail(from)]
        BY <3>2, <3>12 DEF Agree, from
      <4>2. ~Speaks(sc, r, sp, "link") /\ ~Speaks(sc, r, sp, "link")'
            /\ Speaks(sc, r, sp, "agree") /\ ~Speaks(sc, r, sp, "agree")'
        BY <2>1, <3>4, <3>12
      <4>3. /\ Speaks(sc, r, sp, "link")' = Speaks(sc, r, sp, "link")
            /\ Speaks(sc, r, sp, "agree") = TRUE /\ Speaks(sc, r, sp, "agree")' = ~TRUE
        BY <1>3, <4>2
      <4> DEFINE y == Tail(from)
      <4>4. y \in Seq(Con \cup {"ret"}) /\ Turns(y, ConOf(sp), ~TRUE, Speaks(sc, sp, r, "link"))
        <5>1. Turns(from, ConOf(sp), TRUE, Speaks(sc, sp, r, "link"))
          BY <3>7, <4>3
        <5> QED
          BY <1>2, <1>3, <4>1, <5>1, TurnsTailed
      <4> HIDE DEF y
      <4>5. /\ Turns(to, ConOf(r), Speaks(sc, sp, r, "agree"), Speaks(sc, r, sp, "link")')
            /\ Turns(y, ConOf(sp), Speaks(sc, r, sp, "agree")', Speaks(sc, sp, r, "link"))
        BY <3>7, <4>3, <4>4
      <4>6. mail' = [mail EXCEPT ![<<sc, sp, r>>] = y]
        BY <4>1 DEF y
      <4>7. mail' = [s \in Routes |-> IF s = <<sc, r, sp>> THEN to ELSE IF s = <<sc, sp, r>> THEN y ELSE mail[s]]
        BY <1>1, <3>3, <4>6 DEF to
      <4> QED
        BY <3>8, <3>9, <4>4, <4>5, <4>7
    <3> QED
      BY <2>3, <3>10, <3>11, <3>12
  <2> QED
    BY <2>2, <2>3
<1> QED
  BY <1>5, <1>6

-----------------------------------------------------------------------------
(* Posts that are queued or under way.                                     *)

LEMMA QpFacts ==
  ASSUME NEW c \in Comms, NEW p \in Members[c], NEW k, k \in Posts \/ k = c
  PROVE  <<p, nextOf[c][p], k>> \in Qps
<1> DEFINE x == <<p, k>>
<1>1. x \in Members[c] \X {"send", "recv", c} /\ x[1] = p /\ x[2] = k
  BY DEF Posts
<1> HIDE DEF x
<1>2. <<x[1], nextOf[c][x[1]], x[2]>> \in {<<y[1], nextOf[c][y[1]], y[2]>> : y \in Members[c] \X {"send", "recv", c}}
  BY <1>1
<1> QED
  BY <1>1, <1>2 DEF Qps

\* What has been queued goes, from the front, and only QueuePost adds to it.
LEMMA StreamChange ==
  ASSUME HostType, CtlInv, StreamType, Next
  PROVE  \A c \in Comms : \A p \in Members[c] :
           \/ stream'[c][p] = stream[c][p]
           \/ stream[c][p] # <<>> /\ stream'[c][p] = Tail(stream[c][p]) /\ (PostDone(c, p) \/ WaitFlag(c, p))
           \/ QueuePost(p) /\ c = Current(p)
<1>0. Table(stream)
  BY DEF StreamType
<1>1. CASE UNCHANGED stream
  BY <1>1
<1>2. ASSUME NEW d \in Comms, NEW o \in Members[d], PostDone(d, o) \/ WaitFlag(d, o)
      PROVE  \A c \in Comms : \A p \in Members[c] :
               \/ stream'[c][p] = stream[c][p]
               \/ /\ stream[c][p] # <<>> /\ stream'[c][p] = Tail(stream[c][p])
                  /\ PostDone(c, p) \/ WaitFlag(c, p)
  <2>0. PICK x : x = Tail(stream[d][o])
    OBVIOUS
  <2>1. Sets(stream, stream', d, o, x) /\ stream[d][o] # <<>>
    BY <1>2, <2>0 DEF PostDone, WaitFlag, AtPost, Sets
  <2>2. Table(stream') /\ \A c \in Comms : \A p \in Members[c] :
          stream'[c][p] = IF c = d /\ p = o THEN x ELSE stream[c][p]
    BY <1>0, <2>1, PlaceSet
  <2> QED
    BY <1>2, <2>0, <2>1, <2>2
<1>3. ASSUME NEW o \in Procs, QueuePost(o)
      PROVE  \A c \in Comms : \A p \in Members[c] :
               stream'[c][p] = stream[c][p] \/ (p = o /\ c = Current(o))
  <2>1. todo[o] # <<>>
    BY <1>3 DEF QueuePost, Doing
  <2>0. PICK d : d = Current(o)
    OBVIOUS
  <2>2. d \in Comms /\ o \in Members[d]
    BY <2>0, <2>1, CallFacts
  <2>3. \E x : Sets(stream, stream', d, o, x)
    BY <1>3, <2>0 DEF QueuePost, Sets
  <2>4. PICK x : Sets(stream, stream', d, o, x)
    BY <2>3
  <2>5. Table(stream') /\ \A c \in Comms : \A p \in Members[c] :
          stream'[c][p] = IF c = d /\ p = o THEN x ELSE stream[c][p]
    BY <1>0, <2>2, <2>4, PlaceSet
  <2> QED
    BY <2>0, <2>5
<1>4. CASE stream' # stream
  <2>1. (\E c \in Comms : \E p \in Members[c] : PostDone(c, p) \/ WaitFlag(c, p)) \/ \E p \in Procs : QueuePost(p)
    <3>1. ASSUME NEW p \in Procs, Process(p)
          PROVE  QueuePost(p)
      BY <1>4, <3>1, PostChange
    <3>2. ASSUME NEW c \in Comms, NEW p \in Members[c], Stream(c, p)
          PROVE  PostDone(c, p) \/ WaitFlag(c, p)
      BY <1>4, <3>2, Zenon DEF Stream, PostData, PostFlag
    <3>3. ASSUME NEW qp, Deliver(qp)
          PROVE  FALSE
      BY <1>4, <3>3 DEF Deliver
    <3> QED
      BY <3>1, <3>2, <3>3 DEF Next
  <2> QED
    BY <1>2, <1>3, <2>1
<1> QED
  BY <1>1, <1>4

\* Flags are put on the wire by posts, and go from the front.
LEMMA FlagWire ==
  ASSUME HostType, CtlInv, StreamType, Next, NEW c \in Comms, NEW p \in Members[c]
  PROVE  LET qp == FlagQp(c, p) IN
         \/ wire'[qp] = wire[qp]
         \/ wire[qp] # <<>> /\ wire'[qp] = Tail(wire[qp])
         \/ PostFlag(c, p) /\ Head(stream[c][p]).peer = nextOf[c][p]
            /\ wire'[qp] = Append(wire[qp], <<c, Head(stream[c][p]).n>>)
         \/ tcclAllRankIbFini(p) /\ c = Current(p) /\ wire'[qp] = <<>>
<1> DEFINE qp == FlagQp(c, p)
<1>1. qp \in Qps /\ qp[1] = p /\ qp[2] = nextOf[c][p] /\ qp[3] = c
  BY QpFacts DEF FlagQp
<1>2. wire \in [Qps -> Seq(Comms \X Nat)]
  BY DEF StreamType
<1>3. c \notin Posts
  BY CommFacts DEF Posts
<1> HIDE DEF qp
<1>4. CASE UNCHANGED wire
  BY <1>4 DEF qp
<1>5. ASSUME NEW d \in Comms, NEW o \in Members[d], PostData(d, o), stream[d][o] \in Seq(Cmds)
      PROVE  wire'[qp] = wire[qp]
  <2> DEFINE m == Head(stream[d][o])
             at == <<o, m.peer, m.kind>>
  <2>1. m \in Cmds /\ m.do = "post"
    BY <1>5, Tailed DEF PostData, AtPost
  <2>2. m.kind \in Posts
    BY <2>1 DEF Cmds
  <2>3. wire' = [wire EXCEPT ![at] = Append(wire[at], <<d, m.n>>)]
    BY <1>5 DEF PostData
  <2>4. at # qp
    BY <1>1, <1>3, <2>2
  <2> HIDE DEF m, at
  <2> QED
    BY <1>1, <1>2, <2>3, <2>4
<1>6. ASSUME NEW d \in Comms, NEW o \in Members[d], PostFlag(d, o)
      PROVE  \/ wire'[qp] = wire[qp]
             \/ /\ d = c /\ o = p /\ Head(stream[c][p]).peer = nextOf[c][p]
                /\ wire'[qp] = Append(wire[qp], <<c, Head(stream[c][p]).n>>)
  <2> DEFINE m == Head(stream[d][o])
             at == <<o, m.peer, d>>
  <2>1. wire' = [wire EXCEPT ![at] = Append(wire[at], <<d, m.n>>)]
    BY <1>6 DEF PostFlag
  <2>2. at = qp => o = p /\ d = c /\ m.peer = nextOf[c][p]
    BY <1>1
  <2> HIDE DEF at
  <2>3. CASE at = qp
    BY <1>1, <1>2, <2>1, <2>2, <2>3
  <2>4. CASE at # qp
    BY <1>1, <1>2, <2>1, <2>4
  <2> QED
    BY <2>3, <2>4
<1>7. ASSUME NEW x, Deliver(x)
      PROVE  wire'[qp] = wire[qp] \/ (wire[qp] # <<>> /\ wire'[qp] = Tail(wire[qp]))
  <2>1. wire[x] # <<>> /\ wire' = [wire EXCEPT ![x] = Tail(wire[x])]
    BY <1>7 DEF Deliver
  <2> QED
    BY <1>1, <1>2, <2>1
<1>8. ASSUME NEW o \in Procs, tcclAllRankIbFini(o)
      PROVE  wire'[qp] = wire[qp] \/ (o = p /\ c = Current(p) /\ wire'[qp] = <<>>)
  <2>1. wire' = [y \in Qps |-> IF y[1] = o /\ y[3] = Current(o) THEN <<>> ELSE wire[y]]
    BY <1>8 DEF tcclAllRankIbFini
  <2> QED
    BY <1>1, <2>1
<1>9. CASE wire' # wire
  <2>1. \/ \E d \in Comms : \E o \in Members[d] : PostData(d, o) \/ PostFlag(d, o)
        \/ \E x : Deliver(x)
        \/ \E o \in Procs : tcclAllRankIbFini(o)
    <3>1. ASSUME NEW o \in Procs, Process(o)
          PROVE  tcclAllRankIbFini(o)
      BY <1>9, <3>1, PostChange
    <3>2. ASSUME NEW d \in Comms, NEW o \in Members[d], Stream(d, o)
          PROVE  PostData(d, o) \/ PostFlag(d, o)
      BY <1>9, <3>2 DEF Stream, PostDone, WaitFlag, post
    <3> QED
      BY <3>1, <3>2 DEF Next
  <2>2. \A d \in Comms : \A o \in Members[d] : stream[d][o] \in Seq(Cmds)
    BY DEF StreamType
  <2> QED
    BY <1>5, <1>6, <1>7, <1>8, <2>1, <2>2 DEF qp
<1> QED
  BY <1>4, <1>9 DEF qp

\* Where nothing is queued or under way nothing will be, until it is posted.
LEMMA QuietKept ==
  ASSUME HostType, CtlInv, StreamType, Next, NEW c \in Comms, NEW p \in Members[c],
         ~HasPost(c, p), wire[FlagQp(c, p)] = <<>>, ~(QueuePost(p) /\ c = Current(p))
  PROVE  ~HasPost(c, p)' /\ wire'[FlagQp(c, p)] = <<>>
<1>1. stream[c][p] \in Seq(Cmds)
  BY DEF StreamType
<1>2. stream'[c][p] = stream[c][p] \/ (stream[c][p] # <<>> /\ stream'[c][p] = Tail(stream[c][p]))
  BY StreamChange
<1>3. ~HasPost(c, p)'
  <2>1. CASE stream'[c][p] = stream[c][p]
    BY <2>1 DEF HasPost
  <2>2. CASE stream[c][p] # <<>> /\ stream'[c][p] = Tail(stream[c][p])
    <3>1. \A i \in DOMAIN stream'[c][p] : i + 1 \in DOMAIN stream[c][p] /\ stream'[c][p][i] = stream[c][p][i + 1]
      BY <1>1, <2>2, Tailed
    <3> QED
      BY <3>1 DEF HasPost
  <2> QED
    BY <1>2, <2>1, <2>2
<1>4. ~PostFlag(c, p)
  <2>1. SUFFICES ASSUME PostFlag(c, p) PROVE FALSE
    OBVIOUS
  <2>2. stream[c][p] # <<>> /\ Head(stream[c][p]).do = "post"
    BY <2>1 DEF PostFlag, AtPost
  <2>3. 1 \in DOMAIN stream[c][p] /\ Head(stream[c][p]) = stream[c][p][1]
    BY <1>1, <2>2, Tailed
  <2> QED
    BY <2>2, <2>3 DEF HasPost
<1>5. wire'[FlagQp(c, p)] = <<>>
  BY <1>4, FlagWire
<1> QED
  BY <1>3, <1>5

-----------------------------------------------------------------------------
(* Connections that are made on first use.                                 *)

SessionAt(p, c, t, q) ==
  /\ \A o \in IbPeers[c][p] \ left[p] : Initialized(c, p, o)
  /\ pc[p] # "peer" =>
       /\ q = nextOf[c][p] => ~HasPost(c, p) /\ wire[FlagQp(c, p)] = <<>>
       /\ pc[p] = "link" => Owns(p, Pair(p, Kind(c, t), q))
       /\ pc[p] = "agree" => Pair(p, Kind(c, t), q).initialized
       /\ t > 0 => Pair(p, "send", q).initialized

LEMMA SessionLater ==
  ASSUME NEW p,
         \A c, t, q : /\ pc'[p] \notin Gathers \cup {"call"}
                      /\ c = Current(p)' /\ t = type'[p] /\ q = Peer(p)' => SessionAt(p, c, t, q)'
  PROVE  pc'[p] \notin Gathers \cup {"call"} => SessionAt(p, Current(p), type[p], Peer(p))'
BY DEF SessionAt

LEMMA SessionNext ==
  ASSUME PairsInv, StreamType, PostInv, Next
  PROVE  SessionInv'
<1>0. /\ HostType /\ CtlInv /\ PairType /\ OwnInv /\ MailInv /\ SessionInv
  BY DEF PairsInv
<1> SUFFICES ASSUME NEW o \in Procs
             PROVE  pc'[o] \notin Gathers \cup {"call"} => SessionAt(o, Current(o), type[o], Peer(o))'
  BY DEF SessionInv, SessionAt
<1> SUFFICES ASSUME NEW c, NEW t, NEW q, pc'[o] \notin Gathers \cup {"call"},
                    c = Current(o)', t = type'[o], q = Peer(o)'
             PROVE  SessionAt(o, c, t, q)'
  BY SessionLater
<1>1. ASSUME pc[o] \notin Gathers \cup {"call"}, NEW u, u = type[o], c = Current(o), NEW r, r = Peer(o)
      PROVE  SessionAt(o, c, u, r)
  BY <1>0, <1>1 DEF SessionInv, SessionAt
<1>2. ASSUME pc'[o] = pc[o], todo'[o] = todo[o], type'[o] = type[o], left'[o] = left[o], ~QueuePost(o),
             \A k, x : Pair(o, k, x)' = Pair(o, k, x)
      PROVE  SessionAt(o, c, t, q)'
  <2>1. c = Current(o) /\ t = type[o] /\ q = Peer(o) /\ pc[o] \notin Gathers \cup {"call"}
    BY <1>2 DEF Current, Peer
  <2>2. SessionAt(o, c, t, q)
    BY <1>1, <2>1
  <2>3. c \in Comms /\ o \in Members[c]
    <3>1. todo[o] # <<>>
      BY <1>0, <2>1 DEF CtlInv, Ctl, Doing
    <3> QED
      BY <1>0, <2>1, <3>1, CallFacts
  <2>4. ~HasPost(c, o) /\ wire[FlagQp(c, o)] = <<>> => ~HasPost(c, o)' /\ wire'[FlagQp(c, o)] = <<>>
    BY <1>0, <1>2, <2>3, QuietKept
  <2>5. wire'[FlagQp(c, o)] = wire[FlagQp(c, o)]' /\ \A k, x : Owns(o, Pair(o, k, x)') <=> Owns(o, Pair(o, k, x))
    BY <1>2 DEF FlagQp
  <2> QED
    BY <1>2, <2>2, <2>4, <2>5 DEF SessionAt, Initialized, FlagQp, Owns
<1>3. CASE ~ \E p \in Procs : Process(p)
  <2>1. UNCHANGED <<pc, todo, type, left, pair>>
    BY <1>3, OthersHost DEF HostVars, exchange, handles
  <2>2. \A k, x : Pair(o, k, x)' = Pair(o, k, x)
    BY <2>1 DEF Pair
  <2>3. ~QueuePost(o)
    BY <1>3 DEF Process
  <2> QED
    BY <1>2, <2>1, <2>2, <2>3
<1>4. ASSUME NEW p \in Procs, Process(p), p # o
      PROVE  SessionAt(o, c, t, q)'
  <2>1. pc'[o] = pc[o] /\ todo'[o] = todo[o] /\ type'[o] = type[o]
    BY <1>0, <1>4, OwnCourse DEF HostType
  <2>2. left'[o] = left[o]
    BY <1>0, <1>4, LeftChange DEF HostType, tcclAlltoall, SkipPeer, Agree
  <2>3. \A k, x : Pair(o, k, x)' = Pair(o, k, x)
    BY <1>4, OwnPairs
  <2>4. CASE QueuePost(o)
    <3>1. pc'[o] = "call"
      BY <1>0, <2>4, Course DEF QueuePost
    <3> QED
      BY <3>1
  <2> QED
    BY <1>2, <2>1, <2>2, <2>3, <2>4
<1>5. CASE Process(o)
  <2>1. ~(PairCreate(o) \/ PairTell(o) \/ PairConnect(o) \/ tcclIbHostLockInit(o) \/ Created(o) \/ QueuePost(o)
          \/ tcclAllRankIbFini(o))
    <3>1. PairCreate(o) => pc'[o] = "rets"
      BY <1>0, Course, Zenon DEF PairCreate
    <3>2. NextType(o) => pc'[o] \in {"call", "lock"}
      BY <1>0, Course
    <3>3. PairTell(o) \/ PairConnect(o) => pc'[o] \in {"call", "lock", "qps"}
      BY <1>0, <3>2, Course DEF PairTell, PairConnect
    <3>4. tcclIbHostLockInit(o) => pc'[o] = "barrier"
      BY <1>0, Course DEF tcclIbHostLockInit
    <3>5. Created(o) \/ QueuePost(o) \/ tcclAllRankIbFini(o) => pc'[o] = "call"
      BY <1>0, Course DEF Created, QueuePost, tcclAllRankIbFini
    <3> QED
      BY <3>1, <3>3, <3>4, <3>5 DEF Gathers
  <2>2. Exchanges(o)
    BY <1>5, <2>1 DEF Process, Exchanges
  <2>3. UNCHANGED <<stream, wire>>
    <3>1. tcclAlltoall(o) \/ SkipPeer(o) \/ ConnectPeer(o) \/ TakeAccepted(o) \/ AcceptPeer(o) => UNCHANGED <<stream, wire>>
      BY DEF tcclAlltoall, SkipPeer, ConnectPeer, TakeAccepted, AcceptPeer, post
    <3>2. Offer(o) \/ LinkPeer(o) \/ Agree(o) => UNCHANGED <<stream, wire>>
      BY DEF Offer, LinkPeer, Agree, post
    <3> QED
      BY <2>2, <3>1, <3>2 DEF Exchanges
  <2>4. (HasPost(c, o)' <=> HasPost(c, o)) /\ wire'[FlagQp(c, o)] = wire[FlagQp(c, o)]
    BY <2>3 DEF HasPost
  <2>5. UNCHANGED pair => \A k, x : Pair(o, k, x)' = Pair(o, k, x)
    BY DEF Pair
  <2>6. CASE tcclAlltoall(o)
    <3>1. left'[o] = IbPeers[c][o] /\ pc'[o] = "peer"
      <4>1. left'[o] = IbPeers[Current(o)][o] /\ pc'[o] = "peer" /\ UNCHANGED todo
        BY <1>0, <2>6, Course DEF tcclAlltoall, HostType
      <4>2. Current(o) = c
        BY <4>1 DEF Current
      <4> QED
        BY <4>1, <4>2
    <3> QED
      BY <3>1 DEF SessionAt
  <2>7. CASE SkipPeer(o)
    <3>1. pc[o] = "peer" /\ UNCHANGED pair
      BY <2>7 DEF SkipPeer, handles
    <3>2. left[o] # {}
      <4>1. left[o] = {} => pc'[o] = "call"
        BY <1>0, <2>7, Course DEF SkipPeer
      <4> QED
        BY <4>1
    <3>3. PICK r : r = Peer(o)
      OBVIOUS
    <3>4. Initialized(c, o, r) /\ left'[o] = left[o] \ {r} /\ UNCHANGED <<todo, pc>> /\ c = Current(o)
      <4>1. Initialized(Current(o), o, r) /\ left'[o] = left[o] \ {r} /\ UNCHANGED <<todo, pc>>
        BY <1>0, <2>7, <3>2, <3>3 DEF SkipPeer, HostType
      <4>2. Current(o) = c
        BY <4>1 DEF Current
      <4> QED
        BY <4>1, <4>2
    <3>5. \A x \in IbPeers[c][o] \ left[o] : Initialized(c, o, x)
      BY <1>0, <3>1, <3>4 DEF SessionInv, Gathers
    <3>6. \A x \in IbPeers[c][o] \ left'[o] : Initialized(c, o, x)'
      BY <2>5, <3>1, <3>4, <3>5 DEF Initialized
    <3> QED
      BY <3>1, <3>4, <3>6 DEF SessionAt
  <2>8. CASE ConnectPeer(o) \/ TakeAccepted(o)
    <3>1. /\ pc[o] = "peer" /\ left[o] # {} /\ ~Initialized(Current(o), o, Peer(o))
          /\ pc'[o] \in {"offer", "accept"} /\ UNCHANGED <<todo, type, left, pair>>
      BY <1>0, <2>8, Course DEF ConnectPeer, TakeAccepted, Unconnected, handles
    <3>2. c = Current(o) /\ q = Peer(o) /\ t = type[o] /\ ~Initialized(c, o, q)
      BY <3>1 DEF Current, Peer
    <3>3. c \in Comms /\ o \in Members[c] /\ q \in IbPeers[c][o] /\ t = 0
      <4>1. t = 0
        BY <1>0, <3>1, <3>2 DEF CtlInv, Ctl, Sessions
      <4> QED
        BY <1>0, <3>1, <3>2, <4>1, PeerIn DEF Gathers
    <3>4. q = nextOf[c][o] => ~HasPost(c, o) /\ wire[FlagQp(c, o)] = <<>>
      BY <3>2, <3>3 DEF PostInv, NextReady
    <3>5. \A x \in IbPeers[c][o] \ left[o] : Initialized(c, o, x)
      BY <1>0, <3>1, <3>2 DEF SessionInv, Gathers
    <3>6. \A x \in IbPeers[c][o] \ left'[o] : Initialized(c, o, x)'
      BY <2>5, <3>1, <3>5 DEF Initialized
    <3> QED
      BY <2>4, <3>1, <3>3, <3>4, <3>6 DEF SessionAt, FlagQp
  <2>9. CASE AcceptPeer(o)
    <3>1. pc[o] = "accept" /\ pc'[o] \in {"offer", "accept"} /\ UNCHANGED <<todo, type, left, pair>>
      BY <1>0, <2>9, Course DEF AcceptPeer, handles
    <3>2. c = Current(o) /\ q = Peer(o) /\ t = type[o]
      BY <3>1 DEF Current, Peer
    <3>3. SessionAt(o, c, t, q) /\ t = 0
      <4>1. t = 0
        BY <1>0, <3>1, <3>2 DEF CtlInv, Ctl, Sessions
      <4> QED
        BY <1>1, <3>1, <3>2, <4>1 DEF Gathers
    <3>4. \A x \in IbPeers[c][o] \ left'[o] : Initialized(c, o, x)'
      BY <2>5, <3>1, <3>3 DEF Initialized, SessionAt
    <3> QED
      BY <2>4, <3>1, <3>3, <3>4 DEF SessionAt, FlagQp
  <2>10. CASE Offer(o) \/ LinkPeer(o)
    <3>1. pc[o] \in {"offer", "link"} /\ UNCHANGED <<todo, type, left>>
      BY <2>10 DEF Offer, LinkPeer
    <3>2. c = Current(o) /\ q = Peer(o) /\ t = type[o]
      BY <3>1 DEF Current, Peer
    <3>3. SessionAt(o, c, t, q)
      BY <1>1, <3>1, <3>2 DEF Gathers
    <3>4. left[o] # {}
      BY <1>0, <3>1 DEF CtlInv, Ctl, Sessions
    <3>5. c \in Comms /\ o \in Members[c] /\ q \in left[o] /\ t \in 0 .. 2
      <4>1. pc[o] \notin Gathers \cup {"call"}
        BY <3>1 DEF Gathers
      <4>2. Current(o) \in Comms /\ o \in Members[Current(o)] /\ Peer(o) \in left[o]
        BY <1>0, <3>4, <4>1, PeerIn
      <4>3. type[o] \in 0 .. 2
        BY <1>0 DEF HostType
      <4> QED
        BY <3>2, <4>2, <4>3
    <3>6. PICK k : k = Kind(c, t)
      OBVIOUS
    <3>7. /\ \A j, x : j # k \/ x # q => Pair(o, j, x)' = Pair(o, j, x)
          /\ Offer(o) => Owns(o, Pair(o, k, q)') /\ pc'[o] = "link"
          /\ LinkPeer(o) => Pair(o, k, q)'.initialized /\ pc'[o] = "agree"
      <4>1. k = Kind(c, type[o])
        BY <3>2, <3>6
      <4>2. Offer(o) => /\ \A j, x : j # k \/ x # q => Pair(o, j, x)' = Pair(o, j, x)
                        /\ Owns(o, Pair(o, k, q)')
        BY <1>0, <3>2, <3>6, Offers
      <4>3. LinkPeer(o) => /\ \A j, x : j # k \/ x # q => Pair(o, j, x)' = Pair(o, j, x)
                           /\ Pair(o, k, q)'.initialized
        BY <1>0, <3>2, <4>1, Links
      <4>4. (Offer(o) => pc'[o] = "link") /\ (LinkPeer(o) => pc'[o] = "agree")
        BY <1>0, Course DEF Offer, LinkPeer
      <4> QED
        BY <2>10, <4>2, <4>3, <4>4
    <3>8. \A x \in IbPeers[c][o] \ left'[o] : Initialized(c, o, x)'
      BY <3>1, <3>3, <3>5, <3>7 DEF Initialized, SessionAt
    <3>9. t > 0 => Pair(o, "send", q)'.initialized
      <4>1. SUFFICES ASSUME t > 0 PROVE Pair(o, "send", q)'.initialized
        OBVIOUS
      <4>2. Pair(o, "send", q).initialized
        BY <3>1, <3>3, <4>1 DEF SessionAt
      <4>3. k # "send"
        <5>1. Kind(c, 0) = "send" /\ \A s, v \in 0 .. 2 : Kind(c, s) = Kind(c, v) => s = v
          BY <3>5, KindFacts
        <5> QED
          BY <3>5, <3>6, <4>1, <5>1
      <4> QED
        BY <3>7, <4>2, <4>3
    <3>10. q = nextOf[c][o] => ~HasPost(c, o)' /\ wire'[FlagQp(c, o)] = <<>>
      BY <2>4, <3>1, <3>3 DEF SessionAt
    <3>11. /\ pc'[o] = "link" => Owns(o, Pair(o, Kind(c, t), q)')
           /\ pc'[o] = "agree" => Pair(o, Kind(c, t), q)'.initialized
      BY <2>10, <3>6, <3>7
    <3> QED
      BY <3>8, <3>9, <3>10, <3>11 DEF SessionAt, FlagQp, Owns
  <2>11. CASE Agree(o)
    <3>1. pc[o] = "agree" /\ UNCHANGED <<todo, pair>>
      BY <2>11 DEF Agree, handles
    <3>2. PICK u, r : u = type[o] /\ r = Peer(o)
      OBVIOUS
    <3>3. c = Current(o)
      BY <3>1 DEF Current
    <3>4. SessionAt(o, c, u, r) /\ c \in Comms /\ u \in 0 .. 2
      <4>1. left[o] # {}
        BY <1>0, <3>1 DEF CtlInv, Ctl, Sessions
      <4> QED
        BY <1>0, <1>1, <3>1, <3>2, <3>3, <4>1, PeerIn DEF Gathers, HostType
    <3>5. Kind(c, 0) = "send" /\ Kind(c, 2) = c
      BY <3>4, KindFacts
    <3>6. /\ Pair(o, Kind(c, u), r).initialized /\ (u > 0 => Pair(o, "send", r).initialized)
          /\ r = nextOf[c][o] => ~HasPost(c, o) /\ wire[FlagQp(c, o)] = <<>>
          /\ \A x \in IbPeers[c][o] \ left[o] : Initialized(c, o, x)
      BY <3>1, <3>4 DEF SessionAt
    <3>7. \A k, x : Pair(o, k, x)' = Pair(o, k, x)
      BY <2>5, <3>1
    <3>8. CASE u = 2
      <4>1. pc'[o] = "peer" /\ left'[o] = left[o] \ {r}
        BY <1>0, <2>11, <3>2, <3>8, Course DEF Agree, HostType
      <4>2. Initialized(c, o, r)
        BY <3>5, <3>6, <3>8 DEF Initialized
      <4>3. \A x \in IbPeers[c][o] \ left'[o] : Initialized(c, o, x)'
        BY <3>6, <3>7, <4>1, <4>2 DEF Initialized
      <4> QED
        BY <4>1, <4>3 DEF SessionAt
    <3>9. CASE u # 2
      <4>1. pc'[o] = "offer" /\ left' = left /\ t = (u + 1) % 3
        BY <1>0, <2>11, <3>2, <3>9, Course DEF Agree, HostType
      <4>2. q = r
        BY <3>1, <3>2, <4>1 DEF Peer, Current
      <4>3. Pair(o, "send", q).initialized
        <5>1. u = 0 \/ u > 0
          BY <3>4
        <5> QED
          BY <3>5, <3>6, <4>2, <5>1
      <4>4. \A x \in IbPeers[c][o] \ left'[o] : Initialized(c, o, x)'
        BY <3>6, <3>7, <4>1 DEF Initialized
      <4> QED
        BY <2>4, <3>6, <3>7, <4>1, <4>2, <4>3, <4>4 DEF SessionAt, FlagQp
    <3> QED
      BY <3>8, <3>9
  <2> QED
    BY <2>2, <2>6, <2>7, <2>8, <2>9, <2>10, <2>11 DEF Exchanges
<1> QED
  BY <1>3, <1>4, <1>5

-----------------------------------------------------------------------------
(* What the steps of a post do.                                            *)

\* A place of a table, or those of a process's node if there is a lock.
PlaceIs(f, g, c, p, x) ==
  Table(g) /\ \A d \in Comms : \A q \in Members[d] : g[d][q] = IF d = c /\ q = p THEN x ELSE f[d][q]
LockIs(c, p, x) ==
  Table(lock') /\ \A d \in Comms : \A q \in Members[d] :
    lock'[d][q] = IF d = c /\ hasLock[c] /\ q \in OnMyNode[c][p] THEN x ELSE lock[d][q]
WireIs(at, x) == \A qp \in Qps : wire'[qp] = IF qp = at THEN Append(wire[qp], x) ELSE wire[qp]
CqLess(at) == \A qp \in Qps : cq'[qp] = IF qp = at THEN cq[qp] - 1 ELSE cq[qp]
CqMore(at) == \A qp \in Qps : cq'[qp] = IF qp = at THEN cq[qp] + 1 ELSE cq[qp]
Polled(at) ==
  \/ CqLess(at) /\ cq[at] > 0 /\ disturbed' = disturbed
  \/ cq' = cq /\ disturbed' = disturbed \cup {<<at[1], at[2]>>}

LEMMA LockSteps ==
  ASSUME Table(lock), NEW c \in Comms, NEW p \in Members[c], NEW x,
         lock' = IF hasLock[c] THEN [lock EXCEPT ![c] = [q \in Members[c] |->
                                   IF q \in OnMyNode[c][p] THEN x ELSE @[q]]]
                 ELSE lock
  PROVE  LockIs(c, p, x)
<1>1. CASE hasLock[c]
  <2>0. PICK S : S = OnMyNode[c][p]
    OBVIOUS
  <2>1. SetsAll(lock, lock', c, S, x)
    BY <1>1, <2>0 DEF SetsAll
  <2>2. PICK g : g = lock'
    OBVIOUS
  <2>3. PICK f : f = lock
    OBVIOUS
  <2>4. Table(f) /\ SetsAll(f, g, c, S, x)
    BY <2>1, <2>2, <2>3
  <2>5. Table(g) /\ \A d \in Comms : \A q \in Members[d] : g[d][q] = IF d = c /\ q \in S THEN x ELSE f[d][q]
    BY <2>4, PlacesSet
  <2> QED
    BY <1>1, <2>0, <2>2, <2>3, <2>5 DEF LockIs
<1>2. CASE ~hasLock[c]
  BY <1>2 DEF LockIs
<1> QED
  BY <1>1, <1>2

LEMMA AtPostFacts ==
  ASSUME StreamType, NEW c \in Comms, NEW p \in Members[c], NEW s, AtPost(c, p, s),
         NEW m, m = Head(stream[c][p])
  PROVE  /\ stream[c][p] # <<>> /\ stream[c][p] \in Seq(Cmds) /\ m = stream[c][p][1] /\ 1 \in DOMAIN stream[c][p]
         /\ m \in Cmds /\ m.do = "post" /\ m.kind \in Posts /\ m.n \in Nat /\ m.peer \in Procs
         /\ stage[c][p] = s
<1>1. stream[c][p] # <<>> /\ stream[c][p] \in Seq(Cmds) /\ m.do = "post" /\ stage[c][p] = s
  BY DEF AtPost, StreamType
<1>2. m = stream[c][p][1] /\ 1 \in DOMAIN stream[c][p] /\ m \in Cmds
  BY <1>1, Tailed
<1> QED
  BY <1>1, <1>2 DEF Cmds

LEMMA DataStep ==
  ASSUME StreamType, NEW c \in Comms, NEW p \in Members[c], PostData(c, p),
         NEW m, m = Head(stream[c][p])
  PROVE  /\ AtPost(c, p, "start") /\ Pair(p, m.kind, m.peer).initialized
         /\ hasLock[c] => lock[c][p] = Nobody
         /\ PlaceIs(stage, stage', c, p, "polldata") /\ LockIs(c, p, p)
         /\ WireIs(<<p, m.peer, m.kind>>, <<c, m.n>>)
         /\ UNCHANGED <<stream, cq, landed, flag, sent, HostVars>>
         /\ disturbed' = disturbed \/ disturbed' = disturbed \cup {<<p, m.peer>>}
         /\ (\E d \in Comms \ {c} : p \in Members[d] /\ AtPost(d, p, "polldata")
              /\ Head(stream[d][p]).peer = m.peer /\ Head(stream[d][p]).kind = m.kind)
              => <<p, m.peer>> \in disturbed'
<1>0. Table(stage) /\ Table(lock) /\ wire \in [Qps -> Seq(Comms \X Nat)]
  BY DEF StreamType
<1>1. /\ AtPost(c, p, "start") /\ Pair(p, m.kind, m.peer).initialized
      /\ hasLock[c] => lock[c][p] = Nobody
  BY DEF PostData
<1>2. PlaceIs(stage, stage', c, p, "polldata")
  <2>1. Sets(stage, stage', c, p, "polldata")
    BY DEF PostData, Step, Sets
  <2> QED
    BY <1>0, <2>1, PlaceSet DEF PlaceIs
<1>3. LockIs(c, p, p)
  BY <1>0, LockSteps DEF PostData
<1>4. WireIs(<<p, m.peer, m.kind>>, <<c, m.n>>)
  <2> DEFINE at == <<p, m.peer, m.kind>>
  <2>1. wire' = [wire EXCEPT ![at] = Append(wire[at], <<c, m.n>>)]
    BY DEF PostData
  <2> HIDE DEF at
  <2>2. WireIs(at, <<c, m.n>>)
    BY <1>0, <2>1 DEF WireIs
  <2> QED
    BY <2>2 DEF at
<1>5. UNCHANGED <<stream, cq, landed, flag, sent, HostVars>>
  BY DEF PostData, HostVars
<1>6. /\ disturbed' = disturbed \/ disturbed' = disturbed \cup {<<p, m.peer>>}
      /\ (\E d \in Comms \ {c} : p \in Members[d] /\ AtPost(d, p, "polldata")
              /\ Head(stream[d][p]).peer = m.peer /\ Head(stream[d][p]).kind = m.kind)
              => <<p, m.peer>> \in disturbed'
  BY DEF PostData
<1> QED
  BY <1>1, <1>2, <1>3, <1>4, <1>5, <1>6

LEMMA PollStep ==
  ASSUME cq \in [Qps -> Nat], NEW at, Poll(at)
  PROVE  /\ cq' \in [Qps -> Nat] /\ Polled(at)
         /\ disturbed \subseteq disturbed'
<1>1. CASE /\ cq[at] > 0 /\ cq' = [cq EXCEPT ![at] = @ - 1] /\ disturbed' = disturbed
  <2>0. cq' = [cq EXCEPT ![at] = cq[at] - 1]
    BY <1>1
  <2>1. CqLess(at)
    BY <2>0 DEF CqLess
  <2>2. CASE at \in Qps
    <3>1. cq[at] \in Nat /\ cq[at] > 0
      BY <1>1, <2>2
    <3>2. cq[at] - 1 \in Nat
      BY <3>1
    <3>3. cq' \in [Qps -> Nat]
      BY <2>0, <3>2
    <3> QED
      BY <1>1, <2>1, <3>3 DEF Polled
  <2>3. CASE at \notin Qps
    <3>1. cq' = cq
      BY <2>0, <2>3
    <3> QED
      BY <1>1, <2>1, <3>1 DEF Polled
  <2> QED
    BY <2>2, <2>3
<1>2. CASE disturbed' = disturbed \cup {<<at[1], at[2]>>} /\ cq' = cq
  BY <1>2 DEF Polled
<1> QED
  BY <1>1, <1>2 DEF Poll

LEMMA FlagStep ==
  ASSUME StreamType, NEW c \in Comms, NEW p \in Members[c], PostFlag(c, p),
         NEW m, m = Head(stream[c][p])
  PROVE  /\ AtPost(c, p, "polldata") /\ Pair(p, c, m.peer).initialized
         /\ PlaceIs(stage, stage', c, p, "pollflag")
         /\ WireIs(<<p, m.peer, c>>, <<c, m.n>>)
         /\ cq' \in [Qps -> Nat] /\ Polled(<<p, m.peer, m.kind>>) /\ disturbed \subseteq disturbed'
         /\ UNCHANGED <<stream, lock, landed, flag, sent, HostVars>>
<1>0. Table(stage) /\ wire \in [Qps -> Seq(Comms \X Nat)] /\ cq \in [Qps -> Nat]
  BY DEF StreamType
<1>1. AtPost(c, p, "polldata") /\ Pair(p, c, m.peer).initialized
  BY DEF PostFlag
<1>2. PlaceIs(stage, stage', c, p, "pollflag")
  <2>1. Sets(stage, stage', c, p, "pollflag")
    BY DEF PostFlag, Step, Sets
  <2> QED
    BY <1>0, <2>1, PlaceSet DEF PlaceIs
<1>3. WireIs(<<p, m.peer, c>>, <<c, m.n>>)
  <2> DEFINE at == <<p, m.peer, c>>
  <2>1. wire' = [wire EXCEPT ![at] = Append(wire[at], <<c, m.n>>)]
    BY DEF PostFlag
  <2> HIDE DEF at
  <2>2. WireIs(at, <<c, m.n>>)
    BY <1>0, <2>1 DEF WireIs
  <2> QED
    BY <2>2 DEF at
<1>4. cq' \in [Qps -> Nat] /\ Polled(<<p, m.peer, m.kind>>) /\ disturbed \subseteq disturbed'
  <2> DEFINE at == <<p, m.peer, m.kind>>
  <2>1. Poll(at)
    BY DEF PostFlag
  <2> HIDE DEF at
  <2>2. cq' \in [Qps -> Nat] /\ Polled(at) /\ disturbed \subseteq disturbed'
    BY <1>0, <2>1, PollStep
  <2> QED
    BY <2>2 DEF at
<1>5. UNCHANGED <<stream, lock, landed, flag, sent, HostVars>>
  BY DEF PostFlag, HostVars
<1> QED
  BY <1>1, <1>2, <1>3, <1>4, <1>5

LEMMA DoneStep ==
  ASSUME StreamType, NEW c \in Comms, NEW p \in Members[c], PostDone(c, p),
         NEW m, m = Head(stream[c][p]), NEW s, s = Tail(stream[c][p])
  PROVE  /\ AtPost(c, p, "pollflag")
         /\ PlaceIs(stage, stage', c, p, "start") /\ PlaceIs(stream, stream', c, p, s)
         /\ LockIs(c, p, Nobody)
         /\ cq' \in [Qps -> Nat] /\ Polled(<<p, m.peer, c>>) /\ disturbed \subseteq disturbed'
         /\ UNCHANGED <<wire, landed, flag, sent, HostVars>>
<1>0. Table(stage) /\ Table(stream) /\ Table(lock) /\ cq \in [Qps -> Nat]
  BY DEF StreamType
<1>1. AtPost(c, p, "pollflag")
  BY DEF PostDone
<1>2. PlaceIs(stage, stage', c, p, "start")
  <2>1. Sets(stage, stage', c, p, "start")
    BY DEF PostDone, Step, Sets
  <2> QED
    BY <1>0, <2>1, PlaceSet DEF PlaceIs
<1>3. PlaceIs(stream, stream', c, p, s)
  <2>1. Sets(stream, stream', c, p, s)
    BY DEF PostDone, Sets
  <2> QED
    BY <1>0, <2>1, PlaceSet DEF PlaceIs
<1>4. LockIs(c, p, Nobody)
  BY <1>0, LockSteps DEF PostDone
<1>5. cq' \in [Qps -> Nat] /\ Polled(<<p, m.peer, c>>) /\ disturbed \subseteq disturbed'
  <2> DEFINE at == <<p, m.peer, c>>
  <2>1. Poll(at)
    BY DEF PostDone
  <2> HIDE DEF at
  <2>2. cq' \in [Qps -> Nat] /\ Polled(at) /\ disturbed \subseteq disturbed'
    BY <1>0, <2>1, PollStep
  <2> QED
    BY <2>2 DEF at
<1>6. UNCHANGED <<wire, landed, flag, sent, HostVars>>
  BY DEF PostDone, HostVars
<1> QED
  BY <1>1, <1>2, <1>3, <1>4, <1>5, <1>6

LEMMA WaitStep ==
  ASSUME StreamType, NEW c \in Comms, NEW p \in Members[c], WaitFlag(c, p),
         NEW s, s = Tail(stream[c][p])
  PROVE  /\ stream[c][p] # <<>> /\ Head(stream[c][p]).do = "wait"
         /\ PlaceIs(stream, stream', c, p, s)
         /\ UNCHANGED <<stage, lock, wire, cq, landed, flag, sent, disturbed, HostVars>>
<1>0. Table(stream)
  BY DEF StreamType
<1>1. stream[c][p] # <<>> /\ Head(stream[c][p]).do = "wait"
  BY DEF WaitFlag
<1>2. Sets(stream, stream', c, p, s)
  BY DEF WaitFlag, Sets
<1>3. PlaceIs(stream, stream', c, p, s)
  BY <1>0, <1>2, PlaceSet DEF PlaceIs
<1>4. UNCHANGED <<stage, lock, wire, cq, landed, flag, sent, disturbed, HostVars>>
  BY DEF WaitFlag, HostVars, post
<1> QED
  BY <1>1, <1>3, <1>4

LEMMA DeliverStep ==
  ASSUME StreamType, NEW at \in Qps, Deliver(at), NEW c, c = Head(wire[at])[1], NEW n, n = Head(wire[at])[2],
         NEW q, q = Pair(at[1], at[3], at[2]).send.remote[1]
  PROVE  /\ wire[at] # <<>> /\ c \in Comms /\ n \in Nat /\ Head(wire[at]) = <<c, n>>
         /\ \A qp \in Qps : wire'[qp] = IF qp = at THEN Tail(wire[qp]) ELSE wire[qp]
         /\ cq' \in [Qps -> Nat] /\ CqMore(at)
         /\ at[3] \in Comms => /\ \A x \in Routes : flag'[x] = IF x = <<c, at[1], q>> THEN n ELSE flag[x]
                               /\ landed' = landed
         /\ at[3] \notin Comms => flag' = flag /\ landed' = landed \cup {<<c, at[1], q, n>>}
         /\ flag' \in [Routes -> Nat]
         /\ UNCHANGED <<stream, stage, lock, sent, disturbed, HostVars>>
<1>0. wire \in [Qps -> Seq(Comms \X Nat)] /\ cq \in [Qps -> Nat] /\ flag \in [Routes -> Nat]
  BY DEF StreamType
<1>1. wire[at] # <<>> /\ wire' = [wire EXCEPT ![at] = Tail(wire[at])] /\ cq' = [cq EXCEPT ![at] = cq[at] + 1]
  BY DEF Deliver
<1>2. Head(wire[at]) \in Comms \X Nat
  BY <1>0, <1>1, Tailed
<1>3. c \in Comms /\ n \in Nat /\ Head(wire[at]) = <<c, n>>
  BY <1>2
<1>4. at[3] \in Comms => flag' = [flag EXCEPT ![<<c, at[1], q>>] = n] /\ landed' = landed
  BY DEF Deliver
<1>5. at[3] \notin Comms => flag' = flag /\ landed' = landed \cup {<<c, at[1], q, n>>}
  BY DEF Deliver
<1>6. at[3] \in Comms => \A x \in Routes : flag'[x] = IF x = <<c, at[1], q>> THEN n ELSE flag[x]
  BY <1>0, <1>4
<1>7. flag' \in [Routes -> Nat]
  BY <1>0, <1>3, <1>4, <1>5
<1>8. cq' \in [Qps -> Nat] /\ CqMore(at)
  BY <1>0, <1>1 DEF CqMore
<1>9. \A qp \in Qps : wire'[qp] = IF qp = at THEN Tail(wire[qp]) ELSE wire[qp]
  BY <1>0, <1>1
<1>10. UNCHANGED <<stream, stage, lock, sent, disturbed, HostVars>>
  BY DEF Deliver, HostVars
<1> QED
  BY <1>1, <1>3, <1>4, <1>5, <1>6, <1>7, <1>8, <1>9, <1>10

LEMMA Concat ==
  ASSUME NEW S, NEW a \in Seq(S), NEW b \in Seq(S)
  PROVE  /\ a \o b \in Seq(S) /\ Len(a \o b) = Len(a) + Len(b)
         /\ \A i \in 1 .. Len(a) : (a \o b)[i] = a[i]
         /\ \A i \in 1 .. Len(b) : (a \o b)[Len(a) + i] = b[i]
OBVIOUS

LEMMA NextTo == \A i, m, n \in Nat : n \in {0, 1} /\ i > m /\ i <= m + n => i = m + 1 /\ n = 1
OBVIOUS

\* What a call to post queues.
Queues(old, s, c, p, k, n) ==
  /\ s \in Seq(Cmds)
  /\ \A i \in DOMAIN old : i \in DOMAIN s /\ s[i] = old[i]
  /\ \A i \in DOMAIN s : i > Len(old) =>
       s[i].do # "post" \/ (i = Len(old) + 1 /\ s[i] = Post(nextOf[c][p], k, n) /\ nextOf[c][p] \in IbPeers[c][p])
  /\ nextOf[c][p] \in IbPeers[c][p] =>
       Len(old) + 1 \in DOMAIN s /\ s[Len(old) + 1] = Post(nextOf[c][p], k, n)
LEMMA QueueStep ==
  ASSUME HostType, CtlInv, StreamType, NEW p \in Procs, QueuePost(p), NEW c, c = Current(p)
  PROVE  /\ c \in Comms /\ p \in Members[c] /\ sent[c][p] \in Nat
         /\ PlaceIs(sent, sent', c, p, sent[c][p] + 1)
         /\ \E k \in Posts : \E s : /\ Head(todo[p]) = Call(k, c) /\ PlaceIs(stream, stream', c, p, s)
                                    /\ Queues(stream[c][p], s, c, p, k, sent[c][p] + 1)
         /\ UNCHANGED <<stage, lock, wire, cq, landed, flag, disturbed, pair>>
<1>1. todo[p] # <<>>
  BY DEF QueuePost, Doing
<1>2. c \in Comms /\ p \in Members[c] /\ Head(todo[p]) \in Calls
  BY <1>1, CallFacts
<1>3. Table(stream) /\ Table(sent) /\ stream[c][p] \in Seq(Cmds) /\ sent[c][p] \in Nat
  BY <1>2 DEF StreamType
<1>4. PICK n : n = sent[c][p] + 1
  OBVIOUS
<1>5. PlaceIs(sent, sent', c, p, n)
  <2>1. Sets(sent, sent', c, p, n)
    BY <1>4 DEF QueuePost, Sets
  <2> QED
    BY <1>2, <1>3, <2>1, PlaceSet DEF PlaceIs
<1>6. PICK k \in Posts :
        /\ Doing(p, k)
        /\ stream' = [stream EXCEPT ![c][p] = stream[c][p]
             \o (IF nextOf[c][p] \in IbPeers[c][p] THEN <<Post(nextOf[c][p], k, n)>> ELSE <<>>)
             \o (IF prevOf[c][p] \in IbPeers[c][p] THEN <<Wait(prevOf[c][p], n)>> ELSE <<>>)]
  BY <1>4 DEF QueuePost
<1>7. PICK a : a = IF nextOf[c][p] \in IbPeers[c][p] THEN <<Post(nextOf[c][p], k, n)>> ELSE <<>>
  OBVIOUS
<1>8. PICK b : b = IF prevOf[c][p] \in IbPeers[c][p] THEN <<Wait(prevOf[c][p], n)>> ELSE <<>>
  OBVIOUS
<1>9. PICK old : old = stream[c][p]
  OBVIOUS
<1>10. PICK s : s = (old \o a) \o b
  OBVIOUS
<1>11. PlaceIs(stream, stream', c, p, s)
  <2>1. Sets(stream, stream', c, p, s)
    BY <1>6, <1>7, <1>8, <1>9, <1>10 DEF Sets
  <2> QED
    BY <1>2, <1>3, <2>1, PlaceSet DEF PlaceIs
<1>12. Queues(old, s, c, p, k, n)
  <2>1. nextOf[c][p] \in Procs /\ prevOf[c][p] \in Procs
    BY <1>2, RingFacts, CommFacts
  <2>2. n \in Nat
    BY <1>3, <1>4
  <2>3. Post(nextOf[c][p], k, n) \in Cmds /\ Wait(prevOf[c][p], n) \in Cmds /\ Wait(prevOf[c][p], n).do # "post"
    BY <2>1, <2>2 DEF Post, Wait, Cmds
  <2>4. PICK x : x = Post(nextOf[c][p], k, n)
    OBVIOUS
  <2>5. PICK y : y = Wait(prevOf[c][p], n)
    OBVIOUS
  <2>6. /\ a \in Seq(Cmds) /\ Len(a) \in {0, 1} /\ (Len(a) = 1 => a[1] = x /\ nextOf[c][p] \in IbPeers[c][p])
        /\ nextOf[c][p] \in IbPeers[c][p] => Len(a) = 1
    BY <1>7, <2>3, <2>4
  <2>7. b \in Seq(Cmds) /\ Len(b) \in {0, 1} /\ (Len(b) = 1 => b[1] = y)
    BY <1>8, <2>3, <2>5
  <2>8. old \in Seq(Cmds)
    BY <1>3, <1>9
  <2>9. PICK m : m = old \o a
    OBVIOUS
  <2>10. /\ m \in Seq(Cmds) /\ Len(m) = Len(old) + Len(a)
         /\ \A i \in 1 .. Len(old) : m[i] = old[i]
         /\ Len(a) = 1 => m[Len(old) + 1] = x
    <3>1. /\ m \in Seq(Cmds) /\ Len(m) = Len(old) + Len(a)
          /\ \A i \in 1 .. Len(old) : m[i] = old[i]
          /\ \A i \in 1 .. Len(a) : m[Len(old) + i] = a[i]
      BY <2>6, <2>8, <2>9, Concat
    <3> QED
      BY <2>6, <3>1
  <2>11. /\ s \in Seq(Cmds) /\ Len(s) = Len(m) + Len(b)
         /\ \A i \in 1 .. Len(m) : s[i] = m[i]
         /\ Len(b) = 1 => s[Len(m) + 1] = y
    <3>1. /\ s \in Seq(Cmds) /\ Len(s) = Len(m) + Len(b)
          /\ \A i \in 1 .. Len(m) : s[i] = m[i]
          /\ \A i \in 1 .. Len(b) : s[Len(m) + i] = b[i]
      BY <1>10, <2>7, <2>9, <2>10, Concat
    <3> QED
      BY <2>7, <3>1
  <2>12. /\ Len(old) \in Nat /\ Len(m) \in Nat /\ Len(s) \in Nat
         /\ DOMAIN old = 1 .. Len(old) /\ DOMAIN s = 1 .. Len(s)
    BY <2>8, <2>10, <2>11
  <2>13. \A i \in DOMAIN old : i \in DOMAIN s /\ s[i] = old[i]
    BY <2>6, <2>7, <2>10, <2>11, <2>12
  <2>14. Len(a) = 1 => Len(old) + 1 \in DOMAIN s /\ s[Len(old) + 1] = x
    BY <2>6, <2>7, <2>10, <2>11, <2>12
  <2>15. ASSUME NEW i \in DOMAIN s, i > Len(old)
         PROVE  s[i].do # "post" \/ (i = Len(old) + 1 /\ s[i] = x /\ nextOf[c][p] \in IbPeers[c][p])
    <3>0. i \in Nat /\ 1 <= i /\ i <= Len(s) /\ Len(a) \in Nat /\ Len(b) \in Nat
      <4>1. i \in 1 .. Len(s)
        BY <2>12
      <4>2. Len(a) \in Nat /\ Len(b) \in Nat
        BY <2>6, <2>7
      <4> QED
        BY <2>12, <4>1, <4>2
    <3>1. CASE i \in 1 .. Len(m)
      <4>0. i <= Len(old) + Len(a)
        BY <2>10, <3>1
      <4>1. i = Len(old) + 1 /\ Len(a) = 1
        BY <2>6, <2>12, <2>15, <3>0, <4>0, NextTo
      <4> QED
        BY <2>6, <2>14, <4>1
    <3>2. CASE i \notin 1 .. Len(m)
      <4>0. i > Len(m) /\ i <= Len(m) + Len(b)
        BY <2>11, <2>12, <3>0, <3>2
      <4>1. i = Len(m) + 1 /\ Len(b) = 1
        BY <2>7, <2>12, <3>0, <4>0, NextTo
      <4>2. s[i] = y
        BY <2>11, <4>1
      <4> QED
        BY <2>3, <2>5, <4>2
    <3> QED
      BY <3>1, <3>2
  <2> QED
    BY <2>4, <2>6, <2>11, <2>13, <2>14, <2>15 DEF Queues
<1>13. Head(todo[p]) = Call(k, c)
  BY <1>2, <1>6, Zenon DEF Doing, Call, Calls, Current
<1>14. UNCHANGED <<stage, lock, wire, cq, landed, flag, disturbed, pair>>
  BY DEF QueuePost, post, handles
<1> QED
  BY <1>2, <1>3, <1>4, <1>5, <1>9, <1>11, <1>12, <1>13, <1>14

LEMMA LockStep ==
  ASSUME HostType, CtlInv, StreamType, NEW p \in Procs, tcclIbHostLockInit(p), NEW c, c = Current(p)
  PROVE  /\ c \in Comms /\ p \in Members[c] /\ Creating(c, p) /\ AllGave(c, p, Members[c]) /\ pc[p] = "lock"
         /\ LockIs(c, p, Nobody)
         /\ UNCHANGED <<stream, stage, wire, cq, landed, flag, sent, disturbed, pair>>
<1>1. Doing(p, "create") /\ pc[p] = "lock" /\ AllGave(c, p, Members[c])
  BY DEF tcclIbHostLockInit, CtlInv, Ctl, Gathers
<1>2. c \in Comms /\ p \in Members[c] /\ Head(todo[p]) \in Calls
  BY <1>1, CallFacts DEF Doing
<1>3. Creating(c, p)
  BY <1>1, <1>2 DEF Doing, Creating, Call, Calls, Current
<1>4. LockIs(c, p, Nobody)
  BY <1>2, LockSteps DEF StreamType, tcclIbHostLockInit
<1>5. UNCHANGED <<stream, stage, wire, cq, landed, flag, sent, disturbed, pair>>
  BY DEF tcclIbHostLockInit, post, handles
<1> QED
  BY <1>1, <1>2, <1>3, <1>4, <1>5

LEMMA FiniStep ==
  ASSUME HostType, CtlInv, NEW p \in Procs, tcclAllRankIbFini(p), NEW c, c = Current(p)
  PROVE  /\ c \in Comms /\ p \in Members[c] /\ Head(todo[p]) = Call("destroy", c) /\ stream[c][p] = <<>>
         /\ wire' = [qp \in Qps |-> IF qp[1] = p /\ qp[3] = c THEN <<>> ELSE wire[qp]]
         /\ UNCHANGED <<stream, stage, lock, cq, landed, flag, sent, disturbed>>
<1>1. Doing(p, "destroy")
  BY DEF tcclAllRankIbFini
<1>2. c \in Comms /\ p \in Members[c] /\ Head(todo[p]) \in Calls
  BY <1>1, CallFacts DEF Doing
<1>3. Head(todo[p]) = Call("destroy", c)
  BY <1>1, <1>2 DEF Doing, Call, Calls, Current
<1> QED
  BY <1>2, <1>3 DEF tcclAllRankIbFini

LEMMA QuietStep ==
  ASSUME NEW p, Process(p), ~QueuePost(p), ~tcclAllRankIbFini(p), ~tcclIbHostLockInit(p)
  PROVE  UNCHANGED <<stream, stage, lock, wire, cq, landed, flag, sent, disturbed>>
BY PostChange

\* Types.
LEMMA StreamTypeNext ==
  ASSUME HostType, CtlInv, StreamType, Next
  PROVE  StreamType'
<1>0. /\ Table(stream) /\ Table(stage) /\ Table(sent) /\ Table(lock)
      /\ \A c \in Comms : \A p \in Members[c] : stream[c][p] \in Seq(Cmds) /\ sent[c][p] \in Nat
      /\ wire \in [Qps -> Seq(Comms \X Nat)]
      /\ cq \in [Qps -> Nat] /\ flag \in [Routes -> Nat]
  BY DEF StreamType
<1>1. Table(stage') /\ Table(lock') /\ Table(sent')
      /\ \A c \in Comms : \A p \in Members[c] : sent'[c][p] \in Nat
  <2>1. ASSUME NEW c \in Comms, NEW p \in Members[c], Stream(c, p)
        PROVE  Table(stage') /\ Table(lock') /\ sent' = sent
    <3>1. PICK m, s : m = Head(stream[c][p]) /\ s = Tail(stream[c][p])
      OBVIOUS
    <3>2. PostData(c, p) => Table(stage') /\ Table(lock') /\ sent' = sent
      BY <3>1, DataStep DEF PlaceIs, LockIs
    <3>3. PostFlag(c, p) => Table(stage') /\ lock' = lock /\ sent' = sent
      BY <3>1, FlagStep DEF PlaceIs
    <3>4. PostDone(c, p) => Table(stage') /\ Table(lock') /\ sent' = sent
      BY <3>1, DoneStep DEF PlaceIs, LockIs
    <3>5. WaitFlag(c, p) => stage' = stage /\ lock' = lock /\ sent' = sent
      BY <3>1, WaitStep
    <3> QED
      BY <1>0, <2>1, <3>2, <3>3, <3>4, <3>5 DEF Stream
  <2>2. ASSUME NEW at, Deliver(at)
        PROVE  stage' = stage /\ lock' = lock /\ sent' = sent
    BY <2>2 DEF Deliver
  <2>3. ASSUME NEW p \in Procs, Process(p)
        PROVE  /\ stage' = stage /\ Table(lock') /\ Table(sent')
               /\ \A c \in Comms : \A o \in Members[c] : sent'[c][o] \in Nat
    <3>1. PICK c : c = Current(p)
      OBVIOUS
    <3>2. CASE QueuePost(p)
      <4>1. /\ c \in Comms /\ p \in Members[c] /\ sent[c][p] + 1 \in Nat
            /\ PlaceIs(sent, sent', c, p, sent[c][p] + 1) /\ stage' = stage /\ lock' = lock
        BY <3>1, <3>2, QueueStep
      <4> QED
        BY <1>0, <4>1 DEF PlaceIs
    <3>3. CASE tcclIbHostLockInit(p)
      BY <1>0, <3>1, <3>3, LockStep DEF LockIs
    <3>4. CASE tcclAllRankIbFini(p)
      BY <1>0, <3>1, <3>4, FiniStep
    <3> QED
      BY <1>0, <2>3, <3>2, <3>3, <3>4, QuietStep
  <2> QED
    BY <1>0, <2>1, <2>2, <2>3 DEF Next
<1>2. Table(stream') /\ \A c \in Comms : \A p \in Members[c] : stream'[c][p] \in Seq(Cmds)
  <2>1. ASSUME NEW c \in Comms, NEW p \in Members[c], NEW s \in Seq(Cmds), PlaceIs(stream, stream', c, p, s)
        PROVE  Table(stream') /\ \A d \in Comms : \A q \in Members[d] : stream'[d][q] \in Seq(Cmds)
    BY <1>0, <2>1 DEF PlaceIs
  <2>2. ASSUME NEW c \in Comms, NEW p \in Members[c], Stream(c, p)
        PROVE  stream' = stream \/ \E s \in Seq(Cmds) : PlaceIs(stream, stream', c, p, s)
    <3>1. PICK m, s : m = Head(stream[c][p]) /\ s = Tail(stream[c][p])
      OBVIOUS
    <3>2. stream[c][p] # <<>> => s \in Seq(Cmds)
      BY <1>0, <3>1, Tailed
    <3>3. PostData(c, p) \/ PostFlag(c, p) => stream' = stream
      BY <3>1, DataStep, FlagStep
    <3>4. PostDone(c, p) => stream[c][p] # <<>> /\ PlaceIs(stream, stream', c, p, s)
      BY <3>1, DoneStep DEF AtPost
    <3>5. WaitFlag(c, p) => stream[c][p] # <<>> /\ PlaceIs(stream, stream', c, p, s)
      BY <3>1, WaitStep
    <3> QED
      BY <2>2, <3>2, <3>3, <3>4, <3>5 DEF Stream
  <2>3. ASSUME NEW at, Deliver(at)
        PROVE  stream' = stream
    BY <2>3 DEF Deliver
  <2>4. ASSUME NEW p \in Procs, Process(p)
        PROVE  stream' = stream \/ \E c \in Comms : p \in Members[c] /\ \E s \in Seq(Cmds) : PlaceIs(stream, stream', c, p, s)
    <3>1. PICK c : c = Current(p)
      OBVIOUS
    <3>2. CASE QueuePost(p)
      <4>1. c \in Comms /\ p \in Members[c] /\ \E s \in Seq(Cmds) : PlaceIs(stream, stream', c, p, s)
        BY <3>1, <3>2, QueueStep DEF Queues
      <4> QED
        BY <4>1
    <3> QED
      BY <2>4, <3>2, PostChange
  <2> QED
    BY <1>0, <2>1, <2>2, <2>3, <2>4 DEF Next
<1>3. wire' \in [Qps -> Seq(Comms \X Nat)]
  <2>1. ASSUME NEW c \in Comms, NEW p \in Members[c], Stream(c, p)
        PROVE  wire' \in [Qps -> Seq(Comms \X Nat)]
    <3>1. PICK m : m = Head(stream[c][p])
      OBVIOUS
    <3>2. AtPost(c, p, "start") \/ AtPost(c, p, "polldata") => m.n \in Nat
      BY <3>1, AtPostFacts
    <3>3. PostData(c, p) \/ PostFlag(c, p) => <<c, m.n>> \in Comms \X Nat
      BY <3>2, Zenon DEF PostData, PostFlag
    <3>4. ASSUME NEW at, NEW x \in Comms \X Nat, wire' = [wire EXCEPT ![at] = Append(wire[at], x)]
          PROVE  wire' \in [Qps -> Seq(Comms \X Nat)]
      <4>1. CASE at \in Qps
        <5>1. Append(wire[at], x) \in Seq(Comms \X Nat)
          BY <1>0, <4>1, Appended
        <5> QED
          BY <1>0, <3>4, <5>1
      <4>2. CASE at \notin Qps
        BY <1>0, <3>4, <4>2
      <4> QED
        BY <4>1, <4>2
    <3>5. CASE PostData(c, p)
      <4>1. wire' = [wire EXCEPT ![<<p, m.peer, m.kind>>] = Append(wire[<<p, m.peer, m.kind>>], <<c, m.n>>)]
        BY <3>1, <3>5 DEF PostData
      <4> QED
        BY <3>3, <3>4, <3>5, <4>1
    <3>6. CASE PostFlag(c, p)
      <4>1. wire' = [wire EXCEPT ![<<p, m.peer, c>>] = Append(wire[<<p, m.peer, c>>], <<c, m.n>>)]
        BY <3>1, <3>6 DEF PostFlag
      <4> QED
        BY <3>3, <3>4, <3>6, <4>1
    <3>7. PostDone(c, p) \/ WaitFlag(c, p) => wire' = wire
      BY DEF PostDone, WaitFlag, post
    <3> QED
      BY <1>0, <2>1, <3>5, <3>6, <3>7 DEF Stream
  <2>2. ASSUME NEW at \in Qps, Deliver(at)
        PROVE  wire' \in [Qps -> Seq(Comms \X Nat)]
    <3>1. wire[at] # <<>> /\ wire' = [wire EXCEPT ![at] = Tail(wire[at])]
      BY <2>2 DEF Deliver
    <3>2. Tail(wire[at]) \in Seq(Comms \X Nat)
      BY <1>0, <2>2, <3>1, Tailed
    <3> QED
      BY <1>0, <3>1, <3>2
  <2>3. ASSUME NEW p \in Procs, Process(p)
        PROVE  wire' \in [Qps -> Seq(Comms \X Nat)]
    <3>1. CASE tcclAllRankIbFini(p)
      <4>1. PICK c : c = Current(p)
        OBVIOUS
      <4>2. wire' = [qp \in Qps |-> IF qp[1] = p /\ qp[3] = c THEN <<>> ELSE wire[qp]]
        BY <3>1, <4>1, FiniStep
      <4> QED
        BY <1>0, <4>2
    <3> QED
      BY <1>0, <2>3, <3>1, PostChange
  <2> QED
    BY <1>0, <2>1, <2>2, <2>3 DEF Next
<1>4. cq' \in [Qps -> Nat] /\ flag' \in [Routes -> Nat]
  <2>1. ASSUME NEW c \in Comms, NEW p \in Members[c], Stream(c, p)
        PROVE  cq' \in [Qps -> Nat] /\ flag' = flag
    <3>1. PICK m, s : m = Head(stream[c][p]) /\ s = Tail(stream[c][p])
      OBVIOUS
    <3>2. PostData(c, p) \/ WaitFlag(c, p) => cq' = cq /\ flag' = flag
      BY <3>1, DataStep, WaitStep
    <3>3. PostFlag(c, p) \/ PostDone(c, p) => cq' \in [Qps -> Nat] /\ flag' = flag
      BY <3>1, FlagStep, DoneStep
    <3> QED
      BY <1>0, <2>1, <3>2, <3>3 DEF Stream
  <2>2. ASSUME NEW at \in Qps, Deliver(at)
        PROVE  cq' \in [Qps -> Nat] /\ flag' \in [Routes -> Nat]
    <3>1. PICK c, n, q : /\ c = Head(wire[at])[1] /\ n = Head(wire[at])[2]
                         /\ q = Pair(at[1], at[3], at[2]).send.remote[1]
      OBVIOUS
    <3> QED
      BY <2>2, <3>1, DeliverStep
  <2>3. ASSUME NEW p \in Procs, Process(p)
        PROVE  cq' = cq /\ flag' = flag
    BY <2>3, PostChange
  <2> QED
    BY <1>0, <2>1, <2>2, <2>3 DEF Next
<1> QED
  BY <1>1, <1>2, <1>3, <1>4 DEF StreamType

-----------------------------------------------------------------------------
(* What is queued.                                                         *)

\* Nothing is posted on a communicator before it is made.
LEMMA FreshBack ==
  ASSUME HostType, CtlInv, Next, NEW c, NEW p \in Procs, Fresh(c, p)'
  PROVE  Fresh(c, p)
<1>1. UNCHANGED todo \/ (todo[p] # <<>> /\ todo'[p] = Tail(todo[p])) \/ todo'[p] = todo[p]
  <2>1. ASSUME NEW o \in Procs, Process(o)
        PROVE  (todo[p] # <<>> /\ todo'[p] = Tail(todo[p])) \/ todo'[p] = todo[p]
    <3>1. todo' = [todo EXCEPT ![o] = todo'[o]] /\ (todo'[o] = todo[o] \/ (todo[o] # <<>> /\ todo'[o] = Tail(todo[o])))
      BY <2>1, OwnCourse
    <3>2. CASE o = p
      BY <3>1, <3>2
    <3>3. CASE o # p
      BY <3>1, <3>3 DEF HostType
    <3> QED
      BY <3>2, <3>3
  <2>2. (~ \E o \in Procs : Process(o)) => UNCHANGED todo
    BY OthersHost DEF HostVars
  <2> QED
    BY <2>1, <2>2
<1>2. \A i \in DOMAIN todo'[p] : \E j \in DOMAIN todo[p] : todo'[p][i] = todo[p][j]
  <2>1. CASE UNCHANGED todo \/ (todo[p] # <<>> /\ todo'[p] = Tail(todo[p]))
    BY <2>1, Course
  <2>2. CASE todo'[p] = todo[p]
    BY <2>2
  <2> QED
    BY <1>1, <2>1, <2>2
<1> QED
  BY <1>2 DEF Fresh

LEMMA Posting ==
  ASSUME HostType, CtlInv, TodoInv, BoxInv, NEW p \in Procs, QueuePost(p), NEW c, c = Current(p)
  PROVE  ~Fresh(c, p) /\ Settled(c, p) /\ NextReady(c, p)
<1>1. todo[p] # <<>> /\ Head(todo[p]).do \in Posts
  BY DEF QueuePost, Doing
<1>2. /\ Head(todo[p]) = todo[p][1] /\ 1 \in DOMAIN todo[p] /\ todo[p][1].comm = c
      /\ c \in Comms /\ p \in Members[c]
  BY <1>1, CallFacts DEF Current
<1>3. todo[p] \in Seq(Calls)
  BY DEF HostType
<1>4. ~Fresh(c, p)
  <2>1. ASSUME NEW j \in DOMAIN todo[p], todo[p][j] = Call("create", c)
        PROVE  FALSE
    <3>1. todo[p][j].do = "create" /\ todo[p][j].comm = c
      BY <2>1 DEF Call
    <3>2. j # 1
      BY <1>1, <1>2, <3>1 DEF Posts
    <3>3. j \in Nat /\ 1 < j
      BY <1>3, <3>2
    <3> QED
      BY <1>2, <3>1, <3>3 DEF TodoInv, Todo
  <2> QED
    BY <2>1 DEF Fresh
<1>5. Settled(c, p)
  <2>1. BoxAt(c, p)
    BY <1>2 DEF BoxInv
  <2> QED
    BY <1>2, <1>4, <2>1 DEF BoxAt
<1>6. NextReady(c, p)
  <2>1. \A j : j \notin 1 .. 1 - 1
    OBVIOUS
  <2> QED
    BY <1>1, <1>2, <2>1 DEF TodoInv, Todo
<1> QED
  BY <1>4, <1>5, <1>6

\* Posts go to the next process, each with the number after that before it.
InTurn(c, p, s, n) ==
  /\ \A i \in DOMAIN s : s[i].do = "post" =>
       /\ s[i].peer = nextOf[c][p] /\ nextOf[c][p] \in IbPeers[c][p] /\ s[i].n \in 1 .. n
       /\ \A j \in DOMAIN s : i < j /\ s[j].do = "post" => s[i].n < s[j].n

LEMMA InTurnTail ==
  ASSUME NEW c, NEW p, NEW s \in Seq(Cmds), s # <<>>, NEW n, InTurn(c, p, s, n)
  PROVE  InTurn(c, p, Tail(s), n)
<1>1. PICK t : t = Tail(s)
  OBVIOUS
<1>2. \A i \in DOMAIN t : i \in Nat /\ i + 1 \in DOMAIN s /\ t[i] = s[i + 1]
  BY <1>1, Tailed
<1>3. InTurn(c, p, t, n)
  <2>1. SUFFICES ASSUME NEW i \in DOMAIN t, t[i].do = "post"
                 PROVE  /\ t[i].peer = nextOf[c][p] /\ nextOf[c][p] \in IbPeers[c][p] /\ t[i].n \in 1 .. n
                        /\ \A j \in DOMAIN t : i < j /\ t[j].do = "post" => t[i].n < t[j].n
    BY DEF InTurn
  <2>2. i \in Nat /\ i + 1 \in DOMAIN s /\ t[i] = s[i + 1]
    BY <1>2
  <2>3. t[i].peer = nextOf[c][p] /\ nextOf[c][p] \in IbPeers[c][p] /\ t[i].n \in 1 .. n
    BY <2>1, <2>2 DEF InTurn
  <2>4. ASSUME NEW j \in DOMAIN t, i < j, t[j].do = "post"
        PROVE  t[i].n < t[j].n
    <3>1. j \in Nat /\ j + 1 \in DOMAIN s /\ t[j] = s[j + 1] /\ i + 1 < j + 1
      BY <1>2, <2>2, <2>4
    <3> QED
      BY <2>1, <2>2, <2>4, <3>1 DEF InTurn
  <2> QED
    BY <2>3, <2>4
<1> QED
  BY <1>1, <1>3

LEMMA InTurnQueued ==
  ASSUME NEW c, NEW p, NEW old \in Seq(Cmds), NEW n \in Nat, InTurn(c, p, old, n),
         NEW s, NEW k, Queues(old, s, c, p, k, n + 1)
  PROVE  InTurn(c, p, s, n + 1)
<1>1. SUFFICES ASSUME NEW i \in DOMAIN s, s[i].do = "post"
               PROVE  /\ s[i].peer = nextOf[c][p] /\ nextOf[c][p] \in IbPeers[c][p] /\ s[i].n \in 1 .. n + 1
                      /\ \A j \in DOMAIN s : i < j /\ s[j].do = "post" => s[i].n < s[j].n
  BY DEF InTurn
<1>2. Len(old) \in Nat /\ DOMAIN old = 1 .. Len(old) /\ \A j \in DOMAIN s : j \in Nat \ {0}
  BY DEF Queues
<1>3. ASSUME NEW j \in DOMAIN s, s[j].do = "post", j > Len(old)
      PROVE  /\ j = Len(old) + 1 /\ nextOf[c][p] \in IbPeers[c][p]
             /\ s[j].n = n + 1 /\ s[j].peer = nextOf[c][p]
  BY <1>3 DEF Queues, Post
<1>4. CASE i \in DOMAIN old
  <2>1. s[i] = old[i]
    BY <1>4 DEF Queues
  <2>2. /\ s[i].peer = nextOf[c][p] /\ nextOf[c][p] \in IbPeers[c][p] /\ s[i].n \in 1 .. n
    BY <1>1, <1>4, <2>1 DEF InTurn
  <2>3. ASSUME NEW j \in DOMAIN s, i < j, s[j].do = "post"
        PROVE  s[i].n < s[j].n
    <3>1. CASE j \in DOMAIN old
      <4>1. s[j] = old[j]
        BY <3>1 DEF Queues
      <4> QED
        BY <1>1, <1>4, <2>1, <2>3, <3>1, <4>1 DEF InTurn
    <3>2. CASE j \notin DOMAIN old
      <4>1. j > Len(old)
        BY <1>2, <3>2
      <4> QED
        BY <1>3, <2>2, <2>3, <4>1
    <3> QED
      BY <3>1, <3>2
  <2> QED
    BY <2>2, <2>3
<1>5. CASE i \notin DOMAIN old
  <2>1. i > Len(old)
    BY <1>2, <1>5
  <2>2. /\ i = Len(old) + 1 /\ nextOf[c][p] \in IbPeers[c][p]
        /\ s[i].n = n + 1 /\ s[i].peer = nextOf[c][p]
    BY <1>1, <1>3, <2>1
  <2>3. ASSUME NEW j \in DOMAIN s, i < j, s[j].do = "post"
        PROVE  FALSE
    <3>1. j > Len(old) /\ j # Len(old) + 1
      BY <1>2, <2>2, <2>3
    <3> QED
      BY <1>3, <2>3, <3>1
  <2> QED
    BY <2>2, <2>3
<1> QED
  BY <1>4, <1>5

\* How a process's posts on a communicator change in a step.
LEMMA PlaceChange ==
  ASSUME HostType, CtlInv, StreamType, Next, NEW c \in Comms, NEW p \in Members[c]
  PROVE  \/ /\ stream'[c][p] = stream[c][p] /\ sent'[c][p] = sent[c][p]
            /\ stage'[c][p] = stage[c][p] \/ PostData(c, p) \/ PostFlag(c, p)
         \/ /\ stream[c][p] # <<>> /\ stream'[c][p] = Tail(stream[c][p]) /\ sent'[c][p] = sent[c][p]
            /\ PostDone(c, p) \/ WaitFlag(c, p)
         \/ QueuePost(p) /\ c = Current(p)
<1>0. p \in Procs
  BY CommFacts
<1>1. ASSUME NEW d \in Comms, NEW o \in Members[d], Stream(d, o)
      PROVE  /\ sent'[c][p] = sent[c][p]
             /\ \/ /\ stream'[c][p] = stream[c][p]
                   /\ stage'[c][p] = stage[c][p] \/ PostData(c, p) \/ PostFlag(c, p)
                \/ /\ stream[c][p] # <<>> /\ stream'[c][p] = Tail(stream[c][p])
                   /\ PostDone(c, p) \/ WaitFlag(c, p)
  <2>1. PICK m, s : m = Head(stream[d][o]) /\ s = Tail(stream[d][o])
    OBVIOUS
  <2>2. CASE PostData(d, o)
    <3>1. PlaceIs(stage, stage', d, o, "polldata") /\ stream' = stream /\ sent' = sent
      BY <2>1, <2>2, DataStep
    <3> QED
      BY <2>2, <3>1 DEF PlaceIs
  <2>3. CASE PostFlag(d, o)
    <3>1. PlaceIs(stage, stage', d, o, "pollflag") /\ stream' = stream /\ sent' = sent
      BY <2>1, <2>3, FlagStep
    <3> QED
      BY <2>3, <3>1 DEF PlaceIs
  <2>4. CASE PostDone(d, o)
    <3>1. /\ stream[d][o] # <<>> /\ PlaceIs(stage, stage', d, o, "start") /\ PlaceIs(stream, stream', d, o, s)
          /\ sent' = sent
      BY <2>1, <2>4, DoneStep DEF AtPost
    <3> QED
      BY <2>1, <2>4, <3>1 DEF PlaceIs
  <2>5. CASE WaitFlag(d, o)
    <3>1. /\ stream[d][o] # <<>> /\ stage' = stage /\ PlaceIs(stream, stream', d, o, s)
          /\ sent' = sent
      BY <2>1, <2>5, WaitStep
    <3> QED
      BY <2>1, <2>5, <3>1 DEF PlaceIs
  <2> QED
    BY <1>1, <2>2, <2>3, <2>4, <2>5 DEF Stream
<1>2. ASSUME NEW at, Deliver(at)
      PROVE  UNCHANGED <<stream, stage, sent>>
  BY <1>2 DEF Deliver
<1>3. ASSUME NEW o \in Procs, Process(o)
      PROVE  \/ stream'[c][p] = stream[c][p] /\ sent'[c][p] = sent[c][p] /\ stage'[c][p] = stage[c][p]
             \/ QueuePost(p) /\ c = Current(p)
  <2>1. CASE QueuePost(o)
    <3>1. PICK d : d = Current(o)
      OBVIOUS
    <3>2. /\ \E x : PlaceIs(sent, sent', d, o, x)
          /\ \E x : PlaceIs(stream, stream', d, o, x)
          /\ stage' = stage
      BY <2>1, <3>1, QueueStep
    <3> QED
      BY <2>1, <3>1, <3>2 DEF PlaceIs
  <2> QED
    BY <1>3, <2>1, PostChange
<1> QED
  BY <1>1, <1>2, <1>3 DEF Next

LEMMA PostNext ==
  ASSUME PairsInv, TodoInv, StreamType, PostInv, Next
  PROVE  PostInv'
<1>0. /\ HostType /\ BoxType /\ CtlInv /\ PairType /\ OwnInv /\ BoxInv /\ SessionInv
  BY DEF PairsInv
<1> SUFFICES ASSUME NEW c \in Comms, NEW p \in Members[c]
             PROVE  /\ InTurn(c, p, stream'[c][p], sent'[c][p])
                    /\ stage'[c][p] \in {"start", "polldata", "pollflag"}
                    /\ stage'[c][p] # "start" => stream'[c][p] # <<>> /\ Head(stream'[c][p]).do = "post"
                    /\ stream'[c][p] # <<>> => Settled(c, p)'
                    /\ HasPost(c, p)' \/ wire'[FlagQp(c, p)] # <<>> => NextReady(c, p)'
                    /\ Fresh(c, p)' => stream'[c][p] = <<>> /\ wire'[FlagQp(c, p)] = <<>>
  BY DEF PostInv, InTurn, FlagQp
<1>1. /\ InTurn(c, p, stream[c][p], sent[c][p])
      /\ stage[c][p] \in {"start", "polldata", "pollflag"}
      /\ stage[c][p] # "start" => stream[c][p] # <<>> /\ Head(stream[c][p]).do = "post"
      /\ stream[c][p] # <<>> => Settled(c, p)
      /\ HasPost(c, p) \/ wire[FlagQp(c, p)] # <<>> => NextReady(c, p)
      /\ Fresh(c, p) => stream[c][p] = <<>> /\ wire[FlagQp(c, p)] = <<>>
  BY DEF PostInv, InTurn
<1>2. p \in Procs /\ stream[c][p] \in Seq(Cmds) /\ sent[c][p] \in Nat
  BY CommFacts DEF StreamType
<1>3. Fresh(c, p)' => Fresh(c, p)
  BY <1>0, <1>2, FreshBack
<1>4. QueuePost(p) /\ c = Current(p) => ~Fresh(c, p) /\ Settled(c, p) /\ NextReady(c, p)
  BY <1>0, <1>2, Posting
<1>5. /\ InTurn(c, p, stream'[c][p], sent'[c][p])
      /\ stage'[c][p] \in {"start", "polldata", "pollflag"}
      /\ stage'[c][p] # "start" => stream'[c][p] # <<>> /\ Head(stream'[c][p]).do = "post"
  <2>1. CASE QueuePost(p) /\ c = Current(p)
    <3>1. PICK k, s : /\ PlaceIs(sent, sent', c, p, sent[c][p] + 1) /\ PlaceIs(stream, stream', c, p, s)
                      /\ Queues(stream[c][p], s, c, p, k, sent[c][p] + 1) /\ stage' = stage
      BY <1>0, <1>2, <2>1, QueueStep
    <3>2. stream'[c][p] = s /\ sent'[c][p] = sent[c][p] + 1
      BY <3>1 DEF PlaceIs
    <3>3. InTurn(c, p, s, sent[c][p] + 1)
      BY <1>1, <1>2, <3>1, InTurnQueued
    <3>4. stream[c][p] # <<>> => s # <<>> /\ Head(s) = Head(stream[c][p])
      <4>1. SUFFICES ASSUME stream[c][p] # <<>>
                     PROVE  s # <<>> /\ Head(s) = Head(stream[c][p])
        OBVIOUS
      <4>2. 1 \in DOMAIN stream[c][p] /\ Head(stream[c][p]) = stream[c][p][1]
        BY <1>2, <4>1, Tailed
      <4>3. 1 \in DOMAIN s /\ s[1] = stream[c][p][1] /\ s \in Seq(Cmds)
        BY <3>1, <4>2 DEF Queues
      <4>4. s # <<>>
        BY <4>3
      <4> QED
        BY <4>2, <4>3, <4>4, Tailed
    <3> QED
      BY <1>1, <3>1, <3>2, <3>3, <3>4
  <2>2. CASE /\ stream[c][p] # <<>> /\ stream'[c][p] = Tail(stream[c][p]) /\ sent'[c][p] = sent[c][p]
             /\ PostDone(c, p) \/ WaitFlag(c, p)
    <3>1. InTurn(c, p, stream'[c][p], sent'[c][p])
      BY <1>1, <1>2, <2>2, InTurnTail
    <3>2. stage'[c][p] = "start"
      <4>1. CASE PostDone(c, p)
        <5>1. PlaceIs(stage, stage', c, p, "start")
          <6>1. PICK m, s : m = Head(stream[c][p]) /\ s = Tail(stream[c][p])
            OBVIOUS
          <6> QED
            BY <4>1, <6>1, DoneStep
        <5> QED
          BY <5>1 DEF PlaceIs
      <4>2. CASE WaitFlag(c, p)
        <5>1. Head(stream[c][p]).do = "wait" /\ stage' = stage
          <6>1. PICK s : s = Tail(stream[c][p])
            OBVIOUS
          <6> QED
            BY <4>2, <6>1, WaitStep
        <5> QED
          BY <1>1, <5>1
      <4> QED
        BY <2>2, <4>1, <4>2
    <3> QED
      BY <3>1, <3>2
  <2>3. CASE /\ stream'[c][p] = stream[c][p] /\ sent'[c][p] = sent[c][p]
             /\ stage'[c][p] = stage[c][p] \/ PostData(c, p) \/ PostFlag(c, p)
    <3>1. PICK m : m = Head(stream[c][p])
      OBVIOUS
    <3>2. PostData(c, p) => AtPost(c, p, "start") /\ stage'[c][p] = "polldata"
      <4>1. PostData(c, p) => AtPost(c, p, "start") /\ PlaceIs(stage, stage', c, p, "polldata")
        BY <3>1, DataStep
      <4> QED
        BY <4>1 DEF PlaceIs
    <3>3. PostFlag(c, p) => AtPost(c, p, "polldata") /\ stage'[c][p] = "pollflag"
      <4>1. PostFlag(c, p) => AtPost(c, p, "polldata") /\ PlaceIs(stage, stage', c, p, "pollflag")
        BY <3>1, FlagStep
      <4> QED
        BY <4>1 DEF PlaceIs
    <3> QED
      BY <1>1, <2>3, <3>2, <3>3 DEF AtPost
  <2> QED
    BY <1>0, <2>1, <2>2, <2>3, PlaceChange
<1>6. stream'[c][p] # <<>> => Settled(c, p) /\ ~Fresh(c, p)
  <2>1. stream[c][p] # <<>> => Settled(c, p) /\ ~Fresh(c, p)
    BY <1>1
  <2>2. stream'[c][p] = stream[c][p] \/ stream[c][p] # <<>> \/ (QueuePost(p) /\ c = Current(p))
    BY <1>0, PlaceChange
  <2> QED
    BY <1>4, <2>1, <2>2
<1>7. stream'[c][p] # <<>> => Settled(c, p)'
  <2>1. SUFFICES ASSUME stream'[c][p] # <<>> PROVE Settled(c, p)'
    OBVIOUS
  <2>2. ~Fresh(c, p)'
    BY <1>3, <1>6, <2>1
  <2>3. BoxAt(c, p)'
    <3>1. BoxInv'
      BY BoxInvNext
    <3> QED
      BY <3>1 DEF BoxInv
  <2>4. Len(box[c][p]) = pos(c, 3) /\ pos(c, 3) \in Nat \ {0}
    BY <1>6, <2>1, PosFacts DEF Settled
  <2>5. Len(box'[c][p]) # 0
    <3>1. UNCHANGED box \/ \E o \in Procs : Grown(Current(o), o)
      BY <1>0, BoxNext
    <3>2. ASSUME NEW o, NEW d, Grown(d, o)
          PROVE  Len(box'[c][p]) \in {Len(box[c][p]), Len(box[c][p]) + 1}
      BY <3>2 DEF Grown
    <3>3. Len(box'[c][p]) \in {Len(box[c][p]), Len(box[c][p]) + 1}
      BY <3>1, <3>2
    <3> QED
      BY <2>4, <3>3
  <2> QED
    BY <2>2, <2>3, <2>5 DEF BoxAt
<1>8. HasPost(c, p)' \/ wire'[FlagQp(c, p)] # <<>> => NextReady(c, p)'
  <2>1. SUFFICES ASSUME HasPost(c, p)' \/ wire'[FlagQp(c, p)] # <<>> PROVE NextReady(c, p)'
    OBVIOUS
  <2>2. HasPost(c, p) \/ wire[FlagQp(c, p)] # <<>> \/ (QueuePost(p) /\ c = Current(p))
    BY <1>0, <2>1, QuietKept
  <2>3. NextReady(c, p)
    BY <1>1, <1>4, <2>2
  <2>4. CASE QueuePost(p)
    <3>1. UNCHANGED pair
      BY <2>4 DEF QueuePost, handles
    <3> QED
      BY <2>3, <3>1 DEF NextReady, Initialized, Pair
  <2>5. ASSUME ~QueuePost(p), c = Current(p), PairCreate(p)
        PROVE  FALSE
    <3>1. PICK d : d = Current(p)
      OBVIOUS
    <3>2. Creating(c, p)
      BY <1>0, <1>2, <2>5, Gives
    <3>3. Fresh(c, p)
      <4>1. todo[p] # <<>> /\ Head(todo[p]) = Call("create", c)
        BY <3>2 DEF Creating
      <4>2. 1 \in DOMAIN todo[p] /\ Head(todo[p]) = todo[p][1]
        BY <1>0, <1>2, <4>1, CallFacts
      <4> QED
        BY <4>1, <4>2 DEF Fresh
    <3>4. ~HasPost(c, p)
      BY <1>1, <3>3 DEF HasPost
    <3> QED
      BY <1>1, <2>2, <2>5, <3>3, <3>4
  <2>6. ASSUME ~QueuePost(p), c = Current(p), Offer(p), nextOf[c][p] = Peer(p)
        PROVE  FALSE
    <3>1. pc[p] = "offer"
      BY <2>6 DEF Offer
    <3>2. PICK d, q : d = Current(p) /\ q = Peer(p)
      OBVIOUS
    <3>3. q = nextOf[d][p] => ~HasPost(d, p) /\ wire[FlagQp(d, p)] = <<>>
      BY <1>0, <1>2, <3>1, <3>2 DEF SessionInv, Gathers
    <3> QED
      BY <2>2, <2>6, <3>2, <3>3
  <2>7. ASSUME ~QueuePost(p), c = Current(p), tcclAllRankIbFini(p)
        PROVE  FALSE
    <3>1. stream[c][p] = <<>> /\ stream' = stream
          /\ wire' = [qp \in Qps |-> IF qp[1] = p /\ qp[3] = c THEN <<>> ELSE wire[qp]]
      BY <1>0, <1>2, <2>7, FiniStep
    <3>2. wire'[FlagQp(c, p)] = <<>>
      <4>1. FlagQp(c, p) \in Qps /\ FlagQp(c, p)[1] = p /\ FlagQp(c, p)[3] = c
        BY QpFacts DEF FlagQp
      <4> QED
        BY <3>1, <4>1
    <3>3. ~HasPost(c, p)'
      BY <3>1 DEF HasPost
    <3> QED
      BY <2>1, <3>2, <3>3
  <2> QED
    BY <2>3, <2>4, <2>5, <2>6, <2>7, ReadyKept
<1>9. Fresh(c, p)' => stream'[c][p] = <<>> /\ wire'[FlagQp(c, p)] = <<>>
  <2>1. SUFFICES ASSUME Fresh(c, p)' PROVE stream'[c][p] = <<>> /\ wire'[FlagQp(c, p)] = <<>>
    OBVIOUS
  <2>2. Fresh(c, p) /\ stream[c][p] = <<>> /\ wire[FlagQp(c, p)] = <<>>
    BY <1>1, <1>3, <2>1
  <2>3. ~HasPost(c, p)
    BY <2>2 DEF HasPost
  <2> QED
    BY <1>0, <1>4, <1>6, <2>2, <2>3, QuietKept
<1> QED
  BY <1>5, <1>7, <1>8, <1>9

-----------------------------------------------------------------------------
(* The lock of a node.                                                     *)

\* What is done to the lock of a node does not concern another node.
LEMMA OtherNode ==
  ASSUME NEW c \in Comms, NEW p \in Members[c], NEW o \in Members[c], o \notin OnMyNode[c][p]
  PROVE  \A q \in OnMyNode[c][p] : q \in Members[c] /\ q \notin OnMyNode[c][o]
BY NodeMates

LEMMA LockNext ==
  ASSUME PairsInv, StreamType, PostInv, LockInv, Next
  PROVE  LockInv'
<1>0. /\ HostType /\ BoxType /\ CtlInv /\ BoxInv
  BY DEF PairsInv
<1> SUFFICES ASSUME NEW c \in Comms, hasLock[c], NEW p \in Members[c], stage'[c][p] # "start",
                    NEW q \in OnMyNode[c][p]
             PROVE  lock'[c][q] = p
  BY DEF LockInv
<1>1. stage[c][p] # "start" => \A r \in OnMyNode[c][p] : lock[c][r] = p
  BY DEF LockInv
<1>2. /\ q \in Members[c] /\ p \in Procs /\ p \in Nat \ {0} /\ p \in OnMyNode[c][p]
      /\ \A o \in Members[c] : o \in OnMyNode[c][o] /\ o \in Nat \ {0}
  BY CommFacts, NodeMates, HostAssumption DEF Nobody
<1>3. ASSUME NEW d \in Comms, NEW o \in Members[d], PostData(d, o)
      PROVE  lock'[c][q] = p
  <2>1. PICK m : m = Head(stream[d][o])
    OBVIOUS
  <2>2. /\ hasLock[d] => lock[d][o] = Nobody
        /\ PlaceIs(stage, stage', d, o, "polldata") /\ LockIs(d, o, o)
    BY <1>3, <2>1, DataStep
  <2>3. CASE c = d /\ p = o
    BY <1>2, <2>2, <2>3 DEF LockIs
  <2>4. CASE c = d /\ p # o
    <3>1. stage[c][p] # "start"
      BY <2>2, <2>4 DEF PlaceIs
    <3>2. o \notin OnMyNode[c][p]
      BY <1>1, <1>2, <2>2, <2>4, <3>1 DEF Nobody
    <3>3. q \notin OnMyNode[c][o]
      BY <2>4, <3>2, OtherNode
    <3> QED
      BY <1>1, <1>2, <2>2, <2>4, <3>1, <3>3 DEF LockIs
  <2>5. CASE c # d
    <3>1. stage[c][p] # "start"
      BY <2>2, <2>5 DEF PlaceIs
    <3> QED
      BY <1>1, <1>2, <2>2, <2>5, <3>1 DEF LockIs
  <2> QED
    BY <2>3, <2>4, <2>5
<1>4. ASSUME NEW d \in Comms, NEW o \in Members[d], PostFlag(d, o)
      PROVE  lock'[c][q] = p
  <2>1. PICK m : m = Head(stream[d][o])
    OBVIOUS
  <2>2. AtPost(d, o, "polldata") /\ PlaceIs(stage, stage', d, o, "pollflag") /\ lock' = lock
    BY <1>4, <2>1, FlagStep
  <2>3. stage[c][p] # "start"
    BY <2>2 DEF PlaceIs, AtPost
  <2> QED
    BY <1>1, <2>2, <2>3
<1>5. ASSUME NEW d \in Comms, NEW o \in Members[d], PostDone(d, o)
      PROVE  lock'[c][q] = p
  <2>1. PICK m, s : m = Head(stream[d][o]) /\ s = Tail(stream[d][o])
    OBVIOUS
  <2>2. /\ AtPost(d, o, "pollflag")
        /\ PlaceIs(stage, stage', d, o, "start") /\ LockIs(d, o, Nobody)
    BY <1>5, <2>1, DoneStep
  <2>3. ~(c = d /\ p = o) /\ stage[c][p] # "start"
    BY <2>2 DEF PlaceIs
  <2>4. CASE c = d
    <3>1. o \notin OnMyNode[c][p]
      <4>1. SUFFICES ASSUME o \in OnMyNode[c][p] PROVE FALSE
        OBVIOUS
      <4>2. lock[c][o] = p
        BY <1>1, <2>3, <4>1
      <4>3. stage[c][o] # "start" /\ o \in Members[c] /\ o \in OnMyNode[c][o]
        BY <1>2, <2>2, <2>4 DEF AtPost
      <4>4. lock[c][o] = o
        BY <4>3 DEF LockInv
      <4> QED
        BY <2>3, <2>4, <4>2, <4>4
    <3>2. q \notin OnMyNode[c][o]
      BY <2>4, <3>1, OtherNode
    <3> QED
      BY <1>1, <1>2, <2>2, <2>3, <2>4, <3>2 DEF LockIs
  <2>5. CASE c # d
    BY <1>1, <1>2, <2>2, <2>3, <2>5 DEF LockIs
  <2> QED
    BY <2>4, <2>5
<1>6. ASSUME NEW o \in Procs, tcclIbHostLockInit(o)
      PROVE  lock'[c][q] = p
  <2>1. PICK d : d = Current(o)
    OBVIOUS
  <2>2. /\ d \in Comms /\ o \in Members[d] /\ Creating(d, o) /\ pc[o] = "lock"
        /\ LockIs(d, o, Nobody) /\ stage' = stage
    BY <1>6, <1>0, <2>1, LockStep
  <2>3. stage[c][p] # "start"
    BY <2>2
  <2>4. CASE c = d
    <3>1. Settled(c, p)
      BY <2>3 DEF PostInv
    <3>2. Len(box[c][o]) = pos(c, 3) - 1 /\ pos(c, 3) \in Nat
      <4>1. BoxAt(c, o)
        BY <1>0, <2>2, <2>4 DEF BoxInv
      <4> QED
        BY <2>2, <2>4, <4>1, PosFacts DEF BoxAt
    <3>3. o \notin OnMyNode[c][p]
      <4>1. SUFFICES ASSUME o \in OnMyNode[c][p] PROVE FALSE
        OBVIOUS
      <4>2. Len(box[c][o]) >= pos(c, 3)
        BY <3>1, <4>1 DEF Settled
      <4> QED
        BY <3>2, <4>2
    <3>4. q \notin OnMyNode[c][o]
      BY <2>2, <2>4, <3>3, OtherNode
    <3> QED
      BY <1>1, <1>2, <2>2, <2>3, <2>4, <3>4 DEF LockIs
  <2>5. CASE c # d
    BY <1>1, <1>2, <2>2, <2>3, <2>5 DEF LockIs
  <2> QED
    BY <2>4, <2>5
<1>7. CASE UNCHANGED <<lock, stage>>
  BY <1>1, <1>7
<1>8. ASSUME NEW o \in Procs, Process(o)
      PROVE  tcclIbHostLockInit(o) \/ UNCHANGED <<lock, stage>>
  BY <1>8, PostChange
<1>9. ASSUME NEW d \in Comms, NEW o \in Members[d], WaitFlag(d, o)
      PROVE  UNCHANGED <<lock, stage>>
  BY <1>9 DEF WaitFlag, post
<1>10. ASSUME NEW at, Deliver(at)
      PROVE  UNCHANGED <<lock, stage>>
  BY <1>10 DEF Deliver
<1> QED
  BY <1>3, <1>4, <1>5, <1>6, <1>7, <1>8, <1>9, <1>10 DEF Next, Stream

-----------------------------------------------------------------------------
(* What is under way.                                                      *)

\* Only what is connected is posted on.
LEMMA WireNext ==
  ASSUME PairsInv, StreamType, PostInv, WireInv, Next
  PROVE  WireInv'
<1>0. /\ HostType /\ CtlInv /\ PairType /\ OwnInv /\ SessionInv
  BY DEF PairsInv
<1> SUFFICES ASSUME NEW qp \in Qps, wire'[qp] # <<>>
             PROVE  Pair(qp[1], qp[3], qp[2])'.initialized
  BY DEF WireInv
<1>1a. PICK c \in Comms : qp \in {<<x[1], nextOf[c][x[1]], x[2]>> : x \in Members[c] \X {"send", "recv", c}}
  BY DEF Qps
<1>1. PICK p \in Members[c], k \in {"send", "recv", c} : qp = <<p, nextOf[c][p], k>>
  BY <1>1a
<1>2. p \in Procs /\ qp[1] = p /\ qp[2] = nextOf[c][p] /\ qp[3] = k /\ c \notin {"send", "recv"}
  BY <1>1, CommFacts
<1>3. PICK q : q = nextOf[c][p]
  OBVIOUS
<1>4. Pair(p, k, q).initialized
  <2>1. CASE wire[qp] # <<>>
    BY <1>2, <1>3, <2>1 DEF WireInv
  <2>2. CASE wire[qp] = <<>>
    <3>1. ASSUME NEW d \in Comms, NEW o \in Members[d], PostData(d, o)
          PROVE  Pair(p, k, q).initialized
      <4>1. PICK m : m = Head(stream[d][o])
        OBVIOUS
      <4>2. Pair(o, m.kind, m.peer).initialized /\ WireIs(<<o, m.peer, m.kind>>, <<d, m.n>>)
        BY <3>1, <4>1, DataStep
      <4>3. qp = <<o, m.peer, m.kind>>
        BY <2>2, <4>2 DEF WireIs
      <4> QED
        BY <1>2, <1>3, <4>2, <4>3
    <3>2. ASSUME NEW d \in Comms, NEW o \in Members[d], PostFlag(d, o)
          PROVE  Pair(p, k, q).initialized
      <4>1. PICK m : m = Head(stream[d][o])
        OBVIOUS
      <4>2. Pair(o, d, m.peer).initialized /\ WireIs(<<o, m.peer, d>>, <<d, m.n>>)
        BY <3>2, <4>1, FlagStep
      <4>3. qp = <<o, m.peer, d>>
        BY <2>2, <4>2 DEF WireIs
      <4> QED
        BY <1>2, <1>3, <4>2, <4>3
    <3>3. ASSUME NEW d \in Comms, NEW o \in Members[d], PostDone(d, o) \/ WaitFlag(d, o)
          PROVE  UNCHANGED wire
      BY <3>3 DEF PostDone, WaitFlag, post
    <3>4. ASSUME NEW at, Deliver(at)
          PROVE  wire'[qp] = wire[qp]
      <4>1. wire[at] # <<>> /\ wire' = [wire EXCEPT ![at] = Tail(wire[at])]
        BY <3>4 DEF Deliver
      <4> QED
        BY <2>2, <4>1 DEF StreamType
    <3>5. ASSUME NEW o \in Procs, Process(o)
          PROVE  wire'[qp] = wire[qp]
      <4>1. CASE tcclAllRankIbFini(o)
        <5>1. PICK d : d = Current(o)
          OBVIOUS
        <5>2. wire' = [x \in Qps |-> IF x[1] = o /\ x[3] = d THEN <<>> ELSE wire[x]]
          BY <1>0, <4>1, <5>1, FiniStep
        <5> QED
          BY <2>2, <5>2
      <4> QED
        BY <3>5, <4>1, PostChange
    <3> QED
      BY <2>2, <3>1, <3>2, <3>3, <3>4, <3>5 DEF Next, Stream
  <2> QED
    BY <2>1, <2>2
<1>6. SUFFICES ASSUME ~Pair(p, k, q)'.initialized PROVE FALSE
  BY <1>2, <1>3
<1>7. /\ k \in Comms /\ k = Current(p)
      /\ PairCreate(p) \/ (Offer(p) /\ q = Peer(p)) \/ tcclAllRankIbFini(p)
  BY <1>2, <1>4, <1>6, PairNext
<1>8. k = c /\ qp = FlagQp(c, p)
  <2>1. k \notin {"send", "recv"}
    BY <1>7, CommFacts
  <2> QED
    BY <1>1, <2>1 DEF FlagQp
<1>9. CASE PairCreate(p)
  <2>1. Fresh(c, p)
    <3>1. Creating(c, p)
      <4>1. PICK d : d = Current(p)
        OBVIOUS
      <4> QED
        BY <1>0, <1>2, <1>7, <1>8, <1>9, Gives
    <3>2. todo[p] # <<>> /\ Head(todo[p]) = Call("create", c)
      BY <3>1 DEF Creating
    <3>3. 1 \in DOMAIN todo[p] /\ Head(todo[p]) = todo[p][1]
      BY <1>0, <1>2, <3>2, CallFacts
    <3> QED
      BY <3>2, <3>3 DEF Fresh
  <2>2. stream[c][p] = <<>> /\ wire[qp] = <<>>
    BY <1>8, <2>1 DEF PostInv
  <2>3. UNCHANGED wire
    BY <1>9, Zenon DEF PairCreate, post
  <2> QED
    BY <2>2, <2>3
<1>10. CASE Offer(p) /\ q = Peer(p)
  <2>1. pc[p] = "offer" /\ UNCHANGED wire
    BY <1>10 DEF Offer, post
  <2>2. PICK d, r : d = Current(p) /\ r = Peer(p)
    OBVIOUS
  <2>3. r = nextOf[d][p] => wire[FlagQp(d, p)] = <<>>
    BY <1>0, <1>2, <2>1, <2>2 DEF SessionInv, Gathers
  <2> QED
    BY <1>3, <1>7, <1>8, <1>10, <2>1, <2>2, <2>3
<1>11. CASE tcclAllRankIbFini(p)
  <2>0. PICK d : d = Current(p)
    OBVIOUS
  <2>1. wire' = [x \in Qps |-> IF x[1] = p /\ x[3] = d THEN <<>> ELSE wire[x]]
    BY <1>0, <1>2, <1>11, <2>0, FiniStep
  <2> QED
    BY <1>2, <1>7, <1>8, <2>0, <2>1
<1> QED
  BY <1>7, <1>9, <1>10, <1>11

-----------------------------------------------------------------------------
(* What has been written.                                                  *)

LEMMA Grows ==
  ASSUME StreamType, Next
  PROVE  landed \subseteq landed' /\ disturbed \subseteq disturbed'
<1>1. ASSUME NEW c \in Comms, NEW p \in Members[c], Stream(c, p)
      PROVE  landed \subseteq landed' /\ disturbed \subseteq disturbed'
  <2>1. PICK m, s : m = Head(stream[c][p]) /\ s = Tail(stream[c][p])
    OBVIOUS
  <2>2. PostData(c, p) => landed' = landed /\ (disturbed' = disturbed \/ disturbed' = disturbed \cup {<<p, m.peer>>})
    BY <2>1, DataStep
  <2>3. PostFlag(c, p) \/ PostDone(c, p) => landed' = landed /\ disturbed \subseteq disturbed'
    BY <2>1, FlagStep, DoneStep
  <2>4. WaitFlag(c, p) => landed' = landed /\ disturbed' = disturbed
    BY <2>1, WaitStep
  <2> QED
    BY <1>1, <2>2, <2>3, <2>4 DEF Stream
<1>2. ASSUME NEW at, Deliver(at)
      PROVE  landed \subseteq landed' /\ disturbed \subseteq disturbed'
  BY <1>2 DEF Deliver
<1>3. ASSUME NEW o, Process(o)
      PROVE  landed' = landed /\ disturbed' = disturbed
  BY <1>3, PostChange
<1> QED
  BY <1>1, <1>2, <1>3 DEF Next

LEMMA LandedKept ==
  ASSUME StreamType, Next, NEW c, NEW p, NEW q, NEW n, Landed(c, p, q, n)
  PROVE  Landed(c, p, q, n)'
BY Grows DEF Landed

\* A process's post is as far as it was.
SamePost(c, p) ==
  /\ stage'[c][p] = stage[c][p]
  /\ stage[c][p] # "start" => /\ stream[c][p] # <<>> /\ stream'[c][p] # <<>>
                              /\ Head(stream'[c][p]) = Head(stream[c][p])
LEMMA OthersSame ==
  ASSUME HostType, CtlInv, StreamType, PostInv
  PROVE  /\ \A d \in Comms : \A o \in Members[d] : Stream(d, o) =>
              /\ \A c \in Comms : \A p \in Members[c] : c # d \/ p # o => SamePost(c, p)
              /\ WaitFlag(d, o) => SamePost(d, o)
         /\ (\E o \in Procs : Process(o)) \/ (\E at : Deliver(at)) =>
              \A c \in Comms : \A p \in Members[c] : SamePost(c, p)
<1>0. \A c \in Comms : \A p \in Members[c] :
        stage[c][p] # "start" => stream[c][p] # <<>> /\ Head(stream[c][p]).do = "post"
  BY DEF PostInv
<1>1. ASSUME NEW d \in Comms, NEW o \in Members[d], Stream(d, o)
      PROVE  /\ \A c \in Comms : \A p \in Members[c] : c # d \/ p # o => SamePost(c, p)
             /\ WaitFlag(d, o) => SamePost(d, o)
  <2>1. PICK m, s : m = Head(stream[d][o]) /\ s = Tail(stream[d][o])
    OBVIOUS
  <2>2. CASE PostData(d, o)
    <3>1. PlaceIs(stage, stage', d, o, "polldata") /\ stream' = stream
      BY <2>1, <2>2, DataStep
    <3>2. ~WaitFlag(d, o)
      BY <2>2 DEF PostData, AtPost, WaitFlag
    <3> QED
      BY <1>0, <3>1, <3>2 DEF PlaceIs, SamePost
  <2>3. CASE PostFlag(d, o)
    <3>1. PlaceIs(stage, stage', d, o, "pollflag") /\ stream' = stream
      BY <2>1, <2>3, FlagStep
    <3>2. ~WaitFlag(d, o)
      BY <2>3 DEF PostFlag, AtPost, WaitFlag
    <3> QED
      BY <1>0, <3>1, <3>2 DEF PlaceIs, SamePost
  <2>4. CASE PostDone(d, o)
    <3>1. PlaceIs(stage, stage', d, o, "start") /\ PlaceIs(stream, stream', d, o, s)
      BY <2>1, <2>4, DoneStep
    <3>2. ~WaitFlag(d, o)
      BY <2>4 DEF PostDone, AtPost, WaitFlag
    <3> QED
      BY <1>0, <3>1, <3>2 DEF PlaceIs, SamePost
  <2>5. CASE WaitFlag(d, o)
    <3>1. stage' = stage /\ PlaceIs(stream, stream', d, o, s) /\ Head(stream[d][o]).do = "wait"
      BY <2>1, <2>5, WaitStep
    <3>2. stage[d][o] = "start"
      BY <1>0, <3>1
    <3> QED
      BY <1>0, <3>1, <3>2 DEF PlaceIs, SamePost
  <2> QED
    BY <1>1, <2>2, <2>3, <2>4, <2>5 DEF Stream
<1>2. ASSUME NEW at, Deliver(at), NEW c \in Comms, NEW p \in Members[c]
      PROVE  SamePost(c, p)
  BY <1>0, <1>2 DEF Deliver, SamePost
<1>3. ASSUME NEW o \in Procs, Process(o), NEW c \in Comms, NEW p \in Members[c]
      PROVE  SamePost(c, p)
  <2>1. CASE QueuePost(o)
    <3>1. PICK d : d = Current(o)
      OBVIOUS
    <3>2. /\ d \in Comms /\ o \in Members[d] /\ stage' = stage
          /\ \E k, s : PlaceIs(stream, stream', d, o, s) /\ Queues(stream[d][o], s, d, o, k, sent[d][o] + 1)
      BY <2>1, <3>1, QueueStep
    <3>3. PICK k, s : PlaceIs(stream, stream', d, o, s) /\ Queues(stream[d][o], s, d, o, k, sent[d][o] + 1)
      BY <3>2
    <3>4. CASE c = d /\ p = o
      <4>1. stream'[c][p] = s
        BY <3>3, <3>4 DEF PlaceIs
      <4>2. stream[c][p] # <<>> => s # <<>> /\ Head(s) = Head(stream[c][p])
        <5>1. SUFFICES ASSUME stream[c][p] # <<>> PROVE s # <<>> /\ Head(s) = Head(stream[c][p])
          OBVIOUS
        <5>2. stream[c][p] \in Seq(Cmds)
          BY DEF StreamType
        <5>3. 1 \in DOMAIN stream[c][p] /\ Head(stream[c][p]) = stream[c][p][1]
          BY <5>1, <5>2, Tailed
        <5>4. 1 \in DOMAIN s /\ s[1] = stream[c][p][1] /\ s \in Seq(Cmds)
          BY <3>3, <3>4, <5>3 DEF Queues
        <5>5. s # <<>>
          BY <5>4
        <5> QED
          BY <5>3, <5>4, <5>5, Tailed
      <4> QED
        BY <1>0, <3>2, <4>1, <4>2 DEF SamePost
    <3>5. CASE ~(c = d /\ p = o)
      BY <1>0, <3>2, <3>3, <3>5 DEF PlaceIs, SamePost
    <3> QED
      BY <3>4, <3>5
  <2>2. CASE ~QueuePost(o)
    <3>1. UNCHANGED <<stage, stream>>
      BY <1>3, <2>2, PostChange
    <3> QED
      BY <1>0, <3>1 DEF SamePost
  <2> QED
    BY <2>1, <2>2
<1> QED
  BY <1>1, <1>2, <1>3

\* QPs for flags are those of their communicator, and all lead to the peer.
LEMMA FlagQps ==
  ASSUME NEW at \in Qps, at[3] \in Comms
  PROVE  at[1] \in Members[at[3]] /\ at = FlagQp(at[3], at[1]) /\ at[2] = nextOf[at[3]][at[1]]
<1>1. PICK c \in Comms : at \in {<<x[1], nextOf[c][x[1]], x[2]>> : x \in Members[c] \X {"send", "recv", c}}
  BY DEF Qps
<1>2. PICK x \in Members[c] \X {"send", "recv", c} : at = <<x[1], nextOf[c][x[1]], x[2]>>
  BY <1>1
<1>3. at[3] = x[2] /\ at[1] = x[1] /\ at[2] = nextOf[c][x[1]] /\ x[1] \in Members[c] /\ x[2] \in {"send", "recv", c}
  BY <1>2
<1>4. x[2] = c
  <2>1. at[3] \notin {"send", "recv"}
    BY CommFacts
  <2> QED
    BY <1>3, <2>1
<1> QED
  BY <1>2, <1>3, <1>4 DEF FlagQp

LEMMA QpEnds ==
  ASSUME NEW at \in Qps
  PROVE  at = <<at[1], at[2], at[3]>> /\ at[1] \in Procs
<1>1. PICK c \in Comms : at \in {<<x[1], nextOf[c][x[1]], x[2]>> : x \in Members[c] \X {"send", "recv", c}}
  BY DEF Qps
<1>2. PICK x \in Members[c] \X {"send", "recv", c} : at = <<x[1], nextOf[c][x[1]], x[2]>>
  BY <1>1
<1>3. x[1] \in Procs
  BY <1>2, CommFacts
<1> QED
  BY <1>2, <1>3

LEMMA Remote ==
  ASSUME OwnInv, WireInv, NEW at \in Qps, wire[at] # <<>>
  PROVE  Pair(at[1], at[3], at[2]).send.remote[1] = at[2]
<1>1. at[1] \in Procs /\ Pair(at[1], at[3], at[2]).initialized
  BY QpEnds DEF WireInv
<1> QED
  BY <1>1, OwnPair DEF Owned

-----------------------------------------------------------------------------
(* Data under way.                                                         *)

DataAt(qp) ==
  /\ \A c, d \in Comms : Polls(c, qp) /\ Polls(d, qp) => c = d
  /\ (\A c \in Comms : ~Polls(c, qp)) => wire[qp] = <<>> /\ cq[qp] = 0
  /\ \A c \in Comms : Polls(c, qp) =>
       LET n == Head(stream[c][qp[1]]).n IN
       \/ wire[qp] = << <<c, n>> >> /\ cq[qp] = 0
       \/ wire[qp] = <<>> /\ cq[qp] = 1 /\ <<c, qp[1], qp[2], n>> \in landed

LEMMA PollsSame ==
  ASSUME NEW qp, NEW c \in Comms, qp[1] \in Members[c] => SamePost(c, qp[1])
  PROVE  /\ Polls(c, qp)' <=> Polls(c, qp)
         /\ Polls(c, qp) => Head(stream[c][qp[1]])' = Head(stream[c][qp[1]])
<1>1. ASSUME qp[1] \in Members[c]
      PROVE  /\ Polls(c, qp)' <=> Polls(c, qp)
             /\ Polls(c, qp) => Head(stream[c][qp[1]])' = Head(stream[c][qp[1]])
  BY <1>1 DEF Polls, SamePost, AtPost
<1>2. ASSUME qp[1] \notin Members[c]
      PROVE  ~Polls(c, qp)' /\ ~Polls(c, qp)
  BY <1>2 DEF Polls
<1> QED
  BY <1>1, <1>2

LEMMA DataKept ==
  ASSUME NEW qp, DataAt(qp), \A c \in Comms : qp[1] \in Members[c] => SamePost(c, qp[1]),
         wire'[qp] = wire[qp], cq'[qp] = cq[qp], landed \subseteq landed'
  PROVE  DataAt(qp)'
<1>1. \A c \in Comms : /\ Polls(c, qp)' <=> Polls(c, qp)
                       /\ Polls(c, qp) => Head(stream[c][qp[1]])' = Head(stream[c][qp[1]])
  BY PollsSame
<1>2. \A c, d \in Comms : Polls(c, qp)' /\ Polls(d, qp)' => c = d
  BY <1>1 DEF DataAt
<1>3. (\A c \in Comms : ~Polls(c, qp)') => wire'[qp] = <<>> /\ cq'[qp] = 0
  BY <1>1 DEF DataAt
<1>4. ASSUME NEW c \in Comms, Polls(c, qp)', NEW n, n = Head(stream'[c][qp[1]]).n
      PROVE  \/ wire'[qp] = << <<c, n>> >> /\ cq'[qp] = 0
             \/ wire'[qp] = <<>> /\ cq'[qp] = 1 /\ <<c, qp[1], qp[2], n>> \in landed'
  <2>1. Polls(c, qp) /\ n = Head(stream[c][qp[1]]).n
    BY <1>1, <1>4
  <2> QED
    BY <2>1 DEF DataAt
<1> QED
  BY <1>2, <1>3, <1>4 DEF DataAt

LEMMA Single == \A x : Append(<<>>, x) = <<x>> /\ Tail(<<x>>) = <<>> /\ Head(<<x>>) = x
OBVIOUS

LEMMA DataAtNext ==
  ASSUME HostType, CtlInv, StreamType, PostInv, WireInv, OwnInv, Next,
         NEW qp \in Qps, qp[3] \in Posts, <<qp[1], qp[2]>> \notin disturbed', DataAt(qp)
  PROVE  DataAt(qp)'
<1>0. landed \subseteq landed' /\ qp[3] \notin Comms /\ qp = <<qp[1], qp[2], qp[3]>> /\ qp[1] \in Procs
  BY Grows, CommFacts, QpEnds DEF Posts
<1>w. wire[qp] \in Seq(Comms \X Nat) /\ cq[qp] \in Nat
  BY DEF StreamType
<1>1. ASSUME NEW d \in Comms, NEW o \in Members[d], PostData(d, o)
      PROVE  DataAt(qp)'
  <2>0. \A c \in Comms : qp[1] \in Members[c] /\ ~(c = d /\ qp[1] = o) => SamePost(c, qp[1])
    BY <1>1, OthersSame DEF Stream
  <2>1. PICK m : m = Head(stream[d][o])
    OBVIOUS
  <2>2. PICK at : at = <<o, m.peer, m.kind>>
    OBVIOUS
  <2>3. /\ AtPost(d, o, "start") /\ PlaceIs(stage, stage', d, o, "polldata")
        /\ WireIs(at, <<d, m.n>>) /\ stream' = stream /\ cq' = cq /\ landed' = landed
        /\ (\E c \in Comms \ {d} : o \in Members[c] /\ AtPost(c, o, "polldata")
              /\ Head(stream[c][o]).peer = m.peer /\ Head(stream[c][o]).kind = m.kind)
              => <<o, m.peer>> \in disturbed'
    BY <1>1, <2>1, <2>2, DataStep
  <2>4. stage[d][o] = "start" /\ stage'[d][o] = "polldata" /\ stream[d][o] # <<>> /\ m.do = "post"
    BY <2>1, <2>3 DEF PlaceIs, AtPost
  <2>5. \A c \in Comms : ~(c = d /\ qp[1] = o) =>
          /\ Polls(c, qp)' <=> Polls(c, qp)
          /\ Polls(c, qp) => Head(stream[c][qp[1]])' = Head(stream[c][qp[1]])
    BY <2>0, PollsSame
  <2>6. qp[1] = o => ~Polls(d, qp) /\ (Polls(d, qp)' <=> at = qp)
    <3>1. SUFFICES ASSUME qp[1] = o PROVE ~Polls(d, qp) /\ (Polls(d, qp)' <=> at = qp)
      OBVIOUS
    <3>2. ~Polls(d, qp)
      BY <2>4, <3>1 DEF Polls, AtPost
    <3>3. at = qp <=> m.peer = qp[2] /\ m.kind = qp[3]
      BY <1>0, <2>2, <3>1
    <3>4. Polls(d, qp)' <=> m.peer = qp[2] /\ m.kind = qp[3]
      BY <2>1, <2>3, <2>4, <3>1 DEF Polls, AtPost
    <3> QED
      BY <3>2, <3>3, <3>4
  <2>7. CASE at = qp
    <3>1. o = qp[1] /\ m.peer = qp[2] /\ m.kind = qp[3]
      BY <2>2, <2>7
    <3>2. \A c \in Comms : ~Polls(c, qp)
      BY <2>3, <2>6, <3>1 DEF Polls
    <3>3. wire[qp] = <<>> /\ cq[qp] = 0
      BY <3>2 DEF DataAt
    <3>4. wire'[qp] = << <<d, m.n>> >> /\ cq'[qp] = 0
      <4>1. PICK x : x = <<d, m.n>>
        OBVIOUS
      <4>2. wire'[qp] = Append(wire[qp], x)
        BY <2>3, <2>7, <4>1 DEF WireIs
      <4>3. wire'[qp] = <<x>>
        BY <3>3, <4>2, Single
      <4> QED
        BY <2>3, <3>3, <4>1, <4>3
    <3>5. \A c \in Comms : Polls(c, qp)' => c = d
      BY <2>5, <3>2
    <3>6. Polls(d, qp)' /\ Head(stream'[d][qp[1]]).n = m.n
      BY <2>1, <2>3, <2>6, <2>7, <3>1
    <3> QED
      BY <3>4, <3>5, <3>6 DEF DataAt
  <2>8. CASE at # qp
    <3>1. wire'[qp] = wire[qp]
      BY <2>3, <2>8 DEF WireIs
    <3>2. \A c \in Comms : /\ Polls(c, qp)' <=> Polls(c, qp)
                           /\ Polls(c, qp) => Head(stream[c][qp[1]])' = Head(stream[c][qp[1]])
      BY <2>5, <2>6, <2>8
    <3> QED
      BY <2>3, <3>1, <3>2 DEF DataAt
  <2> QED
    BY <2>7, <2>8
<1>2. ASSUME NEW d \in Comms, NEW o \in Members[d], PostFlag(d, o)
      PROVE  DataAt(qp)'
  <2>0. \A c \in Comms : qp[1] \in Members[c] /\ ~(c = d /\ qp[1] = o) => SamePost(c, qp[1])
    BY <1>2, OthersSame DEF Stream
  <2>1. PICK m : m = Head(stream[d][o])
    OBVIOUS
  <2>2. PICK at : at = <<o, m.peer, m.kind>>
    OBVIOUS
  <2>3. /\ AtPost(d, o, "polldata") /\ PlaceIs(stage, stage', d, o, "pollflag")
        /\ WireIs(<<o, m.peer, d>>, <<d, m.n>>) /\ stream' = stream /\ landed' = landed /\ Polled(at)
    BY <1>2, <2>1, <2>2, FlagStep
  <2>4. wire'[qp] = wire[qp]
    <3>1. qp # <<o, m.peer, d>>
      BY <1>0
    <3> QED
      BY <2>3, <3>1 DEF WireIs
  <2>5. \A c \in Comms : ~(c = d /\ qp[1] = o) =>
          /\ Polls(c, qp)' <=> Polls(c, qp)
          /\ Polls(c, qp) => Head(stream[c][qp[1]])' = Head(stream[c][qp[1]])
    BY <2>0, PollsSame
  <2>6. qp[1] = o => ~Polls(d, qp)' /\ (Polls(d, qp) <=> at = qp)
    <3>1. SUFFICES ASSUME qp[1] = o PROVE ~Polls(d, qp)' /\ (Polls(d, qp) <=> at = qp)
      OBVIOUS
    <3>2. ~Polls(d, qp)'
      <4>1. stage'[d][o] = "pollflag"
        BY <2>3 DEF PlaceIs
      <4> QED
        BY <3>1, <4>1 DEF Polls, AtPost
    <3>3. at = qp <=> m.peer = qp[2] /\ m.kind = qp[3]
      BY <1>0, <2>2, <3>1
    <3>4. Polls(d, qp) <=> m.peer = qp[2] /\ m.kind = qp[3]
      BY <2>1, <2>3, <3>1 DEF Polls
    <3> QED
      BY <3>2, <3>3, <3>4
  <2>7. CASE at = qp
    <3>1. o = qp[1] /\ m.peer = qp[2] /\ m.kind = qp[3]
      BY <2>2, <2>7
    <3>2. Polls(d, qp)
      BY <2>6, <2>7, <3>1
    <3>3. \A c \in Comms : ~Polls(c, qp)'
      <4>1. \A c \in Comms : Polls(c, qp) => c = d
        BY <3>2 DEF DataAt
      <4> QED
        BY <2>5, <2>6, <3>1, <4>1
    <3>4. CqLess(qp) /\ cq[qp] > 0
      BY <2>3, <2>7 DEF Polled
    <3>5. wire[qp] = <<>> /\ cq[qp] = 1
      <4>1. PICK n : n = Head(stream[d][qp[1]]).n
        OBVIOUS
      <4>2. \/ wire[qp] = << <<d, n>> >> /\ cq[qp] = 0
            \/ wire[qp] = <<>> /\ cq[qp] = 1
        BY <3>2, <4>1 DEF DataAt
      <4>3. cq[qp] # 0
        BY <3>4
      <4> QED
        BY <4>2, <4>3
    <3>6. cq'[qp] = 0
      BY <3>4, <3>5 DEF CqLess
    <3> QED
      BY <2>4, <3>3, <3>5, <3>6 DEF DataAt
  <2>8. CASE at # qp
    <3>1. cq'[qp] = cq[qp]
      BY <2>3, <2>8 DEF Polled, CqLess
    <3>2. \A c \in Comms : /\ Polls(c, qp)' <=> Polls(c, qp)
                           /\ Polls(c, qp) => Head(stream[c][qp[1]])' = Head(stream[c][qp[1]])
      BY <2>5, <2>6, <2>8
    <3> QED
      BY <2>3, <2>4, <3>1, <3>2 DEF DataAt
  <2> QED
    BY <2>7, <2>8
<1>3. ASSUME NEW d \in Comms, NEW o \in Members[d], PostDone(d, o)
      PROVE  DataAt(qp)'
  <2>0. \A c \in Comms : qp[1] \in Members[c] /\ ~(c = d /\ qp[1] = o) => SamePost(c, qp[1])
    BY <1>3, OthersSame DEF Stream
  <2>1. PICK m, s : m = Head(stream[d][o]) /\ s = Tail(stream[d][o])
    OBVIOUS
  <2>2. PICK at : at = <<o, m.peer, d>>
    OBVIOUS
  <2>3. /\ AtPost(d, o, "pollflag") /\ PlaceIs(stage, stage', d, o, "start")
        /\ wire' = wire /\ landed' = landed /\ Polled(at)
    BY <1>3, <2>1, <2>2, DoneStep
  <2>4. cq'[qp] = cq[qp]
    <3>1. qp # at
      BY <1>0, <2>2
    <3> QED
      BY <2>3, <3>1 DEF Polled, CqLess
  <2>5. \A c \in Comms : ~(c = d /\ qp[1] = o) =>
          /\ Polls(c, qp)' <=> Polls(c, qp)
          /\ Polls(c, qp) => Head(stream[c][qp[1]])' = Head(stream[c][qp[1]])
    BY <2>0, PollsSame
  <2>6. qp[1] = o => ~Polls(d, qp)' /\ ~Polls(d, qp)
    <3>1. stage'[d][o] = "start" /\ stage[d][o] = "pollflag"
      BY <2>3 DEF PlaceIs, AtPost
    <3> QED
      BY <3>1 DEF Polls, AtPost
  <2>7. \A c \in Comms : /\ Polls(c, qp)' <=> Polls(c, qp)
                         /\ Polls(c, qp) => Head(stream[c][qp[1]])' = Head(stream[c][qp[1]])
    BY <2>5, <2>6
  <2> QED
    BY <2>3, <2>4, <2>7 DEF DataAt
<1>4. ASSUME NEW d \in Comms, NEW o \in Members[d], WaitFlag(d, o)
      PROVE  DataAt(qp)'
  <2>1. \A c \in Comms : qp[1] \in Members[c] => SamePost(c, qp[1])
    BY <1>4, OthersSame DEF Stream
  <2>2. UNCHANGED <<wire, cq>>
    BY <1>4 DEF WaitFlag, post
  <2> QED
    BY <1>0, <2>1, <2>2, DataKept
<1>5. ASSUME NEW at \in Qps, Deliver(at)
      PROVE  DataAt(qp)'
  <2>1. \A c \in Comms : qp[1] \in Members[c] => SamePost(c, qp[1])
    BY <1>5, OthersSame
  <2>2. PICK c, n, q : /\ c = Head(wire[at])[1] /\ n = Head(wire[at])[2]
                       /\ q = Pair(at[1], at[3], at[2]).send.remote[1]
    OBVIOUS
  <2>3. /\ wire[at] # <<>> /\ Head(wire[at]) = <<c, n>>
        /\ \A x \in Qps : wire'[x] = IF x = at THEN Tail(wire[x]) ELSE wire[x]
        /\ CqMore(at)
        /\ at[3] \notin Comms => landed' = landed \cup {<<c, at[1], q, n>>}
    BY <1>5, <2>2, DeliverStep
  <2>4. CASE at # qp
    <3>1. wire'[qp] = wire[qp] /\ cq'[qp] = cq[qp]
      BY <2>3, <2>4 DEF CqMore
    <3> QED
      BY <1>0, <2>1, <3>1, DataKept
  <2>5. CASE at = qp
    <3>1. q = qp[2]
      BY <2>2, <2>3, <2>5, Remote
    <3>2. \A d \in Comms : /\ Polls(d, qp)' <=> Polls(d, qp)
                           /\ Polls(d, qp) => Head(stream[d][qp[1]])' = Head(stream[d][qp[1]])
      BY <2>1, PollsSame
    <3>3. PICK d \in Comms : Polls(d, qp)
      BY <2>3, <2>5 DEF DataAt
    <3>4. PICK i : i = Head(stream[d][qp[1]]).n
      OBVIOUS
    <3>5. wire[qp] = << <<d, i>> >> /\ cq[qp] = 0
      BY <2>3, <2>5, <3>3, <3>4 DEF DataAt
    <3>6. c = d /\ n = i /\ Tail(wire[qp]) = <<>>
      <4>1. PICK x : x = <<d, i>>
        OBVIOUS
      <4>2. wire[qp] = <<x>>
        BY <3>5, <4>1
      <4>3. Head(wire[qp]) = x /\ Tail(wire[qp]) = <<>>
        BY <4>2, Single
      <4> QED
        BY <2>3, <2>5, <4>1, <4>3
    <3>7. wire'[qp] = <<>> /\ cq'[qp] = 1 /\ <<d, qp[1], qp[2], i>> \in landed'
      <4>1. wire'[qp] = <<>>
        BY <2>3, <2>5, <3>6
      <4>2. cq'[qp] = 1
        BY <2>3, <2>5, <3>5 DEF CqMore
      <4>3. <<d, qp[1], qp[2], i>> \in landed'
        BY <1>0, <2>3, <2>5, <3>1, <3>6
      <4> QED
        BY <4>1, <4>2, <4>3
    <3>8. \A x \in Comms : Polls(x, qp)' <=> x = d
      BY <3>2, <3>3 DEF DataAt
    <3>9. Head(stream'[d][qp[1]]).n = i
      BY <3>2, <3>3, <3>4
    <3> QED
      BY <3>7, <3>8, <3>9 DEF DataAt
  <2> QED
    BY <2>4, <2>5
<1>6. ASSUME NEW o \in Procs, Process(o)
      PROVE  DataAt(qp)'
  <2>1. \A c \in Comms : qp[1] \in Members[c] => SamePost(c, qp[1])
    BY <1>6, OthersSame
  <2>2. wire'[qp] = wire[qp] /\ cq'[qp] = cq[qp]
    <3>1. CASE tcclAllRankIbFini(o)
      <4>1. PICK d : d = Current(o)
        OBVIOUS
      <4>2. d \in Comms /\ wire' = [x \in Qps |-> IF x[1] = o /\ x[3] = d THEN <<>> ELSE wire[x]] /\ cq' = cq
        BY <3>1, <4>1, FiniStep
      <4>3. qp[3] # d
        BY <1>0, <4>2
      <4> QED
        BY <4>2, <4>3
    <3> QED
      BY <1>6, <3>1, PostChange
  <2> QED
    BY <1>0, <2>1, <2>2, DataKept
<1> QED
  BY <1>1, <1>2, <1>3, <1>4, <1>5, <1>6 DEF Next, Stream, StreamType

LEMMA DataNext ==
  ASSUME HostType, CtlInv, StreamType, PostInv, WireInv, OwnInv, DataInv, Next
  PROVE  DataInv'
<1>1. SUFFICES ASSUME NEW qp \in Qps, qp[3] \in Posts, <<qp[1], qp[2]>> \notin disturbed'
               PROVE  DataAt(qp)'
  BY DEF DataInv, DataAt
<1>2. DataAt(qp)
  <2>1. <<qp[1], qp[2]>> \notin disturbed
    BY <1>1, Grows
  <2> QED
    BY <1>1, <2>1 DEF DataInv, DataAt
<1> QED
  BY <1>1, <1>2, DataAtNext

-----------------------------------------------------------------------------
(* Flags come after the data they announce.                                *)

\* Of the posts that are queued the first has the least number.
LEMMA FirstPost ==
  ASSUME StreamType, PostInv, NEW c \in Comms, NEW p \in Members[c], NEW s, AtPost(c, p, s),
         NEW m, m = Head(stream[c][p])
  PROVE  /\ m.peer = nextOf[c][p] /\ nextOf[c][p] \in IbPeers[c][p] /\ m.n \in 1 .. sent[c][p] /\ sent[c][p] \in Nat
         /\ \A i \in DOMAIN stream[c][p] : stream[c][p][i].do = "post" /\ stream[c][p][i].n < m.n => FALSE
<1>1. /\ stream[c][p] \in Seq(Cmds) /\ m = stream[c][p][1] /\ 1 \in DOMAIN stream[c][p] /\ m.do = "post"
      /\ sent[c][p] \in Nat
  BY AtPostFacts DEF StreamType
<1>2. InTurn(c, p, stream[c][p], sent[c][p])
  BY DEF PostInv, InTurn
<1>3. m.peer = nextOf[c][p] /\ nextOf[c][p] \in IbPeers[c][p] /\ m.n \in 1 .. sent[c][p]
  BY <1>1, <1>2 DEF InTurn
<1>4. ASSUME NEW i \in DOMAIN stream[c][p], stream[c][p][i].do = "post", stream[c][p][i].n < m.n
      PROVE  FALSE
  <2>1. m.n \in Nat
    BY <1>1, <1>3
  <2>2. i # 1
    BY <1>1, <1>4, <2>1
  <2>3. 1 < i /\ i \in Nat
    BY <1>1, <2>2
  <2>4. m.n < stream[c][p][i].n
    BY <1>1, <1>2, <1>4, <2>3 DEF InTurn
  <2>5. stream[c][p][i].n \in Nat
    <3>1. stream[c][p][i].n \in 1 .. sent[c][p]
      BY <1>2, <1>4 DEF InTurn
    <3> QED
      BY <1>1, <3>1
  <2> QED
    BY <1>4, <2>1, <2>4, <2>5
<1> QED
  BY <1>1, <1>3, <1>4

\* A flag is posted when the data of its post, and of those before, is there.
LEMMA FlagReady ==
  ASSUME HostType, CtlInv, StreamType, PostInv, DataInv, SentInv, Next, NEW c \in Comms, NEW p \in Members[c],
         PostFlag(c, p), NEW m, m = Head(stream[c][p]), NEW q, q = nextOf[c][p], <<p, q>> \notin disturbed'
  PROVE  Landed(c, p, q, m.n)
<1>1. AtPost(c, p, "polldata") /\ Polled(<<p, m.peer, m.kind>>)
  BY FlagStep
<1>2. /\ m.peer = q /\ q \in IbPeers[c][p] /\ m.n \in 1 .. sent[c][p] /\ sent[c][p] \in Nat
      /\ \A i \in DOMAIN stream[c][p] : stream[c][p][i].do = "post" /\ stream[c][p][i].n < m.n => FALSE
  BY <1>1, FirstPost
<1>3. PICK k : k = m.kind
  OBVIOUS
<1>4. k \in Posts
  BY <1>1, <1>3, AtPostFacts
<1>5. PICK at : at = <<p, q, k>>
  OBVIOUS
<1>6. at \in Qps /\ at[1] = p /\ at[2] = q /\ at[3] = k
  BY <1>4, <1>5, QpFacts
<1>7. Polls(c, at)
  BY <1>1, <1>2, <1>3, <1>6 DEF Polls
<1>8. Polled(at)
  BY <1>1, <1>2, <1>3, <1>5
<1>9. cq[at] > 0
  BY <1>6, <1>8 DEF Polled
<1>10. <<p, q>> \notin disturbed
  BY Grows
<1>11. <<c, p, q, m.n>> \in landed
  <2>1. PICK n : n = m.n
    OBVIOUS
  <2>2. \/ wire[at] = << <<c, n>> >> /\ cq[at] = 0
        \/ wire[at] = <<>> /\ cq[at] = 1 /\ <<c, p, q, n>> \in landed
    BY <1>4, <1>6, <1>7, <1>10, <2>1 DEF DataInv
  <2>3. cq[at] # 0
    BY <1>9
  <2> QED
    BY <2>1, <2>2, <2>3
<1>12. ASSUME NEW i \in 1 .. m.n
       PROVE  <<c, p, q, i>> \in landed
  <2>1. CASE i = m.n
    BY <1>11, <2>1
  <2>2. CASE i # m.n
    <3>1. i \in 1 .. sent[c][p] /\ i < m.n
      BY <1>2, <2>2
    <3>2. <<c, p, q, i>> \in landed \/ \E j \in DOMAIN stream[c][p] : stream[c][p][j].do = "post" /\ stream[c][p][j].n = i
      BY <1>2, <1>10, <3>1 DEF SentInv
    <3> QED
      BY <1>2, <3>1, <3>2
  <2> QED
    BY <2>1, <2>2
<1> QED
  BY <1>12 DEF Landed

LEMMA SentNext ==
  ASSUME HostType, CtlInv, StreamType, PostInv, DataInv, SentInv, Next
  PROVE  SentInv'
<1>g. landed \subseteq landed' /\ disturbed \subseteq disturbed'
  BY Grows
<1> SUFFICES ASSUME NEW c \in Comms, NEW p \in Members[c], NEW q, q = nextOf[c][p]
             PROVE  /\ \A i \in DOMAIN wire'[FlagQp(c, p)] : wire'[FlagQp(c, p)][i][1] = c
                    /\ q \in IbPeers[c][p] /\ <<p, q>> \notin disturbed' =>
                         /\ \A m \in 1 .. sent'[c][p] :
                              <<c, p, q, m>> \in landed' \/ \E i \in DOMAIN stream'[c][p] :
                                                              stream'[c][p][i].do = "post" /\ stream'[c][p][i].n = m
                         /\ stage'[c][p] = "pollflag" =>
                              \A m \in 1 .. Head(stream'[c][p]).n : <<c, p, q, m>> \in landed'
                    /\ <<p, q>> \notin disturbed' =>
                         \A i \in DOMAIN wire'[FlagQp(c, p)] : \A m \in 1 .. wire'[FlagQp(c, p)][i][2] :
                           <<c, p, q, m>> \in landed'
  BY DEF SentInv, FlagQp, Landed
<1>0. /\ \A i \in DOMAIN wire[FlagQp(c, p)] : wire[FlagQp(c, p)][i][1] = c
      /\ q \in IbPeers[c][p] /\ <<p, q>> \notin disturbed =>
           /\ \A m \in 1 .. sent[c][p] :
                <<c, p, q, m>> \in landed \/ \E i \in DOMAIN stream[c][p] : stream[c][p][i].do = "post" /\ stream[c][p][i].n = m
           /\ stage[c][p] = "pollflag" => Landed(c, p, q, Head(stream[c][p]).n)
      /\ <<p, q>> \notin disturbed => \A i \in DOMAIN wire[FlagQp(c, p)] : Landed(c, p, q, wire[FlagQp(c, p)][i][2])
  BY DEF SentInv
<1>1. p \in Procs /\ stream[c][p] \in Seq(Cmds) /\ sent[c][p] \in Nat
  BY CommFacts DEF StreamType
<1>2. wire[FlagQp(c, p)] \in Seq(Comms \X Nat)
  BY QpFacts DEF StreamType, FlagQp
<1>3. PICK w : w = wire[FlagQp(c, p)]
  OBVIOUS
<1>4. PICK v : v = wire'[FlagQp(c, p)]
  OBVIOUS
<1>5. PICK h : h = Head(stream[c][p])
  OBVIOUS
<1>6. \/ v = w
      \/ w # <<>> /\ v = Tail(w)
      \/ PostFlag(c, p) /\ v = Append(w, <<c, h.n>>) /\ h.n \in Nat
      \/ v = <<>>
  <2>1. PostFlag(c, p) => h.n \in Nat
    BY <1>5, AtPostFacts DEF PostFlag
  <2> QED
    BY <1>3, <1>4, <1>5, <2>1, FlagWire
<1>7. \A i \in DOMAIN v : (\E j \in DOMAIN w : v[i] = w[j]) \/ (PostFlag(c, p) /\ v[i] = <<c, h.n>>)
  <2>1. w \in Seq(Comms \X Nat)
    BY <1>2, <1>3
  <2>2. CASE v = w
    BY <2>2
  <2>3. CASE w # <<>> /\ v = Tail(w)
    <3>1. \A i \in DOMAIN v : i + 1 \in DOMAIN w /\ v[i] = w[i + 1]
      BY <2>1, <2>3, Tailed
    <3> QED
      BY <3>1
  <2>4. CASE PostFlag(c, p) /\ v = Append(w, <<c, h.n>>) /\ h.n \in Nat
    <3>1. PICK x \in Comms \X Nat : x = <<c, h.n>>
      BY <2>4
    <3>2. v \in Seq(Comms \X Nat) /\ Len(v) = Len(w) + 1 /\ v[Len(w) + 1] = x /\ \A i \in 1 .. Len(w) : v[i] = w[i]
      BY <2>1, <2>4, <3>1, Appended
    <3>3. Len(w) \in Nat /\ DOMAIN w = 1 .. Len(w) /\ DOMAIN v = 1 .. Len(w) + 1
      BY <2>1, <3>2
    <3>4. \A i \in DOMAIN v : i \in DOMAIN w \/ i = Len(w) + 1
      BY <3>3
    <3> QED
      BY <2>4, <3>1, <3>2, <3>3, <3>4
  <2>5. CASE v = <<>>
    BY <2>5
  <2> QED
    BY <1>6, <2>2, <2>3, <2>4, <2>5
<1>8. \A i \in DOMAIN v : v[i][1] = c
  BY <1>0, <1>3, <1>7
<1>9. <<p, q>> \notin disturbed' => \A i \in DOMAIN v : \A m \in 1 .. v[i][2] : <<c, p, q, m>> \in landed'
  <2>1. SUFFICES ASSUME <<p, q>> \notin disturbed', NEW i \in DOMAIN v, NEW n, n = v[i][2]
                 PROVE  Landed(c, p, q, n)'
    BY DEF Landed
  <2>2. Landed(c, p, q, n)
    <3>1. CASE \E j \in DOMAIN w : v[i] = w[j]
      BY <1>0, <1>g, <1>3, <2>1, <3>1
    <3>2. CASE PostFlag(c, p) /\ v[i] = <<c, h.n>>
      <4>1. Landed(c, p, q, h.n)
        BY <1>5, <2>1, <3>2, FlagReady
      <4> QED
        BY <2>1, <3>2, <4>1
    <3> QED
      BY <1>7, <3>1, <3>2
  <2> QED
    BY <2>2, LandedKept
<1>10. ASSUME q \in IbPeers[c][p], <<p, q>> \notin disturbed', stage'[c][p] = "pollflag"
       PROVE  \A m \in 1 .. Head(stream'[c][p]).n : <<c, p, q, m>> \in landed'
  <2>1. PICK n : n = Head(stream'[c][p]).n
    OBVIOUS
  <2>2. Landed(c, p, q, n)
    <3>1. CASE SamePost(c, p)
      <4>1. stage[c][p] = "pollflag" /\ n = h.n
        BY <1>5, <1>10, <2>1, <3>1 DEF SamePost
      <4> QED
        BY <1>0, <1>g, <1>5, <1>10, <4>1
    <3>2. CASE PostFlag(c, p)
      <4>1. Landed(c, p, q, h.n) /\ stream' = stream
        BY <1>5, <1>10, <3>2, FlagReady, FlagStep
      <4> QED
        BY <1>5, <2>1, <4>1
    <3>3. ASSUME PostData(c, p)
          PROVE  FALSE
      <4>1. PlaceIs(stage, stage', c, p, "polldata")
        BY <1>5, <3>3, DataStep
      <4> QED
        BY <1>10, <4>1 DEF PlaceIs
    <3>4. ASSUME PostDone(c, p)
          PROVE  FALSE
      <4>1. PICK s : s = Tail(stream[c][p])
        OBVIOUS
      <4>2. PlaceIs(stage, stage', c, p, "start")
        BY <1>5, <3>4, <4>1, DoneStep
      <4> QED
        BY <1>10, <4>2 DEF PlaceIs
    <3>5. SamePost(c, p) \/ PostFlag(c, p) \/ PostData(c, p) \/ PostDone(c, p)
      BY OthersSame DEF Next, Stream
    <3> QED
      BY <3>1, <3>2, <3>3, <3>4, <3>5
  <2>3. Landed(c, p, q, n)'
    BY <2>2, LandedKept
  <2> QED
    BY <2>1, <2>3 DEF Landed
<1>11. ASSUME q \in IbPeers[c][p], <<p, q>> \notin disturbed', NEW m \in 1 .. sent'[c][p]
       PROVE  <<c, p, q, m>> \in landed' \/ \E i \in DOMAIN stream'[c][p] :
                                              stream'[c][p][i].do = "post" /\ stream'[c][p][i].n = m
  <2>0. <<p, q>> \notin disturbed
    BY <1>g, <1>11
  <2>1. CASE QueuePost(p) /\ c = Current(p)
    <3>1. PICK k, s : /\ PlaceIs(sent, sent', c, p, sent[c][p] + 1) /\ PlaceIs(stream, stream', c, p, s)
                      /\ Queues(stream[c][p], s, c, p, k, sent[c][p] + 1)
      BY <1>1, <2>1, QueueStep
    <3>2. sent'[c][p] = sent[c][p] + 1 /\ stream'[c][p] = s
      BY <3>1 DEF PlaceIs
    <3>3. CASE m = sent[c][p] + 1
      <4>1. PICK j : j = Len(stream[c][p]) + 1
        OBVIOUS
      <4>2. j \in DOMAIN s /\ s[j] = Post(q, k, m)
        BY <1>11, <3>1, <3>3, <4>1 DEF Queues
      <4>3. s[j].do = "post" /\ s[j].n = m
        BY <4>2 DEF Post
      <4> QED
        BY <3>2, <4>2, <4>3
    <3>4. CASE m # sent[c][p] + 1
      <4>1. m \in 1 .. sent[c][p]
        BY <1>1, <1>11, <3>2, <3>4
      <4>2. <<c, p, q, m>> \in landed \/ \E i \in DOMAIN stream[c][p] : stream[c][p][i].do = "post" /\ stream[c][p][i].n = m
        BY <1>0, <1>11, <2>0, <4>1
      <4>3. \A i \in DOMAIN stream[c][p] : i \in DOMAIN s /\ s[i] = stream[c][p][i]
        BY <3>1 DEF Queues
      <4> QED
        BY <1>g, <3>2, <4>2, <4>3
    <3> QED
      BY <3>3, <3>4
  <2>2. CASE stream'[c][p] = stream[c][p] /\ sent'[c][p] = sent[c][p]
    BY <1>0, <1>g, <1>11, <2>0, <2>2
  <2>3. CASE /\ stream[c][p] # <<>> /\ stream'[c][p] = Tail(stream[c][p]) /\ sent'[c][p] = sent[c][p]
             /\ PostDone(c, p) \/ WaitFlag(c, p)
    <3>1. CASE <<c, p, q, m>> \in landed
      BY <1>g, <3>1
    <3>2. CASE <<c, p, q, m>> \notin landed
      <4>1. PICK i \in DOMAIN stream[c][p] : stream[c][p][i].do = "post" /\ stream[c][p][i].n = m
        BY <1>0, <1>11, <2>0, <2>3, <3>2
      <4>2. i # 1
        <5>1. SUFFICES ASSUME i = 1 PROVE FALSE
          OBVIOUS
        <5>2. h = stream[c][p][1]
          BY <1>1, <1>5, <2>3, Tailed
        <5>3. ~WaitFlag(c, p)
          BY <1>5, <4>1, <5>1, <5>2 DEF WaitFlag
        <5>4. stage[c][p] = "pollflag"
          BY <2>3, <5>3 DEF PostDone, AtPost
        <5>5. Landed(c, p, q, m)
          BY <1>0, <1>5, <1>11, <2>0, <4>1, <5>1, <5>2, <5>4
        <5>6. m \in 1 .. m
          BY <1>1, <1>11, <2>3
        <5> QED
          BY <3>2, <5>5, <5>6 DEF Landed
      <4>3. PICK s : s = stream'[c][p]
        OBVIOUS
      <4>4. i - 1 \in DOMAIN s /\ s[i - 1] = stream[c][p][i]
        <5>1. Len(s) = Len(stream[c][p]) - 1 /\ \A j \in 1 .. Len(stream[c][p]) - 1 : s[j] = stream[c][p][j + 1]
          BY <1>1, <2>3, <4>3, Tailed
        <5>2. Len(stream[c][p]) \in Nat /\ DOMAIN stream[c][p] = 1 .. Len(stream[c][p])
          BY <1>1
        <5>3. i - 1 \in 1 .. Len(stream[c][p]) - 1 /\ (i - 1) + 1 = i
          BY <4>2, <5>2
        <5>4. s \in Seq(Cmds)
          BY <1>1, <2>3, <4>3, Tailed
        <5>5. DOMAIN s = 1 .. Len(stream[c][p]) - 1
          BY <5>1, <5>4
        <5>6. s[i - 1] = stream[c][p][(i - 1) + 1]
          BY <5>1, <5>3
        <5> QED
          BY <5>3, <5>5, <5>6
      <4> QED
        BY <4>1, <4>3, <4>4
    <3> QED
      BY <3>1, <3>2
  <2> QED
    BY <2>1, <2>2, <2>3, PlaceChange
<1> QED
  BY <1>4, <1>8, <1>9, <1>10, <1>11

LEMMA FlagAfterDataNext ==
  ASSUME StreamType, OwnInv, WireInv, SentInv, FlagAfterData, Next
  PROVE  FlagAfterData'
<1>g. landed \subseteq landed' /\ disturbed \subseteq disturbed'
  BY Grows
<1> SUFFICES ASSUME NEW c \in Comms, NEW p \in Members[c], NEW q \in Members[c],
                    <<p, q>> \notin disturbed', NEW n \in 1 .. flag'[<<c, p, q>>]
             PROVE  <<c, p, q, n>> \in landed'
  BY DEF FlagAfterData
<1>0. <<p, q>> \notin disturbed /\ <<c, p, q>> \in Routes
  BY <1>g, RouteFacts
<1>1. CASE flag'[<<c, p, q>>] = flag[<<c, p, q>>]
  BY <1>0, <1>g, <1>1 DEF FlagAfterData
<1>2. CASE flag'[<<c, p, q>>] # flag[<<c, p, q>>]
  <2>1. PICK at \in Qps : Deliver(at)
    <3>1. ASSUME NEW d \in Comms, NEW o \in Members[d], Stream(d, o)
          PROVE  flag' = flag
      BY <3>1, Zenon DEF Stream, PostData, PostFlag, PostDone, WaitFlag, post
    <3>2. ASSUME NEW o \in Procs, Process(o)
          PROVE  flag' = flag
      BY <3>2, PostChange
    <3> QED
      BY <1>2, <3>1, <3>2 DEF Next, StreamType
  <2>2. PICK x, i, r : /\ x = Head(wire[at])[1] /\ i = Head(wire[at])[2]
                       /\ r = Pair(at[1], at[3], at[2]).send.remote[1]
    OBVIOUS
  <2>3. /\ wire[at] # <<>>
        /\ at[3] \in Comms => \A y \in Routes : flag'[y] = IF y = <<x, at[1], r>> THEN i ELSE flag[y]
        /\ at[3] \notin Comms => flag' = flag
    BY <2>1, <2>2, DeliverStep
  <2>4. at[3] \in Comms /\ <<c, p, q>> = <<x, at[1], r>> /\ flag'[<<c, p, q>>] = i
    BY <1>0, <1>2, <2>3
  <2>5. r = at[2] /\ at[1] \in Members[at[3]] /\ at = FlagQp(at[3], at[1]) /\ at[2] = nextOf[at[3]][at[1]]
    BY <2>2, <2>3, <2>4, Remote, FlagQps
  <2>6. PICK d : d = at[3]
    OBVIOUS
  <2>7. 1 \in DOMAIN wire[at] /\ Head(wire[at]) = wire[at][1]
    <3>1. wire[at] \in Seq(Comms \X Nat)
      BY DEF StreamType
    <3> QED
      BY <2>3, <3>1, Tailed
  <2>8. d \in Comms /\ p \in Members[d] /\ at = FlagQp(d, p) /\ q = nextOf[d][p]
    BY <2>4, <2>5, <2>6
  <2>9. wire[at][1][1] = d /\ Landed(d, p, q, wire[at][1][2])
    BY <1>0, <2>7, <2>8 DEF SentInv
  <2>10. c = d /\ i = wire[at][1][2]
    BY <2>2, <2>4, <2>7, <2>9
  <2> QED
    BY <1>g, <2>4, <2>9, <2>10 DEF Landed
<1> QED
  BY <1>1, <1>2

-----------------------------------------------------------------------------
(* The beginning.                                                          *)

LEMMA ProgramFacts ==
  ASSUME NEW program \in Programs, NEW p \in Procs, NEW calls, calls = CallsOf(program, p)
  PROVE  /\ program.MaxFailures \in Nat
         /\ calls \in Seq(Calls) /\ \A i \in DOMAIN calls : p \in Members[calls[i].comm]
         /\ InOrder(calls) /\ (program.MaxFailures > 0 => PostsConnected(calls))
<1>1. /\ program.MaxFailures \in Nat /\ calls \in Seq({call \in Calls : p \in Members[call.comm]})
      /\ InOrder(calls) /\ (program.MaxFailures > 0 => PostsConnected(calls))
  BY ProgramsAssumption
<1>2. \A i \in DOMAIN calls : calls[i] \in Calls /\ p \in Members[calls[i].comm]
  BY <1>1
<1>3. calls \in Seq(Calls)
  BY <1>1, <1>2
<1> QED
  BY <1>1, <1>2, <1>3

\* The first call on a communicator creates it.
LEMMA Begins ==
  ASSUME NEW calls \in Seq(Calls), InOrder(calls), NEW i \in DOMAIN calls
  PROVE  \E j \in 1 .. i : calls[j] = Call("create", calls[i].comm)
<1> DEFINE c == calls[i].comm
           S == {j \in 1 .. i : calls[j].comm = c}
<1>0. DOMAIN calls = 1 .. Len(calls) /\ Len(calls) \in Nat /\ i \in Nat \ {0} /\ i <= Len(calls)
  OBVIOUS
<1>1. S \subseteq Nat /\ S # {}
  <2>1. i \in S
    BY <1>0
  <2> QED
    BY <2>1
<1>2. PICK j \in S : \A k \in S : j <= k
  BY <1>1, LeastOf
<1>3. j \in 1 .. i /\ calls[j].comm = c
  OBVIOUS
<1>4. \A k \in 1 .. j - 1 : calls[k].comm # calls[j].comm
  <2>1. SUFFICES ASSUME NEW k \in 1 .. j - 1, calls[k].comm = c PROVE FALSE
    BY <1>3
  <2>2. k \in 1 .. i /\ k < j
    BY <1>0, <1>3
  <2>3. k \in S
    BY <2>1, <2>2
  <2>4. j <= k
    BY <1>2, <2>3
  <2> QED
    BY <1>0, <1>3, <2>2, <2>4
<1>5. j \in DOMAIN calls /\ calls[j] \in Calls
  BY <1>0, <1>3
<1>6. calls[j].do = "create"
  BY <1>4, <1>5 DEF InOrder
<1>7. calls[j] = Call("create", c)
  BY <1>3, <1>5, <1>6 DEF Calls, Call
<1> QED
  BY <1>3, <1>7

LEMMA InitHost ==
  ASSUME Init
  PROVE  HostType /\ BoxType /\ PairType /\ StreamType /\ CtlInv
<1>1. prog \in Programs /\ prog.MaxFailures \in Nat
  BY ProgramsAssumption DEF Init
<1>2. \A p \in Procs : /\ todo[p] \in Seq(Calls)
                       /\ \A i \in DOMAIN todo[p] : p \in Members[todo[p][i].comm]
  <2>1. SUFFICES ASSUME NEW p \in Procs, NEW calls, calls = CallsOf(prog, p)
                 PROVE  /\ calls \in Seq(Calls) /\ \A i \in DOMAIN calls : p \in Members[calls[i].comm]
    BY DEF Init
  <2> QED
    BY <1>1, <2>1, ProgramFacts
<1>3. todo \in [Procs -> Seq(Calls)]
  BY <1>2 DEF Init
<1>4. HostType
  <2>1. pc \in [Procs -> Pcs] /\ type \in [Procs -> 0 .. 2] /\ left \in [Procs -> SUBSET Procs]
    BY DEF Init, Pcs
  <2>2. sock \in [Procs -> Socks \cup {NoSocket}] /\ accepts \in [Procs -> [Procs -> Socks \cup {NoSocket}]]
    BY DEF Init
  <2>3. Table(listen) /\ \A c \in Comms : \A p \in Members[c] : listen[c][p] \in Seq(Members[c])
    <3>1. listen = [c \in Comms |-> [p \in Members[c] |-> <<>>]]
      BY DEF Init
    <3>2. \A c \in Comms : \A p \in Members[c] : listen[c][p] = <<>>
      BY <3>1
    <3>3. Table(listen)
      BY <3>1, <3>2 DEF Table
    <3>4. \A S : <<>> \in Seq(S)
      OBVIOUS
    <3> QED
      BY <3>2, <3>3, <3>4
  <2>4. failures \in Nat /\ failures <= prog.MaxFailures
    BY <1>1 DEF Init
  <2> QED
    BY <1>1, <1>3, <2>1, <2>2, <2>3, <2>4 DEF HostType
<1>5. BoxType
  BY DEF Init, BoxType, Table
<1>6. PairType
  <2>1. pair = [p \in Procs |-> <<>>] /\ made \in [Procs -> Nat]
    BY DEF Init
  <2>2. \A p \in Procs : pair[p] = <<>> /\ DOMAIN pair[p] = {} /\ pair[p] = [x \in DOMAIN pair[p] |-> pair[p][x]]
    BY <2>1
  <2> QED
    BY <2>1, <2>2 DEF PairType
<1>7. StreamType
  <2>1. Table(stream) /\ Table(stage) /\ Table(sent) /\ Table(lock)
        /\ \A c \in Comms : \A p \in Members[c] : stream[c][p] \in Seq(Cmds) /\ sent[c][p] \in Nat
    BY DEF Init, Table
  <2>2. wire \in [Qps -> Seq(Comms \X Nat)] /\ cq \in [Qps -> Nat] /\ flag \in [Routes -> Nat]
    BY DEF Init
  <2> QED
    BY <2>1, <2>2 DEF StreamType
<1>8. CtlInv
  <2>1. \A p \in Procs : pc[p] = "call" /\ type[p] = 0 /\ \A q \in Procs : accepts[p][q] = NoSocket
    BY DEF Init
  <2> QED
    BY <1>2, <2>1 DEF CtlInv, Ctl, Gathers, Sessions
<1> QED
  BY <1>4, <1>5, <1>6, <1>7, <1>8

LEMMA InitTodo ==
  ASSUME Init
  PROVE  TodoInv
<1> SUFFICES ASSUME NEW p \in Procs, NEW calls, calls = todo[p]
             PROVE  Todo(p)
  BY DEF TodoInv
<1>1. prog \in Programs /\ calls = CallsOf(prog, p)
  BY DEF Init
<1>2. /\ prog.MaxFailures \in Nat
      /\ calls \in Seq(Calls)
      /\ InOrder(calls) /\ (prog.MaxFailures > 0 => PostsConnected(calls))
  BY <1>1, ProgramFacts
<1>0. DOMAIN calls = 1 .. Len(calls) /\ Len(calls) \in Nat
  BY <1>2
<1>3. ASSUME NEW i \in DOMAIN calls, NEW j \in DOMAIN calls, i < j, calls[i].comm = calls[j].comm
      PROVE  calls[i].do # "destroy" /\ calls[j].do # "create"
  <2>1. i \in 1 .. j - 1 /\ j \in i + 1 .. Len(calls)
    BY <1>0, <1>3
  <2>2. calls[j].do # "create"
    BY <1>2, <1>3, <2>1 DEF InOrder
  <2>3. calls[i].do # "destroy"
    BY <1>2, <1>3, <2>1 DEF InOrder
  <2> QED
    BY <2>2, <2>3
<1>4. ASSUME NEW i \in DOMAIN calls, calls[i].do \in Posts, NEW c, c = calls[i].comm
      PROVE  \/ \E j \in 1 .. i - 1 : calls[j] = Call("connect", c)
             \/ prog.MaxFailures = 0 /\ \E j \in 1 .. i - 1 : calls[j] = Call("create", c)
  <2>1. CASE prog.MaxFailures > 0
    BY <1>2, <1>4, <2>1 DEF PostsConnected
  <2>2. CASE prog.MaxFailures = 0
    <3>1. PICK j \in 1 .. i : calls[j] = Call("create", c)
      BY <1>2, <1>4, Begins
    <3>2. j # i
      BY <1>4, <3>1 DEF Call, Posts
    <3>3. j \in 1 .. i - 1
      BY <1>0, <3>2
    <3> QED
      BY <2>2, <3>1, <3>3
  <2> QED
    BY <1>2, <2>1, <2>2
<1>5. /\ \A i, j \in DOMAIN todo[p] : i < j /\ todo[p][i].comm = todo[p][j].comm =>
           todo[p][i].do # "destroy" /\ todo[p][j].do # "create"
      /\ \A i \in DOMAIN todo[p] : todo[p][i].do \in Posts =>
           LET c == todo[p][i].comm IN
           \/ \E j \in 1 .. i - 1 : todo[p][j] = Call("connect", c)
           \/ prog.MaxFailures = 0 /\ \E j \in 1 .. i - 1 : todo[p][j] = Call("create", c)
  BY <1>3, <1>4
<1> QED
  BY <1>5 DEF Todo

LEMMA InitGathers ==
  ASSUME Init
  PROVE  BoxInv /\ ValueInv /\ OwnInv /\ CreateInv /\ MailInv /\ SessionInv
<1>0. \A c \in Comms : \A p \in Members[c] : p \in Procs /\ box[c][p] = <<>> /\ Len(box[c][p]) = 0
  BY CommFacts DEF Init
<1>1. \A p \in Procs : pc[p] = "call" /\ type[p] = 0 /\ pair[p] = <<>> /\ DOMAIN pair[p] = {}
  BY DEF Init
<1>2. BoxInv
  <2>1. SUFFICES ASSUME NEW c \in Comms, NEW p \in Members[c] PROVE BoxAt(c, p)
    BY DEF BoxInv
  <2>2. pos(c, 0) = 1
    BY PosFacts
  <2>3. ASSUME NEW i \in DOMAIN todo[p], todo[p][i].comm = c
        PROVE  Fresh(c, p)
    <3>1. PICK calls : calls = todo[p]
      OBVIOUS
    <3>2. prog \in Programs /\ p \in Procs /\ calls = CallsOf(prog, p)
      BY <1>0, <3>1 DEF Init
    <3>3. calls \in Seq(Calls) /\ InOrder(calls)
      BY <3>2, ProgramFacts
    <3>4. PICK j \in 1 .. i : calls[j] = Call("create", c)
      BY <2>3, <3>1, <3>3, Begins
    <3>5. j \in DOMAIN calls
      BY <3>1, <3>3, <3>4
    <3> QED
      BY <3>1, <3>4, <3>5 DEF Fresh
  <2> QED
    BY <1>0, <1>1, <2>2, <2>3 DEF BoxAt
<1>3. ValueInv
  <2>1. SUFFICES ASSUME NEW c \in Comms, NEW p \in Members[c], NEW t \in 0 .. 2 PROVE ValueAt(c, p, t)
    BY DEF ValueInv
  <2>2. pos(c, t) \in Nat \ {0}
    BY PosFacts
  <2> QED
    BY <1>0, <2>2 DEF ValueAt
<1>4. OwnInv
  BY <1>1 DEF OwnInv
<1>5. CreateInv
  BY <1>1 DEF CreateInv
<1>6. MailInv
  <2>1. mail \in [Routes -> Seq(Con \cup {"ret"})] /\ \A x \in Routes : mail[x] = <<>>
    BY DEF Init
  <2>2. ASSUME NEW c \in Comms, NEW p \in Members[c], NEW q \in Members[c]
        PROVE  Turns(mail[<<c, p, q>>], ConOf(p), Speaks(c, q, p, "agree"), Speaks(c, p, q, "link"))
    <3>1. mail[<<c, p, q>>] = <<>>
      BY <2>1, RouteFacts
    <3>2. Speaks(c, q, p, "agree") = FALSE /\ Speaks(c, p, q, "link") = FALSE
      BY <1>0, <1>1 DEF Speaks
    <3>3. Turns(<<>>, ConOf(p), FALSE, FALSE)
      <4>1. <<>> \in Seq(Con \cup {"ret"}) /\ Len(<<>>) = 0 /\ DOMAIN <<>> = {}
        OBVIOUS
      <4>2. (0 + 1) % 2 = 1
        OBVIOUS
      <4>3. (((Len(<<>>) + 1) % 2 = 1) = FALSE) = FALSE
        BY <4>1, <4>2
      <4> QED
        BY <4>1, <4>3 DEF Turns
    <3> QED
      BY <3>1, <3>2, <3>3
  <2> QED
    BY <2>1, <2>2 DEF MailInv
<1>7. SessionInv
  BY <1>1 DEF SessionInv
<1> QED
  BY <1>2, <1>3, <1>4, <1>5, <1>6, <1>7

LEMMA InitPosts ==
  ASSUME Init
  PROVE  PostInv /\ LockInv /\ WireInv /\ DataInv /\ SentInv /\ FlagAfterData
<1>1. \A c \in Comms : \A p \in Members[c] :
        /\ stream[c][p] = <<>> /\ stage[c][p] = "start" /\ sent[c][p] = 0 /\ wire[FlagQp(c, p)] = <<>>
        /\ DOMAIN stream[c][p] = {} /\ DOMAIN wire[FlagQp(c, p)] = {} /\ ~HasPost(c, p)
  <2>1. \A c \in Comms : \A p \in Members[c] : FlagQp(c, p) \in Qps
    BY QpFacts DEF FlagQp
  <2>2. \A c \in Comms : \A p \in Members[c] :
          stream[c][p] = <<>> /\ stage[c][p] = "start" /\ sent[c][p] = 0 /\ wire[FlagQp(c, p)] = <<>>
    BY <2>1 DEF Init
  <2> QED
    BY <2>2 DEF HasPost
<1>2. \A qp \in Qps : wire[qp] = <<>> /\ cq[qp] = 0
  BY DEF Init
<1>3. PostInv
  BY <1>1 DEF PostInv
<1>4. LockInv
  BY <1>1 DEF LockInv
<1>5. WireInv
  BY <1>2 DEF WireInv
<1>6. DataInv
  <2>1. \A qp \in Qps : \A c \in Comms : ~Polls(c, qp)
    BY <1>1 DEF Polls, AtPost
  <2> QED
    BY <1>2, <2>1 DEF DataInv
<1>7. SentInv
  <2>1. \A m : m \notin 1 .. 0
    OBVIOUS
  <2> QED
    BY <1>1, <2>1 DEF SentInv
<1>8. FlagAfterData
  <2>1. \A c \in Comms : \A p, q \in Members[c] : flag[<<c, p, q>>] = 0
    BY RouteFacts, Zenon DEF Init
  <2> QED
    BY <2>1 DEF FlagAfterData
<1> QED
  BY <1>3, <1>4, <1>5, <1>6, <1>7, <1>8

-----------------------------------------------------------------------------
(* The invariant.                                                          *)

LEMMA Stutters ==
  ASSUME IInv, UNCHANGED vars
  PROVE  IInv'
<1>0. /\ UNCHANGED <<prog, todo, pc, type, box, left, sock, listen, accepts, mail, pair, copied, made, freed>>
      /\ UNCHANGED <<lock, stream, stage, wire, cq, landed, flag, sent, disturbed, failures, timeouts>>
  BY DEF vars, exchange, handles, post
<1>1. HostType' /\ BoxType' /\ PairType' /\ StreamType'
  BY <1>0 DEF IInv, HostType, BoxType, PairType, StreamType, Table
<1>2. /\ \A k, p, q : Pair(p, k, q)' = Pair(p, k, q)
      /\ \A c, p : NextReady(c, p)' <=> NextReady(c, p)
      /\ \A c, p, q : Initialized(c, p, q)' <=> Initialized(c, p, q)
  BY <1>0 DEF Pair, NextReady, Initialized
<1>3. /\ \A c, p : /\ Fresh(c, p)' <=> Fresh(c, p)
                   /\ Creating(c, p)' <=> Creating(c, p)
                   /\ HasPost(c, p)' <=> HasPost(c, p)
      /\ \A p, d : Doing(p, d)' <=> Doing(p, d)
      /\ \A p : Current(p)' = Current(p) /\ Peer(p)' = Peer(p)
  BY <1>0 DEF Fresh, Creating, HasPost, Doing, Current, Peer
<1>4. CtlInv'
  BY <1>0, <1>3 DEF IInv, CtlInv, Ctl, Doing, Current, Peer
<1>5. TodoInv'
  BY <1>0, <1>2, <1>3 DEF IInv, TodoInv, Todo
<1>6. /\ \A c, i : (ok(c, i)' <=> ok(c, i)) /\ (Known(c, i)' <=> Known(c, i))
      /\ \A c, t : pos(c, t)' = pos(c, t)
      /\ \A c, p : Settled(c, p)' <=> Settled(c, p)
  BY <1>0, BoxSame
<1>7. BoxInv'
  <2>1. \A c, p : BoxAt(c, p) => BoxAt(c, p)'
    <3>1. SUFFICES ASSUME NEW c, NEW p, BoxAt(c, p), NEW t, t = type[p], NEW n, n = Len(box[c][p])
                   PROVE  BoxAt(c, p)'
      OBVIOUS
    <3> QED
      BY <1>0, <1>3, <1>6, <3>1 DEF BoxAt
  <2> QED
    BY <2>1 DEF IInv, BoxInv
<1>8. ValueInv'
  <2>1. \A c, p, t : ValueAt(c, p, t) => ValueAt(c, p, t)'
    BY <1>0, <1>6 DEF ValueAt
  <2> QED
    BY <2>1 DEF IInv, ValueInv
<1>9. OwnInv'
  BY <1>0 DEF IInv, OwnInv
<1>10. CreateInv'
  BY <1>0, <1>2, <1>3 DEF IInv, CreateInv, Doing, Current
<1>11. MailInv'
  BY <1>0 DEF IInv, MailInv, Speaks
<1>12. SessionInv'
  BY <1>0, <1>2, <1>3 DEF IInv, SessionInv, Current, Peer
<1>13. PostInv'
  BY <1>0, <1>2, <1>3, <1>6 DEF IInv, PostInv
<1>14. LockInv'
  BY <1>0 DEF IInv, LockInv
<1>15. WireInv'
  BY <1>0, <1>2 DEF IInv, WireInv
<1>16. DataInv'
  BY <1>0 DEF IInv, DataInv, Polls, AtPost
<1>17. SentInv'
  BY <1>0 DEF IInv, SentInv, Landed
<1>18. FlagAfterData'
  BY <1>0 DEF IInv, FlagAfterData
<1> QED
  BY <1>1, <1>4, <1>5, <1>7, <1>8, <1>9, <1>10, <1>11, <1>12, <1>13, <1>14, <1>15, <1>16, <1>17, <1>18 DEF IInv

LEMMA Steps ==
  ASSUME IInv, Next
  PROVE  IInv'
<1>1. PairsInv /\ TodoInv /\ StreamType /\ PostInv /\ LockInv /\ WireInv /\ DataInv /\ SentInv /\ FlagAfterData
  BY DEF IInv, PairsInv
<1>2. HostType /\ CtlInv /\ PairType /\ BoxType /\ OwnInv
  BY DEF IInv
<1>3. HostType' /\ CtlInv' /\ StreamType'
  BY <1>1, <1>2, HostTypeNext, CtlNext, StreamTypeNext
<1>4. PairType' /\ OwnInv' /\ BoxType' /\ TodoInv'
  BY <1>1, <1>2, PairNext, BoxNext, TodoNext
<1>5. BoxInv' /\ ValueInv' /\ CreateInv' /\ MailInv'
  BY <1>1, BoxInvNext, ValueInvNext, CreateInvNext, MailNext
<1>6. SessionInv' /\ PostInv' /\ LockInv' /\ WireInv'
  BY <1>1, SessionNext, PostNext, LockNext, WireNext
<1>7. DataInv' /\ SentInv' /\ FlagAfterData'
  BY <1>1, <1>2, DataNext, SentNext, FlagAfterDataNext
<1> QED
  BY <1>3, <1>4, <1>5, <1>6, <1>7 DEF IInv

LEMMA Invariant == Spec => []IInv
<1>1. Init => IInv
  BY InitHost, InitTodo, InitGathers, InitPosts DEF IInv
<1>2. IInv /\ [Next]_vars => IInv'
  BY Steps, Stutters
<1> QED
  BY <1>1, <1>2, PTL DEF Spec

\* No two processes of a node are within a post of a communicator that has a
\* lock: whoever is within one is who the lock of its node names, and the
\* mutex is initialised again by a process of the node only before the
\* others have left the creation (tcclPostIbFunc, tcclIbHostLockInit).
THEOREM NeverTwoPosters == Spec => []OnePoster
<1>1. IInv => OnePoster
  <2> SUFFICES ASSUME IInv, NEW c \in Comms, hasLock[c], NEW p \in Members[c], NEW q \in OnMyNode[c][p] \ {p},
                      stage[c][p] # "start", stage[c][q] # "start"
               PROVE  FALSE
    BY DEF OnePoster
  <2>1. q \in Members[c] /\ q \in OnMyNode[c][q]
    BY NodeMates
  <2>2. lock[c][q] = p /\ lock[c][q] = q
    BY <2>1 DEF IInv, LockInv
  <2> QED
    BY <2>2
<1> QED
  BY <1>1, Invariant, PTL

\* A flag is never there before the data it announces, in however many
\* communicators, over however many nodes: as long as no poll gave up and no
\* two communicators posted to the peer at the same time the one completion
\* on a QP for data is that of the post that polls for it (tcclPostIbFunc).
THEOREM FlagsFollowData == Spec => []FlagAfterData
BY Invariant, PTL DEF IInv

-----------------------------------------------------------------------------
(* Memory regions.  Where nothing has failed, and a process has its        *)
(* neighbours as in MetAtFirst, what it has made fits, and the pairs of a  *)
(* kind that communicators share are of one domain: that of the pair that  *)
(* was the first in its first communicator.                                *)

\* Handles of one domain, and pairs whose sides were made in the same domains.
Fit(r) == r.qp # Null /\ r.pd # Null /\ r.mr = r.pd /\ r.qppd = r.pd
Fits(e) == Fit(e.send) /\ Fit(e.recv)
Alike(e, f) == e.send.pd = f.send.pd /\ e.recv.pd = f.recv.pd

\* The program of a process, its first communicator, and which it ever uses.
AllCalls(p) == CallsOf(prog, p)
Home(p) == AllCalls(p)[1].comm
InCalls(c, p) == \E i \in DOMAIN AllCalls(p) : AllCalls(p)[i].comm = c

\* The process has not come to the pairs of a type of a communicator.
Unmade(c, p, t) ==
  /\ Fresh(c, p)
  /\ Creating(c, p) => pc[p] \notin {"lock", "barrier"} /\ t >= type[p] /\ (t = type[p] => pc[p] = "call")

\* Whose handles were lent, and that what is left to do is of the program: the
\* first communicator is not left out while others are created.
CopiedType ==
  /\ copied = [c \in Comms |-> [p \in Members[c] |-> [t \in 0 .. 2 |-> copied[c][p][t]]]]
  /\ \A c \in Comms : \A p \in Members[c] : \A t \in 0 .. 2 : copied[c][p][t] \in Procs \cup {Nobody}
Left(p) ==
  /\ \A i \in DOMAIN todo[p] : InCalls(todo[p][i].comm, p)
  /\ AllCalls(p) # <<>> /\ Fresh(Home(p), p) => Creating(Home(p), p)

\* All pairs fit; those for posts are of one domain; the first communicator has
\* made its pairs of a type before any other has; once made, they are lent.
FitAt(p) == \A k \in Kinds : \A q : Pair(p, k, q) = NoPair \/ Fits(Pair(p, k, q))
AlikeAt(p) ==
  \A k \in Posts : \A q, r :
    Pair(p, k, q) # NoPair /\ Pair(p, k, r) # NoPair => Alike(Pair(p, k, q), Pair(p, k, r))
HomeAt(p) ==
  \A h : AllCalls(p) # <<>> /\ h = Home(p) => \A t \in {0, 1} :
    IF Unmade(h, p, t)
    THEN \A q : Pair(p, Kind(h, t), q) = NoPair
    ELSE \A q \in RingPeers(h, p) : Pair(p, Kind(h, t), q) # NoPair
LendAt(p) ==
  \A c : InCalls(c, p) => \A t \in {0, 1} :
    /\ ~Unmade(c, p, t) => copied[c][p][t] \in RingPeers(c, p)
    /\ ~Fresh(c, p) => \A q \in RingPeers(c, p) : Pair(p, Kind(c, t), q).initialized

Keyed(p) == FitAt(p) /\ AlikeAt(p) /\ HomeAt(p) /\ LendAt(p)
KeyInv ==
  /\ CopiedType
  /\ \A p \in Procs : Left(p)
  /\ failures = 0 => freed = {} /\ \A p \in Procs : MetAtFirst(p) => Keyed(p)

\* What is made fits if what it is made from does, and is of that domain.
LEMMA Makes ==
  ASSUME NEW e \in Pairs, NEW p \in Nat, NEW n \in Nat,
         e.send.mr = e.send.pd, e.recv.mr = e.recv.pd, e.initialized => Fits(e),
         NEW x, x = CreatePair(e, <<p, n>>)
  PROVE  /\ Fits(x)
         /\ e.send.pd # Null => x.send.pd = e.send.pd
         /\ e.recv.pd # Null => x.recv.pd = e.recv.pd
<1>1. e.send \in Res /\ e.recv \in Res /\ e.initialized \in BOOLEAN
  BY DEF Pairs
<1>2. ASSUME NEW a \in Res, NEW new \in Names, new # Null, a.mr = a.pd
      PROVE  Fit(resources_create(a, new)) /\ (a.pd # Null => resources_create(a, new).pd = a.pd)
  <2>1. CASE a.pd = Null
    <3>1. resources_create(a, new) = [a EXCEPT !.pd = new, !.mr = new, !.qp = new, !.qppd = new]
      BY <1>2, <2>1 DEF resources_create, Res
    <3> QED
      BY <1>2, <2>1, <3>1 DEF Fit, Res
  <2>2. CASE a.pd # Null
    <3>1. resources_create(a, new) = [a EXCEPT !.pd = a.pd, !.mr = a.mr, !.qp = new, !.qppd = a.pd]
      BY <1>2, <2>2 DEF resources_create, Res
    <3> QED
      BY <1>2, <2>2, <3>1 DEF Fit, Res
  <2> QED
    BY <2>1, <2>2
<1> DEFINE s == Append(<<p, n>>, 1)
           r == Append(<<p, n>>, 2)
<1>3. s \in Names /\ s # Null /\ r \in Names /\ r # Null
  BY NamesFacts
<1>4. CASE e.initialized
  BY <1>4 DEF CreatePair
<1>5. CASE ~e.initialized
  <2>1. x = [e EXCEPT !.send = resources_create(e.send, s), !.recv = resources_create(e.recv, r)]
    BY <1>5 DEF CreatePair, Pairs
  <2>2. x.send = resources_create(e.send, s) /\ x.recv = resources_create(e.recv, r)
    BY <2>1 DEF Pairs
  <2> HIDE DEF s, r
  <2> QED
    BY <1>1, <1>2, <1>3, <2>2 DEF Fits
<1> QED
  BY <1>4, <1>5

LEMMA NoPairFits == NoPair.send.mr = NoPair.send.pd /\ NoPair.recv.mr = NoPair.recv.pd /\ ~Fits(NoPair)
BY DEF NoPair, NoRes, Fits, Fit

\* So is what is made with the handles of another pair.
LEMMA Lends ==
  ASSUME NEW e \in Pairs, NEW g \in Pairs, Fits(g), e = NoPair \/ (Fits(e) /\ Alike(e, g)),
         NEW p \in Nat, NEW n \in Nat, NEW x, x = CreatePair(CopyPair(e, g), <<p, n>>)
  PROVE  Fits(x) /\ Alike(x, g)
<1> DEFINE y == CopyPair(e, g)
<1>1. e.send \in Res /\ e.recv \in Res /\ g.send \in Res /\ g.recv \in Res
  BY DEF Pairs
<1>2. y = [e EXCEPT !.send = IB_COPY(e.send, g.send), !.recv = IB_COPY(e.recv, g.recv)]
  BY DEF CopyPair, Pairs
<1>3. y.send = IB_COPY(e.send, g.send) /\ y.recv = IB_COPY(e.recv, g.recv) /\ y.initialized = e.initialized
  BY <1>2 DEF Pairs
<1>4. ASSUME NEW a \in Res, NEW b \in Res
      PROVE  LET z == IB_COPY(a, b) IN z.pd = b.pd /\ z.mr = b.mr /\ z.qp = a.qp /\ z.qppd = a.qppd
  BY DEF IB_COPY, Res
<1>5. y \in Pairs
  BY CopyOps
<1> HIDE DEF y
<1>6. /\ y.send.pd = g.send.pd /\ y.send.mr = g.send.mr /\ y.send.qp = e.send.qp /\ y.send.qppd = e.send.qppd
      /\ y.recv.pd = g.recv.pd /\ y.recv.mr = g.recv.mr /\ y.recv.qp = e.recv.qp /\ y.recv.qppd = e.recv.qppd
  BY <1>1, <1>3, <1>4
<1>7. y.send.mr = y.send.pd /\ y.recv.mr = y.recv.pd /\ y.send.pd # Null /\ y.recv.pd # Null
  BY <1>6 DEF Fits, Fit
<1>8. y.initialized => Fits(y)
  <2>1. y.initialized => Fits(e) /\ Alike(e, g)
    BY <1>3, NoPairType
  <2> QED
    BY <1>6, <1>7, <2>1 DEF Fits, Fit, Alike
<1>9. x = CreatePair(y, <<p, n>>)
  BY DEF y
<1> QED
  BY <1>5, <1>6, <1>7, <1>8, <1>9, Makes DEF Alike

LEMMA Joins ==
  ASSUME NEW e \in Pairs, NEW m, Fits(e), NEW x, x = connect_qp(e, m)
  PROVE  Fits(x) /\ Alike(x, e)
<1>1. CASE e.initialized
  BY <1>1 DEF connect_qp, Alike
<1>2. CASE ~e.initialized
  <2> DEFINE s == [e.send EXCEPT !.remote = m.recv]
             r == [e.recv EXCEPT !.remote = m.send]
  <2>1. e.send \in Res /\ e.recv \in Res
    BY DEF Pairs
  <2>2. /\ s.pd = e.send.pd /\ s.mr = e.send.mr /\ s.qp = e.send.qp /\ s.qppd = e.send.qppd
        /\ r.pd = e.recv.pd /\ r.mr = e.recv.mr /\ r.qp = e.recv.qp /\ r.qppd = e.recv.qppd
    BY <2>1 DEF Res
  <2>3. x = [e EXCEPT !.send = s, !.recv = r, !.initialized = TRUE]
    BY <1>2 DEF connect_qp, Pairs
  <2> HIDE DEF s, r
  <2>4. x.send = s /\ x.recv = r
    BY <2>3 DEF Pairs
  <2> QED
    BY <2>2, <2>4 DEF Fits, Fit, Alike
<1> QED
  BY <1>1, <1>2

-----------------------------------------------------------------------------
(* Which pairs have been made.                                             *)

\* The calls of a process as the program has them.
LEMMA CallsTyped ==
  ASSUME HostType, NEW p \in Procs
  PROVE  /\ AllCalls(p) \in Seq(Calls) /\ InOrder(AllCalls(p))
         /\ \A c : InCalls(c, p) => c \in Comms /\ p \in Members[c]
         /\ AllCalls(p) # <<>> => InCalls(Home(p), p) /\ AllCalls(p)[1] = Call("create", Home(p))
<1> DEFINE s == AllCalls(p)
<1>1. prog \in Programs
  BY DEF HostType
<1>2. s = CallsOf(prog, p)
  BY DEF AllCalls
<1> HIDE DEF s
<1>3. s \in Seq(Calls) /\ InOrder(s) /\ \A i \in DOMAIN s : p \in Members[s[i].comm]
  BY <1>1, <1>2, ProgramFacts
<1>4. \A i \in DOMAIN s : s[i] \in Calls
  BY <1>3
<1>5. \A c : InCalls(c, p) => c \in Comms /\ p \in Members[c]
  BY <1>3, <1>4 DEF InCalls, Calls, s
<1>6. ASSUME s # <<>>
      PROVE  InCalls(Home(p), p) /\ s[1] = Call("create", Home(p))
  <2>1. 1 \in DOMAIN s
    BY <1>3, <1>6
  <2>2. InCalls(Home(p), p)
    BY <2>1 DEF InCalls, Home, s
  <2>3. PICK j \in 1 .. 1 : s[j] = Call("create", s[1].comm)
    BY <1>3, <2>1, Begins
  <2> QED
    BY <2>2, <2>3 DEF Home, s
<1> QED
  BY <1>3, <1>5, <1>6 DEF s

\* A process creates in order, and leaves the creation when all is made.
LEMMA FreshGone ==
  ASSUME HostType, CtlInv, Next, NEW c, NEW p \in Procs, Fresh(c, p), ~Fresh(c, p)'
  PROVE  Creating(c, p) /\ pc[p] = "barrier" /\ UNCHANGED pair
<1>1. todo'[p] # todo[p]
  BY DEF Fresh
<1>2. Process(p)
  <2>1. PICK o \in Procs : Process(o)
    BY <1>1, OthersHost DEF HostVars
  <2>2. o # p => todo'[p] = todo[p]
    BY <2>1, OwnCourse DEF HostType
  <2> QED
    BY <1>1, <2>1, <2>2
<1>3. /\ todo[p] # <<>> /\ todo' = [todo EXCEPT ![p] = Tail(todo[p])]
      /\ \/ Created(p) /\ Doing(p, "create") /\ pc[p] = "barrier" /\ UNCHANGED pair
         \/ SkipPeer(p) /\ Doing(p, "connect") /\ pc[p] = "peer" /\ left[p] = {} /\ UNCHANGED pair
         \/ QueuePost(p) /\ Head(todo[p]).do \in Posts /\ pc[p] = "call"
         \/ tcclAllRankIbFini(p) /\ Doing(p, "destroy") /\ pc[p] = "call"
  BY <1>1, <1>2, Returns
<1>4. todo[p] \in Seq(Calls) /\ todo'[p] = Tail(todo[p])
  BY <1>3 DEF HostType
<1>5. /\ Len(todo[p]) \in Nat \ {0} /\ Head(todo[p]) = todo[p][1] /\ Len(todo'[p]) = Len(todo[p]) - 1
      /\ todo'[p] \in Seq(Calls)
      /\ \A i \in 1 .. Len(todo[p]) - 1 : todo'[p][i] = todo[p][i + 1]
  BY <1>3, <1>4, Tailed
<1>6. Head(todo[p]) = Call("create", c)
  <2>1. PICK i \in DOMAIN todo[p] : todo[p][i] = Call("create", c)
    BY DEF Fresh
  <2>2. SUFFICES ASSUME i # 1 PROVE FALSE
    BY <1>5, <2>1
  <2>3. i - 1 \in 1 .. Len(todo[p]) - 1 /\ i - 1 \in DOMAIN todo'[p] /\ (i - 1) + 1 = i
    BY <1>4, <1>5, <2>2
  <2>4. todo'[p][i - 1] = Call("create", c)
    BY <1>5, <2>1, <2>3
  <2> QED
    BY <2>3, <2>4 DEF Fresh
<1>7. Head(todo[p]).do = "create"
  BY <1>6 DEF Call
<1> QED
  BY <1>3, <1>6, <1>7 DEF Creating, Posts, Doing

\* Each communicator is created once.
LEMMA CreatedOnce ==
  ASSUME TodoInv, NEW p \in Procs, todo[p] \in Seq(Calls), NEW c, Creating(c, p), todo'[p] = Tail(todo[p])
  PROVE  ~Fresh(c, p)'
<1>1. /\ Head(todo[p]) = todo[p][1] /\ Len(todo'[p]) = Len(todo[p]) - 1 /\ todo'[p] \in Seq(Calls)
      /\ Len(todo[p]) \in Nat \ {0} /\ \A i \in 1 .. Len(todo[p]) - 1 : todo'[p][i] = todo[p][i + 1]
  BY Tailed DEF Creating
<1>2. SUFFICES ASSUME NEW i \in DOMAIN todo'[p], todo'[p][i] = Call("create", c)
               PROVE  FALSE
  BY DEF Fresh
<1>3. i + 1 \in DOMAIN todo[p] /\ todo[p][i + 1] = Call("create", c) /\ 1 \in DOMAIN todo[p] /\ 1 < i + 1
  BY <1>1, <1>2
<1>4. todo[p][1] = Call("create", c)
  BY <1>1 DEF Creating
<1>5. todo[p][1].comm = todo[p][i + 1].comm /\ todo[p][i + 1].do = "create"
  BY <1>3, <1>4 DEF Call
<1> QED
  BY <1>3, <1>5 DEF TodoInv, Todo

\* A process that returns is where it was in other creations.
LEMMA UnmadeReturn ==
  ASSUME HostType, CtlInv, TodoInv, NEW p \in Procs, Process(p), todo'[p] # todo[p], NEW c, NEW t \in {0, 1}
  PROVE  Unmade(c, p, t)' <=> Unmade(c, p, t)
<1>1. /\ todo[p] # <<>> /\ todo' = [todo EXCEPT ![p] = Tail(todo[p])] /\ pc'[p] = "call" /\ type'[p] = 0
      /\ Doing(p, "create") => pc[p] = "barrier"
  BY Returns, Zenon DEF Doing, Posts
<1>2. todo[p] \in Seq(Calls) /\ todo'[p] = Tail(todo[p])
  BY <1>1 DEF HostType
<1>3. /\ Len(todo[p]) \in Nat \ {0} /\ Head(todo[p]) = todo[p][1] /\ Len(todo'[p]) = Len(todo[p]) - 1
      /\ todo'[p] \in Seq(Calls)
      /\ \A i \in 1 .. Len(todo[p]) - 1 : todo'[p][i] = todo[p][i + 1]
  BY <1>1, <1>2, Tailed
<1>4. Unmade(c, p, t)' <=> Fresh(c, p)'
  <2>1. 0 <= t /\ pc'[p] \notin {"lock", "barrier"}
    BY <1>1
  <2> QED
    BY <1>1, <2>1 DEF Unmade
<1>5. Fresh(c, p)' => Fresh(c, p)
  <2>1. ASSUME NEW i \in DOMAIN todo'[p]
        PROVE  i + 1 \in DOMAIN todo[p] /\ todo'[p][i] = todo[p][i + 1]
    BY <1>2, <1>3
  <2> QED
    BY <2>1 DEF Fresh
<1>6. CASE Creating(c, p)
  <2>1. ~Unmade(c, p, t)
    BY <1>1, <1>6 DEF Unmade, Creating, Doing, Call
  <2>2. ~Fresh(c, p)'
    BY <1>1, <1>2, <1>6, CreatedOnce
  <2> QED
    BY <1>4, <2>1, <2>2
<1>7. CASE ~Creating(c, p)
  <2>1. Unmade(c, p, t) <=> Fresh(c, p)
    BY <1>7 DEF Unmade
  <2>2. ASSUME Fresh(c, p)
        PROVE  Fresh(c, p)'
    <3>1. PICK i \in DOMAIN todo[p] : todo[p][i] = Call("create", c)
      BY <2>2 DEF Fresh
    <3>2. i # 1
      BY <1>1, <1>3, <1>7, <3>1 DEF Creating
    <3>3. i - 1 \in 1 .. Len(todo[p]) - 1 /\ i - 1 \in DOMAIN todo'[p] /\ (i - 1) + 1 = i
      BY <1>2, <1>3, <3>2
    <3>4. todo'[p][i - 1] = Call("create", c)
      BY <1>3, <3>1, <3>3
    <3> QED
      BY <3>3, <3>4 DEF Fresh
  <2> QED
    BY <1>4, <1>5, <2>1, <2>2
<1> QED
  BY <1>6, <1>7

\* Only tcclIbPairInit makes the pairs of a communicator's creation.
LEMMA UnmadeNext ==
  ASSUME HostType, CtlInv, TodoInv, Next, NEW c, NEW p \in Procs, NEW t \in {0, 1}
  PROVE  Unmade(c, p, t)' <=> Unmade(c, p, t) /\ ~(PairCreate(p) /\ c = Current(p) /\ t = type[p])
<1>1. PairCreate(p) => /\ pc[p] = "call" /\ pc'[p] = "rets" /\ UNCHANGED <<todo, type>>
                       /\ Doing(p, "create")
  BY Course, Zenon DEF PairCreate
<1>2. CASE todo'[p] = todo[p] /\ pc'[p] = pc[p] /\ type'[p] = type[p]
  <2>1. ~PairCreate(p)
    BY <1>1, <1>2
  <2> QED
    BY <1>2, <2>1 DEF Unmade, Fresh, Creating
<1>3. CASE ~Process(p)
  <2>1. todo'[p] = todo[p] /\ pc'[p] = pc[p] /\ type'[p] = type[p]
    <3>1. CASE \E o \in Procs : Process(o)
      <4>1. PICK o \in Procs : Process(o)
        BY <3>1
      <4> QED
        BY <1>3, <4>1, OwnCourse DEF HostType
    <3>2. CASE ~ \E o \in Procs : Process(o)
      BY <3>2, OthersHost DEF HostVars
    <3> QED
      BY <3>1, <3>2
  <2> QED
    BY <1>2, <2>1
<1>4. CASE Process(p) /\ todo'[p] # todo[p]
  <2>1. ~PairCreate(p)
    BY <1>1, <1>4
  <2> QED
    BY <1>4, <2>1, UnmadeReturn
<1>5. ASSUME Process(p), todo'[p] = todo[p], ~Creating(c, p)
      PROVE  Unmade(c, p, t)' <=> Unmade(c, p, t) /\ ~(PairCreate(p) /\ c = Current(p) /\ t = type[p])
  <2>1. ~(PairCreate(p) /\ c = Current(p))
    BY <1>1, <1>5, CallFacts DEF Doing, Creating, Current, Call, Calls
  <2>2. ~Creating(c, p)'
    BY <1>5 DEF Creating
  <2>3. Fresh(c, p)' <=> Fresh(c, p)
    BY <1>5 DEF Fresh
  <2> QED
    BY <1>5, <2>1, <2>2, <2>3 DEF Unmade
<1>6. ASSUME Process(p), todo'[p] = todo[p], Creating(c, p)
      PROVE  Unmade(c, p, t)' <=> Unmade(c, p, t) /\ ~(PairCreate(p) /\ c = Current(p) /\ t = type[p])
  <2>1. Doing(p, "create") /\ c = Current(p)
    BY <1>6 DEF Doing, Creating, Current, Call
  <2>2. Creating(c, p)'
    BY <1>6 DEF Creating
  <2>3. Fresh(c, p)' <=> Fresh(c, p)
    BY <1>6 DEF Fresh
  <2>4. type[p] \in {0, 1, 2}
    BY DEF HostType
  <2>5. CASE PairCreate(p)
    BY <1>1, <1>6, <2>1, <2>2, <2>3, <2>4, <2>5 DEF Unmade
  <2>6. CASE PairTell(p) \/ PairConnect(p)
    <3>1. pc[p] \in {"rets", "qps"} /\ ((pc'[p] = "qps" /\ UNCHANGED type) \/ NextType(p))
      <4>1. CASE PairTell(p)
        BY <4>1, Course, Zenon DEF PairTell
      <4>2. CASE PairConnect(p)
        BY <4>2, Zenon DEF PairConnect
      <4> QED
        BY <2>6, <4>1, <4>2
    <3>2. ~PairCreate(p)
      BY <1>1, <3>1
    <3>3. \/ pc'[p] = "qps" /\ type'[p] = type[p]
          \/ pc'[p] = "lock" /\ type[p] = 2
          \/ pc'[p] = "call" /\ type'[p] = type[p] + 1
      BY <3>1, Course
    <3> QED
      BY <1>6, <2>2, <2>3, <2>4, <3>1, <3>2, <3>3 DEF Unmade
  <2>7. CASE tcclIbHostLockInit(p)
    <3>1. pc[p] = "lock" /\ pc'[p] = "barrier"
      BY <2>7, Course, Zenon DEF tcclIbHostLockInit
    <3>2. ~PairCreate(p)
      BY <1>1, <3>1
    <3> QED
      BY <1>6, <2>2, <2>3, <3>1, <3>2 DEF Unmade
  <2> QED
    BY <1>6, <2>1, <2>5, <2>6, <2>7, CreateSteps
<1> QED
  BY <1>3, <1>4, <1>5, <1>6

\* What a process has left it has of the program, and it creates its first
\* communicator before it does anything else.
LEMMA LeftNext ==
  ASSUME HostType, CtlInv, TodoInv, Next, NEW p \in Procs, Left(p)
  PROVE  Left(p)'
<1>1. /\ prog' = prog
      /\ todo'[p] = todo[p] \/ (todo[p] # <<>> /\ todo'[p] = Tail(todo[p]))
  <2>1. CASE \E o \in Procs : Process(o)
    <3>1. PICK o \in Procs : Process(o)
      BY <2>1
    <3>2. /\ prog' = prog
          /\ todo' = [todo EXCEPT ![o] = todo'[o]]
          /\ todo'[o] = todo[o] \/ (todo[o] # <<>> /\ todo'[o] = Tail(todo[o]))
      BY <3>1, OwnCourse
    <3> QED
      BY <3>2 DEF HostType
  <2>2. CASE ~ \E o \in Procs : Process(o)
    BY <2>2, OthersHost DEF HostVars
  <2> QED
    BY <2>1, <2>2
<1>2. AllCalls(p)' = AllCalls(p) /\ Home(p)' = Home(p) /\ \A c : InCalls(c, p)' <=> InCalls(c, p)
  <2>1. AllCalls(p)' = AllCalls(p)
    BY <1>1 DEF AllCalls
  <2> QED
    BY <2>1 DEF Home, InCalls
<1>3. todo[p] \in Seq(Calls)
  BY DEF HostType
<1>4. \A i \in DOMAIN todo'[p] : \E j \in DOMAIN todo[p] : todo'[p][i] = todo[p][j]
  <2>1. CASE todo[p] # <<>> /\ todo'[p] = Tail(todo[p])
    <3>1. /\ Len(todo'[p]) = Len(todo[p]) - 1 /\ todo'[p] \in Seq(Calls) /\ Len(todo[p]) \in Nat \ {0}
          /\ \A i \in 1 .. Len(todo[p]) - 1 : todo'[p][i] = todo[p][i + 1]
      BY <1>3, <2>1, Tailed
    <3>2. ASSUME NEW i \in DOMAIN todo'[p]
          PROVE  i + 1 \in DOMAIN todo[p] /\ todo'[p][i] = todo[p][i + 1]
      BY <1>3, <3>1
    <3> QED
      BY <3>2
  <2> QED
    BY <1>1, <2>1
<1>5. \A i \in DOMAIN todo'[p] : InCalls(todo'[p][i].comm, p)
  BY <1>4 DEF Left
<1>6. ASSUME NEW h, h = Home(p), AllCalls(p) # <<>>, Fresh(h, p)'
      PROVE  Creating(h, p)'
  <2>1. Creating(h, p)
    BY <1>6, FreshBack DEF Left
  <2>2. todo'[p] # Tail(todo[p])
    BY <1>3, <1>6, <2>1, CreatedOnce
  <2>3. todo'[p] = todo[p]
    BY <1>1, <2>2
  <2> QED
    BY <2>1, <2>3 DEF Creating
<1>7. AllCalls(p) # <<>> /\ Fresh(Home(p), p)' => Creating(Home(p), p)'
  <2>1. \A h : h = Home(p) /\ AllCalls(p) # <<>> /\ Fresh(h, p)' => Creating(h, p)'
    BY <1>6
  <2> QED
    BY <1>2, <2>1 DEF Fresh, Creating
<1> QED
  BY <1>2, <1>5, <1>7 DEF Left

\* Who changes handles.
LEMMA HandlesChange ==
  ASSUME NEW p, Process(p)
  PROVE  /\ PairCreate(p) \/ PairConnect(p) \/ Offer(p) \/ LinkPeer(p) \/ tcclAllRankIbFini(p) \/ UNCHANGED handles
         /\ PairCreate(p) \/ UNCHANGED freed
         /\ PairConnect(p) \/ Offer(p) => UNCHANGED copied
<1>1. PairTell(p) \/ tcclIbHostLockInit(p) \/ Created(p) \/ tcclAlltoall(p) \/ SkipPeer(p) \/ ConnectPeer(p)
        \/ TakeAccepted(p) \/ AcceptPeer(p) \/ Agree(p) \/ QueuePost(p) => UNCHANGED handles
  BY Zenon DEF PairTell, tcclIbHostLockInit, Created, tcclAlltoall, SkipPeer, ConnectPeer, TakeAccepted, AcceptPeer,
     Agree, QueuePost
<1>2. PairConnect(p) \/ Offer(p) => UNCHANGED <<copied, freed>>
  BY Zenon DEF PairConnect, Offer
<1>3. LinkPeer(p) \/ tcclAllRankIbFini(p) => UNCHANGED freed
  BY Zenon DEF LinkPeer, tcclAllRankIbFini
<1> QED
  BY <1>1, <1>2, <1>3 DEF Process, handles

CopiedTable(f) ==
  /\ f = [c \in Comms |-> [p \in Members[c] |-> [t \in 0 .. 2 |-> f[c][p][t]]]]
  /\ \A c \in Comms : \A p \in Members[c] : \A t \in 0 .. 2 : f[c][p][t] \in Procs \cup {Nobody}
SetsCopied(f, g, c, p, t, x) == g = [f EXCEPT ![c] = [f[c] EXCEPT ![p] = [f[c][p] EXCEPT ![t] = x]]]
LEMMA CopiedSet ==
  ASSUME NEW f, CopiedTable(f), NEW c \in Comms, NEW p \in Members[c], NEW t \in 0 .. 2,
         NEW x \in Procs \cup {Nobody}, NEW g, SetsCopied(f, g, c, p, t, x)
  PROVE  /\ CopiedTable(g)
         /\ \A d \in Comms : \A o \in Members[d] : \A s \in 0 .. 2 :
              g[d][o][s] = IF d = c /\ o = p /\ s = t THEN x ELSE f[d][o][s]
<1> DEFINE u == [f[c][p] EXCEPT ![t] = x]
           v == [f[c] EXCEPT ![p] = u]
<1>0. f = [d \in Comms |-> [o \in Members[d] |-> [s \in 0 .. 2 |-> f[d][o][s]]]]
  BY Zenon DEF CopiedTable
<1>1. \A d \in Comms : f[d] = [o \in Members[d] |-> [s \in 0 .. 2 |-> f[d][o][s]]]
  BY <1>0, Zenon
<1>2. \A d \in Comms : \A o \in Members[d] : f[d][o] = [s \in 0 .. 2 |-> f[d][o][s]]
  BY <1>1, Zenon
<1>3. u = [s \in 0 .. 2 |-> IF s = t THEN x ELSE f[c][p][s]]
  BY <1>2
<1>4. g = [f EXCEPT ![c] = v]
  BY Zenon DEF SetsCopied
<1> HIDE DEF u
<1>5. v = [o \in Members[c] |-> IF o = p THEN u ELSE f[c][o]]
  BY <1>1
<1> HIDE DEF v
<1>6. g = [d \in Comms |-> IF d = c THEN v ELSE f[d]]
  BY <1>0, <1>4
<1>7. \A d \in Comms : \A o \in Members[d] : \A s \in 0 .. 2 :
        g[d][o][s] = IF d = c /\ o = p /\ s = t THEN x ELSE f[d][o][s]
  BY <1>3, <1>5, <1>6
<1>8. \A d \in Comms : \A o \in Members[d] : g[d][o] = [s \in 0 .. 2 |-> g[d][o][s]]
  <2>1. SUFFICES ASSUME NEW d \in Comms, NEW o \in Members[d]
                 PROVE  g[d][o] = [s \in 0 .. 2 |-> g[d][o][s]]
    OBVIOUS
  <2>2. CASE d = c /\ o = p
    <3>1. g[d][o] = u
      BY <1>5, <1>6, <2>2
    <3> QED
      BY <1>3, <3>1
  <2>3. CASE ~(d = c /\ o = p)
    <3>1. g[d][o] = f[d][o]
      BY <1>5, <1>6, <2>3
    <3> QED
      BY <1>2, <3>1, Zenon
  <2> QED
    BY <2>2, <2>3
<1>9. \A d \in Comms : g[d] = [o \in Members[d] |-> g[d][o]]
  <2>1. SUFFICES ASSUME NEW d \in Comms
                 PROVE  g[d] = [o \in Members[d] |-> g[d][o]]
    OBVIOUS
  <2>2. CASE d = c
    BY <1>5, <1>6, <2>2
  <2>3. CASE d # c
    <3>1. g[d] = f[d]
      BY <1>6, <2>3
    <3>2. f[d] = [o \in Members[d] |-> f[d][o]]
      BY <1>1
    <3> QED
      BY <3>1, <3>2, Zenon
  <2> QED
    BY <2>2, <2>3
<1>10. g = [d \in Comms |-> g[d]]
  BY <1>6
<1>11. g = [d \in Comms |-> [o \in Members[d] |-> [s \in 0 .. 2 |-> g[d][o][s]]]]
  <2>1. \A d \in Comms : g[d] = [o \in Members[d] |-> [s \in 0 .. 2 |-> g[d][o][s]]]
    <3>1. SUFFICES ASSUME NEW d \in Comms
                   PROVE  g[d] = [o \in Members[d] |-> [s \in 0 .. 2 |-> g[d][o][s]]]
      OBVIOUS
    <3> DEFINE h == [o \in Members[d] |-> [s \in 0 .. 2 |-> g[d][o][s]]]
    <3>2. \A o \in Members[d] : h[o] = g[d][o]
      BY <1>8
    <3>3. h = [o \in Members[d] |-> h[o]]
      OBVIOUS
    <3> HIDE DEF h
    <3>4. h = [o \in Members[d] |-> g[d][o]]
      BY <3>2, <3>3
    <3>5. g[d] = h
      BY <1>9, <3>4
    <3> QED
      BY <3>5 DEF h
  <2> DEFINE h == [d \in Comms |-> [o \in Members[d] |-> [s \in 0 .. 2 |-> g[d][o][s]]]]
  <2>2. \A d \in Comms : h[d] = g[d]
    BY <2>1
  <2>3. h = [d \in Comms |-> h[d]]
    OBVIOUS
  <2> HIDE DEF h
  <2>4. h = [d \in Comms |-> g[d]]
    BY <2>2, <2>3
  <2>5. g = h
    BY <1>10, <2>4
  <2> QED
    BY <2>5 DEF h
<1>12. \A d \in Comms : \A o \in Members[d] : \A s \in 0 .. 2 : g[d][o][s] \in Procs \cup {Nobody}
  <2>1. \A d \in Comms : \A o \in Members[d] : \A s \in 0 .. 2 : f[d][o][s] \in Procs \cup {Nobody}
    BY Zenon DEF CopiedTable
  <2> QED
    BY <1>7, <2>1
<1> QED
  BY <1>7, <1>11, <1>12 DEF CopiedTable

\* Whose handles are lent: decided in the creation, or else by the first
\* that is linked.
LEMMA CopiedNext ==
  ASSUME HostType, CtlInv, CopiedType, Next
  PROVE  /\ CopiedType'
         /\ \A p \in Procs : ~PairCreate(p) => \A c \in Comms : p \in Members[c] =>
              \A t \in {0, 1} : copied[c][p][t] # Nobody => copied'[c][p][t] = copied[c][p][t]
         /\ \A p \in Procs : PairCreate(p) => \A c \in Comms : p \in Members[c] =>
              \A t \in {0, 1} : copied'[c][p][t] =
                IF c = Current(p) /\ t = type[p]
                THEN IF RingPeers(c, p) = {} THEN Nobody ELSE First(c, RingPeers(c, p))
                ELSE copied[c][p][t]
<1> DEFINE Good ==
             /\ CopiedType'
             /\ \A p \in Procs : ~PairCreate(p) => \A c \in Comms : p \in Members[c] =>
                  \A t \in {0, 1} : copied[c][p][t] # Nobody => copied'[c][p][t] = copied[c][p][t]
             /\ \A p \in Procs : PairCreate(p) => \A c \in Comms : p \in Members[c] =>
                  \A t \in {0, 1} : copied'[c][p][t] =
                    IF c = Current(p) /\ t = type[p]
                    THEN IF RingPeers(c, p) = {} THEN Nobody ELSE First(c, RingPeers(c, p))
                    ELSE copied[c][p][t]
<1>1. \A p \in Procs : PairCreate(p) => pc[p] = "call" /\ Doing(p, "create") /\ pc' = [pc EXCEPT ![p] = "rets"]
  BY Zenon DEF PairCreate, Goto
<1>2. \A p, o \in Procs : PairCreate(p) /\ Process(o) => o = p
  <2>1. ASSUME NEW p \in Procs, NEW o \in Procs, PairCreate(p), Process(o), o # p
        PROVE  FALSE
    <3>1. pc'[p] = "rets" /\ pc[p] = "call"
      BY <1>1, <2>1 DEF HostType
    <3>2. pc'[p] = pc[p]
      BY <2>1, OwnCourse DEF HostType
    <3> QED
      BY <3>1, <3>2
  <2> QED
    BY <2>1
<1>3. CASE UNCHANGED copied /\ ~ \E p \in Procs : PairCreate(p)
  BY <1>3 DEF CopiedType
<1>4. ASSUME NEW p \in Procs, Process(p), NEW c \in Comms, p \in Members[c], c = Current(p), NEW t \in 0 .. 2,
             NEW x \in Procs \cup {Nobody},
             SetsCopied(copied, copied', c, p, t, x),
             PairCreate(p) =>
               t = type[p] /\ x = IF RingPeers(c, p) = {} THEN Nobody ELSE First(c, RingPeers(c, p)),
             ~PairCreate(p) => t = 2 \/ copied[c][p][t] = Nobody \/ x = copied[c][p][t]
      PROVE  Good
  <2>1. /\ CopiedTable(copied')
        /\ \A d \in Comms : \A o \in Members[d] : \A s \in 0 .. 2 :
             copied'[d][o][s] = IF d = c /\ o = p /\ s = t THEN x ELSE copied[d][o][s]
    <3>1. CopiedTable(copied)
      BY DEF CopiedType, CopiedTable
    <3>2. SetsCopied(copied, copied', c, p, t, x) /\ p \in Members[c]
      BY <1>4
    <3> HIDE DEF Good
    <3> QED
      BY <3>1, <3>2, CopiedSet
  <2>2. CopiedType'
    BY <2>1 DEF CopiedTable, CopiedType
  <2>3. \A s \in {0, 1} : s \in 0 .. 2 /\ s # 2
    OBVIOUS
  <2>4. ASSUME NEW o \in Procs, ~PairCreate(o), NEW d \in Comms, o \in Members[d], NEW s \in {0, 1},
               copied[d][o][s] # Nobody
        PROVE  copied'[d][o][s] = copied[d][o][s]
    BY <1>4, <2>1, <2>3, <2>4
  <2>5. ASSUME NEW o \in Procs, PairCreate(o), NEW d \in Comms, o \in Members[d], NEW s \in {0, 1}
        PROVE  copied'[d][o][s] =
                 IF d = Current(o) /\ s = type[o]
                 THEN IF RingPeers(d, o) = {} THEN Nobody ELSE First(d, RingPeers(d, o))
                 ELSE copied[d][o][s]
    <3>1. o = p
      BY <1>2, <1>4, <2>5
    <3> QED
      BY <1>4, <2>1, <2>3, <2>5, <3>1
  <2> QED
    BY <2>2, <2>4, <2>5
<1>5. ASSUME NEW p \in Procs, Process(p)
      PROVE  Good
  <2> DEFINE c == Current(p)
  <2>1. CASE PairCreate(p)
    <3> DEFINE x == IF RingPeers(c, p) = {} THEN Nobody ELSE First(c, RingPeers(c, p))
    <3>1. c \in Comms /\ p \in Members[c]
      BY <1>1, <2>1, CallFacts, Zenon DEF Doing
    <3>2. RingPeers(c, p) \subseteq Members[c] /\ Members[c] \subseteq Procs
      BY <3>1, PeerFacts, CommFacts DEF RingPeers
    <3>3. x \in Procs \cup {Nobody}
      BY <3>1, <3>2, FirstIn
    <3>4. SetsCopied(copied, copied', c, p, type[p], x)
      BY <2>1, Zenon DEF SetsCopied, PairCreate, RingPeers
    <3>5. type[p] \in 0 .. 2
      BY DEF HostType
    <3> HIDE DEF c, x, Good
    <3> QED
      BY <1>4, <1>5, <2>1, <3>1, <3>3, <3>4, <3>5 DEF c, x
  <2>2. CASE LinkPeer(p)
    <3> DEFINE q == Peer(p)
               x == IF copied[c][p][type[p]] = Nobody /\ ~Pair(p, Kind(c, type[p]), q).initialized
                    THEN q ELSE copied[c][p][type[p]]
    <3>1. pc[p] = "link"
      BY <2>2 DEF LinkPeer
    <3>2. left[p] # {}
      BY <3>1 DEF CtlInv, Ctl, Sessions
    <3>3. c \in Comms /\ p \in Members[c] /\ q \in Members[c] /\ Members[c] \subseteq Procs
      BY <3>1, <3>2, PeerIn, CommFacts DEF Gathers
    <3>4. SetsCopied(copied, copied', c, p, type[p], x)
      BY <2>2, Zenon DEF SetsCopied, LinkPeer
    <3>5. type[p] \in 0 .. 2
      BY DEF HostType
    <3>6. x \in Procs \cup {Nobody}
      BY <3>3, <3>5 DEF CopiedType
    <3>7. ~PairCreate(p)
      BY <1>1, <3>1
    <3>8. copied[c][p][type[p]] = Nobody \/ x = copied[c][p][type[p]]
      OBVIOUS
    <3> HIDE DEF x, q, Good
    <3> QED
      BY <1>4, <1>5, <3>3, <3>4, <3>5, <3>6, <3>7, <3>8
  <2>3. CASE tcclAllRankIbFini(p)
    <3>1. c \in Comms /\ p \in Members[c] /\ Doing(p, "destroy")
      BY <2>3, FiniStep, Zenon DEF tcclAllRankIbFini
    <3>2. ~PairCreate(p)
      BY <1>1, <3>1 DEF Doing
    <3>3. SetsCopied(copied, copied', c, p, 2, Nobody)
      BY <2>3, Zenon DEF SetsCopied, tcclAllRankIbFini
    <3> HIDE DEF Good, c
    <3> QED
      BY <1>4, <1>5, <3>1, <3>2, <3>3 DEF c
  <2>4. CASE UNCHANGED copied /\ ~PairCreate(p)
    <3>1. ~ \E o \in Procs : PairCreate(o)
      BY <1>2, <1>5, <2>4
    <3> QED
      BY <1>3, <2>4, <3>1
  <2>5. PairCreate(p) \/ LinkPeer(p) \/ tcclAllRankIbFini(p) \/ UNCHANGED copied
    BY <1>5, HandlesChange DEF handles
  <2> HIDE DEF Good
  <2> QED
    BY <2>1, <2>2, <2>3, <2>4, <2>5
<1>6. CASE ~ \E p \in Procs : Process(p)
  <2>1. UNCHANGED copied
    BY <1>6, OthersHost DEF HostVars, handles
  <2>2. ~ \E p \in Procs : PairCreate(p)
    BY <1>6 DEF Process
  <2> QED
    BY <1>3, <2>1, <2>2
<1> QED
  BY <1>5, <1>6, Zenon

-----------------------------------------------------------------------------
(* What the steps of a process do to the domains of its pairs.             *)

LEMMA PutValue ==
  ASSUME PairType, NEW p \in Procs, NEW k, NEW new, Put(p, k, new), NEW q \in DOMAIN new
  PROVE  Pair(p, k, q)' = new[q]
<1>1. pair'[p] = [x \in DOMAIN pair[p] \cup {<<k, o>> : o \in DOMAIN new} |->
                    IF x[1] = k /\ x[2] \in DOMAIN new THEN new[x[2]] ELSE pair[p][x]]
  BY DEF Put, PairType
<1>2. <<k, q>> \in DOMAIN pair'[p] /\ pair'[p][<<k, q>>] = new[q]
  BY <1>1
<1> QED
  BY <1>2 DEF Pair

LEMMA OwnsSome ==
  ASSUME NEW p, NEW e, Owns(p, e)
  PROVE  e # NoPair
BY DEF Owns, NoPair, NoRes, Null

\* Pairs are renewed in the domain of another, or are a communicator's.
LEMMA Renewed ==
  ASSUME NEW p \in Procs, FitAt(p), AlikeAt(p),
         \A j \in Kinds : \A q :
           \/ Pair(p, j, q)' = Pair(p, j, q)
           \/ \E r : Pair(p, j, r) # NoPair /\ Fits(Pair(p, j, q)') /\ Alike(Pair(p, j, q)', Pair(p, j, r))
           \/ j \notin Posts /\ (Pair(p, j, q)' = NoPair \/ Fits(Pair(p, j, q)'))
  PROVE  /\ FitAt(p)' /\ AlikeAt(p)'
         /\ \A j \in Posts : \A q : Pair(p, j, q) # NoPair => Pair(p, j, q)' # NoPair
<1>1. Posts \subseteq Kinds
  BY DEF Posts, Kinds
<1>2. ~Fits(NoPair)
  BY NoPairFits
<1>3. FitAt(p)'
  BY DEF FitAt
<1>4. ASSUME NEW j \in Posts, NEW q
      PROVE  /\ Pair(p, j, q) # NoPair => Pair(p, j, q)' # NoPair
             /\ Pair(p, j, q)' # NoPair =>
                  \E r : Pair(p, j, r) # NoPair /\ Alike(Pair(p, j, q)', Pair(p, j, r))
  <2>1. CASE Pair(p, j, q)' = Pair(p, j, q)
    BY <2>1 DEF Alike
  <2>2. CASE \E r : Pair(p, j, r) # NoPair /\ Fits(Pair(p, j, q)') /\ Alike(Pair(p, j, q)', Pair(p, j, r))
    BY <1>2, <2>2
  <2> QED
    BY <1>1, <2>1, <2>2
<1>5. ASSUME NEW j \in Posts, NEW q, NEW r, Pair(p, j, q)' # NoPair, Pair(p, j, r)' # NoPair
      PROVE  Alike(Pair(p, j, q)', Pair(p, j, r)')
  <2>1. PICK x : Pair(p, j, x) # NoPair /\ Alike(Pair(p, j, q)', Pair(p, j, x))
    BY <1>4, <1>5
  <2>2. PICK y : Pair(p, j, y) # NoPair /\ Alike(Pair(p, j, r)', Pair(p, j, y))
    BY <1>4, <1>5
  <2>3. Alike(Pair(p, j, x), Pair(p, j, y))
    BY <2>1, <2>2 DEF AlikeAt
  <2> QED
    BY <2>1, <2>2, <2>3 DEF Alike
<1>6. AlikeAt(p)'
  BY <1>5 DEF AlikeAt
<1> QED
  BY <1>3, <1>4, <1>6

\* Pairs are connected where they are.
Joined(p) ==
  \A j \in Kinds : \A q :
    \/ Pair(p, j, q)' = Pair(p, j, q)
    \/ Pair(p, j, q) # NoPair /\ Fits(Pair(p, j, q)') /\ Alike(Pair(p, j, q)', Pair(p, j, q))

LEMMA ConnectJoins ==
  ASSUME PairsInv, NEW p \in Procs, PairConnect(p), FitAt(p), NEW c, c = Current(p), NEW k, k = Kind(c, type[p])
  PROVE  Joined(p)
<1>0. /\ HostType /\ BoxType /\ PairType /\ CtlInv /\ BoxInv /\ ValueInv /\ OwnInv /\ CreateInv
  BY DEF PairsInv
<1>1. pc[p] = "qps" /\ Doing(p, "create")
  BY <1>0 DEF PairConnect, CtlInv, Ctl, Gathers
<1> DEFINE N == RingPeers(c, p)
           now == [q \in N |-> connect_qp(Pair(p, k, q), Given(c, p, q)[p])]
<1>2. c \in Comms /\ p \in Members[c]
  BY <1>0, <1>1, CallFacts DEF Doing
<1>3. k \in Kinds
  BY <1>0, <1>2, KindFacts DEF HostType
<1>4. Put(p, k, now)
  BY DEF PairConnect, RingPeers
<1>5. \A j, q : j # k \/ q \notin N => Pair(p, j, q)' = Pair(p, j, q)
  BY <1>0, Connects
<1>6. \A q \in N : Owns(p, Pair(p, k, q))
  BY <1>0, <1>1 DEF CreateInv
<1>7. \A q \in N : \E m : now[q] = connect_qp(Pair(p, k, q), m)
  OBVIOUS
<1>8. DOMAIN now = N
  OBVIOUS
<1> HIDE DEF N, now
<1>9. ASSUME NEW q \in N
      PROVE  Pair(p, k, q) # NoPair /\ Fits(Pair(p, k, q)') /\ Alike(Pair(p, k, q)', Pair(p, k, q))
  <2>1. PICK m : now[q] = connect_qp(Pair(p, k, q), m)
    BY <1>7
  <2>2. Pair(p, k, q)' = now[q]
    BY <1>0, <1>4, <1>8, PutValue
  <2>3. Pair(p, k, q) # NoPair
    BY <1>6, OwnsSome
  <2>4. Fits(Pair(p, k, q))
    BY <1>3, <2>3 DEF FitAt
  <2>5. Pair(p, k, q) \in Pairs
    BY <1>0, PairTyped
  <2> QED
    BY <2>1, <2>2, <2>3, <2>4, <2>5, Joins
<1> QED
  BY <1>5, <1>9 DEF Joined

LEMMA LinkJoins ==
  ASSUME PairsInv, NEW p \in Procs, LinkPeer(p), FitAt(p),
         NEW c, c = Current(p), NEW k, k = Kind(c, type[p]), NEW q, q = Peer(p)
  PROVE  Joined(p)
<1>0. /\ HostType /\ PairType /\ CtlInv /\ OwnInv /\ MailInv /\ SessionInv
  BY DEF PairsInv
<1>1. pc[p] = "link"
  BY DEF LinkPeer
<1> DEFINE m == Head(mail[From(p)])
           now == [x \in {q} |-> connect_qp(Pair(p, k, q), m)]
<1>2. left[p] # {}
  BY <1>0, <1>1 DEF CtlInv, Ctl, Sessions
<1>3. c \in Comms
  BY <1>0, <1>1, <1>2, PeerIn DEF Gathers
<1>4. k \in Kinds
  BY <1>0, <1>3, KindFacts DEF HostType
<1>5. Put(p, k, now)
  BY DEF LinkPeer
<1>6. \A j, x : j # k \/ x # q => Pair(p, j, x)' = Pair(p, j, x)
  BY <1>0, Links
<1>7. Owns(p, Pair(p, k, q))
  BY <1>0, <1>1 DEF SessionInv, Gathers
<1>8. q \in DOMAIN now /\ now[q] = connect_qp(Pair(p, k, q), m)
  OBVIOUS
<1> HIDE DEF m, now
<1>9. Pair(p, k, q)' = now[q]
  BY <1>0, <1>5, <1>8, PutValue
<1>10. Pair(p, k, q) # NoPair
  BY <1>7, OwnsSome
<1>11. Fits(Pair(p, k, q))
  BY <1>4, <1>10 DEF FitAt
<1>12. Pair(p, k, q) \in Pairs
  BY <1>0, PairTyped
<1>13. Fits(Pair(p, k, q)') /\ Alike(Pair(p, k, q)', Pair(p, k, q))
  BY <1>8, <1>9, <1>11, <1>12, Joins
<1> QED
  BY <1>6, <1>10, <1>13 DEF Joined

\* A process that does something else has created the communicator it is at,
\* and its first one.
LEMMA NoneFresh ==
  ASSUME HostType, CtlInv, TodoInv, NEW p \in Procs, Left(p), NEW d, Doing(p, d), d # "create",
         NEW c, c = Current(p)
  PROVE  ~Fresh(c, p) /\ InCalls(c, p) /\ \A h : AllCalls(p) # <<>> /\ h = Home(p) => ~Fresh(h, p)
<1>1. /\ Head(todo[p]) = todo[p][1] /\ 1 \in DOMAIN todo[p] /\ todo[p] \in Seq(Calls) /\ todo[p][1].do = d
      /\ todo[p][1].comm = c
  BY CallFacts DEF Doing, Current, HostType
<1>2. ~Fresh(c, p)
  <2>1. SUFFICES ASSUME NEW i \in DOMAIN todo[p], todo[p][i] = Call("create", c)
                 PROVE  FALSE
    BY DEF Fresh
  <2>2. todo[p][i].do = "create" /\ todo[p][i].comm = c
    BY <2>1 DEF Call
  <2>3. 1 < i
    BY <1>1, <2>2
  <2> QED
    BY <1>1, <2>2, <2>3 DEF TodoInv, Todo
<1>3. InCalls(c, p)
  BY <1>1 DEF Left
<1>4. ASSUME NEW h, AllCalls(p) # <<>>, h = Home(p), Fresh(h, p)
      PROVE  FALSE
  <2>1. Head(todo[p]) = Call("create", h)
    BY <1>4 DEF Left, Creating
  <2> QED
    BY <1>1, <2>1 DEF Call
<1> QED
  BY <1>2, <1>3, <1>4

\* What is made on first use is lent the handles the creation left, and the
\* flag pairs are the communicator's own.
LEMMA OfferMakes ==
  ASSUME PairsInv, TodoInv, NEW p \in Procs, Offer(p), Left(p), FitAt(p), AlikeAt(p), LendAt(p),
         NEW c, c = Current(p), NEW t, t = type[p], NEW k, k = Kind(c, t), NEW q, q = Peer(p)
  PROVE  /\ \A j, x : j # k \/ x # q => Pair(p, j, x)' = Pair(p, j, x)
         /\ t = 2 => Fits(Pair(p, k, q)')
         /\ t # 2 => \E r : Pair(p, k, r) # NoPair /\ Fits(Pair(p, k, q)') /\ Alike(Pair(p, k, q)', Pair(p, k, r))
<1>0. /\ HostType /\ PairType /\ CtlInv /\ OwnInv /\ MailInv /\ SessionInv
  BY DEF PairsInv
<1>1. pc[p] = "offer"
  BY DEF Offer
<1> DEFINE f == copied[c][p][t]
           old == IF t = 2 THEN NoPair ELSE Pair(p, k, q)
           g == Pair(p, k, f)
           lent == IF f # Nobody /\ g.initialized THEN CopyPair(old, g) ELSE old
           now == [x \in {q} |-> CreatePair(lent, <<p, made[p] + 1>>)]
<1>2. Doing(p, "connect") /\ left[p] # {}
  BY <1>0, <1>1 DEF CtlInv, Ctl, Gathers, Sessions
<1>3. c \in Comms /\ p \in Members[c]
  BY <1>0, <1>2, CallFacts DEF Doing
<1>4. t \in 0 .. 2 /\ k \in Kinds /\ p \in Nat /\ made[p] + 1 \in Nat
  <2>1. t \in 0 .. 2 /\ k \in Kinds
    BY <1>0, <1>3, KindFacts DEF HostType
  <2>2. made \in [Procs -> Nat]
    BY <1>0 DEF PairType
  <2> QED
    BY <2>1, <2>2, HostAssumption
<1>5. \A j, x : j # k \/ x # q => Pair(p, j, x)' = Pair(p, j, x)
  BY <1>0, Offers
<1>6. Put(p, k, now)
  BY Zenon DEF Offer
<1>7. q \in DOMAIN now /\ now[q] = CreatePair(lent, <<p, made[p] + 1>>)
  OBVIOUS
<1>8. /\ old \in Pairs /\ g \in Pairs
      /\ t = 2 => old = NoPair
      /\ t # 2 => old = Pair(p, k, q)
  BY <1>0, PairTyped, NoPairType
<1>9. lent = CopyPair(old, g) \/ (lent = old /\ ~(f # Nobody /\ g.initialized))
  OBVIOUS
<1>10. f # Nobody /\ g.initialized => lent = CopyPair(old, g)
  OBVIOUS
<1>11. g.initialized => g # NoPair /\ Fits(g)
  BY <1>4, NoPairType DEF FitAt
<1>12. t # 2 => f # Nobody /\ g.initialized
  <2>1. SUFFICES ASSUME t # 2
                 PROVE  f # Nobody /\ g.initialized
    OBVIOUS
  <2>2. ~Fresh(c, p) /\ InCalls(c, p)
    BY <1>0, <1>2, NoneFresh
  <2>3. ~Unmade(c, p, t)
    BY <2>2 DEF Unmade
  <2>4. t \in {0, 1}
    BY <1>4, <2>1
  <2>5. f \in RingPeers(c, p) /\ \A x \in RingPeers(c, p) : Pair(p, k, x).initialized
    BY <2>2, <2>3, <2>4 DEF LendAt
  <2>6. RingPeers(c, p) \subseteq Procs
    BY <1>3, PeerFacts, CommFacts DEF RingPeers
  <2> QED
    BY <2>5, <2>6, HostAssumption
<1> HIDE DEF f, old, g, lent, now
<1>13. Pair(p, k, q)' = CreatePair(lent, <<p, made[p] + 1>>)
  BY <1>0, <1>6, <1>7, PutValue
<1>14. ASSUME t = 2
       PROVE  Fits(Pair(p, k, q)')
  <2>1. old = NoPair
    BY <1>8, <1>14
  <2>2. CASE f # Nobody /\ g.initialized
    BY <1>4, <1>8, <1>10, <1>11, <1>13, <2>1, <2>2, Lends
  <2>3. CASE ~(f # Nobody /\ g.initialized)
    <3>1. lent = NoPair
      BY <1>9, <2>1, <2>3 DEF lent
    <3> QED
      BY <1>4, <1>13, <3>1, Makes, NoPairFits, NoPairType
  <2> QED
    BY <2>2, <2>3
<1>15. ASSUME t # 2
       PROVE  Fits(Pair(p, k, q)') /\ Alike(Pair(p, k, q)', g) /\ g # NoPair
  <2>1. Fits(g) /\ g # NoPair /\ lent = CopyPair(old, g)
    BY <1>10, <1>11, <1>12, <1>15
  <2>2. k \in Posts
    BY <1>3, <1>4, <1>15, KindFacts
  <2>3. old = NoPair \/ (Fits(old) /\ Alike(old, g))
    BY <1>4, <1>8, <1>15, <2>1, <2>2 DEF FitAt, AlikeAt, g
  <2> QED
    BY <1>4, <1>8, <1>13, <2>1, <2>3, Lends
<1> QED
  BY <1>5, <1>14, <1>15 DEF g

LEMMA FiniDrops ==
  ASSUME HostType, CtlInv, PairType, NEW p \in Procs, tcclAllRankIbFini(p), NEW c, c = Current(p)
  PROVE  c \in Comms /\ \A j, q : Pair(p, j, q)' = Pair(p, j, q) \/ (j = c /\ Pair(p, j, q)' = NoPair)
<1>1. c \in Comms
  BY FiniStep
<1>2. pair'[p] = [x \in {y \in DOMAIN pair[p] : y[1] # c} |-> pair[p][x]]
  BY DEF tcclAllRankIbFini, PairType
<1>3. ASSUME NEW j, NEW q
      PROVE  Pair(p, j, q)' = Pair(p, j, q) \/ (j = c /\ Pair(p, j, q)' = NoPair)
  BY <1>2 DEF Pair
<1> QED
  BY <1>1, <1>3

-----------------------------------------------------------------------------
(* The handles of a process fit after each step.                           *)

LEMMA ProgKept ==
  ASSUME HostType, CtlInv, Next, NEW p \in Procs
  PROVE  /\ AllCalls(p)' = AllCalls(p) /\ Home(p)' = Home(p)
         /\ \A c : InCalls(c, p)' <=> InCalls(c, p)
         /\ MetAtFirst(p)' <=> MetAtFirst(p)
<1>1. prog' = prog
  BY OwnCourse, OthersHost DEF HostVars
<1>2. AllCalls(p)' = AllCalls(p)
  BY <1>1 DEF AllCalls
<1>3. MetAtFirst(p)' <=> MetAtFirst(p)
  BY <1>1 DEF MetAtFirst
<1> QED
  BY <1>2, <1>3 DEF Home, InCalls

LEMMA KeyedKept ==
  ASSUME PairsInv, TodoInv, CopiedType, Next, failures = 0, NEW p \in Procs, ~PairCreate(p), Keyed(p),
         FitAt(p)', AlikeAt(p)',
         \A j \in Posts : \A q : Pair(p, j, q) # NoPair => Pair(p, j, q)' # NoPair,
         \A h : AllCalls(p) # <<>> /\ h = Home(p) => \A t \in {0, 1} : Unmade(h, p, t) =>
           \A q : Pair(p, Kind(h, t), q) = NoPair => Pair(p, Kind(h, t), q)' = NoPair
  PROVE  Keyed(p)'
<1>0. /\ HostType /\ BoxType /\ PairType /\ CtlInv /\ OwnInv /\ CreateInv
  BY DEF PairsInv
<1>1. /\ AllCalls(p)' = AllCalls(p) /\ Home(p)' = Home(p)
      /\ \A c : InCalls(c, p)' <=> InCalls(c, p)
  BY <1>0, ProgKept
<1>2. \A c : \A t \in {0, 1} : Unmade(c, p, t)' <=> Unmade(c, p, t)
  BY <1>0, UnmadeNext
<1>3. ASSUME NEW c \in Comms, NEW t \in {0, 1}
      PROVE  Kind(c, t) \in Posts /\ Kind(c, t) \notin Comms /\ t \in 0 .. 2
  BY KindFacts
<1>4. ASSUME NEW h, AllCalls(p) # <<>>, h = Home(p), NEW t \in {0, 1}
      PROVE  IF Unmade(h, p, t)'
             THEN \A q : Pair(p, Kind(h, t), q)' = NoPair
             ELSE \A q \in RingPeers(h, p) : Pair(p, Kind(h, t), q)' # NoPair
  <2>1. h \in Comms
    BY <1>0, <1>4, CallsTyped
  <2>2. IF Unmade(h, p, t)
        THEN \A q : Pair(p, Kind(h, t), q) = NoPair
        ELSE \A q \in RingPeers(h, p) : Pair(p, Kind(h, t), q) # NoPair
    BY <1>4 DEF Keyed, HomeAt
  <2>3. CASE Unmade(h, p, t)
    BY <1>2, <1>4, <2>2, <2>3
  <2>4. CASE ~Unmade(h, p, t)
    BY <1>2, <1>3, <2>1, <2>2, <2>4
  <2> QED
    BY <2>3, <2>4
<1>5. ASSUME NEW c, InCalls(c, p), NEW t \in {0, 1}
      PROVE  /\ ~Unmade(c, p, t)' => copied'[c][p][t] \in RingPeers(c, p)
             /\ ~Fresh(c, p)' => \A q \in RingPeers(c, p) : Pair(p, Kind(c, t), q)'.initialized
  <2>1. c \in Comms /\ p \in Members[c]
    BY <1>0, <1>5, CallsTyped
  <2>2. RingPeers(c, p) \subseteq Procs
    BY <2>1, PeerFacts, CommFacts DEF RingPeers
  <2>3. ASSUME ~Unmade(c, p, t)'
        PROVE  copied'[c][p][t] \in RingPeers(c, p)
    <3>1. copied[c][p][t] \in RingPeers(c, p)
      BY <1>2, <1>5, <2>3 DEF Keyed, LendAt
    <3>2. copied[c][p][t] # Nobody
      BY <2>2, <3>1, HostAssumption
    <3> QED
      BY <1>0, <2>1, <3>1, <3>2, CopiedNext
  <2>4. ASSUME ~Fresh(c, p)', NEW q \in RingPeers(c, p)
        PROVE  Pair(p, Kind(c, t), q)'.initialized
    <3>1. CASE ~Fresh(c, p)
      <4>1. Pair(p, Kind(c, t), q).initialized
        BY <1>5, <2>4, <3>1 DEF Keyed, LendAt
      <4> DEFINE k == Kind(c, t)
      <4>2. k \notin Comms
        BY <1>3, <2>1
      <4> HIDE DEF k
      <4>3. Pair(p, k, q).initialized => Pair(p, k, q)'.initialized
        BY <4>2, PairNext
      <4> QED
        BY <4>1, <4>3 DEF k
    <3>2. CASE Fresh(c, p)
      <4>1. Creating(c, p) /\ pc[p] = "barrier" /\ UNCHANGED pair
        BY <1>0, <2>4, <3>2, FreshGone
      <4>2. Doing(p, "create") /\ c = Current(p)
        BY <4>1 DEF Creating, Doing, Current, Call
      <4>3. Pair(p, Kind(c, t), q).initialized
        BY <1>0, <1>3, <2>1, <2>4, <4>1, <4>2 DEF CreateInv
      <4> QED
        BY <4>1, <4>3 DEF Pair
    <3> QED
      BY <3>1, <3>2
  <2> QED
    BY <2>3, <2>4
<1>6. HomeAt(p)'
  BY <1>1, <1>4 DEF HomeAt
<1>7. LendAt(p)'
  BY <1>1, <1>5 DEF LendAt
<1> QED
  BY <1>6, <1>7 DEF Keyed

\* tcclIbPairInit, if nothing fails.
LEMMA Perfect ==
  ASSUME HostType, CtlInv, PairType, NEW p \in Procs, PairCreate(p), failures' = 0,
         NEW c, c = Current(p), NEW t, t = type[p], NEW k, k = Kind(c, t),
         NEW g, g = CreatePair(IF t = 2 THEN NoPair ELSE Pair(p, k, First(c, RingPeers(c, p))), <<p, made[p] + 1>>)
  PROVE  /\ freed' = freed
         /\ \A q \in RingPeers(c, p) : Pair(p, k, q)' =
              IF q = First(c, RingPeers(c, p)) THEN g
              ELSE CreatePair(CopyPair(IF t = 2 THEN NoPair ELSE Pair(p, k, q), g), <<p, made[p] + 2>>)
<1> DEFINE N == RingPeers(c, p)
           f == First(c, N)
           old == [q \in N |-> IF t = 2 THEN NoPair ELSE Pair(p, k, q)]
           new(q) == <<p, made[p] + (IF q = f THEN 1 ELSE 2)>>
           Made(S, L, q, e) == IF q \in S THEN FailPair(e, new(q), L[q]) ELSE CreatePair(e, new(q))
           lent(S, L, q) == IF q = f THEN old[f] ELSE CopyPair(old[q], Made(S, L, f, old[f]))
           put(S, L) == [q \in N |-> Made(S, L, q, lent(S, L, q))]
<1>0. PICK failed, lost : Outcome(p, c, t, k, failed, lost)
  <2>1. \E failed, lost : Outcome(p, Current(p), type[p], Kind(Current(p), type[p]), failed, lost)
    BY Zenon DEF PairCreate, RingPeers, Outcome
  <2> QED
    BY <2>1
<1>1. /\ failed \in SUBSET {q \in N : ~old[q].initialized}
      /\ failures + Cardinality(failed) <= prog.MaxFailures /\ failures' = failures + Cardinality(failed)
      /\ Put(p, k, put(failed, lost))
  BY <1>0, Zenon DEF Outcome
<1>2. c \in Comms /\ p \in Members[c]
  BY CallFacts, Zenon DEF PairCreate, Doing
<1>3. failed = {}
  <2>1. failed \in SUBSET RingPeers(c, p) /\ failures + Cardinality(failed) <= prog.MaxFailures
        /\ failures + Cardinality(failed) = 0
    BY <1>1, Zenon
  <2> QED
    BY <1>2, <2>1, FailedFacts
<1>4. freed' = freed
  <2>1. Outcome(p, c, t, k, {}, lost)
    BY <1>0, <1>3
  <2> QED
    BY <2>1 DEF Outcome
<1>5. Put(p, k, put({}, lost))
  BY <1>1, <1>3
<1>6. N # {} => f \in N
  BY <1>2, PeerFacts, FirstIn DEF RingPeers
<1>7. ASSUME NEW q \in N
      PROVE  put({}, lost)[q] =
               IF q = f THEN g
               ELSE CreatePair(CopyPair(IF t = 2 THEN NoPair ELSE Pair(p, k, q), g), <<p, made[p] + 2>>)
  <2>1. /\ old[f] = IF t = 2 THEN NoPair ELSE Pair(p, k, f)
        /\ old[q] = IF t = 2 THEN NoPair ELSE Pair(p, k, q)
    BY <1>6
  <2>2. new(f) = <<p, made[p] + 1>> /\ (q # f => new(q) = <<p, made[p] + 2>>)
    OBVIOUS
  <2> HIDE DEF old, new
  <2>3. Made({}, lost, f, old[f]) = g
    BY <2>1, <2>2
  <2>4. put({}, lost)[q] = CreatePair(lent({}, lost, q), new(q))
    OBVIOUS
  <2>5. lent({}, lost, q) = IF q = f THEN old[f] ELSE CopyPair(old[q], g)
    BY <2>3
  <2> HIDE DEF lent, put
  <2>6. CASE q = f
    BY <2>1, <2>2, <2>4, <2>5, <2>6
  <2>7. CASE q # f
    BY <2>1, <2>2, <2>4, <2>5, <2>7
  <2> QED
    BY <2>6, <2>7
<1>8. DOMAIN put({}, lost) = N
  OBVIOUS
<1> HIDE DEF put, f, N
<1>9. \A q \in N : Pair(p, k, q)' = put({}, lost)[q]
  BY <1>5, <1>8, PutValue
<1> QED
  BY <1>4, <1>7, <1>9 DEF f, N

LEMMA MetFacts ==
  ASSUME NEW p \in Procs, MetAtFirst(p), NEW c, InCalls(c, p)
  PROVE  RingPeers(c, p) # {} /\ RingPeers(c, p) \subseteq RingPeers(Home(p), p)
<1>1. PICK i \in DOMAIN AllCalls(p) : AllCalls(p)[i].comm = c
  BY DEF InCalls
<1> QED
  BY <1>1 DEF MetAtFirst, AllCalls, RingPeers, Home

\* The communicator that is created.
LEMMA CreateFacts ==
  ASSUME HostType, CtlInv, NEW p \in Procs, PairCreate(p), Left(p), NEW c, c = Current(p)
  PROVE  c \in Comms /\ p \in Members[c] /\ Creating(c, p) /\ InCalls(c, p) /\ pc[p] = "call" /\ todo' = todo
<1>1. Doing(p, "create") /\ pc[p] = "call" /\ todo' = todo
  BY Zenon DEF PairCreate
<1>2. /\ c \in Comms /\ p \in Members[c] /\ Head(todo[p]) = todo[p][1] /\ 1 \in DOMAIN todo[p]
      /\ Head(todo[p]) \in Calls
  BY <1>1, CallFacts DEF Doing
<1>3. Head(todo[p]) = Call("create", c)
  BY <1>1, <1>2 DEF Calls, Call, Doing, Current
<1> QED
  BY <1>1, <1>2, <1>3 DEF Creating, Doing, Left, Current

\* What a creation makes fits and is of the domain of its first pair.
LEMMA CreatedFit ==
  ASSUME HostType, CtlInv, PairType, OwnInv, NEW p \in Procs, PairCreate(p), failures' = 0, Left(p), MetAtFirst(p), Keyed(p),
         NEW c, c = Current(p), NEW t, t = type[p], NEW k, k = Kind(c, t),
         NEW N, N = RingPeers(c, p), NEW f, f = First(c, N)
  PROVE  /\ f \in N /\ \A q \in N : Fits(Pair(p, k, q)')
         /\ t # 2 => \A q : /\ q \in N => Alike(Pair(p, k, q)', Pair(p, k, f)')
                            /\ Pair(p, k, q) # NoPair => Alike(Pair(p, k, q), Pair(p, k, f)')
<1> DEFINE old(q) == IF t = 2 THEN NoPair ELSE Pair(p, k, q)
           g == CreatePair(old(f), <<p, made[p] + 1>>)
<1>2. c \in Comms /\ p \in Members[c] /\ Creating(c, p) /\ InCalls(c, p)
  BY CreateFacts
<1>3. t \in 0 .. 2 /\ k \in Kinds /\ (t # 2 => k \in Posts /\ t \in {0, 1})
  BY <1>2, KindFacts DEF HostType
<1>4. p \in Nat /\ made[p] + 1 \in Nat /\ made[p] + 2 \in Nat
  <2>1. made \in [Procs -> Nat]
    BY DEF PairType
  <2> QED
    BY <2>1, HostAssumption
<1>5. f \in N
  BY <1>2, MetFacts, PeerFacts, FirstIn DEF RingPeers
<1>6. ASSUME NEW q
      PROVE  old(q) \in Pairs /\ (old(q) = NoPair \/ Fits(old(q)))
  BY <1>3, PairTyped, NoPairType DEF Keyed, FitAt
<1>7. /\ old(f).send.mr = old(f).send.pd /\ old(f).recv.mr = old(f).recv.pd
      /\ old(f).initialized => Fits(old(f))
      /\ Fits(old(f)) => old(f).send.pd # Null /\ old(f).recv.pd # Null
  BY <1>6, NoPairFits, NoPairType DEF Fits, Fit
<1>8. /\ \A q \in N : Pair(p, k, q)' =
           IF q = f THEN g ELSE CreatePair(CopyPair(old(q), g), <<p, made[p] + 2>>)
  BY Perfect
<1>9. t # 2 => \A q, r : old(q) # NoPair /\ old(r) # NoPair => Alike(old(q), old(r))
  BY <1>3 DEF Keyed, AlikeAt
<1>10. \A q : old(q) # NoPair => old(f) # NoPair
  <2>1. SUFFICES ASSUME t # 2, NEW q, Pair(p, k, q) # NoPair
                 PROVE  Pair(p, k, f) # NoPair
    OBVIOUS
  <2>2. AllCalls(p) # <<>>
    BY <1>2 DEF InCalls
  <2>3. ASSUME NEW h, h = Home(p)
        PROVE  Pair(p, k, f) # NoPair
    <3>1. k = Kind(h, t)
      <4>1. h \in Comms
        BY <2>2, <2>3, CallsTyped
      <4> QED
        BY <1>2, <1>3, <2>1, <4>1, KindFacts
    <3>2. Fresh(h, p) => h = c
      <4>1. Fresh(h, p) => Creating(h, p)
        BY <2>2, <2>3 DEF Left
      <4> QED
        BY <1>2, <4>1 DEF Creating, Call
    <3>3. ~Unmade(h, p, t)
      BY <1>3, <2>1, <2>2, <2>3, <3>1 DEF Keyed, HomeAt
    <3>4. f \in RingPeers(h, p)
      BY <1>2, <1>5, <2>3, MetFacts
    <3> QED
      BY <1>3, <2>1, <2>2, <2>3, <3>1, <3>3, <3>4 DEF Keyed, HomeAt
  <2> QED
    BY <2>3
<1>11. old(f) \in Pairs
  BY <1>6
<1> HIDE DEF old
<1>12. Fits(g) /\ (old(f) # NoPair => Alike(old(f), g))
  <2>1. /\ Fits(g)
        /\ old(f).send.pd # Null => g.send.pd = old(f).send.pd
        /\ old(f).recv.pd # Null => g.recv.pd = old(f).recv.pd
    BY <1>4, <1>7, <1>11, Makes
  <2> HIDE DEF g
  <2> QED
    BY <1>6, <1>7, <2>1 DEF Alike
<1>13. g \in Pairs
  BY <1>4, <1>11, CreateOps
<1> HIDE DEF g
<1>14. t # 2 => \A q : old(q) # NoPair => Alike(old(q), g)
  BY <1>9, <1>10, <1>12 DEF Alike
<1>15. ASSUME NEW q \in N
       PROVE  Fits(Pair(p, k, q)') /\ Alike(Pair(p, k, q)', g)
  <2>1. CASE q = f
    BY <1>8, <1>12, <2>1 DEF Alike
  <2>2. CASE q # f
    <3>1. old(q) = NoPair \/ (Fits(old(q)) /\ Alike(old(q), g))
      BY <1>6, <1>14 DEF old
    <3> QED
      BY <1>4, <1>6, <1>8, <1>12, <1>13, <2>2, <3>1, Lends
  <2> QED
    BY <2>1, <2>2
<1>16. Pair(p, k, f)' = g
  BY <1>5, <1>8
<1>17. ASSUME t # 2, NEW q
       PROVE  /\ q \in N => Alike(Pair(p, k, q)', Pair(p, k, f)')
              /\ Pair(p, k, q) # NoPair => Alike(Pair(p, k, q), Pair(p, k, f)')
  <2>1. old(q) = Pair(p, k, q)
    BY <1>17 DEF old
  <2> QED
    BY <1>14, <1>15, <1>16, <1>17, <2>1
<1> QED
  BY <1>5, <1>15, <1>17

LEMMA CreateKeyed ==
  ASSUME PairsInv, TodoInv, CopiedType, Next, NEW p \in Procs, PairCreate(p), failures' = 0, Left(p), MetAtFirst(p),
         Keyed(p), NEW c, c = Current(p), NEW t, t = type[p], NEW k, k = Kind(c, t),
         NEW N, N = RingPeers(c, p), NEW f, f = First(c, N)
  PROVE  Keyed(p)'
<1>0. HostType /\ CtlInv /\ PairType /\ OwnInv
  BY DEF PairsInv
<1>1. c \in Comms /\ p \in Members[c] /\ Creating(c, p) /\ InCalls(c, p) /\ todo' = todo
  BY <1>0, CreateFacts
<1>2. t \in 0 .. 2 /\ (t # 2 => k \in Posts /\ t \in {0, 1}) /\ (t = 2 => k \notin Posts)
  <2>1. t \in 0 .. 2
    BY <1>0 DEF HostType
  <2>2. Kind(c, 0) = "send" /\ Kind(c, 1) = "recv" /\ Kind(c, 2) = c
    BY <1>1, KindFacts
  <2>3. c \notin {"send", "recv"}
    BY <1>1, CommFacts
  <2>4. t = 0 \/ t = 1 \/ t = 2
    BY <2>1
  <2>5. CASE t = 0
    BY <2>2, <2>5 DEF Posts
  <2>6. CASE t = 1
    BY <2>2, <2>6 DEF Posts
  <2>7. CASE t = 2
    BY <2>2, <2>3, <2>7 DEF Posts
  <2> QED
    BY <2>4, <2>5, <2>6, <2>7
<1>3. /\ f \in N /\ \A q \in N : Fits(Pair(p, k, q)')
      /\ t # 2 => \A q : /\ q \in N => Alike(Pair(p, k, q)', Pair(p, k, f)')
                         /\ Pair(p, k, q) # NoPair => Alike(Pair(p, k, q), Pair(p, k, f)')
  BY <1>0, CreatedFit
<1>4. \A j, q : j # k \/ q \notin N => Pair(p, j, q)' = Pair(p, j, q)
  BY <1>0, Creates
<1>5. \A d : \A s \in {0, 1} : Unmade(d, p, s)' <=> Unmade(d, p, s) /\ ~(d = c /\ s = t)
  BY <1>0, UnmadeNext
<1>6. ASSUME NEW d \in Comms, NEW s \in {0, 1}
      PROVE  Kind(d, s) \in Posts /\ Kind(d, s) \notin Comms /\ (Kind(d, s) = k <=> s = t)
  <2>1. /\ Kind(d, 0) = "send" /\ Kind(d, 1) = "recv"
        /\ Kind(c, 0) = "send" /\ Kind(c, 1) = "recv" /\ Kind(c, 2) = c /\ c \notin {"send", "recv"}
        /\ "send" \notin Comms /\ "recv" \notin Comms
    BY <1>1, KindFacts, CommFacts
  <2>2. t = 0 \/ t = 1 \/ t = 2
    BY <1>2
  <2> QED
    BY <2>1, <2>2 DEF Posts
<1>7. /\ AllCalls(p)' = AllCalls(p) /\ Home(p)' = Home(p)
      /\ \A d : InCalls(d, p)' <=> InCalls(d, p)
  BY <1>0, ProgKept
<1>8. FitAt(p)'
  <2>1. ASSUME NEW j \in Kinds, NEW q
        PROVE  Pair(p, j, q)' = NoPair \/ Fits(Pair(p, j, q)')
    BY <1>3, <1>4 DEF Keyed, FitAt
  <2> QED
    BY <2>1 DEF FitAt
<1>9. AlikeAt(p)'
  <2>1. ASSUME NEW j \in Posts, NEW q, NEW r, Pair(p, j, q)' # NoPair, Pair(p, j, r)' # NoPair
        PROVE  Alike(Pair(p, j, q)', Pair(p, j, r)')
    <3>1. CASE j # k
      BY <1>4, <2>1, <3>1 DEF Keyed, AlikeAt
    <3>2. CASE j = k
      <4>1. \A x : Pair(p, k, x)' # NoPair => Alike(Pair(p, k, x)', Pair(p, k, f)')
        BY <1>2, <1>3, <1>4, <2>1, <3>2
      <4> QED
        BY <2>1, <3>2, <4>1 DEF Alike
    <3> QED
      BY <3>1, <3>2
  <2> QED
    BY <2>1 DEF AlikeAt
<1>10. ASSUME NEW h, AllCalls(p) # <<>>, h = Home(p), NEW s \in {0, 1}
       PROVE  IF Unmade(h, p, s)'
              THEN \A q : Pair(p, Kind(h, s), q)' = NoPair
              ELSE \A q \in RingPeers(h, p) : Pair(p, Kind(h, s), q)' # NoPair
  <2>1. h \in Comms
    BY <1>0, <1>10, CallsTyped
  <2>2. IF Unmade(h, p, s)
        THEN \A q : Pair(p, Kind(h, s), q) = NoPair
        ELSE \A q \in RingPeers(h, p) : Pair(p, Kind(h, s), q) # NoPair
    BY <1>10 DEF Keyed, HomeAt
  <2>3. Fresh(h, p) => h = c
    <3>1. Fresh(h, p) => Creating(h, p)
      BY <1>10 DEF Left
    <3> QED
      BY <1>1, <3>1 DEF Creating, Call
  <2>4. CASE Unmade(h, p, s)'
    <3>1. Unmade(h, p, s) /\ h = c /\ s # t
      BY <1>5, <2>3, <2>4 DEF Unmade
    <3> QED
      BY <1>4, <1>6, <2>1, <2>2, <2>4, <3>1
  <2>5. CASE ~Unmade(h, p, s)'
    <3>1. \A q : Pair(p, Kind(h, s), q)' = Pair(p, Kind(h, s), q) \/ Fits(Pair(p, Kind(h, s), q)')
      BY <1>3, <1>4
    <3>2. CASE ~Unmade(h, p, s)
      BY <2>2, <2>5, <3>1, <3>2, NoPairFits
    <3>3. CASE Unmade(h, p, s)
      <4>1. h = c /\ s = t /\ Kind(h, s) = k /\ RingPeers(h, p) = N
        BY <1>5, <2>5, <3>3
      <4> QED
        BY <1>3, <2>5, <4>1, NoPairFits
    <3> QED
      BY <3>2, <3>3
  <2> QED
    BY <2>4, <2>5
<1>11. ASSUME NEW d, InCalls(d, p), NEW s \in {0, 1}
       PROVE  /\ ~Unmade(d, p, s)' => copied'[d][p][s] \in RingPeers(d, p)
              /\ ~Fresh(d, p)' => \A q \in RingPeers(d, p) : Pair(p, Kind(d, s), q)'.initialized
  <2>1. d \in Comms /\ p \in Members[d]
    BY <1>0, <1>11, CallsTyped
  <2>2. copied'[d][p][s] = IF d = c /\ s = t
                           THEN IF RingPeers(d, p) = {} THEN Nobody ELSE First(d, RingPeers(d, p))
                           ELSE copied[d][p][s]
    BY <1>0, <2>1, CopiedNext
  <2>3. ASSUME ~Unmade(d, p, s)'
        PROVE  copied'[d][p][s] \in RingPeers(d, p)
    <3>1. CASE d = c /\ s = t
      BY <1>3, <2>2, <3>1
    <3>2. CASE ~(d = c /\ s = t)
      BY <1>5, <1>11, <2>2, <2>3, <3>2 DEF Keyed, LendAt
    <3> QED
      BY <3>1, <3>2
  <2>4. ASSUME ~Fresh(d, p)', NEW q \in RingPeers(d, p)
        PROVE  Pair(p, Kind(d, s), q)'.initialized
    <3>1. ~Fresh(d, p)
      BY <1>1, <2>4 DEF Fresh
    <3>2. Pair(p, Kind(d, s), q).initialized
      BY <1>11, <2>4, <3>1 DEF Keyed, LendAt
    <3> DEFINE j == Kind(d, s)
    <3>3. j \notin Comms
      BY <1>6, <2>1
    <3> HIDE DEF j
    <3>4. Pair(p, j, q).initialized => Pair(p, j, q)'.initialized
      BY <3>3, PairNext
    <3> QED
      BY <3>2, <3>4 DEF j
  <2> QED
    BY <2>3, <2>4
<1>12. HomeAt(p)'
  BY <1>7, <1>10 DEF HomeAt
<1>13. LendAt(p)'
  BY <1>7, <1>11 DEF LendAt
<1> QED
  BY <1>8, <1>9, <1>12, <1>13 DEF Keyed

LEMMA KeyedNext ==
  ASSUME PairsInv, TodoInv, CopiedType, Next, failures = 0, failures' = 0, NEW p \in Procs, Left(p), MetAtFirst(p),
         Keyed(p)
  PROVE  Keyed(p)'
<1>0. /\ HostType /\ CtlInv /\ PairType /\ OwnInv
      /\ FitAt(p) /\ AlikeAt(p) /\ HomeAt(p) /\ LendAt(p)
  BY DEF PairsInv, Keyed
<1>1. CASE PairCreate(p)
  BY <1>1, CreateKeyed
<1>2. ASSUME ~PairCreate(p), Joined(p)
      PROVE  Keyed(p)'
  <2>1. /\ FitAt(p)' /\ AlikeAt(p)'
        /\ \A j \in Posts : \A q : Pair(p, j, q) # NoPair => Pair(p, j, q)' # NoPair
    <3>1. \A j \in Kinds : \A q :
            \/ Pair(p, j, q)' = Pair(p, j, q)
            \/ \E r : Pair(p, j, r) # NoPair /\ Fits(Pair(p, j, q)') /\ Alike(Pair(p, j, q)', Pair(p, j, r))
      BY <1>2 DEF Joined
    <3> QED
      BY <1>0, <3>1, Renewed
  <2>2. ASSUME NEW h, AllCalls(p) # <<>>, h = Home(p), NEW t \in {0, 1}, NEW q, Pair(p, Kind(h, t), q) = NoPair
        PROVE  Pair(p, Kind(h, t), q)' = NoPair
    <3>1. h \in Comms
      BY <1>0, <2>2, CallsTyped
    <3>2. Kind(h, t) \in Kinds
      BY <3>1, KindFacts
    <3> QED
      BY <1>2, <2>2, <3>2 DEF Joined
  <2> QED
    BY <1>2, <2>1, <2>2, KeyedKept
<1>3. ASSUME \A j, q : Pair(p, j, q)' = Pair(p, j, q)
      PROVE  Joined(p)
  BY <1>3 DEF Joined
<1>4. CASE ~Process(p)
  <2>1. ~PairCreate(p)
    BY <1>4 DEF Process
  <2>2. \A j, q : Pair(p, j, q)' = Pair(p, j, q)
    <3>1. CASE \E o \in Procs : Process(o)
      BY <1>4, <3>1, OwnPairs
    <3>2. CASE ~ \E o \in Procs : Process(o)
      <4>1. pair' = pair
        BY <3>2, OthersHost DEF HostVars, handles
      <4> QED
        BY <4>1 DEF Pair
    <3> QED
      BY <3>1, <3>2
  <2> QED
    BY <1>2, <1>3, <2>1, <2>2
<1>5. ASSUME Process(p), ~PairCreate(p)
      PROVE  Keyed(p)'
  <2>1. CASE PairConnect(p) \/ LinkPeer(p)
    <3>1. Joined(p)
      BY <1>0, <2>1, ConnectJoins, LinkJoins
    <3> QED
      BY <1>2, <1>5, <3>1
  <2>2. CASE UNCHANGED handles
    <3>1. pair' = pair
      BY <2>2 DEF handles
    <3>2. \A j, q : Pair(p, j, q)' = Pair(p, j, q)
      BY <3>1 DEF Pair
    <3> QED
      BY <1>2, <1>3, <1>5, <3>2
  <2>3. CASE Offer(p)
    <3>1. ASSUME NEW c, c = Current(p), NEW t, t = type[p], NEW k, k = Kind(c, t), NEW q, q = Peer(p)
          PROVE  Keyed(p)'
      <4>1. Doing(p, "connect")
        BY <1>0, <2>3 DEF Offer, CtlInv, Ctl, Gathers
      <4>2. c \in Comms
        BY <1>0, <3>1, <4>1, CallFacts DEF Doing
      <4>3. t = 2 => k \notin Posts
        BY <3>1, <4>2, KindFacts, CommFacts DEF Posts
      <4>4. /\ \A j, x : j # k \/ x # q => Pair(p, j, x)' = Pair(p, j, x)
            /\ t = 2 => Fits(Pair(p, k, q)')
            /\ t # 2 => \E r : Pair(p, k, r) # NoPair /\ Fits(Pair(p, k, q)') /\ Alike(Pair(p, k, q)', Pair(p, k, r))
        BY <1>0, <2>3, <3>1, OfferMakes
      <4>5. \A j \in Kinds : \A x :
              \/ Pair(p, j, x)' = Pair(p, j, x)
              \/ \E r : Pair(p, j, r) # NoPair /\ Fits(Pair(p, j, x)') /\ Alike(Pair(p, j, x)', Pair(p, j, r))
              \/ j \notin Posts /\ (Pair(p, j, x)' = NoPair \/ Fits(Pair(p, j, x)'))
        BY <4>3, <4>4
      <4>6. /\ FitAt(p)' /\ AlikeAt(p)'
            /\ \A j \in Posts : \A x : Pair(p, j, x) # NoPair => Pair(p, j, x)' # NoPair
        BY <1>0, <4>5, Renewed
      <4>7. ASSUME NEW h, AllCalls(p) # <<>>, h = Home(p), NEW s
            PROVE  ~Unmade(h, p, s)
        BY <1>0, <3>1, <4>1, <4>7, NoneFresh DEF Unmade
      <4>8. \A h : AllCalls(p) # <<>> /\ h = Home(p) => \A s \in {0, 1} : Unmade(h, p, s) =>
              \A x : Pair(p, Kind(h, s), x) = NoPair => Pair(p, Kind(h, s), x)' = NoPair
        BY <4>7, Zenon
      <4> QED
        BY <1>5, <4>6, <4>8, KeyedKept
    <3> QED
      BY <3>1
  <2>4. CASE tcclAllRankIbFini(p)
    <3>1. ASSUME NEW c, c = Current(p)
          PROVE  Keyed(p)'
      <4>1. c \in Comms /\ \A j, q : Pair(p, j, q)' = Pair(p, j, q) \/ (j = c /\ Pair(p, j, q)' = NoPair)
        BY <1>0, <2>4, <3>1, FiniDrops
      <4>2. c \notin Posts
        BY <4>1, CommFacts DEF Posts
      <4>3. \A j \in Kinds : \A x :
              \/ Pair(p, j, x)' = Pair(p, j, x)
              \/ j \notin Posts /\ (Pair(p, j, x)' = NoPair \/ Fits(Pair(p, j, x)'))
        BY <4>1, <4>2
      <4>4. /\ FitAt(p)' /\ AlikeAt(p)'
            /\ \A j \in Posts : \A x : Pair(p, j, x) # NoPair => Pair(p, j, x)' # NoPair
        BY <1>0, <4>3, Renewed
      <4>5. \A j, q : Pair(p, j, q) = NoPair => Pair(p, j, q)' = NoPair
        BY <4>1
      <4> QED
        BY <1>5, <4>4, <4>5, KeyedKept
    <3> QED
      BY <3>1
  <2> QED
    BY <1>5, <2>1, <2>2, <2>3, <2>4, HandlesChange
<1> QED
  BY <1>1, <1>4, <1>5

LEMMA KeyNext ==
  ASSUME PairsInv, TodoInv, KeyInv, Next
  PROVE  KeyInv'
<1>0. HostType /\ CtlInv /\ CopiedType /\ \A p \in Procs : Left(p)
  BY DEF PairsInv, KeyInv
<1>1. CopiedType' /\ \A p \in Procs : Left(p)'
  BY <1>0, CopiedNext, LeftNext
<1>2. ASSUME failures' = 0
      PROVE  freed' = {} /\ \A p \in Procs : MetAtFirst(p)' => Keyed(p)'
  <2>1. failures = 0
    BY <1>0, <1>2, FailuresStay
  <2>2. freed = {} /\ \A p \in Procs : MetAtFirst(p) => Keyed(p)
    BY <2>1 DEF KeyInv
  <2>3. freed' = freed
    <3>1. CASE \E p \in Procs : PairCreate(p)
      <4>1. PICK p \in Procs : PairCreate(p)
        BY <3>1
      <4>2. ASSUME NEW c, c = Current(p), NEW t, t = type[p], NEW k, k = Kind(c, t),
                   NEW g, g = CreatePair(IF t = 2 THEN NoPair ELSE Pair(p, k, First(c, RingPeers(c, p))), <<p, made[p] + 1>>)
            PROVE  freed' = freed
        BY <1>2, <4>1, <4>2, Perfect DEF PairsInv
      <4> QED
        BY <4>2
    <3>2. CASE ~ \E p \in Procs : PairCreate(p)
      <4>1. (\E p \in Procs : Process(p)) \/ UNCHANGED freed
        BY OthersHost DEF HostVars, handles
      <4> QED
        BY <3>2, <4>1, HandlesChange
    <3> QED
      BY <3>1, <3>2
  <2>4. ASSUME NEW p \in Procs, MetAtFirst(p)'
        PROVE  Keyed(p)'
    <3>1. MetAtFirst(p)
      BY <1>0, <2>4, ProgKept
    <3> QED
      BY <1>0, <1>2, <2>1, <2>2, <3>1, KeyedNext
  <2> QED
    BY <2>2, <2>3, <2>4
<1> QED
  BY <1>1, <1>2 DEF KeyInv

LEMMA KeyStutters ==
  ASSUME KeyInv, UNCHANGED vars
  PROVE  KeyInv'
<1>0. UNCHANGED <<prog, todo, pc, type, pair, copied, freed, failures>>
  BY DEF vars, exchange, handles, post
<1>1. CopiedType'
  <2>1. CopiedType /\ copied' = copied
    BY <1>0 DEF KeyInv
  <2> QED
    BY <2>1 DEF CopiedType
<1>2. /\ \A c, p : (Fresh(c, p)' <=> Fresh(c, p)) /\ (Creating(c, p)' <=> Creating(c, p)) /\ (InCalls(c, p)' <=> InCalls(c, p))
      /\ \A p : AllCalls(p)' = AllCalls(p) /\ (MetAtFirst(p)' <=> MetAtFirst(p))
      /\ \A p, k, q : Pair(p, k, q)' = Pair(p, k, q)
  BY <1>0 DEF Fresh, Creating, InCalls, AllCalls, MetAtFirst, Pair
<1>3. /\ \A p : Home(p)' = Home(p)
      /\ \A c, p, t : Unmade(c, p, t)' <=> Unmade(c, p, t)
  BY <1>0, <1>2 DEF Home, Unmade
<1>4. \A p \in Procs : Left(p)'
  <2>1. ASSUME NEW p \in Procs, Left(p)
        PROVE  Left(p)'
    <3>1. \A h : h = Home(p) => (Fresh(h, p)' => Creating(h, p)') \/ AllCalls(p) = <<>>
      BY <1>2, <2>1 DEF Left
    <3>2. \A i \in DOMAIN todo[p] : InCalls(todo[p][i].comm, p)
      BY <2>1 DEF Left
    <3> QED
      BY <1>0, <1>2, <1>3, <3>1, <3>2 DEF Left, Fresh, Creating
  <2> QED
    BY <2>1 DEF KeyInv
<1>5. ASSUME NEW p \in Procs, Keyed(p)
      PROVE  Keyed(p)'
  <2>1. FitAt(p)' /\ AlikeAt(p)'
    BY <1>2, <1>5 DEF Keyed, FitAt, AlikeAt
  <2>2. HomeAt(p)'
    BY <1>2, <1>3, <1>5 DEF Keyed, HomeAt
  <2>3. LendAt(p)'
    BY <1>0, <1>2, <1>3, <1>5 DEF Keyed, LendAt
  <2> QED
    BY <2>1, <2>2, <2>3 DEF Keyed
<1> QED
  BY <1>0, <1>1, <1>2, <1>4, <1>5 DEF KeyInv

LEMMA InitKeys ==
  ASSUME Init
  PROVE  KeyInv
<1>1. /\ prog \in Programs /\ \A p \in Procs : todo[p] = AllCalls(p)
      /\ pair = [p \in Procs |-> <<>>] /\ freed = {} /\ \A p \in Procs : pc[p] = "call" /\ type[p] = 0
      /\ copied = [c \in Comms |-> [p \in Members[c] |-> [t \in 0 .. 2 |-> Nobody]]]
  BY DEF Init, AllCalls
<1>2. CopiedType
  BY <1>1, Zenon DEF CopiedType
<1>3. \A p \in Procs : \A k, q : Pair(p, k, q) = NoPair
  BY <1>1 DEF Pair
<1>4. HostType
  BY InitHost
<1>5. ASSUME NEW p \in Procs
      PROVE  /\ \A c : InCalls(c, p) => Fresh(c, p)
             /\ AllCalls(p) # <<>> => Creating(Home(p), p) /\ InCalls(Home(p), p)
  <2>1. AllCalls(p) \in Seq(Calls) /\ InOrder(AllCalls(p)) /\ todo[p] = AllCalls(p)
    BY <1>1, <1>4, CallsTyped
  <2>2. ASSUME NEW c, InCalls(c, p)
        PROVE  Fresh(c, p)
    <3>1. PICK i \in DOMAIN AllCalls(p) : AllCalls(p)[i].comm = c
      BY <2>2 DEF InCalls
    <3>2. PICK j \in 1 .. i : AllCalls(p)[j] = Call("create", c)
      BY <2>1, <3>1, Begins
    <3>3. j \in DOMAIN todo[p]
      BY <2>1, <3>1, <3>2
    <3> QED
      BY <2>1, <3>2, <3>3 DEF Fresh
  <2>3. ASSUME AllCalls(p) # <<>>
        PROVE  Creating(Home(p), p) /\ InCalls(Home(p), p)
    <3>1. InCalls(Home(p), p) /\ AllCalls(p)[1] = Call("create", Home(p))
      BY <1>4, <2>3, CallsTyped
    <3>2. Head(todo[p]) = AllCalls(p)[1]
      BY <2>1, <2>3
    <3> QED
      BY <2>1, <2>3, <3>1, <3>2 DEF Creating
  <2> QED
    BY <2>2, <2>3
<1>6. ASSUME NEW p \in Procs
      PROVE  Left(p)
  BY <1>1, <1>5 DEF Left, InCalls
<1>7. ASSUME NEW p \in Procs, NEW c, InCalls(c, p), NEW t \in {0, 1}
      PROVE  Unmade(c, p, t)
  BY <1>1, <1>5, <1>7 DEF Unmade
<1>8. ASSUME NEW p \in Procs
      PROVE  Keyed(p)
  <2>1. FitAt(p) /\ AlikeAt(p)
    BY <1>3 DEF FitAt, AlikeAt
  <2>2. HomeAt(p)
    BY <1>3, <1>5, <1>7 DEF HomeAt
  <2>3. LendAt(p)
    BY <1>5, <1>7 DEF LendAt
  <2> QED
    BY <2>1, <2>2, <2>3 DEF Keyed
<1> QED
  BY <1>1, <1>2, <1>6, <1>8 DEF KeyInv

\* The memory region that a post names is of the protection domain of its QP,
\* and is not one that was deregistered, in however many communicators a
\* process has, as long as nothing failed and they have their neighbours on
\* other nodes among those of the first: all pairs of a table are of the
\* domain that the first creation made (IB_COPY, resources_create).
THEOREM KeysAlwaysFit == Spec => []KeysFit
<1>1. Init => KeyInv
  BY InitKeys
<1>2. IInv /\ KeyInv /\ [Next]_vars => KeyInv'
  <2>1. IInv => PairsInv /\ TodoInv
    BY DEF IInv, PairsInv
  <2> QED
    BY <2>1, KeyNext, KeyStutters
<1>3. IInv /\ KeyInv => KeysFit
  <2> SUFFICES ASSUME IInv, KeyInv, failures = 0, NEW p \in Procs, MetAtFirst(p), NEW x \in DOMAIN pair[p],
                      NEW s \in Sides, pair[p][x][s].qp # Null
               PROVE  pair[p][x][s].mr = pair[p][x][s].qppd /\ pair[p][x][s].mr \notin freed
    BY DEF KeysFit
  <2>1. x[1] \in Kinds /\ x = <<x[1], x[2]>>
    BY DEF IInv, PairType
  <2>2. Pair(p, x[1], x[2]) = pair[p][x]
    BY <2>1 DEF Pair
  <2>3. freed = {} /\ FitAt(p)
    BY DEF KeyInv, Keyed
  <2>4. pair[p][x] = NoPair \/ Fits(pair[p][x])
    BY <2>1, <2>2, <2>3 DEF FitAt
  <2>5. pair[p][x] # NoPair
    BY DEF NoPair, NoRes, Sides
  <2>6. s = "send" \/ s = "recv"
    BY DEF Sides
  <2> QED
    BY <2>3, <2>4, <2>5, <2>6 DEF Fits, Fit
<1> QED
  BY <1>1, <1>2, <1>3, Invariant, PTL DEF Spec

=============================================================================
