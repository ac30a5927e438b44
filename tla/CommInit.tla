----------------------------- MODULE CommInit -----------------------------
(***************************************************************************)
(* Creating a communicator: from the devices the ranks are started on to   *)
(* the connected ring sockets, the layout, the connection types, and the   *)
(* step length of a first AllReduce (tcclProxyCreate, tcclInitTransport).  *)
(*                                                                         *)
(* Every rank has one listening socket (proxyListen) for three rings: of   *)
(* all ranks, of the ranks of its node and, with SHARP, across the nodes.  *)
(* A rank connects to its next rank in a ring and then accepts, as the     *)
(* link from its previous one, whatever connection has arrived first.      *)
(*                                                                         *)
(* The gathers over the bootstrap ring and tcclBarrierAll are used by what *)
(* SocketRing shows of them; tcclBarrierNode is modelled, because it runs  *)
(* over links that may be wrong.                                           *)
(***************************************************************************)
EXTENDS Layout, StepLen

CONSTANTS Placements,   \* the tables dev of communicators of tcclCommInitRank
          Devlists,     \* the lists given to tcclCommInitAll
          Defaults,     \* the numbers of ranks of tcclCommInitAll without list
          Sharp,        \* the values of TCCL_SHARP_ENABLE
          DataSizes     \* the sizes of the first AllReduce, in bytes

ASSUME PlacementsAssumption == \A table \in Placements : Placed(table)
ASSUME DevlistsAssumption == \A list \in Devlists : list \in Seq(Int) \ {<<>>}
\* Multiples of DEV_NUM, as the README of the library asks of the caller.
ASSUME DefaultsAssumption == \A ndev \in Defaults : ndev \in Nat \ {0} /\ ndev % DEV_NUM = 0
ASSUME OptionsAssumption == Sharp \subseteq BOOLEAN /\ DataSizes \subseteq Nat

VARIABLES
  dev,          \* the device table all ranks gathered over the bootstrap ring
  sharpEnable,  \* is SHARP enabled, by the environment of all ranks?
  pc,           \* what each rank does next
  listen,       \* connections waiting at the listening socket of each rank
  prev,         \* the links each rank has accepted
  layout,       \* what tcclNicRankList has computed, for the ranks that are there
  connectType,  \* how each rank that has set it reaches its peers
  step          \* the first AllReduce: its step length and number of slices

vars == <<dev, sharpEnable, pc, listen, prev, layout, connectType, step>>

Ranks == DOMAIN dev
nranks == Cardinality(Ranks)

\* A connection is known by who made it, and for which ring.
Link(r, ring) == [from |-> r, ring |-> ring]
NoLink == Link(-1, "none")
NoLinks == [all |-> NoLink, node |-> NoLink, sharp |-> NoLink]
NoStep == [len |-> 0, cards |-> 0]

\* The device table of a single host, card c having PCI id PciId(c).
PciId(c) == MAX_CARD_NUM - 1 - c
OneHost(devlist) ==
  [r \in 0 .. Len(devlist) - 1 |->
    [ip |-> 0, devid |-> devlist[r + 1], phyCardId |-> PciId(devlist[r + 1] \div DEV_NUM)]]

-----------------------------------------------------------------------------
CommInitRank == dev \in Placements
CommInitAll ==
  \/ \E list \in Devlists : DevlistAccepted(list) /\ dev = OneHost(list)
  \/ \E ndev \in Defaults : HasDefault(ndev) /\ dev = OneHost(DefaultList(ndev))

Init ==
  /\ CommInitRank \/ CommInitAll
  /\ sharpEnable \in Sharp
  /\ pc = [r \in Ranks |-> "connectAll"]
  /\ listen = [r \in Ranks |-> <<>>]
  /\ prev = [r \in Ranks |-> NoLinks]
  /\ layout = <<>>
  /\ connectType = <<>>
  /\ step = NoStep

\* The steps of a rank, in their order.
Steps == <<"connectAll", "acceptAll", "barrierAll", "connectNode", "acceptNode",
           "barrierNode", "connectSharp", "acceptSharp", "gather", "done">>
Order(l) == CHOOSE j \in DOMAIN Steps : Steps[j] = l
Reached(q, l) == Order(pc[q]) >= Order(l)
Goto(r, l) == pc' = [pc EXCEPT ![r] = l]

\* What rank r finds out is there from then on.
Set(found, r, x) == [q \in DOMAIN found \cup {r} |-> IF q = r THEN x ELSE found[q]]

Connect(r, ring, next) ==
  /\ next \in Ranks
  /\ listen' = [listen EXCEPT ![next] = Append(@, Link(r, ring))]
Accept(r, ring) ==
  /\ listen[r] # <<>>
  /\ prev' = [prev EXCEPT ![r][ring] = Head(listen[r])]
  /\ listen' = [listen EXCEPT ![r] = Tail(@)]

ConnectAll(r) ==
  /\ pc[r] = "connectAll" /\ Goto(r, "acceptAll")
  /\ Connect(r, "all", (r + 1) % nranks)
  /\ UNCHANGED <<dev, sharpEnable, prev, layout, connectType, step>>

AcceptAll(r) ==
  /\ pc[r] = "acceptAll" /\ Goto(r, "barrierAll")
  /\ Accept(r, "all")
  /\ UNCHANGED <<dev, sharpEnable, layout, connectType, step>>

\* tcclBarrierAll, and the layout; a single node takes the ring of all ranks
\* for the ring of the node.
Bug_AllConnected == TRUE
AllConnected == \A q \in Ranks : Reached(q, "barrierAll")
RankList(r) ==
  /\ pc[r] = "barrierAll"
  /\ AllConnected
  /\ \E list \in {phyRankList(dev, r)} :
       layout' = Set(layout, r, tcclNicRankList(dev, r, list))
  /\ IF layout'[r].node_num > 1
     THEN Goto(r, "connectNode") /\ UNCHANGED prev
     ELSE Goto(r, "gather") /\ prev' = [prev EXCEPT ![r].node = prev[r].all]
  /\ UNCHANGED <<dev, sharpEnable, listen, connectType, step>>

ConnectNode(r) ==
  /\ pc[r] = "connectNode" /\ Goto(r, "acceptNode")
  /\ Connect(r, "node", layout[r].nodenext)
  /\ UNCHANGED <<dev, sharpEnable, prev, layout, connectType, step>>

AcceptNode(r) ==
  /\ pc[r] = "acceptNode" /\ Goto(r, "barrierNode")
  /\ Accept(r, "node")
  /\ UNCHANGED <<dev, sharpEnable, layout, connectType, step>>

\* tcclBarrierNode: a rank leaves with the message of round n - 1 from the
\* link it took for its previous rank, which that rank sends when it has the
\* message of the round before; nobody sends over a link of the SHARP ring.
RoundsSent(q, n) ==
  LET sent[k \in 1 .. n, s \in Ranks] ==
        /\ Reached(s, "barrierNode")
        /\ k > 1 => prev[s].node.ring = "node" /\ sent[k - 1, prev[s].node.from]
  IN sent[n, q]
BarrierNode(r) ==
  LET n == layout[r].rank_num * layout[r].card_num IN
  /\ pc[r] = "barrierNode"
  /\ Goto(r, IF sharpEnable THEN "connectSharp" ELSE "gather")
  /\ n > 1 => prev[r].node.ring = "node" /\ RoundsSent(prev[r].node.from, n - 1)
  /\ UNCHANGED <<dev, sharpEnable, listen, prev, layout, connectType, step>>

ConnectSharp(r) ==
  /\ pc[r] = "connectSharp" /\ Goto(r, "acceptSharp")
  /\ Connect(r, "sharp", layout[r].sharpnext)
  /\ UNCHANGED <<dev, sharpEnable, prev, layout, connectType, step>>

AcceptSharp(r) ==
  /\ pc[r] = "acceptSharp" /\ Goto(r, "gather")
  /\ Accept(r, "sharp")
  /\ UNCHANGED <<dev, sharpEnable, layout, connectType, step>>

\* nic_info of every rank, over the bootstrap ring, and the connection types.
NicInfo(r) == [nodeId |-> layout[r].node_id, phyCardId |-> dev[r].phyCardId]
Gather(r) ==
  /\ pc[r] = "gather" /\ Goto(r, "done")
  /\ \A q \in Ranks : Reached(q, "gather")
  /\ LET nic_info == [q \in Ranks |-> NicInfo(q)] IN
     connectType' =
       Set(connectType, r, [q \in Ranks |-> tcclConnectTypeSet(nic_info, r, q)])
  /\ UNCHANGED <<dev, sharpEnable, listen, prev, layout, step>>

\* tcclPublicWork on the whole communicator; every rank comes to the same
\* length, computed here by rank 0.  SHARP is for several nodes and not for
\* elements of one byte.
OneNode == layout[0].node_num = 1
AllReduce(data_size, typelen) ==
  LET l == layout[0] IN
  /\ step = NoStep /\ \A q \in Ranks : pc[q] = "done"
  /\ step' = IF \/ OneNode /\ l.card_num = 4 /\ l.rank_num = DEV_NUM
                \/ sharpEnable /\ ~OneNode /\ typelen # 1
             THEN [len |-> tcclGetStepLen(data_size, l.card_num * l.rank_num),
                   cards |-> l.card_num]
             ELSE [len |-> tcclNicStepLen(data_size, nranks, l.rank_num),
                   cards |-> l.allCardNum]
  /\ UNCHANGED <<dev, sharpEnable, pc, listen, prev, layout, connectType>>

Rank(r) == \/ ConnectAll(r) \/ AcceptAll(r) \/ RankList(r)
           \/ ConnectNode(r) \/ AcceptNode(r) \/ BarrierNode(r)
           \/ ConnectSharp(r) \/ AcceptSharp(r) \/ Gather(r)

Next == \/ \E r \in Ranks : Rank(r)
        \/ \E s \in DataSizes, t \in {1, 4} : AllReduce(s, t)

Spec == Init /\ [][Next]_vars
FairSpec == Spec /\ WF_vars(\E r \in Ranks : Rank(r))

-----------------------------------------------------------------------------
(***************************************************************************)
(* The layouts the ranks compute apart from each other fit together        *)
(* (tcclNicRankList): following phyNextRank leads through every card once, *)
(* by ranks of one rank_id; the neighbour knows this rank as its previous  *)
(* one and has the next card number, and the list that a card number is    *)
(* looked up in has this rank in its place.                                *)
(***************************************************************************)
RingsFit ==
  \A r \in DOMAIN layout :
    LET l == layout[r]
        next == l.phyNextRank IN
    /\ {OnCard(dev, q) : q \in Range(l.phyRankList)} = Cards(dev)
    /\ Len(l.phyRankList) = l.allCardNum
    /\ l.phyRankList[l.phyCardRank + 1] = r
    /\ next \in DOMAIN layout =>
         /\ layout[next].phyPrevRank = r
         /\ layout[next].rank_id = l.rank_id
         /\ layout[next].phyCardRank = (l.phyCardRank + 1) % l.allCardNum
         /\ layout[next].phyRankList = l.phyRankList

(***************************************************************************)
(* Accepting takes whoever comes first, yet the link a rank has for the    *)
(* previous rank of a ring leads to that rank (tcclProxyCreate): a rank    *)
(* connects for the next ring only when nobody waits for the last one.     *)
(* The ring of a node is only as good as ranks started node by node, and   *)
(* holds only without SHARP: tcclBarrierNode keeps the ranks of one node   *)
(* together, while the links of the SHARP ring come from another node.     *)
(***************************************************************************)
LinksFit ==
  /\ \A r \in Ranks :
       prev[r].all \in {NoLink, Link((r + nranks - 1) % nranks, "all")}
  /\ ~sharpEnable /\ Cardinality(Nodes(dev)) > 1 /\ NodeByNode(dev) =>
       \A r \in Ranks : prev[r].node # NoLink =>
         /\ prev[r].node.ring = "node"
         /\ layout[prev[r].node.from].nodenext = r
         /\ dev[prev[r].node.from].ip = dev[r].ip

\* The slices of a chunk fit half of a cross buffer, of which the next chunk
\* uses the other half (tcclNicStepLen, tcclGetStepLen).  Rounding a length up
\* may go past the cap unless the number of cards is a power of two.
ChunkFitsHalf ==
  step.cards \in {1, 2, 4, 8, 16, 32, 64} => step.len * step.cards <= MAX_SIZE \div 2

\* The set-up comes to its end on every rank, if ranks are started node by
\* node and SHARP is off (tcclProxyCreate, tcclBootstrapInit).
SetUpCompletes ==
  ~sharpEnable /\ NodeByNode(dev) => <>(\A r \in Ranks : pc[r] = "done")
=============================================================================
