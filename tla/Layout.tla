------------------------------ MODULE Layout ------------------------------
(***************************************************************************)
(* Which rank sits where, and who its neighbours are (tcclNicRankList).    *)
(*                                                                         *)
(* Every rank computes its own layout from the same table dev, gathered    *)
(* from all ranks: dev[r] is the address (ip) of the host of rank r, the   *)
(* device it uses on that host and the PCI id of the card of that device,  *)
(* which tells the cards of a host apart.                                  *)
(***************************************************************************)
EXTENDS Integers, Sequences, FiniteSets, SequencesExt

CONSTANTS DEV_NUM,      \* devices of a card, tcclGetDevNum()
          dev_cnt       \* devices of a host, sdaaGetDeviceCount()

MAX_CARD_NUM == 8
\* The PCI ids that tcclNicRankList looks for.
nic_topo == 0 .. MAX_CARD_NUM - 1

ASSUME DevicesAssumption ==
  /\ DEV_NUM \in Nat \ {0} /\ dev_cnt \in Nat \ {0}
  /\ dev_cnt % DEV_NUM = 0 /\ dev_cnt <= MAX_CARD_NUM * DEV_NUM

tcclIsOneCard(a, b) ==
  a.ip = b.ip /\ a.devid \div DEV_NUM = b.devid \div DEV_NUM

OnCard(dev, r) == {q \in DOMAIN dev : tcclIsOneCard(dev[r], dev[q])}
OnNode(dev, r) == {q \in DOMAIN dev : dev[q].ip = dev[r].ip}
Nodes(dev) == {dev[r].ip : r \in DOMAIN dev}
CardsOfNode(dev, r) == {OnCard(dev, q) : q \in OnNode(dev, r)}
Cards(dev) == {OnCard(dev, r) : r \in DOMAIN dev}

\* What the code takes for granted of a communicator: all its cards have the
\* same number of ranks, and all its nodes the same number of cards.
Uniform(dev) ==
  \A r, q \in DOMAIN dev :
    /\ Cardinality(OnCard(dev, r)) = Cardinality(OnCard(dev, q))
    /\ Cardinality(CardsOfNode(dev, r)) = Cardinality(CardsOfNode(dev, q))

\* The table of a communicator: ranks count from 0, the cards of a host have
\* different PCI ids, of those in nic_topo, and there are at most MAX_CARD_NUM.
Placed(dev) ==
  /\ IsFiniteSet(DOMAIN dev) /\ DOMAIN dev # {}
  /\ DOMAIN dev = 0 .. Cardinality(DOMAIN dev) - 1
  /\ \A r \in DOMAIN dev :
       /\ dev[r].devid \in Nat /\ dev[r].phyCardId \in nic_topo
       /\ Cardinality(CardsOfNode(dev, r)) <= MAX_CARD_NUM
  /\ \A r, q \in DOMAIN dev : dev[r].ip = dev[q].ip =>
       (tcclIsOneCard(dev[r], dev[q]) <=> dev[r].phyCardId = dev[q].phyCardId)
  /\ Uniform(dev)

\* Ranks are numbered within their card in their order, cards within their
\* node by PCI id, if it is in nic_topo, and nodes in the order of their first
\* ranks.
rank_id(dev, r) == Cardinality({q \in OnCard(dev, r) : q < r})
Bug_card_id(dev, r) ==
  IF dev[r].phyCardId \notin nic_topo THEN -1
  ELSE Cardinality({dev[q].phyCardId : q \in {p \in OnNode(dev, r) : p < r}}
                     \cap 0 .. dev[r].phyCardId - 1)
card_id(dev, r) ==
  IF dev[r].phyCardId \notin nic_topo THEN -1
  ELSE Cardinality({dev[q].phyCardId : q \in OnNode(dev, r)} \cap 0 .. dev[r].phyCardId - 1)
node_id(dev, r) ==
  Cardinality({dev[q].ip : q \in 0 .. Min(OnNode(dev, r)) - 1})

\* The ranks with the rank_id of r, one of each card in the order of noderank:
\* by node, then by card.
phyRankList(dev, r) ==
  LET column == {q \in DOMAIN dev : rank_id(dev, q) = rank_id(dev, r)}
      Before(p, q) == \/ node_id(dev, p) < node_id(dev, q)
                      \/ OnNode(dev, p) = OnNode(dev, q)
                         /\ \/ card_id(dev, p) < card_id(dev, q)
                            \/ card_id(dev, p) = card_id(dev, q) /\ p < q
  IN [j \in 1 .. Cardinality(column) |->
       CHOOSE q \in column : Cardinality({p \in column : Before(p, q)}) = j - 1]

\* The next rank of the ring of a node: right if ranks were started node by
\* node, so that the ranks of a node have consecutive numbers.
Bug_nodenext(r, rank_per_node, node) == (r + 1) % rank_per_node
nodenext(r, rank_per_node, node) ==
  ((r + 1) % rank_per_node) + (node * rank_per_node)
NodeByNode(dev) ==
  \A r, q \in DOMAIN dev :
    r < q /\ dev[r].ip = dev[q].ip => \A p \in r .. q : dev[p].ip = dev[r].ip

\* The layout rank r computes, with its list of ring ranks: comm->node,
\* comm->allRing and the ranks its proxy connects to.  Sequences count from 1,
\* the code's indices from 0.
tcclNicRankList(dev, r, list) ==
  LET k == Len(list)
      me == CHOOSE j \in 1 .. k : list[j] = r
      card_num == Cardinality(CardsOfNode(dev, r))
      rank_num == Cardinality(OnCard(dev, r))
      rank_per_node == card_num * rank_num
      node_num == Cardinality(Nodes(dev))
  IN [rank_id |-> rank_id(dev, r), rank_num |-> rank_num,
      card_id |-> card_id(dev, r), card_num |-> card_num,
      node_id |-> node_id(dev, r), node_num |-> node_num,
      phyRankList |-> list,
      phyNextRank |-> list[(me % k) + 1],
      phyPrevRank |-> list[((me + k - 2) % k) + 1],
      phyCardRank |-> (node_id(dev, r) * card_num) + card_id(dev, r),
      allCardNum |-> node_num * card_num,
      sharpnext |-> (r + rank_per_node) % Cardinality(DOMAIN dev),
      nodenext |-> nodenext(r, rank_per_node, node_id(dev, r))]

\* The lookup of a peer in the rank lists of the cards of a rank's own node:
\* it does not use the node numbers of the layout.
tcclIsInTheNode(dev, r, peer) == \E c \in CardsOfNode(dev, r) : peer \in c

\* How r reaches its peer, from the layouts all ranks gathered (nic_info).
tcclConnectTypeSet(nic_info, r, peer) ==
  IF nic_info[r].nodeId # nic_info[peer].nodeId THEN "IB"
  ELSE IF nic_info[r].phyCardId = nic_info[peer].phyCardId THEN "DMA"
  ELSE "P2P"

-----------------------------------------------------------------------------
\* tcclCommInitAll: one process, rank i on device devlist[i + 1] of its host.
Used(devlist, card) ==
  {i \in DOMAIN devlist : devlist[i] \div DEV_NUM = card}

DevlistAccepted(devlist) ==
  /\ Range(devlist) \subseteq 0 .. dev_cnt - 1
  /\ IsInjective(devlist)
  /\ \A i, j \in DOMAIN devlist :
       Cardinality(Used(devlist, devlist[i] \div DEV_NUM))
         = Cardinality(Used(devlist, devlist[j] \div DEV_NUM))

\* The list made up when the caller gives none: it exists if ndev is a product
\* of a number of ranks per card and a number of cards.  list[idx] is
\* card * rank_num + rank_id, which is idx.
HasDefault(ndev) ==
  \E rank_num \in 1 .. DEV_NUM :
    ndev % rank_num = 0 /\ ndev \div rank_num <= dev_cnt \div DEV_NUM
DefaultList(ndev) == [i \in 1 .. ndev |-> i - 1]
=============================================================================
