---------------------------- MODULE MCCommInit ----------------------------
(* Communicators of two to eight ranks on one to three nodes; the README   *)
(* says why these.                                                         *)
EXTENDS CommInit

\* Ranks started node by node and card by card.
Blocks(nodes, cards, ranks) ==
  [r \in 0 .. (nodes * cards * ranks) - 1 |->
    LET card == (r \div ranks) % cards IN
    [ip |-> r \div (cards * ranks),
     devid |-> (card * DEV_NUM) + (r % ranks),
     phyCardId |-> PciId(card)]]

\* Ranks dealt to the nodes in turn, each node using the first devices.
Dealt(nodes, cards, ranks) ==
  [r \in 0 .. (nodes * cards * ranks) - 1 |->
    LET card == (r \div nodes) % cards IN
    [ip |-> r % nodes,
     devid |-> (card * DEV_NUM) + (r \div (nodes * cards)),
     phyCardId |-> PciId(card)]]

MCPlacements == {Blocks(2, 1, 1), Blocks(2, 1, 2), Blocks(2, 2, 1), Blocks(3, 1, 1),
                 Blocks(1, 8, 1), Dealt(1, 2, 2), Dealt(2, 1, 2), Dealt(2, 2, 1)}

MCDevlists == {<<1, 0>>, <<3, 0, 2, 1>>, <<0, 2>>, <<0, 1, 2>>, <<0, 4, 2>>, <<2, 3, 7, 6>>}
MCDefaults == {2, 4}
MCDataSizes == {4, 3 * MB, 20 * MB, 50 * MB, 65 * MB, 100 * MB, 500 * MB}
=============================================================================
