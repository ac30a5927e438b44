--------------------------- MODULE CommInitProofs ---------------------------
(***************************************************************************)
(* What holds of the set-up of every communicator, whatever its size: the  *)
(* layouts the ranks compute apart fit together, every link leads to the   *)
(* rank it is taken for, and the slices of a chunk fit their half buffer.  *)
(***************************************************************************)
EXTENDS CommInit, LayoutProofs

-----------------------------------------------------------------------------
(* The inductive invariant.                                                *)

Labels == {"connectAll", "acceptAll", "barrierAll", "connectNode", "acceptNode",
           "barrierNode", "connectSharp", "acceptSharp", "gather", "done"}
Links == [from : Ranks \cup {-1}, ring : {"none", "all", "node", "sharp"}]

TypeInv ==
  /\ Placed(dev)
  /\ sharpEnable \in BOOLEAN
  /\ pc \in [Ranks -> Labels]
  /\ listen \in [Ranks -> Seq(Links)]
  /\ prev \in [Ranks -> [all : Links, node : Links, sharp : Links]]

\* A rank that has left tcclBarrierAll has its layout.
LayoutInv ==
  /\ DOMAIN layout \subseteq Ranks
  /\ \A r \in DOMAIN layout : layout[r] = tcclNicRankList(dev, r, phyRankList(dev, r))
  /\ \A r \in Ranks : pc[r] \notin {"connectAll", "acceptAll", "barrierAll"} => r \in DOMAIN layout

Pred(r) == (r + nranks - 1) % nranks
Unlinked == {"connectAll", "acceptAll"}

\* Until all ranks have a link of the ring of all ranks, nobody connects for
\* another ring: the only connection that can wait for r is that of the rank
\* before it, from when that one has made it until r has accepted it.
AllRingInv ==
  \A r \in Ranks :
    /\ prev[r].all = IF pc[r] \in Unlinked THEN NoLink ELSE Link(Pred(r), "all")
    /\ pc[r] \notin Unlinked => pc[Pred(r)] # "connectAll"
    /\ (\E q \in Ranks : pc[q] \in Unlinked) =>
         /\ pc[r] \in Unlinked \cup {"barrierAll"}
         /\ listen[r] = IF pc[r] \in Unlinked /\ pc[Pred(r)] # "connectAll"
                        THEN <<Link(Pred(r), "all")>> ELSE <<>>

\* Once they all have one, and without SHARP, only the ranks that have r as
\* their next rank of the node connect to r.
NodeLink(k, r) ==
  k.ring = "node" /\ k.from \in DOMAIN layout /\ layout[k.from].nodenext = r
NodeRingInv ==
  ~ sharpEnable =>
    /\ \A r \in Ranks : pc[r] \notin {"connectSharp", "acceptSharp"}
    /\ (\A q \in Ranks : pc[q] \notin Unlinked) =>
         \A r \in Ranks : \A j \in DOMAIN listen[r] : NodeLink(listen[r][j], r)
    /\ Cardinality(Nodes(dev)) > 1 =>
         \A r \in Ranks : prev[r].node # NoLink => NodeLink(prev[r].node, r)

IInv == TypeInv /\ LayoutInv /\ AllRingInv /\ NodeRingInv /\ ChunkFitsHalf

-----------------------------------------------------------------------------
(* The ring of all ranks.                                                  *)

LEMMA RankNumbers ==
  ASSUME Placed(dev)
  PROVE  nranks \in Nat \ {0} /\ Ranks = 0 .. nranks - 1 /\ IsFiniteSet(Ranks)
<1>1. IsFiniteSet(Ranks) /\ Ranks # {} /\ Ranks = 0 .. nranks - 1
  BY DEF Placed, Ranks, nranks
<1>2. nranks \in Nat
  BY <1>1, FS_CardinalityType DEF nranks
<1> QED
  BY <1>1, <1>2

\* Before the rank after r comes r, and before no other.
LEMMA PredNext ==
  ASSUME Placed(dev), NEW r \in Ranks
  PROVE  /\ Pred(r) \in Ranks /\ (r + 1) % nranks \in Ranks
         /\ \A q \in Ranks : Pred(q) = r <=> q = (r + 1) % nranks
<1> DEFINE n == nranks
<1>1. n \in Nat \ {0} /\ Ranks = 0 .. n - 1
  BY RankNumbers
<1> HIDE DEF n
<1>2. \A x \in 0 .. n - 1 : /\ (x + n - 1) % n = IF x = 0 THEN n - 1 ELSE x - 1
                            /\ (x + 1) % n = IF x = n - 1 THEN 0 ELSE x + 1
  <2> SUFFICES ASSUME NEW x \in 0 .. n - 1
               PROVE  /\ (x + n - 1) % n = IF x = 0 THEN n - 1 ELSE x - 1
                      /\ (x + 1) % n = IF x = n - 1 THEN 0 ELSE x + 1
    OBVIOUS
  <2>1. (x + n - 1) % n = IF x = 0 THEN n - 1 ELSE x - 1
    BY <1>1
  <2>2. (x + 1) % n = IF x = n - 1 THEN 0 ELSE x + 1
    BY <1>1
  <2> QED
    BY <2>1, <2>2
<1>3. \A x \in Ranks : Pred(x) = IF x = 0 THEN n - 1 ELSE x - 1
  BY <1>1, <1>2 DEF Pred, n
<1>4. \A x \in Ranks : (x + 1) % n = IF x = n - 1 THEN 0 ELSE x + 1
  BY <1>1, <1>2
<1>5. Pred(r) \in Ranks /\ (r + 1) % n \in Ranks
  BY <1>1, <1>3, <1>4
<1>6. ASSUME NEW q \in Ranks
      PROVE  Pred(q) = r <=> q = (r + 1) % n
  <2>1. Pred(q) = IF q = 0 THEN n - 1 ELSE q - 1
    BY <1>3
  <2>2. (r + 1) % n = IF r = n - 1 THEN 0 ELSE r + 1
    BY <1>4
  <2>3. q \in 0 .. n - 1 /\ r \in 0 .. n - 1
    BY <1>1
  <2>4. (IF q = 0 THEN n - 1 ELSE q - 1) = r <=> q = IF r = n - 1 THEN 0 ELSE r + 1
    BY <1>1, <2>3
  <2> QED
    BY <2>1, <2>2, <2>4
<1> QED
  BY <1>5, <1>6 DEF n

\* AllConnected, without the order of the steps.
LEMMA AllConnectedIff ==
  ASSUME TypeInv
  PROVE  AllConnected <=> \A q \in Ranks : pc[q] \notin Unlinked
<1>1. /\ Order("connectAll") = 1 /\ Order("acceptAll") = 2 /\ Order("barrierAll") = 3
      /\ Order("connectNode") = 4 /\ Order("acceptNode") = 5 /\ Order("barrierNode") = 6
      /\ Order("connectSharp") = 7 /\ Order("acceptSharp") = 8 /\ Order("gather") = 9
      /\ Order("done") = 10
  <2>1. DOMAIN Steps = 1 .. 10
    BY DEF Steps
  <2>2. /\ Steps[1] = "connectAll" /\ Steps[2] = "acceptAll" /\ Steps[3] = "barrierAll"
        /\ Steps[4] = "connectNode" /\ Steps[5] = "acceptNode" /\ Steps[6] = "barrierNode"
        /\ Steps[7] = "connectSharp" /\ Steps[8] = "acceptSharp" /\ Steps[9] = "gather"
        /\ Steps[10] = "done"
    BY DEF Steps
  <2>3. \A i, j \in 1 .. 10 : Steps[i] = Steps[j] => i = j
    BY <2>2
  <2>4. \A i \in 1 .. 10 : Order(Steps[i]) = i
    BY <2>1, <2>3 DEF Order
  <2> HIDE DEF Steps
  <2> QED
    BY <2>2, <2>4
<1>2. \A q \in Ranks : pc[q] \in Labels
  BY DEF TypeInv
<1>3. \A q \in Ranks : Reached(q, "barrierAll") <=> pc[q] \notin Unlinked
  BY <1>1, <1>2 DEF Reached, Labels, Unlinked
<1> QED
  BY <1>3 DEF AllConnected

-----------------------------------------------------------------------------
(* The steps keep the invariant.                                           *)

LEMMA TypeStep ==
  ASSUME IInv, [Next]_vars
  PROVE  TypeInv' /\ dev' = dev /\ sharpEnable' = sharpEnable
<1> USE DEF TypeInv, IInv
<1>0. /\ Placed(dev) /\ sharpEnable \in BOOLEAN
      /\ pc \in [Ranks -> Labels]
      /\ listen \in [Ranks -> Seq(Links)]
      /\ prev \in [Ranks -> [all : Links, node : Links, sharp : Links]]
  OBVIOUS
<1>1. dev' = dev /\ sharpEnable' = sharpEnable
  BY DEF Next, vars, Rank, ConnectAll, AcceptAll, RankList, ConnectNode, AcceptNode,
         BarrierNode, ConnectSharp, AcceptSharp, Gather, AllReduce
<1>2. Ranks' = Ranks /\ Links' = Links
  BY <1>1 DEF Ranks, Links
<1>3. ASSUME NEW r \in Ranks, NEW l, Goto(r, l), l \in Labels
      PROVE  pc' \in [Ranks -> Labels]
  BY <1>3 DEF Goto
<1>4. ASSUME NEW r \in Ranks, NEW ring \in {"all", "node", "sharp"}, NEW next, Connect(r, ring, next)
      PROVE  listen' \in [Ranks -> Seq(Links)]
  <2>1. Link(r, ring) \in Links /\ next \in Ranks
    BY <1>4 DEF Link, Links, Connect
  <2>2. Append(listen[next], Link(r, ring)) \in Seq(Links)
    BY <2>1
  <2>3. listen' = [listen EXCEPT ![next] = Append(listen[next], Link(r, ring))]
    BY <1>4 DEF Connect
  <2> QED
    BY <2>1, <2>2, <2>3
<1>5. ASSUME NEW r \in Ranks, NEW ring \in {"all", "node", "sharp"}, Accept(r, ring)
      PROVE  /\ listen' \in [Ranks -> Seq(Links)]
             /\ prev' \in [Ranks -> [all : Links, node : Links, sharp : Links]]
  <2>1. listen[r] \in Seq(Links) /\ listen[r] # <<>>
    BY <1>5 DEF Accept
  <2>2. Head(listen[r]) \in Links /\ Tail(listen[r]) \in Seq(Links)
    BY <2>1
  <2>3. listen' = [listen EXCEPT ![r] = Tail(listen[r])]
    BY <1>5 DEF Accept
  <2>4. prev' = [prev EXCEPT ![r] = [prev[r] EXCEPT ![ring] = Head(listen[r])]]
    BY <1>5 DEF Accept
  <2>5. [prev[r] EXCEPT ![ring] = Head(listen[r])] \in [all : Links, node : Links, sharp : Links]
    BY <2>2
  <2>6. listen' \in [Ranks -> Seq(Links)]
    BY <2>2, <2>3
  <2>7. prev' \in [Ranks -> [all : Links, node : Links, sharp : Links]]
    BY <2>4, <2>5
  <2> QED
    BY <2>6, <2>7
<1>6. pc' \in [Ranks -> Labels]
  <2>1. ASSUME NEW r \in Ranks, Rank(r)
        PROVE  pc' \in [Ranks -> Labels]
    <3>1. \E l \in Labels : Goto(r, l)
      BY <2>1 DEF Rank, ConnectAll, AcceptAll, RankList, ConnectNode, AcceptNode,
         BarrierNode, ConnectSharp, AcceptSharp, Gather, Labels
    <3> QED
      BY <1>3, <3>1
  <2>2. ASSUME NEW s \in DataSizes, NEW t \in {1, 4}, AllReduce(s, t)
        PROVE  pc' \in [Ranks -> Labels]
    BY <2>2 DEF AllReduce
  <2> QED
    BY <2>1, <2>2 DEF Next, vars
<1>7. /\ listen' \in [Ranks -> Seq(Links)]
      /\ prev' \in [Ranks -> [all : Links, node : Links, sharp : Links]]
  <2>1. ASSUME NEW r \in Ranks, ConnectAll(r)
        PROVE  <1>7!:
    BY <1>4, <2>1 DEF ConnectAll
  <2>2. ASSUME NEW r \in Ranks, AcceptAll(r)
        PROVE  <1>7!:
    BY <1>5, <2>2 DEF AcceptAll
  <2>3. ASSUME NEW r \in Ranks, RankList(r)
        PROVE  <1>7!:
    <3>1. listen' = listen
      BY <2>3 DEF RankList
    <3>2. prev' = prev \/ prev' = [prev EXCEPT ![r] = [prev[r] EXCEPT !.node = prev[r].all]]
      BY <2>3 DEF RankList
    <3>3. [prev[r] EXCEPT !.node = prev[r].all] \in [all : Links, node : Links, sharp : Links]
      OBVIOUS
    <3> QED
      BY <3>1, <3>2, <3>3
  <2>4. ASSUME NEW r \in Ranks, ConnectNode(r)
        PROVE  <1>7!:
    BY <1>4, <2>4 DEF ConnectNode
  <2>5. ASSUME NEW r \in Ranks, AcceptNode(r)
        PROVE  <1>7!:
    BY <1>5, <2>5 DEF AcceptNode
  <2>6. ASSUME NEW r \in Ranks, BarrierNode(r)
        PROVE  <1>7!:
    BY <2>6 DEF BarrierNode
  <2>7. ASSUME NEW r \in Ranks, ConnectSharp(r)
        PROVE  <1>7!:
    BY <1>4, <2>7 DEF ConnectSharp
  <2>8. ASSUME NEW r \in Ranks, AcceptSharp(r)
        PROVE  <1>7!:
    BY <1>5, <2>8 DEF AcceptSharp
  <2>9. ASSUME NEW r \in Ranks, Gather(r)
        PROVE  <1>7!:
    BY <2>9 DEF Gather
  <2>10. ASSUME NEW s \in DataSizes, NEW t \in {1, 4}, AllReduce(s, t)
         PROVE  <1>7!:
    BY <2>10 DEF AllReduce
  <2>11. CASE UNCHANGED vars
    BY <2>11 DEF vars
  <2> QED
    BY <2>1, <2>2, <2>3, <2>4, <2>5, <2>6, <2>7, <2>8, <2>9, <2>10, <2>11 DEF Next, Rank
<1> QED
  BY <1>0, <1>1, <1>2, <1>6, <1>7

LEMMA LayoutStep ==
  ASSUME IInv, [Next]_vars
  PROVE  /\ LayoutInv'
         /\ \A r \in DOMAIN layout : r \in DOMAIN layout' /\ layout'[r] = layout[r]
<1>0. /\ pc \in [Ranks -> Labels] /\ DOMAIN layout \subseteq Ranks
      /\ \A r \in DOMAIN layout : layout[r] = tcclNicRankList(dev, r, phyRankList(dev, r))
      /\ \A r \in Ranks : pc[r] \notin {"connectAll", "acceptAll", "barrierAll"} => r \in DOMAIN layout
  BY DEF IInv, TypeInv, LayoutInv
<1>1. dev' = dev /\ Ranks' = Ranks
  BY TypeStep DEF Ranks
<1>2. ASSUME NEW r \in Ranks, RankList(r)
      PROVE  LayoutInv' /\ \A q \in DOMAIN layout : q \in DOMAIN layout' /\ layout'[q] = layout[q]
  <2> DEFINE l == tcclNicRankList(dev, r, phyRankList(dev, r))
  <2>1. layout' = Set(layout, r, l)
    BY <1>2 DEF RankList
  <2>2. \A q \in Ranks \ {r} : pc'[q] = pc[q]
    BY <1>0, <1>2 DEF RankList, Goto
  <2> HIDE DEF l
  <2>3. /\ DOMAIN layout' = DOMAIN layout \cup {r}
        /\ \A q \in DOMAIN layout : layout'[q] = layout[q]
        /\ layout'[r] = l
    <3>1. r \in DOMAIN layout => layout[r] = l
      BY <1>0 DEF l
    <3> QED
      BY <2>1, <3>1 DEF Set
  <2>5. \A q \in DOMAIN layout' : layout'[q] = tcclNicRankList(dev', q, phyRankList(dev', q))
    BY <1>0, <1>1, <2>3 DEF l
  <2>6. \A q \in Ranks' : pc'[q] \notin {"connectAll", "acceptAll", "barrierAll"} => q \in DOMAIN layout'
    BY <1>0, <1>1, <2>2, <2>3
  <2> QED
    BY <1>0, <1>1, <2>3, <2>5, <2>6 DEF LayoutInv
<1>3. ASSUME layout' = layout, \A r \in Ranks : pc[r] \in {"connectAll", "acceptAll", "barrierAll"}
                                 => pc'[r] \in {"connectAll", "acceptAll", "barrierAll"}
      PROVE  LayoutInv' /\ \A q \in DOMAIN layout : q \in DOMAIN layout' /\ layout'[q] = layout[q]
  BY <1>0, <1>1, <1>3 DEF LayoutInv
<1>4. ASSUME NEW r \in Ranks, Rank(r), ~ RankList(r)
      PROVE  /\ layout' = layout
             /\ \A q \in Ranks : pc[q] \in {"connectAll", "acceptAll", "barrierAll"}
                                 => pc'[q] \in {"connectAll", "acceptAll", "barrierAll"}
  <2>1. layout' = layout
    BY <1>4 DEF Rank, ConnectAll, AcceptAll, ConnectNode, AcceptNode,
         BarrierNode, ConnectSharp, AcceptSharp, Gather
  <2>2. \A q \in Ranks \ {r} : pc'[q] = pc[q]
    BY <1>0, <1>4 DEF Goto, Rank, ConnectAll, AcceptAll, ConnectNode, AcceptNode,
         BarrierNode, ConnectSharp, AcceptSharp, Gather
  <2>3. pc[r] \in {"connectAll", "acceptAll", "barrierAll"}
          => pc'[r] \in {"connectAll", "acceptAll", "barrierAll"}
    BY <1>0, <1>4 DEF Goto, Rank, ConnectAll, AcceptAll, ConnectNode, AcceptNode,
         BarrierNode, ConnectSharp, AcceptSharp, Gather
  <2> QED
    BY <2>1, <2>2, <2>3
<1>5. ASSUME NEW s \in DataSizes, NEW t \in {1, 4}, AllReduce(s, t)
      PROVE  layout' = layout /\ pc' = pc
  BY <1>5 DEF AllReduce
<1>6. CASE UNCHANGED vars
  BY <1>3, <1>6 DEF vars
<1> QED
  BY <1>2, <1>3, <1>4, <1>5, <1>6 DEF Next

\* Steps of ranks that have a link of the ring of all ranks, when all have one.
LEMMA AllRingKept ==
  ASSUME IInv, [Next]_vars, \A q \in Ranks : pc[q] \notin Unlinked,
         \A q \in Ranks : pc'[q] \notin Unlinked, \A q \in Ranks : prev'[q].all = prev[q].all
  PROVE  AllRingInv'
<1>0. Placed(dev) /\ \A q \in Ranks : Pred(q) \in Ranks
  BY PredNext DEF IInv, TypeInv
<1>1. dev' = dev /\ Ranks' = Ranks /\ nranks' = nranks
  BY TypeStep DEF Ranks, nranks
<1>2. \A q \in Ranks : prev[q].all = Link(Pred(q), "all")
  BY DEF IInv, AllRingInv
<1>3. \A q \in Ranks : Pred(q)' = Pred(q)
  BY <1>1 DEF Pred
<1>4. \A q \in Ranks : prev'[q].all = Link(Pred(q), "all")
  BY <1>2
<1>5. \A q \in Ranks : pc'[Pred(q)] # "connectAll"
  BY <1>0 DEF Unlinked
<1>6. Unlinked' = Unlinked /\ \A q : Link(Pred(q), "all")' = Link(Pred(q)', "all")
  BY DEF Unlinked, Link
<1> QED
  BY <1>1, <1>3, <1>4, <1>5, <1>6, Zenon DEF AllRingInv

LEMMA AllRingStep ==
  ASSUME IInv, [Next]_vars
  PROVE  AllRingInv'
<1>0. /\ Placed(dev) /\ pc \in [Ranks -> Labels] /\ listen \in [Ranks -> Seq(Links)]
      /\ prev \in [Ranks -> [all : Links, node : Links, sharp : Links]]
  BY DEF IInv, TypeInv
<1>1. dev' = dev /\ Ranks' = Ranks /\ nranks' = nranks /\ \A q \in Ranks : Pred(q)' = Pred(q)
  BY TypeStep DEF Ranks, nranks, Pred
<1>2. \A q \in Ranks : Pred(q) \in Ranks
  BY <1>0, PredNext
<1>3. \A q \in Ranks : prev[q].all = IF pc[q] \in Unlinked THEN NoLink ELSE Link(Pred(q), "all")
  BY DEF IInv, AllRingInv
<1>4. (\E p \in Ranks : pc[p] \in Unlinked) =>
        \A q \in Ranks :
          /\ pc[q] \in Unlinked \cup {"barrierAll"}
          /\ listen[q] = IF pc[q] \in Unlinked /\ pc[Pred(q)] # "connectAll"
                         THEN <<Link(Pred(q), "all")>> ELSE <<>>
  BY DEF IInv, AllRingInv
<1>8. \A q \in Ranks : pc[q] \notin Unlinked => pc[Pred(q)] # "connectAll"
  BY DEF IInv, AllRingInv
<1>5. AllConnected <=> \A q \in Ranks : pc[q] \notin Unlinked
  BY AllConnectedIff DEF IInv
<1>6. ASSUME \A q \in Ranks :
                /\ prev'[q].all = IF pc'[q] \in Unlinked THEN NoLink ELSE Link(Pred(q), "all")
                /\ pc'[q] \in Unlinked \cup {"barrierAll"}
                /\ pc'[q] \notin Unlinked => pc'[Pred(q)] # "connectAll"
                /\ listen'[q] = IF pc'[q] \in Unlinked /\ pc'[Pred(q)] # "connectAll"
                                THEN <<Link(Pred(q), "all")>> ELSE <<>>
      PROVE  AllRingInv'
  BY <1>1, <1>6 DEF AllRingInv, Link, NoLink
<1>7. ASSUME NEW r \in Ranks, ConnectAll(r)
      PROVE  AllRingInv'
  <2> DEFINE next == (r + 1) % nranks
  <2>1. pc[r] = "connectAll" /\ pc' = [pc EXCEPT ![r] = "acceptAll"] /\ prev' = prev
    BY <1>7 DEF ConnectAll, Goto
  <2>2. listen' = [listen EXCEPT ![next] = Append(listen[next], Link(r, "all"))]
    BY <1>7 DEF ConnectAll, Connect
  <2>3. next \in Ranks /\ \A q \in Ranks : Pred(q) = r <=> q = next
    BY <1>0, PredNext
  <2> HIDE DEF next
  <2>4. listen[next] = <<>>
    BY <1>4, <2>1, <2>3 DEF Unlinked
  <2>5. listen'[next] = <<Link(r, "all")>>
    BY <1>0, <2>2, <2>3, <2>4
  <2>6. \A q \in Ranks \ {next} : listen'[q] = listen[q]
    BY <1>0, <2>2
  <2>7. \A q \in Ranks : pc'[q] = IF q = r THEN "acceptAll" ELSE pc[q]
    BY <1>0, <2>1
  <2>8. pc[next] \in Unlinked
    BY <1>3, <1>4, <2>1, <2>3, <1>8
  <2>9. \A q \in Ranks : pc[q] \in Unlinked \cup {"barrierAll"}
    BY <1>4, <2>1 DEF Unlinked
  <2>10. ASSUME NEW q \in Ranks
         PROVE  listen'[q] = IF pc'[q] \in Unlinked /\ pc'[Pred(q)] # "connectAll"
                             THEN <<Link(Pred(q), "all")>> ELSE <<>>
    <3>1. CASE q = next
      BY <1>2, <2>3, <2>5, <2>7, <2>8, <3>1 DEF Unlinked
    <3>2. CASE q # next
      <4>1. listen[q] = IF pc[q] \in Unlinked /\ pc[Pred(q)] # "connectAll"
                        THEN <<Link(Pred(q), "all")>> ELSE <<>>
        BY <1>4, <2>1 DEF Unlinked
      <4>2. pc'[q] \in Unlinked <=> pc[q] \in Unlinked
        BY <2>1, <2>7 DEF Unlinked
      <4>3. pc'[Pred(q)] = pc[Pred(q)]
        BY <1>2, <2>3, <2>7, <3>2
      <4>4. listen'[q] = listen[q]
        BY <2>6, <3>2
      <4> QED
        BY <4>1, <4>2, <4>3, <4>4
    <3> QED
      BY <3>1, <3>2
  <2>11. \A q \in Ranks :
           /\ prev'[q].all = IF pc'[q] \in Unlinked THEN NoLink ELSE Link(Pred(q), "all")
           /\ pc'[q] \in Unlinked \cup {"barrierAll"}
           /\ pc'[q] \notin Unlinked => pc'[Pred(q)] # "connectAll"
    BY <1>2, <1>3, <1>8, <2>1, <2>7, <2>9 DEF Unlinked
  <2> QED
    BY <1>6, <2>10, <2>11
<1>9. ASSUME NEW r \in Ranks, AcceptAll(r)
      PROVE  AllRingInv'
  <2>1. pc[r] = "acceptAll" /\ pc' = [pc EXCEPT ![r] = "barrierAll"] /\ listen[r] # <<>>
    BY <1>9 DEF AcceptAll, Accept, Goto
  <2>2. listen' = [listen EXCEPT ![r] = Tail(listen[r])]
    BY <1>9 DEF AcceptAll, Accept
  <2>3. prev' = [prev EXCEPT ![r] = [prev[r] EXCEPT !.all = Head(listen[r])]]
    BY <1>9 DEF AcceptAll, Accept
  <2>4. \A q \in Ranks : /\ pc[q] \in Unlinked \cup {"barrierAll"}
                         /\ listen[q] = IF pc[q] \in Unlinked /\ pc[Pred(q)] # "connectAll"
                                        THEN <<Link(Pred(q), "all")>> ELSE <<>>
    BY <1>4, <2>1 DEF Unlinked
  <2>5. listen[r] = <<Link(Pred(r), "all")>> /\ pc[Pred(r)] # "connectAll"
    BY <2>1, <2>4
  <2>6. Head(listen[r]) = Link(Pred(r), "all") /\ Tail(listen[r]) = <<>>
    BY <2>5
  <2>7. \A q \in Ranks : pc'[q] = IF q = r THEN "barrierAll" ELSE pc[q]
    BY <1>0, <2>1
  <2>8. \A q \in Ranks : listen'[q] = IF q = r THEN <<>> ELSE listen[q]
    BY <1>0, <2>2, <2>6
  <2>9. \A q \in Ranks : prev'[q].all = IF q = r THEN Link(Pred(r), "all") ELSE prev[q].all
    <3>1. prev'[r] = [prev[r] EXCEPT !.all = Link(Pred(r), "all")]
      BY <1>0, <2>3, <2>6
    <3>2. \A q \in Ranks \ {r} : prev'[q] = prev[q]
      BY <1>0, <2>3
    <3>3. prev[r] \in [all : Links, node : Links, sharp : Links]
      BY <1>0
    <3>4. prev'[r].all = Link(Pred(r), "all")
      BY <3>1, <3>3
    <3> QED
      BY <3>2, <3>4
  <2>10. \A q \in Ranks : pc'[q] = "connectAll" <=> pc[q] = "connectAll"
    BY <2>1, <2>7
  <2>11. \A q \in Ranks : pc'[q] \in Unlinked \cup {"barrierAll"}
                          /\ (pc'[q] \in Unlinked <=> q # r /\ pc[q] \in Unlinked)
    BY <2>4, <2>7 DEF Unlinked
  <2>12. \A q \in Ranks : listen'[q] = IF pc'[q] \in Unlinked /\ pc'[Pred(q)] # "connectAll"
                                       THEN <<Link(Pred(q), "all")>> ELSE <<>>
    BY <1>2, <2>4, <2>8, <2>10, <2>11
  <2>13. \A q \in Ranks : /\ prev'[q].all = IF pc'[q] \in Unlinked THEN NoLink ELSE Link(Pred(q), "all")
                          /\ pc'[q] \notin Unlinked => pc'[Pred(q)] # "connectAll"
    BY <1>2, <1>3, <1>8, <2>5, <2>9, <2>10, <2>11
  <2> QED
    BY <1>6, <2>11, <2>12, <2>13
<1>10. ASSUME NEW r \in Ranks, Rank(r), ~ ConnectAll(r), ~ AcceptAll(r)
       PROVE  AllRingInv'
  <2>1. pc[r] \notin Unlinked
    BY <1>10 DEF Rank, RankList, ConnectNode, AcceptNode, BarrierNode,
         ConnectSharp, AcceptSharp, Gather, Unlinked
  <2>2. \A q \in Ranks : pc[q] \notin Unlinked
    <3>1. CASE RankList(r)
      BY <1>5, <3>1 DEF RankList
    <3>2. CASE ~ RankList(r)
      <4>1. pc[r] \notin Unlinked \cup {"barrierAll"}
        BY <1>10, <3>2 DEF Rank, RankList, ConnectNode, AcceptNode, BarrierNode,
             ConnectSharp, AcceptSharp, Gather, Unlinked
      <4> QED
        BY <1>4, <4>1
    <3> QED
      BY <3>1, <3>2
  <2>3. \E l \in Labels \ Unlinked : Goto(r, l)
    BY <1>10 DEF Rank, RankList, ConnectNode, AcceptNode, BarrierNode,
         ConnectSharp, AcceptSharp, Gather, Labels, Unlinked
  <2>4. \A q \in Ranks : pc'[q] \notin Unlinked
    BY <1>0, <2>2, <2>3 DEF Goto
  <2>5. \A q \in Ranks : prev'[q].all = prev[q].all
    <3>1. CASE RankList(r)
      <4>1. prev' = prev \/ prev' = [prev EXCEPT ![r] = [prev[r] EXCEPT !.node = prev[r].all]]
        BY <3>1 DEF RankList
      <4>2. [prev[r] EXCEPT !.node = prev[r].all].all = prev[r].all
        BY <1>0
      <4> QED
        BY <1>0, <4>1, <4>2
    <3>2. CASE AcceptNode(r)
      <4>1. prev' = [prev EXCEPT ![r] = [prev[r] EXCEPT !.node = Head(listen[r])]]
        BY <3>2 DEF AcceptNode, Accept
      <4>2. [prev[r] EXCEPT !.node = Head(listen[r])].all = prev[r].all
        BY <1>0
      <4> QED
        BY <1>0, <4>1, <4>2
    <3>3. CASE AcceptSharp(r)
      <4>1. prev' = [prev EXCEPT ![r] = [prev[r] EXCEPT !.sharp = Head(listen[r])]]
        BY <3>3 DEF AcceptSharp, Accept
      <4>2. [prev[r] EXCEPT !.sharp = Head(listen[r])].all = prev[r].all
        BY <1>0
      <4> QED
        BY <1>0, <4>1, <4>2
    <3>4. CASE ConnectNode(r) \/ BarrierNode(r) \/ ConnectSharp(r) \/ Gather(r)
      BY <3>4 DEF ConnectNode, BarrierNode, ConnectSharp, Gather
    <3> QED
      BY <1>10, <3>1, <3>2, <3>3, <3>4 DEF Rank
  <2> QED
    BY <2>2, <2>4, <2>5, AllRingKept
<1>11. ASSUME pc' = pc, prev' = prev, listen' = listen
       PROVE  AllRingInv'
  BY <1>1, <1>2, <1>3, <1>4, <1>8, <1>11 DEF AllRingInv, Link, NoLink
<1>12. CASE UNCHANGED vars
  BY <1>11, <1>12 DEF vars
<1>13. ASSUME NEW s \in DataSizes, NEW t \in {1, 4}, AllReduce(s, t)
       PROVE  AllRingInv'
  BY <1>11, <1>13 DEF AllReduce
<1> QED
  BY <1>7, <1>9, <1>10, <1>12, <1>13 DEF Next

LEMMA NodeRingStep ==
  ASSUME IInv, [Next]_vars
  PROVE  NodeRingInv'
<1> DEFINE All == \A q \in Ranks : pc[q] \notin Unlinked
<1> DEFINE Later(k, q) == /\ k.ring = "node" /\ k.from \in DOMAIN layout'
                          /\ layout'[k.from].nodenext = q
<1>0. /\ Placed(dev) /\ pc \in [Ranks -> Labels] /\ listen \in [Ranks -> Seq(Links)]
      /\ prev \in [Ranks -> [all : Links, node : Links, sharp : Links]]
  BY DEF IInv, TypeInv
<1>1. dev' = dev /\ sharpEnable' = sharpEnable /\ Ranks' = Ranks /\ Nodes(dev)' = Nodes(dev)
  BY TypeStep DEF Ranks
<1> SUFFICES ASSUME ~ sharpEnable
             PROVE  NodeRingInv'
  BY <1>1 DEF NodeRingInv
<1>2. /\ \A q \in Ranks : pc[q] \notin {"connectSharp", "acceptSharp"}
      /\ All => \A q \in Ranks : \A j \in DOMAIN listen[q] : NodeLink(listen[q][j], q)
      /\ Cardinality(Nodes(dev)) > 1 =>
           \A q \in Ranks : prev[q].node # NoLink => NodeLink(prev[q].node, q)
  BY DEF NodeRingInv, IInv
<1>3. \A k, q : NodeLink(k, q) => Later(k, q)
  BY LayoutStep DEF NodeLink
<1>4. AllConnected <=> All
  BY AllConnectedIff DEF IInv
<1>5. (\E p \in Ranks : pc[p] \in Unlinked) =>
        \A q \in Ranks :
          /\ pc[q] \in Unlinked \cup {"barrierAll"}
          /\ listen[q] = IF pc[q] \in Unlinked /\ pc[Pred(q)] # "connectAll"
                         THEN <<Link(Pred(q), "all")>> ELSE <<>>
  BY DEF IInv, AllRingInv
<1>6. ASSUME \A q \in Ranks : pc'[q] \notin {"connectSharp", "acceptSharp"},
             (\A q \in Ranks : pc'[q] \notin Unlinked) =>
               \A q \in Ranks : \A j \in DOMAIN listen'[q] : Later(listen'[q][j], q),
             Cardinality(Nodes(dev)) > 1 =>
               \A q \in Ranks : prev'[q].node # NoLink => Later(prev'[q].node, q)
      PROVE  NodeRingInv'
  BY <1>1, <1>6 DEF NodeRingInv, NodeLink, NoLink, Link
<1> HIDE DEF Later
<1>7. ASSUME listen' = listen, prev' = prev,
             \A q \in Ranks : pc'[q] \notin {"connectSharp", "acceptSharp"},
             All \/ \E q \in Ranks : pc'[q] \in Unlinked
      PROVE  NodeRingInv'
  <2>1. \A q \in Ranks : \A j \in DOMAIN listen[q] : All => Later(listen[q][j], q)
    BY <1>2, <1>3
  <2>2. Cardinality(Nodes(dev)) > 1 =>
          \A q \in Ranks : prev[q].node # NoLink => Later(prev[q].node, q)
    BY <1>2, <1>3
  <2> HIDE DEF All
  <2> QED
    BY <1>6, <1>7, <2>1, <2>2
<1>8. ASSUME NEW r \in Ranks, ConnectAll(r)
      PROVE  NodeRingInv'
  <2>1. pc' = [pc EXCEPT ![r] = "acceptAll"] /\ prev' = prev
    BY <1>8 DEF ConnectAll, Goto
  <2>2. pc'[r] \in Unlinked
    BY <1>0, <2>1 DEF Unlinked
  <2>3. \A q \in Ranks : pc'[q] \notin {"connectSharp", "acceptSharp"}
    BY <1>0, <1>2, <2>1
  <2>4. Cardinality(Nodes(dev)) > 1 =>
          \A q \in Ranks : prev[q].node # NoLink => Later(prev[q].node, q)
    BY <1>2, <1>3
  <2> QED
    BY <1>6, <2>1, <2>2, <2>3, <2>4
<1>9. ASSUME NEW r \in Ranks, AcceptAll(r)
      PROVE  NodeRingInv'
  <2>1. pc[r] = "acceptAll" /\ pc' = [pc EXCEPT ![r] = "barrierAll"] /\ listen[r] # <<>>
    BY <1>9 DEF AcceptAll, Accept, Goto
  <2>2. listen' = [listen EXCEPT ![r] = Tail(listen[r])]
    BY <1>9 DEF AcceptAll, Accept
  <2>3. prev' = [prev EXCEPT ![r] = [prev[r] EXCEPT !.all = Head(listen[r])]]
    BY <1>9 DEF AcceptAll, Accept
  <2>4. \A q \in Ranks : pc'[q] \notin {"connectSharp", "acceptSharp"}
    BY <1>0, <1>2, <2>1
  <2>5. \A q \in Ranks : prev'[q].node = prev[q].node
    <3>1. [prev[r] EXCEPT !.all = Head(listen[r])].node = prev[r].node
      BY <1>0
    <3> QED
      BY <1>0, <2>3, <3>1
  <2>6. Cardinality(Nodes(dev)) > 1 =>
          \A q \in Ranks : prev'[q].node # NoLink => Later(prev'[q].node, q)
    BY <1>2, <1>3, <2>5
  <2>7. ASSUME \A q \in Ranks : pc'[q] \notin Unlinked, NEW q \in Ranks
        PROVE  listen'[q] = <<>>
    <3>1. \A p \in Ranks : listen[p] = IF pc[p] \in Unlinked /\ pc[Pred(p)] # "connectAll"
                                       THEN <<Link(Pred(p), "all")>> ELSE <<>>
      BY <1>5, <2>1 DEF Unlinked
    <3>2. CASE q = r
      <4>1. listen[r] = <<Link(Pred(r), "all")>>
        BY <2>1, <3>1
      <4> QED
        BY <1>0, <2>2, <3>2, <4>1
    <3>3. CASE q # r
      <4>1. pc[q] \notin Unlinked
        BY <1>0, <2>1, <2>7, <3>3
      <4> QED
        BY <1>0, <2>2, <3>1, <3>3, <4>1
    <3> QED
      BY <3>2, <3>3
  <2>8. (\A q \in Ranks : pc'[q] \notin Unlinked) =>
          \A q \in Ranks : \A j \in DOMAIN listen'[q] : Later(listen'[q][j], q)
    <3> SUFFICES ASSUME \A q \in Ranks : pc'[q] \notin Unlinked, NEW q \in Ranks, NEW j \in DOMAIN listen'[q]
                 PROVE  FALSE
      OBVIOUS
    <3>1. listen'[q] = <<>>
      BY <2>7
    <3> QED
      BY <3>1
  <2> QED
    BY <1>6, <2>4, <2>6, <2>8
<1>10. ASSUME NEW r \in Ranks, RankList(r)
       PROVE  NodeRingInv'
  <2>1. All /\ listen' = listen
    BY <1>4, <1>10 DEF RankList
  <2>2. \A q \in Ranks : pc'[q] \notin {"connectSharp", "acceptSharp"}
    BY <1>0, <1>2, <1>10 DEF RankList, Goto
  <2>3. \A q \in Ranks : \A j \in DOMAIN listen'[q] : Later(listen'[q][j], q)
    BY <1>2, <1>3, <2>1
  <2>4. Cardinality(Nodes(dev)) > 1 => prev' = prev
    <3> DEFINE l == tcclNicRankList(dev, r, phyRankList(dev, r))
    <3>1. layout' = Set(layout, r, l)
      BY <1>10 DEF RankList
    <3>2. layout'[r] = l
      <4> HIDE DEF l
      <4> QED
        BY <3>1 DEF Set
    <3>3. layout'[r].node_num = Cardinality(Nodes(dev))
      BY <3>2 DEF tcclNicRankList
    <3> QED
      BY <1>10, <3>3 DEF RankList
  <2>5. Cardinality(Nodes(dev)) > 1 =>
          \A q \in Ranks : prev'[q].node # NoLink => Later(prev'[q].node, q)
    BY <1>2, <1>3, <2>4
  <2> QED
    BY <1>6, <2>2, <2>3, <2>5
<1>11. ASSUME NEW r \in Ranks, pc[r] \notin Unlinked \cup {"barrierAll"}
       PROVE  All /\ r \in DOMAIN layout
  <2>1. All
    BY <1>5, <1>11
  <2> QED
    BY <1>11, <2>1 DEF IInv, LayoutInv, Unlinked
<1>12. ASSUME NEW r \in Ranks, ConnectNode(r)
       PROVE  NodeRingInv'
  <2>1. pc[r] = "connectNode" /\ pc' = [pc EXCEPT ![r] = "acceptNode"] /\ prev' = prev
    BY <1>12 DEF ConnectNode, Goto
  <2> DEFINE next == layout[r].nodenext
  <2>2. next \in Ranks /\ listen' = [listen EXCEPT ![next] = Append(listen[next], Link(r, "node"))]
    BY <1>12 DEF ConnectNode, Connect
  <2>3. All /\ r \in DOMAIN layout
    BY <1>11, <2>1 DEF Unlinked
  <2>4. NodeLink(Link(r, "node"), next)
    BY <2>3 DEF NodeLink, Link
  <2> HIDE DEF next, All
  <2>5. \A q \in Ranks : pc'[q] \notin {"connectSharp", "acceptSharp"}
    BY <1>0, <1>2, <2>1
  <2>6. ASSUME NEW q \in Ranks, NEW j \in DOMAIN listen'[q]
        PROVE  Later(listen'[q][j], q)
    <3>1. listen[q] \in Seq(Links) /\ listen[next] \in Seq(Links)
      BY <1>0, <2>2
    <3>2. CASE q = next
      <4>1. listen'[q] = Append(listen[next], Link(r, "node"))
        BY <1>0, <2>2, <3>2
      <4>2. j \in 1 .. Len(listen[next]) + 1
        BY <2>6, <3>1, <4>1
      <4>3. listen'[q][j] = IF j = Len(listen[next]) + 1 THEN Link(r, "node") ELSE listen[next][j]
        BY <3>1, <4>1, <4>2
      <4>4. j # Len(listen[next]) + 1 => j \in DOMAIN listen[next]
        BY <3>1, <4>2
      <4>5. NodeLink(listen'[q][j], q)
        BY <1>2, <2>2, <2>3, <2>4, <3>2, <4>3, <4>4
      <4> QED
        BY <1>3, <4>5
    <3>3. CASE q # next
      <4>1. listen'[q] = listen[q]
        BY <1>0, <2>2, <3>3
      <4>2. NodeLink(listen[q][j], q)
        BY <1>2, <2>3, <2>6, <4>1
      <4> QED
        BY <1>3, <4>1, <4>2
    <3> QED
      BY <3>2, <3>3
  <2>7. Cardinality(Nodes(dev)) > 1 =>
          \A q \in Ranks : prev'[q].node # NoLink => Later(prev'[q].node, q)
    BY <1>2, <1>3, <2>1
  <2> QED
    BY <1>6, <2>5, <2>6, <2>7
<1>13. ASSUME NEW r \in Ranks, AcceptNode(r)
       PROVE  NodeRingInv'
  <2>1. pc[r] = "acceptNode" /\ pc' = [pc EXCEPT ![r] = "barrierNode"] /\ listen[r] # <<>>
    BY <1>13 DEF AcceptNode, Accept, Goto
  <2>2. listen' = [listen EXCEPT ![r] = Tail(listen[r])]
    BY <1>13 DEF AcceptNode, Accept
  <2>3. prev' = [prev EXCEPT ![r] = [prev[r] EXCEPT !.node = Head(listen[r])]]
    BY <1>13 DEF AcceptNode, Accept
  <2>4. All
    BY <1>11, <2>1 DEF Unlinked
  <2> HIDE DEF All
  <2>5. \A q \in Ranks : pc'[q] \notin {"connectSharp", "acceptSharp"}
    BY <1>0, <1>2, <2>1
  <2>6. listen[r] \in Seq(Links) /\ Len(listen[r]) \in Nat \ {0} /\ Head(listen[r]) = listen[r][1]
    BY <1>0, <2>1
  <2>7. NodeLink(Head(listen[r]), r)
    BY <1>2, <2>4, <2>6
  <2>8. ASSUME NEW q \in Ranks, NEW j \in DOMAIN listen'[q]
        PROVE  Later(listen'[q][j], q)
    <3>1. CASE q = r
      <4>1. listen'[q] = Tail(listen[r])
        BY <1>0, <2>2, <3>1
      <4>2. j \in 1 .. Len(listen[r]) - 1
        BY <2>6, <2>8, <4>1
      <4>3. listen'[q][j] = listen[r][j + 1] /\ j + 1 \in DOMAIN listen[r]
        BY <2>6, <4>1, <4>2
      <4>4. NodeLink(listen[r][j + 1], r)
        BY <1>2, <2>4, <4>3
      <4> QED
        BY <1>3, <3>1, <4>3, <4>4
    <3>2. CASE q # r
      <4>1. listen'[q] = listen[q]
        BY <1>0, <2>2, <3>2
      <4>2. NodeLink(listen[q][j], q)
        BY <1>2, <2>4, <2>8, <4>1
      <4> QED
        BY <1>3, <4>1, <4>2
    <3> QED
      BY <3>1, <3>2
  <2>9. \A q \in Ranks : prev'[q].node = IF q = r THEN Head(listen[r]) ELSE prev[q].node
    <3>1. [prev[r] EXCEPT !.node = Head(listen[r])].node = Head(listen[r])
      BY <1>0
    <3> QED
      BY <1>0, <2>3, <3>1
  <2>10. Cardinality(Nodes(dev)) > 1 =>
           \A q \in Ranks : prev'[q].node # NoLink => Later(prev'[q].node, q)
    BY <1>2, <1>3, <2>7, <2>9
  <2> QED
    BY <1>6, <2>5, <2>8, <2>10
<1>14. ASSUME NEW r \in Ranks, BarrierNode(r)
       PROVE  NodeRingInv'
  <2>1. pc[r] = "barrierNode" /\ pc' = [pc EXCEPT ![r] = "gather"] /\ UNCHANGED <<listen, prev>>
    BY <1>14 DEF BarrierNode, Goto
  <2>2. All
    BY <1>11, <2>1 DEF Unlinked
  <2>3. \A q \in Ranks : pc'[q] \notin {"connectSharp", "acceptSharp"}
    BY <1>0, <1>2, <2>1
  <2> HIDE DEF All
  <2> QED
    BY <1>7, <2>1, <2>2, <2>3
<1>15. ASSUME NEW r \in Ranks, ConnectSharp(r) \/ AcceptSharp(r)
       PROVE  NodeRingInv'
  BY <1>2, <1>15 DEF ConnectSharp, AcceptSharp
<1>16. ASSUME NEW r \in Ranks, Gather(r)
       PROVE  NodeRingInv'
  <2>1. pc[r] = "gather" /\ pc' = [pc EXCEPT ![r] = "done"] /\ UNCHANGED <<listen, prev>>
    BY <1>16 DEF Gather, Goto
  <2>2. All
    BY <1>11, <2>1 DEF Unlinked
  <2>3. \A q \in Ranks : pc'[q] \notin {"connectSharp", "acceptSharp"}
    BY <1>0, <1>2, <2>1
  <2> HIDE DEF All
  <2> QED
    BY <1>7, <2>1, <2>2, <2>3
<1>17. ASSUME UNCHANGED <<pc, listen, prev>>
       PROVE  NodeRingInv'
  <2>1. \A q \in Ranks : pc'[q] \notin {"connectSharp", "acceptSharp"}
    BY <1>2, <1>17
  <2>2. All \/ \E q \in Ranks : pc'[q] \in Unlinked
    BY <1>17
  <2> HIDE DEF All
  <2> QED
    BY <1>7, <1>17, <2>1, <2>2
<1>18. CASE UNCHANGED vars
  BY <1>17, <1>18 DEF vars
<1>19. ASSUME NEW s \in DataSizes, NEW t \in {1, 4}, AllReduce(s, t)
       PROVE  NodeRingInv'
  BY <1>17, <1>19 DEF AllReduce
<1> QED
  BY <1>8, <1>9, <1>10, <1>12, <1>13, <1>14, <1>15, <1>16, <1>18, <1>19 DEF Next, Rank

-----------------------------------------------------------------------------
(* The step lengths.                                                       *)

LEMMA Quotient ==
  ASSUME NEW a \in Nat, NEW b \in Nat \ {0}
  PROVE  a \div b \in Nat /\ (a \div b) * b <= a
<1>1. a \div b \in Int /\ a \div b >= 0
  OBVIOUS
<1>2. a = b * (a \div b) + (a % b) /\ a % b \in 0 .. b - 1
  OBVIOUS
<1>3. b * (a \div b) = (a \div b) * b
  BY <1>1
<1> QED
  BY <1>1, <1>2, <1>3

LEMMA AlignedDown ==
  ASSUME NEW n \in Nat
  PROVE  Aligned(n) \in Nat /\ Aligned(n) <= n
BY DEF Aligned, ALIGNED_BYTE

\* Shares of a size for P parts fit it, if there are no more than P of them.
LEMMA SharesFit ==
  ASSUME NEW size \in Nat, NEW C \in Nat \ {0}, NEW R \in Nat \ {0}, NEW a \in Nat,
         a <= (size \div (C * R)) * R
  PROVE  a * C <= size
<1> DEFINE P == C * R
           b == size \div P
<1>1. P \in Nat \ {0}
  OBVIOUS
<1>2. b \in Nat /\ b * P <= size
  BY <1>1, Quotient
<1>3. a <= b * R
  OBVIOUS
<1> HIDE DEF b
<1>4. b * R \in Nat
  BY <1>2
<1>5. b * P = (b * R) * C
  BY <1>2
<1> HIDE DEF P
<1> DEFINE d == b * R
<1>6. d \in Nat /\ a <= d
  BY <1>3, <1>4
<1> HIDE DEF d
<1>7. d * C = a * C + (d - a) * C /\ (d - a) * C \in Nat /\ a * C \in Nat
  <2>1. d - a \in Nat /\ d = a + (d - a)
    BY <1>6
  <2> QED
    BY <1>6, <2>1
<1>8. d * C <= size
  BY <1>2, <1>5 DEF d
<1>9. d * C \in Nat
  BY <1>6
<1> QED
  BY <1>7, <1>8, <1>9

\* A size becomes an integer, perhaps a negative one.
LEMMA ToIntType ==
  ASSUME NEW n \in Nat
  PROVE  ToInt(n) \in Int
<1>1. 4 * KB * MB = 4294967296
  BY DEF KB, MB
<1> QED
  BY <1>1 DEF ToInt, INT_MAX

\* Inside a node there are not too many cards for the largest rung.
LEMMA GetStepFits ==
  ASSUME NEW data_size \in Nat, NEW C \in 1 .. MAX_CARD_NUM, NEW R \in Nat \ {0}
  PROVE  tcclGetStepLen(data_size, C * R) * C <= MAX_SIZE \div 2
<1> DEFINE H == MAX_SIZE \div 2
           P == C * R
           slice_len == Aligned(H \div P)
           fitting == AtLeast(Rungs, ToInt(data_size) \div P)
<1>1. H = 33554432
  BY DEF MAX_SIZE, MB, KB
<1>2. C \in Nat \ {0} /\ C <= 8
  BY DEF MAX_CARD_NUM
<1>3. P \in Nat \ {0}
  BY <1>2
<1>4. slice_len * C <= H
  <2>1. H \div P \in Nat
    BY <1>1, <1>3, Quotient
  <2>2. slice_len \in Nat /\ slice_len <= H \div P
    BY <2>1, AlignedDown
  <2>3. H \div P <= (H \div P) * R
    <3> DEFINE x == H \div P
    <3> HIDE DEF x
    <3>1. \A y \in Nat : y <= y * R
      <4> SUFFICES ASSUME NEW y \in Nat
                   PROVE  y <= y * R
        OBVIOUS
      <4>1. y * R = y + y * (R - 1) /\ R - 1 \in Nat
        OBVIOUS
      <4>2. y * (R - 1) \in Nat
        BY <4>1
      <4> QED
        BY <4>1, <4>2
    <3> QED
      BY <2>1, <3>1 DEF x
  <2>4. (H \div P) * R \in Nat
    BY <2>1
  <2>5. H \in Nat
    BY <1>1
  <2>6. slice_len <= (H \div (C * R)) * R
    <3> HIDE DEF slice_len, H
    <3> QED
      BY <2>1, <2>2, <2>3, <2>4
  <2> HIDE DEF slice_len, H
  <2> QED
    BY <1>2, <2>2, <2>5, <2>6, SharesFit
<1>5. ASSUME fitting # {}
      PROVE  Min(fitting) * C <= H
  <2>1. fitting \subseteq Rungs /\ \A x \in Rungs : x \in Nat /\ x <= 2097152
    BY DEF AtLeast, Rungs, MB, KB
  <2> HIDE DEF fitting
  <2>2. fitting \subseteq Nat
    BY <2>1
  <2>3. Min(fitting) \in fitting
    BY <1>5, <2>2, LeastOf
  <2> DEFINE x == Min(fitting)
  <2>4. x \in Nat /\ x <= 2097152
    BY <2>1, <2>3
  <2> HIDE DEF x
  <2>5. x * C <= x * 8
    <3>1. 8 - C \in Nat
      BY <1>2
    <3>2. x * 8 = x * C + x * (8 - C) /\ x * (8 - C) \in Nat /\ x * C \in Nat
      BY <1>2, <2>4, <3>1
    <3> QED
      BY <3>2
  <2>6. x * C \in Int
    BY <1>2, <2>4
  <2>7. x * C <= H
    BY <1>1, <2>4, <2>5, <2>6
  <2> QED
    BY <2>7 DEF x
<1>6. tcclGetStepLen(data_size, P) \in {slice_len, Min(fitting)}
      /\ (fitting = {} => tcclGetStepLen(data_size, P) = slice_len)
  BY DEF tcclGetStepLen
<1> HIDE DEF slice_len, fitting, H, P
<1> QED
  BY <1>4, <1>5, <1>6 DEF H, P

\* In the ring of all cards a length is below the cap, and where the cap is a
\* rung the length is not rounded up past it.
LEMMA NicStepFits ==
  ASSUME NEW data_size \in Nat, NEW K \in {1, 2, 4, 8, 16, 32, 64}, NEW R \in Nat \ {0}
  PROVE  tcclNicStepLen(data_size, K * R, R) * K <= MAX_SIZE \div 2
<1> DEFINE H == MAX_SIZE \div 2
           P == K * R
           maxSlice == MaxSlice(P, R)
           dataSizePerRank == ToInt(data_size) \div P
           fitting == AtLeast(NicRungs, dataSizePerRank)
           cut == Aligned((H \div P) * R)
<1>1. H = 33554432
  BY DEF MAX_SIZE, MB, KB
<1>2. K \in Nat \ {0}
  OBVIOUS
<1>3. P \in Nat \ {0}
  BY <1>2
<1>4. dataSizePerRank \in Int
  <2>1. ToInt(data_size) \in Int
    BY ToIntType
  <2> QED
    BY <1>3, <2>1
<1>5. cut \in Nat /\ cut <= (H \div P) * R
  <2>1. H \div P \in Nat
    BY <1>1, <1>3, Quotient
  <2>2. (H \div P) * R \in Nat
    <3> DEFINE x == H \div P
    <3>1. x \in Nat
      BY <2>1
    <3> HIDE DEF x
    <3>2. x * R \in Nat
      BY <3>1
    <3> QED
      BY <3>2 DEF x
  <2> QED
    BY <2>2, AlignedDown
<1>6. maxSlice \in Nat /\ maxSlice <= 8388608 /\ maxSlice <= cut
  <2>1. {8 * MB, cut} \subseteq Nat /\ 8 * MB = 8388608
    BY <1>5 DEF MB, KB
  <2>2. maxSlice = Min({8 * MB, cut})
    BY DEF MaxSlice
  <2> HIDE DEF cut, maxSlice
  <2>3. Min({8 * MB, cut}) \in {8 * MB, cut} /\ \A x \in {8 * MB, cut} : Min({8 * MB, cut}) <= x
    BY <2>1, LeastOf
  <2> QED
    BY <2>1, <2>2, <2>3
<1>7. maxSlice * K <= H
  <2>1. H \in Nat
    BY <1>1
  <2>2. maxSlice <= (H \div (K * R)) * R
    <3>1. (H \div P) * R \in Int
      <4>1. H \div P \in Nat
        BY <1>1, <1>3, Quotient
      <4> DEFINE x == H \div P
      <4>2. x \in Nat
        BY <4>1
      <4> HIDE DEF x
      <4>3. x * R \in Int
        BY <4>2
      <4> QED
        BY <4>3 DEF x
    <3> DEFINE y == (H \div P) * R
    <3>2. y \in Int /\ cut <= y
      BY <1>5, <3>1
    <3> HIDE DEF y, cut, maxSlice
    <3>3. maxSlice <= y
      BY <1>5, <1>6, <3>2
    <3> QED
      BY <3>3 DEF y
  <2> HIDE DEF maxSlice, H
  <2> QED
    BY <1>2, <1>6, <2>1, <2>2, SharesFit
<1>8. ASSUME dataSizePerRank < maxSlice, fitting # {}
      PROVE  Min(fitting) * K <= H
  <2>1. /\ fitting \subseteq NicRungs /\ \A x \in NicRungs : x \in Nat /\ x <= 6291456
        /\ \A x \in NicRungs : dataSizePerRank <= x => x \in fitting
        /\ {524288, 1048576, 2097152, 4194304} \subseteq NicRungs
    BY DEF AtLeast, NicRungs, Rungs, MB, KB
  <2> HIDE DEF fitting, dataSizePerRank, maxSlice, H
  <2>2. fitting \subseteq Nat
    BY <2>1
  <2>3. Min(fitting) \in fitting /\ \A x \in fitting : Min(fitting) <= x
    BY <1>8, <2>2, LeastOf
  <2> DEFINE x == Min(fitting)
  <2>4. x \in Nat /\ x <= 6291456 /\ \A y \in NicRungs : dataSizePerRank <= y => x <= y
    BY <2>1, <2>3
  <2> HIDE DEF x
  <2>5. CASE K \in {1, 2, 4}
    <3>1. CASE K = 1
      BY <1>1, <2>4, <3>1, SMT DEF x
    <3>2. CASE K = 2
      BY <1>1, <2>4, <3>2, SMT DEF x
    <3>3. CASE K = 4
      BY <1>1, <2>4, <3>3, SMT DEF x
    <3> QED
      BY <2>5, <3>1, <3>2, <3>3, SMT
  <2>6. CASE K = 8
    <3>1. maxSlice <= 4194304
      BY <1>1, <1>6, <1>7, <2>6
    <3>2. x <= 4194304
      BY <1>4, <1>6, <1>8, <2>1, <2>4, <3>1
    <3> QED
      BY <1>1, <2>4, <2>6, <3>2 DEF x
  <2>7. CASE K = 16
    <3>1. maxSlice <= 2097152
      BY <1>1, <1>6, <1>7, <2>7
    <3>2. x <= 2097152
      BY <1>4, <1>6, <1>8, <2>1, <2>4, <3>1
    <3> QED
      BY <1>1, <2>4, <2>7, <3>2 DEF x
  <2>8. CASE K = 32
    <3>1. maxSlice <= 1048576
      BY <1>1, <1>6, <1>7, <2>8
    <3>2. x <= 1048576
      BY <1>4, <1>6, <1>8, <2>1, <2>4, <3>1
    <3> QED
      BY <1>1, <2>4, <2>8, <3>2 DEF x
  <2>9. CASE K = 64
    <3>1. maxSlice <= 524288
      BY <1>1, <1>6, <1>7, <2>9
    <3>2. x <= 524288
      BY <1>4, <1>6, <1>8, <2>1, <2>4, <3>1
    <3> QED
      BY <1>1, <2>4, <2>9, <3>2 DEF x
  <2> QED
    BY <2>5, <2>6, <2>7, <2>8, <2>9 DEF x
<1>9. tcclNicStepLen(data_size, P, R)
        = IF dataSizePerRank >= maxSlice \/ fitting = {} THEN maxSlice ELSE Min(fitting)
  BY DEF tcclNicStepLen
<1>10. dataSizePerRank >= maxSlice \/ dataSizePerRank < maxSlice
  <2> HIDE DEF dataSizePerRank, maxSlice
  <2> QED
    BY <1>4, <1>6
<1> HIDE DEF maxSlice, dataSizePerRank, fitting, H, P
<1> QED
  BY <1>7, <1>8, <1>9, <1>10 DEF H, P

LEMMA ChunkStep ==
  ASSUME IInv, [Next]_vars
  PROVE  ChunkFitsHalf'
<1>1. ASSUME NEW data_size \in DataSizes, NEW t \in {1, 4}, AllReduce(data_size, t)
      PROVE  ChunkFitsHalf'
  <2> DEFINE l == layout[0]
             C == Cardinality(CardsOfNode(dev, 0))
             R == Cardinality(OnCard(dev, 0))
             K == RingLen(dev, 0)
  <2>1. Placed(dev) /\ nranks \in Nat \ {0} /\ Ranks = 0 .. nranks - 1
    BY RankNumbers DEF IInv, TypeInv
  <2>2. 0 \in Ranks /\ 0 \in DOMAIN dev
    BY <2>1 DEF Ranks
  <2>3. 0 \in DOMAIN layout
    BY <1>1, <2>2 DEF AllReduce, IInv, LayoutInv
  <2>4. l = tcclNicRankList(dev, 0, phyRankList(dev, 0))
    BY <2>3 DEF IInv, LayoutInv
  <2>5. l.card_num = C /\ l.rank_num = R /\ l.allCardNum = K
    BY <2>4 DEF tcclNicRankList, RingLen
  <2>6. C \in 1 .. MAX_CARD_NUM /\ R \in Nat \ {0}
    <3>1. C \in Nat \ {0} /\ R \in Nat \ {0}
      BY <2>1, <2>2, NodeSize, SMT
    <3>2. C <= MAX_CARD_NUM
      BY <2>1, <2>2, SMT DEF Placed
    <3> HIDE DEF C, R
    <3> QED
      BY <3>1, <3>2, SMT DEF MAX_CARD_NUM
  <2>7. nranks = K * R
    BY <2>1, <2>2, AllSize DEF nranks, Ranks
  <2>8. data_size \in Nat
    BY OptionsAssumption
  <2>9. \/ step' = [len |-> tcclGetStepLen(data_size, C * R), cards |-> C]
        \/ step' = [len |-> tcclNicStepLen(data_size, nranks, R), cards |-> K]
    BY <1>1, <2>5 DEF AllReduce
  <2> HIDE DEF l, C, R, K
  <2>10. CASE step' = [len |-> tcclGetStepLen(data_size, C * R), cards |-> C]
    <3>1. tcclGetStepLen(data_size, C * R) * C <= MAX_SIZE \div 2
      BY <2>6, <2>8, GetStepFits
    <3> QED
      BY <2>10, <3>1 DEF ChunkFitsHalf
  <2>11. CASE step' = [len |-> tcclNicStepLen(data_size, nranks, R), cards |-> K]
    <3>1. K \in {1, 2, 4, 8, 16, 32, 64} => tcclNicStepLen(data_size, K * R, R) * K <= MAX_SIZE \div 2
      BY <2>6, <2>8, NicStepFits
    <3> QED
      BY <2>7, <2>11, <3>1 DEF ChunkFitsHalf
  <2> QED
    BY <2>9, <2>10, <2>11
<1>2. ASSUME step' = step
      PROVE  ChunkFitsHalf'
  BY <1>2 DEF IInv, ChunkFitsHalf
<1>3. ASSUME NEW r \in Ranks, Rank(r)
      PROVE  step' = step
  BY <1>3 DEF Rank, ConnectAll, AcceptAll, RankList, ConnectNode, AcceptNode,
         BarrierNode, ConnectSharp, AcceptSharp, Gather
<1> QED
  BY <1>1, <1>2, <1>3 DEF Next, vars

-----------------------------------------------------------------------------
(* The start: the tables of communicators of one process.                  *)

LEMMA OneHostPlaced ==
  ASSUME NEW list \in Seq(Int) \ {<<>>}, Range(list) \subseteq 0 .. dev_cnt - 1,
         \A i, j \in DOMAIN list :
           Cardinality(Used(list, list[i] \div DEV_NUM))
             = Cardinality(Used(list, list[j] \div DEV_NUM))
  PROVE  Placed(OneHost(list))
<1> DEFINE n == Len(list)
           D == 0 .. n - 1
           table == OneHost(list)
           card(r) == list[r + 1] \div DEV_NUM
<1>1. n \in Nat \ {0} /\ list \in [1 .. n -> Int]
  OBVIOUS
<1>2. DOMAIN table = D /\ IsFiniteSet(D) /\ Cardinality(D) = n /\ D # {}
  <2>1. DOMAIN table = D
    BY DEF OneHost
  <2>2. IsFiniteSet(D) /\ Cardinality(D) = n
    <3> HIDE DEF n
    <3> QED
      BY <1>1, FS_Interval
  <2>3. D # {}
    <3>1. 0 \in D
      <4> HIDE DEF n
      <4> QED
        BY <1>1
    <3> QED
      BY <3>1
  <2> QED
    BY <2>1, <2>2, <2>3
<1>3. \A r \in D : /\ table[r].ip = 0 /\ table[r].devid = list[r + 1]
                   /\ table[r].phyCardId = MAX_CARD_NUM - 1 - card(r)
  BY DEF OneHost, PciId
<1>4. \A i \in 1 .. n : list[i] \in Nat /\ list[i] \div DEV_NUM \in 0 .. MAX_CARD_NUM - 1
  <2> SUFFICES ASSUME NEW i \in 1 .. n
               PROVE  list[i] \in Nat /\ list[i] \div DEV_NUM \in 0 .. MAX_CARD_NUM - 1
    OBVIOUS
  <2> DEFINE v == list[i]
  <2>1. v \in 0 .. dev_cnt - 1
    BY <1>1 DEF Range
  <2>2. DEV_NUM \in Nat \ {0} /\ dev_cnt \in Nat /\ dev_cnt <= MAX_CARD_NUM * DEV_NUM
    BY DevicesAssumption
  <2> HIDE DEF v
  <2>3. MAX_CARD_NUM \in Nat /\ v \in 0 .. MAX_CARD_NUM * DEV_NUM - 1 /\ v \in Nat
    BY <2>1, <2>2 DEF MAX_CARD_NUM
  <2>4. v \div DEV_NUM \in 0 .. MAX_CARD_NUM - 1
    BY <2>2, <2>3, PairOf
  <2> QED
    BY <2>3, <2>4 DEF v
<1>5. \A r \in D : card(r) \in 0 .. MAX_CARD_NUM - 1 /\ list[r + 1] \in Nat /\ r + 1 \in 1 .. n
  <2> SUFFICES ASSUME NEW r \in D
               PROVE  card(r) \in 0 .. MAX_CARD_NUM - 1 /\ list[r + 1] \in Nat /\ r + 1 \in 1 .. n
    OBVIOUS
  <2>1. r + 1 \in 1 .. n
    BY <1>1
  <2> QED
    BY <1>4, <2>1
<1>6. \A r \in D : OnNode(table, r) = D
  BY <1>2, <1>3 DEF OnNode
<1>7. \A r, q \in D : tcclIsOneCard(table[r], table[q]) <=> card(r) = card(q)
  BY <1>3 DEF tcclIsOneCard
<1>8. \A r \in D : OnCard(table, r) = {q \in D : card(q) = card(r)}
  BY <1>2, <1>7 DEF OnCard
<1>9. \A r, q \in D : table[r].phyCardId = table[q].phyCardId <=> card(r) = card(q)
  <2> SUFFICES ASSUME NEW r \in D, NEW q \in D
               PROVE  table[r].phyCardId = table[q].phyCardId <=> card(r) = card(q)
    OBVIOUS
  <2>1. card(r) \in Int /\ card(q) \in Int
    <3> HIDE DEF card, D
    <3> QED
      BY <1>5 DEF MAX_CARD_NUM
  <2>2. /\ table[r].phyCardId = MAX_CARD_NUM - 1 - card(r)
        /\ table[q].phyCardId = MAX_CARD_NUM - 1 - card(q)
    BY <1>3
  <2>3. MAX_CARD_NUM \in Int
    BY DEF MAX_CARD_NUM
  <2> HIDE DEF card, table
  <2> QED
    BY <2>1, <2>2, <2>3
<1>10. ASSUME NEW r \in D
       PROVE  Cardinality(OnCard(table, r)) = Cardinality(Used(list, card(r)))
  <2> DEFINE S == Used(list, card(r))
             T == OnCard(table, r)
             f == [i \in S |-> i - 1]
  <2>1. S = {i \in 1 .. n : list[i] \div DEV_NUM = card(r)}
    BY <1>1 DEF Used
  <2>2. T = {q \in D : card(q) = card(r)}
    BY <1>8
  <2>3. IsFiniteSet(S)
    <3>1. IsFiniteSet(1 .. n) /\ S \in SUBSET (1 .. n)
      BY <1>1, <2>1, FS_Interval
    <3> QED
      BY <3>1, FS_Subset
  <2>4. \A i \in S : i - 1 \in T
    <3> SUFFICES ASSUME NEW i \in S
                 PROVE  i - 1 \in T
      OBVIOUS
    <3>1. i \in 1 .. n /\ list[i] \div DEV_NUM = card(r)
      BY <2>1
    <3>2. i - 1 \in D /\ (i - 1) + 1 = i
      BY <1>1, <3>1
    <3>3. card(i - 1) = card(r)
      BY <3>1, <3>2
    <3> QED
      BY <2>2, <3>2, <3>3
  <2>5. \A q \in T : q + 1 \in S /\ (q + 1) - 1 = q
    <3> SUFFICES ASSUME NEW q \in T
                 PROVE  q + 1 \in S /\ (q + 1) - 1 = q
      OBVIOUS
    <3>1. q \in D /\ card(q) = card(r)
      BY <2>2
    <3>2. q + 1 \in 1 .. n
      BY <1>5, <3>1
    <3>3. (q + 1) - 1 = q
      BY <1>1, <3>1
    <3> QED
      BY <2>1, <3>1, <3>2, <3>3
  <2>6. \A i \in S : i \in Int
    BY <1>1, <2>1
  <2> HIDE DEF S, T
  <2>7. f \in [S -> T] /\ \A x, y \in S : f[x] = f[y] => x = y
    <3> HIDE DEF card, table
    <3>1. f \in [S -> T]
      BY <2>4
    <3>2. \A x, y \in S : x - 1 = y - 1 => x = y
      BY <2>6
    <3> QED
      BY <3>1, <3>2
  <2>8. \A t \in T : \E x \in S : f[x] = t
    BY <2>5
  <2> HIDE DEF f
  <2>9. Cardinality(T) = Cardinality(S)
    BY <2>3, <2>7, <2>8, SameSize
  <2> QED
    BY <2>9 DEF S, T
<1>11. \A r, q \in D : Cardinality(OnCard(table, r)) = Cardinality(OnCard(table, q))
  <2> SUFFICES ASSUME NEW r \in D, NEW q \in D
               PROVE  Cardinality(OnCard(table, r)) = Cardinality(OnCard(table, q))
    OBVIOUS
  <2>1. r + 1 \in DOMAIN list /\ q + 1 \in DOMAIN list
    BY <1>1, <1>5
  <2>2. Cardinality(Used(list, card(r))) = Cardinality(Used(list, card(q)))
    BY <2>1
  <2> QED
    BY <1>10, <2>2
<1>12. ASSUME NEW r \in D
       PROVE  Cardinality(CardsOfNode(table, r)) <= MAX_CARD_NUM
  <2> DEFINE T == CardsOfNode(table, r)
             S == {card(q) : q \in D}
             f == [x \in S |-> {q \in D : card(q) = x}]
  <2>1. T = {OnCard(table, q) : q \in D}
    BY <1>6 DEF CardsOfNode
  <2>2. S \subseteq 0 .. MAX_CARD_NUM - 1
    BY <1>5
  <2>3. IsFiniteSet(0 .. MAX_CARD_NUM - 1) /\ Cardinality(0 .. MAX_CARD_NUM - 1) = MAX_CARD_NUM
    <3>1. MAX_CARD_NUM \in Nat
      BY DEF MAX_CARD_NUM
    <3>2. \A m \in Nat : IsFiniteSet(0 .. m - 1) /\ Cardinality(0 .. m - 1) = m
      BY FS_Interval
    <3> QED
      BY <3>1, <3>2
  <2>4. IsFiniteSet(S) /\ Cardinality(S) <= MAX_CARD_NUM
    <3> DEFINE U == 0 .. MAX_CARD_NUM - 1
    <3>1. S \in SUBSET U /\ IsFiniteSet(U) /\ Cardinality(U) = MAX_CARD_NUM
      BY <2>2, <2>3
    <3> HIDE DEF S, U
    <3>2. IsFiniteSet(S) /\ Cardinality(S) <= Cardinality(U)
      BY <3>1, FS_Subset
    <3> QED
      BY <3>1, <3>2
  <2>5. \A q \in D : f[card(q)] = OnCard(table, q)
    BY <1>8
  <2>6. f \in [S -> T] /\ \A t \in T : \E x \in S : f[x] = t
    <3>1. \A x \in S : \E q \in D : x = card(q)
      OBVIOUS
    <3>2. \A q \in D : card(q) \in S
      OBVIOUS
    <3>3. f = [x \in S |-> f[x]]
      OBVIOUS
    <3> HIDE DEF S, f, T
    <3> QED
      BY <2>1, <2>5, <3>1, <3>2, <3>3
  <2>7. f \in Surjection(S, T)
    <3> HIDE DEF S, f, T
    <3> QED
      BY <2>6, Fun_IsSurj
  <2>8. Cardinality(T) <= Cardinality(S) /\ IsFiniteSet(T)
    <3> HIDE DEF S, f, T
    <3> QED
      BY <2>4, <2>7, FS_Surjection
  <2>9. Cardinality(T) \in Nat /\ Cardinality(S) \in Nat
    <3> HIDE DEF S, T
    <3> QED
      BY <2>4, <2>8, FS_CardinalityType
  <2>10. MAX_CARD_NUM \in Nat
    BY DEF MAX_CARD_NUM
  <2> HIDE DEF S, T
  <2>11. Cardinality(T) <= MAX_CARD_NUM
    BY <2>4, <2>8, <2>9, <2>10
  <2> QED
    BY <2>11 DEF T
<1>13. \A r, q \in D : CardsOfNode(table, r) = CardsOfNode(table, q)
  BY <1>6 DEF CardsOfNode
<1>14. \A r \in D : table[r].devid \in Nat /\ table[r].phyCardId \in nic_topo
  <2> SUFFICES ASSUME NEW r \in D
               PROVE  table[r].devid \in Nat /\ table[r].phyCardId \in nic_topo
    OBVIOUS
  <2>1. card(r) \in 0 .. MAX_CARD_NUM - 1
    <3> HIDE DEF card, D
    <3> QED
      BY <1>5
  <2> HIDE DEF card
  <2>2. MAX_CARD_NUM - 1 - card(r) \in nic_topo
    BY <2>1 DEF MAX_CARD_NUM, nic_topo
  <2> QED
    BY <1>3, <1>5, <2>2
<1> HIDE DEF table, D, n, card
<1>15. Uniform(table)
  BY <1>2, <1>11, <1>13 DEF Uniform
<1>16. /\ IsFiniteSet(DOMAIN table) /\ DOMAIN table # {}
       /\ DOMAIN table = 0 .. Cardinality(DOMAIN table) - 1
  BY <1>2 DEF D
<1>17. \A r \in DOMAIN table : /\ table[r].devid \in Nat /\ table[r].phyCardId \in nic_topo
                               /\ Cardinality(CardsOfNode(table, r)) <= MAX_CARD_NUM
  BY <1>2, <1>12, <1>14
<1>18. \A r, q \in DOMAIN table :
         tcclIsOneCard(table[r], table[q]) <=> table[r].phyCardId = table[q].phyCardId
  BY <1>2, <1>7, <1>9
<1>19. Placed(table)
  BY <1>15, <1>16, <1>17, <1>18 DEF Placed
<1> QED
  BY <1>19 DEF table

\* The list made up for a number of ranks fills whole cards.
LEMMA DefaultFits ==
  ASSUME NEW ndev \in Nat \ {0}, ndev % DEV_NUM = 0, HasDefault(ndev)
  PROVE  LET list == DefaultList(ndev) IN
         /\ list \in Seq(Int) \ {<<>>} /\ Range(list) \subseteq 0 .. dev_cnt - 1
         /\ \A i \in DOMAIN list :
              Cardinality(Used(list, list[i] \div DEV_NUM)) = DEV_NUM
<1> DEFINE list == DefaultList(ndev)
           d == DEV_NUM
           m == ndev \div d
<1>1. d \in Nat \ {0} /\ dev_cnt \in Nat \ {0}
  BY DevicesAssumption
<1>2. DOMAIN list = 1 .. ndev /\ \A i \in 1 .. ndev : list[i] = i - 1
  BY DEF DefaultList
<1>3. list \in Seq(Int) \ {<<>>}
  <2> HIDE DEF list
  <2>1. list \in [1 .. ndev -> Int]
    <3>1. list = [i \in 1 .. ndev |-> i - 1]
      BY DEF list, DefaultList
    <3> QED
      BY <3>1
  <2>2. list \in Seq(Int)
    BY <2>1, SeqDef
  <2>3. list # <<>>
    BY <1>2
  <2> QED
    BY <2>2, <2>3
<1>4. ndev <= dev_cnt
  <2>1. PICK rank_num \in 1 .. d : ndev % rank_num = 0 /\ ndev \div rank_num <= dev_cnt \div d
    BY DEF HasDefault
  <2> DEFINE q == ndev \div rank_num
             c == dev_cnt \div d
  <2>2. rank_num \in Nat \ {0} /\ rank_num <= d
    BY <1>1
  <2>3. ndev = rank_num * q /\ q \in Nat
    <3>1. ndev = rank_num * (ndev \div rank_num) + (ndev % rank_num)
      BY <2>2
    <3>2. ndev \div rank_num \in Nat
      BY <2>2, Quotient
    <3> QED
      BY <2>1, <3>1, <3>2
  <2>4. c \in Nat /\ c * d <= dev_cnt
    BY <1>1, Quotient
  <2>5. q <= c
    BY <2>1
  <2> HIDE DEF q, c, d
  <2>6. rank_num * q <= d * q
    <3>1. d - rank_num \in Nat
      BY <1>1, <2>2
    <3>2. d * q = rank_num * q + (d - rank_num) * q
      BY <1>1, <2>2, <2>3
    <3>3. (d - rank_num) * q \in Nat /\ rank_num * q \in Nat
      BY <2>2, <2>3, <3>1
    <3> QED
      BY <3>2, <3>3
  <2>7. d * q <= c * d
    <3>1. c - q \in Nat
      BY <2>3, <2>4, <2>5
    <3>2. c * d = d * q + (c - q) * d
      BY <1>1, <2>3, <2>4
    <3>3. (c - q) * d \in Nat /\ d * q \in Nat
      BY <1>1, <2>3, <3>1
    <3> QED
      BY <3>2, <3>3
  <2>8. d * q \in Nat /\ c * d \in Nat /\ rank_num * q \in Nat
    BY <1>1, <2>2, <2>3, <2>4
  <2> QED
    BY <1>1, <2>3, <2>4, <2>6, <2>7, <2>8
<1>5. Range(list) \subseteq 0 .. dev_cnt - 1
  <2>1. \A i \in 1 .. ndev : i - 1 \in 0 .. dev_cnt - 1
    BY <1>1, <1>4
  <2> HIDE DEF list
  <2> QED
    BY <1>2, <2>1 DEF Range
<1>6. m \in Nat /\ ndev = m * d
  <2>1. ndev = d * (ndev \div d) + (ndev % d) /\ ndev \div d \in Nat
    BY <1>1, Quotient
  <2> QED
    BY <1>1, <2>1
<1>7. ASSUME NEW i \in 1 .. ndev
      PROVE  Cardinality(Used(list, list[i] \div d)) = d
  <2> DEFINE c == (i - 1) \div d
             low == c * d
  <2>1. c \in 0 .. m - 1
    <3>1. i - 1 \in 0 .. m * d - 1
      BY <1>6
    <3> HIDE DEF m
    <3> QED
      BY <1>1, <1>6, <3>1, PairOf
  <2>2. Used(list, c) = {j \in 1 .. ndev : (j - 1) \div d = c}
    BY <1>2 DEF Used
  <2> HIDE DEF c, m
  <2>3. low \in Nat /\ low + d <= ndev
    <3>1. c \in Nat /\ m - 1 - c \in Nat
      BY <1>6, <2>1
    <3>2. m * d = c * d + d + (m - 1 - c) * d
      BY <1>1, <1>6, <3>1
    <3>3. (m - 1 - c) * d \in Nat /\ c * d \in Nat
      BY <1>1, <3>1
    <3> DEFINE x == (m - 1 - c) * d
    <3>4. x \in Nat /\ low \in Nat /\ ndev = low + d + x
      BY <1>6, <3>2, <3>3
    <3> HIDE DEF x, low, d
    <3> QED
      BY <1>1, <3>4
  <2> HIDE DEF d
  <2>4. ASSUME NEW j \in 1 .. ndev
        PROVE  (j - 1) \div d = c <=> j \in low + 1 .. low + d
    <3> DEFINE v == j - 1
               a == v \div d
               b == v % d
    <3>1. v \in Nat
      OBVIOUS
    <3>2. a \in Nat /\ b \in 0 .. d - 1 /\ v = a * d + b
      <4>1. v \in 0 .. (v + 1) * d - 1
        <5>1. (v + 1) * d = v + 1 + (v + 1) * (d - 1) /\ d - 1 \in Nat
          BY <1>1, <3>1
        <5>2. (v + 1) * (d - 1) \in Nat
          BY <3>1, <5>1
        <5> QED
          BY <3>1, <5>1, <5>2
      <4>2. v \div d \in 0 .. (v + 1) - 1 /\ v % d \in 0 .. d - 1 /\ v = (v \div d) * d + (v % d)
        <5>1. v + 1 \in Nat
          BY <3>1
        <5> HIDE DEF v
        <5> QED
          BY <1>1, <4>1, <5>1, PairOf
      <4> QED
        BY <3>1, <4>2
    <3>3. j = v + 1 /\ c \in Nat
      BY <1>6, <2>1
    <3> HIDE DEF v, a, b
    <3>4. a = c => v \in low .. low + d - 1
      BY <1>1, <2>3, <3>2, <3>3
    <3>5. a < c => v < low
      <4>1. a < c => a * d + b < c * d + 0
        <5>1. 0 \in 0 .. d - 1
          BY <1>1
        <5> QED
          BY <1>1, <3>2, <3>3, <5>1, PairNumber
      <4> QED
        BY <2>3, <3>2, <4>1
    <3>6. c < a => ~ (v < low + d)
      <4>1. c < a => c * d + d <= a * d
        <5> SUFFICES ASSUME c < a
                     PROVE  c * d + d <= a * d
          OBVIOUS
        <5>1. a - c - 1 \in Nat
          BY <3>2, <3>3
        <5>2. a * d = c * d + d + (a - c - 1) * d
          BY <1>1, <3>2, <3>3
        <5>3. (a - c - 1) * d \in Nat /\ c * d \in Nat
          BY <1>1, <3>3, <5>1
        <5> QED
          BY <1>1, <5>2, <5>3
      <4>2. a * d \in Nat /\ low + d = c * d + d
        BY <1>1, <3>2
      <4> QED
        BY <1>1, <2>3, <3>2, <4>1, <4>2
    <3>7. v \in Nat /\ a \in Nat
      BY <3>1, <3>2 DEF v
    <3>8. a = c <=> v \in low .. low + d - 1
      <4> HIDE DEF low
      <4> QED
        BY <1>1, <2>3, <3>3, <3>4, <3>5, <3>6, <3>7
    <3>9. a = c <=> j \in low + 1 .. low + d
      <4> HIDE DEF low
      <4> QED
        BY <1>1, <2>3, <3>3, <3>7, <3>8
    <3> QED
      BY <3>9 DEF a, v
  <2> HIDE DEF low, list
  <2>5. Used(list, c) = low + 1 .. low + d
    <3>1. \A j \in low + 1 .. low + d : j \in 1 .. ndev
      BY <1>1, <2>3
    <3> QED
      BY <2>2, <2>4, <3>1
  <2>6. Cardinality(low + 1 .. low + d) = d
    <3>1. low + 1 \in Int /\ low + d \in Int
      BY <1>1, <2>3
    <3>2. Cardinality(low + 1 .. low + d) = IF low + 1 > low + d THEN 0 ELSE (low + d) - (low + 1) + 1
      BY <3>1, FS_Interval
    <3> QED
      BY <1>1, <2>3, <3>2
  <2>7. list[i] \div d = c
    BY <1>2 DEF c
  <2> QED
    BY <2>5, <2>6, <2>7
<1> QED
  BY <1>2, <1>3, <1>5, <1>7

LEMMA InitInv ==
  ASSUME Init
  PROVE  IInv
<1>1. Placed(dev)
  <2>1. CASE CommInitRank
    BY <2>1, PlacementsAssumption DEF CommInitRank
  <2>2. CASE \E list \in Devlists : DevlistAccepted(list) /\ dev = OneHost(list)
    BY <2>2, DevlistsAssumption, OneHostPlaced DEF DevlistAccepted
  <2>3. CASE \E ndev \in Defaults : HasDefault(ndev) /\ dev = OneHost(DefaultList(ndev))
    <3>1. PICK ndev \in Defaults : HasDefault(ndev) /\ dev = OneHost(DefaultList(ndev))
      BY <2>3
    <3> DEFINE list == DefaultList(ndev)
    <3>2. /\ list \in Seq(Int) \ {<<>>} /\ Range(list) \subseteq 0 .. dev_cnt - 1
          /\ \A i \in DOMAIN list :
               Cardinality(Used(list, list[i] \div DEV_NUM)) = DEV_NUM
      BY <3>1, DefaultsAssumption, DefaultFits
    <3> HIDE DEF list
    <3>3. Placed(OneHost(list))
      BY <3>2, OneHostPlaced
    <3> QED
      BY <3>1, <3>3 DEF list
  <2> QED
    BY <2>1, <2>2, <2>3 DEF Init, CommInitAll
<1>2. Ranks # {} /\ \A q \in Ranks : Pred(q) \in Ranks
  BY <1>1, PredNext DEF Placed, Ranks
<1>3. NoLink \in Links
  BY DEF NoLink, Link, Links
<1>4. TypeInv
  BY <1>1, <1>3, OptionsAssumption DEF Init, TypeInv, Labels, NoLinks
<1>5. LayoutInv
  BY DEF Init, LayoutInv
<1>6. AllRingInv
  BY <1>2 DEF Init, AllRingInv, NoLinks, Unlinked
<1>7. NodeRingInv
  BY <1>2 DEF Init, NodeRingInv, NoLinks, Unlinked
<1>8. ChunkFitsHalf
  BY DEF Init, ChunkFitsHalf, NoStep
<1> QED
  BY <1>4, <1>5, <1>6, <1>7, <1>8 DEF IInv

-----------------------------------------------------------------------------
(* The theorems.                                                           *)

LEMMA Invariance == Spec => []IInv
<1>1. Init => IInv
  BY InitInv
<1>2. IInv /\ [Next]_vars => IInv'
  BY TypeStep, LayoutStep, AllRingStep, NodeRingStep, ChunkStep DEF IInv
<1> QED
  BY <1>1, <1>2, PTL DEF Spec

\* The layouts the ranks of a communicator compute apart from each other, from
\* the same table, make one ring of all its cards (tcclNicRankList).
THEOREM LayoutsMakeARing == Spec => []RingsFit
<1>1. IInv => RingsFit
  <2> SUFFICES ASSUME IInv, NEW r \in DOMAIN layout
               PROVE  LET l == layout[r]
                          next == l.phyNextRank IN
                      /\ {OnCard(dev, q) : q \in Range(l.phyRankList)} = Cards(dev)
                      /\ Len(l.phyRankList) = l.allCardNum
                      /\ l.phyRankList[l.phyCardRank + 1] = r
                      /\ next \in DOMAIN layout =>
                           /\ layout[next].phyPrevRank = r
                           /\ layout[next].rank_id = l.rank_id
                           /\ layout[next].phyCardRank = (l.phyCardRank + 1) % l.allCardNum
                           /\ layout[next].phyRankList = l.phyRankList
    BY DEF RingsFit
  <2> DEFINE l == layout[r]
             next == l.phyNextRank
             m == tcclNicRankList(dev, next, phyRankList(dev, next))
  <2>1. /\ l = tcclNicRankList(dev, r, phyRankList(dev, r))
        /\ r \in DOMAIN dev /\ Placed(dev)
        /\ next \in DOMAIN layout => layout[next] = m
    BY DEF IInv, LayoutInv, TypeInv, Ranks
  <2>2. /\ {OnCard(dev, q) : q \in Range(l.phyRankList)} = Cards(dev)
        /\ Len(l.phyRankList) = l.allCardNum
        /\ l.phyRankList[l.phyCardRank + 1] = r
        /\ m.phyPrevRank = r /\ m.rank_id = l.rank_id
        /\ m.phyCardRank = (l.phyCardRank + 1) % l.allCardNum
        /\ m.phyRankList = l.phyRankList
    BY <2>1, RingFits
  <2> HIDE DEF m
  <2> QED
    BY <2>1, <2>2
<1> QED
  BY <1>1, Invariance, PTL

\* Whoever connects first, a rank has the link it takes for the one from its
\* previous rank from that rank (tcclProxyCreate).
THEOREM LinksFromPrevious == Spec => []LinksFit
<1>1. IInv => LinksFit
  <2> SUFFICES ASSUME IInv
               PROVE  LinksFit
    OBVIOUS
  <2>1. \A r \in Ranks : prev[r].all \in {NoLink, Link((r + nranks - 1) % nranks, "all")}
    BY DEF IInv, AllRingInv, Pred
  <2>2. ASSUME ~ sharpEnable, Cardinality(Nodes(dev)) > 1, NodeByNode(dev),
               NEW r \in Ranks, prev[r].node # NoLink
        PROVE  /\ prev[r].node.ring = "node"
               /\ layout[prev[r].node.from].nodenext = r
               /\ dev[prev[r].node.from].ip = dev[r].ip
    <3> DEFINE p == prev[r].node.from
    <3>1. prev[r].node.ring = "node" /\ p \in DOMAIN layout /\ layout[p].nodenext = r
      BY <2>2 DEF IInv, NodeRingInv, NodeLink
    <3>2. p \in DOMAIN dev /\ layout[p] = tcclNicRankList(dev, p, phyRankList(dev, p)) /\ Placed(dev)
      BY <3>1 DEF IInv, LayoutInv, TypeInv, Ranks
    <3> HIDE DEF p
    <3>3. r \in OnNode(dev, p)
      BY <2>2, <3>1, <3>2, NextOnNode
    <3>4. dev[p].ip = dev[r].ip
      BY <3>3 DEF OnNode
    <3> QED
      BY <3>1, <3>4 DEF p
  <2> QED
    BY <2>1, <2>2 DEF LinksFit
<1> QED
  BY <1>1, Invariance, PTL

\* The slices of a chunk fit half of a cross buffer, for every size of data and
\* number of ranks (tcclNicStepLen, tcclGetStepLen).
THEOREM SlicesFit == Spec => []ChunkFitsHalf
BY Invariance, PTL DEF IInv
=============================================================================
