---------------------------- MODULE LayoutProofs ----------------------------
(***************************************************************************)
(* Facts about the layout of a communicator, for every table of devices    *)
(* that is Placed.                                                         *)
(*                                                                         *)
(* The layout counts: a rank's number on its card is how many ranks of the *)
(* card come before it, a card's how many PCI ids are lower, a node's how  *)
(* many nodes have an earlier rank.  Such numbers are different for        *)
(* different things and leave no gap (Counted), so the ranks with one      *)
(* rank_id have one place each in the ring of all cards, node by node and  *)
(* card by card (Places), and phyRankList has each in its place (InList).  *)
(***************************************************************************)
EXTENDS Layout, FiniteSetTheorems, FunctionTheorems, SequenceTheorems, TLAPS

-----------------------------------------------------------------------------
(* Sets and numbers.                                                       *)

\* A set of numbers has a least one.
LEMMA LeastOf ==
  ASSUME NEW S, S \subseteq Nat, S # {}
  PROVE  Min(S) \in S /\ \A x \in S : Min(S) <= x
<1>1. IsWellFoundedOn(OpToRel(<, Nat), Nat)
  BY NatLessThanWellFounded
<1>2. PICK x \in S : \A y \in S : ~ (<<y, x>> \in OpToRel(<, Nat))
  BY <1>1, WFMin
<1>3. \A y \in S : ~ (y < x)
  BY <1>2 DEF OpToRel
<1>4. \A y \in S : x <= y
  BY <1>3
<1> QED
  BY <1>4 DEF Min

\* A one-to-one map between finite sets of one size reaches every element.
LEMMA OneToOne ==
  ASSUME NEW S, NEW T, IsFiniteSet(S), IsFiniteSet(T), Cardinality(S) = Cardinality(T),
         NEW f \in [S -> T], \A x, y \in S : f[x] = f[y] => x = y
  PROVE  \A t \in T : \E x \in S : f[x] = t
<1>1. f \in Injection(S, T)
  BY Fun_IsInj
<1>2. f \in Surjection(S, T)
  BY <1>1, FS_Injection
<1> QED
  BY <1>2, Fun_SurjectionProperties

\* A one-to-one map onto a set shows that it is as large.
LEMMA SameSize ==
  ASSUME NEW S, NEW T, IsFiniteSet(S), NEW f \in [S -> T],
         \A x, y \in S : f[x] = f[y] => x = y, \A t \in T : \E x \in S : f[x] = t
  PROVE  IsFiniteSet(T) /\ Cardinality(T) = Cardinality(S)
<1>1. f \in Bijection(S, T)
  BY Fun_IsBij
<1>2. ExistsBijection(S, T)
  BY <1>1 DEF ExistsBijection
<1> QED
  BY <1>2, FS_Bijection

\* Elements that are numbered by how many come before them have different
\* numbers in the same order, and no number is left out.
LEMMA Counted ==
  ASSUME NEW S, IsFiniteSet(S), NEW f \in [S -> Int], \A x, y \in S : f[x] = f[y] => x = y,
         NEW number,
         \A x \in S : \E T \in SUBSET S : /\ number[x] = Cardinality(T)
                                          /\ \A y \in S : y \in T <=> f[y] < f[x]
  PROVE  /\ \A x \in S : number[x] \in 0 .. Cardinality(S) - 1
         /\ \A x, y \in S : number[x] < number[y] <=> f[x] < f[y]
         /\ \A x, y \in S : number[x] = number[y] => x = y
         /\ \A j \in 0 .. Cardinality(S) - 1 : \E x \in S : number[x] = j
<1> DEFINE Lower(x) == {y \in S : f[y] < f[x]}
<1>0. ASSUME NEW x \in S
      PROVE  number[x] = Cardinality(Lower(x))
  <2>1. PICK T \in SUBSET S : number[x] = Cardinality(T) /\ \A y \in S : y \in T <=> f[y] < f[x]
    OBVIOUS
  <2>2. T = Lower(x)
    BY <2>1
  <2> QED
    BY <2>1, <2>2
<1>1. ASSUME NEW x \in S
      PROVE  IsFiniteSet(Lower(x)) /\ Cardinality(Lower(x)) \in Nat
             /\ Cardinality(Lower(x)) < Cardinality(S) /\ Cardinality(S) \in Nat
  <2>1. Lower(x) \in SUBSET S /\ x \notin Lower(x)
    OBVIOUS
  <2> QED
    BY <2>1, FS_Subset, FS_CardinalityType
<1>2. ASSUME NEW x \in S, NEW y \in S, f[x] < f[y]
      PROVE  number[x] < number[y]
  <2>1. f[x] \in Int /\ f[y] \in Int /\ \A z \in S : f[z] \in Int
    OBVIOUS
  <2>2. Lower(x) \in SUBSET Lower(y) /\ x \in Lower(y) /\ x \notin Lower(x)
    BY <1>2, <2>1
  <2>3. IsFiniteSet(Lower(x)) /\ Cardinality(Lower(x)) \in Nat
    BY <1>1
  <2>4. IsFiniteSet(Lower(y)) /\ Cardinality(Lower(y)) \in Nat
    BY <1>1
  <2>5. number[x] = Cardinality(Lower(x)) /\ number[y] = Cardinality(Lower(y))
    BY <1>0
  <2> HIDE DEF Lower
  <2>6. /\ Cardinality(Lower(x)) <= Cardinality(Lower(y))
        /\ Cardinality(Lower(x)) = Cardinality(Lower(y)) => Lower(x) = Lower(y)
    BY <2>2, <2>4, FS_Subset
  <2> QED
    BY <2>2, <2>3, <2>4, <2>5, <2>6
<1>3. \A x \in S : number[x] \in 0 .. Cardinality(S) - 1
  <2> SUFFICES ASSUME NEW x \in S
               PROVE  number[x] \in 0 .. Cardinality(S) - 1
    OBVIOUS
  <2>1. number[x] = Cardinality(Lower(x))
    BY <1>0
  <2> HIDE DEF Lower
  <2> QED
    BY <1>1, <2>1
<1>4. \A x, y \in S : x # y => f[x] < f[y] \/ f[y] < f[x]
  OBVIOUS
<1>5. \A x, y \in S : number[x] = number[y] => x = y
  BY <1>2, <1>3, <1>4
<1>6. \A x, y \in S : number[x] < number[y] <=> f[x] < f[y]
  BY <1>2, <1>3, <1>4
<1>7. \A j \in 0 .. Cardinality(S) - 1 : \E x \in S : number[x] = j
  <2> DEFINE T == 0 .. Cardinality(S) - 1
  <2> DEFINE g == [x \in S |-> number[x]]
  <2>1. Cardinality(S) \in Nat
    BY FS_CardinalityType
  <2>2. IsFiniteSet(T) /\ Cardinality(T) = Cardinality(S)
    BY <2>1, FS_Interval
  <2>3. g \in [S -> T] /\ \A x, y \in S : g[x] = g[y] => x = y
    BY <1>3, <1>5
  <2> HIDE DEF g, T
  <2>4. \A t \in T : \E x \in S : g[x] = t
    BY <2>2, <2>3, OneToOne
  <2> QED
    BY <2>4 DEF g, T
<1> QED
  BY <1>3, <1>5, <1>6, <1>7

\* Pairs of numbers in one number.
LEMMA PairNumber ==
  ASSUME NEW C \in Nat, NEW a \in Nat, NEW c \in Nat, NEW b \in 0 .. C - 1, NEW d \in 0 .. C - 1
  PROVE  a * C + b < c * C + d <=> a < c \/ (a = c /\ b < d)
<1>1. \A x, y \in Nat : x < y => x * C + C <= y * C
  <2> SUFFICES ASSUME NEW x \in Nat, NEW y \in Nat, x < y
               PROVE  x * C + C <= y * C
    OBVIOUS
  <2>1. y - x - 1 \in Nat
    OBVIOUS
  <2>2. y * C = x * C + C + (y - x - 1) * C
    OBVIOUS
  <2>3. (y - x - 1) * C \in Nat /\ x * C \in Nat
    BY <2>1
  <2> QED
    BY <2>2, <2>3
<1>2. a * C \in Nat /\ c * C \in Nat /\ b \in Nat /\ d \in Nat
  OBVIOUS
<1>3. a < c => a * C + b < c * C + d
  <2>1. a < c => a * C + C <= c * C
    BY <1>1
  <2> QED
    BY <1>2, <2>1
<1>4. c < a => ~ (a * C + b < c * C + d)
  <2>1. c < a => c * C + C <= a * C
    BY <1>1
  <2> QED
    BY <1>2, <2>1
<1>5. a = c => (a * C + b < c * C + d <=> b < d)
  BY <1>2
<1> QED
  BY <1>3, <1>4, <1>5

LEMMA PairOf ==
  ASSUME NEW C \in Nat \ {0}, NEW N \in Nat, NEW v \in 0 .. N * C - 1
  PROVE  /\ v \div C \in 0 .. N - 1 /\ v % C \in 0 .. C - 1
         /\ v = (v \div C) * C + (v % C)
<1>0. N * C \in Nat /\ v \in Nat /\ v < N * C
  OBVIOUS
<1>1. v % C \in 0 .. C - 1 /\ v \div C \in Nat /\ v = C * (v \div C) + (v % C)
  <2>1. v % C \in 0 .. C - 1
    BY <1>0
  <2>2. v \div C \in Int
    BY <1>0
  <2>3. v = C * (v \div C) + (v % C)
    BY <1>0
  <2>4. v \div C >= 0
    BY <1>0
  <2> QED
    BY <2>1, <2>2, <2>3, <2>4
<1>2. v \div C < N
  <2> SUFFICES ASSUME ~ (v \div C < N)
               PROVE  FALSE
    OBVIOUS
  <2> DEFINE a == v \div C
  <2>1. a - N \in Nat
    BY <1>1
  <2>2. C * a = N * C + C * (a - N)
    BY <1>1
  <2>3. C * (a - N) \in Nat
    BY <2>1
  <2> QED
    BY <1>0, <1>1, <2>2, <2>3
<1>3. C * (v \div C) = (v \div C) * C
  BY <1>1
<1> QED
  BY <1>1, <1>2, <1>3

-----------------------------------------------------------------------------
(* Cards and nodes.                                                        *)

\* A rank is on its card and its card on its node, and the ranks of a card or
\* a node agree on it.
LEMMA SameCard ==
  ASSUME NEW dev, Placed(dev), NEW r \in DOMAIN dev
  PROVE  /\ r \in OnCard(dev, r) /\ r \in OnNode(dev, r)
         /\ OnCard(dev, r) \subseteq OnNode(dev, r)
         /\ OnNode(dev, r) \subseteq DOMAIN dev /\ DOMAIN dev \subseteq Nat
         /\ IsFiniteSet(OnCard(dev, r)) /\ IsFiniteSet(OnNode(dev, r))
         /\ \A q \in OnNode(dev, r) : /\ OnNode(dev, q) = OnNode(dev, r)
                                      /\ CardsOfNode(dev, q) = CardsOfNode(dev, r)
         /\ \A q \in OnCard(dev, r) : OnCard(dev, q) = OnCard(dev, r)
<1>1. r \in OnCard(dev, r) /\ r \in OnNode(dev, r)
  BY DEF OnCard, OnNode, tcclIsOneCard
<1>2. OnCard(dev, r) \subseteq OnNode(dev, r) /\ OnNode(dev, r) \subseteq DOMAIN dev
  BY DEF OnCard, OnNode, tcclIsOneCard
<1>3. DOMAIN dev \subseteq Nat
  <2>1. IsFiniteSet(DOMAIN dev) /\ DOMAIN dev = 0 .. Cardinality(DOMAIN dev) - 1
    BY DEF Placed
  <2>2. Cardinality(DOMAIN dev) \in Nat
    BY <2>1, FS_CardinalityType
  <2> QED
    BY <2>1, <2>2
<1>4. IsFiniteSet(OnNode(dev, r)) /\ IsFiniteSet(OnCard(dev, r))
  <2>1. IsFiniteSet(DOMAIN dev)
    BY DEF Placed
  <2>2. IsFiniteSet(OnNode(dev, r))
    BY <1>2, <2>1, FS_Subset
  <2> QED
    BY <1>2, <2>2, FS_Subset
<1>5. \A q \in OnNode(dev, r) : OnNode(dev, q) = OnNode(dev, r)
  BY DEF OnNode
<1>6. \A q \in OnNode(dev, r) : CardsOfNode(dev, q) = CardsOfNode(dev, r)
  BY <1>5 DEF CardsOfNode
<1>7. \A q \in OnCard(dev, r) : OnCard(dev, q) = OnCard(dev, r)
  BY DEF OnCard, tcclIsOneCard
<1> QED
  BY <1>1, <1>2, <1>3, <1>4, <1>5, <1>6, <1>7

\* The ranks of a card have the numbers from 0.
LEMMA RankIds ==
  ASSUME NEW dev, Placed(dev), NEW r \in DOMAIN dev
  PROVE  /\ \A q \in OnCard(dev, r) : rank_id(dev, q) \in 0 .. Cardinality(OnCard(dev, r)) - 1
         /\ \A p, q \in OnCard(dev, r) : rank_id(dev, p) = rank_id(dev, q) => p = q
         /\ \A j \in 0 .. Cardinality(OnCard(dev, r)) - 1 :
              \E q \in OnCard(dev, r) : rank_id(dev, q) = j
<1> DEFINE S == OnCard(dev, r)
           f == [q \in S |-> q]
           number == [q \in S |-> rank_id(dev, q)]
<1>1. IsFiniteSet(S) /\ S \subseteq Int /\ \A q \in S : OnCard(dev, q) = S
  BY SameCard
<1>2. f \in [S -> Int] /\ \A x, y \in S : f[x] = f[y] => x = y
  BY <1>1
<1>3. \A x \in S : \E T \in SUBSET S : /\ number[x] = Cardinality(T)
                                       /\ \A y \in S : y \in T <=> f[y] < f[x]
  <2> SUFFICES ASSUME NEW x \in S
               PROVE  \E T \in SUBSET S : /\ number[x] = Cardinality(T)
                                          /\ \A y \in S : y \in T <=> f[y] < f[x]
    OBVIOUS
  <2> WITNESS {y \in S : y < x} \in SUBSET S
  <2>1. number[x] = Cardinality({y \in OnCard(dev, x) : y < x})
    BY DEF rank_id
  <2>2. OnCard(dev, x) = S
    BY <1>1
  <2> QED
    BY <2>1, <2>2
<1>4. \A q \in S : number[q] = rank_id(dev, q)
  OBVIOUS
<1> HIDE DEF S, f, number
<1>5. /\ \A x \in S : number[x] \in 0 .. Cardinality(S) - 1
      /\ \A x, y \in S : number[x] = number[y] => x = y
      /\ \A j \in 0 .. Cardinality(S) - 1 : \E x \in S : number[x] = j
  <2>1. IsFiniteSet(S)
    BY <1>1
  <2> QED
    BY <2>1, <1>2, <1>3, Counted
<1> QED
  BY <1>4, <1>5 DEF S

\* The cards of a node have the numbers from 0.
LEMMA CardIds ==
  ASSUME NEW dev, Placed(dev), NEW r \in DOMAIN dev
  PROVE  LET C == Cardinality(CardsOfNode(dev, r)) IN
         /\ IsFiniteSet(CardsOfNode(dev, r)) /\ C \in Nat \ {0}
         /\ \A q \in OnNode(dev, r) : card_id(dev, q) \in 0 .. C - 1
         /\ \A p, q \in OnNode(dev, r) :
              card_id(dev, p) = card_id(dev, q) <=> OnCard(dev, p) = OnCard(dev, q)
         /\ \A j \in 0 .. C - 1 : \E q \in OnNode(dev, r) : card_id(dev, q) = j
<1> DEFINE N == OnNode(dev, r)
           Id(q) == dev[q].phyCardId
           S == {Id(q) : q \in N}
           f == [x \in S |-> x]
           number == [x \in S |-> Cardinality({y \in S : y < x})]
           card == [x \in S |-> {q \in N : Id(q) = x}]
<1>1. /\ IsFiniteSet(N) /\ r \in N /\ N \subseteq DOMAIN dev
      /\ \A q \in N : OnNode(dev, q) = N /\ q \in OnCard(dev, q) /\ OnCard(dev, q) \subseteq N
  <2>1. N \subseteq DOMAIN dev
    BY SameCard
  <2> QED
    BY <2>1, SameCard
<1>2. \A p, q \in N : q \in OnCard(dev, p) <=> Id(p) = Id(q)
  BY DEF Placed, OnNode, OnCard
<1>3. \A q \in N : Id(q) \in nic_topo /\ Id(q) \in Nat
  BY <1>1 DEF Placed, nic_topo, MAX_CARD_NUM
<1>4. \A p, q \in N : Id(p) = Id(q) <=> OnCard(dev, p) = OnCard(dev, q)
  <2>1. \A q \in N : q \in DOMAIN dev
    BY <1>1
  <2>2. \A p, q \in N : q \in OnCard(dev, p) => OnCard(dev, p) = OnCard(dev, q)
    BY <2>1, SameCard
  <2> QED
    BY <1>1, <1>2, <2>2
<1>5. \A q \in N : card[Id(q)] = OnCard(dev, q)
  BY <1>1, <1>2
<1>6. S \subseteq Nat /\ \A x \in S : \E q \in N : x = Id(q)
  <2>1. \A q \in N : Id(q) \in Nat
    BY <1>3
  <2> QED
    BY <2>1
<1>7. IsFiniteSet(S)
  <2> DEFINE id == [q \in N |-> Id(q)]
  <2>1. id \in Surjection(N, S)
    BY Fun_IsSurj
  <2> QED
    BY <1>1, <2>1, FS_Surjection
<1>8. IsFiniteSet(CardsOfNode(dev, r)) /\ Cardinality(CardsOfNode(dev, r)) = Cardinality(S)
  <2>1. card \in [S -> CardsOfNode(dev, r)]
    <3> SUFFICES ASSUME NEW x \in S
                 PROVE  card[x] \in CardsOfNode(dev, r)
      OBVIOUS
    <3>1. PICK q \in N : x = Id(q)
      BY <1>6
    <3> QED
      BY <1>5, <3>1 DEF CardsOfNode
  <2>2. \A x, y \in S : card[x] = card[y] => x = y
    <3> SUFFICES ASSUME NEW x \in S, NEW y \in S, card[x] = card[y]
                 PROVE  x = y
      OBVIOUS
    <3>1. PICK q \in N : x = Id(q)
      BY <1>6
    <3>2. q \in card[x]
      BY <3>1
    <3>3. q \in card[y]
      BY <3>2
    <3> QED
      BY <3>1, <3>3
  <2>3. \A t \in CardsOfNode(dev, r) : \E x \in S : card[x] = t
    BY <1>5 DEF CardsOfNode
  <2> HIDE DEF S, card
  <2> QED
    BY <1>7, <2>1, <2>2, <2>3, SameSize
<1>9. CardsOfNode(dev, r) # {}
  BY <1>1 DEF CardsOfNode
<1>10. Cardinality(S) \in Nat \ {0}
  BY <1>8, <1>9, FS_EmptySet, FS_CardinalityType
<1>11. f \in [S -> Int] /\ \A x, y \in S : f[x] = f[y] => x = y
  BY <1>6
<1>12. \A x \in S : \E T \in SUBSET S : /\ number[x] = Cardinality(T)
                                        /\ \A y \in S : y \in T <=> f[y] < f[x]
  <2> SUFFICES ASSUME NEW x \in S
               PROVE  \E T \in SUBSET S : /\ number[x] = Cardinality(T)
                                          /\ \A y \in S : y \in T <=> f[y] < f[x]
    OBVIOUS
  <2> WITNESS {y \in S : y < x} \in SUBSET S
  <2> HIDE DEF S
  <2> QED
    OBVIOUS
<1>13. \A q \in N : Id(q) \in S /\ number[Id(q)] = card_id(dev, q)
  <2> SUFFICES ASSUME NEW q \in N
               PROVE  Id(q) \in S /\ number[Id(q)] = card_id(dev, q)
    OBVIOUS
  <2>1. {y \in S : y < Id(q)} = S \cap 0 .. Id(q) - 1
    <3> DEFINE b == Id(q)
    <3>1. b \in Nat /\ \A y \in S : y \in Nat
      BY <1>3, <1>6
    <3> HIDE DEF b, S
    <3>2. \A y \in S : y < b <=> y \in 0 .. b - 1
      BY <3>1
    <3>3. {y \in S : y < b} = S \cap 0 .. b - 1
      BY <3>2, Zenon
    <3> QED
      BY <3>3 DEF b
  <2>2. OnNode(dev, q) = N
    BY <1>1
  <2>3. card_id(dev, q) = Cardinality(S \cap 0 .. Id(q) - 1)
    BY <1>3, <2>2 DEF card_id
  <2> QED
    BY <2>1, <2>3
<1> HIDE DEF S, f, number, card
<1>14. /\ \A x \in S : number[x] \in 0 .. Cardinality(S) - 1
       /\ \A x, y \in S : number[x] = number[y] => x = y
       /\ \A j \in 0 .. Cardinality(S) - 1 : \E x \in S : number[x] = j
  BY <1>7, <1>11, <1>12, Counted
<1>15. \A q \in N : card_id(dev, q) \in 0 .. Cardinality(S) - 1
  BY <1>13, <1>14
<1>16. \A p, q \in N : card_id(dev, p) = card_id(dev, q) <=> OnCard(dev, p) = OnCard(dev, q)
  BY <1>4, <1>13, <1>14
<1>17. \A j \in 0 .. Cardinality(S) - 1 : \E q \in N : card_id(dev, q) = j
  BY <1>6, <1>13, <1>14
<1> QED
  BY <1>8, <1>10, <1>15, <1>16, <1>17 DEF N

\* The nodes have the numbers from 0.
LEMMA NodeIds ==
  ASSUME NEW dev, Placed(dev)
  PROVE  LET N == Cardinality(Nodes(dev)) IN
         /\ IsFiniteSet(Nodes(dev)) /\ N \in Nat \ {0}
         /\ \A q \in DOMAIN dev : node_id(dev, q) \in 0 .. N - 1
         /\ \A p, q \in DOMAIN dev :
              /\ node_id(dev, p) = node_id(dev, q) <=> dev[p].ip = dev[q].ip
              /\ node_id(dev, p) = node_id(dev, q) <=> OnNode(dev, p) = OnNode(dev, q)
              /\ node_id(dev, p) < node_id(dev, q) <=> Min(OnNode(dev, p)) < Min(OnNode(dev, q))
         /\ \A j \in 0 .. N - 1 : \E q \in DOMAIN dev : node_id(dev, q) = j
<1> DEFINE D == DOMAIN dev
           S == Nodes(dev)
           On(ip) == {q \in D : dev[q].ip = ip}
           f == [ip \in S |-> Min(On(ip))]
           number == [ip \in S |-> Cardinality({y \in S : f[y] < f[ip]})]
<1>1. IsFiniteSet(D) /\ D # {} /\ D \subseteq Nat /\ \A q \in D, p \in Nat : p < q => p \in D
  <2>1. IsFiniteSet(D) /\ D # {} /\ D = 0 .. Cardinality(D) - 1
    BY DEF Placed
  <2>2. Cardinality(D) \in Nat
    BY <2>1, FS_CardinalityType
  <2> QED
    BY <2>1, <2>2
<1>2. \A q \in D : dev[q].ip \in S /\ OnNode(dev, q) = On(dev[q].ip)
  BY DEF OnNode, Nodes
<1>3. \A ip \in S : \E q \in D : dev[q].ip = ip
  BY DEF Nodes
<1>4. IsFiniteSet(S)
  <2> DEFINE g == [q \in D |-> dev[q].ip]
  <2>1. g \in Surjection(D, S)
    BY <1>2, <1>3, Fun_IsSurj
  <2> QED
    BY <1>1, <2>1, FS_Surjection
<1>5. S # {}
  BY <1>1, <1>2
<1>6. Cardinality(S) \in Nat \ {0}
  BY <1>4, <1>5, FS_EmptySet, FS_CardinalityType
<1>7. \A ip \in S : f[ip] \in D /\ dev[f[ip]].ip = ip /\ \A q \in On(ip) : f[ip] <= q
  <2> SUFFICES ASSUME NEW ip \in S
               PROVE  f[ip] \in D /\ dev[f[ip]].ip = ip /\ \A q \in On(ip) : f[ip] <= q
    OBVIOUS
  <2>1. On(ip) \subseteq Nat /\ On(ip) # {}
    BY <1>1, <1>3
  <2>2. Min(On(ip)) \in On(ip) /\ \A x \in On(ip) : Min(On(ip)) <= x
    BY <2>1, LeastOf
  <2> QED
    BY <2>2
<1>8. f \in [S -> Int] /\ \A x, y \in S : f[x] = f[y] => x = y
  BY <1>1, <1>7
<1>9. \A q \in D : number[dev[q].ip] = node_id(dev, q)
  <2> SUFFICES ASSUME NEW q \in D
               PROVE  number[dev[q].ip] = node_id(dev, q)
    OBVIOUS
  <2> DEFINE ip == dev[q].ip
  <2>1. ip \in S /\ f[ip] \in D /\ f[ip] = Min(OnNode(dev, q))
    BY <1>2, <1>7
  <2>2. f[ip] \in Nat
    BY <1>1, <2>1
  <2>3. {y \in S : f[y] < f[ip]} = {dev[p].ip : p \in 0 .. f[ip] - 1}
    <3>1. ASSUME NEW y \in S, f[y] < f[ip]
          PROVE  y \in {dev[p].ip : p \in 0 .. f[ip] - 1}
      <4>1. f[y] \in Nat /\ dev[f[y]].ip = y
        BY <1>1, <1>7
      <4>2. f[y] \in 0 .. f[ip] - 1
        BY <2>2, <3>1, <4>1
      <4> QED
        BY <4>1, <4>2
    <3>2. ASSUME NEW p \in 0 .. f[ip] - 1
          PROVE  dev[p].ip \in S /\ f[dev[p].ip] < f[ip]
      <4>1. p \in Nat /\ p < f[ip]
        BY <2>2
      <4>2. p \in D
        BY <1>1, <2>1, <4>1
      <4>3. dev[p].ip \in S /\ p \in On(dev[p].ip)
        BY <1>2, <4>2
      <4>4. f[dev[p].ip] <= p /\ f[dev[p].ip] \in Nat
        BY <1>1, <1>7, <4>3
      <4> QED
        BY <2>2, <4>1, <4>3, <4>4
    <3> HIDE DEF f
    <3> QED
      BY <3>1, <3>2
  <2>4. number[ip] = Cardinality({y \in S : f[y] < f[ip]})
    BY <2>1
  <2> QED
    BY <2>1, <2>3, <2>4 DEF node_id
<1>16. \A q \in D : f[dev[q].ip] = Min(OnNode(dev, q))
  BY <1>2
<1>10. \A x \in S : \E T \in SUBSET S : /\ number[x] = Cardinality(T)
                                        /\ \A y \in S : y \in T <=> f[y] < f[x]
  <2> SUFFICES ASSUME NEW x \in S
               PROVE  \E T \in SUBSET S : /\ number[x] = Cardinality(T)
                                          /\ \A y \in S : y \in T <=> f[y] < f[x]
    OBVIOUS
  <2> WITNESS {y \in S : f[y] < f[x]} \in SUBSET S
  <2> HIDE DEF S, f
  <2> QED
    OBVIOUS
<1> HIDE DEF S, f, number
<1>11. /\ \A x \in S : number[x] \in 0 .. Cardinality(S) - 1
       /\ \A x, y \in S : number[x] = number[y] => x = y
       /\ \A x, y \in S : number[x] < number[y] <=> f[x] < f[y]
       /\ \A j \in 0 .. Cardinality(S) - 1 : \E x \in S : number[x] = j
  BY <1>4, <1>8, <1>10, Counted
<1>12. \A q \in D : node_id(dev, q) \in 0 .. Cardinality(S) - 1
  BY <1>2, <1>9, <1>11
<1>13. \A p, q \in D : node_id(dev, p) = node_id(dev, q) <=> dev[p].ip = dev[q].ip
  BY <1>2, <1>9, <1>11
<1>17. \A p, q \in D : node_id(dev, p) < node_id(dev, q) <=>
                         Min(OnNode(dev, p)) < Min(OnNode(dev, q))
  BY <1>2, <1>9, <1>11, <1>16
<1>14. \A p, q \in D : dev[p].ip = dev[q].ip <=> OnNode(dev, p) = OnNode(dev, q)
  BY DEF OnNode
<1>15. \A j \in 0 .. Cardinality(S) - 1 : \E q \in D : node_id(dev, q) = j
  BY <1>3, <1>9, <1>11
<1> QED
  BY <1>4, <1>6, <1>12, <1>13, <1>14, <1>15, <1>17 DEF S

-----------------------------------------------------------------------------
(* The ring of all cards.                                                  *)

\* The ranks with the rank_id of r.
Column(dev, r) == {q \in DOMAIN dev : rank_id(dev, q) = rank_id(dev, r)}

\* The place of a rank in the ring: the cards of the earlier nodes and the
\* earlier ones of its node come before it.
Place(dev, q) == (node_id(dev, q) * Cardinality(CardsOfNode(dev, q))) + card_id(dev, q)

Before(dev, p, q) ==
  \/ node_id(dev, p) < node_id(dev, q)
  \/ OnNode(dev, p) = OnNode(dev, q)
     /\ (card_id(dev, p) < card_id(dev, q) \/ (card_id(dev, p) = card_id(dev, q) /\ p < q))

RingLen(dev, r) == Cardinality(Nodes(dev)) * Cardinality(CardsOfNode(dev, r))

\* The numbers of nodes and cards that make up a place.
LEMMA PlaceNumbers ==
  ASSUME NEW dev, Placed(dev), NEW r \in DOMAIN dev, NEW q \in DOMAIN dev
  PROVE  LET C == Cardinality(CardsOfNode(dev, r)) IN
         /\ C \in Nat \ {0} /\ Cardinality(Nodes(dev)) \in Nat \ {0}
         /\ node_id(dev, q) \in 0 .. Cardinality(Nodes(dev)) - 1
         /\ card_id(dev, q) \in 0 .. C - 1
         /\ Place(dev, q) = node_id(dev, q) * C + card_id(dev, q)
         /\ Place(dev, q) \in 0 .. RingLen(dev, r) - 1
         /\ RingLen(dev, r) \in Nat \ {0} /\ RingLen(dev, q) = RingLen(dev, r)
<1> DEFINE C == Cardinality(CardsOfNode(dev, r))
           N == Cardinality(Nodes(dev))
           n == node_id(dev, q)
           c == card_id(dev, q)
<1>1. C \in Nat \ {0}
  BY CardIds
<1>2. N \in Nat \ {0} /\ n \in 0 .. N - 1
  BY NodeIds
<1>3. Cardinality(CardsOfNode(dev, q)) = C
  BY DEF Placed, Uniform
<1>4. q \in OnNode(dev, q)
  BY SameCard
<1>5. c \in 0 .. C - 1
  BY <1>3, <1>4, CardIds
<1>6. Place(dev, q) = n * C + c
  BY <1>3 DEF Place
<1>7. RingLen(dev, q) = N * C /\ RingLen(dev, r) = N * C
  BY <1>3 DEF RingLen
<1> HIDE DEF C, N, n, c
<1>8. n * C + c \in Nat /\ N * C \in Nat \ {0} /\ n * C + c < N * C
  <2>1. n \in Nat /\ c \in Nat /\ n < N /\ c < C
    BY <1>1, <1>2, <1>5
  <2>2. N * C \in Nat /\ n * C \in Nat
    BY <1>1, <1>2, <2>1
  <2>3. 0 \in 0 .. C - 1
    BY <1>1
  <2>4. n * C + c < N * C + 0
    BY <1>1, <1>2, <1>5, <2>1, <2>3, PairNumber
  <2> QED
    BY <2>1, <2>2, <2>4
<1> QED
  BY <1>1, <1>2, <1>5, <1>6, <1>7, <1>8 DEF C, N, n, c

\* The ranks of a column have one place each, in their order, and fill them.
LEMMA Places ==
  ASSUME NEW dev, Placed(dev), NEW r \in DOMAIN dev
  PROVE  /\ IsFiniteSet(Column(dev, r)) /\ Cardinality(Column(dev, r)) = RingLen(dev, r)
         /\ \A p, q \in Column(dev, r) : Place(dev, p) = Place(dev, q) => p = q
         /\ \A p, q \in Column(dev, r) : Before(dev, p, q) <=> Place(dev, p) < Place(dev, q)
         /\ \A j \in 0 .. RingLen(dev, r) - 1 : \E q \in Column(dev, r) : Place(dev, q) = j
<1> DEFINE C == Cardinality(CardsOfNode(dev, r))
           N == Cardinality(Nodes(dev))
           K == RingLen(dev, r)
           S == Column(dev, r)
           D == DOMAIN dev
<1>1. C \in Nat \ {0} /\ N \in Nat \ {0} /\ K \in Nat \ {0} /\ K = N * C
  BY PlaceNumbers DEF RingLen
<1>2. \A q \in D : /\ node_id(dev, q) \in 0 .. N - 1 /\ card_id(dev, q) \in 0 .. C - 1
                   /\ Place(dev, q) = node_id(dev, q) * C + card_id(dev, q)
                   /\ Place(dev, q) \in 0 .. K - 1
  BY PlaceNumbers
<1>3. S \subseteq D /\ IsFiniteSet(S) /\ \A q \in D : q \in S <=> rank_id(dev, q) = rank_id(dev, r)
  <2>1. IsFiniteSet(D)
    BY DEF Placed
  <2>2. S \subseteq D
    BY DEF Column
  <2> QED
    BY <2>1, <2>2, FS_Subset DEF Column
<1>4. \A q \in D : \A p \in OnCard(dev, q) : rank_id(dev, p) = rank_id(dev, q) => p = q
  BY RankIds, SameCard
<1>5. \A p, q \in D : node_id(dev, p) = node_id(dev, q) => OnNode(dev, p) = OnNode(dev, q)
  BY NodeIds
<1>6. \A p, q \in D : OnNode(dev, p) = OnNode(dev, q) =>
        /\ node_id(dev, p) = node_id(dev, q)
        /\ card_id(dev, p) = card_id(dev, q) => OnCard(dev, p) = OnCard(dev, q)
  <2> SUFFICES ASSUME NEW p \in D, NEW q \in D, OnNode(dev, p) = OnNode(dev, q)
               PROVE  /\ node_id(dev, p) = node_id(dev, q)
                      /\ card_id(dev, p) = card_id(dev, q) => OnCard(dev, p) = OnCard(dev, q)
    OBVIOUS
  <2>1. node_id(dev, p) = node_id(dev, q)
    BY NodeIds
  <2>2. p \in OnNode(dev, q) /\ q \in OnNode(dev, q)
    BY SameCard
  <2> QED
    BY <2>1, <2>2, CardIds
<1>7. \A p, q \in S : Before(dev, p, q) <=> Place(dev, p) < Place(dev, q)
  <2> SUFFICES ASSUME NEW p \in S, NEW q \in S
               PROVE  Before(dev, p, q) <=> Place(dev, p) < Place(dev, q)
    OBVIOUS
  <2>0. p \in D /\ q \in D /\ rank_id(dev, p) = rank_id(dev, q)
    BY <1>3
  <2>1. node_id(dev, p) \in Nat /\ node_id(dev, q) \in Nat /\ C \in Nat
    BY <1>1, <1>2, <2>0
  <2>2. card_id(dev, p) \in 0 .. C - 1 /\ card_id(dev, q) \in 0 .. C - 1
    BY <1>2, <2>0
  <2>3. Place(dev, p) < Place(dev, q) <=>
          \/ node_id(dev, p) < node_id(dev, q)
          \/ node_id(dev, p) = node_id(dev, q) /\ card_id(dev, p) < card_id(dev, q)
    <3> HIDE DEF C
    <3>1. Place(dev, p) = node_id(dev, p) * C + card_id(dev, p)
      BY <1>2, <2>0
    <3>2. Place(dev, q) = node_id(dev, q) * C + card_id(dev, q)
      BY <1>2, <2>0
    <3>3. \A a, c \in Nat, b, d \in 0 .. C - 1 :
            a * C + b < c * C + d <=> a < c \/ (a = c /\ b < d)
      BY <2>1, PairNumber
    <3>4. node_id(dev, p) * C + card_id(dev, p) < node_id(dev, q) * C + card_id(dev, q) <=>
            \/ node_id(dev, p) < node_id(dev, q)
            \/ node_id(dev, p) = node_id(dev, q) /\ card_id(dev, p) < card_id(dev, q)
      BY <2>1, <2>2, <3>3, Zenon
    <3> QED
      BY <3>1, <3>2, <3>4
  <2>4. OnNode(dev, p) = OnNode(dev, q) <=> node_id(dev, p) = node_id(dev, q)
    BY <1>5, <1>6, <2>0
  <2>5. OnNode(dev, p) = OnNode(dev, q) /\ card_id(dev, p) = card_id(dev, q) => p = q
    <3> SUFFICES ASSUME OnNode(dev, p) = OnNode(dev, q), card_id(dev, p) = card_id(dev, q)
                 PROVE  p = q
      OBVIOUS
    <3>1. OnCard(dev, p) = OnCard(dev, q)
      BY <1>6, <2>0
    <3>2. p \in OnCard(dev, q)
      BY <2>0, <3>1, SameCard
    <3> QED
      BY <1>4, <2>0, <3>2
  <2>6. p \in Nat /\ q \in Nat
    BY <2>0, SameCard
  <2> QED
    BY <2>3, <2>4, <2>5, <2>6 DEF Before
<1>8. \A p, q \in S : Place(dev, p) = Place(dev, q) => p = q
  <2> SUFFICES ASSUME NEW p \in S, NEW q \in S, Place(dev, p) = Place(dev, q)
               PROVE  p = q
    OBVIOUS
  <2>0. p \in D /\ q \in D /\ p \in Nat /\ q \in Nat /\ rank_id(dev, p) = rank_id(dev, q)
    BY <1>3, SameCard
  <2>1. Place(dev, p) \in Int /\ Place(dev, q) \in Int
    BY <1>2, <2>0
  <2>2. ~ Before(dev, p, q) /\ ~ Before(dev, q, p)
    BY <1>7, <2>1
  <2>3. node_id(dev, p) \in Int /\ node_id(dev, q) \in Int /\ card_id(dev, p) \in Int /\ card_id(dev, q) \in Int
    BY <1>2, <2>0
  <2>4. node_id(dev, p) = node_id(dev, q)
    BY <2>2, <2>3 DEF Before
  <2>5. OnNode(dev, p) = OnNode(dev, q)
    BY <1>5, <2>0, <2>4
  <2> QED
    BY <2>0, <2>2, <2>3, <2>5 DEF Before
<1>9. \A j \in 0 .. K - 1 : \E q \in S : Place(dev, q) = j
  <2> SUFFICES ASSUME NEW j \in 0 .. K - 1
               PROVE  \E q \in S : Place(dev, q) = j
    OBVIOUS
  <2>1. j \div C \in 0 .. N - 1 /\ j % C \in 0 .. C - 1 /\ j = (j \div C) * C + (j % C)
    <3> HIDE DEF C, N, K
    <3> QED
      BY <1>1, PairOf
  <2>2. PICK a \in D : node_id(dev, a) = j \div C
    BY <2>1, NodeIds
  <2>3. Cardinality(CardsOfNode(dev, a)) = C
    BY DEF Placed, Uniform
  <2>4. PICK b \in OnNode(dev, a) : card_id(dev, b) = j % C
    BY <2>1, <2>3, CardIds
  <2>5. b \in D /\ OnNode(dev, b) = OnNode(dev, a)
    BY SameCard
  <2>6. rank_id(dev, r) \in 0 .. Cardinality(OnCard(dev, b)) - 1
    <3>1. rank_id(dev, r) \in 0 .. Cardinality(OnCard(dev, r)) - 1
      BY RankIds, SameCard
    <3> QED
      BY <2>5, <3>1 DEF Placed, Uniform
  <2>7. PICK q \in OnCard(dev, b) : rank_id(dev, q) = rank_id(dev, r)
    BY <2>5, <2>6, RankIds
  <2>8. q \in OnNode(dev, b) /\ q \in D /\ OnCard(dev, q) = OnCard(dev, b)
    BY <2>5, SameCard
  <2>9. OnNode(dev, q) = OnNode(dev, a)
    BY <2>5, <2>8, SameCard
  <2>10. card_id(dev, q) = card_id(dev, b)
    <3>1. q \in OnNode(dev, a)
      BY <2>5, <2>8
    <3> QED
      BY <2>8, <3>1, CardIds
  <2>11. node_id(dev, q) = node_id(dev, a)
    BY <1>6, <2>8, <2>9
  <2>12. q \in S
    BY <1>3, <2>7, <2>8
  <2>13. Place(dev, q) = node_id(dev, q) * C + card_id(dev, q)
    BY <1>2, <2>8
  <2> QED
    BY <2>1, <2>2, <2>4, <2>10, <2>11, <2>12, <2>13
<1>10. Cardinality(S) = K
  <2> DEFINE f == [q \in S |-> Place(dev, q)]
             T == 0 .. K - 1
  <2>1. f \in [S -> T] /\ \A x, y \in S : f[x] = f[y] => x = y
    BY <1>2, <1>3, <1>8
  <2>2. \A t \in T : \E x \in S : f[x] = t
    BY <1>9
  <2>3. Cardinality(T) = K
    <3> HIDE DEF K
    <3>1. Cardinality(0 .. K - 1) = K
      BY <1>1, FS_Interval
    <3> QED
      BY <3>1
  <2>4. IsFiniteSet(S)
    BY <1>3
  <2> HIDE DEF f, S, T, K
  <2> QED
    BY <2>1, <2>2, <2>3, <2>4, SameSize
<1> QED
  BY <1>3, <1>7, <1>8, <1>9, <1>10

\* The ring list of r has every rank of its column in its place.
LEMMA InList ==
  ASSUME NEW dev, Placed(dev), NEW r \in DOMAIN dev
  PROVE  LET list == phyRankList(dev, r) IN
         /\ list \in Seq(DOMAIN dev) /\ Len(list) = RingLen(dev, r)
         /\ list \in [1 .. RingLen(dev, r) -> Column(dev, r)]
         /\ \A q \in Column(dev, r) : list[Place(dev, q) + 1] = q
<1> DEFINE S == Column(dev, r)
           K == RingLen(dev, r)
           Lower(q) == {p \in S : Before(dev, p, q)}
           list == [j \in 1 .. K |-> CHOOSE q \in S : Cardinality(Lower(q)) = j - 1]
<1>1. K \in Nat \ {0} /\ \A q \in DOMAIN dev : Place(dev, q) \in 0 .. K - 1
  BY PlaceNumbers
<1>2. /\ IsFiniteSet(S) /\ Cardinality(S) = K /\ S \subseteq DOMAIN dev
      /\ \A p, q \in S : Place(dev, p) = Place(dev, q) => p = q
      /\ \A p, q \in S : Before(dev, p, q) <=> Place(dev, p) < Place(dev, q)
      /\ \A j \in 0 .. K - 1 : \E q \in S : Place(dev, q) = j
  <2>1. S \subseteq DOMAIN dev
    BY DEF Column
  <2> QED
    BY <2>1, Places
<1>3. \A q \in S : Cardinality(Lower(q)) = Place(dev, q)
  <2> DEFINE number == [q \in S |-> Cardinality(Lower(q))]
             P == {q \in S : Cardinality(Lower(q)) = Place(dev, q)}
  <2> SUFFICES ASSUME NEW q \in S
               PROVE  Cardinality(Lower(q)) = Place(dev, q)
    OBVIOUS
  <2> DEFINE L == Lower(q)
             T == 0 .. Place(dev, q) - 1
             f == [p \in L |-> Place(dev, p)]
  <2>1. L \subseteq S /\ IsFiniteSet(L)
    <3>1. L \in SUBSET S
      OBVIOUS
    <3> QED
      BY <1>2, <3>1, FS_Subset
  <2>2. \A p \in S : Place(dev, p) \in 0 .. K - 1
    BY <1>1, <1>2
  <2>3. Place(dev, q) \in Nat /\ Place(dev, q) < K
    BY <1>1, <2>2
  <2>4. \A p \in S : p \in L <=> Place(dev, p) < Place(dev, q)
    BY <1>2
  <2> HIDE DEF L, S, K, Lower
  <2>5. f \in [L -> T]
    BY <2>1, <2>2, <2>3, <2>4
  <2>6. \A x, y \in L : f[x] = f[y] => x = y
    BY <1>2, <2>1
  <2>7. \A t \in T : \E x \in L : f[x] = t
    <3> SUFFICES ASSUME NEW t \in T
                 PROVE  \E x \in L : f[x] = t
      OBVIOUS
    <3>1. t \in 0 .. K - 1 /\ t < Place(dev, q)
      BY <1>1, <2>3
    <3>2. PICK p \in S : Place(dev, p) = t
      BY <1>2, <3>1
    <3> QED
      BY <2>4, <3>1, <3>2
  <2>8. Cardinality(T) = Place(dev, q)
    BY <2>3, FS_Interval
  <2> HIDE DEF f, T
  <2>9. Cardinality(T) = Cardinality(L)
    BY <2>1, <2>5, <2>6, <2>7, SameSize
  <2> QED
    BY <2>8, <2>9 DEF L
<1>4. phyRankList(dev, r) = list
  BY <1>2 DEF phyRankList, Before, Column
<1> HIDE DEF S, K, Lower
<1>5. \A q \in S : Place(dev, q) \in 0 .. K - 1 /\ list[Place(dev, q) + 1] = q
  <2> SUFFICES ASSUME NEW q \in S
               PROVE  Place(dev, q) \in 0 .. K - 1 /\ list[Place(dev, q) + 1] = q
    OBVIOUS
  <2>1. Place(dev, q) \in 0 .. K - 1
    BY <1>1, <1>2
  <2>2. Place(dev, q) + 1 \in 1 .. K /\ (Place(dev, q) + 1) - 1 = Place(dev, q)
    BY <1>1, <2>1
  <2>3. list[Place(dev, q) + 1] = CHOOSE p \in S : Cardinality(Lower(p)) = (Place(dev, q) + 1) - 1
    BY <2>2
  <2>4. \A p \in S : Cardinality(Lower(p)) = (Place(dev, q) + 1) - 1 <=> p = q
    BY <1>2, <1>3, <2>2
  <2>5. (CHOOSE p \in S : Cardinality(Lower(p)) = (Place(dev, q) + 1) - 1) = q
    BY <2>4
  <2> QED
    BY <2>1, <2>3, <2>5
<1>6. list \in [1 .. K -> S]
  <2> SUFFICES ASSUME NEW j \in 1 .. K
               PROVE  list[j] \in S
    OBVIOUS
  <2>1. j - 1 \in 0 .. K - 1 /\ (j - 1) + 1 = j
    BY <1>1
  <2>2. PICK q \in S : Place(dev, q) = j - 1
    BY <1>2, <2>1
  <2> HIDE DEF list
  <2> QED
    BY <1>5, <2>1, <2>2
<1>7. list \in Seq(DOMAIN dev) /\ Len(list) = K
  <2> HIDE DEF list
  <2> QED
    BY <1>1, <1>2, <1>6, SeqDef
<1> QED
  BY <1>4, <1>5, <1>6, <1>7 DEF S, K

\* The neighbours of r in the ring are the ranks before and after it.
LEMMA Neighbours ==
  ASSUME NEW dev, Placed(dev), NEW r \in DOMAIN dev
  PROVE  LET l == tcclNicRankList(dev, r, phyRankList(dev, r))
             K == RingLen(dev, r) IN
         /\ l.phyRankList = phyRankList(dev, r)
         /\ l.rank_id = rank_id(dev, r)
         /\ l.allCardNum = K /\ l.phyCardRank = Place(dev, r)
         /\ l.phyNextRank \in Column(dev, r) /\ l.phyPrevRank \in Column(dev, r)
         /\ Place(dev, l.phyNextRank) = (Place(dev, r) + 1) % K
         /\ Place(dev, l.phyPrevRank) = (Place(dev, r) + K - 1) % K
<1> DEFINE K == RingLen(dev, r)
           S == Column(dev, r)
           list == phyRankList(dev, r)
           p == Place(dev, r)
           me == CHOOSE j \in 1 .. Len(list) : list[j] = r
           l == tcclNicRankList(dev, r, list)
<1>1. /\ list \in [1 .. K -> S] /\ Len(list) = K
      /\ \A q \in S : list[Place(dev, q) + 1] = q
  BY InList
<1>2. K \in Nat \ {0} /\ p \in 0 .. K - 1
  BY PlaceNumbers
<1>3. r \in S /\ S \subseteq DOMAIN dev
  BY DEF Column
<1>4. \A j \in 0 .. K - 1 : list[j + 1] \in S /\ Place(dev, list[j + 1]) = j
  <2> SUFFICES ASSUME NEW j \in 0 .. K - 1
               PROVE  list[j + 1] \in S /\ Place(dev, list[j + 1]) = j
    OBVIOUS
  <2>1. PICK q \in S : Place(dev, q) = j
    BY Places
  <2> QED
    BY <1>1, <2>1
<1>5. me = p + 1
  <2>1. p + 1 \in 1 .. Len(list) /\ list[p + 1] = r
    BY <1>1, <1>2, <1>3
  <2>2. ASSUME NEW j \in 1 .. Len(list), list[j] = r
        PROVE  j = p + 1
    <3>1. j - 1 \in 0 .. K - 1 /\ (j - 1) + 1 = j
      BY <1>1, <1>2
    <3>2. Place(dev, list[(j - 1) + 1]) = j - 1
      BY <1>4, <3>1
    <3> QED
      BY <2>2, <3>1, <3>2
  <2> HIDE DEF p, list
  <2> QED
    BY <2>1, <2>2
<1>6. /\ l.phyRankList = list /\ l.rank_id = rank_id(dev, r)
      /\ l.allCardNum = K /\ l.phyCardRank = p
      /\ l.phyNextRank = list[(me % Len(list)) + 1]
      /\ l.phyPrevRank = list[((me + Len(list) - 2) % Len(list)) + 1]
  BY DEF tcclNicRankList, RingLen, Place
<1> HIDE DEF K, S, list, p, me, l
<1>7. (p + 1) % K \in 0 .. K - 1 /\ (p + 1 + K - 2) % K \in 0 .. K - 1
  BY <1>2
<1>8. (p + 1 + K - 2) % K = (p + K - 1) % K
  <2>1. p + 1 + K - 2 = p + K - 1
    BY <1>2
  <2> QED
    BY <2>1
<1>9. l.phyNextRank \in S /\ Place(dev, l.phyNextRank) = (p + 1) % K
  BY <1>1, <1>4, <1>5, <1>6, <1>7
<1>10. l.phyPrevRank \in S /\ Place(dev, l.phyPrevRank) = (p + K - 1) % K
  BY <1>1, <1>4, <1>5, <1>6, <1>7, <1>8
<1> QED
  BY <1>6, <1>9, <1>10 DEF K, S, list, p, l

\* The layouts of two neighbours fit together.
LEMMA RingFits ==
  ASSUME NEW dev, Placed(dev), NEW r \in DOMAIN dev
  PROVE  LET l == tcclNicRankList(dev, r, phyRankList(dev, r))
             next == l.phyNextRank
             m == tcclNicRankList(dev, next, phyRankList(dev, next)) IN
         /\ {OnCard(dev, q) : q \in Range(l.phyRankList)} = Cards(dev)
         /\ Len(l.phyRankList) = l.allCardNum
         /\ l.phyRankList[l.phyCardRank + 1] = r
         /\ next \in DOMAIN dev
         /\ m.phyPrevRank = r /\ m.rank_id = l.rank_id
         /\ m.phyCardRank = (l.phyCardRank + 1) % l.allCardNum
         /\ m.phyRankList = l.phyRankList
<1> DEFINE K == RingLen(dev, r)
           S == Column(dev, r)
           list == phyRankList(dev, r)
           l == tcclNicRankList(dev, r, list)
           next == l.phyNextRank
           m == tcclNicRankList(dev, next, phyRankList(dev, next))
<1>1. /\ l.phyRankList = list /\ l.rank_id = rank_id(dev, r)
      /\ l.allCardNum = K /\ l.phyCardRank = Place(dev, r)
      /\ next \in S /\ Place(dev, next) = (Place(dev, r) + 1) % K
  BY Neighbours
<1>2. /\ list \in [1 .. K -> S] /\ Len(list) = K
      /\ \A q \in S : list[Place(dev, q) + 1] = q
  BY InList
<1>3. K \in Nat \ {0} /\ \A q \in DOMAIN dev : Place(dev, q) \in 0 .. K - 1 /\ RingLen(dev, q) = K
  BY PlaceNumbers
<1>4. r \in S /\ S \subseteq DOMAIN dev /\ next \in DOMAIN dev /\ rank_id(dev, next) = rank_id(dev, r)
  BY <1>1 DEF Column
<1>5. Column(dev, next) = S
  BY <1>4 DEF Column
<1>6. phyRankList(dev, next) = list
  <2> HIDE DEF next
  <2>1. rank_id(dev, next) = rank_id(dev, r)
    BY <1>4
  <2> QED
    BY <2>1, SMTT(30) DEF phyRankList
<1>7. /\ m.phyRankList = phyRankList(dev, next) /\ m.rank_id = rank_id(dev, next)
      /\ m.phyCardRank = Place(dev, next)
      /\ m.phyPrevRank \in Column(dev, next)
      /\ Place(dev, m.phyPrevRank) = (Place(dev, next) + RingLen(dev, next) - 1) % RingLen(dev, next)
  <2> HIDE DEF next
  <2> QED
    BY <1>4, Neighbours
<1>8. {OnCard(dev, q) : q \in Range(list)} = Cards(dev)
  <2>1. Range(list) = S
    <3>1. \A q \in S : Place(dev, q) + 1 \in 1 .. K
      BY <1>3, <1>4
    <3> HIDE DEF S, K, list
    <3> QED
      BY <1>2, <3>1 DEF Range
  <2>2. ASSUME NEW p \in DOMAIN dev
        PROVE  \E q \in S : OnCard(dev, q) = OnCard(dev, p)
    <3>1. rank_id(dev, r) \in 0 .. Cardinality(OnCard(dev, r)) - 1
      BY RankIds, SameCard
    <3>2. rank_id(dev, r) \in 0 .. Cardinality(OnCard(dev, p)) - 1
      BY <3>1 DEF Placed, Uniform
    <3>3. PICK q \in OnCard(dev, p) : rank_id(dev, q) = rank_id(dev, r)
      BY <3>2, RankIds
    <3>4. q \in DOMAIN dev /\ OnCard(dev, q) = OnCard(dev, p)
      BY SameCard
    <3> QED
      BY <3>3, <3>4 DEF Column
  <2> HIDE DEF S, list
  <2> QED
    BY <1>4, <2>1, <2>2 DEF Cards
<1>9. m.phyPrevRank = r
  <2> DEFINE p == Place(dev, r)
             n == Place(dev, next)
  <2>1. p \in 0 .. K - 1 /\ n = (p + 1) % K /\ RingLen(dev, next) = K
    BY <1>1, <1>3, <1>4
  <2> HIDE DEF K, p, n
  <2>2. (n + K - 1) % K = p
    <3>1. CASE p + 1 < K
      <4>1. n = p + 1 /\ n + K - 1 = p + K
        BY <1>3, <2>1, <3>1
      <4>2. (p + K) % K = p
        BY <1>3, <2>1
      <4> QED
        BY <4>1, <4>2
    <3>2. CASE p + 1 = K
      <4>1. n = 0
        BY <1>3, <2>1, <3>2
      <4> QED
        BY <1>3, <2>1, <3>2, <4>1
    <3> QED
      BY <1>3, <2>1, <3>1, <3>2
  <2>3. Place(dev, m.phyPrevRank) = Place(dev, r)
    BY <1>7, <2>1, <2>2 DEF n, p
  <2>4. m.phyPrevRank \in S /\ r \in S
    BY <1>4, <1>5, <1>7
  <2> HIDE DEF m
  <2> QED
    BY <2>3, <2>4, Places
<1> HIDE DEF K, S, list, next, m, l
<1>10. /\ {OnCard(dev, q) : q \in Range(l.phyRankList)} = Cards(dev)
       /\ Len(l.phyRankList) = l.allCardNum
       /\ l.phyRankList[l.phyCardRank + 1] = r
  BY <1>1, <1>2, <1>4, <1>8
<1>11. /\ m.phyPrevRank = r /\ m.rank_id = l.rank_id
       /\ m.phyCardRank = (l.phyCardRank + 1) % l.allCardNum
       /\ m.phyRankList = l.phyRankList
  BY <1>1, <1>4, <1>6, <1>7, <1>9
<1> QED
  BY <1>4, <1>10, <1>11 DEF list, l, next, m

\* The rank after the previous one is the rank itself.
LEMMA NextOfPrevious ==
  ASSUME NEW dev, Placed(dev), NEW r \in DOMAIN dev
  PROVE  LET prev == tcclNicRankList(dev, r, phyRankList(dev, r)).phyPrevRank IN
         /\ prev \in DOMAIN dev
         /\ tcclNicRankList(dev, prev, phyRankList(dev, prev)).phyNextRank = r
<1> DEFINE K == RingLen(dev, r)
           S == Column(dev, r)
           prev == tcclNicRankList(dev, r, phyRankList(dev, r)).phyPrevRank
           m == tcclNicRankList(dev, prev, phyRankList(dev, prev))
<1>1. prev \in S /\ Place(dev, prev) = (Place(dev, r) + K - 1) % K
  BY Neighbours
<1>2. K \in Nat \ {0} /\ \A q \in DOMAIN dev : Place(dev, q) \in 0 .. K - 1 /\ RingLen(dev, q) = K
  BY PlaceNumbers
<1>3. r \in S /\ prev \in DOMAIN dev /\ rank_id(dev, prev) = rank_id(dev, r)
  BY <1>1 DEF Column
<1>4. Column(dev, prev) = S
  BY <1>3 DEF Column
<1>5. m.phyNextRank \in S /\ Place(dev, m.phyNextRank) = (Place(dev, prev) + 1) % RingLen(dev, prev)
  <2> HIDE DEF prev, S
  <2> QED
    BY <1>3, <1>4, Neighbours
<1> DEFINE p == Place(dev, r)
           n == Place(dev, prev)
<1>6. p \in 0 .. K - 1 /\ n = (p + K - 1) % K /\ RingLen(dev, prev) = K
  BY <1>1, <1>2, <1>3
<1>7. Place(dev, m.phyNextRank) = (n + 1) % K
  BY <1>5, <1>6
<1> HIDE DEF K, p, n
<1>8. (n + 1) % K = p
  <2>1. CASE p = 0
    <3>1. n = K - 1
      BY <1>2, <1>6, <2>1
    <3> QED
      BY <1>2, <2>1, <3>1
  <2>2. CASE p > 0
    <3>1. p - 1 \in 0 .. K - 1 /\ p + K - 1 = (p - 1) + K
      BY <1>2, <1>6, <2>2
    <3>2. ((p - 1) + K) % K = p - 1
      BY <1>2, <3>1
    <3>3. n + 1 = p /\ p \in 0 .. K - 1
      BY <1>2, <1>6, <3>1, <3>2
    <3> QED
      BY <1>2, <3>3
  <2> QED
    BY <1>2, <1>6, <2>1, <2>2
<1>9. Place(dev, m.phyNextRank) = Place(dev, r)
  BY <1>7, <1>8 DEF p
<1>10. m.phyNextRank = r
  <2> HIDE DEF m
  <2> QED
    BY <1>3, <1>5, <1>9, Places
<1> QED
  BY <1>3, <1>10

-----------------------------------------------------------------------------
(* How many ranks there are, and which.                                    *)

LEMMA GridSize ==
  ASSUME NEW n \in Nat, NEW m \in Nat
  PROVE  Cardinality((0 .. n - 1) \X (0 .. m - 1)) = n * m
<1>1. IsFiniteSet(0 .. n - 1) /\ Cardinality(0 .. n - 1) = n
  BY FS_Interval
<1>2. IsFiniteSet(0 .. m - 1) /\ Cardinality(0 .. m - 1) = m
  BY FS_Interval
<1> DEFINE S == 0 .. n - 1
           T == 0 .. m - 1
<1> HIDE DEF S, T
<1>3. Cardinality(S \X T) = Cardinality(S) * Cardinality(T)
  BY <1>1, <1>2, FS_Product DEF S, T
<1> QED
  BY <1>1, <1>2, <1>3 DEF S, T

\* A node has as many ranks as its cards have together.
LEMMA NodeSize ==
  ASSUME NEW dev, Placed(dev), NEW r \in DOMAIN dev
  PROVE  LET C == Cardinality(CardsOfNode(dev, r))
             R == Cardinality(OnCard(dev, r)) IN
         /\ C \in Nat \ {0} /\ R \in Nat \ {0} /\ C * R \in Nat \ {0}
         /\ Cardinality(OnNode(dev, r)) = C * R
<1> DEFINE C == Cardinality(CardsOfNode(dev, r))
           R == Cardinality(OnCard(dev, r))
           S == OnNode(dev, r)
           T == (0 .. C - 1) \X (0 .. R - 1)
           f == [q \in S |-> <<card_id(dev, q), rank_id(dev, q)>>]
<1>1. C \in Nat \ {0}
  BY CardIds
<1>2. R \in Nat \ {0}
  <2>1. r \in OnCard(dev, r) /\ IsFiniteSet(OnCard(dev, r))
    BY SameCard
  <2> QED
    BY <2>1, FS_EmptySet, FS_CardinalityType
<1>3. /\ S \subseteq DOMAIN dev /\ IsFiniteSet(S)
      /\ \A q \in S : OnNode(dev, q) = S
  BY SameCard
<1>4. \A q \in DOMAIN dev : Cardinality(OnCard(dev, q)) = R
  BY DEF Placed, Uniform
<1>5. \A q \in DOMAIN dev : q \in OnCard(dev, q)
  BY SameCard
<1>6. ASSUME NEW q \in S
      PROVE  card_id(dev, q) \in 0 .. C - 1 /\ rank_id(dev, q) \in 0 .. R - 1
  BY <1>3, <1>4, <1>5, CardIds, RankIds
<1>7. ASSUME NEW p \in S, NEW q \in S, card_id(dev, p) = card_id(dev, q),
             rank_id(dev, p) = rank_id(dev, q)
      PROVE  p = q
  <2>1. OnCard(dev, p) = OnCard(dev, q)
    BY <1>7, CardIds
  <2>2. q \in DOMAIN dev /\ p \in OnCard(dev, q) /\ q \in OnCard(dev, q)
    BY <1>3, <1>5, <2>1
  <2> QED
    BY <1>7, <2>2, RankIds
<1>8. ASSUME NEW i \in 0 .. C - 1, NEW j \in 0 .. R - 1
      PROVE  \E q \in S : card_id(dev, q) = i /\ rank_id(dev, q) = j
  <2>1. PICK b \in S : card_id(dev, b) = i
    BY CardIds
  <2>2. b \in DOMAIN dev /\ j \in 0 .. Cardinality(OnCard(dev, b)) - 1
    BY <1>3, <1>4
  <2>3. PICK q \in OnCard(dev, b) : rank_id(dev, q) = j
    BY <2>2, RankIds
  <2>4. q \in OnNode(dev, b) /\ OnCard(dev, q) = OnCard(dev, b)
    BY <2>2, SameCard
  <2>5. q \in S
    BY <1>3, <2>4
  <2>6. card_id(dev, q) = card_id(dev, b)
    BY <2>4, <2>5, CardIds
  <2> QED
    BY <2>1, <2>3, <2>5, <2>6
<1>9. Cardinality(T) = C * R
  <2> HIDE DEF C, R
  <2> QED
    BY <1>1, <1>2, GridSize
<1>10. f \in [S -> T] /\ \A x, y \in S : f[x] = f[y] => x = y
  BY <1>6, <1>7
<1>11. \A t \in T : \E x \in S : f[x] = t
  BY <1>8
<1> HIDE DEF S, T, f
<1>12. Cardinality(T) = Cardinality(S)
  BY <1>3, <1>10, <1>11, SameSize
<1> HIDE DEF C, R
<1>13. C * R \in Nat \ {0}
  BY <1>1, <1>2
<1> QED
  BY <1>1, <1>2, <1>9, <1>12, <1>13 DEF C, R, S

\* The communicator has as many ranks as all its cards have together.
LEMMA AllSize ==
  ASSUME NEW dev, Placed(dev), NEW r \in DOMAIN dev
  PROVE  Cardinality(DOMAIN dev) = RingLen(dev, r) * Cardinality(OnCard(dev, r))
<1> DEFINE K == RingLen(dev, r)
           R == Cardinality(OnCard(dev, r))
           S == DOMAIN dev
           T == (0 .. K - 1) \X (0 .. R - 1)
           f == [q \in S |-> <<Place(dev, q), rank_id(dev, q)>>]
<1>1. K \in Nat \ {0} /\ R \in Nat \ {0}
  BY PlaceNumbers, NodeSize
<1>2. IsFiniteSet(S)
  BY DEF Placed
<1>3. \A q \in S : Cardinality(OnCard(dev, q)) = R
  BY DEF Placed, Uniform
<1>4. \A q \in S : q \in OnCard(dev, q) /\ RingLen(dev, q) = K
  BY SameCard, PlaceNumbers
<1>5. ASSUME NEW q \in S
      PROVE  Place(dev, q) \in 0 .. K - 1 /\ rank_id(dev, q) \in 0 .. R - 1
  BY <1>3, <1>4, PlaceNumbers, RankIds
<1>6. ASSUME NEW p \in S, NEW q \in S, Place(dev, p) = Place(dev, q),
             rank_id(dev, p) = rank_id(dev, q)
      PROVE  p = q
  <2>1. p \in Column(dev, q) /\ q \in Column(dev, q)
    BY <1>6 DEF Column
  <2> QED
    BY <1>6, <2>1, Places
<1>7. ASSUME NEW i \in 0 .. K - 1, NEW j \in 0 .. R - 1
      PROVE  \E q \in S : Place(dev, q) = i /\ rank_id(dev, q) = j
  <2>1. PICK b \in OnCard(dev, r) : rank_id(dev, b) = j
    BY RankIds
  <2>2. b \in S
    BY SameCard
  <2>3. i \in 0 .. RingLen(dev, b) - 1
    BY <1>4, <2>2
  <2>4. PICK q \in Column(dev, b) : Place(dev, q) = i
    BY <2>2, <2>3, Places
  <2> QED
    BY <2>1, <2>4 DEF Column
<1>8. Cardinality(T) = K * R
  <2> HIDE DEF K, R
  <2> QED
    BY <1>1, GridSize
<1>9. f \in [S -> T] /\ \A x, y \in S : f[x] = f[y] => x = y
  BY <1>5, <1>6
<1>10. \A t \in T : \E x \in S : f[x] = t
  BY <1>7
<1> HIDE DEF S, T, f
<1>11. Cardinality(T) = Cardinality(S)
  BY <1>2, <1>9, <1>10, SameSize
<1> QED
  BY <1>8, <1>11 DEF S

\* Ranks started node by node: those of node k are the k-th block of ranks.
LEMMA NodeBlocks ==
  ASSUME NEW dev, Placed(dev), NodeByNode(dev), NEW r \in DOMAIN dev
  PROVE  LET m == Cardinality(OnNode(dev, r)) IN
         OnNode(dev, r) = (node_id(dev, r) * m) .. (node_id(dev, r) * m) + m - 1
<1> DEFINE D == DOMAIN dev
           m == Cardinality(OnNode(dev, r))
           first(q) == Min(OnNode(dev, q))
<1>1. \A q \in D : Cardinality(OnNode(dev, q)) = m
  <2>1. \A q \in D : /\ Cardinality(OnCard(dev, q)) = Cardinality(OnCard(dev, r))
                     /\ Cardinality(CardsOfNode(dev, q)) = Cardinality(CardsOfNode(dev, r))
    BY DEF Placed, Uniform
  <2> QED
    BY <2>1, NodeSize
<1>2. m \in Nat \ {0}
  BY NodeSize
<1>3. D \subseteq Nat /\ \A q \in D, p \in Nat : p < q => p \in D
  <2>1. IsFiniteSet(D) /\ D = 0 .. Cardinality(D) - 1
    BY DEF Placed
  <2>2. Cardinality(D) \in Nat
    BY <2>1, FS_CardinalityType
  <2> QED
    BY <2>1, <2>2
<1>4. \A q \in D : q \in OnNode(dev, q)
  BY SameCard
<1>5. ASSUME NEW q \in D
      PROVE  /\ first(q) \in OnNode(dev, q) /\ first(q) \in D
             /\ \A p \in OnNode(dev, q) : first(q) <= p
  <2>1. q \in OnNode(dev, q) /\ OnNode(dev, q) \subseteq D
    BY SameCard
  <2> QED
    BY <1>3, <2>1, LeastOf
<1>6. ASSUME NEW q \in D
      PROVE  OnNode(dev, q) = first(q) .. first(q) + m - 1
  <2> DEFINE S == OnNode(dev, q)
             f == [p \in S |-> p]
             number == [p \in S |-> p - first(q)]
  <2>1. S \subseteq Nat /\ IsFiniteSet(S) /\ first(q) \in S /\ \A p \in S : first(q) <= p
    <3>1. S \subseteq D /\ IsFiniteSet(S)
      BY SameCard
    <3> QED
      BY <1>3, <1>5, <3>1
  <2>2. \A p \in S : first(q) .. p \subseteq S
    <3> SUFFICES ASSUME NEW p \in S, NEW x \in first(q) .. p
                 PROVE  x \in S
      OBVIOUS
    <3>1. p \in D /\ dev[p].ip = dev[q].ip /\ first(q) \in D /\ dev[first(q)].ip = dev[q].ip
      BY <1>5 DEF OnNode
    <3>2. first(q) \in Nat /\ p \in Nat
      BY <1>3, <3>1
    <3>3. x \in D
      <4>1. x \in Nat /\ (x < p \/ x = p)
        BY <3>2
      <4> QED
        BY <1>3, <3>1, <4>1
    <3>4. dev[x].ip = dev[first(q)].ip
      <4>1. CASE first(q) < p
        <5>1. \A y \in first(q) .. p : dev[y].ip = dev[first(q)].ip
          BY <3>1, <4>1 DEF NodeByNode
        <5> QED
          BY <5>1
      <4>2. CASE first(q) = p
        <5>1. x = p
          BY <3>2, <4>2
        <5> QED
          BY <4>2, <5>1
      <4> QED
        BY <2>1, <3>2, <4>1, <4>2
    <3> QED
      BY <3>1, <3>3, <3>4 DEF OnNode
  <2> HIDE DEF S
  <2>3. f \in [S -> Int] /\ \A x, y \in S : f[x] = f[y] => x = y
    BY <2>1
  <2>4. \A x \in S : \E T \in SUBSET S : /\ number[x] = Cardinality(T)
                                         /\ \A y \in S : y \in T <=> f[y] < f[x]
    <3> SUFFICES ASSUME NEW x \in S
                 PROVE  \E T \in SUBSET S : /\ number[x] = Cardinality(T)
                                            /\ \A y \in S : y \in T <=> f[y] < f[x]
      OBVIOUS
    <3> DEFINE a == first(q)
               T == a .. x - 1
    <3>1. a \in Nat /\ x \in Nat /\ a <= x /\ number[x] = x - a
      BY <2>1
    <3> HIDE DEF a
    <3>2. T \subseteq S
      <4>1. T \subseteq a .. x
        BY <3>1
      <4> QED
        BY <2>2, <4>1 DEF a
    <3>3. Cardinality(T) = x - a
      <4>1. x - 1 \in Int
        BY <3>1
      <4>2. Cardinality(a .. x - 1) = IF a > x - 1 THEN 0 ELSE (x - 1) - a + 1
        BY <3>1, <4>1, FS_Interval
      <4> QED
        BY <3>1, <4>2
    <3>4. \A y \in S : y \in T <=> f[y] < f[x]
      <4> SUFFICES ASSUME NEW y \in S
                   PROVE  y \in T <=> f[y] < f[x]
        OBVIOUS
      <4>1. y \in Nat /\ a <= y /\ f[y] = y /\ f[x] = x
        BY <2>1 DEF a
      <4> QED
        BY <3>1, <4>1
    <3> QED
      BY <3>1, <3>2, <3>3, <3>4
  <2> HIDE DEF f, number
  <2>5. /\ \A x \in S : number[x] \in 0 .. Cardinality(S) - 1
        /\ \A j \in 0 .. Cardinality(S) - 1 : \E x \in S : number[x] = j
    <3>1. IsFiniteSet(S)
      BY <2>1
    <3> HIDE DEF m, first
    <3> QED
      BY <3>1, <2>3, <2>4, Counted
  <2>6. Cardinality(S) = m
    <3> HIDE DEF m
    <3> QED
      BY <1>1 DEF S
  <2>7. \A x \in S : number[x] = x - first(q) /\ x \in Int /\ first(q) \in Int
    <3>1. \A x \in S : number[x] = x - first(q)
      BY DEF number
    <3>2. \A x \in S : x \in Int
      BY <2>1
    <3>3. first(q) \in Int
      BY <1>3, <1>5
    <3> QED
      BY <3>1, <3>2, <3>3
  <2>8. \A x \in S : x \in first(q) .. first(q) + m - 1
    <3> SUFFICES ASSUME NEW x \in S
                 PROVE  x \in first(q) .. first(q) + m - 1
      OBVIOUS
    <3> HIDE DEF m, first
    <3>1. x - first(q) \in 0 .. m - 1
      BY <2>5, <2>6, <2>7
    <3> QED
      BY <1>2, <2>7, <3>1
  <2>9. \A y \in first(q) .. first(q) + m - 1 : y \in S
    <3> SUFFICES ASSUME NEW y \in first(q) .. first(q) + m - 1
                 PROVE  y \in S
      OBVIOUS
    <3> HIDE DEF m, first
    <3>1. first(q) \in Nat
      BY <2>1
    <3>2. y - first(q) \in 0 .. m - 1 /\ y \in Int
      BY <1>2, <3>1
    <3>3. PICK x \in S : number[x] = y - first(q)
      BY <2>5, <2>6, <3>2
    <3>4. x - first(q) = y - first(q) /\ x \in Int
      BY <2>7, <3>3
    <3>5. x = y
      BY <3>1, <3>2, <3>4
    <3> QED
      BY <3>5
  <2> QED
    BY <2>8, <2>9 DEF S
<1>7. first(r) = node_id(dev, r) * m
  <2> DEFINE k == node_id(dev, r)
             S == {p \in D : node_id(dev, p) < k}
             T == (0 .. k - 1) \X (0 .. m - 1)
             f == [p \in S |-> <<node_id(dev, p), p - first(p)>>]
  <2>1. k \in 0 .. Cardinality(Nodes(dev)) - 1 /\ Cardinality(Nodes(dev)) \in Nat
    BY NodeIds
  <2>2. \A p \in D : node_id(dev, p) \in Nat /\ p \in Nat /\ first(p) \in Nat
    <3>1. \A p \in D : node_id(dev, p) \in 0 .. Cardinality(Nodes(dev)) - 1
      BY NodeIds
    <3>2. \A p \in D : first(p) \in D
      BY <1>5
    <3> QED
      BY <1>3, <2>1, <3>1, <3>2
  <2>3. \A p \in D : p - first(p) \in 0 .. m - 1
    <3> SUFFICES ASSUME NEW p \in D
                 PROVE  p - first(p) \in 0 .. m - 1
      OBVIOUS
    <3>1. p \in first(p) .. first(p) + m - 1
      BY <1>4, <1>6
    <3>2. first(p) \in Nat /\ p \in Nat
      BY <2>2
    <3> HIDE DEF m, first
    <3> QED
      BY <1>2, <3>1, <3>2
  <2>4. \A p, q \in D : node_id(dev, p) = node_id(dev, q) => first(p) = first(q)
    BY NodeIds
  <2>5. S = 0 .. first(r) - 1
    <3>1. \A p \in D : node_id(dev, p) < k <=> first(p) < first(r)
      BY NodeIds
    <3>2. ASSUME NEW p \in D, first(p) < first(r)
          PROVE  p < first(r)
      <4> SUFFICES ASSUME ~ (p < first(r))
                   PROVE  FALSE
        OBVIOUS
      <4>1. p \in Nat /\ first(p) \in Nat /\ first(r) \in Nat
        BY <2>2
      <4>2. first(r) \in first(p) .. p
        <5> HIDE DEF first
        <5> QED
          BY <3>2, <4>1
      <4>3. p \in OnNode(dev, p) /\ OnNode(dev, p) = first(p) .. first(p) + m - 1
        BY <1>4, <1>6
      <4>4. first(r) \in OnNode(dev, p)
        <5> HIDE DEF first, m
        <5> QED
          BY <1>2, <4>1, <4>2, <4>3
      <4>5. OnNode(dev, first(r)) = OnNode(dev, p)
        BY <4>4, SameCard
      <4>6. OnNode(dev, first(r)) = OnNode(dev, r)
        <5>1. first(r) \in OnNode(dev, r)
          BY <1>5
        <5> QED
          BY <5>1, SameCard
      <4>7. first(p) = first(r)
        BY <4>5, <4>6
      <4> QED
        BY <3>2, <4>1, <4>7
    <3>3. ASSUME NEW p \in D, p < first(r)
          PROVE  first(p) < first(r)
      <4>1. first(p) <= p
        BY <1>4, <1>5
      <4>2. p \in Nat /\ first(p) \in Nat /\ first(r) \in Nat
        BY <2>2
      <4> QED
        BY <3>3, <4>1, <4>2
    <3>4. \A p \in 0 .. first(r) - 1 : p \in D /\ p < first(r)
      <4> SUFFICES ASSUME NEW p \in 0 .. first(r) - 1
                   PROVE  p \in D /\ p < first(r)
        OBVIOUS
      <4>1. first(r) \in Nat /\ first(r) \in D
        BY <1>5, <2>2
      <4>2. p \in Nat /\ p < first(r)
        BY <4>1
      <4> QED
        BY <1>3, <4>1, <4>2
    <3>5. \A p \in S : p \in 0 .. first(r) - 1
      <4> SUFFICES ASSUME NEW p \in S
                   PROVE  p \in 0 .. first(r) - 1
        OBVIOUS
      <4>1. p \in D /\ p < first(r)
        BY <3>1, <3>2
      <4>2. p \in Nat /\ first(r) \in Nat
        BY <2>2, <4>1
      <4> HIDE DEF first
      <4> QED
        BY <4>1, <4>2
    <3> QED
      BY <3>1, <3>3, <3>4, <3>5
  <2>6. \A x \in S : f[x] \in T
    <3> SUFFICES ASSUME NEW x \in S
                 PROVE  <<node_id(dev, x), x - first(x)>> \in T
      OBVIOUS
    <3>1. node_id(dev, x) \in 0 .. k - 1
      <4>1. node_id(dev, x) \in Nat /\ k \in Nat /\ node_id(dev, x) < k
        BY <2>1, <2>2
      <4> QED
        BY <4>1
    <3> QED
      BY <2>3, <3>1
  <2>7. \A x, y \in S : f[x] = f[y] => x = y
    <3> SUFFICES ASSUME NEW x \in S, NEW y \in S, f[x] = f[y]
                 PROVE  x = y
      OBVIOUS
    <3>1. node_id(dev, x) = node_id(dev, y) /\ x - first(x) = y - first(y)
      OBVIOUS
    <3>2. first(x) = first(y) /\ x \in Nat /\ y \in Nat /\ first(x) \in Nat
      BY <2>2, <2>4, <3>1
    <3> HIDE DEF first
    <3> QED
      BY <3>1, <3>2
  <2>8. \A t \in T : \E x \in S : f[x] = t
    <3> SUFFICES ASSUME NEW t \in T
                 PROVE  \E x \in S : f[x] = t
      OBVIOUS
    <3>0. PICK i \in 0 .. k - 1, j \in 0 .. m - 1 : t = <<i, j>>
      OBVIOUS
    <3>1. i \in 0 .. Cardinality(Nodes(dev)) - 1 /\ i < k
      BY <2>1
    <3>2. PICK q \in D : node_id(dev, q) = i
      BY <3>1, NodeIds
    <3> DEFINE x == first(q) + j
    <3>3. first(q) \in Nat /\ j \in Nat
      BY <1>2, <2>2
    <3>4. x \in OnNode(dev, q)
      <4>1. x \in first(q) .. first(q) + m - 1
        <5> HIDE DEF first, m
        <5> QED
          BY <1>2, <3>3
      <4> QED
        BY <1>6, <4>1
    <3>5. x \in D /\ OnNode(dev, x) = OnNode(dev, q)
      BY <3>4, SameCard
    <3>6. node_id(dev, x) = i /\ first(x) = first(q)
      BY <3>2, <3>5, NodeIds
    <3>7. x - first(x) = j
      BY <3>3, <3>6
    <3>8. x \in S
      BY <3>1, <3>5, <3>6
    <3> QED
      BY <3>0, <3>6, <3>7, <3>8
  <2>9. Cardinality(T) = k * m
    <3>1. k \in Nat
      BY <2>1
    <3> HIDE DEF k, m
    <3> QED
      BY <1>2, <3>1, GridSize
  <2>10. IsFiniteSet(S) /\ Cardinality(S) = first(r)
    <3>1. first(r) \in Nat
      BY <2>2
    <3> HIDE DEF S, first
    <3> QED
      BY <2>5, <3>1, FS_Interval
  <2>11. f \in [S -> T]
    BY <2>6
  <2> HIDE DEF S, T, f
  <2>12. Cardinality(T) = Cardinality(S)
    BY <2>7, <2>8, <2>10, <2>11, SameSize
  <2> QED
    BY <2>9, <2>10, <2>12
<1> QED
  BY <1>6, <1>7

\* The next rank of the ring of a node is a rank of the node.
LEMMA NextOnNode ==
  ASSUME NEW dev, Placed(dev), NodeByNode(dev), NEW r \in DOMAIN dev
  PROVE  tcclNicRankList(dev, r, phyRankList(dev, r)).nodenext \in OnNode(dev, r)
<1> DEFINE C == Cardinality(CardsOfNode(dev, r))
           R == Cardinality(OnCard(dev, r))
           m == C * R
           k == node_id(dev, r)
<1>1. m \in Nat \ {0} /\ Cardinality(OnNode(dev, r)) = m
  BY NodeSize
<1>2. OnNode(dev, r) = (k * m) .. (k * m) + m - 1
  BY <1>1, NodeBlocks
<1>3. k \in Nat
  <2>1. k \in 0 .. Cardinality(Nodes(dev)) - 1 /\ Cardinality(Nodes(dev)) \in Nat
    BY NodeIds
  <2> QED
    BY <2>1
<1>4. tcclNicRankList(dev, r, phyRankList(dev, r)).nodenext = nodenext(r, m, k)
  BY DEF tcclNicRankList
<1>5. nodenext(r, m, k) = ((r + 1) % m) + (k * m)
  BY DEF nodenext
<1>6. r \in Nat
  BY SameCard
<1> HIDE DEF m, k
<1>7. (r + 1) % m \in 0 .. m - 1 /\ k * m \in Nat
  BY <1>1, <1>3, <1>6
<1> DEFINE x == (r + 1) % m
           y == k * m
<1>8. x \in 0 .. m - 1 /\ y \in Nat
  BY <1>7
<1> HIDE DEF x, y
<1>9. x + y \in y .. y + m - 1
  BY <1>1, <1>8
<1> QED
  BY <1>2, <1>4, <1>5, <1>9 DEF x, y
=============================================================================
