----------------------------- MODULE SharpProofs ----------------------------
(***************************************************************************)
(* Proofs about Sharp, for any number of nodes, ranks, communicators and   *)
(* reductions, without Overlap.                                            *)
(*                                                                         *)
(* The nodes proceed in rounds, and the allreduce of the SHARP library     *)
(* keeps them together: of the reductions that two nodes have ended, one   *)
(* has at most one more (RoundInv), and the other is about to end it.  A   *)
(* node that has been told what to reduce in a round was told the same as  *)
(* the others (PickInv), but only its communicator and rank: which of the  *)
(* reductions of that rank it is, each node reads from its own map.  That  *)
(* these agree follows from what the nodes have reduced so far: the same   *)
(* (TogetherInv), which is exactly what the streams of the rank have seen  *)
(* to be done, on each node (ReducedInv), and streams take their           *)
(* reductions in order (QueueInv).                                         *)
(*                                                                         *)
(* That a node takes what it is told (RecvInfo) needs that it has taken in *)
(* the communicator.  Without Overlap a queue holds reductions of the last *)
(* communicator of its rank only (QuietInv), and no rank is past the       *)
(* barrier of a communicator that another has not come to (EnterInv): what *)
(* two nodes find to be due is of the same communicator.                   *)
(***************************************************************************)
EXTENDS Sharp, SequenceTheorems, TLAPS

-----------------------------------------------------------------------------
(* The inductive invariant.                                                *)

Statuses == {ZERO, "COMM", "FREE", "INIT", "WORK"}
TypeOK ==
  /\ pc \in [Ranks -> {"exist", "flag", "memset", "create", "addr", "barrier", "waitfree",
                       "setinit", "waitinit", "barriernode", "queued"}]
  /\ comm \in [Ranks -> Comms]
  /\ shmExists \in BOOLEAN
  /\ ring \in [Ranks -> Seq({0, 1})]
  /\ initflag \in [Ranks -> {0, 1}]
  /\ entered \in [Ranks -> Nat]
  /\ ctl \in [Nodes -> [status : Statuses, commport : 0 .. NumComms]]
  /\ map \in [Nodes -> [Comms -> [RankNos -> [status : {ZERO, "FREE", "WORK"},
                                              reduction : 0 .. NumReductions]]]]
  /\ queue \in [Ranks -> Seq(Comms \X (1 .. NumReductions))]
  /\ spc \in [Ranks -> {"idle", "free", "work"}]
  /\ thread \in [Nodes -> {"none", "poll", "init", "found", "bcast", "waitwork", "reduce",
                           "free", "freenode"}]
  /\ round \in [Nodes -> Nat]
  /\ sharpMap \in [Nodes -> Seq(Comms)]
  /\ pick \in [Nodes -> (0 .. NumComms) \X RankNos]
  /\ info \in (0 .. NumComms) \X RankNos
  /\ reduced \in [Nodes -> SUBSET (Comms \X RankNos \X (0 .. NumReductions))]

\* The flag of the election is in the ring or in the hands of ranks of one
\* number only, and there is none before the file has been made.
Pending(r) == \E k \in 1 .. Len(ring[r]) : ring[r][k] = 1
Flagged(i) == \E n \in Nodes : initflag[<<n, i>>] = 1 \/ Pending(<<n, i>>)
ElectInv ==
  /\ \A i \in RankNos : Flagged(i) => shmExists
  /\ \A i, j \in RankNos : Flagged(i) /\ Flagged(j) => i = j

\* Only an elected rank starts a thread, and each at most one.
Early == {"exist", "flag", "memset"}
StartInv ==
  /\ \A r \in Ranks : pc[r] \in {"exist", "flag"} => initflag[r] = 0
  /\ \A r \in Ranks : pc[r] = "memset" => initflag[r] = 1
  /\ \A n \in Nodes : thread[n] # "none" =>
       \E i \in RankNos : initflag[<<n, i>>] = 1 /\ pc[<<n, i>>] \notin Early

\* The barriers a host has entered: two for each communicator it has created,
\* and those of the one it is creating.  All hosts have come to the first
\* barrier of a communicator when one has left it.
Entered(r) ==
  2 * (comm[r] - 1) + (IF pc[r] \in Early \cup {"create", "addr"} THEN 0
                       ELSE IF pc[r] \in {"barriernode", "queued"} THEN 2 ELSE 1)
Left == {"waitfree", "setinit", "waitinit", "barriernode", "queued"}
EnterInv ==
  /\ \A r \in Ranks : entered[r] = Entered(r)
  /\ \A r, q \in Ranks : pc[r] \in Left => entered[q] >= 2 * comm[r] - 1

\* Nothing is queued while a rank creates a communicator.
QuietInv ==
  \A r \in Ranks :
    /\ \A k \in 1 .. Len(queue[r]) : queue[r][k][1] = comm[r]
    /\ queue[r] # <<>> => pc[r] = "queued"

\* The reductions a node has ended: of the rounds it has begun, all but the
\* one it is in.
Ending(n) == thread[n] \in {"bcast", "waitwork", "reduce"}
Ended(n) == IF Ending(n) THEN round[n] - 1 ELSE round[n]
RoundInv ==
  /\ thread[0] \notin {"bcast", "waitwork"}
  /\ \A n \in Nodes : Ending(n) => round[n] # 0
  /\ \A m, n \in Nodes : /\ Ended(m) <= Ended(n) + 1
                         /\ Ended(m) = Ended(n) + 1 => thread[n] = "reduce"

\* Nodes that have been told what to reduce in a round were told the same.
Told(n) == thread[n] \in {"waitwork", "reduce", "free", "freenode"}
ToldInv ==
  /\ \A n \in Nodes : thread[n] \in {"found", "bcast"} \/ Told(n) => pick[n][1] \in Comms
  /\ thread[0] = "reduce" => info = pick[0]
  /\ \A n \in Nodes : Told(n) => round[n] <= round[0]
  /\ \A m, n \in Nodes : Told(m) /\ Told(n) /\ round[m] = round[n] => pick[m] = pick[n]
PickInv ==
  /\ \A n \in Nodes : ctl[n].status = "INIT" => ctl[n].commport \in Comms
  /\ ToldInv

\* A stream has the reductions in the order in which they were queued.
Created(r, x) == x[1] < comm[r] \/ (x[1] = comm[r] /\ pc[r] = "queued")
Before(x, y) == x[1] < y[1] \/ (x[1] = y[1] /\ x[2] < y[2])
QueueInv ==
  \A r \in Ranks :
    /\ \A k \in 1 .. Len(queue[r]) : Created(r, queue[r][k])
    /\ \A k, l \in 1 .. Len(queue[r]) : k < l => Before(queue[r][k], queue[r][l])

\* Status words and streams.
TakenInv ==
  \A n \in Nodes, c \in Comms, i \in RankNos : map[n][c][i].status # ZERO => Taken(n, c)
WorkInv ==
  \A n \in Nodes, c \in Comms, i \in RankNos :
    map[n][c][i].status = "WORK" => spc[<<n, i>>] = "work" /\ Head(queue[<<n, i>>])[1] = c
EntryInv ==
  \A r \in Ranks :
    /\ spc[r] # "idle" => queue[r] # <<>> /\ Entry(r).reduction = Head(queue[r])[2]
    /\ spc[r] = "work" => Entry(r).status # ZERO
DueInv == \A n \in Nodes : thread[n] \in {"found", "bcast", "reduce", "free"} => Picked(n).status = "WORK"
MapInv == TakenInv /\ WorkInv /\ EntryInv /\ DueInv

\* A node has reduced what its ranks know to be done, and the reductions of
\* those that are about to be told.
HeadDone(r) ==
  /\ spc[r] = "work"
  /\ \/ Entry(r).status = "FREE"
     \/ /\ thread[node_id(r)] = "free"
        /\ pick[node_id(r)] = <<Head(queue[r])[1], rank_no(r)>>
ReducedInv ==
  \A n \in Nodes, i \in RankNos, c \in Comms, k \in 1 .. NumReductions :
    <<c, i, k>> \in reduced[n] <=>
      \/ <<c, k>> \in Returned(<<n, i>>)
      \/ HeadDone(<<n, i>>) /\ Head(queue[<<n, i>>]) = <<c, k>>

\* Nodes that have ended as many reductions have ended the same ones.
TogetherInv ==
  \A m, n \in Nodes :
    /\ Ended(m) = Ended(n) => reduced[m] = reduced[n]
    /\ Ended(m) = Ended(n) + 1 => reduced[m] = reduced[n] \cup {Reduction(n)}

-----------------------------------------------------------------------------
(* Ranks, and how the actions change functions.                            *)

\* A rank is a node and a number.
LEMMA RankPair ==
  ASSUME NEW r \in Ranks
  PROVE  r = <<node_id(r), rank_no(r)>> /\ node_id(r) \in Nodes /\ rank_no(r) \in RankNos
BY DEF Ranks, node_id, rank_no

\* Node 0 exists, and numbers are integers.
LEMMA NodeZero == 0 \in Nodes /\ Nodes \subseteq Nat /\ RankNos \subseteq Nat /\ Comms \subseteq Nat
BY SizesAssumption DEF Nodes, RankNos, Comms

\* The next rank around the ring of a number is another one.
LEMMA NextRank ==
  ASSUME NEW r \in Ranks
  PROVE  SharpNext(r) \in Ranks /\ SharpNext(r) # r /\ rank_no(SharpNext(r)) = rank_no(r)
<1>1. PICK n \in Nodes, i \in RankNos : r = <<n, i>>
  BY DEF Ranks
<1>2. (n + 1) % node_num \in Nodes /\ (n + 1) % node_num # n
  <2>1. CASE n + 1 = node_num
    BY <2>1, SizesAssumption DEF Nodes
  <2>2. CASE n + 1 < node_num
    BY <2>2, SizesAssumption DEF Nodes
  <2> QED
    BY <2>1, <2>2, SizesAssumption DEF Nodes
<1> QED
  BY <1>1, <1>2 DEF SharpNext, Ranks, node_id, rank_no

\* Setting one entry of the maps leaves the others alone.
LEMMA EntrySet ==
  ASSUME TypeOK, NEW n \in Nodes, NEW c \in Comms, NEW i \in RankNos, NEW e,
         SetEntry(n, c, i, e)
  PROVE  \A m \in Nodes, d \in Comms, j \in RankNos :
           map'[m][d][j] = IF m = n /\ d = c /\ j = i THEN e ELSE map[m][d][j]
<1>1. map \in [Nodes -> [Comms -> [RankNos -> [status : {ZERO, "FREE", "WORK"},
                                              reduction : 0 .. NumReductions]]]]
  BY DEF TypeOK
<1>2. map' = [map EXCEPT ![n] = [map[n] EXCEPT ![c] = [map[n][c] EXCEPT ![i] = e]]]
  BY <1>1 DEF SetEntry
<1>3. TAKE m \in Nodes, d \in Comms, j \in RankNos
<1>4. map'[m] = IF m = n THEN [map[n] EXCEPT ![c] = [map[n][c] EXCEPT ![i] = e]] ELSE map[m]
  BY <1>1, <1>2
<1>5. map[n] \in [Comms -> [RankNos -> [status : {ZERO, "FREE", "WORK"},
                                       reduction : 0 .. NumReductions]]]
  BY <1>1
<1>6. map[n][c] \in [RankNos -> [status : {ZERO, "FREE", "WORK"}, reduction : 0 .. NumReductions]]
  BY <1>5
<1> QED
  BY <1>4, <1>5, <1>6

\* The status of a node is one word of its control block.
LEMMA StatusSet ==
  ASSUME TypeOK, NEW n \in Nodes, NEW s, SetStatus(n, s)
  PROVE  \A m \in Nodes : ctl'[m].status = IF m = n THEN s ELSE ctl[m].status
BY DEF SetStatus, TypeOK

\* The streams' reductions.
LEMMA HeadType ==
  ASSUME TypeOK, NEW r \in Ranks, queue[r] # <<>>
  PROVE  /\ Head(queue[r]) \in Comms \X (1 .. NumReductions)
         /\ Head(queue[r]) = queue[r][1] /\ Len(queue[r]) \in Nat \ {0}
<1>1. queue[r] \in Seq(Comms \X (1 .. NumReductions))
  BY DEF TypeOK
<1>2. Len(queue[r]) \in Nat \ {0} /\ Head(queue[r]) = queue[r][1]
  BY <1>1
<1> QED
  BY <1>1, <1>2

Inv ==
  /\ TypeOK /\ ElectInv /\ StartInv /\ EnterInv /\ QuietInv
  /\ RoundInv /\ PickInv /\ QueueInv /\ MapInv /\ ReducedInv /\ TogetherInv

-----------------------------------------------------------------------------
(* Type correctness.                                                       *)

LEMMA TypeInit == Init => TypeOK
<1> SUFFICES ASSUME Init
             PROVE  TypeOK
  OBVIOUS
<1>1. None \in (0 .. NumComms) \X RankNos
  BY SizesAssumption DEF None, RankNos
<1>2. map \in [Nodes -> [Comms -> [RankNos -> [status : {ZERO, "FREE", "WORK"},
                                              reduction : 0 .. NumReductions]]]]
  <2>1. Fresh \in [status : {ZERO, "FREE", "WORK"}, reduction : 0 .. NumReductions]
    BY SizesAssumption DEF Fresh
  <2> QED
    BY <2>1 DEF Init
<1>3. ctl \in [Nodes -> [status : Statuses, commport : 0 .. NumComms]]
  BY SizesAssumption DEF Init, Statuses
<1>4. /\ ring \in [Ranks -> Seq({0, 1})]
      /\ queue \in [Ranks -> Seq(Comms \X (1 .. NumReductions))]
      /\ sharpMap \in [Nodes -> Seq(Comms)]
  BY DEF Init
<1>5. comm \in [Ranks -> Comms] /\ round \in [Nodes -> Nat]
  BY SizesAssumption DEF Init, Comms
<1> QED
  BY <1>1, <1>2, <1>3, <1>4, <1>5 DEF Init, TypeOK

\* The maps stay well-typed when an entry of theirs is set.
LEMMA MapType ==
  ASSUME TypeOK, NEW n \in Nodes, NEW c \in Comms, NEW i \in RankNos,
         NEW e \in [status : {ZERO, "FREE", "WORK"}, reduction : 0 .. NumReductions],
         SetEntry(n, c, i, e)
  PROVE  map' \in [Nodes -> [Comms -> [RankNos -> [status : {ZERO, "FREE", "WORK"},
                                                  reduction : 0 .. NumReductions]]]]
BY DEF SetEntry, TypeOK

\* The reductions of a communicator, when they are queued.
LEMMA NewType ==
  ASSUME TypeOK, NEW r \in Ranks
  PROVE  LET new == [k \in 1 .. NumReductions |-> <<comm[r], k>>] IN
         /\ new \in Seq(Comms \X (1 .. NumReductions))
         /\ Len(new) = NumReductions
<1>1. comm[r] \in Comms /\ NumReductions \in Nat
  BY SizesAssumption DEF TypeOK
<1>2. [k \in 1 .. NumReductions |-> <<comm[r], k>>]
        \in [1 .. NumReductions -> Comms \X (1 .. NumReductions)]
  BY <1>1
<1> QED
  BY <1>1, <1>2, SeqDef

LEMMA HostType ==
  ASSUME Inv, NEW r \in Ranks, Host(r)
  PROVE  TypeOK'
<1> DEFINE n == node_id(r)
<1>0. TypeOK /\ n \in Nodes /\ rank_no(r) \in RankNos /\ SharpNext(r) \in Ranks
  BY RankPair, NextRank DEF Inv
<1>1. CASE tcclIsShmExist(r)
  <2>1. ring' \in [Ranks -> Seq({0, 1})]
    BY <1>0, <1>1 DEF tcclIsShmExist, TypeOK
  <2> QED
    BY <1>0, <1>1, <2>1 DEF tcclIsShmExist, Goto, TypeOK, streams, threads
<1>2. CASE RecvFlag(r)
  <2>1. ring[r] \in Seq({0, 1}) /\ Head(ring[r]) \in {0, 1} /\ Tail(ring[r]) \in Seq({0, 1})
    BY <1>0, <1>2 DEF RecvFlag, TypeOK
  <2>2. ring' \in [Ranks -> Seq({0, 1})]
    <3>1. ring \in [Ranks -> Seq({0, 1})]
      BY <1>0 DEF TypeOK
    <3>2. Append(ring[SharpNext(r)], Head(ring[r])) \in Seq({0, 1})
      BY <1>0, <2>1, <3>1
    <3>3. CASE node_id(r) = 0
      BY <1>2, <2>1, <3>1, <3>3 DEF RecvFlag
    <3>4. CASE node_id(r) # 0
      <4>1. ring' = [ring EXCEPT ![r] = Tail(@), ![SharpNext(r)] = Append(@, Head(ring[r]))]
        BY <1>2, <3>4 DEF RecvFlag
      <4> QED
        BY <1>0, <2>1, <3>1, <3>2, <4>1, NextRank
    <3> QED
      BY <3>3, <3>4
  <2> QED
    BY <1>0, <1>2, <2>1, <2>2 DEF RecvFlag, Goto, TypeOK, streams, threads
<1>3. CASE StartThread(r)
  BY <1>0, <1>3 DEF StartThread, Goto, SetStatus, TypeOK, Statuses, streams
<1>4. CASE tcclSharpCreate(r)
  BY <1>0, <1>4 DEF tcclSharpCreate, Goto, SetStatus, TypeOK, Statuses, streams, threads
<1>0a. [entered EXCEPT ![r] = entered[r] + 1] \in [Ranks -> Nat]
  <2>1. entered \in [Ranks -> Nat]
    BY <1>0 DEF TypeOK
  <2> QED
    BY <2>1
<1>5. CASE GetSharpAddr(r)
  <2>1. entered' \in [Ranks -> Nat]
    BY <1>0a, <1>5 DEF GetSharpAddr
  <2> QED
    BY <1>0, <1>5, <2>1 DEF GetSharpAddr, Goto, TypeOK, streams, threads
<1>6. CASE LeaveBarrierAll(r)
  <2>1. entered' \in [Ranks -> Nat]
    BY <1>0, <1>0a, <1>6 DEF LeaveBarrierAll, TypeOK
  <2>2. \E l \in {"waitfree", "barriernode"} : pc' = [pc EXCEPT ![r] = l]
    BY <1>6 DEF LeaveBarrierAll, Goto
  <2> QED
    BY <1>0, <1>6, <2>1, <2>2 DEF LeaveBarrierAll, TypeOK, streams, threads
<1>7. CASE WaitFree(r)
  BY <1>0, <1>7 DEF WaitFree, Goto, TypeOK, streams, threads
<1>8. CASE SetInit(r)
  <2>1. comm[r] \in 0 .. NumComms
    BY <1>0 DEF TypeOK, Comms
  <2>2. [status |-> "INIT", commport |-> comm[r]] \in [status : Statuses, commport : 0 .. NumComms]
    BY <2>1 DEF Statuses
  <2>3. ctl' \in [Nodes -> [status : Statuses, commport : 0 .. NumComms]]
    BY <1>0, <1>8, <2>2 DEF SetInit, TypeOK
  <2> QED
    BY <1>0, <1>8, <2>3 DEF SetInit, Goto, TypeOK, streams, threads
<1>9. CASE WaitInit(r)
  <2>1. entered' \in [Ranks -> Nat]
    BY <1>0a, <1>9 DEF WaitInit
  <2> QED
    BY <1>0, <1>9, <2>1 DEF WaitInit, Goto, TypeOK, streams, threads
<1>10. CASE LeaveBarrierNode(r)
  <2> DEFINE S == Comms \X (1 .. NumReductions)
  <2> DEFINE new == [k \in 1 .. NumReductions |-> <<comm[r], k>>]
  <2>1. new \in Seq(S)
    BY <1>0, NewType
  <2>2. queue' \in [Ranks -> Seq(S)]
    <3>1. queue \in [Ranks -> Seq(S)] /\ queue' = [queue EXCEPT ![r] = queue[r] \o new]
      BY <1>0, <1>10 DEF LeaveBarrierNode, TypeOK
    <3> HIDE DEF S, new
    <3>2. queue[r] \o new \in Seq(S)
      BY <2>1, <3>1
    <3> QED
      BY <3>1, <3>2
  <2> QED
    BY <1>0, <1>10, <2>2 DEF LeaveBarrierNode, Goto, TypeOK, threads
<1>11. CASE NextComm(r)
  <2>1. comm[r] + 1 \in Comms
    <3>1. comm[r] \in 1 .. NumComms /\ comm[r] < NumComms
      BY <1>0, <1>11 DEF NextComm, TypeOK, Comms
    <3> QED
      BY <3>1, SizesAssumption DEF Comms
  <2> QED
    BY <1>0, <1>11, <2>1 DEF NextComm, Goto, TypeOK, streams, threads
<1> QED
  BY <1>1, <1>2, <1>3, <1>4, <1>5, <1>6, <1>7, <1>8, <1>9, <1>10, <1>11 DEF Host

LEMMA StreamType ==
  ASSUME Inv, NEW r \in Ranks, Stream(r)
  PROVE  TypeOK'
<1> DEFINE n == node_id(r)
<1> DEFINE c == Head(queue[r])[1]
<1> DEFINE i == rank_no(r)
<1>0. TypeOK /\ MapInv /\ n \in Nodes /\ i \in RankNos
  BY RankPair DEF Inv
<1>1. queue[r] # <<>>
  BY <1>0 DEF Stream, SetArguments, SetWork, WaitDone, MapInv, EntryInv
<1>2. c \in Comms /\ Head(queue[r])[2] \in 1 .. NumReductions
  BY <1>0, <1>1, HeadType
<1>3. map[n][c][i] \in [status : {ZERO, "FREE", "WORK"}, reduction : 0 .. NumReductions]
  BY <1>0, <1>2 DEF TypeOK
<1>4. CASE SetArguments(r)
  <2>1. [Entry(r) EXCEPT !.reduction = Head(queue[r])[2]]
          \in [status : {ZERO, "FREE", "WORK"}, reduction : 0 .. NumReductions]
    BY <1>2, <1>3, SizesAssumption DEF Entry
  <2>2. map' \in [Nodes -> [Comms -> [RankNos -> [status : {ZERO, "FREE", "WORK"},
                                                 reduction : 0 .. NumReductions]]]]
    BY <1>0, <1>2, <1>4, <2>1, MapType DEF SetArguments
  <2> QED
    BY <1>0, <1>4, <2>2 DEF SetArguments, TypeOK, hosts, threads
<1>5. CASE SetWork(r)
  <2>1. [Entry(r) EXCEPT !.status = "WORK"]
          \in [status : {ZERO, "FREE", "WORK"}, reduction : 0 .. NumReductions]
    BY <1>2, <1>3 DEF Entry
  <2>2. map' \in [Nodes -> [Comms -> [RankNos -> [status : {ZERO, "FREE", "WORK"},
                                                 reduction : 0 .. NumReductions]]]]
    BY <1>0, <1>2, <1>5, <2>1, MapType DEF SetWork
  <2> QED
    BY <1>0, <1>5, <2>2 DEF SetWork, TypeOK, hosts, threads
<1>6. CASE WaitDone(r)
  <2>1. queue' \in [Ranks -> Seq(Comms \X (1 .. NumReductions))]
    <3> DEFINE S == Comms \X (1 .. NumReductions)
    <3>1. queue \in [Ranks -> Seq(S)] /\ queue' = [queue EXCEPT ![r] = Tail(queue[r])]
      BY <1>0, <1>6 DEF WaitDone, TypeOK
    <3> HIDE DEF S
    <3>2. Tail(queue[r]) \in Seq(S)
      BY <1>1, <3>1
    <3>3. queue' \in [Ranks -> Seq(S)]
      BY <3>1, <3>2
    <3> QED
      BY <3>3 DEF S
  <2> QED
    BY <1>0, <1>6, <2>1 DEF WaitDone, TypeOK, hosts, threads
<1> QED
  BY <1>4, <1>5, <1>6 DEF Stream

LEMMA ThreadType ==
  ASSUME Inv, NEW n \in Nodes, Thread(n)
  PROVE  TypeOK'
<1>0. TypeOK /\ PickInv
  BY DEF Inv
<1>1. CASE tcclSharpMapInit(n)
  <2> DEFINE c == ctl[n].commport
  <2>1. c \in Comms
    BY <1>0, <1>1 DEF tcclSharpMapInit, PickInv, Status
  <2> DEFINE Entries == [status : {ZERO, "FREE", "WORK"}, reduction : 0 .. NumReductions]
  <2> DEFINE freed == [j \in RankNos |-> [map[n][c][j] EXCEPT !.status = "FREE"]]
  <2>2. /\ sharpMap \in [Nodes -> Seq(Comms)]
        /\ map \in [Nodes -> [Comms -> [RankNos -> Entries]]]
        /\ \/ sharpMap' = sharpMap /\ map' = map
           \/ /\ sharpMap' = [sharpMap EXCEPT ![n] = Append(sharpMap[n], c)]
              /\ map' = [map EXCEPT ![n] = [map[n] EXCEPT ![c] = freed]]
    BY <1>0, <1>1 DEF tcclSharpMapInit, TypeOK
  <2>3. freed \in [RankNos -> Entries]
    <3>1. map[n][c] \in [RankNos -> Entries]
      BY <2>1, <2>2
    <3> QED
      BY <3>1
  <2> HIDE DEF Entries, freed, c
  <2>4. sharpMap' \in [Nodes -> Seq(Comms)]
    <3>1. Append(sharpMap[n], c) \in Seq(Comms)
      BY <2>1, <2>2
    <3> QED
      BY <2>2, <3>1
  <2>5. map' \in [Nodes -> [Comms -> [RankNos -> Entries]]]
    <3>1. [map[n] EXCEPT ![c] = freed] \in [Comms -> [RankNos -> Entries]]
      BY <2>1, <2>2, <2>3
    <3> QED
      BY <2>2, <3>1
  <2> QED
    BY <1>0, <1>1, <2>4, <2>5 DEF tcclSharpMapInit, Go, TypeOK, hosts, streams, Entries
<1>2. CASE InitDone(n)
  BY <1>0, <1>2 DEF InitDone, SetStatus, Go, TypeOK, Statuses, hosts, streams
<1>3. CASE FindWork(n)
  <2>1. pick' \in [Nodes -> (0 .. NumComms) \X RankNos]
    <3>1. PICK k \in 1 .. Len(sharpMap[n]), i \in RankNos :
                 pick' = [pick EXCEPT ![n] = <<sharpMap[n][k], i>>]
      BY <1>3 DEF FindWork
    <3>2. sharpMap[n] \in Seq(Comms)
      BY <1>0 DEF TypeOK
    <3>3. sharpMap[n][k] \in 0 .. NumComms
      BY <3>2, SizesAssumption DEF Comms
    <3> QED
      BY <1>0, <3>1, <3>3 DEF TypeOK
  <2>2. thread' \in [Nodes -> {"none", "poll", "init", "found", "bcast", "waitwork", "reduce",
                               "free", "freenode"}]
    BY <1>0, <1>3 DEF FindWork, Go, TypeOK
  <2> QED
    BY <1>0, <1>3, <2>1, <2>2 DEF FindWork, TypeOK, hosts, streams
<1>4. CASE BeginWork(n)
  <2>1. thread' \in [Nodes -> {"none", "poll", "init", "found", "bcast", "waitwork", "reduce",
                               "free", "freenode"}]
    <3>1. thread' = [thread EXCEPT ![n] = IF n = 0 THEN "reduce" ELSE "bcast"]
      BY <1>4 DEF BeginWork, Go
    <3>2. thread \in [Nodes -> {"none", "poll", "init", "found", "bcast", "waitwork", "reduce",
                                "free", "freenode"}]
      BY <1>0 DEF TypeOK
    <3> QED
      BY <3>1, <3>2
  <2>2. info' \in (0 .. NumComms) \X RankNos
    <3>1. info' = pick[n] \/ info' = info
      BY <1>4 DEF BeginWork
    <3>2. pick[n] \in (0 .. NumComms) \X RankNos /\ info \in (0 .. NumComms) \X RankNos
      BY <1>0 DEF TypeOK
    <3> QED
      BY <3>1, <3>2
  <2>3. round' \in [Nodes -> Nat]
    BY <1>0, <1>4 DEF BeginWork, TypeOK
  <2>4. ctl' \in [Nodes -> [status : Statuses, commport : 0 .. NumComms]]
    BY <1>0, <1>4 DEF BeginWork, SetStatus, Statuses, TypeOK
  <2> QED
    BY <1>0, <1>4, <2>1, <2>2, <2>3, <2>4 DEF BeginWork, TypeOK, hosts, streams
<1>5. CASE RecvInfo(n)
  BY <1>0, <1>5 DEF RecvInfo, Go, TypeOK, hosts, streams
<1>6. CASE WaitWork(n)
  BY <1>0, <1>6 DEF WaitWork, Go, TypeOK, hosts, streams
<1>7. CASE tcclSharpAllReduce(n)
  <2>1. pick[n][1] \in Comms /\ pick[n][2] \in RankNos
    BY <1>0, <1>7 DEF tcclSharpAllReduce, PickInv, ToldInv, Told, TypeOK
  <2>2. Picked(n) \in [status : {ZERO, "FREE", "WORK"}, reduction : 0 .. NumReductions]
    <3>1. map[n] \in [Comms -> [RankNos -> [status : {ZERO, "FREE", "WORK"},
                                            reduction : 0 .. NumReductions]]]
      BY <1>0 DEF TypeOK
    <3> QED
      BY <2>1, <3>1 DEF Picked
  <2>3. Reduction(n) \in Comms \X RankNos \X (0 .. NumReductions)
    BY <2>1, <2>2 DEF Reduction
  <2>4. reduced' \in [Nodes -> SUBSET (Comms \X RankNos \X (0 .. NumReductions))]
    BY <1>0, <1>7, <2>3 DEF tcclSharpAllReduce, TypeOK
  <2> QED
    BY <1>0, <1>7, <2>4 DEF tcclSharpAllReduce, Go, TypeOK, hosts, streams
<1>8. CASE FreeRank(n)
  <2>1. pick[n][1] \in Comms /\ pick[n][2] \in RankNos
    BY <1>0, <1>8 DEF FreeRank, PickInv, ToldInv, Told, TypeOK
  <2>2. [Picked(n) EXCEPT !.status = "FREE"]
          \in [status : {ZERO, "FREE", "WORK"}, reduction : 0 .. NumReductions]
    <3>1. map[n] \in [Comms -> [RankNos -> [status : {ZERO, "FREE", "WORK"},
                                            reduction : 0 .. NumReductions]]]
      BY <1>0 DEF TypeOK
    <3>2. Picked(n) \in [status : {ZERO, "FREE", "WORK"}, reduction : 0 .. NumReductions]
      BY <2>1, <3>1 DEF Picked
    <3> QED
      BY <3>2
  <2>3. map' \in [Nodes -> [Comms -> [RankNos -> [status : {ZERO, "FREE", "WORK"},
                                                 reduction : 0 .. NumReductions]]]]
    BY <1>0, <1>8, <2>1, <2>2, MapType DEF FreeRank
  <2> QED
    BY <1>0, <1>8, <2>3 DEF FreeRank, Go, TypeOK, hosts, streams
<1>9. CASE FreeNode(n)
  BY <1>0, <1>9 DEF FreeNode, SetStatus, Go, TypeOK, Statuses, hosts, streams
<1> QED
  BY <1>1, <1>2, <1>3, <1>4, <1>5, <1>6, <1>7, <1>8, <1>9 DEF Thread

LEMMA TypeNext == Inv /\ [Next]_vars => TypeOK'
<1>1. ASSUME Inv, UNCHANGED vars
      PROVE  TypeOK'
  BY <1>1 DEF Inv, TypeOK, vars, hosts, streams, threads
<1> QED
  BY <1>1, HostType, StreamType, ThreadType DEF Next, Finished

-----------------------------------------------------------------------------
(* The election.                                                           *)

LEMMA ElectInit == Init => ElectInv
<1> SUFFICES ASSUME Init
             PROVE  ElectInv
  OBVIOUS
<1>1. ASSUME NEW i \in RankNos
      PROVE  ~ Flagged(i)
  <2>1. ASSUME NEW n \in Nodes
        PROVE  initflag[<<n, i>>] # 1 /\ ring[<<n, i>>] = <<>>
    BY <1>1, <2>1 DEF Init, Ranks
  <2>2. ASSUME NEW n \in Nodes
        PROVE  ~ Pending(<<n, i>>)
    <3>1. Len(ring[<<n, i>>]) = 0
      BY <2>1, <2>2
    <3> QED
      BY <3>1 DEF Pending
  <2> QED
    BY <2>1, <2>2 DEF Flagged
<1> QED
  BY <1>1 DEF ElectInv

\* The file is made by one rank, and the flag goes from rank to rank of its
\* number.
LEMMA ElectNext == Inv /\ [Next]_vars => ElectInv'
<1> SUFFICES ASSUME Inv, [Next]_vars
             PROVE  ElectInv'
  OBVIOUS
<1>0. TypeOK /\ ElectInv
  BY DEF Inv
<1>1. ASSUME UNCHANGED <<shmExists, ring, initflag>>
      PROVE  ElectInv'
  BY <1>0, <1>1 DEF ElectInv, Flagged, Pending
<1>2. ASSUME NEW r \in Ranks, tcclIsShmExist(r)
      PROVE  ElectInv'
  <2> DEFINE e == IF shmExists THEN 0 ELSE 1
  <2>1. SharpNext(r) \in Ranks /\ rank_no(SharpNext(r)) = rank_no(r)
    BY NextRank
  <2>2. ring \in [Ranks -> Seq({0, 1})] /\ e \in {0, 1}
    BY <1>0 DEF TypeOK
  <2>3. ring' = [ring EXCEPT ![SharpNext(r)] = Append(ring[SharpNext(r)], e)]
        /\ initflag' = initflag /\ shmExists' = TRUE
    BY <1>2, <2>1, <2>2 DEF tcclIsShmExist
  <2>4. ASSUME NEW q \in Ranks, Pending(q)'
        PROVE  Pending(q) \/ (rank_no(q) = rank_no(r) /\ ~ shmExists)
    <3> HIDE DEF e
    <3>1. /\ ring[q] \in Seq({0, 1})
          /\ \/ ring'[q] = ring[q]
             \/ q = SharpNext(r) /\ ring'[q] = Append(ring[q], e)
      BY <2>1, <2>2, <2>3
    <3>2. PICK k \in 1 .. Len(ring'[q]) : ring'[q][k] = 1
      BY <2>4 DEF Pending
    <3>3. CASE ring'[q] = ring[q]
      BY <3>2, <3>3 DEF Pending
    <3>4. CASE q = SharpNext(r) /\ ring'[q] = Append(ring[q], e)
      <4>1. (k \in 1 .. Len(ring[q]) /\ ring[q][k] = 1) \/ e = 1
        BY <2>2, <3>1, <3>2, <3>4
      <4> QED
        BY <2>1, <3>4, <4>1 DEF Pending, e
    <3> QED
      BY <3>1, <3>3, <3>4
  <2>5. ASSUME NEW i \in RankNos, Flagged(i)'
        PROVE  Flagged(i) \/ (i = rank_no(r) /\ ~ shmExists)
    <3>1. PICK n \in Nodes : initflag'[<<n, i>>] = 1 \/ Pending(<<n, i>>)'
      BY <2>5 DEF Flagged
    <3>2. <<n, i>> \in Ranks /\ rank_no(<<n, i>>) = i
      BY DEF Ranks, rank_no
    <3> QED
      BY <2>3, <2>4, <3>1, <3>2 DEF Flagged
  <2> QED
    BY <1>0, <2>3, <2>5 DEF ElectInv
<1>3. ASSUME NEW r \in Ranks, RecvFlag(r)
      PROVE  ElectInv'
  <2> DEFINE h == Head(ring[r])
  <2>1. SharpNext(r) \in Ranks /\ rank_no(SharpNext(r)) = rank_no(r) /\ SharpNext(r) # r
    BY NextRank
  <2>2. ring \in [Ranks -> Seq({0, 1})] /\ initflag \in [Ranks -> {0, 1}]
    BY <1>0 DEF TypeOK
  <2>3. /\ ring[r] # <<>> /\ initflag' = [initflag EXCEPT ![r] = h]
        /\ \/ ring' = [ring EXCEPT ![r] = Tail(ring[r])]
           \/ ring' = [ring EXCEPT ![r] = Tail(ring[r]), ![SharpNext(r)] = Append(@, h)]
    BY <1>3, <2>1, <2>2 DEF RecvFlag
  <2>4. /\ ring[r] \in Seq({0, 1}) /\ ring[r] # <<>> /\ Len(ring[r]) \in Nat \ {0}
        /\ h = ring[r][1]
        /\ Len(Tail(ring[r])) = Len(ring[r]) - 1
        /\ \A k \in 1 .. Len(ring[r]) - 1 : Tail(ring[r])[k] = ring[r][k + 1]
    BY <2>2, <2>3
  <2>5. h = 1 => Pending(r)
    BY <2>4 DEF Pending
  <2>6. ASSUME NEW q \in Ranks, Pending(q)'
        PROVE  Pending(q) \/ (rank_no(q) = rank_no(r) /\ h = 1)
    <3> HIDE DEF h
    <3>1. PICK k \in 1 .. Len(ring'[q]) : ring'[q][k] = 1
      BY <2>6 DEF Pending
    <3>2. CASE q = r
      <4>1. ring'[q] = Tail(ring[r])
        BY <2>1, <2>2, <2>3, <3>2
      <4>2. k + 1 \in 1 .. Len(ring[r]) /\ ring[r][k + 1] = 1
        BY <2>4, <3>1, <4>1
      <4> QED
        BY <3>2, <4>2 DEF Pending
    <3>3. CASE q # r /\ ring'[q] = ring[q]
      BY <3>1, <3>3 DEF Pending
    <3>4. CASE q = SharpNext(r) /\ ring'[q] = Append(ring[q], h)
      <4>1. ring[q] \in Seq({0, 1})
        BY <2>2
      <4>2. (k \in 1 .. Len(ring[q]) /\ ring[q][k] = 1) \/ h = 1
        BY <3>1, <3>4, <4>1
      <4> QED
        BY <2>1, <3>4, <4>2 DEF Pending
    <3> QED
      BY <2>1, <2>2, <2>3, <3>2, <3>3, <3>4
  <2>7. ASSUME NEW i \in RankNos, Flagged(i)'
        PROVE  Flagged(i)
    <3>1. PICK n \in Nodes : initflag'[<<n, i>>] = 1 \/ Pending(<<n, i>>)'
      BY <2>7 DEF Flagged
    <3>2. <<n, i>> \in Ranks /\ rank_no(<<n, i>>) = i
      BY DEF Ranks, rank_no
    <3>3. initflag[<<n, i>>] = 1 \/ Pending(<<n, i>>) \/ (i = rank_no(r) /\ Pending(r))
      BY <2>2, <2>3, <2>5, <2>6, <3>1, <3>2
    <3> QED
      BY <3>3, RankPair DEF Flagged
  <2>8. shmExists' = shmExists
    BY <1>3 DEF RecvFlag
  <2> QED
    BY <1>0, <2>7, <2>8 DEF ElectInv
<1>4. ASSUME NEW r \in Ranks, Host(r)
      PROVE  ElectInv'
  <2>1. \/ tcclIsShmExist(r) \/ RecvFlag(r) \/ UNCHANGED <<shmExists, ring, initflag>>
    BY <1>4 DEF Host, StartThread, tcclSharpCreate, GetSharpAddr, LeaveBarrierAll, WaitFree,
                SetInit, WaitInit, LeaveBarrierNode, NextComm
  <2> QED
    BY <1>1, <1>2, <1>3, <2>1
<1>5. ASSUME NEW r \in Ranks, Stream(r)
      PROVE  UNCHANGED hosts
  BY <1>5 DEF Stream, SetArguments, SetWork, WaitDone
<1>6. ASSUME NEW n \in Nodes, Thread(n)
      PROVE  UNCHANGED hosts
  BY <1>6 DEF Thread, tcclSharpMapInit, InitDone, FindWork, BeginWork, RecvInfo, WaitWork,
              tcclSharpAllReduce, FreeRank, FreeNode
<1>7. UNCHANGED hosts => ElectInv'
  BY <1>1 DEF hosts
<1> QED
  BY <1>4, <1>5, <1>6, <1>7 DEF Next, Finished, vars

-----------------------------------------------------------------------------
(* The threads.                                                            *)

\* The steps of a host after the election, and what all of them leave alone.
LEMMA LaterHost ==
  ASSUME TypeOK, NEW r \in Ranks, Host(r),
         ~ tcclIsShmExist(r), ~ RecvFlag(r), ~ StartThread(r)
  PROVE  /\ pc[r] \notin Early
         /\ \E l : l \notin Early /\ pc' = [pc EXCEPT ![r] = l]
         /\ UNCHANGED <<initflag, threads>>
BY DEF Host, tcclSharpCreate, GetSharpAddr, LeaveBarrierAll, WaitFree, SetInit, WaitInit,
       LeaveBarrierNode, NextComm, Goto, Early

\* The node whose thread an elected rank starts has none.
LEMMA NoThreadYet ==
  ASSUME Inv, NEW r \in Ranks, StartThread(r)
  PROVE  thread[node_id(r)] = "none"
<1> SUFFICES ASSUME thread[node_id(r)] # "none"
             PROVE  FALSE
  OBVIOUS
<1>1. r = <<node_id(r), rank_no(r)>> /\ node_id(r) \in Nodes /\ rank_no(r) \in RankNos
  BY RankPair
<1>2. PICK i \in RankNos : initflag[<<node_id(r), i>>] = 1 /\ pc[<<node_id(r), i>>] \notin Early
  BY <1>1 DEF Inv, StartInv
<1>3. pc[r] = "memset" /\ initflag[r] = 1
  BY DEF StartThread, Inv, StartInv
<1>4. Flagged(i) /\ Flagged(rank_no(r))
  BY <1>1, <1>2, <1>3 DEF Flagged
<1>5. i = rank_no(r)
  BY <1>1, <1>4 DEF Inv, ElectInv
<1> QED
  BY <1>1, <1>2, <1>3, <1>5 DEF Early

\* A thread that does a step has been started, and goes on.
LEMMA ThreadGoes ==
  ASSUME TypeOK, NEW n \in Nodes, Thread(n)
  PROVE  /\ thread[n] # "none" /\ UNCHANGED hosts
         /\ \E l : l # "none" /\ thread' = [thread EXCEPT ![n] = l]
BY DEF Thread, tcclSharpMapInit, InitDone, FindWork, BeginWork, RecvInfo, WaitWork,
       tcclSharpAllReduce, FreeRank, FreeNode, Go

LEMMA StartInit == Init => StartInv
BY RankPair DEF Init, StartInv, Below

LEMMA StartNext == Inv /\ [Next]_vars => StartInv'
<1> SUFFICES ASSUME Inv, [Next]_vars
             PROVE  StartInv'
  OBVIOUS
<1>0. TypeOK /\ StartInv /\ ElectInv
  BY DEF Inv
<1>1. ASSUME UNCHANGED <<pc, initflag, thread>>
      PROVE  StartInv'
  BY <1>0, <1>1 DEF StartInv
<1>2. ASSUME NEW r \in Ranks, Host(r)
      PROVE  StartInv'
  <2>1. r = <<node_id(r), rank_no(r)>> /\ node_id(r) \in Nodes /\ rank_no(r) \in RankNos
    BY RankPair
  <2>2. CASE tcclIsShmExist(r)
    <3>1. pc' = [pc EXCEPT ![r] = "flag"] /\ pc[r] = "exist" /\ UNCHANGED <<initflag, thread>>
      BY <2>2 DEF tcclIsShmExist, Goto, threads
    <3>2. pc \in [Ranks -> {"exist", "flag", "memset", "create", "addr", "barrier", "waitfree",
                            "setinit", "waitinit", "barriernode", "queued"}]
      BY <1>0 DEF TypeOK
    <3>3. ASSUME NEW q \in Ranks
          PROVE  /\ pc'[q] \in {"exist", "flag"} => initflag'[q] = 0
                 /\ pc'[q] = "memset" => initflag'[q] = 1
      BY <1>0, <3>1, <3>2 DEF StartInv
    <3>4. ASSUME NEW n \in Nodes, thread'[n] # "none"
          PROVE  \E i \in RankNos : initflag'[<<n, i>>] = 1 /\ pc'[<<n, i>>] \notin Early
      <4>1. PICK i \in RankNos : initflag[<<n, i>>] = 1 /\ pc[<<n, i>>] \notin Early
        BY <1>0, <3>1, <3>4 DEF StartInv
      <4>2. <<n, i>> # r
        BY <3>1, <4>1 DEF Early
      <4> QED
        BY <3>1, <3>2, <4>1, <4>2 DEF Ranks
    <3> QED
      BY <3>3, <3>4 DEF StartInv
  <2>3. CASE RecvFlag(r)
    <3>1. /\ pc' = [pc EXCEPT ![r] = IF Head(ring[r]) = 1 THEN "memset" ELSE "addr"]
          /\ initflag' = [initflag EXCEPT ![r] = Head(ring[r])]
          /\ pc[r] = "flag" /\ thread' = thread
      BY <2>3 DEF RecvFlag, Goto, threads
    <3>2. pc \in [Ranks -> {"exist", "flag", "memset", "create", "addr", "barrier", "waitfree",
                            "setinit", "waitinit", "barriernode", "queued"}]
          /\ initflag \in [Ranks -> {0, 1}]
      BY <1>0 DEF TypeOK
    <3>3. ASSUME NEW q \in Ranks
          PROVE  /\ pc'[q] \in {"exist", "flag"} => initflag'[q] = 0
                 /\ pc'[q] = "memset" => initflag'[q] = 1
      BY <1>0, <3>1, <3>2 DEF StartInv
    <3>4. ASSUME NEW n \in Nodes, thread'[n] # "none"
          PROVE  \E i \in RankNos : initflag'[<<n, i>>] = 1 /\ pc'[<<n, i>>] \notin Early
      <4>1. PICK i \in RankNos : initflag[<<n, i>>] = 1 /\ pc[<<n, i>>] \notin Early
        BY <1>0, <3>1, <3>4 DEF StartInv
      <4>2. <<n, i>> # r
        BY <3>1, <4>1 DEF Early
      <4> QED
        BY <3>1, <3>2, <4>1, <4>2 DEF Ranks
    <3> QED
      BY <3>3, <3>4 DEF StartInv
  <2>4. CASE StartThread(r)
    <3>1. /\ pc' = [pc EXCEPT ![r] = "create"] /\ pc[r] = "memset" /\ initflag' = initflag
          /\ thread' = [thread EXCEPT ![node_id(r)] = "poll"]
      BY <2>4 DEF StartThread, Goto
    <3>2. initflag[r] = 1
      BY <1>0, <3>1 DEF StartInv
    <3>3. ASSUME NEW n \in Nodes, thread'[n] # "none"
          PROVE  \E i \in RankNos : initflag'[<<n, i>>] = 1 /\ pc'[<<n, i>>] \notin Early
      <4>1. CASE n = node_id(r)
        BY <1>0, <2>1, <3>1, <3>2, <4>1 DEF TypeOK, Early
      <4>2. CASE n # node_id(r)
        <5>1. PICK i \in RankNos : initflag[<<n, i>>] = 1 /\ pc[<<n, i>>] \notin Early
          BY <1>0, <3>1, <3>3, <4>2 DEF StartInv, TypeOK
        <5>2. <<n, i>> \in Ranks /\ <<n, i>> # r
          BY <2>1, <4>2 DEF Ranks
        <5> QED
          BY <1>0, <3>1, <5>1, <5>2 DEF TypeOK
      <4> QED
        BY <4>1, <4>2
    <3> QED
      BY <1>0, <3>1, <3>3 DEF StartInv, TypeOK
  <2>5. CASE ~ tcclIsShmExist(r) /\ ~ RecvFlag(r) /\ ~ StartThread(r)
    <3>1. PICK l : l \notin Early /\ pc' = [pc EXCEPT ![r] = l]
      BY <1>0, <1>2, <2>5, LaterHost
    <3>2. pc[r] \notin Early /\ initflag' = initflag /\ thread' = thread
      BY <1>0, <1>2, <2>5, LaterHost DEF threads
    <3>3. pc \in [Ranks -> {"exist", "flag", "memset", "create", "addr", "barrier", "waitfree",
                            "setinit", "waitinit", "barriernode", "queued"}]
      BY <1>0 DEF TypeOK
    <3>4. ASSUME NEW q \in Ranks
          PROVE  pc'[q] \in Early => pc'[q] = pc[q]
      BY <3>1, <3>3
    <3>5. ASSUME NEW q \in Ranks, pc[q] \notin Early
          PROVE  pc'[q] \notin Early
      BY <3>1, <3>3, <3>5
    <3> QED
      BY <1>0, <3>2, <3>4, <3>5 DEF StartInv, Early, Ranks
  <2> QED
    BY <2>2, <2>3, <2>4, <2>5
<1>3. ASSUME NEW r \in Ranks, Stream(r)
      PROVE  StartInv'
  BY <1>1, <1>3 DEF Stream, SetArguments, SetWork, WaitDone, hosts, threads
<1>4. ASSUME NEW n \in Nodes, Thread(n)
      PROVE  StartInv'
  <2>1. PICK l : l # "none" /\ thread' = [thread EXCEPT ![n] = l]
    BY <1>0, <1>4, ThreadGoes
  <2>2. thread[n] # "none" /\ pc' = pc /\ initflag' = initflag
    BY <1>0, <1>4, ThreadGoes DEF hosts
  <2> QED
    BY <1>0, <2>1, <2>2 DEF StartInv, TypeOK
<1> QED
  BY <1>1, <1>2, <1>3, <1>4 DEF Next, Finished, vars, hosts, threads

-----------------------------------------------------------------------------
(* The rounds.                                                             *)

LEMMA RoundInit == Init => RoundInv
BY NodeZero DEF Init, RoundInv, Ended, Ending

\* Two nodes that are both about to reduce are in the same round if they have
\* ended as many, and then each has been told.
LEMMA SameRound ==
  ASSUME Inv, NEW n \in Nodes, tcclSharpAllReduce(n), NEW m \in Nodes
  PROVE  /\ Ended(m) = Ended(n) => thread[m] = "reduce" /\ round[m] = round[n]
         /\ Ended(m) >= Ended(n)
<1>1. TypeOK /\ RoundInv
  BY DEF Inv
<1>2. round[m] \in Nat /\ round[n] \in Nat
  BY <1>1 DEF TypeOK
<1>3. Ended(n) = round[n] - 1
  BY <1>1 DEF tcclSharpAllReduce, Ended, Ending
<1>4. \/ round[m] > round[n]
      \/ round[m] = round[n] /\ thread[m] \notin {"bcast", "waitwork"}
  BY DEF tcclSharpAllReduce
<1>5. CASE round[m] > round[n]
  BY <1>2, <1>3, <1>5 DEF Ended
<1>6. CASE round[m] = round[n] /\ thread[m] \notin {"bcast", "waitwork"}
  BY <1>2, <1>3, <1>6 DEF Ended, Ending
<1> QED
  BY <1>4, <1>5, <1>6

\* Only the allreduce ends a reduction.
LEMMA Steady ==
  ASSUME Inv, [Next]_vars, \A n \in Nodes : ~ tcclSharpAllReduce(n)
  PROVE  /\ reduced' = reduced
         /\ \A m \in Nodes : Ended(m)' = Ended(m)
         /\ \A m \in Nodes : thread[m] = "reduce" => thread'[m] = "reduce" /\ pick'[m] = pick[m]
<1>0. TypeOK
  BY DEF Inv
<1>1. ASSUME UNCHANGED threads
      PROVE  /\ reduced' = reduced
             /\ \A m \in Nodes : Ended(m)' = Ended(m)
             /\ \A m \in Nodes : thread[m] = "reduce" => thread'[m] = "reduce" /\ pick'[m] = pick[m]
  BY <1>1 DEF threads, Ended, Ending
<1>2. ASSUME NEW r \in Ranks, Host(r)
      PROVE  /\ reduced' = reduced
             /\ \A m \in Nodes : Ended(m)' = Ended(m)
             /\ \A m \in Nodes : thread[m] = "reduce" => thread'[m] = "reduce" /\ pick'[m] = pick[m]
  <2>1. CASE StartThread(r)
    <3>1. thread[node_id(r)] = "none" /\ node_id(r) \in Nodes
      BY <2>1, NoThreadYet, RankPair
    <3> QED
      BY <1>0, <2>1, <3>1 DEF StartThread, TypeOK, Ended, Ending
  <2>2. CASE tcclIsShmExist(r) \/ RecvFlag(r)
    BY <1>1, <2>2 DEF tcclIsShmExist, RecvFlag
  <2>3. CASE ~ tcclIsShmExist(r) /\ ~ RecvFlag(r) /\ ~ StartThread(r)
    BY <1>0, <1>1, <1>2, <2>3, LaterHost
  <2> QED
    BY <2>1, <2>2, <2>3
<1>3. ASSUME NEW r \in Ranks, Stream(r)
      PROVE  UNCHANGED threads
  BY <1>3 DEF Stream, SetArguments, SetWork, WaitDone
<1>4. ASSUME NEW n \in Nodes, Thread(n)
      PROVE  /\ reduced' = reduced
             /\ \A m \in Nodes : Ended(m)' = Ended(m)
             /\ \A m \in Nodes : thread[m] = "reduce" => thread'[m] = "reduce" /\ pick'[m] = pick[m]
  <2>1. CASE BeginWork(n)
    <3>1. /\ thread[n] = "found" /\ reduced' = reduced /\ pick' = pick
          /\ round' = [round EXCEPT ![n] = round[n] + 1]
          /\ \E l \in {"reduce", "bcast"} : thread' = [thread EXCEPT ![n] = l]
      BY <2>1 DEF BeginWork, Go
    <3>2. round \in [Nodes -> Nat]
      BY <1>0 DEF TypeOK
    <3>3. ASSUME NEW m \in Nodes
          PROVE  Ended(m)' = Ended(m)
      <4>1. CASE m = n
        <5>1. Ending(n)' /\ ~ Ending(n) /\ round'[n] = round[n] + 1 /\ round[n] \in Nat
          BY <1>0, <3>1, <3>2 DEF TypeOK, Ending
        <5> QED
          BY <4>1, <5>1 DEF Ended
      <4>2. CASE m # n
        BY <1>0, <3>1, <3>2, <4>2 DEF TypeOK, Ended, Ending
      <4> QED
        BY <4>1, <4>2
    <3> QED
      BY <1>0, <3>1, <3>3 DEF TypeOK
  <2>2. CASE FindWork(n)
    <3>1. thread[n] = "poll" /\ thread' = [thread EXCEPT ![n] = "found"] /\ round' = round
          /\ reduced' = reduced /\ \E p : pick' = [pick EXCEPT ![n] = p]
      BY <2>2 DEF FindWork, Go
    <3> QED
      BY <1>0, <3>1 DEF TypeOK, Ended, Ending
  <2>3. CASE RecvInfo(n)
    BY <1>0, <2>3 DEF RecvInfo, Go, TypeOK, Ended, Ending
  <2>4. CASE ~ BeginWork(n) /\ ~ FindWork(n) /\ ~ RecvInfo(n)
    <3>1. /\ reduced' = reduced /\ round' = round /\ pick' = pick
          /\ \/ thread[n] = "poll" /\ thread' = [thread EXCEPT ![n] = "init"]
             \/ thread[n] = "init" /\ thread' = [thread EXCEPT ![n] = "poll"]
             \/ thread[n] = "waitwork" /\ thread' = [thread EXCEPT ![n] = "reduce"]
             \/ thread[n] = "free" /\ thread' = [thread EXCEPT ![n] = "freenode"]
             \/ thread[n] = "freenode" /\ thread' = [thread EXCEPT ![n] = "poll"]
      BY <1>4, <2>4 DEF Thread, tcclSharpMapInit, InitDone, WaitWork, FreeRank, FreeNode, Go
    <3>2. thread \in [Nodes -> {"none", "poll", "init", "found", "bcast", "waitwork", "reduce",
                                "free", "freenode"}]
      BY <1>0 DEF TypeOK
    <3>3. ASSUME NEW m \in Nodes
          PROVE  (Ending(m)' <=> Ending(m)) /\ (thread[m] = "reduce" => thread'[m] = "reduce")
      BY <3>1, <3>2 DEF Ending
    <3> QED
      BY <3>1, <3>3 DEF Ended
  <2> QED
    BY <2>1, <2>2, <2>3, <2>4
<1> QED
  BY <1>1, <1>2, <1>3, <1>4 DEF Next, Finished, vars

\* The allreduce ends one on its node.
LEMMA Progress ==
  ASSUME Inv, NEW n \in Nodes, tcclSharpAllReduce(n)
  PROVE  /\ Ended(n)' = Ended(n) + 1
         /\ \A m \in Nodes \ {n} : Ended(m)' = Ended(m) /\ thread'[m] = thread[m]
<1>1. thread \in [Nodes -> {"none", "poll", "init", "found", "bcast", "waitwork", "reduce",
                            "free", "freenode"}] /\ round[n] \in Nat
  BY DEF Inv, TypeOK
<1>2. thread[n] = "reduce" /\ thread' = [thread EXCEPT ![n] = "free"] /\ round' = round
  BY DEF tcclSharpAllReduce, Go
<1> QED
  BY <1>1, <1>2 DEF Ended, Ending

LEMMA RoundNext == Inv /\ [Next]_vars => RoundInv'
<1> SUFFICES ASSUME Inv, [Next]_vars
             PROVE  RoundInv'
  OBVIOUS
<1>0. TypeOK /\ RoundInv /\ StartInv
  BY DEF Inv
<1>1. thread'[0] \notin {"bcast", "waitwork"} /\ \A n \in Nodes : Ending(n)' => round'[n] # 0
  <2>1. ASSUME UNCHANGED <<thread, round>>
        PROVE  thread'[0] \notin {"bcast", "waitwork"} /\ \A n \in Nodes : Ending(n)' => round'[n] # 0
    BY <1>0, <2>1 DEF RoundInv, Ending
  <2>2. ASSUME NEW r \in Ranks, Host(r)
        PROVE  thread'[0] \notin {"bcast", "waitwork"} /\ \A n \in Nodes : Ending(n)' => round'[n] # 0
    <3>1. CASE StartThread(r)
      BY <1>0, <3>1, RankPair, NodeZero DEF StartThread, TypeOK, RoundInv, Ending
    <3>2. CASE tcclIsShmExist(r) \/ RecvFlag(r)
      BY <2>1, <3>2 DEF tcclIsShmExist, RecvFlag, threads
    <3>3. CASE ~ tcclIsShmExist(r) /\ ~ RecvFlag(r) /\ ~ StartThread(r)
      BY <1>0, <2>1, <2>2, <3>3, LaterHost DEF threads
    <3> QED
      BY <3>1, <3>2, <3>3
  <2>3. ASSUME NEW r \in Ranks, Stream(r)
        PROVE  UNCHANGED <<thread, round>>
    BY <2>3 DEF Stream, SetArguments, SetWork, WaitDone, threads
  <2>4. ASSUME NEW n \in Nodes, Thread(n)
        PROVE  thread'[0] \notin {"bcast", "waitwork"} /\ \A m \in Nodes : Ending(m)' => round'[m] # 0
    <3>1. CASE BeginWork(n)
      <4>1. /\ round' = [round EXCEPT ![n] = round[n] + 1]
            /\ thread' = [thread EXCEPT ![n] = IF n = 0 THEN "reduce" ELSE "bcast"]
        BY <3>1 DEF BeginWork, Go
      <4>2. thread \in [Nodes -> {"none", "poll", "init", "found", "bcast", "waitwork", "reduce",
                                  "free", "freenode"}] /\ round \in [Nodes -> Nat]
        BY <1>0 DEF TypeOK
      <4>3. thread'[0] \notin {"bcast", "waitwork"}
        BY <1>0, <4>1, <4>2, NodeZero DEF RoundInv
      <4>4. round'[n] # 0 /\ \A m \in Nodes \ {n} : round'[m] = round[m] /\ thread'[m] = thread[m]
        BY <4>1, <4>2
      <4> QED
        BY <1>0, <4>3, <4>4 DEF RoundInv, Ending
    <3>2. CASE ~ BeginWork(n)
      <4>1. /\ round' = round
            /\ \/ thread[n] = "poll" /\ thread' = [thread EXCEPT ![n] = "init"]
               \/ thread[n] = "init" /\ thread' = [thread EXCEPT ![n] = "poll"]
               \/ thread[n] = "poll" /\ thread' = [thread EXCEPT ![n] = "found"]
               \/ thread[n] = "bcast" /\ thread' = [thread EXCEPT ![n] = "waitwork"]
               \/ thread[n] = "waitwork" /\ thread' = [thread EXCEPT ![n] = "reduce"]
               \/ thread[n] = "reduce" /\ thread' = [thread EXCEPT ![n] = "free"]
               \/ thread[n] = "free" /\ thread' = [thread EXCEPT ![n] = "freenode"]
               \/ thread[n] = "freenode" /\ thread' = [thread EXCEPT ![n] = "poll"]
        BY <2>4, <3>2 DEF Thread, tcclSharpMapInit, InitDone, FindWork, RecvInfo, WaitWork,
                          tcclSharpAllReduce, FreeRank, FreeNode, Go
      <4>2. thread \in [Nodes -> {"none", "poll", "init", "found", "bcast", "waitwork", "reduce",
                                  "free", "freenode"}]
        BY <1>0 DEF TypeOK
      <4>3. \A m \in Nodes : Ending(m)' => Ending(m)
        BY <4>1, <4>2 DEF Ending
      <4>4. thread'[0] \notin {"bcast", "waitwork"}
        BY <1>0, <4>1, <4>2, NodeZero DEF RoundInv
      <4> QED
        BY <1>0, <4>1, <4>3, <4>4 DEF RoundInv
    <3> QED
      BY <3>1, <3>2
  <2> QED
    BY <2>1, <2>2, <2>3, <2>4 DEF Next, Finished, vars, threads
<1>2. ASSUME NEW m \in Nodes, NEW k \in Nodes
      PROVE  /\ Ended(m)' <= Ended(k)' + 1
             /\ Ended(m)' = Ended(k)' + 1 => thread'[k] = "reduce"
  <2>1. /\ Ended(m) <= Ended(k) + 1
        /\ Ended(m) = Ended(k) + 1 => thread[k] = "reduce"
        /\ Ended(k) <= Ended(m) + 1
    BY <1>0 DEF RoundInv
  <2>2. Ended(m) \in Int /\ Ended(k) \in Int
    BY <1>0 DEF TypeOK, Ended
  <2>3. CASE \A n \in Nodes : ~ tcclSharpAllReduce(n)
    BY <2>1, <2>3, Steady
  <2>4. ASSUME NEW n \in Nodes, tcclSharpAllReduce(n)
        PROVE  /\ Ended(m)' <= Ended(k)' + 1
               /\ Ended(m)' = Ended(k)' + 1 => thread'[k] = "reduce"
    <3>1. CASE m = k
      <4>1. Ended(k)' \in Int
        BY <2>2, <2>4, <3>1, Progress
      <4> QED
        BY <3>1, <4>1
    <3>2. CASE m = n /\ k # n
      <4>1. Ended(m)' = Ended(m) + 1 /\ Ended(k)' = Ended(k) /\ thread'[k] = thread[k]
        BY <2>4, <3>2, Progress
      <4>2. Ended(k) >= Ended(m) /\ (Ended(k) = Ended(m) => thread[k] = "reduce")
        BY <2>4, <3>2, SameRound
      <4> QED
        BY <2>2, <4>1, <4>2
    <3>3. CASE m # n /\ k = n
      <4>1. Ended(k)' = Ended(k) + 1 /\ Ended(m)' = Ended(m)
        BY <2>4, <3>3, Progress
      <4> QED
        BY <2>1, <2>2, <4>1
    <3>4. CASE m # n /\ k # n
      BY <2>1, <2>4, <3>4, Progress
    <3> QED
      BY <3>1, <3>2, <3>3, <3>4
  <2> QED
    BY <2>3, <2>4
<1> QED
  BY <1>1, <1>2 DEF RoundInv

-----------------------------------------------------------------------------
(* The barriers, and what is queued between them.                          *)

LEMMA EnterInit == Init => EnterInv
<1> SUFFICES ASSUME Init
             PROVE  EnterInv
  OBVIOUS
<1>1. \A r \in Ranks : pc[r] \in {"addr", "exist", "flag"} /\ comm[r] = 1 /\ entered[r] = 0
  BY DEF Init
<1> QED
  BY <1>1 DEF EnterInv, Entered, Early, Left

\* A host enters at most one barrier in a step.
LEMMA HostEnters ==
  ASSUME TypeOK, NEW r \in Ranks, Host(r)
  PROVE  /\ \A q \in Ranks \ {r} : pc'[q] = pc[q] /\ comm'[q] = comm[q] /\ entered'[q] = entered[q]
         /\ entered'[r] >= entered[r]
<1>1. \/ entered' = entered
      \/ entered' = [entered EXCEPT ![r] = entered[r] + 1]
  BY DEF Host, tcclIsShmExist, RecvFlag, StartThread, tcclSharpCreate, GetSharpAddr,
         LeaveBarrierAll, WaitFree, SetInit, WaitInit, LeaveBarrierNode, NextComm
<1>2. comm' = comm \/ comm' = [comm EXCEPT ![r] = comm[r] + 1]
  BY DEF Host, tcclIsShmExist, RecvFlag, StartThread, tcclSharpCreate, GetSharpAddr,
         LeaveBarrierAll, WaitFree, SetInit, WaitInit, LeaveBarrierNode, NextComm
<1>3. \E l : pc' = [pc EXCEPT ![r] = l]
  BY DEF Host, tcclIsShmExist, RecvFlag, StartThread, tcclSharpCreate, GetSharpAddr,
         LeaveBarrierAll, WaitFree, SetInit, WaitInit, LeaveBarrierNode, NextComm, Goto
<1> QED
  BY <1>1, <1>2, <1>3 DEF TypeOK

LEMMA EnterNext == Inv /\ [Next]_vars => EnterInv'
<1> SUFFICES ASSUME Inv, [Next]_vars
             PROVE  EnterInv'
  OBVIOUS
<1>0. TypeOK /\ EnterInv
  BY DEF Inv
<1>1. ASSUME UNCHANGED hosts
      PROVE  EnterInv'
  BY <1>0, <1>1 DEF EnterInv, Entered, hosts
<1>2. ASSUME NEW r \in Ranks, Host(r)
      PROVE  EnterInv'
  <2>1. /\ \A q \in Ranks \ {r} : pc'[q] = pc[q] /\ comm'[q] = comm[q] /\ entered'[q] = entered[q]
        /\ entered'[r] >= entered[r]
    BY <1>0, <1>2, HostEnters
  <2>2. /\ comm[r] \in Nat /\ \A q \in Ranks : entered[q] \in Nat
        /\ entered[r] = Entered(r)
    BY <1>0, NodeZero DEF TypeOK, EnterInv
  <2>3. \A q \in Ranks : entered'[q] >= entered[q] /\ entered'[q] \in Nat
    <3>1. TypeOK'
      BY <1>2, HostType
    <3>2. \A q \in Ranks : entered'[q] \in Nat
      BY <3>1 DEF TypeOK
    <3> QED
      BY <2>1, <2>2, <3>2
  <2>4. entered'[r] = Entered(r)'
    <3>1. CASE tcclIsShmExist(r) \/ RecvFlag(r) \/ StartThread(r) \/ tcclSharpCreate(r)
      <4>1. /\ entered' = entered /\ comm' = comm /\ pc[r] \in Early \cup {"create"}
            /\ \E l \in Early \cup {"create", "addr"} : pc' = [pc EXCEPT ![r] = l]
        BY <3>1 DEF tcclIsShmExist, RecvFlag, StartThread, tcclSharpCreate, Goto, Early
      <4> QED
        BY <1>0, <2>2, <4>1 DEF Entered, TypeOK
    <3>2. CASE GetSharpAddr(r)
      <4>1. /\ entered' = [entered EXCEPT ![r] = entered[r] + 1] /\ comm' = comm /\ pc[r] = "addr"
            /\ pc' = [pc EXCEPT ![r] = "barrier"]
        BY <3>2 DEF GetSharpAddr, Goto
      <4> QED
        BY <1>0, <2>2, <4>1 DEF Entered, Early, TypeOK
    <3>3. CASE LeaveBarrierAll(r)
      <4>1. /\ comm' = comm /\ pc[r] = "barrier"
            /\ \/ entered' = entered /\ pc' = [pc EXCEPT ![r] = "waitfree"]
               \/ /\ entered' = [entered EXCEPT ![r] = entered[r] + 1]
                  /\ pc' = [pc EXCEPT ![r] = "barriernode"]
        BY <3>3 DEF LeaveBarrierAll, Goto
      <4> QED
        BY <1>0, <2>2, <4>1 DEF Entered, Early, TypeOK
    <3>4. CASE WaitFree(r) \/ SetInit(r)
      <4>1. /\ entered' = entered /\ comm' = comm /\ pc[r] \in {"waitfree", "setinit"}
            /\ \E l \in {"setinit", "waitinit"} : pc' = [pc EXCEPT ![r] = l]
        BY <3>4 DEF WaitFree, SetInit, Goto
      <4> QED
        BY <1>0, <2>2, <4>1 DEF Entered, Early, TypeOK
    <3>5. CASE WaitInit(r)
      <4>1. /\ entered' = [entered EXCEPT ![r] = entered[r] + 1] /\ comm' = comm
            /\ pc[r] = "waitinit" /\ pc' = [pc EXCEPT ![r] = "barriernode"]
        BY <3>5 DEF WaitInit, Goto
      <4> QED
        BY <1>0, <2>2, <4>1 DEF Entered, Early, TypeOK
    <3>6. CASE LeaveBarrierNode(r)
      <4>1. /\ entered' = entered /\ comm' = comm /\ pc[r] = "barriernode"
            /\ pc' = [pc EXCEPT ![r] = "queued"]
        BY <3>6 DEF LeaveBarrierNode, Goto
      <4> QED
        BY <1>0, <2>2, <4>1 DEF Entered, Early, TypeOK
    <3>7. CASE NextComm(r)
      <4>1. /\ entered' = entered /\ comm' = [comm EXCEPT ![r] = comm[r] + 1] /\ pc[r] = "queued"
            /\ pc' = [pc EXCEPT ![r] = "addr"]
        BY <3>7 DEF NextComm, Goto
      <4> QED
        BY <1>0, <2>2, <4>1 DEF Entered, Early, TypeOK
    <3> QED
      BY <1>2, <3>1, <3>2, <3>3, <3>4, <3>5, <3>6, <3>7 DEF Host
  <2>5. ASSUME NEW q \in Ranks, pc'[r] \in Left
        PROVE  entered[q] >= 2 * comm'[r] - 1
    <3>1. CASE LeaveBarrierAll(r)
      <4>1. comm' = comm /\ pc[r] = "barrier" /\ entered[q] >= entered[r]
        BY <3>1 DEF LeaveBarrierAll
      <4>2. entered[r] = 2 * (comm[r] - 1) + 1
        BY <2>2, <4>1 DEF Entered, Early
      <4> QED
        BY <2>2, <4>1, <4>2
    <3>2. CASE WaitFree(r) \/ SetInit(r) \/ WaitInit(r) \/ LeaveBarrierNode(r)
      <4>1. comm' = comm /\ pc[r] \in Left
        BY <3>2 DEF WaitFree, SetInit, WaitInit, LeaveBarrierNode, Left
      <4> QED
        BY <1>0, <4>1 DEF EnterInv
    <3>3. CASE \/ tcclIsShmExist(r) \/ RecvFlag(r) \/ StartThread(r) \/ tcclSharpCreate(r)
               \/ GetSharpAddr(r) \/ NextComm(r)
      <4>1. \E l \in Early \cup {"create", "addr", "barrier"} : pc' = [pc EXCEPT ![r] = l]
        BY <3>3 DEF tcclIsShmExist, RecvFlag, StartThread, tcclSharpCreate, GetSharpAddr, NextComm,
                    Goto, Early
      <4> QED
        BY <1>0, <2>5, <4>1 DEF TypeOK, Left, Early
    <3> QED
      BY <1>2, <3>1, <3>2, <3>3 DEF Host
  <2>6. ASSUME NEW p \in Ranks
        PROVE  /\ entered'[p] = Entered(p)'
               /\ \A q \in Ranks : pc'[p] \in Left => entered'[q] >= 2 * comm'[p] - 1
    <3>1. CASE p = r
      <4>1. comm'[r] \in Nat
        <5>1. TypeOK'
          BY <1>2, HostType
        <5> QED
          BY <5>1, NodeZero DEF TypeOK
      <4>2. ASSUME NEW q \in Ranks, pc'[r] \in Left
            PROVE  entered'[q] >= 2 * comm'[r] - 1
        <5>1. /\ entered[q] >= 2 * comm'[r] - 1 /\ entered'[q] >= entered[q]
              /\ entered[q] \in Nat /\ entered'[q] \in Nat
          BY <2>2, <2>3, <2>5, <4>2
        <5> QED
          BY <4>1, <5>1
      <4> QED
        BY <2>4, <3>1, <4>2
    <3>2. CASE p # r
      <4>1. /\ pc'[p] = pc[p] /\ comm'[p] = comm[p] /\ entered'[p] = entered[p]
            /\ comm[p] \in Nat
        BY <1>0, <2>1, <3>2, NodeZero DEF TypeOK
      <4>2. ASSUME NEW q \in Ranks, pc[p] \in Left
            PROVE  entered'[q] >= 2 * comm[p] - 1
        <5>1. /\ entered[q] >= 2 * comm[p] - 1 /\ entered'[q] >= entered[q]
              /\ entered[q] \in Nat /\ entered'[q] \in Nat
          BY <1>0, <2>2, <2>3, <4>2 DEF EnterInv
        <5> QED
          BY <4>1, <5>1
      <4> QED
        BY <1>0, <4>1, <4>2 DEF EnterInv, Entered
    <3> QED
      BY <3>1, <3>2
  <2> QED
    BY <2>6 DEF EnterInv
<1>3. ASSUME NEW r \in Ranks, Stream(r)
      PROVE  UNCHANGED hosts
  BY <1>3 DEF Stream, SetArguments, SetWork, WaitDone
<1>4. ASSUME NEW n \in Nodes, Thread(n)
      PROVE  UNCHANGED hosts
  BY <1>4, <1>0, ThreadGoes
<1> QED
  BY <1>1, <1>2, <1>3, <1>4 DEF Next, Finished, vars

LEMMA QuietInit == Init => QuietInv
BY DEF Init, QuietInv

-----------------------------------------------------------------------------
(* What the nodes are told.                                                *)

LEMMA PickInit == Init => PickInv
BY NodeZero DEF Init, PickInv, ToldInv, Told, ZERO

\* A new communicator is given with the status INIT only.
LEMMA CommportNext ==
  ASSUME Inv, [Next]_vars, NEW m \in Nodes, ctl'[m].status = "INIT"
  PROVE  ctl'[m].commport \in Comms
<1>0. TypeOK /\ PickInv
  BY DEF Inv
<1>1. ctl \in [Nodes -> [status : Statuses, commport : 0 .. NumComms]]
  BY <1>0 DEF TypeOK
<1>2. ctl[m].status = "INIT" => ctl[m].commport \in Comms
  BY <1>0 DEF PickInv
<1>3. ASSUME ctl' = ctl
      PROVE  ctl'[m].commport \in Comms
  BY <1>2, <1>3
<1>4. ASSUME NEW n \in Nodes, NEW s \in {"COMM", "FREE", "WORK"}, SetStatus(n, s)
      PROVE  ctl'[m].commport \in Comms
  <2>1. ctl' = [ctl EXCEPT ![n] = [ctl[n] EXCEPT !.status = s]]
    BY <1>1, <1>4 DEF SetStatus
  <2>2. m # n
    BY <1>1, <1>4, <2>1
  <2> QED
    BY <1>1, <1>2, <2>1, <2>2
<1>5. ASSUME NEW r \in Ranks, Host(r)
      PROVE  ctl'[m].commport \in Comms
  <2>1. CASE SetInit(r)
    <3>1. ctl' = [ctl EXCEPT ![node_id(r)] = [status |-> "INIT", commport |-> comm[r]]]
      BY <2>1 DEF SetInit
    <3>2. comm[r] \in Comms
      BY <1>0 DEF TypeOK
    <3> QED
      BY <1>1, <1>2, <3>1, <3>2
  <2>2. CASE StartThread(r) \/ tcclSharpCreate(r)
    BY <1>4, <2>2, RankPair DEF StartThread, tcclSharpCreate
  <2>3. CASE ~ SetInit(r) /\ ~ StartThread(r) /\ ~ tcclSharpCreate(r)
    BY <1>3, <1>5, <2>3 DEF Host, tcclIsShmExist, RecvFlag, GetSharpAddr, LeaveBarrierAll, WaitFree,
                            WaitInit, LeaveBarrierNode, NextComm
  <2> QED
    BY <2>1, <2>2, <2>3
<1>6. ASSUME NEW r \in Ranks, Stream(r)
      PROVE  ctl' = ctl
  BY <1>6 DEF Stream, SetArguments, SetWork, WaitDone
<1>7. ASSUME NEW n \in Nodes, Thread(n)
      PROVE  ctl' = ctl \/ SetStatus(n, "FREE") \/ SetStatus(n, "WORK")
  BY <1>7 DEF Thread, tcclSharpMapInit, InitDone, FindWork, BeginWork, RecvInfo, WaitWork,
              tcclSharpAllReduce, FreeRank, FreeNode
<1> QED
  BY <1>3, <1>4, <1>5, <1>6, <1>7 DEF Next, Finished, vars

\* Node 0 is in the round of a node that gets its choice, about to reduce.
LEMMA RootIsThere ==
  ASSUME Inv, NEW n \in Nodes, RecvInfo(n)
  PROVE  n # 0 /\ round[0] = round[n] /\ thread[0] = "reduce" /\ info = pick[0]
<1>1. TypeOK /\ RoundInv /\ PickInv
  BY DEF Inv
<1>2. thread[n] = "bcast" /\ round[0] >= round[n]
  BY DEF RecvInfo
<1>3. round[0] \in Nat /\ round[n] \in Nat /\ 0 \in Nodes
  BY <1>1, NodeZero DEF TypeOK
<1>4. n # 0
  BY <1>1, <1>2 DEF RoundInv
<1>5. Ended(0) <= Ended(n) /\ Ended(n) = round[n] - 1
  <2>1. Ended(n) = round[n] - 1
    BY <1>2 DEF Ended, Ending
  <2>2. Ended(0) <= Ended(n) + 1 /\ Ended(0) # Ended(n) + 1
    BY <1>1, <1>2, <1>3 DEF RoundInv
  <2>3. Ended(0) \in Int
    BY <1>3 DEF Ended
  <2> QED
    BY <1>3, <2>1, <2>2, <2>3
<1>6. Ending(0) /\ round[0] = round[n]
  BY <1>2, <1>3, <1>5 DEF Ended
<1>7. thread[0] = "reduce"
  BY <1>1, <1>6 DEF RoundInv, Ending
<1> QED
  BY <1>1, <1>4, <1>6, <1>7 DEF PickInv, ToldInv

\* What a thread works on is an entry of its maps.
LEMMA PickType ==
  ASSUME Inv, NEW n \in Nodes,
         thread[n] \in {"found", "bcast", "waitwork", "reduce", "free", "freenode"}
  PROVE  pick[n][1] \in Comms /\ pick[n][2] \in RankNos /\ pick[n] = <<pick[n][1], pick[n][2]>>
BY DEF Inv, TypeOK, PickInv, ToldInv, Told

\* Without Overlap the queue of a rank is what it has queued last.
LEMMA DueComm ==
  ASSUME Inv, NEW n \in Nodes, NEW c \in Comms, NEW i \in RankNos, map[n][c][i].status = "WORK"
  PROVE  pc[<<n, i>>] = "queued" /\ comm[<<n, i>>] = c
<1> DEFINE r == <<n, i>>
<1>1. r \in Ranks
  BY DEF Ranks
<1>2. spc[r] = "work" /\ Head(queue[r])[1] = c
  BY DEF Inv, MapInv, WorkInv
<1> HIDE DEF r
<1>3. queue[r] # <<>>
  BY <1>1, <1>2 DEF Inv, MapInv, EntryInv
<1>4. Head(queue[r]) = queue[r][1] /\ 1 \in 1 .. Len(queue[r])
  BY <1>1, <1>3, HeadType DEF Inv
<1>5. pc[r] = "queued" /\ comm[r] = c
  BY <1>1, <1>2, <1>3, <1>4 DEF Inv, QuietInv
<1> QED
  BY <1>5 DEF r

\* A node that is told has taken in the communicator: that of its own pick.
LEMMA RootsChoice ==
  ASSUME Inv, NEW n \in Nodes, RecvInfo(n)
  PROVE  pick' = [pick EXCEPT ![n] = info]
<1>1. /\ 0 \in Nodes /\ thread[0] = "reduce" /\ info = pick[0] /\ thread[n] = "bcast"
      /\ pick' = IF Taken(n, info[1]) THEN [pick EXCEPT ![n] = info] ELSE pick
  BY RootIsThere, NodeZero DEF RecvInfo
<1> DEFINE c == pick[0][1]
<1> DEFINE i == pick[0][2]
<1> DEFINE d == pick[n][1]
<1> DEFINE j == pick[n][2]
<1>2. c \in Comms /\ i \in RankNos /\ d \in Comms /\ j \in RankNos
  BY <1>1, PickType
<1>3. map[0][c][i].status = "WORK" /\ map[n][d][j].status = "WORK"
  BY <1>1 DEF Inv, MapInv, DueInv, Picked
<1> HIDE DEF c, i, d, j
<1>4. /\ pc[<<0, i>>] = "queued" /\ comm[<<0, i>>] = c
      /\ pc[<<n, j>>] = "queued" /\ comm[<<n, j>>] = d
  BY <1>1, <1>2, <1>3, DueComm
<1>5. <<0, i>> \in Ranks /\ <<n, j>> \in Ranks
  BY <1>1, <1>2 DEF Ranks
<1>6. entered[<<0, i>>] = 2 * (c - 1) + 2 /\ entered[<<n, j>>] = 2 * (d - 1) + 2
  BY <1>4, <1>5 DEF Inv, EnterInv, Entered, Early
<1>7. entered[<<n, j>>] >= 2 * c - 1 /\ entered[<<0, i>>] >= 2 * d - 1
  BY <1>4, <1>5 DEF Inv, EnterInv, Left
<1>8. c = d
  <2>1. c \in Nat /\ d \in Nat
    BY <1>2, NodeZero
  <2> QED
    BY <1>6, <1>7, <2>1
<1>9. Taken(n, c)
  BY <1>2, <1>3, <1>8 DEF Inv, MapInv, TakenInv, ZERO
<1> QED
  BY <1>1, <1>9 DEF c

\* A step that leaves a node where it was, or brings it to where nothing is
\* said of it, or on once it has been told.
LEMMA PickOn ==
  ASSUME TypeOK, ToldInv, NEW n \in Nodes,
         NEW l, thread' = [thread EXCEPT ![n] = l], UNCHANGED <<round, pick, info>>,
         \/ l \notin {"found", "bcast", "waitwork", "reduce", "free", "freenode"}
         \/ Told(n) /\ l \in {"free", "freenode"}
         \/ Told(n) /\ l = "reduce" /\ n # 0
  PROVE  ToldInv'
<1>1. thread \in [Nodes -> {"none", "poll", "init", "found", "bcast", "waitwork", "reduce",
                            "free", "freenode"}]
  BY DEF TypeOK
<1>2. ASSUME NEW m \in Nodes
      PROVE  (Told(m)' => Told(m)) /\ (thread'[m] \in {"found", "bcast"} => thread[m] \in {"found", "bcast"})
  BY <1>1 DEF Told
<1>3. thread'[0] = "reduce" => thread[0] = "reduce"
  BY <1>1, NodeZero
<1> QED
  BY <1>2, <1>3 DEF ToldInv

LEMMA PickNext == Inv /\ [Next]_vars => PickInv'
<1> SUFFICES ASSUME Inv, [Next]_vars
             PROVE  ToldInv'
  BY CommportNext DEF PickInv
<1>0. TypeOK /\ ToldInv /\ RoundInv
  BY DEF Inv, PickInv
<1>1. /\ thread \in [Nodes -> {"none", "poll", "init", "found", "bcast", "waitwork", "reduce",
                               "free", "freenode"}]
      /\ round \in [Nodes -> Nat]
      /\ pick \in [Nodes -> (0 .. NumComms) \X RankNos]
  BY <1>0 DEF TypeOK
<1>2. ASSUME UNCHANGED threads
      PROVE  ToldInv'
  BY <1>0, <1>2 DEF ToldInv, Told, threads
<1>3. ASSUME NEW r \in Ranks, Host(r)
      PROVE  ToldInv'
  <2>1. CASE StartThread(r)
    <3>1. thread' = [thread EXCEPT ![node_id(r)] = "poll"] /\ UNCHANGED <<round, pick, info>>
      BY <2>1 DEF StartThread
    <3> QED
      BY <1>0, <3>1, PickOn, RankPair
  <2>2. CASE tcclIsShmExist(r) \/ RecvFlag(r)
    BY <1>2, <2>2 DEF tcclIsShmExist, RecvFlag
  <2>3. CASE ~ tcclIsShmExist(r) /\ ~ RecvFlag(r) /\ ~ StartThread(r)
    BY <1>0, <1>2, <1>3, <2>3, LaterHost
  <2> QED
    BY <2>1, <2>2, <2>3
<1>4. ASSUME NEW r \in Ranks, Stream(r)
      PROVE  UNCHANGED threads
  BY <1>4 DEF Stream, SetArguments, SetWork, WaitDone
<1>5. ASSUME NEW n \in Nodes, Thread(n)
      PROVE  ToldInv'
  <2>1. CASE tcclSharpMapInit(n)
    <3>1. thread' = [thread EXCEPT ![n] = "init"] /\ UNCHANGED <<round, pick, info>>
      BY <2>1 DEF tcclSharpMapInit, Go
    <3> QED
      BY <1>0, <3>1, PickOn
  <2>2. CASE InitDone(n) \/ FreeNode(n)
    <3>1. thread' = [thread EXCEPT ![n] = "poll"] /\ UNCHANGED <<round, pick, info>>
      BY <2>2 DEF InitDone, FreeNode, Go
    <3> QED
      BY <1>0, <3>1, PickOn
  <2>3. CASE FindWork(n)
    <3>1. PICK k \in 1 .. Len(sharpMap[n]), i \in RankNos :
                 pick' = [pick EXCEPT ![n] = <<sharpMap[n][k], i>>]
      BY <2>3 DEF FindWork
    <3>2. sharpMap[n] \in Seq(Comms)
      BY <1>0 DEF TypeOK
    <3>3. pick'[n][1] \in Comms
      BY <1>1, <3>1, <3>2
    <3>4. thread' = [thread EXCEPT ![n] = "found"] /\ round' = round /\ info' = info
      BY <2>3 DEF FindWork, Go
    <3>5. \A m \in Nodes \ {n} : pick'[m] = pick[m] /\ thread'[m] = thread[m]
      BY <1>1, <3>1, <3>4
    <3>6. thread'[n] = "found"
      BY <1>1, <3>4
    <3> QED
      BY <1>0, <3>3, <3>4, <3>5, <3>6, NodeZero DEF ToldInv, Told
  <2>4. CASE BeginWork(n)
    <3>1. /\ thread[n] = "found" /\ pick' = pick
          /\ round' = [round EXCEPT ![n] = round[n] + 1]
          /\ thread' = [thread EXCEPT ![n] = IF n = 0 THEN "reduce" ELSE "bcast"]
          /\ IF n = 0 THEN info' = pick[n] ELSE info' = info
      BY <2>4 DEF BeginWork, Go
    <3>2. \A m \in Nodes \ {n} : round'[m] = round[m] /\ thread'[m] = thread[m]
      BY <1>1, <3>1
    <3>3. round'[n] = round[n] + 1 /\ thread'[n] = (IF n = 0 THEN "reduce" ELSE "bcast")
      BY <1>1, <3>1
    <3>4. CASE n = 0
      <4>1. pick[0][1] \in Comms
        BY <1>0, <3>1, <3>4 DEF ToldInv
      <4>2. \A m \in Nodes \ {0} : Told(m) => round[m] <= round[0]
        BY <1>0 DEF ToldInv
      <4>3. \A m \in Nodes \ {0} : Told(m)' => round'[m] < round'[0]
        BY <1>1, <3>2, <3>3, <3>4, <4>2, NodeZero DEF Told
      <4>4. \A m \in Nodes : round'[m] <= round'[m]
        BY <1>1, <3>1
      <4> QED
        BY <1>0, <1>1, <3>1, <3>2, <3>3, <3>4, <4>1, <4>3, <4>4, NodeZero DEF ToldInv, Told
    <3>5. CASE n # 0
      <4>1. ~ Told(n)' /\ thread'[0] = thread[0] /\ round'[0] = round[0]
        BY <3>2, <3>3, <3>5, NodeZero DEF Told
      <4>2. pick[n][1] \in Comms
        BY <1>0, <3>1 DEF ToldInv
      <4> QED
        BY <1>0, <3>1, <3>2, <3>5, <4>1, <4>2 DEF ToldInv, Told
    <3> QED
      BY <3>4, <3>5
  <2>5. CASE RecvInfo(n)
    <3>1. n # 0 /\ round[0] = round[n] /\ thread[0] = "reduce" /\ info = pick[0]
      BY <2>5, RootIsThere
    <3>2. /\ pick' = [pick EXCEPT ![n] = info] /\ round' = round /\ info' = info
          /\ thread' = [thread EXCEPT ![n] = "waitwork"]
      BY <2>5, RootsChoice DEF RecvInfo, Go
    <3>3. pick'[n] = pick[0] /\ \A m \in Nodes \ {n} : pick'[m] = pick[m] /\ thread'[m] = thread[m]
      BY <1>1, <3>1, <3>2
    <3>4. Told(0) /\ pick[0][1] \in Comms
      BY <1>0, <3>1, NodeZero DEF ToldInv, Told
    <3>5. ASSUME NEW m \in Nodes \ {n}, Told(m)', round'[m] = round'[n]
          PROVE  pick'[m] = pick'[n]
      BY <1>0, <3>1, <3>2, <3>3, <3>4, <3>5, NodeZero DEF ToldInv, Told
    <3>6. round'[n] <= round'[0]
      BY <1>1, <3>1, <3>2, NodeZero
    <3>7. /\ \A m \in Nodes : thread'[m] \in {"found", "bcast"} \/ Told(m)' => pick'[m][1] \in Comms
          /\ thread'[0] = "reduce" => info' = pick'[0]
          /\ \A m \in Nodes : Told(m)' => round'[m] <= round'[0]
      BY <1>0, <3>1, <3>2, <3>3, <3>4, <3>6, NodeZero DEF ToldInv, Told
    <3>8. ASSUME NEW m \in Nodes, NEW k \in Nodes, Told(m)', Told(k)', round'[m] = round'[k]
          PROVE  pick'[m] = pick'[k]
      <4>1. CASE m # n /\ k # n
        BY <1>0, <3>2, <3>3, <3>8, <4>1 DEF ToldInv, Told
      <4> QED
        BY <3>5, <3>8, <4>1
    <3> QED
      BY <3>7, <3>8 DEF ToldInv
  <2>6. CASE WaitWork(n)
    <3>1. thread[n] = "waitwork" /\ thread' = [thread EXCEPT ![n] = "reduce"]
          /\ UNCHANGED <<round, pick, info>>
      BY <2>6 DEF WaitWork, Go
    <3>2. n # 0 /\ Told(n)
      BY <1>0, <3>1 DEF RoundInv, Told
    <3> QED
      BY <1>0, <3>1, <3>2, PickOn
  <2>7. CASE tcclSharpAllReduce(n)
    <3>1. thread[n] = "reduce" /\ thread' = [thread EXCEPT ![n] = "free"]
          /\ UNCHANGED <<round, pick, info>>
      BY <2>7 DEF tcclSharpAllReduce, Go
    <3> QED
      BY <1>0, <3>1, PickOn DEF Told
  <2>8. CASE FreeRank(n)
    <3>1. thread[n] = "free" /\ thread' = [thread EXCEPT ![n] = "freenode"]
          /\ UNCHANGED <<round, pick, info>>
      BY <2>8 DEF FreeRank, Go
    <3> QED
      BY <1>0, <3>1, PickOn DEF Told
  <2> QED
    BY <1>5, <2>1, <2>2, <2>3, <2>4, <2>5, <2>6, <2>7, <2>8 DEF Thread
<1> QED
  BY <1>2, <1>3, <1>4, <1>5 DEF Next, Finished, vars

-----------------------------------------------------------------------------
(* The queues of the streams.                                              *)

LEMMA QueueInit == Init => QueueInv
<1> SUFFICES ASSUME Init, NEW r \in Ranks
             PROVE  queue[r] = <<>>
  BY DEF QueueInv
<1> QED
  BY DEF Init

\* What a rank has created it keeps, and what its queue holds is queued when
\* the communicator is complete.
LEMMA CreatedKept ==
  ASSUME TypeOK, NEW r \in Ranks, Host(r), NEW q \in Ranks, NEW x \in Comms \X (1 .. NumReductions)
  PROVE  \/ LeaveBarrierNode(r) /\ q = r /\ pc[r] = "barriernode" /\ pc'[r] = "queued" /\ comm' = comm
         \/ Created(q, x)' <=> Created(q, x)
<1>1. pc \in [Ranks -> {"exist", "flag", "memset", "create", "addr", "barrier", "waitfree",
                        "setinit", "waitinit", "barriernode", "queued"}]
      /\ comm \in [Ranks -> Comms] /\ comm[q] \in Nat /\ x[1] \in Nat
  BY NodeZero DEF TypeOK
<1>2. CASE NextComm(r)
  <2>1. pc[r] = "queued" /\ pc' = [pc EXCEPT ![r] = "addr"] /\ comm' = [comm EXCEPT ![r] = comm[r] + 1]
    BY <1>2 DEF NextComm, Goto
  <2> QED
    BY <1>1, <2>1 DEF Created
<1>3. CASE LeaveBarrierNode(r)
  <2>1. pc[r] = "barriernode" /\ pc' = [pc EXCEPT ![r] = "queued"] /\ comm' = comm
    BY <1>3 DEF LeaveBarrierNode, Goto
  <2> QED
    BY <1>1, <1>3, <2>1 DEF Created
<1>4. CASE ~ NextComm(r) /\ ~ LeaveBarrierNode(r)
  <2>1. comm' = comm /\ pc[r] # "queued" /\ \E l : l # "queued" /\ pc' = [pc EXCEPT ![r] = l]
    BY <1>4 DEF Host, tcclIsShmExist, RecvFlag, StartThread, tcclSharpCreate, GetSharpAddr,
                LeaveBarrierAll, WaitFree, SetInit, WaitInit, Goto
  <2> QED
    BY <1>1, <2>1 DEF Created
<1> QED
  BY <1>2, <1>3, <1>4

\* The reductions of a communicator go to the end of the queue.
LEMMA QueueGrows ==
  ASSUME TypeOK, NEW r \in Ranks, LeaveBarrierNode(r)
  PROVE  /\ \A q \in Ranks \ {r} : queue'[q] = queue[q]
         /\ Len(queue'[r]) = Len(queue[r]) + NumReductions
         /\ \A k \in 1 .. Len(queue[r]) : queue'[r][k] = queue[r][k]
         /\ \A k \in 1 .. NumReductions : queue'[r][Len(queue[r]) + k] = <<comm[r], k>>
<1> DEFINE S == Comms \X (1 .. NumReductions)
<1> DEFINE new == [k \in 1 .. NumReductions |-> <<comm[r], k>>]
<1>1. queue \in [Ranks -> Seq(S)] /\ queue' = [queue EXCEPT ![r] = queue[r] \o new]
  BY DEF LeaveBarrierNode, TypeOK
<1>2. new \in Seq(S) /\ Len(new) = NumReductions /\ NumReductions \in Nat
  BY NewType, SizesAssumption
<1>3. \A k \in 1 .. NumReductions : new[k] = <<comm[r], k>>
  OBVIOUS
<1> HIDE DEF S, new
<1>4. queue[r] \in Seq(S) /\ Len(queue[r]) \in Nat /\ queue'[r] = queue[r] \o new
  BY <1>1
<1>5. /\ Len(queue[r] \o new) = Len(queue[r]) + NumReductions
      /\ \A k \in 1 .. Len(queue[r]) + NumReductions :
           (queue[r] \o new)[k] = IF k <= Len(queue[r]) THEN queue[r][k] ELSE new[k - Len(queue[r])]
  BY <1>2, <1>4, ConcatProperties
<1>6. ASSUME NEW k \in 1 .. NumReductions
      PROVE  (queue[r] \o new)[Len(queue[r]) + k] = <<comm[r], k>>
  <2>1. Len(queue[r]) + k \in 1 .. Len(queue[r]) + NumReductions
    BY <1>2, <1>4
  <2>2. ~ (Len(queue[r]) + k <= Len(queue[r])) /\ (Len(queue[r]) + k) - Len(queue[r]) = k
    BY <1>2, <1>4
  <2>3. (queue[r] \o new)[Len(queue[r]) + k] = new[(Len(queue[r]) + k) - Len(queue[r])]
    BY <1>5, <2>1, <2>2
  <2> QED
    BY <1>3, <2>2, <2>3
<1>7. \A k \in 1 .. Len(queue[r]) : (queue[r] \o new)[k] = queue[r][k]
  BY <1>2, <1>4, <1>5
<1>8. \A q \in Ranks \ {r} : queue'[q] = queue[q]
  BY <1>1
<1> QED
  BY <1>4, <1>5, <1>6, <1>7, <1>8

\* The stream takes its reductions from the front.
LEMMA QueueShrinks ==
  ASSUME TypeOK, NEW r \in Ranks, WaitDone(r), queue[r] # <<>>
  PROVE  /\ \A q \in Ranks \ {r} : queue'[q] = queue[q]
         /\ Len(queue'[r]) = Len(queue[r]) - 1
         /\ \A k \in 1 .. Len(queue[r]) - 1 : queue'[r][k] = queue[r][k + 1]
<1> DEFINE S == Comms \X (1 .. NumReductions)
<1>1. queue \in [Ranks -> Seq(S)] /\ queue' = [queue EXCEPT ![r] = Tail(queue[r])]
  BY DEF WaitDone, TypeOK
<1> HIDE DEF S
<1>2. queue[r] \in Seq(S) /\ queue'[r] = Tail(queue[r])
  BY <1>1
<1>3. /\ Len(Tail(queue[r])) = Len(queue[r]) - 1
      /\ \A k \in 1 .. Len(Tail(queue[r])) : Tail(queue[r])[k] = queue[r][k + 1]
  BY <1>2, HeadTailProperties
<1> QED
  BY <1>1, <1>2, <1>3

\* Steps of a stream other than this one leave the queues alone, as do those
\* of threads.
LEMMA QueueNext == Inv /\ [Next]_vars => QueueInv'
<1> SUFFICES ASSUME Inv, [Next]_vars
             PROVE  QueueInv'
  OBVIOUS
<1>0. TypeOK /\ QueueInv /\ MapInv
  BY DEF Inv
<1> DEFINE S == Comms \X (1 .. NumReductions)
<1>1. ASSUME NEW q \in Ranks
      PROVE  /\ queue[q] \in Seq(S) /\ Len(queue[q]) \in Nat
             /\ \A k \in 1 .. Len(queue[q]) : queue[q][k] \in S /\ queue[q][k][1] \in Nat
                                              /\ Created(q, queue[q][k])
             /\ \A k, l \in 1 .. Len(queue[q]) : k < l => Before(queue[q][k], queue[q][l])
  <2>1. queue[q] \in Seq(S)
    BY <1>0 DEF TypeOK
  <2>2. \A k \in 1 .. Len(queue[q]) : queue[q][k] \in S
    BY <2>1
  <2>3. \A k \in 1 .. Len(queue[q]) : queue[q][k][1] \in Nat
    BY <2>2, NodeZero
  <2> QED
    BY <1>0, <2>1, <2>2, <2>3 DEF QueueInv
<1>2. ASSUME UNCHANGED <<queue, pc, comm>>
      PROVE  QueueInv'
  BY <1>0, <1>2 DEF QueueInv, Created, Before
<1>3. ASSUME NEW r \in Ranks, Host(r)
      PROVE  QueueInv'
  <2>1. CASE LeaveBarrierNode(r)
    <3>1. pc[r] = "barriernode" /\ pc' = [pc EXCEPT ![r] = "queued"] /\ comm' = comm
      BY <2>1 DEF LeaveBarrierNode, Goto
    <3>2. ASSUME NEW q \in Ranks \ {r}
          PROVE  /\ \A k \in 1 .. Len(queue'[q]) : Created(q, queue[q][k])'
                 /\ \A k, l \in 1 .. Len(queue'[q]) : k < l => Before(queue'[q][k], queue'[q][l])
      <4>1. queue'[q] = queue[q] /\ pc'[q] = pc[q]
        BY <1>0, <2>1, <3>1, QueueGrows DEF TypeOK
      <4> QED
        BY <1>1, <3>1, <4>1 DEF Created
    <3>3. pc'[r] = "queued" /\ pc[r] # "queued" /\ comm[r] \in Nat
      BY <1>0, <3>1, NodeZero DEF TypeOK
    <3> DEFINE L == Len(queue[r])
    <3>4. /\ Len(queue'[r]) = L + NumReductions /\ L \in Nat /\ NumReductions \in Nat
          /\ \A k \in 1 .. L : queue'[r][k] = queue[r][k]
          /\ \A k \in 1 .. NumReductions : queue'[r][L + k] = <<comm[r], k>>
      BY <1>0, <1>1, <2>1, QueueGrows, SizesAssumption
    <3> HIDE DEF L
    <3>5. ASSUME NEW k \in 1 .. Len(queue'[r])
          PROVE  k \in 1 .. L \/ \E j \in 1 .. NumReductions : k = L + j
      <4>1. k \in 1 .. L \/ (k - L \in 1 .. NumReductions /\ k = L + (k - L))
        BY <3>4
      <4> QED
        BY <4>1
    <3>6. \A k \in 1 .. L : queue[r][k][1] < comm[r] /\ queue[r][k][1] \in Nat
      BY <1>1, <3>3 DEF Created, L
    <3>7. ASSUME NEW k \in 1 .. Len(queue'[r])
          PROVE  Created(r, queue[r][k])'
      <4>1. queue'[r][k][1] <= comm[r] /\ queue'[r][k][1] \in Nat
        <5>1. CASE k \in 1 .. L
          <6>1. queue'[r][k] = queue[r][k] /\ queue[r][k][1] < comm[r] /\ queue[r][k][1] \in Nat
            BY <3>4, <3>6, <5>1
          <6> QED
            BY <3>3, <6>1
        <5>2. ASSUME NEW j \in 1 .. NumReductions, k = L + j
              PROVE  queue'[r][k][1] <= comm[r] /\ queue'[r][k][1] \in Nat
          <6>1. queue'[r][k] = <<comm[r], j>>
            BY <3>4, <5>2
          <6> QED
            BY <3>3, <6>1
        <5> QED
          BY <3>5, <5>1, <5>2
      <4> QED
        BY <3>1, <3>3, <4>1 DEF Created
    <3>8. ASSUME NEW k \in 1 .. Len(queue'[r]), NEW l \in 1 .. Len(queue'[r]), k < l
          PROVE  Before(queue'[r][k], queue'[r][l])
      <4>1. CASE l \in 1 .. L
        <5>1. k \in 1 .. L
          BY <3>4, <3>8, <4>1
        <5> QED
          BY <1>1, <3>4, <3>8, <4>1, <5>1 DEF L
      <4>2. CASE \E j \in 1 .. NumReductions : l = L + j
        <5>1. PICK j \in 1 .. NumReductions : l = L + j
          BY <4>2
        <5>2. queue'[r][l] = <<comm[r], j>>
          BY <3>4, <5>1
        <5>3. CASE k \in 1 .. L
          <6>1. queue'[r][k] = queue[r][k] /\ queue[r][k][1] < comm[r]
            BY <3>4, <3>6, <5>3
          <6> QED
            BY <5>2, <6>1 DEF Before
        <5>4. CASE \E h \in 1 .. NumReductions : k = L + h
          <6>1. PICK h \in 1 .. NumReductions : k = L + h
            BY <5>4
          <6>2. queue'[r][k] = <<comm[r], h>> /\ h < j
            <7>1. h \in Nat /\ j \in Nat /\ L \in Nat /\ L + h < L + j
              BY <3>4, <3>8, <5>1, <6>1
            <7>2. h < j
              BY <7>1
            <7>3. queue'[r][k] = <<comm[r], h>>
              BY <3>4, <6>1
            <7> QED
              BY <7>2, <7>3
          <6> QED
            BY <5>2, <6>2 DEF Before
        <5> QED
          BY <3>5, <5>3, <5>4
      <4> QED
        BY <3>5, <4>1, <4>2
    <3> QED
      BY <3>2, <3>7, <3>8 DEF QueueInv, Before
  <2>2. CASE ~ LeaveBarrierNode(r)
    <3>1. queue' = queue
      BY <1>3, <2>2 DEF Host, tcclIsShmExist, RecvFlag, StartThread, tcclSharpCreate, GetSharpAddr,
                        LeaveBarrierAll, WaitFree, SetInit, WaitInit, NextComm, streams
    <3>2. ASSUME NEW q \in Ranks, NEW k \in 1 .. Len(queue[q])
          PROVE  Created(q, queue[q][k])'
      <4>1. Created(q, queue[q][k]) /\ queue[q][k] \in S
        BY <1>1
      <4> QED
        BY <1>0, <1>3, <2>2, <3>1, <4>1, CreatedKept DEF Created
    <3> QED
      BY <1>1, <3>1, <3>2 DEF QueueInv, Before, Created
  <2> QED
    BY <2>1, <2>2
<1>4. ASSUME NEW r \in Ranks, Stream(r)
      PROVE  QueueInv'
  <2>1. CASE WaitDone(r)
    <3>1. pc' = pc /\ comm' = comm
      BY <2>1 DEF WaitDone, hosts
    <3>2. queue[r] # <<>>
      BY <1>0, <2>1 DEF WaitDone, MapInv, EntryInv
    <3>3. /\ \A q \in Ranks \ {r} : queue'[q] = queue[q]
          /\ Len(queue'[r]) = Len(queue[r]) - 1
          /\ \A k \in 1 .. Len(queue[r]) - 1 : queue'[r][k] = queue[r][k + 1]
      BY <1>0, <2>1, <3>2, QueueShrinks
    <3>4. ASSUME NEW k \in 1 .. Len(queue'[r])
          PROVE  k \in Nat /\ k + 1 \in 1 .. Len(queue[r]) /\ queue'[r][k] = queue[r][k + 1]
      <4>1. Len(queue[r]) \in Nat
        BY <1>1
      <4>2. Len(queue'[r]) = Len(queue[r]) - 1
        BY <3>3
      <4>3. k \in 1 .. Len(queue[r]) - 1 /\ k \in Nat /\ k + 1 \in 1 .. Len(queue[r])
        BY <4>1, <4>2
      <4> QED
        BY <3>3, <4>3
    <3>5. \A k \in 1 .. Len(queue'[r]) : Created(r, queue[r][k])'
      BY <1>1, <3>1, <3>4 DEF Created
    <3>6. ASSUME NEW k \in 1 .. Len(queue'[r]), NEW l \in 1 .. Len(queue'[r]), k < l
          PROVE  Before(queue'[r][k], queue'[r][l])
      <4>1. /\ k \in Nat /\ k + 1 \in 1 .. Len(queue[r]) /\ queue'[r][k] = queue[r][k + 1]
            /\ l \in Nat /\ l + 1 \in 1 .. Len(queue[r]) /\ queue'[r][l] = queue[r][l + 1]
        BY <3>4
      <4>2. k + 1 < l + 1
        BY <3>6, <4>1
      <4>3. Before(queue[r][k + 1], queue[r][l + 1])
        BY <1>1, <4>1, <4>2
      <4> QED
        BY <4>1, <4>3
    <3>7. ASSUME NEW q \in Ranks \ {r}
          PROVE  /\ \A k \in 1 .. Len(queue'[q]) : Created(q, queue[q][k])'
                 /\ \A k, l \in 1 .. Len(queue'[q]) : k < l => Before(queue'[q][k], queue'[q][l])
      <4>1. queue'[q] = queue[q]
        BY <3>3
      <4> QED
        BY <1>1, <3>1, <4>1 DEF Created
    <3> QED
      BY <3>5, <3>6, <3>7 DEF QueueInv, Before
  <2>2. CASE SetArguments(r) \/ SetWork(r)
    BY <1>2, <2>2 DEF SetArguments, SetWork, hosts
  <2> QED
    BY <1>4, <2>1, <2>2 DEF Stream
<1>5. ASSUME NEW n \in Nodes, Thread(n)
      PROVE  UNCHANGED <<queue, pc, comm>>
  BY <1>5 DEF Thread, tcclSharpMapInit, InitDone, FindWork, BeginWork, RecvInfo, WaitWork,
              tcclSharpAllReduce, FreeRank, FreeNode, hosts, streams
<1> QED
  BY <1>2, <1>3, <1>4, <1>5 DEF Next, Finished, vars, hosts, streams

\* Without Overlap a host goes on when its queue is empty.
LEMMA QuietNext ==
  ASSUME ~ Overlap, Inv, [Next]_vars
  PROVE  QuietInv'
<1>0. TypeOK /\ QuietInv /\ MapInv
  BY DEF Inv
<1>1. ASSUME UNCHANGED <<pc, comm, queue>>
      PROVE  QuietInv'
  BY <1>0, <1>1 DEF QuietInv
<1>2. ASSUME NEW r \in Ranks, Host(r)
      PROVE  QuietInv'
  <2>1. \A q \in Ranks \ {r} : pc'[q] = pc[q] /\ comm'[q] = comm[q]
    BY <1>0, <1>2, HostEnters
  <2>2. CASE LeaveBarrierNode(r)
    <3>1. queue[r] = <<>> /\ comm' = comm /\ pc' = [pc EXCEPT ![r] = "queued"]
      BY <1>0, <2>2 DEF QuietInv, LeaveBarrierNode, Goto
    <3>2. Len(queue[r]) = 0 /\ NumReductions \in Nat
      BY <3>1, SizesAssumption
    <3>3. /\ \A q \in Ranks \ {r} : queue'[q] = queue[q]
          /\ Len(queue'[r]) = NumReductions
          /\ \A k \in 1 .. NumReductions : queue'[r][k] = <<comm[r], k>>
      <4>1. /\ \A q \in Ranks \ {r} : queue'[q] = queue[q]
            /\ Len(queue'[r]) = 0 + NumReductions
            /\ \A k \in 1 .. NumReductions : queue'[r][0 + k] = <<comm[r], k>>
        BY <1>0, <2>2, <3>2, QueueGrows
      <4>2. \A k \in 1 .. NumReductions : 0 + k = k
        BY <3>2
      <4>3. \A k \in 1 .. NumReductions : queue'[r][k] = <<comm[r], k>>
        BY <4>1, <4>2
      <4> QED
        BY <3>2, <4>1, <4>3
    <3>4. pc'[r] = "queued"
      BY <1>0, <3>1 DEF TypeOK
    <3> QED
      BY <1>0, <2>1, <3>1, <3>3, <3>4 DEF QuietInv
  <2>3. CASE ~ LeaveBarrierNode(r)
    <3>1. queue' = queue /\ queue[r] = <<>>
      <4>1. CASE NextComm(r)
        BY <4>1 DEF NextComm, streams
      <4>2. CASE ~ NextComm(r)
        <5>1. queue' = queue /\ pc[r] # "queued"
          BY <1>2, <2>3, <4>2 DEF Host, tcclIsShmExist, RecvFlag, StartThread, tcclSharpCreate,
                                  GetSharpAddr, LeaveBarrierAll, WaitFree, SetInit, WaitInit, streams
        <5> QED
          BY <1>0, <5>1 DEF QuietInv
      <4> QED
        BY <4>1, <4>2
    <3>2. Len(queue[r]) = 0
      BY <3>1
    <3> QED
      BY <1>0, <2>1, <3>1, <3>2 DEF QuietInv
  <2> QED
    BY <2>2, <2>3
<1>3. ASSUME NEW r \in Ranks, Stream(r)
      PROVE  QuietInv'
  <2>1. CASE WaitDone(r)
    <3>1. pc' = pc /\ comm' = comm
      BY <2>1 DEF WaitDone, hosts
    <3>2. queue[r] # <<>>
      BY <1>0, <2>1 DEF WaitDone, MapInv, EntryInv
    <3>3. /\ \A q \in Ranks \ {r} : queue'[q] = queue[q]
          /\ Len(queue'[r]) = Len(queue[r]) - 1
          /\ \A k \in 1 .. Len(queue[r]) - 1 : queue'[r][k] = queue[r][k + 1]
      BY <1>0, <2>1, <3>2, QueueShrinks
    <3>4. Len(queue[r]) \in Nat
      BY <1>0, <3>2, HeadType
    <3>5. ASSUME NEW k \in 1 .. Len(queue'[r])
          PROVE  queue'[r][k][1] = comm[r]
      <4>1. k + 1 \in 1 .. Len(queue[r]) /\ queue'[r][k] = queue[r][k + 1]
        BY <3>3, <3>4
      <4> QED
        BY <1>0, <4>1 DEF QuietInv
    <3> QED
      BY <1>0, <3>1, <3>2, <3>3, <3>5 DEF QuietInv
  <2>2. CASE SetArguments(r) \/ SetWork(r)
    BY <1>1, <2>2 DEF SetArguments, SetWork, hosts
  <2> QED
    BY <1>3, <2>1, <2>2 DEF Stream
<1>4. ASSUME NEW n \in Nodes, Thread(n)
      PROVE  UNCHANGED <<pc, comm, queue>>
  BY <1>4 DEF Thread, tcclSharpMapInit, InitDone, FindWork, BeginWork, RecvInfo, WaitWork,
              tcclSharpAllReduce, FreeRank, FreeNode, hosts, streams
<1> QED
  BY <1>1, <1>2, <1>3, <1>4 DEF Next, Finished, vars, hosts, streams

-----------------------------------------------------------------------------
(* The maps.                                                               *)

\* Entries are records of a status and a reduction.
LEMMA EntryType ==
  ASSUME TypeOK, NEW n \in Nodes, NEW c \in Comms, NEW i \in RankNos
  PROVE  map[n][c][i] \in [status : {ZERO, "FREE", "WORK"}, reduction : 0 .. NumReductions]
<1>1. map[n] \in [Comms -> [RankNos -> [status : {ZERO, "FREE", "WORK"},
                                        reduction : 0 .. NumReductions]]]
  BY DEF TypeOK
<1> QED
  BY <1>1

\* The entry of a stream is one of its node's.
LEMMA StreamEntry ==
  ASSUME TypeOK, NEW r \in Ranks, queue[r] # <<>>
  PROVE  /\ Head(queue[r])[1] \in Comms /\ Head(queue[r])[2] \in 1 .. NumReductions
         /\ Entry(r) = map[node_id(r)][Head(queue[r])[1]][rank_no(r)]
         /\ Entry(r) \in [status : {ZERO, "FREE", "WORK"}, reduction : 0 .. NumReductions]
<1>1. Head(queue[r])[1] \in Comms /\ Head(queue[r])[2] \in 1 .. NumReductions
  BY HeadType
<1> QED
  BY <1>1, RankPair, EntryType DEF Entry

LEMMA MapInit == Init => MapInv
<1> SUFFICES ASSUME Init
             PROVE  MapInv
  OBVIOUS
<1>1. \A n \in Nodes, c \in Comms, i \in RankNos : map[n][c][i].status = ZERO
  BY DEF Init, Fresh
<1>2. (\A r \in Ranks : spc[r] = "idle") /\ (\A n \in Nodes : thread[n] = "none")
  BY DEF Init
<1> QED
  BY <1>1, <1>2 DEF MapInv, TakenInv, WorkInv, EntryInv, DueInv, ZERO

\* A stream announces its next reduction.
LEMMA MapSetArguments ==
  ASSUME Inv, NEW r \in Ranks, SetArguments(r)
  PROVE  MapInv'
<1> DEFINE n == node_id(r)
<1> DEFINE i == rank_no(r)
<1> DEFINE c == Head(queue[r])[1]
<1> DEFINE e == [Entry(r) EXCEPT !.reduction = Head(queue[r])[2]]
<1>0. TypeOK /\ TakenInv /\ WorkInv /\ EntryInv /\ DueInv
  BY DEF Inv, MapInv
<1>1. /\ spc[r] = "idle" /\ queue[r] # <<>> /\ spc' = [spc EXCEPT ![r] = "free"]
      /\ SetEntry(n, c, i, e) /\ queue' = queue /\ sharpMap' = sharpMap
      /\ thread' = thread /\ pick' = pick
  BY DEF SetArguments, threads
<1>2. r = <<n, i>> /\ n \in Nodes /\ i \in RankNos
  BY RankPair
<1>3. /\ c \in Comms /\ Entry(r) = map[n][c][i]
      /\ e.status = Entry(r).status /\ e.reduction = Head(queue[r])[2]
  BY <1>0, <1>1, StreamEntry
<1>4. spc \in [Ranks -> {"idle", "free", "work"}]
  BY <1>0 DEF TypeOK
<1> HIDE DEF n, i, c, e
<1>5. \A m \in Nodes, d \in Comms, j \in RankNos :
        map'[m][d][j] = IF m = n /\ d = c /\ j = i THEN e ELSE map[m][d][j]
  BY <1>0, <1>1, <1>2, <1>3, EntrySet
<1>6. \A m \in Nodes, d \in Comms, j \in RankNos : map'[m][d][j].status = map[m][d][j].status
  BY <1>3, <1>5
<1>7. TakenInv'
  BY <1>0, <1>1, <1>6 DEF TakenInv, Taken
<1>8. WorkInv'
  <2> SUFFICES ASSUME NEW m \in Nodes, NEW d \in Comms, NEW j \in RankNos,
                      map'[m][d][j].status = "WORK"
               PROVE  spc'[<<m, j>>] = "work" /\ Head(queue'[<<m, j>>])[1] = d
    BY DEF WorkInv
  <2>1. spc[<<m, j>>] = "work" /\ Head(queue[<<m, j>>])[1] = d
    BY <1>0, <1>6 DEF WorkInv
  <2> QED
    BY <1>1, <1>4, <2>1 DEF Ranks
<1>9. EntryInv'
  <2> SUFFICES ASSUME NEW q \in Ranks, spc'[q] # "idle"
               PROVE  /\ queue'[q] # <<>> /\ Entry(q)'.reduction = Head(queue'[q])[2]
                      /\ spc'[q] = "work" => Entry(q)'.status # ZERO
    BY DEF EntryInv
  <2>1. CASE q = r
    <3>1. Entry(q)' = e /\ spc'[q] = "free"
      BY <1>1, <1>2, <1>3, <1>4, <1>5, <2>1 DEF Entry, n, i, c
    <3> QED
      BY <1>1, <1>3, <2>1, <3>1
  <2>2. CASE q # r
    <3>1. spc'[q] = spc[q] /\ queue[q] # <<>>
      BY <1>0, <1>1, <1>4, <2>2 DEF EntryInv
    <3>2. Head(queue[q])[1] \in Comms /\ node_id(q) \in Nodes /\ rank_no(q) \in RankNos
      BY <1>0, <3>1, StreamEntry, RankPair
    <3>3. ~ (node_id(q) = n /\ rank_no(q) = i)
      BY <1>2, <2>2, RankPair
    <3>4. Entry(q)' = Entry(q)
      BY <1>1, <1>5, <3>2, <3>3 DEF Entry
    <3> QED
      BY <1>0, <1>1, <3>1, <3>4 DEF EntryInv
  <2> QED
    BY <2>1, <2>2
<1>10. DueInv'
  <2> SUFFICES ASSUME NEW m \in Nodes, thread[m] \in {"found", "bcast", "reduce", "free"}
               PROVE  Picked(m)'.status = "WORK"
    BY <1>1 DEF DueInv
  <2> QED
    BY <1>0, <1>1, <1>6, PickType DEF DueInv, Picked
<1> QED
  BY <1>7, <1>8, <1>9, <1>10 DEF MapInv

\* A stream gives the node its reduction.
LEMMA MapSetWork ==
  ASSUME Inv, NEW r \in Ranks, SetWork(r)
  PROVE  MapInv'
<1> DEFINE n == node_id(r)
<1> DEFINE i == rank_no(r)
<1> DEFINE c == Head(queue[r])[1]
<1> DEFINE e == [Entry(r) EXCEPT !.status = "WORK"]
<1>0. TypeOK /\ TakenInv /\ WorkInv /\ EntryInv /\ DueInv
  BY DEF Inv, MapInv
<1>1. /\ spc[r] = "free" /\ Entry(r).status = "FREE" /\ spc' = [spc EXCEPT ![r] = "work"]
      /\ SetEntry(n, c, i, e) /\ queue' = queue /\ sharpMap' = sharpMap
      /\ thread' = thread /\ pick' = pick
  BY DEF SetWork, threads
<1>2. r = <<n, i>> /\ n \in Nodes /\ i \in RankNos /\ queue[r] # <<>>
  BY <1>0, <1>1, RankPair DEF EntryInv
<1>3. /\ c \in Comms /\ Entry(r) = map[n][c][i]
      /\ e.status = "WORK" /\ e.reduction = Entry(r).reduction
  BY <1>0, <1>2, StreamEntry
<1>4. spc \in [Ranks -> {"idle", "free", "work"}]
  BY <1>0 DEF TypeOK
<1>5. Head(queue[<<n, i>>])[1] = c
  BY <1>2
<1> HIDE DEF n, i, c, e
<1>6. \A m \in Nodes, d \in Comms, j \in RankNos :
        map'[m][d][j] = IF m = n /\ d = c /\ j = i THEN e ELSE map[m][d][j]
  BY <1>0, <1>1, <1>2, <1>3, EntrySet
<1>7. TakenInv'
  <2>1. Taken(n, c)
    BY <1>0, <1>1, <1>2, <1>3 DEF TakenInv, ZERO
  <2> QED
    BY <1>0, <1>1, <1>6, <2>1 DEF TakenInv, Taken
<1>8. WorkInv'
  <2> SUFFICES ASSUME NEW m \in Nodes, NEW d \in Comms, NEW j \in RankNos,
                      map'[m][d][j].status = "WORK"
               PROVE  spc'[<<m, j>>] = "work" /\ Head(queue'[<<m, j>>])[1] = d
    BY DEF WorkInv
  <2>1. CASE m = n /\ j = i /\ d = c
    BY <1>1, <1>2, <1>4, <1>5, <2>1
  <2>2. CASE ~ (m = n /\ j = i /\ d = c)
    <3>1. spc[<<m, j>>] = "work" /\ Head(queue[<<m, j>>])[1] = d
      BY <1>0, <1>6, <2>2 DEF WorkInv
    <3> QED
      BY <1>1, <1>4, <3>1 DEF Ranks
  <2> QED
    BY <2>1, <2>2
<1>9. EntryInv'
  <2> SUFFICES ASSUME NEW q \in Ranks, spc'[q] # "idle"
               PROVE  /\ queue'[q] # <<>> /\ Entry(q)'.reduction = Head(queue'[q])[2]
                      /\ spc'[q] = "work" => Entry(q)'.status # ZERO
    BY DEF EntryInv
  <2>1. CASE q = r
    <3>1. Entry(q)' = e
      BY <1>1, <1>2, <1>3, <1>6, <2>1 DEF Entry, n, i, c
    <3> QED
      BY <1>0, <1>1, <1>2, <1>3, <2>1, <3>1 DEF EntryInv, ZERO
  <2>2. CASE q # r
    <3>1. spc'[q] = spc[q] /\ queue[q] # <<>>
      BY <1>0, <1>1, <1>4, <2>2 DEF EntryInv
    <3>2. Head(queue[q])[1] \in Comms /\ node_id(q) \in Nodes /\ rank_no(q) \in RankNos
      BY <1>0, <3>1, StreamEntry, RankPair
    <3>3. ~ (node_id(q) = n /\ rank_no(q) = i)
      BY <1>2, <2>2, RankPair
    <3>4. Entry(q)' = Entry(q)
      BY <1>1, <1>6, <3>2, <3>3 DEF Entry
    <3> QED
      BY <1>0, <1>1, <3>1, <3>4 DEF EntryInv
  <2> QED
    BY <2>1, <2>2
<1>10. DueInv'
  <2> SUFFICES ASSUME NEW m \in Nodes, thread[m] \in {"found", "bcast", "reduce", "free"}
               PROVE  Picked(m)'.status = "WORK"
    BY <1>1 DEF DueInv
  <2> QED
    BY <1>0, <1>1, <1>3, <1>6, PickType DEF DueInv, Picked
<1> QED
  BY <1>7, <1>8, <1>9, <1>10 DEF MapInv

\* A stream sees its reduction done.
LEMMA MapWaitDone ==
  ASSUME Inv, NEW r \in Ranks, WaitDone(r)
  PROVE  MapInv'
<1>0. TypeOK /\ TakenInv /\ WorkInv /\ EntryInv /\ DueInv
  BY DEF Inv, MapInv
<1>1. /\ spc[r] = "work" /\ Entry(r).status = "FREE" /\ spc' = [spc EXCEPT ![r] = "idle"]
      /\ map' = map /\ sharpMap' = sharpMap /\ thread' = thread /\ pick' = pick
  BY DEF WaitDone, threads
<1>2. queue[r] # <<>>
  BY <1>0, <1>1 DEF EntryInv
<1>3. \A q \in Ranks \ {r} : queue'[q] = queue[q]
  BY <1>0, <1>2, QueueShrinks
<1>4. spc \in [Ranks -> {"idle", "free", "work"}]
  BY <1>0 DEF TypeOK
<1>5. TakenInv'
  BY <1>0, <1>1 DEF TakenInv, Taken
<1>6. WorkInv'
  <2> SUFFICES ASSUME NEW m \in Nodes, NEW d \in Comms, NEW j \in RankNos,
                      map[m][d][j].status = "WORK"
               PROVE  spc'[<<m, j>>] = "work" /\ Head(queue'[<<m, j>>])[1] = d
    BY <1>1 DEF WorkInv
  <2>1. spc[<<m, j>>] = "work" /\ Head(queue[<<m, j>>])[1] = d /\ <<m, j>> \in Ranks
    BY <1>0 DEF WorkInv, Ranks
  <2>2. <<m, j>> # r
    <3> SUFFICES ASSUME <<m, j>> = r
                 PROVE  FALSE
      OBVIOUS
    <3>1. Entry(r) = map[m][d][j]
      BY <2>1 DEF Entry, node_id, rank_no
    <3> QED
      BY <1>1, <3>1
  <2> QED
    BY <1>1, <1>3, <1>4, <2>1, <2>2
<1>7. EntryInv'
  <2> SUFFICES ASSUME NEW q \in Ranks, spc'[q] # "idle"
               PROVE  /\ queue'[q] # <<>> /\ Entry(q)'.reduction = Head(queue'[q])[2]
                      /\ spc'[q] = "work" => Entry(q)'.status # ZERO
    BY DEF EntryInv
  <2>1. q # r /\ spc'[q] = spc[q] /\ queue'[q] = queue[q]
    BY <1>1, <1>3, <1>4
  <2> QED
    BY <1>0, <1>1, <2>1 DEF EntryInv, Entry
<1>8. DueInv'
  BY <1>0, <1>1 DEF DueInv, Picked
<1> QED
  BY <1>5, <1>6, <1>7, <1>8 DEF MapInv

\* Complete communicators come to the end of the queue, which matters to
\* idle streams only.
LEMMA MapQueued ==
  ASSUME Inv, NEW r \in Ranks, LeaveBarrierNode(r)
  PROVE  MapInv' /\ \A q \in Ranks : queue[q] # <<>> =>
                      queue'[q] # <<>> /\ Head(queue'[q]) = Head(queue[q])
<1>0. TypeOK /\ TakenInv /\ WorkInv /\ EntryInv /\ DueInv
  BY DEF Inv, MapInv
<1>1. spc' = spc /\ map' = map /\ sharpMap' = sharpMap /\ thread' = thread /\ pick' = pick
  BY DEF LeaveBarrierNode, threads
<1>2. ASSUME NEW q \in Ranks, queue[q] # <<>>
      PROVE  queue'[q] # <<>> /\ Head(queue'[q]) = Head(queue[q])
  <2>1. CASE q # r
    BY <1>0, <1>2, <2>1, QueueGrows
  <2>2. CASE q = r
    <3>1. /\ Len(queue'[r]) = Len(queue[r]) + NumReductions
          /\ \A k \in 1 .. Len(queue[r]) : queue'[r][k] = queue[r][k]
      BY <1>0, QueueGrows
    <3>2. Head(queue[r]) = queue[r][1] /\ Len(queue[r]) \in Nat \ {0}
      BY <1>0, <1>2, <2>2, HeadType
    <3>3. TypeOK'
      BY HostType DEF Host
    <3>4. queue'[r] \in Seq(Comms \X (1 .. NumReductions))
      BY <3>3 DEF TypeOK
    <3>5. Len(queue'[r]) # 0 /\ queue'[r][1] = queue[r][1]
      BY <3>1, <3>2, SizesAssumption
    <3>6. queue'[r] # <<>> /\ Head(queue'[r]) = queue'[r][1]
      BY <3>4, <3>5
    <3> QED
      BY <2>2, <3>2, <3>5, <3>6
  <2> QED
    BY <2>1, <2>2
<1>3. TakenInv' /\ DueInv'
  BY <1>0, <1>1 DEF TakenInv, Taken, DueInv, Picked
<1>4. WorkInv'
  <2> SUFFICES ASSUME NEW m \in Nodes, NEW d \in Comms, NEW j \in RankNos,
                      map[m][d][j].status = "WORK"
               PROVE  spc[<<m, j>>] = "work" /\ Head(queue'[<<m, j>>])[1] = d
    BY <1>1 DEF WorkInv
  <2>1. spc[<<m, j>>] = "work" /\ Head(queue[<<m, j>>])[1] = d /\ <<m, j>> \in Ranks
    BY <1>0 DEF WorkInv, Ranks
  <2>2. queue[<<m, j>>] # <<>>
    BY <1>0, <2>1 DEF EntryInv
  <2> QED
    BY <1>2, <2>1, <2>2
<1>5. EntryInv'
  <2> SUFFICES ASSUME NEW q \in Ranks, spc[q] # "idle"
               PROVE  /\ queue'[q] # <<>> /\ Entry(q)'.reduction = Head(queue'[q])[2]
                      /\ spc[q] = "work" => Entry(q)'.status # ZERO
    BY <1>1 DEF EntryInv
  <2>1. queue[q] # <<>>
    BY <1>0 DEF EntryInv
  <2>2. queue'[q] # <<>> /\ Head(queue'[q]) = Head(queue[q])
    BY <1>2, <2>1
  <2> QED
    BY <1>0, <1>1, <2>2 DEF EntryInv, Entry
<1> QED
  BY <1>2, <1>3, <1>4, <1>5 DEF MapInv

\* A thread takes in a communicator.
LEMMA MapTakeIn ==
  ASSUME Inv, NEW n \in Nodes, tcclSharpMapInit(n)
  PROVE  MapInv'
<1> DEFINE c == ctl[n].commport
<1> DEFINE freed == [j \in RankNos |-> [map[n][c][j] EXCEPT !.status = "FREE"]]
<1>0. TypeOK /\ TakenInv /\ WorkInv /\ EntryInv /\ DueInv
  BY DEF Inv, MapInv
<1>1. /\ spc' = spc /\ queue' = queue /\ pick' = pick /\ thread' = [thread EXCEPT ![n] = "init"]
      /\ \/ sharpMap' = sharpMap /\ map' = map
         \/ /\ ~ Taken(n, c) /\ sharpMap' = [sharpMap EXCEPT ![n] = Append(sharpMap[n], c)]
            /\ map' = [map EXCEPT ![n] = [map[n] EXCEPT ![c] = freed]]
  BY <1>0 DEF tcclSharpMapInit, Go, streams, TypeOK, Taken
<1>2. c \in Comms
  BY DEF tcclSharpMapInit, Inv, PickInv, Status
<1>3. /\ map \in [Nodes -> [Comms -> [RankNos -> [status : {ZERO, "FREE", "WORK"},
                                                 reduction : 0 .. NumReductions]]]]
      /\ sharpMap \in [Nodes -> Seq(Comms)]
      /\ thread \in [Nodes -> {"none", "poll", "init", "found", "bcast", "waitwork", "reduce",
                               "free", "freenode"}]
  BY <1>0 DEF TypeOK
<1>4. \A m \in Nodes \ {n} : thread'[m] = thread[m]
  BY <1>1, <1>3
<1>5. thread'[n] = "init"
  BY <1>1, <1>3
<1>6. CASE sharpMap' = sharpMap /\ map' = map
  <2>1. TakenInv' /\ WorkInv' /\ EntryInv'
    BY <1>0, <1>1, <1>6 DEF TakenInv, WorkInv, EntryInv, Taken, Entry
  <2>2. DueInv'
    BY <1>0, <1>1, <1>4, <1>5, <1>6 DEF DueInv, Picked
  <2> QED
    BY <2>1, <2>2 DEF MapInv
<1>7. CASE /\ ~ Taken(n, c) /\ sharpMap' = [sharpMap EXCEPT ![n] = Append(sharpMap[n], c)]
           /\ map' = [map EXCEPT ![n] = [map[n] EXCEPT ![c] = freed]]
  <2>1. \A j \in RankNos : map[n][c][j].status = ZERO
    BY <1>0, <1>2, <1>7 DEF TakenInv
  <2>2. \A j \in RankNos : freed[j] = [map[n][c][j] EXCEPT !.status = "FREE"]
    OBVIOUS
  <2>3. \A j \in RankNos : freed[j].status = "FREE" /\ freed[j].reduction = map[n][c][j].reduction
    BY <1>0, <1>2, <2>2, EntryType
  <2> HIDE DEF c, freed
  <2>4. map[n] \in [Comms -> [RankNos -> [status : {ZERO, "FREE", "WORK"},
                                          reduction : 0 .. NumReductions]]]
    BY <1>3
  <2>5. /\ \A m \in Nodes \ {n} : map'[m] = map[m]
        /\ map'[n] = [map[n] EXCEPT ![c] = freed]
    BY <1>3, <1>7
  <2>6. \A d \in Comms : map'[n][d] = IF d = c THEN freed ELSE map[n][d]
    BY <2>4, <2>5
  <2>7. ASSUME NEW m \in Nodes, NEW d \in Comms, NEW j \in RankNos
        PROVE  /\ map'[m][d][j].reduction = map[m][d][j].reduction
               /\ map[m][d][j].status # ZERO => map'[m][d][j] = map[m][d][j]
               /\ map'[m][d][j].status \in {map[m][d][j].status, "FREE"}
               /\ map'[m][d][j].status # ZERO => map[m][d][j].status # ZERO \/ (m = n /\ d = c)
    <3>1. CASE m = n /\ d = c
      BY <2>1, <2>3, <2>6, <3>1
    <3>2. CASE m # n \/ d # c
      BY <2>5, <2>6, <3>2
    <3> QED
      BY <3>1, <3>2
  <2>8. ASSUME NEW m \in Nodes, NEW d \in Comms, Taken(m, d) \/ (m = n /\ d = c)
        PROVE  Taken(m, d)'
    <3>1. CASE m # n
      <4>1. sharpMap'[m] = sharpMap[m]
        BY <1>3, <1>7, <3>1
      <4> QED
        BY <2>8, <3>1, <4>1 DEF Taken
    <3>2. CASE m = n
      <4>1. sharpMap[n] \in Seq(Comms) /\ sharpMap'[n] = Append(sharpMap[n], c)
        BY <1>3, <1>7
      <4>2. /\ Len(sharpMap'[n]) = Len(sharpMap[n]) + 1 /\ Len(sharpMap[n]) \in Nat
            /\ \A k \in 1 .. Len(sharpMap[n]) : sharpMap'[n][k] = sharpMap[n][k]
            /\ sharpMap'[n][Len(sharpMap[n]) + 1] = c
        BY <1>2, <4>1, AppendProperties
      <4>3. CASE Taken(n, d)
        <5>1. PICK k \in 1 .. Len(sharpMap[n]) : sharpMap[n][k] = d
          BY <4>3 DEF Taken
        <5>2. k \in 1 .. Len(sharpMap'[n]) /\ sharpMap'[n][k] = d
          BY <4>2, <5>1
        <5> QED
          BY <3>2, <5>2 DEF Taken
      <4>4. CASE d = c
        <5>1. Len(sharpMap[n]) + 1 \in 1 .. Len(sharpMap'[n])
          BY <4>2
        <5> QED
          BY <3>2, <4>2, <4>4, <5>1 DEF Taken
      <4> QED
        BY <2>8, <3>2, <4>3, <4>4
    <3> QED
      BY <3>1, <3>2
  <2>9. TakenInv'
    <3> SUFFICES ASSUME NEW m \in Nodes, NEW d \in Comms, NEW j \in RankNos,
                        map'[m][d][j].status # ZERO
                 PROVE  Taken(m, d)'
      BY DEF TakenInv
    <3> QED
      BY <1>0, <2>7, <2>8 DEF TakenInv
  <2>10. WorkInv'
    BY <1>0, <1>1, <2>7 DEF WorkInv
  <2>11. EntryInv'
    <3> SUFFICES ASSUME NEW q \in Ranks, spc[q] # "idle"
                 PROVE  /\ queue[q] # <<>> /\ Entry(q)'.reduction = Head(queue[q])[2]
                        /\ spc[q] = "work" => Entry(q)'.status # ZERO
      BY <1>1 DEF EntryInv
    <3>1. /\ queue[q] # <<>> /\ Entry(q).reduction = Head(queue[q])[2]
          /\ spc[q] = "work" => Entry(q).status # ZERO
      BY <1>0 DEF EntryInv
    <3>2. Head(queue[q])[1] \in Comms /\ node_id(q) \in Nodes /\ rank_no(q) \in RankNos
      BY <1>0, <3>1, StreamEntry, RankPair
    <3>3. Entry(q)' = map'[node_id(q)][Head(queue[q])[1]][rank_no(q)]
      BY <1>1 DEF Entry
    <3>4. /\ Entry(q)'.reduction = Entry(q).reduction
          /\ Entry(q).status # ZERO => Entry(q)' = Entry(q)
      BY <2>7, <3>2, <3>3 DEF Entry
    <3> QED
      BY <3>1, <3>4
  <2>12. DueInv'
    <3> SUFFICES ASSUME NEW m \in Nodes, thread'[m] \in {"found", "bcast", "reduce", "free"}
                 PROVE  Picked(m)'.status = "WORK"
      BY DEF DueInv
    <3>1. m # n /\ thread[m] \in {"found", "bcast", "reduce", "free"}
      BY <1>4, <1>5
    <3>2. Picked(m).status = "WORK" /\ Picked(m)' = Picked(m)
      BY <1>0, <1>1, <2>5, <3>1 DEF DueInv, Picked
    <3> QED
      BY <3>2
  <2> QED
    BY <2>9, <2>10, <2>11, <2>12 DEF MapInv
<1> QED
  BY <1>1, <1>6, <1>7

\* A thread tells a rank that its reduction is done.
LEMMA MapFreeRank ==
  ASSUME Inv, NEW n \in Nodes, FreeRank(n)
  PROVE  MapInv'
<1> DEFINE c == pick[n][1]
<1> DEFINE i == pick[n][2]
<1> DEFINE e == [Picked(n) EXCEPT !.status = "FREE"]
<1>0. TypeOK /\ TakenInv /\ WorkInv /\ EntryInv /\ DueInv
  BY DEF Inv, MapInv
<1>1. /\ spc' = spc /\ queue' = queue /\ pick' = pick /\ sharpMap' = sharpMap
      /\ thread[n] = "free" /\ thread' = [thread EXCEPT ![n] = "freenode"]
      /\ SetEntry(n, c, i, e)
  BY DEF FreeRank, Go, streams
<1>2. c \in Comms /\ i \in RankNos
  BY <1>1, PickType
<1>3. Picked(n) = map[n][c][i] /\ Picked(n).status = "WORK"
  BY <1>0, <1>1 DEF Picked, DueInv
<1>4. e.status = "FREE" /\ e.reduction = Picked(n).reduction
  BY <1>0, <1>2, <1>3, EntryType
<1>5. thread \in [Nodes -> {"none", "poll", "init", "found", "bcast", "waitwork", "reduce",
                            "free", "freenode"}]
  BY <1>0 DEF TypeOK
<1> HIDE DEF c, i, e
<1>6. \A m \in Nodes, d \in Comms, j \in RankNos :
        map'[m][d][j] = IF m = n /\ d = c /\ j = i THEN e ELSE map[m][d][j]
  BY <1>0, <1>1, <1>2, EntrySet
<1>7. ASSUME NEW m \in Nodes, NEW d \in Comms, NEW j \in RankNos
      PROVE  /\ map'[m][d][j].reduction = map[m][d][j].reduction
             /\ map'[m][d][j].status # ZERO <=> map[m][d][j].status # ZERO
             /\ map'[m][d][j].status = "WORK" => map[m][d][j].status = "WORK"
             /\ m # n => map'[m][d][j] = map[m][d][j]
  <2>1. CASE m = n /\ d = c /\ j = i
    BY <1>3, <1>4, <1>6, <2>1 DEF ZERO
  <2>2. CASE ~ (m = n /\ d = c /\ j = i)
    BY <1>6, <2>2
  <2> QED
    BY <2>1, <2>2
<1>8. TakenInv' /\ WorkInv'
  BY <1>0, <1>1, <1>7 DEF TakenInv, Taken, WorkInv
<1>9. EntryInv'
  <2> SUFFICES ASSUME NEW q \in Ranks, spc[q] # "idle"
               PROVE  /\ queue[q] # <<>> /\ Entry(q)'.reduction = Head(queue[q])[2]
                      /\ spc[q] = "work" => Entry(q)'.status # ZERO
    BY <1>1 DEF EntryInv
  <2>1. /\ queue[q] # <<>> /\ Entry(q).reduction = Head(queue[q])[2]
        /\ spc[q] = "work" => Entry(q).status # ZERO
    BY <1>0 DEF EntryInv
  <2>2. Head(queue[q])[1] \in Comms /\ node_id(q) \in Nodes /\ rank_no(q) \in RankNos
    BY <1>0, <2>1, StreamEntry, RankPair
  <2>3. Entry(q)' = map'[node_id(q)][Head(queue[q])[1]][rank_no(q)]
    BY <1>1 DEF Entry
  <2>4. /\ Entry(q)'.reduction = Entry(q).reduction
        /\ Entry(q).status # ZERO => Entry(q)'.status # ZERO
    BY <1>7, <2>2, <2>3 DEF Entry
  <2> QED
    BY <2>1, <2>4
<1>10. DueInv'
  <2> SUFFICES ASSUME NEW m \in Nodes, thread'[m] \in {"found", "bcast", "reduce", "free"}
               PROVE  Picked(m)'.status = "WORK"
    BY DEF DueInv
  <2>1. m # n /\ thread[m] \in {"found", "bcast", "reduce", "free"}
    BY <1>1, <1>5
  <2>2. Picked(m).status = "WORK"
    BY <1>0, <2>1 DEF DueInv
  <2>3. Picked(m)' = Picked(m)
    BY <1>1, <1>7, <2>1, PickType DEF Picked
  <2> QED
    BY <2>2, <2>3
<1> QED
  BY <1>8, <1>9, <1>10 DEF MapInv

\* The other steps of a thread do not touch the maps.
LEMMA MapThread ==
  ASSUME Inv, NEW n \in Nodes, Thread(n), ~ tcclSharpMapInit(n), ~ FreeRank(n)
  PROVE  MapInv'
<1>0. TypeOK /\ TakenInv /\ WorkInv /\ EntryInv /\ DueInv
  BY DEF Inv, MapInv
<1>1. UNCHANGED <<spc, queue, map, sharpMap>>
  BY DEF Thread, InitDone, FindWork, BeginWork, RecvInfo, WaitWork, tcclSharpAllReduce, FreeNode,
         streams
<1>2. TakenInv' /\ WorkInv' /\ EntryInv'
  BY <1>0, <1>1 DEF TakenInv, Taken, WorkInv, EntryInv, Entry
<1>3. thread \in [Nodes -> {"none", "poll", "init", "found", "bcast", "waitwork", "reduce",
                            "free", "freenode"}]
      /\ pick \in [Nodes -> (0 .. NumComms) \X RankNos]
  BY <1>0 DEF TypeOK
<1>4. CASE FindWork(n)
  <2>1. PICK k \in 1 .. Len(sharpMap[n]), i \in RankNos :
               FirstWork(n, k, i) /\ pick' = [pick EXCEPT ![n] = <<sharpMap[n][k], i>>]
    BY <1>4 DEF FindWork
  <2>2. thread' = [thread EXCEPT ![n] = "found"]
    BY <1>4 DEF FindWork, Go
  <2>3. pick'[n] = <<sharpMap[n][k], i>>
    BY <1>3, <2>1
  <2>4. Picked(n)'.status = "WORK"
    BY <1>1, <2>1, <2>3 DEF Picked, FirstWork, Working
  <2>5. \A m \in Nodes \ {n} : thread'[m] = thread[m] /\ pick'[m] = pick[m]
    BY <1>3, <2>1, <2>2
  <2>6. DueInv'
    BY <1>0, <1>1, <2>4, <2>5 DEF DueInv, Picked
  <2> QED
    BY <1>2, <2>6 DEF MapInv
<1>5. CASE RecvInfo(n)
  <2>1. pick' = [pick EXCEPT ![n] = info] /\ thread' = [thread EXCEPT ![n] = "waitwork"]
    BY <1>5, RootsChoice DEF RecvInfo, Go
  <2>2. thread'[n] = "waitwork" /\ \A m \in Nodes \ {n} : thread'[m] = thread[m] /\ pick'[m] = pick[m]
    BY <1>3, <2>1
  <2>3. DueInv'
    BY <1>0, <1>1, <2>2 DEF DueInv, Picked
  <2> QED
    BY <1>2, <2>3 DEF MapInv
<1>6. CASE ~ FindWork(n) /\ ~ RecvInfo(n)
  <2>1. pick' = pick
    BY <1>6 DEF Thread, InitDone, BeginWork, WaitWork, tcclSharpAllReduce, FreeNode
  <2>2. /\ \E l : thread' = [thread EXCEPT ![n] = l]
        /\ \/ thread[n] = "init" /\ thread' = [thread EXCEPT ![n] = "poll"]
           \/ thread[n] = "found" /\ thread' = [thread EXCEPT ![n] = "reduce"]
           \/ thread[n] = "found" /\ thread' = [thread EXCEPT ![n] = "bcast"]
           \/ Picked(n).status = "WORK" /\ thread' = [thread EXCEPT ![n] = "reduce"]
           \/ thread[n] = "reduce" /\ thread' = [thread EXCEPT ![n] = "free"]
           \/ thread[n] = "freenode" /\ thread' = [thread EXCEPT ![n] = "poll"]
    BY <1>6 DEF Thread, InitDone, BeginWork, WaitWork, tcclSharpAllReduce, FreeNode, Go
  <2>3. ASSUME NEW m \in Nodes, thread'[m] \in {"found", "bcast", "reduce", "free"}
        PROVE  Picked(m).status = "WORK"
    BY <1>0, <1>3, <2>2, <2>3 DEF DueInv
  <2>4. DueInv'
    BY <1>1, <2>1, <2>3 DEF DueInv, Picked
  <2> QED
    BY <1>2, <2>4 DEF MapInv
<1> QED
  BY <1>4, <1>5, <1>6

LEMMA MapNext == Inv /\ [Next]_vars => MapInv'
<1> SUFFICES ASSUME Inv, [Next]_vars
             PROVE  MapInv'
  OBVIOUS
<1>0. TypeOK /\ MapInv
  BY DEF Inv
<1>1. ASSUME UNCHANGED <<map, sharpMap, spc, queue, thread, pick>>
      PROVE  MapInv'
  BY <1>0, <1>1 DEF MapInv, TakenInv, Taken, WorkInv, EntryInv, Entry, DueInv, Picked
<1>2. ASSUME NEW r \in Ranks, Host(r)
      PROVE  MapInv'
  <2>1. CASE LeaveBarrierNode(r)
    BY <2>1, MapQueued
  <2>2. CASE StartThread(r)
    <3>1. UNCHANGED <<map, sharpMap, spc, queue, pick>> /\ thread' = [thread EXCEPT ![node_id(r)] = "poll"]
      BY <2>2 DEF StartThread, streams
    <3>2. \A n \in Nodes : thread'[n] \in {"found", "bcast", "reduce", "free"} => thread[n] = thread'[n]
      BY <1>0, <3>1, RankPair DEF TypeOK
    <3> QED
      BY <1>0, <3>1, <3>2 DEF MapInv, TakenInv, Taken, WorkInv, EntryInv, Entry, DueInv, Picked
  <2>3. CASE ~ LeaveBarrierNode(r) /\ ~ StartThread(r)
    BY <1>1, <1>2, <2>3 DEF Host, tcclIsShmExist, RecvFlag, tcclSharpCreate, GetSharpAddr,
                            LeaveBarrierAll, WaitFree, SetInit, WaitInit, NextComm, streams, threads
  <2> QED
    BY <2>1, <2>2, <2>3
<1>3. ASSUME NEW r \in Ranks, Stream(r)
      PROVE  MapInv'
  BY <1>3, MapSetArguments, MapSetWork, MapWaitDone DEF Stream
<1>4. ASSUME NEW n \in Nodes, Thread(n)
      PROVE  MapInv'
  BY <1>4, MapTakeIn, MapFreeRank, MapThread
<1> QED
  BY <1>1, <1>2, <1>3, <1>4 DEF Next, Finished, vars, threads, streams

-----------------------------------------------------------------------------
(* What has been reduced.                                                  *)

\* For a rank a reduction is over when its host function has returned or is
\* about to.
Over(r, x) == x \in Returned(r) \/ (HeadDone(r) /\ Head(queue[r]) = x)

LEMMA ReturnedMeans ==
  ASSUME NEW r \in Ranks, NEW x \in Comms \X (1 .. NumReductions)
  PROVE  x \in Returned(r) <=> Created(r, x) /\ \A k \in 1 .. Len(queue[r]) : queue[r][k] # x
BY DEF Returned, Created

LEMMA ReturnedMeansNext ==
  ASSUME NEW r \in Ranks, NEW x \in Comms \X (1 .. NumReductions)
  PROVE  x \in Returned(r)' <=> Created(r, x)' /\ \A k \in 1 .. Len(queue'[r]) : queue'[r][k] # x
BY DEF Returned, Created

LEMMA ReducedInit == Init => ReducedInv
<1> SUFFICES ASSUME Init, NEW n \in Nodes, NEW i \in RankNos, NEW c \in Comms,
                    NEW k \in 1 .. NumReductions
             PROVE  /\ <<c, i, k>> \notin reduced[n]
                    /\ <<c, k>> \notin Returned(<<n, i>>) /\ ~ HeadDone(<<n, i>>)
  BY DEF ReducedInv
<1>1. <<n, i>> \in Ranks /\ c \in Nat /\ c >= 1
  BY DEF Ranks, Comms
<1>2. pc[<<n, i>>] # "queued" /\ comm[<<n, i>>] = 1 /\ spc[<<n, i>>] = "idle" /\ reduced[n] = {}
  BY <1>1 DEF Init
<1>3. ~ Created(<<n, i>>, <<c, k>>)
  BY <1>1, <1>2 DEF Created
<1> QED
  BY <1>1, <1>2, <1>3, ReturnedMeans DEF HeadDone

\* Steps of hosts do not end reductions.
LEMMA OverHost ==
  ASSUME Inv, NEW r \in Ranks, Host(r), NEW q \in Ranks, NEW x \in Comms \X (1 .. NumReductions)
  PROVE  Over(q, x)' <=> Over(q, x)
<1>0. TypeOK /\ QueueInv /\ MapInv
  BY DEF Inv
<1>1. node_id(q) \in Nodes /\ rank_no(q) \in RankNos /\ q = <<node_id(q), rank_no(q)>>
  BY RankPair
<1>2. spc' = spc /\ map' = map /\ pick' = pick
  BY DEF Host, tcclIsShmExist, RecvFlag, StartThread, tcclSharpCreate, GetSharpAddr,
         LeaveBarrierAll, WaitFree, SetInit, WaitInit, LeaveBarrierNode, NextComm, streams, threads
<1>3. thread'[node_id(q)] = "free" <=> thread[node_id(q)] = "free"
  <2>1. CASE StartThread(r)
    <3>1. thread[node_id(r)] = "none" /\ thread' = [thread EXCEPT ![node_id(r)] = "poll"]
      BY <2>1, NoThreadYet DEF StartThread
    <3> QED
      BY <1>0, <1>1, <3>1, RankPair DEF TypeOK
  <2>2. CASE ~ StartThread(r)
    BY <2>2 DEF Host, tcclIsShmExist, RecvFlag, tcclSharpCreate, GetSharpAddr,
                LeaveBarrierAll, WaitFree, SetInit, WaitInit, LeaveBarrierNode, NextComm, threads
  <2> QED
    BY <2>1, <2>2
<1>4. CASE LeaveBarrierNode(r)
  <2>1. HeadDone(q)' <=> HeadDone(q)
    <3>1. CASE spc[q] = "work"
      <4>1. queue[q] # <<>>
        BY <1>0, <3>1 DEF MapInv, EntryInv
      <4>2. Head(queue'[q]) = Head(queue[q])
        BY <1>4, <4>1, MapQueued
      <4> QED
        BY <1>2, <1>3, <4>2 DEF HeadDone, Entry
    <3>2. CASE spc[q] # "work"
      BY <1>2, <3>2 DEF HeadDone
    <3> QED
      BY <3>1, <3>2
  <2>2. HeadDone(q) => Head(queue'[q]) = Head(queue[q])
    <3>1. HeadDone(q) => queue[q] # <<>>
      BY <1>0 DEF HeadDone, MapInv, EntryInv
    <3> QED
      BY <1>4, <3>1, MapQueued
  <2>3. x \in Returned(q)' <=> x \in Returned(q)
    <3>1. pc[r] = "barriernode" /\ pc' = [pc EXCEPT ![r] = "queued"] /\ comm' = comm
      BY <1>4 DEF LeaveBarrierNode, Goto
    <3>2. CASE q # r
      <4>1. queue'[q] = queue[q] /\ pc'[q] = pc[q]
        BY <1>0, <1>4, <3>1, <3>2, QueueGrows DEF TypeOK
      <4>2. Created(q, x)' <=> Created(q, x)
        BY <3>1, <4>1 DEF Created
      <4> QED
        BY <4>1, <4>2, ReturnedMeans, ReturnedMeansNext
    <3>3. CASE q = r
      <4> DEFINE L == Len(queue[r])
      <4>1. /\ Len(queue'[r]) = L + NumReductions /\ L \in Nat /\ NumReductions \in Nat
            /\ \A k \in 1 .. L : queue'[r][k] = queue[r][k]
            /\ \A k \in 1 .. NumReductions : queue'[r][L + k] = <<comm[r], k>>
        <5>1. queue[r] \in Seq(Comms \X (1 .. NumReductions))
          BY <1>0 DEF TypeOK
        <5>2. L \in Nat /\ NumReductions \in Nat
          BY <5>1, SizesAssumption
        <5> QED
          BY <1>0, <1>4, <5>2, QueueGrows
      <4>2. /\ pc'[r] = "queued" /\ pc[r] # "queued" /\ comm[r] \in Nat
            /\ x[1] \in Nat /\ x[2] \in 1 .. NumReductions /\ x = <<x[1], x[2]>>
        <5>1. comm[r] \in Comms /\ x[1] \in Comms
          BY <1>0 DEF TypeOK
        <5>2. pc'[r] = "queued" /\ pc[r] # "queued"
          BY <1>0, <3>1 DEF TypeOK
        <5>3. comm[r] \in Nat /\ x[1] \in Nat
          BY <5>1, NodeZero
        <5>4. x[2] \in 1 .. NumReductions /\ x = <<x[1], x[2]>>
          OBVIOUS
        <5> QED
          BY <5>2, <5>3, <5>4
      <4> HIDE DEF L
      <4>3. CASE x[1] = comm[r]
        <5>1. x = queue'[r][L + x[2]] /\ L + x[2] \in 1 .. Len(queue'[r])
          <6> DEFINE h == x[2]
          <6>1. h \in 1 .. NumReductions /\ x = <<comm[r], h>>
            BY <4>2, <4>3
          <6> HIDE DEF h
          <6>2. queue'[r][L + h] = <<comm[r], h>> /\ L + h \in 1 .. Len(queue'[r])
            BY <4>1, <6>1
          <6> QED
            BY <6>1, <6>2 DEF h
        <5>2. ~ Created(r, x)
          BY <4>2, <4>3 DEF Created
        <5> QED
          BY <3>3, <5>1, <5>2, ReturnedMeans, ReturnedMeansNext
      <4>4. CASE x[1] # comm[r]
        <5>1. Created(r, x)' <=> Created(r, x)
          BY <3>1, <4>2, <4>4 DEF Created
        <5>2. (\A k \in 1 .. Len(queue'[r]) : queue'[r][k] # x) <=> (\A k \in 1 .. L : queue[r][k] # x)
          <6>1. ASSUME NEW k \in 1 .. Len(queue'[r]), queue'[r][k] = x
                PROVE  k \in 1 .. L
            <7> SUFFICES ASSUME k \notin 1 .. L
                         PROVE  FALSE
              OBVIOUS
            <7>1. k - L \in 1 .. NumReductions /\ k = L + (k - L)
              BY <4>1
            <7>2. x = <<comm[r], k - L>>
              BY <4>1, <6>1, <7>1
            <7> QED
              BY <4>4, <7>2
          <6>2. \A k \in 1 .. L : k \in 1 .. Len(queue'[r])
            BY <4>1
          <6> QED
            BY <4>1, <6>1, <6>2
        <5> QED
          BY <3>3, <5>1, <5>2, ReturnedMeans, ReturnedMeansNext DEF L
      <4> QED
        BY <4>3, <4>4
    <3> QED
      BY <3>2, <3>3
  <2> QED
    BY <2>1, <2>2, <2>3 DEF Over
<1>5. CASE ~ LeaveBarrierNode(r)
  <2>1. queue' = queue
    BY <1>5 DEF Host, tcclIsShmExist, RecvFlag, StartThread, tcclSharpCreate, GetSharpAddr,
                LeaveBarrierAll, WaitFree, SetInit, WaitInit, NextComm, streams
  <2>2. Created(q, x)' <=> Created(q, x)
    BY <1>0, <1>5, CreatedKept
  <2>3. x \in Returned(q)' <=> x \in Returned(q)
    BY <2>1, <2>2, ReturnedMeans, ReturnedMeansNext
  <2>4. HeadDone(q)' <=> HeadDone(q)
    BY <1>2, <1>3, <2>1 DEF HeadDone, Entry
  <2> QED
    BY <2>1, <2>3, <2>4 DEF Over
<1> QED
  BY <1>4, <1>5

\* A stream that sees its reduction done passes it on from the head of its
\* queue to the reductions that have returned.
LEMMA OverStream ==
  ASSUME Inv, NEW r \in Ranks, Stream(r), NEW q \in Ranks, NEW x \in Comms \X (1 .. NumReductions)
  PROVE  Over(q, x)' <=> Over(q, x)
<1>0. TypeOK /\ QueueInv /\ TakenInv /\ WorkInv /\ EntryInv /\ DueInv
  BY DEF Inv, MapInv
<1>1. pc' = pc /\ comm' = comm /\ thread' = thread /\ pick' = pick
  BY DEF Stream, SetArguments, SetWork, WaitDone, hosts, threads
<1>2. Created(q, x)' <=> Created(q, x)
  BY <1>1 DEF Created
<1>3. spc \in [Ranks -> {"idle", "free", "work"}]
  BY <1>0 DEF TypeOK
<1>4. CASE WaitDone(r)
  <2>1. spc[r] = "work" /\ Entry(r).status = "FREE" /\ map' = map /\ spc' = [spc EXCEPT ![r] = "idle"]
    BY <1>4 DEF WaitDone
  <2>2. queue[r] # <<>>
    BY <1>0, <2>1 DEF EntryInv
  <2>3. /\ \A p \in Ranks \ {r} : queue'[p] = queue[p]
        /\ Len(queue'[r]) = Len(queue[r]) - 1
        /\ \A k \in 1 .. Len(queue[r]) - 1 : queue'[r][k] = queue[r][k + 1]
    BY <1>0, <1>4, <2>2, QueueShrinks
  <2>4. CASE q # r
    <3>1. queue'[q] = queue[q] /\ spc'[q] = spc[q]
      BY <1>3, <2>1, <2>3, <2>4
    <3>2. x \in Returned(q)' <=> x \in Returned(q)
      BY <1>2, <3>1, ReturnedMeans, ReturnedMeansNext
    <3>3. HeadDone(q)' <=> HeadDone(q)
      BY <1>1, <2>1, <3>1 DEF HeadDone, Entry
    <3> QED
      BY <3>1, <3>2, <3>3 DEF Over
  <2>5. CASE q = r
    <3>1. HeadDone(r) /\ ~ HeadDone(r)'
      BY <1>3, <2>1 DEF HeadDone
    <3>2. Head(queue[r]) = queue[r][1] /\ Len(queue[r]) \in Nat \ {0}
      BY <1>0, <2>2, HeadType
    <3> DEFINE L == Len(queue[r])
    <3>3. \A k \in 2 .. L : k - 1 \in 1 .. Len(queue'[r]) /\ queue'[r][k - 1] = queue[r][k]
      <4> SUFFICES ASSUME NEW k \in 2 .. L
                   PROVE  k - 1 \in 1 .. Len(queue'[r]) /\ queue'[r][k - 1] = queue[r][k]
        OBVIOUS
      <4>1. k - 1 \in 1 .. L - 1 /\ (k - 1) + 1 = k
        BY <3>2
      <4> QED
        BY <2>3, <4>1
    <3>4. \A k \in 1 .. Len(queue'[r]) : k + 1 \in 2 .. L /\ queue'[r][k] = queue[r][k + 1]
      BY <2>3, <3>2
    <3>5. \A k \in 2 .. L : queue[r][k] # queue[r][1]
      <4> SUFFICES ASSUME NEW k \in 2 .. L
                   PROVE  queue[r][k] # queue[r][1]
        OBVIOUS
      <4>1. k \in 1 .. L /\ 1 \in 1 .. L /\ 1 < k
        BY <3>2
      <4>2. Before(queue[r][1], queue[r][k])
        BY <1>0, <4>1 DEF QueueInv
      <4>3. queue[r] \in Seq(Comms \X (1 .. NumReductions))
        BY <1>0 DEF TypeOK
      <4>4. queue[r][1][1] \in Nat /\ queue[r][1][2] \in Nat
        <5>1. queue[r][1] \in Comms \X (1 .. NumReductions)
          BY <4>1, <4>3
        <5>2. queue[r][1][1] \in Comms /\ queue[r][1][2] \in 1 .. NumReductions
          BY <5>1
        <5>3. queue[r][1][1] \in Nat
          BY <5>2, NodeZero
        <5> QED
          BY <5>2, <5>3
      <4> QED
        BY <4>2, <4>4 DEF Before
    <3>6. (\A k \in 1 .. Len(queue'[r]) : queue'[r][k] # x) <=> (\A k \in 2 .. L : queue[r][k] # x)
      <4>1. ASSUME \A k \in 1 .. Len(queue'[r]) : queue'[r][k] # x, NEW k \in 2 .. L
            PROVE  queue[r][k] # x
        BY <3>3, <4>1
      <4>2. ASSUME \A k \in 2 .. L : queue[r][k] # x, NEW k \in 1 .. Len(queue'[r])
            PROVE  queue'[r][k] # x
        BY <3>4, <4>2
      <4> QED
        BY <4>1, <4>2
    <3>7. \A k \in 1 .. L : k = 1 \/ k \in 2 .. L
      BY <3>2
    <3>8. 1 \in 1 .. L /\ \A k \in 2 .. L : k \in 1 .. L
      BY <3>2
    <3>9. Created(r, queue[r][1])
      BY <1>0, <3>8 DEF QueueInv
    <3>10. x \in Returned(r)' <=> x \in Returned(r) \/ x = queue[r][1]
      <4> HIDE DEF L
      <4>1. x \in Returned(r)' <=> Created(r, x) /\ \A k \in 2 .. L : queue[r][k] # x
        BY <1>2, <2>5, <3>6, ReturnedMeansNext
      <4>2. x \in Returned(r) <=> Created(r, x) /\ \A k \in 1 .. L : queue[r][k] # x
        BY ReturnedMeans DEF L
      <4> QED
        BY <3>5, <3>7, <3>8, <3>9, <4>1, <4>2
    <3> QED
      BY <2>5, <3>1, <3>2, <3>10 DEF Over
  <2> QED
    BY <2>4, <2>5
<1>5. CASE SetArguments(r) \/ SetWork(r)
  <2>1. queue' = queue /\ spc[r] # "work" /\ queue[r] # <<>>
    BY <1>0, <1>5 DEF SetArguments, SetWork, EntryInv
  <2>2. x \in Returned(q)' <=> x \in Returned(q)
    BY <1>2, <2>1, ReturnedMeans, ReturnedMeansNext
  <2>3. node_id(r) \in Nodes /\ rank_no(r) \in RankNos /\ Head(queue[r])[1] \in Comms
        /\ Entry(r) = map[node_id(r)][Head(queue[r])[1]][rank_no(r)]
    BY <1>0, <2>1, RankPair, StreamEntry
  <2>4. PICK e : SetEntry(node_id(r), Head(queue[r])[1], rank_no(r), e)
    BY <1>5 DEF SetArguments, SetWork
  <2>5. \A m \in Nodes, d \in Comms, j \in RankNos :
          map'[m][d][j] = IF m = node_id(r) /\ d = Head(queue[r])[1] /\ j = rank_no(r)
                          THEN e ELSE map[m][d][j]
    BY <1>0, <2>3, <2>4, EntrySet
  <2>6. CASE q # r
    <3>1. spc'[q] = spc[q]
      BY <1>3, <1>5, <2>6 DEF SetArguments, SetWork
    <3>2. CASE spc[q] # "work"
      BY <2>1, <2>2, <3>1, <3>2 DEF Over, HeadDone
    <3>3. CASE spc[q] = "work"
      <4>1. queue[q] # <<>>
        BY <1>0, <3>3 DEF EntryInv
      <4>2. Head(queue[q])[1] \in Comms /\ node_id(q) \in Nodes /\ rank_no(q) \in RankNos
        BY <1>0, <4>1, StreamEntry, RankPair
      <4>3. ~ (node_id(q) = node_id(r) /\ rank_no(q) = rank_no(r))
        BY <2>6, RankPair
      <4>4. Entry(q)' = Entry(q)
        BY <2>1, <2>5, <4>2, <4>3 DEF Entry
      <4> QED
        BY <1>1, <2>1, <2>2, <3>1, <4>4 DEF Over, HeadDone
    <3> QED
      BY <3>2, <3>3
  <2>7. CASE q = r
    <3>1. ~ HeadDone(r)
      BY <2>1 DEF HeadDone
    <3>2. ~ HeadDone(r)'
      <4>1. CASE SetArguments(r)
        BY <1>3, <4>1 DEF SetArguments, HeadDone
      <4>2. CASE SetWork(r)
        <5>1. Entry(r).status = "FREE" /\ SetEntry(node_id(r), Head(queue[r])[1], rank_no(r),
                                                   [Entry(r) EXCEPT !.status = "WORK"])
          BY <4>2 DEF SetWork
        <5>2. map'[node_id(r)][Head(queue[r])[1]][rank_no(r)] = [Entry(r) EXCEPT !.status = "WORK"]
          BY <1>0, <2>3, <5>1, EntrySet
        <5>3. Entry(r)'.status = "WORK"
          <6>1. [Entry(r) EXCEPT !.status = "WORK"].status = "WORK"
            BY <1>0, <2>1, StreamEntry
          <6> QED
            BY <2>1, <5>2, <6>1 DEF Entry
        <5>4. ~ (thread[node_id(r)] = "free" /\ pick[node_id(r)] = <<Head(queue[r])[1], rank_no(r)>>)
          <6> SUFFICES ASSUME thread[node_id(r)] = "free",
                              pick[node_id(r)] = <<Head(queue[r])[1], rank_no(r)>>
                       PROVE  FALSE
            OBVIOUS
          <6>1. Picked(node_id(r)).status = "WORK" /\ Picked(node_id(r)) = Entry(r)
            BY <1>0, <2>3 DEF DueInv, Picked
          <6> QED
            BY <5>1, <6>1
        <5> QED
          BY <1>1, <2>1, <5>3, <5>4 DEF HeadDone
      <4> QED
        BY <1>5, <4>1, <4>2
    <3> QED
      BY <2>2, <2>7, <3>1, <3>2 DEF Over
  <2> QED
    BY <2>6, <2>7
<1> QED
  BY <1>4, <1>5 DEF Stream

\* Nor do the steps of threads but the allreduce: what they tell a rank is
\* over has been since then.
LEMMA OverThread ==
  ASSUME Inv, NEW n \in Nodes, Thread(n), ~ tcclSharpAllReduce(n),
         NEW q \in Ranks, NEW x \in Comms \X (1 .. NumReductions)
  PROVE  Over(q, x)' <=> Over(q, x)
<1>0. TypeOK /\ TakenInv /\ WorkInv /\ EntryInv /\ DueInv
  BY DEF Inv, MapInv
<1>1. pc' = pc /\ comm' = comm /\ spc' = spc /\ queue' = queue
  BY DEF Thread, tcclSharpMapInit, InitDone, FindWork, BeginWork, RecvInfo, WaitWork, FreeRank,
         FreeNode, hosts, streams
<1>2. x \in Returned(q)' <=> x \in Returned(q)
  BY <1>1, ReturnedMeans, ReturnedMeansNext DEF Created
<1> SUFFICES ASSUME spc[q] = "work"
             PROVE  HeadDone(q)' <=> HeadDone(q)
  BY <1>1, <1>2 DEF Over, HeadDone
<1>3. queue[q] # <<>> /\ Entry(q).status # ZERO
  BY <1>0 DEF EntryInv
<1>4. Head(queue[q])[1] \in Comms /\ node_id(q) \in Nodes /\ rank_no(q) \in RankNos
      /\ Entry(q) = map[node_id(q)][Head(queue[q])[1]][rank_no(q)]
  BY <1>0, <1>3, StreamEntry, RankPair
<1>5. thread \in [Nodes -> {"none", "poll", "init", "found", "bcast", "waitwork", "reduce",
                            "free", "freenode"}]
      /\ pick \in [Nodes -> (0 .. NumComms) \X RankNos]
  BY <1>0 DEF TypeOK
<1>6. CASE FreeRank(n)
  <2> DEFINE c == pick[n][1]
  <2> DEFINE i == pick[n][2]
  <2> DEFINE e == [Picked(n) EXCEPT !.status = "FREE"]
  <2>1. thread[n] = "free" /\ thread' = [thread EXCEPT ![n] = "freenode"] /\ pick' = pick
        /\ SetEntry(n, c, i, e)
    BY <1>6 DEF FreeRank, Go
  <2>2. c \in Comms /\ i \in RankNos /\ pick[n] = <<c, i>>
    BY <2>1, PickType
  <2>3. e.status = "FREE"
    BY <1>0, <2>2, EntryType DEF Picked
  <2> HIDE DEF c, i, e
  <2>4. \A m \in Nodes, d \in Comms, j \in RankNos :
          map'[m][d][j] = IF m = n /\ d = c /\ j = i THEN e ELSE map[m][d][j]
    BY <1>0, <2>1, <2>2, EntrySet
  <2>5. CASE node_id(q) = n /\ Head(queue[q])[1] = c /\ rank_no(q) = i
    <3>1. HeadDone(q)
      BY <2>1, <2>2, <2>5 DEF HeadDone
    <3>2. Entry(q)' = e
      BY <1>1, <1>4, <2>4, <2>5 DEF Entry
    <3> QED
      BY <1>1, <2>3, <3>1, <3>2 DEF HeadDone
  <2>6. CASE ~ (node_id(q) = n /\ Head(queue[q])[1] = c /\ rank_no(q) = i)
    <3>1. Entry(q)' = Entry(q)
      BY <1>1, <1>4, <2>4, <2>6 DEF Entry
    <3>2. CASE node_id(q) = n
      <4>1. pick[n] # <<Head(queue[q])[1], rank_no(q)>>
        BY <2>2, <2>6, <3>2
      <4> QED
        BY <1>1, <2>1, <3>1, <3>2, <4>1 DEF HeadDone
    <3>3. CASE node_id(q) # n
      <4>1. thread'[node_id(q)] = thread[node_id(q)]
        BY <1>4, <1>5, <2>1, <3>3
      <4> QED
        BY <1>1, <2>1, <3>1, <4>1 DEF HeadDone
    <3> QED
      BY <3>2, <3>3
  <2> QED
    BY <2>5, <2>6
<1>7. CASE tcclSharpMapInit(n)
  <2> DEFINE c == ctl[n].commport
  <2> DEFINE freed == [j \in RankNos |-> [map[n][c][j] EXCEPT !.status = "FREE"]]
  <2>1. /\ pick' = pick /\ thread[n] = "poll" /\ thread' = [thread EXCEPT ![n] = "init"]
        /\ \/ map' = map
           \/ ~ Taken(n, c) /\ map' = [map EXCEPT ![n] = [map[n] EXCEPT ![c] = freed]]
    BY <1>0, <1>7 DEF tcclSharpMapInit, Go, TypeOK, Taken
  <2> HIDE DEF freed, c
  <2>2. \A m \in Nodes : thread'[m] = "free" <=> thread[m] = "free"
    BY <1>5, <2>1
  <2>3. Entry(q)' = Entry(q)
    <3>1. CASE map' = map
      BY <1>1, <3>1 DEF Entry
    <3>2. CASE ~ Taken(n, c) /\ map' = [map EXCEPT ![n] = [map[n] EXCEPT ![c] = freed]]
      <4>1. map \in [Nodes -> [Comms -> [RankNos -> [status : {ZERO, "FREE", "WORK"},
                                                     reduction : 0 .. NumReductions]]]]
        BY <1>0 DEF TypeOK
      <4>2. Taken(node_id(q), Head(queue[q])[1])
        BY <1>0, <1>3, <1>4 DEF TakenInv
      <4>3. ~ (node_id(q) = n /\ Head(queue[q])[1] = c)
        BY <3>2, <4>2
      <4>4. map'[node_id(q)][Head(queue[q])[1]] = map[node_id(q)][Head(queue[q])[1]]
        <5>1. CASE node_id(q) # n
          BY <1>4, <3>2, <4>1, <5>1
        <5>2. CASE node_id(q) = n
          <6>1. map'[n] = [map[n] EXCEPT ![c] = freed] /\ map[n] \in [Comms -> [RankNos ->
                  [status : {ZERO, "FREE", "WORK"}, reduction : 0 .. NumReductions]]]
            BY <3>2, <4>1
          <6> QED
            BY <1>4, <4>3, <5>2, <6>1
        <5> QED
          BY <5>1, <5>2
      <4> QED
        BY <1>1, <4>4 DEF Entry
    <3> QED
      BY <2>1, <3>1, <3>2
  <2> QED
    BY <1>1, <1>4, <2>1, <2>2, <2>3 DEF HeadDone
<1>8. CASE ~ FreeRank(n) /\ ~ tcclSharpMapInit(n)
  <2>1. /\ map' = map /\ thread[n] # "free"
        /\ \E l : l # "free" /\ thread' = [thread EXCEPT ![n] = l]
        /\ pick' = pick \/ \E p : pick' = [pick EXCEPT ![n] = p]
    BY <1>8 DEF Thread, InitDone, FindWork, BeginWork, RecvInfo, WaitWork, FreeNode, Go
  <2>2. \A m \in Nodes : /\ thread'[m] = "free" <=> thread[m] = "free"
                         /\ thread[m] = "free" => pick'[m] = pick[m]
    BY <1>5, <2>1
  <2>3. Entry(q)' = Entry(q)
    BY <1>1, <2>1 DEF Entry
  <2> QED
    BY <1>1, <1>4, <2>2, <2>3 DEF HeadDone
<1> QED
  BY <1>6, <1>7, <1>8

\* The allreduce does the reduction that its rank has at the head of its queue.
LEMMA ReducesHead ==
  ASSUME Inv, NEW n \in Nodes, thread[n] = "reduce"
  PROVE  LET r == <<n, pick[n][2]>> IN
         /\ r \in Ranks /\ pick[n][1] \in Comms /\ pick[n][2] \in RankNos
         /\ pick[n] = <<pick[n][1], pick[n][2]>>
         /\ spc[r] = "work" /\ queue[r] # <<>> /\ Entry(r).status = "WORK"
         /\ Head(queue[r])[1] = pick[n][1] /\ Head(queue[r])[2] \in 1 .. NumReductions
         /\ Reduction(n) = <<pick[n][1], pick[n][2], Head(queue[r])[2]>>
         /\ Head(queue[r]) = <<pick[n][1], Head(queue[r])[2]>>
<1> DEFINE c == pick[n][1]
<1> DEFINE i == pick[n][2]
<1> DEFINE r == <<n, i>>
<1>0. TypeOK /\ WorkInv /\ EntryInv /\ DueInv
  BY DEF Inv, MapInv
<1>1. c \in Comms /\ i \in RankNos /\ pick[n] = <<c, i>> /\ r \in Ranks
  BY PickType DEF Ranks
<1>2. map[n][c][i].status = "WORK"
  BY <1>0 DEF DueInv, Picked
<1>3. spc[r] = "work" /\ Head(queue[r])[1] = c
  BY <1>0, <1>1, <1>2 DEF WorkInv
<1>4. queue[r] # <<>> /\ Entry(r).reduction = Head(queue[r])[2]
  BY <1>0, <1>1, <1>3 DEF EntryInv
<1>5. Entry(r) = map[n][c][i]
  BY <1>3 DEF Entry, node_id, rank_no
<1>6. Head(queue[r])[2] \in 1 .. NumReductions /\ Head(queue[r]) = <<c, Head(queue[r])[2]>>
  BY <1>0, <1>1, <1>3, <1>4, HeadType
<1>7. Reduction(n) = <<c, i, Head(queue[r])[2]>>
  BY <1>4, <1>5 DEF Reduction, Picked
<1> QED
  BY <1>1, <1>2, <1>3, <1>4, <1>5, <1>6, <1>7

LEMMA ReducedNext == Inv /\ [Next]_vars => ReducedInv'
<1> SUFFICES ASSUME Inv, [Next]_vars
             PROVE  ReducedInv'
  OBVIOUS
<1>0. TypeOK /\ MapInv
  BY DEF Inv
<1> SUFFICES ASSUME NEW m \in Nodes, NEW j \in RankNos, NEW d \in Comms, NEW k \in 1 .. NumReductions
             PROVE  <<d, j, k>> \in reduced'[m] <=> Over(<<m, j>>, <<d, k>>)'
  BY DEF ReducedInv, Over
<1> DEFINE q == <<m, j>>
<1> DEFINE x == <<d, k>>
<1>1. q \in Ranks /\ x \in Comms \X (1 .. NumReductions) /\ node_id(q) = m /\ rank_no(q) = j
  BY DEF Ranks, node_id, rank_no
<1>2. <<d, j, k>> \in reduced[m] <=> Over(q, x)
  BY DEF Inv, ReducedInv, Over
<1> HIDE DEF q, x
<1>3. ASSUME \A n \in Nodes : ~ tcclSharpAllReduce(n)
      PROVE  <<d, j, k>> \in reduced'[m] <=> Over(q, x)'
  <2>1. reduced' = reduced
    BY <1>3, Steady
  <2>2. Over(q, x)' <=> Over(q, x)
    <3>1. CASE UNCHANGED vars
      BY <3>1 DEF vars, hosts, streams, threads, Over, Returned, HeadDone, Entry
    <3> QED
      BY <1>1, <1>3, <3>1, OverHost, OverStream, OverThread DEF Next, Finished
  <2> QED
    BY <1>2, <2>1, <2>2
<1>4. ASSUME NEW n \in Nodes, tcclSharpAllReduce(n)
      PROVE  <<d, j, k>> \in reduced'[m] <=> Over(q, x)'
  <2> DEFINE r == <<n, pick[n][2]>>
  <2>1. /\ thread[n] = "reduce" /\ thread' = [thread EXCEPT ![n] = "free"]
        /\ reduced' = [reduced EXCEPT ![n] = reduced[n] \cup {Reduction(n)}]
        /\ UNCHANGED <<pc, comm, queue, spc, map, pick>>
    BY <1>4 DEF tcclSharpAllReduce, Go, hosts, streams
  <2>2. /\ pick[n] = <<pick[n][1], pick[n][2]>>
        /\ spc[r] = "work" /\ Entry(r).status = "WORK" /\ Head(queue[r])[1] = pick[n][1]
        /\ Reduction(n) = <<pick[n][1], pick[n][2], Head(queue[r])[2]>>
        /\ Head(queue[r]) = <<pick[n][1], Head(queue[r])[2]>>
    BY <2>1, ReducesHead
  <2>3. x \in Returned(q)' <=> x \in Returned(q)
    BY <1>1, <2>1, ReturnedMeans, ReturnedMeansNext DEF Created
  <2>4. Entry(q)' = Entry(q)
    BY <2>1 DEF Entry
  <2>5. thread \in [Nodes -> {"none", "poll", "init", "found", "bcast", "waitwork", "reduce",
                              "free", "freenode"}]
    BY <1>0 DEF TypeOK
  <2>6. reduced \in [Nodes -> SUBSET (Comms \X RankNos \X (0 .. NumReductions))]
    BY <1>0 DEF TypeOK
  <2>7. CASE m # n
    <3>1. reduced'[m] = reduced[m] /\ thread'[m] = thread[m] /\ pick'[m] = pick[m]
      BY <2>1, <2>5, <2>6, <2>7
    <3> QED
      BY <1>1, <1>2, <2>1, <2>3, <2>4, <3>1 DEF Over, HeadDone
  <2>8. CASE m = n /\ j # pick[n][2]
    <3>1. reduced'[m] = reduced[m] \cup {Reduction(n)} /\ <<d, j, k>> # Reduction(n)
      BY <2>1, <2>2, <2>6, <2>8
    <3>2. pick[n] # <<Head(queue[q])[1], rank_no(q)>>
      BY <1>1, <2>2, <2>8
    <3>3. HeadDone(q)' <=> HeadDone(q)
      BY <1>1, <2>1, <2>4, <2>8, <3>2 DEF HeadDone
    <3> QED
      BY <1>2, <2>1, <2>3, <3>1, <3>3 DEF Over
  <2>9. CASE m = n /\ j = pick[n][2]
    <3>1. q = r
      BY <2>9 DEF q
    <3>2. ~ HeadDone(q)
      BY <1>1, <2>1, <2>2, <2>9, <3>1 DEF HeadDone
    <3>3. thread'[n] = "free"
      BY <2>1, <2>5
    <3>4. HeadDone(q)'
      BY <1>1, <2>1, <2>2, <2>9, <3>1, <3>3 DEF HeadDone
    <3>5. <<d, j, k>> = Reduction(n) <=> Head(queue[r]) = x
      BY <2>2, <2>9 DEF x
    <3>6. reduced'[m] = reduced[m] \cup {Reduction(n)}
      BY <2>1, <2>6, <2>9
    <3> QED
      BY <1>2, <2>1, <2>3, <3>1, <3>2, <3>4, <3>5, <3>6 DEF Over
  <2> QED
    BY <2>7, <2>8, <2>9
<1> QED
  BY <1>3, <1>4 DEF q, x

-----------------------------------------------------------------------------
(* The nodes do the same.                                                  *)

\* What a node is about to reduce it has not reduced before, and it has
\* reduced all that its rank has for this communicator before it.
LEMMA InOrder ==
  ASSUME Inv, NEW n \in Nodes, thread[n] = "reduce"
  PROVE  LET h == Head(queue[<<n, pick[n][2]>>])[2] IN
         /\ <<pick[n][1], pick[n][2], h>> \notin reduced[n]
         /\ \A k \in 1 .. NumReductions :
              k < h => <<pick[n][1], pick[n][2], k>> \in reduced[n]
<1> DEFINE c == pick[n][1]
<1> DEFINE i == pick[n][2]
<1> DEFINE r == <<n, i>>
<1> DEFINE h == Head(queue[r])[2]
<1>0. TypeOK /\ QueueInv /\ ReducedInv
  BY DEF Inv
<1>1. /\ r \in Ranks /\ c \in Comms /\ i \in RankNos /\ queue[r] # <<>>
      /\ Entry(r).status = "WORK" /\ h \in 1 .. NumReductions /\ Head(queue[r]) = <<c, h>>
  BY ReducesHead
<1>2. ~ HeadDone(r)
  BY <1>1 DEF HeadDone, node_id
<1> HIDE DEF h, r, c, i
<1>3. \A k \in 1 .. NumReductions : <<c, i, k>> \in reduced[n] <=> <<c, k>> \in Returned(r)
  BY <1>0, <1>1, <1>2 DEF ReducedInv, r
<1>4. queue[r][1] = <<c, h>> /\ Len(queue[r]) \in Nat \ {0}
  BY <1>0, <1>1, HeadType
<1>5. c \in Nat /\ h \in Nat
  BY <1>1, NodeZero
<1>6. <<c, i, h>> \notin reduced[n]
  <2>1. 1 \in 1 .. Len(queue[r]) /\ <<c, h>> \in Comms \X (1 .. NumReductions)
    BY <1>1, <1>4
  <2>2. <<c, h>> \notin Returned(r)
    BY <1>1, <1>4, <2>1, ReturnedMeans
  <2> QED
    BY <1>1, <1>3, <2>2
<1>7. ASSUME NEW k \in 1 .. NumReductions, k < h
      PROVE  <<c, i, k>> \in reduced[n]
  <2>1. <<c, k>> \in Comms \X (1 .. NumReductions) /\ 1 \in 1 .. Len(queue[r])
    BY <1>1, <1>4
  <2>2. Created(r, <<c, h>>)
    BY <1>0, <1>1, <1>4, <2>1 DEF QueueInv
  <2>3. Created(r, <<c, k>>)
    BY <2>2 DEF Created
  <2>4. ASSUME NEW l \in 1 .. Len(queue[r]), queue[r][l] = <<c, k>>
        PROVE  FALSE
    <3>1. CASE l = 1
      BY <1>4, <1>5, <1>7, <2>4, <3>1
    <3>2. CASE l # 1
      <4>1. 1 < l
        BY <1>4, <3>2
      <4>2. Before(<<c, h>>, <<c, k>>)
        BY <1>0, <1>1, <1>4, <2>1, <2>4, <4>1 DEF QueueInv
      <4> QED
        BY <1>5, <1>7, <4>2 DEF Before
    <3> QED
      BY <3>1, <3>2
  <2>5. <<c, k>> \in Returned(r)
    BY <1>1, <2>1, <2>3, <2>4, ReturnedMeans
  <2> QED
    BY <1>3, <2>5
<1> QED
  BY <1>6, <1>7 DEF h, r, c, i

\* Nodes that reduce in the same round reduce the same: they have ended the
\* same reductions, and each has told its streams of them in order.
LEMMA SameReductions ==
  ASSUME Inv, NEW m \in Nodes, NEW n \in Nodes, thread[m] = "reduce", thread[n] = "reduce",
         round[m] = round[n]
  PROVE  Reduction(m) = Reduction(n)
<1> DEFINE a == Head(queue[<<m, pick[m][2]>>])[2]
<1> DEFINE b == Head(queue[<<n, pick[n][2]>>])[2]
<1>1. pick[m] = pick[n]
  BY DEF Inv, PickInv, ToldInv, Told
<1>2. reduced[m] = reduced[n]
  BY DEF Inv, TogetherInv, Ended, Ending
<1>3. /\ a \in 1 .. NumReductions /\ b \in 1 .. NumReductions
      /\ Reduction(m) = <<pick[m][1], pick[m][2], a>> /\ Reduction(n) = <<pick[n][1], pick[n][2], b>>
  BY ReducesHead
<1>4. ~ a < b
  BY <1>1, <1>2, <1>3, InOrder
<1>5. ~ b < a
  BY <1>1, <1>2, <1>3, InOrder
<1>6. a = b
  BY <1>3, <1>4, <1>5
<1> QED
  BY <1>1, <1>3, <1>6

\* While a node reduces, its reduction stays what it is.
LEMMA ReductionKept ==
  ASSUME Inv, [Next]_vars, \A n \in Nodes : ~ tcclSharpAllReduce(n),
         NEW n \in Nodes, thread[n] = "reduce"
  PROVE  Reduction(n)' = Reduction(n)
<1> DEFINE c == pick[n][1]
<1> DEFINE i == pick[n][2]
<1> DEFINE r == <<n, i>>
<1>1. /\ r \in Ranks /\ c \in Comms /\ i \in RankNos /\ queue[r] # <<>>
      /\ Entry(r).status = "WORK" /\ Reduction(n) = <<c, i, Head(queue[r])[2]>>
  BY ReducesHead
<1>2. thread'[n] = "reduce" /\ pick'[n] = pick[n]
  BY Steady
<1>3. WorkInv' /\ EntryInv' /\ DueInv'
  BY MapNext DEF MapInv
<1>4. map'[n][c][i].status = "WORK"
  BY <1>2, <1>3 DEF DueInv, Picked
<1>5. spc'[r] = "work" /\ Head(queue'[r])[1] = c
  BY <1>1, <1>3, <1>4 DEF WorkInv
<1>6. \A q \in Ranks : spc'[q] = "work" =>
        map'[q[1]][Head(queue'[q])[1]][q[2]].reduction = Head(queue'[q])[2]
  BY <1>3 DEF EntryInv, Entry, node_id, rank_no
<1>7. map'[n][c][i].reduction = Head(queue'[r])[2]
  BY <1>1, <1>5, <1>6
<1>8. Head(queue'[r]) = Head(queue[r])
  <2>1. ASSUME NEW q \in Ranks, Host(q)
        PROVE  Head(queue'[r]) = Head(queue[r])
    <3>1. CASE LeaveBarrierNode(q)
      BY <1>1, <3>1, MapQueued
    <3>2. CASE ~ LeaveBarrierNode(q)
      <4>1. queue' = queue
        BY <2>1, <3>2 DEF Host, tcclIsShmExist, RecvFlag, StartThread, tcclSharpCreate,
                          GetSharpAddr, LeaveBarrierAll, WaitFree, SetInit, WaitInit, NextComm,
                          streams
      <4> QED
        BY <4>1
    <3> QED
      BY <3>1, <3>2
  <2>2. ASSUME NEW q \in Ranks, Stream(q)
        PROVE  Head(queue'[r]) = Head(queue[r])
    <3>1. CASE WaitDone(q)
      <4>1. q # r
        BY <1>1, <3>1 DEF WaitDone
      <4>2. queue' = [queue EXCEPT ![q] = Tail(queue[q])]
            /\ queue \in [Ranks -> Seq(Comms \X (1 .. NumReductions))]
        BY <3>1 DEF WaitDone, Inv, TypeOK
      <4>3. queue'[r] = queue[r]
        BY <1>1, <4>1, <4>2
      <4> QED
        BY <4>3
    <3>2. CASE ~ WaitDone(q)
      BY <2>2, <3>2 DEF Stream, SetArguments, SetWork
    <3> QED
      BY <3>1, <3>2
  <2>3. ASSUME NEW m \in Nodes, Thread(m)
        PROVE  queue' = queue
    BY <2>3 DEF Thread, tcclSharpMapInit, InitDone, FindWork, BeginWork, RecvInfo, WaitWork,
                tcclSharpAllReduce, FreeRank, FreeNode, streams
  <2> QED
    BY <2>1, <2>2, <2>3 DEF Next, Finished, vars, streams
<1>9. Reduction(n)' = <<c, i, map'[n][c][i].reduction>>
  BY <1>2 DEF Reduction, Picked
<1> QED
  BY <1>1, <1>7, <1>8, <1>9

LEMMA TogetherInit == Init => TogetherInv
BY DEF Init, TogetherInv, Ended, Ending

LEMMA TogetherNext == Inv /\ [Next]_vars => TogetherInv'
<1> SUFFICES ASSUME Inv, [Next]_vars, NEW m \in Nodes, NEW n \in Nodes
             PROVE  /\ Ended(m)' = Ended(n)' => reduced'[m] = reduced'[n]
                    /\ Ended(m)' = Ended(n)' + 1 => reduced'[m] = reduced'[n] \cup {Reduction(n)'}
  BY DEF TogetherInv
<1>0. TypeOK /\ RoundInv /\ TogetherInv
  BY DEF Inv
<1>1. Ended(m) \in Int /\ Ended(n) \in Int
  BY <1>0 DEF TypeOK, Ended
<1>2. /\ Ended(m) = Ended(n) => reduced[m] = reduced[n]
      /\ Ended(m) = Ended(n) + 1 => reduced[m] = reduced[n] \cup {Reduction(n)}
      /\ Ended(n) = Ended(m) + 1 => reduced[n] = reduced[m] \cup {Reduction(m)}
      /\ Ended(m) <= Ended(n) + 1 /\ Ended(n) <= Ended(m) + 1
      /\ Ended(m) = Ended(n) + 1 => thread[n] = "reduce"
  BY <1>0 DEF TogetherInv, RoundInv
<1>3. CASE \A a \in Nodes : ~ tcclSharpAllReduce(a)
  <2>1. reduced' = reduced /\ Ended(m)' = Ended(m) /\ Ended(n)' = Ended(n)
    BY <1>3, Steady
  <2>2. thread[n] = "reduce" => Reduction(n)' = Reduction(n)
    BY <1>3, ReductionKept
  <2> QED
    BY <1>2, <2>1, <2>2
<1>4. ASSUME NEW a \in Nodes, tcclSharpAllReduce(a)
      PROVE  /\ Ended(m)' = Ended(n)' => reduced'[m] = reduced'[n]
             /\ Ended(m)' = Ended(n)' + 1 => reduced'[m] = reduced'[n] \cup {Reduction(n)'}
  <2>1. /\ thread[a] = "reduce" /\ map' = map /\ pick' = pick
        /\ reduced' = [reduced EXCEPT ![a] = reduced[a] \cup {Reduction(a)}]
    BY <1>4 DEF tcclSharpAllReduce
  <2>2. reduced \in [Nodes -> SUBSET (Comms \X RankNos \X (0 .. NumReductions))]
    BY <1>0 DEF TypeOK
  <2>3. reduced'[a] = reduced[a] \cup {Reduction(a)} /\ \A k \in Nodes \ {a} : reduced'[k] = reduced[k]
    BY <2>1, <2>2
  <2>4. Reduction(n)' = Reduction(n)
    BY <2>1 DEF Reduction, Picked
  <2>5. CASE m = n
    BY <1>1, <1>4, <2>5, Progress
  <2>6. CASE m # a /\ n # a
    <3>1. Ended(m)' = Ended(m) /\ Ended(n)' = Ended(n)
      BY <1>4, <2>6, Progress
    <3> QED
      BY <1>2, <2>3, <2>4, <2>6, <3>1
  <2>7. CASE m = a /\ n # a
    <3>1. Ended(m)' = Ended(m) + 1 /\ Ended(n)' = Ended(n)
      BY <1>4, <2>7, Progress
    <3>2. Ended(n) = Ended(m) => Reduction(n) = Reduction(m)
      BY <1>4, <2>1, <2>7, SameRound, SameReductions
    <3>3. reduced'[m] = reduced[m] \cup {Reduction(m)} /\ reduced'[n] = reduced[n]
      BY <2>3, <2>7
    <3>4. Ended(m)' = Ended(n)' => reduced'[m] = reduced'[n]
      BY <1>1, <1>2, <3>1, <3>3
    <3>5. Ended(m)' = Ended(n)' + 1 => Ended(m) = Ended(n)
      BY <1>1, <3>1
    <3> QED
      BY <1>2, <2>4, <3>2, <3>3, <3>4, <3>5
  <2>8. CASE m # a /\ n = a
    <3>1. Ended(n)' = Ended(n) + 1 /\ Ended(m)' = Ended(m)
      BY <1>4, <2>8, Progress
    <3>2. reduced'[n] = reduced[n] \cup {Reduction(n)} /\ reduced'[m] = reduced[m]
      BY <2>3, <2>8
    <3> QED
      BY <1>1, <1>2, <3>1, <3>2
  <2> QED
    BY <2>5, <2>6, <2>7, <2>8
<1> QED
  BY <1>3, <1>4

-----------------------------------------------------------------------------
(* The theorems.                                                           *)

LEMMA AllInvariant ==
  ASSUME ~ Overlap
  PROVE  Spec => []Inv
<1>1. Init => Inv
  BY TypeInit, ElectInit, StartInit, EnterInit, QuietInit, RoundInit, PickInit, QueueInit,
     MapInit, ReducedInit, TogetherInit DEF Inv
<1>2. Inv /\ [Next]_vars => Inv'
  BY TypeNext, ElectNext, StartNext, EnterNext, QuietNext, RoundNext, PickNext, QueueNext,
     MapNext, ReducedNext, TogetherNext DEF Inv
<1> QED
  BY <1>1, <1>2, PTL DEF Spec

\* The ranks that tcclSharpPublicInit elects have the same number on all nodes,
\* and the threads of tcclSharpPublicMain that reduce in the same round have
\* picked the same reduction, each with its rank waiting for it: the library is
\* never given data of different reductions, whatever the threads find in WORK
\* and in whatever order the ranks' streams come.  This is so as long as a host
\* creates a communicator only when its reductions have returned: otherwise a
\* thread may be told of a communicator it has not taken in.
THEOREM OneReduction ==
  ASSUME ~ Overlap
  PROVE  Spec => []SameReduction
<1>1. Inv => SameReduction
  <2> SUFFICES ASSUME Inv
               PROVE  SameReduction
    OBVIOUS
  <2>1. OneElected
    <3> SUFFICES ASSUME NEW r \in Ranks, NEW q \in Ranks, initflag[r] = 1, initflag[q] = 1
                 PROVE  rank_no(r) = rank_no(q)
      BY DEF OneElected
    <3>1. Flagged(rank_no(r)) /\ Flagged(rank_no(q))
      BY RankPair DEF Flagged
    <3> QED
      BY <3>1, RankPair DEF Inv, ElectInv
  <2>2. \A n \in Nodes : thread[n] = "reduce" => Picked(n).status = "WORK"
    BY DEF Inv, MapInv, DueInv
  <2> QED
    BY <2>1, <2>2, SameReductions DEF SameReduction
<1> QED
  BY <1>1, AllInvariant, PTL

\* When tcclAllreduceInterFunc returns on a stream, every node has called the
\* library for the same reduction of its rank of that number, if hosts create
\* communicators only when their reductions have returned.
THEOREM ReturnsAreReduced ==
  ASSUME ~ Overlap
  PROVE  Spec => []ReducedEverywhere
<1>1. Inv => ReducedEverywhere
  <2> SUFFICES ASSUME Inv, NEW r \in Ranks, NEW x \in Returned(r), NEW n \in Nodes
               PROVE  <<x[1], rank_no(r), x[2]>> \in Called(n)
    BY DEF ReducedEverywhere
  <2> DEFINE m == node_id(r)
  <2>1. r = <<m, rank_no(r)>> /\ m \in Nodes /\ rank_no(r) \in RankNos
    BY RankPair
  <2>2. x[1] \in Comms /\ x[2] \in 1 .. NumReductions /\ x = <<x[1], x[2]>>
    BY DEF Returned
  <2>3. <<x[1], rank_no(r), x[2]>> \in reduced[m]
    BY <2>1, <2>2 DEF Inv, ReducedInv
  <2> HIDE DEF m
  <2>4. Ended(m) \in Int /\ Ended(n) \in Int
    <3>1. round[m] \in Nat /\ round[n] \in Nat
      BY <2>1 DEF Inv, TypeOK
    <3> QED
      BY <3>1 DEF Ended
  <2>5. /\ Ended(m) <= Ended(n) + 1 /\ Ended(n) <= Ended(m) + 1
        /\ Ended(m) = Ended(n) + 1 => thread[n] = "reduce"
    BY <2>1 DEF Inv, RoundInv
  <2>6. /\ Ended(m) = Ended(n) => reduced[m] = reduced[n]
        /\ Ended(m) = Ended(n) + 1 => reduced[m] = reduced[n] \cup {Reduction(n)}
        /\ Ended(n) = Ended(m) + 1 => reduced[n] = reduced[m] \cup {Reduction(m)}
    BY <2>1 DEF Inv, TogetherInv
  <2>7. Ended(m) = Ended(n) \/ Ended(m) = Ended(n) + 1 \/ Ended(n) = Ended(m) + 1
    BY <2>4, <2>5
  <2> QED
    BY <2>3, <2>5, <2>6, <2>7 DEF Called
<1> QED
  BY <1>1, AllInvariant, PTL
=============================================================================
