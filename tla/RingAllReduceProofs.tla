------------------------ MODULE RingAllReduceProofs ------------------------
(***************************************************************************)
(* Proofs about RingAllReduce: the barriers and the turns of the ranks of  *)
(* a card, then the data they pass round, for every number of cards,       *)
(* ranks, calls and chunks.                                                *)
(***************************************************************************)
EXTENDS RingAllReduce, TLAPS

-----------------------------------------------------------------------------
(* The parts of a call.                                                    *)

Opening == {"enter", "leave", "prevflag"}
Awaiting == {"prevwait", "reset"}
Turning == {"turn", "kernel", "running"}
Posting == {"post", "wait", "calc", "move"}
Closing == {"enter2", "leave2"}
InLoop == Turning \cup Posting
Commands == Opening \cup Awaiting \cup InLoop \cup Closing

Parts == [op : Nat, chunk : Nat, cards : SUBSET Cards]
Buffers == [Ranks -> [Halves -> [Slices -> Parts]]]

TypeOK ==
  /\ chunks \in [1 .. NumOps -> 1 .. MaxChunks]
  /\ op \in [Ranks -> 1 .. NumOps + 1]
  /\ pc \in [Ranks -> Commands]
  /\ chunk \in [Ranks -> Nat]
  /\ i \in [Ranks -> Nat]
  /\ synced \in [Ranks -> Nat]
  /\ prevcnt \in [Ranks -> Nat] /\ prevflag \in [Ranks -> Nat]
  /\ nextcnt \in [Ranks -> Nat] /\ nextflag \in [Ranks -> Nat]
  /\ splitFlag \in [Cards -> [0 .. DEV_NUM_MAX - 1 -> Nat]]
  /\ inBuff \in Buffers /\ outBuff \in Buffers
  /\ recvusr \in [Ranks -> [1 .. NumOps -> [0 .. MaxChunks - 1 -> Parts]]]

\* A rank that is not at the first command of a call has not passed the bound.
OpInv == \A r \in Ranks : op[r] = NumOps + 1 => pc[r] = "enter"

\* The barriers a rank has entered,
Entered(r) == 2 * (op[r] - 1) + (IF pc[r] = "enter" THEN 0 ELSE IF pc[r] = "leave2" THEN 2 ELSE 1)
SyncedInv == \A r \in Ranks : synced[r] = Entered(r)

\* and what the ranks of its card have entered when it has left one.
Left(r) == 2 * (op[r] - 1) + (IF pc[r] \in {"enter", "leave"} THEN 0 ELSE 1)
BarrierInv == \A r, q \in Ranks : SameCard(r, q) => synced[q] >= Left(r)

\* Around its kernel the turn is that of the rank,
TurnInv ==
  \A r \in Ranks : pc[r] \in {"kernel", "running"} /\ ifSplit(op[r]) =>
    splitFlag[card_id(r)][Turn(op[r])] = rank_id(r)

\* and the turn of a call stands at 0 until rank_id 0 begins with its chunks.
Fresh(z, o) ==
  \/ o = op[z] + 1
  \/ o = op[z] /\ (pc[z] \in Opening \cup Awaiting \/ (o <= NumOps /\ ~ifSplit(o)))
FreshInv ==
  \A z \in Ranks : rank_id(z) = 0 => \A o \in {op[z], op[z] + 1} :
    Fresh(z, o) => splitFlag[card_id(z)][Turn(o)] = 0



-----------------------------------------------------------------------------
(* Cards and ranks.                                                        *)

LEMMA Consts ==
  /\ allCardNum \in Nat /\ allCardNum >= 2 /\ rank_num \in Nat /\ rank_num >= 1
  /\ NumOps \in Nat /\ MaxChunks \in Nat
BY SizesAssumption

LEMMA RankParts ==
  ASSUME NEW r \in Ranks
  PROVE  card_id(r) \in Cards /\ rank_id(r) \in 0 .. rank_num - 1
BY DEF Ranks, card_id, rank_id

LEMMA RankOf ==
  ASSUME NEW c \in Cards, NEW j \in 0 .. rank_num - 1
  PROVE  <<c, j>> \in Ranks /\ card_id(<<c, j>>) = c /\ rank_id(<<c, j>>) = j
BY DEF Ranks, card_id, rank_id

LEMMA RankEqual ==
  ASSUME NEW r \in Ranks, NEW q \in Ranks, card_id(r) = card_id(q), rank_id(r) = rank_id(q)
  PROVE  r = q
BY DEF Ranks, card_id, rank_id

LEMMA MinusInRing ==
  ASSUME NEW c \in Cards, NEW k \in Int
  PROVE  Minus(c, k) \in Cards
BY Consts DEF Cards, Minus

LEMMA Neighbours ==
  ASSUME NEW r \in Ranks
  PROVE  /\ phyNextRank(r) \in Ranks /\ phyPrevRank(r) \in Ranks
         /\ rank_id(phyNextRank(r)) = rank_id(r) /\ rank_id(phyPrevRank(r)) = rank_id(r)
         /\ card_id(phyPrevRank(r)) = Minus(card_id(r), 1)
         /\ card_id(phyNextRank(r)) = Minus(card_id(r), -1)
<1>1. Minus(card_id(r), 1) \in Cards /\ Minus(card_id(r), -1) \in Cards
  BY RankParts, MinusInRing, Consts
<1> QED
  BY <1>1, RankParts, RankOf DEF phyNextRank, phyPrevRank

-----------------------------------------------------------------------------
(* Types.                                                                  *)

LEMMA AddType ==
  ASSUME NEW a \in Parts, NEW b \in Parts
  PROVE  Add(a, b) \in Parts
BY DEF Add, Parts, Part, Garbage

LEMMA SliceTypes ==
  ASSUME NEW r \in Ranks, NEW n \in Nat
  PROVE  sslice(r, n) \in Slices /\ rslice(r, n) \in Slices
BY RankParts, MinusInRing DEF sslice, rslice, Slices

LEMMA HalfType ==
  ASSUME NEW k \in Nat
  PROVE  Half(k) \in Halves
BY Consts DEF Half, Halves

LEMMA TurnTable ==
  ASSUME NEW o \in Nat
  PROVE  /\ Turn(o) \in 0 .. DEV_NUM_MAX - 1
         /\ Turn(o) # Turn(o + 1) /\ Turn(o + 2) = Turn(o)
BY DEF Turn, DEV_NUM_MAX

\* Chunks are counted from 0, and none is beyond the last of a call.
LEMMA ChunkType ==
  ASSUME TypeOK, NEW o \in 1 .. NumOps
  PROVE  chunks[o] \in Nat /\ chunks[o] >= 1 /\ chunks[o] <= MaxChunks
BY Consts DEF TypeOK

LEMMA TypeInit == Init => TypeOK
<1> SUFFICES ASSUME Init PROVE TypeOK
  OBVIOUS
<1>1. Nothing \in Parts
  BY DEF Nothing, Part, Parts
<1>2. inBuff \in Buffers
  BY <1>1 DEF Init, Buffers
<1>3. recvusr \in [Ranks -> [1 .. NumOps -> [0 .. MaxChunks - 1 -> Parts]]]
  BY <1>1 DEF Init
<1>4. splitFlag \in [Cards -> [0 .. DEV_NUM_MAX - 1 -> Nat]]
  BY DEF Init
<1>5. op \in [Ranks -> 1 .. NumOps + 1] /\ pc \in [Ranks -> Commands]
  BY Consts DEF Init, Commands, Opening
<1>6. /\ chunk \in [Ranks -> Nat] /\ i \in [Ranks -> Nat] /\ synced \in [Ranks -> Nat]
      /\ prevcnt \in [Ranks -> Nat] /\ nextcnt \in [Ranks -> Nat]
  BY DEF Init
<1> QED
  BY <1>2, <1>3, <1>4, <1>5, <1>6 DEF Init, TypeOK

LEMMA GotoType ==
  ASSUME NEW f \in [Ranks -> Commands], NEW r \in Ranks, NEW l \in Commands
  PROVE  [f EXCEPT ![r] = l] \in [Ranks -> Commands]
OBVIOUS

LEMMA CounterType ==
  ASSUME NEW f \in [Ranks -> Nat], NEW r \in Ranks, NEW n \in Nat
  PROVE  [f EXCEPT ![r] = n] \in [Ranks -> Nat]
OBVIOUS

LEMMA CommandTable ==
  {"enter", "leave", "prevflag", "prevwait", "reset", "turn", "kernel", "running",
   "post", "wait", "calc", "move", "enter2", "leave2"} \subseteq Commands
BY DEF Commands, Opening, Awaiting, InLoop, Turning, Posting, Closing

\* Every command keeps the types: of what a stream knows,
StreamType ==
  /\ op \in [Ranks -> 1 .. NumOps + 1]
  /\ pc \in [Ranks -> Commands]
  /\ chunk \in [Ranks -> Nat]
  /\ i \in [Ranks -> Nat]
  /\ synced \in [Ranks -> Nat]
  /\ prevcnt \in [Ranks -> Nat]
  /\ nextcnt \in [Ranks -> Nat]

LEMMA StreamTypes ==
  ASSUME TypeOK, NEW r \in Ranks, Stream(r)
  PROVE  StreamType'
<1> USE RankParts, CommandTable
<1>0. /\ StreamType
      /\ op[r] \in 1 .. NumOps + 1 /\ op[r] \in Nat
      /\ chunk[r] \in Nat /\ chunk[r] + rank_num \in Nat
      /\ i[r] \in Nat /\ i[r] + 1 \in Nat /\ 0 \in Nat
      /\ nextcnt[r] + 1 \in Nat /\ prevcnt[r] + 1 \in Nat /\ synced[r] + 1 \in Nat
      /\ rank_id(r) \in Nat
  <2>1. StreamType
    BY DEF TypeOK, StreamType
  <2>2. op[r] \in 1 .. NumOps + 1 /\ chunk[r] \in Nat /\ i[r] \in Nat /\ nextcnt[r] \in Nat
        /\ prevcnt[r] \in Nat /\ synced[r] \in Nat
    BY <2>1 DEF StreamType
  <2> QED
    BY <2>1, <2>2, Consts
<1>1. CASE EnterCard(r)
  BY <1>0, <1>1, GotoType, CounterType DEF EnterCard, StreamType, Goto
<1>2. CASE LeaveCard(r)
  BY <1>0, <1>2, GotoType DEF LeaveCard, StreamType, Goto, stream
<1>3. CASE SendPrevFlag(r)
  BY <1>0, <1>3, GotoType, CounterType DEF SendPrevFlag, StreamType, Goto
<1>4. CASE WaitPrevFlag(r)
  BY <1>0, <1>4, GotoType DEF WaitPrevFlag, StreamType, Goto, stream
<1>5. CASE ResetTurn(r)
  BY <1>0, <1>5, GotoType, CounterType DEF ResetTurn, StreamType, Loop, Goto
<1>6. CASE WaitTurn(r)
  BY <1>0, <1>6, GotoType DEF WaitTurn, StreamType, Goto, stream
<1>7. CASE StartKernel(r)
  BY <1>0, <1>7, GotoType DEF StartKernel, StreamType, Goto, stream
<1>8. CASE FinishKernel(r)
  BY <1>0, <1>8, GotoType, CounterType DEF FinishKernel, StreamType, Goto, stream
<1>9. CASE Post(r)
  BY <1>0, <1>9, GotoType, CounterType DEF Post, StreamType, Goto
<1>10. CASE Wait(r)
  BY <1>0, <1>10, GotoType, CounterType DEF Wait, StreamType, Goto, stream
<1>11. CASE Calculate(r)
  BY <1>0, <1>11, GotoType, CounterType DEF Calculate, StreamType, Goto, stream
<1>12. CASE Move(r)
  BY <1>0, <1>12, GotoType, CounterType DEF Move, StreamType, Loop, Goto
<1>13. CASE EnterCardAgain(r)
  BY <1>0, <1>13, GotoType, CounterType DEF EnterCardAgain, StreamType, Goto
<1>14. CASE LeaveCardAgain(r)
  <2>1. op[r] + 1 \in 1 .. NumOps + 1
    BY <1>0, <1>14, Consts DEF LeaveCardAgain, At
  <2>2. op' \in [Ranks -> 1 .. NumOps + 1]
    BY <1>0, <1>14, <2>1 DEF LeaveCardAgain, StreamType
  <2> QED
    BY <1>0, <1>14, <2>2, GotoType, CounterType DEF LeaveCardAgain, StreamType, Goto
<1> QED
  BY <1>1, <1>2, <1>3, <1>4, <1>5, <1>6, <1>7, <1>8, <1>9, <1>10, <1>11, <1>12, <1>13, <1>14 DEF Stream

\* and of what is in the memory of the devices.
TurnType == splitFlag \in [Cards -> [0 .. DEV_NUM_MAX - 1 -> Nat]]
FlagType == prevflag \in [Ranks -> Nat] /\ nextflag \in [Ranks -> Nat]
UserType == recvusr \in [Ranks -> [1 .. NumOps -> [0 .. MaxChunks - 1 -> Parts]]]
DeviceType == FlagType /\ TurnType /\ inBuff \in Buffers /\ outBuff \in Buffers /\ UserType

LEMMA DeviceTypes ==
  ASSUME TypeOK, NEW r \in Ranks, Stream(r)
  PROVE  DeviceType'
<1> USE RankParts
<1> USE DEF DeviceType
<1>0. /\ DeviceType
      /\ op[r] \in 1 .. NumOps + 1 /\ op[r] \in Nat /\ chunk[r] \in Nat /\ i[r] \in Nat
      /\ nextcnt[r] + 1 \in Nat /\ prevcnt[r] + 1 \in Nat /\ 0 \in Nat
      /\ Turn(op[r]) \in 0 .. DEV_NUM_MAX - 1
  <2>1. DeviceType /\ StreamType
    BY DEF TypeOK, FlagType, TurnType, UserType, StreamType
  <2>2. op[r] \in 1 .. NumOps + 1 /\ chunk[r] \in Nat /\ i[r] \in Nat /\ nextcnt[r] \in Nat
        /\ prevcnt[r] \in Nat
    BY <2>1 DEF StreamType
  <2>3. op[r] \in Nat
    BY <2>2
  <2> QED
    BY <2>1, <2>2, <2>3, TurnTable
<1>00. ASSUME NEW n \in Nat
       PROVE  [splitFlag EXCEPT ![card_id(r)][Turn(op[r])] = n] \in [Cards -> [0 .. DEV_NUM_MAX - 1 -> Nat]]
  BY <1>0 DEF TurnType
<1>1. CASE UNCHANGED device
  BY <1>0, <1>1 DEF device, FlagType, TurnType, UserType
<1>2. CASE SendPrevFlag(r)
  BY <1>0, <1>2, Neighbours, CounterType DEF SendPrevFlag, FlagType, TurnType, UserType
<1>3. CASE ResetTurn(r)
  BY <1>0, <1>00, <1>3 DEF ResetTurn, FlagType, TurnType, UserType
<1>4. CASE FinishKernel(r)
  <2>1. NextTurn(r) \in Nat
    BY <1>0, Consts DEF NextTurn
  <2>2. TurnType' /\ FlagType' /\ UserType'
    BY <1>0, <1>00, <1>4, <2>1 DEF FinishKernel, TurnType, FlagType, UserType
  <2>3. (IF Published(r) THEN Part(op[r], chunk[r], {card_id(r)}) ELSE Garbage) \in Parts
    BY <1>0, Consts DEF Part, Garbage, Parts
  <2>4. inBuff' \in Buffers
    BY <1>0, <1>4, <2>3 DEF FinishKernel, Buffers
  <2> QED
    BY <1>0, <1>4, <2>2, <2>4 DEF FinishKernel
<1>5. CASE Post(r)
  <2> DEFINE h == Half(chunk[r])
             s == sslice(r, i[r])
             q == phyNextRank(r)
  <2>1. h \in Halves /\ s \in Slices /\ q \in Ranks
    BY <1>0, HalfType, SliceTypes, Neighbours
  <2>2. /\ outBuff' = [outBuff EXCEPT ![q][h][s] = IF i[r] = 0 THEN inBuff[r][h][s] ELSE outBuff[r][h][s]]
        /\ nextflag' = [nextflag EXCEPT ![q] = nextcnt[r] + 1]
        /\ prevflag' = prevflag
    BY <1>5 DEF Post
  <2> HIDE DEF h, s, q
  <2>3. inBuff[r][h][s] \in Parts /\ outBuff[r][h][s] \in Parts
    BY <1>0, <2>1 DEF Buffers
  <2>4. outBuff' \in Buffers
    BY <1>0, <2>1, <2>2, <2>3 DEF Buffers
  <2>5. FlagType'
    BY <1>0, <2>1, <2>2, CounterType DEF FlagType
  <2> QED
    BY <1>0, <1>5, <2>4, <2>5 DEF Post, TurnType, UserType
<1>6. CASE Calculate(r)
  <2> DEFINE h == Half(chunk[r])
             s == rslice(r, i[r])
  <2>1. h \in Halves /\ s \in Slices
    BY <1>0, HalfType, SliceTypes
  <2>2. outBuff' = [outBuff EXCEPT ![r][h][s] = Add(inBuff[r][h][s], outBuff[r][h][s])]
    BY <1>6 DEF Calculate
  <2> HIDE DEF h, s
  <2>3. Add(inBuff[r][h][s], outBuff[r][h][s]) \in Parts
    BY <1>0, <2>1, AddType DEF Buffers
  <2>4. outBuff' \in Buffers
    BY <1>0, <2>1, <2>2, <2>3 DEF Buffers
  <2> QED
    BY <1>0, <1>6, <2>4 DEF Calculate, FlagType, TurnType, UserType
<1>7. CASE Move(r)
  <2> DEFINE half == outBuff[r][Half(chunk[r])]
             sum == IF Published(r) /\ \A s \in Slices : half[s] = Total(op[r], chunk[r])
                    THEN Total(op[r], chunk[r]) ELSE Garbage
  <2>1. sum \in Parts
    BY <1>0, Consts DEF Total, Part, Garbage, Parts
  <2>2. recvusr' = [q \in Ranks |-> IF SameCard(r, q) THEN [recvusr[q] EXCEPT ![op[r]][chunk[r]] = sum]
                                    ELSE recvusr[q]]
    BY <1>7 DEF Move
  <2> HIDE DEF sum
  <2>3. UserType'
    BY <1>0, <2>1, <2>2 DEF UserType
  <2> QED
    BY <1>0, <1>7, <2>3 DEF Move, FlagType, TurnType
<1>8. CASE LeaveCardAgain(r)
  BY <1>0, <1>00, <1>8 DEF LeaveCardAgain, FlagType, TurnType, UserType
<1>9. ASSUME \/ EnterCard(r) \/ LeaveCard(r) \/ WaitPrevFlag(r) \/ WaitTurn(r) \/ StartKernel(r)
             \/ Wait(r) \/ EnterCardAgain(r)
      PROVE  UNCHANGED device
  BY <1>9 DEF EnterCard, LeaveCard, WaitPrevFlag, WaitTurn, StartKernel, Wait, EnterCardAgain
<1> QED
  BY <1>1, <1>2, <1>3, <1>4, <1>5, <1>6, <1>7, <1>8, <1>9 DEF Stream

LEMMA ChunksConstant ==
  ASSUME NEW r \in Ranks, Stream(r)
  PROVE  chunks' = chunks
BY DEF Stream, EnterCard, LeaveCard, SendPrevFlag, WaitPrevFlag, ResetTurn, WaitTurn, StartKernel,
       FinishKernel, Post, Wait, Calculate, Move, EnterCardAgain, LeaveCardAgain, stream

LEMMA TypeNext == TypeOK /\ [Next]_vars => TypeOK'
<1> SUFFICES ASSUME TypeOK, [Next]_vars PROVE TypeOK'
  OBVIOUS
<1>1. CASE UNCHANGED vars
  BY <1>1 DEF vars, TypeOK
<1>2. ASSUME NEW r \in Ranks, Stream(r) PROVE TypeOK'
  BY <1>2, StreamTypes, DeviceTypes, ChunksConstant
     DEF TypeOK, StreamType, DeviceType, FlagType, TurnType, UserType
<1> QED
  BY <1>1, <1>2 DEF Next, Finished

-----------------------------------------------------------------------------
(* The barriers of a card.                                                 *)

LEMMA OthersStand ==
  ASSUME TypeOK, NEW r \in Ranks, Stream(r), NEW q \in Ranks, q # r
  PROVE  /\ op'[q] = op[q] /\ pc'[q] = pc[q] /\ chunk'[q] = chunk[q] /\ i'[q] = i[q]
         /\ synced'[q] = synced[q] /\ prevcnt'[q] = prevcnt[q] /\ nextcnt'[q] = nextcnt[q]
<1>0. StreamType
  BY DEF TypeOK, StreamType
<1> USE DEF StreamType, Goto, Loop, stream
<1>1. CASE EnterCard(r) \/ LeaveCard(r) \/ SendPrevFlag(r) \/ WaitPrevFlag(r)
  BY <1>0, <1>1 DEF EnterCard, LeaveCard, SendPrevFlag, WaitPrevFlag
<1>2. CASE ResetTurn(r) \/ WaitTurn(r) \/ StartKernel(r) \/ FinishKernel(r)
  BY <1>0, <1>2 DEF ResetTurn, WaitTurn, StartKernel, FinishKernel
<1>3. CASE Post(r) \/ Wait(r) \/ Calculate(r) \/ Move(r)
  BY <1>0, <1>3 DEF Post, Wait, Calculate, Move
<1>4. CASE EnterCardAgain(r) \/ LeaveCardAgain(r)
  BY <1>0, <1>4 DEF EnterCardAgain, LeaveCardAgain
<1> QED
  BY <1>1, <1>2, <1>3, <1>4 DEF Stream

\* Between its barriers a rank does not synchronise with its card.
Middle == {"prevflag"} \cup Awaiting \cup InLoop \cup {"enter2"}
Inside(r) ==
  /\ pc[r] \in Middle /\ pc'[r] \in Middle
  /\ op'[r] = op[r] /\ synced'[r] = synced[r]

LEMMA MiddleTable ==
  {"prevflag", "prevwait", "reset", "turn", "kernel", "running",
   "post", "wait", "calc", "move", "enter2"} \subseteq Middle
BY DEF Middle, Awaiting, InLoop, Turning, Posting

LEMMA BarrierSteps ==
  ASSUME TypeOK, NEW r \in Ranks, Stream(r)
  PROVE  /\ op[r] <= NumOps
         /\ \/ /\ pc[r] = "enter" /\ pc'[r] = "leave"
               /\ op'[r] = op[r] /\ synced'[r] = synced[r] + 1
            \/ /\ pc[r] = "leave" /\ pc'[r] \in Middle /\ Together(r)
               /\ op'[r] = op[r] /\ synced'[r] = synced[r]
            \/ Inside(r)
            \/ /\ pc[r] = "enter2" /\ pc'[r] = "leave2"
               /\ op'[r] = op[r] /\ synced'[r] = synced[r] + 1
            \/ /\ pc[r] = "leave2" /\ pc'[r] = "enter" /\ Together(r)
               /\ op'[r] = op[r] + 1 /\ synced'[r] = synced[r]
<1>0. StreamType
  BY DEF TypeOK, StreamType
<1> USE DEF StreamType, Goto, stream, At
<1> USE MiddleTable
<1>1. CASE EnterCard(r)
  BY <1>0, <1>1 DEF EnterCard
<1>2. CASE LeaveCard(r)
  BY <1>0, <1>2 DEF LeaveCard
<1>3. CASE SendPrevFlag(r) \/ WaitPrevFlag(r)
  BY <1>0, <1>3 DEF SendPrevFlag, WaitPrevFlag, Inside
<1>4. CASE ResetTurn(r)
  BY <1>0, <1>4 DEF ResetTurn, Inside, Loop
<1>5. CASE WaitTurn(r) \/ StartKernel(r) \/ FinishKernel(r)
  BY <1>0, <1>5 DEF WaitTurn, StartKernel, FinishKernel, Inside
<1>6. CASE Post(r)
  BY <1>0, <1>6 DEF Post, Inside
<1>7. CASE Wait(r)
  BY <1>0, <1>7 DEF Wait, Inside
<1>8. CASE Calculate(r)
  BY <1>0, <1>8 DEF Calculate, Inside
<1>9. CASE Move(r)
  BY <1>0, <1>9 DEF Move, Inside, Loop
<1>10. CASE EnterCardAgain(r)
  BY <1>0, <1>10 DEF EnterCardAgain
<1>11. CASE LeaveCardAgain(r)
  BY <1>0, <1>11 DEF LeaveCardAgain
<1> QED
  BY <1>1, <1>2, <1>3, <1>4, <1>5, <1>6, <1>7, <1>8, <1>9, <1>10, <1>11 DEF Stream

LEMMA MiddleCounts ==
  ASSUME NEW l \in Middle
  PROVE  l # "enter" /\ l # "leave" /\ l # "leave2"
BY DEF Middle, Awaiting, InLoop, Turning, Posting

CardInv == TypeOK /\ OpInv /\ SyncedInv /\ BarrierInv

LEMMA CardInit == Init => CardInv
<1> SUFFICES ASSUME Init PROVE CardInv
  OBVIOUS
<1>1. TypeOK
  BY TypeInit
<1>2. OpInv /\ SyncedInv /\ BarrierInv
  BY DEF Init, OpInv, SyncedInv, BarrierInv, Entered, Left
<1> QED
  BY <1>1, <1>2 DEF CardInv

LEMMA CardStream ==
  ASSUME CardInv, TypeOK', NEW r \in Ranks, Stream(r)
  PROVE  CardInv'
<1>0. /\ \A q \in Ranks : op[q] \in Nat /\ synced[q] \in Nat /\ op'[q] \in Nat /\ synced'[q] \in Nat
      /\ NumOps \in Nat
  <2>1. StreamType /\ StreamType'
    BY DEF CardInv, TypeOK, StreamType
  <2> QED
    BY <2>1, Consts DEF StreamType
<1>1. OpInv'
  <2>1. \A q \in Ranks : q # r => op'[q] = op[q] /\ pc'[q] = pc[q]
    BY OthersStand DEF CardInv
  <2>2. op'[r] = NumOps + 1 => pc'[r] = "enter"
    BY <1>0, BarrierSteps DEF CardInv, Inside
  <2> QED
    BY <2>1, <2>2 DEF OpInv, CardInv
<1>2. SyncedInv'
  <2>1. \A q \in Ranks : q # r => op'[q] = op[q] /\ pc'[q] = pc[q] /\ synced'[q] = synced[q]
    BY OthersStand DEF CardInv
  <2>2. synced[r] = Entered(r)
    BY DEF CardInv, SyncedInv
  <2>3. synced'[r] = Entered(r)'
    BY <1>0, <2>2, BarrierSteps, MiddleCounts DEF CardInv, Inside, Entered
  <2> QED
    BY <2>1, <2>3 DEF SyncedInv, Entered, CardInv
<1>3. BarrierInv'
  <2> SUFFICES ASSUME NEW x \in Ranks, NEW q \in Ranks, SameCard(x, q) PROVE synced'[q] >= Left(x)'
    BY DEF BarrierInv, SameCard
  <2>1. synced[q] >= Left(x) /\ synced[r] = Entered(r)
    BY DEF CardInv, BarrierInv, SyncedInv
  <2>2. synced'[q] >= synced[q]
    BY <1>0, OthersStand, BarrierSteps DEF CardInv, Inside
  <2>3. CASE x # r
    <3>1. op'[x] = op[x] /\ pc'[x] = pc[x]
      BY <2>3, OthersStand DEF CardInv
    <3> QED
      BY <1>0, <2>1, <2>2, <3>1 DEF Left
  <2>4. CASE x = r /\ Together(r)
    <3>1. synced[q] >= synced[r]
      BY <2>4 DEF Together
    <3> QED
      BY <1>0, <2>1, <2>2, <2>4, <3>1, BarrierSteps, MiddleCounts DEF CardInv, Inside, Entered, Left
  <2>5. CASE x = r /\ ~Together(r)
    BY <1>0, <2>1, <2>2, <2>5, BarrierSteps, MiddleCounts DEF CardInv, Inside, Left
  <2> QED
    BY <2>3, <2>4, <2>5
<1> QED
  BY <1>1, <1>2, <1>3 DEF CardInv

LEMMA CardNext == CardInv /\ [Next]_vars => CardInv'
<1> SUFFICES ASSUME CardInv, [Next]_vars PROVE CardInv'
  OBVIOUS
<1>0. TypeOK'
  BY TypeNext DEF CardInv
<1>1. CASE UNCHANGED vars
  BY <1>0, <1>1 DEF vars, CardInv, OpInv, SyncedInv, BarrierInv, Entered, Left
<1>2. ASSUME NEW r \in Ranks, Stream(r) PROVE CardInv'
  BY <1>0, <1>2, CardStream
<1> QED
  BY <1>1, <1>2 DEF Next, Finished

-----------------------------------------------------------------------------
(* The turns.                                                              *)

\* Ranks of a card are in the same call while one of them works in it.
LEMMA SameCall ==
  ASSUME CardInv, NEW r \in Ranks, NEW q \in Ranks, SameCard(r, q),
         pc[r] \in Middle
  PROVE  op[q] = op[r] /\ pc[q] # "enter"
<1>1. /\ synced[q] >= Left(r) /\ synced[r] >= Left(q) /\ synced[q] = Entered(q)
      /\ synced[r] = Entered(r)
  BY DEF CardInv, BarrierInv, SyncedInv, SameCard
<1>2. op[q] \in Nat /\ op[r] \in Nat
  <2>1. op \in [Ranks -> 1 .. NumOps + 1]
    BY DEF CardInv, TypeOK
  <2> QED
    BY <2>1
<1> QED
  BY <1>1, <1>2, MiddleCounts DEF Entered, Left

\* A rank that waits at the last barrier knows that nobody works any more.
LEMMA AllDone ==
  ASSUME CardInv, NEW r \in Ranks, NEW q \in Ranks, SameCard(r, q),
         pc[r] = "leave2", Together(r)
  PROVE  \/ op[q] = op[r] /\ pc[q] = "leave2"
         \/ op[q] = op[r] + 1 /\ pc[q] \in {"enter", "leave"}
<1>1. /\ synced[q] >= synced[r] /\ synced[r] >= Left(q) /\ synced[q] = Entered(q)
      /\ synced[r] = Entered(r)
  BY DEF CardInv, BarrierInv, SyncedInv, SameCard, Together
<1>2. op[q] \in Nat /\ op[r] \in Nat
  <2>1. op \in [Ranks -> 1 .. NumOps + 1]
    BY DEF CardInv, TypeOK
  <2> QED
    BY <2>1
<1> QED
  BY <1>1, <1>2 DEF Entered, Left

TInv == CardInv /\ TurnInv /\ FreshInv

LEMMA TurnsInit == Init => TInv
<1> SUFFICES ASSUME Init PROVE TInv
  OBVIOUS
<1>1. \A c \in Cards : \A o \in Nat : splitFlag[c][Turn(o)] = 0
  BY TurnTable DEF Init
<1>2. TurnInv
  BY DEF Init, TurnInv
<1>3. FreshInv
  <2>1. \A z \in Ranks : op[z] = 1
    BY DEF Init
  <2> QED
    BY <1>1, <2>1, RankParts DEF FreshInv
<1> QED
  BY <1>2, <1>3, CardInit DEF TInv

LEMMA TurnsStream ==
  ASSUME TInv, CardInv', NEW r \in Ranks, Stream(r)
  PROVE  TurnInv' /\ FreshInv'
<1> DEFINE flag(q, o) == splitFlag[card_id(q)][Turn(o)]
           after(q, o) == splitFlag'[card_id(q)][Turn(o)]
<1>0. /\ \A q \in Ranks : op[q] \in Nat /\ op'[q] \in Nat
      /\ StreamType /\ TurnType /\ TypeOK /\ CardInv /\ chunks' = chunks
  <2>1. StreamType /\ StreamType' /\ TurnType /\ chunks' = chunks
    BY ChunksConstant DEF TInv, CardInv, TypeOK, StreamType, TurnType
  <2> QED
    BY <2>1 DEF StreamType, TInv, CardInv
\* Writing a turn of one call leaves those of the calls around it alone.
<1>w. ASSUME NEW o \in Nat, NEW n, splitFlag' = [splitFlag EXCEPT ![card_id(r)][Turn(o)] = n],
             NEW q \in Ranks, NEW u \in Nat
      PROVE  after(q, u) = IF card_id(q) = card_id(r) /\ Turn(u) = Turn(o) THEN n ELSE flag(q, u)
  BY <1>0, <1>w, RankParts, TurnTable DEF TurnType
<1>e. ASSUME NEW q \in Ranks, card_id(q) = card_id(r), rank_id(q) = rank_id(r)
      PROVE  q = r
  BY <1>e, RankEqual
<1>o. ASSUME NEW q \in Ranks, q # r
      PROVE  op'[q] = op[q] /\ pc'[q] = pc[q]
  BY <1>0, <1>o, OthersStand
<1>s. ASSUME NEW q \in Ranks, NEW u \in Nat, splitFlag' = splitFlag
      PROVE  after(q, u) = flag(q, u)
  BY <1>s
<1>f. ASSUME NEW o PROVE ifSplit(o)' = ifSplit(o)
  BY <1>0 DEF ifSplit
<1> HIDE DEF flag, after, after
<1>t. ASSUME NEW q \in Ranks, pc[q] \in {"kernel", "running"}, ifSplit(op[q])
      PROVE  flag(q, op[q]) = rank_id(q)
  BY <1>t DEF TInv, TurnInv, flag
<1>z. ASSUME NEW z \in Ranks, rank_id(z) = 0, NEW o \in {op[z], op[z] + 1}, Fresh(z, o)
      PROVE  flag(z, o) = 0
  BY <1>z DEF TInv, FreshInv, flag
<1>k. ASSUME NEW q \in Ranks, card_id(q) = card_id(r), pc[q] \in {"kernel", "running"}
      PROVE  op[r] = op[q]
  BY <1>0, <1>k, SameCall, MiddleTable DEF SameCard
<1>1. CASE ResetTurn(r)
  <2>1. /\ pc[r] = "reset" /\ op'[r] = op[r]
        /\ pc'[r] \notin Opening \cup Awaiting
        /\ pc'[r] = "kernel" => ~ifSplit(op[r])
        /\ pc'[r] # "running"
    BY <1>0, <1>1 DEF ResetTurn, At, Loop, Goto, StreamType, Opening, Awaiting
  <2>2. IF rank_id(r) = 0 /\ ifSplit(op[r])
        THEN splitFlag' = [splitFlag EXCEPT ![card_id(r)][Turn(op[r])] = 0]
        ELSE splitFlag' = splitFlag
    BY <1>1 DEF ResetTurn
  <2>3. rank_id(r) = 0 => flag(r, op[r]) = 0
    BY <2>1, <1>z DEF Fresh, Awaiting
  <2>4. ASSUME NEW x \in Ranks, pc'[x] \in {"kernel", "running"}, ifSplit(op'[x])
        PROVE  after(x, op'[x]) = rank_id(x)
    <3>1. x # r /\ op'[x] = op[x] /\ pc'[x] = pc[x] /\ flag(x, op[x]) = rank_id(x)
      BY <2>1, <2>4, <1>o, <1>t
    <3>2. CASE rank_id(r) = 0 /\ ifSplit(op[r]) /\ card_id(x) = card_id(r)
      BY <1>e, <1>k, <2>3, <2>4, <3>1, <3>2 DEF flag
    <3> QED
      BY <1>0, <1>w, <1>s, <2>2, <3>1, <3>2
  <2>5. ASSUME NEW z \in Ranks, rank_id(z) = 0, NEW o \in {op'[z], op'[z] + 1}, Fresh(z, o)'
        PROVE  after(z, o) = 0
    <3>1. op'[z] = op[z] /\ Fresh(z, o) /\ o \in Nat
      BY <1>0, <1>f, <1>o, <2>1, <2>5 DEF Fresh
    <3>2. flag(z, o) = 0
      BY <2>5, <3>1, <1>z
    <3>3. CASE rank_id(r) = 0 /\ ifSplit(op[r])
      <4>0. /\ splitFlag' = [splitFlag EXCEPT ![card_id(r)][Turn(op[r])] = 0]
            /\ op[r] \in Nat /\ o \in Nat /\ z \in Ranks
        BY <1>0, <2>2, <2>5, <3>1, <3>3
      <4>1. after(z, o) = IF card_id(z) = card_id(r) /\ Turn(o) = Turn(op[r]) THEN 0 ELSE flag(z, o)
        BY <1>w, <4>0
      <4> QED
        BY <3>2, <4>1
    <3> QED
      BY <1>s, <2>2, <2>5, <3>1, <3>2, <3>3
  <2> QED
    BY <1>f, <2>4, <2>5 DEF TurnInv, FreshInv, after
<1>2. CASE FinishKernel(r)
  <2>1. pc[r] = "running" /\ op'[r] = op[r] /\ pc'[r] = "post"
    BY <1>0, <1>2 DEF FinishKernel, At, Goto, StreamType, stream
  <2>2. IF ifSplit(op[r])
        THEN splitFlag' = [splitFlag EXCEPT ![card_id(r)][Turn(op[r])] = NextTurn(r)]
        ELSE splitFlag' = splitFlag
    BY <1>2 DEF FinishKernel
  <2>3. ifSplit(op[r]) => flag(r, op[r]) = rank_id(r)
    BY <2>1, <1>t
  <2>4. ASSUME NEW x \in Ranks, pc'[x] \in {"kernel", "running"}, ifSplit(op'[x])
        PROVE  after(x, op'[x]) = rank_id(x)
    <3>1. x # r /\ op'[x] = op[x] /\ pc'[x] = pc[x] /\ flag(x, op[x]) = rank_id(x)
      BY <2>1, <2>4, <1>o, <1>t
    <3>2. card_id(x) # card_id(r)
      BY <1>e, <1>k, <2>3, <2>4, <3>1 DEF flag
    <3> QED
      BY <1>0, <1>w, <1>s, <2>2, <3>1, <3>2
  <2>5. ASSUME NEW z \in Ranks, rank_id(z) = 0, NEW o \in {op'[z], op'[z] + 1}, Fresh(z, o)'
        PROVE  after(z, o) = 0
    <3>1. op'[z] = op[z] /\ Fresh(z, o) /\ o \in Nat
      BY <1>0, <1>f, <1>o, <2>1, <2>5 DEF Fresh, Opening, Awaiting
    <3>2. flag(z, o) = 0
      BY <2>5, <3>1, <1>z
    <3>3. CASE card_id(z) = card_id(r) /\ ifSplit(op[r])
      <4>1. op[z] = op[r]
        BY <1>0, <2>1, <3>3, SameCall, MiddleTable DEF SameCard
      <4>2. o # op[z]
        <5>1. SUFFICES ASSUME o = op[z] PROVE FALSE
          OBVIOUS
        <5>2. rank_id(r) = 0
          BY <2>3, <3>2, <3>3, <4>1, <5>1 DEF flag
        <5>3. z = r
          BY <1>e, <2>5, <3>3, <5>2
        <5> QED
          BY <1>0, <1>f, <2>1, <2>5, <3>3, <5>1, <5>3 DEF Fresh, Opening, Awaiting
      <4>3. Turn(o) # Turn(op[r])
        BY <1>0, <2>5, <3>1, <4>1, <4>2, TurnTable
      <4> QED
        BY <1>0, <1>w, <2>2, <3>1, <3>2, <3>3, <4>3
    <3> QED
      BY <1>0, <1>w, <1>s, <2>2, <3>1, <3>2, <3>3
  <2> QED
    BY <1>f, <2>4, <2>5 DEF TurnInv, FreshInv, after
<1>3. CASE LeaveCardAgain(r)
  <2>1. /\ pc[r] = "leave2" /\ op'[r] = op[r] + 1 /\ pc'[r] = "enter" /\ Together(r)
        /\ op[r] <= NumOps
    BY <1>0, <1>3 DEF LeaveCardAgain, At, Goto, StreamType
  <2>2. IF rank_id(r) = 0 /\ ifSplit(op[r])
        THEN splitFlag' = [splitFlag EXCEPT ![card_id(r)][Turn(op[r])] = 0]
        ELSE splitFlag' = splitFlag
    BY <1>3 DEF LeaveCardAgain
  <2>4. ASSUME NEW x \in Ranks, pc'[x] \in {"kernel", "running"}, ifSplit(op'[x])
        PROVE  after(x, op'[x]) = rank_id(x)
    <3>1. x # r /\ op'[x] = op[x] /\ pc'[x] = pc[x] /\ flag(x, op[x]) = rank_id(x)
      BY <2>1, <2>4, <1>o, <1>t
    <3>2. card_id(x) # card_id(r)
      BY <1>0, <2>1, <2>4, <3>1, AllDone DEF SameCard
    <3> QED
      BY <1>0, <1>w, <1>s, <2>2, <3>1, <3>2
  <2>5. ASSUME NEW z \in Ranks, rank_id(z) = 0, NEW o \in {op'[z], op'[z] + 1}, Fresh(z, o)'
        PROVE  after(z, o) = 0
    <3>1. CASE z # r
      <4>1. op'[z] = op[z] /\ Fresh(z, o) /\ o \in Nat
        BY <1>0, <1>f, <1>o, <2>5, <3>1 DEF Fresh
      <4>2. flag(z, o) = 0
        BY <2>5, <4>1, <1>z
      <4>3. CASE rank_id(r) = 0 /\ ifSplit(op[r])
        <5>0. /\ splitFlag' = [splitFlag EXCEPT ![card_id(r)][Turn(op[r])] = 0]
              /\ op[r] \in Nat /\ o \in Nat /\ z \in Ranks
          BY <1>0, <2>2, <2>5, <4>1, <4>3
        <5>1. after(z, o) = IF card_id(z) = card_id(r) /\ Turn(o) = Turn(op[r]) THEN 0 ELSE flag(z, o)
          BY <1>w, <5>0
        <5> QED
          BY <4>2, <5>1
      <4> QED
        BY <1>s, <2>2, <2>5, <4>1, <4>2, <4>3
    <3>2. CASE z = r /\ o = op[r] + 1
      <4>1. Fresh(r, o) /\ Turn(o) # Turn(op[r]) /\ o \in Nat
        BY <1>0, <3>2, TurnTable DEF Fresh
      <4>2. flag(r, o) = 0
        BY <2>5, <3>2, <4>1, <1>z
      <4> QED
        BY <1>0, <1>w, <1>s, <2>2, <3>2, <4>1, <4>2
    <3>3. CASE z = r /\ o = op[r] + 2
      <4>1. Turn(o) = Turn(op[r]) /\ o \in Nat
        BY <1>0, <3>3, TurnTable
      <4>2. CASE ifSplit(op[r])
        BY <1>0, <1>w, <2>2, <2>5, <3>3, <4>1, <4>2
      <4>3. CASE ~ifSplit(op[r])
        <5>1. flag(r, op[r]) = 0
          BY <1>z, <2>1, <2>5, <3>3, <4>3 DEF Fresh
        <5>2. flag(r, o) = 0
          BY <4>1, <5>1 DEF flag
        <5> QED
          BY <1>s, <2>2, <3>3, <4>1, <4>3, <5>2
      <4> QED
        BY <4>2, <4>3
    <3> QED
      BY <1>0, <2>1, <2>5, <3>1, <3>2, <3>3
  <2> QED
    BY <1>f, <2>4, <2>5 DEF TurnInv, FreshInv, after
<1>4. ASSUME splitFlag' = splitFlag, op'[r] = op[r],
             pc'[r] \in Opening \cup Awaiting => pc[r] \in Opening \cup Awaiting,
             pc'[r] \in {"kernel", "running"} /\ ifSplit(op[r]) =>
               \/ pc[r] \in {"kernel", "running"}
               \/ flag(r, op[r]) = rank_id(r)
      PROVE  TurnInv' /\ FreshInv'
  <2>1. ASSUME NEW x \in Ranks, pc'[x] \in {"kernel", "running"}, ifSplit(op'[x])
        PROVE  after(x, op'[x]) = rank_id(x)
    BY <1>0, <1>4, <1>o, <1>s, <1>t, <2>1
  <2>2. ASSUME NEW z \in Ranks, rank_id(z) = 0, NEW o \in {op'[z], op'[z] + 1}, Fresh(z, o)'
        PROVE  after(z, o) = 0
    <3>1. op'[z] = op[z] /\ Fresh(z, o) /\ o \in Nat
      BY <1>0, <1>f, <1>4, <1>o, <2>2 DEF Fresh
    <3> QED
      BY <1>4, <1>s, <1>z, <2>2, <3>1
  <2> QED
    BY <1>f, <2>1, <2>2 DEF TurnInv, FreshInv, after
<1> USE DEF Goto, At, StreamType, stream, device, Opening, Awaiting
<1>5. CASE EnterCard(r) \/ LeaveCard(r) \/ SendPrevFlag(r) \/ WaitPrevFlag(r)
  BY <1>0, <1>4, <1>5 DEF EnterCard, LeaveCard, SendPrevFlag, WaitPrevFlag
<1>6. CASE WaitTurn(r)
  BY <1>0, <1>4, <1>6 DEF WaitTurn, flag
<1>7. CASE StartKernel(r) \/ Wait(r) \/ EnterCardAgain(r)
  BY <1>0, <1>4, <1>7 DEF StartKernel, Wait, EnterCardAgain
<1>8. CASE Post(r) \/ Calculate(r)
  <2>1. splitFlag' = splitFlag /\ op'[r] = op[r] /\ pc'[r] \in {"wait", "post"}
    BY <1>0, <1>8 DEF Post, Calculate
  <2> QED
    BY <1>4, <2>1
<1>9. CASE Move(r)
  <2>1. /\ splitFlag' = splitFlag /\ op'[r] = op[r] /\ pc'[r] \in {"enter2", "turn", "kernel"}
        /\ pc'[r] = "kernel" => ~ifSplit(op[r])
    BY <1>0, <1>9 DEF Move, Loop
  <2> QED
    BY <1>4, <2>1
<1> QED
  BY <1>1, <1>2, <1>3, <1>5, <1>6, <1>7, <1>8, <1>9 DEF Stream

LEMMA TurnsNext == TInv /\ [Next]_vars => TInv'
<1> SUFFICES ASSUME TInv, [Next]_vars PROVE TInv'
  OBVIOUS
<1>0. CardInv'
  BY CardNext DEF TInv
<1>1. CASE UNCHANGED vars
  BY <1>0, <1>1 DEF vars, TInv, TurnInv, FreshInv, Fresh, ifSplit
<1>2. ASSUME NEW r \in Ranks, Stream(r) PROVE TInv'
  BY <1>0, <1>2, TurnsStream DEF TInv
<1> QED
  BY <1>1, <1>2 DEF Next, Finished

\* In every reachable state two ranks of a card that run their kernels do so
\* in a call of a single round: the turns of consecutive calls stand in
\* different slots, so a late rank does not meet those of the next call.
THEOREM KernelsInTurn == Spec => []KernelsTakeTurns
<1>1. TInv => KernelsTakeTurns
  <2> SUFFICES ASSUME TInv, NEW r \in Ranks, NEW q \in Ranks, r # q, SameCard(r, q),
                      pc[r] = "running", pc[q] = "running", ifSplit(op[r])
               PROVE  FALSE
    BY DEF KernelsTakeTurns
  <2>1. op[q] = op[r] /\ card_id(q) = card_id(r)
    BY SameCall, MiddleTable DEF TInv, SameCard
  <2>2. rank_id(q) = rank_id(r)
    BY <2>1 DEF TInv, TurnInv
  <2> QED
    BY <2>1, <2>2, RankEqual
<1>2. Spec => []TInv
  BY TurnsInit, TurnsNext, PTL DEF Spec
<1> QED
  BY <1>1, <1>2, PTL

-----------------------------------------------------------------------------
(***************************************************************************)
(* The data, provided that the neighbours of the ring synchronise at the   *)
(* beginning of a call (card_num > 1).                                     *)
(***************************************************************************)

-----------------------------------------------------------------------------
(* Where a rank is.                                                        *)

\* The m-th chunk of a rank, and how many it has in a call.
Nth(r, m) == rank_id(r) + m * rank_num
Rounds(o, j) == (chunks[o] + rank_num - 1 - j) \div rank_num

\* Rounds of the call and posts of the round that are behind the rank.
Begun(r) == pc[r] \notin Opening \cup Awaiting
Round(r) == IF Begun(r) THEN chunk[r] \div rank_num ELSE 0
Posted(r) ==
  IF pc[r] \in {"post", "move"} THEN i[r]
  ELSE IF pc[r] \in {"wait", "calc"} THEN i[r] + 1 ELSE 0

LoopInv ==
  \A r \in Ranks :
    /\ Begun(r) => chunk[r] = Nth(r, Round(r))
    /\ pc[r] \in InLoop => Round(r) < Rounds(op[r], rank_id(r))
    /\ pc[r] \in Closing => Round(r) = Rounds(op[r], rank_id(r))
    /\ pc[r] \in {"post", "wait"} => i[r] < Posts
    /\ pc[r] = "calc" => i[r] < allCardNum - 1
    /\ pc[r] = "move" => i[r] = Posts

\* The flags are the counters of the neighbours.
FlagInv ==
  \A r \in Ranks :
    /\ prevcnt[r] = op[r] - (IF pc[r] \in Opening THEN 1 ELSE 0)
    /\ prevflag[phyPrevRank(r)] = prevcnt[r]
    /\ nextflag[phyNextRank(r)] = nextcnt[r]

\* No rank begins a call before the next rank has come to it,
SyncInv ==
  \A r \in Ranks :
    prevcnt[phyNextRank(r)] >= op[r] - (IF pc[r] \in Opening \cup {"prevwait"} THEN 1 ELSE 0)

\* and none posts more than d posts ahead of the rank d places before it.
Back(r, d) == <<Minus(card_id(r), d), rank_id(r)>>
DistInv ==
  \A r \in Ranks : \A d \in 1 .. allCardNum - 1 :
    nextcnt[r] <= nextcnt[Back(r, d)] + d - (IF pc[r] = "wait" THEN 0 ELSE 1)

\* The posts before the call; neighbours count them alike.
Base(r) == nextcnt[r] - Posted(r) - Round(r) * Posts
AlignInv ==
  \A p \in Ranks :
    LET r == phyNextRank(p) IN
    /\ op[p] = op[r] => Base(p) = Base(r)
    /\ op[r] = op[p] + 1 => Base(r) = Base(p) + Rounds(op[p], rank_id(p)) * Posts
    /\ op[p] = op[r] + 1 => Base(p) = Base(r) + Rounds(op[r], rank_id(p)) * Posts

\* A card is at most one call ahead of the previous card: its rank_id 0 has a
\* chunk in every call, and moves it only after the previous card has begun.
LagInv ==
  \A r, q \in Ranks : card_id(q) = Minus(card_id(r), 1) =>
    /\ synced[q] >= 2 * op[r] - 3
    /\ rank_id(r) = 0 /\ Round(r) >= 1 => synced[q] >= 2 * op[r] - 1

PosInv == LoopInv /\ FlagInv /\ SyncInv /\ DistInv /\ AlignInv /\ LagInv

-----------------------------------------------------------------------------
(* What the buffers hold.                                                  *)

\* Posts of the previous rank since the beginning of the round.
Arrivals(r) == nextcnt[phyPrevRank(r)] - nextcnt[r] + Posted(r)
Calculated(r) ==
  IF pc[r] \notin Posting THEN 0 ELSE IF i[r] < allCardNum THEN i[r] ELSE allCardNum - 1

\* The cards from f to t places before card c.
Arc(c, f, t) == {Minus(c, k) : k \in f .. t}

InInv ==
  \A r \in Ranks : pc[r] \in Posting =>
    \A s \in Slices :
      inBuff[r][Round(r) % 2][s] = Part(op[r], Nth(r, Round(r)), {card_id(r)})

\* The half of the round: what has arrived in the first allCardNum posts and
\* what was added to it, or the sums of the later posts,
Gathered(r, k) ==
  IF k + allCardNum < Posts /\ Arrivals(r) > k + allCardNum THEN Cards
  ELSE Arc(card_id(r), IF k < Calculated(r) THEN 0 ELSE 1, k + 1)
ThisHalf(r) ==
  \A k \in 0 .. allCardNum - 1 : Arrivals(r) > k =>
    outBuff[r][Round(r) % 2][Minus(card_id(r), k + 1)]
      = Part(op[r], Nth(r, Round(r)), Gathered(r, k))

\* and the other half, where the first posts of the next round arrive.
OtherHalf(r) ==
  \A k \in 0 .. allCardNum - 2 : Arrivals(r) > Posts + k =>
    outBuff[r][(Round(r) + 1) % 2][Minus(card_id(r), k + 1)]
      = Part(op[r], Nth(r, Round(r) + 1), Arc(card_id(r), 1, k + 1))

OutInv == \A r \in Ranks : pc[r] \in Awaiting \cup InLoop => ThisHalf(r) /\ OtherHalf(r)

\* Nothing in outBuff is of a later round than it may be.
NotAfter(part, r, m) ==
  part.op < op[r] \/ (pc[r] \notin Opening /\ part.op = op[r] /\ part.chunk <= Nth(r, m))
OldInv ==
  \A r \in Ranks : \A s \in Slices :
    /\ NotAfter(outBuff[r][Round(r) % 2][s], r, Round(r))
    /\ NotAfter(outBuff[r][(Round(r) + 1) % 2][s], r, Round(r) + 1)

\* The rounds whose sums have been moved to the users.
Moved(x, o, m) == o < op[x] \/ (o = op[x] /\ m < Round(x))
UserInv ==
  \A x, r \in Ranks : SameCard(x, r) =>
    \A o \in 1 .. NumOps : \A m \in 0 .. Rounds(o, rank_id(x)) - 1 :
      Moved(x, o, m) => recvusr[r][o][Nth(x, m)] = Total(o, Nth(x, m))

DataInv == InInv /\ OutInv /\ OldInv /\ UserInv

-----------------------------------------------------------------------------
(* Arithmetic of the ring.                                                 *)

LEMMA ModSmall ==
  ASSUME NEW n \in Nat, n > 0, NEW x \in 0 .. n - 1
  PROVE  x % n = x /\ (x + n) % n = x /\ (x + 2 * n) % n = x
<1>1. x % n = x
  OBVIOUS
<1>2. (x + n) % n = x
  OBVIOUS
<1>3. (x + 2 * n) % n = x
  OBVIOUS
<1> QED
  BY <1>1, <1>2, <1>3

LEMMA MinusValue ==
  ASSUME NEW c \in Cards, NEW k \in 0 .. 2 * allCardNum
  PROVE  Minus(c, k) = IF k <= c THEN c - k
                       ELSE IF k <= c + allCardNum THEN c - k + allCardNum
                       ELSE c - k + 2 * allCardNum
<1>0. allCardNum \in Nat /\ allCardNum > 0 /\ c \in 0 .. allCardNum - 1
  BY Consts DEF Cards
<1>1. CASE k <= c
  <2>1. c - k \in 0 .. allCardNum - 1
    BY <1>0, <1>1
  <2>2. ((c - k) + 2 * allCardNum) % allCardNum = c - k
    BY <1>0, <2>1, ModSmall
  <2> QED
    BY <1>0, <1>1, <2>2 DEF Minus
<1>2. CASE ~(k <= c) /\ k <= c + allCardNum
  <2>1. c - k + allCardNum \in 0 .. allCardNum - 1
    BY <1>0, <1>2
  <2>2. ((c - k + allCardNum) + allCardNum) % allCardNum = c - k + allCardNum
    BY <1>0, <2>1, ModSmall
  <2>3. (c - k + allCardNum) + allCardNum = c - k + 2 * allCardNum
    BY <1>0
  <2> QED
    BY <1>0, <1>2, <2>2, <2>3 DEF Minus
<1>3. CASE ~(k <= c) /\ ~(k <= c + allCardNum)
  <2>1. c - k + 2 * allCardNum \in 0 .. allCardNum - 1
    BY <1>0, <1>3
  <2>2. (c - k + 2 * allCardNum) % allCardNum = c - k + 2 * allCardNum
    BY <1>0, <2>1, ModSmall
  <2> QED
    BY <1>0, <1>3, <2>2 DEF Minus
<1> QED
  BY <1>1, <1>2, <1>3

LEMMA MinusNext ==
  ASSUME NEW c \in Cards
  PROVE  Minus(c, -1) = (IF c = allCardNum - 1 THEN 0 ELSE c + 1)
<1>0. allCardNum \in Nat /\ allCardNum > 0 /\ c \in 0 .. allCardNum - 1
  BY Consts DEF Cards
<1>1. CASE c = allCardNum - 1
  <2>1. Minus(c, -1) = (0 + 2 * allCardNum + allCardNum) % allCardNum
    BY <1>0, <1>1 DEF Minus
  <2>2. (0 + 2 * allCardNum + allCardNum) % allCardNum = 0
    BY <1>0
  <2> QED
    BY <1>1, <2>1, <2>2
<1>2. CASE c # allCardNum - 1
  <2>1. c + 1 \in 0 .. allCardNum - 1
    BY <1>0, <1>2
  <2>2. ((c + 1) + 2 * allCardNum) % allCardNum = c + 1
    BY <1>0, <2>1, ModSmall
  <2>3. (c + 1) + 2 * allCardNum = c - (-1) + 2 * allCardNum
    BY <1>0
  <2> QED
    BY <1>0, <1>2, <2>2, <2>3 DEF Minus
<1> QED
  BY <1>1, <1>2

LEMMA MinusSteps ==
  ASSUME NEW c \in Cards
  PROVE  /\ Minus(c, 1) \in Cards /\ Minus(c, -1) \in Cards
         /\ Minus(c, 0) = c /\ Minus(c, allCardNum) = c
         /\ Minus(Minus(c, 1), -1) = c /\ Minus(Minus(c, -1), 1) = c
         /\ Minus(c, -1) = Minus(c, allCardNum - 1)
         /\ \A k \in 0 .. 2 * allCardNum - 1 : Minus(Minus(c, 1), k) = Minus(c, k + 1)
         /\ \A k \in 0 .. allCardNum : Minus(c, k + allCardNum) = Minus(c, k)
<1>0. allCardNum \in Nat /\ allCardNum > 1 /\ c \in 0 .. allCardNum - 1
  BY Consts DEF Cards
<1>1. Minus(c, 1) \in Cards /\ Minus(c, -1) \in Cards
  BY MinusInRing
<1>2. Minus(c, 0) = c /\ Minus(c, allCardNum) = c
  BY <1>0, MinusValue
<1>3. /\ Minus(c, 1) = IF c = 0 THEN allCardNum - 1 ELSE c - 1
      /\ Minus(c, -1) = IF c = allCardNum - 1 THEN 0 ELSE c + 1
      /\ Minus(c, allCardNum - 1) = IF c = allCardNum - 1 THEN 0 ELSE c + 1
  BY <1>0, MinusValue, MinusNext
<1>4. Minus(Minus(c, 1), -1) = c
  BY <1>0, <1>1, <1>3, MinusNext
<1>5. Minus(Minus(c, -1), 1) = c
  BY <1>0, <1>1, <1>3, MinusValue
<1>6. ASSUME NEW k \in 0 .. 2 * allCardNum - 1
      PROVE  Minus(Minus(c, 1), k) = Minus(c, k + 1)
  <2>1. k \in 0 .. 2 * allCardNum /\ k + 1 \in 0 .. 2 * allCardNum
    BY <1>0
  <2> QED
    BY <1>0, <1>1, <1>3, <2>1, MinusValue
<1>7. ASSUME NEW k \in 0 .. allCardNum
      PROVE  Minus(c, k + allCardNum) = Minus(c, k)
  <2>1. k \in 0 .. 2 * allCardNum /\ k + allCardNum \in 0 .. 2 * allCardNum
    BY <1>0
  <2> QED
    BY <1>0, <2>1, MinusValue
<1> QED
  BY <1>1, <1>2, <1>3, <1>4, <1>5, <1>6, <1>7

LEMMA MinusInjective ==
  ASSUME NEW c \in Cards, NEW k \in 0 .. allCardNum, NEW l \in 0 .. allCardNum,
         Minus(c, k) = Minus(c, l)
  PROVE  k = l \/ k = l + allCardNum \/ l = k + allCardNum
<1>0. /\ allCardNum \in Nat /\ allCardNum > 1 /\ c \in 0 .. allCardNum - 1
      /\ k \in 0 .. 2 * allCardNum /\ l \in 0 .. 2 * allCardNum
  BY Consts DEF Cards
<1> QED
  BY <1>0, MinusValue

LEMMA MinusOnto ==
  ASSUME NEW c \in Cards, NEW s \in Cards
  PROVE  \E k \in 1 .. allCardNum : s = Minus(c, k)
<1>0. allCardNum \in Nat /\ allCardNum > 1 /\ c \in 0 .. allCardNum - 1 /\ s \in 0 .. allCardNum - 1
  BY Consts DEF Cards
<1>1. CASE s < c
  <2>1. c - s \in 1 .. allCardNum /\ c - s \in 0 .. 2 * allCardNum
    BY <1>0, <1>1
  <2>2. Minus(c, c - s) = s
    BY <1>0, <1>1, <2>1, MinusValue
  <2> QED
    BY <2>1, <2>2
<1>2. CASE ~(s < c)
  <2>1. c - s + allCardNum \in 1 .. allCardNum /\ c - s + allCardNum \in 0 .. 2 * allCardNum
    BY <1>0, <1>2
  <2>2. Minus(c, c - s + allCardNum) = s
    BY <1>0, <1>2, <2>1, MinusValue
  <2> QED
    BY <2>1, <2>2
<1> QED
  BY <1>1, <1>2

LEMMA RingInverse ==
  ASSUME NEW r \in Ranks
  PROVE  phyNextRank(phyPrevRank(r)) = r /\ phyPrevRank(phyNextRank(r)) = r
<1>1. card_id(r) \in Cards
  BY RankParts
<1>2. r = <<card_id(r), rank_id(r)>>
  BY DEF Ranks, card_id, rank_id
<1> QED
  BY <1>1, <1>2, MinusSteps DEF phyNextRank, phyPrevRank, card_id, rank_id

-----------------------------------------------------------------------------
(* The cards between.                                                      *)

LEMMA ArcSingle ==
  ASSUME NEW c \in Cards
  PROVE  Arc(c, 1, 1) = {Minus(c, 1)}
BY DEF Arc

LEMMA ArcShift ==
  ASSUME NEW c \in Cards, NEW f \in Nat, NEW t \in Nat, t < 2 * allCardNum
  PROVE  Arc(Minus(c, 1), f, t) = Arc(c, f + 1, t + 1)
<1>0. allCardNum \in Nat
  BY Consts
<1>1. ASSUME NEW x \in Arc(Minus(c, 1), f, t) PROVE x \in Arc(c, f + 1, t + 1)
  <2>1. PICK k \in f .. t : x = Minus(Minus(c, 1), k)
    BY DEF Arc
  <2>2. x = Minus(c, k + 1) /\ k + 1 \in f + 1 .. t + 1
    BY <1>0, <2>1, MinusSteps
  <2> QED
    BY <2>2 DEF Arc
<1>2. ASSUME NEW x \in Arc(c, f + 1, t + 1) PROVE x \in Arc(Minus(c, 1), f, t)
  <2>1. PICK k \in f + 1 .. t + 1 : x = Minus(c, k)
    BY DEF Arc
  <2>2. k - 1 \in f .. t /\ k - 1 \in 0 .. 2 * allCardNum - 1 /\ (k - 1) + 1 = k
    BY <1>0
  <2>3. x = Minus(Minus(c, 1), k - 1)
    BY <2>1, <2>2, MinusSteps
  <2> QED
    BY <2>2, <2>3 DEF Arc
<1> QED
  BY <1>1, <1>2

LEMMA ArcFull ==
  ASSUME NEW c \in Cards
  PROVE  Arc(c, 1, allCardNum) = Cards /\ Arc(c, 0, allCardNum - 1) = Cards
<1>0. allCardNum \in Nat /\ allCardNum > 1
  BY Consts
<1>1. Arc(c, 1, allCardNum) \subseteq Cards /\ Arc(c, 0, allCardNum - 1) \subseteq Cards
  BY <1>0, MinusInRing DEF Arc
<1>2. Cards \subseteq Arc(c, 1, allCardNum)
  BY MinusOnto DEF Arc
<1>3. Cards \subseteq Arc(c, 0, allCardNum - 1)
  <2> SUFFICES ASSUME NEW s \in Cards PROVE \E k \in 0 .. allCardNum - 1 : s = Minus(c, k)
    BY DEF Arc
  <2>1. PICK k \in 1 .. allCardNum : s = Minus(c, k)
    BY MinusOnto
  <2>2. CASE k = allCardNum
    BY <1>0, <2>1, <2>2, MinusSteps
  <2>3. CASE k # allCardNum
    BY <1>0, <2>1, <2>3
  <2> QED
    BY <2>2, <2>3
<1> QED
  BY <1>1, <1>2, <1>3

\* Adding the own part to what has come from the k + 1 cards before.
LEMMA ArcGrow ==
  ASSUME NEW c \in Cards, NEW k \in 0 .. allCardNum - 2
  PROVE  /\ {c} \cap Arc(c, 1, k + 1) = {}
         /\ {c} \cup Arc(c, 1, k + 1) = Arc(c, 0, k + 1)
<1>0. allCardNum \in Nat /\ allCardNum > 1 /\ Minus(c, 0) = c
  BY Consts, MinusSteps
<1>1. ASSUME NEW l \in 1 .. k + 1 PROVE Minus(c, l) # c
  BY <1>0, MinusInjective
<1>2. 0 .. k + 1 = {0} \cup (1 .. k + 1)
  BY <1>0
<1>3. {c} \cap Arc(c, 1, k + 1) = {}
  BY <1>1 DEF Arc
<1>4. {c} \cup Arc(c, 1, k + 1) = Arc(c, 0, k + 1)
  BY <1>0, <1>2 DEF Arc
<1> QED
  BY <1>3, <1>4

-----------------------------------------------------------------------------
(* Arithmetic of the rounds.                                               *)

LEMMA MulMono ==
  ASSUME NEW n \in Nat, NEW x \in Int, NEW y \in Int, x < y
  PROVE  x * n + n <= y * n
OBVIOUS

LEMMA MulSucc ==
  ASSUME NEW n \in Nat, NEW x \in Int
  PROVE  x * n \in Int /\ (x + 1) * n = x * n + n /\ (x \in Nat => x * n \in Nat)
OBVIOUS

LEMMA DivBounds ==
  ASSUME NEW n \in Nat, n > 0, NEW x \in Nat
  PROVE  x \div n \in Nat /\ (x \div n) * n <= x /\ x < (x \div n) * n + n
OBVIOUS

LEMMA DivUnique ==
  ASSUME NEW n \in Nat, n > 0, NEW m \in Nat, NEW j \in 0 .. n - 1
  PROVE  (j + m * n) \div n = m
OBVIOUS

LEMMA NthRound ==
  ASSUME NEW r \in Ranks, NEW m \in Nat
  PROVE  /\ Nth(r, m) \in Nat /\ Nth(r, m) \div rank_num = m
         /\ Nth(r, m + 1) = Nth(r, m) + rank_num /\ Nth(r, 0) = rank_id(r)
<1>0. rank_num \in Nat /\ rank_num > 0 /\ rank_id(r) \in 0 .. rank_num - 1
  BY Consts, RankParts
<1>1. Nth(r, m) \div rank_num = m
  BY <1>0, DivUnique DEF Nth
<1>2. m * rank_num \in Nat /\ (m + 1) * rank_num = m * rank_num + rank_num
  BY <1>0, MulSucc
<1> QED
  BY <1>0, <1>1, <1>2 DEF Nth

\* Different chunks have different places in the order of the ranks.
LEMMA NthInjective ==
  ASSUME NEW x \in Ranks, NEW y \in Ranks, NEW m \in Nat, NEW l \in Nat,
         Nth(x, m) = Nth(y, l)
  PROVE  m = l /\ rank_id(x) = rank_id(y)
<1>1. m = l
  BY NthRound
<1>2. rank_id(x) \in Int /\ rank_id(y) \in Int /\ m * rank_num \in Int
  BY Consts, RankParts, MulSucc
<1>3. \A a, b, c \in Int : a + c = b + c => a = b
  OBVIOUS
<1>4. rank_id(x) + m * rank_num = rank_id(y) + m * rank_num
  BY <1>1 DEF Nth
<1> QED
  BY <1>1, <1>2, <1>3, <1>4

LEMMA RoundsTest ==
  ASSUME TypeOK, NEW o \in 1 .. NumOps, NEW r \in Ranks, NEW m \in Nat
  PROVE  /\ Rounds(o, rank_id(r)) \in Nat
         /\ Nth(r, m) >= chunks[o] <=> m >= Rounds(o, rank_id(r))
<1> DEFINE j == rank_id(r)
           X == chunks[o]
           D == X + rank_num - 1 - j
           q == D \div rank_num
<1>0. rank_num \in Nat /\ rank_num > 0 /\ j \in 0 .. rank_num - 1 /\ X \in Nat
  BY Consts, RankParts, ChunkType
<1>1. D \in Nat
  BY <1>0
<1>2. q \in Nat /\ q * rank_num <= D /\ D < q * rank_num + rank_num
  BY <1>0, <1>1, DivBounds
<1>3. q * rank_num \in Int /\ m * rank_num \in Int
  BY <1>0, <1>2, MulSucc
<1>4. m < q => m * rank_num + rank_num <= q * rank_num
  BY <1>0, <1>2, MulMono
<1>5. m >= q => m * rank_num >= q * rank_num
  <2>1. CASE m = q
    BY <1>3, <2>1
  <2>2. CASE m > q
    BY <1>0, <1>2, <1>3, <2>2, MulMono
  <2> QED
    BY <1>2, <2>1, <2>2
<1>6. j + m * rank_num >= X <=> m >= q
  <2> HIDE DEF q, j, X
  <2> QED
    BY <1>0, <1>2, <1>3, <1>4, <1>5
<1> QED
  BY <1>2, <1>6 DEF Rounds, Nth

LEMMA Parity ==
  ASSUME NEW m \in Nat
  PROVE  m % 2 \in Halves /\ (m + 1) % 2 \in Halves /\ (m + 1) % 2 # m % 2 /\ (m + 2) % 2 = m % 2
BY DEF Halves

-----------------------------------------------------------------------------
(* Where a rank goes.                                                      *)

LEMMA Phases ==
  /\ Opening \cap Awaiting = {} /\ Opening \cap InLoop = {} /\ Awaiting \cap InLoop = {}
  /\ Closing \cap (Opening \cup Awaiting \cup InLoop) = {}
  /\ {"prevflag"} \cup Awaiting \cup InLoop \cup {"enter2"} = Middle
  /\ "wait" \notin Opening \cup Awaiting \cup Turning \cup Closing
  /\ Posting \cap Turning = {} /\ InLoop = Turning \cup Posting
BY DEF Opening, Awaiting, InLoop, Turning, Posting, Closing, Middle

LEMMA RankTypes ==
  ASSUME TypeOK, NEW r \in Ranks
  PROVE  /\ op[r] \in Nat /\ op[r] \in 1 .. NumOps + 1 /\ pc[r] \in Commands
         /\ chunk[r] \in Nat /\ i[r] \in Nat /\ synced[r] \in Nat
         /\ prevcnt[r] \in Nat /\ nextcnt[r] \in Nat /\ prevflag[r] \in Nat /\ nextflag[r] \in Nat
         /\ Round(r) \in Nat /\ Posted(r) \in Nat /\ rank_id(r) \in Nat
         /\ Base(r) \in Int /\ Posts \in Nat /\ Posts > 0
<1>1. StreamType /\ FlagType
  BY DEF TypeOK, StreamType, FlagType
<1>2. /\ op[r] \in 1 .. NumOps + 1 /\ pc[r] \in Commands
      /\ chunk[r] \in Nat /\ i[r] \in Nat /\ synced[r] \in Nat
      /\ prevcnt[r] \in Nat /\ nextcnt[r] \in Nat /\ prevflag[r] \in Nat /\ nextflag[r] \in Nat
  BY <1>1 DEF StreamType, FlagType
<1>3. Round(r) \in Nat
  BY <1>2, Consts, DivBounds DEF Round
<1>4. Posted(r) \in Nat /\ Posts \in Nat /\ Posts > 0
  BY <1>2, Consts DEF Posted, Posts
<1>5. Base(r) \in Int
  BY <1>2, <1>3, <1>4, MulSucc DEF Base
<1> QED
  BY <1>2, <1>3, <1>4, <1>5, RankParts, Consts

\* What a command does to the position of its rank.
Stays(r) ==
  /\ op'[r] = op[r] /\ Round(r)' = Round(r) /\ Posted(r)' = Posted(r)
  /\ nextcnt'[r] = nextcnt[r] /\ pc'[r] # "wait"
Posts1(r) ==
  /\ Post(r) /\ op'[r] = op[r] /\ Round(r)' = Round(r) /\ Posted(r)' = Posted(r) + 1
  /\ nextcnt'[r] = nextcnt[r] + 1 /\ pc[r] = "post" /\ pc'[r] = "wait"
Moves(r) ==
  /\ Move(r) /\ op'[r] = op[r] /\ Round(r)' = Round(r) + 1 /\ Posted(r) = Posts /\ Posted(r)' = 0
  /\ nextcnt'[r] = nextcnt[r] /\ pc[r] = "move" /\ pc'[r] # "wait"
Leaves(r) ==
  /\ LeaveCardAgain(r) /\ op'[r] = op[r] + 1 /\ Round(r)' = 0 /\ Posted(r) = 0 /\ Posted(r)' = 0
  /\ nextcnt'[r] = nextcnt[r] /\ Round(r) = Rounds(op[r], rank_id(r))
  /\ pc[r] = "leave2" /\ pc'[r] = "enter" /\ op[r] <= NumOps

LEMMA PositionSteps ==
  ASSUME TypeOK, LoopInv, PrevSync, NEW r \in Ranks, Stream(r)
  PROVE  Stays(r) \/ Posts1(r) \/ Moves(r) \/ Leaves(r)
<1>0. StreamType
  BY DEF TypeOK, StreamType
<1>00. i[r] \in Nat /\ chunk[r] \in Nat
  BY RankTypes
<1> USE DEF StreamType, Goto, stream, device, At
<1>1. CASE EnterCard(r) \/ LeaveCard(r) \/ SendPrevFlag(r) \/ WaitPrevFlag(r)
  BY <1>0, <1>1 DEF EnterCard, LeaveCard, SendPrevFlag, WaitPrevFlag, Stays, Round, Posted, Begun,
     Opening, Awaiting
<1>2. CASE ResetTurn(r)
  <2>1. /\ pc[r] = "reset" /\ pc'[r] \in {"enter2", "turn", "kernel"} /\ chunk'[r] = rank_id(r)
        /\ op'[r] = op[r] /\ nextcnt'[r] = nextcnt[r]
    BY <1>0, <1>2 DEF ResetTurn, Loop
  <2>2. Round(r)' = 0
    BY <2>1, NthRound DEF Round, Begun, Opening, Awaiting
  <2> QED
    BY <2>1, <2>2 DEF Stays, Round, Posted, Begun, Opening, Awaiting
<1>3. CASE WaitTurn(r) \/ StartKernel(r)
  BY <1>0, <1>3 DEF WaitTurn, StartKernel, Stays, Round, Posted, Begun, Opening, Awaiting
<1>4. CASE FinishKernel(r)
  BY <1>0, <1>4 DEF FinishKernel, Stays, Round, Posted, Begun, Opening, Awaiting
<1>5. CASE Post(r)
  <2>1. /\ pc[r] = "post" /\ pc'[r] = "wait" /\ chunk'[r] = chunk[r] /\ i'[r] = i[r]
        /\ op'[r] = op[r] /\ nextcnt'[r] = nextcnt[r] + 1
    BY <1>0, <1>5 DEF Post
  <2> QED
    BY <1>5, <2>1 DEF Posts1, Round, Posted, Begun, Opening, Awaiting
<1>6. CASE Wait(r)
  <2>1. /\ pc[r] = "wait" /\ chunk'[r] = chunk[r] /\ op'[r] = op[r] /\ nextcnt'[r] = nextcnt[r]
        /\ IF i[r] < allCardNum - 1 THEN pc'[r] = "calc" /\ i'[r] = i[r]
           ELSE pc'[r] \in {"post", "move"} /\ i'[r] = i[r] + 1
    BY <1>0, <1>6 DEF Wait
  <2> QED
    BY <1>00, <2>1 DEF Stays, Round, Posted, Begun, Opening, Awaiting
<1>7. CASE Calculate(r)
  <2>1. /\ pc[r] = "calc" /\ pc'[r] = "post" /\ chunk'[r] = chunk[r] /\ op'[r] = op[r]
        /\ nextcnt'[r] = nextcnt[r] /\ i'[r] = i[r] + 1
    BY <1>0, <1>7 DEF Calculate
  <2> QED
    BY <2>1 DEF Stays, Round, Posted, Begun, Opening, Awaiting
<1>8. CASE Move(r)
  <2>1. /\ pc[r] = "move" /\ pc'[r] \in {"enter2", "turn", "kernel"}
        /\ chunk'[r] = chunk[r] + rank_num /\ op'[r] = op[r] /\ nextcnt'[r] = nextcnt[r]
    BY <1>0, <1>8 DEF Move, Loop
  <2>2. chunk[r] = Nth(r, Round(r)) /\ Round(r) \in Nat /\ i[r] = Posts
    BY <2>1, RankTypes DEF LoopInv, Begun, Opening, Awaiting
  <2>3. chunk'[r] = Nth(r, Round(r) + 1) /\ Round(r) + 1 \in Nat
    BY <2>1, <2>2, NthRound
  <2>4. Round(r)' = Round(r) + 1
    <3>1. Round(r)' = chunk'[r] \div rank_num
      BY <2>1 DEF Round, Begun, Opening, Awaiting
    <3> QED
      BY <2>3, <3>1, NthRound
  <2> QED
    BY <1>8, <2>1, <2>2, <2>4 DEF Moves, Posted
<1>9. CASE EnterCardAgain(r)
  BY <1>0, <1>9 DEF EnterCardAgain, Stays, Round, Posted, Begun, Opening, Awaiting
<1>10. CASE LeaveCardAgain(r)
  <2>1. /\ pc[r] = "leave2" /\ pc'[r] = "enter" /\ op'[r] = op[r] + 1 /\ nextcnt'[r] = nextcnt[r]
        /\ op[r] <= NumOps
    BY <1>0, <1>10 DEF LeaveCardAgain
  <2>2. Round(r) = Rounds(op[r], rank_id(r))
    BY <2>1 DEF LoopInv, Closing
  <2> QED
    BY <1>10, <2>1, <2>2 DEF Leaves, Round, Posted, Begun, Opening
<1> QED
  BY <1>1, <1>2, <1>3, <1>4, <1>5, <1>6, <1>7, <1>8, <1>9, <1>10 DEF Stream

\* What a rank waits for does not change when another one takes a step.
LEMMA OthersPosition ==
  ASSUME TypeOK, NEW r \in Ranks, Stream(r), NEW q \in Ranks, q # r
  PROVE  /\ op'[q] = op[q] /\ pc'[q] = pc[q] /\ chunk'[q] = chunk[q] /\ i'[q] = i[q]
         /\ synced'[q] = synced[q] /\ prevcnt'[q] = prevcnt[q] /\ nextcnt'[q] = nextcnt[q]
         /\ Round(q)' = Round(q) /\ Posted(q)' = Posted(q) /\ Base(q)' = Base(q)
         /\ Begun(q)' = Begun(q)
BY OthersStand DEF Round, Posted, Base, Begun

LEMMA LoopStream ==
  ASSUME TypeOK, LoopInv, PrevSync, NEW r \in Ranks, Stream(r)
  PROVE  LoopInv'
<1>0. StreamType /\ chunks' = chunks
  BY ChunksConstant DEF TypeOK, StreamType
<1>00. i[r] \in Nat /\ chunk[r] \in Nat /\ Round(r) \in Nat /\ op[r] \in 1 .. NumOps + 1
       /\ allCardNum \in Nat /\ allCardNum >= 2
  BY RankTypes, Consts
<1>01. Rounds(op[r], rank_id(r))' = Rounds(op'[r], rank_id(r))
  BY <1>0 DEF Rounds
<1> DEFINE Good(q) ==
      /\ Begun(q) => chunk[q] = Nth(q, Round(q))
      /\ pc[q] \in InLoop => Round(q) < Rounds(op[q], rank_id(q))
      /\ pc[q] \in Closing => Round(q) = Rounds(op[q], rank_id(q))
      /\ pc[q] \in {"post", "wait"} => i[q] < Posts
      /\ pc[q] = "calc" => i[q] < allCardNum - 1
      /\ pc[q] = "move" => i[q] = Posts
<1>g. Good(r)
  BY DEF LoopInv
<1>1. ASSUME NEW q \in Ranks, q # r PROVE Good(q)'
  <2>1. Good(q)
    BY DEF LoopInv
  <2> QED
    BY <1>0, <1>1, <2>1, OthersPosition DEF Rounds
<1>2. Good(r)'
  <2>a. ASSUME pc'[r] \in Opening \cup Awaiting PROVE Good(r)'
    BY <2>a DEF Opening, Awaiting, Begun, InLoop, Turning, Posting, Closing
  <2> USE DEF StreamType, Goto, stream, device, At
  <2>1. CASE EnterCard(r) \/ LeaveCard(r) \/ SendPrevFlag(r) \/ WaitPrevFlag(r)
    BY <1>0, <2>a, <2>1 DEF EnterCard, LeaveCard, SendPrevFlag, WaitPrevFlag, Opening, Awaiting
  \* The head of the loop
  <2>h. ASSUME NEW m \in Nat, chunk'[r] = Nth(r, m), op'[r] = op[r], op[r] \in 1 .. NumOps,
               pc'[r] = IF Nth(r, m) >= chunks[op[r]] THEN "enter2"
                        ELSE IF ifSplit(op[r]) THEN "turn" ELSE "kernel",
               m <= Rounds(op[r], rank_id(r))
        PROVE  Good(r)'
    <3>1. Begun(r)' /\ pc'[r] \in {"enter2", "turn", "kernel"}
      BY <2>h DEF Begun, Opening, Awaiting
    <3>2. Round(r)' = m
      BY <2>h, <3>1, NthRound DEF Round
    <3>3. /\ Rounds(op[r], rank_id(r)) \in Nat
          /\ Nth(r, m) >= chunks[op[r]] <=> m >= Rounds(op[r], rank_id(r))
      BY <2>h, RoundsTest
    <3>4. Nth(r, m)' = Nth(r, m) /\ Rounds(op[r], rank_id(r))' = Rounds(op[r], rank_id(r))
      BY <1>01, <2>h DEF Nth
    <3> QED
      BY <2>h, <3>1, <3>2, <3>3, <3>4 DEF InLoop, Turning, Posting, Closing
  <2>2. CASE ResetTurn(r)
    <3>1. /\ chunk'[r] = Nth(r, 0) /\ op'[r] = op[r] /\ op[r] \in 1 .. NumOps
          /\ pc'[r] = IF Nth(r, 0) >= chunks[op[r]] THEN "enter2"
                      ELSE IF ifSplit(op[r]) THEN "turn" ELSE "kernel"
      BY <1>0, <1>00, <2>2, NthRound DEF ResetTurn, Loop
    <3>2. Rounds(op[r], rank_id(r)) >= 0
      BY <3>1, RoundsTest
    <3> QED
      BY <2>h, <3>1, <3>2
  <2>3. CASE Move(r)
    <3>1. pc[r] = "move" /\ chunk[r] = Nth(r, Round(r)) /\ Round(r) < Rounds(op[r], rank_id(r))
      BY <1>g, <2>3 DEF Move, Begun, Opening, Awaiting, InLoop, Posting
    <3>2. /\ chunk'[r] = Nth(r, Round(r) + 1) /\ op'[r] = op[r] /\ op[r] \in 1 .. NumOps
          /\ pc'[r] = IF Nth(r, Round(r) + 1) >= chunks[op[r]] THEN "enter2"
                      ELSE IF ifSplit(op[r]) THEN "turn" ELSE "kernel"
      BY <1>0, <1>00, <2>3, <3>1, NthRound DEF Move, Loop
    <3>3. Rounds(op[r], rank_id(r)) \in Nat
      BY <3>2, RoundsTest
    <3>4. Round(r) + 1 <= Rounds(op[r], rank_id(r)) /\ Round(r) + 1 \in Nat
      BY <1>00, <3>1, <3>3
    <3> QED
      BY <2>h, <3>2, <3>4
  \* and the commands of a round.
  <2>i. ASSUME op'[r] = op[r], chunk'[r] = chunk[r], pc[r] \in InLoop, pc'[r] \in InLoop,
               pc'[r] \in {"post", "wait"} => i'[r] < Posts,
               pc'[r] = "calc" => i'[r] < allCardNum - 1,
               pc'[r] = "move" => i'[r] = Posts
        PROVE  Good(r)'
    <3>1. Begun(r) /\ Begun(r)' /\ Round(r)' = Round(r)
      BY <2>i, Phases DEF Begun, Round
    <3>2. Nth(r, Round(r))' = Nth(r, Round(r))
      BY <3>1 DEF Nth
    <3> QED
      BY <1>g, <1>01, <2>i, <3>1, <3>2, Phases
  <2> USE DEF InLoop, Turning, Posting
  <2>4. CASE WaitTurn(r) \/ StartKernel(r)
    BY <1>0, <2>i, <2>4 DEF WaitTurn, StartKernel
  <2>5. CASE FinishKernel(r)
    <3>1. 0 < Posts
      BY <1>00 DEF Posts
    <3> QED
      BY <1>0, <2>i, <2>5, <3>1 DEF FinishKernel
  <2>6. CASE Post(r)
    <3>1. /\ pc[r] = "post" /\ pc'[r] = "wait" /\ chunk'[r] = chunk[r] /\ i'[r] = i[r]
          /\ op'[r] = op[r]
      BY <1>0, <2>6 DEF Post
    <3> QED
      BY <1>g, <2>i, <3>1
  <2>7. CASE Wait(r)
    <3>1. /\ pc[r] = "wait" /\ chunk'[r] = chunk[r] /\ op'[r] = op[r]
          /\ IF i[r] < allCardNum - 1 THEN pc'[r] = "calc" /\ i'[r] = i[r]
             ELSE /\ pc'[r] = IF i[r] < Posts - 1 THEN "post" ELSE "move"
                  /\ i'[r] = i[r] + 1
      BY <1>0, <2>7 DEF Wait
    <3> QED
      BY <1>g, <1>00, <2>i, <3>1 DEF Posts
  <2>8. CASE Calculate(r)
    <3>1. /\ pc[r] = "calc" /\ chunk'[r] = chunk[r] /\ op'[r] = op[r]
          /\ pc'[r] = "post" /\ i'[r] = i[r] + 1
      BY <1>0, <2>8 DEF Calculate
    <3> QED
      BY <1>g, <1>00, <2>i, <3>1 DEF Posts
  <2>9. CASE EnterCardAgain(r)
    <3>1. /\ pc[r] = "enter2" /\ pc'[r] = "leave2" /\ chunk'[r] = chunk[r] /\ op'[r] = op[r]
      BY <1>0, <2>9 DEF EnterCardAgain
    <3>2. Begun(r) /\ Begun(r)' /\ Round(r)' = Round(r)
      BY <3>1 DEF Begun, Round, Opening, Awaiting
    <3>3. Nth(r, Round(r))' = Nth(r, Round(r))
      BY <3>2 DEF Nth
    <3> QED
      BY <1>g, <1>01, <3>1, <3>2, <3>3 DEF Closing
  <2>10. CASE LeaveCardAgain(r)
    BY <1>0, <2>a, <2>10 DEF LeaveCardAgain, Opening
  <2> QED
    BY <2>1, <2>2, <2>3, <2>4, <2>5, <2>6, <2>7, <2>8, <2>9, <2>10 DEF Stream
<1> QED
  BY <1>1, <1>2 DEF LoopInv

-----------------------------------------------------------------------------
(* The flags and the distance between neighbours.                          *)

RingInv == CardInv /\ PosInv

LEMMA NeighbourEqual ==
  ASSUME NEW r \in Ranks, NEW q \in Ranks
  PROVE  /\ phyNextRank(q) = phyNextRank(r) <=> q = r
         /\ phyPrevRank(q) = phyPrevRank(r) <=> q = r
         /\ phyNextRank(q) = r <=> q = phyPrevRank(r)
BY RingInverse

LEMMA NeighbourOther ==
  ASSUME NEW r \in Ranks
  PROVE  phyNextRank(r) # r /\ phyPrevRank(r) # r
<1>1. card_id(r) \in Cards
  BY RankParts
<1>2. Minus(card_id(r), 1) # Minus(card_id(r), 0)
  BY <1>1, Consts, MinusInjective
<1>3. phyPrevRank(r) # r
  BY <1>1, <1>2, MinusSteps, Neighbours
<1> QED
  BY <1>3, RingInverse

LEMMA FlagStream ==
  ASSUME TypeOK, TypeOK', FlagInv, PrevSync, NEW r \in Ranks, Stream(r)
  PROVE  FlagInv'
<1> USE DEF Goto, stream, device, At
<1>0. StreamType /\ FlagType
  BY DEF TypeOK, StreamType, FlagType
<1> SUFFICES ASSUME NEW q \in Ranks
             PROVE  /\ prevcnt'[q] = op'[q] - (IF pc'[q] \in Opening THEN 1 ELSE 0)
                    /\ prevflag'[phyPrevRank(q)] = prevcnt'[q]
                    /\ nextflag'[phyNextRank(q)] = nextcnt'[q]
  BY DEF FlagInv
<1>1. /\ prevcnt[q] = op[q] - (IF pc[q] \in Opening THEN 1 ELSE 0)
      /\ prevflag[phyPrevRank(q)] = prevcnt[q]
      /\ nextflag[phyNextRank(q)] = nextcnt[q]
      /\ op[q] \in Nat /\ prevcnt[q] \in Nat /\ nextcnt[q] \in Nat
      /\ phyPrevRank(q) \in Ranks /\ phyNextRank(q) \in Ranks
      /\ phyPrevRank(r) \in Ranks /\ phyNextRank(r) \in Ranks
  BY RankTypes, Neighbours DEF FlagInv
<1>2. q # r => op'[q] = op[q] /\ pc'[q] = pc[q] /\ prevcnt'[q] = prevcnt[q] /\ nextcnt'[q] = nextcnt[q]
  BY OthersStand
<1>3. CASE SendPrevFlag(r)
  <2>1. /\ prevcnt' = [prevcnt EXCEPT ![r] = @ + 1]
        /\ prevflag' = [prevflag EXCEPT ![phyPrevRank(r)] = prevcnt[r] + 1]
        /\ nextflag' = nextflag /\ nextcnt' = nextcnt /\ op' = op
        /\ pc[r] = "prevflag" /\ pc' = [pc EXCEPT ![r] = "prevwait"]
    BY <1>3 DEF SendPrevFlag
  <2>2. CASE q = r
    BY <1>0, <1>1, <2>1, <2>2 DEF StreamType, FlagType, Opening
  <2>3. CASE q # r
    BY <1>0, <1>1, <1>2, <2>1, <2>3, NeighbourEqual DEF FlagType
  <2> QED
    BY <2>2, <2>3
<1>4. CASE Post(r)
  <2>1. /\ nextcnt' = [nextcnt EXCEPT ![r] = @ + 1]
        /\ nextflag' = [nextflag EXCEPT ![phyNextRank(r)] = nextcnt[r] + 1]
        /\ prevflag' = prevflag /\ prevcnt' = prevcnt /\ op' = op
        /\ pc[r] = "post" /\ pc' = [pc EXCEPT ![r] = "wait"]
    BY <1>4 DEF Post
  <2>2. CASE q = r
    BY <1>0, <1>1, <2>1, <2>2 DEF StreamType, FlagType, Opening
  <2>3. CASE q # r
    BY <1>0, <1>1, <1>2, <2>1, <2>3, NeighbourEqual DEF FlagType
  <2> QED
    BY <2>2, <2>3
<1>5. ASSUME /\ prevflag' = prevflag /\ nextflag' = nextflag
             /\ prevcnt' = prevcnt /\ nextcnt' = nextcnt
             /\ \/ op' = op /\ (pc'[r] \in Opening <=> pc[r] \in Opening)
                \/ op'[r] = op[r] + 1 /\ pc'[r] \in Opening /\ pc[r] \notin Opening
      PROVE  /\ prevcnt'[q] = op'[q] - (IF pc'[q] \in Opening THEN 1 ELSE 0)
             /\ prevflag'[phyPrevRank(q)] = prevcnt'[q]
             /\ nextflag'[phyNextRank(q)] = nextcnt'[q]
  BY <1>1, <1>2, <1>5
<1> USE DEF StreamType, Opening
<1>6. CASE EnterCard(r) \/ LeaveCard(r) \/ WaitPrevFlag(r)
  BY <1>0, <1>5, <1>6 DEF EnterCard, LeaveCard, WaitPrevFlag
<1>7. CASE ResetTurn(r)
  BY <1>0, <1>5, <1>7 DEF ResetTurn, Loop
<1>8. CASE WaitTurn(r) \/ StartKernel(r) \/ FinishKernel(r)
  BY <1>0, <1>5, <1>8 DEF WaitTurn, StartKernel, FinishKernel
<1>9. CASE Wait(r)
  BY <1>0, <1>5, <1>9 DEF Wait
<1>10. CASE Calculate(r)
  BY <1>0, <1>5, <1>10 DEF Calculate
<1>11. CASE Move(r)
  BY <1>0, <1>5, <1>11 DEF Move, Loop
<1>12. CASE EnterCardAgain(r) \/ LeaveCardAgain(r)
  BY <1>0, <1>5, <1>12 DEF EnterCardAgain, LeaveCardAgain
<1> QED
  BY <1>3, <1>4, <1>6, <1>7, <1>8, <1>9, <1>10, <1>11, <1>12 DEF Stream

LEMMA SyncStream ==
  ASSUME TypeOK, TypeOK', FlagInv, FlagInv', SyncInv, PrevSync, NEW r \in Ranks, Stream(r)
  PROVE  SyncInv'
<1> USE DEF Goto, stream, device, At
<1>0. StreamType
  BY DEF TypeOK, StreamType
<1> DEFINE late(q) == IF pc[q] \in Opening \cup {"prevwait"} THEN 1 ELSE 0
<1> SUFFICES ASSUME NEW q \in Ranks
             PROVE  prevcnt'[phyNextRank(q)] >= op'[q] - late(q)'
  BY DEF SyncInv
<1> DEFINE n == phyNextRank(q)
<1>1. /\ prevcnt[n] >= op[q] - late(q)
      /\ op[q] \in Nat /\ prevcnt[n] \in Nat /\ n \in Ranks /\ op[n] \in Nat /\ prevcnt'[n] \in Nat
  <2>1. prevcnt'[n] \in Nat
    BY Neighbours DEF TypeOK
  <2> QED
    BY <2>1, RankTypes, Neighbours DEF SyncInv
<1> HIDE DEF n
<1>2. q # r => op'[q] = op[q] /\ pc'[q] = pc[q]
  BY OthersStand
<1>3. prevcnt'[n] >= prevcnt[n]
  <2>1. CASE n # r
    BY <1>1, <2>1, OthersStand
  <2>2. CASE n = r
    <3>1. prevcnt'[n] = prevcnt[n] \/ prevcnt'[n] = prevcnt[n] + 1
      <4>1. CASE SendPrevFlag(r)
        BY <1>0, <1>1, <2>2, <4>1 DEF SendPrevFlag, StreamType
      <4>2. CASE ~SendPrevFlag(r)
        BY <4>2 DEF Stream, EnterCard, LeaveCard, WaitPrevFlag, ResetTurn, WaitTurn, StartKernel,
           FinishKernel, Post, Wait, Calculate, Move, EnterCardAgain, LeaveCardAgain
      <4> QED
        BY <4>1, <4>2
    <3> QED
      BY <1>1, <3>1
  <2> QED
    BY <2>1, <2>2
<1>4. CASE WaitPrevFlag(r) /\ q = r
  <2>1. prevflag[q] >= prevcnt[q] /\ pc[q] = "prevwait" /\ op' = op
    BY <1>4 DEF WaitPrevFlag
  <2>2. prevflag[phyPrevRank(n)] = prevcnt[n] /\ phyPrevRank(n) = q
    BY <1>1, RingInverse DEF FlagInv, n
  <2>3. prevcnt[q] = op[q]
    BY <1>1, <2>1, RankTypes DEF FlagInv, Opening
  <2> QED
    BY <1>1, <1>3, <2>1, <2>2, <2>3 DEF n
<1>5. ASSUME q = r,
             \/ op'[r] = op[r] /\ (pc'[r] \in Opening \cup {"prevwait"} <=> pc[r] \in Opening \cup {"prevwait"})
             \/ op'[r] = op[r] + 1 /\ pc'[r] \in Opening /\ pc[r] = "leave2"
      PROVE  prevcnt'[n] >= op'[q] - late(q)'
  BY <1>1, <1>3, <1>5 DEF Opening
<1>6. CASE q # r
  BY <1>1, <1>2, <1>3, <1>6 DEF n
<1> USE DEF StreamType, Opening
<1>7. CASE q = r /\ (EnterCard(r) \/ LeaveCard(r) \/ SendPrevFlag(r))
  BY <1>0, <1>5, <1>7 DEF EnterCard, LeaveCard, SendPrevFlag, n
<1>8. CASE q = r /\ ResetTurn(r)
  <2>1. op'[r] = op[r] /\ pc[r] = "reset" /\ pc'[r] \in {"enter2", "turn", "kernel"}
    BY <1>0, <1>8 DEF ResetTurn, Loop
  <2> QED
    BY <1>5, <1>8, <2>1 DEF n
<1>9. CASE q = r /\ (WaitTurn(r) \/ StartKernel(r) \/ FinishKernel(r))
  BY <1>0, <1>5, <1>9 DEF WaitTurn, StartKernel, FinishKernel, n
<1>10. CASE q = r /\ (Post(r) \/ Wait(r) \/ Calculate(r))
  <2>1. op'[r] = op[r] /\ pc[r] \in {"post", "wait", "calc"} /\ pc'[r] \in {"post", "wait", "calc", "move"}
    BY <1>0, <1>10 DEF Post, Wait, Calculate
  <2> QED
    BY <1>5, <1>10, <2>1 DEF n
<1>11. CASE q = r /\ Move(r)
  <2>1. op'[r] = op[r] /\ pc[r] = "move" /\ pc'[r] \in {"enter2", "turn", "kernel"}
    BY <1>0, <1>11 DEF Move, Loop
  <2> QED
    BY <1>5, <1>11, <2>1 DEF n
<1>12. CASE q = r /\ (EnterCardAgain(r) \/ LeaveCardAgain(r))
  BY <1>0, <1>5, <1>12 DEF EnterCardAgain, LeaveCardAgain, n
<1> QED
  BY <1>4, <1>6, <1>7, <1>8, <1>9, <1>10, <1>11, <1>12 DEF Stream, n

LEMMA BackRanks ==
  ASSUME NEW r \in Ranks, NEW d \in 1 .. allCardNum - 1
  PROVE  /\ Back(r, d) \in Ranks
         /\ d = 1 => Back(r, d) = phyPrevRank(r)
         /\ d > 1 => Back(r, d) = Back(phyPrevRank(r), d - 1)
         /\ d = allCardNum - 1 => Back(r, d) = phyNextRank(r)
<1>1. card_id(r) \in Cards /\ rank_id(r) \in 0 .. rank_num - 1 /\ Minus(card_id(r), d) \in Cards
  BY RankParts, MinusInRing
<1>2. Back(r, d) \in Ranks
  BY <1>1, RankOf DEF Back
<1>3. d > 1 => Minus(card_id(r), d) = Minus(Minus(card_id(r), 1), d - 1)
  <2>1. d - 1 \in 0 .. 2 * allCardNum - 1 /\ (d - 1) + 1 = d
    BY Consts
  <2> QED
    BY <1>1, <2>1, MinusSteps
<1>4. d > 1 => Back(r, d) = Back(phyPrevRank(r), d - 1)
  BY <1>3, Neighbours DEF Back
<1> QED
  BY <1>1, <1>2, <1>4, MinusSteps DEF Back, phyPrevRank, phyNextRank

LEMMA CountsGrow ==
  ASSUME TypeOK, LoopInv, PrevSync, NEW r \in Ranks, Stream(r), NEW q \in Ranks
  PROVE  nextcnt'[q] >= nextcnt[q] /\ (q # r \/ pc[r] # "post" => nextcnt'[q] = nextcnt[q])
<1>1. nextcnt[q] \in Nat
  BY RankTypes
<1>2. CASE q # r
  BY <1>1, <1>2, OthersStand
<1>3. CASE q = r
  BY <1>1, <1>3, PositionSteps DEF Stays, Posts1, Moves, Leaves
<1> QED
  BY <1>2, <1>3

LEMMA DistStream ==
  ASSUME TypeOK, LoopInv, FlagInv, DistInv, PrevSync, NEW r \in Ranks, Stream(r)
  PROVE  DistInv'
<1> DEFINE less(q) == IF pc[q] = "wait" THEN 0 ELSE 1
<1> SUFFICES ASSUME NEW q \in Ranks, NEW d \in 1 .. allCardNum - 1
             PROVE  nextcnt'[q] <= nextcnt'[Back(q, d)] + d - less(q)'
  BY DEF DistInv, Back
<1> DEFINE b == Back(q, d)
<1>1. /\ nextcnt[q] <= nextcnt[b] + d - less(q)
      /\ b \in Ranks /\ nextcnt[q] \in Nat /\ nextcnt[b] \in Nat
  BY BackRanks, RankTypes DEF DistInv
<1>2. nextcnt'[b] >= nextcnt[b] /\ nextcnt'[b] \in Int
  <2>1. nextcnt'[b] = nextcnt[b] \/ nextcnt'[b] = nextcnt[b] + 1
    <3>1. CASE b # r
      BY <1>1, <3>1, OthersStand
    <3>2. CASE b = r
      BY <3>2, PositionSteps DEF Stays, Posts1, Moves, Leaves
    <3> QED
      BY <3>1, <3>2
  <2> QED
    BY <1>1, <2>1
<1>3. CASE q # r
  <2>1. nextcnt'[q] = nextcnt[q] /\ pc'[q] = pc[q]
    BY <1>3, OthersStand
  <2> QED
    BY <1>1, <1>2, <2>1
<1>4. CASE q = r /\ pc[r] # "wait"
  BY <1>1, <1>2, <1>4, PositionSteps DEF Stays, Posts1, Moves, Leaves
<1>5. CASE q = r /\ pc[r] = "wait"
  <2>1. Wait(r)
    BY <1>5 DEF Stream, EnterCard, LeaveCard, SendPrevFlag, WaitPrevFlag, ResetTurn, WaitTurn,
       StartKernel, FinishKernel, Post, Calculate, Move, EnterCardAgain, LeaveCardAgain, At
  <2>2. nextflag[r] >= nextcnt[r] /\ nextcnt' = nextcnt /\ pc'[r] # "wait"
    BY <1>5, <2>1, PositionSteps DEF Wait, stream, Stays, Posts1, Moves, Leaves
  <2>3. nextflag[r] = nextcnt[phyPrevRank(r)]
    <3>1. phyPrevRank(r) \in Ranks /\ phyNextRank(phyPrevRank(r)) = r
      BY Neighbours, RingInverse
    <3> QED
      BY <3>1 DEF FlagInv
  <2>4. CASE d = 1
    <3>1. b = phyPrevRank(r)
      BY <1>5, <2>4, BackRanks
    <3> QED
      BY <1>1, <1>5, <2>2, <2>3, <2>4, <3>1
  <2>5. CASE d > 1
    <3>1. b = Back(phyPrevRank(r), d - 1) /\ phyPrevRank(r) \in Ranks /\ d - 1 \in 1 .. allCardNum - 1
      BY <1>5, <2>5, Consts, BackRanks, Neighbours
    <3>2. nextcnt[phyPrevRank(r)] <= nextcnt[b] + (d - 1) - less(phyPrevRank(r))
      BY <3>1 DEF DistInv
    <3>3. nextcnt[phyPrevRank(r)] \in Nat
      BY <3>1, RankTypes
    <3> QED
      BY <1>1, <1>5, <2>2, <2>3, <3>2, <3>3
  <2> QED
    BY <2>4, <2>5
<1> QED
  BY <1>3, <1>4, <1>5

-----------------------------------------------------------------------------
(* The calls of neighbours.                                                *)

\* The posts of a rank are those of the calls before and some of this one.
LEMMA PostsOfCall ==
  ASSUME TypeOK, LoopInv, NEW r \in Ranks, op[r] \in 1 .. NumOps
  PROVE  /\ nextcnt[r] = Base(r) + Posted(r) + Round(r) * Posts
         /\ Round(r) * Posts >= 0
         /\ Rounds(op[r], rank_id(r)) * Posts \in Int
         /\ Posted(r) + Round(r) * Posts <= Rounds(op[r], rank_id(r)) * Posts
         /\ pc[r] \in Opening \cup Awaiting => Posted(r) + Round(r) * Posts = 0
<1> DEFINE M == Rounds(op[r], rank_id(r))
<1>1. /\ Round(r) \in Nat /\ Posted(r) \in Nat /\ nextcnt[r] \in Nat /\ Posts \in Nat /\ M \in Nat
      /\ pc[r] \in Commands
  BY RankTypes, RoundsTest
<1>2. Round(r) * Posts \in Nat /\ M * Posts \in Nat
  BY <1>1, MulSucc
<1>3. pc[r] \in Opening \cup Awaiting => Posted(r) = 0 /\ Round(r) = 0
  BY DEF Posted, Round, Begun, Opening, Awaiting
<1>4. Posted(r) <= Posts
  <2>1. /\ pc[r] \in {"post", "wait"} => i[r] < Posts
        /\ pc[r] = "calc" => i[r] < allCardNum - 1
        /\ pc[r] = "move" => i[r] = Posts
        /\ i[r] \in Nat
    BY RankTypes DEF LoopInv
  <2> QED
    BY <1>1, <2>1, Consts DEF Posted, Posts
<1>5. Posted(r) + Round(r) * Posts <= M * Posts
  <2>1. CASE pc[r] \in Opening \cup Awaiting
    <3>1. 0 * Posts = 0
      BY <1>1
    <3> QED
      BY <1>2, <1>3, <2>1, <3>1
  <2>2. CASE pc[r] \in InLoop
    <3>1. Round(r) < M
      BY <2>2 DEF LoopInv
    <3>2. Round(r) * Posts + Posts <= M * Posts
      BY <1>1, <3>1, MulMono
    <3> QED
      BY <1>1, <1>2, <1>4, <3>2
  <2>3. CASE pc[r] \in Closing
    <3>1. Round(r) = M /\ Posted(r) = 0
      BY <2>3 DEF LoopInv, Posted, Closing
    <3> QED
      BY <1>2, <3>1
  <2> QED
    BY <1>1, <2>1, <2>2, <2>3 DEF Commands
<1>6. 0 * Posts = 0
  BY <1>1
<1>7. nextcnt[r] = Base(r) + Posted(r) + Round(r) * Posts
  BY <1>1, <1>2 DEF Base
<1> QED
  BY <1>2, <1>3, <1>5, <1>6, <1>7

\* Neighbours are at most one call apart.
LEMMA CallsApart ==
  ASSUME RingInv, NEW p \in Ranks
  PROVE  op[p] <= op[phyNextRank(p)] + 1 /\ op[phyNextRank(p)] <= op[p] + 1
<1> DEFINE r == phyNextRank(p)
<1>0. /\ p \in Ranks /\ r \in Ranks /\ op[p] \in Nat /\ op[r] \in Nat
      /\ synced[p] = Entered(p) /\ prevcnt[r] <= op[r] /\ prevcnt[r] \in Nat
  BY Neighbours, RankTypes DEF RingInv, CardInv, PosInv, FlagInv, SyncedInv
<1>1. prevcnt[r] >= op[p] - 1
  BY <1>0 DEF RingInv, PosInv, SyncInv
<1>2. synced[p] >= 2 * op[r] - 3
  <2>1. card_id(p) = Minus(card_id(r), 1)
    BY Neighbours, RingInverse
  <2> QED
    BY <1>0, <2>1 DEF RingInv, PosInv, LagInv
<1> QED
  BY <1>0, <1>1, <1>2 DEF Entered

\* A command of a rank changes the posts before its call when it leaves it.
LEMMA BaseSteps ==
  ASSUME TypeOK, LoopInv, PrevSync, NEW r \in Ranks, Stream(r)
  PROVE  \/ op'[r] = op[r] /\ Base(r)' = Base(r)
         \/ /\ op[r] \in 1 .. NumOps /\ op'[r] = op[r] + 1 /\ pc[r] = "leave2"
            /\ Base(r)' = Base(r) + Rounds(op[r], rank_id(r)) * Posts
<1>1. /\ Round(r) \in Nat /\ Posted(r) \in Nat /\ nextcnt[r] \in Nat /\ Posts \in Nat
      /\ op[r] \in 1 .. NumOps + 1
  BY RankTypes
<1>2. /\ Round(r) * Posts \in Nat /\ (Round(r) + 1) * Posts = Round(r) * Posts + Posts
      /\ 0 * Posts = 0
  BY <1>1, MulSucc
<1>3. Base(r)' = nextcnt'[r] - Posted(r)' - Round(r)' * Posts
  BY DEF Base, Posts
<1>4. CASE Stays(r)
  BY <1>3, <1>4 DEF Stays, Base
<1>5. CASE Posts1(r)
  BY <1>1, <1>2, <1>3, <1>5 DEF Posts1, Base
<1>6. CASE Moves(r)
  <2>1. /\ op'[r] = op[r] /\ Round(r)' = Round(r) + 1 /\ Posted(r) = Posts /\ Posted(r)' = 0
        /\ nextcnt'[r] = nextcnt[r]
    BY <1>6 DEF Moves
  <2>2. Base(r)' = nextcnt[r] - 0 - (Round(r) + 1) * Posts
    BY <1>3, <2>1
  <2>3. Base(r) = nextcnt[r] - Posts - Round(r) * Posts
    BY <2>1 DEF Base
  <2> QED
    BY <1>1, <1>2, <2>1, <2>2, <2>3
<1>7. CASE Leaves(r)
  <2>1. /\ op'[r] = op[r] + 1 /\ Round(r)' = 0 /\ Posted(r) = 0 /\ Posted(r)' = 0
        /\ nextcnt'[r] = nextcnt[r] /\ Round(r) = Rounds(op[r], rank_id(r))
        /\ pc[r] = "leave2" /\ op[r] <= NumOps
    BY <1>7 DEF Leaves
  <2>2. Base(r)' = nextcnt[r] - 0 - 0 * Posts
    BY <1>3, <2>1
  <2>3. Base(r) = nextcnt[r] - 0 - Round(r) * Posts
    BY <2>1 DEF Base
  <2>4. Base(r)' = Base(r) + Round(r) * Posts
    BY <1>1, <1>2, <2>2, <2>3
  <2> QED
    BY <1>1, <2>1, <2>4
<1> QED
  BY <1>4, <1>5, <1>6, <1>7, PositionSteps

LEMMA AlignStream ==
  ASSUME RingInv, PrevSync, NEW r \in Ranks, Stream(r)
  PROVE  AlignInv'
<1>0. TypeOK /\ LoopInv /\ StreamType /\ chunks' = chunks
  BY ChunksConstant DEF RingInv, CardInv, PosInv, TypeOK, StreamType
<1> SUFFICES ASSUME NEW p \in Ranks
             PROVE  LET q == phyNextRank(p) IN
                    /\ op'[p] = op'[q] => Base(p)' = Base(q)'
                    /\ op'[q] = op'[p] + 1 =>
                         Base(q)' = Base(p)' + (Rounds(op[p], rank_id(p)) * Posts)'
                    /\ op'[p] = op'[q] + 1 =>
                         Base(p)' = Base(q)' + (Rounds(op[q], rank_id(p)) * Posts)'
  BY DEF AlignInv
<1> DEFINE q == phyNextRank(p)
           full(o) == Rounds(o, rank_id(p)) * Posts
<1>1. /\ op[p] = op[q] => Base(p) = Base(q)
      /\ op[q] = op[p] + 1 => Base(q) = Base(p) + full(op[p])
      /\ op[p] = op[q] + 1 => Base(p) = Base(q) + full(op[q])
      /\ q \in Ranks /\ q # p /\ rank_id(q) = rank_id(p)
      /\ op[p] \in Nat /\ op[q] \in Nat /\ Base(p) \in Int /\ Base(q) \in Int
      /\ op[p] \in 1 .. NumOps + 1 /\ op[q] \in 1 .. NumOps + 1
  BY <1>0, Neighbours, NeighbourOther, RankTypes DEF RingInv, PosInv, AlignInv
<1>2. op[p] <= op[q] + 1 /\ op[q] <= op[p] + 1
  BY CallsApart
<1>3. (Rounds(op[p], rank_id(p)) * Posts)' = full(op'[p]) /\ (Rounds(op[q], rank_id(p)) * Posts)' = full(op'[q])
  BY <1>0 DEF Rounds, Posts
<1>f. ASSUME NEW o \in 1 .. NumOps PROVE full(o) \in Int
  <2>1. Rounds(o, rank_id(p)) \in Nat /\ Posts \in Nat
    BY <1>0, RoundsTest, RankTypes
  <2> QED
    BY <2>1, MulSucc
<1> HIDE DEF full, q
<1>4. CASE r = p /\ op'[p] = op[p] + 1
  <2>1. pc[p] = "leave2" /\ Base(p)' = Base(p) + full(op[p]) /\ op[p] \in 1 .. NumOps
    BY <1>0, <1>1, <1>4, BaseSteps DEF full
  <2>2. op'[q] = op[q] /\ Base(q)' = Base(q)
    BY <1>0, <1>1, <1>4, OthersPosition
  <2> QED
    BY <1>1, <1>2, <1>3, <1>4, <1>f, <2>1, <2>2 DEF q
<1>5. CASE r = q /\ op'[q] = op[q] + 1
  <2>1. Base(q)' = Base(q) + full(op[q]) /\ op[q] \in 1 .. NumOps
    BY <1>0, <1>1, <1>5, BaseSteps DEF full
  <2>2. op'[p] = op[p] /\ Base(p)' = Base(p)
    BY <1>0, <1>1, <1>5, OthersPosition
  <2> QED
    BY <1>1, <1>2, <1>3, <1>5, <1>f, <2>1, <2>2 DEF q
<1>6. CASE ~(r = p /\ op'[p] = op[p] + 1) /\ ~(r = q /\ op'[q] = op[q] + 1)
  <2>1. op'[p] = op[p] /\ Base(p)' = Base(p)
    BY <1>0, <1>1, <1>6, OthersPosition, BaseSteps
  <2>2. op'[q] = op[q] /\ Base(q)' = Base(q)
    BY <1>0, <1>1, <1>6, OthersPosition, BaseSteps
  <2> QED
    BY <1>1, <1>3, <2>1, <2>2 DEF q
<1> QED
  BY <1>4, <1>5, <1>6

\* A rank that has done all posts of a round has the previous rank with it.
LEMMA PrevHasPosted ==
  ASSUME RingInv, NEW r \in Ranks, pc[r] # "wait"
  PROVE  nextcnt[phyPrevRank(r)] >= nextcnt[r]
<1>1. Back(r, 1) = phyPrevRank(r) /\ 1 \in 1 .. allCardNum - 1
  BY Consts, BackRanks
<1>2. nextcnt[r] <= nextcnt[Back(r, 1)] + 1 - 1
  BY <1>1 DEF RingInv, PosInv, DistInv
<1> QED
  BY <1>1, <1>2, RankTypes, Neighbours DEF RingInv, CardInv

LEMMA LagStream ==
  ASSUME RingInv, PrevSync, CardInv', NEW r \in Ranks, Stream(r)
  PROVE  LagInv'
<1>0. TypeOK /\ LoopInv /\ StreamType /\ CardInv /\ SyncedInv
  BY DEF RingInv, CardInv, PosInv, TypeOK, StreamType
<1> SUFFICES ASSUME NEW x \in Ranks, NEW q \in Ranks, card_id(q) = Minus(card_id(x), 1)
             PROVE  /\ synced'[q] >= 2 * op'[x] - 3
                    /\ rank_id(x) = 0 /\ Round(x)' >= 1 => synced'[q] >= 2 * op'[x] - 1
  BY DEF LagInv
<1>1. /\ synced[q] >= 2 * op[x] - 3
      /\ rank_id(x) = 0 /\ Round(x) >= 1 => synced[q] >= 2 * op[x] - 1
      /\ op[x] \in Nat /\ op[q] \in Nat /\ synced[q] \in Nat /\ Round(x) \in Nat
  BY <1>0, RankTypes DEF RingInv, PosInv, LagInv
<1>2. synced'[q] >= synced[q] /\ synced'[q] \in Int
  <2>1. synced'[q] = synced[q] \/ synced'[q] = synced[q] + 1
    BY <1>0, OthersStand, BarrierSteps DEF Inside
  <2> QED
    BY <1>1, <2>1
<1>3. CASE x # r
  <2>1. op'[x] = op[x] /\ Round(x)' = Round(x)
    BY <1>0, <1>3, OthersPosition
  <2> QED
    BY <1>1, <1>2, <2>1
<1>4. CASE x = r /\ (Stays(r) \/ Posts1(r))
  BY <1>1, <1>2, <1>4 DEF Stays, Posts1
<1>5. CASE x = r /\ Leaves(r)
  <2> DEFINE z == <<card_id(r), 0>>
  <2>1. z \in Ranks /\ card_id(z) = card_id(r) /\ rank_id(z) = 0 /\ SameCard(r, z)
    BY RankOf, RankParts, Consts DEF SameCard
  <2> HIDE DEF z
  <2>2. pc[r] = "leave2" /\ Together(r) /\ op'[r] = op[r] + 1 /\ Round(r)' = 0 /\ op[r] <= NumOps
    BY <1>5 DEF Leaves, LeaveCardAgain
  <2>3. /\ synced[q] >= 2 * op[z] - 3
        /\ Round(z) >= 1 => synced[q] >= 2 * op[z] - 1
    BY <1>5, <2>1 DEF RingInv, PosInv, LagInv
  <2>4. synced[q] >= 2 * op[r] - 1
    <3>1. CASE op[z] = op[r] /\ pc[z] = "leave2"
      <4>1. Round(z) = Rounds(op[z], 0)
        BY <1>0, <2>1, <3>1 DEF LoopInv, Closing
      <4>2. op[z] \in 1 .. NumOps
        BY <1>0, <2>1, <2>2, <3>1, RankTypes
      <4>3. Nth(z, 0) = 0 /\ chunks[op[z]] >= 1 /\ chunks[op[z]] \in Nat
        BY <1>0, <2>1, <4>2, NthRound, ChunkType
      <4>4. /\ Rounds(op[z], 0) \in Nat
            /\ Nth(z, 0) >= chunks[op[z]] <=> 0 >= Rounds(op[z], 0)
        BY <1>0, <2>1, <4>2, RoundsTest
      <4>5. Round(z) >= 1
        BY <4>1, <4>3, <4>4
      <4> QED
        BY <2>3, <3>1, <4>5
    <3>2. CASE op[z] = op[r] + 1
      BY <1>1, <1>5, <2>3, <3>2
    <3> QED
      BY <1>0, <2>1, <2>2, <3>1, <3>2, AllDone
  <2> QED
    BY <1>1, <1>2, <1>5, <2>2, <2>4
<1>6. CASE x = r /\ Moves(r)
  <2>1. pc[r] = "move" /\ op'[r] = op[r] /\ Posted(r) = Posts
    BY <1>6 DEF Moves
  <2> DEFINE p == phyPrevRank(r)
  <2>2. /\ p \in Ranks /\ phyNextRank(p) = r /\ rank_id(p) = rank_id(r)
        /\ card_id(p) = card_id(q) /\ SameCard(p, q)
    BY <1>6, Neighbours, RingInverse DEF SameCard
  <2> HIDE DEF p
  <2>3. nextcnt[p] >= nextcnt[r]
    BY <2>1, PrevHasPosted DEF p
  <2>4. op[r] \in 1 .. NumOps
    <3>1. op[r] # NumOps + 1
      BY <2>1, <1>0 DEF CardInv, OpInv
    <3> QED
      BY <1>0, <3>1, RankTypes, Consts
  <2>5. nextcnt[r] > Base(r)
    <3>1. nextcnt[r] = Base(r) + Posted(r) + Round(r) * Posts /\ Round(r) * Posts >= 0
      BY <1>0, <2>4, PostsOfCall
    <3>2. Posts \in Nat /\ Posts > 0 /\ Base(r) \in Int /\ Round(r) * Posts \in Int
      BY <1>0, RankTypes, MulSucc
    <3> QED
      BY <2>1, <3>1, <3>2
  <2>6. op[p] \in 1 .. NumOps + 1 /\ nextcnt[p] \in Nat /\ nextcnt[r] \in Nat
        /\ Base(p) \in Int /\ Base(r) \in Int
    BY <1>0, <2>2, RankTypes
  <2>7. op[r] <= op[p] + 1
    BY <2>2, CallsApart
  <2>8. synced[q] >= Left(p)
    BY <1>0, <2>2 DEF CardInv, BarrierInv
  <2>9. CASE op[r] = op[p] + 1
    <3>1. op[p] \in 1 .. NumOps
      BY <2>4, <2>6, <2>9, Consts
    <3>2. Base(r) = Base(p) + Rounds(op[p], rank_id(p)) * Posts
      BY <2>2, <2>9 DEF RingInv, PosInv, AlignInv
    <3>3. /\ nextcnt[p] = Base(p) + Posted(p) + Round(p) * Posts
          /\ Posted(p) + Round(p) * Posts <= Rounds(op[p], rank_id(p)) * Posts
          /\ Rounds(op[p], rank_id(p)) * Posts \in Int
      BY <1>0, <2>2, <3>1, PostsOfCall
    <3>4. Posted(p) \in Nat /\ Round(p) * Posts \in Int
      BY <1>0, <2>2, RankTypes, MulSucc
    <3> QED
      BY <2>3, <2>5, <2>6, <3>2, <3>3, <3>4
  <2>10. CASE op[r] = op[p]
    <3>1. Base(p) = Base(r)
      BY <2>2, <2>10 DEF RingInv, PosInv, AlignInv
    <3>2. /\ nextcnt[p] = Base(p) + Posted(p) + Round(p) * Posts
          /\ pc[p] \in Opening \cup Awaiting => Posted(p) + Round(p) * Posts = 0
      BY <1>0, <2>2, <2>4, <2>10, PostsOfCall
    <3>3. Posted(p) \in Nat /\ Round(p) * Posts \in Int
      BY <1>0, <2>2, RankTypes, MulSucc
    <3>4. pc[p] \notin {"enter", "leave"}
      BY <2>3, <2>5, <2>6, <3>1, <3>2, <3>3 DEF Opening
    <3>5. Left(p) = 2 * (op[p] - 1) + 1
      BY <3>4 DEF Left
    <3> QED
      BY <1>1, <1>2, <1>6, <2>1, <2>6, <2>8, <2>10, <3>5
  <2>11. CASE op[r] < op[p]
    <3>1. Left(p) >= 2 * (op[p] - 1)
      BY <2>6 DEF Left
    <3>2. Left(p) \in Int
      BY <2>6 DEF Left
    <3> QED
      BY <1>1, <1>2, <1>6, <2>1, <2>6, <2>8, <2>11, <3>1, <3>2
  <2> QED
    BY <2>4, <2>6, <2>7, <2>9, <2>10, <2>11
<1> QED
  BY <1>0, <1>3, <1>4, <1>5, <1>6, PositionSteps

-----------------------------------------------------------------------------
(* The positions in every reachable state.                                 *)

LEMMA RingInit == Init => RingInv
<1> SUFFICES ASSUME Init PROVE RingInv
  OBVIOUS
<1>1. \A r \in Ranks :
        /\ op[r] = 1 /\ pc[r] = "enter" /\ synced[r] = 0 /\ prevcnt[r] = 0 /\ nextcnt[r] = 0
        /\ prevflag[r] = 0 /\ nextflag[r] = 0 /\ Round(r) = 0 /\ Posted(r) = 0
        /\ phyPrevRank(r) \in Ranks /\ phyNextRank(r) \in Ranks
  BY Neighbours DEF Init, Round, Posted, Begun, Opening
<1>2. LoopInv
  BY <1>1 DEF LoopInv, Begun, Opening, InLoop, Turning, Posting, Closing
<1>3. FlagInv /\ SyncInv
  BY <1>1 DEF FlagInv, SyncInv, Opening
<1>4. DistInv
  BY <1>1, BackRanks DEF DistInv
<1>5. \A r \in Ranks : Base(r) = 0
  <2>1. 0 * Posts = 0
    BY Consts DEF Posts
  <2> QED
    BY <1>1, <2>1 DEF Base
<1>6. AlignInv
  BY <1>1, <1>5 DEF AlignInv
<1>7. LagInv
  BY <1>1 DEF LagInv
<1> QED
  BY <1>2, <1>3, <1>4, <1>6, <1>7, CardInit DEF RingInv, PosInv

LEMMA RingNext == PrevSync /\ RingInv /\ [Next]_vars => RingInv'
<1> SUFFICES ASSUME PrevSync, RingInv, [Next]_vars PROVE RingInv'
  OBVIOUS
<1>0. CardInv'
  BY CardNext DEF RingInv
<1>1. CASE UNCHANGED vars
  BY <1>0, <1>1 DEF vars, RingInv, PosInv, LoopInv, FlagInv, SyncInv, DistInv, AlignInv, LagInv,
     Begun, Round, Posted, Base, Rounds, Nth, Back
<1>2. ASSUME NEW r \in Ranks, Stream(r) PROVE RingInv'
  <2>1. LoopInv' /\ FlagInv'
    BY <1>0, <1>2, LoopStream, FlagStream DEF RingInv, PosInv, CardInv
  <2>2. SyncInv' /\ DistInv'
    BY <1>0, <1>2, <2>1, SyncStream, DistStream DEF RingInv, PosInv, CardInv
  <2>3. AlignInv' /\ LagInv'
    BY <1>0, <1>2, AlignStream, LagStream DEF RingInv, PosInv, CardInv
  <2> QED
    BY <1>0, <2>1, <2>2, <2>3 DEF RingInv, PosInv
<1> QED
  BY <1>1, <1>2 DEF Next, Finished

-----------------------------------------------------------------------------
(* What arrives when.                                                      *)

LEMMA ArrivalBounds ==
  ASSUME RingInv, NEW r \in Ranks
  PROVE  /\ Arrivals(r) \in Int
         /\ Arrivals(r) <= allCardNum - 1 + Posted(r)
         /\ pc[phyPrevRank(r)] # "wait" => Arrivals(r) <= allCardNum - 2 + Posted(r)
         /\ pc[r] # "wait" => Arrivals(r) >= Posted(r)
         /\ Arrivals(r) >= 0
         /\ Calculated(r) \in Nat /\ Calculated(r) <= Arrivals(r) /\ Calculated(r) <= allCardNum - 1
<1> DEFINE p == phyPrevRank(r)
<1>0. /\ p \in Ranks /\ phyNextRank(p) = r /\ allCardNum \in Nat /\ allCardNum >= 2
      /\ nextcnt[r] \in Nat /\ nextcnt[p] \in Nat /\ Posted(r) \in Nat /\ i[r] \in Nat
  BY Neighbours, RingInverse, RankTypes, Consts DEF RingInv, CardInv
<1>1. Back(r, 1) = p /\ Back(p, allCardNum - 1) = r
      /\ 1 \in 1 .. allCardNum - 1 /\ allCardNum - 1 \in 1 .. allCardNum - 1
  BY <1>0, BackRanks
<1>2. /\ nextcnt[r] <= nextcnt[p] + 1 - (IF pc[r] = "wait" THEN 0 ELSE 1)
      /\ nextcnt[p] <= nextcnt[r] + (allCardNum - 1) - (IF pc[p] = "wait" THEN 0 ELSE 1)
  BY <1>0, <1>1 DEF RingInv, PosInv, DistInv
<1>3. Arrivals(r) = nextcnt[p] - nextcnt[r] + Posted(r)
  BY DEF Arrivals
<1> HIDE DEF p
<1>4. pc[r] = "wait" => Posted(r) = i[r] + 1
  BY DEF Posted
<1>5. /\ Arrivals(r) \in Int
      /\ Arrivals(r) <= allCardNum - 1 + Posted(r)
      /\ pc[p] # "wait" => Arrivals(r) <= allCardNum - 2 + Posted(r)
      /\ pc[r] # "wait" => Arrivals(r) >= Posted(r)
      /\ Arrivals(r) >= 0
  BY <1>0, <1>2, <1>3, <1>4
<1>6. Calculated(r) \in Nat /\ Calculated(r) <= allCardNum - 1 /\ Calculated(r) <= i[r]
      /\ (pc[r] \notin Posting => Calculated(r) = 0)
  BY <1>0 DEF Calculated
<1>7. pc[r] \in Posting => Arrivals(r) >= i[r]
  <2>1. CASE pc[r] = "wait"
    BY <1>0, <1>2, <1>3, <1>4, <2>1
  <2>2. CASE pc[r] # "wait"
    BY <1>0, <1>5, <2>2 DEF Posting, Posted
  <2> QED
    BY <2>1, <2>2
<1> QED
  BY <1>0, <1>5, <1>6, <1>7 DEF p

LEMMA OpBound ==
  ASSUME RingInv, NEW r \in Ranks, pc[r] # "enter"
  PROVE  op[r] \in 1 .. NumOps
<1>1. op[r] # NumOps + 1
  BY DEF RingInv, CardInv, OpInv
<1> QED
  BY <1>1, RankTypes, Consts DEF RingInv, CardInv

\* A post belongs to the call the next rank is in, and to its round or the
\* one after.
LEMMA NextPost ==
  ASSUME RingInv, NEW r \in Ranks, NEW p \in Ranks, p = phyPrevRank(r), pc[p] = "post"
  PROVE  /\ op[p] = op[r] /\ pc[r] \in Awaiting \cup InLoop
         /\ \/ Round(p) = Round(r) /\ Arrivals(r) = i[p]
            \/ Round(p) = Round(r) + 1 /\ Arrivals(r) = Posts + i[p] /\ i[p] <= allCardNum - 2
<1>0. /\ phyNextRank(p) = r /\ rank_id(p) = rank_id(r)
      /\ TypeOK /\ LoopInv /\ allCardNum \in Nat /\ allCardNum >= 2 /\ Posts = 2 * (allCardNum - 1)
  BY RingInverse, Neighbours, Consts DEF RingInv, CardInv, PosInv, Posts
<1>1. /\ op[p] \in Nat /\ op[r] \in Nat /\ nextcnt[p] \in Nat /\ nextcnt[r] \in Nat
      /\ Posted(p) \in Nat /\ Posted(r) \in Nat /\ Base(p) \in Int /\ Base(r) \in Int
      /\ Round(p) \in Nat /\ Round(r) \in Nat /\ Posts \in Nat /\ pc[r] \in Commands
      /\ i[p] \in Nat /\ prevcnt[r] \in Nat /\ i[r] \in Nat
  BY <1>0, RankTypes
<1>2. Posted(p) = i[p] /\ i[p] < Posts /\ Round(p) < Rounds(op[p], rank_id(p))
  BY <1>0 DEF LoopInv, Posted, InLoop, Posting
<1>3. op[p] \in 1 .. NumOps
  BY OpBound
<1>4. /\ nextcnt[p] = Base(p) + Posted(p) + Round(p) * Posts
      /\ Round(p) * Posts \in Int /\ Round(r) * Posts \in Int
      /\ nextcnt[r] = Base(r) + Posted(r) + Round(r) * Posts /\ Round(r) * Posts >= 0
  <2>1. Round(p) * Posts \in Nat /\ Round(r) * Posts \in Nat
    BY <1>1, MulSucc
  <2>2. /\ Base(p) = nextcnt[p] - Posted(p) - Round(p) * Posts
        /\ Base(r) = nextcnt[r] - Posted(r) - Round(r) * Posts
    BY DEF Base
  <2> HIDE DEF Base
  <2>3. nextcnt[p] = Base(p) + Posted(p) + Round(p) * Posts
    BY <1>1, <2>1, <2>2
  <2>4. nextcnt[r] = Base(r) + Posted(r) + Round(r) * Posts
    BY <1>1, <2>1, <2>2
  <2> QED
    BY <2>1, <2>3, <2>4
<1>5. prevcnt[r] >= op[p] /\ prevcnt[r] = op[r] - (IF pc[r] \in Opening THEN 1 ELSE 0)
  <2>1. prevcnt[phyNextRank(p)] >= op[p] - (IF pc[p] \in Opening \cup {"prevwait"} THEN 1 ELSE 0)
    BY DEF RingInv, PosInv, SyncInv
  <2>2. prevcnt[r] >= op[p]
    BY <1>0, <1>1, <2>1 DEF Opening
  <2>3. prevcnt[r] = op[r] - (IF pc[r] \in Opening THEN 1 ELSE 0)
    BY DEF RingInv, PosInv, FlagInv
  <2> QED
    BY <2>2, <2>3
<1>6. /\ Arrivals(r) \in Int /\ Arrivals(r) >= 0
      /\ Arrivals(r) <= allCardNum - 2 + Posted(r)
      /\ Arrivals(r) = nextcnt[p] - nextcnt[r] + Posted(r)
  BY ArrivalBounds DEF Arrivals
<1>7. op[p] = op[r]
  <2> SUFFICES ASSUME op[p] # op[r] PROVE FALSE
    OBVIOUS
  <2>1. op[r] = op[p] + 1
    BY <1>0, <1>1, <1>5, CallsApart
  <2> DEFINE M == Rounds(op[p], rank_id(p))
  <2>2. Base(r) = Base(p) + M * Posts
    BY <1>0, <2>1 DEF RingInv, PosInv, AlignInv
  <2>3. M \in Nat /\ M * Posts \in Int
    BY <1>0, <1>1, <1>3, RoundsTest, MulSucc
  <2>4. Round(p) * Posts + Posts <= M * Posts
    BY <1>1, <1>2, <2>3, MulMono
  <2> HIDE DEF M
  <2>5. nextcnt[p] < Base(r)
    BY <1>1, <1>2, <1>4, <2>2, <2>3, <2>4
  <2> QED
    BY <1>1, <1>4, <1>6, <2>5
<1>8. Base(p) = Base(r)
  BY <1>0, <1>7 DEF RingInv, PosInv, AlignInv
<1>9. Arrivals(r) = i[p] + Round(p) * Posts - Round(r) * Posts
  BY <1>1, <1>2, <1>4, <1>6, <1>8
<1>10. Posted(r) <= Posts
  <2>1. /\ pc[r] \in {"post", "wait"} => i[r] < Posts
        /\ pc[r] = "calc" => i[r] < allCardNum - 1
        /\ pc[r] = "move" => i[r] = Posts
    BY <1>0 DEF LoopInv
  <2> QED
    BY <1>0, <1>1, <2>1 DEF Posted
<1>11. Round(p) >= Round(r)
  <2>1. Round(p) < Round(r) => Round(p) * Posts + Posts <= Round(r) * Posts
    BY <1>1, MulMono
  <2> QED
    BY <1>1, <1>2, <1>4, <1>6, <1>9, <2>1
<1>12. Round(p) <= Round(r) + 1
  <2>1. (Round(r) + 1) * Posts = Round(r) * Posts + Posts
    BY <1>1, MulSucc
  <2>2. Round(r) + 1 < Round(p) => (Round(r) + 1) * Posts + Posts <= Round(p) * Posts
    BY <1>1, MulMono
  <2> QED
    BY <1>0, <1>1, <1>4, <1>6, <1>9, <1>10, <2>1, <2>2
<1>13. pc[r] \in Awaiting \cup InLoop
  <2>1. pc[r] \notin Opening
    BY <1>1, <1>5, <1>7
  <2>2. pc[r] \notin Closing
    <3>1. pc[r] \in Closing => Round(r) = Rounds(op[r], rank_id(r))
      BY <1>0 DEF LoopInv
    <3> QED
      BY <1>0, <1>1, <1>2, <1>7, <1>11, <3>1
  <2> QED
    BY <1>1, <2>1, <2>2 DEF Commands
<1>14. CASE Round(p) = Round(r)
  BY <1>1, <1>4, <1>7, <1>9, <1>13, <1>14
<1>15. CASE Round(p) = Round(r) + 1
  <2>1. Round(p) * Posts = Round(r) * Posts + Posts
    BY <1>1, <1>15, MulSucc
  <2>2. Arrivals(r) = Posts + i[p]
    <3> DEFINE X == Round(p) * Posts
               Y == Round(r) * Posts
    <3>1. Arrivals(r) = i[p] + X - Y
      BY <1>9
    <3>2. X = Y + Posts
      BY <2>1
    <3>3. X \in Int /\ Y \in Int
      BY <1>4
    <3>4. Posts \in Int /\ i[p] \in Int
      BY <1>1
    <3> HIDE DEF X, Y
    <3> QED
      BY <3>1, <3>2, <3>3, <3>4
  <2>3. i[p] <= allCardNum - 2
    BY <1>0, <1>1, <1>6, <1>10, <2>2
  <2> QED
    BY <1>7, <1>13, <1>15, <2>2, <2>3
<1> QED
  BY <1>1, <1>11, <1>12, <1>14, <1>15

\* A rank that opens a call has not yet got a post of it.
LEMMA NoArrivals ==
  ASSUME RingInv, NEW r \in Ranks, pc[r] = "prevflag"
  PROVE  Arrivals(r) <= 0
<1> DEFINE p == phyPrevRank(r)
<1>0. /\ p \in Ranks /\ phyNextRank(p) = r /\ rank_id(p) = rank_id(r)
      /\ TypeOK /\ LoopInv
  BY RingInverse, Neighbours DEF RingInv, CardInv, PosInv
<1>1. /\ op[p] \in Nat /\ op[r] \in Nat /\ nextcnt[p] \in Nat /\ nextcnt[r] \in Nat
      /\ Posted(p) \in Nat /\ Base(p) \in Int /\ Base(r) \in Int
      /\ Round(p) \in Nat /\ Posts \in Nat /\ Round(p) * Posts \in Int
  BY <1>0, RankTypes, MulSucc
<1>2. Posted(r) = 0 /\ Arrivals(r) = nextcnt[p] - nextcnt[r]
  BY <1>1 DEF Posted, Arrivals
<1>3. op[r] \in 1 .. NumOps
  BY OpBound
<1>4. nextcnt[r] = Base(r)
  <2>1. pc[r] \in Opening
    BY DEF Opening
  <2>2. /\ nextcnt[r] = Base(r) + Posted(r) + Round(r) * Posts
        /\ Posted(r) + Round(r) * Posts = 0
    BY <1>0, <1>3, <2>1, PostsOfCall
  <2>3. Round(r) * Posts \in Int
    BY <1>0, RankTypes, MulSucc
  <2> QED
    BY <1>1, <1>2, <2>2, <2>3
<1>5. /\ prevcnt[r] = op[r] - 1
      /\ prevcnt[r] >= op[p] - (IF pc[p] \in Opening \cup {"prevwait"} THEN 1 ELSE 0)
  BY <1>0 DEF RingInv, PosInv, SyncInv, FlagInv, Opening
<1>6. op[r] <= op[p] + 1
  BY <1>0, CallsApart
<1> HIDE DEF p
<1>7. CASE op[r] = op[p]
  <2>1. pc[p] \in Opening \cup Awaiting
    BY <1>1, <1>5, <1>7 DEF Awaiting
  <2>2. Base(p) = Base(r)
    BY <1>0, <1>7 DEF RingInv, PosInv, AlignInv
  <2>3. nextcnt[p] = Base(p) + Posted(p) + Round(p) * Posts /\ Posted(p) + Round(p) * Posts = 0
    BY <1>0, <1>3, <1>7, <2>1, PostsOfCall
  <2> QED
    BY <1>1, <1>2, <1>4, <2>2, <2>3
<1>8. CASE op[r] = op[p] + 1
  <2>1. op[p] \in 1 .. NumOps
    BY <1>0, <1>1, <1>3, <1>8, RankTypes, Consts
  <2>2. Base(r) = Base(p) + Rounds(op[p], rank_id(p)) * Posts
    BY <1>0, <1>8 DEF RingInv, PosInv, AlignInv
  <2>3. /\ nextcnt[p] = Base(p) + Posted(p) + Round(p) * Posts
        /\ Posted(p) + Round(p) * Posts <= Rounds(op[p], rank_id(p)) * Posts
        /\ Rounds(op[p], rank_id(p)) * Posts \in Int
    BY <1>0, <2>1, PostsOfCall
  <2> QED
    BY <1>1, <1>2, <1>4, <2>2, <2>3
<1>9. op[r] = op[p] \/ op[r] = op[p] + 1
  BY <1>1, <1>5, <1>6
<1> QED
  BY <1>7, <1>8, <1>9

-----------------------------------------------------------------------------
(* What is sent and added.                                                 *)

LEMMA BufferTypes ==
  ASSUME TypeOK, NEW r \in Ranks, NEW h \in Halves, NEW s \in Slices
  PROVE  outBuff[r][h][s] \in Parts /\ inBuff[r][h][s] \in Parts
BY DEF TypeOK, Buffers

LEMMA RoundHalf ==
  ASSUME RingInv, NEW r \in Ranks, Begun(r)
  PROVE  Half(chunk[r]) = Round(r) % 2 /\ chunk[r] = Nth(r, Round(r))
BY DEF Half, Round, RingInv, PosInv, LoopInv

LEMMA PostBounds ==
  ASSUME RingInv, NEW r \in Ranks
  PROVE  /\ pc[r] \in {"post", "wait"} => i[r] < Posts
         /\ pc[r] = "calc" => i[r] < allCardNum - 1
         /\ pc[r] = "move" => i[r] = Posts
BY DEF RingInv, PosInv, LoopInv

\* The i-th post carries the sum of i + 1 cards, from allCardNum - 1 on of all.
Sent(p) == IF i[p] < allCardNum THEN Arc(card_id(p), 0, i[p]) ELSE Cards

LEMMA SentPart ==
  ASSUME RingInv, InInv, OutInv, NEW p \in Ranks, pc[p] = "post"
  PROVE  (IF i[p] = 0 THEN inBuff[p][Round(p) % 2][sslice(p, i[p])]
                      ELSE outBuff[p][Round(p) % 2][sslice(p, i[p])])
           = Part(op[p], Nth(p, Round(p)), Sent(p))
<1> DEFINE c == card_id(p)
<1>0. /\ allCardNum \in Nat /\ allCardNum >= 2 /\ Posts = 2 * (allCardNum - 1)
      /\ i[p] \in Nat /\ i[p] < Posts /\ c \in Cards
      /\ sslice(p, i[p]) = Minus(c, i[p]) /\ sslice(p, i[p]) \in Slices
  BY Consts, RankTypes, RankParts, PostBounds, SliceTypes DEF RingInv, CardInv, Posts, sslice
<1>1. CASE i[p] = 0
  <2>1. Arc(c, 0, 0) = {c}
    <3>1. Minus(c, 0) = c
      BY <1>0, MinusSteps
    <3> QED
      BY <3>1 DEF Arc
  <2>2. inBuff[p][Round(p) % 2][sslice(p, i[p])] = Part(op[p], Nth(p, Round(p)), {c})
    BY <1>0 DEF InInv, Posting
  <2> QED
    BY <1>0, <1>1, <2>1, <2>2 DEF Sent
<1>2. CASE i[p] # 0
  <2>1. ThisHalf(p)
    BY DEF OutInv, InLoop, Posting
  <2>2. /\ Arrivals(p) \in Int /\ Arrivals(p) >= i[p] /\ Arrivals(p) <= allCardNum - 1 + i[p]
        /\ Calculated(p) = IF i[p] < allCardNum THEN i[p] ELSE allCardNum - 1
    BY ArrivalBounds DEF Posted, Calculated, Posting
  <2>3. CASE i[p] <= allCardNum
    <3> DEFINE k == i[p] - 1
    <3>1. k \in 0 .. allCardNum - 1 /\ Arrivals(p) > k /\ ~(Arrivals(p) > k + allCardNum) /\ k + 1 = i[p]
      BY <1>0, <1>2, <2>2, <2>3
    <3>2. outBuff[p][Round(p) % 2][Minus(c, i[p])] = Part(op[p], Nth(p, Round(p)), Gathered(p, k))
      BY <2>1, <3>1 DEF ThisHalf
    <3>3. Gathered(p, k) = Arc(c, IF k < Calculated(p) THEN 0 ELSE 1, i[p])
      BY <3>1 DEF Gathered
    <3>4. Gathered(p, k) = Sent(p)
      <4>1. CASE i[p] < allCardNum
        BY <1>0, <2>2, <3>1, <3>3, <4>1 DEF Sent
      <4>2. CASE i[p] = allCardNum
        <5>1. ~(k < Calculated(p))
          BY <1>0, <2>2, <3>1, <4>2
        <5> QED
          BY <1>0, <3>3, <4>2, <5>1, ArcFull DEF Sent
      <4> QED
        BY <1>0, <2>3, <4>1, <4>2
    <3> QED
      BY <1>0, <1>2, <3>2, <3>4
  <2>4. CASE i[p] > allCardNum
    <3> DEFINE k == i[p] - 1 - allCardNum
    <3>1. /\ k \in 0 .. allCardNum - 1 /\ Arrivals(p) > k /\ Arrivals(p) > k + allCardNum
          /\ k + allCardNum < Posts
          /\ k + 1 \in 0 .. allCardNum /\ (k + 1) + allCardNum = i[p]
      BY <1>0, <2>2, <2>4
    <3>2. outBuff[p][Round(p) % 2][Minus(c, k + 1)] = Part(op[p], Nth(p, Round(p)), Gathered(p, k))
      BY <2>1, <3>1 DEF ThisHalf
    <3>3. Minus(c, k + 1) = Minus(c, i[p])
      BY <1>0, <3>1, MinusSteps
    <3>4. Gathered(p, k) = Cards
      BY <3>1 DEF Gathered
    <3>5. Sent(p) = Cards
      BY <1>0, <2>4 DEF Sent
    <3> QED
      BY <1>0, <1>2, <3>2, <3>3, <3>4, <3>5
  <2> QED
    BY <1>0, <2>3, <2>4
<1> QED
  BY <1>1, <1>2

\* Seen from the receiver.
LEMMA SentNext ==
  ASSUME RingInv, NEW r \in Ranks, NEW p \in Ranks, p = phyPrevRank(r), pc[p] = "post"
  PROVE  /\ \A m \in Nat : Nth(p, m) = Nth(r, m)
         /\ i[p] < allCardNum =>
              sslice(p, i[p]) = Minus(card_id(r), i[p] + 1) /\ Sent(p) = Arc(card_id(r), 1, i[p] + 1)
         /\ i[p] >= allCardNum =>
              sslice(p, i[p]) = Minus(card_id(r), (i[p] - allCardNum) + 1) /\ Sent(p) = Cards
<1> DEFINE c == card_id(r)
<1>0. /\ allCardNum \in Nat /\ allCardNum >= 2 /\ Posts = 2 * (allCardNum - 1)
      /\ i[p] \in Nat /\ i[p] < Posts /\ c \in Cards /\ card_id(p) = Minus(c, 1)
      /\ rank_id(p) = rank_id(r)
      /\ sslice(p, i[p]) = Minus(Minus(c, 1), i[p])
  BY Consts, RankTypes, RankParts, PostBounds, Neighbours DEF RingInv, CardInv, Posts, sslice
<1>1. \A m \in Nat : Nth(p, m) = Nth(r, m)
  BY <1>0 DEF Nth
<1>2. sslice(p, i[p]) = Minus(c, i[p] + 1)
  <2>1. i[p] \in 0 .. 2 * allCardNum - 1
    BY <1>0
  <2> QED
    BY <1>0, <2>1, MinusSteps
<1>3. i[p] < allCardNum => Sent(p) = Arc(c, 1, i[p] + 1)
  <2>1. i[p] < 2 * allCardNum /\ 0 \in Nat /\ 0 + 1 = 1
    BY <1>0
  <2>2. Arc(Minus(c, 1), 0, i[p]) = Arc(c, 1, i[p] + 1)
    BY <1>0, <2>1, ArcShift
  <2> QED
    BY <1>0, <2>2 DEF Sent
<1>4. i[p] >= allCardNum => sslice(p, i[p]) = Minus(c, (i[p] - allCardNum) + 1) /\ Sent(p) = Cards
  <2> SUFFICES ASSUME i[p] >= allCardNum
               PROVE  sslice(p, i[p]) = Minus(c, (i[p] - allCardNum) + 1) /\ Sent(p) = Cards
    OBVIOUS
  <2>1. (i[p] - allCardNum) + 1 \in 0 .. allCardNum /\ ((i[p] - allCardNum) + 1) + allCardNum = i[p] + 1
    BY <1>0
  <2>2. Minus(c, ((i[p] - allCardNum) + 1) + allCardNum) = Minus(c, (i[p] - allCardNum) + 1)
    BY <1>0, <2>1, MinusSteps
  <2>3. ~(i[p] < allCardNum)
    BY <1>0
  <2> QED
    BY <1>2, <2>1, <2>2, <2>3 DEF Sent
<1> QED
  BY <1>1, <1>2, <1>3, <1>4

\* The sum of what a rank has and what has arrived.
LEMMA SumPart ==
  ASSUME RingInv, InInv, OutInv, NEW r \in Ranks, pc[r] = "calc"
  PROVE  /\ i[r] \in 0 .. allCardNum - 2 /\ rslice(r, i[r]) = Minus(card_id(r), i[r] + 1)
         /\ Add(inBuff[r][Round(r) % 2][rslice(r, i[r])], outBuff[r][Round(r) % 2][rslice(r, i[r])])
              = Part(op[r], Nth(r, Round(r)), Arc(card_id(r), 0, i[r] + 1))
<1> DEFINE c == card_id(r)
           k == i[r]
<1>0. /\ allCardNum \in Nat /\ allCardNum >= 2
      /\ k \in 0 .. allCardNum - 2 /\ k \in 0 .. allCardNum - 1 /\ c \in Cards
      /\ rslice(r, k) = Minus(c, k + 1) /\ rslice(r, k) \in Slices
  <2>1. i[r] \in Nat /\ i[r] < allCardNum - 1 /\ allCardNum \in Nat /\ allCardNum >= 2
    BY RankTypes, PostBounds, Consts DEF RingInv, CardInv
  <2> QED
    BY <2>1, RankParts, SliceTypes DEF rslice
<1>1. inBuff[r][Round(r) % 2][rslice(r, k)] = Part(op[r], Nth(r, Round(r)), {c})
  BY <1>0 DEF InInv, Posting
<1>2. /\ Arrivals(r) \in Int /\ Arrivals(r) > k /\ Arrivals(r) <= k + allCardNum /\ Calculated(r) = k
  <2>1. Posted(r) = k + 1
    BY DEF Posted
  <2>2. Calculated(r) = k
    BY <1>0 DEF Calculated, Posting
  <2> QED
    BY <1>0, <2>1, <2>2, ArrivalBounds
<1>3. ThisHalf(r)
  BY DEF OutInv, InLoop, Posting
<1>4. outBuff[r][Round(r) % 2][Minus(c, k + 1)] = Part(op[r], Nth(r, Round(r)), Gathered(r, k))
  BY <1>0, <1>2, <1>3 DEF ThisHalf
<1>5. Gathered(r, k) = Arc(c, 1, k + 1)
  BY <1>0, <1>2 DEF Gathered
<1>6. Add(Part(op[r], Nth(r, Round(r)), {c}), Part(op[r], Nth(r, Round(r)), Arc(c, 1, k + 1)))
        = Part(op[r], Nth(r, Round(r)), {c} \cup Arc(c, 1, k + 1))
  <2>1. {c} \cap Arc(c, 1, k + 1) = {}
    BY <1>0, ArcGrow
  <2> QED
    BY <2>1 DEF Add, Part
<1>7. {c} \cup Arc(c, 1, k + 1) = Arc(c, 0, k + 1)
  BY <1>0, ArcGrow
<1> QED
  BY <1>0, <1>1, <1>4, <1>5, <1>6, <1>7

\* When all posts of a round have arrived every slice is the sum of all cards.
LEMMA RoundComplete ==
  ASSUME RingInv, OutInv, NEW r \in Ranks, pc[r] = "move", NEW s \in Slices
  PROVE  outBuff[r][Round(r) % 2][s] = Total(op[r], Nth(r, Round(r)))
<1> DEFINE c == card_id(r)
<1>0. /\ allCardNum \in Nat /\ allCardNum >= 2 /\ Posts = 2 * (allCardNum - 1) /\ c \in Cards
      /\ i[r] = Posts /\ Posted(r) = Posts
  BY Consts, RankParts, PostBounds DEF Posts, Posted
<1>1. Arrivals(r) >= Posts /\ Arrivals(r) \in Int
  BY <1>0, ArrivalBounds
<1>2. Calculated(r) = allCardNum - 1
  BY <1>0 DEF Calculated, Posting
<1>3. PICK l \in 1 .. allCardNum : s = Minus(c, l)
  BY <1>0, MinusOnto DEF Slices
<1> DEFINE k == l - 1
<1>4. k \in 0 .. allCardNum - 1 /\ k + 1 = l
  BY <1>0
<1>5. outBuff[r][Round(r) % 2][s] = Part(op[r], Nth(r, Round(r)), Gathered(r, k))
  <2>1. ThisHalf(r)
    BY DEF OutInv, InLoop, Posting
  <2>2. Arrivals(r) > k
    BY <1>0, <1>1, <1>4
  <2> QED
    BY <1>3, <1>4, <2>1, <2>2 DEF ThisHalf
<1>6. Gathered(r, k) = Cards
  <2>1. CASE k + allCardNum < Posts
    BY <1>0, <1>1, <1>4, <2>1 DEF Gathered
  <2>2. CASE k = allCardNum - 2
    <3>1. Gathered(r, k) = Arc(c, 0, allCardNum - 1)
      BY <1>0, <1>2, <1>4, <2>2 DEF Gathered
    <3> QED
      BY <1>0, <3>1, ArcFull
  <2>3. CASE k = allCardNum - 1
    <3>1. Gathered(r, k) = Arc(c, 1, allCardNum)
      BY <1>0, <1>2, <1>4, <2>3 DEF Gathered
    <3> QED
      BY <1>0, <3>1, ArcFull
  <2> QED
    BY <1>0, <1>4, <2>1, <2>2, <2>3
<1> QED
  BY <1>5, <1>6 DEF Total

-----------------------------------------------------------------------------
(* The buffers.                                                            *)

LEMMA BuffersStand ==
  ASSUME NEW r \in Ranks, Stream(r)
  PROVE  /\ Post(r) \/ Calculate(r) \/ outBuff' = outBuff
         /\ FinishKernel(r) \/ inBuff' = inBuff
         /\ Move(r) \/ recvusr' = recvusr
BY DEF Stream, EnterCard, LeaveCard, SendPrevFlag, WaitPrevFlag, ResetTurn, WaitTurn, StartKernel,
   FinishKernel, Post, Wait, Calculate, Move, EnterCardAgain, LeaveCardAgain, device

\* The parts of a post and of an addition.
LEMMA PostStep ==
  ASSUME RingInv, InInv, OutInv, NEW r \in Ranks, Post(r)
  PROVE  /\ pc[r] = "post"
         /\ outBuff' = [outBuff EXCEPT ![phyNextRank(r)][Round(r) % 2][sslice(r, i[r])] =
                          Part(op[r], Nth(r, Round(r)), Sent(r))]
         /\ Round(r) % 2 \in Halves /\ sslice(r, i[r]) \in Slices
<1>1. pc[r] = "post"
  BY DEF Post, At
<1>2. /\ Half(chunk[r]) = Round(r) % 2 /\ Round(r) \in Nat /\ i[r] \in Nat
  BY <1>1, RoundHalf, RankTypes DEF Begun, Opening, Awaiting, RingInv, CardInv
<1>3. outBuff' = [outBuff EXCEPT ![phyNextRank(r)][Half(chunk[r])][sslice(r, i[r])] =
                    IF i[r] = 0 THEN inBuff[r][Half(chunk[r])][sslice(r, i[r])]
                    ELSE outBuff[r][Half(chunk[r])][sslice(r, i[r])]]
  BY DEF Post
<1>4. (IF i[r] = 0 THEN inBuff[r][Round(r) % 2][sslice(r, i[r])]
                   ELSE outBuff[r][Round(r) % 2][sslice(r, i[r])])
        = Part(op[r], Nth(r, Round(r)), Sent(r))
  BY <1>1, SentPart
<1>5. outBuff' = [outBuff EXCEPT ![phyNextRank(r)][Round(r) % 2][sslice(r, i[r])] =
                    Part(op[r], Nth(r, Round(r)), Sent(r))]
  BY <1>2, <1>3, <1>4
<1> QED
  BY <1>1, <1>2, <1>5, Parity, SliceTypes

LEMMA CalculateStep ==
  ASSUME RingInv, InInv, OutInv, NEW r \in Ranks, Calculate(r)
  PROVE  /\ pc[r] = "calc" /\ pc'[r] = "post" /\ i'[r] = i[r] + 1
         /\ i[r] \in 0 .. allCardNum - 2
         /\ outBuff' = [outBuff EXCEPT ![r][Round(r) % 2][Minus(card_id(r), i[r] + 1)] =
                          Part(op[r], Nth(r, Round(r)), Arc(card_id(r), 0, i[r] + 1))]
         /\ Round(r) % 2 \in Halves
<1>0. StreamType
  BY DEF RingInv, CardInv, TypeOK, StreamType
<1>1. pc[r] = "calc" /\ pc'[r] = "post" /\ i'[r] = i[r] + 1
  BY <1>0 DEF Calculate, At, Goto, StreamType
<1>2. /\ Half(chunk[r]) = Round(r) % 2 /\ Round(r) \in Nat
  BY <1>1, RoundHalf, RankTypes DEF Begun, Opening, Awaiting, RingInv, CardInv
<1>3. outBuff' = [outBuff EXCEPT ![r][Half(chunk[r])][rslice(r, i[r])] =
                    Add(inBuff[r][Half(chunk[r])][rslice(r, i[r])], @)]
  BY DEF Calculate
<1>4. outBuff' = [outBuff EXCEPT ![r][Round(r) % 2][rslice(r, i[r])] =
                    Add(inBuff[r][Round(r) % 2][rslice(r, i[r])],
                        outBuff[r][Round(r) % 2][rslice(r, i[r])])]
  BY <1>2, <1>3
<1> QED
  BY <1>1, <1>2, <1>4, SumPart, Parity

LEMMA InStream ==
  ASSUME RingInv, InInv, PrevSync, NEW r \in Ranks, Stream(r)
  PROVE  InInv'
<1>0. TypeOK /\ LoopInv /\ StreamType /\ CardInv
  BY DEF RingInv, CardInv, PosInv, TypeOK, StreamType
<1> SUFFICES ASSUME NEW q \in Ranks, pc'[q] \in Posting, NEW s \in Slices
             PROVE  inBuff'[q][Round(q)' % 2][s] = Part(op'[q], Nth(q, Round(q)'), {card_id(q)})
  BY DEF InInv, Nth, card_id
<1>1. CASE FinishKernel(r)
  <2>1. /\ pc[r] = "running" /\ op[r] <= NumOps
        /\ inBuff' = [inBuff EXCEPT ![r][Half(chunk[r])] =
             [u \in Slices |-> IF Published(r) THEN Part(op[r], chunk[r], {card_id(r)}) ELSE Garbage]]
    BY <1>1 DEF FinishKernel, At
  <2>2. Published(r)
    BY <1>0, <2>1, SameCall, MiddleTable DEF Published
  <2>3. Half(chunk[r]) = Round(r) % 2 /\ chunk[r] = Nth(r, Round(r)) /\ Round(r) \in Nat
    BY <1>0, <2>1, RoundHalf, RankTypes DEF Begun, Opening, Awaiting
  <2>4. inBuff' = [inBuff EXCEPT ![r][Round(r) % 2] =
             [u \in Slices |-> Part(op[r], Nth(r, Round(r)), {card_id(r)})]]
    BY <2>1, <2>2, <2>3
  <2>5. CASE q = r
    <3>1. op'[r] = op[r] /\ Round(r)' = Round(r)
      BY <1>0, <2>1, PositionSteps DEF Stays, Posts1, Moves, Leaves
    <3> QED
      BY <1>0, <2>3, <2>4, <2>5, <3>1, Parity DEF TypeOK, Buffers
  <2>6. CASE q # r
    <3>1. /\ op'[q] = op[q] /\ Round(q)' = Round(q) /\ pc'[q] = pc[q]
          /\ inBuff'[q] = inBuff[q]
      BY <1>0, <2>4, <2>6, OthersPosition DEF TypeOK, Buffers
    <3> QED
      BY <3>1 DEF InInv
  <2> QED
    BY <2>5, <2>6
<1>2. CASE ~FinishKernel(r)
  <2>1. inBuff' = inBuff
    BY <1>2, BuffersStand
  <2>2. op'[q] = op[q] /\ Round(q)' = Round(q) /\ pc[q] \in Posting
    <3>1. CASE q # r
      BY <1>0, <3>1, OthersPosition
    <3>2. CASE q = r
      <4>1. Post(r) \/ Wait(r) \/ Calculate(r)
        <5> USE <1>0, <1>2, <3>2 DEF Posting, Goto, Loop, StreamType, At
        <5>1. ~EnterCard(r) /\ ~LeaveCard(r) /\ ~SendPrevFlag(r) /\ ~WaitPrevFlag(r)
          BY DEF EnterCard, LeaveCard, SendPrevFlag, WaitPrevFlag
        <5>2. ~ResetTurn(r) /\ ~WaitTurn(r) /\ ~StartKernel(r)
          BY DEF ResetTurn, WaitTurn, StartKernel
        <5>3. ~Move(r) /\ ~EnterCardAgain(r) /\ ~LeaveCardAgain(r)
          BY DEF Move, EnterCardAgain, LeaveCardAgain
        <5> QED
          BY <5>1, <5>2, <5>3 DEF Stream
      <4>2. pc[r] \in {"post", "wait", "calc"}
        BY <4>1 DEF Post, Wait, Calculate, At
      <4> QED
        BY <1>0, <3>2, <4>2, PositionSteps DEF Stays, Posts1, Moves, Leaves, Posting
    <3> QED
      BY <3>1, <3>2
  <2> QED
    BY <2>1, <2>2 DEF InInv
<1> QED
  BY <1>1, <1>2

-----------------------------------------------------------------------------
(* What has arrived stays correct.                                         *)

\* The two halves of a rank that nobody writes to.
LEMMA OutKept ==
  ASSUME NEW q \in Ranks, op'[q] = op[q], Round(q)' = Round(q), Arrivals(q)' = Arrivals(q),
         Calculated(q)' = Calculated(q), outBuff'[q] = outBuff[q], ThisHalf(q), OtherHalf(q)
  PROVE  ThisHalf(q)' /\ OtherHalf(q)'
<1>1. \A k \in 0 .. allCardNum - 1 : Gathered(q, k)' = Gathered(q, k)
  BY DEF Gathered, Arc, card_id, Minus, Posts, Cards
<1>2. ThisHalf(q)'
  <2> SUFFICES ASSUME NEW k \in 0 .. allCardNum - 1, Arrivals(q)' > k
               PROVE  outBuff'[q][Round(q)' % 2][Minus(card_id(q), k + 1)]
                        = Part(op'[q], Nth(q, Round(q)'), Gathered(q, k)')
    BY DEF ThisHalf, Nth, Part
  <2> QED
    BY <1>1 DEF ThisHalf
<1>3. OtherHalf(q)'
  <2> SUFFICES ASSUME NEW k \in 0 .. allCardNum - 2, Arrivals(q)' > Posts + k
               PROVE  outBuff'[q][(Round(q)' + 1) % 2][Minus(card_id(q), k + 1)]
                        = Part(op'[q], Nth(q, Round(q)' + 1), Arc(card_id(q), 1, k + 1))
    BY DEF OtherHalf, Nth, Part
  <2> QED
    BY DEF OtherHalf
<1> QED
  BY <1>2, <1>3

\* The post of the previous rank.
LEMMA OutArrives ==
  ASSUME RingInv, InInv, OutInv, PrevSync, NEW p \in Ranks, Post(p), NEW r \in Ranks,
         r = phyNextRank(p)
  PROVE  ThisHalf(r)' /\ OtherHalf(r)'
<1> DEFINE c == card_id(r)
           n == i[p]
           N == allCardNum
           R == Round(r)
           C == Calculated(r)
<1>0. /\ p = phyPrevRank(r) /\ p # r /\ N \in Nat /\ N >= 2 /\ Posts = 2 * (N - 1) /\ c \in Cards
      /\ TypeOK /\ LoopInv
  BY RingInverse, NeighbourOther, Consts, RankParts DEF Posts, RingInv, CardInv, PosInv
<1>1. /\ pc[p] = "post" /\ Round(p) % 2 \in Halves /\ sslice(p, n) \in Slices
      /\ outBuff' = [outBuff EXCEPT ![r][Round(p) % 2][sslice(p, n)] =
                       Part(op[p], Nth(p, Round(p)), Sent(p))]
  BY PostStep
<1>2. /\ op[p] = op[r] /\ pc[r] \in Awaiting \cup InLoop
      /\ \/ Round(p) = R /\ Arrivals(r) = n
         \/ Round(p) = R + 1 /\ Arrivals(r) = Posts + n /\ n <= N - 2
  BY <1>0, <1>1, NextPost
<1>3. /\ n \in Nat /\ n < Posts /\ R \in Nat /\ Round(p) \in Nat
      /\ C \in Nat /\ C <= Arrivals(r)
  BY <1>0, <1>1, RankTypes, PostBounds, ArrivalBounds
<1>4. /\ op'[r] = op[r] /\ Round(r)' = R /\ Posted(r)' = Posted(r) /\ nextcnt'[r] = nextcnt[r]
      /\ pc'[r] = pc[r] /\ i'[r] = i[r] /\ nextcnt'[p] = nextcnt[p] + 1
  <2>1. Stream(p)
    BY DEF Stream
  <2>2. nextcnt'[p] = nextcnt[p] + 1
    BY <1>0 DEF Post, TypeOK
  <2> QED
    BY <1>0, <2>1, <2>2, OthersPosition
<1>5. Arrivals(r)' = Arrivals(r) + 1
  <2>1. nextcnt[p] \in Nat /\ nextcnt[r] \in Nat /\ Posted(r) \in Nat
    BY <1>0, RankTypes
  <2>2. Arrivals(r) = nextcnt[p] - nextcnt[r] + Posted(r)
    BY <1>0 DEF Arrivals
  <2>3. Arrivals(r)' = nextcnt'[p] - nextcnt'[r] + Posted(r)'
    BY <1>0 DEF Arrivals
  <2> QED
    BY <1>4, <2>1, <2>2, <2>3
<1>6. Calculated(r)' = C
  BY <1>4 DEF Calculated
<1>7. ThisHalf(r) /\ OtherHalf(r)
  BY <1>2 DEF OutInv
<1> DEFINE v == Part(op[r], Nth(r, Round(p)), Sent(p))
           G(k) == IF k + N < Posts /\ Arrivals(r) + 1 > k + N THEN Cards
                   ELSE Arc(c, IF k < C THEN 0 ELSE 1, k + 1)
<1>8. /\ n < N => sslice(p, n) = Minus(c, n + 1) /\ Sent(p) = Arc(c, 1, n + 1)
      /\ n >= N => sslice(p, n) = Minus(c, (n - N) + 1) /\ Sent(p) = Cards
      /\ Nth(p, Round(p)) = Nth(r, Round(p))
  BY <1>0, <1>1, <1>3, SentNext
<1>9. ASSUME NEW h \in Halves, NEW s \in Slices
      PROVE  outBuff'[r][h][s] = IF h = Round(p) % 2 /\ s = sslice(p, n) THEN v ELSE outBuff[r][h][s]
  <2>1. outBuff' = [outBuff EXCEPT ![r][Round(p) % 2][sslice(p, n)] = v]
    BY <1>1, <1>2, <1>8
  <2> DEFINE g == Round(p) % 2
             t == sslice(p, n)
  <2>2. outBuff' = [outBuff EXCEPT ![r][g][t] = v] /\ g \in Halves /\ t \in Slices
    BY <1>1, <2>1
  <2> HIDE DEF v, n, g, t
  <2>3. outBuff'[r][h][s] = IF h = g /\ s = t THEN v ELSE outBuff[r][h][s]
    <3>1. outBuff \in [Ranks -> [Halves -> [Slices -> Parts]]]
      BY <1>0 DEF TypeOK, Buffers
    <3> QED
      BY <2>2, <3>1
  <2> QED
    BY <2>3 DEF g, t
<1>10. ASSUME NEW k \in 0 .. N - 1
       PROVE  /\ Gathered(r, k)' = G(k)
              /\ Minus(c, k + 1) \in Slices
              /\ sslice(p, n) = Minus(c, k + 1) <=> (k = n \/ k + N = n)
  <2>1. Gathered(r, k)' = G(k)
    BY <1>5, <1>6 DEF Gathered, Arc, card_id, Minus, Posts, Cards
  <2>2. Minus(c, k + 1) \in Slices
    BY <1>0, MinusInRing DEF Slices
  <2>3. CASE n < N
    <3>1. k + 1 \in 0 .. N /\ n + 1 \in 0 .. N
      BY <1>0, <1>3, <2>3
    <3>2. Minus(c, n + 1) = Minus(c, k + 1) => n + 1 = k + 1 \/ n + 1 = k + 1 + N \/ k + 1 = n + 1 + N
      BY <1>0, <3>1, MinusInjective
    <3>3. Minus(c, n + 1) = Minus(c, k + 1) <=> k = n
      BY <1>0, <1>3, <2>3, <3>2
    <3> QED
      BY <1>0, <1>3, <1>8, <2>1, <2>2, <2>3, <3>3
  <2>4. CASE n >= N
    <3>1. k + 1 \in 0 .. N /\ (n - N) + 1 \in 0 .. N
      BY <1>0, <1>3, <2>4
    <3>2. Minus(c, (n - N) + 1) = Minus(c, k + 1) =>
            (n - N) + 1 = k + 1 \/ (n - N) + 1 = k + 1 + N \/ k + 1 = (n - N) + 1 + N
      BY <1>0, <3>1, MinusInjective
    <3>3. Minus(c, (n - N) + 1) = Minus(c, k + 1) <=> k + N = n
      BY <1>0, <1>3, <2>4, <3>2
    <3> QED
      BY <1>0, <1>3, <1>8, <2>1, <2>2, <2>4, <3>3
  <2> QED
    BY <1>0, <1>3, <2>3, <2>4
<1> HIDE DEF G
<1>g. ASSUME NEW k \in 0 .. N - 1
      PROVE  /\ k + N < Posts /\ Arrivals(r) + 1 > k + N => G(k) = Cards
             /\ ~(k + N < Posts /\ Arrivals(r) + 1 > k + N) =>
                  G(k) = Arc(c, IF k < C THEN 0 ELSE 1, k + 1)
             /\ ((k + N < Posts /\ Arrivals(r) + 1 > k + N) <=> (k + N < Posts /\ Arrivals(r) > k + N))
                  => G(k) = Gathered(r, k)
  BY DEF G, Gathered
<1>t. (\A k \in 0 .. N - 1 : Arrivals(r) + 1 > k =>
         outBuff'[r][R % 2][Minus(c, k + 1)] = Part(op[r], Nth(r, R), G(k))) => ThisHalf(r)'
  <2> SUFFICES ASSUME \A k \in 0 .. N - 1 : Arrivals(r) + 1 > k =>
                        outBuff'[r][R % 2][Minus(c, k + 1)] = Part(op[r], Nth(r, R), G(k)),
                      NEW k \in 0 .. N - 1, Arrivals(r)' > k
               PROVE  outBuff'[r][Round(r)' % 2][Minus(c, k + 1)]
                        = Part(op'[r], Nth(r, Round(r)'), Gathered(r, k)')
    BY DEF ThisHalf, Nth, Part
  <2> QED
    BY <1>4, <1>5, <1>10
<1>o. (\A k \in 0 .. N - 2 : Arrivals(r) + 1 > Posts + k =>
         outBuff'[r][(R + 1) % 2][Minus(c, k + 1)] = Part(op[r], Nth(r, R + 1), Arc(c, 1, k + 1)))
      => OtherHalf(r)'
  <2> SUFFICES ASSUME \A k \in 0 .. N - 2 : Arrivals(r) + 1 > Posts + k =>
                        outBuff'[r][(R + 1) % 2][Minus(c, k + 1)] = Part(op[r], Nth(r, R + 1), Arc(c, 1, k + 1)),
                      NEW k \in 0 .. N - 2, Arrivals(r)' > Posts + k
               PROVE  outBuff'[r][(Round(r)' + 1) % 2][Minus(c, k + 1)]
                        = Part(op'[r], Nth(r, Round(r)' + 1), Arc(c, 1, k + 1))
    BY DEF OtherHalf, Nth, Part
  <2> QED
    BY <1>4, <1>5
<1>h. R % 2 \in Halves /\ (R + 1) % 2 \in Halves /\ (R + 1) % 2 # R % 2
  BY <1>3, Parity
<1>11. CASE Round(p) = R /\ Arrivals(r) = n
  <2>1. ASSUME NEW k \in 0 .. N - 1, Arrivals(r) + 1 > k
        PROVE  outBuff'[r][R % 2][Minus(c, k + 1)] = Part(op[r], Nth(r, R), G(k))
    <3>1. CASE k = n
      <4>1. n < N /\ ~(Arrivals(r) + 1 > k + N) /\ ~(k < C)
        BY <1>0, <1>3, <1>11, <3>1
      <4>2. G(k) = Arc(c, 1, k + 1)
        BY <1>g, <4>1
      <4> QED
        BY <1>8, <1>9, <1>10, <1>11, <1>h, <3>1, <4>1, <4>2
    <3>2. CASE k + N = n
      <4>1. n >= N /\ k + N < Posts /\ Arrivals(r) + 1 > k + N
        BY <1>0, <1>3, <1>11, <3>2
      <4>2. G(k) = Cards
        BY <1>g, <4>1
      <4> QED
        BY <1>8, <1>9, <1>10, <1>11, <1>h, <3>2, <4>1, <4>2
    <3>3. CASE k # n /\ k + N # n
      <4>1. Arrivals(r) > k /\ (Arrivals(r) + 1 > k + N <=> Arrivals(r) > k + N)
        BY <1>0, <1>3, <1>11, <2>1, <3>3
      <4>2. G(k) = Gathered(r, k)
        BY <1>g, <4>1
      <4>3. outBuff[r][R % 2][Minus(c, k + 1)] = Part(op[r], Nth(r, R), Gathered(r, k))
        BY <1>7, <4>1 DEF ThisHalf
      <4> QED
        BY <1>9, <1>10, <1>h, <3>3, <4>2, <4>3
    <3> QED
      BY <3>1, <3>2, <3>3
  <2>2. ASSUME NEW k \in 0 .. N - 2 PROVE ~(Arrivals(r) + 1 > Posts + k)
    BY <1>0, <1>3, <1>11
  <2> QED
    BY <1>t, <1>o, <2>1, <2>2
<1>12. CASE Round(p) = R + 1 /\ Arrivals(r) = Posts + n /\ n <= N - 2
  <2>1. ASSUME NEW k \in 0 .. N - 1, Arrivals(r) + 1 > k
        PROVE  outBuff'[r][R % 2][Minus(c, k + 1)] = Part(op[r], Nth(r, R), G(k))
    <3>1. Arrivals(r) > k /\ (k + N < Posts => Arrivals(r) + 1 > k + N /\ Arrivals(r) > k + N)
      BY <1>0, <1>3, <1>12
    <3>2. G(k) = Gathered(r, k)
      BY <1>g, <3>1
    <3>3. outBuff[r][R % 2][Minus(c, k + 1)] = Part(op[r], Nth(r, R), Gathered(r, k))
      BY <1>7, <3>1 DEF ThisHalf
    <3> QED
      BY <1>9, <1>10, <1>12, <1>h, <3>2, <3>3
  <2>2. ASSUME NEW k \in 0 .. N - 2, Arrivals(r) + 1 > Posts + k
        PROVE  outBuff'[r][(R + 1) % 2][Minus(c, k + 1)] = Part(op[r], Nth(r, R + 1), Arc(c, 1, k + 1))
    <3>0. k \in 0 .. N - 1 /\ n < N /\ k <= n
      BY <1>0, <1>3, <1>12, <2>2
    <3>1. CASE k = n
      BY <1>8, <1>9, <1>10, <1>12, <1>h, <3>0, <3>1
    <3>2. CASE k # n
      <4>1. Arrivals(r) > Posts + k /\ k + N # n
        BY <1>0, <1>3, <1>12, <3>0, <3>2
      <4>2. outBuff[r][(R + 1) % 2][Minus(c, k + 1)] = Part(op[r], Nth(r, R + 1), Arc(c, 1, k + 1))
        BY <1>7, <4>1 DEF OtherHalf
      <4> QED
        BY <1>9, <1>10, <1>h, <3>0, <3>2, <4>1, <4>2
    <3> QED
      BY <3>1, <3>2
  <2> QED
    BY <1>t, <1>o, <2>1, <2>2
<1> QED
  BY <1>2, <1>11, <1>12

\* The addition of a rank to what has arrived.
LEMMA OutCalculated ==
  ASSUME RingInv, InInv, OutInv, PrevSync, NEW r \in Ranks, Calculate(r)
  PROVE  ThisHalf(r)' /\ OtherHalf(r)'
<1> DEFINE c == card_id(r)
           n == i[r]
           N == allCardNum
           R == Round(r)
           g == R % 2
           t == Minus(c, n + 1)
           v == Part(op[r], Nth(r, R), Arc(c, 0, n + 1))
<1>0. TypeOK /\ LoopInv /\ N \in Nat /\ N >= 2 /\ Posts = 2 * (N - 1) /\ c \in Cards /\ Stream(r)
  BY Consts, RankParts DEF Posts, RingInv, CardInv, PosInv, Stream
<1>1. /\ pc[r] = "calc" /\ pc'[r] = "post" /\ i'[r] = n + 1 /\ n \in 0 .. N - 2
      /\ outBuff' = [outBuff EXCEPT ![r][g][t] = v] /\ g \in Halves
  BY CalculateStep
<1>2. t \in Slices
  BY <1>0, <1>1, MinusInRing DEF Slices
<1>3. /\ op'[r] = op[r] /\ Round(r)' = R /\ Posted(r)' = Posted(r) /\ nextcnt'[r] = nextcnt[r]
      /\ R \in Nat /\ Posted(r) = n + 1 /\ Calculated(r) = n /\ Calculated(r)' = n + 1
  <2>1. op'[r] = op[r] /\ Round(r)' = R /\ Posted(r)' = Posted(r) /\ nextcnt'[r] = nextcnt[r]
    BY <1>0, <1>1, PositionSteps DEF Stays, Posts1, Moves, Leaves
  <2>2. R \in Nat /\ Posted(r) = n + 1
    BY <1>0, <1>1, RankTypes DEF Posted
  <2>3. Calculated(r) = n
    BY <1>0, <1>1 DEF Calculated, Posting
  <2>4. Calculated(r)' = n + 1
    BY <1>0, <1>1 DEF Calculated, Posting
  <2> QED
    BY <2>1, <2>2, <2>3, <2>4
<1>4. Arrivals(r)' = Arrivals(r)
  <2>1. phyPrevRank(r) \in Ranks /\ phyPrevRank(r) # r
    BY NeighbourOther, Neighbours
  <2>2. nextcnt'[phyPrevRank(r)] = nextcnt[phyPrevRank(r)]
    BY <1>0, <2>1, OthersPosition
  <2> QED
    BY <1>3, <2>2 DEF Arrivals
<1>5. /\ ThisHalf(r) /\ OtherHalf(r)
      /\ Arrivals(r) \in Int /\ Arrivals(r) > n /\ Arrivals(r) <= n + N
  BY <1>0, <1>1, <1>3, ArrivalBounds DEF OutInv, InLoop, Posting
<1>h. g \in Halves /\ (R + 1) % 2 \in Halves /\ (R + 1) % 2 # g
  BY <1>3, Parity
<1>9. ASSUME NEW h \in Halves, NEW s \in Slices
      PROVE  outBuff'[r][h][s] = IF h = g /\ s = t THEN v ELSE outBuff[r][h][s]
  <2> HIDE DEF v, g, t
  <2>1. outBuff \in [Ranks -> [Halves -> [Slices -> Parts]]]
    BY <1>0 DEF TypeOK, Buffers
  <2> QED
    BY <1>1, <1>2, <2>1
<1>10. ASSUME NEW k \in 0 .. N - 1
       PROVE  /\ Gathered(r, k)' = IF k + N < Posts /\ Arrivals(r) > k + N THEN Cards
                                   ELSE Arc(c, IF k < n + 1 THEN 0 ELSE 1, k + 1)
              /\ Minus(c, k + 1) \in Slices
              /\ t = Minus(c, k + 1) <=> k = n
  <2>1. Gathered(r, k)' = IF k + N < Posts /\ Arrivals(r) > k + N THEN Cards
                          ELSE Arc(c, IF k < n + 1 THEN 0 ELSE 1, k + 1)
    BY <1>3, <1>4 DEF Gathered, Arc, card_id, Minus, Posts, Cards
  <2>2. Minus(c, k + 1) \in Slices
    BY <1>0, MinusInRing DEF Slices
  <2>3. k + 1 \in 0 .. N /\ n + 1 \in 0 .. N
    BY <1>0, <1>1
  <2>4. Minus(c, n + 1) = Minus(c, k + 1) => n + 1 = k + 1 \/ n + 1 = k + 1 + N \/ k + 1 = n + 1 + N
    BY <1>0, <2>3, MinusInjective
  <2> QED
    BY <1>0, <1>1, <2>1, <2>2, <2>4
<1>11. ThisHalf(r)'
  <2> SUFFICES ASSUME NEW k \in 0 .. N - 1, Arrivals(r)' > k
               PROVE  outBuff'[r][Round(r)' % 2][Minus(c, k + 1)]
                        = Part(op'[r], Nth(r, Round(r)'), Gathered(r, k)')
    BY DEF ThisHalf, Nth, Part
  <2>1. CASE k = n
    <3>1. Gathered(r, k)' = Arc(c, 0, k + 1)
      BY <1>0, <1>1, <1>5, <1>10, <2>1
    <3> QED
      BY <1>3, <1>9, <1>10, <1>h, <2>1, <3>1
  <2>2. CASE k # n
    <3>1. Gathered(r, k)' = Gathered(r, k)
      BY <1>0, <1>1, <1>3, <1>10, <2>2 DEF Gathered
    <3>2. outBuff[r][g][Minus(c, k + 1)] = Part(op[r], Nth(r, R), Gathered(r, k))
      BY <1>4, <1>5 DEF ThisHalf
    <3> QED
      BY <1>3, <1>9, <1>10, <1>h, <2>2, <3>1, <3>2
  <2> QED
    BY <2>1, <2>2
<1>12. OtherHalf(r)'
  <2> SUFFICES ASSUME NEW k \in 0 .. N - 2, Arrivals(r)' > Posts + k
               PROVE  outBuff'[r][(Round(r)' + 1) % 2][Minus(c, k + 1)]
                        = Part(op'[r], Nth(r, Round(r)' + 1), Arc(c, 1, k + 1))
    BY DEF OtherHalf, Nth, Part
  <2>1. outBuff[r][(R + 1) % 2][Minus(c, k + 1)] = Part(op[r], Nth(r, R + 1), Arc(c, 1, k + 1))
    BY <1>4, <1>5 DEF OtherHalf
  <2>2. k \in 0 .. N - 1
    BY <1>0
  <2> QED
    BY <1>3, <1>9, <1>10, <1>h, <2>1, <2>2
<1> QED
  BY <1>11, <1>12

\* The end of a round: the other half becomes this one.
LEMMA OutMoved ==
  ASSUME RingInv, OutInv, PrevSync, NEW r \in Ranks, Move(r)
  PROVE  ThisHalf(r)' /\ OtherHalf(r)'
<1> DEFINE c == card_id(r)
           N == allCardNum
           R == Round(r)
<1>0. TypeOK /\ LoopInv /\ N \in Nat /\ N >= 2 /\ Posts = 2 * (N - 1) /\ c \in Cards /\ Stream(r)
  BY Consts, RankParts DEF Posts, RingInv, CardInv, PosInv, Stream
<1>1. /\ pc[r] = "move" /\ op'[r] = op[r] /\ Round(r)' = R + 1 /\ Posted(r) = Posts /\ Posted(r)' = 0
      /\ nextcnt'[r] = nextcnt[r] /\ pc'[r] \in {"enter2", "turn", "kernel"} /\ outBuff' = outBuff
      /\ R \in Nat
  <2>1. pc[r] = "move" /\ pc'[r] \in {"enter2", "turn", "kernel"} /\ outBuff' = outBuff
    BY <1>0 DEF Move, At, Loop, Goto, TypeOK
  <2>2. Moves(r)
    <3>1. Posted(r) = Posts /\ Posted(r)' = 0 /\ Posts > 0
      BY <1>0, <2>1, PostBounds DEF Posted
    <3> QED
      BY <1>0, <2>1, <3>1, PositionSteps DEF Stays, Posts1, Leaves
  <2> QED
    BY <1>0, <2>1, <2>2, RankTypes DEF Moves
<1>2. Calculated(r)' = 0
  BY <1>1 DEF Calculated, Posting
<1>3. ThisHalf(r) /\ OtherHalf(r) /\ Arrivals(r) \in Int /\ Arrivals(r) <= N - 1 + Posts
  BY <1>1, ArrivalBounds DEF OutInv, InLoop, Posting
<1>4. Arrivals(r)' = Arrivals(r) - Posts
  <2>1. phyPrevRank(r) \in Ranks /\ phyPrevRank(r) # r
    BY NeighbourOther, Neighbours
  <2>2. nextcnt'[phyPrevRank(r)] = nextcnt[phyPrevRank(r)]
    BY <1>0, <2>1, OthersPosition
  <2>3. nextcnt[phyPrevRank(r)] \in Nat /\ nextcnt[r] \in Nat
    BY <1>0, <2>1, RankTypes
  <2> QED
    BY <1>0, <1>1, <2>2, <2>3 DEF Arrivals
<1>5. ThisHalf(r)'
  <2> SUFFICES ASSUME NEW k \in 0 .. N - 1, Arrivals(r)' > k
               PROVE  outBuff'[r][Round(r)' % 2][Minus(c, k + 1)]
                        = Part(op'[r], Nth(r, Round(r)'), Gathered(r, k)')
    BY DEF ThisHalf, Nth, Part
  <2>1. k \in 0 .. N - 2 /\ Arrivals(r) > Posts + k /\ ~(Arrivals(r)' > k + N)
    BY <1>0, <1>3, <1>4
  <2>2. Gathered(r, k)' = Arc(c, 1, k + 1)
    BY <1>2, <2>1 DEF Gathered, Arc, card_id, Minus, Posts, Cards
  <2>3. outBuff[r][(R + 1) % 2][Minus(c, k + 1)] = Part(op[r], Nth(r, R + 1), Arc(c, 1, k + 1))
    BY <1>3, <2>1 DEF OtherHalf
  <2> QED
    BY <1>1, <2>2, <2>3
<1>6. OtherHalf(r)'
  <2> SUFFICES ASSUME NEW k \in 0 .. N - 2, Arrivals(r)' > Posts + k
               PROVE  FALSE
    BY DEF OtherHalf, Nth, Part
  <2> QED
    BY <1>0, <1>3, <1>4
<1> QED
  BY <1>5, <1>6

LEMMA OutStream ==
  ASSUME RingInv, InInv, OutInv, PrevSync, NEW r \in Ranks, Stream(r)
  PROVE  OutInv'
<1>0. TypeOK /\ LoopInv /\ StreamType /\ allCardNum \in Nat /\ allCardNum >= 2
  BY Consts DEF RingInv, CardInv, PosInv, TypeOK, StreamType
<1> SUFFICES ASSUME NEW q \in Ranks, pc'[q] \in Awaiting \cup InLoop
             PROVE  ThisHalf(q)' /\ OtherHalf(q)'
  BY DEF OutInv
<1>1. phyPrevRank(q) \in Ranks /\ phyPrevRank(q) # q
  BY Neighbours, NeighbourOther
<1>2. ASSUME NEW x \in Ranks, ~Post(r) \/ x # r PROVE nextcnt'[x] = nextcnt[x]
  BY <1>0, <1>2, OthersPosition, PositionSteps DEF Stays, Posts1, Moves, Leaves
<1>3. CASE q # r
  <2>1. /\ op'[q] = op[q] /\ Round(q)' = Round(q) /\ Posted(q)' = Posted(q) /\ pc'[q] = pc[q]
        /\ i'[q] = i[q] /\ nextcnt'[q] = nextcnt[q]
    BY <1>0, <1>3, OthersPosition
  <2>2. Calculated(q)' = Calculated(q)
    BY <2>1 DEF Calculated
  <2>3. ThisHalf(q) /\ OtherHalf(q)
    BY <2>1 DEF OutInv
  <2>4. CASE Post(r) /\ q = phyNextRank(r)
    BY <2>4, OutArrives
  <2>5. CASE ~(Post(r) /\ q = phyNextRank(r))
    <3>1. ~Post(r) \/ phyPrevRank(q) # r
      BY <2>5, RingInverse
    <3>2. Arrivals(q)' = Arrivals(q)
      BY <1>1, <1>2, <2>1, <3>1 DEF Arrivals
    <3>3. outBuff'[q] = outBuff[q]
      <4>1. CASE Post(r)
        BY <1>0, <2>5, <4>1 DEF Post, TypeOK, Buffers
      <4>2. CASE Calculate(r)
        BY <1>0, <1>3, <4>2 DEF Calculate, TypeOK, Buffers
      <4> QED
        BY <4>1, <4>2, BuffersStand
    <3> QED
      BY <2>1, <2>2, <2>3, <3>2, <3>3, OutKept
  <2> QED
    BY <2>4, <2>5
<1>4. CASE q = r
  <2>p. nextcnt'[phyPrevRank(r)] = nextcnt[phyPrevRank(r)]
    BY <1>1, <1>2, <1>4
  <2>c. i[r] \in Nat /\ nextcnt[r] \in Nat /\ nextcnt[phyPrevRank(r)] \in Nat /\ Posted(r) \in Nat
    BY <1>0, <1>1, <1>4, RankTypes
  \* Commands that do not touch the buffers.
  <2>k. ASSUME ~Move(r), ~Calculate(r), ~LeaveCardAgain(r), pc[r] \in Awaiting \cup InLoop,
               Calculated(r)' = Calculated(r)
        PROVE  ThisHalf(r)' /\ OtherHalf(r)'
    <3>1. op'[r] = op[r] /\ Round(r)' = Round(r) /\ Posted(r)' - nextcnt'[r] = Posted(r) - nextcnt[r]
          /\ Posted(r)' \in Int /\ nextcnt'[r] \in Int
      BY <1>0, <2>k, <2>c, PositionSteps DEF Stays, Posts1, Moves, Leaves
    <3>2. Arrivals(r)' = Arrivals(r)
      BY <2>p, <2>c, <3>1 DEF Arrivals
    <3>3. outBuff'[r] = outBuff[r]
      <4>1. CASE Post(r)
        <5>1. phyNextRank(r) # r
          BY NeighbourOther
        <5> QED
          BY <1>0, <4>1, <5>1 DEF Post, TypeOK, Buffers
      <4> QED
        BY <2>k, <4>1, BuffersStand
    <3> QED
      BY <2>k, <3>1, <3>2, <3>3, OutKept DEF OutInv
  <2> USE DEF StreamType, Goto, At
  <2>1. CASE EnterCard(r) \/ LeaveCard(r) \/ EnterCardAgain(r) \/ LeaveCardAgain(r)
    BY <1>0, <1>4, <2>1 DEF EnterCard, LeaveCard, EnterCardAgain, LeaveCardAgain, Awaiting, InLoop,
       Turning, Posting
  <2>2. CASE SendPrevFlag(r)
    <3>1. pc[r] = "prevflag" /\ nextcnt'[r] = nextcnt[r] /\ pc'[r] = "prevwait"
      BY <1>0, <2>2 DEF SendPrevFlag
    <3>2. Posted(r) = 0 /\ Posted(r)' = 0
      BY <3>1 DEF Posted
    <3>3. Arrivals(r) <= 0 /\ Arrivals(r)' = Arrivals(r) /\ Arrivals(r) \in Int
      BY <2>p, <3>1, <3>2, NoArrivals, ArrivalBounds DEF Arrivals
    <3>4. ThisHalf(r)'
      <4> SUFFICES ASSUME NEW k \in 0 .. allCardNum - 1, Arrivals(r)' > k PROVE FALSE
        BY DEF ThisHalf, Nth, Part
      <4> QED
        BY <3>3
    <3>5. OtherHalf(r)'
      <4> SUFFICES ASSUME NEW k \in 0 .. allCardNum - 2, Arrivals(r)' > Posts + k PROVE FALSE
        BY DEF OtherHalf, Nth, Part
      <4> QED
        BY <1>0, <3>3 DEF Posts
    <3> QED
      BY <1>4, <3>4, <3>5
  <2>3. CASE WaitPrevFlag(r) \/ ResetTurn(r) \/ WaitTurn(r) \/ StartKernel(r)
    <3>1. /\ pc[r] \in {"prevwait", "reset", "turn", "kernel"}
          /\ pc'[r] \in {"reset", "enter2", "turn", "kernel", "running"}
          /\ ~Move(r) /\ ~Calculate(r) /\ ~LeaveCardAgain(r)
      BY <1>0, <2>3 DEF WaitPrevFlag, ResetTurn, WaitTurn, StartKernel, Loop, Move, Calculate, LeaveCardAgain
    <3>2. Calculated(r) = 0 /\ Calculated(r)' = 0
      BY <3>1 DEF Calculated, Posting
    <3> QED
      BY <1>4, <2>k, <3>1, <3>2 DEF Awaiting, InLoop, Turning
  <2>4. CASE FinishKernel(r)
    <3>1. /\ pc[r] = "running" /\ pc'[r] = "post" /\ i'[r] = 0
          /\ ~Move(r) /\ ~Calculate(r) /\ ~LeaveCardAgain(r)
      BY <1>0, <2>4 DEF FinishKernel, Move, Calculate, LeaveCardAgain
    <3>2. Calculated(r) = 0 /\ Calculated(r)' = 0
      BY <1>0, <3>1 DEF Calculated, Posting
    <3> QED
      BY <1>4, <2>k, <3>1, <3>2 DEF InLoop, Turning
  <2>5. CASE Post(r)
    <3>1. /\ pc[r] = "post" /\ pc'[r] = "wait" /\ i'[r] = i[r]
          /\ ~Move(r) /\ ~Calculate(r) /\ ~LeaveCardAgain(r)
      BY <1>0, <2>5 DEF Post, Move, Calculate, LeaveCardAgain
    <3>2. Calculated(r)' = Calculated(r)
      BY <3>1 DEF Calculated, Posting
    <3> QED
      BY <1>4, <2>k, <3>1, <3>2 DEF InLoop, Posting
  <2>6. CASE Wait(r)
    <3>1. /\ pc[r] = "wait" /\ pc'[r] \in {"calc", "post", "move"}
          /\ i'[r] = (IF i[r] < allCardNum - 1 THEN i[r] ELSE i[r] + 1)
          /\ ~Move(r) /\ ~Calculate(r) /\ ~LeaveCardAgain(r)
      BY <1>0, <2>6 DEF Wait, Move, Calculate, LeaveCardAgain
    <3>2. Calculated(r)' = Calculated(r)
      BY <1>0, <2>c, <3>1 DEF Calculated, Posting
    <3> QED
      BY <1>4, <2>k, <3>1, <3>2 DEF InLoop, Posting
  <2>7. CASE Calculate(r)
    BY <1>4, <2>7, OutCalculated
  <2>8. CASE Move(r)
    BY <1>4, <2>8, OutMoved
  <2> QED
    BY <2>1, <2>2, <2>3, <2>4, <2>5, <2>6, <2>7, <2>8 DEF Stream
<1> QED
  BY <1>3, <1>4

\* Later rounds have later chunks.
LEMMA NthGrows ==
  ASSUME NEW r \in Ranks, NEW m \in Nat
  PROVE  Nth(r, m) \in Nat /\ Nth(r, m) <= Nth(r, m + 1) /\ Nth(r, m + 1) <= Nth(r, m + 2)
<1>1. m + 1 \in Nat /\ (m + 1) + 1 = m + 2 /\ rank_num \in Nat
  BY Consts
<1>2. Nth(r, m) \in Nat /\ Nth(r, m + 1) = Nth(r, m) + rank_num
  BY NthRound
<1>3. Nth(r, m + 1) \in Nat /\ Nth(r, (m + 1) + 1) = Nth(r, m + 1) + rank_num
  BY <1>1, NthRound
<1> QED
  BY <1>1, <1>2, <1>3

LEMMA OldStream ==
  ASSUME RingInv, InInv, OutInv, OldInv, PrevSync, NEW r \in Ranks, Stream(r)
  PROVE  OldInv'
<1>0. TypeOK /\ LoopInv /\ StreamType /\ outBuff \in [Ranks -> [Halves -> [Slices -> Parts]]]
  BY DEF RingInv, CardInv, PosInv, TypeOK, StreamType, Buffers
<1> SUFFICES ASSUME NEW q \in Ranks, NEW s \in Slices
             PROVE  /\ NotAfter(outBuff[q][Round(q) % 2][s], q, Round(q))'
                    /\ NotAfter(outBuff[q][(Round(q) + 1) % 2][s], q, Round(q) + 1)'
  BY DEF OldInv
<1> DEFINE R == Round(q)
           a == outBuff[q][R % 2][s]
           b == outBuff[q][(R + 1) % 2][s]
<1>1. /\ R \in Nat /\ R % 2 \in Halves /\ (R + 1) % 2 \in Halves /\ (R + 1) % 2 # R % 2
      /\ (R + 2) % 2 = R % 2
  BY <1>0, RankTypes, Parity
<1>2. /\ a \in Parts /\ b \in Parts /\ op[q] \in Nat
      /\ Nth(q, R) \in Nat /\ Nth(q, R + 1) \in Nat /\ Nth(q, R + 2) \in Nat
      /\ Nth(q, R) <= Nth(q, R + 1) /\ Nth(q, R + 1) <= Nth(q, R + 2)
  <2>1. a \in Parts /\ b \in Parts
    BY <1>0, <1>1
  <2>2. R + 1 \in Nat /\ R + 2 \in Nat
    BY <1>1
  <2> QED
    BY <1>0, <1>1, <2>1, <2>2, RankTypes, NthGrows
<1>3. /\ a.op < op[q] \/ (pc[q] \notin Opening /\ a.op = op[q] /\ a.chunk <= Nth(q, R))
      /\ b.op < op[q] \/ (pc[q] \notin Opening /\ b.op = op[q] /\ b.chunk <= Nth(q, R + 1))
  BY DEF OldInv, NotAfter
\* What has to hold of the two halves after the step.
<1>s. ASSUME NEW c, NEW d,
             c = outBuff'[q][Round(q)' % 2][s], d = outBuff'[q][(Round(q)' + 1) % 2][s],
             c.op < op'[q] \/ (pc'[q] \notin Opening /\ c.op = op'[q] /\ c.chunk <= Nth(q, Round(q)')),
             d.op < op'[q] \/ (pc'[q] \notin Opening /\ d.op = op'[q] /\ d.chunk <= Nth(q, Round(q)' + 1))
      PROVE  /\ NotAfter(outBuff[q][Round(q) % 2][s], q, Round(q))'
             /\ NotAfter(outBuff[q][(Round(q) + 1) % 2][s], q, Round(q) + 1)'
  BY <1>s DEF NotAfter, Nth
\* A rank that stays in its round and gets at most a part it may get.
<1>k. ASSUME op'[q] = op[q], Round(q)' = R, pc[q] \notin Opening => pc'[q] \notin Opening,
             \/ outBuff'[q] = outBuff[q]
             \/ \E m \in {R, R + 1}, w \in Parts, t \in Slices :
                  /\ outBuff'[q] = [outBuff[q] EXCEPT ![m % 2][t] = w]
                  /\ pc[q] \notin Opening /\ w.op = op[q] /\ w.chunk = Nth(q, m)
      PROVE  /\ NotAfter(outBuff[q][Round(q) % 2][s], q, Round(q))'
             /\ NotAfter(outBuff[q][(Round(q) + 1) % 2][s], q, Round(q) + 1)'
  <2>1. CASE outBuff'[q] = outBuff[q]
    BY <1>3, <1>k, <1>s, <2>1
  <2>2. CASE \E m \in {R, R + 1}, w \in Parts, t \in Slices :
               /\ outBuff'[q] = [outBuff[q] EXCEPT ![m % 2][t] = w]
               /\ pc[q] \notin Opening /\ w.op = op[q] /\ w.chunk = Nth(q, m)
    <3>1. PICK m \in {R, R + 1}, w \in Parts, t \in Slices :
               /\ outBuff'[q] = [outBuff[q] EXCEPT ![m % 2][t] = w]
               /\ pc[q] \notin Opening /\ w.op = op[q] /\ w.chunk = Nth(q, m)
      BY <2>2
    <3>2. outBuff[q] \in [Halves -> [Slices -> Parts]]
      BY <1>0
    <3> DEFINE c == outBuff'[q][R % 2][s]
               d == outBuff'[q][(R + 1) % 2][s]
    <3>3. c = a \/ (c = w /\ m = R)
      BY <1>1, <3>1, <3>2
    <3>4. d = b \/ (d = w /\ m = R + 1)
      BY <1>1, <3>1, <3>2
    <3>5. /\ c = outBuff'[q][Round(q)' % 2][s] /\ d = outBuff'[q][(Round(q)' + 1) % 2][s]
      BY <1>k
    <3> HIDE DEF a, b, c, d
    <3>6. c.op < op[q] \/ (pc[q] \notin Opening /\ c.op = op[q] /\ c.chunk <= Nth(q, R))
      BY <1>2, <1>3, <3>1, <3>3
    <3>7. d.op < op[q] \/ (pc[q] \notin Opening /\ d.op = op[q] /\ d.chunk <= Nth(q, R + 1))
      BY <1>2, <1>3, <3>1, <3>4
    <3> QED
      BY <1>k, <1>s, <3>5, <3>6, <3>7
  <2> QED
    BY <1>k, <2>1, <2>2
<1>4. CASE q # r
  <2>1. op'[q] = op[q] /\ Round(q)' = R /\ pc'[q] = pc[q]
    BY <1>0, <1>4, OthersPosition
  <2>2. CASE Post(r) /\ q = phyNextRank(r)
    <3>1. /\ pc[r] = "post" /\ sslice(r, i[r]) \in Slices
          /\ outBuff' = [outBuff EXCEPT ![q][Round(r) % 2][sslice(r, i[r])] =
                           Part(op[r], Nth(r, Round(r)), Sent(r))]
      BY <2>2, PostStep
    <3>2. /\ op[r] = op[q] /\ pc[q] \in Awaiting \cup InLoop /\ Round(r) \in {R, R + 1}
      BY <2>2, <3>1, NextPost, RingInverse
    <3>3. Nth(r, Round(r)) = Nth(q, Round(r))
      BY <2>2, Neighbours DEF Nth
    <3> DEFINE w == Part(op[q], Nth(q, Round(r)), Sent(r))
    <3>4. w \in Parts
      <4>1. i[r] \in Nat /\ card_id(r) \in Cards
        BY <1>0, RankTypes, RankParts
      <4>2. Sent(r) \subseteq Cards
        BY <4>1, MinusInRing DEF Sent, Arc
      <4>3. Nth(q, Round(r)) \in Nat
        BY <1>2, <3>2
      <4> QED
        BY <1>2, <4>2, <4>3 DEF Part, Parts
    <3>5. outBuff'[q] = [outBuff[q] EXCEPT ![Round(r) % 2][sslice(r, i[r])] = w]
      BY <1>0, <3>1, <3>2, <3>3
    <3>6. w.op = op[q] /\ w.chunk = Nth(q, Round(r))
      BY DEF Part
    <3>7. pc[q] \notin Opening
      BY <3>2, Phases
    <3> HIDE DEF w
    <3> QED
      BY <1>k, <2>1, <3>1, <3>2, <3>4, <3>5, <3>6, <3>7
  <2>3. CASE ~(Post(r) /\ q = phyNextRank(r))
    <3>1. outBuff'[q] = outBuff[q]
      <4>1. CASE Post(r)
        BY <1>0, <2>3, <4>1 DEF Post
      <4>2. CASE Calculate(r)
        BY <1>0, <1>4, <4>2 DEF Calculate
      <4> QED
        BY <4>1, <4>2, BuffersStand
    <3> QED
      BY <1>k, <2>1, <3>1
  <2> QED
    BY <2>2, <2>3
<1>5. CASE q = r
  <2>1. Stays(r) \/ Posts1(r) \/ Moves(r) \/ Leaves(r)
    BY <1>0, PositionSteps
  <2>2. CASE Stays(r) \/ Posts1(r)
    <3>1. op'[q] = op[q] /\ Round(q)' = R
      BY <1>5, <2>2 DEF Stays, Posts1
    <3>2. pc[q] \notin Opening => pc'[q] \notin Opening
      <4>1. ~LeaveCardAgain(r)
        BY <1>0, <1>5, <1>2, <3>1 DEF LeaveCardAgain, StreamType
      <4> QED
        BY <1>0, <1>5, <4>1 DEF Opening, StreamType, Goto, At, Loop, Stream, EnterCard, LeaveCard,
           SendPrevFlag, WaitPrevFlag, ResetTurn, WaitTurn, StartKernel, FinishKernel, Post, Wait,
           Calculate, Move, EnterCardAgain
    <3>3. CASE Calculate(r)
      <4>1. /\ pc[q] = "calc" /\ i[q] \in 0 .. allCardNum - 2
            /\ outBuff' = [outBuff EXCEPT ![q][R % 2][Minus(card_id(q), i[q] + 1)] =
                             Part(op[q], Nth(q, R), Arc(card_id(q), 0, i[q] + 1))]
        BY <1>5, <3>3, CalculateStep
      <4> DEFINE w == Part(op[q], Nth(q, R), Arc(card_id(q), 0, i[q] + 1))
                 t == Minus(card_id(q), i[q] + 1)
      <4>2. t \in Slices
        BY <4>1, RankParts, MinusInRing DEF Slices
      <4>3. w \in Parts
        <5>1. Arc(card_id(q), 0, i[q] + 1) \subseteq Cards
          BY <4>1, RankParts, MinusInRing DEF Arc
        <5> QED
          BY <1>2, <5>1 DEF Part, Parts
      <4>4. outBuff'[q] = [outBuff[q] EXCEPT ![R % 2][t] = w]
        BY <1>0, <4>1
      <4>5. w.op = op[q] /\ w.chunk = Nth(q, R) /\ pc[q] \notin Opening
        BY <4>1 DEF Part, Opening
      <4> HIDE DEF w, t
      <4> QED
        BY <1>k, <3>1, <3>2, <4>2, <4>3, <4>4, <4>5
    <3>4. CASE ~Calculate(r)
      <4>1. outBuff'[q] = outBuff[q]
        <5>1. CASE Post(r)
          <6>1. phyNextRank(r) # q
            BY <1>5, NeighbourOther
          <6> QED
            BY <1>0, <5>1, <6>1 DEF Post
        <5> QED
          BY <3>4, <5>1, BuffersStand
      <4> QED
        BY <1>k, <3>1, <3>2, <4>1
    <3> QED
      BY <3>3, <3>4
  <2>3. CASE Moves(r)
    <3>1. /\ op'[q] = op[q] /\ Round(q)' = R + 1 /\ outBuff' = outBuff /\ pc'[q] \notin Opening
      BY <1>0, <1>5, <2>3 DEF Moves, Move, Loop, Goto, StreamType, Opening
    <3>2. outBuff'[q][Round(q)' % 2][s] = b /\ outBuff'[q][(Round(q)' + 1) % 2][s] = a
      <4>1. (R + 1) + 1 = R + 2
        BY <1>1
      <4> QED
        BY <1>1, <3>1, <4>1
    <3>3. Nth(q, Round(q)') = Nth(q, R + 1) /\ Nth(q, Round(q)' + 1) = Nth(q, R + 2)
      <4>1. (R + 1) + 1 = R + 2
        BY <1>1
      <4> QED
        BY <3>1, <4>1
    <3>4. /\ b.op < op[q] \/ (b.op = op[q] /\ b.chunk <= Nth(q, R + 1))
          /\ a.op < op[q] \/ (a.op = op[q] /\ a.chunk <= Nth(q, R + 2))
          /\ a.chunk \in Nat
      <4>1. a.chunk \in Nat
        BY <1>2 DEF Parts
      <4> HIDE DEF a, b
      <4> QED
        BY <1>2, <1>3, <4>1
    <3> QED
      BY <1>s, <3>1, <3>2, <3>3, <3>4
  <2>4. CASE Leaves(r)
    <3>1. op'[q] = op[q] + 1 /\ Round(q)' = 0 /\ outBuff' = outBuff
      BY <1>5, <2>4 DEF Leaves, LeaveCardAgain
    <3>2. 0 % 2 \in {R % 2, (R + 1) % 2} /\ (0 + 1) % 2 \in {R % 2, (R + 1) % 2}
      BY <1>1
    <3>3. a.op < op'[q] /\ b.op < op'[q]
      <4>1. a.op \in Nat /\ b.op \in Nat
        BY <1>2 DEF Parts
      <4> HIDE DEF a, b
      <4> QED
        BY <1>2, <1>3, <3>1, <4>1
    <3>4. /\ outBuff'[q][Round(q)' % 2][s] \in {a, b}
          /\ outBuff'[q][(Round(q)' + 1) % 2][s] \in {a, b}
      BY <3>1, <3>2
    <3> HIDE DEF a, b
    <3> QED
      BY <1>s, <3>3, <3>4
  <2> QED
    BY <2>1, <2>2, <2>3, <2>4
<1> QED
  BY <1>4, <1>5

-----------------------------------------------------------------------------
(* What the users get.                                                     *)

\* The chunk of a round of a call is in the list of the user.
LEMMA RoundChunk ==
  ASSUME TypeOK, NEW o \in 1 .. NumOps, NEW x \in Ranks, NEW m \in 0 .. Rounds(o, rank_id(x)) - 1
  PROVE  m \in Nat /\ Nth(x, m) \in 0 .. MaxChunks - 1 /\ Nth(x, m) < chunks[o]
<1>1. Rounds(o, rank_id(x)) \in Nat
  BY RoundsTest, RankParts, Consts
<1>2. m \in Nat /\ ~(m >= Rounds(o, rank_id(x)))
  BY <1>1
<1>3. ~(Nth(x, m) >= chunks[o]) /\ Nth(x, m) \in Nat
  BY <1>2, RoundsTest, NthRound
<1>4. chunks[o] \in Nat /\ chunks[o] <= MaxChunks
  BY ChunkType
<1> QED
  BY <1>2, <1>3, <1>4, Consts

LEMMA UserStream ==
  ASSUME RingInv, OutInv, UserInv, PrevSync, NEW y \in Ranks, Stream(y)
  PROVE  UserInv'
<1>0. TypeOK /\ LoopInv /\ StreamType /\ CardInv /\ UserType /\ chunks' = chunks
  BY ChunksConstant DEF RingInv, CardInv, PosInv, TypeOK, StreamType, UserType
<1> SUFFICES ASSUME NEW x \in Ranks, NEW r \in Ranks, SameCard(x, r), NEW o \in 1 .. NumOps,
                    NEW m \in 0 .. Rounds(o, rank_id(x)) - 1, Moved(x, o, m)'
             PROVE  recvusr'[r][o][Nth(x, m)] = Total(o, Nth(x, m))
  <2>1. ASSUME NEW o \in 1 .. NumOps, NEW j PROVE Rounds(o, j)' = Rounds(o, j)
    BY <1>0 DEF Rounds
  <2> QED
    BY <2>1 DEF UserInv, Total, Part, Nth, SameCard
<1>1. /\ m \in Nat /\ Nth(x, m) \in 0 .. MaxChunks - 1
      /\ o < op'[x] \/ (o = op'[x] /\ m < Round(x)')
      /\ op[x] \in Nat /\ Round(x) \in Nat /\ o \in Nat
  BY <1>0, RoundChunk, RankTypes, Consts DEF Moved
<1>2. Moved(x, o, m) => recvusr[r][o][Nth(x, m)] = Total(o, Nth(x, m))
  BY DEF UserInv
<1>3. CASE ~Move(y)
  <2>1. recvusr' = recvusr
    BY <1>3, BuffersStand
  <2>2. Moved(x, o, m)
    <3>1. CASE x # y
      BY <1>0, <1>1, <3>1, OthersPosition DEF Moved
    <3>2. CASE x = y
      <4>1. \/ op'[x] = op[x] /\ Round(x)' = Round(x)
            \/ op'[x] = op[x] + 1 /\ Round(x)' = 0 /\ Round(x) = Rounds(op[x], rank_id(x))
        BY <1>0, <1>3, <3>2, PositionSteps DEF Stays, Posts1, Moves, Leaves
      <4>2. CASE op'[x] = op[x] /\ Round(x)' = Round(x)
        BY <1>1, <4>2 DEF Moved
      <4>3. CASE op'[x] = op[x] + 1 /\ Round(x)' = 0 /\ Round(x) = Rounds(op[x], rank_id(x))
        <5>1. o < op[x] \/ o = op[x]
          BY <1>1, <4>3
        <5>2. o = op[x] => m < Round(x)
          BY <1>1, <4>3
        <5> QED
          BY <5>1, <5>2 DEF Moved
      <4> QED
        BY <4>1, <4>2, <4>3
    <3> QED
      BY <3>1, <3>2
  <2> QED
    BY <1>2, <2>1, <2>2
<1>4. CASE Move(y)
  <2>1. /\ pc[y] = "move" /\ op[y] \in 1 .. NumOps
    BY <1>0, <1>4, OpBound DEF Move, At
  <2>2. Published(y)
    BY <1>0, <2>1, SameCall, MiddleTable DEF Published
  <2>3. Half(chunk[y]) = Round(y) % 2 /\ chunk[y] = Nth(y, Round(y))
    BY <1>0, <2>1, RoundHalf, RankTypes DEF Begun, Opening, Awaiting
  <2>4. \A s \in Slices : outBuff[y][Half(chunk[y])][s] = Total(op[y], chunk[y])
    BY <2>1, <2>3, RoundComplete
  <2>5. recvusr' = [q \in Ranks |-> IF SameCard(y, q)
                      THEN [recvusr[q] EXCEPT ![op[y]][chunk[y]] = Total(op[y], chunk[y])]
                      ELSE recvusr[q]]
    BY <1>4, <2>2, <2>4 DEF Move
  <2>6. Moves(y)
    <3>1. Posted(y) = Posts /\ Posted(y)' = 0 /\ Posts > 0
      <4>1. pc'[y] \in {"enter2", "turn", "kernel"}
        BY <1>0, <1>4 DEF Move, At, Loop, Goto, StreamType
      <4> QED
        BY <1>0, <2>1, <4>1, PostBounds, RankTypes DEF Posted
    <3> QED
      BY <1>0, <2>1, <3>1, PositionSteps DEF Stays, Posts1, Leaves
  <2>7. ASSUME chunk[y] = Nth(x, m), op[y] = o, SameCard(y, r)
        PROVE  recvusr'[r][o][Nth(x, m)] = Total(o, Nth(x, m))
    <3>1. recvusr[r] \in [1 .. NumOps -> [0 .. MaxChunks - 1 -> Parts]]
      BY <1>0 DEF UserType
    <3>2. recvusr'[r] = [recvusr[r] EXCEPT ![o][Nth(x, m)] = Total(o, Nth(x, m))]
      BY <2>5, <2>7
    <3> DEFINE n == Nth(x, m)
               v == Total(o, Nth(x, m))
    <3>3. n \in 0 .. MaxChunks - 1
      BY <1>1
    <3> HIDE DEF n, v
    <3>4. recvusr'[r][o][n] = v
      BY <3>1, <3>2, <3>3 DEF n, v
    <3> QED
      BY <3>4 DEF n, v
  <2>8. chunk[y] # Nth(x, m) \/ op[y] # o \/ ~SameCard(y, r) => recvusr'[r][o][Nth(x, m)] = recvusr[r][o][Nth(x, m)]
    <3>1. recvusr \in [Ranks -> [1 .. NumOps -> [0 .. MaxChunks - 1 -> Parts]]]
      BY <1>0 DEF UserType
    <3> QED
      BY <1>1, <2>5, <3>1
  <2>9. CASE Moved(x, o, m)
    BY <1>2, <2>7, <2>8, <2>9
  <2>10. CASE ~Moved(x, o, m)
    <3>1. x = y
      BY <1>0, <1>1, <2>10, OthersPosition DEF Moved
    <3>2. o = op[y] /\ m = Round(y)
      BY <1>1, <2>6, <2>10, <3>1 DEF Moved, Moves
    <3> QED
      BY <2>3, <2>7, <3>1, <3>2 DEF SameCard
  <2> QED
    BY <2>9, <2>10
<1> QED
  BY <1>3, <1>4

-----------------------------------------------------------------------------
(* The theorems.                                                           *)

AllInv == RingInv /\ DataInv

LEMMA DataInit == Init => DataInv
<1> SUFFICES ASSUME Init PROVE DataInv
  OBVIOUS
<1>0. TypeOK
  BY TypeInit
<1>1. \A r \in Ranks : pc[r] = "enter" /\ op[r] = 1
  BY DEF Init
<1>2. InInv /\ OutInv
  BY <1>1 DEF InInv, OutInv, Posting, Awaiting, InLoop, Turning
<1>3. OldInv
  <2>1. \A r \in Ranks, h \in Halves, s \in Slices : outBuff[r][h][s].op = 0
    BY DEF Init, Nothing, Part
  <2>2. \A r \in Ranks : Round(r) % 2 \in Halves /\ (Round(r) + 1) % 2 \in Halves
    BY <1>0, RankTypes, Parity
  <2> QED
    BY <1>1, <2>1, <2>2 DEF OldInv, NotAfter
<1>4. UserInv
  <2> SUFFICES ASSUME NEW x \in Ranks, NEW o \in 1 .. NumOps, NEW m \in 0 .. Rounds(o, rank_id(x)) - 1,
                      Moved(x, o, m)
               PROVE  FALSE
    BY DEF UserInv
  <2>1. Round(x) = 0
    BY <1>1 DEF Round, Begun, Opening
  <2>2. m \in Nat
    BY <1>0, RoundChunk
  <2> QED
    BY <1>1, <2>1, <2>2, Consts DEF Moved
<1> QED
  BY <1>2, <1>3, <1>4 DEF DataInv

LEMMA DataNext == PrevSync /\ AllInv /\ [Next]_vars => AllInv'
<1> SUFFICES ASSUME PrevSync, AllInv, [Next]_vars PROVE AllInv'
  OBVIOUS
<1>0. RingInv /\ InInv /\ OutInv /\ OldInv /\ UserInv
  BY DEF AllInv, DataInv
<1>1. RingInv'
  BY <1>0, RingNext
<1>2. CASE UNCHANGED vars
  <2>1. /\ op' = op /\ pc' = pc /\ nextcnt' = nextcnt /\ inBuff' = inBuff /\ outBuff' = outBuff
        /\ recvusr' = recvusr /\ chunks' = chunks
        /\ \A r \in Ranks : Round(r)' = Round(r) /\ Posted(r)' = Posted(r) /\ Calculated(r)' = Calculated(r)
    BY <1>2 DEF vars, Round, Begun, Posted, Calculated
  <2>2. \A r \in Ranks : Arrivals(r)' = Arrivals(r)
    BY <2>1 DEF Arrivals
  <2>3. InInv'
    BY <1>0, <2>1 DEF InInv, Nth, Part
  <2>4. OutInv'
    BY <1>0, <2>1, <2>2, OutKept DEF OutInv
  <2>5. OldInv'
    BY <1>0, <2>1 DEF OldInv, NotAfter, Nth
  <2>6. UserInv'
    BY <1>0, <2>1 DEF UserInv, Moved, Rounds
  <2> QED
    BY <1>1, <2>3, <2>4, <2>5, <2>6 DEF AllInv, DataInv
<1>3. ASSUME NEW r \in Ranks, Stream(r) PROVE AllInv'
  <2>1. InInv' /\ OutInv'
    BY <1>0, <1>3, InStream, OutStream
  <2>2. OldInv' /\ UserInv'
    BY <1>0, <1>3, OldStream, UserStream
  <2> QED
    BY <1>1, <2>1, <2>2 DEF AllInv, DataInv
<1> QED
  BY <1>2, <1>3 DEF Next, Finished

LEMMA AllInvariant ==
  ASSUME card_num > 1
  PROVE  Spec => []AllInv
<1>1. Init => AllInv
  BY RingInit, DataInit DEF AllInv
<1>2. PrevSync
  BY DEF PrevSync
<1>3. AllInv /\ [Next]_vars => AllInv'
  BY <1>2, DataNext
<1> QED
  BY <1>1, <1>3, PTL DEF Spec

\* With more than one card in a node, so that neighbours synchronise before
\* they post, nobody posts data of a later chunk or call over the half of
\* outBuff a rank is working in.
THEOREM NothingOverwritten ==
  ASSUME card_num > 1
  PROVE  Spec => []NoOverwrite
<1>1. AllInv => NoOverwrite
  <2> SUFFICES ASSUME AllInv, NEW r \in Ranks, Working(r), NEW s \in Slices
               PROVE  \/ outBuff[r][Half(chunk[r])][s].op < op[r]
                      \/ /\ outBuff[r][Half(chunk[r])][s].op = op[r]
                         /\ outBuff[r][Half(chunk[r])][s].chunk <= chunk[r]
    BY DEF NoOverwrite
  <2>1. RingInv /\ OldInv
    BY DEF AllInv, DataInv
  <2>2. Half(chunk[r]) = Round(r) % 2 /\ chunk[r] = Nth(r, Round(r))
    BY <2>1, RoundHalf DEF Working, Begun, Opening, Awaiting
  <2>3. NotAfter(outBuff[r][Round(r) % 2][s], r, Round(r))
    BY <2>1 DEF OldInv
  <2> QED
    BY <2>2, <2>3 DEF NotAfter
<1> QED
  BY <1>1, AllInvariant, PTL

\* A rank of the card has moved every chunk of a call that another rank of
\* the card has left.
LEMMA LeftMoved ==
  ASSUME RingInv, NEW x \in Ranks, NEW r \in Ranks, SameCard(r, x), NEW o \in 1 .. NumOps, o < op[r],
         NEW m \in Nat, m < Rounds(o, rank_id(x))
  PROVE  Moved(x, o, m)
<1>1. /\ op[x] \in Nat /\ op[r] \in Nat /\ synced[x] \in Nat /\ o \in Nat
  BY RankTypes, Consts DEF RingInv, CardInv
<1>2. synced[x] >= 2 * o
  <2>1. synced[x] >= 2 * (op[r] - 1) + (IF pc[r] \in {"enter", "leave"} THEN 0 ELSE 1)
    BY DEF RingInv, CardInv, BarrierInv, Left
  <2> QED
    BY <1>1, <2>1
<1>3. synced[x] = 2 * (op[x] - 1) + (IF pc[x] = "enter" THEN 0 ELSE IF pc[x] = "leave2" THEN 2 ELSE 1)
  BY DEF RingInv, CardInv, SyncedInv, Entered
<1>4. o < op[x] \/ (o = op[x] /\ pc[x] = "leave2")
  BY <1>1, <1>2, <1>3
<1>5. pc[x] = "leave2" => Round(x) = Rounds(op[x], rank_id(x))
  BY DEF RingInv, PosInv, LoopInv, Closing
<1> QED
  BY <1>4, <1>5 DEF Moved

\* With more than one card in a node a finished call leaves every user with
\* the sum over all cards of every chunk of it, for every number of cards,
\* ranks, calls and chunks and however far the streams drift apart.
THEOREM SumsAreCorrect ==
  ASSUME card_num > 1
  PROVE  Spec => []ResultCorrect
<1>1. AllInv => ResultCorrect
  <2> SUFFICES ASSUME AllInv, NEW r \in Ranks, NEW o \in 1 .. op[r] - 1, NEW k \in 0 .. chunks[o] - 1
               PROVE  recvusr[r][o][k] = Total(o, k)
    BY DEF ResultCorrect
  <2>1. RingInv /\ UserInv /\ TypeOK
    BY DEF AllInv, DataInv, RingInv, CardInv
  <2>2. o \in 1 .. NumOps /\ o < op[r]
    BY <2>1, RankTypes, Consts
  <2>3. k \in Nat /\ k < chunks[o] /\ rank_num \in Nat /\ rank_num > 0
    BY <2>1, <2>2, ChunkType, Consts
  <2> DEFINE m == k \div rank_num
             j == k - m * rank_num
             x == <<card_id(r), j>>
  <2>4. m \in Nat /\ j \in 0 .. rank_num - 1
    <3>1. m \in Nat /\ m * rank_num <= k /\ k < m * rank_num + rank_num
      BY <2>3, DivBounds
    <3>2. m * rank_num \in Int
      BY <2>3, <3>1, MulSucc
    <3> QED
      BY <2>3, <3>1, <3>2
  <2>5. x \in Ranks /\ card_id(x) = card_id(r) /\ rank_id(x) = j
    BY <2>4, RankParts, RankOf
  <2>6. Nth(x, m) = k
    <3>1. m * rank_num \in Int
      BY <2>3, <2>4, MulSucc
    <3> QED
      BY <2>3, <2>5, <3>1 DEF Nth
  <2> HIDE DEF m, j, x
  <2>7. m < Rounds(o, rank_id(x)) /\ Rounds(o, rank_id(x)) \in Nat
    <3>1. Rounds(o, rank_id(x)) \in Nat /\ (Nth(x, m) >= chunks[o] <=> m >= Rounds(o, rank_id(x)))
      BY <2>1, <2>2, <2>4, <2>5, RoundsTest
    <3>2. ~(k >= chunks[o])
      BY <2>1, <2>2, <2>3, ChunkType
    <3> QED
      BY <2>4, <2>6, <3>1, <3>2
  <2>8. Moved(x, o, m)
    BY <2>1, <2>2, <2>4, <2>5, <2>7, LeftMoved DEF SameCard
  <2>9. m \in 0 .. Rounds(o, rank_id(x)) - 1
    BY <2>4, <2>7
  <2> QED
    BY <2>1, <2>2, <2>5, <2>6, <2>8, <2>9 DEF UserInv, SameCard
<1> QED
  BY <1>1, AllInvariant, PTL
=============================================================================
