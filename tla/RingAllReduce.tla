--------------------------- MODULE RingAllReduce ---------------------------
(***************************************************************************)
(* AllReduce over the ring of all cards (tcclPublicWork handing over to    *)
(* tcclNicPublicWork): the path of every communicator that spans several   *)
(* cards and has neither SHARP nor a special topology.                     *)
(*                                                                         *)
(* The data is cut into chunks; rank_id i of every card handles chunks i,  *)
(* i + rank_num, ... over a ring of its own.  A chunk is first reduced     *)
(* within the card into one half of the rank's inBuff, then reduced and    *)
(* gathered around the ring through the same half of everybody's outBuff,  *)
(* and finally copied to the users of the card.  The halves alternate from *)
(* chunk to chunk and start over with every operation.                     *)
(*                                                                         *)
(* Each rank has a device stream that executes the commands the host       *)
(* queued; the model has one action per command.  A post (data, then the   *)
(* flag, by the same stream) is one action: nobody reads the flag between. *)
(* tcclDevSyncCard is used by its specification, see CardBarrier.          *)
(* Data is abstracted to who contributed to it.                            *)
(***************************************************************************)
EXTENDS Integers

CONSTANTS allCardNum,  \* cards of the communicator, the length of the ring
          card_num,    \* cards of each node
          rank_num,    \* ranks on each card
          NumOps,      \* bound: AllReduce calls
          MaxChunks    \* bound: chunks of a call

ASSUME SizesAssumption ==
  /\ allCardNum \in Nat \ {0, 1} /\ rank_num \in Nat \ {0}
  /\ card_num \in 1 .. allCardNum
  /\ NumOps \in Nat /\ MaxChunks \in Nat

VARIABLES
  chunks,    \* the number of chunks of every call
  op, pc,    \* the call a rank's stream is in, and its next command
  chunk, i,  \* the chunk in work and the post of it, from 0
  synced,    \* card barriers each rank has entered
  prevcnt, prevflag,   \* flag 1: syncs with the previous rank of the ring
  nextcnt, nextflag,   \* flag 0: posts to the next rank of the ring
  splitFlag,           \* the turn of the ranks of each card
  inBuff, outBuff,     \* halves and slices of the cross buffers
  recvusr              \* what the user of each rank holds, by call and chunk

vars == <<chunks, op, pc, chunk, i, synced, prevcnt, prevflag, nextcnt,
          nextflag, splitFlag, inBuff, outBuff, recvusr>>
stream == <<chunks, op, chunk, synced, prevcnt, nextcnt>>
device == <<prevflag, nextflag, splitFlag, inBuff, outBuff, recvusr>>

Cards == 0 .. allCardNum - 1
Ranks == Cards \X (0 .. rank_num - 1)
card_id(r) == r[1]
rank_id(r) == r[2]
SameCard(r, q) == card_id(r) = card_id(q)

Minus(c, k) == (c - k + 2 * allCardNum) % allCardNum
phyNextRank(r) == <<Minus(card_id(r), -1), rank_id(r)>>
phyPrevRank(r) == <<Minus(card_id(r), 1), rank_id(r)>>

-----------------------------------------------------------------------------
Halves == 0 .. 1
Slices == Cards
Posts == 2 * (allCardNum - 1)
DEV_NUM_MAX == 4

\* A chunk, or part of the sum of one; Garbage is a sum of different chunks
\* or one in which a card counts twice.
Part(o, k, cards) == [op |-> o, chunk |-> k, cards |-> cards]
Nothing == Part(0, 0, {})
Garbage == Part(0, 0, Cards)
Add(a, b) ==
  IF a.op = b.op /\ a.chunk = b.chunk /\ a.cards \cap b.cards = {}
  THEN Part(a.op, a.chunk, a.cards \cup b.cards)
  ELSE Garbage

\* step_no++ % 2 of the chunk loop.
Half(k) == (k \div rank_num) % 2

\* The slice of the i-th post of a chunk, and the one that arrives meanwhile.
\* The second loop counts from 0 again and adds 1: allCardNum posts later,
\* the same formula.
sslice(r, n) == Minus(card_id(r), n)
Bug_rslice(r, n) == Minus(card_id(r), n)
rslice(r, n) == Minus(card_id(r), n + 1)

ifSplit(o) == chunks[o] > rank_num
Turn(o) == (2 * o - 1) % DEV_NUM_MAX

Bug_PrevSync == FALSE
PrevSync == card_num > 1

-----------------------------------------------------------------------------
Init ==
  /\ chunks \in [1 .. NumOps -> 1 .. MaxChunks]
  /\ op = [r \in Ranks |-> 1]
  /\ pc = [r \in Ranks |-> "enter"]
  /\ chunk = [r \in Ranks |-> 0]
  /\ i = [r \in Ranks |-> 0]
  /\ synced = [r \in Ranks |-> 0]
  /\ prevcnt = [r \in Ranks |-> 0] /\ prevflag = prevcnt
  /\ nextcnt = [r \in Ranks |-> 0] /\ nextflag = nextcnt
  /\ splitFlag = [c \in Cards |-> [s \in 0 .. DEV_NUM_MAX - 1 |-> 0]]
  /\ inBuff = [r \in Ranks |-> [h \in Halves |-> [s \in Slices |-> Nothing]]]
  /\ outBuff = inBuff
  /\ recvusr = [r \in Ranks |->
       [o \in 1 .. NumOps |-> [k \in 0 .. MaxChunks - 1 |-> Nothing]]]

At(r, l) == op[r] <= NumOps /\ pc[r] = l
Goto(r, l) == pc' = [pc EXCEPT ![r] = l]

\* The head of the chunk loop: is there a chunk k for this rank?
Loop(r, k) ==
  Goto(r, IF k >= chunks[op[r]] THEN "enter2" ELSE IF ifSplit(op[r]) THEN "turn" ELSE "kernel")

\* tcclEnqueueCheck_func publishes the user buffers and synchronises the card.
EnterCard(r) ==
  /\ At(r, "enter")
  /\ synced' = [synced EXCEPT ![r] = @ + 1]
  /\ Goto(r, "leave")
  /\ UNCHANGED <<chunks, op, chunk, i, prevcnt, nextcnt, device>>

Together(r) == \A q \in Ranks : SameCard(r, q) => synced[q] >= synced[r]

\* devList holds the buffers of every rank of the card for this call.
Published(r) ==
  \A q \in Ranks : SameCard(r, q) => op[q] = op[r] /\ pc[q] # "enter"

LeaveCard(r) ==
  /\ At(r, "leave") /\ Together(r)
  /\ Goto(r, IF PrevSync THEN "prevflag" ELSE "reset")
  /\ UNCHANGED <<stream, i, device>>

Bug_SendPrevFlag(r) ==
  /\ At(r, "prevflag")
  /\ prevcnt' = [prevcnt EXCEPT ![r] = @ + 1]
  /\ prevflag' = [prevflag EXCEPT ![phyPrevRank(r)] = prevcnt[r]]
  /\ Goto(r, "prevwait")
  /\ UNCHANGED <<chunks, op, chunk, i, synced, nextcnt, nextflag, splitFlag,
                 inBuff, outBuff, recvusr>>

\* tcclDevSyncToPrevCard: tell the previous rank, wait for the next one.
SendPrevFlag(r) ==
  /\ At(r, "prevflag")
  /\ prevcnt' = [prevcnt EXCEPT ![r] = @ + 1]
  /\ prevflag' = [prevflag EXCEPT ![phyPrevRank(r)] = prevcnt[r] + 1]
  /\ Goto(r, "prevwait")
  /\ UNCHANGED <<chunks, op, chunk, i, synced, nextcnt, nextflag, splitFlag,
                 inBuff, outBuff, recvusr>>

WaitPrevFlag(r) ==
  /\ At(r, "prevwait") /\ prevflag[r] >= prevcnt[r]
  /\ Goto(r, "reset")
  /\ UNCHANGED <<stream, i, device>>

\* rank_id 0 resets the turn; the chunk loop begins.
ResetTurn(r) ==
  /\ At(r, "reset")
  /\ splitFlag' = IF rank_id(r) = 0 /\ ifSplit(op[r])
                  THEN [splitFlag EXCEPT ![card_id(r)][Turn(op[r])] = 0]
                  ELSE splitFlag
  /\ chunk' = [chunk EXCEPT ![r] = rank_id(r)]
  /\ Loop(r, rank_id(r))
  /\ UNCHANGED <<chunks, op, i, synced, prevcnt, prevflag, nextcnt, nextflag,
                 inBuff, outBuff, recvusr>>

Bug_WaitTurn(r) ==
  /\ At(r, "turn") /\ splitFlag[card_id(r)][Turn(op[r])] >= rank_id(r)
  /\ Goto(r, "kernel")
  /\ UNCHANGED <<stream, i, device>>

\* With several rounds of chunks the ranks of a card take turns.
WaitTurn(r) ==
  /\ At(r, "turn") /\ splitFlag[card_id(r)][Turn(op[r])] = rank_id(r)
  /\ Goto(r, "kernel")
  /\ UNCHANGED <<stream, i, device>>

StartKernel(r) ==
  /\ At(r, "kernel")
  /\ Goto(r, "running")
  /\ UNCHANGED <<stream, i, device>>

\* The turn of the rank after r.
NextTurn(r) == (rank_id(r) + 1) % rank_num

\* The chunk, summed over the card (or copied, one rank per card), is in
\* inBuff; the turn goes to the next rank.
FinishKernel(r) ==
  LET own == IF Published(r) THEN Part(op[r], chunk[r], {card_id(r)}) ELSE Garbage IN
  /\ At(r, "running")
  /\ inBuff' = [inBuff EXCEPT ![r][Half(chunk[r])] = [s \in Slices |-> own]]
  /\ splitFlag' = IF ifSplit(op[r])
                  THEN [splitFlag EXCEPT ![card_id(r)][Turn(op[r])] = NextTurn(r)]
                  ELSE splitFlag
  /\ i' = [i EXCEPT ![r] = 0]
  /\ Goto(r, "post")
  /\ UNCHANGED <<stream, prevflag, nextflag, outBuff, recvusr>>

\* tcclRankSendPost: a slice goes to outBuff of the next rank, the first one
\* from inBuff, the later ones from outBuff; then the flag.
Post(r) ==
  LET h == Half(chunk[r])
      s == sslice(r, i[r])
      q == phyNextRank(r) IN
  /\ At(r, "post")
  /\ outBuff' = [outBuff EXCEPT ![q][h][s] =
       IF i[r] = 0 THEN inBuff[r][h][s] ELSE outBuff[r][h][s]]
  /\ nextcnt' = [nextcnt EXCEPT ![r] = @ + 1]
  /\ nextflag' = [nextflag EXCEPT ![q] = nextcnt[r] + 1]
  /\ Goto(r, "wait")
  /\ UNCHANGED <<chunks, op, chunk, i, synced, prevcnt, prevflag, splitFlag,
                 inBuff, recvusr>>

\* The post of the previous rank has arrived: add to it in the first
\* allCardNum - 1 rounds, then go on to the next post.
Wait(r) ==
  /\ At(r, "wait") /\ nextflag[r] >= nextcnt[r]
  /\ Goto(r, IF i[r] < allCardNum - 1 THEN "calc"
             ELSE IF i[r] < Posts - 1 THEN "post" ELSE "move")
  /\ i' = IF i[r] < allCardNum - 1 THEN i ELSE [i EXCEPT ![r] = @ + 1]
  /\ UNCHANGED <<stream, device>>

\* tcclDeviceCalculate(send + r_off, recv + r_off, recv + r_off)
Calculate(r) ==
  LET h == Half(chunk[r])
      s == rslice(r, i[r]) IN
  /\ At(r, "calc")
  /\ outBuff' = [outBuff EXCEPT ![r][h][s] = Add(inBuff[r][h][s], @)]
  /\ i' = [i EXCEPT ![r] = @ + 1]
  /\ Goto(r, "post")
  /\ UNCHANGED <<stream, prevflag, nextflag, splitFlag, inBuff, recvusr>>

\* tccl_move_to_list: the sum goes to the users of the card.
Total(o, k) == Part(o, k, Cards)
Move(r) ==
  LET half == outBuff[r][Half(chunk[r])]
      sum == IF Published(r) /\ \A s \in Slices : half[s] = Total(op[r], chunk[r])
             THEN Total(op[r], chunk[r]) ELSE Garbage IN
  /\ At(r, "move")
  /\ recvusr' = [q \in Ranks |->
       IF SameCard(r, q) THEN [recvusr[q] EXCEPT ![op[r]][chunk[r]] = sum]
       ELSE recvusr[q]]
  /\ chunk' = [chunk EXCEPT ![r] = @ + rank_num]
  /\ Loop(r, chunk[r] + rank_num)
  /\ UNCHANGED <<chunks, op, i, synced, prevcnt, prevflag, nextcnt, nextflag,
                 splitFlag, inBuff, outBuff>>

\* The card synchronises again, rank_id 0 resets the turn, the call is over.
EnterCardAgain(r) ==
  /\ At(r, "enter2")
  /\ synced' = [synced EXCEPT ![r] = @ + 1]
  /\ Goto(r, "leave2")
  /\ UNCHANGED <<chunks, op, chunk, i, prevcnt, nextcnt, device>>

LeaveCardAgain(r) ==
  /\ At(r, "leave2") /\ Together(r)
  /\ splitFlag' = IF rank_id(r) = 0 /\ ifSplit(op[r])
                  THEN [splitFlag EXCEPT ![card_id(r)][Turn(op[r])] = 0]
                  ELSE splitFlag
  /\ op' = [op EXCEPT ![r] = @ + 1]
  /\ chunk' = [chunk EXCEPT ![r] = 0]
  /\ i' = [i EXCEPT ![r] = 0]
  /\ Goto(r, "enter")
  /\ UNCHANGED <<chunks, synced, prevcnt, nextcnt, prevflag, nextflag, inBuff,
                 outBuff, recvusr>>

Stream(r) ==
  \/ EnterCard(r) \/ LeaveCard(r) \/ SendPrevFlag(r) \/ WaitPrevFlag(r)
  \/ ResetTurn(r) \/ WaitTurn(r) \/ StartKernel(r) \/ FinishKernel(r)
  \/ Post(r) \/ Wait(r) \/ Calculate(r) \/ Move(r)
  \/ EnterCardAgain(r) \/ LeaveCardAgain(r)

Finished ==
  /\ \A r \in Ranks : op[r] > NumOps
  /\ UNCHANGED vars

Next == (\E r \in Ranks : Stream(r)) \/ Finished

Spec == Init /\ [][Next]_vars

\* Some device keeps executing what is queued.  Every step shortens what is
\* left to do, so this weakest form of fairness is enough.
FairSpec == Spec /\ WF_vars(\E r \in Ranks : Stream(r))

-----------------------------------------------------------------------------
\* A finished call leaves every user with the sum over all cards of every
\* chunk of that call, however far the streams of the ranks drift apart.
ResultCorrect ==
  \A r \in Ranks : \A o \in 1 .. op[r] - 1 : \A k \in 0 .. chunks[o] - 1 :
    recvusr[r][o][k] = Total(o, k)

\* While a rank works on a chunk nobody posts data of a later chunk or call
\* into the half of outBuff it is working in.
Working(r) == pc[r] \in {"post", "wait", "calc", "move"}
NoOverwrite ==
  \A r \in Ranks : Working(r) =>
    \A s \in Slices :
      LET part == outBuff[r][Half(chunk[r])][s] IN
      \/ part.op < op[r]
      \/ part.op = op[r] /\ part.chunk <= chunk[r]

\* "split operations for each device in one card": in a call of more than
\* one round no two ranks of a card run their kernels at the same time.
KernelsTakeTurns ==
  \A r, q \in Ranks :
    /\ r # q /\ SameCard(r, q)
    /\ pc[r] = "running" /\ pc[q] = "running"
    => ~ifSplit(op[r])

\* Every call completes on every rank.
CallsComplete == <>(\A r \in Ranks : op[r] > NumOps)
=============================================================================
