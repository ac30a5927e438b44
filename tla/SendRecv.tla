------------------------------ MODULE SendRecv -----------------------------
(***************************************************************************)
(* Transfers between pairs of ranks on the device streams: tcclCollSend    *)
(* and tcclCollRecv of tcclEnqueueCheck_func, and the rounds of            *)
(* tcclCollAlltoall in tcclPublicWork.  A receive announces itself to the  *)
(* sender, the sender moves the data and announces that to the receiver.   *)
(* How the data moves depends on the connection:                           *)
(*   Direct(r, p)   a send on the same card (TCCL_DMA): the sender writes  *)
(*                  into the user buffer the receiver published in devList;*)
(*   otherwise      user buffer -> the sender's inBuff -> the receiver's   *)
(*                  outBuff -> user buffer.                                *)
(* Every rank has ONE inBuff and ONE outBuff for all of its peers, and     *)
(* for each peer SYNC_NUM flags, used round robin and waited for with EQ.  *)
(*                                                                         *)
(* A round of tcclAlltoall exchanges a piece with two peers at once: to    *)
(* "peer" and from "from".  It ends with a barrier of the card, which      *)
(* DevSync models in detail, and a flag from the previous card.            *)
(*                                                                         *)
(* The host only appends commands to the stream of its rank and captures   *)
(* the counters as it does; their values do not depend on when the host    *)
(* runs and the counters are advanced here with the commands.              *)
(*                                                                         *)
(* The device runtime is external: a stream executes its commands in order *)
(* and a remote write follows the data written before it.  The local copy  *)
(* of a flag (tmpBuff) is written and read by its own stream alone and is  *)
(* one step with the remote write.                                         *)
(***************************************************************************)
EXTENDS Integers, Sequences, FiniteSets

CONSTANTS nranks,      \* ranks of the communicator
          card,        \* the card of every rank
          phyNextRank, \* its partner on the next card of the ring
          Programs     \* the operations each rank may queue

Ranks == 0 .. nranks - 1
Ops == [op : {"send", "recv"}, peer : Ranks]
       \cup [op : {"exchange"}, peer : Ranks, from : Ranks]

ASSUME NranksAssumption == nranks \in Nat \ {0}
ASSUME RingAssumption == card \in [Ranks -> Nat] /\ phyNextRank \in [Ranks -> Ranks]
ASSUME ProgramsAssumption ==
  \A p \in Programs :
    /\ p \in [Ranks -> Seq(Ops)]
    /\ \A r \in Ranks : \A k \in 1 .. Len(p[r]) : p[r][k].peer # r

\* Whom an operation sends data to and receives data from.
Target(o) == IF o.op = "recv" THEN {} ELSE {o.peer}
Source(o) == IF o.op = "send" THEN {} ELSE IF o.op = "recv" THEN {o.peer} ELSE {o.from}
Partners(o) == Target(o) \cup Source(o)

\* In program g, of the first k operations of r: the sends to p, the receipts
\* from p, and those that do either.
SendsIn(g, r, k, p) == Cardinality({j \in 1 .. k : p \in Target(g[r][j])})
ReceiptsIn(g, r, k, p) == Cardinality({j \in 1 .. k : p \in Source(g[r][j])})
RoundsIn(g, r, k, p) == Cardinality({j \in 1 .. k : p \in Partners(g[r][j])})

\* What the application has to see to: the operations between two ranks come
\* in the same order on both, a send on one side where the other receives,
\* and a collective call is made by both.
Matched(g) ==
  \A r, p \in Ranks : \A k \in 1 .. Len(g[r]), l \in 1 .. Len(g[p]) :
    p \in Partners(g[r][k]) /\ r \in Partners(g[p][l]) /\ RoundsIn(g, r, k, p) = RoundsIn(g, p, l, r) =>
      /\ SendsIn(g, r, k, p) = ReceiptsIn(g, p, l, r)
      /\ g[r][k].op = "exchange" <=> g[p][l].op = "exchange"
ASSUME MatchingAssumption == \A g \in Programs : Matched(g)

VARIABLES
  prog,                    \* the operations of every rank, in stream order
  at, step,                \* the operation and command a stream is at
  sendcntall, recvcntall,  \* notifies and waits queued, for every peer
  flag,                    \* flag_devi: flag[r][p][slot], written by p
  inBuff, outBuff,         \* what the two cross buffers of a rank hold
  recvList,                \* devList + DEV_NUM: the receive published last
  recvbuf,                 \* what every operation has received for the user
  syncnt,                  \* card barriers a rank has signalled
  all2allcnt, told         \* rounds of tcclAlltoall; flag 3, from the previous card

cross == <<inBuff, outBuff, recvList, recvbuf>>
ring == <<syncnt, all2allcnt, told>>
vars == <<prog, at, step, sendcntall, recvcntall, flag, cross, ring>>

Nothing == <<>>
NoOp == 0

-----------------------------------------------------------------------------
Bug_SYNC_NUM == 1
SYNC_NUM == 2
Slots == 0 .. SYNC_NUM - 1

Direct(r, p) == card[r] = card[p]

\* The commands of an operation.
Bug_SendScript(r, p) ==
  IF Direct(r, p) THEN <<"wait", "transfer", "notify">> ELSE <<"copy", "transfer", "notify">>
SendScript(r, p) ==
  IF Direct(r, p) THEN <<"wait", "transfer", "notify">>
  ELSE <<"copy", "wait", "transfer", "notify">>
RecvScript(r, p) ==
  IF Direct(r, p) THEN <<"publish", "notify", "wait">> ELSE <<"notify", "wait", "take">>
Bug_AlltoallScript ==
  <<"ready", "copy", "transfer", "notify", "await", "take",
    "signal", "barrier", "tell", "told">>
AlltoallScript ==
  <<"ready", "copy", "wait", "transfer", "notify", "await", "take",
    "signal", "barrier", "tell", "told">>
Script(r, o) ==
  CASE o.op = "send" -> SendScript(r, o.peer)
    [] o.op = "recv" -> RecvScript(r, o.peer)
    [] OTHER -> AlltoallScript

Active(r) == at[r] <= Len(prog[r])
Cur(r) == prog[r][at[r]]
Command(r) == Script(r, Cur(r))[step[r]]
At(r, c) == Active(r) /\ Command(r) = c

\* Messages are named by who sends them and their number between the two.
Message(s, n) == <<s, n>>
Sends(r, k, p) == SendsIn(prog, r, k, p)
Receipts(r, k, p) == ReceiptsIn(prog, r, k, p)

Init ==
  /\ prog \in Programs
  /\ at = [r \in Ranks |-> 1]
  /\ step = [r \in Ranks |-> 1]
  /\ sendcntall = [r \in Ranks |-> [p \in Ranks |-> 0]]
  /\ recvcntall = [r \in Ranks |-> [p \in Ranks |-> 0]]
  /\ flag = [r \in Ranks |-> [p \in Ranks |-> [s \in Slots |-> 0]]]
  /\ inBuff = [r \in Ranks |-> Nothing]
  /\ outBuff = [r \in Ranks |-> Nothing]
  /\ recvList = [r \in Ranks |-> NoOp]
  /\ recvbuf = [r \in Ranks |-> [k \in 1 .. Len(prog[r]) |-> Nothing]]
  /\ syncnt = [r \in Ranks |-> 0]
  /\ all2allcnt = [r \in Ranks |-> 0]
  /\ told = [r \in Ranks |-> 0]

\* On to the next command, of this operation or the next one.
Advance(r) ==
  /\ IF step[r] < Len(Script(r, Cur(r)))
     THEN step' = [step EXCEPT ![r] = @ + 1] /\ UNCHANGED at
     ELSE step' = [step EXCEPT ![r] = 1] /\ at' = [at EXCEPT ![r] = @ + 1]
  /\ UNCHANGED prog

-----------------------------------------------------------------------------
\* The user's data goes to the inBuff of the sender.
CopyIn(r) ==
  /\ At(r, "copy")
  /\ inBuff' = [inBuff EXCEPT ![r] = Message(r, Sends(r, at[r], Cur(r).peer))]
  /\ Advance(r)
  /\ UNCHANGED <<sendcntall, recvcntall, flag, outBuff, recvList, recvbuf, ring>>

\* Receive, direct: the address of the user buffer is published.
Publish(r) ==
  /\ At(r, "publish")
  /\ recvList' = [recvList EXCEPT ![r] = at[r]]
  /\ Advance(r)
  /\ UNCHANGED <<sendcntall, recvcntall, flag, inBuff, outBuff, recvbuf, ring>>

\* A receiver is ready, or a sender has sent.
tcclSendRecvNotify(r, p) ==
  LET value == sendcntall[r][p] + 1 IN
  /\ sendcntall' = [sendcntall EXCEPT ![r][p] = value]
  /\ flag' = [flag EXCEPT ![p][r][value % SYNC_NUM] = value]
  /\ Advance(r)
  /\ UNCHANGED <<recvcntall, cross, ring>>

\* The flag of the peer EQUALs the awaited value.
tcclSendRecvWait(r, p) ==
  LET value == recvcntall[r][p] + 1 IN
  /\ flag[r][p][value % SYNC_NUM] = value
  /\ recvcntall' = [recvcntall EXCEPT ![r][p] = value]
  /\ Advance(r)
  /\ UNCHANGED <<sendcntall, flag, cross, ring>>

\* The partner of an operation, and the source of a round of tcclAlltoall.
NotifyPeer(r) == At(r, "notify") /\ tcclSendRecvNotify(r, Cur(r).peer)
WaitPeer(r) == At(r, "wait") /\ tcclSendRecvWait(r, Cur(r).peer)
NotifySource(r) == At(r, "ready") /\ tcclSendRecvNotify(r, Cur(r).from)
WaitSource(r) == At(r, "await") /\ tcclSendRecvWait(r, Cur(r).from)

\* tcclTransportSend and tcclRankSendPostNoWait: the data moves to the receiver.
Transfer(r) ==
  LET p == Cur(r).peer IN
  /\ At(r, "transfer")
  /\ IF Cur(r).op = "send" /\ Direct(r, p)
     THEN /\ recvbuf' = [recvbuf EXCEPT ![p][recvList[p]] = Message(r, Sends(r, at[r], p))]
          /\ UNCHANGED outBuff
     ELSE /\ outBuff' = [outBuff EXCEPT ![p] = inBuff[r]]
          /\ UNCHANGED recvbuf
  /\ Advance(r)
  /\ UNCHANGED <<sendcntall, recvcntall, flag, inBuff, recvList, ring>>

\* The data goes from outBuff to the user.
Take(r) ==
  /\ At(r, "take")
  /\ recvbuf' = [recvbuf EXCEPT ![r][at[r]] = outBuff[r]]
  /\ Advance(r)
  /\ UNCHANGED <<sendcntall, recvcntall, flag, inBuff, outBuff, recvList, ring>>

\* tcclDevSyncCard, as the abstract barrier that DevSync implements.
Signal(r) ==
  /\ At(r, "signal")
  /\ syncnt' = [syncnt EXCEPT ![r] = @ + 1]
  /\ Advance(r)
  /\ UNCHANGED <<sendcntall, recvcntall, flag, cross, all2allcnt, told>>
PassBarrier(r) ==
  /\ At(r, "barrier")
  /\ \A q \in Ranks : card[q] = card[r] => syncnt[q] >= syncnt[r]
  /\ Advance(r)
  /\ UNCHANGED <<sendcntall, recvcntall, flag, cross, ring>>

\* Flag 3 goes to the next card of the ring; the wait is GEQ.
TellNext(r) ==
  LET value == all2allcnt[r] + 1 IN
  /\ At(r, "tell")
  /\ all2allcnt' = [all2allcnt EXCEPT ![r] = value]
  /\ told' = [told EXCEPT ![phyNextRank[r]] = value]
  /\ Advance(r)
  /\ UNCHANGED <<sendcntall, recvcntall, flag, cross, syncnt>>
WaitTold(r) ==
  /\ At(r, "told")
  /\ told[r] >= all2allcnt[r]
  /\ Advance(r)
  /\ UNCHANGED <<sendcntall, recvcntall, flag, cross, ring>>

Stream(r) ==
  \/ CopyIn(r) \/ Publish(r) \/ NotifyPeer(r) \/ WaitPeer(r)
  \/ NotifySource(r) \/ WaitSource(r) \/ Transfer(r) \/ Take(r)
  \/ Signal(r) \/ PassBarrier(r) \/ TellNext(r) \/ WaitTold(r)

Finished ==
  /\ \A r \in Ranks : ~Active(r)
  /\ UNCHANGED vars

Next == (\E r \in Ranks : Stream(r)) \/ Finished

Spec == Init /\ [][Next]_vars

\* Devices keep executing what is queued.
FairSpec == Spec /\ WF_vars(\E r \in Ranks : Stream(r))

-----------------------------------------------------------------------------
\* Every receive a rank has completed holds the message of the matching send
\* and keeps it: no other peer's data came between through the shared cross
\* buffers or the shared address list, none was overwritten before it was
\* taken.
Delivered ==
  \A r \in Ranks : \A k \in 1 .. at[r] - 1 : \A p \in Source(prog[r][k]) :
    recvbuf[r][k] = Message(p, Receipts(r, k, p))

\* No flag runs past the value its reader is going to wait for: with EQ such
\* a wait would never end.  When the direction between two ranks alternates
\* one of them may be two notifies ahead of the other.
NoOvershoot ==
  \A r, p \in Ranks :
    LET value == recvcntall[r][p] + 1 IN flag[r][p][value % SYNC_NUM] <= value

\* Rendezvous: a send completes only when its receiver has announced the
\* matching receive.
Announced(r, k) ==
  \/ k < at[r]
  \/ k = at[r] /\ \E s \in 1 .. step[r] - 1 : Script(r, prog[r][k])[s] \in {"ready", "notify"}
Rendezvous ==
  \A r \in Ranks : \A k \in 1 .. at[r] - 1 : \A p \in Target(prog[r][k]) :
    \E l \in 1 .. Len(prog[p]) :
      /\ r \in Source(prog[p][l]) /\ Receipts(p, l, r) = Sends(r, k, p)
      /\ Announced(p, l)

\* Programs without a cyclic wait of the application's own making run to
\* their end.
AllComplete == <>(\A r \in Ranks : ~Active(r))
=============================================================================
