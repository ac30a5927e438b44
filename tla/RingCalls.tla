----------------------------- MODULE RingCalls -----------------------------
(***************************************************************************)
(* Any sequence of collective calls over one ring of cards (tcclPublicWork *)
(* after the card barrier of tcclEnqueueCheck_func).  All calls share the  *)
(* two cross buffers of a rank, a few flags and the counters of tcclDevSync*)
(* and each moves its data differently:                                    *)
(*   allreduce, allgather, reducescatter   turn by turn with the neighbours*)
(*       in alternating halves of the buffers (RingAllReduce has the turns *)
(*       of the ranks of a card);                                          *)
(*   broadcast, reduce    a pipeline from card to card through all slots of*)
(*       the buffers, with acknowledgements (broadcast) or one window sync *)
(*       per round of the slots (reduce) once the slots are used again.    *)
(*                                                                         *)
(* The ranks with the same rank_id on all cards form a ring of their own,  *)
(* and the chunks of a call are dealt out to the rings of the rank_num     *)
(* ranks of a card (but for allgather and reducescatter, whose data is the *)
(* ring's own).  The module is one ring; a rank is named by its card.      *)
(*                                                                         *)
(* The host queues the commands of a call with the values its counters     *)
(* have at that time; a call's commands do not depend on what the devices  *)
(* did, so a call is queued here when the stream of its rank is done with  *)
(* the one before.                                                         *)
(* Data is abstracted to who contributed to it.                            *)
(***************************************************************************)
EXTENDS Integers, SequencesExt

CONSTANTS allCardNum,  \* cards of the communicator, the length of the ring
          card_num,    \* cards of each node
          rank_num,    \* ranks on each card
          rank_id,     \* the ring that is modelled
          nChunks,     \* slots of a cross buffer, in pipelines
          Programs     \* the sequences of calls to check

Colls == {"allreduce", "allgather", "reducescatter", "broadcast", "reduce"}
Cards == 0 .. allCardNum - 1
\* Calls with the size of their data in chunks.
Calls == [coll : Colls, root : Cards, size : Nat \ {0}]

ASSUME SizesAssumption ==
  /\ allCardNum \in Nat \ {0, 1} /\ card_num \in 1 .. allCardNum
  /\ rank_num \in Nat \ {0} /\ rank_id \in 0 .. rank_num - 1
  /\ nChunks \in {n \in Nat \ {0} : n % 2 = 0}
ASSUME ProgramsAssumption == \A p \in Programs : \A k \in 1 .. Len(p) : p[k] \in Calls

VARIABLES
  prog,             \* the calls, the same on every rank
  call,             \* the number of the call a rank's stream is in
  todo,             \* the commands left of it
  sync,             \* the host's counters (tcclDevSync and step_no)
  flag,             \* flag_devi of every rank
  inBuff, outBuff,  \* the cross buffers: slots of slices
  recvusr           \* what this call has given the user

vars == <<prog, call, todo, sync, flag, inBuff, outBuff, recvusr>>

-----------------------------------------------------------------------------
BCAST_FLAG_START_NO == 100
Slots == 0 .. nChunks - 1
AckFlag(slot) == BCAST_FLAG_START_NO + slot
Flags == {0, 1} \cup {AckFlag(s) : s \in Slots}

Minus(c, k) == (c - k + 2 * allCardNum) % allCardNum
phyNextRank(r) == Minus(r, -1)
phyPrevRank(r) == Minus(r, 1)

\* Slice s of step n of a call, or part of its sum.
Part(o, n, s, cards) == [call |-> o, step |-> n, slice |-> s, cards |-> cards]
Nothing == Part(0, 0, 0, {})
Garbage == Part(0, 0, 0, Cards)
Add(a, b) ==
  IF [a EXCEPT !.cards = {}] = [b EXCEPT !.cards = {}] /\ a.cards \cap b.cards = {}
  THEN [a EXCEPT !.cards = @ \cup b.cards]
  ELSE Garbage

-----------------------------------------------------------------------------
\* The commands of a stream.  User data goes to a slot:
Fill(buf, slot, slices, n) ==
  [do |-> "fill", buf |-> buf, slot |-> slot, slices |-> slices, step |-> n]
\* slices go to outBuff of the next rank, followed by flag 0:
Post(buf, slot, slices, v) ==
  [do |-> "post", buf |-> buf, slot |-> slot, slices |-> slices, value |-> v]
\* a flag is set at a neighbour, or waited for:
SendFlag(no, v, peer) == [do |-> "flag", no |-> no, value |-> v, peer |-> peer]
WaitFlag(no, v) == [do |-> "wait", no |-> no, value |-> v, eq |-> FALSE]
WaitFlagEQ(no, v) == [do |-> "wait", no |-> no, value |-> v, eq |-> TRUE]
\* what arrived is added to, with the sum left in outBuff or given to the user:
Calculate(slot, slices) ==
  [do |-> "calc", slot |-> slot, slices |-> slices]
ReduceCopy(slot, slices) ==
  [do |-> "reducecopy", slot |-> slot, slices |-> slices]
\* a buffer, or the user's own data of a step, goes to the user.
Move(buf, slot, slices) ==
  [do |-> "move", buf |-> buf, slot |-> slot, slices |-> slices]

When(test, commands) == IF test THEN commands ELSE <<>>
For(n, Body(_)) == FlattenSeq([k \in 1 .. n |-> Body(k)])

\* The steps of a call for this ring, and of the ring that has the most.
Steps(c) ==
  IF c.coll \in {"allgather", "reducescatter"} THEN c.size
  ELSE (c.size - rank_id + rank_num - 1) \div rank_num
AllSteps(c) ==
  IF c.coll \in {"allgather", "reducescatter"} THEN c.size
  ELSE (c.size + rank_num - 1) \div rank_num

HalfSlot(n) == (n % 2) * (nChunks \div 2)

\* tcclDevSyncToPrevCard, the start of every call if nodes have several cards.
Synced(h) == IF card_num > 1 THEN [h EXCEPT !.prevcnt = @ + 1] ELSE h
PrevSync(r, h) ==
  When(card_num > 1,
       <<SendFlag(1, Synced(h).prevcnt, phyPrevRank(r)), WaitFlag(1, Synced(h).prevcnt)>>)

\* One step of each call (k from 1), with the counters at its start in h.
AllReduceStep(r, h, k) ==
  LET slot == HalfSlot(k - 1)
      v(i) == h.nextcnt + 2 * (k - 1) * (allCardNum - 1) + i
      reduce(i) == <<Post(IF i = 1 THEN "in" ELSE "out", slot, {Minus(r, i - 1)}, v(i)),
                     WaitFlag(0, v(i)), Calculate(slot, {Minus(r, i)})>>
      gather(i) == <<Post("out", slot, {Minus(r, i - 2)}, v(allCardNum - 1 + i)),
                     WaitFlag(0, v(allCardNum - 1 + i))>> IN
  <<Fill("in", slot, Cards, k)>>
  \o For(allCardNum - 1, reduce) \o For(allCardNum - 1, gather)
  \o <<Move("out", slot, Cards)>>

AllGatherStep(r, h, k) ==
  LET slot == HalfSlot(h.step_no + k - 1)
      v(i) == h.nextcnt + (k - 1) * (allCardNum - 1) + i
      pass(i) == <<Post("out", slot, {Minus(r, i - 1)}, v(i)), WaitFlag(0, v(i)),
                   Move("out", slot, {Minus(r, i)})>> IN
  <<Fill("out", slot, {r}, k), Move("user", k, {r})>> \o For(allCardNum - 1, pass)

ReduceScatterStep(r, h, k) ==
  LET slot == HalfSlot(h.step_no + k - 1)
      v(i) == h.nextcnt + (k - 1) * (allCardNum - 1) + i
      pass(i) == When(i > 1, <<Calculate(slot, {Minus(r, i)})>>)
                 \o <<Post(IF i = 1 THEN "in" ELSE "out", slot, {Minus(r, i)}, v(i)),
                      WaitFlag(0, v(i))>> IN
  <<Fill("in", slot, Cards, k)>> \o For(allCardNum - 1, pass) \o <<ReduceCopy(slot, {r})>>

\* Only a broadcast that uses slots again has acknowledgements: the k-th step
\* waits for the slot to be free.
reuseCross(c) == c.size > rank_num * nChunks
WaitAck(h, c, k) ==
  When(reuseCross(c) /\ k > nChunks,
       <<WaitFlagEQ(AckFlag((k - 1) % nChunks), h.myBcastCnt + k - nChunks)>>)
SendAck(r, h, c, k) ==
  When(reuseCross(c),
       <<SendFlag(AckFlag((k - 1) % nChunks), h.peerBcastCnt + k, phyPrevRank(r))>>)

BroadcastStep(r, c, h, k) ==
  LET slot == (k - 1) % nChunks
      v == h.nextcnt + k IN
  IF r = c.root
  THEN <<Fill("in", slot, Cards, k)>> \o WaitAck(h, c, k)
       \o <<Post("in", slot, Cards, v), Move("in", slot, Cards)>>
  ELSE <<WaitFlag(0, v)>>
       \o When(phyNextRank(r) # c.root, WaitAck(h, c, k) \o <<Post("out", slot, Cards, v)>>)
       \o <<Move("out", slot, Cards)>> \o SendAck(r, h, c, k)

\* One window sync per round of the slots, from the second round on.
Bug_NeedPrevSync(h, k) ==
  k > nChunks + 1 /\ (h.prevcnt + k) % nChunks = (h.prevcnt + 1) % nChunks
NeedPrevSync(h, k) ==
  k > nChunks /\ (h.prevcnt + k) % nChunks = (h.prevcnt + 1) % nChunks

ReduceStep(r, c, h, k) ==
  LET slot == (h.step_no + k - 1) % nChunks
      v == h.nextcnt + k
      need == NeedPrevSync(h, k)
      wait == When(need, <<WaitFlag(1, h.prevcnt + k)>>)
      free == When(need, <<SendFlag(1, h.prevcnt + k, phyPrevRank(r))>>) IN
  <<Fill("in", slot, Cards, k)>> \o
  IF phyPrevRank(r) = c.root THEN wait \o <<Post("in", slot, Cards, v)>>
  ELSE IF r = c.root THEN free \o <<WaitFlag(0, v), ReduceCopy(slot, Cards)>>
  ELSE free \o <<WaitFlag(0, v), Calculate(slot, Cards)>>
       \o wait \o <<Post("out", slot, Cards, v)>>

\* The commands of a call and the counters after it; h has the counters
\* after PrevSync.
Commands(r, c, h) ==
  LET step(k) ==
        CASE c.coll = "allreduce" -> AllReduceStep(r, h, k)
          [] c.coll = "allgather" -> AllGatherStep(r, h, k)
          [] c.coll = "reducescatter" -> ReduceScatterStep(r, h, k)
          [] c.coll = "broadcast" -> BroadcastStep(r, c, h, k)
          [] c.coll = "reduce" -> ReduceStep(r, c, h, k) IN
  For(Steps(c), step)

Bug_Resync(h, c) == h.myBcastCnt
\* "comm->sync.myBcastCnt = comm->sync.peerBcastCnt" at the end of a broadcast.
Resync(h, c) == h.peerBcastCnt + Steps(c)

PrevCount(c) == IF c.coll = "reduce" THEN Steps(c) ELSE 0

Counters(c, h) ==
  LET posts == CASE c.coll = "allreduce" -> 2 * (allCardNum - 1)
                 [] c.coll \in {"allgather", "reducescatter"} -> allCardNum - 1
                 [] OTHER -> 1 IN
  [nextcnt |-> h.nextcnt + Steps(c) * posts,
   prevcnt |-> h.prevcnt + PrevCount(c),
   step_no |-> h.step_no + (IF c.coll \in {"allreduce", "broadcast"} THEN 0 ELSE AllSteps(c)),
   peerBcastCnt |-> h.peerBcastCnt + (IF c.coll = "broadcast" THEN Steps(c) ELSE 0),
   myBcastCnt |-> IF c.coll = "broadcast" THEN Resync(h, c) ELSE h.myBcastCnt]

-----------------------------------------------------------------------------
Init ==
  /\ prog \in Programs
  /\ call = [r \in Cards |-> 0]
  /\ todo = [r \in Cards |-> <<>>]
  /\ sync = [r \in Cards |-> [nextcnt |-> 0, prevcnt |-> 0, step_no |-> 0,
                              peerBcastCnt |-> 0, myBcastCnt |-> 0]]
  /\ flag = [r \in Cards |-> [no \in Flags |-> 0]]
  /\ inBuff = [r \in Cards |-> [t \in Slots |-> [s \in Cards |-> Nothing]]]
  /\ outBuff = inBuff
  /\ recvusr = [r \in Cards |-> {}]

\* The host queues the next call.
tcclPublicWork(r) ==
  LET c == prog[call[r] + 1]
      h == Synced(sync[r]) IN
  /\ todo[r] = <<>> /\ call[r] < Len(prog)
  /\ call' = [call EXCEPT ![r] = @ + 1]
  /\ todo' = [todo EXCEPT ![r] = PrevSync(r, sync[r]) \o Commands(r, c, h)]
  /\ sync' = [sync EXCEPT ![r] = Counters(c, h)]
  /\ recvusr' = [recvusr EXCEPT ![r] = {}]
  /\ UNCHANGED <<prog, flag, inBuff, outBuff>>

\* The stream of r executes the command it is at.
At(r, do) == todo[r] # <<>> /\ Head(todo[r]).do = do
Executed(r) == todo' = [todo EXCEPT ![r] = Tail(@)] /\ UNCHANGED <<prog, call, sync>>

Own(r, n, s) == Part(call[r], n, s, {r})

\* New contents f(s) of the slices of a slot.
Put(buff, r, slot, slices, f(_)) ==
  [buff EXCEPT ![r][slot] = [s \in Cards |-> IF s \in slices THEN f(s) ELSE @[s]]]

\* What slot t of a source holds.
Slice(r, buf, t, s) ==
  CASE buf = "user" -> Own(r, t, s)
    [] buf = "in" -> inBuff[r][t][s]
    [] buf = "out" -> outBuff[r][t][s]

DoFill(r) ==
  LET m == Head(todo[r])
      own(s) == Own(r, m.step, s) IN
  /\ At(r, "fill")
  /\ IF m.buf = "in"
     THEN inBuff' = Put(inBuff, r, m.slot, m.slices, own) /\ UNCHANGED outBuff
     ELSE outBuff' = Put(outBuff, r, m.slot, m.slices, own) /\ UNCHANGED inBuff
  /\ Executed(r)
  /\ UNCHANGED <<flag, recvusr>>

tcclRankSendPostNoWait(r) ==
  LET m == Head(todo[r])
      q == phyNextRank(r)
      sent(s) == Slice(r, m.buf, m.slot, s) IN
  /\ At(r, "post")
  /\ outBuff' = Put(outBuff, q, m.slot, m.slices, sent)
  /\ flag' = [flag EXCEPT ![q][0] = m.value]
  /\ Executed(r)
  /\ UNCHANGED <<inBuff, recvusr>>

tcclRankSendFlag(r) ==
  LET m == Head(todo[r]) IN
  /\ At(r, "flag")
  /\ flag' = [flag EXCEPT ![m.peer][m.no] = m.value]
  /\ Executed(r)
  /\ UNCHANGED <<inBuff, outBuff, recvusr>>

tcclRankWaitFlag(r) ==
  LET m == Head(todo[r]) IN
  /\ At(r, "wait")
  /\ IF m.eq THEN flag[r][m.no] = m.value ELSE flag[r][m.no] >= m.value
  /\ Executed(r)
  /\ UNCHANGED <<flag, inBuff, outBuff, recvusr>>

Sum(r, t, s) == Add(inBuff[r][t][s], outBuff[r][t][s])

DoCalculate(r) ==
  LET m == Head(todo[r])
      sum(s) == Sum(r, m.slot, s) IN
  /\ At(r, "calc")
  /\ outBuff' = Put(outBuff, r, m.slot, m.slices, sum)
  /\ Executed(r)
  /\ UNCHANGED <<flag, inBuff, recvusr>>

DoReduceCopy(r) ==
  LET m == Head(todo[r]) IN
  /\ At(r, "reducecopy")
  /\ recvusr' = [recvusr EXCEPT ![r] = @ \cup {Sum(r, m.slot, s) : s \in m.slices}]
  /\ Executed(r)
  /\ UNCHANGED <<flag, inBuff, outBuff>>

tccl_move_to_list(r) ==
  LET m == Head(todo[r]) IN
  /\ At(r, "move")
  /\ recvusr' = [recvusr EXCEPT ![r] = @ \cup {Slice(r, m.buf, m.slot, s) : s \in m.slices}]
  /\ Executed(r)
  /\ UNCHANGED <<flag, inBuff, outBuff>>

Stream(r) ==
  \/ tcclPublicWork(r) \/ DoFill(r) \/ tcclRankSendPostNoWait(r)
  \/ tcclRankSendFlag(r) \/ tcclRankWaitFlag(r) \/ DoCalculate(r)
  \/ DoReduceCopy(r) \/ tccl_move_to_list(r)

Idle(r) == todo[r] = <<>> /\ call[r] = Len(prog)
Finished == (\A r \in Cards : Idle(r)) /\ UNCHANGED vars

Next == (\E r \in Cards : Stream(r)) \/ Finished

Spec == Init /\ [][Next]_vars

\* Hosts keep queueing and devices keep executing what is queued.
FairSpec == Spec /\ \A r \in Cards : WF_vars(Stream(r))

-----------------------------------------------------------------------------
\* What call number o, a call c, owes the user of r.
Result(r, o, c) ==
  LET all == 1 .. Steps(c) IN
  CASE c.coll = "allreduce" -> {Part(o, n, s, Cards) : n \in all, s \in Cards}
    [] c.coll = "allgather" -> {Part(o, n, s, {s}) : n \in all, s \in Cards}
    [] c.coll = "reducescatter" -> {Part(o, n, r, Cards) : n \in all}
    [] c.coll = "broadcast" -> {Part(o, n, s, {c.root}) : n \in all, s \in Cards}
    [] c.coll = "reduce" -> IF r = c.root THEN {Part(o, n, s, Cards) : n \in all, s \in Cards}
                            ELSE {}

\* A rank whose stream is through with a call has given its user exactly
\* the data of that call, whatever calls came before it and however far
\* ahead or behind the other ranks are.
ResultCorrect ==
  \A r \in Cards : call[r] > 0 /\ todo[r] = <<>> =>
    recvusr[r] = Result(r, call[r], prog[call[r]])

\* An acknowledgement that is waited for with EQ has not been overtaken by
\* a later one.
AckNotOvertaken ==
  \A r \in Cards : At(r, "wait") /\ Head(todo[r]).eq =>
    flag[r][Head(todo[r]).no] <= Head(todo[r]).value

\* All calls complete on every rank.
CallsComplete == <>(\A r \in Cards : Idle(r))
=============================================================================
