---------------------------- MODULE NodeAllReduce ---------------------------
(***************************************************************************)
(* The AllReduce algorithms for communicators within one node:             *)
(*   card, ct, 8c   small data: a butterfly between the cards, in stride 1,*)
(*                  2, 4 ..., that gathers and then adds, adds in every    *)
(*                  stride, or adds before the last stride;                *)
(*   bfmut          small data: halving and doubling, with a kernel that   *)
(*                  resides on the device while the stream moves the data; *)
(*   a2a            all cards exchange slices with all (four cards);       *)
(*   two, tworecv   two cards exchange halves, pushing or pulling them.    *)
(* A communicator makes any sequence of these calls and they share the     *)
(* buffers, flags and counters.  Small calls are made by rank 0 of a card  *)
(* alone, as a graph whose nodes were laid out when the communicator was   *)
(* created.  tcclSmallSizeAllreduce picks 8c and bfmut for eight cards; the*)
(* code is written for any power of two, and is checked with fewer.        *)
(*                                                                         *)
(* As in RingCalls the host queues commands that do not depend on what the *)
(* device does, so a call is queued here when its stream is through with   *)
(* the one before.  tcclDevSyncCard is used by its specification.          *)
(* Data is abstracted to who contributed to it.                            *)
(***************************************************************************)
EXTENDS Integers, Sequences, FiniteSets

CONSTANTS MaxCards, MaxRanks, \* bounds: cards of a node, ranks of a card
          DEV_NUM,            \* flags a card has for its butterfly peers
          Programs            \* node sizes and sequences of calls to check

Algs == {"card", "8c", "ct", "bfmut", "a2a", "two", "tworecv"}
Small == {"card", "8c", "ct", "bfmut"}

\* A call has a number of chunks, the last one with the given slices.
Calls == [alg : Algs, chunks : Nat \ {0}, last : Nat \ {0}]
ASSUME SizesAssumption ==
  MaxCards \in Nat \ {0} /\ MaxRanks \in Nat \ {0} /\ DEV_NUM \in {3, 4}
ASSUME ProgramsAssumption == \A p \in Programs :
  /\ p.card_num \in 2 .. MaxCards /\ p.rank_num \in 1 .. MaxRanks
  /\ \A k \in 1 .. Len(p.calls) :
       /\ p.calls[k] \in Calls /\ p.calls[k].last <= p.card_num
       /\ p.calls[k].alg \in Small => p.rank_num = 1
       /\ p.calls[k].alg \in {"two", "tworecv"} => p.card_num = 2

Cards == 0 .. MaxCards - 1
Ranks == Cards \X (0 .. MaxRanks - 1)
card_id(r) == r[1]
rank_id(r) == r[2]

VARIABLES
  prog,        \* the size of the node and the calls
  call,        \* the number of the call a rank's stream is in
  todo,        \* the commands left of it
  kernel,      \* what the resident kernel of a rank has left to do
  sync,        \* the host's counters (tcclDevSync, step_no, graph_step_no)
  entered,     \* card barriers entered (syncflag)
  flag,        \* flags in the memory of every rank
  mem,         \* smallBuff, inBuff, outBuff of every rank
  recvusr      \* what the users of each card have been given

vars == <<prog, call, todo, kernel, sync, entered, flag, mem, recvusr>>

card_num == prog.card_num
rank_num == prog.rank_num
OfCard(c) == {r \in Ranks : card_id(r) = c /\ rank_id(r) < rank_num}
Active(r) == card_id(r) < card_num /\ rank_id(r) < rank_num

-----------------------------------------------------------------------------
\* Buffers have two halves; a half has blocks (smallBuff) of slices.
Halves == 0 .. 1
Buffers == {"small", "in", "out"}
At(buf, half, block, slices) == [buf |-> buf, half |-> half, block |-> block, slices |-> slices]

\* Part of a call: a slice of a chunk, added up over cards.
Part(o, k, s, cards) == [call |-> o, chunk |-> k, slice |-> s, cards |-> cards]
Nothing == Part(0, 0, 0, {})
Garbage == Part(0, 0, 0, Cards)
Summable(a, b) == [a EXCEPT !.cards = {}] = [b EXCEPT !.cards = {}] /\ a.cards \cap b.cards = {}

\* Flags: syncflag is "entered"; cntflag[i]; peercard[i]; a2acard[c, rank_id];
\* flag_devi[i]; splitFlag[i] in the memory of rank 0 of a card.
cntflag(i) == <<"cnt", i>>
peercard(i) == <<"peer", i>>
a2acard(c) == <<"a2a", c>>
flag_devi(i) == <<"devi", i>>
splitFlag(i) == <<"split", i>>
TCCL_P2PRECV_LAG_DEV_OFFSET == 200
DEV_NUM_MAX == 4
SPLIT_FLAG_MAX == 20
FlagNames ==
  {cntflag(i) : i \in 0 .. 7} \cup {peercard(i) : i \in 0 .. DEV_NUM - 1}
  \cup {a2acard(c) : c \in Cards} \cup {splitFlag(i) : i \in 0 .. SPLIT_FLAG_MAX - 1}
  \cup {flag_devi(i) : i \in {0, 1, TCCL_P2PRECV_LAG_DEV_OFFSET,
                              TCCL_P2PRECV_LAG_DEV_OFFSET + 1}}

\* Commands: the device reduces (or copies) the users' slices of a chunk into
\* a buffer (and tells so in flagnum flags), writes a flag, copies a flag or data to or from another rank,
\* waits for a flag, adds up slices, gives slices to the users of the card.
Fill(dst, k) == [do |-> "fill", dst |-> dst, chunk |-> k, flagnum |-> 0, peercnt |-> 0]
Write(r, f, v) == [do |-> "write", at |-> r, flag |-> f, value |-> v]
CopyFlag(f, q, g) == [do |-> "copyflag", flag |-> f, to |-> q, as |-> g]
Copy(p, src, q, dst) == [do |-> "copy", from |-> p, src |-> src, to |-> q, dst |-> dst]
WaitGEQ(r, f, v) == [do |-> "wait", at |-> r, flag |-> f, value |-> v, eq |-> FALSE]
WaitEQ(r, f, v) == [do |-> "wait", at |-> r, flag |-> f, value |-> v, eq |-> TRUE]
Sum(srcs, dst) == [do |-> "sum", srcs |-> srcs, dst |-> dst]
SumToUsers(srcs) == [do |-> "sumusr", srcs |-> srcs]
Move(src) == SumToUsers({src})
\* The card barrier number n; the kernel that stays.
Enter == [do |-> "enter"]
Leave(n) == [do |-> "leave", number |-> n]
Release == [do |-> "release"]
Reside(commands) == [do |-> "reside", commands |-> commands]

When(test, commands) == IF test THEN commands ELSE <<>>
For(n, Body(_)) == LET f[k \in 0 .. n] == IF k = 0 THEN <<>> ELSE f[k - 1] \o Body(k) IN f[n]

-----------------------------------------------------------------------------
\* The butterfly.  stride(k) = 1, 2, 4 ... for step k, up to card_num / 2.
stride(k) == 2 ^ (k - 1)
Steps == CHOOSE n \in 0 .. 3 : 2 ^ n >= card_num /\ (n > 0 => 2 ^ (n - 1) < card_num)
peer_id(c, k) == ((c + stride(k)) % stride(k + 1)) + (c \div stride(k + 1)) * stride(k + 1)
is_right(c, k) == (c % stride(k + 1)) + stride(k) >= stride(k + 1)
\* The blocks a card has after k - 1 steps of gathering.
Group(c, k) == LET first == (c \div stride(k)) * stride(k) IN first .. first + stride(k) - 1

Rank0(c) == <<c, 0>>
All == 0 .. card_num - 1   \* all slices of a chunk

Bug_SmallHalf(h) == 0
SmallHalf(h) == h.graph_step_no % 2

PeerFlag(h, n) == peercard((h.peercnt + n) % DEV_NUM)

\* Blocks of smallBuff and the flag go to the peer of step k.
Exchange(c, h, k, blocks) ==
  LET p == peer_id(c, k)
      data == At("small", SmallHalf(h), blocks, All) IN
  <<Copy(Rank0(c), data, Rank0(p), data),
    CopyFlag(cntflag(k - 1), Rank0(p), PeerFlag(h, k)),
    WaitGEQ(Rank0(c), PeerFlag(h, k), h.peercnt + k)>>

Block(h, b) == At("small", SmallHalf(h), {b}, All)
Blocks(h, bs) == {Block(h, b) : b \in bs}

tcclSmallSizeAllreduceCard(c, h) ==
  LET step(k) == Exchange(c, h, k, Group(c, k)) IN
  For(Steps, step) \o <<SumToUsers(Blocks(h, All))>>

tcclSmallSizeAllreduceCard_8C(c, h) ==
  LET step(k) == Exchange(c, h, k, Group(c, k)) IN
  For(Steps - 1, step)
  \o <<Sum(Blocks(h, Group(c, Steps)), Block(h, c))>>
  \o Exchange(c, h, Steps, {c})
  \o <<SumToUsers(Blocks(h, {c, peer_id(c, Steps)}))>>

tcclSmallSizeAllreduceCard_CT(c, h) ==
  LET both(k) == Blocks(h, {c, peer_id(c, k)})
      step(k) == Exchange(c, h, k, {c})
                 \o <<IF k = Steps THEN SumToUsers(both(k)) ELSE Sum(both(k), Block(h, c))>> IN
  For(Steps, step)

\* Halving and doubling: after step k a card has the sum of the slices in
\* Kept(c, k + 1), half as many as before.
Kept(c, k) ==
  LET offset[i \in 1 .. k] ==
        IF i = 1 THEN 0
        ELSE offset[i - 1] + (IF is_right(c, i - 1) THEN card_num \div stride(i) ELSE 0) IN
  offset[k] .. offset[k] + card_num \div stride(k) - 1
Own(c, h, slices) == At("small", SmallHalf(h), {c}, slices)

\* The step that comes n-th, 1, 2, ... Steps and back.
Back(n) == IF n <= Steps THEN n ELSE 2 * Steps + 1 - n

tcclSmallSizeBFMut(c, h) ==
  LET step(n) ==
        LET k == Back(n)
            p == peer_id(c, k) IN
        <<WaitEQ(Rank0(c), cntflag(n - 1), h.peercnt + n),
          IF n <= Steps
          THEN LET s == Kept(c, k) \ Kept(c, k + 1) IN
               Copy(Rank0(c), Own(c, h, s), Rank0(p), Own(c, h, s))
          ELSE LET s == Kept(c, k + 1) IN
               Copy(Rank0(c), Own(c, h, s), Rank0(p), Own(p, h, s)),
          CopyFlag(cntflag(n - 1), Rank0(p), PeerFlag(h, n))>> IN
  For(2 * Steps, step)

\* The resident kernel (external): it tells the stream when the data of a
\* step is ready and waits for the peer's, which it adds while halving.
ResideKernel(c, h) ==
  LET step(n) ==
        LET k == Back(n)
            s == Kept(c, k + 1) IN
        <<Write(Rank0(c), cntflag(n - 1), h.peercnt + n),
          WaitGEQ(Rank0(c), PeerFlag(h, n), h.peercnt + n)>>
        \o When(n <= Steps,
             <<Sum({Own(c, h, s), Own(peer_id(c, k), h, s)}, Own(c, h, s))>>) IN
  <<Fill(Block(h, c), 1)>> \o For(2 * Steps, step) \o <<Move(Block(h, c)), Release>>

-----------------------------------------------------------------------------
\* A small call: a graph, of which every node laid out in tcclGraphManagerInit
\* must be set to a command of its kind, or it is not launched.
KindOf(c) ==
  CASE c.do \in {"fill", "sum", "sumusr"} -> "Kernel"
    [] c.do = "reside" -> "ResideKernel"
    [] c.do \in {"copy", "copyflag"} -> "IpcP2p"
    [] OTHER -> "MemOps"

Times(n, kinds) == For(n, LAMBDA k : kinds)
Bug_tcclGraphManagerInit(alg) ==
  CASE alg = "card" -> <<"MemOps", "Kernel">> \o Times(Steps, <<"IpcP2p", "IpcP2p", "MemOps">>)
                       \o <<"Kernel", "MemOps">>
    [] alg = "8c" -> <<"MemOps", "Kernel">> \o Times(Steps, <<"IpcP2p", "IpcP2p", "MemOps">>)
                     \o <<"Kernel", "IpcP2p", "IpcP2p", "MemOps", "Kernel", "MemOps">>
    [] alg = "ct" -> <<"MemOps", "Kernel">>
                     \o Times(Steps, <<"IpcP2p", "IpcP2p", "MemOps", "Kernel">>) \o <<"MemOps">>
    [] alg = "bfmut" -> <<"MemOps", "ResideKernel">>
                        \o Times(2 * Steps, <<"MemOps", "IpcP2p", "IpcP2p">>) \o <<"MemOps">>
tcclGraphManagerInit(alg) ==
  CASE alg = "card" -> <<"MemOps", "Kernel">> \o Times(Steps, <<"IpcP2p", "IpcP2p", "MemOps">>)
                       \o <<"Kernel", "MemOps">>
    [] alg = "8c" -> <<"MemOps", "Kernel">> \o Times(Steps - 1, <<"IpcP2p", "IpcP2p", "MemOps">>)
                     \o <<"Kernel", "IpcP2p", "IpcP2p", "MemOps", "Kernel", "MemOps">>
    [] alg = "ct" -> <<"MemOps", "Kernel">>
                     \o Times(Steps, <<"IpcP2p", "IpcP2p", "MemOps", "Kernel">>) \o <<"MemOps">>
    [] alg = "bfmut" -> <<"MemOps", "ResideKernel">>
                        \o Times(2 * Steps, <<"MemOps", "IpcP2p", "IpcP2p">>) \o <<"MemOps">>

endModifyGraph(alg, nodes) ==
  [k \in 1 .. Len(nodes) |-> KindOf(nodes[k])] = tcclGraphManagerInit(alg)

Exchanges(c, h, alg) ==
  CASE alg = "card" -> tcclSmallSizeAllreduceCard(c, h)
    [] alg = "8c" -> tcclSmallSizeAllreduceCard_8C(c, h)
    [] alg = "ct" -> tcclSmallSizeAllreduceCard_CT(c, h)
    [] alg = "bfmut" -> tcclSmallSizeBFMut(c, h)

flagnum == 2 * Steps

tcclSmallSizeAllreduce(c, h, alg) ==
  LET reduced == [Fill(Block(h, c), 1) EXCEPT !.flagnum = flagnum, !.peercnt = h.peercnt]
      nodes == <<Leave(h.syncnt + 1)>>
               \o (IF alg = "bfmut" THEN <<Reside(ResideKernel(c, h))>> ELSE <<reduced>>)
               \o Exchanges(c, h, alg)
               \o (IF alg = "bfmut" THEN <<Leave(h.syncnt + 2)>> ELSE <<Release>>) IN
  <<Enter>> \o When(\A plan \in {nodes} : endModifyGraph(alg, plan), nodes)

-----------------------------------------------------------------------------
\* Large calls.  Chunks are dealt out to the ranks of a card; the last one of
\* a call may have fewer slices.
Chunks(r, c) == (c.chunks - rank_id(r) + rank_num - 1) \div rank_num
Chunk(r, n) == rank_id(r) + 1 + (n - 1) * rank_num
Slices(c, k) == IF k = c.chunks THEN 0 .. c.last - 1 ELSE All
Peer(r, i) == <<(card_id(r) + i) % card_num, rank_id(r)>>
Prev(r) == Peer(r, card_num - 1)

\* One turn of the ranks of a card; f is where it is kept whose turn it is.
Turns(r, f, commands) ==
  <<WaitEQ(Rank0(card_id(r)), f, rank_id(r))>> \o commands
  \o <<Write(Rank0(card_id(r)), f, (rank_id(r) + 1) % rank_num)>>
Reset(r, f) == When(rank_id(r) = 0, <<Write(Rank0(card_id(r)), f, 0)>>)

\* tcclDevSyncToPrevCard, n times.
Sync(r, h, n) ==
  LET one(i) == <<Write(Prev(r), flag_devi(1), h.prevcnt + i),
                  WaitGEQ(r, flag_devi(1), h.prevcnt + i)>> IN
  For(n, one)

BarrierCard(n) == <<Enter, Leave(n)>>

\* All to all.  A chunk is reduced into inBuff, a slice of it goes to outBuff
\* of every card, which adds up its slice and gives the sum to all inBuffs.
A2AHalf(h, n) == (h.step_no + n - 1) % 2

A2AChunk(r, c, h, n, split, sf) ==
  LET me == card_id(r)
      k == Chunk(r, n)
      some == Slices(c, k)
      half == A2AHalf(h, n)
      v == h.a2acnt + 2 * n - 1
      in(s) == At("in", half, {0}, s)
      out(s) == At("out", half, {0}, s)
      fill == <<Fill(in(some), k)>>
      peer(i) == Peer(r, i)
      tell(i) == CopyFlag(cntflag(0), peer(i), a2acard(me))
      scatter(i) == When(card_id(peer(i)) \in some,
                         <<Copy(r, in({card_id(peer(i))}), peer(i), out({me}))>>) \o <<tell(i)>>
      gather(i) == When(me \in some, <<Copy(r, in({me}), peer(i), in({me}))>>) \o <<tell(i)>>
      wait(i, w) == <<WaitGEQ(r, a2acard(card_id(peer(i))), w)>>
      wait1(i) == When(me \in some, wait(i, v))
      wait2(i) == When(card_id(peer(i)) \in some, wait(i, v + 1))
      parts == {in({me})} \cup {out({i}) : i \in All \ {me}}
  IN
  (IF split THEN Turns(r, sf, fill) ELSE fill)
  \o <<Write(r, cntflag(0), v)>> \o For(card_num - 1, scatter) \o For(card_num - 1, wait1)
  \o When(me \in some, <<Sum(parts, in({me}))>>)
  \o <<Write(r, cntflag(0), v + 1)>> \o For(card_num - 1, gather) \o For(card_num - 1, wait2)
  \o <<Move(in(some))>>

allReduceOnenodeA2A(r, c, h) ==
  LET split == c.chunks > rank_num
      sf == splitFlag((h.splitCnt + 1) % DEV_NUM_MAX)
      chunk(n) == A2AChunk(r, c, h, n, split, sf) IN
  Sync(r, h, card_num) \o When(split, Reset(r, sf)) \o For(Chunks(r, c), chunk)
  \o BarrierCard(h.syncnt + 2) \o When(split, Reset(r, sf))

\* Two cards.  Each reduces the other's slice of a chunk, then they exchange
\* the sums; tcclRankSendPost pushes, tcclRankRecvPost pulls the data.
tcclRankSendPost(r, buf, half, s, v) ==
  <<Copy(r, At(buf, half, {0}, s), Prev(r), At("out", half, {0}, s)),
    Write(Prev(r), flag_devi(0), v), WaitGEQ(r, flag_devi(0), v)>>

Bug_tcclRankRecvPost(r, buf, half, s, v) ==
  LET ready == flag_devi(TCCL_P2PRECV_LAG_DEV_OFFSET + 1) IN
  <<Write(Prev(r), ready, v), WaitEQ(r, ready, v),
    Copy(Prev(r), At(buf, half, {0}, s), r, At("out", half, {0}, s))>>
tcclRankRecvPost(r, buf, half, s, v) ==
  LET done == flag_devi(TCCL_P2PRECV_LAG_DEV_OFFSET)
      ready == flag_devi(TCCL_P2PRECV_LAG_DEV_OFFSET + 1) IN
  <<Write(Prev(r), ready, v), WaitEQ(r, ready, v),
    Copy(Prev(r), At(buf, half, {0}, s), r, At("out", half, {0}, s)),
    Write(Prev(r), done, v), WaitGEQ(r, done, v)>>

TwoChunk(r, c, h, n, sf) ==
  LET me == card_id(r)
      k == Chunk(r, n)
      half == (n - 1) % 2
      mine == {me}
      other == {(me + 1) % card_num}
      v == h.nextcnt + 2 * n - 1
      move(buf, push, pull, w) ==
        IF c.alg = "tworecv" THEN tcclRankRecvPost(r, buf, half, pull, w)
        ELSE tcclRankSendPost(r, buf, half, push, w)
      out(s) == At("out", half, {0}, s) IN
  Turns(r, sf[1], <<Fill(At("in", half, {0}, Slices(c, k)), k)>>)
  \o Turns(r, sf[2], move("in", mine, other, v))
  \o <<Sum({At("in", half, {0}, other), out(other)}, out(other))>>
  \o Turns(r, sf[3], move("out", other, mine, v + 1))
  \o <<Move(out(Slices(c, k)))>>

allReduceTwoNode(r, c, h) ==
  LET sf == [i \in 1 .. 3 |-> splitFlag((h.splitCnt + i) % SPLIT_FLAG_MAX)]
      reset == Reset(r, sf[1]) \o Reset(r, sf[2]) \o Reset(r, sf[3])
      chunk(n) == TwoChunk(r, c, h, n, sf) IN
  Sync(r, h, 1) \o reset \o For(Chunks(r, c), chunk) \o BarrierCard(h.syncnt + 2) \o reset

\* The commands of a call and the counters after it (a small call that is not
\* launched would not count graph_step_no; the layouts do not let it happen).
Commands(r, c, h) ==
  IF c.alg \in Small THEN tcclSmallSizeAllreduce(card_id(r), h, c.alg)
  ELSE BarrierCard(h.syncnt + 1) \o
       (IF c.alg = "a2a" THEN allReduceOnenodeA2A(r, c, h) ELSE allReduceTwoNode(r, c, h))

Counters(r, c, h) ==
  LET n == Chunks(r, c) IN
  [syncnt |-> h.syncnt + 2,
   peercnt |-> h.peercnt + (IF c.alg = "bfmut" THEN 2 * Steps
                            ELSE IF c.alg \in Small THEN Steps ELSE 0),
   graph_step_no |-> h.graph_step_no + (IF c.alg \in Small THEN 1 ELSE 0),
   splitCnt |-> h.splitCnt + (IF c.alg \in Small THEN 0 ELSE IF c.alg = "a2a" THEN 2 ELSE 4),
   prevcnt |-> h.prevcnt + (IF c.alg \in Small THEN 0 ELSE IF c.alg = "a2a" THEN card_num ELSE 1),
   nextcnt |-> h.nextcnt + (IF c.alg \in {"two", "tworecv"} THEN 2 * n ELSE 0),
   a2acnt |-> h.a2acnt + (IF c.alg = "a2a" THEN 2 * n ELSE 0),
   step_no |-> h.step_no + (IF c.alg = "a2a" THEN n ELSE 0)]

-----------------------------------------------------------------------------
Init ==
  /\ prog \in Programs
  /\ call = [r \in Ranks |-> 0]
  /\ todo = [r \in Ranks |-> <<>>]
  /\ kernel = [r \in Ranks |-> <<>>]
  /\ sync = [r \in Ranks |->
       [syncnt |-> 0, peercnt |-> 0, graph_step_no |-> 0, splitCnt |-> 0,
        prevcnt |-> 0, nextcnt |-> 0, a2acnt |-> 0, step_no |-> 0]]
  /\ entered = [r \in Ranks |-> 0]
  /\ flag = [r \in Ranks |-> [f \in FlagNames |-> 0]]
  /\ mem = [r \in Ranks |-> [b \in Buffers |-> [h \in Halves |->
              [x \in (IF b = "small" THEN Cards ELSE {0}) \X Cards |-> Nothing]]]]
  /\ recvusr = [c \in Cards |-> {}]

\* The host queues the next call.
tcclEnqueueCheck_func(r) ==
  LET c == prog.calls[call[r] + 1] IN
  /\ Active(r) /\ todo[r] = <<>> /\ call[r] < Len(prog.calls)
  /\ call' = [call EXCEPT ![r] = @ + 1]
  /\ todo' = [todo EXCEPT ![r] = Commands(r, c, sync[r])]
  /\ sync' = [sync EXCEPT ![r] = Counters(r, c, sync[r])]
  /\ UNCHANGED <<prog, kernel, entered, flag, mem, recvusr>>

\* A command of the stream or the kernel of r.  Reads and writes of memory:
Put(q, a, new) ==
  mem' = [mem EXCEPT ![q][a.buf][a.half] =
            [x \in DOMAIN @ |-> IF x \in DOMAIN new THEN new[x] ELSE @[x]]]

\* A place that is a single slice stands for any slice of the other places.
Only(S) == CHOOSE x \in S : TRUE
Read(q, a, s) ==
  mem[q][a.buf][a.half][<<Only(a.block), IF Cardinality(a.slices) = 1 THEN Only(a.slices) ELSE s>>]

SumOf(r, srcs, s) ==
  LET part == [a \in srcs |-> Read(r, a, s)] IN
  IF \A a, b \in srcs : a # b => Summable(part[a], part[b])
  THEN [part[Only(srcs)] EXCEPT !.cards = UNION {part[a].cards : a \in srcs}]
  ELSE Garbage

DoFill(r, m) ==
  /\ m.do = "fill"
  /\ Put(r, m.dst, [x \in m.dst.block \X m.dst.slices |->
                      Part(call[r], m.chunk, x[2], {card_id(r)})])
  /\ flag' = [flag EXCEPT ![r] = [f \in FlagNames |->
       IF f \in {cntflag(i) : i \in 0 .. m.flagnum - 1} THEN m.peercnt + f[2] + 1 ELSE @[f]]]
  /\ UNCHANGED <<entered, recvusr>>

DoWrite(r, m) ==
  /\ m.do = "write"
  /\ flag' = [flag EXCEPT ![m.at][m.flag] = m.value]
  /\ UNCHANGED <<entered, mem, recvusr>>

DoCopyFlag(r, m) ==
  /\ m.do = "copyflag"
  /\ flag' = [flag EXCEPT ![m.to][m.as] = flag[r][m.flag]]
  /\ UNCHANGED <<entered, mem, recvusr>>

\* Blocks and slices keep their place, unless there is a single one.
DoCopy(r, m) ==
  /\ m.do = "copy"
  /\ Put(m.to, m.dst, [x \in m.dst.block \X m.dst.slices |->
       Read(m.from, [m.src EXCEPT !.block = IF x[1] \in @ THEN {x[1]} ELSE @], x[2])])
  /\ UNCHANGED <<entered, flag, recvusr>>

DoWait(r, m) ==
  /\ m.do = "wait"
  /\ IF m.eq THEN flag[m.at][m.flag] = m.value ELSE flag[m.at][m.flag] >= m.value
  /\ UNCHANGED <<entered, flag, mem, recvusr>>

DoSum(r, m) ==
  /\ m.do = "sum"
  /\ Put(r, m.dst, [x \in m.dst.block \X m.dst.slices |-> SumOf(r, m.srcs, x[2])])
  /\ UNCHANGED <<entered, flag, recvusr>>

tccl_move_to_list(r, m) ==
  /\ m.do = "sumusr"
  /\ recvusr' = [recvusr EXCEPT ![card_id(r)] = @ \cup {SumOf(r, m.srcs, s) : s \in Only(m.srcs).slices}]
  /\ UNCHANGED <<entered, flag, mem>>

DoEnter(r, m) ==
  /\ m.do = "enter"
  /\ entered' = [entered EXCEPT ![r] = @ + 1]
  /\ UNCHANGED <<flag, mem, recvusr>>

DoLeave(r, m) ==
  /\ m.do = "leave" /\ \A q \in OfCard(card_id(r)) : entered[q] >= m.number
  /\ UNCHANGED <<entered, flag, mem, recvusr>>

\* The end of a small call, for all ranks of the card.
DoRelease(r, m) ==
  /\ m.do = "release"
  /\ entered' = [q \in Ranks |-> IF q \in OfCard(card_id(r)) THEN entered[q] + 1 ELSE entered[q]]
  /\ UNCHANGED <<flag, mem, recvusr>>

Do(r, m) ==
  \/ DoFill(r, m) \/ DoWrite(r, m) \/ DoCopyFlag(r, m) \/ DoCopy(r, m)
  \/ DoWait(r, m) \/ DoSum(r, m) \/ tccl_move_to_list(r, m)
  \/ DoEnter(r, m) \/ DoLeave(r, m) \/ DoRelease(r, m)

Execute(r) ==
  /\ todo[r] # <<>> /\ Do(r, Head(todo[r]))
  /\ todo' = [todo EXCEPT ![r] = Tail(@)]
  /\ UNCHANGED <<prog, call, kernel, sync>>

\* The stream goes on while the kernel resides.
tcclDeviceAllReduceResideKernel(r) ==
  /\ todo[r] # <<>> /\ Head(todo[r]).do = "reside"
  /\ kernel' = [kernel EXCEPT ![r] = Head(todo[r]).commands]
  /\ todo' = [todo EXCEPT ![r] = Tail(@)]
  /\ UNCHANGED <<prog, call, sync, entered, flag, mem, recvusr>>

Stream(r) == tcclEnqueueCheck_func(r) \/ Execute(r) \/ tcclDeviceAllReduceResideKernel(r)

Kernel(r) ==
  /\ kernel[r] # <<>> /\ Do(r, Head(kernel[r]))
  /\ kernel' = [kernel EXCEPT ![r] = Tail(@)]
  /\ UNCHANGED <<prog, call, todo, sync>>

Idle(r) == todo[r] = <<>> /\ (Active(r) => call[r] = Len(prog.calls))
Finished == (\A r \in Ranks : Idle(r)) /\ UNCHANGED vars

Next == (\E r \in Ranks : Stream(r) \/ Kernel(r)) \/ Finished

Spec == Init /\ [][Next]_vars

-----------------------------------------------------------------------------
\* What the users of a card are owed by call number o.
Result(o) ==
  LET c == prog.calls[o] IN
  IF c.alg \in Small THEN {Part(o, 1, s, All) : s \in All}
  ELSE UNION {{Part(o, k, s, All) : s \in Slices(c, k)} : k \in 1 .. c.chunks}

\* A rank whose stream is through with a call has all of its sums at the users
\* of its card, and no card's users are ever given anything else.
ResultCorrect ==
  /\ \A r \in Ranks : todo[r] = <<>> =>
       \A o \in 1 .. call[r] : Result(o) \subseteq recvusr[card_id(r)]
  /\ \A c \in Cards : \A p \in recvusr[c] :
       p.call \in 1 .. Len(prog.calls) /\ p \in Result(p.call)

\* A flag that is waited for with EQ has not been overtaken.
Waiting(todos) == todos # <<>> /\ Head(todos).do = "wait" /\ Head(todos).eq
NotOvertaken ==
  \A r \in Ranks : Waiting(todo[r]) =>
    LET m == Head(todo[r]) IN
    m.flag[1] = "split" \/ flag[m.at][m.flag] <= m.value

\* Somebody can go on until every rank is through with all its calls.  A step
\* shortens the list of commands that are left, so every call completes.
NobodyStuck ==
  \/ \A r \in Ranks : Idle(r)
  \/ ENABLED (\E r \in Ranks : Stream(r) \/ Kernel(r))
=============================================================================
