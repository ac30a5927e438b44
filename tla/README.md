# A formal model of TCCL

TCCL is a library of collective calls (AllReduce, Broadcast, AllGather, ...)
for accelerator cards.  A *node* has up to eight *cards*, a card has up to four
*ranks* (core groups with a stream of their own); ranks of different cards
exchange data over the bus, over InfiniBand or a NIC, and through SHARP.

The library is hard to test: its calls do nothing but queue commands on device
streams, the streams of all ranks then run against each other with no host in
between, and all that orders them is a few 64-bit flags and two buffers per
rank that every call uses again.  A wrong order shows as a wrong sum or a hang,
now and then, on eight cards.  This directory holds TLA+ models of those
protocols, the TLC runs that check them on small communicators and the proofs
that TLAPS checks for communicators of every size.

Source paths below are relative to `src/src`.

## 1. Inventory of the system

### Parts, their state and their operations

| Part | State | Operations | Where |
|---|---|---|---|
| Card barrier | `sync.syncnt` per rank; `syncflag[SYNC_NUM]` per card; `devList`, the addresses the ranks publish | `tcclDevSyncCard`; the two halves of `tcclSmallSizeAllreduce` | `misc/barrier.cc`, `enqueue.cc` |
| Socket ring | two sockets per rank; the array gathered into | `tcclBarrierAll`, `tcclBarrierNode`, `tcclBarrierCard`, `tcclBootstrapAllGather`, `tcclProxyAllGather` | `misc/barrier.cc`, `init.cc` |
| Point to point | per pair of ranks: counters `sendcntall`, `recvcntall` and `SYNC_NUM` flags; per rank: one `inBuff`, one `outBuff` | `tcclSend`, `tcclRecv`, `tcclAlltoallv`, `tcclAlltoall`; `tcclSendRecvNotify`, `tcclSendRecvWait`, `tcclTransportSend` | `collectives/sendrecv.cc`, `collectives/all_to_all.cc`, `enqueue.cc`, `misc/post.cc`, `proc.cc` |
| Ring AllReduce | halves of `inBuff`, `outBuff`; `prevcnt`, `nextcnt`, `flag_devi`; `splitFlag` per card | `tcclPublicWork` into `tcclNicPublicWork`; `tcclRankSendPost`, `tcclRankSendFlag` | `proc.cc`, `misc/post.cc` |
| Other ring calls | the same, plus `step_no`, `myBcastCnt`, `peerBcastCnt` and an acknowledgement flag per slot | AllGather, ReduceScatter, Broadcast, Reduce in `tcclPublicWork` | `proc.cc` |
| AllReduce inside a node | two halves of `smallBuff`; `peercnt`, `cntflag`, `peercard`, `a2acard`, `graph_step_no`; four graphs | the four butterflies, `allReduceOnenodeA2A`, `allReduceTwoNode` | `enqueue.cc`, `proc.cc`, `include/graph.h` |
| SHARP | `g_ctl` per node, a map of status words per communicator, both in shared memory; the public thread's list of maps | `tcclSharpCreate`, `tcclGetSharpAddr`, `tcclAllreduceInterFunc`, `tcclSharpWork` | `misc/sharp.cc` |
| Topology, step lengths | `node`, `allRing`, `connectType`: functions of the ranks' addresses; step lengths: of the data size | `tcclNicRankList`, `tcclConnectTypeSet`, `tcclGetStepLen`, `tcclNicStepLen` | `init.cc`, `proc.cc` |
| Splitting, bootstrap | a unique id and a root thread per colour; listening sockets | `tcclCommSplit`, `tcclBootstrapRoot`, `tcclBootstrapInit` | `init.cc` |
| Creation and destruction | the rings' sockets; shared memory files `ShmAddr`, `CardDevSync`, `Map`; memory handles; the device's cross buffers and their count `g_memReuseCnt` | `tcclCommInitRankSync`, `tcclCommInitAll`, `tcclDevListInit`, `tcclDevSyncInit`, `tcclPublicInit`, `tcclCommDestroy` | `init.cc`, `misc/barrier.cc`, `proc.cc` |
| Connections between nodes | `IB_connect_table` of the process: a send and a receive pair of queue pairs (QPs) per peer; flag pairs per communicator; `accepts`; `ibHostLock` per node | `tcclAllRankIbInit`, `tcclIbInitUnconnectedPeer`, `tcclPostIbFunc`, `poll_completion`, `tcclAllRankIbFini` | `init.cc`, `misc/ib.cc`, `misc/post.cc` |
| Kernels, runtime, wrappers, logging | - | stubs in this commit (`misc/yangl.cc`, `collectives/all_reduce_func.cc`), `dlsym` wrappers | `misc/`, `collectives/` |

### How the parts interact

* A **host call** (`tcclEnqueueCheck_func`) reads and advances the counters of
  its communicator and appends commands to the stream of its rank.  It does not
  wait for the device: hosts run ahead of streams, and streams of each other.
* **Streams** interact through memory: a command writes a flag or data into
  another rank's memory, or waits for a flag of its own to be EQUAL to, or at
  least (GEQ), a value that the host fixed when it queued the command.  EQ waits
  are the dangerous ones: a flag that moves on before the wait has seen the
  value leaves the stream waiting for ever.
* The **card barrier** comes before and after every other collective, so it is
  what the rest relies on; between cards there is only the sync with the
  previous rank of the ring.
* The **socket ring** serves the hosts during set-up: shared memory files and
  device handles are exchanged between two of its barriers.  It also carries the
  set-up of SHARP.
* **SHARP** work passes from a stream to a host function, from there through a
  status word to the thread of whichever process was elected, and back.

### What is hard, and what makes each part correct

* *Card barrier*: flags are reused after `SYNC_NUM` barriers and waited for with
  EQ.  No stream passes a barrier early; no reused flag overtakes a slow stream;
  the small-size kernel has everybody's buffers to itself.
* *Socket ring*: messages carry no call number, sockets hold little.  Rounds of
  consecutive calls never mix; nobody returns before everybody has come; nobody
  blocks for ever although all send first.
* *Point to point*: all peers share two buffers per rank.  A receive gets the
  data of its own send; a send ends only when its receiver has come.
* *Ring calls*: buffer halves and slots are reused after two chunks, or as many
  as there are slots; counters persist from call to call and do not advance
  alike in all calls or on all ranks.  Every sequence of calls gives every user
  the data of the call.
* *Node AllReduce*: the same, where there is no sync between the cards before a
  small call and a kernel that talks to its own stream while both run.
* *SHARP*: every node must reduce the same data next, although on every node the
  ranks come in any order, and status words mean several things.
* *Splitting*: a root hears of its ranks in any order, and of some that use a
  key twice.  Every proper colour becomes a ring.
* *Creation*: one listening socket accepts for three rings with nothing to say
  whose a connection is.  The rings must fit together.
* *Destruction*: slots of shared files are used several times; what one rank
  allocates others open; destroying waits for the caller's own stream only.
  Addresses name what they should, nothing is used after it has been freed,
  other communicators are not disturbed, and the memory that ranks share is given
  back, with every handle of it.
* *Connections*: pairs are made by all ranks together or by two of them alone,
  by communicators that share a table and lend each other handles; anything may
  fail half-way.  Two processes that think they are connected are connected with
  each other; flags come after their data.

The list of hazards with their lines is in `PROJECT.json`, with the properties
that watch over each, and a note for those that nothing covers yet.

## 2. The modules

| Module | Models | Abstract specification or composition |
|---|---|---|
| `CardBarrier` | what a card barrier promises | abstract |
| `DevSync` | card barrier and small-size phases on streams | implements `CardBarrier` |
| `SocketRing` | barriers and gathers on FIFO sockets | |
| `PointToPoint` | the operations a call queues, as functions | inputs of `SendRecv` |
| `SendRecv` | flags and buffers of point-to-point transfers | programs from `PointToPoint` |
| `RingAllReduce` | AllReduce over rings of all cards, several ranks per card | uses the card barrier by its specification |
| `RingCalls` | sequences of all five ring calls on one ring | uses the card barrier likewise |
| `NodeAllReduce` | sequences of the algorithms within a node | uses the card barrier likewise |
| `Sharp` | election, threads and reductions of SHARP | uses the ring barriers by their specification |
| `Connect` | InfiniBand pairs, at creation and on first use, and the posts over them | uses `Layout`; gathers by their specification |
| `Bootstrap` | splitting a communicator, the root thread, the bootstrap ring | gathers by their specification |
| `CommLife` | addresses, handles and memory from creation to destruction, with all-to-all calls in between | barriers by their specification |
| `Layout`, `StepLen` | which rank sits where and its neighbours; lengths of slices | operators, the shapes the others take as given |
| `CommInit` | creating a communicator: ring sockets, layout, connection types, a first step length | composes `Layout` and `StepLen`; uses the barrier of all ranks by its specification |
| `DevSyncProofs`, `SocketRingProofs`, `SendRecvProofs`, `RingAllReduceProofs`, `SharpProofs`, `LayoutProofs`, `CommInitProofs`, `ConnectProofs` | theorems, see section 5 | `CommInitProofs` and `ConnectProofs` build on `LayoutProofs` |
| `MC...` | instances for TLC | |

Using a part "by its specification" means: a stream *enters* a barrier in one
step and *leaves* it once all ranks of the card have entered.  That is exactly
what `DevSync` is proved to implement (`CallsAreBarriers`), so the larger
modules need not carry the flags of the barrier.

Definitions are named after the functions they stand for; one action is one
command of a stream, one iteration of a host loop that blocks, or one step of a
thread between two reads of shared state.  Names that begin with `Bug_` are
faulty variants of the definition that follows them, for sensitivity tests.

### DevSync (and CardBarrier)

`tcclDevSyncCard` and `tcclSmallSizeAllreduce` are host actions that only
advance `syncnt`.  The stream of a rank is at phase `at[r]`, command `step[r]`:
`AddFlag` (for the first half of a small call together with publishing the
addresses), `WaitFlag`, `StartKernel`, `FinishKernel`, `SetFlag`.  The commands
of a phase depend only on its number, so no queue is stored.  A poll that sees
the flag equal passes the wait.  `plan` is an arbitrary sequence of card
barriers and small calls with the plain or the resident kernel.

### SocketRing

One variable per loop: `Call`, `Send` (blocks on a full socket), `Recv` (blocks
on an empty one), `Return`.  The same code serves barriers and gathers, on the
ring of all ranks and on that of a node; `tcclBarrierCard` is a barrier of the
same form.

### SendRecv and PointToPoint

`PointToPoint` turns calls into lists of send and receive operations, cut into
pieces of `MAX_SIZE` when they pass through the cross buffers; `tcclAlltoallv`
orders them so that they pair.  In `SendRecv` an operation is up to four
commands: copy in, wait, transfer, notify for a send; publish, notify, wait,
take for a receive.  `tcclAlltoall` goes round by round (send to the rank i
ahead, receive from the one i behind) and after each round has a card barrier
and a sync with the neighbouring cards over flag 3 of their pair
(`AlltoallScript`).  Whether a pair is direct (same card) or buffered decides
which of them exist, and whether the data passes through the one `inBuff` and
`outBuff` of a rank.  `Matched` is what the application has to see to: the n-th
operation of a rank with a peer is the other side of the n-th of that peer with
it.  All programs of the run are `Matched`; without it ranks wait for ever.

### RingAllReduce

One action per command of a chunk: enter and leave the card barrier, sync with
the previous rank, reset the turn, wait for the turn, run the kernel, pass the
turn on, post, wait, add, move to the user.  Halves alternate from chunk to
chunk and start over with each call.  Data is *who has contributed to it*: a
part is a call, a chunk and the set of cards added up so far.

### RingCalls

Five calls share buffers, flags and counters, so here a stream is a machine
that executes a list of commands which `Commands` computes from the call and
the counters, as the host does.  `Counters` says what the call leaves behind,
`Resync` included.  A part that is added twice, or to a part of something
else, becomes garbage and can never again be a result.

### NodeAllReduce

The same machine for the algorithms inside a node, with a second process per
rank for the resident kernel.  A small call is a list of graph nodes; it is
launched only if they agree with the layout of `tcclGraphManagerInit`.  Rank 0
of a card makes small calls alone (the other ranks wait in the card barrier,
see `DevSync`); large calls deal out their chunks to the ranks of the card,
which take turns.  The algorithms for eight cards are checked with four and two:
their code has the number of cards as a parameter.

### Sharp

Hosts, streams, and a thread per node are the processes.  `g_ctl` and the maps
are shared memory; each read or write of a status word is a step.  The ring
sockets carry the election flag.  The thread of a node knows only the
communicators it has taken in (`Taken`); if the one that is announced is not among
them it keeps its own choice (`RecvInfo`).  With `Overlap` a host goes on to create
communicators while its reductions run, which the library cannot take (see
section 6).

### Layout, StepLen and CommInit

See section 4.

### Connect

A process (`Host`) has for every peer three kinds of pairs: send and receive
pairs in a table that all its communicators share, and a flag pair for each
communicator.  `PairCreate`, `PairTell` and `PairConnect` are `tcclIbPairInit`
between its three gathers, for one kind after the other; any of the
`resources_create` may fail, that for sending and that for receiving each by
itself, and what they do then, freeing lent handles included, is `FailPair`.  `ConnectPeer`, `TakeAccepted`, `AcceptPeer`, `Offer`,
`LinkPeer`, `Agree` are the same for a pair that is first used in a
`tcclAlltoall`, one step between two messages on the socket.  `IB_COPY` and
`resources_create` are operators on a pair: a handle is a name `<<process, n>>`,
so that one sees which memory region was registered in which protection domain.

`accepts` has one place for each peer: of several connections of one peer that
were put aside the code takes up the latest and drops the others, and the loop
that goes through them is one step.  Programs are what an application may do:
it creates a communicator before it uses it, destroys it last, and, where pairs
may fail, has connected before it posts, as a post on a pair that is not there
ends the process (`ProgramsAssumption`).

A stream posts data, polls, posts the flag, polls (`PostData`, `PostFlag`,
`PostDone`); `Deliver` is the network, which delivers in order on one QP and in
any order on different ones.  `Poll` takes a completion of the QP, whosever it
is, or gives up.  A poll that gave up, or two communicators of one process that
poll for data on the same pair at the same time, make later polls on it
unreliable: such pairs are `disturbed`, and the properties say what holds for
the others.

### Bootstrap

`MakeId` and `Start` are `tcclCommSplit` before and after its second gather,
`CheckIn`, `ConnectNext`, `AcceptPrev` the sides of a rank in
`tcclBootstrapInit`, `Collect` and `Tell` the iterations of the root thread's
two loops.  Whose id a rank uses if no rank of its colour has key 0 is left open
(`Roots`), nobody's included.  A root listens until it has told everybody: who
comes while it tells connects, is never accepted and waits for ever; who comes
later fails (`CheckIn`).

### CommLife

Creation and destruction are lists of steps (`CreateScript`, `DestroyScript`)
with an action for each kind of step: give and take a cross buffer's address, a
list in `ShmAddr`, a handle in `CardDevSync`, the small buffer in `Map`; then
finalize, close, free what is the card's, free what is one's own.  Memory is
named by purpose, communicator and owner, so that it shows when somebody holds
the address of something else.  Slots of files are overwritten as the code
does, and `sameProc` is remembered from the first handle for all later ones.
What a rank opens is recorded when it opens it; what it closes (`Closes`) is
computed anew from the processes, as in the code.  Memory of the host is left out.

Calls are rounds of `tcclAlltoall` in five commands; `SendRecv` has them in
full.  `Touches` says what memory a command uses, by the addresses its rank
has.  `MayDestroy` is what the application has to observe, see section 3.

## 3. Runs

| Run | Bounds | Shows |
|---|---|---|
| `dev_sync` | 3 ranks, 5 phases, every plan | type correctness, `BarrierSafety`, `NoOvershoot`, `KernelOwnsBuffers`; calls complete; implements `CardBarrier` |
| `socket_ring` | 4 ranks, sockets of 2 messages, every program of 3 calls | `BarrierSafety`, `GatherComplete`; calls return |
| `send_recv` | 4 ranks on 2 cards: 3 messages of 1 or 2 pieces among three of them in every order, `tcclAlltoallv`, `tcclAlltoall`, and `tcclAlltoall` followed by any transfer | `Delivered`, `NoOvershoot`, `Rendezvous`; all completes |
| `ring_allreduce` | 2 cards of 2 ranks, 2 calls of up to 5 chunks | `ResultCorrect`, `NoOverwrite`, `KernelsTakeTurns`; calls complete |
| `ring_one_card` | 2 nodes of one card, 2 calls | `NoOverwrite` is **violated** |
| `ring_calls` | 3 cards of one node, the second of two rings, every pair of calls, 2 slots, 3 or 5 and then 7 chunks | `ResultCorrect`, `AckNotOvertaken`; calls complete |
| `node_allreduce` | seven sequences of up to 3 calls on 2 to 4 cards, up to 2 ranks per card | `ResultCorrect`, `NotOvertaken`, `NobodyStuck` |
| `sharp` | 2 nodes of 2 ranks, 2 communicators, 2 reductions each | `SameReduction` (with one elected rank per node), `ReducedEverywhere`; all completes |
| `comm_init` | 15 placements of 2 to 8 ranks on 1 to 3 nodes, with and without SHARP, 7 sizes of data | `RingsFit`, `LinksFit`, `ChunkFitsHalf`; the set-up completes |
| `connect` | 5 processes on 3 hosts, communicators of 2, 2, 3 and 4 of them, five programs: one poll that gives up; one failure and an all-to-all on first use; two communicators of the same processes, with destruction; a small communicator after and before a larger one | `PairsMatch`, `KeysFit`, `FlagAfterData`, `OnePoster`; calls and streams end |
| `comm_life` | 2 cards of 2 devices, a communicator of 4 and one of 2; devices of one, two or four processes; three orders of creating, calling and destroying | `HandlesAgree`, `NoUseAfterFree`, `CallsUndisturbed`, `SharedMemoryReturned`; no deadlock before everybody has finished |
| `bootstrap` | 4 ranks split into one, two or three parts, one without colour; keys 0 and 1 in any way, and every numbering | `RingsForm` |

`NoUseAfterFree` and `CallsUndisturbed` hold for applications that observe
`MayDestroy`: rank 0 of a card destroys a communicator only when the other ranks
of its card have executed their calls.  Without it TLC finds rank 0 freeing the
card's flags under a stream that polls one of them.  Nobody else has to wait for
anybody; that is what the run adds to the documentation, which says nothing.

`SharedMemoryReturned` is about memory that others have the address of: flags,
lists, small buffers and the handles of them.  A rank closes what it has opened and
nothing else, and after all ranks have destroyed the communicator no such block is
left.  It says nothing of what a rank keeps for itself (section 6).

### Why the bounds are enough

What can go wrong is that something is used again too early.  The bounds are
therefore chosen by what is reused: five phases use each of the two barrier
flags twice and once more; five chunks use both halves of a buffer twice and the
first once again, two calls start over with them; seven chunks use two slots of
a pipeline more than three times per ring; three small calls on four cards
advance `peercnt` by six, past the four slots of `peercard`, and use a half of
`smallBuff` again.  Three ranks are the least for which "previous", "next" and
"other" differ; `ring_calls` therefore has a ring of three cards, which also has
the root, middle and tail of a pipeline, while `ring_allreduce` spends its states
on two ranks per card, as needed for turns.  A butterfly needs four cards for its
first step to differ from its last.  `connect` has a rank with two peers to
accept, hosts with two cards to share a lock, and communicators that meet in
either order; `comm_life` has both ranks of a card and both cards in the same
and in different processes, and slots of files that are used three times.

### Fairness

Devices keep executing what is queued, threads and processes keep running:
weak fairness of each stream, kernel and thread, as for each host *inside* a
call.  Waits are polls, so a wait that has become true is passed eventually;
where the flag may become false again (EQ) an invariant says that it does not.
`dev_sync` and `socket_ring` assume nothing of the caller: an application may
never make its next call, and the liveness properties are about calls that all
ranks make.  The others check finite programs, whose hosts keep queueing.  Where
every step shortens what is left to do, so that no step can be put off for ever
by the others, weak fairness of the whole next-state relation is the same and is
what the modules state (`ring_allreduce`, `connect`, `bootstrap`).

`node_allreduce` and `comm_life` have no fairness.  The programs are finite
there too, so what liveness comes to is that no state is reachable in which
there is work left and nothing can move: `NobodyStuck` in the one, TLC's check
for deadlock in the other, where only `Finished` stutters.

## 4. Creating a communicator

The other modules begin with a communicator that exists and rings that fit
together.  `CommInit` shows where that comes from.

Every rank gathers the table `dev` (host address, device, PCI id of the card)
and computes its layout **by itself**; nothing checks that the results agree.
`Layout` is that computation: cards are numbered within a node by PCI id, nodes
by their first rank, ranks within a card by rank; the ranks with one `rank_id`,
one per card, form a ring in the order of node and card.  The code fills tables
with sentinels and loops over them; the module counts (a card's number is the
number of cards of the node with lower PCI ids), which is the same for PCI ids
that tell the cards of a host apart.  Only the ids in `nic_topo`, 0 to 7, are
looked for: a card with another one has number -1.  `RingsFit` is what the other modules take
for granted: one cycle through every card, neighbours that know each other,
consecutive `phyCardRank`s, and `phyRankList` being indexed by `phyCardRank`,
as `tcclPublicWork` does when it gathers.

`CommInit` adds the sockets.  One listening socket per rank serves three rings,
and `accept` returns whoever is first in its queue (`listen`).  The ranks'
steps are connect and accept for the ring of all ranks, barrier and layout,
then, with several nodes, connect, accept and barrier for the ring of the node
and, with SHARP, connect and accept across nodes; finally the gather of
`nic_info` and the connection types.  `tcclBarrierNode` is modelled by its
rounds over the links that were really accepted (`RoundsSent`), because these
may be wrong; the barrier of all ranks by its specification.  `AllReduce` then
computes the step length of a first call; with SHARP, which is set up only where
there are several nodes, there is none.  The size of a call comes to the step
lengths as an `int`, from 2 GiB on cut off or negative (`ToInt`); the slices fit
all the same, which is proved for every size (`SlicesFit`), while TLC's integers end
where those of the code do and the run stays below.

What the library takes for granted and the model therefore too: each card has
the same number of ranks and each node the same number of cards (`Uniform`; the
code says so in a comment at `proc.cc:517` and checks it for device lists only).
`tcclCommInitAll` without a list is run with multiples of `DEV_NUM`, as the
repository's README demands of the number of processes; with others the list it
makes up puts unequal numbers of ranks on the cards, which the same function
refuses in a list of the caller.  `Placed` sums up what a table `dev` is taken to
be: ranks count from 0, PCI ids are in `nic_topo` and tell the at most
`MAX_CARD_NUM` cards of a host apart, and it is `Uniform`.  `PlacementsAssumption` demands it of the tables given
to the model; that the tables `tcclCommInitAll` makes have it is proved
(`OneHostPlaced`, `DefaultFits`).

Two properties hold only under a condition, and the condition is a limit of the
code, not of the model:

* `LinksFit` and `SetUpCompletes` speak of ranks started **node by node** and
  without SHARP.  `nodenext` is wrong for ranks dealt to the nodes in turn, and
  the set-up then waits for ever.  With SHARP, a node that has finished its own
  barrier connects to the next node, whose rank may not yet have accepted the
  link of its own ring and then takes the SHARP link for it; TLC shows it with
  two nodes of one rank when the condition is removed.  The run has `Sharp =
  {TRUE, FALSE}` so that the SHARP steps are explored under the other
  properties.
* `ChunkFitsHalf` speaks of a power of two of cards.  `tcclNicStepLen` caps the
  step at half a buffer divided by the cards and then rounds smaller amounts up
  to the next rung of a ladder, which may be above the cap: 3 nodes of 4 cards,
  2 to 2.6 MB per rank, give slices of 4 MB, 48 MB for a chunk in a half of 32.

Bounds: up to three nodes, up to eight cards of a node (for the cap of the step
length), cards numbered against their PCI ids, ranks within a card that are not
neighbours, and device lists out of order, with gaps and unequal.  `DEV_NUM` is
2; the code treats all devices of a card alike.

## 5. Proofs

Proved with TLAPS, for every number of nodes, cards, ranks, calls and chunks,
every program and every capacity of the sockets.  What is assumed of the
constants is in the `ASSUME` of the modules, which TLC evaluates in the runs:

* numbers that count things are numbers, and positive (`RankNumAssumption`,
  `NranksAssumption`, `CapacityAssumption`, `SizesAssumption`, ...); a ring has at
  least two cards, SHARP at least two nodes;
* `SendRecv`: a rank does not send to itself, and programs match
  (`MatchingAssumption`);
* `Connect`: processes are numbered from 1, a communicator has each of them once
  and its table is `Placed` (`HostAssumption`, `CommAssumption`); a process
  creates a communicator before it uses it and destroys it last, and connects
  before it posts where pairs may fail (`ProgramsAssumption`);
* `Layout`, `CommInit` and `Connect`: a card has `DEV_NUM` devices (`DevicesAssumption`),
  tables are `Placed` (`PlacementsAssumption`), and the number of ranks given to
  `tcclCommInitAll` without a list is a multiple of `DEV_NUM`
  (`DefaultsAssumption`).

Two hypotheses are more than that: `NothingOverwritten` and `SumsAreCorrect` are
for `card_num > 1`, as they are false for one card per node, and `OneReduction` and
`ReturnsAreReduced` are without `Overlap`, with which the first is false (section 6).

No property is inductive as it stands; each module begins with the inductive
invariant, in named parts, and then shows part by part that every action keeps
it.  All parts were checked by TLC on the instances of the runs first.

**`DevSyncProofs`**: `TypeCorrect`, `StreamsStayBehindBarriers`,
`FlagsNeverOvershoot`, `KernelWorksAlone`, `CallsAreBarriers`.

None of the safety properties is inductive.  The inductive invariant adds to
type correctness: which command a stream can be at in each kind of phase
(`StepInv`); that a running kernel is that of the phase rank 0 is in
(`KernelInv`); whose addresses are published (`AddrInv`); that two streams are
never more than a phase apart, because a signal of the next phase needs the wait
of this one (`Chain`); and what a flag's value *is* (`FlagInv`): `rank_num`
times the earlier phases of the flag that are complete, plus the number of ranks
that have signalled the latest, a cardinality.  The heart of the argument is
`WaitSeesAll`: a stream that sees the awaited value has seen the signals of all
ranks, as the cardinality of the signallers is then `rank_num`.  `NoOvershoot`
follows since a flag's next phase begins two phases later, and nobody can be two
phases ahead.  For `CallsAreBarriers` each action of `DevSync` is a step of
`CardBarrier` or leaves its variables alone (`RefinementStep`), the guard of
`Leave` being what `BarrierSafety` says.

**`SocketRingProofs`**: `TypeCorrect` (of a `TypeOK` that no run checks on its
own, as the others contain it), `RingIsBarrier`, `GathersComplete`.

Messages carry no number, so the invariant numbers them: the n-th message a
rank has sent belongs to call `n \div Rounds` and round `n % Rounds`
(`NumberUnique`: it does so in one way), what is in a socket is exactly the
messages sent and not yet received, in order (`CountInv`, `MsgInv`), and so a
rank in round i of call k has *heard of* the i ranks before it having begun k
(`HeardInv`).  After `Rounds` rounds it has heard of everybody (`Minus` is
onto).  `DataInv` says the same of the slices of a gather.

**`SendRecvProofs`**: `NeverOvershoots`, `SendsAreRendezvous`,
`MessagesAreDelivered`.

The counters of a pair only say how often each side has notified and waited.
The invariant ties them to positions in the program: `CountInv` (a counter is the
transfers of the completed operations plus what the command reached adds),
`FlagInv` (a slot of the flag holds the latest notify that went there) and
`WaitInv`.  From these, `Overshoot`: whoever waits for the n-th notify has not
given the one that would let the other pass n + 1, the next of that slot being
n + 2.  For the rendezvous the positions of two ranks have to be related although
each has others to talk to in between: `PairInv` says that of their common
operations nobody has completed more than one more than the other, and that the
other then is in the matching one; it is preserved because each operation both
notifies and waits, and `Matched` makes the two sides the same.  `ArrivedInv`,
`InBuffInv` and `ListInv` follow a message from the buffer of the sender to that
of the user: between the announcement of a receipt and its take only the sender
that has been announced to can write there (`OneSender`).

**`RingAllReduceProofs`**: `KernelsInTurn`.  `BarrierInv` is what the card barrier
promises; `TurnInv` says that around its kernel the turn is that of the rank.  The
difficult part is the start: a turn word is used again two calls later and must
be 0 then, while the reset is done by rank_id 0 alone (`FreshInv`).

The second part of the module has `NothingOverwritten` and `SumsAreCorrect`, both
for `card_num > 1`.

Streams drift apart, within bounds: a rank posts at most d posts more than the
rank d places before it (`DistInv`), and begins a call only when the next rank
has come to it (`SyncInv`), so that neighbours count the posts before a call
alike (`AlignInv`) and cards are at most one call apart (`LagInv`).  `Arrivals`,
the posts of the previous rank since the beginning of the round, then says what
is in the half of `outBuff` in use: `OutInv` gives each slice as an arc of cards
that have contributed (`Arc`), which grows by one with each post (`ArcGrow`) and
is the whole ring after `allCardNum` (`ArcFull`).  `OldInv` bounds how new a part
can be, `UserInv` says what has reached the users.

**`SharpProofs`**: `OneReduction`, `ReturnsAreReduced`.

Every node picks up a reduction from its own status words, and only communicator
and rank of it are told to the other nodes.  That the same reduction is meant
needs the whole history: the allreduce of the SHARP library keeps nodes within a
round of each other (`RoundInv`), in a round all were told the same (`PickInv`),
nodes that have ended as many rounds have reduced the same set (`TogetherInv`),
that set is exactly what the streams of a node know to be done (`ReducedInv`), and
a stream has its reductions in order (`QueueInv`).  So the head of the stream is
the same on all nodes.  `ElectInv` and `StartInv` are about the election: at most
one thread per node, all of the same number; the condition of `SameReduction`.

All this is without `Overlap`, and it is used to show that a node knows the
communicator it is told of (`RootsChoice`).  The pick of the root and the node's own
pick both have a rank in `WORK` (`DueInv`), which works on the head of its queue
(`WorkInv`); the host of such a rank has queued it for the communicator it created
last (`QuietInv`), and nobody gets that far before all have entered that creation
(`EnterInv`).  So both picks are of the same communicator, and a communicator with
a status word in use has been taken in by the thread (`TakenInv`).

**`LayoutProofs`** and **`CommInitProofs`**: `LayoutsMakeARing`,
`LinksFromPrevious`, `SlicesFit`.

The layout is a matter of counting, and `Counted` is the lemma for it: if every
element of a finite set is numbered by how many come before it in a linear order,
the numbers are 0 to n - 1 and all different.  It is used for ranks on a card, cards
of a node, nodes, and for `phyRankList`; `Places` puts them together (the ranks
with one `rank_id` are numbered from 0 to `allCardNum` - 1 by node and card) and
`RingFits` is the ring.  `NextOnNode`, for ranks started node by node, needs that
the ranks of a node are consecutive (`NodeBlocks`).  `CommInit` adds the sockets:
until the last rank has accepted its link of the ring of all ranks nobody connects
for another ring (`AllRingInv`, by the barrier between), and without SHARP all
that connect afterwards are previous ranks of the node (`NodeRingInv`).
`SharesFit`, `GetStepFits` and `NicStepFits` go down the ladders of `tcclGetStepLen`
and `tcclNicStepLen`.

**`ConnectProofs`**: `NeverTwoPosters`, `FlagsFollowData`, `KeysAlwaysFit`.

That two processes of a node do not post together is a matter of when the mutex
is initialised: every process does it, late ones after others have gone on.
`BoxInv` numbers the gathers of a creation: how many there are depends on which
kinds of pairs were made everywhere, which is known once all have given their
results (`Known`, `pos`).  From it a process that has left the creation knows
that its node has passed the gather after the mutex (`Settled`), and whoever is
within a post is who the lock names (`LockInv`).

For the flags one has to know where a post goes.  Pairs are made in two ways, and
`OwnInv` says what both leave behind: a connected pair has QPs of its own and
leads to a QP of the right peer.  It rests on what gathers (`ValueInv`) and
sockets (`MailInv`, `SessionInv`) carry, and this on what the caller can rely on
(`CreateInv`: while nothing has failed all pairs of neighbours are made; `TodoInv`:
what was posted on has been connected).  `DataInv` is the heart: a QP for data on
whose pair no poll was disturbed has at most one post under way, and the one
completion on it belongs to the post that polls for it.  `SentInv` draws the
conclusion for all earlier posts of the communicator, and the flag QP, which no
other communicator uses, keeps its order.  `LayoutProofs` gives that previous and
next are each other's (`RingFacts`).

`KeysFit` speaks of single handles, but a handle fits because of where it was
copied from, so `KeyInv`, which is added to `IInv`, relates all pairs of a process.
Those for posts are of one domain (`AlikeAt`): the first communicator that makes
pairs of a type finds none there (`HomeAt`) and makes them in a domain of its own;
every later one finds a neighbour among them that lends its handles (`LendAt`,
with `MetAtFirst`), and what is made on first use is lent them by the neighbour
that `copied` names.  The flag pairs belong to one communicator and take no part.
That the first communicator really comes first is `Left`: it has been created, or
is being created, as soon as any call has begun.

### Model-checked only

* Liveness, deadlock and the refinement's fairness everywhere: the prover has
  neither ENABLED nor fairness.  `Bootstrap` has only a liveness property.
* `RingCalls` and `NodeAllReduce`: they build their command lists by recursion over
  data, of which the prover cannot reason by induction.
* `Connect`: `PairsMatch`, which says of the QPs on both sides that they are each
  other's, where the proofs say that a QP leads to the right process.  It would
  need that two processes make their calls on a pair in the same order, in all
  communicators at once.
* `CommLife`: `HandlesAgree`, `NoUseAfterFree`, `CallsUndisturbed`,
  `SharedMemoryReturned`.
  Its scripts are lists computed from the shape of the communicator.

## 6. Findings

* `ring_one_card`: `tcclPublicWork` syncs with the previous rank only `if
  (node->card_num > 1)` (`proc.cc:530`).  With one card per node nothing keeps
  a fast rank's next AllReduce out of its neighbour's buffer.  The sync in
  `tcclNicPublicWork` with the comment "Prev ring sync to prevent data from
  being overwritten" is only compiled with `_SWIB_`.

Noted while modelling; the runs state the condition under which the property
holds, or leave the case out:

* *SHARP.*  Below the number of nodes in `TCCL_SHARP_NODE_NUM`, which the
  repository's README gives as the least for which SHARP is supported, creation
  waits for ever (`g_threshold = 3` in `sharp`): the status it waits for is set
  by a thread that was not started (`misc/sharp.cc:396`).  With `Overlap` a host
  that sets the node's status to INIT for a next communicator may have it
  overwritten by the thread that ends a reduction of the former one
  (`misc/sharp.cc:199`, `:493`).  And a node whose thread has not taken in the
  communicator that the root announces keeps its own choice (`misc/sharp.cc:183`):
  TLC finds node 0 reducing for rank 0 of the second communicator in the round in
  which node 1 reduces for rank 1 of the first.  The run and the theorems have
  `Overlap = FALSE`, an application that waits for its reductions first.  The file
  of the election outlives a process that dies; its name has port 0
  (`misc/sharp.cc:349`), so the next run on the host always meets it and elects
  nobody.
* *Ring calls.*  The missing sync of `ring_one_card` also concerns the other ring
  calls: with `card_num = 1` TLC finds a Broadcast followed by a Reduce with a wrong
  result.  `ring_calls` covers several cards per node.
* *Creation.*  The SHARP link taken for a node link and the chunk longer than
  half a buffer (section 4).
* *Splitting.*  `tcclCommSplit` ignores the result of `tcclCommInitRankConfig`
  (`init.cc:1668`); `rootRank` is not initialised when no rank of a colour has
  key 0 (`init.cc:1640`); the root threads of all ranks with another key listen for ever.
* *Connections.*  `IB_COPY` also goes over elements that another communicator
  has initialised and mixes protection domains (`init.cc:675`), and a pair made
  where no neighbour lends its handles has a domain of its own, which a later
  communicator then mixes with others: `KeysFit` is for processes that have
  neighbours on other nodes in every communicator and meet them all in the first.
  (That they meet them in the first is not enough: with three cards a node, a
  communicator in which a card has no neighbour on another node, an all-to-all
  in it and one more communicator give a pair the memory region of another
  domain.)  When
  `resources_create` fails it also frees what was lent to the pair
  (`misc/ib.cc:220`).  On first use a failure leads to a null pointer
  (`init.cc:683`).  A pair whose `connect_qp` failed is marked initialized all
  the same (`init.cc:701`, `:861`).  After a poll has given up, the completion it
  missed satisfies the next one (`misc/ib.cc:35`).  The shared mutex is robust,
  but nobody looks at `EOWNERDEAD`.
* *Destruction.*  What no other rank sees is not all given back: the `cntflag` of
  the ranks other than 0 (`misc/barrier.cc:255`, `init.cc:1767`), and on the host
  `sendcntall` and `recvcntall` (`misc/barrier.cc:98`), `cardMap` (`proc.cc:1175`)
  and `allRing`; the repository's `BUGS` (line 7) names a memory leak.  Zeroing
  the shared cross buffers does no harm to a transfer between a rendezvous and
  its end, but a ring call that pushes ahead has none; `comm_life` has
  all-to-all calls only.  Names of shared memory files come from a port, which
  the system may give to another communicator later (`transport/shm.cc:22`).
* *Calls.*  `enqueue.cc:317` keeps the address of a local array after its block;
  `enqueue.cc:459` hands a padded count on; `include/graph.h:74` sets the
  parameters of a graph whose earlier launch may still run.

## 7. Not modelled

* **Kernels.**  Their bodies are stubs in this commit, and so are some calls of
  the runtime (`misc/yangl.cc`).  A kernel is one step that does what its caller
  relies on; the resident kernel is a list of steps derived from its arguments.
* **The device runtime.**  Writes are atomic, streams are in order, a flag
  written after data by the same stream is seen after the data.
* **The network.**  TCP delivers in order; an InfiniBand QP delivers in order
  and reports completions.  Outside `Connect` a post is one step, also one by
  the RDMA of the NIC, whose set-up (`misc/nic.cc`) is left out.
* **`_SWIB_` builds**: the double ring and the sync of `LgcPrev`.
* **Crashes.**  No part of the library recovers from the death of a process.
* **Failures of single calls** other than `resources_create` and polls: they end
  the process or are ignored.
* **`tcclAlltoall` on one card** (`enqueue.cc:642`): a kernel between two card
  barriers, the pattern of `DevSync`.
* **`tcclGroupStart`, `tcclGroupEnd`** do nothing (`init.cc:1468`).
* Wrappers, logging, parameters, sockets below the level of messages.

## 8. Plan

Done: card barrier, socket ring, point to point and all-to-all, ring AllReduce,
SHARP, topology and creation, connections, all with proofs; ring calls; node
AllReduce; splitting; destruction.

Next, in this order:

1. Proofs: `PairsMatch` of `Connect`, from the order in which two processes come
   to the calls on their pair; `HandlesAgree` of `CommLife`.
2. Abstract specifications: a *collective call* (each user gets its result once
   all have called) for `RingCalls` and `NodeAllReduce`; a *mailbox* per pair for
   `SendRecv`.
3. Compositions: `Bootstrap` before `CommInit`; a ring call instead of
   `tcclAlltoall` in `CommLife`; posts of `Connect` below the transfers of
   `SendRecv`.
4. The one-card `tcclAlltoall`, `tcclSharpFini`.
