------------------------------ MODULE CommLife -----------------------------
(***************************************************************************)
(* The life of communicators on one node: how the ranks of a card and the  *)
(* cards of a node hand each other the addresses of the memory they share  *)
(* (tcclCommInitRankSync), and when that memory is given back              *)
(* (tcclCommDestroy).                                                      *)
(*                                                                         *)
(* Rank 0 of a card allocates the flags and lists of its card.  The others *)
(* find the addresses in shared memory files whose few slots are used      *)
(* again and again, each time between two barriers; an address that comes  *)
(* from another process is opened as an IPC handle.  The cross buffers are *)
(* a device's: all communicators of the device use the same two, destroying*)
(* one of them fills both with zeros and never frees them.                 *)
(*                                                                         *)
(* Destroying waits for the stream of the caller, and for nobody else.     *)
(* What that is enough for, and where the application has to wait, is the  *)
(* question of this module; the call between creation and destruction is   *)
(* tcclAlltoall, whose commands SendRecv models in detail: here a wait is  *)
(* over when the peer has executed the command it is told by.              *)
(*                                                                         *)
(* The barriers are what SocketRing shows of them.  A shared memory file   *)
(* belongs to one communicator (its name is the port of the unique id) and *)
(* may hold anything at first.  A device is driven by one thread, with one *)
(* stream.                                                                 *)
(***************************************************************************)
EXTENDS Integers, Sequences, SequencesExt, TLC

CONSTANTS card,       \* the card of each device
          Comm,       \* communicators: their devices, by rank
          Programs    \* the calls of the application, and whose process
                      \* each device belongs to

Devs == DOMAIN card
Comms == DOMAIN Comm
Members == [c \in Comms |-> Range(Comm[c])]
Calls == [do : {"create", "alltoall", "destroy"}, comm : Comms]

ASSUME CommAssumption == \A c \in Comms :
  Members[c] \subseteq Devs /\ Len(Comm[c]) > 1 /\ IsInjective(Comm[c])
ASSUME ProgramsAssumption == \A p \in Programs :
  p.calls \in Seq(Calls) /\ DOMAIN p.pid = Devs

\* rank, the ranks of a card in order of their number, rank_id.
rank == [c \in Comms |-> [d \in Members[c] |-> CHOOSE r \in 0 .. Len(Comm[c]) - 1 : Comm[c][r + 1] = d]]
nranks(c) == Len(Comm[c])
Cards(c) == {card[d] : d \in Members[c]}
OnCard(c, k) == SelectSeq(Comm[c], LAMBDA d : card[d] = k)
rank_num(c) == Len(OnCard(c, card[Comm[c][1]]))
Root(c, k) == Head(OnCard(c, k))
IsRoot(c, d) == d = Root(c, card[d])
Mates(c, d) == Range(OnCard(c, card[d]))

\* The ring of the cards: whom flag 3 comes from.
PrevCard(c, k) ==
  IF \E j \in Cards(c) : j < k THEN CHOOSE j \in Cards(c) : j < k /\ \A i \in Cards(c) : i < k => i <= j
  ELSE CHOOSE j \in Cards(c) : \A i \in Cards(c) : i <= j
phyPrevRank == [c \in Comms |-> [d \in Members[c] |->
  LET mine == OnCard(c, card[d])
      i == CHOOSE i \in DOMAIN mine : mine[i] = d IN
  OnCard(c, PrevCard(c, card[d]))[i]]]

VARIABLES
  prog,      \* the program and the processes
  todo,      \* the calls each device has left
  at,        \* the step of the first of them
  list,      \* file ShmAddr of each card: addresses
  handleList,\* file CardDevSync: a handle and a process for each card
  map,       \* file Map: the small buffer and its process, for each card
  nic_info,  \* what each rank has given to the gather of the bootstrap
  ptr,       \* the addresses each rank knows
  opened,    \* the IPC handles each rank has opened, by communicator
  alive,     \* device memory allocated
  g_memReuseCnt,   \* communicators that have asked for a device's cross buffers
  inBuff, outBuff, \* what the cross buffers of each device hold
  queue,     \* the calls on the stream of each device
  done       \* commands executed, of each communicator

files == <<list, handleList, map, nic_info>>
memory == <<ptr, opened, alive, g_memReuseCnt>>
cross == <<inBuff, outBuff>>
stream == <<queue, done>>
vars == <<prog, todo, at, files, memory, cross, stream>>

\* Memory is named by what it is for, whose communicator and who allocated it.
Block(what, c, d) == [what |-> what, comm |-> c, dev |-> d]
Shared == "all"
Cross(d) == {Block("in", Shared, d), Block("out", Shared, d)}
Junk == Block("junk", Shared, 0)
Zero == <<>>

pid(d) == prog.pid[d]
raw(b) == [block |-> b, ipc |-> FALSE]
ipc(b) == [block |-> b, ipc |-> TRUE]

-----------------------------------------------------------------------------
\* What tcclCommInitRankSync and tcclCommDestroy do, step by step.  Barriers
\* of a card are left out where it has one rank.
Give(what) == [do |-> "give", what |-> what]
Take(what) == [do |-> "take", what |-> what]
Step(do) == [do |-> do, what |-> ""]
BarrierNode == <<Step("barrier")>>
BarrierCard(c) == IF rank_num(c) > 1 THEN BarrierNode ELSE <<>>

\* tcclDevListInit, and the first part of tcclDevSyncInit
InList(c, what) == <<Give(what)>> \o BarrierCard(c) \o <<Take(what)>> \o BarrierCard(c)

\* handleList and map
Bug_InHandles(what) == <<Give(what)>> \o BarrierNode \o <<Take(what)>>
InHandles(what) == <<Give(what)>> \o BarrierNode \o <<Take(what)>> \o BarrierNode

tcclDevSyncInit(c) ==
  InList(c, "syncflag") \o BarrierNode
  \o InHandles("nextcard") \o InHandles("peercard") \o InHandles("a2acard")
tcclPublicInit == InHandles("smallBuff") \o BarrierNode

CreateScript == [c \in Comms |->
  <<Step("cross"), Step("give info"), Step("take info")>>
  \o InList(c, "devList") \o tcclDevSyncInit(c) \o tcclPublicInit]
DestroyScript == <<Step("finalize"), Step("close"), Step("free card"), Step("free own")>>

Init ==
  /\ prog \in Programs
  /\ todo = [d \in Devs |-> SelectSeq(prog.calls, LAMBDA call : d \in Members[call.comm])]
  /\ at = [d \in Devs |-> 1]
  /\ list = [c \in Comms |-> [k \in Cards(c) |-> [slot \in 0 .. 1 |-> Junk]]]
  /\ handleList = [c \in Comms |-> [k \in Cards(c) |-> [block |-> Junk, pid |-> 0]]]
  /\ map = [c \in Comms |-> [k \in Cards(c) |-> [block |-> Junk, pid |-> 0]]]
  /\ nic_info = [c \in Comms |-> <<>>]
  /\ ptr = [c \in Comms |-> [d \in Members[c] |-> <<>>]]
  /\ opened = [c \in Comms |-> [d \in Members[c] |-> {}]]
  /\ alive = {}
  /\ g_memReuseCnt = [d \in Devs |-> 0]
  /\ inBuff = [d \in Devs |-> Zero] /\ outBuff = [d \in Devs |-> Zero]
  /\ queue = [d \in Devs |-> <<>>]
  /\ done = [c \in Comms |-> [d \in Members[c] |-> 0]]

Doing(d, do) == todo[d] # <<>> /\ Head(todo[d]).do = do
Current(d) == Head(todo[d]).comm
Script(call) == CASE call.do = "create" -> CreateScript[call.comm]
                  [] call.do = "destroy" -> DestroyScript
                  [] OTHER -> <<Step("enqueue")>>
AtStep(d, do) == todo[d] # <<>> /\ Script(Head(todo[d]))[at[d]].do = do
What(d) == Script(Head(todo[d]))[at[d]].what
Advance(d) ==
  /\ IF at[d] < Len(Script(Head(todo[d])))
     THEN at' = [at EXCEPT ![d] = @ + 1] /\ UNCHANGED todo
     ELSE at' = [at EXCEPT ![d] = 1] /\ todo' = [todo EXCEPT ![d] = Tail(@)]
  /\ UNCHANGED prog

\* The addresses that a rank learns and the handles that it opens on the way.
Learn(c, d, new) ==
  /\ ptr' = [ptr EXCEPT ![c][d] = new @@ @]
  /\ opened' = [opened EXCEPT ![c][d] = @ \cup {new[x].block : x \in {y \in DOMAIN new : new[y].ipc}}]

-----------------------------------------------------------------------------
(* Creation *)

Bug_tcclReuseMemAllocMap(d) ==
  /\ alive' = alive \cup Cross(d)
  /\ inBuff' = [inBuff EXCEPT ![d] = Zero]
  /\ outBuff' = [outBuff EXCEPT ![d] = Zero]
  /\ g_memReuseCnt' = [g_memReuseCnt EXCEPT ![d] = @ + 1]

\* The first communicator of a device allocates its cross buffers.
tcclReuseMemAllocMap(d) ==
  /\ IF g_memReuseCnt[d] = 0
     THEN /\ alive' = alive \cup Cross(d)
          /\ inBuff' = [inBuff EXCEPT ![d] = Zero]
          /\ outBuff' = [outBuff EXCEPT ![d] = Zero]
     ELSE UNCHANGED <<alive, cross>>
  /\ g_memReuseCnt' = [g_memReuseCnt EXCEPT ![d] = @ + 1]

tcclCrossBuffInit(d) ==
  /\ AtStep(d, "cross")
  /\ tcclReuseMemAllocMap(d)
  /\ Advance(d)
  /\ UNCHANGED <<files, ptr, opened, stream>>

\* tcclBootstrapInit: the flags of the rank are allocated; all ranks are told
\* where they and the cross buffers are.
GiveInfo(d) ==
  LET c == Current(d) IN
  /\ AtStep(d, "give info")
  /\ alive' = alive \cup {Block("flag", c, d)}
  /\ nic_info' = [nic_info EXCEPT ![c] = (d :> pid(d)) @@ @]
  /\ Advance(d)
  /\ UNCHANGED <<list, handleList, map, ptr, opened, g_memReuseCnt, cross, stream>>

\* tcclRankMemOpen: memory of another process is opened.
TakeInfo(d) ==
  LET c == Current(d)
      Address(what, q) ==
        LET b == Block(what, IF what = "flag" THEN c ELSE Shared, q) IN
        IF nic_info[c][q] = pid(d) THEN raw(b) ELSE ipc(b) IN
  /\ AtStep(d, "take info")
  /\ DOMAIN nic_info[c] = Members[c]
  /\ Learn(c, d, [x \in {"in", "out", "flag"} \X Members[c] |-> Address(x[1], x[2])])
  /\ Advance(d)
  /\ UNCHANGED <<files, alive, g_memReuseCnt, cross, stream>>

\* Rank 0 of a card allocates devList, or syncflag and splitFlag, and writes
\* the addresses into list.
InFirst == [devList |-> <<"devList">>, syncflag |-> <<"syncflag", "splitFlag">>]
GiveList(d) ==
  LET c == Current(d)
      k == card[d]
      new == InFirst[What(d)] IN
  /\ AtStep(d, "give") /\ What(d) \in DOMAIN InFirst
  /\ IF IsRoot(c, d)
     THEN /\ alive' = alive \cup {Block(new[i], c, d) : i \in DOMAIN new}
          /\ list' = [list EXCEPT ![c][k] = [slot \in 0 .. 1 |->
               IF slot < Len(new) THEN Block(new[slot + 1], c, d) ELSE @[slot]]]
     ELSE UNCHANGED <<alive, list>>
  /\ Advance(d)
  /\ UNCHANGED <<handleList, map, nic_info, ptr, opened, g_memReuseCnt, cross, stream>>

\* The others read them; all ranks of a card see the same addresses.
TakeList(d) ==
  LET c == Current(d)
      k == card[d]
      new == InFirst[What(d)] IN
  /\ AtStep(d, "take") /\ What(d) \in DOMAIN InFirst
  /\ Learn(c, d, [x \in Range(new) \X {k} |->
       raw(IF IsRoot(c, d) THEN Block(x[1], c, d)
           ELSE list[c][k][(CHOOSE i \in DOMAIN new : new[i] = x[1]) - 1])])
  /\ Advance(d)
  /\ UNCHANGED <<files, alive, g_memReuseCnt, cross, stream>>

\* Rank 0 of a card allocates nextcard, peercard or a2acard and puts its
\* handle where the handle before was; the process only the first time.
Handles == {"nextcard", "peercard", "a2acard"}
GiveHandle(d) ==
  LET c == Current(d)
      b == Block(What(d), c, d) IN
  /\ AtStep(d, "give") /\ What(d) \in Handles
  /\ IF IsRoot(c, d)
     THEN /\ alive' = alive \cup {b}
          /\ handleList' = [handleList EXCEPT ![c][card[d]] =
               [block |-> b, pid |-> IF What(d) = "nextcard" THEN pid(d) ELSE @.pid]]
     ELSE UNCHANGED <<alive, handleList>>
  /\ Advance(d)
  /\ UNCHANGED <<list, map, nic_info, ptr, opened, g_memReuseCnt, cross, stream>>

\* sameProc and sameProcList say which handles have to be opened.  They are
\* set with the first handle and hold for the others.
sameProc(c, d, k) ==
  IF <<"nextcard", k>> \in DOMAIN ptr[c][d] THEN ~ptr[c][d][<<"nextcard", k>>].ipc
  ELSE handleList[c][k].pid = pid(d)

TakeHandle(d) ==
  LET c == Current(d)
      Address(k) ==
        LET b == handleList[c][k].block IN
        IF k = card[d] /\ IsRoot(c, d) THEN raw(Block(What(d), c, d))
        ELSE IF sameProc(c, d, k) THEN raw(b) ELSE ipc(b) IN
  /\ AtStep(d, "take") /\ What(d) \in Handles
  /\ Learn(c, d, [x \in {What(d)} \X Cards(c) |-> Address(x[2])])
  /\ Advance(d)
  /\ UNCHANGED <<files, alive, g_memReuseCnt, cross, stream>>

\* tcclPublicInit: the small buffer of the card, by the file Map.
GiveMap(d) ==
  LET c == Current(d)
      b == Block("smallBuff", c, d) IN
  /\ AtStep(d, "give") /\ What(d) = "smallBuff"
  /\ IF IsRoot(c, d)
     THEN /\ alive' = alive \cup {b}
          /\ map' = [map EXCEPT ![c][card[d]] = [block |-> b, pid |-> pid(d)]]
     ELSE UNCHANGED <<alive, map>>
  /\ Advance(d)
  /\ UNCHANGED <<list, handleList, nic_info, ptr, opened, g_memReuseCnt, cross, stream>>

TakeMap(d) ==
  LET c == Current(d)
      Address(k) == IF map[c][k].pid = pid(d) THEN raw(map[c][k].block) ELSE ipc(map[c][k].block) IN
  /\ AtStep(d, "take") /\ What(d) = "smallBuff"
  /\ Learn(c, d, [x \in {"smallBuff"} \X Cards(c) |-> Address(x[2])])
  /\ alive' = alive \cup {Block("cntflag", c, d), Block("tmp", c, d)}
  /\ Advance(d)
  /\ UNCHANGED <<files, g_memReuseCnt, cross, stream>>

\* tcclBarrierNode: nobody goes on before all ranks of the node have come.
Reached(c, q, d) ==
  \/ ~ \E i \in DOMAIN todo[q] : todo[q][i] = [do |-> "create", comm |-> c]
  \/ todo[q] # <<>> /\ Head(todo[q]) = [do |-> "create", comm |-> c] /\ at[q] >= at[d]
tcclBarrierNode(d) ==
  /\ AtStep(d, "barrier")
  /\ \A q \in Members[Current(d)] : Reached(Current(d), q, d)
  /\ Advance(d)
  /\ UNCHANGED <<files, memory, cross, stream>>

-----------------------------------------------------------------------------
(* Calls *)

\* The rounds of a call and the commands of a round (AlltoallScript of
\* SendRecv).  What a stream does after a wait without waiting again is one
\* command here:
\*   ready     tell the source, copy the data to inBuff
\*   transfer  wait for the peer, move the data there, tell it
\*   take      wait for the source, take the data out, signal the card barrier
\*   barrier   wait for the card, tell the next card
\*   told      wait for the previous card
Commands == <<"ready", "transfer", "take", "barrier", "told">>
PerCall(c) == Len(Commands) * (nranks(c) - 1)

Enqueue(d) ==
  /\ AtStep(d, "enqueue")
  /\ queue' = [queue EXCEPT ![d] = Append(@, Current(d))]
  /\ Advance(d)
  /\ UNCHANGED <<files, memory, cross, done>>

\* Command n of communicator c: its name, the peer and the source of its
\* round, the message it moves.
Name(n) == Commands[((n - 1) % Len(Commands)) + 1]
Round(c, n) == (((n - 1) \div Len(Commands)) % (nranks(c) - 1)) + 1
Peer(c, d, n) == Comm[c][((rank[c][d] + Round(c, n)) % nranks(c)) + 1]
Source(c, d, n) == Comm[c][((rank[c][d] - Round(c, n) + nranks(c)) % nranks(c)) + 1]
Message(c, d, n) == <<c, d, (n - 1) \div Len(Commands)>>

\* Whom a command waits for: until they have executed the command before it.
Awaits(c, d, n) ==
  CASE Name(n) = "ready" -> {}
    [] Name(n) = "transfer" -> {Peer(c, d, n)}
    [] Name(n) = "take" -> {Source(c, d, n)}
    [] Name(n) = "barrier" -> Mates(c, d)
    [] Name(n) = "told" -> {phyPrevRank[c][d]}

\* The memory a command polls, reads or writes, by the addresses its rank knows.
Touches(c, d, n) ==
  LET Known(what, i) == ptr[c][d][<<what, i>>].block
      next == CHOOSE q \in Members[c] : phyPrevRank[c][q] = d IN
  CASE Name(n) = "ready" -> {Known("flag", Source(c, d, n)), Known("in", d)}
    [] Name(n) = "transfer" -> {Known("flag", d), Known("in", d), Known("out", Peer(c, d, n)),
                                Known("flag", Peer(c, d, n))}
    [] Name(n) = "take" -> {Known("flag", d), Known("out", d), Known("syncflag", card[d])}
    [] Name(n) = "barrier" -> {Known("syncflag", card[d]), Known("flag", next)}
    [] Name(n) = "told" -> {Known("flag", d)}

Served(c, d, n) == \A q \in Awaits(c, d, n) : done[c][q] >= n - 1

\* The stream of a device executes its next command.
Stream(d) ==
  LET c == Head(queue[d])
      n == done[c][d] + 1 IN
  /\ queue[d] # <<>>
  /\ Served(c, d, n)
  /\ inBuff' = IF Name(n) = "ready" THEN [inBuff EXCEPT ![d] = Message(c, d, n)] ELSE inBuff
  /\ outBuff' = IF Name(n) = "transfer"
                THEN [outBuff EXCEPT ![Peer(c, d, n)] = inBuff[d]] ELSE outBuff
  /\ done' = [done EXCEPT ![c][d] = n]
  /\ queue' = IF n % PerCall(c) = 0 THEN [queue EXCEPT ![d] = Tail(@)] ELSE queue
  /\ UNCHANGED <<prog, todo, at, files, memory>>

-----------------------------------------------------------------------------
(* Destruction *)

\* What the application has to see to: rank 0 of a card destroys when the
\* others of its card have executed all their calls.
UsesLeft(c, d) ==
  \/ \E i \in DOMAIN queue[d] : queue[d][i] = c
  \/ \E i \in DOMAIN todo[d] : todo[d][i].comm = c /\ todo[d][i].do # "destroy"
MayDestroy(c, d) == IsRoot(c, d) => \A q \in Mates(c, d) : ~UsesLeft(c, q)

\* The stream of the caller is waited for.
tcclCommFinalize(d) ==
  /\ AtStep(d, "finalize")
  /\ MayDestroy(Current(d), d)
  /\ queue[d] = <<>>
  /\ Advance(d)
  /\ UNCHANGED <<files, memory, cross, stream>>

\* tcclReuseMemFree: the cross buffers are emptied; neither is the count
\* lowered nor anything freed.
tcclReuseMemFree(d) ==
  /\ inBuff' = [inBuff EXCEPT ![d] = Zero]
  /\ outBuff' = [outBuff EXCEPT ![d] = Zero]

\* The handles of the cards that are closed: of the other cards and, by all
\* ranks but rank 0, of the own card.
Bug_CardHandles(c, d) ==
  {x \in Handles \X Cards(c) : x[2] # card[d] /\ ~sameProc(c, d, x[2])}
CardHandles(c, d) ==
  {x \in Handles \X Cards(c) :
     (x[2] = card[d] => ~IsRoot(c, d)) /\ ~sameProc(c, d, x[2])}

\* What a rank closes is what the processes say it has opened.
Closes(c, d) ==
  LET peers == {x \in {"in", "out", "flag"} \X Members[c] : nic_info[c][x[2]] # pid(d)}
      small == {x \in {"smallBuff"} \X Cards(c) :
                  (x[2] = card[d] => ~IsRoot(c, d)) /\ map[c][x[2]].pid # pid(d)} IN
  {ptr[c][d][x].block : x \in peers \cup small \cup CardHandles(c, d)}

\* tcclRankMemClose, tcclPublicFini and the handles of the cards.
Close(d) ==
  LET c == Current(d) IN
  /\ AtStep(d, "close")
  /\ opened' = [opened EXCEPT ![c][d] = @ \ Closes(c, d)]
  /\ tcclReuseMemFree(d)
  /\ alive' = alive \ ({Block("tmp", c, d)} \cup
       IF IsRoot(c, d) THEN {ptr[c][d][<<"smallBuff", card[d]>>].block} ELSE {})
  /\ Advance(d)
  /\ UNCHANGED <<files, ptr, g_memReuseCnt, stream>>

\* Rank 0 frees what belongs to the card, by the addresses it knows.
CardBlocks == {"devList", "nextcard", "peercard", "syncflag", "splitFlag", "a2acard"}
Bug_FreeCard(d) ==
  LET c == Current(d) IN
  /\ AtStep(d, "free card")
  /\ alive' = alive \ ({ptr[c][d][<<what, card[d]>>].block : what \in CardBlocks}
                       \cup {Block("cntflag", c, d)})
  /\ Advance(d)
  /\ UNCHANGED <<files, ptr, opened, g_memReuseCnt, cross, stream>>
FreeCard(d) ==
  LET c == Current(d) IN
  /\ AtStep(d, "free card")
  /\ alive' = IF IsRoot(c, d)
              THEN alive \ ({ptr[c][d][<<what, card[d]>>].block : what \in CardBlocks}
                            \cup {Block("cntflag", c, d)})
              ELSE alive
  /\ Advance(d)
  /\ UNCHANGED <<files, ptr, opened, g_memReuseCnt, cross, stream>>

\* The flags of the rank itself, last of all.
FreeOwn(d) ==
  LET c == Current(d) IN
  /\ AtStep(d, "free own")
  /\ alive' = alive \ {ptr[c][d][<<"flag", d>>].block}
  /\ ptr' = [ptr EXCEPT ![c][d] = <<>>]
  /\ Advance(d)
  /\ UNCHANGED <<files, opened, g_memReuseCnt, cross, stream>>

-----------------------------------------------------------------------------
Host(d) ==
  \/ tcclCrossBuffInit(d) \/ GiveInfo(d) \/ TakeInfo(d)
  \/ GiveList(d) \/ TakeList(d) \/ GiveHandle(d) \/ TakeHandle(d)
  \/ GiveMap(d) \/ TakeMap(d) \/ tcclBarrierNode(d)
  \/ Enqueue(d)
  \/ tcclCommFinalize(d) \/ Close(d) \/ FreeCard(d) \/ FreeOwn(d)

Ended(d) == todo[d] = <<>> /\ queue[d] = <<>>
Finished ==
  /\ \A d \in Devs : Ended(d)
  /\ UNCHANGED vars

Next == (\E d \in Devs : Host(d) \/ Stream(d)) \/ Finished
Spec == Init /\ [][Next]_vars

-----------------------------------------------------------------------------
\* Every address a rank knows is that of the memory allocated for this
\* purpose, by rank 0 of that card or by that rank, for this communicator,
\* and it is an open handle exactly if another process allocated it.  The
\* slots of the files are used several times and may hold anything at first:
\* no rank reads one too early or too late.
Owner(c, what, i) == IF what \in {"in", "out", "flag"} THEN i ELSE Root(c, i)
HandlesAgree ==
  \A c \in Comms : \A d \in Members[c] : \A x \in DOMAIN ptr[c][d] :
    LET b == ptr[c][d][x].block
        owner == Owner(c, x[1], x[2]) IN
    /\ b = Block(x[1], IF x[1] \in {"in", "out"} THEN Shared ELSE c, owner)
    /\ x[1] \notin {"devList", "syncflag", "splitFlag"} =>
         (ptr[c][d][x].ipc <=> pid(owner) # pid(d))

\* The command a stream waits to execute, or polls in, touches no memory that
\* has been freed: it is enough that rank 0 of a card waits for the others of its card
\* before it destroys, all others need not wait for anybody.
NoUseAfterFree ==
  \A d \in Devs : queue[d] # <<>> =>
    LET c == Head(queue[d]) IN Touches(c, d, done[c][d] + 1) \subseteq alive

\* What a rank takes out of its cross buffer is what its peer sent it in this
\* round of this call: creating and destroying other communicators that use
\* the same buffers does not disturb calls under way.
CallsUndisturbed ==
  \A d \in Devs : queue[d] # <<>> =>
    LET c == Head(queue[d])
        n == done[c][d] + 1 IN
    Name(n) = "take" /\ Served(c, d, n) => outBuff[d] = Message(c, Source(c, d, n), n)

\* The memory that the ranks of a communicator share and its IPC handles are
\* given back.  A rank that destroys its communicator closes the handles it has
\* opened and nothing else, although some were opened by one rank of a card and
\* others by all, and when all ranks have destroyed it neither a shared block of
\* it is allocated nor a handle of it open.  This says nothing of what no other
\* rank sees: cntflag, which only rank 0 of a card frees, and the memory of the
\* host (sendcntall, recvcntall, cardMap, allRing), which nobody frees.
SharedBlocks == CardBlocks \cup {"smallBuff", "flag"}
SharedMemoryReturned ==
  /\ \A d \in Devs : AtStep(d, "close") => Closes(Current(d), d) = opened[Current(d)][d]
  /\ \A c \in Comms :
       (/\ \E i \in DOMAIN prog.calls : prog.calls[i] = [do |-> "destroy", comm |-> c]
        /\ \A d \in Members[c] : \A i \in DOMAIN todo[d] : todo[d][i].comm # c) =>
       /\ \A b \in alive : ~(b.comm = c /\ b.what \in SharedBlocks)
       /\ \A d \in Members[c] : opened[c][d] = {}
=============================================================================
