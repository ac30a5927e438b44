------------------------------- MODULE Sharp -------------------------------
(***************************************************************************)
(* AllReduce between nodes through SHARP (misc/sharp.cc).  The ranks of a  *)
(* node elect one of them over a shared memory file; it sets up SHARP and  *)
(* starts a thread that does the reductions of all ranks of the node.      *)
(* Ranks and thread talk through two status words in shared memory:        *)
(*   g_ctl->status   of the node: FREE, WORK while the thread reduces,     *)
(*                   INIT to make it take in a new communicator;           *)
(*   map[c][r]       of rank r for communicator c: FREE or WORK.           *)
(* The thread of node 0 picks the next reduction and tells the others.     *)
(*                                                                         *)
(* A rank is a host, which creates the communicators one after the other   *)
(* and queues the reductions of each, and a stream that runs               *)
(* tcclAllreduceInterFunc for each of them.  With Overlap the host goes on *)
(* to the next communicator while its reductions run.                      *)
(*                                                                         *)
(* The SHARP library is external: its broadcast delivers what the root     *)
(* gave, its allreduce returns when all nodes have called it.  Barriers    *)
(* are used by their specification (SocketRing).  A rank is <<node, no>>.  *)
(***************************************************************************)
EXTENDS Integers, Sequences

CONSTANTS node_num, rank_num,   \* nodes, and ranks of each node
          g_threshold,          \* TCCL_SHARP_NODE_NUM
          Overlap,              \* may a host create communicators meanwhile?
          NumComms, NumReductions   \* bounds: communicators, reductions of each

ASSUME SizesAssumption ==
  /\ node_num \in Nat \ {0, 1} /\ rank_num \in Nat \ {0}
  /\ g_threshold \in Nat /\ Overlap \in BOOLEAN
  /\ NumComms \in Nat \ {0} /\ NumReductions \in Nat \ {0}

Nodes == 0 .. node_num - 1
RankNos == 0 .. rank_num - 1
Ranks == Nodes \X RankNos
Comms == 1 .. NumComms
node_id(r) == r[1]
rank_no(r) == r[2]
SharpNext(r) == <<(node_id(r) + 1) % node_num, rank_no(r)>>

VARIABLES
  pc, comm,        \* of every host: what it does next, for which communicator
  shmExists,       \* node 0: the file of tcclIsShmExist
  ring,            \* flags on the way to a rank in the ring of its sharp sockets
  initflag,        \* of every rank: 1 in the elected one
  entered,         \* barriers of all ranks, and of the node, a host has entered
  ctl,             \* g_ctl of every node: status and the communicator to take in
  map,             \* shared maps: status and reduction of every rank
  queue, spc,      \* streams: reductions queued, and what the stream does
  thread, round,   \* public threads: what they do, and rounds of work begun
  sharpMap,        \* g_sharpMap: the communicators a thread has taken in
  pick,            \* the entry a thread works on
  info,            \* g_info, as broadcast by the root
  reduced          \* of every node: the reductions it has taken part in

hosts == <<pc, comm, shmExists, ring, initflag, entered>>
streams == <<queue, spc>>
threads == <<thread, round, sharpMap, pick, info, reduced>>
vars == <<hosts, streams, threads, ctl, map>>

ZERO == "ZERO"   \* a status word nobody has written
None == <<0, 0>>
Fresh == [status |-> ZERO, reduction |-> 0]

\* tcclSharpInit returns at once.
Below == node_num < g_threshold

Init ==
  /\ pc = [r \in Ranks |-> IF Below THEN "addr" ELSE IF node_id(r) = 0 THEN "exist" ELSE "flag"]
  /\ comm = [r \in Ranks |-> 1]
  /\ shmExists = FALSE
  /\ ring = [r \in Ranks |-> <<>>]
  /\ initflag = [r \in Ranks |-> 0]
  /\ entered = [r \in Ranks |-> 0]
  /\ ctl = [n \in Nodes |-> [status |-> ZERO, commport |-> 0]]
  /\ map = [n \in Nodes |-> [c \in Comms |-> [i \in RankNos |-> Fresh]]]
  /\ queue = [r \in Ranks |-> <<>>]
  /\ spc = [r \in Ranks |-> "idle"]
  /\ thread = [n \in Nodes |-> "none"]
  /\ round = [n \in Nodes |-> 0]
  /\ sharpMap = [n \in Nodes |-> <<>>]
  /\ pick = [n \in Nodes |-> None]
  /\ info = None
  /\ reduced = [n \in Nodes |-> {}]

-----------------------------------------------------------------------------
\* tcclSharpPublicInit: rank 0's check, the flag around the ring, the set-up.
Goto(r, l) == pc' = [pc EXCEPT ![r] = l]
Status(n) == ctl[n].status
SetStatus(n, s) == ctl' = [ctl EXCEPT ![n].status = s]

tcclIsShmExist(r) ==
  /\ pc[r] = "exist"
  /\ shmExists' = TRUE
  /\ ring' = [ring EXCEPT ![SharpNext(r)] = Append(@, IF shmExists THEN 0 ELSE 1)]
  /\ Goto(r, "flag")
  /\ UNCHANGED <<comm, initflag, entered, streams, threads, ctl, map>>

RecvFlag(r) ==
  /\ pc[r] = "flag" /\ ring[r] # <<>>
  /\ initflag' = [initflag EXCEPT ![r] = Head(ring[r])]
  /\ ring' = IF node_id(r) = 0 THEN [ring EXCEPT ![r] = Tail(@)]
             ELSE [ring EXCEPT ![r] = Tail(@), ![SharpNext(r)] = Append(@, Head(ring[r]))]
  /\ Goto(r, IF Head(ring[r]) = 1 THEN "memset" ELSE "addr")
  /\ UNCHANGED <<comm, shmExists, entered, streams, threads, ctl, map>>

StartThread(r) ==
  /\ pc[r] = "memset"
  /\ SetStatus(node_id(r), "COMM")
  /\ thread' = [thread EXCEPT ![node_id(r)] = "poll"]
  /\ Goto(r, "create")
  /\ UNCHANGED <<comm, shmExists, ring, initflag, entered, streams, round, sharpMap,
                 pick, info, reduced, map>>

\* tcclSharpCreate needs the elected ranks of all nodes.
tcclSharpCreate(r) ==
  /\ pc[r] = "create"
  /\ \A n \in Nodes : pc[<<n, rank_no(r)>>] \notin {"exist", "flag", "memset"}
  /\ SetStatus(node_id(r), "FREE")
  /\ Goto(r, "addr")
  /\ UNCHANGED <<comm, shmExists, ring, initflag, entered, streams, threads, map>>

-----------------------------------------------------------------------------
\* tcclGetSharpAddr, for each communicator.
GetSharpAddr(r) ==
  /\ pc[r] = "addr" /\ Status(node_id(r)) = "FREE"
  /\ entered' = [entered EXCEPT ![r] = @ + 1]
  /\ Goto(r, "barrier")
  /\ UNCHANGED <<comm, shmExists, ring, initflag, streams, threads, ctl, map>>

\* tcclBarrierAll; a rank that is not elected goes on to tcclBarrierNode of
\* tcclPublicInit.
LeaveBarrierAll(r) ==
  /\ pc[r] = "barrier" /\ \A q \in Ranks : entered[q] >= entered[r]
  /\ IF initflag[r] = 1
     THEN Goto(r, "waitfree") /\ UNCHANGED entered
     ELSE Goto(r, "barriernode") /\ entered' = [entered EXCEPT ![r] = @ + 1]
  /\ UNCHANGED <<comm, shmExists, ring, initflag, streams, threads, ctl, map>>

WaitFree(r) ==
  /\ pc[r] = "waitfree" /\ Status(node_id(r)) = "FREE"
  /\ Goto(r, "setinit")
  /\ UNCHANGED <<comm, shmExists, ring, initflag, entered, streams, threads, ctl, map>>

SetInit(r) ==
  /\ pc[r] = "setinit"
  /\ ctl' = [ctl EXCEPT ![node_id(r)] = [status |-> "INIT", commport |-> comm[r]]]
  /\ Goto(r, "waitinit")
  /\ UNCHANGED <<comm, shmExists, ring, initflag, entered, streams, threads, map>>

WaitInit(r) ==
  /\ pc[r] = "waitinit" /\ Status(node_id(r)) = "FREE"
  /\ entered' = [entered EXCEPT ![r] = @ + 1]
  /\ Goto(r, "barriernode")
  /\ UNCHANGED <<comm, shmExists, ring, initflag, streams, threads, ctl, map>>

\* The communicator is complete: its reductions are queued.
LeaveBarrierNode(r) ==
  /\ pc[r] = "barriernode"
  /\ \A q \in Ranks : node_id(q) = node_id(r) => entered[q] >= entered[r]
  /\ queue' = [queue EXCEPT ![r] = @ \o [i \in 1 .. NumReductions |-> <<comm[r], i>>]]
  /\ Goto(r, "queued")
  /\ UNCHANGED <<comm, shmExists, ring, initflag, entered, spc, threads, ctl, map>>

NextComm(r) ==
  /\ pc[r] = "queued" /\ comm[r] < NumComms
  /\ Overlap \/ (queue[r] = <<>> /\ spc[r] = "idle")
  /\ comm' = [comm EXCEPT ![r] = @ + 1]
  /\ Goto(r, "addr")
  /\ UNCHANGED <<shmExists, ring, initflag, entered, streams, threads, ctl, map>>

Host(r) ==
  \/ tcclIsShmExist(r) \/ RecvFlag(r) \/ StartThread(r) \/ tcclSharpCreate(r)
  \/ GetSharpAddr(r) \/ LeaveBarrierAll(r) \/ WaitFree(r) \/ SetInit(r)
  \/ WaitInit(r) \/ LeaveBarrierNode(r) \/ NextComm(r)

-----------------------------------------------------------------------------
\* tcclAllreduceInterFunc on the stream of r.
Entry(r) == map[node_id(r)][Head(queue[r])[1]][rank_no(r)]
SetEntry(n, c, i, e) == map' = [map EXCEPT ![n][c][i] = e]

SetArguments(r) ==
  /\ spc[r] = "idle" /\ queue[r] # <<>>
  /\ SetEntry(node_id(r), Head(queue[r])[1], rank_no(r),
              [Entry(r) EXCEPT !.reduction = Head(queue[r])[2]])
  /\ spc' = [spc EXCEPT ![r] = "free"]
  /\ UNCHANGED <<hosts, queue, threads, ctl>>

SetWork(r) ==
  /\ spc[r] = "free" /\ Entry(r).status = "FREE"
  /\ SetEntry(node_id(r), Head(queue[r])[1], rank_no(r), [Entry(r) EXCEPT !.status = "WORK"])
  /\ spc' = [spc EXCEPT ![r] = "work"]
  /\ UNCHANGED <<hosts, queue, threads, ctl>>

Bug_WaitDone(r) ==
  /\ spc[r] = "work"
  /\ queue' = [queue EXCEPT ![r] = Tail(@)]
  /\ spc' = [spc EXCEPT ![r] = "idle"]
  /\ UNCHANGED <<hosts, threads, ctl, map>>

WaitDone(r) ==
  /\ spc[r] = "work" /\ Entry(r).status = "FREE"
  /\ queue' = [queue EXCEPT ![r] = Tail(@)]
  /\ spc' = [spc EXCEPT ![r] = "idle"]
  /\ UNCHANGED <<hosts, threads, ctl, map>>

Stream(r) == SetArguments(r) \/ SetWork(r) \/ WaitDone(r)

-----------------------------------------------------------------------------
\* tcclSharpPublicMain on node n.
Go(n, l) == thread' = [thread EXCEPT ![n] = l]

\* INIT: tcclSharpMapInit, then FREE.
Bug_tcclSharpMapInit(n) ==
  /\ thread[n] = "poll" /\ Status(n) = "INIT"
  /\ sharpMap' = [sharpMap EXCEPT ![n] = Append(@, ctl[n].commport)]
  /\ Go(n, "init")
  /\ UNCHANGED <<hosts, streams, round, pick, info, reduced, ctl, map>>

\* Has the thread taken in communicator c?
Taken(n, c) == \E k \in 1 .. Len(sharpMap[n]) : sharpMap[n][k] = c

tcclSharpMapInit(n) ==
  LET c == ctl[n].commport IN
  /\ thread[n] = "poll" /\ Status(n) = "INIT"
  /\ IF Taken(n, c)
     THEN UNCHANGED <<sharpMap, map>>
     ELSE /\ sharpMap' = [sharpMap EXCEPT ![n] = Append(@, c)]
          /\ map' = [map EXCEPT ![n][c] =
                      [i \in RankNos |-> [@[i] EXCEPT !.status = "FREE"]]]
  /\ Go(n, "init")
  /\ UNCHANGED <<hosts, streams, round, pick, info, reduced, ctl>>

InitDone(n) ==
  /\ thread[n] = "init"
  /\ SetStatus(n, "FREE")
  /\ Go(n, "poll")
  /\ UNCHANGED <<hosts, streams, round, sharpMap, pick, info, reduced, map>>

\* FREE: tcclSharpWork takes the first entry in WORK, by rank and then in
\* the order of the communicators.
Working(n, k, i) == map[n][sharpMap[n][k]][i].status = "WORK"
FirstWork(n, k, i) ==
  /\ Working(n, k, i)
  /\ \A l \in 1 .. Len(sharpMap[n]), j \in RankNos :
       Working(n, l, j) => i < j \/ (i = j /\ k <= l)

FindWork(n) ==
  /\ thread[n] = "poll" /\ Status(n) = "FREE"
  /\ \E k \in 1 .. Len(sharpMap[n]), i \in RankNos :
       /\ FirstWork(n, k, i)
       /\ pick' = [pick EXCEPT ![n] = <<sharpMap[n][k], i>>]
  /\ Go(n, "found")
  /\ UNCHANGED <<hosts, streams, round, sharpMap, info, reduced, ctl, map>>

BeginWork(n) ==
  /\ thread[n] = "found"
  /\ SetStatus(n, "WORK")
  /\ round' = [round EXCEPT ![n] = @ + 1]
  /\ IF n = 0 THEN info' = pick[n] ELSE UNCHANGED info
  /\ Go(n, IF n = 0 THEN "reduce" ELSE "bcast")
  /\ UNCHANGED <<hosts, streams, sharpMap, pick, reduced, map>>

\* The other nodes get the root's choice, and keep their own if they have not
\* taken in its communicator.
RecvInfo(n) ==
  /\ thread[n] = "bcast" /\ round[0] >= round[n]
  /\ pick' = IF Taken(n, info[1]) THEN [pick EXCEPT ![n] = info] ELSE pick
  /\ Go(n, "waitwork")
  /\ UNCHANGED <<hosts, streams, round, sharpMap, info, reduced, ctl, map>>

Picked(n) == map[n][pick[n][1]][pick[n][2]]
Reduction(n) == <<pick[n][1], pick[n][2], Picked(n).reduction>>

Bug_WaitWork(n) ==
  /\ thread[n] = "waitwork"
  /\ Go(n, "reduce")
  /\ UNCHANGED <<hosts, streams, round, sharpMap, pick, info, reduced, ctl, map>>

\* SHARP_WAIT_WORK_RANK: the same reduction must be due here.
WaitWork(n) ==
  /\ thread[n] = "waitwork" /\ Picked(n).status = "WORK"
  /\ Go(n, "reduce")
  /\ UNCHANGED <<hosts, streams, round, sharpMap, pick, info, reduced, ctl, map>>

tcclSharpAllReduce(n) ==
  /\ thread[n] = "reduce"
  /\ \A m \in Nodes : \/ round[m] > round[n]
                      \/ round[m] = round[n] /\ thread[m] \notin {"bcast", "waitwork"}
  /\ reduced' = [reduced EXCEPT ![n] = @ \cup {Reduction(n)}]
  /\ Go(n, "free")
  /\ UNCHANGED <<hosts, streams, round, sharpMap, pick, info, ctl, map>>

\* The rank is told; then the node is free again.
FreeRank(n) ==
  /\ thread[n] = "free"
  /\ SetEntry(n, pick[n][1], pick[n][2], [Picked(n) EXCEPT !.status = "FREE"])
  /\ Go(n, "freenode")
  /\ UNCHANGED <<hosts, streams, round, sharpMap, pick, info, reduced, ctl>>

FreeNode(n) ==
  /\ thread[n] = "freenode"
  /\ SetStatus(n, "FREE")
  /\ Go(n, "poll")
  /\ UNCHANGED <<hosts, streams, round, sharpMap, pick, info, reduced, map>>

Thread(n) ==
  \/ tcclSharpMapInit(n) \/ InitDone(n) \/ FindWork(n) \/ BeginWork(n)
  \/ RecvInfo(n) \/ WaitWork(n) \/ tcclSharpAllReduce(n) \/ FreeRank(n) \/ FreeNode(n)

\* The hosts have created and queued everything and the streams are empty;
\* the threads spin.
Done(r) == pc[r] = "queued" /\ comm[r] = NumComms /\ queue[r] = <<>> /\ spc[r] = "idle"
Finished == (\A r \in Ranks : Done(r)) /\ UNCHANGED vars

Next ==
  \/ \E r \in Ranks : Host(r) \/ Stream(r)
  \/ \E n \in Nodes : Thread(n)
  \/ Finished

Spec == Init /\ [][Next]_vars

\* Every host, stream and thread keeps running.
FairSpec ==
  /\ Spec
  /\ \A r \in Ranks : WF_vars(Host(r)) /\ WF_vars(Stream(r))
  /\ \A n \in Nodes : WF_vars(Thread(n))

-----------------------------------------------------------------------------
\* One rank of a node is elected, the same on all nodes.
OneElected ==
  \A r, q \in Ranks : initflag[r] = 1 /\ initflag[q] = 1 => rank_no(r) = rank_no(q)

\* The elected ranks correspond, and all nodes that reduce in the same round
\* reduce the same thing, and on each of them it is due: the rank's data is
\* there.
SameReduction ==
  /\ OneElected
  /\ \A m, n \in Nodes :
       thread[m] = "reduce" /\ thread[n] = "reduce" /\ round[m] = round[n] =>
         Reduction(m) = Reduction(n) /\ Picked(n).status = "WORK"

\* When the host function of a reduction of a rank has returned, every node
\* has called the same reduction of its rank.
Returned(r) ==
  {x \in Comms \X (1 .. NumReductions) :
     /\ x[1] < comm[r] \/ (x[1] = comm[r] /\ pc[r] = "queued")
     /\ \A k \in 1 .. Len(queue[r]) : queue[r][k] # x}
Called(n) == reduced[n] \cup (IF thread[n] = "reduce" THEN {Reduction(n)} ELSE {})
ReducedEverywhere ==
  \A r \in Ranks : \A x \in Returned(r) : \A n \in Nodes :
    <<x[1], rank_no(r), x[2]>> \in Called(n)

\* Communicators get created and all their reductions complete.
AllComplete == <>(\A r \in Ranks : Done(r))
=============================================================================
