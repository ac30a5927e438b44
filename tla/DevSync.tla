------------------------------ MODULE DevSync ------------------------------
(***************************************************************************)
(* The ranks of one card synchronise their device streams through          *)
(* SYNC_NUM shared 64-bit flags (comm->sync.syncflag), used round robin.   *)
(*                                                                         *)
(* A host call numbers the phases it takes with its private counter        *)
(* syncnt; phase c uses flag c % SYNC_NUM and waits for it to EQUAL        *)
(* rank_num * (c / SYNC_NUM + 1).  Three kinds of phase exist:             *)
(*   card    tcclDevSyncCard: every stream adds 1, every stream waits;     *)
(*   root    first half of tcclSmallSizeAllreduce: every stream publishes  *)
(*           its buffer addresses and adds 1, rank_id 0 alone waits, then  *)
(*           runs the reduction kernel on everybody's buffers;             *)
(*   other   second half: rank_id 0 SETS the flag to the awaited value     *)
(*           after the kernel, the other streams wait for it;              *)
(*   reside  the same with the resident kernel, which writes the flag      *)
(*           itself while the stream of rank_id 0 waits with the others.   *)
(*                                                                         *)
(* A host call only appends commands to the stream of its rank, and they   *)
(* depend on nothing but the counter value it captured: the commands       *)
(* pending on the stream of r are those of phases at[r] .. syncnt[r] - 1,  *)
(* step[r] being the next command of phase at[r].  Streams execute their   *)
(* commands in order and independently of the hosts and of each other.     *)
(* The device runtime is external: a stream write is atomic, an ADD adds   *)
(* to the flag, a WAIT is passed when a poll sees the flag equal.          *)
(***************************************************************************)
EXTENDS Integers, FiniteSets

CONSTANTS rank_num,   \* ranks that share the card (comm->node->rank_num)
          MaxCount    \* bound: phases the application runs through

ASSUME RankNumAssumption == rank_num \in Nat \ {0}
ASSUME MaxCountAssumption == MaxCount \in Nat

VARIABLES
  plan,      \* the collectives the application calls, phase by phase
  syncnt,    \* comm->sync.syncnt of every rank (host)
  at, step,  \* the stream of every rank: phase and command it is at
  syncflag,  \* the shared flags, by slot
  devList,   \* comm->devList: call whose addresses each rank published last
  kernel     \* phase whose reduction kernel is running, or NoKernel

vars == <<plan, syncnt, at, step, syncflag, devList, kernel>>

Ranks == 0 .. rank_num - 1
Phases == 0 .. MaxCount - 1
NoKernel == -1
NoCall == -1

Kinds == {"card", "root", "other", "reside"}
Release == {"other", "reside"}   \* kinds of the second half of a small call
Steps == {"add", "wait", "kernel", "set"}

\* Every rank of a communicator calls the same collectives in the same
\* order; a small-size AllReduce is a root phase and its release phase.
Plans == {p \in [Phases -> Kinds] :
            \A c \in Phases :
              /\ p[c] = "root" => c + 1 \in Phases /\ p[c + 1] \in Release
              /\ p[c] \in Release => c > 0 /\ p[c - 1] = "root"}

-----------------------------------------------------------------------------
Bug_SYNC_NUM == 1
SYNC_NUM == 2

Slots == 0 .. SYNC_NUM - 1
Slot(c) == c % SYNC_NUM

Bug_Awaited(c) == rank_num * (c \div SYNC_NUM)
Awaited(c) == rank_num * (c \div SYNC_NUM + 1)

\* The streams that wait in phase c.
Bug_Waits(r, c) == plan[c] \in {"card", "reside"} \/ r # 0
Waits(r, c) ==
  \/ plan[c] \in {"card", "reside"}
  \/ plan[c] = "root" /\ r = 0
  \/ plan[c] = "other" /\ r # 0

\* The first command of phase c on the stream of r.
First(r, c) ==
  IF c \in Phases /\ plan[c] \in Release
  THEN IF r = 0 THEN "kernel" ELSE "wait"
  ELSE "add"

NextPhase(r) ==
  /\ at' = [at EXCEPT ![r] = @ + 1]
  /\ step' = [step EXCEPT ![r] = First(r, at[r] + 1)]

Goto(r, s) ==
  /\ step' = [step EXCEPT ![r] = s]
  /\ UNCHANGED at

-----------------------------------------------------------------------------
Init ==
  /\ plan \in Plans
  /\ syncnt = [r \in Ranks |-> 0]
  /\ at = [r \in Ranks |-> 0]
  /\ step = [r \in Ranks |-> "add"]
  /\ syncflag = [s \in Slots |-> 0]
  /\ devList = [r \in Ranks |-> NoCall]
  /\ kernel = NoKernel

-----------------------------------------------------------------------------
\* The host of r calls a collective that synchronises the card: the ADD and
\* the WAIT are queued and the counter moves on.
tcclDevSyncCard(r) ==
  /\ syncnt[r] \in Phases /\ plan[syncnt[r]] = "card"
  /\ syncnt' = [syncnt EXCEPT ![r] = @ + 1]
  /\ UNCHANGED <<plan, at, step, syncflag, devList, kernel>>

Bug_tcclSmallSizeAllreduce(r) ==
  /\ syncnt[r] \in Phases /\ plan[syncnt[r]] = "root"
  /\ syncnt' = [syncnt EXCEPT ![r] = @ + 3]
  /\ UNCHANGED <<plan, at, step, syncflag, devList, kernel>>

\* The host of r calls a small-size AllReduce: both phases are queued.
tcclSmallSizeAllreduce(r) ==
  /\ syncnt[r] \in Phases /\ plan[syncnt[r]] = "root"
  /\ syncnt' = [syncnt EXCEPT ![r] = @ + 2]
  /\ UNCHANGED <<plan, at, step, syncflag, devList, kernel>>

-----------------------------------------------------------------------------
\* The stream of r has a queued command and s is its next one.
At(r, s) == at[r] < syncnt[r] /\ step[r] = s

\* tcclStreamWriteValue64(.., 1, ADD); in a root phase the same batch
\* publishes the addresses of the user buffers of r first.
AddFlag(r) ==
  LET c == at[r] IN
  /\ At(r, "add")
  /\ syncflag' = [syncflag EXCEPT ![Slot(c)] = @ + 1]
  /\ devList' = IF plan[c] = "root" THEN [devList EXCEPT ![r] = c] ELSE devList
  /\ IF Waits(r, c) THEN Goto(r, "wait") ELSE NextPhase(r)
  /\ UNCHANGED <<plan, syncnt, kernel>>

\* tcclStreamWaitValue64(.., EQ): the poll sees exactly the awaited value.
WaitFlag(r) ==
  /\ At(r, "wait")
  /\ syncflag[Slot(at[r])] = Awaited(at[r])
  /\ NextPhase(r)
  /\ UNCHANGED <<plan, syncnt, syncflag, devList, kernel>>

\* rank_id 0 starts the kernel that reads and writes the buffers of all
\* ranks.  A plain kernel blocks its stream, a resident one does not.
StartKernel(r) ==
  /\ At(r, "kernel") /\ kernel = NoKernel
  /\ kernel' = at[r]
  /\ IF plan[at[r]] = "reside" THEN Goto(r, "wait") ELSE UNCHANGED <<at, step>>
  /\ UNCHANGED <<plan, syncnt, syncflag, devList>>

\* The kernel ends; a resident one writes the flag (rk_args.syncflag_value).
FinishKernel ==
  /\ kernel # NoKernel
  /\ kernel' = NoKernel
  /\ IF plan[kernel] = "reside"
     THEN /\ syncflag' = [syncflag EXCEPT ![Slot(kernel)] = Awaited(kernel)]
          /\ UNCHANGED <<at, step>>
     ELSE Goto(0, "set") /\ UNCHANGED syncflag
  /\ UNCHANGED <<plan, syncnt, devList>>

Bug_SetFlag(r) ==
  /\ At(r, "set")
  /\ NextPhase(r)
  /\ UNCHANGED <<plan, syncnt, syncflag, devList, kernel>>

\* SDAA_STREAM_MEM_OP_SET_VALUE64 after the kernel: releases the others.
SetFlag(r) ==
  /\ At(r, "set")
  /\ syncflag' = [syncflag EXCEPT ![Slot(at[r])] = Awaited(at[r])]
  /\ NextPhase(r)
  /\ UNCHANGED <<plan, syncnt, devList, kernel>>

Host(r) == tcclDevSyncCard(r) \/ tcclSmallSizeAllreduce(r)
Stream(r) == AddFlag(r) \/ WaitFlag(r) \/ StartKernel(r) \/ SetFlag(r)

\* The application has no further call and every stream is drained.
Finished ==
  /\ \A r \in Ranks : at[r] = MaxCount
  /\ UNCHANGED vars

Next ==
  \/ \E r \in Ranks : Host(r) \/ Stream(r)
  \/ FinishKernel
  \/ Finished

Spec == Init /\ [][Next]_vars

\* Devices keep executing what is queued; nothing is assumed of the hosts,
\* an application may never make its next call.
Fairness == WF_vars(FinishKernel) /\ \A r \in Ranks : WF_vars(Stream(r))

FairSpec == Spec /\ Fairness

-----------------------------------------------------------------------------
\* The ranks whose signal of phase c is in the flag.  A release phase is
\* signalled for all of them at once.
Signalled(c) ==
  IF plan[c] \in Release
  THEN {r \in Ranks : \/ at[0] > c
                      \/ at[0] = c /\ step[0] = "wait" /\ kernel # c}
  ELSE {r \in Ranks : at[r] > c \/ (at[r] = c /\ step[r] # "add")}

\* Type correctness of the synchronisation state.
TypeOK ==
  /\ plan \in Plans
  /\ syncnt \in [Ranks -> 0 .. MaxCount]
  /\ at \in [Ranks -> 0 .. MaxCount]
  /\ step \in [Ranks -> Steps]
  /\ syncflag \in [Slots -> Nat]
  /\ devList \in [Ranks -> Phases \cup {NoCall}]
  /\ kernel \in Phases \cup {NoKernel}

\* A stream that has passed its wait of phase c did so after every rank's
\* signal of phase c: no stream runs ahead of a barrier (tcclDevSyncCard) or
\* of the kernel that fills its receive buffer (tcclSmallSizeAllreduce).
BarrierSafety ==
  \A r \in Ranks, c \in Phases :
    at[r] > c /\ Waits(r, c) => Signalled(c) = Ranks

\* The waits compare with EQ: a flag that ran past a value some stream still
\* waits for would never be equal again and hang the card.  Reusing a flag
\* two phases later must therefore never overtake a slow waiter.
NoOvershoot ==
  \A r \in Ranks :
    at[r] \in Phases /\ step[r] = "wait" => syncflag[Slot(at[r])] <= Awaited(at[r])

\* While the kernel of a small-size AllReduce runs, the address list it
\* reads holds this call's addresses of every rank, and the stream of every
\* other rank is held in this call, so no command behind it (of the user or
\* of a later collective) touches the buffers the kernel works on.
KernelOwnsBuffers ==
  kernel # NoKernel =>
    \A r \in Ranks : /\ devList[r] = kernel - 1
                     /\ at[r] = kernel
                     /\ r # 0 => step[r] = "wait"

\* A phase that every rank has called is eventually passed by every stream,
\* whatever the application does afterwards.
CalledPhasesComplete ==
  \A c \in 1 .. MaxCount :
    (\A r \in Ranks : syncnt[r] >= c) ~> (\A r \in Ranks : at[r] >= c)

\* Every call is a barrier among the ranks of the card: the flag protocol
\* implements CardBarrier.
InSecondHalf(r) == at[r] \in Phases /\ plan[at[r]] \in Release
Barrier == INSTANCE CardBarrier WITH
  round <- [r \in Ranks |-> IF InSecondHalf(r) THEN at[r] - 1 ELSE at[r]],
  inside <- [r \in Ranks |-> InSecondHalf(r) \/ step[r] = "wait"]
ImplementsBarrier == Barrier!Spec
=============================================================================
