--------------------------- MODULE DevSyncProofs ---------------------------
(***************************************************************************)
(* Proofs about DevSync, for every number of ranks on the card and every   *)
(* program of the application.                                             *)
(***************************************************************************)
EXTENDS DevSync, FiniteSetTheorems, TLAPS

-----------------------------------------------------------------------------
(* The inductive invariant.                                                *)

\* The commands a stream can be at in each kind of phase.
CommandsOf(r, c) ==
  {s \in Steps :
     \/ plan[c] = "card" /\ s \in {"add", "wait"}
     \/ plan[c] = "root" /\ (s = "add" \/ (s = "wait" /\ r = 0))
     \/ plan[c] = "other" /\ (IF r = 0 THEN s \in {"kernel", "set"} ELSE s = "wait")
     \/ plan[c] = "reside" /\ (IF r = 0 THEN s \in {"kernel", "wait"} ELSE s = "wait")}

StepInv ==
  \A r \in Ranks :
    /\ at[r] = MaxCount => step[r] = "add"
    /\ at[r] \in Phases => step[r] \in CommandsOf(r, at[r])

\* A running kernel belongs to the release phase the stream of rank 0 is at.
KernelInv ==
  kernel # NoKernel =>
    /\ at[0] = kernel
    /\ plan[kernel] \in Release
    /\ step[0] = IF plan[kernel] = "reside" THEN "wait" ELSE "kernel"

\* In a release phase a rank has published the addresses of this call.
AddrInv ==
  \A r \in Ranks :
    at[r] \in Phases =>
      /\ plan[at[r]] \in Release => devList[r] = at[r] - 1
      /\ plan[at[r]] = "root" /\ step[r] = "wait" => devList[r] = at[r]

\* No phase is signalled before all earlier ones are complete.
Chain ==
  \A c, d \in Phases : d < c /\ Signalled(c) # {} => Signalled(d) = Ranks

\* c is the phase its flag currently counts.
Current(c) ==
  /\ c >= 2 => Signalled(c - 2) = Ranks
  /\ c + 2 \in Phases => Signalled(c + 2) = {}

\* The flag of a current phase: what the earlier phases left, plus one per
\* rank that has signalled.
FlagInv ==
  \A c \in Phases :
    Current(c) =>
      syncflag[Slot(c)] = rank_num * (c \div 2) + Cardinality(Signalled(c))

IInv ==
  /\ TypeOK
  /\ StepInv
  /\ KernelInv
  /\ AddrInv
  /\ Chain
  /\ BarrierSafety
  /\ FlagInv

-----------------------------------------------------------------------------
(* Facts about the ranks, the flags and the signals.                       *)

LEMMA RanksFinite ==
  /\ IsFiniteSet(Ranks) /\ Cardinality(Ranks) = rank_num
  /\ Ranks # {} /\ 0 \in Ranks
<1>1. 0 \in Int /\ rank_num - 1 \in Int /\ ~(0 > rank_num - 1)
  BY RankNumAssumption
<1>2. IsFiniteSet(Ranks) /\ Cardinality(Ranks) = rank_num - 1 - 0 + 1
  BY <1>1, FS_Interval DEF Ranks
<1>3. 0 \in Ranks
  BY RankNumAssumption DEF Ranks
<1> QED
  BY <1>2, <1>3, RankNumAssumption

\* A set of ranks has the size of the card exactly when it is all of them.
LEMMA RankSets ==
  ASSUME NEW S \in SUBSET Ranks
  PROVE  /\ IsFiniteSet(S)
         /\ Cardinality(S) \in 0 .. rank_num
         /\ Cardinality(S) = rank_num => S = Ranks
<1>1. IsFiniteSet(S) /\ Cardinality(S) <= rank_num
  BY RanksFinite, FS_Subset
<1>2. Cardinality(S) \in Nat
  BY <1>1, FS_CardinalityType
<1>3. Cardinality(S) = rank_num => S = Ranks
  BY RanksFinite, FS_Subset
<1> QED
  BY <1>1, <1>2, <1>3, RankNumAssumption

\* Signals are ranks, and a stream past a phase implies a signal there.
LEMMA PastSignalled ==
  ASSUME TypeOK, BarrierSafety, NEW r \in Ranks, NEW c \in Phases
  PROVE  /\ Signalled(c) \in SUBSET Ranks
         /\ at[r] > c => r \in Signalled(c)
<1>1. Signalled(c) \in SUBSET Ranks
  BY DEF Signalled
<1>2. ASSUME at[r] > c PROVE r \in Signalled(c)
  <2>1. CASE plan[c] \notin Release
    BY <1>2, <2>1 DEF Signalled
  <2>2. CASE plan[c] \in Release /\ Waits(r, c)
    BY <1>2, <2>2 DEF BarrierSafety
  <2>3. CASE plan[c] \in Release /\ ~Waits(r, c)
    BY <1>2, <2>3 DEF Signalled, Waits, Release
  <2> QED
    BY <2>1, <2>2, <2>3
<1> QED
  BY <1>1, <1>2

\* The phase a stream is at is the one its flag counts, and everything
\* before the previous phase is complete.
LEMMA AtCurrent ==
  ASSUME IInv, NEW r \in Ranks, at[r] \in Phases
  PROVE  /\ Current(at[r])
         /\ Signalled(at[r]) \in SUBSET Ranks
<1> DEFINE c == at[r]
<1> USE DEF Phases
<1>0. c \in Int /\ MaxCount \in Nat
  BY MaxCountAssumption
<1>1. c >= 2 => Signalled(c - 2) = Ranks
  <2> SUFFICES ASSUME c >= 2 PROVE Signalled(c - 2) = Ranks
    OBVIOUS
  <2>1. c - 1 \in Phases /\ c - 2 \in Phases /\ c - 2 < c - 1
    BY <1>0
  <2>2. r \in Signalled(c - 1)
    BY <2>1, <1>0, PastSignalled DEF IInv
  <2> QED
    BY <2>1, <2>2 DEF IInv, Chain
<1>2. ASSUME c + 2 \in Phases PROVE Signalled(c + 2) = {}
  <2>1. c + 1 \in Phases /\ c + 1 < c + 2 /\ c < c + 1
    BY <1>0, <1>2
  <2>2. SUFFICES ASSUME Signalled(c + 2) # {} PROVE FALSE
    OBVIOUS
  <2>3. Signalled(c + 1) = Ranks
    BY <1>2, <2>1, <2>2 DEF IInv, Chain
  <2>4. Signalled(c) = Ranks
    BY <2>1, <2>3, RanksFinite DEF IInv, Chain
  <2>5. step[r] \in CommandsOf(r, c) /\ at \in [Ranks -> 0 .. MaxCount]
    BY DEF IInv, StepInv, TypeOK
  <2>6. CASE plan[c + 1] \notin Release
    BY <2>3, <2>6, <1>0 DEF Signalled
  <2>7. CASE plan[c + 1] \in Release
    <3>1. plan[c] = "root"
      BY <2>7, <2>1, <1>0 DEF IInv, TypeOK, Plans
    <3>2. at[0] >= c + 1
      BY <2>3, <2>7, RanksFinite, <2>5, <1>0 DEF Signalled
    <3>3. r # 0
      BY <3>2, <1>0
    <3>4. step[r] = "add"
      BY <2>5, <3>1, <3>3 DEF CommandsOf, Release
    <3> QED
      BY <2>4, <3>1, <3>4, <1>0 DEF Signalled, Release
  <2> QED
    BY <2>6, <2>7
<1>3. Signalled(c) \in SUBSET Ranks
  BY DEF Signalled
<1> QED
  BY <1>1, <1>2, <1>3 DEF Current

\* What a stream finds in the flag of the phase it is at.
LEMMA FlagValue ==
  ASSUME IInv, NEW r \in Ranks, at[r] \in Phases
  PROVE  /\ syncflag[Slot(at[r])] =
              rank_num * (at[r] \div 2) + Cardinality(Signalled(at[r]))
         /\ Awaited(at[r]) = rank_num * (at[r] \div 2) + rank_num
         /\ Slot(at[r]) \in Slots
         /\ rank_num * (at[r] \div 2) \in Nat
<1>0. at[r] \in Nat /\ at[r] \div 2 \in Nat
  BY MaxCountAssumption DEF Phases
<1>1. syncflag[Slot(at[r])] =
        rank_num * (at[r] \div 2) + Cardinality(Signalled(at[r]))
  BY AtCurrent DEF IInv, FlagInv
<1>2. Awaited(at[r]) = rank_num * (at[r] \div 2) + rank_num
  BY <1>0, RankNumAssumption DEF Awaited, SYNC_NUM
<1>3. Slot(at[r]) \in Slots
  BY <1>0 DEF Slot, Slots, SYNC_NUM
<1>4. ASSUME NEW m \in Nat, NEW n \in Nat PROVE m * n \in Nat
  BY <1>4
<1>5. rank_num * (at[r] \div 2) \in Nat
  BY <1>0, <1>4, RankNumAssumption
<1> QED
  BY <1>1, <1>2, <1>3, <1>5

\* A stream that may pass its wait does so after every signal.
LEMMA WaitSeesAll ==
  ASSUME IInv, NEW r \in Ranks, at[r] \in Phases,
         syncflag[Slot(at[r])] = Awaited(at[r])
  PROVE  Signalled(at[r]) = Ranks
<1>1. Cardinality(Signalled(at[r])) \in 0 .. rank_num
  BY AtCurrent, RankSets
<1>2. Cardinality(Signalled(at[r])) = rank_num
  BY <1>1, FlagValue, RankNumAssumption
<1> QED
  BY <1>2, AtCurrent, RankSets

-----------------------------------------------------------------------------
(* Type correctness.                                                       *)

LEMMA AwaitedType ==
  ASSUME NEW c \in Phases PROVE Awaited(c) \in Nat /\ Slot(c) \in Slots
<1>1. c \in Nat /\ c \div 2 + 1 \in Nat /\ rank_num \in Nat
  BY MaxCountAssumption, RankNumAssumption DEF Phases
<1>2. ASSUME NEW m \in Nat, NEW n \in Nat PROVE m * n \in Nat
  BY <1>2
<1>3. Awaited(c) \in Nat
  BY <1>1, <1>2 DEF Awaited, SYNC_NUM
<1>4. Slot(c) \in Slots
  BY <1>1 DEF Slot, Slots, SYNC_NUM
<1> QED
  BY <1>3, <1>4

\* A stream with a queued command is at a phase of the program.
LEMMA QueuedPhase ==
  ASSUME TypeOK, NEW r \in Ranks, NEW s, At(r, s)
  PROVE  at[r] \in Phases /\ at[r] + 1 \in 0 .. MaxCount
BY MaxCountAssumption DEF TypeOK, At, Phases

LEMMA NextPhaseType ==
  ASSUME TypeOK, NEW r \in Ranks, NEW s, At(r, s), NextPhase(r)
  PROVE  at' \in [Ranks -> 0 .. MaxCount] /\ step' \in [Ranks -> Steps]
<1>1. at[r] + 1 \in 0 .. MaxCount
  BY QueuedPhase
<1>2. First(r, at[r] + 1) \in Steps
  BY DEF First, Steps
<1> QED
  BY <1>1, <1>2 DEF NextPhase, TypeOK

LEMMA InitType == Init => TypeOK
<1>1. -1 \notin Phases /\ 0 \in 0 .. MaxCount
  BY MaxCountAssumption DEF Phases
<1> QED
  BY <1>1 DEF Init, TypeOK, Steps, NoCall, NoKernel

LEMMA NextType == TypeOK /\ [Next]_vars => TypeOK'
<1> SUFFICES ASSUME TypeOK, [Next]_vars PROVE TypeOK'
  OBVIOUS
<1>1. ASSUME NEW r \in Ranks, tcclDevSyncCard(r) PROVE TypeOK'
  BY <1>1, MaxCountAssumption DEF tcclDevSyncCard, TypeOK, Phases
<1>2. ASSUME NEW r \in Ranks, tcclSmallSizeAllreduce(r) PROVE TypeOK'
  <2>1. syncnt[r] \in Phases /\ syncnt[r] + 1 \in Phases
    BY <1>2 DEF tcclSmallSizeAllreduce, TypeOK, Plans
  <2>2. syncnt[r] + 2 \in 0 .. MaxCount
    BY <2>1, MaxCountAssumption DEF Phases
  <2> QED
    BY <1>2, <2>2 DEF tcclSmallSizeAllreduce, TypeOK
<1>3. ASSUME NEW r \in Ranks, AddFlag(r) PROVE TypeOK'
  <2>1. at[r] \in Phases /\ Slot(at[r]) \in Slots
    BY <1>3, QueuedPhase, AwaitedType DEF AddFlag
  <2>2. syncflag' \in [Slots -> Nat]
    BY <1>3, <2>1 DEF AddFlag, TypeOK
  <2>3. devList' \in [Ranks -> Phases \cup {NoCall}]
    BY <1>3, <2>1 DEF AddFlag, TypeOK
  <2>4. at' \in [Ranks -> 0 .. MaxCount] /\ step' \in [Ranks -> Steps]
    <3>1. CASE Waits(r, at[r])
      BY <1>3, <3>1 DEF AddFlag, Goto, TypeOK, Steps
    <3>2. CASE ~Waits(r, at[r])
      BY <1>3, <3>2, NextPhaseType DEF AddFlag
    <3> QED
      BY <3>1, <3>2
  <2> QED
    BY <1>3, <2>2, <2>3, <2>4 DEF AddFlag, TypeOK
<1>4. ASSUME NEW r \in Ranks, WaitFlag(r) PROVE TypeOK'
  BY <1>4, NextPhaseType DEF WaitFlag, TypeOK
<1>5. ASSUME NEW r \in Ranks, StartKernel(r) PROVE TypeOK'
  <2>1. at[r] \in Phases
    BY <1>5, QueuedPhase DEF StartKernel
  <2> QED
    BY <1>5, <2>1 DEF StartKernel, Goto, TypeOK, Steps
<1>6. ASSUME NEW r \in Ranks, SetFlag(r) PROVE TypeOK'
  <2>1. Slot(at[r]) \in Slots /\ Awaited(at[r]) \in Nat
    BY <1>6, QueuedPhase, AwaitedType DEF SetFlag
  <2>2. at' \in [Ranks -> 0 .. MaxCount] /\ step' \in [Ranks -> Steps]
    BY <1>6, NextPhaseType DEF SetFlag
  <2> QED
    BY <1>6, <2>1, <2>2 DEF SetFlag, TypeOK
<1>7. ASSUME FinishKernel PROVE TypeOK'
  <2>1. kernel \in Phases
    BY <1>7 DEF FinishKernel, TypeOK
  <2>2. Slot(kernel) \in Slots /\ Awaited(kernel) \in Nat
    BY <2>1, AwaitedType
  <2> QED
    BY <1>7, <2>2 DEF FinishKernel, Goto, TypeOK, Steps
<1>8. ASSUME UNCHANGED vars PROVE TypeOK'
  BY <1>8 DEF vars, TypeOK
<1> QED
  BY <1>1, <1>2, <1>3, <1>4, <1>5, <1>6, <1>7, <1>8
  DEF Next, Host, Stream, Finished

\* The state of the synchronisation is well typed in every behaviour.
THEOREM TypeCorrect == Spec => []TypeOK
<1>1. Init => TypeOK
  BY InitType
<1>2. TypeOK /\ [Next]_vars => TypeOK'
  BY NextType
<1> QED
  BY <1>1, <1>2, PTL DEF Spec

-----------------------------------------------------------------------------
(* How each step changes the signals.                                      *)

SignalsSame == \A c \in Phases : Signalled(c)' = Signalled(c)

\* An ADD signals one rank in the phase it is at, where it had not yet.
LEMMA AddSignals ==
  ASSUME IInv, NEW r \in Ranks, AddFlag(r)
  PROVE  /\ at[r] \in Phases /\ plan[at[r]] \in {"card", "root"}
         /\ r \notin Signalled(at[r])
         /\ \A c \in Phases :
              Signalled(c)' = IF c = at[r] THEN Signalled(c) \cup {r} ELSE Signalled(c)
<1> DEFINE a == at[r]
<1> USE DEF Phases
<1>0. /\ a \in Phases /\ MaxCount \in Nat /\ a + 1 \in 0 .. MaxCount
      /\ at \in [Ranks -> 0 .. MaxCount] /\ step \in [Ranks -> Steps]
      /\ step[r] = "add" /\ plan' = plan /\ kernel' = kernel
  BY QueuedPhase, MaxCountAssumption DEF AddFlag, At, IInv, TypeOK
<1>1. plan[a] \in {"card", "root"}
  BY <1>0 DEF IInv, StepInv, CommandsOf, TypeOK, Plans, Kinds, Release
<1>2. r \notin Signalled(a)
  BY <1>0, <1>1 DEF Signalled, Release
<1>3. \/ at' = at /\ step' = [step EXCEPT ![r] = "wait"]
      \/ /\ at' = [at EXCEPT ![r] = a + 1]
         /\ step' = [step EXCEPT ![r] = First(r, a + 1)]
  BY DEF AddFlag, Goto, NextPhase
<1>4. ASSUME NEW c \in Phases
      PROVE  Signalled(c)' = IF c = a THEN Signalled(c) \cup {r} ELSE Signalled(c)
  <2>1. CASE plan[c] \in Release
    <3>1. c # a
      BY <2>1, <1>1 DEF Release
    <3>2. /\ at[0] > c <=> at'[0] > c
          /\ at[0] = c => r # 0
          /\ at'[0] = c /\ step'[0] = "wait" => at[0] = c
      BY <1>0, <1>3, <3>1, <2>1, RanksFinite DEF First
    <3>3. at[0] = c => at'[0] = at[0] /\ step'[0] = step[0]
      BY <1>0, <1>3, <3>2, RanksFinite
    <3> QED
      BY <2>1, <1>0, <3>1, <3>2, <3>3 DEF Signalled
  <2>2. CASE plan[c] \notin Release
    <3>1. \A q \in Ranks : q # r => at'[q] = at[q] /\ step'[q] = step[q]
      BY <1>0, <1>3
    <3>2. c # a => /\ at[r] > c <=> at'[r] > c
                   /\ ~(at[r] = c)
                   /\ at'[r] = c => step'[r] = "add"
      BY <1>0, <1>3, <2>2 DEF First
    <3>3. c = a => at'[r] > c \/ (at'[r] = c /\ step'[r] # "add")
      BY <1>0, <1>3
    <3> QED
      BY <2>2, <1>0, <3>1, <3>2, <3>3 DEF Signalled
  <2> QED
    BY <2>1, <2>2
<1> QED
  BY <1>0, <1>1, <1>2, <1>4

\* Passing a wait signals nothing.
LEMMA WaitSignals ==
  ASSUME IInv, NEW r \in Ranks, WaitFlag(r)
  PROVE  /\ at[r] \in Phases
         /\ Signalled(at[r]) = Ranks
         /\ SignalsSame
<1> DEFINE a == at[r]
<1> USE DEF Phases
<1>0. /\ a \in Phases /\ MaxCount \in Nat /\ a + 1 \in 0 .. MaxCount
      /\ at \in [Ranks -> 0 .. MaxCount] /\ step \in [Ranks -> Steps]
      /\ step[r] = "wait" /\ plan' = plan /\ kernel' = kernel
      /\ at' = [at EXCEPT ![r] = a + 1]
      /\ step' = [step EXCEPT ![r] = First(r, a + 1)]
  BY QueuedPhase, MaxCountAssumption DEF WaitFlag, At, NextPhase, IInv, TypeOK
<1>1. Signalled(a) = Ranks
  BY <1>0, WaitSeesAll DEF WaitFlag
<1>2. ASSUME NEW c \in Phases PROVE Signalled(c)' = Signalled(c)
  <2>1. CASE plan[c] \in Release /\ r = 0
    <3>1. c # a => (at[0] > c <=> at'[0] > c) /\ at[0] # c
      BY <1>0, <2>1, RanksFinite
    <3>2. at'[0] = c => step'[0] # "wait"
      BY <1>0, <2>1, RanksFinite DEF First
    <3>3. c = a => Signalled(c) = Ranks /\ at'[0] > c
      BY <1>0, <1>1, <2>1, RanksFinite
    <3> QED
      BY <2>1, <1>0, <3>1, <3>2, <3>3 DEF Signalled
  <2>2. CASE plan[c] \in Release /\ r # 0
    BY <2>2, <1>0, RanksFinite DEF Signalled
  <2>3. CASE plan[c] \notin Release
    <3>1. \A q \in Ranks : q # r => at'[q] = at[q] /\ step'[q] = step[q]
      BY <1>0
    <3>2. c # a => /\ at[r] > c <=> at'[r] > c
                   /\ at[r] # c
                   /\ at'[r] = c => step'[r] = "add"
      BY <1>0, <2>3 DEF First
    <3>3. c = a => at'[r] > c /\ at[r] = c /\ step[r] # "add"
      BY <1>0
    <3> QED
      BY <2>3, <1>0, <3>1, <3>2, <3>3 DEF Signalled
  <2> QED
    BY <2>1, <2>2, <2>3
<1> QED
  BY <1>0, <1>1, <1>2 DEF SignalsSame

\* Starting the kernel signals nothing.
LEMMA StartSignals ==
  ASSUME IInv, NEW r \in Ranks, StartKernel(r)
  PROVE  /\ r = 0 /\ at[0] \in Phases /\ plan[at[0]] \in Release
         /\ SignalsSame
<1> USE DEF Phases
<1>0. /\ at[r] \in Phases /\ MaxCount \in Nat
      /\ at \in [Ranks -> 0 .. MaxCount] /\ step \in [Ranks -> Steps]
      /\ step[r] = "kernel" /\ plan' = plan /\ at' = at
  BY QueuedPhase, MaxCountAssumption DEF StartKernel, At, Goto, IInv, TypeOK
<1>1. r = 0 /\ plan[at[r]] \in Release
  BY <1>0 DEF IInv, StepInv, CommandsOf, TypeOK, Plans, Kinds, Release
<1>2. \/ step' = step /\ kernel' = at[0] /\ plan[at[0]] = "other"
      \/ step' = [step EXCEPT ![0] = "wait"] /\ kernel' = at[0]
  BY <1>1 DEF StartKernel, Goto, Release
<1>3. ASSUME NEW c \in Phases PROVE Signalled(c)' = Signalled(c)
  <2>1. CASE plan[c] \in Release
    BY <2>1, <1>0, <1>1, <1>2 DEF Signalled
  <2>2. CASE plan[c] \notin Release
    <3>1. \A q \in Ranks : at'[q] = c => step'[q] = step[q]
      BY <1>0, <1>1, <1>2, <2>2
    <3> QED
      BY <2>2, <1>0, <3>1 DEF Signalled
  <2> QED
    BY <2>1, <2>2
<1> QED
  BY <1>0, <1>1, <1>3 DEF SignalsSame

\* A release phase c signals every rank at once, none of them before.
AllSignalled(c) ==
  /\ c \in Phases /\ plan[c] \in Release
  /\ at[0] = c
  /\ Signalled(c) = {}
  /\ \A d \in Phases : Signalled(d)' = IF d = c THEN Ranks ELSE Signalled(d)

LEMMA FinishSignals ==
  ASSUME IInv, FinishKernel
  PROVE  /\ at[0] = kernel /\ kernel \in Phases
         /\ plan[kernel] = "reside" => AllSignalled(kernel)
         /\ plan[kernel] = "other" => SignalsSame
<1> USE DEF Phases
<1>0. /\ kernel \in Phases /\ MaxCount \in Nat /\ at[0] = kernel
      /\ at \in [Ranks -> 0 .. MaxCount] /\ step \in [Ranks -> Steps]
      /\ step[0] = IF plan[kernel] = "reside" THEN "wait" ELSE "kernel"
      /\ plan' = plan /\ at' = at /\ kernel' = NoKernel
      /\ plan[kernel] \in Release
  BY MaxCountAssumption DEF FinishKernel, Goto, KernelInv, IInv, TypeOK
<1>1. NoKernel \notin Phases
  BY <1>0 DEF NoKernel
<1>2. ASSUME plan[kernel] = "reside" PROVE AllSignalled(kernel)
  <2>1. step' = step /\ step[0] = "wait"
    BY <1>0, <1>2 DEF FinishKernel
  <2>2. Signalled(kernel) = {}
    BY <1>0 DEF Signalled
  <2>3. ASSUME NEW d \in Phases, d = kernel PROVE Signalled(d)' = Ranks
    BY <1>0, <1>1, <2>1, <2>3 DEF Signalled
  <2>4. ASSUME NEW d \in Phases, d # kernel PROVE Signalled(d)' = Signalled(d)
    BY <1>0, <2>1, <2>4 DEF Signalled
  <2> QED
    BY <1>0, <2>2, <2>3, <2>4 DEF AllSignalled
<1>3. ASSUME plan[kernel] = "other", NEW c \in Phases
      PROVE  Signalled(c)' = Signalled(c)
  <2>1. step' = [step EXCEPT ![0] = "set"]
    BY <1>3 DEF FinishKernel, Goto
  <2>2. step'[0] = "set" /\ step[0] = "kernel"
    BY <2>1, <1>0, <1>3, RanksFinite
  <2>3. \A q \in Ranks : q # 0 => step'[q] = step[q]
    BY <2>1, <1>0
  <2>4. CASE plan[c] \in Release
    BY <2>4, <1>0, <2>2 DEF Signalled
  <2>5. CASE plan[c] \notin Release
    <3>1. c # kernel
      BY <2>5, <1>0
    <3> QED
      BY <2>5, <3>1, <1>0, <2>3 DEF Signalled
  <2> QED
    BY <2>4, <2>5
<1> QED
  BY <1>0, <1>2, <1>3 DEF SignalsSame

LEMMA SetSignals ==
  ASSUME IInv, NEW r \in Ranks, SetFlag(r)
  PROVE  r = 0 /\ AllSignalled(at[0]) /\ plan[at[0]] = "other"
<1> DEFINE a == at[r]
<1> USE DEF Phases
<1>0. /\ a \in Phases /\ MaxCount \in Nat /\ a + 1 \in 0 .. MaxCount
      /\ at \in [Ranks -> 0 .. MaxCount] /\ step \in [Ranks -> Steps]
      /\ step[r] = "set" /\ plan' = plan /\ kernel' = kernel
      /\ at' = [at EXCEPT ![r] = a + 1]
      /\ step' = [step EXCEPT ![r] = First(r, a + 1)]
  BY QueuedPhase, MaxCountAssumption DEF SetFlag, At, NextPhase, IInv, TypeOK
<1>1. r = 0 /\ plan[a] = "other"
  BY <1>0 DEF IInv, StepInv, CommandsOf, TypeOK, Plans, Kinds, Release
<1>2. Signalled(a) = {}
  BY <1>0, <1>1 DEF Signalled, Release
<1>3. ASSUME NEW d \in Phases
      PROVE  Signalled(d)' = IF d = a THEN Ranks ELSE Signalled(d)
  <2>1. CASE plan[d] \in Release
    <3>1. d # a => (at[0] > d <=> at'[0] > d) /\ at[0] # d
      BY <1>0, <1>1, RanksFinite
    <3>2. at'[0] = d => step'[0] # "wait"
      BY <1>0, <1>1, <2>1, RanksFinite DEF First
    <3>3. d = a => at'[0] > d
      BY <1>0, <1>1, RanksFinite
    <3> QED
      BY <2>1, <1>0, <3>1, <3>2, <3>3 DEF Signalled
  <2>2. CASE plan[d] \notin Release
    <3>1. d # a
      BY <2>2, <1>1 DEF Release
    <3>2. \A q \in Ranks : q # 0 => at'[q] = at[q] /\ step'[q] = step[q]
      BY <1>0, <1>1
    <3>3. /\ at[0] > d <=> at'[0] > d
          /\ at[0] # d
          /\ at'[0] = d => step'[0] = "add"
      BY <1>0, <1>1, <3>1, <2>2, RanksFinite DEF First
    <3> QED
      BY <2>2, <1>0, <3>1, <3>2, <3>3 DEF Signalled
  <2> QED
    BY <2>1, <2>2
<1> QED
  BY <1>0, <1>1, <1>2, <1>3 DEF AllSignalled, Release

-----------------------------------------------------------------------------
(* How the flags follow the signals.                                       *)

LEMMA SameFlags ==
  ASSUME IInv, SignalsSame, UNCHANGED syncflag
  PROVE  Chain' /\ FlagInv'
<1>1. Chain'
  BY DEF IInv, Chain, SignalsSame
<1>2. ASSUME NEW c \in Phases, Current(c)'
      PROVE  syncflag'[Slot(c)] = rank_num * (c \div 2) + Cardinality(Signalled(c)')
  <2>1. c \in Nat /\ MaxCount \in Nat
    BY MaxCountAssumption DEF Phases
  <2>2. Current(c)
    BY <1>2, <2>1 DEF Current, SignalsSame, Phases
  <2> QED
    BY <2>2 DEF IInv, FlagInv, SignalsSame
<1>3. FlagInv'
  BY <1>2 DEF FlagInv, Slot
<1> QED
  BY <1>1, <1>3

\* Signals of phase c rise from less than all ranks to T, and the flag of c
\* counts them.  When T is everybody, the flag starts to count for phase
\* c + 2, whose value is the same.
LEMMA RiseFlags ==
  ASSUME IInv, NEW c \in Phases, NEW T \in SUBSET Ranks, T # {},
         Signalled(c) # Ranks, Current(c),
         \A d \in Phases : d < c => Signalled(d) = Ranks,
         \A d \in Phases : Signalled(d)' = IF d = c THEN T ELSE Signalled(d),
         syncflag' = [syncflag EXCEPT ![Slot(c)] =
                        rank_num * (c \div 2) + Cardinality(T)]
  PROVE  Chain' /\ FlagInv'
<1>0. /\ c \in Nat /\ MaxCount \in Nat /\ Slot(c) \in Slots
      /\ syncflag \in [Slots -> Nat]
      /\ \A d \in Phases : d \in Nat
  BY MaxCountAssumption, AwaitedType DEF Phases, IInv, TypeOK
<1>a. \A d \in Phases : d > c => Signalled(d) = {}
  BY <1>0 DEF IInv, Chain
<1>1. ASSUME NEW d \in Phases, NEW e \in Phases, e < d, Signalled(d)' # {}
      PROVE  Signalled(e)' = Ranks
  <2>1. d <= c
    BY <1>1, <1>0, <1>a
  <2> QED
    BY <1>1, <2>1, <1>0
<1>2. Chain'
  BY <1>1 DEF Chain
<1>3. ASSUME NEW d \in Phases, Current(d)'
      PROVE  syncflag'[Slot(d)] = rank_num * (d \div 2) + Cardinality(Signalled(d)')
  <2>0. /\ d \in Nat /\ Slot(d) \in Slots
        /\ d >= 2 => d - 2 \in Phases /\ Signalled(d - 2)' = Ranks
        /\ d + 2 \in Phases => Signalled(d + 2)' = {}
    BY <1>0, <1>3, AwaitedType DEF Current, Phases
  <2>1. CASE d = c
    BY <2>1, <1>0
  <2>2. CASE Slot(d) # Slot(c)
    <3>1. d # c /\ d - 2 # c /\ d + 2 # c
      BY <2>2, <1>0, <2>0 DEF Slot, SYNC_NUM
    <3>2. Current(d)
      BY <3>1, <2>0 DEF Current
    <3>3. syncflag'[Slot(d)] = syncflag[Slot(d)] /\ Signalled(d)' = Signalled(d)
      BY <2>2, <3>1, <1>0, <2>0
    <3> QED
      BY <3>2, <3>3 DEF IInv, FlagInv
  <2>3. CASE Slot(d) = Slot(c) /\ d < c
    <3>1. d + 2 <= c
      BY <2>3, <1>0, <2>0 DEF Slot, SYNC_NUM
    <3>2. d + 2 \in Phases
      BY <3>1, <1>0, <2>0 DEF Phases
    <3>3. Signalled(d + 2)' # {}
      BY <3>1, <3>2, <1>0, <2>0, RanksFinite
    <3> QED
      BY <3>2, <3>3, <2>0
  <2>4. CASE Slot(d) = Slot(c) /\ d > c
    <3>1. d >= c + 2
      BY <2>4, <1>0, <2>0 DEF Slot, SYNC_NUM
    <3>2. d = c + 2 /\ T = Ranks
      <4>1. d - 2 \in Phases /\ Signalled(d - 2)' = Ranks
        BY <2>0, <3>1, <1>0
      <4>2. d - 2 > c => Signalled(d - 2)' = {}
        BY <4>1, <1>a, <1>0, <2>0
      <4>3. d - 2 = c
        BY <4>1, <4>2, <3>1, <1>0, <2>0, RanksFinite
      <4> QED
        BY <4>1, <4>3, <1>0, <2>0
    <3>3. Signalled(d)' = {}
      BY <2>4, <1>a, <1>0, <2>0
    <3>4. syncflag'[Slot(d)] = rank_num * (c \div 2) + rank_num
      BY <3>2, <2>4, <1>0, RanksFinite
    <3>5. d \div 2 = c \div 2 + 1
      BY <3>2, <1>0
    <3>6. rank_num * (c \div 2 + 1) = rank_num * (c \div 2) + rank_num
      BY <1>0, RankNumAssumption
    <3> QED
      BY <3>3, <3>4, <3>5, <3>6, FS_EmptySet, RankNumAssumption, <1>0
  <2> QED
    BY <2>1, <2>2, <2>3, <2>4, <1>0, <2>0
<1>4. FlagInv'
  BY <1>3 DEF FlagInv, Slot
<1> QED
  BY <1>2, <1>4

\* A stream that is not waiting for a release got past a complete phase.
LEMMA EarlierComplete ==
  ASSUME IInv, NEW r \in Ranks, at[r] \in Phases,
         plan[at[r]] \notin Release \/ r = 0,
         NEW d \in Phases, d < at[r]
  PROVE  Signalled(d) = Ranks
<1> DEFINE c == at[r]
<1>0. c \in Nat /\ d \in Nat /\ c - 1 \in Phases /\ MaxCount \in Nat
  BY MaxCountAssumption DEF Phases
<1>1. Signalled(c - 1) = Ranks
  <2>1. CASE Waits(r, c - 1)
    BY <2>1, <1>0 DEF IInv, BarrierSafety
  <2>2. CASE ~Waits(r, c - 1) /\ plan[c - 1] \in Release
    <3>1. r = 0
      BY <2>2 DEF Waits, Release
    <3> QED
      BY <2>2, <3>1, <1>0 DEF Signalled
  <2>3. CASE ~Waits(r, c - 1) /\ plan[c - 1] \notin Release
    <3>1. plan[c - 1] = "root" /\ r # 0
      BY <2>3, <1>0 DEF Waits, Release, IInv, TypeOK, Plans, Kinds
    <3>2. plan[c] \in Release
      BY <3>1, <1>0 DEF IInv, TypeOK, Plans
    <3> QED
      BY <3>1, <3>2
  <2> QED
    BY <2>1, <2>2, <2>3
<1> QED
  BY <1>0, <1>1, RanksFinite DEF IInv, Chain

LEMMA ReleaseFlags ==
  ASSUME IInv, NEW c, AllSignalled(c),
         syncflag' = [syncflag EXCEPT ![Slot(c)] = Awaited(c)]
  PROVE  Chain' /\ FlagInv'
<1>1. 0 \in Ranks /\ Ranks # {} /\ at[0] = c /\ c \in Phases
  BY RanksFinite DEF AllSignalled
<1>2. Current(c)
  BY <1>1, AtCurrent
<1>3. Awaited(c) = rank_num * (c \div 2) + Cardinality(Ranks)
  BY <1>1, FlagValue, RanksFinite
<1>4. \A d \in Phases : d < c => Signalled(d) = Ranks
  BY <1>1, EarlierComplete
<1>5. Ranks \in SUBSET Ranks
  OBVIOUS
<1> QED
  BY <1>1, <1>2, <1>3, <1>4, <1>5, RiseFlags DEF AllSignalled

-----------------------------------------------------------------------------
(* The invariant is inductive.                                             *)

LEMMA InitInv == Init => IInv
<1> SUFFICES ASSUME Init PROVE IInv
  OBVIOUS
<1> USE DEF Phases
<1>0. MaxCount \in Nat /\ rank_num \in Nat /\ TypeOK
  BY MaxCountAssumption, RankNumAssumption, InitType
<1>1. ASSUME 0 \in Phases PROVE plan[0] \in {"card", "root"}
  BY <1>1 DEF Init, Plans, Kinds, Release
<1>2. \A c \in Phases : Signalled(c) = {}
  BY <1>0 DEF Init, Signalled, Ranks, Steps
<1>3. StepInv
  BY <1>0, <1>1 DEF Init, StepInv, CommandsOf, Steps
<1>4. KernelInv
  BY DEF Init, KernelInv
<1>5. AddrInv
  BY <1>0, <1>1 DEF Init, AddrInv, Release
<1>6. Chain
  BY <1>2 DEF Chain
<1>7. BarrierSafety
  BY <1>0 DEF Init, BarrierSafety
<1>8. FlagInv
  <2> SUFFICES ASSUME NEW c \in Phases, Current(c)
               PROVE  syncflag[Slot(c)] = rank_num * (c \div 2) + Cardinality(Signalled(c))
    BY DEF FlagInv
  <2>1. c < 2
    <3>1. SUFFICES ASSUME c >= 2 PROVE FALSE
      BY <1>0
    <3>2. c - 2 \in Phases /\ Signalled(c - 2) = Ranks
      BY <3>1, <1>0 DEF Current
    <3> QED
      BY <3>2, <1>2, RanksFinite
  <2>2. c \div 2 = 0 /\ Slot(c) \in Slots
    BY <2>1, <1>0, AwaitedType
  <2>3. Cardinality(Signalled(c)) = 0
    BY <1>2, FS_EmptySet
  <2> QED
    BY <2>2, <2>3, <1>0 DEF Init
<1> QED
  BY <1>0, <1>3, <1>4, <1>5, <1>6, <1>7, <1>8 DEF IInv

\* What the stream of r finds when it moves on to its next phase.
LEMMA FirstCommand ==
  ASSUME TypeOK, NEW r \in Ranks, NEW c \in Phases,
         plan[c + 1] \in Release /\ c + 1 \in Phases => plan[c] = "root"
  PROVE  /\ c + 1 = MaxCount => First(r, c + 1) = "add"
         /\ c + 1 \in Phases => First(r, c + 1) \in CommandsOf(r, c + 1)
<1>1. c \in Nat /\ MaxCount \in Nat
  BY MaxCountAssumption DEF Phases
<1>2. c + 1 = MaxCount => c + 1 \notin Phases
  BY <1>1 DEF Phases
<1>3. c + 1 \in Phases => plan[c + 1] \in Kinds
  BY DEF TypeOK, Plans
<1> QED
  BY <1>2, <1>3 DEF First, CommandsOf, Steps, Kinds, Release

LEMMA AddInv ==
  ASSUME IInv, NEW r \in Ranks, AddFlag(r)
  PROVE  StepInv' /\ KernelInv' /\ AddrInv' /\ Chain' /\ BarrierSafety' /\ FlagInv'
<1> DEFINE a == at[r]
<1> USE DEF Phases
<1>0. /\ a \in Phases /\ MaxCount \in Nat /\ TypeOK
      /\ at \in [Ranks -> 0 .. MaxCount] /\ step \in [Ranks -> Steps]
      /\ step[r] = "add" /\ plan' = plan /\ kernel' = kernel
      /\ plan[a] \in {"card", "root"} /\ devList \in [Ranks -> Phases \cup {NoCall}]
      /\ r \notin Signalled(a)
      /\ \A c \in Phases :
           Signalled(c)' = IF c = a THEN Signalled(c) \cup {r} ELSE Signalled(c)
  BY AddSignals, MaxCountAssumption DEF AddFlag, At, IInv, TypeOK
<1>1. \A q \in Ranks : q # r =>
        at'[q] = at[q] /\ step'[q] = step[q] /\ devList'[q] = devList[q]
  BY <1>0 DEF AddFlag, Goto, NextPhase
<1>2. \/ Waits(r, a) /\ at'[r] = a /\ step'[r] = "wait"
      \/ /\ plan[a] = "root" /\ r # 0
         /\ at'[r] = a + 1 /\ step'[r] = First(r, a + 1)
  BY <1>0 DEF AddFlag, Goto, NextPhase, Waits
<1>3. plan[a] = "root" => devList'[r] = a
  BY <1>0 DEF AddFlag
<1>4. plan[a] = "root" => a + 1 \in Phases /\ plan[a + 1] \in Release
  BY <1>0 DEF TypeOK, Plans
<1>5. StepInv'
  <2>1. /\ at'[r] = MaxCount => step'[r] = "add"
        /\ at'[r] \in Phases => step'[r] \in CommandsOf(r, at'[r])
    <3>1. CASE Waits(r, a) /\ at'[r] = a /\ step'[r] = "wait"
      BY <3>1, <1>0 DEF CommandsOf, Steps, Waits, Release
    <3>2. CASE plan[a] = "root" /\ at'[r] = a + 1 /\ step'[r] = First(r, a + 1)
      BY <3>2, <1>0, FirstCommand
    <3> QED
      BY <1>2, <3>1, <3>2
  <2>2. \A q \in Ranks : /\ at'[q] = MaxCount => step'[q] = "add"
                         /\ at'[q] \in Phases => step'[q] \in CommandsOf(q, at'[q])
    BY <2>1, <1>1 DEF IInv, StepInv
  <2> QED
    BY <2>2, <1>0 DEF StepInv, CommandsOf
<1>6. KernelInv'
  <2>1. kernel # NoKernel => r # 0
    BY <1>0 DEF IInv, KernelInv, Release
  <2> QED
    BY <2>1, <1>0, <1>1, RanksFinite DEF IInv, KernelInv
<1>7. AddrInv'
  <2>1. at'[r] \in Phases =>
          /\ plan[at'[r]] \in Release => devList'[r] = at'[r] - 1
          /\ plan[at'[r]] = "root" /\ step'[r] = "wait" => devList'[r] = at'[r]
    BY <1>0, <1>2, <1>3, <1>4 DEF Release
  <2> QED
    BY <2>1, <1>0, <1>1 DEF IInv, AddrInv
<1>8. BarrierSafety'
  <2> SUFFICES ASSUME NEW q \in Ranks, NEW c \in Phases, at'[q] > c, Waits(q, c)'
               PROVE  Signalled(c)' = Ranks
    BY DEF BarrierSafety
  <2>1. Waits(q, c) /\ at[q] > c
    BY <1>0, <1>1, <1>2 DEF Waits
  <2>2. Signalled(c) = Ranks
    BY <2>1 DEF IInv, BarrierSafety
  <2> QED
    BY <2>2, <1>0
<1>9. Chain' /\ FlagInv'
  <2> DEFINE T == Signalled(a) \cup {r}
  <2>1. Current(a) /\ Signalled(a) \in SUBSET Ranks /\ T \in SUBSET Ranks
    BY <1>0, AtCurrent
  <2>2. Cardinality(T) = Cardinality(Signalled(a)) + 1
    BY <2>1, <1>0, RankSets, FS_AddElement
  <2>3. /\ syncflag[Slot(a)] = rank_num * (a \div 2) + Cardinality(Signalled(a))
        /\ rank_num * (a \div 2) \in Nat /\ Cardinality(Signalled(a)) \in Nat
    BY <1>0, FlagValue, <2>1, RankSets
  <2>4. syncflag' = [syncflag EXCEPT ![Slot(a)] = rank_num * (a \div 2) + Cardinality(T)]
    <3>1. syncflag' = [syncflag EXCEPT ![Slot(a)] = syncflag[Slot(a)] + 1]
      BY DEF AddFlag
    <3> HIDE DEF T
    <3>2. syncflag[Slot(a)] + 1 = rank_num * (a \div 2) + Cardinality(T)
      BY <2>2, <2>3
    <3> QED
      BY <3>1, <3>2
  <2>5. \A d \in Phases : d < a => Signalled(d) = Ranks
    BY <1>0, EarlierComplete DEF Release
  <2>6. T # {} /\ Signalled(a) # Ranks
    BY <1>0
  <2>7. \A d \in Phases : Signalled(d)' = IF d = a THEN T ELSE Signalled(d)
    BY <1>0
  <2> HIDE DEF T
  <2> QED
    BY <2>1, <2>4, <2>5, <2>6, <2>7, <1>0, RiseFlags
<1> QED
  BY <1>5, <1>6, <1>7, <1>8, <1>9

LEMMA WaitInv ==
  ASSUME IInv, NEW r \in Ranks, WaitFlag(r)
  PROVE  StepInv' /\ KernelInv' /\ AddrInv' /\ Chain' /\ BarrierSafety' /\ FlagInv'
<1> DEFINE a == at[r]
<1> USE DEF Phases
<1>0. /\ a \in Phases /\ MaxCount \in Nat /\ TypeOK
      /\ at \in [Ranks -> 0 .. MaxCount] /\ step \in [Ranks -> Steps]
      /\ step[r] = "wait" /\ plan' = plan /\ kernel' = kernel
      /\ UNCHANGED <<syncflag, devList>>
      /\ Signalled(a) = Ranks /\ SignalsSame
  BY WaitSignals, MaxCountAssumption DEF WaitFlag, At, IInv, TypeOK
<1>1. /\ at' = [at EXCEPT ![r] = a + 1]
      /\ step' = [step EXCEPT ![r] = First(r, a + 1)]
  BY DEF WaitFlag, NextPhase
<1>2. plan[a + 1] \in Release /\ a + 1 \in Phases => plan[a] = "root" /\ r = 0
  <2>1. plan[a + 1] \in Release /\ a + 1 \in Phases => plan[a] = "root"
    BY <1>0 DEF TypeOK, Plans
  <2>2. step[r] \in CommandsOf(r, a)
    BY <1>0 DEF IInv, StepInv
  <2>3. plan[a] = "root" => r = 0
    BY <2>2, <1>0 DEF CommandsOf
  <2> QED
    BY <2>1, <2>3
<1>3. StepInv'
  <2>1. /\ a + 1 = MaxCount => First(r, a + 1) = "add"
        /\ a + 1 \in Phases => First(r, a + 1) \in CommandsOf(r, a + 1)
    BY <1>0, <1>2, FirstCommand
  <2>2. \A q \in Ranks : /\ at'[q] = MaxCount => step'[q] = "add"
                         /\ at'[q] \in Phases => step'[q] \in CommandsOf(q, at'[q])
    BY <2>1, <1>0, <1>1 DEF IInv, StepInv
  <2> QED
    BY <2>2, <1>0 DEF StepInv, CommandsOf
<1>4. KernelInv'
  <2>1. ASSUME kernel # NoKernel PROVE r # 0
    <3>1. at[0] = kernel /\ plan[kernel] \in Release /\ kernel \in Phases
      BY <2>1, <1>0 DEF IInv, KernelInv, TypeOK
    <3>2. step[0] = "wait" => Signalled(kernel) = {}
      BY <3>1, <1>0 DEF Signalled
    <3> QED
      BY <3>1, <3>2, <1>0, RanksFinite
  <2> QED
    BY <2>1, <1>0, <1>1, RanksFinite DEF IInv, KernelInv
<1>5. AddrInv'
  <2>1. a + 1 \in Phases =>
          /\ plan[a + 1] \in Release => devList[r] = a
          /\ plan[a + 1] = "root" => First(r, a + 1) = "add"
    BY <1>0, <1>2 DEF IInv, AddrInv, First, Release
  <2>2. \A q \in Ranks : at'[q] \in Phases =>
          /\ plan[at'[q]] \in Release => devList[q] = at'[q] - 1
          /\ plan[at'[q]] = "root" /\ step'[q] = "wait" => devList[q] = at'[q]
    BY <2>1, <1>0, <1>1 DEF IInv, AddrInv
  <2> QED
    BY <2>2, <1>0 DEF AddrInv
<1>6. BarrierSafety'
  <2> SUFFICES ASSUME NEW q \in Ranks, NEW c \in Phases, at'[q] > c, Waits(q, c)'
               PROVE  Signalled(c)' = Ranks
    BY DEF BarrierSafety
  <2>1. Waits(q, c) /\ (at[q] > c \/ c = a)
    BY <1>0, <1>1 DEF Waits
  <2>2. Signalled(c) = Ranks
    BY <2>1, <1>0 DEF IInv, BarrierSafety
  <2> QED
    BY <2>2, <1>0 DEF SignalsSame
<1> QED
  BY <1>0, <1>3, <1>4, <1>5, <1>6, SameFlags

LEMMA StartInv ==
  ASSUME IInv, NEW r \in Ranks, StartKernel(r)
  PROVE  StepInv' /\ KernelInv' /\ AddrInv' /\ Chain' /\ BarrierSafety' /\ FlagInv'
<1> USE DEF Phases
<1>0. /\ r = 0 /\ at[0] \in Phases /\ MaxCount \in Nat /\ plan[at[0]] \in Release
      /\ at \in [Ranks -> 0 .. MaxCount] /\ step \in [Ranks -> Steps]
      /\ step[0] = "kernel" /\ plan' = plan /\ kernel' = at[0] /\ at' = at
      /\ UNCHANGED <<syncflag, devList>> /\ SignalsSame /\ 0 \in Ranks
  BY StartSignals, RanksFinite, MaxCountAssumption DEF StartKernel, At, Goto, IInv, TypeOK
<1>1. step' = IF plan[at[0]] = "reside" THEN [step EXCEPT ![0] = "wait"] ELSE step
  BY <1>0 DEF StartKernel, Goto
<1>2. StepInv'
  <2>1. \A q \in Ranks : /\ at[q] = MaxCount => step'[q] = "add"
                         /\ at[q] \in Phases => step'[q] \in CommandsOf(q, at[q])
    BY <1>0, <1>1 DEF IInv, StepInv, CommandsOf, Steps, Release
  <2> QED
    BY <2>1, <1>0 DEF StepInv, CommandsOf
<1>3. KernelInv'
  BY <1>0, <1>1 DEF KernelInv
<1>4. AddrInv'
  BY <1>0, <1>1 DEF IInv, AddrInv, Release
<1>5. BarrierSafety'
  BY <1>0 DEF IInv, BarrierSafety, Waits, SignalsSame
<1> QED
  BY <1>0, <1>2, <1>3, <1>4, <1>5, SameFlags

LEMMA SetInv ==
  ASSUME IInv, NEW r \in Ranks, SetFlag(r)
  PROVE  StepInv' /\ KernelInv' /\ AddrInv' /\ Chain' /\ BarrierSafety' /\ FlagInv'
<1> DEFINE a == at[0]
<1> USE DEF Phases
<1>0. /\ r = 0 /\ a \in Phases /\ plan[a] = "other" /\ AllSignalled(a)
      /\ MaxCount \in Nat /\ TypeOK /\ 0 \in Ranks
      /\ at \in [Ranks -> 0 .. MaxCount] /\ step \in [Ranks -> Steps]
      /\ step[0] = "set" /\ plan' = plan /\ kernel' = kernel /\ devList' = devList
      /\ at' = [at EXCEPT ![0] = a + 1]
      /\ step' = [step EXCEPT ![0] = First(0, a + 1)]
      /\ syncflag' = [syncflag EXCEPT ![Slot(a)] = Awaited(a)]
  BY SetSignals, RanksFinite, MaxCountAssumption
  DEF SetFlag, At, NextPhase, IInv, TypeOK, AllSignalled
<1>1. a + 1 \in Phases => plan[a + 1] \notin Release
  BY <1>0 DEF TypeOK, Plans
<1>2. StepInv'
  <2>1. /\ a + 1 = MaxCount => First(0, a + 1) = "add"
        /\ a + 1 \in Phases => First(0, a + 1) \in CommandsOf(0, a + 1)
    BY <1>0, <1>1, FirstCommand
  <2>2. \A q \in Ranks : /\ at'[q] = MaxCount => step'[q] = "add"
                         /\ at'[q] \in Phases => step'[q] \in CommandsOf(q, at'[q])
    BY <2>1, <1>0 DEF IInv, StepInv
  <2> QED
    BY <2>2, <1>0 DEF StepInv, CommandsOf
<1>3. KernelInv'
  <2>1. kernel = NoKernel
    BY <1>0 DEF IInv, KernelInv
  <2> QED
    BY <2>1, <1>0 DEF KernelInv
<1>4. AddrInv'
  BY <1>0, <1>1 DEF IInv, AddrInv, First
<1>5. BarrierSafety'
  <2> SUFFICES ASSUME NEW q \in Ranks, NEW c \in Phases, at'[q] > c, Waits(q, c)'
               PROVE  Signalled(c)' = Ranks
    BY DEF BarrierSafety
  <2>1. Waits(q, c) /\ at[q] > c
    BY <1>0 DEF Waits
  <2>2. Signalled(c) = Ranks
    BY <2>1 DEF IInv, BarrierSafety
  <2> QED
    BY <2>2, <1>0 DEF AllSignalled
<1>6. Chain' /\ FlagInv'
  BY <1>0, ReleaseFlags
<1> QED
  BY <1>2, <1>3, <1>4, <1>5, <1>6

LEMMA FinishInv ==
  ASSUME IInv, FinishKernel
  PROVE  StepInv' /\ KernelInv' /\ AddrInv' /\ Chain' /\ BarrierSafety' /\ FlagInv'
<1> USE DEF Phases
<1>0. /\ at[0] = kernel /\ kernel \in Phases /\ MaxCount \in Nat
      /\ plan[kernel] \in Release /\ 0 \in Ranks
      /\ step[0] = IF plan[kernel] = "reside" THEN "wait" ELSE "kernel"
      /\ at \in [Ranks -> 0 .. MaxCount] /\ step \in [Ranks -> Steps]
      /\ plan' = plan /\ kernel' = NoKernel /\ devList' = devList /\ at' = at
  BY FinishSignals, RanksFinite, MaxCountAssumption
  DEF FinishKernel, Goto, KernelInv, IInv, TypeOK
<1>1. step' = IF plan[kernel] = "reside" THEN step ELSE [step EXCEPT ![0] = "set"]
  BY <1>0 DEF FinishKernel, Goto
<1>2. StepInv'
  <2>1. \A q \in Ranks : /\ at[q] = MaxCount => step'[q] = "add"
                         /\ at[q] \in Phases => step'[q] \in CommandsOf(q, at[q])
    BY <1>0, <1>1 DEF IInv, StepInv, CommandsOf, Steps, Release
  <2> QED
    BY <2>1, <1>0 DEF StepInv, CommandsOf
<1>3. KernelInv'
  BY <1>0 DEF KernelInv, NoKernel
<1>4. AddrInv'
  BY <1>0, <1>1 DEF IInv, AddrInv, Release
<1>5. CASE plan[kernel] = "reside"
  <2>1. AllSignalled(kernel)
    BY <1>5, FinishSignals
  <2>2. syncflag' = [syncflag EXCEPT ![Slot(kernel)] = Awaited(kernel)]
    BY <1>5 DEF FinishKernel
  <2>3. ASSUME NEW k \in Phases, k = kernel PROVE Chain' /\ FlagInv'
    BY <2>1, <2>2, <2>3, ReleaseFlags
  <2>4. BarrierSafety'
    BY <2>1, <1>0 DEF IInv, BarrierSafety, Waits, AllSignalled
  <2> QED
    BY <1>0, <1>2, <1>3, <1>4, <2>3, <2>4
<1>6. CASE plan[kernel] = "other"
  <2>1. SignalsSame /\ UNCHANGED syncflag
    BY <1>6, FinishSignals DEF FinishKernel
  <2>2. BarrierSafety'
    BY <2>1, <1>0 DEF IInv, BarrierSafety, Waits, SignalsSame
  <2> QED
    BY <1>2, <1>3, <1>4, <2>1, <2>2, SameFlags
<1> QED
  BY <1>0, <1>5, <1>6 DEF Release

\* Steps that touch neither the streams nor what they share.
LEMMA QuietInv ==
  ASSUME IInv, UNCHANGED <<plan, at, step, syncflag, devList, kernel>>
  PROVE  StepInv' /\ KernelInv' /\ AddrInv' /\ Chain' /\ BarrierSafety' /\ FlagInv'
<1>1. SignalsSame
  BY DEF SignalsSame, Signalled
<1>2. StepInv' /\ KernelInv' /\ AddrInv'
  BY DEF IInv, StepInv, CommandsOf, KernelInv, AddrInv
<1>3. BarrierSafety'
  BY <1>1 DEF IInv, BarrierSafety, Waits, SignalsSame
<1> QED
  BY <1>1, <1>2, <1>3, SameFlags

LEMMA NextInv == IInv /\ [Next]_vars => IInv'
<1> SUFFICES ASSUME IInv, [Next]_vars PROVE IInv'
  OBVIOUS
<1>0. TypeOK'
  BY NextType DEF IInv
<1>1. ASSUME NEW r \in Ranks, Host(r) PROVE IInv'
  BY <1>0, <1>1, QuietInv DEF Host, tcclDevSyncCard, tcclSmallSizeAllreduce, IInv
<1>2. ASSUME NEW r \in Ranks, AddFlag(r) PROVE IInv'
  BY <1>0, <1>2, AddInv DEF IInv
<1>3. ASSUME NEW r \in Ranks, WaitFlag(r) PROVE IInv'
  BY <1>0, <1>3, WaitInv DEF IInv
<1>4. ASSUME NEW r \in Ranks, StartKernel(r) PROVE IInv'
  BY <1>0, <1>4, StartInv DEF IInv
<1>5. ASSUME NEW r \in Ranks, SetFlag(r) PROVE IInv'
  BY <1>0, <1>5, SetInv DEF IInv
<1>6. ASSUME FinishKernel PROVE IInv'
  BY <1>0, <1>6, FinishInv DEF IInv
<1>7. ASSUME UNCHANGED vars PROVE IInv'
  BY <1>0, <1>7, QuietInv DEF IInv, vars
<1> QED
  BY <1>1, <1>2, <1>3, <1>4, <1>5, <1>6, <1>7 DEF Next, Stream, Finished

LEMMA InvariantHolds == Spec => []IInv
<1> QED
  BY InitInv, NextInv, PTL DEF Spec

-----------------------------------------------------------------------------
(* What the card is promised.                                              *)

\* No stream is past a wait before every rank's signal.
THEOREM StreamsStayBehindBarriers == Spec => []BarrierSafety
<1>1. IInv => BarrierSafety
  BY DEF IInv
<1> QED
  BY <1>1, InvariantHolds, PTL

LEMMA InvNoOvershoot == IInv => NoOvershoot
<1> SUFFICES ASSUME IInv, NEW r \in Ranks, at[r] \in Phases
             PROVE  syncflag[Slot(at[r])] <= Awaited(at[r])
  BY DEF NoOvershoot
<1>1. Cardinality(Signalled(at[r])) \in 0 .. rank_num
  BY AtCurrent, RankSets
<1> QED
  BY <1>1, FlagValue, RankNumAssumption

\* A flag never runs past a value that some stream still waits to see.
THEOREM FlagsNeverOvershoot == Spec => []NoOvershoot
BY InvariantHolds, InvNoOvershoot, PTL

LEMMA InvKernelOwnsBuffers == IInv => KernelOwnsBuffers
<1> SUFFICES ASSUME IInv, kernel # NoKernel, NEW r \in Ranks
             PROVE  /\ devList[r] = kernel - 1
                    /\ at[r] = kernel
                    /\ r # 0 => step[r] = "wait"
  BY DEF KernelOwnsBuffers
<1> USE DEF Phases
<1>0. /\ kernel \in Phases /\ at[0] = kernel /\ plan[kernel] \in Release
      /\ MaxCount \in Nat /\ 0 \in Ranks /\ TypeOK
      /\ at \in [Ranks -> 0 .. MaxCount] /\ step \in [Ranks -> Steps]
  BY RanksFinite, MaxCountAssumption DEF IInv, KernelInv, TypeOK
<1>1. kernel - 1 \in Phases /\ plan[kernel - 1] = "root"
  BY <1>0 DEF TypeOK, Plans
<1>2. Signalled(kernel - 1) = Ranks
  BY <1>0, <1>1, EarlierComplete
<1>3. Signalled(kernel) = {}
  BY <1>0 DEF Signalled, IInv, KernelInv
<1>4. at[r] >= kernel
  <2>1. CASE r = 0
    BY <2>1, <1>0
  <2>2. CASE r # 0
    <3>1. at[r] = kernel - 1 => step[r] = "add"
      BY <2>2, <1>1 DEF IInv, StepInv, CommandsOf
    <3> QED
      BY <3>1, <1>0, <1>1, <1>2 DEF Signalled, Release
  <2> QED
    BY <2>1, <2>2
<1>5. ~(at[r] > kernel)
  BY <1>0, <1>3, PastSignalled DEF IInv
<1>6. at[r] = kernel
  BY <1>4, <1>5, <1>0
<1> QED
  BY <1>6, <1>0 DEF IInv, AddrInv, StepInv, CommandsOf, Release

\* The kernel of a small-size AllReduce works on buffers nobody else touches.
THEOREM KernelWorksAlone == Spec => []KernelOwnsBuffers
BY InvariantHolds, InvKernelOwnsBuffers, PTL

-----------------------------------------------------------------------------
(* Every call is a barrier: DevSync implements CardBarrier.                *)

\* The abstract state: the call a rank is in, and whether it announced itself.
Round(r) == IF InSecondHalf(r) THEN at[r] - 1 ELSE at[r]
Inside(r) == InSecondHalf(r) \/ step[r] = "wait"

\* r moves on from the call it is in, seen from the abstract barrier.
LEMMA LeaveStep ==
  ASSUME IInv, NEW r \in Ranks, at[r] \in Phases, plan' = plan,
         plan[at[r]] \in Kinds \ {"root"}, step[r] # "add",
         \A q \in Ranks : \/ at[q] > at[r]
                          \/ at[q] = at[r] /\ (step[q] = "wait" \/ InSecondHalf(q)),
         at' = [at EXCEPT ![r] = @ + 1],
         step' = [step EXCEPT ![r] = First(r, at[r] + 1)]
  PROVE  Barrier!Leave(r)
<1> DEFINE a == at[r]
<1> USE DEF Phases
<1>0. /\ a \in Phases /\ MaxCount \in Nat /\ TypeOK
      /\ at \in [Ranks -> 0 .. MaxCount] /\ step \in [Ranks -> Steps]
  BY MaxCountAssumption DEF IInv, TypeOK
<1>1. a + 1 \in Phases => plan[a + 1] \notin Release
  <2>1. SUFFICES ASSUME a + 1 \in Phases, plan[a + 1] \in Release PROVE FALSE
    OBVIOUS
  <2>2. plan[(a + 1) - 1] = "root"
    BY <2>1, <1>0 DEF TypeOK, Plans
  <2>3. (a + 1) - 1 = a
    BY <1>0
  <2> QED
    BY <2>2, <2>3
<1>2. step[r] \in CommandsOf(r, a)
  BY DEF IInv, StepInv
<1>3. Inside(r)
  BY <1>0, <1>2 DEF Inside, InSecondHalf, CommandsOf, Release, Kinds
<1>4. ASSUME NEW q \in Ranks
      PROVE  Round(q) > Round(r) \/ (Round(q) = Round(r) /\ Inside(q))
  <2>1. CASE at[q] = a
    BY <2>1, <1>0 DEF Round, Inside, InSecondHalf
  <2>2. CASE at[q] > a
    <3>1. at[q] = a + 1 => ~InSecondHalf(q)
      BY <1>1 DEF InSecondHalf
    <3>2. Round(q) >= a + 1
      BY <3>1, <2>2, <1>0 DEF Round
    <3> QED
      BY <3>2, <1>0 DEF Round
  <2> QED
    BY <2>1, <2>2
<1>5. ~InSecondHalf(r)' /\ step'[r] = "add"
  <2>1. at'[r] = a + 1 /\ step'[r] = First(r, a + 1)
    BY <1>0
  <2> QED
    BY <2>1, <1>0, <1>1 DEF InSecondHalf, First
<1>6. \A q \in Ranks : q # r => Round(q)' = Round(q) /\ Inside(q)' = Inside(q)
  BY <1>0 DEF Round, Inside, InSecondHalf
<1>7. ~Inside(r)'
  BY <1>5, <1>0 DEF Inside
<1>8. Round(r)' = Round(r) + (IF plan[Round(r)] = "card" THEN 1 ELSE 2)
  <2>1. Round(r)' = a + 1
    BY <1>5, <1>0 DEF Round
  <2>2. CASE plan[a] \in Release
    <3>1. Round(r) = a - 1 /\ a - 1 \in Int /\ plan[a - 1] = "root"
      BY <2>2, <1>0 DEF Round, InSecondHalf, TypeOK, Plans
    <3> QED
      BY <2>1, <3>1, <1>0
  <2>3. CASE plan[a] = "card"
    BY <2>1, <2>3, <1>0 DEF Round, InSecondHalf, Release
  <2> QED
    BY <2>2, <2>3 DEF Kinds, Release
<1>9. Barrier!CallLen(Round(r)) = IF plan[Round(r)] = "card" THEN 1 ELSE 2
  BY DEF Barrier!CallLen
<1> DEFINE R == [q \in Ranks |-> Round(q)]
           I == [q \in Ranks |-> Inside(q)]
<1>10. R' = [R EXCEPT ![r] = @ + Barrier!CallLen(@)]
  BY <1>6, <1>8, <1>9
<1>11. I' = [I EXCEPT ![r] = FALSE]
  BY <1>6, <1>7 DEF Inside
<1>12. I[r] /\ \A q \in Ranks : R[q] > R[r] \/ (R[q] = R[r] /\ I[q])
  BY <1>3, <1>4
<1> QED
  BY <1>10, <1>11, <1>12, Zenon DEF Barrier!Leave, Round, Inside

\* A step inside a call that the abstract barrier does not see.
LEMMA HiddenStep ==
  ASSUME plan' = plan,
         \A q \in Ranks : Round(q)' = Round(q) /\ (Inside(q)' <=> Inside(q))
  PROVE  UNCHANGED Barrier!avars
<1>1. \A q \in Ranks : Inside(q) \in BOOLEAN /\ Inside(q)' \in BOOLEAN
  BY DEF Inside, InSecondHalf
<1>2. \A q \in Ranks : Inside(q)' = Inside(q)
  BY <1>1
<1> QED
  BY <1>2 DEF Barrier!avars, Round, Inside

LEMMA RefinementStep == IInv /\ [Next]_vars => [Barrier!Next]_(Barrier!avars)
<1> SUFFICES ASSUME IInv, [Next]_vars
             PROVE  (\E r \in Ranks : Barrier!Enter(r) \/ Barrier!Leave(r))
                      \/ UNCHANGED Barrier!avars
  BY DEF Barrier!Next
<1> USE DEF Phases
<1>0. /\ MaxCount \in Nat /\ TypeOK /\ 0 \in Ranks
      /\ at \in [Ranks -> 0 .. MaxCount] /\ step \in [Ranks -> Steps]
  BY MaxCountAssumption, RanksFinite DEF IInv, TypeOK
<1>1. ASSUME UNCHANGED <<plan, at, step>> PROVE UNCHANGED Barrier!avars
  BY <1>1, HiddenStep DEF Round, Inside, InSecondHalf
<1>2. ASSUME NEW r \in Ranks, AddFlag(r) PROVE Barrier!Enter(r)
  <2> DEFINE a == at[r]
  <2>0. /\ a \in Phases /\ plan[a] \in {"card", "root"}
        /\ step[r] = "add" /\ plan' = plan
    BY <1>2, AddSignals DEF AddFlag, At
  <2>1. \/ at' = at /\ step' = [step EXCEPT ![r] = "wait"]
        \/ /\ plan[a] = "root"
           /\ at' = [at EXCEPT ![r] = a + 1]
           /\ step' = [step EXCEPT ![r] = First(r, a + 1)]
    BY <1>2, <2>0 DEF AddFlag, Goto, NextPhase, Waits
  <2>2. plan[a] = "root" => a + 1 \in Phases /\ plan[a + 1] \in Release
    BY <2>0, <1>0 DEF TypeOK, Plans
  <2>3. Round(r) = a /\ ~Inside(r)
    BY <2>0 DEF Round, Inside, InSecondHalf, Release
  <2>4. Round(r)' = a /\ Inside(r)'
    BY <2>0, <2>1, <2>2, <1>0 DEF Round, Inside, InSecondHalf, Release
  <2>5. \A q \in Ranks : q # r => Round(q)' = Round(q) /\ Inside(q)' = Inside(q)
    BY <2>0, <2>1, <1>0 DEF Round, Inside, InSecondHalf
  <2>6. a < MaxCount
    BY <2>0, <1>0
  <2> QED
    BY <2>0, <2>3, <2>4, <2>5, <2>6 DEF Barrier!Enter, Round, Inside
<1>3. ASSUME NEW r \in Ranks, WaitFlag(r)
      PROVE  Barrier!Leave(r) \/ UNCHANGED Barrier!avars
  <2> DEFINE a == at[r]
  <2>0. /\ a \in Phases /\ Signalled(a) = Ranks /\ step[r] = "wait" /\ plan' = plan
        /\ at' = [at EXCEPT ![r] = @ + 1]
        /\ step' = [step EXCEPT ![r] = First(r, at[r] + 1)]
        /\ step[r] \in CommandsOf(r, a)
    BY <1>3, WaitSignals DEF WaitFlag, At, NextPhase, IInv, StepInv
  <2>1. CASE plan[a] = "root"
    <3>1. a + 1 \in Phases /\ plan[a + 1] \in Release
      BY <2>1, <2>0, <1>0 DEF TypeOK, Plans
    <3>2. Round(r)' = Round(r) /\ Inside(r)' /\ Inside(r)
      BY <3>1, <2>0, <2>1, <1>0 DEF Round, Inside, InSecondHalf, Release
    <3>3. \A q \in Ranks : q # r => Round(q)' = Round(q) /\ Inside(q)' = Inside(q)
      BY <2>0, <1>0 DEF Round, Inside, InSecondHalf
    <3> QED
      BY <2>0, <3>2, <3>3, HiddenStep
  <2>2. CASE plan[a] # "root"
    <3>1. plan[a] \in Kinds \ {"root"}
      BY <2>0, <2>2, <1>0 DEF TypeOK, Plans
    <3>2. ASSUME NEW q \in Ranks
          PROVE  at[q] > a \/ (at[q] = a /\ (step[q] = "wait" \/ InSecondHalf(q)))
      <4>1. CASE plan[a] = "card"
        <5>1. at[q] = a => step[q] \in {"add", "wait"}
          BY <4>1, <2>0 DEF IInv, StepInv, CommandsOf
        <5> QED
          BY <5>1, <4>1, <2>0 DEF Signalled, Release
      <4>2. CASE plan[a] \in Release
        <5>1. a - 1 \in Phases /\ plan[a - 1] = "root" /\ a - 1 < a
          BY <4>2, <2>0, <1>0 DEF TypeOK, Plans
        <5>2. Signalled(a - 1) = Ranks
          BY <5>1, <2>0, RanksFinite DEF IInv, Chain
        <5>3. q # 0 /\ at[q] = a - 1 => step[q] = "add"
          BY <5>1 DEF IInv, StepInv, CommandsOf
        <5>4. at[0] >= a
          BY <4>2, <2>0, <1>0, RanksFinite DEF Signalled
        <5>5. at[q] >= a
          BY <5>1, <5>2, <5>3, <5>4, <1>0 DEF Signalled, Release
        <5> QED
          BY <5>5, <4>2, <2>0, <1>0 DEF InSecondHalf
      <4> QED
        BY <3>1, <4>1, <4>2 DEF Kinds, Release
    <3> QED
      BY <2>0, <3>1, <3>2, LeaveStep
  <2> QED
    BY <2>1, <2>2
<1>4. ASSUME NEW r \in Ranks, StartKernel(r) PROVE UNCHANGED Barrier!avars
  <2>0. /\ r = 0 /\ at[0] \in Phases /\ plan[at[0]] \in Release
        /\ plan' = plan /\ at' = at
        /\ step' = step \/ step' = [step EXCEPT ![0] = "wait"]
    BY <1>4, StartSignals DEF StartKernel, Goto
  <2>1. \A q \in Ranks : Round(q)' = Round(q) /\ (Inside(q)' <=> Inside(q))
    BY <2>0, <1>0 DEF Round, Inside, InSecondHalf
  <2> QED
    BY <2>0, <2>1, HiddenStep
<1>5. ASSUME FinishKernel PROVE UNCHANGED Barrier!avars
  <2>0. /\ at[0] = kernel /\ kernel \in Phases /\ plan[kernel] \in Release
        /\ plan' = plan /\ at' = at
        /\ step' = step \/ step' = [step EXCEPT ![0] = "set"]
    BY <1>5, FinishSignals DEF FinishKernel, Goto, IInv, KernelInv
  <2>1. \A q \in Ranks : Round(q)' = Round(q) /\ (Inside(q)' <=> Inside(q))
    BY <2>0, <1>0 DEF Round, Inside, InSecondHalf
  <2> QED
    BY <2>0, <2>1, HiddenStep
<1>6. ASSUME NEW r \in Ranks, SetFlag(r) PROVE Barrier!Leave(r)
  <2>0. /\ r = 0 /\ at[r] \in Phases /\ plan[at[r]] = "other" /\ step[r] = "set"
        /\ plan' = plan /\ AllSignalled(at[0])
        /\ at' = [at EXCEPT ![r] = @ + 1]
        /\ step' = [step EXCEPT ![r] = First(r, at[r] + 1)]
    BY <1>6, SetSignals DEF SetFlag, At, NextPhase, AllSignalled
  <2> DEFINE a == at[0]
  <2>1. a - 1 \in Phases /\ plan[a - 1] = "root" /\ a - 1 < a
    BY <2>0, <1>0 DEF TypeOK, Plans, Release
  <2>2. Signalled(a - 1) = Ranks
    BY <2>0, <2>1, EarlierComplete
  <2>3. ASSUME NEW q \in Ranks
        PROVE  at[q] > a \/ (at[q] = a /\ (step[q] = "wait" \/ InSecondHalf(q)))
    <3>1. q # 0 /\ at[q] = a - 1 => step[q] = "add"
      BY <2>1 DEF IInv, StepInv, CommandsOf
    <3>2. at[q] >= a
      BY <2>1, <2>2, <3>1, <1>0 DEF Signalled, Release
    <3> QED
      BY <3>2, <2>0, <1>0 DEF InSecondHalf, Release
  <2>4. plan[at[r]] \in Kinds \ {"root"}
    BY <2>0 DEF Kinds
  <2> QED
    BY <2>0, <2>3, <2>4, LeaveStep
<1>7. ASSUME NEW r \in Ranks, Host(r) PROVE UNCHANGED Barrier!avars
  BY <1>1, <1>7 DEF Host, tcclDevSyncCard, tcclSmallSizeAllreduce
<1>8. ASSUME UNCHANGED vars PROVE UNCHANGED Barrier!avars
  BY <1>1, <1>8 DEF vars
<1> QED
  BY <1>2, <1>3, <1>4, <1>5, <1>6, <1>7, <1>8 DEF Next, Stream, Finished

LEMMA RefinementInit == Init => Barrier!Init
<1> SUFFICES ASSUME Init PROVE Barrier!Init
  OBVIOUS
<1>1. \A r \in Ranks : ~InSecondHalf(r) /\ at[r] = 0 /\ step[r] # "wait"
  BY DEF Init, InSecondHalf, Plans, Release
<1> QED
  BY <1>1 DEF Init, Barrier!Init

\* The flag protocol implements the abstract barrier: every call of the
\* ranks of a card is left only after all of them have announced themselves.
THEOREM CallsAreBarriers == Spec => ImplementsBarrier
<1>1. IInv /\ [Next]_vars => [Barrier!Next]_(Barrier!avars)
  BY RefinementStep
<1>2. Init => Barrier!Init
  BY RefinementInit
<1> QED
  BY <1>1, <1>2, InvariantHolds, PTL DEF Spec, ImplementsBarrier, Barrier!Spec
=============================================================================
