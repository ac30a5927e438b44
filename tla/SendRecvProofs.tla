--------------------------- MODULE SendRecvProofs ---------------------------
(***************************************************************************)
(* Proofs about SendRecv for every number of ranks, every placement on     *)
(* cards and all programs whose operations match.                          *)
(***************************************************************************)
EXTENDS SendRecv, FiniteSetTheorems, TLAPS

-----------------------------------------------------------------------------
(* Where in an operation each thing happens.  Seen from one of its peers   *)
(* an operation is a send, which waits until the peer is ready and tells   *)
(* it at the end, or a receipt, which announces itself and waits; an       *)
(* exchange may be both.                                                   *)

Length(r, o) ==
  CASE o.op = "exchange" -> 11
    [] o.op = "send" -> IF Direct(r, o.peer) THEN 3 ELSE 4
    [] OTHER -> 3

\* The wait, the transfer and the notify of a send.
ReadyStep(r, o) ==
  CASE o.op = "exchange" -> 3
    [] o.op = "send" -> IF Direct(r, o.peer) THEN 1 ELSE 2
    [] OTHER -> 0
TransferStep(r, o) == ReadyStep(r, o) + 1
TellStep(r, o) == ReadyStep(r, o) + 2

\* The notify, the wait and the take of a receipt.
AnnounceStep(r, o) == IF o.op = "recv" /\ Direct(r, o.peer) THEN 2 ELSE 1
ReceiveStep(r, o) == IF o.op = "exchange" THEN 6 ELSE AnnounceStep(r, o) + 1
TakeStep(r, o) == ReceiveStep(r, o) + 1

\* Of the operation a rank is in, the steps it has behind it.
One(b) == IF b THEN 1 ELSE 0
Notified(r, o, s, p) ==
  One(p \in Source(o) /\ s > AnnounceStep(r, o)) + One(p \in Target(o) /\ s > TellStep(r, o))
Waited(r, o, s, p) ==
  One(p \in Target(o) /\ s > ReadyStep(r, o)) + One(p \in Source(o) /\ s > ReceiveStep(r, o))

\* The notifies, and the waits, that r has executed for p in the operations
\* it has completed.
Rounds(r, k, p) == RoundsIn(prog, r, k, p)
Full(r, p) == Sends(r, at[r] - 1, p) + Receipts(r, at[r] - 1, p)
NotifiedNow(r, p) == IF Active(r) THEN Notified(r, Cur(r), step[r], p) ELSE 0
WaitedNow(r, p) == IF Active(r) THEN Waited(r, Cur(r), step[r], p) ELSE 0

-----------------------------------------------------------------------------
(* The inductive invariant.                                                *)

Messages == {Nothing} \cup (Ranks \X Nat)
TypeOK ==
  /\ prog \in Programs
  /\ at \in [Ranks -> Nat \ {0}]
  /\ step \in [Ranks -> Nat \ {0}]
  /\ \A r \in Ranks : Active(r) => step[r] <= Length(r, Cur(r))
  /\ \A r \in Ranks : at[r] <= Len(prog[r]) + 1
  /\ sendcntall \in [Ranks -> [Ranks -> Nat]]
  /\ recvcntall \in [Ranks -> [Ranks -> Nat]]
  /\ flag \in [Ranks -> [Ranks -> [Slots -> Nat]]]
  /\ inBuff \in [Ranks -> Messages]
  /\ outBuff \in [Ranks -> Messages]
  /\ recvList \in [Ranks -> Nat]
  /\ recvbuf = [r \in Ranks |-> recvbuf[r]]
  /\ \A r \in Ranks : recvbuf[r] \in [1 .. Len(prog[r]) -> Messages]

\* The counters say how far a rank is.
CountInv ==
  \A r, p \in Ranks :
    /\ sendcntall[r][p] = Full(r, p) + NotifiedNow(r, p)
    /\ recvcntall[r][p] = Full(r, p) + WaitedNow(r, p)

\* The flags hold the latest notify of each slot,
FlagInv ==
  \A r, p \in Ranks : \A s \in Slots :
    LET n == sendcntall[r][p] IN
    flag[p][r][s] = IF n % SYNC_NUM = s THEN n ELSE IF n = 0 THEN 0 ELSE n - 1

\* and nobody has waited for more than there has been.
WaitInv ==
  \A r, p \in Ranks : recvcntall[r][p] <= sendcntall[p][r]

\* Two ranks are never more than one operation apart, and if one is ahead the
\* other is in the operation that matches the one it has completed.
Done(r, p) == Rounds(r, at[r] - 1, p)
Ahead(r, p) ==
  /\ Active(p) /\ r \in Partners(Cur(p))
  /\ Sends(r, at[r] - 1, p) = Receipts(p, at[p], r)
  /\ Receipts(r, at[r] - 1, p) = Sends(p, at[p], r)
Paired(r, p) ==
  /\ Done(r, p) <= Done(p, r) + 1
  /\ Done(r, p) = Done(p, r) =>
       Sends(r, at[r] - 1, p) = Receipts(p, at[p] - 1, r)
  /\ Done(r, p) = Done(p, r) + 1 => Ahead(r, p)
PairInv == \A r, p \in Ranks : Paired(r, p)

\* What a rank has received it has received in one of its operations.
LastInv ==
  \A r, p \in Ranks : Receipts(r, at[r] - 1, p) # 0 =>
    \E l \in 1 .. at[r] - 1 :
      p \in Source(prog[r][l]) /\ Receipts(r, l, p) = Receipts(r, at[r] - 1, p)

\* A completed send has a receiver that has announced itself.
RendezvousInv ==
  \A r \in Ranks : \A k \in 1 .. at[r] - 1 : \A p \in Target(prog[r][k]) :
    \E l \in 1 .. Len(prog[p]) :
      /\ r \in Source(prog[p][l]) /\ Receipts(p, l, r) = Sends(r, k, p)
      /\ l < at[p] \/ (l = at[p] /\ step[p] > AnnounceStep(p, prog[p][l]))

\* The buffer of a sender, from the copy to the transfer.
Crossing(r) == Cur(r).op # "recv" /\ ~(Cur(r).op = "send" /\ Direct(r, Cur(r).peer))
InBuffInv ==
  \A r \in Ranks :
    /\ Active(r) /\ Crossing(r)
    /\ ReadyStep(r, Cur(r)) <= step[r] /\ step[r] <= TransferStep(r, Cur(r))
    => inBuff[r] = Message(r, Sends(r, at[r], Cur(r).peer))

\* The address a receiver of the same card has published,
DirectReceipt(p) == Cur(p).op = "recv" /\ Direct(p, Cur(p).peer)
ListInv ==
  \A p \in Ranks : Active(p) /\ DirectReceipt(p) /\ step[p] > 1 => recvList[p] = at[p]

\* and what it has once the sender of its current receipt has transferred.
Transferred(r, p) ==
  Sends(r, at[r] - 1, p)
    + One(Active(r) /\ p \in Target(Cur(r)) /\ step[r] > TransferStep(r, Cur(r)))
Arrived(p, r) ==
  IF DirectReceipt(p) \/ step[p] > TakeStep(p, Cur(p))
  THEN recvbuf[p][at[p]] = Message(r, Receipts(p, at[p], r))
  ELSE outBuff[p] = Message(r, Receipts(p, at[p], r))
ArrivedInv ==
  \A p \in Ranks : Active(p) => \A r \in Source(Cur(p)) :
    Transferred(r, p) >= Receipts(p, at[p], r) => Arrived(p, r)

CountersInv == TypeOK /\ CountInv /\ FlagInv /\ WaitInv
RoundsInv == CountersInv /\ PairInv /\ LastInv /\ RendezvousInv
IInv == RoundsInv /\ InBuffInv /\ ListInv /\ ArrivedInv /\ Delivered

-----------------------------------------------------------------------------
(* Operations and their commands.                                          *)

LEMMA ScriptLength ==
  ASSUME NEW r \in Ranks, NEW o \in Ops
  PROVE  Len(Script(r, o)) = Length(r, o)
<1>1. o.op \in {"send", "recv", "exchange"}
  BY DEF Ops
<1> QED
  BY <1>1 DEF Script, SendScript, RecvScript, AlltoallScript, Length

\* Which command is at which step.
LEMMA StepTable ==
  ASSUME NEW r \in Ranks, NEW o \in Ops, NEW s \in 1 .. Len(Script(r, o))
  PROVE  /\ Len(Script(r, o)) = Length(r, o)
         /\ Script(r, o)[s] = "copy" <=>
              /\ o.op # "recv" /\ ~(o.op = "send" /\ Direct(r, o.peer))
              /\ s = ReadyStep(r, o) - 1
         /\ Script(r, o)[s] = "publish" <=> o.op = "recv" /\ Direct(r, o.peer) /\ s = 1
         /\ Script(r, o)[s] = "ready" <=> o.op = "exchange" /\ s = AnnounceStep(r, o)
         /\ Script(r, o)[s] = "wait" <=>
              s = IF o.op = "recv" THEN ReceiveStep(r, o) ELSE ReadyStep(r, o)
         /\ Script(r, o)[s] = "transfer" <=> o.op # "recv" /\ s = TransferStep(r, o)
         /\ Script(r, o)[s] = "notify" <=>
              s = IF o.op = "recv" THEN AnnounceStep(r, o) ELSE TellStep(r, o)
         /\ Script(r, o)[s] = "await" <=> o.op = "exchange" /\ s = ReceiveStep(r, o)
         /\ Script(r, o)[s] = "take" <=>
              /\ o.op # "send" /\ ~(o.op = "recv" /\ Direct(r, o.peer))
              /\ s = TakeStep(r, o)
<1> USE DEF Length, ReadyStep, TransferStep, TellStep, AnnounceStep, ReceiveStep, TakeStep
<1>1. o.op \in {"send", "recv", "exchange"}
  BY DEF Ops
<1>2. CASE o.op = "send"
  BY <1>2 DEF Script, SendScript
<1>3. CASE o.op = "recv"
  BY <1>3 DEF Script, RecvScript
<1>4. CASE o.op = "exchange"
  BY <1>4 DEF Script, AlltoallScript
<1> QED
  BY <1>1, <1>2, <1>3, <1>4

\* The order of the steps.
LEMMA StepOrder ==
  ASSUME NEW r \in Ranks, NEW o \in Ops
  PROVE  /\ Length(r, o) \in Nat \ {0}
         /\ ReadyStep(r, o) \in Nat /\ TransferStep(r, o) = ReadyStep(r, o) + 1
         /\ TellStep(r, o) = ReadyStep(r, o) + 2
         /\ AnnounceStep(r, o) \in Nat \ {0}
         /\ ReceiveStep(r, o) \in Nat /\ AnnounceStep(r, o) < ReceiveStep(r, o)
         /\ TakeStep(r, o) = ReceiveStep(r, o) + 1
         /\ o.op # "recv" => ReadyStep(r, o) \in 1 .. Length(r, o) /\ TellStep(r, o) <= Length(r, o)
         /\ o.op # "send" => ReceiveStep(r, o) <= Length(r, o)
         /\ o.op = "exchange" =>
              /\ AnnounceStep(r, o) < ReadyStep(r, o) /\ TellStep(r, o) < ReceiveStep(r, o)
              /\ TakeStep(r, o) < Length(r, o)
         /\ o.op = "recv" =>
              TakeStep(r, o) = Length(r, o) + (IF Direct(r, o.peer) THEN 1 ELSE 0)
         /\ o.op = "send" => TellStep(r, o) = Length(r, o)
<1> USE DEF Length, ReadyStep, TransferStep, TellStep, AnnounceStep, ReceiveStep, TakeStep
<1>1. o.op \in {"send", "recv", "exchange"}
  BY DEF Ops
<1> QED
  BY <1>1

LEMMA StepNats ==
  ASSUME NEW r \in Ranks, NEW o \in Ops
  PROVE  /\ ReadyStep(r, o) \in Nat /\ TransferStep(r, o) \in Nat /\ TellStep(r, o) \in Nat
         /\ AnnounceStep(r, o) \in Nat /\ ReceiveStep(r, o) \in Nat /\ TakeStep(r, o) \in Nat
         /\ Length(r, o) \in Nat
         /\ ReadyStep(r, o) < TransferStep(r, o) /\ TransferStep(r, o) < TellStep(r, o)
         /\ AnnounceStep(r, o) >= 1 /\ AnnounceStep(r, o) < ReceiveStep(r, o)
         /\ TakeStep(r, o) = ReceiveStep(r, o) + 1
         /\ o.op # "recv" => TellStep(r, o) <= Length(r, o)
         /\ o.op = "exchange" => ReadyStep(r, o) < ReceiveStep(r, o)
<1>1. /\ ReadyStep(r, o) \in Nat /\ TransferStep(r, o) = ReadyStep(r, o) + 1
      /\ TellStep(r, o) = ReadyStep(r, o) + 2 /\ AnnounceStep(r, o) \in Nat \ {0}
      /\ ReceiveStep(r, o) \in Nat /\ AnnounceStep(r, o) < ReceiveStep(r, o)
      /\ TakeStep(r, o) = ReceiveStep(r, o) + 1 /\ Length(r, o) \in Nat
  BY StepOrder
<1>2. o.op # "recv" => TellStep(r, o) <= Length(r, o)
  BY StepOrder
<1>3. o.op = "exchange" => TellStep(r, o) < ReceiveStep(r, o)
  BY StepOrder
<1> QED
  BY <1>1, <1>2, <1>3

LEMMA PartnerKinds ==
  ASSUME NEW o \in Ops
  PROVE  /\ o.op \in {"send", "recv", "exchange"} /\ o.peer \in Ranks
         /\ o.op = "exchange" => o.from \in Ranks
         /\ Target(o) = IF o.op = "recv" THEN {} ELSE {o.peer}
         /\ Source(o) = IF o.op = "send" THEN {} ELSE IF o.op = "recv" THEN {o.peer} ELSE {o.from}
         /\ Partners(o) = Target(o) \cup Source(o)
         /\ Target(o) \subseteq Ranks /\ Source(o) \subseteq Ranks
BY DEF Ops, Target, Source, Partners

-----------------------------------------------------------------------------
(* Counting operations.                                                    *)

LEMMA CountOne ==
  ASSUME NEW S, NEW k \in Nat
  PROVE  /\ Cardinality({j \in 1 .. k : j \in S}) \in Nat
         /\ Cardinality({j \in 1 .. k + 1 : j \in S})
              = Cardinality({j \in 1 .. k : j \in S}) + One(k + 1 \in S)
<1> DEFINE before == {j \in 1 .. k : j \in S}
           now == {j \in 1 .. k + 1 : j \in S}
<1>1. IsFiniteSet(1 .. k)
  BY FS_Interval
<1>2. IsFiniteSet(before) /\ Cardinality(before) \in Nat
  BY <1>1, FS_Subset, FS_CardinalityType
<1>3. CASE k + 1 \in S
  <2>1. now = before \cup {k + 1} /\ k + 1 \notin before
    BY <1>3
  <2> QED
    BY <1>2, <1>3, <2>1, FS_AddElement DEF One
<1>4. CASE k + 1 \notin S
  <2>1. now = before
    BY <1>4
  <2> QED
    BY <1>2, <1>4, <2>1 DEF One
<1> QED
  BY <1>3, <1>4

LEMMA CountZero == \A S : Cardinality({j \in 1 .. 0 : j \in S}) = 0
<1>1. \A S : {j \in 1 .. 0 : j \in S} = {}
  OBVIOUS
<1> QED
  BY <1>1, FS_EmptySet

\* An operation counts once for each of its peers.
LEMMA Counts ==
  ASSUME NEW r \in Ranks, NEW p \in Ranks
  PROVE  /\ Sends(r, 0, p) = 0 /\ Receipts(r, 0, p) = 0 /\ Rounds(r, 0, p) = 0
         /\ \A k \in Nat :
              /\ Sends(r, k, p) \in Nat /\ Receipts(r, k, p) \in Nat /\ Rounds(r, k, p) \in Nat
              /\ Sends(r, k + 1, p) = Sends(r, k, p) + One(p \in Target(prog[r][k + 1]))
              /\ Receipts(r, k + 1, p) = Receipts(r, k, p) + One(p \in Source(prog[r][k + 1]))
              /\ Rounds(r, k + 1, p) = Rounds(r, k, p) + One(p \in Partners(prog[r][k + 1]))
<1> DEFINE T == {j \in Nat : p \in Target(prog[r][j])}
           S == {j \in Nat : p \in Source(prog[r][j])}
           P == {j \in Nat : p \in Partners(prog[r][j])}
<1>1. \A k \in Nat : Sends(r, k, p) = Cardinality({j \in 1 .. k : j \in T})
  <2> SUFFICES ASSUME NEW k \in Nat PROVE Sends(r, k, p) = Cardinality({j \in 1 .. k : j \in T})
    OBVIOUS
  <2>1. {j \in 1 .. k : j \in T} = {j \in 1 .. k : p \in Target(prog[r][j])}
    OBVIOUS
  <2> QED
    BY <2>1 DEF Sends, SendsIn
<1>2. \A k \in Nat : Receipts(r, k, p) = Cardinality({j \in 1 .. k : j \in S})
  <2> SUFFICES ASSUME NEW k \in Nat PROVE Receipts(r, k, p) = Cardinality({j \in 1 .. k : j \in S})
    OBVIOUS
  <2>1. {j \in 1 .. k : j \in S} = {j \in 1 .. k : p \in Source(prog[r][j])}
    OBVIOUS
  <2> QED
    BY <2>1 DEF Receipts, ReceiptsIn
<1>3. \A k \in Nat : Rounds(r, k, p) = Cardinality({j \in 1 .. k : j \in P})
  <2> SUFFICES ASSUME NEW k \in Nat PROVE Rounds(r, k, p) = Cardinality({j \in 1 .. k : j \in P})
    OBVIOUS
  <2>1. {j \in 1 .. k : j \in P} = {j \in 1 .. k : p \in Partners(prog[r][j])}
    OBVIOUS
  <2> QED
    BY <2>1 DEF Rounds, RoundsIn
<1>4. \A k \in Nat : /\ (k + 1 \in T <=> p \in Target(prog[r][k + 1]))
                     /\ (k + 1 \in S <=> p \in Source(prog[r][k + 1]))
                     /\ (k + 1 \in P <=> p \in Partners(prog[r][k + 1]))
  OBVIOUS
<1> HIDE DEF T, S, P
<1>5. Sends(r, 0, p) = 0 /\ Receipts(r, 0, p) = 0 /\ Rounds(r, 0, p) = 0
  BY <1>1, <1>2, <1>3, CountZero
<1>6. ASSUME NEW k \in Nat
      PROVE  /\ Sends(r, k, p) \in Nat /\ Receipts(r, k, p) \in Nat /\ Rounds(r, k, p) \in Nat
             /\ Sends(r, k + 1, p) = Sends(r, k, p) + One(p \in Target(prog[r][k + 1]))
             /\ Receipts(r, k + 1, p) = Receipts(r, k, p) + One(p \in Source(prog[r][k + 1]))
             /\ Rounds(r, k + 1, p) = Rounds(r, k, p) + One(p \in Partners(prog[r][k + 1]))
  <2>0. k + 1 \in Nat
    OBVIOUS
  <2>1. Sends(r, k, p) \in Nat /\ Sends(r, k + 1, p) = Sends(r, k, p) + One(k + 1 \in T)
    BY <1>1, <2>0, CountOne
  <2>2. Receipts(r, k, p) \in Nat /\ Receipts(r, k + 1, p) = Receipts(r, k, p) + One(k + 1 \in S)
    BY <1>2, <2>0, CountOne
  <2>3. Rounds(r, k, p) \in Nat /\ Rounds(r, k + 1, p) = Rounds(r, k, p) + One(k + 1 \in P)
    BY <1>3, <2>0, CountOne
  <2> QED
    BY <1>4, <2>1, <2>2, <2>3
<1> QED
  BY <1>5, <1>6

-----------------------------------------------------------------------------
(* The steps of a stream.                                                  *)

LEMMA OneValue == \A b \in BOOLEAN : One(b) \in {0, 1} /\ (One(b) = 1 <=> b)
BY DEF One

\* What a stream has notified and waited for changes at the commands that do
\* so, is nothing at the start of an operation and everything at its end.
LEMMA StepEffect ==
  ASSUME NEW r \in Ranks, NEW o \in Ops, NEW p \in Ranks, NEW s \in 1 .. Length(r, o)
  PROVE  LET c == Script(r, o)[s] IN
         /\ Notified(r, o, s, p) \in Nat /\ Waited(r, o, s, p) \in Nat
         /\ Notified(r, o, s, p) <= Waited(r, o, s, p) + 1
         /\ Waited(r, o, s, p) <= Notified(r, o, s, p) + 1
         /\ Notified(r, o, s + 1, p) = Notified(r, o, s, p)
              + One((c = "notify" /\ p = o.peer) \/ (c = "ready" /\ p = o.from))
         /\ Waited(r, o, s + 1, p) = Waited(r, o, s, p)
              + One((c = "wait" /\ p = o.peer) \/ (c = "await" /\ p = o.from))
<1> DEFINE c == Script(r, o)[s]
<1>1. o.op \in {"send", "recv", "exchange"}
  BY PartnerKinds
<1>2. s \in 1 .. Len(Script(r, o)) /\ Length(r, o) \in Nat
  BY ScriptLength, StepOrder
<1>3. CASE o.op = "send"
  <2>1. Target(o) = {o.peer} /\ Source(o) = {}
    BY <1>3, PartnerKinds
  <2>2. /\ (c = "notify" <=> s = TellStep(r, o)) /\ (c = "wait" <=> s = ReadyStep(r, o))
        /\ c # "ready" /\ c # "await"
    BY <1>2, <1>3, StepTable
  <2>3. TellStep(r, o) \in Nat /\ ReadyStep(r, o) \in Nat /\ TellStep(r, o) = ReadyStep(r, o) + 2
    BY StepOrder
  <2>4. /\ Notified(r, o, s, p) = One(p = o.peer /\ s > TellStep(r, o))
        /\ Notified(r, o, s + 1, p) = One(p = o.peer /\ s + 1 > TellStep(r, o))
        /\ Waited(r, o, s, p) = One(p = o.peer /\ s > ReadyStep(r, o))
        /\ Waited(r, o, s + 1, p) = One(p = o.peer /\ s + 1 > ReadyStep(r, o))
    BY <2>1 DEF Notified, Waited, One
  <2> HIDE DEF c
  <2> QED
    BY <1>2, <2>2, <2>3, <2>4 DEF One, c
<1>4. CASE o.op = "recv"
  <2>1. Target(o) = {} /\ Source(o) = {o.peer}
    BY <1>4, PartnerKinds
  <2>2. /\ (c = "notify" <=> s = AnnounceStep(r, o)) /\ (c = "wait" <=> s = ReceiveStep(r, o))
        /\ c # "ready" /\ c # "await"
    BY <1>2, <1>4, StepTable
  <2>3. /\ AnnounceStep(r, o) \in Nat /\ ReceiveStep(r, o) \in Nat
        /\ AnnounceStep(r, o) < ReceiveStep(r, o)
    BY StepOrder
  <2>4. /\ Notified(r, o, s, p) = One(p = o.peer /\ s > AnnounceStep(r, o))
        /\ Notified(r, o, s + 1, p) = One(p = o.peer /\ s + 1 > AnnounceStep(r, o))
        /\ Waited(r, o, s, p) = One(p = o.peer /\ s > ReceiveStep(r, o))
        /\ Waited(r, o, s + 1, p) = One(p = o.peer /\ s + 1 > ReceiveStep(r, o))
    BY <2>1 DEF Notified, Waited, One
  <2> HIDE DEF c
  <2> QED
    BY <1>2, <2>2, <2>3, <2>4 DEF One, c
<1>5. CASE o.op = "exchange"
  <2>1. Target(o) = {o.peer} /\ Source(o) = {o.from}
    BY <1>5, PartnerKinds
  <2>2. /\ (c = "notify" <=> s = TellStep(r, o)) /\ (c = "wait" <=> s = ReadyStep(r, o))
        /\ (c = "ready" <=> s = AnnounceStep(r, o)) /\ (c = "await" <=> s = ReceiveStep(r, o))
    BY <1>2, <1>5, StepTable
  <2>3. AnnounceStep(r, o) = 1 /\ ReadyStep(r, o) = 3 /\ TellStep(r, o) = 5 /\ ReceiveStep(r, o) = 6
    BY <1>5 DEF AnnounceStep, ReadyStep, TellStep, ReceiveStep
  <2>4. c = "notify" => c # "ready"
    OBVIOUS
  <2>5. c = "wait" => c # "await"
    OBVIOUS
  <2> HIDE DEF c
  <2>6. /\ Notified(r, o, s, p) = One(p = o.from /\ s > 1) + One(p = o.peer /\ s > 5)
        /\ Notified(r, o, s + 1, p) = One(p = o.from /\ s + 1 > 1) + One(p = o.peer /\ s + 1 > 5)
        /\ Waited(r, o, s, p) = One(p = o.peer /\ s > 3) + One(p = o.from /\ s > 6)
        /\ Waited(r, o, s + 1, p) = One(p = o.peer /\ s + 1 > 3) + One(p = o.from /\ s + 1 > 6)
    BY <2>1, <2>3 DEF Notified, Waited
  <2> QED
    BY <1>2, <2>2, <2>3, <2>4, <2>5, <2>6 DEF One, c
<1> QED
  BY <1>1, <1>3, <1>4, <1>5

LEMMA StepEnds ==
  ASSUME NEW r \in Ranks, NEW o \in Ops, NEW p \in Ranks
  PROVE  /\ Notified(r, o, 1, p) = 0 /\ Waited(r, o, 1, p) = 0
         /\ Notified(r, o, Length(r, o) + 1, p) = One(p \in Target(o)) + One(p \in Source(o))
         /\ Waited(r, o, Length(r, o) + 1, p) = One(p \in Target(o)) + One(p \in Source(o))
<1>1. /\ Length(r, o) \in Nat \ {0} /\ AnnounceStep(r, o) \in Nat \ {0} /\ ReadyStep(r, o) \in Nat
      /\ ReceiveStep(r, o) \in Nat /\ TellStep(r, o) = ReadyStep(r, o) + 2
      /\ AnnounceStep(r, o) < ReceiveStep(r, o)
  BY StepOrder
<1>2. p \in Target(o) => ReadyStep(r, o) >= 1 /\ TellStep(r, o) <= Length(r, o)
  BY StepOrder, PartnerKinds
<1>3. p \in Source(o) => ReceiveStep(r, o) <= Length(r, o)
  BY StepOrder, PartnerKinds
<1> QED
  BY <1>1, <1>2, <1>3 DEF Notified, Waited, One

LEMMA Programmed ==
  ASSUME TypeOK, NEW r \in Ranks
  PROVE  /\ prog[r] \in Seq(Ops) /\ Len(prog[r]) \in Nat
         /\ \A k \in 1 .. Len(prog[r]) : prog[r][k] \in Ops /\ prog[r][k].peer # r
BY ProgramsAssumption DEF TypeOK

LEMMA Past ==
  ASSUME TypeOK, NEW r \in Ranks, NEW k \in 1 .. at[r] - 1
  PROVE  k \in 1 .. Len(prog[r]) /\ k < at[r]
<1>1. at[r] \in Nat /\ Len(prog[r]) \in Nat /\ at[r] <= Len(prog[r]) + 1
  BY Programmed DEF TypeOK
<1> QED
  BY <1>1

\* What the completed operations, and the current one, of a rank count.
LEMMA Counted ==
  ASSUME TypeOK, NEW r \in Ranks, NEW p \in Ranks
  PROVE  /\ at[r] - 1 \in Nat /\ at[r] \in Nat
         /\ Sends(r, at[r] - 1, p) \in Nat /\ Receipts(r, at[r] - 1, p) \in Nat
         /\ Rounds(r, at[r] - 1, p) \in Nat /\ Full(r, p) \in Nat
         /\ Sends(r, at[r], p) = Sends(r, at[r] - 1, p) + One(p \in Target(Cur(r)))
         /\ Receipts(r, at[r], p) = Receipts(r, at[r] - 1, p) + One(p \in Source(Cur(r)))
         /\ Rounds(r, at[r], p) = Rounds(r, at[r] - 1, p) + One(p \in Partners(Cur(r)))
<1> DEFINE k == at[r] - 1
<1>1. at[r] \in Nat \ {0}
  BY DEF TypeOK
<1>2. k \in Nat /\ k + 1 = at[r]
  BY <1>1
<1> HIDE DEF k
<1>3. /\ Sends(r, k, p) \in Nat /\ Receipts(r, k, p) \in Nat /\ Rounds(r, k, p) \in Nat
      /\ Sends(r, k + 1, p) = Sends(r, k, p) + One(p \in Target(prog[r][k + 1]))
      /\ Receipts(r, k + 1, p) = Receipts(r, k, p) + One(p \in Source(prog[r][k + 1]))
      /\ Rounds(r, k + 1, p) = Rounds(r, k, p) + One(p \in Partners(prog[r][k + 1]))
  BY <1>2, Counts
<1>4. prog[r][k + 1] = Cur(r)
  BY <1>2 DEF Cur
<1>5. Full(r, p) = Sends(r, k, p) + Receipts(r, k, p)
  BY DEF Full, k
<1> QED
  BY <1>1, <1>2, <1>3, <1>4, <1>5 DEF k

LEMMA Current ==
  ASSUME TypeOK, NEW r \in Ranks, Active(r)
  PROVE  /\ at[r] \in 1 .. Len(prog[r]) /\ Cur(r) \in Ops /\ Cur(r) = prog[r][at[r]]
         /\ Cur(r).peer \in Ranks /\ Cur(r).peer # r
         /\ step[r] \in 1 .. Length(r, Cur(r)) /\ Len(Script(r, Cur(r))) = Length(r, Cur(r))
<1>1. at[r] \in 1 .. Len(prog[r])
  BY Programmed DEF TypeOK, Active
<1>2. Cur(r) \in Ops /\ Cur(r).peer # r
  BY <1>1, Programmed DEF Cur
<1>3. Length(r, Cur(r)) \in Nat \ {0} /\ step[r] \in 1 .. Length(r, Cur(r))
  BY <1>2, StepOrder DEF TypeOK
<1>4. Len(Script(r, Cur(r))) = Length(r, Cur(r))
  BY <1>2, ScriptLength
<1> QED
  BY <1>1, <1>2, <1>3, <1>4, PartnerKinds DEF Cur

\* Every command moves its stream on, and no other.
LEMMA Steps ==
  ASSUME NEW r \in Ranks, Stream(r)
  PROVE  Active(r) /\ Advance(r)
BY DEF Stream, CopyIn, Publish, NotifyPeer, WaitPeer, NotifySource, WaitSource, Transfer, Take,
       Signal, PassBarrier, TellNext, WaitTold, At, tcclSendRecvNotify, tcclSendRecvWait

LEMMA Moved ==
  ASSUME TypeOK, NEW r \in Ranks, Active(r), Advance(r)
  PROVE  /\ prog' = prog
         /\ \A q \in Ranks \ {r} : at'[q] = at[q] /\ step'[q] = step[q]
         /\ \/ /\ step[r] < Length(r, Cur(r))
               /\ at'[r] = at[r] /\ step'[r] = step[r] + 1
            \/ /\ step[r] = Length(r, Cur(r))
               /\ at'[r] = at[r] + 1 /\ step'[r] = 1
         /\ at' \in [Ranks -> Nat \ {0}] /\ step' \in [Ranks -> Nat \ {0}]
         /\ \A q \in Ranks : Active(q)' => step'[q] <= Length(q, Cur(q)')
         /\ \A q \in Ranks : at'[q] <= Len(prog[q]) + 1
<1>1. prog' = prog
  BY DEF Advance
<1>2. step[r] \in 1 .. Length(r, Cur(r)) /\ Len(Script(r, Cur(r))) = Length(r, Cur(r))
  BY Current
<1>3. Length(r, Cur(r)) \in Nat
  BY Current, StepOrder
<1>4. CASE step[r] < Length(r, Cur(r))
  <2>1. at' = at /\ step' = [step EXCEPT ![r] = @ + 1]
    BY <1>2, <1>4 DEF Advance
  <2>2. \A q \in Ranks : Active(q)' => step'[q] <= Length(q, Cur(q)')
    <3>1. \A q \in Ranks : (Active(q)' <=> Active(q)) /\ Cur(q)' = Cur(q)
      BY <1>1, <2>1 DEF Active, Cur
    <3>2. \A q \in Ranks : Active(q) => step[q] <= Length(q, Cur(q))
      BY DEF TypeOK
    <3>3. \A q \in Ranks : step'[q] = IF q = r THEN step[r] + 1 ELSE step[q]
      BY <2>1 DEF TypeOK
    <3> QED
      BY <1>2, <1>3, <1>4, <3>1, <3>2, <3>3
  <2> QED
    BY <1>1, <1>2, <1>4, <2>1, <2>2 DEF TypeOK
<1>5. CASE step[r] = Length(r, Cur(r))
  <2>1. at' = [at EXCEPT ![r] = @ + 1] /\ step' = [step EXCEPT ![r] = 1]
    BY <1>2, <1>3, <1>5 DEF Advance
  <2>2. \A q \in Ranks \ {r} : (Active(q)' <=> Active(q)) /\ Cur(q)' = Cur(q)
    BY <1>1, <2>1 DEF TypeOK, Active, Cur
  <2>3. Active(r)' => step'[r] <= Length(r, Cur(r)')
    <3> SUFFICES ASSUME Active(r)' PROVE step'[r] <= Length(r, Cur(r)')
      OBVIOUS
    <3>1. at'[r] \in 1 .. Len(prog[r]) /\ Cur(r)' = prog[r][at'[r]]
      BY <1>1, <2>1, Programmed DEF TypeOK, Active, Cur
    <3>2. Cur(r)' \in Ops
      BY <3>1, Programmed
    <3>3. Length(r, Cur(r)') \in Nat \ {0}
      BY <3>2, StepOrder
    <3> QED
      BY <2>1, <3>3 DEF TypeOK
  <2>4. \A q \in Ranks : at'[q] <= Len(prog[q]) + 1
    <3>1. at[r] \in 1 .. Len(prog[r]) /\ Len(prog[r]) \in Nat
      BY Current, Programmed
    <3>2. at'[r] = at[r] + 1 /\ \A q \in Ranks \ {r} : at'[q] = at[q]
      BY <2>1 DEF TypeOK
    <3>3. \A q \in Ranks : at[q] <= Len(prog[q]) + 1
      BY DEF TypeOK
    <3>4. at'[r] <= Len(prog[r]) + 1
      BY <3>1, <3>2
    <3> QED
      BY <3>2, <3>3, <3>4
  <2> QED
    BY <1>1, <1>5, <2>1, <2>2, <2>3, <2>4 DEF TypeOK
<1> QED
  BY <1>2, <1>3, <1>4, <1>5

\* The progress of a stream, counted in notifies and waits.
LEMMA Progressed ==
  ASSUME TypeOK, NEW r \in Ranks, Active(r), Advance(r), NEW q \in Ranks, NEW p \in Ranks
  PROVE  /\ (Full(q, p) + NotifiedNow(q, p))' =
              IF q = r THEN Full(r, p) + Notified(r, Cur(r), step[r] + 1, p)
              ELSE Full(q, p) + NotifiedNow(q, p)
         /\ (Full(q, p) + WaitedNow(q, p))' =
              IF q = r THEN Full(r, p) + Waited(r, Cur(r), step[r] + 1, p)
              ELSE Full(q, p) + WaitedNow(q, p)
<1>1. prog' = prog
  BY Moved
<1>2. CASE q # r
  <2>1. at'[q] = at[q] /\ step'[q] = step[q]
    BY <1>2, Moved
  <2> QED
    BY <1>1, <1>2, <2>1 DEF Full, NotifiedNow, WaitedNow, Sends, Receipts, Active, Cur
<1>3. CASE q = r /\ step[r] < Length(r, Cur(r))
  <2>1. at'[r] = at[r] /\ step'[r] = step[r] + 1
    BY <1>3, Moved, Current
  <2> QED
    BY <1>1, <1>3, <2>1 DEF Full, NotifiedNow, WaitedNow, Sends, Receipts, Active, Cur
<1>4. CASE q = r /\ step[r] = Length(r, Cur(r))
  <2>1. at'[r] = at[r] + 1 /\ step'[r] = 1
    BY <1>4, Moved, Current
  <2>2. at[r] \in 1 .. Len(prog[r]) /\ Cur(r) \in Ops /\ Cur(r) = prog[r][at[r]]
    BY Current
  <2>3. /\ Sends(r, at[r] - 1, p) \in Nat /\ Receipts(r, at[r] - 1, p) \in Nat
        /\ Sends(r, at[r], p) = Sends(r, at[r] - 1, p) + One(p \in Target(Cur(r)))
        /\ Receipts(r, at[r], p) = Receipts(r, at[r] - 1, p) + One(p \in Source(Cur(r)))
    BY <2>2, Counted
  <2>4. Full(r, p)' = Sends(r, at[r], p) + Receipts(r, at[r], p)
    <3>1. at'[r] - 1 = at[r]
      BY <2>1, <2>2
    <3> QED
      BY <1>1, <3>1 DEF Full, Sends, Receipts
  <2>5. NotifiedNow(r, p)' = 0 /\ WaitedNow(r, p)' = 0
    <3>1. CASE ~Active(r)'
      BY <3>1 DEF NotifiedNow, WaitedNow
    <3>2. CASE Active(r)'
      <4>1. at'[r] \in 1 .. Len(prog[r]) /\ Cur(r)' = prog[r][at'[r]]
        BY <1>1, <2>1, <2>2, <3>2, Programmed DEF Active, Cur
      <4>2. Cur(r)' \in Ops
        BY <4>1, Programmed
      <4>3. Notified(r, Cur(r)', 1, p) = 0 /\ Waited(r, Cur(r)', 1, p) = 0
        BY <4>2, StepEnds
      <4> QED
        BY <2>1, <3>2, <4>3 DEF NotifiedNow, WaitedNow
    <3> QED
      BY <3>1, <3>2
  <2>6. /\ Notified(r, Cur(r), step[r] + 1, p) = One(p \in Target(Cur(r))) + One(p \in Source(Cur(r)))
        /\ Waited(r, Cur(r), step[r] + 1, p) = One(p \in Target(Cur(r))) + One(p \in Source(Cur(r)))
    BY <1>4, <2>2, StepEnds
  <2>7. One(p \in Target(Cur(r))) \in Nat /\ One(p \in Source(Cur(r))) \in Nat
    BY DEF One
  <2> QED
    BY <1>4, <2>3, <2>4, <2>5, <2>6, <2>7 DEF Full
<1> QED
  BY <1>2, <1>3, <1>4, Moved

-----------------------------------------------------------------------------
(* The counters, the flags and the type invariant.                         *)

\* The command of r is a notify for p, or a wait for it.
Notifies(r, p) ==
  (Command(r) = "notify" /\ p = Cur(r).peer) \/ (Command(r) = "ready" /\ p = Cur(r).from)
Awaits(r, p) ==
  (Command(r) = "wait" /\ p = Cur(r).peer) \/ (Command(r) = "await" /\ p = Cur(r).from)

LEMMA Kinds ==
  ASSUME TypeOK, NEW r \in Ranks, Stream(r)
  PROVE  \/ \E p \in Ranks :
              /\ tcclSendRecvNotify(r, p) /\ Notifies(r, p)
              /\ \A q \in Ranks : (Notifies(r, q) <=> q = p) /\ ~Awaits(r, q)
         \/ \E p \in Ranks :
              /\ tcclSendRecvWait(r, p) /\ Awaits(r, p)
              /\ \A q \in Ranks : ~Notifies(r, q) /\ (Awaits(r, q) <=> q = p)
         \/ /\ UNCHANGED <<sendcntall, recvcntall, flag>>
            /\ \A q \in Ranks : ~Notifies(r, q) /\ ~Awaits(r, q)
<1>1. Active(r) /\ Cur(r) \in Ops /\ step[r] \in 1 .. Len(Script(r, Cur(r)))
  BY Steps, Current
<1>2. Cur(r).peer \in Ranks /\ (Cur(r).op = "exchange" => Cur(r).from \in Ranks)
  BY <1>1, PartnerKinds
<1>3. Command(r) = "ready" \/ Command(r) = "await" => Cur(r).op = "exchange"
  BY <1>1, StepTable DEF Command
<1>4. CASE NotifyPeer(r)
  <2>1. Command(r) = "notify" /\ tcclSendRecvNotify(r, Cur(r).peer)
    BY <1>4 DEF NotifyPeer, At
  <2> QED
    BY <1>2, <2>1 DEF Notifies, Awaits
<1>5. CASE NotifySource(r)
  <2>1. Command(r) = "ready" /\ tcclSendRecvNotify(r, Cur(r).from)
    BY <1>5 DEF NotifySource, At
  <2> QED
    BY <1>2, <1>3, <2>1 DEF Notifies, Awaits
<1>6. CASE WaitPeer(r)
  <2>1. Command(r) = "wait" /\ tcclSendRecvWait(r, Cur(r).peer)
    BY <1>6 DEF WaitPeer, At
  <2> QED
    BY <1>2, <2>1 DEF Notifies, Awaits
<1>7. CASE WaitSource(r)
  <2>1. Command(r) = "await" /\ tcclSendRecvWait(r, Cur(r).from)
    BY <1>7 DEF WaitSource, At
  <2> QED
    BY <1>2, <1>3, <2>1 DEF Notifies, Awaits
<1>8. CASE ~NotifyPeer(r) /\ ~NotifySource(r) /\ ~WaitPeer(r) /\ ~WaitSource(r)
  <2>1. /\ UNCHANGED <<sendcntall, recvcntall, flag>>
        /\ Command(r) \in {"copy", "publish", "transfer", "take", "signal", "barrier", "tell", "told"}
    BY <1>8 DEF Stream, CopyIn, Publish, Transfer, Take, Signal, PassBarrier, TellNext, WaitTold, At
  <2> QED
    BY <2>1 DEF Notifies, Awaits
<1> QED
  BY <1>4, <1>5, <1>6, <1>7, <1>8

LEMMA SYNC_NUM_2 == SYNC_NUM = 2 /\ \A n \in Nat : n % 2 \in 0 .. 1
BY DEF SYNC_NUM

LEMMA CountersStep ==
  ASSUME TypeOK, NEW r \in Ranks, Stream(r), NEW q \in Ranks, NEW p \in Ranks
  PROVE  /\ sendcntall' \in [Ranks -> [Ranks -> Nat]] /\ recvcntall' \in [Ranks -> [Ranks -> Nat]]
         /\ flag' \in [Ranks -> [Ranks -> [Slots -> Nat]]]
         /\ sendcntall'[q][p] = sendcntall[q][p] + One(q = r /\ Notifies(r, p))
         /\ recvcntall'[q][p] = recvcntall[q][p] + One(q = r /\ Awaits(r, p))
         /\ \A s \in Slots :
              flag'[p][q][s] = IF q = r /\ Notifies(r, p) /\ s = sendcntall'[r][p] % SYNC_NUM
                               THEN sendcntall'[r][p] ELSE flag[p][q][s]
<1>0. /\ sendcntall \in [Ranks -> [Ranks -> Nat]] /\ recvcntall \in [Ranks -> [Ranks -> Nat]]
      /\ flag \in [Ranks -> [Ranks -> [Slots -> Nat]]]
  BY DEF TypeOK
<1>1. CASE \E t \in Ranks :
              /\ tcclSendRecvNotify(r, t)
              /\ \A u \in Ranks : (Notifies(r, u) <=> u = t) /\ ~Awaits(r, u)
  <2>1. PICK t \in Ranks :
              /\ tcclSendRecvNotify(r, t)
              /\ \A u \in Ranks : (Notifies(r, u) <=> u = t) /\ ~Awaits(r, u)
    BY <1>1
  <2> DEFINE value == sendcntall[r][t] + 1
  <2>2. value \in Nat /\ value % SYNC_NUM \in Slots
    <3>1. value \in Nat
      BY <1>0
    <3> HIDE DEF value
    <3>2. Slots = 0 .. 1 /\ SYNC_NUM = 2
      BY SYNC_NUM_2 DEF Slots
    <3> QED
      BY <3>1, <3>2, SYNC_NUM_2
  <2>3. /\ sendcntall' = [sendcntall EXCEPT ![r][t] = value]
        /\ flag' = [flag EXCEPT ![t][r][value % SYNC_NUM] = value]
        /\ recvcntall' = recvcntall
    BY <2>1 DEF tcclSendRecvNotify
  <2> HIDE DEF value
  <2>4. sendcntall' \in [Ranks -> [Ranks -> Nat]] /\ flag' \in [Ranks -> [Ranks -> [Slots -> Nat]]]
    BY <1>0, <2>2, <2>3
  <2>5. sendcntall'[q][p] = IF q = r /\ p = t THEN value ELSE sendcntall[q][p]
    BY <1>0, <2>2, <2>3
  <2>6. sendcntall'[r][t] = value
    BY <1>0, <2>2, <2>3
  <2>7. \A s \in Slots : flag'[p][q][s] = IF q = r /\ p = t /\ s = value % SYNC_NUM
                                          THEN value ELSE flag[p][q][s]
    BY <1>0, <2>2, <2>3
  <2>8. (Notifies(r, p) <=> p = t) /\ ~Awaits(r, p)
    BY <2>1
  <2>9. /\ One(q = r /\ Notifies(r, p)) = IF q = r /\ p = t THEN 1 ELSE 0
        /\ One(q = r /\ Awaits(r, p)) = 0
    BY <2>8 DEF One
  <2>10. sendcntall'[q][p] = sendcntall[q][p] + One(q = r /\ Notifies(r, p))
    BY <1>0, <2>5, <2>9 DEF value
  <2>11. recvcntall'[q][p] = recvcntall[q][p] + One(q = r /\ Awaits(r, p))
    BY <1>0, <2>3, <2>9
  <2> QED
    BY <1>0, <2>3, <2>4, <2>6, <2>7, <2>8, <2>10, <2>11
<1>2. CASE \E t \in Ranks :
              /\ tcclSendRecvWait(r, t)
              /\ \A u \in Ranks : ~Notifies(r, u) /\ (Awaits(r, u) <=> u = t)
  <2>1. PICK t \in Ranks :
              /\ tcclSendRecvWait(r, t)
              /\ \A u \in Ranks : ~Notifies(r, u) /\ (Awaits(r, u) <=> u = t)
    BY <1>2
  <2>2. /\ recvcntall' = [recvcntall EXCEPT ![r][t] = recvcntall[r][t] + 1]
        /\ flag' = flag /\ sendcntall' = sendcntall
    BY <2>1 DEF tcclSendRecvWait
  <2>3. ~Notifies(r, p) /\ (Awaits(r, p) <=> p = t)
    BY <2>1
  <2>4. /\ One(q = r /\ Notifies(r, p)) = 0
        /\ One(q = r /\ Awaits(r, p)) = IF q = r /\ p = t THEN 1 ELSE 0
    BY <2>3 DEF One
  <2>5. /\ recvcntall' \in [Ranks -> [Ranks -> Nat]]
        /\ recvcntall'[q][p] = IF q = r /\ p = t THEN recvcntall[r][t] + 1 ELSE recvcntall[q][p]
    BY <1>0, <2>2
  <2> QED
    BY <1>0, <2>2, <2>3, <2>4, <2>5
<1>3. CASE /\ UNCHANGED <<sendcntall, recvcntall, flag>>
           /\ \A u \in Ranks : ~Notifies(r, u) /\ ~Awaits(r, u)
  <2>1. ~Notifies(r, p) /\ ~Awaits(r, p)
    BY <1>3
  <2>2. One(q = r /\ Notifies(r, p)) = 0 /\ One(q = r /\ Awaits(r, p)) = 0
    BY <2>1 DEF One
  <2> QED
    BY <1>0, <1>3, <2>1, <2>2
<1> QED
  BY <1>1, <1>2, <1>3, Kinds

LEMMA CrossStep ==
  ASSUME TypeOK, NEW r \in Ranks, Stream(r)
  PROVE  /\ inBuff' \in [Ranks -> Messages] /\ outBuff' \in [Ranks -> Messages]
         /\ recvList' \in [Ranks -> Nat]
         /\ recvbuf' = [q \in Ranks |-> recvbuf'[q]]
         /\ \A q \in Ranks : recvbuf'[q] \in [1 .. Len(prog[q]) -> Messages]
<1>1. Cur(r).peer \in Ranks /\ at[r] \in 1 .. Len(prog[r]) /\ at[r] \in Nat
  BY Steps, Current
<1>2. Message(r, Sends(r, at[r], Cur(r).peer)) \in Messages
  BY <1>1, Counts DEF Messages, Message
<1> USE DEF TypeOK
<1>3. CASE CopyIn(r)
  BY <1>2, <1>3 DEF CopyIn
<1>4. CASE Publish(r)
  BY <1>1, <1>4 DEF Publish
<1>5. CASE Transfer(r)
  <2> DEFINE p == Cur(r).peer
             m == Message(r, Sends(r, at[r], p))
  <2>1. UNCHANGED <<inBuff, recvList>>
    BY <1>5 DEF Transfer
  <2>2. CASE Cur(r).op = "send" /\ Direct(r, p)
    <3>1. recvbuf' = [recvbuf EXCEPT ![p][recvList[p]] = m] /\ outBuff' = outBuff
      BY <1>5, <2>2 DEF Transfer
    <3> QED
      BY <1>1, <1>2, <2>1, <3>1
  <2>3. CASE ~(Cur(r).op = "send" /\ Direct(r, p))
    <3>1. outBuff' = [outBuff EXCEPT ![p] = inBuff[r]] /\ recvbuf' = recvbuf
      BY <1>5, <2>3 DEF Transfer
    <3> QED
      BY <1>1, <2>1, <3>1
  <2> QED
    BY <2>2, <2>3
<1>6. CASE Take(r)
  <2>1. recvbuf' = [recvbuf EXCEPT ![r][at[r]] = outBuff[r]] /\ UNCHANGED <<inBuff, outBuff, recvList>>
    BY <1>6 DEF Take
  <2> QED
    BY <1>1, <2>1
<1>7. CASE UNCHANGED cross
  BY <1>7 DEF cross
<1> QED
  BY <1>3, <1>4, <1>5, <1>6, <1>7
     DEF Stream, NotifyPeer, WaitPeer, NotifySource, WaitSource, tcclSendRecvNotify,
         tcclSendRecvWait, Signal, PassBarrier, TellNext, WaitTold

LEMMA TypeStep ==
  ASSUME TypeOK, NEW r \in Ranks, Stream(r)
  PROVE  TypeOK'
<1>1. /\ prog' = prog /\ at' \in [Ranks -> Nat \ {0}] /\ step' \in [Ranks -> Nat \ {0}]
      /\ \A q \in Ranks : Active(q)' => step'[q] <= Length(q, Cur(q)')
      /\ \A q \in Ranks : at'[q] <= Len(prog[q]) + 1
  BY Steps, Moved
<1>2. /\ sendcntall' \in [Ranks -> [Ranks -> Nat]] /\ recvcntall' \in [Ranks -> [Ranks -> Nat]]
      /\ flag' \in [Ranks -> [Ranks -> [Slots -> Nat]]]
  BY CountersStep
<1> QED
  BY <1>1, <1>2, CrossStep DEF TypeOK, Length, Direct

\* What a notify or a wait adds to the progress of its stream.
LEMMA CountStep ==
  ASSUME TypeOK, CountInv, NEW r \in Ranks, Stream(r)
  PROVE  CountInv'
<1>1. Active(r) /\ Advance(r) /\ Cur(r) \in Ops /\ step[r] \in 1 .. Length(r, Cur(r))
  BY Steps, Current
<1> SUFFICES ASSUME NEW q \in Ranks, NEW p \in Ranks
             PROVE  /\ sendcntall'[q][p] = (Full(q, p) + NotifiedNow(q, p))'
                    /\ recvcntall'[q][p] = (Full(q, p) + WaitedNow(q, p))'
  BY DEF CountInv
<1>2. /\ sendcntall'[q][p] = sendcntall[q][p] + One(q = r /\ Notifies(r, p))
      /\ recvcntall'[q][p] = recvcntall[q][p] + One(q = r /\ Awaits(r, p))
  BY CountersStep
<1>3. /\ sendcntall[q][p] = Full(q, p) + NotifiedNow(q, p) /\ sendcntall[q][p] \in Nat
      /\ recvcntall[q][p] = Full(q, p) + WaitedNow(q, p) /\ recvcntall[q][p] \in Nat
  BY DEF CountInv, TypeOK
<1>4. CASE q # r
  <2>1. One(q = r /\ Notifies(r, p)) = 0 /\ One(q = r /\ Awaits(r, p)) = 0
    BY <1>4 DEF One
  <2> QED
    BY <1>1, <1>2, <1>3, <1>4, <2>1, Progressed
<1>5. CASE q = r
  <2>1. /\ NotifiedNow(r, p) = Notified(r, Cur(r), step[r], p)
        /\ WaitedNow(r, p) = Waited(r, Cur(r), step[r], p)
    BY <1>1 DEF NotifiedNow, WaitedNow
  <2>2. /\ Notified(r, Cur(r), step[r] + 1, p)
             = Notified(r, Cur(r), step[r], p) + One(Notifies(r, p))
        /\ Waited(r, Cur(r), step[r] + 1, p)
             = Waited(r, Cur(r), step[r], p) + One(Awaits(r, p))
    BY <1>1, StepEffect DEF Notifies, Awaits, Command
  <2>3. /\ One(q = r /\ Notifies(r, p)) = One(Notifies(r, p)) /\ One(Notifies(r, p)) \in Nat
        /\ One(q = r /\ Awaits(r, p)) = One(Awaits(r, p)) /\ One(Awaits(r, p)) \in Nat
    BY <1>5 DEF One
  <2>4. /\ Notified(r, Cur(r), step[r], p) \in Nat /\ Waited(r, Cur(r), step[r], p) \in Nat
        /\ Full(r, p) \in Nat
    BY <1>1, StepEffect, Counted
  <2>5. /\ (Full(r, p) + NotifiedNow(r, p))' = Full(r, p) + Notified(r, Cur(r), step[r] + 1, p)
        /\ (Full(r, p) + WaitedNow(r, p))' = Full(r, p) + Waited(r, Cur(r), step[r] + 1, p)
    BY <1>1, Progressed
  <2>6. /\ sendcntall'[r][p] = (Full(r, p) + NotifiedNow(r, p))'
        /\ recvcntall'[r][p] = (Full(r, p) + WaitedNow(r, p))'
    BY <1>2, <1>3, <1>5, <2>1, <2>2, <2>3, <2>4, <2>5
  <2> QED
    BY <1>5, <2>6
<1> QED
  BY <1>4, <1>5

LEMMA FlagStep ==
  ASSUME TypeOK, FlagInv, NEW r \in Ranks, Stream(r)
  PROVE  FlagInv'
<1> SUFFICES ASSUME NEW q \in Ranks, NEW p \in Ranks, NEW s \in Slots
             PROVE  flag'[p][q][s] = IF sendcntall'[q][p] % SYNC_NUM = s THEN sendcntall'[q][p]
                                     ELSE IF sendcntall'[q][p] = 0 THEN 0 ELSE sendcntall'[q][p] - 1
  BY DEF FlagInv
<1> DEFINE n == sendcntall[q][p]
<1>1. n \in Nat
  BY DEF TypeOK
<1>2. flag[p][q][s] = IF n % SYNC_NUM = s THEN n ELSE IF n = 0 THEN 0 ELSE n - 1
  BY DEF FlagInv
<1>3. CASE q = r /\ Notifies(r, p)
  <2>1. One(q = r /\ Notifies(r, p)) = 1
    BY <1>3 DEF One
  <2>2. /\ sendcntall'[q][p] = n + 1
        /\ flag'[p][q][s] = IF s = (n + 1) % SYNC_NUM THEN n + 1 ELSE flag[p][q][s]
    BY <1>3, <2>1, CountersStep
  <2>3. (n + 1) % SYNC_NUM # s => n % SYNC_NUM = s
    <3>1. s \in 0 .. 1 /\ SYNC_NUM = 2
      BY SYNC_NUM_2 DEF Slots
    <3> HIDE DEF n
    <3> QED
      BY <1>1, <3>1
  <2> HIDE DEF n
  <2> QED
    BY <1>1, <1>2, <2>2, <2>3
<1>4. CASE ~(q = r /\ Notifies(r, p))
  <2>1. One(q = r /\ Notifies(r, p)) = 0
    BY <1>4 DEF One
  <2>2. sendcntall'[q][p] = n /\ flag'[p][q][s] = flag[p][q][s]
    BY <1>1, <1>4, <2>1, CountersStep
  <2> QED
    BY <1>2, <2>2
<1> QED
  BY <1>3, <1>4

\* A wait ends only when the value is there.
LEMMA WaitEnds ==
  ASSUME TypeOK, FlagInv, NEW r \in Ranks, Stream(r), NEW p \in Ranks, Awaits(r, p)
  PROVE  recvcntall[r][p] + 1 <= sendcntall[p][r]
<1>1. tcclSendRecvWait(r, p)
  BY Kinds
<1> DEFINE value == recvcntall[r][p] + 1
           n == sendcntall[p][r]
<1>2. value \in Nat \ {0} /\ n \in Nat
  BY DEF TypeOK
<1>3. flag[r][p][value % SYNC_NUM] = value
  BY <1>1 DEF tcclSendRecvWait
<1> HIDE DEF value
<1>4. Slots = 0 .. 1 /\ value % SYNC_NUM \in 0 .. 1
  BY <1>2, SYNC_NUM_2 DEF Slots
<1>5. value = IF n % SYNC_NUM = value % SYNC_NUM THEN n ELSE IF n = 0 THEN 0 ELSE n - 1
  BY <1>3, <1>4 DEF FlagInv
<1>6. value <= n
  BY <1>2, <1>5
<1> QED
  BY <1>6 DEF value

LEMMA WaitStep ==
  ASSUME TypeOK, FlagInv, WaitInv, NEW r \in Ranks, Stream(r)
  PROVE  WaitInv'
<1> SUFFICES ASSUME NEW q \in Ranks, NEW p \in Ranks
             PROVE  recvcntall'[q][p] <= sendcntall'[p][q]
  BY DEF WaitInv
<1>1. /\ recvcntall[q][p] \in Nat /\ sendcntall[p][q] \in Nat
      /\ recvcntall[q][p] <= sendcntall[p][q]
  BY DEF TypeOK, WaitInv
<1>2. /\ sendcntall'[p][q] = sendcntall[p][q] + One(p = r /\ Notifies(r, q))
      /\ recvcntall'[q][p] = recvcntall[q][p] + One(q = r /\ Awaits(r, p))
  BY CountersStep
<1>3. One(p = r /\ Notifies(r, q)) \in Nat
  BY DEF One
<1>4. CASE q = r /\ Awaits(r, p)
  <2>1. recvcntall[q][p] + 1 <= sendcntall[p][q]
    BY <1>4, WaitEnds
  <2>2. One(q = r /\ Awaits(r, p)) = 1
    BY <1>4 DEF One
  <2> QED
    BY <1>1, <1>2, <1>3, <2>1, <2>2
<1>5. CASE ~(q = r /\ Awaits(r, p))
  <2>1. One(q = r /\ Awaits(r, p)) = 0
    BY <1>5 DEF One
  <2> QED
    BY <1>1, <1>2, <1>3, <2>1
<1> QED
  BY <1>4, <1>5

LEMMA CountersInit == Init => CountersInv
<1> SUFFICES ASSUME Init PROVE CountersInv
  OBVIOUS
<1>1. TypeOK
  <2>1. prog \in Programs /\ prog \in [Ranks -> Seq(Ops)]
    BY ProgramsAssumption DEF Init
  <2>2. \A r \in Ranks : Active(r) => step[r] <= Length(r, Cur(r))
    <3> SUFFICES ASSUME NEW r \in Ranks, Active(r) PROVE step[r] <= Length(r, Cur(r))
      OBVIOUS
    <3>1. at[r] = 1 /\ step[r] = 1
      BY DEF Init
    <3>2. Cur(r) \in Ops
      BY <2>1, <3>1 DEF Active, Cur
    <3> QED
      BY <3>1, <3>2, StepOrder
  <2>3. recvbuf = [r \in Ranks |-> recvbuf[r]]
    BY DEF Init
  <2>4. \A r \in Ranks : recvbuf[r] \in [1 .. Len(prog[r]) -> Messages]
    BY DEF Init, Messages
  <2>5. inBuff \in [Ranks -> Messages] /\ outBuff \in [Ranks -> Messages]
    BY DEF Init, Messages
  <2>6. /\ at \in [Ranks -> Nat \ {0}] /\ step \in [Ranks -> Nat \ {0}]
        /\ sendcntall \in [Ranks -> [Ranks -> Nat]] /\ recvcntall \in [Ranks -> [Ranks -> Nat]]
        /\ flag \in [Ranks -> [Ranks -> [Slots -> Nat]]] /\ recvList \in [Ranks -> Nat]
    BY DEF Init, NoOp
  <2>7. \A r \in Ranks : at[r] <= Len(prog[r]) + 1
    <3>1. \A r \in Ranks : at[r] = 1 /\ Len(prog[r]) \in Nat
      BY <2>1 DEF Init
    <3> QED
      BY <3>1
  <2> QED
    BY <2>1, <2>2, <2>3, <2>4, <2>5, <2>6, <2>7 DEF TypeOK
<1>2. CountInv
  <2> SUFFICES ASSUME NEW r \in Ranks, NEW p \in Ranks
               PROVE  0 = Full(r, p) + NotifiedNow(r, p) /\ 0 = Full(r, p) + WaitedNow(r, p)
    BY DEF CountInv, Init
  <2>1. at[r] = 1 /\ step[r] = 1
    BY DEF Init
  <2>2. Full(r, p) = 0
    BY <2>1, Counts DEF Full
  <2>3. NotifiedNow(r, p) = 0 /\ WaitedNow(r, p) = 0
    <3>1. Active(r) => Cur(r) \in Ops
      BY <1>1, Current
    <3> QED
      BY <2>1, <3>1, StepEnds DEF NotifiedNow, WaitedNow
  <2> QED
    BY <2>2, <2>3
<1>3. FlagInv
  BY DEF FlagInv, Init
<1>4. WaitInv
  BY DEF WaitInv, Init
<1> QED
  BY <1>1, <1>2, <1>3, <1>4 DEF CountersInv

LEMMA Unchanged ==
  ASSUME UNCHANGED vars
  PROVE  /\ CountersInv => CountersInv'
         /\ NoOvershoot => NoOvershoot'
BY DEF CountersInv, TypeOK, CountInv, FlagInv, WaitInv, NoOvershoot, vars, cross, ring,
       Full, NotifiedNow, WaitedNow, Sends, Receipts, Active, Cur, Length, Direct

LEMMA CountersNext == CountersInv /\ [Next]_vars => CountersInv'
<1>1. ASSUME CountersInv, NEW r \in Ranks, Stream(r) PROVE CountersInv'
  BY <1>1, TypeStep, CountStep, FlagStep, WaitStep DEF CountersInv
<1>2. CASE UNCHANGED vars
  BY <1>2, Unchanged
<1> QED
  BY <1>1, <1>2 DEF Next, Finished

\* Of a pair, one side is never more than two notifies ahead of the waits of
\* the other; whatever the programs are.
LEMMA Overshoot == CountersInv => NoOvershoot
<1> SUFFICES ASSUME CountersInv, NEW r \in Ranks, NEW p \in Ranks
             PROVE  flag[r][p][(recvcntall[r][p] + 1) % SYNC_NUM] <= recvcntall[r][p] + 1
  BY DEF NoOvershoot
<1>1. \A t, u \in Ranks :
        /\ sendcntall[t][u] \in Nat /\ recvcntall[t][u] \in Nat
        /\ sendcntall[t][u] <= recvcntall[t][u] + 1
        /\ recvcntall[t][u] <= sendcntall[t][u] + 1
  <2> SUFFICES ASSUME NEW t \in Ranks, NEW u \in Ranks
               PROVE  /\ sendcntall[t][u] \in Nat /\ recvcntall[t][u] \in Nat
                      /\ sendcntall[t][u] <= recvcntall[t][u] + 1
                      /\ recvcntall[t][u] <= sendcntall[t][u] + 1
    OBVIOUS
  <2>1. Full(t, u) \in Nat
    BY Counted DEF CountersInv
  <2>2. /\ NotifiedNow(t, u) \in Nat /\ WaitedNow(t, u) \in Nat
        /\ NotifiedNow(t, u) <= WaitedNow(t, u) + 1 /\ WaitedNow(t, u) <= NotifiedNow(t, u) + 1
    <3>1. CASE Active(t)
      BY <3>1, Current, StepEffect DEF NotifiedNow, WaitedNow, CountersInv
    <3>2. CASE ~Active(t)
      BY <3>2 DEF NotifiedNow, WaitedNow
    <3> QED
      BY <3>1, <3>2
  <2>3. /\ sendcntall[t][u] = Full(t, u) + NotifiedNow(t, u)
        /\ recvcntall[t][u] = Full(t, u) + WaitedNow(t, u)
    BY DEF CountersInv, CountInv
  <2> QED
    BY <2>1, <2>2, <2>3
<1> DEFINE n == sendcntall[p][r]
           w == recvcntall[r][p]
<1>2. n \in Nat /\ w \in Nat /\ n <= w + 2
  <2>1. recvcntall[p][r] <= sendcntall[r][p]
    BY DEF CountersInv, WaitInv
  <2> QED
    BY <1>1, <2>1
<1> HIDE DEF n, w
<1>3. Slots = 0 .. 1 /\ SYNC_NUM = 2 /\ (w + 1) % SYNC_NUM \in 0 .. 1
  BY <1>2, SYNC_NUM_2 DEF Slots
<1>4. flag[r][p][(w + 1) % SYNC_NUM]
        = IF n % SYNC_NUM = (w + 1) % SYNC_NUM THEN n ELSE IF n = 0 THEN 0 ELSE n - 1
  BY <1>3 DEF CountersInv, FlagInv, n
<1>5. n % 2 = (w + 1) % 2 => n # w + 2
  BY <1>2
<1>6. flag[r][p][(w + 1) % SYNC_NUM] <= w + 1
  BY <1>2, <1>3, <1>4, <1>5
<1> QED
  BY <1>6 DEF w

\* For every program, matched or not, no flag runs past the value that its
\* reader waits for next: the wait with EQ of tcclSendRecvWait is as good as
\* one with GEQ.
THEOREM NeverOvershoots == Spec => []NoOvershoot
<1>1. CountersInv /\ [Next]_vars => CountersInv'
  BY CountersNext
<1>2. Spec => []CountersInv
  BY <1>1, CountersInit, PTL DEF Spec
<1> QED
  BY <1>2, Overshoot, PTL

-----------------------------------------------------------------------------
(* Pairs of ranks: how far apart they may be.                              *)

LEMMA NowBounds ==
  ASSUME TypeOK, NEW r \in Ranks, NEW p \in Ranks
  PROVE  /\ NotifiedNow(r, p) \in Nat /\ WaitedNow(r, p) \in Nat
         /\ Active(r) =>
              /\ NotifiedNow(r, p) = Notified(r, Cur(r), step[r], p)
              /\ WaitedNow(r, p) = Waited(r, Cur(r), step[r], p)
              /\ NotifiedNow(r, p) <= One(p \in Target(Cur(r))) + One(p \in Source(Cur(r)))
         /\ NotifiedNow(r, p) # 0 \/ WaitedNow(r, p) # 0 => Active(r) /\ p \in Partners(Cur(r))
<1>1. CASE Active(r)
  <2>1. /\ NotifiedNow(r, p) = Notified(r, Cur(r), step[r], p)
        /\ WaitedNow(r, p) = Waited(r, Cur(r), step[r], p)
    BY <1>1 DEF NotifiedNow, WaitedNow
  <2>2. Notified(r, Cur(r), step[r], p) \in Nat /\ Waited(r, Cur(r), step[r], p) \in Nat
    BY <1>1, Current, StepEffect
  <2>3. Notified(r, Cur(r), step[r], p) <= One(p \in Target(Cur(r))) + One(p \in Source(Cur(r)))
    BY DEF Notified, One
  <2>4. p \notin Partners(Cur(r)) =>
          Notified(r, Cur(r), step[r], p) = 0 /\ Waited(r, Cur(r), step[r], p) = 0
    BY DEF Notified, Waited, One, Partners
  <2> QED
    BY <1>1, <2>1, <2>2, <2>3, <2>4
<1>2. CASE ~Active(r)
  BY <1>2 DEF NotifiedNow, WaitedNow
<1> QED
  BY <1>1, <1>2

\* The three positions of a pair: r ahead,
LEMMA AheadWaits ==
  ASSUME CountersInv, PairInv, NEW r \in Ranks, NEW p \in Ranks, Done(r, p) = Done(p, r) + 1
  PROVE  /\ Ahead(r, p) /\ WaitedNow(r, p) = 0
         /\ NotifiedNow(p, r) = One(r \in Target(Cur(p))) + One(r \in Source(Cur(p)))
<1>1. Ahead(r, p)
  BY DEF PairInv, Paired
<1>2. /\ Full(r, p) \in Nat /\ Full(p, r) \in Nat
      /\ Full(r, p) = Full(p, r) + One(r \in Target(Cur(p))) + One(r \in Source(Cur(p)))
  <2>1. /\ Sends(p, at[p], r) = Sends(p, at[p] - 1, r) + One(r \in Target(Cur(p)))
        /\ Receipts(p, at[p], r) = Receipts(p, at[p] - 1, r) + One(r \in Source(Cur(p)))
        /\ Sends(p, at[p] - 1, r) \in Nat /\ Receipts(p, at[p] - 1, r) \in Nat
    BY Counted DEF CountersInv
  <2>2. One(r \in Target(Cur(p))) \in Nat /\ One(r \in Source(Cur(p))) \in Nat
    BY DEF One
  <2> QED
    BY <1>1, <2>1, <2>2 DEF Full, Ahead
<1>3. Full(r, p) + WaitedNow(r, p) <= Full(p, r) + NotifiedNow(p, r)
  BY DEF CountersInv, CountInv, WaitInv
<1>4. /\ NotifiedNow(p, r) \in Nat /\ WaitedNow(r, p) \in Nat
      /\ NotifiedNow(p, r) <= One(r \in Target(Cur(p))) + One(r \in Source(Cur(p)))
  BY <1>1, NowBounds DEF CountersInv, Ahead
<1>5. One(r \in Target(Cur(p))) \in Nat /\ One(r \in Source(Cur(p))) \in Nat
  BY DEF One
<1> QED
  BY <1>1, <1>2, <1>3, <1>4, <1>5

\* or level.
LEMMA LevelWaits ==
  ASSUME CountersInv, PairInv, NEW r \in Ranks, NEW p \in Ranks, Done(r, p) = Done(p, r)
  PROVE  /\ Sends(r, at[r] - 1, p) = Receipts(p, at[p] - 1, r)
         /\ Receipts(r, at[r] - 1, p) = Sends(p, at[p] - 1, r)
         /\ Full(r, p) = Full(p, r)
         /\ WaitedNow(r, p) <= NotifiedNow(p, r)
<1>1. /\ Sends(r, at[r] - 1, p) = Receipts(p, at[p] - 1, r)
      /\ Receipts(r, at[r] - 1, p) = Sends(p, at[p] - 1, r)
  BY DEF PairInv, Paired
<1>2. /\ Sends(r, at[r] - 1, p) \in Nat /\ Receipts(r, at[r] - 1, p) \in Nat
  BY Counted DEF CountersInv
<1>3. Full(r, p) = Full(p, r) /\ Full(r, p) \in Nat
  BY <1>1, <1>2 DEF Full
<1>4. Full(r, p) + WaitedNow(r, p) <= Full(p, r) + NotifiedNow(p, r)
  BY DEF CountersInv, CountInv, WaitInv
<1>5. NotifiedNow(p, r) \in Nat /\ WaitedNow(r, p) \in Nat
  BY NowBounds DEF CountersInv
<1> QED
  BY <1>1, <1>3, <1>4, <1>5

LEMMA Positions ==
  ASSUME CountersInv, PairInv, NEW r \in Ranks, NEW p \in Ranks
  PROVE  /\ Done(r, p) \in Nat /\ Done(p, r) \in Nat
         /\ \/ Done(r, p) = Done(p, r) \/ Done(r, p) = Done(p, r) + 1
            \/ Done(p, r) = Done(r, p) + 1
<1>1. Done(r, p) \in Nat /\ Done(p, r) \in Nat
  BY Counted DEF CountersInv, Done
<1>2. Done(r, p) <= Done(p, r) + 1 /\ Done(p, r) <= Done(r, p) + 1
  BY DEF PairInv, Paired
<1> QED
  BY <1>1, <1>2

\* Level ranks that are both in an operation with the other are in the same
\* round, and the program matches their operations.
LEMMA SameRound ==
  ASSUME CountersInv, PairInv, NEW r \in Ranks, NEW p \in Ranks, Done(r, p) = Done(p, r),
         Active(r), p \in Partners(Cur(r)), Active(p), r \in Partners(Cur(p))
  PROVE  /\ Sends(r, at[r], p) = Receipts(p, at[p], r)
         /\ Receipts(r, at[r], p) = Sends(p, at[p], r)
         /\ p \in Target(Cur(r)) <=> r \in Source(Cur(p))
         /\ p \in Source(Cur(r)) <=> r \in Target(Cur(p))
         /\ Cur(r).op = "exchange" <=> Cur(p).op = "exchange"
<1>1. at[r] \in 1 .. Len(prog[r]) /\ at[p] \in 1 .. Len(prog[p])
  BY Current DEF CountersInv
<1>2. Rounds(r, at[r], p) = Rounds(p, at[p], r)
  <2>1. One(p \in Partners(Cur(r))) = 1 /\ One(r \in Partners(Cur(p))) = 1
    BY DEF One
  <2> QED
    BY <2>1, Counted DEF CountersInv, Done
<1>3. Matched(prog)
  BY MatchingAssumption DEF CountersInv, TypeOK
<1>4. /\ p \in Partners(prog[r][at[r]]) /\ r \in Partners(prog[p][at[p]])
      /\ RoundsIn(prog, r, at[r], p) = RoundsIn(prog, p, at[p], r)
  BY <1>2 DEF Cur, Rounds
<1>5. /\ SendsIn(prog, r, at[r], p) = ReceiptsIn(prog, p, at[p], r)
      /\ SendsIn(prog, p, at[p], r) = ReceiptsIn(prog, r, at[r], p)
      /\ prog[r][at[r]].op = "exchange" <=> prog[p][at[p]].op = "exchange"
  BY <1>1, <1>3, <1>4 DEF Matched
<1>6. /\ Sends(r, at[r], p) = Receipts(p, at[p], r)
      /\ Receipts(r, at[r], p) = Sends(p, at[p], r)
      /\ Cur(r).op = "exchange" <=> Cur(p).op = "exchange"
  BY <1>5 DEF Sends, Receipts, Cur
<1>7. /\ One(p \in Target(Cur(r))) = One(r \in Source(Cur(p)))
      /\ One(p \in Source(Cur(r))) = One(r \in Target(Cur(p)))
  <2>1. /\ Sends(r, at[r] - 1, p) = Receipts(p, at[p] - 1, r)
        /\ Receipts(r, at[r] - 1, p) = Sends(p, at[p] - 1, r)
    BY LevelWaits
  <2>2. /\ One(p \in Target(Cur(r))) \in Nat /\ One(r \in Source(Cur(p))) \in Nat
        /\ One(p \in Source(Cur(r))) \in Nat /\ One(r \in Target(Cur(p))) \in Nat
    BY DEF One
  <2>3. /\ Sends(r, at[r], p) = Sends(r, at[r] - 1, p) + One(p \in Target(Cur(r)))
        /\ Receipts(r, at[r], p) = Receipts(r, at[r] - 1, p) + One(p \in Source(Cur(r)))
        /\ Sends(r, at[r] - 1, p) \in Nat /\ Receipts(r, at[r] - 1, p) \in Nat
    BY Counted DEF CountersInv
  <2>4. /\ Sends(p, at[p], r) = Sends(p, at[p] - 1, r) + One(r \in Target(Cur(p)))
        /\ Receipts(p, at[p], r) = Receipts(p, at[p] - 1, r) + One(r \in Source(Cur(p)))
    BY Counted DEF CountersInv
  <2>5. Sends(r, at[r] - 1, p) + One(p \in Target(Cur(r)))
          = Sends(r, at[r] - 1, p) + One(r \in Source(Cur(p)))
    BY <1>6, <2>1, <2>3, <2>4
  <2>6. Receipts(r, at[r] - 1, p) + One(p \in Source(Cur(r)))
          = Receipts(r, at[r] - 1, p) + One(r \in Target(Cur(p)))
    BY <1>6, <2>1, <2>3, <2>4
  <2>7. \A a, x, y \in Nat : a + x = a + y => x = y
    OBVIOUS
  <2>8. One(p \in Target(Cur(r))) = One(r \in Source(Cur(p)))
    BY <2>2, <2>3, <2>5, <2>7
  <2>9. One(p \in Source(Cur(r))) = One(r \in Target(Cur(p)))
    BY <2>2, <2>3, <2>6, <2>7
  <2> QED
    BY <2>8, <2>9
<1> QED
  BY <1>6, <1>7 DEF One

\* No rank is its own peer: the program matches an operation with itself.
LEMMA NoSelf ==
  ASSUME CountersInv, PairInv, NEW r \in Ranks, Active(r)
  PROVE  r \notin Partners(Cur(r))
<1> SUFFICES ASSUME r \in Partners(Cur(r)) PROVE FALSE
  OBVIOUS
<1>1. r \in Target(Cur(r)) <=> r \in Source(Cur(r))
  BY SameRound
<1>2. Cur(r) \in Ops /\ Cur(r).peer # r
  BY Current DEF CountersInv
<1> QED
  BY <1>1, <1>2, PartnerKinds

\* A rank that has been notified of everything in an operation:
LEMMA AllNotified ==
  ASSUME CountersInv, NEW r \in Ranks, NEW p \in Ranks, Active(p),
         NotifiedNow(p, r) = One(r \in Target(Cur(p))) + One(r \in Source(Cur(p)))
  PROVE  /\ r \in Source(Cur(p)) => step[p] > AnnounceStep(p, Cur(p))
         /\ r \in Target(Cur(p)) => step[p] > TellStep(p, Cur(p))
<1>1. NotifiedNow(p, r) = Notified(p, Cur(p), step[p], r)
  BY DEF NotifiedNow
<1> QED
  BY <1>1 DEF Notified, One

-----------------------------------------------------------------------------
(* How a step changes the positions of the pairs.                          *)

LEMMA Others ==
  ASSUME TypeOK, NEW r \in Ranks, Active(r), Advance(r), NEW q \in Ranks, NEW p \in Ranks,
         at'[q] = at[q]
  PROVE  /\ (Active(q)' <=> Active(q)) /\ Cur(q)' = Cur(q)
         /\ Sends(q, at[q], p)' = Sends(q, at[q], p)
         /\ Receipts(q, at[q], p)' = Receipts(q, at[q], p)
         /\ Sends(q, at[q] - 1, p)' = Sends(q, at[q] - 1, p)
         /\ Receipts(q, at[q] - 1, p)' = Receipts(q, at[q] - 1, p)
         /\ Done(q, p)' = Done(q, p)
<1>1. prog' = prog
  BY Moved
<1> QED
  BY <1>1 DEF Active, Cur, Sends, Receipts, Done, Rounds

LEMMA Completed ==
  ASSUME TypeOK, NEW r \in Ranks, Active(r), Advance(r), NEW p \in Ranks, at'[r] # at[r]
  PROVE  /\ step[r] = Length(r, Cur(r)) /\ at'[r] = at[r] + 1 /\ step'[r] = 1
         /\ at'[r] - 1 = at[r]
         /\ Sends(r, at[r] - 1, p)' = Sends(r, at[r], p)
         /\ Receipts(r, at[r] - 1, p)' = Receipts(r, at[r], p)
         /\ Done(r, p)' = Done(r, p) + One(p \in Partners(Cur(r)))
<1>1. prog' = prog /\ step[r] = Length(r, Cur(r)) /\ at'[r] = at[r] + 1 /\ step'[r] = 1
  BY Moved
<1>2. at'[r] - 1 = at[r]
  BY <1>1, Counted
<1>3. Rounds(r, at[r], p) = Done(r, p) + One(p \in Partners(Cur(r)))
  BY Counted DEF Done
<1> QED
  BY <1>1, <1>2, <1>3 DEF Sends, Receipts, Done, Rounds

\* Completing a round with a peer that is level takes the rank ahead of it,
LEMMA GetsAhead ==
  ASSUME CountersInv, PairInv, NEW r \in Ranks, Stream(r), at'[r] # at[r],
         NEW p \in Partners(Cur(r)), Done(r, p) = Done(p, r)
  PROVE  /\ Active(p) /\ r \in Partners(Cur(p))
         /\ Sends(r, at[r], p) = Receipts(p, at[p], r)
         /\ Receipts(r, at[r], p) = Sends(p, at[p], r)
<1>1. Active(r) /\ Advance(r) /\ Cur(r) \in Ops /\ p \in Ranks /\ p # r
  BY Steps, Current, NoSelf, PartnerKinds DEF CountersInv
<1>2. Full(r, p) + One(p \in Target(Cur(r))) + One(p \in Source(Cur(r)))
        <= Full(p, r) + NotifiedNow(p, r)
  <2>1. CountersInv'
    BY CountersNext DEF Next
  <2>2. recvcntall'[r][p] <= sendcntall'[p][r]
    BY <1>1, <2>1 DEF CountersInv, WaitInv
  <2>3. recvcntall'[r][p] = Full(r, p)' + WaitedNow(r, p)'
    BY <1>1, <2>1 DEF CountersInv, CountInv
  <2>4. WaitedNow(r, p)' \in Nat
    BY DEF WaitedNow, Waited, One
  <2>5. sendcntall'[p][r] = sendcntall[p][r]
    <3>1. One(p = r /\ Notifies(r, r)) = 0
      BY <1>1 DEF One
    <3>2. sendcntall'[p][r] = sendcntall[p][r] + One(p = r /\ Notifies(r, r))
      BY <1>1, CountersStep DEF CountersInv
    <3>3. sendcntall[p][r] \in Nat
      BY <1>1 DEF CountersInv, TypeOK
    <3> QED
      BY <3>1, <3>2, <3>3
  <2>6. sendcntall[p][r] = Full(p, r) + NotifiedNow(p, r)
    BY <1>1 DEF CountersInv, CountInv
  <2>7. /\ Full(r, p)' = Sends(r, at[r], p) + Receipts(r, at[r], p)
        /\ Sends(r, at[r], p) = Sends(r, at[r] - 1, p) + One(p \in Target(Cur(r)))
        /\ Receipts(r, at[r], p) = Receipts(r, at[r] - 1, p) + One(p \in Source(Cur(r)))
        /\ Sends(r, at[r] - 1, p) \in Nat /\ Receipts(r, at[r] - 1, p) \in Nat
    BY <1>1, Completed, Counted DEF CountersInv, Full
  <2>8. One(p \in Target(Cur(r))) \in Nat /\ One(p \in Source(Cur(r))) \in Nat
    BY DEF One
  <2>9. Full(p, r) \in Nat /\ NotifiedNow(p, r) \in Nat
    BY <1>1, Counted, NowBounds DEF CountersInv
  <2> QED
    BY <2>2, <2>3, <2>4, <2>5, <2>6, <2>7, <2>8, <2>9 DEF Full
<1>3. NotifiedNow(p, r) # 0
  <2>1. Full(r, p) = Full(p, r) /\ Full(r, p) \in Nat /\ NotifiedNow(p, r) \in Nat
    BY <1>1, LevelWaits, Counted, NowBounds DEF CountersInv
  <2>2. One(p \in Target(Cur(r))) + One(p \in Source(Cur(r))) >= 1
    BY DEF One, Partners
  <2>3. One(p \in Target(Cur(r))) \in Nat /\ One(p \in Source(Cur(r))) \in Nat
    BY DEF One
  <2> QED
    BY <1>2, <2>1, <2>2, <2>3
<1>4. Active(p) /\ r \in Partners(Cur(p))
  BY <1>1, <1>3, NowBounds DEF CountersInv
<1> QED
  BY <1>1, <1>4, SameRound

\* and with a peer that is ahead it draws level; it cannot be ahead already.
LEMMA NotAhead ==
  ASSUME CountersInv, PairInv, NEW r \in Ranks, Active(r), NEW p \in Ranks,
         Waited(r, Cur(r), step[r], p) # 0
  PROVE  Done(r, p) # Done(p, r) + 1
BY NowBounds, AheadWaits DEF CountersInv

LEMMA NotAheadEnd ==
  ASSUME CountersInv, PairInv, NEW r \in Ranks, Stream(r), at'[r] # at[r],
         NEW p \in Partners(Cur(r))
  PROVE  Done(r, p) # Done(p, r) + 1
<1>1. Active(r) /\ Advance(r) /\ Cur(r) \in Ops /\ p \in Ranks /\ step[r] = Length(r, Cur(r))
  BY Steps, Current, PartnerKinds, Completed DEF CountersInv
<1>2. CASE p \in Target(Cur(r))
  <2>1. step[r] > ReadyStep(r, Cur(r))
    BY <1>1, <1>2, StepOrder, PartnerKinds
  <2>2. Waited(r, Cur(r), step[r], p) # 0
    BY <1>2, <2>1 DEF Waited, One
  <2> QED
    BY <1>1, <2>2, NotAhead
<1>3. CASE p \in Source(Cur(r)) /\ step[r] > ReceiveStep(r, Cur(r))
  <2>1. Waited(r, Cur(r), step[r], p) # 0
    BY <1>3 DEF Waited, One
  <2> QED
    BY <1>1, <2>1, NotAhead
<1>4. CASE p \in Source(Cur(r)) /\ p \notin Target(Cur(r)) /\ step[r] <= ReceiveStep(r, Cur(r))
  <2>1. Awaits(r, p)
    <3>1. Cur(r).op = "recv" /\ p = Cur(r).peer /\ step[r] = ReceiveStep(r, Cur(r))
      BY <1>1, <1>4, StepOrder, PartnerKinds
    <3> QED
      BY <1>1, <3>1, StepTable, ScriptLength, Current DEF Awaits, Command, CountersInv
  <2>2. recvcntall[r][p] + 1 <= sendcntall[p][r]
    BY <1>1, <2>1, WaitEnds DEF CountersInv
  <2>3. SUFFICES ASSUME Done(r, p) = Done(p, r) + 1 PROVE FALSE
    OBVIOUS
  <2>4. /\ Ahead(r, p)
        /\ NotifiedNow(p, r) = One(r \in Target(Cur(p))) + One(r \in Source(Cur(p)))
    BY <1>1, <2>3, AheadWaits
  <2>5. /\ Sends(p, at[p], r) = Sends(p, at[p] - 1, r) + One(r \in Target(Cur(p)))
        /\ Receipts(p, at[p], r) = Receipts(p, at[p] - 1, r) + One(r \in Source(Cur(p)))
        /\ Sends(p, at[p] - 1, r) \in Nat /\ Receipts(p, at[p] - 1, r) \in Nat
    BY <1>1, Counted DEF CountersInv
  <2>6. One(r \in Target(Cur(p))) \in Nat /\ One(r \in Source(Cur(p))) \in Nat
    BY DEF One
  <2>7. /\ recvcntall[r][p] = Full(r, p) + WaitedNow(r, p) /\ WaitedNow(r, p) \in Nat
        /\ sendcntall[p][r] = Full(p, r) + NotifiedNow(p, r)
    BY <1>1, NowBounds DEF CountersInv, CountInv
  <2> QED
    BY <2>2, <2>4, <2>5, <2>6, <2>7 DEF Full, Ahead
<1> QED
  BY <1>1, <1>2, <1>3, <1>4, StepOrder DEF Partners

LEMMA PairStep ==
  ASSUME CountersInv, PairInv, NEW r \in Ranks, Stream(r)
  PROVE  PairInv'
<1>1. TypeOK /\ Active(r) /\ Advance(r) /\ Cur(r) \in Ops
  BY Steps, Current DEF CountersInv
<1>2. \A q \in Ranks \ {r} : at'[q] = at[q]
  BY <1>1, Moved
<1> SUFFICES ASSUME NEW q \in Ranks, NEW p \in Ranks PROVE Paired(q, p)'
  BY DEF PairInv
<1>3. Paired(q, p) /\ Paired(p, q)
  BY DEF PairInv
<1>4. CASE at'[q] = at[q] /\ at'[p] = at[p]
  BY <1>1, <1>3, <1>4, Others DEF Paired, Ahead
<1>5. CASE q = r /\ p # r /\ at'[r] # at[r]
  <2>1. /\ Done(p, r)' = Done(p, r) /\ (Active(p)' <=> Active(p)) /\ Cur(p)' = Cur(p)
        /\ Sends(p, at[p], r)' = Sends(p, at[p], r)
        /\ Receipts(p, at[p], r)' = Receipts(p, at[p], r)
        /\ Receipts(p, at[p] - 1, r)' = Receipts(p, at[p] - 1, r)
    BY <1>1, <1>2, <1>5, Others
  <2>2. /\ Done(r, p)' = Done(r, p) + One(p \in Partners(Cur(r)))
        /\ Sends(r, at[r] - 1, p)' = Sends(r, at[r], p)
        /\ Receipts(r, at[r] - 1, p)' = Receipts(r, at[r], p)
        /\ Sends(r, at[r] - 1, p) \in Nat /\ Receipts(r, at[r] - 1, p) \in Nat
        /\ Sends(r, at[r], p) = Sends(r, at[r] - 1, p) + One(p \in Target(Cur(r)))
        /\ Receipts(r, at[r], p) = Receipts(r, at[r] - 1, p) + One(p \in Source(Cur(r)))
    BY <1>1, <1>5, Completed, Counted
  <2>3. CASE p \notin Partners(Cur(r))
    <3>1. /\ One(p \in Partners(Cur(r))) = 0 /\ One(p \in Target(Cur(r))) = 0
          /\ One(p \in Source(Cur(r))) = 0
      BY <2>3 DEF One, Partners
    <3>2. Done(r, p) \in Nat
      BY Positions
    <3> QED
      BY <1>3, <1>5, <2>1, <2>2, <3>1, <3>2 DEF Paired, Ahead
  <2>4. CASE p \in Partners(Cur(r))
    <3>1. One(p \in Partners(Cur(r))) = 1
      BY <2>4 DEF One
    <3>2. CASE Done(r, p) = Done(p, r)
      <4>1. /\ Active(p) /\ r \in Partners(Cur(p))
            /\ Sends(r, at[r], p) = Receipts(p, at[p], r)
            /\ Receipts(r, at[r], p) = Sends(p, at[p], r)
        BY <1>5, <2>4, <3>2, GetsAhead
      <4> QED
        BY <1>5, <2>1, <2>2, <3>1, <3>2, <4>1, Positions DEF Paired, Ahead
    <3>3. CASE Done(p, r) = Done(r, p) + 1
      <4>1. Receipts(p, at[p] - 1, r) = Sends(r, at[r], p)
        BY <3>3, <1>3, <1>5 DEF Paired, Ahead
      <4> QED
        BY <1>5, <2>1, <2>2, <3>1, <3>3, <4>1, Positions DEF Paired
    <3> QED
      BY <1>5, <2>4, <3>2, <3>3, NotAheadEnd, Positions
  <2> QED
    BY <2>3, <2>4
<1>6. CASE p = r /\ q # r /\ at'[r] # at[r]
  <2>1. /\ Done(q, r)' = Done(q, r)
        /\ Sends(q, at[q] - 1, r)' = Sends(q, at[q] - 1, r)
    BY <1>1, <1>2, <1>6, Others
  <2>2. /\ Done(r, q)' = Done(r, q) + One(q \in Partners(Cur(r)))
        /\ Receipts(r, at[r] - 1, q)' = Receipts(r, at[r], q)
        /\ Receipts(r, at[r] - 1, q) \in Nat
        /\ Receipts(r, at[r], q) = Receipts(r, at[r] - 1, q) + One(q \in Source(Cur(r)))
    BY <1>1, <1>6, Completed, Counted
  <2>3. CASE q \notin Partners(Cur(r))
    <3>1. One(q \in Partners(Cur(r))) = 0 /\ One(q \in Source(Cur(r))) = 0
      BY <2>3 DEF One, Partners
    <3>2. Done(q, r) # Done(r, q) + 1
      BY <1>3, <1>6, <2>3 DEF Paired, Ahead
    <3> QED
      BY <1>3, <1>6, <2>1, <2>2, <3>1, <3>2, Positions DEF Paired
  <2>4. CASE q \in Partners(Cur(r))
    <3>1. One(q \in Partners(Cur(r))) = 1
      BY <2>4 DEF One
    <3>2. CASE Done(r, q) = Done(q, r)
      BY <1>6, <2>1, <2>2, <3>1, <3>2, Positions DEF Paired
    <3>3. CASE Done(q, r) = Done(r, q) + 1
      <4>1. Sends(q, at[q] - 1, r) = Receipts(r, at[r], q)
        BY <3>3, <1>3, <1>6 DEF Paired, Ahead
      <4> QED
        BY <1>6, <2>1, <2>2, <3>1, <3>3, <4>1, Positions DEF Paired
    <3> QED
      BY <1>6, <2>4, <3>2, <3>3, NotAheadEnd, Positions
  <2> QED
    BY <2>3, <2>4
<1>7. CASE p = r /\ q = r /\ at'[r] # at[r]
  <2>1. /\ Done(r, r)' = Done(r, r) + One(r \in Partners(Cur(r)))
        /\ Sends(r, at[r] - 1, r)' = Sends(r, at[r], r)
        /\ Receipts(r, at[r] - 1, r)' = Receipts(r, at[r], r)
        /\ Sends(r, at[r] - 1, r) \in Nat /\ Receipts(r, at[r] - 1, r) \in Nat
        /\ Sends(r, at[r], r) = Sends(r, at[r] - 1, r) + One(r \in Target(Cur(r)))
        /\ Receipts(r, at[r], r) = Receipts(r, at[r] - 1, r) + One(r \in Source(Cur(r)))
    BY <1>1, <1>7, Completed, Counted
  <2>2. /\ One(r \in Partners(Cur(r))) = 0 /\ One(r \in Target(Cur(r))) = 0
        /\ One(r \in Source(Cur(r))) = 0
    BY <1>1, NoSelf DEF One, Partners
  <2> QED
    BY <1>3, <1>7, <2>1, <2>2, Positions DEF Paired
<1> QED
  BY <1>2, <1>4, <1>5, <1>6, <1>7

-----------------------------------------------------------------------------
(* Rendezvous.                                                             *)

LEMMA LastStep ==
  ASSUME TypeOK, LastInv, NEW r \in Ranks, Stream(r)
  PROVE  LastInv'
<1>1. Active(r) /\ Advance(r)
  BY Steps
<1>2. prog' = prog /\ \A q \in Ranks \ {r} : at'[q] = at[q]
  BY <1>1, Moved
<1> SUFFICES ASSUME NEW q \in Ranks, NEW p \in Ranks, Receipts(q, at[q] - 1, p)' # 0
             PROVE  (\E l \in 1 .. at[q] - 1 :
                       /\ p \in Source(prog[q][l])
                       /\ Receipts(q, l, p) = Receipts(q, at[q] - 1, p))'
  BY DEF LastInv
<1>3. CASE at'[q] = at[q]
  BY <1>2, <1>3 DEF LastInv, Receipts
<1>4. CASE q = r /\ at'[r] # at[r]
  <2>1. at'[r] - 1 = at[r] /\ Receipts(r, at[r] - 1, p)' = Receipts(r, at[r], p)
    BY <1>1, <1>4, Completed
  <2>2. at[r] \in Nat \ {0} /\ \A l : Receipts(r, l, p)' = Receipts(r, l, p)
    BY <1>2 DEF TypeOK, Receipts
  <2>3. /\ Receipts(r, at[r], p) = Receipts(r, at[r] - 1, p) + One(p \in Source(Cur(r)))
        /\ Receipts(r, at[r] - 1, p) \in Nat
    BY Counted
  <2>4. CASE p \in Source(Cur(r))
    <3>1. p \in Source(prog[r][at[r]])
      BY <2>4 DEF Cur
    <3> QED
      BY <1>2, <1>4, <2>1, <2>2, <3>1
  <2>5. CASE p \notin Source(Cur(r))
    <3>1. Receipts(r, at[r], p) = Receipts(r, at[r] - 1, p)
      BY <2>3, <2>5 DEF One
    <3>2. PICK l \in 1 .. at[r] - 1 :
            p \in Source(prog[r][l]) /\ Receipts(r, l, p) = Receipts(r, at[r] - 1, p)
      BY <1>4, <2>1, <3>1 DEF LastInv
    <3>3. l \in 1 .. at[r]
      BY <2>2
    <3> QED
      BY <1>2, <1>4, <2>1, <2>2, <3>1, <3>2, <3>3
  <2> QED
    BY <2>4, <2>5
<1> QED
  BY <1>2, <1>3, <1>4

\* A sender that has passed its wait: its receiver is in the matching receipt
\* and has announced it, or has completed it.
LEMMA Met ==
  ASSUME CountersInv, PairInv, NEW r \in Ranks, Active(r), NEW p \in Target(Cur(r)),
         step[r] > ReadyStep(r, Cur(r))
  PROVE  /\ p \in Ranks
         /\ \/ /\ Done(p, r) = Done(r, p) + 1 /\ Ahead(p, r)
               /\ step[r] > TellStep(r, Cur(r))
            \/ /\ Done(r, p) = Done(p, r)
               /\ Active(p) /\ r \in Source(Cur(p))
               /\ Receipts(p, at[p], r) = Sends(r, at[r], p)
               /\ step[p] > AnnounceStep(p, Cur(p))
               /\ WaitedNow(p, r) <= NotifiedNow(r, p)
               /\ p \in Source(Cur(r)) <=> r \in Target(Cur(p))
               /\ Cur(r).op = "exchange" <=> Cur(p).op = "exchange"
<1>1. Cur(r) \in Ops /\ p \in Ranks /\ p \in Partners(Cur(r))
  BY Current, PartnerKinds DEF CountersInv
<1>2. Waited(r, Cur(r), step[r], p) # 0 /\ WaitedNow(r, p) = Waited(r, Cur(r), step[r], p)
  BY DEF Waited, One, WaitedNow
<1>3. Done(r, p) # Done(p, r) + 1
  BY <1>1, <1>2, NotAhead
<1>4. CASE Done(p, r) = Done(r, p) + 1
  <2>1. /\ Ahead(p, r)
        /\ NotifiedNow(r, p) = One(p \in Target(Cur(r))) + One(p \in Source(Cur(r)))
    BY <1>1, <1>4, AheadWaits
  <2>2. step[r] > TellStep(r, Cur(r))
    BY <1>1, <2>1, AllNotified
  <2> QED
    BY <1>1, <1>4, <2>1, <2>2
<1>5. CASE Done(r, p) = Done(p, r)
  <2>1. WaitedNow(r, p) <= NotifiedNow(p, r) /\ WaitedNow(p, r) <= NotifiedNow(r, p)
    BY <1>1, <1>5, LevelWaits
  <2>2. NotifiedNow(p, r) # 0
    BY <1>1, <1>2, <2>1, NowBounds DEF CountersInv
  <2>3. Active(p) /\ r \in Partners(Cur(p)) /\ NotifiedNow(p, r) = Notified(p, Cur(p), step[p], r)
    BY <1>1, <2>2, NowBounds DEF CountersInv
  <2>4. /\ Sends(r, at[r], p) = Receipts(p, at[p], r)
        /\ r \in Source(Cur(p))
        /\ p \in Source(Cur(r)) <=> r \in Target(Cur(p))
        /\ Cur(r).op = "exchange" <=> Cur(p).op = "exchange"
    BY <1>1, <1>5, <2>3, SameRound
  <2>5. step[p] > AnnounceStep(p, Cur(p))
    <3>1. Cur(p) \in Ops /\ step[p] \in Nat
      BY <1>1, <2>3, Current DEF CountersInv, TypeOK
    <3>2. step[p] > AnnounceStep(p, Cur(p)) \/ (r \in Target(Cur(p)) /\ step[p] > TellStep(p, Cur(p)))
      BY <2>2, <2>3 DEF Notified, One
    <3>3. r \in Target(Cur(p)) => Cur(p).op = "exchange"
      BY <2>4, <3>1, PartnerKinds
    <3> QED
      BY <1>1, <3>1, <3>2, <3>3, StepOrder
  <2> QED
    BY <1>1, <1>5, <2>1, <2>3, <2>4, <2>5
<1> QED
  BY <1>1, <1>3, <1>4, <1>5, Positions

LEMMA RendezvousStep ==
  ASSUME CountersInv, PairInv, LastInv, RendezvousInv, NEW r \in Ranks, Stream(r)
  PROVE  RendezvousInv'
<1>1. TypeOK /\ Active(r) /\ Advance(r) /\ Cur(r) \in Ops
  BY Steps, Current DEF CountersInv
<1>2. prog' = prog /\ \A q \in Ranks \ {r} : at'[q] = at[q] /\ step'[q] = step[q]
  BY <1>1, Moved
<1>3. /\ \A q, k, p : Sends(q, k, p)' = Sends(q, k, p) /\ Receipts(q, k, p)' = Receipts(q, k, p)
      /\ \A q, o : AnnounceStep(q, o)' = AnnounceStep(q, o)
  BY <1>2 DEF Sends, Receipts, AnnounceStep, Direct
<1> DEFINE There(p, l) == l < at[p] \/ (l = at[p] /\ step[p] > AnnounceStep(p, prog[p][l]))
           Meets(q, k, p) == \E l \in 1 .. Len(prog[p]) :
                               /\ q \in Source(prog[p][l]) /\ Receipts(p, l, q) = Sends(q, k, p)
                               /\ There(p, l)
<1>4. \A p \in Ranks : \A l \in 1 .. Len(prog[p]) : There(p, l) => There(p, l)'
  <2> SUFFICES ASSUME NEW p \in Ranks, NEW l \in 1 .. Len(prog[p]), There(p, l) PROVE There(p, l)'
    OBVIOUS
  <2>1. CASE p # r
    BY <1>2, <1>3, <2>1
  <2>2. CASE p = r
    <3>1. at[r] \in Nat /\ step[r] \in Nat
      BY <1>1 DEF TypeOK
    <3>2. AnnounceStep(r, prog[r][l]) \in Nat
      BY <1>1, StepOrder, Programmed, <2>2
    <3> QED
      BY <1>1, <1>2, <1>3, <2>2, <3>1, <3>2, Moved
  <2> QED
    BY <2>1, <2>2
<1>5. \A q, k : \A p \in Ranks : Meets(q, k, p) => Meets(q, k, p)'
  <2> HIDE DEF There
  <2> QED
    BY <1>2, <1>3, <1>4
<1>6. \A q \in Ranks : \A k \in 1 .. at[q] - 1 : \A p \in Target(prog[q][k]) : Meets(q, k, p)
  BY DEF RendezvousInv
<1>7. at'[r] # at[r] => \A p \in Target(Cur(r)) : Meets(r, at[r], p)
  <2> SUFFICES ASSUME at'[r] # at[r], NEW p \in Target(Cur(r)) PROVE Meets(r, at[r], p)
    OBVIOUS
  <2>1. p \in Ranks /\ step[r] > ReadyStep(r, Cur(r))
    BY <1>1, Completed, StepOrder, PartnerKinds
  <2>2. CASE Done(p, r) = Done(r, p) + 1 /\ Ahead(p, r)
    <3>1. Receipts(p, at[p] - 1, r) = Sends(r, at[r], p)
      BY <2>2 DEF Ahead
    <3>2. Sends(r, at[r], p) # 0
      <4>1. /\ Sends(r, at[r], p) = Sends(r, at[r] - 1, p) + One(p \in Target(Cur(r)))
            /\ Sends(r, at[r] - 1, p) \in Nat
        BY <1>1, <2>1, Counted
      <4> QED
        BY <4>1 DEF One
    <3>3. PICK l \in 1 .. at[p] - 1 :
            r \in Source(prog[p][l]) /\ Receipts(p, l, r) = Receipts(p, at[p] - 1, r)
      BY <2>1, <3>1, <3>2 DEF LastInv
    <3>4. l \in 1 .. Len(prog[p]) /\ l < at[p]
      BY <1>1, <2>1, Past
    <3> QED
      BY <3>1, <3>3, <3>4
  <2>3. CASE /\ Active(p) /\ r \in Source(Cur(p)) /\ Receipts(p, at[p], r) = Sends(r, at[r], p)
             /\ step[p] > AnnounceStep(p, Cur(p))
    <3>1. at[p] \in 1 .. Len(prog[p]) /\ Cur(p) = prog[p][at[p]]
      BY <1>1, <2>1, <2>3, Current
    <3> QED
      BY <2>3, <3>1
  <2> QED
    BY <1>1, <2>1, <2>2, <2>3, Met
<1>8. SUFFICES ASSUME NEW q \in Ranks, NEW k \in 1 .. at'[q] - 1, NEW p \in Target(prog[q][k])
               PROVE  Meets(q, k, p)'
  BY <1>2 DEF RendezvousInv
<1> HIDE DEF Meets
<1>9. CASE k \in 1 .. at[q] - 1
  <2>1. p \in Ranks
    BY <1>1, <1>9, Past, Programmed, PartnerKinds
  <2> QED
    BY <1>5, <1>6, <1>9, <2>1
<1>10. CASE q = r /\ k = at[r] /\ at'[r] # at[r]
  <2>1. p \in Target(Cur(r)) /\ p \in Ranks
    BY <1>1, <1>10, PartnerKinds DEF Cur
  <2> QED
    BY <1>5, <1>7, <1>10, <2>1
<1>11. k \in 1 .. at[q] - 1 \/ (q = r /\ k = at[r] /\ at'[r] # at[r])
  <2>1. at[q] \in Nat /\ (at'[q] = at[q] \/ (q = r /\ at'[r] = at[r] + 1))
    BY <1>1, <1>2, Completed DEF TypeOK
  <2> QED
    BY <2>1
<1> QED
  BY <1>9, <1>10, <1>11

LEMMA RoundsInit == Init => RoundsInv
<1> SUFFICES ASSUME Init PROVE RoundsInv
  OBVIOUS
<1>1. \A r \in Ranks : at[r] = 1 /\ at[r] - 1 = 0
  BY DEF Init
<1>2. \A r, p \in Ranks : Sends(r, 0, p) = 0 /\ Receipts(r, 0, p) = 0 /\ Rounds(r, 0, p) = 0
  BY Counts
<1>3. PairInv
  BY <1>1, <1>2 DEF PairInv, Paired, Done
<1>4. LastInv
  BY <1>1, <1>2 DEF LastInv
<1>5. RendezvousInv
  BY <1>1 DEF RendezvousInv
<1> QED
  BY <1>3, <1>4, <1>5, CountersInit DEF RoundsInv

LEMMA RoundsNext == RoundsInv /\ [Next]_vars => RoundsInv'
<1>1. ASSUME RoundsInv, NEW r \in Ranks, Stream(r) PROVE RoundsInv'
  <2>1. CountersInv'
    BY <1>1, CountersNext DEF RoundsInv, Next
  <2> QED
    BY <1>1, <2>1, PairStep, LastStep, RendezvousStep DEF RoundsInv, CountersInv
<1>2. ASSUME RoundsInv, UNCHANGED vars PROVE RoundsInv'
  <2>1. CountersInv'
    BY <1>2, Unchanged DEF RoundsInv
  <2>2. PairInv' /\ LastInv' /\ RendezvousInv'
    BY <1>2 DEF RoundsInv, vars, PairInv, Paired, Done, Ahead, LastInv, RendezvousInv, Sends,
                Receipts, Rounds, Active, Cur, AnnounceStep, Direct
  <2> QED
    BY <2>1, <2>2 DEF RoundsInv
<1> QED
  BY <1>1, <1>2 DEF Next, Finished

LEMMA Announcing == RoundsInv => Rendezvous
<1> SUFFICES ASSUME RoundsInv, NEW r \in Ranks, NEW k \in 1 .. at[r] - 1,
                    NEW p \in Target(prog[r][k])
             PROVE  \E l \in 1 .. Len(prog[p]) :
                      /\ r \in Source(prog[p][l]) /\ Receipts(p, l, r) = Sends(r, k, p)
                      /\ Announced(p, l)
  BY DEF Rendezvous
<1>1. TypeOK /\ p \in Ranks
  BY Past, Programmed, PartnerKinds DEF RoundsInv, CountersInv
<1>2. PICK l \in 1 .. Len(prog[p]) :
        /\ r \in Source(prog[p][l]) /\ Receipts(p, l, r) = Sends(r, k, p)
        /\ l < at[p] \/ (l = at[p] /\ step[p] > AnnounceStep(p, prog[p][l]))
  BY DEF RoundsInv, RendezvousInv
<1>3. CASE l = at[p] /\ step[p] > AnnounceStep(p, prog[p][l])
  <2> DEFINE o == prog[p][l]
             s == AnnounceStep(p, o)
  <2>1. Active(p) /\ Cur(p) = o
    BY <1>1, <1>3, Programmed DEF Active, Cur
  <2>2. o \in Ops /\ step[p] \in 1 .. Length(p, o) /\ Length(p, o) \in Nat
    BY <1>1, <2>1, Current, StepOrder
  <2>3. s \in 1 .. step[p] - 1 /\ s \in 1 .. Length(p, o)
    <3>1. s \in Nat \ {0} /\ step[p] > s
      BY <1>1, <1>3, <2>2, StepOrder
    <3> HIDE DEF s
    <3> QED
      BY <2>2, <3>1
  <2>4. o.op = "recv" \/ o.op = "exchange"
    BY <1>2, <2>2, PartnerKinds
  <2>5. Script(p, o)[s] = "ready" \/ Script(p, o)[s] = "notify"
    <3>1. s \in 1 .. Len(Script(p, o))
      BY <1>1, <2>2, <2>3, ScriptLength
    <3> QED
      BY <1>1, <2>2, <2>4, <3>1, StepTable
  <2> QED
    BY <1>2, <1>3, <2>3, <2>5 DEF Announced
<1> QED
  BY <1>2, <1>3 DEF Announced

\* A send completes only when its receiver has announced the receipt that
\* matches it, for all programs whose operations match.
THEOREM SendsAreRendezvous == Spec => []Rendezvous
<1>1. Spec => []RoundsInv
  BY RoundsInit, RoundsNext, PTL DEF Spec
<1> QED
  BY <1>1, Announcing, PTL

-----------------------------------------------------------------------------
(* The data: what the positions of a pair say of its messages.             *)

\* All that a rank has received has been transferred,
ReceivedAll ==
  \A r, p \in Ranks :
    /\ Transferred(r, p) \in Nat
    /\ Transferred(r, p) >= Receipts(p, at[p] - 1, r)

\* and nothing before it was announced.
NotEarly ==
  \A p \in Ranks : Active(p) => \A r \in Source(Cur(p)) :
    Transferred(r, p) >= Receipts(p, at[p], r) => step[p] > AnnounceStep(p, Cur(p))

LEMMA ReceivedAllHolds == RoundsInv => ReceivedAll
<1> SUFFICES ASSUME CountersInv, PairInv, NEW r \in Ranks, NEW p \in Ranks
             PROVE  /\ Transferred(r, p) \in Nat
                    /\ Transferred(r, p) >= Receipts(p, at[p] - 1, r)
  BY DEF RoundsInv, ReceivedAll
<1>1. /\ Sends(r, at[r] - 1, p) \in Nat
      /\ Sends(r, at[r], p) = Sends(r, at[r] - 1, p) + One(p \in Target(Cur(r)))
      /\ Receipts(p, at[p] - 1, r) \in Nat
      /\ Receipts(p, at[p], r) = Receipts(p, at[p] - 1, r) + One(r \in Source(Cur(p)))
  BY Counted DEF CountersInv
<1> DEFINE now == One(Active(r) /\ p \in Target(Cur(r)) /\ step[r] > TransferStep(r, Cur(r)))
<1>2. Transferred(r, p) = Sends(r, at[r] - 1, p) + now /\ now \in Nat
  BY DEF Transferred, One
<1> HIDE DEF now
<1>3. CASE Done(r, p) = Done(p, r)
  BY <1>1, <1>2, <1>3, LevelWaits
<1>4. CASE Done(r, p) = Done(p, r) + 1
  <2>1. Sends(r, at[r] - 1, p) = Receipts(p, at[p], r)
    BY <1>4, AheadWaits DEF Ahead
  <2>2. One(r \in Source(Cur(p))) \in Nat
    BY DEF One
  <2> QED
    BY <1>1, <1>2, <2>1, <2>2
<1>5. CASE Done(p, r) = Done(r, p) + 1
  <2>1. /\ Active(r) /\ Sends(r, at[r], p) = Receipts(p, at[p] - 1, r)
        /\ NotifiedNow(r, p) = One(p \in Target(Cur(r))) + One(p \in Source(Cur(r)))
    BY <1>5, AheadWaits DEF Ahead
  <2>2. p \in Target(Cur(r)) => step[r] > TransferStep(r, Cur(r))
    <3>1. p \in Target(Cur(r)) => step[r] > TellStep(r, Cur(r))
      BY <2>1, AllNotified
    <3>2. Cur(r) \in Ops /\ step[r] \in Nat
      BY <2>1, Current DEF CountersInv, TypeOK
    <3> QED
      BY <3>1, <3>2, StepOrder
  <2>3. now = One(p \in Target(Cur(r)))
    BY <2>1, <2>2 DEF now, One
  <2> QED
    BY <1>1, <1>2, <2>1, <2>3
<1> QED
  BY <1>3, <1>4, <1>5, Positions

LEMMA NotEarlyHolds == RoundsInv => NotEarly
<1> SUFFICES ASSUME CountersInv, PairInv, NEW p \in Ranks, Active(p), NEW r \in Source(Cur(p)),
                    Transferred(r, p) >= Receipts(p, at[p], r)
             PROVE  step[p] > AnnounceStep(p, Cur(p))
  BY DEF RoundsInv, NotEarly
<1>0. r \in Ranks
  BY Current, PartnerKinds DEF CountersInv
<1>1. /\ Sends(r, at[r] - 1, p) \in Nat
      /\ Sends(r, at[r], p) = Sends(r, at[r] - 1, p) + One(p \in Target(Cur(r)))
      /\ Receipts(p, at[p] - 1, r) \in Nat
      /\ Receipts(p, at[p], r) = Receipts(p, at[p] - 1, r) + 1
  <2>1. One(r \in Source(Cur(p))) = 1
    BY DEF One
  <2> QED
    BY <1>0, <2>1, Counted DEF CountersInv
<1> DEFINE now == One(Active(r) /\ p \in Target(Cur(r)) /\ step[r] > TransferStep(r, Cur(r)))
<1>2. /\ Transferred(r, p) = Sends(r, at[r] - 1, p) + now /\ now \in Nat
      /\ now <= One(p \in Target(Cur(r))) /\ One(p \in Target(Cur(r))) \in Nat
  BY DEF Transferred, One
<1> HIDE DEF now
<1>3. CASE Done(r, p) = Done(p, r)
  <2>1. Sends(r, at[r] - 1, p) = Receipts(p, at[p] - 1, r)
    BY <1>0, <1>3, LevelWaits
  <2>2. now # 0
    BY <1>1, <1>2, <2>1
  <2>3. Active(r) /\ p \in Target(Cur(r)) /\ step[r] > TransferStep(r, Cur(r))
    BY <2>2 DEF now, One
  <2>4. step[r] > ReadyStep(r, Cur(r))
    <3>1. Cur(r) \in Ops /\ step[r] \in Nat
      BY <1>0, <2>3, Current DEF CountersInv, TypeOK
    <3> QED
      BY <1>0, <2>3, <3>1, StepOrder
  <2>5. Done(p, r) # Done(r, p) + 1
    BY <1>0, <1>3, Positions
  <2> QED
    BY <1>0, <2>3, <2>4, <2>5, Met
<1>4. CASE Done(r, p) = Done(p, r) + 1
  BY <1>0, <1>4, AheadWaits, AllNotified
<1>5. CASE Done(p, r) = Done(r, p) + 1
  <2>1. Sends(r, at[r], p) = Receipts(p, at[p] - 1, r)
    BY <1>0, <1>5, AheadWaits DEF Ahead
  <2> QED
    BY <1>1, <1>2, <2>1
<1> QED
  BY <1>0, <1>3, <1>4, <1>5, Positions

\* The receiver of a transfer waits for it.
LEMMA Sending ==
  ASSUME RoundsInv, NEW r \in Ranks, Active(r), Command(r) = "transfer"
  PROVE  LET p == Cur(r).peer IN
         /\ p \in Ranks /\ p # r /\ Target(Cur(r)) = {p}
         /\ Active(p) /\ r \in Source(Cur(p)) /\ Receipts(p, at[p], r) = Sends(r, at[r], p)
         /\ step[p] > AnnounceStep(p, Cur(p)) /\ step[p] <= ReceiveStep(p, Cur(p))
         /\ DirectReceipt(p) <=> ~Crossing(r)
         /\ step[r] = TransferStep(r, Cur(r)) /\ Cur(r).op # "recv"
<1> DEFINE p == Cur(r).peer
<1>1. TypeOK /\ CountersInv /\ PairInv
  BY DEF RoundsInv, CountersInv
<1>2. /\ Cur(r) \in Ops /\ p \in Ranks /\ p # r
      /\ step[r] \in 1 .. Len(Script(r, Cur(r)))
      /\ step[r] \in Nat
  BY <1>1, Current DEF TypeOK
<1> HIDE DEF p
<1>0. TellStep(r, Cur(r)) \in Nat
  BY <1>2, StepNats
<1>3. Cur(r).op # "recv" /\ step[r] = TransferStep(r, Cur(r))
  BY <1>2, StepTable DEF Command
<1>4. /\ Target(Cur(r)) = {p} /\ step[r] > ReadyStep(r, Cur(r)) /\ step[r] < TellStep(r, Cur(r))
  <2>1. Target(Cur(r)) = {p}
    BY <1>2, <1>3, PartnerKinds DEF p
  <2> QED
    BY <1>2, <1>3, <2>1, StepNats
<1>5. /\ Active(p) /\ r \in Source(Cur(p)) /\ Receipts(p, at[p], r) = Sends(r, at[r], p)
      /\ step[p] > AnnounceStep(p, Cur(p)) /\ WaitedNow(p, r) <= NotifiedNow(r, p)
      /\ p \in Source(Cur(r)) <=> r \in Target(Cur(p))
      /\ Cur(r).op = "exchange" <=> Cur(p).op = "exchange"
  <2>1. ~(step[r] > TellStep(r, Cur(r)))
    BY <1>0, <1>2, <1>4
  <2> QED
    BY <1>1, <1>4, <2>1, Met
<1>6. Cur(p) \in Ops /\ step[p] \in Nat
  BY <1>1, <1>2, <1>5, Current DEF TypeOK
<1>7. step[p] <= ReceiveStep(p, Cur(p))
  <2>0. /\ ReceiveStep(p, Cur(p)) \in Nat /\ ReadyStep(p, Cur(p)) \in Nat
        /\ Cur(p).op = "exchange" => ReadyStep(p, Cur(p)) < ReceiveStep(p, Cur(p))
    BY <1>2, <1>6, StepNats
  <2> SUFFICES ASSUME step[p] > ReceiveStep(p, Cur(p)) PROVE FALSE
    BY <1>6, <2>0
  <2>1. NotifiedNow(r, p) <= One(r \in Target(Cur(p)))
    <3>1. ~(step[r] > TellStep(r, Cur(r)))
      BY <1>0, <1>2, <1>4
    <3> QED
      BY <1>5, <3>1 DEF NotifiedNow, Notified, One
  <2>2. r \in Target(Cur(p)) => step[p] > ReadyStep(p, Cur(p))
    <3> SUFFICES ASSUME r \in Target(Cur(p)) PROVE step[p] > ReadyStep(p, Cur(p))
      OBVIOUS
    <3>1. Cur(p).op = "exchange"
      BY <1>5, <1>6, PartnerKinds
    <3> QED
      BY <1>6, <2>0, <3>1
  <2>3. WaitedNow(p, r) = One(r \in Target(Cur(p))) + 1
    BY <1>5, <2>2 DEF WaitedNow, Waited, One
  <2>4. One(r \in Target(Cur(p))) \in Nat /\ NotifiedNow(r, p) \in Nat
    BY DEF One, NotifiedNow, Notified
  <2> QED
    BY <1>5, <2>1, <2>3, <2>4
<1>8. DirectReceipt(p) <=> ~Crossing(r)
  <2>1. Cur(p).op = "recv" => Cur(p).peer = r
    BY <1>5, <1>6, PartnerKinds
  <2>2. Cur(p).op = "recv" <=> Cur(r).op = "send"
    BY <1>2, <1>3, <1>5, <1>6, PartnerKinds
  <2> QED
    BY <1>3, <2>1, <2>2 DEF p, DirectReceipt, Crossing, Direct
<1> QED
  BY <1>2, <1>3, <1>4, <1>5, <1>7, <1>8 DEF p

-----------------------------------------------------------------------------
(* How a step changes the buffers.                                         *)

LEMMA Buffers ==
  ASSUME RoundsInv, NEW t \in Ranks, Stream(t), NEW q \in Ranks
  PROVE  /\ inBuff'[q] = IF q = t /\ Command(t) = "copy"
                         THEN Message(t, Sends(t, at[t], Cur(t).peer)) ELSE inBuff[q]
         /\ recvList'[q] = IF q = t /\ Command(t) = "publish" THEN at[t] ELSE recvList[q]
         /\ outBuff'[q] = IF Command(t) = "transfer" /\ q = Cur(t).peer /\ Crossing(t)
                          THEN inBuff[t] ELSE outBuff[q]
         /\ \A k \in 1 .. Len(prog[q]) :
              recvbuf'[q][k] =
                IF q = t /\ Command(t) = "take" /\ k = at[t] THEN outBuff[t]
                ELSE IF /\ Command(t) = "transfer" /\ q = Cur(t).peer /\ ~Crossing(t)
                        /\ k = recvList[q]
                THEN Message(t, Sends(t, at[t], q)) ELSE recvbuf[q][k]
<1>1. Active(t) /\ TypeOK
  BY Steps DEF RoundsInv, CountersInv
<1>2. Cur(t).peer \in Ranks /\ Cur(t) \in Ops /\ at[t] \in 1 .. Len(prog[t])
  BY <1>1, Current
<1>3. /\ inBuff \in [Ranks -> Messages] /\ outBuff \in [Ranks -> Messages]
      /\ recvList \in [Ranks -> Nat] /\ recvbuf = [r \in Ranks |-> recvbuf[r]]
      /\ \A r \in Ranks : recvbuf[r] \in [1 .. Len(prog[r]) -> Messages]
  BY <1>1 DEF TypeOK
<1>4. CASE CopyIn(t)
  BY <1>3, <1>4 DEF CopyIn, At
<1>5. CASE Publish(t)
  BY <1>3, <1>5 DEF Publish, At
<1>6. CASE Take(t)
  <2>1. /\ Command(t) = "take" /\ recvbuf' = [recvbuf EXCEPT ![t][at[t]] = outBuff[t]]
        /\ UNCHANGED <<inBuff, outBuff, recvList>>
    BY <1>6 DEF Take, At
  <2>2. \A k \in 1 .. Len(prog[q]) :
          recvbuf'[q][k] = IF q = t /\ k = at[t] THEN outBuff[t] ELSE recvbuf[q][k]
    BY <1>2, <1>3, <2>1
  <2> QED
    BY <2>1, <2>2
<1>7. CASE Transfer(t)
  <2> DEFINE p == Cur(t).peer
             m == Message(t, Sends(t, at[t], p))
  <2>1. Command(t) = "transfer" /\ UNCHANGED <<inBuff, recvList>>
    BY <1>7 DEF Transfer, At
  <2>2. Crossing(t) <=> ~(Cur(t).op = "send" /\ Direct(t, p))
    BY <1>1, <2>1, Sending DEF Crossing
  <2>3. CASE Crossing(t)
    <3>1. outBuff' = [outBuff EXCEPT ![p] = inBuff[t]] /\ recvbuf' = recvbuf
      BY <1>7, <2>2, <2>3 DEF Transfer
    <3> QED
      BY <1>2, <1>3, <2>1, <2>3, <3>1
  <2>4. CASE ~Crossing(t)
    <3>1. recvbuf' = [recvbuf EXCEPT ![p][recvList[p]] = m] /\ outBuff' = outBuff
      BY <1>7, <2>2, <2>4 DEF Transfer
    <3> HIDE DEF m
    <3>2. \A k \in 1 .. Len(prog[q]) :
            recvbuf'[q][k] = IF q = p /\ k = recvList[p] THEN m ELSE recvbuf[q][k]
      BY <1>2, <1>3, <3>1
    <3> QED
      BY <2>1, <2>4, <3>1, <3>2 DEF m
  <2> QED
    BY <2>3, <2>4
<1>8. CASE /\ ~CopyIn(t) /\ ~Publish(t) /\ ~Take(t) /\ ~Transfer(t)
  <2>1. /\ UNCHANGED cross
        /\ Command(t) \in {"notify", "wait", "ready", "await", "signal", "barrier", "tell", "told"}
    BY <1>8 DEF Stream, NotifyPeer, WaitPeer, NotifySource, WaitSource, tcclSendRecvNotify,
                tcclSendRecvWait, Signal, PassBarrier, TellNext, WaitTold, At
  <2> QED
    BY <2>1 DEF cross
<1> QED
  BY <1>4, <1>5, <1>6, <1>7, <1>8

\* A transfer adds one message to what its sender has transferred.
LEMMA TransferredStep ==
  ASSUME RoundsInv, NEW t \in Ranks, Stream(t), NEW r \in Ranks, NEW p \in Ranks
  PROVE  Transferred(r, p)'
           = Transferred(r, p) + One(t = r /\ Command(t) = "transfer" /\ p = Cur(t).peer)
<1>1. TypeOK /\ Active(t) /\ Advance(t) /\ prog' = prog
  BY Steps, Moved DEF RoundsInv, CountersInv
<1>2. \A q, o : TransferStep(q, o)' = TransferStep(q, o)
  BY DEF TransferStep, ReadyStep, Direct
<1>3. Transferred(r, p) \in Nat
  BY ReceivedAllHolds DEF ReceivedAll
<1>4. CASE t # r
  <2>1. at'[r] = at[r] /\ step'[r] = step[r]
    BY <1>1, <1>4, Moved
  <2>2. Transferred(r, p)' = Transferred(r, p)
    BY <1>1, <1>2, <2>1, Others DEF Transferred
  <2>3. One(t = r /\ Command(t) = "transfer" /\ p = Cur(t).peer) = 0
    BY <1>4 DEF One
  <2> QED
    BY <1>3, <2>2, <2>3
<1>5. CASE t = r
  <2>1. /\ Cur(r) \in Ops /\ step[r] \in 1 .. Length(r, Cur(r))
        /\ step[r] \in 1 .. Len(Script(r, Cur(r)))
    BY <1>1, <1>5, Current
  <2>2. Command(r) = "transfer" <=> Cur(r).op # "recv" /\ step[r] = TransferStep(r, Cur(r))
    BY <2>1, StepTable DEF Command
  <2>3. p \in Target(Cur(r)) <=> Cur(r).op # "recv" /\ p = Cur(r).peer
    BY <2>1, PartnerKinds
  <2>4. TransferStep(r, Cur(r)) \in Nat /\ Length(r, Cur(r)) \in Nat
    BY <2>1, StepNats
  <2> DEFINE now == One(p \in Target(Cur(r)) /\ step[r] > TransferStep(r, Cur(r)))
             hit == One(p \in Target(Cur(r)) /\ step[r] = TransferStep(r, Cur(r)))
  <2>5. Transferred(r, p) = Sends(r, at[r] - 1, p) + now
    BY <1>1, <1>5 DEF Transferred, One
  <2>6. One(t = r /\ Command(t) = "transfer" /\ p = Cur(t).peer) = hit
    BY <1>5, <2>2, <2>3 DEF One
  <2>7. now \in Nat /\ hit \in Nat /\ Sends(r, at[r] - 1, p) \in Nat
    BY <1>1, Counted DEF One
  <2>8. CASE at'[r] = at[r]
    <3>1. /\ (Active(r)' <=> Active(r)) /\ Cur(r)' = Cur(r)
          /\ Sends(r, at[r] - 1, p)' = Sends(r, at[r] - 1, p)
      BY <1>1, <1>5, <2>8, Others
    <3>2. step'[r] = step[r] + 1
      <4>1. at[r] \in Nat
        BY <1>1 DEF TypeOK
      <4>2. at'[r] # at[r] + 1
        BY <2>8, <4>1
      <4> QED
        BY <1>1, <1>5, <4>2, Moved
    <3>3. Transferred(r, p)'
            = Sends(r, at[r] - 1, p) + One(p \in Target(Cur(r)) /\ step[r] + 1 > TransferStep(r, Cur(r)))
      BY <1>1, <1>2, <1>5, <3>1, <3>2 DEF Transferred, One
    <3>4. One(p \in Target(Cur(r)) /\ step[r] + 1 > TransferStep(r, Cur(r))) = now + hit
      BY <2>1, <2>4 DEF One
    <3> QED
      BY <2>5, <2>6, <2>7, <3>3, <3>4
  <2>9. CASE at'[r] # at[r]
    <3>1. /\ step[r] = Length(r, Cur(r)) /\ step'[r] = 1
          /\ Sends(r, at[r] - 1, p)' = Sends(r, at[r], p)
          /\ Sends(r, at[r], p) = Sends(r, at[r] - 1, p) + One(p \in Target(Cur(r)))
      BY <1>1, <1>5, <2>9, Completed, Counted
    <3>2. p \in Target(Cur(r)) => step[r] > TransferStep(r, Cur(r))
      <4>1. /\ Cur(r).op # "recv" => TellStep(r, Cur(r)) <= Length(r, Cur(r))
            /\ TransferStep(r, Cur(r)) < TellStep(r, Cur(r)) /\ TellStep(r, Cur(r)) \in Nat
        BY <2>1, StepNats
      <4> QED
        BY <2>3, <2>4, <3>1, <4>1
    <3>3. now = One(p \in Target(Cur(r))) /\ hit = 0
      BY <2>1, <2>4, <3>2 DEF One
    <3>4. Transferred(r, p)' = Sends(r, at[r], p)
      <4>1. 1 > TransferStep(r, Cur(r)') => FALSE
        BY DEF TransferStep, ReadyStep
      <4>2. One(Active(r) /\ p \in Target(Cur(r)) /\ step[r] > TransferStep(r, Cur(r)))' = 0
        BY <1>2, <3>1, <4>1 DEF One
      <4>3. Sends(r, at[r], p) \in Nat
        BY <2>7, <3>1, <3>3
      <4> QED
        BY <3>1, <4>2, <4>3 DEF Transferred
    <3> QED
      BY <2>5, <2>6, <2>7, <3>1, <3>3, <3>4
  <2> QED
    BY <2>8, <2>9
<1> QED
  BY <1>4, <1>5

-----------------------------------------------------------------------------
(* The buffers hold what the positions say, and so does the user's data.   *)

LEMMA InBuffStep ==
  ASSUME RoundsInv, InBuffInv, NEW t \in Ranks, Stream(t)
  PROVE  InBuffInv'
<1>1. TypeOK /\ Active(t) /\ Advance(t) /\ prog' = prog
  BY Steps, Moved DEF RoundsInv, CountersInv
<1>2. /\ \A q : Crossing(q)' <=> (LET o == Cur(q)' IN
                  o.op # "recv" /\ ~(o.op = "send" /\ Direct(q, o.peer)))
      /\ \A q, o : ReadyStep(q, o)' = ReadyStep(q, o) /\ TransferStep(q, o)' = TransferStep(q, o)
  BY DEF Crossing, Direct, ReadyStep, TransferStep
<1> SUFFICES ASSUME NEW r \in Ranks, Active(r)', Crossing(r)',
                    ReadyStep(r, Cur(r)') <= step'[r], step'[r] <= TransferStep(r, Cur(r)')
             PROVE  inBuff'[r] = Message(r, Sends(r, at[r], Cur(r).peer)')
  BY <1>2 DEF InBuffInv, Message
<1>3. CASE at'[r] = at[r]
  <2>1. /\ Active(r) /\ Cur(r)' = Cur(r) /\ Crossing(r)
        /\ Sends(r, at[r], Cur(r).peer)' = Sends(r, at[r], Cur(r).peer)
    BY <1>1, <1>2, <1>3, Others DEF Crossing, Sends
  <2>2. /\ Cur(r) \in Ops /\ step[r] \in 1 .. Len(Script(r, Cur(r))) /\ step[r] \in Nat
        /\ ReadyStep(r, Cur(r)) \in Nat /\ TransferStep(r, Cur(r)) \in Nat
    BY <1>1, <2>1, Current, StepNats DEF TypeOK
  <2>3. Command(r) = "copy" <=> step[r] = ReadyStep(r, Cur(r)) - 1
    BY <2>1, <2>2, StepTable DEF Command, Crossing
  <2>4. inBuff'[r] = IF r = t /\ Command(r) = "copy"
                     THEN Message(r, Sends(r, at[r], Cur(r).peer)) ELSE inBuff[r]
    BY Buffers
  <2>5. CASE r # t
    <3>1. step'[r] = step[r]
      BY <1>1, <2>5, Moved
    <3> QED
      BY <2>1, <2>4, <2>5, <3>1 DEF InBuffInv
  <2>6. CASE r = t
    <3>1. step'[r] = step[r] + 1
      <4>1. at'[r] # at[r] + 1
        BY <1>1, <1>3 DEF TypeOK
      <4> QED
        BY <1>1, <2>6, <4>1, Moved
    <3>2. CASE step[r] = ReadyStep(r, Cur(r)) - 1
      BY <2>1, <2>3, <2>4, <2>6, <3>2
    <3>3. CASE step[r] # ReadyStep(r, Cur(r)) - 1
      <4>1. ReadyStep(r, Cur(r)) <= step[r] /\ step[r] <= TransferStep(r, Cur(r))
        BY <2>1, <2>2, <3>1, <3>3
      <4> QED
        BY <2>1, <2>3, <2>4, <3>3, <4>1 DEF InBuffInv
    <3> QED
      BY <3>2, <3>3
  <2> QED
    BY <2>5, <2>6
<1>4. CASE at'[r] # at[r]
  <2>1. step'[r] = 1
    BY <1>1, <1>4, Moved
  <2>2. /\ Cur(r)'.op # "recv"
        /\ ~(Cur(r)'.op = "send" /\ Direct(r, Cur(r)'.peer))
    BY <1>2
  <2>3. at'[r] \in 1 .. Len(prog[r]) /\ Cur(r)' = prog[r][at'[r]]
    <3>1. at'[r] \in Nat \ {0} /\ at'[r] <= Len(prog[r])
      BY <1>1, Moved DEF Active
    <3> QED
      BY <1>1, <3>1, Programmed DEF Cur
  <2>4. Cur(r)'.op \in {"send", "exchange"}
    BY <1>1, <2>2, <2>3, Programmed, PartnerKinds
  <2>5. ReadyStep(r, Cur(r)') >= 2
    BY <2>2, <2>4 DEF ReadyStep
  <2>6. ReadyStep(r, Cur(r)') \in Nat
    BY <1>1, <2>3, Programmed, StepNats
  <2> QED
    BY <2>1, <2>5, <2>6
<1> QED
  BY <1>3, <1>4

LEMMA ListStep ==
  ASSUME RoundsInv, ListInv, NEW t \in Ranks, Stream(t)
  PROVE  ListInv'
<1>1. TypeOK /\ Active(t) /\ Advance(t) /\ prog' = prog
  BY Steps, Moved DEF RoundsInv, CountersInv
<1> SUFFICES ASSUME NEW p \in Ranks, Active(p)', DirectReceipt(p)', step'[p] > 1
             PROVE  recvList'[p] = at'[p]
  BY DEF ListInv
<1>2. at'[p] = at[p]
  BY <1>1, Moved
<1>3. Active(p) /\ Cur(p)' = Cur(p) /\ DirectReceipt(p)
  BY <1>1, <1>2, Others DEF DirectReceipt, Direct
<1>4. /\ Cur(p) \in Ops /\ step[p] \in 1 .. Len(Script(p, Cur(p))) /\ step[p] \in Nat \ {0}
  BY <1>1, <1>3, Current DEF TypeOK
<1>5. Command(p) = "publish" <=> step[p] = 1
  BY <1>3, <1>4, StepTable DEF Command, DirectReceipt
<1>6. recvList'[p] = IF p = t /\ Command(p) = "publish" THEN at[p] ELSE recvList[p]
  BY Buffers
<1>7. CASE p # t
  <2>1. step'[p] = step[p]
    BY <1>1, <1>7, Moved
  <2> QED
    BY <1>2, <1>3, <1>6, <1>7, <2>1 DEF ListInv
<1>8. CASE p = t
  <2>1. step[p] = 1 \/ step[p] > 1
    BY <1>4
  <2> QED
    BY <1>2, <1>3, <1>5, <1>6, <1>8, <2>1 DEF ListInv
<1> QED
  BY <1>7, <1>8

\* Nobody but its sender writes to a receiver,
LEMMA OneSender ==
  ASSUME RoundsInv, ListInv, NEW p \in Ranks, Active(p), NEW t \in Ranks, Active(t),
         Command(t) = "transfer", p = Cur(t).peer
  PROVE  /\ Source(Cur(p)) = {t} /\ t # p
         /\ ~Crossing(t) => recvList[p] = at[p]
<1>1. /\ t \in Source(Cur(p)) /\ t # p
      /\ DirectReceipt(p) <=> ~Crossing(t)
      /\ step[p] > AnnounceStep(p, Cur(p))
  BY Sending
<1>2. Cur(p) \in Ops /\ step[p] \in Nat
  <2>1. TypeOK
    BY DEF RoundsInv, CountersInv
  <2> QED
    BY <2>1, Current DEF TypeOK
<1>3. Source(Cur(p)) = {t}
  BY <1>1, <1>2, PartnerKinds
<1>4. step[p] > 1
  <2>1. AnnounceStep(p, Cur(p)) >= 1 /\ AnnounceStep(p, Cur(p)) \in Nat
    BY <1>2, StepNats
  <2> QED
    BY <1>1, <1>2, <2>1
<1> QED
  BY <1>1, <1>3, <1>4 DEF ListInv

LEMMA ArrivedStep ==
  ASSUME RoundsInv, InBuffInv, ListInv, ArrivedInv, NEW t \in Ranks, Stream(t)
  PROVE  ArrivedInv'
<1>1. TypeOK /\ Active(t) /\ Advance(t) /\ prog' = prog
  BY Steps, Moved DEF RoundsInv, CountersInv
<1>2. NotEarly'
  <2>1. RoundsInv'
    BY RoundsNext DEF Next
  <2> QED
    BY <2>1, NotEarlyHolds, PTL
<1> SUFFICES ASSUME NEW p \in Ranks, Active(p)', NEW r \in Source(Cur(p)'),
                    Transferred(r, p)' >= Receipts(p, at[p], r)'
             PROVE  Arrived(p, r)'
  BY DEF ArrivedInv, Source
<1>3. \A q, o : AnnounceStep(q, o)' = AnnounceStep(q, o) /\ TakeStep(q, o)' = TakeStep(q, o)
  BY DEF AnnounceStep, TakeStep, ReceiveStep, Direct
<1>4. step'[p] > AnnounceStep(p, Cur(p)') /\ step'[p] > 1
  <2>1. step'[p] > AnnounceStep(p, Cur(p)')
    BY <1>2, <1>3 DEF NotEarly, Source
  <2>2. step'[p] \in Nat
    BY <1>1, Moved
  <2> QED
    BY <2>1, <2>2 DEF AnnounceStep
<1>5. at'[p] = at[p]
  BY <1>1, <1>4, Moved
<1>6. /\ Active(p) /\ Cur(p)' = Cur(p) /\ r \in Source(Cur(p))
      /\ Receipts(p, at[p], r)' = Receipts(p, at[p], r)
      /\ DirectReceipt(p)' <=> DirectReceipt(p)
  <2>1. /\ Active(p) /\ Cur(p)' = Cur(p)
        /\ Receipts(p, at[p], r)' = Receipts(p, at[p], r)
    BY <1>1, <1>5, Others DEF Receipts
  <2>2. r \in Source(Cur(p))
    BY <2>1 DEF Source
  <2> QED
    BY <2>1, <2>2 DEF DirectReceipt, Direct
<1>7. /\ Cur(p) \in Ops /\ r \in Ranks /\ at[p] \in 1 .. Len(prog[p]) /\ step[p] \in Nat
      /\ step[p] \in 1 .. Len(Script(p, Cur(p))) /\ Cur(p).op # "send"
      /\ ReceiveStep(p, Cur(p)) \in Nat /\ TakeStep(p, Cur(p)) = ReceiveStep(p, Cur(p)) + 1
  BY <1>1, <1>6, Current, PartnerKinds, StepNats DEF TypeOK
<1>8. Arrived(p, r)' <=>
        IF DirectReceipt(p) \/ step'[p] > TakeStep(p, Cur(p))
        THEN recvbuf'[p][at[p]] = Message(r, Receipts(p, at[p], r))
        ELSE outBuff'[p] = Message(r, Receipts(p, at[p], r))
  BY <1>3, <1>5, <1>6 DEF Arrived, Message
<1>9. /\ outBuff'[p] = IF Command(t) = "transfer" /\ p = Cur(t).peer /\ Crossing(t)
                       THEN inBuff[t] ELSE outBuff[p]
      /\ recvbuf'[p][at[p]] =
           IF p = t /\ Command(t) = "take" THEN outBuff[p]
           ELSE IF Command(t) = "transfer" /\ p = Cur(t).peer /\ ~Crossing(t) /\ at[p] = recvList[p]
           THEN Message(t, Sends(t, at[t], p)) ELSE recvbuf[p][at[p]]
  BY <1>7, Buffers
<1>10. CASE Command(t) = "transfer" /\ p = Cur(t).peer
  <2>1. r = t /\ t # p /\ (~Crossing(t) => recvList[p] = at[p])
    BY <1>1, <1>6, <1>10, OneSender
  <2>2. /\ Receipts(p, at[p], t) = Sends(t, at[t], p) /\ step[p] <= ReceiveStep(p, Cur(p))
        /\ DirectReceipt(p) <=> ~Crossing(t)
        /\ step[t] = TransferStep(t, Cur(t)) /\ Cur(t).op # "recv"
    BY <1>1, <1>10, Sending
  <2>3. step'[p] = step[p]
    BY <1>1, <2>1, Moved
  <2>4. CASE Crossing(t)
    <3>1. inBuff[t] = Message(t, Sends(t, at[t], p))
      <4>1. ReadyStep(t, Cur(t)) <= step[t] /\ step[t] <= TransferStep(t, Cur(t))
        BY <1>1, <2>2, Current, StepNats
      <4> QED
        BY <1>1, <1>10, <2>4, <4>1 DEF InBuffInv
    <3>2. ~(step'[p] > TakeStep(p, Cur(p)))
      BY <1>7, <2>2, <2>3
    <3> QED
      BY <1>8, <1>9, <1>10, <2>1, <2>2, <2>4, <3>1, <3>2
  <2>5. CASE ~Crossing(t)
    BY <1>8, <1>9, <1>10, <2>1, <2>2, <2>5
  <2> QED
    BY <2>4, <2>5
<1>11. CASE ~(Command(t) = "transfer" /\ p = Cur(t).peer)
  <2>1. Transferred(r, p)' = Transferred(r, p)
    <3>1. One(t = r /\ Command(t) = "transfer" /\ p = Cur(t).peer) = 0
      BY <1>11 DEF One
    <3>2. Transferred(r, p) \in Nat
      BY <1>7, ReceivedAllHolds DEF ReceivedAll
    <3> QED
      BY <1>7, <3>1, <3>2, TransferredStep
  <2>2. Arrived(p, r)
    BY <1>6, <2>1 DEF ArrivedInv
  <2>3. outBuff'[p] = outBuff[p]
    BY <1>9, <1>11
  <2>4. CASE p # t
    <3>1. step'[p] = step[p] /\ recvbuf'[p][at[p]] = recvbuf[p][at[p]]
      BY <1>1, <1>9, <1>11, <2>4, Moved
    <3> QED
      BY <1>8, <2>2, <2>3, <3>1 DEF Arrived
  <2>5. CASE p = t
    <3>1. step'[p] = step[p] + 1
      <4>1. at'[p] # at[p] + 1
        BY <1>5, <1>7
      <4> QED
        BY <1>1, <2>5, <4>1, Moved
    <3>2. Command(p) = "take" <=> ~DirectReceipt(p) /\ step[p] = TakeStep(p, Cur(p))
      BY <1>7, StepTable DEF Command, DirectReceipt
    <3>3. CASE Command(p) = "take"
      <4>1. ~(step[p] > TakeStep(p, Cur(p))) /\ step'[p] > TakeStep(p, Cur(p))
        BY <1>7, <3>1, <3>2, <3>3
      <4> QED
        BY <1>8, <1>9, <2>2, <2>5, <3>2, <3>3, <4>1 DEF Arrived
    <3>4. CASE Command(p) # "take"
      <4>1. recvbuf'[p][at[p]] = recvbuf[p][at[p]]
        BY <1>9, <1>11, <2>5, <3>4
      <4>2. DirectReceipt(p) \/ (step'[p] > TakeStep(p, Cur(p)) <=> step[p] > TakeStep(p, Cur(p)))
        BY <1>7, <3>1, <3>2, <3>4
      <4> QED
        BY <1>8, <2>2, <2>3, <4>1, <4>2 DEF Arrived
    <3> QED
      BY <3>3, <3>4
  <2> QED
    BY <2>4, <2>5
<1> QED
  BY <1>10, <1>11

LEMMA DeliveredStep ==
  ASSUME RoundsInv, ListInv, ArrivedInv, Delivered, NEW t \in Ranks, Stream(t)
  PROVE  Delivered'
<1>1. TypeOK /\ Active(t) /\ Advance(t) /\ prog' = prog
  BY Steps, Moved DEF RoundsInv, CountersInv
<1>2. /\ \A q \in Ranks \ {t} : at'[q] = at[q]
      /\ \A q \in Ranks : at[q] \in Nat \ {0} /\ Len(prog[q]) \in Nat
  BY <1>1, Moved, Programmed DEF TypeOK
<1>3. ReceivedAll'
  <2>1. RoundsInv'
    BY RoundsNext DEF Next
  <2> QED
    BY <2>1, ReceivedAllHolds, PTL
<1> SUFFICES ASSUME NEW p \in Ranks, NEW k \in 1 .. at'[p] - 1, NEW r \in Source(prog[p][k])
             PROVE  recvbuf'[p][k] = Message(r, Receipts(p, k, r))
  BY <1>1 DEF Delivered, Receipts, Message, Source
<1>4. k \in 1 .. Len(prog[p]) => recvbuf'[p][k] =
        IF p = t /\ Command(t) = "take" /\ k = at[t] THEN outBuff[t]
        ELSE IF Command(t) = "transfer" /\ p = Cur(t).peer /\ ~Crossing(t) /\ k = recvList[p]
        THEN Message(t, Sends(t, at[t], p)) ELSE recvbuf[p][k]
  BY Buffers
<1>5. CASE k \in 1 .. at[p] - 1
  <2>1. recvbuf[p][k] = Message(r, Receipts(p, k, r))
    BY <1>5 DEF Delivered
  <2>2. k \in 1 .. Len(prog[p]) /\ k # at[p]
    BY <1>1, <1>5, Past
  <2>3. ~(Command(t) = "transfer" /\ p = Cur(t).peer /\ ~Crossing(t) /\ k = recvList[p])
    <3> SUFFICES ASSUME Command(t) = "transfer", p = Cur(t).peer, ~Crossing(t) PROVE recvList[p] = at[p]
      BY <2>2
    <3>1. Active(p)
      BY <1>1, Sending
    <3> QED
      BY <1>1, <3>1, OneSender
  <2> QED
    BY <1>4, <2>1, <2>2, <2>3
<1>6. CASE p = t /\ k = at[p] /\ at'[p] # at[p]
  <2>1. /\ Cur(p) \in Ops /\ at[p] \in 1 .. Len(prog[p]) /\ r \in Source(Cur(p)) /\ r \in Ranks
        /\ step[p] = Length(p, Cur(p)) /\ step[p] \in 1 .. Len(Script(p, Cur(p))) /\ step[p] \in Nat
        /\ Receipts(p, at[p] - 1, r)' = Receipts(p, at[p], r)
    <3>1. Cur(p) = prog[p][k]
      BY <1>6 DEF Cur
    <3>2. Cur(p) \in Ops /\ at[p] \in 1 .. Len(prog[p])
      BY <1>1, <1>6, Current
    <3>3. r \in Source(Cur(p)) /\ r \in Ranks
      BY <3>1, <3>2, PartnerKinds
    <3> QED
      BY <1>1, <1>6, <3>2, <3>3, Current, Completed DEF TypeOK
  <2>2. ~(Command(t) = "transfer" /\ p = Cur(t).peer)
    BY <1>1, <1>6, Sending
  <2>3. Transferred(r, p) >= Receipts(p, at[p], r)
    <3>1. Transferred(r, p)' >= Receipts(p, at[p], r)
      BY <1>3, <2>1 DEF ReceivedAll
    <3>2. One(t = r /\ Command(t) = "transfer" /\ p = Cur(t).peer) = 0
      BY <2>2 DEF One
    <3>3. Transferred(r, p) \in Nat
      BY <2>1, ReceivedAllHolds DEF ReceivedAll
    <3> QED
      BY <2>1, <3>1, <3>2, <3>3, TransferredStep
  <2>4. Arrived(p, r)
    BY <1>1, <1>6, <2>1, <2>3 DEF ArrivedInv
  <2>5. recvbuf'[p][k] = IF Command(p) = "take" THEN outBuff[p] ELSE recvbuf[p][k]
    BY <1>4, <1>6, <2>1, <2>2
  <2>6. Command(p) = "take" <=> ~DirectReceipt(p) /\ step[p] = TakeStep(p, Cur(p))
    <3>1. Cur(p).op # "send"
      BY <2>1, PartnerKinds
    <3> QED
      BY <2>1, <3>1, StepTable DEF Command, DirectReceipt
  <2>7. DirectReceipt(p) \/ step[p] = TakeStep(p, Cur(p)) \/ step[p] > TakeStep(p, Cur(p))
    <3>1. Cur(p).op = "recv" \/ Cur(p).op = "exchange"
      BY <2>1, PartnerKinds
    <3>2. Cur(p).op = "exchange" =>
            TakeStep(p, Cur(p)) < Length(p, Cur(p)) /\ TakeStep(p, Cur(p)) \in Nat
      BY <2>1, StepOrder, StepNats
    <3>3. Cur(p).op = "recv" /\ ~DirectReceipt(p) => TakeStep(p, Cur(p)) = Length(p, Cur(p))
      BY DEF DirectReceipt, TakeStep, ReceiveStep, AnnounceStep, Length
    <3> QED
      BY <2>1, <3>1, <3>2, <3>3
  <2>8. TakeStep(p, Cur(p)) \in Nat
    BY <2>1, StepNats
  <2> QED
    BY <1>6, <2>1, <2>4, <2>5, <2>6, <2>7, <2>8 DEF Arrived
<1>7. k \in 1 .. at[p] - 1 \/ (p = t /\ k = at[p] /\ at'[p] # at[p])
  <2>1. at'[p] = at[p] \/ (p = t /\ at'[p] = at[p] + 1)
    BY <1>1, <1>2, Moved
  <2> QED
    BY <1>2, <2>1
<1> QED
  BY <1>5, <1>6, <1>7

LEMMA DataInit == Init => IInv
<1> SUFFICES ASSUME Init PROVE IInv
  OBVIOUS
<1>1. RoundsInv
  BY RoundsInit
<1>2. \A r \in Ranks : at[r] = 1 /\ at[r] - 1 = 0 /\ step[r] = 1
  BY DEF Init
<1>3. InBuffInv
  <2> SUFFICES ASSUME NEW r \in Ranks, Active(r), Crossing(r), ReadyStep(r, Cur(r)) <= 1
               PROVE  FALSE
    BY <1>2 DEF InBuffInv
  <2>1. Cur(r) \in Ops
    BY <1>1, Current DEF RoundsInv, CountersInv
  <2>2. Cur(r).op \in {"send", "exchange"} /\ ~(Cur(r).op = "send" /\ Direct(r, Cur(r).peer))
    BY <2>1, PartnerKinds DEF Crossing
  <2> QED
    BY <2>2 DEF ReadyStep
<1>4. ListInv
  BY <1>2 DEF ListInv
<1>5. ArrivedInv
  <2> SUFFICES ASSUME NEW p \in Ranks, Active(p), NEW r \in Source(Cur(p)),
                      Transferred(r, p) >= Receipts(p, at[p], r)
               PROVE  FALSE
    BY DEF ArrivedInv
  <2>1. step[p] > AnnounceStep(p, Cur(p))
    BY <1>1, NotEarlyHolds DEF NotEarly
  <2> QED
    BY <1>2, <2>1 DEF AnnounceStep
<1>6. Delivered
  BY <1>2 DEF Delivered
<1> QED
  BY <1>1, <1>3, <1>4, <1>5, <1>6 DEF IInv

LEMMA DataNext == IInv /\ [Next]_vars => IInv'
<1>1. ASSUME IInv, NEW t \in Ranks, Stream(t) PROVE IInv'
  <2>1. RoundsInv'
    BY <1>1, RoundsNext DEF IInv, Next
  <2> QED
    BY <1>1, <2>1, InBuffStep, ListStep, ArrivedStep, DeliveredStep DEF IInv
<1>2. ASSUME IInv, UNCHANGED vars PROVE IInv'
  <2>1. RoundsInv'
    BY <1>2, RoundsNext DEF IInv
  <2>2. /\ prog' = prog /\ at' = at /\ step' = step /\ inBuff' = inBuff /\ outBuff' = outBuff
        /\ recvList' = recvList /\ recvbuf' = recvbuf
    BY <1>2 DEF vars, cross
  <2>3. InBuffInv'
    BY <1>2, <2>2 DEF IInv, InBuffInv, Crossing, Message, Sends, Active, Cur, Direct, ReadyStep,
                      TransferStep
  <2>4. ListInv'
    BY <1>2, <2>2 DEF IInv, ListInv, DirectReceipt, Active, Cur, Direct
  <2>5. /\ \A q : Cur(q)' = Cur(q) /\ (Active(q)' <=> Active(q))
        /\ \A q, k, u : Receipts(q, k, u)' = Receipts(q, k, u) /\ Sends(q, k, u)' = Sends(q, k, u)
    BY <2>2 DEF Cur, Active, Receipts, Sends
  <2>6. \A q, u : Transferred(q, u)' = Transferred(q, u)
    BY <2>2, <2>5 DEF Transferred, TransferStep, ReadyStep, Direct
  <2>7. \A q, u : Arrived(q, u)' <=> Arrived(q, u)
    BY <2>2, <2>5 DEF Arrived, DirectReceipt, Direct, TakeStep, ReceiveStep, AnnounceStep, Message
  <2>8. ArrivedInv'
    BY <1>2, <2>2, <2>5, <2>6, <2>7 DEF IInv, ArrivedInv, Source
  <2>9. Delivered'
    BY <1>2, <2>2, <2>5 DEF IInv, Delivered, Message, Source
  <2> QED
    BY <2>1, <2>3, <2>4, <2>8, <2>9 DEF IInv
<1> QED
  BY <1>1, <1>2 DEF Next, Finished

\* A completed receive holds, and keeps, the message of the matching send,
\* through the buffers that all peers of a rank share.
THEOREM MessagesAreDelivered == Spec => []Delivered
<1>1. Spec => []IInv
  BY DataInit, DataNext, PTL DEF Spec
<1>2. IInv => Delivered
  BY DEF IInv
<1> QED
  BY <1>1, <1>2, PTL
=============================================================================
