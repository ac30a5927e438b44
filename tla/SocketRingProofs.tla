-------------------------- MODULE SocketRingProofs -------------------------
(***************************************************************************)
(* Proofs about SocketRing for every number of ranks, every capacity of    *)
(* the sockets and every program.                                          *)
(***************************************************************************)
EXTENDS SocketRing, TLAPS

-----------------------------------------------------------------------------
(* The inductive invariant.                                                *)

\* Messages a rank has received and sent since the ring was set up.
Rcvd(r) == Left(r) * Rounds + i[r]
Sent(r) == IF pc[r] = "recv" THEN Rcvd(r) + 1 ELSE Rcvd(r)

LoopInv ==
  \A r \in Ranks :
    /\ pc[r] = "recv" => i[r] < Rounds
    /\ pc[r] = "idle" => i[r] = 0
    /\ pc[r] # "idle" => entered[r] \in Calls

\* What was sent to r and not yet received is in the socket.
CountInv ==
  \A r \in Ranks : Sent(Prev(r)) = Rcvd(r) + Len(sock[Prev(r)])

\* A rank that has received m messages has heard, through the ranks between,
\* of message m - d + 1 of the rank d places before it.
HeardInv ==
  \A r \in Ranks : \A d \in 1 .. nranks - 1 :
    Sent(Minus(r, d)) >= Rcvd(r) - d + 1

\* The message of round j of gather k carries slice rank - j of that gather.
MsgInv ==
  \A r \in Ranks : \A p \in 1 .. Len(sock[r]) :
    \A k \in Calls : \A j \in 0 .. Rounds - 1 :
      /\ (k - 1) * Rounds + j = Sent(r) - Len(sock[r]) + p - 1
      /\ prog[k] = "gather"
      => sock[r][p] = <<k, Minus(r, j)>>

\* In round i of a gather the last i + 1 slices of the ring are filled.
DataInv ==
  \A r \in Ranks :
    pc[r] # "idle" /\ prog[entered[r]] = "gather" =>
      \A j \in 0 .. i[r] : data[r][Minus(r, j)] = <<entered[r], Minus(r, j)>>

IInv ==
  /\ TypeOK
  /\ LoopInv
  /\ CountInv
  /\ HeardInv
  /\ MsgInv
  /\ DataInv
  /\ GatherComplete

-----------------------------------------------------------------------------
(* Arithmetic of the ring.                                                 *)

LEMMA Consts == nranks \in Nat /\ nranks >= 1 /\ Rounds \in Nat /\ Rounds = nranks - 1
BY NranksAssumption DEF Rounds

LEMMA PrevInRing ==
  ASSUME NEW r \in Ranks
  PROVE  Prev(r) \in Ranks /\ r \in Int
BY Consts DEF Ranks, Prev

LEMMA MinusInRing ==
  ASSUME NEW r \in Ranks, NEW d \in 0 .. nranks - 1
  PROVE  /\ Minus(r, d) \in Ranks
         /\ d = 0 => Minus(r, d) = r
         /\ d = 1 => Minus(r, d) = Prev(r)
         /\ d >= 1 => Minus(r, d) = Minus(Prev(r), d - 1)
BY Consts DEF Ranks, Minus, Prev

\* Different distances are different ranks, and every rank is at a distance.
LEMMA MinusInjective ==
  ASSUME NEW r \in Ranks, NEW d \in 0 .. nranks - 1, NEW e \in 0 .. nranks - 1, d # e
  PROVE  Minus(r, d) # Minus(r, e)
BY Consts DEF Ranks, Minus

LEMMA MinusOnto ==
  ASSUME NEW r \in Ranks, NEW s \in Ranks
  PROVE  \E d \in 0 .. nranks - 1 : s = Minus(r, d)
<1>1. CASE s <= r
  <2>1. r - s \in 0 .. nranks - 1 /\ s = Minus(r, r - s)
    BY <1>1, Consts DEF Ranks, Minus
  <2> QED
    BY <2>1
<1>2. CASE s > r
  <2>1. r - s + nranks \in 0 .. nranks - 1 /\ s = Minus(r, r - s + nranks)
    BY <1>2, Consts DEF Ranks, Minus
  <2> QED
    BY <2>1
<1> QED
  BY <1>1, <1>2, Consts DEF Ranks

LEMMA PrevInjective ==
  ASSUME NEW r \in Ranks, NEW s \in Ranks, Prev(r) = Prev(s)
  PROVE  r = s
BY Consts DEF Ranks, Prev

\* Messages are numbered call by call: the numbers tell call and round.
LEMMA MulMono ==
  ASSUME NEW a \in Int, NEW b \in Int, NEW m \in Nat, a <= b
  PROVE  /\ a * m <= b * m /\ a * m \in Int /\ b * m \in Int
         /\ (a + 1) * m = a * m + m
         /\ (a - 1) * m = a * m - m
<1>1. PICK d \in Nat : b = a + d
  <2>1. b - a \in Nat /\ b = a + (b - a)
    OBVIOUS
  <2> QED
    BY <2>1
<1>2. d * m \in Nat
  OBVIOUS
<1>3. b * m = a * m + d * m
  BY <1>1
<1> QED
  BY <1>2, <1>3

LEMMA NumberUnique ==
  ASSUME NEW k \in Int, NEW l \in Int,
         NEW a \in 0 .. Rounds - 1, NEW b \in 0 .. Rounds - 1,
         k * Rounds + a = l * Rounds + b
  PROVE  k = l /\ a = b
<1>0. Rounds \in Nat /\ k * Rounds \in Int /\ l * Rounds \in Int
  BY Consts
<1>1. ASSUME NEW x \in Int, NEW y \in Int, x < y
      PROVE  x * Rounds + Rounds <= y * Rounds
  <2>1. x + 1 <= y /\ x + 1 \in Int
    BY <1>1
  <2> QED
    BY <2>1, <1>0, <1>1, MulMono
<1>2. ~(k < l)
  BY <1>0, <1>1
<1>3. ~(l < k)
  BY <1>0, <1>1
<1>4. k = l
  BY <1>2, <1>3
<1> QED
  BY <1>0, <1>4

-----------------------------------------------------------------------------
(* Type correctness.                                                       *)

LEMMA InitType == Init => TypeOK
BY NumCallsAssumption, Consts DEF Init, TypeOK, Contents, Nothing, Token

LEMMA NextType == TypeOK /\ LoopInv /\ [Next]_vars => TypeOK'
<1> SUFFICES ASSUME TypeOK, LoopInv, [Next]_vars PROVE TypeOK'
  OBVIOUS
<1>0. /\ prog \in [Calls -> {"barrier", "gather"}]
      /\ entered \in [Ranks -> 0 .. NumCalls]
      /\ pc \in [Ranks -> {"idle", "send", "recv"}]
      /\ i \in [Ranks -> 0 .. Rounds]
      /\ sock \in [Ranks -> Seq(Contents)]
      /\ data \in [Ranks -> [Ranks -> Contents]]
      /\ NumCalls \in Nat
  BY NumCallsAssumption DEF TypeOK
<1>1. ASSUME NEW r \in Ranks, Call(r) PROVE TypeOK'
  <2>1. entered[r] + 1 \in 0 .. NumCalls /\ entered[r] + 1 \in Calls
    BY <1>0, <1>1 DEF Call, Calls
  <2>2. [s \in Ranks |-> IF s = r THEN <<entered[r] + 1, r>> ELSE Nothing]
          \in [Ranks -> Contents]
    BY <2>1 DEF Contents, Nothing, Token
  <2>3. data' \in [Ranks -> [Ranks -> Contents]]
    BY <1>0, <1>1, <2>2 DEF Call
  <2> QED
    BY <1>0, <1>1, <2>1, <2>3 DEF Call, TypeOK, First
<1>2. ASSUME NEW r \in Ranks, Send(r) PROVE TypeOK'
  <2>1. sslice(r, i[r]) \in Ranks
    BY <1>0, <1>2, Consts, MinusInRing DEF Send, sslice
  <2>2. (IF prog[entered[r]] = "gather" THEN data[r][sslice(r, i[r])] ELSE Token)
          \in Contents
    BY <1>0, <2>1 DEF Contents
  <2>3. sock' \in [Ranks -> Seq(Contents)]
    BY <1>0, <1>2, <2>2 DEF Send
  <2> QED
    BY <1>0, <1>2, <2>3 DEF Send, TypeOK
<1>3. ASSUME NEW r \in Ranks, Recv(r) PROVE TypeOK'
  <2>0. i[r] < Rounds /\ i[r] \in Nat
    BY <1>0, <1>3, Consts DEF Recv, LoopInv
  <2>1. i[r] + 1 \in 0 .. Rounds /\ rslice(r, i[r]) \in Ranks
    BY <2>0, Consts, MinusInRing DEF rslice
  <2>2. /\ Prev(r) \in Ranks /\ sock[Prev(r)] \in Seq(Contents)
        /\ sock[Prev(r)] # <<>>
    BY <1>0, <1>3, PrevInRing DEF Recv
  <2>3. Head(sock[Prev(r)]) \in Contents /\ Tail(sock[Prev(r)]) \in Seq(Contents)
    BY <2>2
  <2>4. sock' \in [Ranks -> Seq(Contents)]
    BY <1>0, <1>3, <2>3 DEF Recv
  <2>5. data' \in [Ranks -> [Ranks -> Contents]]
    BY <1>0, <1>3, <2>1, <2>3 DEF Recv
  <2> QED
    BY <1>0, <1>3, <2>1, <2>4, <2>5 DEF Recv, TypeOK
<1>4. ASSUME NEW r \in Ranks, Return(r) PROVE TypeOK'
  BY <1>0, <1>4, Consts DEF Return, TypeOK
<1>5. ASSUME UNCHANGED vars PROVE TypeOK'
  BY <1>5 DEF vars, TypeOK
<1> QED
  BY <1>1, <1>2, <1>3, <1>4, <1>5 DEF Next, Finished

LEMMA NextLoop == TypeOK /\ LoopInv /\ [Next]_vars => LoopInv'
<1> SUFFICES ASSUME TypeOK, LoopInv, [Next]_vars PROVE LoopInv'
  OBVIOUS
<1>0. /\ entered \in [Ranks -> 0 .. NumCalls]
      /\ pc \in [Ranks -> {"idle", "send", "recv"}]
      /\ i \in [Ranks -> 0 .. Rounds]
  BY DEF TypeOK
<1>1. ASSUME NEW r \in Ranks, Call(r) PROVE LoopInv'
  BY <1>0, <1>1 DEF Call, LoopInv, First
<1>2. ASSUME NEW r \in Ranks, Send(r) PROVE LoopInv'
  BY <1>0, <1>2 DEF Send, LoopInv
<1>3. ASSUME NEW r \in Ranks, Recv(r) PROVE LoopInv'
  BY <1>0, <1>3 DEF Recv, LoopInv
<1>4. ASSUME NEW r \in Ranks, Return(r) PROVE LoopInv'
  BY <1>0, <1>4 DEF Return, LoopInv
<1>5. ASSUME UNCHANGED vars PROVE LoopInv'
  BY <1>5 DEF vars, LoopInv
<1> QED
  BY <1>1, <1>2, <1>3, <1>4, <1>5 DEF Next, Finished

-----------------------------------------------------------------------------
(* How each step changes the counts.                                       *)

LEMMA CountTypes ==
  ASSUME TypeOK, NEW r \in Ranks
  PROVE  Rcvd(r) \in Int /\ Sent(r) \in Int /\ Left(r) \in Int
<1>1. Left(r) \in Int /\ i[r] \in Int /\ Rounds \in Int
  BY Consts, NumCallsAssumption DEF Left, TypeOK
<1>2. Left(r) * Rounds \in Int
  BY <1>1
<1> QED
  BY <1>1, <1>2 DEF Rcvd, Sent

\* Beginning a call and returning from it count no message.
LEMMA CallCounts ==
  ASSUME TypeOK, LoopInv, NEW r \in Ranks, Call(r) \/ Return(r)
  PROVE  /\ \A q \in Ranks : Rcvd(q)' = Rcvd(q) /\ Sent(q)' = Sent(q)
         /\ UNCHANGED sock
<1>0. /\ entered \in [Ranks -> 0 .. NumCalls] /\ NumCalls \in Nat
      /\ pc \in [Ranks -> {"idle", "send", "recv"}]
      /\ i \in [Ranks -> 0 .. Rounds] /\ Rounds \in Nat
  BY NumCallsAssumption, Consts DEF TypeOK
<1>1. UNCHANGED sock
  BY DEF Call, Return
<1>2. \A q \in Ranks : q # r => Left(q)' = Left(q) /\ i'[q] = i[q] /\ pc'[q] = pc[q]
  BY <1>0 DEF Call, Return, Left
<1>3. \A q \in Ranks : q # r => Rcvd(q)' = Rcvd(q) /\ Sent(q)' = Sent(q)
  BY <1>2 DEF Rcvd, Sent
<1>4. Rcvd(r)' = Rcvd(r) /\ pc'[r] # "recv" /\ pc[r] # "recv"
  <2>1. CASE Call(r)
    <3>1. Left(r)' = Left(r) /\ i'[r] = i[r]
      BY <2>1, <1>0 DEF Call, Left, First
    <3> QED
      BY <3>1, <2>1, <1>0 DEF Call, Rcvd, First
  <2>2. CASE Return(r)
    <3>1. /\ Left(r)' = entered[r] /\ Left(r) = entered[r] - 1
          /\ i'[r] = 0 /\ i[r] = Rounds
      BY <2>2, <1>0 DEF Return, Left
    <3>2. (entered[r] - 1) * Rounds = entered[r] * Rounds - Rounds
          /\ entered[r] * Rounds \in Int
      BY <1>0, MulMono
    <3> QED
      BY <3>1, <3>2, <2>2, <1>0 DEF Return, Rcvd
  <2> QED
    BY <2>1, <2>2
<1>5. Sent(r)' = Sent(r)
  BY <1>4 DEF Sent
<1> QED
  BY <1>1, <1>3, <1>4, <1>5

LEMMA SendCounts ==
  ASSUME TypeOK, LoopInv, NEW r \in Ranks, Send(r)
  PROVE  /\ \A q \in Ranks : Rcvd(q)' = Rcvd(q)
         /\ \A q \in Ranks : Sent(q)' = IF q = r THEN Sent(q) + 1 ELSE Sent(q)
         /\ Sent(r) = Rcvd(r)
         /\ Left(r) = entered[r] - 1
         /\ \E m \in Contents : sock' = [sock EXCEPT ![r] = Append(@, m)]
<1>0. /\ entered \in [Ranks -> 0 .. NumCalls] /\ NumCalls \in Nat
      /\ pc \in [Ranks -> {"idle", "send", "recv"}]
      /\ i \in [Ranks -> 0 .. Rounds] /\ Rounds \in Nat
      /\ data \in [Ranks -> [Ranks -> Contents]]
  BY NumCallsAssumption, Consts DEF TypeOK
<1>1. \A q \in Ranks : Left(q)' = Left(q) /\ i'[q] = i[q]
  BY <1>0 DEF Send, Left
<1>2. \A q \in Ranks : Rcvd(q)' = Rcvd(q)
  BY <1>1 DEF Rcvd
<1>3. pc[r] = "send" /\ pc' = [pc EXCEPT ![r] = "recv"] /\ i[r] < Rounds
  BY DEF Send
<1>4. \A q \in Ranks : Sent(q)' = IF q = r THEN Sent(q) + 1 ELSE Sent(q)
  BY <1>0, <1>2, <1>3 DEF Sent
<1>5. sslice(r, i[r]) \in Ranks
  BY <1>0, <1>3, Consts, MinusInRing DEF sslice
<1>6. \E m \in Contents : sock' = [sock EXCEPT ![r] = Append(@, m)]
  <2> DEFINE m == IF prog[entered[r]] = "gather" THEN data[r][sslice(r, i[r])] ELSE Token
  <2>1. m \in Contents
    BY <1>0, <1>5 DEF Contents
  <2>2. sock' = [sock EXCEPT ![r] = Append(@, m)]
    BY DEF Send
  <2> QED
    BY <2>1, <2>2
<1> QED
  BY <1>0, <1>2, <1>3, <1>4, <1>6 DEF Sent, Left

LEMMA RecvCounts ==
  ASSUME TypeOK, LoopInv, NEW r \in Ranks, Recv(r)
  PROVE  /\ \A q \in Ranks : Rcvd(q)' = IF q = r THEN Rcvd(q) + 1 ELSE Rcvd(q)
         /\ \A q \in Ranks : Sent(q)' = Sent(q)
         /\ Sent(r) = Rcvd(r) + 1
         /\ Left(r) = entered[r] - 1
         /\ i[r] + 1 \in 1 .. Rounds /\ entered[r] \in Calls
<1>0. /\ entered \in [Ranks -> 0 .. NumCalls] /\ NumCalls \in Nat
      /\ pc \in [Ranks -> {"idle", "send", "recv"}]
      /\ i \in [Ranks -> 0 .. Rounds] /\ Rounds \in Nat
      /\ \A q \in Ranks : Rcvd(q) \in Int
  BY NumCallsAssumption, Consts, CountTypes DEF TypeOK
<1>1. /\ pc[r] = "recv" /\ pc' = [pc EXCEPT ![r] = "send"]
      /\ i' = [i EXCEPT ![r] = @ + 1] /\ entered' = entered /\ i[r] < Rounds
      /\ entered[r] \in Calls
  BY DEF Recv, LoopInv
<1>2. \A q \in Ranks : Left(q)' = Left(q)
  BY <1>0, <1>1 DEF Left
<1>3. Left(r) * Rounds \in Int
  BY <1>0, Consts, CountTypes
<1>4. Rcvd(r)' = Rcvd(r) + 1
  <2>1. i'[r] = i[r] + 1 /\ i[r] \in Int
    BY <1>0, <1>1
  <2>2. Rcvd(r)' = Left(r) * Rounds + (i[r] + 1)
    BY <1>2, <2>1 DEF Rcvd
  <2> QED
    BY <2>2, <2>1, <1>3 DEF Rcvd
<1>5. \A q \in Ranks : q # r => Rcvd(q)' = Rcvd(q)
  BY <1>0, <1>1, <1>2 DEF Rcvd
<1>6. \A q \in Ranks : Sent(q)' = Sent(q)
  BY <1>0, <1>1, <1>4, <1>5 DEF Sent
<1> QED
  BY <1>0, <1>1, <1>4, <1>5, <1>6 DEF Sent, Left

-----------------------------------------------------------------------------
(* The invariant is inductive.                                             *)

LEMMA InitInv == Init => IInv
<1> SUFFICES ASSUME Init PROVE IInv
  OBVIOUS
<1>0. /\ TypeOK /\ Rounds \in Nat /\ 0 * Rounds = 0 /\ nranks \in Nat
      /\ \A r \in Ranks : r \in Int /\ Prev(r) \in Ranks
      /\ \A r \in Ranks : \A d \in 1 .. nranks - 1 : Minus(r, d) \in Ranks
  BY InitType, Consts, PrevInRing, MinusInRing
<1>1. \A r \in Ranks : Rcvd(r) = 0 /\ Sent(r) = 0 /\ Len(sock[r]) = 0
  BY <1>0 DEF Init, Rcvd, Sent, Left
<1>2. LoopInv
  BY <1>0 DEF Init, LoopInv
<1>3. CountInv
  BY <1>0, <1>1 DEF CountInv
<1>4. HeardInv
  BY <1>0, <1>1 DEF HeardInv
<1>5. MsgInv
  BY <1>1 DEF MsgInv
<1>6. DataInv /\ GatherComplete
  BY NumCallsAssumption DEF Init, DataInv, GatherComplete, Calls
<1> QED
  BY <1>0, <1>2, <1>3, <1>4, <1>5, <1>6 DEF IInv

\* Beginning and returning from a call leaves the traffic alone.
LEMMA CallTraffic ==
  ASSUME IInv, NEW r \in Ranks, Call(r) \/ Return(r)
  PROVE  CountInv' /\ HeardInv' /\ MsgInv'
<1>0. /\ \A q \in Ranks : Rcvd(q)' = Rcvd(q) /\ Sent(q)' = Sent(q)
      /\ UNCHANGED sock
      /\ \A q \in Ranks : q \in Int /\ Prev(q) \in Ranks
      /\ \A q \in Ranks : \A d \in 1 .. nranks - 1 : Minus(q, d) \in Ranks
  BY CallCounts, PrevInRing, MinusInRing, Consts DEF IInv
<1>1. prog' = prog
  BY DEF Call, Return
<1>2. CountInv'
  BY <1>0 DEF IInv, CountInv
<1>3. HeardInv'
  BY <1>0 DEF IInv, HeardInv
<1>4. MsgInv'
  BY <1>0, <1>1 DEF IInv, MsgInv
<1> QED
  BY <1>2, <1>3, <1>4

LEMMA SendTraffic ==
  ASSUME IInv, NEW r \in Ranks, Send(r)
  PROVE  CountInv' /\ HeardInv' /\ MsgInv'
<1>a. TypeOK /\ LoopInv /\ CountInv /\ HeardInv /\ MsgInv /\ DataInv
  BY DEF IInv
<1>b. \A q \in Ranks : Rcvd(q)' = Rcvd(q)
  BY <1>a, SendCounts
<1>c. \A q \in Ranks : Sent(q)' = IF q = r THEN Sent(q) + 1 ELSE Sent(q)
  BY <1>a, SendCounts
<1>d. Sent(r) = Rcvd(r) /\ Left(r) = entered[r] - 1
  BY <1>a, SendCounts
<1>e. \A q \in Ranks : q \in Int /\ Prev(q) \in Ranks
  BY PrevInRing
<1>f. \A q \in Ranks : \A d \in 1 .. nranks - 1 : Minus(q, d) \in Ranks
  BY MinusInRing, Consts
<1>g. \A q \in Ranks : Rcvd(q) \in Int /\ Sent(q) \in Int
  BY <1>a, CountTypes
<1> DEFINE m == IF prog[entered[r]] = "gather" THEN data[r][sslice(r, i[r])] ELSE Token
<1>1. /\ sock' = [sock EXCEPT ![r] = Append(@, m)]
      /\ prog' = prog /\ pc[r] = "send" /\ i[r] < Rounds
      /\ sock \in [Ranks -> Seq(Contents)]
  BY DEF Send, IInv, TypeOK
<1>2. m \in Contents
  <2>1. i[r] \in 0 .. nranks - 1
    BY Consts DEF IInv, TypeOK
  <2>2. sslice(r, i[r]) \in Ranks
    BY <2>1, MinusInRing DEF sslice
  <2> QED
    BY <2>2 DEF IInv, TypeOK, Contents
<1>3. /\ Len(sock'[r]) = Len(sock[r]) + 1
      /\ \A p \in 1 .. Len(sock[r]) : sock'[r][p] = sock[r][p]
      /\ sock'[r][Len(sock[r]) + 1] = m
      /\ \A q \in Ranks : q # r => sock'[q] = sock[q]
      /\ \A q \in Ranks : Len(sock[q]) \in Nat
  <2> HIDE DEF m
  <2> QED
    BY <1>1, <1>2
<1>h. \A q \in Ranks : /\ Sent(q)' - Len(sock'[q]) = Sent(q) - Len(sock[q])
                      /\ Sent(q)' \in Int /\ Len(sock'[q]) \in Nat
  <2>1. ASSUME NEW q \in Ranks
        PROVE  /\ Sent(q)' - Len(sock'[q]) = Sent(q) - Len(sock[q])
               /\ Sent(q)' \in Int /\ Len(sock'[q]) \in Nat
    <3>1. Sent(q) \in Int /\ Len(sock[q]) \in Nat
      BY <1>g, <1>3
    <3>2. CASE q = r
      <4>1. Sent(q)' = Sent(q) + 1
        BY <1>c, <3>2
      <4>2. Len(sock'[q]) = Len(sock[q]) + 1
        BY <1>3, <3>2
      <4> QED
        BY <3>1, <4>1, <4>2
    <3>3. CASE q # r
      BY <1>c, <1>3, <3>1, <3>3
    <3> QED
      BY <3>2, <3>3
  <2> QED
    BY <2>1
<1>4. CountInv'
  <2> SUFFICES ASSUME NEW q \in Ranks
               PROVE  Sent(Prev(q))' = Rcvd(q)' + Len(sock'[Prev(q)])
    BY DEF CountInv, Prev
  <2>1. Sent(Prev(q)) = Rcvd(q) + Len(sock[Prev(q)]) /\ Rcvd(q)' = Rcvd(q)
    BY <1>a, <1>b DEF CountInv
  <2>2. Prev(q) \in Ranks /\ Rcvd(q) \in Int /\ Sent(Prev(q)) \in Int
    BY <1>e, <1>g
  <2>3. Len(sock[Prev(q)]) \in Nat
    BY <1>3, <2>2
  <2>4. /\ Sent(Prev(q))' - Len(sock'[Prev(q)]) = Sent(Prev(q)) - Len(sock[Prev(q)])
        /\ Sent(Prev(q))' \in Int /\ Len(sock'[Prev(q)]) \in Nat
    BY <1>h, <2>2
  <2> QED
    BY <2>1, <2>2, <2>3, <2>4
<1>5. HeardInv'
  <2> SUFFICES ASSUME NEW q \in Ranks, NEW d \in 1 .. nranks - 1
               PROVE  Sent(Minus(q, d))' >= Rcvd(q)' - d + 1
    BY DEF HeardInv
  <2>1. Sent(Minus(q, d)) >= Rcvd(q) - d + 1
    BY <1>a DEF HeardInv
  <2>2. Sent(Minus(q, d))' >= Sent(Minus(q, d)) /\ Sent(Minus(q, d))' \in Int
    BY <1>c, <1>f, <1>g
  <2> QED
    BY <1>b, <1>f, <1>g, <2>1, <2>2, Consts
<1>6. MsgInv'
  <2>0. ASSUME NEW q \in Ranks, NEW p \in 1 .. Len(sock'[q]),
               NEW k \in Calls, NEW j \in 0 .. Rounds - 1,
               (k - 1) * Rounds + j = Sent(q)' - Len(sock'[q]) + p - 1,
               prog[k] = "gather"
        PROVE  sock'[q][p] = <<k, Minus(q, j)>>
    <3>1. CASE q # r
      <4>1. sock'[q] = sock[q] /\ Sent(q)' = Sent(q)
        BY <3>1, <1>3, <1>c
      <4> QED
        BY <4>1, <2>0, <1>a DEF MsgInv
    <3>2. CASE q = r /\ p # Len(sock[r]) + 1
      <4>1. p \in 1 .. Len(sock[r]) /\ sock'[r][p] = sock[r][p]
        BY <3>2, <1>3
      <4>2. Sent(r)' - Len(sock'[r]) = Sent(r) - Len(sock[r])
        BY <1>h
      <4> QED
        BY <4>1, <4>2, <2>0, <3>2, <1>a DEF MsgInv
    <3>3. CASE q = r /\ p = Len(sock[r]) + 1
      <4>1. (k - 1) * Rounds + j = Sent(r)
        BY <3>3, <2>0, <1>c, <1>3, <1>g
      <4>2. Sent(r) = (entered[r] - 1) * Rounds + i[r]
        BY <1>d DEF Rcvd
      <4>3. k \in Int /\ entered[r] \in Int
        BY <1>a, NumCallsAssumption DEF Calls, TypeOK
      <4>4. i[r] \in 0 .. Rounds - 1
        BY <1>1, <1>a, Consts DEF TypeOK
      <4>5. k - 1 \in Int /\ entered[r] - 1 \in Int
        BY <4>3
      <4>6. k - 1 = entered[r] - 1 /\ j = i[r]
        BY <4>1, <4>2, <4>4, <4>5, NumberUnique
      <4>7. k = entered[r]
        BY <4>3, <4>6
      <4>8. data[r][Minus(r, j)] = <<k, Minus(r, j)>>
        BY <4>4, <4>6, <4>7, <1>1, <1>a, <2>0 DEF DataInv
      <4>9. m = data[r][Minus(r, j)]
        BY <4>6, <4>7, <2>0 DEF sslice
      <4> QED
        BY <3>3, <4>8, <4>9, <1>3
    <3> QED
      BY <3>1, <3>2, <3>3
  <2> QED
    BY <2>0, <1>1 DEF MsgInv
<1> QED
  BY <1>4, <1>5, <1>6

\* The message r receives is the one its current round is about.
LEMMA RecvHead ==
  ASSUME IInv, NEW r \in Ranks, Recv(r), prog[entered[r]] = "gather"
  PROVE  Head(sock[Prev(r)]) = <<entered[r], Minus(r, i[r] + 1)>>
<1> DEFINE p == Prev(r)
<1>a. TypeOK /\ LoopInv /\ CountInv /\ MsgInv
  BY DEF IInv
<1>b. p \in Ranks /\ Sent(p) \in Int /\ Rcvd(r) \in Int
  BY <1>a, PrevInRing, CountTypes
<1>c. sock[p] \in Seq(Contents) /\ sock[p] # <<>>
  BY <1>a, <1>b DEF Recv, TypeOK
<1>d. /\ i[r] + 1 \in 1 .. Rounds /\ entered[r] \in Calls
      /\ Left(r) = entered[r] - 1
  BY <1>a, RecvCounts
<1>e. i[r] \in 0 .. Rounds - 1
  BY <1>a, <1>d, Consts DEF TypeOK
<1>1. 1 \in 1 .. Len(sock[p]) /\ Head(sock[p]) = sock[p][1] /\ Len(sock[p]) \in Nat
  BY <1>c
<1>2. Rcvd(r) = Sent(p) - Len(sock[p]) + 1 - 1
  <2>1. Sent(p) = Rcvd(r) + Len(sock[p])
    BY <1>a DEF CountInv
  <2> QED
    BY <2>1, <1>b, <1>1
<1>3. (entered[r] - 1) * Rounds + i[r] = Sent(p) - Len(sock[p]) + 1 - 1
  BY <1>d, <1>2 DEF Rcvd
<1>5. sock[p][1] = <<entered[r], Minus(p, i[r])>>
  BY <1>a, <1>b, <1>d, <1>1, <1>3, <1>e DEF MsgInv
<1>6. Minus(r, i[r] + 1) = Minus(p, i[r])
  <2>1. i[r] + 1 \in 0 .. nranks - 1 /\ i[r] + 1 >= 1 /\ (i[r] + 1) - 1 = i[r]
    BY <1>e, Consts
  <2> QED
    BY <2>1, MinusInRing
<1> QED
  BY <1>1, <1>5, <1>6

LEMMA RecvTraffic ==
  ASSUME IInv, NEW r \in Ranks, Recv(r)
  PROVE  CountInv' /\ HeardInv' /\ MsgInv'
<1> DEFINE s == Prev(r)
<1>a. TypeOK /\ LoopInv /\ CountInv /\ HeardInv /\ MsgInv
  BY DEF IInv
<1>b. \A q \in Ranks : Rcvd(q)' = IF q = r THEN Rcvd(q) + 1 ELSE Rcvd(q)
  BY <1>a, RecvCounts
<1>c. \A q \in Ranks : Sent(q)' = Sent(q)
  BY <1>a, RecvCounts
<1>d. \A q \in Ranks : q \in Int /\ Prev(q) \in Ranks
  BY PrevInRing
<1>e. \A q \in Ranks : \A d \in 1 .. nranks - 1 : Minus(q, d) \in Ranks
  BY MinusInRing, Consts
<1>f. \A q \in Ranks : Rcvd(q) \in Int /\ Sent(q) \in Int
  BY <1>a, CountTypes
<1>g. sock \in [Ranks -> Seq(Contents)] /\ s \in Ranks
  BY <1>a, <1>d DEF TypeOK
<1>1. sock' = [sock EXCEPT ![s] = Tail(@)] /\ sock[s] # <<>> /\ prog' = prog
  BY DEF Recv
<1>2. /\ Len(sock[s]) >= 1 /\ Len(sock'[s]) = Len(sock[s]) - 1
      /\ \A p \in 1 .. Len(sock'[s]) : sock'[s][p] = sock[s][p + 1]
      /\ \A q \in Ranks : q # s => sock'[q] = sock[q]
      /\ \A q \in Ranks : Len(sock[q]) \in Nat
  <2>1. sock[s] \in Seq(Contents) /\ sock'[s] = Tail(sock[s])
    BY <1>1, <1>g
  <2> QED
    BY <1>1, <1>g, <2>1
<1>3. CountInv'
  <2> SUFFICES ASSUME NEW q \in Ranks
               PROVE  Sent(Prev(q))' = Rcvd(q)' + Len(sock'[Prev(q)])
    BY DEF CountInv, Prev
  <2>1. Sent(Prev(q)) = Rcvd(q) + Len(sock[Prev(q)])
    BY <1>a DEF CountInv
  <2>2. Prev(q) = s <=> q = r
    BY PrevInjective
  <2> QED
    BY <1>b, <1>c, <1>d, <1>f, <1>2, <2>1, <2>2
<1>4. HeardInv'
  <2> SUFFICES ASSUME NEW q \in Ranks, NEW d \in 1 .. nranks - 1
               PROVE  Sent(Minus(q, d))' >= Rcvd(q)' - d + 1
    BY DEF HeardInv
  <2>1. Sent(Minus(q, d))' = Sent(Minus(q, d)) /\ Sent(Minus(q, d)) \in Int
    BY <1>c, <1>e, <1>f
  <2>2. CASE q # r
    BY <2>1, <2>2, <1>a, <1>b DEF HeardInv
  <2>3. CASE q = r
    <3>0. Sent(s) >= Rcvd(r) + 1 /\ Rcvd(r)' = Rcvd(r) + 1
      BY <1>a, <1>b, <1>f, <1>g, <1>2 DEF CountInv
    <3>a. d \in 0 .. nranks - 1 /\ d \in Int
      BY Consts
    <3>1. CASE d = 1
      <4>1. Minus(r, d) = s
        BY <3>1, <3>a, MinusInRing
      <4> QED
        BY <4>1, <3>0, <3>1, <2>1, <2>3, <1>f
    <3>2. CASE d > 1
      <4>1. d - 1 \in 1 .. nranks - 1 /\ Minus(r, d) = Minus(s, d - 1)
        BY <3>2, <3>a, MinusInRing, Consts
      <4>2. Sent(Minus(s, d - 1)) >= Rcvd(s) - (d - 1) + 1
        BY <4>1, <1>a, <1>g DEF HeardInv
      <4>3. Rcvd(s) >= Sent(s) - 1
        BY <1>f, <1>g DEF Sent
      <4>4. Rcvd(s) \in Int /\ Sent(s) \in Int /\ Rcvd(r) \in Int
        BY <1>f, <1>g
      <4>5. Sent(Minus(r, d)) >= Rcvd(s) - d + 2
        BY <4>1, <4>2, <4>4, <3>a
      <4>6. Rcvd(s) - d + 2 >= (Rcvd(r) + 1) - d + 1
        BY <4>3, <4>4, <3>0, <3>a
      <4>7. Sent(Minus(r, d)) >= (Rcvd(r) + 1) - d + 1
        BY <4>5, <4>6, <4>4, <3>a, <2>1, <2>3
      <4> QED
        BY <4>7, <3>0, <2>1, <2>3
    <3> QED
      BY <3>1, <3>2, Consts
  <2> QED
    BY <2>2, <2>3
<1>5. MsgInv'
  <2>1. ASSUME NEW q \in Ranks, NEW p \in 1 .. Len(sock'[q]),
               NEW k \in Calls, NEW j \in 0 .. Rounds - 1,
               (k - 1) * Rounds + j = Sent(q)' - Len(sock'[q]) + p - 1,
               prog[k] = "gather"
        PROVE  sock'[q][p] = <<k, Minus(q, j)>>
    <3>1. CASE q # s
      <4>1. sock'[q] = sock[q] /\ Sent(q)' = Sent(q)
        BY <3>1, <1>2, <1>c
      <4> QED
        BY <4>1, <2>1, <1>a DEF MsgInv
    <3>2. CASE q = s
      <4>1. p + 1 \in 1 .. Len(sock[s]) /\ sock'[s][p] = sock[s][p + 1]
        BY <3>2, <1>2, <1>g
      <4>2. (k - 1) * Rounds + j = Sent(s) - Len(sock[s]) + (p + 1) - 1
        <5>1. Sent(s)' = Sent(s) /\ Sent(s) \in Int
          BY <1>c, <1>f, <1>g
        <5> QED
          BY <5>1, <2>1, <3>2, <1>2, <1>g
      <4> QED
        BY <4>1, <4>2, <2>1, <3>2, <1>a, <1>g DEF MsgInv
    <3> QED
      BY <3>1, <3>2
  <2> QED
    BY <2>1, <1>1 DEF MsgInv
<1> QED
  BY <1>3, <1>4, <1>5

\* What the gathers of the other ranks hold stays; a rank's own gather grows
\* by the slice it receives and is complete after the last round.
LEMMA NextData ==
  ASSUME IInv, Next
  PROVE  DataInv' /\ GatherComplete'
<1>a. TypeOK /\ LoopInv /\ DataInv /\ GatherComplete
  BY DEF IInv
<1>b. /\ entered \in [Ranks -> 0 .. NumCalls] /\ NumCalls \in Nat
      /\ pc \in [Ranks -> {"idle", "send", "recv"}]
      /\ i \in [Ranks -> 0 .. Rounds] /\ Rounds \in Nat
      /\ data \in [Ranks -> [Ranks -> Contents]]
  BY <1>a, NumCallsAssumption, Consts DEF TypeOK
\* One rank moves; the obligation is about that rank alone.
<1>0. ASSUME NEW r \in Ranks,
             \A q \in Ranks \ {r} : /\ entered'[q] = entered[q] /\ pc'[q] = pc[q]
                                    /\ i'[q] = i[q] /\ data'[q] = data[q],
             prog' = prog,
             pc'[r] # "idle" /\ prog[entered'[r]] = "gather" =>
               \A j \in 0 .. i'[r] : data'[r][Minus(r, j)] = <<entered'[r], Minus(r, j)>>,
             pc'[r] = "idle" /\ entered'[r] \in Calls /\ prog[entered'[r]] = "gather" =>
               \A s \in Ranks : data'[r][s] = <<entered'[r], s>>
      PROVE  DataInv' /\ GatherComplete'
  <2>1. ASSUME NEW q \in Ranks, pc'[q] # "idle", prog'[entered'[q]] = "gather",
               NEW j \in 0 .. i'[q]
        PROVE  data'[q][Minus(q, j)] = <<entered'[q], Minus(q, j)>>
    <3>1. CASE q = r
      BY <3>1, <2>1, <1>0
    <3>2. CASE q # r
      BY <3>2, <2>1, <1>0, <1>a DEF DataInv
    <3> QED
      BY <3>1, <3>2
  <2>2. ASSUME NEW q \in Ranks, pc'[q] = "idle", entered'[q] \in Calls,
               prog'[entered'[q]] = "gather", NEW s \in Ranks
        PROVE  data'[q][s] = <<entered'[q], s>>
    <3>1. CASE q = r
      BY <3>1, <2>2, <1>0
    <3>2. CASE q # r
      BY <3>2, <2>2, <1>0, <1>a DEF GatherComplete
    <3> QED
      BY <3>1, <3>2
  <2>3. DataInv'
    BY <2>1 DEF DataInv
  <2>4. GatherComplete'
    BY <2>2 DEF GatherComplete, Calls
  <2> QED
    BY <2>3, <2>4
<1>1. ASSUME NEW r \in Ranks, Call(r) PROVE DataInv' /\ GatherComplete'
  <2>1. /\ entered' = [entered EXCEPT ![r] = entered[r] + 1]
        /\ pc' = [pc EXCEPT ![r] = "send"] /\ i' = i /\ prog' = prog
        /\ i[r] = 0
    BY <1>1, <1>a DEF Call, First, LoopInv
  <2>2. \A q \in Ranks \ {r} : data'[q] = data[q]
    BY <1>1, <1>b DEF Call
  <2>3. prog[entered[r] + 1] = "gather" => data'[r][r] = <<entered[r] + 1, r>>
    BY <1>1, <1>b DEF Call
  <2>4. Minus(r, 0) = r
    BY Consts, MinusInRing
  <2>5. \A q \in Ranks \ {r} : entered'[q] = entered[q] /\ pc'[q] = pc[q] /\ i'[q] = i[q]
    BY <2>1, <1>b
  <2>6. entered'[r] = entered[r] + 1 /\ pc'[r] = "send" /\ i'[r] = 0
    BY <2>1, <1>b
  <2>7. \A j \in 0 .. i'[r] : Minus(r, j) = r
    BY <2>4, <2>6
  <2> QED
    BY <2>1, <2>2, <2>3, <2>5, <2>6, <2>7, <1>0
<1>2. ASSUME NEW r \in Ranks, Send(r) PROVE DataInv' /\ GatherComplete'
  <2>1. /\ UNCHANGED <<prog, entered, i, data>> /\ pc[r] = "send"
        /\ pc' = [pc EXCEPT ![r] = "recv"]
    BY <1>2 DEF Send
  <2> QED
    BY <2>1, <1>0, <1>a, <1>b DEF DataInv
<1>3. ASSUME NEW r \in Ranks, Recv(r) PROVE DataInv' /\ GatherComplete'
  <2>1. /\ UNCHANGED <<prog, entered>> /\ pc[r] = "recv"
        /\ pc' = [pc EXCEPT ![r] = "send"]
        /\ i' = [i EXCEPT ![r] = i[r] + 1]
    BY <1>3 DEF Recv
  <2>2. i[r] + 1 \in 1 .. Rounds /\ i[r] \in Nat
    BY <1>3, <1>a, <1>b, RecvCounts
  <2>3. \A q \in Ranks \ {r} : data'[q] = data[q]
    BY <1>3, <1>b DEF Recv
  <2>4. ASSUME prog[entered[r]] = "gather", NEW j \in 0 .. i[r] + 1
        PROVE  data'[r][Minus(r, j)] = <<entered[r], Minus(r, j)>>
    <3>0. /\ Minus(r, j) \in Ranks /\ Minus(r, i[r] + 1) \in Ranks
          /\ j \in 0 .. nranks - 1 /\ i[r] + 1 \in 0 .. nranks - 1
      BY <2>2, <2>4, Consts, MinusInRing
    <3>1. data'[r] = [data[r] EXCEPT ![Minus(r, i[r] + 1)] = Head(sock[Prev(r)])]
      BY <1>3, <1>b, <2>4 DEF Recv, rslice
    <3>2. CASE j = i[r] + 1
      BY <3>0, <3>1, <3>2, <2>4, <1>3, <1>b, RecvHead
    <3>3. CASE j # i[r] + 1
      <4>1. Minus(r, j) # Minus(r, i[r] + 1)
        BY <3>0, <3>3, MinusInjective
      <4>2. data[r][Minus(r, j)] = <<entered[r], Minus(r, j)>>
        BY <3>3, <2>1, <2>2, <2>4, <1>a DEF DataInv
      <4> QED
        BY <4>1, <4>2, <3>0, <3>1, <1>b
    <3> QED
      BY <3>2, <3>3
  <2>5. \A q \in Ranks \ {r} : entered'[q] = entered[q] /\ pc'[q] = pc[q] /\ i'[q] = i[q]
    BY <2>1, <1>b
  <2>6. entered'[r] = entered[r] /\ pc'[r] = "send" /\ i'[r] = i[r] + 1
    BY <2>1, <1>b
  <2> QED
    BY <2>1, <2>3, <2>4, <2>5, <2>6, <1>0
<1>4. ASSUME NEW r \in Ranks, Return(r) PROVE DataInv' /\ GatherComplete'
  <2>1. /\ UNCHANGED <<prog, entered, data>> /\ pc[r] = "send" /\ i[r] = Rounds
        /\ pc' = [pc EXCEPT ![r] = "idle"] /\ i' = [i EXCEPT ![r] = 0]
    BY <1>4 DEF Return
  <2>2. ASSUME prog[entered[r]] = "gather", NEW s \in Ranks
        PROVE  data[r][s] = <<entered[r], s>>
    <3>1. PICK d \in 0 .. nranks - 1 : s = Minus(r, d)
      BY MinusOnto
    <3>2. d \in 0 .. i[r]
      BY <3>1, <2>1, Consts
    <3> QED
      BY <3>1, <3>2, <2>1, <2>2, <1>a DEF DataInv
  <2>3. \A q \in Ranks \ {r} : /\ entered'[q] = entered[q] /\ pc'[q] = pc[q]
                               /\ i'[q] = i[q] /\ data'[q] = data[q]
    BY <2>1, <1>b
  <2>4. entered'[r] = entered[r] /\ pc'[r] = "idle" /\ data'[r] = data[r]
    BY <2>1, <1>b
  <2> QED
    BY <2>1, <2>2, <2>3, <2>4, <1>0
<1>5. ASSUME UNCHANGED vars PROVE DataInv' /\ GatherComplete'
  BY <1>5, <1>a DEF vars, DataInv, GatherComplete
<1> QED
  BY <1>1, <1>2, <1>3, <1>4, <1>5 DEF Next, Finished

LEMMA NextInv == IInv /\ [Next]_vars => IInv'
<1> SUFFICES ASSUME IInv, [Next]_vars PROVE IInv'
  OBVIOUS
<1>1. TypeOK' /\ LoopInv'
  BY NextType, NextLoop DEF IInv
<1>2. CASE UNCHANGED vars
  BY <1>2 DEF vars, IInv, TypeOK, LoopInv, CountInv, HeardInv, MsgInv, DataInv,
              GatherComplete, Sent, Rcvd, Left
<1>3. CASE Next
  <2>1. DataInv' /\ GatherComplete'
    BY <1>3, NextData
  <2>2. CountInv' /\ HeardInv' /\ MsgInv'
    <3>1. CASE Finished
      BY <3>1 DEF Finished, vars, IInv, CountInv, HeardInv, MsgInv, Sent, Rcvd, Left
    <3> QED
      BY <3>1, <1>3, CallTraffic, SendTraffic, RecvTraffic DEF Next
  <2> QED
    BY <1>1, <2>1, <2>2 DEF IInv
<1> QED
  BY <1>2, <1>3

LEMMA InvariantHolds == Spec => []IInv
BY InitInv, NextInv, PTL DEF Spec

-----------------------------------------------------------------------------
(* The results.                                                            *)

\* The counts of calls, rounds and messages stay in range in every run: a
\* round never starts beyond the last one and no slice index leaves the array.
THEOREM TypeCorrect == Spec => []TypeOK
<1>1. IInv => TypeOK
  BY DEF IInv
<1> QED
  BY <1>1, InvariantHolds, PTL

\* A rank that returned from call k has heard, hop by hop around the ring,
\* of a message every other rank sent during call k.
LEMMA HeardIsBarrier == IInv => BarrierSafety
<1> SUFFICES ASSUME IInv, NEW r \in Ranks, NEW q \in Ranks
             PROVE  entered[q] >= Left(r)
  BY DEF BarrierSafety
<1>a. TypeOK /\ LoopInv /\ HeardInv
  BY DEF IInv
<1>b. /\ entered[q] \in Int /\ entered[r] \in Int /\ i[q] \in 0 .. Rounds
      /\ i[r] \in 0 .. Rounds /\ Rounds \in Nat /\ nranks \in Nat
      /\ Left(r) \in Int /\ Left(q) \in Int /\ Rounds = nranks - 1
      /\ Left(r) <= entered[r] /\ Left(q) <= entered[q]
  BY <1>a, NumCallsAssumption, Consts DEF TypeOK, Left
<1>1. CASE q = r
  BY <1>1, <1>b
<1>2. CASE q # r
  <2>1. PICK d \in 0 .. nranks - 1 : q = Minus(r, d)
    BY MinusOnto
  <2>2. d \in 1 .. nranks - 1
    BY <2>1, <1>2, MinusInRing, <1>b
  <2>3. Sent(q) >= Rcvd(r) - d + 1
    BY <2>1, <2>2, <1>a DEF HeardInv
  <2>4. Left(r) * Rounds \in Int /\ Left(q) * Rounds \in Int /\ entered[q] * Rounds \in Int
    BY <1>b
  <2>5. Rcvd(r) >= Left(r) * Rounds
    BY <1>b, <2>4 DEF Rcvd
  <2>6. Sent(q) <= entered[q] * Rounds
    <3>1. CASE pc[q] = "idle"
      BY <3>1, <1>a, <1>b, <2>4 DEF Sent, Rcvd, Left, LoopInv
    <3>2. CASE pc[q] # "idle"
      <4>1. Left(q) * Rounds = entered[q] * Rounds - Rounds
        BY <3>2, <1>b, MulMono DEF Left
      <4>2. pc[q] = "recv" => i[q] < Rounds
        BY <1>a DEF LoopInv
      <4> QED
        BY <4>1, <4>2, <1>b, <2>4 DEF Sent, Rcvd
    <3> QED
      BY <3>1, <3>2
  <2>7. Sent(q) \in Int /\ Rcvd(r) \in Int
    BY <1>a, CountTypes
  <2>8. entered[q] * Rounds >= Left(r) * Rounds - Rounds + 1
    BY <2>2, <2>3, <2>4, <2>5, <2>6, <2>7, <1>b
  <2>9. SUFFICES ASSUME entered[q] <= Left(r) - 1
                 PROVE  FALSE
    BY <1>b
  <2>10. entered[q] * Rounds <= (Left(r) - 1) * Rounds
    BY <2>9, <1>b, MulMono
  <2>11. (Left(r) - 1) * Rounds = Left(r) * Rounds - Rounds
    BY <1>b, MulMono
  <2> QED
    BY <2>8, <2>10, <2>11, <2>4, <1>b
<1> QED
  BY <1>1, <1>2

\* No rank leaves a socket barrier or a gather before every rank has entered
\* it, whatever the capacity of the sockets and whatever calls came before.
THEOREM RingIsBarrier == Spec => []BarrierSafety
BY InvariantHolds, HeardIsBarrier, PTL

\* A gather returns the contribution every rank made to this very call: no
\* message of an earlier or later call is ever taken for one of its own.
THEOREM GathersComplete == Spec => []GatherComplete
<1>1. IInv => GatherComplete
  BY DEF IInv
<1> QED
  BY <1>1, InvariantHolds, PTL
=============================================================================
