---------------------------- MODULE SocketRing -----------------------------
(***************************************************************************)
(* The host side of a communicator is a ring of TCP sockets: rank r sends  *)
(* to r + 1 and receives from r - 1.  Every collective step of the set-up  *)
(* runs nranks - 1 rounds of "send to next, receive from previous" over    *)
(* the same pair of sockets:                                               *)
(*   barrier   tcclBarrierAll and tcclBarrierNode, a token per round;      *)
(*   gather    tcclBootstrapAllGather and tcclProxyAllGather: round i      *)
(*             forwards slice rank - i and receives slice rank - i - 1.    *)
(* Nothing in a message says which call or round it belongs to: that the   *)
(* rounds of consecutive calls never mix rests on the FIFO sockets alone.  *)
(*                                                                         *)
(* The operating system is external: a socket holds at most Capacity       *)
(* messages, a send into a full socket and a receive from an empty one     *)
(* block.  Contents are abstracted to <<call, rank>>: what a rank          *)
(* contributes to a call.                                                  *)
(***************************************************************************)
EXTENDS Integers, Sequences

CONSTANTS nranks,     \* size of the ring
          Capacity,   \* messages a socket buffers
          NumCalls    \* bound: collective calls of the program

ASSUME NranksAssumption == nranks \in Nat \ {0}
ASSUME CapacityAssumption == Capacity \in Nat \ {0}
ASSUME NumCallsAssumption == NumCalls \in Nat

VARIABLES
  prog,      \* the collective calls the ranks make, in order
  entered,   \* how many of them each rank has begun
  pc,        \* idle (between two calls), send or recv
  i,         \* the loop variable of the call a rank is in
  sock,      \* messages under way from each rank to the next one
  data       \* the array a rank gathers into, slice by slice

vars == <<prog, entered, pc, i, sock, data>>

Ranks == 0 .. nranks - 1
Calls == 1 .. NumCalls
Token == <<>>       \* int data = 1 of the barriers
Nothing == <<>>     \* calloc'ed slice

\* (rank - k + nranks) % nranks, for 0 <= k < nranks
Minus(r, k) == IF k <= r THEN r - k ELSE r - k + nranks
Prev(r) == IF r = 0 THEN nranks - 1 ELSE r - 1

Bug_Rounds == nranks - 2
Rounds == nranks - 1

Bug_First == "recv"
First == "send"

Bug_sslice(r, k) == Minus(r, k + 1)
sslice(r, k) == Minus(r, k)
rslice(r, k) == Minus(r, k + 1)

Init ==
  /\ prog \in [Calls -> {"barrier", "gather"}]
  /\ entered = [r \in Ranks |-> 0]
  /\ pc = [r \in Ranks |-> "idle"]
  /\ i = [r \in Ranks |-> 0]
  /\ sock = [r \in Ranks |-> <<>>]
  /\ data = [r \in Ranks |-> [s \in Ranks |-> Nothing]]

\* A rank begins its next call; before a gather it fills in its own slice
\* of a fresh array.
Call(r) ==
  LET k == entered[r] + 1 IN
  /\ pc[r] = "idle" /\ k \in Calls
  /\ entered' = [entered EXCEPT ![r] = k]
  /\ pc' = [pc EXCEPT ![r] = First]
  /\ data' = IF prog[k] = "gather"
             THEN [data EXCEPT ![r] = [s \in Ranks |-> IF s = r THEN <<k, r>> ELSE Nothing]]
             ELSE data
  /\ UNCHANGED <<prog, i, sock>>

\* tcclSocketSend(sendnext, ..)
Send(r) ==
  /\ pc[r] = "send" /\ i[r] < Rounds
  /\ Len(sock[r]) < Capacity
  /\ sock' = [sock EXCEPT ![r] =
       Append(@, IF prog[entered[r]] = "gather" THEN data[r][sslice(r, i[r])] ELSE Token)]
  /\ pc' = [pc EXCEPT ![r] = "recv"]
  /\ UNCHANGED <<prog, entered, i, data>>

\* tcclSocketRecv(recvprev, ..)
Recv(r) ==
  LET p == Prev(r) IN
  /\ pc[r] = "recv"
  /\ sock[p] # <<>>
  /\ sock' = [sock EXCEPT ![p] = Tail(@)]
  /\ data' = IF prog[entered[r]] = "gather"
             THEN [data EXCEPT ![r][rslice(r, i[r])] = Head(sock[p])]
             ELSE data
  /\ i' = [i EXCEPT ![r] = @ + 1]
  /\ pc' = [pc EXCEPT ![r] = "send"]
  /\ UNCHANGED <<prog, entered>>

\* The loop is over and the call returns.
Return(r) ==
  /\ pc[r] = "send" /\ i[r] = Rounds
  /\ pc' = [pc EXCEPT ![r] = "idle"]
  /\ i' = [i EXCEPT ![r] = 0]
  /\ UNCHANGED <<prog, entered, sock, data>>

Finished ==
  /\ \A r \in Ranks : pc[r] = "idle" /\ entered[r] = NumCalls
  /\ UNCHANGED vars

Next ==
  \/ \E r \in Ranks : Call(r) \/ Send(r) \/ Recv(r) \/ Return(r)
  \/ Finished

Spec == Init /\ [][Next]_vars

\* A rank inside a call goes on; whether it makes its next call is up to the
\* caller.
FairSpec == Spec /\ \A r \in Ranks : WF_vars(Send(r) \/ Recv(r) \/ Return(r))

-----------------------------------------------------------------------------
\* Calls a rank has returned from.
Left(r) == IF pc[r] = "idle" THEN entered[r] ELSE entered[r] - 1

\* Type correctness.
Contents == (Calls \X Ranks) \cup {Token}
TypeOK ==
  /\ prog \in [Calls -> {"barrier", "gather"}]
  /\ entered \in [Ranks -> 0 .. NumCalls]
  /\ pc \in [Ranks -> {"idle", "send", "recv"}]
  /\ i \in [Ranks -> 0 .. Rounds]
  /\ sock \in [Ranks -> Seq(Contents)]
  /\ data \in [Ranks -> [Ranks -> Contents]]

\* Nobody returns from a call before every rank has begun it.  The shared
\* memory files, the accept order of the proxy sockets and the device
\* handles exchanged through shared memory all rely on it.
BarrierSafety ==
  \A r, q \in Ranks : entered[q] >= Left(r)

\* A gather returns with the contribution of every rank to this very call,
\* each in the slice of its rank.
GatherComplete ==
  \A r \in Ranks :
    pc[r] = "idle" /\ entered[r] \in Calls /\ prog[entered[r]] = "gather" =>
      \A s \in Ranks : data[r][s] = <<entered[r], s>>

\* A call that every rank begins returns on every rank.
CallsReturn ==
  \A k \in Calls :
    (\A r \in Ranks : entered[r] >= k) ~> (\A r \in Ranks : Left(r) >= k)
=============================================================================
