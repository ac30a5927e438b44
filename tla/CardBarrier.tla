---------------------------- MODULE CardBarrier ----------------------------
(***************************************************************************)
(* What the ranks that share one card are promised by every collective     *)
(* that synchronises them on the device (tcclDevSyncCard, the single-card  *)
(* and small-size AllReduce): a call is a barrier.  A rank is in call      *)
(* number round[r]; inside[r] says that its stream has announced itself    *)
(* there.  It leaves a call only when every rank of the card has announced *)
(* itself in that call or is already further on.                           *)
(*                                                                         *)
(* Calls are numbered by the phases they consume (plan, see DevSync): a    *)
(* barrier call takes one phase, a small-size AllReduce two.               *)
(***************************************************************************)
EXTENDS Integers

CONSTANTS Ranks, MaxCount, Plans

VARIABLES plan, round, inside

avars == <<plan, round, inside>>

CallLen(c) == IF plan[c] = "card" THEN 1 ELSE 2

Init ==
  /\ plan \in Plans
  /\ round = [r \in Ranks |-> 0]
  /\ inside = [r \in Ranks |-> FALSE]

\* The stream of r announces itself in the call it has reached.
Enter(r) ==
  /\ round[r] < MaxCount
  /\ ~inside[r]
  /\ inside' = [inside EXCEPT ![r] = TRUE]
  /\ UNCHANGED <<plan, round>>

\* r leaves: everybody has announced itself in this call, or is past it.
Leave(r) ==
  /\ inside[r]
  /\ \A q \in Ranks : \/ round[q] > round[r]
                      \/ round[q] = round[r] /\ inside[q]
  /\ inside' = [inside EXCEPT ![r] = FALSE]
  /\ round' = [round EXCEPT ![r] = @ + CallLen(@)]
  /\ UNCHANGED plan

Next == \E r \in Ranks : Enter(r) \/ Leave(r)

Spec == Init /\ [][Next]_avars
=============================================================================
