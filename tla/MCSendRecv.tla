----------------------------- MODULE MCSendRecv ----------------------------
(***************************************************************************)
(* Four ranks on two cards.  Ranks 0 to 2 exchange NumMsgs messages of one *)
(* or two pieces in every global order, each rank queueing its part of     *)
(* that order; or all four call tcclAlltoallv, tcclAlltoall, or            *)
(* tcclAlltoall followed by a transfer.                                    *)
(***************************************************************************)
EXTENDS SendRecv

CONSTANTS NumMsgs   \* bound: messages of a schedule

P2P == INSTANCE PointToPoint

MCcard == [r \in Ranks |-> IF r \in {0, 3} THEN 0 ELSE 1]
MCphyNextRank == [r \in Ranks |-> IF r % 2 = 0 THEN r + 1 ELSE r - 1]

Transfers == {t \in [src : 0 .. 2, dst : 0 .. 2, size : 1 .. 2] : t.src # t.dst}
Schedules == [1 .. NumMsgs -> Transfers]

\* The part of r in a schedule.
Part(r, t) ==
  IF t.src = r THEN P2P!tcclSend(r, t.dst, t.size)
  ELSE IF t.dst = r THEN P2P!tcclRecv(r, t.src, t.size)
  ELSE <<>>

MCPrograms ==
  {[r \in Ranks |-> P2P!FlattenSeq([k \in 1 .. NumMsgs |-> Part(r, s[k])])] :
     s \in Schedules}
  \cup {[r \in Ranks |-> P2P!tcclAlltoallv(r, n)] : n \in 1 .. 2}
  \cup {[r \in Ranks |-> P2P!tcclAlltoall(r, n)] : n \in 1 .. 2}
  \cup {[r \in Ranks |-> P2P!tcclAlltoall(r, 1) \o Part(r, t)] : t \in Transfers}
=============================================================================
