---------------------------- MODULE PointToPoint ---------------------------
(***************************************************************************)
(* The calls that queue point-to-point operations, as functions from the   *)
(* arguments of a call to the operations it queues (see SendRecv).         *)
(* tcclSend and tcclRecv cut a message that goes through the cross buffers *)
(* into pieces of MAX_SIZE; tcclAlltoallv pairs the ranks in nranks rounds.*)
(***************************************************************************)
EXTENDS Integers, SequencesExt

CONSTANTS nranks, card

Ranks == 0 .. nranks - 1
Direct(r, p) == card[r] = card[p]

\* The pieces of a message of size n (in units of MAX_SIZE).
Pieces(op, r, p, n) ==
  [i \in 1 .. (IF Direct(r, p) THEN 1 ELSE n) |-> [op |-> op, peer |-> p]]

tcclSend(r, p, n) == Pieces("send", r, p, n)
tcclRecv(r, p, n) == Pieces("recv", r, p, n)

Bug_start_no(r) == r
start_no(r) == nranks - 1 - r

\* What rank r queues for its i-th peer of an all-to-all, the smaller rank
\* of a pair sending first.
Exchange(r, p, n) ==
  IF r < p THEN tcclSend(r, p, n) \o tcclRecv(r, p, n)
  ELSE IF r > p THEN tcclRecv(r, p, n) \o tcclSend(r, p, n)
  ELSE <<>>

tcclAlltoallv(r, n) ==
  FlattenSeq([i \in 1 .. nranks |-> Exchange(r, (start_no(r) + i - 1) % nranks, n)])

\* tcclAlltoall over several cards: in round i rank r sends to r + i and
\* receives from r - i, piece by piece, whatever the connection.
tcclAlltoall(r, n) ==
  FlattenSeq([i \in 1 .. nranks - 1 |-> [j \in 1 .. n |->
    [op |-> "exchange", peer |-> (r + i) % nranks, from |-> (r - i + nranks) % nranks]]])
=============================================================================
