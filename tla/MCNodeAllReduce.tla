-------------------------- MODULE MCNodeAllReduce ---------------------------
(* Sequences of calls on nodes of two, three and four cards: enough calls  *)
(* to use every half of a buffer and every flag again.                     *)
EXTENDS NodeAllReduce

Call(alg) == [alg |-> alg, chunks |-> 1, last |-> 1]
Large(alg, chunks, last) == [alg |-> alg, chunks |-> chunks, last |-> last]
Node(cards, ranks, calls) == [card_num |-> cards, rank_num |-> ranks, calls |-> calls]
MCPrograms ==
  {Node(4, 1, <<Call("card"), Call("ct"), Call("8c")>>),
   Node(4, 1, <<Call("bfmut")>>),
   Node(2, 1, <<Call("bfmut"), Call("8c"), Call("bfmut")>>),
   Node(2, 1, <<Large("tworecv", 2, 2), Call("card"), Large("two", 1, 1)>>),
   Node(3, 1, <<Large("a2a", 3, 2)>>),
   Node(2, 2, <<Large("a2a", 3, 2)>>),
   Node(2, 2, <<Large("two", 5, 1), Large("tworecv", 3, 1)>>)}
=============================================================================
