----------------------------- MODULE MCCommLife ----------------------------
(***************************************************************************)
(* Two cards with two devices each.  Communicator A has all of them, B one *)
(* of each card.  The devices belong to one process, to one each, or to    *)
(* two that cut across the cards.                                          *)
(***************************************************************************)
EXTENDS CommLife

MCcard == <<0, 0, 1, 1>>
MCComm == [A |-> <<1, 2, 3, 4>>, B |-> <<3, 1>>]

create(c) == [do |-> "create", comm |-> c]
alltoall(c) == [do |-> "alltoall", comm |-> c]
destroy(c) == [do |-> "destroy", comm |-> c]

OneProcess == <<1, 1, 1, 1>>
FourProcesses == <<1, 2, 3, 4>>
TwoProcesses == <<1, 2, 2, 1>>

MCPrograms ==
  [calls : {<<create("A"), create("B"), destroy("A"), destroy("B")>>},
   pid : {OneProcess, FourProcesses, TwoProcesses}]
  \cup
  [calls : {<<create("A"), alltoall("A"), create("B"), alltoall("B"), destroy("B"), destroy("A")>>,
            <<create("B"), create("A"), alltoall("B"), destroy("A"), alltoall("B"), destroy("B")>>},
   pid : {TwoProcesses}]
=============================================================================
