----------------------------- MODULE MCConnect -----------------------------
(* Processes 1, 2 and 3 on hosts of their own; 4 and 5 share the cards of  *)
(* 1 and 2.                                                                *)
EXTENDS Connect

At(ip, devid) == [ip |-> ip, devid |-> devid, phyCardId |-> 7]
MCHost == <<At(1, 0), At(2, 0), At(3, 0), At(1, 1), At(2, 1)>>
MCComm == [two |-> <<1, 3>>, again |-> <<3, 1>>, three |-> <<1, 2, 3>>, cards |-> <<1, 4, 2, 5>>]
Create(c) == [do |-> "create", comm |-> c]
ConnectAll(c) == [do |-> "connect", comm |-> c]
PostOn(k, c) == [do |-> k, comm |-> c]
Destroy(c) == [do |-> "destroy", comm |-> c]
Program(calls, f, t) == [calls |-> calls, MaxFailures |-> f, MaxTimeouts |-> t]
MCPrograms ==
  {Program(<<Create("cards"), PostOn("send", "cards")>>, 0, 1),
   Program(<<Create("cards"), ConnectAll("cards")>>, 1, 0),
   Program(<<Create("two"), Create("again"), PostOn("send", "two"), PostOn("send", "again"),
             Destroy("two"), Destroy("again")>>, 0, 0),
   Program(<<Create("three"), Create("two"), PostOn("send", "three"), PostOn("recv", "two")>>, 0, 0),
   Program(<<Create("two"), Create("three"), PostOn("send", "three"), Destroy("two")>>, 0, 0)}
=============================================================================
