----------------------------- MODULE Bootstrap -----------------------------
(***************************************************************************)
(* How a communicator is split and the ranks of each part find each other  *)
(* (init.cc tcclCommSplit, tcclBootstrapRoot, tcclBootstrapInit).          *)
(*                                                                         *)
(* The ranks tell each other colour and key.  Every rank with a colour     *)
(* starts a root thread that listens at an address, its unique id; the     *)
(* ranks of a colour use the id of the one whose key is 0, the threads of  *)
(* the others listen for ever.  A rank checks in with the root and waits;  *)
(* when all have checked in the root tells each one where the next one     *)
(* listens, and every rank connects to the next and accepts the previous.  *)
(*                                                                         *)
(* The key is the rank in the new communicator: the keys of a colour have  *)
(* to be 0 .. n - 1.  A root that hears of two ranks with one key, or of   *)
(* two sizes, gives up, and those that have checked in wait for ever       *)
(* (abortFlag is never set).                                               *)
(*                                                                         *)
(* The two gathers are what SocketRing shows of them, TCP is external:     *)
(* connections queue at a listening socket in the order they are made, and *)
(* connecting to a socket that is closed fails after some retries.         *)
(***************************************************************************)
EXTENDS Integers, Sequences, FiniteSets, TLC

CONSTANTS nranks,     \* ranks of the communicator that is split
          Programs    \* the colour and the key each rank asks for

Ranks == 0 .. nranks - 1
NOCOLOR == -1
ASSUME NranksAssumption == nranks \in Nat \ {0}
ASSUME ProgramsAssumption ==
  Programs \subseteq [Ranks -> [color : Nat \cup {NOCOLOR}, key : Nat]]

VARIABLES
  info,      \* colour and key of every rank
  pc,        \* where each rank is
  rootRank,  \* whose id it uses
  id,        \* the ids that ranks have made, for the gather
  root,      \* the root thread of each id
  checkin,   \* connections waiting at the socket of a root
  mailbox,   \* listenSockRoot of each rank: what the root has sent
  ringListen,\* connections waiting at the socket of each rank
  next, prev \* ringSend and ringRecv: whom each rank is connected with

vars == <<info, pc, rootRank, id, root, checkin, mailbox, ringListen, next, prev>>

Nobody == -1
color(r) == info[r].color
key(r) == info[r].key
Colour(r) == {q \in Ranks : color(q) = color(r)}
keyNum(r) == Cardinality(Colour(r))

\* States of a root thread.
NoThread == [state |-> "none", nranks |-> 0, listenRoot |-> <<>>, listen |-> <<>>, r |-> 0]

Init ==
  /\ info \in Programs
  /\ pc = [r \in Ranks |-> "id"]
  /\ rootRank = [r \in Ranks |-> Nobody]
  /\ id = {}
  /\ root = [r \in Ranks |-> NoThread]
  /\ checkin = [r \in Ranks |-> <<>>]
  /\ mailbox = [r \in Ranks |-> <<>>]
  /\ ringListen = [r \in Ranks |-> <<>>]
  /\ next = [r \in Ranks |-> Nobody] /\ prev = [r \in Ranks |-> Nobody]

Goto(r, l) == pc' = [pc EXCEPT ![r] = l]

-----------------------------------------------------------------------------
(* tcclCommSplit *)

\* The last rank with key 0.  Without one rootRank is not initialised: it is
\* any rank's number, or none, where the table of the ids holds no address that
\* anybody listens at.
Bug_Roots(r) == LET zero == {q \in Ranks : key(q) = 0} IN
  {q \in zero : \A p \in zero : p <= q}
Roots(r) ==
  LET zero == {q \in Colour(r) : key(q) = 0} IN
  IF zero = {} THEN Ranks \cup {Nobody} ELSE {q \in zero : \A p \in zero : p <= q}

\* The first gather has told the ranks of each other's colour and key; an id
\* is made, which starts a root thread, and the second gather is begun.
MakeId(r) ==
  /\ pc[r] = "id"
  /\ \E q \in Roots(r) : rootRank' = [rootRank EXCEPT ![r] = q]
  /\ root' = IF key(r) = 0 \/ color(r) # NOCOLOR
             THEN [root EXCEPT ![r].state = "collect"] ELSE root
  /\ id' = id \cup {r}
  /\ Goto(r, "ids")
  /\ UNCHANGED <<info, checkin, mailbox, ringListen, next, prev>>

\* tcclCommInitRankConfig: a rank without a colour and a communicator of one
\* rank need no bootstrap.  An error of the initialisation is not reported by
\* tcclCommSplit.
Start(r) ==
  /\ pc[r] = "ids" /\ id = Ranks
  /\ Goto(r, IF color(r) = NOCOLOR THEN "none"
             ELSE IF key(r) >= keyNum(r) THEN "failed"
             ELSE IF keyNum(r) = 1 THEN "joined"
             ELSE "check in")
  /\ UNCHANGED <<info, rootRank, id, root, checkin, mailbox, ringListen, next, prev>>

-----------------------------------------------------------------------------
(* tcclBootstrapInit *)

\* The rank listens, connects to the root and sends size, rank and addresses.
\* The socket of the root is open until it has told all: who comes when it has
\* stopped collecting is not accepted, and waits for ever.
Listening(t) == t # Nobody /\ root[t].state \in {"collect", "tell"}
CheckIn(r) ==
  LET t == rootRank[r] IN
  /\ pc[r] = "check in"
  /\ IF Listening(t)
     THEN /\ checkin' = [checkin EXCEPT ![t] =
               Append(@, [nranks |-> keyNum(r), rank |-> key(r), address |-> r])]
          /\ Goto(r, "told")
     ELSE Goto(r, "failed") /\ UNCHANGED checkin
  /\ UNCHANGED <<info, rootRank, id, root, mailbox, ringListen, next, prev>>

\* The root has connected: it says where the next rank listens.  That one has
\* been listening since before it checked in.
ConnectNext(r) ==
  /\ pc[r] = "told" /\ mailbox[r] # <<>>
  /\ next' = [next EXCEPT ![r] = Head(mailbox[r])]
  /\ mailbox' = [mailbox EXCEPT ![r] = Tail(@)]
  /\ ringListen' = [ringListen EXCEPT ![Head(mailbox[r])] = Append(@, r)]
  /\ Goto(r, "accept")
  /\ UNCHANGED <<info, rootRank, id, root, checkin, prev>>

AcceptPrev(r) ==
  /\ pc[r] = "accept" /\ ringListen[r] # <<>>
  /\ prev' = [prev EXCEPT ![r] = Head(ringListen[r])]
  /\ ringListen' = [ringListen EXCEPT ![r] = Tail(@)]
  /\ Goto(r, "joined")
  /\ UNCHANGED <<info, rootRank, id, root, checkin, mailbox, next>>

-----------------------------------------------------------------------------
(* tcclBootstrapRoot *)

\* A rank is accepted.  The first one says how many there are.
KnownRank(t, e) == e.rank \in DOMAIN root[t].listenRoot
Collect(t) ==
  LET e == Head(checkin[t])
      n == IF root[t].listen = <<>> THEN e.nranks ELSE root[t].nranks
      listen == (e.rank :> e.address) @@ root[t].listen IN
  /\ root[t].state = "collect" /\ checkin[t] # <<>>
  /\ checkin' = [checkin EXCEPT ![t] = Tail(@)]
  /\ root' = [root EXCEPT ![t] =
       IF n # e.nranks \/ KnownRank(t, e) THEN [NoThread EXCEPT !.state = "gone"]
       ELSE [state |-> IF Cardinality(DOMAIN listen) < n THEN "collect" ELSE "tell",
             nranks |-> n, listenRoot |-> listen, listen |-> listen, r |-> 0]]
  /\ UNCHANGED <<info, pc, rootRank, id, mailbox, ringListen, next, prev>>

\* Rank by rank, the root tells who is the next one.
After(r, n) == (r + 1) % n
Tell(t) ==
  LET r == root[t].r
      n == root[t].nranks IN
  /\ root[t].state = "tell"
  /\ mailbox' = [mailbox EXCEPT ![root[t].listenRoot[r]] = Append(@, root[t].listen[After(r, n)])]
  /\ root' = [root EXCEPT ![t] = IF r + 1 < n THEN [@ EXCEPT !.r = r + 1]
                                 ELSE [NoThread EXCEPT !.state = "gone"]]
  /\ UNCHANGED <<info, pc, rootRank, id, checkin, ringListen, next, prev>>

-----------------------------------------------------------------------------
Rank(r) == MakeId(r) \/ Start(r) \/ CheckIn(r) \/ ConnectNext(r) \/ AcceptPrev(r)
Root(t) == Collect(t) \/ Tell(t)

Next == \E r \in Ranks : Rank(r) \/ Root(r)
Spec == Init /\ [][Next]_vars

\* Threads keep running.
FairSpec == Spec /\ WF_vars(Next)

-----------------------------------------------------------------------------
\* Every colour whose keys are 0 .. n - 1 becomes a ring in the order of the
\* keys, each rank connected to the next one and accepted by it, as long as
\* every colour has a key 0: ranks of another colour that use their keys twice
\* harm nobody but themselves.
Proper(r) == {key(q) : q \in Colour(r)} = 0 .. keyNum(r) - 1
InRing(r) ==
  LET n == keyNum(r) IN
  /\ pc[r] = "joined"
  /\ n > 1 => /\ next[r] \in Colour(r) /\ key(next[r]) = (key(r) + 1) % n
              /\ prev[r] \in Colour(r) /\ key(r) = (key(prev[r]) + 1) % n
RingsForm ==
  (\A r \in Ranks : color(r) # NOCOLOR => \E q \in Colour(r) : key(q) = 0) =>
  <>[](\A r \in Ranks : color(r) # NOCOLOR /\ Proper(r) => InRing(r))
=============================================================================
