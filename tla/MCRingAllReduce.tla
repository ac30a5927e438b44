-------------------------- MODULE MCRingAllReduce --------------------------
(* A ring of allCardNum cards; see the .cfg files for the sizes.           *)
EXTENDS RingAllReduce
=============================================================================
