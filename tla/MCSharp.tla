------------------------------ MODULE MCSharp ------------------------------
(* Two nodes of two ranks; README.md says why these.                       *)
EXTENDS Sharp
=============================================================================
