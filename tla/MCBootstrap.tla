---------------------------- MODULE MCBootstrap ----------------------------
(***************************************************************************)
(* Four ranks are split into one part, into two, or into a part of two,    *)
(* one of one and a rank without colour.  Keys may be used twice or leave  *)
(* gaps, but every part has a key 0.                                       *)
(***************************************************************************)
EXTENDS Bootstrap

Splits == {<<0, 0, 0, 0>>, <<0, 1, 0, 1>>, <<0, 0, NOCOLOR, 1>>}
Keys == [Ranks -> 0 .. 1] \cup {k \in [Ranks -> Ranks] : \A q, r \in Ranks : k[q] = k[r] => q = r}

Ask(colors, keys) == [r \in Ranks |-> [color |-> colors[r + 1], key |-> keys[r]]]
MCPrograms ==
  {p \in {Ask(c, k) : c \in Splits, k \in Keys} :
     \A r \in Ranks : \E q \in Ranks : p[q].color = p[r].color /\ p[q].key = 0}
=============================================================================
