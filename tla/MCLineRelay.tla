---------------------------- MODULE MCLineRelay ----------------------------
(***************************************************************************)
(* Networks to check LineRelay on: stations 1, 2, ... in a line, each      *)
(* hearing its neighbours only.                                            *)
(***************************************************************************)
EXTENDS LineRelay

Gap(a, b) == IF a >= b THEN a - b ELSE b - a
ChainNbr == [s \in Node |-> {r \in Node : Gap(r, s) = 1}]
ChainDist == [a \in Node |-> [s \in Node |-> Gap(a, s)]]
=============================================================================
