------------------------------ MODULE MCNetStack ------------------------------
(* The stack and its refinement on small instances. *)
EXTENDS NetStackRefinement

\* Plain connections that send requests are interchangeable.
Symmetry == Permutations(Conns \ (SslConns \cup Blank))

\* So are those that send none, where no request lists a directory.
BlankSymmetry == Permutations(Blank \ SslConns)
===============================================================================
