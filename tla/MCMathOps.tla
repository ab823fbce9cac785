----------------------------- MODULE MCMathOps -----------------------------
(* Small instances of MathOps. *)
EXTENDS MathOps

CONSTANTS a, s, q, bad, gone

(* In four bits, 7 + 1 and the squares of most results do not fit. *)
MCOperands == {<<7, 1>>, <<3, 2>>}

(***************************************************************************)
(* A manager before this one has computed the difference, and no more.  A  *)
(* Square of the sum, of itself, or of a kind that is not there waits.     *)
(***************************************************************************)
MCGiven ==
    {[n \in {a, s, q} |->
        CASE n = a -> NewSource(<<7, 1>>)
          [] n = s -> [NewSource(<<3, 2>>) EXCEPT !.fin = TRUE, !.result = 1]
          [] n = q -> NewSquare(r)] : r \in {a, q, gone}}
=============================================================================
