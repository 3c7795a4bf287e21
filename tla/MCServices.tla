----------------------------- MODULE MCServices -----------------------------
(* Model-checking instance of Services: lifetimes that callers may ask for. *)
EXTENDS Services

Lifetimes == {-1, 0, 1, 2, 4}
=============================================================================
