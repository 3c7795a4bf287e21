------------------------------- MODULE MCPages -------------------------------
(* Model-checking instance of Pages: a form of two fields. *)
EXTENDS Pages

TwoFields == <<"f", "g">>
=============================================================================
