----------------------------- MODULE MCSQLStore -----------------------------
(* SQLStore with two writers and a reader for TLC. *)
EXTENDS SQLStore

MCPages == {<<1, 1>>, <<2, 1>>}

MCSymmetry == Permutations(Writers)
=============================================================================
