------------------------------- MODULE MCDrafts -------------------------------
(* One draft; its handlers are interchangeable. *)
EXTENDS Drafts, TLC

Symmetry == Permutations(Handlers)
===============================================================================
