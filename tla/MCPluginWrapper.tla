-------------------------- MODULE MCPluginWrapper --------------------------
(* Instances of PluginWrapper for TLC. *)
EXTENDS PluginWrapper, TLC

\* Collections are interchangeable, and so are secrets.
NameSymmetry == Permutations(Collections) \cup Permutations(Secrets)
=============================================================================
