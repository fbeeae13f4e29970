---------------------------- MODULE MCCacheTags ----------------------------
(* CacheTags with small sets of interchangeable requests and tags.         *)
EXTENDS CacheTags, TLC

Symmetry == Permutations(Request) \union Permutations(Tag)
=============================================================================
