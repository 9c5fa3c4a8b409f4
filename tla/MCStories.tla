----------------------------- MODULE MCStories -----------------------------
(***************************************************************************)
(* Stories on small instances.                                             *)
(***************************************************************************)
EXTENDS Stories, TLC

SlotSymmetry ==
  UNION {Permutations(S) : S \in {Publishers, StoryIds, Members, Videos, Tracks, Jobs}}
=============================================================================
