------------------------- MODULE MCMemberLifecycle -------------------------
(* Two members, one replacement of each.                                      *)
EXTENDS MemberLifecycle, TLC

\* Members differ in nothing.
MemberSymmetry == Permutations(Member)
=============================================================================
