----------------------- MODULE MCWorkspaceGovernance -----------------------
(* Three or two users as model values; safety runs may permute them.        *)
EXTENDS WorkspaceGovernance, TLC

CONSTANTS u1, u2, u3

TwoUsers == {u1, u2}
ThreeUsers == {u1, u2, u3}
\* The latest audit event is written and never read: it only labels a step.
Rows == <<business, member, invitation, request, control>>
Symmetry == Permutations(Users)
=============================================================================
