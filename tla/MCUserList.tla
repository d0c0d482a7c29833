----------------------------- MODULE MCUserList -----------------------------
(* An instance of UserList for model checking.                             *)
EXTENDS UserList, TLC

\* Cells are alike, and so are users with an image.
Symmetry == Permutations(Cells) \cup Permutations(Users \ NoImage)

=============================================================================
