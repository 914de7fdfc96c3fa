----------------------------- MODULE MCProfiles -----------------------------
(* Two or three names and two passwords; names and passwords are symmetric.  *)
EXTENDS Profiles

Symmetry == Permutations(Names) \cup Permutations(Passwords)
=============================================================================
