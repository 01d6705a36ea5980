--------------------------- MODULE MCUsersRouter ---------------------------
(* Constants for model checking UsersRouter. *)
EXTENDS UsersRouter, TLC

CONSTANTS u1, ru, r1, r2, p1, e1, n1, user

\* The default role, and two rows of another name.
MCNameOf == (u1 :> e1) @@ (ru :> user) @@ (r1 :> n1) @@ (r2 :> n1) @@ (p1 :> p1)
Symmetry == Permutations(Calls) \cup Permutations({r1, r2})
=============================================================================
