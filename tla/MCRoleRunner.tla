---------------------------- MODULE MCRoleRunner ----------------------------
(* Values for the constants of RoleRunner that a cfg cannot write. *)
EXTENDS RoleRunner

\* Already over, shorter than one call, and longer than two.
Deadlines == {0, 2, 7}
=============================================================================
