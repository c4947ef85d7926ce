---------------------------- MODULE MCSubmission ----------------------------
(* Values for the constants of Submission that a cfg cannot write. *)
EXTENDS Submission, TLC

CONSTANTS c1, c2, c3, p1, p2, k1, k2, b1, b2

\* Two requests compete for one connection, the third comes from elsewhere.
Placement == (c1 :> p1) @@ (c2 :> p1) @@ (c3 :> p2)

\* A request; its key with another body; its body with another key, cut up by
\* the same and by another splitter version.
Requests == {[key |-> k1, body |-> b1, units |-> 1],
             [key |-> k1, body |-> b2, units |-> 2],
             [key |-> k2, body |-> b1, units |-> 1],
             [key |-> k2, body |-> b1, units |-> 3]}
=============================================================================
