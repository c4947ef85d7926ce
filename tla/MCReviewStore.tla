--------------------------- MODULE MCReviewStore ---------------------------
(* Values for the constants of ReviewStore that a cfg cannot write. *)
EXTENDS ReviewStore

OneRole == <<"requirements">>
TwoRoles == <<"requirements", "architecture">>
ThreeRoles == <<"requirements", "architecture", "qa">>
FourRoles == <<"requirements", "architecture", "qa", "security">>
=============================================================================
