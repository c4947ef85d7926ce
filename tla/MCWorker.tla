------------------------------ MODULE MCWorker ------------------------------
(* Values for the constants of Worker that a cfg cannot write. *)
EXTENDS Worker

OneRole == <<"requirements">>
TwoRoles == <<"requirements", "architecture">>
ThreeRoles == <<"requirements", "architecture", "qa">>
=============================================================================
