---------------------------- MODULE MCReviewAPI ----------------------------
(* One session of project "ours"; the client may use both projects and asks *)
(* for the session in either, or in one it has no access to.  The findings  *)
(* differ only in their ids: the omission's anchor is the other's lowest     *)
(* basis ref.                                                               *)
EXTENDS ReviewAPI

TwoRoles == <<"requirements", "architecture">>

MCProjectOf == [s \in Session |-> "ours"]

MCAccess == [c \in Client |-> {"ours", "other"}]

MCFinding ==
    {[id |-> 1, severity |-> 1, category |-> 1, refs |-> {1, 2}, anchor |-> Null],
     [id |-> 2, severity |-> 1, category |-> 1, refs |-> {}, anchor |-> 1]}
=============================================================================
