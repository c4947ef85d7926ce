---------------------------- MODULE MCMigration ----------------------------
(* Builds: a release, its successor, one whose second migration was edited  *)
(* after it was applied elsewhere, one that lacks the first migration, and  *)
(* one that has two files with the same number.  Content "b" can be run     *)
(* twice, as 006_normalize_legacy_timestamps.sql can.                       *)
EXTENDS Migration, TLC

Mig(v, c) == [version |-> v, content |-> c]

MCFiles ==
    "old" :> {Mig(1, "a"), Mig(2, "b")} @@
    "new" :> {Mig(1, "a"), Mig(2, "b"), Mig(3, "c")} @@
    "edited" :> {Mig(1, "a"), Mig(2, "x"), Mig(3, "c")} @@
    "partial" :> {Mig(2, "b")} @@
    "broken" :> {Mig(1, "a"), Mig(1, "x")}
=============================================================================
