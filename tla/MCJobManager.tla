---------------------------- MODULE MCJobManager ----------------------------
(* Small instances of JobManager for TLC. *)
EXTENDS JobManager, TLC

CONSTANTS p1, p2, translate, retranslate

Permuted == Permutations({p1, p2})

OneVersion  == {{translate}}
TwoVersions == {{translate}, {translate, retranslate}}

=============================================================================
