----------------------- MODULE MCReleaseTransaction ------------------------
(* ReleaseTransaction for TLC: two of three releases share a configuration. *)
EXTENDS ReleaseTransaction

CONSTANTS l0, r1, r2
MCNginxConfig == [r \in Releases |-> IF r = r2 THEN "changed" ELSE "first"]

=============================================================================
