--------------------------- MODULE MCHealthChecker ---------------------------
(* Instances of HealthChecker for TLC: the values are in the .cfg files.    *)
EXTENDS HealthChecker

=============================================================================
