-------------------------------- MODULE MCCi --------------------------------
(* Instances of Ci: every source, and commits whose code is one of two.      *)
EXTENDS Ci

Sources == {"repository", "fork", "main"}
Contents == {"same", "other"}
=============================================================================
