--------------------------- MODULE MCReleaseScript ---------------------------
(***************************************************************************)
(* Two maintainers release one version.                                    *)
(***************************************************************************)
EXTENDS ReleaseScript, TLC

Clones == Permutations(Machine)
=============================================================================
