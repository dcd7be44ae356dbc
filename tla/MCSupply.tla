------------------------------ MODULE MCSupply ------------------------------
(* An instance of the supply chain: one dependency of every kind that is   *)
(* treated differently.                                                    *)
EXTENDS SupplySync

MCKind == [gradle |-> "gradle", jar |-> "wrapper", kotlin |-> "plugin", gson |-> "maven",
           pycharm |-> "product", rider |-> "product", checkout |-> "action",
           ruff |-> "tool", renovate |-> "image"]
MCLockOnly == {"pycharm"}
=============================================================================
