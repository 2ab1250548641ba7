---------------------------- MODULE MCAgentSync -----------------------------
(***************************************************************************)
(* Instances of AgentSync for TLC: one configuration, as PEM files with a  *)
(* chain or as a PFX with its password.                                    *)
(***************************************************************************)
EXTENDS AgentSync

CONSTANT c1

Chained == [c \in {c1} |-> "chained"]
Pfx     == [c \in {c1} |-> "pfx"]
=============================================================================
