--------------------------- MODULE MCSharedConfig ----------------------------
(***************************************************************************)
(* Instances of SharedConfig for TLC: the service, a cron job, `register`  *)
(* and `install`.                                                          *)
(***************************************************************************)
EXTENDS SharedConfig

CONSTANTS service, cron, register, install, k1, k2

\* `register` is given a key of its own; `install --key` is given the one of the
\* agents, or `install` is given none.
Keyed   == [p \in Processes |-> IF p = register THEN k2 ELSE k1]
Keyless == [Keyed EXCEPT ![install] = NoKey]

OneName == [i \in {install} |-> "edge-agent"]

\* Nothing waits for anything, or every process is on its own.
Overlap == [p \in Processes |-> {}]
Alone   == [p \in Processes |-> Processes]
=============================================================================
