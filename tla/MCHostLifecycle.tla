-------------------------- MODULE MCHostLifecycle ---------------------------
(***************************************************************************)
(* Instances of HostLifecycle for TLC: the default install and a second    *)
(* one beside it, with one fault that may hit the first, or none.          *)
(***************************************************************************)
EXTENDS HostLifecycle, TLC

CONSTANTS default, edge

OnceDefault == (default :> 1) @@ (edge :> 0)
None        == [t \in {default, edge} |-> 0]
=============================================================================
