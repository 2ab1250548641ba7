------------------------------ MODULE AtomicFile ------------------------------
(***************************************************************************)
(* What the callers of utils.WriteFileAtomic rely on: one path whose       *)
(* contents are always those of one complete write.  A write takes effect  *)
(* at one moment or not at all, an error means not at all, and a loss of   *)
(* power brings back the last contents the disk has made permanent.        *)
(***************************************************************************)
EXTENDS Naturals

CONSTANTS Writers, Original

VARIABLES contents,   \* what a reader of the path gets
          permanent,  \* what a reader gets after a loss of power
          outcome,    \* [Writers -> what became of the writer's last call]
          calls       \* [Writers -> number of its calls]

abstractVars == <<contents, permanent, outcome, calls>>

\* The n-th call of writer w writes a value of its own.
Written(w) == <<w, calls[w]>>

Init ==
    /\ contents = Original
    /\ permanent = Original
    /\ outcome = [w \in Writers |-> "none"]
    /\ calls = [w \in Writers |-> 0]

Call(w) ==
    /\ outcome[w] # "busy"
    /\ outcome' = [outcome EXCEPT ![w] = "busy"]
    /\ calls' = [calls EXCEPT ![w] = @ + 1]
    /\ UNCHANGED <<contents, permanent>>

Commit(w) ==
    /\ outcome[w] = "busy"
    /\ outcome' = [outcome EXCEPT ![w] = "ok"]
    /\ contents' = Written(w)
    /\ UNCHANGED <<permanent, calls>>

Refuse(w) ==
    /\ outcome[w] = "busy"
    /\ outcome' = [outcome EXCEPT ![w] = "error"]
    /\ UNCHANGED <<contents, permanent, calls>>

\* The calling process dies before the call returns.
Die(w) ==
    /\ outcome[w] = "busy"
    /\ outcome' = [outcome EXCEPT ![w] = "none"]
    /\ UNCHANGED <<contents, permanent, calls>>

Settle ==
    /\ permanent' = contents
    /\ UNCHANGED <<contents, outcome, calls>>

LosePower ==
    /\ contents' = permanent
    /\ outcome' = [w \in Writers |-> "none"]
    /\ UNCHANGED <<permanent, calls>>

Next == \/ \E w \in Writers : Call(w) \/ Commit(w) \/ Refuse(w) \/ Die(w)
        \/ Settle \/ LosePower

Spec == Init /\ [][Next]_abstractVars
===============================================================================
