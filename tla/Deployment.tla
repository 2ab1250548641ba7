----------------------------- MODULE Deployment ------------------------------
(***************************************************************************)
(* What the users of the agent rely on: the services go on from the        *)
(* certificates and settings they use to those that are assigned, never    *)
(* back and never ahead, and whoever says that a version is in use - the   *)
(* agent to itself in config.json, or the server to its users - is right   *)
(* from the moment it is said until it is taken back.                      *)
(***************************************************************************)
EXTENDS Integers

CONSTANT Configs   \* certificate configurations

VARIABLES assigned,  \* [Configs -> Version]: the newest certificate and settings
          used,      \* [Configs -> Version]: what the service runs with
          saved,     \* [Configs -> set of Version]: what config.json says it runs with
          shown      \* [Configs -> set of Version]: what the server says it runs with

promised == <<assigned, used, saved, shown>>

\* gen counts the certificates, rev the edits of the other settings.
Version == [gen : Nat, rev : Nat]

\* With the settings of v and its certificate, or a newer one, v is in use.
Serves(u, v) == u.rev = v.rev /\ u.gen >= v.gen

Init ==
    /\ assigned = [c \in Configs |-> [gen |-> 0, rev |-> 0]]
    /\ used = assigned
    /\ saved = [c \in Configs |-> {}]
    /\ shown = saved

\* A new certificate, or new settings, of which the server says nothing yet.
Assign(c) ==
    /\ \E v \in {[assigned[c] EXCEPT !.gen = @ + 1], [assigned[c] EXCEPT !.rev = @ + 1]} :
           assigned' = [assigned EXCEPT ![c] = v]
    /\ shown' = [shown EXCEPT ![c] = {}]
    /\ UNCHANGED <<used, saved>>

\* The service moves on, and what was said of it stays true.
Load(c) ==
    /\ \E g \in used[c].gen .. assigned[c].gen, r \in used[c].rev .. assigned[c].rev :
           used' = [used EXCEPT ![c] = [gen |-> g, rev |-> r]]
    /\ \A v \in saved[c] \cup shown[c] : Serves(used'[c], v)
    /\ UNCHANGED <<assigned, saved, shown>>

\* Something true is said, or anything taken back, of several configurations at once.
Say ==
    /\ {saved', shown'} \subseteq [Configs -> SUBSET Version]
    /\ \A c \in Configs : \A v \in saved'[c] \cup shown'[c] : Serves(used[c], v)
    /\ UNCHANGED <<assigned, used>>

Next == Say \/ \E c \in Configs : Assign(c) \/ Load(c)

Spec == Init /\ [][Next]_promised
===============================================================================
