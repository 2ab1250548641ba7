--------------------------- MODULE MCWindowsStore ---------------------------
(***************************************************************************)
(* Instances of WindowsStore for TLC: sites and a gateway that share the   *)
(* certificates of one machine.                                            *)
(***************************************************************************)
EXTENDS WindowsStore, TLC

CONSTANTS s1, s2, g1, k1, k2

\* Two sites, each of which may be moved from one certificate to the other.
Movable  == [c \in {s1, s2} |-> {<<"ok", k1>>, <<"ok", k2>>}]
TwoEdits == [c \in {s1, s2} |-> 2]
OneEach  == [k \in {k1, k2} |-> 1]

\* A site and a gateway of one certificate, which is renewed.
Shared  == (s1 :> {<<"ok", k1>>, <<"rejected", k1>>})
           @@ (g1 :> {<<"ok", k1>>, <<"noIds", k1>>})
Edited  == (s1 :> 2) @@ (g1 :> 1)
Renewed == k1 :> 2

\* The same, assigned and issued once.
Plain     == [c \in {s1, g1} |-> {<<"ok", k1>>}]
OneEdit   == [c \in {s1, g1} |-> 1]
IssuedOnce == [k \in {k1} |-> 1]
=============================================================================
