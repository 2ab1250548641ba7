---------------------------- MODULE MCInventory -----------------------------
(***************************************************************************)
(* An instance of Inventory for TLC: a Linux container and a Windows host. *)
(***************************************************************************)
EXTENDS Inventory, TLC

CONSTANTS apache, haproxy, list, mount, iis, rras,
          c1, c2, k1, k2, x1, x2, www, localhost

OneOfEach ==
    (apache :> "apache") @@ (haproxy :> "haproxy") @@ (list :> "haproxy") @@ (mount :> "docker")
      @@ (iis :> "iis") @@ (rras :> "rras")

Linux   == <<"nginx", "apache", "litespeed", "haproxy", "docker">>
Windows == <<"iis", "rras", "apache">>
Both    == {Linux, Windows}

\* A mount that is called "/a b\\040": mountinfo has a code in it, and what looks like one.
Path   == <<47, 97, 32, 98, 92, 48, 52, 48>>
Below  == {Path}
Mounts == mount :> Path

Name(h, s, p)  == [host |-> h, star |-> s, port |-> p]
Names          == {Name(www, "first", "number"), Name(localhost, "none", "none")}
Block(c, k, x) == [cert |-> c, key |-> k, chain |-> x, names |-> Names]
Binding(c, h)  == [site |-> c, name |-> Name(h, "none", "none")]
File(b, e)     == [base |-> b, ext |-> e]

\* The second config of apache lacks a chain in its first block; the third begins with a block
\* without a certificate, and lacks a key in its last.
What ==
    (apache :> <<<<Block(c1, k1, x1), Block(c2, k2, None)>>,
                 <<Block(c1, k1, None), Block(c2, k2, x2)>>,
                 <<Block(None, None, None), Block(c2, k2, None), Block(c1, None, None)>>>>)
      @@ (haproxy :> <<[certs |-> {c1}, lists |-> <<list>>, names |-> Names]>>)
      @@ (list :> <<{c1, c2}>>)
      @@ (mount :> <<{File(c1, "crt"), File(c1, "pem"), File(c1, "key"), File(c2, "pem"),
                      File(x1, "pfx"), File(k1, "key")}>>)
      @@ (iis :> <<<<Binding(c1, www), Binding(c2, localhost)>>>>)
      @@ (rras :> <<[listening |-> TRUE, names |-> Names]>>)
=============================================================================
