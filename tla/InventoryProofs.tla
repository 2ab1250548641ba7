-------------------------- MODULE InventoryProofs ---------------------------
(***************************************************************************)
(* What the server is told of a host was there, whatever its config files  *)
(* hold, however they change under the agent, and whatever fails; and of   *)
(* what stayed there nothing is missing but what the agent overlooks.      *)
(***************************************************************************)
EXTENDS MountPathProofs, FiniteSetTheorems, TLAPS

\* An item names its place.
LEMMA ItemHasPlace == \A s, cert, key, chain, domains : Item(s, cert, key, chain, domains).source = s
BY DEF Item

\* Every item a provider makes of a place names that place.
LEMMA SeesItsPlace ==
    ASSUME NEW s \in Sources, NEW content, NEW i \in Sees(s, content), Provider[s] # "haproxy"
    PROVE  i.source = s
<1>1. Provider[s] \in Sites \cup {"docker", "iis", "rras"}
    BY SourceAssumption DEF Providers, Places, Sites
<1>2. CASE Provider[s] \in Sites
    <2>1. i \in Paired(s, content)
        BY <1>2 DEF Sees, Sites
    <2>2. \E cert, key, chain, domains : i = Item(s, cert, key, chain, domains)
        BY <2>1, Zenon DEF Paired
    <2> QED
        BY <2>2, ItemHasPlace
<1>3. CASE Provider[s] = "docker"
    <2>1. i \in Scanned(s, content)
        BY <1>3 DEF Sees, Sites
    <2>2. i \in Mounted(s, content)
        BY <2>1 DEF Scanned
    <2> QED
        BY <2>2 DEF Mounted, Item
<1>4. CASE Provider[s] = "iis"
    <2>1. i \in Bound(s, content)
        BY <1>4 DEF Sees, Sites
    <2>2. \E cert, key, chain, domains : i = Item(s, cert, key, chain, domains)
        BY <2>1, Zenon DEF Bound
    <2> QED
        BY <2>2, ItemHasPlace
<1>5. CASE Provider[s] = "rras"
    <2>1. i \in Gateway(s, content)
        BY <1>5 DEF Sees, Sites
    <2> QED
        BY <2>1 DEF Gateway, Item
<1> QED
    BY <1>1, <1>2, <1>3, <1>4, <1>5

\* Every item of an HAProxy config does, too, and one of fewer files is one of more.
LEMMA BundledItsPlace ==
    ASSUME NEW s, NEW certs, NEW more, NEW names, certs \subseteq more
    PROVE  /\ \A i \in Bundled(s, certs, names) : i.source = s
           /\ Bundled(s, certs, names) \subseteq Bundled(s, more, names)
BY DEF Bundled, Item

\* What was seen at some time stays seen when more is.
LEMMA ShowsMore ==
    ASSUME NEW inventory, NEW before, NEW after,
           \A p \in Places : before[p] \subseteq after[p],
           Shows(inventory, before), \A s \in Sources : Provider[s] = "haproxy" =>
               \A c \in Texts(s, before[s]) : ToSet(c.lists) \subseteq Lists
    PROVE  Shows(inventory, after)
<1> SUFFICES ASSUME NEW i \in inventory
             PROVE  i.source \in Sources /\ \E c \in Texts(i.source, after[i.source]) :
                        IF Provider[i.source] = "haproxy"
                        THEN i \in Bundled(i.source, Listed(c, after), c.names)
                        ELSE i \in Sees(i.source, c)
    BY DEF Shows
<1>1. PICK c \in Texts(i.source, before[i.source]) :
          i.source \in Sources /\ IF Provider[i.source] = "haproxy"
          THEN i \in Bundled(i.source, Listed(c, before), c.names)
          ELSE i \in Sees(i.source, c)
    BY DEF Shows
<1>2. c \in Texts(i.source, after[i.source])
    BY <1>1 DEF Texts, Places
<1>3. CASE Provider[i.source] = "haproxy"
    <2>1. Listed(c, before) \subseteq Listed(c, after)
        BY <1>1, <1>3 DEF Listed, Texts, Places
    <2> QED
        BY <1>1, <1>2, <1>3, <2>1, BundledItsPlace
<1>4. CASE Provider[i.source] # "haproxy"
    BY <1>1, <1>2, <1>4
<1> QED
    BY <1>3, <1>4

\* The lists that a config names are lists.
LEMMA ListsAreLists ==
    ASSUME NEW s \in Sources, Provider[s] = "haproxy", NEW versions \in SUBSET Versions(s),
           NEW c \in Texts(s, versions)
    PROVE  c.lists \in Seq(Lists) /\ ToSet(c.lists) \subseteq Lists
<1>1. PICK v \in versions \ {Gone} : c = Contents[s][v]
    BY DEF Texts
<1>2. c.lists \in Seq(Lists)
    BY <1>1, ListAssumption DEF Versions
<1> QED
    BY <1>2 DEF ToSet

-----------------------------------------------------------------------------
(* What a provider makes of a place covers what the place uses *)

\* An item that is there is covered.
LEMMA HasItem ==
    ASSUME NEW inventory, NEW s, NEW cert, NEW key, NEW chain, NEW domains, NEW more,
           domains \subseteq more, Item(s, cert, key, chain, more) \in inventory
    PROVE  Has(inventory, Item(s, cert, key, chain, domains))
<1> DEFINE i == Item(s, cert, key, chain, more)
           u == Item(s, cert, key, chain, domains)
<1>1. [i EXCEPT !.domains = u.domains] = u /\ u.domains = domains /\ i.domains = more
    BY DEF Item
<1> HIDE DEF i, u
<1>2. i \in inventory /\ u.domains \subseteq i.domains
    BY <1>1 DEF i
<1> QED
    BY <1>1, <1>2 DEF Has, u

\* The place of the n-th block's value among the values of a directive.
Position(c, n, directive) == Cardinality({j \in {i \in DOMAIN c : c[i][directive] # None} : j <= n})

\* A block that gives a directive has its value there.
LEMMA ValueOfBlock ==
    ASSUME NEW c, c \in Seq(ToSet(c)), NEW n \in DOMAIN c, NEW directive, c[n][directive] # None
    PROVE  /\ Position(c, n, directive) \in DOMAIN Values(c, directive)
           /\ Values(c, directive)[Position(c, n, directive)] = c[n][directive]
<1> DEFINE given   == {i \in DOMAIN c : c[i][directive] # None}
           upto(i) == {j \in given : j <= i}
           rank(i) == Cardinality(upto(i))
<1>1. Len(c) \in Nat /\ DOMAIN c = 1 .. Len(c) /\ given \subseteq 1 .. Len(c) /\ n \in given
    OBVIOUS
<1>2. IsFiniteSet(given) /\ Cardinality(given) \in Nat
    <2>1. IsFiniteSet(1 .. Len(c))
        BY <1>1, FS_Interval
    <2> QED
        BY <1>1, <2>1, FS_Subset, FS_CardinalityType
<1>3. ASSUME NEW i \in given
      PROVE  IsFiniteSet(upto(i)) /\ rank(i) \in 1 .. Cardinality(given)
    <2>1. upto(i) \subseteq given /\ i \in upto(i)
        BY <1>1
    <2>2. IsFiniteSet(upto(i)) /\ rank(i) <= Cardinality(given)
        BY <1>2, <2>1, FS_Subset
    <2>3. rank(i) \in Nat /\ Cardinality(given) \in Nat /\ rank(i) # 0
        BY <1>2, <2>1, <2>2, FS_CardinalityType, FS_EmptySet
    <2> HIDE DEF given, rank
    <2> QED
        BY <2>2, <2>3
<1>4. ASSUME NEW i \in given, NEW k \in given, i < k PROVE rank(i) < rank(k)
    <2>1. upto(i) \cup {k} \subseteq upto(k) /\ k \notin upto(i)
        BY <1>1, <1>4
    <2>2. IsFiniteSet(upto(i)) /\ IsFiniteSet(upto(k)) /\ rank(i) \in Nat /\ rank(k) \in Nat
        BY <1>3, FS_CardinalityType
    <2> HIDE DEF given, upto
    <2>3. Cardinality(upto(i) \cup {k}) = rank(i) + 1
        BY <2>1, <2>2, FS_AddElement
    <2>4. Cardinality(upto(i) \cup {k}) <= rank(k)
        BY <2>1, <2>2, FS_Subset
    <2> QED
        BY <2>2, <2>3, <2>4
<1>5. ASSUME NEW i \in given, rank(i) = rank(n) PROVE i = n
    <2>1. i \in Int /\ n \in Int
        BY <1>1
    <2>2. rank(i) \in 1 .. Cardinality(given) /\ rank(n) \in 1 .. Cardinality(given)
        <3>1. n \in given
            BY <1>1
        <3> HIDE DEF given, rank
        <3> QED
            BY <1>3, <1>5, <3>1
    <2> HIDE DEF given, rank
    <2> QED
        BY <1>1, <1>2, <1>4, <1>5, <2>1, <2>2
<1>6. (CHOOSE i \in given : rank(i) = rank(n)) = n
    <2> HIDE DEF given, rank
    <2> QED
        BY <1>1, <1>5
<1>7. Values(c, directive) =
          [m \in 1 .. Cardinality(given) |-> c[CHOOSE i \in given : rank(i) = m][directive]]
    BY DEF Values
<1>8. Position(c, n, directive) = rank(n)
    BY DEF Position
<1> HIDE DEF given, rank
<1>9. rank(n) \in 1 .. Cardinality(given)
    BY <1>1, <1>3
<1> QED
    BY <1>6, <1>7, <1>8, <1>9

\* Directives that the same blocks give, up to the n-th, have the same places.
LEMMA SamePosition ==
    ASSUME NEW c, c \in Seq(ToSet(c)), NEW n \in DOMAIN c, NEW one, NEW other,
           \A i \in 1 .. n : c[i][one] = None <=> c[i][other] = None
    PROVE  Position(c, n, one) = Position(c, n, other)
<1>1. Len(c) \in Nat /\ DOMAIN c = 1 .. Len(c) /\ n \in 1 .. Len(c)
    OBVIOUS
<1>2. {j \in {i \in DOMAIN c : c[i][one] # None} : j <= n}
          = {j \in {i \in DOMAIN c : c[i][other] # None} : j <= n}
    BY <1>1
<1> QED
    BY <1>2 DEF Position

\* A directive that no block gives has no values.
LEMMA NoValues ==
    ASSUME NEW c, NEW directive, \A i \in DOMAIN c : c[i][directive] = None
    PROVE  DOMAIN Values(c, directive) = {}
<1> DEFINE given == {i \in DOMAIN c : c[i][directive] # None}
<1>1. given = {} /\ Cardinality(given) = 0
    BY FS_EmptySet
<1>2. DOMAIN Values(c, directive) = 1 .. Cardinality(given)
    BY DEF Values
<1> HIDE DEF given
<1>3. 1 .. 0 = {}
    OBVIOUS
<1> QED
    BY <1>1, <1>2, <1>3

\* The values of a directive are a sequence.
LEMMA ValuesAreSequence ==
    ASSUME NEW c, c \in Seq(ToSet(c)), NEW directive
    PROVE  /\ Len(Values(c, directive)) \in Nat
           /\ DOMAIN Values(c, directive) = 1 .. Len(Values(c, directive))
<1> DEFINE given == {i \in DOMAIN c : c[i][directive] # None}
<1>1. Cardinality(given) \in Nat
    <2>1. IsFiniteSet(1 .. Len(c)) /\ DOMAIN c = 1 .. Len(c)
        BY FS_Interval
    <2>2. given \in SUBSET (1 .. Len(c))
        BY <2>1
    <2> QED
        BY <2>1, <2>2, FS_Subset, FS_CardinalityType
<1> DEFINE v == Values(c, directive)
           N == Cardinality(given)
<1>2. v = [m \in 1 .. N |-> v[m]]
    BY DEF Values
<1> HIDE DEF given, v, N
<1>3. v \in Seq({v[i] : i \in 1 .. N}) /\ Len(v) = N
    BY <1>1, <1>2 DEF N
<1> QED
    BY <1>1, <1>2, <1>3 DEF v, N

\* The certificate of a block that is in step is collected beside its own key and chain,
\* and its names are among those it gets.
LEMMA PairedCovers ==
    ASSUME NEW s, NEW c, c \in Seq(ToSet(c)), NEW n \in DOMAIN c, c[n].cert # None, InStep(c, n)
    PROVE  Has(Paired(s, c), Item(s, c[n].cert, c[n].key, c[n].chain, Domains(c[n].names)))
<1> DEFINE certs  == Values(c, "cert")
           keys   == Values(c, "key")
           chains == Values(c, "chain")
           pairs  == Zip(certs, keys)
           names  == UNION {b.names : b \in ToSet(c)}
           chain(i) == IF i \in DOMAIN chains THEN chains[i] ELSE None
           m == Position(c, n, "cert")
<1>1. n \in 1 .. n /\ \A i \in 1 .. n : i \in DOMAIN c
    OBVIOUS
<1>2. m \in DOMAIN certs /\ certs[m] = c[n].cert
    BY ValueOfBlock
<1>3. m \in DOMAIN keys /\ keys[m] = c[n].key
    <2>1. \A i \in 1 .. n : c[i]["cert"] = None <=> c[i]["key"] = None
        BY DEF InStep
    <2>2. m = Position(c, n, "key") /\ c[n]["key"] # None
        BY <1>1, <2>1, SamePosition
    <2> QED
        BY <2>2, ValueOfBlock
<1>4. chain(m) = c[n].chain
    <2>1. CASE \A i \in 1 .. n : c[i].cert = None <=> c[i].chain = None
        <3>1. \A i \in 1 .. n : c[i]["cert"] = None <=> c[i]["chain"] = None
            BY <2>1
        <3>2. m = Position(c, n, "chain") /\ c[n]["chain"] # None
            BY <1>1, <3>1, SamePosition
        <3> QED
            BY <3>2, ValueOfBlock
    <2>2. CASE \A i \in DOMAIN c : c[i].chain = None
        BY <2>2, NoValues
    <2> QED
        BY <2>1, <2>2 DEF InStep
<1>5. m \in DOMAIN pairs /\ pairs[m] = <<c[n].cert, c[n].key>>
    <2>1. /\ Len(certs) \in Nat /\ DOMAIN certs = 1 .. Len(certs)
          /\ Len(keys) \in Nat /\ DOMAIN keys = 1 .. Len(keys)
        BY ValuesAreSequence
    <2> HIDE DEF certs, keys, m
    <2> QED
        BY <1>2, <1>3, <2>1 DEF Zip
<1>6. Domains(c[n].names) \subseteq Domains(names)
    BY DEF Domains, ToSet
<1>7. Paired(s, c) = {Item(s, pairs[i][1], pairs[i][2], chain(i), Domains(names)) : i \in DOMAIN pairs}
    BY DEF Paired
<1> HIDE DEF certs, keys, chains, pairs, names, chain, m
<1>8. Item(s, c[n].cert, c[n].key, c[n].chain, Domains(names)) \in Paired(s, c)
    BY <1>4, <1>5, <1>7
<1> QED
    BY <1>6, <1>8, HasItem

\* An item that is one of a place, however it was made, is covered where it is.
LEMMA HasItself ==
    ASSUME NEW inventory, NEW u \in inventory,
           \E s, cert, key, chain, domains : u = Item(s, cert, key, chain, domains)
    PROVE  Has(inventory, u)
<1>1. PICK s, cert, key, chain, domains : u = Item(s, cert, key, chain, domains)
    OBVIOUS
<1> QED
    BY <1>1, HasItem

\* A certificate file of a mount that none of its name hides is collected beside its key.
LEMMA MountedCovers ==
    ASSUME NEW s, NEW files, \A f \in files : f = [base |-> f.base, ext |-> f.ext],
           NEW f \in files, f.ext \in {"crt", "pem", "pfx"},
           f.ext = "pem" => [f EXCEPT !.ext = "crt"] \notin files
    PROVE  Item(s, f, KeyBeside(f, files), None, {}) \in Mounted(s, files)
<1> DEFINE with(e) == {g.base : g \in {h \in files : h.ext = e}}
           cert(b) == [base |-> b, ext |-> IF b \in with("crt") THEN "crt" ELSE "pem"]
           key(b)  == IF b \in with("key") THEN [base |-> b, ext |-> "key"] ELSE None
<1>1. ASSUME NEW e PROVE [base |-> f.base, ext |-> e] = [f EXCEPT !.ext = e]
    <2>1. f = [base |-> f.base, ext |-> f.ext]
        OBVIOUS
    <2> QED
        BY <2>1
<1>2. ASSUME NEW e PROVE f.base \in with(e) <=> [f EXCEPT !.ext = e] \in files
    <2>1. ASSUME f.base \in with(e) PROVE [base |-> f.base, ext |-> e] \in files
        BY <2>1
    <2>2. ASSUME [base |-> f.base, ext |-> e] \in files PROVE f.base \in with(e)
        BY <2>2
    <2> QED
        BY <1>1, <2>1, <2>2
<1>3. Mounted(s, files) =
          {Item(s, cert(b), key(b), None, {}) : b \in with("crt") \cup with("pem")}
            \cup {Item(s, g, None, None, {}) : g \in {h \in files : h.ext = "pfx"}}
    BY DEF Mounted
<1>4. CASE f.ext = "pfx"
    BY <1>3, <1>4 DEF KeyBeside
<1>5. CASE f.ext # "pfx"
    <2>1. f.base \in with("crt") \cup with("pem")
        BY <1>5
    <2>2. cert(f.base) = f
        BY <1>1, <1>2, <1>5
    <2>3. key(f.base) = KeyBeside(f, files)
        BY <1>1, <1>2, <1>5 DEF KeyBeside
    <2> HIDE DEF with, cert, key
    <2> QED
        BY <1>3, <2>1, <2>2, <2>3
<1> QED
    BY <1>4, <1>5

\* What an inventory should have of a place.
Due(s, c, when) == {x \in Certificates(s, c, when) : ~Overlooked(s, c, x)}

\* Reading a place at once collects what it should: the blocks of a config are told apart by
\* their positions, and a mount's path is decoded to what it is.
LEMMA SeesCovers ==
    ASSUME NEW s \in Sources, Provider[s] # "haproxy", NEW v \in DOMAIN Contents[s],
           NEW when, NEW x \in Due(s, Contents[s][v], when)
    PROVE  Has(Sees(s, Contents[s][v]), Use(s, Contents[s][v], x))
<1> DEFINE c == Contents[s][v]
<1> USE DEF Due
<1>1. Provider[s] \in Sites \cup {"docker", "iis", "rras"}
    BY SourceAssumption DEF Providers, Places
<1>2. CASE Provider[s] \in Sites
    <2>1. c \in Seq(ToSet(c)) /\ Sees(s, c) = Paired(s, c)
        BY <1>2, ContentAssumption DEF Sees, Sites
    <2> HIDE DEF c
    <2>2. x \in DOMAIN c /\ c[x].cert # None /\ InStep(c, x)
        BY <1>2 DEF Certificates, Overlooked, Sites, c
    <2>3. Use(s, c, x) = Item(s, c[x].cert, c[x].key, c[x].chain, Domains(c[x].names))
        BY <1>2 DEF Use, Sites
    <2> QED
        BY <2>1, <2>2, <2>3, PairedCovers DEF c
<1>3. CASE Provider[s] = "docker"
    <2>1. Unescape(Escape(MountPoint[s])) = MountPoint[s]
        BY <1>3, MountAssumption, PathsSurvive
    <2>2. /\ x \in c /\ x.ext \in {"crt", "pem", "pfx"} /\ Whitelisted(MountPoint[s])
          /\ x.ext = "pem" => [x EXCEPT !.ext = "crt"] \notin c
        BY <1>3 DEF Certificates, Overlooked, Sites
    <2>3. Sees(s, c) = Mounted(s, c)
        BY <1>3, <2>1, <2>2 DEF Sees, Scanned, Sites
    <2>4. Use(s, c, x) = Item(s, x, KeyBeside(x, c), None, {})
        BY <1>3 DEF Use, Sites
    <2>5. \A f \in c : f = [base |-> f.base, ext |-> f.ext]
        BY <1>3, MountAssumption
    <2> HIDE DEF c
    <2>6. Item(s, x, KeyBeside(x, c), None, {}) \in Mounted(s, c)
        BY <2>2, <2>5, MountedCovers
    <2> QED
        BY <2>3, <2>4, <2>6, HasItself DEF c
<1>4. CASE Provider[s] = "iis"
    <2>1. c \in Seq(ToSet(c)) /\ Sees(s, c) = Bound(s, c)
        BY <1>4, ContentAssumption DEF Sees, Sites
    <2> HIDE DEF c
    <2>2. x \in DOMAIN c \cap 1 .. MaxBindings
        <3>1. x \in DOMAIN c /\ ~(x > MaxBindings)
            BY <1>4 DEF Certificates, Overlooked, Sites, c
        <3> QED
            BY <2>1, <3>1, BoundAssumption
    <2>3. Use(s, c, x) = Item(s, c[x].site, c[x].site, None, Domains({c[x].name}))
        BY <1>4 DEF Use, Sites
    <2>4. Use(s, c, x) \in Bound(s, c)
        BY <2>2, <2>3 DEF Bound
    <2> QED
        BY <2>1, <2>3, <2>4, HasItself DEF c
<1>5. CASE Provider[s] = "rras"
    <2>1. c.listening /\ Sees(s, c) = Gateway(s, c)
        BY <1>5 DEF Certificates, Overlooked, Sees, Sites
    <2>2. Use(s, c, x) = Item(s, s, s, None, Domains(c.names))
        BY <1>5 DEF Use, Sites
    <2>3. Use(s, c, x) \in Gateway(s, c)
        BY <2>1, <2>2 DEF Gateway
    <2> QED
        BY <2>1, <2>2, <2>3, HasItself
<1> QED
    BY <1>1, <1>2, <1>3, <1>4, <1>5

\* So does reading an HAProxy config with all its lists.
LEMMA BundledCovers ==
    ASSUME NEW s, Provider[s] = "haproxy", NEW c, NEW when, NEW certs,
           Listed(c, when) \subseteq certs, NEW x \in Due(s, c, when)
    PROVE  Has(Bundled(s, certs, c.names), Use(s, c, x))
<1>1. x \in Listed(c, when)
    BY DEF Due, Certificates, Sites
<1>2. Use(s, c, x) = Item(s, x, x, None, Domains(c.names))
    BY DEF Use, Sites
<1>3. Use(s, c, x) \in Bundled(s, certs, c.names)
    BY <1>1, <1>2 DEF Bundled
<1> QED
    BY <1>2, <1>3, HasItself

-----------------------------------------------------------------------------

\* A fault stays in its bound.
LEMMA FaultsBounded ==
    ASSUME TypeOK, Fault
    PROVE  faults' \in 0 .. MaxFaults
BY BoundAssumption DEF TypeOK, Fault

\* A collection that is over leaves its variables in their types.
LEMMA OverTypes ==
    ASSUME TypeOK, Over, UNCHANGED platform
    PROVE  /\ queue' \in Seq(ToSet(platform')) /\ todo' \subseteq Sources
           /\ wanted' \in Seq(Lists) /\ part' = None
           /\ DOMAIN had' = Places /\ \A p \in Places : had'[p] \subseteq Versions(p)
           /\ spoiled' \in BOOLEAN
<1>1. ASSUME NEW S PROVE <<>> \in Seq(S)
    OBVIOUS
<1>2. queue' = <<>> /\ wanted' = <<>> /\ todo' = {} /\ part' = None /\ spoiled' = FALSE
          /\ had' = [p \in Places |-> {}]
    BY DEF Over
<1> QED
    BY <1>1, <1>2

\* Every step keeps every variable to its type.
LEMMA TypeStep ==
    ASSUME TypeOK, [Next]_vars
    PROVE  TypeOK'
<1> USE BoundAssumption
    DEF TypeOK, Points, Go, identity, work, ghost, Places, Versions
<1>1. ASSUME NEW m \in Modes, Start(m) PROVE TypeOK'
    BY <1>1 DEF Start
<1>2. CASE Register
    BY <1>2 DEF Register
<1>3. CASE Resume
    BY <1>3 DEF Resume
<1>4. CASE Collect
    <2>1. platform \in Seq(ToSet(platform))
        BY <1>4, PlatformAssumption DEF ToSet
    <2> QED
        BY <1>4, <2>1 DEF Collect
<1>5. CASE Ask
    BY <1>5 DEF Ask
<1>6. CASE AskFails
    BY <1>6, FaultsBounded, OverTypes DEF AskFails
<1>7. ASSUME NEW s \in Sources, Read(s) PROVE TypeOK'
    BY <1>7 DEF Read, Take
<1>8. ASSUME NEW s \in Sources, ReadGone(s) PROVE TypeOK'
    BY <1>8 DEF ReadGone, Take
<1>9. ASSUME NEW s \in Sources, ReadFails(s) PROVE TypeOK'
    BY <1>9, FaultsBounded DEF ReadFails, Take
<1>10. ASSUME NEW s \in Sources, ReadHaproxy(s) PROVE TypeOK'
    BY <1>10, ListAssumption, SourceAssumption DEF ReadHaproxy
<1>11. CASE ReadList
    BY <1>11 DEF ReadList
<1>12. CASE ReadListFails
    <2>1. <<>> \in Seq(Lists)
        OBVIOUS
    <2>2. faults' \in 0 .. MaxFaults /\ spoiled' \in BOOLEAN
        BY <1>12, FaultsBounded DEF ReadListFails
    <2> QED
        BY <1>12, <2>1, <2>2 DEF ReadListFails
<1>13. CASE ListsRead
    BY <1>13 DEF ListsRead
<1>14. CASE AllRead
    BY <1>14 DEF AllRead
<1>15. CASE Upload
    BY <1>15, OverTypes DEF Upload, Received
<1>16. CASE UploadFails
    BY <1>16, FaultsBounded, OverTypes DEF UploadFails, Received
<1>17. CASE End
    BY <1>17 DEF End
<1>18. CASE Crash
    BY <1>18, FaultsBounded, OverTypes DEF Crash
<1>19. ASSUME NEW p \in Places, Edit(p) PROVE TypeOK'
    BY <1>19 DEF Edit
<1>20. CASE UNCHANGED vars
    BY <1>20 DEF vars
<1>21. CASE RegisterUnsaved
    BY <1>21, FaultsBounded DEF RegisterUnsaved
<1>22. CASE SaveLater
    BY <1>22 DEF SaveLater
<1> QED
    BY <1>1, <1>2, <1>3, <1>4, <1>5, <1>6, <1>7, <1>8, <1>9, <1>10, <1>11, <1>12, <1>13,
       <1>14, <1>15, <1>16, <1>17, <1>18, <1>19, <1>20, <1>21, <1>22
    DEF Next, Process, Reading

-----------------------------------------------------------------------------

\* What is between the places and the server.
Collected == HadSeen /\ Shows(items, had) /\ (pc = "list" => PartShows)

\* A collection that has nothing yet, or is over, shows nothing that was not there.
LEMMA NothingCollected ==
    ASSUME items' = {}, pc' \notin {"read", "list"}, HadSeen'
    PROVE  Collected'
BY DEF Collected, Shows

\* A step that reads nothing, beside no edit, keeps what was collected.
LEMMA NothingNew ==
    ASSUME Collected, UNCHANGED <<host, items, had>>,
           pc' \in {"next", "read"} => Collecting, pc' # "list"
    PROVE  Collected'
BY DEF Collected, HadSeen, Shows, Collecting

\* New items that had their place at some time may be added.
LEMMA NewItems ==
    ASSUME Collected, NEW new, Shows(new, had), Collecting,
           items' = items \cup new, UNCHANGED <<host, had>>, pc' # "list"
    PROVE  Collected'
BY DEF Collected, HadSeen, Shows, Collecting

\* What is in a place now is among what was there.
LEMMA SeenNow ==
    ASSUME TypeOK, HadSeen, Collecting, NEW p \in Places, host[p] # Gone
    PROVE  Contents[p][host[p]] \in Texts(p, had[p])
BY DEF HadSeen, Texts

\* Reading a place at once.
LEMMA ReadShows ==
    ASSUME TypeOK, Collected, NEW s \in Sources, Read(s)
    PROVE  Collected'
<1> DEFINE new == Sees(s, Contents[s][host[s]])
<1>1. Collecting /\ pc' = "read" /\ items' = items \cup new /\ UNCHANGED <<host, had>>
    BY DEF Read, Take, Go, Collecting, ghost
<1>2. Provider[s] # "haproxy" /\ host[s] # Gone
    BY DEF Read
<1>3. Contents[s][host[s]] \in Texts(s, had[s])
    BY <1>1, <1>2, SeenNow DEF Collected, Places
<1>4. Shows(new, had)
    BY <1>2, <1>3, SeesItsPlace DEF Shows
<1> QED
    BY <1>1, <1>4, NewItems

\* Reading an HAProxy config.
LEMMA ReadHaproxyShows ==
    ASSUME TypeOK, Collected, NEW s \in Sources, ReadHaproxy(s)
    PROVE  Collected'
<1> DEFINE c == Contents[s][host[s]]
<1>1. /\ Provider[s] = "haproxy" /\ host[s] # Gone /\ Collecting
      /\ UNCHANGED <<host, items, had>>
      /\ part' = [source |-> s, certs |-> c.certs, names |-> c.names] /\ wanted' = c.lists
    BY DEF ReadHaproxy, Go, Collecting, ghost
<1>2. c \in Texts(s, had[s])
    BY <1>1, SeenNow DEF Collected, Places
<1>3. c.certs \subseteq Listed(c, had)
    BY DEF Listed
<1>4. PartShows'
    BY <1>1, <1>2, <1>3 DEF PartShows, Texts, Listed
<1> QED
    BY <1>1, <1>4 DEF Collected, HadSeen, Shows, Collecting

\* Reading one of the lists it names.
LEMMA ReadListShows ==
    ASSUME TypeOK, Collected, ReadList
    PROVE  Collected'
<1> DEFINE l == Head(wanted)
<1>1. /\ wanted # <<>> /\ host[l] # Gone /\ Collecting /\ pc = "list"
      /\ UNCHANGED <<host, items, had>> /\ wanted' = Tail(wanted)
      /\ part' = [part EXCEPT !.certs = @ \cup Contents[l][host[l]]]
    BY DEF ReadList, Go, Collecting, ghost
<1>2. wanted \in Seq(Lists)
    BY DEF TypeOK
<1>3. l \in Lists /\ l \in ToSet(wanted) /\ ToSet(Tail(wanted)) \subseteq ToSet(wanted)
    BY <1>1, <1>2 DEF ToSet
<1>4. Contents[l][host[l]] \in Texts(l, had[l])
    BY <1>1, <1>3, SeenNow DEF Collected, Places
<1>5. PICK c \in Texts(part.source, had[part.source]) :
          /\ part.source \in Sources /\ Provider[part.source] = "haproxy"
          /\ part.certs \subseteq Listed(c, had) /\ part.names = c.names
          /\ ToSet(wanted) \subseteq ToSet(c.lists)
    BY <1>1 DEF Collected, PartShows
<1>6. Contents[l][host[l]] \subseteq Listed(c, had)
    BY <1>3, <1>4, <1>5 DEF Listed
<1>7. /\ part'.source = part.source /\ part'.names = part.names
      /\ part'.certs \subseteq part.certs \cup Contents[l][host[l]]
    BY <1>1
<1>8. PartShows'
    BY <1>1, <1>3, <1>5, <1>6, <1>7 DEF PartShows, Texts, Listed
<1> QED
    BY <1>1, <1>8 DEF Collected, HadSeen, Shows, Collecting

\* The items of a config whose lists are all read.
LEMMA ListsReadShow ==
    ASSUME TypeOK, Collected, ListsRead
    PROVE  Collected'
<1> DEFINE new == Bundled(part.source, part.certs, part.names)
<1>1. /\ Collecting /\ pc = "list" /\ pc' = "read" /\ UNCHANGED <<host, had>>
      /\ items' = items \cup new
    BY DEF ListsRead, Go, Collecting, ghost
<1>2. PICK c \in Texts(part.source, had[part.source]) :
          /\ part.source \in Sources /\ Provider[part.source] = "haproxy"
          /\ part.certs \subseteq Listed(c, had) /\ part.names = c.names
    BY <1>1 DEF Collected, PartShows
<1>3. \A i \in new : i.source = part.source /\ i \in Bundled(part.source, Listed(c, had), c.names)
    BY <1>2, BundledItsPlace
<1>4. Shows(new, had)
    BY <1>2, <1>3 DEF Shows
<1> QED
    BY <1>1, <1>4, NewItems

\* A change of the host under the collection: what was there before it still counts.
LEMMA EditShows ==
    ASSUME TypeOK, Collected, NEW p \in Places, Edit(p)
    PROVE  Collected'
<1>1. UNCHANGED <<pc, items, part, wanted>>
    BY DEF Edit, work
<1>2. PICK v \in Versions(p) \ {host[p]} :
          /\ host' = [host EXCEPT ![p] = v]
          /\ had' = IF Collecting THEN [had EXCEPT ![p] = @ \cup {v}] ELSE had
    BY DEF Edit
<1>3. \A q \in Places : had[q] \subseteq had'[q]
    BY <1>2 DEF TypeOK
<1>4. HadSeen'
    BY <1>1, <1>2 DEF Collected, HadSeen, Collecting, TypeOK
<1>5. \A s \in Sources : Provider[s] = "haproxy" =>
          \A c \in Texts(s, had[s]) : ToSet(c.lists) \subseteq Lists
    <2> SUFFICES ASSUME NEW s \in Sources, Provider[s] = "haproxy", NEW c \in Texts(s, had[s])
                 PROVE  ToSet(c.lists) \subseteq Lists
        OBVIOUS
    <2>1. had[s] \in SUBSET Versions(s)
        BY DEF TypeOK, Places
    <2> QED
        BY <2>1, ListsAreLists
<1>6. Shows(items', had')
    BY <1>1, <1>3, <1>5, ShowsMore DEF Collected
<1>7. ASSUME pc' = "list" PROVE PartShows'
    <2>1. PICK c \in Texts(part.source, had[part.source]) :
              /\ part.source \in Sources /\ Provider[part.source] = "haproxy"
              /\ part.certs \subseteq Listed(c, had) /\ part.names = c.names
              /\ ToSet(wanted) \subseteq ToSet(c.lists)
        BY <1>1, <1>7 DEF Collected, PartShows
    <2>2. c \in Texts(part.source, had'[part.source])
        BY <1>3, <2>1 DEF Texts, Places
    <2>3. Listed(c, had) \subseteq Listed(c, had')
        BY <1>3, <1>5, <2>1 DEF Listed, Texts, Places
    <2> QED
        BY <1>1, <2>1, <2>2, <2>3 DEF PartShows
<1> QED
    BY <1>4, <1>6, <1>7 DEF Collected, Shows

\* Every step keeps what was collected to what was there.
LEMMA CollectedStep ==
    ASSUME TypeOK, Collected, [Next]_vars
    PROVE  Collected'
<1>1. ASSUME NEW m \in Modes, Start(m) PROVE Collected'
    BY <1>1, NothingNew DEF Start, Go, work, ghost
<1>2. CASE Register
    BY <1>2, NothingNew DEF Register, Go, work, ghost
<1>3. CASE Resume
    BY <1>3, NothingNew DEF Resume, Go, work, ghost
<1>4. CASE Collect
    BY <1>4, NothingCollected DEF Collect, Go, HadSeen
<1>5. CASE Ask
    BY <1>5, NothingNew DEF Ask, Go, Collecting, ghost
<1>6. CASE AskFails
    BY <1>6, NothingCollected DEF AskFails, Go, Over, HadSeen, Collecting
<1>7. ASSUME NEW s \in Sources, ReadGone(s) PROVE Collected'
    BY <1>7, NothingNew DEF ReadGone, Take, Go, Collecting, ghost
<1>8. ASSUME NEW s \in Sources, ReadFails(s) PROVE Collected'
    BY <1>8, NothingNew DEF ReadFails, Take, Go, Collecting
<1>9. CASE ReadListFails
    BY <1>9, NothingNew DEF ReadListFails, Go, Collecting
<1>10. CASE AllRead
    BY <1>10, NothingNew DEF AllRead, Go, Collecting, work, ghost
<1>11. CASE Upload
    BY <1>11, NothingCollected DEF Upload, Go, Over, HadSeen, Collecting
<1>12. CASE UploadFails
    BY <1>12, NothingCollected DEF UploadFails, Go, Over, HadSeen, Collecting
<1>13. CASE End
    BY <1>13, NothingNew DEF End, Go, work, ghost
<1>14. CASE Crash
    BY <1>14, NothingCollected DEF Crash, Go, Over, HadSeen, Collecting
<1>15. CASE UNCHANGED vars
    BY <1>15 DEF vars, work, ghost, Collected, HadSeen, Shows, Collecting, PartShows
<1>16. CASE RegisterUnsaved
    BY <1>16, NothingNew DEF RegisterUnsaved, Go, work, ghost
<1>17. CASE SaveLater
    BY <1>17, NothingNew DEF SaveLater, Go, work, ghost
<1> QED
    BY <1>1, <1>2, <1>3, <1>4, <1>5, <1>6, <1>7, <1>8, <1>9, <1>10, <1>11, <1>12, <1>13,
       <1>14, <1>15, <1>16, <1>17, ReadShows, ReadHaproxyShows, ReadListShows, ListsReadShow, EditShows
    DEF Next, Process, Reading

\* The server is sent nothing else.
LEMMA ServerStep ==
    ASSUME Collected, NothingInvented, [Next]_vars
    PROVE  NothingInvented'
<1>1. CASE Received
    BY <1>1 DEF Received, Collected, NothingInvented, Shows
<1>2. CASE UNCHANGED <<server, basis>>
    BY <1>2 DEF NothingInvented, Shows
<1>3. Received \/ UNCHANGED <<server, basis>>
    BY DEF Next, Process, Reading, Start, Register, RegisterUnsaved, SaveLater, Resume, Collect, Ask, AskFails, Read, ReadGone,
           ReadFails, ReadHaproxy, ReadList, ReadListFails, ListsRead, AllRead, Take, Upload,
           UploadFails, End, Crash, Edit, vars, work, ghost
<1> QED
    BY <1>1, <1>2, <1>3

-----------------------------------------------------------------------------
(* Nothing is skipped *)

\* Where a certificate of s still is, or already.
Handled(s) ==
    \/ Provider[s] \in ToSet(queue)
    \/ s \in todo
    \/ InHand(s)
    \/ Covers(items, s, had)

\* More items cover no less.
LEMMA CoversMore ==
    ASSUME NEW inventory, NEW more, NEW s, NEW when,
           inventory \subseteq more, Covers(inventory, s, when)
    PROVE  Covers(more, s, when)
BY DEF Covers, Has

\* Covers, by what an inventory has.
LEMMA CoversHas ==
    ASSUME NEW inventory, NEW s, NEW when,
           \A c \in Texts(s, when[s]) : \A x \in Due(s, c, when) : Has(inventory, Use(s, c, x))
    PROVE  Covers(inventory, s, when)
BY DEF Covers, Due

\* What was there throughout, and only that, is there now.
LEMMA OnlyOne ==
    ASSUME TypeOK, HadSeen, Collecting, NEW p \in Places, NEW v \in DOMAIN Contents[p], had[p] = {v}
    PROVE  v = host[p] /\ host[p] # Gone /\ Texts(p, had[p]) = {Contents[p][host[p]]}
<1>1. v = host[p]
    BY DEF HadSeen
<1>2. v # Gone
    BY ContentAssumption DEF Gone
<1>3. Texts(p, had[p]) = {Contents[p][v]}
    BY <1>2 DEF Texts
<1> QED
    BY <1>1, <1>2, <1>3

\* So it is with a place that has stayed as it was, and with the lists it names.
LEMMA LastingIsThere ==
    ASSUME TypeOK, HadSeen, Collecting, NEW s \in Lasting(had)
    PROVE  /\ s \in Sources /\ host[s] \in DOMAIN Contents[s] /\ host[s] # Gone
           /\ Texts(s, had[s]) = {Contents[s][host[s]]}
           /\ Provider[s] = "haproxy" =>
                \A l \in ToSet(Contents[s][host[s]].lists) :
                    host[l] # Gone /\ Texts(l, had[l]) = {Contents[l][host[l]]}
<1>1. PICK v \in DOMAIN Contents[s] :
          /\ s \in Sources /\ had[s] = {v}
          /\ Provider[s] = "haproxy" =>
               \A l \in ToSet(Contents[s][v].lists) : \E w \in DOMAIN Contents[l] : had[l] = {w}
    BY DEF Lasting, Steady
<1>2. v = host[s] /\ host[s] # Gone /\ Texts(s, had[s]) = {Contents[s][host[s]]}
    BY <1>1, OnlyOne DEF Places
<1>3. ASSUME Provider[s] = "haproxy", NEW l \in ToSet(Contents[s][v].lists)
      PROVE  host[l] # Gone /\ Texts(l, had[l]) = {Contents[l][host[l]]}
    <2>1. l \in Lists
        BY <1>1, <1>3, ListAssumption DEF ToSet
    <2>2. PICK w \in DOMAIN Contents[l] : had[l] = {w}
        BY <1>1, <1>3
    <2> QED
        BY <2>1, <2>2, OnlyOne DEF Places
<1> QED
    BY <1>1, <1>2, <1>3

\* A step under a collection that loses hold of no place that has stayed as it was.
LEMMA NoneDropped ==
    ASSUME NothingSkipped, UNCHANGED <<platform, had>>, Collecting, ~spoiled' => ~spoiled,
           \A s \in Lasting(had) : Handled(s) => Handled(s)'
    PROVE  NothingSkipped'
BY DEF NothingSkipped, Lasting, Handled

\* A provider is asked for its places: none was left from the one before it.
LEMMA AskSkipsNone ==
    ASSUME TypeOK, HadSeen, NothingLeft, NothingSkipped, Ask
    PROVE  NothingSkipped'
<1>1. /\ Collecting /\ pc = "next" /\ queue # <<>> /\ queue' = Tail(queue)
      /\ UNCHANGED <<platform, items, had, spoiled>>
      /\ todo' = {s \in Sources : Provider[s] = Head(queue) /\ host[s] # Gone}
    BY DEF Ask, Go, Collecting, ghost
<1>2. ASSUME NEW s \in Lasting(had), Handled(s) PROVE Handled(s)'
    <2>1. s \in Sources /\ host[s] # Gone
        BY <1>1, LastingIsThere
    <2>2. s \notin todo /\ ~InHand(s)
        BY <1>1 DEF NothingLeft, InHand
    <2>3. CASE Covers(items, s, had)
        BY <1>1, <2>3 DEF Handled
    <2>4. CASE Provider[s] \in ToSet(queue)
        <3>1. Provider[s] = Head(queue) \/ Provider[s] \in ToSet(Tail(queue))
            <4>1. queue \in Seq(ToSet(platform))
                BY DEF TypeOK
            <4>2. PICK i \in 1 .. Len(queue) : Provider[s] = queue[i]
                BY <2>4, <4>1 DEF ToSet
            <4>3. CASE i = 1
                BY <4>2, <4>3, <4>1, <1>1
            <4>4. CASE i # 1
                <5>1. i - 1 \in DOMAIN Tail(queue) /\ Tail(queue)[i - 1] = queue[i]
                    BY <4>1, <4>4, <1>1
                <5> QED
                    BY <4>2, <5>1 DEF ToSet
            <4> QED
                BY <4>3, <4>4
        <3> QED
            BY <1>1, <2>1, <3>1 DEF Handled
    <2> QED
        BY <1>2, <2>2, <2>3, <2>4 DEF Handled
<1> QED
    BY <1>1, <1>2, NoneDropped

\* A place is read at once, and collected with all it uses.
LEMMA ReadSkipsNone ==
    ASSUME TypeOK, HadSeen, NothingSkipped, NEW r \in Sources, Read(r)
    PROVE  NothingSkipped'
<1> DEFINE new == Sees(r, Contents[r][host[r]])
<1>1. /\ Collecting /\ pc = "read" /\ Provider[r] # "haproxy"
      /\ todo' = todo \ {r} /\ items' = items \cup new
      /\ UNCHANGED <<platform, had, queue, spoiled>>
    BY DEF Read, Take, Go, Collecting, ghost
<1>2. ASSUME NEW s \in Lasting(had), Handled(s) PROVE Handled(s)'
    <2>1. ~InHand(s)
        BY <1>1 DEF InHand
    <2>2. CASE Covers(items, s, had)
        BY <1>1, <2>2, CoversMore DEF Handled
    <2>3. CASE s = r
        <3>1. host[s] \in DOMAIN Contents[s] /\ Texts(s, had[s]) = {Contents[s][host[s]]}
            BY <1>1, LastingIsThere
        <3>2. \A x \in Due(s, Contents[s][host[s]], had) : Has(new, Use(s, Contents[s][host[s]], x))
            BY <1>1, <2>3, <3>1, SeesCovers
        <3>3. Covers(new, s, had)
            BY <3>1, <3>2, CoversHas
        <3> QED
            BY <1>1, <3>3, CoversMore DEF Handled
    <2>4. CASE s # r /\ (s \in todo \/ Provider[s] \in ToSet(queue))
        BY <1>1, <2>4 DEF Handled
    <2> QED
        BY <1>2, <2>1, <2>2, <2>3, <2>4 DEF Handled
<1> QED
    BY <1>1, <1>2, NoneDropped

\* A place that is gone when it is read has not stayed as it was.
LEMMA ReadGoneSkipsNone ==
    ASSUME TypeOK, HadSeen, NothingSkipped, NEW r \in Sources, ReadGone(r)
    PROVE  NothingSkipped'
<1>1. /\ Collecting /\ pc = "read" /\ host[r] = Gone
      /\ todo' = todo \ {r} /\ items' = items
      /\ UNCHANGED <<platform, had, queue, spoiled>>
    BY DEF ReadGone, Take, Go, Collecting, ghost
<1>2. ASSUME NEW s \in Lasting(had), Handled(s) PROVE Handled(s)'
    <2>1. s # r
        BY <1>1, LastingIsThere
    <2> QED
        BY <1>1, <1>2, <2>1 DEF Handled, InHand
<1> QED
    BY <1>1, <1>2, NoneDropped

\* An HAProxy config is taken in hand with all its lists.
LEMMA ReadHaproxySkipsNone ==
    ASSUME TypeOK, HadSeen, NothingSkipped, NEW r \in Sources, ReadHaproxy(r)
    PROVE  NothingSkipped'
<1> DEFINE c == Contents[r][host[r]]
<1>1. /\ Collecting /\ pc = "read" /\ pc' = "list"
      /\ part' = [source |-> r, certs |-> c.certs, names |-> c.names] /\ wanted' = c.lists
      /\ todo' = todo \ {r}
      /\ UNCHANGED <<platform, had, items, queue, spoiled>>
    BY DEF ReadHaproxy, Go, Collecting, ghost
<1>2. ASSUME NEW s \in Lasting(had), Handled(s) PROVE Handled(s)'
    <2>1. CASE s = r
        <3>1. Texts(s, had[s]) = {c}
            BY <1>1, <2>1, LastingIsThere
        <3>2. part'.source = s /\ part'.names = c.names /\ part'.certs = c.certs
            BY <1>1, <2>1
        <3>3. Listed(c, had) \subseteq part'.certs \cup UNION {UNION Texts(l, had[l]) : l \in ToSet(wanted')}
            BY <1>1, <3>2 DEF Listed
        <3>4. InHand(s)'
            BY <1>1, <3>1, <3>2, <3>3 DEF InHand, Listed, Texts
        <3> QED
            BY <3>4 DEF Handled
    <2>2. CASE s # r
        BY <1>1, <1>2, <2>2 DEF Handled, InHand
    <2> QED
        BY <2>1, <2>2
<1> QED
    BY <1>1, <1>2, NoneDropped

\* The lists that are still wanted of a config that has stayed as it was have stayed, too.
LEMMA WantedIsThere ==
    ASSUME TypeOK, HadSeen, PartShows, NEW s \in Lasting(had), InHand(s)
    PROVE  /\ Provider[s] = "haproxy" /\ Texts(s, had[s]) = {Contents[s][host[s]]}
           /\ \A l \in ToSet(wanted) : host[l] # Gone /\ Texts(l, had[l]) = {Contents[l][host[l]]}
<1>1. Collecting /\ part.source = s
    BY DEF InHand, Collecting
<1>2. Texts(s, had[s]) = {Contents[s][host[s]]}
          /\ (Provider[s] = "haproxy" => \A l \in ToSet(Contents[s][host[s]].lists) :
                  host[l] # Gone /\ Texts(l, had[l]) = {Contents[l][host[l]]})
    BY <1>1, LastingIsThere
<1>3. PICK c \in Texts(s, had[s]) : Provider[s] = "haproxy" /\ ToSet(wanted) \subseteq ToSet(c.lists)
    BY <1>1 DEF PartShows
<1> QED
    BY <1>2, <1>3

\* The next list is read: what it had is in hand now.
LEMMA ReadListSkipsNone ==
    ASSUME TypeOK, HadSeen, pc = "list" => PartShows, NothingSkipped, ReadList
    PROVE  NothingSkipped'
<1> DEFINE l == Head(wanted)
           new == Contents[l][host[l]]
<1>1. /\ Collecting /\ pc = "list" /\ pc' = "list" /\ wanted # <<>> /\ wanted' = Tail(wanted)
      /\ part' = [part EXCEPT !.certs = @ \cup new]
      /\ UNCHANGED <<platform, had, items, queue, todo, spoiled>>
    BY DEF ReadList, Go, Collecting, ghost
<1>2. ASSUME NEW s \in Lasting(had), InHand(s) PROVE InHand(s)'
    <2>1. PartShows /\ part.source = s
        BY <1>1, <1>2 DEF InHand
    <2>2. \A k \in ToSet(wanted) : Texts(k, had[k]) = {Contents[k][host[k]]}
        BY <1>2, <2>1, WantedIsThere
    <2>3. ToSet(wanted) \subseteq {l} \cup ToSet(Tail(wanted)) /\ l \in ToSet(wanted)
        <3>1. wanted \in Seq(Lists)
            BY DEF TypeOK
        <3>2. l \in ToSet(wanted)
            BY <1>1, <3>1 DEF ToSet
        <3>3. ASSUME NEW i \in 1 .. Len(wanted) PROVE wanted[i] \in {l} \cup ToSet(Tail(wanted))
            <4>1. CASE i = 1
                BY <1>1, <3>1, <4>1
            <4>2. CASE i # 1
                <5>1. i - 1 \in DOMAIN Tail(wanted) /\ Tail(wanted)[i - 1] = wanted[i]
                    BY <1>1, <3>1, <4>2
                <5> QED
                    BY <5>1 DEF ToSet
            <4> QED
                BY <4>1, <4>2
        <3> QED
            BY <3>1, <3>2, <3>3 DEF ToSet
    <2>5. part'.source = s /\ part'.names = part.names /\ part.certs \cup new \subseteq part'.certs
        BY <1>1, <2>1
    <2>6. ASSUME NEW c \in Texts(s, had[s])
          PROVE  /\ part'.names = c.names
                 /\ Listed(c, had) \subseteq part'.certs \cup UNION {UNION Texts(k, had[k]) : k \in ToSet(Tail(wanted))}
        <3>1. part.names = c.names
                  /\ Listed(c, had) \subseteq part.certs \cup UNION {UNION Texts(k, had[k]) : k \in ToSet(wanted)}
            BY <1>2 DEF InHand
        <3>2. UNION Texts(l, had[l]) = new
            BY <2>2, <2>3
        <3> HIDE DEF l, new
        <3> QED
            BY <2>3, <2>5, <3>1, <3>2
    <2> QED
        BY <1>1, <2>5, <2>6 DEF InHand, Listed, Texts
<1>3. ASSUME NEW s \in Lasting(had), Handled(s) PROVE Handled(s)'
    BY <1>1, <1>2, <1>3 DEF Handled
<1> QED
    BY <1>1, <1>3, NoneDropped

\* A config is given up for a list that cannot be read only when that list has gone, which is
\* a change, or for a fault.
LEMMA ReadListFailsSkipsNone ==
    ASSUME TypeOK, HadSeen, pc = "list" => PartShows, NothingSkipped, ReadListFails
    PROVE  NothingSkipped'
<1>1. /\ Collecting /\ pc = "list" /\ wanted # <<>>
      /\ ~spoiled' => ~spoiled /\ host[Head(wanted)] = Gone
      /\ UNCHANGED <<platform, had, items, queue, todo>>
    BY DEF ReadListFails, Go, Collecting
<1>2. ASSUME ~spoiled', NEW s \in Lasting(had) PROVE ~InHand(s)
    <2>1. Head(wanted) \in ToSet(wanted)
        BY <1>1 DEF TypeOK, ToSet
    <2> QED
        BY <1>1, <1>2, <2>1, WantedIsThere
<1> QED
    BY <1>1, <1>2 DEF NothingSkipped, Lasting

\* The config that is in hand is collected with what its lists had.
LEMMA ListsReadSkipsNone ==
    ASSUME TypeOK, HadSeen, pc = "list" => PartShows, NothingSkipped, ListsRead
    PROVE  NothingSkipped'
<1> DEFINE new == Bundled(part.source, part.certs, part.names)
<1>1. /\ Collecting /\ pc = "list" /\ wanted = <<>> /\ items' = items \cup new
      /\ UNCHANGED <<platform, had, queue, todo, spoiled>>
    BY DEF ListsRead, Go, Collecting, ghost
<1>2. ASSUME NEW s \in Lasting(had), Handled(s) PROVE Handled(s)'
    <2>1. CASE InHand(s)
        <3>1. Provider[s] = "haproxy" /\ part.source = s
            BY <1>1, <1>2, <2>1, WantedIsThere DEF InHand
        <3>2. ASSUME NEW c \in Texts(s, had[s]), NEW x \in Due(s, c, had) PROVE Has(new, Use(s, c, x))
            <4>1. ToSet(wanted) = {}
                BY <1>1 DEF ToSet
            <4>2. part.names = c.names /\ Listed(c, had) \subseteq part.certs
                BY <2>1, <4>1 DEF InHand
            <4> QED
                BY <3>1, <3>2, <4>2, BundledCovers
        <3>3. Covers(new, s, had)
            BY <3>2, CoversHas
        <3> QED
            BY <1>1, <3>3, CoversMore DEF Handled
    <2>2. CASE Covers(items, s, had)
        BY <1>1, <2>2, CoversMore DEF Handled
    <2> QED
        BY <1>1, <1>2, <2>1, <2>2 DEF Handled
<1> QED
    BY <1>1, <1>2, NoneDropped

\* A change leaves the places and lists alone that have stayed as they were even after it.
LEMMA EditSkipsNone ==
    ASSUME TypeOK, HadSeen, pc = "list" => PartShows, NothingSkipped, NEW p \in Places, Edit(p)
    PROVE  NothingSkipped'
<1>1. UNCHANGED <<platform, pc, items, queue, todo, part, wanted, spoiled>>
    BY DEF Edit, work
<1> SUFFICES ASSUME Collecting, ~spoiled, NEW s \in Lasting(had')
             PROVE  Handled(s)'
    BY <1>1 DEF NothingSkipped, Lasting, Handled, Collecting
<1>2. PICK e \in Versions(p) : had' = [had EXCEPT ![p] = @ \cup {e}]
    BY DEF Edit
<1>3. ASSUME NEW q \in Places, NEW w, had'[q] = {w} PROVE had[q] = had'[q]
    BY <1>2, <1>3 DEF HadSeen, TypeOK
<1>4. PICK v \in DOMAIN Contents[s] :
          /\ s \in Sources /\ Provider[s] \in ToSet(platform) /\ had'[s] = {v}
          /\ Provider[s] = "haproxy" =>
               \A l \in ToSet(Contents[s][v].lists) : \E w \in DOMAIN Contents[l] : had'[l] = {w}
    BY <1>1 DEF Lasting, Steady
<1>5. had'[s] = had[s]
    BY <1>3, <1>4 DEF Places
<1>6. ASSUME Provider[s] = "haproxy", NEW l \in ToSet(Contents[s][v].lists)
      PROVE  had'[l] = had[l]
    <2>1. l \in Lists
        BY <1>4, <1>6, ListAssumption DEF ToSet
    <2> QED
        BY <1>3, <1>4, <1>6, <2>1 DEF Places
<1>7. s \in Lasting(had)
    BY <1>4, <1>5, <1>6 DEF Lasting, Steady
<1>8. Texts(s, had[s]) = {Contents[s][v]}
    BY <1>4, <1>5, OnlyOne DEF Places
<1>9. Provider[s] = "haproxy" => Listed(Contents[s][v], had') = Listed(Contents[s][v], had)
    BY <1>6 DEF Listed
<1>10. Certificates(s, Contents[s][v], had') = Certificates(s, Contents[s][v], had)
    BY <1>9 DEF Certificates, Sites
<1>11. ASSUME InHand(s) PROVE InHand(s)'
    <2>1. PartShows
        BY <1>11 DEF InHand
    <2>2. Provider[s] = "haproxy" /\ ToSet(wanted) \subseteq ToSet(Contents[s][v].lists)
        BY <1>8, <1>11, <2>1 DEF PartShows, InHand
    <2>3. \A l \in ToSet(wanted) : had'[l] = had[l]
        BY <1>6, <2>2
    <2> QED
        BY <1>1, <1>5, <1>8, <1>9, <1>11, <2>2, <2>3 DEF InHand, Listed, Texts
<1>12. ASSUME Covers(items, s, had) PROVE Covers(items, s, had')
    BY <1>5, <1>8, <1>10, <1>12 DEF Covers
<1>13. Handled(s)
    BY <1>7 DEF NothingSkipped, Handled
<1> QED
    BY <1>1, <1>11, <1>12, <1>13 DEF Handled

\* Every step keeps hold of every place that has stayed as it was.
LEMMA SkipStep ==
    ASSUME TypeOK, HadSeen, pc = "list" => PartShows, NothingLeft, NothingSkipped, [Next]_vars
    PROVE  NothingSkipped'
<1> USE DEF Go, Collecting
<1>1. ASSUME ~Collecting' PROVE NothingSkipped'
    BY <1>1 DEF NothingSkipped
<1>2. ASSUME NEW m \in Modes, Start(m) PROVE NothingSkipped'
    BY <1>1, <1>2 DEF Start
<1>3. CASE Register \/ RegisterUnsaved \/ Resume \/ SaveLater \/ End
    BY <1>1, <1>3 DEF Register, RegisterUnsaved, Resume, SaveLater, End
<1>4. CASE Collect
    BY <1>4 DEF Collect, NothingSkipped, Lasting
<1>5. CASE AskFails \/ Upload \/ UploadFails \/ Crash
    BY <1>1, <1>5 DEF AskFails, Upload, UploadFails, Crash
<1>6. ASSUME NEW s \in Sources, ReadFails(s) PROVE NothingSkipped'
    BY <1>6 DEF ReadFails, NothingSkipped
<1>7. CASE AllRead
    BY <1>7, NoneDropped DEF AllRead, work, ghost, Handled, InHand
<1>8. CASE UNCHANGED vars
    BY <1>8 DEF vars, work, ghost, NothingSkipped, Lasting, InHand
<1> QED
    BY <1>2, <1>3, <1>4, <1>5, <1>6, <1>7, <1>8, AskSkipsNone, ReadSkipsNone, ReadGoneSkipsNone,
       ReadHaproxySkipsNone, ReadListSkipsNone, ReadListFailsSkipsNone, ListsReadSkipsNone,
       EditSkipsNone
    DEF Next, Process, Reading

\* No step leaves places to be read without a provider at it.
LEMMA LeftStep ==
    ASSUME NothingLeft, [Next]_vars
    PROVE  NothingLeft'
BY DEF NothingLeft, Go, Next, Process, Reading, Start, Register, RegisterUnsaved, SaveLater, Resume,
       Collect, Ask, AskFails, Read, ReadGone, ReadFails, ReadHaproxy, ReadList, ReadListFails,
       ListsRead, AllRead, Take, Upload, UploadFails, End, Crash, Edit, Over, vars, work

\* When a collection is sent, every place that has stayed as it was is covered.
LEMMA MissedStep ==
    ASSUME NothingLeft, NothingSkipped, NothingMissed, [Next]_vars
    PROVE  NothingMissed'
<1>1. CASE Upload \/ (UploadFails /\ Received)
    <2>1. /\ pc = "next" /\ queue = <<>> /\ Collecting /\ platform' = platform
          /\ server' = items /\ basis' = [had |-> had, spoiled |-> spoiled]
        BY <1>1 DEF Upload, UploadFails, Received, Go, Collecting
    <2> SUFFICES ASSUME ~spoiled, NEW s \in Lasting(had)
                 PROVE  Covers(items, s, had)
        BY <2>1 DEF NothingMissed, Lasting, Covers
    <2>2. ToSet(queue) = {} /\ todo = {} /\ ~InHand(s)
        BY <2>1 DEF ToSet, NothingLeft, InHand
    <2> QED
        BY <2>1, <2>2 DEF NothingSkipped
<1>2. CASE UNCHANGED <<platform, server, basis>>
    BY <1>2 DEF NothingMissed, Lasting, Covers
<1> QED
    BY <1>1, <1>2
    DEF Go, Next, Process, Reading, Start, Register, RegisterUnsaved, SaveLater, Resume, Collect,
        Ask, AskFails, Read, ReadGone, ReadFails, ReadHaproxy, ReadList, ReadListFails, ListsRead,
        AllRead, Take, UploadFails, End, Crash, Edit, vars, work, ghost

-----------------------------------------------------------------------------

\* An agent that was never started has collected nothing.
LEMMA Initially ==
    ASSUME Init
    PROVE  IndInv
<1>1. ASSUME NEW S PROVE <<>> \in Seq(S)
    OBVIOUS
<1>2. TypeOK
    <2>1. DOMAIN host = Places /\ \A p \in Places : host[p] \in Versions(p)
        BY DEF Init, Versions
    <2>2. queue \in Seq(ToSet(platform)) /\ wanted \in Seq(Lists)
        BY <1>1 DEF Init
    <2>3. DOMAIN had = Places /\ \A p \in Places : had[p] \subseteq Versions(p)
        BY DEF Init
    <2>4. edits \in 0 .. MaxEdits /\ faults \in 0 .. MaxFaults
        BY BoundAssumption DEF Init
    <2> QED
        BY <2>1, <2>2, <2>3, <2>4 DEF Init, TypeOK, Points
<1>3. HadSeen /\ Shows(items, had) /\ NothingInvented /\ pc # "list"
    BY DEF Init, HadSeen, Shows, NothingInvented, Collecting
<1>4. NothingMissed /\ NothingLeft /\ NothingSkipped
    BY DEF Init, NothingMissed, NothingLeft, NothingSkipped, Collecting
<1> QED
    BY <1>2, <1>3, <1>4 DEF IndInv

\* The inductive invariant holds throughout.
THEOREM Invariance == Spec => []IndInv
<1>1. ASSUME IndInv, [Next]_vars PROVE IndInv'
    <2>1. TypeOK' /\ NothingInvented' /\ Collected'
        BY <1>1, TypeStep, CollectedStep, ServerStep DEF IndInv, Collected
    <2>2. NothingLeft' /\ NothingSkipped' /\ NothingMissed'
        BY <1>1, LeftStep, SkipStep, MissedStep DEF IndInv
    <2> QED
        BY <2>1, <2>2 DEF IndInv, Collected
<1> QED
    BY <1>1, Initially, PTL DEF Spec

\* Every variable keeps to its type.
THEOREM TypeCorrect == Spec => []TypeOK
<1>1. IndInv => TypeOK
    BY DEF IndInv
<1> QED
    BY <1>1, Invariance, PTL

\* Whatever the server was told of a host, its place had it at some time of that very
\* collection (inventory.go:17-30, haproxy.go:86-103).
THEOREM NothingIsInvented == Spec => []NothingInvented
<1>1. IndInv => NothingInvented
    BY DEF IndInv
<1> QED
    BY <1>1, Invariance, PTL

\* Of a place that stayed as it was during a collection without a fault the server has every
\* certificate beside its own key, chain and names (nginx.go:40-52, apache.go:31-51,
\* haproxy.go:86-103, docker.go:50-118), except for the kinds that Overlooked lists: what
\* comes in a config from the first block on that is out of step, a .pem with a .crt of its
\* name, a mount that is not whitelisted, IIS bindings beyond MaxBindings, a gateway that
\* does not listen.
THEOREM NothingIsMissed == Spec => []NothingMissed
<1>1. IndInv => NothingMissed
    BY DEF IndInv
<1> QED
    BY <1>1, Invariance, PTL
=============================================================================
