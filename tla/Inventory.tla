----------------------------- MODULE Inventory ------------------------------
(***************************************************************************)
(* The inventory: what a starting agent finds of the certificates that the *)
(* servers of its host use, and what the CertKit server is told of it.     *)
(* Sources are the places it looks at: config files, lists that HAProxy    *)
(* configs name, mounted directories, and what PowerShell tells of IIS and *)
(* RRAS.  The host's administrators change them while they are read.       *)
(***************************************************************************)
EXTENDS Integers, FiniteSets, SequencesExt

CONSTANTS
    Sources,      \* the places, all but the lists
    Lists,        \* files that an HAProxy config names with crt-list
    Provider,     \* [Sources \cup Lists -> name of the provider that looks there]
    Contents,     \* [Sources \cup Lists -> the sequence of what may be found there]
    Platforms,    \* the sequences of providers of the platforms the host may have
    MountPoint,   \* [Sources -> the path of a mount, as a sequence of character codes]
    Whitelist,    \* paths below which certificates are mounted
    Qualified,    \* host names with a dot in them
    MaxBindings,  \* IIS bindings are taken into account up to this number
    Modes,        \* "service": the agent runs as one; "once": as a cron job
    None,         \* a directive, or a field of an item, is not there
    MaxEdits,     \* bound on edits of the host
    MaxFaults     \* bound on calls that fail and on crashes

Places == Sources \cup Lists

Gone == 0
Versions(p) == {Gone} \cup DOMAIN Contents[p]
Texts(p, versions) == {Contents[p][v] : v \in versions \ {Gone}}

Sites     == {"nginx", "apache", "litespeed"}
Providers == Sites \cup {"haproxy", "docker", "iis", "rras"}

ASSUME SourceAssumption == Sources \cap Lists = {} /\ Provider \in [Places -> Providers]
ASSUME ContentAssumption ==
    /\ \A p \in Places : Contents[p] \in Seq(ToSet(Contents[p]))
    /\ \A s \in Sources : Provider[s] \in Sites \cup {"iis"} =>
          \A v \in DOMAIN Contents[s] : Contents[s][v] \in Seq(ToSet(Contents[s][v]))
ASSUME MountAssumption  ==
    \A s \in Sources : Provider[s] = "docker" =>
        /\ MountPoint[s] \in Seq(Nat)
        /\ \A v \in DOMAIN Contents[s] : \A f \in Contents[s][v] :
               f = [base |-> f.base, ext |-> f.ext]
ASSUME ListAssumption   ==
    \A s \in Sources : Provider[s] = "haproxy" =>
        \A v \in DOMAIN Contents[s] : Contents[s][v].lists \in Seq(Lists)
ASSUME PlatformAssumption == \A p \in Platforms : p \in Seq(Providers)
ASSUME ModeAssumption   == Modes \subseteq {"service", "once"}
ASSUME BoundAssumption  == MaxBindings \in Nat /\ MaxEdits \in Nat /\ MaxFaults \in Nat

VARIABLES
    platform,    \* the providers of this host, which do not change
    mode,        \* how the process was started, or None
    host,        \* [Places -> the number of the content there is now, or Gone]
    registered,  \* config.json has an agent id
    silent,      \* this process registered, and sent no inventory as it could not save the id
    pc,          \* where the process is in its collection
    queue,       \* providers still to be asked
    todo,        \* places the current provider has still to read
    wanted,      \* crt-lists of the HAProxy config in hand that are still to be read
    part,        \* the certificates of that config so far
    items,       \* what was collected so far
    server,      \* the inventory the server has
    edits, faults,
    had,         \* [Places -> what was there at any time since the collection began]
    spoiled,     \* a fault hit this collection
    basis,       \* had and spoiled of the collection the server has, and whether it has one
    failed       \* the last collection that ended did so in an error, and none was begun since

identity == <<registered, silent>>
work  == <<queue, todo, wanted, part, items>>
ghost == <<had, spoiled, basis, failed>>
vars  == <<platform, mode, host, identity, pc, work, server, edits, faults, ghost>>

-----------------------------------------------------------------------------
(* What the providers make of what they read *)

\* normalizeDomain: a port that is a number and a leading "*." are cut off, and what is
\* then a host name with a dot in it is taken.
Normal(name) ==
    name.port \in {"none", "number"} /\ name.star \in {"none", "first"}
      /\ name.host \in Qualified

\* The names of a config file, all together.
Domains(names) == {name.host : name \in {n \in names : Normal(n)}}

Item(s, cert, key, chain, domains) ==
    [source |-> s, cert |-> cert, key |-> key, chain |-> chain, domains |-> domains]

\* The values of one directive, in the order of the file.
Values(blocks, directive) ==
    LET given   == {i \in DOMAIN blocks : blocks[i][directive] # None}
        rank(i) == Cardinality({j \in given : j <= i})
    IN  [n \in 1 .. Cardinality(given) |-> blocks[CHOOSE i \in given : rank(i) = n][directive]]

\* The n-th certificate belongs to the n-th key, and to the n-th chain if there are as many.
Paired(s, blocks) ==
    LET pairs   == Zip(Values(blocks, "cert"), Values(blocks, "key"))
        chains  == Values(blocks, "chain")
        domains == Domains(UNION {b.names : b \in ToSet(blocks)})
    IN  {Item(s, pairs[i][1], pairs[i][2],
              IF i \in DOMAIN chains THEN chains[i] ELSE None, domains) : i \in DOMAIN pairs}

\* A certificate of HAProxy is a file with its key in it.
Bundled(s, certs, names) == {Item(s, c, c, None, Domains(names)) : c \in certs}

\* Of two certificates with one base name .crt is met first, and a key is found by the
\* base name of its certificate.
Mounted(s, files) ==
    LET with(e)  == {f.base : f \in {g \in files : g.ext = e}}
        cert(b)  == [base |-> b, ext |-> IF b \in with("crt") THEN "crt" ELSE "pem"]
        key(b)   == IF b \in with("key") THEN [base |-> b, ext |-> "key"] ELSE None
    IN  {Item(s, cert(b), key(b), None, {}) : b \in with("crt") \cup with("pem")}
          \cup {Item(s, f, None, None, {}) : f \in {g \in files : g.ext = "pfx"}}

\* Every binding has an item; a binding without a name it can take has no domains.
Bound(s, bindings) ==
    {Item(s, bindings[i].site, bindings[i].site, None, Domains({bindings[i].name}))
        : i \in DOMAIN bindings \cap 1 .. MaxBindings}

\* One item, if the gateway runs and listens.
Gateway(s, state) ==
    IF state.listening THEN {Item(s, s, s, None, Domains(state.names))} ELSE {}

-----------------------------------------------------------------------------
(* The paths of mounts *)

Slash == 47
Backslash == 92
Digit(v) == 48 + v
Octal(c) == c \in 48 .. 55

\* Space, tab, newline and backslash are written as three octal digits.
Code(c) ==
    IF c \in {9, 10, 32, Backslash}
    THEN <<Backslash, Digit(c \div 64), Digit((c \div 8) % 8), Digit(c % 8)>>
    ELSE <<c>>

\* What the kernel writes into /proc/self/mountinfo.
Escape(path) == FlattenSeq([i \in DOMAIN path |-> Code(path[i])])

\* A backslash and three octal digits stand for a byte, which is 8 bits wide.
Coded(text, i) ==
    text[i] = Backslash /\ i + 3 <= Len(text) /\ \A j \in 1 .. 3 : Octal(text[i + j])

Value(text, i) ==
    (64 * (text[i + 1] - 48) + 8 * (text[i + 2] - 48) + (text[i + 3] - 48)) % 256

\* The characters of a code are read again.
Unescape_Overlapping(text) ==
    LET from[i \in 1 .. Len(text) + 1] ==
            IF i > Len(text) THEN <<>>
            ELSE (IF Coded(text, i) THEN <<Value(text, i)>> ELSE <<text[i]>>) \o from[i + 1]
    IN  from[1]

Unescape(text) ==
    LET from[i \in 1 .. Len(text) + 1] ==
            IF i > Len(text) THEN <<>>
            ELSE IF Coded(text, i) THEN <<Value(text, i)>> \o from[i + 4]
            ELSE <<text[i]>> \o from[i + 1]
    IN  from[1]

Whitelisted(path) ==
    \E prefix \in Whitelist : path = prefix \/ IsPrefix(Append(prefix, Slash), path)

\* A path that was decoded wrongly leads nowhere.
Scanned(s, files) ==
    LET path == Unescape(Escape(MountPoint[s]))
    IN  IF Whitelisted(path) /\ path = MountPoint[s] THEN Mounted(s, files) ELSE {}

-----------------------------------------------------------------------------
(* The process up to its collection *)

\* p is a place on this platform.
Here(p) == Provider[p] \in ToSet(platform)

Init ==
    /\ platform \in Platforms
    /\ mode = None
    /\ host \in [Places -> UNION {Versions(p) : p \in Places}]
    /\ \A p \in Places : host[p] \in IF Here(p) THEN Versions(p) ELSE {Gone}
    /\ registered = FALSE /\ silent = FALSE
    /\ pc = "down"
    /\ queue = <<>> /\ todo = {} /\ wanted = <<>> /\ part = None /\ items = {}
    /\ server = {}
    /\ edits = 0 /\ faults = 0
    /\ had = [p \in Places |-> {}] /\ spoiled = FALSE
    /\ basis = None /\ failed = FALSE

Go(from, to) ==
    /\ pc = from
    /\ pc' = to
    /\ UNCHANGED platform

Collecting == pc \in {"next", "read", "list"}

\* The collection is over, its results are forgotten.
Over ==
    /\ queue' = <<>> /\ todo' = {} /\ wanted' = <<>> /\ part' = None /\ items' = {}
    /\ had' = [p \in Places |-> {}] /\ spoiled' = FALSE

\* A call fails, or the process does.
Fault ==
    /\ faults < MaxFaults
    /\ faults' = faults + 1

Start(m) ==
    /\ Go("down", "start")
    /\ mode' = m
    /\ UNCHANGED <<host, identity, work, server, edits, faults, ghost>>

\* The id is saved, whoever runs, and the inventory is next.
Register ==
    /\ ~registered
    /\ Go("start", "collect")
    /\ registered' = TRUE
    /\ UNCHANGED <<mode, host, silent, work, server, edits, faults, ghost>>

\* DoRegistration returns at the error of saving, before the inventory.
RegisterUnsaved ==
    /\ ~registered
    /\ Go("start", "run")
    /\ Fault
    /\ silent' = TRUE
    /\ UNCHANGED <<mode, host, registered, work, server, edits, ghost>>

\* A poll or a pass that saves the configuration saves the id with it.
SaveLater ==
    /\ silent /\ ~registered
    /\ Go("run", "run")
    /\ registered' = TRUE
    /\ UNCHANGED <<mode, host, silent, work, server, edits, faults, ghost>>

\* An agent that was registered before sends nothing.
Resume_Silent ==
    /\ registered
    /\ Go("start", "run")
    /\ UNCHANGED <<mode, host, identity, work, server, edits, faults, ghost>>

\* `run --once` sends no inventory, the service does.
Resume ==
    /\ registered
    /\ Go("start", IF mode = "service" THEN "collect" ELSE "run")
    /\ UNCHANGED <<mode, host, identity, work, server, edits, faults, ghost>>

\* `run --once` ends, or the service is stopped.
End ==
    /\ Go("run", "down")
    /\ mode' = None /\ silent' = FALSE
    /\ UNCHANGED <<host, registered, work, server, edits, faults, ghost>>

-----------------------------------------------------------------------------
(* Collect: one provider after the other *)

\* The inventory starts from the one that was sent last.
Collect_Merging ==
    /\ Go("collect", "next")
    /\ queue' = platform /\ items' = server
    /\ had' = [p \in Places |-> {host[p]}] /\ spoiled' = FALSE /\ failed' = FALSE
    /\ UNCHANGED <<mode, host, identity, todo, wanted, part, server, edits, faults, basis>>

\* It starts from nothing.
Collect ==
    /\ Go("collect", "next")
    /\ queue' = platform /\ items' = {}
    /\ had' = [p \in Places |-> {host[p]}] /\ spoiled' = FALSE /\ failed' = FALSE
    /\ UNCHANGED <<mode, host, identity, todo, wanted, part, server, edits, faults, basis>>

\* The provider looks which of its places there are.
Ask ==
    /\ queue # <<>>
    /\ Go("next", "read")
    /\ todo' = {s \in Sources : Provider[s] = Head(queue) /\ host[s] # Gone}
    /\ queue' = Tail(queue)
    /\ UNCHANGED <<mode, host, identity, wanted, part, items, server, edits, faults, ghost>>

\* An error ends the collection, and everything collected so far is given up.
AskFails ==
    /\ queue # <<>> /\ Head(queue) \notin {"iis", "rras"}
    /\ Go("next", "run")
    /\ Fault
    /\ Over
    /\ failed' = TRUE
    /\ UNCHANGED <<mode, host, identity, server, edits, basis>>

\* The place s was read, and gives new items.
Take(s, new) ==
    /\ s \in todo
    /\ Go("read", "read")
    /\ todo' = todo \ {s}
    /\ items' = items \cup new
    /\ UNCHANGED <<mode, host, identity, queue, wanted, part, server, edits>>

\* What a provider makes of a place that it reads at once.
Sees(s, content) ==
    CASE Provider[s] \in Sites    -> Paired(s, content)
      [] Provider[s] = "docker"   -> Scanned(s, content)
      [] Provider[s] = "iis"      -> Bound(s, content)
      [] Provider[s] = "rras"     -> Gateway(s, content)

Read(s) ==
    /\ Provider[s] # "haproxy"
    /\ host[s] # Gone
    /\ Take(s, Sees(s, Contents[s][host[s]]))
    /\ UNCHANGED <<faults, ghost>>

\* The place has gone since it was found: logged, and nothing else.
ReadGone(s) ==
    /\ host[s] = Gone
    /\ Take(s, {})
    /\ UNCHANGED <<faults, ghost>>

\* So is a file that cannot be read, a directory that cannot be walked, and a query of
\* PowerShell that fails.
ReadFails(s) ==
    /\ Take(s, {})
    /\ Fault
    /\ spoiled' = TRUE
    /\ UNCHANGED <<had, basis, failed>>

\* An HAProxy config is read first, then the lists it names, in their order.
ReadHaproxy(s) ==
    /\ Provider[s] = "haproxy" /\ s \in todo
    /\ host[s] # Gone
    /\ Go("read", "list")
    /\ LET c == Contents[s][host[s]] IN
          /\ part' = [source |-> s, certs |-> c.certs, names |-> c.names]
          /\ wanted' = c.lists
    /\ todo' = todo \ {s}
    /\ UNCHANGED <<mode, host, identity, queue, items, server, edits, faults, ghost>>

ReadList ==
    /\ wanted # <<>> /\ host[Head(wanted)] # Gone
    /\ Go("list", "list")
    /\ LET l == Head(wanted) IN part' = [part EXCEPT !.certs = @ \cup Contents[l][host[l]]]
    /\ wanted' = Tail(wanted)
    /\ UNCHANGED <<mode, host, identity, queue, todo, items, server, edits, faults, ghost>>

\* What was read of the config so far lies about.
ReadListFails_Untidy ==
    /\ wanted # <<>>
    /\ Go("list", "read")
    /\ IF host[Head(wanted)] = Gone THEN UNCHANGED <<faults, spoiled>> ELSE Fault /\ spoiled' = TRUE
    /\ wanted' = <<>>
    /\ UNCHANGED <<mode, host, identity, queue, todo, part, items, server, edits, had, basis,
                   failed>>

\* The config is given up for a list that cannot be read.
ReadListFails ==
    /\ wanted # <<>>
    /\ Go("list", "read")
    /\ IF host[Head(wanted)] = Gone THEN UNCHANGED <<faults, spoiled>> ELSE Fault /\ spoiled' = TRUE
    /\ wanted' = <<>> /\ part' = None
    /\ UNCHANGED <<mode, host, identity, queue, todo, items, server, edits, had, basis,
                   failed>>

ListsRead ==
    /\ wanted = <<>>
    /\ Go("list", "read")
    /\ items' = items \cup Bundled(part.source, part.certs, part.names)
    /\ part' = None
    /\ UNCHANGED <<mode, host, identity, queue, todo, wanted, server, edits, faults, ghost>>

AllRead ==
    /\ todo = {}
    /\ Go("read", "next")
    /\ UNCHANGED <<mode, host, identity, work, server, edits, faults, ghost>>

-----------------------------------------------------------------------------
(* UpdateInventory *)

\* The server replaces the inventory it had.
Received ==
    /\ server' = items
    /\ basis' = [had |-> had, spoiled |-> spoiled]

Upload ==
    /\ queue = <<>>
    /\ Go("next", "run")
    /\ Received
    /\ Over
    /\ UNCHANGED <<mode, host, identity, edits, faults, failed>>

\* The call, or only its answer, is lost, and not repeated.
UploadFails ==
    /\ queue = <<>>
    /\ Go("next", "run")
    /\ Fault
    /\ Received \/ UNCHANGED <<server, basis>>
    /\ Over
    /\ failed' = TRUE
    /\ UNCHANGED <<mode, host, identity, edits>>

-----------------------------------------------------------------------------
(* The environment *)

Crash ==
    /\ pc # "down"
    /\ Go(pc, "down")
    /\ Fault
    /\ Over
    /\ mode' = None /\ silent' = FALSE
    /\ UNCHANGED <<host, registered, server, edits, basis, failed>>

\* A place is changed while the agent may be reading.
Edit(p) ==
    /\ edits < MaxEdits /\ Here(p)
    /\ edits' = edits + 1
    /\ \E v \in Versions(p) \ {host[p]} :
           /\ host' = [host EXCEPT ![p] = v]
           /\ had' = IF Collecting THEN [had EXCEPT ![p] = @ \cup {v}] ELSE had
    /\ UNCHANGED <<platform, mode, identity, pc, work, server, faults, spoiled, basis, failed>>

-----------------------------------------------------------------------------

Reading ==
    \/ \E s \in Sources : Read(s) \/ ReadGone(s) \/ ReadFails(s) \/ ReadHaproxy(s)
    \/ ReadList \/ ReadListFails \/ ListsRead \/ AllRead

Process ==
    \/ Register \/ RegisterUnsaved \/ Resume \/ Collect \/ Ask \/ AskFails \/ Reading \/ Upload \/ UploadFails

Next ==
    \/ \E m \in Modes : Start(m)
    \/ Process \/ SaveLater \/ End \/ Crash
    \/ \E p \in Places : Edit(p)

Spec == Init /\ [][Next]_vars

\* A collection goes on, a cron job ends, and systemd starts the service again.
FairSpec ==
    /\ Spec
    /\ WF_vars(Process) /\ WF_vars(mode = "once" /\ End) /\ SF_vars(Start("service"))

-----------------------------------------------------------------------------
(* Properties *)

Points == {"down", "start", "collect", "next", "read", "list", "run"}

\* Every variable keeps to its type.
TypeOK ==
    /\ platform \in Platforms /\ mode \in Modes \cup {None}
    /\ DOMAIN host = Places /\ \A p \in Places : host[p] \in Versions(p)
    /\ registered \in BOOLEAN /\ silent \in BOOLEAN
    /\ pc \in Points
    /\ queue \in Seq(ToSet(platform)) /\ todo \subseteq Sources /\ wanted \in Seq(Lists)
    /\ pc # "list" => part = None
    /\ edits \in 0 .. MaxEdits /\ faults \in 0 .. MaxFaults
    /\ DOMAIN had = Places /\ \A p \in Places : had[p] \subseteq Versions(p)
    /\ spoiled \in BOOLEAN /\ failed \in BOOLEAN

\* What an HAProxy config with content c has, its lists being what they were at some time.
Listed(c, when) == c.certs \cup UNION {UNION Texts(l, when[l]) : l \in ToSet(c.lists)}

\* An inventory shows what its places had at some time.
Shows(inventory, when) ==
    \A i \in inventory : i.source \in Sources /\ \E c \in Texts(i.source, when[i.source]) :
        IF Provider[i.source] = "haproxy"
        THEN i \in Bundled(i.source, Listed(c, when), c.names)
        ELSE i \in Sees(i.source, c)

\* Nothing is invented: whatever is reported, its place had it at some time of that very
\* collection, however the host changed under it (inventory.go:17-30, haproxy.go:86-103).
NothingInvented == server # {} => Shows(server, basis.had)

\* The certificates that an administrator would say place s with content c uses, its lists,
\* if it names any, being what they were: by their blocks, their files or their bindings.
Certificates(s, c, when) ==
    CASE Provider[s] \in Sites     -> {n \in DOMAIN c : c[n].cert # None}
      [] Provider[s] = "haproxy"   -> Listed(c, when)
      [] Provider[s] = "docker"    -> {f \in c : f.ext \in {"crt", "pem", "pfx"}}
      [] Provider[s] = "iis"       -> DOMAIN c
      [] Provider[s] = "rras"      -> {s}

\* The file with the key of certificate file f has its name; a PFX has the key in it.
KeyBeside(f, files) ==
    LET key == [f EXCEPT !.ext = "key"]
    IN  IF f.ext # "pfx" /\ key \in files THEN key ELSE None

\* Certificate x of place s as the server should have it: beside the key and the chain that
\* it is used with, and with its names.
Use(s, c, x) ==
    CASE Provider[s] \in Sites     -> Item(s, c[x].cert, c[x].key, c[x].chain, Domains(c[x].names))
      [] Provider[s] = "haproxy"   -> Item(s, x, x, None, Domains(c.names))
      [] Provider[s] = "docker"    -> Item(s, x, KeyBeside(x, c), None, {})
      [] Provider[s] = "iis"       -> Item(s, c[x].site, c[x].site, None, Domains({c[x].name}))
      [] Provider[s] = "rras"      -> Item(s, s, s, None, Domains(c.names))

\* The directives of the first n blocks of a config are in step: a block that has a
\* certificate has a key, and no other has one, and it is so with chains if there are any.
InStep(c, n) ==
    /\ \A i \in 1 .. n : c[i].cert = None <=> c[i].key = None
    /\ \/ \A i \in 1 .. n : c[i].cert = None <=> c[i].chain = None
       \/ \A i \in DOMAIN c : c[i].chain = None

\* The certificates that the server is not told of, or not beside the right key and chain,
\* although nothing failed: those of a config from the first block on that is out of step
\* (nginx.go:40-48), a .pem whose .crt namesake is there (docker.go:59-63), a mount that is
\* not below a whitelisted path (docker.go:128), IIS bindings beyond the tenth
\* (iis_windows.go:83), and a gateway that does not listen (rras_windows.go:26).
Overlooked(s, c, x) ==
    CASE Provider[s] \in Sites     -> ~InStep(c, x)
      [] Provider[s] = "haproxy"   -> FALSE
      [] Provider[s] = "docker"    -> \/ ~Whitelisted(MountPoint[s])
                                     \/ (x.ext = "pem" /\ [x EXCEPT !.ext = "crt"] \in c)
      [] Provider[s] = "iis"       -> x > MaxBindings
      [] Provider[s] = "rras"      -> ~c.listening

\* s, and the lists it names, were there and stayed as they were.
Steady(s, when) == \E v \in DOMAIN Contents[s] :
    /\ when[s] = {v}
    /\ Provider[s] = "haproxy" =>
         \A l \in ToSet(Contents[s][v].lists) : \E w \in DOMAIN Contents[l] : when[l] = {w}

\* An inventory has a certificate, and perhaps more names with it.
Has(inventory, u) ==
    \E i \in inventory : [i EXCEPT !.domains = u.domains] = u /\ u.domains \subseteq i.domains

\* It has every certificate of s that is not overlooked.
Covers(inventory, s, when) ==
    \A c \in Texts(s, when[s]) : \A x \in Certificates(s, c, when) :
        Overlooked(s, c, x) \/ Has(inventory, Use(s, c, x))

\* Places that the agent looks at and that stayed as they were.
Lasting(when) == {s \in Sources : Provider[s] \in ToSet(platform) /\ Steady(s, when)}

\* Nothing is missing that is not one of the kinds above: of a place that stayed as it was
\* during a collection without a fault the server has every certificate beside its own
\* key, chain and names (nginx.go:40-52, apache.go:31-51, haproxy.go:86-103, docker.go:50-118).
NothingMissed ==
    basis # None /\ ~basis.spoiled =>
        \A s \in Lasting(basis.had) : Covers(server, s, basis.had)

\* A host that has an agent id, whoever registered it and wherever that process was cut
\* short, is reported on once its service comes up: the server gets an inventory.  There
\* are two exceptions: a process that could not save the id at first sends none
\* (agent.go:52-55), and a service that goes on running after its collection or its upload
\* failed does not repeat it (inventory.go:22-24, agent.go:80-93), until it is started
\* again.  Of the repetition every 8 hours (HOW-IT-WORKS.md:25) there is nothing in the code.
RegisteredIsReported == registered /\ ~silent ~> (basis # None \/ []failed)

-----------------------------------------------------------------------------

\* The changes of a running collection are noted.
HadSeen == Collecting => \A p \in Places : host[p] \in had[p]

\* What the HAProxy config in hand has shown so far, it or its lists had.
PartShows ==
    \E c \in Texts(part.source, had[part.source]) :
        /\ part.source \in Sources /\ Provider[part.source] = "haproxy"
        /\ part.certs \subseteq Listed(c, had) /\ part.names = c.names
        /\ ToSet(wanted) \subseteq ToSet(c.lists)

\* The HAProxy config in hand is that of s, and what is not yet read of it is wanted.
InHand(s) ==
    /\ pc = "list" /\ part.source = s
    /\ \A c \in Texts(s, had[s]) :
          /\ part.names = c.names
          /\ Listed(c, had) \subseteq part.certs \cup UNION {UNION Texts(l, had[l]) : l \in ToSet(wanted)}

\* A place that has stayed as it was is covered, in hand, or will be read.
NothingSkipped ==
    Collecting /\ ~spoiled =>
        \A s \in Lasting(had) :
            \/ Provider[s] \in ToSet(queue)
            \/ s \in todo
            \/ InHand(s)
            \/ Covers(items, s, had)

\* Nothing is left to be read but while a provider is at it.
NothingLeft == pc \notin {"read", "list"} => todo = {}

\* The invariant that the proofs rest on.
IndInv ==
    /\ TypeOK /\ NothingInvented /\ NothingMissed /\ HadSeen
    /\ Shows(items, had)
    /\ pc = "list" => PartShows
    /\ NothingLeft /\ NothingSkipped
=============================================================================
