---------------------------- MODULE WindowsStore ----------------------------
(***************************************************************************)
(* One agent process on Windows, the machine certificate store it imports  *)
(* PFX files into, the IIS sites and the RRAS gateway it binds certificates *)
(* to, and the CertKit server.  Several configurations may name the same    *)
(* certificate, and a configuration may be moved from one to another, while *)
(* the store and what is bound are shared.                                  *)
(*                                                                         *)
(* A certificate of generation g has the thumbprint <<certificate, g>>; a   *)
(* PowerShell script is a step for each thing it changes.                   *)
(***************************************************************************)
EXTENDS Integers, FiniteSets

CONSTANTS
    Sites,           \* configurations of type iis, one binding each
    Gateways,        \* configurations of type rras; a host has one RRAS
    Certificates,    \* what the configurations may name
    NoConfig,        \* no configuration is being processed
    NoThumb,         \* nothing bound
    RunOnce,         \* TRUE for `run --once`, FALSE for the service
    Disruptions,     \* the kinds of fault that may happen
    MaxDisruptions,  \* bound on how many of them do
    Offers,          \* [Configs -> SUBSET (Form \X Certificates)]: what may be assigned
    MaxGen,          \* [Certificates -> Nat]: bound on generations issued
    MaxRev           \* [Configs -> Nat]: bound on edits

\* "rejected": the destination of a site is not site:port.  "noIds": an id is
\* missing.  "none": not assigned.
Form == {"none", "ok", "rejected", "noIds"}

Configs == Sites \cup Gateways

Faults == {"crash", "delete", "poll", "save", "store", "fetch", "import",
           "site", "ssl", "remove", "rras", "report"}

ASSUME ConfigAssumption == /\ Sites \cap Gateways = {}
                           /\ NoConfig \notin Configs
                           /\ \A g, h \in Gateways : g = h
ASSUME CertificateAssumption == Certificates # {}
ASSUME ThumbAssumption  == NoThumb \notin Certificates \X Nat
ASSUME FaultAssumption  == Disruptions \subseteq Faults /\ MaxDisruptions \in Nat
ASSUME OfferAssumption ==
    /\ \A c \in Configs : Offers[c] \subseteq Form \X Certificates
    /\ \A c \in Gateways : \A o \in Offers[c] : o[1] # "rejected"
ASSUME BoundAssumption ==
    /\ MaxGen \in [Certificates -> Nat]
    /\ MaxRev \in [Configs -> Nat]
    /\ RunOnce \in BOOLEAN

VARIABLES
    issued,    \* [Certificates -> generation]: the newest the server has
    server,    \* [Configs -> View]: what the server has assigned
    disk,      \* [Configs -> View]: config.json
    mem,       \* [Configs -> View]: config.CurrentConfig of the process
    store,     \* thumbprints in LocalMachine\My
    bound,     \* [Configs -> thumbprint or NoThumb]: what a site or RRAS uses
    unnoticed, \* sites whose last binding failed without the script failing
    pc,        \* where the process is
    trigger,   \* why this poll runs
    todo,      \* configurations this pass has still to visit
    cur,       \* the one it is visiting
    got,       \* the generation the last fetch returned
    old,       \* $currentThumbprint of the IIS script
    dirty,     \* configDirty
    batch,     \* the status updates collected in this pass
    spent      \* faults so far

remote  == <<issued, server>>
machine == <<store, bound, unnoticed>>
pass    == <<todo, cur, got, old, dirty, batch>>
vars    == <<remote, disk, mem, machine, pc, trigger, pass, spent>>

-----------------------------------------------------------------------------
(* Values *)

Pending    == "PENDING_SYNC"
Synced     == "SYNCED"
ErrorCmd   == "ERROR_UPDATE_CMD"
ErrorGet   == "ERROR_GET_CERTS"
ErrorWrite == "ERROR_WRITE_CERTS"
ErrorOther == "ERROR_GENERAL"
Status     == {Pending, Synced, ErrorCmd, ErrorGet, ErrorWrite, ErrorOther}
NoStatus   == "none"

View == [form : Form, cert : Certificates, gen : Nat, rev : Nat, status : Status]

SameView(v, w) ==
    v.form = w.form /\ v.cert = w.cert /\ v.gen = w.gen /\ v.rev = w.rev

\* LatestCertificateSha1; generation 0 is the empty string.
Thumb(v) == <<v.cert, v.gen>>

Points == {"down", "poll", "idle", "next", "fetch", "import", "bind", "clean",
           "apply", "save", "report"}

-----------------------------------------------------------------------------
(* Pure decisions.  A name with an underscore is a deliberately wrong       *)
(* variant of the definition that follows it.                               *)

\* The IIS variant with the statuses of the RRAS one.
RetryFull_Alike(c) == mem[c].status \in {ErrorGet, ErrorWrite, ErrorOther}

\* RRAS does not retry PENDING_SYNC.
RetryFull(c) ==
    \/ mem[c].status \in {ErrorGet, ErrorWrite, ErrorOther}
    \/ c \in Sites /\ mem[c].status = Pending

RetryUpdateOnly(c) == mem[c].status = ErrorCmd

\* "Retry the update only" taken at its word: the store is not looked at.
NeedsFetch_Trusting(c) ==
    ~RetryUpdateOnly(c) /\ mem[c].gen # 0 /\ Thumb(mem[c]) \notin store

\* certInStore.  A site without a thumbprint asks for nothing.
NeedsFetch(c) == mem[c].gen # 0 /\ Thumb(mem[c]) \notin store

\* RRAS applies only what it fetched.
ApplyOnly(c) == c \in Sites /\ (trigger = "change" \/ RetryUpdateOnly(c))

\* $currentThumbprint: the bound certificate, if the store still has it.
Current(c) == IF bound[c] \in store THEN bound[c] ELSE NoThumb

-----------------------------------------------------------------------------
(* Initially nothing is assigned, imported, bound or running. *)

Nothing == [form |-> "none", cert |-> CHOOSE k \in Certificates : TRUE,
            gen |-> 0, rev |-> 0, status |-> Pending]

Init ==
    /\ issued = [k \in Certificates |-> 0]
    /\ server = [c \in Configs |-> Nothing]
    /\ disk = server
    /\ mem = server
    /\ store = {}
    /\ bound = [c \in Configs |-> NoThumb]
    /\ unnoticed = {}
    /\ pc = "down"
    /\ trigger = "startup"
    /\ todo = {}
    /\ cur = NoConfig
    /\ got = 0
    /\ old = NoThumb
    /\ dirty = FALSE
    /\ batch = [c \in Configs |-> NoStatus]
    /\ spent = 0

\* Every fault is charged to one budget.
Disrupt(kind) ==
    /\ kind \in Disruptions
    /\ spent < MaxDisruptions
    /\ spent' = spent + 1

IdlePass ==
    /\ todo' = {}
    /\ cur' = NoConfig
    /\ got' = 0
    /\ old' = NoThumb
    /\ dirty' = FALSE
    /\ batch' = [c \in Configs |-> NoStatus]

\* The process is gone: its memory is what config.json will give the next one.
ProcessGone ==
    /\ pc' = "down"
    /\ trigger' = "startup"
    /\ mem' = disk
    /\ IdlePass

\* PollAndSync returns: to the ticker, or `run --once` exits.
Return ==
    IF RunOnce
    THEN ProcessGone
    ELSE /\ pc' = "idle"
         /\ trigger' = "tick"
         /\ mem' = mem
         /\ IdlePass

-----------------------------------------------------------------------------
(* PollAndSync, up to the loop of SynchronizeCertificates *)

\* The process starts, or its ticker fires.
StartPoll ==
    /\ pc \in {"down", "idle"}
    /\ pc' = "poll"
    /\ UNCHANGED <<remote, disk, mem, machine, trigger, pass, spent>>

BeginPass(m) ==
    /\ pc' = "next"
    /\ todo' = {c \in Configs : m[c].form # "none"}
    /\ UNCHANGED <<cur, got, old, dirty, batch>>

\* What a 200 answer carries: the server's own status for a view the agent has,
\* PENDING_SYNC for any other.
Delivered ==
    [c \in Configs |-> IF SameView(mem[c], server[c])
                       THEN server[c]
                       ELSE [server[c] EXCEPT !.status = Pending]]

\* The call fails before or after the server handled it, or is answered 403.
PollFailed ==
    /\ pc = "poll"
    /\ Disrupt("poll")
    /\ server' \in {server, Delivered}
    /\ Return
    /\ UNCHANGED <<issued, disk, machine>>

\* 204: only a startup poll synchronizes.
PollNoContent ==
    /\ pc = "poll"
    /\ \A c \in Configs : SameView(mem[c], server[c])
    /\ IF trigger = "startup"
       THEN BeginPass(mem) /\ UNCHANGED <<mem, trigger>>
       ELSE Return
    /\ UNCHANGED <<remote, disk, machine, spent>>

\* 200: the list in memory is replaced, saved, and synchronized.
PollUpdated ==
    /\ pc = "poll"
    /\ server' = Delivered
    /\ mem' = Delivered
    /\ disk' = Delivered
    /\ trigger' = "change"
    /\ BeginPass(Delivered)
    /\ UNCHANGED <<issued, machine, spent>>

\* 200, but SaveConfig fails: nothing is synchronized.
PollUnsaved ==
    /\ pc = "poll"
    /\ Disrupt("save")
    /\ server' = Delivered
    /\ IF RunOnce
       THEN ProcessGone
       ELSE /\ mem' = Delivered
            /\ pc' = "idle"
            /\ trigger' = "tick"
            /\ IdlePass
    /\ UNCHANGED <<issued, disk, machine>>

-----------------------------------------------------------------------------
(* synchronizeIISCertificate and synchronizeRRASCertificate: decide *)

\* The status returned for c is recorded and queued for the report.
Finish(c, status) ==
    /\ mem' = [mem EXCEPT ![c].status = status]
    /\ dirty' = (dirty \/ status # mem[c].status)
    /\ batch' = [batch EXCEPT ![c] = status]
    /\ pc' = "next"
    /\ todo' = todo \ {c}
    /\ cur' = NoConfig
    /\ got' = 0
    /\ old' = NoThumb

Visit(c, point) ==
    /\ pc' = point
    /\ cur' = c
    /\ UNCHANGED <<mem, dirty, batch, todo, got, old>>

\* A site without site:port, or a gateway without a thumbprint.
Unusable(c) ==
    \/ mem[c].form = "rejected"
    \/ c \in Gateways /\ mem[c].form = "ok" /\ mem[c].gen = 0

Reject(c) ==
    /\ pc = "next"
    /\ c \in todo
    /\ Unusable(c)
    /\ Finish(c, ErrorOther)
    /\ UNCHANGED <<remote, disk, machine, trigger, spent>>

\* The empty status is taken for one.
Skip_Recorded(c) ==
    /\ pc = "next"
    /\ c \in todo
    /\ mem[c].form = "noIds"
    /\ Finish(c, NoStatus)
    /\ UNCHANGED <<remote, disk, machine, trigger, spent>>

\* A missing id: the empty status is dropped by the caller.
Skip(c) ==
    /\ pc = "next"
    /\ c \in todo
    /\ mem[c].form = "noIds"
    /\ todo' = todo \ {c}
    /\ UNCHANGED <<remote, disk, mem, machine, pc, trigger, cur, got, old, dirty,
                   batch, spent>>

\* certInStore cannot run its script; it is not asked without a thumbprint.
StoreFails(c) ==
    /\ pc = "next"
    /\ c \in todo
    /\ mem[c].form = "ok"
    /\ mem[c].gen # 0
    /\ Disrupt("store")
    /\ Finish(c, ErrorGet)
    /\ UNCHANGED <<remote, disk, machine, trigger>>

Compare(c) ==
    /\ pc = "next"
    /\ c \in todo
    /\ mem[c].form = "ok"
    /\ ~Unusable(c)
    /\ IF NeedsFetch(c) \/ RetryFull(c) THEN Visit(c, "fetch")
       ELSE IF ApplyOnly(c)             THEN Visit(c, "bind")
       ELSE Finish(c, Synced)
    /\ UNCHANGED <<remote, disk, machine, trigger, spent>>

-----------------------------------------------------------------------------
(* Fetch and import *)

\* The newest generation is returned, whatever thumbprint this pass expects.
FetchOk ==
    /\ pc = "fetch"
    /\ server[cur].form # "none"
    /\ issued[mem[cur].cert] > 0
    /\ got' = issued[mem[cur].cert]
    /\ pc' = "import"
    /\ UNCHANGED <<remote, disk, mem, machine, trigger, todo, cur, old, dirty,
                   batch, spent>>

\* Nothing is issued, or the configuration is gone or names something else by now.
FetchRefused ==
    /\ pc = "fetch"
    /\ \/ server[cur].form = "none"
       \/ server[cur].cert # mem[cur].cert
       \/ issued[mem[cur].cert] = 0
    /\ Finish(cur, ErrorGet)
    /\ UNCHANGED <<remote, disk, machine, trigger, spent>>

\* It is tried again at once.
FetchFails_Again ==
    /\ pc = "fetch"
    /\ Disrupt("fetch")
    /\ UNCHANGED <<remote, disk, mem, machine, pc, trigger, pass>>

\* A failed call, a 403 or an empty payload.
FetchFails ==
    /\ pc = "fetch"
    /\ Disrupt("fetch")
    /\ Finish(cur, ErrorGet)
    /\ UNCHANGED <<remote, disk, machine, trigger>>

Imported == store \cup {<<mem[cur].cert, got>>}

\* importPfxBytesToStore; what follows does not look for the thumbprint again,
\* or only to log that it is missing.
ImportPfx ==
    /\ pc = "import"
    /\ store' = Imported
    /\ pc' = IF cur \in Sites THEN "bind" ELSE "apply"
    /\ UNCHANGED <<remote, disk, mem, bound, unnoticed, trigger, pass, spent>>

ImportFails ==
    /\ pc = "import"
    /\ Disrupt("import")
    /\ store' \in {store, Imported}
    /\ Finish(cur, ErrorWrite)
    /\ UNCHANGED <<remote, disk, bound, unnoticed, trigger>>

-----------------------------------------------------------------------------
(* applyIISBinding.  Its script runs without $ErrorActionPreference, so that *)
(* only `throw` ends it: after any other error it goes on, and succeeds.     *)

\* No thumbprint is known.
BindNothing ==
    /\ pc = "bind"
    /\ mem[cur].gen = 0
    /\ Finish(cur, ErrorCmd)
    /\ UNCHANGED <<remote, disk, machine, trigger, spent>>

\* The site has no https binding on the port, or the script cannot be run.
SiteMissing ==
    /\ pc = "bind"
    /\ mem[cur].gen # 0
    /\ Disrupt("site")
    /\ Finish(cur, ErrorCmd)
    /\ UNCHANGED <<remote, disk, machine, trigger>>

BindingIsCurrent ==
    /\ pc = "bind"
    /\ Current(cur) = Thumb(mem[cur])
    /\ unnoticed' = unnoticed \ {cur}
    /\ Finish(cur, Synced)
    /\ UNCHANGED <<remote, disk, store, bound, trigger, spent>>

\* Both outcomes of AddSslCertificate lead to the removal of the old certificate.
Binding ==
    /\ pc = "bind"
    /\ mem[cur].gen # 0
    /\ Current(cur) # Thumb(mem[cur])
    /\ old' = Current(cur)
    /\ pc' = "clean"
    /\ UNCHANGED <<remote, disk, mem, store, trigger, todo, cur, got, dirty, batch>>

\* AddSslCertificate; it needs the certificate in the store.
AddSslCertificate ==
    /\ Binding
    /\ IF Thumb(mem[cur]) \in store
       THEN /\ bound' = [bound EXCEPT ![cur] = Thumb(mem[cur])]
            /\ unnoticed' = unnoticed \ {cur}
       ELSE UNCHANGED <<bound, unnoticed>>
    /\ UNCHANGED spent

\* It fails after the certificate that was bound has been taken off.
AddSslFails_Replaced ==
    /\ Binding
    /\ Disrupt("ssl")
    /\ unnoticed' = unnoticed \cup {cur}
    /\ bound' = [bound EXCEPT ![cur] = NoThumb]

\* It fails for a reason of its own.
AddSslFails ==
    /\ Binding
    /\ Disrupt("ssl")
    /\ unnoticed' = unnoticed \cup {cur}
    /\ UNCHANGED bound

\* The cleanup removes what was bound before, whoever else uses it.
RemoveOld ==
    /\ pc = "clean"
    /\ store' = store \ {old}
    /\ Finish(cur, Synced)
    /\ UNCHANGED <<remote, disk, bound, unnoticed, trigger, spent>>

RemoveFails ==
    /\ pc = "clean"
    /\ Disrupt("remove")
    /\ Finish(cur, Synced)
    /\ UNCHANGED <<remote, disk, machine, trigger>>

-----------------------------------------------------------------------------
(* applyRRASSslCertificate.  Its commands stop the script when they fail. *)

Applied == [bound EXCEPT ![cur] = Thumb(mem[cur])]

ApplyRRAS ==
    /\ pc = "apply"
    /\ Thumb(mem[cur]) \in store
    /\ bound' = Applied
    /\ Finish(cur, Synced)
    /\ UNCHANGED <<remote, disk, store, unnoticed, trigger, spent>>

\* Get-ChildItem does not find the thumbprint.
ApplyRefused ==
    /\ pc = "apply"
    /\ Thumb(mem[cur]) \notin store
    /\ Finish(cur, ErrorCmd)
    /\ UNCHANGED <<remote, disk, machine, trigger, spent>>

\* Set-RemoteAccess fails, or the service is not running 120 seconds after it.
ApplyFails ==
    /\ pc = "apply"
    /\ Disrupt("rras")
    /\ bound' \in {bound, IF Thumb(mem[cur]) \in store THEN Applied ELSE bound}
    /\ Finish(cur, ErrorCmd)
    /\ UNCHANGED <<remote, disk, store, unnoticed, trigger>>

-----------------------------------------------------------------------------
(* The end of a pass *)

EndLoop ==
    /\ pc = "next"
    /\ todo = {}
    /\ pc' = IF dirty THEN "save" ELSE "report"
    /\ UNCHANGED <<remote, disk, mem, machine, trigger, pass, spent>>

SaveStatuses ==
    /\ pc = "save"
    /\ pc' = "report"
    /\ \/ disk' = mem /\ UNCHANGED spent
       \/ UNCHANGED disk /\ Disrupt("save")
    /\ UNCHANGED <<remote, mem, machine, trigger, pass>>

Reported ==
    [c \in Configs |-> IF batch[c] = NoStatus THEN server[c]
                       ELSE [server[c] EXCEPT !.status = batch[c]]]

\* UpdateConfigStatus; it may fail before or after the server handled it.
ReportStatuses ==
    /\ pc = "report"
    /\ \/ server' = Reported /\ UNCHANGED spent
       \/ server' \in {server, Reported} /\ Disrupt("report")
    /\ Return
    /\ UNCHANGED <<issued, disk, machine>>

-----------------------------------------------------------------------------
(* The environment *)

Crash ==
    /\ pc # "down"
    /\ Disrupt("crash")
    /\ ProcessGone
    /\ UNCHANGED <<remote, disk, machine>>

\* An administrator removes a certificate, between passes.
Delete(t) ==
    /\ pc \in {"down", "idle"}
    /\ t \in store
    /\ Disrupt("delete")
    /\ store' = store \ {t}
    /\ UNCHANGED <<remote, disk, mem, bound, unnoticed, pc, trigger, pass>>

\* The server issues or renews a certificate, for all that name it.
Issue(k) ==
    /\ issued[k] < MaxGen[k]
    /\ issued' = [issued EXCEPT ![k] = @ + 1]
    /\ server' = [c \in Configs |-> IF server[c].cert # k THEN server[c]
                     ELSE [server[c] EXCEPT !.gen = issued[k] + 1,
                                            !.status = Pending]]
    /\ UNCHANGED <<disk, mem, machine, pc, trigger, pass, spent>>

\* Somebody assigns, changes or withdraws a configuration, or moves it to another
\* certificate.
Edit(c, form, k) ==
    /\ server[c].rev < MaxRev[c]
    /\ <<form, k>> \in Offers[c]
    /\ server' = [server EXCEPT ![c] = [form |-> form, cert |-> k, gen |-> issued[k],
                                        rev |-> server[c].rev + 1,
                                        status |-> Pending]]
    /\ UNCHANGED <<issued, disk, mem, machine, pc, trigger, pass, spent>>

-----------------------------------------------------------------------------

Polling == StartPoll \/ PollFailed \/ PollNoContent \/ PollUpdated \/ PollUnsaved

Deciding(c) == Reject(c) \/ Skip(c) \/ StoreFails(c) \/ Compare(c)

Importing == FetchOk \/ FetchRefused \/ FetchFails \/ ImportPfx \/ ImportFails

ApplyingIIS == \/ BindNothing \/ SiteMissing \/ BindingIsCurrent
               \/ AddSslCertificate \/ AddSslFails \/ RemoveOld \/ RemoveFails

ApplyingRRAS == ApplyRRAS \/ ApplyRefused \/ ApplyFails

AgentStep == \/ Polling \/ Importing \/ ApplyingIIS \/ ApplyingRRAS
             \/ EndLoop \/ SaveStatuses \/ ReportStatuses
             \/ \E c \in Configs : Deciding(c)

Environment ==
    \/ Crash
    \/ \E t \in store : Delete(t)
    \/ \E k \in Certificates : Issue(k)
    \/ \E c \in Configs, form \in Form, k \in Certificates : Edit(c, form, k)

Next == AgentStep \/ Environment

Spec == Init /\ [][Next]_vars

\* The agent is started again, its ticker fires, and every script returns.
FairSpec == Spec /\ WF_vars(AgentStep)

-----------------------------------------------------------------------------
(* Properties *)

\* Every variable has the values the code can give it.
TypeOK ==
    /\ issued \in [Certificates -> Nat]
    /\ server \in [Configs -> View]
    /\ disk \in [Configs -> View]
    /\ mem \in [Configs -> View]
    /\ store \in SUBSET (Certificates \X Nat)
    /\ bound \in [Configs -> (Certificates \X Nat) \cup {NoThumb}]
    /\ unnoticed \in SUBSET Sites
    /\ pc \in Points
    /\ trigger \in {"startup", "tick", "change"}
    /\ todo \in SUBSET Configs
    /\ cur \in Configs \cup {NoConfig}
    /\ got \in Nat
    /\ old \in (Certificates \X Nat) \cup {NoThumb}
    /\ dirty \in BOOLEAN
    /\ batch \in [Configs -> Status \cup {NoStatus}]
    /\ spent \in Nat

\* A site whose saved status is SYNCED for what the server still assigns is bound
\* to the certificate named, unless AddSslCertificate itself failed: that a fetch
\* may bring a newer certificate than the one bound (synchronize_iis_windows.go:
\* 57-84), that other configurations import and remove the same certificates, and
\* that the script hides its errors does not make it SYNCED without cause.
SyncedIsBound ==
    \A c \in Sites :
        /\ disk[c].form = "ok"
        /\ disk[c].status = Synced
        /\ SameView(disk[c], server[c])
        => bound[c] = Thumb(disk[c]) \/ c \in unnoticed

\* Nor is anybody told so without cause: a SYNCED the server shows for a site that is in
\* config.json as it is assigned is true of its binding, although a report names neither a
\* certificate nor a revision, and may come late, twice or not at all (update-status.go:16).
ServerNotMisled ==
    \A c \in Sites :
        /\ server[c].form = "ok"
        /\ server[c].status = Synced
        /\ SameView(server[c], disk[c])
        => bound[c] = Thumb(server[c]) \/ c \in unnoticed

\* Once the server and the faults rest, every complete site with a certificate is
\* bound to it and has it in the store: passes of different configurations that
\* remove each other's certificates (synchronize_iis_windows.go:147-153) heal.
SitesConverge ==
    \A c \in Sites :
        <>[](\/ server[c].form # "ok"
             \/ server[c].gen = 0
             \/ c \in unnoticed
             \/ /\ bound[c] = Thumb(server[c])
                /\ bound[c] \in store
                /\ server[c].status = Synced)

\* HOW-IT-WORKS.md:27: "If a certificate has changed, the agent fetches it and
\* writes to the configured destination(s)."  The destination of an RRAS
\* configuration is what RRAS is bound to.
ChangedIsBound ==
    \A c \in Gateways, k \in Certificates : \A g \in 1 .. MaxGen[k] :
        server[c].form = "ok" /\ Thumb(server[c]) = <<k, g>>
            ~> \/ server[c].form # "ok"
               \/ Thumb(server[c]) # <<k, g>>
               \/ bound[c] = <<k, g>>

-----------------------------------------------------------------------------
(* The inductive invariant behind SyncedIsBound, and behind the properties of steps *)

InPass == pc \in {"next", "fetch", "import", "bind", "clean", "apply", "save",
                  "report"}

Bound(c, v) == bound[c] = Thumb(v) \/ c \in unnoticed

\* A view still assigned is SYNCED only for a bound site.
Sound(c, v) ==
    v.form = "ok" /\ v.status = Synced /\ SameView(v, server[c]) => Bound(c, v)

ViewsAreSound == \A c \in Sites : Sound(c, disk[c]) /\ Sound(c, mem[c])

ServerIsSound ==
    \A c \in Sites :
        SameView(server[c], disk[c]) \/ SameView(server[c], mem[c])
            => Sound(c, server[c])

\* What the agent has is what the server assigned, now or earlier: a view that is
\* no longer assigned never is again.
NoNewer(v, w) ==
    /\ v.rev <= w.rev
    /\ v.rev = w.rev => v.form = w.form /\ v.cert = w.cert /\ v.gen <= w.gen

ServerIsNewest ==
    /\ \A c \in Configs : /\ server[c].gen = issued[server[c].cert]
                          /\ NoNewer(disk[c], server[c])
                          /\ NoNewer(mem[c], server[c])
                          /\ mem[c].gen <= issued[mem[c].cert]
                          /\ disk[c].gen <= issued[disk[c].cert]

\* Memory is what was saved: exactly before a forced pass, and up to the statuses
\* during any pass.
MemoryIsSaved ==
    /\ pc = "down" => mem = disk /\ trigger = "startup"
    /\ pc = "idle" => trigger = "tick"
    /\ pc = "poll" /\ trigger = "startup" => mem = disk
    /\ InPass => \A c \in Configs : SameView(mem[c], disk[c])

BatchIsMemory ==
    \A c \in Configs :
        batch[c] # NoStatus => InPass /\ batch[c] = mem[c].status

OneIsChosen ==
    /\ pc \in {"fetch", "import", "bind", "clean", "apply"} =>
           cur \in Configs /\ mem[cur].form = "ok"
    /\ pc \in {"bind", "clean"} => cur \in Sites
    /\ pc = "apply" => cur \in Gateways

\* What is imported is the certificate named, or it is out of date already.
ImportPhase ==
    pc = "import" => got >= mem[cur].gen /\ got <= issued[mem[cur].cert]

\* So it is in the store when it is to be bound, and the old one that the script then
\* removes is another.
BindPhase ==
    pc \in {"bind", "clean", "apply"} =>
        \/ mem[cur].gen = 0
        \/ Thumb(mem[cur]) \in store
        \/ ~SameView(mem[cur], server[cur])

CleanPhase ==
    pc = "clean" =>
        /\ mem[cur].gen # 0 /\ old # Thumb(mem[cur])
        /\ Bound(cur, mem[cur]) \/ ~SameView(mem[cur], server[cur])

StoreInv ==
    /\ TypeOK
    /\ ViewsAreSound
    /\ ServerIsSound
    /\ ServerIsNewest
    /\ MemoryIsSaved
    /\ BatchIsMemory
    /\ OneIsChosen
    /\ ImportPhase
    /\ BindPhase
    /\ CleanPhase

OnOne == pc \in {"fetch", "import", "bind", "clean", "apply"}

\* A pass ends when every configuration was visited.
Visited ==
    /\ OnOne => cur \in todo
    /\ pc \in {"save", "report"} => todo = {}

\* What is bound was issued, and config.json names none older of the same certificate.
BindingsAreKnown ==
    \A c \in Configs :
        bound[c] # NoThumb =>
            /\ bound[c][2] <= issued[bound[c][1]]
            /\ bound[c][1] = disk[c].cert => bound[c][2] <= disk[c].gen

IndInv == StoreInv /\ Visited /\ BindingsAreKnown

-----------------------------------------------------------------------------
(* What a step may never do, and what a visit and a pass come to *)

\* What is left to do of a pass, in steps of the agent.
Effort ==
    16 * Cardinality(todo) +
        CASE pc = "next"              -> 15
          [] pc = "fetch"             -> 14
          [] pc = "import"            -> 13
          [] pc \in {"bind", "apply"} -> 12
          [] pc = "clean"             -> 11
          [] pc = "save"              -> 5
          [] OTHER                    -> 4

\* Every step of the agent brings the end of its pass nearer, and nothing puts it off: not
\* what the server assigns meanwhile, nor a script that fails (synchronize.go:26-93).
EndIsNearer ==
    InPass /\ InPass' => Effort' <= Effort /\ (AgentStep => Effort' < Effort)

PassesEnd == [][EndIsNearer]_vars

\* A visit whose own calls succeed has done its work when it ends: whatever earlier failures
\* left behind, and although other configurations have removed the certificate from the store
\* (synchronize_iis_windows.go:147-153) or imported one of another generation, a
\* configuration that is still assigned as the agent knows it is SYNCED, its certificate is in
\* the store, and a site is bound to it, unless AddSslCertificate itself failed.
VisitInstalls ==
    \A c \in Configs :
        /\ InPass /\ c \in todo \ todo'
        /\ spent' = spent
        /\ mem[c].form = "ok" /\ mem[c].gen # 0
        /\ SameView(mem[c], server[c])
        => /\ mem'[c].status = Synced
           /\ Thumb(mem'[c]) \in store'
           /\ c \in Sites => Bound(c, mem[c])'

VisitsInstall == [][VisitInstalls]_vars

\* No step takes a binding away, or back to an older generation of its certificate: not a
\* pass that started from a config.json saved before a crash, nor one that was overtaken by a
\* renewal, nor a failed script (synchronize_iis_windows.go:118-153, agent.go:72-75).
BindingsAdvance ==
    \A c \in Configs :
        bound[c] # NoThumb =>
            /\ bound'[c] # NoThumb
            /\ bound'[c][1] = bound[c][1] => bound'[c][2] >= bound[c][2]

NeverUnbound == [][BindingsAdvance]_vars
=============================================================================
