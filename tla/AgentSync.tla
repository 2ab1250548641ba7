------------------------------ MODULE AgentSync ------------------------------
(***************************************************************************)
(* One agent process, the files it installs, its config.json and the       *)
(* CertKit server it polls.  The process is sequential, but every call it  *)
(* makes to the server, to the file system or to an update command is a    *)
(* step of its own, so that the server can change its mind, a call can     *)
(* fail, or the process can die between any two of them.                   *)
(*                                                                         *)
(* Data is reduced to what the agent compares: an issued certificate is    *)
(* its generation number (the server issues 1, 2, ...), a configuration is *)
(* a revision number, and a file holds the generation it was written from. *)
(***************************************************************************)
EXTENDS Integers, FiniteSets

CONSTANTS
    Configs,         \* certificate configurations the server may assign
    NoConfig,        \* not a configuration: none is being processed
    Layout,          \* [Configs -> Layouts]: which files a configuration has
    Commanded,       \* the configurations with an update command
    RunOnce,         \* TRUE for `run --once` (cron), FALSE for the service
    Disruptions,     \* the kinds of fault that may happen
    MaxDisruptions,  \* bound on how many of them do
    MaxGen,          \* bound on certificates issued per configuration
    MaxRev           \* bound on edits per configuration

Layouts == {"pair", "chained", "bundle", "pfx"}
Faults  == {"crash", "delete", "corrupt", "poll", "save", "stat", "fetch",
            "write", "perms", "cmd", "report"}

ASSUME NoConfigAssumption == NoConfig \notin Configs
ASSUME LayoutAssumption   == Layout \in [Configs -> Layouts]
ASSUME ModeAssumption     == Commanded \subseteq Configs /\ RunOnce \in BOOLEAN
ASSUME FaultAssumption    == Disruptions \subseteq Faults /\ MaxDisruptions \in Nat
ASSUME BoundAssumption    == MaxGen \in Nat /\ MaxRev \in Nat

VARIABLES
    server,        \* [Configs -> View]: what the server has assigned
    disk,          \* [Configs -> View]: config.json
    mem,           \* [Configs -> View]: config.CurrentConfig of the process
    files,         \* [Configs -> [Role -> generation, Absent or Corrupt]]
    live,          \* [Configs -> [gen, rev]]: what the service last loaded
    pc,            \* where the process is
    trigger,       \* why this poll runs
    todo,          \* configurations this pass has still to visit
    cur,           \* the one it is visiting
    got,           \* the generation the last fetch returned
    unwritten,     \* files of cur still to be written
    dirty,         \* configDirty: a LastStatus changed in this pass
    batch,         \* the status updates collected in this pass
    unauthorized,  \* wasUnauthorized
    spent          \* faults so far

process  == <<pc, trigger, unauthorized>>
pass     == <<todo, cur, got, unwritten, dirty, batch>>
world    == <<files, live>>
vars     == <<server, disk, mem, world, process, pass, spent>>

-----------------------------------------------------------------------------
(* Values *)

Absent  == 0
Corrupt == -1
Content == Nat \cup {Corrupt}

Role == {"pem", "chain", "key", "password"}

\* The files a configuration has, and the order they are written in.
RolesOf(c) ==
    CASE Layout[c] = "pair"    -> {"pem", "key"}
      [] Layout[c] = "chained" -> {"pem", "chain", "key"}
      [] Layout[c] = "bundle"  -> {"pem"}
      [] Layout[c] = "pfx"     -> {"pem", "password"}

Rank == [r \in Role |-> CASE r = "pem" -> 1 [] r = "chain" -> 2 [] OTHER -> 3]

Intact(c) == {r \in Role : files[c][r] > 0}

Pending     == "PENDING_SYNC"
Synced      == "SYNCED"
ErrorCmd    == "ERROR_UPDATE_CMD"
ErrorGet    == "ERROR_GET_CERTS"
ErrorWrite  == "ERROR_WRITE_CERTS"
ErrorOther  == "ERROR_GENERAL"
Status      == {Pending, Synced, ErrorCmd, ErrorGet, ErrorWrite, ErrorOther}
NoStatus    == "none"

\* "none": not assigned.  "ok": complete.  "rejected": a destination is missing,
\* or the type is one this platform cannot install.  "noIds": an id is missing.
Form == {"none", "ok", "rejected", "noIds"}

\* CertificateConfiguration: gen stands for LatestCertificateSha1 and
\* LastCertificateUpdateDate (0: no certificate yet), rev for the other fields
\* and LastConfigurationUpdateDate.
View == [form : Form, gen : Nat, rev : Nat, status : Status]

SameView(v, w) == v.form = w.form /\ v.gen = w.gen /\ v.rev = w.rev

Points == {"down", "poll", "idle", "next", "fetch", "write", "perms", "cmd",
           "save", "report"}

-----------------------------------------------------------------------------
(* Pure decisions of synchronizeCertificate.  A name with an underscore is *)
(* a deliberately wrong variant of the definition that follows it: the runs  *)
(* must tell the two apart.                                                *)

\* What synchronizeRRASCertificate does (synchronize_rras_windows.go:23-25).
RetryFull_Forgetful(status) == status \in {ErrorGet, ErrorWrite, ErrorOther}

\* A failed write is taken for done.
RetryFull_Hasty(status) == status \in {Pending, ErrorGet, ErrorOther}

RetryFull(status) == status \in {Pending, ErrorGet, ErrorWrite, ErrorOther}

RetryUpdateOnly(status) == status = ErrorCmd

Missing(c) == \E r \in RolesOf(c) : files[c][r] = Absent

\* A PFX is opened with the password beside it; both must be of the certificate.
WrongThumbprint(c) ==
    \/ mem[c].gen = 0
    \/ files[c]["pem"] # mem[c].gen
    \/ Layout[c] = "pfx" /\ files[c]["password"] # mem[c].gen

\* "Retry the update only" taken at its word: the files are not looked at.
NeedsFetch_Trusting(c) ==
    ~RetryUpdateOnly(mem[c].status) /\ (Missing(c) \/ WrongThumbprint(c))

\* needsCertificateFetch, when every stat and the thumbprint could be read.
NeedsFetch(c) == Missing(c) \/ WrongThumbprint(c)

\* A PEM that is not there does not parse either.
Unreadable_Eager(c) ==
    /\ Layout[c] # "pfx"
    /\ mem[c].gen # 0
    /\ files[c]["pem"] \in {Absent, Corrupt}

\* GetCertificateSha1 fails: the files are there, the PEM does not parse.
Unreadable(c) ==
    /\ Layout[c] # "pfx"
    /\ \A r \in RolesOf(c) : files[c][r] # Absent
    /\ mem[c].gen # 0
    /\ files[c]["pem"] = Corrupt

ConfigChanged == trigger = "change"

ShouldApply(c) ==
    ConfigChanged \/ RetryUpdateOnly(mem[c].status) \/ RetryFull(mem[c].status)

-----------------------------------------------------------------------------
(* Initially nothing is assigned, installed or running. *)

Nothing == [form |-> "none", gen |-> 0, rev |-> 0, status |-> Pending]

IdlePass ==
    /\ todo' = {}
    /\ cur' = NoConfig
    /\ got' = 0
    /\ unwritten' = {}
    /\ dirty' = FALSE
    /\ batch' = [c \in Configs |-> NoStatus]

Init ==
    /\ server = [c \in Configs |-> Nothing]
    /\ disk = server
    /\ mem = server
    /\ files = [c \in Configs |-> [r \in Role |-> Absent]]
    /\ live = [c \in Configs |-> [gen |-> 0, rev |-> 0]]
    /\ pc = "down"
    /\ trigger = "startup"
    /\ todo = {}
    /\ cur = NoConfig
    /\ got = 0
    /\ unwritten = {}
    /\ dirty = FALSE
    /\ batch = [c \in Configs |-> NoStatus]
    /\ unauthorized = FALSE
    /\ spent = 0

\* Every fault is charged to one budget.
Disrupt(kind) ==
    /\ kind \in Disruptions
    /\ spent < MaxDisruptions
    /\ spent' = spent + 1

\* The process is gone: its memory is what config.json will give the next one.
ProcessGone ==
    /\ pc' = "down"
    /\ trigger' = "startup"
    /\ mem' = disk
    /\ unauthorized' = FALSE
    /\ IdlePass

-----------------------------------------------------------------------------
(* runAgent and PollAndSync *)

\* LoadConfig of a registered agent, then PollAndSync(true).
RunAgent ==
    /\ pc = "down"
    /\ pc' = "poll"
    /\ UNCHANGED <<server, disk, mem, world, trigger, unauthorized, pass, spent>>

\* The 30 second ticker of the service: PollAndSync(false).
Tick ==
    /\ pc = "idle"
    /\ pc' = "poll"
    /\ trigger' = "tick"
    /\ UNCHANGED <<server, disk, mem, world, unauthorized, pass, spent>>

\* PollAndSync returns: the service waits for the next tick, `run --once` exits.
Return(auth) ==
    IF RunOnce
    THEN ProcessGone
    ELSE /\ pc' = "idle"
         /\ trigger' = "tick"
         /\ unauthorized' = auth
         /\ mem' = mem
         /\ IdlePass

\* SynchronizeCertificates starts its loop over the configurations of m.
BeginPass(m) ==
    /\ pc' = "next"
    /\ todo' = {c \in Configs : m[c].form # "none"}
    /\ UNCHANGED <<cur, got, unwritten, dirty, batch>>

\* What a 200 answer carries.  A view the agent does not have yet comes with
\* status PENDING_SYNC: nothing in the agent ever assigns that status.
Delivered ==
    [c \in Configs |-> IF SameView(mem[c], server[c])
                       THEN server[c]
                       ELSE [server[c] EXCEPT !.status = Pending]]

\* The call fails, before or after the server has handled it, or its answer is a
\* 200 that cannot be decoded.
PollFailed ==
    /\ pc = "poll"
    /\ Disrupt("poll")
    /\ server' \in {server, Delivered}
    /\ \E auth \in {unauthorized, FALSE} : Return(auth)
    /\ UNCHANGED <<disk, world>>

\* 403: MarkAgentUnauthorized, and no synchronization.
PollForbidden ==
    /\ pc = "poll"
    /\ Disrupt("poll")
    /\ Return(TRUE)
    /\ UNCHANGED <<server, disk, world>>

\* 204: nothing changed; only a startup poll synchronizes.
PollNoContent ==
    /\ pc = "poll"
    /\ \A c \in Configs : SameView(mem[c], server[c])
    /\ IF trigger = "startup"
       THEN /\ BeginPass(mem)
            /\ unauthorized' = FALSE
            /\ UNCHANGED <<mem, trigger>>
       ELSE Return(FALSE)
    /\ UNCHANGED <<server, disk, world, spent>>

\* The list is left to be saved with the statuses of its pass.
PollUpdated_Later ==
    /\ pc = "poll"
    /\ server' = Delivered
    /\ mem' = Delivered
    /\ trigger' = "change"
    /\ unauthorized' = FALSE
    /\ BeginPass(Delivered)
    /\ UNCHANGED <<disk, world, spent>>

\* 200: the list in memory is replaced, saved, and synchronized.
PollUpdated ==
    /\ pc = "poll"
    /\ server' = Delivered
    /\ mem' = Delivered
    /\ disk' = Delivered
    /\ trigger' = "change"
    /\ unauthorized' = FALSE
    /\ BeginPass(Delivered)
    /\ UNCHANGED <<world, spent>>

\* 200, but SaveConfig fails: PollForConfiguration returns the error, so nothing
\* is synchronized, with the new list already in memory.
PollUnsaved ==
    /\ pc = "poll"
    /\ Disrupt("save")
    /\ server' = Delivered
    /\ IF RunOnce
       THEN ProcessGone
       ELSE /\ mem' = Delivered
            /\ pc' = "idle"
            /\ trigger' = "tick"
            /\ unauthorized' = FALSE
            /\ IdlePass
    /\ UNCHANGED <<disk, world>>

-----------------------------------------------------------------------------
(* synchronizeCertificate *)

\* The status returned for c is recorded and queued for the report.
Finish(c, status) ==
    /\ mem' = [mem EXCEPT ![c].status = status]
    /\ dirty' = (dirty \/ status # mem[c].status)
    /\ batch' = [batch EXCEPT ![c] = status]
    /\ pc' = "next"
    /\ todo' = todo \ {c}
    /\ cur' = NoConfig
    /\ got' = 0
    /\ unwritten' = {}

Visit(c, point) ==
    /\ pc' = point
    /\ cur' = c
    /\ UNCHANGED <<mem, dirty, batch, todo, got, unwritten>>

\* A missing destination, or an IIS or RRAS type on another platform.
Reject(c) ==
    /\ pc = "next"
    /\ c \in todo
    /\ mem[c].form = "rejected"
    /\ Finish(c, ErrorOther)
    /\ UNCHANGED <<server, disk, world, trigger, unauthorized, spent>>

\* A missing id: the empty status is dropped by the caller.
Skip(c) ==
    /\ pc = "next"
    /\ c \in todo
    /\ mem[c].form = "noIds"
    /\ todo' = todo \ {c}
    /\ UNCHANGED <<server, disk, mem, world, process, cur, got, unwritten, dirty,
                   batch, spent>>

\* os.Stat fails.  A PFX is fetched again, anything else is an error.
StatFails(c) ==
    /\ pc = "next"
    /\ c \in todo
    /\ mem[c].form = "ok"
    /\ Disrupt("stat")
    /\ IF Layout[c] = "pfx" THEN Visit(c, "fetch") ELSE Finish(c, ErrorGet)
    /\ UNCHANGED <<server, disk, world, trigger, unauthorized>>

\* needsCertificateFetch answers "true, err"; the caller looks at err first.
ReadFails(c) ==
    /\ pc = "next"
    /\ c \in todo
    /\ mem[c].form = "ok"
    /\ Unreadable(c)
    /\ Finish(c, ErrorGet)
    /\ UNCHANGED <<server, disk, world, trigger, unauthorized, spent>>

Compare(c) ==
    /\ pc = "next"
    /\ c \in todo
    /\ mem[c].form = "ok"
    /\ ~Unreadable(c)
    /\ IF NeedsFetch(c) \/ RetryFull(mem[c].status) THEN Visit(c, "fetch")
       ELSE IF ShouldApply(c)                       THEN Visit(c, "perms")
       ELSE Finish(c, Synced)
    /\ UNCHANGED <<server, disk, world, trigger, unauthorized, spent>>

\* The newest certificate is returned, whatever this pass expected.
FetchOk ==
    /\ pc = "fetch"
    /\ server[cur].form # "none"
    /\ server[cur].gen > 0
    /\ got' = server[cur].gen
    /\ unwritten' = RolesOf(cur)
    /\ pc' = "write"
    /\ unauthorized' = FALSE
    /\ UNCHANGED <<server, disk, mem, world, trigger, todo, cur, dirty, batch, spent>>

\* Nothing is issued, or the configuration is gone.  A 200 answer without a
\* payload is noticed before a PFX is written, and while a PEM is.
FetchRefused ==
    /\ pc = "fetch"
    /\ server[cur].form = "none" \/ server[cur].gen = 0
    /\ \/ /\ Finish(cur, ErrorGet)
          /\ unauthorized' \in {unauthorized, FALSE}
       \/ /\ Layout[cur] # "pfx"
          /\ Finish(cur, ErrorWrite)
          /\ unauthorized' = FALSE
    /\ UNCHANGED <<server, disk, world, trigger, spent>>

\* It is tried again at once.
FetchFails_Again ==
    /\ pc = "fetch"
    /\ Disrupt("fetch")
    /\ \/ unauthorized' \in {unauthorized, TRUE}
       \/ Layout[cur] # "pfx" /\ unauthorized' = FALSE
    /\ UNCHANGED <<server, disk, mem, world, pc, trigger, pass>>

\* A failed call, a 403, or an answer of 200 whose body cannot be decoded, which
\* clears the flag; that of a PFX is not decoded.  The pass goes on with the next
\* configuration.
FetchFails ==
    /\ pc = "fetch"
    /\ Disrupt("fetch")
    /\ Finish(cur, ErrorGet)
    /\ \/ unauthorized' \in {unauthorized, TRUE}
       \/ Layout[cur] # "pfx" /\ unauthorized' = FALSE
    /\ UNCHANGED <<server, disk, world, trigger>>

\* One WriteFileAtomic of writeCertificateFiles or writePfxFiles.
WriteFile ==
    /\ pc = "write"
    /\ \E r \in unwritten :
        /\ \A s \in unwritten : Rank[r] <= Rank[s]
        /\ files' = [files EXCEPT ![cur][r] = got]
        /\ unwritten' = unwritten \ {r}
        /\ pc' = IF unwritten = {r} THEN "perms" ELSE "write"
    /\ UNCHANGED <<server, disk, mem, live, trigger, unauthorized, todo, cur, got,
                   dirty, batch, spent>>

WriteFails ==
    /\ pc = "write"
    /\ Disrupt("write")
    /\ Finish(cur, ErrorWrite)
    /\ UNCHANGED <<server, disk, world, trigger, unauthorized>>

\* The service has the files that are there and this revision's settings.
Loaded(c) == [live EXCEPT ![c] = [gen |-> files[c]["pem"], rev |-> mem[c].rev]]

\* applyCertificatePermissions; without an update command that is all.
ApplyPermissions ==
    /\ pc = "perms"
    /\ IF cur \in Commanded
       THEN /\ pc' = "cmd"
            /\ UNCHANGED <<mem, live, pass>>
       ELSE /\ live' = Loaded(cur)
            /\ Finish(cur, Synced)
    /\ UNCHANGED <<server, disk, files, trigger, unauthorized, spent>>

PermissionsFail ==
    /\ pc = "perms"
    /\ Disrupt("perms")
    /\ Finish(cur, ErrorWrite)
    /\ UNCHANGED <<server, disk, world, trigger, unauthorized>>

RunUpdateCommand ==
    /\ pc = "cmd"
    /\ live' = Loaded(cur)
    /\ Finish(cur, Synced)
    /\ UNCHANGED <<server, disk, files, trigger, unauthorized, spent>>

\* It exits with an error, which says nothing about what it did before that.
UpdateCommandFails ==
    /\ pc = "cmd"
    /\ Disrupt("cmd")
    /\ live' \in {live, Loaded(cur)}
    /\ Finish(cur, ErrorCmd)
    /\ UNCHANGED <<server, disk, files, trigger, unauthorized>>

-----------------------------------------------------------------------------
(* The end of a pass: SaveConfig if a status changed, then the report. *)

EndLoop ==
    /\ pc = "next"
    /\ todo = {}
    /\ pc' = IF dirty THEN "save" ELSE "report"
    /\ UNCHANGED <<server, disk, mem, world, trigger, unauthorized, pass, spent>>

SaveStatuses ==
    /\ pc = "save"
    /\ disk' = mem
    /\ pc' = "report"
    /\ UNCHANGED <<server, mem, world, trigger, unauthorized, pass, spent>>

SaveFails ==
    /\ pc = "save"
    /\ Disrupt("save")
    /\ pc' = "report"
    /\ UNCHANGED <<server, disk, mem, world, trigger, unauthorized, pass>>

\* An update names a configuration and a status, and no certificate or revision.
Reported ==
    [c \in Configs |-> IF batch[c] = NoStatus THEN server[c]
                       ELSE [server[c] EXCEPT !.status = batch[c]]]

\* UpdateConfigStatus, or no call at all when the batch is empty.
ReportStatuses ==
    /\ pc = "report"
    /\ server' = Reported
    /\ Return(unauthorized)
    /\ UNCHANGED <<disk, world, spent>>

\* The call fails before or after the server handled it, or is answered 403.
\* The batch is not kept.
ReportFails ==
    /\ pc = "report"
    /\ Disrupt("report")
    /\ server' \in {server, Reported}
    /\ \E auth \in {unauthorized, TRUE} : Return(auth)
    /\ UNCHANGED <<disk, world>>

-----------------------------------------------------------------------------
(* The environment *)

\* Killed, or stopped, at any point, and started again by systemd or by cron.
Crash ==
    /\ pc # "down"
    /\ Disrupt("crash")
    /\ ProcessGone
    /\ UNCHANGED <<server, disk, world>>

\* Somebody removes or damages an installed file, between passes.
Tamper(c, r, kind, content) ==
    /\ pc \in {"down", "idle"}
    /\ files[c][r] # Absent
    /\ files[c][r] # content
    /\ Disrupt(kind)
    /\ files' = [files EXCEPT ![c][r] = content]
    /\ UNCHANGED <<server, disk, mem, live, process, pass>>

\* The server issues or renews a certificate.
Issue(c) ==
    /\ server[c].form # "none"
    /\ server[c].gen < MaxGen
    /\ server' = [server EXCEPT ![c].gen = @ + 1, ![c].status = Pending]
    /\ UNCHANGED <<disk, mem, world, process, pass, spent>>

\* Somebody assigns, changes or withdraws a configuration.
Edit(c, form) ==
    /\ server[c].rev < MaxRev
    /\ server' = [server EXCEPT ![c].rev = @ + 1, ![c].form = form,
                                ![c].status = Pending]
    /\ UNCHANGED <<disk, mem, world, process, pass, spent>>

-----------------------------------------------------------------------------

Polling == \/ RunAgent \/ Tick
           \/ PollFailed \/ PollForbidden \/ PollNoContent
           \/ PollUpdated \/ PollUnsaved

Deciding(c) == \/ Reject(c) \/ Skip(c) \/ StatFails(c) \/ ReadFails(c)
               \/ Compare(c)

Installing == \/ FetchOk \/ FetchRefused \/ FetchFails
              \/ WriteFile \/ WriteFails
              \/ ApplyPermissions \/ PermissionsFail
              \/ RunUpdateCommand \/ UpdateCommandFails

Ending == \/ EndLoop \/ SaveStatuses \/ SaveFails
          \/ ReportStatuses \/ ReportFails

AgentStep == \/ Polling \/ Installing \/ Ending
             \/ \E c \in Configs : Deciding(c)

Environment ==
    \/ Crash
    \/ \E c \in Configs, r \in Role : \/ Tamper(c, r, "delete", Absent)
                                      \/ Tamper(c, r, "corrupt", Corrupt)
    \/ \E c \in Configs : Issue(c)
    \/ \E c \in Configs, form \in Form : Edit(c, form)

Next == AgentStep \/ Environment

Spec == Init /\ [][Next]_vars

\* systemd (Restart=always) or cron keeps starting the agent, the ticker keeps
\* firing, and every call of the agent returns.
FairSpec == Spec /\ WF_vars(AgentStep)

-----------------------------------------------------------------------------
(* Properties *)

\* Every variable has the values the code can give it.
TypeOK ==
    /\ server \in [Configs -> View]
    /\ disk \in [Configs -> View]
    /\ mem \in [Configs -> View]
    /\ files \in [Configs -> [Role -> Content]]
    /\ live \in [Configs -> [gen : Nat, rev : Nat]]
    /\ pc \in Points
    /\ trigger \in {"startup", "tick", "change"}
    /\ todo \in SUBSET Configs
    /\ cur \in Configs \cup {NoConfig}
    /\ got \in Nat
    /\ unwritten \in SUBSET Role
    /\ dirty \in BOOLEAN
    /\ batch \in [Configs -> Status \cup {NoStatus}]
    /\ unauthorized \in BOOLEAN
    /\ spent \in Nat

\* The service runs revision v.rev with the certificate of v or a newer one.
Served(c, v) == live[c].rev = v.rev /\ live[c].gen >= v.gen

\* A configuration whose saved status is SYNCED, the one status that makes a
\* later pass do nothing (synchronize.go:65-69), is really in use: through every
\* failure, crash, lost answer and late change, the service has loaded that
\* revision with that certificate or a newer one.
SyncedIsServed ==
    \A c \in Configs :
        disk[c].form = "ok" /\ disk[c].status = Synced => Served(c, disk[c])

\* The same for what the server shows its users: when it holds SYNCED for the
\* configuration the agent has saved, the service is running it, although a
\* status update (update-status.go:16-21) does not say which certificate or
\* revision it is about and may arrive after a newer one was assigned.
ServerNotMisled ==
    \A c \in Configs :
        /\ server[c].form = "ok"
        /\ server[c].status = Synced
        /\ SameView(server[c], disk[c])
        => Served(c, server[c])

Errors == Status \ {Pending, Synced}

\* And for its alarms: where no call failed and nobody touched the files, an error that the
\* server shows for the configuration the agent has saved says that there is no certificate
\* yet.  A race between a pass and the server, which may issue, edit and withdraw at any
\* step of it, alarms nobody (synchronize.go:43-88, update-status.go:16-21).
NoFalseAlarm ==
    \A c \in Configs :
        /\ spent = 0
        /\ server[c].form = "ok"
        /\ server[c].status \in Errors
        /\ SameView(server[c], disk[c])
        => server[c].gen = 0

\* When the service is reloaded (synchronize.go:136-164) the undamaged files of
\* the configuration are all of one certificate, and not of an older one than the
\* configuration asks for: no earlier crash or failed write between the PEM, the
\* chain and the key (synchronize.go:299-314) leaves a mixture that is applied.
ReloadIsCoherent ==
    pc \in {"perms", "cmd"} =>
        /\ files[cur]["pem"] >= mem[cur].gen
        /\ \A r \in Intact(cur) : files[cur][r] = files[cur]["pem"]

\* A pass that will find nothing to do finds a coherent installation: the saved
\* status is SYNCED, no fetch is needed, and the service and all undamaged files
\* have the one certificate the configuration names.
QuietIsCoherent ==
    \A c \in Configs :
        /\ pc = "down"
        /\ disk[c].form = "ok"
        /\ disk[c].status = Synced
        /\ ~NeedsFetch(c)
        => /\ live[c] = [gen |-> disk[c].gen, rev |-> disk[c].rev]
           /\ \A r \in Intact(c) : files[c][r] = disk[c].gen

\* No step takes the service, or an undamaged file, back to an older certificate:
\* a fetch that answers for a pass begun earlier (synchronize.go:115) and a retry
\* of an update command (synchronize.go:65,144) only ever move forward.
Forward ==
    \A c \in Configs :
        /\ live'[c].gen >= live[c].gen
        /\ \A r \in Role : files'[c][r] > 0 => files'[c][r] >= files[c][r]

NeverBackwards == [][Forward]_vars

Version(v) == [gen |-> v.gen, rev |-> v.rev]

\* A record that v is in use.
Says(v) == IF v.form = "ok" /\ v.status = Synced THEN {Version(v)} ELSE {}

Promise == INSTANCE Deployment WITH
    assigned <- [c \in Configs |-> Version(server[c])],
    used     <- live,
    saved    <- [c \in Configs |-> Says(disk[c])],
    shown    <- [c \in Configs |-> IF SameView(server[c], disk[c]) THEN Says(server[c]) ELSE {}]

\* The agent does what Deployment promises: through every failure, crash, lost answer and
\* late change the services go from version to version, certificates and settings, without
\* ever going back or ahead of the server, and every record of it is true as long as it
\* stands (synchronize.go:26-93, update-status.go:16-60).
ImplementsDeployment == Promise!Spec

\* The configuration the server assigns is saved, in place and in use.
Installed(c) ==
    /\ SameView(disk[c], server[c])
    /\ disk[c].status = Synced
    /\ live[c] = [gen |-> server[c].gen, rev |-> server[c].rev]
    /\ \A r \in RolesOf(c) : files[c][r] = server[c].gen

\* Once the server stops changing its mind and the faults end, every complete
\* configuration with a certificate is installed for good, and the server has
\* been told so: no combination of lost answers, failed calls and restarts leaves
\* the agent waiting for something that will not come.
Converges ==
    \A c \in Configs :
        <>[](\/ server[c].form # "ok"
             \/ server[c].gen = 0
             \/ Installed(c) /\ server[c].status = Synced)

-----------------------------------------------------------------------------
(* What the documentation says and the code does not do *)

\* HOW-IT-WORKS.md:24: synchronization "does ensure that the expected certificates
\* live in the expected locations (and match the expected thumbprints)".
ExpectedIsInPlace ==
    \A c \in Configs :
        []<>(\/ server[c].form # "ok"
             \/ server[c].gen = 0
             \/ /\ files[c]["pem"] = server[c].gen
                /\ \A r \in RolesOf(c) : files[c][r] # Absent)

-----------------------------------------------------------------------------
(* The inductive invariant behind the safety properties *)

InPass  == pc \in {"next", "fetch", "write", "perms", "cmd", "save", "report"}
OnOne   == pc \in {"fetch", "write", "perms", "cmd"}

\* What a status promises: SYNCED that the view is in use, and the two statuses
\* a pass does not answer with a fetch that no undamaged file is older than it.
Sound(c, v) ==
    v.form = "ok" =>
        /\ v.status = Synced => Served(c, v)
        /\ v.status \in {Synced, ErrorCmd} =>
               \A r \in Role : files[c][r] > 0 => files[c][r] >= v.gen

ViewsAreSound == \A c \in Configs : Sound(c, disk[c]) /\ Sound(c, mem[c])

ServerIsSound ==
    \A c \in Configs :
        SameView(server[c], disk[c]) \/ SameView(server[c], mem[c])
            => Sound(c, server[c])

\* The server issued everything there is.
ServerIsNewest ==
    \A c \in Configs :
        /\ disk[c].gen <= server[c].gen
        /\ mem[c].gen <= server[c].gen
        /\ live[c].gen <= server[c].gen
        /\ \A r \in Role : files[c][r] <= server[c].gen

\* Settings go from the server to memory, to config.json and to the service, which is never
\* given any that were not saved.
RevisionsInOrder ==
    \A c \in Configs :
        live[c].rev <= disk[c].rev /\ disk[c].rev <= mem[c].rev /\ mem[c].rev <= server[c].rev

\* The PEM, written first, is the newest file, and the service has no newer one.
PemIsNewest ==
    \A c \in Configs :
        /\ files[c]["pem"] > 0 =>
               \A r \in Role : files[c][r] <= files[c]["pem"]
        /\ \A r \in Role : files[c][r] > 0 => files[c][r] >= live[c].gen
        /\ \A r \in Role \ RolesOf(c) : files[c][r] = Absent

\* Memory is what was saved: exactly before a forced pass, and up to the statuses
\* during any pass.
MemoryIsSaved ==
    /\ pc = "down" => mem = disk /\ trigger = "startup"
    /\ pc = "poll" /\ trigger = "startup" => mem = disk
    /\ InPass => \A c \in Configs : SameView(mem[c], disk[c])

BatchIsMemory ==
    \A c \in Configs :
        batch[c] # NoStatus => InPass /\ batch[c] = mem[c].status

OneIsComplete == OnOne => cur \in Configs /\ mem[cur].form = "ok"

WritePhase ==
    pc = "write" =>
        /\ got > 0
        /\ got <= server[cur].gen
        /\ got >= mem[cur].gen
        /\ got >= live[cur].gen
        /\ \A r \in Role : files[cur][r] <= got
        /\ unwritten # {}
        /\ unwritten \subseteq RolesOf(cur)
        /\ \A r \in RolesOf(cur) \ unwritten : files[cur][r] = got
        /\ "pem" \in unwritten => unwritten = RolesOf(cur)

ApplyPhase ==
    pc \in {"perms", "cmd"} =>
        /\ files[cur]["pem"] > 0
        /\ files[cur]["pem"] >= mem[cur].gen
        /\ \A r \in Role : files[cur][r] > 0 => files[cur][r] = files[cur]["pem"]
        /\ \A r \in RolesOf(cur) : files[cur][r] # Absent

IndInv ==
    /\ TypeOK
    /\ ViewsAreSound
    /\ ServerIsSound
    /\ ServerIsNewest
    /\ RevisionsInOrder
    /\ PemIsNewest
    /\ MemoryIsSaved
    /\ BatchIsMemory
    /\ OneIsComplete
    /\ WritePhase
    /\ ApplyPhase

-----------------------------------------------------------------------------
(* The inductive invariant behind NoFalseAlarm, PassesEnd and VisitsInstall, on top of IndInv *)

\* An error recorded for a view that is still assigned says that there is no certificate.
Alarmless(v, w) == v.form = "ok" /\ v.status \in Errors /\ SameView(v, w) => v.gen = 0

\* Without a fault memory is what was saved up to the statuses, and knows a change when it
\* sees one.
CalmOn(c) ==
    /\ SameView(mem[c], disk[c])
    /\ \A r \in Role : files[c][r] # Corrupt
    /\ mem[c].rev = server[c].rev => mem[c].form = server[c].form
    /\ Alarmless(mem[c], server[c])
    /\ Alarmless(disk[c], server[c])
    /\ Alarmless(server[c], disk[c])

Calm == spent = 0 => \A c \in Configs : CalmOn(c)

\* A pass ends when every configuration was visited, and a visit leaves none pending.
Visited ==
    /\ OnOne => cur \in todo
    /\ pc \in {"save", "report"} => todo = {}
    /\ InPass => \A c \in Configs \ todo : mem[c].form = "ok" => mem[c].status # Pending

PassInv == Calm /\ Visited

\* What is left to do of a pass, in steps of the agent.
Effort ==
    16 * Cardinality(todo) +
        CASE pc = "next"  -> 15
          [] pc = "fetch" -> 14
          [] pc = "write" -> 8 + Cardinality(unwritten)
          [] pc = "perms" -> 7
          [] pc = "cmd"   -> 6
          [] pc = "save"  -> 5
          [] OTHER        -> 4

\* Every step of the agent brings the end of its pass nearer, and nothing puts it off: not
\* what the server assigns or withdraws meanwhile, nor a failing call (synchronize.go:26-93).
EndIsNearer ==
    InPass /\ InPass' => Effort' <= Effort /\ (AgentStep => Effort' < Effort)

PassesEnd == [][EndIsNearer]_vars

\* The service runs the certificate that is installed, and no file of it is missing or of
\* another one.  A damaged file beside the PEM is not noticed.
Whole(c) ==
    /\ live[c].gen = files[c]["pem"]
    /\ \A r \in RolesOf(c) : files[c][r] \in {files[c]["pem"], Corrupt}

\* A visit whose own calls succeed has done its work when it ends: whatever statuses, files
\* and settings earlier failures and crashes left behind, and whatever the server does in
\* between, a configuration for which there is a certificate is in use, SYNCED, and its files
\* are of one certificate, the one in use.  So a PEM and a key that do not match, which a
\* service that is restarted by somebody else may find between two renames
\* (synchronize.go:299-314), are there no longer than until a visit that meets no fault.  Only
\* a damaged PEM stands in the way (synchronize.go:53-168).
VisitInstalls ==
    \A c \in Configs :
        /\ InPass /\ c \in todo \ todo'
        /\ spent' = spent
        /\ mem[c].form = "ok" /\ ~Unreadable(c)
        /\ server[c].form # "none" /\ server[c].gen > 0
        => mem'[c].status = Synced /\ Served(c, mem[c])' /\ Whole(c)'

VisitsInstall == [][VisitInstalls]_vars
=============================================================================
