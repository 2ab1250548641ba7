# A verification of certkit-agent

certkit-agent runs on a host, polls the CertKit server for the certificate
configurations assigned to it, fetches the certificates, writes them where the
configuration says and runs an update command that reloads the service using them.
This directory models it in TLA+, from the installation of the service to its removal, checks
the models with TLC on small instances, and proves their safety properties with TLAPS for every
value of the constants.
Line numbers are those of `src/`.

## 1. The system and its parts

| Part | State | Operations | Modelled in |
| --- | --- | --- | --- |
| Synchronization: `agent/agent.go`, `agent/synchronize.go`, `api/config-poller.go`, `fetch-*.go`, `update-status.go`, `cmd/.../run_common.go` | `config.CurrentConfig`, the installed files, `wasUnauthorized`; the locals of a pass | poll, decide, fetch, write, chmod/chown, update command, save statuses, report | `AgentSync` |
| Atomic writes: `utils/io.go` | target and temporary file | create, chmod, write, sync, close, rename, clean up | `AtomicFile`, `AtomicWrite` |
| Config file and registration: `config/config.go`, `cli_common.go`, `api/register-agent.go` | `config.json`, the copy in each process; the server's agents and their keys | create, load, generate keys, register, save, set key, set service name | `SharedConfig` |
| Install and uninstall: `install/linux.go`, `windows.go`, `unregister.go` | unit file or entry of the Windows service manager, the program, config.json | install, stop, remove the service, unregister, remove the config | `HostLifecycle`; what `install` writes into config.json in `SharedConfig` |
| Process lifecycle: `main*.go`, `run_common.go` | running or not, ticker, stop channel | start, tick, stop, recover, crash | `HostLifecycle`, and as far as they need it `AgentSync`, `SharedConfig` |
| Windows certificate store: `synchronize_iis_windows.go`, `synchronize_rras_windows.go`, `synchronize_windows_common.go` | the machine store, the bindings of IIS sites and of RRAS | look up, fetch, import, bind, remove the old certificate | `WindowsStore` |
| Inventory: `inventory/*`, `api/update-inventory.go` | what was collected so far | read the configurations of web servers, mounts, IIS and RRAS; upload | `Inventory` |
| Signing, keys, machine id, error reports | none that changes | | no |

The parts meet in five places. The **server** answers a poll with a list of
configurations (200), or that nothing changed (204), or 403; the agent tells it a status per
configuration. **config.json** is read when a process starts and written as a whole by
whoever changes something: agents, `register`, `install`; nothing locks it. **The installed
files** are written by the agent and read by a service the agent knows only as a command to
run. **The machine certificate store** of Windows is shared by every IIS site and RRAS: a
configuration may find, use and remove what another one imported. The **service manager**
starts the agent, restarts it and tells it to stop, and `install` and `uninstall` tell it to. Inside
a process everything else is sequential; goroutines share no variables beyond the stop channel.

What is hard here is therefore not threads but *time between two calls*: the server renews a
certificate between a poll and a fetch; an answer or a report is lost; the process is killed
between writing a file, running the command and saving the status; another process writes
`config.json` between a read and a write; the service manager restarts an agent between two steps
of its removal; an administrator edits a configuration that is being read. `PROJECT.json` lists these hazards one by one, at
their lines, with the property that would catch each going wrong.

What makes each part correct:

- *Synchronization.* A `SYNCED` in the file is true (it is the one status that makes a later
  pass do nothing); a `SYNCED` on the server is true; a reload never gets a mixture of two
  certificates; nothing goes back to an older certificate; in the end everything is installed
  and the server knows; a visit that meets no fault does all of this for its
  configuration and leaves no mixture behind, every pass ends, and nobody is alarmed by a race.
- *Atomic writes.* A reader sees the complete contents of one call, even after a loss of power
  and with several writers; an error means that nothing was written; temporary files stay behind
  only where nothing could remove them.
- *Windows store.* A `SYNCED` site is bound to the certificate it is assigned, although the
  scripts hide most errors; a visit that meets no fault binds what is assigned, whatever the others made
  of the store; a binding is never lost or put back; sites that remove each other's certificates come to rest.
- *Config file.* An agent id is always beside the key pair it was registered with; one host
  registers once; what `register` and `install` wrote stays written; once the host is registered
  the service comes up, unless a stale copy without id and key was written over the registration.
- *Install and uninstall.* An agent is stopped before it is unregistered; an uninstall leaves
  nothing behind; an agent is lost on the server, or a host left with one that the server forgot,
  only through a fault; a stop is heard.
- *Inventory.* What is reported was there; what stayed there is reported, with its own key and
  chain, but for five kinds of certificate that the code overlooks; a registered host is reported on, unless
  the collection or the upload of the process that runs has failed.

## 2. The modules

| Module | What it is |
| --- | --- |
| `Deployment` | the abstract specification of what the users of the agent rely on |
| `AgentSync` | one agent process, its files, its config.json and the server |
| `AgentSyncProofs` | its theorems |
| `DeploymentProofs` | that `AgentSync` implements `Deployment` |
| `MCAgentSync` | its instances for TLC |
| `AtomicFile` | the abstract specification of a write that takes effect at once or not at all |
| `AtomicWrite` | `WriteFileAtomic`, system call by system call |
| `AtomicWriteProofs` | its invariant, and that it implements `AtomicFile` |
| `SharedConfig` | the processes of one host and the one file they share |
| `SharedConfigProofs` | its theorems |
| `MCSharedConfig` | its instances for TLC |
| `WindowsStore` | one agent process on Windows, the machine store, the bindings and the server |
| `WindowsStoreProofs` | its theorems |
| `MCWindowsStore` | its instances for TLC |
| `HostLifecycle` | the installs of one host: commands, service manager, agent processes, agents on the server |
| `HostLifecycleProofs` | its theorems |
| `MCHostLifecycle` | its instances for TLC |
| `Inventory` | the collection of a starting agent, the host it looks at, and the inventory of the server |
| `InventoryProofs` | its theorems |
| `MountPathProofs` | that the decoding of mount paths is the inverse of their encoding |
| `MCInventory` | its instance for TLC |

They compose through their promises. `AtomicWrite` is shown to implement `AtomicFile`, and
this is why one `SaveConfig` and one certificate file are one step in the other modules.
`AgentSync` is shown to implement `Deployment`, which knows of no files, passes or faults.
`SharedConfig` shows when a process may take its copy of the file for the file, and this is
what `AgentSync` and `WindowsStore` assume of `disk`: one agent process at a time, registered.
`WindowsStore` has the same loop around another body (`synchronize.go:54-59` branches to it), so
its poll, its end of a pass and its crashes are those of `AgentSync`, and what is new is the store
that the configurations share. `HostLifecycle` is where processes come from and go to: it keeps of a
pass only what it does to the agent id in config.json, and of registration only the ids, because
`CredentialsMatch` says that the key pair follows the id. `Inventory` is the step between
registration and the first pass (`run_common.go:55-63`).

A definition with an underscore in its name (`RetryFull_Forgetful`) is a deliberately wrong
variant of the definition that follows it, the kind of slip a change to that code could
make. No specification uses it: put in its place, it makes the property named for it in
`PROJECT.json` ("mutants") fail.

### AgentSync

| Variable | In the code |
| --- | --- |
| `server` | what the server has assigned: per configuration its form, certificate, revision and the status it shows |
| `disk`, `mem` | `certificate_configurations` in config.json, and in `config.CurrentConfig` |
| `files` | the files at `PemDestination`, `ChainDestination`, `KeyDestination` and the PFX password file |
| `live` | what the service loaded the last time it was reloaded |
| `pc`, `trigger`, `unauthorized` | where the process is, whether the poll is forced, a tick or found a change, and `wasUnauthorized` |
| `todo`, `cur`, `got`, `unwritten`, `dirty`, `batch` | the locals of `SynchronizeCertificates` and `synchronizeCertificate` |

The control is kept whole: every early return, status and error path of
`synchronizeCertificate`, in its order. The data is cut down to what the code compares. A
certificate is its generation, a configuration its revision, a file the generation it was
written from. Four layouts stand for the destinations a configuration may have: PEM and key;
PEM, chain and key; one combined PEM; PFX with password. A form says whether a configuration
is complete, is rejected (a destination is missing, or the type belongs to another platform),
or lacks an id. The order of `todo` is left open, which covers any order of the list.

A step is one call to something outside: a poll, a fetch, a file, permissions, the command, a
save, a report. Faults are charged to one budget, `MaxDisruptions`, and `Disruptions`
says which kinds may happen: `crash` (any point), `poll`, `fetch`, `report` (the call fails
before or after the server handled it, or is answered 403), `save`, `stat`, `write`, `perms`,
`cmd`, and `delete` or `corrupt` for a file somebody removes or damages between passes.

Assumptions on what is outside `src/`:

- The server gives `PENDING_SYNC` to what it newly issues, edits or delivers. The agent
  compares with that status (`synchronize.go:66`) and assigns it nowhere, so it has to come
  from there. A configuration the agent already has is delivered with the status the server
  holds, whichever that is.
- A poll answered 200 may carry nothing new; a 204 is given only when nothing is new.
- A failing update command may or may not have reloaded the service.
- A configuration whose destinations move to new paths is an edit together with the deletion
  of files. A PFX is opened with the password file beside it, and the two are of one certificate
  if it opens.
- `ReportAgentError` changes nothing.

`Deployment` is what is left of this for the users of the agent. Per configuration it has the version
(certificate and settings) that is assigned, the one the service runs, and the versions that
config.json and the server say are in use. There are three kinds of step: the server assigns a newer
version, and takes back what it said (`Assign`); the service goes on to a version that is no newer than
the one assigned, and under which everything said stays true (`Load`); something true is said, or anything
taken back (`Say`). `ImplementsDeployment` maps `assigned` to `server`, `used` to `live`, and `saved` and
`shown` to the views that are `SYNCED`, the server's where it is about the version in
config.json.

### AtomicWrite and AtomicFile

`temp` is the temporary file of each writer, `target` what a reader gets and `stable` the
directory entry on disk. The rename may reach the disk at any later moment (`Settle`). A
loss of power brings back the stable entry, with its data only if they had been synced:
skipping `Sync` makes the model lose the file. The refinement maps `contents` to
`target.data` and `permanent` to `stable.data`: the rename is the moment a write takes
effect. `names` are the temporary files in the directory, by the call that made them, and `kept` those
according to the disk: a kill, a failed rename or a failed removal leaves one behind, and a loss of power
may bring one back whose rename or removal had not reached the disk. `abrupt` counts these faults
and is read by no step.

### SharedConfig

`file` is config.json reduced to registration key, service name, agent id, key pair and the
revision of the configurations; `mem[p]` is the copy in process `p`; `accounts[id]` is the
public key the server has for agent `id`. Every read of the whole file and every write of the
whole copy is a step, and between two of them any other process may do as it likes. The
processes are agents (`Runs`, some of them `run --once`), `register` and `install` commands.
`WaitsFor[p]` names the processes that must not be running when `p` starts, and so tells apart a
host where everything overlaps, a shell that runs one command after the other, and
processes that never overlap. The server makes a new agent of each registration call.
A prepared file (`Prepared`) has an `api_base` and nothing else, the case the guards at
`cli_common.go:35`, `config.go:115` and `run_common.go:44` are for.

### WindowsStore

| Variable | In the code |
| --- | --- |
| `issued`, `server` | the newest generation of each certificate, and what the server has assigned |
| `disk`, `mem` | as in `AgentSync` |
| `store` | the thumbprints in `Cert:\LocalMachine\My` |
| `bound` | `CertificateHash` of a site's binding; the certificate given to `Set-RemoteAccess` |
| `unnoticed` | sites whose last `AddSslCertificate` failed for a reason of its own; no step reads it |
| `old` | `$currentThumbprint` of the IIS script |
| `pc`, `trigger`, `todo`, `cur`, `got`, `dirty`, `batch` | as in `AgentSync` |

Here a certificate has a name of its own: several configurations may use the same one, an edit may
move a configuration to another, and thumbprint `<<k, g>>` is generation `g` of certificate `k`.
Looking up a thumbprint, importing, binding and removing the old certificate are steps, so that a
crash or a failure may come between any two.

The IIS script sets no `$ErrorActionPreference`. Only `throw`, and a script that cannot be run,
make `RunPowerShell` return an error: when `AddSslCertificate` fails, the script goes on, removes the
previous certificate and succeeds. The model keeps this. `AddSslCertificate` fails when the
certificate is not in the store, which the code has to prevent and `SyncedIsBound` is about; that it
may fail for another reason too (`AddSslFails`) and is then reported as `SYNCED` is recorded in
`unnoticed` and excepted from the properties, because nothing in the agent could tell. The commands
of the RRAS script say `-ErrorAction Stop`, so there a failure is seen.

Left out: a site whose binding moves to another `site:port`, a host with several https bindings on
one port, and a PowerShell child that survives the agent that started it.

### HostLifecycle

An install is a service name together with a config path (`Targets`); one host may have several.
The host is one of three platforms: systemd, Windows, or one without `systemctl`, where somebody
starts and stops the agent by hand.

| Variable | In the code |
| --- | --- |
| `binary` | the program at `/usr/local/bin` or in `Program Files`, one for all installs |
| `unit`, `managed` | unit files or entries of the Windows manager; what the manager starts again |
| `stop`, `proc`, `copy` | the stop channel, the point where a process is, and the agent id in its memory |
| `config` | the agent id in each config.json, 0 before registration, or no file |
| `step`, `held` | the next step of the command at work on an install, and the id `uninstall` has read |
| `agents`, `known` | the agents the server made for an install, and those it still knows |
| `hits`, `swept`, `outlived`, `removed` | what the properties need to know of the past; no step of the program reads them |

| Actions | In the code |
| --- | --- |
| `BeginInstall` ... `StartService` | `InstallLinux`, `InstallWindows`: config, unit file or service, daemon-reload, enable and start |
| `BeginUninstall` ... `DeleteRefused` | the service part of `UninstallLinux` and `UninstallWindows`, with `stopWindowsService` and its 30 seconds |
| `ReadConfig`, `Unregister`, `EraseConfig`, `RemoveBinary`, `RemoveProgramData` | `unregisterAgent`, and the removal of files |
| `Load` ... `HearStop` | an agent process from its start to its stop: `runAgent`, `runCmd`, the Windows service handler |

Each call that the code lets fail has a failing twin. A failure that the code only logs
(`StopUnitFails`, `UnregisterFails`, `SaveAgentFails`) lets the command or process go on, any other
one ends it. A fault is charged to the install it hits, and that account is what the properties are about.

Assumptions on what is outside `src/`:

- systemd drops at a daemon-reload what has no unit file, and leaves alone what runs. `systemctl
  stop` waits for the end of the process; whether that is a stop that was heard or a kill is left open.
- A Windows service that is deleted while its process runs is marked for deletion, until the process
  is gone. A service that is stopping accepts no control. A service that fails is started again by
  its recovery actions; that this happens just between the look at its state and its deletion counts
  as a fault.
- `os.RemoveAll` cannot remove a log file that a service has open; it removes the rest and fails.
- The server makes a new agent of each registration, and answers 403 to an agent it does not know;
  it may give that answer to others too.
- Without `systemctl`, `uninstall` stops nothing and does not look for a process
  (`linux.go:151-160`): that somebody gives the command while the agent runs is a step of the model and
  counts as a fault, like a failed `systemctl stop`. That somebody starts the agent by hand while a command is
  at work is left out.

A reboot is a crash of every process and command. Commands are given the flags that match
(`INSTALLATION.md` asks for the same service name and config in both), so that the paths `uninstall`
would read back from a unit file are those it was given. `SaveAgent` writes id and pair together,
and a pair that is missing is written when the config is loaded, so the pair needs no step here.

### Inventory

A place (`Places`) is a file, a directory or a query that a provider looks at, and has one of a few
contents, or is gone. `host` is what there is now; edits may come between any two reads. A provider is asked
(`Ask`), finds the places there are, and reads them one after the other (`Read`, `ReadHaproxy`,
`ReadList`); a place that cannot be read is skipped, a provider that fails ends everything
(`AskFails`), and at the end the server gets all of it at once (`Upload`). What a provider makes of
a content is an operator each:

| Operator | In the code |
| --- | --- |
| `Paired` | nginx, apache and LiteSpeed: the n-th certificate of a file with its n-th key and chain, and the domains of the whole file |
| `Bundled` | HAProxy: certificates of a config and of the lists it names |
| `Mounted`, `Scanned`, `Escape`, `Unescape`, `Coded`, `Value` | docker: the files below a mount point, and the octal codes in its name in `/proc/self/mountinfo` |
| `Bound`, `Gateway` | IIS and RRAS |
| `Normal`, `Domains` | `normalizeDomain` |

`had` records per place what was there during the collection, `basis` the same of the collection
the server has; the properties compare with them. `silent` is a process that registered and could
not save its id: it sends no inventory (`agent.go:52-60`). `failed` says that the last collection or
its upload failed; no step reads it.

What `NothingMissed` compares with is not what the code makes of a place. `Certificates` are those an
administrator would name: every block with a certificate, every certificate file, every binding; and `Use` is such a
certificate beside the key, chain and names it is used with. `Overlooked` lists, each with its line, the
kinds which the server is not told of, or beside the wrong key, although nothing failed. `NothingInvented`
does read a place through the code's own parse: it is about times, that what is reported together was there
in that collection, and a certificate that the parse pairs with the wrong key passes it.

Left out: comments, quotes and the regular expressions, which turn a file into blocks of directives;
mounts inside mounts; the checks for `/proc`, `/sys` and `/dev`, which no whitelisted path passes;
names that differ in case only. A provider's search for its files is one step, and so is one walk of
a directory. Of the processes of a host one at a time collects.

## 3. The runs

| Run | Instance | Shows |
| --- | --- | --- |
| `SyncCron` | `run --once`, PFX with password, all eleven faults, three of them, two certificates, two revisions | `SyncedIsServed`, `ServerNotMisled`, `ReloadIsCoherent`, `QuietIsCoherent`, and `Converges` under fairness |
| `SyncService` | the service, PEM, chain and key, the same bounds | `ImplementsDeployment`, `NeverBackwards`, `PassesEnd`, `VisitsInstall`, `NoFalseAlarm`, and the two inductive invariants, `IndInv` and `PassInv`, type correctness among them; from `IndInv` the safety properties of `SyncCron` follow |
| `AtomicWrite` | two writers with two calls each, three faults | `NeverTorn`, `LeftoversArePaidFor`, the inductive invariant, and that it implements `AtomicFile` |
| `ConfigOverlap` | service, `register`, `install` with a key; they overlap freely; a prepared file or none; two faults | `CredentialsMatch`, and `ServiceComesUp` under fairness: the service comes up if there was no file; if one was prepared without a key it comes up, or the file is left without id and key for good |
| `ConfigAlone` | service, cron job, `register`, `install` without a key; they do not overlap; a prepared file or none; two revisions, three faults | `RegistrationsArePaidFor`, `KeySticks`, `NameSticks`, `StaysRegistered`, the inductive invariant |
| `SitesMove` | `run --once`; two sites, two certificates, each site may be moved from one to the other; any one fault | `SyncedIsBound`, `ServerNotMisled`, and `SitesConverge` under fairness |
| `StoreService` | the service; a site and the gateway of one certificate that is renewed; destinations that are rejected, ids that are missing; any three faults | `PassesEnd`, `VisitsInstall`, `NeverUnbound`, and the inductive invariant, from which `SyncedIsBound` follows |
| `HostLifecycle` | two installs, each of the three platforms, commands one at a time in any order, one fault at one install, one registration each | `StopsFirst`, `UninstallCleansUp`, `LossesArePaidFor`, the inductive invariant, and `StopIsHeard` under fairness |
| `Inventory` | a Linux container with apache, HAProxy and a mount, and a Windows host with IIS and RRAS; service and `run --once`; one edit, one fault | `NothingInvented`, `NothingMissed` with its five exceptions, the inductive invariant, and, under fairness, `RegisteredIsReported`: an inventory arrives, or the last collection or upload failed and nothing has repeated it |

*Bounds.* Two generations and two revisions are the least with an old and a new of each
that can be mixed up, in a file, in a status or in an answer. Three faults allow a failure, a
second one in its recovery, and a crash in that. Configurations do not influence each
other except through the one list, status batch and save; TLC checks one, and the theorems hold for
any set of them. Two writers are enough for each to be in the other's way; a second call
of each lets a late step of the first meet a later call. In `SharedConfig` one process of each kind is the least where
each pair of kinds can overlap. In `WindowsStore` two sites and two certificates are the least where
one site removes what the other one needs while that one does the same to it; one fault is what
the fair run affords, and `StoreService` has three. In `HostLifecycle` two installs are the least
where a command for one harms the other. One fault is the least for which the account must not
be overdrawn; the theorems hold for any number, also for commands that overlap
(`Overlap = TRUE`, which TLC does not explore). A config is made anew only until an agent
was registered for it (`MaxAgents`); this leaves the uninstall that is repeated and the install over
what another one left. In `Inventory` a config has blocks
that lack a key or a chain, and blocks without a certificate, a mount has a `.pem` beside a `.crt`, its path has both an escaped character and what looks like an escape,
and IIS has one binding more than is taken into account; one edit and one fault can fall between any two reads.

*Fairness.* `AgentSync!FairSpec` is weak fairness of the agent's own steps together: systemd
(`Restart=always`, `linux.go:203`) or cron starts the process again, the ticker fires
(`run_common.go:75`), HTTP calls end after 15 seconds at most. The update command has no timeout
(`synchronize.go:527`): that it returns is an assumption. Nothing is assumed of the server or
of faults but that the bounds end them. `WindowsStore!FairSpec` is the same with the Windows service
manager or a scheduled task; that a PowerShell script returns is an assumption too.
`SharedConfig!FairSpec` is weak fairness of each
process: an agent is started again, a command goes on once somebody began it, but nobody
has to give one. `HostLifecycle!FairSpec` says that a pass ends (weak fairness of `Pass`) and that
a stop which is pending again and again is heard (strong fairness of `HearStop`): a Go `select`
with several channels ready takes one at random, so a ticker that is always ready cannot win for
ever. Commands are not assumed to go on. `Inventory!FairSpec` is weak fairness of the collection
and of the end of a `run --once`, and strong fairness of the start of the service
(`Restart=always`), which a cron job that keeps starting may delay. A fair specification is only used where a run checks liveness.

*Deadlock* is not checked in `AtomicWrite`, `ConfigOverlap` and the two runs of
`HostLifecycle`: there the system really stops, when all calls are made, when a command failed and
no service was installed, or when everything was uninstalled and no more installs are allowed.

### Where code and documentation differ

Three runs check what the documentation says, and TLC finds it violated. Each
counterexample was followed through the code; `PROJECT.json` ("findings") quotes both.

| Run | Documentation | Code |
| --- | --- | --- |
| `CorruptPem` | synchronization ensures that the expected certificates are in place | a PEM that cannot be parsed is an error, not a reason to fetch (`synchronize.go:249-252`, `85-88`), even in a forced pass |
| `GatewayStale` | a changed certificate is written to its destination | if an IIS site has imported it before, the RRAS configuration finds it in the store, does not bind it, and is `SYNCED` (`synchronize_rras_windows.go:23`, `71`) |
| `UninstallOthers` | uninstall removes the files of the target install | on Windows it removes `ProgramData\CertKit` as a whole (`windows.go:180`), and with it the config, agent id and key of every other install below it |

More were seen while modelling and have no run of their own; the models contain the behaviour.

- After one failed save of a change, the service has it in memory, does not synchronize it, and is not
  told again (`agent.go:72-75`, against `HOW-IT-WORKS.md:27`). `Converges` is therefore about
  processes that start again.
- That a crash between the writing of a renewed certificate and the update command is made up for
  (`QuietIsCoherent`) is not due to anything the pass leaves on disk, where the new PEM alone would say that nothing is
  to be done (`synchronize.go:84`, `136`): it is due to the `PENDING_SYNC` that the server delivered with the renewal, and that
  the poll saved before the pass. A server that renewed without that status would lose the reload.
- Service and `register`, started in the documented order of commands, both register, as each looks
  at the copy it read at startup (`agent.go:34`). `RegistrationsArePaidFor` is
  therefore about processes that do not overlap.
- The service does not look at the files again until the server reports a change (`agent.go:22`,
  against `HOW-IT-WORKS.md:24`). The synchronization about every ten minutes and the inventory
  about every eight hours that `HOW-IT-WORKS.md` speaks of are not in the code (`run_common.go:55-78`).
- A registration key that `register` wrote is overwritten by an agent that holds an older copy
  (`config.go:182`, against `CLI-REFERENCE.md:151`), and `register` exits with 0 when saving its
  agent id failed (`agent.go:52-55`, `cli_common.go:48`, against `CLI-REFERENCE.md:152`).
- `install` without a key fails on a host without config (`config.go:79-81`, against
  `INSTALLATION.md:58-63`).
- A config whose agent the server has forgotten (`Ghost`) stays: `install` and `register` keep the id
  they find, and the service is answered 403 for ever.
- On Linux, uninstalling one install removes the program of all of them (`linux.go:179`).
- Not every certificate in use is inventoried (`Overlooked`): only the first ten IIS bindings are
  (`iis_windows.go:83`); of a `.crt` and a `.pem` of one name only the first is (`docker.go:59-63`); certificates of one file are
  paired with keys by their position, so a block without a key shifts all that follow (`nginx.go:40-48`); mounts
  outside a fixed list of paths (`docker.go:128`) and a gateway that does not listen (`rras_windows.go:26`) are passed over.
  `NothingMissed` excepts these five kinds and nothing else.
- A collection or an upload that failed is not repeated as long as the service runs (`inventory.go:22-24`,
  `agent.go:80-93`, against the eight hours of `HOW-IT-WORKS.md:25`): `RegisteredIsReported` names this exception.
- A registration may be lost: if config.json was prepared without a key, `install` or a service that read it before
  `register` wrote to it writes that copy back (`config.go:122-123`, `182`). The host is then without id and
  key although `register` succeeded, and its service exits at once, for ever (`run_common.go:42-44`):
  `ServiceComesUp` names this exception.

## 4. What is proved

TLAPS proves the following for every set of configurations, layouts, processes and writers, and any
bounds, from the named assumptions on the constants alone (`NoConfigAssumption`,
`LayoutAssumption`, ..., each beside its constants). They say which sets and functions the constants
are: `ContentAssumption`, for one, that a config file is a sequence of blocks, and `MountAssumption`
that a mount point is a sequence of characters. The two theorems named `PassesDoEnd` ask for finitely many configurations
besides: the list is a slice. Each module proves its type invariant too; where it is a part of `IndInv`, a run checks it there.

**AgentSyncProofs.** `TypeCorrect`, `SyncedConfigurationsAreServed`,
`ServerIsNotMisled`, `ReloadsAreCoherent`, `QuietAgentsAreCoherent`,
`CertificatesOnlyAdvance`, all from one inductive invariant, `IndInv`. None of the
properties is inductive: that a reload is coherent rests on what earlier crashes may have left.
The parts of the invariant say why the code is right:

- `PemIsNewest`: the PEM is written first, so whatever is cut short, no other file is newer
  than it, and no file is older than what the service runs.
- `ViewsAreSound`: `SYNCED` means served. `SYNCED` and `ERROR_UPDATE_CMD`, the two
  statuses that may be answered without a fetch, mean that no undamaged file is older than
  the certificate named. So a PEM of that very certificate, which is what makes a fetch
  unnecessary, implies that all files are of it.
- `ServerIsSound`: the same for a status the server may deliver back; it carries the
  argument through lost and late reports.
- `RevisionsInOrder`: settings go from the server to memory, to config.json and to the service.
- `ServerIsNewest`, `MemoryIsSaved`, `BatchIsMemory`, `WritePhase`, `ApplyPhase`: what is
  known at each point of a pass.

`NeverBackwards` follows from the invariant for each step.

Three more theorems are the part of convergence that is safety. `PassesDoEnd`: `Effort` counts the steps a
pass has still to make, and each step of the agent lowers it, whether the call succeeds or fails, while no
step of the server or of a fault raises it; so only a call that does not return holds a pass up.
`VisitsDoInstall`: whatever statuses, files and settings earlier faults left behind, a visit that meets none
leaves its configuration in use and `SYNCED`, and all its files there and of one certificate (`Whole`), if the server has a certificate for
it when the visit ends; only a damaged PEM stands in the way. So a mixture, which a server that watches its files would
load, lasts no longer than until the next visit without a fault. It is the retry rules that make this so, and what they mean comes from `ViewsAreSound`
after the step. `NobodyIsAlarmed`: as long as there was no fault at all, the server shows no error for a
configuration that has a certificate, although it may issue, edit and withdraw at every step of a pass. These
theorems rest on a second invariant, `PassInv` (`PassInvariance`), relative to `IndInv`. `Calm` says that memory, config.json and
server agree up to statuses on what has not been edited since, and that an error on record is about a
view that is no longer assigned or has no certificate. It is needed because an error of one pass may reach the server after the
configuration was edited, and be delivered back. `Visited` says that a pass which ends has
visited everything, and that what was visited is not pending.

**DeploymentProofs.** `Refinement`: the initial state maps to that of `Deployment`, and every step to
`Say`, `Load`, `Assign` or a stutter. Each of the three has a lemma. A reload is a `Load`
because of `ApplyPhase` and `ServerIsNewest` (not ahead of the server), `PemIsNewest` and `RevisionsInOrder` (not back),
and the invariant of the state after it (what is said stays true); all other steps of the agent are a `Say`
or a stutter, and this is again `ViewsAreSound` and `ServerIsSound` of the state after the step.

**AtomicWriteProofs.** `ReadersSeeWholeFiles` from its invariant, and `Refinement`: the initial state maps
to the abstract one, and each step maps to an abstract step or a stutter. `LeftoversAreFew` is about
the directory and needs to know of the disk (`Tidy`): it may hold one file more than was left behind, the
one in the writer's hands when it was written, and the loss of power that brings it back pays for it.
`LeftoversGrow` says for each step how the leftovers of one writer may grow.

**SharedConfigProofs.** `CredentialsAlwaysMatch` for processes that overlap in any way: since
each process writes back a whole copy whose id and pair belong together, no mixture
arises (`Paired`: no copy is without a pair once it may be written back). For processes
that do not overlap (`Exclusive`): `OneHostOneAgent`, `RegistrationLasts`,
`RegistrationKeysStick`, `ServiceNamesStick`, from `Undisturbed`: the copy of the one process
that runs is the file, as far as it matters.

**WindowsStoreProofs.** `SyncedSitesAreBound`, and the same of what the server shows (`ServerIsNotMisled`), for any sites, gateway and certificates shared in any
way. The argument is not that a certificate stays in the store, which is false, since another
configuration may remove it at any time between passes. It is that within one visit nothing else
touches the store, and that what is imported is either the certificate named (`ImportPhase`), so that
the binding finds it (`BindPhase`, `CleanPhase`), or a newer one; and then the view of the agent is
out of date and will never be assigned again (`ServerIsNewest`), so that its status promises
nothing. `ViewsAreSound` and `ServerIsSound` carry this through saves, crashes and late reports; these parts are
`StoreInv`.

Three more theorems are about steps. `VisitsDoInstall`: a visit without a fault ends with the configuration
`SYNCED`, its certificate in the store, and the site bound, if it is still assigned as the agent knows it. For a
visit that has nothing to do this is `ViewsAreSound`; for one that fetches, `ServerIsNewest` excludes that a newer
certificate came, and `BindPhase` and `CleanPhase` say that the script finds what it needs and does not remove what it has just
bound. It does not say that the gateway is bound: `GatewayStale` shows that it may not be.
`BindingsOnlyAdvance`: what is bound is always the certificate in memory, memory is what config.json names during a pass
(`MemoryIsSaved`), and config.json never names one older than what is bound (`BindingsAreKnown`), which needs that
no agent works on a change it could not save. `PassesDoEnd` is as in `AgentSyncProofs`, from `AgentMoves`, which says where each
step of a pass leads, and `Visited`.

**HostLifecycleProofs.** `UninstallStopsFirst`, `UninstallLeavesNothing` and `LossesArePaid`,
for any installs and platforms, any number of faults, and commands that overlap or not. The invariant
is one of each install (`TargetInv`), because a step is about one install and leaves the others as
they are, except for what a daemon-reload and the removal of `ProgramData` do
(`Untouched`). `LossesArePaidFor` is not inductive: a fault does its harm later. An agent that was not
stopped (`Astray`) will register again or write back its config, an id that was not saved
(`Unsaved`) is lost with its process, and a config about to be overwritten (`Doomed`) takes its agent
along. `Debts` counts what is lost and what is going to be, and each step either
pays for what it adds with a fault or turns one debt into another (`Settles`). `OthersAreSpared` is about each step: a config
goes away only by the uninstall given for it, and otherwise only on Windows, with the directory; what `UninstallOthers` shows there cannot happen on Linux,
nor to a config outside `ProgramData`.

**InventoryProofs.** `NothingIsInvented`, for any host, providers and contents: what was collected
so far shows what its places had (`Shows`), an HAProxy config in hand has only certificates
of its own or of its lists (`PartShows`), and what there is now is noted (`HadSeen`). It needs that
a collection starts from nothing and that a config is given up as a whole. `NothingIsMissed` is about what is not
there yet: a place that has stayed as it was is covered by what was collected, or its provider has still to be
asked, or it has still to be read, or it is the HAProxy config in hand and the certificates that are
lacking are in lists still wanted (`NothingSkipped`, `InHand`). At the end nothing is left to be read
(`NothingLeft`), so all such places are covered. That what a provider makes of a place covers every certificate of it that is not
`Overlooked` is a lemma for each kind of place (`SeesCovers`): the directives of a block have the same position in their lists as
long as the blocks before it are in step (`SamePosition`, `ValueOfBlock`), and a mount is found because its path is decoded
rightly (`MountedCovers`).

**MountPathProofs.** `PathsSurvive`: `Unescape(Escape(path)) = path` for every path. What a recursive
definition computes for every input takes an induction, and the library's induction theorems have an
operator as parameter, which no installed prover can instantiate. So the induction here is about a set: one that has 0, and with
each number the next, has all numbers, since what it lacks would have a least element. The recursive functions
are first shown to exist, one argument more at a time (`DecodingExists`, `FlatteningExists`); then what is decoded from the place where
the code of the i-th character begins is the rest of the path from i on.

Only model-checked: the five liveness properties (`Converges`, `ServiceComesUp`,
`SitesConverge`, `StopIsHeard`, `RegisteredIsReported`), which TLAPS 1.4.5 cannot do under fairness.
Of `Converges` the two halves that are safety are proved, as said above.

## 5. What is not modelled, and what comes next

Not modelled, because it keeps no state: signing and key generation (that id and pair must match is
in `SharedConfig`); error reports; machine id; the parsing of flags and `validate`; the hourly truncation of
the log of the Windows service; scripts and examples under `dev/`, `docker/` and `scripts/`. File contents and paths: that
two configurations use the same destination is left out, as is a damaged file that appears in
the middle of a pass. Nothing
bounds the update command: that it returns is assumed. The paths that `uninstall` reads
back from a unit file are taken to be those it was given.

The plan, in order:

1. *OverlappingSync*: two `run --once`, or one beside the service, on the same files and the same
   config.json: two instances of `AgentSync` that share `server`, `disk`, `files` and `live`. The
   certificate of one and the key of the other may be left side by side, and the next pass, which
   compares the certificate only, would not notice.
2. `HostLifecycle` with flags that do not match, so that `uninstall` works with the paths it reads back
   from the unit file.
