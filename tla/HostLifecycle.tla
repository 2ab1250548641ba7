--------------------------- MODULE HostLifecycle ----------------------------
(***************************************************************************)
(* The installs of one host: `install` and `uninstall`, the service        *)
(* manager that runs the agents, the agents as far as they write           *)
(* config.json, and the agents the server knows.  An install is a service  *)
(* name together with a config path; commands are given the flags that     *)
(* match, as INSTALLATION.md asks.  The manager is systemd, the Windows    *)
(* service control manager, or, on a host without systemctl, somebody who  *)
(* starts the agent by hand.                                               *)
(***************************************************************************)
EXTENDS Integers, FiniteSets

CONSTANTS
    Targets,    \* the installs
    Swept,      \* those whose config lies below ProgramData\CertKit on Windows
    Platforms,  \* the platforms the host may have
    NoFile,     \* there is no config.json
    Overlap,    \* TRUE: commands for different installs may run at the same time
    MaxAgents,  \* bound on registrations: no new config for a target that had as many
    MaxHits     \* [Targets -> bound on the faults that hit it]

ASSUME SweptAssumption    == Swept \subseteq Targets
ASSUME PlatformAssumption == Platforms \subseteq {"systemd", "bare", "windows"}
ASSUME FileAssumption     == NoFile \notin Nat
ASSUME OverlapAssumption  == Overlap \in BOOLEAN
ASSUME BoundAssumption    == MaxAgents \in Nat /\ MaxHits \in [Targets -> Nat]

VARIABLES
    platform,  \* the platform, which does not change
    binary,    \* the program is where the services expect it
    unit,      \* targets with a unit file, or with an entry in the Windows manager
    managed,   \* targets the manager starts again whenever their process is gone
    stop,      \* targets whose process was told to stop
    proc,      \* [Targets -> where the agent process is]
    copy,      \* [Targets -> the agent id in its memory, or 0]
    config,    \* [Targets -> the agent id in config.json, 0 before registration, or NoFile]
    step,      \* [Targets -> the next step of the command at work on it]
    held,      \* [Targets -> the agent id `uninstall` read and is going to unregister, or 0]
    agents,    \* [Targets -> how many agents were registered for it: 1, 2, ...]
    known,     \* [Targets -> those of them the server still knows]
    hits,      \* [Targets -> faults that hit it]; no step of the program reads these four:
    swept,     \* targets that lost their config to the uninstall of another one
    outlived,  \* targets whose agent was not stopped when its config was about to go
    removed    \* targets whose last command was an uninstall that ended with success

server   == <<agents, known>>
manager  == <<unit, managed>>
agent    == <<proc, copy, stop>>
witness  == <<hits, swept, outlived, removed>>
vars     == <<platform, binary, manager, agent, config, step, held, server, witness>>

\* "register" and "agent": before and after the server's answer; "first" and
\* "poll": before a forced and an ordinary poll; "save" and "sync": before the new
\* configurations are saved and inside SynchronizeCertificates.
Points == {"down", "load", "register", "agent", "first", "poll", "save", "sync", "wait"}

\* Of `install`, then of `uninstall`.
Steps == {"idle", "create", "unit", "load", "enable",
          "stop", "stopping", "remove", "reload", "read", "unregister", "erase", "clean"}

Init ==
    /\ platform \in Platforms
    /\ binary = FALSE
    /\ unit = {} /\ managed = {} /\ stop = {}
    /\ proc = [t \in Targets |-> "down"]
    /\ copy = [t \in Targets |-> 0]
    /\ config = [t \in Targets |-> NoFile]
    /\ step = [t \in Targets |-> "idle"]
    /\ held = [t \in Targets |-> 0]
    /\ agents = [t \in Targets |-> 0]
    /\ known = [t \in Targets |-> {}]
    /\ hits = [t \in Targets |-> 0]
    /\ swept = {} /\ outlived = {} /\ removed = {}

Up(t) == proc[t] # "down"

Charged(t) ==
    /\ hits[t] < MaxHits[t]
    /\ hits' = [hits EXCEPT ![t] = @ + 1]

\* A fault hits t.
Hit(t) ==
    /\ Charged(t)
    /\ UNCHANGED <<swept, outlived, removed>>

-----------------------------------------------------------------------------
(* The agent process *)

\* The process of t goes from one point to another and keeps its copy.
Move(t, from, to) ==
    /\ proc[t] = from
    /\ proc' = [proc EXCEPT ![t] = to]
    /\ UNCHANGED <<platform, binary, manager, stop, copy, step, held>>

\* It is gone, and its copy with it.
Exit(t) ==
    /\ Up(t)
    /\ proc' = [proc EXCEPT ![t] = "down"]
    /\ copy' = [copy EXCEPT ![t] = 0]
    /\ stop' = stop \ {t}
    /\ UNCHANGED <<platform, binary, manager, config, step, held>>

Exec(t) == proc' = [proc EXCEPT ![t] = "load"]

\* Restart=always, or the recovery actions of the Windows service.  It counts as a
\* fault to restart a service that `uninstall` found stopped and is about to delete.
Restart(t) ==
    /\ t \in managed /\ ~Up(t) /\ binary
    /\ Exec(t)
    /\ IF platform = "windows" /\ step[t] = "remove" THEN Hit(t) ELSE UNCHANGED witness
    /\ UNCHANGED <<platform, binary, manager, stop, copy, config, step, held, server>>

\* `certkit-agent run`, by hand.
Launch(t) ==
    /\ platform = "bare"
    /\ ~Up(t) /\ binary /\ config[t] # NoFile /\ step[t] = "idle"
    /\ Exec(t)
    /\ UNCHANGED <<platform, binary, manager, stop, copy, config, step, held, server, witness>>

\* The config is not looked for before it is read.
Load_Careless(t) ==
    /\ proc[t] = "load"
    /\ proc' = [proc EXCEPT ![t] = IF config[t] = 0 THEN "register" ELSE "first"]
    /\ copy' = [copy EXCEPT ![t] = config[t]]
    /\ UNCHANGED <<platform, binary, manager, stop, config, step, held, server, witness>>

\* A key pair, if one is missing, is written back at once (see SharedConfig).
Load(t) ==
    /\ proc[t] = "load"
    /\ config[t] # NoFile
    /\ proc' = [proc EXCEPT ![t] = IF config[t] = 0 THEN "register" ELSE "first"]
    /\ copy' = [copy EXCEPT ![t] = config[t]]
    /\ UNCHANGED <<platform, binary, manager, stop, config, step, held, server, witness>>

\* The service is given no key to create one with.
LoadMissing(t) ==
    /\ proc[t] = "load"
    /\ config[t] = NoFile
    /\ Exit(t)
    /\ UNCHANGED <<server, witness>>

\* The server's part of a registration.
NewAgent(t) ==
    /\ agents' = [agents EXCEPT ![t] = @ + 1]
    /\ known' = [known EXCEPT ![t] = @ \cup {agents[t] + 1}]

Register(t) ==
    /\ proc[t] = "register"
    /\ NewAgent(t)
    /\ proc' = [proc EXCEPT ![t] = "agent"]
    /\ copy' = [copy EXCEPT ![t] = agents[t] + 1]
    /\ UNCHANGED <<platform, binary, manager, stop, config, step, held, witness>>

\* "agent registration did not complete": the call failed, before the server saw it
\* or after.
RegisterFails(t) ==
    /\ proc[t] = "register"
    /\ Hit(t)
    /\ NewAgent(t) \/ UNCHANGED server
    /\ Exit(t)

\* The id stays in memory.
SaveAgent_Forgotten(t) ==
    /\ Move(t, "agent", "first")
    /\ UNCHANGED <<config, server, witness>>

SaveAgent(t) ==
    /\ Move(t, "agent", "first")
    /\ config' = [config EXCEPT ![t] = copy[t]]
    /\ UNCHANGED <<server, witness>>

\* The error is logged, and the process goes on with the id in memory.
SaveAgentFails(t) ==
    /\ Move(t, "agent", "first")
    /\ Hit(t)
    /\ UNCHANGED <<config, server>>

Authorized(t) == copy[t] \in known[t]

\* Nothing new: a forced pass synchronizes nevertheless.
PollNoContent(t) ==
    /\ Authorized(t)
    /\ Move(t, "first", "sync") \/ Move(t, "poll", "wait")
    /\ UNCHANGED <<config, server, witness>>

PollUpdated(t) ==
    /\ Authorized(t)
    /\ Move(t, "first", "save") \/ Move(t, "poll", "save")
    /\ UNCHANGED <<config, server, witness>>

\* 403, which an agent gets that the server does not know, or an error, which any gets.
PollRefused(t) ==
    /\ Move(t, "first", "wait") \/ Move(t, "poll", "wait")
    /\ UNCHANGED <<config, server, witness>>

\* The whole copy is written, the agent id with it.
SaveConfigurations(t) ==
    /\ Move(t, "save", "sync")
    /\ config' = [config EXCEPT ![t] = copy[t]]
    /\ UNCHANGED <<server, witness>>

SaveFails(t) ==
    /\ Move(t, "save", "wait")
    /\ UNCHANGED <<config, server, witness>>

\* The pass ends; the copy is written once more if a status changed.
Synchronized(t) ==
    /\ Move(t, "sync", "wait")
    /\ config' \in {config, [config EXCEPT ![t] = copy[t]]}
    /\ UNCHANGED <<server, witness>>

Tick(t) ==
    /\ Move(t, "wait", "poll")
    /\ UNCHANGED <<config, server, witness>>

\* The stop channel is looked at between passes only.
HearStop(t) ==
    /\ proc[t] = "wait"
    /\ t \in stop
    /\ Exit(t)
    /\ UNCHANGED <<server, witness>>

\* A crash, or SIGKILL when systemd has waited long enough.
Crash(t) ==
    /\ Hit(t)
    /\ Exit(t)
    /\ UNCHANGED server

\* The signal is delivered to a process that happens to wait for one.
RequestStop_Missed(t) == stop' = IF proc[t] = "wait" THEN stop \cup {t} ELSE stop

\* SIGTERM, SIGINT or the Windows stop control: the channel is closed for good.
RequestStop(t) == stop' = IF Up(t) THEN stop \cup {t} ELSE stop

Interrupt(t) ==
    /\ platform = "bare"
    /\ Up(t)
    /\ RequestStop(t)
    /\ UNCHANGED <<platform, binary, manager, proc, copy, config, step, held, server, witness>>

-----------------------------------------------------------------------------
(* What `install` and `uninstall` share *)

\* The command at t goes from one step to another.
Go(t, from, to) ==
    /\ step[t] = from
    /\ step' = [step EXCEPT ![t] = to]
    /\ UNCHANGED platform

\* log.Fatal in one of these steps, for a reason outside the model.
Fatal(t, steps) ==
    /\ step[t] \in steps
    /\ Hit(t)
    /\ step' = [step EXCEPT ![t] = "idle"]
    /\ held' = [held EXCEPT ![t] = 0]
    /\ UNCHANGED <<platform, binary, manager, agent, config, server>>

\* A command is given for t.
Given(t, first) ==
    /\ Overlap \/ \A u \in Targets : step[u] = "idle"
    /\ Go(t, "idle", first)
    /\ removed' = removed \ {t}
    /\ outlived' = outlived \ {t}
    /\ UNCHANGED swept

\* systemd drops the units whose files are gone; what runs goes on running.
DaemonReload == managed' = managed \cap unit

-----------------------------------------------------------------------------
(* install *)

\* install.sh or install.ps1 puts the program in its place and runs it.
BeginInstall(t) ==
    /\ config[t] = NoFile => agents[t] < MaxAgents
    /\ Given(t, IF config[t] = NoFile THEN "create" ELSE "unit")
    /\ binary' = TRUE
    /\ UNCHANGED hits
    /\ UNCHANGED <<manager, agent, config, held, server>>

CreateConfig(t) ==
    /\ Go(t, "create", "unit")
    /\ config' = [config EXCEPT ![t] = 0]
    /\ UNCHANGED <<binary, manager, agent, held, server, witness>>

\* "systemd not detected; skipping unit install".
NoSystemd(t) ==
    /\ platform = "bare"
    /\ Go(t, "unit", "idle")
    /\ UNCHANGED <<binary, manager, agent, config, held, server, witness>>

WriteUnit(t) ==
    /\ platform = "systemd"
    /\ Go(t, "unit", "load")
    /\ unit' = unit \cup {t}
    /\ UNCHANGED <<binary, managed, agent, config, held, server, witness>>

LoadUnit(t) ==
    /\ Go(t, "load", "enable")
    /\ DaemonReload
    /\ UNCHANGED <<binary, unit, agent, config, held, server, witness>>

\* `systemctl enable --now` waits for a stop under way, and leaves alone what runs.
EnableNow(t) ==
    /\ platform = "systemd"
    /\ t \notin stop
    /\ Go(t, "enable", "idle")
    /\ managed' = managed \cup {t}
    /\ IF Up(t) \/ ~binary THEN UNCHANGED proc ELSE Exec(t)
    /\ UNCHANGED <<binary, unit, stop, copy, config, held, server, witness>>

\* A service that was deleted while its process ran is marked for deletion, and can
\* neither be updated nor created.
Marked(t) == t \notin unit /\ Up(t)

RegisterService(t) ==
    /\ platform = "windows"
    /\ ~Marked(t)
    /\ Go(t, "unit", "enable")
    /\ unit' = unit \cup {t}
    /\ UNCHANGED <<binary, managed, agent, config, held, server, witness>>

RegisterRefused(t) ==
    /\ platform = "windows"
    /\ Marked(t)
    /\ Go(t, "unit", "idle")
    /\ UNCHANGED <<binary, manager, agent, config, held, server, witness>>

\* Nothing to do if it runs; a service that is stopping cannot be started.
StartService(t) ==
    /\ platform = "windows"
    /\ Go(t, "enable", "idle")
    /\ IF Up(t) THEN UNCHANGED <<managed, proc>>
                ELSE managed' = managed \cup {t} /\ Exec(t)
    /\ UNCHANGED <<binary, unit, stop, copy, config, held, server, witness>>

InstallFails(t) == Fatal(t, {"create", "unit", "load", "enable"})

-----------------------------------------------------------------------------
(* uninstall *)

\* Without systemctl nothing is stopped and nothing looks for a process: that somebody left
\* the agent running counts as a fault.
BeginUninstall(t) ==
    /\ binary
    /\ Given(t, IF t \in unit \/ (platform = "windows" /\ Up(t)) THEN "stop" ELSE "read")
    /\ IF platform = "bare" /\ Up(t) THEN Charged(t) ELSE UNCHANGED hits
    /\ UNCHANGED <<binary, manager, agent, config, held, server>>

\* `systemctl stop`.
StopUnit(t) ==
    /\ platform = "systemd"
    /\ Go(t, "stop", "stopping")
    /\ managed' = managed \ {t}
    /\ RequestStop(t)
    /\ UNCHANGED <<binary, unit, proc, copy, config, held, server, witness>>

\* Its error is logged and nothing else.
StopUnitFails(t) ==
    /\ platform = "systemd"
    /\ Go(t, "stop", "remove")
    /\ Hit(t)
    /\ UNCHANGED <<binary, manager, agent, config, held, server>>

\* stopWindowsService: a service found stopped, maybe because it has just failed and
\* is going to be restarted, is sent nothing.
FoundStopped(t) ==
    /\ platform = "windows"
    /\ ~Up(t)
    /\ Go(t, "stop", "remove")
    /\ UNCHANGED <<binary, manager, agent, config, held, server, witness>>

StopService(t) ==
    /\ platform = "windows"
    /\ Up(t) /\ t \notin stop
    /\ Go(t, "stop", "stopping")
    /\ managed' = managed \ {t}
    /\ RequestStop(t)
    /\ UNCHANGED <<binary, unit, proc, copy, config, held, server, witness>>

\* A service that is stopping accepts no control.
StopRefused(t) ==
    /\ platform = "windows"
    /\ t \in stop
    /\ Go(t, "stop", "idle")
    /\ UNCHANGED <<binary, manager, agent, config, held, server, witness>>

Stopped(t) ==
    /\ ~Up(t)
    /\ Go(t, "stopping", "remove")
    /\ UNCHANGED <<binary, manager, agent, config, held, server, witness>>

\* The service is removed although it did not stop.
StopTimesOut_Impatient(t) ==
    /\ platform = "windows"
    /\ Up(t)
    /\ Go(t, "stopping", "remove")
    /\ UNCHANGED <<binary, manager, agent, config, held, server, witness>>

\* "did not stop in time": 30 seconds are over, and the command is.
StopTimesOut(t) ==
    /\ platform = "windows"
    /\ Up(t)
    /\ Go(t, "stopping", "idle")
    /\ UNCHANGED <<binary, manager, agent, config, held, server, witness>>

\* The unit is disabled, and its file stays.
RemoveUnit_Disabled(t) ==
    /\ platform = "systemd"
    /\ Go(t, "remove", "reload")
    /\ UNCHANGED <<binary, manager, agent, config, held, server, witness>>

\* `systemctl disable`, then os.Remove.
RemoveUnit(t) ==
    /\ platform = "systemd"
    /\ Go(t, "remove", "reload")
    /\ unit' = unit \ {t}
    /\ UNCHANGED <<binary, managed, agent, config, held, server, witness>>

UnloadUnit(t) ==
    /\ Go(t, "reload", "read")
    /\ DaemonReload
    /\ UNCHANGED <<binary, unit, agent, config, held, server, witness>>

DeleteService(t) ==
    /\ platform = "windows"
    /\ t \in unit
    /\ Go(t, "remove", "read")
    /\ unit' = unit \ {t}
    /\ managed' = managed \ {t}
    /\ UNCHANGED <<binary, agent, config, held, server, witness>>

\* It is marked for deletion already.
DeleteRefused(t) ==
    /\ platform = "windows"
    /\ t \notin unit
    /\ Go(t, "remove", "idle")
    /\ UNCHANGED <<binary, manager, agent, config, held, server, witness>>

\* unregisterAgent reads the config; without an agent id it makes no call.
ReadConfig(t) ==
    LET id == IF config[t] = NoFile THEN 0 ELSE config[t]
    IN  /\ Go(t, "read", IF id = 0 THEN "erase" ELSE "unregister")
        /\ held' = [held EXCEPT ![t] = id]
        /\ outlived' = IF Up(t) \/ t \in managed THEN outlived \cup {t} ELSE outlived
        /\ UNCHANGED <<binary, manager, agent, config, server, hits, swept, removed>>

Unregister(t) ==
    /\ Go(t, "unregister", "erase")
    /\ known' = [known EXCEPT ![t] = @ \ {held[t]}]
    /\ held' = [held EXCEPT ![t] = 0]
    /\ UNCHANGED <<binary, manager, agent, config, agents, witness>>

\* Logged and nothing else.
UnregisterFails(t) ==
    /\ Go(t, "unregister", "erase")
    /\ Hit(t)
    /\ held' = [held EXCEPT ![t] = 0]
    /\ UNCHANGED <<binary, manager, agent, config, server>>

EraseConfig(t) ==
    /\ Go(t, "erase", "clean")
    /\ config' = [config EXCEPT ![t] = NoFile]
    /\ UNCHANGED <<binary, manager, agent, held, server, witness>>

\* The program is the one of every install of the host.
RemoveBinary(t) ==
    /\ platform # "windows"
    /\ Go(t, "clean", "idle")
    /\ binary' = FALSE
    /\ removed' = removed \cup {t}
    /\ UNCHANGED <<manager, agent, config, held, server, hits, swept, outlived>>

\* os.RemoveAll(ProgramData\CertKit).  A log file that a service has open cannot be
\* removed: the rest is, and the command fails.
RemoveProgramData(t) ==
    /\ platform = "windows"
    /\ Go(t, "clean", "idle")
    /\ config' = [u \in Targets |-> IF u \in Swept THEN NoFile ELSE config[u]]
    /\ swept' = swept \cup {u \in Swept \ {t} : config[u] # NoFile}
    /\ removed' = IF \E u \in Swept : Up(u) THEN removed ELSE removed \cup {t}
    /\ UNCHANGED <<binary, manager, agent, held, server, hits, outlived>>

UninstallFails(t) ==
    \/ Fatal(t, {"remove", "reload", "erase", "clean"})
    \/ platform = "windows" /\ Fatal(t, {"stop"})

\* The command is killed.
CommandDies(t) == Fatal(t, Steps \ {"idle"})

-----------------------------------------------------------------------------

\* Steps of the process that lead it to the end of its pass.
Pass(t) ==
    \/ Load(t) \/ LoadMissing(t)
    \/ Register(t) \/ RegisterFails(t) \/ SaveAgent(t) \/ SaveAgentFails(t)
    \/ PollNoContent(t) \/ PollUpdated(t) \/ PollRefused(t)
    \/ SaveConfigurations(t) \/ SaveFails(t) \/ Synchronized(t)

Process(t) ==
    Pass(t) \/ Restart(t) \/ Launch(t) \/ Tick(t) \/ HearStop(t) \/ Interrupt(t) \/ Crash(t)

Install(t) ==
    \/ BeginInstall(t) \/ CreateConfig(t) \/ NoSystemd(t) \/ WriteUnit(t) \/ LoadUnit(t)
    \/ EnableNow(t) \/ RegisterService(t) \/ RegisterRefused(t) \/ StartService(t)
    \/ InstallFails(t)

Uninstall(t) ==
    \/ BeginUninstall(t) \/ StopUnit(t) \/ StopUnitFails(t)
    \/ FoundStopped(t) \/ StopService(t) \/ StopRefused(t) \/ Stopped(t) \/ StopTimesOut(t)
    \/ RemoveUnit(t) \/ UnloadUnit(t) \/ DeleteService(t) \/ DeleteRefused(t)
    \/ ReadConfig(t) \/ Unregister(t) \/ UnregisterFails(t)
    \/ EraseConfig(t) \/ RemoveBinary(t) \/ RemoveProgramData(t) \/ UninstallFails(t)

Next == \E t \in Targets : Process(t) \/ Install(t) \/ Uninstall(t) \/ CommandDies(t)

Spec == Init /\ [][Next]_vars

\* A pass ends.  Go's select takes one of the channels that are ready at random: when
\* passes last longer than a tick both always are, and the stop is still heard.
FairSpec == Spec /\ \A t \in Targets : WF_vars(Pass(t)) /\ SF_vars(HearStop(t))

-----------------------------------------------------------------------------
(* Properties *)

Optional == Nat \cup {NoFile}

\* Every variable keeps to its type.
TypeOK ==
    /\ platform \in {"systemd", "bare", "windows"}
    /\ binary \in BOOLEAN
    /\ unit \subseteq Targets /\ managed \subseteq Targets /\ stop \subseteq Targets
    /\ proc \in [Targets -> Points]
    /\ copy \in [Targets -> Nat]
    /\ config \in [Targets -> Optional]
    /\ step \in [Targets -> Steps]
    /\ held \in [Targets -> Nat]
    /\ agents \in [Targets -> Nat]
    /\ known \in [Targets -> SUBSET Nat]
    /\ hits \in [Targets -> Nat]
    /\ swept \subseteq Targets /\ outlived \subseteq Targets /\ removed \subseteq Targets

\* The config names an agent the server has forgotten: the service will be answered
\* 403 for ever, and `install` and `register` keep what they find.
Ghost(t) == config[t] \in (1 .. agents[t]) \ known[t]

\* Agents of t that the server knows and nobody on the host does.
Orphans(t) == known[t] \ {config[t], copy[t]}

\* No service, no process, nothing that brings one back, and no config.
Clean(t) == t \notin unit /\ t \notin managed /\ ~Up(t) /\ config[t] = NoFile

\* An uninstall works under a live agent (linux.go:131, 151, windows.go:203) only if some
\* fault hit that target.
StopsFirst == \A t \in outlived : hits[t] > 0

\* An uninstall that completed leaves nothing behind, unless it worked under a live agent,
\* and that lasts until the next command (linux.go:127-185, windows.go:153-186).
UninstallCleansUp == \A t \in removed \ outlived : Clean(t)

\* Each agent that is left behind on the server, and each config that names an agent
\* the server has forgotten, is paid for by a fault of its own, whatever installs,
\* uninstalls and restarts follow (agent.go:44-52, linux.go:162-166).
LossesArePaidFor ==
    \A t \in Targets \ swept :
        Cardinality(Orphans(t)) + (IF Ghost(t) /\ step[t] # "erase" THEN 1 ELSE 0) <= hits[t]

\* A process told to stop ends, however long its passes last and whatever the command
\* that told it does in the meantime (run_common.go:70-78, main_windows.go:172-176).
StopIsHeard == \A t \in Targets : step[t] = "stopping" ~> ~Up(t)

\* "Removes installed agent files for the target install" (CLI-REFERENCE.md:87): a config
\* goes away only while a command is at work on its own install.
UninstallSparesOthers ==
    [][\A t \in Targets : config[t] # NoFile /\ config'[t] = NoFile => step[t] # "idle"]_vars

-----------------------------------------------------------------------------
(* The invariant, target by target *)

Nobody == {"down", "load", "register"}   \* points without an agent id in memory
Tail   == {"remove", "reload", "read", "unregister", "erase", "clean"}
Wiping == {"create", "erase", "clean"}   \* steps before a config is overwritten

\* The ids in use are registered ones, and a config with an id is the one the process read.
IdsMatch(t) ==
    /\ known[t] \subseteq 1 .. agents[t]
    /\ copy[t] <= agents[t]
    /\ config[t] # NoFile => config[t] <= agents[t]
    /\ copy[t] = 0 <=> proc[t] \in Nobody
    /\ copy[t] # 0 => config[t] \in {0, NoFile, copy[t]}
    /\ proc[t] \in {"register", "agent"} => config[t] \in {0, NoFile}

\* What each step of a command may rely on.
StepKnows(t) ==
    /\ held[t] # 0 <=> step[t] = "unregister"
    /\ step[t] \in {"load", "enable"} => t \in unit
    /\ step[t] \in Tail \ {"remove"} => t \notin unit
    /\ step[t] = "stopping" => t \notin managed
    /\ t \in stop => Up(t) /\ t \notin managed
    /\ t \in removed => step[t] = "idle"

\* What each platform rules out.
PlatformKnows(t) ==
    /\ platform # "systemd" => step[t] \notin {"load", "reload"}
    /\ platform = "windows" /\ t \in managed => t \in unit
    /\ platform = "bare" =>
          /\ t \notin unit /\ t \notin managed
          /\ step[t] \notin {"enable", "stop", "stopping", "remove"}

\* Nobody but its own commands takes the config of t.
ConfigKept(t) ==
    /\ t \in unit => config[t] # NoFile
    /\ step[t] \in {"unit", "load", "enable"} => config[t] # NoFile
    /\ step[t] = "create" => t \notin unit
    /\ step[t] = "unregister" => config[t] = held[t]
    /\ proc[t] = "agent" => copy[t] \in known[t]

\* What the uninstall of t has done, unless it worked under a live agent.
CleansUp(t) ==
    /\ step[t] \in {"unregister", "erase", "clean"} => ~Up(t) /\ t \notin managed
    /\ step[t] = "clean" => config[t] = NoFile

\* An agent that runs, or will, where none should: under an uninstall or without a
\* registration.
Astray(t) ==
    /\ \/ step[t] \in Tail
       \/ platform # "bare" /\ t \notin unit
       \/ platform = "bare" /\ (config[t] = NoFile \/ step[t] = "create")
    /\ Up(t) \/ (platform = "systemd" /\ t \in managed)

\* An agent whose id the config does not have, although it was to be saved.
Unsaved(t) == proc[t] # "agent" /\ copy[t] \notin {0, config[t]}

\* An agent that only the config knows of, which is about to be overwritten.
Doomed(t) == step[t] \in Wiping /\ config[t] \in known[t] \ {copy[t]}

\* Sooner or later this costs an agent.
Damaged(t) == Astray(t) \/ Unsaved(t) \/ (Ghost(t) /\ step[t] # "erase")

\* What t has lost and what it is going to lose.
Debts(t) ==
    Cardinality(Orphans(t)) + (IF Doomed(t) THEN 1 ELSE 0) + (IF Damaged(t) THEN 1 ELSE 0)

TargetInv(t) ==
    /\ IdsMatch(t) /\ StepKnows(t) /\ PlatformKnows(t)
    /\ hits[t] = 0 => ~Astray(t)
    /\ t \notin outlived => CleansUp(t)
    /\ t \notin swept => ConfigKept(t) /\ Debts(t) <= hits[t]

\* The invariant that the proofs rest on.
IndInv ==
    /\ TypeOK /\ StopsFirst /\ UninstallCleansUp
    /\ \A t \in Targets : TargetInv(t)
=============================================================================
