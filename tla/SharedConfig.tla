---------------------------- MODULE SharedConfig -----------------------------
(***************************************************************************)
(* config.json and the processes of one host that share it: agents (the    *)
(* service, a daemon in the foreground, `run --once`), `register` and      *)
(* `install`.  Each of them reads the whole file, keeps a copy, changes    *)
(* some of it and writes the whole copy back; nothing locks the file.  One *)
(* read and one write are atomic (see AtomicWrite); whatever happens       *)
(* between two of them is a step of somebody else.                         *)
(***************************************************************************)
EXTENDS Integers, Sequences, FiniteSets

CONSTANTS
    Runs,       \* processes that run the agent
    Once,       \* those of them that are `run --once`
    Services,   \* those of them that an install enables
    Registers,  \* `register` commands
    Installs,   \* `install` commands
    Key,        \* [Processes -> the registration key given to it, or NoKey]
    Name,       \* [Installs -> the service name given to it]
    NoKey,      \* no key, neither as an argument nor in the environment
    NoName,     \* the empty service name
    Default,    \* the default service name
    NoFile,     \* config.json does not exist
    Prepared,   \* TRUE: there may be a file to begin with, without credentials
    WaitsFor,   \* [Processes -> the processes while any of which runs nobody starts it]
    MaxRev,     \* bound on changes of what the server assigns
    MaxFaults   \* bound on failed saves, failed calls and crashes

Processes == Runs \cup Registers \cup Installs

\* What the file holds: bootstrap.registration_key, bootstrap.service_name,
\* agent.agent_id, auth.key_pair and certificate_configurations.  Zero is none.
Keys     == {Key[p] : p \in Processes} \cup {NoKey}
Names    == {Name[i] : i \in Installs} \cup {NoName, Default}
Document == [key : Keys, name : Names, agent : Nat, pair : Nat, configs : Nat]

ASSUME ProcessAssumption ==
    /\ Once \subseteq Runs /\ Services \subseteq Runs \ Once
    /\ Runs \cap Registers = {} /\ Runs \cap Installs = {}
    /\ Registers \cap Installs = {}
ASSUME KeyAssumption   == \A r \in Registers : Key[r] # NoKey
ASSUME NameAssumption  == \A i \in Installs : Name[i] # NoName
ASSUME WaitAssumption  == WaitsFor \in [Processes -> SUBSET Processes]
ASSUME FileAssumption  == NoFile \notin Document
ASSUME LimitAssumption == Prepared \in BOOLEAN /\ MaxRev \in Nat /\ MaxFaults \in Nat

VARIABLES
    file,      \* the contents of config.json, or NoFile
    mem,       \* [Processes -> its copy: config.CurrentConfig]
    pc,        \* [Processes -> where it is]
    enabled,   \* the service is installed
    accounts,  \* the server's agents: accounts[id] is the public key of agent id
    pairs,     \* key pairs generated so far
    assigned,  \* the revision of the configurations the server assigns
    faults     \* faults so far

vars == <<file, mem, pc, enabled, accounts, pairs, assigned, faults>>

\* The last two points are exits, with status 0 and with log.Fatal.
Points == {"off", "create", "load", "keypair", "key", "check", "register", "agent",
           "startup", "poll", "sync", "name", "rename", "enable", "done", "failed"}
Ended  == {"off", "done", "failed"}

\* A file somebody prepared, with api_base alone.
Blank == [key |-> NoKey, name |-> NoName, agent |-> 0, pair |-> 0, configs |-> 0]

Init ==
    /\ \/ file = NoFile
       \/ Prepared /\ file = Blank
    /\ mem = [p \in Processes |-> Blank]
    /\ pc = [p \in Processes |-> "off"]
    /\ enabled = FALSE
    /\ accounts = <<>>
    /\ pairs = 0
    /\ assigned = 0
    /\ faults = 0

\* p goes on at a point with a copy of the file; the copy of a process that has
\* ended is gone.
Goto(p, point, copy) ==
    /\ pc' = [pc EXCEPT ![p] = point]
    /\ mem' = [mem EXCEPT ![p] = IF point \in Ended THEN Blank ELSE copy]

Fault == faults < MaxFaults /\ faults' = faults + 1

-----------------------------------------------------------------------------
(* Starting: the file is created if os.Stat did not find it *)

Opened(p) == IF p \in Installs THEN "name" ELSE "load"

\* systemd and cron start an agent again whenever it is gone; a command is given
\* once.
Start(p) ==
    /\ \/ pc[p] = "off"
       \/ p \in Runs /\ pc[p] \in Ended
    /\ p \in Services => enabled
    /\ \A q \in WaitsFor[p] : pc[q] \in Ended
    /\ Goto(p, IF file = NoFile THEN "create" ELSE Opened(p), Blank)
    /\ UNCHANGED <<file, enabled, accounts, pairs, assigned, faults>>

ServiceName(p) == IF p \in Installs THEN Name[p]
                  ELSE IF p \in Runs THEN Default ELSE NoName

\* The two strings in the wrong order.
CreateInitialConfig_Swapped(p) ==
    /\ pc[p] = "create"
    /\ Key[p] # NoKey
    /\ file' = [Blank EXCEPT !.key = ServiceName(p), !.name = Key[p]]
    /\ Goto(p, Opened(p), Blank)
    /\ UNCHANGED <<enabled, accounts, pairs, assigned, faults>>

CreateInitialConfig(p) ==
    /\ pc[p] = "create"
    /\ Key[p] # NoKey
    /\ file' = [Blank EXCEPT !.key = Key[p], !.name = ServiceName(p)]
    /\ Goto(p, Opened(p), Blank)
    /\ UNCHANGED <<enabled, accounts, pairs, assigned, faults>>

\* "registration key is required for first install".
NoKeyToCreate(p) ==
    /\ pc[p] = "create"
    /\ Key[p] = NoKey
    /\ Goto(p, "failed", Blank)
    /\ UNCHANGED <<file, enabled, accounts, pairs, assigned, faults>>

-----------------------------------------------------------------------------
(* LoadConfig, by an agent and by `register` *)

Loaded(p) == IF p \in Registers THEN "key" ELSE "check"

LoadConfig(p) ==
    /\ pc[p] = "load"
    /\ IF file.pair # 0
       THEN /\ Goto(p, Loaded(p), file)
            /\ UNCHANGED pairs
       ELSE /\ pairs' = pairs + 1
            /\ Goto(p, "keypair", [file EXCEPT !.pair = pairs + 1])
    /\ UNCHANGED <<file, enabled, accounts, assigned, faults>>

\* The key pair, and nothing else, is written.
SaveKeyPair_Alone(p) ==
    /\ pc[p] = "keypair"
    /\ file' = [Blank EXCEPT !.pair = mem[p].pair]
    /\ Goto(p, Loaded(p), mem[p])
    /\ UNCHANGED <<enabled, accounts, pairs, assigned, faults>>

SaveKeyPair(p) ==
    /\ pc[p] = "keypair"
    /\ file' = mem[p]
    /\ Goto(p, Loaded(p), mem[p])
    /\ UNCHANGED <<enabled, accounts, pairs, assigned, faults>>

\* LoadConfig does not look at the error.
SaveKeyPairFails(p) ==
    /\ pc[p] = "keypair"
    /\ Fault
    /\ Goto(p, Loaded(p), mem[p])
    /\ UNCHANGED <<file, enabled, accounts, pairs, assigned>>

\* `register` starts a new file, or respects the key that is there.
SetRegistrationKey_Fresh(p) ==
    /\ pc[p] = "key"
    /\ file' = [Blank EXCEPT !.key = Key[p], !.pair = mem[p].pair]
    /\ Goto(p, "check", file')
    /\ UNCHANGED <<enabled, accounts, pairs, assigned, faults>>

SetRegistrationKey_Polite(p) ==
    /\ pc[p] = "key"
    /\ file' = IF mem[p].key = NoKey THEN [mem[p] EXCEPT !.key = Key[p]] ELSE mem[p]
    /\ Goto(p, "check", file')
    /\ UNCHANGED <<enabled, accounts, pairs, assigned, faults>>

\* doRegister: the new key is saved, registered or not.
SetRegistrationKey(p) ==
    /\ pc[p] = "key"
    /\ file' = [mem[p] EXCEPT !.key = Key[p]]
    /\ Goto(p, "check", file')
    /\ UNCHANGED <<enabled, accounts, pairs, assigned, faults>>

-----------------------------------------------------------------------------
(* Registration *)

Enrolled(p) == IF p \in Registers THEN "done" ELSE "startup"

\* Whoever has a registration key uses it.
NeedsRegistration_Keyed(document) == document.key # NoKey

NeedsRegistration(document) == document.agent = 0

Check(p) ==
    /\ pc[p] = "check"
    /\ Goto(p, IF ~NeedsRegistration(mem[p]) THEN Enrolled(p)
               ELSE IF mem[p].key = NoKey THEN "failed" ELSE "register",
               mem[p])
    /\ UNCHANGED <<file, enabled, accounts, pairs, assigned, faults>>

RegisterAgent(p) ==
    /\ pc[p] = "register"
    /\ accounts' = Append(accounts, mem[p].pair)
    /\ Goto(p, "agent", [mem[p] EXCEPT !.agent = Len(accounts) + 1])
    /\ UNCHANGED <<file, enabled, pairs, assigned, faults>>

\* The call fails before or after the server has made an agent of it.
RegisterAgentFails(p) ==
    /\ pc[p] = "register"
    /\ Fault
    /\ accounts' \in {accounts, Append(accounts, mem[p].pair)}
    /\ Goto(p, "failed", Blank)
    /\ UNCHANGED <<file, enabled, pairs, assigned>>

\* The agent id is put into the file as it is now; or it is only kept in memory.
SaveAgent_Merged(p) ==
    /\ pc[p] = "agent"
    /\ file' = [file EXCEPT !.agent = mem[p].agent]
    /\ Goto(p, Enrolled(p), file')
    /\ UNCHANGED <<enabled, accounts, pairs, assigned, faults>>

SaveAgent_Forgotten(p) ==
    /\ pc[p] = "agent"
    /\ Goto(p, Enrolled(p), mem[p])
    /\ UNCHANGED <<file, enabled, accounts, pairs, assigned, faults>>

SaveAgent(p) ==
    /\ pc[p] = "agent"
    /\ file' = mem[p]
    /\ Goto(p, Enrolled(p), mem[p])
    /\ UNCHANGED <<enabled, accounts, pairs, assigned, faults>>

\* The error is logged, and the copy in memory counts as registered.
SaveAgentFails(p) ==
    /\ pc[p] = "agent"
    /\ Fault
    /\ Goto(p, Enrolled(p), mem[p])
    /\ UNCHANGED <<file, enabled, accounts, pairs, assigned>>

-----------------------------------------------------------------------------
(* PollAndSync, as far as it reads and writes the file *)

Return(p, copy) == Goto(p, IF p \in Once THEN "done" ELSE "poll", copy)

\* Signed with the private key of the copy, for the agent id of the copy.
Accepted(p) == /\ mem[p].agent \in DOMAIN accounts
               /\ accounts[mem[p].agent] = mem[p].pair

PollUpdated(p) ==
    /\ pc[p] \in {"startup", "poll"}
    /\ Accepted(p)
    /\ mem[p].configs # assigned
    /\ file' = [mem[p] EXCEPT !.configs = assigned]
    /\ Goto(p, "sync", file')
    /\ UNCHANGED <<enabled, accounts, pairs, assigned, faults>>

PollUnsaved(p) ==
    /\ pc[p] \in {"startup", "poll"}
    /\ Accepted(p)
    /\ mem[p].configs # assigned
    /\ Fault
    /\ Return(p, [mem[p] EXCEPT !.configs = assigned])
    /\ UNCHANGED <<file, enabled, accounts, pairs, assigned>>

\* 204: the first poll synchronizes all the same, a later one does nothing.
PollNoContent(p) ==
    /\ pc[p] = "startup"
    /\ Accepted(p)
    /\ mem[p].configs = assigned
    /\ Goto(p, "sync", mem[p])
    /\ UNCHANGED <<file, enabled, accounts, pairs, assigned, faults>>

PollFails(p) ==
    /\ pc[p] = "startup"
    /\ Fault
    /\ Return(p, mem[p])
    /\ UNCHANGED <<file, enabled, accounts, pairs, assigned>>

\* The end of SynchronizeCertificates: the file is saved if a status changed, and
\* the pass ends in the same way if that fails.
EndPass(p) ==
    /\ pc[p] = "sync"
    /\ file' \in {file, mem[p]}
    /\ Return(p, mem[p])
    /\ UNCHANGED <<enabled, accounts, pairs, assigned, faults>>

\* A stop signal is looked at between two polls.
Stop(p) ==
    /\ pc[p] = "poll"
    /\ Goto(p, "done", Blank)
    /\ UNCHANGED <<file, enabled, accounts, pairs, assigned, faults>>

-----------------------------------------------------------------------------
(* install *)

\* Any name that is there will do.
ReadServiceName_Polite(p) ==
    /\ pc[p] = "name"
    /\ Goto(p, IF file.name # NoName THEN "enable" ELSE "rename",
               [file EXCEPT !.name = Name[p]])
    /\ UNCHANGED <<file, enabled, accounts, pairs, assigned, faults>>

\* SetBootstrapServiceName reads the file, and returns if the name is there ...
ReadServiceName(p) ==
    /\ pc[p] = "name"
    /\ Goto(p, IF file.name = Name[p] THEN "enable" ELSE "rename",
               [file EXCEPT !.name = Name[p]])
    /\ UNCHANGED <<file, enabled, accounts, pairs, assigned, faults>>

\* ... or writes the whole of what it read, with the name.
SetServiceName(p) ==
    /\ pc[p] = "rename"
    /\ file' = mem[p]
    /\ Goto(p, "enable", Blank)
    /\ UNCHANGED <<enabled, accounts, pairs, assigned, faults>>

\* The unit file, daemon-reload and enable --now; where there is no systemctl,
\* nothing of it.
EnableService(p) ==
    /\ pc[p] = "enable"
    /\ enabled' \in {enabled, TRUE}
    /\ Goto(p, "done", Blank)
    /\ UNCHANGED <<file, accounts, pairs, assigned, faults>>

-----------------------------------------------------------------------------
(* Failures, and the server *)

\* A save, a read or a systemctl call whose error is fatal to the process, or the
\* process is killed.
Die(p) ==
    /\ pc[p] \notin Ended
    /\ Fault
    /\ Goto(p, "failed", Blank)
    /\ UNCHANGED <<file, enabled, accounts, pairs, assigned>>

Assign ==
    /\ assigned < MaxRev
    /\ assigned' = assigned + 1
    /\ UNCHANGED <<file, mem, pc, enabled, accounts, pairs, faults>>

Opening(p)     == Start(p) \/ CreateInitialConfig(p) \/ NoKeyToCreate(p)
Loading(p)     == \/ LoadConfig(p) \/ SaveKeyPair(p) \/ SaveKeyPairFails(p)
                  \/ SetRegistrationKey(p)
Registering(p) == \/ Check(p) \/ RegisterAgent(p) \/ RegisterAgentFails(p)
                  \/ SaveAgent(p) \/ SaveAgentFails(p)
Polling(p)     == \/ PollUpdated(p) \/ PollUnsaved(p) \/ PollNoContent(p)
                  \/ PollFails(p) \/ EndPass(p) \/ Stop(p)
Installing(p)  == ReadServiceName(p) \/ SetServiceName(p) \/ EnableService(p)

Step(p) == Opening(p) \/ Loading(p) \/ Registering(p) \/ Polling(p) \/ Installing(p)

Next == (\E p \in Processes : Step(p) \/ Die(p)) \/ Assign

Spec == Init /\ [][Next]_vars

\* An agent is started again when it is gone and goes on when it runs; a command
\* once begun goes on.
FairSpec == Spec /\ \A p \in Processes :
                        WF_vars((p \in Runs \/ pc[p] # "off") /\ Step(p))

-----------------------------------------------------------------------------
(* Properties *)

TypeOK ==
    /\ file \in Document \cup {NoFile}
    /\ mem \in [Processes -> Document]
    /\ pc \in [Processes -> Points]
    /\ enabled \in BOOLEAN
    /\ accounts \in Seq(Nat)
    /\ pairs \in Nat
    /\ assigned \in Nat
    /\ faults \in Nat

Knows(server, document) ==
    document.agent # 0 => /\ document.agent \in DOMAIN server
                          /\ server[document.agent] = document.pair

\* Whoever overwrites whose changes, and wherever a process fails: an agent id, in
\* the file or in a process, is always beside the very key pair it was registered
\* with (register-agent.go:36), so that what is signed with the one is accepted
\* for the other (config-poller.go:74-79).
CredentialsMatch ==
    /\ file # NoFile => Knows(accounts, file)
    /\ \A p \in Processes : Knows(accounts, mem[p])

\* Processes do not overlap.
Exclusive == \A p \in Processes : WaitsFor[p] = Processes

\* One host is one agent: when processes do not overlap, every agent the server
\* has beyond the first was paid for with a failure, such as a lost answer to
\* the registration or a save that failed after it (agent.go:44-55).
RegistrationsArePaidFor == Exclusive => Len(accounts) <= 1 + faults

\* When processes do not overlap, an agent id that was saved is there for good.
StaysRegistered ==
    [][Exclusive /\ file # NoFile /\ file.agent # 0
          => file' # NoFile /\ file'.agent = file.agent]_vars

\* A `register` that reports success has left its key in the file for good
\* (cli_common.go:36): CLI-REFERENCE.md:151 "Writes/updates registration key in
\* config".
KeySticks ==
    (\E r \in Registers : pc[r] = "done")
        => file # NoFile /\ file.key \in {Key[r] : r \in Registers}

\* And an `install` its service name (install/linux.go:62), by which `validate`
\* finds the service again (cli_common.go:75).
NameSticks ==
    (\E i \in Installs : pc[i] = "done")
        => file # NoFile /\ file.name \in {Name[i] : i \in Installs}

\* The file has neither an agent id nor a key to register with: an agent that reads it
\* exits at once (run_common.go:42-44).
Stranded == file # NoFile /\ NeedsRegistration(file) /\ file.key = NoKey

\* A service that is installed on a host where `register` has succeeded comes up, and
\* comes up again whenever it went down, however the processes overlap, if the file was
\* made by one of them.  If the file was prepared without a key, there is one exception:
\* somebody who read it before `register` wrote to it may write that copy back
\* (config.go:122-123, config.go:182), and then the host stays without id and key.
ServiceComesUp ==
    \A s \in Services :
        LET due == (\E r \in Registers : pc[r] = "done") /\ enabled
            up  == pc[s] \in {"startup", "poll", "sync"}
        IN  /\ file = NoFile => (due ~> up)
            /\ due ~> (up \/ []Stranded)

-----------------------------------------------------------------------------
(* The inductive invariant behind the safety properties *)

\* The points where a process has a copy of the file that it may write back.
Holding == {"keypair", "key", "check", "register", "agent", "startup", "poll", "sync"}

\* Who is at a point that only some processes come to.
Places ==
    \A p \in Processes :
        /\ pc[p] \in {"name", "rename", "enable"} => p \in Installs
        /\ pc[p] \in Holding \cup {"load"} => p \notin Installs
        /\ pc[p] = "key" => p \in Registers
        /\ pc[p] \in {"startup", "poll", "sync"} => p \in Runs

\* Whoever got beyond creating the file finds one.
Present == \A p \in Processes : pc[p] \notin Ended \cup {"create"} => file # NoFile

\* A copy has a key pair as soon as it may be written back, and so nothing is
\* registered without one: LoadConfig never replaces the pair of an agent.
Paired ==
    /\ \A p \in Processes : pc[p] \in Holding => mem[p].pair # 0
    /\ \A id \in DOMAIN accounts : accounts[id] # 0

HasAgent == file # NoFile /\ file.agent # 0

OneRuns ==
    \A p, q \in Processes : p # q => pc[p] \in Ended \/ pc[q] \in Ended

\* Nobody changed the file since p read it: it has what the copy has, and an
\* agent id only if the copy has it.
CopyIsFile(p) ==
    /\ pc[p] = "create" => file = NoFile
    /\ pc[p] \in Holding => mem[p].key = file.key /\ mem[p].name = file.name
    /\ pc[p] \in Holding /\ HasAgent => mem[p].agent = file.agent
    /\ pc[p] = "rename" => mem[p] = [file EXCEPT !.name = Name[p]]
    /\ pc[p] = "enable" => file.name = Name[p]
    /\ pc[p] = "register" => mem[p].agent = 0
    /\ pc[p] = "agent" => mem[p].agent # 0
    /\ pc[p] \in {"check", "register", "agent"} /\ p \in Registers
           => mem[p].key = Key[p]

\* A registration that did not get into the file has been paid for.
Paid ==
    Len(accounts) <= faults + (IF HasAgent \/ \E p \in Processes : pc[p] = "agent"
                               THEN 1 ELSE 0)

Undisturbed ==
    /\ OneRuns
    /\ \A p \in Processes : CopyIsFile(p)
    /\ Paid
    /\ KeySticks
    /\ NameSticks

IndInv ==
    /\ TypeOK
    /\ Places
    /\ Present
    /\ Paired
    /\ CredentialsMatch
    /\ Exclusive => Undisturbed
=============================================================================
