------------------------- MODULE SharedConfigProofs --------------------------
(***************************************************************************)
(* What the processes of a host keep of config.json, whatever their        *)
(* number, the order of their reads and writes, and the number of faults.  *)
(***************************************************************************)
EXTENDS SharedConfig, TLAPS

\* The part of the invariant that holds when processes overlap.
Base == TypeOK /\ Places /\ Present /\ Paired /\ CredentialsMatch

\* An empty file is a file, with a key and a name it still is.
LEMMA BlankIsDocument ==
    /\ Blank \in Document
    /\ \A k \in Keys, n \in Names :
           /\ [Blank EXCEPT !.key = k, !.name = n] \in Document
           /\ [Blank EXCEPT !.key = k, !.name = n].agent = 0
           /\ [Blank EXCEPT !.key = k, !.name = n].key = k
           /\ [Blank EXCEPT !.key = k, !.name = n].name = n
BY DEF Blank, Document, Keys, Names

\* What a process is given is a key, and a name.
LEMMA Given ==
    ASSUME NEW p \in Processes
    PROVE  Key[p] \in Keys /\ ServiceName(p) \in Names
BY DEF Keys, Names, ServiceName

\* A change of one field gives a file again and leaves the other fields alone.
LEMMA Change ==
    ASSUME NEW d \in Document
    PROVE  /\ \A k \in Keys : LET c == [d EXCEPT !.key = k] IN
                  /\ c \in Document /\ c.key = k /\ c.name = d.name
                  /\ c.agent = d.agent /\ c.pair = d.pair /\ c.configs = d.configs
           /\ \A n \in Names : LET c == [d EXCEPT !.name = n] IN
                  /\ c \in Document /\ c.key = d.key /\ c.name = n
                  /\ c.agent = d.agent /\ c.pair = d.pair /\ c.configs = d.configs
           /\ \A a \in Nat : LET c == [d EXCEPT !.agent = a] IN
                  /\ c \in Document /\ c.key = d.key /\ c.name = d.name
                  /\ c.agent = a /\ c.pair = d.pair /\ c.configs = d.configs
           /\ \A a \in Nat : LET c == [d EXCEPT !.pair = a] IN
                  /\ c \in Document /\ c.key = d.key /\ c.name = d.name
                  /\ c.agent = d.agent /\ c.pair = a /\ c.configs = d.configs
           /\ \A a \in Nat : LET c == [d EXCEPT !.configs = a] IN
                  /\ c \in Document /\ c.key = d.key /\ c.name = d.name
                  /\ c.agent = d.agent /\ c.pair = d.pair /\ c.configs = a
BY DEF Document

\* A step of p to a point, with a copy of the file.
LEMMA GotoMoves ==
    ASSUME TypeOK, NEW p \in Processes, NEW point \in Points, NEW copy \in Document,
           Goto(p, point, copy)
    PROVE  /\ pc' \in [Processes -> Points] /\ mem' \in [Processes -> Document]
           /\ pc'[p] = point
           /\ point \in Ended => mem'[p] = Blank
           /\ point \notin Ended => mem'[p] = copy
           /\ \A q \in Processes : q # p => pc'[q] = pc[q] /\ mem'[q] = mem[q]
BY BlankIsDocument DEF TypeOK, Goto

\* What the server may have learnt in a step: nothing, or an agent with a key pair.
Learns(pair) == accounts' \in {accounts, Append(accounts, pair)}

\* An agent the server knew, it still knows.
LEMMA ServerRemembers ==
    ASSUME TypeOK, NEW pair \in Nat, Learns(pair)
    PROVE  /\ accounts' \in Seq(Nat)
           /\ \A id \in DOMAIN accounts : id \in DOMAIN accounts' /\ accounts'[id] = accounts[id]
           /\ \A d \in Document : Knows(accounts, d) => Knows(accounts', d)
           /\ pair # 0 /\ (\A id \in DOMAIN accounts : accounts[id] # 0)
                  => \A id \in DOMAIN accounts' : accounts'[id] # 0
<1>1. /\ accounts' \in Seq(Nat)
      /\ \A id \in DOMAIN accounts : id \in DOMAIN accounts' /\ accounts'[id] = accounts[id]
      /\ \A id \in DOMAIN accounts' : id \in DOMAIN accounts \/ accounts'[id] = pair
    <2>1. CASE accounts' = accounts
        BY <2>1 DEF TypeOK
    <2>2. CASE accounts' = Append(accounts, pair)
        BY <2>2 DEF TypeOK
    <2> QED
        BY <2>1, <2>2 DEF Learns
<1>2. \A d \in Document : Knows(accounts, d) => Knows(accounts', d)
    BY <1>1 DEF Knows
<1> QED
    BY <1>1, <1>2

\* When a step of p keeps Base.
LEMMA StepKeepsBase ==
    ASSUME Base, NEW p \in Processes, NEW point \in Points, NEW copy \in Document,
           NEW pair \in Nat, Goto(p, point, copy), Learns(pair),
           pair # 0 \/ accounts' = accounts,
           file' \in Document \/ file' = file,
           point \notin Ended \cup {"create"} => file' # NoFile,
           file' # NoFile => Knows(accounts', file'),
           Knows(accounts', copy),
           point \in Holding => copy.pair # 0,
           point \in {"name", "rename", "enable"} => p \in Installs,
           point \in Holding \cup {"load"} => p \notin Installs,
           point = "key" => p \in Registers,
           point \in {"startup", "poll", "sync"} => p \in Runs,
           enabled' \in BOOLEAN, pairs' \in Nat, assigned' \in Nat, faults' \in Nat
    PROVE  Base'
<1>1. /\ pc' \in [Processes -> Points] /\ mem' \in [Processes -> Document]
      /\ pc'[p] = point
      /\ point \in Ended => mem'[p] = Blank
      /\ point \notin Ended => mem'[p] = copy
      /\ \A q \in Processes : q # p => pc'[q] = pc[q] /\ mem'[q] = mem[q]
    BY GotoMoves DEF Base
<1>2. /\ accounts' \in Seq(Nat)
      /\ \A d \in Document : Knows(accounts, d) => Knows(accounts', d)
      /\ \A id \in DOMAIN accounts' : accounts'[id] # 0
    <2>1. CASE pair # 0
        BY <2>1, ServerRemembers DEF Base, Paired
    <2>2. CASE accounts' = accounts
        BY <2>2 DEF Base, Paired, TypeOK, Knows
    <2> QED
        BY <2>1, <2>2
<1>3. TypeOK'
    BY <1>1, <1>2 DEF Base, TypeOK
<1>4. Places'
    BY <1>1 DEF Base, Places
<1>5. file # NoFile => file' # NoFile
    BY FileAssumption DEF Base, TypeOK
<1>6. Present'
    BY <1>1, <1>5 DEF Base, Present
<1>7. Holding \cap Ended = {}
    BY DEF Holding, Ended
<1>8. Paired'
    BY <1>1, <1>2, <1>7 DEF Base, Paired
<1>9. CredentialsMatch'
    <2>1. Knows(accounts', mem'[p])
        BY <1>1 DEF Knows, Blank
    <2>2. ASSUME NEW q \in Processes, q # p PROVE Knows(accounts', mem'[q])
        <3>1. Knows(accounts, mem[q]) /\ mem[q] \in Document /\ mem'[q] = mem[q]
            BY <1>1, <2>2 DEF Base, TypeOK, CredentialsMatch
        <3> QED
            BY <1>2, <3>1 DEF Knows
    <2> QED
        BY <2>1, <2>2 DEF CredentialsMatch
<1> QED
    BY <1>3, <1>4, <1>6, <1>8, <1>9 DEF Base

\* Whether the server knows an agent depends on its id and its key pair alone.
LEMMA SameAgent ==
    ASSUME NEW d \in Document, NEW c \in Document,
           c.agent = d.agent, c.pair = d.pair, Knows(accounts, d)
    PROVE  Knows(accounts, c)
BY DEF Knows

\* A file or a copy without an agent id claims nothing.
LEMMA NoAgent == ASSUME NEW d, d.agent = 0 PROVE Knows(accounts, d) /\ Knows(accounts', d)
BY DEF Knows

\* When a step of p that leaves the server alone keeps Base: the server knows the
\* file and the copy it leaves.
LEMMA QuietStepKeepsBase ==
    ASSUME Base, NEW p \in Processes, NEW point \in Points, NEW copy \in Document,
           Goto(p, point, copy), accounts' = accounts, Knows(accounts, copy),
           file' = file \/ (file' \in Document /\ Knows(accounts, file')),
           point \notin Ended \cup {"create"} => file' # NoFile,
           point \in Holding => copy.pair # 0,
           point \in {"name", "rename", "enable"} => p \in Installs,
           point \in Holding \cup {"load"} => p \notin Installs,
           point = "key" => p \in Registers,
           point \in {"startup", "poll", "sync"} => p \in Runs,
           enabled' \in BOOLEAN, pairs' \in Nat, assigned' \in Nat, faults' \in Nat
    PROVE  Base'
<1>1. (file' # NoFile => Knows(accounts', file')) /\ Knows(accounts', copy)
    BY DEF Base, CredentialsMatch, Knows
<1>2. Learns(0)
    BY DEF Learns
<1> QED
    BY <1>1, <1>2, StepKeepsBase

\* What Base says of one process.
LEMMA BaseOf ==
    ASSUME Base, NEW p \in Processes
    PROVE  /\ mem[p] \in Document /\ Knows(accounts, mem[p])
           /\ pc[p] \in Holding => mem[p].pair # 0
           /\ pc[p] \notin Ended \cup {"create"} => file \in Document /\ file # NoFile
           /\ pc[p] \in Holding \cup {"load"} => p \notin Installs
           /\ pc[p] \in {"startup", "poll", "sync"} => p \in Runs
           /\ pc[p] \in {"name", "rename", "enable"} => p \in Installs
BY DEF Base, TypeOK, CredentialsMatch, Paired, Present, Places

\* Opening the file, or creating it.
LEMMA OpeningKeepsBase ==
    ASSUME Base, NEW p \in Processes, Opening(p) PROVE Base'
<1> USE DEF Points
<1>1. Blank \in Document /\ Knows(accounts, Blank)
    BY BlankIsDocument DEF Knows, Blank
<1>2. CASE Start(p)
    <2> DEFINE point == IF file = NoFile THEN "create" ELSE Opened(p)
    <2>1. /\ point \in {"create", "name", "load"} /\ (point # "create" => file # NoFile)
          /\ (point = "name" => p \in Installs) /\ (point = "load" => p \notin Installs)
        BY DEF Opened
    <2>2. /\ Goto(p, point, Blank)
          /\ UNCHANGED <<file, enabled, accounts, pairs, assigned, faults>>
        BY <1>2 DEF Start
    <2> HIDE DEF point
    <2> QED
        BY <1>1, <2>1, <2>2, QuietStepKeepsBase DEF Base, TypeOK, Ended, Holding
<1>3. CASE CreateInitialConfig(p)
    <2>1. file' \in Document /\ file'.agent = 0
        BY <1>3, Given, BlankIsDocument DEF CreateInitialConfig
    <2>2. Knows(accounts, file')
        BY <2>1 DEF Knows
    <2>3. Goto(p, Opened(p), Blank) /\ UNCHANGED <<enabled, accounts, pairs, assigned, faults>>
        BY <1>3 DEF CreateInitialConfig
    <2> QED
        BY <1>1, <2>1, <2>2, <2>3, FileAssumption, QuietStepKeepsBase
           DEF Opened, Base, TypeOK, Ended, Holding
<1>4. CASE NoKeyToCreate(p)
    BY <1>1, <1>4, QuietStepKeepsBase DEF NoKeyToCreate, Base, TypeOK, Ended, Holding
<1> QED
    BY <1>2, <1>3, <1>4 DEF Opening

\* Loading the file.
LEMMA LoadingKeepsBase ==
    ASSUME Base, NEW p \in Processes, Loading(p) PROVE Base'
<1> USE DEF Points
<1>1. /\ pc[p] \in {"load", "keypair", "key"} /\ p \notin Installs
      /\ mem[p] \in Document /\ Knows(accounts, mem[p])
      /\ (pc[p] \in {"keypair", "key"} => mem[p].pair # 0)
      /\ file \in Document /\ file # NoFile
    <2>1. pc[p] \in {"load", "keypair", "key"}
        BY DEF Loading, LoadConfig, SaveKeyPair, SaveKeyPairFails, SetRegistrationKey
    <2> QED
        BY <2>1, BaseOf DEF Holding, Ended
<1>2. Loaded(p) \in {"key", "check"} /\ (Loaded(p) = "key" => p \in Registers)
    BY DEF Loaded
<1>3. CASE LoadConfig(p)
    <2>1. file \in Document /\ file # NoFile /\ Knows(accounts, file)
        BY <1>1 DEF Base, CredentialsMatch
    <2>2. CASE file.pair # 0
        <3> DEFINE point == Loaded(p)
        <3>1. Goto(p, point, file) /\ UNCHANGED <<file, pairs, enabled, accounts, assigned, faults>>
            BY <1>3, <2>2 DEF LoadConfig
        <3>2. /\ enabled' \in BOOLEAN /\ pairs' \in Nat /\ assigned' \in Nat /\ faults' \in Nat
            BY <3>1 DEF Base, TypeOK
        <3>3. /\ point \in Points
              /\ file' = file \/ (file' \in Document /\ Knows(accounts, file'))
              /\ point \notin Ended \cup {"create"} => file' # NoFile
              /\ point \in Holding => file.pair # 0
              /\ point \in {"name", "rename", "enable"} => p \in Installs
              /\ point \in Holding \cup {"load"} => p \notin Installs
              /\ point = "key" => p \in Registers
              /\ point \in {"startup", "poll", "sync"} => p \in Runs
            BY <1>1, <1>2, <2>1, <2>2, <3>1
        <3> HIDE DEF point
        <3>4. accounts' = accounts
            BY <3>1
        <3> QED
            BY <2>1, <3>1, <3>2, <3>3, <3>4, QuietStepKeepsBase, Zenon
    <2>3. CASE file.pair = 0
        <3> DEFINE copy == [file EXCEPT !.pair = pairs + 1]
        <3>1. copy \in Document /\ copy.pair # 0 /\ copy.agent = file.agent
            <4>1. pairs + 1 \in Nat /\ pairs + 1 # 0
                BY DEF Base, TypeOK
            <4>2. copy \in Document /\ copy.pair = pairs + 1 /\ copy.agent = file.agent
                BY <2>1, <4>1, Change
            <4> QED
                BY <4>1, <4>2
        <3>2. file.agent = 0
            BY <2>1, <2>3 DEF Knows, Base, Paired
        <3>3. Knows(accounts, copy)
            BY <3>1, <3>2, NoAgent
        <3>4. /\ Goto(p, "keypair", copy) /\ pairs' = pairs + 1
              /\ UNCHANGED <<file, enabled, accounts, assigned, faults>>
            BY <1>3, <2>3 DEF LoadConfig
        <3> HIDE DEF copy
        <3> QED
            BY <1>1, <2>1, <3>1, <3>3, <3>4, QuietStepKeepsBase
               DEF Base, TypeOK, Ended, Holding
    <2> QED
        BY <2>2, <2>3
<1>4. CASE SaveKeyPair(p)
    BY <1>1, <1>2, <1>4, FileAssumption, QuietStepKeepsBase
       DEF SaveKeyPair, Base, TypeOK, Ended, Holding
<1>5. CASE SaveKeyPairFails(p)
    BY <1>1, <1>2, <1>5, QuietStepKeepsBase
       DEF SaveKeyPairFails, Fault, Base, TypeOK, Ended, Holding
<1>6. CASE SetRegistrationKey(p)
    <2> DEFINE copy == [mem[p] EXCEPT !.key = Key[p]]
    <2>1. copy \in Document /\ copy.pair = mem[p].pair /\ copy.agent = mem[p].agent
        BY <1>1, Given, Change
    <2>2. Knows(accounts, copy)
        BY <1>1, <2>1, SameAgent
    <2>3. /\ file' = copy /\ Goto(p, "check", copy)
          /\ UNCHANGED <<enabled, accounts, pairs, assigned, faults>>
          /\ mem[p].pair # 0
        BY <1>1, <1>6 DEF SetRegistrationKey
    <2> QED
        BY <1>1, <2>1, <2>2, <2>3, FileAssumption, QuietStepKeepsBase
           DEF Base, TypeOK, Ended, Holding
<1> QED
    BY <1>3, <1>4, <1>5, <1>6 DEF Loading

\* Registering.
LEMMA RegisteringKeepsBase ==
    ASSUME Base, NEW p \in Processes, Registering(p) PROVE Base'
<1> USE DEF Points
<1>1. pc[p] \in {"check", "register", "agent"}
    BY DEF Registering, Check, RegisterAgent, RegisterAgentFails, SaveAgent, SaveAgentFails
<1>2. /\ p \notin Installs /\ mem[p] \in Document /\ Knows(accounts, mem[p])
      /\ mem[p].pair # 0 /\ mem[p].pair \in Nat /\ mem[p].agent \in Nat
      /\ file \in Document /\ file # NoFile
    BY <1>1, BaseOf DEF Holding, Ended, Document
<1>3. /\ Enrolled(p) \in {"done", "startup"} /\ (Enrolled(p) = "startup" => p \in Runs)
    BY <1>2 DEF Enrolled, Processes
<1>4. CASE Check(p)
    BY <1>2, <1>3, <1>4, QuietStepKeepsBase
       DEF Check, Base, TypeOK, Ended, Holding
<1>5. CASE RegisterAgent(p)
    <2> DEFINE copy == [mem[p] EXCEPT !.agent = Len(accounts) + 1]
    <2>1. /\ copy \in Document /\ copy.pair = mem[p].pair /\ copy.agent = Len(accounts) + 1
          /\ Len(accounts) \in Nat
        <3>1. Len(accounts) \in Nat /\ Len(accounts) + 1 \in Nat
            BY DEF Base, TypeOK
        <3>2. copy \in Document /\ copy.pair = mem[p].pair /\ copy.agent = Len(accounts) + 1
            <4>1. mem[p] \in Document
                BY <1>2
            <4> QED
                BY <3>1, <4>1 DEF Document
        <3> QED
            BY <3>1, <3>2
    <2>2. /\ accounts' = Append(accounts, mem[p].pair) /\ Goto(p, "agent", copy)
          /\ UNCHANGED <<file, enabled, pairs, assigned, faults>>
        BY <1>5 DEF RegisterAgent
    <2> HIDE DEF copy
    <2>3. Knows(accounts', copy)
        <3>1. /\ Len(accounts) + 1 \in DOMAIN accounts'
              /\ accounts'[Len(accounts) + 1] = mem[p].pair
            BY <1>2, <2>2 DEF Base, TypeOK
        <3> QED
            BY <2>1, <3>1 DEF Knows
    <2>4. Learns(mem[p].pair)
        BY <2>2 DEF Learns
    <2>5. file' # NoFile => Knows(accounts', file')
        BY <1>2, <2>2, <2>4, ServerRemembers DEF Base, CredentialsMatch, Knows
    <2> QED
        BY <1>2, <2>1, <2>2, <2>3, <2>4, <2>5, StepKeepsBase
           DEF Base, TypeOK, Ended, Holding
<1>6. CASE RegisterAgentFails(p)
    <2>1. /\ Learns(mem[p].pair) /\ Goto(p, "failed", Blank) /\ faults' \in Nat
          /\ UNCHANGED <<file, enabled, pairs, assigned>>
        BY <1>6 DEF RegisterAgentFails, Learns, Fault, Base, TypeOK
    <2>2. file' # NoFile => Knows(accounts', file')
        BY <1>2, <2>1, ServerRemembers DEF Base, CredentialsMatch, Knows
    <2>3. Blank \in Document /\ Knows(accounts', Blank)
        BY BlankIsDocument DEF Knows, Blank
    <2> QED
        BY <1>2, <2>1, <2>2, <2>3, StepKeepsBase
           DEF Base, TypeOK, Ended, Holding
<1>7. CASE SaveAgent(p)
    BY <1>2, <1>3, <1>7, FileAssumption, QuietStepKeepsBase
       DEF SaveAgent, Base, TypeOK, Ended, Holding
<1>8. CASE SaveAgentFails(p)
    BY <1>2, <1>3, <1>8, QuietStepKeepsBase
       DEF SaveAgentFails, Fault, Base, TypeOK, Ended, Holding
<1> QED
    BY <1>4, <1>5, <1>6, <1>7, <1>8 DEF Registering

\* Polling and synchronizing.
LEMMA PollingKeepsBase ==
    ASSUME Base, NEW p \in Processes, Polling(p) PROVE Base'
<1> USE DEF Points, Return
<1>1. pc[p] \in {"startup", "poll", "sync"}
    BY DEF Polling, PollUpdated, PollUnsaved, PollNoContent, PollFails, EndPass, Stop
<1>2. /\ p \in Runs /\ p \notin Installs /\ mem[p] \in Document /\ Knows(accounts, mem[p])
      /\ mem[p].pair # 0 /\ file \in Document /\ file # NoFile
    BY <1>1, BaseOf DEF Holding, Ended
<1> DEFINE copy == [mem[p] EXCEPT !.configs = assigned]
<1>3. copy \in Document /\ copy.pair = mem[p].pair /\ copy.agent = mem[p].agent
    BY <1>2, Change DEF Base, TypeOK
<1>4. Knows(accounts, copy) /\ copy.pair # 0
    BY <1>2, <1>3, SameAgent
<1>5. CASE PollUpdated(p)
    <2>1. /\ file' = copy /\ Goto(p, "sync", copy)
          /\ UNCHANGED <<enabled, accounts, pairs, assigned, faults>>
        BY <1>5 DEF PollUpdated
    <2> HIDE DEF copy
    <2> QED
        BY <1>2, <1>3, <1>4, <2>1, FileAssumption, QuietStepKeepsBase
           DEF Base, TypeOK, Ended, Holding
<1>6. CASE PollUnsaved(p)
    <2>1. /\ Return(p, copy) /\ Fault /\ UNCHANGED <<file, enabled, accounts, pairs, assigned>>
        BY <1>6 DEF PollUnsaved
    <2> HIDE DEF copy
    <2> QED
        BY <1>2, <1>3, <1>4, <2>1, QuietStepKeepsBase
           DEF Fault, Base, TypeOK, Ended, Holding
<1>7. CASE PollNoContent(p)
    BY <1>2, <1>7, QuietStepKeepsBase
       DEF PollNoContent, Base, TypeOK, Ended, Holding
<1>8. CASE PollFails(p)
    BY <1>2, <1>8, QuietStepKeepsBase
       DEF PollFails, Fault, Base, TypeOK, Ended, Holding
<1>9. CASE EndPass(p)
    BY <1>2, <1>9, FileAssumption, QuietStepKeepsBase
       DEF EndPass, Base, TypeOK, Ended, Holding
<1>10. CASE Stop(p)
    <2>1. Blank \in Document /\ Knows(accounts, Blank)
        BY BlankIsDocument DEF Knows, Blank
    <2> QED
        BY <1>2, <1>10, <2>1, QuietStepKeepsBase
           DEF Stop, Base, TypeOK, Ended, Holding
<1> QED
    BY <1>5, <1>6, <1>7, <1>8, <1>9, <1>10 DEF Polling

\* Installing.
LEMMA InstallingKeepsBase ==
    ASSUME Base, NEW p \in Processes, Installing(p) PROVE Base'
<1> USE DEF Points
<1>1. pc[p] \in {"name", "rename", "enable"}
    BY DEF Installing, ReadServiceName, SetServiceName, EnableService
<1>2. /\ p \in Installs /\ mem[p] \in Document /\ Knows(accounts, mem[p])
      /\ file \in Document /\ file # NoFile /\ Knows(accounts, file)
    BY <1>1, BaseOf DEF Ended, Base, CredentialsMatch
<1>3. Blank \in Document /\ Knows(accounts, Blank)
    BY BlankIsDocument DEF Knows, Blank
<1>4. CASE ReadServiceName(p)
    <2> DEFINE copy == [file EXCEPT !.name = Name[p]]
    <2>1. copy \in Document /\ copy.pair = file.pair /\ copy.agent = file.agent
        BY <1>2, Change DEF Names
    <2>2. Knows(accounts, copy)
        BY <1>2, <2>1, SameAgent
    <2>3. PICK point \in {"enable", "rename"} :
              /\ Goto(p, point, copy)
              /\ UNCHANGED <<file, enabled, accounts, pairs, assigned, faults>>
        BY <1>4 DEF ReadServiceName
    <2> HIDE DEF copy
    <2> QED
        BY <1>2, <2>1, <2>2, <2>3, QuietStepKeepsBase
           DEF Base, TypeOK, Ended, Holding
<1>5. CASE SetServiceName(p)
    BY <1>2, <1>3, <1>5, FileAssumption, QuietStepKeepsBase
       DEF SetServiceName, Base, TypeOK, Ended, Holding
<1>6. CASE EnableService(p)
    BY <1>2, <1>3, <1>6, QuietStepKeepsBase
       DEF EnableService, Base, TypeOK, Ended, Holding
<1> QED
    BY <1>4, <1>5, <1>6 DEF Installing

\* Base is inductive.
LEMMA BaseInit == Init => Base
<1> SUFFICES ASSUME Init PROVE Base
    OBVIOUS
<1>1. TypeOK
    <2>1. file \in Document \cup {NoFile} /\ mem \in [Processes -> Document]
        BY BlankIsDocument DEF Init
    <2>2. pc \in [Processes -> Points]
        BY DEF Init, Points
    <2>3. accounts \in Seq(Nat)
        BY DEF Init
    <2> QED
        BY <2>1, <2>2, <2>3 DEF Init, TypeOK
<1>2. Places /\ Present /\ Paired /\ CredentialsMatch
    BY DEF Init, Places, Present, Paired, CredentialsMatch, Knows, Blank, Ended, Holding
<1> QED
    BY <1>1, <1>2 DEF Base

\* Every step of any process keeps what overlapping processes cannot break.
LEMMA BaseStep == Base /\ [Next]_vars => Base'
<1> SUFFICES ASSUME Base, [Next]_vars PROVE Base'
    OBVIOUS
<1>1. ASSUME NEW p \in Processes, Step(p) PROVE Base'
    BY <1>1, OpeningKeepsBase, LoadingKeepsBase, RegisteringKeepsBase, PollingKeepsBase,
       InstallingKeepsBase DEF Step
<1>2. ASSUME NEW p \in Processes, Die(p) PROVE Base'
    <2>1. Blank \in Document /\ Knows(accounts, Blank)
        BY BlankIsDocument DEF Knows, Blank
    <2> QED
        BY <1>2, <2>1, QuietStepKeepsBase
           DEF Die, Fault, Points, Base, TypeOK, Ended, Holding
<1>3. CASE Assign
    BY <1>3 DEF Assign, Base, TypeOK, Places, Present, Paired, CredentialsMatch, Knows
<1>4. CASE UNCHANGED vars
    BY <1>4 DEF vars, Base, TypeOK, Places, Present, Paired, CredentialsMatch, Knows
<1> QED
    BY <1>1, <1>2, <1>3, <1>4 DEF Next

-----------------------------------------------------------------------------
(* When processes do not overlap *)

Idle(p) == \A q \in Processes : q # p => pc[q] \in Ended

\* The process that moves is the only one.
LEMMA Alone ==
    ASSUME Exclusive, OneRuns, NEW p \in Processes, Start(p) \/ pc[p] \notin Ended
    PROVE  Idle(p)
BY DEF Exclusive, OneRuns, Start, Idle

\* The file keeps its key and its name, but for a `register` and an `install`, and
\* it keeps its agent.
Keeps(p) ==
    file # NoFile =>
        /\ file' # NoFile
        /\ file'.key = file.key \/ (p \in Registers /\ file'.key = Key[p])
        /\ file'.name = file.name \/ (p \in Installs /\ file'.name = Name[p])
        /\ HasAgent => file'.agent = file.agent

\* When a step of p, that is the only one to run, leaves the others alone.
LEMMA StepKeepsUndisturbed ==
    ASSUME Base, Undisturbed, NEW p \in Processes, Idle(p),
           NEW point \in Points, NEW copy \in Document, Goto(p, point, copy),
           CopyIsFile(p)', Keeps(p),
           point = "done" /\ p \in Registers => file' # NoFile /\ file'.key = Key[p],
           point = "done" /\ p \in Installs => file' # NoFile /\ file'.name = Name[p],
           faults' \in Nat, Len(accounts') \in Nat,
           \/ /\ Len(accounts') - Len(accounts) <= faults' - faults
              /\ HasAgent \/ pc[p] = "agent" => HasAgent'
           \/ Len(accounts') = Len(accounts) /\ faults' = faults + 1
           \/ /\ Len(accounts') = Len(accounts) + 1 /\ faults' = faults
              /\ ~HasAgent /\ pc[p] # "agent" /\ point = "agent"
    PROVE  Undisturbed'
<1>1. /\ pc'[p] = point
      /\ \A q \in Processes : q # p => pc'[q] = pc[q] /\ mem'[q] = mem[q]
    BY GotoMoves DEF Base
<1>2. OneRuns'
    BY <1>1 DEF OneRuns, Idle
<1>3. ASSUME NEW q \in Processes PROVE CopyIsFile(q)'
    <2>1. CASE q = p
        BY <2>1
    <2>2. CASE q # p
        BY <1>1, <2>2 DEF Idle, Ended, Holding, CopyIsFile
    <2> QED
        BY <2>1, <2>2
<1>4. Paid'
    <2>1. (\E q \in Processes : pc[q] = "agent") <=> pc[p] = "agent"
        BY DEF Idle, Ended
    <2>2. (\E q \in Processes : pc'[q] = "agent") <=> point = "agent"
        BY <1>1 DEF Idle, Ended
    <2>3. Len(accounts) \in Nat /\ faults \in Nat
        BY DEF Base, TypeOK
    <2>4. Len(accounts) <= faults + (IF HasAgent \/ pc[p] = "agent" THEN 1 ELSE 0)
        BY <2>1 DEF Undisturbed, Paid
    <2>5. Len(accounts') <= faults' + (IF HasAgent' \/ point = "agent" THEN 1 ELSE 0)
        BY <2>3, <2>4
    <2> QED
        BY <2>2, <2>5 DEF Paid
<1>5. KeySticks'
    <2>1. SUFFICES ASSUME NEW r \in Registers, pc'[r] = "done"
                   PROVE  file' # NoFile /\ file'.key \in {Key[q] : q \in Registers}
        BY DEF KeySticks
    <2>2. r \in Processes
        BY DEF Processes
    <2>3. CASE r = p
        BY <1>1, <2>1, <2>3
    <2>4. CASE r # p
        <3>1. file # NoFile /\ file.key \in {Key[q] : q \in Registers}
            BY <1>1, <2>1, <2>2, <2>4 DEF Undisturbed, KeySticks
        <3> QED
            BY <3>1 DEF Keeps
    <2> QED
        BY <2>3, <2>4
<1>6. NameSticks'
    <2>1. SUFFICES ASSUME NEW r \in Installs, pc'[r] = "done"
                   PROVE  file' # NoFile /\ file'.name \in {Name[q] : q \in Installs}
        BY DEF NameSticks
    <2>2. r \in Processes
        BY DEF Processes
    <2>3. CASE r = p
        BY <1>1, <2>1, <2>3
    <2>4. CASE r # p
        <3>1. file # NoFile /\ file.name \in {Name[q] : q \in Installs}
            BY <1>1, <2>1, <2>2, <2>4 DEF Undisturbed, NameSticks
        <3> QED
            BY <3>1 DEF Keeps
    <2> QED
        BY <2>3, <2>4
<1> QED
    BY <1>2, <1>3, <1>4, <1>5, <1>6 DEF Undisturbed

\* Opening the file, or creating it.
LEMMA OpeningKeepsUndisturbed ==
    ASSUME Exclusive, Base, Undisturbed, NEW p \in Processes, Opening(p)
    PROVE  Undisturbed' /\ Keeps(p)
<1> USE DEF Points
<1>1. Idle(p)
    BY Alone DEF Opening, CreateInitialConfig, NoKeyToCreate, Ended, Undisturbed
<1>2. Blank \in Document
    BY BlankIsDocument
<1>3. pc[p] # "agent" /\ Len(accounts) \in Nat
    BY DEF Opening, Start, CreateInitialConfig, NoKeyToCreate, Ended, Base, TypeOK
<1>4. CASE Start(p)
    <2> DEFINE point == IF file = NoFile THEN "create" ELSE Opened(p)
    <2>1. /\ point \in {"create", "name", "load"} /\ (point = "create" => file = NoFile)
        BY DEF Opened
    <2>2. /\ Goto(p, point, Blank)
          /\ UNCHANGED <<file, enabled, accounts, pairs, assigned, faults>>
        BY <1>4 DEF Start
    <2> HIDE DEF point
    <2>3. pc'[p] = point /\ mem'[p] = Blank
        BY <1>2, <2>1, <2>2, GotoMoves DEF Base, Ended
    <2>4. CopyIsFile(p)'
        BY <2>1, <2>2, <2>3 DEF CopyIsFile, Holding
    <2>5. Keeps(p)
        BY <2>2 DEF Keeps, HasAgent
    <2> QED
        BY <1>1, <1>2, <1>3, <2>1, <2>2, <2>4, <2>5, StepKeepsUndisturbed
           DEF HasAgent, Base, TypeOK
<1>5. CASE CreateInitialConfig(p)
    <2>1. file = NoFile
        BY <1>5 DEF CreateInitialConfig, Undisturbed, CopyIsFile
    <2>2. /\ Opened(p) \in {"name", "load"} /\ Goto(p, Opened(p), Blank)
          /\ UNCHANGED <<enabled, accounts, pairs, assigned, faults>>
        BY <1>5 DEF CreateInitialConfig, Opened
    <2>3. pc'[p] = Opened(p) /\ mem'[p] = Blank
        BY <1>2, <2>2, GotoMoves DEF Base, Ended
    <2>4. CopyIsFile(p)'
        BY <2>2, <2>3 DEF CopyIsFile, Holding
    <2>5. Keeps(p)
        BY <2>1 DEF Keeps
    <2> QED
        BY <1>1, <1>2, <1>3, <2>1, <2>2, <2>4, <2>5, StepKeepsUndisturbed
           DEF HasAgent, Base, TypeOK
<1>6. CASE NoKeyToCreate(p)
    <2>1. /\ Goto(p, "failed", Blank)
          /\ UNCHANGED <<file, enabled, accounts, pairs, assigned, faults>>
        BY <1>6 DEF NoKeyToCreate
    <2>2. pc'[p] = "failed"
        BY <1>2, <2>1, GotoMoves DEF Base
    <2>3. CopyIsFile(p)'
        BY <2>2 DEF CopyIsFile, Holding
    <2>4. Keeps(p)
        BY <2>1 DEF Keeps, HasAgent
    <2> QED
        BY <1>1, <1>2, <1>3, <2>1, <2>3, <2>4, StepKeepsUndisturbed
           DEF HasAgent, Base, TypeOK
<1> QED
    BY <1>4, <1>5, <1>6 DEF Opening

\* A step between reading the file and the end of the process, that writes its copy
\* or nothing.
LEMMA SavingKeepsUndisturbed ==
    ASSUME Base, Undisturbed, NEW p \in Processes, Idle(p), p \notin Installs,
           file \in Document, file # NoFile,
           NEW point \in {"keypair", "key", "check", "register", "startup", "poll", "sync",
                          "done", "failed"},
           NEW copy \in Document, Goto(p, point, copy), accounts' = accounts,
           faults' \in {faults, faults + 1},
           pc[p] = "agent" => HasAgent' \/ faults' = faults + 1,
           file' \in Document, copy.key = file'.key, copy.name = file'.name,
           file'.name = file.name,
           file'.key = file.key \/ (p \in Registers /\ file'.key = Key[p]),
           HasAgent => file'.agent = file.agent, HasAgent' => copy.agent = file'.agent,
           point = "register" => copy.agent = 0,
           point \in {"check", "register", "done"} /\ p \in Registers => copy.key = Key[p]
    PROVE  Undisturbed' /\ Keeps(p)
<1>1. pc'[p] = point /\ (point \notin Ended => mem'[p] = copy)
    BY GotoMoves DEF Base, Points
<1>2. CopyIsFile(p)'
    BY <1>1 DEF CopyIsFile, Holding, Ended
<1>3. file' # NoFile /\ Keeps(p)
    BY FileAssumption DEF Keeps
<1>4. HasAgent => HasAgent'
    BY <1>3 DEF HasAgent
<1>5. faults \in Nat /\ Len(accounts) \in Nat
    BY DEF Base, TypeOK
<1>6. Len(accounts') = Len(accounts) /\ Len(accounts') \in Nat
    BY <1>5
<1>7. point \in Points
    BY DEF Points
<1>8. CASE faults' = faults
    <2>1. Len(accounts') - Len(accounts) <= faults' - faults
        BY <1>5, <1>6, <1>8
    <2>2. faults' \in Nat /\ (HasAgent \/ pc[p] = "agent" => HasAgent')
        BY <1>4, <1>5, <1>8
    <2> QED
        BY <1>2, <1>3, <1>6, <1>7, <2>1, <2>2, StepKeepsUndisturbed
<1>9. CASE faults' = faults + 1
    <2>1. faults' \in Nat
        BY <1>5, <1>9
    <2> QED
        BY <1>2, <1>3, <1>6, <1>7, <1>9, <2>1, StepKeepsUndisturbed
<1> QED
    BY <1>8, <1>9

\* Loading the file.
LEMMA LoadingKeepsUndisturbed ==
    ASSUME Exclusive, Base, Undisturbed, NEW p \in Processes, Loading(p)
    PROVE  Undisturbed' /\ Keeps(p)
<1> USE DEF Points
<1>1. pc[p] \in {"load", "keypair", "key"}
    BY DEF Loading, LoadConfig, SaveKeyPair, SaveKeyPairFails, SetRegistrationKey
<1>2. Idle(p) /\ CopyIsFile(p) /\ Len(accounts) \in Nat /\ faults \in Nat
    BY <1>1, Alone DEF Undisturbed, Ended, Base, TypeOK
<1>3. /\ mem[p] \in Document /\ file \in Document /\ file # NoFile
      /\ pc[p] # "agent" /\ p \notin Installs
    BY <1>1, BaseOf DEF Ended, Holding
<1>4. Loaded(p) \in {"key", "check"} /\ (Loaded(p) = "check" => p \notin Registers)
    BY DEF Loaded
<1>5. CASE LoadConfig(p)
    <2>1. PICK point \in {"keypair", "key", "check"}, copy \in Document :
              /\ Goto(p, point, copy) /\ UNCHANGED <<file, accounts, faults>>
              /\ copy.key = file.key /\ copy.name = file.name /\ copy.agent = file.agent
              /\ (point = "check" => p \notin Registers)
        <3>1. CASE file.pair # 0
            BY <1>3, <1>4, <1>5, <3>1 DEF LoadConfig
        <3>2. CASE file.pair = 0
            <4>1. pairs + 1 \in Nat
                BY DEF Base, TypeOK
            <4>2. PICK copy \in Document :
                      /\ copy = [file EXCEPT !.pair = pairs + 1]
                      /\ copy.key = file.key /\ copy.name = file.name /\ copy.agent = file.agent
                BY <1>3, <4>1, Change
            <4> QED
                BY <1>5, <3>2, <4>2 DEF LoadConfig
        <3> QED
            BY <3>1, <3>2
    <2> QED
        BY <1>2, <1>3, <2>1, SavingKeepsUndisturbed
<1>6. CASE SaveKeyPair(p)
    BY <1>2, <1>3, <1>4, <1>6, SavingKeepsUndisturbed
       DEF SaveKeyPair, CopyIsFile, Holding, HasAgent
<1>7. CASE SaveKeyPairFails(p)
    BY <1>2, <1>3, <1>4, <1>7, SavingKeepsUndisturbed
       DEF SaveKeyPairFails, Fault, CopyIsFile, Holding, HasAgent
<1>8. CASE SetRegistrationKey(p)
    <2>1. PICK copy \in Document :
              /\ copy = [mem[p] EXCEPT !.key = Key[p]]
              /\ copy.key = Key[p] /\ copy.name = mem[p].name /\ copy.agent = mem[p].agent
        <3>1. Key[p] \in Keys
            BY Given
        <3>2. LET c == [mem[p] EXCEPT !.key = Key[p]] IN
                  c \in Document /\ c.key = Key[p] /\ c.name = mem[p].name
                  /\ c.agent = mem[p].agent
            BY <1>3, <3>1, Change
        <3> QED
            BY <3>2
    <2>2. /\ file' = copy /\ Goto(p, "check", copy) /\ UNCHANGED <<accounts, faults>>
          /\ pc[p] = "key"
        BY <1>8, <2>1 DEF SetRegistrationKey
    <2>3. p \in Registers
        BY <2>2 DEF Base, Places
    <2>4. /\ copy.name = file.name
          /\ HasAgent => copy.agent = file.agent
        BY <1>2, <2>1, <2>2 DEF CopyIsFile, Holding
    <2> QED
        BY <1>2, <1>3, <2>1, <2>2, <2>3, <2>4, SavingKeepsUndisturbed
<1> QED
    BY <1>5, <1>6, <1>7, <1>8 DEF Loading

\* Registering.
LEMMA RegisteringKeepsUndisturbed ==
    ASSUME Exclusive, Base, Undisturbed, NEW p \in Processes, Registering(p)
    PROVE  Undisturbed' /\ Keeps(p)
<1>1. pc[p] \in {"check", "register", "agent"}
    BY DEF Registering, Check, RegisterAgent, RegisterAgentFails, SaveAgent, SaveAgentFails
<1>2. /\ mem[p] \in Document /\ mem[p].agent \in Nat
      /\ file \in Document /\ file # NoFile /\ p \notin Installs
      /\ faults \in Nat /\ Len(accounts) \in Nat
    <2>1. /\ mem[p] \in Document /\ file \in Document /\ file # NoFile /\ p \notin Installs
        BY <1>1, BaseOf DEF Ended, Holding
    <2>2. mem[p].agent \in Nat
        BY <2>1 DEF Document
    <2>3. faults \in Nat /\ Len(accounts) \in Nat
        BY DEF Base, TypeOK
    <2> QED
        BY <2>1, <2>2, <2>3
<1>3. Idle(p) /\ CopyIsFile(p)
    BY <1>1, Alone DEF Undisturbed, Ended
<1>4. /\ mem[p].key = file.key /\ mem[p].name = file.name
      /\ (HasAgent => mem[p].agent = file.agent)
      /\ (p \in Registers => mem[p].key = Key[p])
    BY <1>1, <1>3 DEF CopyIsFile, Holding
<1>5. Enrolled(p) \in {"done", "startup"}
    BY DEF Enrolled
<1>6. CASE Check(p)
    <2>1. PICK point \in {"done", "startup", "failed", "register"} :
              /\ Goto(p, point, mem[p]) /\ UNCHANGED <<file, accounts, faults>>
              /\ (point = "register" => mem[p].agent = 0)
        BY <1>5, <1>6 DEF Check, NeedsRegistration
    <2>2. pc[p] # "agent"
        BY <1>6 DEF Check
    <2> QED
        BY <1>2, <1>3, <1>4, <2>1, <2>2, SavingKeepsUndisturbed DEF HasAgent
<1>7. CASE RegisterAgent(p)
    <2>1. Len(accounts) + 1 \in Nat /\ Len(accounts) + 1 # 0
        BY <1>2
    <2>2. PICK copy \in Document :
              /\ copy = [mem[p] EXCEPT !.agent = Len(accounts) + 1]
              /\ copy.agent # 0 /\ copy.key = mem[p].key /\ copy.name = mem[p].name
        <3>1. LET c == [mem[p] EXCEPT !.agent = Len(accounts) + 1] IN
                  c \in Document /\ c.agent # 0 /\ c.key = mem[p].key /\ c.name = mem[p].name
            <4>1. mem[p] \in Document
                BY <1>2
            <4> QED
                BY <2>1, <4>1, Change
        <3> QED
            BY <3>1
    <2>3. /\ accounts' = Append(accounts, mem[p].pair) /\ UNCHANGED <<file, faults>>
          /\ pc[p] = "register" /\ Goto(p, "agent", copy) /\ "agent" \in Points
        BY <1>7, <2>2 DEF RegisterAgent, Points
    <2>4. ~HasAgent /\ ~HasAgent'
        BY <1>3, <1>4, <2>3 DEF HasAgent, CopyIsFile
    <2>5. pc'[p] = "agent" /\ mem'[p] = copy
        BY <2>3, GotoMoves DEF Base, Ended
    <2>6. CopyIsFile(p)'
        BY <1>4, <2>2, <2>3, <2>4, <2>5 DEF CopyIsFile, Holding
    <2>7. Keeps(p)
        BY <2>3 DEF Keeps
    <2>8. Len(accounts') = Len(accounts) + 1
        BY <2>3 DEF Base, TypeOK
    <2> QED
        BY <1>2, <1>3, <2>1, <2>3, <2>4, <2>6, <2>7, <2>8, StepKeepsUndisturbed
<1>8. CASE RegisterAgentFails(p)
    <2>1. /\ Goto(p, "failed", Blank) /\ faults' = faults + 1 /\ file' = file
          /\ accounts' \in {accounts, Append(accounts, mem[p].pair)}
          /\ pc[p] # "agent" /\ Blank \in Document /\ "failed" \in Points
        BY <1>8, BlankIsDocument DEF RegisterAgentFails, Fault, Points
    <2>2. Len(accounts') - Len(accounts) <= faults' - faults /\ Len(accounts') \in Nat
        <3>1. Len(accounts') = Len(accounts) \/ Len(accounts') = Len(accounts) + 1
            BY <2>1 DEF Base, TypeOK
        <3> QED
            BY <1>2, <2>1, <3>1
    <2>3. CopyIsFile(p)'
        <3>1. pc'[p] = "failed"
            BY <2>1, GotoMoves DEF Base
        <3> QED
            BY <3>1 DEF CopyIsFile, Holding
    <2>4. Keeps(p) /\ (HasAgent => HasAgent')
        BY <2>1 DEF Keeps, HasAgent
    <2>5. faults' \in Nat
        BY <1>2, <2>1
    <2> QED
        BY <1>3, <2>1, <2>2, <2>3, <2>4, <2>5, StepKeepsUndisturbed
<1>9. CASE SaveAgent(p)
    <2>1. /\ Goto(p, Enrolled(p), mem[p]) /\ file' = mem[p] /\ UNCHANGED <<accounts, faults>>
          /\ mem[p].agent # 0
        BY <1>3, <1>9 DEF SaveAgent, CopyIsFile
    <2>2. HasAgent'
        BY <1>2, <2>1, FileAssumption DEF HasAgent
    <2> QED
        BY <1>2, <1>3, <1>4, <1>5, <2>1, <2>2, SavingKeepsUndisturbed
<1>10. CASE SaveAgentFails(p)
    <2>1. /\ Goto(p, Enrolled(p), mem[p]) /\ UNCHANGED <<file, accounts>> /\ faults' = faults + 1
        BY <1>10 DEF SaveAgentFails, Fault
    <2> QED
        BY <1>2, <1>3, <1>4, <1>5, <2>1, SavingKeepsUndisturbed DEF HasAgent
<1> QED
    BY <1>6, <1>7, <1>8, <1>9, <1>10 DEF Registering

\* Polling and synchronizing.
LEMMA PollingKeepsUndisturbed ==
    ASSUME Exclusive, Base, Undisturbed, NEW p \in Processes, Polling(p)
    PROVE  Undisturbed' /\ Keeps(p)
<1> USE DEF Return
<1>1. pc[p] \in {"startup", "poll", "sync"}
    BY DEF Polling, PollUpdated, PollUnsaved, PollNoContent, PollFails, EndPass, Stop
<1>2. /\ mem[p] \in Document /\ file \in Document /\ file # NoFile
      /\ p \in Runs /\ p \notin Registers /\ p \notin Installs /\ pc[p] # "agent"
    BY <1>1, BaseOf, ProcessAssumption DEF Ended, Holding
<1>3. Idle(p) /\ CopyIsFile(p)
    BY <1>1, Alone DEF Undisturbed, Ended
<1>4. /\ mem[p].key = file.key /\ mem[p].name = file.name
      /\ (HasAgent => mem[p].agent = file.agent)
    BY <1>1, <1>3 DEF CopyIsFile, Holding
<1>5. PICK copy \in Document :
          /\ copy = [mem[p] EXCEPT !.configs = assigned]
          /\ copy.key = mem[p].key /\ copy.name = mem[p].name /\ copy.agent = mem[p].agent
    <2>1. assigned \in Nat
        BY DEF Base, TypeOK
    <2>2. LET c == [mem[p] EXCEPT !.configs = assigned] IN
              /\ c \in Document /\ c.key = mem[p].key /\ c.name = mem[p].name
              /\ c.agent = mem[p].agent
        BY <1>2, <2>1, Change
    <2> QED
        BY <2>2
<1>6. CASE PollUpdated(p)
    <2>1. file' = copy /\ Goto(p, "sync", copy) /\ UNCHANGED <<accounts, faults>>
        BY <1>5, <1>6 DEF PollUpdated
    <2> QED
        BY <1>2, <1>3, <1>4, <1>5, <2>1, SavingKeepsUndisturbed DEF HasAgent
<1>7. CASE PollUnsaved(p)
    <2>1. Return(p, copy) /\ UNCHANGED <<file, accounts>> /\ faults' = faults + 1
        BY <1>5, <1>7 DEF PollUnsaved, Fault
    <2> QED
        BY <1>2, <1>3, <1>4, <1>5, <2>1, SavingKeepsUndisturbed DEF HasAgent
<1>8. CASE PollNoContent(p)
    BY <1>2, <1>3, <1>4, <1>8, SavingKeepsUndisturbed DEF PollNoContent, HasAgent
<1>9. CASE PollFails(p)
    BY <1>2, <1>3, <1>4, <1>9, SavingKeepsUndisturbed DEF PollFails, Fault, HasAgent
<1>10. CASE EndPass(p)
    BY <1>2, <1>3, <1>4, <1>10, SavingKeepsUndisturbed DEF EndPass, HasAgent
<1>11. CASE Stop(p)
    <2>1. Goto(p, "done", mem[p]) /\ UNCHANGED <<file, accounts, faults>>
        BY <1>11 DEF Stop, Goto, Ended
    <2> QED
        BY <1>2, <1>3, <1>4, <2>1, SavingKeepsUndisturbed DEF HasAgent
<1> QED
    BY <1>6, <1>7, <1>8, <1>9, <1>10, <1>11 DEF Polling

\* Installing.
LEMMA InstallingKeepsUndisturbed ==
    ASSUME Exclusive, Base, Undisturbed, NEW p \in Processes, Installing(p)
    PROVE  Undisturbed' /\ Keeps(p)
<1> USE DEF Points
<1>1. pc[p] \in {"name", "rename", "enable"}
    BY DEF Installing, ReadServiceName, SetServiceName, EnableService
<1>2. /\ mem[p] \in Document /\ file \in Document /\ file # NoFile
      /\ p \in Installs /\ p \notin Registers /\ pc[p] # "agent"
    BY <1>1, BaseOf, ProcessAssumption DEF Ended
<1>3. Idle(p) /\ CopyIsFile(p)
    BY <1>1, Alone DEF Undisturbed, Ended
<1>4. Len(accounts) \in Nat /\ faults \in Nat /\ Blank \in Document
    <2>1. Len(accounts) \in Nat /\ faults \in Nat
        BY DEF Base, TypeOK
    <2> QED
        BY <2>1, BlankIsDocument
<1>5. Len(accounts) - Len(accounts) <= faults - faults
    BY <1>4
<1>6. PICK copy \in Document :
          /\ copy = [file EXCEPT !.name = Name[p]]
          /\ copy.key = file.key /\ copy.name = Name[p] /\ copy.agent = file.agent
    <2>1. Name[p] \in Names
        BY <1>2 DEF Names
    <2>2. LET c == [file EXCEPT !.name = Name[p]] IN
              /\ c \in Document /\ c.key = file.key /\ c.name = Name[p]
              /\ c.agent = file.agent
        BY <1>2, <2>1, Change
    <2> QED
        BY <2>2
<1>7. CASE ReadServiceName(p)
    <2>1. PICK point \in {"enable", "rename"} :
              /\ Goto(p, point, copy) /\ UNCHANGED <<file, accounts, faults>>
              /\ (point = "enable" => file.name = Name[p])
        BY <1>6, <1>7 DEF ReadServiceName
    <2>2. pc'[p] = point /\ mem'[p] = copy
        BY <2>1, GotoMoves DEF Base, Ended
    <2>3. CopyIsFile(p)'
        BY <1>6, <2>1, <2>2 DEF CopyIsFile, Holding
    <2>4. Keeps(p) /\ (HasAgent => HasAgent')
        BY <2>1 DEF Keeps, HasAgent
    <2> QED
        BY <1>2, <1>3, <1>4, <1>5, <2>1, <2>3, <2>4, StepKeepsUndisturbed
<1>8. CASE SetServiceName(p)
    <2>1. /\ file' = copy /\ Goto(p, "enable", Blank) /\ UNCHANGED <<accounts, faults>>
        BY <1>3, <1>6, <1>8 DEF SetServiceName, CopyIsFile
    <2>2. pc'[p] = "enable" /\ mem'[p] = Blank
        BY <1>4, <2>1, GotoMoves DEF Base, Ended
    <2>3. CopyIsFile(p)'
        BY <1>6, <2>1, <2>2 DEF CopyIsFile, Holding
    <2>4. Keeps(p) /\ (HasAgent => HasAgent')
        BY <1>2, <1>6, <2>1, FileAssumption DEF Keeps, HasAgent
    <2> QED
        BY <1>2, <1>3, <1>4, <1>5, <2>1, <2>3, <2>4, StepKeepsUndisturbed
<1>9. CASE EnableService(p)
    <2>1. /\ Goto(p, "done", Blank) /\ UNCHANGED <<file, accounts, faults>>
          /\ file.name = Name[p]
        BY <1>3, <1>9 DEF EnableService, CopyIsFile
    <2>2. pc'[p] = "done"
        BY <1>4, <2>1, GotoMoves DEF Base
    <2>3. CopyIsFile(p)'
        BY <2>2 DEF CopyIsFile, Holding
    <2>4. Keeps(p) /\ (HasAgent => HasAgent')
        BY <2>1 DEF Keeps, HasAgent
    <2> QED
        BY <1>2, <1>3, <1>4, <1>5, <2>1, <2>3, <2>4, StepKeepsUndisturbed
<1> QED
    BY <1>7, <1>8, <1>9 DEF Installing

\* A process that dies.
LEMMA DyingKeepsUndisturbed ==
    ASSUME Exclusive, Base, Undisturbed, NEW p \in Processes, Die(p)
    PROVE  Undisturbed' /\ Keeps(p)
<1>1. /\ Goto(p, "failed", Blank) /\ UNCHANGED <<file, accounts>> /\ faults' = faults + 1
      /\ Blank \in Document /\ "failed" \in Points
    BY BlankIsDocument DEF Die, Fault, Points
<1>2. Idle(p)
    BY Alone DEF Die, Undisturbed
<1>3. CopyIsFile(p)'
    <2>1. pc'[p] = "failed"
        BY <1>1, GotoMoves DEF Base
    <2> QED
        BY <2>1 DEF CopyIsFile, Holding
<1>4. Keeps(p)
    BY <1>1 DEF Keeps, HasAgent
<1>5. faults' \in Nat /\ Len(accounts') \in Nat
    BY <1>1 DEF Base, TypeOK
<1> QED
    BY <1>1, <1>2, <1>3, <1>4, <1>5, StepKeepsUndisturbed

\* Undisturbed is inductive where processes do not overlap, and the file keeps its
\* agent.
LEMMA UndisturbedInit == Init => Undisturbed
<1> SUFFICES ASSUME Init PROVE Undisturbed
    OBVIOUS
<1>1. OneRuns /\ (\A p \in Processes : CopyIsFile(p))
    BY DEF Init, OneRuns, CopyIsFile, Ended, Holding
<1>2. Paid
    BY DEF Init, Paid, HasAgent, Blank
<1>3. KeySticks /\ NameSticks
    BY DEF Init, KeySticks, NameSticks, Processes
<1> QED
    BY <1>1, <1>2, <1>3 DEF Undisturbed

\* If processes exclude each other, the copy of the one that runs stays the file.
LEMMA UndisturbedStep ==
    ASSUME Exclusive, Base, Undisturbed, [Next]_vars
    PROVE  /\ Undisturbed'
           /\ HasAgent => file' # NoFile /\ file'.agent = file.agent
<1>1. ASSUME NEW p \in Processes, Step(p) \/ Die(p) PROVE Undisturbed' /\ Keeps(p)
    BY <1>1, OpeningKeepsUndisturbed, LoadingKeepsUndisturbed, RegisteringKeepsUndisturbed,
       PollingKeepsUndisturbed, InstallingKeepsUndisturbed, DyingKeepsUndisturbed DEF Step
<1>2. ASSUME NEW p \in Processes, Keeps(p)
      PROVE  HasAgent => file' # NoFile /\ file'.agent = file.agent
    BY <1>2 DEF Keeps, HasAgent
<1>3. CASE Assign \/ UNCHANGED vars
    <2>1. UNCHANGED <<file, mem, pc, accounts, faults>>
        BY <1>3 DEF Assign, vars
    <2>2. OneRuns' /\ (\A p \in Processes : CopyIsFile(p)')
        BY <2>1 DEF Undisturbed, OneRuns, CopyIsFile, HasAgent
    <2>3. Paid'
        BY <2>1 DEF Undisturbed, Paid, HasAgent
    <2>4. KeySticks' /\ NameSticks'
        BY <2>1 DEF Undisturbed, KeySticks, NameSticks
    <2> QED
        BY <2>1, <2>2, <2>3, <2>4 DEF Undisturbed, HasAgent
<1> QED
    BY <1>1, <1>2, <1>3 DEF Next

-----------------------------------------------------------------------------
(* The theorems *)

\* IndInv is an invariant: the part that holds however processes overlap, and the
\* part that needs them not to.
THEOREM Invariance == Spec => []IndInv
<1>1. Init => IndInv
    BY BaseInit, UndisturbedInit DEF Base, IndInv
<1>2. IndInv /\ [Next]_vars => IndInv'
    <2>1. SUFFICES ASSUME IndInv, [Next]_vars PROVE IndInv'
        OBVIOUS
    <2>2. Base /\ Base'
        BY <2>1, BaseStep DEF Base, IndInv
    <2>3. Exclusive => Undisturbed'
        BY <2>1, <2>2, UndisturbedStep DEF IndInv
    <2> QED
        BY <2>2, <2>3 DEF Base, IndInv, Exclusive
<1> QED
    BY <1>1, <1>2, PTL DEF Spec

\* Every file and every copy of it is of the form config.Config describes.
THEOREM TypeCorrect == Spec => []TypeOK
<1>1. IndInv => TypeOK
    BY DEF IndInv
<1> QED
    BY <1>1, Invariance, PTL

\* However processes overlap and wherever they fail, an agent id is beside the key
\* pair it was registered with (config.go:176-183, agent.go:50-55).
THEOREM CredentialsAlwaysMatch == Spec => []CredentialsMatch
<1>1. IndInv => CredentialsMatch
    BY DEF IndInv
<1> QED
    BY <1>1, Invariance, PTL

\* One host is one agent, but for what faults cost (agent.go:44-55).
THEOREM OneHostOneAgent == Spec => []RegistrationsArePaidFor
<1>1. IndInv => RegistrationsArePaidFor
    <2>1. SUFFICES ASSUME IndInv, Exclusive PROVE Len(accounts) <= 1 + faults
        BY DEF RegistrationsArePaidFor
    <2>2. Len(accounts) \in Nat /\ faults \in Nat
        BY <2>1 DEF IndInv, TypeOK
    <2> QED
        BY <2>1, <2>2 DEF IndInv, Undisturbed, Paid
<1> QED
    BY <1>1, Invariance, PTL

\* What is registered stays so, when processes do not overlap.
THEOREM RegistrationLasts == Spec => StaysRegistered
<1>1. IndInv /\ [Next]_vars
          => [Exclusive /\ file # NoFile /\ file.agent # 0
                 => file' # NoFile /\ file'.agent = file.agent]_vars
    BY UndisturbedStep DEF IndInv, Base, HasAgent
<1> QED
    BY <1>1, Invariance, PTL DEF Spec, StaysRegistered

\* When processes do not overlap, the key a `register` left is there for good
\* (cli_common.go:31-39) ...
THEOREM RegistrationKeysStick == ASSUME Exclusive PROVE Spec => []KeySticks
<1>1. IndInv => KeySticks
    BY DEF IndInv, Undisturbed
<1> QED
    BY <1>1, Invariance, PTL

\* ... and so is the name an `install` left (config.go:104-124).
THEOREM ServiceNamesStick == ASSUME Exclusive PROVE Spec => []NameSticks
<1>1. IndInv => NameSticks
    BY DEF IndInv, Undisturbed
<1> QED
    BY <1>1, Invariance, PTL
=============================================================================
