-------------------------- MODULE DeploymentProofs ---------------------------
(***************************************************************************)
(* AgentSync implements Deployment.  Every step of the agent, of its       *)
(* server and of what goes wrong is one of four: nothing that a user of    *)
(* the agent sees, something said (Say), a reload (Load) or an assignment  *)
(* (Assign).                                                               *)
(***************************************************************************)
EXTENDS AgentSyncProofs

\* What a view says is a set of versions, and a pending view says nothing.
LEMMA SaysVersions ==
    ASSUME NEW v \in View
    PROVE  /\ Version(v) \in Promise!Version
           /\ Says(v) \in SUBSET Promise!Version
           /\ v.status = Pending => Says(v) = {}
BY DEF View, Version, Says, Promise!Version, Pending, Synced

\* What config.json, and the server, say of a configuration.
Saved(c) == Says(disk[c])

Shown(c) == IF SameView(server[c], disk[c]) THEN Says(server[c]) ELSE {}

\* After a step that keeps the invariant, what is saved and shown is a set of versions, and true.
LEMMA StillTrue ==
    ASSUME IndInv', NEW c \in Configs
    PROVE  /\ Saved(c)' \in SUBSET Promise!Version
           /\ Shown(c)' \in SUBSET Promise!Version
           /\ \A v \in Saved(c)' \cup Shown(c)' : Promise!Serves(live'[c], v)
<1>1. disk'[c] \in View /\ server'[c] \in View
    BY DEF IndInv, TypeOK
<1>2. Saved(c)' \in SUBSET Promise!Version /\ Shown(c)' \in SUBSET Promise!Version
    BY <1>1, SaysVersions DEF Saved, Shown
<1> DEFINE SoundThen(v) ==
        v.form = "ok" /\ v.status = Synced => live'[c].rev = v.rev /\ live'[c].gen >= v.gen
<1>3. ASSUME NEW v \in View, SoundThen(v), NEW said \in Says(v)
      PROVE  Promise!Serves(live'[c], said)
    <2>1. v.form = "ok" /\ v.status = Synced /\ said = Version(v)
        BY <1>3 DEF Says
    <2> QED
        BY <1>3, <2>1 DEF Promise!Serves, Version
<1>4. SoundThen(disk'[c])
    BY DEF IndInv, ViewsAreSound, Sound, Served
<1>5. \A v \in Saved(c)' : Promise!Serves(live'[c], v)
    BY <1>1, <1>3, <1>4 DEF Saved
<1>6. CASE SameView(server'[c], disk'[c])
    <2>1. SoundThen(server'[c])
        BY <1>6 DEF IndInv, ServerIsSound, Sound, Served
    <2> QED
        BY <1>1, <1>2, <1>3, <1>5, <1>6, <2>1 DEF Shown
<1>7. CASE ~SameView(server'[c], disk'[c])
    BY <1>2, <1>5, <1>7 DEF Shown
<1> QED
    BY <1>6, <1>7

\* A step that changes neither what is assigned nor what is used only says something.
LEMMA SayStep ==
    ASSUME IndInv', live' = live, \A c \in Configs : Version(server'[c]) = Version(server[c])
    PROVE  Promise!Say
<1>1. {[c \in Configs |-> Saved(c)'], [c \in Configs |-> Shown(c)']}
          \subseteq [Configs -> SUBSET Promise!Version]
    BY StillTrue
<1>2. \A c \in Configs : \A v \in Saved(c)' \cup Shown(c)' : Promise!Serves(live[c], v)
    BY StillTrue
<1>3. [c \in Configs |-> Version(server'[c])] = [c \in Configs |-> Version(server[c])]
    OBVIOUS
<1> QED
    BY <1>1, <1>2, <1>3 DEF Promise!Say, Saved, Shown, Version, Says, SameView

\* A reload brings the service from what it runs to something no newer than what is assigned,
\* and leaves every record of it true.
LEMMA LoadStep ==
    ASSUME IndInv, IndInv', pc \in {"perms", "cmd"}, UNCHANGED <<server, disk>>,
           live' = Loaded(cur)
    PROVE  Promise!Load(cur)
<1>1. TypeOK /\ cur \in Configs
    BY CurrentIsConfig DEF IndInv, OnOne
<1>2. /\ files[cur]["pem"] \in Int /\ live[cur] \in [gen : Nat, rev : Nat]
      /\ live \in [Configs -> [gen : Nat, rev : Nat]]
      /\ server[cur] \in View /\ disk[cur] \in View /\ mem[cur] \in View
    BY <1>1 DEF TypeOK, Content, Corrupt, Role
<1> DEFINE g == files[cur]["pem"]
           r == mem[cur].rev
<1>3. g \in live[cur].gen .. server[cur].gen
    <2>1. g >= live[cur].gen
        BY <1>1 DEF IndInv, ApplyPhase, PemIsNewest, Role
    <2>2. g <= server[cur].gen
        BY <1>1 DEF IndInv, ServerIsNewest, Role
    <2> QED
        BY <1>2, <2>1, <2>2 DEF View
<1>4. r \in live[cur].rev .. server[cur].rev
    BY <1>1, <1>2 DEF IndInv, RevisionsInOrder, View
<1>5. live' = [live EXCEPT ![cur] = [gen |-> g, rev |-> r]]
    BY DEF Loaded
<1>6. \A v \in Saved(cur) \cup Shown(cur) : Promise!Serves(live'[cur], v)
    BY <1>1, StillTrue DEF Saved, Shown, Says, SameView, Version
<1> QED
    BY <1>1, <1>3, <1>4, <1>5, <1>6 DEF Promise!Load, Saved, Shown, Version

\* A certificate issued, or settings changed, is an assignment of which nothing is said yet.
LEMMA AssignStep ==
    ASSUME IndInv, IndInv', NEW c \in Configs, Issue(c) \/ \E form \in Form : Edit(c, form)
    PROVE  Promise!Assign(c)
<1>1. server \in [Configs -> View] /\ server' \in [Configs -> View]
    BY DEF IndInv, TypeOK
<1>2. UNCHANGED <<disk, live>> /\ server'[c].status = Pending
    <2>1. UNCHANGED <<disk, live>>
        BY DEF Issue, Edit, world
    <2>2. server[c] \in View
        BY <1>1
    <2>3. CASE Issue(c)
        <3>1. server' = [server EXCEPT ![c] = [server[c] EXCEPT !.gen = @ + 1, !.status = Pending]]
            BY <2>3 DEF Issue
        <3> QED
            BY <1>1, <2>1, <2>2, <3>1 DEF View
    <2>4. ASSUME NEW form \in Form, Edit(c, form) PROVE server'[c].status = Pending
        <3>1. server' = [server EXCEPT ![c] = [server[c] EXCEPT !.rev = @ + 1, !.form = form,
                                                                 !.status = Pending]]
            BY <2>4 DEF Edit
        <3> QED
            BY <1>1, <2>2, <3>1 DEF View
    <2> QED
        BY <2>1, <2>3, <2>4
<1>3. \A d \in Configs : d # c => server'[d] = server[d]
    BY <1>1 DEF Issue, Edit
<1>4. Version(server'[c]) \in {[Version(server[c]) EXCEPT !.gen = @ + 1],
                              [Version(server[c]) EXCEPT !.rev = @ + 1]}
    <2>1. server[c].gen \in Nat /\ server[c].rev \in Nat
        BY <1>1 DEF View
    <2>2. CASE Issue(c)
        <3>1. server'[c].gen = server[c].gen + 1 /\ server'[c].rev = server[c].rev
            BY <1>1, <2>2 DEF Issue, View
        <3> QED
            BY <3>1 DEF Version
    <2>3. ASSUME NEW form \in Form, Edit(c, form)
          PROVE  Version(server'[c]) = [Version(server[c]) EXCEPT !.rev = @ + 1]
        <3>1. server'[c].gen = server[c].gen /\ server'[c].rev = server[c].rev + 1
            BY <1>1, <2>3 DEF Edit, View
        <3> QED
            BY <3>1 DEF Version
    <2> QED
        BY <2>2, <2>3
<1>5. Shown(c)' = {}
    BY <1>1, <1>2, SaysVersions DEF Shown
<1>6. \A d \in Configs : d # c => Shown(d)' = Shown(d)
    BY <1>2, <1>3 DEF Shown
<1> DEFINE assigned == [d \in Configs |-> Version(server[d])]
           shown == [d \in Configs |-> Shown(d)]
<1>7. [d \in Configs |-> Version(server'[d])] = [assigned EXCEPT ![c] = Version(server'[c])]
    BY <1>3
<1>8. [d \in Configs |-> Shown(d)'] = [shown EXCEPT ![c] = {}]
    BY <1>5, <1>6
<1> QED
    BY <1>2, <1>4, <1>7, <1>8 DEF Promise!Assign, Shown

\* What a step does to what the server assigns and what the service runs.
LEMMA StepKinds ==
    ASSUME IndInv, [Next]_vars
    PROVE  \/ /\ live' = live
              /\ \A c \in Configs : Version(server'[c]) = Version(server[c])
           \/ /\ pc \in {"perms", "cmd"}
              /\ live' = Loaded(cur)
              /\ UNCHANGED <<server, disk>>
           \/ \E c \in Configs : Issue(c) \/ \E form \in Form : Edit(c, form)
<1> DEFINE Talk == /\ live' = live
                   /\ \A c \in Configs : Version(server'[c]) = Version(server[c])
           Reload == /\ pc \in {"perms", "cmd"}
                     /\ live' = Loaded(cur)
                     /\ UNCHANGED <<server, disk>>
<1>1. \A c \in Configs : /\ Version(Delivered[c]) = Version(server[c])
                         /\ Version(Reported[c]) = Version(server[c])
    BY DeliveredEffect, ReportedEffect DEF IndInv, TypeOK, SameView, Version
<1>2. ASSUME live' = live, server' \in {server, Delivered, Reported} PROVE Talk
    BY <1>1, <1>2
<1>3. CASE Polling \/ Ending
    BY <1>2, <1>3
    DEF Polling, Ending, RunAgent, Tick, PollFailed, PollForbidden, PollNoContent,
        PollUpdated, PollUnsaved, EndLoop, SaveStatuses, SaveFails,
        ReportStatuses, ReportFails, world
<1>4. ASSUME NEW c \in Configs, Deciding(c) PROVE Talk
    BY <1>2, <1>4 DEF Deciding, Reject, Skip, StatFails, ReadFails, Compare, world
<1>5. CASE FetchOk \/ FetchRefused \/ FetchFails \/ WriteFile \/ WriteFails \/ PermissionsFail
    BY <1>2, <1>5
    DEF FetchOk, FetchRefused, FetchFails, WriteFile, WriteFails, PermissionsFail, world
<1>6. CASE ApplyPermissions \/ RunUpdateCommand \/ UpdateCommandFails
    <2>1. pc \in {"perms", "cmd"} /\ UNCHANGED <<server, disk>> /\ live' \in {live, Loaded(cur)}
        BY <1>6 DEF ApplyPermissions, RunUpdateCommand, UpdateCommandFails
    <2> QED
        BY <1>2, <2>1
<1>7. CASE Crash
    BY <1>2, <1>7 DEF Crash, world
<1>8. ASSUME NEW c \in Configs, NEW r \in Role,
             Tamper(c, r, "delete", Absent) \/ Tamper(c, r, "corrupt", Corrupt)
      PROVE  Talk
    BY <1>2, <1>8 DEF Tamper
<1>9. CASE UNCHANGED vars
    BY <1>2, <1>9 DEF vars, world
<1> QED
    BY <1>3, <1>4, <1>5, <1>6, <1>7, <1>8, <1>9 DEF Next, AgentStep, Installing, Environment

\* The agent implements Deployment: through every fault the services go on from version to
\* version, never back or ahead of the server, and no record of it is ever wrong.
THEOREM Refinement == Spec => ImplementsDeployment
<1>1. Init => Promise!Init
    <2> SUFFICES ASSUME Init PROVE Promise!Init
        OBVIOUS
    <2>1. \A c \in Configs : /\ Version(Nothing) = [gen |-> 0, rev |-> 0]
                             /\ Says(Nothing) = {}
        BY DEF Version, Says, Nothing
    <2> QED
        BY <2>1 DEF Init, Promise!Init
<1>2. ASSUME IndInv, IndInv', [Next]_vars PROVE [Promise!Next]_(Promise!promised)
    <2>1. CASE live' = live /\ \A c \in Configs : Version(server'[c]) = Version(server[c])
        BY <1>2, <2>1, SayStep DEF Promise!Next
    <2>2. CASE pc \in {"perms", "cmd"} /\ live' = Loaded(cur) /\ UNCHANGED <<server, disk>>
        <3>1. Promise!Load(cur) /\ cur \in Configs
            BY <1>2, <2>2, LoadStep, CurrentIsConfig DEF IndInv, OnOne
        <3> QED
            BY <3>1 DEF Promise!Next
    <2>3. ASSUME NEW c \in Configs, Issue(c) \/ \E form \in Form : Edit(c, form)
          PROVE  Promise!Next
        <3>1. Promise!Assign(c)
            BY <1>2, <2>3, AssignStep
        <3> QED
            BY <3>1 DEF Promise!Next
    <2> QED
        BY <1>2, <2>1, <2>2, <2>3, StepKinds
<1>3. IndInv /\ [Next]_vars => [Promise!Next]_(Promise!promised)
    BY <1>2, TypeStep, PromiseStep, RevisionStep DEF IndInv, Promises, Control
<1> QED
    BY <1>1, <1>2, Invariance, PTL DEF Spec, ImplementsDeployment, Promise!Spec
===============================================================================
