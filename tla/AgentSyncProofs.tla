--------------------------- MODULE AgentSyncProofs ---------------------------
(***************************************************************************)
(* Proofs about AgentSync for every set of configurations, every layout,   *)
(* either mode and every bound.                                            *)
(***************************************************************************)
EXTENDS AgentSync, FiniteSetTheorems, TLAPS

\* Replacing the status of a view gives a view.
LEMMA StatusOfView ==
    ASSUME NEW v \in View, NEW s \in Status
    PROVE  /\ [v EXCEPT !.status = s] \in View
           /\ [v EXCEPT !.status = s].status = s
           /\ SameView([v EXCEPT !.status = s], v)
BY DEF View, SameView

\* So does the server's change of a view: a new certificate, or new settings.
LEMMA IssuedView ==
    ASSUME NEW v \in View, NEW n \in Nat
    PROVE  [v EXCEPT !.gen = n, !.status = Pending] \in View
<1>1. Pending \in Status
    BY DEF Status
<1> QED
    BY <1>1 DEF View

\* An edited view is a view: new settings, another form, pending.
LEMMA EditedView ==
    ASSUME NEW v \in View, NEW n \in Nat, NEW f \in Form
    PROVE  [v EXCEPT !.rev = n, !.form = f, !.status = Pending] \in View
<1>1. Pending \in Status
    BY DEF Status
<1> QED
    BY <1>1 DEF View

\* The statuses are statuses, and "no status" is none of them.
LEMMA StatusNames ==
    /\ Pending \in Status /\ Synced \in Status /\ ErrorCmd \in Status
    /\ ErrorGet \in Status /\ ErrorWrite \in Status /\ ErrorOther \in Status
    /\ NoStatus \notin Status
BY DEF Status, Pending, Synced, ErrorCmd, ErrorGet, ErrorWrite, ErrorOther, NoStatus

\* The delivered list consists of views.
LEMMA DeliveredIsView ==
    TypeOK => Delivered \in [Configs -> View]
<1> SUFFICES ASSUME TypeOK PROVE Delivered \in [Configs -> View]
    OBVIOUS
<1>1. ASSUME NEW c \in Configs
      PROVE  [server[c] EXCEPT !.status = Pending] \in View
    BY StatusOfView, StatusNames DEF TypeOK
<1> QED
    BY <1>1 DEF TypeOK, Delivered

\* A reported list consists of views.
LEMMA ReportedIsView ==
    TypeOK => Reported \in [Configs -> View]
<1> SUFFICES ASSUME TypeOK PROVE Reported \in [Configs -> View]
    OBVIOUS
<1>1. ASSUME NEW c \in Configs, batch[c] # NoStatus
      PROVE  [server[c] EXCEPT !.status = batch[c]] \in View
    BY <1>1, StatusOfView DEF TypeOK
<1> QED
    BY <1>1 DEF TypeOK, Reported

\* Recording a status keeps the types of what it touches.
LEMMA FinishTypes ==
    ASSUME TypeOK, NEW c \in Configs, NEW status \in Status, Finish(c, status)
    PROVE  /\ mem' \in [Configs -> View]
           /\ batch' \in [Configs -> Status \cup {NoStatus}]
           /\ dirty' \in BOOLEAN
           /\ pc' \in Points
           /\ todo' \in SUBSET Configs
           /\ cur' \in Configs \cup {NoConfig}
           /\ got' \in Nat
           /\ unwritten' \in SUBSET Role
<1>1. [mem[c] EXCEPT !.status = status] \in View
    BY StatusOfView DEF TypeOK
<1>2. mem' \in [Configs -> View]
    BY <1>1 DEF TypeOK, Finish
<1> QED
    BY <1>2 DEF TypeOK, Finish, Points

\* So does the end of the process, and the end of a poll.
LEMMA GoneTypes ==
    ASSUME TypeOK, ProcessGone
    PROVE  /\ mem' \in [Configs -> View]
           /\ batch' \in [Configs -> Status \cup {NoStatus}]
           /\ dirty' \in BOOLEAN
           /\ pc' \in Points
           /\ trigger' \in {"startup", "tick", "change"}
           /\ todo' \in SUBSET Configs
           /\ cur' \in Configs \cup {NoConfig}
           /\ got' \in Nat
           /\ unwritten' \in SUBSET Role
           /\ unauthorized' \in BOOLEAN
BY DEF TypeOK, ProcessGone, IdlePass, Points

\* PollAndSync returns with every variable in its type, daemon or cron alike.
LEMMA ReturnTypes ==
    ASSUME TypeOK, NEW auth \in BOOLEAN, Return(auth)
    PROVE  /\ mem' \in [Configs -> View]
           /\ batch' \in [Configs -> Status \cup {NoStatus}]
           /\ dirty' \in BOOLEAN
           /\ pc' \in Points
           /\ trigger' \in {"startup", "tick", "change"}
           /\ todo' \in SUBSET Configs
           /\ cur' \in Configs \cup {NoConfig}
           /\ got' \in Nat
           /\ unwritten' \in SUBSET Role
           /\ unauthorized' \in BOOLEAN
<1>1. CASE RunOnce
    BY <1>1, GoneTypes DEF Return
<1>2. CASE ~RunOnce
    <2>1. /\ pc' = "idle" /\ trigger' = "tick" /\ unauthorized' = auth
          /\ mem' = mem /\ IdlePass
        BY <1>2 DEF Return
    <2>2. unauthorized' \in BOOLEAN
        BY <2>1
    <2> QED
        BY <2>1, <2>2 DEF TypeOK, IdlePass, Points
<1> QED
    BY <1>1, <1>2

\* A fault keeps the fault count a number.
LEMMA DisruptType ==
    ASSUME TypeOK, NEW kind, Disrupt(kind) PROVE spent' \in Nat
BY DEF TypeOK, Disrupt

\* What the service loads, and a file after a write or after damage, have the
\* types of live and files.
LEMMA LoadedType ==
    ASSUME TypeOK, NEW c \in Configs, files[c]["pem"] >= 0
    PROVE  Loaded(c) \in [Configs -> [gen : Nat, rev : Nat]]
<1>1. files[c]["pem"] \in Nat /\ mem[c].rev \in Nat
    BY DEF TypeOK, View, Content, Role, Corrupt
<1> QED
    BY <1>1 DEF TypeOK, Loaded

\* Writing, deleting or damaging one file keeps the type of files.
LEMMA FileType ==
    ASSUME TypeOK, NEW c \in Configs, NEW r \in Role, NEW g \in Content
    PROVE  [files EXCEPT ![c][r] = g] \in [Configs -> [Role -> Content]]
BY DEF TypeOK

\* While a pass works on one configuration, it is a real one.
LEMMA CurrentIsConfig ==
    ASSUME IndInv, OnOne
    PROVE  cur \in Configs /\ cur # NoConfig /\ RolesOf(cur) \subseteq Role
<1>1. cur \in Configs
    BY DEF IndInv, OneIsComplete
<1>2. RolesOf(cur) \subseteq Role
    BY <1>1, LayoutAssumption DEF RolesOf, Role, Layouts
<1> QED
    BY <1>1, <1>2, NoConfigAssumption

\* Every step keeps the types.
LEMMA TypeStep ==
    ASSUME IndInv, [Next]_vars PROVE TypeOK'
<1> USE StatusNames
<1>0. TypeOK
    BY DEF IndInv
<1>1. CASE RunAgent
    BY <1>0, <1>1 DEF RunAgent, TypeOK, world, pass, Points
<1>2. CASE Tick
    BY <1>0, <1>2 DEF Tick, TypeOK, world, pass, Points
<1>3. CASE PollFailed
    <2>1. server' \in [Configs -> View] /\ spent' \in Nat
        BY <1>0, <1>3, DeliveredIsView, DisruptType DEF PollFailed, TypeOK
    <2>2. PICK auth \in {unauthorized, FALSE} : Return(auth)
        BY <1>3 DEF PollFailed
    <2>3. auth \in BOOLEAN
        BY <1>0 DEF TypeOK
    <2>4. UNCHANGED <<disk, files, live>>
        BY <1>3 DEF PollFailed, world
    <2> QED
        BY <1>0, <2>1, <2>2, <2>3, <2>4, ReturnTypes DEF TypeOK
<1>4. CASE PollForbidden
    <2>1. server' \in [Configs -> View] /\ spent' \in Nat
        BY <1>0, <1>4, DisruptType DEF PollForbidden, TypeOK
    <2>2. Return(TRUE)
        BY <1>4 DEF PollForbidden
    <2>3. UNCHANGED <<disk, files, live>>
        BY <1>4 DEF PollForbidden, world
    <2> QED
        BY <1>0, <2>1, <2>2, <2>3, ReturnTypes DEF TypeOK
<1>5. CASE PollNoContent
    <2>1. UNCHANGED <<server, disk, files, live, spent>>
        BY <1>5 DEF PollNoContent, world
    <2>2. CASE trigger = "startup"
        BY <1>0, <1>5, <2>1, <2>2 DEF PollNoContent, BeginPass, TypeOK, Points
    <2>3. CASE trigger # "startup"
        <3>1. Return(FALSE)
            BY <1>5, <2>3 DEF PollNoContent
        <3> QED
            BY <1>0, <2>1, <3>1, ReturnTypes DEF TypeOK
    <2> QED
        BY <2>2, <2>3
<1>6. CASE PollUpdated
    <2>1. Delivered \in [Configs -> View]
        BY <1>0, DeliveredIsView
    <2> QED
        BY <1>0, <1>6, <2>1 DEF PollUpdated, BeginPass, TypeOK, Points, world
<1>7. CASE PollUnsaved
    <2>1. Delivered \in [Configs -> View] /\ spent' \in Nat
        BY <1>0, <1>7, DeliveredIsView, DisruptType DEF PollUnsaved
    <2>2. server' = Delivered /\ UNCHANGED <<disk, files, live>>
        BY <1>7 DEF PollUnsaved, world
    <2>3. CASE RunOnce
        <3>1. ProcessGone
            BY <1>7, <2>3 DEF PollUnsaved
        <3> QED
            BY <1>0, <2>1, <2>2, <3>1, GoneTypes DEF TypeOK
    <2>4. CASE ~RunOnce
        <3>1. /\ mem' = Delivered /\ pc' = "idle" /\ trigger' = "tick"
              /\ unauthorized' = FALSE /\ IdlePass
            BY <1>7, <2>4 DEF PollUnsaved
        <3> QED
            BY <1>0, <2>1, <2>2, <3>1 DEF TypeOK, IdlePass, Points
    <2> QED
        BY <2>3, <2>4
<1>8. ASSUME NEW c \in Configs, Deciding(c) PROVE TypeOK'
    <2>1. CASE Reject(c)
        BY <1>0, <2>1, FinishTypes DEF Reject, TypeOK, world
    <2>2. CASE Skip(c)
        BY <1>0, <2>2 DEF Skip, TypeOK, world, process
    <2>3. CASE StatFails(c)
        <3>1. spent' \in Nat /\ UNCHANGED <<server, disk, files, live,
                                           trigger, unauthorized>>
            BY <1>0, <2>3, DisruptType DEF StatFails, world
        <3>2. CASE Visit(c, "fetch")
            BY <1>0, <3>1, <3>2 DEF Visit, TypeOK, Points
        <3>3. CASE Finish(c, ErrorGet)
            BY <1>0, <3>1, <3>3, FinishTypes DEF TypeOK
        <3> QED
            BY <2>3, <3>2, <3>3 DEF StatFails
    <2>4. CASE ReadFails(c)
        BY <1>0, <2>4, FinishTypes DEF ReadFails, TypeOK, world
    <2>5. CASE Compare(c)
        <3>1. UNCHANGED <<server, disk, files, live, trigger,
                          unauthorized, spent>>
            BY <2>5 DEF Compare, world
        <3>2. CASE Visit(c, "fetch") \/ Visit(c, "perms")
            BY <1>0, <3>1, <3>2 DEF Visit, TypeOK, Points
        <3>3. CASE Finish(c, Synced)
            BY <1>0, <3>1, <3>3, FinishTypes DEF TypeOK
        <3> QED
            BY <2>5, <3>2, <3>3 DEF Compare
    <2> QED
        BY <1>8, <2>1, <2>2, <2>3, <2>4, <2>5 DEF Deciding
<1>9. CASE FetchOk
    <2>1. cur \in Configs /\ RolesOf(cur) \in SUBSET Role
        BY <1>9, CurrentIsConfig DEF FetchOk, OnOne
    <2>2. server[cur].gen \in Nat
        BY <1>0, <2>1 DEF TypeOK, View
    <2> QED
        BY <1>0, <1>9, <2>1, <2>2 DEF FetchOk, TypeOK, Points, world
<1>10. CASE FetchRefused
    <2>1. cur \in Configs
        BY <1>10, CurrentIsConfig DEF FetchRefused, OnOne
    <2>2. PICK s \in Status : Finish(cur, s)
        BY <1>10 DEF FetchRefused
    <2>3. unauthorized' \in BOOLEAN
        BY <1>0, <1>10 DEF FetchRefused, TypeOK
    <2> QED
        BY <1>0, <1>10, <2>1, <2>2, <2>3, FinishTypes DEF FetchRefused, TypeOK, world
<1>11. CASE FetchFails
    <2>1. cur \in Configs
        BY <1>11, CurrentIsConfig DEF FetchFails, OnOne
    <2>2. unauthorized' \in BOOLEAN /\ spent' \in Nat
        BY <1>0, <1>11, DisruptType DEF FetchFails, TypeOK
    <2> QED
        BY <1>0, <1>11, <2>1, <2>2, FinishTypes DEF FetchFails, TypeOK, world
<1>12. CASE WriteFile
    <2>1. cur \in Configs
        BY <1>12, CurrentIsConfig DEF WriteFile, OnOne
    <2>2. PICK r \in unwritten : /\ files' = [files EXCEPT ![cur][r] = got]
                                /\ unwritten' = unwritten \ {r}
                                /\ pc' \in {"perms", "write"}
        BY <1>12 DEF WriteFile
    <2>3. files' \in [Configs -> [Role -> Content]]
        BY <1>0, <2>1, <2>2, FileType DEF TypeOK, Content
    <2> QED
        BY <1>0, <1>12, <2>1, <2>2, <2>3 DEF WriteFile, TypeOK, Points
<1>13. CASE WriteFails
    <2>1. cur \in Configs /\ spent' \in Nat
        BY <1>0, <1>13, CurrentIsConfig, DisruptType DEF WriteFails, OnOne
    <2> QED
        BY <1>0, <1>13, <2>1, FinishTypes DEF WriteFails, TypeOK, world
<1>14. ASSUME pc \in {"perms", "cmd"}
       PROVE  cur \in Configs /\ Loaded(cur) \in [Configs -> [gen : Nat, rev : Nat]]
    <2>1. cur \in Configs
        BY <1>14, CurrentIsConfig DEF OnOne
    <2>2. files[cur]["pem"] >= 0
        BY <1>0, <1>14, <2>1 DEF IndInv, ApplyPhase, TypeOK, Content, Role, Corrupt
    <2> QED
        BY <1>0, <2>1, <2>2, LoadedType
<1>15. CASE ApplyPermissions
    <2>1. UNCHANGED <<server, disk, files, trigger, unauthorized, spent>>
        BY <1>15 DEF ApplyPermissions
    <2>2. CASE cur \in Commanded
        BY <1>0, <1>15, <2>1, <2>2 DEF ApplyPermissions, TypeOK, pass, Points
    <2>3. CASE cur \notin Commanded
        BY <1>0, <1>14, <1>15, <2>1, <2>3, FinishTypes DEF ApplyPermissions, TypeOK
    <2> QED
        BY <2>2, <2>3
<1>16. CASE PermissionsFail
    <2>1. cur \in Configs /\ spent' \in Nat
        BY <1>0, <1>16, CurrentIsConfig, DisruptType DEF PermissionsFail, OnOne
    <2> QED
        BY <1>0, <1>16, <2>1, FinishTypes DEF PermissionsFail, TypeOK, world
<1>17. CASE RunUpdateCommand
    BY <1>0, <1>14, <1>17, FinishTypes DEF RunUpdateCommand, TypeOK
<1>18. CASE UpdateCommandFails
    <2>1. live' \in [Configs -> [gen : Nat, rev : Nat]] /\ spent' \in Nat
        BY <1>0, <1>14, <1>18, DisruptType DEF UpdateCommandFails, TypeOK
    <2> QED
        BY <1>0, <1>14, <1>18, <2>1, FinishTypes DEF UpdateCommandFails, TypeOK
<1>19. CASE EndLoop
    BY <1>0, <1>19 DEF EndLoop, TypeOK, Points, world, pass
<1>20. CASE SaveStatuses
    BY <1>0, <1>20 DEF SaveStatuses, TypeOK, Points, world, pass
<1>21. CASE SaveFails
    BY <1>0, <1>21, DisruptType DEF SaveFails, TypeOK, Points, world, pass
<1>22. CASE ReportStatuses
    <2>1. server' \in [Configs -> View]
        BY <1>0, <1>22, ReportedIsView DEF ReportStatuses
    <2>2. Return(unauthorized) /\ unauthorized \in BOOLEAN
        BY <1>0, <1>22 DEF ReportStatuses, TypeOK
    <2>3. UNCHANGED <<disk, files, live, spent>>
        BY <1>22 DEF ReportStatuses, world
    <2> QED
        BY <1>0, <2>1, <2>2, <2>3, ReturnTypes DEF TypeOK
<1>23. CASE ReportFails
    <2>1. server' \in [Configs -> View] /\ spent' \in Nat
        BY <1>0, <1>23, ReportedIsView, DisruptType DEF ReportFails, TypeOK
    <2>2. PICK auth \in BOOLEAN : Return(auth)
        BY <1>0, <1>23 DEF ReportFails, TypeOK
    <2>3. UNCHANGED <<disk, files, live>>
        BY <1>23 DEF ReportFails, world
    <2> QED
        BY <1>0, <2>1, <2>2, <2>3, ReturnTypes DEF TypeOK
<1>24. CASE Crash
    <2>1. spent' \in Nat /\ UNCHANGED <<server, disk, files, live>>
        BY <1>0, <1>24, DisruptType DEF Crash, world
    <2> QED
        BY <1>0, <1>24, <2>1, GoneTypes DEF Crash, TypeOK
<1>25. ASSUME NEW c \in Configs, NEW r \in Role, NEW kind, NEW g \in Content,
              Tamper(c, r, kind, g)
       PROVE  TypeOK'
    <2>1. spent' \in Nat
        BY <1>0, <1>25, DisruptType DEF Tamper
    <2>2. files' \in [Configs -> [Role -> Content]]
        BY <1>0, <1>25, FileType DEF Tamper
    <2> QED
        BY <1>0, <1>25, <2>1, <2>2 DEF Tamper, TypeOK, process, pass
<1>26. ASSUME NEW c \in Configs, Issue(c) PROVE TypeOK'
    <2>0. server[c] \in View
        BY <1>0 DEF TypeOK
    <2>1. /\ server[c].gen + 1 \in Nat
          /\ [server[c] EXCEPT !.gen = server[c].gen + 1, !.status = Pending] \in View
        <3>1. server[c].gen + 1 \in Nat
            BY <2>0 DEF View
        <3> QED
            BY <2>0, <3>1, IssuedView
    <2>2. server' \in [Configs -> View]
        BY <1>0, <1>26, <2>1 DEF Issue, TypeOK
    <2> QED
        BY <1>0, <1>26, <2>2 DEF Issue, TypeOK, world, process, pass
<1>27. ASSUME NEW c \in Configs, NEW form \in Form, Edit(c, form) PROVE TypeOK'
    <2>0. server[c] \in View
        BY <1>0 DEF TypeOK
    <2>1. [server[c] EXCEPT !.rev = server[c].rev + 1, !.form = form,
                            !.status = Pending] \in View
        <3>1. server[c].rev + 1 \in Nat
            BY <2>0 DEF View
        <3> QED
            BY <2>0, <3>1, <1>27, EditedView
    <2>2. server' \in [Configs -> View]
        BY <1>0, <1>27, <2>1 DEF Edit, TypeOK
    <2> QED
        BY <1>0, <1>27, <2>2 DEF Edit, TypeOK, world, process, pass
<1>28. CASE UNCHANGED vars
    BY <1>0, <1>28 DEF TypeOK, vars, world, process, pass
<1>29. Absent \in Content /\ Corrupt \in Content
    BY DEF Absent, Corrupt, Content
<1> QED
    BY <1>1, <1>2, <1>3, <1>4, <1>5, <1>6, <1>7, <1>8, <1>9, <1>10, <1>11, <1>12,
       <1>13, <1>15, <1>16, <1>17, <1>18, <1>19, <1>20, <1>21, <1>22, <1>23, <1>24,
       <1>25, <1>26, <1>27, <1>28, <1>29
    DEF Next, AgentStep, Polling, Installing, Ending, Environment

-----------------------------------------------------------------------------
(* What the operators of the module do, configuration by configuration *)

\* Finish changes the status of one view in memory, and nothing else of it.
LEMMA FinishEffect ==
    ASSUME TypeOK, NEW c \in Configs, NEW status \in Status, Finish(c, status)
    PROVE  /\ \A d \in Configs : SameView(mem'[d], mem[d])
           /\ \A d \in Configs : d # c => mem'[d] = mem[d] /\ batch'[d] = batch[d]
           /\ mem'[c].status = status /\ batch'[c] = status
           /\ pc' = "next"
<1>1. mem[c] \in View /\ mem' = [mem EXCEPT ![c] = [mem[c] EXCEPT !.status = status]]
    BY DEF TypeOK, Finish
<1>2. SameView(mem'[c], mem[c]) /\ mem'[c].status = status
    BY <1>1, StatusOfView DEF TypeOK
<1>3. \A d \in Configs : d # c => mem'[d] = mem[d]
    BY <1>1 DEF TypeOK
<1>4. \A d \in Configs : SameView(mem'[d], mem[d])
    BY <1>2, <1>3 DEF SameView
<1> QED
    BY <1>2, <1>3, <1>4 DEF Finish, TypeOK

\* A delivered view is the server's, with its status only if it is not new.
LEMMA DeliveredEffect ==
    ASSUME TypeOK, NEW c \in Configs
    PROVE  /\ SameView(Delivered[c], server[c])
           /\ SameView(mem[c], server[c]) => Delivered[c] = server[c]
           /\ ~SameView(mem[c], server[c]) => Delivered[c].status = Pending
<1>1. server[c] \in View /\ Pending \in Status
    BY StatusNames DEF TypeOK
<1>2. SameView([server[c] EXCEPT !.status = Pending], server[c])
      /\ [server[c] EXCEPT !.status = Pending].status = Pending
    BY <1>1, StatusOfView
<1> QED
    BY <1>2 DEF Delivered, SameView

\* A reported view keeps everything but its status.
LEMMA ReportedEffect ==
    ASSUME TypeOK, NEW c \in Configs
    PROVE  /\ SameView(Reported[c], server[c])
           /\ batch[c] = NoStatus => Reported[c] = server[c]
           /\ batch[c] # NoStatus => Reported[c].status = batch[c]
<1>1. server[c] \in View
    BY DEF TypeOK
<1>2. CASE batch[c] = NoStatus
    BY <1>2 DEF Reported, SameView
<1>3. CASE batch[c] # NoStatus
    <2>1. batch[c] \in Status
        BY <1>3 DEF TypeOK
    <2>2. Reported[c] = [server[c] EXCEPT !.status = batch[c]]
        BY <1>3 DEF Reported
    <2> QED
        BY <1>1, <1>3, <2>1, <2>2, StatusOfView
<1> QED
    BY <1>2, <1>3

\* The server's own steps change one view, and leave it pending.
LEMMA IssueEffect ==
    ASSUME TypeOK, NEW c \in Configs, Issue(c)
    PROVE  /\ \A d \in Configs : d # c => server'[d] = server[d]
           /\ server'[c].gen = server[c].gen + 1
           /\ server'[c].status = Pending
BY DEF TypeOK, View, Issue

\* An edit leaves the certificate of the edited view alone.
LEMMA EditEffect ==
    ASSUME TypeOK, NEW c \in Configs, NEW form \in Form, Edit(c, form)
    PROVE  /\ \A d \in Configs : d # c => server'[d] = server[d]
           /\ server'[c].gen = server[c].gen
           /\ server'[c].status = Pending
BY DEF TypeOK, View, Edit

\* What is loaded.
LEMMA LoadedEffect ==
    ASSUME TypeOK, NEW c \in Configs
    PROVE  /\ \A d \in Configs : d # c => Loaded(c)[d] = live[d]
           /\ Loaded(c)[c].gen = files[c]["pem"]
           /\ Loaded(c)[c].rev = mem[c].rev
BY DEF TypeOK, Loaded

\* One write: a file of the current configuration, the PEM before the others.
LEMMA WriteEffect ==
    ASSUME IndInv, WriteFile
    PROVE  \E r \in RolesOf(cur) :
               /\ r \in unwritten /\ r \in Role
               /\ files' = [files EXCEPT ![cur][r] = got]
               /\ unwritten' = unwritten \ {r}
               /\ pc' = IF unwritten = {r} THEN "perms" ELSE "write"
               /\ "pem" \in unwritten => r = "pem"
<1>1. pc = "write" /\ unwritten \subseteq RolesOf(cur) /\ RolesOf(cur) \subseteq Role
    BY CurrentIsConfig DEF WriteFile, IndInv, WritePhase, OnOne
<1>2. PICK r \in unwritten :
          /\ \A s \in unwritten : Rank[r] <= Rank[s]
          /\ files' = [files EXCEPT ![cur][r] = got]
          /\ unwritten' = unwritten \ {r}
          /\ pc' = IF unwritten = {r} THEN "perms" ELSE "write"
    BY DEF WriteFile
<1>3. r \in Role /\ r \in RolesOf(cur)
    BY <1>1, <1>2
<1>4. "pem" \in unwritten => r = "pem"
    <2>1. \A q \in Role : q # "pem" => Rank[q] > Rank["pem"]
        BY DEF Rank, Role
    <2>2. \A q \in Role : Rank[q] \in Int
        BY DEF Rank, Role
    <2> QED
        BY <1>2, <1>3, <2>1, <2>2 DEF Role
<1> QED
    BY <1>2, <1>3, <1>4

-----------------------------------------------------------------------------
(* The inductive step, apart from the types *)

\* A view with the status and the contents of a sound one is sound.
LEMMA SoundCopy ==
    ASSUME NEW c, NEW v, NEW w, Sound(c, v), SameView(v, w), v.status = w.status
    PROVE  Sound(c, w)
BY DEF Sound, SameView, Served

\* Only two statuses promise anything.
LEMMA SoundOtherwise ==
    ASSUME NEW c, NEW v, v.status \notin {Synced, ErrorCmd}
    PROVE  Sound(c, v)
BY DEF Sound, Synced, ErrorCmd

\* PENDING_SYNC and the errors a full retry answers promise nothing.
LEMMA PendingPromisesNothing ==
    /\ Pending \notin {Synced, ErrorCmd} /\ ErrorGet \notin {Synced, ErrorCmd}
    /\ ErrorWrite \notin {Synced, ErrorCmd} /\ ErrorOther \notin {Synced, ErrorCmd}
BY DEF Pending, Synced, ErrorCmd, ErrorGet, ErrorWrite, ErrorOther

\* What a step may do to the server: never withdraw a certificate, and never
\* hold a promise about what the agent has that does not hold.
ServerKept ==
    \A c \in Configs :
        /\ server'[c].gen >= server[c].gen
        /\ SameView(server'[c], disk[c]) \/ SameView(server'[c], mem[c])
               => Sound(c, server'[c])

\* A step that leaves the server alone keeps it.
LEMMA KeptUnchanged ==
    ASSUME IndInv, server' = server PROVE ServerKept
<1>1. \A c \in Configs : server[c].gen \in Nat
    BY DEF IndInv, TypeOK, View
<1> QED
    BY <1>1 DEF IndInv, ServerIsSound, ServerKept

\* So does a 200 answer of the poll: what is new in it is pending.
LEMMA KeptDelivered ==
    ASSUME IndInv, server' = Delivered PROVE ServerKept
<1> SUFFICES ASSUME NEW c \in Configs
             PROVE  /\ server'[c].gen >= server[c].gen
                    /\ SameView(server'[c], disk[c]) \/ SameView(server'[c], mem[c])
                           => Sound(c, server'[c])
    BY DEF ServerKept
<1>1. TypeOK /\ server[c].gen \in Nat
    BY DEF IndInv, TypeOK, View
<1>2. server'[c].gen >= server[c].gen
    BY <1>1, DeliveredEffect DEF SameView
<1>3. CASE SameView(mem[c], server[c])
    <2>1. server'[c] = server[c] /\ SameView(server[c], mem[c])
        BY <1>1, <1>3, DeliveredEffect DEF SameView
    <2> QED
        BY <1>2, <2>1 DEF IndInv, ServerIsSound
<1>4. CASE ~SameView(mem[c], server[c])
    BY <1>1, <1>2, <1>4, DeliveredEffect, SoundOtherwise, PendingPromisesNothing
<1> QED
    BY <1>3, <1>4

\* So does a status report: the statuses in it are those of memory, which are
\* sound, and they fall on the same view or on one nobody has yet.
LEMMA KeptReported ==
    ASSUME IndInv, pc = "report", server' = Reported PROVE ServerKept
<1> SUFFICES ASSUME NEW c \in Configs
             PROVE  /\ server'[c].gen >= server[c].gen
                    /\ SameView(server'[c], disk[c]) \/ SameView(server'[c], mem[c])
                           => Sound(c, server'[c])
    BY DEF ServerKept
<1>1. TypeOK /\ server[c].gen \in Nat
    BY DEF IndInv, TypeOK, View
<1>2. server'[c].gen >= server[c].gen
    BY <1>1, ReportedEffect DEF SameView
<1>3. SameView(mem[c], disk[c])
    BY DEF IndInv, MemoryIsSaved, InPass
<1>4. CASE batch[c] = NoStatus
    BY <1>1, <1>2, <1>4, ReportedEffect DEF IndInv, ServerIsSound
<1>5. CASE batch[c] # NoStatus
    <2>1. server'[c].status = mem[c].status
        BY <1>1, <1>5, ReportedEffect DEF IndInv, BatchIsMemory
    <2>2. Sound(c, mem[c])
        BY DEF IndInv, ViewsAreSound
    <2>3. ASSUME SameView(server'[c], disk[c]) \/ SameView(server'[c], mem[c])
          PROVE  SameView(mem[c], server'[c])
        BY <1>3, <2>3 DEF SameView
    <2> QED
        BY <1>2, <2>1, <2>2, <2>3, SoundCopy
<1> QED
    BY <1>4, <1>5

\* So does a certificate issued or a configuration edited: it becomes pending.
LEMMA KeptPending ==
    ASSUME IndInv, NEW c \in Configs,
           \A d \in Configs : d # c => server'[d] = server[d],
           server'[c].gen \in {server[c].gen, server[c].gen + 1},
           server'[c].status = Pending
    PROVE  ServerKept
<1>1. \A d \in Configs : server[d].gen \in Nat
    BY DEF IndInv, TypeOK, View
<1>2. Sound(c, server'[c])
    BY SoundOtherwise, PendingPromisesNothing
<1>3. server'[c].gen >= server[c].gen
    BY <1>1
<1> QED
    BY <1>1, <1>2, <1>3 DEF IndInv, ServerIsSound, ServerKept

\* The parts of the invariant about data, and those about the control point.
Promises == /\ ViewsAreSound /\ ServerIsSound /\ ServerIsNewest /\ PemIsNewest
Control  == /\ MemoryIsSaved /\ BatchIsMemory /\ OneIsComplete
            /\ WritePhase /\ ApplyPhase

\* With files and service untouched, promises survive whatever happens to the
\* views, as long as these are views that were there before.
LEMMA PromisesKept ==
    ASSUME IndInv, ServerKept, UNCHANGED <<files, live>>,
           \A c \in Configs : /\ disk'[c] \in {disk[c], mem[c], server'[c]}
                              /\ mem'[c] \in {disk[c], mem[c], server'[c]},
           \A c \in Configs : server'[c] \in {disk'[c], mem'[c]} => Sound(c, server'[c]),
           \A c \in Configs : server'[c].gen \in Nat
    PROVE  Promises'
<1>1. \A c \in Configs : Sound(c, disk'[c]) /\ Sound(c, mem'[c])
    BY DEF IndInv, ViewsAreSound
<1>2. ViewsAreSound'
    BY <1>1 DEF ViewsAreSound, Sound, Served
<1>3. \A c \in Configs :
          SameView(server'[c], disk'[c]) \/ SameView(server'[c], mem'[c])
              => Sound(c, server'[c])
    BY DEF ServerKept
<1>4. ServerIsSound'
    BY <1>3 DEF ServerIsSound, SameView, Sound, Served
<1>5. ServerIsNewest'
    <2> SUFFICES ASSUME NEW c \in Configs
                 PROVE  /\ disk'[c].gen <= server'[c].gen
                        /\ mem'[c].gen <= server'[c].gen
                        /\ live'[c].gen <= server'[c].gen
                        /\ \A r \in Role : files'[c][r] <= server'[c].gen
        BY DEF ServerIsNewest
    <2>1. /\ disk[c].gen \in Nat /\ mem[c].gen \in Nat /\ live[c].gen \in Nat
          /\ server[c].gen \in Nat
          /\ \A r \in Role : files[c][r] \in Int
        BY DEF IndInv, TypeOK, View, Content, Corrupt
    <2>2. server'[c].gen >= server[c].gen
        BY DEF ServerKept
    <2> QED
        BY <2>1, <2>2 DEF IndInv, ServerIsNewest
<1>6. PemIsNewest'
    BY DEF IndInv, PemIsNewest
<1> QED
    BY <1>2, <1>4, <1>5, <1>6 DEF Promises

\* The process ends: nothing is half done any more.
LEMMA GoneKeeps ==
    ASSUME IndInv, TypeOK', ServerKept, ProcessGone, UNCHANGED <<disk, files, live>>
    PROVE  Promises' /\ Control'
<1>1. \A c \in Configs : server'[c].gen \in Nat
    BY DEF TypeOK, View
<1>2. \A c \in Configs : server'[c] \in {disk'[c], mem'[c]} => Sound(c, server'[c])
    BY DEF ProcessGone, ServerKept, SameView
<1>3. Promises'
    BY <1>1, <1>2, PromisesKept DEF ProcessGone
<1>4. Control'
    BY DEF ProcessGone, IdlePass, Control, MemoryIsSaved, BatchIsMemory, OneIsComplete,
           WritePhase, ApplyPhase, InPass, OnOne
<1> QED
    BY <1>3, <1>4

\* The service waits for the next tick.
LEMMA IdleKeeps ==
    ASSUME IndInv, TypeOK', ServerKept, UNCHANGED <<disk, files, live>>,
           mem' \in {mem, server'}, pc' = "idle", IdlePass,
           \A c \in Configs : mem'[c] = server'[c] => Sound(c, server'[c])
    PROVE  Promises' /\ Control'
<1>1. \A c \in Configs : server'[c].gen \in Nat
    BY DEF TypeOK, View
<1>2. \A c \in Configs : server'[c] \in {disk'[c], mem'[c]} => Sound(c, server'[c])
    BY DEF ServerKept, SameView
<1>3. Promises'
    BY <1>1, <1>2, PromisesKept
<1>4. Control'
    BY DEF IdlePass, Control, MemoryIsSaved, BatchIsMemory, OneIsComplete,
           WritePhase, ApplyPhase, InPass, OnOne
<1> QED
    BY <1>3, <1>4

\* The end of PollAndSync keeps every promise, daemon or cron alike.
LEMMA ReturnKeeps ==
    ASSUME IndInv, TypeOK', ServerKept, UNCHANGED <<disk, files, live>>,
           NEW auth, Return(auth)
    PROVE  Promises' /\ Control'
<1>1. CASE RunOnce
    BY <1>1, GoneKeeps DEF Return
<1>2. CASE ~RunOnce
    <2>1. mem' = mem /\ pc' = "idle" /\ IdlePass
        BY <1>2 DEF Return
    <2>2. \A c \in Configs : mem'[c] = server'[c] => Sound(c, server'[c])
        BY <2>1 DEF ServerKept, SameView
    <2> QED
        BY <2>1, <2>2, IdleKeeps
<1> QED
    BY <1>1, <1>2

\* A status is recorded that promises no more than what holds.
LEMMA FinishKeeps ==
    ASSUME IndInv, TypeOK', UNCHANGED <<server, disk, files, live>>, InPass,
           NEW c \in Configs, NEW status \in Status, Finish(c, status),
           \/ status \notin {Synced, ErrorCmd}
           \/ status = mem[c].status
    PROVE  Promises' /\ Control'
<1>0. TypeOK /\ ServerKept
    BY KeptUnchanged DEF IndInv
<1>1. /\ \A d \in Configs : SameView(mem'[d], mem[d])
      /\ \A d \in Configs : d # c => mem'[d] = mem[d] /\ batch'[d] = batch[d]
      /\ mem'[c].status = status /\ batch'[c] = status
      /\ pc' = "next"
    BY <1>0, FinishEffect
<1>2. Sound(c, mem'[c])
    <2>1. CASE status \notin {Synced, ErrorCmd}
        BY <1>1, <2>1, SoundOtherwise
    <2>2. CASE status = mem[c].status
        <3>1. Sound(c, mem[c]) /\ SameView(mem[c], mem'[c])
            BY <1>1 DEF IndInv, ViewsAreSound, SameView
        <3> QED
            BY <1>1, <2>2, <3>1, SoundCopy
    <2> QED
        BY <2>1, <2>2
<1>3. \A d \in Configs : Sound(d, disk[d]) /\ Sound(d, mem'[d])
    BY <1>1, <1>2 DEF IndInv, ViewsAreSound
<1>4. ViewsAreSound'
    BY <1>3 DEF ViewsAreSound, Sound, Served
<1>5. ServerIsSound'
    <2>1. \A d \in Configs :
              SameView(server[d], disk[d]) \/ SameView(server[d], mem'[d])
                  => Sound(d, server[d])
        BY <1>1 DEF IndInv, ServerIsSound, SameView
    <2> QED
        BY <2>1 DEF ServerIsSound, SameView, Sound, Served
<1>6. ServerIsNewest' /\ PemIsNewest'
    BY <1>1 DEF IndInv, ServerIsNewest, PemIsNewest, SameView
<1>7. MemoryIsSaved'
    BY <1>1 DEF IndInv, MemoryIsSaved, InPass, SameView
<1>8. BatchIsMemory'
    BY <1>1 DEF IndInv, BatchIsMemory, InPass
<1>9. OneIsComplete' /\ WritePhase' /\ ApplyPhase'
    BY <1>1 DEF OneIsComplete, WritePhase, ApplyPhase, OnOne
<1> QED
    BY <1>4, <1>5, <1>6, <1>7, <1>8, <1>9 DEF Promises, Control

\* The service is reloaded, or may have been: it then runs the files that are there.
LEMMA LoadKeeps ==
    ASSUME IndInv, TypeOK', UNCHANGED <<server, disk, files>>, pc \in {"perms", "cmd"},
           NEW status \in {Synced, ErrorCmd}, Finish(cur, status),
           live' \in {live, Loaded(cur)},
           status = Synced => live' = Loaded(cur)
    PROVE  Promises' /\ Control'
<1>0. TypeOK /\ ServerKept /\ cur \in Configs /\ status \in Status
    BY KeptUnchanged, CurrentIsConfig, StatusNames DEF IndInv, OnOne
<1>1. /\ \A d \in Configs : SameView(mem'[d], mem[d])
      /\ \A d \in Configs : d # cur => mem'[d] = mem[d] /\ batch'[d] = batch[d]
      /\ mem'[cur].status = status /\ batch'[cur] = status
      /\ pc' = "next"
    BY <1>0, FinishEffect
<1>2. /\ \A d \in Configs : d # cur => live'[d] = live[d]
      /\ \/ live'[cur] = live[cur] /\ status # Synced
         \/ live'[cur].gen = files[cur]["pem"] /\ live'[cur].rev = mem[cur].rev
    BY <1>0, LoadedEffect
<1>3. /\ files[cur]["pem"] > 0
      /\ files[cur]["pem"] >= mem[cur].gen
      /\ \A r \in Role : files[cur][r] > 0 => files[cur][r] = files[cur]["pem"]
    BY DEF IndInv, ApplyPhase
<1>4. \A d \in Configs : SameView(mem[d], disk[d])
    BY DEF IndInv, MemoryIsSaved, InPass
<1>5. /\ \A r \in Role : files[cur][r] \in Int
      /\ mem[cur].gen \in Nat /\ live[cur].gen \in Nat /\ server[cur].gen \in Nat
      /\ "pem" \in Role
    BY <1>0 DEF TypeOK, View, Content, Corrupt, Role
<1>c. PICK c \in Configs : c = cur
    BY <1>0
<1>6. ASSUME NEW v, SameView(v, mem[c]), Sound(c, v) \/ v = mem'[c]
      PROVE  Sound(c, v)'
    <2>1. v.gen = mem[c].gen /\ v.rev = mem[c].rev /\ v.form = mem[c].form
        BY <1>6 DEF SameView
    <2>2. \A r \in Role : files[c][r] > 0 => files[c][r] >= v.gen
        BY <1>c, <1>3, <1>5, <2>1
    <2>3. CASE live'[c].gen = files[c]["pem"] /\ live'[c].rev = mem[c].rev
        BY <1>c, <1>3, <2>1, <2>2, <2>3 DEF Sound, Served
    <2>4. CASE live'[c] = live[c] /\ status # Synced
        BY <1>c, <1>1, <1>6, <2>2, <2>4 DEF Sound, Served
    <2> QED
        BY <1>c, <1>2, <2>3, <2>4
<1>7. ViewsAreSound'
    <2>1. Sound(c, disk[c])' /\ Sound(c, mem[c])'
        <3>1. Sound(c, disk[c]) /\ SameView(disk[c], mem[c])
            BY <1>0, <1>4 DEF IndInv, ViewsAreSound, SameView
        <3> QED
            BY <1>c, <1>1, <1>6, <3>1 DEF Sound, Served, SameView
    <2> QED
        BY <1>c, <1>1, <1>2, <2>1 DEF IndInv, ViewsAreSound, Sound, Served
<1>8. ServerIsSound'
    <2> SUFFICES ASSUME NEW d \in Configs,
                        (SameView(server[d], disk[d]) \/ SameView(server[d], mem[d]))'
                 PROVE  Sound(d, server[d])'
        BY DEF ServerIsSound
    <2>1. SameView(server[d], mem[d])
        BY <1>1, <1>4 DEF SameView
    <2>2. Sound(d, server[d])
        BY <2>1 DEF IndInv, ServerIsSound
    <2>3. CASE d = c
        BY <1>6, <2>1, <2>2, <2>3 DEF Sound, Served
    <2>4. CASE d # c
        BY <1>c, <1>2, <2>2, <2>4 DEF Sound, Served
    <2> QED
        BY <2>3, <2>4
<1>9. ServerIsNewest'
    BY <1>0, <1>1, <1>2, <1>5 DEF IndInv, ServerIsNewest, SameView
<1>10. PemIsNewest'
    BY <1>0, <1>1, <1>2, <1>3, <1>5 DEF IndInv, PemIsNewest
<1>11. Control'
    <2>1. MemoryIsSaved'
        BY <1>1, <1>4 DEF MemoryIsSaved, InPass, SameView
    <2>2. BatchIsMemory'
        BY <1>1 DEF IndInv, BatchIsMemory, InPass
    <2>3. OneIsComplete' /\ WritePhase' /\ ApplyPhase'
        BY <1>1 DEF OneIsComplete, WritePhase, ApplyPhase, OnOne
    <2> QED
        BY <2>1, <2>2, <2>3 DEF Control
<1> QED
    BY <1>7, <1>8, <1>9, <1>10, <1>11 DEF Promises

\* Steps that change neither the views the promises are about nor the files.
LEMMA StillPromises ==
    ASSUME IndInv, UNCHANGED <<server, mem, files, live>>, disk' \in {disk, mem}
    PROVE  Promises'
<1>1. ServerKept
    BY KeptUnchanged
<1>2. \A c \in Configs : server'[c].gen \in Nat
    BY DEF IndInv, TypeOK, View
<1>3. \A c \in Configs : server'[c] \in {disk'[c], mem'[c]} => Sound(c, server'[c])
    BY DEF IndInv, ServerIsSound, SameView
<1> QED
    BY <1>1, <1>2, <1>3, PromisesKept

\* What the server delivers is sound.
LEMMA DeliveredSound ==
    ASSUME IndInv, NEW c \in Configs PROVE Sound(c, Delivered[c])
<1>0. TypeOK
    BY DEF IndInv
<1>1. CASE SameView(mem[c], server[c])
    <2>1. Delivered[c] = server[c] /\ SameView(server[c], mem[c])
        BY <1>0, <1>1, DeliveredEffect DEF SameView
    <2> QED
        BY <2>1 DEF IndInv, ServerIsSound
<1>2. CASE ~SameView(mem[c], server[c])
    BY <1>0, <1>2, DeliveredEffect, SoundOtherwise, PendingPromisesNothing
<1> QED
    BY <1>1, <1>2

\* One configuration is taken up, to be fetched or only to be applied.
LEMMA VisitKeeps ==
    ASSUME IndInv, UNCHANGED <<server, disk, files, live, trigger>>,
           pc = "next", NEW c \in Configs, mem[c].form = "ok",
           \/ Visit(c, "fetch")
           \/ /\ Visit(c, "perms")
              /\ ~NeedsFetch(c)
              /\ mem[c].status \in {Synced, ErrorCmd}
    PROVE  Promises' /\ Control'
<1>1. /\ pc' \in {"fetch", "perms"} /\ cur' = c /\ mem' = mem /\ batch' = batch
    BY DEF Visit
<1>2. Promises'
    BY <1>1, StillPromises
<1>3. MemoryIsSaved' /\ BatchIsMemory' /\ OneIsComplete' /\ WritePhase'
    BY <1>1 DEF IndInv, MemoryIsSaved, BatchIsMemory, OneIsComplete, WritePhase, InPass,
                OnOne
<1>4. ApplyPhase'
    <2>1. CASE Visit(c, "fetch")
        BY <2>1 DEF Visit, ApplyPhase
    <2>2. CASE Visit(c, "perms") /\ ~NeedsFetch(c) /\ mem[c].status \in {Synced, ErrorCmd}
        <3>1. mem[c].gen \in Nat /\ (\A r \in Role : files[c][r] \in Int) /\ "pem" \in Role
            BY DEF IndInv, TypeOK, View, Content, Corrupt, Role
        <3>2. "pem" \in RolesOf(c)
            BY LayoutAssumption DEF RolesOf, Layouts
        <3>3. mem[c].gen # 0 /\ files[c]["pem"] = mem[c].gen
            BY <2>2, <3>2 DEF NeedsFetch, Missing, WrongThumbprint
        <3>4. \A r \in Role : files[c][r] > 0 => files[c][r] >= mem[c].gen
            BY <2>2 DEF IndInv, ViewsAreSound, Sound
        <3>5. \A r \in Role : files[c][r] <= files[c]["pem"]
            BY <3>1, <3>3 DEF IndInv, PemIsNewest
        <3>6. \A r \in Role : files[c][r] > 0 => files[c][r] = files[c]["pem"]
            BY <3>1, <3>3, <3>4, <3>5
        <3>7. \A r \in RolesOf(c) : files[c][r] # Absent
            BY <2>2 DEF NeedsFetch, Missing
        <3> QED
            BY <1>1, <3>1, <3>3, <3>6, <3>7 DEF ApplyPhase
    <2> QED
        BY <2>1, <2>2
<1> QED
    BY <1>2, <1>3, <1>4 DEF Control

\* The pass starts with memory and config.json agreeing on every view.
LEMMA BeginKeeps ==
    ASSUME IndInv, pc = "poll", NEW m, BeginPass(m),
           \A c \in Configs : SameView(mem'[c], disk'[c])
    PROVE  Control'
<1>1. /\ pc' = "next" /\ batch' = batch
    BY DEF BeginPass
<1>2. \A c \in Configs : batch[c] = NoStatus
    BY DEF IndInv, BatchIsMemory, InPass
<1>3. MemoryIsSaved'
    BY <1>1 DEF MemoryIsSaved, SameView
<1>4. BatchIsMemory' /\ OneIsComplete' /\ WritePhase' /\ ApplyPhase'
    BY <1>1, <1>2 DEF BatchIsMemory, OneIsComplete, WritePhase, ApplyPhase, OnOne
<1> QED
    BY <1>3, <1>4 DEF Control

\* A fetched certificate is the newest there is.
LEMMA FetchKeeps ==
    ASSUME IndInv, FetchOk PROVE Promises' /\ Control'
<1>1. /\ pc = "fetch" /\ pc' = "write" /\ cur' = cur /\ got' = server[cur].gen
      /\ server[cur].gen > 0 /\ unwritten' = RolesOf(cur)
      /\ UNCHANGED <<server, disk, mem, files, live, batch, trigger>>
    BY DEF FetchOk, world
<1>2. cur \in Configs
    BY <1>1, CurrentIsConfig DEF OnOne
<1>3. Promises'
    BY <1>1, StillPromises
<1>4. MemoryIsSaved' /\ BatchIsMemory' /\ OneIsComplete' /\ ApplyPhase'
    BY <1>1 DEF IndInv, MemoryIsSaved, BatchIsMemory, OneIsComplete, ApplyPhase, InPass,
                OnOne
<1>5. WritePhase'
    <2>1. /\ server[cur].gen \in Nat /\ mem[cur].gen \in Nat /\ live[cur].gen \in Nat
          /\ \A r \in Role : files[cur][r] \in Int
        BY <1>2 DEF IndInv, TypeOK, View, Content, Corrupt
    <2>2. RolesOf(cur) # {}
        BY <1>2, LayoutAssumption DEF RolesOf, Layouts
    <2> QED
        BY <1>1, <1>2, <2>1, <2>2 DEF IndInv, ServerIsNewest, WritePhase
<1> QED
    BY <1>3, <1>4, <1>5 DEF Control

\* A write puts the newest generation where a file that is no newer was.
LEMMA WriteKeeps ==
    ASSUME IndInv, WriteFile PROVE Promises' /\ Control'
<1>1. PICK r \in RolesOf(cur) :
          /\ r \in unwritten /\ r \in Role
          /\ files' = [files EXCEPT ![cur][r] = got]
          /\ unwritten' = unwritten \ {r}
          /\ pc' = IF unwritten = {r} THEN "perms" ELSE "write"
          /\ "pem" \in unwritten => r = "pem"
    BY WriteEffect
<1>2. PICK c \in Configs : c = cur
    BY CurrentIsConfig DEF WriteFile, OnOne
<1>3. /\ pc = "write" /\ cur' = cur /\ got' = got
      /\ UNCHANGED <<server, disk, mem, live, batch, trigger>>
    BY DEF WriteFile
<1>4. /\ files'[c][r] = got
      /\ \A q \in Role : q # r => files'[c][q] = files[c][q]
      /\ \A d \in Configs : d # c => files'[d] = files[d]
    BY <1>1, <1>2 DEF IndInv, TypeOK
<1>5. /\ got > 0 /\ got <= server[c].gen /\ got >= mem[c].gen /\ got >= live[c].gen
      /\ \A q \in Role : files[c][q] <= got
      /\ unwritten \subseteq RolesOf(c)
      /\ \A q \in RolesOf(c) \ unwritten : files[c][q] = got
      /\ "pem" \in unwritten => unwritten = RolesOf(c)
    BY <1>2, <1>3 DEF IndInv, WritePhase
<1>6. /\ mem[c].gen \in Nat /\ disk[c].gen \in Nat /\ server[c].gen \in Nat
      /\ live[c].gen \in Nat /\ got \in Nat
      /\ \A q \in Role : files[c][q] \in Int
      /\ "pem" \in Role /\ RolesOf(c) \subseteq Role
    BY <1>2, <1>3, CurrentIsConfig DEF IndInv, TypeOK, View, Content, Corrupt, Role, OnOne
<1>7. "pem" \in RolesOf(c)
    BY LayoutAssumption DEF RolesOf, Layouts
<1>8. SameView(mem[c], disk[c])
    BY <1>3 DEF IndInv, MemoryIsSaved, InPass
<1>9. ASSUME NEW v, v.gen = mem[c].gen, Sound(c, v)
      PROVE  Sound(c, v)'
    BY <1>3, <1>4, <1>5, <1>6, <1>9 DEF Sound, Served
<1>10. ViewsAreSound'
    <2>1. Sound(c, mem[c])' /\ Sound(c, disk[c])'
        BY <1>3, <1>8, <1>9 DEF IndInv, ViewsAreSound, SameView, Sound, Served
    <2> QED
        BY <1>3, <1>4, <2>1 DEF IndInv, ViewsAreSound, Sound, Served
<1>11. ServerIsSound'
    <2> SUFFICES ASSUME NEW d \in Configs,
                        SameView(server[d], disk[d]) \/ SameView(server[d], mem[d])
                 PROVE  Sound(d, server[d])'
        BY <1>3 DEF ServerIsSound, SameView
    <2>1. Sound(d, server[d])
        BY DEF IndInv, ServerIsSound
    <2>2. CASE d = c
        BY <1>3, <1>8, <1>9, <2>1, <2>2 DEF SameView, Sound, Served
    <2>3. CASE d # c
        BY <1>3, <1>4, <2>1, <2>3 DEF Sound, Served
    <2> QED
        BY <2>2, <2>3
<1>12. ServerIsNewest'
    BY <1>3, <1>4, <1>5, <1>6 DEF IndInv, ServerIsNewest
<1>13. files'[c]["pem"] = got
    BY <1>1, <1>4, <1>5, <1>6, <1>7
<1>14. /\ files'[c]["pem"] > 0 =>
              \A q \in Role : files'[c][q] <= files'[c]["pem"]
       /\ \A q \in Role : files'[c][q] > 0 => files'[c][q] >= live'[c].gen
       /\ \A q \in Role \ RolesOf(c) : files'[c][q] = Absent
    BY <1>1, <1>2, <1>3, <1>4, <1>5, <1>6, <1>13 DEF IndInv, PemIsNewest
<1>15. PemIsNewest'
    <2> SUFFICES ASSUME NEW d \in Configs
                 PROVE  /\ files'[d]["pem"] > 0 =>
                               \A q \in Role : files'[d][q] <= files'[d]["pem"]
                        /\ \A q \in Role : files'[d][q] > 0 => files'[d][q] >= live'[d].gen
                        /\ \A q \in Role \ RolesOf(d) : files'[d][q] = Absent
        BY DEF PemIsNewest
    <2>1. CASE d = c
        BY <1>14, <2>1
    <2>2. CASE d # c
        BY <1>3, <1>4, <2>2 DEF IndInv, PemIsNewest
    <2> QED
        BY <2>1, <2>2
<1>16. \A q \in RolesOf(c) \ unwritten' : files'[c][q] = got
    BY <1>1, <1>2, <1>4, <1>5, <1>6
<1>17. MemoryIsSaved' /\ BatchIsMemory' /\ OneIsComplete'
    BY <1>1, <1>3 DEF IndInv, MemoryIsSaved, BatchIsMemory, OneIsComplete, InPass, OnOne
<1>18. WritePhase'
    <2>1. pc' = "write" => unwritten' # {}
        BY <1>1
    <2>2. "pem" \notin unwritten'
        BY <1>1, <1>5
    <2>3. \A q \in Role : files'[c][q] <= got
        BY <1>4, <1>5, <1>6
    <2>4. unwritten' \subseteq RolesOf(c)
        BY <1>1, <1>5
    <2> QED
        BY <1>2, <1>3, <1>5, <1>16, <2>1, <2>2, <2>3, <2>4 DEF WritePhase, RolesOf
<1>19. ApplyPhase'
    <2>1. CASE unwritten = {r}
        <3>1. \A q \in RolesOf(c) : files'[c][q] = got
            BY <1>1, <1>16, <2>1
        <3>2. \A q \in Role : files'[c][q] > 0 => files'[c][q] = got
            BY <1>14, <3>1 DEF Absent
        <3>3. \A q \in RolesOf(c) : files'[c][q] # Absent
            BY <1>5, <3>1 DEF Absent
        <3> QED
            BY <1>2, <1>3, <1>5, <1>13, <3>2, <3>3 DEF ApplyPhase
    <2>2. CASE unwritten # {r}
        BY <1>1, <2>2 DEF ApplyPhase
    <2> QED
        BY <2>1, <2>2
<1> QED
    BY <1>10, <1>11, <1>12, <1>15, <1>17, <1>18, <1>19 DEF Promises, Control

\* A removed or damaged file promises nothing, and nothing rests on it.
LEMMA TamperKeeps ==
    ASSUME IndInv, NEW c \in Configs, NEW r \in Role, NEW kind,
           NEW content \in {Absent, Corrupt}, Tamper(c, r, kind, content)
    PROVE  Promises' /\ Control'
<1>1. /\ pc \in {"down", "idle"} /\ pc' = pc /\ files[c][r] # Absent
      /\ UNCHANGED <<server, disk, mem, live, trigger, batch>>
    BY DEF Tamper, process, pass
<1>2. /\ files'[c][r] = content /\ content \in {0, -1}
      /\ \A q \in Role : q # r => files'[c][q] = files[c][q]
      /\ \A d \in Configs : d # c => files'[d] = files[d]
    BY DEF Tamper, IndInv, TypeOK, Absent, Corrupt
<1>3. \A d \in Configs : /\ server[d].gen \in Nat
                         /\ \A q \in Role : files[d][q] \in Int
    BY DEF IndInv, TypeOK, View, Content, Corrupt
<1>4. \A d \in Configs, q \in Role : \/ files'[d][q] = files[d][q]
                                     \/ files'[d][q] \in {0, -1}
    BY <1>2
<1>5. ASSUME NEW d \in Configs, NEW v, Sound(d, v) PROVE Sound(d, v)'
    BY <1>1, <1>3, <1>4, <1>5 DEF Sound, Served
<1>6. ViewsAreSound'
    BY <1>1, <1>5 DEF IndInv, ViewsAreSound, Sound, Served
<1>7. ServerIsSound'
    BY <1>1, <1>5 DEF IndInv, ServerIsSound, SameView, Sound, Served
<1>8. ServerIsNewest'
    BY <1>1, <1>3, <1>4 DEF IndInv, ServerIsNewest
<1>9. r \in RolesOf(c)
    BY <1>1 DEF IndInv, PemIsNewest
<1>10. PemIsNewest'
    <2> SUFFICES ASSUME NEW d \in Configs
                 PROVE  /\ files'[d]["pem"] > 0 =>
                               \A q \in Role : files'[d][q] <= files'[d]["pem"]
                        /\ \A q \in Role : files'[d][q] > 0 => files'[d][q] >= live'[d].gen
                        /\ \A q \in Role \ RolesOf(d) : files'[d][q] = Absent
        BY DEF PemIsNewest
    <2>1. "pem" \in Role
        BY DEF Role
    <2>2. \A q \in Role \ RolesOf(d) : files'[d][q] = files[d][q]
        BY <1>2, <1>9
    <2> QED
        BY <1>1, <1>3, <1>4, <2>1, <2>2 DEF IndInv, PemIsNewest
<1>11. Control'
    BY <1>1 DEF IndInv, Control, MemoryIsSaved, BatchIsMemory, OneIsComplete, WritePhase,
                ApplyPhase, InPass, OnOne
<1> QED
    BY <1>6, <1>7, <1>8, <1>10, <1>11 DEF Promises

\* The server changes a view on its own.
LEMMA ServerKeeps ==
    ASSUME IndInv, TypeOK', ServerKept,
           UNCHANGED <<disk, mem, files, live, pc, trigger, cur, got, unwritten, batch>>
    PROVE  Promises' /\ Control'
<1>1. \A c \in Configs : server'[c].gen \in Nat /\ server[c].gen \in Nat
    BY DEF IndInv, TypeOK, View
<1>2. \A c \in Configs : server'[c] \in {disk'[c], mem'[c]} => Sound(c, server'[c])
    BY DEF ServerKept, SameView
<1>3. Promises'
    BY <1>1, <1>2, PromisesKept
<1>4. MemoryIsSaved' /\ BatchIsMemory' /\ OneIsComplete' /\ ApplyPhase'
    BY DEF IndInv, MemoryIsSaved, BatchIsMemory, OneIsComplete, ApplyPhase, InPass, OnOne,
           SameView
<1>5. WritePhase'
    <2> SUFFICES ASSUME pc = "write" PROVE got <= server'[cur].gen
        BY DEF IndInv, WritePhase
    <2>1. cur \in Configs /\ got <= server[cur].gen /\ got \in Nat
        BY CurrentIsConfig DEF OnOne, IndInv, WritePhase, TypeOK
    <2> QED
        BY <1>1, <2>1 DEF ServerKept
<1> QED
    BY <1>3, <1>4, <1>5 DEF Control

\* A pass ends its loop, saves the statuses or fails to, starts on a tick or at
\* startup, or passes over a configuration: only the control point moves.
LEMMA ControlMoves ==
    ASSUME IndInv, UNCHANGED <<server, mem, files, live, cur, got, unwritten, batch>>,
           \/ pc = "down" /\ pc' = "poll" /\ UNCHANGED <<disk, trigger>>
           \/ pc = "idle" /\ pc' = "poll" /\ trigger' = "tick" /\ disk' = disk
           \/ /\ pc \in {"next", "save"}
              /\ pc' \in {"next", "save", "report"}
              /\ disk' \in {disk, mem}
              /\ trigger' = trigger
           \/ pc = "perms" /\ pc' = "cmd" /\ UNCHANGED <<disk, trigger>>
           \/ UNCHANGED <<pc, disk, trigger>>
    PROVE  Promises' /\ Control'
<1>1. Promises'
    BY StillPromises
<1>2. MemoryIsSaved' /\ BatchIsMemory' /\ OneIsComplete'
    BY DEF IndInv, MemoryIsSaved, BatchIsMemory, OneIsComplete, InPass, OnOne, SameView
<1>3. WritePhase' /\ ApplyPhase'
    BY DEF IndInv, WritePhase, ApplyPhase
<1> QED
    BY <1>1, <1>2, <1>3 DEF Control

\* Every step keeps the rest of the invariant.
LEMMA PromiseStep ==
    ASSUME IndInv, TypeOK', [Next]_vars PROVE Promises' /\ Control'
<1> USE StatusNames, PendingPromisesNothing
<1>0. TypeOK
    BY DEF IndInv
<1>1. CASE RunAgent \/ Tick \/ EndLoop \/ SaveStatuses \/ SaveFails \/ UNCHANGED vars
    BY <1>1, ControlMoves
    DEF RunAgent, Tick, EndLoop, SaveStatuses, SaveFails, vars, world, process, pass
<1>2. CASE PollFailed
    <2>1. ServerKept
        BY <1>2, KeptUnchanged, KeptDelivered DEF PollFailed
    <2> QED
        BY <1>2, <2>1, ReturnKeeps DEF PollFailed, world
<1>3. CASE PollForbidden
    BY <1>3, KeptUnchanged, ReturnKeeps DEF PollForbidden, world
<1>4. CASE PollNoContent
    <2>1. UNCHANGED <<server, disk, files, live>> /\ pc = "poll" /\ ServerKept
        BY <1>4, KeptUnchanged DEF PollNoContent, world
    <2>2. CASE trigger = "startup"
        <3>1. mem' = mem /\ BeginPass(mem) /\ mem = disk
            BY <1>4, <2>1, <2>2 DEF PollNoContent, IndInv, MemoryIsSaved
        <3>2. \A c \in Configs : SameView(mem'[c], disk'[c])
            BY <2>1, <3>1 DEF SameView
        <3> QED
            BY <2>1, <3>1, <3>2, StillPromises, BeginKeeps
    <2>3. CASE trigger # "startup"
        BY <1>4, <2>1, <2>3, ReturnKeeps DEF PollNoContent
    <2> QED
        BY <2>2, <2>3
<1>5. CASE PollUpdated
    <2>1. /\ server' = Delivered /\ mem' = Delivered /\ disk' = Delivered
          /\ UNCHANGED <<files, live>> /\ BeginPass(Delivered) /\ pc = "poll"
        BY <1>5 DEF PollUpdated, world
    <2>2. \A c \in Configs : SameView(mem'[c], disk'[c])
        BY <2>1 DEF SameView
    <2>3. ServerKept /\ \A c \in Configs : server'[c].gen \in Nat
        BY <2>1, KeptDelivered DEF TypeOK, View
    <2>4. Promises'
        BY <2>1, <2>3, DeliveredSound, PromisesKept
    <2> QED
        BY <2>1, <2>2, <2>4, BeginKeeps
<1>6. CASE PollUnsaved
    <2>1. server' = Delivered /\ UNCHANGED <<disk, files, live>> /\ ServerKept
        BY <1>6, KeptDelivered DEF PollUnsaved, world
    <2>2. CASE RunOnce
        BY <1>6, <2>1, <2>2, GoneKeeps DEF PollUnsaved
    <2>3. CASE ~RunOnce
        <3>1. mem' = Delivered /\ pc' = "idle" /\ IdlePass
            BY <1>6, <2>3 DEF PollUnsaved
        <3> QED
            BY <2>1, <3>1, DeliveredSound, IdleKeeps
    <2> QED
        BY <2>2, <2>3
<1>7. ASSUME NEW c \in Configs, Deciding(c) PROVE Promises' /\ Control'
    <2>1. CASE Reject(c)
        BY <2>1, FinishKeeps DEF Reject, world, InPass
    <2>2. CASE Skip(c)
        BY <2>2, ControlMoves DEF Skip, world, process
    <2>3. CASE StatFails(c)
        <3>1. /\ UNCHANGED <<server, disk, files, live, trigger>>
              /\ pc = "next" /\ mem[c].form = "ok"
            BY <2>3 DEF StatFails, world
        <3>2. CASE Visit(c, "fetch")
            BY <3>1, <3>2, VisitKeeps
        <3>3. CASE Finish(c, ErrorGet)
            BY <3>1, <3>3, FinishKeeps DEF InPass
        <3> QED
            BY <2>3, <3>2, <3>3 DEF StatFails
    <2>4. CASE ReadFails(c)
        BY <2>4, FinishKeeps DEF ReadFails, world, InPass
    <2>5. CASE Compare(c)
        <3>1. /\ UNCHANGED <<server, disk, files, live, trigger>>
              /\ pc = "next" /\ mem[c].form = "ok"
            BY <2>5 DEF Compare, world
        <3>2. mem[c].status \in Status
            BY <1>0 DEF TypeOK, View
        <3>3. CASE NeedsFetch(c) \/ RetryFull(mem[c].status)
            BY <2>5, <3>1, <3>3, VisitKeeps DEF Compare
        <3>4. CASE ~NeedsFetch(c) /\ ~RetryFull(mem[c].status)
            <4>1. mem[c].status \in {Synced, ErrorCmd}
                BY <3>2, <3>4 DEF RetryFull, Status
            <4>2. CASE ShouldApply(c)
                <5>1. Visit(c, "perms")
                    BY <2>5, <3>4, <4>2 DEF Compare
                <5> QED
                    BY <3>1, <3>4, <4>1, <5>1, VisitKeeps
            <4>3. CASE ~ShouldApply(c)
                <5>1. Finish(c, Synced) /\ mem[c].status = Synced
                    BY <2>5, <3>4, <4>1, <4>3 DEF Compare, ShouldApply, RetryUpdateOnly
                <5> QED
                    BY <3>1, <5>1, FinishKeeps DEF InPass
            <4> QED
                BY <4>2, <4>3
        <3> QED
            BY <3>3, <3>4
    <2> QED
        BY <1>7, <2>1, <2>2, <2>3, <2>4, <2>5 DEF Deciding
<1>8. CASE FetchOk
    BY <1>8, FetchKeeps
<1>9. CASE FetchRefused
    <2>1. UNCHANGED <<server, disk, files, live>> /\ InPass /\ cur \in Configs
        BY <1>9, CurrentIsConfig DEF FetchRefused, world, InPass, OnOne
    <2>2. Finish(cur, ErrorGet) \/ Finish(cur, ErrorWrite)
        BY <1>9 DEF FetchRefused
    <2> QED
        BY <2>1, <2>2, FinishKeeps
<1>10. CASE FetchFails
    <2>1. cur \in Configs
        BY <1>10, CurrentIsConfig DEF FetchFails, OnOne
    <2> QED
        BY <1>10, <2>1, FinishKeeps DEF FetchFails, world, InPass
<1>11. CASE WriteFile
    BY <1>11, WriteKeeps
<1>12. CASE WriteFails
    <2>1. cur \in Configs
        BY <1>12, CurrentIsConfig DEF WriteFails, OnOne
    <2> QED
        BY <1>12, <2>1, FinishKeeps DEF WriteFails, world, InPass
<1>13. CASE ApplyPermissions
    <2>1. CASE cur \in Commanded
        BY <1>13, <2>1, ControlMoves DEF ApplyPermissions, pass
    <2>2. CASE cur \notin Commanded
        BY <1>13, <2>2, LoadKeeps DEF ApplyPermissions
    <2> QED
        BY <2>1, <2>2
<1>14. CASE PermissionsFail
    <2>1. cur \in Configs
        BY <1>14, CurrentIsConfig DEF PermissionsFail, OnOne
    <2> QED
        BY <1>14, <2>1, FinishKeeps DEF PermissionsFail, world, InPass
<1>15. CASE RunUpdateCommand
    BY <1>15, LoadKeeps DEF RunUpdateCommand
<1>16. CASE UpdateCommandFails
    <2>1. ErrorCmd # Synced
        BY DEF ErrorCmd, Synced
    <2> QED
        BY <1>16, <2>1, LoadKeeps DEF UpdateCommandFails
<1>17. CASE ReportStatuses
    <2>1. ServerKept
        BY <1>17, KeptReported DEF ReportStatuses
    <2> QED
        BY <1>17, <2>1, ReturnKeeps DEF ReportStatuses, world
<1>18. CASE ReportFails
    <2>1. ServerKept
        BY <1>18, KeptReported, KeptUnchanged DEF ReportFails
    <2>2. PICK auth : Return(auth)
        BY <1>18 DEF ReportFails
    <2> QED
        BY <1>18, <2>1, <2>2, ReturnKeeps DEF ReportFails, world
<1>19. CASE Crash
    BY <1>19, KeptUnchanged, GoneKeeps DEF Crash, world
<1>20. ASSUME NEW c \in Configs, NEW r \in Role,
              Tamper(c, r, "delete", Absent) \/ Tamper(c, r, "corrupt", Corrupt)
       PROVE  Promises' /\ Control'
    BY <1>20, TamperKeeps
<1>21. ASSUME NEW c \in Configs, Issue(c) PROVE Promises' /\ Control'
    <2>1. ServerKept
        BY <1>0, <1>21, IssueEffect, KeptPending
    <2> QED
        BY <1>21, <2>1, ServerKeeps DEF Issue, world, process, pass
<1>22. ASSUME NEW c \in Configs, NEW form \in Form, Edit(c, form)
       PROVE  Promises' /\ Control'
    <2>1. ServerKept
        BY <1>0, <1>22, EditEffect, KeptPending
    <2> QED
        BY <1>22, <2>1, ServerKeeps DEF Edit, world, process, pass
<1> QED
    BY <1>1, <1>2, <1>3, <1>4, <1>5, <1>6, <1>7, <1>8, <1>9, <1>10, <1>11, <1>12,
       <1>13, <1>14, <1>15, <1>16, <1>17, <1>18, <1>19, <1>20, <1>21, <1>22
    DEF Next, AgentStep, Polling, Installing, Ending, Environment

-----------------------------------------------------------------------------
(* Settings *)

\* Revisions that the agent copies in their order stay in it.
LEMMA RevisionsKept ==
    ASSUME TypeOK, TypeOK', RevisionsInOrder, live' = live,
           \A c \in Configs : server'[c].rev >= server[c].rev,
           \A c \in Configs :
               \/ /\ disk'[c].rev = disk[c].rev
                  /\ mem'[c].rev \in {mem[c].rev, disk[c].rev, server'[c].rev}
               \/ /\ mem'[c].rev = disk'[c].rev
                  /\ disk'[c].rev \in {mem[c].rev, server'[c].rev}
    PROVE  RevisionsInOrder'
<1> SUFFICES ASSUME NEW c \in Configs
             PROVE  /\ live'[c].rev <= disk'[c].rev /\ disk'[c].rev <= mem'[c].rev
                    /\ mem'[c].rev <= server'[c].rev
    BY DEF RevisionsInOrder
<1>1. /\ live[c].rev \in Nat /\ disk[c].rev \in Nat /\ mem[c].rev \in Nat /\ server[c].rev \in Nat
      /\ disk'[c].rev \in Nat /\ mem'[c].rev \in Nat /\ server'[c].rev \in Nat
    BY DEF TypeOK, View
<1>2. live[c].rev <= disk[c].rev /\ disk[c].rev <= mem[c].rev /\ mem[c].rev <= server[c].rev
    BY DEF RevisionsInOrder
<1> QED
    BY <1>1, <1>2

\* PollAndSync returns with the memory it has, or config.json is read again.
LEMMA ReturnMemory ==
    ASSUME NEW auth, Return(auth)
    PROVE  mem' \in {mem, disk}
BY DEF Return, ProcessGone

\* No step brings a revision out of its order: not a lost answer, not a crash, not a reload.
LEMMA RevisionStep ==
    ASSUME IndInv, TypeOK', [Next]_vars
    PROVE  RevisionsInOrder'
<1>0. TypeOK /\ RevisionsInOrder /\ \A c \in Configs : server[c].rev \in Nat
    BY DEF IndInv, TypeOK, View
<1>1. \A c \in Configs : Delivered[c].rev = server[c].rev /\ Reported[c].rev = server[c].rev
    BY <1>0, DeliveredEffect, ReportedEffect DEF SameView
<1>2. ASSUME UNCHANGED <<server, disk, live>>, \A c \in Configs : SameView(mem'[c], mem[c])
      PROVE  RevisionsInOrder'
    BY <1>0, <1>2, RevisionsKept DEF SameView
<1>3. ASSUME NEW c \in Configs, NEW status, Finish(c, status), UNCHANGED <<server, disk, live>>,
             status \in Status
      PROVE  RevisionsInOrder'
    BY <1>0, <1>2, <1>3, FinishEffect
<1>4. ASSUME mem' = mem, UNCHANGED <<server, disk, live>> PROVE RevisionsInOrder'
    BY <1>2, <1>4 DEF SameView
<1>5. ASSUME mem' \in {mem, disk}, UNCHANGED <<disk, live>>, server' \in {server, Delivered, Reported}
      PROVE  RevisionsInOrder'
    BY <1>0, <1>1, <1>5, RevisionsKept
<1>6. CASE RunAgent \/ Tick \/ EndLoop \/ SaveFails \/ UNCHANGED vars \/ FetchOk \/ WriteFile
    BY <1>4, <1>6 DEF RunAgent, Tick, EndLoop, SaveFails, vars, FetchOk, WriteFile, world, pass
<1>7. CASE SaveStatuses
    <2>1. disk' = mem /\ mem' = mem /\ UNCHANGED <<server, live>>
        BY <1>7 DEF SaveStatuses, world
    <2> QED
        BY <1>0, <2>1, RevisionsKept
<1>8. CASE PollFailed
    <2>1. PICK auth : Return(auth)
        BY <1>8 DEF PollFailed
    <2> QED
        BY <1>5, <1>8, <2>1, ReturnMemory DEF PollFailed, world
<1>9. CASE PollForbidden
    BY <1>5, <1>9, ReturnMemory DEF PollForbidden, world
<1>10. CASE PollNoContent
    <2>1. UNCHANGED <<server, disk, live>> /\ mem' \in {mem, disk}
        BY <1>10, ReturnMemory DEF PollNoContent, world
    <2> QED
        BY <1>5, <2>1
<1>11. CASE PollUpdated
    <2>1. server' = Delivered /\ mem' = Delivered /\ disk' = Delivered /\ live' = live
        BY <1>11 DEF PollUpdated, world
    <2> QED
        BY <1>0, <1>1, <2>1, RevisionsKept
<1>12. CASE PollUnsaved
    <2>1. server' = Delivered /\ UNCHANGED <<disk, live>> /\ mem' \in {disk, Delivered}
        BY <1>12 DEF PollUnsaved, ProcessGone, world
    <2> QED
        BY <1>0, <1>1, <2>1, RevisionsKept
<1>13. ASSUME NEW c \in Configs, Deciding(c) PROVE RevisionsInOrder'
    <2>1. UNCHANGED <<server, disk, live>>
        BY <1>13 DEF Deciding, Reject, Skip, StatFails, ReadFails, Compare, world
    <2>2. mem' = mem \/ \E status \in Status : Finish(c, status)
        BY <1>13, StatusNames
        DEF Deciding, Reject, Skip, StatFails, ReadFails, Compare, Visit
    <2> QED
        BY <1>3, <1>4, <2>1, <2>2
<1>14. CASE FetchRefused \/ FetchFails \/ WriteFails \/ PermissionsFail
    <2>1. UNCHANGED <<server, disk, live>> /\ cur \in Configs
        BY <1>14, CurrentIsConfig
        DEF FetchRefused, FetchFails, WriteFails, PermissionsFail, world, OnOne
    <2>2. Finish(cur, ErrorGet) \/ Finish(cur, ErrorWrite)
        BY <1>14 DEF FetchRefused, FetchFails, WriteFails, PermissionsFail
    <2> QED
        BY <1>3, <2>1, <2>2, StatusNames
<1>15. CASE ApplyPermissions \/ RunUpdateCommand \/ UpdateCommandFails
    <2>1. /\ pc \in {"perms", "cmd"} /\ cur \in Configs /\ UNCHANGED <<server, disk>>
          /\ live' \in {live, Loaded(cur)}
          /\ mem' = mem \/ Finish(cur, Synced) \/ Finish(cur, ErrorCmd)
        BY <1>15, CurrentIsConfig
        DEF ApplyPermissions, RunUpdateCommand, UpdateCommandFails, OnOne
    <2>2. \A c \in Configs : SameView(mem'[c], mem[c])
        BY <1>0, <2>1, FinishEffect, StatusNames DEF SameView
    <2>3. CASE live' = live
        BY <1>2, <2>1, <2>2, <2>3
    <2>4. CASE live' = Loaded(cur)
        <3>1. SameView(mem[cur], disk[cur])
            BY <2>1 DEF IndInv, MemoryIsSaved, InPass
        <3>2. \A c \in Configs : live'[c].rev <= disk[c].rev
            <4>1. \A c \in Configs : c # cur => live'[c] = live[c]
                BY <1>0, <2>1, <2>4, LoadedEffect
            <4>2. live'[cur].rev = disk[cur].rev /\ disk[cur].rev \in Nat
                BY <1>0, <2>1, <2>4, <3>1, LoadedEffect DEF SameView, TypeOK, View
            <4> QED
                BY <1>0, <4>1, <4>2 DEF RevisionsInOrder
        <3> QED
            BY <1>0, <2>1, <2>2, <3>2 DEF RevisionsInOrder, SameView
    <2> QED
        BY <2>1, <2>3, <2>4
<1>16. CASE ReportStatuses
    <2>1. server' = Reported /\ UNCHANGED <<disk, live>> /\ mem' \in {mem, disk}
        BY <1>16, ReturnMemory DEF ReportStatuses, world
    <2> QED
        BY <1>5, <2>1
<1>17. CASE ReportFails
    <2>1. PICK auth : Return(auth)
        BY <1>17 DEF ReportFails
    <2> QED
        BY <1>5, <1>17, <2>1, ReturnMemory DEF ReportFails, world
<1>18. CASE Crash
    BY <1>5, <1>18 DEF Crash, ProcessGone, world
<1>19. ASSUME NEW c \in Configs, NEW r \in Role,
              Tamper(c, r, "delete", Absent) \/ Tamper(c, r, "corrupt", Corrupt)
       PROVE  RevisionsInOrder'
    BY <1>4, <1>19 DEF Tamper
<1>20. ASSUME NEW c \in Configs,
              Issue(c) \/ \E form \in Form : Edit(c, form)
       PROVE  RevisionsInOrder'
    <2>1. UNCHANGED <<disk, mem, live>>
        BY <1>20 DEF Issue, Edit, world
    <2>2. ASSUME NEW d \in Configs PROVE server'[d].rev >= server[d].rev
        <3>1. server[d].rev \in Nat
            BY <1>0 DEF TypeOK, View
        <3>2. CASE Issue(c)
            <4>1. server'[d].rev = server[d].rev
                BY <1>0, <3>2 DEF Issue, TypeOK, View
            <4> QED
                BY <3>1, <4>1
        <3>3. ASSUME NEW form \in Form, Edit(c, form) PROVE server'[d].rev >= server[d].rev
            <4>1. server'[d].rev = IF d = c THEN server[d].rev + 1 ELSE server[d].rev
                BY <1>0, <3>3 DEF Edit, TypeOK, View
            <4> QED
                BY <3>1, <4>1
        <3> QED
            BY <1>20, <3>2, <3>3
    <2> QED
        BY <1>0, <2>1, <2>2, RevisionsKept
<1> QED
    BY <1>6, <1>7, <1>8, <1>9, <1>10, <1>11, <1>12, <1>13, <1>14, <1>15, <1>16, <1>17, <1>18,
       <1>19, <1>20
    DEF Next, AgentStep, Polling, Installing, Ending, Environment

-----------------------------------------------------------------------------
(* Theorems *)

\* The initial states satisfy the invariant.
LEMMA InitEstablishes == Init => IndInv
<1> SUFFICES ASSUME Init PROVE IndInv
    OBVIOUS
<1>1. Nothing \in View /\ Nothing.status = Pending
    BY StatusNames DEF Nothing, View, Form
<1>2. [gen |-> 0, rev |-> 0] \in [gen : Nat, rev : Nat] /\ Absent \in Content
    BY DEF Absent, Content
<1>3. TypeOK
    BY <1>1, <1>2 DEF Init, TypeOK, Points
<1>4. \A c \in Configs : Sound(c, Nothing)
    BY <1>1, SoundOtherwise, PendingPromisesNothing
<1>5. ViewsAreSound /\ ServerIsSound
    BY <1>4 DEF Init, ViewsAreSound, ServerIsSound
<1>6. ServerIsNewest
    BY DEF Init, ServerIsNewest, Nothing, Absent
<1>7. PemIsNewest
    <2> SUFFICES ASSUME NEW c \in Configs
                 PROVE  \A r \in Role : files[c][r] = 0
        BY DEF PemIsNewest, Absent, Role
    <2> QED
        BY DEF Init, Absent
<1>8. Control
    BY DEF Init, Control, MemoryIsSaved, BatchIsMemory, OneIsComplete, WritePhase,
           ApplyPhase, InPass, OnOne
<1>9. RevisionsInOrder
    BY DEF Init, RevisionsInOrder, Nothing
<1> QED
    BY <1>3, <1>5, <1>6, <1>7, <1>8, <1>9 DEF IndInv, Control

\* The inductive invariant: types, sound statuses in memory, on disk and at the
\* server, generations that only the server creates, a PEM that is never behind
\* the other files, and what is known in the middle of a write and of a reload.
THEOREM Invariance == Spec => []IndInv
<1>1. Init => IndInv
    BY InitEstablishes
<1>2. IndInv /\ [Next]_vars => IndInv'
    BY TypeStep, PromiseStep, RevisionStep DEF IndInv, Promises, Control
<1> QED
    BY <1>1, <1>2, PTL DEF Spec

\* Type correctness of the whole agent.
THEOREM TypeCorrect == Spec => []TypeOK
<1>1. IndInv => TypeOK
    BY DEF IndInv
<1> QED
    BY <1>1, Invariance, PTL

\* Whatever fails, and whenever the process dies, a saved status SYNCED means
\* that the service runs that revision with that certificate or a newer one.
THEOREM SyncedConfigurationsAreServed == Spec => []SyncedIsServed
<1>1. IndInv => SyncedIsServed
    BY DEF IndInv, ViewsAreSound, Sound, SyncedIsServed
<1> QED
    BY <1>1, Invariance, PTL

\* The server never shows SYNCED for a configuration the agent has saved and the
\* service does not run.
THEOREM ServerIsNotMisled == Spec => []ServerNotMisled
<1>1. IndInv => ServerNotMisled
    BY DEF IndInv, ServerIsSound, Sound, ServerNotMisled
<1> QED
    BY <1>1, Invariance, PTL

\* No reload ever loads files of two certificates.
THEOREM ReloadsAreCoherent == Spec => []ReloadIsCoherent
<1>1. IndInv => ReloadIsCoherent
    BY DEF IndInv, ApplyPhase, ReloadIsCoherent, Intact
<1> QED
    BY <1>1, Invariance, PTL

\* An agent that will find nothing to do has everything in place.
THEOREM QuietAgentsAreCoherent == Spec => []QuietIsCoherent
<1>1. IndInv => QuietIsCoherent
    <2> SUFFICES ASSUME IndInv, NEW c \in Configs, pc = "down", disk[c].form = "ok",
                        disk[c].status = Synced, ~NeedsFetch(c)
                 PROVE  /\ live[c] = [gen |-> disk[c].gen, rev |-> disk[c].rev]
                        /\ \A r \in Intact(c) : files[c][r] = disk[c].gen
        BY DEF QuietIsCoherent
    <2>1. /\ disk[c].gen \in Nat /\ "pem" \in Role /\ live[c].gen \in Nat
          /\ live[c] = [gen |-> live[c].gen, rev |-> live[c].rev]
          /\ \A r \in Role : files[c][r] \in Int
        BY DEF IndInv, TypeOK, View, Content, Corrupt, Role
    <2>2. mem[c] = disk[c]
        BY DEF IndInv, MemoryIsSaved
    <2>3. "pem" \in RolesOf(c)
        BY LayoutAssumption DEF RolesOf, Layouts
    <2>4. disk[c].gen # 0 /\ files[c]["pem"] = disk[c].gen
        BY <2>2, <2>3 DEF NeedsFetch, Missing, WrongThumbprint
    <2>5. /\ Served(c, disk[c])
          /\ \A r \in Role : files[c][r] > 0 => files[c][r] >= disk[c].gen
        BY DEF IndInv, ViewsAreSound, Sound
    <2>6. /\ \A r \in Role : files[c][r] <= disk[c].gen
          /\ disk[c].gen >= live[c].gen
        BY <2>1, <2>4 DEF IndInv, PemIsNewest
    <2>7. live[c].gen = disk[c].gen /\ live[c].rev = disk[c].rev
        BY <2>1, <2>5, <2>6 DEF Served
    <2>8. \A r \in Intact(c) : files[c][r] = disk[c].gen
        BY <2>1, <2>5, <2>6 DEF Intact
    <2> QED
        BY <2>1, <2>7, <2>8
<1> QED
    BY <1>1, Invariance, PTL

\* Steps that leave files and service alone move nothing backwards.
LEMMA StillForward ==
    ASSUME TypeOK, UNCHANGED <<files, live>> PROVE Forward
<1>1. \A c \in Configs : /\ live[c].gen \in Nat
                         /\ \A r \in Role : files[c][r] \in Int
    BY DEF TypeOK, Content, Corrupt
<1> QED
    BY <1>1 DEF Forward

\* Nor does a reload, of files that are no older than what the service runs.
LEMMA LoadForward ==
    ASSUME IndInv, files' = files, pc \in {"perms", "cmd"},
           live' \in {live, Loaded(cur)}
    PROVE  Forward
<1>1. TypeOK /\ cur \in Configs
    BY CurrentIsConfig DEF IndInv, OnOne
<1>2. CASE live' = live
    BY <1>1, <1>2, StillForward
<1>3. CASE live' = Loaded(cur)
    <2>1. /\ \A d \in Configs : d # cur => live'[d] = live[d]
          /\ live'[cur].gen = files[cur]["pem"]
        BY <1>1, <1>3, LoadedEffect
    <2>2. files[cur]["pem"] >= live[cur].gen
        BY <1>1 DEF IndInv, ApplyPhase, PemIsNewest, Role
    <2>3. \A c \in Configs : /\ live[c].gen \in Nat
                             /\ \A r \in Role : files[c][r] \in Int
        BY <1>1 DEF TypeOK, Content, Corrupt
    <2> QED
        BY <1>1, <2>1, <2>2, <2>3 DEF Forward
<1> QED
    BY <1>2, <1>3

\* The service and every undamaged file only ever move to newer certificates.
THEOREM CertificatesOnlyAdvance == Spec => NeverBackwards
<1>1. ASSUME IndInv, [Next]_vars PROVE Forward
    <2>0. TypeOK
        BY <1>1 DEF IndInv
    <2>1. CASE Polling \/ Ending
        <3>1. UNCHANGED <<files, live>>
            BY <2>1
            DEF Polling, Ending, RunAgent, Tick, PollFailed, PollForbidden, PollNoContent,
                PollUpdated, PollUnsaved, EndLoop, SaveStatuses, SaveFails,
                ReportStatuses, ReportFails, world
        <3> QED
            BY <2>0, <3>1, StillForward
    <2>2. ASSUME NEW c \in Configs, Deciding(c) PROVE Forward
        <3>1. UNCHANGED <<files, live>>
            BY <2>2 DEF Deciding, Reject, Skip, StatFails, ReadFails, Compare, world
        <3> QED
            BY <2>0, <3>1, StillForward
    <2>3. CASE FetchOk \/ FetchRefused \/ FetchFails \/ WriteFails \/ PermissionsFail
        <3>1. UNCHANGED <<files, live>>
            BY <2>3 DEF FetchOk, FetchRefused, FetchFails, WriteFails, PermissionsFail, world
        <3> QED
            BY <2>0, <3>1, StillForward
    <2>4. CASE WriteFile
        <3>1. cur \in Configs /\ pc = "write" /\ live' = live
            BY <2>4, <1>1, CurrentIsConfig DEF WriteFile, OnOne
        <3>2. PICK r \in Role : files' = [files EXCEPT ![cur][r] = got]
            BY <2>4, <1>1, WriteEffect
        <3>3. \A q \in Role : files[cur][q] <= got
            BY <1>1, <3>1 DEF IndInv, WritePhase
        <3>4. \A c \in Configs : /\ live[c].gen \in Nat
                                 /\ \A q \in Role : files[c][q] \in Int
            BY <2>0 DEF TypeOK, Content, Corrupt
        <3>5. \A c \in Configs, q \in Role : files'[c][q] >= files[c][q]
            BY <2>0, <3>1, <3>2, <3>3, <3>4 DEF TypeOK
        <3> QED
            BY <3>1, <3>4, <3>5 DEF Forward
    <2>5. CASE ApplyPermissions \/ RunUpdateCommand \/ UpdateCommandFails
        <3>1. files' = files /\ pc \in {"perms", "cmd"} /\ live' \in {live, Loaded(cur)}
            BY <2>5 DEF ApplyPermissions, RunUpdateCommand, UpdateCommandFails
        <3> QED
            BY <1>1, <3>1, LoadForward
    <2>6. CASE Crash
        BY <2>0, <2>6, StillForward DEF Crash, world
    <2>7. ASSUME NEW c \in Configs, NEW r \in Role, NEW kind,
                 NEW content \in {Absent, Corrupt}, Tamper(c, r, kind, content)
          PROVE  Forward
        <3>1. live' = live /\ files' = [files EXCEPT ![c][r] = content]
            BY <2>7 DEF Tamper
        <3>2. content \in {0, -1}
            BY DEF Absent, Corrupt
        <3>3. \A d \in Configs : /\ live[d].gen \in Nat
                                 /\ \A q \in Role : files[d][q] \in Int
            BY <2>0 DEF TypeOK, Content, Corrupt
        <3>4. \A d \in Configs, q \in Role : \/ files'[d][q] = files[d][q]
                                             \/ files'[d][q] \in {0, -1}
            BY <2>0, <3>1, <3>2 DEF TypeOK
        <3> QED
            BY <3>1, <3>3, <3>4 DEF Forward
    <2>8. ASSUME NEW c \in Configs, Issue(c) \/ \E form \in Form : Edit(c, form)
          PROVE  Forward
        BY <2>0, <2>8, StillForward DEF Issue, Edit, world
    <2>9. CASE UNCHANGED vars
        BY <2>0, <2>9, StillForward DEF vars, world
    <2> QED
        BY <1>1, <2>1, <2>2, <2>3, <2>4, <2>5, <2>6, <2>7, <2>8, <2>9
        DEF Next, AgentStep, Installing, Environment
<1> QED
    BY <1>1, Invariance, PTL DEF Spec, NeverBackwards

-----------------------------------------------------------------------------
(* False alarms *)

\* An alarm about a view that is no longer assigned is not raised by what is assigned next.
LEMMA AlarmlessLater ==
    ASSUME NEW v \in View, NEW w \in View, NEW x \in View,
           v.gen <= w.gen, v.rev <= w.rev, v.rev = w.rev => v.form = w.form,
           w.gen <= x.gen, w.rev <= x.rev, w.rev = x.rev => w.form = x.form,
           Alarmless(v, w)
    PROVE  Alarmless(v, x)
<1>1. v.gen \in Nat /\ v.rev \in Nat /\ w.gen \in Nat /\ w.rev \in Nat
      /\ x.gen \in Nat /\ x.rev \in Nat
    BY DEF View
<1>2. SameView(v, x) => SameView(v, w)
    BY <1>1 DEF SameView
<1> QED
    BY <1>2 DEF Alarmless

\* Nor is one by a view that differs from the assigned one in its status only.
LEMMA AlarmlessCopy ==
    ASSUME NEW v, NEW w, NEW x, Alarmless(v, w), SameView(w, x)
    PROVE  Alarmless(v, x)
BY DEF Alarmless, SameView

\* No statement but an error can be a false alarm.
LEMMA NoAlarm ==
    ASSUME NEW v, NEW w, v.status \notin Errors \/ v.form # "ok"
    PROVE  Alarmless(v, w)
BY DEF Alarmless

\* SYNCED and PENDING_SYNC are no errors.
LEMMA ErrorNames ==
    Synced \notin Errors /\ Pending \notin Errors
BY DEF Errors

\* A step that records statuses only, none of them a false alarm.
LEMMA RecordKeepsCalm ==
    ASSUME NEW c \in Configs, CalmOn(c), UNCHANGED <<server, disk>>,
           \A r \in Role : files'[c][r] # Corrupt,
           SameView(mem'[c], mem[c]), Alarmless(mem'[c], server[c])
    PROVE  CalmOn(c)'
<1>1. SameView(mem'[c], disk[c]) /\ mem'[c].rev = mem[c].rev /\ mem'[c].form = mem[c].form
    BY DEF SameView, CalmOn
<1> QED
    BY <1>1 DEF CalmOn, Alarmless, SameView

\* A pass that ends without a fault tells the server what it has found.
LEMMA ReportKeepsCalm ==
    ASSUME IndInv, NEW c \in Configs, CalmOn(c), server' = Reported, UNCHANGED <<disk, files>>,
           mem' \in {mem, disk}
    PROVE  CalmOn(c)'
<1>1. TypeOK
    BY DEF IndInv
<1>2. SameView(server'[c], server[c])
    BY <1>1, ReportedEffect
<1>3. Alarmless(mem[c], server[c]) /\ Alarmless(disk[c], server[c])
    BY DEF CalmOn
<1>4. Alarmless(mem'[c], server'[c]) /\ Alarmless(disk[c], server'[c])
    BY <1>2, <1>3 DEF Alarmless, SameView
<1>5. Alarmless(server'[c], disk[c])
    <2>1. CASE batch[c] = NoStatus
        BY <1>1, <2>1, ReportedEffect DEF CalmOn
    <2>2. CASE batch[c] # NoStatus
        <3>1. server'[c].status = mem[c].status
            BY <1>1, <2>2, ReportedEffect DEF IndInv, BatchIsMemory
        <3> QED
            BY <1>2, <1>3, <3>1 DEF CalmOn, Alarmless, SameView
    <2> QED
        BY <2>1, <2>2
<1>6. SameView(mem'[c], disk[c]) /\ (mem'[c].rev = server'[c].rev => mem'[c].form = server'[c].form)
    BY <1>2 DEF CalmOn, SameView
<1> QED
    BY <1>4, <1>5, <1>6 DEF CalmOn

\* A new list replaces memory and config.json, with the alarms the server still shows.
LEMMA DeliveryKeepsCalm ==
    ASSUME TypeOK, NEW c \in Configs, CalmOn(c), server' = Delivered, mem' = Delivered,
           disk' = Delivered, files' = files
    PROVE  CalmOn(c)'
<1>1. SameView(Delivered[c], Delivered[c])
    BY DEF SameView
<1>2. Alarmless(Delivered[c], Delivered[c])
    <2>1. CASE SameView(mem[c], server[c])
        <3>1. Delivered[c] = server[c] /\ SameView(server[c], disk[c])
            BY <2>1, DeliveredEffect DEF CalmOn, SameView
        <3> QED
            BY <3>1 DEF CalmOn, Alarmless
    <2>2. CASE ~SameView(mem[c], server[c])
        BY <2>2, DeliveredEffect, ErrorNames, NoAlarm
    <2> QED
        BY <2>1, <2>2
<1> QED
    BY <1>1, <1>2 DEF CalmOn

\* What the server changes it marks as pending, and every record of it is out of date.
LEMMA AssignmentKeepsCalm ==
    ASSUME IndInv, NEW d \in Configs, CalmOn(d), NEW c \in Configs,
           Issue(c) \/ \E form \in Form : Edit(c, form), TypeOK'
    PROVE  CalmOn(d)'
<1>1. TypeOK /\ server[d] \in View /\ server'[d] \in View /\ mem[d] \in View /\ disk[d] \in View
    BY DEF IndInv, TypeOK
<1>2. UNCHANGED <<disk, mem, files>>
    BY DEF Issue, Edit, world
<1>3. CASE d # c
    BY <1>1, <1>2, <1>3, IssueEffect, EditEffect DEF CalmOn
<1>4. CASE d = c
    <2>1. server'[d].status = Pending
        BY <1>1, <1>4, IssueEffect, EditEffect
    <2>2. /\ server[d].gen <= server'[d].gen /\ server[d].rev <= server'[d].rev
          /\ server[d].rev = server'[d].rev => server[d].form = server'[d].form
        <3>0. server[d].gen \in Nat /\ server[d].rev \in Nat
            BY <1>1 DEF View
        <3>1. CASE Issue(c)
            <4>1. /\ server'[d].gen = server[d].gen + 1 /\ server'[d].rev = server[d].rev
                  /\ server'[d].form = server[d].form
                BY <1>1, <1>4, <3>1 DEF Issue, TypeOK, View
            <4> QED
                BY <3>0, <4>1
        <3>2. ASSUME NEW form \in Form, Edit(c, form)
              PROVE  server'[d].gen = server[d].gen /\ server'[d].rev = server[d].rev + 1
            BY <1>1, <1>4, <3>2 DEF Edit, TypeOK, View
        <3> QED
            BY <3>0, <3>1, <3>2
    <2>3. /\ mem[d].gen <= server[d].gen /\ mem[d].rev <= server[d].rev
          /\ disk[d].gen = mem[d].gen /\ disk[d].rev = mem[d].rev /\ disk[d].form = mem[d].form
          /\ mem[d].rev = server[d].rev => mem[d].form = server[d].form
        BY DEF IndInv, ServerIsNewest, RevisionsInOrder, CalmOn, SameView
    <2>4. Alarmless(mem[d], server'[d])
        BY <1>1, <2>2, <2>3, AlarmlessLater DEF CalmOn
    <2>5. Alarmless(disk[d], server'[d])
        BY <1>1, <2>2, <2>3, AlarmlessLater DEF CalmOn
    <2>6. Alarmless(server'[d], disk[d])
        BY <2>1, ErrorNames, NoAlarm
    <2>7. mem[d].rev = server'[d].rev => mem[d].form = server'[d].form
        <3>1. mem[d].rev \in Nat /\ server[d].rev \in Nat /\ server'[d].rev \in Nat
            BY <1>1 DEF View
        <3> QED
            BY <2>2, <2>3, <3>1
    <2> QED
        BY <1>2, <2>4, <2>5, <2>6, <2>7 DEF CalmOn
<1> QED
    BY <1>3, <1>4

\* Every step keeps the calm.
LEMMA CalmStep ==
    ASSUME IndInv, TypeOK', Calm, [Next]_vars
    PROVE  Calm'
<1> SUFFICES ASSUME spent' = 0, NEW d \in Configs PROVE CalmOn(d)'
    BY DEF Calm
<1>0. TypeOK /\ spent \in Nat
    BY DEF IndInv, TypeOK
<1>1. ASSUME NEW kind, Disrupt(kind) PROVE FALSE
    BY <1>0, <1>1 DEF Disrupt
<1>2. ASSUME spent' = spent PROVE CalmOn(d)
    BY <1>2 DEF Calm
<1>3. ASSUME CalmOn(d) PROVE \A r \in Role : files[d][r] # Corrupt
    BY <1>3 DEF CalmOn
<1>4. ASSUME spent' = spent, UNCHANGED <<server, disk, files>>, mem' \in {mem, disk}
      PROVE  CalmOn(d)'
    <2>1. CalmOn(d) /\ SameView(mem'[d], mem[d]) /\ Alarmless(mem'[d], server[d])
        BY <1>2, <1>4 DEF CalmOn, SameView
    <2> QED
        BY <1>3, <1>4, <2>1, RecordKeepsCalm
<1>5. ASSUME NEW c \in Configs, NEW status \in Status, Finish(c, status), spent' = spent,
             UNCHANGED <<server, disk, files>>, Alarmless(mem'[c], server[c])
      PROVE  CalmOn(d)'
    <2>1. CalmOn(d) /\ SameView(mem'[d], mem[d])
        BY <1>0, <1>2, <1>5, FinishEffect
    <2>2. Alarmless(mem'[d], server[d])
        <3>1. CASE d = c
            BY <1>5, <3>1
        <3>2. CASE d # c
            BY <1>0, <1>5, <2>1, <3>2, FinishEffect DEF CalmOn
        <3> QED
            BY <3>1, <3>2
    <2> QED
        BY <1>3, <1>5, <2>1, <2>2, RecordKeepsCalm
<1>6. CASE RunAgent \/ Tick \/ EndLoop \/ FetchOk \/ UNCHANGED vars
    BY <1>4, <1>6 DEF RunAgent, Tick, EndLoop, FetchOk, vars, world, pass
<1>7. CASE PollNoContent
    <2>1. mem' \in {mem, disk}
        BY <1>7, ReturnMemory DEF PollNoContent
    <2> QED
        BY <1>4, <1>7, <2>1 DEF PollNoContent, world
<1>8. CASE PollUpdated
    <2>1. CalmOn(d)
        BY <1>2, <1>8 DEF PollUpdated
    <2> QED
        BY <1>0, <1>8, <2>1, DeliveryKeepsCalm DEF PollUpdated, world
<1>9. CASE PollFailed \/ PollForbidden \/ PollUnsaved \/ FetchFails \/ WriteFails
           \/ PermissionsFail \/ UpdateCommandFails \/ SaveFails \/ ReportFails \/ Crash
    BY <1>1, <1>9
    DEF PollFailed, PollForbidden, PollUnsaved, FetchFails, WriteFails, PermissionsFail,
        UpdateCommandFails, SaveFails, ReportFails, Crash
<1>10. ASSUME NEW c \in Configs, Deciding(c) PROVE CalmOn(d)'
    <2>1. CASE Reject(c)
        <3>1. Finish(c, ErrorOther) /\ mem[c].form # "ok"
            BY <2>1 DEF Reject
        <3>2. Alarmless(mem'[c], server[c])
            BY <1>0, <3>1, StatusNames, FinishEffect, NoAlarm DEF SameView
        <3> QED
            BY <1>5, <2>1, <3>1, <3>2, StatusNames DEF Reject, world
    <2>2. CASE Skip(c)
        BY <1>4, <2>2 DEF Skip, world
    <2>3. CASE StatFails(c)
        BY <1>1, <2>3 DEF StatFails
    <2>4. CASE ReadFails(c)
        <3>1. CalmOn(c) /\ files[c]["pem"] = Corrupt /\ "pem" \in Role
            BY <1>2, <2>4 DEF ReadFails, Unreadable, Calm, Role
        <3> QED
            BY <3>1 DEF CalmOn
    <2>5. CASE Compare(c)
        <3>1. mem' = mem \/ Finish(c, Synced)
            BY <2>5 DEF Compare, Visit
        <3>2. CASE mem' = mem
            BY <1>4, <2>5, <3>2 DEF Compare, world
        <3>3. CASE Finish(c, Synced)
            <4>1. Alarmless(mem'[c], server[c])
                BY <1>0, <3>3, StatusNames, FinishEffect, ErrorNames, NoAlarm
            <4> QED
                BY <1>5, <2>5, <3>3, <4>1, StatusNames DEF Compare, world
        <3> QED
            BY <3>1, <3>2, <3>3
    <2> QED
        BY <1>10, <2>1, <2>2, <2>3, <2>4, <2>5 DEF Deciding
<1>11. CASE FetchRefused
    <2>1. cur \in Configs /\ mem[cur].form = "ok" /\ spent' = spent
        BY <1>11 DEF IndInv, OneIsComplete, OnOne, FetchRefused
    <2>2. PICK status \in {ErrorGet, ErrorWrite} : Finish(cur, status)
        BY <1>11 DEF FetchRefused
    <2>3. status \in Status
        BY StatusNames
    <2>4. server[cur].form = "none" \/ server[cur].gen = 0
        BY <1>11 DEF FetchRefused
    <2>5. Alarmless(mem'[cur], server[cur])
        <3>1. SameView(mem'[cur], mem[cur])
            BY <1>0, <2>1, <2>2, <2>3, FinishEffect
        <3> QED
            BY <2>1, <2>4, <3>1 DEF Alarmless, SameView
    <2> QED
        BY <1>5, <1>11, <2>1, <2>2, <2>3, <2>5 DEF FetchRefused, world
<1>12. CASE WriteFile
    <2>1. CalmOn(d) /\ cur \in Configs /\ got \in Nat
        BY <1>0, <1>2, <1>12, CurrentIsConfig DEF WriteFile, OnOne, TypeOK
    <2>2. PICK r \in Role : files' = [files EXCEPT ![cur][r] = got]
        BY <1>12, WriteEffect
    <2>3. \A q \in Role : files'[d][q] # Corrupt
        BY <1>0, <1>3, <2>1, <2>2 DEF TypeOK, Corrupt
    <2>4. UNCHANGED <<server, disk, mem>>
        BY <1>12 DEF WriteFile
    <2> QED
        BY <2>1, <2>3, <2>4, RecordKeepsCalm DEF CalmOn, SameView
<1>13. CASE ApplyPermissions \/ RunUpdateCommand
    <2>1. pc \in {"perms", "cmd"} /\ cur \in Configs
        BY <1>13, CurrentIsConfig DEF ApplyPermissions, RunUpdateCommand, OnOne
    <2>2. mem' = mem \/ Finish(cur, Synced)
        BY <1>13 DEF ApplyPermissions, RunUpdateCommand
    <2>3. spent' = spent /\ UNCHANGED <<server, disk, files>>
        BY <1>13 DEF ApplyPermissions, RunUpdateCommand
    <2>4. CASE Finish(cur, Synced)
        <3>1. Alarmless(mem'[cur], server[cur])
            BY <1>0, <2>1, <2>4, StatusNames, FinishEffect, ErrorNames, NoAlarm
        <3> QED
            BY <1>5, <2>1, <2>3, <2>4, <3>1, StatusNames
    <2> QED
        BY <1>4, <2>2, <2>3, <2>4
<1>14. CASE SaveStatuses
    <2>1. CalmOn(d) /\ disk' = mem /\ UNCHANGED <<server, mem, files>>
        BY <1>2, <1>14 DEF SaveStatuses, world
    <2> QED
        BY <2>1 DEF CalmOn, Alarmless, SameView
<1>15. CASE ReportStatuses
    <2>1. CalmOn(d) /\ server' = Reported /\ UNCHANGED <<disk, files>>
        BY <1>2, <1>15 DEF ReportStatuses, world
    <2> QED
        BY <1>15, <2>1, ReturnMemory, ReportKeepsCalm DEF ReportStatuses
<1>16. ASSUME NEW c \in Configs, NEW r \in Role,
              Tamper(c, r, "delete", Absent) \/ Tamper(c, r, "corrupt", Corrupt)
       PROVE  FALSE
    BY <1>1, <1>16 DEF Tamper
<1>17. ASSUME NEW c \in Configs, Issue(c) \/ \E form \in Form : Edit(c, form)
       PROVE  CalmOn(d)'
    <2>1. CalmOn(d)
        BY <1>2, <1>17 DEF Issue, Edit
    <2> QED
        BY <1>17, <2>1, AssignmentKeepsCalm
<1> QED
    BY <1>6, <1>7, <1>8, <1>9, <1>10, <1>11, <1>12, <1>13, <1>14, <1>15, <1>16, <1>17
    DEF Next, AgentStep, Polling, Installing, Ending, Environment

\* At first nothing is assigned.
LEMMA CalmInit == Init => Calm
<1> SUFFICES ASSUME Init, NEW c \in Configs PROVE CalmOn(c)
    BY DEF Calm
<1>1. Alarmless(Nothing, Nothing)
    BY ErrorNames, NoAlarm DEF Nothing
<1> QED
    BY <1>1 DEF Init, CalmOn, SameView, Absent, Corrupt

-----------------------------------------------------------------------------
(* Passes *)

\* A visit ends with one configuration less to visit, and one that is not pending.
LEMMA FinishVisits ==
    ASSUME TypeOK, Visited, pc \in {"next", "fetch", "write", "perms", "cmd"},
           NEW c \in Configs, NEW status \in Status \ {Pending}, Finish(c, status)
    PROVE  Visited'
<1>1. /\ pc' = "next" /\ todo' = todo \ {c}
      /\ mem'[c].status # Pending
      /\ \A d \in Configs : d # c => mem'[d] = mem[d]
    BY FinishEffect DEF Finish
<1>2. \A d \in Configs \ todo : mem[d].form = "ok" => mem[d].status # Pending
    BY DEF Visited, InPass
<1> QED
    BY <1>1, <1>2 DEF Visited, InPass, OnOne

\* Outside a pass there is nothing to know.
LEMMA OutsideVisits ==
    ASSUME pc' \in {"down", "poll", "idle"}
    PROVE  Visited'
BY DEF Visited, InPass, OnOne

\* A pass begins with everything that is assigned.
LEMMA BeginVisits ==
    ASSUME NEW m, m = mem', BeginPass(m)
    PROVE  Visited'
BY DEF Visited, InPass, OnOne, BeginPass

\* No step takes a configuration for visited that is not.
LEMMA VisitedStep ==
    ASSUME IndInv, Visited, [Next]_vars
    PROVE  Visited'
<1>0. /\ TypeOK
      /\ {Synced, ErrorCmd, ErrorGet, ErrorWrite, ErrorOther} \subseteq Status \ {Pending}
    BY StatusNames DEF IndInv, Pending, Synced, ErrorCmd, ErrorGet, ErrorWrite, ErrorOther
<1>1. ASSUME NEW auth, Return(auth) PROVE Visited'
    BY <1>1, OutsideVisits DEF Return, ProcessGone
<1>2. ASSUME UNCHANGED <<mem, pc, todo, cur>> PROVE Visited'
    BY <1>2 DEF Visited, InPass, OnOne
<1>3. CASE RunAgent \/ Tick
    BY <1>3, OutsideVisits DEF RunAgent, Tick
<1>4. CASE PollFailed \/ PollForbidden \/ ReportStatuses \/ ReportFails
    BY <1>1, <1>4 DEF PollFailed, PollForbidden, ReportStatuses, ReportFails
<1>5. CASE PollNoContent
    <2>1. CASE trigger = "startup"
        BY <1>5, <2>1, BeginVisits DEF PollNoContent
    <2>2. CASE trigger # "startup"
        BY <1>1, <1>5, <2>2 DEF PollNoContent
    <2> QED
        BY <2>1, <2>2
<1>6. CASE PollUpdated
    <2>1. mem' = Delivered /\ BeginPass(Delivered)
        BY <1>6 DEF PollUpdated
    <2> QED
        BY <2>1, BeginVisits
<1>7. CASE PollUnsaved
    <2>1. pc' \in {"down", "idle"}
        BY <1>7 DEF PollUnsaved, ProcessGone
    <2> QED
        BY <2>1, OutsideVisits
<1>8. ASSUME NEW c \in Configs, Deciding(c) PROVE Visited'
    <2>1. pc = "next" /\ c \in todo
        BY <1>8 DEF Deciding, Reject, Skip, StatFails, ReadFails, Compare
    <2>2. ASSUME NEW point \in {"fetch", "perms"}, Visit(c, point) PROVE Visited'
        BY <2>1, <2>2 DEF Visit, Visited, InPass, OnOne
    <2>3. CASE Reject(c) \/ ReadFails(c) \/ StatFails(c) \/ Compare(c)
        BY <1>0, <2>1, <2>2, <2>3, FinishVisits DEF Reject, ReadFails, StatFails, Compare
    <2>4. CASE Skip(c)
        BY <2>1, <2>4 DEF Skip, Visited, InPass, OnOne, process
    <2> QED
        BY <1>8, <2>3, <2>4 DEF Deciding
<1>9. CASE FetchOk \/ WriteFile
    <2>1. UNCHANGED <<mem, todo, cur>> /\ OnOne /\ pc' \in {"write", "perms"}
        BY <1>9 DEF FetchOk, WriteFile, OnOne
    <2> QED
        BY <2>1 DEF Visited, InPass, OnOne
<1>10. CASE FetchRefused \/ FetchFails \/ WriteFails \/ PermissionsFail
            \/ RunUpdateCommand \/ UpdateCommandFails
    <2>1. OnOne /\ pc \in {"fetch", "write", "perms", "cmd"}
        BY <1>10 DEF FetchRefused, FetchFails, WriteFails, PermissionsFail,
                     RunUpdateCommand, UpdateCommandFails, OnOne
    <2>2. cur \in Configs
        BY <2>1, CurrentIsConfig
    <2>3. \E status \in {Synced, ErrorCmd, ErrorGet, ErrorWrite} : Finish(cur, status)
        BY <1>10 DEF FetchRefused, FetchFails, WriteFails, PermissionsFail,
                     RunUpdateCommand, UpdateCommandFails
    <2> QED
        BY <1>0, <2>1, <2>2, <2>3, FinishVisits
<1>11. CASE ApplyPermissions
    <2>1. pc = "perms" /\ cur \in Configs
        BY <1>11, CurrentIsConfig DEF ApplyPermissions, OnOne
    <2>2. CASE cur \in Commanded
        BY <1>11, <2>1, <2>2 DEF ApplyPermissions, pass, Visited, InPass, OnOne
    <2>3. CASE cur \notin Commanded
        BY <1>0, <1>11, <2>1, <2>3, FinishVisits DEF ApplyPermissions
    <2> QED
        BY <2>2, <2>3
<1>12. CASE EndLoop
    BY <1>12 DEF EndLoop, pass, Visited, InPass, OnOne
<1>13. CASE SaveStatuses \/ SaveFails
    BY <1>13 DEF SaveStatuses, SaveFails, pass, Visited, InPass, OnOne
<1>14. CASE Crash
    BY <1>14, OutsideVisits DEF Crash, ProcessGone
<1>15. ASSUME NEW c \in Configs, NEW r \in Role,
              Tamper(c, r, "delete", Absent) \/ Tamper(c, r, "corrupt", Corrupt)
       PROVE  Visited'
    BY <1>2, <1>15 DEF Tamper, process, pass
<1>16. ASSUME NEW c \in Configs, Issue(c) \/ \E form \in Form : Edit(c, form)
       PROVE  Visited'
    BY <1>2, <1>16 DEF Issue, Edit, process, pass
<1>17. CASE UNCHANGED vars
    BY <1>2, <1>17 DEF vars, process, pass
<1> QED
    BY <1>3, <1>4, <1>5, <1>6, <1>7, <1>8, <1>9, <1>10, <1>11, <1>12, <1>13, <1>14,
       <1>15, <1>16, <1>17
    DEF Next, AgentStep, Polling, Installing, Ending, Environment

\* What the three theorems below rest on, for every behaviour: without a fault memory,
\* config.json and server differ only by what was edited since, an error on record is about a
\* view that is assigned no more or has no certificate, and a pass that ends has visited
\* every configuration and left none of them pending (synchronize.go:26-168).
THEOREM PassInvariance == Spec => []PassInv
<1>1. Init => PassInv
    BY CalmInit DEF PassInv, Init, Visited, InPass, OnOne
<1>2. IndInv /\ PassInv /\ [Next]_vars => PassInv'
    BY TypeStep, CalmStep, VisitedStep DEF PassInv
<1> QED
    BY <1>1, <1>2, Invariance, PTL DEF Spec

\* Where nothing failed, no error that the server shows is due to a race: it says that there
\* is no certificate yet, whatever the server issued, changed or withdrew during the passes.
THEOREM NobodyIsAlarmed == Spec => []NoFalseAlarm
<1>1. PassInv => NoFalseAlarm
    BY DEF PassInv, Calm, CalmOn, Alarmless, NoFalseAlarm
<1> QED
    BY <1>1, PassInvariance, PTL

\* A visit that has nothing to do finds the installation whole: the PEM is of the certificate
\* named, no file is older, and neither is what the service runs.
LEMMA SkipFindsWhole ==
    ASSUME IndInv, NEW c \in Configs, mem[c].form = "ok", mem[c].status = Synced,
           ~NeedsFetch(c), UNCHANGED <<files, live>>
    PROVE  Whole(c)'
<1>1. /\ mem[c].gen \in Nat /\ live[c].gen \in Nat /\ "pem" \in Role
      /\ \A r \in Role : files[c][r] \in Content
      /\ RolesOf(c) \subseteq Role /\ "pem" \in RolesOf(c)
    BY LayoutAssumption DEF IndInv, TypeOK, View, Role, RolesOf, Layouts
<1>2. /\ mem[c].gen > 0 /\ files[c]["pem"] = mem[c].gen
      /\ \A r \in RolesOf(c) : files[c][r] # Absent
    BY <1>1 DEF NeedsFetch, Missing, WrongThumbprint
<1>3. Served(c, mem[c]) /\ \A r \in Role : files[c][r] > 0 => files[c][r] >= mem[c].gen
    BY DEF IndInv, ViewsAreSound, Sound
<1>4. /\ \A r \in Role : files[c][r] <= files[c]["pem"]
      /\ files[c]["pem"] >= live[c].gen
    BY <1>1, <1>2 DEF IndInv, PemIsNewest
<1>5. live[c].gen = files[c]["pem"]
    BY <1>1, <1>2, <1>3, <1>4 DEF Served
<1>6. \A r \in RolesOf(c) : files[c][r] \in {files[c]["pem"], Corrupt}
    BY <1>1, <1>2, <1>3, <1>4 DEF Content, Corrupt, Absent
<1> QED
    BY <1>5, <1>6 DEF Whole

\* So does a visit that has the service loaded again.
LEMMA LoadLeavesWhole ==
    ASSUME IndInv, NEW c \in Configs, c = cur, pc \in {"perms", "cmd"},
           live' = Loaded(c), files' = files
    PROVE  Whole(c)'
<1>1. /\ \A r \in Role : files[c][r] \in Content
      /\ RolesOf(c) \subseteq Role
    BY LayoutAssumption DEF IndInv, TypeOK, Role, RolesOf, Layouts
<1>2. /\ \A r \in Role : files[c][r] > 0 => files[c][r] = files[c]["pem"]
      /\ \A r \in RolesOf(c) : files[c][r] # Absent
    BY DEF IndInv, ApplyPhase
<1>3. live'[c].gen = files[c]["pem"]
    BY DEF Loaded, IndInv, TypeOK
<1>4. \A r \in RolesOf(c) : files[c][r] \in {files[c]["pem"], Corrupt}
    BY <1>1, <1>2 DEF Content, Corrupt, Absent
<1> QED
    BY <1>3, <1>4 DEF Whole

\* A visit that ends without a fault ends with SYNCED and a whole installation, where a
\* certificate is to be had.
LEMMA VisitEnds ==
    ASSUME IndInv, Visited, Next, NEW c \in Configs,
           InPass, c \in todo \ todo', spent' = spent,
           mem[c].form = "ok", ~Unreadable(c),
           server[c].form # "none", server[c].gen > 0
    PROVE  Finish(c, Synced) /\ Whole(c)'
<1>0. spent \in Nat
    BY DEF IndInv, TypeOK
<1>1. \A kind : ~Disrupt(kind)
    BY <1>0 DEF Disrupt
<1>2. pc \notin {"down", "poll", "idle", "save", "report"}
    BY DEF Visited, InPass
<1>3. CASE Polling
    BY <1>1, <1>2, <1>3
    DEF Polling, RunAgent, Tick, PollFailed, PollForbidden, PollNoContent, PollUpdated, PollUnsaved
<1>4. ASSUME NEW d \in Configs, Deciding(d) PROVE Finish(c, Synced) /\ Whole(c)'
    <2>1. CASE Reject(d)
        BY <2>1 DEF Reject, Finish
    <2>2. CASE Skip(d)
        BY <2>2 DEF Skip
    <2>3. CASE StatFails(d)
        BY <1>1, <2>3 DEF StatFails
    <2>4. CASE ReadFails(d)
        BY <2>4 DEF ReadFails, Finish
    <2>5. CASE Compare(d)
        <3>1. \A point : ~Visit(d, point)
            BY DEF Visit
        <3>2. Finish(d, Synced)
            BY <2>5, <3>1 DEF Compare
        <3>3. d = c
            BY <3>2 DEF Finish
        <3>4. /\ ~NeedsFetch(c) /\ ~RetryFull(mem[c].status) /\ ~ShouldApply(c)
              /\ UNCHANGED <<files, live>>
            BY <2>5, <3>1, <3>3 DEF Compare, world
        <3>5. mem[c].status \in Status
            BY DEF IndInv, TypeOK, View
        <3>6. mem[c].status = Synced
            BY <3>4, <3>5 DEF ShouldApply, RetryFull, RetryUpdateOnly, Status
        <3> QED
            BY <3>2, <3>3, <3>4, <3>6, SkipFindsWhole
    <2> QED
        BY <1>4, <2>1, <2>2, <2>3, <2>4, <2>5 DEF Deciding
<1>5. CASE Installing
    <2>1. ASSUME NEW status, Finish(cur, status) PROVE cur = c
        BY <2>1 DEF Finish
    <2>2. CASE FetchOk \/ WriteFile
        BY <2>2 DEF FetchOk, WriteFile
    <2>3. CASE FetchRefused
        <3>1. Finish(cur, ErrorGet) \/ Finish(cur, ErrorWrite)
            BY <2>3 DEF FetchRefused
        <3>2. cur = c
            BY <2>1, <3>1
        <3>3. server[cur].form = "none" \/ server[cur].gen = 0
            BY <2>3 DEF FetchRefused
        <3> QED
            BY <3>2, <3>3
    <2>4. CASE FetchFails \/ WriteFails \/ PermissionsFail \/ UpdateCommandFails
        BY <1>1, <2>4 DEF FetchFails, WriteFails, PermissionsFail, UpdateCommandFails
    <2>5. CASE ApplyPermissions \/ RunUpdateCommand
        <3>1. Finish(cur, Synced)
            BY <2>5 DEF ApplyPermissions, RunUpdateCommand, pass
        <3>2. cur = c /\ pc \in {"perms", "cmd"} /\ files' = files
            BY <2>1, <2>5, <3>1 DEF ApplyPermissions, RunUpdateCommand
        <3>3. pc' = "next"
            BY <3>1 DEF Finish
        <3>4. live' = Loaded(c)
            BY <2>5, <3>2, <3>3 DEF ApplyPermissions, RunUpdateCommand
        <3> QED
            BY <3>1, <3>2, <3>4, LoadLeavesWhole
    <2> QED
        BY <1>5, <2>2, <2>3, <2>4, <2>5 DEF Installing
<1>6. CASE Ending
    BY <1>1, <1>2, <1>6 DEF Ending, EndLoop, SaveStatuses, SaveFails, ReportStatuses, ReportFails, pass
<1>7. CASE Environment
    BY <1>1, <1>7 DEF Environment, Crash, Tamper, Issue, Edit, pass
<1> QED
    BY <1>3, <1>4, <1>5, <1>6, <1>7 DEF Next, AgentStep

\* A visit installs what it is about, whatever failures before it left behind: all files of it
\* are then of one certificate, and that SYNCED means in use is part of the invariant of the
\* state after it.
THEOREM VisitsDoInstall == Spec => VisitsInstall
<1>1. ASSUME IndInv, IndInv', Visited, [Next]_vars PROVE [VisitInstalls]_vars
    <2> SUFFICES ASSUME Next PROVE VisitInstalls
        BY <1>1
    <2>1. ASSUME NEW c \in Configs, InPass, c \in todo \ todo', spent' = spent,
                 mem[c].form = "ok", ~Unreadable(c), server[c].form # "none", server[c].gen > 0
          PROVE  mem'[c].status = Synced /\ Served(c, mem[c])' /\ Whole(c)'
        <3>1. Finish(c, Synced) /\ Whole(c)'
            BY <1>1, <2>1, VisitEnds
        <3>2. TypeOK /\ Synced \in Status
            BY <1>1, StatusNames DEF IndInv
        <3>3. mem'[c].status = Synced /\ mem'[c].form = "ok"
            BY <2>1, <3>1, <3>2 DEF Finish, TypeOK, View
        <3>4. Sound(c, mem[c])'
            BY <1>1 DEF IndInv, ViewsAreSound
        <3> QED
            BY <3>1, <3>3, <3>4 DEF Sound
    <2> QED
        BY <2>1 DEF VisitInstalls
<1>2. PassInv => Visited
    BY DEF PassInv
<1> QED
    BY <1>1, <1>2, Invariance, PassInvariance, PTL DEF Spec, VisitsInstall

\* One element less.
LEMMA OneLess ==
    ASSUME NEW S, IsFiniteSet(S), NEW x \in S
    PROVE  /\ IsFiniteSet(S \ {x})
           /\ Cardinality(S) \in Nat
           /\ Cardinality(S \ {x}) = Cardinality(S) - 1
BY FS_RemoveElement, FS_CardinalityType

\* One element more.
LEMMA OneMore ==
    ASSUME NEW S, IsFiniteSet(S), NEW x, NEW n \in Nat, Cardinality(S) <= n
    PROVE  IsFiniteSet(S \cup {x}) /\ Cardinality(S \cup {x}) <= n + 1
<1>1. /\ IsFiniteSet(S \cup {x}) /\ Cardinality(S) \in Nat
      /\ Cardinality(S \cup {x}) = IF x \in S THEN Cardinality(S) ELSE Cardinality(S) + 1
    BY FS_AddElement, FS_CardinalityType, Zenon
<1> QED
    BY <1>1

\* At most four files are written for a configuration.
LEMMA FilesAreFew ==
    ASSUME NEW S \in SUBSET Role
    PROVE  IsFiniteSet(S) /\ Cardinality(S) \in 0 .. 4
<1>1. IsFiniteSet(Role) /\ Cardinality(Role) <= 4
    <2> DEFINE A == {"pem"}
               B == A \cup {"chain"}
               C == B \cup {"key"}
               D == C \cup {"password"}
    <2>1. IsFiniteSet(A) /\ Cardinality(A) <= 1
        BY FS_Singleton
    <2>2. IsFiniteSet(B) /\ Cardinality(B) <= 1 + 1
        BY <2>1, OneMore, Zenon
    <2>3. 1 + 1 \in Nat /\ (1 + 1) + 1 \in Nat
        OBVIOUS
    <2> HIDE DEF B
    <2>4. IsFiniteSet(C) /\ Cardinality(C) <= (1 + 1) + 1
        BY <2>2, <2>3, OneMore, Zenon
    <2> HIDE DEF C
    <2>5. IsFiniteSet(D) /\ Cardinality(D) <= ((1 + 1) + 1) + 1
        BY <2>3, <2>4, OneMore, Zenon
    <2>6. Role = D
        BY DEF B, C, Role
    <2> HIDE DEF D
    <2> QED
        BY <2>5, <2>6
<1> QED
    BY <1>1, FS_Subset, FS_CardinalityType

\* What is left to do at each point of a pass, before a step and after it.
LEMMA EffortAt ==
    /\ pc = "next"   => Effort = 16 * Cardinality(todo) + 15
    /\ pc = "fetch"  => Effort = 16 * Cardinality(todo) + 14
    /\ pc = "write"  => Effort = 16 * Cardinality(todo) + (8 + Cardinality(unwritten))
    /\ pc = "perms"  => Effort = 16 * Cardinality(todo) + 7
    /\ pc = "cmd"    => Effort = 16 * Cardinality(todo) + 6
    /\ pc = "save"   => Effort = 16 * Cardinality(todo) + 5
    /\ pc = "report" => Effort = 16 * Cardinality(todo) + 4
BY DEF Effort

LEMMA EffortThen ==
    /\ pc' = "next"   => Effort' = 16 * Cardinality(todo') + 15
    /\ pc' = "fetch"  => Effort' = 16 * Cardinality(todo') + 14
    /\ pc' = "write"  => Effort' = 16 * Cardinality(todo') + (8 + Cardinality(unwritten'))
    /\ pc' = "perms"  => Effort' = 16 * Cardinality(todo') + 7
    /\ pc' = "cmd"    => Effort' = 16 * Cardinality(todo') + 6
    /\ pc' = "save"   => Effort' = 16 * Cardinality(todo') + 5
    /\ pc' = "report" => Effort' = 16 * Cardinality(todo') + 4
BY DEF Effort

\* A step of the agent inside a pass leaves less to do.
LEMMA AgentStepEnds ==
    ASSUME IsFiniteSet(Configs), IndInv, TypeOK', Visited, AgentStep, InPass, InPass'
    PROVE  Effort' < Effort
<1> DEFINE n == Cardinality(todo)
           k == Cardinality(unwritten)
           m == Cardinality(todo')
           j == Cardinality(unwritten')
<1>0. TypeOK /\ Role = {"pem", "chain", "key", "password"}
    BY DEF IndInv, Role
<1>1. /\ IsFiniteSet(todo) /\ IsFiniteSet(unwritten)
      /\ n \in Nat /\ m \in Nat /\ k \in 0 .. 4 /\ j \in 0 .. 4
    <2>1. todo \in SUBSET Configs /\ todo' \in SUBSET Configs
          /\ unwritten \in SUBSET Role /\ unwritten' \in SUBSET Role
        BY <1>0 DEF TypeOK
    <2>2. IsFiniteSet(todo) /\ IsFiniteSet(todo')
        BY <2>1, FS_Subset
    <2> QED
        BY <2>1, <2>2, FilesAreFew, FS_CardinalityType
<1>2. /\ pc = "next"   => Effort = 16 * n + 15
      /\ pc = "fetch"  => Effort = 16 * n + 14
      /\ pc = "write"  => Effort = 16 * n + (8 + k)
      /\ pc = "perms"  => Effort = 16 * n + 7
      /\ pc = "cmd"    => Effort = 16 * n + 6
      /\ pc = "save"   => Effort = 16 * n + 5
      /\ pc' = "next"   => Effort' = 16 * m + 15
      /\ pc' = "fetch"  => Effort' = 16 * m + 14
      /\ pc' = "write"  => Effort' = 16 * m + (8 + j)
      /\ pc' = "perms"  => Effort' = 16 * m + 7
      /\ pc' = "cmd"    => Effort' = 16 * m + 6
      /\ pc' = "save"   => Effort' = 16 * m + 5
      /\ pc' = "report" => Effort' = 16 * m + 4
    BY EffortAt, EffortThen
<1> HIDE DEF n, m, k, j
<1>3. ASSUME pc \in {"next", "fetch", "write", "perms", "cmd"}, pc' = "next", m = n - 1
      PROVE  Effort' < Effort
    BY <1>1, <1>2, <1>3
<1>4. ASSUME NEW c \in todo, todo' = todo \ {c}
      PROVE  m = n - 1
    BY <1>1, <1>4, OneLess DEF n, m
<1>5. ASSUME todo' = todo
      PROVE  m = n
    BY <1>5 DEF n, m
<1>6. CASE Polling \/ ReportStatuses \/ ReportFails
    <2>1. CASE pc = "report"
        BY <1>6, <2>1 DEF Polling, RunAgent, Tick, PollFailed, PollForbidden, PollNoContent,
            PollUpdated, PollUnsaved, ReportStatuses, ReportFails, Return, ProcessGone, InPass
    <2>2. CASE pc # "report"
        BY <1>6, <2>2 DEF Polling, RunAgent, Tick, PollFailed, PollForbidden, PollNoContent,
            PollUpdated, PollUnsaved, ReportStatuses, ReportFails, InPass
    <2> QED
        BY <2>1, <2>2
<1>7. ASSUME NEW c \in Configs, Deciding(c) PROVE Effort' < Effort
    <2>1. pc = "next" /\ c \in todo
        BY <1>7 DEF Deciding, Reject, Skip, StatFails, ReadFails, Compare
    <2>2. \/ todo' = todo \ {c} /\ pc' = "next"
          \/ todo' = todo /\ pc' \in {"fetch", "perms"}
        BY <1>7, <2>1 DEF Deciding, Reject, Skip, StatFails, ReadFails, Compare, Finish, Visit,
            process
    <2>3. CASE todo' = todo \ {c} /\ pc' = "next"
        BY <1>3, <1>4, <2>1, <2>3
    <2>4. CASE todo' = todo /\ pc' \in {"fetch", "perms"}
        BY <1>1, <1>2, <1>5, <2>1, <2>4
    <2> QED
        BY <2>2, <2>3, <2>4
<1>8. CASE FetchOk
    <2>1. pc = "fetch" /\ pc' = "write" /\ m = n
        BY <1>5, <1>8 DEF FetchOk
    <2> QED
        BY <1>1, <1>2, <2>1
<1>9. CASE WriteFile
    <2>1. pc = "write" /\ m = n
        BY <1>5, <1>9 DEF WriteFile
    <2>2. PICK r \in unwritten : unwritten' = unwritten \ {r} /\ pc' \in {"perms", "write"}
        BY <1>9 DEF WriteFile
    <2>3. j = k - 1
        BY <1>1, <2>2, OneLess DEF j, k
    <2> QED
        BY <1>1, <1>2, <2>1, <2>2, <2>3
<1>10. ASSUME pc \in {"fetch", "write", "perms", "cmd"}, \E status \in Status : Finish(cur, status)
       PROVE  Effort' < Effort
    <2>1. cur \in todo /\ todo' = todo \ {cur} /\ pc' = "next"
        BY <1>10 DEF Visited, OnOne, Finish
    <2> QED
        BY <1>3, <1>4, <1>10, <2>1
<1>11. CASE FetchRefused \/ FetchFails \/ WriteFails \/ PermissionsFail
            \/ RunUpdateCommand \/ UpdateCommandFails
    <2>1. \E status \in {Synced, ErrorCmd, ErrorGet, ErrorWrite} : Finish(cur, status)
        BY <1>11 DEF FetchRefused, FetchFails, WriteFails, PermissionsFail,
                     RunUpdateCommand, UpdateCommandFails
    <2>2. pc \in {"fetch", "write", "perms", "cmd"}
        BY <1>11 DEF FetchRefused, FetchFails, WriteFails, PermissionsFail,
                     RunUpdateCommand, UpdateCommandFails
    <2> QED
        BY <1>10, <2>1, <2>2, StatusNames
<1>12. CASE ApplyPermissions
    <2>1. CASE cur \in Commanded
        <3>1. pc = "perms" /\ pc' = "cmd" /\ m = n
            BY <1>5, <1>12, <2>1 DEF ApplyPermissions, pass
        <3> QED
            BY <1>1, <1>2, <3>1
    <2>2. CASE cur \notin Commanded
        BY <1>10, <1>12, <2>2, StatusNames DEF ApplyPermissions
    <2> QED
        BY <2>1, <2>2
<1>13. CASE EndLoop \/ SaveStatuses \/ SaveFails
    <2>1. /\ m = n
          /\ \/ pc = "next" /\ pc' \in {"save", "report"}
             \/ pc = "save" /\ pc' = "report"
        BY <1>5, <1>13 DEF EndLoop, SaveStatuses, SaveFails, pass
    <2> QED
        BY <1>1, <1>2, <2>1
<1> QED
    BY <1>6, <1>7, <1>8, <1>9, <1>11, <1>12, <1>13 DEF AgentStep, Installing, Ending

\* Every pass ends, after a number of steps that its configurations bound: no step of the
\* agent goes back, and none of the server, or of what fails, adds to what is left to do.
THEOREM PassesDoEnd ==
    ASSUME IsFiniteSet(Configs)
    PROVE  Spec => PassesEnd
<1>1. ASSUME IndInv, TypeOK', Visited, [Next]_vars PROVE [EndIsNearer]_vars
    <2> SUFFICES ASSUME Next, InPass, InPass'
                 PROVE  Effort' <= Effort /\ (AgentStep => Effort' < Effort)
        BY <1>1 DEF EndIsNearer
    <2>1. Effort \in Int /\ Effort' \in Int
        <3>1. /\ Cardinality(todo) \in Nat /\ Cardinality(todo') \in Nat
              /\ Cardinality(unwritten) \in 0 .. 4 /\ Cardinality(unwritten') \in 0 .. 4
            <4>1. todo \in SUBSET Configs /\ todo' \in SUBSET Configs
                  /\ unwritten \in SUBSET Role /\ unwritten' \in SUBSET Role
                BY <1>1 DEF IndInv, TypeOK
            <4>2. IsFiniteSet(todo) /\ IsFiniteSet(todo')
                BY <4>1, FS_Subset, Zenon
            <4>3. Cardinality(todo) \in Nat /\ Cardinality(todo') \in Nat
                BY <4>2, FS_CardinalityType, Zenon
            <4>4. Cardinality(unwritten) \in 0 .. 4 /\ Cardinality(unwritten') \in 0 .. 4
                BY <4>1, FilesAreFew, Zenon
            <4> QED
                BY <4>3, <4>4
        <3> QED
            BY <3>1, EffortAt, EffortThen DEF InPass
    <2>2. ASSUME AgentStep PROVE Effort' < Effort
        BY <1>1, <2>2, AgentStepEnds, Zenon
    <2>3. ASSUME Environment PROVE Effort' = Effort
        <3>1. ~Crash
            BY DEF Crash, ProcessGone, InPass
        <3>2. UNCHANGED <<pc, todo, unwritten>>
            BY <2>3, <3>1 DEF Environment, Tamper, Issue, Edit, process, pass
        <3> QED
            BY <3>2 DEF Effort
    <2>4. Effort' < Effort \/ Effort' = Effort
        BY <2>2, <2>3 DEF Next
    <2>5. Effort' <= Effort
        BY <2>1, <2>4
    <2> QED
        BY <2>2, <2>5
<1>2. IndInv /\ PassInv /\ [Next]_vars => [EndIsNearer]_vars
    BY <1>1, TypeStep DEF PassInv
<1> QED
    BY <1>2, Invariance, PassInvariance, PTL DEF Spec, PassesEnd
=============================================================================
