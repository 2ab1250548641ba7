------------------------- MODULE WindowsStoreProofs -------------------------
(***************************************************************************)
(* Proofs about WindowsStore for every set of sites and certificates, with *)
(* or without a gateway, in either mode and for every bound.               *)
(***************************************************************************)
EXTENDS WindowsStore, FiniteSetTheorems, TLAPS

\* The three parts of the invariant about views and bindings, and the six about
\* where the process is.
Views   == ViewsAreSound /\ ServerIsSound /\ ServerIsNewest
Control == /\ MemoryIsSaved /\ BatchIsMemory /\ OneIsChosen
           /\ ImportPhase /\ BindPhase /\ CleanPhase

\* The invariant in three parts: types, what a status promises, and the process.
LEMMA Parts == StoreInv <=> TypeOK /\ Views /\ Control
BY DEF StoreInv, Views, Control

\* The statuses are statuses, and "no status" is none of them.
LEMMA StatusNames ==
    /\ Pending \in Status /\ Synced \in Status /\ ErrorCmd \in Status
    /\ ErrorGet \in Status /\ ErrorWrite \in Status /\ ErrorOther \in Status
    /\ NoStatus \notin Status /\ Pending # Synced /\ ErrorCmd # Synced
    /\ ErrorGet # Synced /\ ErrorWrite # Synced /\ ErrorOther # Synced
BY DEF Status, Pending, Synced, ErrorCmd, ErrorGet, ErrorWrite, ErrorOther, NoStatus

\* Replacing the status of a view gives the same view.
LEMMA StatusOfView ==
    ASSUME NEW v \in View, NEW s \in Status
    PROVE  /\ [v EXCEPT !.status = s] \in View
           /\ [v EXCEPT !.status = s].status = s
           /\ SameView([v EXCEPT !.status = s], v)
BY DEF View, SameView

\* A thumbprint is not NoThumb, and views that are the same have the same one.
LEMMA Thumbs ==
    ASSUME NEW v \in View
    PROVE  /\ Thumb(v) \in Certificates \X Nat
           /\ Thumb(v) # NoThumb
           /\ \A w \in View : SameView(v, w) => Thumb(v) = Thumb(w)
<1>1. Thumb(v) \in Certificates \X Nat
    BY DEF View, Thumb
<1>2. \A w \in View : SameView(v, w) => Thumb(v) = Thumb(w)
    BY DEF SameView, Thumb
<1> QED
    BY <1>1, <1>2, ThumbAssumption

-----------------------------------------------------------------------------
(* Views *)

\* A delivered view is the server's, with a status that is true.
LEMMA DeliveredView ==
    ASSUME TypeOK
    PROVE  /\ Delivered \in [Configs -> View]
           /\ \A c \in Configs : SameView(Delivered[c], server[c])
           /\ ServerIsSound => \A c \in Sites : Sound(c, Delivered[c])
<1>1. ASSUME NEW c \in Configs
      PROVE  /\ [server[c] EXCEPT !.status = Pending] \in View
             /\ [server[c] EXCEPT !.status = Pending].status = Pending
             /\ SameView([server[c] EXCEPT !.status = Pending], server[c])
             /\ SameView(server[c], server[c])
    BY StatusOfView, StatusNames DEF TypeOK, SameView
<1>2. Delivered \in [Configs -> View]
    BY <1>1 DEF TypeOK, Delivered
<1>3. \A c \in Configs : SameView(Delivered[c], server[c])
    BY <1>1 DEF Delivered
<1>4. ASSUME ServerIsSound, NEW c \in Sites PROVE Sound(c, Delivered[c])
    <2>1. c \in Configs
        BY DEF Configs
    <2>2. CASE SameView(mem[c], server[c])
        <3>1. Delivered[c] = server[c]
            BY <2>1, <2>2 DEF Delivered
        <3>2. SameView(server[c], mem[c])
            BY <2>2 DEF SameView
        <3> QED
            BY <1>4, <3>1, <3>2 DEF ServerIsSound
    <2>3. CASE ~SameView(mem[c], server[c])
        BY <1>1, <2>1, <2>3, StatusNames DEF Delivered, Sound
    <2> QED
        BY <2>2, <2>3
<1> QED
    BY <1>2, <1>3, <1>4

\* A reported status is true for a view the agent has.
LEMMA ReportedView ==
    ASSUME TypeOK
    PROVE  /\ Reported \in [Configs -> View]
           /\ \A c \in Configs : SameView(Reported[c], server[c])
           /\ Views /\ Control /\ InPass =>
                  \A c \in Sites : SameView(server[c], mem[c]) => Sound(c, Reported[c])
<1>1. ASSUME NEW c \in Configs, batch[c] # NoStatus
      PROVE  /\ [server[c] EXCEPT !.status = batch[c]] \in View
             /\ [server[c] EXCEPT !.status = batch[c]].status = batch[c]
             /\ SameView([server[c] EXCEPT !.status = batch[c]], server[c])
    BY <1>1, StatusOfView DEF TypeOK
<1>2. Reported \in [Configs -> View]
    BY <1>1 DEF TypeOK, Reported
<1>3. \A c \in Configs : SameView(Reported[c], server[c])
    BY <1>1 DEF Reported, SameView
<1>4. ASSUME Views, Control, NEW c \in Sites, SameView(server[c], mem[c])
      PROVE  Sound(c, Reported[c])
    <2>1. c \in Configs
        BY DEF Configs
    <2>2. CASE batch[c] = NoStatus
        <3>1. Reported[c] = server[c]
            BY <2>1, <2>2 DEF Reported
        <3> QED
            BY <1>4, <3>1 DEF Views, ServerIsSound
    <2>3. CASE batch[c] # NoStatus
        <3>1. Reported[c].status = mem[c].status
            BY <1>1, <1>4, <2>1, <2>3 DEF Reported, Control, BatchIsMemory
        <3>2. Sound(c, mem[c])
            BY <1>4 DEF Views, ViewsAreSound
        <3> QED
            BY <1>3, <1>4, <2>1, <3>1, <3>2 DEF Sound, SameView, Bound, Thumb
    <2> QED
        BY <2>2, <2>3
<1> QED
    BY <1>2, <1>3, <1>4

\* A step that touches no binding keeps the views sound: the server's view keeps
\* its certificate and revision, and the agent's views are those it had, or what
\* the server has just delivered.
LEMMA CallKeepsViews ==
    ASSUME TypeOK, Views, Control,
           UNCHANGED <<issued, bound, unnoticed>>,
           \/ /\ server' = server
              /\ disk' \in {disk, mem}
              /\ mem' \in {disk, mem}
           \/ /\ server' = Delivered
              /\ disk' \in {disk, Delivered}
              /\ mem' \in {disk, mem, Delivered}
           \/ /\ server' = Reported
              /\ InPass
              /\ disk' = disk
              /\ mem' \in {disk, mem}
    PROVE  Views'
<1> DEFINE Has(v, c) == v = disk[c] \/ v = mem[c] \/ v = Delivered[c]
<1>1. \A c \in Configs : SameView(server'[c], server[c])
    BY DeliveredView, ReportedView DEF SameView
<1>2. \A c \in Configs : Has(disk'[c], c) /\ Has(mem'[c], c)
    OBVIOUS
<1>3. \A c \in Sites : c \in Configs
    BY DEF Configs
<1>4. ASSUME NEW c \in Sites, NEW v, Has(v, c) PROVE Sound(c, v)'
    <2>1. Sound(c, v)
        BY <1>4, DeliveredView DEF Views, ViewsAreSound
    <2> QED
        BY <1>1, <1>3, <2>1 DEF Sound, SameView, Bound, Thumb
<1>5. ViewsAreSound'
    BY <1>2, <1>3, <1>4 DEF ViewsAreSound
<1>6. ServerIsSound'
    <2> SUFFICES ASSUME NEW c \in Sites,
                        SameView(server'[c], disk'[c]) \/ SameView(server'[c], mem'[c])
                 PROVE  Sound(c, server[c])'
        BY DEF ServerIsSound
    <2>1. Sound(c, server'[c])
        <3>1. CASE server' = server /\ disk' \in {disk, mem} /\ mem' \in {disk, mem}
            BY <3>1 DEF Views, ServerIsSound
        <3>2. CASE server' = Delivered
            BY <3>2, DeliveredView DEF Views
        <3>3. CASE server' = Reported /\ InPass /\ disk' = disk /\ mem' \in {disk, mem}
            <4>1. SameView(mem[c], disk[c])
                BY <1>3, <3>3 DEF Control, MemoryIsSaved
            <4>2. SameView(server[c], mem[c])
                BY <1>1, <1>3, <3>3, <4>1 DEF SameView
            <4> QED
                BY <3>3, <4>2, ReportedView
        <3> QED
            BY <3>1, <3>2, <3>3
    <2> QED
        BY <1>1, <1>3, <2>1 DEF Sound, SameView, Bound, Thumb
<1>7. ServerIsNewest'
    <2> SUFFICES ASSUME NEW c \in Configs
                 PROVE  /\ server'[c].gen = issued[server'[c].cert]
                        /\ \A v \in {disk'[c], mem'[c]} :
                               NoNewer(v, server'[c]) /\ v.gen <= issued[v.cert]
        BY DEF ServerIsNewest
    <2>1. server'[c].gen = issued[server'[c].cert]
        BY <1>1 DEF Views, ServerIsNewest, SameView
    <2>2. ASSUME NEW v \in {disk[c], mem[c]}
          PROVE  NoNewer(v, server'[c]) /\ v.gen <= issued[v.cert]
        BY <1>1 DEF Views, ServerIsNewest, SameView, NoNewer
    <2>3. NoNewer(Delivered[c], server'[c]) /\ Delivered[c].gen <= issued[Delivered[c].cert]
        <3>1. SameView(Delivered[c], server'[c]) /\ Delivered[c] \in View
            BY <1>1, DeliveredView DEF SameView
        <3> QED
            BY <2>1, <3>1 DEF SameView, NoNewer, View
    <2> QED
        BY <1>2, <2>1, <2>2, <2>3
<1> QED
    BY <1>5, <1>6, <1>7 DEF Views

\* A step that works on one configuration during a pass keeps the views sound: it
\* records SYNCED only for a site that is bound or has something newer to come,
\* and rebinds a site only to the certificate its view names.
LEMMA VisitKeepsViews ==
    ASSUME TypeOK, Views, Control, InPass,
           UNCHANGED <<issued, server, disk>>,
           NEW c \in Configs, NEW s \in Status,
           mem' \in {mem, [mem EXCEPT ![c].status = s]},
           \A d \in Sites :
               \/ bound'[d] = bound[d] /\ (d \in unnoticed' <=> d \in unnoticed)
               \/ d = c /\ (bound'[c] = Thumb(mem[c]) \/ c \in unnoticed'),
           mem' # mem /\ c \in Sites /\ s = Synced
               => \/ bound'[c] = Thumb(mem[c])
                  \/ c \in unnoticed'
                  \/ ~SameView(mem[c], server[c])
    PROVE  Views'
<1>1. \A d \in Configs : /\ mem'[d] \in View
                         /\ SameView(mem'[d], mem[d])
                         /\ d # c => mem'[d] = mem[d]
                         /\ mem'[d] = mem[d] \/ mem'[d].status = s
    <2>1. /\ [mem[c] EXCEPT !.status = s] \in View
          /\ SameView([mem[c] EXCEPT !.status = s], mem[c])
          /\ [mem[c] EXCEPT !.status = s].status = s
        BY StatusOfView DEF TypeOK
    <2>2. \A d \in Configs : SameView(mem[d], mem[d])
        BY DEF SameView
    <2> QED
        BY <2>1, <2>2 DEF TypeOK
<1>2. \A d \in Configs : SameView(mem[d], disk[d])
    BY DEF Control, MemoryIsSaved
<1>3. \A d \in Sites : d \in Configs
    BY DEF Configs
<1>4. ASSUME NEW d \in Sites, NEW v \in View, Sound(d, v), SameView(v, mem[d])
      PROVE  Sound(d, v)'
    <2> SUFFICES ASSUME v.form = "ok", v.status = Synced, SameView(v, server[d])
                 PROVE  bound'[d] = Thumb(v) \/ d \in unnoticed'
        BY DEF Sound, Bound, Thumb
    <2>1. Bound(d, v)
        BY <1>4 DEF Sound
    <2>2. Thumb(v) = Thumb(mem[d])
        BY <1>4 DEF SameView, Thumb
    <2> QED
        BY <2>1, <2>2 DEF Bound
<1>5. ASSUME NEW d \in Sites PROVE Sound(d, disk[d])' /\ Sound(d, mem[d])'
    <2>1. Sound(d, disk[d]) /\ Sound(d, mem[d]) /\ d \in Configs
        BY <1>3 DEF Views, ViewsAreSound
    <2>2. SameView(disk[d], mem[d]) /\ SameView(mem[d], mem[d])
        BY <1>2, <2>1 DEF SameView
    <2>3. disk[d] \in View /\ mem[d] \in View
        BY <2>1 DEF TypeOK
    <2>4. /\ Sound(d, disk[d])'
          /\ mem'[d] = mem[d] => Sound(d, mem[d])'
        BY <1>4, <2>1, <2>2, <2>3 DEF Sound, SameView, Bound, Thumb
    <2>5. CASE mem'[d] # mem[d]
        <3>1. d = c /\ mem' # mem /\ mem'[d].status = s
            BY <1>1, <2>1, <2>5
        <3>2. Thumb(mem'[d]) = Thumb(mem[d])
            BY <1>1, <2>1 DEF SameView, Thumb
        <3>3. SameView(mem'[d], server[d]) => SameView(mem[d], server[d])
            BY <1>1, <2>1 DEF SameView
        <3> QED
            BY <2>4, <3>1, <3>2, <3>3 DEF Sound, Bound
    <2> QED
        BY <2>4, <2>5
<1>6. ServerIsSound'
    <2> SUFFICES ASSUME NEW d \in Sites,
                        SameView(server[d], disk[d]) \/ SameView(server[d], mem'[d])
                 PROVE  Sound(d, server[d])'
        BY DEF ServerIsSound
    <2>1. SameView(server[d], mem[d])
        BY <1>1, <1>2, <1>3 DEF SameView
    <2>2. Sound(d, server[d]) /\ server[d] \in View
        BY <1>3, <2>1 DEF Views, ServerIsSound, TypeOK
    <2> QED
        BY <1>4, <2>1, <2>2 DEF Sound, SameView, Bound, Thumb
<1>7. ServerIsNewest'
    BY <1>1 DEF Views, ServerIsNewest, NoNewer, SameView
<1> QED
    BY <1>5, <1>6, <1>7 DEF Views, ViewsAreSound

\* What the server does to one of its views: a renewal, or an edit.
Revised(v, w) ==
    \/ w = v
    \/ /\ w.status = Pending
       /\ \/ w.rev = v.rev + 1
          \/ /\ w.rev = v.rev /\ w.form = v.form /\ w.cert = v.cert
             /\ w.gen = v.gen + 1

\* A view that is out of date stays so.
LEMMA OutOfDate ==
    ASSUME NEW v \in View, NEW w \in View, NEW w2 \in View,
           NoNewer(v, w), Revised(w, w2)
    PROVE  /\ NoNewer(v, w2)
           /\ ~SameView(v, w) => ~SameView(v, w2)
           /\ w2 = w \/ ~SameView(v, w2)
BY DEF NoNewer, Revised, SameView, View

\* A step of the server keeps the views sound.
LEMMA ServerKeepsViews ==
    ASSUME TypeOK, Views, TypeOK',
           UNCHANGED <<disk, mem, bound, unnoticed>>,
           \A c \in Configs : Revised(server[c], server'[c]),
           \A c \in Configs : server'[c].gen = issued'[server'[c].cert],
           \A k \in Certificates : issued'[k] >= issued[k]
    PROVE  Views'
<1>1. ASSUME NEW c \in Configs
      PROVE  /\ NoNewer(disk[c], server'[c]) /\ NoNewer(mem[c], server'[c])
             /\ server'[c] = server[c] \/ ~SameView(disk[c], server'[c])
             /\ server'[c] = server[c] \/ ~SameView(mem[c], server'[c])
    <2>1. /\ disk[c] \in View /\ mem[c] \in View
          /\ server[c] \in View /\ server'[c] \in View
        BY DEF TypeOK
    <2>2. NoNewer(disk[c], server[c]) /\ NoNewer(mem[c], server[c])
        BY DEF Views, ServerIsNewest
    <2> QED
        BY <2>1, <2>2, OutOfDate
<1>2. \A c \in Sites : c \in Configs
    BY DEF Configs
<1>3. ViewsAreSound'
    BY <1>1, <1>2 DEF Views, ViewsAreSound, Sound, Bound, Thumb
<1>4. ServerIsSound'
    <2> SUFFICES ASSUME NEW c \in Sites,
                        SameView(server'[c], disk[c]) \/ SameView(server'[c], mem[c])
                 PROVE  Sound(c, server[c])'
        BY DEF ServerIsSound
    <2>1. server'[c] = server[c]
        BY <1>1, <1>2 DEF SameView
    <2> QED
        BY <2>1 DEF Views, ServerIsSound, Sound, Bound, Thumb, SameView
<1>5. ServerIsNewest'
    <2> SUFFICES ASSUME NEW c \in Configs
                 PROVE  /\ mem[c].gen <= issued'[mem[c].cert]
                        /\ disk[c].gen <= issued'[disk[c].cert]
        BY <1>1 DEF ServerIsNewest
    <2>1. mem[c] \in View /\ disk[c] \in View
        BY DEF TypeOK
    <2> QED
        BY <2>1 DEF Views, ServerIsNewest, TypeOK, View
<1> QED
    BY <1>3, <1>4, <1>5 DEF Views

-----------------------------------------------------------------------------
(* The endings that several actions share *)

\* Recording a status keeps the types of what it touches.
LEMMA FinishTypes ==
    ASSUME TypeOK, NEW c \in Configs, NEW s \in Status, Finish(c, s)
    PROVE  /\ mem' = [mem EXCEPT ![c].status = s]
           /\ mem' \in [Configs -> View]
           /\ batch' \in [Configs -> Status \cup {NoStatus}]
           /\ dirty' \in BOOLEAN
           /\ pc' \in Points
           /\ todo' \in SUBSET Configs
           /\ cur' \in Configs \cup {NoConfig}
           /\ got' \in Nat
           /\ old' \in (Certificates \X Nat) \cup {NoThumb}
<1>1. [mem[c] EXCEPT !.status = s] \in View
    BY StatusOfView DEF TypeOK
<1>2. mem' \in [Configs -> View]
    BY <1>1 DEF TypeOK, Finish
<1> QED
    BY <1>2 DEF TypeOK, Finish, Points

\* It keeps what is known of the process, which goes on to the next configuration.
LEMMA FinishControl ==
    ASSUME TypeOK, Control, InPass, UNCHANGED disk,
           NEW c \in Configs, NEW s \in Status, Finish(c, s)
    PROVE  Control'
<1>1. pc' = "next" /\ InPass'
    BY DEF Finish, InPass
<1>2. /\ [mem[c] EXCEPT !.status = s].status = s
      /\ SameView([mem[c] EXCEPT !.status = s], mem[c])
    BY StatusOfView DEF TypeOK
<1>3. MemoryIsSaved'
    BY <1>1, <1>2 DEF Control, MemoryIsSaved, Finish, SameView, TypeOK
<1>4. BatchIsMemory'
    BY <1>1, <1>2 DEF Control, BatchIsMemory, Finish, TypeOK
<1> QED
    BY <1>1, <1>3, <1>4 DEF Control, OneIsChosen, ImportPhase, BindPhase, CleanPhase

\* So do the end of the process and the end of a poll, which leave no pass behind.
LEMMA RestControl ==
    ASSUME pc' \in {"down", "idle"},
           pc' = "down" => mem' = disk' /\ trigger' = "startup",
           pc' = "idle" => trigger' = "tick",
           batch' = [c \in Configs |-> NoStatus]
    PROVE  Control'
BY DEF Control, MemoryIsSaved, BatchIsMemory, OneIsChosen, ImportPhase, BindPhase,
       CleanPhase, InPass

\* A process that is gone leaves well-typed variables.
LEMMA GoneTypes ==
    ASSUME TypeOK, UNCHANGED disk, ProcessGone
    PROVE  /\ mem' = disk
           /\ mem' \in [Configs -> View]
           /\ batch' \in [Configs -> Status \cup {NoStatus}]
           /\ dirty' \in BOOLEAN
           /\ pc' \in Points
           /\ trigger' \in {"startup", "tick", "change"}
           /\ todo' \in SUBSET Configs
           /\ cur' \in Configs \cup {NoConfig}
           /\ got' \in Nat
           /\ old' \in (Certificates \X Nat) \cup {NoThumb}
           /\ Control'
<1>1. Control'
    BY RestControl DEF ProcessGone, IdlePass
<1> QED
    BY <1>1 DEF TypeOK, ProcessGone, IdlePass, Points

\* So does the end of a poll.
LEMMA ReturnTypes ==
    ASSUME TypeOK, UNCHANGED disk, Return
    PROVE  /\ mem' \in {disk, mem}
           /\ mem' \in [Configs -> View]
           /\ batch' \in [Configs -> Status \cup {NoStatus}]
           /\ dirty' \in BOOLEAN
           /\ pc' \in Points
           /\ trigger' \in {"startup", "tick", "change"}
           /\ todo' \in SUBSET Configs
           /\ cur' \in Configs \cup {NoConfig}
           /\ got' \in Nat
           /\ old' \in (Certificates \X Nat) \cup {NoThumb}
           /\ Control'
<1>1. CASE RunOnce
    BY <1>1, GoneTypes DEF Return
<1>2. CASE ~RunOnce
    <2>1. pc' = "idle" /\ trigger' = "tick" /\ mem' = mem /\ IdlePass
        BY <1>2 DEF Return
    <2>2. Control'
        BY <2>1, RestControl DEF IdlePass
    <2> QED
        BY <2>1, <2>2 DEF TypeOK, IdlePass, Points
<1> QED
    BY <1>1, <1>2

\* A fault keeps the fault count a number.
LEMMA DisruptType ==
    ASSUME TypeOK, NEW kind, Disrupt(kind) PROVE spent' \in Nat
BY DEF TypeOK, Disrupt

\* A pass begins with the statuses of the last one reported and forgotten.
LEMMA BeginControl ==
    ASSUME TypeOK, Control, pc = "poll", NEW m, BeginPass(m),
           \A c \in Configs : SameView(mem'[c], disk'[c])
    PROVE  Control'
<1>1. \A c \in Configs : batch[c] = NoStatus
    BY DEF Control, BatchIsMemory, InPass
<1> QED
    BY <1>1 DEF BeginPass, Control, MemoryIsSaved, BatchIsMemory, OneIsChosen,
                ImportPhase, BindPhase, CleanPhase, InPass

-----------------------------------------------------------------------------
(* One lemma per group of actions *)

\* The poll and its answers.
LEMMA PollingKeeps ==
    ASSUME TypeOK, Views, Control, Polling
    PROVE  (TypeOK /\ Views /\ Control)'
<1> USE DeliveredView DEF remote, machine
<1>1. CASE StartPoll
    <2>1. Control'
        BY <1>1 DEF StartPoll, pass, Control, MemoryIsSaved, BatchIsMemory, OneIsChosen,
                    ImportPhase, BindPhase, CleanPhase, InPass
    <2>2. Views'
        BY <1>1, CallKeepsViews DEF StartPoll
    <2> QED
        BY <1>1, <2>1, <2>2 DEF StartPoll, TypeOK, pass, Points
<1>2. CASE PollFailed
    <2>1. UNCHANGED <<issued, disk, store, bound, unnoticed>> /\ Return
        BY <1>2 DEF PollFailed
    <2>2. mem' \in {disk, mem} /\ Control'
        BY <2>1, ReturnTypes
    <2>3. Views'
        BY <1>2, <2>1, <2>2, CallKeepsViews DEF PollFailed
    <2>4. server' \in [Configs -> View] /\ spent' \in Nat
        BY <1>2, DisruptType DEF PollFailed, TypeOK
    <2> QED
        BY <2>1, <2>2, <2>3, <2>4, ReturnTypes DEF TypeOK
<1>3. CASE PollNoContent
    <2>1. UNCHANGED <<issued, server, disk, store, bound, unnoticed, spent>>
        BY <1>3 DEF PollNoContent
    <2>2. CASE trigger = "startup"
        <3>1. pc = "poll" /\ BeginPass(mem) /\ UNCHANGED <<mem, trigger>>
            BY <1>3, <2>2 DEF PollNoContent
        <3>2. \A c \in Configs : SameView(mem'[c], disk'[c])
            BY <2>1, <2>2, <3>1 DEF Control, MemoryIsSaved, SameView
        <3>3. Control' /\ Views'
            BY <2>1, <3>1, <3>2, BeginControl, CallKeepsViews
        <3> QED
            BY <2>1, <3>1, <3>3 DEF BeginPass, TypeOK, Points
    <2>3. CASE trigger # "startup"
        <3>1. Return
            BY <1>3, <2>3 DEF PollNoContent
        <3>2. mem' \in {disk, mem} /\ Control'
            BY <2>1, <3>1, ReturnTypes
        <3>3. Views'
            BY <2>1, <3>2, CallKeepsViews
        <3> QED
            BY <2>1, <3>1, <3>2, <3>3, ReturnTypes DEF TypeOK
    <2> QED
        BY <2>2, <2>3
<1>4. CASE PollUpdated
    <2>1. /\ server' = Delivered /\ mem' = Delivered /\ disk' = Delivered
          /\ pc = "poll" /\ trigger' = "change" /\ BeginPass(Delivered)
          /\ UNCHANGED <<issued, store, bound, unnoticed, spent>>
        BY <1>4 DEF PollUpdated
    <2>2. \A c \in Configs : SameView(mem'[c], disk'[c])
        BY <2>1 DEF SameView
    <2>3. Control' /\ Views'
        BY <2>1, <2>2, BeginControl, CallKeepsViews
    <2> QED
        BY <2>1, <2>3 DEF BeginPass, TypeOK, Points
<1>5. CASE PollUnsaved
    <2>1. server' = Delivered /\ UNCHANGED <<issued, disk, store, bound, unnoticed>>
        BY <1>5 DEF PollUnsaved
    <2>2. spent' \in Nat
        BY <1>5, DisruptType DEF PollUnsaved
    <2>3. CASE RunOnce
        <3>1. ProcessGone
            BY <1>5, <2>3 DEF PollUnsaved
        <3>2. mem' = disk /\ Control'
            BY <2>1, <3>1, GoneTypes
        <3>3. Views'
            BY <2>1, <3>2, CallKeepsViews
        <3> QED
            BY <2>1, <2>2, <3>1, <3>2, <3>3, GoneTypes DEF TypeOK
    <2>4. CASE ~RunOnce
        <3>1. mem' = Delivered /\ pc' = "idle" /\ trigger' = "tick" /\ IdlePass
            BY <1>5, <2>4 DEF PollUnsaved
        <3>2. Control' /\ Views'
            BY <2>1, <3>1, RestControl, CallKeepsViews DEF IdlePass
        <3> QED
            BY <2>1, <2>2, <3>1, <3>2 DEF TypeOK, IdlePass, Points
    <2> QED
        BY <2>3, <2>4
<1> QED
    BY <1>1, <1>2, <1>3, <1>4, <1>5 DEF Polling

\* A finished visit of a configuration that is not a site, or whose status is not
\* SYNCED, or that is bound.
LEMMA FinishKeeps ==
    ASSUME TypeOK, Views, Control, InPass,
           UNCHANGED <<issued, server, disk, trigger>>,
           store' \in SUBSET (Certificates \X Nat),
           bound' \in [Configs -> (Certificates \X Nat) \cup {NoThumb}],
           unnoticed' \in SUBSET Sites,
           spent' \in Nat,
           NEW c \in Configs, NEW s \in Status, Finish(c, s),
           \A d \in Sites :
               \/ bound'[d] = bound[d] /\ (d \in unnoticed' <=> d \in unnoticed)
               \/ d = c /\ bound'[c] = Thumb(mem[c]),
           c \in Sites /\ s = Synced
               => \/ bound'[c] = Thumb(mem[c])
                  \/ c \in unnoticed'
                  \/ ~SameView(mem[c], server[c])
    PROVE  (TypeOK /\ Views /\ Control)'
<1>1. mem' = [mem EXCEPT ![c].status = s]
    BY FinishTypes
<1>2. Views'
    BY <1>1, VisitKeepsViews
<1>3. Control'
    BY FinishControl
<1>4. TypeOK'
    BY FinishTypes DEF TypeOK
<1> QED
    BY <1>2, <1>3, <1>4

\* The decision what a configuration needs.
LEMMA DecidingKeeps ==
    ASSUME TypeOK, Views, Control, NEW c \in Configs, Deciding(c)
    PROVE  (TypeOK /\ Views /\ Control)'
<1> USE DEF remote, machine
<1>1. /\ pc = "next" /\ InPass /\ c \in todo
      /\ UNCHANGED <<issued, server, disk, trigger, store, bound, unnoticed>>
      /\ spent' \in Nat
    BY DisruptType DEF Deciding, Reject, Skip, StoreFails, Compare, InPass, TypeOK
<1>2. CASE Reject(c)
    BY <1>1, <1>2, FinishKeeps, StatusNames DEF Reject, TypeOK
<1>3. CASE StoreFails(c)
    BY <1>1, <1>3, FinishKeeps, StatusNames DEF StoreFails, TypeOK
<1>4. CASE Skip(c)
    <2>1. UNCHANGED <<mem, pc, cur, got, old, dirty, batch>> /\ todo' = todo \ {c}
        BY <1>4 DEF Skip
    <2>2. Control'
        BY <1>1, <2>1 DEF Control, MemoryIsSaved, BatchIsMemory, OneIsChosen,
                          ImportPhase, BindPhase, CleanPhase, InPass
    <2>3. Views'
        BY <1>1, <2>1, CallKeepsViews
    <2> QED
        BY <1>1, <2>1, <2>2, <2>3 DEF TypeOK
<1>5. CASE Compare(c)
    <2>1. mem[c].form = "ok" /\ mem[c] \in View
        BY <1>5 DEF Compare, TypeOK
    <2>2. ASSUME NEW point \in {"fetch", "bind"}, Visit(c, point),
                 point = "bind" => c \in Sites /\ ~NeedsFetch(c)
          PROVE  (TypeOK /\ Views /\ Control)'
        <3>1. /\ pc' = point /\ cur' = c
              /\ UNCHANGED <<mem, dirty, batch, todo, got, old>>
            BY <2>2 DEF Visit
        <3>2. Control'
            BY <1>1, <2>1, <2>2, <3>1
               DEF Control, MemoryIsSaved, BatchIsMemory, OneIsChosen, ImportPhase,
                   BindPhase, CleanPhase, InPass, NeedsFetch
        <3>3. Views'
            BY <1>1, <3>1, CallKeepsViews
        <3> QED
            BY <1>1, <3>1, <3>2, <3>3 DEF TypeOK, Points
    <2>3. ASSUME Finish(c, Synced), ~RetryFull(c), ~ApplyOnly(c)
          PROVE  (TypeOK /\ Views /\ Control)'
        <3>1. c \in Sites => Sound(c, mem[c]) /\ mem[c].status = Synced
            <4>1. c \in Sites => Sound(c, mem[c])
                BY DEF Views, ViewsAreSound
            <4>2. mem[c].status \in Status
                BY <2>1 DEF View
            <4> QED
                BY <2>3, <4>1, <4>2
                   DEF RetryFull, ApplyOnly, RetryUpdateOnly, Status
        <3> QED
            BY <1>1, <2>1, <2>3, <3>1, FinishKeeps, StatusNames
               DEF TypeOK, Sound, Bound
    <2>4. \/ Visit(c, "fetch")
          \/ Visit(c, "bind") /\ ApplyOnly(c) /\ ~NeedsFetch(c)
          \/ Finish(c, Synced) /\ ~RetryFull(c) /\ ~ApplyOnly(c)
        BY <1>5 DEF Compare
    <2> QED
        BY <2>2, <2>3, <2>4 DEF ApplyOnly
<1> QED
    BY <1>2, <1>3, <1>4, <1>5 DEF Deciding

\* While a pass works on one configuration, it is a complete one.
LEMMA TheOne ==
    ASSUME TypeOK, Control, pc \in {"fetch", "import", "bind", "clean", "apply"}
    PROVE  /\ cur \in Configs /\ InPass
           /\ mem[cur] \in View
           /\ Thumb(mem[cur]) \in Certificates \X Nat
           /\ Thumb(mem[cur]) # NoThumb
           /\ pc \in {"bind", "clean"} => cur \in Sites
           /\ pc = "apply" => cur \in Gateways /\ cur \notin Sites
<1>1. cur \in Configs /\ InPass /\ mem[cur] \in View
    BY DEF Control, OneIsChosen, InPass, TypeOK
<1> QED
    BY <1>1, Thumbs, ConfigAssumption DEF Control, OneIsChosen

\* The fetch of a PFX and its import.
LEMMA ImportingKeeps ==
    ASSUME TypeOK, Views, Control, Importing
    PROVE  (TypeOK /\ Views /\ Control)'
<1> USE DEF remote, machine
<1>1. /\ pc \in {"fetch", "import"} /\ UNCHANGED <<issued, server, disk, trigger, bound, unnoticed>>
      /\ cur \in Configs /\ InPass /\ mem[cur] \in View
    BY TheOne DEF Importing, FetchOk, FetchRefused, FetchFails, ImportPfx, ImportFails
<1>2. pc = "import" => Imported \in SUBSET (Certificates \X Nat)
    BY <1>1 DEF Imported, TypeOK, View
<1>3. CASE FetchOk
    <2>1. /\ pc' = "import" /\ got' = issued[mem[cur].cert]
          /\ UNCHANGED <<mem, todo, cur, old, dirty, batch, store, spent>>
        BY <1>3 DEF FetchOk
    <2>2. got' \in Nat /\ mem[cur].gen <= issued[mem[cur].cert]
        BY <1>1, <2>1 DEF TypeOK, View, Views, ServerIsNewest
    <2>3. Control'
        BY <1>1, <1>3, <2>1, <2>2
           DEF FetchOk, Control, MemoryIsSaved, BatchIsMemory, OneIsChosen, ImportPhase,
               BindPhase, CleanPhase, InPass, TypeOK
    <2>4. Views'
        BY <1>1, <2>1, CallKeepsViews
    <2> QED
        BY <1>1, <2>1, <2>2, <2>3, <2>4 DEF TypeOK, Points
<1>4. CASE FetchRefused
    BY <1>1, <1>4, FinishKeeps, StatusNames DEF FetchRefused, TypeOK
<1>5. CASE FetchFails
    <2>1. spent' \in Nat
        BY <1>5, DisruptType DEF FetchFails
    <2> QED
        BY <1>1, <1>5, <2>1, FinishKeeps, StatusNames DEF FetchFails, TypeOK
<1>6. CASE ImportFails
    <2>1. spent' \in Nat /\ store' \in SUBSET (Certificates \X Nat)
        BY <1>2, <1>6, DisruptType DEF ImportFails, TypeOK
    <2> QED
        BY <1>1, <1>6, <2>1, FinishKeeps, StatusNames DEF ImportFails, TypeOK
<1>7. CASE ImportPfx
    <2>1. /\ pc = "import" /\ store' = Imported /\ pc' \in {"bind", "apply"}
          /\ pc' = "bind" <=> cur \in Sites
          /\ UNCHANGED <<mem, todo, cur, got, old, dirty, batch, spent>>
        BY <1>7 DEF ImportPfx, pass
    <2>2. Thumb(mem[cur]) \in store' \/ ~SameView(mem[cur], server[cur])
        <3>1. /\ got \in Nat /\ got >= mem[cur].gen /\ got <= issued[mem[cur].cert]
              /\ mem[cur].gen \in Nat /\ issued[mem[cur].cert] \in Nat
            BY <1>1, <2>1 DEF TypeOK, View, Control, ImportPhase
        <3>2. CASE got = mem[cur].gen
            BY <2>1, <3>2 DEF Imported, Thumb
        <3>3. CASE got > mem[cur].gen
            BY <1>1, <3>1, <3>3 DEF Views, ServerIsNewest, SameView
        <3> QED
            BY <3>1, <3>2, <3>3
    <2>3. Control'
        <3>1. BindPhase'
            BY <1>1, <2>1, <2>2 DEF BindPhase, SameView, Thumb
        <3>2. OneIsChosen'
            BY <1>1, <2>1 DEF Control, OneIsChosen, Configs
        <3> QED
            BY <1>1, <2>1, <3>1, <3>2
               DEF Control, MemoryIsSaved, BatchIsMemory, ImportPhase, CleanPhase, InPass
    <2>4. Views'
        BY <1>1, <2>1, CallKeepsViews
    <2> QED
        BY <1>1, <1>2, <2>1, <2>3, <2>4 DEF TypeOK, Points
<1> QED
    BY <1>3, <1>4, <1>5, <1>6, <1>7 DEF Importing

\* The script of an IIS site.
LEMMA ApplyingIISKeeps ==
    ASSUME TypeOK, Views, Control, ApplyingIIS
    PROVE  (TypeOK /\ Views /\ Control)'
<1> USE DEF remote, machine
<1>1. /\ pc \in {"bind", "clean"} /\ UNCHANGED <<issued, server, disk, trigger>>
      /\ cur \in Sites /\ cur \in Configs /\ InPass /\ mem[cur] \in View
      /\ Thumb(mem[cur]) \in Certificates \X Nat /\ Thumb(mem[cur]) # NoThumb
    BY TheOne DEF ApplyingIIS, BindNothing, SiteMissing, BindingIsCurrent, Binding,
                  AddSslCertificate, AddSslFails, RemoveOld, RemoveFails
<1>2. CASE BindNothing
    BY <1>1, <1>2, FinishKeeps, StatusNames DEF BindNothing, TypeOK
<1>3. CASE SiteMissing
    <2>1. spent' \in Nat
        BY <1>3, DisruptType DEF SiteMissing
    <2> QED
        BY <1>1, <1>3, <2>1, FinishKeeps, StatusNames DEF SiteMissing, TypeOK
<1>4. CASE BindingIsCurrent
    <2>1. bound[cur] = Thumb(mem[cur])
        BY <1>1, <1>4 DEF BindingIsCurrent, Current
    <2>2. /\ UNCHANGED <<store, bound, spent>> /\ Finish(cur, Synced)
          /\ unnoticed' = unnoticed \ {cur}
        BY <1>4 DEF BindingIsCurrent
    <2> QED
        BY <1>1, <2>1, <2>2, FinishKeeps, StatusNames DEF TypeOK
<1>5. ASSUME RemoveOld \/ RemoveFails PROVE (TypeOK /\ Views /\ Control)'
    <2>1. /\ pc = "clean" /\ Finish(cur, Synced) /\ UNCHANGED <<bound, unnoticed>>
          /\ store' \in SUBSET (Certificates \X Nat) /\ spent' \in Nat
        BY <1>5, DisruptType DEF RemoveOld, RemoveFails, TypeOK
    <2>2. Bound(cur, mem[cur]) \/ ~SameView(mem[cur], server[cur])
        BY <2>1 DEF Control, CleanPhase
    <2> QED
        BY <1>1, <2>1, <2>2, FinishKeeps, StatusNames DEF TypeOK, Bound
<1>6. ASSUME AddSslCertificate \/ AddSslFails PROVE (TypeOK /\ Views /\ Control)'
    <2>1. /\ pc = "bind" /\ pc' = "clean" /\ mem[cur].gen # 0 /\ old' = Current(cur)
          /\ UNCHANGED <<mem, store, todo, cur, got, dirty, batch>>
          /\ spent' \in Nat
        BY <1>6, DisruptType DEF AddSslCertificate, AddSslFails, Binding, TypeOK
    <2>2. \/ /\ bound' = [bound EXCEPT ![cur] = Thumb(mem[cur])]
             /\ unnoticed' = unnoticed \ {cur}
          \/ UNCHANGED <<bound, unnoticed>> /\ Thumb(mem[cur]) \notin store
          \/ bound' = bound /\ unnoticed' = unnoticed \cup {cur}
        BY <1>6 DEF AddSslCertificate, AddSslFails
    <2>3. /\ bound' \in [Configs -> (Certificates \X Nat) \cup {NoThumb}]
          /\ unnoticed' \in SUBSET Sites
        BY <1>1, <2>2 DEF TypeOK
    <2>4. \A d \in Sites :
              \/ bound'[d] = bound[d] /\ (d \in unnoticed' <=> d \in unnoticed)
              \/ d = cur /\ (bound'[cur] = Thumb(mem[cur]) \/ cur \in unnoticed')
        BY <1>1, <2>2 DEF TypeOK, Configs
    <2>5. Views'
        BY <1>1, <2>1, <2>4, StatusNames, VisitKeepsViews
    <2>6. CleanPhase'
        <3>1. \/ bound'[cur] = Thumb(mem[cur]) \/ cur \in unnoticed'
              \/ ~SameView(mem[cur], server[cur])
            BY <1>1, <2>1, <2>2 DEF TypeOK, Control, BindPhase
        <3>2. Current(cur) # Thumb(mem[cur])
            BY <1>6 DEF AddSslCertificate, AddSslFails, Binding
        <3> QED
            BY <1>1, <2>1, <3>1, <3>2 DEF CleanPhase, Bound, Thumb, SameView
    <2>7. Control'
        BY <1>1, <2>1, <2>6
           DEF Control, MemoryIsSaved, BatchIsMemory, OneIsChosen, ImportPhase,
               BindPhase, InPass
    <2>8. old' \in (Certificates \X Nat) \cup {NoThumb}
        BY <1>1, <2>1 DEF Current, TypeOK
    <2> QED
        BY <1>1, <2>1, <2>3, <2>5, <2>7, <2>8 DEF TypeOK, Points
<1> QED
    BY <1>2, <1>3, <1>4, <1>5, <1>6 DEF ApplyingIIS

\* The script of the RRAS gateway.
LEMMA ApplyingRRASKeeps ==
    ASSUME TypeOK, Views, Control, ApplyingRRAS
    PROVE  (TypeOK /\ Views /\ Control)'
<1> USE DEF remote, machine
<1>1. /\ pc = "apply" /\ UNCHANGED <<issued, server, disk, trigger, store, unnoticed>>
      /\ cur \in Configs /\ cur \notin Sites /\ InPass
      /\ Thumb(mem[cur]) \in Certificates \X Nat
    BY TheOne DEF ApplyingRRAS, ApplyRRAS, ApplyRefused, ApplyFails
<1>2. PICK s \in Status : Finish(cur, s)
    BY StatusNames DEF ApplyingRRAS, ApplyRRAS, ApplyRefused, ApplyFails
<1>3. bound' \in {bound, Applied} /\ spent' \in Nat
    BY DisruptType DEF ApplyingRRAS, ApplyRRAS, ApplyRefused, ApplyFails, TypeOK
<1>4. /\ bound' \in [Configs -> (Certificates \X Nat) \cup {NoThumb}]
      /\ \A d \in Sites : bound'[d] = bound[d]
    BY <1>1, <1>3 DEF Applied, TypeOK, Configs
<1> QED
    BY <1>1, <1>2, <1>3, <1>4, FinishKeeps DEF TypeOK

\* The end of a pass: the saving and the report of its statuses.
LEMMA EndingKeeps ==
    ASSUME TypeOK, Views, Control, EndLoop \/ SaveStatuses \/ ReportStatuses
    PROVE  (TypeOK /\ Views /\ Control)'
<1> USE DEF remote, machine
<1>1. CASE EndLoop
    <2>1. Control'
        BY <1>1 DEF EndLoop, pass, Control, MemoryIsSaved, BatchIsMemory, OneIsChosen,
                    ImportPhase, BindPhase, CleanPhase, InPass
    <2>2. Views'
        BY <1>1, CallKeepsViews DEF EndLoop
    <2> QED
        BY <1>1, <2>1, <2>2 DEF EndLoop, TypeOK, pass, Points
<1>2. CASE SaveStatuses
    <2>1. /\ pc = "save" /\ pc' = "report" /\ disk' \in {disk, mem} /\ spent' \in Nat
          /\ UNCHANGED <<issued, server, mem, store, bound, unnoticed, trigger>>
          /\ UNCHANGED <<todo, cur, got, old, dirty, batch>>
        BY <1>2, DisruptType DEF SaveStatuses, pass, TypeOK
    <2>2. Control'
        BY <2>1 DEF Control, MemoryIsSaved, BatchIsMemory, OneIsChosen,
                    ImportPhase, BindPhase, CleanPhase, InPass, SameView
    <2>3. Views'
        BY <2>1, CallKeepsViews
    <2> QED
        BY <2>1, <2>2, <2>3 DEF TypeOK, Points
<1>3. CASE ReportStatuses
    <2>1. /\ server' \in {server, Reported} /\ InPass /\ Return /\ spent' \in Nat
          /\ UNCHANGED <<issued, disk, store, bound, unnoticed>>
        BY <1>3, DisruptType DEF ReportStatuses, InPass, TypeOK
    <2>2. mem' \in {disk, mem} /\ Control'
        BY <2>1, ReturnTypes
    <2>3. Views'
        BY <2>1, <2>2, CallKeepsViews
    <2>4. server' \in [Configs -> View]
        BY <2>1, ReportedView DEF TypeOK
    <2> QED
        BY <2>1, <2>2, <2>3, <2>4, ReturnTypes DEF TypeOK
<1> QED
    BY <1>1, <1>2, <1>3

\* Crashes, removed certificates, renewals and edits.
LEMMA EnvironmentKeeps ==
    ASSUME TypeOK, Views, Control, Environment
    PROVE  (TypeOK /\ Views /\ Control)'
<1> USE DEF remote, machine
<1>1. CASE Crash
    <2>1. /\ UNCHANGED <<issued, server, disk, store, bound, unnoticed>>
          /\ ProcessGone /\ spent' \in Nat
        BY <1>1, DisruptType DEF Crash
    <2>2. mem' = disk /\ Control'
        BY <2>1, GoneTypes
    <2>3. Views'
        BY <2>1, <2>2, CallKeepsViews
    <2> QED
        BY <2>1, <2>2, <2>3, GoneTypes DEF TypeOK
<1>2. ASSUME NEW t \in store, Delete(t) PROVE (TypeOK /\ Views /\ Control)'
    <2>1. /\ UNCHANGED <<issued, server, disk, mem, bound, unnoticed, pc, trigger>>
          /\ UNCHANGED <<todo, cur, got, old, dirty, batch>>
          /\ store' = store \ {t} /\ spent' \in Nat /\ pc \in {"down", "idle"}
        BY <1>2, DisruptType DEF Delete, pass
    <2>2. Control'
        BY <2>1 DEF Control, MemoryIsSaved, BatchIsMemory, OneIsChosen, ImportPhase,
                    BindPhase, CleanPhase, InPass
    <2>3. Views'
        BY <2>1, CallKeepsViews
    <2> QED
        BY <2>1, <2>2, <2>3 DEF TypeOK
<1>3. ASSUME UNCHANGED <<disk, mem, store, bound, unnoticed, pc, trigger, pass, spent>>,
             issued' \in [Certificates -> Nat],
             server' \in [Configs -> View],
             \A k \in Certificates : issued'[k] >= issued[k],
             \A c \in Configs : /\ Revised(server[c], server'[c])
                                /\ server'[c].gen = issued'[server'[c].cert]
      PROVE  (TypeOK /\ Views /\ Control)'
    <2>1. TypeOK'
        BY <1>3 DEF TypeOK, pass
    <2>2. Views'
        BY <1>3, <2>1, ServerKeepsViews
    <2>3. ASSUME pc \in {"import", "bind", "clean", "apply"}
          PROVE  /\ cur \in Configs /\ mem[cur] \in View
                 /\ ~SameView(mem[cur], server[cur]) => ~SameView(mem[cur], server'[cur])
        <3>1. cur \in Configs /\ mem[cur] \in View
            BY <2>3, TheOne
        <3>2. /\ NoNewer(mem[cur], server[cur]) /\ Revised(server[cur], server'[cur])
              /\ server[cur] \in View /\ server'[cur] \in View
            BY <1>3, <3>1 DEF Views, ServerIsNewest, TypeOK
        <3> QED
            BY <3>1, <3>2, OutOfDate
    <2>4. ImportPhase'
        BY <1>3, <2>3 DEF Control, ImportPhase, TypeOK, View, pass
    <2>5. BindPhase'
        BY <1>3, <2>3 DEF Control, BindPhase, pass, SameView, Thumb
    <2>6. CleanPhase'
        BY <1>3, <2>3 DEF Control, CleanPhase, pass, SameView, Thumb, Bound
    <2>7. (MemoryIsSaved /\ BatchIsMemory /\ OneIsChosen)'
        BY <1>3 DEF Control, MemoryIsSaved, BatchIsMemory, OneIsChosen, InPass, pass, SameView
    <2> QED
        BY <2>1, <2>2, <2>4, <2>5, <2>6, <2>7 DEF Control
<1>4. ASSUME NEW k \in Certificates, Issue(k) PROVE (TypeOK /\ Views /\ Control)'
    <2>1. /\ UNCHANGED <<disk, mem, store, bound, unnoticed, pc, trigger, pass, spent>>
          /\ issued' = [issued EXCEPT ![k] = @ + 1]
          /\ \A c \in Configs :
                 server'[c] = IF server[c].cert # k THEN server[c]
                              ELSE [server[c] EXCEPT !.gen = issued[k] + 1,
                                                     !.status = Pending]
        BY <1>4 DEF Issue
    <2>0. issued \in [Certificates -> Nat] /\ issued[k] + 1 \in Nat
        <3>1. issued \in [Certificates -> Nat]
            BY DEF TypeOK
        <3> QED
            BY <3>1
    <2>2. /\ issued' \in [Certificates -> Nat]
          /\ \A j \in Certificates : issued'[j] >= issued[j]
          /\ issued'[k] = issued[k] + 1
          /\ \A j \in Certificates : j # k => issued'[j] = issued[j]
        <3>1. issued' = [issued EXCEPT ![k] = issued[k] + 1]
            BY <2>1
        <3> QED
            BY <2>0, <3>1
    <2>3. ASSUME NEW c \in Configs
          PROVE  /\ Revised(server[c], server'[c]) /\ server'[c] \in View
                 /\ server'[c].gen = issued'[server'[c].cert]
        <3>1. server[c] \in View /\ server[c].gen = issued[server[c].cert]
            BY DEF TypeOK, Views, ServerIsNewest
        <3>2. server'[c] = IF server[c].cert # k THEN server[c]
                           ELSE [server[c] EXCEPT !.gen = issued[k] + 1,
                                                  !.status = Pending]
            BY <2>1, Zenon
        <3>3. CASE server[c].cert # k
            BY <2>2, <3>1, <3>2, <3>3 DEF Revised, View
        <3>4. CASE server[c].cert = k
            BY <2>0, <2>2, <3>1, <3>2, <3>4, StatusNames DEF Revised, View
        <3> QED
            BY <3>3, <3>4
    <2>4. server' \in [Configs -> View]
        BY <1>4, <2>3 DEF Issue
    <2> QED
        BY <1>3, <2>1, <2>2, <2>3, <2>4
<1>5. ASSUME NEW c \in Configs, NEW form \in Form, NEW k \in Certificates, Edit(c, form, k)
      PROVE  (TypeOK /\ Views /\ Control)'
    <2> DEFINE w == [form |-> form, cert |-> k, gen |-> issued[k],
                     rev |-> server[c].rev + 1, status |-> Pending]
    <2>1. /\ UNCHANGED <<issued, disk, mem, store, bound, unnoticed, pc, trigger, pass, spent>>
          /\ server' = [server EXCEPT ![c] = w]
        BY <1>5 DEF Edit
    <2>2. w \in View
        BY StatusNames DEF TypeOK, View
    <2>3. \A d \in Configs : /\ Revised(server[d], server'[d])
                             /\ server'[d].gen = issued[server'[d].cert]
        BY <2>1 DEF Revised, TypeOK, Views, ServerIsNewest
    <2>4. server' \in [Configs -> View]
        BY <2>1, <2>2 DEF TypeOK
    <2>5. \A j \in Certificates : issued'[j] >= issued[j]
        BY <2>1 DEF TypeOK
    <2>6. issued' \in [Certificates -> Nat] /\ issued' = issued
        BY <2>1 DEF TypeOK
    <2> QED
        BY <1>3, <2>1, <2>3, <2>4, <2>5, <2>6
<1> QED
    BY <1>1, <1>2, <1>4, <1>5 DEF Environment

\* The invariant of the Windows store: what SYNCED says of a site's binding, which
\* views are out of date, and what is known at each point of a pass.
LEMMA StoreInvariance == Spec => []StoreInv
<1>1. Init => StoreInv
    <2> SUFFICES ASSUME Init PROVE StoreInv
        OBVIOUS
    <2>1. Nothing \in View
        BY CertificateAssumption, StatusNames DEF Nothing, View, Form
    <2>2. TypeOK
        BY <2>1 DEF Init, TypeOK, Points
    <2>3. Views
        BY <2>1, StatusNames DEF Init, Views, ViewsAreSound, ServerIsSound, ServerIsNewest,
           Sound, NoNewer, Nothing, View, Configs
    <2>4. Control
        BY DEF Init, Control, MemoryIsSaved, BatchIsMemory, OneIsChosen, ImportPhase,
               BindPhase, CleanPhase, InPass
    <2> QED
        BY <2>2, <2>3, <2>4, Parts
<1>2. StoreInv /\ [Next]_vars => StoreInv'
    <2> SUFFICES ASSUME StoreInv, [Next]_vars PROVE StoreInv'
        OBVIOUS
    <2>1. TypeOK /\ Views /\ Control
        BY Parts
    <2>2. CASE AgentStep
        BY <2>1, <2>2, PollingKeeps, DecidingKeeps, ImportingKeeps, ApplyingIISKeeps,
           ApplyingRRASKeeps, EndingKeeps, Parts DEF AgentStep, StoreInv, Views, Control
    <2>3. CASE Environment
        BY <2>1, <2>3, EnvironmentKeeps, Parts DEF StoreInv, Views, Control
    <2>4. CASE UNCHANGED vars
        BY <2>4 DEF vars, remote, machine, pass, StoreInv, TypeOK, ViewsAreSound,
           ServerIsSound, ServerIsNewest, MemoryIsSaved, BatchIsMemory, OneIsChosen,
           ImportPhase, BindPhase, CleanPhase, InPass, Sound, SameView, Bound, Thumb,
           NoNewer
    <2> QED
        BY <2>2, <2>3, <2>4 DEF Next
<1> QED
    BY <1>1, <1>2, PTL DEF Spec

-----------------------------------------------------------------------------
(* Where a step of a pass leads *)

\* Finishing a visit.
LEMMA FinishMoves ==
    ASSUME NEW c, NEW s, Finish(c, s)
    PROVE  pc' = "next" /\ todo' = todo \ {c}
BY DEF Finish

\* A step of the agent leaves the pass, begins one, visits a configuration without a call,
\* chooses one, goes on with it, ends its visit, or ends the loop.
LEMMA AgentMoves ==
    ASSUME Control, AgentStep
    PROVE  \/ pc' \in {"down", "poll", "idle"}
           \/ ~InPass /\ pc' = "next"
           \/ pc = "next" /\ pc' = "next" /\ \E c \in todo : todo' = todo \ {c}
           \/ pc = "next" /\ pc' \in {"fetch", "bind"} /\ cur' \in todo /\ todo' = todo
           \/ /\ <<pc, pc'>> \in {<<"fetch", "import">>, <<"import", "bind">>,
                                  <<"import", "apply">>, <<"bind", "clean">>}
              /\ UNCHANGED <<todo, cur>>
           \/ OnOne /\ pc' = "next" /\ todo' = todo \ {cur}
           \/ pc = "next" /\ todo = {} /\ todo' = {} /\ pc' \in {"save", "report"}
           \/ pc = "save" /\ pc' = "report" /\ todo' = todo
<1>1. CASE Polling
    BY <1>1 DEF Polling, StartPoll, PollFailed, PollNoContent, PollUpdated, PollUnsaved,
                Return, ProcessGone, BeginPass, InPass
<1>2. ASSUME NEW c \in Configs, Deciding(c)
      PROVE  \/ pc = "next" /\ pc' = "next" /\ \E d \in todo : todo' = todo \ {d}
             \/ pc = "next" /\ pc' \in {"fetch", "bind"} /\ cur' \in todo /\ todo' = todo
    <2>1. pc = "next" /\ c \in todo
        BY <1>2 DEF Deciding, Reject, Skip, StoreFails, Compare
    <2>2. \/ \E s : Finish(c, s)
          \/ pc' = pc /\ todo' = todo \ {c}
          \/ Visit(c, "fetch") \/ Visit(c, "bind")
        BY <1>2 DEF Deciding, Reject, Skip, StoreFails, Compare
    <2> QED
        BY <2>1, <2>2, FinishMoves DEF Visit
<1>3. CASE FetchOk \/ ImportPfx \/ AddSslCertificate \/ AddSslFails
    BY <1>3 DEF FetchOk, ImportPfx, AddSslCertificate, AddSslFails, Binding, pass
<1>4. CASE FetchRefused \/ FetchFails \/ ImportFails \/ BindNothing \/ SiteMissing
           \/ BindingIsCurrent \/ RemoveOld \/ RemoveFails \/ ApplyingRRAS
    <2>1. OnOne
        BY <1>4 DEF FetchRefused, FetchFails, ImportFails, BindNothing, SiteMissing,
                    BindingIsCurrent, Binding, RemoveOld, RemoveFails, ApplyingRRAS,
                    ApplyRRAS, ApplyRefused, ApplyFails, OnOne
    <2>2. \E s : Finish(cur, s)
        BY <1>4 DEF FetchRefused, FetchFails, ImportFails, BindNothing, SiteMissing,
                    BindingIsCurrent, RemoveOld, RemoveFails, ApplyingRRAS,
                    ApplyRRAS, ApplyRefused, ApplyFails
    <2> QED
        BY <2>1, <2>2, FinishMoves
<1>5. CASE EndLoop \/ SaveStatuses
    BY <1>5 DEF EndLoop, SaveStatuses, pass
<1>6. CASE ReportStatuses
    BY <1>6 DEF ReportStatuses, Return, ProcessGone
<1> QED
    BY <1>1, <1>2, <1>3, <1>4, <1>5, <1>6 DEF AgentStep, Importing, ApplyingIIS

\* Others end the process, or leave its pass alone.
LEMMA OthersMove ==
    ASSUME Environment
    PROVE  pc' = "down" \/ UNCHANGED <<pc, todo, cur>>
BY DEF Environment, Crash, ProcessGone, Delete, Issue, Edit, pass

\* No step takes a configuration for visited that is not.
LEMMA VisitedStep ==
    ASSUME Control, Visited, [Next]_vars
    PROVE  Visited'
<1>1. CASE AgentStep
    BY <1>1, AgentMoves DEF Visited, InPass, OnOne
<1>2. CASE Environment
    BY <1>2, OthersMove DEF Visited, OnOne
<1>3. CASE UNCHANGED vars
    BY <1>3 DEF vars, pass, Visited, OnOne
<1> QED
    BY <1>1, <1>2, <1>3 DEF Next

-----------------------------------------------------------------------------
(* What a step does to bindings *)

\* A step that binds does so in a pass, to what memory and config.json name.
LEMMA BindingEffect ==
    ASSUME TypeOK, Control, [Next]_vars
    PROVE  \/ bound' = bound
           \/ /\ InPass /\ cur \in Configs /\ UNCHANGED <<issued, disk>>
              /\ bound' = [bound EXCEPT ![cur] = Thumb(mem[cur])]
<1> USE DEF remote, machine
<1>1. CASE AddSslCertificate
    <2>1. pc = "bind" /\ UNCHANGED <<issued, disk>>
        BY <1>1 DEF AddSslCertificate, Binding
    <2>2. bound' = bound \/ bound' = [bound EXCEPT ![cur] = Thumb(mem[cur])]
        BY <1>1 DEF AddSslCertificate
    <2> QED
        BY <2>1, <2>2, TheOne
<1>2. CASE ApplyingRRAS
    <2>1. pc = "apply" /\ UNCHANGED <<issued, disk>> /\ bound' \in {bound, Applied}
        BY <1>2 DEF ApplyingRRAS, ApplyRRAS, ApplyRefused, ApplyFails
    <2> QED
        BY <2>1, TheOne DEF Applied
<1>3. CASE Polling \/ Importing \/ EndLoop \/ SaveStatuses \/ ReportStatuses
    BY <1>3 DEF Polling, StartPoll, PollFailed, PollNoContent, PollUpdated, PollUnsaved,
                Importing, FetchOk, FetchRefused, FetchFails, ImportPfx, ImportFails,
                EndLoop, SaveStatuses, ReportStatuses
<1>4. CASE BindNothing \/ SiteMissing \/ BindingIsCurrent \/ AddSslFails \/ RemoveOld
           \/ RemoveFails
    BY <1>4 DEF BindNothing, SiteMissing, BindingIsCurrent, AddSslFails, RemoveOld, RemoveFails
<1>5. ASSUME NEW c \in Configs, Deciding(c) PROVE bound' = bound
    BY <1>5 DEF Deciding, Reject, Skip, StoreFails, Compare
<1>6. CASE Environment
    BY <1>6 DEF Environment, Crash, Delete, Issue, Edit
<1>7. CASE UNCHANGED vars
    BY <1>7 DEF vars
<1> QED
    BY <1>1, <1>2, <1>3, <1>4, <1>5, <1>6, <1>7 DEF Next, AgentStep, ApplyingIIS

\* config.json takes over what the server has assigned, or statuses alone.
LEMMA SavingEffect ==
    ASSUME TypeOK, Control, [Next]_vars
    PROVE  \/ disk' = disk
           \/ disk' = Delivered /\ server' = Delivered /\ UNCHANGED <<issued, bound>>
           \/ disk' = mem /\ InPass /\ UNCHANGED <<issued, bound>>
<1> USE DEF remote, machine
<1>1. CASE PollUpdated
    BY <1>1 DEF PollUpdated
<1>2. CASE SaveStatuses
    BY <1>2 DEF SaveStatuses, InPass
<1>3. CASE StartPoll \/ PollFailed \/ PollNoContent \/ PollUnsaved \/ Importing
           \/ EndLoop \/ ReportStatuses
    BY <1>3 DEF StartPoll, PollFailed, PollNoContent, PollUnsaved,
                Importing, FetchOk, FetchRefused, FetchFails, ImportPfx, ImportFails,
                EndLoop, ReportStatuses
<1>4. CASE ApplyingIIS \/ ApplyingRRAS
    BY <1>4 DEF ApplyingIIS, BindNothing, SiteMissing, BindingIsCurrent, AddSslCertificate,
                Binding, AddSslFails, RemoveOld, RemoveFails, ApplyingRRAS, ApplyRRAS,
                ApplyRefused, ApplyFails
<1>5. ASSUME NEW c \in Configs, Deciding(c) PROVE disk' = disk
    BY <1>5 DEF Deciding, Reject, Skip, StoreFails, Compare
<1>6. CASE Environment
    BY <1>6 DEF Environment, Crash, Delete, Issue, Edit
<1>7. CASE UNCHANGED vars
    BY <1>7 DEF vars
<1> QED
    BY <1>1, <1>2, <1>3, <1>4, <1>5, <1>6, <1>7 DEF Next, AgentStep, Polling

\* What was issued stays issued.
LEMMA IssuedEffect ==
    ASSUME TypeOK, [Next]_vars
    PROVE  \A k \in Certificates : issued'[k] \in Nat /\ issued'[k] >= issued[k]
<1> USE DEF remote, machine
<1>0. issued \in [Certificates -> Nat]
    BY DEF TypeOK
<1>1. ASSUME AgentStep PROVE issued' = issued
    <2>1. ASSUME NEW c \in Configs, Deciding(c) PROVE issued' = issued
        BY <2>1 DEF Deciding, Reject, Skip, StoreFails, Compare
    <2>2. ASSUME Polling \/ EndLoop \/ SaveStatuses \/ ReportStatuses
          PROVE  issued' = issued
        BY <2>2 DEF Polling, StartPoll, PollFailed, PollNoContent, PollUpdated, PollUnsaved,
                    EndLoop, SaveStatuses, ReportStatuses
    <2>3. ASSUME Importing PROVE issued' = issued
        BY <2>3 DEF Importing, FetchOk, FetchRefused, FetchFails, ImportPfx, ImportFails
    <2>4. ASSUME ApplyingIIS \/ ApplyingRRAS PROVE issued' = issued
        BY <2>4 DEF ApplyingIIS, BindNothing, SiteMissing, BindingIsCurrent,
                    AddSslCertificate, Binding, AddSslFails, RemoveOld, RemoveFails,
                    ApplyingRRAS, ApplyRRAS, ApplyRefused, ApplyFails
    <2> QED
        BY <1>1, <2>1, <2>2, <2>3, <2>4 DEF AgentStep
<1>2. ASSUME Environment
      PROVE  issued' = issued
             \/ \E k \in Certificates : issued' = [issued EXCEPT ![k] = issued[k] + 1]
    BY <1>2 DEF Environment, Crash, Delete, Issue, Edit
<1>3. CASE issued' = issued
    BY <1>0, <1>3
<1>4. CASE \E k \in Certificates : issued' = [issued EXCEPT ![k] = issued[k] + 1]
    BY <1>0, <1>4
<1> QED
    BY <1>1, <1>2, <1>3, <1>4 DEF Next, vars

\* Between the two, what is bound is never ahead of config.json.
LEMMA BindingStep ==
    ASSUME TypeOK, Views, Control, BindingsAreKnown, [Next]_vars
    PROVE  BindingsAreKnown' /\ BindingsAdvance
<1> SUFFICES ASSUME NEW c \in Configs
             PROVE  /\ bound'[c] # NoThumb =>
                         /\ bound'[c][2] <= issued'[bound'[c][1]]
                         /\ bound'[c][1] = disk'[c].cert => bound'[c][2] <= disk'[c].gen
                    /\ bound[c] # NoThumb =>
                         /\ bound'[c] # NoThumb
                         /\ bound'[c][1] = bound[c][1] => bound'[c][2] >= bound[c][2]
    BY DEF BindingsAreKnown, BindingsAdvance
<1>1. /\ disk[c] \in View /\ mem[c] \in View /\ server[c] \in View
      /\ bound[c] # NoThumb => bound[c][1] \in Certificates /\ bound[c][2] \in Nat
      /\ \A k \in Certificates : /\ issued[k] \in Nat
                                 /\ issued'[k] \in Nat /\ issued'[k] >= issued[k]
    BY IssuedEffect DEF TypeOK
<1>2. bound[c] # NoThumb =>
          /\ bound[c][2] <= issued[bound[c][1]]
          /\ bound[c][1] = disk[c].cert => bound[c][2] <= disk[c].gen
    BY DEF BindingsAreKnown
<1>3. CASE bound'[c] = bound[c]
    <2>1. CASE disk' = disk
        BY <1>1, <1>2, <1>3, <2>1
    <2>2. CASE disk' = Delivered /\ server' = Delivered /\ issued' = issued
        <3>1. SameView(Delivered[c], server[c])
            BY DeliveredView
        <3>2. server[c].gen = issued[server[c].cert]
            BY DEF Views, ServerIsNewest
        <3> QED
            BY <1>1, <1>2, <1>3, <2>2, <3>1, <3>2 DEF SameView
    <2>3. CASE disk' = mem /\ InPass /\ issued' = issued
        <3>1. SameView(mem[c], disk[c])
            BY <2>3 DEF Control, MemoryIsSaved
        <3> QED
            BY <1>1, <1>2, <1>3, <2>3, <3>1 DEF SameView
    <2> QED
        BY <2>1, <2>2, <2>3, SavingEffect
<1>4. CASE bound'[c] # bound[c]
    <2>1. /\ InPass /\ c = cur /\ UNCHANGED <<issued, disk>>
          /\ bound'[c] = Thumb(mem[c])
        BY <1>4, BindingEffect DEF TypeOK
    <2>2. SameView(mem[c], disk[c]) /\ Thumb(mem[c]) # NoThumb
        BY <1>1, <2>1, Thumbs DEF Control, MemoryIsSaved
    <2>3. bound'[c][1] = mem[c].cert /\ bound'[c][2] = mem[c].gen
        BY <2>1 DEF Thumb
    <2>4. mem[c].gen <= issued[mem[c].cert]
        BY DEF Views, ServerIsNewest
    <2> QED
        BY <1>1, <1>2, <2>1, <2>2, <2>3, <2>4 DEF SameView, View
<1> QED
    BY <1>3, <1>4

-----------------------------------------------------------------------------
(* What a visit and a pass come to *)

\* A visit that ends without a fault ends with SYNCED, the certificate in the store, and the
\* site bound to it.
LEMMA VisitEnds ==
    ASSUME StoreInv, Visited, Next, NEW c \in Configs,
           InPass, c \in todo \ todo', spent' = spent,
           mem[c].form = "ok", mem[c].gen # 0, SameView(mem[c], server[c])
    PROVE  /\ Finish(c, Synced)
           /\ Thumb(mem[c]) \in store'
           /\ c \in Sites => bound'[c] = Thumb(mem[c]) \/ c \in unnoticed'
<1> USE DEF remote, machine
<1>0. /\ TypeOK /\ Views /\ Control
      /\ issued[mem[c].cert] # 0
    <2>1. TypeOK /\ Views /\ Control
        BY Parts
    <2> QED
        BY <2>1 DEF Views, ServerIsNewest, SameView
<1>1. \A kind : ~Disrupt(kind)
    BY <1>0 DEF Disrupt, TypeOK
<1>2. pc \notin {"down", "poll", "idle", "save", "report"}
    BY DEF Visited, InPass
<1>3. ASSUME NEW s, Finish(cur, s) PROVE c = cur
    BY <1>3 DEF Finish
<1>4. CASE Polling \/ SaveStatuses \/ ReportStatuses
    BY <1>2, <1>4 DEF Polling, StartPoll, PollFailed, PollNoContent, PollUpdated, PollUnsaved,
                      SaveStatuses, ReportStatuses
<1>5. CASE EndLoop
    BY <1>5 DEF EndLoop
<1>6. ASSUME NEW d \in Configs, Deciding(d)
      PROVE  /\ Finish(c, Synced)
             /\ Thumb(mem[c]) \in store'
             /\ c \in Sites => bound'[c] = Thumb(mem[c]) \/ c \in unnoticed'
    <2>1. d = c
        BY <1>6 DEF Deciding, Reject, Skip, StoreFails, Compare, Finish, Visit
    <2>2. Compare(c)
        BY <1>1, <1>6, <2>1 DEF Deciding, Reject, Skip, StoreFails, Unusable
    <2>3. ~Visit(c, "fetch") /\ ~Visit(c, "bind")
        BY DEF Visit
    <2>4. /\ Finish(c, Synced) /\ ~NeedsFetch(c) /\ ~RetryFull(c) /\ ~ApplyOnly(c)
          /\ UNCHANGED <<store, bound, unnoticed>>
        BY <2>2, <2>3 DEF Compare
    <2>5. Thumb(mem[c]) \in store
        BY <2>4 DEF NeedsFetch
    <2>6. ASSUME c \in Sites PROVE Bound(c, mem[c])
        <3>1. mem[c].status \in Status
            BY <1>0 DEF TypeOK, View
        <3>2. mem[c].status = Synced
            BY <2>4, <2>6, <3>1 DEF RetryFull, ApplyOnly, RetryUpdateOnly, Status
        <3> QED
            BY <1>0, <2>6, <3>2 DEF Views, ViewsAreSound, Sound
    <2> QED
        BY <2>4, <2>5, <2>6 DEF Bound
<1>7. CASE FetchOk \/ ImportPfx \/ AddSslCertificate
    BY <1>7 DEF FetchOk, ImportPfx, AddSslCertificate, Binding, pass
<1>8. CASE FetchRefused
    <2>1. c = cur
        BY <1>3, <1>8 DEF FetchRefused
    <2> QED
        BY <1>0, <1>8, <2>1 DEF FetchRefused, SameView
<1>9. CASE FetchFails \/ ImportFails \/ SiteMissing \/ AddSslFails \/ RemoveFails \/ ApplyFails
    BY <1>1, <1>9 DEF FetchFails, ImportFails, SiteMissing, AddSslFails, RemoveFails, ApplyFails
<1>10. CASE BindNothing
    <2>1. c = cur
        BY <1>3, <1>10 DEF BindNothing
    <2> QED
        BY <1>10, <2>1 DEF BindNothing
<1>11. CASE BindingIsCurrent
    <2>1. c = cur /\ Finish(cur, Synced) /\ UNCHANGED <<store, bound>>
        BY <1>3, <1>11 DEF BindingIsCurrent
    <2>2. bound[c] \in store /\ bound[c] = Thumb(mem[c])
        BY <1>0, <1>11, <2>1, Thumbs DEF BindingIsCurrent, Current, TypeOK
    <2> QED
        BY <2>1, <2>2
<1>12. CASE RemoveOld
    <2>1. /\ c = cur /\ Finish(cur, Synced) /\ store' = store \ {old}
          /\ UNCHANGED <<bound, unnoticed>> /\ pc = "clean"
        BY <1>3, <1>12 DEF RemoveOld
    <2>2. Thumb(mem[c]) \in store /\ old # Thumb(mem[c]) /\ Bound(c, mem[c])
        BY <1>0, <2>1 DEF Control, BindPhase, CleanPhase
    <2> QED
        BY <2>1, <2>2 DEF Bound
<1>13. CASE ApplyRRAS
    <2>1. c = cur /\ Finish(cur, Synced) /\ store' = store /\ Thumb(mem[cur]) \in store
        BY <1>3, <1>13 DEF ApplyRRAS
    <2>2. cur \in Gateways
        BY <1>0, <1>13 DEF ApplyRRAS, Control, OneIsChosen
    <2> QED
        BY <2>1, <2>2, ConfigAssumption
<1>14. CASE ApplyRefused
    <2>1. c = cur
        BY <1>3, <1>14 DEF ApplyRefused
    <2> QED
        BY <1>0, <1>14, <2>1 DEF ApplyRefused, Control, BindPhase
<1>15. CASE Environment
    BY <1>1, <1>15 DEF Environment, Crash, Delete, Issue, Edit, pass
<1> QED
    BY <1>4, <1>5, <1>6, <1>7, <1>8, <1>9, <1>10, <1>11, <1>12, <1>13, <1>14, <1>15
    DEF Next, AgentStep, Importing, ApplyingIIS, ApplyingRRAS

\* One configuration less.
LEMMA OneLess ==
    ASSUME NEW S, IsFiniteSet(S), NEW x \in S
    PROVE  /\ Cardinality(S) \in Nat
           /\ Cardinality(S \ {x}) = Cardinality(S) - 1
BY FS_RemoveElement, FS_CardinalityType

\* What is left to do at each point of a pass, before a step and after it.
LEMMA EffortAt ==
    /\ pc = "next"             => Effort = 16 * Cardinality(todo) + 15
    /\ pc = "fetch"            => Effort = 16 * Cardinality(todo) + 14
    /\ pc = "import"           => Effort = 16 * Cardinality(todo) + 13
    /\ pc \in {"bind", "apply"} => Effort = 16 * Cardinality(todo) + 12
    /\ pc = "clean"            => Effort = 16 * Cardinality(todo) + 11
    /\ pc = "save"             => Effort = 16 * Cardinality(todo) + 5
    /\ pc = "report"           => Effort = 16 * Cardinality(todo) + 4
BY DEF Effort

LEMMA EffortThen ==
    /\ pc' = "next"             => Effort' = 16 * Cardinality(todo') + 15
    /\ pc' = "fetch"            => Effort' = 16 * Cardinality(todo') + 14
    /\ pc' = "import"           => Effort' = 16 * Cardinality(todo') + 13
    /\ pc' \in {"bind", "apply"} => Effort' = 16 * Cardinality(todo') + 12
    /\ pc' = "clean"            => Effort' = 16 * Cardinality(todo') + 11
    /\ pc' = "save"             => Effort' = 16 * Cardinality(todo') + 5
    /\ pc' = "report"           => Effort' = 16 * Cardinality(todo') + 4
BY DEF Effort

\* A step of the agent inside a pass leaves less to do.
LEMMA AgentStepEnds ==
    ASSUME IsFiniteSet(Configs), TypeOK, TypeOK', Control, Visited, AgentStep, InPass, InPass'
    PROVE  Effort' < Effort
<1> DEFINE n == Cardinality(todo)
           m == Cardinality(todo')
<1>1. IsFiniteSet(todo) /\ n \in Nat /\ m \in Nat
    <2>1. todo \in SUBSET Configs /\ todo' \in SUBSET Configs
        BY DEF TypeOK
    <2> QED
        BY <2>1, FS_Subset, FS_CardinalityType
<1>2. /\ pc = "next"             => Effort = 16 * n + 15
      /\ pc = "fetch"            => Effort = 16 * n + 14
      /\ pc = "import"           => Effort = 16 * n + 13
      /\ pc \in {"bind", "apply"} => Effort = 16 * n + 12
      /\ pc = "clean"            => Effort = 16 * n + 11
      /\ pc = "save"             => Effort = 16 * n + 5
    BY EffortAt
<1>3. /\ pc' = "next"             => Effort' = 16 * m + 15
      /\ pc' = "fetch"            => Effort' = 16 * m + 14
      /\ pc' = "import"           => Effort' = 16 * m + 13
      /\ pc' \in {"bind", "apply"} => Effort' = 16 * m + 12
      /\ pc' = "clean"            => Effort' = 16 * m + 11
      /\ pc' = "save"             => Effort' = 16 * m + 5
      /\ pc' = "report"           => Effort' = 16 * m + 4
    BY EffortThen
<1>4. ASSUME NEW c \in todo, todo' = todo \ {c}
      PROVE  m = n - 1
    BY <1>1, <1>4, OneLess
<1>5. ASSUME todo' = todo
      PROVE  m = n
    BY <1>5
<1> HIDE DEF n, m
<1>6. pc' \notin {"down", "poll", "idle"}
    BY DEF InPass
<1>7. CASE pc = "next" /\ pc' = "next" /\ \E c \in todo : todo' = todo \ {c}
    BY <1>1, <1>2, <1>3, <1>4, <1>7
<1>8. CASE pc = "next" /\ pc' \in {"fetch", "bind"} /\ todo' = todo
    BY <1>1, <1>2, <1>3, <1>5, <1>8
<1>9. CASE /\ <<pc, pc'>> \in {<<"fetch", "import">>, <<"import", "bind">>,
                               <<"import", "apply">>, <<"bind", "clean">>}
           /\ todo' = todo
    BY <1>1, <1>2, <1>3, <1>5, <1>9
<1>10. CASE OnOne /\ pc' = "next" /\ todo' = todo \ {cur}
    <2>1. m = n - 1
        BY <1>4, <1>10 DEF Visited
    <2> QED
        BY <1>1, <1>2, <1>3, <1>10, <2>1 DEF OnOne
<1>11. CASE pc = "next" /\ todo' = todo /\ pc' \in {"save", "report"}
    BY <1>1, <1>2, <1>3, <1>5, <1>11
<1>12. CASE pc = "save" /\ pc' = "report" /\ todo' = todo
    BY <1>1, <1>2, <1>3, <1>5, <1>12
<1> QED
    BY <1>6, <1>7, <1>8, <1>9, <1>10, <1>11, <1>12, AgentMoves

-----------------------------------------------------------------------------
(* The theorems *)

\* The invariant of the Windows store: what SYNCED says of a site's binding, which views are
\* out of date, what is known at each point of a pass, and what has been bound so far.
THEOREM Invariance == Spec => []IndInv
<1>1. Init => Visited /\ BindingsAreKnown
    BY DEF Init, Visited, OnOne, BindingsAreKnown
<1>2. StoreInv /\ Visited /\ BindingsAreKnown /\ [Next]_vars
          => Visited' /\ BindingsAreKnown'
    BY Parts, VisitedStep, BindingStep
<1>3. Spec => [](Visited /\ BindingsAreKnown)
    BY <1>1, <1>2, StoreInvariance, PTL DEF Spec
<1>4. StoreInv /\ (Visited /\ BindingsAreKnown) => IndInv
    BY DEF IndInv
<1> QED
    BY <1>3, <1>4, StoreInvariance, PTL

\* Every variable keeps to its type.
THEOREM TypeCorrect == Spec => []TypeOK
<1>1. StoreInv => TypeOK
    BY DEF StoreInv
<1> QED
    BY <1>1, StoreInvariance, PTL

\* A site the agent has saved as SYNCED is bound to the certificate it is still
\* assigned, for any sites and gateway that share any certificates, whatever fails,
\* but for AddSslCertificate itself.
THEOREM SyncedSitesAreBound == Spec => []SyncedIsBound
<1>1. StoreInv => SyncedIsBound
    BY DEF StoreInv, ViewsAreSound, Sound, SyncedIsBound, Bound
<1> QED
    BY <1>1, StoreInvariance, PTL

\* What the server shows of a site is as true as what config.json says.
THEOREM ServerIsNotMisled == Spec => []ServerNotMisled
<1>1. StoreInv => ServerNotMisled
    BY DEF StoreInv, ServerIsSound, Sound, SameView, ServerNotMisled, Bound
<1> QED
    BY <1>1, StoreInvariance, PTL

\* Whatever crashes, fails or overtakes it, no step takes a binding away from a site or from
\* the gateway, or goes back to an older generation of the certificate that is bound.
THEOREM BindingsOnlyAdvance == Spec => NeverUnbound
<1>1. IndInv /\ [Next]_vars => [BindingsAdvance]_vars
    BY Parts, BindingStep DEF IndInv
<1> QED
    BY <1>1, Invariance, PTL DEF Spec, NeverUnbound

\* A visit whose calls succeed ends with SYNCED, the certificate in the store and the site bound
\* to it, whatever the visits of others, and failures before it, made of the store.
THEOREM VisitsDoInstall == Spec => VisitsInstall
<1>1. ASSUME StoreInv, Visited, [Next]_vars PROVE [VisitInstalls]_vars
    <2> SUFFICES ASSUME Next PROVE VisitInstalls
        BY <1>1
    <2>1. ASSUME NEW c \in Configs, InPass, c \in todo \ todo', spent' = spent,
                 mem[c].form = "ok", mem[c].gen # 0, SameView(mem[c], server[c])
          PROVE  /\ mem'[c].status = Synced
                 /\ Thumb(mem'[c]) \in store'
                 /\ c \in Sites => Bound(c, mem[c])'
        <3>1. /\ Finish(c, Synced) /\ Thumb(mem[c]) \in store'
              /\ c \in Sites => bound'[c] = Thumb(mem[c]) \/ c \in unnoticed'
            BY <1>1, <2>1, VisitEnds
        <3>2. mem \in [Configs -> View]
            BY <1>1 DEF StoreInv, TypeOK
        <3>3. mem' = [mem EXCEPT ![c].status = Synced]
            BY <3>1, StatusNames DEF Finish
        <3>4. /\ mem'[c].status = Synced /\ mem'[c].cert = mem[c].cert
              /\ mem'[c].gen = mem[c].gen
            BY <3>2, <3>3 DEF View
        <3> QED
            BY <3>1, <3>4 DEF Thumb, Bound
    <2> QED
        BY <2>1 DEF VisitInstalls
<1>2. IndInv => StoreInv /\ Visited
    BY DEF IndInv
<1> QED
    BY <1>1, <1>2, Invariance, PTL DEF Spec, VisitsInstall

\* Every pass ends, after a number of steps that its configurations bound: no step of the
\* agent goes back, and none of the server, or of what fails, adds to what is left to do.
THEOREM PassesDoEnd ==
    ASSUME IsFiniteSet(Configs)
    PROVE  Spec => PassesEnd
<1>1. ASSUME TypeOK, TypeOK', Control, Visited, [Next]_vars PROVE [EndIsNearer]_vars
    <2> SUFFICES ASSUME Next, InPass, InPass'
                 PROVE  Effort' <= Effort /\ (AgentStep => Effort' < Effort)
        BY <1>1 DEF EndIsNearer
    <2>1. Effort \in Int /\ Effort' \in Int
        <3>1. todo \in SUBSET Configs /\ todo' \in SUBSET Configs
            BY <1>1 DEF TypeOK
        <3>2. IsFiniteSet(todo) /\ IsFiniteSet(todo')
            BY <3>1, FS_Subset, Zenon
        <3>3. Cardinality(todo) \in Nat /\ Cardinality(todo') \in Nat
            BY <3>2, FS_CardinalityType, Zenon
        <3> QED
            BY <3>3, EffortAt, EffortThen DEF InPass
    <2>2. ASSUME AgentStep PROVE Effort' < Effort
        BY <1>1, <2>2, AgentStepEnds, Zenon
    <2>3. ASSUME Environment PROVE Effort' = Effort
        <3>1. UNCHANGED <<pc, todo>>
            BY <2>3, OthersMove DEF InPass
        <3> QED
            BY <3>1 DEF Effort
    <2>4. Effort' < Effort \/ Effort' = Effort
        BY <2>2, <2>3 DEF Next
    <2> QED
        BY <2>1, <2>2, <2>4
<1>2. IndInv /\ IndInv' /\ [Next]_vars => [EndIsNearer]_vars
    BY <1>1, Parts DEF IndInv, StoreInv
<1> QED
    BY <1>2, Invariance, PTL DEF Spec, PassesEnd
=============================================================================
