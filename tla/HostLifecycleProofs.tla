----------------------- MODULE HostLifecycleProofs ------------------------
(***************************************************************************)
(* What installs, uninstalls, restarts and faults leave of each install    *)
(* and of its registration, for any installs, platforms and faults, with   *)
(* commands that overlap and without.                                      *)
(***************************************************************************)
EXTENDS HostLifecycle, FiniteSetTheorems, TLAPS

\* The invariant of one target, all but the account of its losses.
Sound(t) ==
    /\ IdsMatch(t) /\ StepKnows(t) /\ PlatformKnows(t)
    /\ hits[t] = 0 => ~Astray(t)
    /\ t \notin outlived => CleansUp(t)
    /\ t \notin swept => ConfigKept(t)
    /\ t \in outlived => hits[t] > 0
    /\ t \in removed \ outlived => Clean(t)

\* The account of its losses.
Solvent(t) == t \notin swept => Debts(t) <= hits[t]

\* The invariant holds if it holds of every target.
LEMMA ByTarget ==
    IndInv <=> TypeOK /\ \A t \in Targets : Sound(t) /\ Solvent(t)
BY DEF IndInv, TypeOK, StopsFirst, UninstallCleansUp, TargetInv, Sound, Solvent

-----------------------------------------------------------------------------
(* What a step does to the targets it is not about *)

\* They stay as they were, but for a config swept away and for a unit that systemd
\* finds gone when it reloads.
Untouched(u) ==
    /\ platform' = platform
    /\ proc'[u] = proc[u] /\ copy'[u] = copy[u] /\ step'[u] = step[u] /\ held'[u] = held[u]
    /\ agents'[u] = agents[u] /\ known'[u] = known[u] /\ hits'[u] = hits[u]
    /\ u \in unit' <=> u \in unit
    /\ u \in stop' <=> u \in stop
    /\ u \in outlived' <=> u \in outlived
    /\ u \in removed' <=> u \in removed
    /\ u \in swept => u \in swept'
    /\ u \in managed' => u \in managed
    /\ u \in managed /\ u \notin managed' => u \notin unit
    /\ \/ config'[u] = config[u]
       \/ platform = "windows" /\ config'[u] = NoFile /\ u \in swept'

Alone(t) == TypeOK' /\ swept \subseteq swept' /\ \A u \in Targets \ {t} : Untouched(u)

-----------------------------------------------------------------------------
(* The account: how a step may change what a target has lost and is going to lose *)

Fewer(t)   == Orphans(t)' \subseteq Orphans(t)
OneMore(t) == \E id : Orphans(t)' \subseteq Orphans(t) \cup {id}
Doom(t)    == Doomed(t)' => Doomed(t)
Harm(t)    == Damaged(t)' => Damaged(t)
Spared(t)  == hits'[t] = hits[t]
Struck(t)  == hits'[t] = hits[t] + 1

\* One item more at most for a fault, and without one an item only in place of another.
Settles(t) ==
    \/ Fewer(t) /\ Doom(t) /\ Harm(t) /\ Spared(t)
    \/ Fewer(t) /\ Damaged(t) /\ ~Damaged(t)' /\ Spared(t)
    \/ OneMore(t) /\ Doom(t) /\ Damaged(t) /\ ~Damaged(t)' /\ Spared(t)
    \/ OneMore(t) /\ Doomed(t) /\ ~Doomed(t)' /\ Harm(t) /\ Spared(t)
    \/ Fewer(t) /\ (Doom(t) \/ Harm(t)) /\ Struck(t)
    \/ OneMore(t) /\ Doom(t) /\ Harm(t) /\ Struck(t)

\* Only so many agents were ever registered.
LEMMA OrphansAreFinite ==
    ASSUME TypeOK, NEW t \in Targets, IdsMatch(t)
    PROVE  IsFiniteSet(Orphans(t)) /\ Cardinality(Orphans(t)) \in Nat
<1>1. agents[t] \in Nat /\ Orphans(t) \subseteq 1 .. agents[t]
    BY DEF TypeOK, IdsMatch, Orphans
<1>2. IsFiniteSet(1 .. agents[t])
    BY <1>1, FS_Interval
<1> QED
    BY <1>1, <1>2, FS_Subset, FS_CardinalityType

\* A target whose step settles can still pay.
LEMMA SettlesStaysSolvent ==
    ASSUME TypeOK, TypeOK', NEW t \in Targets, IdsMatch(t), Debts(t) <= hits[t], Settles(t)
    PROVE  Debts(t)' <= hits'[t]
<1> DEFINE c == Cardinality(Orphans(t))
           d == Cardinality(Orphans(t)')
<1>1. IsFiniteSet(Orphans(t)) /\ c \in Nat
    BY OrphansAreFinite
<1>2. ASSUME Fewer(t) PROVE d \in Nat /\ d <= c
    BY <1>1, <1>2, FS_Subset, FS_CardinalityType DEF Fewer
<1>3. ASSUME OneMore(t) PROVE d \in Nat /\ d <= c + 1
    <2>1. PICK id : Orphans(t)' \subseteq Orphans(t) \cup {id}
        BY <1>3 DEF OneMore
    <2>2. /\ IsFiniteSet(Orphans(t) \cup {id})
          /\ Cardinality(Orphans(t) \cup {id}) \in {c, c + 1}
        BY <1>1, FS_AddElement
    <2> QED
        BY <1>1, <2>1, <2>2, FS_Subset, FS_CardinalityType
<1>4. hits[t] \in Nat /\ hits'[t] \in Nat
    BY DEF TypeOK
<1>5. /\ Debts(t) = c + (IF Doomed(t) THEN 1 ELSE 0) + (IF Damaged(t) THEN 1 ELSE 0)
      /\ Debts(t)' = d + (IF Doomed(t)' THEN 1 ELSE 0) + (IF Damaged(t)' THEN 1 ELSE 0)
    BY DEF Debts
<1> HIDE DEF c, d
<1> QED
    BY <1>1, <1>2, <1>3, <1>4, <1>5 DEF Settles, Doom, Harm, Struck, Spared

-----------------------------------------------------------------------------
(* A target that a step is not about *)

\* It stays sound and solvent.
LEMMA UntouchedStays ==
    ASSUME TypeOK, TypeOK', NEW u \in Targets, Untouched(u), Sound(u), Solvent(u)
    PROVE  Sound(u)' /\ Solvent(u)'
<1>1. Sound(u)'
    BY FileAssumption
    DEF TypeOK, Untouched, Sound, IdsMatch, StepKnows, PlatformKnows, ConfigKept, CleansUp,
        Astray, Clean, Up
<1>2. ASSUME u \notin swept' PROVE Settles(u)
    BY <1>2 DEF Untouched, Orphans, Ghost, Astray, Unsaved, Doomed, Damaged, Up,
                Settles, Fewer, Doom, Harm, Spared
<1>3. ASSUME u \notin swept' PROVE u \notin swept
    BY <1>3 DEF Untouched
<1> QED
    BY <1>1, <1>2, <1>3, SettlesStaysSolvent DEF Sound, Solvent

-----------------------------------------------------------------------------
(* The steps *)

\* A step of the process keeps every variable to its type and the other targets as they were.
LEMMA ProcessIsLocal ==
    ASSUME TypeOK, NEW t \in Targets, Process(t)
    PROVE  Alone(t)
<1> USE BoundAssumption, SweptAssumption
    DEF TypeOK, Alone, Untouched, server, manager, agent, witness, Optional, Points, Steps,
        Charged, Hit, Move, Exit, Exec, NewAgent, RequestStop, Go, Fatal, Given, DaemonReload, Up
<1>1. CASE Load(t)
    BY <1>1 DEF Load
<1>2. CASE LoadMissing(t)
    BY <1>2 DEF LoadMissing
<1>3. CASE Register(t)
    BY <1>3 DEF Register
<1>4. CASE RegisterFails(t)
    BY <1>4 DEF RegisterFails
<1>5. CASE SaveAgent(t)
    BY <1>5 DEF SaveAgent
<1>6. CASE SaveAgentFails(t)
    BY <1>6 DEF SaveAgentFails
<1>7. CASE PollNoContent(t)
    BY <1>7 DEF PollNoContent
<1>8. CASE PollUpdated(t)
    BY <1>8 DEF PollUpdated
<1>9. CASE PollRefused(t)
    BY <1>9 DEF PollRefused
<1>10. CASE SaveConfigurations(t)
    BY <1>10 DEF SaveConfigurations
<1>11. CASE SaveFails(t)
    BY <1>11 DEF SaveFails
<1>12. CASE Synchronized(t)
    BY <1>12 DEF Synchronized
<1>13. CASE Restart(t)
    BY <1>13 DEF Restart
<1>14. CASE Launch(t)
    BY <1>14 DEF Launch
<1>15. CASE Tick(t)
    BY <1>15 DEF Tick
<1>16. CASE HearStop(t)
    BY <1>16 DEF HearStop
<1>17. CASE Interrupt(t)
    BY <1>17 DEF Interrupt
<1>18. CASE Crash(t)
    BY <1>18 DEF Crash
<1> QED
    BY <1>1, <1>2, <1>3, <1>4, <1>5, <1>6, <1>7, <1>8, <1>9, <1>10, <1>11,
       <1>12, <1>13, <1>14, <1>15, <1>16, <1>17, <1>18
      DEF Process, Pass

\* A step of the process keeps its target sound.
LEMMA ProcessStaysSound ==
    ASSUME TypeOK, NEW t \in Targets, Process(t), Alone(t), Sound(t)
    PROVE  Sound(t)'
<1> USE FileAssumption, SweptAssumption
    DEF TypeOK, Alone, server, manager, agent, witness, Optional, Points, Steps,
        Charged, Hit, Move, Exit, Exec, NewAgent, RequestStop, Go, Fatal, Given, DaemonReload, Up,
        Sound, IdsMatch, StepKnows, PlatformKnows, ConfigKept, CleansUp, Astray, Clean,
        Nobody, Tail
<1>1. CASE Load(t)
    BY <1>1 DEF Load
<1>2. CASE LoadMissing(t)
    BY <1>2 DEF LoadMissing
<1>3. CASE Register(t)
    BY <1>3 DEF Register
<1>4. CASE RegisterFails(t)
    BY <1>4 DEF RegisterFails
<1>5. CASE SaveAgent(t)
    BY <1>5 DEF SaveAgent
<1>6. CASE SaveAgentFails(t)
    BY <1>6 DEF SaveAgentFails
<1>7. CASE PollNoContent(t)
    BY <1>7 DEF PollNoContent
<1>8. CASE PollUpdated(t)
    BY <1>8 DEF PollUpdated
<1>9. CASE PollRefused(t)
    BY <1>9 DEF PollRefused
<1>10. CASE SaveConfigurations(t)
    BY <1>10 DEF SaveConfigurations
<1>11. CASE SaveFails(t)
    BY <1>11 DEF SaveFails
<1>12. CASE Synchronized(t)
    BY <1>12 DEF Synchronized
<1>13. CASE Restart(t)
    BY <1>13 DEF Restart
<1>14. CASE Launch(t)
    BY <1>14 DEF Launch
<1>15. CASE Tick(t)
    BY <1>15 DEF Tick
<1>16. CASE HearStop(t)
    BY <1>16 DEF HearStop
<1>17. CASE Interrupt(t)
    BY <1>17 DEF Interrupt
<1>18. CASE Crash(t)
    BY <1>18 DEF Crash
<1> QED
    BY <1>1, <1>2, <1>3, <1>4, <1>5, <1>6, <1>7, <1>8, <1>9, <1>10, <1>11,
       <1>12, <1>13, <1>14, <1>15, <1>16, <1>17, <1>18
      DEF Process, Pass

\* A step of the process pays for what it may lose.
LEMMA ProcessSettles ==
    ASSUME TypeOK, NEW t \in Targets, Process(t), Alone(t), Sound(t), t \notin swept
    PROVE  Settles(t)
<1> USE FileAssumption, SweptAssumption
    DEF TypeOK, Alone, server, manager, agent, witness, Optional, Points, Steps,
        Charged, Hit, Move, Exit, Exec, NewAgent, RequestStop, Go, Fatal, Given, DaemonReload, Up,
        Sound, IdsMatch, StepKnows, PlatformKnows, ConfigKept, CleansUp, Astray, Clean,
        Nobody, Tail, Wiping, Orphans, Ghost, Unsaved, Doomed, Damaged,
        Settles, Fewer, Doom, Harm, Struck, Spared
<1>1. CASE Load(t)
    BY <1>1 DEF Load
<1>2. CASE LoadMissing(t)
    BY <1>2 DEF LoadMissing
<1>3. CASE Register(t)
    BY <1>3 DEF Register
<1>4. CASE RegisterFails(t)
    <2>1. Orphans(t)' \subseteq Orphans(t) \cup {agents[t] + 1}
        BY <1>4 DEF RegisterFails
    <2>2. Doom(t) /\ Harm(t) /\ Struck(t)
        BY <1>4 DEF RegisterFails
    <2> QED
        BY <2>1, <2>2 DEF OneMore
<1>5. CASE SaveAgent(t)
    BY <1>5 DEF SaveAgent
<1>6. CASE SaveAgentFails(t)
    BY <1>6 DEF SaveAgentFails
<1>7. CASE PollNoContent(t)
    BY <1>7 DEF PollNoContent
<1>8. CASE PollUpdated(t)
    BY <1>8 DEF PollUpdated
<1>9. CASE PollRefused(t)
    BY <1>9 DEF PollRefused
<1>10. CASE SaveConfigurations(t)
    BY <1>10 DEF SaveConfigurations
<1>11. CASE SaveFails(t)
    BY <1>11 DEF SaveFails
<1>12. CASE Synchronized(t)
    BY <1>12 DEF Synchronized
<1>13. CASE Restart(t)
    BY <1>13 DEF Restart
<1>14. CASE Launch(t)
    BY <1>14 DEF Launch
<1>15. CASE Tick(t)
    BY <1>15 DEF Tick
<1>16. CASE HearStop(t)
    <2>1. CASE copy[t] \in known[t] \ {config[t]}
        <3>1. Orphans(t)' \subseteq Orphans(t) \cup {copy[t]}
            BY <1>16 DEF HearStop
        <3>2. Doom(t) /\ Damaged(t) /\ ~Damaged(t)' /\ Spared(t)
            BY <1>16, <2>1 DEF HearStop
        <3> QED
            BY <3>1, <3>2 DEF OneMore
    <2>2. CASE copy[t] \notin known[t] \ {config[t]}
        BY <1>16, <2>2 DEF HearStop
    <2> QED
        BY <2>1, <2>2
<1>17. CASE Interrupt(t)
    BY <1>17 DEF Interrupt
<1>18. CASE Crash(t)
    <2>1. CASE copy[t] \in known[t] \ {config[t]}
        <3>1. Orphans(t)' \subseteq Orphans(t) \cup {copy[t]}
            BY <1>18 DEF Crash
        <3>2. Doom(t) /\ Harm(t) /\ Struck(t)
            BY <1>18, <2>1 DEF Crash
        <3> QED
            BY <3>1, <3>2 DEF OneMore
    <2>2. CASE copy[t] \notin known[t] \ {config[t]}
        BY <1>18, <2>2 DEF Crash
    <2> QED
        BY <2>1, <2>2
<1> QED
    BY <1>1, <1>2, <1>3, <1>4, <1>5, <1>6, <1>7, <1>8, <1>9, <1>10, <1>11,
       <1>12, <1>13, <1>14, <1>15, <1>16, <1>17, <1>18
      DEF Process, Pass

\* A step of the `install` keeps every variable to its type and the other targets as they were.
LEMMA InstallIsLocal ==
    ASSUME TypeOK, NEW t \in Targets, Install(t)
    PROVE  Alone(t)
<1> USE BoundAssumption, SweptAssumption
    DEF TypeOK, Alone, Untouched, server, manager, agent, witness, Optional, Points, Steps,
        Charged, Hit, Move, Exit, Exec, NewAgent, RequestStop, Go, Fatal, Given, DaemonReload, Up
<1>1. CASE BeginInstall(t)
    BY <1>1 DEF BeginInstall
<1>2. CASE CreateConfig(t)
    BY <1>2 DEF CreateConfig
<1>3. CASE NoSystemd(t)
    BY <1>3 DEF NoSystemd
<1>4. CASE WriteUnit(t)
    BY <1>4 DEF WriteUnit
<1>5. CASE LoadUnit(t)
    BY <1>5 DEF LoadUnit
<1>6. CASE EnableNow(t)
    BY <1>6 DEF EnableNow
<1>7. CASE RegisterService(t)
    BY <1>7 DEF RegisterService, Marked
<1>8. CASE RegisterRefused(t)
    BY <1>8 DEF RegisterRefused, Marked
<1>9. CASE StartService(t)
    BY <1>9 DEF StartService
<1>10. CASE InstallFails(t)
    BY <1>10 DEF InstallFails
<1> QED
    BY <1>1, <1>2, <1>3, <1>4, <1>5, <1>6, <1>7, <1>8, <1>9, <1>10
      DEF Install

\* A step of the `install` keeps its target sound.
LEMMA InstallStaysSound ==
    ASSUME TypeOK, NEW t \in Targets, Install(t), Alone(t), Sound(t)
    PROVE  Sound(t)'
<1> USE FileAssumption, SweptAssumption
    DEF TypeOK, Alone, server, manager, agent, witness, Optional, Points, Steps,
        Charged, Hit, Move, Exit, Exec, NewAgent, RequestStop, Go, Fatal, Given, DaemonReload, Up,
        Sound, IdsMatch, StepKnows, PlatformKnows, ConfigKept, CleansUp, Astray, Clean,
        Nobody, Tail
<1>1. CASE BeginInstall(t)
    BY <1>1 DEF BeginInstall
<1>2. CASE CreateConfig(t)
    BY <1>2 DEF CreateConfig
<1>3. CASE NoSystemd(t)
    BY <1>3 DEF NoSystemd
<1>4. CASE WriteUnit(t)
    BY <1>4 DEF WriteUnit
<1>5. CASE LoadUnit(t)
    BY <1>5 DEF LoadUnit
<1>6. CASE EnableNow(t)
    BY <1>6 DEF EnableNow
<1>7. CASE RegisterService(t)
    BY <1>7 DEF RegisterService, Marked
<1>8. CASE RegisterRefused(t)
    BY <1>8 DEF RegisterRefused, Marked
<1>9. CASE StartService(t)
    BY <1>9 DEF StartService
<1>10. CASE InstallFails(t)
    BY <1>10 DEF InstallFails
<1> QED
    BY <1>1, <1>2, <1>3, <1>4, <1>5, <1>6, <1>7, <1>8, <1>9, <1>10
      DEF Install

\* A step of the `install` pays for what it may lose.
LEMMA InstallSettles ==
    ASSUME TypeOK, NEW t \in Targets, Install(t), Alone(t), Sound(t), t \notin swept
    PROVE  Settles(t)
<1> USE FileAssumption, SweptAssumption
    DEF TypeOK, Alone, server, manager, agent, witness, Optional, Points, Steps,
        Charged, Hit, Move, Exit, Exec, NewAgent, RequestStop, Go, Fatal, Given, DaemonReload, Up,
        Sound, IdsMatch, StepKnows, PlatformKnows, ConfigKept, CleansUp, Astray, Clean,
        Nobody, Tail, Wiping, Orphans, Ghost, Unsaved, Doomed, Damaged,
        Settles, Fewer, Doom, Harm, Struck, Spared
<1>1. CASE BeginInstall(t)
    BY <1>1 DEF BeginInstall
<1>2. CASE CreateConfig(t)
    <2>1. CASE Doomed(t)
        <3>1. Orphans(t)' \subseteq Orphans(t) \cup {config[t]}
            BY <1>2 DEF CreateConfig
        <3>2. ~Doomed(t)' /\ Harm(t) /\ Spared(t)
            BY <1>2, <2>1 DEF CreateConfig
        <3> QED
            BY <2>1, <3>1, <3>2 DEF OneMore
    <2>2. CASE ~Doomed(t)
        BY <1>2, <2>2 DEF CreateConfig
    <2> QED
        BY <2>1, <2>2
<1>3. CASE NoSystemd(t)
    BY <1>3 DEF NoSystemd
<1>4. CASE WriteUnit(t)
    BY <1>4 DEF WriteUnit
<1>5. CASE LoadUnit(t)
    BY <1>5 DEF LoadUnit
<1>6. CASE EnableNow(t)
    BY <1>6 DEF EnableNow
<1>7. CASE RegisterService(t)
    BY <1>7 DEF RegisterService, Marked
<1>8. CASE RegisterRefused(t)
    BY <1>8 DEF RegisterRefused, Marked
<1>9. CASE StartService(t)
    BY <1>9 DEF StartService
<1>10. CASE InstallFails(t)
    BY <1>10 DEF InstallFails
<1> QED
    BY <1>1, <1>2, <1>3, <1>4, <1>5, <1>6, <1>7, <1>8, <1>9, <1>10
      DEF Install

\* A step of the `uninstall` keeps every variable to its type and the other targets as they were.
LEMMA UninstallIsLocal ==
    ASSUME TypeOK, NEW t \in Targets, Uninstall(t)
    PROVE  Alone(t)
<1> USE BoundAssumption, SweptAssumption
    DEF TypeOK, Alone, Untouched, server, manager, agent, witness, Optional, Points, Steps,
        Charged, Hit, Move, Exit, Exec, NewAgent, RequestStop, Go, Fatal, Given, DaemonReload, Up
<1>1. CASE BeginUninstall(t)
    BY <1>1 DEF BeginUninstall
<1>2. CASE StopUnit(t)
    BY <1>2 DEF StopUnit
<1>3. CASE StopUnitFails(t)
    BY <1>3 DEF StopUnitFails
<1>4. CASE FoundStopped(t)
    BY <1>4 DEF FoundStopped
<1>5. CASE StopService(t)
    BY <1>5 DEF StopService
<1>6. CASE StopRefused(t)
    BY <1>6 DEF StopRefused
<1>7. CASE Stopped(t)
    BY <1>7 DEF Stopped
<1>8. CASE StopTimesOut(t)
    BY <1>8 DEF StopTimesOut
<1>9. CASE RemoveUnit(t)
    BY <1>9 DEF RemoveUnit
<1>10. CASE UnloadUnit(t)
    BY <1>10 DEF UnloadUnit
<1>11. CASE DeleteService(t)
    BY <1>11 DEF DeleteService
<1>12. CASE DeleteRefused(t)
    BY <1>12 DEF DeleteRefused
<1>13. CASE ReadConfig(t)
    BY <1>13 DEF ReadConfig
<1>14. CASE Unregister(t)
    BY <1>14 DEF Unregister
<1>15. CASE UnregisterFails(t)
    BY <1>15 DEF UnregisterFails
<1>16. CASE EraseConfig(t)
    BY <1>16 DEF EraseConfig
<1>17. CASE RemoveBinary(t)
    BY <1>17 DEF RemoveBinary
<1>18. CASE RemoveProgramData(t)
    BY <1>18 DEF RemoveProgramData
<1>19. CASE UninstallFails(t)
    BY <1>19 DEF UninstallFails
<1> QED
    BY <1>1, <1>2, <1>3, <1>4, <1>5, <1>6, <1>7, <1>8, <1>9, <1>10, <1>11,
       <1>12, <1>13, <1>14, <1>15, <1>16, <1>17, <1>18, <1>19
      DEF Uninstall

\* A step of the `uninstall` keeps its target sound.
LEMMA UninstallStaysSound ==
    ASSUME TypeOK, NEW t \in Targets, Uninstall(t), Alone(t), Sound(t)
    PROVE  Sound(t)'
<1> USE FileAssumption, SweptAssumption
    DEF TypeOK, Alone, server, manager, agent, witness, Optional, Points, Steps,
        Charged, Hit, Move, Exit, Exec, NewAgent, RequestStop, Go, Fatal, Given, DaemonReload, Up,
        Sound, IdsMatch, StepKnows, PlatformKnows, ConfigKept, CleansUp, Astray, Clean,
        Nobody, Tail
<1>1. CASE BeginUninstall(t)
    BY <1>1 DEF BeginUninstall
<1>2. CASE StopUnit(t)
    BY <1>2 DEF StopUnit
<1>3. CASE StopUnitFails(t)
    BY <1>3 DEF StopUnitFails
<1>4. CASE FoundStopped(t)
    BY <1>4 DEF FoundStopped
<1>5. CASE StopService(t)
    BY <1>5 DEF StopService
<1>6. CASE StopRefused(t)
    BY <1>6 DEF StopRefused
<1>7. CASE Stopped(t)
    BY <1>7 DEF Stopped
<1>8. CASE StopTimesOut(t)
    BY <1>8 DEF StopTimesOut
<1>9. CASE RemoveUnit(t)
    BY <1>9 DEF RemoveUnit
<1>10. CASE UnloadUnit(t)
    BY <1>10 DEF UnloadUnit
<1>11. CASE DeleteService(t)
    BY <1>11 DEF DeleteService
<1>12. CASE DeleteRefused(t)
    BY <1>12 DEF DeleteRefused
<1>13. CASE ReadConfig(t)
    BY <1>13 DEF ReadConfig
<1>14. CASE Unregister(t)
    BY <1>14 DEF Unregister
<1>15. CASE UnregisterFails(t)
    BY <1>15 DEF UnregisterFails
<1>16. CASE EraseConfig(t)
    BY <1>16 DEF EraseConfig
<1>17. CASE RemoveBinary(t)
    BY <1>17 DEF RemoveBinary
<1>18. CASE RemoveProgramData(t)
    BY <1>18 DEF RemoveProgramData
<1>19. CASE UninstallFails(t)
    BY <1>19 DEF UninstallFails
<1> QED
    BY <1>1, <1>2, <1>3, <1>4, <1>5, <1>6, <1>7, <1>8, <1>9, <1>10, <1>11,
       <1>12, <1>13, <1>14, <1>15, <1>16, <1>17, <1>18, <1>19
      DEF Uninstall

\* A step of the `uninstall` pays for what it may lose.
LEMMA UninstallSettles ==
    ASSUME TypeOK, NEW t \in Targets, Uninstall(t), Alone(t), Sound(t), t \notin swept
    PROVE  Settles(t)
<1> USE FileAssumption, SweptAssumption
    DEF TypeOK, Alone, server, manager, agent, witness, Optional, Points, Steps,
        Charged, Hit, Move, Exit, Exec, NewAgent, RequestStop, Go, Fatal, Given, DaemonReload, Up,
        Sound, IdsMatch, StepKnows, PlatformKnows, ConfigKept, CleansUp, Astray, Clean,
        Nobody, Tail, Wiping, Orphans, Ghost, Unsaved, Doomed, Damaged,
        Settles, Fewer, Doom, Harm, Struck, Spared
<1>1. CASE BeginUninstall(t)
    BY <1>1 DEF BeginUninstall
<1>2. CASE StopUnit(t)
    BY <1>2 DEF StopUnit
<1>3. CASE StopUnitFails(t)
    BY <1>3 DEF StopUnitFails
<1>4. CASE FoundStopped(t)
    BY <1>4 DEF FoundStopped
<1>5. CASE StopService(t)
    BY <1>5 DEF StopService
<1>6. CASE StopRefused(t)
    BY <1>6 DEF StopRefused
<1>7. CASE Stopped(t)
    BY <1>7 DEF Stopped
<1>8. CASE StopTimesOut(t)
    BY <1>8 DEF StopTimesOut
<1>9. CASE RemoveUnit(t)
    BY <1>9 DEF RemoveUnit
<1>10. CASE UnloadUnit(t)
    BY <1>10 DEF UnloadUnit
<1>11. CASE DeleteService(t)
    BY <1>11 DEF DeleteService
<1>12. CASE DeleteRefused(t)
    BY <1>12 DEF DeleteRefused
<1>13. CASE ReadConfig(t)
    BY <1>13 DEF ReadConfig
<1>14. CASE Unregister(t)
    BY <1>14 DEF Unregister
<1>15. CASE UnregisterFails(t)
    BY <1>15 DEF UnregisterFails
<1>16. CASE EraseConfig(t)
    <2>1. CASE Doomed(t)
        <3>1. Orphans(t)' \subseteq Orphans(t) \cup {config[t]}
            BY <1>16 DEF EraseConfig
        <3>2. ~Doomed(t)' /\ Harm(t) /\ Spared(t)
            BY <1>16, <2>1 DEF EraseConfig
        <3> QED
            BY <2>1, <3>1, <3>2 DEF OneMore
    <2>2. CASE ~Doomed(t)
        BY <1>16, <2>2 DEF EraseConfig
    <2> QED
        BY <2>1, <2>2
<1>17. CASE RemoveBinary(t)
    BY <1>17 DEF RemoveBinary
<1>18. CASE RemoveProgramData(t)
    <2>1. CASE Doomed(t)
        <3>1. Orphans(t)' \subseteq Orphans(t) \cup {config[t]}
            BY <1>18 DEF RemoveProgramData
        <3>2. ~Doomed(t)' /\ Harm(t) /\ Spared(t)
            BY <1>18, <2>1 DEF RemoveProgramData
        <3> QED
            BY <2>1, <3>1, <3>2 DEF OneMore
    <2>2. CASE ~Doomed(t)
        BY <1>18, <2>2 DEF RemoveProgramData
    <2> QED
        BY <2>1, <2>2
<1>19. CASE UninstallFails(t)
    BY <1>19 DEF UninstallFails
<1> QED
    BY <1>1, <1>2, <1>3, <1>4, <1>5, <1>6, <1>7, <1>8, <1>9, <1>10, <1>11,
       <1>12, <1>13, <1>14, <1>15, <1>16, <1>17, <1>18, <1>19
      DEF Uninstall

\* A command that is killed leaves its target sound and solvent, and the others alone.
LEMMA CommandDiesKeeps ==
    ASSUME TypeOK, NEW t \in Targets, CommandDies(t), Sound(t), Solvent(t)
    PROVE  Alone(t) /\ Sound(t)' /\ Solvent(t)'
<1>1. Alone(t)
    BY DEF CommandDies, TypeOK, Alone, Untouched, server, manager, agent, Steps, Charged, Hit, Fatal
<1>2. Sound(t)'
    BY <1>1 DEF CommandDies, TypeOK, Alone, server, manager, agent, Steps, Charged, Hit, Fatal,
        Up, Sound, IdsMatch, StepKnows, PlatformKnows, ConfigKept, CleansUp, Astray, Clean, Tail
<1>3. ASSUME t \notin swept PROVE Settles(t)
    BY <1>1, <1>3 DEF CommandDies, TypeOK, Alone, server, manager, agent, Steps, Charged, Hit, Fatal,
        Up, Orphans, Ghost, Unsaved, Doomed, Damaged, Wiping, Settles, Fewer, Doom, Struck
<1>4. swept' = swept
    BY DEF CommandDies, Fatal, Charged, Hit
<1> QED
    BY <1>1, <1>2, <1>3, <1>4, SettlesStaysSolvent DEF Alone, Sound, Solvent

\* So does any other step.
LEMMA StepsKeep ==
    ASSUME TypeOK, NEW t \in Targets, Process(t) \/ Install(t) \/ Uninstall(t),
           Sound(t), Solvent(t)
    PROVE  Alone(t) /\ Sound(t)' /\ Solvent(t)'
<1>1. Alone(t)
    BY ProcessIsLocal, InstallIsLocal, UninstallIsLocal
<1>2. Sound(t)'
    BY <1>1, ProcessStaysSound, InstallStaysSound, UninstallStaysSound
<1>3. ASSUME t \notin swept PROVE Settles(t)
    BY <1>1, <1>3, ProcessSettles, InstallSettles, UninstallSettles
<1>4. swept \subseteq swept'
    BY <1>1 DEF Alone
<1> QED
    BY <1>1, <1>2, <1>3, <1>4, SettlesStaysSolvent DEF Alone, Sound, Solvent

-----------------------------------------------------------------------------
(* The theorems *)

\* Nothing is installed, nothing is lost.
LEMMA InitIsSound ==
    ASSUME Init
    PROVE  IndInv
<1>1. TypeOK
    BY PlatformAssumption, BoundAssumption
    DEF Init, TypeOK, Optional, Points, Steps
<1>2. ASSUME NEW t \in Targets PROVE Sound(t) /\ Solvent(t)
    <2>1. Sound(t)
        BY <1>2, FileAssumption
        DEF Init, Sound, IdsMatch, StepKnows, PlatformKnows, ConfigKept, CleansUp, Astray,
            Clean, Up, Nobody, Tail
    <2>2. Orphans(t) = {} /\ ~Doomed(t) /\ ~Damaged(t) /\ hits[t] = 0
        BY <1>2, FileAssumption
        DEF Init, Orphans, Ghost, Astray, Unsaved, Doomed, Damaged, Up, Wiping, Tail
    <2> QED
        BY <2>1, <2>2, FS_EmptySet DEF Solvent, Debts
<1> QED
    BY <1>1, <1>2, ByTarget

\* A step is about one target; it keeps that one, and the others.
LEMMA NextKeeps ==
    ASSUME IndInv, [Next]_vars
    PROVE  IndInv'
<1>1. TypeOK /\ \A t \in Targets : Sound(t) /\ Solvent(t)
    BY ByTarget
<1>2. ASSUME NEW t \in Targets, Alone(t), Sound(t)', Solvent(t)'
      PROVE  IndInv'
    <2>1. ASSUME NEW u \in Targets, u # t PROVE Sound(u)' /\ Solvent(u)'
        BY <1>1, <1>2, <2>1, UntouchedStays DEF Alone
    <2>2. TypeOK' /\ \A u \in Targets : Sound(u)' /\ Solvent(u)'
        BY <1>2, <2>1 DEF Alone
    <2> QED
        BY <2>2
        DEF IndInv, TypeOK, StopsFirst, UninstallCleansUp, TargetInv, Sound, Solvent
<1>3. CASE Next
    <2>1. PICK t \in Targets : Process(t) \/ Install(t) \/ Uninstall(t) \/ CommandDies(t)
        BY <1>3 DEF Next
    <2> QED
        BY <1>1, <1>2, <2>1, StepsKeep, CommandDiesKeeps
<1>4. CASE UNCHANGED vars
    <2>1. TypeOK'
        BY <1>1, <1>4 DEF vars, server, manager, agent, witness, TypeOK
    <2>2. ASSUME NEW u \in Targets PROVE Sound(u)' /\ Solvent(u)'
        <3>1. Untouched(u)
            BY <1>4 DEF vars, server, manager, agent, witness, Untouched
        <3> QED
            BY <1>1, <2>1, <3>1, UntouchedStays
    <2> QED
        BY <2>1, <2>2
        DEF IndInv, TypeOK, StopsFirst, UninstallCleansUp, TargetInv, Sound, Solvent
<1> QED
    BY <1>3, <1>4

\* The invariant of each install holds in every reachable state.
THEOREM Invariance == Spec => []IndInv
BY InitIsSound, NextKeeps, PTL DEF Spec

\* Every variable keeps to its type.
THEOREM TypeCorrect == Spec => []TypeOK
<1>1. IndInv => TypeOK
    BY DEF IndInv
<1> QED
    BY <1>1, Invariance, PTL

\* Without a fault of its own no install is removed under its running agent
\* (linux.go:131, windows.go:203), however many commands are at work on the others.
THEOREM UninstallStopsFirst == Spec => []StopsFirst
<1>1. IndInv => StopsFirst
    BY DEF IndInv
<1> QED
    BY <1>1, Invariance, PTL

\* An uninstall that completed, and did not work under a live agent, leaves nothing that
\* could come back (linux.go:127-185, windows.go:153-186).
THEOREM UninstallLeavesNothing == Spec => []UninstallCleansUp
<1>1. IndInv => UninstallCleansUp
    BY DEF IndInv
<1> QED
    BY <1>1, Invariance, PTL

\* The agents a target leaves on the server, and a config that names a forgotten one, are
\* no more than the faults that hit it, for any number of installs and uninstalls.
THEOREM LossesArePaid == Spec => []LossesArePaidFor
<1>1. ASSUME IndInv PROVE LossesArePaidFor
    <2>1. SUFFICES ASSUME NEW t \in Targets \ swept
                   PROVE  Cardinality(Orphans(t))
                            + (IF Ghost(t) /\ step[t] # "erase" THEN 1 ELSE 0) <= hits[t]
        BY DEF LossesArePaidFor
    <2>2. TypeOK /\ IdsMatch(t) /\ Debts(t) <= hits[t]
        BY <1>1, <2>1 DEF IndInv, TargetInv
    <2>3. Cardinality(Orphans(t)) \in Nat /\ hits[t] \in Nat
        BY <2>1, <2>2, OrphansAreFinite DEF TypeOK
    <2> QED
        BY <2>2, <2>3 DEF Debts, Damaged
<1> QED
    BY <1>1, Invariance, PTL

\* A config goes away by the uninstall that was given for it, and otherwise only on Windows,
\* from below ProgramData: what UninstallOthers shows there can happen nowhere else
\* (linux.go:162-167, windows.go:170-184).
THEOREM OthersAreSpared ==
    Spec => [][\A t \in Targets :
                  config[t] # NoFile /\ config'[t] = NoFile
                      => step[t] = "erase" \/ (platform = "windows" /\ t \in Swept)]_vars
<1> DEFINE Spares ==
        \A t \in Targets :
            config[t] # NoFile /\ config'[t] = NoFile
                => step[t] = "erase" \/ (platform = "windows" /\ t \in Swept)
<1>1. ASSUME IndInv, [Next]_vars PROVE Spares
    <2>1. TypeOK /\ \A t \in Targets : copy[t] # NoFile
        BY <1>1, FileAssumption DEF IndInv, TypeOK
    <2>2. CASE UNCHANGED vars
        BY <2>2 DEF vars
    <2>3. ASSUME NEW t \in Targets, config' = config PROVE Spares
        BY <2>3
    <2>4. ASSUME NEW t \in Targets, NEW id, id # NoFile, config' = [config EXCEPT ![t] = id]
          PROVE  Spares
        BY <2>1, <2>4 DEF TypeOK
    <2>5. ASSUME NEW t \in Targets, Process(t) PROVE Spares
        <3>1. config' \in {config, [config EXCEPT ![t] = copy[t]]}
            BY <2>5
            DEF Process, Pass, Load, LoadMissing, Register, RegisterFails, SaveAgent,
                SaveAgentFails, PollNoContent, PollUpdated, PollRefused, SaveConfigurations,
                SaveFails, Synchronized, Restart, Launch, Tick, HearStop, Interrupt, Crash,
                Exit
        <3> QED
            BY <2>1, <2>3, <2>4, <3>1
    <2>6. ASSUME NEW t \in Targets, Install(t) PROVE Spares
        <3>1. config' = config \/ config' = [config EXCEPT ![t] = 0]
            BY <2>6
            DEF Install, BeginInstall, CreateConfig, NoSystemd, WriteUnit, LoadUnit, EnableNow,
                RegisterService, RegisterRefused, StartService, InstallFails, Fatal
        <3>2. 0 # NoFile
            BY FileAssumption
        <3> QED
            BY <2>3, <2>4, <3>1, <3>2
    <2>7. ASSUME NEW t \in Targets, Uninstall(t) PROVE Spares
        <3>1. CASE EraseConfig(t)
            BY <2>1, <3>1 DEF EraseConfig, Go, TypeOK
        <3>2. CASE RemoveProgramData(t)
            BY <2>1, <3>2 DEF RemoveProgramData, TypeOK
        <3>3. CASE ~EraseConfig(t) /\ ~RemoveProgramData(t)
            <4>1. config' = config
                BY <2>7, <3>3
                DEF Uninstall, BeginUninstall, StopUnit, StopUnitFails, FoundStopped,
                    StopService, StopRefused, Stopped, StopTimesOut, RemoveUnit, UnloadUnit,
                    DeleteService, DeleteRefused, ReadConfig, Unregister, UnregisterFails,
                    RemoveBinary, UninstallFails, Fatal
            <4> QED
                BY <2>3, <4>1
        <3> QED
            BY <3>1, <3>2, <3>3
    <2>8. ASSUME NEW t \in Targets, CommandDies(t) PROVE Spares
        BY <2>3, <2>8 DEF CommandDies, Fatal
    <2> QED
        BY <1>1, <2>2, <2>5, <2>6, <2>7, <2>8 DEF Next
<1> QED
    BY <1>1, Invariance, PTL DEF Spec
=============================================================================
