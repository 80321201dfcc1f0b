----------------------------- MODULE ProgramProofs -----------------------------
(***************************************************************************)
(* What holds of the program over all its runs, for any number of Apps,    *)
(* daemons, mishaps and activations.                                       *)
(*                                                                         *)
(* Where the adapter is concerned, a step of the program is one of few     *)
(* kinds (StepKinds): most leave it alone (Bystander).  Struct says which  *)
(* manager the main loop works for and which may have something to stop;   *)
(* LiveInv, SocketInv, TakenInv and WasInv are the inductive forms of the  *)
(* four promises about the adapter; FileInv, PortInv and MemoryInv those   *)
(* of the three about the files.  The last part is about the list that     *)
(* add_session sorts and cuts: every record has a rank, and the list that  *)
(* is kept has those of the highest ranks; and about the two files, which  *)
(* change only by steps of JsonFile and so only as SavedFile promises.     *)
(***************************************************************************)
EXTENDS Program, FunctionTheorems, FiniteSetTheorems, SequenceTheorems, TLAPS

Begins == {"loading", "defaults", "history", "choosing"}
Closes == {"closing", "last record", "stopping"}
SomeStarted == \E m \in Manager : mgr[m].started

\* Where the main loop may be, and which managers have something to stop.
Struct ==
    /\ phase \in Phase /\ app \in Manager /\ apps \in 0 .. MaxManagers
    /\ took \subseteq Manager
    /\ ended = "SIGTERM" => phase = "off"
    /\ phase = "off" => stage = "none" /\ apps = 0
    /\ phase # "off" => app <= apps
    /\ \A m \in Manager :
          NeedsStop(m) =>
             /\ m <= apps /\ m \in took
             /\ phase \in Begins => m # app
             /\ phase \in Closes => m >= app
    /\ phase \in Begins \cup {"starting"} => app = apps
    /\ stage # "none" => phase \in {"starting", "stopping"} /\ app \in took
    /\ phase = "starting" => stage # "none"
    /\ stage \in {"killStale", "unmanage", "write", "spawn"} => ~NeedsStop(app)
    /\ stage = "socket" => ~mgr[app].started
    /\ stage \in StartStage => phase = "starting"
    /\ confJob # Config!Idle => phase \in ConfigSave
    /\ histJob # History!Idle => phase \in HistorySave

Inv == PTypeOK /\ Struct

\* Manager m answers for daemon d.
Owns(m, d) ==
    /\ mgr[m].child = d
    /\ mgr[m].started \/ (m = app /\ stage \in {"socket", "term"})

\* As long as every daemon ended when it was to, the pkill of a run leaves none of
\* the runs before, and only a manager that can stop its daemon leaves one.
LiveInv ==
    /\ stage = "wait" => Outlived
    /\ ~Outlived =>
          /\ stage \in {"unmanage", "write", "spawn"} => live = {}
          /\ stage = "remanage" => mgr[app].child \notin live
          /\ took # {} /\ ended # "SIGTERM" /\ (stage # "killStale" \/ SomeStarted) =>
                \A d \in live :
                   /\ d = spawns /\ d > base /\ d \in wrapper
                   /\ \E m \in Manager : Owns(m, d)

\* A step that leaves the adapter and the managers alone.
Bystander ==
    /\ UNCHANGED <<managerVars, took>>
    /\ mishaps' \in {mishaps, mishaps \cup {"file"}}
    /\ ended' = "SIGTERM" <=> ended = "SIGTERM"
    /\ stage = "none" \/ app' = app

\* A step of start or stop.
Works ==
    /\ phase \in {"starting", "stopping"}
    /\ Stop(app) \/ SupplicantStep(app)
    /\ UNCHANGED <<app, took, ended>>

\* A run begins.
Launches ==
    /\ phase = "off" /\ phase' = "loading"
    /\ SupplicantReborn /\ took' = {} /\ ended' = "not yet"

\* The process dies.
Falls == SupplicantDies /\ UNCHANGED took /\ ended' = "SIGTERM" /\ phase' = "off"

Acts == SupplicantEnvironment /\ UNCHANGED <<app, took, ended>>

Takes == phase = "choosing" /\ Start(app) /\ took' = took \cup {app} /\ UNCHANGED <<app, ended>>

\* The control directory was cleared before the daemon was spawned, and only daemons
\* of this run have been alive since.
SocketInv ==
    ~Outlived /\ "stuck" \notin mishaps /\ (SomeStarted \/ stage \in {"spawn", "socket"}) =>
        sock = NoDaemon \/ sock > base

\* The adapter is taken before a daemon is spawned.
TakenInv ==
    mishaps = {} /\ OneStart =>
        /\ stage \in {"write", "spawn"} => ~managed
        /\ managed => \A d \in live : d <= base

\* Who has a daemon to stop remembers that the adapter goes back, and when nobody
\* has, it went back.
WasInv ==
    /\ \A m \in Manager :
          NeedsStop(m) =>
             mgr[m].started \/ (m = app /\ stage \in {"socket", "term", "wait", "remanage"})
    /\ mishaps \cap {"nmcli", "write"} = {} /\ ended # "SIGTERM" =>
          /\ \A m \in Manager : mgr[m].started => mgr[m].was
          /\ stage \in {"write", "spawn", "socket", "term", "wait", "remanage"} => mgr[app].was
          /\ took # {} /\ ~SomeStarted /\ stage \in {"none", "clean"} => managed

\* No part of a document is in a file, nor about to be renamed to one.
FileInv ==
    /\ sessions = [m \in Manager |-> sessions[m]]
    /\ confDisk # Config!Torn /\ histDisk # History!Torn
    /\ confJob.doc # Config!Torn /\ histJob.doc # History!Torn
    /\ confJob = [at |-> confJob.at, doc |-> confJob.doc]
    /\ histJob = [at |-> histJob.at, doc |-> histJob.doc]

\* What the one App shows is in the file, or being written to it, or known to be ahead
\* of it; a clear can fall back on what the file still holds.
MemoryInv ==
    apps = 1 =>
        /\ confJob.at # "idle" => confJob.doc = conf[1]
        /\ histJob.at # "idle" => histJob.doc = sessions[1]
        /\ confJob.at = "idle" /\ phase # "loading" => conf[1] = confDisk \/ "config" \in ahead
        /\ histJob.at = "idle" /\ phase \notin {"loading", "defaults", "history"} =>
              sessions[1] = histDisk \/ "history" \in ahead
        /\ phase = "clearing" => prev = histDisk \/ "history" \in ahead

\* Settings that only an edit can have put out of bounds.
Fair(s) == s \in Settings /\ (s.port = "outside" => edited)

\* All settings are fair, wherever they are.
PortInv ==
    /\ conf \in [Manager -> Settings]
    /\ \A m \in Manager : Fair(conf[m])
    /\ Fair(confDisk) \/ confDisk \in {Unusable, Config!Missing}
    /\ confJob.at # "idle" => Fair(confJob.doc)
    /\ confJob = [at |-> confJob.at, doc |-> confJob.doc]

-------------------------------------------------------------------------------
\* The kinds of steps, as far as the adapter is concerned.
LEMMA StepKinds ==
    ASSUME Inv, [ProgramNext]_pvars
    PROVE  Bystander \/ Works \/ Launches \/ Falls \/ Acts \/ Takes
  <1>. USE DEF Inv, Struct
  <1>1. CASE UNCHANGED pvars
    BY <1>1 DEF pvars, Bystander, supplicantVars
  <1>2. CASE LoadConfig
    BY <1>2 DEF LoadConfig, Bystander, supplicantVars, managerVars, Mark, Begins
  <1>3. CASE LoadHistory
    BY <1>3 DEF LoadHistory, Bystander, managerVars, Mark
  <1>4. CASE UsesSystemSupplicant
    BY <1>4 DEF UsesSystemSupplicant, Bystander, supplicantVars
  <1>5. CASE StartsDedicated
    BY <1>5 DEF StartsDedicated, Takes
  <1>6. CASE Starting \/ StopsSupplicant
    BY <1>6 DEF Starting, StopsSupplicant, Works
  <1>7. CASE Writes
    BY <1>7 DEF Writes, Bystander, supplicantVars
  <1>8. CASE Saved
    BY <1>8 DEF Saved, Bystander, supplicantVars
  <1>9. CASE SaveFails
    BY <1>9 DEF SaveFails, Bystander, managerVars, Mark
  <1>10. CASE ClearFails
    BY <1>10 DEF ClearFails, Bystander, managerVars, Mark
  <1>11. CASE \E t \in Stamp : RecordsLastSession(t)
    BY <1>11 DEF RecordsLastSession, AddSession, Bystander, supplicantVars
  <1>12. CASE NothingToRecord
    BY <1>12 DEF NothingToRecord, Bystander, supplicantVars
  <1>13. CASE NextApp \/ Exit
    BY <1>13 DEF NextApp, Exit, Bystander, supplicantVars
  <1>14. CASE Activate
    <2>1. CASE phase = "off"
      BY <1>14, <2>1 DEF Activate, Launches
    <2>2. CASE phase = "idle"
      BY <1>14, <2>2 DEF Activate, Bystander, supplicantVars
    <2>. QED
      BY <1>14, <2>1, <2>2 DEF Activate
  <1>15. CASE Close
    BY <1>15 DEF Close, Bystander, supplicantVars
  <1>16. ASSUME NEW m \in Manager,
                Clear(m) \/ (\E t \in Stamp : SessionEnds(m, t)) \/ (\E v \in Value : Set(m, v))
         PROVE  Bystander
    BY <1>16 DEF Clear, SessionEnds, AddSession, Set, Bystander, supplicantVars
  <1>17. CASE Dies
    BY <1>17 DEF Dies, Falls
  <1>18. CASE EditsFile
    BY <1>18 DEF EditsFile, Bystander, supplicantVars
  <1>19. CASE DaemonsAct
    BY <1>19 DEF DaemonsAct, Acts
  <1>. QED
    BY <1>1, <1>2, <1>3, <1>4, <1>5, <1>6, <1>7, <1>8, <1>9, <1>10, <1>11, <1>12, <1>13,
       <1>14, <1>15, <1>16, <1>17, <1>18, <1>19 DEF ProgramNext, MainLoop, User

-------------------------------------------------------------------------------
\* It is enough to look at the rest of the state where no manager changes.
LEMMA ManagersKept ==
    ASSUME PTypeOK, mgr' = mgr,
           stage' \in {"none"} \cup StartStage \cup StopStage,
           wrapper' \subseteq live', unbound' \subseteq live', live' \subseteq 1 .. spawns',
           sock' \in 0 .. spawns', managed' \in BOOLEAN, spawns' = spawns,
           base' \in 0 .. spawns', mishaps' \subseteq Mishap
    PROVE  PTypeOK'
  BY DEF PTypeOK

\* A step of start or stop keeps the types.
LEMMA WorkTypes ==
    ASSUME PTypeOK, NEW m \in Manager, Stop(m) \/ SupplicantStep(m) \/ Start(m)
    PROVE  PTypeOK'
  <1>. USE SupplicantAssumption
       DEF PTypeOK, StartStage, StopStage, Mishap, daemonVars, nmVars, Daemon, NoDaemon, NewManager
  <1>1. CASE Stop(m) \/ SocketMissing \/ ChildReaped(m)
    BY <1>1 DEF Stop, SocketMissing, ChildReaped
  <1>10. CASE Start(m)
    BY <1>10 DEF Start
  <1>11. CASE SocketSeen(m)
    BY <1>11 DEF SocketSeen
  <1>12. CASE CleanupFiles
    BY <1>12 DEF CleanupFiles
  <1>2. CASE KillStale
    BY <1>2 DEF KillStale, EndTidily, End, Mark
  <1>3. CASE UnmanageFromNm(m)
    BY <1>3 DEF UnmanageFromNm, NmcliDone, NmcliFails, Mark
  <1>4. CASE WriteConfig
    <2>1. /\ UNCHANGED <<mgr, live, wrapper, unbound, managed, spawns, base>>
          /\ stage' = "spawn" /\ sock' \in {sock, NoDaemon}
          /\ mishaps' \in {mishaps, mishaps \cup {"stuck"}}
      BY <1>4 DEF WriteConfig, ClearCtrlDir, Mark
    <2>. QED
      BY <2>1, ManagersKept
  <1>13. CASE WriteConfigFails
    BY <1>13 DEF WriteConfigFails, Mark
  <1>5. CASE Spawn(m)
    BY <1>5 DEF Spawn
  <1>6. CASE SpawnFails(m)
    BY <1>6 DEF SpawnFails, RemanageWithNm, NmcliDone, NmcliFails, Mark
  <1>7. CASE Terminate(m)
    <2>1. CASE mgr[m].child \notin wrapper
      BY <1>7, <2>1 DEF Terminate
    <2>2. CASE mgr[m].child \in wrapper
      <3>1. /\ UNCHANGED <<mgr, managed, spawns, base, mishaps>>
            /\ stage' = "remanage"
            /\ live' = live \ {mgr[m].child} /\ wrapper' = wrapper \ {mgr[m].child}
            /\ unbound' = unbound \ {mgr[m].child}
            /\ sock' \in {sock, NoDaemon}
        BY <1>7, <2>2 DEF Terminate, EndTidily, End
      <3>2. wrapper' \subseteq live' /\ unbound' \subseteq live' /\ live' \subseteq 1 .. spawns'
        BY <3>1
      <3>3. sock' \in 0 .. spawns' /\ base' \in 0 .. spawns'
        BY <3>1
      <3>. QED
        BY <3>1, <3>2, <3>3, ManagersKept
    <2>. QED
      BY <2>1, <2>2
  <1>8. CASE KillHard(m)
    BY <1>8 DEF KillHard, Mark
  <1>9. CASE Remanage(m)
    BY <1>9 DEF Remanage, RemanageWithNm, NmcliDone, NmcliFails, Mark
  <1>. QED
    BY <1>1, <1>2, <1>3, <1>4, <1>5, <1>6, <1>7, <1>8, <1>9, <1>10, <1>11,
       <1>12, <1>13 DEF SupplicantStep

\* So does every step.
LEMMA TypeStep ==
    ASSUME Inv, [ProgramNext]_pvars
    PROVE  PTypeOK'
  <1>0. PTypeOK /\ app \in Manager
    BY DEF Inv, Struct
  <1>1. CASE Bystander
    BY <1>0, <1>1 DEF PTypeOK, Bystander, managerVars, daemonVars, nmVars, Mishap
  <1>2. CASE Works \/ Takes
    BY <1>0, <1>2, WorkTypes DEF Works, Takes
  <1>3. CASE Launches
    <2>1. /\ UNCHANGED <<stage, mgr, live, wrapper, unbound, sock, managed, spawns>>
          /\ base' = spawns /\ mishaps' = {}
      BY <1>3 DEF Launches, SupplicantReborn, daemonVars
    <2>2. spawns \in 0 .. spawns
      BY <1>0, SupplicantAssumption DEF PTypeOK
    <2>. QED
      BY <1>0, <2>1, <2>2, ManagersKept DEF PTypeOK
  <1>4. CASE Falls
    BY <1>0, <1>4 DEF Falls, SupplicantDies, PTypeOK, daemonVars, nmVars, NewManager, NoDaemon
  <1>5. CASE Acts
    <2>. PICK d \in Daemon : DaemonBinds(d) \/ DaemonExits(d)
      BY <1>5 DEF Acts, SupplicantEnvironment
    <2>1. CASE DaemonBinds(d)
      BY <1>0, <2>1 DEF DaemonBinds, PTypeOK, nmVars
    <2>2. CASE DaemonExits(d)
      BY <1>0, <2>2 DEF DaemonExits, End, PTypeOK, nmVars, NoDaemon
    <2>. QED
      BY <2>1, <2>2
  <1>. QED
    BY <1>1, <1>2, <1>3, <1>4, <1>5, StepKinds

-------------------------------------------------------------------------------
\* A step of start or stop keeps Struct.
LEMMA WorkStruct ==
    ASSUME Inv, Works,
           UNCHANGED <<apps, confJob, histJob>>,
           phase' = IF phase = "starting" /\ stage' = "none" THEN "idle" ELSE phase
    PROVE  Struct'
  <1>. USE DEF Inv, Struct, Phase, ConfigSave, HistorySave, Begins, Closes, StartStage,
               daemonVars, nmVars
  <1>0. UNCHANGED <<app, apps, took, ended>> /\ app \in Manager /\ (Stop(app) \/ SupplicantStep(app))
    BY DEF Works
  <1>00. mgr \in [Manager -> [child : Daemon \cup {NoDaemon}, was : BOOLEAN, started : BOOLEAN]]
    BY DEF PTypeOK
  <1>1. CASE KillStale \/ WriteConfig \/ WriteConfigFails \/ SocketMissing \/ CleanupFiles
    <2>1. mgr' = mgr
      BY <1>1 DEF KillStale, WriteConfig, WriteConfigFails, SocketMissing, CleanupFiles
    <2>2. \A m \in Manager : NeedsStop(m)' <=> NeedsStop(m)
      BY <2>1 DEF NeedsStop
    <2>. QED
      BY <1>0, <1>1, <2>1, <2>2
         DEF KillStale, WriteConfig, WriteConfigFails, SocketMissing, CleanupFiles
  <1>2. CASE Stop(app) \/ Terminate(app) \/ KillHard(app) \/ ChildReaped(app)
    <2>1. mgr' = mgr
      BY <1>2 DEF Stop, Terminate, KillHard, ChildReaped, EndTidily
    <2>2. \A m \in Manager : NeedsStop(m)' <=> NeedsStop(m)
      BY <2>1 DEF NeedsStop
    <2>. QED
      BY <1>0, <1>2, <2>1, <2>2 DEF Stop, Terminate, KillHard, ChildReaped, Works, NeedsStop
  <1>3. CASE UnmanageFromNm(app)
    <2>1. \A m \in Manager : NeedsStop(m)' <=> NeedsStop(m)
      BY <1>0, <1>00, <1>3 DEF UnmanageFromNm, NeedsStop
    <2>. QED
      BY <1>0, <1>3, <2>1 DEF UnmanageFromNm
  <1>4. CASE Spawn(app)
    <2>1. \A m \in Manager : m # app => (NeedsStop(m)' <=> NeedsStop(m))
      BY <1>0, <1>00, <1>4 DEF Spawn, NeedsStop
    <2>2. ~mgr'[app].started
      BY <1>0, <1>00, <1>4 DEF Spawn, NeedsStop
    <2>. QED
      BY <1>0, <1>4, <2>1, <2>2 DEF Spawn
  <1>5. CASE SpawnFails(app)
    <2>1. mgr' = mgr
      BY <1>5 DEF SpawnFails
    <2>2. \A m \in Manager : NeedsStop(m)' <=> NeedsStop(m)
      BY <2>1 DEF NeedsStop
    <2>. QED
      BY <1>0, <1>5, <2>1, <2>2 DEF SpawnFails
  <1>6. CASE SocketSeen(app)
    <2>1. \A m \in Manager : m # app => (NeedsStop(m)' <=> NeedsStop(m))
      BY <1>0, <1>00, <1>6 DEF SocketSeen, NeedsStop
    <2>. QED
      BY <1>0, <1>6, <2>1 DEF SocketSeen
  <1>7. CASE Remanage(app)
    <2>1. \A m \in Manager : m # app => (NeedsStop(m)' <=> NeedsStop(m))
      BY <1>0, <1>00, <1>7 DEF Remanage, NeedsStop
    <2>2. ~NeedsStop(app)'
      BY <1>0, <1>00, <1>7 DEF Remanage, NeedsStop, NoDaemon
    <2>. QED
      BY <1>0, <1>7, <2>1, <2>2 DEF Remanage
  <1>. QED
    BY <1>0, <1>1, <1>2, <1>3, <1>4, <1>5, <1>6, <1>7 DEF SupplicantStep

\* While a document is written, the main loop is in one of the phases that write it.
LEMMA Writing ==
    ASSUME Struct
    PROVE  /\ confJob.at # "idle" => phase \in ConfigSave
           /\ histJob.at # "idle" => phase \in HistorySave
  <1>1. confJob.at # "idle" => confJob # Config!Idle
    BY DEF Config!Idle
  <1>2. histJob.at # "idle" => histJob # History!Idle
    BY DEF History!Idle
  <1>. QED
    BY <1>1, <1>2 DEF Struct

\* Apps are numbered from 1.
LEMMA Numbers ==
    /\ 1 \in Manager /\ 0 \in 0 .. MaxManagers
    /\ \A m \in Manager : m \in Nat /\ m >= 1
    /\ \A n \in 0 .. MaxManagers :
          /\ n \in Nat
          /\ n < MaxManagers =>
                n + 1 \in Manager /\ n + 1 \in 0 .. MaxManagers /\ n + 1 > n
  BY SupplicantAssumption DEF Manager

\* A new App is the last one.
LEMMA NewApp ==
    ASSUME apps \in 0 .. MaxManagers, Activate
    PROVE  /\ apps \in Nat /\ app' = apps + 1 /\ apps' = apps + 1
           /\ app' \in Manager /\ apps' \in 0 .. MaxManagers
           /\ phase \in {"off", "idle"} /\ phase' = "loading" /\ ended' = "not yet"
           /\ UNCHANGED <<stage, mgr, confJob, histJob>>
           /\ took' \in {took, {}} /\ (phase = "idle" => took' = took)
  <1>1. MaxManagers \in Nat /\ apps \in Nat
    BY SupplicantAssumption
  <1>2. apps < MaxManagers /\ apps' = apps + 1 /\ app' = apps'
    BY DEF Activate
  <1>3. app' \in Manager /\ apps' \in 0 .. MaxManagers
    BY <1>1, <1>2 DEF Manager
  <1>4. phase \in {"off", "idle"} /\ phase' = "loading" /\ ended' = "not yet"
    BY DEF Activate
  <1>5. UNCHANGED <<stage, mgr, confJob, histJob>>
    BY DEF Activate, SupplicantReborn, supplicantVars, managerVars, confVars, histVars
  <1>6. took' \in {took, {}} /\ (phase = "idle" => took' = took)
    BY DEF Activate
  <1>. QED
    BY <1>1, <1>2, <1>3, <1>4, <1>5, <1>6

\* Nothing is to be stopped for it yet.
LEMMA ActivateStruct ==
    ASSUME Inv, Activate
    PROVE  Struct'
  <1>1. /\ apps \in 0 .. MaxManagers /\ took \subseteq Manager
        /\ phase = "off" => stage = "none" /\ apps = 0
        /\ \A m \in Manager : NeedsStop(m) => m <= apps /\ m \in took
    BY DEF Inv, Struct
  <1>2. phase \in {"off", "idle"} => stage = "none" /\ confJob = Config!Idle /\ histJob = History!Idle
    BY DEF Inv, Struct, ConfigSave, HistorySave
  <1>6. /\ apps \in Nat /\ app' = apps + 1 /\ apps' = apps + 1 /\ mgr' = mgr
        /\ phase \in {"off", "idle"} /\ took' \in {took, {}} /\ (phase = "idle" => took' = took)
    BY <1>1, NewApp
  <1>3. ASSUME NEW m \in Manager, NeedsStop(m)'
        PROVE  m <= apps' /\ m \in took' /\ m # app'
    <2>1. NeedsStop(m) /\ m \in Nat /\ m >= 1
      BY <1>1, <1>3, NewApp, Numbers DEF NeedsStop
    <2>2. phase # "off"
      BY <1>1, <2>1
    <2>. QED
      BY <1>1, <1>6, <2>1, <2>2
  <1>4. app' <= apps' /\ app' = apps' /\ took' \subseteq Manager
    BY <1>1, <1>6
  <1>5. stage' = "none" /\ confJob' = Config!Idle /\ histJob' = History!Idle
    BY <1>1, <1>2, NewApp
  <1>. QED
    BY <1>1, <1>3, <1>4, <1>5, NewApp
       DEF Struct, Phase, ConfigSave, HistorySave, Begins, Closes, StartStage

\* The next App is one of those there are.
LEMMA AppAfter ==
    ASSUME apps \in 0 .. MaxManagers, app \in Manager, NextApp
    PROVE  /\ apps \in Nat /\ app \in Nat /\ app' = app + 1 /\ apps' = apps
           /\ app' \in Manager /\ app' <= apps
           /\ phase = "stopping" /\ phase' = "closing" /\ stage = "none" /\ ~NeedsStop(app)
           /\ UNCHANGED <<stage, mgr, took, ended, confJob, histJob>>
  <1>1. MaxManagers \in Nat /\ apps \in Nat /\ app \in Nat /\ apps <= MaxManagers
    BY SupplicantAssumption DEF Manager
  <1>2. app < apps /\ app' = app + 1 /\ apps' = apps
    BY DEF NextApp
  <1>3. app' \in Manager /\ app' <= apps
    BY <1>1, <1>2 DEF Manager
  <1>4. /\ phase = "stopping" /\ phase' = "closing" /\ stage = "none" /\ ~NeedsStop(app)
        /\ UNCHANGED <<stage, mgr, took, ended, confJob, histJob>>
    BY DEF NextApp, supplicantVars, managerVars, confVars, histVars
  <1>. QED
    BY <1>1, <1>2, <1>3, <1>4

\* Every step keeps Struct.
LEMMA StructStep ==
    ASSUME Inv, [ProgramNext]_pvars
    PROVE  Struct'
  <1>. USE DEF Inv, Struct, Phase, ConfigSave, HistorySave, Begins, Closes, After,
               supplicantVars, managerVars, daemonVars, nmVars, confVars, histVars
  <1>0. mgr' = mgr => \A m \in Manager : NeedsStop(m)' <=> NeedsStop(m)
    BY DEF NeedsStop
  <1>00. mgr \in [Manager -> [child : Daemon \cup {NoDaemon}, was : BOOLEAN, started : BOOLEAN]]
    BY DEF PTypeOK
  <1>1. CASE UNCHANGED pvars
    BY <1>0, <1>1 DEF pvars
  <1>2. CASE LoadConfig
    BY <1>0, <1>2 DEF LoadConfig, Config!Begin
  <1>3. CASE LoadHistory
    BY <1>0, <1>3 DEF LoadHistory
  <1>4. CASE UsesSystemSupplicant
    BY <1>0, <1>4 DEF UsesSystemSupplicant
  <1>5. CASE StartsDedicated
    <2>1. \A m \in Manager : m # app => (NeedsStop(m)' <=> NeedsStop(m))
      BY <1>5, <1>00 DEF StartsDedicated, Start, NeedsStop
    <2>2. ~NeedsStop(app)' /\ ~mgr'[app].started
      BY <1>5, <1>00 DEF StartsDedicated, Start, NeedsStop, NewManager, NoDaemon
    <2>. QED
      BY <1>5, <2>1, <2>2 DEF StartsDedicated, Start, StartStage
  <1>6. CASE Starting
    <2>1. /\ Works /\ UNCHANGED <<apps, confJob, histJob>>
          /\ phase' = IF phase = "starting" /\ stage' = "none" THEN "idle" ELSE phase
      BY <1>6 DEF Starting, Works, confVars, histVars
    <2>. QED
      BY <2>1, WorkStruct
  <1>7. CASE StopsSupplicant
    <2>1. /\ Works /\ UNCHANGED <<apps, confJob, histJob>>
          /\ phase' = IF phase = "starting" /\ stage' = "none" THEN "idle" ELSE phase
      BY <1>7 DEF StopsSupplicant, Works, confVars, histVars
    <2>. QED
      BY <2>1, WorkStruct
  <1>8. CASE Writes
    <2>1. CASE (Config!Create \/ Config!WriteAll) /\ UNCHANGED histVars
      <3>1. phase \in ConfigSave
        BY <2>1, Writing DEF Config!Create, Config!WriteAll
      <3>. QED
        BY <1>0, <1>8, <2>1, <3>1 DEF Writes
    <2>2. CASE (History!Create \/ History!WriteAll) /\ UNCHANGED confVars
      <3>1. phase \in HistorySave
        BY <2>2, Writing DEF History!Create, History!WriteAll
      <3>. QED
        BY <1>0, <1>8, <2>2, <3>1 DEF Writes
    <2>. QED
      BY <1>8, <2>1, <2>2 DEF Writes
  <1>9. CASE Saved
    <2>1. phase \in ConfigSave \cup HistorySave /\ confJob' = Config!Idle /\ histJob' = History!Idle
      <3>1. CASE Config!Rename /\ UNCHANGED histVars
        BY <3>1, Writing DEF Config!Rename
      <3>2. CASE History!Rename /\ UNCHANGED confVars
        BY <3>2, Writing DEF History!Rename
      <3>. QED
        BY <1>9, <3>1, <3>2 DEF Saved
    <2>. QED
      BY <1>0, <1>9, <2>1 DEF Saved
  <1>10. CASE SaveFails
    <2>1. phase \in ConfigSave \cup HistorySave /\ confJob' = Config!Idle /\ histJob' = History!Idle
      BY <1>10 DEF SaveFails, Config!WriteFails, History!WriteFails
    <2>. QED
      BY <1>0, <1>10, <2>1 DEF SaveFails
  <1>11. CASE ClearFails
    BY <1>0, <1>11 DEF ClearFails, History!WriteFails
  <1>12. CASE \E t \in Stamp : RecordsLastSession(t)
    BY <1>0, <1>12 DEF RecordsLastSession, AddSession, History!Begin
  <1>13. CASE NothingToRecord
    BY <1>0, <1>13 DEF NothingToRecord
  <1>14. CASE NextApp
    <2>1. \A m \in Manager : NeedsStop(m)' => m <= apps /\ m \in took /\ m >= app + 1
      BY <1>0, <1>14, Numbers, AppAfter
    <2>. QED
      BY <1>14, <2>1, AppAfter
  <1>15. CASE Exit
    BY <1>0, Numbers, <1>15 DEF Exit
  <1>16. CASE Activate
    BY <1>16, ActivateStruct
  <1>17. CASE Close
    BY <1>0, Numbers, <1>17 DEF Close
  <1>18. ASSUME NEW m \in Manager,
                Clear(m) \/ (\E t \in Stamp : SessionEnds(m, t)) \/ (\E v \in Value : Set(m, v))
         PROVE  Struct'
    <2>1. CASE Clear(m)
      BY <1>0, Numbers, <2>1 DEF Clear, History!Begin
    <2>2. CASE \E t \in Stamp : SessionEnds(m, t)
      BY <1>0, Numbers, <2>2 DEF SessionEnds, AddSession, History!Begin
    <2>3. CASE \E v \in Value : Set(m, v)
      BY <1>0, Numbers, <2>3 DEF Set, Config!Begin
    <2>. QED
      BY <1>18, <2>1, <2>2, <2>3
  <1>19. CASE Dies
    <2>1. \A m \in Manager : ~NeedsStop(m)'
      BY <1>19 DEF Dies, SupplicantDies, NeedsStop, NewManager
    <2>. QED
      <3>1. app' \in Manager /\ apps' \in 0 .. MaxManagers
        BY <1>19, Numbers DEF Dies
      <3>. QED
        BY <1>19, <2>1, <3>1 DEF Dies, SupplicantDies, StartStage, Config!WriterDies,
              History!WriterDies
  <1>20. CASE EditsFile
    BY <1>0, <1>20 DEF EditsFile, Config!Edit, History!Edit
  <1>21. CASE DaemonsAct
    BY <1>0, <1>21 DEF DaemonsAct, SupplicantEnvironment, DaemonBinds, DaemonExits, End
  <1>. QED
    BY <1>1, <1>2, <1>3, <1>4, <1>5, <1>6, <1>7, <1>8, <1>9, <1>10, <1>11, <1>12, <1>13,
       <1>14, <1>15, <1>16, <1>17, <1>18, <1>19, <1>20, <1>21 DEF ProgramNext, MainLoop, User

-------------------------------------------------------------------------------
\* A step of start or stop keeps LiveInv.
LEMMA WorkLive ==
    ASSUME Inv, LiveInv, Works
    PROVE  LiveInv'
  <1>. USE DEF LiveInv, Owns, SomeStarted, Outlived, daemonVars, nmVars
  <1>0. /\ app \in Manager /\ app \in took /\ ended # "SIGTERM"
        /\ UNCHANGED <<app, took, ended>>
        /\ stage \in {"killStale", "unmanage", "write", "spawn"} => ~NeedsStop(app)
        /\ stage = "socket" => ~mgr[app].started
        /\ \A m \in Manager : NeedsStop(m) => m \in took
        /\ stage # "none" \/ Stop(app)
    BY DEF Inv, Struct, Works, Stop, SupplicantStep, KillStale, UnmanageFromNm, WriteConfig,
           WriteConfigFails, Spawn, SpawnFails, SocketSeen, SocketMissing, Terminate, KillHard,
           ChildReaped, Remanage, CleanupFiles
  <1>00. mgr \in [Manager -> [child : Daemon \cup {NoDaemon}, was : BOOLEAN, started : BOOLEAN]]
    BY DEF Inv, PTypeOK
  <1>000. /\ wrapper \subseteq live /\ live \subseteq 1 .. spawns
          /\ spawns \in Nat /\ base \in 0 .. spawns
    BY SupplicantAssumption DEF Inv, PTypeOK
  <1>1. CASE Stop(app)
    BY <1>0, <1>1 DEF Stop
  <1>2. CASE KillStale
    <2>1. UNCHANGED mgr /\ stage' = "unmanage" /\ (live' = {} \/ Outlived')
      BY <1>2 DEF KillStale, EndTidily, End, Mark
    <2>. QED
      BY <2>1
  <1>3. CASE UnmanageFromNm(app)
    <2>1. /\ live' = live /\ stage = "unmanage" /\ stage' = "write"
          /\ mishaps' \in {mishaps, mishaps \cup {"nmcli"}}
      BY <1>3 DEF UnmanageFromNm, NmcliDone, NmcliFails, Mark
    <2>. QED
      BY <2>1
  <1>4. CASE WriteConfig \/ WriteConfigFails
    <2>1. /\ live' = live /\ stage = "write" /\ stage' \in {"spawn", "none"}
          /\ mishaps \subseteq mishaps'
      BY <1>4 DEF WriteConfig, WriteConfigFails, ClearCtrlDir, Mark
    <2>. QED
      BY <2>1
  <1>5. CASE Spawn(app)
    <2>1. /\ stage = "spawn" /\ stage' = "socket" /\ spawns' = spawns + 1 /\ base' = base
          /\ live' = live \cup {spawns'} /\ wrapper' = wrapper \cup {spawns'}
          /\ mishaps' = mishaps
      BY <1>5 DEF Spawn
    <2>2. mgr'[app].child = spawns'
      BY <1>0, <1>00, <1>5 DEF Spawn
    <2>3. spawns' > base
      BY <1>000, <2>1
    <2>. QED
      BY <1>0, <2>1, <2>2, <2>3
  <1>6. CASE SpawnFails(app)
    <2>1. /\ live' = live /\ stage = "spawn" /\ stage' = "none" /\ mishaps \subseteq mishaps'
      BY <1>6 DEF SpawnFails, RemanageWithNm, NmcliDone, NmcliFails, Mark
    <2>. QED
      BY <2>1
  <1>7. CASE SocketSeen(app)
    <2>1. /\ stage = "socket" /\ stage' = "none" /\ mishaps' = mishaps
          /\ UNCHANGED <<live, wrapper, spawns, base>>
      BY <1>7 DEF SocketSeen
    <2>2. \A m \in Manager : /\ mgr'[m].child = mgr[m].child
                             /\ mgr[m].started \/ m = app => mgr'[m].started
      BY <1>0, <1>00, <1>7 DEF SocketSeen
    <2>. QED
      BY <1>0, <2>1, <2>2
  <1>8. CASE SocketMissing
    BY <1>0, <1>8 DEF SocketMissing
  <1>9. CASE Terminate(app)
    <2>1. /\ stage = "term" /\ stage' = "remanage"
          /\ UNCHANGED <<mgr, mishaps, spawns, base>>
          /\ live' \subseteq live \ {mgr[app].child} \/ (mgr[app].child \notin wrapper /\ live' = live)
          /\ \A d \in live' : d \in wrapper => d \in wrapper'
      BY <1>9 DEF Terminate, EndTidily, End
    <2>2. ~Outlived => \A d \in live : d \in wrapper /\ \E m \in Manager : Owns(m, d)
      BY <1>0, <2>1
    <2>3. ~Outlived => mgr[app].child \notin live'
      BY <2>1, <2>2
    <2>4. live' \subseteq live
      BY <2>1
    <2>. QED
      BY <1>0, <2>1, <2>2, <2>3, <2>4
  <1>10. CASE KillHard(app)
    <2>1. Outlived'
      BY <1>10 DEF KillHard, Mark
    <2>. QED
      BY <2>1
  <1>11. CASE ChildReaped(app)
    BY <1>11 DEF ChildReaped
  <1>12. CASE Remanage(app)
    <2>1. /\ stage = "remanage" /\ stage' = "clean" /\ mishaps \subseteq mishaps'
          /\ UNCHANGED <<live, wrapper, spawns, base>>
      BY <1>12 DEF Remanage, RemanageWithNm, NmcliDone, NmcliFails, Mark
    <2>2. \A m \in Manager : m # app => mgr'[m] = mgr[m]
      BY <1>0, <1>00, <1>12 DEF Remanage
    <2>. QED
      BY <1>0, <2>1, <2>2
  <1>13. CASE CleanupFiles
    BY <1>0, <1>13 DEF CleanupFiles
  <1>. QED
    BY <1>1, <1>2, <1>3, <1>4, <1>5, <1>6, <1>7, <1>8, <1>9, <1>10, <1>11, <1>12, <1>13
       DEF Works, SupplicantStep

\* So does every step.
LEMMA LiveStep ==
    ASSUME Inv, LiveInv, [ProgramNext]_pvars
    PROVE  LiveInv'
  <1>. USE DEF LiveInv, Owns, SomeStarted, Outlived, daemonVars, nmVars
  <1>0. /\ app \in Manager
        /\ \A m \in Manager : NeedsStop(m) => m \in took
        /\ phase = "off" => stage = "none"
        /\ phase = "choosing" => ~NeedsStop(app)
    BY Numbers DEF Inv, Struct, Begins
  <1>00. mgr \in [Manager -> [child : Daemon \cup {NoDaemon}, was : BOOLEAN, started : BOOLEAN]]
    BY DEF Inv, PTypeOK
  <1>1. CASE Bystander
    <2>1. /\ UNCHANGED <<stage, mgr, live, wrapper, spawns, base, took>>
          /\ Outlived' <=> Outlived
          /\ ended' = "SIGTERM" <=> ended = "SIGTERM"
          /\ stage = "none" \/ app' = app
      BY <1>1 DEF Bystander, managerVars
    <2>. QED
      BY <2>1
  <1>2. CASE Works
    BY <1>2, WorkLive
  <1>3. CASE Launches
    BY <1>0, <1>3 DEF Launches, SupplicantReborn
  <1>4. CASE Falls
    BY <1>4 DEF Falls, SupplicantDies
  <1>5. CASE Acts
    <2>. PICK d \in Daemon : DaemonBinds(d) \/ DaemonExits(d)
      BY <1>5 DEF Acts, SupplicantEnvironment
    <2>1. /\ UNCHANGED <<stage, mgr, spawns, base, mishaps, app, took, ended>>
          /\ live' \subseteq live
          /\ \A e \in live' : e \in wrapper => e \in wrapper'
      BY <1>5 DEF Acts, DaemonBinds, DaemonExits, End
    <2>. QED
      BY <2>1
  <1>6. CASE Takes
    <2>1. /\ stage = "none" /\ stage' = "killStale"
          /\ took # {} \/ ~SomeStarted
          /\ UNCHANGED <<live, wrapper, spawns, base, mishaps, app, ended>>
      BY <1>0, <1>6 DEF Takes, Start, NeedsStop
    <2>2. \A m \in Manager : m # app => mgr'[m] = mgr[m]
      BY <1>0, <1>00, <1>6 DEF Takes, Start
    <2>3. ~mgr[app].started /\ ~mgr'[app].started
      BY <1>0, <1>00, <1>6 DEF Takes, Start, NewManager, NeedsStop
    <2>4. ASSUME ~Outlived, SomeStarted', ended # "SIGTERM", NEW d \in live
          PROVE  /\ d = spawns /\ d > base /\ d \in wrapper
                 /\ \E m \in Manager : mgr'[m].child = d /\ mgr'[m].started
      <3>1. SomeStarted
        BY <2>2, <2>3, <2>4
      <3>2. /\ d = spawns /\ d > base /\ d \in wrapper
            /\ \E m \in Manager : mgr[m].child = d /\ mgr[m].started
        BY <2>1, <2>4, <3>1
      <3>. QED
        BY <2>2, <2>3, <3>2
    <2>5. ASSUME ~Outlived', SomeStarted', ended' # "SIGTERM", NEW d \in live'
          PROVE  /\ d = spawns' /\ d > base' /\ d \in wrapper'
                 /\ \E m \in Manager : Owns(m, d)'
      <3>1. ~Outlived /\ ended # "SIGTERM" /\ d \in live
        BY <2>1, <2>5
      <3>2. /\ d = spawns /\ d > base /\ d \in wrapper
            /\ \E m \in Manager : mgr'[m].child = d /\ mgr'[m].started
        BY <2>4, <2>5, <3>1
      <3>. QED
        BY <2>1, <3>2
    <2>. QED
      BY <2>1, <2>5
  <1>. QED
    BY <1>1, <1>2, <1>3, <1>4, <1>5, <1>6, StepKinds

-------------------------------------------------------------------------------
\* What every part of the proofs below needs of the managers.
LEMMA Managers ==
    ASSUME Inv
    PROVE  /\ app \in Manager
           /\ mgr \in [Manager -> [child : Daemon \cup {NoDaemon}, was : BOOLEAN, started : BOOLEAN]]
           /\ \A m \in Manager : mgr[m].started => m \in took /\ ended # "SIGTERM"
           /\ phase = "choosing" => ~NeedsStop(app) /\ ~mgr[app].started /\ stage = "none"
           /\ phase = "off" => stage = "none" /\ ~SomeStarted
           /\ Works => app \in took /\ ended # "SIGTERM"
           /\ stage \in {"killStale", "unmanage", "write", "spawn", "socket"} =>
                 ~mgr[app].started /\ app \in took /\ ended # "SIGTERM"
           /\ unbound \subseteq live /\ live \subseteq 1 .. spawns
           /\ spawns \in Nat /\ base \in 0 .. spawns /\ managed \in BOOLEAN
  <1>1. /\ app \in Manager
        /\ mgr \in [Manager -> [child : Daemon \cup {NoDaemon}, was : BOOLEAN, started : BOOLEAN]]
        /\ unbound \subseteq live /\ live \subseteq 1 .. spawns
        /\ spawns \in Nat /\ base \in 0 .. spawns /\ managed \in BOOLEAN
    BY SupplicantAssumption DEF Inv, Struct, PTypeOK
  <1>2. \A m \in Manager : mgr[m].started => NeedsStop(m)
    BY DEF NeedsStop
  <1>3. \A m \in Manager : NeedsStop(m) => m \in took /\ phase # "off"
    BY Numbers DEF Inv, Struct
  <1>4. phase = "choosing" => ~NeedsStop(app) /\ stage = "none"
    BY DEF Inv, Struct, Begins
  <1>5. /\ ended = "SIGTERM" => phase = "off"
        /\ phase = "off" => stage = "none"
        /\ stage # "none" => app \in took
        /\ stage \in {"killStale", "unmanage", "write", "spawn", "socket"} => ~mgr[app].started
    BY <1>1, <1>2 DEF Inv, Struct
  <1>6. Works => app \in took
    <2>1. Works /\ stage = "none" => NeedsStop(app)
      BY DEF Works, Stop, SupplicantStep, KillStale, UnmanageFromNm, WriteConfig,
             WriteConfigFails, Spawn, SpawnFails, SocketSeen, SocketMissing, Terminate,
             KillHard, ChildReaped, Remanage, CleanupFiles
    <2>. QED
      BY <1>1, <1>3, <1>5, <2>1
  <1>7. Works => phase # "off"
    BY DEF Works
  <1>. QED
    BY <1>1, <1>2, <1>3, <1>4, <1>5, <1>6, <1>7 DEF SomeStarted

\* Every step keeps SocketInv.
LEMMA SocketStep ==
    ASSUME Inv, LiveInv, SocketInv, [ProgramNext]_pvars
    PROVE  SocketInv'
  <1>. USE Managers DEF SocketInv, SomeStarted, Outlived, NoDaemon, daemonVars, nmVars
  <1>1. CASE Bystander
    BY <1>1 DEF Bystander, managerVars
  <1>2. CASE Works
    <2>1. CASE Stop(app) \/ SocketMissing \/ ChildReaped(app) \/ CleanupFiles
      BY <2>1 DEF Stop, SocketMissing, ChildReaped, CleanupFiles
    <2>2. CASE KillStale \/ Terminate(app)
      BY <2>2 DEF KillStale, Terminate, EndTidily, Mark
    <2>3. CASE UnmanageFromNm(app)
      <3>1. /\ UNCHANGED <<sock, base>> /\ stage' = "write" /\ mishaps \subseteq mishaps'
        BY <2>3 DEF UnmanageFromNm, NmcliDone, NmcliFails, Mark
      <3>2. \A m \in Manager : mgr'[m].started <=> mgr[m].started
        BY <2>3 DEF UnmanageFromNm
      <3>. QED
        BY <3>1, <3>2
    <2>4. CASE WriteConfig
      <3>1. sock' = NoDaemon \/ "stuck" \in mishaps'
        BY <2>4 DEF WriteConfig, ClearCtrlDir, Mark
      <3>. QED
        BY <3>1
    <2>5. CASE WriteConfigFails
      BY <2>5 DEF WriteConfigFails, Mark
    <2>6. CASE Spawn(app)
      <3>1. /\ UNCHANGED <<sock, base, mishaps>> /\ stage = "spawn"
        BY <2>6 DEF Spawn
      <3>. QED
        BY <3>1
    <2>7. CASE SpawnFails(app)
      BY <2>7 DEF SpawnFails, RemanageWithNm, NmcliDone, NmcliFails, Mark
    <2>8. CASE SocketSeen(app)
      <3>1. /\ UNCHANGED <<sock, base, mishaps>> /\ stage = "socket"
        BY <2>8 DEF SocketSeen
      <3>. QED
        BY <3>1
    <2>9. CASE KillHard(app)
      BY <2>9 DEF KillHard, Mark
    <2>10. CASE Remanage(app)
      <3>1. /\ UNCHANGED <<sock, base>> /\ stage' = "clean" /\ mishaps \subseteq mishaps'
        BY <2>10 DEF Remanage, RemanageWithNm, NmcliDone, NmcliFails, Mark
      <3>2. \A m \in Manager : mgr'[m].started => mgr[m].started
        BY <2>10 DEF Remanage
      <3>. QED
        BY <3>1, <3>2
    <2>. QED
      BY <1>2, <2>1, <2>2, <2>3, <2>4, <2>5, <2>6, <2>7, <2>8, <2>9, <2>10
         DEF Works, SupplicantStep
  <1>3. CASE Launches
    BY <1>3 DEF Launches, SupplicantReborn
  <1>4. CASE Falls
    BY <1>4 DEF Falls, SupplicantDies, NewManager
  <1>5. CASE Acts
    <2>. PICK d \in Daemon : DaemonBinds(d) \/ DaemonExits(d)
      BY <1>5 DEF Acts, SupplicantEnvironment
    <2>1. CASE DaemonBinds(d)
      <3>1. /\ d \in live /\ sock' = d /\ UNCHANGED <<stage, mgr, base, mishaps>>
        BY <2>1 DEF DaemonBinds
      <3>2. ~Outlived /\ (SomeStarted \/ stage \in {"spawn", "socket"}) => d > base
        BY <3>1 DEF LiveInv
      <3>. QED
        BY <3>1, <3>2
    <2>2. CASE DaemonExits(d)
      BY <2>2 DEF DaemonExits
    <2>. QED
      BY <2>1, <2>2
  <1>6. CASE Takes
    <2>1. /\ UNCHANGED <<sock, base, mishaps>> /\ stage' = "killStale"
      BY <1>6 DEF Takes, Start
    <2>2. \A m \in Manager : mgr'[m].started => mgr[m].started
      BY <1>6 DEF Takes, Start, NewManager
    <2>. QED
      BY <2>1, <2>2
  <1>. QED
    BY <1>1, <1>2, <1>3, <1>4, <1>5, <1>6, StepKinds

\* Every step keeps TakenInv.
LEMMA TakenStep ==
    ASSUME Inv, LiveInv, TakenInv, [ProgramNext]_pvars
    PROVE  TakenInv'
  <1>. USE Managers DEF TakenInv, OneStart, daemonVars, nmVars
  <1>1. CASE Bystander
    BY <1>1 DEF Bystander, managerVars
  <1>2. CASE Works
    <2>0. UNCHANGED <<app, took>>
      BY <1>2 DEF Works
    <2>1. CASE Stop(app) \/ SocketMissing \/ ChildReaped(app) \/ CleanupFiles \/ SocketSeen(app)
      BY <2>0, <2>1 DEF Stop, SocketMissing, ChildReaped, CleanupFiles, SocketSeen
    <2>2. CASE KillStale \/ Terminate(app) \/ KillHard(app)
      <3>1. /\ managed' = managed /\ base' = base /\ live' \subseteq live
            /\ mishaps \subseteq mishaps' /\ stage' \notin {"write", "spawn"}
        BY <2>2 DEF KillStale, Terminate, KillHard, EndTidily, End, Mark
      <3>. QED
        BY <2>0, <3>1
    <2>3. CASE UnmanageFromNm(app)
      <3>1. ~managed' \/ mishaps' # {}
        BY <2>3 DEF UnmanageFromNm, NmcliDone, NmcliFails, Mark
      <3>. QED
        BY <3>1
    <2>4. CASE WriteConfig \/ WriteConfigFails
      <3>1. /\ UNCHANGED <<managed, base, live>> /\ mishaps \subseteq mishaps' /\ stage = "write"
        BY <2>4 DEF WriteConfig, WriteConfigFails, ClearCtrlDir, Mark
      <3>. QED
        BY <2>0, <3>1
    <2>5. CASE Spawn(app)
      <3>1. /\ UNCHANGED <<managed, mishaps>> /\ stage = "spawn"
        BY <2>5 DEF Spawn
      <3>. QED
        BY <2>0, <3>1
    <2>6. CASE SpawnFails(app)
      <3>1. /\ stage = "spawn" /\ stage' = "none" /\ live' = live /\ mishaps \subseteq mishaps'
        BY <2>6 DEF SpawnFails, RemanageWithNm, NmcliDone, NmcliFails, Mark
      <3>2. mishaps' = {} => live = {}
        BY <3>1 DEF LiveInv, Outlived
      <3>. QED
        BY <3>1, <3>2
    <2>7. CASE Remanage(app)
      <3>1. /\ stage = "remanage" /\ stage' = "clean" /\ live' = live /\ mishaps \subseteq mishaps'
        BY <2>7 DEF Remanage, RemanageWithNm, NmcliDone, NmcliFails, Mark
      <3>2. ASSUME mishaps = {}, OneStart, NEW d \in live
            PROVE  FALSE
        <4>1. /\ mgr[app].child \notin live
              /\ \E m \in Manager : Owns(m, d)
          BY <1>2, <3>1, <3>2 DEF LiveInv, Outlived
        <4>2. PICK m \in Manager : mgr[m].child = d /\ mgr[m].started
          BY <3>1, <4>1 DEF Owns
        <4>3. m = app
          BY <1>2, <3>2, <4>2
        <4>. QED
          BY <4>1, <4>2, <4>3
      <3>. QED
        BY <2>0, <3>1, <3>2
    <2>. QED
      BY <1>2, <2>1, <2>2, <2>3, <2>4, <2>5, <2>6, <2>7 DEF Works, SupplicantStep
  <1>3. CASE Launches
    <2>1. /\ stage' = "none" /\ base' = spawns /\ live' = live
      BY <1>3 DEF Launches, SupplicantReborn
    <2>2. \A d \in live : d <= spawns
      OBVIOUS
    <2>. QED
      BY <2>1, <2>2
  <1>4. CASE Falls
    BY <1>4 DEF Falls, SupplicantDies
  <1>5. CASE Acts
    <2>1. UNCHANGED <<stage, managed, base, mishaps, took>> /\ live' \subseteq live
      BY <1>5 DEF Acts, SupplicantEnvironment, DaemonBinds, DaemonExits, End
    <2>. QED
      BY <2>1
  <1>6. CASE Takes
    <2>1. UNCHANGED <<managed, base, mishaps, live>> /\ stage' = "killStale" /\ took \subseteq took'
      BY <1>6 DEF Takes, Start
    <2>. QED
      BY <2>1
  <1>. QED
    BY <1>1, <1>2, <1>3, <1>4, <1>5, <1>6, StepKinds

\* Every step keeps WasInv.
LEMMA WasStep ==
    ASSUME Inv, WasInv, [ProgramNext]_pvars
    PROVE  WasInv'
  <1>. USE DEF WasInv, SomeStarted, NeedsStop, NoDaemon, daemonVars, nmVars
  <1>0. /\ app \in Manager /\ managed \in BOOLEAN
        /\ \A m \in Manager : mgr[m].started => m \in took /\ ended # "SIGTERM"
        /\ phase = "choosing" => ~NeedsStop(app) /\ ~mgr[app].started /\ stage = "none"
        /\ phase = "off" => stage = "none" /\ ~SomeStarted
        /\ Works => app \in took /\ ended # "SIGTERM"
        /\ stage \in {"killStale", "unmanage", "write", "spawn", "socket"} =>
              ~mgr[app].started /\ app \in took /\ ended # "SIGTERM"
    BY Managers
  <1>00. mgr \in [Manager -> [child : Daemon \cup {NoDaemon}, was : BOOLEAN, started : BOOLEAN]]
    BY Managers
  <1>1. CASE Bystander
    <2>1. /\ UNCHANGED <<stage, mgr, managed, took>>
          /\ ended' = "SIGTERM" <=> ended = "SIGTERM"
          /\ mishaps' \cap {"nmcli", "write"} = mishaps \cap {"nmcli", "write"}
          /\ stage = "none" \/ app' = app
      BY <1>1 DEF Bystander, managerVars
    <2>. QED
      BY <2>1
  <1>2. CASE Works
    <2>0. UNCHANGED <<app, took, ended>>
      BY <1>2 DEF Works
    <2>1. CASE Stop(app)
      BY <1>0, <2>0, <2>1 DEF Stop
    <2>2. CASE KillStale \/ SocketMissing \/ Terminate(app) \/ KillHard(app) \/ ChildReaped(app)
               \/ CleanupFiles
      <3>1. /\ UNCHANGED <<managed, mgr>> /\ mishaps \subseteq mishaps'
            /\ \/ stage = "killStale" /\ stage' = "unmanage"
               \/ stage = "socket" /\ stage' = "term"
               \/ stage = "term" /\ stage' \in {"wait", "remanage"}
               \/ stage = "wait" /\ stage' = "remanage"
               \/ stage = "clean" /\ stage' = "none"
        BY <2>2 DEF KillStale, SocketMissing, Terminate, KillHard, ChildReaped, CleanupFiles,
                    EndTidily, Mark
      <3>. QED
        BY <1>0, <2>0, <3>1
    <2>3. CASE UnmanageFromNm(app)
      <3>1. mgr'[app].was \/ "nmcli" \in mishaps'
        BY <1>0, <1>00, <2>3 DEF UnmanageFromNm, NmcliDone, NmcliFails, Mark
      <3>2. /\ \A m \in Manager : mgr'[m].child = mgr[m].child
            /\ \A m \in Manager : (mgr'[m].started <=> mgr[m].started)
            /\ \A m \in Manager : m # app => (mgr'[m].was <=> mgr[m].was)
            /\ stage = "unmanage" /\ stage' = "write" /\ mishaps \subseteq mishaps'
        BY <1>0, <1>00, <2>3 DEF UnmanageFromNm, NmcliDone, NmcliFails, Mark
      <3>. QED
        BY <1>0, <2>0, <3>1, <3>2
    <2>4. CASE WriteConfig
      <3>1. /\ UNCHANGED <<mgr, managed>> /\ stage = "write" /\ stage' = "spawn"
            /\ mishaps \subseteq mishaps'
        BY <2>4 DEF WriteConfig, ClearCtrlDir, Mark
      <3>. QED
        BY <1>0, <2>0, <3>1
    <2>5. CASE WriteConfigFails
      <3>1. UNCHANGED mgr /\ stage = "write" /\ "write" \in mishaps'
        BY <2>5 DEF WriteConfigFails, Mark
      <3>. QED
        BY <1>0, <2>0, <3>1
    <2>6. CASE Spawn(app)
      <3>1. /\ \A m \in Manager : (mgr'[m].was <=> mgr[m].was)
            /\ \A m \in Manager : (mgr'[m].started <=> mgr[m].started)
            /\ \A m \in Manager : m # app => mgr'[m].child = mgr[m].child
            /\ stage = "spawn" /\ stage' = "socket" /\ UNCHANGED <<managed, mishaps>>
        BY <1>0, <1>00, <2>6 DEF Spawn
      <3>. QED
        BY <1>0, <2>0, <3>1
    <2>7. CASE SpawnFails(app)
      <3>1. /\ UNCHANGED mgr /\ stage = "spawn" /\ stage' = "none" /\ mishaps \subseteq mishaps'
            /\ mgr[app].was => managed' \/ "nmcli" \in mishaps'
        BY <2>7 DEF SpawnFails, RemanageWithNm, NmcliDone, NmcliFails, Mark
      <3>. QED
        BY <1>0, <2>0, <3>1
    <2>8. CASE SocketSeen(app)
      <3>1. /\ \A m \in Manager : (mgr'[m].was <=> mgr[m].was)
            /\ \A m \in Manager : mgr'[m].child = mgr[m].child
            /\ \A m \in Manager : m # app => (mgr'[m].started <=> mgr[m].started)
            /\ mgr'[app].started
            /\ stage = "socket" /\ stage' = "none" /\ UNCHANGED <<managed, mishaps>>
        BY <1>0, <1>00, <2>8 DEF SocketSeen
      <3>. QED
        BY <1>0, <2>0, <3>1
    <2>9. CASE Remanage(app)
      <3>1. /\ \A m \in Manager : m # app => mgr'[m] = mgr[m]
            /\ ~mgr'[app].started /\ mgr'[app].child = NoDaemon
            /\ stage = "remanage" /\ stage' = "clean" /\ mishaps \subseteq mishaps'
            /\ mgr[app].was => managed' \/ "nmcli" \in mishaps'
        BY <1>0, <1>00, <2>9 DEF Remanage, RemanageWithNm, NmcliDone, NmcliFails, Mark
      <3>. QED
        BY <1>0, <2>0, <3>1
    <2>. QED
      BY <1>2, <2>1, <2>2, <2>3, <2>4, <2>5, <2>6, <2>7, <2>8, <2>9 DEF Works, SupplicantStep
  <1>3. CASE Launches
    <2>1. /\ UNCHANGED <<stage, mgr>> /\ took' = {} /\ stage = "none" /\ ~SomeStarted
      BY <1>0, <1>3 DEF Launches, SupplicantReborn
    <2>. QED
      BY <2>1
  <1>4. CASE Falls
    <2>1. \A m \in Manager : ~NeedsStop(m)'
      BY <1>4 DEF Falls, SupplicantDies, NewManager
    <2>. QED
      BY <1>4, <2>1 DEF Falls
  <1>5. CASE Acts
    <2>1. UNCHANGED <<stage, mgr, app, managed, mishaps, took, ended>>
      BY <1>5 DEF Acts, SupplicantEnvironment, DaemonBinds, DaemonExits
    <2>. QED
      BY <2>1
  <1>6. CASE Takes
    <2>1. /\ UNCHANGED <<app, managed, mishaps, ended>> /\ stage = "none" /\ stage' = "killStale"
          /\ \A m \in Manager : m # app => mgr'[m] = mgr[m]
          /\ ~mgr'[app].started /\ mgr'[app].child = NoDaemon
      BY <1>0, <1>00, <1>6 DEF Takes, Start, NewManager
    <2>. QED
      BY <1>0, <2>1
  <1>. QED
    BY <1>1, <1>2, <1>3, <1>4, <1>5, <1>6, StepKinds

-------------------------------------------------------------------------------
\* No document is a torn one.
LEMMA Documents ==
    /\ \A x : [list |-> x] # History!Torn
    /\ Config!Torn = History!Torn
    /\ \A s \in Settings : s # Config!Torn
    /\ Unusable # History!Torn /\ Config!Missing # Config!Torn /\ History!Missing # History!Torn
    /\ NoRecords # History!Torn /\ DefaultConfig # Config!Torn
    /\ Unusable \notin Settings /\ Config!Missing \notin Settings
    /\ DefaultConfig \in Settings /\ DefaultConfig.port # "outside"
    /\ Outside \in Settings
    /\ \A v \in Value : [port |-> v] \in Settings
  BY DEF History!Torn, Config!Torn, History!Missing, Config!Missing, Settings, Unusable, NoRecords,
         DefaultConfig, Outside, Value

\* Every step keeps FileInv.
LEMMA FileStep ==
    ASSUME Inv, PortInv, FileInv, [ProgramNext]_pvars
    PROVE  FileInv'
  <1>. USE Documents DEF FileInv, confVars, histVars, Config!Idle, History!Idle
  <1>0. app \in Manager /\ \A m \in 1 .. apps : m \in Manager
    BY SupplicantAssumption DEF Inv, Struct, Manager
  <1>1. CASE UNCHANGED <<sessions, confVars, histVars>>
    BY <1>1
  <1>2. CASE LoadConfig
    <2>1. CASE UNCHANGED confVars
      BY <1>2, <2>1 DEF LoadConfig
    <2>2. CASE Config!Begin(DefaultConfig)
      BY <1>2, <2>2 DEF LoadConfig, Config!Begin
    <2>. QED
      BY <1>2, <2>1, <2>2 DEF LoadConfig
  <1>3. CASE LoadHistory
    BY <1>0, <1>3 DEF LoadHistory
  <1>4. CASE Writes
    <2>1. CASE (Config!Create \/ Config!WriteAll) /\ UNCHANGED histVars
      BY <1>4, <2>1 DEF Writes, memoryVars, Config!Create, Config!WriteAll
    <2>2. CASE (History!Create \/ History!WriteAll) /\ UNCHANGED confVars
      BY <1>4, <2>2 DEF Writes, memoryVars, History!Create, History!WriteAll
    <2>. QED
      BY <1>4, <2>1, <2>2 DEF Writes
  <1>5. CASE Saved
    <2>1. CASE Config!Rename /\ UNCHANGED histVars
      BY <1>5, <2>1 DEF Saved, Config!Rename
    <2>2. CASE History!Rename /\ UNCHANGED confVars
      BY <1>5, <2>2 DEF Saved, History!Rename
    <2>. QED
      BY <1>5, <2>1, <2>2 DEF Saved
  <1>6. CASE SaveFails
    BY <1>6 DEF SaveFails, Config!WriteFails, History!WriteFails
  <1>7. CASE ClearFails
    BY <1>0, <1>7 DEF ClearFails, History!WriteFails
  <1>8. ASSUME NEW m \in Manager, NEW t \in Stamp, AddSession(m, t)
        PROVE  FileInv'
    <2>1. /\ sessions' = [k \in Manager |-> sessions'[k]]
          /\ \E x : sessions'[m] = [list |-> x]
      BY <1>8 DEF AddSession
    <2>2. histDisk' = histDisk /\ histJob' = [at |-> "create", doc |-> sessions'[m]]
      BY <1>8 DEF AddSession, History!Begin
    <2>. QED
      BY <1>8, <2>1, <2>2 DEF AddSession
  <1>9. ASSUME NEW m \in Manager, Clear(m)
        PROVE  FileInv'
    BY <1>9 DEF Clear, History!Begin
  <1>10. ASSUME NEW m \in Manager, NEW v \in Value, Set(m, v)
         PROVE  FileInv'
    <2>1. conf'[m] \in Settings
      BY <1>10 DEF Set, PortInv
    <2>. QED
      BY <1>10, <2>1 DEF Set, Config!Begin
  <1>11. CASE Exit
    BY <1>11 DEF Exit, NoMemory
  <1>12. CASE Dies
    BY <1>12 DEF Dies, NoMemory, Config!WriterDies, History!WriterDies
  <1>13. CASE EditsFile
    BY <1>13 DEF EditsFile, Config!Edit, History!Edit, memoryVars
  <1>14. UsesSystemSupplicant \/ StartsDedicated \/ Starting \/ NothingToRecord \/ StopsSupplicant
           \/ NextApp \/ Activate \/ Close \/ DaemonsAct \/ UNCHANGED pvars
         => UNCHANGED <<sessions, confVars, histVars>>
    BY DEF UsesSystemSupplicant, StartsDedicated, Starting, NothingToRecord, StopsSupplicant,
           NextApp, Activate, Close, DaemonsAct, pvars, memoryVars
  <1>15. (\E t \in Stamp : RecordsLastSession(t)) => \E t \in Stamp : AddSession(app, t)
    BY DEF RecordsLastSession
  <1>16. \A m \in Manager :
            (\E t \in Stamp : SessionEnds(m, t)) => \E t \in Stamp : AddSession(m, t)
    BY DEF SessionEnds
  <1>. QED
    BY <1>0, <1>1, <1>2, <1>3, <1>4, <1>5, <1>6, <1>7, <1>8, <1>9, <1>10, <1>11, <1>12, <1>13,
       <1>14, <1>15, <1>16 DEF ProgramNext, MainLoop, User

\* Every step keeps PortInv.
LEMMA PortStep ==
    ASSUME Inv, PortInv, [ProgramNext]_pvars
    PROVE  PortInv'
  <1>. USE Documents DEF PortInv, Fair, confVars, Config!Idle
  <1>0. app \in Manager
    BY DEF Inv, Struct
  <1>1. CASE UNCHANGED <<conf, confVars, edited>>
    BY <1>1
  <1>2. CASE LoadConfig
    <2>1. CASE confDisk \in Settings /\ conf' = [conf EXCEPT ![app] = confDisk] /\ UNCHANGED confVars
      BY <1>0, <1>2, <2>1 DEF LoadConfig, countVars
    <2>2. CASE conf' = [conf EXCEPT ![app] = DefaultConfig] /\ Config!Begin(DefaultConfig)
      BY <1>0, <1>2, <2>2 DEF LoadConfig, countVars, Config!Begin
    <2>. QED
      BY <1>2, <2>1, <2>2 DEF LoadConfig
  <1>3. CASE Writes
    BY <1>3 DEF Writes, memoryVars, countVars, Config!Create, Config!WriteAll
  <1>4. CASE Saved
    BY <1>4 DEF Saved, countVars, Config!Rename
  <1>5. CASE SaveFails
    BY <1>5 DEF SaveFails, countVars, Config!WriteFails
  <1>6. ASSUME NEW m \in Manager, NEW v \in Value, Set(m, v)
        PROVE  PortInv'
    <2>1. v # "outside" /\ [port |-> v] \in Settings
      BY <1>6 DEF Set, Validated
    <2>2. conf' = [conf EXCEPT ![m] = [port |-> v]]
      BY <1>6 DEF Set
    <2>. QED
      BY <1>6, <2>1, <2>2 DEF Set, Config!Begin
  <1>7. CASE Exit \/ Dies
    BY <1>7 DEF Exit, Dies, NoMemory, Config!WriterDies, countVars
  <1>8. CASE EditsFile
    BY <1>8 DEF EditsFile, Config!Edit, memoryVars
  <1>9. ASSUME NEW m \in Manager, NEW t, Clear(m) \/ SessionEnds(m, t) \/ RecordsLastSession(t)
        PROVE  UNCHANGED <<conf, confVars, edited>>
    BY <1>9 DEF Clear, SessionEnds, RecordsLastSession, AddSession, countVars
  <1>10. UsesSystemSupplicant \/ StartsDedicated \/ Starting \/ NothingToRecord \/ StopsSupplicant
           \/ LoadHistory \/ ClearFails
           \/ NextApp \/ Activate \/ Close \/ DaemonsAct \/ UNCHANGED pvars
         => UNCHANGED <<conf, confVars, edited>>
    BY DEF UsesSystemSupplicant, StartsDedicated, Starting, NothingToRecord, StopsSupplicant,
           LoadHistory, ClearFails, NextApp, Activate, Close, DaemonsAct, pvars, memoryVars,
           countVars
  <1>. QED
    BY <1>0, <1>1, <1>2, <1>3, <1>4, <1>5, <1>6, <1>7, <1>8, <1>9, <1>10
       DEF ProgramNext, MainLoop, User

\* Every step keeps MemoryInv.
LEMMA MemoryStep ==
    ASSUME Inv, PortInv, FileInv, MemoryInv, [ProgramNext]_pvars
    PROVE  MemoryInv'
  <1>. USE DEF MemoryInv, Ahead, confVars, histVars, Config!Idle, History!Idle
  <1>0. /\ apps = 1 => app = 1
        /\ 1 \in Manager
        /\ phase = "off" => apps # 1
        /\ \A m \in 1 .. apps : apps = 1 => m = 1
    BY SupplicantAssumption DEF Inv, Struct, Manager
  <1>00. /\ confJob.at # "idle" => phase \in {"defaults", "setting"}
         /\ histJob.at # "idle" => phase \in {"adding", "clearing", "last record"}
    BY Writing DEF Inv, ConfigSave, HistorySave
  <1>000. /\ sessions = [m \in Manager |-> sessions[m]] /\ conf = [m \in Manager |-> conf[m]]
          /\ confJob = [at |-> confJob.at, doc |-> confJob.doc]
          /\ histJob = [at |-> histJob.at, doc |-> histJob.doc]
    BY DEF FileInv, PortInv
  <1>1. CASE UNCHANGED <<apps, phase, conf, sessions, prev, ahead, confVars, histVars>>
    BY <1>1
  <1>2. CASE LoadConfig
    <2>1. CASE conf' = [conf EXCEPT ![app] = confDisk] /\ phase' = "history" /\ UNCHANGED confVars
      BY <1>0, <1>00, <1>000, <1>2, <2>1 DEF LoadConfig
    <2>2. CASE /\ conf' = [conf EXCEPT ![app] = DefaultConfig] /\ phase' = "defaults"
               /\ Config!Begin(DefaultConfig)
      BY <1>0, <1>00, <1>000, <1>2, <2>2 DEF LoadConfig, Config!Begin
    <2>. QED
      BY <1>2, <2>1, <2>2 DEF LoadConfig
  <1>3. CASE LoadHistory
    <2>1. /\ phase = "history" /\ phase' = "choosing"
          /\ UNCHANGED <<apps, conf, prev, confVars, histVars>>
          /\ ahead \subseteq ahead' \/ apps # 1
          /\ apps = 1 => sessions'[1] = histDisk \/ "history" \in ahead'
      BY <1>0, <1>000, <1>3 DEF LoadHistory
    <2>. QED
      BY <1>00, <2>1
  <1>4. CASE Writes
    <2>1. UNCHANGED <<apps, phase, conf, sessions, prev, ahead, confDisk, histDisk>>
      BY <1>4 DEF Writes, memoryVars, Config!Create, Config!WriteAll, History!Create, History!WriteAll
    <2>2. /\ confJob'.doc = confJob.doc /\ histJob'.doc = histJob.doc
          /\ confJob'.at = "idle" => confJob.at = "idle"
          /\ histJob'.at = "idle" => histJob.at = "idle"
          /\ confJob.at = "idle" => confJob'.at = "idle"
          /\ histJob.at = "idle" => histJob'.at = "idle"
      BY <1>000, <1>4
         DEF Writes, Config!Create, Config!WriteAll, History!Create, History!WriteAll
    <2>. QED
      BY <2>1, <2>2
  <1>5. CASE Saved
    <2>1. CASE Config!Rename /\ UNCHANGED histVars /\ Ahead(ahead \ {"config"})
      BY <1>00, <1>5, <2>1 DEF Saved, Config!Rename, After
    <2>2. CASE History!Rename /\ UNCHANGED confVars /\ Ahead(ahead \ {"history"})
      BY <1>00, <1>5, <2>2 DEF Saved, History!Rename, After
    <2>. QED
      BY <1>5, <2>1, <2>2 DEF Saved
  <1>6. CASE SaveFails
    <2>0. /\ UNCHANGED <<apps, conf, sessions, prev>>
          /\ phase # "clearing" /\ phase' # "clearing" /\ phase' # "loading"
          /\ phase # "defaults" => phase' \notin {"defaults", "history"}
      BY <1>6 DEF SaveFails, After
    <2>1. CASE Config!WriteFails /\ UNCHANGED histVars /\ Ahead(ahead \cup {"config"})
      <3>1. /\ UNCHANGED <<confDisk, histDisk, histJob>> /\ confJob'.at = "idle"
            /\ apps = 1 => ahead' = ahead \cup {"config"}
            /\ phase \in {"defaults", "setting"}
        BY <2>1 DEF Config!WriteFails, Inv, Struct, ConfigSave
      <3>2. CASE phase = "defaults"
        BY <2>0, <3>1, <3>2, <1>6 DEF SaveFails, After
      <3>3. CASE phase = "setting"
        BY <2>0, <3>1, <3>3
      <3>. QED
        BY <3>1, <3>2, <3>3
    <2>2. CASE History!WriteFails /\ UNCHANGED confVars /\ Ahead(ahead \cup {"history"})
      <3>1. /\ UNCHANGED <<confDisk, histDisk, confJob>> /\ histJob'.at = "idle"
            /\ apps = 1 => ahead' = ahead \cup {"history"}
            /\ phase \in {"adding", "clearing", "last record"}
        BY <2>2 DEF History!WriteFails, Inv, Struct, HistorySave
      <3>. QED
        BY <2>0, <3>1
    <2>. QED
      BY <1>6, <2>1, <2>2 DEF SaveFails
  <1>7. CASE ClearFails
    BY <1>0, <1>00, <1>000, <1>7 DEF ClearFails, History!WriteFails
  <1>8. ASSUME NEW m \in 1 .. apps, NEW t \in Stamp, AddSession(m, t),
               phase' \in {"adding", "last record"}, phase \in {"idle", "closing"}
        PROVE  MemoryInv'
    <2>1. /\ UNCHANGED <<apps, conf, prev, ahead, confVars, histDisk>>
          /\ histJob' = [at |-> "create", doc |-> sessions'[m]]
      BY <1>8 DEF AddSession, History!Begin
    <2>. QED
      BY <1>0, <1>00, <1>8, <2>1
  <1>9. ASSUME NEW m \in 1 .. apps, Clear(m)
        PROVE  MemoryInv'
    BY <1>0, <1>00, <1>000, <1>9 DEF Clear, History!Begin
  <1>10. ASSUME NEW m \in 1 .. apps, NEW v \in Value, Set(m, v)
         PROVE  MemoryInv'
    <2>1. /\ UNCHANGED <<apps, sessions, prev, ahead, histVars, confDisk>>
          /\ phase = "idle" /\ phase' = "setting"
          /\ confJob' = [at |-> "create", doc |-> conf'[m]]
      BY <1>10 DEF Set, Config!Begin
    <2>. QED
      BY <1>0, <1>00, <2>1
  <1>11. CASE Exit \/ Dies \/ Activate
    <2>1. Activate => /\ phase \in {"off", "idle"} /\ phase' = "loading"
                      /\ UNCHANGED <<confJob, histJob>>
      BY DEF Activate
    <2>2. Exit \/ Dies => apps' = 0
      BY DEF Exit, Dies
    <2>3. CASE Activate
      BY <1>00, <2>1, <2>3
    <2>. QED
      BY <1>11, <2>2, <2>3
  <1>12. CASE EditsFile
    BY <1>0, <1>12 DEF EditsFile
  <1>13. CASE UsesSystemSupplicant \/ StartsDedicated \/ Starting \/ NothingToRecord
              \/ StopsSupplicant \/ NextApp \/ Close
    <2>1. /\ UNCHANGED <<apps, conf, sessions, prev, ahead, confVars, histVars>>
          /\ phase' \notin {"loading", "clearing"}
          /\ phase \notin {"loading", "defaults", "history"}
      BY <1>13 DEF UsesSystemSupplicant, StartsDedicated, Starting, NothingToRecord,
                   StopsSupplicant, NextApp, Close, memoryVars
    <2>. QED
      BY <2>1
  <1>14. CASE DaemonsAct \/ UNCHANGED pvars
    BY <1>1, <1>14 DEF DaemonsAct, pvars, memoryVars
  <1>15. ASSUME NEW t \in Stamp, RecordsLastSession(t)
         PROVE  MemoryInv'
    <2>0. app \in Manager /\ apps \in 0 .. MaxManagers /\ app <= apps
      BY <1>15 DEF RecordsLastSession, Inv, Struct
    <2>1. app \in 1 .. apps
      BY <2>0, SupplicantAssumption DEF Manager
    <2>. QED
      BY <1>8, <1>15, <2>1 DEF RecordsLastSession
  <1>16. ASSUME NEW m \in Manager, NEW t \in Stamp, SessionEnds(m, t)
         PROVE  MemoryInv'
    BY <1>8, <1>16 DEF SessionEnds
  <1>17. \A m \in Manager : (Clear(m) \/ \E v \in Value : Set(m, v)) => m \in 1 .. apps
    BY DEF Clear, Set
  <1>. QED
    BY <1>2, <1>3, <1>4, <1>5, <1>6, <1>7, <1>9, <1>10, <1>11, <1>12, <1>13, <1>14, <1>15, <1>16,
       <1>17 DEF ProgramNext, MainLoop, User

-------------------------------------------------------------------------------
\* All that is inductive.
Everything == Inv /\ LiveInv /\ SocketInv /\ TakenInv /\ WasInv /\ PortInv /\ FileInv /\ MemoryInv

\* The program starts in all of them.
LEMMA InitKeeps == ProgramInit => Everything
  <1>. SUFFICES ASSUME ProgramInit
                PROVE  Everything
    OBVIOUS
  <1>. USE DEF ProgramInit, PInit
  <1>1. 0 \in 0 .. MaxSpawns /\ 0 \in 0 .. 0 /\ 0 \in 0 .. MaxManagers /\ 1 \in Manager
    BY SupplicantAssumption DEF Manager
  <1>2. \A m \in Manager : mgr[m] = NewManager /\ ~NeedsStop(m)
    BY DEF NewManager, NeedsStop
  <1>3. PTypeOK
    BY <1>1 DEF PTypeOK, NewManager, NoDaemon
  <1>4. confJob = Config!Idle /\ histJob = History!Idle
    BY DEF Config!FileInit, History!FileInit
  <1>5. Struct
    BY <1>1, <1>2, <1>4 DEF Struct, Phase, Begins, Closes, StartStage
  <1>6. LiveInv /\ SocketInv /\ TakenInv
    BY <1>2 DEF LiveInv, SocketInv, TakenInv, SomeStarted, NewManager
  <1>7. WasInv
    BY <1>2 DEF WasInv, NewManager
  <1>8. confDisk = Config!Missing /\ (histDisk = History!Missing \/ \E t \in Stamp : histDisk = [list |-> <<t>>])
    BY DEF Config!FileInit, History!FileInit
  <1>9. FileInv
    BY <1>4, <1>8, Documents DEF FileInv, Config!Idle, History!Idle
  <1>10. PortInv
    BY <1>4, <1>8, Documents DEF PortInv, Fair, Config!Idle
  <1>11. MemoryInv
    BY DEF MemoryInv
  <1>. QED
    BY <1>3, <1>5, <1>6, <1>7, <1>9, <1>10, <1>11 DEF Everything, Inv

\* Every step keeps all of them.
LEMMA StepKeeps == Everything /\ [ProgramNext]_pvars => Everything'
  BY TypeStep, StructStep, LiveStep, SocketStep, TakenStep, WasStep, PortStep, FileStep, MemoryStep
     DEF Everything, Inv

\* The program is always in all of them.
LEMMA Always == ProgramSpec => []Everything
  BY InitKeeps, StepKeeps, PTL DEF ProgramSpec

\* Daemons, managers and the steps of start and stop keep their types: no child, socket
\* or live process is a daemon that was never spawned (p2p_supplicant.rs).
THEOREM SupplicantTypeCorrect == ProgramSpec => []PTypeOK
  <1>1. Everything => PTypeOK
    BY DEF Everything, Inv
  <1>. QED
    BY <1>1, Always, PTL

\* Whatever step of a write fails, and whenever the process dies, neither file ever holds
\* a part of a document (write_json_0600).
THEOREM FilesStayWhole == ProgramSpec => []FilesAreWhole
  <1>1. Everything => FilesAreWhole
    BY DEF Everything, FileInv, FilesAreWhole
  <1>. QED
    BY <1>1, Always, PTL

\* With one App, what the program shows between two operations is what its next run
\* would load, unless the last save failed or the file could not be read (set, save,
\* add_session, clear, write_json_0600).
THEOREM MemoryStaysSaved == ProgramSpec => []MemoryIsSaved
  <1>1. Everything => MemoryIsSaved
    <2>. SUFFICES ASSUME Everything, phase = "idle", apps = 1
                  PROVE  /\ conf[1] = confDisk \/ "config" \in ahead
                         /\ sessions[1] = histDisk \/ "history" \in ahead
      BY DEF MemoryIsSaved
    <2>1. confJob.at = "idle" /\ histJob.at = "idle"
      BY Writing DEF Everything, Inv, ConfigSave, HistorySave
    <2>. QED
      BY <2>1 DEF Everything, MemoryInv
  <1>. QED
    BY <1>1, Always, PTL

\* A bounded setting is out of its range only if somebody edited the file: no sequence of
\* sets, failures and restarts gets it there (validate, load_config).
THEOREM PortStaysInRange == ProgramSpec => []PortInRange
  <1>1. Everything => PortInRange
    BY DEF Everything, PortInv, Fair, PortInRange
  <1>. QED
    BY <1>1, Always, PTL

\* A manager that has something to stop belongs to a run that is on.
LEMMA WhoNeedsStop ==
    ASSUME Struct, NEW m \in Manager, NeedsStop(m)
    PROVE  m \in took /\ phase # "off" /\ ended # "SIGTERM"
  <1>1. m <= apps /\ m \in took /\ (phase = "off" => apps = 0) /\ (ended = "SIGTERM" => phase = "off")
    BY DEF Struct
  <1>2. m \in Nat /\ m >= 1
    BY Numbers
  <1>. QED
    BY <1>1, <1>2

\* Once a dedicated daemon serves, it is the only one on the adapter, also after runs
\* that died and left theirs behind, and after a second activation; unless a daemon
\* outlived its SIGTERM (start's pkill, stop).
THEOREM OneDaemonServes == ProgramSpec => []OneSupplicant
  <1>1. Everything => OneSupplicant
    <2>. SUFFICES ASSUME Everything, SomeStarted, ~Outlived
                  PROVE  \A d, e \in live : d = e /\ d > base
      BY DEF OneSupplicant, SomeStarted
    <2>1. took # {} /\ ended # "SIGTERM"
      BY WhoNeedsStop DEF Everything, Inv, SomeStarted, NeedsStop
    <2>2. \A d \in live : d = spawns /\ d > base
      BY <2>1 DEF Everything, LiveInv
    <2>. QED
      BY <2>2
  <1>. QED
    BY <1>1, Always, PTL

\* start never takes the socket of an earlier run's daemon for that of its own
\* (write_config, wait_for_socket).
THEOREM SocketStaysOurs == ProgramSpec => []SocketIsOurs
  <1>1. Everything => SocketIsOurs
    BY DEF Everything, SocketInv, SocketIsOurs, SomeStarted
  <1>. QED
    BY <1>1, Always, PTL

\* NetworkManager and a daemon of this run never have the adapter at the same time unless
\* a command failed or there are two Apps (start, stop).
THEOREM NobodyFights == ProgramSpec => []NoFight
  <1>1. Everything => NoFight
    BY DEF Everything, TakenInv, NoFight
  <1>. QED
    BY <1>1, Always, PTL

\* When start failed, and when the window was closed, the adapter is NetworkManager's
\* again and no daemon is left, also when an earlier run died with the adapter taken;
\* unless nmcli or the write of the configuration failed (start, stop, graceful_shutdown).
THEOREM AdapterHandedBack == ProgramSpec => []HandedBack
  <1>1. Everything => HandedBack
    <2>. SUFFICES ASSUME Everything,
                         phase = "idle" \/ (phase = "off" /\ ended = "closed"),
                         took # {}, ~SomeStarted, mishaps \cap {"nmcli", "write"} = {}
                  PROVE  managed /\ (live = {} \/ Outlived)
      BY DEF HandedBack, SomeStarted
    <2>1. stage = "none" /\ ended # "SIGTERM"
      BY DEF Everything, Inv, Struct
    <2>2. managed
      BY <2>1 DEF Everything, WasInv
    <2>3. ~Outlived => \A d \in live : \E m \in Manager : Owns(m, d)
      BY <2>1 DEF Everything, LiveInv
    <2>4. \A m \in Manager, d \in live : ~Owns(m, d)
      BY <2>1 DEF Owns, SomeStarted
    <2>. QED
      BY <2>2, <2>3, <2>4
  <1>. QED
    BY <1>1, Always, PTL

-------------------------------------------------------------------------------
\* Record i comes before record j in the order of Sorted, and how many records of s do
\* not come after record i.
Before(s, i, j) == s[i] < s[j] \/ (s[i] = s[j] /\ i < j)
Rank(s, i) == Cardinality({j \in DOMAIN s : Before(s, j, i)}) + 1

\* The places of a list, and what is there.
LEMMA Listed ==
    ASSUME NEW s \in Seq(Stamp)
    PROVE  /\ DOMAIN s = 1 .. Len(s) /\ Len(s) \in Nat
           /\ \A k \in DOMAIN s : s[k] \in Stamp /\ s[k] \in Nat /\ k \in Nat
  <1>1. s \in [1 .. Len(s) -> Stamp] /\ DOMAIN s = 1 .. Len(s) /\ Len(s) \in Nat
    BY LenProperties
  <1>2. \A k \in 1 .. Len(s) : s[k] \in Stamp /\ k \in Nat
    BY <1>1
  <1>. QED
    BY <1>1, <1>2, ProgramAssumption

\* A record that comes before another has the smaller rank, and ranks are places.
LEMMA RankOrder ==
    ASSUME NEW s \in Seq(Stamp), NEW i \in DOMAIN s
    PROVE  /\ Rank(s, i) \in DOMAIN s
           /\ \A j \in DOMAIN s : Before(s, i, j) => Rank(s, i) < Rank(s, j)
  <1>1. /\ DOMAIN s = 1 .. Len(s) /\ Len(s) \in Nat
        /\ \A k \in DOMAIN s : s[k] \in Nat /\ k \in Nat
    BY ProgramAssumption, Listed
  <1>2. IsFiniteSet(DOMAIN s) /\ Cardinality(DOMAIN s) = Len(s)
    <2>1. IsFiniteSet(1 .. Len(s)) /\ Cardinality(1 .. Len(s)) = IF 1 > Len(s) THEN 0 ELSE Len(s) - 1 + 1
      BY <1>1, FS_Interval
    <2>. QED
      BY <1>1, <2>1
  <1>3. \A k \in DOMAIN s : ~Before(s, k, k)
    BY <1>1 DEF Before
  <1>4. \A k, l, m \in DOMAIN s : Before(s, k, l) /\ Before(s, l, m) => Before(s, k, m)
    BY <1>1 DEF Before
  <1>. DEFINE L(k) == {j \in DOMAIN s : Before(s, j, k)}
  <1>5. ASSUME NEW k \in DOMAIN s, NEW T \in SUBSET DOMAIN s, L(k) \subseteq T, k \in T
        PROVE  IsFiniteSet(T) /\ Cardinality(L(k)) \in Nat /\ Cardinality(L(k)) < Cardinality(T)
    <2>1. IsFiniteSet(T)
      BY <1>2, FS_Subset
    <2>2. L(k) \in SUBSET T /\ L(k) # T
      BY <1>3, <1>5
    <2>3. IsFiniteSet(L(k)) /\ Cardinality(L(k)) <= Cardinality(T) /\ Cardinality(L(k)) # Cardinality(T)
      BY <2>1, <2>2, FS_Subset, Zenon
    <2>4. Cardinality(L(k)) \in Nat /\ Cardinality(T) \in Nat
      BY <2>1, <2>3, FS_CardinalityType
    <2>. QED
      BY <2>1, <2>3, <2>4
  <1>6. Cardinality(L(i)) \in Nat /\ Cardinality(L(i)) < Len(s)
    BY <1>2, <1>5
  <1>7. ASSUME NEW j \in DOMAIN s, Before(s, i, j)
        PROVE  Cardinality(L(i)) < Cardinality(L(j)) /\ Cardinality(L(j)) \in Nat
    <2>1. L(j) \in SUBSET DOMAIN s /\ L(i) \subseteq L(j) /\ i \in L(j)
      BY <1>4, <1>7
    <2>2. Cardinality(L(i)) < Cardinality(L(j))
      BY <1>5, <2>1
    <2>3. Cardinality(L(j)) \in Nat
      BY <1>5
    <2>. QED
      BY <2>2, <2>3
  <1>8. \A k \in DOMAIN s : Rank(s, k) = Cardinality(L(k)) + 1
    BY DEF Rank
  <1>. HIDE DEF L
  <1>. QED
    BY <1>1, <1>6, <1>7, <1>8

\* Every place is the rank of one record.
LEMMA RankOnto ==
    ASSUME NEW s \in Seq(Stamp), NEW k \in DOMAIN s
    PROVE  \E i \in DOMAIN s : Rank(s, i) = k
  <1>1. /\ DOMAIN s = 1 .. Len(s) /\ Len(s) \in Nat
        /\ \A i \in DOMAIN s : s[i] \in Nat /\ i \in Nat
    BY ProgramAssumption, Listed
  <1>2. IsFiniteSet(DOMAIN s)
    BY <1>1, FS_Interval
  <1>3. \A i, j \in DOMAIN s : i # j => Before(s, i, j) \/ Before(s, j, i)
    BY <1>1 DEF Before
  <1>4. \A i \in DOMAIN s : Rank(s, i) \in DOMAIN s
    BY RankOrder
  <1>5. \A i, j \in DOMAIN s : Rank(s, i) = Rank(s, j) => i = j
    <2>. SUFFICES ASSUME NEW i \in DOMAIN s, NEW j \in DOMAIN s, i # j
                  PROVE  Rank(s, i) # Rank(s, j)
      OBVIOUS
    <2>1. Rank(s, i) \in Nat /\ Rank(s, j) \in Nat
      BY <1>1, <1>4
    <2>2. Rank(s, i) < Rank(s, j) \/ Rank(s, j) < Rank(s, i)
      BY <1>3, RankOrder
    <2>. QED
      BY <2>1, <2>2
  <1>. DEFINE f == [i \in DOMAIN s |-> Rank(s, i)]
  <1>6. f \in Injection(DOMAIN s, DOMAIN s)
    BY <1>4, <1>5 DEF Injection, IsInjective
  <1>7. f \in Surjection(DOMAIN s, DOMAIN s)
    <2>. HIDE DEF f
    <2>. QED
      BY <1>2, <1>6, FS_Injection
  <1>8. \E i \in DOMAIN s : f[i] = k
    BY <1>7 DEF Surjection
  <1>. QED
    BY <1>8

\* The sorted list has the records of the list, each at the place of its rank, and no
\* record is older than one before it.
LEMMA SortedList ==
    ASSUME NEW s \in Seq(Stamp)
    PROVE  /\ Sorted(s) \in Seq(Stamp) /\ Len(Sorted(s)) = Len(s)
           /\ \A i \in DOMAIN s : Sorted(s)[Rank(s, i)] = s[i]
           /\ \A k, l \in DOMAIN s : k <= l => Sorted(s)[k] <= Sorted(s)[l]
  <1>1. /\ DOMAIN s = 1 .. Len(s) /\ Len(s) \in Nat
        /\ \A i \in DOMAIN s : s[i] \in Stamp /\ s[i] \in Nat /\ i \in Nat
    BY ProgramAssumption, Listed
  <1>. DEFINE at(k) == CHOOSE i \in DOMAIN s : Rank(s, i) = k
  <1>2. Sorted(s) = [k \in DOMAIN s |-> s[at(k)]]
    BY DEF Sorted, Rank, Before
  <1>3. \A k \in DOMAIN s : at(k) \in DOMAIN s /\ Rank(s, at(k)) = k
    BY RankOnto
  <1>. HIDE DEF at
  <1>4. Sorted(s) \in Seq(Stamp) /\ Len(Sorted(s)) = Len(s)
    <2>1. \A k \in DOMAIN s : s[at(k)] \in Stamp
      BY <1>1, <1>3
    <2>. QED
      BY <1>1, <1>2, <2>1, IsASeq, LenProperties
  <1>5. ASSUME NEW i \in DOMAIN s
        PROVE  Sorted(s)[Rank(s, i)] = s[i]
    <2>1. Rank(s, i) \in DOMAIN s
      BY RankOrder
    <2>2. at(Rank(s, i)) = i
      <3>. DEFINE j == at(Rank(s, i))
      <3>1. j \in DOMAIN s /\ Rank(s, j) = Rank(s, i)
        BY <1>3, <2>1
      <3>2. Rank(s, i) \in Nat
        BY <1>1, <2>1
      <3>. HIDE DEF j
      <3>3. ~Before(s, i, j) /\ ~Before(s, j, i)
        BY <3>1, <3>2, RankOrder
      <3>4. j = i
        BY <1>1, <3>1, <3>3 DEF Before
      <3>. QED
        BY <3>4 DEF j
    <2>. QED
      BY <1>2, <2>1, <2>2
  <1>6. ASSUME NEW k \in DOMAIN s, NEW l \in DOMAIN s, k <= l
        PROVE  Sorted(s)[k] <= Sorted(s)[l]
    <2>1. /\ at(k) \in DOMAIN s /\ Rank(s, at(k)) = k
          /\ at(l) \in DOMAIN s /\ Rank(s, at(l)) = l
      BY <1>3
    <2>2. ~Before(s, at(l), at(k))
      BY <1>1, <1>6, <2>1, RankOrder
    <2>3. s[at(k)] <= s[at(l)]
      BY <1>1, <2>1, <2>2 DEF Before
    <2>. QED
      BY <1>2, <2>3
  <1>. QED
    BY <1>4, <1>5, <1>6

\* The capped list is no longer than the cap allows or than it was, and a record that is
\* not in it is not newer than any that is.
LEMMA CappedList ==
    ASSUME NEW s \in Seq(Stamp)
    PROVE  /\ Capped(s) \in Seq(Stamp)
           /\ Len(Capped(s)) <= MaxRecords
           /\ \A i \in DOMAIN s, k \in DOMAIN Capped(s) :
                 (\A l \in DOMAIN Capped(s) : Capped(s)[l] # s[i]) => s[i] <= Capped(s)[k]
           /\ \A k \in DOMAIN Capped(s) : \E i \in DOMAIN s : Capped(s)[k] = s[i]
  <1>1. /\ DOMAIN s = 1 .. Len(s) /\ Len(s) \in Nat /\ MaxRecords \in Nat /\ MaxRecords # 0
        /\ \A i \in DOMAIN s : s[i] \in Stamp /\ s[i] \in Nat /\ i \in Nat
    BY ProgramAssumption, Listed
  <1>2. CASE Len(s) <= MaxRecords
    BY <1>1, <1>2 DEF Capped
  <1>3. CASE Len(s) > MaxRecords
    <2>. DEFINE u == Sorted(s)
                d == Len(s) - MaxRecords
                c == SubSeq(u, d + 1, Len(s))
    <2>1. /\ u \in Seq(Stamp) /\ Len(u) = Len(s)
          /\ \A i \in DOMAIN s : u[Rank(s, i)] = s[i]
          /\ \A k, l \in DOMAIN s : k <= l => u[k] <= u[l]
      BY SortedList
    <2>2. \A i \in DOMAIN s : Rank(s, i) \in DOMAIN s
      BY RankOrder
    <2>3. Capped(s) = c
      BY <1>3 DEF Capped
    <2>. HIDE DEF u
    <2>4. d \in Nat /\ d >= 1 /\ d < Len(s) /\ Len(s) - d = MaxRecords
      BY <1>1, <1>3
    <2>5. \A k \in (d + 1) .. Len(s) : u[k] \in Stamp
      BY <1>1, <2>1, <2>4, ElementOfSeq
    <2>6. /\ c \in Seq(Stamp) /\ Len(c) = Len(s) - d
          /\ \A k \in 1 .. Len(s) - d : c[k] = u[k + d]
      <3>1. /\ c \in Seq(Stamp)
            /\ Len(c) = IF d + 1 <= Len(s) THEN Len(s) - (d + 1) + 1 ELSE 0
            /\ \A k \in 1 .. Len(s) - (d + 1) + 1 : c[k] = u[(d + 1) + k - 1]
        <4>. HIDE DEF d
        <4>. QED
          BY <1>1, <2>4, <2>5, SubSeqProperties
      <3>. HIDE DEF c, d
      <3>2. d + 1 <= Len(s) /\ Len(s) - (d + 1) + 1 = Len(s) - d
        BY <1>1, <2>4
      <3>3. \A k \in 1 .. Len(s) - d : (d + 1) + k - 1 = k + d
        BY <1>1, <2>4
      <3>. QED
        BY <3>1, <3>2, <3>3
    <2>. HIDE DEF c, d
    <2>7. DOMAIN c = 1 .. Len(s) - d
      BY <2>6, LenProperties
    <2>8. ASSUME NEW i \in DOMAIN s, NEW k \in DOMAIN c, \A l \in DOMAIN c : c[l] # s[i]
          PROVE  s[i] <= c[k]
      <3>. DEFINE r == Rank(s, i)
      <3>1. r \in DOMAIN s /\ u[r] = s[i]
        BY <2>1, <2>2
      <3>. HIDE DEF r
      <3>2. r <= d
        <4>1. r > d => r - d \in DOMAIN c /\ c[r - d] = u[r - d + d]
          BY <1>1, <2>4, <2>6, <2>7, <3>1
        <4>2. r - d + d = r
          BY <1>1, <2>4, <3>1
        <4>. QED
          BY <1>1, <2>4, <2>8, <3>1, <4>1, <4>2
      <3>3. k + d \in DOMAIN s /\ r <= k + d /\ c[k] = u[k + d]
        BY <1>1, <2>4, <2>6, <2>7, <3>1, <3>2
      <3>. QED
        BY <2>1, <3>1, <3>3
    <2>9. ASSUME NEW k \in DOMAIN c
          PROVE  \E i \in DOMAIN s : c[k] = s[i]
      <3>1. k + d \in DOMAIN s /\ c[k] = u[k + d]
        BY <1>1, <2>4, <2>6, <2>7
      <3>2. PICK i \in DOMAIN s : Rank(s, i) = k + d
        BY <3>1, RankOnto
      <3>. QED
        BY <2>1, <3>1, <3>2
    <2>. QED
      BY <1>1, <2>3, <2>4, <2>6, <2>8, <2>9
  <1>. QED
    BY <1>1, <1>2, <1>3

-------------------------------------------------------------------------------
\* What the files, the histories in memory and the counters may be.
ConfTypes == Config!FileTypeOK
HistTypes ==
    /\ History!FileTypeOK
    /\ \A m \in Manager : sessions[m] \in Records
    /\ prev \in Records
CountTypes ==
    /\ ahead \subseteq {"config", "history"} /\ edited \in BOOLEAN
    /\ ended \in {"not yet", "closed", "SIGTERM"}
    /\ runs \in 0 .. MaxActivations /\ acts \in 0 .. MaxActs

\* add_session appends a record to a list, and the list stays one.
LEMMA RecordAdded ==
    ASSUME FileInv, HistTypes, NEW m \in Manager, NEW t \in Stamp, AddSession(m, t)
    PROVE  /\ sessions' = [sessions EXCEPT ![m] = [list |-> Capped(Append(sessions[m].list, t))]]
           /\ Append(sessions[m].list, t) \in Seq(Stamp) /\ sessions[m].list \in Seq(Stamp)
           /\ sessions'[m].list = Capped(Append(sessions[m].list, t))
           /\ sessions'[m] \in Records
           /\ \A n \in Manager \ {m} : sessions'[n] = sessions[n]
  <1>1. sessions[m].list \in Seq(Stamp)
    BY DEF HistTypes, Records
  <1>2. Append(sessions[m].list, t) \in Seq(Stamp)
    BY <1>1
  <1>3. sessions' = [sessions EXCEPT ![m] = [list |-> Capped(Append(sessions[m].list, t))]]
    BY DEF AddSession
  <1>4. Capped(Append(sessions[m].list, t)) \in Seq(Stamp)
    BY <1>2, CappedList
  <1>5. DOMAIN sessions = Manager
    BY DEF FileInv
  <1>6. sessions'[m] = [list |-> Capped(Append(sessions[m].list, t))]
    BY <1>3, <1>5
  <1>7. \A n \in Manager \ {m} : sessions'[n] = sessions[n]
    BY <1>3, <1>5
  <1>. QED
    BY <1>1, <1>2, <1>3, <1>4, <1>6, <1>7 DEF Records

\* What a step of the program may do to the configuration's file, and to that of the
\* history.
ConfMove ==
    \/ UNCHANGED confVars
    \/ \E d \in Settings : Config!Begin(d)
    \/ Config!Create \/ Config!WriteAll \/ Config!Rename \/ Config!WriteFails
    \/ Config!WriterDies
    \/ \E d \in {Outside, Unusable} : Config!Edit(d)
HistMove ==
    \/ UNCHANGED histVars
    \/ \E d \in Records : History!Begin(d)
    \/ History!Create \/ History!WriteAll \/ History!Rename \/ History!WriteFails
    \/ History!WriterDies
    \/ History!Edit(Unusable)

\* The configuration's file changes only by the steps of JsonFile.
LEMMA ConfMoves ==
    ASSUME Inv, PortInv, [ProgramNext]_pvars
    PROVE  ConfMove
  <1>. USE DEF ConfMove
  <1>1. LoadConfig => ConfMove
    BY Documents DEF LoadConfig
  <1>2. ASSUME NEW m \in Manager, NEW v \in Value, Set(m, v)
        PROVE  ConfMove
    <2>1. conf'[m] \in Settings
      BY <1>2, Documents DEF Set, PortInv
    <2>. QED
      BY <1>2, <2>1 DEF Set
  <1>3. Writes \/ Saved \/ SaveFails \/ Dies \/ EditsFile => ConfMove
    BY DEF Writes, Saved, SaveFails, Dies, EditsFile
  <1>4. ASSUME NEW m \in Manager, NEW t, Clear(m) \/ SessionEnds(m, t) \/ RecordsLastSession(t)
        PROVE  UNCHANGED confVars
    BY <1>4 DEF Clear, SessionEnds, RecordsLastSession, AddSession
  <1>5. UsesSystemSupplicant \/ StartsDedicated \/ Starting \/ NothingToRecord \/ StopsSupplicant
           \/ LoadHistory \/ ClearFails \/ NextApp \/ Exit
           \/ Activate \/ Close \/ DaemonsAct \/ UNCHANGED pvars
         => UNCHANGED confVars
    BY DEF UsesSystemSupplicant, StartsDedicated, Starting, NothingToRecord, StopsSupplicant, Exit,
           LoadHistory, ClearFails, NextApp, Activate, Close, DaemonsAct, pvars
  <1>6. app \in Manager
    BY DEF Inv, Struct
  <1>. HIDE DEF ConfMove
  <1>7. UNCHANGED confVars => ConfMove
    BY DEF ConfMove
  <1>. QED
    BY <1>1, <1>2, <1>3, <1>4, <1>5, <1>6, <1>7 DEF ProgramNext, MainLoop, User

\* Every step keeps the types of the configuration's file.
LEMMA ConfTypesStep ==
    ASSUME Inv, PortInv, ConfTypes, [ProgramNext]_pvars
    PROVE  ConfTypes'
  <1>. USE DEF ConfTypes, Config!FileTypeOK, confVars
  <1>1. CASE UNCHANGED confVars
    BY <1>1
  <1>2. CASE \E d \in Settings : Config!Begin(d)
    BY <1>2 DEF Config!Begin
  <1>3. CASE Config!Create \/ Config!WriteAll \/ Config!WriteFails \/ Config!WriterDies
    BY <1>3, Documents
       DEF Config!Create, Config!WriteAll, Config!WriteFails, Config!WriterDies, Config!Idle
  <1>4. CASE Config!Rename
    BY <1>4 DEF Config!Rename, Config!Idle
  <1>5. CASE \E d \in {Outside, Unusable} : Config!Edit(d)
    BY <1>5, Documents DEF Config!Edit
  <1>. QED
    BY <1>1, <1>2, <1>3, <1>4, <1>5, ConfMoves DEF ConfMove

\* Every step keeps the types of the histories, in memory and in the file.
LEMMA HistTypesStep ==
    ASSUME Inv, FileInv, HistTypes, [ProgramNext]_pvars
    PROVE  HistTypes'
  <1>. USE DEF HistTypes, History!FileTypeOK, histVars
  <1>0. app \in Manager /\ NoRecords \in Records /\ DOMAIN sessions = Manager
    BY DEF Inv, Struct, FileInv, NoRecords, Records
  <1>1. CASE UNCHANGED <<histVars, sessions, prev>>
    BY <1>1
  <1>2. CASE UNCHANGED <<sessions, prev>> /\ (History!Create \/ History!WriteAll)
    BY <1>2 DEF History!Create, History!WriteAll, History!Idle
  <1>3. CASE sessions' = sessions /\ prev' \in Records /\ History!Rename
    BY <1>3 DEF History!Rename, History!Idle
  <1>4. CASE /\ \A m \in Manager : sessions'[m] \in Records
             /\ prev' \in Records
             /\ UNCHANGED histVars \/ History!WriteFails \/ History!WriterDies
    BY <1>4 DEF History!WriteFails, History!WriterDies, History!Idle
  <1>5. CASE /\ \A m \in Manager : sessions'[m] \in Records
             /\ prev' \in Records
             /\ \E d \in Records : History!Begin(d)
    BY <1>5 DEF History!Begin
  <1>6. ASSUME LoadHistory
        PROVE  /\ \A m \in Manager : sessions'[m] \in Records
               /\ prev' \in Records /\ UNCHANGED histVars
    BY <1>0, <1>6 DEF LoadHistory
  <1>7. ASSUME NEW m \in Manager, NEW t \in Stamp, AddSession(m, t)
        PROVE  HistTypes'
    <2>1. sessions'[m] \in Records /\ \A n \in Manager \ {m} : sessions'[n] = sessions[n]
      BY <1>7, RecordAdded
    <2>2. prev' = prev /\ History!Begin(sessions'[m])
      BY <1>7 DEF AddSession
    <2>. QED
      BY <1>5, <2>1, <2>2
  <1>8. ASSUME NEW m \in Manager, Clear(m)
        PROVE  HistTypes'
    <2>1. /\ \A n \in Manager : sessions'[n] \in Records
          /\ prev' \in Records /\ History!Begin(NoRecords)
      BY <1>0, <1>8 DEF Clear
    <2>. QED
      BY <1>0, <1>5, <2>1
  <1>9. Saved => \/ UNCHANGED <<histVars, sessions>> /\ prev' = NoRecords
                 \/ sessions' = sessions /\ prev' = NoRecords /\ History!Rename
    BY DEF Saved
  <1>10. SaveFails => UNCHANGED <<sessions, prev>> /\ (UNCHANGED histVars \/ History!WriteFails)
    BY DEF SaveFails
  <1>11. ClearFails => /\ \A m \in Manager : sessions'[m] \in Records
                       /\ prev' \in Records /\ History!WriteFails
    BY <1>0 DEF ClearFails
  <1>12. Exit \/ Dies => /\ \A m \in Manager : sessions'[m] \in Records
                         /\ prev' \in Records
                         /\ UNCHANGED histVars \/ History!WriterDies
    BY <1>0 DEF Exit, Dies, NoMemory
  <1>13. CASE EditsFile
    BY <1>13 DEF EditsFile, History!Edit, memoryVars
  <1>14. Writes => /\ UNCHANGED <<sessions, prev>>
                   /\ UNCHANGED histVars \/ History!Create \/ History!WriteAll
    BY DEF Writes, memoryVars
  <1>15. ASSUME NEW m \in Manager, NEW v \in Value, Set(m, v)
         PROVE  UNCHANGED <<histVars, sessions, prev>>
    BY <1>15 DEF Set
  <1>16. UsesSystemSupplicant \/ StartsDedicated \/ Starting \/ NothingToRecord \/ StopsSupplicant
           \/ LoadConfig \/ NextApp \/ Activate \/ Close \/ DaemonsAct \/ UNCHANGED pvars
         => UNCHANGED <<histVars, sessions, prev>>
    BY DEF UsesSystemSupplicant, StartsDedicated, Starting, NothingToRecord, StopsSupplicant,
           LoadConfig, NextApp, Activate, Close, DaemonsAct, pvars, memoryVars
  <1>17. /\ \A t \in Stamp : RecordsLastSession(t) => AddSession(app, t)
         /\ \A m \in Manager : \A t \in Stamp : SessionEnds(m, t) => AddSession(m, t)
    BY DEF RecordsLastSession, SessionEnds
  <1>18. Saved \/ SaveFails \/ ClearFails \/ Exit \/ Dies \/ LoadHistory \/ Writes => HistTypes'
    <2>1. Saved => HistTypes'
      BY <1>0, <1>3, <1>4, <1>9
    <2>2. SaveFails \/ ClearFails \/ Exit \/ Dies \/ LoadHistory => HistTypes'
      BY <1>4, <1>6, <1>10, <1>11, <1>12
    <2>3. Writes => HistTypes'
      BY <1>1, <1>2, <1>14
    <2>. QED
      BY <2>1, <2>2, <2>3
  <1>. QED
    BY <1>0, <1>1, <1>7, <1>8, <1>13, <1>15, <1>16, <1>17, <1>18
       DEF ProgramNext, MainLoop, User

\* A counter below its bound may count one more.
LEMMA OneMore ==
    /\ \A n \in 0 .. MaxActivations : n < MaxActivations => n + 1 \in 0 .. MaxActivations
    /\ \A n \in 0 .. MaxActs : n < MaxActs => n + 1 \in 0 .. MaxActs
    /\ 0 \in 0 .. MaxActivations /\ 0 \in 0 .. MaxActs
  <1>1. MaxActivations \in Nat /\ MaxActs \in Nat
    BY ProgramAssumption
  <1>. QED
    BY <1>1

\* Every step keeps the types of the counters and the marks.
LEMMA CountTypesStep ==
    ASSUME CountTypes, [ProgramNext]_pvars
    PROVE  CountTypes'
  <1>0. /\ runs < MaxActivations => runs + 1 \in 0 .. MaxActivations
        /\ acts < MaxActs => acts + 1 \in 0 .. MaxActs
    <2>1. runs \in 0 .. MaxActivations /\ acts \in 0 .. MaxActs
      BY DEF CountTypes
    <2>. QED
      BY <2>1, OneMore
  <1>. USE DEF CountTypes, countVars, memoryVars, NoMemory, Ahead
  <1>1. CASE LoadConfig \/ LoadHistory \/ UsesSystemSupplicant \/ StartsDedicated \/ Starting
    BY <1>1 DEF LoadConfig, LoadHistory, UsesSystemSupplicant, StartsDedicated, Starting
  <1>2. CASE Writes \/ Saved \/ SaveFails \/ ClearFails
    BY <1>2 DEF Writes, Saved, SaveFails, ClearFails
  <1>3. CASE NothingToRecord \/ StopsSupplicant \/ NextApp \/ Exit \/ Close \/ Dies \/ DaemonsAct
    BY <1>3 DEF NothingToRecord, StopsSupplicant, NextApp, Exit, Close, Dies, DaemonsAct
  <1>4. ASSUME NEW m, NEW t, AddSession(m, t)
        PROVE  CountTypes'
    BY <1>0, <1>4 DEF AddSession
  <1>5. CASE Activate
    BY <1>0, <1>5 DEF Activate
  <1>6. ASSUME NEW m \in Manager, NEW v \in Value, Clear(m) \/ Set(m, v)
        PROVE  CountTypes'
    BY <1>0, <1>6 DEF Clear, Set
  <1>7. CASE EditsFile
    BY <1>0, <1>7 DEF EditsFile
  <1>8. CASE UNCHANGED pvars
    BY <1>8 DEF pvars
  <1>9. /\ \A t \in Stamp : RecordsLastSession(t) => AddSession(app, t)
        /\ \A m \in Manager : \A t \in Stamp : SessionEnds(m, t) => AddSession(m, t)
    BY DEF RecordsLastSession, SessionEnds
  <1>10. "default" \in Value
    BY DEF Value
  <1>. QED
    BY <1>1, <1>2, <1>3, <1>4, <1>5, <1>6, <1>7, <1>8, <1>9, <1>10 DEF ProgramNext, MainLoop, User

\* The program is always in all of them.
LEMMA AlwaysTyped == ProgramSpec => [](Everything /\ ConfTypes /\ HistTypes /\ CountTypes)
  <1>. DEFINE All == Everything /\ ConfTypes /\ HistTypes /\ CountTypes
  <1>1. ProgramInit => All
    <2>. SUFFICES ASSUME ProgramInit
                  PROVE  All
      OBVIOUS
    <2>1. Everything
      BY InitKeeps
    <2>2. ConfTypes
      BY DEF ProgramInit, Config!FileInit, ConfTypes, Config!FileTypeOK
    <2>3. HistTypes
      <3>1. \A t \in Stamp : [list |-> <<t>>] \in Records
        BY DEF Records
      <3>2. NoRecords \in Records
        BY DEF NoRecords, Records
      <3>3. \A m \in Manager : sessions[m] \in Records
        BY <3>2 DEF ProgramInit
      <3>4. History!FileTypeOK
        BY <3>1 DEF ProgramInit, History!FileInit, History!FileTypeOK
      <3>. QED
        BY <3>2, <3>3, <3>4 DEF ProgramInit, HistTypes
    <2>4. CountTypes
      BY OneMore DEF ProgramInit, CountTypes
    <2>. QED
      BY <2>1, <2>2, <2>3, <2>4
  <1>2. All /\ [ProgramNext]_pvars => All'
    BY StepKeeps, ConfTypesStep, HistTypesStep, CountTypesStep DEF Everything
  <1>. QED
    BY <1>1, <1>2, PTL DEF ProgramSpec

\* All of the program's state keeps its type: no file, history or setting is ever
\* anything but a document, a spoiled file or a part of a write, and no App works on
\* a list that is none, however saves, failures, crashes and edits follow each other.
THEOREM ProgramTypeCorrect == ProgramSpec => []ProgramTypeOK
  <1>1. Everything /\ ConfTypes /\ HistTypes /\ CountTypes => ProgramTypeOK
    BY DEF Everything, Inv, Struct, PortInv, ConfTypes, HistTypes, CountTypes, ProgramTypeOK
  <1>. QED
    BY <1>1, AlwaysTyped, PTL

\* Only add_session writes a record.
LEMMA WhoRecords ==
    ASSUME Inv, [ProgramNext]_pvars, phase' \in {"adding", "last record"}, acts' # acts
    PROVE  \E m \in Manager, t \in Stamp : AddSession(m, t)
  <1>1. app \in Manager
    BY DEF Inv, Struct
  <1>2. UNCHANGED acts \/ Activate \/ EditsFile \/ (\E m \in Manager, v \in Value : Set(m, v))
          \/ \E m \in Manager, t \in Stamp : AddSession(m, t)
    BY <1>1 DEF ProgramNext, MainLoop, User, pvars, countVars, LoadConfig, LoadHistory, UsesSystemSupplicant,
           StartsDedicated, Starting, Writes, Saved, SaveFails, ClearFails, RecordsLastSession,
           NothingToRecord, StopsSupplicant, NextApp, Exit, Close, Clear, SessionEnds, Dies, DaemonsAct
  <1>3. ~Activate /\ ~EditsFile /\ ~\E m \in Manager, v \in Value : Set(m, v)
    BY DEF Activate, EditsFile, Set
  <1>. QED
    BY <1>2, <1>3

\* A record that the cap drops is not newer than any that stays, whatever the clock did
\* between the sessions: the list is sorted before its beginning is cut (add_session).
THEOREM CapDropsOldest == ProgramSpec => OnlyOldestDropped
  <1>. DEFINE Kept(m) ==
                 LET was == {sessions[m].list[i] : i \in DOMAIN sessions[m].list}
                     is == {sessions'[m].list[i] : i \in DOMAIN sessions'[m].list}
                 IN  \A r \in was \ is, s \in is : r <= s
  <1>1. ASSUME Everything, HistTypes, [ProgramNext]_pvars, NEW m \in Manager,
               phase' \in {"adding", "last record"}, acts' # acts
        PROVE  Kept(m)
    <2>1. PICK n \in Manager, t \in Stamp : AddSession(n, t)
      BY <1>1, WhoRecords DEF Everything
    <2>2. CASE m # n
      <3>1. sessions'[m] = sessions[m]
        BY <1>1, <2>1, <2>2, RecordAdded DEF Everything
      <3>. QED
        BY <3>1
    <2>3. CASE m = n
      <3>. DEFINE a == Append(sessions[m].list, t)
                  c == Capped(a)
      <3>1. a \in Seq(Stamp) /\ sessions[m].list \in Seq(Stamp) /\ sessions'[m].list = c
        BY <1>1, <2>1, <2>3, RecordAdded DEF Everything
      <3>2. \A i \in DOMAIN sessions[m].list : i \in DOMAIN a /\ a[i] = sessions[m].list[i]
        BY <3>1
      <3>3. \A i \in DOMAIN a, k \in DOMAIN c :
                 (\A l \in DOMAIN c : c[l] # a[i]) => a[i] <= c[k]
        <4>. HIDE DEF a
        <4>. QED
          BY <3>1, CappedList
      <3>. HIDE DEF a, c
      <3>. QED
        BY <3>1, <3>2, <3>3
    <2>. QED
      BY <2>2, <2>3
  <1>2. ASSUME Everything, HistTypes, [ProgramNext]_pvars
        PROVE  \A m \in Manager : phase' \in {"adding", "last record"} /\ acts' # acts => Kept(m)
    BY <1>1, <1>2
  <1>. QED
    BY <1>2, AlwaysTyped, PTL DEF ProgramSpec, OnlyOldestDropped

-------------------------------------------------------------------------------
\* So does the history's.
LEMMA HistMoves ==
    ASSUME Inv, FileInv, HistTypes, [ProgramNext]_pvars
    PROVE  HistMove
  <1>. USE DEF HistMove
  <1>1. ASSUME NEW m \in Manager, NEW t \in Stamp, AddSession(m, t)
        PROVE  HistMove
    <2>1. sessions'[m] \in Records
      BY <1>1, RecordAdded
    <2>. QED
      BY <1>1, <2>1 DEF AddSession
  <1>2. ASSUME NEW m \in Manager, Clear(m)
        PROVE  HistMove
    <2>1. NoRecords \in Records
      BY DEF NoRecords, Records
    <2>. QED
      BY <1>2, <2>1 DEF Clear
  <1>3. Writes \/ Saved \/ SaveFails \/ ClearFails \/ Dies \/ EditsFile => HistMove
    BY DEF Writes, Saved, SaveFails, ClearFails, Dies, EditsFile
  <1>4. ASSUME NEW m \in Manager, NEW v \in Value, Set(m, v)
        PROVE  UNCHANGED histVars
    BY <1>4 DEF Set
  <1>5. UsesSystemSupplicant \/ StartsDedicated \/ Starting \/ NothingToRecord \/ StopsSupplicant
           \/ LoadConfig \/ LoadHistory \/ NextApp \/ Exit
           \/ Activate \/ Close \/ DaemonsAct \/ UNCHANGED pvars
         => UNCHANGED histVars
    BY DEF UsesSystemSupplicant, StartsDedicated, Starting, NothingToRecord, StopsSupplicant, Exit,
           LoadConfig, LoadHistory, NextApp, Activate, Close, DaemonsAct, pvars
  <1>6. /\ \A t \in Stamp : RecordsLastSession(t) => AddSession(app, t)
        /\ \A m \in Manager : \A t \in Stamp : SessionEnds(m, t) => AddSession(m, t)
        /\ app \in Manager
    BY DEF RecordsLastSession, SessionEnds, Inv, Struct
  <1>. HIDE DEF HistMove
  <1>7. UNCHANGED histVars => HistMove
    BY DEF HistMove
  <1>. QED
    BY <1>1, <1>2, <1>3, <1>4, <1>5, <1>6, <1>7 DEF ProgramNext, MainLoop, User

\* A document is asked for exactly while a write is under way.
LEMMA AskedFor ==
    ASSUME FileInv, ConfTypes, HistTypes
    PROVE  /\ confJob = Config!Idle \/ confJob.doc \in Settings
           /\ histJob = History!Idle \/ histJob.doc \in Records
           /\ confJob = Config!Idle <=> confJob.doc = Config!Missing
           /\ histJob = History!Idle <=> histJob.doc = History!Missing
           /\ confJob.at = "rename" => confJob.doc \in Settings
           /\ histJob.at = "rename" => histJob.doc \in Records
  <1>1. confJob = Config!Idle \/ confJob.doc \in Settings
    BY DEF ConfTypes, Config!FileTypeOK
  <1>2. histJob = History!Idle \/ histJob.doc \in Records
    BY DEF HistTypes, History!FileTypeOK
  <1>3. History!Missing \notin Records
    BY DEF History!Missing, Records
  <1>. QED
    BY <1>1, <1>2, <1>3, Documents DEF Config!Idle, History!Idle

\* A step of the write of a file is a step of what SavedFile promises, or none.
LEMMA ConfSaved ==
    ASSUME FileInv, ConfTypes, HistTypes, ConfMove
    PROVE  [ConfigFile!Next]_(ConfigFile!savedVars)
  <1>. USE DEF ConfigFile!savedVars
  <1>1. CASE UNCHANGED confVars
    BY <1>1 DEF confVars
  <1>2. CASE \E d \in Settings : Config!Begin(d)
    BY <1>2 DEF Config!Begin, Config!Idle, ConfigFile!Next, ConfigFile!Ask
  <1>3. CASE Config!Create \/ Config!WriteAll
    BY <1>3 DEF FileInv, Config!Create, Config!WriteAll
  <1>4. CASE Config!Rename
    BY <1>4, AskedFor DEF Config!Rename, Config!Idle, ConfigFile!Next, ConfigFile!Done
  <1>5. CASE Config!WriteFails \/ Config!WriterDies
    BY <1>5, AskedFor
       DEF Config!WriteFails, Config!WriterDies, Config!Idle, ConfigFile!Next, ConfigFile!GiveUp
  <1>6. CASE \E d \in {Outside, Unusable} : Config!Edit(d)
    BY <1>6 DEF Config!Edit, Config!Idle, ConfigFile!Next, ConfigFile!Replace
  <1>. QED
    BY <1>1, <1>2, <1>3, <1>4, <1>5, <1>6 DEF ConfMove

LEMMA HistSaved ==
    ASSUME FileInv, ConfTypes, HistTypes, HistMove
    PROVE  [HistoryFile!Next]_(HistoryFile!savedVars)
  <1>. USE DEF HistoryFile!savedVars
  <1>1. CASE UNCHANGED histVars
    BY <1>1 DEF histVars
  <1>2. CASE \E d \in Records : History!Begin(d)
    BY <1>2 DEF History!Begin, History!Idle, HistoryFile!Next, HistoryFile!Ask
  <1>3. CASE History!Create \/ History!WriteAll
    BY <1>3 DEF FileInv, History!Create, History!WriteAll
  <1>4. CASE History!Rename
    BY <1>4, AskedFor DEF History!Rename, History!Idle, HistoryFile!Next, HistoryFile!Done
  <1>5. CASE History!WriteFails \/ History!WriterDies
    BY <1>5, AskedFor
       DEF History!WriteFails, History!WriterDies, History!Idle, HistoryFile!Next, HistoryFile!GiveUp
  <1>6. CASE History!Edit(Unusable)
    BY <1>6 DEF History!Edit, History!Idle, HistoryFile!Next, HistoryFile!Replace
  <1>. QED
    BY <1>1, <1>2, <1>3, <1>4, <1>5, <1>6 DEF HistMove

\* Both files are saved as SavedFile promises: whatever step of a write fails, and
\* whenever the process dies, a file is replaced as a whole by the document that was asked
\* for last, or stays as it was (write_json_0600, set, add_session, clear).
THEOREM FilesAreSavedAtomically == ProgramSpec => SavesAreAtomic
  <1>1. ProgramInit => ConfigFile!Init /\ HistoryFile!Init
    BY DEF ProgramInit, Config!FileInit, History!FileInit, Config!Idle, History!Idle,
           ConfigFile!Init, HistoryFile!Init
  <1>2. ASSUME Everything, ConfTypes, HistTypes, [ProgramNext]_pvars
        PROVE  /\ [ConfigFile!Next]_(ConfigFile!savedVars)
               /\ [HistoryFile!Next]_(HistoryFile!savedVars)
    BY <1>2, ConfMoves, HistMoves, ConfSaved, HistSaved DEF Everything
  <1>. QED
    BY <1>1, <1>2, AlwaysTyped, PTL
       DEF ProgramSpec, SavesAreAtomic, ConfigFile!Spec, HistoryFile!Spec
==========================================================================
