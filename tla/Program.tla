-------------------------------- MODULE Program --------------------------------
(***************************************************************************)
(* One installation of the GUI program over several runs: what activate,   *)
(* the settings and session views and graceful_shutdown of ui/app.rs do    *)
(* with the configuration file, the history file and the dedicated         *)
(* wpa_supplicant, and what a run that dies leaves for the next one.       *)
(*                                                                         *)
(* The application is unique: a second launch activates the process that   *)
(* runs already, which makes a second App beside the first, with           *)
(* managers of its own.  All steps are the main loop's; the environment    *)
(* may let daemons end, edit the files, and kill the process at any moment.*)
(***************************************************************************)
EXTENDS P2pSupplicant, Sequences

CONSTANTS MaxRecords,    \* MAX_RECORDS: how many records the history keeps
          MaxActivations,\* bound: how often the program is activated
          MaxActs,       \* bound: how many records, settings and edits there are
          Stamp          \* the times a record may carry

ASSUME ProgramAssumption ==
    /\ MaxRecords \in Nat \ {0}
    /\ MaxActivations \in Nat /\ MaxActs \in Nat
    /\ Stamp # {} /\ Stamp \subseteq Nat

VARIABLES
    phase,     \* what the main loop is doing
    app,       \* the App it works for
    apps,      \* how many Apps this process has
    conf,      \* per App: ServerConfig.config
    sessions,  \* per App: ServerSessionHistory.sessions
    prev,      \* clear's `previous`
    ahead,     \* history: while there is one App, the files whose last save or load failed
    took,      \* history: the Apps of this run that started a manager
    ended,     \* history: how the last run ended
    edited,    \* history: did somebody edit the configuration?
    runs, acts, \* the counters behind the bounds
    confDisk, confTmp, confJob, histDisk, histTmp, histJob

memoryVars == <<conf, sessions, prev, ahead>>
countVars == <<runs, acts, edited>>
confVars == <<confDisk, confTmp, confJob>>
histVars == <<histDisk, histTmp, histJob>>
pvars == <<supplicantVars, phase, app, apps, memoryVars, took, ended, countVars,
           confVars, histVars>>

\* A setting that a rule bounds stands for the configuration.
Value == {"default", "chosen", "outside"}
Settings == [port : Value]
DefaultConfig == [port |-> "default"]
Outside == [port |-> "outside"]

\* A record is told from others by its timestamp.
Records == [list : Seq(Stamp)]
NoRecords == [list |-> <<>>]

\* What the program cannot use: no JSON, no object, or no array.
Unusable == [file |-> "unusable"]

Config == INSTANCE JsonFile WITH Doc <- Settings, Spoiled <- {Unusable},
                                 disk <- confDisk, tmp <- confTmp, job <- confJob
History == INSTANCE JsonFile WITH Doc <- Records, Spoiled <- {Unusable},
                                  disk <- histDisk, tmp <- histTmp, job <- histJob

\* The phases in which a file is written, and the one that follows.
ConfigSave == {"defaults", "setting"}
HistorySave == {"adding", "clearing", "last record"}
After(p) ==
    CASE p = "defaults" -> "history"
      [] p = "last record" -> "stopping"
      [] OTHER -> "idle"
Phase == {"off", "loading", "history", "choosing", "starting", "idle", "closing", "stopping"}
         \cup ConfigSave \cup HistorySave

\* The types of the program's state.
ProgramTypeOK ==
    /\ PTypeOK
    /\ Config!FileTypeOK /\ History!FileTypeOK
    /\ phase \in Phase /\ app \in Manager /\ apps \in 0 .. MaxManagers
    /\ conf \in [Manager -> Settings]
    /\ \A m \in Manager : sessions[m] \in Records
    /\ prev \in Records
    /\ ahead \subseteq {"config", "history"}
    /\ took \subseteq Manager /\ edited \in BOOLEAN
    /\ ended \in {"not yet", "closed", "SIGTERM"}
    /\ runs \in 0 .. MaxActivations /\ acts \in 0 .. MaxActs

NoMemory ==
    /\ conf' = [m \in Manager |-> DefaultConfig]
    /\ sessions' = [m \in Manager |-> NoRecords] /\ prev' = NoRecords
    /\ ahead' = {}

ProgramInit ==
    /\ PInit /\ Config!FileInit({})
    /\ History!FileInit({[list |-> <<t>>] : t \in Stamp})
    /\ phase = "off" /\ app = 1 /\ apps = 0
    /\ conf = [m \in Manager |-> DefaultConfig]
    /\ sessions = [m \in Manager |-> NoRecords] /\ prev = NoRecords
    /\ ahead = {}
    /\ took = {} /\ ended = "closed" /\ edited = FALSE
    /\ runs = 0 /\ acts = 0

Ahead(files) == ahead' = IF apps = 1 THEN files ELSE {}

-----------------------------------------------------------------------------
(* activate *)

\* The program is launched, or launched again while it runs.
Activate ==
    /\ phase \in {"off", "idle"}
    /\ runs < MaxActivations /\ apps < MaxManagers
    /\ runs' = runs + 1 /\ apps' = apps + 1 /\ app' = apps'
    /\ phase' = "loading" /\ ended' = "not yet"
    /\ IF phase = "off" THEN SupplicantReborn /\ took' = {}
                        ELSE UNCHANGED <<supplicantVars, took>>
    /\ ahead' = {}
    /\ UNCHANGED <<conf, sessions, prev, acts, edited, confVars, histVars>>

\* Mutation of LoadConfig: whatever the file holds is taken.
LoadConfigAnyJson ==
    /\ phase = "loading"
    /\ conf' = [conf EXCEPT ![app] = confDisk] /\ phase' = "history"
    /\ UNCHANGED <<supplicantVars, app, apps, sessions, prev, ahead, took, ended,
                   countVars, confVars, histVars>>

\* load_config: a file that is missing, unreadable, malformed or not an object is
\* replaced by the defaults.
LoadConfig ==
    /\ phase = "loading"
    /\ \/ /\ confDisk \in Settings
          /\ conf' = [conf EXCEPT ![app] = confDisk] /\ phase' = "history"
          /\ UNCHANGED <<mishaps, confVars>>
       \/ /\ Mark(IF confDisk \in Settings THEN {"file"} ELSE {})
          /\ conf' = [conf EXCEPT ![app] = DefaultConfig] /\ phase' = "defaults"
          /\ Config!Begin(DefaultConfig)
    /\ UNCHANGED <<managerVars, app, apps, sessions, prev, ahead, took, ended,
                   countVars, histVars>>

\* load_history: a file that is unreadable, malformed or not an array counts as an
\* empty history, and stays.
LoadHistory ==
    /\ phase = "history"
    /\ \/ /\ histDisk \in Records
          /\ sessions' = [sessions EXCEPT ![app] = histDisk]
          /\ UNCHANGED <<ahead, mishaps>>
       \/ /\ Mark(IF histDisk \in Records THEN {"file"} ELSE {})
          /\ sessions' = [sessions EXCEPT ![app] = NoRecords]
          /\ Ahead(ahead \cup {"history"})
    /\ phase' = "choosing"
    /\ UNCHANGED <<managerVars, app, apps, conf, prev, took, ended, countVars,
                   confVars, histVars>>

\* There is no adapter to spare, or the D-Bus backend is selected; or a dedicated
\* wpa_supplicant is started.
UsesSystemSupplicant ==
    /\ phase = "choosing"
    /\ phase' = "idle"
    /\ UNCHANGED <<supplicantVars, app, apps, memoryVars, took, ended, countVars,
                   confVars, histVars>>

StartsDedicated ==
    /\ phase = "choosing"
    /\ Start(app) /\ took' = took \cup {app}
    /\ phase' = "starting"
    /\ UNCHANGED <<app, apps, memoryVars, ended, countVars, confVars, histVars>>

\* A step of start; when start returns, with a daemon or without, activate goes on.
Starting ==
    /\ phase = "starting"
    /\ SupplicantStep(app)
    /\ phase' = IF stage' = "none" THEN "idle" ELSE "starting"
    /\ UNCHANGED <<app, apps, memoryVars, took, ended, countVars, confVars, histVars>>

-----------------------------------------------------------------------------
(* The settings, and the history. *)

\* Mutation of Validated: no rule is looked at.
ValidatedNever(v) == v \in Value

\* validate: a value outside the bounds of the rule is refused.
Validated(v) == v \in {"default", "chosen"}

\* set: the value is kept in memory, and the whole document is written.
Set(m, v) ==
    /\ phase = "idle" /\ m \in 1 .. apps /\ acts < MaxActs
    /\ Validated(v)
    /\ conf' = [conf EXCEPT ![m] = [port |-> v]]
    /\ Config!Begin(conf'[m])
    /\ app' = m /\ acts' = acts + 1 /\ phase' = "setting"
    /\ UNCHANGED <<supplicantVars, apps, sessions, prev, ahead, took, ended, runs,
                   edited, histVars>>

\* The list in the order of the timestamps; records of one time keep their order.
Sorted(s) ==
    LET before(i, j) == s[i] < s[j] \/ (s[i] = s[j] /\ i < j)
        rank(i) == Cardinality({j \in DOMAIN s : before(j, i)}) + 1
    IN  [k \in DOMAIN s |-> s[CHOOSE i \in DOMAIN s : rank(i) = k]]

\* Mutation of Capped: the list is cut without sorting it first.
CappedUnsorted(s) ==
    IF Len(s) > MaxRecords THEN SubSeq(s, Len(s) - MaxRecords + 1, Len(s)) ELSE s

\* The cap: past MaxRecords the list is sorted, and its beginning dropped.
Capped(s) ==
    IF Len(s) > MaxRecords
    THEN SubSeq(Sorted(s), Len(s) - MaxRecords + 1, Len(s))
    ELSE s

\* add_session: the clock may have been set back since the last record.
AddSession(m, t) ==
    /\ acts < MaxActs /\ acts' = acts + 1
    /\ sessions' = [sessions EXCEPT
           ![m] = [list |-> Capped(Append(@.list, t))]]
    /\ History!Begin(sessions'[m])
    /\ UNCHANGED <<supplicantVars, apps, conf, prev, ahead, took, ended, runs,
                   edited, confVars>>

\* A session of App m ends while the program runs.
SessionEnds(m, t) ==
    /\ phase = "idle" /\ m \in 1 .. apps
    /\ AddSession(m, t)
    /\ app' = m /\ phase' = "adding"

\* clear empties the list, and remembers it in case the write fails.
Clear(m) ==
    /\ phase = "idle" /\ m \in 1 .. apps /\ sessions[m] # NoRecords
    /\ prev' = sessions[m]
    /\ sessions' = [sessions EXCEPT ![m] = NoRecords]
    /\ History!Begin(NoRecords)
    /\ app' = m /\ phase' = "clearing"
    /\ UNCHANGED <<supplicantVars, apps, conf, ahead, took, ended, countVars, confVars>>

\* The steps of a write.
Writes ==
    /\ \/ (Config!Create \/ Config!WriteAll) /\ UNCHANGED histVars
       \/ (History!Create \/ History!WriteAll) /\ UNCHANGED confVars
    /\ UNCHANGED <<supplicantVars, phase, app, apps, memoryVars, took, ended, countVars>>

Saved ==
    /\ \/ /\ Config!Rename /\ UNCHANGED histVars
          /\ Ahead(ahead \ {"config"})
       \/ /\ History!Rename /\ UNCHANGED confVars
          /\ Ahead(ahead \ {"history"})
    /\ phase' = After(phase)
    /\ prev' = NoRecords
    /\ UNCHANGED <<supplicantVars, app, apps, conf, sessions, took, ended, countVars>>

\* A configuration or a record that cannot be saved is kept in memory.
SaveFails ==
    /\ phase # "clearing" /\ Mark({"file"})
    /\ \/ /\ Config!WriteFails /\ UNCHANGED histVars
          /\ Ahead(ahead \cup {"config"})
       \/ /\ History!WriteFails /\ UNCHANGED confVars
          /\ Ahead(ahead \cup {"history"})
    /\ phase' = After(phase)
    /\ UNCHANGED <<managerVars, app, apps, conf, sessions, prev, took, ended, countVars>>

\* Mutation of ClearFails: the list is not put back.
ClearFailsEmpty ==
    /\ phase = "clearing" /\ Mark({"file"})
    /\ History!WriteFails
    /\ prev' = NoRecords /\ phase' = "idle"
    /\ UNCHANGED <<managerVars, app, apps, conf, sessions, ahead, took, ended, countVars,
                   confVars>>

\* A history that cannot be cleared is put back.
ClearFails ==
    /\ phase = "clearing" /\ Mark({"file"})
    /\ History!WriteFails
    /\ sessions' = [sessions EXCEPT ![app] = prev]
    /\ prev' = NoRecords /\ phase' = "idle"
    /\ UNCHANGED <<managerVars, app, apps, conf, ahead, took, ended, countVars, confVars>>

-----------------------------------------------------------------------------
(* graceful_shutdown, of one App after the other. *)

Close ==
    /\ phase = "idle"
    /\ phase' = "closing" /\ app' = 1
    /\ UNCHANGED <<supplicantVars, apps, memoryVars, took, ended, countVars, confVars, histVars>>

\* A session that is still on is recorded first.
RecordsLastSession(t) ==
    /\ phase = "closing"
    /\ AddSession(app, t)
    /\ phase' = "last record" /\ UNCHANGED app

NothingToRecord ==
    /\ phase = "closing"
    /\ phase' = "stopping"
    /\ UNCHANGED <<supplicantVars, app, apps, memoryVars, took, ended, countVars, confVars,
                   histVars>>

\* The manager that activate kept, if any, is stopped.
StopsSupplicant ==
    /\ phase = "stopping"
    /\ Stop(app) \/ (stage # "none" /\ SupplicantStep(app))
    /\ UNCHANGED <<phase, app, apps, memoryVars, took, ended, countVars, confVars, histVars>>

NextApp ==
    /\ phase = "stopping" /\ stage = "none" /\ ~NeedsStop(app) /\ app < apps
    /\ app' = app + 1 /\ phase' = "closing"
    /\ UNCHANGED <<supplicantVars, apps, memoryVars, took, ended, countVars, confVars, histVars>>

Exit ==
    /\ phase = "stopping" /\ stage = "none" /\ ~NeedsStop(app) /\ app = apps
    /\ phase' = "off" /\ ended' = "closed" /\ app' = 1 /\ apps' = 0
    /\ NoMemory
    /\ UNCHANGED <<supplicantVars, took, countVars, confVars, histVars>>

MainLoop ==
    \/ LoadConfig \/ LoadHistory \/ UsesSystemSupplicant \/ StartsDedicated \/ Starting
    \/ Writes \/ Saved \/ SaveFails \/ ClearFails
    \/ \E t \in Stamp : RecordsLastSession(t)
    \/ NothingToRecord \/ StopsSupplicant \/ NextApp \/ Exit

-----------------------------------------------------------------------------
(* The user and the environment. *)

User ==
    \/ Activate \/ Close
    \/ \E m \in Manager :
          \/ Clear(m)
          \/ \E t \in Stamp : SessionEnds(m, t)
          \/ \E v \in Value : Set(m, v)

\* The process ends without graceful_shutdown.  The GUI installs no handler for
\* SIGTERM and SIGINT, so they end it, as SIGKILL or a panic would.
Dies ==
    /\ phase # "off"
    /\ phase' = "off" /\ ended' = "SIGTERM" /\ app' = 1 /\ apps' = 0
    /\ NoMemory
    /\ Config!WriterDies /\ History!WriterDies /\ SupplicantDies
    /\ UNCHANGED <<took, countVars>>

\* Somebody edits a file while the program is off.
EditsFile ==
    /\ phase = "off" /\ runs < MaxActivations /\ acts < MaxActs /\ acts' = acts + 1
    /\ \/ /\ \E d \in {Outside, Unusable} : Config!Edit(d)
          /\ edited' = TRUE /\ UNCHANGED histVars
       \/ /\ History!Edit(Unusable)
          /\ UNCHANGED <<edited, confVars>>
    /\ UNCHANGED <<supplicantVars, phase, app, apps, memoryVars, took, ended, runs>>

DaemonsAct ==
    /\ SupplicantEnvironment
    /\ UNCHANGED <<phase, app, apps, memoryVars, took, ended, countVars, confVars, histVars>>

ProgramNext ==
    \/ MainLoop \/ User \/ Dies \/ EditsFile \/ DaemonsAct

\* The main loop runs; the user and the environment need not do anything.  The
\* choice of a supplicant may take for ever: adapter_on_wifi runs wpa_cli without a
\* timeout.
ProgramSpec ==
    ProgramInit /\ [][ProgramNext]_pvars /\ WF_pvars(phase # "choosing" /\ MainLoop)

-----------------------------------------------------------------------------
(* Properties. *)

\* In this run, a daemon did not end when it was to.
Outlived == mishaps \cap {"survived", "denied"} # {}

\* At most one App of this run started a manager.
OneStart == \A a, b \in took : a = b

\* Whatever step fails, and whenever the process dies, neither file ever holds a
\* part of a document (write_json_0600).
FilesAreWhole == confDisk # Config!Torn /\ histDisk # History!Torn

\* Both files are saved as SavedFile promises: through all the steps of a write, their
\* failures and crashes, a file changes only as a whole, to the document that was asked
\* for last, and a save that fails leaves it as it was (write_json_0600, set,
\* add_session, clear).
ConfigFile == INSTANCE SavedFile
    WITH stored <- confDisk, asked <- confJob.doc, Doc <- Settings,
         Nothing <- Config!Missing, First <- {Config!Missing},
         Foreign <- {Outside, Unusable}
HistoryFile == INSTANCE SavedFile
    WITH stored <- histDisk, asked <- histJob.doc, Doc <- Records,
         Nothing <- History!Missing,
         First <- {History!Missing} \cup {[list |-> <<t>>] : t \in Stamp},
         Foreign <- {Unusable}
SavesAreAtomic == ConfigFile!Spec /\ HistoryFile!Spec

\* With one App, what the program shows is what its next run would load, unless the
\* last save failed or the file could not be read: a clear that failed leaves
\* nothing out of step (set, save, add_session, clear, write_json_0600).
MemoryIsSaved ==
    phase = "idle" /\ apps = 1 =>
        /\ conf[1] = confDisk \/ "config" \in ahead
        /\ sessions[1] = histDisk \/ "history" \in ahead

\* A bounded setting is out of its range only if somebody edited the file: no
\* sequence of sets, failures and restarts gets it there (validate, load_config).
PortInRange == (\E m \in Manager : conf[m].port = "outside") => edited

\* A record that the cap drops is not newer than any that stays, whatever the clock
\* did (add_session).
OnlyOldestDropped ==
    [][\A m \in Manager :
          phase' \in {"adding", "last record"} /\ acts' # acts =>
             LET was == {sessions[m].list[i] : i \in DOMAIN sessions[m].list}
                 is == {sessions'[m].list[i] : i \in DOMAIN sessions'[m].list}
             IN  \A r \in was \ is, s \in is : r <= s]_pvars

\* Once a dedicated daemon serves, it is the only one on the adapter, also after
\* runs that died and left theirs behind, and after a second activation; unless
\* a daemon outlived its SIGTERM (start's pkill, stop).
OneSupplicant ==
    (\E m \in Manager : mgr[m].started) /\ ~Outlived =>
        \A d, e \in live : d = e /\ d > base

\* start never takes the socket of an earlier run's daemon for that of its own
\* (write_config, wait_for_socket).
SocketIsOurs ==
    (\E m \in Manager : mgr[m].started) /\ ~Outlived /\ "stuck" \notin mishaps =>
        sock = NoDaemon \/ sock > base

\* NetworkManager and a daemon of this run never have the adapter at the same time
\* unless a command failed or there are two Apps (start, stop).
NoFight ==
    managed /\ mishaps = {} /\ OneStart => \A d \in live : d <= base

\* When start failed, and when the window was closed, the adapter is
\* NetworkManager's again and no daemon is left, also when an earlier run died with
\* the adapter taken; unless nmcli or the write of the configuration failed.
HandedBack ==
    /\ phase = "idle" \/ (phase = "off" /\ ended = "closed")
    /\ took # {} /\ \A m \in Manager : ~mgr[m].started
    /\ mishaps \cap {"nmcli", "write"} = {}
    => managed /\ (live = {} \/ Outlived)

\* A shutdown comes to its end, although it writes files and waits for a daemon
\* that may not heed SIGTERM; unless sudo does not run kill (graceful_shutdown, stop).
ShutdownEnds ==
    phase \in {"closing", "last record", "stopping"}
        ~> (phase = "off" \/ "denied" \in mishaps)
================================================================================
