---------------------------- MODULE P2pSupplicant ----------------------------
(***************************************************************************)
(* The dedicated wpa_supplicant of p2p_supplicant.rs: how a manager takes  *)
(* a Wi-Fi adapter from NetworkManager, starts the daemon on it, and gives *)
(* the adapter back.  start and stop run on the main loop, one at a time,  *)
(* and block it; each command they run (nmcli, pkill, kill, rm) may fail,  *)
(* time out with or without its effect, or be refused by sudo.             *)
(*                                                                         *)
(* A daemon is the pair of a sudo process, which is the manager's child,   *)
(* and the wpa_supplicant under it.  Daemons are numbered in the order in  *)
(* which they were spawned, over all runs of the program; what the program *)
(* leaves behind when it dies (daemons, the control socket, the adapter's  *)
(* NetworkManager flag) stays for its next run.                            *)
(***************************************************************************)
EXTENDS Naturals, FiniteSets

CONSTANTS MaxManagers,\* bound: how many managers one run of the program makes
          MaxSpawns,  \* bound: how many daemons are spawned
          MaxMishaps  \* bound: how many things go wrong in one run

ASSUME SupplicantAssumption ==
    /\ MaxManagers \in Nat \ {0}
    /\ MaxSpawns \in Nat /\ MaxMishaps \in Nat

Manager == 1 .. MaxManagers

NoDaemon == 0
Daemon == 1 .. MaxSpawns

VARIABLES
    stage,     \* where start or stop is, "none" when neither runs
    mgr,       \* per manager: process, was_nm_managed and started
    live,      \* environment: the wpa_supplicant processes on the adapter
    wrapper,   \* environment: the daemons whose sudo process is alive
    unbound,   \* environment: daemons that have not made their socket yet
    sock,      \* environment: the daemon whose control socket is in ctrl_dir
    managed,   \* environment: does NetworkManager manage the adapter?
    spawns,    \* how many daemons were spawned
    base,      \* history: `spawns` when this run of the program began
    mishaps    \* history: what went wrong in this run of the program

nmVars == <<managed, spawns, base>>
daemonVars == <<live, wrapper, unbound, sock>>
managerVars == <<stage, mgr, daemonVars, nmVars>>
supplicantVars == <<managerVars, mishaps>>

StartStage == {"killStale", "unmanage", "write", "spawn", "socket"}
StopStage == {"term", "wait", "remanage", "clean"}
Mishap == {"survived",  \* a daemon outlived the SIGTERM it was sent
           "denied",    \* sudo did not run kill -9
           "nmcli",     \* nmcli failed or timed out
           "stuck",     \* the old control directory could not be removed
           "write",     \* start returned on a write error
           "file"}      \* another file could not be read or written (see Program)
NewManager == [child |-> NoDaemon, was |-> FALSE, started |-> FALSE]

\* The types of the supplicant's state.
PTypeOK ==
    /\ stage \in {"none"} \cup StartStage \cup StopStage
    /\ mgr \in [Manager -> [child : Daemon \cup {NoDaemon}, was : BOOLEAN, started : BOOLEAN]]
    /\ wrapper \subseteq live /\ unbound \subseteq live /\ live \subseteq 1 .. spawns
    /\ sock \in 0 .. spawns
    /\ managed \in BOOLEAN
    /\ spawns \in 0 .. MaxSpawns /\ base \in 0 .. spawns
    /\ mishaps \subseteq Mishap

PInit ==
    /\ stage = "none"
    /\ mgr = [m \in Manager |-> NewManager]
    /\ live = {} /\ wrapper = {} /\ unbound = {} /\ sock = NoDaemon
    /\ managed \in BOOLEAN
    /\ spawns = 0 /\ base = 0 /\ mishaps = {}

-----------------------------------------------------------------------------
(* The daemons and the commands. *)

\* The daemons of K end, and their sudo processes with them.
End(K) == live' = live \ K /\ wrapper' = wrapper \ K /\ unbound' = unbound \ K

\* SIGTERM ends the daemons of K, and they take their sockets along.
EndTidily(K) == End(K) /\ sock' = IF sock \in K THEN NoDaemon ELSE sock

\* Note a mishap, or none.
Mark(M) == mishaps' = mishaps \cup M /\ Cardinality(mishaps') <= MaxMishaps

\* nmcli sets the managed flag: it succeeds, or fails or times out (10 s) with or
\* without its effect.
NmcliDone(flag) == managed' = flag /\ UNCHANGED mishaps
NmcliFails(flag) == managed' \in {managed, flag} /\ Mark({"nmcli"})

\* The interface goes back to NetworkManager if it was taken from it; the result
\* of nmcli is not looked at.
RemanageWithNm(m) ==
    IF mgr[m].was THEN NmcliDone(TRUE) \/ NmcliFails(TRUE)
                    ELSE UNCHANGED <<managed, mishaps>>

-----------------------------------------------------------------------------
(* start *)

\* A new manager is made and started.
Start(m) ==
    /\ stage = "none"
    /\ stage' = "killStale"
    /\ mgr' = [mgr EXCEPT ![m] = NewManager]
    /\ UNCHANGED <<daemonVars, nmVars, mishaps>>

\* Mutation of KillStale: start relies on the stop of the run before.
KillStaleNot ==
    /\ stage = "killStale"
    /\ stage' = "unmanage"
    /\ UNCHANGED <<mgr, daemonVars, nmVars, mishaps>>

\* pkill sends SIGTERM to every daemon on the interface; some may not heed it.
KillStale ==
    /\ stage = "killStale"
    /\ \E K \in SUBSET live : EndTidily(K) /\ Mark(IF K = live THEN {} ELSE {"survived"})
    /\ stage' = "unmanage"
    /\ UNCHANGED <<mgr, nmVars>>

\* Mutation of UnmanageFromNm: what is remembered is whether it changed anything.
UnmanageIfManaged(m) ==
    /\ stage = "unmanage"
    /\ \/ NmcliDone(FALSE) /\ mgr' = [mgr EXCEPT ![m].was = managed]
       \/ NmcliFails(FALSE) /\ UNCHANGED mgr
    /\ stage' = "write"
    /\ UNCHANGED <<daemonVars, spawns, base>>

\* Only an nmcli that succeeds is remembered in was_nm_managed.
UnmanageFromNm(m) ==
    /\ stage = "unmanage"
    /\ \/ NmcliDone(FALSE) /\ mgr' = [mgr EXCEPT ![m].was = TRUE]
       \/ NmcliFails(FALSE) /\ UNCHANGED mgr
    /\ stage' = "write"
    /\ UNCHANGED <<daemonVars, spawns, base>>

\* Mutation of ClearCtrlDir: what is there is kept.
KeepCtrlDir == UNCHANGED <<sock, mishaps>>

\* The control directory of an earlier run is removed, whichever way works.
ClearCtrlDir ==
    \/ sock' = NoDaemon /\ UNCHANGED mishaps
    \/ sock # NoDaemon /\ UNCHANGED sock /\ Mark({"stuck"})

WriteConfig ==
    /\ stage = "write"
    /\ ClearCtrlDir
    /\ stage' = "spawn"
    /\ UNCHANGED <<mgr, live, wrapper, unbound, nmVars>>

\* The configuration or the control directory cannot be written: start returns at
\* once, and the manager is dropped; it has nothing to stop.
WriteConfigFails ==
    /\ stage = "write"
    /\ sock' \in {sock, NoDaemon} /\ Mark({"write"})
    /\ stage' = "none"
    /\ UNCHANGED <<mgr, live, wrapper, unbound, nmVars>>

Spawn(m) ==
    /\ stage = "spawn" /\ spawns < MaxSpawns
    /\ LET d == spawns + 1 IN
           /\ spawns' = d
           /\ mgr' = [mgr EXCEPT ![m].child = d]
           /\ live' = live \cup {d} /\ wrapper' = wrapper \cup {d}
           /\ unbound' = unbound \cup {d}
    /\ stage' = "socket"
    /\ UNCHANGED <<sock, managed, base, mishaps>>

\* sudo cannot be run: the interface goes back, and start returns.
SpawnFails(m) ==
    /\ stage = "spawn"
    /\ RemanageWithNm(m)
    /\ stage' = "none"
    /\ UNCHANGED <<mgr, daemonVars, spawns, base>>

\* wait_for_socket looks for the socket before it looks at the child.
SocketSeen(m) ==
    /\ stage = "socket" /\ sock # NoDaemon
    /\ mgr' = [mgr EXCEPT ![m].started = TRUE]
    /\ stage' = "none"
    /\ UNCHANGED <<daemonVars, nmVars, mishaps>>

\* The child ended, or 5 s have passed: start calls stop.
SocketMissing ==
    /\ stage = "socket" /\ sock = NoDaemon
    /\ stage' = "term"
    /\ UNCHANGED <<mgr, daemonVars, nmVars, mishaps>>

-----------------------------------------------------------------------------
(* stop *)

\* stop has something to do; Drop asks the same before it calls stop.
NeedsStop(m) == mgr[m].started \/ mgr[m].child # NoDaemon

Stop(m) ==
    /\ stage = "none" /\ NeedsStop(m)
    /\ stage' = "term"
    /\ UNCHANGED <<mgr, daemonVars, nmVars, mishaps>>

\* Mutation of Terminate: the interface goes back before the daemon ended.
TerminateLater(m) ==
    /\ stage = "term"
    /\ stage' = "remanage"
    /\ UNCHANGED <<mgr, daemonVars, nmVars, mishaps>>

\* SIGTERM to the child, unless it ended already, and 5 s for it to end.
Terminate(m) ==
    /\ stage = "term"
    /\ \/ mgr[m].child \notin wrapper /\ UNCHANGED <<daemonVars, mishaps>>
       \/ mgr[m].child \in wrapper /\ EndTidily({mgr[m].child}) /\ UNCHANGED mishaps
    /\ stage' = "remanage"
    /\ UNCHANGED <<mgr, nmVars>>

\* Mutation of KillHard: no SIGKILL is sent.
KillNever(m) ==
    /\ stage = "term" /\ mgr[m].child \in wrapper
    /\ Mark({"survived"})
    /\ stage' = "wait"
    /\ UNCHANGED <<mgr, daemonVars, nmVars>>

\* It did not end.  kill -9 names the child, which is sudo: wpa_supplicant itself
\* lives on.  When sudo does not run kill, the child lives on as well.
KillHard(m) ==
    /\ stage = "term" /\ mgr[m].child \in wrapper
    /\ \/ wrapper' = wrapper \ {mgr[m].child} /\ Mark({"survived"})
       \/ UNCHANGED wrapper /\ Mark({"denied"})
    /\ stage' = "wait"
    /\ UNCHANGED <<mgr, live, unbound, sock, nmVars>>

\* child.wait() has no timeout.
ChildReaped(m) ==
    /\ stage = "wait" /\ mgr[m].child \notin wrapper
    /\ stage' = "remanage"
    /\ UNCHANGED <<mgr, daemonVars, nmVars, mishaps>>

\* The child is forgotten, and the interface goes back.
Remanage(m) ==
    /\ stage = "remanage"
    /\ mgr' = [mgr EXCEPT ![m] = [@ EXCEPT !.started = FALSE, !.child = NoDaemon]]
    /\ RemanageWithNm(m)
    /\ stage' = "clean"
    /\ UNCHANGED <<daemonVars, spawns, base>>

\* The configuration and the socket are removed, whoever made the socket.
CleanupFiles ==
    /\ stage = "clean"
    /\ sock' \in {sock, NoDaemon}
    /\ stage' = "none"
    /\ UNCHANGED <<mgr, live, wrapper, unbound, nmVars, mishaps>>

\* A step of the start or the stop of manager m.
SupplicantStep(m) ==
    \/ KillStale \/ UnmanageFromNm(m) \/ WriteConfig \/ WriteConfigFails
    \/ Spawn(m) \/ SpawnFails(m) \/ SocketSeen(m) \/ SocketMissing
    \/ Terminate(m) \/ KillHard(m) \/ ChildReaped(m) \/ Remanage(m) \/ CleanupFiles

-----------------------------------------------------------------------------
(* The environment, and the end of the program. *)

\* A daemon makes its control socket.
DaemonBinds(d) ==
    /\ d \in unbound /\ sock = NoDaemon
    /\ unbound' = unbound \ {d} /\ sock' = d
    /\ UNCHANGED <<stage, mgr, live, wrapper, nmVars, mishaps>>

\* A daemon ends by itself: the adapter was pulled out, or its driver failed.
DaemonExits(d) ==
    /\ d \in live
    /\ End({d})
    /\ sock' \in {sock, IF sock = d THEN NoDaemon ELSE sock}
    /\ UNCHANGED <<stage, mgr, nmVars, mishaps>>

SupplicantEnvironment == \E d \in Daemon : DaemonBinds(d) \/ DaemonExits(d)

\* The process is gone, without a call of stop or Drop.
SupplicantDies ==
    /\ stage' = "none" /\ mgr' = [m \in Manager |-> NewManager]
    /\ UNCHANGED <<daemonVars, nmVars, mishaps>>

\* A new run of the program begins.
SupplicantReborn ==
    /\ base' = spawns /\ mishaps' = {}
    /\ UNCHANGED <<stage, mgr, daemonVars, managed, spawns>>
==============================================================================
