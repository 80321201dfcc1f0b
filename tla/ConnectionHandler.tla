--------------------------- MODULE ConnectionHandler ---------------------------
(***************************************************************************)
(* The connection handler of src/connection.rs on one group interface: the *)
(* go-event-monitor thread, the go-event-drain thread it feeds, the        *)
(* detached threads that rearm_wps_pin spawns, the owner (GUI main loop or *)
(* service loop) that calls it, and the backend's event monitor            *)
(* (run_event_monitor of p2p_backend/cli.rs and p2p_backend/dbus.rs).      *)
(*                                                                         *)
(* PINs are numbered in the order they are generated.  Three parties       *)
(* generate, show and arm PINs without a common lock: the monitor thread   *)
(* once, the drain thread when a source leaves, and the owner at the end   *)
(* of every stream and on the refresh button.  Each lock section, each     *)
(* channel operation and each registrar call is a step of its own.         *)
(***************************************************************************)
EXTENDS Naturals, Sequences

CONSTANTS Peers,       \* the sources that may join the group
          MaxRearms,   \* bound: how many times the owner re-arms
          MaxSignals   \* bound: how much may happen on the group and its stream

None == "none"

ASSUME HandlerAssumption ==
    /\ None \notin Peers
    /\ MaxRearms \in Nat
    /\ MaxSignals \in Nat

\* Bound: the first PIN, the owner's, and one for each source that came and left.
MaxPins == 1 + MaxRearms + (MaxSignals \div 2)
Pin == 1 .. MaxPins
NoPin == 0

\* The parties that show PINs, and the threads that arm them.  The detached
\* thread spawned for a PIN has its number.
Monitor == 0
Drain == MaxPins + 1
Owner == MaxPins + 2
Party == {Monitor, Drain, Owner}
Thread == 0 .. MaxPins + 1

VARIABLES
    backend,     \* the backend select_backend chose, fixed at the start
    running,     \* Shared.running
    currentPin,  \* Shared.current_pin
    conn,        \* Shared.active_connection
    pins,        \* how many PINs were generated
    rearms,      \* how many times the owner re-armed
    unshown,     \* per party: the PIN it generated and has yet to show
    shown,       \* the PIN of the last PinDisplay event
    armed,       \* the PIN the registrar was last armed with
    armFailed,   \* did the last arming to end fail, with a ConnectionError?
    arm,         \* per thread: how far it is in arm_current_pin
    held,        \* per thread: the PIN it read in arm_current_pin
    stopped,     \* has the owner called stop_listening?
    monitor,     \* where the monitor thread is
    drain,       \* where the drain thread is
    leasing,     \* the source whose DHCP lease the drain thread waits for
    queue,       \* the P2pEvent channel, oldest first
    signals,     \* how many times something happened on the group or its stream
    grouped,     \* does the group exist?
    associated,  \* the sources associated with the group
    unread,      \* per D-Bus signal: what its reader has yet to get through
    overlapped   \* history: was a PIN generated during another re-arming?

pinVars == <<currentPin, pins, rearms, overlapped>>
showVars == <<unshown, shown>>
armVars == <<armed, armFailed, arm, held>>
threadVars == <<monitor, drain, leasing>>
groupVars == <<grouped, associated>>
signalVars == <<queue, signals, groupVars, unread>>
hvars == <<backend, running, conn, stopped, pinVars, showVars, armVars,
           threadVars, signalVars>>

MonitorStage == {"unborn", "dhcp", "show", "arm", "attach", "check",
                 "watching", "returned", "joining", "done"}
DrainStage == {"unborn", "check", "recv", "lease", "arm", "left", "restore",
               "armShow", "show", "done"}
P2pEvent == [kind : {"PeerConnected"}, mac : Peers]
               \cup [kind : {"PeerDisconnected", "GroupRemoved", "WpsPinNeeded",
                             "Error"}, mac : {None}]

About(kind) == [kind |-> kind, mac |-> None]

\* The D-Bus signals PeerJoined, PeerDisconnected and GroupFinished, by the event
\* they become: a reader thread, and a queue, for each.
SignalKind == {"PeerConnected", "PeerDisconnected", "GroupRemoved"}
NothingUnread == [k \in SignalKind |-> <<>>]

HInit ==
    /\ backend \in {"cli", "dbus"}
    /\ running = FALSE
    /\ currentPin = NoPin
    /\ conn = None
    /\ pins = 0
    /\ rearms = 0
    /\ unshown = [x \in Party |-> NoPin]
    /\ shown = NoPin
    /\ armed = NoPin
    /\ armFailed = FALSE
    /\ arm = [t \in Thread |-> "idle"]
    /\ held = [t \in Thread |-> NoPin]
    /\ stopped = FALSE
    /\ monitor = "unborn"
    /\ drain = "unborn"
    /\ leasing = None
    /\ queue = <<>>
    /\ signals = 0
    /\ grouped = TRUE
    /\ associated = {}
    /\ unread = NothingUnread
    /\ overlapped = FALSE

MonitorGoto(from, to) == monitor = from /\ monitor' = to
DrainGoto(from, to) == drain = from /\ drain' = to

\* Some party is between storing a PIN, or being asked to arm, and having it
\* both armed and shown.
Rearming ==
    \/ \E x \in Party : unshown[x] # NoPin
    \/ \E t \in Thread : arm[t] # "idle"

\* Mutation of StorePin: the PIN is shown, but the shared cell keeps the old one.
StorePinNowhere(x) ==
    /\ pins < MaxPins
    /\ pins' = pins + 1
    /\ unshown' = [unshown EXCEPT ![x] = pins + 1]
    /\ overlapped' = (overlapped \/ Rearming)
    /\ UNCHANGED currentPin

\* A party generates a PIN and stores it in the shared cell, to be shown later.
StorePin(x) ==
    /\ pins < MaxPins
    /\ pins' = pins + 1
    /\ currentPin' = pins + 1
    /\ unshown' = [unshown EXCEPT ![x] = pins + 1]
    /\ overlapped' = (overlapped \/ Rearming)

\* A party sends the PinDisplay event for its PIN; the owner shows them in order.
ShowPin(x) ==
    /\ unshown[x] # NoPin
    /\ shown' = unshown[x]
    /\ unshown' = [unshown EXCEPT ![x] = NoPin]

BeginArm(t) == arm' = [arm EXCEPT ![t] = "read"]

Happens ==
    /\ signals < MaxSignals
    /\ signals' = signals + 1

Deliver(event) ==
    /\ Happens
    /\ queue' = Append(queue, event)
    /\ UNCHANGED unread

-------------------------------------------------------------------------------
(* The owner: start_listening, stop_listening, disconnect_peer and           *)
(* rearm_wps_pin.  An owner starts a handler once: every AdvertisingStarted  *)
(* makes a new one.                                                          *)

StartListening ==
    /\ ~stopped
    /\ MonitorGoto("unborn", "dhcp")
    /\ running' = TRUE
    /\ UNCHANGED <<backend, conn, stopped, drain, leasing, pinVars, showVars,
                   armVars, signalVars>>

\* stop_listening, or the Drop of a running handler.  It gives up after 5 s, so
\* it leaves open whether the monitor thread has ended.
StopListening ==
    /\ ~stopped
    /\ monitor # "unborn"
    /\ unshown[Owner] = NoPin
    /\ stopped' = TRUE
    /\ running' = FALSE
    /\ UNCHANGED <<backend, conn, threadVars, pinVars, showVars, armVars,
                   signalVars>>

DisconnectPeer ==
    /\ ~stopped
    /\ unshown[Owner] = NoPin
    /\ conn # None
    /\ conn' = None
    /\ UNCHANGED <<backend, running, stopped, threadVars, pinVars, showVars,
                   armVars, signalVars>>

\* rearm_wps_pin stores a PIN, shows it and spawns the thread that arms it.
RearmStores ==
    /\ ~stopped
    /\ monitor # "unborn"
    /\ unshown[Owner] = NoPin
    /\ rearms < MaxRearms
    /\ rearms' = rearms + 1
    /\ StorePin(Owner)
    /\ UNCHANGED <<backend, running, conn, stopped, shown, threadVars, armVars,
                   signalVars>>

\* Mutation of RearmShows: no thread is spawned.
RearmOnlyShows ==
    /\ ShowPin(Owner)
    /\ UNCHANGED <<backend, running, conn, stopped, threadVars, pinVars,
                   armVars, signalVars>>

RearmShows ==
    /\ ShowPin(Owner)
    /\ BeginArm(unshown[Owner])
    /\ UNCHANGED <<backend, running, conn, stopped, armed, armFailed, held,
                   threadVars, pinVars, signalVars>>

-------------------------------------------------------------------------------
(* arm_current_pin, run by any thread: it reads the current PIN, whichever   *)
(* one the thread was started for, and calls the backend, which tries ten    *)
(* times.                                                                    *)

ArmReads(t) ==
    /\ arm[t] = "read"
    /\ arm' = [arm EXCEPT ![t] = "arming"]
    /\ held' = [held EXCEPT ![t] = currentPin]
    /\ UNCHANGED <<backend, running, conn, stopped, armed, armFailed,
                   threadVars, pinVars, showVars, signalVars>>

\* Back from arm_current_pin: what the monitor and the drain thread do next.
ArmReturns(t) ==
    /\ arm' = [arm EXCEPT ![t] = "idle"]
    /\ held' = [held EXCEPT ![t] = NoPin]
    /\ monitor' = IF t = Monitor THEN "attach" ELSE monitor
    /\ drain' = IF t # Drain THEN drain
                ELSE IF drain = "armShow" THEN "show" ELSE "check"
    /\ UNCHANGED <<backend, running, conn, stopped, leasing, pinVars,
                   showVars, signalVars>>

ArmSucceeds(t) ==
    /\ arm[t] = "arming"
    /\ armed' = held[t]
    /\ armFailed' = FALSE
    /\ ArmReturns(t)

\* Mutation of ArmFails: the error is not reported.
ArmFailsSilently(t) ==
    /\ arm[t] = "arming"
    /\ UNCHANGED <<armed, armFailed>>
    /\ ArmReturns(t)

\* All ten attempts failed: ConnectionError, and the registrar keeps the old PIN.
ArmFails(t) ==
    /\ arm[t] = "arming"
    /\ armFailed' = TRUE
    /\ UNCHANGED armed
    /\ ArmReturns(t)

-------------------------------------------------------------------------------
(* The monitor thread: address and DHCP server, the first PIN, then the      *)
(* backend's event monitor.                                                  *)

\* setup_dhcp, then generate and store the first PIN.
FirstPin ==
    /\ MonitorGoto("dhcp", "show")
    /\ StorePin(Monitor)
    /\ UNCHANGED <<backend, running, conn, stopped, rearms, shown, drain,
                   leasing, armVars, signalVars>>

FirstPinShows ==
    /\ MonitorGoto("show", "arm")
    /\ ShowPin(Monitor)
    /\ BeginArm(Monitor)
    /\ UNCHANGED <<backend, running, conn, stopped, armed, armFailed, held,
                   drain, leasing, pinVars, signalVars>>

\* The drain thread is spawned, and the backend starts watching.
MonitorAttaches ==
    /\ MonitorGoto("attach", "check")
    /\ drain' = "check"
    /\ UNCHANGED <<backend, running, conn, stopped, leasing, pinVars, showVars,
                   armVars, signalVars>>

\* The backend cannot watch: wpa_cli does not start, or the bus is not there.
MonitorAttachFails ==
    /\ MonitorGoto("attach", "returned")
    /\ drain' = "check"
    /\ Deliver(About("Error"))
    /\ UNCHANGED <<backend, running, conn, stopped, leasing, groupVars,
                   pinVars, showVars, armVars>>

\* The head of the backend's loop: return, or wait for what comes next.
MonitorChecks ==
    /\ MonitorGoto("check", IF running THEN "watching" ELSE "returned")
    /\ UNCHANGED <<backend, running, conn, stopped, drain, leasing, pinVars,
                   showVars, armVars, signalVars>>

\* Something happens on the group.  Before the backend watches, nobody sees it:
\* wpa_cli's first lines are thrown away, and no signal is subscribed to.  Then a
\* line of wpa_cli comes through one pipe and is forwarded as it is read, and a
\* D-Bus signal is left to the reader thread of its kind.
Announces(event) ==
    /\ Happens
    /\ \/ /\ monitor = "attach"
          /\ UNCHANGED <<monitor, queue, unread>>
       \/ /\ backend = "cli"
          /\ MonitorGoto("watching", IF event.kind = "GroupRemoved"
                                     THEN "returned" ELSE "check")
          /\ queue' = Append(queue, event)
          /\ UNCHANGED unread
       \/ /\ backend = "dbus"
          /\ monitor = "watching"
          /\ unread' = [unread EXCEPT ![event.kind] = Append(@, event)]
          /\ UNCHANGED <<monitor, queue>>
    /\ UNCHANGED <<backend, running, conn, stopped, drain, leasing, pinVars,
                   showVars, armVars>>

PeerJoins(p) ==
    /\ grouped
    /\ p \notin associated
    /\ associated' = associated \cup {p}
    /\ Announces([kind |-> "PeerConnected", mac |-> p])
    /\ UNCHANGED grouped

\* Neither backend says which source left.
PeerLeaves(p) ==
    /\ p \in associated
    /\ associated' = associated \ {p}
    /\ Announces(About("PeerDisconnected"))
    /\ UNCHANGED grouped

GroupRemoved ==
    /\ grouped
    /\ grouped' = FALSE
    /\ associated' = {}
    /\ Announces(About("GroupRemoved"))

\* The D-Bus loop takes what some reader thread sent next: each thread keeps the
\* order of its own signal, nothing keeps the order between them.  A join whose
\* address cannot be read is skipped.
MonitorReads(kind) ==
    /\ backend = "dbus"
    /\ unread[kind] # <<>>
    /\ MonitorGoto("watching", IF kind = "GroupRemoved" THEN "returned" ELSE "check")
    /\ unread' = [unread EXCEPT ![kind] = Tail(@)]
    /\ \/ queue' = Append(queue, Head(unread[kind]))
       \/ kind = "PeerConnected" /\ UNCHANGED queue
    /\ UNCHANGED <<backend, running, conn, stopped, drain, leasing, signals,
                   groupVars, pinVars, showVars, armVars>>

\* 240 s passed since the last one, or (wpa_cli) a source asked for a PIN.
PinNeeded ==
    /\ MonitorGoto("watching", "check")
    /\ Deliver(About("WpsPinNeeded"))
    /\ UNCHANGED <<backend, running, conn, stopped, drain, leasing, groupVars,
                   pinVars, showVars, armVars>>

\* wpa_cli ends without a word; a lost bus is reported once the signals of all
\* readers were taken.
StreamEnds ==
    /\ MonitorGoto("watching", "returned")
    /\ \/ backend = "cli" /\ UNCHANGED <<queue, signals, unread>>
       \/ backend = "dbus" /\ unread = NothingUnread /\ Deliver(About("Error"))
    /\ UNCHANGED <<backend, running, conn, stopped, drain, leasing, groupVars,
                   pinVars, showVars, armVars>>

\* Mutation of MonitorPolls: without a signal the loop never looks at running.
MonitorWaitsOn ==
    /\ FALSE
    /\ UNCHANGED hvars

\* The D-Bus monitor waits 1 s for a signal at most.  read_line of the wpa_cli
\* monitor waits for as long as no line comes.
MonitorPolls ==
    /\ backend = "dbus"
    /\ MonitorGoto("watching", "check")
    /\ UNCHANGED <<backend, running, conn, stopped, drain, leasing, pinVars,
                   showVars, armVars, signalVars>>

\* The receiving end of the readers' channel is gone with the loop.
MonitorReturned ==
    /\ MonitorGoto("returned", "joining")
    /\ running' = FALSE
    /\ unread' = NothingUnread
    /\ UNCHANGED <<backend, conn, stopped, drain, leasing, queue, signals,
                   groupVars, pinVars, showVars, armVars>>

MonitorJoins ==
    /\ drain = "done"
    /\ MonitorGoto("joining", "done")
    /\ UNCHANGED <<backend, running, conn, stopped, drain, leasing, pinVars,
                   showVars, armVars, signalVars>>

-------------------------------------------------------------------------------
(* The drain thread, event_drain_loop.                                       *)

DrainChecks ==
    /\ DrainGoto("check", IF running THEN "recv" ELSE "done")
    /\ UNCHANGED <<backend, running, conn, stopped, monitor, leasing, pinVars,
                   showVars, armVars, signalVars>>

\* recv_timeout: nothing came for 500 ms, or the sender is gone with the
\* returned monitor.
DrainTimesOut ==
    /\ queue = <<>>
    /\ DrainGoto("recv", IF monitor \in {"returned", "joining"}
                         THEN "done" ELSE "check")
    /\ UNCHANGED <<backend, running, conn, stopped, monitor, leasing, pinVars,
                   showVars, armVars, signalVars>>

\* The oldest event is taken, and is one of these.
Takes(kinds, to) ==
    /\ queue # <<>>
    /\ Head(queue).kind \in kinds
    /\ DrainGoto("recv", to)
    /\ queue' = Tail(queue)
    /\ UNCHANGED <<backend, running, conn, stopped, monitor, signals,
                   groupVars, unread, pinVars, showVars>>

TakesConnected ==
    /\ Takes({"PeerConnected"}, "lease")
    /\ leasing' = Head(queue).mac
    /\ UNCHANGED armVars

TakesDisconnected ==
    /\ Takes({"PeerDisconnected"}, "left")
    /\ UNCHANGED <<leasing, armVars>>

TakesPinNeeded ==
    /\ Takes({"WpsPinNeeded"}, "arm")
    /\ BeginArm(Drain)
    /\ UNCHANGED <<leasing, armed, armFailed, held>>

\* An Error becomes a ConnectionError event.
TakesError ==
    /\ Takes({"Error"}, "check")
    /\ UNCHANGED <<leasing, armVars>>

TakesGroupRemoved ==
    /\ Takes({"GroupRemoved"}, "done")
    /\ UNCHANGED <<leasing, armVars>>

\* handle_sta_connected, after at most 15 s: a lease was found, or the fallback
\* address is taken, also when `running` was cleared meanwhile.  A malformed
\* connection is rejected.
LeaseEnds ==
    /\ DrainGoto("lease", "check")
    /\ conn' \in {leasing, conn}
    /\ leasing' = None
    /\ UNCHANGED <<backend, running, stopped, monitor, pinVars, showVars,
                   armVars, signalVars>>

\* Mutation of SourceLeft: the active connection is kept.
SourceLeftKeeps ==
    /\ conn # None
    /\ DrainGoto("left", "restore")
    /\ UNCHANGED <<backend, running, conn, stopped, monitor, leasing, pinVars,
                   showVars, armVars, signalVars>>

\* handle_sta_disconnected: whoever left, the active connection is forgotten,
\* a new PIN stored, armed, and only then shown.
SourceLeft ==
    /\ conn # None
    /\ DrainGoto("left", "restore")
    /\ conn' = None
    /\ UNCHANGED <<backend, running, stopped, monitor, leasing, pinVars,
                   showVars, armVars, signalVars>>

SourceLeftStores ==
    /\ DrainGoto("restore", "armShow")
    /\ StorePin(Drain)
    /\ BeginArm(Drain)
    /\ UNCHANGED <<backend, running, conn, stopped, rearms, shown, monitor,
                   leasing, armed, armFailed, held, signalVars>>

StrangerLeft ==
    /\ conn = None
    /\ DrainGoto("left", "check")
    /\ UNCHANGED <<backend, running, conn, stopped, monitor, leasing, pinVars,
                   showVars, armVars, signalVars>>

SourceLeftShows ==
    /\ DrainGoto("show", "check")
    /\ ShowPin(Drain)
    /\ UNCHANGED <<backend, running, conn, stopped, monitor, leasing, pinVars,
                   armVars, signalVars>>

-------------------------------------------------------------------------------
OwnerNext == StartListening \/ StopListening \/ DisconnectPeer \/ RearmStores
             \/ RearmShows

ArmNext(t) == ArmReads(t) \/ ArmSucceeds(t) \/ ArmFails(t)

\* What the monitor thread does of its own accord, and what the group does.
MonitorNext == FirstPin \/ FirstPinShows \/ MonitorAttaches
               \/ MonitorAttachFails \/ MonitorChecks \/ MonitorPolls
               \/ (\E kind \in SignalKind : MonitorReads(kind))
               \/ MonitorReturned \/ MonitorJoins

GroupNext == \/ \E p \in Peers : PeerJoins(p) \/ PeerLeaves(p)
             \/ PinNeeded \/ GroupRemoved \/ StreamEnds

DrainNext == DrainChecks \/ DrainTimesOut \/ TakesConnected
             \/ TakesDisconnected \/ TakesPinNeeded \/ TakesError
             \/ TakesGroupRemoved \/ LeaseEnds \/ SourceLeft
             \/ SourceLeftStores \/ StrangerLeft \/ SourceLeftShows

HNext == OwnerNext \/ MonitorNext \/ GroupNext \/ DrainNext
         \/ \E t \in Thread : ArmNext(t)

HSpec == HInit /\ [][HNext]_hvars

(***************************************************************************)
(* Every thread that can take its next step takes it: the arming tries ten *)
(* times at most, the lease wait ends within 15 s, both channel waits have *)
(* a timeout.  The owner finishes rearm_wps_pin, but nothing makes it call *)
(* anything, and nothing makes sources come or leave.                      *)
(***************************************************************************)
HFairSpec == /\ HSpec
             /\ WF_hvars(RearmShows)
             /\ WF_hvars(MonitorNext)
             /\ WF_hvars(DrainNext)
             /\ \A t \in Thread : WF_hvars(ArmNext(t))

-------------------------------------------------------------------------------
(* Properties. *)

\* The types, and the stages that go together: a thread arms exactly while its
\* stage says so, and a party holds an unshown PIN exactly when its stage says so.
HTypeOK ==
    /\ backend \in {"cli", "dbus"}
    /\ running \in BOOLEAN /\ stopped \in BOOLEAN /\ overlapped \in BOOLEAN
    /\ conn \in Peers \cup {None} /\ leasing \in Peers \cup {None}
    /\ pins \in 0 .. MaxPins /\ rearms \in 0 .. MaxRearms
    /\ currentPin = pins
    /\ unshown \in [Party -> 0 .. pins]
    /\ shown \in 0 .. pins /\ armed \in 0 .. pins
    /\ armFailed \in BOOLEAN
    /\ arm \in [Thread -> {"idle", "read", "arming"}]
    /\ held \in [Thread -> 0 .. pins]
    /\ monitor \in MonitorStage /\ drain \in DrainStage
    /\ queue \in Seq(P2pEvent) /\ signals \in 0 .. MaxSignals
    /\ grouped \in BOOLEAN /\ associated \subseteq Peers
    /\ unread \in [SignalKind -> Seq(P2pEvent)]
    /\ arm[Monitor] # "idle" <=> monitor = "arm"
    /\ arm[Drain] # "idle" <=> drain \in {"arm", "armShow"}
    /\ leasing # None <=> drain = "lease"
    /\ drain = "unborn"
          <=> monitor \in {"unborn", "dhcp", "show", "arm", "attach"}

\* Nothing is being generated, shown or armed, and a first PIN exists.
Quiet == pins > 0 /\ ~Rearming

\* As long as no two re-armings overlap, the PIN on the screen is the current
\* one, and the registrar was armed with it unless the last attempt was reported
\* as failed.
ConsistentUnlessOverlapped ==
    Quiet /\ ~overlapped =>
        shown = currentPin /\ (armed = currentPin \/ armFailed)

\* While the wpa_cli backend watches, an active connection whose sources are all gone
\* is one the drain thread is about to forget: the leave is in the channel, behind the
\* join whose lease wait it must not overtake, and the thread is there to take it
\* (event_drain_loop, handle_sta_connected, handle_sta_disconnected).  It is stated
\* for wpa_cli only: the D-Bus readers may pass a leave on before its join.
Watched == monitor \notin {"returned", "joining", "done"}
LeaveQueued == \E i \in DOMAIN queue : queue[i].kind = "PeerDisconnected"
LeaveIsPending ==
    backend = "cli" /\ running /\ Watched /\ conn # None /\ associated = {} =>
        drain = "left" \/ (drain # "done" /\ LeaveQueued)

\* With the wpa_cli backend: once every source is gone for good and the handler goes on
\* listening, it forgets the active connection: a leave is not overtaken by its join's
\* lease wait, and not lost.
DepartedSourceForgotten ==
    backend = "cli" /\ <>[](associated = {} /\ running) => <>[](conn = None)

\* After stop_listening both threads end, and so does every arming in progress,
\* for the backend whose event monitor polls.
DBusHandlerFallsQuiet ==
    (stopped /\ backend = "dbus")
        ~> (monitor = "done" /\ drain = "done" /\ ~Rearming)

===============================================================================
