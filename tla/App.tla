-------------------------------- MODULE App --------------------------------
(***************************************************************************)
(* The GUI process: the event drain, the discovery watchdog, the interface *)
(* switch and the shutdown of ui/app.rs, with the advertiser of            *)
(* advertiser.rs, over the bring-up of GoLadder.  All of this runs on the  *)
(* GTK main loop, one callback at a time, and a bring-up blocks the loop.  *)
(* The threads of the connection handlers and of the receiver run beside   *)
(* it and talk to it through the event channel only; their insides are the *)
(* subject of ConnectionHandler and Receiver.                              *)
(*                                                                         *)
(* Events that only change the window (PinDisplay, ConnectionLost,         *)
(* StreamStarted, StatsUpdated, AdvertisingStopped, AdvertisingError) are  *)
(* left out.                                                               *)
(***************************************************************************)
EXTENDS GoLadder, Integers, FiniteSets

CONSTANTS MaxJoins,     \* bound: how many times a source joins a group
          MaxSwitches   \* bound: how many times the user switches the interface

ASSUME AppAssumption == MaxJoins \in Nat /\ MaxSwitches \in Nat

VARIABLES
    loop,        \* what the main loop is doing
    deferred,    \* is the first start_advertising still to come?
    advertising, \* MiracastAdvertiser.advertising
    group,       \* MiracastAdvertiser.group_interface
    events,      \* the event channel, oldest first
    handler,     \* App.connection_handler, as the group it listens on
    since,       \* App.advertising_since: is the watchdog armed?
    connected,   \* App.source_connected
    switches,    \* how many times the interface was switched
    running,     \* the receiver's `running`
    thread,      \* is there a session thread, and where is its source?
    known,       \* is source_info set?
    owed,        \* history: sessions started that have no record yet
    listening,   \* the groups whose connection handler listens
    joining,     \* the groups whose handler waits for a source's lease
    joins,       \* how many times a source joined
    pin,         \* what became of the PIN the handler last armed (see PinState)
    prompted     \* history: was the user told that all channels were tried?

advVars == <<advertising, group>>
watchVars == <<since, connected>>
rxVars == <<running, thread, known, owed>>
handlerVars == <<handler, listening, pin>>
peerVars == <<joining, joins>>
userVars == <<deferred, switches, prompted>>
appVars == <<loop, advVars, events, watchVars, rxVars, handlerVars, peerVars, userVars>>
avars == <<ladderVars, appVars>>

LoopStage == {"idle", "drain", "watchdog", "starting", "rotating", "ended"}
\* No source has used the PIN; it is used up or could not be armed; a source used
\* it up without the handler seeing the source.
PinState == {"unused", "spent", "missed"}
AppEvent == [type : {"AdvertisingStarted", "ConnectionReceived"}, group : Group]
            \cup [type : {"ConnectionError", "StreamStopped", "StreamError"},
                  group : {NoGroup}]

Event(type, g) == [type |-> type, group |-> g]
Send(type, g) == events' = Append(events, Event(type, g))
Terminal(e) == e.type \in {"StreamStopped", "StreamError"}

\* The types of the application's state.
ATypeOK ==
    /\ GTypeOK
    /\ loop \in LoopStage
    /\ deferred \in BOOLEAN
    /\ advertising \in BOOLEAN
    /\ group \in Group \cup {NoGroup}
    /\ events \in Seq(AppEvent)
    /\ handler \in Group \cup {NoGroup}
    /\ since \in BOOLEAN /\ connected \in BOOLEAN
    /\ switches \in 0 .. MaxSwitches
    /\ running \in BOOLEAN
    /\ thread \in Group \cup {NoGroup}
    /\ known \in BOOLEAN /\ owed \in Nat
    /\ listening \subseteq Group
    /\ joining \subseteq Group
    /\ joins \in 0 .. MaxJoins
    /\ pin \in PinState
    /\ prompted \in BOOLEAN

\* activate, up to the first turn of the main loop.
AInit ==
    /\ GInit
    /\ loop = "idle" /\ deferred = TRUE
    /\ advertising = FALSE /\ group = NoGroup
    /\ events = <<>>
    /\ handler = NoGroup /\ listening = {} /\ pin = "spent"
    /\ since = FALSE /\ connected = FALSE
    /\ switches = 0
    /\ running = FALSE /\ thread = NoGroup /\ known = FALSE /\ owed = 0
    /\ joining = {} /\ joins = 0
    /\ prompted = FALSE

-----------------------------------------------------------------------------
(***************************************************************************)
(* The advertiser.                                                         *)
(***************************************************************************)

\* start_advertising: ignored while advertising, or else the bring-up, during
\* which the loop is in `stage`.
StartAdvertising(stage) ==
    IF advertising
    THEN loop' = "idle" /\ bring' = bring
    ELSE loop' = stage /\ bring = "off" /\ bring' = "config"

\* stop_advertising: the flag, the group, and its name.  A failure to remove
\* the group is logged.
StopAdvertising ==
    /\ advertising' = FALSE
    /\ IF advertising THEN Removed(group) /\ group' = NoGroup
                      ELSE UNCHANGED <<groups, mishaps, group>>

\* start_group_owner returns: the event, and for the watchdog a new minute,
\* whether the group is up or not.
AdvertiserReturns ==
    /\ loop \in {"starting", "rotating"}
    /\ bring \in {"up", "failed"} /\ bring' = "off"
    /\ loop' = "idle"
    /\ IF bring = "up"
       THEN /\ advertising' = TRUE /\ group' = cand
            /\ Send("AdvertisingStarted", cand)
       ELSE UNCHANGED <<advVars, events>>
    /\ since' = (since \/ loop = "rotating")
    /\ cand' = NoGroup /\ rung' = 1
    /\ UNCHANGED <<fixedVars, pre, envVars, offset, won, mishaps, led>>
    /\ UNCHANGED <<connected, rxVars, handlerVars, peerVars, userVars>>

\* The start that was deferred until the window is painted.
FirstStart ==
    /\ loop = "idle" /\ deferred
    /\ deferred' = FALSE
    /\ StartAdvertising("starting")
    /\ UNCHANGED <<fixedVars, rung, pre, cand, envVars, offset, won, mishaps, led>>
    /\ UNCHANGED <<advVars, events, watchVars, rxVars, handlerVars, peerVars, switches, prompted>>

\* A step of the bring-up that the loop waits for, or of the environment.
BringUp ==
    /\ loop \in {"starting", "rotating"}
    /\ BringUpStep
    /\ UNCHANGED appVars

Appears ==
    /\ loop # "ended"
    /\ \E g \in pending : GroupAppears(g)
    /\ UNCHANGED appVars

-----------------------------------------------------------------------------
(***************************************************************************)
(* The threads of the handlers and of the receiver.                        *)
(***************************************************************************)

\* A source joins a group whose handler listens, and the handler sees it.
SourceJoins(g) ==
    /\ joins < MaxJoins
    /\ g \in listening \cap groups /\ g \notin joining
    /\ joins' = joins + 1
    /\ joining' = joining \cup {g}
    /\ pin' = IF g = handler THEN "spent" ELSE pin
    /\ UNCHANGED <<ladderVars, loop, advVars, events, watchVars, rxVars, handler, listening, userVars>>

\* A source uses up the PIN and no event tells of it: the PIN is armed before the
\* backend watches, the handler may have ended, and a D-Bus join without a readable
\* address is skipped.
SourceUnseen ==
    /\ joins < MaxJoins
    /\ handler \in groups /\ pin = "unused"
    /\ joins' = joins + 1
    /\ pin' = "missed"
    /\ UNCHANGED <<ladderVars, loop, advVars, events, watchVars, rxVars, handler, listening, joining, userVars>>

\* The backend's monitor returns: it could not start, its pipe or bus closed, or
\* the group was removed.  The handler listens no more, and the App keeps it.
HandlerEnds(g) ==
    /\ listening' = listening \ {g}
    /\ UNCHANGED events \/ Send("ConnectionError", NoGroup)
    /\ UNCHANGED <<ladderVars, loop, advVars, watchVars, rxVars, handler, pin, peerVars, userVars>>

\* The lease wait ends: the connection is announced, or rejected as malformed.
\* A handler that was stopped meanwhile sends it all the same.
LeaseEnds(g) ==
    /\ g \in joining
    /\ joining' = joining \ {g}
    /\ \/ Send("ConnectionReceived", g)
       \/ Send("ConnectionError", NoGroup)
    /\ UNCHANGED <<ladderVars, loop, advVars, watchVars, rxVars, handlerVars, joins, userVars>>

\* The session thread ends the session; or it fails, or the bus or the statistics
\* thread reports an error while it streams on, and `running` stays set.
SessionStops ==
    /\ thread # NoGroup
    /\ thread' = NoGroup /\ running' = FALSE
    /\ Send("StreamStopped", NoGroup)
    /\ UNCHANGED <<ladderVars, loop, advVars, watchVars, known, owed, handlerVars, peerVars, userVars>>

SessionFails ==
    /\ thread # NoGroup /\ running
    /\ thread' \in {NoGroup, thread}
    /\ Send("StreamError", NoGroup)
    /\ UNCHANGED <<ladderVars, loop, advVars, watchVars, running, known, owed, handlerVars, peerVars, userVars>>

\* The last of ten tries to arm the PIN fails.
ArmFails ==
    /\ handler # NoGroup /\ pin = "unused"
    /\ pin' = "spent"
    /\ Send("ConnectionError", NoGroup)
    /\ UNCHANGED <<ladderVars, loop, advVars, watchVars, rxVars, handler, listening, peerVars, userVars>>

Threads ==
    /\ loop # "ended"
    /\ \/ \E g \in listening : SourceJoins(g) \/ HandlerEnds(g)
       \/ SourceUnseen
       \/ \E g \in joining : LeaseEnds(g)
       \/ SessionStops \/ SessionFails \/ ArmFails

-----------------------------------------------------------------------------
(***************************************************************************)
(* The event drain and handle_event.                                       *)
(***************************************************************************)

\* The 50 ms timer, when nothing is queued or no longer: on to the watchdog.
DrainEnds ==
    /\ loop \in {"idle", "drain"} /\ events = <<>>
    /\ loop' = "watchdog"
    /\ UNCHANGED <<ladderVars, advVars, events, watchVars, rxVars, handlerVars, peerVars, userVars>>

\* The timer's callback takes the oldest event, of this type.
Takes(type) ==
    /\ loop \in {"idle", "drain"} /\ events # <<>>
    /\ loop' = "drain"
    /\ Head(events).type = type
    /\ UNCHANGED <<ladderVars, advVars, peerVars, userVars>>

\* return_to_advertising: the handler, if there is one, arms a new PIN.
Rearmed == IF handler # NoGroup THEN "unused" ELSE pin

\* Mutation of HandleAdvertisingStarted: a handler that is there is kept.
KeepsOldHandler ==
    /\ Takes("AdvertisingStarted")
    /\ events' = Tail(events)
    /\ since' = TRUE /\ connected' = FALSE
    /\ IF handler # NoGroup THEN UNCHANGED handlerVars
       ELSE /\ handler' = Head(events).group /\ listening' = {Head(events).group}
            /\ pin' = "unused"
    /\ UNCHANGED rxVars

\* on_advertiser_started: a new handler takes the place of the old, which stops
\* when it is dropped.
HandleAdvertisingStarted ==
    /\ Takes("AdvertisingStarted")
    /\ events' = Tail(events)
    /\ since' = TRUE /\ connected' = FALSE
    /\ handler' = Head(events).group /\ listening' = {Head(events).group}
    /\ pin' = "unused"
    /\ UNCHANGED rxVars

\* Mutation of HandleConnectionReceived: the watchdog is not disarmed.
ConnectionKeepsWatchdog ==
    /\ Takes("ConnectionReceived")
    /\ events' = Tail(events)
    /\ IF running THEN UNCHANGED rxVars
                  ELSE /\ running' = TRUE /\ thread' = Head(events).group
                       /\ known' = TRUE /\ owed' = owed + 1
    /\ UNCHANGED <<watchVars, handlerVars>>

HandleConnectionReceived ==
    /\ Takes("ConnectionReceived")
    /\ events' = Tail(events)
    /\ connected' = TRUE /\ since' = FALSE
    /\ IF running THEN UNCHANGED rxVars
                  ELSE /\ running' = TRUE /\ thread' = Head(events).group
                       /\ known' = TRUE /\ owed' = owed + 1
    /\ UNCHANGED handlerVars

HandleConnectionError ==
    /\ Takes("ConnectionError")
    /\ events' = Tail(events)
    /\ pin' = Rearmed
    /\ UNCHANGED <<watchVars, rxVars, handler, listening>>

\* One record more; a record too many makes up for no other session's.
Recorded == IF owed > 0 THEN owed - 1 ELSE 0

\* Mutation of HandleStreamStopped: a record only while receiving.
RecordsWhileRunning ==
    /\ Takes("StreamStopped")
    /\ events' = Tail(events)
    /\ owed' = IF running THEN Recorded ELSE owed
    /\ pin' = Rearmed
    /\ UNCHANGED <<watchVars, running, thread, known, handler, listening>>

\* A record for the source the receiver was last started with.
HandleStreamStopped ==
    /\ Takes("StreamStopped")
    /\ events' = Tail(events)
    /\ owed' = IF known THEN Recorded ELSE owed
    /\ pin' = Rearmed
    /\ UNCHANGED <<watchVars, running, thread, known, handler, listening>>

\* stop_receiving: a thread that is still there ends during the join, with or
\* without a StreamStopped of its own after the events in `queued`.
StopReceiving(queued) ==
    /\ running' = FALSE /\ thread' = NoGroup
    /\ \/ events' = queued
       \/ thread # NoGroup /\ events' = Append(queued, Event("StreamStopped", NoGroup))

\* Mutation of HandleStreamError: no new PIN is armed.
StreamErrorKeepsPin ==
    /\ Takes("StreamError")
    /\ IF known
       THEN StopReceiving(Tail(events)) /\ owed' = Recorded
       ELSE events' = Tail(events) /\ UNCHANGED <<running, thread, owed>>
    /\ UNCHANGED <<watchVars, known, handlerVars>>

HandleStreamError ==
    /\ Takes("StreamError")
    /\ IF known
       THEN StopReceiving(Tail(events)) /\ owed' = Recorded
       ELSE events' = Tail(events) /\ UNCHANGED <<running, thread, owed>>
    /\ pin' = Rearmed
    /\ UNCHANGED <<watchVars, known, handler, listening>>

HandleEvent ==
    \/ HandleAdvertisingStarted \/ HandleConnectionReceived \/ HandleConnectionError
    \/ HandleStreamStopped \/ HandleStreamError

-----------------------------------------------------------------------------
(***************************************************************************)
(* check_discovery_watchdog.                                               *)
(***************************************************************************)

WatchdogArmed == since /\ ~connected

\* Nothing to watch, or not 60 s yet.
WatchdogPasses ==
    /\ loop = "watchdog"
    /\ loop' = "idle"
    /\ UNCHANGED <<ladderVars, advVars, events, watchVars, rxVars, handlerVars, peerVars, userVars>>

\* 60 s: the next channel, with the group taken down and brought up again.
WatchdogRotates ==
    /\ loop = "watchdog" /\ WatchdogArmed /\ RungLeft
    /\ offset' = offset + 1
    /\ StopAdvertising
    /\ bring = "off" /\ bring' = "config"
    /\ loop' = "rotating"
    /\ UNCHANGED <<fixedVars, rung, pre, cand, band, pending, adds, won, led>>
    /\ UNCHANGED <<events, watchVars, rxVars, handlerVars, peerVars, userVars>>

\* No channel is left: the user is prompted, and the watchdog disarmed.
WatchdogPrompts ==
    /\ loop = "watchdog" /\ WatchdogArmed /\ ~RungLeft
    /\ RotateDiscoveryChannel
    /\ since' = FALSE /\ prompted' = TRUE
    /\ loop' = "idle"
    /\ UNCHANGED <<advVars, events, connected, rxVars, handlerVars, peerVars, deferred, switches>>

-----------------------------------------------------------------------------
(***************************************************************************)
(* The user.                                                               *)
(***************************************************************************)

\* switch_interface.  The receiver is left as it is.
SwitchInterface ==
    /\ loop = "idle" /\ switches < MaxSwitches
    /\ switches' = switches + 1
    /\ StopAdvertising
    /\ handler' = NoGroup /\ listening' = {} /\ pin' = "spent"
    /\ loop' = "starting"
    /\ bring = "off" /\ bring' = "config"
    /\ UNCHANGED <<fixedVars, rung, pre, cand, band, pending, adds, offset, won, led>>
    /\ UNCHANGED <<events, watchVars, rxVars, peerVars, deferred, prompted>>

\* The refresh button: rearm_wps_pin of the handler.
RefreshPin ==
    /\ loop = "idle" /\ handler # NoGroup
    /\ pin' = "unused"
    /\ UNCHANGED <<ladderVars, loop, advVars, events, watchVars, rxVars, handler, listening, peerVars, userVars>>

\* graceful_shutdown: receiver, connection handler, advertiser.
Shutdown ==
    /\ loop = "idle" /\ loop' = "ended"
    /\ IF running
       THEN StopReceiving(events) /\ owed' = Recorded
       ELSE UNCHANGED <<events, running, thread, owed>>
    /\ handler' = NoGroup /\ listening' = {} /\ pin' = "spent"
    /\ StopAdvertising
    /\ UNCHANGED <<fixedVars, callVars, band, pending, adds, offset, won, led>>
    /\ UNCHANGED <<watchVars, known, peerVars, userVars>>

User == SwitchInterface \/ RefreshPin \/ Shutdown

MainLoop ==
    \/ FirstStart \/ BringUp \/ AdvertiserReturns
    \/ HandleEvent \/ DrainEnds
    \/ WatchdogPasses \/ WatchdogRotates \/ WatchdogPrompts

ANext == MainLoop \/ Threads \/ User \/ Appears

ASpec == AInit /\ [][ANext]_avars

-----------------------------------------------------------------------------
(***************************************************************************)
(* Properties.                                                             *)
(***************************************************************************)

\* The advertised resolution follows the band the group came up on, as long as
\* its frequency could be read (wpa_cli backend; a D-Bus bring-up sets none).
ResolutionFits ==
    advertising /\ backend = "cli" /\ "unread" \notin mishaps => won = band[group]

\* A bring-up leaves one group, the one it added last, and a stop leaves none: no rung
\* that was rejected or in the wrong band leaves a group behind, unless a group was
\* given up (after ten seconds, because it could not be removed, or because its add
\* ended with an error and wpa_supplicant may have accepted it).
OneGroup ==
    bring = "off" /\ "left" \notin mishaps =>
       /\ groups \ {0} \subseteq {group}
       /\ advertising => group = adds

\* Once the events are drained, the App's handler is the one for the group that is
\* advertised, and no handler of another group listens.  It may have ended by itself:
\* nothing starts it again before the next AdvertisingStarted.
HandlerFollowsGroup ==
    advertising /\ (\A i \in DOMAIN events : events[i].type # "AdvertisingStarted") =>
       handler = group /\ listening \subseteq {group}

\* The user is told that all channels were tried only when each of the social
\* channels had its turn to lead a bring-up (wpa_cli, no 5 GHz rung, and no
\* bring-up that ended before its first rung).
PromptAfterAll ==
    prompted /\ backend = "cli" /\ Head(ladder) # Five /\ "aborted" \notin mishaps =>
       \A i \in DOMAIN Socials : Socials[i] \in led

\* When nothing is going on, the PIN that was armed last is unused, so that the next
\* source can connect, unless a source used it up unseen: every source the handler
\* saw, every failed arming and every ended session is followed by a new PIN.
NextSourceCanConnect ==
    /\ loop = "idle" /\ events = <<>> /\ handler # NoGroup
    /\ handler \notin joining /\ ~running
    => pin # "spent"

\* Every session that ended is recorded, or the event that will record it is
\* queued.
EndedSessionsRecorded ==
    loop # "ended" =>
       owed <= Cardinality({i \in DOMAIN events : Terminal(events[i])})
                  + (IF thread = NoGroup THEN 0 ELSE 1)

\* The watchdog takes no group down whose source is known and streams.
RotationSparesStream ==
    [][loop' = "rotating" /\ loop # "rotating" =>
          ~(running /\ thread # NoGroup /\ thread = group)]_avars
=============================================================================
