----------------------------- MODULE ServiceLoop ------------------------------
(***************************************************************************)
(* The headless service: run_as_service of src/service.rs, the single      *)
(* thread that owns the receiver and reacts to the event channel, composed *)
(* with the Receiver module.  Each turn of the loop looks at the signal    *)
(* flag, waits for an event for at most 500 ms, handles it, and checks the *)
(* idle timeout.  Events arrive from the receiver's own threads and from   *)
(* the connection handler's, while the loop is anywhere in its turn.       *)
(*                                                                         *)
(* No GLib main loop runs in this process, so no bus-watch callback is     *)
(* ever dispatched.  The advertiser speaks only when it is started, once,  *)
(* and its p2p_interface is always set by then, so an AdvertisingStarted   *)
(* always makes a connection handler.  What rearm_wps_pin and              *)
(* stop_listening do is ConnectionHandler's to say; here they change       *)
(* nothing the loop looks at.                                              *)
(***************************************************************************)
EXTENDS Receiver, FiniteSets

CONSTANT IdleTimeout     \* is service.idle_timeout above zero?

ASSUME ServiceAssumption == ~BusWatch /\ IdleTimeout \in BOOLEAN

VARIABLES
    loop,          \* where the service loop is in its turn
    cur,           \* the event being handled, or the reason there is none
    listening,     \* is there a connection handler?
    shuttingDown,  \* the flag the SIGINT and SIGTERM handler sets
    arrivals,      \* how many sources the connection handler reported
    history        \* the session history: the session each record names

svars == <<loop, cur, listening, shuttingDown, arrivals, history>>
allvars == <<vars, svars>>

LoopStage == {"start", "top", "wait", "handle", "signalled", "stopping",
              "bottom", "leaving", "exited"}

\* What `cur` holds when it is not an event of the channel.
NoEvent == [kind |-> "Timeout", from |-> NoSession]
Signal == [kind |-> "Signal", from |-> NoSession]

Other(kind) == [kind |-> kind, from |-> NoSession]

SInit ==
    /\ Init
    /\ loop = "start"
    /\ cur = NoEvent
    /\ listening = FALSE
    /\ shuttingDown = FALSE
    /\ arrivals = 0
    /\ history = <<>>

LoopGoto(from, to) ==
    /\ loop = from
    /\ loop' = to

Handles(kind) == loop = "handle" /\ cur.kind = kind

\* Mutation of AddSession: the record is keyed by the thread just joined.
AddSessionOfThread == history' = Append(history, rtspThread)

\* add_session names the source the receiver last started with.
AddSession == history' = Append(history, SourceInfo)

-------------------------------------------------------------------------------
(* The loop. *)

\* advertiser.start_advertising, before the loop: it sends one event.
StartAdvertising ==
    /\ LoopGoto("start", "top")
    /\ \E kind \in {"AdvertisingStarted", "AdvertisingError"} :
          events' = Append(events, Other(kind))
    /\ UNCHANGED <<cur, listening, shuttingDown, arrivals, history>>
    /\ UNCHANGED <<running, pipeline, rtsp, stats, gst, shared>>

NoSignal ==
    /\ ~shuttingDown
    /\ LoopGoto("top", "wait")
    /\ UNCHANGED <<vars, cur, listening, shuttingDown, arrivals, history>>

\* Mutation of SignalWhileReceiving: the receiver is not stopped on a signal.
SignalLeaves ==
    /\ shuttingDown
    /\ running
    /\ LoopGoto("top", "leaving")
    /\ UNCHANGED <<vars, cur, listening, shuttingDown, arrivals, history>>

SignalWhileReceiving ==
    /\ shuttingDown
    /\ running
    /\ LoopGoto("top", "signalled")
    /\ cur' = Signal
    /\ UNCHANGED <<vars, listening, shuttingDown, arrivals, history>>

\* The receiver may have ended its session by itself since it was looked at.
StopOnSignal ==
    /\ LoopGoto("signalled", "stopping")
    /\ StopFlag
    /\ UNCHANGED <<cur, listening, shuttingDown, arrivals, history>>

SignalWhileIdle ==
    /\ shuttingDown
    /\ ~running
    /\ LoopGoto("top", "leaving")
    /\ UNCHANGED <<vars, cur, listening, shuttingDown, arrivals, history>>

TakeEvent ==
    /\ LoopGoto("wait", "handle")
    /\ events # <<>>
    /\ cur' = Head(events)
    /\ events' = Tail(events)
    /\ UNCHANGED <<listening, shuttingDown, arrivals, history>>
    /\ UNCHANGED <<running, pipeline, rtsp, stats, gst, shared>>

\* Mutation of WaitTimesOut: the loop blocks until an event comes.
WaitForever == FALSE /\ UNCHANGED allvars

WaitTimesOut ==
    /\ LoopGoto("wait", "bottom")
    /\ events = <<>>
    /\ cur' = NoEvent
    /\ UNCHANGED <<vars, listening, shuttingDown, arrivals, history>>

HandleAdvertisingStarted ==
    /\ Handles("AdvertisingStarted")
    /\ LoopGoto("handle", "bottom")
    /\ listening' = TRUE
    /\ UNCHANGED <<vars, cur, shuttingDown, arrivals, history>>

HandleAdvertisingError ==
    /\ Handles("AdvertisingError")
    /\ LoopGoto("handle", "leaving")
    /\ UNCHANGED <<vars, cur, listening, shuttingDown, arrivals, history>>

HandleConnection ==
    /\ Handles("ConnectionReceived")
    /\ LoopGoto("handle", "bottom")
    /\ \/ ~running /\ StartReceiving
       \/ running /\ UNCHANGED vars
    /\ UNCHANGED <<cur, listening, shuttingDown, arrivals, history>>

HandleStreamStarted ==
    /\ Handles("StreamStarted")
    /\ LoopGoto("handle", "bottom")
    /\ UNCHANGED <<vars, cur, listening, shuttingDown, arrivals, history>>

\* Mutation of HandleStreamStopped: the session is not recorded.
HandleStreamStoppedUnrecorded ==
    /\ Handles("StreamStopped")
    /\ LoopGoto("handle", "bottom")
    /\ history' = history
    /\ UNCHANGED <<vars, cur, listening, shuttingDown, arrivals>>

\* The receiver is not stopped: stop_pipeline_and_emit already did.
HandleStreamStopped ==
    /\ Handles("StreamStopped")
    /\ LoopGoto("handle", "bottom")
    /\ AddSession
    /\ UNCHANGED <<vars, cur, listening, shuttingDown, arrivals>>

\* Mutation of HandleStreamError: the receiver is not stopped.
HandleStreamErrorNoStop ==
    /\ Handles("StreamError")
    /\ LoopGoto("handle", "bottom")
    /\ AddSession
    /\ UNCHANGED <<vars, cur, listening, shuttingDown, arrivals>>

\* The receiver is stopped whichever session the error came from.  source_info
\* is always set: only a started session reports an error.
HandleStreamError ==
    /\ Handles("StreamError")
    /\ LoopGoto("handle", "stopping")
    /\ StopFlag
    /\ UNCHANGED <<cur, listening, shuttingDown, arrivals, history>>

\* stop_receiving returned its statistics, and they are recorded.
RecordStopped ==
    /\ stopping = "no"
    /\ LoopGoto("stopping", IF cur = Signal THEN "leaving" ELSE "bottom")
    /\ AddSession
    /\ UNCHANGED <<vars, cur, listening, shuttingDown, arrivals>>

KeepServing ==
    /\ LoopGoto("bottom", "top")
    /\ UNCHANGED <<vars, cur, listening, shuttingDown, arrivals, history>>

\* last_activity is set when an event is taken, so the timeout can have passed
\* after a wait that brought none, or after the seconds of a stop_receiving.
IdleExit ==
    /\ IdleTimeout
    /\ ~running
    /\ cur.kind \in {"Timeout", "StreamError"}
    /\ LoopGoto("bottom", "leaving")
    /\ UNCHANGED <<vars, cur, listening, shuttingDown, arrivals, history>>

\* handler.stop_listening, then the process exits and its threads with it.
Leave ==
    /\ LoopGoto("leaving", "exited")
    /\ listening' = FALSE
    /\ UNCHANGED <<vars, cur, shuttingDown, arrivals, history>>

LoopStep ==
    \/ StartAdvertising
    \/ NoSignal
    \/ SignalWhileReceiving \/ StopOnSignal \/ SignalWhileIdle
    \/ TakeEvent \/ WaitTimesOut
    \/ HandleAdvertisingStarted \/ HandleAdvertisingError
    \/ HandleConnection
    \/ HandleStreamStarted \/ HandleStreamStopped \/ HandleStreamError
    \/ RecordStopped
    \/ KeepServing \/ IdleExit \/ Leave

-------------------------------------------------------------------------------
(* Everything that happens beside the loop while the process lives. *)

\* The connection handler's drain thread resolved a source's address.
SourceConnects ==
    /\ listening
    /\ arrivals < MaxSessions
    /\ arrivals' = arrivals + 1
    /\ events' = Append(events, Other("ConnectionReceived"))
    /\ UNCHANGED <<running, pipeline, rtsp, stats, gst, shared>>
    /\ UNCHANGED <<loop, cur, listening, shuttingDown, history>>

SignalArrives ==
    /\ ~shuttingDown
    /\ loop # "exited"
    /\ shuttingDown' = TRUE
    /\ UNCHANGED <<vars, loop, cur, listening, arrivals, history>>

StopReceivingGoesOn == (StopTake \/ StopJoin) /\ UNCHANGED svars

SessionThread(s) ==
    /\ loop # "exited"
    /\ RtspStep(s) /\ UNCHANGED svars

StatsThread(s) ==
    /\ loop # "exited"
    /\ StatsStep(s) /\ UNCHANGED svars

SourceActs(s) ==
    /\ loop # "exited"
    /\ SourceEndsStream(s) /\ UNCHANGED svars

SNext ==
    \/ LoopStep
    \/ StopReceivingGoesOn
    \/ SourceConnects
    \/ SignalArrives
    \/ \E s \in Session :
          SessionThread(s) \/ StatsThread(s) \/ SourceActs(s)

\* The loop's thread and the receiver's threads are scheduled; sources and
\* signals come when they please.
SFairness ==
    /\ WF_allvars(LoopStep)
    /\ WF_allvars(StopReceivingGoesOn)
    /\ \A s \in Session :
          WF_allvars(SessionThread(s)) /\ WF_allvars(StatsThread(s))

SSpec == SInit /\ [][SNext]_allvars
SFairSpec == SSpec /\ SFairness

-------------------------------------------------------------------------------
(* Properties. *)

STypeOK ==
    /\ TypeOK
    /\ loop \in LoopStage
    /\ cur \in Event \cup {NoEvent, Signal}
    /\ listening \in BOOLEAN
    /\ shuttingDown \in BOOLEAN
    /\ arrivals \in 0 .. MaxSessions
    /\ history \in Seq(Session)

\* A StreamError that the loop has yet to act on.
ErrorPending ==
    \/ \E i \in 1 .. Len(events) : events[i].kind = "StreamError"
    \/ Handles("StreamError")

\* A receiver that claims to receive always has a session thread that can
\* still end the session, or an error the loop has yet to act on: no
\* interleaving of stale threads, stops and restarts leaves the service
\* "receiving" with nothing behind it, ignoring every new source.
NoSilentDeath ==
    running => (\E s \in Session : Accountable(s)) \/ ErrorPending

\* A session that has got as far as PLAY and shows no picture is about to end:
\* whoever emptied the slot, be it a thread of an earlier session, or never
\* filled it, has reported the error, is about to report it, or is about to
\* clear `running`.
EndAnnounced ==
    \/ ErrorPending
    \/ \E t \in Session : stats[t] = "lost" \/ rtsp[t] = "stopFlag"
NoBlindStream ==
    running /\ pipeline = NoSession
        => \A s \in Session :
              s = started /\ rtsp[s] \in {"play", "streaming"} => EndAnnounced

\* Records that are certain to be written if the loop goes on.
RecordsDue ==
    LET stopped == {i \in 1 .. Len(events) : events[i].kind = "StreamStopped"}
        sending == {s \in Session : rtsp[s] = "stopSend"}
        inHand == {x \in {1} : Handles("StreamStopped") \/ loop = "stopping"}
    IN  Cardinality(stopped) + Cardinality(sending) + Cardinality(inHand)

\* Every session that is over has its record in the history or on the way
\* there, and no record is dropped on the way, however sessions overlap and
\* whichever thread ended them: the service keeps the SessionBook.
Book == INSTANCE SessionBook
    WITH begun <- started, open <- running,
         due <- RecordsDue, records <- Len(history)
KeepsBook == Book!Spec

\* Whichever way the loop is left, the receiver was stopped.
ExitsStopped == loop = "exited" => ~running

\* A signal ends the process: stop_receiving is bounded, and the loop comes
\* back to the flag however many events keep arriving.
SignalEndsProcess == shuttingDown ~> loop = "exited"

\* A session whose thread is gone does not keep the receiver busy: the loop
\* frees it for the next source, or leaves.
DeadSessionIsReleased ==
    (running /\ \A s \in Session : ~Accountable(s))
        ~> (~running \/ loop = "exited")

===============================================================================
