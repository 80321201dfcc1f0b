------------------------------- MODULE Receiver -------------------------------
(***************************************************************************)
(* The stream receiver of src/receiver.rs: one MiracastReceiver object,    *)
(* the rtsp-client thread that every session spawns, the stats-monitor     *)
(* thread that every started pipeline spawns, the GStreamer bus watch, and *)
(* the state they share: the `running` flag, the one pipeline slot, the    *)
(* sticky `use_hw_decode` flag and the event channel.                      *)
(*                                                                         *)
(* A session is a call of start_receiving that was not ignored.  Sessions  *)
(* are numbered in the order they start, and a session's number also names *)
(* its rtsp-client thread, its pipeline and its stats-monitor thread.      *)
(*                                                                         *)
(* Every atomic load or store and every lock section that another thread   *)
(* can observe is a step of its own, except inside a bus-watch callback,   *)
(* which is one step.  The caller (the GTK main loop or the                *)
(* service loop) is left free here: it may start, stop or drain an event   *)
(* whenever it is not already inside stop_receiving.  ServiceLoop composes *)
(* this module with the real service loop.                                 *)
(***************************************************************************)
EXTENDS Naturals, Sequences

CONSTANTS MaxSessions,   \* bound: how many sessions a behaviour may start
          MaxBusMsgs,    \* bound: how many bus messages GStreamer may post
          BusWatch       \* are bus-watch callbacks dispatched by a main loop?

ASSUME ReceiverAssumption ==
    /\ MaxSessions \in Nat \ {0}
    /\ MaxBusMsgs \in Nat
    /\ BusWatch \in BOOLEAN

Session == 1 .. MaxSessions
NoSession == 0

VARIABLES
    running,      \* RxState.running, shared by every session
    pipeline,     \* the pipeline slot: the session whose pipeline it holds
    useHwDecode,  \* RxState.use_hw_decode, never set back to TRUE
    started,      \* how many sessions were started; the latest one's number
    rtspThread,   \* the join handle: the session of the thread it joins
    stopping,     \* how far the caller is inside stop_receiving
    rtsp,         \* per session: where its rtsp-client thread is
    stats,        \* per session: where its stats-monitor thread is
    gst,          \* per session: the state of the pipeline it built
    events,       \* the event channel, oldest first
    busMsgs,      \* how many bus messages were dispatched so far
    detached      \* history: threads outlived by the end of their session

vars == <<running, pipeline, useHwDecode, started, rtspThread, stopping,
          rtsp, stats, gst, events, busMsgs, detached>>

RtspStage == {"unborn", "connecting", "timedOut", "handshake", "building",
              "holding", "play", "streaming", "stopTake", "stopFlag",
              "stopSend", "failed", "reporting", "done"}
StatsStage == {"none", "loop", "asleep", "sampling", "lost", "done"}
\* The events of events.rs a caller acts on.  `from` is the session a receiver
\* event is about: the code does not carry it, so no action reads it.
StreamKind == {"StreamStarted", "StreamStopped", "StreamError"}
EventKind == StreamKind \cup
    {"AdvertisingStarted", "AdvertisingError", "ConnectionReceived"}
Event == [kind : EventKind, from : Session \cup {NoSession}]

(***************************************************************************)
(* A thread in one of these stages can outlive the 5 s join of             *)
(* stop_receiving: a connect attempt and its pause last up to 6 s, an RTSP *)
(* read up to 30 s, a pipeline start 3 s per attempt.  Every other stage   *)
(* ends within the 110 ms of one turn of the streaming loop.               *)
(***************************************************************************)
SlowStage == {"connecting", "handshake", "building", "play"}

\* The thread still owns its session: it can still report or clear `running`.
Accountable(s) == rtsp[s] \notin {"unborn", "stopSend", "done"}
RtspAlive(s) == rtsp[s] \notin {"unborn", "done"}
StatsAlive(s) == stats[s] \notin {"none", "done"}

\* start_receiving stores source_info and nothing ever clears it: once set it
\* describes the latest session.
SourceInfo == started

Init ==
    /\ running = FALSE
    /\ pipeline = NoSession
    /\ useHwDecode = TRUE
    /\ started = 0
    /\ rtspThread = NoSession
    /\ stopping = "no"
    /\ rtsp = [s \in Session |-> "unborn"]
    /\ stats = [s \in Session |-> "none"]
    /\ gst = [s \in Session |-> "none"]
    /\ events = <<>>
    /\ busMsgs = 0
    /\ detached = {}

Send(kind, s) == events' = Append(events, [kind |-> kind, from |-> s])

\* Mutation of TakePipeline: the pipeline is paused, not stopped.
TakePipelinePaused ==
    /\ pipeline' = NoSession
    /\ gst' = [s \in Session |-> IF s = pipeline THEN "paused" ELSE gst[s]]

\* pipeline.lock().take() and set_state(Null), one lock section: whichever
\* session's pipeline the slot holds is the one that is stopped.
TakePipeline ==
    /\ pipeline' = NoSession
    /\ gst' = [s \in Session |-> IF s = pipeline THEN "null" ELSE gst[s]]

RtspGoto(s, from, to) ==
    /\ rtsp[s] = from
    /\ rtsp' = [rtsp EXCEPT ![s] = to]

StatsGoto(s, from, to) ==
    /\ stats[s] = from
    /\ stats' = [stats EXCEPT ![s] = to]

-------------------------------------------------------------------------------
(* The caller: start_receiving, stop_receiving, and draining the channel. *)

\* start_receiving: a call while running is ignored, so it is no step.  The
\* handle of the previous thread, if any, is overwritten and never joined.
StartReceiving ==
    /\ stopping = "no"
    /\ ~running
    /\ started < MaxSessions
    /\ running' = TRUE
    /\ started' = started + 1
    /\ rtspThread' = started + 1
    /\ rtsp' = [rtsp EXCEPT ![started + 1] = "connecting"]
    /\ UNCHANGED <<pipeline, useHwDecode, stopping, stats, gst, events,
                   busMsgs, detached>>

\* stop_receiving, first statement.
StopFlag ==
    /\ stopping = "no"
    /\ stopping' = "take"
    /\ running' = FALSE
    /\ UNCHANGED <<pipeline, useHwDecode, started, rtspThread, rtsp, stats,
                   gst, events, busMsgs, detached>>

\* Mutation of StopTake: the pipeline is stopped but not taken out of the slot.
StopTakeLeavesSlot ==
    /\ stopping = "take"
    /\ stopping' = "join"
    /\ gst' = [s \in Session |-> IF s = pipeline THEN "null" ELSE gst[s]]
    /\ UNCHANGED <<running, pipeline, useHwDecode, started, rtspThread, rtsp,
                   stats, events, busMsgs, detached>>

\* stop_receiving: stop the pipeline that is in the slot at this moment.
StopTake ==
    /\ stopping = "take"
    /\ stopping' = "join"
    /\ TakePipeline
    /\ UNCHANGED <<running, useHwDecode, started, rtspThread, rtsp, stats,
                   events, busMsgs, detached>>

\* Mutation of StopJoin: the thread is not joined at all.
StopNoJoin ==
    /\ stopping = "join"
    /\ stopping' = "no"
    /\ rtspThread' = NoSession
    /\ UNCHANGED <<running, pipeline, useHwDecode, started, rtsp, stats, gst,
                   events, busMsgs, detached>>

\* join_with_timeout on the rtsp thread: it ends, or the budget expires and the
\* thread is left running.  stats_thread is never set, so it is never joined.
StopJoin ==
    /\ stopping = "join"
    /\ \/ /\ \A s \in Session : s = rtspThread => rtsp[s] = "done"
          /\ detached' = detached
       \/ /\ \E s \in Session : s = rtspThread /\ rtsp[s] \in SlowStage
          /\ detached' = detached \cup {rtspThread}
    /\ stopping' = "no"
    /\ rtspThread' = NoSession
    /\ UNCHANGED <<running, pipeline, useHwDecode, started, rtsp, stats, gst,
                   events, busMsgs>>

\* The caller takes the oldest event off the channel.
ReceiveEvent ==
    /\ stopping = "no"
    /\ events # <<>>
    /\ events' = Tail(events)
    /\ UNCHANGED <<running, pipeline, useHwDecode, started, rtspThread,
                   stopping, rtsp, stats, gst, busMsgs, detached>>

-------------------------------------------------------------------------------
(* The rtsp-client thread: SessionCtx::run, run_inner and what they call. *)

shared == <<useHwDecode, started, rtspThread, stopping, busMsgs, detached>>

\* connect_to_source: an attempt succeeds, perhaps one begun before a stop.
ConnectToSource(s) ==
    /\ RtspGoto(s, "connecting", "handshake")
    /\ UNCHANGED <<running, pipeline, stats, gst, events, shared>>

\* connect_to_source: the loop ends, on the deadline or on ~running; `running`
\* is read again to decide whether to report.
ConnectGivesUp(s) ==
    /\ RtspGoto(s, "connecting", IF running THEN "timedOut" ELSE "failed")
    /\ UNCHANGED <<running, pipeline, stats, gst, events, shared>>

ReportConnectFailure(s) ==
    /\ RtspGoto(s, "timedOut", "failed")
    /\ Send("StreamError", s)
    /\ UNCHANGED <<running, pipeline, stats, gst, shared>>

\* M1 to M6: they touch nothing another session or thread looks at.
Negotiate(s) ==
    /\ RtspGoto(s, "handshake", "building")
    /\ UNCHANGED <<running, pipeline, stats, gst, events, shared>>

\* M1 to M6: a read or write fails, and run_inner returns the error.
NegotiationFails(s) ==
    /\ RtspGoto(s, "handshake", "failed")
    /\ UNCHANGED <<running, pipeline, stats, gst, events, shared>>

\* start_pipeline: an attempt cannot be built, or every attempt failed.  It is
\* reported, and run_inner goes on to PLAY all the same.
StartPipelineFails(s) ==
    /\ RtspGoto(s, "building", "play")
    /\ Send("StreamError", s)
    /\ useHwDecode' \in {useHwDecode, FALSE}
    /\ UNCHANGED <<running, pipeline, stats, gst, started, rtspThread,
                   stopping, busMsgs, detached>>

\* start_pipeline: an attempt reached PLAYING; the pipeline is still a local.
PipelineReachesPlaying(s) ==
    /\ RtspGoto(s, "building", "holding")
    /\ gst' = [gst EXCEPT ![s] = "playing"]
    /\ useHwDecode' \in {useHwDecode, FALSE}
    /\ UNCHANGED <<running, pipeline, stats, events, started, rtspThread,
                   stopping, busMsgs, detached>>

\* start_pipeline: the slot is filled, whatever `running` says by now and
\* whatever pipeline was in it, and the stats-monitor thread is spawned.
StorePipeline(s) ==
    /\ RtspGoto(s, "holding", "play")
    /\ pipeline' = s
    /\ stats' = [stats EXCEPT ![s] = "loop"]
    /\ UNCHANGED <<running, gst, events, shared>>

PlayRefused(s) ==
    /\ RtspGoto(s, "play", "failed")
    /\ UNCHANGED <<running, pipeline, stats, gst, events, shared>>

PlayAccepted(s) ==
    /\ RtspGoto(s, "play", "streaming")
    /\ Send("StreamStarted", s)
    /\ UNCHANGED <<running, pipeline, stats, gst, shared>>

\* Mutation of StreamingLoopEnds: the loop does not look at `running`.
StreamingLoopForever(s) == FALSE /\ UNCHANGED vars

\* streaming_loop: `running` is false, and the thread ends without a word.
StreamingLoopEnds(s) ==
    /\ ~running
    /\ RtspGoto(s, "streaming", "done")
    /\ UNCHANGED <<running, pipeline, stats, gst, events, shared>>

\* streaming_loop: end of file, TEARDOWN or a socket error.
SourceEndsStream(s) ==
    /\ RtspGoto(s, "streaming", "stopTake")
    /\ UNCHANGED <<running, pipeline, stats, gst, events, shared>>

\* stop_pipeline_and_emit, its three shared steps.
StopPipeline(s) ==
    /\ RtspGoto(s, "stopTake", "stopFlag")
    /\ TakePipeline
    /\ UNCHANGED <<running, stats, events, shared>>

ClearRunning(s) ==
    /\ RtspGoto(s, "stopFlag", "stopSend")
    /\ running' = FALSE
    /\ UNCHANGED <<pipeline, stats, gst, events, shared>>

EmitStopped(s) ==
    /\ RtspGoto(s, "stopSend", "done")
    /\ Send("StreamStopped", s)
    /\ UNCHANGED <<running, pipeline, stats, gst, shared>>

\* Mutation of RunFails: the thread ends without reporting the error.
RunFailsSilently(s) ==
    /\ RtspGoto(s, "failed", "done")
    /\ UNCHANGED <<running, pipeline, stats, gst, events, shared>>

\* run: the error is reported only if `running` still holds when it is read.
RunFails(s) ==
    /\ RtspGoto(s, "failed", IF running THEN "reporting" ELSE "done")
    /\ UNCHANGED <<running, pipeline, stats, gst, events, shared>>

ReportError(s) ==
    /\ RtspGoto(s, "reporting", "done")
    /\ Send("StreamError", s)
    /\ UNCHANGED <<running, pipeline, stats, gst, shared>>

\* What the thread does on its own; only the source decides SourceEndsStream.
RtspStep(s) ==
    \/ ConnectToSource(s) \/ ConnectGivesUp(s) \/ ReportConnectFailure(s)
    \/ Negotiate(s) \/ NegotiationFails(s)
    \/ StartPipelineFails(s) \/ PipelineReachesPlaying(s) \/ StorePipeline(s)
    \/ PlayRefused(s) \/ PlayAccepted(s) \/ StreamingLoopEnds(s)
    \/ StopPipeline(s) \/ ClearRunning(s) \/ EmitStopped(s)
    \/ RunFails(s) \/ ReportError(s)

-------------------------------------------------------------------------------
(* The stats-monitor thread: StatsCtx::run.  StatsUpdated events are left   *)
(* out: no caller changes any state on them.                               *)

\* Mutation of StatsRuns: only the pipeline slot is looked at.
StatsRunsUnstopped == pipeline # NoSession

StatsRuns == running /\ pipeline # NoSession

StatsSleeps(s) ==
    /\ StatsGoto(s, "loop", IF StatsRuns THEN "asleep" ELSE "done")
    /\ UNCHANGED <<running, pipeline, rtsp, gst, events, shared>>

StatsWakes(s) ==
    /\ StatsGoto(s, "asleep", IF StatsRuns THEN "sampling" ELSE "done")
    /\ UNCHANGED <<running, pipeline, rtsp, gst, events, shared>>

StatsSamples(s) ==
    /\ StatsGoto(s, "sampling", "loop")
    /\ UNCHANGED <<running, pipeline, rtsp, gst, events, shared>>

\* No RTP for 15 s: the slot is emptied, whoever filled it, and the thread
\* reports; `running` is left to the caller.
RtpTimeout(s) ==
    /\ StatsGoto(s, "sampling", "lost")
    /\ TakePipeline
    /\ UNCHANGED <<running, rtsp, events, shared>>

\* Mutation of StatsReports: the thread ends without reporting the loss.
StatsReportsNothing(s) ==
    /\ StatsGoto(s, "lost", "done")
    /\ UNCHANGED <<running, pipeline, rtsp, gst, events, shared>>

StatsReports(s) ==
    /\ StatsGoto(s, "lost", "done")
    /\ Send("StreamError", s)
    /\ UNCHANGED <<running, pipeline, rtsp, gst, shared>>

StatsStep(s) ==
    \/ StatsSleeps(s) \/ StatsWakes(s) \/ StatsSamples(s)
    \/ RtpTimeout(s) \/ StatsReports(s)

-------------------------------------------------------------------------------
(* The bus watch of a pipeline.  A callback runs on the caller's own thread *)
(* between two of its turns, so it is one step for the caller.              *)

BusCallback ==
    /\ BusWatch
    /\ stopping = "no"
    /\ busMsgs < MaxBusMsgs
    /\ busMsgs' = busMsgs + 1

\* A pipeline posts messages while it plays, and a failing attempt may post one
\* that the main loop dispatches before start_pipeline drains the bus.
BusOpen(s) == gst[s] = "playing" \/ rtsp[s] = "building"

\* A decode error while use_hw_decode holds: the slot is emptied and the flag
\* cleared.  No pipeline is built and no event is sent.
BusDecodeError(s) ==
    /\ BusCallback
    /\ BusOpen(s)
    /\ useHwDecode
    /\ useHwDecode' = FALSE
    /\ TakePipeline
    /\ UNCHANGED <<running, started, rtspThread, stopping, rtsp, stats,
                   events, detached>>

\* Any other error.
BusError(s) ==
    /\ BusCallback
    /\ BusOpen(s)
    /\ Send("StreamError", s)
    /\ UNCHANGED <<running, pipeline, useHwDecode, started, rtspThread,
                   stopping, rtsp, stats, gst, detached>>

\* End of stream: `running` is cleared but the rtsp thread is not joined.
BusEos(s) ==
    /\ BusCallback
    /\ gst[s] = "playing"
    /\ TakePipeline
    /\ Send("StreamStopped", s)
    /\ running' = FALSE
    /\ detached' = detached \cup {t \in Session : RtspAlive(t)}
    /\ UNCHANGED <<useHwDecode, started, rtspThread, stopping, rtsp, stats>>

BusStep(s) == BusDecodeError(s) \/ BusError(s) \/ BusEos(s)

-------------------------------------------------------------------------------
Next ==
    \/ StartReceiving
    \/ StopFlag \/ StopTake \/ StopJoin
    \/ ReceiveEvent
    \/ \E s \in Session :
          RtspStep(s) \/ SourceEndsStream(s) \/ StatsStep(s) \/ BusStep(s)

(***************************************************************************)
(* The scheduler runs every thread, every wait of a thread has a timeout,  *)
(* and stop_receiving runs to its end.  Nothing is assumed of the source,  *)
(* of the bus or of when the caller starts, stops or drains.               *)
(***************************************************************************)
Fairness ==
    /\ \A s \in Session : WF_vars(RtspStep(s)) /\ WF_vars(StatsStep(s))
    /\ WF_vars(StopTake) /\ WF_vars(StopJoin)

Spec == Init /\ [][Next]_vars
FairSpec == Spec /\ Fairness

-------------------------------------------------------------------------------
(* Properties. *)

TypeOK ==
    /\ running \in BOOLEAN
    /\ pipeline \in Session \cup {NoSession}
    /\ useHwDecode \in BOOLEAN
    /\ started \in 0 .. MaxSessions
    /\ rtspThread \in Session \cup {NoSession}
    /\ stopping \in {"no", "take", "join"}
    /\ rtsp \in [Session -> RtspStage]
    /\ stats \in [Session -> StatsStage]
    /\ gst \in [Session -> {"none", "playing", "null"}]
    /\ events \in Seq(Event)
    /\ busMsgs \in 0 .. MaxBusMsgs
    /\ detached \in SUBSET Session

\* The slot never holds a pipeline that does not play: the rtsp threads, the
\* stats threads, the bus watch and the caller all empty it before or while
\* they stop what it held, and it is filled only with a playing pipeline.
SlotIsPlaying == pipeline # NoSession => gst[pipeline] = "playing"

\* Two sessions never talk to sources at once unless a session was declared
\* over while its thread lived on (an expired join, or end of stream on the
\* bus): until then the only rtsp-client thread that still has something to do
\* to the flag, the slot or the source is the latest session's.  This is about
\* rtsp-client threads.  Nobody joins a stats-monitor thread, so one that slept
\* through a stop watches the next session's pipeline beside its own monitor.
OneClient == detached = {} => \A s \in Session : Accountable(s) => s = started

\* stop_receiving always returns: the 5 s budget covers every stage in which
\* the thread can stay longer, and every other stage ends once `running` is
\* false.
StopReturns == stopping # "no" ~> stopping = "no"

\* A receiver that stays stopped falls quiet: every rtsp-client thread and
\* every stats-monitor thread that was left behind ends by itself.
FallsQuiet ==
    <>[]~running
       => <>[](\A s \in Session : ~RtspAlive(s) /\ ~StatsAlive(s))

===============================================================================
