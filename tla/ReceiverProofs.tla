---------------------------- MODULE ReceiverProofs ----------------------------
(***************************************************************************)
(* What holds of Receiver for every number of sessions, every number of    *)
(* bus messages, and with or without a main loop behind the bus watch.     *)
(*                                                                         *)
(* SlotIsPlaying is not inductive: it needs to know that a pipeline that   *)
(* is still a local of its thread, or not built yet, is not in the slot    *)
(* (SlotInv).  OneClient needs to know that the one thread that may still  *)
(* act is the one the join handle names, and that a receiver seen stopped  *)
(* from outside stop_receiving has no such thread (ClientInv).             *)
(***************************************************************************)
EXTENDS Receiver, TLAPS

EarlyStage == {"unborn", "connecting", "timedOut", "handshake", "building"}

SlotInv ==
    /\ SlotIsPlaying
    /\ \A s \in Session : s > started => rtsp[s] = "unborn"
    /\ \A s \in Session :
          rtsp[s] = "holding" => gst[s] = "playing"
    /\ \A s \in Session :
          rtsp[s] \in EarlyStage \cup {"holding"} => pipeline # s

ClientInv ==
    detached = {} =>
        /\ \A s \in Session : Accountable(s) => s = started /\ s = rtspThread
        /\ ~running /\ stopping = "no" =>
              \A s \in Session : ~Accountable(s)

\* Session numbers and the mark for "none" are told apart.
LEMMA SessionFacts ==
    /\ NoSession \notin Session
    /\ \A s \in Session : s \in Nat /\ s >= 1
  BY ReceiverAssumption DEF Session, NoSession

\* Emptying the slot keeps the pipelines' states well typed.
LEMMA TakePipelineType ==
    ASSUME TypeOK, TakePipeline
    PROVE  /\ pipeline' \in Session \cup {NoSession}
           /\ gst' \in [Session -> {"none", "playing", "null"}]
  BY DEF TypeOK, TakePipeline

\* Sending keeps the channel well typed.
LEMMA SendType ==
    ASSUME TypeOK, NEW kind \in StreamKind, NEW s \in Session, Send(kind, s)
    PROVE  events' \in Seq(Event)
  <1>1. [kind |-> kind, from |-> s] \in Event
    BY DEF Event, EventKind
  <1>. QED
    BY <1>1 DEF TypeOK, Send

-------------------------------------------------------------------------------
LEMMA TypeInit == Init => TypeOK
  <1>. SUFFICES ASSUME Init PROVE TypeOK
    OBVIOUS
  <1>1. started \in 0 .. MaxSessions /\ busMsgs \in 0 .. MaxBusMsgs
    BY ReceiverAssumption DEF Init
  <1>2. events \in Seq(Event)
    BY DEF Init
  <1>3. /\ rtsp \in [Session -> RtspStage]
        /\ stats \in [Session -> StatsStage]
        /\ gst \in [Session -> {"none", "playing", "null"}]
    BY DEF Init, RtspStage, StatsStage
  <1>. QED
    BY <1>1, <1>2, <1>3, Zenon DEF Init, TypeOK

\* The caller's steps preserve the types.
LEMMA TypeCaller ==
    ASSUME TypeOK,
           StartReceiving \/ StopFlag \/ StopTake \/ StopJoin \/ ReceiveEvent
    PROVE  TypeOK'
  <1>. USE ReceiverAssumption, SessionFacts
  <1>1. CASE StartReceiving
    BY <1>1 DEF TypeOK, StartReceiving, RtspStage, Session
  <1>2. CASE StopFlag
    BY <1>2 DEF TypeOK, StopFlag
  <1>3. CASE StopTake
    BY <1>3, TakePipelineType DEF TypeOK, StopTake
  <1>4. CASE StopJoin
    BY <1>4 DEF TypeOK, StopJoin
  <1>5. CASE ReceiveEvent
    BY <1>5 DEF TypeOK, ReceiveEvent
  <1>. QED
    BY <1>1, <1>2, <1>3, <1>4, <1>5

\* The rtsp-client thread's steps preserve the types.
LEMMA TypeRtsp ==
    ASSUME TypeOK, NEW s \in Session, RtspStep(s) \/ SourceEndsStream(s)
    PROVE  TypeOK'
  <1>. USE DEF TypeOK, RtspGoto, RtspStage, StatsStage, shared
  <1>1. CASE ConnectToSource(s) \/ ConnectGivesUp(s) \/ Negotiate(s)
               \/ NegotiationFails(s) \/ PlayRefused(s) \/ RunFails(s)
               \/ StreamingLoopEnds(s) \/ SourceEndsStream(s)
    BY <1>1 DEF ConnectToSource, ConnectGivesUp, Negotiate, NegotiationFails,
                PlayRefused, RunFails, StreamingLoopEnds, SourceEndsStream
  <1>2. CASE ReportConnectFailure(s) \/ PlayAccepted(s) \/ EmitStopped(s)
               \/ ReportError(s) \/ StartPipelineFails(s)
    <2>1. events' \in Seq(Event)
      BY <1>2, SendType DEF ReportConnectFailure, PlayAccepted, EmitStopped,
                            ReportError, StartPipelineFails, StreamKind
    <2>. QED
      BY <1>2, <2>1 DEF ReportConnectFailure, PlayAccepted, EmitStopped,
                        ReportError, StartPipelineFails
  <1>3. CASE PipelineReachesPlaying(s) \/ StorePipeline(s) \/ ClearRunning(s)
    BY <1>3 DEF PipelineReachesPlaying, StorePipeline, ClearRunning
  <1>4. CASE StopPipeline(s)
    BY <1>4, TakePipelineType DEF StopPipeline
  <1>. QED
    BY <1>1, <1>2, <1>3, <1>4 DEF RtspStep

\* The stats-monitor thread's steps preserve the types.
LEMMA TypeStats ==
    ASSUME TypeOK, NEW s \in Session, StatsStep(s)
    PROVE  TypeOK'
  <1>. USE DEF TypeOK, StatsGoto, StatsStage, shared
  <1>1. CASE StatsSleeps(s) \/ StatsWakes(s) \/ StatsSamples(s)
    BY <1>1 DEF StatsSleeps, StatsWakes, StatsSamples
  <1>2. CASE RtpTimeout(s)
    BY <1>2, TakePipelineType DEF RtpTimeout
  <1>3. CASE StatsReports(s)
    BY <1>3, SendType DEF StatsReports, StreamKind
  <1>. QED
    BY <1>1, <1>2, <1>3 DEF StatsStep

\* The bus watch's steps preserve the types.
LEMMA TypeBus ==
    ASSUME TypeOK, NEW s \in Session, BusStep(s)
    PROVE  TypeOK'
  <1>. USE DEF TypeOK
  <1>0. ASSUME BusCallback PROVE busMsgs' \in 0 .. MaxBusMsgs
    BY <1>0, ReceiverAssumption DEF BusCallback
  <1>1. CASE BusDecodeError(s)
    BY <1>0, <1>1, TakePipelineType, Zenon DEF BusDecodeError
  <1>2. CASE BusError(s)
    <2>1. events' \in Seq(Event)
      BY <1>2, SendType DEF BusError, StreamKind
    <2>. QED
      BY <1>0, <1>2, <2>1, Zenon DEF BusError
  <1>3. CASE BusEos(s)
    <2>1. events' \in Seq(Event)
      BY <1>3, SendType DEF BusEos, StreamKind
    <2>2. detached' \in SUBSET Session
      BY <1>3 DEF BusEos
    <2>. QED
      BY <1>0, <1>3, <2>1, <2>2, TakePipelineType, Zenon DEF BusEos
  <1>. QED
    BY <1>1, <1>2, <1>3 DEF BusStep

LEMMA TypeStep == TypeOK /\ [Next]_vars => TypeOK'
  <1>. SUFFICES ASSUME TypeOK, [Next]_vars PROVE TypeOK'
    OBVIOUS
  <1>1. CASE UNCHANGED vars
    BY <1>1 DEF TypeOK, vars
  <1>2. CASE Next
    BY <1>2, TypeCaller, TypeRtsp, TypeStats, TypeBus DEF Next
  <1>. QED
    BY <1>1, <1>2

\* Every variable of the receiver keeps its type, however callers, threads and
\* bus callbacks interleave.
THEOREM TypeCorrect == Spec => []TypeOK
  BY TypeInit, TypeStep, PTL DEF Spec

-------------------------------------------------------------------------------
LEMMA SlotInit == Init => SlotInv
  BY SessionFacts DEF Init, SlotInv, SlotIsPlaying, EarlyStage

\* Emptying the slot disturbs no pipeline that is not in it.
LEMMA SlotTaken ==
    ASSUME TypeOK, SlotInv, TakePipeline, UNCHANGED <<rtsp, started>>
    PROVE  SlotInv'
  BY SessionFacts DEF TypeOK, SlotInv, SlotIsPlaying, TakePipeline, EarlyStage

\* A step that leaves the slot and the pipelines alone, and moves a thread, if
\* it moves one, to a stage in which its pipeline may be anywhere or to a later
\* early stage, keeps the invariant.
LEMMA SlotKept ==
    ASSUME TypeOK, SlotInv, UNCHANGED <<pipeline, gst, started>>,
           \A s \in Session :
              \/ rtsp'[s] = rtsp[s]
              \/ /\ rtsp[s] # "unborn"
                 /\ rtsp'[s] \in EarlyStage => rtsp[s] \in EarlyStage
                 /\ rtsp'[s] # "holding"
    PROVE  SlotInv'
  BY DEF TypeOK, SlotInv, SlotIsPlaying, EarlyStage

LEMMA SlotCaller ==
    ASSUME TypeOK, SlotInv,
           StartReceiving \/ StopFlag \/ StopTake \/ StopJoin \/ ReceiveEvent
    PROVE  SlotInv'
  <1>1. CASE StartReceiving
    \* A session never starts twice: its thread was unborn, so its pipeline is
    \* not in the slot.
    <2>1. started + 1 \in Session
      BY <1>1, ReceiverAssumption DEF StartReceiving, TypeOK, Session
    <2>. QED
      BY <1>1, <2>1 DEF StartReceiving, TypeOK, SlotInv, SlotIsPlaying,
                        EarlyStage
  <1>2. CASE StopTake
    BY <1>2, SlotTaken DEF StopTake
  <1>3. CASE StopFlag \/ StopJoin \/ ReceiveEvent
    BY <1>3, SlotKept DEF StopFlag, StopJoin, ReceiveEvent
  <1>. QED
    BY <1>1, <1>2, <1>3

LEMMA SlotRtsp ==
    ASSUME TypeOK, SlotInv, NEW s \in Session,
           RtspStep(s) \/ SourceEndsStream(s)
    PROVE  SlotInv'
  <1>. USE DEF RtspGoto, shared, EarlyStage
  <1>1. CASE ConnectToSource(s) \/ ConnectGivesUp(s) \/ Negotiate(s)
               \/ NegotiationFails(s) \/ PlayRefused(s) \/ RunFails(s)
               \/ StreamingLoopEnds(s) \/ SourceEndsStream(s)
    BY <1>1, SlotKept DEF TypeOK, ConnectToSource, ConnectGivesUp, Negotiate,
          NegotiationFails, PlayRefused, RunFails, StreamingLoopEnds,
          SourceEndsStream
  <1>2. CASE ReportConnectFailure(s) \/ PlayAccepted(s) \/ EmitStopped(s)
               \/ ReportError(s) \/ StartPipelineFails(s) \/ ClearRunning(s)
    BY <1>2, SlotKept DEF TypeOK, ReportConnectFailure, PlayAccepted,
          EmitStopped, ReportError, StartPipelineFails, ClearRunning
  <1>3. CASE PipelineReachesPlaying(s)
    BY <1>3 DEF PipelineReachesPlaying, TypeOK, SlotInv, SlotIsPlaying
  <1>4. CASE StorePipeline(s)
    BY <1>4 DEF StorePipeline, TypeOK, SlotInv, SlotIsPlaying
  <1>5. CASE StopPipeline(s)
    BY <1>5, SessionFacts DEF StopPipeline, TakePipeline, TypeOK, SlotInv,
          SlotIsPlaying
  <1>. QED
    BY <1>1, <1>2, <1>3, <1>4, <1>5 DEF RtspStep

LEMMA SlotOthers ==
    ASSUME TypeOK, SlotInv, NEW s \in Session, StatsStep(s) \/ BusStep(s)
    PROVE  SlotInv'
  <1>1. CASE StatsSleeps(s) \/ StatsWakes(s) \/ StatsSamples(s)
               \/ StatsReports(s) \/ BusError(s)
    BY <1>1, SlotKept DEF StatsSleeps, StatsWakes, StatsSamples, StatsReports,
          BusError, shared
  <1>2. CASE RtpTimeout(s) \/ BusDecodeError(s) \/ BusEos(s)
    BY <1>2, SlotTaken DEF RtpTimeout, BusDecodeError, BusEos, shared
  <1>. QED
    BY <1>1, <1>2 DEF StatsStep, BusStep

LEMMA SlotStep == TypeOK /\ SlotInv /\ [Next]_vars => SlotInv'
  <1>. SUFFICES ASSUME TypeOK, SlotInv, [Next]_vars PROVE SlotInv'
    OBVIOUS
  <1>1. CASE UNCHANGED vars
    BY <1>1, SlotKept DEF vars
  <1>2. CASE Next
    BY <1>2, SlotCaller, SlotRtsp, SlotOthers DEF Next
  <1>. QED
    BY <1>1, <1>2

\* A pipeline in the slot is a playing one, for every number of sessions: no
\* two threads' stops and stores leave a dead pipeline to be shown or measured.
THEOREM SlotAlwaysPlaying == Spec => []SlotIsPlaying
  <1>1. SlotInv => SlotIsPlaying
    BY DEF SlotInv
  <1>. QED
    BY <1>1, SlotInit, SlotStep, TypeCorrect, PTL DEF Spec

-------------------------------------------------------------------------------
LEMMA ClientInit == Init => ClientInv
  BY DEF Init, ClientInv, Accountable

\* A step that starts, joins and revives nothing keeps the invariant, if it
\* clears `running` only together with the last accountable thread or inside
\* stop_receiving.
LEMMA ClientKept ==
    ASSUME TypeOK, ClientInv, UNCHANGED <<started, rtspThread, detached>>,
           \A t \in Session : Accountable(t)' => Accountable(t),
           ~running' /\ stopping' = "no" =>
              \/ ~running /\ stopping = "no"
              \/ detached = {} => \A t \in Session : ~Accountable(t)'
    PROVE  ClientInv'
  BY DEF ClientInv

LEMMA ClientCaller ==
    ASSUME TypeOK, ClientInv,
           StartReceiving \/ StopFlag \/ StopTake \/ StopJoin \/ ReceiveEvent
    PROVE  ClientInv'
  <1>1. CASE StartReceiving
    BY <1>1, ReceiverAssumption
    DEF StartReceiving, TypeOK, ClientInv, Accountable, Session
  <1>2. CASE StopJoin
    \* Either the joined thread is done, and it was the only accountable one,
    \* or it is added to `detached`.
    BY <1>2 DEF StopJoin, TypeOK, ClientInv, Accountable
  <1>3. CASE StopFlag \/ StopTake \/ ReceiveEvent
    BY <1>3, ClientKept DEF StopFlag, StopTake, ReceiveEvent, Accountable
  <1>. QED
    BY <1>1, <1>2, <1>3

LEMMA ClientRtsp ==
    ASSUME TypeOK, ClientInv, NEW s \in Session,
           RtspStep(s) \/ SourceEndsStream(s)
    PROVE  ClientInv'
  <1>. USE DEF RtspGoto, shared, Accountable
  <1>1. CASE ClearRunning(s)
    \* While nothing is detached, the thread that clears `running` was the only
    \* accountable one, and it no longer is.
    BY <1>1 DEF ClearRunning, TypeOK, ClientInv
  <1>2. CASE ConnectToSource(s) \/ ConnectGivesUp(s) \/ Negotiate(s)
               \/ NegotiationFails(s) \/ PlayRefused(s) \/ RunFails(s)
               \/ StreamingLoopEnds(s) \/ SourceEndsStream(s)
    BY <1>2, ClientKept DEF TypeOK, ConnectToSource, ConnectGivesUp, Negotiate,
          NegotiationFails, PlayRefused, RunFails, StreamingLoopEnds,
          SourceEndsStream
  <1>3. CASE ReportConnectFailure(s) \/ PlayAccepted(s) \/ EmitStopped(s)
               \/ ReportError(s) \/ StartPipelineFails(s)
               \/ PipelineReachesPlaying(s) \/ StorePipeline(s)
               \/ StopPipeline(s)
    BY <1>3, ClientKept DEF TypeOK, ReportConnectFailure, PlayAccepted,
          EmitStopped, ReportError, StartPipelineFails,
          PipelineReachesPlaying, StorePipeline, StopPipeline
  <1>. QED
    BY <1>1, <1>2, <1>3 DEF RtspStep

LEMMA ClientOthers ==
    ASSUME TypeOK, ClientInv, NEW s \in Session, StatsStep(s) \/ BusStep(s)
    PROVE  ClientInv'
  <1>1. CASE StatsStep(s) \/ BusDecodeError(s) \/ BusError(s)
    BY <1>1, ClientKept DEF StatsStep, StatsSleeps, StatsWakes, StatsSamples,
          RtpTimeout, StatsReports, BusDecodeError, BusError, shared,
          Accountable
  <1>2. CASE BusEos(s)
    \* End of stream detaches every live thread, so either nothing is left to
    \* say or no thread lived.
    BY <1>2 DEF BusEos, TypeOK, ClientInv, Accountable, RtspAlive
  <1>. QED
    BY <1>1, <1>2 DEF BusStep

LEMMA ClientStep == TypeOK /\ ClientInv /\ [Next]_vars => ClientInv'
  <1>. SUFFICES ASSUME TypeOK, ClientInv, [Next]_vars PROVE ClientInv'
    OBVIOUS
  <1>1. CASE UNCHANGED vars
    BY <1>1, ClientKept DEF vars, Accountable
  <1>2. CASE Next
    BY <1>2, ClientCaller, ClientRtsp, ClientOthers DEF Next
  <1>. QED
    BY <1>1, <1>2

LEMMA ClientAlways == Spec => [](TypeOK /\ ClientInv)
  BY ClientInit, ClientStep, TypeCorrect, PTL DEF Spec

\* Until a session was declared over while its thread lived on, the only
\* rtsp-client thread with anything left to do is the latest session's.
THEOREM OneClientAtATime == Spec => []OneClient
  <1>1. ClientInv => OneClient
    BY DEF ClientInv, OneClient
  <1>. QED
    BY <1>1, ClientAlways, PTL

===============================================================================
