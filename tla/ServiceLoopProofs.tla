--------------------------- MODULE ServiceLoopProofs ---------------------------
(***************************************************************************)
(* What holds of the headless service for every number of sessions.        *)
(*                                                                         *)
(* A step of the service is a step of the receiver, or changes only the    *)
(* event channel (ServiceStep), so the receiver's own invariants carry     *)
(* over.  The loop adds two: before the first session nothing of a session *)
(* exists (BeginInv), and an advertising error, while it is pending, is    *)
(* all there is (AdvertiseInv); the loop leaves on one without stopping    *)
(* the receiver, and that is safe for this reason only.                    *)
(***************************************************************************)
EXTENDS ServiceLoop, ReceiverProofs

BeginInv ==
    started = 0 =>
        /\ ~running
        /\ \A s \in Session : rtsp[s] = "unborn" /\ stats[s] = "none"
        /\ \A i \in 1 .. Len(events) : events[i].kind \notin StreamKind
        /\ cur.kind \notin StreamKind
        /\ loop \notin {"signalled", "stopping"}

AdvertisingErrorPending ==
    \/ \E i \in 1 .. Len(events) : events[i].kind = "AdvertisingError"
    \/ Handles("AdvertisingError")

AdvertiseInv ==
    /\ loop = "start" => events = <<>> /\ ~listening /\ started = 0
    /\ AdvertisingErrorPending =>
          /\ started = 0
          /\ ~listening
          /\ \A i \in 1 .. Len(events) : events[i].kind = "AdvertisingError"
          /\ ~Handles("AdvertisingStarted")
          /\ ~Handles("ConnectionReceived")

LeaveInv ==
    /\ loop \in {"stopping", "leaving", "exited"} => ~running
    /\ AdvertiseInv

\* The receiver's own threads.
Threads(s) == RtspStep(s) \/ SourceEndsStream(s) \/ StatsStep(s)

-------------------------------------------------------------------------------
\* Taking the first event leaves the others in their order.
LEMMA TailFacts ==
    ASSUME NEW S, NEW q \in Seq(S), q # <<>>
    PROVE  /\ Tail(q) \in Seq(S)
           /\ Head(q) \in S
           /\ Head(q) = q[1]
           /\ Len(Tail(q)) = Len(q) - 1
           /\ Len(q) >= 1
           /\ \A i \in 1 .. Len(Tail(q)) : Tail(q)[i] = q[i + 1]
  OBVIOUS

\* Sending adds an event after the others.
LEMMA AppendFacts ==
    ASSUME NEW S, NEW q \in Seq(S), NEW e \in S
    PROVE  /\ Append(q, e) \in Seq(S)
           /\ Len(Append(q, e)) = Len(q) + 1
           /\ \A i \in 1 .. Len(q) : Append(q, e)[i] = q[i]
           /\ Append(q, e)[Len(q) + 1] = e
  OBVIOUS

\* An event about no session is an event.
LEMMA OtherType ==
    ASSUME NEW kind \in EventKind
    PROVE  Other(kind) \in Event
  BY DEF Other, Event

\* A step of the service is one of the receiver's, puts an event on the channel
\* or takes one off it, or leaves the receiver alone.
LEMMA ServiceStep ==
    ASSUME SNext
    PROVE  \/ StartReceiving \/ StopFlag \/ StopTake \/ StopJoin
           \/ \E s \in Session : Threads(s)
           \/ StartAdvertising \/ TakeEvent \/ SourceConnects
           \/ UNCHANGED vars
  <1>1. CASE LoopStep
    BY <1>1 DEF LoopStep, NoSignal, SignalWhileReceiving,
          StopOnSignal, SignalWhileIdle, WaitTimesOut,
          HandleAdvertisingStarted, HandleAdvertisingError, HandleConnection,
          HandleStreamStarted, HandleStreamStopped, HandleStreamError,
          RecordStopped, KeepServing, IdleExit, Leave
  <1>2. CASE StopReceivingGoesOn
    BY <1>2 DEF StopReceivingGoesOn
  <1>3. CASE SourceConnects \/ SignalArrives
    BY <1>3 DEF SignalArrives
  <1>4. ASSUME NEW s \in Session,
               SessionThread(s) \/ StatsThread(s) \/ SourceActs(s)
        PROVE  Threads(s)
    BY <1>4 DEF SessionThread, StatsThread, SourceActs, Threads
  <1>. QED
    BY <1>1, <1>2, <1>3, <1>4 DEF SNext

\* The loop's own variables change only in steps of the loop, when a source
\* connects and when a signal arrives.
LEMMA LoopStill ==
    ASSUME SNext
    PROVE  LoopStep \/ SourceConnects \/ SignalArrives \/ UNCHANGED svars
  BY DEF SNext, StopReceivingGoesOn, SessionThread, StatsThread, SourceActs

\* No session thread starts a session, joins one or is detached by itself.
LEMMA ThreadsShare ==
    ASSUME NEW s \in Session, Threads(s)
    PROVE  UNCHANGED <<started, rtspThread, stopping, busMsgs, detached>>
  <1>1. CASE RtspStep(s)
    BY <1>1 DEF RtspStep, ConnectToSource, ConnectGivesUp,
          ReportConnectFailure, Negotiate, NegotiationFails,
          StartPipelineFails, PipelineReachesPlaying, StorePipeline,
          PlayRefused, PlayAccepted, StreamingLoopEnds, StopPipeline,
          ClearRunning, EmitStopped, RunFails, ReportError, shared
  <1>2. CASE SourceEndsStream(s) \/ StatsStep(s)
    BY <1>2 DEF SourceEndsStream, StatsStep, StatsSleeps, StatsWakes,
          StatsSamples, RtpTimeout, StatsReports, shared
  <1>. QED
    BY <1>1, <1>2 DEF Threads

-------------------------------------------------------------------------------
LEMMA STypeInit == SInit => STypeOK /\ BeginInv
  <1>. SUFFICES ASSUME SInit PROVE STypeOK /\ BeginInv
    OBVIOUS
  <1>1. TypeOK
    BY TypeInit DEF SInit
  <1>2. STypeOK
    <2>1. arrivals \in 0 .. MaxSessions
      BY ReceiverAssumption DEF SInit
    <2>2. history \in Seq(Session)
      BY DEF SInit
    <2>3. loop \in LoopStage
      BY DEF SInit, LoopStage
    <2>. QED
      BY <1>1, <2>1, <2>2, <2>3, Zenon DEF SInit, STypeOK
  <1>3. BeginInv
    BY DEF SInit, Init, BeginInv, NoEvent, StreamKind
  <1>. QED
    BY <1>2, <1>3

\* The receiver's variables keep their types.
LEMMA ReceiverType ==
    ASSUME STypeOK, SNext
    PROVE  TypeOK'
  <1>0. TypeOK
    BY DEF STypeOK
  <1>1. ASSUME events' \in Seq(Event),
               UNCHANGED <<running, pipeline, rtsp, stats, gst, shared>>
        PROVE  TypeOK'
    BY <1>0, <1>1 DEF TypeOK, shared
  <1>2. CASE StartAdvertising
    <2>1. PICK kind \in EventKind : events' = Append(events, Other(kind))
      BY <1>2 DEF StartAdvertising, EventKind
    <2>2. events' \in Seq(Event)
      BY <1>0, <2>1, OtherType, AppendFacts DEF TypeOK
    <2>. QED
      BY <1>1, <1>2, <2>2 DEF StartAdvertising
  <1>3. CASE TakeEvent
    <2>1. events' \in Seq(Event)
      BY <1>0, <1>3, TailFacts DEF TakeEvent, TypeOK
    <2>. QED
      BY <1>1, <1>3, <2>1 DEF TakeEvent
  <1>4. CASE SourceConnects
    <2>1. "ConnectionReceived" \in EventKind
      BY DEF EventKind
    <2>2. events' \in Seq(Event)
      BY <1>0, <1>4, <2>1, OtherType, AppendFacts DEF SourceConnects, TypeOK
    <2>. QED
      BY <1>1, <1>4, <2>2 DEF SourceConnects
  <1>5. CASE StartReceiving \/ StopFlag \/ StopTake \/ StopJoin
    BY <1>0, <1>5, TypeCaller
  <1>6. CASE \E s \in Session : Threads(s)
    BY <1>0, <1>6, TypeRtsp, TypeStats DEF Threads
  <1>7. CASE UNCHANGED vars
    BY <1>0, <1>7 DEF TypeOK, vars
  <1>. QED
    BY <1>2, <1>3, <1>4, <1>5, <1>6, <1>7, ServiceStep

\* The loop's variables keep their types: a record always names a session,
\* since the loop records only once a session was started.
LEMMA LoopType ==
    ASSUME STypeOK, BeginInv, SNext, TypeOK'
    PROVE  STypeOK'
  <1>0. /\ TypeOK
        /\ cur \in Event \cup {NoEvent, Signal}
        /\ arrivals \in 0 .. MaxSessions
        /\ history \in Seq(Session)
    BY DEF STypeOK
  <1>1. CASE UNCHANGED svars
    BY <1>1 DEF STypeOK, svars
  <1>2. CASE SourceConnects
    <2>1. arrivals' \in 0 .. MaxSessions
      BY <1>0, <1>2, ReceiverAssumption DEF SourceConnects
    <2>. QED
      BY <1>2, <2>1 DEF SourceConnects, STypeOK
  <1>3. CASE SignalArrives
    BY <1>3 DEF SignalArrives, STypeOK
  <1>4. CASE TakeEvent
    <2>1. cur' \in Event
      BY <1>0, <1>4, TailFacts DEF TakeEvent, TypeOK
    <2>. QED
      BY <1>4, <2>1 DEF TakeEvent, LoopGoto, LoopStage, STypeOK
  <1>5. CASE HandleStreamStopped \/ RecordStopped
    <2>1. started \in Session
      BY <1>0, <1>5, ReceiverAssumption
      DEF HandleStreamStopped, RecordStopped, LoopGoto, Handles, BeginInv,
          StreamKind, TypeOK, Session
    <2>2. history' \in Seq(Session)
      BY <1>0, <1>5, <2>1, AppendFacts
      DEF HandleStreamStopped, RecordStopped, AddSession, SourceInfo
    <2>. QED
      BY <1>5, <2>2 DEF HandleStreamStopped, RecordStopped, LoopGoto,
            LoopStage, STypeOK
  <1>6. CASE StartAdvertising \/ NoSignal \/ SignalWhileReceiving
               \/ StopOnSignal \/ SignalWhileIdle \/ WaitTimesOut
    BY <1>6 DEF StartAdvertising, NoSignal, SignalWhileReceiving,
          StopOnSignal, SignalWhileIdle, WaitTimesOut, LoopGoto, LoopStage,
          STypeOK
  <1>7. CASE HandleAdvertisingStarted \/ HandleAdvertisingError
               \/ HandleConnection \/ HandleStreamStarted
               \/ HandleStreamError \/ KeepServing \/ IdleExit \/ Leave
    BY <1>7 DEF HandleAdvertisingStarted, HandleAdvertisingError,
          HandleConnection, HandleStreamStarted, HandleStreamError,
          KeepServing, IdleExit, Leave, LoopGoto, LoopStage, STypeOK
  <1>. QED
    BY <1>1, <1>2, <1>3, <1>4, <1>5, <1>6, <1>7, LoopStill DEF LoopStep

\* Before the first session no thread has anything to do.
LEMMA NoThreadYet ==
    ASSUME BeginInv, started = 0, NEW s \in Session
    PROVE  ~Threads(s)
  <1>1. rtsp[s] = "unborn" /\ stats[s] = "none"
    BY DEF BeginInv
  <1>. QED
    BY <1>1 DEF Threads, RtspStep, StatsStep, SourceEndsStream,
          ConnectToSource, ConnectGivesUp, ReportConnectFailure, Negotiate,
          NegotiationFails, StartPipelineFails, PipelineReachesPlaying,
          StorePipeline, PlayRefused, PlayAccepted, StreamingLoopEnds,
          StopPipeline, ClearRunning, EmitStopped, RunFails, ReportError,
          StatsSleeps, StatsWakes, StatsSamples, RtpTimeout, StatsReports,
          RtspGoto, StatsGoto

\* Nothing of a session exists before the first session starts.
LEMMA BeginStep ==
    ASSUME STypeOK, BeginInv, SNext
    PROVE  BeginInv'
  <1>0. TypeOK /\ events \in Seq(Event)
    BY DEF STypeOK, TypeOK
  <1>. SUFFICES ASSUME started' = 0 PROVE BeginInv'
    BY DEF BeginInv
  <1>1. started = 0 /\ ~StartReceiving
    <2>1. StartReceiving => started' # 0
      BY <1>0 DEF StartReceiving, TypeOK
    <2>2. StopFlag \/ StopTake \/ StopJoin => started' = started
      BY DEF StopFlag, StopTake, StopJoin
    <2>3. \A s \in Session : Threads(s) => started' = started
      BY ThreadsShare DEF shared
    <2>4. StartAdvertising \/ TakeEvent \/ SourceConnects \/ UNCHANGED vars
             => started' = started
      BY DEF StartAdvertising, TakeEvent, SourceConnects, shared, vars
    <2>. QED
      BY <2>1, <2>2, <2>3, <2>4, ServiceStep
  <1>2. /\ ~running
        /\ \A s \in Session : rtsp[s] = "unborn" /\ stats[s] = "none"
        /\ \A i \in 1 .. Len(events) : events[i].kind \notin StreamKind
        /\ cur.kind \notin StreamKind
        /\ loop \notin {"signalled", "stopping"}
    BY <1>1 DEF BeginInv
  <1>3. \A s \in Session : ~Threads(s)
    BY <1>1, NoThreadYet
  <1>4. /\ ~running'
        /\ \A s \in Session : rtsp'[s] = "unborn" /\ stats'[s] = "none"
    <2>1. CASE StopFlag \/ StopTake \/ StopJoin
      BY <1>2, <2>1 DEF StopFlag, StopTake, StopJoin
    <2>2. CASE StartAdvertising \/ TakeEvent \/ SourceConnects \/ UNCHANGED vars
      BY <1>2, <2>2 DEF StartAdvertising, TakeEvent, SourceConnects, vars
    <2>. QED
      BY <1>1, <1>3, <2>1, <2>2, ServiceStep
  <1>5. \A i \in 1 .. Len(events') : events'[i].kind \notin StreamKind
    <2>1. CASE StartAdvertising \/ SourceConnects
      <3>1. PICK kind \in EventKind \ StreamKind :
                    events' = Append(events, Other(kind))
        BY <2>1 DEF StartAdvertising, SourceConnects, EventKind, StreamKind
      <3>2. Other(kind) \in Event /\ Other(kind).kind \notin StreamKind
        BY OtherType DEF Other
      <3>. QED
        BY <1>0, <1>2, <3>1, <3>2, AppendFacts
    <2>2. CASE TakeEvent
      BY <1>0, <1>2, <2>2, TailFacts DEF TakeEvent
    <2>3. CASE StopFlag \/ StopTake \/ StopJoin \/ UNCHANGED vars
      BY <1>2, <2>3 DEF StopFlag, StopTake, StopJoin, vars
    <2>. QED
      BY <1>1, <1>3, <2>1, <2>2, <2>3, ServiceStep
  <1>6. cur'.kind \notin StreamKind /\ loop' \notin {"signalled", "stopping"}
    <2>1. CASE TakeEvent
      BY <1>0, <1>2, <2>1, TailFacts DEF TakeEvent, LoopGoto
    <2>2. CASE StartAdvertising \/ NoSignal \/ SignalWhileReceiving
                 \/ StopOnSignal \/ SignalWhileIdle \/ WaitTimesOut
      BY <1>2, <2>2 DEF StartAdvertising, NoSignal, SignalWhileReceiving,
            StopOnSignal, SignalWhileIdle, WaitTimesOut, LoopGoto, NoEvent,
            StreamKind
    <2>3. CASE HandleAdvertisingStarted \/ HandleAdvertisingError
                 \/ HandleConnection \/ HandleStreamStarted
                 \/ HandleStreamError \/ HandleStreamStopped
                 \/ RecordStopped \/ KeepServing \/ IdleExit \/ Leave
      BY <1>2, <2>3 DEF HandleAdvertisingStarted, HandleAdvertisingError,
            HandleConnection, HandleStreamStarted, HandleStreamError,
            HandleStreamStopped, RecordStopped, KeepServing, IdleExit, Leave,
            LoopGoto, Handles, StreamKind
    <2>4. CASE SourceConnects \/ SignalArrives \/ UNCHANGED svars
      BY <1>2, <2>4 DEF SourceConnects, SignalArrives, svars
    <2>. QED
      BY <2>1, <2>2, <2>3, <2>4, LoopStill DEF LoopStep
  <1>. QED
    BY <1>4, <1>5, <1>6 DEF BeginInv

LEMMA STypeStep ==
    STypeOK /\ BeginInv /\ [SNext]_allvars => STypeOK' /\ BeginInv'
  <1>. SUFFICES ASSUME STypeOK, BeginInv, [SNext]_allvars
                PROVE  STypeOK' /\ BeginInv'
    OBVIOUS
  <1>1. CASE UNCHANGED allvars
    BY <1>1 DEF STypeOK, TypeOK, BeginInv, allvars, vars, svars
  <1>2. CASE SNext
    BY <1>2, ReceiverType, LoopType, BeginStep
  <1>. QED
    BY <1>1, <1>2

LEMMA SAlways == SSpec => [](STypeOK /\ BeginInv)
  BY STypeInit, STypeStep, PTL DEF SSpec

\* Every variable of the service keeps its type; in particular a history record
\* always names a session that was started.
THEOREM ServiceTypeCorrect == SSpec => []STypeOK
  BY SAlways, PTL

-------------------------------------------------------------------------------
\* What a session's threads do to the events and to who can end a session: a
\* thread that steps out of account has cleared `running`, found it cleared, or
\* sends an error.
LEMMA ThreadsAccount ==
    ASSUME TypeOK, NEW s \in Session, Threads(s)
    PROVE  /\ running' => running
           /\ events' = events \/ \E kind \in StreamKind : Send(kind, s)
           /\ \/ ~running'
              \/ \A t \in Session : Accountable(t) => Accountable(t)'
              \/ Send("StreamError", s)
  <1>. USE DEF TypeOK, RtspGoto, shared, Accountable, StreamKind
  <1>1. CASE ConnectToSource(s) \/ ConnectGivesUp(s) \/ Negotiate(s)
               \/ NegotiationFails(s) \/ PlayRefused(s)
               \/ StreamingLoopEnds(s) \/ SourceEndsStream(s)
    BY <1>1 DEF ConnectToSource, ConnectGivesUp, Negotiate, NegotiationFails,
          PlayRefused, StreamingLoopEnds, SourceEndsStream
  <1>2. CASE ReportConnectFailure(s) \/ PlayAccepted(s)
               \/ StartPipelineFails(s) \/ EmitStopped(s)
    <2>1. running' = running /\ \E kind \in StreamKind : Send(kind, s)
      BY <1>2 DEF ReportConnectFailure, PlayAccepted, StartPipelineFails,
            EmitStopped
    <2>2. \A t \in Session : Accountable(t) => Accountable(t)'
      BY <1>2 DEF ReportConnectFailure, PlayAccepted, StartPipelineFails,
            EmitStopped
    <2>. QED
      BY <2>1, <2>2
  <1>3. CASE PipelineReachesPlaying(s) \/ StorePipeline(s) \/ StopPipeline(s)
    <2>1. running' = running /\ events' = events
      BY <1>3 DEF PipelineReachesPlaying, StorePipeline, StopPipeline
    <2>2. \A t \in Session : Accountable(t) => Accountable(t)'
      BY <1>3 DEF PipelineReachesPlaying, StorePipeline, StopPipeline
    <2>. QED
      BY <2>1, <2>2
  <1>6. CASE ClearRunning(s)
    BY <1>6 DEF ClearRunning
  <1>4. CASE RunFails(s) \/ ReportError(s)
    BY <1>4 DEF RunFails, ReportError
  <1>5. CASE StatsStep(s)
    BY <1>5 DEF StatsStep, StatsSleeps, StatsWakes, StatsSamples, RtpTimeout,
          StatsReports
  <1>. QED
    BY <1>1, <1>2, <1>3, <1>4, <1>5, <1>6 DEF Threads, RtspStep

\* An error on the channel stays there while others send.
LEMMA ErrorStays ==
    ASSUME TypeOK, NEW e \in Event,
           events' = events \/ events' = Append(events, e),
           \E i \in 1 .. Len(events) : events[i].kind = "StreamError"
    PROVE  ErrorPending'
  <1>1. PICK i \in 1 .. Len(events) : events[i].kind = "StreamError"
    OBVIOUS
  <1>2. i \in 1 .. Len(events') /\ events'[i] = events[i]
    BY AppendFacts DEF TypeOK
  <1>. QED
    BY <1>1, <1>2 DEF ErrorPending

\* The error that is sent is on the channel.
LEMMA ErrorSent ==
    ASSUME TypeOK, NEW s \in Session, Send("StreamError", s)
    PROVE  ErrorPending'
  <1>1. [kind |-> "StreamError", from |-> s] \in Event
    BY DEF Event, EventKind, StreamKind
  <1>2. /\ Len(events') = Len(events) + 1
        /\ events'[Len(events) + 1] = [kind |-> "StreamError", from |-> s]
    BY <1>1, AppendFacts DEF Send, TypeOK
  <1>3. Len(events) + 1 \in 1 .. Len(events')
    BY <1>2 DEF TypeOK
  <1>. QED
    BY <1>2, <1>3 DEF ErrorPending

\* The event taken off the channel is the one in hand, so no error is lost.
LEMMA ErrorTaken ==
    ASSUME TypeOK, TakeEvent, ErrorPending
    PROVE  ErrorPending'
  <1>1. PICK i \in 1 .. Len(events) : events[i].kind = "StreamError"
    BY DEF TakeEvent, LoopGoto, Handles, ErrorPending
  <1>2. CASE i = 1
    BY <1>1, <1>2, TailFacts
    DEF TakeEvent, LoopGoto, Handles, ErrorPending, TypeOK
  <1>3. CASE i # 1
    <2>1. i - 1 \in 1 .. Len(events') /\ events'[i - 1] = events[i]
      BY <1>1, <1>3, TailFacts DEF TakeEvent, TypeOK
    <2>. QED
      BY <1>1, <2>1 DEF ErrorPending
  <1>. QED
    BY <1>2, <1>3

LEMMA SilentInit == SInit => NoSilentDeath
  BY DEF SInit, Init, NoSilentDeath

\* Steps that leave the receiver alone and do not act on an error.
LEMMA SilentKept ==
    ASSUME TypeOK, NoSilentDeath, UNCHANGED <<running, rtsp>>,
           events' = events \/ \E e \in Event : events' = Append(events, e),
           Handles("StreamError") => Handles("StreamError")'
    PROVE  NoSilentDeath'
  <1>. SUFFICES ASSUME running' PROVE (\E s \in Session : Accountable(s))' \/ ErrorPending'
    BY DEF NoSilentDeath
  <1>1. CASE \E s \in Session : Accountable(s)
    BY <1>1 DEF Accountable
  <1>2. CASE \E i \in 1 .. Len(events) : events[i].kind = "StreamError"
    <2>1. CASE events' = events
      BY <1>2, <2>1 DEF ErrorPending
    <2>2. CASE \E e \in Event : events' = Append(events, e)
      BY <1>2, <2>2, ErrorStays
    <2>. QED
      BY <2>1, <2>2
  <1>3. CASE Handles("StreamError")
    BY <1>3 DEF ErrorPending
  <1>. QED
    BY <1>1, <1>2, <1>3 DEF NoSilentDeath, ErrorPending

LEMMA SilentThreads ==
    ASSUME TypeOK, NoSilentDeath, UNCHANGED svars,
           NEW s \in Session, Threads(s)
    PROVE  NoSilentDeath'
  <1>. SUFFICES ASSUME running'
                PROVE  (\E t \in Session : Accountable(t))' \/ ErrorPending'
    BY DEF NoSilentDeath
  <1>1. running
    BY ThreadsAccount
  <1>2. CASE Send("StreamError", s)
    BY <1>2, ErrorSent
  <1>3. CASE \E t \in Session : Accountable(t)
    BY <1>2, <1>3, ThreadsAccount
  <1>4. CASE \E i \in 1 .. Len(events) : events[i].kind = "StreamError"
    <2>1. events' = events
             \/ \E kind \in StreamKind :
                   events' = Append(events, [kind |-> kind, from |-> s])
      BY ThreadsAccount DEF Send
    <2>2. \A kind \in StreamKind : [kind |-> kind, from |-> s] \in Event
      BY DEF Event, EventKind
    <2>3. CASE events' = events
      BY <1>4, <2>3 DEF ErrorPending
    <2>. QED
      BY <1>4, <2>1, <2>2, <2>3, ErrorStays
  <1>5. CASE Handles("StreamError")
    BY <1>5 DEF ErrorPending, Handles, svars
  <1>. QED
    BY <1>1, <1>3, <1>4, <1>5 DEF NoSilentDeath, ErrorPending

LEMMA SilentTake ==
    ASSUME TypeOK, NoSilentDeath, TakeEvent
    PROVE  NoSilentDeath'
  <1>1. (\E t \in Session : Accountable(t)) => (\E t \in Session : Accountable(t))'
    BY DEF TakeEvent, Accountable
  <1>2. running' = running
    BY DEF TakeEvent
  <1>. QED
    BY <1>1, <1>2, ErrorTaken DEF NoSilentDeath

LEMMA SilentStep ==
    ASSUME STypeOK, NoSilentDeath, [SNext]_allvars
    PROVE  NoSilentDeath'
  <1>0. TypeOK
    BY DEF STypeOK
  <1>1. CASE StartAdvertising
    <2>1. \E e \in Event : events' = Append(events, e)
      BY <1>1, OtherType DEF StartAdvertising, EventKind
    <2>. QED
      BY <1>0, <1>1, <2>1, SilentKept DEF StartAdvertising, LoopGoto, Handles
  <1>2. CASE SourceConnects
    <2>1. \E e \in Event : events' = Append(events, e)
      BY <1>2, OtherType DEF SourceConnects, EventKind
    <2>. QED
      BY <1>0, <1>2, <2>1, SilentKept DEF SourceConnects, Handles
  <1>3. CASE TakeEvent
    BY <1>0, <1>3, SilentTake
  <1>4. CASE NoSignal \/ SignalWhileReceiving \/ SignalWhileIdle
               \/ WaitTimesOut \/ RecordStopped \/ KeepServing \/ IdleExit
               \/ Leave
    BY <1>0, <1>4, SilentKept DEF NoSignal, SignalWhileReceiving,
          SignalWhileIdle, WaitTimesOut, RecordStopped, KeepServing, IdleExit,
          Leave, LoopGoto, Handles, vars
  <1>5. CASE HandleAdvertisingStarted \/ HandleAdvertisingError
               \/ HandleStreamStarted \/ HandleStreamStopped
    BY <1>0, <1>5, SilentKept DEF HandleAdvertisingStarted,
          HandleAdvertisingError, HandleStreamStarted, HandleStreamStopped,
          Handles, vars
  <1>6. CASE StopOnSignal \/ HandleStreamError
    BY <1>6 DEF StopOnSignal, HandleStreamError, StopFlag, NoSilentDeath
  <1>7. CASE HandleConnection
    <2>1. CASE StartReceiving
      BY <1>0, <2>1, ReceiverAssumption
      DEF StartReceiving, TypeOK, NoSilentDeath, Accountable, Session
    <2>2. CASE UNCHANGED vars
      BY <1>0, <1>7, <2>2, SilentKept DEF HandleConnection, Handles, vars
    <2>. QED
      BY <1>7, <2>1, <2>2 DEF HandleConnection
  <1>8. CASE SignalArrives \/ StopReceivingGoesOn \/ UNCHANGED allvars
    BY <1>0, <1>8, SilentKept DEF SignalArrives, StopReceivingGoesOn,
          StopTake, StopJoin, Handles, allvars, vars, svars
  <1>9. ASSUME NEW s \in Session,
               SessionThread(s) \/ StatsThread(s) \/ SourceActs(s)
        PROVE  NoSilentDeath'
    BY <1>0, <1>9, SilentThreads
    DEF SessionThread, StatsThread, SourceActs, Threads
  <1>. QED
    BY <1>1, <1>2, <1>3, <1>4, <1>5, <1>6, <1>7, <1>8, <1>9
    DEF SNext, LoopStep

\* A receiver that claims to receive always has a thread that can still end the
\* session, or an error the loop has yet to act on, for any number of sessions.
THEOREM ServiceNeverSilentlyDead == SSpec => []NoSilentDeath
  <1>1. STypeOK /\ NoSilentDeath /\ [SNext]_allvars => NoSilentDeath'
    BY SilentStep
  <1>. QED
    BY <1>1, SilentInit, SAlways, PTL DEF SSpec

-------------------------------------------------------------------------------
LEMMA LeaveInit == SInit => LeaveInv
  BY DEF SInit, Init, LeaveInv, AdvertiseInv, AdvertisingErrorPending, Handles

\* Only the connection handler's report starts a session, and only the handling
\* of AdvertisingStarted starts the connection handler.
LEMMA AdvertiseStep ==
    ASSUME STypeOK, BeginInv, AdvertiseInv, SNext
    PROVE  AdvertiseInv'
  <1>0. TypeOK /\ events \in Seq(Event)
    BY DEF STypeOK, TypeOK
  <1>. DEFINE ErrorQueued ==
                 \E i \in 1 .. Len(events) : events[i].kind = "AdvertisingError"
              AllErrors ==
                 \A i \in 1 .. Len(events) : events[i].kind = "AdvertisingError"
  <1>1. CASE StartAdvertising
    <2>1. /\ events = <<>> /\ ~listening /\ started = 0
          /\ loop' = "top"
          /\ UNCHANGED <<listening, started>>
          /\ \E kind \in {"AdvertisingStarted", "AdvertisingError"} :
                events' = Append(events, Other(kind))
      BY <1>1 DEF StartAdvertising, LoopGoto, AdvertiseInv, shared
    <2>2. \A kind \in {"AdvertisingStarted", "AdvertisingError"} :
             events' = Append(events, Other(kind)) =>
                Len(events') = 1 /\ events'[1].kind = kind
      BY <2>1 DEF Other
    <2>. QED
      BY <2>1, <2>2 DEF AdvertiseInv, AdvertisingErrorPending, Handles
  <1>2. CASE TakeEvent
    <2>1. /\ loop' = "handle" /\ loop = "wait"
          /\ UNCHANGED <<listening, started>>
          /\ cur' = events[1]
          /\ Len(events) >= 1
          /\ Len(events') = Len(events) - 1
          /\ \A i \in 1 .. Len(events') : events'[i] = events[i + 1]
      BY <1>0, <1>2, TailFacts DEF TakeEvent, LoopGoto, shared
    <2>2. AdvertisingErrorPending' => AdvertisingErrorPending
      <3>1. ErrorQueued' => ErrorQueued
        BY <1>0, <2>1
      <3>2. Handles("AdvertisingError")' => ErrorQueued
        BY <1>0, <2>1 DEF Handles
      <3>. QED
        BY <3>1, <3>2 DEF AdvertisingErrorPending
    <2>3. AllErrors => AllErrors' /\ cur'.kind = "AdvertisingError"
      BY <1>0, <2>1
    <2>. QED
      BY <2>1, <2>2, <2>3 DEF AdvertiseInv, Handles
  <1>3. CASE SourceConnects
    <2>1. Other("ConnectionReceived") \in Event
      BY OtherType DEF EventKind
    <2>2. /\ listening
          /\ UNCHANGED <<loop, cur, listening, started>>
          /\ Len(events') = Len(events) + 1
          /\ \A i \in 1 .. Len(events) : events'[i] = events[i]
          /\ events'[Len(events) + 1].kind = "ConnectionReceived"
      BY <1>0, <1>3, <2>1, AppendFacts DEF SourceConnects, shared, Other
    <2>3. ~AdvertisingErrorPending
      BY <2>2 DEF AdvertiseInv
    <2>4. ~AdvertisingErrorPending'
      BY <1>0, <2>2, <2>3 DEF AdvertisingErrorPending, Handles
    <2>. QED
      BY <2>2, <2>4 DEF AdvertiseInv
  <1>4. ASSUME NEW s \in Session, Threads(s), UNCHANGED svars
        PROVE  AdvertiseInv'
    <2>1. started # 0
      BY <1>4, NoThreadYet
    <2>2. ~AdvertisingErrorPending /\ loop # "start"
      BY <2>1 DEF AdvertiseInv
    <2>3. events' = events
             \/ \E kind \in StreamKind :
                   events' = Append(events, [kind |-> kind, from |-> s])
      BY <1>0, <1>4, ThreadsAccount DEF Send
    <2>4. ~ErrorQueued'
      <3>1. ~ErrorQueued
        BY <2>2 DEF AdvertisingErrorPending
      <3>2. ASSUME NEW kind \in StreamKind,
                   events' = Append(events, [kind |-> kind, from |-> s])
            PROVE  ~ErrorQueued'
        <4>1. [kind |-> kind, from |-> s] \in Event
          BY DEF Event, EventKind
        <4>2. kind # "AdvertisingError"
          BY DEF StreamKind
        <4>. QED
          BY <1>0, <3>1, <3>2, <4>1, <4>2, AppendFacts
      <3>. QED
        BY <2>3, <3>1, <3>2
    <2>. QED
      BY <1>4, <2>2, <2>4
      DEF AdvertiseInv, AdvertisingErrorPending, Handles, svars
  <1>5. CASE HandleAdvertisingStarted \/ HandleConnection
    <2>1. ~AdvertisingErrorPending /\ loop' = "bottom" /\ events' = events
      BY <1>5 DEF HandleAdvertisingStarted, HandleConnection, LoopGoto,
            AdvertiseInv, vars, StartReceiving
    <2>. QED
      BY <2>1 DEF AdvertiseInv, AdvertisingErrorPending, Handles
  <1>6. CASE NoSignal \/ SignalWhileReceiving \/ StopOnSignal
               \/ SignalWhileIdle \/ WaitTimesOut \/ HandleAdvertisingError
               \/ HandleStreamStarted \/ HandleStreamStopped
               \/ HandleStreamError \/ RecordStopped \/ KeepServing
               \/ IdleExit \/ Leave
    <2>1. /\ UNCHANGED <<events, started>>
          /\ listening' => listening
          /\ loop' \notin {"start", "handle"}
      BY <1>6 DEF NoSignal, SignalWhileReceiving, StopOnSignal,
            SignalWhileIdle, WaitTimesOut, HandleAdvertisingError,
            HandleStreamStarted, HandleStreamStopped, HandleStreamError,
            RecordStopped, KeepServing, IdleExit, Leave, LoopGoto, StopFlag,
            vars
    <2>. QED
      BY <2>1 DEF AdvertiseInv, AdvertisingErrorPending, Handles
  <1>7. CASE SignalArrives \/ StopReceivingGoesOn
    <2>1. UNCHANGED <<events, started, listening, loop, cur>>
      BY <1>7 DEF SignalArrives, StopReceivingGoesOn, StopTake, StopJoin,
            vars, svars
    <2>. QED
      BY <2>1 DEF AdvertiseInv, AdvertisingErrorPending, Handles
  <1>. QED
    BY <1>1, <1>2, <1>3, <1>4, <1>5, <1>6, <1>7
    DEF SNext, LoopStep, SessionThread, StatsThread, SourceActs, Threads

\* The receiver is stopped before the loop is left, and nothing starts it then.
LEMMA LeaveStep ==
    ASSUME STypeOK, BeginInv, LeaveInv, [SNext]_allvars
    PROVE  LeaveInv'
  <1>0. TypeOK
    BY DEF STypeOK
  <1>1. CASE UNCHANGED allvars
    BY <1>1 DEF LeaveInv, AdvertiseInv, AdvertisingErrorPending, Handles,
          allvars, vars, svars
  <1>2. CASE SNext
    <2>1. AdvertiseInv'
      BY <1>2, AdvertiseStep DEF LeaveInv
    <2>. SUFFICES ASSUME loop' \in {"stopping", "leaving", "exited"}
                  PROVE  ~running'
      BY <2>1 DEF LeaveInv
    <2>2. CASE StopOnSignal \/ HandleStreamError
      BY <2>2 DEF StopOnSignal, HandleStreamError, StopFlag
    <2>3. CASE HandleAdvertisingError
      \* Nothing was ever started: the one event of the advertiser is this one.
      <3>1. started = 0
        BY <2>3 DEF HandleAdvertisingError, LeaveInv, AdvertiseInv,
              AdvertisingErrorPending
      <3>. QED
        BY <2>3, <3>1 DEF HandleAdvertisingError, BeginInv, vars
    <2>4. CASE SignalWhileIdle \/ IdleExit \/ RecordStopped \/ Leave
      BY <2>4 DEF SignalWhileIdle, IdleExit, RecordStopped, Leave, LoopGoto,
            LeaveInv, vars
    <2>5. CASE StartAdvertising \/ NoSignal \/ SignalWhileReceiving
                 \/ TakeEvent \/ WaitTimesOut \/ HandleAdvertisingStarted
                 \/ HandleConnection \/ HandleStreamStarted
                 \/ HandleStreamStopped \/ KeepServing
      BY <2>5 DEF StartAdvertising, NoSignal, SignalWhileReceiving, TakeEvent,
            WaitTimesOut, HandleAdvertisingStarted, HandleConnection,
            HandleStreamStarted, HandleStreamStopped, KeepServing, LoopGoto
    <2>6. CASE SourceConnects \/ SignalArrives \/ StopReceivingGoesOn
      BY <2>6 DEF SourceConnects, SignalArrives, StopReceivingGoesOn,
            StopTake, StopJoin, LeaveInv, vars, svars
    <2>7. ASSUME NEW s \in Session, Threads(s), UNCHANGED svars
          PROVE  ~running'
      BY <1>0, <2>7, ThreadsAccount DEF LeaveInv, svars
    <2>. QED
      BY <1>2, <2>2, <2>3, <2>4, <2>5, <2>6, <2>7
      DEF SNext, LoopStep, SessionThread, StatsThread, SourceActs, Threads
  <1>. QED
    BY <1>1, <1>2

\* Whichever way the loop is left, on a signal, on an advertising error or when
\* idle, the receiver was stopped first.
THEOREM ServiceExitsStopped == SSpec => []ExitsStopped
  <1>1. STypeOK /\ BeginInv /\ LeaveInv /\ [SNext]_allvars => LeaveInv'
    BY LeaveStep
  <1>2. LeaveInv => ExitsStopped
    BY DEF LeaveInv, ExitsStopped
  <1>. QED
    BY <1>1, <1>2, LeaveInit, SAlways, PTL DEF SSpec

-------------------------------------------------------------------------------
\* NoBlindStream, with the fact that stop_receiving empties the slot only after
\* it has cleared `running`.
BlindInv ==
    /\ NoBlindStream
    /\ stopping # "no" => ~running

\* Steps that fill no thread's slot and let no announcement go.
LEMMA BlindKept ==
    ASSUME BlindInv, UNCHANGED <<pipeline, started, rtsp, stats>>,
           running' => running, stopping' # "no" => stopping # "no" \/ ~running',
           running' /\ ErrorPending => ErrorPending'
    PROVE  BlindInv'
  BY DEF BlindInv, NoBlindStream, EndAnnounced

LEMMA BlindThreads ==
    ASSUME TypeOK, BlindInv, UNCHANGED svars, NEW s \in Session, Threads(s)
    PROVE  BlindInv'
  <1>. USE DEF TypeOK, RtspGoto, StatsGoto, shared
  <1>1. running' => running
    BY ThreadsAccount
  <1>2. started' = started /\ stopping' = stopping
    BY ThreadsShare
  <1>3. ErrorPending => ErrorPending'
    <2>1. events' = events \/ \E e \in Event : events' = Append(events, e)
      BY ThreadsAccount DEF Send, Event, EventKind
    <2>. QED
      BY <2>1, ErrorStays DEF ErrorPending, Handles, svars
  \* What is left is a stage of the latest session, and the slot.
  <1>. SUFFICES ASSUME running', pipeline' = NoSession, ~ErrorPending',
                       started \in Session, rtsp'[started] \in {"play", "streaming"},
                       \A t \in Session : stats'[t] # "lost" /\ rtsp'[t] # "stopFlag"
                PROVE  FALSE
    BY <1>1, <1>2 DEF BlindInv, NoBlindStream, EndAnnounced
  <1>4. ~Send("StreamError", s)
    BY ErrorSent
  <1>5. CASE SourceEndsStream(s) \/ ConnectToSource(s) \/ ConnectGivesUp(s)
               \/ ReportConnectFailure(s) \/ Negotiate(s) \/ NegotiationFails(s)
               \/ PipelineReachesPlaying(s) \/ PlayRefused(s) \/ PlayAccepted(s)
               \/ StreamingLoopEnds(s) \/ EmitStopped(s) \/ RunFails(s)
               \/ ReportError(s)
    <2>1. /\ pipeline' = pipeline /\ stats' = stats
          /\ \A t \in Session : rtsp[t] # "stopFlag"
          /\ rtsp[started] \in {"play", "streaming"}
      BY <1>5 DEF SourceEndsStream, ConnectToSource, ConnectGivesUp,
            ReportConnectFailure, Negotiate, NegotiationFails,
            PipelineReachesPlaying, PlayRefused, PlayAccepted,
            StreamingLoopEnds, EmitStopped, RunFails, ReportError
    <2>. QED
      BY <1>1, <1>3, <2>1 DEF BlindInv, NoBlindStream, EndAnnounced
  <1>6. CASE StartPipelineFails(s)
    BY <1>4, <1>6 DEF StartPipelineFails
  <1>7. CASE StorePipeline(s)
    BY <1>7, SessionFacts DEF StorePipeline
  <1>8. CASE StopPipeline(s)
    BY <1>8 DEF StopPipeline
  <1>9. CASE ClearRunning(s)
    BY <1>9 DEF ClearRunning
  <1>10. CASE StatsSleeps(s) \/ StatsWakes(s) \/ StatsSamples(s)
    <2>1. /\ pipeline' = pipeline /\ rtsp' = rtsp
          /\ \A t \in Session : stats[t] # "lost"
      BY <1>10 DEF StatsSleeps, StatsWakes, StatsSamples
    <2>. QED
      BY <1>1, <1>3, <2>1 DEF BlindInv, NoBlindStream, EndAnnounced
  <1>11. CASE RtpTimeout(s)
    BY <1>11 DEF RtpTimeout
  <1>12. CASE StatsReports(s)
    BY <1>4, <1>12 DEF StatsReports
  <1>. QED
    BY <1>5, <1>6, <1>7, <1>8, <1>9, <1>10, <1>11, <1>12
    DEF Threads, RtspStep, StatsStep

LEMMA BlindStep ==
    ASSUME STypeOK, BlindInv, [SNext]_allvars
    PROVE  BlindInv'
  <1>0. TypeOK
    BY DEF STypeOK
  <1>1. CASE StartAdvertising \/ SourceConnects
    <2>1. /\ \E e \in Event : events' = Append(events, e)
          /\ UNCHANGED <<running, stopping, pipeline, started, rtsp, stats>>
          /\ Handles("StreamError") => Handles("StreamError")'
      BY <1>1, OtherType
      DEF StartAdvertising, SourceConnects, EventKind, shared, LoopGoto, Handles
    <2>. QED
      BY <1>0, <2>1, BlindKept, ErrorStays DEF ErrorPending
  <1>2. CASE TakeEvent
    BY <1>0, <1>2, BlindKept, ErrorTaken DEF TakeEvent, shared
  <1>3. CASE NoSignal \/ SignalWhileReceiving \/ SignalWhileIdle
               \/ WaitTimesOut \/ RecordStopped \/ KeepServing \/ IdleExit
               \/ Leave \/ HandleAdvertisingStarted \/ HandleAdvertisingError
               \/ HandleStreamStarted \/ HandleStreamStopped \/ SignalArrives
               \/ (HandleConnection /\ UNCHANGED vars) \/ UNCHANGED allvars
    <2>1. UNCHANGED vars /\ (Handles("StreamError") => Handles("StreamError")')
      BY <1>3 DEF NoSignal, SignalWhileReceiving, SignalWhileIdle, WaitTimesOut,
            RecordStopped, KeepServing, IdleExit, Leave, HandleAdvertisingStarted,
            HandleAdvertisingError, HandleStreamStarted, HandleStreamStopped,
            SignalArrives, HandleConnection, LoopGoto, Handles, allvars, svars
    <2>. QED
      BY <2>1, BlindKept DEF ErrorPending, vars
  <1>4. CASE StopOnSignal \/ HandleStreamError
    BY <1>4 DEF StopOnSignal, HandleStreamError, StopFlag, BlindInv, NoBlindStream
  <1>5. CASE HandleConnection /\ StartReceiving
    BY <1>0, <1>5, ReceiverAssumption
    DEF StartReceiving, TypeOK, BlindInv, NoBlindStream, Session
  <1>6. CASE StopReceivingGoesOn
    BY <1>6 DEF StopReceivingGoesOn, StopTake, StopJoin, BlindInv, NoBlindStream,
          EndAnnounced, ErrorPending, Handles, svars
  <1>7. ASSUME NEW s \in Session,
               SessionThread(s) \/ StatsThread(s) \/ SourceActs(s)
        PROVE  BlindInv'
    BY <1>0, <1>7, BlindThreads
    DEF SessionThread, StatsThread, SourceActs, Threads
  <1>. QED
    BY <1>1, <1>2, <1>3, <1>4, <1>5, <1>6, <1>7
    DEF SNext, LoopStep, HandleConnection

\* A session of the service that streams without a picture is about to end, for
\* any number of sessions, whichever session's thread took the picture away.
THEOREM ServiceNeverBlind == SSpec => []NoBlindStream
  <1>1. SInit => BlindInv
    BY DEF SInit, Init, BlindInv, NoBlindStream
  <1>2. STypeOK /\ BlindInv /\ [SNext]_allvars => BlindInv'
    BY BlindStep
  <1>3. BlindInv => NoBlindStream
    BY DEF BlindInv
  <1>. QED
    BY <1>1, <1>2, <1>3, SAlways, PTL DEF SSpec

-------------------------------------------------------------------------------
\* The receiver's invariants survive steps of the service that only send events
\* or take them.
LEMMA ServiceReceiverStep ==
    ASSUME STypeOK, ClientInv, [SNext]_allvars
    PROVE  ClientInv'
  <1>0. TypeOK
    BY DEF STypeOK
  <1>1. CASE StartAdvertising \/ TakeEvent \/ SourceConnects
               \/ UNCHANGED vars
    BY <1>0, <1>1, ClientKept DEF StartAdvertising, TakeEvent, SourceConnects,
          vars, shared, Accountable
  <1>2. CASE StartReceiving \/ StopFlag \/ StopTake \/ StopJoin
    BY <1>0, <1>2, ClientCaller
  <1>3. CASE \E s \in Session : Threads(s)
    BY <1>0, <1>3, ClientRtsp, ClientOthers DEF Threads
  <1>. QED
    BY <1>1, <1>2, <1>3, ServiceStep DEF allvars

LEMMA ServiceClientAlways == SSpec => [](STypeOK /\ ClientInv)
  <1>1. SInit => ClientInv
    BY ClientInit DEF SInit
  <1>2. STypeOK /\ ClientInv /\ [SNext]_allvars => ClientInv'
    BY ServiceReceiverStep
  <1>. QED
    BY <1>1, <1>2, SAlways, PTL DEF SSpec

\* The service, too, has one rtsp-client thread at work at a time, the latest
\* session's, until one outlives the join of stop_receiving.
THEOREM ServiceOneClient == SSpec => []OneClient
  <1>1. ClientInv => OneClient
    BY DEF ClientInv, OneClient
  <1>. QED
    BY <1>1, ServiceClientAlways, PTL

===============================================================================
