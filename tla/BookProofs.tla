------------------------------ MODULE BookProofs ------------------------------
(***************************************************************************)
(* The headless service keeps the SessionBook, for every number of         *)
(* sessions, and so loses no record.                                       *)
(*                                                                         *)
(* A record is due while a StreamStopped is queued, while a thread is      *)
(* about to send one, and while the loop has one in hand or is inside      *)
(* stop_receiving.  Most steps move a record along this way and leave the  *)
(* number due as it is; the lemmas say by how much each part changes.      *)
(***************************************************************************)
EXTENDS ServiceLoopProofs, QueueCounts

\* The three parts of RecordsDue.
Stopped == {e \in Event : e.kind = "StreamStopped"}
Sending == {s \in Session : rtsp[s] = "stopSend"}
Holding == Handles("StreamStopped") \/ loop = "stopping"
InHand == IF Holding THEN 1 ELSE 0

-------------------------------------------------------------------------------
\* Sets of sessions are finite.
LEMMA SessionsFinite ==
    ASSUME NEW S \in SUBSET Session
    PROVE  IsFiniteSet(S) /\ Cardinality(S) \in Nat
  <1>1. IsFiniteSet(Session)
    BY ReceiverAssumption, FS_Interval DEF Session
  <1>2. IsFiniteSet(S)
    BY <1>1, FS_Subset
  <1>. QED
    BY <1>2, FS_CardinalityType

\* RecordsDue is the sum of its parts.
DueSum ==
    /\ RecordsDue = Count(events, Stopped) + Cardinality(Sending) + InHand
    /\ Count(events, Stopped) \in Nat
    /\ Cardinality(Sending) \in Nat
    /\ InHand \in Nat
    /\ RecordsDue \in Nat

LEMMA DueIs == TypeOK => DueSum
  <1>. SUFFICES ASSUME TypeOK PROVE DueSum
    OBVIOUS
  <1>0. events \in Seq(Event)
    BY DEF TypeOK
  <1>1. {i \in 1 .. Len(events) : events[i].kind = "StreamStopped"}
           = Places(events, Stopped)
    BY <1>0 DEF Places, Stopped
  <1>2. Cardinality({x \in {1} : Handles("StreamStopped") \/ loop = "stopping"})
           = InHand
    <2>1. CASE Holding
      <3>1. {x \in {1} : Handles("StreamStopped") \/ loop = "stopping"} = {1}
        BY <2>1 DEF Holding
      <3>. QED
        BY <2>1, <3>1, FS_Singleton DEF InHand
    <2>2. CASE ~Holding
      <3>1. {x \in {1} : Handles("StreamStopped") \/ loop = "stopping"} = {}
        BY <2>2 DEF Holding
      <3>. QED
        BY <2>2, <3>1, FS_EmptySet DEF InHand
    <2>. QED
      BY <2>1, <2>2
  <1>3. RecordsDue = Count(events, Stopped) + Cardinality(Sending) + InHand
    BY <1>1, <1>2 DEF RecordsDue, Count, Sending
  <1>4. Count(events, Stopped) \in Nat
    BY <1>0, CountType
  <1>5. Cardinality(Sending) \in Nat
    BY SessionsFinite DEF Sending
  <1>6. InHand \in Nat
    BY DEF InHand
  <1>. QED
    BY <1>3, <1>4, <1>5, <1>6 DEF DueSum

\* A step changes the number by what it changes of the three parts.
LEMMA DueChange ==
    ASSUME TypeOK, TypeOK'
    PROVE  /\ RecordsDue \in Nat
           /\ RecordsDue' = RecordsDue
                 + (Count(events', Stopped) - Count(events, Stopped))
                 + (Cardinality(Sending') - Cardinality(Sending))
                 + (InHand' - InHand)
           /\ Count(events, Stopped) \in Nat /\ Count(events', Stopped) \in Nat
           /\ Cardinality(Sending) \in Nat /\ Cardinality(Sending') \in Nat
           /\ RecordsDue >= InHand
  <1>1. DueSum /\ DueSum'
    <2>1. TypeOK' => DueSum'
      BY DueIs, PTL
    <2>. QED
      BY <2>1, DueIs
  <1>. QED
    BY <1>1 DEF DueSum

\* What is due when nothing comes into the loop's hand or leaves it: a thread that
\* is about to report makes one more, and its report none.
LEMMA DueMoves ==
    ASSUME TypeOK, TypeOK', InHand' = InHand
    PROVE  /\ /\ Cardinality(Sending') = Cardinality(Sending)
              /\ Count(events', Stopped) = Count(events, Stopped)
              => RecordsDue' = RecordsDue
           /\ /\ Cardinality(Sending') = Cardinality(Sending) + 1
              /\ Count(events', Stopped) = Count(events, Stopped)
              => RecordsDue' = RecordsDue + 1
           /\ /\ Cardinality(Sending') = Cardinality(Sending) - 1
              /\ Count(events', Stopped) = Count(events, Stopped) + 1
              => RecordsDue' = RecordsDue
  <1>1. PICK c \in Nat, d \in Nat : c = Count(events, Stopped) /\ d = Count(events', Stopped)
    BY DueChange
  <1>2. PICK k \in Nat, l \in Nat : k = Cardinality(Sending) /\ l = Cardinality(Sending')
    BY DueChange
  <1>3. PICK n \in Nat, h \in Nat : n = RecordsDue /\ h = InHand
    BY DueChange DEF InHand
  <1>4. RecordsDue' = n + (d - c) + (l - k) + (h - h)
    BY <1>1, <1>2, <1>3, DueChange
  <1>5. n + (d - c) + (l - k) + (h - h) = n + (d - c) + (l - k)
    OBVIOUS
  <1>6. /\ l = k /\ d = c => n + (d - c) + (l - k) = n
        /\ l = k + 1 /\ d = c => n + (d - c) + (l - k) = n + 1
        /\ l = k - 1 /\ d = c + 1 => n + (d - c) + (l - k) = n
    OBVIOUS
  <1>. QED
    BY <1>1, <1>2, <1>3, <1>4, <1>5, <1>6

\* Sending an event adds a due record if it is a StreamStopped.
LEMMA CountSent ==
    ASSUME TypeOK, NEW kind \in EventKind, NEW s \in Session \cup {NoSession},
           events' = Append(events, [kind |-> kind, from |-> s])
    PROVE  Count(events', Stopped)
              = Count(events, Stopped) + (IF kind = "StreamStopped" THEN 1 ELSE 0)
  <1>. DEFINE e == [kind |-> kind, from |-> s]
  <1>1. e \in Event /\ events \in Seq(Event)
    BY DEF Event, TypeOK
  <1>2. e \in Stopped <=> kind = "StreamStopped"
    BY <1>1 DEF Stopped
  <1>. QED
    BY <1>1, <1>2, CountAppend

\* A thread that comes to the sending of StreamStopped, or leaves it, is one
\* more or one less.
LEMMA SendingMoves ==
    ASSUME TypeOK, NEW s \in Session, NEW from \in RtspStage, NEW to \in RtspStage,
           RtspGoto(s, from, to)
    PROVE  Cardinality(Sending') =
              IF from # "stopSend" /\ to = "stopSend" THEN Cardinality(Sending) + 1
              ELSE IF from = "stopSend" /\ to # "stopSend" THEN Cardinality(Sending) - 1
              ELSE Cardinality(Sending)
  <1>0. /\ rtsp \in [Session -> RtspStage] /\ rtsp[s] = from
        /\ rtsp' = [rtsp EXCEPT ![s] = to]
    BY DEF TypeOK, RtspGoto
  <1>1. IsFiniteSet(Sending) /\ Cardinality(Sending) \in Nat
    BY SessionsFinite DEF Sending
  <1>2. s \in Sending <=> from = "stopSend"
    BY <1>0 DEF Sending
  <1>3. CASE to = "stopSend"
    <2>1. Sending' = Sending \cup {s}
      BY <1>0, <1>3 DEF Sending
    <2>. QED
      BY <1>1, <1>2, <1>3, <2>1, FS_AddElement
  <1>4. CASE to # "stopSend"
    <2>1. Sending' = Sending \ {s}
      BY <1>0, <1>4 DEF Sending
    <2>. QED
      BY <1>1, <1>2, <1>4, <2>1, FS_RemoveElement
  <1>. QED
    BY <1>3, <1>4
-------------------------------------------------------------------------------
(* When a step of the service is a step of the book, or none. *)

LEMMA BookStands ==
    ASSUME UNCHANGED <<started, running>>, RecordsDue' = RecordsDue,
           Len(history') = Len(history)
    PROVE  UNCHANGED Book!bvars
  BY DEF Book!bvars

LEMMA BookEnds ==
    ASSUME running \in BOOLEAN, running' = FALSE, RecordsDue' = RecordsDue + 1,
           UNCHANGED <<started, history>>
    PROVE  Book!Next
  BY DEF Book!Next, Book!End, Book!ReportAgain

LEMMA BookRecords ==
    ASSUME UNCHANGED <<started, running>>,
           RecordsDue \in Nat, RecordsDue > 0, RecordsDue' = RecordsDue - 1,
           Len(history') = Len(history) + 1
    PROVE  Book!Next
  BY DEF Book!Next, Book!Record

LEMMA BookBegins ==
    ASSUME ~running, running' = TRUE, started' = started + 1,
           RecordsDue' = RecordsDue, UNCHANGED history
    PROVE  Book!Next
  BY DEF Book!Next, Book!Begin

-------------------------------------------------------------------------------
\* The steps of a session's threads: stop_pipeline_and_emit ends the session when
\* it clears `running`, and the event it sends afterwards only moves the record.
LEMMA BookThreads ==
    ASSUME TypeOK, TypeOK', NEW s \in Session, Threads(s), UNCHANGED svars
    PROVE  Book!Next \/ UNCHANGED Book!bvars
  <1>0. /\ s \in Session \cup {NoSession}
        /\ running \in BOOLEAN
        /\ UNCHANGED <<started, history>>
        /\ InHand' = InHand
        /\ "StreamError" \in EventKind /\ "StreamStarted" \in EventKind
        /\ "StreamStopped" \in EventKind
    <2>1. UNCHANGED started
      BY ThreadsShare
    <2>2. InHand' = InHand
      BY DEF InHand, Holding, Handles, svars
    <2>. QED
      BY <2>1, <2>2 DEF svars, TypeOK, EventKind, StreamKind
  <1>1. CASE ClearRunning(s)
    <2>1. Cardinality(Sending') = Cardinality(Sending) + 1
      BY <1>1, SendingMoves DEF ClearRunning, RtspStage
    <2>2. running' = FALSE /\ events' = events
      BY <1>1 DEF ClearRunning
    <2>3. RecordsDue' = RecordsDue + 1
      BY <1>0, <2>1, <2>2, DueMoves
    <2>. QED
      BY <1>0, <2>2, <2>3, BookEnds
  <1>2. CASE EmitStopped(s)
    <2>1. Cardinality(Sending') = Cardinality(Sending) - 1
      BY <1>2, SendingMoves DEF EmitStopped, RtspStage
    <2>2. running' = running
      BY <1>2 DEF EmitStopped
    <2>3. Count(events', Stopped) = Count(events, Stopped) + 1
      BY <1>0, <1>2, CountSent DEF EmitStopped, Send
    <2>4. RecordsDue' = RecordsDue
      BY <1>0, <2>1, <2>3, DueMoves
    <2>. QED
      BY <1>0, <2>2, <2>4, BookStands
  <1>3. CASE Threads(s) /\ ~ClearRunning(s) /\ ~EmitStopped(s)
    <2>1. running' = running
      BY <1>3 DEF Threads, RtspStep, ConnectToSource, ConnectGivesUp,
            ReportConnectFailure, Negotiate, NegotiationFails,
            StartPipelineFails, PipelineReachesPlaying, StorePipeline,
            PlayRefused, PlayAccepted, StreamingLoopEnds, StopPipeline,
            RunFails, ReportError, SourceEndsStream, StatsStep, StatsSleeps,
            StatsWakes, StatsSamples, RtpTimeout, StatsReports
    <2>2. \/ rtsp' = rtsp
          \/ \E from, to \in RtspStage \ {"stopSend"} : RtspGoto(s, from, to)
      BY <1>3 DEF Threads, RtspStep, ConnectToSource, ConnectGivesUp,
            ReportConnectFailure, Negotiate, NegotiationFails,
            StartPipelineFails, PipelineReachesPlaying, StorePipeline,
            PlayRefused, PlayAccepted, StreamingLoopEnds, StopPipeline,
            RunFails, ReportError, SourceEndsStream, StatsStep, StatsSleeps,
            StatsWakes, StatsSamples, RtpTimeout, StatsReports, RtspStage
    <2>3. Cardinality(Sending') = Cardinality(Sending)
      <3>1. CASE rtsp' = rtsp
        BY <3>1 DEF Sending
      <3>2. CASE \E from, to \in RtspStage \ {"stopSend"} : RtspGoto(s, from, to)
        BY <3>2, SendingMoves
      <3>. QED
        BY <2>2, <3>1, <3>2
    <2>4. events' = events \/ Send("StreamError", s) \/ Send("StreamStarted", s)
      BY <1>3 DEF Threads, RtspStep, ConnectToSource, ConnectGivesUp,
            ReportConnectFailure, Negotiate, NegotiationFails,
            StartPipelineFails, PipelineReachesPlaying, StorePipeline,
            PlayRefused, PlayAccepted, StreamingLoopEnds, StopPipeline,
            RunFails, ReportError, SourceEndsStream, StatsStep, StatsSleeps,
            StatsWakes, StatsSamples, RtpTimeout, StatsReports
    <2>5. Count(events', Stopped) = Count(events, Stopped)
      <3>1. Count(events, Stopped) \in Nat
        BY DueChange
      <3>2. ASSUME NEW k \in {"StreamError", "StreamStarted"}, Send(k, s)
            PROVE  Count(events', Stopped) = Count(events, Stopped)
        BY <1>0, <3>1, <3>2, CountSent DEF Send
      <3>. QED
        BY <2>4, <3>2
    <2>6. RecordsDue' = RecordsDue
      BY <1>0, <2>3, <2>5, DueMoves
    <2>. QED
      BY <1>0, <2>1, <2>6, BookStands
  <1>. QED
    BY <1>1, <1>2, <1>3
-------------------------------------------------------------------------------
\* The receiver's invariant of the pipeline slot, and with it that a session not
\* started yet has no thread, survives the steps that only send or take events.
LEMMA ServiceSlotStep ==
    ASSUME STypeOK, SlotInv, [SNext]_allvars
    PROVE  SlotInv'
  <1>0. TypeOK
    BY DEF STypeOK
  <1>1. CASE StartAdvertising \/ TakeEvent \/ SourceConnects \/ UNCHANGED vars
    BY <1>0, <1>1, SlotKept DEF StartAdvertising, TakeEvent, SourceConnects,
          vars, shared
  <1>2. CASE StartReceiving \/ StopFlag \/ StopTake \/ StopJoin
    BY <1>0, <1>2, SlotCaller
  <1>3. CASE \E s \in Session : Threads(s)
    BY <1>0, <1>3, SlotRtsp, SlotOthers DEF Threads
  <1>. QED
    BY <1>1, <1>2, <1>3, ServiceStep DEF allvars

LEMMA ServiceSlotAlways == SSpec => [](STypeOK /\ BeginInv /\ SlotInv)
  <1>1. SInit => SlotInv
    BY SlotInit DEF SInit
  <1>2. STypeOK /\ SlotInv /\ [SNext]_allvars => SlotInv'
    BY ServiceSlotStep
  <1>. QED
    BY <1>1, <1>2, SAlways, PTL DEF SSpec

-------------------------------------------------------------------------------
\* A step that leaves the channel and the threads alone changes only what is in
\* the loop's hand.
LEMMA DueInLoop ==
    ASSUME TypeOK, TypeOK', UNCHANGED <<events, rtsp>>
    PROVE  /\ RecordsDue \in Nat
           /\ RecordsDue >= InHand
           /\ RecordsDue' = RecordsDue + (InHand' - InHand)
  <1>1. Sending' = Sending
    BY DEF Sending
  <1>. QED
    BY <1>1, DueChange

\* The turns of the loop that touch no session.
LEMMA BookTurns ==
    ASSUME STypeOK, STypeOK',
           \/ NoSignal \/ SignalWhileReceiving \/ SignalWhileIdle
           \/ WaitTimesOut \/ HandleAdvertisingStarted
           \/ HandleAdvertisingError \/ HandleStreamStarted
           \/ KeepServing \/ IdleExit \/ Leave
    PROVE  UNCHANGED Book!bvars
  <1>1. /\ UNCHANGED <<started, running, events, rtsp, history>>
        /\ ~Holding /\ ~Holding'
    BY DEF NoSignal, SignalWhileReceiving, SignalWhileIdle, WaitTimesOut,
          HandleAdvertisingStarted, HandleAdvertisingError,
          HandleStreamStarted, KeepServing, IdleExit, Leave, LoopGoto,
          Handles, Holding, vars
  <1>2. InHand' = InHand
    BY <1>1 DEF InHand
  <1>3. RecordsDue' = RecordsDue
    BY <1>1, <1>2, DueInLoop DEF STypeOK, InHand
  <1>. QED
    BY <1>1, <1>3, BookStands

\* stop_receiving ends the session, or reports over one that is over already.
LEMMA BookStops ==
    ASSUME STypeOK, STypeOK', StopOnSignal \/ HandleStreamError
    PROVE  Book!Next
  <1>1. /\ UNCHANGED <<started, events, rtsp, history>>
        /\ running' = FALSE
        /\ ~Holding /\ Holding'
    BY DEF StopOnSignal, HandleStreamError, StopFlag, LoopGoto, Handles, Holding
  <1>2. RecordsDue' = RecordsDue + 1
    BY <1>1, DueInLoop DEF STypeOK, InHand
  <1>. QED
    BY <1>1, <1>2, BookEnds DEF STypeOK, TypeOK

\* add_session writes a record that was due.
LEMMA BookWrites ==
    ASSUME STypeOK, STypeOK', HandleStreamStopped \/ RecordStopped
    PROVE  Book!Next
  <1>1. /\ UNCHANGED <<started, running, events, rtsp>>
        /\ history' = Append(history, started)
        /\ Holding /\ ~Holding'
    BY DEF HandleStreamStopped, RecordStopped, AddSession, SourceInfo, LoopGoto,
          Handles, Holding, vars
  <1>2. Len(history') = Len(history) + 1
    BY <1>1 DEF STypeOK
  <1>3. /\ RecordsDue \in Nat /\ RecordsDue > 0
        /\ RecordsDue' = RecordsDue - 1
    BY <1>1, DueInLoop DEF STypeOK, InHand
  <1>. QED
    BY <1>1, <1>2, <1>3, BookRecords

\* An event taken off the channel is in the loop's hand.
LEMMA BookTakes ==
    ASSUME STypeOK, STypeOK', TakeEvent
    PROVE  UNCHANGED Book!bvars
  <1>0. TypeOK /\ TypeOK' /\ events \in Seq(Event)
    BY DEF STypeOK, TypeOK
  <1>1. /\ UNCHANGED <<started, running, rtsp, history>>
        /\ events # <<>> /\ events' = Tail(events)
        /\ cur' = Head(events) /\ ~Holding
    BY DEF TakeEvent, LoopGoto, Handles, Holding, shared
  <1>2. Holding' <=> Head(events) \in Stopped
    <2>1. Head(events) \in Event
      BY <1>0, <1>1, TailFacts
    <2>. QED
      BY <1>1, <2>1 DEF TakeEvent, LoopGoto, Handles, Holding, Stopped
  <1>3. Count(events, Stopped) = Count(events', Stopped) + InHand'
    BY <1>0, <1>1, <1>2, CountTail DEF InHand
  <1>4. Sending' = Sending /\ InHand = 0 /\ InHand' \in {0, 1}
    BY <1>1 DEF Sending, InHand
  <1>5. RecordsDue' = RecordsDue
    BY <1>0, <1>3, <1>4, DueChange
  <1>. QED
    BY <1>1, <1>5, BookStands

\* Events about no session make no record due.
LEMMA BookOtherEvents ==
    ASSUME STypeOK, STypeOK', StartAdvertising \/ SourceConnects
    PROVE  UNCHANGED Book!bvars
  <1>0. TypeOK /\ TypeOK'
    BY DEF STypeOK
  <1>1. /\ UNCHANGED <<started, running, rtsp, history>>
        /\ Holding' <=> Holding
    BY DEF StartAdvertising, SourceConnects, LoopGoto, Handles, Holding, shared
  <1>2. PICK kind \in EventKind \ {"StreamStopped"} :
           events' = Append(events, Other(kind))
    BY DEF StartAdvertising, SourceConnects, EventKind
  <1>3. Count(events', Stopped) = Count(events, Stopped)
    <2>1. Count(events, Stopped) \in Nat
      BY <1>0, DueChange
    <2>. QED
      BY <1>0, <1>2, <2>1, CountSent DEF Other
  <1>4. Sending' = Sending /\ InHand' = InHand
    BY <1>1 DEF Sending, InHand
  <1>5. RecordsDue' = RecordsDue
    BY <1>0, <1>3, <1>4, DueChange DEF InHand
  <1>. QED
    BY <1>1, <1>5, BookStands

\* A connection begins a session unless one is open.
LEMMA BookConnection ==
    ASSUME STypeOK, STypeOK', SlotInv, HandleConnection
    PROVE  Book!Next \/ UNCHANGED Book!bvars
  <1>0. TypeOK /\ TypeOK'
    BY DEF STypeOK
  <1>1. ~Holding /\ ~Holding' /\ UNCHANGED history
    BY DEF HandleConnection, LoopGoto, Handles, Holding
  <1>2. InHand = 0 /\ InHand' = 0
    BY <1>1 DEF InHand
  <1>3. CASE UNCHANGED vars
    <2>1. RecordsDue' = RecordsDue
      BY <1>0, <1>2, <1>3, DueInLoop DEF vars
    <2>. QED
      BY <1>1, <1>3, <2>1, BookStands DEF vars
  <1>4. CASE ~running /\ StartReceiving
    <2>1. /\ events' = events /\ running' = TRUE /\ started' = started + 1
          /\ started + 1 \in Session
          /\ rtsp' = [rtsp EXCEPT ![started + 1] = "connecting"]
      BY <1>0, <1>4, ReceiverAssumption DEF StartReceiving, TypeOK, Session
    <2>2. rtsp[started + 1] = "unborn"
      BY <1>0, <2>1 DEF SlotInv, TypeOK
    <2>3. Sending' = Sending
      BY <1>0, <2>1, <2>2 DEF Sending, TypeOK
    <2>4. RecordsDue' = RecordsDue
      BY <1>0, <1>2, <2>1, <2>3, DueChange
    <2>. QED
      BY <1>1, <1>4, <2>1, <2>4, BookBegins
  <1>. QED
    BY <1>3, <1>4 DEF HandleConnection

-------------------------------------------------------------------------------
LEMMA BookStep ==
    ASSUME STypeOK, STypeOK', SlotInv, [SNext]_allvars
    PROVE  [Book!Next]_(Book!bvars)
  <1>0. TypeOK /\ TypeOK'
    BY DEF STypeOK
  <1>1. ASSUME UNCHANGED <<started, running, events, rtsp, loop, cur, history>>
        PROVE  UNCHANGED Book!bvars
    <2>1. InHand' = InHand
      BY <1>1 DEF InHand, Holding, Handles
    <2>2. RecordsDue' = RecordsDue
      BY <1>0, <1>1, <2>1, DueInLoop DEF InHand
    <2>. QED
      BY <1>1, <2>2, BookStands
  <1>2. CASE UNCHANGED allvars
    BY <1>1, <1>2 DEF allvars, vars, svars
  <1>3. CASE LoopStep
    BY <1>3, BookTurns, BookStops, BookWrites, BookTakes, BookOtherEvents,
       BookConnection DEF LoopStep
  <1>4. CASE StopReceivingGoesOn \/ SignalArrives
    BY <1>1, <1>4 DEF StopReceivingGoesOn, SignalArrives, StopTake, StopJoin,
          svars, vars
  <1>5. CASE SourceConnects
    BY <1>5, BookOtherEvents
  <1>6. CASE \E s \in Session : SessionThread(s) \/ StatsThread(s) \/ SourceActs(s)
    BY <1>0, <1>6, BookThreads DEF SessionThread, StatsThread, SourceActs, Threads
  <1>. QED
    BY <1>2, <1>3, <1>4, <1>5, <1>6 DEF SNext

\* The headless service, with all its threads, implements the SessionBook: sessions
\* are begun one at a time, each that is over leaves a record that is due, and a
\* due record is written and never dropped while the service runs.
THEOREM ServiceKeepsBook == SSpec => KeepsBook
  <1>1. SInit => Book!Init
    <2>. SUFFICES ASSUME SInit PROVE Book!Init
      OBVIOUS
    <2>1. TypeOK
      BY TypeInit DEF SInit
    <2>2. /\ started = 0 /\ running = FALSE /\ history = <<>> /\ events = <<>>
          /\ rtsp = [s \in Session |-> "unborn"]
          /\ InHand = 0
      BY DEF SInit, Init, InHand, Holding, Handles
    <2>3. Sending = {} /\ Count(events, Stopped) = 0
      BY <2>1, <2>2, CountType DEF Sending, TypeOK
    <2>4. RecordsDue = 0
      BY <2>1, <2>2, <2>3, DueIs, FS_EmptySet DEF DueSum
    <2>. QED
      BY <2>2, <2>4 DEF Book!Init
  <1>2. STypeOK /\ STypeOK' /\ SlotInv /\ [SNext]_allvars
           => [Book!Next]_(Book!bvars)
    BY BookStep
  <1>. QED
    BY <1>1, <1>2, ServiceSlotAlways, PTL DEF SSpec, KeepsBook, Book!Spec
-------------------------------------------------------------------------------
\* What the book promises follows from the book alone.
LEMMA BookPromise ==
    Book!TypeOK /\ Book!NothingLost /\ [Book!Next]_(Book!bvars)
       => Book!TypeOK' /\ Book!NothingLost'
  <1>. SUFFICES ASSUME Book!TypeOK, Book!NothingLost, [Book!Next]_(Book!bvars)
                PROVE  Book!TypeOK' /\ Book!NothingLost'
    OBVIOUS
  <1>. USE DEF Book!TypeOK, Book!NothingLost
  <1>1. CASE Book!Begin
    BY <1>1 DEF Book!Begin
  <1>2. CASE Book!End
    <2>. DEFINE n == Len(history)
    <2>1. /\ started \in Nat /\ RecordsDue \in Nat /\ n \in Nat
          /\ running \in BOOLEAN /\ running = TRUE /\ running' = FALSE
          /\ started' = started /\ RecordsDue' = RecordsDue + 1 /\ Len(history') = n
      BY <1>2 DEF Book!End
    <2>. HIDE DEF n
    <2>2. started <= n + RecordsDue + 1
      BY <2>1 DEF n
    <2>3. RecordsDue + 1 \in Nat /\ n + RecordsDue + 1 = n + (RecordsDue + 1) + 0
      BY <2>1
    <2>. QED
      BY <2>1, <2>2, <2>3
  <1>3. CASE Book!ReportAgain
    BY <1>3 DEF Book!ReportAgain
  <1>4. CASE Book!Record
    BY <1>4 DEF Book!Record
  <1>5. CASE UNCHANGED Book!bvars
    BY <1>5 DEF Book!bvars
  <1>. QED
    BY <1>1, <1>2, <1>3, <1>4, <1>5 DEF Book!Next

\* No session of the service goes unrecorded: each one that was begun is open, or
\* has a record in the history or on the way there.
THEOREM ServiceLosesNothing == SSpec => []Book!NothingLost
  <1>1. Book!Init => Book!TypeOK /\ Book!NothingLost
    <2>. SUFFICES ASSUME Book!Init
                  PROVE  Book!TypeOK /\ Book!NothingLost
      OBVIOUS
    <2>1. started = 0 /\ running = FALSE /\ RecordsDue = 0 /\ Len(history) = 0
      BY DEF Book!Init
    <2>2. (IF running THEN 1 ELSE 0) = 0
      BY <2>1, Zenon
    <2>3. 0 <= 0 + 0 + 0
      OBVIOUS
    <2>4. started <= Len(history) + RecordsDue + (IF running THEN 1 ELSE 0)
      BY <2>1, <2>2, <2>3, Zenon
    <2>5. /\ started \in Nat /\ running \in BOOLEAN
          /\ RecordsDue \in Nat /\ Len(history) \in Nat
      <3>1. 0 \in Nat /\ FALSE \in BOOLEAN
        OBVIOUS
      <3>. QED
        BY <2>1, <3>1, Zenon
    <2>. QED
      BY <2>4, <2>5, Zenon DEF Book!TypeOK, Book!NothingLost
  <1>. QED
    BY <1>1, BookPromise, ServiceKeepsBook, PTL DEF KeepsBook, Book!Spec

-------------------------------------------------------------------------------
\* The pipeline slot of the service, too, never holds a pipeline that does not
\* play.
THEOREM ServiceSlotPlaying == SSpec => []SlotIsPlaying
  <1>1. SlotInv => SlotIsPlaying
    BY DEF SlotInv
  <1>. QED
    BY <1>1, ServiceSlotAlways, PTL

===============================================================================
