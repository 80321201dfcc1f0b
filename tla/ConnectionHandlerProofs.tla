------------------------ MODULE ConnectionHandlerProofs ------------------------
(***************************************************************************)
(* Proofs about ConnectionHandler: its types, and that one re-arming alone *)
(* leaves the screen and the registrar in step.  The latter is inductive   *)
(* only together with what holds half-way through a re-arming: a thread    *)
(* that arms holds the current PIN, a party that has yet to show holds the *)
(* current PIN, and what was already done was done with it (StepInv).      *)
(* The last part is about the channel between the two threads when wpa_cli *)
(* feeds it: LeaveInv says that joins never get ahead of the leaves behind *)
(* them.                                                                   *)
(***************************************************************************)
EXTENDS ConnectionHandler, TLAPS

StepInv ==
    ~overlapped =>
        /\ \A t \in Thread : arm[t] = "arming" => held[t] = currentPin
        /\ \A x \in Party : unshown[x] # NoPin => unshown[x] = currentPin
        /\ pins > 0 /\ (\A x \in Party : unshown[x] = NoPin)
              => shown = currentPin
        /\ (/\ pins > 0
            /\ unshown[Owner] = NoPin /\ unshown[Monitor] = NoPin
            /\ \A t \in Thread : arm[t] = "idle")
              => armed = currentPin \/ armFailed

\* The bound on PINs is a number, and the threads and parties are told apart.
LEMMA Numbers ==
    /\ MaxPins \in Nat \ {0}
    /\ Monitor \in Thread /\ Drain \in Thread /\ Pin \subseteq Thread
    /\ Monitor \notin Pin /\ Drain \notin Pin
    /\ Monitor # Drain /\ Monitor # Owner /\ Drain # Owner
  <1>1. MaxSignals \div 2 \in Nat
    BY HandlerAssumption
  <1>2. MaxPins \in Nat \ {0}
    BY <1>1, HandlerAssumption DEF MaxPins
  <1> QED
    BY <1>2 DEF Monitor, Drain, Owner, Thread, Pin

LEMMA HTypeInit == HInit => HTypeOK
  BY Numbers, HandlerAssumption
  DEF HInit, HTypeOK, Party, Monitor, Drain, NoPin, P2pEvent,
      MonitorStage, DrainStage, SignalKind, NothingUnread

\* A generated PIN is a new one.
LEMMA StoreType ==
    ASSUME HTypeOK, NEW x \in Party, StorePin(x)
    PROVE  /\ pins' \in 0 .. MaxPins /\ currentPin' = pins'
           /\ pins \in Nat /\ pins' = pins + 1
           /\ unshown' \in [Party -> 0 .. pins']
           /\ overlapped' \in BOOLEAN
  BY Numbers DEF HTypeOK, StorePin

\* A PIN that is shown was generated.
LEMMA ShowType ==
    ASSUME HTypeOK, NEW x \in Party, ShowPin(x)
    PROVE  /\ unshown[x] \in Pin /\ unshown[x] \in 1 .. pins
           /\ shown' \in 0 .. pins
           /\ unshown' \in [Party -> 0 .. pins]
  BY Numbers DEF HTypeOK, ShowPin, NoPin, Pin

\* The owner's calls keep the types.
LEMMA TypeOwner == HTypeOK /\ OwnerNext => HTypeOK'
<1> SUFFICES ASSUME HTypeOK, OwnerNext PROVE HTypeOK'
  OBVIOUS
<1> USE Numbers DEF HTypeOK, pinVars, showVars, armVars, threadVars, signalVars, groupVars
<1>1. CASE StartListening
  BY <1>1 DEF StartListening, MonitorGoto, MonitorStage
<1>2. CASE StopListening
  BY <1>2 DEF StopListening
<1>3. CASE DisconnectPeer
  BY <1>3 DEF DisconnectPeer
<1>4. CASE RearmStores
  <2>1. StorePin(Owner) /\ Owner \in Party
    BY <1>4 DEF RearmStores, Party
  <2>2. /\ pins' \in 0 .. MaxPins /\ currentPin' = pins'
        /\ pins \in Nat /\ pins' = pins + 1
        /\ unshown' \in [Party -> 0 .. pins'] /\ overlapped' \in BOOLEAN
    BY <2>1, StoreType
  <2>3. rearms' \in 0 .. MaxRearms
    BY <1>4, HandlerAssumption DEF RearmStores
  <2> QED
    BY <1>4, <2>2, <2>3 DEF RearmStores
<1>5. CASE RearmShows
  <2>1. ShowPin(Owner) /\ Owner \in Party
    BY <1>5 DEF RearmShows, Party
  <2>2. /\ unshown[Owner] \in Pin /\ shown' \in 0 .. pins
        /\ unshown' \in [Party -> 0 .. pins]
    BY <2>1, ShowType
  <2>3. arm' = [arm EXCEPT ![unshown[Owner]] = "read"]
    BY <1>5 DEF RearmShows, BeginArm
  <2>4. arm' \in [Thread -> {"idle", "read", "arming"}]
    BY <2>3
  <2>5. arm'[Monitor] = arm[Monitor] /\ arm'[Drain] = arm[Drain]
    BY <2>2, <2>3
  <2> QED
    BY <1>5, <2>2, <2>4, <2>5 DEF RearmShows
<1> QED
  BY <1>1, <1>2, <1>3, <1>4, <1>5 DEF OwnerNext

\* Arming keeps the types, whichever thread it is for.
LEMMA TypeArm ==
    ASSUME HTypeOK, NEW t \in Thread, ArmNext(t)
    PROVE  HTypeOK'
<1> USE Numbers DEF HTypeOK, pinVars, showVars, armVars, threadVars, signalVars, groupVars
<1>1. CASE ArmReads(t)
  <2>1. currentPin \in 0 .. pins
    OBVIOUS
  <2>2. held' \in [Thread -> 0 .. pins]
    BY <1>1, <2>1 DEF ArmReads
  <2>3. /\ arm' \in [Thread -> {"idle", "read", "arming"}]
        /\ \A u \in Thread : arm'[u] = "idle" <=> arm[u] = "idle"
    BY <1>1 DEF ArmReads
  <2> QED
    BY <1>1, <2>2, <2>3 DEF ArmReads
<1>2. ASSUME ArmReturns(t), arm[t] = "arming",
             armed' \in 0 .. pins, armFailed' \in BOOLEAN
      PROVE  HTypeOK'
  <2>1. /\ arm' \in [Thread -> {"idle", "read", "arming"}]
        /\ arm'[t] = "idle"
        /\ \A u \in Thread : u # t => arm'[u] = arm[u]
    BY <1>2 DEF ArmReturns
  <2>2. held' \in [Thread -> 0 .. pins]
    BY <1>2 DEF ArmReturns, NoPin
  <2>3. /\ monitor' \in MonitorStage
        /\ arm'[Monitor] # "idle" <=> monitor' = "arm"
        /\ t = Monitor => monitor = "arm" /\ monitor' = "attach"
        /\ t # Monitor => monitor' = monitor
    BY <1>2, <2>1 DEF ArmReturns, MonitorStage
  <2>4. /\ drain' \in DrainStage
        /\ drain' = "unborn" <=> drain = "unborn"
        /\ arm'[Drain] # "idle" <=> drain' \in {"arm", "armShow"}
        /\ drain' = "lease" <=> drain = "lease"
    BY <1>2, <2>1 DEF ArmReturns, DrainStage
  <2> QED
    BY <1>2, <2>1, <2>2, <2>3, <2>4 DEF ArmReturns
<1>3. CASE ArmSucceeds(t)
  BY <1>2, <1>3 DEF ArmSucceeds
<1>4. CASE ArmFails(t)
  BY <1>2, <1>4 DEF ArmFails
<1> QED
  BY <1>1, <1>3, <1>4 DEF ArmNext

\* What is appended to a queue of events, and what is taken from one.
LEMMA QueueTypes ==
    ASSUME NEW S, NEW q \in Seq(S)
    PROVE  /\ \A e \in S : Append(q, e) \in Seq(S)
           /\ q # <<>> => Head(q) \in S /\ Tail(q) \in Seq(S)
           /\ <<>> \in Seq(S)
  OBVIOUS

\* An event is one of the channel's.
LEMMA DeliverType ==
    ASSUME HTypeOK, NEW e \in P2pEvent, Deliver(e)
    PROVE  queue' \in Seq(P2pEvent) /\ signals' \in 0 .. MaxSignals /\ unread' = unread
  BY HandlerAssumption DEF HTypeOK, Deliver, Happens

LEMMA EventTypes ==
    /\ \A k \in {"PeerDisconnected", "GroupRemoved", "WpsPinNeeded", "Error"} :
          About(k) \in P2pEvent
    /\ \A p \in Peers : [kind |-> "PeerConnected", mac |-> p] \in P2pEvent
  BY DEF About, P2pEvent

\* The monitor thread keeps the types.
LEMMA TypeMonitor == HTypeOK /\ MonitorNext => HTypeOK'
<1> SUFFICES ASSUME HTypeOK, MonitorNext PROVE HTypeOK'
  OBVIOUS
<1> USE Numbers DEF HTypeOK, pinVars, showVars, armVars, threadVars, signalVars, groupVars,
                    MonitorGoto, MonitorStage, DrainStage
<1>1. CASE FirstPin
  <2>1. StorePin(Monitor) /\ Monitor \in Party
    BY <1>1 DEF FirstPin, Party
  <2>2. /\ pins' \in 0 .. MaxPins /\ currentPin' = pins'
        /\ pins \in Nat /\ pins' = pins + 1
        /\ unshown' \in [Party -> 0 .. pins'] /\ overlapped' \in BOOLEAN
    BY <2>1, StoreType
  <2> QED
    BY <1>1, <2>2 DEF FirstPin
<1>2. CASE FirstPinShows
  <2>1. ShowPin(Monitor) /\ Monitor \in Party
    BY <1>2 DEF FirstPinShows, Party
  <2>2. shown' \in 0 .. pins /\ unshown' \in [Party -> 0 .. pins]
    BY <2>1, ShowType
  <2>3. arm' = [arm EXCEPT ![Monitor] = "read"]
    BY <1>2 DEF FirstPinShows, BeginArm
  <2>4. arm' \in [Thread -> {"idle", "read", "arming"}]
    BY <2>3
  <2>5. arm'[Monitor] = "read" /\ arm'[Drain] = arm[Drain]
    BY <2>3
  <2> QED
    BY <1>2, <2>2, <2>4, <2>5 DEF FirstPinShows
<1>3. CASE MonitorChecks
  BY <1>3 DEF MonitorChecks
<1>4. CASE MonitorPolls
  BY <1>4 DEF MonitorPolls
<1>5. CASE MonitorReturned
  <2>1. unread' = NothingUnread /\ <<>> \in Seq(P2pEvent)
    BY <1>5, QueueTypes DEF MonitorReturned
  <2>2. unread' \in [SignalKind -> Seq(P2pEvent)]
    BY <2>1 DEF NothingUnread
  <2> QED
    BY <1>5, <2>2 DEF MonitorReturned
<1>6. CASE MonitorJoins
  BY <1>6 DEF MonitorJoins
<1>7. CASE MonitorAttaches
  BY <1>7 DEF MonitorAttaches
<1>8. CASE MonitorAttachFails
  <2>1. queue' \in Seq(P2pEvent) /\ signals' \in 0 .. MaxSignals /\ unread' = unread
    BY <1>8, DeliverType, EventTypes DEF MonitorAttachFails
  <2> QED
    BY <1>8, <2>1 DEF MonitorAttachFails
<1>9. ASSUME NEW kind \in SignalKind, MonitorReads(kind) PROVE HTypeOK'
  <2>1. /\ unread[kind] \in Seq(P2pEvent) /\ unread[kind] # <<>>
        /\ queue' = Append(queue, Head(unread[kind])) \/ queue' = queue
        /\ unread' = [unread EXCEPT ![kind] = Tail(unread[kind])]
    BY <1>9 DEF MonitorReads
  <2>2. /\ Head(unread[kind]) \in P2pEvent /\ Tail(unread[kind]) \in Seq(P2pEvent)
        /\ queue \in Seq(P2pEvent)
    BY <2>1, QueueTypes
  <2>3. queue' \in Seq(P2pEvent)
    <3>1. Append(queue, Head(unread[kind])) \in Seq(P2pEvent)
      BY <2>2, QueueTypes
    <3> QED
      BY <2>1, <2>2, <3>1
  <2>4. unread' \in [SignalKind -> Seq(P2pEvent)]
    BY <2>1, <2>2
  <2> QED
    BY <1>9, <2>3, <2>4 DEF MonitorReads
<1> QED
  BY <1>1, <1>2, <1>3, <1>4, <1>5, <1>6, <1>7, <1>8, <1>9 DEF MonitorNext

\* What the group does keeps the types.
LEMMA TypeGroup == HTypeOK /\ GroupNext => HTypeOK'
<1> SUFFICES ASSUME HTypeOK, GroupNext PROVE HTypeOK'
  OBVIOUS
<1> USE Numbers DEF HTypeOK, pinVars, showVars, armVars, threadVars, signalVars, groupVars,
                    MonitorGoto, MonitorStage
<1>1. ASSUME NEW e \in P2pEvent, e.kind \in SignalKind, Announces(e),
             associated' \subseteq Peers, grouped' \in BOOLEAN
      PROVE  HTypeOK'
  <2>1. signals' \in 0 .. MaxSignals
    BY <1>1, HandlerAssumption DEF Announces, Happens
  <2>2. /\ queue' = queue \/ queue' = Append(queue, e)
        /\ unread' = unread \/ unread' = [unread EXCEPT ![e.kind] = Append(unread[e.kind], e)]
        /\ monitor' \in MonitorStage
        /\ monitor' = monitor \/ (monitor = "watching" /\ monitor' \in {"check", "returned"})
    BY <1>1 DEF Announces
  <2>3. queue' \in Seq(P2pEvent)
    <3>1. queue \in Seq(P2pEvent)
      OBVIOUS
    <3>2. Append(queue, e) \in Seq(P2pEvent)
      BY <1>1, <3>1, QueueTypes
    <3> QED
      BY <2>2, <3>1, <3>2
  <2>4. unread[e.kind] \in Seq(P2pEvent)
    BY <1>1
  <2>5. Append(unread[e.kind], e) \in Seq(P2pEvent)
    BY <1>1, <2>4, QueueTypes
  <2>6. unread' \in [SignalKind -> Seq(P2pEvent)]
    BY <2>2, <2>5
  <2> QED
    BY <1>1, <2>1, <2>2, <2>3, <2>6 DEF Announces
<1>2. ASSUME NEW p \in Peers, PeerJoins(p) \/ PeerLeaves(p) PROVE HTypeOK'
  <2>1. associated' \subseteq Peers /\ grouped' = grouped
    BY <1>2 DEF PeerJoins, PeerLeaves
  <2> QED
    BY <1>1, <1>2, <2>1, EventTypes DEF PeerJoins, PeerLeaves, About, SignalKind
<1>3. CASE PinNeeded
  <2>1. queue' \in Seq(P2pEvent) /\ signals' \in 0 .. MaxSignals /\ unread' = unread
    BY <1>3, DeliverType, EventTypes DEF PinNeeded
  <2> QED
    BY <1>3, <2>1 DEF PinNeeded
<1>4. CASE GroupRemoved
  BY <1>1, <1>4, EventTypes DEF GroupRemoved, About, SignalKind
<1>5. CASE StreamEnds
  <2>1. queue' \in Seq(P2pEvent) /\ signals' \in 0 .. MaxSignals /\ unread' = unread
    BY <1>5, DeliverType, EventTypes DEF StreamEnds
  <2> QED
    BY <1>5, <2>1 DEF StreamEnds
<1> QED
  BY <1>2, <1>3, <1>4, <1>5 DEF GroupNext

\* The drain thread keeps the types.
LEMMA TypeDrain == HTypeOK /\ DrainNext => HTypeOK'
<1> SUFFICES ASSUME HTypeOK, DrainNext PROVE HTypeOK'
  OBVIOUS
<1> USE Numbers DEF HTypeOK, pinVars, showVars, armVars, threadVars, signalVars, groupVars,
                    DrainGoto, DrainStage
<1>1. ASSUME NEW kinds, NEW to, Takes(kinds, to)
      PROVE  Head(queue) \in P2pEvent /\ queue' \in Seq(P2pEvent)
  BY <1>1 DEF Takes
<1>2. CASE DrainChecks
  BY <1>2 DEF DrainChecks
<1>3. CASE DrainTimesOut
  BY <1>3 DEF DrainTimesOut
<1>4. CASE TakesConnected
  <2>1. leasing' \in Peers
    BY <1>1, <1>4 DEF TakesConnected, Takes, P2pEvent
  <2> QED
    BY <1>1, <1>4, <2>1, HandlerAssumption DEF TakesConnected, Takes
<1>5. CASE TakesDisconnected
  BY <1>1, <1>5 DEF TakesDisconnected, Takes
<1>6. CASE TakesPinNeeded
  <2>1. arm' = [arm EXCEPT ![Drain] = "read"]
    BY <1>6 DEF TakesPinNeeded, BeginArm
  <2> QED
    BY <1>1, <1>6, <2>1 DEF TakesPinNeeded, Takes
<1>7. CASE TakesError
  BY <1>1, <1>7 DEF TakesError, Takes
<1>8. CASE TakesGroupRemoved
  BY <1>1, <1>8 DEF TakesGroupRemoved, Takes
<1>9. CASE LeaseEnds
  BY <1>9 DEF LeaseEnds
<1>10. CASE SourceLeft
  BY <1>10 DEF SourceLeft
<1>11. CASE SourceLeftStores
  <2>1. StorePin(Drain) /\ Drain \in Party
    BY <1>11 DEF SourceLeftStores, Party
  <2>2. /\ pins' \in 0 .. MaxPins /\ currentPin' = pins'
        /\ pins \in Nat /\ pins' = pins + 1
        /\ unshown' \in [Party -> 0 .. pins'] /\ overlapped' \in BOOLEAN
    BY <2>1, StoreType
  <2>3. arm' = [arm EXCEPT ![Drain] = "read"]
    BY <1>11 DEF SourceLeftStores, BeginArm
  <2>4. /\ arm' \in [Thread -> {"idle", "read", "arming"}]
        /\ arm'[Drain] = "read" /\ arm'[Monitor] = arm[Monitor]
    BY <2>3
  <2> QED
    BY <1>11, <2>2, <2>4 DEF SourceLeftStores
<1>12. CASE StrangerLeft
  BY <1>12 DEF StrangerLeft
<1>13. CASE SourceLeftShows
  <2>1. ShowPin(Drain) /\ Drain \in Party
    BY <1>13 DEF SourceLeftShows, Party
  <2>2. shown' \in 0 .. pins /\ unshown' \in [Party -> 0 .. pins]
    BY <2>1, ShowType
  <2> QED
    BY <1>13, <2>2 DEF SourceLeftShows
<1> QED
  BY <1>2, <1>3, <1>4, <1>5, <1>6, <1>7, <1>8, <1>9, <1>10, <1>11, <1>12, <1>13
  DEF DrainNext

LEMMA HTypeStep == HTypeOK /\ [HNext]_hvars => HTypeOK'
<1>1. HTypeOK /\ UNCHANGED hvars => HTypeOK'
  BY DEF HTypeOK, hvars, pinVars, showVars, armVars, threadVars, signalVars, groupVars
<1> QED
  BY <1>1, TypeOwner, TypeArm, TypeMonitor, TypeGroup, TypeDrain DEF HNext

\* The connection handler keeps its types: the two threads' stages, what they
\* arm and what they have yet to show go together, and no more PINs are generated
\* than sources and the owner can cause.
THEOREM HandlerTypeCorrect == HSpec => []HTypeOK
  BY HTypeInit, HTypeStep, PTL DEF HSpec

-------------------------------------------------------------------------------
(* One re-arming alone. *)

LEMMA StepInit == HInit => StepInv
  BY Numbers DEF HInit, StepInv, Party

\* A step that leaves PINs, screen and registrar alone.
LEMMA StepKept == StepInv /\ UNCHANGED <<pinVars, showVars, armVars>> => StepInv'
  BY DEF StepInv, pinVars, showVars, armVars

\* Storing a PIN: during another re-arming it is an overlap; otherwise nothing is
\* held, unshown or half-done but this PIN.
LEMMA StepStore ==
    ASSUME HTypeOK, StepInv, NEW x \in Party, StorePin(x),
           UNCHANGED <<shown, armed, armFailed, held>>,
           \/ arm' = arm /\ x # Drain
           \/ x = Drain /\ arm' = [arm EXCEPT ![Drain] = "read"]
    PROVE  StepInv'
<1>1. CASE Rearming \/ overlapped
  BY <1>1 DEF StepInv, StorePin
<1>2. CASE ~Rearming /\ ~overlapped
  <2>1. /\ \A y \in Party : unshown[y] = NoPin
        /\ \A t \in Thread : arm[t] = "idle"
    BY <1>2 DEF Rearming
  <2>2. /\ pins \in Nat /\ currentPin' = pins + 1
        /\ unshown' = [unshown EXCEPT ![x] = pins + 1]
        /\ unshown \in [Party -> 0 .. pins]
    BY DEF StorePin, HTypeOK
  <2>3. /\ unshown'[x] = currentPin' /\ unshown'[x] # NoPin
        /\ \A y \in Party : y # x => unshown'[y] = NoPin
    BY <2>1, <2>2 DEF NoPin
  <2>4. \A t \in Thread : arm'[t] # "arming"
    BY <2>1, Numbers DEF HTypeOK
  <2>5. x = Drain => \E t \in Thread : arm'[t] # "idle"
    BY Numbers DEF HTypeOK
  <2>6. x \in {Owner, Monitor, Drain}
    BY DEF Party
  <2> QED
    BY <2>3, <2>4, <2>5, <2>6 DEF StepInv
<1> QED
  BY <1>1, <1>2

\* Showing a PIN; the owner and the monitor then begin to arm it.
LEMMA StepShow ==
    ASSUME HTypeOK, StepInv, NEW x \in Party, ShowPin(x),
           UNCHANGED <<pinVars, armed, armFailed, held>>,
           \/ x = Drain /\ arm' = arm
           \/ \E t \in Thread : arm' = [arm EXCEPT ![t] = "read"]
    PROVE  StepInv'
<1> SUFFICES ASSUME ~overlapped PROVE StepInv'
  BY DEF StepInv, pinVars
<1>1. /\ unshown[x] = currentPin /\ shown' = currentPin
      /\ unshown' = [unshown EXCEPT ![x] = NoPin]
      /\ unshown \in [Party -> 0 .. pins]
  BY DEF ShowPin, StepInv, HTypeOK
<1>2. /\ \A y \in Party : unshown'[y] # NoPin => unshown'[y] = currentPin
      /\ x = Drain => /\ unshown'[Owner] = unshown[Owner]
                      /\ unshown'[Monitor] = unshown[Monitor]
  BY <1>1, Numbers DEF StepInv, Party
<1>3. \A t \in Thread : arm'[t] = "arming" => held[t] = currentPin
  BY DEF StepInv, HTypeOK
<1>4. \/ x = Drain /\ arm' = arm
      \/ \E t \in Thread : arm'[t] # "idle"
  BY DEF HTypeOK
<1> QED
  BY <1>1, <1>2, <1>3, <1>4 DEF StepInv, pinVars

\* Arming: the PIN that was read is the current one until another is stored.
LEMMA StepArm ==
    ASSUME HTypeOK, StepInv, NEW t \in Thread, ArmNext(t)
    PROVE  StepInv'
<1> SUFFICES ASSUME ~overlapped PROVE StepInv'
  BY DEF StepInv, ArmNext, ArmReads, ArmSucceeds, ArmFails, ArmReturns, pinVars
<1>1. CASE ArmReads(t)
  <2>1. /\ arm' = [arm EXCEPT ![t] = "arming"]
        /\ held' = [held EXCEPT ![t] = currentPin]
        /\ UNCHANGED <<armed, armFailed, pinVars, showVars>>
    BY <1>1 DEF ArmReads
  <2>2. /\ \A u \in Thread : arm'[u] = "arming" => held'[u] = currentPin
        /\ arm'[t] # "idle"
    BY <2>1 DEF StepInv, HTypeOK
  <2> QED
    BY <2>1, <2>2 DEF StepInv, pinVars, showVars
<1>2. ASSUME ArmReturns(t), arm[t] = "arming",
             armed' = currentPin \/ armFailed'
      PROVE  StepInv'
  <2>1. /\ arm' = [arm EXCEPT ![t] = "idle"]
        /\ held' = [held EXCEPT ![t] = NoPin]
        /\ UNCHANGED <<pinVars, showVars>>
    BY <1>2 DEF ArmReturns
  <2>2. \A u \in Thread : arm'[u] = "arming" => held'[u] = currentPin
    BY <2>1 DEF StepInv, HTypeOK
  <2> QED
    BY <1>2, <2>1, <2>2 DEF StepInv, pinVars, showVars
<1>3. CASE ArmSucceeds(t)
  BY <1>2, <1>3 DEF ArmSucceeds, StepInv
<1>4. CASE ArmFails(t)
  BY <1>2, <1>4 DEF ArmFails
<1> QED
  BY <1>1, <1>3, <1>4 DEF ArmNext

LEMMA StepStep == HTypeOK /\ StepInv /\ [HNext]_hvars => StepInv'
<1> SUFFICES ASSUME HTypeOK, StepInv, [HNext]_hvars PROVE StepInv'
  OBVIOUS
<1>0. Owner \in Party /\ Monitor \in Party /\ Drain \in Party
  BY DEF Party
<1>1. CASE OwnerNext
  <2>1. CASE RearmStores
    BY <1>0, <2>1, StepStore, Numbers DEF RearmStores, armVars
  <2>2. CASE RearmShows
    <3>1. unshown[Owner] \in Thread
      BY <1>0, <2>2, ShowType, Numbers DEF RearmShows
    <3> QED
      BY <1>0, <2>2, <3>1, StepShow DEF RearmShows, BeginArm
  <2>3. CASE StartListening \/ StopListening \/ DisconnectPeer
    BY <2>3, StepKept DEF StartListening, StopListening, DisconnectPeer
  <2> QED
    BY <1>1, <2>1, <2>2, <2>3 DEF OwnerNext
<1>2. CASE MonitorNext
  <2>1. CASE FirstPin
    BY <1>0, <2>1, StepStore, Numbers DEF FirstPin, armVars
  <2>2. CASE FirstPinShows
    BY <1>0, <2>2, StepShow, Numbers DEF FirstPinShows, BeginArm
  <2>3. CASE MonitorAttaches \/ MonitorAttachFails \/ MonitorChecks \/ MonitorPolls
             \/ (\E kind \in SignalKind : MonitorReads(kind)) \/ MonitorReturned
             \/ MonitorJoins
    BY <2>3, StepKept
    DEF MonitorAttaches, MonitorAttachFails, MonitorChecks, MonitorPolls,
        MonitorReads, MonitorReturned, MonitorJoins
  <2> QED
    BY <1>2, <2>1, <2>2, <2>3 DEF MonitorNext
<1>3. CASE GroupNext
  <2>1. UNCHANGED <<pinVars, showVars, armVars>>
    BY <1>3 DEF GroupNext, PeerJoins, PeerLeaves, PinNeeded, GroupRemoved,
                StreamEnds, Announces
  <2> QED
    BY <2>1, StepKept
<1>4. CASE DrainNext
  <2>1. CASE SourceLeftStores
    BY <1>0, <2>1, StepStore DEF SourceLeftStores, BeginArm
  <2>2. CASE SourceLeftShows
    BY <1>0, <2>2, StepShow DEF SourceLeftShows, armVars
  <2>3. CASE TakesPinNeeded
    <3>1. /\ arm' = [arm EXCEPT ![Drain] = "read"]
          /\ UNCHANGED <<pinVars, showVars, armed, armFailed, held>>
      BY <2>3 DEF TakesPinNeeded, BeginArm, Takes
    <3>2. /\ \A t \in Thread : arm'[t] = "arming" => arm[t] = "arming"
          /\ arm'[Drain] # "idle"
      BY <3>1, Numbers DEF HTypeOK
    <3> QED
      BY <3>1, <3>2, Numbers DEF StepInv, pinVars, showVars
  <2>4. CASE DrainChecks \/ DrainTimesOut \/ TakesConnected
             \/ TakesDisconnected \/ TakesError \/ TakesGroupRemoved
    BY <2>4, StepKept
    DEF DrainChecks, DrainTimesOut, TakesConnected, TakesDisconnected,
        TakesError, TakesGroupRemoved, Takes
  <2>5. CASE LeaseEnds \/ SourceLeft \/ StrangerLeft
    BY <2>5, StepKept DEF LeaseEnds, SourceLeft, StrangerLeft
  <2> QED
    BY <1>4, <2>1, <2>2, <2>3, <2>4, <2>5 DEF DrainNext
<1>5. ASSUME NEW t \in Thread, ArmNext(t) PROVE StepInv'
  BY <1>5, StepArm
<1>6. CASE UNCHANGED hvars
  BY <1>6, StepKept DEF hvars
<1> QED
  BY <1>1, <1>2, <1>3, <1>4, <1>5, <1>6 DEF HNext

\* For any number of sources, events and re-armings: while no PIN was generated
\* during another re-arming, the PIN shown and the PIN armed are the current one
\* whenever nothing is in progress, or the last arming was reported as failed.
THEOREM HandlerConsistent == HSpec => []ConsistentUnlessOverlapped
<1>1. HTypeOK /\ StepInv => ConsistentUnlessOverlapped
  BY DEF HTypeOK, StepInv, ConsistentUnlessOverlapped, Quiet, Rearming, Party
<1> QED
  BY <1>1, HTypeInit, HTypeStep, StepInit, StepStep, PTL DEF HSpec

-------------------------------------------------------------------------------
\* A leave comes behind the event at place i.
Behind(i) == \E j \in DOMAIN queue : j > i /\ queue[j].kind = "PeerDisconnected"

\* With wpa_cli: nothing came before the drain thread; while the group is watched,
\* the thread is there, and when no source is associated, everything in the channel
\* and in the thread's hand that makes a connection has a leave behind it.
LeaveInv ==
    backend = "cli" =>
        /\ drain = "unborn" => queue = <<>> /\ conn = None
        /\ Watched =>
              /\ running => drain # "done"
              /\ \A i \in DOMAIN queue : queue[i].kind # "GroupRemoved"
              /\ associated = {} =>
                    /\ conn # None \/ leasing # None => drain = "left" \/ LeaveQueued
                    /\ \A i \in DOMAIN queue : queue[i].kind = "PeerConnected" => Behind(i)

\* The places of the channel after an event was sent, and after one was taken.
LEMMA Sent ==
    ASSUME HTypeOK, NEW e \in P2pEvent, queue' = Append(queue, e)
    PROVE  \E n \in Nat : /\ DOMAIN queue = 1 .. n /\ DOMAIN queue' = 1 .. n + 1
                          /\ \A i \in 1 .. n : queue'[i] = queue[i]
                          /\ queue'[n + 1] = e
  <1>1. queue \in Seq(P2pEvent)
    BY DEF HTypeOK
  <1>2. /\ DOMAIN queue = 1 .. Len(queue) /\ Len(queue) \in Nat
        /\ DOMAIN queue' = 1 .. Len(queue) + 1
        /\ \A i \in 1 .. Len(queue) : queue'[i] = queue[i]
        /\ queue'[Len(queue) + 1] = e
    BY <1>1
  <1> QED
    BY <1>2

LEMMA Taken ==
    ASSUME HTypeOK, queue # <<>>, queue' = Tail(queue)
    PROVE  \E n \in Nat : /\ DOMAIN queue = 1 .. n + 1 /\ DOMAIN queue' = 1 .. n
                          /\ \A i \in 1 .. n : queue'[i] = queue[i + 1]
                          /\ queue[1] = Head(queue)
  <1>1. queue \in Seq(P2pEvent)
    BY DEF HTypeOK
  <1>2. /\ DOMAIN queue = 1 .. Len(queue) /\ Len(queue) \in Nat /\ Len(queue) # 0
        /\ DOMAIN queue' = 1 .. Len(queue) - 1
        /\ \A i \in 1 .. Len(queue) - 1 : queue'[i] = queue[i + 1]
        /\ queue[1] = Head(queue)
    BY <1>1
  <1>3. Len(queue) - 1 \in Nat /\ (Len(queue) - 1) + 1 = Len(queue)
    BY <1>2
  <1> QED
    BY <1>2, <1>3

\* An event that is no join goes to the end of the channel: whatever had a leave
\* behind it still has, and if the event is a leave, everything has.
LEMMA BehindSent ==
    ASSUME HTypeOK, NEW e \in P2pEvent, queue' = Append(queue, e), e.kind # "PeerConnected"
    PROVE  /\ LeaveQueued => LeaveQueued'
           /\ (\A i \in DOMAIN queue : queue[i].kind = "PeerConnected" => Behind(i))
                 => \A i \in DOMAIN queue' : queue'[i].kind = "PeerConnected" => Behind(i)'
           /\ e.kind = "PeerDisconnected" =>
                 /\ LeaveQueued'
                 /\ \A i \in DOMAIN queue' : queue'[i].kind = "PeerConnected" => Behind(i)'
           /\ e.kind # "GroupRemoved" /\ (\A i \in DOMAIN queue : queue[i].kind # "GroupRemoved")
                 => \A i \in DOMAIN queue' : queue'[i].kind # "GroupRemoved"
  <1>1. PICK n \in Nat : /\ DOMAIN queue = 1 .. n /\ DOMAIN queue' = 1 .. n + 1
                         /\ \A i \in 1 .. n : queue'[i] = queue[i]
                         /\ queue'[n + 1] = e
    BY Sent
  <1>2. /\ n + 1 \in DOMAIN queue'
        /\ \A i \in DOMAIN queue : i \in DOMAIN queue' /\ i < n + 1
        /\ \A i \in DOMAIN queue' : i \in DOMAIN queue \/ i = n + 1
    BY <1>1
  <1>3. LeaveQueued => LeaveQueued'
    BY <1>1, <1>2 DEF LeaveQueued
  <1>4. ASSUME NEW i \in DOMAIN queue, Behind(i)
        PROVE  Behind(i)'
    <2>1. PICK j \in DOMAIN queue : j > i /\ queue[j].kind = "PeerDisconnected"
      BY <1>4 DEF Behind
    <2>2. j \in DOMAIN queue' /\ queue'[j].kind = "PeerDisconnected"
      BY <1>1, <1>2, <2>1
    <2> QED
      BY <2>1, <2>2 DEF Behind
  <1>5. ASSUME e.kind = "PeerDisconnected", NEW i \in DOMAIN queue
        PROVE  Behind(i)'
    BY <1>1, <1>2, <1>5 DEF Behind
  <1>6. e.kind = "PeerDisconnected" => LeaveQueued'
    BY <1>1, <1>2 DEF LeaveQueued
  <1>7. \A i \in DOMAIN queue' :
           queue'[i].kind = "PeerConnected" => i \in DOMAIN queue /\ queue[i].kind = "PeerConnected"
    BY <1>1, <1>2
  <1>8. e.kind # "GroupRemoved" /\ (\A i \in DOMAIN queue : queue[i].kind # "GroupRemoved")
           => \A i \in DOMAIN queue' : queue'[i].kind # "GroupRemoved"
    BY <1>1, <1>2
  <1> QED
    BY <1>3, <1>4, <1>5, <1>6, <1>7, <1>8

\* What is taken is taken from the front: a leave stays behind what it was behind, and
\* a leave in the channel stays there unless it is the one that is taken.
LEMMA BehindTaken ==
    ASSUME HTypeOK, queue # <<>>, queue' = Tail(queue)
    PROVE  /\ Head(queue).kind # "PeerDisconnected" /\ LeaveQueued => LeaveQueued'
           /\ (\A i \in DOMAIN queue : queue[i].kind = "PeerConnected" => Behind(i))
                 => /\ \A i \in DOMAIN queue' : queue'[i].kind = "PeerConnected" => Behind(i)'
                    /\ Head(queue).kind = "PeerConnected" => LeaveQueued'
           /\ (\A i \in DOMAIN queue : queue[i].kind # "GroupRemoved")
                 => /\ \A i \in DOMAIN queue' : queue'[i].kind # "GroupRemoved"
                    /\ Head(queue).kind # "GroupRemoved"
  <1>1. PICK n \in Nat : /\ DOMAIN queue = 1 .. n + 1 /\ DOMAIN queue' = 1 .. n
                         /\ \A i \in 1 .. n : queue'[i] = queue[i + 1]
                         /\ queue[1] = Head(queue)
    BY Taken
  <1>2. /\ 1 \in DOMAIN queue
        /\ \A i \in DOMAIN queue' : i \in Nat /\ i + 1 \in DOMAIN queue /\ queue'[i] = queue[i + 1]
        /\ \A i \in DOMAIN queue :
              i \in Nat /\ i >= 1 /\ (i > 1 => i - 1 \in DOMAIN queue' /\ queue'[i - 1] = queue[i])
    <2>1. \A i \in 1 .. n : i + 1 \in 1 .. n + 1
      BY <1>1
    <2>2. \A i \in 1 .. n + 1 : i > 1 => i - 1 \in 1 .. n /\ (i - 1) + 1 = i
      BY <1>1
    <2> QED
      BY <1>1, <2>1, <2>2
  <1>3. ASSUME Head(queue).kind # "PeerDisconnected", LeaveQueued
        PROVE  LeaveQueued'
    <2>1. PICK j \in DOMAIN queue : queue[j].kind = "PeerDisconnected"
      BY <1>3 DEF LeaveQueued
    <2>2. j > 1
      BY <1>1, <1>2, <1>3, <2>1
    <2> QED
      BY <1>2, <2>1, <2>2 DEF LeaveQueued
  <1>4. ASSUME NEW i \in DOMAIN queue', Behind(i + 1)
        PROVE  Behind(i)'
    <2>1. PICK j \in DOMAIN queue : j > i + 1 /\ queue[j].kind = "PeerDisconnected"
      BY <1>4 DEF Behind
    <2>2. j \in Nat /\ i \in Nat /\ j > 1 /\ j - 1 > i
      BY <1>2, <2>1
    <2>3. j - 1 \in DOMAIN queue' /\ queue'[j - 1].kind = "PeerDisconnected"
      BY <1>2, <2>1, <2>2
    <2> QED
      BY <2>2, <2>3 DEF Behind
  <1>5. ASSUME Behind(1)
        PROVE  LeaveQueued'
    <2>1. PICK j \in DOMAIN queue : j > 1 /\ queue[j].kind = "PeerDisconnected"
      BY <1>5 DEF Behind
    <2> QED
      BY <1>2, <2>1 DEF LeaveQueued
  <1>6. (\A i \in DOMAIN queue : queue[i].kind # "GroupRemoved")
           => /\ \A i \in DOMAIN queue' : queue'[i].kind # "GroupRemoved"
              /\ Head(queue).kind # "GroupRemoved"
    BY <1>1, <1>2
  <1> QED
    BY <1>1, <1>2, <1>3, <1>4, <1>5, <1>6

\* A step that leaves the channel, the sources and the connection alone.
LEMMA LeaveKept ==
    ASSUME LeaveInv, UNCHANGED <<backend, queue, associated, conn, leasing>>,
           drain' = "unborn" => drain = "unborn", Watched' => Watched, Watched' /\ running' => running,
           drain = "left" => drain' = "left" \/ conn = None,
           leasing # None => drain # "left",
           Watched' /\ drain' = "done" => ~running' \/ drain = "done"
    PROVE  LeaveInv'
  <1>1. LeaveQueued' = LeaveQueued /\ \A i : Behind(i)' = Behind(i)
    BY DEF LeaveQueued, Behind
  <1> QED
    BY <1>1 DEF LeaveInv

LEMMA LeaveDrain ==
    ASSUME HTypeOK, LeaveInv, DrainNext
    PROVE  LeaveInv'
  <1> USE DEF DrainGoto, pinVars, showVars, armVars, threadVars, signalVars, groupVars
  <1>a. backend' = backend /\ drain # "unborn" /\ drain' # "unborn"
    BY DEF DrainNext, DrainChecks, DrainTimesOut, TakesConnected, TakesDisconnected,
           TakesPinNeeded, TakesError, TakesGroupRemoved, LeaseEnds, SourceLeft,
           SourceLeftStores, StrangerLeft, SourceLeftShows, Takes
  <1> SUFFICES ASSUME backend = "cli" PROVE LeaveInv'
    BY <1>a DEF LeaveInv
  <1>0. leasing # None <=> drain = "lease"
    BY DEF HTypeOK
  <1>1. CASE DrainChecks \/ DrainTimesOut \/ StrangerLeft \/ SourceLeftStores \/ SourceLeftShows
    <2>1. UNCHANGED <<queue, associated, conn, leasing, monitor, running>>
      BY <1>1 DEF DrainChecks, DrainTimesOut, StrangerLeft, SourceLeftStores, SourceLeftShows
    <2>2. drain = "left" => conn = None
      BY <1>1 DEF DrainChecks, DrainTimesOut, StrangerLeft, SourceLeftStores, SourceLeftShows
    <2>3. Watched' = Watched /\ (Watched' /\ drain' = "done" => ~running')
      BY <1>1, <2>1
         DEF Watched, DrainChecks, DrainTimesOut, StrangerLeft, SourceLeftStores, SourceLeftShows
    <2> QED
      BY <1>a, <1>0, <2>1, <2>2, <2>3, LeaveKept
  <1>2. ASSUME NEW kinds, NEW to, Takes(kinds, to)
        PROVE  /\ queue # <<>> /\ queue' = Tail(queue) /\ Head(queue).kind \in kinds
               /\ UNCHANGED <<associated, conn, monitor, running>> /\ Watched' = Watched
               /\ drain = "recv" /\ drain' = to /\ leasing = None
    BY <1>0, <1>2 DEF Takes, Watched
  \* What every taking keeps, and what it needs to know of the event.
  <1>2a. ASSUME NEW kind, NEW to, Takes({kind}, to),
                kind = "PeerConnected" \/ leasing' = leasing,
                kind = "PeerDisconnected" => to = "left", to # "done"
         PROVE  LeaveInv'
    <2>1. /\ queue # <<>> /\ queue' = Tail(queue) /\ Head(queue).kind = kind
          /\ UNCHANGED <<associated, conn, monitor, running>> /\ Watched' = Watched
          /\ drain = "recv" /\ drain' = to /\ leasing = None
      BY <1>2, <1>2a
    <2> SUFFICES ASSUME Watched PROVE LeaveInv'
      BY <1>a, <2>1 DEF LeaveInv
    <2>2. \A i \in DOMAIN queue' : queue'[i].kind # "GroupRemoved"
      BY <2>1, BehindTaken DEF LeaveInv
    <2>3. CASE associated # {}
      BY <1>a, <1>2a, <2>1, <2>2, <2>3 DEF LeaveInv
    <2>4. CASE associated = {}
      <3>1. /\ conn # None => LeaveQueued
            /\ \A i \in DOMAIN queue : queue[i].kind = "PeerConnected" => Behind(i)
        BY <2>1, <2>4 DEF LeaveInv
      <3>2. /\ \A i \in DOMAIN queue' : queue'[i].kind = "PeerConnected" => Behind(i)'
            /\ kind = "PeerConnected" => LeaveQueued'
            /\ kind # "PeerDisconnected" /\ LeaveQueued => LeaveQueued'
        BY <2>1, <3>1, BehindTaken
      <3>3. conn' # None \/ leasing' # None => drain' = "left" \/ LeaveQueued'
        BY <1>2a, <2>1, <3>1, <3>2
      <3> QED
        BY <1>a, <1>2a, <2>1, <2>2, <3>2, <3>3 DEF LeaveInv
    <2> QED
      BY <2>3, <2>4
  <1>3. CASE TakesConnected
    BY <1>3, <1>2a DEF TakesConnected
  <1>4. CASE TakesDisconnected
    BY <1>4, <1>2a DEF TakesDisconnected
  <1>5. CASE TakesPinNeeded \/ TakesError
    BY <1>5, <1>2a DEF TakesPinNeeded, TakesError
  <1>6. CASE TakesGroupRemoved
    <2>1. Takes({"GroupRemoved"}, "done")
      BY <1>6 DEF TakesGroupRemoved
    <2>2. ~Watched
      BY <1>2, <2>1, BehindTaken DEF LeaveInv
    <2> QED
      BY <1>a, <1>2, <2>1, <2>2 DEF LeaveInv
  <1>7. CASE LeaseEnds
    <2>1. /\ UNCHANGED <<queue, associated, monitor, running>>
          /\ drain = "lease" /\ drain' = "check"
          /\ conn' \in {leasing, conn} /\ leasing' = None
      BY <1>7 DEF LeaseEnds
    <2>2. LeaveQueued' = LeaveQueued /\ \A i : Behind(i)' = Behind(i)
      BY <2>1 DEF LeaveQueued, Behind
    <2> QED
      BY <1>a, <1>0, <2>1, <2>2 DEF LeaveInv, Watched
  <1>8. CASE SourceLeft
    <2>1. /\ UNCHANGED <<queue, associated, monitor, running, leasing>>
          /\ drain = "left" /\ drain' = "restore" /\ conn' = None
      BY <1>8 DEF SourceLeft
    <2>2. LeaveQueued' = LeaveQueued /\ \A i : Behind(i)' = Behind(i)
      BY <2>1 DEF LeaveQueued, Behind
    <2> QED
      BY <1>a, <1>0, <2>1, <2>2 DEF LeaveInv, Watched
  <1> QED
    BY <1>1, <1>3, <1>4, <1>5, <1>6, <1>7, <1>8 DEF DrainNext

LEMMA LeaveGroup ==
    ASSUME HTypeOK, LeaveInv, GroupNext
    PROVE  LeaveInv'
  <1> USE DEF MonitorGoto, pinVars, showVars, armVars, threadVars, signalVars, groupVars
  <1>a. UNCHANGED <<backend, conn, leasing, drain, running>>
    BY DEF GroupNext, PeerJoins, PeerLeaves, GroupRemoved, Announces, PinNeeded, StreamEnds
  <1> SUFFICES ASSUME backend = "cli", Watched, Watched' PROVE LeaveInv'
    <2>1. CASE backend # "cli" \/ ~Watched'
      <3>1. queue' = queue \/ drain # "unborn"
        BY DEF GroupNext, PeerJoins, PeerLeaves, GroupRemoved, Announces, PinNeeded,
               StreamEnds, HTypeOK
      <3> QED
        BY <1>a, <2>1, <3>1 DEF LeaveInv
    <2>2. Watched' => Watched
      BY DEF GroupNext, PeerJoins, PeerLeaves, GroupRemoved, Announces, PinNeeded,
             StreamEnds, Watched
    <2> QED
      BY <2>1, <2>2
  \* Unseen, or sent on to a drain thread that is there.
  <1>1. ASSUME NEW e \in P2pEvent, Announces(e)
        PROVE  \/ monitor = "attach" /\ queue' = queue
               \/ queue' = Append(queue, e) /\ drain # "unborn" /\ e.kind # "GroupRemoved"
    BY <1>1 DEF Announces, Watched, HTypeOK
  <1>2. ASSUME monitor = "attach", queue' = queue
        PROVE  LeaveInv'
    <2>1. drain = "unborn" /\ queue = <<>> /\ conn = None /\ leasing = None
      BY <1>2 DEF LeaveInv, HTypeOK
    <2> QED
      BY <1>a, <1>2, <2>1 DEF LeaveInv
  <1>3. ASSUME NEW p \in Peers, PeerJoins(p)
        PROVE  LeaveInv'
    <2> DEFINE e == [kind |-> "PeerConnected", mac |-> p]
    <2>1. e \in P2pEvent /\ Announces(e) /\ associated' # {} /\ e.kind = "PeerConnected"
      BY <1>3 DEF PeerJoins, P2pEvent
    <2> HIDE DEF e
    <2> SUFFICES ASSUME queue' = Append(queue, e), drain # "unborn" PROVE LeaveInv'
      BY <1>1, <1>2, <2>1
    <2>2. PICK n \in Nat : /\ DOMAIN queue = 1 .. n /\ DOMAIN queue' = 1 .. n + 1
                           /\ \A i \in 1 .. n : queue'[i] = queue[i]
                           /\ queue'[n + 1] = e
      BY <2>1, Sent
    <2>3. \A i \in DOMAIN queue' : i \in DOMAIN queue \/ i = n + 1
      BY <2>2
    <2>4. \A i \in DOMAIN queue' : queue'[i].kind # "GroupRemoved"
      BY <2>1, <2>2, <2>3 DEF LeaveInv
    <2> QED
      BY <1>a, <2>1, <2>4 DEF LeaveInv
  <1>4. ASSUME NEW p \in Peers, PeerLeaves(p)
        PROVE  LeaveInv'
    <2>1. About("PeerDisconnected") \in P2pEvent /\ About("PeerDisconnected").kind = "PeerDisconnected"
      BY DEF About, P2pEvent
    <2>2. Announces(About("PeerDisconnected"))
      BY <1>4 DEF PeerLeaves
    <2> QED
      BY <1>a, <1>1, <1>2, <2>1, <2>2, BehindSent DEF LeaveInv
  <1>5. CASE GroupRemoved
    <2>1. About("GroupRemoved") \in P2pEvent /\ About("GroupRemoved").kind = "GroupRemoved"
      BY DEF About, P2pEvent
    <2> QED
      BY <1>1, <1>2, <1>5, <2>1 DEF GroupRemoved
  <1>6. CASE PinNeeded
    <2>1. About("WpsPinNeeded") \in P2pEvent /\ About("WpsPinNeeded").kind = "WpsPinNeeded"
      BY DEF About, P2pEvent
    <2>2. queue' = Append(queue, About("WpsPinNeeded")) /\ associated' = associated /\ drain # "unborn"
      BY <1>6 DEF PinNeeded, Deliver, HTypeOK
    <2> QED
      BY <1>a, <2>1, <2>2, BehindSent DEF LeaveInv
  <1>7. CASE StreamEnds
    BY <1>7 DEF StreamEnds, Watched
  <1> QED
    BY <1>3, <1>4, <1>5, <1>6, <1>7 DEF GroupNext

LEMMA LeaveOthers ==
    ASSUME HTypeOK, LeaveInv,
           OwnerNext \/ MonitorNext \/ (\E t \in Thread : ArmNext(t)) \/ UNCHANGED hvars
    PROVE  LeaveInv'
  <1> USE DEF MonitorGoto, pinVars, showVars, armVars, threadVars, signalVars, groupVars
  <1>0. leasing # None <=> drain = "lease"
    BY DEF HTypeOK
  <1>1. CASE StartListening
    <2>1. /\ UNCHANGED <<backend, queue, associated, conn, leasing, drain>>
          /\ monitor = "unborn" /\ drain = "unborn"
      BY <1>1 DEF StartListening, HTypeOK
    <2>2. LeaveQueued' = LeaveQueued /\ \A i : Behind(i)' = Behind(i)
      BY <2>1 DEF LeaveQueued, Behind
    <2> QED
      BY <2>1, <2>2 DEF LeaveInv, Watched
  <1>2. CASE DisconnectPeer
    <2>1. /\ UNCHANGED <<backend, queue, associated, leasing, drain, monitor, running>>
          /\ conn' = None
      BY <1>2 DEF DisconnectPeer
    <2>2. LeaveQueued' = LeaveQueued /\ \A i : Behind(i)' = Behind(i)
      BY <2>1 DEF LeaveQueued, Behind
    <2> QED
      BY <2>1, <2>2 DEF LeaveInv, Watched
  <1>3. CASE MonitorAttachFails
    <2>1. ~Watched' /\ drain' # "unborn"
      BY <1>3 DEF MonitorAttachFails, Watched
    <2> QED
      BY <2>1 DEF LeaveInv
  <1>4. ASSUME UNCHANGED <<backend, queue, associated, conn, leasing>>,
               Watched' => Watched, running' => running,
               drain' = drain \/ (drain # "left" /\ drain' \notin {"done", "unborn"})
        PROVE  LeaveInv'
    BY <1>0, <1>4, LeaveKept DEF LeaveInv
  <1>5. CASE StopListening \/ RearmStores \/ RearmShows \/ UNCHANGED hvars
    BY <1>4, <1>5 DEF StopListening, RearmStores, RearmShows, Watched, hvars
  <1>6. CASE FirstPin \/ FirstPinShows \/ MonitorChecks \/ MonitorPolls \/ MonitorReturned
             \/ MonitorJoins
    BY <1>4, <1>6 DEF FirstPin, FirstPinShows, MonitorChecks, MonitorPolls, MonitorReturned,
                      MonitorJoins, Watched
  <1>7. CASE MonitorAttaches
    BY <1>4, <1>7 DEF MonitorAttaches, HTypeOK, Watched
  <1>8. ASSUME NEW t \in Thread, ArmNext(t)
        PROVE  LeaveInv'
    <2>1. /\ UNCHANGED <<backend, queue, associated, conn, leasing, running>>
          /\ t = Monitor => monitor = "arm"
          /\ t = Drain => drain \in {"arm", "armShow"}
          /\ monitor' = monitor \/ t = Monitor
          /\ drain' = drain \/ (t = Drain /\ drain' \notin {"done", "unborn"})
      BY <1>8, Numbers DEF ArmNext, ArmReads, ArmSucceeds, ArmFails, ArmReturns, HTypeOK
    <2> QED
      BY <1>4, <2>1 DEF Watched
  \* Only the D-Bus loop reads signals; its handler is not spoken of.
  <1>9. ASSUME NEW kind \in SignalKind, MonitorReads(kind)
        PROVE  LeaveInv'
    BY <1>9 DEF MonitorReads, LeaveInv
  <1> QED
    BY <1>1, <1>2, <1>3, <1>5, <1>6, <1>7, <1>8, <1>9 DEF OwnerNext, MonitorNext

\* While the wpa_cli backend watches, an active connection whose sources are all gone is
\* one the drain thread is about to forget, whatever joins and leaves are in the channel
\* and however long a lease wait holds them up: the safety half of
\* DepartedSourceForgotten.
THEOREM DepartureIsPending == HSpec => []LeaveIsPending
  <1>1. HInit => LeaveInv
    BY DEF HInit, LeaveInv
  <1>2. HTypeOK /\ LeaveInv /\ [HNext]_hvars => LeaveInv'
    BY LeaveDrain, LeaveGroup, LeaveOthers DEF HNext
  <1>3. LeaveInv => LeaveIsPending
    BY DEF LeaveInv, LeaveIsPending
  <1> QED
    BY <1>1, <1>2, <1>3, HandlerTypeCorrect, PTL DEF HSpec

===============================================================================
