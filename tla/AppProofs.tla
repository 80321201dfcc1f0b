------------------------------- MODULE AppProofs -------------------------------
(***************************************************************************)
(* What holds of the GUI process for any ladder, any number of groups,     *)
(* joins and interface switches.                                           *)
(*                                                                         *)
(* Where the group is concerned, a step is one of few kinds (GroupKinds):  *)
(* most leave it alone (Aside); the others stop advertising, begin, work   *)
(* on or end a bring-up, or are the environment's.  LoopInv relates the    *)
(* main loop to the bring-up and the advertiser; the invariants after it   *)
(* are one for each property.                                              *)
(***************************************************************************)
EXTENDS App, SequenceTheorems, QueueCounts, TLAPS

Busy == {"starting", "rotating"}

\* The loop is in a bring-up or not, and while it is, nothing is advertised; a group
\* that came up is not one that has yet to appear.
LoopInv ==
    /\ bring # "off" <=> loop \in Busy
    /\ bring # "off" => ~advertising
    /\ advertising <=> group # NoGroup
    /\ bring = "verify" => backend = "cli"
    /\ bring \in {"verify", "up"} =>
          cand # NoGroup /\ cand \in 0 .. adds /\ cand \notin pending
    /\ groups \subseteq 0 .. adds /\ groups \cap pending = {}
    /\ group # NoGroup => group \notin pending

Base == ATypeOK /\ LoopInv

\* The advertiser stops.
Stops ==
    /\ bring = "off"
    /\ advertising' = FALSE /\ group' = NoGroup
    /\ Removed(group) \/ (~advertising /\ UNCHANGED <<groups, mishaps>>)
    /\ UNCHANGED <<fixedVars, rung, pre, cand, band, pending, adds, won, led>>

\* A bring-up begins, perhaps with the next channel.
Begins ==
    /\ Stops /\ bring' = "config"
    /\ loop \in {"idle", "watchdog"} /\ loop' \in Busy
    /\ offset' = offset \/ (loop' = "rotating" /\ offset' = offset + 1)

\* The program ends.
Ends == Stops /\ bring' = bring /\ loop = "idle" /\ loop' = "ended" /\ offset' = offset

\* A step that leaves the group alone.
Aside ==
    /\ UNCHANGED <<fixedVars, callVars, envVars, won, mishaps, led, advVars>>
    /\ loop' = loop \/ {loop, loop'} \subseteq {"idle", "drain", "watchdog"}
    /\ offset' = offset \/ WatchdogPrompts

\* The kinds of steps, as far as the group is concerned.
LEMMA GroupKinds ==
    ASSUME Base, [ANext]_avars
    PROVE  \/ Aside \/ Begins \/ Ends \/ AdvertiserReturns
           \/ BringUpStep /\ loop \in Busy /\ UNCHANGED appVars
           \/ (\E g \in pending : GroupAppears(g)) /\ UNCHANGED appVars
  <1>. USE DEF ladderVars, Base, LoopInv
  <1>1. CASE UNCHANGED avars
    BY <1>1 DEF avars, appVars, Aside
  <1>2. CASE FirstStart
    <2>1. CASE advertising
      BY <1>2, <2>1 DEF FirstStart, StartAdvertising, Aside, callVars
    <2>2. CASE ~advertising
      BY <1>2, <2>2 DEF FirstStart, StartAdvertising, Begins, Stops, Busy, advVars, envVars
    <2>. QED
      BY <2>1, <2>2
  <1>3. CASE HandleEvent
    BY <1>3 DEF HandleEvent, HandleAdvertisingStarted, HandleConnectionReceived, HandleConnectionError,
                HandleStreamStopped, HandleStreamError, Takes, Aside
  <1>4. CASE DrainEnds \/ WatchdogPasses
    BY <1>4 DEF DrainEnds, WatchdogPasses, Aside
  <1>5. CASE WatchdogRotates
    BY <1>5 DEF WatchdogRotates, StopAdvertising, Begins, Stops, Busy
  <1>6. CASE WatchdogPrompts
    BY <1>6 DEF WatchdogPrompts, RotateDiscoveryChannel, Aside
  <1>7. CASE Threads
    BY <1>7 DEF Threads, SourceJoins, SourceUnseen, HandlerEnds, LeaseEnds, SessionStops, SessionFails, ArmFails, Aside
  <1>8. CASE SwitchInterface
    BY <1>8 DEF SwitchInterface, StopAdvertising, Begins, Stops, Busy
  <1>9. CASE RefreshPin
    BY <1>9 DEF RefreshPin, Aside
  <1>10. CASE Shutdown
    BY <1>10 DEF Shutdown, StopAdvertising, Ends, Stops, Busy, callVars
  <1>. QED
    BY <1>1, <1>2, <1>3, <1>4, <1>5, <1>6, <1>7, <1>8, <1>9, <1>10
       DEF ANext, MainLoop, User, BringUp, Appears, Busy

-------------------------------------------------------------------------------
\* No group is none.
LEMMA NoGroupIsNone ==
    /\ NoGroup \notin Group /\ MaxAdds \in Nat \ {0}
    /\ \A n \in 0 .. MaxAdds : n < MaxAdds => n + 1 \in 0 .. MaxAdds /\ n + 1 \in Group
  BY LadderAssumption DEF NoGroup, Group

\* A ladder is a sequence of rungs with at least one.
LEMMA LadderIsSeq ==
    ASSUME ladder \in {Detect(TRUE), Detect(FALSE)}
    PROVE  ladder \in Seq(Rung) /\ Len(ladder) \in Nat \ {0}
  <1>1. Socials \in Seq(Rung)
    <2>1. Socials \in [1 .. Len(Socials) -> Rung] /\ Len(Socials) \in Nat
      BY LadderAssumption, LenProperties DEF Rung
    <2>. QED
      BY <2>1, SeqDef
  <1>2. <<Five>> \in Seq(Rung) /\ <<Driver>> \in Seq(Rung) /\ <<>> \in Seq(Rung)
    BY DEF Rung
  <1>3. Socials \o <<Driver>> \in Seq(Rung) /\ Len(Socials \o <<Driver>>) = Len(Socials) + 1
    BY <1>1, <1>2, ConcatProperties
  <1>. DEFINE L == Socials \o <<Driver>>
  <1>4. <<Five>> \o L \in Seq(Rung) /\ Len(<<Five>> \o L) = 1 + Len(L)
    BY <1>2, <1>3, ConcatProperties
  <1>5. ladder \in {<<Five>> \o L, L}
    <2>1. <<>> \o Socials = Socials
      BY <1>1, ConcatEmptySeq
    <2>2. (<<Five>> \o Socials) \o <<Driver>> = <<Five>> \o L
      BY <1>1, <1>2, ConcatAssociative
    <2>. QED
      BY <2>1, <2>2 DEF Detect
  <1>6. Len(Socials) \in Nat
    BY <1>1, LenProperties
  <1>. HIDE DEF L
  <1>7. L \in Seq(Rung) /\ Len(L) = Len(Socials) + 1
    BY <1>3 DEF L
  <1>8. CASE ladder = L
    BY <1>6, <1>7, <1>8
  <1>9. CASE ladder = <<Five>> \o L
    BY <1>4, <1>6, <1>7, <1>9
  <1>. QED
    BY <1>5, <1>8, <1>9

\* The rotated ladder has the same length, and begins at the offset.
LEMMA RotatedIsSeq ==
    ASSUME ladder \in {Detect(TRUE), Detect(FALSE)}, offset \in Nat
    PROVE  /\ Rotated \in Seq(Rung) /\ Len(Rotated) = Len(ladder)
           /\ Rotated[1] = ladder[(offset % Len(ladder)) + 1]
  <1>. DEFINE n == Len(ladder)
              off == offset % n
  <1>1. ladder \in Seq(Rung) /\ n \in Nat \ {0}
    BY LadderIsSeq
  <1>2. off \in 0 .. n - 1
    BY <1>1
  <1>3. \A i \in 1 .. n : ladder[i] \in Rung
    BY <1>1
  <1>. HIDE DEF n, off
  <1>4. /\ SubSeq(ladder, off + 1, n) \in Seq(Rung)
        /\ Len(SubSeq(ladder, off + 1, n)) = n - off
        /\ SubSeq(ladder, off + 1, n)[1] = ladder[off + 1]
    <2>1. \A i \in off + 1 .. n : ladder[i] \in Rung
      BY <1>1, <1>2, <1>3
    <2>2. /\ SubSeq(ladder, off + 1, n) \in Seq(Rung)
          /\ Len(SubSeq(ladder, off + 1, n)) = IF off + 1 <= n THEN n - (off + 1) + 1 ELSE 0
          /\ \A i \in 1 .. n - (off + 1) + 1 : SubSeq(ladder, off + 1, n)[i] = ladder[off + 1 + i - 1]
      BY <1>1, <1>2, <2>1, SubSeqProperties
    <2>. QED
      BY <1>1, <1>2, <2>2
  <1>5. /\ SubSeq(ladder, 1, off) \in Seq(Rung)
        /\ Len(SubSeq(ladder, 1, off)) = off
    <2>1. \A i \in 1 .. off : ladder[i] \in Rung
      BY <1>1, <1>2, <1>3
    <2>2. /\ SubSeq(ladder, 1, off) \in Seq(Rung)
          /\ Len(SubSeq(ladder, 1, off)) = IF 1 <= off THEN off - 1 + 1 ELSE 0
      BY <1>1, <1>2, <2>1, SubSeqProperties
    <2>. QED
      BY <1>1, <1>2, <2>2
  <1>6. Rotated = SubSeq(ladder, off + 1, n) \o SubSeq(ladder, 1, off)
    BY DEF Rotated, off, n
  <1>. DEFINE s == SubSeq(ladder, off + 1, n)
              t == SubSeq(ladder, 1, off)
  <1>. HIDE DEF s, t
  <1>7. /\ s \o t \in Seq(Rung) /\ Len(s \o t) = Len(s) + Len(t)
        /\ \A i \in 1 .. Len(s) + Len(t) : (s \o t)[i] = IF i <= Len(s) THEN s[i] ELSE t[i - Len(s)]
    BY <1>4, <1>5, ConcatProperties DEF s, t
  <1>8. Len(s) = n - off /\ Len(t) = off /\ s[1] = ladder[off + 1]
    BY <1>4, <1>5 DEF s, t
  <1>9. Len(s \o t) = n /\ (s \o t)[1] = ladder[off + 1]
    BY <1>1, <1>2, <1>7, <1>8
  <1>. QED
    BY <1>6, <1>7, <1>9 DEF s, t, n, off

-------------------------------------------------------------------------------
\* A step of the bring-up keeps the types.
LEMMA BringUpTypes ==
    ASSUME GTypeOK, bring \in {"verify", "up"} => cand \in Group, BringUpStep
    PROVE  GTypeOK'
  <1>. USE NoGroupIsNone DEF GTypeOK, BringStage, Mishap, fixedVars, callVars, envVars
  <1>1. /\ ladder \in Seq(Rung) /\ Len(ladder) \in Nat \ {0} /\ 1 \in 1 .. Len(ladder)
        /\ rung < Len(ladder) => rung + 1 \in 1 .. Len(ladder)
    <2>1. ladder \in Seq(Rung) /\ Len(ladder) \in Nat \ {0}
      BY LadderIsSeq
    <2>2. rung \in 1 .. Len(ladder)
      OBVIOUS
    <2>. HIDE DEF GTypeOK
    <2>. QED
      BY <2>1, <2>2
  <1>2. Here \in Rung
    <2>1. Rotated \in Seq(Rung) /\ Len(Rotated) = Len(ladder) /\ rung \in 1 .. Len(ladder)
      BY RotatedIsSeq
    <2>. HIDE DEF GTypeOK
    <2>. QED
      BY <2>1, ElementOfSeq DEF Here
  <1>3. Leads => led' \subseteq Rung
    BY <1>2 DEF Leads
  <1>4. \A r : BandOf(r) \in Bands
    BY DEF BandOf, Bands
  <1>5. CASE ConfigFails \/ ConfigDone \/ StaleRemoved
    BY <1>1, <1>5 DEF ConfigFails, ConfigDone, StaleRemoved
  <1>6. CASE AddAccepted
    <2>1. adds + 1 \in 0 .. MaxAdds /\ pending' \subseteq 1 .. adds'
      BY <1>6 DEF AddAccepted
    <2>2. pre' \subseteq Group
      BY <1>6 DEF AddAccepted
    <2>. QED
      BY <1>1, <1>3, <1>6, <2>1, <2>2 DEF AddAccepted
  <1>7. CASE AddRejected
    BY <1>1, <1>3, <1>7 DEF AddRejected, NextRung, Fails
  <1>8. CASE AddAborts
    <2>1. /\ adds' \in 0 .. MaxAdds /\ pending' \subseteq 1 .. adds'
          /\ mishaps' \subseteq Mishap
      <3>1. CASE UNCHANGED <<adds, pending>> /\ mishaps' = mishaps \cup {"aborted"}
        BY <3>1
      <3>2. CASE adds < MaxAdds /\ adds' = adds + 1 /\ pending' = pending \cup {adds + 1}
                 /\ mishaps' = mishaps \cup {"aborted", "left"}
        <4>1. adds + 1 \in 0 .. MaxAdds
          BY <3>2
        <4>. QED
          BY <3>2, <4>1
      <3>. QED
        BY <1>8, <3>1, <3>2 DEF AddAborts
    <2>. QED
      BY <1>3, <1>8, <2>1 DEF AddAborts
  <1>9. CASE SeesNewGroup \/ SeesAnyGroup
    BY <1>9 DEF SeesNewGroup, SeesAnyGroup
  <1>10. CASE WaitTimesOut
    BY <1>1, <1>10 DEF WaitTimesOut, NextRung, Fails
  <1>11. CASE Verified \/ AcceptedUnread
    BY <1>4, <1>11 DEF Verified, AcceptedUnread
  <1>12. CASE WrongBand
    BY <1>1, <1>12 DEF WrongBand, NextRung, Removed
  <1>. QED
    BY <1>5, <1>6, <1>7, <1>8, <1>9, <1>10, <1>11, <1>12 DEF BringUpStep

\* So does every step; the ladder's types and the advertiser's.
LEMMA GroupTypes ==
    ASSUME Base, [ANext]_avars
    PROVE  GTypeOK' /\ advertising' \in BOOLEAN /\ group' \in Group \cup {NoGroup}
  <1>. USE NoGroupIsNone DEF Base, ATypeOK, LoopInv
  <1>0. GTypeOK /\ advertising \in BOOLEAN /\ group \in Group \cup {NoGroup}
    OBVIOUS
  <1>1. CASE Aside
    <2>1. offset' \in Nat
      BY <1>0, <1>1 DEF Aside, WatchdogPrompts, RotateDiscoveryChannel, GTypeOK
    <2>. QED
      BY <1>0, <1>1, <2>1 DEF Aside, GTypeOK, fixedVars, callVars, envVars, advVars
  <1>2. CASE Stops /\ bring' \in {"off", "config"} /\ offset' \in {offset, offset + 1}
    <2>1. /\ groups' \subseteq Group /\ mishaps' \subseteq Mishap
      BY <1>0, <1>2 DEF Stops, Removed, GTypeOK, Mishap
    <2>2. offset' \in Nat /\ bring' \in BringStage
      BY <1>0, <1>2 DEF GTypeOK, BringStage
    <2>3. advertising' = FALSE /\ group' = NoGroup
          /\ UNCHANGED <<backend, ladder, rung, pre, cand, band, pending, adds, won, led>>
      BY <1>2 DEF Stops, fixedVars
    <2>. QED
      BY <1>0, <2>1, <2>2, <2>3 DEF GTypeOK
  <1>3. CASE AdvertiserReturns
    <2>1. 1 \in 1 .. Len(ladder)
      BY <1>0, LadderIsSeq DEF GTypeOK
    <2>. QED
      BY <1>0, <1>3, <2>1 DEF AdvertiserReturns, GTypeOK, fixedVars, envVars, advVars, BringStage
  <1>4. CASE BringUpStep /\ UNCHANGED appVars
    <2>1. bring \in {"verify", "up"} => cand \in Group
      BY <1>0 DEF GTypeOK
    <2>. QED
      BY <1>0, <1>4, <2>1, BringUpTypes DEF appVars, advVars
  <1>5. CASE (\E g \in pending : GroupAppears(g)) /\ UNCHANGED appVars
    <2>1. \A g \in pending : g \in Group
      BY <1>0 DEF GTypeOK, Group
    <2>2. PICK g \in pending : GroupAppears(g)
      BY <1>5
    <2>3. band' \in [Group -> Bands]
      BY <1>0, <2>2 DEF GroupAppears, GTypeOK
    <2>4. groups' \subseteq Group /\ pending' \subseteq 1 .. adds
      BY <1>0, <2>1, <2>2 DEF GroupAppears, GTypeOK
    <2>5. UNCHANGED <<backend, ladder, offset, won, bring, rung, pre, cand, adds, mishaps, led,
                      advertising, group>>
      BY <1>5, <2>2 DEF GroupAppears, fixedVars, callVars, appVars, advVars
    <2>. QED
      BY <1>0, <2>3, <2>4, <2>5 DEF GTypeOK
  <1>. QED
    <2>1. Begins \/ Ends => Stops /\ bring' \in {"off", "config"} /\ offset' \in {offset, offset + 1}
      BY DEF Begins, Ends, Stops
    <2>. HIDE DEF Base, ATypeOK, LoopInv
    <2>. QED
      BY <1>1, <1>2, <1>3, <1>4, <1>5, <2>1, GroupKinds

\* An event, or a queue of them, of the application.
LEMMA Events ==
    /\ \A g \in Group : Event("AdvertisingStarted", g) \in AppEvent
    /\ \A g \in Group : Event("ConnectionReceived", g) \in AppEvent
    /\ Event("ConnectionError", NoGroup) \in AppEvent
    /\ Event("StreamStopped", NoGroup) \in AppEvent
    /\ Event("StreamError", NoGroup) \in AppEvent
    /\ \A e \in AppEvent : e.type \in {"AdvertisingStarted", "ConnectionReceived"} => e.group \in Group
    /\ \A s \in Seq(AppEvent) : s # <<>> => Head(s) \in AppEvent /\ Tail(s) \in Seq(AppEvent)
    /\ \A s \in Seq(AppEvent), e \in AppEvent : Append(s, e) \in Seq(AppEvent)
  <1>1. \A s \in Seq(AppEvent) : s # <<>> => Head(s) \in AppEvent /\ Tail(s) \in Seq(AppEvent)
    BY HeadTailProperties
  <1>2. \A s \in Seq(AppEvent), e \in AppEvent : Append(s, e) \in Seq(AppEvent)
    BY AppendProperties
  <1>. QED
    BY <1>1, <1>2 DEF Event, AppEvent

\* The rest of the state keeps its types as well.
LEMMA AppTypes ==
    ASSUME Base, [ANext]_avars
    PROVE  ATypeOK'
  <1>. DEFINE Rest ==
         /\ loop \in LoopStage /\ deferred \in BOOLEAN
         /\ handler \in Group \cup {NoGroup} /\ since \in BOOLEAN /\ connected \in BOOLEAN
         /\ switches \in 0 .. MaxSwitches
         /\ running \in BOOLEAN /\ thread \in Group \cup {NoGroup}
         /\ known \in BOOLEAN /\ owed \in Nat
         /\ listening \subseteq Group /\ joining \subseteq Group /\ joins \in 0 .. MaxJoins
         /\ pin \in PinState /\ prompted \in BOOLEAN
  <1>. USE NoGroupIsNone
       DEF LoopStage, PinState, advVars, watchVars, rxVars, handlerVars, peerVars, userVars
  <1>0. GTypeOK' /\ advertising' \in BOOLEAN /\ group' \in Group \cup {NoGroup}
    BY GroupTypes
  <1>00. Rest /\ events \in Seq(AppEvent)
    BY DEF Base, ATypeOK
  <1>000. (bring = "up" => cand \in Group) /\ (thread # NoGroup => thread \in Group)
    BY DEF Base, ATypeOK, LoopInv, GTypeOK
  <1>1. events' \in Seq(AppEvent)
    <2>1. CASE UNCHANGED events
      BY <1>00, <2>1
    <2>2. CASE events # <<>> /\ events' = Tail(events)
      BY <1>00, <2>2, Events
    <2>3. ASSUME NEW s \in {events} \cup (IF events = <<>> THEN {} ELSE {Tail(events)}), StopReceiving(s)
          PROVE  events' \in Seq(AppEvent)
      <3>1. s \in Seq(AppEvent)
        BY <1>00, <2>3, Events
      <3>. QED
        BY <2>3, <3>1, Events DEF StopReceiving
    <2>4. CASE AdvertiserReturns
      BY <1>00, <1>000, <2>4, Events DEF AdvertiserReturns, Send
    <2>5. CASE Threads
      <3>1. \A g \in joining : g \in Group
        BY <1>00
      <3>. QED
        BY <1>00, <2>5, <3>1, Events
           DEF Threads, SourceJoins, SourceUnseen, HandlerEnds, LeaseEnds, SessionStops, SessionFails, ArmFails, Send
    <2>6. CASE HandleEvent
      BY <2>2, <2>3, <2>6
         DEF HandleEvent, HandleAdvertisingStarted, HandleConnectionReceived, HandleConnectionError,
             HandleStreamStopped, HandleStreamError, Takes
    <2>7. CASE Shutdown
      BY <2>1, <2>3, <2>7 DEF Shutdown
    <2>. QED
      BY <2>1, <2>4, <2>5, <2>6, <2>7
         DEF ANext, MainLoop, User, BringUp, Appears, FirstStart, DrainEnds, WatchdogPasses,
             WatchdogRotates, WatchdogPrompts, SwitchInterface, RefreshPin, avars, appVars
  <1>2. Rest'
    <2>0. ASSUME NEW type, Takes(type)
          PROVE  /\ loop' = "drain" /\ UNCHANGED <<peerVars, userVars>>
                 /\ Head(events) \in AppEvent /\ Head(events).type = type
      BY <1>00, <2>0, Events DEF Takes
    <2>00. \A s : StopReceiving(s) => running' = FALSE /\ thread' = NoGroup
      BY DEF StopReceiving
    <2>000. owed + 1 \in Nat /\ Recorded \in Nat
      BY <1>00 DEF Recorded
    <2>1. CASE HandleAdvertisingStarted
      <3>1. Head(events).group \in Group
        BY <2>0, <2>1, Events DEF HandleAdvertisingStarted
      <3>. QED
        BY <1>00, <2>0, <2>1, <3>1 DEF HandleAdvertisingStarted
    <2>2. CASE HandleConnectionReceived
      <3>1. Head(events).group \in Group
        BY <2>0, <2>2, Events DEF HandleConnectionReceived
      <3>2. UNCHANGED <<handlerVars, deferred, switches, prompted, joining, joins>>
            /\ loop' = "drain" /\ since' = FALSE /\ connected' = TRUE
        BY <2>0, <2>2 DEF HandleConnectionReceived
      <3>3. CASE UNCHANGED rxVars
        BY <1>00, <3>2, <3>3
      <3>4. CASE running' = TRUE /\ thread' = Head(events).group /\ known' = TRUE /\ owed' = owed + 1
        BY <1>00, <2>000, <3>1, <3>2, <3>4
      <3>. HIDE DEF Rest
      <3>. QED
        BY <2>2, <3>3, <3>4 DEF HandleConnectionReceived
    <2>3. CASE HandleConnectionError
      BY <1>00, <2>0, <2>3 DEF HandleConnectionError, Rearmed
    <2>4. CASE HandleStreamStopped
      <3>1. owed' \in Nat
        BY <1>00, <2>000, <2>4 DEF HandleStreamStopped
      <3>. QED
        BY <1>00, <2>0, <2>4, <3>1 DEF HandleStreamStopped, Rearmed
    <2>5. CASE HandleStreamError
      <3>1. owed' \in Nat /\ running' \in BOOLEAN /\ thread' \in Group \cup {NoGroup}
        BY <1>00, <2>00, <2>000, <2>5 DEF HandleStreamError
      <3>. QED
        BY <1>00, <2>0, <2>5, <3>1 DEF HandleStreamError, Rearmed
    <2>6. CASE FirstStart
      BY <1>00, <2>6 DEF FirstStart, StartAdvertising
    <2>7. CASE AdvertiserReturns
      BY <1>00, <2>7 DEF AdvertiserReturns
    <2>8. CASE DrainEnds \/ WatchdogPasses \/ WatchdogRotates \/ WatchdogPrompts \/ RefreshPin
      BY <1>00, <2>8 DEF DrainEnds, WatchdogPasses, WatchdogRotates, WatchdogPrompts, RefreshPin
    <2>9. ASSUME NEW g \in listening, SourceJoins(g)
          PROVE  Rest'
      <3>1. joins' \in 0 .. MaxJoins /\ joining' \subseteq Group
        BY <1>00, <2>9, AppAssumption DEF SourceJoins
      <3>. QED
        BY <1>00, <2>9, <3>1 DEF SourceJoins
    <2>10. ASSUME NEW g \in joining, LeaseEnds(g)
           PROVE  Rest'
      BY <1>00, <2>10 DEF LeaseEnds
    <2>11. CASE SessionStops \/ SessionFails \/ ArmFails
      BY <1>00, <2>11 DEF SessionStops, SessionFails, ArmFails
    <2>11a. CASE SourceUnseen
      BY <1>00, <2>11a, AppAssumption DEF SourceUnseen
    <2>11b. ASSUME NEW g \in listening, HandlerEnds(g)
            PROVE  Rest'
      BY <1>00, <2>11b DEF HandlerEnds
    <2>12. CASE SwitchInterface
      <3>1. switches' \in 0 .. MaxSwitches
        BY <1>00, <2>12, AppAssumption DEF SwitchInterface
      <3>. QED
        BY <1>00, <2>12, <3>1 DEF SwitchInterface
    <2>13. CASE Shutdown
      <3>1. owed' \in Nat /\ running' \in BOOLEAN /\ thread' \in Group \cup {NoGroup}
        BY <1>00, <2>00, <2>000, <2>13 DEF Shutdown
      <3>. QED
        BY <1>00, <2>13, <3>1 DEF Shutdown
    <2>14. CASE UNCHANGED appVars \/ UNCHANGED avars
      BY <1>00, <2>14 DEF appVars, avars
    <2>. HIDE DEF Rest
    <2>. QED
      BY <2>1, <2>2, <2>3, <2>4, <2>5, <2>6, <2>7, <2>8, <2>9, <2>10, <2>11, <2>11a, <2>11b, <2>12,
         <2>13, <2>14
         DEF ANext, MainLoop, User, Threads, BringUp, Appears, HandleEvent
  <1>. QED
    BY <1>0, <1>1, <1>2 DEF ATypeOK

\* Every step keeps LoopInv.
LEMMA LoopStep ==
    ASSUME Base, [ANext]_avars
    PROVE  LoopInv'
  <1>. USE DEF Base, LoopInv, Busy
  <1>0. /\ bring \in BringStage /\ adds \in 0 .. MaxAdds /\ group \in Group \cup {NoGroup}
        /\ pending \subseteq 1 .. adds /\ pre \subseteq Group /\ groups \subseteq Group
    BY DEF ATypeOK, GTypeOK
  <1>00. NoGroup \notin groups
    BY <1>0, NoGroupIsNone
  <1>1. CASE Aside
    BY <1>1 DEF Aside, fixedVars, callVars, envVars, advVars
  <1>2. CASE Begins
    <2>1. UNCHANGED <<backend, pending, adds, cand>> /\ groups' \subseteq groups
      BY <1>2 DEF Begins, Stops, Removed, fixedVars
    <2>. QED
      BY <1>2, <2>1 DEF Begins, Stops
  <1>3. CASE Ends
    <2>1. UNCHANGED <<backend, pending, adds, cand>> /\ groups' \subseteq groups
      BY <1>3 DEF Ends, Stops, Removed, fixedVars
    <2>. QED
      BY <1>3, <2>1 DEF Ends, Stops
  <1>4. CASE AdvertiserReturns
    BY <1>4 DEF AdvertiserReturns, envVars, fixedVars, advVars
  <1>5. CASE (\E g \in pending : GroupAppears(g)) /\ UNCHANGED appVars
    <2>1. PICK g \in pending : GroupAppears(g)
      BY <1>5
    <2>2. g \in 0 .. adds
      BY <1>0
    <2>. QED
      BY <1>5, <2>1, <2>2 DEF GroupAppears, fixedVars, callVars, appVars, advVars
  <1>6. CASE BringUpStep /\ loop \in Busy /\ UNCHANGED appVars
    <2>. USE DEF fixedVars, envVars, callVars, appVars, advVars
    <2>0. UNCHANGED <<loop, advertising, group>> /\ ~advertising /\ group = NoGroup
      BY <1>6
    <2>1. CASE ConfigFails
      BY <2>0, <2>1 DEF ConfigFails
    <2>9. CASE ConfigDone
      BY <2>0, <2>9 DEF ConfigDone
    <2>8. CASE StaleRemoved
      BY <2>0, <2>8 DEF StaleRemoved
    <2>2. CASE AddAccepted
      <3>1. adds + 1 \notin groups /\ groups \subseteq 0 .. adds + 1
        BY <1>0
      <3>. QED
        BY <1>0, <2>0, <2>2, <3>1 DEF AddAccepted
    <2>3. CASE AddRejected
      BY <2>0, <2>3 DEF AddRejected, NextRung
    <2>3a. CASE AddAborts
      <3>1. adds + 1 \notin groups /\ groups \subseteq 0 .. adds + 1
        BY <1>0
      <3>. QED
        BY <1>0, <2>0, <2>3a, <3>1 DEF AddAborts
    <2>4. CASE SeesNewGroup \/ SeesAnyGroup
      BY <1>00, <2>0, <2>4 DEF SeesNewGroup, SeesAnyGroup
    <2>5. CASE WaitTimesOut
      BY <2>0, <2>5 DEF WaitTimesOut, NextRung, Fails
    <2>6. CASE Verified \/ AcceptedUnread
      BY <2>0, <2>6 DEF Verified, AcceptedUnread
    <2>7. CASE WrongBand
      BY <2>0, <2>7 DEF WrongBand, NextRung, Removed
    <2>. QED
      BY <1>6, <2>1, <2>2, <2>3, <2>3a, <2>4, <2>5, <2>6, <2>7, <2>8, <2>9 DEF BringUpStep
  <1>. QED
    BY <1>1, <1>2, <1>3, <1>4, <1>5, <1>6, GroupKinds

\* The application starts in Base, and every step keeps it.
LEMMA BaseInit == AInit => Base
  <1>. SUFFICES ASSUME AInit
                PROVE  Base
    OBVIOUS
  <1>1. GInit
    BY DEF AInit
  <1>2. ladder \in {Detect(TRUE), Detect(FALSE)}
    BY <1>1 DEF GInit
  <1>3. 1 \in 1 .. Len(ladder)
    <2>1. Len(ladder) \in Nat \ {0}
      BY <1>2, LadderIsSeq
    <2>. QED
      BY <2>1
  <1>4. GTypeOK
    <2>1. won \in Bands
      BY <1>1 DEF GInit, BandOf, Bands
    <2>2. band \in [Group -> Bands]
      BY <1>1 DEF GInit, Bands
    <2>3. groups \subseteq Group
      BY <1>1, NoGroupIsNone DEF GInit, Group
    <2>4. offset \in Nat /\ adds \in 0 .. MaxAdds /\ pending \subseteq 1 .. adds
      BY <1>1, NoGroupIsNone DEF GInit
    <2>5. /\ backend \in {"cli", "dbus"} /\ bring = "off" /\ rung = 1 /\ pre = {} /\ cand = NoGroup
          /\ mishaps = {} /\ led = {}
      BY <1>1 DEF GInit
    <2>. QED
      BY <1>2, <1>3, <2>1, <2>2, <2>3, <2>4, <2>5 DEF GTypeOK, BringStage
  <1>5. ATypeOK
    <2>1. 0 \in 0 .. MaxSwitches /\ 0 \in 0 .. MaxJoins /\ <<>> \in Seq(AppEvent)
      BY AppAssumption
    <2>2. /\ events \in Seq(AppEvent) /\ switches \in 0 .. MaxSwitches /\ joins \in 0 .. MaxJoins
          /\ owed \in Nat
      BY <2>1 DEF AInit
    <2>3. /\ loop = "idle" /\ deferred = TRUE /\ advertising = FALSE /\ group = NoGroup
          /\ handler = NoGroup /\ listening = {} /\ pin = "spent" /\ since = FALSE
          /\ connected = FALSE /\ running = FALSE /\ thread = NoGroup /\ known = FALSE
          /\ joining = {} /\ prompted = FALSE
      BY DEF AInit
    <2>. QED
      BY <1>4, <2>2, <2>3 DEF ATypeOK, LoopStage, PinState
  <1>6. LoopInv
    BY DEF AInit, GInit, LoopInv, Busy
  <1>. QED
    BY <1>5, <1>6 DEF Base

\* Every step keeps Base.
LEMMA BaseStep == Base /\ [ANext]_avars => Base'
  BY AppTypes, LoopStep DEF Base

\* The application is always in Base.
LEMMA BaseAlways == ASpec => []Base
  BY BaseInit, BaseStep, PTL DEF ASpec

\* The application keeps its types: no rung is past the end of the ladder, and no
\* group that the advertiser, a handler or an event names was never added (GoLadder
\* and ui/app.rs).
THEOREM AppTypeCorrect == ASpec => []ATypeOK
  <1>1. Base => ATypeOK
    BY DEF Base
  <1>. QED
    BY <1>1, BaseAlways, PTL

-------------------------------------------------------------------------------
\* The winner's resolution is that of the band it operates on.
FitInv ==
    backend = "cli" /\ "unread" \notin mishaps =>
        /\ bring = "up" => won = band[cand]
        /\ advertising => won = band[group]

\* Every step keeps FitInv.
LEMMA FitStep ==
    ASSUME Base, FitInv, [ANext]_avars
    PROVE  FitInv'
  <1>. USE DEF FitInv, fixedVars, envVars, callVars, advVars
  <1>0. /\ LoopInv /\ band \in [Group -> Bands]
    BY DEF Base, ATypeOK, GTypeOK
  <1>1. CASE Aside
    BY <1>1 DEF Aside
  <1>2. CASE Begins \/ Ends
    BY <1>2 DEF Begins, Ends, Stops
  <1>3. CASE AdvertiserReturns
    BY <1>0, <1>3 DEF AdvertiserReturns, LoopInv
  <1>4. CASE (\E g \in pending : GroupAppears(g)) /\ UNCHANGED appVars
    <2>1. PICK g \in pending : GroupAppears(g)
      BY <1>4
    <2>2. \A h : h # g => band'[h] = band[h]
      BY <1>0, <2>1 DEF GroupAppears
    <2>3. (bring = "up" => cand # g) /\ (advertising => group # g)
      BY <1>0 DEF LoopInv
    <2>. QED
      BY <1>4, <2>1, <2>2, <2>3 DEF GroupAppears, appVars
  <1>5. CASE BringUpStep /\ UNCHANGED appVars
    <2>0. bring # "off" => ~advertising'
      BY <1>0, <1>5 DEF LoopInv, appVars
    <2>1. CASE ConfigFails \/ ConfigDone \/ StaleRemoved
      BY <2>0, <2>1 DEF ConfigFails, ConfigDone, StaleRemoved
    <2>2. CASE AddAccepted \/ AddRejected \/ AddAborts \/ WaitTimesOut \/ WrongBand
      BY <2>0, <2>2 DEF AddAccepted, AddRejected, AddAborts, WaitTimesOut, WrongBand, NextRung, Fails
    <2>3. CASE SeesNewGroup
      BY <2>0, <2>3 DEF SeesNewGroup
    <2>4. CASE SeesAnyGroup
      BY <2>0, <2>4 DEF SeesAnyGroup
    <2>5. CASE Verified \/ AcceptedUnread
      BY <2>0, <2>5 DEF Verified, AcceptedUnread
    <2>. QED
      BY <1>5, <2>1, <2>2, <2>3, <2>4, <2>5 DEF BringUpStep
  <1>. QED
    BY <1>1, <1>2, <1>3, <1>4, <1>5, GroupKinds

\* The advertised resolution follows the band the group came up on, as long as its
\* frequency could be read, also after rungs that were rejected and after rotations
\* (start_group_owner of cli.rs).
THEOREM ResolutionAlwaysFits == ASpec => []ResolutionFits
  <1>1. AInit => FitInv
    BY DEF AInit, GInit, FitInv
  <1>2. Base /\ FitInv /\ [ANext]_avars => FitInv'
    BY FitStep
  <1>3. FitInv => ResolutionFits
    BY DEF FitInv, ResolutionFits
  <1>. QED
    BY <1>1, <1>2, <1>3, BaseAlways, PTL DEF ASpec

-------------------------------------------------------------------------------
\* As long as no group is given up, the one added last is the only one there is, if
\* any; group 0 is an earlier run's.
OnlyInv ==
    "left" \notin mishaps =>
        /\ bring # "wait" => pending = {}
        /\ pending \subseteq {adds}
        /\ groups \ {0} \subseteq {adds}
        /\ bring \in {"config", "add", "failed"} => groups \ {0} = {}
        /\ bring = "off" => groups \ {0} \subseteq {group}
        /\ bring = "wait" =>
              /\ adds # 0 /\ groups \ pre \subseteq {adds} /\ pre \subseteq {0}
              /\ backend = "dbus" => 0 \notin groups
        /\ backend = "dbus" /\ bring = "add" => groups = {}
        /\ bring \in {"verify", "up"} => cand = adds
        /\ advertising => group = adds

\* Every step keeps OnlyInv.
LEMMA OnlyStep ==
    ASSUME Base, OnlyInv, [ANext]_avars
    PROVE  OnlyInv'
  <1>. USE DEF OnlyInv, fixedVars, envVars, callVars, advVars
  <1>0. /\ LoopInv /\ adds \in Nat /\ adds + 1 # 0 /\ groups \subseteq Group
        /\ group \in Group \cup {NoGroup} /\ pending \subseteq 1 .. adds
    BY NoGroupIsNone DEF Base, ATypeOK, GTypeOK
  <1>1. CASE Aside
    BY <1>1 DEF Aside
  <1>2. CASE Begins \/ Ends
    <2>1. Stops /\ bring' \in {"off", "config"}
      BY <1>2 DEF Begins, Ends, Stops
    <2>2. "left" \notin mishaps' => "left" \notin mishaps /\ groups' \ {0} = {}
      <3>1. CASE advertising
        BY <2>1, <3>1 DEF Stops, Removed
      <3>2. CASE ~advertising
        <4>1. NoGroup \notin groups /\ group = NoGroup
          BY <1>0, <3>2, NoGroupIsNone DEF LoopInv
        <4>2. "left" \notin mishaps => groups \ {0} = {}
          BY <2>1, <4>1 DEF Stops
        <4>. QED
          BY <2>1, <4>2 DEF Stops, Removed
      <3>. QED
        BY <3>1, <3>2
    <2>. QED
      BY <2>1, <2>2 DEF Stops
  <1>3. CASE AdvertiserReturns
    <2>1. CASE bring = "up"
      BY <1>0, <1>3, <2>1 DEF AdvertiserReturns, LoopInv
    <2>2. CASE bring = "failed"
      BY <1>0, <1>3, <2>2 DEF AdvertiserReturns, LoopInv
    <2>. QED
      BY <1>3, <2>1, <2>2 DEF AdvertiserReturns
  <1>4. CASE (\E g \in pending : GroupAppears(g)) /\ UNCHANGED appVars
    <2>1. PICK g \in pending : GroupAppears(g)
      BY <1>4
    <2>2. g # 0
      BY <1>0
    <2>. QED
      BY <1>0, <1>4, <2>1, <2>2 DEF GroupAppears, appVars
  <1>5. CASE BringUpStep /\ UNCHANGED appVars
    <2>0. bring # "off" => ~advertising'
      BY <1>0, <1>5 DEF LoopInv, appVars
    <2>1. CASE ConfigFails
      BY <2>0, <2>1 DEF ConfigFails
    <2>2. CASE ConfigDone
      BY <2>0, <2>2 DEF ConfigDone
    <2>3. CASE StaleRemoved
      BY <2>0, <2>3 DEF StaleRemoved
    <2>4. CASE AddAccepted
      BY <1>0, <2>0, <2>4 DEF AddAccepted
    <2>5. CASE AddRejected \/ AddAborts
      BY <2>0, <2>5 DEF AddRejected, AddAborts, NextRung, Fails
    <2>6. CASE WaitTimesOut
      BY <2>6 DEF WaitTimesOut
    <2>7. CASE SeesNewGroup
      BY <1>0, <2>0, <2>7 DEF SeesNewGroup, LoopInv
    <2>8. CASE SeesAnyGroup
      BY <1>0, <2>0, <2>8 DEF SeesAnyGroup, LoopInv
    <2>9. CASE Verified \/ AcceptedUnread
      BY <2>0, <2>9 DEF Verified, AcceptedUnread
    <2>10. CASE WrongBand
      BY <1>0, <2>0, <2>10 DEF WrongBand, NextRung, Removed, LoopInv
    <2>. QED
      BY <1>5, <2>1, <2>2, <2>3, <2>4, <2>5, <2>6, <2>7, <2>8, <2>9, <2>10 DEF BringUpStep
  <1>. QED
    BY <1>1, <1>2, <1>3, <1>4, <1>5, GroupKinds

\* A bring-up leaves one group, the one it added last, and a stop leaves none, unless a
\* group, or an add that ended with an error, was given up: after any number of rungs
\* that were rejected or in the wrong band, and after any number of rotations and
\* interface switches (start_group_owner and remove_group of both backends, the
\* advertiser).
THEOREM OneGroupAtATime == ASpec => []OneGroup
  <1>1. AInit => OnlyInv
    BY DEF AInit, GInit, OnlyInv
  <1>2. Base /\ OnlyInv /\ [ANext]_avars => OnlyInv'
    BY OnlyStep
  <1>3. OnlyInv => OneGroup
    BY DEF OnlyInv, OneGroup
  <1>. QED
    BY <1>1, <1>2, <1>3, BaseAlways, PTL DEF ASpec

-------------------------------------------------------------------------------
(* The event channel. *)

Announcement(e) == e.type = "AdvertisingStarted"

\* No AdvertisingStarted is queued.
Silent(s) == \A i \in DOMAIN s : ~Announcement(s[i])

\* The last AdvertisingStarted that is queued, if any, is that of group g.
Announces(s, g) ==
    \A i \in DOMAIN s :
       Announcement(s[i]) /\ (\A j \in DOMAIN s : j > i => ~Announcement(s[j])) => s[i].group = g

\* Nothing is announced after group g.
Latest(s, g) ==
    \A i, j \in DOMAIN s : i < j /\ Announcement(s[i]) /\ s[i].group = g => ~Announcement(s[j])

Queued(s, type, g) == \E i \in DOMAIN s : s[i].type = type /\ s[i].group = g

\* What taking the oldest event does to the queue.
LEMMA Taken ==
    ASSUME NEW s \in Seq(AppEvent), s # <<>>, NEW g
    PROVE  /\ Announces(s, g) => Announces(Tail(s), g)
           /\ Silent(s) => Silent(Tail(s))
           /\ ~Announcement(Head(s)) /\ Silent(Tail(s)) => Silent(s)
           /\ Announcement(Head(s)) /\ Silent(Tail(s)) /\ Announces(s, g) => Head(s).group = g
           /\ Latest(s, g) => Latest(Tail(s), g)
           /\ Announcement(Head(s)) /\ Head(s).group = g /\ Latest(s, g) => Silent(Tail(s))
           /\ \A type : Queued(Tail(s), type, g) => Queued(s, type, g)
           /\ Queued(s, Head(s).type, Head(s).group)
  <1>. DEFINE t == Tail(s)
              n == Len(s)
  <1>1. n \in Nat \ {0} /\ DOMAIN s = 1 .. n /\ Head(s) = s[1]
    BY EmptySeq, LenProperties
  <1>2. t \in Seq(AppEvent) /\ Len(t) = n - 1 /\ \A i \in 1 .. Len(t) : t[i] = s[i + 1]
    BY HeadTailProperties
  <1>3. DOMAIN t = 1 .. n - 1 /\ \A i \in 1 .. n - 1 : t[i] = s[i + 1]
    BY <1>2, LenProperties
  <1>. HIDE DEF t, n
  <1>4. /\ \A i \in 1 .. n - 1 : i + 1 \in 1 .. n
        /\ \A i \in 1 .. n : i = 1 \/ (i - 1 \in 1 .. n - 1 /\ i = (i - 1) + 1)
        /\ 1 \in 1 .. n
    BY <1>1
  <1>5. \A i \in 1 .. n : i # 1 => s[i] = t[i - 1]
    BY <1>3, <1>4
  <1>6. Announces(s, g) => Announces(t, g)
    <2>. SUFFICES ASSUME Announces(s, g), NEW i \in 1 .. n - 1, Announcement(t[i]),
                         \A j \in 1 .. n - 1 : j > i => ~Announcement(t[j])
                  PROVE  t[i].group = g
      BY <1>3 DEF Announces
    <2>1. \A j \in 1 .. n : j > i + 1 => ~Announcement(s[j])
      BY <1>1, <1>4, <1>5
    <2>. QED
      BY <1>1, <1>3, <1>4, <2>1 DEF Announces
  <1>7. Latest(s, g) => Latest(t, g)
    <2>. SUFFICES ASSUME Latest(s, g), NEW i \in 1 .. n - 1, NEW j \in 1 .. n - 1, i < j,
                         Announcement(t[i]), t[i].group = g
                  PROVE  ~Announcement(t[j])
      BY <1>3 DEF Latest
    <2>1. i + 1 < j + 1
      BY <1>1
    <2>. QED
      BY <1>1, <1>3, <1>4, <2>1 DEF Latest
  <1>8. Silent(s) => Silent(t)
    BY <1>1, <1>3, <1>4 DEF Silent
  <1>9. ~Announcement(s[1]) /\ Silent(t) => Silent(s)
    BY <1>1, <1>3, <1>4, <1>5 DEF Silent
  <1>10. Announcement(s[1]) /\ Silent(t) /\ Announces(s, g) => s[1].group = g
    <2>. SUFFICES ASSUME Announcement(s[1]), Silent(t), Announces(s, g)
                  PROVE  s[1].group = g
      OBVIOUS
    <2>1. \A j \in 1 .. n : j > 1 => ~Announcement(s[j])
      BY <1>1, <1>3, <1>4, <1>5 DEF Silent
    <2>. QED
      BY <1>1, <1>4, <2>1 DEF Announces
  <1>11. Announcement(s[1]) /\ s[1].group = g /\ Latest(s, g) => Silent(t)
    <2>. SUFFICES ASSUME Announcement(s[1]), s[1].group = g, Latest(s, g), NEW i \in 1 .. n - 1
                  PROVE  ~Announcement(t[i])
      BY <1>3 DEF Silent
    <2>1. 1 < i + 1
      BY <1>1
    <2>. QED
      BY <1>1, <1>3, <1>4, <2>1 DEF Latest
  <1>12. \A type : Queued(t, type, g) => Queued(s, type, g)
    BY <1>1, <1>3, <1>4 DEF Queued
  <1>13. Queued(s, s[1].type, s[1].group)
    BY <1>1, <1>4 DEF Queued
  <1>. QED
    BY <1>1, <1>6, <1>7, <1>8, <1>9, <1>10, <1>11, <1>12, <1>13 DEF t

\* What sending an event does to the queue.
LEMMA Sent ==
    ASSUME NEW s \in Seq(AppEvent), NEW e \in AppEvent, NEW g
    PROVE  /\ ~Announcement(e) =>
                 /\ Announces(s, g) => Announces(Append(s, e), g)
                 /\ Silent(Append(s, e)) <=> Silent(s)
                 /\ Latest(s, g) => Latest(Append(s, e), g)
           /\ Announcement(e) /\ e.group = g =>
                 /\ Announces(Append(s, e), g) /\ ~Silent(Append(s, e))
                 /\ ~Queued(s, "AdvertisingStarted", g) => Latest(Append(s, e), g)
           /\ \A type : Queued(Append(s, e), type, g) =>
                           Queued(s, type, g) \/ (e.type = type /\ e.group = g)
  <1>. DEFINE t == Append(s, e)
              n == Len(s)
  <1>1. n \in Nat /\ DOMAIN s = 1 .. n
    BY LenProperties
  <1>2. /\ t \in Seq(AppEvent) /\ Len(t) = n + 1
        /\ \A i \in 1 .. n : t[i] = s[i]
        /\ t[n + 1] = e
    BY AppendProperties
  <1>3. DOMAIN t = 1 .. n + 1
    BY <1>2, LenProperties
  <1>. HIDE DEF t, n
  <1>4. /\ n + 1 \in 1 .. n + 1
        /\ \A i \in 1 .. n + 1 : i \in 1 .. n \/ i = n + 1
        /\ \A i \in 1 .. n : i \in 1 .. n + 1 /\ i < n + 1 /\ ~(i > n + 1)
    BY <1>1
  <1>5. ASSUME ~Announcement(e)
        PROVE  /\ Announces(s, g) => Announces(t, g)
               /\ Silent(t) <=> Silent(s)
               /\ Latest(s, g) => Latest(t, g)
    <2>1. Announces(s, g) => Announces(t, g)
      BY <1>1, <1>2, <1>3, <1>4, <1>5 DEF Announces
    <2>2. Silent(t) <=> Silent(s)
      BY <1>1, <1>2, <1>3, <1>4, <1>5 DEF Silent
    <2>3. Latest(s, g) => Latest(t, g)
      <3>. SUFFICES ASSUME Latest(s, g), NEW i \in 1 .. n + 1, NEW j \in 1 .. n + 1, i < j,
                           Announcement(t[i]), t[i].group = g
                    PROVE  ~Announcement(t[j])
        BY <1>3 DEF Latest
      <3>. QED
        BY <1>1, <1>2, <1>4, <1>5 DEF Latest
    <2>. QED
      BY <2>1, <2>2, <2>3
  <1>6. ASSUME Announcement(e), e.group = g
        PROVE  /\ Announces(t, g) /\ ~Silent(t)
               /\ ~Queued(s, "AdvertisingStarted", g) => Latest(t, g)
    <2>1. Announces(t, g)
      BY <1>1, <1>2, <1>3, <1>4, <1>6 DEF Announces
    <2>2. ~Silent(t)
      BY <1>2, <1>3, <1>4, <1>6 DEF Silent
    <2>3. ~Queued(s, "AdvertisingStarted", g) => Latest(t, g)
      <3>. SUFFICES ASSUME ~Queued(s, "AdvertisingStarted", g),
                           NEW i \in 1 .. n + 1, NEW j \in 1 .. n + 1, i < j,
                           Announcement(t[i]), t[i].group = g
                    PROVE  FALSE
        BY <1>3 DEF Latest
      <3>1. i \in 1 .. n
        BY <1>1
      <3>. QED
        BY <1>1, <1>2, <3>1 DEF Queued, Announcement
    <2>. QED
      BY <2>1, <2>2, <2>3
  <1>7. \A type : Queued(t, type, g) => Queued(s, type, g) \/ (e.type = type /\ e.group = g)
    BY <1>1, <1>2, <1>3, <1>4 DEF Queued
  <1>. QED
    BY <1>5, <1>6, <1>7 DEF t

\* The main loop handles an event other than AdvertisingStarted; the end of a session
\* may send another one.
Hears ==
    /\ events # <<>> /\ ~Announcement(Head(events))
    /\ events' \in {Tail(events), Append(Tail(events), Event("StreamStopped", NoGroup))}
    /\ UNCHANGED <<ladderVars, advVars, handler, listening, peerVars>>
    /\ \/ /\ Head(events).type = "ConnectionReceived" /\ connected'
          /\ thread' \in {thread, Head(events).group}
       \/ UNCHANGED watchVars /\ thread' \in {thread, NoGroup} /\ (running' => running)

\* A thread sends an event, or none.
Sends ==
    /\ \/ UNCHANGED events
       \/ \E e \in AppEvent :
             /\ ~Announcement(e) /\ events' = Append(events, e)
             /\ e.type = "ConnectionReceived" => e.group \in joining
    /\ UNCHANGED <<ladderVars, advVars, handler, watchVars>>
    /\ listening' \subseteq listening
    /\ thread' \in {thread, NoGroup} /\ (running' => running)
    /\ joining' \subseteq joining \cup listening

\* The end of the program: the last session may say that it stopped.
Quits ==
    /\ Ends
    /\ events' \in {events, Append(events, Event("StreamStopped", NoGroup))}
    /\ UNCHANGED <<watchVars, joining>> /\ handler' = NoGroup /\ listening' = {}
    /\ thread' \in {thread, NoGroup} /\ (running' => running)

\* A step that leaves the channel, the receiver and the sources alone.
Still ==
    /\ UNCHANGED <<events, rxVars, peerVars, connected>>
    /\ UNCHANGED <<handler, listening>> \/ (Begins /\ handler' = NoGroup /\ listening' = {})

\* The kinds of steps, as far as the events are concerned.
LEMMA EventKinds ==
    ASSUME Base, [ANext]_avars
    PROVE  HandleAdvertisingStarted \/ Hears \/ Sends \/ Quits \/ AdvertiserReturns \/ Still
  <1>. USE DEF advVars, watchVars, rxVars, handlerVars, peerVars, userVars
  <1>0. events \in Seq(AppEvent) /\ joining \subseteq Group
    BY DEF Base, ATypeOK
  <1>00. bring = "off" <=> loop \notin Busy
    BY DEF Base, LoopInv
  <1>1. CASE UNCHANGED appVars \/ UNCHANGED avars
    BY <1>1 DEF appVars, avars, Still
  <1>2. CASE HandleConnectionReceived
    BY <1>2 DEF HandleConnectionReceived, Takes, Hears, Announcement
  <1>3. CASE HandleConnectionError \/ HandleStreamStopped
    BY <1>3 DEF HandleConnectionError, HandleStreamStopped, Takes, Hears, Announcement
  <1>4. CASE HandleStreamError
    BY <1>4 DEF HandleStreamError, StopReceiving, Takes, Hears, Announcement
  <1>5. CASE Threads
    <2>1. ASSUME NEW g \in listening, SourceJoins(g)
          PROVE  Sends
      <3>1. UNCHANGED <<events, ladderVars, advVars, handler, listening, watchVars, thread, running>>
            /\ joining' = joining \cup {g}
        BY <2>1 DEF SourceJoins
      <3>. QED
        BY <2>1, <3>1 DEF Sends, SourceJoins
    <2>2. ASSUME NEW g \in joining, LeaseEnds(g)
          PROVE  Sends
      <3>1. PICK e \in AppEvent :
               /\ events' = Append(events, e)
               /\ e \in {Event("ConnectionReceived", g), Event("ConnectionError", NoGroup)}
        BY <1>0, <2>2, Events DEF LeaseEnds, Send
      <3>2. ~Announcement(e) /\ (e.type = "ConnectionReceived" => e.group \in joining)
        BY <3>1 DEF Event, Announcement
      <3>. QED
        BY <2>2, <3>1, <3>2 DEF Sends, LeaseEnds
    <2>3. CASE SessionStops \/ SessionFails \/ ArmFails
      <3>1. PICK e \in AppEvent :
               /\ events' = Append(events, e)
               /\ e \in {Event("StreamStopped", NoGroup), Event("StreamError", NoGroup),
                         Event("ConnectionError", NoGroup)}
        BY <2>3, Events DEF SessionStops, SessionFails, ArmFails, Send
      <3>2. ~Announcement(e) /\ e.type # "ConnectionReceived"
        BY <3>1 DEF Event, Announcement
      <3>3. /\ UNCHANGED <<ladderVars, advVars, handler, listening, watchVars, joining>>
            /\ thread' \in {thread, NoGroup} /\ (running' => running)
        BY <2>3 DEF SessionStops, SessionFails, ArmFails
      <3>. QED
        BY <3>1, <3>2, <3>3 DEF Sends
    <2>4. CASE SourceUnseen
      BY <2>4 DEF SourceUnseen, Sends
    <2>5. ASSUME NEW g \in listening, HandlerEnds(g)
          PROVE  Sends
      <3>1. /\ Event("ConnectionError", NoGroup) \in AppEvent
            /\ ~Announcement(Event("ConnectionError", NoGroup))
            /\ Event("ConnectionError", NoGroup).type # "ConnectionReceived"
        BY Events DEF Event, Announcement
      <3>2. UNCHANGED events \/ events' = Append(events, Event("ConnectionError", NoGroup))
        BY <2>5 DEF HandlerEnds, Send
      <3>3. /\ UNCHANGED <<ladderVars, advVars, handler, watchVars, joining, thread, running>>
            /\ listening' \subseteq listening
        BY <2>5 DEF HandlerEnds
      <3>. QED
        BY <3>1, <3>2, <3>3 DEF Sends
    <2>. QED
      BY <1>5, <2>1, <2>2, <2>3, <2>4, <2>5 DEF Threads
  <1>6. CASE FirstStart \/ DrainEnds \/ WatchdogPasses \/ WatchdogRotates \/ WatchdogPrompts \/ RefreshPin
    BY <1>6 DEF FirstStart, StartAdvertising, DrainEnds, WatchdogPasses, WatchdogRotates,
                WatchdogPrompts, RefreshPin, Still
  <1>7. CASE SwitchInterface
    <2>1. Begins
      BY <1>7 DEF SwitchInterface, StopAdvertising, Begins, Stops, Busy, Base, LoopInv
    <2>. QED
      BY <1>7, <2>1 DEF SwitchInterface, Still
  <1>8. CASE Shutdown
    <2>1. Ends
      BY <1>00, <1>8 DEF Shutdown, StopAdvertising, Ends, Stops, Busy, callVars, Base, LoopInv
    <2>. QED
      BY <1>8, <2>1 DEF Shutdown, StopReceiving, Quits
  <1>. QED
    BY <1>1, <1>2, <1>3, <1>4, <1>5, <1>6, <1>7, <1>8
       DEF ANext, MainLoop, User, BringUp, Appears, HandleEvent

-------------------------------------------------------------------------------
\* Either the handler is on the group that is advertised, or the event that will put it
\* there is queued.
FollowInv ==
    advertising =>
        /\ Silent(events) => handler = group /\ listening \subseteq {group}
        /\ Announces(events, group)

\* Every step keeps FollowInv.
LEMMA FollowStep ==
    ASSUME Base, FollowInv, [ANext]_avars
    PROVE  FollowInv'
  <1>. USE DEF FollowInv, advVars
  <1>0. /\ events \in Seq(AppEvent) /\ (bring = "up" => cand \in Group)
        /\ Event("StreamStopped", NoGroup) \in AppEvent
        /\ ~Announcement(Event("StreamStopped", NoGroup))
    BY Events DEF Base, ATypeOK, LoopInv, GTypeOK, Announcement, Event
  <1>1. CASE HandleAdvertisingStarted
    BY <1>0, <1>1, Taken DEF HandleAdvertisingStarted, Takes, Announcement
  <1>2. CASE Hears
    <2>1. Tail(events) \in Seq(AppEvent)
      BY <1>0, <1>2, HeadTailProperties DEF Hears
    <2>2. (Silent(Tail(events)) => Silent(events)) /\ (Announces(events, group) => Announces(Tail(events), group))
      BY <1>0, <1>2, Taken DEF Hears
    <2>. DEFINE longer == Append(Tail(events), Event("StreamStopped", NoGroup))
    <2>5. /\ Silent(longer) => Silent(Tail(events))
          /\ Announces(Tail(events), group) => Announces(longer, group)
      BY <1>0, <2>1, Sent
    <2>6. events' \in {Tail(events), longer}
      BY <1>2 DEF Hears
    <2>. HIDE DEF longer
    <2>3. Silent(events') => Silent(Tail(events))
      BY <2>5, <2>6
    <2>4. Announces(Tail(events), group) => Announces(events', group)
      BY <2>5, <2>6
    <2>. QED
      BY <1>2, <2>2, <2>3, <2>4 DEF Hears
  <1>3. CASE Sends
    BY <1>0, <1>3, Sent DEF Sends
  <1>4. CASE Begins \/ Ends
    BY <1>4 DEF Begins, Ends, Stops
  <1>5. CASE AdvertiserReturns
    <2>1. CASE bring = "up"
      <3>1. /\ events' = Append(events, Event("AdvertisingStarted", cand)) /\ group' = cand
            /\ Event("AdvertisingStarted", cand) \in AppEvent
            /\ Announcement(Event("AdvertisingStarted", cand))
            /\ Event("AdvertisingStarted", cand).group = cand
        BY <1>0, <1>5, <2>1, Events DEF AdvertiserReturns, Send, Event, Announcement
      <3>. QED
        BY <1>0, <3>1, Sent
    <2>2. CASE bring # "up"
      BY <1>5, <2>2 DEF AdvertiserReturns, Base, LoopInv, Busy
    <2>. QED
      BY <2>1, <2>2
  <1>6. CASE Still /\ UNCHANGED <<handler, listening>>
    <2>1. Aside => UNCHANGED advVars
      BY DEF Aside
    <2>2. UNCHANGED appVars => UNCHANGED advVars
      BY DEF appVars
    <2>. QED
      BY <1>4, <1>5, <1>6, <2>1, <2>2, GroupKinds DEF Still
  <1>. QED
    BY <1>1, <1>2, <1>3, <1>4, <1>5, <1>6, EventKinds DEF Quits, Still

\* Once the events are drained, the App's handler is the one for the group that is
\* advertised and no other group's handler listens, however rotations, switches, the
\* ends of handlers and the events of groups that are gone were interleaved
\* (on_advertiser_started, check_discovery_watchdog, switch_interface).
THEOREM HandlerFollows == ASpec => []HandlerFollowsGroup
  <1>1. AInit => FollowInv
    BY DEF AInit, FollowInv
  <1>2. Base /\ FollowInv /\ [ANext]_avars => FollowInv'
    BY FollowStep
  <1>3. FollowInv => HandlerFollowsGroup
    BY DEF FollowInv, HandlerFollowsGroup, Silent, Announcement
  <1>. QED
    BY <1>1, <1>2, <1>3, BaseAlways, PTL DEF ASpec

-------------------------------------------------------------------------------
\* A PIN that is spent will be replaced: the source that used it is waiting for its lease,
\* or streams, or an event is queued that says what became of it.
RenewInv ==
    handler # NoGroup /\ pin = "spent" => handler \in joining \/ running \/ events # <<>>

\* Every step keeps RenewInv.
LEMMA RenewStep ==
    ASSUME Base, RenewInv, [ANext]_avars
    PROVE  RenewInv'
  <1>. USE DEF RenewInv, advVars, watchVars, rxVars, handlerVars, peerVars, userVars
  <1>0. /\ events \in Seq(AppEvent)
        /\ \A e \in AppEvent : Append(events, e) # <<>>
    BY AppendProperties DEF Base, ATypeOK
  <1>1. CASE UNCHANGED appVars \/ UNCHANGED avars
    BY <1>1 DEF appVars, avars
  <1>2. CASE HandleAdvertisingStarted \/ HandleConnectionError \/ HandleStreamStopped \/ HandleStreamError
    BY <1>2 DEF HandleAdvertisingStarted, HandleConnectionError, HandleStreamStopped, HandleStreamError,
                Rearmed
  <1>3. CASE HandleConnectionReceived
    BY <1>3 DEF HandleConnectionReceived
  <1>4. CASE SwitchInterface \/ Shutdown
    BY <1>4 DEF SwitchInterface, Shutdown
  <1>5. CASE FirstStart \/ DrainEnds \/ WatchdogPasses \/ WatchdogRotates \/ WatchdogPrompts \/ RefreshPin
    BY <1>5 DEF FirstStart, DrainEnds, WatchdogPasses, WatchdogRotates, WatchdogPrompts, RefreshPin
  <1>6. CASE Threads
    <2>1. ASSUME NEW g \in listening, SourceJoins(g)
          PROVE  RenewInv'
      BY <2>1 DEF SourceJoins
    <2>2. ASSUME NEW g \in joining, LeaseEnds(g)
          PROVE  events' # <<>>
      <3>1. g \in Group
        BY <2>2 DEF Base, ATypeOK
      <3>. QED
        BY <1>0, <2>2, <3>1, Events DEF LeaseEnds, Send
    <2>3. CASE SessionStops \/ SessionFails \/ ArmFails
      BY <1>0, <2>3, Events DEF SessionStops, SessionFails, ArmFails, Send
    <2>4. CASE SourceUnseen
      BY <2>4 DEF SourceUnseen
    <2>5. ASSUME NEW g \in listening, HandlerEnds(g)
          PROVE  RenewInv'
      <3>1. events' = events \/ events' # <<>>
        BY <1>0, <2>5, Events DEF HandlerEnds, Send
      <3>. QED
        BY <2>5, <3>1 DEF HandlerEnds
    <2>. QED
      BY <1>6, <2>1, <2>2, <2>3, <2>4, <2>5 DEF Threads
  <1>7. CASE AdvertiserReturns
    <2>1. bring = "up" => cand \in Group
      BY DEF Base, ATypeOK, LoopInv, GTypeOK
    <2>2. events' = events \/ events' # <<>>
      BY <1>0, <1>7, <2>1, Events DEF AdvertiserReturns, Send
    <2>. QED
      BY <1>7, <2>2 DEF AdvertiserReturns
  <1>. QED
    BY <1>1, <1>2, <1>3, <1>4, <1>5, <1>6, <1>7
       DEF ANext, MainLoop, User, BringUp, Appears, HandleEvent

\* When nothing is going on, the PIN that was armed last is unused, unless a source used
\* it up unseen: whatever became of the sources before that the handler saw
\* (return_to_advertising).
THEOREM NextSourceConnects == ASpec => []NextSourceCanConnect
  <1>1. AInit => RenewInv
    BY DEF AInit, RenewInv
  <1>2. Base /\ RenewInv /\ [ANext]_avars => RenewInv'
    BY RenewStep
  <1>3. RenewInv => NextSourceCanConnect
    BY DEF RenewInv, NextSourceCanConnect
  <1>. QED
    BY <1>1, <1>2, <1>3, BaseAlways, PTL DEF ASpec

-------------------------------------------------------------------------------
\* Group g is not one that the bring-up of the wpa_cli backend may still come up with.
Spent(g) ==
    /\ g \notin pending /\ g \in 0 .. adds
    /\ bring = "wait" /\ g \in groups => g \in pre
    /\ bring \in {"verify", "up"} => g # cand

\* A source may have joined group g, and its session may be on.
Met(g) ==
    \/ g \in listening \/ g \in joining \/ thread = g
    \/ Queued(events, "ConnectionReceived", g)

\* Group g was advertised.
Used(g) == Met(g) \/ group = g \/ Queued(events, "AdvertisingStarted", g)

\* A source that streams from the group that is advertised was met after the event of
\* that group, so that the mark it made stands; the bring-up never comes up with a group
\* that was advertised before.
SpareInv ==
    backend = "cli" =>
        /\ \A g \in Group : Used(g) => Spent(g)
        /\ group # NoGroup /\ Met(group) => Silent(events)
        /\ group # NoGroup => Latest(events, group)
        /\ running /\ thread # NoGroup /\ thread = group => connected

\* Once spent, a group stays so.
LEMMA SpentStep ==
    ASSUME Base, backend = "cli", NEW g \in Group, Spent(g), [ANext]_avars
    PROVE  Spent(g)'
  <1>. USE DEF Spent, fixedVars, envVars, callVars, advVars
  <1>0. /\ LoopInv /\ adds \in Nat /\ groups \subseteq Group
    BY NoGroupIsNone DEF Base, ATypeOK, GTypeOK
  <1>1. CASE Aside
    BY <1>1 DEF Aside
  <1>2. CASE Begins \/ Ends
    BY <1>2 DEF Begins, Ends, Stops
  <1>3. CASE AdvertiserReturns
    BY <1>3 DEF AdvertiserReturns
  <1>4. CASE \E h \in pending : GroupAppears(h)
    <2>1. PICK h \in pending : GroupAppears(h)
      BY <1>4
    <2>. QED
      BY <2>1 DEF GroupAppears
  <1>5. CASE BringUpStep
    <2>1. CASE ConfigFails \/ ConfigDone \/ StaleRemoved
      BY <2>1 DEF ConfigFails, ConfigDone, StaleRemoved
    <2>2. CASE AddAccepted
      <3>1. g # adds + 1 /\ g \in 0 .. adds + 1
        BY <1>0
      <3>. QED
        BY <2>2, <3>1 DEF AddAccepted
    <2>3. CASE AddRejected
      BY <2>3 DEF AddRejected, NextRung
    <2>8. CASE AddAborts
      <3>1. g # adds + 1 /\ g \in 0 .. adds + 1
        BY <1>0
      <3>. QED
        BY <2>8, <3>1 DEF AddAborts
    <2>4. CASE SeesNewGroup \/ SeesAnyGroup
      BY <2>4 DEF SeesNewGroup, SeesAnyGroup
    <2>5. CASE WaitTimesOut
      BY <2>5 DEF WaitTimesOut, NextRung, Fails
    <2>6. CASE Verified \/ AcceptedUnread
      BY <2>6 DEF Verified, AcceptedUnread
    <2>7. CASE WrongBand
      BY <2>7 DEF WrongBand, NextRung
    <2>. QED
      BY <1>5, <2>1, <2>2, <2>3, <2>4, <2>5, <2>6, <2>7, <2>8 DEF BringUpStep
  <1>. QED
    BY <1>1, <1>2, <1>3, <1>4, <1>5, GroupKinds

\* No group is met but by the handler of its AdvertisingStarted, which also is the only
\* one to remove the mark that a source made.
LEMMA MetStep ==
    ASSUME Base, [ANext]_avars, ~HandleAdvertisingStarted
    PROVE  /\ \A g \in Group : Met(g)' => Met(g)
           /\ ~AdvertiserReturns =>
                 /\ \A g \in Group : Queued(events', "AdvertisingStarted", g) =>
                                        Queued(events, "AdvertisingStarted", g)
                 /\ Silent(events) => Silent(events')
                 /\ \A g : Latest(events, g) => Latest(events', g)
           /\ connected' \/ (/\ connected' = connected /\ thread' \in {thread, NoGroup}
                             /\ running' => running)
  <1>. DEFINE stopped == Event("StreamStopped", NoGroup)
  <1>0. /\ events \in Seq(AppEvent) /\ stopped \in AppEvent /\ ~Announcement(stopped)
        /\ stopped.type = "StreamStopped"
    BY Events DEF Base, ATypeOK, Announcement, Event
  <1>00. NoGroup \notin Group
    BY NoGroupIsNone
  <1>. HIDE DEF stopped
  <1>1. CASE Hears
    <2>1. Tail(events) \in Seq(AppEvent) /\ events # <<>>
      BY <1>0, <1>1, HeadTailProperties DEF Hears
    <2>2. events' \in {Tail(events), Append(Tail(events), stopped)}
      BY <1>1 DEF Hears, stopped
    <2>3. \A g, type : Queued(events', type, g) => Queued(events, type, g) \/ type = "StreamStopped"
      <3>1. \A g, type : Queued(Tail(events), type, g) => Queued(events, type, g)
        BY <1>0, <2>1, Taken
      <3>2. \A g, type : Queued(Append(Tail(events), stopped), type, g) =>
                            Queued(Tail(events), type, g) \/ type = "StreamStopped"
        BY <1>0, <2>1, Sent
      <3>. QED
        BY <2>2, <3>1, <3>2
    <2>4. Silent(events) => Silent(events')
      <3>1. Silent(events) => Silent(Tail(events))
        BY <1>0, <2>1, Taken
      <3>2. Silent(Tail(events)) => Silent(Append(Tail(events), stopped))
        BY <1>0, <2>1, Sent
      <3>. QED
        BY <2>2, <3>1, <3>2
    <2>5. \A g : Latest(events, g) => Latest(events', g)
      <3>1. \A g : Latest(events, g) => Latest(Tail(events), g)
        BY <1>0, <2>1, Taken
      <3>2. \A g : Latest(Tail(events), g) => Latest(Append(Tail(events), stopped), g)
        BY <1>0, <2>1, Sent
      <3>. QED
        BY <2>2, <3>1, <3>2
    <2>6. \A g \in Group : thread' = g => thread = g \/ Queued(events, "ConnectionReceived", g)
      <3>1. Queued(events, Head(events).type, Head(events).group)
        BY <1>0, <2>1, Taken
      <3>. QED
        BY <1>00, <1>1, <3>1 DEF Hears
    <2>. QED
      BY <1>1, <2>3, <2>4, <2>5, <2>6 DEF Hears, Met, peerVars, watchVars
  <1>2. CASE Sends
    <2>1. CASE UNCHANGED events
      BY <1>00, <1>2, <2>1 DEF Sends, Met, watchVars
    <2>2. ASSUME NEW e \in AppEvent, ~Announcement(e), events' = Append(events, e),
                 e.type = "ConnectionReceived" => e.group \in joining
          PROVE  /\ \A g \in Group : Met(g)' => Met(g)
                 /\ \A g \in Group : Queued(events', "AdvertisingStarted", g) =>
                                        Queued(events, "AdvertisingStarted", g)
                 /\ Silent(events) => Silent(events')
                 /\ \A g : Latest(events, g) => Latest(events', g)
      <3>1. \A g, type : Queued(events', type, g) =>
                            Queued(events, type, g) \/ (e.type = type /\ e.group = g)
        BY <1>0, <2>2, Sent
      <3>2. (Silent(events) => Silent(events')) /\ \A g : Latest(events, g) => Latest(events', g)
        BY <1>0, <2>2, Sent
      <3>3. ASSUME NEW g \in Group, Met(g)'
            PROVE  Met(g)
        <4>1. listening' \subseteq listening /\ joining' \subseteq joining \cup listening /\ thread' \in {thread, NoGroup}
          BY <1>2 DEF Sends
        <4>2. Queued(events', "ConnectionReceived", g) =>
                 Queued(events, "ConnectionReceived", g) \/ g \in joining
          BY <2>2, <3>1
        <4>. QED
          BY <1>00, <3>3, <4>1, <4>2 DEF Met
      <3>. QED
        BY <2>2, <3>1, <3>2, <3>3 DEF Announcement
    <2>. QED
      BY <1>2, <2>1, <2>2 DEF Sends, watchVars
  <1>3. CASE Quits
    <2>1. events' \in {events, Append(events, stopped)}
      BY <1>3 DEF Quits, stopped
    <2>2. /\ \A g, type : Queued(events', type, g) => Queued(events, type, g) \/ type = "StreamStopped"
          /\ Silent(events) => Silent(events')
          /\ \A g : Latest(events, g) => Latest(events', g)
      <3>1. CASE events' = events
        BY <3>1
      <3>2. CASE events' = Append(events, stopped)
        BY <1>0, <3>2, Sent
      <3>. QED
        BY <2>1, <3>1, <3>2
    <2>3. /\ UNCHANGED joining /\ listening' = {} /\ thread' \in {thread, NoGroup}
          /\ connected' = connected /\ (running' => running)
      BY <1>3 DEF Quits, watchVars
    <2>. QED
      BY <1>00, <2>2, <2>3 DEF Met
  <1>4. CASE AdvertiserReturns
    <2>1. UNCHANGED <<listening, joining, thread, connected, running>>
      BY <1>4 DEF AdvertiserReturns, handlerVars, peerVars, rxVars
    <2>2. \A g : Queued(events', "ConnectionReceived", g) => Queued(events, "ConnectionReceived", g)
      <3>1. CASE bring = "up"
        <4>1. /\ events' = Append(events, Event("AdvertisingStarted", cand))
              /\ Event("AdvertisingStarted", cand) \in AppEvent
              /\ Event("AdvertisingStarted", cand).type = "AdvertisingStarted"
          BY <1>4, <3>1, Events DEF AdvertiserReturns, Send, Event, Base, ATypeOK, GTypeOK, LoopInv
        <4>. QED
          BY <1>0, <4>1, Sent
      <3>2. CASE bring # "up"
        BY <1>4, <3>2 DEF AdvertiserReturns
      <3>. QED
        BY <3>1, <3>2
    <2>. QED
      BY <1>4, <2>1, <2>2 DEF Met
  <1>5. CASE Still
    <2>1. UNCHANGED <<events, joining, thread, connected, running>> /\ listening' \subseteq listening
      BY <1>5 DEF Still, peerVars, rxVars
    <2>. QED
      BY <2>1 DEF Met
  <1>. QED
    BY <1>1, <1>2, <1>3, <1>4, <1>5, EventKinds

\* Every step keeps SpareInv.
LEMMA SpareStep ==
    ASSUME Base, SpareInv, [ANext]_avars
    PROVE  SpareInv'
  <1>. SUFFICES ASSUME backend = "cli"
                PROVE  SpareInv'
    <2>1. UNCHANGED backend
      BY GroupKinds DEF Aside, Begins, Ends, Stops, AdvertiserReturns, fixedVars, GroupAppears, BringUpStep,
         ConfigFails, ConfigDone, StaleRemoved, AddAccepted, AddRejected, AddAborts, SeesNewGroup,
         SeesAnyGroup, WaitTimesOut, Verified, AcceptedUnread, WrongBand
    <2>. QED
      BY <2>1 DEF SpareInv
  <1>0. /\ \A g \in Group : Used(g) => Spent(g)
        /\ group # NoGroup /\ Met(group) => Silent(events)
        /\ group # NoGroup => Latest(events, group)
        /\ running /\ thread # NoGroup /\ thread = group => connected
    BY DEF SpareInv
  <1>00. /\ events \in Seq(AppEvent) /\ LoopInv /\ group \in Group \cup {NoGroup}
         /\ thread \in Group \cup {NoGroup} /\ cand \in Group \cup {NoGroup}
    BY DEF Base, ATypeOK, GTypeOK
  <1>000. NoGroup \notin Group
    BY NoGroupIsNone
  <1>1. \A g \in Group : Spent(g) => Spent(g)'
    BY SpentStep
  <1>2. CASE HandleAdvertisingStarted
    <2>1. /\ events # <<>> /\ events' = Tail(events) /\ Announcement(Head(events))
          /\ Head(events).type = "AdvertisingStarted"
          /\ listening' = {Head(events).group}
          /\ UNCHANGED <<joining, thread, running, group>>
      BY <1>2 DEF HandleAdvertisingStarted, Takes, Announcement, advVars, peerVars, rxVars
    <2>2. \A g : /\ Queued(events', "AdvertisingStarted", g) => Queued(events, "AdvertisingStarted", g)
                 /\ Queued(events', "ConnectionReceived", g) => Queued(events, "ConnectionReceived", g)
      BY <1>00, <2>1, Taken
    <2>3. Queued(events, "AdvertisingStarted", Head(events).group)
      BY <1>00, <2>1, Taken
    <2>4. \A g \in Group : Met(g)' => Met(g) \/ g = Head(events).group
      BY <2>1, <2>2 DEF Met
    <2>5. \A g \in Group : Used(g)' => Used(g)
      BY <2>1, <2>2, <2>3, <2>4 DEF Used
    <2>6. ASSUME group # NoGroup
          PROVE  (Met(group)' => Silent(events')) /\ Latest(events', group)
      <3>1. Latest(events', group)
        BY <1>0, <1>00, <2>1, <2>6, Taken
      <3>2. Head(events).group = group => Silent(events')
        BY <1>0, <1>00, <2>1, <2>6, Taken
      <3>3. Silent(events) => Silent(events')
        BY <1>00, <2>1, Taken
      <3>4. Met(group)' => Met(group) \/ group = Head(events).group
        BY <1>00, <2>1, <2>4, <2>6 DEF Met
      <3>. QED
        BY <1>0, <2>6, <3>1, <3>2, <3>3, <3>4
    <2>7. thread # NoGroup /\ thread = group => FALSE
      <3>1. ~Silent(events)
        <4>1. 1 \in DOMAIN events /\ Head(events) = events[1]
          BY <1>00, <2>1, EmptySeq, LenProperties
        <4>. QED
          BY <2>1, <4>1 DEF Silent
      <3>. QED
        BY <1>0, <3>1 DEF Met
    <2>8. \A g \in Group : Used(g)' => Spent(g)'
      BY <1>0, <1>1, <2>5
    <2>. QED
      BY <2>1, <2>6, <2>7, <2>8 DEF SpareInv
  <1>3. CASE AdvertiserReturns /\ bring = "up" /\ ~HandleAdvertisingStarted
    <2>1. PICK c \in Group : c = cand
      BY <1>00, <1>3 DEF LoopInv
    <2>2. group' = c /\ ~Used(c)
      BY <1>0, <1>3, <2>1 DEF AdvertiserReturns, Spent
    <2>3. /\ events' = Append(events, Event("AdvertisingStarted", c))
          /\ Event("AdvertisingStarted", c) \in AppEvent
          /\ Event("AdvertisingStarted", c).type = "AdvertisingStarted"
          /\ Event("AdvertisingStarted", c).group = c
      BY <1>3, <2>1, Events DEF AdvertiserReturns, Send, Event
    <2>4. \A g \in Group : Met(g)' => Met(g)
      BY <1>3, MetStep
    <2>5. \A g : Queued(events', "AdvertisingStarted", g) => Queued(events, "AdvertisingStarted", g) \/ g = c
      BY <1>00, <2>3, Sent
    <2>6. Spent(c)'
      <3>1. c \notin pending /\ c \in 0 .. adds
        BY <1>00, <1>3, <2>1 DEF LoopInv
      <3>2. bring' = "off" /\ pending' = pending /\ adds' = adds
        BY <1>3 DEF AdvertiserReturns, envVars
      <3>. QED
        BY <3>1, <3>2 DEF Spent
    <2>7. \A g \in Group : Used(g)' => Used(g) \/ g = c
      BY <2>2, <2>4, <2>5 DEF Used
    <2>8. Latest(events', c)
      BY <1>00, <2>1, <2>2, <2>3, Sent DEF Used, Announcement
    <2>9. ~Met(group)' /\ thread' # group'
      <3>1. ~Met(c)'
        BY <2>2, <2>4 DEF Used
      <3>. QED
        BY <2>2, <3>1 DEF Met
    <2>10. \A g \in Group : Used(g)' => Spent(g)'
      BY <1>0, <1>1, <2>6, <2>7
    <2>. HIDE DEF Met, Used, Spent
    <2>. QED
      BY <2>2, <2>8, <2>9, <2>10 DEF SpareInv
  <1>4. CASE ~AdvertiserReturns /\ ~HandleAdvertisingStarted
    <2>1. group' \in {group, NoGroup}
      BY <1>4, GroupKinds DEF Aside, Begins, Ends, Stops, appVars, advVars
    <2>2. \A g \in Group : Used(g)' => Used(g)
      BY <1>000, <1>4, <2>1, MetStep DEF Used
    <2>3. \A g \in Group : Used(g)' => Spent(g)'
      BY <1>0, <1>1, <2>2
    <2>4. ASSUME group' # NoGroup
          PROVE  (Met(group)' => Silent(events')) /\ Latest(events', group')
      <3>1. group' = group /\ group \in Group
        BY <1>00, <2>1, <2>4
      <3>2. Met(group)' => Met(group)
        BY <1>4, <3>1, MetStep DEF Met
      <3>3. (Silent(events) => Silent(events')) /\ (Latest(events, group) => Latest(events', group))
        BY <1>4, MetStep
      <3>. QED
        BY <1>0, <2>4, <3>1, <3>2, <3>3
    <2>5. running' /\ thread' # NoGroup /\ thread' = group' => connected'
      BY <1>0, <1>4, <2>1, MetStep
    <2>. HIDE DEF Met, Used, Spent
    <2>. QED
      BY <2>3, <2>4, <2>5 DEF SpareInv
  <1>5. CASE AdvertiserReturns /\ bring # "up"
    <2>1. UNCHANGED <<advVars, events, rxVars, handlerVars, peerVars, connected>>
      BY <1>5 DEF AdvertiserReturns
    <2>2. \A g \in Group : Used(g)' => Used(g)
      BY <2>1 DEF Used, Met, advVars, rxVars, handlerVars, peerVars
    <2>3. \A g \in Group : Used(g)' => Spent(g)'
      BY <1>0, <1>1, <2>2
    <2>4. Met(group)' => Met(group)
      BY <2>1 DEF Met, advVars, rxVars, handlerVars, peerVars
    <2>. HIDE DEF Met, Used, Spent
    <2>. QED
      BY <1>0, <2>1, <2>3, <2>4 DEF SpareInv, advVars, rxVars
  <1>6. AdvertiserReturns => ~HandleAdvertisingStarted
    BY DEF AdvertiserReturns, HandleAdvertisingStarted, Takes
  <1>. QED
    BY <1>2, <1>3, <1>4, <1>5, <1>6

\* The watchdog takes no group down whose source is known and streams: no order of
\* joins, lease waits, rotations and switches lets the mark of such a source be removed
\* (handle_event, check_discovery_watchdog).
THEOREM RotationSparesStreams == ASpec => RotationSparesStream
  <1>1. AInit => SpareInv
    BY NoGroupIsNone DEF AInit, GInit, SpareInv, Used, Met, Queued
  <1>2. Base /\ SpareInv /\ [ANext]_avars => SpareInv'
    BY SpareStep
  <1>3. SpareInv /\ [ANext]_avars =>
           [loop' = "rotating" /\ loop # "rotating" =>
                  ~(running /\ thread # NoGroup /\ thread = group)]_avars
    <2>. SUFFICES ASSUME SpareInv, [ANext]_avars, loop' = "rotating", loop # "rotating"
                  PROVE  ~(running /\ thread # NoGroup /\ thread = group)
      OBVIOUS
    <2>1. WatchdogRotates
      BY DEF ANext, MainLoop, User, Threads, BringUp, Appears, HandleEvent, avars, appVars,
             FirstStart, StartAdvertising, AdvertiserReturns, DrainEnds, WatchdogPasses, WatchdogPrompts,
             HandleAdvertisingStarted, HandleConnectionReceived, HandleConnectionError,
             HandleStreamStopped, HandleStreamError, Takes, SourceJoins, SourceUnseen, HandlerEnds, LeaseEnds, SessionStops,
             SessionFails, ArmFails, SwitchInterface, RefreshPin, Shutdown
    <2>. QED
      BY <2>1 DEF WatchdogRotates, WatchdogArmed, RungLeft, SpareInv
  <1>. QED
    BY <1>1, <1>2, <1>3, BaseAlways, PTL DEF ASpec, RotationSparesStream
-------------------------------------------------------------------------------
\* Without a 5 GHz rung, the rung at the offset leads the rotated ladder.
LEMMA SocialLeads ==
    ASSUME ladder \in {Detect(TRUE), Detect(FALSE)}, Head(ladder) # Five,
           offset \in Nat, offset < Len(Socials)
    PROVE  Rotated[1] = Socials[offset + 1]
  <1>1. Socials \in Seq(Rung) /\ <<Five>> \in Seq(Rung) /\ <<Driver>> \in Seq(Rung)
        /\ <<>> \in Seq(Rung) /\ Len(Socials) \in Nat
    <2>1. Socials \in [1 .. Len(Socials) -> Rung] /\ Len(Socials) \in Nat
      BY LadderAssumption, LenProperties DEF Rung
    <2>2. Socials \in Seq(Rung)
      BY <2>1, SeqDef
    <2>. QED
      BY <2>1, <2>2 DEF Rung
  <1>2. ladder = Socials \o <<Driver>>
    <2>1. Detect(FALSE) = Socials \o <<Driver>>
      BY <1>1, ConcatEmptySeq DEF Detect
    <2>2. Head(Detect(TRUE)) = Five
      <3>1. <<Five>> \o Socials \in Seq(Rung) /\ Len(<<Five>> \o Socials) = 1 + Len(Socials)
            /\ (<<Five>> \o Socials)[1] = Five
        BY <1>1, ConcatProperties
      <3>. DEFINE t == <<Five>> \o Socials
      <3>2. t \in Seq(Rung) /\ Len(t) = 1 + Len(Socials) /\ t[1] = Five
        BY <3>1
      <3>. HIDE DEF t
      <3>3. (t \o <<Driver>>)[1] = t[1] /\ t \o <<Driver>> # <<>> /\ t \o <<Driver>> \in Seq(Rung)
        BY <1>1, <3>2, ConcatProperties
      <3>4. Detect(TRUE) = t \o <<Driver>>
        BY DEF Detect, t
      <3>. DEFINE u == t \o <<Driver>>
      <3>5. u \in Seq(Rung) /\ u # <<>> /\ u[1] = Five
        BY <3>2, <3>3
      <3>. HIDE DEF u
      <3>6. Head(u) = u[1]
        BY <3>5, EmptySeq, LenProperties
      <3>. QED
        BY <3>4, <3>5, <3>6 DEF u
    <2>. QED
      BY <2>1, <2>2
  <1>3. Len(ladder) = Len(Socials) + 1 /\ ladder[offset + 1] = Socials[offset + 1]
    BY <1>1, <1>2, ConcatProperties
  <1>4. offset % Len(ladder) = offset
    BY <1>1, <1>3
  <1>. QED
    BY <1>3, <1>4, RotatedIsSeq

\* The social channel at the offset has led a bring-up.
Current == offset < Len(Socials) => Socials[offset + 1] \in led

\* The social channels before the offset have led a bring-up; the one at the offset has,
\* too, once a bring-up is past its first rung, or over, and no watchdog is armed before
\* the first one is.
LedInv ==
    backend = "cli" /\ Head(ladder) # Five /\ "aborted" \notin mishaps =>
        /\ \A i \in DOMAIN Socials : i <= offset => Socials[i] \in led
        /\ Current \/ bring \in {"off", "config"} \/ (bring = "add" /\ rung = 1)
        /\ Current \/ bring # "off" \/ (~since /\ Silent(events))
        /\ prompted => \A i \in DOMAIN Socials : Socials[i] \in led

\* Every step keeps LedInv.
LEMMA LedStep ==
    ASSUME Base, LedInv, [ANext]_avars
    PROVE  LedInv'
  <1>0. /\ backend' = backend /\ ladder' = ladder
        /\ led \subseteq led' /\ mishaps \subseteq mishaps'
    BY GroupKinds DEF Aside, Begins, Ends, Stops, Removed, AdvertiserReturns, fixedVars, GroupAppears, BringUpStep,
       ConfigFails, ConfigDone, StaleRemoved, AddAccepted, AddRejected, AddAborts, SeesNewGroup,
       SeesAnyGroup, WaitTimesOut, Verified, AcceptedUnread, WrongBand, Leads
  <1>. SUFFICES ASSUME backend = "cli", Head(ladder) # Five, "aborted" \notin mishaps'
                PROVE  LedInv'
    BY <1>0 DEF LedInv
  <1>00. /\ \A i \in DOMAIN Socials : i <= offset => Socials[i] \in led
         /\ Current \/ bring \in {"off", "config"} \/ (bring = "add" /\ rung = 1)
         /\ Current \/ bring # "off" \/ (~since /\ Silent(events))
         /\ prompted => \A i \in DOMAIN Socials : Socials[i] \in led
    BY <1>0 DEF LedInv
  <1>000. /\ offset \in Nat /\ Len(Socials) \in Nat /\ DOMAIN Socials = 1 .. Len(Socials)
          /\ ladder \in {Detect(TRUE), Detect(FALSE)} /\ LoopInv
    BY LadderAssumption, LenProperties DEF Base, ATypeOK, GTypeOK
  <1>1. CASE BringUpStep /\ loop \in Busy /\ UNCHANGED appVars
    <2>1. offset' = offset /\ prompted' = prompted /\ bring' # "off"
      BY <1>1 DEF appVars, userVars, BringUpStep, ConfigFails, ConfigDone, StaleRemoved, AddAccepted, AddRejected,
                  AddAborts, SeesNewGroup, SeesAnyGroup, WaitTimesOut, Verified, AcceptedUnread, WrongBand,
                  NextRung, Fails
    <2>2. ASSUME bring = "add" /\ rung = 1 /\ Leads
          PROVE  Current'
      <3>1. offset < Len(Socials) => Here = Socials[offset + 1]
        BY <1>000, <2>2, SocialLeads DEF Here
      <3>. QED
        BY <2>1, <2>2, <3>1 DEF Leads, Current
    <2>3. Current => Current'
      BY <1>0, <2>1 DEF Current
    <2>4. Current' \/ bring' = "config" \/ (bring' = "add" /\ rung' = 1)
      <3>1. CASE ConfigFails
        BY <3>1 DEF ConfigFails
      <3>2. CASE ConfigDone \/ StaleRemoved
        BY <3>2 DEF ConfigDone, StaleRemoved
      <3>3. CASE AddAccepted \/ AddRejected \/ AddAborts
        BY <1>00, <2>2, <2>3, <3>3 DEF AddAccepted, AddRejected, AddAborts
      <3>4. CASE bring \in {"wait", "verify"}
        BY <1>00, <2>3, <3>4
      <3>5. SeesNewGroup \/ SeesAnyGroup \/ WaitTimesOut \/ Verified \/ AcceptedUnread \/ WrongBand
            => bring \in {"wait", "verify"}
        BY DEF SeesNewGroup, SeesAnyGroup, WaitTimesOut, Verified, AcceptedUnread, WrongBand
      <3>. QED
        BY <1>1, <3>1, <3>2, <3>3, <3>4, <3>5 DEF BringUpStep
    <2>. QED
      BY <1>0, <1>00, <2>1, <2>4 DEF LedInv
  <1>2. CASE (\E g \in pending : GroupAppears(g)) /\ UNCHANGED appVars
    BY <1>00, <1>2 DEF GroupAppears, callVars, appVars, watchVars, userVars, LedInv, Current
  <1>3. CASE AdvertiserReturns
    <2>1. Current
      BY <1>00, <1>3 DEF AdvertiserReturns
    <2>. QED
      BY <1>00, <1>3, <2>1 DEF AdvertiserReturns, userVars, LedInv, Current
  <1>4. CASE WatchdogRotates \/ WatchdogPrompts
    <2>1. Current
      BY <1>00, <1>000, <1>4 DEF WatchdogRotates, WatchdogPrompts, WatchdogArmed, LoopInv, Busy
    <2>2. offset' = offset + 1 /\ led' = led
      BY <1>4 DEF WatchdogRotates, WatchdogPrompts, RotateDiscoveryChannel
    <2>3. \A i \in DOMAIN Socials : i <= offset + 1 => Socials[i] \in led
      BY <1>00, <1>000, <2>1 DEF Current
    <2>4. CASE WatchdogRotates
      <3>1. bring' = "config" /\ prompted' = prompted
        BY <2>4 DEF WatchdogRotates, userVars
      <3>. QED
        BY <1>00, <2>2, <2>3, <3>1 DEF LedInv
    <2>5. CASE WatchdogPrompts
      <3>1. offset + 1 >= Len(Socials) /\ bring' = "off"
        BY <1>000, <2>5 DEF WatchdogPrompts, RungLeft, RotateDiscoveryChannel, LoopInv, Busy, callVars
      <3>2. \A i \in DOMAIN Socials : Socials[i] \in led
        BY <1>000, <2>3, <3>1
      <3>3. Current'
        BY <1>000, <2>2, <3>1 DEF Current
      <3>. QED
        BY <2>2, <3>2, <3>3, <3>1 DEF LedInv
    <2>. QED
      BY <1>4, <2>4, <2>5
  <1>5. CASE (Aside \/ Begins \/ Ends) /\ ~(WatchdogRotates \/ WatchdogPrompts) /\ ~AdvertiserReturns
    <2>1. led' = led /\ bring' \in {bring, "config"} /\ (bring' = bring => rung' = rung)
      BY <1>5 DEF Aside, Begins, Ends, Stops, callVars
    <2>2. offset' = offset /\ prompted' = prompted /\ (since' => since \/ HandleAdvertisingStarted)
      <3>1. CASE FirstStart \/ DrainEnds \/ WatchdogPasses \/ RefreshPin \/ Shutdown \/ SwitchInterface
        BY <3>1 DEF FirstStart, DrainEnds, WatchdogPasses, RefreshPin, Shutdown, SwitchInterface,
                    ladderVars, watchVars, userVars
      <3>2. CASE HandleEvent
        BY <3>2 DEF HandleEvent, HandleAdvertisingStarted, HandleConnectionReceived, HandleConnectionError,
                    HandleStreamStopped, HandleStreamError, Takes, ladderVars, watchVars, userVars
      <3>3. CASE Threads
        BY <3>3 DEF Threads, SourceJoins, SourceUnseen, HandlerEnds, LeaseEnds, SessionStops, SessionFails, ArmFails,
                    ladderVars, watchVars, userVars
      <3>4. CASE UNCHANGED avars \/ UNCHANGED appVars
        BY <1>5, <3>4, GroupKinds DEF avars, ladderVars, appVars, watchVars, userVars, Aside, Begins, Ends, Busy
      <3>. QED
        BY <1>5, <3>1, <3>2, <3>3, <3>4 DEF ANext, MainLoop, User, BringUp, Appears
    <2>3. HandleAdvertisingStarted => ~Silent(events)
      <3>1. ASSUME HandleAdvertisingStarted
            PROVE  ~Silent(events)
        <4>1. events \in Seq(AppEvent) /\ events # <<>> /\ Head(events).type = "AdvertisingStarted"
          BY <3>1 DEF HandleAdvertisingStarted, Takes, Base, ATypeOK
        <4>2. 1 \in DOMAIN events /\ Head(events) = events[1]
          BY <4>1, EmptySeq, LenProperties
        <4>. QED
          BY <4>1, <4>2 DEF Silent, Announcement
      <3>. QED
        BY <3>1
    <2>4. Silent(events) => Silent(events')
      BY <1>5, <2>3, MetStep
    <2>5. Current' <=> Current
      BY <2>1, <2>2 DEF Current
    <2>. QED
      BY <1>00, <2>1, <2>2, <2>3, <2>4, <2>5 DEF LedInv
  <1>. QED
    BY <1>1, <1>2, <1>3, <1>4, <1>5, GroupKinds

\* The user is told that all channels were tried only when each of the social channels
\* had its turn to lead a bring-up, whatever the rungs before it did, whenever the
\* interface was switched and whichever bring-ups failed (rotate_discovery_channel,
\* check_discovery_watchdog).  As PromptAfterAll has it: of the wpa_cli backend, of a
\* ladder without a 5 GHz rung, and unless a bring-up was aborted by an error.
THEOREM PromptComesLast == ASpec => []PromptAfterAll
  <1>1. AInit => LedInv
    BY LadderAssumption, LenProperties DEF AInit, GInit, LedInv, Silent
  <1>2. Base /\ LedInv /\ [ANext]_avars => LedInv'
    BY LedStep
  <1>3. LedInv => PromptAfterAll
    BY DEF LedInv, PromptAfterAll
  <1>. QED
    BY <1>1, <1>2, <1>3, BaseAlways, PTL DEF ASpec

-------------------------------------------------------------------------------
(* The session records. *)

StopEvents == {e \in AppEvent : e.type = "StreamStopped"}
ErrorEvents == {e \in AppEvent : e.type = "StreamError"}
StopsQueued == Count(events, StopEvents)
ErrorsQueued == Count(events, ErrorEvents)

\* What a record is owed for is a StreamStopped that is queued, or the session that is
\* on; while the receiver receives, its thread is there or an error is queued; before
\* the first session there is none of it.
RecordInv ==
    /\ owed <= StopsQueued + (IF running THEN 1 ELSE 0)
    /\ ~running => thread = NoGroup
    /\ running => thread # NoGroup \/ ErrorsQueued > 0
    /\ ~known => ~running /\ owed <= 0 /\ StopsQueued = 0 /\ ErrorsQueued = 0

\* The numbers of queued events are natural.
LEMMA QueuedType ==
    ASSUME NEW s \in Seq(AppEvent)
    PROVE  Count(s, StopEvents) \in Nat /\ Count(s, ErrorEvents) \in Nat
  BY CountType

\* What sending an event adds to the two numbers.
LEMMA QueuedSent ==
    ASSUME NEW s \in Seq(AppEvent), NEW e \in AppEvent
    PROVE  /\ Count(Append(s, e), StopEvents)
                 = Count(s, StopEvents) + (IF e.type = "StreamStopped" THEN 1 ELSE 0)
           /\ Count(Append(s, e), ErrorEvents)
                 = Count(s, ErrorEvents) + (IF e.type = "StreamError" THEN 1 ELSE 0)
  <1>1. /\ e \in StopEvents <=> e.type = "StreamStopped"
        /\ e \in ErrorEvents <=> e.type = "StreamError"
    BY DEF StopEvents, ErrorEvents
  <1>2. Count(Append(s, e), StopEvents)
           = Count(s, StopEvents) + (IF e \in StopEvents THEN 1 ELSE 0)
    BY CountAppend
  <1>3. Count(Append(s, e), ErrorEvents)
           = Count(s, ErrorEvents) + (IF e \in ErrorEvents THEN 1 ELSE 0)
    BY CountAppend
  <1>. QED
    BY <1>1, <1>2, <1>3

\* What taking an event takes off them.
LEMMA QueuedTaken ==
    ASSUME NEW s \in Seq(AppEvent), s # <<>>
    PROVE  /\ Count(s, StopEvents)
                 = Count(Tail(s), StopEvents)
                      + (IF Head(s).type = "StreamStopped" THEN 1 ELSE 0)
           /\ Count(s, ErrorEvents)
                 = Count(Tail(s), ErrorEvents)
                      + (IF Head(s).type = "StreamError" THEN 1 ELSE 0)
  <1>0. Head(s) \in AppEvent
    BY HeadTailProperties
  <1>1. /\ Head(s) \in StopEvents <=> Head(s).type = "StreamStopped"
        /\ Head(s) \in ErrorEvents <=> Head(s).type = "StreamError"
    BY <1>0 DEF StopEvents, ErrorEvents
  <1>2. Count(s, StopEvents)
           = Count(Tail(s), StopEvents) + (IF Head(s) \in StopEvents THEN 1 ELSE 0)
    BY CountTail
  <1>3. Count(s, ErrorEvents)
           = Count(Tail(s), ErrorEvents) + (IF Head(s) \in ErrorEvents THEN 1 ELSE 0)
    BY CountTail
  <1>. QED
    BY <1>1, <1>2, <1>3

\* A step that leaves the receiver alone and sends or takes no event of a session.
LEMMA RecordAside ==
    ASSUME Base, RecordInv, UNCHANGED rxVars,
           StopsQueued' = StopsQueued, ErrorsQueued' = ErrorsQueued
    PROVE  RecordInv'
  BY DEF RecordInv, rxVars

\* The steps that leave the channel and the receiver alone.
LEMMA RecordStill ==
    ASSUME Base, RecordInv, UNCHANGED <<events, rxVars>>
    PROVE  RecordInv'
  <1>1. StopsQueued' = StopsQueued /\ ErrorsQueued' = ErrorsQueued
    BY DEF StopsQueued, ErrorsQueued
  <1>. QED
    BY <1>1, RecordAside

\* An event about no session is sent, or taken.
LEMMA RecordOther ==
    ASSUME Base, RecordInv, UNCHANGED rxVars,
           \/ \E e \in AppEvent : ~Terminal(e) /\ events' = Append(events, e)
           \/ events # <<>> /\ ~Terminal(Head(events)) /\ events' = Tail(events)
    PROVE  RecordInv'
  <1>0. events \in Seq(AppEvent)
    BY DEF Base, ATypeOK
  <1>1. CASE \E e \in AppEvent : ~Terminal(e) /\ events' = Append(events, e)
    <2>1. PICK e \in AppEvent : ~Terminal(e) /\ events' = Append(events, e)
      BY <1>1
    <2>2. e.type # "StreamStopped" /\ e.type # "StreamError"
      BY <2>1 DEF Terminal
    <2>3. StopsQueued' = StopsQueued /\ ErrorsQueued' = ErrorsQueued
      BY <1>0, <2>1, <2>2, QueuedSent, QueuedType DEF StopsQueued, ErrorsQueued
    <2>. QED
      BY <2>3, RecordAside
  <1>2. CASE events # <<>> /\ ~Terminal(Head(events)) /\ events' = Tail(events)
    <2>1. Head(events).type # "StreamStopped" /\ Head(events).type # "StreamError"
      BY <1>2 DEF Terminal
    <2>2. Tail(events) \in Seq(AppEvent)
      BY <1>0, <1>2, HeadTailProperties
    <2>. DEFINE rest == Tail(events)
    <2>3. /\ Count(rest, StopEvents) \in Nat /\ Count(rest, ErrorEvents) \in Nat
          /\ events' = rest
      BY <1>2, <2>2, QueuedType
    <2>4. /\ Count(events, StopEvents) = Count(rest, StopEvents) + 0
          /\ Count(events, ErrorEvents) = Count(rest, ErrorEvents) + 0
      BY <1>0, <1>2, <2>1, QueuedTaken
    <2>. HIDE DEF rest
    <2>5. StopsQueued' = StopsQueued /\ ErrorsQueued' = ErrorsQueued
      BY <2>3, <2>4 DEF StopsQueued, ErrorsQueued
    <2>. QED
      BY <2>5, RecordAside
  <1>. QED
    BY <1>1, <1>2

\* A connection starts a session unless one is on.
LEMMA RecordConnection ==
    ASSUME Base, RecordInv, HandleConnectionReceived
    PROVE  RecordInv'
  <1>0. /\ events \in Seq(AppEvent) /\ events # <<>> /\ events' = Tail(events)
        /\ Head(events).type = "ConnectionReceived" /\ owed \in Nat
        /\ Head(events).group \in Group
    BY Events DEF Base, ATypeOK, HandleConnectionReceived, Takes
  <1>1. CASE running
    BY <1>0, <1>1, RecordOther DEF HandleConnectionReceived, Terminal
  <1>2. CASE ~running
    <2>1. /\ running' = TRUE /\ thread' = Head(events).group
          /\ known' = TRUE /\ owed' = owed + 1
      BY <1>2 DEF HandleConnectionReceived
    <2>2. thread' # NoGroup
      BY <1>0, <2>1, NoGroupIsNone
    <2>3. StopsQueued' = StopsQueued /\ StopsQueued \in Nat
      <3>. DEFINE rest == Tail(events)
      <3>1. Count(rest, StopEvents) \in Nat /\ events' = rest
        BY <1>0, HeadTailProperties, QueuedType
      <3>2. Count(events, StopEvents) = Count(rest, StopEvents) + 0
        BY <1>0, QueuedTaken
      <3>. HIDE DEF rest
      <3>. QED
        BY <3>1, <3>2 DEF StopsQueued
    <2>. QED
      BY <1>0, <1>2, <2>1, <2>2, <2>3 DEF RecordInv
  <1>. QED
    BY <1>1, <1>2

\* The session thread ends the session, or an error is reported.
LEMMA RecordThread ==
    ASSUME Base, RecordInv, SessionStops \/ SessionFails
    PROVE  RecordInv'
  <1>0. /\ events \in Seq(AppEvent) /\ owed \in Nat
        /\ Event("StreamStopped", NoGroup) \in AppEvent
        /\ Event("StreamError", NoGroup) \in AppEvent
        /\ StopsQueued \in Nat /\ ErrorsQueued \in Nat
    BY Events, QueuedType DEF Base, ATypeOK, StopsQueued, ErrorsQueued
  <1>1. CASE SessionStops
    <2>1. StopsQueued' = StopsQueued + 1 /\ ErrorsQueued' = ErrorsQueued
      BY <1>0, <1>1, QueuedSent DEF SessionStops, Send, Event, StopsQueued, ErrorsQueued
    <2>2. running /\ known
      BY <1>1 DEF RecordInv, SessionStops
    <2>. QED
      BY <1>0, <1>1, <2>1, <2>2 DEF RecordInv, SessionStops
  <1>2. CASE SessionFails
    <2>1. StopsQueued' = StopsQueued /\ ErrorsQueued' = ErrorsQueued + 1
      BY <1>0, <1>2, QueuedSent DEF SessionFails, Send, Event, StopsQueued, ErrorsQueued
    <2>2. running /\ known
      BY <1>2 DEF RecordInv, SessionFails
    <2>. QED
      BY <1>0, <1>2, <2>1, <2>2 DEF RecordInv, SessionFails
  <1>. QED
    BY <1>1, <1>2

\* stop_receiving ends what is on, and its statistics are recorded at once.
LEMMA RecordStops ==
    ASSUME Base, RecordInv, NEW queued \in Seq(AppEvent), StopReceiving(queued),
           Count(queued, StopEvents) = StopsQueued, owed' = Recorded, known' = known, known
    PROVE  RecordInv'
  <1>0. /\ events \in Seq(AppEvent) /\ owed \in Nat
        /\ Event("StreamStopped", NoGroup) \in AppEvent
        /\ StopsQueued \in Nat
    BY Events, QueuedType DEF Base, ATypeOK, StopsQueued
  <1>1. StopsQueued' \in {StopsQueued, StopsQueued + 1}
    BY <1>0, QueuedSent DEF StopReceiving, Event, StopsQueued
  <1>2. owed <= StopsQueued + 1
    BY <1>0 DEF RecordInv
  <1>3. running' = FALSE /\ thread' = NoGroup /\ known'
    BY DEF StopReceiving
  <1>4. PICK n \in Nat : n = StopsQueued'
    BY <1>0, <1>1
  <1>5. PICK k \in Nat : k = StopsQueued
    BY <1>0
  <1>6. n \in {k, k + 1} /\ owed <= k + 1
    BY <1>1, <1>2, <1>4, <1>5
  <1>7. owed' <= n + 0
    BY <1>0, <1>6 DEF Recorded
  <1>. QED
    BY <1>3, <1>4, <1>7 DEF RecordInv

\* StreamStopped and StreamError are handled; each leaves a record.
LEMMA RecordHeard ==
    ASSUME Base, RecordInv, HandleStreamStopped \/ HandleStreamError
    PROVE  RecordInv'
  <1>0. /\ events \in Seq(AppEvent) /\ events # <<>> /\ owed \in Nat
        /\ Tail(events) \in Seq(AppEvent)
        /\ StopsQueued \in Nat /\ ErrorsQueued \in Nat
        /\ Count(Tail(events), StopEvents) \in Nat /\ Count(Tail(events), ErrorEvents) \in Nat
    BY QueuedType, HeadTailProperties
       DEF Base, ATypeOK, HandleStreamStopped, HandleStreamError, Takes, StopsQueued, ErrorsQueued
  <1>1. CASE HandleStreamStopped
    <2>1. PICK n \in Nat : n = StopsQueued'
      BY <1>0, <1>1 DEF HandleStreamStopped, StopsQueued
    <2>2. StopsQueued = n + 1 /\ ErrorsQueued' = ErrorsQueued
      BY <1>0, <1>1, <2>1, QueuedTaken DEF HandleStreamStopped, Takes, StopsQueued, ErrorsQueued
    <2>3. known
      <3>1. StopsQueued # 0
        BY <2>2
      <3>. QED
        BY <3>1 DEF RecordInv
    <2>4. UNCHANGED <<running, thread, known>> /\ owed' = Recorded
      BY <1>1, <2>3 DEF HandleStreamStopped
    <2>5. owed' <= n + (IF running' THEN 1 ELSE 0)
      BY <1>0, <2>2, <2>4 DEF RecordInv, Recorded
    <2>. QED
      BY <2>1, <2>2, <2>3, <2>4, <2>5 DEF RecordInv
  <1>2. CASE HandleStreamError
    <2>1. /\ Count(Tail(events), StopEvents) = StopsQueued
          /\ ErrorsQueued = Count(Tail(events), ErrorEvents) + 1
      BY <1>0, <1>2, QueuedTaken DEF HandleStreamError, Takes, StopsQueued, ErrorsQueued
    <2>2. known
      BY <1>0, <2>1 DEF RecordInv
    <2>. QED
      BY <1>0, <1>2, <2>1, <2>2, RecordStops DEF HandleStreamError
  <1>. QED
    BY <1>1, <1>2

\* Every step keeps RecordInv.
LEMMA RecordStep ==
    ASSUME Base, RecordInv, [ANext]_avars
    PROVE  RecordInv'
  <1>0. events \in Seq(AppEvent) /\ (bring = "up" => cand \in Group)
        /\ joining \subseteq Group
    BY DEF Base, ATypeOK, LoopInv, GTypeOK
  <1>1. CASE UNCHANGED avars \/ UNCHANGED appVars \/ FirstStart \/ DrainEnds \/ WatchdogPasses
             \/ WatchdogRotates \/ WatchdogPrompts \/ SwitchInterface \/ RefreshPin
    BY <1>1, RecordStill
       DEF avars, appVars, FirstStart, DrainEnds, WatchdogPasses, WatchdogRotates,
           WatchdogPrompts, SwitchInterface, RefreshPin
  <1>2. CASE AdvertiserReturns
    <2>1. CASE bring = "up"
      <3>1. events' = Append(events, Event("AdvertisingStarted", cand))
        BY <1>2, <2>1 DEF AdvertiserReturns, Send
      <3>2. /\ Event("AdvertisingStarted", cand) \in AppEvent
            /\ ~Terminal(Event("AdvertisingStarted", cand))
        BY <1>0, <2>1, Events DEF Event, Terminal
      <3>3. UNCHANGED rxVars
        BY <1>2 DEF AdvertiserReturns
      <3>. QED
        BY <3>1, <3>2, <3>3, RecordOther
    <2>2. CASE bring # "up"
      BY <1>2, <2>2, RecordStill DEF AdvertiserReturns
    <2>. QED
      BY <2>1, <2>2
  <1>3. CASE HandleAdvertisingStarted \/ HandleConnectionError
    BY <1>3, RecordOther
       DEF HandleAdvertisingStarted, HandleConnectionError, Takes, Terminal
  <1>4. CASE HandleConnectionReceived
    BY <1>4, RecordConnection
  <1>5. CASE HandleStreamStopped \/ HandleStreamError
    BY <1>5, RecordHeard
  <1>6. CASE Threads
    <2>1. ASSUME NEW g \in listening, SourceJoins(g)
          PROVE  RecordInv'
      BY <2>1, RecordStill DEF SourceJoins
    <2>2. ASSUME NEW g \in joining, LeaseEnds(g)
          PROVE  RecordInv'
      <3>1. PICK e \in AppEvent :
               /\ events' = Append(events, e)
               /\ e \in {Event("ConnectionReceived", g), Event("ConnectionError", NoGroup)}
        BY <1>0, <2>2, Events DEF LeaseEnds, Send
      <3>2. ~Terminal(e)
        BY <3>1 DEF Event, Terminal
      <3>. QED
        BY <2>2, <3>1, <3>2, RecordOther DEF LeaseEnds
    <2>3. CASE SessionStops \/ SessionFails
      BY <2>3, RecordThread
    <2>4. CASE ArmFails
      <3>1. /\ Event("ConnectionError", NoGroup) \in AppEvent
            /\ ~Terminal(Event("ConnectionError", NoGroup))
        BY Events DEF Event, Terminal
      <3>. QED
        BY <2>4, <3>1, RecordOther DEF ArmFails, Send
    <2>5. CASE SourceUnseen
      BY <2>5, RecordStill DEF SourceUnseen
    <2>6. ASSUME NEW g \in listening, HandlerEnds(g)
          PROVE  RecordInv'
      <3>1. /\ Event("ConnectionError", NoGroup) \in AppEvent
            /\ ~Terminal(Event("ConnectionError", NoGroup))
        BY Events DEF Event, Terminal
      <3>2. CASE UNCHANGED events
        BY <2>6, <3>2, RecordStill DEF HandlerEnds
      <3>3. CASE Send("ConnectionError", NoGroup)
        BY <2>6, <3>1, <3>3, RecordOther DEF HandlerEnds, Send
      <3>. QED
        BY <2>6, <3>2, <3>3 DEF HandlerEnds
    <2>. QED
      BY <1>6, <2>1, <2>2, <2>3, <2>4, <2>5, <2>6 DEF Threads
  <1>7. CASE Shutdown
    <2>1. CASE running
      <3>1. StopReceiving(events) /\ owed' = Recorded /\ known' = known
        BY <1>7, <2>1 DEF Shutdown
      <3>2. known
        BY <2>1 DEF RecordInv
      <3>. QED
        BY <1>0, <3>1, <3>2, RecordStops DEF StopsQueued
    <2>2. CASE ~running
      BY <1>7, <2>2, RecordStill DEF Shutdown, rxVars
    <2>. QED
      BY <2>1, <2>2
  <1>. QED
    BY <1>1, <1>2, <1>3, <1>4, <1>5, <1>6, <1>7
       DEF ANext, MainLoop, User, BringUp, Appears, HandleEvent

\* In the GUI, too, no session ends without its record or an event that will write it,
\* whatever the order in which the threads report and sources connect (on_stream_stopped,
\* on_stream_error, handle_event).
THEOREM GuiRecordsSessions == ASpec => []EndedSessionsRecorded
  <1>1. AInit => RecordInv
    <2>. SUFFICES ASSUME AInit PROVE RecordInv
      OBVIOUS
    <2>1. events = <<>> /\ events \in Seq(AppEvent)
      BY EmptySeq DEF AInit
    <2>2. StopsQueued = 0 /\ ErrorsQueued = 0
      BY <2>1, CountType DEF StopsQueued, ErrorsQueued
    <2>. QED
      BY <2>2 DEF AInit, RecordInv
  <1>2. Base /\ RecordInv /\ [ANext]_avars => RecordInv'
    BY RecordStep
  <1>3. Base /\ RecordInv => EndedSessionsRecorded
    <2>. SUFFICES ASSUME Base, RecordInv PROVE EndedSessionsRecorded
      OBVIOUS
    <2>0. events \in Seq(AppEvent) /\ owed \in Nat
      BY DEF Base, ATypeOK
    <2>1. StopsQueued \in Nat /\ ErrorsQueued \in Nat
      BY <2>0, QueuedType DEF StopsQueued, ErrorsQueued
    <2>2. {i \in DOMAIN events : Terminal(events[i])}
             = Places(events, StopEvents \cup ErrorEvents)
      BY <2>0, ElementOfSeq, LenProperties DEF Places, StopEvents, ErrorEvents, Terminal
    <2>3. StopEvents \cap ErrorEvents = {}
      BY DEF StopEvents, ErrorEvents
    <2>4. Cardinality({i \in DOMAIN events : Terminal(events[i])})
             = StopsQueued + ErrorsQueued
      <3>1. Count(events, StopEvents \cup ErrorEvents) = StopsQueued + ErrorsQueued
        BY <2>0, <2>3, CountUnion DEF StopsQueued, ErrorsQueued
      <3>. QED
        BY <2>2, <3>1 DEF Count
    <2>5. owed <= StopsQueued + ErrorsQueued + (IF thread = NoGroup THEN 0 ELSE 1)
      BY <2>0, <2>1 DEF RecordInv
    <2>. QED
      BY <2>4, <2>5 DEF EndedSessionsRecorded
  <1>. QED
    BY <1>1, <1>2, <1>3, BaseAlways, PTL DEF ASpec
================================================================================
