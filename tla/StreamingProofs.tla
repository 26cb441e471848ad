--------------------------- MODULE StreamingProofs ---------------------------
(***************************************************************************)
(* The live URDF pipeline, for any number of episodes, queue capacity and  *)
(* pipe size: its types, the back-pressure on the source, the order in     *)
(* which the two children are gone before the call comes back, where every *)
(* episode is at every moment, and what a returned result stands for.      *)
(***************************************************************************)
EXTENDS Streaming, WellFoundedInduction, SequenceTheorems, TLAPS

\* The parent joins the source first: from the join of the URDF process on,
\* the source has ended; when the call comes back, so has the URDF process.
JoinedInOrder ==
    /\ parent = "joinUrdf" => ~SourceAlive
    /\ NoChildLeft

\* Until both children are started nothing has been sent, and the URDF process
\* can only wait at its queue or have died.
NothingBeforeStart ==
    parent \in {"startUrdf", "startSource"} =>
        /\ source = "unstarted" /\ sourcePipe = << >> /\ ~sourceDone
        /\ urdf \in {"unstarted", "get", "exited"}
        /\ readyQueue = << >> /\ backlog = << >>

\* The source announces the next of the episodes it was asked for.
AnnouncedWasAsked == source = "announce" => sourceAt < Len(EpisodeIds)

\* The renderer works on an episode, never on the sentinel.
RenderedIsEpisode == urdf \in {"start", "render", "record"} => urdfItem \in Items

IInv ==
    /\ TypeOK
    /\ AnnouncedWasAsked /\ RenderedIsEpisode
    /\ BackPressure /\ NothingBeforeStart /\ JoinedInOrder

LEMMA SourceMessages ==
    /\ \A k \in {"event", "result", "error"} : Message(k, None) \in SourceMessage
    /\ \A k \in {"ready", "unready"}, i \in Items : Message(k, i) \in SourceMessage
BY DEF Message, SourceMessage

LEMMA UrdfMessages ==
    /\ \A k \in {"result", "noresult", "error"} : Message(k, None) \in UrdfMessage
    /\ \A k \in {"event", "episode"}, i \in Items : Message(k, i) \in UrdfMessage
BY DEF Message, UrdfMessage

\* Only an announced episode reaches the backlog.
LEMMA ReadyCarriesEpisode ==
    ASSUME NEW m \in SourceMessage, m.kind = "ready"
    PROVE  m.item \in Items
BY DEF SourceMessage

LEMMA EpisodeItems == \A i \in DOMAIN EpisodeIds : Item(EpisodeIds[i]) \in Items
BY DEF Items, Episode

-----------------------------------------------------------------------------
LEMMA InitIInv == Init => IInv
<1>1. Len(EpisodeIds) \in Nat
  BY StreamingAssumption
<1>2. Init => IInv
  <2> SUFFICES ASSUME Init PROVE IInv
    OBVIOUS
  <2> USE DEF Init
  <2>1. TypeOK
    <3>1. \A S : << >> \in Seq(S)
      OBVIOUS
    <3>2. 0 \in 0..Len(EpisodeIds)
      BY <1>1
    <3>3. /\ sourcePipe \in Seq(SourceMessage) /\ urdfPipe \in Seq(UrdfMessage)
          /\ readyQueue \in Seq(Items \cup {None}) /\ backlog \in Seq(Items)
          /\ produced \in Seq(Items) /\ rendered \in Seq(Items)
      BY <3>1, Zenon
    <3> QED  BY <3>2, <3>3 DEF TypeOK
  <2>2. AnnouncedWasAsked /\ RenderedIsEpisode /\ BackPressure /\ NothingBeforeStart /\ JoinedInOrder
    BY DEF BackPressure, JoinedInOrder, NoChildLeft, AnnouncedWasAsked, RenderedIsEpisode,
       NothingBeforeStart, SourceAlive, UrdfAlive
  <2> QED  BY <2>1, <2>2 DEF IInv
<1> QED  BY <1>2

\* The source process touches neither the parent nor the backlog; it may end,
\* and never comes back.
LEMMA SourceKeepsIInv ==
    ASSUME IInv, SourceStep \/ SourceRaises \/ SourceDies
    PROVE  IInv'
<1> USE StreamingAssumption DEF IInv, TypeOK, Unguarded, urdfVars, parentVars, loopVars, BackPressure,
       JoinedInOrder, NoChildLeft, AnnouncedWasAsked, RenderedIsEpisode, NothingBeforeStart,
        SourceAlive, UrdfAlive
<1>1. CASE SourceStage
  <2>1. sourcePipe' \in Seq(SourceMessage)
    BY <1>1, SourceMessages DEF SourceStage, SourceSends
  <2> QED  BY <1>1, <2>1 DEF SourceStage, SourceSends
<1>2. CASE SourceAnnounces
  <2> DEFINE item == Item(EpisodeIds[sourceAt + 1])
  <2>1. item \in Items /\ sourceAt + 1 \in 0..Len(EpisodeIds)
    BY <1>2, EpisodeItems DEF SourceAnnounces
  <2>2. Message("ready", item) \in SourceMessage /\ Message("unready", item) \in SourceMessage
    BY <2>1, SourceMessages
  <2>3. sourcePipe' \in Seq(SourceMessage) /\ produced' \in Seq(Items)
    <3> HIDE DEF item
    <3>1. sourcePipe' \in {Append(sourcePipe, Message("ready", item)),
                          Append(sourcePipe, Message("unready", item))}
      BY <1>2 DEF SourceAnnounces, SourceSends, item
    <3>2. produced' \in {produced, Append(produced, item)}
      BY <1>2 DEF SourceAnnounces, item
    <3>3. /\ Append(sourcePipe, Message("ready", item)) \in Seq(SourceMessage)
          /\ Append(sourcePipe, Message("unready", item)) \in Seq(SourceMessage)
      BY <2>2
    <3>4. Append(produced, item) \in Seq(Items)
      BY <2>1
    <3> QED  BY <3>1, <3>2, <3>3, <3>4
  <2> QED  BY <1>2, <2>1, <2>3 DEF SourceAnnounces
<1>3. CASE SourceFinishes
  <2>1. sourcePipe' \in Seq(SourceMessage)
    BY <1>3, SourceMessages DEF SourceFinishes, SourceSends
  <2> QED  BY <1>3, <2>1 DEF SourceFinishes, SourceSends
<1>4. CASE SourceReportsError
  <2>1. sourcePipe' \in Seq(SourceMessage)
    BY <1>4, SourceMessages DEF SourceReportsError, SourceSends
  <2> QED  BY <1>4, <2>1 DEF SourceReportsError, SourceSends
<1>5. CASE SourceTerminated
  <2>1. source' \in {"error", "closing", source} /\ sigterm' = FALSE
    BY <1>5, Zenon DEF SourceTerminated
  <2>2. (source' = "announce" => source = "announce") /\ (source \in {"unstarted", "exited"} => source' = source)
    BY <1>5 DEF SourceTerminated
  <2>3. /\ UNCHANGED <<sourceAt, sourcePipe, produced, urdf, urdfItem, urdfPipe, rendered>>
        /\ UNCHANGED <<readyQueue, parent, backlog, sourceDone, sentinelSent, urdfResult, childError>>
        /\ UNCHANGED brokenOff
    BY <1>5 DEF SourceTerminated
  <2>4. source' \in {"unstarted", "stage", "announce", "error", "closing", "exited"}
    BY <2>1
  <2>5. TypeOK'
    <3>1. sigterm' \in BOOLEAN
      BY <2>1
    <3>2. sourceDone' \in BOOLEAN /\ sentinelSent' \in BOOLEAN /\ childError' \in BOOLEAN
      BY <2>3, Zenon
    <3> HIDE DEF Unguarded
    <3>3. brokenOff' \in Unguarded \cup {"no"}
      BY <2>3
    <3> QED  BY <2>3, <2>4, <3>1, <3>2, <3>3, ZenonT(60)
  <2> QED  BY <2>2, <2>3, <2>5
<1>6. CASE SourceExits
  BY <1>6 DEF SourceExits
<1>7. CASE SourceRaises
  BY <1>7 DEF SourceRaises
<1>8. CASE SourceDies
  BY <1>8 DEF SourceDies
<1> QED  BY <1>1, <1>2, <1>3, <1>4, <1>5, <1>6, <1>7, <1>8 DEF SourceStep

\* The URDF process touches neither the parent nor the source; it may end, and
\* never comes back.
LEMMA UrdfKeepsIInv ==
    ASSUME IInv, UrdfStep \/ UrdfRaises \/ UrdfDies
    PROVE  IInv'
<1> USE StreamingAssumption DEF IInv, TypeOK, Unguarded, sourceVars, parentVars, loopVars,
        BackPressure, JoinedInOrder, NoChildLeft, AnnouncedWasAsked, RenderedIsEpisode, NothingBeforeStart,
        SourceAlive, UrdfAlive
<1>1. CASE UrdfTakes
  BY <1>1 DEF UrdfTakes
<1>2. CASE UrdfStarts
  <2>1. urdfPipe' \in Seq(UrdfMessage)
    BY <1>2, UrdfMessages DEF UrdfStarts, UrdfSends
  <2> QED  BY <1>2, <2>1 DEF UrdfStarts, UrdfSends
<1>3. CASE UrdfRenders
  BY <1>3 DEF UrdfRenders
<1>4. CASE UrdfRecords
  <2>1. urdfPipe' \in Seq(UrdfMessage)
    BY <1>4, UrdfMessages DEF UrdfRecords, UrdfSends
  <2> QED  BY <1>4, <2>1 DEF UrdfRecords, UrdfSends
<1>5. CASE UrdfFinishes
  <2>1. urdfPipe' \in Seq(UrdfMessage)
    BY <1>5, UrdfMessages DEF UrdfFinishes, UrdfSends
  <2> QED  BY <1>5, <2>1 DEF UrdfFinishes, UrdfSends
<1>6. CASE UrdfReportsError
  <2>1. urdfPipe' \in Seq(UrdfMessage)
    BY <1>6, UrdfMessages DEF UrdfReportsError, UrdfSends
  <2> QED  BY <1>6, <2>1 DEF UrdfReportsError, UrdfSends
<1>7. CASE UrdfExits
  BY <1>7 DEF UrdfExits
<1>8. CASE UrdfRaises
  BY <1>8 DEF UrdfRaises
<1>9. CASE UrdfDies
  BY <1>9 DEF UrdfDies
<1> QED  BY <1>1, <1>2, <1>3, <1>4, <1>5, <1>6, <1>7, <1>8, <1>9 DEF UrdfStep

\* The parent fills its backlog only from the pipe of a living source whose
\* last episode it has passed on, or from what a dead one left; it goes on to
\* the next child only when the one it joins has ended.
LEMMA ParentKeepsIInv ==
    ASSUME IInv, ParentStep \/ StartFails \/ Interrupt \/ BreakOff
    PROVE  IInv'
<1> USE StreamingAssumption DEF IInv, TypeOK, Unguarded, sourceVars, urdfVars, loopVars, parentVars,
        BackPressure, JoinedInOrder, NoChildLeft, AnnouncedWasAsked, RenderedIsEpisode, NothingBeforeStart,
        SourceAlive, UrdfAlive
<1>1. CASE OfferReady
  <2>1. backlog # << >> /\ backlog' = Tail(backlog) /\ readyQueue' = Append(readyQueue, Head(backlog))
    BY <1>1 DEF OfferReady
  <2>2. Head(backlog) \in Items /\ backlog' \in Seq(Items) /\ Len(backlog') = Len(backlog) - 1
    BY <2>1
  <2>3. readyQueue' \in Seq(Items \cup {None})
    BY <2>1, <2>2
  <2> QED  BY <1>1, <2>2, <2>3 DEF OfferReady, Looping
<1>2. CASE ReceiveSource
  <2> DEFINE m == Head(sourcePipe)
  <2>1. m \in SourceMessage /\ sourcePipe' \in Seq(SourceMessage)
    BY <1>2 DEF ReceiveSource, MayReadSource
  <2>2. (m.kind = "ready" => m.item \in Items) /\ (SourceAlive => backlog = << >>)
    BY <1>2, <2>1, ReadyCarriesEpisode DEF ReceiveSource, MayReadSource
  <2>3. backlog' = IF m.kind = "ready" THEN Append(backlog, m.item) ELSE backlog
    BY <1>2 DEF ReceiveSource
  <2>4. backlog' \in Seq(Items) /\ (SourceAlive => Len(backlog') <= 1)
    <3> HIDE DEF m
    <3>1. CASE m.kind = "ready"
      BY <3>1, <2>2, <2>3
    <3>2. CASE m.kind # "ready"
      BY <3>2, <2>3
    <3> QED  BY <3>1, <3>2
  <2>5. sourceDone' \in BOOLEAN /\ childError' \in BOOLEAN
    BY <1>2, Zenon DEF ReceiveSource
  <2> QED  BY <1>2, <2>1, <2>4, <2>5 DEF ReceiveSource, Looping
<1>3. CASE ReceiveUrdf
  <2> DEFINE m == Head(urdfPipe)
  <2>1. urdfPipe' \in Seq(UrdfMessage)
    BY <1>3 DEF ReceiveUrdf
  <2>2. urdfResult' \in {"none", "result", "noresult"}
    BY <1>3 DEF ReceiveUrdf
  <2>3. childError' \in BOOLEAN
    BY <1>3, Zenon DEF ReceiveUrdf
  <2> QED  BY <1>3, <2>1, <2>2, <2>3 DEF ReceiveUrdf, Looping
<1>4. CASE SendSentinel
  BY <1>4 DEF SendSentinel, Looping
<1>5. CASE NoticeDeath
  BY <1>5 DEF NoticeDeath, Looping
<1>6. CASE LeaveLoop
  BY <1>6 DEF LeaveLoop, Looping
<1>7. CASE TerminateSource
  BY <1>7 DEF TerminateSource
<1>8. CASE SourceJoined
  BY <1>8 DEF SourceJoined
<1>9. CASE TerminateUrdf
  BY <1>9 DEF TerminateUrdf
<1>10. CASE UrdfJoined
  BY <1>10 DEF UrdfJoined
<1>11. CASE Interrupt
  <2>1. SourceAlive \in BOOLEAN
    BY DEF SourceAlive
  <2>2. sigterm' \in {sigterm, SourceAlive} /\ urdf' \in {urdf, "exited"} /\ childError' = TRUE
    BY <1>11 DEF Interrupt
  <2>3. sigterm' \in BOOLEAN /\ childError' \in BOOLEAN
    BY <2>1, <2>2, Zenon
  <2> QED  BY <1>11, <2>2, <2>3 DEF Interrupt, Looping
<1>12. CASE StartUrdf
  BY <1>12 DEF StartUrdf
<1>13. CASE StartSource
  BY <1>13 DEF StartSource
<1>14. CASE StartFails
  BY <1>14 DEF StartFails
<1>15. CASE CloseSends
  BY <1>15 DEF CloseSends
<1>16. CASE BreakOff
  BY <1>16 DEF BreakOff
<1> QED  BY <1>12, <1>13, <1>14, <1>15, <1>16, <1>1, <1>2, <1>3, <1>4, <1>5, <1>6, <1>7, <1>8, <1>9, <1>10, <1>11 DEF ParentStep

LEMMA StutterKeepsIInv == IInv /\ UNCHANGED vars => IInv'
BY DEF IInv, TypeOK, vars, sourceVars, urdfVars, loopVars, parentVars, BackPressure,
   JoinedInOrder, NoChildLeft, AnnouncedWasAsked, RenderedIsEpisode, NothingBeforeStart,
   SourceAlive, UrdfAlive

-----------------------------------------------------------------------------
\* The end of the stream.  A source that has sent its result announces nothing
\* more; pipes keep their order, so once the result is received no ready
\* episode is behind it.  The sentinel is sent once, after that.
NothingAfterResult ==
    /\ source \in {"stage", "announce"} =>
           ~sourceDone /\ \A i \in DOMAIN sourcePipe : sourcePipe[i].kind # "result"
    /\ sourceDone => \A i \in DOMAIN sourcePipe : sourcePipe[i].kind # "ready"
    /\ \A i, j \in DOMAIN sourcePipe :
           i < j /\ sourcePipe[i].kind = "result" => sourcePipe[j].kind # "ready"

SentinelClosesQueue ==
    /\ sentinelSent => sourceDone /\ backlog = << >>
    /\ \A i \in DOMAIN readyQueue :
           readyQueue[i] = None => sentinelSent /\ i = Len(readyQueue)

EndInv == NothingAfterResult /\ SentinelClosesQueue

LEMMA ItemIsNotNone == None \notin Items
BY DEF None, Items, Item

LEMMA EndInvImplies == IInv /\ EndInv => SentinelIsLast
BY DEF IInv, TypeOK, EndInv, NothingAfterResult, SentinelClosesQueue, SentinelIsLast

LEMMA InitEndInv == Init => EndInv
BY DEF Init, EndInv, NothingAfterResult, SentinelClosesQueue

\* Only a source that still has episodes to make sends ready messages, and its
\* result is the last thing it sends.
LEMMA SourceKeepsEndInv ==
    ASSUME IInv, EndInv, SourceStep \/ SourceRaises \/ SourceDies
    PROVE  EndInv'
<1>0. sourcePipe \in Seq(SourceMessage) /\ EndInv /\ NothingAfterResult
  BY DEF IInv, TypeOK, EndInv
<1>1. SentinelClosesQueue'
  <2>1. UNCHANGED <<readyQueue, backlog, sourceDone, sentinelSent>>
    BY DEF SourceStep, SourceStage, SourceAnnounces, SourceFinishes, SourceReportsError,
       SourceTerminated, SourceExits, SourceRaises, SourceDies, parentVars, loopVars
  <2> QED  BY <1>0, <2>1 DEF EndInv, SentinelClosesQueue
<1>2. ASSUME NEW k \in {"event", "ready", "unready", "error"}, NEW i \in Items \cup {None},
             source \in {"stage", "announce", "error"},
             source = "error" => k # "ready",
             source' \in {"stage", "announce"} => source \in {"stage", "announce"},
             sourcePipe' = Append(sourcePipe, Message(k, i)), UNCHANGED sourceDone
      PROVE  NothingAfterResult'
  <2> DEFINE m == Message(k, i)
  <2>1. m.kind = k
    BY DEF Message
  <2> HIDE DEF m
  <2>2. /\ DOMAIN sourcePipe = 1..Len(sourcePipe) /\ Len(sourcePipe) \in Nat
        /\ DOMAIN sourcePipe' = 1..(Len(sourcePipe) + 1)
        /\ \A n \in 1..Len(sourcePipe) : sourcePipe'[n] = sourcePipe[n]
        /\ sourcePipe'[Len(sourcePipe) + 1] = m
    BY <1>0, <1>2 DEF m
  <2>3. k = "ready" => \A n \in DOMAIN sourcePipe : ~sourceDone /\ sourcePipe[n].kind # "result"
    BY <1>0, <1>2 DEF NothingAfterResult
  <2>4. source' \in {"stage", "announce"} =>
            ~sourceDone' /\ \A n \in DOMAIN sourcePipe' : sourcePipe'[n].kind # "result"
    BY <1>0, <1>2, <2>1, <2>2 DEF NothingAfterResult
  <2>5. sourceDone' => \A n \in DOMAIN sourcePipe' : sourcePipe'[n].kind # "ready"
    BY <1>0, <1>2, <2>1, <2>2 DEF NothingAfterResult
  <2>6. \A a, b \in DOMAIN sourcePipe' :
            a < b /\ sourcePipe'[a].kind = "result" => sourcePipe'[b].kind # "ready"
    <3> SUFFICES ASSUME NEW a \in DOMAIN sourcePipe', NEW b \in DOMAIN sourcePipe',
                        a < b, sourcePipe'[a].kind = "result"
                 PROVE  sourcePipe'[b].kind # "ready"
      OBVIOUS
    <3>1. a \in DOMAIN sourcePipe /\ sourcePipe[a].kind = "result"
      BY <2>2
    <3>2. CASE b = Len(sourcePipe) + 1
      <4>1. k # "ready"
        BY <2>3, <3>1
      <4>2. sourcePipe'[b] = m
        BY <2>2, <3>2
      <4> QED  BY <2>1, <4>1, <4>2
    <3>3. CASE b # Len(sourcePipe) + 1
      BY <1>0, <2>2, <3>1, <3>3 DEF NothingAfterResult
    <3> QED  BY <3>2, <3>3
  <2> QED  BY <2>4, <2>5, <2>6 DEF NothingAfterResult
<1>3. CASE SourceStage
  <2>1. source = "stage" /\ sourcePipe' = Append(sourcePipe, Message("event", None)) /\ UNCHANGED sourceDone
    BY <1>3 DEF SourceStage, SourceSends, parentVars, loopVars
  <2> QED  BY <1>1, <1>2, <2>1 DEF EndInv
<1>4. CASE SourceAnnounces
  <2> DEFINE item == Item(EpisodeIds[sourceAt + 1])
  <2>1. item \in Items
    BY <1>4, EpisodeItems, StreamingAssumption DEF SourceAnnounces, IInv, TypeOK, AnnouncedWasAsked
  <2>2. sourcePipe' = Append(sourcePipe, Message("ready", item))
        \/ sourcePipe' = Append(sourcePipe, Message("unready", item))
    BY <1>4 DEF SourceAnnounces, SourceSends
  <2>3. source = "announce" /\ UNCHANGED sourceDone
    BY <1>4 DEF SourceAnnounces, parentVars, loopVars
  <2> HIDE DEF item
  <2> QED  BY <1>1, <1>2, <2>1, <2>2, <2>3 DEF EndInv
<1>5. CASE SourceReportsError
  <2>1. /\ source = "error" /\ source' = "closing"
        /\ sourcePipe' = Append(sourcePipe, Message("error", None)) /\ UNCHANGED sourceDone
    BY <1>5 DEF SourceReportsError, SourceSends, parentVars, loopVars
  <2> QED  BY <1>1, <1>2, <2>1 DEF EndInv
<1>6. CASE SourceFinishes
  <2>1. sourcePipe' = Append(sourcePipe, Message("result", None)) /\ source = "stage"
        /\ source' = "closing" /\ UNCHANGED sourceDone
    BY <1>6 DEF SourceFinishes, SourceSends, parentVars, loopVars
  <2>2. ~sourceDone /\ \A n \in DOMAIN sourcePipe : sourcePipe[n].kind # "result"
    BY <1>0, <2>1 DEF NothingAfterResult
  <2>3. Message("result", None).kind = "result"
    BY DEF Message
  <2>4. /\ DOMAIN sourcePipe = 1..Len(sourcePipe) /\ Len(sourcePipe) \in Nat
        /\ DOMAIN sourcePipe' = 1..(Len(sourcePipe) + 1)
        /\ \A n \in 1..Len(sourcePipe) : sourcePipe'[n] = sourcePipe[n]
    BY <1>0, <2>1
  <2> QED  BY <1>1, <2>1, <2>2, <2>3, <2>4 DEF EndInv, NothingAfterResult
<1>7. CASE SourceTerminated \/ SourceExits \/ SourceRaises \/ SourceDies
  <2>1. UNCHANGED <<sourcePipe, sourceDone>>
    BY <1>7 DEF SourceTerminated, SourceExits, SourceRaises, SourceDies, parentVars, loopVars
  <2>2. source' \in {"stage", "announce"} => source \in {"stage", "announce"}
    BY <1>7 DEF SourceTerminated, SourceExits, SourceRaises, SourceDies
  <2> QED  BY <1>0, <1>1, <2>1, <2>2 DEF EndInv, NothingAfterResult
<1> QED  BY <1>3, <1>4, <1>5, <1>6, <1>7 DEF SourceStep

\* The URDF process only takes from the front of the queue.
LEMMA UrdfKeepsEndInv ==
    ASSUME IInv, EndInv, UrdfStep \/ UrdfRaises \/ UrdfDies
    PROVE  EndInv'
<1>1. readyQueue \in Seq(Items \cup {None})
  BY DEF IInv, TypeOK
<1>2. UNCHANGED <<source, sourcePipe, sourceDone, sentinelSent, backlog>>
  BY DEF UrdfStep, UrdfTakes, UrdfStarts, UrdfRenders, UrdfRecords, UrdfFinishes,
     UrdfReportsError, UrdfExits, UrdfRaises, UrdfDies, sourceVars, parentVars, loopVars
<1>3. readyQueue' = readyQueue \/ (readyQueue # << >> /\ readyQueue' = Tail(readyQueue))
  BY DEF UrdfStep, UrdfTakes, UrdfStarts, UrdfRenders, UrdfRecords, UrdfFinishes,
     UrdfReportsError, UrdfExits, UrdfRaises, UrdfDies
<1>4. SentinelClosesQueue'
  <2>1. CASE readyQueue' = readyQueue
    BY <1>2, <2>1 DEF EndInv, SentinelClosesQueue
  <2>2. CASE readyQueue # << >> /\ readyQueue' = Tail(readyQueue)
    BY <1>1, <1>2, <2>2 DEF EndInv, SentinelClosesQueue
  <2> QED  BY <1>3, <2>1, <2>2
<1> QED  BY <1>2, <1>4 DEF EndInv, NothingAfterResult

\* The parent receives in order, offers only episodes, and sends the sentinel
\* once, with the result in hand and the backlog empty.
LEMMA ParentKeepsEndInv ==
    ASSUME IInv, EndInv, ParentStep \/ StartFails \/ Interrupt \/ BreakOff
    PROVE  EndInv'
<1>0. /\ sourcePipe \in Seq(SourceMessage) /\ readyQueue \in Seq(Items \cup {None})
      /\ backlog \in Seq(Items)
  BY DEF IInv, TypeOK
<1>1. CASE OfferReady
  <2>1. /\ backlog # << >> /\ readyQueue' = Append(readyQueue, Head(backlog))
        /\ UNCHANGED <<source, sourcePipe, sourceDone, sentinelSent>>
    BY <1>1 DEF OfferReady, sourceVars
  <2>2. ~sentinelSent /\ Head(backlog) # None
    BY <1>0, <2>1, ItemIsNotNone DEF EndInv, SentinelClosesQueue
  <2>3. SentinelClosesQueue'
    BY <1>0, <2>1, <2>2 DEF EndInv, SentinelClosesQueue
  <2> QED  BY <2>1, <2>3 DEF EndInv, NothingAfterResult
<1>2. CASE ReceiveSource
  <2> DEFINE m == Head(sourcePipe)
  <2>1. /\ sourcePipe # << >> /\ sourcePipe' = Tail(sourcePipe)
        /\ backlog' = IF m.kind = "ready" THEN Append(backlog, m.item) ELSE backlog
        /\ UNCHANGED <<source, readyQueue, sentinelSent>>
    BY <1>2 DEF ReceiveSource, MayReadSource
  <2>2. sourceDone' <=> (sourceDone \/ m.kind = "result")
    BY <1>2, Zenon DEF ReceiveSource
  <2>3. /\ 1 \in DOMAIN sourcePipe /\ m = sourcePipe[1]
        /\ \A n \in DOMAIN sourcePipe' : n + 1 \in DOMAIN sourcePipe /\ sourcePipe'[n] = sourcePipe[n + 1]
        /\ \A n \in DOMAIN sourcePipe' : n \in Nat /\ 1 < n + 1
    BY <1>0, <2>1
  <2> HIDE DEF m
  <2>4. source \in {"stage", "announce"} =>
            ~sourceDone' /\ \A n \in DOMAIN sourcePipe' : sourcePipe'[n].kind # "result"
    BY <2>2, <2>3 DEF EndInv, NothingAfterResult
  <2>5. sourceDone' => \A n \in DOMAIN sourcePipe' : sourcePipe'[n].kind # "ready"
    BY <2>2, <2>3 DEF EndInv, NothingAfterResult
  <2>6. \A i, j \in DOMAIN sourcePipe' :
            i < j /\ sourcePipe'[i].kind = "result" => sourcePipe'[j].kind # "ready"
    BY <2>3 DEF EndInv, NothingAfterResult
  <2>7. NothingAfterResult'
    BY <2>1, <2>4, <2>5, <2>6 DEF NothingAfterResult
  <2>8. sentinelSent => sourceDone' /\ backlog' = << >>
    BY <2>1, <2>2, <2>3 DEF EndInv, NothingAfterResult, SentinelClosesQueue
  <2> QED  BY <2>1, <2>7, <2>8 DEF EndInv, SentinelClosesQueue
<1>3. CASE SendSentinel
  <2>1. /\ sourceDone /\ backlog = << >> /\ ~sentinelSent /\ sentinelSent' = TRUE
        /\ readyQueue' = Append(readyQueue, None)
        /\ UNCHANGED <<source, sourcePipe, sourceDone, backlog>>
    BY <1>3 DEF SendSentinel, sourceVars
  <2>2. SentinelClosesQueue'
    BY <1>0, <2>1 DEF EndInv, SentinelClosesQueue
  <2> QED  BY <2>1, <2>2 DEF EndInv, NothingAfterResult
<1>4. CASE StartSource
  <2>1. /\ ~sourceDone /\ sourcePipe = << >>
        /\ UNCHANGED <<sourcePipe, sourceDone, sentinelSent, backlog, readyQueue>>
    BY <1>4 DEF StartSource, IInv, NothingBeforeStart, urdfVars, loopVars
  <2> QED  BY <2>1 DEF EndInv, NothingAfterResult, SentinelClosesQueue
<1>5. CASE (ParentStep /\ ~StartSource /\ ~OfferReady /\ ~ReceiveSource /\ ~SendSentinel)
           \/ StartFails \/ Interrupt \/ BreakOff
  <2>1. UNCHANGED <<source, sourcePipe, sourceDone, sentinelSent, backlog, readyQueue>>
    BY <1>5 DEF ParentStep, StartUrdf, CloseSends, BreakOff, StartFails, ReceiveUrdf, NoticeDeath, LeaveLoop, TerminateSource, SourceJoined,
       TerminateUrdf, UrdfJoined, Interrupt, sourceVars, urdfVars, parentVars, loopVars
  <2> QED  BY <2>1 DEF EndInv, NothingAfterResult, SentinelClosesQueue
<1> QED  BY <1>1, <1>2, <1>3, <1>4, <1>5 DEF ParentStep

\* The invariant holds of every behaviour of the three processes, failures
\* and interrupts included.
THEOREM StreamInvariant == Spec => []IInv
<1>1. IInv /\ [Next]_vars => IInv'
  BY SourceKeepsIInv, UrdfKeepsIInv, ParentKeepsIInv, StutterKeepsIInv DEF Next
<1> QED  BY InitIInv, <1>1, PTL DEF Spec

\* The variables keep their types: the queue holds episodes and sentinels, the
\* backlog episodes only.
THEOREM StreamTypes == Spec => []TypeOK
<1>1. IInv => TypeOK
  BY DEF IInv
<1> QED  BY StreamInvariant, <1>1, PTL

\* The parent never holds back more than one episode of a living source, for
\* any number of episodes, queue capacity and pipe size.
THEOREM SourceIsHeldBack == Spec => []BackPressure
<1>1. IInv => BackPressure
  BY DEF IInv
<1> QED  BY StreamInvariant, <1>1, PTL

\* Whoever fails: each child is joined before the parent moves on, so when the
\* call has come back one is left only where an interrupt found the parent outside
\* its try block, at a place that fits the child, or where the source was never
\* started and the URDF process waits on an empty queue.
THEOREM CallLeavesNoChild == Spec => []NoChildLeft
<1>1. IInv => NoChildLeft
  BY DEF IInv, JoinedInOrder
<1> QED  BY StreamInvariant, <1>1, PTL

\* Every behaviour hands over every usable episode before it announces the end
\* of the stream, and announces it once: the URDF process that stops at the
\* sentinel leaves nothing behind.
THEOREM SentinelEndsStream == Spec => []SentinelIsLast
<1>1. IInv /\ EndInv /\ [Next]_vars => EndInv'
  <2>1. IInv /\ EndInv /\ UNCHANGED vars => EndInv'
    BY DEF EndInv, NothingAfterResult, SentinelClosesQueue, vars, sourceVars, parentVars, loopVars
  <2> QED  BY <2>1, SourceKeepsEndInv, UrdfKeepsEndInv, ParentKeepsEndInv DEF Next
<1> QED  BY InitEndInv, StreamInvariant, <1>1, EndInvImplies, PTL DEF Spec

-----------------------------------------------------------------------------
(* Induction over the length of a sequence, with sets instead of predicates *)

LEMMA LeastNatural ==
    ASSUME NEW S \in SUBSET Nat, S # {}
    PROVE  \E x \in S : \A y \in S : x <= y
<1> DEFINE less == OpToRel(<, Nat)
<1>1. IsWellFoundedOn(less, Nat)
  BY NatLessThanWellFounded
<1>2. \A x, y \in Nat : <<y, x>> \notin less => x <= y
  BY DEF OpToRel
<1> HIDE DEF less
<1>3. PICK x \in S : \A y \in S : ~(<<y, x>> \in less)
  BY <1>1, WFMin
<1> QED  BY <1>2, <1>3

LEMMA Induction ==
    ASSUME NEW S, 0 \in S, \A n \in Nat : n \in S => n + 1 \in S
    PROVE  \A n \in Nat : n \in S
<1> SUFFICES ASSUME NEW n \in Nat, n \notin S PROVE FALSE
  OBVIOUS
<1>1. PICK x \in Nat \ S : \A y \in Nat \ S : x <= y
  <2>1. Nat \ S \in SUBSET Nat /\ Nat \ S # {}
    OBVIOUS
  <2> QED  BY <2>1, LeastNatural
<1>2. x - 1 \in Nat /\ x - 1 \in S
  BY <1>1
<1> QED  BY <1>1, <1>2

-----------------------------------------------------------------------------
(* The episodes of a stream *)

Entries == Items \cup {None}

\* The function that Episodes defines, and its equation.
UpTo(s) ==
    CHOOSE f : f = [n \in 0..Len(s) |->
                       IF n = 0 THEN << >>
                       ELSE IF s[n] = None THEN f[n - 1] ELSE Append(f[n - 1], s[n])]

Step(s, f, n) ==
    IF n = 0 THEN << >> ELSE IF s[n] = None THEN f[n - 1] ELSE Append(f[n - 1], s[n])

Solves(s, f, n) == \A k \in 0..Len(s) : k <= n => f[k] = Step(s, f, k)
Solvable(s) == {n \in Nat : \E f : DOMAIN f = 0..Len(s) /\ Solves(s, f, n)}

LEMMA RecursionIsSolved ==
    ASSUME NEW s \in Seq(Entries)
    PROVE  \E f : f = [n \in 0..Len(s) |-> Step(s, f, n)]
<1>0. Len(s) \in Nat
  OBVIOUS
<1>1. 0 \in Solvable(s)
  <2>1. Solves(s, [n \in 0..Len(s) |-> << >>], 0)
    BY <1>0 DEF Solves, Step
  <2> QED  BY <2>1 DEF Solvable
<1>2. ASSUME NEW n \in Nat, n \in Solvable(s) PROVE n + 1 \in Solvable(s)
  <2>1. PICK f : DOMAIN f = 0..Len(s) /\ Solves(s, f, n)
    BY <1>2 DEF Solvable
  <2> DEFINE g == [k \in 0..Len(s) |-> Step(s, f, k)]
  <2>2. \A k \in 0..Len(s) : k <= n => g[k] = f[k]
    BY <2>1 DEF Solves
  <2>3. \A k \in 0..Len(s) : k <= n + 1 /\ k # 0 => g[k - 1] = f[k - 1]
    BY <1>0, <2>2
  <2>4. Solves(s, g, n + 1)
    BY <2>3 DEF Solves, Step
  <2> QED  BY <2>4 DEF Solvable
<1>3. Len(s) \in Solvable(s)
  BY <1>0, <1>1, <1>2, Induction
<1>4. PICK f : DOMAIN f = 0..Len(s) /\ Solves(s, f, Len(s))
  BY <1>3 DEF Solvable
<1> DEFINE g == [n \in 0..Len(s) |-> Step(s, f, n)]
<1>5. \A n \in 0..Len(s) : g[n] = f[n]
  BY <1>0, <1>4 DEF Solves
<1>6. \A n \in 0..Len(s) : Step(s, g, n) = Step(s, f, n)
  BY <1>0, <1>5 DEF Step
<1> QED  BY <1>6

LEMMA EpisodesAreTaken ==
    ASSUME NEW s \in Seq(Entries)
    PROVE  /\ Episodes(s) = UpTo(s)[Len(s)]
           /\ \A n \in 0..Len(s) : UpTo(s)[n] = Step(s, UpTo(s), n)
<1>1. UpTo(s) = CHOOSE f : f = [n \in 0..Len(s) |-> Step(s, f, n)]
  BY Zenon DEF UpTo, Step
<1>2. UpTo(s) = [n \in 0..Len(s) |-> Step(s, UpTo(s), n)]
  BY <1>1, RecursionIsSolved, Zenon
<1>3. Episodes(s) = UpTo(s)[Len(s)]
  BY Zenon DEF Episodes, UpTo
<1> QED  BY <1>2, <1>3

\* The empty stream, and the stream with one more entry.
LEMMA NoEpisodes == Episodes(<< >>) = << >>
<1>1. << >> \in Seq(Entries) /\ Len(<< >>) = 0
  BY EmptySeq
<1>2. 0 \in 0..Len(<< >>)
  BY <1>1
<1>3. UpTo(<< >>)[0] = << >>
  BY <1>1, <1>2, EpisodesAreTaken DEF Step
<1>4. Episodes(<< >>) = UpTo(<< >>)[Len(<< >>)]
  BY <1>1, EpisodesAreTaken, Zenon
<1> QED  BY <1>1, <1>3, <1>4

LEMMA EpisodesOfPrefix ==
    ASSUME NEW s \in Seq(Entries), NEW x \in Entries
    PROVE  \A n \in 0..Len(s) : UpTo(Append(s, x))[n] = UpTo(s)[n]
<1> DEFINE t == Append(s, x)
           S == {n \in Nat : n <= Len(s) => UpTo(t)[n] = UpTo(s)[n]}
<1>0. /\ Len(s) \in Nat /\ t \in Seq(Entries) /\ Len(t) = Len(s) + 1
      /\ \A i \in 1..Len(s) : t[i] = s[i]
  OBVIOUS
<1> HIDE DEF t
<1>1. 0 \in S
  BY <1>0, EpisodesAreTaken DEF Step
<1>2. ASSUME NEW n \in Nat, n \in S PROVE n + 1 \in S
  <2>1. SUFFICES ASSUME n + 1 <= Len(s) PROVE UpTo(t)[n + 1] = UpTo(s)[n + 1]
    OBVIOUS
  <2>2. UpTo(t)[n] = UpTo(s)[n] /\ t[n + 1] = s[n + 1] /\ n + 1 # 0 /\ (n + 1) - 1 = n
    BY <1>0, <1>2, <2>1
  <2>3. n + 1 \in 0..Len(t) /\ n + 1 \in 0..Len(s)
    BY <1>0, <2>1
  <2>4. UpTo(t)[n + 1] = Step(t, UpTo(t), n + 1) /\ UpTo(s)[n + 1] = Step(s, UpTo(s), n + 1)
    BY <1>0, <2>3, EpisodesAreTaken
  <2> QED  BY <2>2, <2>4 DEF Step
<1> HIDE DEF S
<1>3. \A n \in Nat : n \in S
  BY <1>1, <1>2, Induction
<1> QED  BY <1>0, <1>3 DEF S, t

LEMMA EpisodesOfAppend ==
    ASSUME NEW s \in Seq(Entries), NEW x \in Entries
    PROVE  Episodes(Append(s, x)) = IF x = None THEN Episodes(s) ELSE Append(Episodes(s), x)
<1> DEFINE t == Append(s, x)
<1>0. /\ Len(s) \in Nat /\ t \in Seq(Entries) /\ Len(t) = Len(s) + 1 /\ t[Len(t)] = x
  OBVIOUS
<1>1. UpTo(t)[Len(s)] = UpTo(s)[Len(s)]
  BY <1>0, EpisodesOfPrefix
<1> HIDE DEF t
<1>2. Len(t) \in 0..Len(t) /\ Len(t) # 0 /\ Len(t) - 1 = Len(s)
  BY <1>0
<1>3. UpTo(t)[Len(t)] = Step(t, UpTo(t), Len(t))
  BY <1>0, <1>2, EpisodesAreTaken
<1>4. Episodes(t) = UpTo(t)[Len(t)] /\ Episodes(s) = UpTo(s)[Len(s)]
  BY <1>0, EpisodesAreTaken
<1>5. Episodes(t) = IF x = None THEN Episodes(s) ELSE Append(Episodes(s), x)
  BY <1>0, <1>1, <1>2, <1>3, <1>4 DEF Step
<1> QED  BY <1>5 DEF t

\* Episodes only, and in the order of the parts of the stream.
LEMMA EpisodesAreItems ==
    ASSUME NEW s \in Seq(Entries)
    PROVE  Episodes(s) \in Seq(Items)
<1> DEFINE S == {n \in Nat : \A t \in Seq(Entries) : Len(t) = n => Episodes(t) \in Seq(Items)}
<1>1. 0 \in S
  <2>1. \A t \in Seq(Entries) : Len(t) = 0 => t = << >>
    OBVIOUS
  <2>2. << >> \in Seq(Items)
    BY EmptySeq
  <2> QED  BY <2>1, <2>2, NoEpisodes
<1>2. ASSUME NEW n \in Nat, n \in S PROVE n + 1 \in S
  <2> SUFFICES ASSUME NEW t \in Seq(Entries), Len(t) = n + 1 PROVE Episodes(t) \in Seq(Items)
    OBVIOUS
  <2>1. PICK u \in Seq(Entries), x \in Entries : t = Append(u, x)
    <3>1. t # << >>
      OBVIOUS
    <3> QED  BY <3>1, SequenceEmptyOrAppend
  <2>2. Len(u) = n
    BY <2>1
  <2>3. Episodes(u) \in Seq(Items)
    BY <1>2, <2>2
  <2>4. CASE x = None
    BY <2>1, <2>3, <2>4, EpisodesOfAppend
  <2>5. CASE x # None
    <3>1. x \in Items
      BY <2>5 DEF Entries
    <3>2. Append(Episodes(u), x) \in Seq(Items)
      BY <2>3, <3>1, AppendProperties
    <3> QED  BY <2>1, <2>5, <3>2, EpisodesOfAppend
  <2> QED  BY <2>4, <2>5
<1> HIDE DEF S
<1>3. Len(s) \in S
  BY <1>1, <1>2, Induction
<1> QED  BY <1>3 DEF S

LEMMA AppendBehind ==
    ASSUME NEW a \in Seq(Items), NEW b \in Seq(Items), NEW x \in Items
    PROVE  Append(a \o b, x) = a \o Append(b, x)
<1>1. <<x>> \in Seq(Items) /\ a \o b \in Seq(Items)
  OBVIOUS
<1>2. Append(a \o b, x) = (a \o b) \o <<x>> /\ Append(b, x) = b \o <<x>>
  BY <1>1, AppendIsConcat
<1>3. (a \o b) \o <<x>> = a \o (b \o <<x>>)
  BY <1>1, ConcatAssociative
<1> QED  BY <1>2, <1>3

LEMMA EpisodesInOrder ==
    ASSUME NEW s \in Seq(Entries), NEW t \in Seq(Entries)
    PROVE  Episodes(s \o t) = Episodes(s) \o Episodes(t)
<1> DEFINE S == {n \in Nat : \A u \in Seq(Entries) : Len(u) = n =>
                                 Episodes(s \o u) = Episodes(s) \o Episodes(u)}
<1>0. \A u \in Seq(Entries) : Episodes(u) \in Seq(Items)
  BY EpisodesAreItems
<1>1. 0 \in S
  <2>1. \A u \in Seq(Entries) : Len(u) = 0 => u = << >>
    OBVIOUS
  <2>2. s \o << >> = s /\ Episodes(s) \o << >> = Episodes(s)
    BY <1>0, ConcatEmptySeq
  <2> QED  BY <2>1, <2>2, NoEpisodes
<1>2. ASSUME NEW n \in Nat, n \in S PROVE n + 1 \in S
  <2> SUFFICES ASSUME NEW u \in Seq(Entries), Len(u) = n + 1
               PROVE  Episodes(s \o u) = Episodes(s) \o Episodes(u)
    OBVIOUS
  <2>1. PICK v \in Seq(Entries), x \in Entries : u = Append(v, x)
    <3>1. u # << >>
      OBVIOUS
    <3> QED  BY <3>1, SequenceEmptyOrAppend
  <2>2. Len(v) = n
    BY <2>1
  <2>3. Episodes(s \o v) = Episodes(s) \o Episodes(v)
    BY <1>2, <2>2
  <2>4. s \o u = Append(s \o v, x) /\ s \o v \in Seq(Entries)
    BY <2>1
  <2>5. CASE x = None
    BY <2>1, <2>3, <2>4, <2>5, EpisodesOfAppend
  <2>6. CASE x # None
    <3>1. Episodes(s \o u) = Append(Episodes(s) \o Episodes(v), x)
      BY <2>3, <2>4, <2>6, EpisodesOfAppend
    <3>2. Episodes(u) = Append(Episodes(v), x)
      BY <2>1, <2>6, EpisodesOfAppend
    <3>3. x \in Items
      BY <2>6 DEF Entries
    <3>4. Append(Episodes(s) \o Episodes(v), x) = Episodes(s) \o Append(Episodes(v), x)
      <4>1. Episodes(s) \in Seq(Items) /\ Episodes(v) \in Seq(Items)
        BY <1>0
      <4>2. \A a, b \in Seq(Items) : Append(a \o b, x) = a \o Append(b, x)
        BY <3>3, AppendBehind
      <4> QED  BY <4>1, <4>2, Zenon
    <3> QED  BY <3>1, <3>2, <3>4
  <2> QED  BY <2>5, <2>6
<1> HIDE DEF S
<1>3. Len(t) \in S
  BY <1>1, <1>2, Induction
<1> QED  BY <1>3 DEF S

\* A stream without episodes is empty.
LEMMA NothingButNone ==
    ASSUME NEW s \in Seq({None})
    PROVE  Episodes(s) = << >>
<1> DEFINE T == {None}
           S == {n \in Nat : \A t \in Seq(T) : Len(t) = n => Episodes(t) = << >>}
<1>0. T \subseteq Entries /\ \A x \in T : x = None
  BY DEF Entries
<1> HIDE DEF T
<1>1. 0 \in S
  <2>1. \A t \in Seq(T) : Len(t) = 0 => t = << >>
    OBVIOUS
  <2> QED  BY <2>1, NoEpisodes
<1>2. ASSUME NEW n \in Nat, n \in S PROVE n + 1 \in S
  <2> SUFFICES ASSUME NEW t \in Seq(T), Len(t) = n + 1 PROVE Episodes(t) = << >>
    OBVIOUS
  <2>1. PICK u \in Seq(T), x \in T : t = Append(u, x)
    <3>1. t # << >>
      OBVIOUS
    <3> QED  BY <3>1, SequenceEmptyOrAppend
  <2>2. Len(u) = n
    BY <2>1
  <2>3. Episodes(u) = << >>
    BY <1>2, <2>2
  <2>4. u \in Seq(Entries) /\ x \in Entries /\ x = None
    BY <1>0
  <2> QED  BY <2>1, <2>3, <2>4, EpisodesOfAppend
<1> HIDE DEF S
<1>3. Len(s) \in S
  <2>1. s \in Seq(T)
    BY DEF T
  <2> QED  BY <1>1, <1>2, <2>1, Induction
<1>4. s \in Seq(T)
  BY DEF T
<1> QED  BY <1>3, <1>4 DEF S

LEMMA AppendBehindEntries ==
    ASSUME NEW a \in Seq(Entries), NEW b \in Seq(Entries), NEW x \in Entries
    PROVE  a \o Append(b, x) = Append(a \o b, x)
<1>1. <<x>> \in Seq(Entries) /\ a \o b \in Seq(Entries)
  OBVIOUS
<1>2. Append(a \o b, x) = (a \o b) \o <<x>> /\ Append(b, x) = b \o <<x>>
  BY <1>1, AppendIsConcat
<1>3. (a \o b) \o <<x>> = a \o (b \o <<x>>)
  BY <1>1, ConcatAssociative
<1> QED  BY <1>2, <1>3

LEMMA SameEntries ==
    ASSUME NEW S, NEW s \in Seq(S), NEW t \in Seq(S), Len(s) = Len(t),
           \A i \in 1..Len(s) : s[i] = t[i]
    PROVE  s = t
OBVIOUS

LEMMA TailMoves ==
    ASSUME NEW S, NEW s \in Seq(S), s # << >>
    PROVE  /\ Head(s) = s[1] /\ Len(s) >= 1 /\ DOMAIN s = 1..Len(s)
           /\ Tail(s) \in Seq(S) /\ Len(Tail(s)) = Len(s) - 1
           /\ DOMAIN Tail(s) = 1..(Len(s) - 1)
           /\ \A i \in 1..(Len(s) - 1) : Tail(s)[i] = s[i + 1]
OBVIOUS

LEMMA AppendMoves ==
    ASSUME NEW S, NEW s \in Seq(S), NEW e \in S
    PROVE  /\ Append(s, e) # << >> /\ DOMAIN s = 1..Len(s)
           /\ Len(Append(s, e)) = Len(s) + 1 /\ DOMAIN Append(s, e) = 1..(Len(s) + 1)
           /\ \A i \in 1..Len(s) : Append(s, e)[i] = s[i]
           /\ Append(s, e)[Len(s) + 1] = e
OBVIOUS

-----------------------------------------------------------------------------
(* The ends of a stream, and its parts *)

\* A stream begins with an episode or with an entry that is none.
LEMMA HeadFirst ==
    ASSUME NEW S, NEW s \in Seq(S), s # << >>
    PROVE  /\ Head(s) \in S /\ Tail(s) \in Seq(S) /\ <<Head(s)>> \in Seq(S)
           /\ s = <<Head(s)>> \o Tail(s)
OBVIOUS

LEMMA EpisodesOfHead ==
    ASSUME NEW s \in Seq(Entries), s # << >>
    PROVE  Episodes(s) = IF Head(s) = None THEN Episodes(Tail(s))
                         ELSE <<Head(s)>> \o Episodes(Tail(s))
<1>1. PICK x \in Entries, t \in Seq(Entries) :
          x = Head(s) /\ t = Tail(s) /\ <<x>> \in Seq(Entries) /\ s = <<x>> \o t
  BY HeadFirst
<1>2. Episodes(s) = Episodes(<<x>>) \o Episodes(t)
  BY <1>1, EpisodesInOrder
<1>3. Episodes(<<x>>) = IF x = None THEN << >> ELSE <<x>>
  <2>1. << >> \in Seq(Entries) /\ Append(<< >>, x) = <<x>>
    OBVIOUS
  <2> QED  BY <2>1, NoEpisodes, EpisodesOfAppend
<1>4. << >> \o Episodes(t) = Episodes(t)
  <2>1. Episodes(t) \in Seq(Items)
    BY EpisodesAreItems
  <2> QED  BY <2>1, ConcatEmptySeq
<1>5. CASE x = None
  BY <1>1, <1>2, <1>3, <1>4, <1>5
<1>6. CASE x # None
  BY <1>1, <1>2, <1>3, <1>6
<1> QED  BY <1>5, <1>6

\* What the pipe announces, message by message.
Announces(m) == IF m.kind = "ready" THEN m.item ELSE None

LEMMA AnnouncedEntries ==
    ASSUME NEW p \in Seq(SourceMessage)
    PROVE  /\ Announced(p) \in Seq(Entries) /\ Len(Announced(p)) = Len(p)
           /\ \A i \in 1..Len(p) : Announced(p)[i] = Announces(p[i])
<1>1. Announced(p) = [i \in 1..Len(p) |-> Announces(p[i])]
  BY DEF Announced, Announces
<1>2. \A m \in SourceMessage : Announces(m) \in Entries
  BY ReadyCarriesEpisode DEF Announces, Entries
<1> QED  BY <1>1, <1>2

LEMMA AnnouncedAppend ==
    ASSUME NEW p \in Seq(SourceMessage), NEW m \in SourceMessage
    PROVE  Announced(Append(p, m)) = Append(Announced(p), Announces(m))
<1>1. /\ Append(p, m) \in Seq(SourceMessage) /\ Len(Append(p, m)) = Len(p) + 1 /\ Len(p) \in Nat
      /\ \A i \in 1..Len(p) : Append(p, m)[i] = p[i]
      /\ Append(p, m)[Len(p) + 1] = m
  OBVIOUS
<1>2. Announces(m) \in Entries
  BY ReadyCarriesEpisode DEF Announces, Entries
<1> DEFINE a == Announced(p)  b == Announced(Append(p, m))
<1>3. /\ a \in Seq(Entries) /\ Len(a) = Len(p) /\ \A i \in 1..Len(p) : a[i] = Announces(p[i])
      /\ b \in Seq(Entries) /\ Len(b) = Len(p) + 1
      /\ \A i \in 1..(Len(p) + 1) : b[i] = Announces(Append(p, m)[i])
  BY <1>1, AnnouncedEntries
<1> HIDE DEF a, b
<1>4. \A i \in 1..Len(p) : b[i] = a[i]
  BY <1>1, <1>3
<1>5. b[Len(p) + 1] = Announces(m)
  BY <1>1, <1>3
<1>6. b = Append(a, Announces(m))
  <2>1. PICK x \in Entries : x = Announces(m)
    BY <1>2
  <2>2. \A i \in 1..Len(b) : b[i] = Append(a, x)[i]
    BY <1>1, <1>3, <1>4, <1>5, <2>1
  <2>3. Append(a, x) \in Seq(Entries) /\ Len(Append(a, x)) = Len(b)
    BY <1>3
  <2> QED  BY <1>3, <2>1, <2>2, <2>3, SameEntries
<1> QED  BY <1>6 DEF a, b

LEMMA AnnouncedTail ==
    ASSUME NEW p \in Seq(SourceMessage), p # << >>
    PROVE  /\ Announced(p) # << >> /\ Head(Announced(p)) = Announces(Head(p))
           /\ Announced(Tail(p)) = Tail(Announced(p))
<1>1. /\ Tail(p) \in Seq(SourceMessage) /\ Len(Tail(p)) = Len(p) - 1 /\ Len(p) \in Nat \ {0}
      /\ Head(p) = p[1] /\ \A i \in 1..(Len(p) - 1) : Tail(p)[i] = p[i + 1]
  BY TailMoves
<1> DEFINE a == Announced(p)  b == Announced(Tail(p))
<1>2. /\ a \in Seq(Entries) /\ Len(a) = Len(p) /\ \A i \in 1..Len(p) : a[i] = Announces(p[i])
      /\ b \in Seq(Entries) /\ Len(b) = Len(p) - 1
      /\ \A i \in 1..(Len(p) - 1) : b[i] = Announces(Tail(p)[i])
  BY <1>1, AnnouncedEntries
<1> HIDE DEF a, b
<1>3. a # << >> /\ Head(a) = Announces(Head(p))
  BY <1>1, <1>2
<1>4. \A i \in 1..Len(b) : b[i] = Tail(a)[i]
  <2>1. \A i \in 1..(Len(p) - 1) : i + 1 \in 1..Len(p)
    BY <1>1
  <2>2. \A i \in 1..(Len(a) - 1) : Tail(a)[i] = a[i + 1]
    BY <1>2, <1>3
  <2> QED  BY <1>1, <1>2, <2>1, <2>2
<1>5. Tail(a) \in Seq(Entries) /\ Len(Tail(a)) = Len(b)
  BY <1>2, <1>3
<1>6. b = Tail(a)
  BY <1>2, <1>4, <1>5, SameEntries
<1> QED  BY <1>3, <1>6 DEF a, b

-----------------------------------------------------------------------------
\* The stream from the records to the pipe.
Told(r, h, q, b, a) == r \o h \o Episodes(q \o b \o a)

LEMMA Concatenated ==
    ASSUME NEW q \in Seq(Entries), NEW b \in Seq(Items), NEW a \in Seq(Entries)
    PROVE  /\ b \in Seq(Entries) /\ q \o b \in Seq(Entries) /\ q \o b \o a \in Seq(Entries)
<1>1. b \in Seq(Entries)
  <2>1. Items \subseteq Entries
    BY DEF Entries
  <2> QED  BY <2>1
<1> QED  BY <1>1

\* The next message.
LEMMA ToldMore ==
    ASSUME NEW r \in Seq(Items), NEW h \in Seq(Items), NEW q \in Seq(Entries),
           NEW b \in Seq(Items), NEW a \in Seq(Entries), NEW x \in Entries
    PROVE  Told(r, h, q, b, Append(a, x)) =
               IF x = None THEN Told(r, h, q, b, a) ELSE Append(Told(r, h, q, b, a), x)
<1> DEFINE s == q \o b \o a
<1>1. s \in Seq(Entries) /\ q \o b \in Seq(Entries)
  BY Concatenated
<1>2. q \o b \o Append(a, x) = Append(s, x)
  <2>1. PICK t \in Seq(Entries) : t = q \o b
    BY <1>1
  <2>2. t \o Append(a, x) = Append(t \o a, x)
    BY AppendBehindEntries
  <2> QED  BY <2>1, <2>2
<1> HIDE DEF s
<1>3. Episodes(s) \in Seq(Items)
  BY <1>1, EpisodesAreItems
<1>4. Told(r, h, q, b, Append(a, x)) = r \o h \o Episodes(Append(s, x))
  BY <1>2 DEF Told
<1>5. Told(r, h, q, b, a) = r \o h \o Episodes(s)
  BY DEF Told, s
<1>6. CASE x = None
  BY <1>1, <1>4, <1>5, <1>6, EpisodesOfAppend
<1>7. CASE x # None
  <2>1. x \in Items
    BY <1>7 DEF Entries
  <2>2. Episodes(Append(s, x)) = Append(Episodes(s), x)
    BY <1>1, <1>7, EpisodesOfAppend
  <2>3. PICK t \in Seq(Items) : t = r \o h
    <3>1. r \o h \in Seq(Items)
      BY ConcatProperties
    <3> QED  BY <3>1, Zenon
  <2>4. Append(t \o Episodes(s), x) = t \o Append(Episodes(s), x)
    BY <1>3, <2>1, AppendBehind
  <2> QED  BY <1>4, <1>5, <1>7, <2>2, <2>3, <2>4
<1> QED  BY <1>6, <1>7

\* The oldest message is received.
LEMMA ToldReceived ==
    ASSUME NEW r \in Seq(Items), NEW h \in Seq(Items), NEW q \in Seq(Entries),
           NEW b \in Seq(Items), NEW a \in Seq(Entries), a # << >>
    PROVE  IF Head(a) = None THEN Told(r, h, q, b, Tail(a)) = Told(r, h, q, b, a)
           ELSE Told(r, h, q, Append(b, Head(a)), Tail(a)) = Told(r, h, q, b, a)
<1>1. Tail(a) \in Seq(Entries) /\ Head(a) \in Entries
  BY HeadFirst
<1>2. b \in Seq(Entries) /\ q \o b \in Seq(Entries)
  BY Concatenated
<1>3. CASE Head(a) = None
  <2>1. Episodes(a) = Episodes(Tail(a))
    BY <1>3, EpisodesOfHead
  <2>2. PICK t \in Seq(Entries) : t = q \o b
    BY <1>2
  <2>3. Episodes(t \o a) = Episodes(t \o Tail(a))
    <3>1. PICK u \in Seq(Entries) : u = Tail(a)
      BY <1>1
    <3>2. Episodes(t \o a) = Episodes(t) \o Episodes(a) /\ Episodes(t \o u) = Episodes(t) \o Episodes(u)
      BY EpisodesInOrder
    <3> QED  BY <2>1, <3>1, <3>2
  <2> QED  BY <1>3, <2>2, <2>3 DEF Told
<1>4. CASE Head(a) # None
  <2>1. q \o Append(b, Head(a)) \o Tail(a) = q \o b \o a
    <3>1. PICK x \in Entries, t \in Seq(Entries) : x = Head(a) /\ t = Tail(a) /\ a = <<x>> \o t
      BY HeadFirst
    <3>2. <<x>> \in Seq(Entries) /\ b \o <<x>> \in Seq(Entries) /\ Append(b, x) = b \o <<x>>
      BY <1>2, AppendIsConcat
    <3>3. q \o (b \o <<x>>) = (q \o b) \o <<x>>
      BY <1>2, <3>2, ConcatAssociative
    <3>4. ((q \o b) \o <<x>>) \o t = (q \o b) \o (<<x>> \o t)
      BY <1>2, <3>2, ConcatAssociative, SMTT(60)
    <3> QED  BY <3>1, <3>2, <3>3, <3>4
  <2> QED  BY <1>4, <2>1 DEF Told
<1> QED  BY <1>3, <1>4

\* The oldest episode of the backlog is offered.
LEMMA ToldOffered ==
    ASSUME NEW r, NEW h, NEW q \in Seq(Entries), NEW b \in Seq(Items), b # << >>, NEW a
    PROVE  Told(r, h, Append(q, Head(b)), Tail(b), a) = Told(r, h, q, b, a)
<1>1. Append(q, Head(b)) \o Tail(b) = q \o b
  <2>1. b \in Seq(Entries)
    BY EmptySeq, Concatenated
  <2>2. PICK x \in Entries, t \in Seq(Entries) : x = Head(b) /\ t = Tail(b) /\ b = <<x>> \o t
    BY <2>1, HeadFirst
  <2>3. <<x>> \in Seq(Entries) /\ Append(q, x) = q \o <<x>>
    BY AppendIsConcat
  <2>4. (q \o <<x>>) \o t = q \o (<<x>> \o t)
    BY <2>2, <2>3, ConcatAssociative
  <2> QED  BY <2>2, <2>3, <2>4
<1> QED  BY <1>1 DEF Told

\* The sentinel follows the last episode.
LEMMA ToldEnd ==
    ASSUME NEW r, NEW h, NEW q \in Seq(Entries), NEW a \in Seq(Entries)
    PROVE  Told(r, h, Append(q, None), << >>, a) = Told(r, h, q, << >>, a)
<1>1. None \in Entries /\ Append(q, None) \in Seq(Entries)
  BY DEF Entries
<1>2. Append(q, None) \o << >> = Append(q, None) /\ q \o << >> = q
  BY <1>1, ConcatEmptySeq
<1>3. Episodes(Append(q, None) \o a) = Episodes(q \o a)
  <2>1. PICK t \in Seq(Entries) : t = Append(q, None)
    BY <1>1
  <2>2. Episodes(t) = Episodes(q)
    BY <1>1, <2>1, EpisodesOfAppend
  <2>3. Episodes(t \o a) = Episodes(t) \o Episodes(a) /\ Episodes(q \o a) = Episodes(q) \o Episodes(a)
    BY EpisodesInOrder
  <2> QED  BY <2>1, <2>2, <2>3
<1> QED  BY <1>2, <1>3 DEF Told

LEMMA ThreeParts ==
    ASSUME NEW r \in Seq(Items), NEW y \in Seq(Items), NEW w \in Seq(Items)
    PROVE  (r \o y) \o w = r \o (y \o w)
BY ConcatAssociative

LEMMA OneBetween ==
    ASSUME NEW r \in Seq(Items), NEW x \in Items, NEW d \in Seq(Items), NEW e \in Seq(Items)
    PROVE  (r \o <<x>>) \o (d \o e) = r \o (<<x>> \o (d \o e))
<1>1. <<x>> \in Seq(Items) /\ d \o e \in Seq(Items)
  OBVIOUS
<1>2. PICK y \in Seq(Items), w \in Seq(Items) : y = <<x>> /\ w = d \o e
  BY <1>1
<1>3. (r \o y) \o w = r \o (y \o w)
  BY ThreeParts, SMTT(60)
<1> QED  BY <1>2, <1>3

\* The oldest entry of the queue is taken.
LEMMA ToldTaken ==
    ASSUME NEW r \in Seq(Items), NEW q \in Seq(Entries), q # << >>,
           NEW b \in Seq(Items), NEW a \in Seq(Entries)
    PROVE  Told(r, IF Head(q) = None THEN << >> ELSE <<Head(q)>>, Tail(q), b, a) =
               Told(r, << >>, q, b, a)
<1>1. b \in Seq(Entries) /\ Tail(q) \in Seq(Entries) /\ Head(q) \in Entries
  BY Concatenated, HeadFirst
<1>2. \A t \in Seq(Entries) :
          t \o b \o a \in Seq(Entries) /\ Episodes(t \o b \o a) = Episodes(t) \o Episodes(b \o a)
  <2> TAKE t \in Seq(Entries)
  <2>0. (t \o b) \o a = t \o (b \o a)
    BY <1>1, ConcatAssociative, SMTT(60)
  <2>1. b \o a \in Seq(Entries) /\ t \o b \o a = t \o (b \o a)
    BY <1>1, <2>0, ConcatProperties
  <2>2. PICK u \in Seq(Entries) : u = b \o a
    BY <2>1
  <2>3. Episodes(t \o u) = Episodes(t) \o Episodes(u) /\ t \o u \in Seq(Entries)
    BY EpisodesInOrder, SMTT(60)
  <2> QED  BY <2>1, <2>2, <2>3
<1>3. PICK e \in Seq(Items) : e = Episodes(b \o a)
  <2>1. b \o a \in Seq(Entries)
    BY <1>1
  <2> QED  BY <2>1, EpisodesAreItems
<1>4. PICK d \in Seq(Items) : d = Episodes(Tail(q))
  BY <1>1, EpisodesAreItems
<1>5. CASE Head(q) = None
  <2>1. Episodes(q) = Episodes(Tail(q))
    BY <1>5, EpisodesOfHead
  <2>2. Episodes(q \o b \o a) = Episodes(Tail(q) \o b \o a)
    BY <1>1, <1>2, <2>1
  <2> QED  BY <1>5, <2>2 DEF Told
<1>6. CASE Head(q) # None
  <2>1. PICK x \in Items : x = Head(q)
    BY <1>1, <1>6 DEF Entries
  <2>2. Episodes(q) = <<x>> \o d
    BY <1>4, <1>6, <2>1, EpisodesOfHead
  <2>3. <<x>> \in Seq(Items) /\ r \o <<x>> \in Seq(Items) /\ d \o e \in Seq(Items)
    OBVIOUS
  <2>4. (<<x>> \o d) \o e = <<x>> \o (d \o e)
    BY <2>3, ConcatAssociative
  <2>5. (r \o <<x>>) \o (d \o e) = r \o (<<x>> \o (d \o e))
    BY OneBetween, SMTT(60)
  <2>6. r \o << >> = r
    BY ConcatEmptySeq
  <2>7. Told(r, <<x>>, Tail(q), b, a) = (r \o <<x>>) \o (d \o e)
    BY <1>1, <1>2, <1>3, <1>4 DEF Told
  <2>8. Told(r, << >>, q, b, a) = r \o ((<<x>> \o d) \o e)
    BY <1>2, <1>3, <2>2, <2>6 DEF Told
  <2> QED  BY <1>6, <2>1, <2>4, <2>5, <2>7, <2>8
<1> QED  BY <1>5, <1>6

\* The episode in hand becomes a record.
LEMMA ToldRendered ==
    ASSUME NEW r \in Seq(Items), NEW x \in Items, NEW q, NEW b, NEW a
    PROVE  Told(Append(r, x), << >>, q, b, a) = Told(r, <<x>>, q, b, a)
<1>1. Append(r, x) \in Seq(Items) /\ Append(r, x) = r \o <<x>>
  BY AppendIsConcat
<1>2. Append(r, x) \o << >> = Append(r, x)
  BY <1>1, ConcatEmptySeq
<1> QED  BY <1>1, <1>2 DEF Told

-----------------------------------------------------------------------------
(* Where every episode is *)

\* The end of the source and of the URDF process: a result in the pipe, or
\* received, is the last thing its process did.
Over == sentinelSent /\ readyQueue = << >> /\ rendered = produced
HasResult(pipe, kinds) == \E i \in DOMAIN pipe : pipe[i].kind \in kinds

Ending ==
    /\ sourceDone \/ HasResult(sourcePipe, {"result"}) =>
           sourceAt = Len(EpisodeIds) /\ source \in {"closing", "exited"}
    /\ urdf = "result" => Over
    /\ urdfResult # "none" \/ HasResult(urdfPipe, {"result", "noresult"}) =>
           Over /\ urdf \in {"closing", "exited"}
    /\ urdfResult = "result" \/ HasResult(urdfPipe, {"result"}) => rendered # << >>
    /\ parent = "returned" => urdfResult = "result"
    /\ parent = "startUrdf" => urdf = "unstarted"

\* Together they are inductive.
Flows == IInv /\ EndInv /\ StreamConserved /\ Ending

FlowShape ==
    /\ rendered \in Seq(Items) /\ produced \in Seq(Items) /\ backlog \in Seq(Items)
    /\ readyQueue \in Seq(Entries) /\ sourcePipe \in Seq(SourceMessage)
    /\ Announced(sourcePipe) \in Seq(Entries)

LEMMA FlowTypes == IInv => FlowShape
BY AnnouncedEntries DEF IInv, TypeOK, FlowShape, Entries

\* The record that the URDF process is about to write.
LEMMA HeldEpisode == IInv => Held \in Seq(Items)
<1> SUFFICES ASSUME IInv PROVE Held \in Seq(Items)
  OBVIOUS
<1>1. << >> \in Seq(Items)
  BY EmptySeq
<1>2. urdf \in {"start", "render"} => <<urdfItem>> \in Seq(Items)
  BY DEF IInv, RenderedIsEpisode
<1> QED  BY <1>1, <1>2 DEF Held

Failed == {"error", "closing", "exited"}

LEMMA ConservedIsTold ==
    StreamConserved <=>
        (urdf \notin Failed => Told(rendered, Held, readyQueue, backlog, Announced(sourcePipe)) = produced)
BY DEF StreamConserved, Told, Failed

LEMMA ConservedIsTold2 ==
    StreamConserved' <=>
        (urdf' \notin Failed =>
            Told(rendered', Held', readyQueue', backlog', Announced(sourcePipe')) = produced')
<1>1. Announced(sourcePipe)' = Announced(sourcePipe')
  BY DEF Announced
<1> QED  BY <1>1 DEF StreamConserved, Told, Failed, Episodes

\* Steps that move no episode.
LEMMA StillConserved ==
    ASSUME Flows,
           UNCHANGED <<rendered, produced, readyQueue, backlog, sourcePipe>>,
           urdf' \notin Failed =>
               /\ urdf \notin Failed
               /\ urdf' \in {"start", "render"} <=> urdf \in {"start", "render"}
               /\ urdf' \in {"start", "render"} => urdfItem' = urdfItem
    PROVE  StreamConserved'
<1> SUFFICES ASSUME urdf' \notin Failed
             PROVE  Told(rendered', Held', readyQueue', backlog', Announced(sourcePipe')) = produced'
  BY ConservedIsTold2
<1>1. Held' = Held
  BY DEF Held
<1> QED  BY <1>1, ConservedIsTold DEF Flows

\* A message of the source.
LEMMA MessageConserves ==
    ASSUME Flows, NEW m \in SourceMessage, sourcePipe' = Append(sourcePipe, m),
           UNCHANGED <<rendered, readyQueue, backlog, urdf, urdfItem>>,
           produced' = IF m.kind = "ready" THEN Append(produced, m.item) ELSE produced
    PROVE  StreamConserved'
<1> SUFFICES ASSUME urdf' \notin Failed
             PROVE  Told(rendered', Held', readyQueue', backlog', Announced(sourcePipe')) = produced'
  BY ConservedIsTold2
<1>0. FlowShape /\ Held \in Seq(Items)
  BY FlowTypes, HeldEpisode DEF Flows
<1>1. Held' = Held
  BY DEF Held
<1>2. Told(rendered, Held, readyQueue, backlog, Announced(sourcePipe)) = produced
  BY ConservedIsTold DEF Flows
<1>3. PICK x \in Entries :
          x = Announces(m) /\ Announced(Append(sourcePipe, m)) = Append(Announced(sourcePipe), x)
  <2>1. Announces(m) \in Entries
    BY ReadyCarriesEpisode DEF Announces, Entries
  <2> QED  BY <1>0, <2>1, AnnouncedAppend DEF FlowShape
<1>4. Told(rendered, Held, readyQueue, backlog, Append(Announced(sourcePipe), x)) =
          IF x = None THEN produced ELSE Append(produced, x)
  <2>1. PICK r \in Seq(Items), h \in Seq(Items), q \in Seq(Entries), b \in Seq(Items), a \in Seq(Entries) :
            r = rendered /\ h = Held /\ q = readyQueue /\ b = backlog /\ a = Announced(sourcePipe)
    BY <1>0 DEF FlowShape
  <2>2. Told(r, h, q, b, Append(a, x)) =
            IF x = None THEN Told(r, h, q, b, a) ELSE Append(Told(r, h, q, b, a), x)
    BY ToldMore, SMTT(60)
  <2> QED  BY <1>2, <2>1, <2>2
<1>5. x = None <=> m.kind # "ready"
  BY <1>3, ReadyCarriesEpisode, ItemIsNotNone DEF Announces
<1>6. m.kind = "ready" => x = m.item
  BY <1>3 DEF Announces
<1> QED  BY <1>1, <1>3, <1>4, <1>5, <1>6

LEMMA SourceConserves ==
    ASSUME Flows, SourceStage \/ SourceAnnounces \/ SourceFinishes \/ SourceReportsError
    PROVE  StreamConserved'
<1>1. CASE SourceStage \/ SourceFinishes \/ SourceReportsError
  <2>1. PICK k \in {"event", "result", "error"} : sourcePipe' = Append(sourcePipe, Message(k, None))
    BY <1>1 DEF SourceStage, SourceFinishes, SourceReportsError, SourceSends
  <2>2. PICK m : m = Message(k, None)
    OBVIOUS
  <2>3. m \in SourceMessage /\ m.kind # "ready"
    BY <2>2, SourceMessages DEF Message
  <2>4. UNCHANGED <<rendered, produced, readyQueue, backlog, urdf, urdfItem>>
    BY <1>1 DEF SourceStage, SourceFinishes, SourceReportsError, urdfVars, parentVars, loopVars
  <2> QED  BY <2>1, <2>2, <2>3, <2>4, MessageConserves
<1>2. CASE SourceAnnounces
  <2>1. PICK item : item = Item(EpisodeIds[sourceAt + 1])
    OBVIOUS
  <2>2. item \in Items
    BY <1>2, <2>1, EpisodeItems, StreamingAssumption
       DEF SourceAnnounces, Flows, IInv, TypeOK, AnnouncedWasAsked
  <2>3. \/ sourcePipe' = Append(sourcePipe, Message("ready", item)) /\ produced' = Append(produced, item)
        \/ sourcePipe' = Append(sourcePipe, Message("unready", item)) /\ UNCHANGED produced
    BY <1>2, <2>1 DEF SourceAnnounces, SourceSends
  <2>4. UNCHANGED <<rendered, readyQueue, backlog, urdf, urdfItem>>
    BY <1>2 DEF SourceAnnounces, urdfVars, parentVars, loopVars
  <2>5. PICK m, n : m = Message("ready", item) /\ n = Message("unready", item)
    OBVIOUS
  <2>6. /\ m \in SourceMessage /\ m.kind = "ready" /\ m.item = item
        /\ n \in SourceMessage /\ n.kind # "ready"
    BY <2>2, <2>5, SourceMessages DEF Message
  <2> QED  BY <2>3, <2>4, <2>5, <2>6, MessageConserves
<1> QED  BY <1>1, <1>2

LEMMA ReceiveConserves ==
    ASSUME Flows, ReceiveSource
    PROVE  StreamConserved'
<1> SUFFICES ASSUME urdf' \notin Failed
             PROVE  Told(rendered', Held', readyQueue', backlog', Announced(sourcePipe')) = produced'
  BY ConservedIsTold2
<1>0. FlowShape /\ Held \in Seq(Items)
  BY FlowTypes, HeldEpisode DEF Flows
<1>1. /\ UNCHANGED <<rendered, produced, readyQueue, urdf, urdfItem>>
      /\ sourcePipe # << >> /\ sourcePipe' = Tail(sourcePipe)
  BY DEF ReceiveSource, MayReadSource, urdfVars
<1>2. Held' = Held
  BY <1>1 DEF Held
<1>3. Told(rendered, Held, readyQueue, backlog, Announced(sourcePipe)) = produced
  BY <1>1, ConservedIsTold DEF Flows
<1>4. PICK m \in SourceMessage : m = Head(sourcePipe)
  BY <1>0, <1>1 DEF FlowShape
<1>5. backlog' = IF m.kind = "ready" THEN Append(backlog, m.item) ELSE backlog
  BY <1>4 DEF ReceiveSource
<1>6. PICK a \in Seq(Entries) :
          /\ a = Announced(sourcePipe) /\ a # << >> /\ Head(a) = Announces(m)
          /\ Announced(sourcePipe') = Tail(a)
  BY <1>0, <1>1, <1>4, AnnouncedTail DEF FlowShape
<1>7. Head(a) = None <=> m.kind # "ready"
  BY <1>6, ReadyCarriesEpisode, ItemIsNotNone DEF Announces
<1>8. m.kind = "ready" => Head(a) = m.item
  BY <1>6 DEF Announces
<1>9. IF Head(a) = None THEN Told(rendered, Held, readyQueue, backlog, Tail(a)) = produced
      ELSE Told(rendered, Held, readyQueue, Append(backlog, Head(a)), Tail(a)) = produced
  BY <1>0, <1>3, <1>6, ToldReceived DEF FlowShape
<1> QED  BY <1>1, <1>2, <1>5, <1>6, <1>7, <1>8, <1>9

LEMMA OfferConserves ==
    ASSUME Flows, OfferReady \/ SendSentinel
    PROVE  StreamConserved'
<1> SUFFICES ASSUME urdf' \notin Failed
             PROVE  Told(rendered', Held', readyQueue', backlog', Announced(sourcePipe')) = produced'
  BY ConservedIsTold2
<1>0. FlowShape /\ Held \in Seq(Items)
  BY FlowTypes, HeldEpisode DEF Flows
<1>1. UNCHANGED <<rendered, produced, sourcePipe, urdf, urdfItem>>
  BY DEF OfferReady, SendSentinel, urdfVars, sourceVars
<1>2. Held' = Held
  BY <1>1 DEF Held
<1>3. Told(rendered, Held, readyQueue, backlog, Announced(sourcePipe)) = produced
  BY <1>1, ConservedIsTold DEF Flows
<1>4. CASE OfferReady
  <2>1. /\ backlog # << >> /\ readyQueue' = Append(readyQueue, Head(backlog))
        /\ backlog' = Tail(backlog)
    BY <1>4 DEF OfferReady
  <2> QED  BY <1>0, <1>1, <1>2, <1>3, <2>1, ToldOffered DEF FlowShape
<1>5. CASE SendSentinel
  <2>1. backlog = << >> /\ backlog' = << >> /\ readyQueue' = Append(readyQueue, None)
    BY <1>5 DEF SendSentinel
  <2> QED  BY <1>0, <1>1, <1>2, <1>3, <2>1, ToldEnd DEF FlowShape
<1> QED  BY <1>4, <1>5

LEMMA TakeConserves ==
    ASSUME Flows, UrdfTakes \/ UrdfRenders
    PROVE  StreamConserved'
<1> SUFFICES ASSUME urdf' \notin Failed
             PROVE  Told(rendered', Held', readyQueue', backlog', Announced(sourcePipe')) = produced'
  BY ConservedIsTold2
<1>0. FlowShape
  BY FlowTypes DEF Flows
<1>1. UNCHANGED <<produced, sourcePipe, backlog>> /\ urdf \in {"get", "render"}
  BY DEF UrdfTakes, UrdfRenders, parentVars, sourceVars, loopVars
<1>3. Told(rendered, Held, readyQueue, backlog, Announced(sourcePipe)) = produced
  BY <1>1, ConservedIsTold DEF Flows, Failed
<1>4. CASE UrdfTakes
  <2>1. /\ urdf = "get" /\ readyQueue # << >> /\ readyQueue' = Tail(readyQueue)
        /\ urdfItem' = Head(readyQueue) /\ UNCHANGED rendered
        /\ urdf' = IF Head(readyQueue) = None THEN "result" ELSE "start"
    BY <1>4 DEF UrdfTakes
  <2>2. Held = << >> /\ Held' = IF Head(readyQueue) = None THEN << >> ELSE <<Head(readyQueue)>>
    BY <2>1 DEF Held
  <2> QED  BY <1>0, <1>1, <1>3, <2>1, <2>2, ToldTaken DEF FlowShape
<1>5. CASE UrdfRenders
  <2>1. /\ urdf = "render" /\ urdf' = "record" /\ rendered' = Append(rendered, urdfItem)
        /\ UNCHANGED readyQueue
    BY <1>5 DEF UrdfRenders
  <2>2. Held = <<urdfItem>> /\ Held' = << >> /\ urdfItem \in Items
    BY <2>1 DEF Held, Flows, IInv, RenderedIsEpisode
  <2> QED  BY <1>0, <1>1, <1>3, <2>1, <2>2, ToldRendered DEF FlowShape
<1> QED  BY <1>4, <1>5

\* Every other step leaves every episode where it is.
LEMMA NextConserves ==
    ASSUME Flows, [Next]_vars
    PROVE  StreamConserved'
<1>1. CASE \/ SourceTerminated \/ SourceExits \/ SourceRaises \/ SourceDies
           \/ UrdfStarts \/ UrdfRecords \/ UrdfFinishes \/ UrdfReportsError \/ UrdfExits
           \/ UrdfRaises \/ UrdfDies
  <2>1. UNCHANGED <<rendered, produced, readyQueue, backlog, sourcePipe>>
    BY <1>1 DEF SourceTerminated, SourceExits, SourceRaises, SourceDies, UrdfStarts, UrdfRecords,
       UrdfFinishes, UrdfReportsError, UrdfExits, UrdfRaises, UrdfDies, urdfVars, sourceVars,
       parentVars, loopVars
  <2>2. urdf' \notin Failed =>
            /\ urdf \notin Failed
            /\ urdf' \in {"start", "render"} <=> urdf \in {"start", "render"}
            /\ urdf' \in {"start", "render"} => urdfItem' = urdfItem
    BY <1>1 DEF SourceTerminated, SourceExits, SourceRaises, SourceDies, UrdfStarts, UrdfRecords,
       UrdfFinishes, UrdfReportsError, UrdfExits, UrdfRaises, UrdfDies, urdfVars, Failed
  <2> QED  BY <2>1, <2>2, StillConserved
<1>2. CASE \/ StartUrdf \/ StartSource \/ ReceiveUrdf \/ NoticeDeath \/ LeaveLoop \/ TerminateSource
           \/ SourceJoined \/ TerminateUrdf \/ UrdfJoined \/ StartFails \/ Interrupt
           \/ CloseSends \/ BreakOff \/ UNCHANGED vars
  <2>1. UNCHANGED <<rendered, produced, readyQueue, backlog, sourcePipe>>
    BY <1>2 DEF StartUrdf, StartSource, ReceiveUrdf, NoticeDeath, LeaveLoop, TerminateSource,
       SourceJoined, TerminateUrdf, UrdfJoined, StartFails, Interrupt, CloseSends, BreakOff, urdfVars, sourceVars,
       parentVars, loopVars, vars
  <2>2. urdf' \notin Failed =>
            /\ urdf \notin Failed
            /\ urdf' \in {"start", "render"} <=> urdf \in {"start", "render"}
            /\ urdf' \in {"start", "render"} => urdfItem' = urdfItem
    BY <1>2 DEF StartUrdf, StartSource, ReceiveUrdf, NoticeDeath, LeaveLoop, TerminateSource,
       SourceJoined, TerminateUrdf, UrdfJoined, StartFails, Interrupt, CloseSends, BreakOff, urdfVars, vars, Flows,
       Ending, Failed
  <2> QED  BY <2>1, <2>2, StillConserved
<1> QED
  BY <1>1, <1>2, SourceConserves, ReceiveConserves, OfferConserves, TakeConserves
     DEF Next, SourceStep, UrdfStep, ParentStep

-----------------------------------------------------------------------------
LEMMA ResultAppended ==
    ASSUME NEW S, NEW s \in Seq(S), NEW m \in S, NEW kinds
    PROVE  HasResult(Append(s, m), kinds) => HasResult(s, kinds) \/ m.kind \in kinds
<1> SUFFICES ASSUME NEW i \in DOMAIN Append(s, m), Append(s, m)[i].kind \in kinds
             PROVE  HasResult(s, kinds) \/ m.kind \in kinds
  BY DEF HasResult
<1>1. i = Len(s) + 1 \/ (i \in DOMAIN s /\ Append(s, m)[i] = s[i])
  OBVIOUS
<1>2. i = Len(s) + 1 => Append(s, m)[i] = m
  OBVIOUS
<1> QED  BY <1>1, <1>2 DEF HasResult

LEMMA ResultTaken ==
    ASSUME NEW S, NEW s \in Seq(S), s # << >>, NEW kinds
    PROVE  /\ HasResult(Tail(s), kinds) => HasResult(s, kinds)
           /\ Head(s).kind \in kinds => HasResult(s, kinds)
<1>1. ASSUME NEW i \in DOMAIN Tail(s), Tail(s)[i].kind \in kinds
      PROVE  HasResult(s, kinds)
  <2>1. i + 1 \in DOMAIN s /\ s[i + 1] = Tail(s)[i]
    BY TailMoves
  <2> QED  BY <1>1, <2>1 DEF HasResult
<1>2. 1 \in DOMAIN s /\ Head(s) = s[1]
  BY TailMoves
<1> QED  BY <1>1, <1>2 DEF HasResult

\* Once everything is over the source has ended, and what it produced is all.
LEMMA OverAfterSource ==
    ASSUME Flows, Over
    PROVE  sourceDone /\ backlog = << >> /\ sourceAt = Len(EpisodeIds) /\ source \in {"closing", "exited"}
BY DEF Flows, EndInv, SentinelClosesQueue, Ending, Over

LEMMA SourceKeepsEnding ==
    ASSUME Flows, SourceStep \/ SourceRaises \/ SourceDies
    PROVE  Ending'
<1>0. FlowShape /\ Ending
  BY FlowTypes DEF Flows
<1>1. UNCHANGED <<urdf, urdfPipe, urdfResult, rendered, readyQueue, sentinelSent, sourceDone, parent>>
  BY DEF SourceStep, SourceStage, SourceAnnounces, SourceFinishes, SourceReportsError,
     SourceTerminated, SourceExits, SourceRaises, SourceDies, urdfVars, parentVars, loopVars
<1>2. Over => Over'
  <2>1. Over => UNCHANGED produced
    BY OverAfterSource DEF SourceStep, SourceStage, SourceAnnounces, SourceFinishes,
       SourceReportsError, SourceTerminated, SourceExits, SourceRaises, SourceDies
  <2> QED  BY <1>1, <2>1 DEF Over
<1>3. sourceDone \/ HasResult(sourcePipe, {"result"}) => sourceAt' = sourceAt /\ source' \in {"closing", "exited"}
  <2>1. sourceDone \/ HasResult(sourcePipe, {"result"}) => source \in {"closing", "exited"}
    BY <1>0 DEF Ending
  <2> QED  BY <2>1 DEF SourceStep, SourceStage, SourceAnnounces, SourceFinishes, SourceReportsError,
              SourceTerminated, SourceExits, SourceRaises, SourceDies
<1>4. HasResult(sourcePipe', {"result"}) =>
          \/ HasResult(sourcePipe, {"result"})
          \/ sourceAt' = Len(EpisodeIds) /\ source' = "closing"
  <2>1. CASE SourceFinishes
    BY <2>1 DEF SourceFinishes
  <2>2. CASE SourceTerminated \/ SourceExits \/ SourceRaises \/ SourceDies
    <3>1. UNCHANGED sourcePipe
      BY <2>2 DEF SourceTerminated, SourceExits, SourceRaises, SourceDies
    <3> QED  BY <3>1
  <2>3. CASE SourceStage \/ SourceAnnounces \/ SourceReportsError
    <3>1. PICK item : item = Item(EpisodeIds[sourceAt + 1])
      OBVIOUS
    <3>2. SourceAnnounces => item \in Items
      BY <3>1, EpisodeItems, StreamingAssumption DEF SourceAnnounces, Flows, IInv, TypeOK, AnnouncedWasAsked
    <3>3. \E m \in SourceMessage : m.kind # "result" /\ sourcePipe' = Append(sourcePipe, m)
      <4>1. CASE SourceStage \/ SourceReportsError
        <5>1. PICK k \in {"event", "error"} : sourcePipe' = Append(sourcePipe, Message(k, None))
          BY <4>1 DEF SourceStage, SourceReportsError, SourceSends
        <5>2. Message(k, None) \in SourceMessage /\ Message(k, None).kind = k
          BY SourceMessages DEF Message
        <5> QED  BY <5>1, <5>2
      <4>2. CASE SourceAnnounces
        <5>1. PICK k \in {"ready", "unready"} : sourcePipe' = Append(sourcePipe, Message(k, item))
          BY <3>1, <4>2 DEF SourceAnnounces, SourceSends
        <5>2. Message(k, item) \in SourceMessage /\ Message(k, item).kind = k
          BY <3>2, <4>2, SourceMessages DEF Message
        <5> QED  BY <5>1, <5>2
      <4> QED  BY <2>3, <4>1, <4>2
    <3>4. PICK m \in SourceMessage : m.kind # "result" /\ sourcePipe' = Append(sourcePipe, m)
      BY <3>3
    <3> QED  BY <1>0, <3>4, ResultAppended DEF FlowShape
  <2> QED  BY <2>1, <2>2, <2>3 DEF SourceStep
<1>5. sourceDone' \/ HasResult(sourcePipe', {"result"}) =>
          sourceAt' = Len(EpisodeIds) /\ source' \in {"closing", "exited"}
  <2>1. sourceDone \/ HasResult(sourcePipe, {"result"}) => sourceAt = Len(EpisodeIds)
    BY <1>0 DEF Ending
  <2> QED  BY <1>1, <1>3, <1>4, <2>1
<1> QED  BY <1>0, <1>1, <1>2, <1>5 DEF Ending

\* At the sentinel every episode has its record.
LEMMA SentinelFindsAllRendered ==
    ASSUME Flows, urdf = "get", readyQueue # << >>, Head(readyQueue) = None
    PROVE  sentinelSent /\ Tail(readyQueue) = << >> /\ rendered = produced
<1>0. FlowShape
  BY FlowTypes DEF Flows
<1>1. /\ 1 \in DOMAIN readyQueue /\ readyQueue[1] = None /\ Len(readyQueue) \in Nat
      /\ Len(Tail(readyQueue)) = Len(readyQueue) - 1
      /\ Tail(readyQueue) \in Seq(Entries)
  BY <1>0, TailMoves DEF FlowShape
<1>2. sentinelSent /\ Len(readyQueue) = 1 /\ sourceDone /\ backlog = << >>
  BY <1>1 DEF Flows, EndInv, SentinelClosesQueue
<1>3. Tail(readyQueue) = << >>
  <2>1. PICK t \in Seq(Entries) : t = Tail(readyQueue)
    BY <1>1
  <2>2. Len(t) = 0
    BY <1>1, <1>2, <2>1
  <2>3. t = << >>
    BY <2>2
  <2> QED  BY <2>1, <2>3
<1>4. Episodes(Announced(sourcePipe)) = << >>
  <2>1. PICK a \in Seq(Entries) :
            /\ a = Announced(sourcePipe) /\ Len(a) = Len(sourcePipe)
            /\ \A i \in 1..Len(sourcePipe) : a[i] = Announces(sourcePipe[i])
    BY <1>0, AnnouncedEntries DEF FlowShape
  <2>2. \A i \in 1..Len(sourcePipe) : sourcePipe[i].kind # "ready"
    BY <1>0, <1>2 DEF Flows, EndInv, NothingAfterResult, FlowShape
  <2>3. \A i \in 1..Len(a) : a[i] = None
    BY <2>1, <2>2 DEF Announces
  <2>4. a \in Seq({None})
    BY <2>3
  <2> QED  BY <2>1, <2>4, NothingButNone
<1>5. Told(rendered, << >>, << >>, << >>, Announced(sourcePipe)) = produced
  <2>1. Held = << >>
    BY DEF Held
  <2>2. Told(rendered, << >>, readyQueue, backlog, Announced(sourcePipe)) = produced
    BY <2>1, ConservedIsTold DEF Flows, Failed
  <2>3. Told(rendered, << >>, Tail(readyQueue), backlog, Announced(sourcePipe)) = produced
    BY <1>0, <2>2, ToldTaken DEF FlowShape
  <2> QED  BY <1>2, <1>3, <2>3
<1>6. rendered = produced
  <2>1. << >> \o << >> \o Announced(sourcePipe) = Announced(sourcePipe)
    BY <1>0, EmptySeq, ConcatEmptySeq DEF FlowShape
  <2>2. rendered \o << >> \o << >> = rendered
    BY <1>0, ConcatEmptySeq DEF FlowShape
  <2> QED  BY <1>4, <1>5, <2>1, <2>2 DEF Told
<1> QED  BY <1>2, <1>3, <1>6

LEMMA UrdfKeepsEnding ==
    ASSUME Flows, UrdfStep \/ UrdfRaises \/ UrdfDies
    PROVE  Ending'
<1>0. FlowShape /\ Ending /\ urdfPipe \in Seq(UrdfMessage) /\ urdfItem \in Items \cup {None}
  BY FlowTypes DEF Flows, IInv, TypeOK
<1>1. UNCHANGED <<urdfResult, sentinelSent, sourceDone, produced, source, sourceAt, sourcePipe, parent>>
  BY DEF UrdfStep, UrdfTakes, UrdfStarts, UrdfRenders, UrdfRecords, UrdfFinishes, UrdfReportsError,
     UrdfExits, UrdfRaises, UrdfDies, sourceVars, parentVars, loopVars
<1>2. (sourceDone \/ HasResult(sourcePipe, {"result"}) =>
           sourceAt = Len(EpisodeIds) /\ source \in {"closing", "exited"})'
  BY <1>0, <1>1 DEF Ending
<1>3. (parent = "returned" => urdfResult = "result")' /\ (parent = "startUrdf" => urdf = "unstarted")'
  BY <1>0, <1>1 DEF Ending, UrdfStep, UrdfTakes, UrdfStarts, UrdfRenders, UrdfRecords, UrdfFinishes,
     UrdfReportsError, UrdfExits, UrdfRaises, UrdfDies, UrdfAlive
<1>4. CASE UrdfTakes
  <2>1. urdf = "get" /\ UNCHANGED <<urdfPipe, rendered>>
    BY <1>4 DEF UrdfTakes
  <2>2. urdf' = "result" => Over'
    BY <1>1, <1>4, <2>1, SentinelFindsAllRendered DEF UrdfTakes, Over
  <2> QED  BY <1>0, <1>1, <1>2, <1>3, <2>1, <2>2 DEF Ending
<1>5. CASE UrdfRenders
  <2>1. urdf = "render" /\ urdf' = "record" /\ UNCHANGED urdfPipe
    BY <1>5 DEF UrdfRenders
  <2>2. rendered' # << >>
    BY <1>0, <1>5 DEF UrdfRenders, FlowShape
  <2> QED  BY <1>0, <1>1, <1>2, <1>3, <2>1, <2>2 DEF Ending
<1>6. CASE UrdfFinishes
  <2>1. /\ urdf = "result" /\ urdf' = "closing" /\ UNCHANGED <<rendered, readyQueue>>
        /\ urdfPipe' = Append(urdfPipe, Message(IF rendered = << >> THEN "noresult" ELSE "result", None))
    BY <1>6 DEF UrdfFinishes, UrdfSends
  <2>2. Over'
    BY <1>0, <1>1, <2>1 DEF Ending, Over
  <2>3. PICK m \in UrdfMessage : urdfPipe' = Append(urdfPipe, m) /\ (rendered = << >> => m.kind # "result")
    <3>1. CASE rendered = << >>
      <4>1. Message("noresult", None) \in UrdfMessage /\ Message("noresult", None).kind = "noresult"
        BY UrdfMessages DEF Message
      <4> QED  BY <2>1, <3>1, <4>1
    <3>2. CASE rendered # << >>
      BY <2>1, <3>2, UrdfMessages
    <3> QED  BY <3>1, <3>2
  <2>4. HasResult(urdfPipe', {"result"}) => HasResult(urdfPipe, {"result"}) \/ m.kind \in {"result"}
    BY <1>0, <2>3, ResultAppended
  <2>5. urdf' \in {"closing", "exited"} /\ urdf' # "result"
    BY <2>1
  <2>6. (urdfResult = "result" \/ HasResult(urdfPipe, {"result"}) => rendered # << >>)'
    BY <1>0, <1>1, <2>1, <2>3, <2>4 DEF Ending
  <2> QED  BY <1>2, <1>3, <2>2, <2>5, <2>6 DEF Ending
<1>7. CASE UrdfStarts \/ UrdfRecords \/ UrdfReportsError
  <2>1. /\ urdf \in {"start", "record", "error"} /\ urdf' \in {"render", "get", "closing"}
        /\ UNCHANGED <<rendered, readyQueue>>
    BY <1>7 DEF UrdfStarts, UrdfRecords, UrdfReportsError
  <2>2. PICK m \in UrdfMessage : m.kind \notin {"result", "noresult"} /\ urdfPipe' = Append(urdfPipe, m)
    <3>1. CASE UrdfReportsError
      <4>1. Message("error", None) \in UrdfMessage /\ Message("error", None).kind = "error"
        BY UrdfMessages DEF Message
      <4> QED  BY <3>1, <4>1 DEF UrdfReportsError, UrdfSends
    <3>2. CASE UrdfStarts \/ UrdfRecords
      <4>1. urdfItem \in Items
        BY <2>1, <3>2 DEF Flows, IInv, RenderedIsEpisode, UrdfStarts, UrdfRecords
      <4>2. PICK k \in {"event", "episode"} : urdfPipe' = Append(urdfPipe, Message(k, urdfItem))
        BY <3>2 DEF UrdfStarts, UrdfRecords, UrdfSends
      <4>3. Message(k, urdfItem) \in UrdfMessage /\ Message(k, urdfItem).kind = k
        BY <4>1, UrdfMessages DEF Message
      <4> QED  BY <4>2, <4>3
    <3> QED  BY <1>7, <3>1, <3>2
  <2>3. /\ HasResult(urdfPipe', {"result", "noresult"}) => HasResult(urdfPipe, {"result", "noresult"})
        /\ HasResult(urdfPipe', {"result"}) => HasResult(urdfPipe, {"result"})
    <3>1. m.kind \notin {"result"}
      BY <2>2
    <3>2. \A kinds : HasResult(urdfPipe', kinds) => HasResult(urdfPipe, kinds) \/ m.kind \in kinds
      BY <1>0, <2>2, ResultAppended
    <3> QED  BY <2>2, <3>1, <3>2
  <2>4. ~(urdfResult # "none" \/ HasResult(urdfPipe, {"result", "noresult"}))
    BY <1>0, <2>1 DEF Ending
  <2>5. (urdfResult = "result" \/ HasResult(urdfPipe, {"result"}) => rendered # << >>)'
    BY <1>0, <1>1, <2>1, <2>3 DEF Ending
  <2> QED  BY <1>1, <1>2, <1>3, <2>1, <2>3, <2>4, <2>5 DEF Ending
<1>8. CASE UrdfExits \/ UrdfRaises \/ UrdfDies
  <2>1. /\ urdf' # "result" /\ UNCHANGED <<rendered, readyQueue, urdfPipe>>
        /\ urdf \in {"closing", "exited"} => urdf' \in {"closing", "exited"}
    BY <1>8 DEF UrdfExits, UrdfRaises, UrdfDies
  <2> QED  BY <1>0, <1>1, <1>2, <1>3, <2>1 DEF Ending, Over
<1> QED  BY <1>4, <1>5, <1>6, <1>7, <1>8 DEF UrdfStep

\* What the parent reads was in a pipe; only a result with a record is returned.
LEMMA ParentKeepsEnding ==
    ASSUME Flows, ParentStep \/ StartFails \/ Interrupt \/ BreakOff
    PROVE  Ending'
<1>0. FlowShape /\ Ending /\ urdfPipe \in Seq(UrdfMessage)
  BY FlowTypes DEF Flows, IInv, TypeOK
<1>1. CASE OfferReady \/ SendSentinel
  <2>1. ~sentinelSent
    BY <1>1 DEF OfferReady, SendSentinel, Flows, EndInv, SentinelClosesQueue
  <2>2. /\ UNCHANGED <<source, sourceAt, sourcePipe, sourceDone, urdf, urdfPipe, urdfResult, parent>>
        /\ UNCHANGED rendered
    BY <1>1 DEF OfferReady, SendSentinel, sourceVars, urdfVars, parentVars
  <2> QED  BY <1>0, <2>1, <2>2 DEF Ending, Over
<1>2. CASE ReceiveSource
  <2>1. PICK m \in SourceMessage : m = Head(sourcePipe)
    BY <1>0, <1>2 DEF ReceiveSource, MayReadSource, FlowShape
  <2>2. /\ sourcePipe # << >> /\ sourcePipe' = Tail(sourcePipe)
        /\ sourceDone' => sourceDone \/ m.kind \in {"result"}
    <3>1. sourceDone' = (sourceDone \/ m.kind = "result")
      BY <1>2, <2>1, Zenon DEF ReceiveSource
    <3> QED  BY <1>2, <3>1 DEF ReceiveSource, MayReadSource
  <2>3. sourceDone' \/ HasResult(sourcePipe', {"result"}) => sourceDone \/ HasResult(sourcePipe, {"result"})
    BY <1>0, <2>1, <2>2, ResultTaken DEF FlowShape
  <2>4. UNCHANGED <<source, sourceAt, urdf, urdfPipe, urdfResult, parent, rendered, produced, readyQueue, sentinelSent>>
    BY <1>2 DEF ReceiveSource, urdfVars
  <2> QED  BY <1>0, <2>3, <2>4 DEF Ending, Over
<1>3. CASE ReceiveUrdf
  <2>1. PICK m \in UrdfMessage : m = Head(urdfPipe)
    BY <1>0, <1>3 DEF ReceiveUrdf
  <2>2. /\ urdfPipe # << >> /\ urdfPipe' = Tail(urdfPipe)
        /\ urdfResult' = IF m.kind \in {"result", "noresult"} THEN m.kind ELSE urdfResult
    BY <1>3, <2>1 DEF ReceiveUrdf
  <2>3. /\ HasResult(urdfPipe', {"result", "noresult"}) => HasResult(urdfPipe, {"result", "noresult"})
        /\ HasResult(urdfPipe', {"result"}) => HasResult(urdfPipe, {"result"})
        /\ m.kind \in {"result", "noresult"} => HasResult(urdfPipe, {"result", "noresult"})
        /\ m.kind \in {"result"} => HasResult(urdfPipe, {"result"})
    BY <1>0, <2>1, <2>2, ResultTaken
  <2>4. /\ urdfResult' # "none" => urdfResult # "none" \/ m.kind \in {"result", "noresult"}
        /\ urdfResult' = "result" => urdfResult = "result" \/ m.kind \in {"result"}
    BY <2>2
  <2>5. /\ UNCHANGED <<source, sourceAt, sourcePipe, sourceDone, urdf, parent, rendered, produced, readyQueue, sentinelSent>>
        /\ parent = "looping"
    BY <1>3 DEF ReceiveUrdf, Looping, sourceVars
  <2> QED  BY <1>0, <2>3, <2>4, <2>5 DEF Ending, Over
<1>4. CASE StartUrdf \/ StartSource
  <2>1. /\ UNCHANGED <<sourceAt, sourcePipe, sourceDone, urdfPipe, urdfResult, rendered, produced,
                       readyQueue, sentinelSent>>
        /\ parent \in {"startUrdf", "startSource"} /\ parent' \in {"startSource", "started"}
        /\ urdf' \in {"get", urdf}
    BY <1>4 DEF StartUrdf, StartSource, loopVars, sourceVars, urdfVars
  <2>2. /\ source = "unstarted" /\ urdf \in {"unstarted", "get", "exited"}
        /\ parent = "startUrdf" => urdf = "unstarted"
    BY <1>0, <2>1 DEF Flows, IInv, NothingBeforeStart, Ending
  <2>3. ~(sourceDone \/ HasResult(sourcePipe, {"result"}))
    BY <1>0, <2>2 DEF Ending
  <2>4. StartUrdf => ~(urdfResult # "none" \/ HasResult(urdfPipe, {"result", "noresult"}))
    BY <1>0, <2>2 DEF Ending, StartUrdf
  <2>5. StartSource => urdf' = urdf
    BY DEF StartSource, urdfVars
  <2>6. (urdfResult # "none" \/ HasResult(urdfPipe, {"result", "noresult"}) =>
             Over /\ urdf \in {"closing", "exited"})'
    BY <1>0, <1>4, <2>1, <2>4, <2>5 DEF Ending, Over
  <2> QED  BY <1>0, <2>1, <2>2, <2>3, <2>6 DEF Ending
<1>5. CASE \/ NoticeDeath \/ LeaveLoop \/ TerminateSource \/ SourceJoined \/ TerminateUrdf
           \/ UrdfJoined \/ StartFails \/ Interrupt \/ CloseSends \/ BreakOff
  <2>1. /\ UNCHANGED <<source, sourceAt, sourcePipe, sourceDone, urdfPipe, urdfResult, rendered,
                       produced, readyQueue, sentinelSent>>
        /\ urdf' \in {urdf, "exited"}
        /\ parent' = "startUrdf" => parent = "startUrdf" /\ urdf' = urdf
        /\ parent' = "returned" => urdfResult = "result" \/ parent = "returned"
    BY <1>5 DEF NoticeDeath, LeaveLoop, TerminateSource, SourceJoined, TerminateUrdf, UrdfJoined,
       StartFails, Interrupt, CloseSends, BreakOff, Looping, loopVars, sourceVars, urdfVars, parentVars
  <2> QED  BY <1>0, <2>1 DEF Ending, Over
<1> QED  BY <1>1, <1>2, <1>3, <1>4, <1>5 DEF ParentStep

LEMMA InitFlows == Init => StreamConserved /\ Ending
<1> SUFFICES ASSUME Init PROVE StreamConserved /\ Ending
  OBVIOUS
<1>1. Ending
  BY DEF Init, Ending, HasResult
<1>2. Announced(<< >>) = << >>
  <2>1. << >> \in Seq(SourceMessage) /\ Len(<< >>) = 0
    BY EmptySeq
  <2>2. Announced(<< >>) \in Seq(Entries) /\ Len(Announced(<< >>)) = 0
    BY <2>1, AnnouncedEntries
  <2>3. \A t \in Seq(Entries) : Len(t) = 0 => t = << >>
    OBVIOUS
  <2> QED  BY <2>2, <2>3
<1>3. << >> \o << >> \o << >> = << >>
  BY EmptySeq, ConcatEmptySeq
<1>4. Held = << >>
  BY DEF Init, Held
<1>5. StreamConserved
  BY <1>2, <1>3, <1>4, NoEpisodes DEF Init, StreamConserved
<1> QED  BY <1>1, <1>5

LEMMA FlowsInvariant == Spec => []Flows
<1>1. Flows /\ [Next]_vars => Ending'
  <2>1. Flows /\ UNCHANGED vars => Ending'
    BY DEF Flows, Ending, Over, HasResult, vars, sourceVars, urdfVars, parentVars, loopVars
  <2> QED  BY <2>1, SourceKeepsEnding, UrdfKeepsEnding, ParentKeepsEnding DEF Next
<1>2. Init => Flows
  BY InitIInv, InitEndInv, InitFlows DEF Flows
<1>3. Flows /\ [Next]_vars => Flows'
  <2>1. IInv /\ [Next]_vars => IInv'
    BY SourceKeepsIInv, UrdfKeepsIInv, ParentKeepsIInv, StutterKeepsIInv DEF Next
  <2>2. IInv /\ EndInv /\ [Next]_vars => EndInv'
    <3>1. IInv /\ EndInv /\ UNCHANGED vars => EndInv'
      BY DEF EndInv, NothingAfterResult, SentinelClosesQueue, vars, sourceVars, parentVars, loopVars
    <3> QED  BY <3>1, SourceKeepsEndInv, UrdfKeepsEndInv, ParentKeepsEndInv DEF Next
  <2>3. Flows /\ [Next]_vars => IInv' /\ EndInv'
    BY <2>1, <2>2 DEF Flows
  <2> QED  BY <1>1, <2>3, NextConserves DEF Flows
<1> QED  BY <1>2, <1>3, PTL DEF Spec

\* From the source's announcement to the renderer's record no usable episode is
\* dropped, repeated or overtaken, for any number of episodes, queue capacity
\* and pipe size.
THEOREM EveryEpisodeInItsPlace == Spec => []StreamConserved
<1>1. Flows => StreamConserved
  BY DEF Flows
<1> QED  BY FlowsInvariant, <1>1, PTL

\* A caller that gets a result gets it for the whole batch: the source has
\* announced every episode, and each usable one has its record, in order.
THEOREM ReturnedResultIsWhole == Spec => []ReturnedIsWhole
<1>1. Flows => ReturnedIsWhole
  <2> SUFFICES ASSUME Flows, parent = "returned" PROVE ReturnedIsWhole
    BY DEF ReturnedIsWhole
  <2>1. urdfResult = "result" /\ Over /\ rendered # << >>
    BY DEF Flows, Ending
  <2>2. sourceDone /\ sourceAt = Len(EpisodeIds)
    BY <2>1, OverAfterSource
  <2> QED  BY <2>1, <2>2 DEF ReturnedIsWhole, Over
<1> QED  BY FlowsInvariant, <1>1, PTL

-----------------------------------------------------------------------------
(* Termination, without its fairness: every step brings the end nearer, and *)
(* somebody can take one.                                                   *)

\* What the processes still have to do, at most: a message, a waiting episode
\* and a state of a process weigh more than all that comes of them.
SourceWork ==
    CASE source = "unstarted" -> 22
      [] source = "stage" -> 21
      [] source = "announce" -> 12
      [] source = "error" -> 10
      [] source = "closing" -> 1
      [] source = "exited" -> 0
UrdfWork ==
    CASE urdf = "start" -> 10
      [] urdf = "render" -> 8
      [] urdf = "record" -> 7
      [] urdf = "unstarted" -> 6
      [] urdf = "get" -> 5
      [] urdf = "result" -> 4
      [] urdf = "error" -> 3
      [] urdf = "closing" -> 1
      [] urdf = "exited" -> 0
ParentWork ==
    CASE parent = "startUrdf" -> 11
      [] parent = "startSource" -> 10
      [] parent = "started" -> 9
      [] parent = "looping" -> 8
      [] parent = "joinSource" -> 5
      [] parent = "awaitSource" -> 3
      [] parent = "joinUrdf" -> 2
      [] parent \in {"returned", "raised"} -> 0
Unread == 8 * Len(sourcePipe) + 7 * Len(backlog) + 6 * Len(readyQueue) + Len(urdfPipe)
Unsaid == (IF sigterm THEN 1 ELSE 0) + (IF sentinelSent THEN 0 ELSE 7) + (IF childError THEN 0 ELSE 1)

EpisodesLeft == Len(EpisodeIds) - sourceAt
WorkLeft == 18 * EpisodesLeft + SourceWork + UrdfWork + ParentWork + Unread + Unsaid

\* A process can take a step of its own (the guards of SourceStep, UrdfStep and
\* ParentStep).
SourceMayMove ==
    \/ sigterm \/ source = "closing"
    \/ source \in {"stage", "announce", "error"} /\ Len(sourcePipe) < PipeSize
UrdfMayMove ==
    \/ urdf = "get" /\ readyQueue # << >>
    \/ urdf \in {"render", "closing"}
    \/ urdf \in {"start", "record", "result", "error"} /\ Len(urdfPipe) < PipeSize
ParentMayMove ==
    \/ parent \in {"startUrdf", "startSource", "started", "joinSource", "joinUrdf"}
    \/ parent = "awaitSource" /\ ~SourceAlive
    \/ parent = "looping" /\ ~Looping
    \/ Looping /\ (MayReadSource \/ urdfPipe # << >>)
    \/ Looping /\ Len(readyQueue) < BufferSize /\ (backlog # << >> \/ (sourceDone /\ ~sentinelSent))
    \/ Looping /\ ~SourceAlive /\ sourcePipe = << >> /\ ~sourceDone
    \/ Looping /\ ~UrdfAlive /\ urdfPipe = << >> /\ urdfResult = "none"

SomebodyMoves ==
    parent \notin {"returned", "raised"} =>
        SourceMayMove \/ UrdfMayMove \/ ParentMayMove \/ SourceStuck

Counted ==
    /\ EpisodesLeft \in Nat /\ sourceAt \in Nat /\ Len(EpisodeIds) \in Nat
    /\ SourceWork \in Nat /\ UrdfWork \in Nat /\ ParentWork \in Nat
    /\ Len(sourcePipe) \in Nat /\ Len(backlog) \in Nat /\ Len(readyQueue) \in Nat
    /\ Len(urdfPipe) \in Nat /\ Unread \in Nat /\ Unsaid \in Nat /\ WorkLeft \in Nat
    /\ sigterm \in BOOLEAN /\ sentinelSent \in BOOLEAN /\ childError \in BOOLEAN

LEMMA WorkIsCounted == IInv => Counted
<1> SUFFICES ASSUME IInv PROVE Counted
  OBVIOUS
<1>1. EpisodesLeft \in Nat /\ sourceAt \in Nat /\ Len(EpisodeIds) \in Nat
  BY StreamingAssumption DEF IInv, TypeOK, EpisodesLeft
<1>2. /\ Len(sourcePipe) \in Nat /\ Len(backlog) \in Nat /\ Len(readyQueue) \in Nat
      /\ Len(urdfPipe) \in Nat
  BY DEF IInv, TypeOK
<1>3. SourceWork \in Nat
  BY DEF IInv, TypeOK, SourceWork
<1>4. UrdfWork \in Nat
  BY DEF IInv, TypeOK, UrdfWork
<1>5. ParentWork \in Nat
  BY DEF IInv, TypeOK, Unguarded, ParentWork
<1>6. /\ Unread \in Nat /\ Unsaid \in Nat
      /\ sigterm \in BOOLEAN /\ sentinelSent \in BOOLEAN /\ childError \in BOOLEAN
  BY <1>2 DEF Unread, Unsaid, IInv, TypeOK
<1>7. WorkLeft \in Nat
  BY <1>1, <1>3, <1>4, <1>5, <1>6 DEF WorkLeft, EpisodesLeft
<1> QED  BY <1>1, <1>2, <1>3, <1>4, <1>5, <1>6, <1>7 DEF Counted

LEMMA WorkIsCountedThen == IInv' => Counted'
BY WorkIsCounted, PTL

LEMMA LengthsMove ==
    ASSUME NEW S, NEW s \in Seq(S)
    PROVE  /\ \A e \in S : Len(Append(s, e)) = Len(s) + 1
           /\ s # << >> => Len(Tail(s)) = Len(s) - 1
OBVIOUS

LEMMA SentLengthens ==
    ASSUME NEW s, NEW S, s \in Seq(S), NEW e
    PROVE  Len(Append(s, e)) = Len(s) + 1
<1>1. Len(s) \in Nat /\ s \in Seq(S \cup {e})
  OBVIOUS
<1> QED  BY <1>1, AppendProperties

\* The parts of WorkLeft by name, so that they can be added up.
Parts(e, s, u, p, r, n) ==
    /\ e = EpisodesLeft /\ s = SourceWork /\ u = UrdfWork /\ p = ParentWork
    /\ r = Unread /\ n = Unsaid

LEMMA PartsAreNumbers ==
    ASSUME IInv, IInv'
    PROVE  /\ \E e, s, u, p, r, n \in Nat : Parts(e, s, u, p, r, n)
           /\ \E e, s, u, p, r, n \in Nat : Parts(e, s, u, p, r, n)'
<1>1. Counted /\ Counted'
  BY WorkIsCounted, WorkIsCountedThen
<1> QED  BY <1>1 DEF Counted, Parts

LEMMA PartsAddUp ==
    ASSUME NEW e, NEW s, NEW u, NEW p, NEW r, NEW n, Parts(e, s, u, p, r, n),
           NEW f, NEW t, NEW v, NEW q, NEW w, NEW m, Parts(f, t, v, q, w, m)',
           18 * f + t + v + q + w + m < 18 * e + s + u + p + r + n
    PROVE  WorkLeft' < WorkLeft
BY DEF Parts, WorkLeft

LEMMA SourceProgress ==
    ASSUME IInv, IInv', SourceStep \/ SourceRaises \/ SourceDies
    PROVE  WorkLeft' < WorkLeft
<1>0. Counted /\ Counted'
  BY WorkIsCounted, WorkIsCountedThen
<1>1. /\ UrdfWork' = UrdfWork /\ ParentWork' = ParentWork
      /\ UNCHANGED <<readyQueue, backlog, urdfPipe, sentinelSent, childError>>
  BY DEF SourceStep, SourceStage, SourceAnnounces, SourceFinishes, SourceReportsError,
     SourceTerminated, SourceExits, SourceRaises, SourceDies, urdfVars, parentVars, loopVars,
     UrdfWork, ParentWork
<1>2. PICK e, s, u, p, r, n \in Nat : Parts(e, s, u, p, r, n)
  BY PartsAreNumbers
<1>3. PICK f, t, v, q, w, m \in Nat : Parts(f, t, v, q, w, m)'
  BY PartsAreNumbers
<1>4. v = u /\ q = p
  BY <1>1, <1>2, <1>3 DEF Parts
<1>5. CASE SourceStage \/ SourceAnnounces \/ SourceFinishes \/ SourceReportsError
  <2>1. Len(sourcePipe') = Len(sourcePipe) + 1 /\ sigterm' = sigterm
    <3>1. \A x : Len(Append(sourcePipe, x)) = Len(sourcePipe) + 1
      BY SentLengthens DEF IInv, TypeOK
    <3> QED
      BY <1>5, <3>1 DEF SourceStage, SourceAnnounces, SourceFinishes, SourceReportsError, SourceSends
  <2>2. Unread' = Unread + 8 /\ Unsaid' = Unsaid
    BY <1>0, <1>1, <2>1 DEF Unread, Unsaid, Counted
  <2>3. \/ EpisodesLeft' = EpisodesLeft /\ SourceWork' + 9 <= SourceWork
        \/ EpisodesLeft' = EpisodesLeft - 1 /\ SourceWork' = SourceWork + 9
    <3>1. CASE SourceStage
      <4>1. SourceWork = 21 /\ SourceWork' = 12 /\ sourceAt' = sourceAt
        BY <3>1 DEF SourceStage, SourceWork
      <4> QED  BY <4>1 DEF EpisodesLeft
    <3>2. CASE SourceAnnounces
      <4>1. SourceWork = 12 /\ SourceWork' = 21 /\ sourceAt' = sourceAt + 1
        BY <3>2 DEF SourceAnnounces, SourceWork
      <4> QED  BY <1>0, <4>1 DEF EpisodesLeft, Counted
    <3>3. CASE SourceFinishes
      <4>1. SourceWork = 21 /\ SourceWork' = 1 /\ sourceAt' = sourceAt
        BY <3>3 DEF SourceFinishes, SourceWork
      <4> QED  BY <4>1 DEF EpisodesLeft
    <3>4. CASE SourceReportsError
      <4>1. SourceWork = 10 /\ SourceWork' = 1 /\ sourceAt' = sourceAt
        BY <3>4 DEF SourceReportsError, SourceWork
      <4> QED  BY <4>1 DEF EpisodesLeft
    <3> QED  BY <1>5, <3>1, <3>2, <3>3, <3>4
  <2>4. w = r + 8 /\ m = n
    BY <1>2, <1>3, <2>2 DEF Parts
  <2>5. (f = e /\ t + 9 <= s) \/ (f = e - 1 /\ t = s + 9)
    BY <1>2, <1>3, <2>3 DEF Parts
  <2>6. 18 * f + t + v + q + w + m < 18 * e + s + u + p + r + n
    BY <1>4, <2>4, <2>5
  <2> QED  BY <1>2, <1>3, <2>6, PartsAddUp
<1>6. CASE SourceTerminated \/ SourceExits \/ SourceRaises \/ SourceDies
  <2>1. Unread' = Unread /\ EpisodesLeft' = EpisodesLeft
    BY <1>1, <1>6 DEF Unread, EpisodesLeft, SourceTerminated, SourceExits, SourceRaises, SourceDies
  <2>2. \/ Unsaid' = Unsaid /\ SourceWork' < SourceWork
        \/ Unsaid' = Unsaid - 1 /\ SourceWork' <= SourceWork
    <3>1. CASE SourceTerminated
      <4>1. Unsaid' = Unsaid - 1
        BY <1>0, <1>1, <3>1 DEF Unsaid, SourceTerminated, Counted
      <4>2. SourceWork' <= SourceWork
        <5>1. CASE source \in {"stage", "announce"}
          <6>1. SourceWork' \in {1, 10} /\ SourceWork \in {12, 21}
            BY <3>1, <5>1 DEF SourceTerminated, SourceWork
          <6> QED  BY <6>1
        <5>2. CASE source = "error"
          <6>1. SourceWork' = 1 /\ SourceWork = 10
            BY <3>1, <5>2 DEF SourceTerminated, SourceWork
          <6> QED  BY <6>1
        <5>3. CASE source \notin {"stage", "announce", "error"}
          <6>1. source' = source
            BY <3>1, <5>3 DEF SourceTerminated
          <6>2. SourceWork' = SourceWork
            BY <6>1 DEF SourceWork
          <6> QED  BY <1>0, <6>2 DEF Counted
        <5> QED  BY <5>1, <5>2, <5>3
      <4> QED  BY <4>1, <4>2
    <3>2. CASE SourceExits \/ SourceRaises \/ SourceDies
      <4>1. Unsaid' = Unsaid
        BY <1>1, <3>2 DEF Unsaid, SourceExits, SourceRaises, SourceDies
      <4>2. SourceWork' < SourceWork
        <5>1. CASE SourceExits
          <6>1. SourceWork' = 0 /\ SourceWork = 1
            BY <5>1 DEF SourceExits, SourceWork
          <6> QED  BY <6>1
        <5>2. CASE SourceRaises
          <6>1. SourceWork' = 10 /\ SourceWork \in {12, 21}
            BY <5>2 DEF SourceRaises, SourceWork
          <6> QED  BY <6>1
        <5>3. CASE SourceDies
          <6>1. SourceWork' = 0
            BY <5>3 DEF SourceDies, SourceWork
          <6>2. SourceWork \in {21, 12, 10, 1}
            BY <5>3 DEF SourceDies, SourceAlive, SourceWork, IInv, TypeOK
          <6> QED  BY <6>1, <6>2
        <5> QED  BY <3>2, <5>1, <5>2, <5>3
      <4> QED  BY <4>1, <4>2
    <3> QED  BY <1>6, <3>1, <3>2
  <2>3. f = e /\ w = r /\ ((m = n /\ t < s) \/ (m = n - 1 /\ t <= s))
    BY <1>2, <1>3, <2>1, <2>2 DEF Parts
  <2>4. 18 * f + t + v + q + w + m < 18 * e + s + u + p + r + n
    BY <1>4, <2>3
  <2> QED  BY <1>2, <1>3, <2>4, PartsAddUp
<1> QED  BY <1>5, <1>6 DEF SourceStep

LEMMA UrdfProgress ==
    ASSUME IInv, IInv', UrdfStep \/ UrdfRaises \/ UrdfDies
    PROVE  WorkLeft' < WorkLeft
<1>0. Counted /\ Counted'
  BY WorkIsCounted, WorkIsCountedThen
<1>1. UNCHANGED <<source, sourceAt, sourcePipe, backlog, parent, sigterm, sentinelSent, childError>>
  BY DEF UrdfStep, UrdfTakes, UrdfStarts, UrdfRenders, UrdfRecords, UrdfFinishes, UrdfReportsError,
     UrdfExits, UrdfRaises, UrdfDies, sourceVars, parentVars, loopVars
<1>2. PICK e, s, u, p, r, n \in Nat : Parts(e, s, u, p, r, n)
  BY PartsAreNumbers
<1>3. PICK f, t, v, q, w, m \in Nat : Parts(f, t, v, q, w, m)'
  BY PartsAreNumbers
<1>4. f = e /\ t = s /\ q = p /\ m = n
  <2>1. EpisodesLeft' = EpisodesLeft /\ SourceWork' = SourceWork /\ ParentWork' = ParentWork /\ Unsaid' = Unsaid
    BY <1>1 DEF EpisodesLeft, SourceWork, ParentWork, Unsaid
  <2> QED  BY <1>2, <1>3, <2>1 DEF Parts
<1>5. w + v < r + u
  <2>1. CASE UrdfTakes
    <3>1. Len(readyQueue') = Len(readyQueue) - 1 /\ urdfPipe' = urdfPipe
      BY <2>1, LengthsMove DEF UrdfTakes, IInv, TypeOK
    <3>2. Unread' = Unread - 6
      BY <1>0, <1>1, <3>1 DEF Unread, Counted
    <3>3. UrdfWork = 5 /\ UrdfWork' \in {4, 10}
      BY <2>1 DEF UrdfTakes, UrdfWork
    <3>4. w = r - 6 /\ u = 5 /\ v \in {4, 10}
      BY <1>2, <1>3, <3>2, <3>3 DEF Parts
    <3> QED  BY <3>4
  <2>2. CASE UrdfStarts \/ UrdfRecords \/ UrdfFinishes \/ UrdfReportsError
    <3>1. Len(urdfPipe') = Len(urdfPipe) + 1 /\ readyQueue' = readyQueue
      <4>1. \A x : Len(Append(urdfPipe, x)) = Len(urdfPipe) + 1
        BY SentLengthens DEF IInv, TypeOK
      <4> QED  BY <2>2, <4>1 DEF UrdfStarts, UrdfRecords, UrdfFinishes, UrdfReportsError, UrdfSends
    <3>2. Unread' = Unread + 1
      BY <1>0, <1>1, <3>1 DEF Unread, Counted
    <3>3. UrdfWork' + 2 <= UrdfWork
      BY <2>2, SMTT(60) DEF UrdfStarts, UrdfRecords, UrdfFinishes, UrdfReportsError, UrdfWork
    <3>4. w = r + 1 /\ v + 2 <= u
      BY <1>2, <1>3, <3>2, <3>3 DEF Parts
    <3> QED  BY <3>4
  <2>3. CASE UrdfRenders \/ UrdfExits \/ UrdfRaises \/ UrdfDies
    <3>1. Unread' = Unread
      BY <1>1, <2>3 DEF Unread, UrdfRenders, UrdfExits, UrdfRaises, UrdfDies
    <3>2. UrdfWork' < UrdfWork
      <4>1. CASE UrdfDies
        <5>1. UrdfWork' = 0
          BY <4>1 DEF UrdfDies, UrdfWork
        <5>2. UrdfWork > 0
          BY <4>1 DEF UrdfDies, UrdfAlive, UrdfWork, IInv, TypeOK
        <5> QED  BY <5>1, <5>2
      <4>2. CASE UrdfRenders \/ UrdfExits \/ UrdfRaises
        BY <4>2, SMTT(60) DEF UrdfRenders, UrdfExits, UrdfRaises, UrdfWork
      <4> QED  BY <2>3, <4>1, <4>2
    <3>3. w = r /\ v < u
      BY <1>2, <1>3, <3>1, <3>2 DEF Parts
    <3> QED  BY <3>3
  <2> QED  BY <2>1, <2>2, <2>3 DEF UrdfStep
<1>6. 18 * f + t + v + q + w + m < 18 * e + s + u + p + r + n
  BY <1>4, <1>5
<1> QED  BY <1>2, <1>3, <1>6, PartsAddUp

LEMMA ParentProgress ==
    ASSUME IInv, IInv', Ending, ParentStep \/ StartFails \/ Interrupt \/ BreakOff
    PROVE  WorkLeft' < WorkLeft
<1>0. Counted /\ Counted'
  BY WorkIsCounted, WorkIsCountedThen
<1>2. PICK e, s, u, p, r, n \in Nat : Parts(e, s, u, p, r, n)
  BY PartsAreNumbers
<1>3. PICK f, t, v, q, w, m \in Nat : Parts(f, t, v, q, w, m)'
  BY PartsAreNumbers
<1>4. CASE OfferReady \/ SendSentinel \/ ReceiveSource \/ ReceiveUrdf \/ NoticeDeath
  <2>1. /\ UNCHANGED <<source, sourceAt, urdf, parent, sigterm>> /\ ~childError
    BY <1>4 DEF OfferReady, SendSentinel, ReceiveSource, ReceiveUrdf, NoticeDeath, sourceVars, urdfVars,
       parentVars, Looping
  <2>2. f = e /\ t = s /\ v = u /\ q = p
    <3>1. /\ EpisodesLeft' = EpisodesLeft /\ SourceWork' = SourceWork /\ UrdfWork' = UrdfWork
          /\ ParentWork' = ParentWork
      BY <2>1 DEF EpisodesLeft, SourceWork, UrdfWork, ParentWork
    <3> QED  BY <1>2, <1>3, <3>1 DEF Parts
  <2>3. /\ \A x : Len(Append(readyQueue, x)) = Len(readyQueue) + 1
        /\ \A x : Len(Append(backlog, x)) = Len(backlog) + 1
    BY SentLengthens DEF IInv, TypeOK
  <2>4. /\ sourcePipe # << >> => Len(Tail(sourcePipe)) = Len(sourcePipe) - 1
        /\ urdfPipe # << >> => Len(Tail(urdfPipe)) = Len(urdfPipe) - 1
        /\ backlog # << >> => Len(Tail(backlog)) = Len(backlog) - 1
    BY LengthsMove DEF IInv, TypeOK
  <2>5. \/ Unread' = Unread - 1 /\ Unsaid' <= Unsaid
        \/ Unread' = Unread - 8 /\ Unsaid' <= Unsaid
        \/ Unread' = Unread + 6 /\ Unsaid' = Unsaid - 7
        \/ Unread' = Unread /\ Unsaid' = Unsaid - 1
    <3>1. CASE OfferReady
      <4>1. /\ Len(readyQueue') = Len(readyQueue) + 1 /\ Len(backlog') = Len(backlog) - 1
            /\ UNCHANGED <<sourcePipe, urdfPipe, sigterm, sentinelSent, childError>>
        BY <2>3, <2>4, <3>1 DEF OfferReady, sourceVars, urdfVars
      <4>2. Unread' = Unread - 1
        BY <1>0, <4>1 DEF Unread, Counted
      <4>3. Unsaid' = Unsaid
        BY <4>1 DEF Unsaid
      <4> QED  BY <1>0, <4>2, <4>3 DEF Counted
    <3>2. CASE SendSentinel
      <4>1. /\ Len(readyQueue') = Len(readyQueue) + 1 /\ ~sentinelSent /\ sentinelSent' = TRUE
            /\ UNCHANGED <<sourcePipe, backlog, urdfPipe, sigterm, childError>>
        BY <2>3, <3>2 DEF SendSentinel, sourceVars, urdfVars
      <4>2. Unread' = Unread + 6
        BY <1>0, <4>1 DEF Unread, Counted
      <4>3. Unsaid' = Unsaid - 7
        BY <1>0, <4>1, SMTT(60) DEF Unsaid, Counted
      <4> QED  BY <4>2, <4>3
    <3>3. CASE ReceiveSource
      <4>1. /\ Len(sourcePipe') = Len(sourcePipe) - 1
            /\ Len(backlog') = Len(backlog) \/ Len(backlog') = Len(backlog) + 1
            /\ UNCHANGED <<readyQueue, urdfPipe, sigterm, sentinelSent>>
        BY <2>3, <2>4, <3>3 DEF ReceiveSource, MayReadSource, urdfVars
      <4>2. Unread' = Unread - 8 \/ Unread' = Unread - 1
        <5>1. CASE Len(backlog') = Len(backlog)
          <6>1. Unread' = Unread - 8
            BY <1>0, <4>1, <5>1 DEF Unread, Counted
          <6> QED  BY <6>1
        <5>2. CASE Len(backlog') = Len(backlog) + 1
          <6>1. Unread' = Unread - 1
            BY <1>0, <4>1, <5>2 DEF Unread, Counted
          <6> QED  BY <6>1
        <5> QED  BY <4>1, <5>1, <5>2
      <4>3. Unsaid' <= Unsaid
        BY <1>0, <2>1, <4>1 DEF Unsaid, Counted
      <4> QED  BY <4>2, <4>3
    <3>4. CASE ReceiveUrdf
      <4>1. /\ Len(urdfPipe') = Len(urdfPipe) - 1
            /\ UNCHANGED <<sourcePipe, readyQueue, backlog, sigterm, sentinelSent>>
        BY <2>4, <3>4 DEF ReceiveUrdf, sourceVars
      <4>2. Unread' = Unread - 1
        BY <1>0, <4>1 DEF Unread, Counted
      <4>3. Unsaid' <= Unsaid
        BY <1>0, <2>1, <4>1 DEF Unsaid, Counted
      <4> QED  BY <4>2, <4>3
    <3>5. CASE NoticeDeath
      <4>1. /\ childError' = TRUE
            /\ UNCHANGED <<sourcePipe, readyQueue, backlog, urdfPipe, sigterm, sentinelSent>>
        BY <3>5 DEF NoticeDeath, sourceVars, urdfVars
      <4>2. Unread' = Unread
        BY <4>1 DEF Unread
      <4>3. Unsaid' = Unsaid - 1
        BY <1>0, <2>1, <4>1 DEF Unsaid, Counted
      <4> QED  BY <4>2, <4>3
    <3> QED  BY <1>4, <3>1, <3>2, <3>3, <3>4, <3>5
  <2>6. \/ w = r - 1 /\ m <= n
        \/ w = r - 8 /\ m <= n
        \/ w = r + 6 /\ m = n - 7
        \/ w = r /\ m = n - 1
    BY <1>2, <1>3, <2>5 DEF Parts
  <2>7. 18 * f + t + v + q + w + m < 18 * e + s + u + p + r + n
    BY <2>2, <2>6
  <2> QED  BY <1>2, <1>3, <2>7, PartsAddUp
<1>5. CASE \/ StartUrdf \/ StartSource \/ CloseSends \/ BreakOff \/ StartFails \/ LeaveLoop \/ SourceJoined \/ TerminateUrdf
           \/ UrdfJoined \/ TerminateSource \/ Interrupt
  <2>1. f = e /\ w = r
    <3>1. UNCHANGED <<sourceAt, sourcePipe, readyQueue, backlog, urdfPipe>>
      BY <1>5 DEF StartUrdf, StartSource, CloseSends, BreakOff, StartFails, LeaveLoop, SourceJoined, TerminateUrdf, UrdfJoined,
         TerminateSource, Interrupt, sourceVars, urdfVars, parentVars, loopVars
    <3>2. Unread' = Unread /\ EpisodesLeft' = EpisodesLeft
      BY <3>1 DEF Unread, EpisodesLeft
    <3> QED  BY <1>2, <1>3, <3>2 DEF Parts
  <2>2. t + v + q + m < s + u + p + n
    <3>1. CASE StartUrdf
      <4>1. /\ UNCHANGED <<source, sigterm, sentinelSent, childError>>
            /\ parent = "startUrdf" /\ parent' = "startSource" /\ urdf' = "get"
        BY <3>1 DEF StartUrdf, sourceVars, loopVars
      <4>2. /\ SourceWork' = SourceWork /\ UrdfWork' = 5 /\ ParentWork' = 10 /\ ParentWork = 11
            /\ Unsaid' = Unsaid
        BY <4>1 DEF SourceWork, UrdfWork, ParentWork, Unsaid
      <4>3. UrdfWork = 6
        <5>1. urdf = "unstarted"
          BY <4>1 DEF Ending
        <5> QED  BY <5>1 DEF UrdfWork
      <4>4. t = s /\ v = 5 /\ q = 10 /\ p = 11 /\ m = n /\ u = 6
        BY <1>2, <1>3, <4>2, <4>3 DEF Parts
      <4> QED  BY <4>4
    <3>2. CASE StartSource
      <4>1. /\ UNCHANGED <<urdf, sigterm, sentinelSent, childError>>
            /\ source = "unstarted" /\ source' = "stage" /\ parent = "startSource" /\ parent' = "started"
        BY <3>2 DEF StartSource, urdfVars, loopVars, IInv, NothingBeforeStart
      <4>2. /\ SourceWork' = 21 /\ SourceWork = 22 /\ UrdfWork' = UrdfWork /\ ParentWork' = 9
            /\ ParentWork = 10 /\ Unsaid' = Unsaid
        BY <4>1 DEF SourceWork, UrdfWork, ParentWork, Unsaid
      <4>3. t = 21 /\ s = 22 /\ v = u /\ q = 9 /\ p = 10 /\ m = n
        BY <1>2, <1>3, <4>2 DEF Parts
      <4> QED  BY <4>3
    <3>3. CASE StartFails \/ CloseSends \/ BreakOff \/ LeaveLoop \/ SourceJoined \/ UrdfJoined
      <4>1. UNCHANGED <<source, urdf, sigterm, sentinelSent, childError>>
        BY <3>3 DEF StartFails, CloseSends, BreakOff, LeaveLoop, SourceJoined, UrdfJoined, sourceVars, urdfVars, loopVars
      <4>2. ParentWork' < ParentWork
        BY <3>3 DEF StartFails, CloseSends, BreakOff, Unguarded, LeaveLoop, SourceJoined, UrdfJoined, ParentWork
      <4>3. SourceWork' = SourceWork /\ UrdfWork' = UrdfWork /\ Unsaid' = Unsaid
        BY <4>1 DEF SourceWork, UrdfWork, Unsaid
      <4>4. t = s /\ v = u /\ m = n /\ q < p
        BY <1>2, <1>3, <4>2, <4>3 DEF Parts
      <4> QED  BY <4>4
    <3>4. CASE TerminateUrdf
      <4>1. /\ UNCHANGED <<source, parent, sigterm, sentinelSent, childError>>
            /\ UrdfAlive /\ urdf' = "exited"
        BY <3>4 DEF TerminateUrdf, sourceVars, parentVars, loopVars
      <4>2. SourceWork' = SourceWork /\ ParentWork' = ParentWork /\ Unsaid' = Unsaid /\ UrdfWork' = 0
        BY <4>1 DEF SourceWork, UrdfWork, ParentWork, Unsaid
      <4>3. UrdfWork > 0
        BY <4>1 DEF UrdfAlive, UrdfWork, IInv, TypeOK
      <4>4. t = s /\ q = p /\ m = n /\ v = 0 /\ u > 0
        BY <1>2, <1>3, <4>2, <4>3 DEF Parts
      <4> QED  BY <4>4
    <3>5. CASE TerminateSource
      <4>1. /\ UNCHANGED <<source, urdf, sentinelSent, childError>>
            /\ parent = "joinSource" /\ parent' = "awaitSource" /\ sigterm' = TRUE
        BY <3>5 DEF TerminateSource, urdfVars, loopVars
      <4>2. SourceWork' = SourceWork /\ UrdfWork' = UrdfWork /\ ParentWork = 5 /\ ParentWork' = 3
        BY <4>1 DEF SourceWork, UrdfWork, ParentWork
      <4>3. Unsaid' <= Unsaid + 1
        <5>1. PICK k \in Nat : k = (IF sentinelSent THEN 0 ELSE 7)
          OBVIOUS
        <5>2. PICK g \in 0..1, h \in 0..1 :
                  g = (IF sigterm' THEN 1 ELSE 0) /\ h = (IF sigterm THEN 1 ELSE 0)
          OBVIOUS
        <5>3. PICK i \in 0..1, j \in 0..1 :
                  i = (IF childError' THEN 0 ELSE 1) /\ j = (IF childError THEN 0 ELSE 1)
          OBVIOUS
        <5>4. i <= j
          BY <4>1, <5>3
        <5>5. Unsaid = h + k + j /\ Unsaid' = g + k + i
          BY <4>1, <5>1, <5>2, <5>3 DEF Unsaid
        <5> QED  BY <5>2, <5>3, <5>4, <5>5
      <4>4. t = s /\ v = u /\ p = 5 /\ q = 3 /\ m <= n + 1
        BY <1>2, <1>3, <4>2, <4>3 DEF Parts
      <4> QED  BY <4>4
    <3>6. CASE Interrupt
      <4>1. /\ UNCHANGED <<source, sentinelSent>> /\ childError' = TRUE
            /\ parent = "looping" /\ parent' = "joinSource" /\ sigterm' \in BOOLEAN
            /\ urdf' \in {urdf, "exited"}
        BY <3>6 DEF Interrupt, Looping, SourceAlive, IInv, TypeOK
      <4>2. SourceWork' = SourceWork /\ UrdfWork' <= UrdfWork /\ ParentWork = 8 /\ ParentWork' = 5
        <5>1. urdf' = "exited" => UrdfWork' = 0
          BY DEF UrdfWork
        <5>2. urdf' = urdf => UrdfWork' = UrdfWork
          BY DEF UrdfWork
        <5>3. UrdfWork \in Nat
          BY <1>0 DEF Counted
        <5> QED  BY <4>1, <5>1, <5>2, <5>3 DEF SourceWork, ParentWork
      <4>3. Unsaid' <= Unsaid + 1
        <5>1. PICK k \in Nat : k = (IF sentinelSent THEN 0 ELSE 7)
          OBVIOUS
        <5>2. PICK g \in 0..1, h \in 0..1 :
                  g = (IF sigterm' THEN 1 ELSE 0) /\ h = (IF sigterm THEN 1 ELSE 0)
          OBVIOUS
        <5>3. PICK i \in 0..1, j \in 0..1 :
                  i = (IF childError' THEN 0 ELSE 1) /\ j = (IF childError THEN 0 ELSE 1)
          OBVIOUS
        <5>4. i <= j
          BY <4>1, <5>3
        <5>5. Unsaid = h + k + j /\ Unsaid' = g + k + i
          BY <4>1, <5>1, <5>2, <5>3 DEF Unsaid
        <5> QED  BY <5>2, <5>3, <5>4, <5>5
      <4>4. t = s /\ v <= u /\ p = 8 /\ q = 5 /\ m <= n + 1
        BY <1>2, <1>3, <4>2, <4>3 DEF Parts
      <4> QED  BY <4>4
    <3> QED  BY <1>5, <3>1, <3>2, <3>3, <3>4, <3>5, <3>6
  <2>3. 18 * f + t + v + q + w + m < 18 * e + s + u + p + r + n
    BY <2>1, <2>2
  <2> QED  BY <1>2, <1>3, <2>3, PartsAddUp
<1> QED  BY <1>4, <1>5 DEF ParentStep

\* Every step of a process, the failures included, brings the end nearer, so a
\* run of the call has finitely many of them: there is no round in which the
\* three processes could be caught.
THEOREM EveryStepIsProgress == Spec => [][WorkLeft' < WorkLeft]_vars
<1>1. Flows /\ Flows' /\ Next => WorkLeft' < WorkLeft
  <2>1. Flows /\ Flows' => IInv /\ IInv' /\ Ending
    BY DEF Flows
  <2> QED  BY <2>1, SourceProgress, UrdfProgress, ParentProgress DEF Next
<1>2. Flows /\ Flows' /\ [Next]_vars => [WorkLeft' < WorkLeft]_vars
  BY <1>1
<1> QED  BY FlowsInvariant, <1>2, PTL DEF Spec

\* Whoever waits, waits for somebody that comes: the children of a parent in its
\* loop were started, a source it awaits has been told to end, and a URDF
\* process that waits at its queue after the sentinel was sent will find it.
SentinelIsThere ==
    /\ readyQueue # << >>
    /\ readyQueue[Len(readyQueue)] = None

Awaited ==
    /\ Len(sourcePipe) <= PipeSize
    /\ parent = "startSource" => urdf # "unstarted"
    /\ parent \in {"started", "looping"} => source # "unstarted" /\ urdf # "unstarted"
    /\ parent = "awaitSource" =>
           /\ source # "unstarted"
           /\ sigterm \/ source \in {"error", "closing", "exited"}
    /\ sentinelSent => SentinelIsThere \/ urdf \in {"result", "error", "closing", "exited"}

LEMMA SourceKeepsAwaited ==
    ASSUME IInv, Awaited, SourceStep \/ SourceRaises \/ SourceDies
    PROVE  Awaited'
<1>1. UNCHANGED <<urdf, parent, sentinelSent, readyQueue>>
  BY DEF SourceStep, SourceStage, SourceAnnounces, SourceFinishes, SourceReportsError,
     SourceTerminated, SourceExits, SourceRaises, SourceDies, urdfVars, parentVars, loopVars
<1>2. source # "unstarted" => source' # "unstarted"
  BY DEF SourceStep, SourceStage, SourceAnnounces, SourceFinishes, SourceReportsError,
     SourceTerminated, SourceExits, SourceRaises, SourceDies
<1>3. source # "unstarted" /\ (sigterm \/ source \in {"error", "closing", "exited"}) =>
          sigterm' \/ source' \in {"error", "closing", "exited"}
  <2>1. CASE SourceTerminated
    BY <2>1 DEF SourceTerminated, IInv, TypeOK
  <2>2. CASE SourceStage \/ SourceAnnounces \/ SourceFinishes \/ SourceReportsError
    BY <2>2 DEF SourceStage, SourceAnnounces, SourceFinishes, SourceReportsError, SourceSends
  <2>3. CASE SourceExits \/ SourceRaises \/ SourceDies
    BY <2>3 DEF SourceExits, SourceRaises, SourceDies
  <2> QED  BY <2>1, <2>2, <2>3 DEF SourceStep
<1>4. Len(sourcePipe') <= PipeSize
  <2>1. \A x : Len(Append(sourcePipe, x)) = Len(sourcePipe) + 1
    BY SentLengthens DEF IInv, TypeOK
  <2>2. Len(sourcePipe) \in Nat /\ PipeSize \in Nat
    BY StreamingAssumption DEF IInv, TypeOK
  <2>3. CASE SourceStage \/ SourceAnnounces \/ SourceFinishes \/ SourceReportsError
    <3>1. Len(sourcePipe) < PipeSize /\ Len(sourcePipe') = Len(sourcePipe) + 1
      BY <2>1, <2>3 DEF SourceStage, SourceAnnounces, SourceFinishes, SourceReportsError, SourceSends
    <3> QED  BY <2>2, <3>1
  <2>4. CASE SourceTerminated \/ SourceExits \/ SourceRaises \/ SourceDies
    BY <2>4 DEF SourceTerminated, SourceExits, SourceRaises, SourceDies, Awaited
  <2> QED  BY <2>3, <2>4 DEF SourceStep
<1> QED  BY <1>1, <1>2, <1>3, <1>4 DEF Awaited, SentinelIsThere

LEMMA UrdfKeepsAwaited ==
    ASSUME IInv, EndInv, Awaited, UrdfStep \/ UrdfRaises \/ UrdfDies
    PROVE  Awaited'
<1>1. UNCHANGED <<source, sourcePipe, sigterm, parent, sentinelSent>> /\ urdf' # "unstarted"
  BY DEF UrdfStep, UrdfTakes, UrdfStarts, UrdfRenders, UrdfRecords, UrdfFinishes, UrdfReportsError,
     UrdfExits, UrdfRaises, UrdfDies, sourceVars, parentVars, loopVars
<1>2. sentinelSent => (SentinelIsThere \/ urdf \in {"result", "error", "closing", "exited"})'
  <2>1. CASE UrdfTakes
    <3> SUFFICES ASSUME sentinelSent, Head(readyQueue) # None PROVE SentinelIsThere'
      BY <2>1 DEF UrdfTakes
    <3>1. SentinelIsThere /\ readyQueue' = Tail(readyQueue) /\ readyQueue \in Seq(Entries)
      BY <2>1 DEF UrdfTakes, Awaited, IInv, TypeOK, Entries
    <3>2. Head(readyQueue) = readyQueue[1] /\ Len(readyQueue) \in Nat \ {0}
      BY <3>1 DEF SentinelIsThere
    <3>3. Len(readyQueue) # 1
      BY <3>1, <3>2 DEF SentinelIsThere
    <3>4. Len(readyQueue') = Len(readyQueue) - 1 /\ \A i \in 1..(Len(readyQueue) - 1) : readyQueue'[i] = readyQueue[i + 1]
      BY <3>1, <3>2
    <3>5. readyQueue'[Len(readyQueue')] = readyQueue[Len(readyQueue)]
      BY <3>2, <3>3, <3>4
    <3>6. readyQueue' # << >>
      BY <3>2, <3>3, <3>4
    <3> QED  BY <3>1, <3>5, <3>6 DEF SentinelIsThere
  <2>2. CASE ~UrdfTakes
    <3>1. UNCHANGED readyQueue
      BY <2>2 DEF UrdfStep, UrdfStarts, UrdfRenders, UrdfRecords, UrdfFinishes, UrdfReportsError,
         UrdfExits, UrdfRaises, UrdfDies
    <3>2. urdf \in {"result", "error", "closing", "exited"} => urdf' \in {"result", "error", "closing", "exited"}
      BY <2>2 DEF UrdfStep, UrdfStarts, UrdfRenders, UrdfRecords, UrdfFinishes, UrdfReportsError,
         UrdfExits, UrdfRaises, UrdfDies
    <3> QED  BY <3>1, <3>2 DEF Awaited, SentinelIsThere
  <2> QED  BY <2>1, <2>2
<1> QED  BY <1>1, <1>2 DEF Awaited

LEMMA ParentKeepsAwaited ==
    ASSUME IInv, EndInv, Awaited, ParentStep \/ StartFails \/ Interrupt \/ BreakOff
    PROVE  Awaited'
<1>1. CASE OfferReady
  <2>1. ~sentinelSent /\ UNCHANGED <<parent, sentinelSent, source, sourcePipe, sigterm, urdf>>
    BY <1>1 DEF OfferReady, EndInv, SentinelClosesQueue, sourceVars, urdfVars
  <2> QED  BY <2>1 DEF Awaited
<1>2. CASE SendSentinel
  <2>1. readyQueue' = Append(readyQueue, None) /\ readyQueue \in Seq(Entries) /\ None \in Entries
    BY <1>2 DEF SendSentinel, IInv, TypeOK, Entries
  <2>2. readyQueue'[Len(readyQueue')] = None /\ Len(readyQueue') # 0
    BY <2>1
  <2>3. SentinelIsThere'
    BY <2>2 DEF SentinelIsThere
  <2> QED  BY <1>2, <2>3 DEF SendSentinel, Awaited, sourceVars, urdfVars
<1>3. CASE ReceiveSource \/ ReceiveUrdf \/ NoticeDeath
  <2>1. UNCHANGED <<parent, sentinelSent, source, sigterm, urdf, readyQueue>>
    BY <1>3 DEF ReceiveSource, ReceiveUrdf, NoticeDeath, sourceVars, urdfVars
  <2>2. Len(sourcePipe') <= PipeSize
    <3>1. Len(sourcePipe) \in Nat /\ PipeSize \in Nat
      BY StreamingAssumption DEF IInv, TypeOK
    <3>2. sourcePipe # << >> => Len(Tail(sourcePipe)) = Len(sourcePipe) - 1
      BY LengthsMove DEF IInv, TypeOK
    <3>3. sourcePipe' = sourcePipe \/ (sourcePipe # << >> /\ sourcePipe' = Tail(sourcePipe))
      BY <1>3 DEF ReceiveSource, MayReadSource, ReceiveUrdf, NoticeDeath, sourceVars
    <3> QED  BY <3>1, <3>2, <3>3 DEF Awaited
  <2> QED  BY <2>1, <2>2 DEF Awaited, SentinelIsThere
<1>4. CASE StartUrdf \/ StartSource \/ StartFails
  <2>1. ~sentinelSent /\ UNCHANGED <<sentinelSent, sourcePipe>>
    BY <1>4 DEF StartUrdf, StartSource, StartFails, EndInv, SentinelClosesQueue, IInv, NothingBeforeStart,
       sourceVars, loopVars
  <2>2. parent' \in {"startSource", "started"} => urdf' # "unstarted"
    BY <1>4 DEF StartUrdf, StartSource, StartFails, Awaited, urdfVars
  <2>3. parent' \notin {"looping", "awaitSource"} /\ (parent' = "started" => source' # "unstarted")
    BY <1>4 DEF StartUrdf, StartSource, StartFails
  <2> QED  BY <2>1, <2>2, <2>3 DEF Awaited
<1>5. CASE CloseSends \/ BreakOff \/ LeaveLoop \/ SourceJoined \/ TerminateSource \/ UrdfJoined
  BY <1>5 DEF CloseSends, BreakOff, LeaveLoop, SourceJoined, TerminateSource, UrdfJoined, SourceAlive, Awaited, SentinelIsThere,
     sourceVars, urdfVars, loopVars
<1>6. CASE TerminateUrdf \/ Interrupt
  BY <1>6 DEF TerminateUrdf, Interrupt, Looping, Awaited, SentinelIsThere, sourceVars, parentVars, loopVars
<1> QED  BY <1>1, <1>2, <1>3, <1>4, <1>5, <1>6 DEF ParentStep

LEMMA AwaitedInvariant == Spec => [](Flows /\ Awaited)
<1>1. Init => Awaited
  BY StreamingAssumption DEF Init, Awaited
<1>2. Flows /\ Awaited /\ [Next]_vars => Awaited'
  <2>1. Awaited /\ UNCHANGED vars => Awaited'
    BY DEF Awaited, SentinelIsThere, vars, sourceVars, urdfVars, parentVars, loopVars
  <2>2. Flows => IInv /\ EndInv
    BY DEF Flows
  <2> QED  BY <2>1, <2>2, SourceKeepsAwaited, UrdfKeepsAwaited, ParentKeepsAwaited DEF Next
<1> QED  BY <1>1, <1>2, FlowsInvariant, PTL DEF Spec

\* Nobody waits for ever: as long as the call has not come back, one of the
\* three processes can go on, unless the source that the parent terminated and
\* awaits is writing to the full pipe that nobody reads any more.
THEOREM SomebodyCanMove == Spec => []SomebodyMoves
<1>1. Flows /\ Awaited => SomebodyMoves
  <2> SUFFICES ASSUME Flows, Awaited, ~SomebodyMoves PROVE FALSE
    OBVIOUS
  <2>1. IInv /\ Ending /\ TypeOK /\ BufferSize > 0 /\ PipeSize > 0
    BY StreamingAssumption DEF Flows, IInv
  <2>2. ~SourceMayMove /\ ~UrdfMayMove /\ ~ParentMayMove /\ ~SourceStuck
        /\ parent \notin {"returned", "raised"}
    BY DEF SomebodyMoves
  <2>3. parent \in {"looping", "awaitSource"}
    BY <2>1, <2>2 DEF ParentMayMove, TypeOK, Unguarded
  <2>4. Len(sourcePipe) \in Nat /\ Len(urdfPipe) \in Nat /\ Len(readyQueue) \in Nat
    BY <2>1 DEF TypeOK
  <2>5. CASE parent = "awaitSource"
    <3>1. ~(Len(sourcePipe) < PipeSize)
      BY <2>1, <2>2, <2>5 DEF Awaited, SourceMayMove, ParentMayMove, SourceAlive, TypeOK
    <3> QED  BY <2>1, <2>2, <2>4, <2>5, <3>1, StreamingAssumption DEF SourceStuck, Awaited
  <2>6. CASE parent = "looping"
    <3>1. Looping
      BY <2>2, <2>6 DEF ParentMayMove
    <3>2. urdfPipe = << >> /\ Len(urdfPipe) < PipeSize
      <4>1. urdfPipe = << >>
        BY <2>2, <3>1 DEF ParentMayMove
      <4> QED  BY <2>1, <4>1
    <3>3. urdf \in {"get", "exited"}
      BY <2>1, <2>2, <2>6, <3>2 DEF UrdfMayMove, Awaited, TypeOK
    <3>4. CASE urdf = "exited"
      <4>1. urdfResult # "none"
        BY <2>2, <3>1, <3>2, <3>4 DEF ParentMayMove, UrdfAlive
      <4>2. Over
        BY <2>1, <4>1 DEF Ending
      <4>3. sourceDone
        BY <4>2, OverAfterSource
      <4> QED  BY <3>1, <4>1, <4>3 DEF Looping
    <3>5. CASE urdf = "get"
      <4>1. readyQueue = << >> /\ Len(readyQueue) < BufferSize
        <5>1. readyQueue = << >>
          BY <2>2, <3>5 DEF UrdfMayMove
        <5> QED  BY <2>1, <5>1
      <4>2. ~sentinelSent
        BY <3>5, <4>1 DEF Awaited, SentinelIsThere
      <4>3. backlog = << >> /\ ~sourceDone
        BY <2>2, <3>1, <4>1, <4>2 DEF ParentMayMove
      <4>4. sourcePipe = << >> /\ Len(sourcePipe) < PipeSize
        <5>1. sourcePipe = << >>
          BY <2>2, <3>1, <4>3 DEF ParentMayMove, MayReadSource
        <5> QED  BY <2>1, <5>1
      <4>5. SourceAlive
        BY <2>2, <3>1, <4>3, <4>4 DEF ParentMayMove
      <4> QED  BY <2>1, <2>2, <4>4, <4>5 DEF SourceAlive, SourceMayMove, TypeOK
    <3> QED  BY <3>3, <3>4, <3>5
  <2> QED  BY <2>3, <2>5, <2>6
<1> QED  BY AwaitedInvariant, <1>1, PTL


=============================================================================
