----------------------------- MODULE Streaming ------------------------------
(***************************************************************************)
(* The live URDF pipeline: run_streaming_source_urdf_workers and its two   *)
(* children.  The source process makes object masks and announces each     *)
(* finished episode on its pipe; the parent forwards the usable ones to a  *)
(* bounded queue; the URDF process renders them in order and answers on    *)
(* its own pipe.  A process that writes to a full pipe blocks.             *)
(***************************************************************************)
EXTENDS Integers, Sequences

CONSTANTS
    EpisodeIds,   \* the episodes the source was asked for, in order
    BufferSize,   \* capacity of ready_queue
    PipeSize      \* messages a pipe holds before its writer blocks

Episode == {EpisodeIds[i] : i \in DOMAIN EpisodeIds}

ASSUME StreamingAssumption ==
    /\ EpisodeIds \in Seq(Episode)
    /\ \A i, j \in DOMAIN EpisodeIds : EpisodeIds[i] = EpisodeIds[j] => i = j
    /\ BufferSize \in Nat \ {0}
    /\ PipeSize \in Nat \ {0}

VARIABLES
    source,        \* what the source process does next
    sourceAt,      \* how many episodes it has announced
    sourcePipe,    \* its messages, not yet received
    sigterm,       \* a SIGTERM it has not acted on
    urdf,          \* what the URDF process does next
    urdfItem,      \* the episode it took from the queue
    urdfPipe,
    readyQueue,    \* episodes, then perhaps the sentinel
    backlog,       \* ready_backlog of the parent
    parent,        \* where the parent is
    sourceDone,    \* source_result_received
    sentinelSent,  \* sentinel_sent
    urdfResult,    \* "none", or what the URDF result message said
    childError,    \* child_error is set
    brokenOff,     \* history: where an interrupt broke the call off, or "no"
    produced,      \* episodes announced as usable, in order
    rendered       \* episodes the URDF worker has a record of, in order

sourceVars == <<source, sourceAt, sourcePipe, sigterm, produced>>
urdfVars == <<urdf, urdfItem, urdfPipe, rendered>>
loopVars == <<backlog, sourceDone, sentinelSent, urdfResult, childError, brokenOff>>
parentVars == <<parent, loopVars>>
vars == <<sourceVars, urdfVars, readyQueue, parentVars>>

None == [sentinel |-> TRUE]   \* no episode, and the sentinel of ready_queue
Item(e) == [episode |-> e]
Items == {Item(e) : e \in Episode}

Message(k, i) == [kind |-> k, item |-> i]
SourceMessage ==
    [kind : {"event", "result", "error"}, item : {None}]
        \cup [kind : {"ready", "unready"}, item : Items]
UrdfMessage ==
    [kind : {"result", "noresult", "error"}, item : {None}]
        \cup [kind : {"event", "episode"}, item : Items]

\* Where the parent is outside the try block with a child started: between the
\* two starts, after them, and in the joins of its finally block.
Unguarded == {"startSource", "started", "joinSource", "awaitSource", "joinUrdf"}

TypeOK ==
    /\ source \in {"unstarted", "stage", "announce", "error", "closing", "exited"}
    /\ sourceAt \in 0..Len(EpisodeIds)
    /\ sourcePipe \in Seq(SourceMessage)
    /\ sigterm \in BOOLEAN
    /\ urdf \in {"unstarted", "get", "start", "render", "record", "result", "error", "closing", "exited"}
    /\ urdfItem \in Items \cup {None}
    /\ urdfPipe \in Seq(UrdfMessage)
    /\ readyQueue \in Seq(Items \cup {None})
    /\ backlog \in Seq(Items)
    /\ parent \in Unguarded \cup {"startUrdf", "looping", "returned", "raised"}
    /\ sourceDone \in BOOLEAN
    /\ sentinelSent \in BOOLEAN
    /\ urdfResult \in {"none", "result", "noresult"}
    /\ childError \in BOOLEAN
    /\ brokenOff \in Unguarded \cup {"no"}
    /\ produced \in Seq(Items)
    /\ rendered \in Seq(Items)

Init ==
    /\ source = "unstarted"
    /\ sourceAt = 0
    /\ sourcePipe = << >>
    /\ sigterm = FALSE
    /\ urdf = "unstarted"
    /\ urdfItem = None
    /\ urdfPipe = << >>
    /\ readyQueue = << >>
    /\ backlog = << >>
    /\ parent = "startUrdf"
    /\ sourceDone = FALSE
    /\ sentinelSent = FALSE
    /\ urdfResult = "none"
    /\ childError = FALSE
    /\ brokenOff = "no"
    /\ produced = << >>
    /\ rendered = << >>

SourceAlive == source \notin {"unstarted", "exited"}
UrdfAlive == urdf \notin {"unstarted", "exited"}

-----------------------------------------------------------------------------
(* object_source_process_entry *)

SourceSends(m) ==
    /\ ~sigterm
    /\ Len(sourcePipe) < PipeSize
    /\ sourcePipe' = Append(sourcePipe, m)

\* Progress events of the stages of the next episode.
SourceStage ==
    /\ source = "stage"
    /\ sourceAt < Len(EpisodeIds)
    /\ SourceSends(Message("event", None))
    /\ source' = "announce"
    /\ UNCHANGED <<sourceAt, sigterm, produced, urdfVars, readyQueue, parentVars>>

\* source_episode_terminal: the episode is usable (completed, or complete from
\* an earlier run) or not.
SourceAnnounces ==
    /\ source = "announce"
    /\ sourceAt' = sourceAt + 1
    /\ source' = "stage"
    /\ LET item == Item(EpisodeIds[sourceAt + 1])
       IN \/ /\ SourceSends(Message("ready", item))
             /\ produced' = Append(produced, item)
          \/ /\ SourceSends(Message("unready", item))
             /\ UNCHANGED produced
    /\ UNCHANGED <<sigterm, urdfVars, readyQueue, parentVars>>

SourceFinishes ==
    /\ source = "stage"
    /\ sourceAt = Len(EpisodeIds)
    /\ SourceSends(Message("result", None))
    /\ source' = "closing"
    /\ UNCHANGED <<sourceAt, sigterm, produced, urdfVars, readyQueue, parentVars>>

SourceRaises ==
    /\ source \in {"stage", "announce"}
    /\ source' = "error"
    /\ UNCHANGED <<sourceAt, sourcePipe, sigterm, produced, urdfVars, readyQueue, parentVars>>

SourceReportsError ==
    /\ source = "error"
    /\ SourceSends(Message("error", None))
    /\ source' = "closing"
    /\ UNCHANGED <<sourceAt, sigterm, produced, urdfVars, readyQueue, parentVars>>

\* _exit_on_sigterm, even inside a blocked send.  SystemExit is reported like
\* any failure of the pipeline; raised while an error or the result is being
\* sent it leaves the handler, and the finally block runs.
SourceTerminated ==
    /\ sigterm
    /\ sigterm' = FALSE
    /\ \/ source \in {"stage", "announce"} /\ source' = "error"
       \/ /\ source = "error" \/ (source = "stage" /\ sourceAt = Len(EpisodeIds))
          /\ source' = "closing"
       \/ source \in {"unstarted", "closing", "exited"} /\ UNCHANGED source
    /\ UNCHANGED <<sourceAt, sourcePipe, produced, urdfVars, readyQueue, parentVars>>

SourceExits ==
    /\ source = "closing"
    /\ source' = "exited"
    /\ UNCHANGED <<sourceAt, sourcePipe, sigterm, produced, urdfVars, readyQueue, parentVars>>

\* Killed from outside: nothing is reported.
SourceDies ==
    /\ SourceAlive
    /\ source' = "exited"
    /\ UNCHANGED <<sourceAt, sourcePipe, sigterm, produced, urdfVars, readyQueue, parentVars>>

-----------------------------------------------------------------------------
(* incremental_urdf_process_entry *)

UrdfSends(m) ==
    /\ Len(urdfPipe) < PipeSize
    /\ urdfPipe' = Append(urdfPipe, m)

UrdfTakes ==
    /\ urdf = "get"
    /\ readyQueue # << >>
    /\ readyQueue' = Tail(readyQueue)
    /\ urdfItem' = Head(readyQueue)
    /\ urdf' = IF Head(readyQueue) = None THEN "result" ELSE "start"
    /\ UNCHANGED <<urdfPipe, rendered, sourceVars, parentVars>>

UrdfStarts ==
    /\ urdf = "start"
    /\ UrdfSends(Message("event", urdfItem))
    /\ urdf' = "render"
    /\ UNCHANGED <<urdfItem, rendered, readyQueue, sourceVars, parentVars>>

\* process_episode leaves a record whether the episode is complete or failed.
UrdfRenders ==
    /\ urdf = "render"
    /\ rendered' = Append(rendered, urdfItem)
    /\ urdf' = "record"
    /\ UNCHANGED <<urdfItem, urdfPipe, readyQueue, sourceVars, parentVars>>

UrdfRecords ==
    /\ urdf = "record"
    /\ UrdfSends(Message("episode", urdfItem))
    /\ urdf' = "get"
    /\ urdfItem' = None
    /\ UNCHANGED <<rendered, readyQueue, sourceVars, parentVars>>

\* finalize; there is no worker to finalize when no episode became ready.
UrdfFinishes ==
    /\ urdf = "result"
    /\ UrdfSends(Message(IF rendered = << >> THEN "noresult" ELSE "result", None))
    /\ urdf' = "closing"
    /\ UNCHANGED <<urdfItem, rendered, readyQueue, sourceVars, parentVars>>

\* Creating the renderer, rendering or finalizing raises.
UrdfRaises ==
    /\ urdf \in {"render", "result"}
    /\ urdf' = "error"
    /\ UNCHANGED <<urdfItem, urdfPipe, rendered, readyQueue, sourceVars, parentVars>>

UrdfReportsError ==
    /\ urdf = "error"
    /\ UrdfSends(Message("error", None))
    /\ urdf' = "closing"
    /\ UNCHANGED <<urdfItem, rendered, readyQueue, sourceVars, parentVars>>

UrdfExits ==
    /\ urdf = "closing"
    /\ urdf' = "exited"
    /\ UNCHANGED <<urdfItem, urdfPipe, rendered, readyQueue, sourceVars, parentVars>>

UrdfDies ==
    /\ UrdfAlive
    /\ urdf' = "exited"
    /\ UNCHANGED <<urdfItem, urdfPipe, rendered, readyQueue, sourceVars, parentVars>>

-----------------------------------------------------------------------------
(* The parent.  Its loop tries the branches below in turn; the rest of a   *)
(* round after an error could only replace the error, and is left out.     *)

\* urdf_process.start(), then source_process.start(), before the try block.
StartUrdf ==
    /\ parent = "startUrdf"
    /\ urdf' = "get"
    /\ parent' = "startSource"
    /\ UNCHANGED <<urdfItem, urdfPipe, rendered, loopVars, sourceVars, readyQueue>>

StartSource ==
    /\ parent = "startSource"
    /\ source' = "stage"
    /\ parent' = "started"
    /\ UNCHANGED <<sourceAt, sourcePipe, sigterm, produced, loopVars, urdfVars, readyQueue>>

\* The parent's copies of the sending ends are closed, still before the try.
CloseSends ==
    /\ parent = "started"
    /\ parent' = "looping"
    /\ UNCHANGED <<loopVars, sourceVars, urdfVars, readyQueue>>

\* No process can be made: the exception leaves the function at once.
StartFails ==
    /\ parent \in {"startUrdf", "startSource"}
    /\ parent' = "raised"
    /\ UNCHANGED <<loopVars, sourceVars, urdfVars, readyQueue>>

Looping ==
    /\ parent = "looping"
    /\ ~childError
    /\ ~(sourceDone /\ urdfResult # "none")

\* Slip: the offered episode stays in the backlog.
OfferReadyTwice ==
    /\ Looping
    /\ backlog # << >>
    /\ Len(readyQueue) < BufferSize
    /\ readyQueue' = Append(readyQueue, Head(backlog))
    /\ UNCHANGED <<parentVars, sourceVars, urdfVars>>

OfferReady ==
    /\ Looping
    /\ backlog # << >>
    /\ Len(readyQueue) < BufferSize
    /\ readyQueue' = Append(readyQueue, Head(backlog))
    /\ backlog' = Tail(backlog)
    /\ UNCHANGED <<parent, sourceDone, sentinelSent, urdfResult, childError, brokenOff, sourceVars, urdfVars>>

\* Slip: the source is read however much is waiting for the URDF process.
MayReadSourceAlways == sourcePipe # << >>

\* Back-pressure: the source is read only when its last ready episode has a
\* place in the queue, or to collect what it sent before it ended.
MayReadSource == sourcePipe # << >> /\ (backlog = << >> \/ ~SourceAlive)

ReceiveSource ==
    /\ Looping
    /\ MayReadSource
    /\ LET m == Head(sourcePipe)
       IN /\ sourcePipe' = Tail(sourcePipe)
          /\ backlog' = IF m.kind = "ready" THEN Append(backlog, m.item) ELSE backlog
          /\ sourceDone' = (sourceDone \/ m.kind = "result")
          /\ childError' = (m.kind = "error")
    /\ UNCHANGED <<parent, sentinelSent, urdfResult, brokenOff, source, sourceAt, sigterm, produced,
                   readyQueue, urdfVars>>

ReceiveUrdf ==
    /\ Looping
    /\ urdfPipe # << >>
    /\ LET m == Head(urdfPipe)
       IN /\ urdfPipe' = Tail(urdfPipe)
          /\ urdfResult' = IF m.kind \in {"result", "noresult"} THEN m.kind ELSE urdfResult
          /\ childError' = (m.kind = "error")
    /\ UNCHANGED <<parent, backlog, sourceDone, sentinelSent, brokenOff, urdf, urdfItem, rendered,
                   readyQueue, sourceVars>>

SendSentinel ==
    /\ Looping
    /\ sourceDone
    /\ backlog = << >>
    /\ ~sentinelSent
    /\ Len(readyQueue) < BufferSize
    /\ readyQueue' = Append(readyQueue, None)
    /\ sentinelSent' = TRUE
    /\ UNCHANGED <<backlog, parent, sourceDone, urdfResult, childError, brokenOff, sourceVars, urdfVars>>

\* Slip: only the source is watched.
NoticeSourceDeath ==
    /\ Looping
    /\ ~SourceAlive
    /\ sourcePipe = << >>
    /\ ~sourceDone
    /\ childError' = TRUE
    /\ UNCHANGED <<backlog, parent, sourceDone, sentinelSent, urdfResult, brokenOff,
                   sourceVars, urdfVars, readyQueue>>

\* A child ended, everything it sent has been read, and no result was in it.
NoticeDeath ==
    /\ Looping
    /\ \/ ~SourceAlive /\ sourcePipe = << >> /\ ~sourceDone
       \/ ~UrdfAlive /\ urdfPipe = << >> /\ urdfResult = "none"
    /\ childError' = TRUE
    /\ UNCHANGED <<backlog, parent, sourceDone, sentinelSent, urdfResult, brokenOff,
                   sourceVars, urdfVars, readyQueue>>

LeaveLoop ==
    /\ parent = "looping"
    /\ ~Looping
    /\ parent' = "joinSource"
    /\ UNCHANGED <<loopVars, sourceVars, urdfVars, readyQueue>>

\* The reporter raises or the user interrupts: both children are terminated
\* before they are joined.  The URDF process has no SIGTERM handler.  A second
\* interrupt in the except clause goes on to the joins with only the source
\* told, or neither.
Interrupt ==
    /\ Looping
    /\ parent' = "joinSource"
    /\ childError' = TRUE
    /\ \/ sigterm' = SourceAlive /\ urdf' \in {urdf, "exited"}
       \/ UNCHANGED <<sigterm, urdf>>
    /\ UNCHANGED <<backlog, sourceDone, sentinelSent, urdfResult, brokenOff, source, sourceAt,
                   sourcePipe, produced, urdfItem, urdfPipe, rendered, readyQueue>>

\* join(timeout=5) was not enough: terminate, then join without a limit.
TerminateSource ==
    /\ parent = "joinSource"
    /\ SourceAlive
    /\ parent' = "awaitSource"
    /\ sigterm' = TRUE
    /\ UNCHANGED <<loopVars, source, sourceAt,
                   sourcePipe, produced, urdfVars, readyQueue>>

\* Slip: the join after terminate has a limit too.
SourceJoinedOrGivenUp ==
    /\ parent = "awaitSource" \/ (parent = "joinSource" /\ ~SourceAlive)
    /\ parent' = "joinUrdf"
    /\ UNCHANGED <<loopVars, sourceVars, urdfVars, readyQueue>>

SourceJoined ==
    /\ parent \in {"joinSource", "awaitSource"}
    /\ ~SourceAlive
    /\ parent' = "joinUrdf"
    /\ UNCHANGED <<loopVars, sourceVars, urdfVars, readyQueue>>

TerminateUrdf ==
    /\ parent = "joinUrdf"
    /\ UrdfAlive
    /\ urdf' = "exited"
    /\ UNCHANGED <<parentVars, urdfItem, urdfPipe, rendered, sourceVars, readyQueue>>

\* Slip: an empty URDF result counts as a result.
UrdfJoinedAnyResult ==
    /\ parent = "joinUrdf"
    /\ ~UrdfAlive
    /\ parent' = IF childError THEN "raised" ELSE "returned"
    /\ UNCHANGED <<loopVars, sourceVars, urdfVars, readyQueue>>

\* A URDF result without a record is an error of its own.
UrdfJoined ==
    /\ parent = "joinUrdf"
    /\ ~UrdfAlive
    /\ parent' = IF childError \/ urdfResult # "result" THEN "raised" ELSE "returned"
    /\ UNCHANGED <<loopVars, sourceVars, urdfVars, readyQueue>>

\* The user interrupts outside the try: the call is over at once, whatever
\* children are still running.
BreakOff ==
    /\ parent \in Unguarded
    /\ parent' = "raised"
    /\ brokenOff' = parent
    /\ UNCHANGED <<backlog, sourceDone, sentinelSent, urdfResult, childError, sourceVars, urdfVars,
                   readyQueue>>

-----------------------------------------------------------------------------
SourceStep ==
    \/ SourceStage \/ SourceAnnounces \/ SourceFinishes
    \/ SourceReportsError \/ SourceTerminated \/ SourceExits

UrdfStep ==
    \/ UrdfTakes \/ UrdfStarts \/ UrdfRenders \/ UrdfRecords
    \/ UrdfFinishes \/ UrdfReportsError \/ UrdfExits

ParentStep ==
    \/ StartUrdf \/ StartSource \/ CloseSends
    \/ OfferReady \/ ReceiveSource \/ ReceiveUrdf \/ SendSentinel \/ NoticeDeath
    \/ LeaveLoop \/ TerminateSource \/ SourceJoined \/ TerminateUrdf \/ UrdfJoined

Next ==
    \/ SourceStep \/ SourceRaises \/ SourceDies
    \/ UrdfStep \/ UrdfRaises \/ UrdfDies
    \/ ParentStep \/ StartFails \/ Interrupt \/ BreakOff

Spec == Init /\ [][Next]_vars

\* All three processes run; none is obliged to fail.
FairSpec ==
    /\ Spec
    /\ WF_vars(SourceStep)
    /\ WF_vars(UrdfStep)
    /\ WF_vars(ParentStep)

-----------------------------------------------------------------------------
\* The episodes of a stream, in their order: what is none leaves no trace.
Episodes(stream) ==
    LET UpTo[n \in 0..Len(stream)] ==
            IF n = 0 THEN << >>
            ELSE IF stream[n] = None THEN UpTo[n - 1] ELSE Append(UpTo[n - 1], stream[n])
    IN UpTo[Len(stream)]

Announced(pipe) ==
    [i \in 1..Len(pipe) |-> IF pipe[i].kind = "ready" THEN pipe[i].item ELSE None]

Held == IF urdf \in {"start", "render"} THEN <<urdfItem>> ELSE << >>

\* From the source's announcement to the renderer's record no episode is
\* dropped, repeated or overtaken: the records, the one being rendered (until
\* that process fails), the queue, the backlog and the pipe are, in this
\* order, exactly what the source produced.
StreamConserved ==
    urdf \notin {"error", "closing", "exited"} =>
        rendered \o Held \o Episodes(readyQueue \o backlog \o Announced(sourcePipe)) = produced

\* Nothing follows the sentinel, and it is sent only when the source's result
\* has arrived and every episode before it was handed over.
SentinelIsLast ==
    (\E i \in DOMAIN readyQueue : readyQueue[i] = None) =>
        /\ readyQueue[Len(readyQueue)] = None
        /\ sourceDone
        /\ backlog = << >>
        /\ \A j \in DOMAIN sourcePipe : sourcePipe[j].kind # "ready"

\* While the source lives, the parent keeps at most one episode that found no
\* place: the source waits for the renderer, as the buffer size promises.
BackPressure == SourceAlive => Len(backlog) <= 1

\* The caller gets a result only for a source that finished and whose usable
\* episodes all have a record, in the order they were produced.
ReturnedIsWhole ==
    parent = "returned" =>
        /\ sourceDone
        /\ sourceAt = Len(EpisodeIds)
        /\ rendered = produced
        /\ rendered # << >>

\* When the call comes back, by return or by raise, no child is left running,
\* with these exceptions and no other.  A source is left only by an interrupt
\* after the starts or while it is being joined; once the parent is past that
\* join, or was interrupted in its loop, it is gone.  A URDF process is left by
\* those and by an interrupt of its own join; or it was started before a source
\* that never was, and waits for an episode on a queue that nobody will fill.
NoChildLeft ==
    parent \in {"returned", "raised"} =>
        /\ SourceAlive => parent = "raised" /\ brokenOff \in {"started", "joinSource", "awaitSource"}
        /\ UrdfAlive =>
               \/ parent = "raised" /\ brokenOff \in {"started", "joinSource", "awaitSource", "joinUrdf"}
               \/ source = "unstarted" /\ urdf = "get" /\ readyQueue = << >>

SourceStuck == parent = "awaitSource" /\ Len(sourcePipe) = PipeSize

\* The call comes back, whatever the children do and whoever waits for whom,
\* unless the source it terminates is writing to a full pipe: that pipe is not
\* read again.
Terminates == <>(parent \in {"returned", "raised"} \/ []SourceStuck)

\* "Turn parent-requested termination into normal Python cleanup"
\* (_exit_on_sigterm): a source that is told to terminate ends, unless the wait
\* for it is broken off.
TerminationEndsSource == [](parent = "awaitSource" => <>(~SourceAlive \/ brokenOff # "no"))

=============================================================================
