---------------------------- MODULE StreamSession ----------------------------
(***************************************************************************)
(* The SSE sessions of one run: StreamManager                              *)
(* (src/src/streaming/stream-manager.ts) with its writer openSse and its   *)
(* two kinds of join, joinLive (src/src/modules/runs/runs.streaming.ts)    *)
(* and joinStoredRun / streamFromAgent.                                    *)
(*                                                                         *)
(* StreamManager keeps a map from run id to session object.  The model     *)
(* follows the entry of one run id, `current`, and every object that was   *)
(* ever stored under it, numbered in order of creation: closeSession and   *)
(* its clean-up timer find a session by run id, while a connection and the *)
(* writer hold on to the object they were given.  Code between two awaits  *)
(* is one step.                                                            *)
(***************************************************************************)
EXTENDS Naturals, Sequences

CONSTANTS
    Origin,         \* the connection that posted /runs/stream
    Joiners,        \* GET .../runs/:run_id/stream connections
    WriterKinds,    \* names of the events the writer emits
    ModeSets,       \* values of the join's stream_mode parameter
    NoId,           \* no Last-Event-ID header
    AfterIds,       \* values of the Last-Event-ID header (0 stands for -1)
    OnThread,       \* the run belongs to a thread
    EarlyJoin,      \* a join may arrive before the stream has opened
    MaxSessions,    \* bound on the session objects created
    MaxEmits,       \* bound on the events the writer emits
    MaxEvents       \* bound on the events of a session

(* What a join is answered with when nothing is live (joinStoredRun).      *)
StoredEvents == <<"metadata", "values", "end">>

ASSUME ConnectionAssumption == Origin \notin Joiners
ASSUME AfterIdsAssumption == AfterIds \subseteq Nat /\ NoId \notin Nat
ASSUME SwitchAssumption == OnThread \in BOOLEAN /\ EarlyJoin \in BOOLEAN
ASSUME BoundsAssumption ==
    MaxSessions \in Nat /\ MaxEmits \in Nat /\ MaxEvents \in Nat /\ MaxEvents >= MaxEmits + 3

Kinds    == WriterKinds \union {"metadata", "values", "end"}
Conns    == Joiners \union {Origin}
Sessions == 1..MaxSessions
EventIds == 1..MaxEvents

VARIABLES
    made,       \* session objects created so far
    current,    \* the object the map holds for the run, 0 when it holds none
    isLive,     \* objects with `live` set
    closed,     \* objects with `closed` set
    buffer,     \* buffer[s]: eventBuffer of s; the id of an event is its position,
                \* both writers increment lastEventId as they push
    subs,       \* subs[s]: connections subscribed to s
    timers,     \* clean-up timers that have not fired
    writer,     \* "idle" before openSse, "open", "done" after close
    mine,       \* the object the writer closes over, 0 before openSse
    emitted,    \* events the writer has emitted
    cancelled,  \* the run's cancel hook was called
    ask,        \* ask[c]: the query of connection c; never changes
    conn,       \* conn[c]: progress of connection c
    sid,        \* sid[c]: the object c follows or replays, 0 for none
    from,       \* from[c]: c is to receive the events after this id
    times,      \* times[c][i]: how often event i of sid[c] was written to c
    pushed      \* pushed[c]: stored events that c has put into the session it opened

mapVars  == <<made, current, isLive, closed, timers>>
connVars == <<conn, sid, from, times, pushed>>
vars == <<mapVars, buffer, subs, writer, mine, emitted, cancelled, ask, connVars>>

ConnSteps == {"new", "loading", "reading", "pushing", "following", "ended", "gone", "replayed"}

Asks == [after : AfterIds \union {NoId}, modes : ModeSets \union {{}}, cancelOnDisconnect : BOOLEAN]

(* The POST itself has no filter, no Last-Event-ID and cancels nothing.    *)
OriginAsk == [after |-> NoId, modes |-> {}, cancelOnDisconnect |-> FALSE]

-----------------------------------------------------------------------------
(***************************************************************************)
(* matchesStreamModes.                                                     *)
(***************************************************************************)
MessageKinds == {"messages", "messages/metadata", "messages/partial", "messages/complete"}

Pass(kind, modes) ==
    \/ modes = {}
    \/ kind \in {"metadata", "error", "end"}
    \/ kind \in modes
    \/ kind \in MessageKinds /\ modes \intersect {"messages", "messages-tuple"} # {}

Wanted(c, kind) == Pass(kind, ask[c].modes)

-----------------------------------------------------------------------------
Init ==
    /\ made = 0 /\ current = 0 /\ timers = 0
    /\ isLive = {} /\ closed = {}
    /\ buffer = [s \in Sessions |-> <<>>]
    /\ subs = [s \in Sessions |-> {}]
    /\ writer = "idle" /\ mine = 0 /\ emitted = 0 /\ cancelled = FALSE
    /\ ask \in {a \in [Conns -> Asks] : a[Origin] = OriginAsk}
    /\ conn = [c \in Conns |-> "new"]
    /\ sid = [c \in Conns |-> 0]
    /\ from = [c \in Conns |-> 0]
    /\ times = [c \in Conns |-> [i \in EventIds |-> 0]]
    /\ pushed = [c \in Conns |-> 0]

(***************************************************************************)
(* StreamManager.                                                          *)
(***************************************************************************)

(* createSession replaces whatever the map holds for the run.              *)
(* Mutant: the new object is not counted.                                  *)
CreateSessionUncounted ==
    /\ made < MaxSessions
    /\ made' = made
    /\ current' = made + 1

CreateSession ==
    /\ made < MaxSessions
    /\ made' = made + 1
    /\ current' = made + 1

(* publish finds the session by run id; a missing or closed one drops the  *)
(* event.                                                                  *)
CanPublish == current # 0 /\ current \notin closed

Publish(kind) ==
    IF CanPublish
    THEN /\ Len(buffer[current]) < MaxEvents
         /\ buffer' = [buffer EXCEPT ![current] = Append(@, kind)]
         /\ times' = [c \in Conns |->
                        IF c \in subs[current] /\ Wanted(c, kind)
                        THEN [times[c] EXCEPT ![Len(buffer[current]) + 1] = @ + 1]
                        ELSE times[c]]
    ELSE UNCHANGED <<buffer, times>>

(* Mutant: closing drops the subscribers without telling them.             *)
EndSubscribersSilently == {}

(* The connections closeSession calls onClose on.                          *)
EndSubscribers == IF current = 0 THEN {} ELSE subs[current]

(* closeSession too finds the session by run id, ends its subscribers and  *)
(* starts a clean-up timer; it may close a session twice.                  *)
(* Mutant: the session is not marked as closed.                            *)
CloseSessionUnmarked ==
    IF current # 0
    THEN /\ subs' = [subs EXCEPT ![current] = {}]
         /\ timers' = timers + 1
         /\ UNCHANGED closed
    ELSE UNCHANGED <<closed, subs, timers>>

CloseSession ==
    IF current # 0
    THEN /\ closed' = closed \union {current}
         /\ subs' = [subs EXCEPT ![current] = {}]
         /\ timers' = timers + 1
    ELSE UNCHANGED <<closed, subs, timers>>

(* The timer deletes by run id, whichever session the map holds by then.   *)
TimerFires ==
    /\ timers > 0
    /\ timers' = timers - 1
    /\ current' = 0
    /\ UNCHANGED <<made, isLive, closed, buffer, subs, writer, mine, emitted, cancelled, ask, connVars>>

-----------------------------------------------------------------------------
(***************************************************************************)
(* openSse and the writer it returns.                                      *)
(***************************************************************************)
OpenSse ==
    /\ writer = "idle"
    /\ CreateSession
    /\ writer' = "open"
    /\ mine' = made + 1
    /\ isLive' = isLive \union {made + 1}
    /\ subs' = [subs EXCEPT ![made + 1] = {Origin}]
    /\ conn' = [conn EXCEPT ![Origin] = "following"]
    /\ sid' = [sid EXCEPT ![Origin] = made + 1]
    /\ UNCHANGED <<closed, timers, buffer, emitted, cancelled, ask, from, times, pushed>>

Emit(kind) ==
    /\ writer = "open"
    /\ emitted < MaxEmits
    /\ emitted' = emitted + 1
    /\ Publish(kind)
    /\ UNCHANGED <<mapVars, subs, writer, mine, cancelled, ask, conn, sid, from, pushed>>

(* close() is skipped only when the writer's own object is closed already. *)
Finish ==
    /\ writer = "open"
    /\ writer' = "done"
    /\ IF mine \notin closed
       THEN /\ CloseSession
            /\ conn' = [c \in Conns |-> IF c \in EndSubscribers THEN "ended" ELSE conn[c]]
       ELSE UNCHANGED <<closed, subs, timers, conn>>
    /\ UNCHANGED <<made, current, isLive, buffer, mine, emitted, cancelled, ask, sid, from, times, pushed>>

-----------------------------------------------------------------------------
(***************************************************************************)
(* joinStream.                                                             *)
(***************************************************************************)
Arrives(c) == conn[c] = "new" /\ (EarlyJoin \/ writer # "idle")

SessionIsLive == current # 0 /\ current \in isLive

(* Only a live session, or any session of a stateless run, is followed.    *)
ToLive == ~OnThread \/ SessionIsLive

(* joinLive: nothing to follow or replay.  The join is answered from the   *)
(* stored state without a session (sendEvents).                            *)
NothingToFollow(c) ==
    current = 0 \/ (current \in closed /\ ask[c].after = NoId)

AnswerStored(c) ==
    /\ c \in Joiners /\ Arrives(c) /\ ToLive /\ NothingToFollow(c)
    /\ conn' = [conn EXCEPT ![c] = "ended"]
    /\ UNCHANGED <<mapVars, buffer, subs, writer, mine, emitted, cancelled, ask, sid, from, times, pushed>>

(* The events a connection is replayed: those after its Last-Event-ID.  One*)
(* that is ahead of the buffer (an id of another session) replays nothing  *)
(* and holds nothing back.                                                 *)
StartAt(c) ==
    LET n == Len(buffer[current]) IN
    IF ask[c].after = NoId \/ (ask[c].after \in Nat /\ ask[c].after > n) THEN n ELSE ask[c].after

(* Mutant: the replay repeats the client's last event.                     *)
ReplayedAgain(c, i) == i >= StartAt(c) /\ i <= Len(buffer[current])

Replayed(c, i) == i > StartAt(c) /\ i <= Len(buffer[current])

Replay(c) ==
    /\ sid' = [sid EXCEPT ![c] = current]
    /\ from' = [from EXCEPT ![c] = StartAt(c)]

(* joinLive: replay and subscribe in one tick; a closed session only       *)
(* replays.                                                                *)
JoinLive(c) ==
    /\ c \in Joiners /\ Arrives(c) /\ ToLive /\ ~NothingToFollow(c)
    /\ Replay(c)
    /\ times' = [times EXCEPT ![c] =
                    [i \in EventIds |-> IF Replayed(c, i) /\ Wanted(c, buffer[current][i]) THEN 1 ELSE 0]]
    /\ IF current \in closed
       THEN conn' = [conn EXCEPT ![c] = "ended"] /\ UNCHANGED subs
       ELSE /\ conn' = [conn EXCEPT ![c] = "following"]
            /\ subs' = [subs EXCEPT ![current] = @ \union {c}]
    /\ UNCHANGED <<mapVars, buffer, writer, mine, emitted, cancelled, ask, pushed>>

(* joinStoredRun: no live session NOW.  With a Last-Event-ID and a session *)
(* left by an earlier join, replay it; otherwise read the thread's state.  *)
JoinStored(c) ==
    /\ c \in Joiners /\ Arrives(c) /\ ~ToLive
    /\ conn' = [conn EXCEPT ![c] = IF ask[c].after # NoId /\ current # 0 THEN "loading" ELSE "reading"]
    /\ UNCHANGED <<mapVars, buffer, subs, writer, mine, emitted, cancelled, ask, sid, from, times, pushed>>

(* The replay comes one `await import` later and looks the session up      *)
(* again: its events after that id, unfiltered, and the end.               *)
ReplayStored(c) ==
    /\ conn[c] = "loading"
    /\ conn' = [conn EXCEPT ![c] = "replayed"]
    /\ IF current = 0
       THEN UNCHANGED <<sid, from, times>>
       ELSE /\ Replay(c)
            /\ times' = [times EXCEPT ![c] = [i \in EventIds |-> IF Replayed(c, i) THEN 1 ELSE 0]]
    /\ UNCHANGED <<mapVars, buffer, subs, writer, mine, emitted, cancelled, ask, pushed>>

(* The read of the thread's state throws: the join is answered with 500.   *)
StoredReadFails(c) ==
    /\ conn[c] = "reading"
    /\ conn' = [conn EXCEPT ![c] = "ended"]
    /\ UNCHANGED <<mapVars, buffer, subs, writer, mine, emitted, cancelled, ask, sid, from, times, pushed>>

(* streamFromAgent: a session of its own, filled one event at a time ...   *)
StoredOpen(c) ==
    /\ conn[c] = "reading"
    /\ CreateSession
    /\ conn' = [conn EXCEPT ![c] = "pushing"]
    /\ sid' = [sid EXCEPT ![c] = made + 1]
    /\ UNCHANGED <<isLive, closed, timers, buffer, subs, writer, mine, emitted, cancelled, ask, from, times, pushed>>

StoredPush(c) ==
    /\ conn[c] = "pushing"
    /\ pushed[c] < Len(StoredEvents)
    /\ Len(buffer[sid[c]]) < MaxEvents
    /\ buffer' = [buffer EXCEPT ![sid[c]] = Append(@, StoredEvents[pushed[c] + 1])]
    /\ pushed' = [pushed EXCEPT ![c] = @ + 1]
    /\ UNCHANGED <<mapVars, subs, writer, mine, emitted, cancelled, ask, conn, sid, from, times>>

(* ... and closed by run id.                                               *)
StoredClose(c) ==
    /\ conn[c] = "pushing"
    /\ pushed[c] = Len(StoredEvents)
    /\ CloseSession
    /\ conn' = [d \in Conns |-> IF d = c \/ d \in EndSubscribers THEN "ended" ELSE conn[d]]
    /\ UNCHANGED <<made, current, isLive, buffer, writer, mine, emitted, cancelled, ask, sid, from, times, pushed>>

CancelsLeaving(c) == ask[c].cancelOnDisconnect /\ sid[c] \in isLive \ closed

(* Mutant: a client that goes away closes the session.                     *)
DisconnectCloses(c) ==
    /\ conn[c] = "following"
    /\ CloseSession
    /\ conn' = [d \in Conns |-> IF d = c THEN "gone"
                                ELSE IF d \in EndSubscribers THEN "ended" ELSE conn[d]]
    /\ cancelled' = (cancelled \/ CancelsLeaving(c))
    /\ UNCHANGED <<made, current, isLive, buffer, writer, mine, emitted, ask, sid, from, times, pushed>>

(* A client goes away: it unsubscribes; the run is cancelled only if the   *)
(* join asked for it and the session is still open.                        *)
Disconnect(c) ==
    /\ conn[c] = "following"
    /\ conn' = [conn EXCEPT ![c] = "gone"]
    /\ subs' = [subs EXCEPT ![sid[c]] = @ \ {c}]
    /\ cancelled' = (cancelled \/ CancelsLeaving(c))
    /\ UNCHANGED <<mapVars, buffer, writer, mine, emitted, ask, sid, from, times, pushed>>

-----------------------------------------------------------------------------
Join(c) ==
    \/ AnswerStored(c) \/ JoinLive(c) \/ ReplayStored(c) \/ JoinStored(c)
    \/ StoredReadFails(c) \/ StoredOpen(c) \/ StoredPush(c) \/ StoredClose(c)

Next ==
    \/ OpenSse \/ Finish \/ TimerFires
    \/ \E kind \in WriterKinds : Emit(kind)
    \/ \E c \in Conns : Join(c) \/ Disconnect(c)

Spec == Init /\ [][Next]_vars

(* The agent call ends (connector timeout), and streamLive closes the      *)
(* writer in its finally block.                                            *)
FairSpec == Spec /\ WF_vars(Finish)

-----------------------------------------------------------------------------
(***************************************************************************)
(* Properties.                                                             *)
(***************************************************************************)

(* Type invariant.                                                         *)
TypeOK ==
    /\ made \in 0..MaxSessions /\ current \in 0..made /\ mine \in 0..made
    /\ timers \in Nat
    /\ isLive \subseteq Sessions /\ closed \subseteq Sessions
    /\ buffer \in [Sessions -> Seq(Kinds)]
    /\ \A s \in Sessions : Len(buffer[s]) <= MaxEvents
    /\ subs \in [Sessions -> SUBSET Conns]
    /\ writer \in {"idle", "open", "done"}
    /\ emitted \in 0..MaxEmits /\ cancelled \in BOOLEAN
    /\ ask \in [Conns -> Asks] /\ ask[Origin] = OriginAsk
    /\ conn \in [Conns -> ConnSteps]
    /\ sid \in [Conns -> 0..made]
    /\ from \in [Conns -> Nat]
    /\ times \in [Conns -> [EventIds -> Nat]]
    /\ pushed \in [Conns -> 0..Len(StoredEvents)]

(* Connection c asked for event i of the session it follows.               *)
Due(c, i) ==
    i > from[c] /\ i <= Len(buffer[sid[c]]) /\ Wanted(c, buffer[sid[c]][i])

(* A connection that follows a live session, or followed it until it was   *)
(* ended, has been written every event it asked for exactly once and no    *)
(* other: replay and live delivery neither overlap nor leave a gap, however*)
(* joins, publishes, disconnects and closes interleave (joinLive, publish).*)
ExactlyOnce ==
    \A c \in Conns :
        conn[c] \in {"following", "ended"} /\ sid[c] \in isLive =>
            \A i \in EventIds : times[c][i] = IF Due(c, i) THEN 1 ELSE 0

(* A client that left has never been written an event twice, nor one it    *)
(* did not ask for.                                                        *)
AtMostOnce ==
    \A c \in Conns : conn[c] = "gone" =>
        \A i \in EventIds : times[c][i] = 0 \/ (times[c][i] = 1 /\ Due(c, i))

(* Nothing is written twice, to nobody, and nothing is missed by those who *)
(* stay (joinLive, publish).                                               *)
DeliveredOnce == ExactlyOnce /\ AtMostOnce

(* Nobody is ended early: a connection that followed the live run is ended *)
(* only when the run has finished.                                         *)
FollowedToTheEnd ==
    \A c \in Conns : conn[c] = "ended" /\ sid[c] \in isLive => writer = "done"

(* Whatever the writer emits is in the session's buffer, where a rejoin    *)
(* with Last-Event-ID finds it, also while nobody is connected.            *)
NothingDropped == mine # 0 => emitted = Len(buffer[mine])

(* A stream is kept while its run goes on: its followers and its events    *)
(* (openSse, joinStoredRun, the clean-up timer).                           *)
StreamKept == FollowedToTheEnd /\ NothingDropped

Leaves(c) == conn[c] = "following" /\ conn'[c] = "gone"

(* A follower that leaves cancels the run if it asked for that and the run *)
(* goes on; after the run's end nobody's leaving does, though joins may    *)
(* still find the session, and nothing else cancels through the stream: not*)
(* the client that posted the run, not a close, not a clean-up (joinLive,  *)
(* closeSession).                                                          *)
LeavingCancels ==
    [][ ~cancelled =>
          (cancelled' <=> /\ writer = "open"
                          /\ \E c \in Joiners : Leaves(c) /\ ask[c].cancelOnDisconnect) ]_vars

(* Every connection that follows a run is ended some time, unless its      *)
(* client leaves first.                                                    *)
EveryFollowerEnds ==
    \A c \in Conns : conn[c] = "following" ~> conn[c] \in {"ended", "gone"}
=============================================================================
