------------------------- MODULE StreamSessionProofs -------------------------
(***************************************************************************)
(* Proofs about StreamSession, for any number of connections, sessions and *)
(* events: its type invariant, exactly-once delivery, at-most-once         *)
(* delivery to clients that left, and, for stateless runs or when no join  *)
(* precedes the stream, that followers are not ended early, nothing the    *)
(* writer emits is dropped, and who leaves cancels the run or does not.    *)
(***************************************************************************)
EXTENDS StreamSession, TLAPS

-----------------------------------------------------------------------------
(***************************************************************************)
(* The inductive invariant.                                                *)
(***************************************************************************)

(* A connection is subscribed to the session it follows and to no other,   *)
(* and closing a session has ended all of them.                            *)
SubscribersFollow ==
    /\ \A s \in Sessions, c \in Conns : c \in subs[s] <=> conn[c] = "following" /\ sid[c] = s
    /\ \A s \in closed : subs[s] = {}

(* Session numbers not yet given out are untouched.                        *)
FreshUntouched ==
    \A s \in Sessions : s > made => s \notin isLive /\ s \notin closed /\ buffer[s] = <<>>

(* Only the writer's session is live, and only live sessions are followed; *)
(* what streamFromAgent fills is never one of them.                        *)
RolesApart ==
    /\ \A c \in Conns : conn[c] \in {"following", "gone"} => sid[c] \in isLive
    /\ \A c \in Conns : conn[c] = "pushing" => sid[c] \in Sessions \ isLive
    /\ \A c \in Conns : conn[c] \in {"loading", "reading", "pushing"} => OnThread
    /\ \A c \in Conns : conn[c] = "ended" /\ sid[c] \in isLive => sid[c] \in closed
    /\ writer = "idle" => conn[Origin] = "new"
    /\ conn[Origin] \in {"new", "following", "ended", "gone"}
    /\ ~OnThread => \A s \in 1..made : s \in isLive

(* A connection that has not arrived was written nothing, and one that     *)
(* follows started at an event its session had.                            *)
Positions ==
    /\ \A c \in Conns : conn[c] \in {"new", "reading"} => sid[c] = 0
    /\ \A c \in Conns : conn[c] = "new" => from[c] = 0 /\ \A i \in EventIds : times[c][i] = 0
    /\ \A c \in Conns : conn[c] = "following" => from[c] <= Len(buffer[sid[c]])

DeliveryInv ==
    /\ TypeOK /\ SubscribersFollow /\ FreshUntouched /\ RolesApart /\ Positions
    /\ ExactlyOnce /\ AtMostOnce

(* While the writer is open its session is the one in the map, and nothing *)
(* is about to replace, close or delete it.                                *)
WriterUndisturbed ==
    /\ writer = "idle" => mine = 0 /\ made = 0 /\ timers = 0 /\ emitted = 0
    /\ writer = "open" => mine # 0 /\ current = mine /\ mine \notin closed /\ timers = 0
    /\ writer = "done" => mine \in closed
    /\ writer \in {"idle", "open"} => \A c \in Conns : conn[c] \notin {"loading", "reading", "pushing"}
    /\ mine # 0 => mine \in isLive
    /\ isLive \subseteq {mine}

KeepInv == DeliveryInv /\ WriterUndisturbed /\ NothingDropped

-----------------------------------------------------------------------------
(***************************************************************************)
(* Type correctness.                                                       *)
(***************************************************************************)

(* A join starts at an event of the session, or at its beginning.          *)
LEMMA StartAtType ==
    ASSUME TypeOK, NEW c \in Conns, current \in Sessions
    PROVE  StartAt(c) \in Nat /\ StartAt(c) <= Len(buffer[current])
<1>1. Len(buffer[current]) \in Nat  BY DEF TypeOK
<1>2. ask[c].after \in Nat \/ ask[c].after = NoId
  BY AfterIdsAssumption DEF TypeOK, Asks
<1> QED  BY <1>1, <1>2 DEF StartAt

(* Counting one more delivery of an event.                                 *)
LEMMA CountType ==
    ASSUME NEW f \in [EventIds -> Nat], NEW n
    PROVE  [f EXCEPT ![n] = @ + 1] \in [EventIds -> Nat]
<1>1. CASE n \in EventIds  BY <1>1
<1>2. CASE n \notin EventIds  BY <1>2
<1> QED  BY <1>1, <1>2

(* An event reaches the buffer and the connections without breaking their  *)
(* types.                                                                  *)
LEMMA PublishType ==
    ASSUME TypeOK, NEW kind \in Kinds, Publish(kind)
    PROVE  /\ buffer' \in [Sessions -> Seq(Kinds)]
           /\ \A s \in Sessions : Len(buffer'[s]) <= MaxEvents
           /\ times' \in [Conns -> [EventIds -> Nat]]
<1>1. CASE ~CanPublish
  BY <1>1 DEF Publish, TypeOK
<1>2. CASE CanPublish
  <2>1. current \in Sessions
    BY <1>2, BoundsAssumption DEF TypeOK, CanPublish, Sessions
  <2>2. buffer' = [buffer EXCEPT ![current] = Append(@, kind)] /\ Len(buffer[current]) < MaxEvents
    BY <1>2 DEF Publish
  <2>3. Append(buffer[current], kind) \in Seq(Kinds)
        /\ Len(Append(buffer[current], kind)) = Len(buffer[current]) + 1
    BY <2>1 DEF TypeOK
  <2>4. Len(buffer[current]) \in Nat
    BY <2>1 DEF TypeOK
  <2>5. \A s \in Sessions : Len(buffer'[s]) <= MaxEvents
    BY <2>1, <2>2, <2>3, <2>4, BoundsAssumption DEF TypeOK
  <2>6. times' \in [Conns -> [EventIds -> Nat]]
    <3>1. \A c \in Conns : times[c] \in [EventIds -> Nat]
      BY DEF TypeOK
    <3>2. \A c \in Conns :
            [times[c] EXCEPT ![Len(buffer[current]) + 1] = @ + 1] \in [EventIds -> Nat]
      BY <3>1, CountType
    <3>3. times' = [c \in Conns |->
                      IF c \in subs[current] /\ Wanted(c, kind)
                      THEN [times[c] EXCEPT ![Len(buffer[current]) + 1] = @ + 1]
                      ELSE times[c]]
      BY <1>2 DEF Publish
    <3> QED  BY <3>1, <3>2, <3>3
  <2> QED  BY <2>1, <2>2, <2>3, <2>5, <2>6 DEF TypeOK
<1> QED  BY <1>1, <1>2

(* Closing a session keeps the session sets well formed.                   *)
LEMMA CloseType ==
    ASSUME TypeOK, CloseSession
    PROVE  /\ closed' \subseteq Sessions
           /\ subs' \in [Sessions -> SUBSET Conns]
           /\ timers' \in Nat
<1>1. CASE current = 0
  BY <1>1 DEF CloseSession, TypeOK
<1>2. CASE current # 0
  <2>1. current \in Sessions  BY <1>2, BoundsAssumption DEF TypeOK, Sessions
  <2>2. closed' = closed \union {current} /\ timers' = timers + 1
        /\ subs' = [subs EXCEPT ![current] = {}]
    BY <1>2 DEF CloseSession
  <2>3. subs' \in [Sessions -> SUBSET Conns]
    BY <2>2 DEF TypeOK
  <2>4. timers' \in Nat /\ closed' \subseteq Sessions
    BY <2>1, <2>2 DEF TypeOK
  <2> QED  BY <2>3, <2>4
<1> QED  BY <1>1, <1>2

(* Every event the writer emits is of a known kind.                        *)
LEMMA WriterKindsAreKinds == WriterKinds \subseteq Kinds
BY DEF Kinds

LEMMA TypeInit == Init => TypeOK
<1> SUFFICES ASSUME Init PROVE TypeOK  OBVIOUS
<1>1. Origin \in Conns  BY DEF Conns
<1>2. ask \in [Conns -> Asks] /\ ask[Origin] = OriginAsk  BY DEF Init
<1>3. <<>> \in Seq(Kinds) /\ Len(<<>>) = 0  OBVIOUS
<1>4. times \in [Conns -> [EventIds -> Nat]]  BY DEF Init
<1>5. made \in 0..MaxSessions /\ emitted \in 0..MaxEmits  BY BoundsAssumption DEF Init
<1>6. buffer \in [Sessions -> Seq(Kinds)] /\ \A s \in Sessions : Len(buffer[s]) <= MaxEvents
  BY <1>3, BoundsAssumption DEF Init
<1>7. current \in 0..made /\ mine \in 0..made /\ timers \in Nat /\ sid \in [Conns -> 0..made]
  BY DEF Init
<1>8. isLive \subseteq Sessions /\ closed \subseteq Sessions /\ subs \in [Sessions -> SUBSET Conns]
  BY DEF Init
<1>9. conn \in [Conns -> ConnSteps] /\ from \in [Conns -> Nat] /\ cancelled \in BOOLEAN
      /\ writer \in {"idle", "open", "done"}
  BY DEF Init, ConnSteps
<1>10. pushed \in [Conns -> 0..Len(StoredEvents)]
  <2>1. Len(StoredEvents) = 3  BY DEF StoredEvents
  <2> QED  BY <2>1 DEF Init
<1> QED  BY <1>2, <1>4, <1>5, <1>6, <1>7, <1>8, <1>9, <1>10 DEF TypeOK

LEMMA TypeStep == TypeOK /\ [Next]_vars => TypeOK'
<1> SUFFICES ASSUME TypeOK, [Next]_vars PROVE TypeOK'  OBVIOUS
<1> USE BoundsAssumption
<1>1. CASE UNCHANGED vars
  BY <1>1 DEF vars, mapVars, connVars, TypeOK
<1>2. CASE OpenSse
  <2>1. Origin \in Conns  BY DEF Conns
  <2>2. made \in Nat /\ made < MaxSessions /\ made + 1 \in Sessions
    BY <1>2 DEF OpenSse, CreateSession, TypeOK, Sessions
  <2>3. sid' \in [Conns -> 0..made']
    BY <1>2, <2>1, <2>2 DEF OpenSse, CreateSession, TypeOK
  <2> QED  BY <1>2, <2>1, <2>2, <2>3 DEF OpenSse, CreateSession, TypeOK, ConnSteps
<1>3. CASE Finish
  <2>1. CASE mine \in closed
    BY <1>3, <2>1 DEF Finish, TypeOK
  <2>2. CASE mine \notin closed
    <3>1. conn' \in [Conns -> ConnSteps]
      BY <1>3, <2>2 DEF Finish, TypeOK, ConnSteps
    <3>2. closed' \subseteq Sessions /\ subs' \in [Sessions -> SUBSET Conns] /\ timers' \in Nat
      BY <1>3, <2>2, CloseType DEF Finish
    <3> QED  BY <1>3, <2>2, <3>1, <3>2 DEF Finish, TypeOK
  <2> QED  BY <2>1, <2>2
<1>4. CASE TimerFires
  BY <1>4 DEF TimerFires, connVars, TypeOK
<1>5. ASSUME NEW kind \in WriterKinds, Emit(kind) PROVE TypeOK'
  <2>1. emitted' \in 0..MaxEmits  BY <1>5 DEF Emit, TypeOK
  <2>2. Publish(kind) /\ kind \in Kinds  BY <1>5, WriterKindsAreKinds DEF Emit
  <2> QED  BY <1>5, <2>1, <2>2, PublishType DEF Emit, mapVars, TypeOK
<1>6. ASSUME NEW c \in Conns, AnswerStored(c) PROVE TypeOK'
  BY <1>6 DEF AnswerStored, mapVars, TypeOK, ConnSteps
<1>7. ASSUME NEW c \in Conns, JoinLive(c) PROVE TypeOK'
  <2>1. current \in Sessions  BY <1>7 DEF JoinLive, NothingToFollow, TypeOK, Sessions
  <2>2. StartAt(c) \in Nat  BY <2>1, StartAtType
  <2>3. sid' \in [Conns -> 0..made] /\ from' \in [Conns -> Nat]
    BY <1>7, <2>2 DEF JoinLive, Replay, TypeOK
  <2>4. times' \in [Conns -> [EventIds -> Nat]]
    BY <1>7 DEF JoinLive, TypeOK
  <2>5. conn' \in [Conns -> ConnSteps] /\ subs' \in [Sessions -> SUBSET Conns]
    <3>1. CASE current \in closed
      BY <1>7, <3>1 DEF JoinLive, TypeOK, ConnSteps
    <3>2. CASE current \notin closed
      <4>1. conn' = [conn EXCEPT ![c] = "following"]
            /\ subs' = [subs EXCEPT ![current] = subs[current] \union {c}]
        BY <1>7, <3>2 DEF JoinLive
      <4>2. subs[current] \union {c} \in SUBSET Conns
        BY <2>1 DEF TypeOK
      <4> QED  BY <4>1, <4>2 DEF TypeOK, ConnSteps
    <3> QED  BY <3>1, <3>2
  <2> QED  BY <1>7, <2>3, <2>4, <2>5 DEF JoinLive, mapVars, TypeOK
<1>8. ASSUME NEW c \in Conns, ReplayStored(c) PROVE TypeOK'
  <2>1. CASE current = 0
    BY <1>8, <2>1 DEF ReplayStored, mapVars, TypeOK, ConnSteps
  <2>2. CASE current # 0
    <3>1. current \in Sessions  BY <2>2 DEF TypeOK, Sessions
    <3>2. StartAt(c) \in Nat  BY <3>1, StartAtType
    <3>3. sid' \in [Conns -> 0..made] /\ from' \in [Conns -> Nat]
      BY <1>8, <2>2, <3>2 DEF ReplayStored, Replay, TypeOK
    <3>4. times' \in [Conns -> [EventIds -> Nat]]
      <4>1. times' = [times EXCEPT ![c] = [i \in EventIds |-> IF Replayed(c, i) THEN 1 ELSE 0]]
        BY <1>8, <2>2 DEF ReplayStored
      <4> QED  BY <4>1 DEF TypeOK
    <3>5. /\ conn' \in [Conns -> ConnSteps]
          /\ UNCHANGED <<mapVars, buffer, subs, writer, mine, emitted, cancelled, ask, pushed>>
      BY <1>8 DEF ReplayStored, TypeOK, ConnSteps
    <3> QED  BY <3>3, <3>4, <3>5 DEF mapVars, TypeOK
  <2> QED  BY <2>1, <2>2
<1>9. ASSUME NEW c \in Conns, JoinStored(c) \/ StoredReadFails(c) PROVE TypeOK'
  <2>1. conn' \in [Conns -> ConnSteps]
    BY <1>9 DEF JoinStored, StoredReadFails, TypeOK, ConnSteps
  <2> QED  BY <1>9, <2>1 DEF JoinStored, StoredReadFails, mapVars, TypeOK
<1>10. ASSUME NEW c \in Conns, StoredOpen(c) PROVE TypeOK'
  <2>1. made \in Nat /\ made < MaxSessions
    BY <1>10 DEF StoredOpen, CreateSession, TypeOK
  <2>2. sid' \in [Conns -> 0..made']
    BY <1>10, <2>1 DEF StoredOpen, CreateSession, TypeOK
  <2> QED  BY <1>10, <2>1, <2>2 DEF StoredOpen, CreateSession, TypeOK, ConnSteps
<1>11. ASSUME NEW c \in Conns, StoredPush(c) PROVE TypeOK'
  <2> DEFINE s == sid[c]
  <2>1. pushed[c] \in 0..2 /\ pushed' = [pushed EXCEPT ![c] = pushed[c] + 1]
        /\ Len(StoredEvents) = 3
    BY <1>11 DEF StoredPush, StoredEvents, TypeOK
  <2>2. pushed' \in [Conns -> 0..Len(StoredEvents)]  BY <2>1 DEF TypeOK
  <2>3. CASE s \notin Sessions
    BY <1>11, <2>2, <2>3 DEF StoredPush, mapVars, TypeOK
  <2>4. CASE s \in Sessions
    <3>1. buffer[s] \in Seq(Kinds) /\ Len(buffer[s]) \in Nat /\ Len(buffer[s]) < MaxEvents
      BY <1>11, <2>4 DEF StoredPush, TypeOK
    <3>2. StoredEvents[pushed[c] + 1] \in Kinds  BY <2>1 DEF StoredEvents, Kinds
    <3>3. Append(buffer[s], StoredEvents[pushed[c] + 1]) \in Seq(Kinds)
          /\ Len(Append(buffer[s], StoredEvents[pushed[c] + 1])) = Len(buffer[s]) + 1
      BY <3>1, <3>2
    <3>4. buffer' = [buffer EXCEPT ![s] = Append(buffer[s], StoredEvents[pushed[c] + 1])]
      BY <1>11 DEF StoredPush
    <3>5. buffer' \in [Sessions -> Seq(Kinds)] /\ \A q \in Sessions : Len(buffer'[q]) <= MaxEvents
      BY <2>4, <3>1, <3>3, <3>4 DEF TypeOK
    <3> QED  BY <1>11, <2>2, <3>5 DEF StoredPush, mapVars, TypeOK
  <2> QED  BY <2>3, <2>4
<1>12. ASSUME NEW c \in Conns, StoredClose(c) PROVE TypeOK'
  <2>1. conn' \in [Conns -> ConnSteps]
    BY <1>12 DEF StoredClose, TypeOK, ConnSteps
  <2>2. closed' \subseteq Sessions /\ subs' \in [Sessions -> SUBSET Conns] /\ timers' \in Nat
    BY <1>12, CloseType DEF StoredClose
  <2> QED  BY <1>12, <2>1, <2>2 DEF StoredClose, TypeOK
<1>13. ASSUME NEW c \in Conns, Disconnect(c) PROVE TypeOK'
  <2>1. cancelled' \in BOOLEAN
    BY <1>13 DEF Disconnect
  <2> QED  BY <1>13, <2>1 DEF Disconnect, mapVars, TypeOK, ConnSteps
<1> QED  BY <1>1, <1>2, <1>3, <1>4, <1>5, <1>6, <1>7, <1>8, <1>9, <1>10, <1>11, <1>12, <1>13 DEF Next, Join

(* Every reachable state of the sessions is well formed, for any number of *)
(* joins and events (StreamManager, openSse, joinLive, joinStoredRun).     *)
THEOREM TypeCorrect == Spec => []TypeOK
BY TypeInit, TypeStep, PTL DEF Spec

-----------------------------------------------------------------------------
(***************************************************************************)
(* Delivery.                                                               *)
(***************************************************************************)

LEMMA DeliveryInit == Init => DeliveryInv
<1> SUFFICES ASSUME Init PROVE DeliveryInv  OBVIOUS
<1>1. TypeOK  BY TypeInit
<1>2. SubscribersFollow /\ FreshUntouched
  BY DEF Init, SubscribersFollow, FreshUntouched
<1>3. Origin \in Conns  BY DEF Conns
<1>4. RolesApart
  BY <1>3 DEF Init, RolesApart
<1>5. Positions
  BY DEF Init, Positions
<1>6. ExactlyOnce /\ AtMostOnce
  BY DEF Init, ExactlyOnce, AtMostOnce
<1> QED  BY <1>1, <1>2, <1>4, <1>5, <1>6 DEF DeliveryInv

LEMMA SubscribersStep == DeliveryInv /\ [Next]_vars => SubscribersFollow'
<1> SUFFICES ASSUME DeliveryInv, [Next]_vars PROVE SubscribersFollow'  OBVIOUS
<1> USE DEF SubscribersFollow
<1>t. TypeOK /\ SubscribersFollow /\ FreshUntouched /\ RolesApart  BY DEF DeliveryInv
<1>1. CASE UNCHANGED vars
  BY <1>1, <1>t DEF vars, mapVars, connVars
<1>2. CASE OpenSse
  <2>1. Origin \in Conns /\ conn[Origin] = "new"
    BY <1>2, <1>t DEF OpenSse, RolesApart, Conns
  <2>2. made + 1 \in Sessions /\ made + 1 \notin closed
    BY <1>2, <1>t, BoundsAssumption DEF OpenSse, CreateSession, TypeOK, Sessions, FreshUntouched
  <2>3. \A c \in Conns : sid[c] # made + 1
    BY <1>t, BoundsAssumption DEF TypeOK
  <2>4. subs' = [subs EXCEPT ![made + 1] = {Origin}] /\ closed' = closed
        /\ conn' = [conn EXCEPT ![Origin] = "following"] /\ sid' = [sid EXCEPT ![Origin] = made + 1]
    BY <1>2 DEF OpenSse
  <2> QED  BY <2>1, <2>2, <2>3, <2>4, <1>t DEF TypeOK
<1>3. ASSUME CloseSession, sid' = sid, NEW D \in SUBSET Conns,
             \A d \in D : conn[d] # "following",
             conn' = [c \in Conns |-> IF c \in D \/ c \in EndSubscribers THEN "ended" ELSE conn[c]]
      PROVE  SubscribersFollow'
  <2>1. CASE current = 0
    BY <2>1, <1>3, <1>t DEF CloseSession, EndSubscribers
  <2>2. CASE current # 0
    <3>1. current \in Sessions  BY <2>2, <1>t, BoundsAssumption DEF TypeOK, Sessions
    <3>2. subs' = [subs EXCEPT ![current] = {}] /\ closed' = closed \union {current}
          /\ EndSubscribers = subs[current]
      BY <2>2, <1>3 DEF CloseSession, EndSubscribers
    <3>3. \A s \in Sessions, c \in Conns : c \in subs'[s] <=> conn'[c] = "following" /\ sid'[c] = s
      <4> TAKE s \in Sessions, c \in Conns
      <4>1. CASE s = current
        BY <4>1, <3>1, <3>2, <1>3, <1>t DEF TypeOK
      <4>2. CASE s # current
        BY <4>2, <3>1, <3>2, <1>3, <1>t DEF TypeOK
      <4> QED  BY <4>1, <4>2
    <3>4. \A s \in closed' : subs'[s] = {}
      BY <3>1, <3>2, <1>t DEF TypeOK
    <3> QED  BY <3>3, <3>4
  <2> QED  BY <2>1, <2>2
<1>4. CASE Finish
  <2>1. CASE mine \in closed
    BY <1>4, <2>1, <1>t DEF Finish
  <2>2. CASE mine \notin closed
    <3>1. conn' = [c \in Conns |-> IF c \in {} \/ c \in EndSubscribers THEN "ended" ELSE conn[c]]
      BY <1>4, <2>2 DEF Finish
    <3>2. CloseSession /\ sid' = sid /\ {} \in SUBSET Conns
      BY <1>4, <2>2 DEF Finish
    <3> QED  BY <3>1, <3>2, <1>3
  <2> QED  BY <2>1, <2>2
<1>5. CASE TimerFires
  BY <1>5, <1>t DEF TimerFires, connVars
<1>6. ASSUME NEW kind \in WriterKinds, Emit(kind) PROVE SubscribersFollow'
  BY <1>6, <1>t DEF Emit, mapVars
<1>7. ASSUME NEW c \in Conns, AnswerStored(c) PROVE SubscribersFollow'
  BY <1>7, <1>t DEF AnswerStored, Arrives, mapVars, TypeOK
<1>8. ASSUME NEW c \in Conns, JoinLive(c) PROVE SubscribersFollow'
  <2>1. current \in Sessions
    BY <1>8, <1>t, BoundsAssumption DEF JoinLive, NothingToFollow, TypeOK, Sessions
  <2>2. conn[c] = "new" /\ sid' = [sid EXCEPT ![c] = current] /\ closed' = closed
    BY <1>8 DEF JoinLive, Arrives, Replay, mapVars
  <2>3. CASE current \in closed
    <3>1. conn' = [conn EXCEPT ![c] = "ended"] /\ subs' = subs
      BY <1>8, <2>3 DEF JoinLive
    <3> QED  BY <2>2, <3>1, <1>t DEF TypeOK
  <2>4. CASE current \notin closed
    <3>1. conn' = [conn EXCEPT ![c] = "following"]
          /\ subs' = [subs EXCEPT ![current] = subs[current] \union {c}]
      BY <1>8, <2>4 DEF JoinLive
    <3> QED  BY <2>1, <2>2, <2>4, <3>1, <1>t DEF TypeOK
  <2> QED  BY <2>3, <2>4
<1>9. ASSUME NEW c \in Conns, ReplayStored(c) PROVE SubscribersFollow'
  BY <1>9, <1>t DEF ReplayStored, Arrives, Replay, mapVars, TypeOK
<1>10. ASSUME NEW c \in Conns, JoinStored(c) \/ StoredReadFails(c) PROVE SubscribersFollow'
  BY <1>10, <1>t DEF JoinStored, StoredReadFails, Arrives, mapVars, TypeOK
<1>11. ASSUME NEW c \in Conns, StoredOpen(c) PROVE SubscribersFollow'
  BY <1>11, <1>t DEF StoredOpen, TypeOK
<1>12. ASSUME NEW c \in Conns, StoredPush(c) PROVE SubscribersFollow'
  BY <1>12, <1>t DEF StoredPush, mapVars, connVars
<1>13. ASSUME NEW c \in Conns, StoredClose(c) PROVE SubscribersFollow'
  <2>1. conn' = [d \in Conns |-> IF d \in {c} \/ d \in EndSubscribers THEN "ended" ELSE conn[d]]
    BY <1>13 DEF StoredClose
  <2> QED  BY <1>13, <2>1, <1>3 DEF StoredClose
<1>14. ASSUME NEW c \in Conns, Disconnect(c) PROVE SubscribersFollow'
  <2>1. sid[c] \in Sessions /\ conn[c] = "following"
    BY <1>14, <1>t DEF Disconnect, RolesApart, TypeOK
  <2>2. subs' = [subs EXCEPT ![sid[c]] = subs[sid[c]] \ {c}]
        /\ conn' = [conn EXCEPT ![c] = "gone"] /\ sid' = sid /\ closed' = closed
    BY <1>14 DEF Disconnect, mapVars
  <2> QED  BY <2>1, <2>2, <1>t DEF TypeOK
<1> QED  BY <1>1, <1>2, <1>4, <1>5, <1>6, <1>7, <1>8, <1>9, <1>10, <1>11, <1>12, <1>13, <1>14 DEF Next, Join

(* A step appends at most one event to a session, and nothing to one that  *)
(* is not in use or that is live and closed.                               *)
LEMMA BufferStep ==
    ASSUME DeliveryInv, [Next]_vars, NEW s \in Sessions
    PROVE  \/ buffer'[s] = buffer[s]
           \/ /\ \E k \in Kinds : buffer'[s] = Append(buffer[s], k)
              /\ s <= made /\ ~(s \in isLive /\ s \in closed)
<1>t. TypeOK /\ RolesApart  BY DEF DeliveryInv
<1>1. CASE UNCHANGED vars
  BY <1>1 DEF vars
<1>2. CASE OpenSse \/ Finish \/ TimerFires
  BY <1>2 DEF OpenSse, Finish, TimerFires
<1>3. ASSUME NEW kind \in WriterKinds, Emit(kind)
      PROVE  \/ buffer'[s] = buffer[s]
             \/ /\ \E k \in Kinds : buffer'[s] = Append(buffer[s], k)
                /\ s <= made /\ ~(s \in isLive /\ s \in closed)
  <2>1. CASE ~CanPublish
    BY <1>3, <2>1 DEF Emit, Publish
  <2>2. CASE CanPublish
    <3>1. buffer' = [buffer EXCEPT ![current] = Append(buffer[current], kind)]
      BY <1>3, <2>2 DEF Emit, Publish
    <3>2. current <= made /\ current \notin closed /\ kind \in Kinds
      BY <2>2, <1>t, BoundsAssumption, WriterKindsAreKinds DEF CanPublish, TypeOK
    <3> QED  BY <3>1, <3>2, <1>t DEF TypeOK
  <2> QED  BY <2>1, <2>2
<1>4. ASSUME NEW c \in Conns,
             AnswerStored(c) \/ JoinLive(c) \/ ReplayStored(c) \/ JoinStored(c) \/ StoredReadFails(c)
             \/ StoredOpen(c) \/ StoredClose(c) \/ Disconnect(c)
      PROVE  buffer'[s] = buffer[s]
  BY <1>4 DEF AnswerStored, JoinLive, ReplayStored, JoinStored, StoredReadFails, StoredOpen, StoredClose, Disconnect
<1>5. ASSUME NEW c \in Conns, StoredPush(c)
      PROVE  \/ buffer'[s] = buffer[s]
             \/ /\ \E k \in Kinds : buffer'[s] = Append(buffer[s], k)
                /\ s <= made /\ ~(s \in isLive /\ s \in closed)
  <2> DEFINE q == sid[c]
             k == StoredEvents[pushed[c] + 1]
  <2>1. q \in Sessions \ isLive /\ q <= made
    BY <1>5, <1>t, BoundsAssumption DEF StoredPush, RolesApart, TypeOK
  <2>2. k \in Kinds
    <3>1. pushed[c] \in 0..2
      BY <1>5, <1>t DEF StoredPush, StoredEvents, TypeOK
    <3> QED  BY <3>1 DEF StoredEvents, Kinds
  <2>3. buffer' = [buffer EXCEPT ![q] = Append(buffer[q], k)]
    BY <1>5 DEF StoredPush
  <2> QED  BY <2>1, <2>2, <2>3, <1>t DEF TypeOK
<1> QED  BY <1>1, <1>2, <1>3, <1>4, <1>5 DEF Next, Join

(* So what a session holds stays where it is.                              *)
LEMMA BufferGrows ==
    ASSUME DeliveryInv, [Next]_vars, NEW s \in Sessions
    PROVE  /\ Len(buffer[s]) \in Nat /\ Len(buffer'[s]) \in Nat
           /\ Len(buffer[s]) <= Len(buffer'[s])
           /\ \A i \in 1..Len(buffer[s]) : buffer'[s][i] = buffer[s][i]
<1>1. buffer[s] \in Seq(Kinds)  BY DEF DeliveryInv, TypeOK
<1>2. CASE buffer'[s] = buffer[s]
  BY <1>1, <1>2
<1>3. ASSUME NEW k \in Kinds, buffer'[s] = Append(buffer[s], k)
      PROVE  /\ Len(buffer[s]) \in Nat /\ Len(buffer'[s]) \in Nat
             /\ Len(buffer[s]) <= Len(buffer'[s])
             /\ \A i \in 1..Len(buffer[s]) : buffer'[s][i] = buffer[s][i]
  BY <1>1, <1>3
<1> QED  BY <1>2, <1>3, BufferStep

LEMMA FreshStep == DeliveryInv /\ [Next]_vars => FreshUntouched'
<1> SUFFICES ASSUME DeliveryInv, [Next]_vars,
                    NEW s \in Sessions, s > made'
             PROVE  s \notin isLive' /\ s \notin closed' /\ buffer'[s] = <<>>
  BY DEF FreshUntouched
<1>t. TypeOK /\ TypeOK'  BY TypeStep DEF DeliveryInv
<1>1. made' >= made /\ (isLive' = isLive \/ isLive' = isLive \union {made'})
      /\ (closed' = closed \/ (closed' = closed \union {current}))
  BY <1>t, BoundsAssumption DEF Next, Join, vars, mapVars, connVars, OpenSse, CreateSession, Finish, CloseSession,
     TimerFires, Emit, AnswerStored, JoinLive, ReplayStored, JoinStored, StoredReadFails, StoredOpen, StoredPush,
     StoredClose, Disconnect, TypeOK
<1>2. s > made /\ s # current /\ s # made'
  BY <1>1, <1>t, BoundsAssumption DEF TypeOK, Sessions
<1>3. s \notin isLive /\ s \notin closed /\ buffer[s] = <<>>
  BY <1>2 DEF DeliveryInv, FreshUntouched
<1>4. buffer'[s] = buffer[s]
  BY <1>2, <1>t, BufferStep, BoundsAssumption DEF TypeOK, Sessions
<1> QED  BY <1>1, <1>2, <1>3, <1>4

(* A session that a join follows is live.                                  *)
LEMMA FollowedIsLive ==
    ASSUME TypeOK, RolesApart, NEW c \in Conns, JoinLive(c)
    PROVE  current \in Sessions /\ current \in isLive
<1>1. current \in Sessions /\ current \in 1..made
  BY BoundsAssumption DEF JoinLive, NothingToFollow, TypeOK, Sessions
<1>2. CASE OnThread
  BY <1>1, <1>2 DEF JoinLive, ToLive, SessionIsLive
<1>3. CASE ~OnThread
  BY <1>1, <1>3 DEF RolesApart
<1> QED  BY <1>1, <1>2, <1>3

LEMMA RolesStep == DeliveryInv /\ [Next]_vars => RolesApart'
<1> SUFFICES ASSUME DeliveryInv, [Next]_vars PROVE RolesApart'  OBVIOUS
<1>t. /\ TypeOK /\ TypeOK' /\ SubscribersFollow /\ FreshUntouched /\ Positions
      /\ \A c \in Conns : conn[c] \in {"following", "gone"} => sid[c] \in isLive
      /\ \A c \in Conns : conn[c] = "pushing" => sid[c] \in Sessions \ isLive
      /\ \A c \in Conns : conn[c] \in {"loading", "reading", "pushing"} => OnThread
      /\ \A c \in Conns : conn[c] = "ended" /\ sid[c] \in isLive => sid[c] \in closed
      /\ writer = "idle" => conn[Origin] = "new"
      /\ conn[Origin] \in {"new", "following", "ended", "gone"}
      /\ ~OnThread => \A s \in 1..made : s \in isLive
  BY TypeStep DEF DeliveryInv, RolesApart
<1>o. Origin \in Conns /\ Origin \notin Joiners  BY ConnectionAssumption DEF Conns
<1>z. 0 \notin isLive /\ isLive \subseteq Sessions  BY <1>t DEF TypeOK, Sessions
<1> USE DEF RolesApart
<1>1. CASE UNCHANGED vars
  BY <1>1, <1>t DEF vars, mapVars, connVars
<1>2. CASE OpenSse
  <2>1. /\ conn' = [conn EXCEPT ![Origin] = "following"] /\ sid' = [sid EXCEPT ![Origin] = made + 1]
        /\ isLive' = isLive \union {made + 1} /\ closed' = closed /\ writer' = "open"
        /\ made' = made + 1
    BY <1>2 DEF OpenSse, CreateSession
  <2>2. \A c \in Conns : sid[c] # made + 1
    BY <1>t, BoundsAssumption DEF TypeOK
  <2>3. ~OnThread => \A s \in 1..made' : s \in isLive'
    BY <2>1, <1>t, BoundsAssumption DEF TypeOK
  <2> QED  BY <2>1, <2>2, <2>3, <1>t, <1>o DEF TypeOK
<1>3. ASSUME CloseSession, UNCHANGED <<made, isLive, sid>>, NEW D \in SUBSET Conns,
             \A d \in D : conn[d] = "pushing",
             conn' = [c \in Conns |-> IF c \in D \/ c \in EndSubscribers THEN "ended" ELSE conn[c]],
             writer' \in {writer, "done"}
      PROVE  RolesApart'
  <2>1. closed' = closed \union {current} \/ closed' = closed
    BY <1>3 DEF CloseSession
  <2>2. \A c \in Conns : c \in EndSubscribers =>
            conn[c] = "following" /\ sid[c] = current /\ closed' = closed \union {current}
    BY <1>3, <1>t, BoundsAssumption DEF EndSubscribers, CloseSession, SubscribersFollow, TypeOK, Sessions
  <2>3. \A c \in Conns : conn'[c] = "ended" /\ sid[c] \in isLive => sid[c] \in closed'
    BY <2>1, <2>2, <1>3, <1>t
  <2>4. writer' = "idle" => conn'[Origin] = "new"
    BY <2>2, <1>3, <1>t, <1>o
  <2> QED  BY <2>3, <2>4, <1>3, <1>t, <1>o
<1>4. CASE Finish
  <2>1. CASE mine \in closed
    BY <1>4, <2>1, <1>t DEF Finish
  <2>2. CASE mine \notin closed
    <3>1. conn' = [c \in Conns |-> IF c \in {} \/ c \in EndSubscribers THEN "ended" ELSE conn[c]]
      BY <1>4, <2>2 DEF Finish
    <3>2. CloseSession /\ UNCHANGED <<made, isLive, sid>> /\ {} \in SUBSET Conns
          /\ writer' \in {writer, "done"}
      BY <1>4, <2>2 DEF Finish
    <3> QED  BY <3>1, <3>2, <1>3
  <2> QED  BY <2>1, <2>2
<1>5. CASE TimerFires
  BY <1>5, <1>t DEF TimerFires, connVars
<1>6. ASSUME NEW kind \in WriterKinds, Emit(kind) PROVE RolesApart'
  BY <1>6, <1>t DEF Emit, mapVars
<1>7. ASSUME NEW c \in Conns, AnswerStored(c) PROVE RolesApart'
  <2>1. conn' = [conn EXCEPT ![c] = "ended"] /\ sid' = sid /\ conn[c] = "new" /\ sid[c] = 0 /\ c # Origin
    BY <1>7, <1>t, <1>o DEF AnswerStored, Arrives, Positions
  <2> QED  BY <1>7, <2>1, <1>t, <1>z DEF AnswerStored, mapVars, TypeOK
<1>8. ASSUME NEW c \in Conns, JoinLive(c) PROVE RolesApart'
  <2>1. sid' = [sid EXCEPT ![c] = current] /\ c # Origin /\ UNCHANGED <<isLive, closed, made, writer>>
    BY <1>8, <1>o DEF JoinLive, Replay, mapVars
  <2>2. current \in isLive
    BY <1>8, <1>t, FollowedIsLive
  <2>3. \/ conn' = [conn EXCEPT ![c] = "ended"] /\ current \in closed
        \/ conn' = [conn EXCEPT ![c] = "following"]
    BY <1>8 DEF JoinLive
  <2>4. \A d \in Conns : sid'[d] = (IF d = c THEN current ELSE sid[d])
    BY <2>1, <1>t DEF TypeOK
  <2>5. CASE conn' = [conn EXCEPT ![c] = "ended"] /\ current \in closed
    <3>1. \A d \in Conns : conn'[d] = (IF d = c THEN "ended" ELSE conn[d])
      BY <2>5, <1>t DEF TypeOK
    <3> QED  BY <2>1, <2>2, <2>4, <2>5, <3>1, <1>t, <1>o
  <2>6. CASE conn' = [conn EXCEPT ![c] = "following"]
    <3>1. \A d \in Conns : conn'[d] = (IF d = c THEN "following" ELSE conn[d])
      BY <2>6, <1>t DEF TypeOK
    <3> QED  BY <2>1, <2>2, <2>4, <3>1, <1>t, <1>o
  <2> QED  BY <2>3, <2>5, <2>6
<1>9. ASSUME NEW c \in Conns, ReplayStored(c) PROVE RolesApart'
  <2>1. /\ \A d \in Conns : d # c => sid'[d] = sid[d] /\ conn'[d] = conn[d]
        /\ conn'[c] = "replayed" /\ c # Origin /\ UNCHANGED <<isLive, closed, made, writer>>
    BY <1>9, <1>t DEF ReplayStored, Replay, mapVars, TypeOK
  <2> QED  BY <2>1, <1>t, <1>o
<1>10. ASSUME NEW c \in Conns, JoinStored(c) \/ StoredReadFails(c) PROVE RolesApart'
  <2>1. CASE JoinStored(c)
    <3>1. /\ conn'[c] \in {"loading", "reading"} /\ \A d \in Conns : d # c => conn'[d] = conn[d]
          /\ c # Origin /\ OnThread /\ UNCHANGED <<isLive, closed, made, writer, sid>>
      BY <2>1, <1>o, <1>t DEF JoinStored, ToLive, mapVars, TypeOK
    <3> QED  BY <3>1, <1>t, <1>o
  <2>2. CASE StoredReadFails(c)
    <3>1. /\ conn'[c] = "ended" /\ \A d \in Conns : d # c => conn'[d] = conn[d]
          /\ c # Origin /\ sid[c] = 0 /\ UNCHANGED <<isLive, closed, made, writer, sid>>
      BY <2>2, <1>t DEF StoredReadFails, mapVars, Positions, TypeOK
    <3> QED  BY <3>1, <1>t, <1>o, <1>z
  <2> QED  BY <1>10, <2>1, <2>2
<1>11. ASSUME NEW c \in Conns, StoredOpen(c) PROVE RolesApart'
  <2>1. /\ conn' = [conn EXCEPT ![c] = "pushing"] /\ sid' = [sid EXCEPT ![c] = made + 1]
        /\ c # Origin /\ OnThread /\ UNCHANGED <<isLive, closed, writer>>
    BY <1>11, <1>t DEF StoredOpen
  <2>2. made + 1 \in Sessions \ isLive
    BY <1>11, <1>t, BoundsAssumption DEF StoredOpen, CreateSession, TypeOK, Sessions, FreshUntouched
  <2>3. /\ conn'[c] = "pushing" /\ sid'[c] = made + 1
        /\ \A d \in Conns : d # c => conn'[d] = conn[d] /\ sid'[d] = sid[d]
    BY <2>1, <1>t DEF TypeOK
  <2> QED  BY <2>1, <2>2, <2>3, <1>t, <1>o
<1>12. ASSUME NEW c \in Conns, StoredPush(c) PROVE RolesApart'
  BY <1>12, <1>t DEF StoredPush, mapVars, connVars
<1>13. ASSUME NEW c \in Conns, StoredClose(c) PROVE RolesApart'
  <2>1. conn' = [d \in Conns |-> IF d \in {c} \/ d \in EndSubscribers THEN "ended" ELSE conn[d]]
    BY <1>13 DEF StoredClose
  <2>2. CloseSession /\ UNCHANGED <<made, isLive, sid>> /\ writer' \in {writer, "done"}
        /\ {c} \in SUBSET Conns /\ \A d \in {c} : conn[d] = "pushing"
    BY <1>13 DEF StoredClose
  <2> QED  BY <2>1, <2>2, <1>3
<1>14. ASSUME NEW c \in Conns, Disconnect(c) PROVE RolesApart'
  BY <1>14, <1>t DEF Disconnect, mapVars, TypeOK
<1> QED  BY <1>1, <1>2, <1>4, <1>5, <1>6, <1>7, <1>8, <1>9, <1>10, <1>11, <1>12, <1>13, <1>14 DEF Next, Join

(* Neither count of a connection changes but by its own join or by an      *)
(* event published to it.                                                  *)
LEMMA PositionsStep == DeliveryInv /\ [Next]_vars => Positions'
<1> SUFFICES ASSUME DeliveryInv, [Next]_vars PROVE Positions'  OBVIOUS
<1>t. TypeOK /\ SubscribersFollow /\ RolesApart /\ Positions  BY DEF DeliveryInv
<1>o. Origin \in Conns  BY DEF Conns
<1>g. \A s \in Sessions : Len(buffer[s]) \in Nat /\ Len(buffer'[s]) \in Nat
                          /\ Len(buffer[s]) <= Len(buffer'[s])
  BY BufferGrows
<1>s. \A c \in Conns : conn[c] = "following" => sid[c] \in Sessions
  BY <1>t DEF RolesApart, TypeOK
<1> USE DEF Positions
(* A step that leaves `from` alone, ends or removes connections only, and  *)
(* counts only for connections that follow.                                *)
<1>1. ASSUME UNCHANGED <<sid, from>>,
             \A c \in Conns : conn'[c] = conn[c] \/ conn'[c] \in {"ended", "gone"},
             \A c \in Conns : conn[c] = "new" => times'[c] = times[c]
      PROVE  Positions'
  <2>1. ASSUME NEW c \in Conns, conn'[c] = "following" PROVE from[c] <= Len(buffer'[sid[c]])
    <3>1. conn[c] = "following"
      BY <1>1, <2>1
    <3>2. sid[c] \in Sessions /\ from[c] \in Nat /\ from[c] <= Len(buffer[sid[c]])
      BY <3>1, <1>t, <1>s DEF TypeOK
    <3>3. Len(buffer[sid[c]]) \in Nat /\ Len(buffer'[sid[c]]) \in Nat
          /\ Len(buffer[sid[c]]) <= Len(buffer'[sid[c]])
      BY <3>2, <1>g
    <3> QED  BY <3>2, <3>3
  <2> QED  BY <1>1, <2>1, <1>t
<1>2. CASE UNCHANGED vars
  BY <1>2, <1>1 DEF vars, connVars
<1>3. CASE OpenSse
  <2>1. /\ conn' = [conn EXCEPT ![Origin] = "following"] /\ sid' = [sid EXCEPT ![Origin] = made + 1]
        /\ UNCHANGED <<from, times, buffer>> /\ conn[Origin] = "new" /\ made + 1 \in Sessions
    BY <1>3, <1>t, BoundsAssumption DEF OpenSse, CreateSession, RolesApart, TypeOK, Sessions
  <2>2. \A c \in Conns : conn'[c] = "following" => from'[c] <= Len(buffer'[sid'[c]])
    <3>1. \A c \in Conns : c # Origin => conn'[c] = conn[c] /\ sid'[c] = sid[c]
      BY <2>1
    <3>2. sid'[Origin] = made + 1 /\ from[Origin] = 0 /\ Len(buffer[made + 1]) \in Nat
      BY <2>1, <1>t, <1>o, <1>g DEF TypeOK
    <3> QED  BY <2>1, <3>1, <3>2, <1>t
  <2> QED  BY <2>1, <2>2, <1>t, <1>o DEF TypeOK
<1>4. CASE Finish
  BY <1>4, <1>1 DEF Finish
<1>5. CASE TimerFires
  BY <1>5, <1>1 DEF TimerFires, connVars
<1>6. ASSUME NEW kind \in WriterKinds, Emit(kind) PROVE Positions'
  <2>1. \A c \in Conns : conn[c] = "new" => times'[c] = times[c]
    <3>1. CASE ~CanPublish
      BY <1>6, <3>1 DEF Emit, Publish
    <3>2. CASE CanPublish
      <4>1. times' = [c \in Conns |->
                        IF c \in subs[current] /\ Wanted(c, kind)
                        THEN [times[c] EXCEPT ![Len(buffer[current]) + 1] = @ + 1]
                        ELSE times[c]]
        BY <1>6, <3>2 DEF Emit, Publish
      <4>2. current \in Sessions
        BY <3>2, <1>t, BoundsAssumption DEF CanPublish, TypeOK, Sessions
      <4>3. \A c \in Conns : conn[c] = "new" => c \notin subs[current]
        BY <4>2, <1>t DEF SubscribersFollow
      <4> QED  BY <4>1, <4>3
    <3> QED  BY <3>1, <3>2
  <2> QED  BY <1>6, <2>1, <1>1 DEF Emit
<1>7. ASSUME NEW c \in Conns, AnswerStored(c) PROVE Positions'
  BY <1>7, <1>1, <1>t DEF AnswerStored, TypeOK
<1>8. ASSUME NEW c \in Conns, JoinLive(c) PROVE Positions'
  <2>1. current \in Sessions
    BY <1>8, <1>t, FollowedIsLive
  <2>2. StartAt(c) \in Nat /\ StartAt(c) <= Len(buffer[current])
    BY <2>1, <1>t, StartAtType
  <2>3. \A d \in Conns : sid'[d] = (IF d = c THEN current ELSE sid[d])
                       /\ from'[d] = (IF d = c THEN StartAt(c) ELSE from[d])
                       /\ (d # c => times'[d] = times[d]) /\ buffer' = buffer
    <3>1. sid' = [sid EXCEPT ![c] = current] /\ from' = [from EXCEPT ![c] = StartAt(c)]
      BY <1>8 DEF JoinLive, Replay
    <3>2. \A d \in Conns : d # c => times'[d] = times[d]
      BY <1>8, <1>t DEF JoinLive, TypeOK
    <3>3. buffer' = buffer
      BY <1>8 DEF JoinLive
    <3> QED  BY <3>1, <3>2, <3>3, <1>t DEF TypeOK
  <2>4. conn'[c] \in {"ended", "following"} /\ \A d \in Conns : d # c => conn'[d] = conn[d]
    <3>1. conn' = [conn EXCEPT ![c] = "ended"] \/ conn' = [conn EXCEPT ![c] = "following"]
      BY <1>8 DEF JoinLive
    <3> QED  BY <3>1, <1>t DEF TypeOK
  <2> QED  BY <2>1, <2>2, <2>3, <2>4, <1>t
<1>9. ASSUME NEW c \in Conns, ReplayStored(c) PROVE Positions'
  <2>1. \A d \in Conns : d # c => sid'[d] = sid[d] /\ from'[d] = from[d] /\ times'[d] = times[d]
                                /\ conn'[d] = conn[d]
    BY <1>9, <1>t DEF ReplayStored, Replay, TypeOK
  <2>2. conn'[c] = "replayed" /\ buffer' = buffer
    BY <1>9, <1>t DEF ReplayStored, TypeOK
  <2> QED  BY <2>1, <2>2, <1>t
<1>10. ASSUME NEW c \in Conns, JoinStored(c) \/ StoredReadFails(c) PROVE Positions'
  BY <1>10, <1>t DEF JoinStored, StoredReadFails, Arrives, TypeOK
<1>11. ASSUME NEW c \in Conns, StoredOpen(c) PROVE Positions'
  BY <1>11, <1>t DEF StoredOpen, TypeOK
<1>12. ASSUME NEW c \in Conns, StoredPush(c) PROVE Positions'
  BY <1>12, <1>1 DEF StoredPush, connVars
<1>13. ASSUME NEW c \in Conns, StoredClose(c) PROVE Positions'
  BY <1>13, <1>1 DEF StoredClose
<1>14. ASSUME NEW c \in Conns, Disconnect(c) PROVE Positions'
  BY <1>14, <1>1, <1>t DEF Disconnect, TypeOK
<1> QED  BY <1>2, <1>3, <1>4, <1>5, <1>6, <1>7, <1>8, <1>9, <1>10, <1>11, <1>12, <1>13, <1>14 DEF Next, Join

-----------------------------------------------------------------------------
(* What a connection is due does not change but with its session's buffer. *)
LEMMA DueKept ==
    ASSUME NEW c \in Conns, UNCHANGED ask, from'[c] = from[c], sid'[c] = sid[c],
           buffer'[sid[c]] = buffer[sid[c]], NEW i \in EventIds
    PROVE  Due(c, i)' = Due(c, i)
BY DEF Due, Wanted, Pass

(* ... nor do the events it already had to be sent.                        *)
LEMMA DueStays ==
    ASSUME DeliveryInv, [Next]_vars, NEW c \in Conns, from'[c] = from[c], sid'[c] = sid[c],
           sid[c] \in Sessions, NEW i \in EventIds, Due(c, i)
    PROVE  Due(c, i)'
<1>1. ask' = ask
  BY DEF Next, Join, vars, mapVars, connVars, OpenSse, Finish, TimerFires, Emit, AnswerStored, JoinLive,
         ReplayStored, JoinStored, StoredReadFails, StoredOpen, StoredPush, StoredClose, Disconnect
<1>2. i \in Nat /\ i > from[c] /\ i <= Len(buffer[sid[c]]) /\ from[c] \in Nat /\ i >= 1
  BY DEF Due, EventIds, DeliveryInv, TypeOK
<1>3. /\ Len(buffer[sid[c]]) \in Nat /\ Len(buffer'[sid[c]]) \in Nat
      /\ Len(buffer[sid[c]]) <= Len(buffer'[sid[c]])
      /\ \A k \in 1..Len(buffer[sid[c]]) : buffer'[sid[c]][k] = buffer[sid[c]][k]
  BY BufferGrows
<1>4. buffer'[sid[c]][i] = buffer[sid[c]][i] /\ i <= Len(buffer'[sid[c]])
  BY <1>2, <1>3
<1> QED  BY <1>1, <1>2, <1>4 DEF Due, Wanted, Pass

(* The counts of a connection that follows a live session, or followed one *)
(* to its end, are right.                                                  *)
Told(c) == conn[c] \in {"following", "ended"} /\ sid[c] \in isLive
CountsRight(c) == \A i \in EventIds : times[c][i] = IF Due(c, i) THEN 1 ELSE 0

(* Nothing changes for a connection while its session receives no event.   *)
LEMMA CountsKept ==
    ASSUME ExactlyOnce, NEW c \in Conns, Told(c), UNCHANGED ask,
           from'[c] = from[c], sid'[c] = sid[c], times'[c] = times[c],
           buffer'[sid[c]] = buffer[sid[c]]
    PROVE  CountsRight(c)'
<1>1. \A i \in EventIds : Due(c, i)' = Due(c, i)  BY DueKept
<1> QED  BY <1>1 DEF ExactlyOnce, Told, CountsRight

LEMMA ExactlyOnceStep == DeliveryInv /\ [Next]_vars => ExactlyOnce'
<1> SUFFICES ASSUME DeliveryInv, [Next]_vars, NEW c \in Conns, Told(c)'
             PROVE  CountsRight(c)'
  BY DEF ExactlyOnce, Told, CountsRight
<1>t. /\ TypeOK /\ SubscribersFollow /\ FreshUntouched /\ RolesApart /\ Positions /\ ExactlyOnce
  BY DEF DeliveryInv
<1>s. sid[c] \in isLive => sid[c] \in Sessions
  BY <1>t DEF TypeOK
(* Any step that leaves c's own record and every buffer as they are.       *)
<1>1. ASSUME UNCHANGED <<ask, buffer, isLive>>, from'[c] = from[c], sid'[c] = sid[c], times'[c] = times[c],
             conn[c] \in {"following", "ended"}
      PROVE  CountsRight(c)'
  BY <1>1, <1>t, CountsKept DEF Told
<1>2. CASE UNCHANGED vars
  BY <1>2, <1>1 DEF vars, mapVars, connVars, Told
<1>3. CASE OpenSse
  <2>1. /\ conn' = [conn EXCEPT ![Origin] = "following"] /\ sid' = [sid EXCEPT ![Origin] = made + 1]
        /\ UNCHANGED <<from, times, buffer, ask>> /\ conn[Origin] = "new" /\ made + 1 \in Sessions
        /\ isLive' = isLive \union {made + 1} /\ buffer[made + 1] = <<>> /\ Origin \in Conns
    BY <1>3, <1>t, BoundsAssumption
    DEF OpenSse, CreateSession, RolesApart, FreshUntouched, TypeOK, Sessions, Conns
  <2>2. CASE c = Origin
    <3>1. \A i \in EventIds : times'[c][i] = 0
      BY <2>1, <2>2, <1>t DEF Positions
    <3>2. \A i \in EventIds : ~Due(c, i)'
      <4>1. sid'[c] = made + 1 /\ Len(buffer'[made + 1]) = 0
        BY <2>1, <2>2, <1>t DEF TypeOK
      <4> QED  BY <4>1 DEF Due, EventIds
    <3> QED  BY <3>1, <3>2 DEF CountsRight
  <2>3. CASE c # Origin
    <3>1. conn[c] \in {"following", "ended"} /\ sid'[c] = sid[c] /\ sid[c] # made + 1
      BY <2>1, <2>3, <1>t, BoundsAssumption DEF Told, TypeOK
    <3>2. Told(c)
      BY <2>1, <3>1 DEF Told
    <3> QED  BY <2>1, <3>1, <3>2, <1>t, CountsKept
  <2> QED  BY <2>2, <2>3
<1>4. CASE Finish
  <2>1. conn[c] \in {"following", "ended"}
    <3>1. conn'[c] = conn[c] \/ c \in EndSubscribers
      BY <1>4 DEF Finish
    <3>2. c \in EndSubscribers => conn[c] = "following"
      BY <1>t, BoundsAssumption DEF EndSubscribers, SubscribersFollow, TypeOK, Sessions
    <3> QED  BY <3>1, <3>2 DEF Told
  <2> QED  BY <2>1, <1>4, <1>1 DEF Finish
<1>5. CASE TimerFires
  BY <1>5, <1>1 DEF TimerFires, connVars, Told
<1>6. ASSUME NEW kind \in WriterKinds, Emit(kind) PROVE CountsRight(c)'
  <2>0. UNCHANGED <<isLive, conn, sid, from, ask>> /\ Publish(kind) /\ Told(c)
    BY <1>6 DEF Emit, mapVars, Told
  <2>1. CASE ~CanPublish \/ current # sid[c]
    <3>1. times'[c] = times[c] /\ buffer'[sid[c]] = buffer[sid[c]]
      <4>1. CASE ~CanPublish
        BY <2>0, <4>1 DEF Publish
      <4>2. CASE CanPublish /\ current # sid[c]
        <5>1. current \in Sessions /\ c \notin subs[current]
          BY <4>2, <1>t, BoundsAssumption DEF CanPublish, SubscribersFollow, TypeOK, Sessions
        <5>2. times'[c] = times[c]
          BY <5>1, <4>2, <2>0 DEF Publish
        <5>3. buffer' = [buffer EXCEPT ![current] = Append(buffer[current], kind)]
          BY <4>2, <2>0 DEF Publish
        <5> QED  BY <5>2, <5>3, <4>2, <2>0, <1>s, <1>t DEF Told, TypeOK
      <4> QED  BY <2>1, <4>1, <4>2
    <3> QED  BY <2>0, <3>1, <1>t, CountsKept
  <2>2. CASE CanPublish /\ current = sid[c]
    <3> DEFINE n == Len(buffer[current])
    <3>1. current \in Sessions /\ c \in subs[current] /\ conn[c] = "following"
      BY <2>2, <2>0, <1>t, <1>s DEF CanPublish, SubscribersFollow, RolesApart, Told
    <3>2. /\ buffer' = [buffer EXCEPT ![current] = Append(buffer[current], kind)]
          /\ n < MaxEvents /\ n \in Nat /\ from[c] \in Nat /\ from[c] <= n
          /\ times'[c] = IF Wanted(c, kind) THEN [times[c] EXCEPT ![n + 1] = @ + 1] ELSE times[c]
      BY <2>0, <2>2, <3>1, <1>t DEF Publish, TypeOK, Positions
    <3>3. /\ buffer'[current] = Append(buffer[current], kind) /\ Len(buffer'[current]) = n + 1
          /\ buffer'[current][n + 1] = kind
          /\ \A i \in 1..n : buffer'[current][i] = buffer[current][i]
      BY <3>1, <3>2, <1>t DEF TypeOK
    <3>4. \A i \in EventIds : times[c][i] = IF Due(c, i) THEN 1 ELSE 0
      BY <2>0, <1>t DEF ExactlyOnce, Told
    <3>5. ASSUME NEW i \in EventIds PROVE times'[c][i] = IF Due(c, i)' THEN 1 ELSE 0
      <4>1. CASE i = n + 1
        <5>1. ~Due(c, i)
          BY <4>1, <3>2, <2>2 DEF Due
        <5>2. times[c][i] = 0 /\ times[c] \in [EventIds -> Nat]
          BY <5>1, <3>4, <1>t DEF TypeOK
        <5>3. Due(c, i)' <=> Wanted(c, kind)
          BY <4>1, <2>0, <2>2, <3>2, <3>3 DEF Due, Wanted, Pass
        <5> QED  BY <4>1, <5>2, <5>3, <3>2
      <4>2. CASE i # n + 1
        <5>1. times'[c][i] = times[c][i]
          BY <4>2, <3>2, <1>t DEF TypeOK
        <5>2. i \in Nat /\ i >= 1  BY DEF EventIds
        <5>3. CASE i <= n
          <6>1. i \in 1..n  BY <5>2, <5>3, <3>2
          <6>2. Due(c, i)' <=> Due(c, i)
            BY <6>1, <5>3, <2>0, <2>2, <3>2, <3>3 DEF Due, Wanted, Pass
          <6> QED  BY <6>2, <5>1, <3>4
        <5>4. CASE ~(i <= n)
          <6>1. ~Due(c, i) /\ ~Due(c, i)'
            BY <5>4, <5>2, <4>2, <2>0, <2>2, <3>2, <3>3 DEF Due
          <6> QED  BY <6>1, <5>1, <3>4
        <5> QED  BY <5>3, <5>4
      <4> QED  BY <4>1, <4>2
    <3> QED  BY <3>5 DEF CountsRight
  <2> QED  BY <2>1, <2>2
<1>7. ASSUME NEW d \in Conns, AnswerStored(d) PROVE CountsRight(c)'
  <2>1. c # d
    BY <1>7, <1>t DEF AnswerStored, Arrives, Positions, Told, mapVars, TypeOK, Sessions
  <2> QED  BY <2>1, <1>7, <1>1, <1>t DEF AnswerStored, mapVars, Told, TypeOK
<1>8. ASSUME NEW d \in Conns, JoinLive(d) PROVE CountsRight(c)'
  <2>1. CASE c = d
    <3>1. /\ sid'[c] = current /\ from'[c] = StartAt(c) /\ buffer' = buffer /\ ask' = ask
          /\ times'[c] = [i \in EventIds |->
                            IF Replayed(c, i) /\ Wanted(c, buffer[current][i]) THEN 1 ELSE 0]
      BY <1>8, <2>1, <1>t DEF JoinLive, Replay, TypeOK
    <3>2. \A i \in EventIds : Due(c, i)' <=> Replayed(c, i) /\ Wanted(c, buffer[current][i])
      BY <3>1 DEF Due, Replayed, Wanted, Pass
    <3> QED  BY <3>1, <3>2 DEF CountsRight
  <2>2. CASE c # d
    <3>1. conn'[c] = conn[c] /\ UNCHANGED <<ask, buffer, isLive>>
          /\ from'[c] = from[c] /\ sid'[c] = sid[c] /\ times'[c] = times[c]
      BY <1>8, <2>2, <1>t DEF JoinLive, Replay, mapVars, TypeOK
    <3> QED  BY <3>1, <1>1 DEF Told
  <2> QED  BY <2>1, <2>2
<1>9. ASSUME NEW d \in Conns, ReplayStored(d) PROVE CountsRight(c)'
  <2>1. conn'[d] = "replayed"
    BY <1>9, <1>t DEF ReplayStored, TypeOK
  <2>2. c # d  BY <2>1 DEF Told
  <2>3. conn'[c] = conn[c] /\ UNCHANGED <<ask, buffer, isLive>>
        /\ from'[c] = from[c] /\ sid'[c] = sid[c] /\ times'[c] = times[c]
    BY <1>9, <2>2, <1>t DEF ReplayStored, Replay, mapVars, TypeOK
  <2> QED  BY <2>3, <1>1 DEF Told
<1>10. ASSUME NEW d \in Conns, JoinStored(d) PROVE CountsRight(c)'
  BY <1>10, <1>1, <1>t DEF JoinStored, mapVars, Told, TypeOK
<1>15. ASSUME NEW d \in Conns, StoredReadFails(d) PROVE CountsRight(c)'
  <2>1. sid[d] \notin isLive /\ sid' = sid /\ isLive' = isLive
    BY <1>15, <1>t DEF StoredReadFails, Positions, mapVars, TypeOK, Sessions
  <2>2. c # d /\ conn'[c] = conn[c]
    BY <1>15, <2>1, <1>t DEF StoredReadFails, Told, TypeOK
  <2> QED  BY <1>15, <2>1, <2>2, <1>1 DEF StoredReadFails, Told
<1>11. ASSUME NEW d \in Conns, StoredOpen(d) PROVE CountsRight(c)'
  <2>1. c # d /\ conn'[c] = conn[c] /\ sid'[c] = sid[c]
    BY <1>11, <1>t DEF StoredOpen, Told, TypeOK
  <2> QED  BY <2>1, <1>11, <1>1 DEF StoredOpen, Told
<1>12. ASSUME NEW d \in Conns, StoredPush(d) PROVE CountsRight(c)'
  <2>1. UNCHANGED <<ask, isLive, conn, sid, from, times>>
    BY <1>12 DEF StoredPush, mapVars, connVars
  <2>2. Told(c) /\ sid[c] # sid[d]
    BY <1>12, <2>1, <1>t DEF StoredPush, RolesApart, Told
  <2>3. buffer'[sid[c]] = buffer[sid[c]]
    BY <1>12, <2>2, <1>s, <1>t DEF StoredPush, Told, TypeOK
  <2> QED  BY <2>1, <2>2, <2>3, <1>t, CountsKept
<1>13. ASSUME NEW d \in Conns, StoredClose(d) PROVE CountsRight(c)'
  <2>1. UNCHANGED <<ask, buffer, isLive, sid, from, times>>
    BY <1>13 DEF StoredClose
  <2>2. conn[c] \in {"following", "ended"}
    <3>1. c # d
      BY <1>13, <2>1, <1>t DEF StoredClose, RolesApart, Told
    <3>2. c \in EndSubscribers => conn[c] = "following"
      BY <1>t, BoundsAssumption DEF EndSubscribers, SubscribersFollow, TypeOK, Sessions
    <3> QED  BY <3>1, <3>2, <1>13 DEF StoredClose, Told
  <2> QED  BY <2>1, <2>2, <1>1
<1>14. ASSUME NEW d \in Conns, Disconnect(d) PROVE CountsRight(c)'
  BY <1>14, <1>1, <1>t DEF Disconnect, mapVars, Told, TypeOK
<1> QED  BY <1>2, <1>3, <1>4, <1>5, <1>6, <1>7, <1>8, <1>9, <1>10, <1>11, <1>12, <1>13, <1>14, <1>15 DEF Next, Join

(* A client that leaves takes its counts with it.                          *)
LEMMA GoneFrozen ==
    ASSUME DeliveryInv, [Next]_vars, NEW c \in Conns, conn'[c] = "gone"
    PROVE  /\ conn[c] \in {"following", "gone"}
           /\ from'[c] = from[c] /\ sid'[c] = sid[c] /\ times'[c] = times[c]
<1> DEFINE Frozen == /\ conn[c] \in {"following", "gone"}
                     /\ from'[c] = from[c] /\ sid'[c] = sid[c] /\ times'[c] = times[c]
<1>t. TypeOK /\ SubscribersFollow  BY DEF DeliveryInv
<1>1. CASE UNCHANGED vars
  BY <1>1 DEF vars, connVars
<1>2. CASE OpenSse
  BY <1>2, <1>t DEF OpenSse, TypeOK
<1>3. CASE Finish
  <2>1. conn'[c] = conn[c]
    BY <1>3 DEF Finish
  <2> QED  BY <2>1, <1>3 DEF Finish
<1>4. CASE TimerFires
  BY <1>4 DEF TimerFires, connVars
<1>5. ASSUME NEW kind \in WriterKinds, Emit(kind) PROVE Frozen
  <2>1. conn[c] = "gone" /\ UNCHANGED <<from, sid>> /\ Publish(kind)
    BY <1>5 DEF Emit
  <2>2. CASE ~CanPublish
    BY <2>1, <2>2 DEF Publish
  <2>3. CASE CanPublish
    <3>1. c \notin subs[current]
      BY <2>1, <2>3, <1>t, BoundsAssumption DEF CanPublish, SubscribersFollow, TypeOK, Sessions
    <3> QED  BY <2>1, <2>3, <3>1 DEF Publish
  <2> QED  BY <2>2, <2>3
<1>6. ASSUME NEW d \in Conns,
             AnswerStored(d) \/ JoinLive(d) \/ ReplayStored(d) \/ JoinStored(d) \/ StoredReadFails(d)
             \/ StoredOpen(d) \/ StoredPush(d)
      PROVE  Frozen
  <2>1. CASE AnswerStored(d) \/ JoinStored(d) \/ StoredReadFails(d) \/ StoredOpen(d) \/ StoredPush(d)
    BY <2>1, <1>t DEF AnswerStored, JoinStored, StoredReadFails, StoredOpen, StoredPush, connVars, TypeOK
  <2>2. CASE JoinLive(d)
    <3>1. \/ conn' = [conn EXCEPT ![d] = "ended"]
          \/ conn' = [conn EXCEPT ![d] = "following"]
      BY <2>2 DEF JoinLive
    <3>2. c # d /\ conn[c] = "gone"
      BY <3>1, <1>t DEF TypeOK
    <3> QED  BY <2>2, <3>2, <1>t DEF JoinLive, Replay, TypeOK
  <2>3. CASE ReplayStored(d)
    BY <2>3, <1>t DEF ReplayStored, Replay, TypeOK
  <2> QED  BY <1>6, <2>1, <2>2, <2>3
<1>7. ASSUME NEW d \in Conns, StoredClose(d) PROVE Frozen
  BY <1>7 DEF StoredClose
<1>8. ASSUME NEW d \in Conns, Disconnect(d) PROVE Frozen
  BY <1>8, <1>t DEF Disconnect, TypeOK
<1> QED  BY <1>1, <1>2, <1>3, <1>4, <1>5, <1>6, <1>7, <1>8 DEF Next, Join

LEMMA AtMostOnceStep == DeliveryInv /\ [Next]_vars => AtMostOnce'
<1> SUFFICES ASSUME DeliveryInv, [Next]_vars,
                    NEW c \in Conns, conn'[c] = "gone", NEW i \in EventIds
             PROVE  times'[c][i] = 0 \/ (times'[c][i] = 1 /\ Due(c, i)')
  BY DEF AtMostOnce
<1>1. /\ conn[c] \in {"following", "gone"}
      /\ from'[c] = from[c] /\ sid'[c] = sid[c] /\ times'[c] = times[c]
  BY GoneFrozen
<1>2. sid[c] \in Sessions /\ sid[c] \in isLive
  BY <1>1 DEF DeliveryInv, RolesApart, TypeOK
<1>3. times[c][i] = 0 \/ (times[c][i] = 1 /\ Due(c, i))
  BY <1>1, <1>2 DEF DeliveryInv, ExactlyOnce, AtMostOnce
<1> QED  BY <1>1, <1>2, <1>3, DueStays

LEMMA DeliveryStep == DeliveryInv /\ [Next]_vars => DeliveryInv'
BY TypeStep, SubscribersStep, FreshStep, RolesStep, PositionsStep, ExactlyOnceStep, AtMostOnceStep
   DEF DeliveryInv

LEMMA DeliveryInvariant == Spec => []DeliveryInv
BY DeliveryInit, DeliveryStep, PTL DEF Spec

(* Replay and live delivery together write every event a connection asked  *)
(* for to it once, whatever joins, publishes, disconnects and closes come  *)
(* between them (joinLive, publish, closeSession).                         *)
THEOREM ExactlyOnceCorrect == Spec => []ExactlyOnce
<1>1. DeliveryInv => ExactlyOnce  BY DEF DeliveryInv
<1> QED  BY <1>1, DeliveryInvariant, PTL

(* No client that left was written an event twice, or one it had not asked *)
(* for.                                                                    *)
THEOREM AtMostOnceCorrect == Spec => []AtMostOnce
<1>1. DeliveryInv => AtMostOnce  BY DEF DeliveryInv
<1> QED  BY <1>1, DeliveryInvariant, PTL

(* Both: what is written to a connection is written once.                  *)
THEOREM DeliveredOnceCorrect == Spec => []DeliveredOnce
<1>1. ExactlyOnce /\ AtMostOnce => DeliveredOnce  BY DEF DeliveredOnce
<1> QED  BY <1>1, ExactlyOnceCorrect, AtMostOnceCorrect, PTL

-----------------------------------------------------------------------------
(***************************************************************************)
(* Followers are kept, events are kept: when no thread join comes before   *)
(* the stream has opened.                                                  *)
(***************************************************************************)
NoEarlyThreadJoin == ~EarlyJoin \/ ~OnThread

LEMMA UndisturbedInit == Init => WriterUndisturbed
BY DEF Init, WriterUndisturbed

LEMMA UndisturbedStep ==
    ASSUME NoEarlyThreadJoin, DeliveryInv, WriterUndisturbed, [Next]_vars
    PROVE  WriterUndisturbed'
<1>t. TypeOK /\ FreshUntouched /\ RolesApart /\ WriterUndisturbed  BY DEF DeliveryInv
<1> USE DEF WriterUndisturbed
<1>1. CASE UNCHANGED vars
  BY <1>1, <1>t DEF vars, mapVars, connVars
<1>2. CASE OpenSse
  <2>1. /\ writer = "idle" /\ writer' = "open" /\ mine' = made + 1 /\ current' = made + 1
        /\ isLive' = isLive \union {made + 1} /\ closed' = closed /\ timers' = timers
        /\ conn' = [conn EXCEPT ![Origin] = "following"]
    BY <1>2 DEF OpenSse, CreateSession
  <2>2. made + 1 \notin closed /\ made + 1 # 0
    BY <1>2, <1>t, BoundsAssumption DEF OpenSse, CreateSession, FreshUntouched, TypeOK, Sessions
  <2>3. isLive = {}
    BY <2>1, <1>t DEF TypeOK, Sessions
  <2> QED  BY <2>1, <2>2, <2>3, <1>t DEF TypeOK
<1>3. CASE Finish
  <2>1. /\ writer = "open" /\ writer' = "done" /\ mine = current /\ mine # 0
        /\ mine' = mine /\ current' = current /\ isLive' = isLive
    BY <1>3, <1>t DEF Finish
  <2>2. mine \in closed'
    <3>1. CASE mine \in closed  BY <1>3, <3>1 DEF Finish
    <3>2. CASE mine \notin closed  BY <1>3, <2>1, <3>2 DEF Finish, CloseSession
    <3> QED  BY <3>1, <3>2
  <2> QED  BY <1>3, <1>t, <2>1, <2>2 DEF Finish
<1>4. CASE TimerFires
  BY <1>4, <1>t DEF TimerFires, connVars, TypeOK
<1>5. ASSUME NEW kind \in WriterKinds, Emit(kind) PROVE WriterUndisturbed'
  BY <1>5, <1>t DEF Emit, mapVars
<1>6. ASSUME NEW c \in Conns, AnswerStored(c) \/ ReplayStored(c) PROVE WriterUndisturbed'
  BY <1>6, <1>t DEF AnswerStored, ReplayStored, mapVars, TypeOK
<1>7. ASSUME NEW c \in Conns, JoinLive(c) PROVE WriterUndisturbed'
  <2>1. conn' = [conn EXCEPT ![c] = "ended"] \/ conn' = [conn EXCEPT ![c] = "following"]
    BY <1>7 DEF JoinLive
  <2> QED  BY <2>1, <1>7, <1>t DEF JoinLive, mapVars, TypeOK
<1>8. ASSUME NEW c \in Conns, JoinStored(c) PROVE WriterUndisturbed'
  <2>1. writer = "done"
    BY <1>8, <1>t DEF JoinStored, Arrives, ToLive, SessionIsLive, NoEarlyThreadJoin, TypeOK
  <2> QED  BY <2>1, <1>8, <1>t DEF JoinStored, mapVars
<1>9. ASSUME NEW c \in Conns, StoredReadFails(c) \/ StoredOpen(c) \/ StoredPush(c) \/ StoredClose(c)
      PROVE  WriterUndisturbed'
  <2>1. writer = "done"
    BY <1>9, <1>t DEF StoredReadFails, StoredOpen, StoredPush, StoredClose, TypeOK
  <2>2. writer' = writer /\ mine' = mine /\ isLive' = isLive
    BY <1>9 DEF StoredReadFails, StoredOpen, StoredPush, StoredClose, mapVars, connVars
  <2>3. closed \subseteq closed'
    <3>1. CASE StoredClose(c)
      BY <3>1 DEF StoredClose, CloseSession
    <3>2. CASE StoredReadFails(c) \/ StoredOpen(c) \/ StoredPush(c)
      BY <3>2 DEF StoredReadFails, StoredOpen, StoredPush, mapVars
    <3> QED  BY <1>9, <3>1, <3>2
  <2> QED  BY <2>1, <2>2, <2>3, <1>t
<1>10. ASSUME NEW c \in Conns, Disconnect(c) PROVE WriterUndisturbed'
  BY <1>10, <1>t DEF Disconnect, mapVars, TypeOK
<1> QED  BY <1>1, <1>2, <1>3, <1>4, <1>5, <1>6, <1>7, <1>8, <1>9, <1>10 DEF Next, Join

(* Undisturbed, the writer finds its own session each time it emits.       *)
LEMMA DroppedStep ==
    ASSUME DeliveryInv, WriterUndisturbed, NothingDropped, [Next]_vars
    PROVE  NothingDropped'
<1>t. TypeOK /\ FreshUntouched /\ RolesApart /\ WriterUndisturbed /\ NothingDropped  BY DEF DeliveryInv
<1>m. mine # 0 => mine \in Sessions /\ mine \in isLive
  BY <1>t DEF WriterUndisturbed, TypeOK
<1> USE DEF NothingDropped
<1>1. CASE UNCHANGED vars
  BY <1>1, <1>t DEF vars
<1>2. CASE OpenSse
  <2>1. mine' = made + 1 /\ buffer' = buffer /\ emitted' = 0 /\ made + 1 \in Sessions
        /\ buffer[made + 1] = <<>>
    BY <1>2, <1>t, BoundsAssumption
    DEF OpenSse, CreateSession, WriterUndisturbed, FreshUntouched, TypeOK, Sessions
  <2> QED  BY <2>1
<1>3. CASE Finish \/ TimerFires
  BY <1>3, <1>t DEF Finish, TimerFires
<1>4. ASSUME NEW kind \in WriterKinds, Emit(kind) PROVE NothingDropped'
  <2>1. current = mine /\ CanPublish /\ mine \in Sessions
    BY <1>4, <1>t, <1>m DEF Emit, WriterUndisturbed, CanPublish
  <2>2. buffer' = [buffer EXCEPT ![mine] = Append(buffer[mine], kind)] /\ emitted' = emitted + 1
        /\ mine' = mine
    BY <1>4, <2>1 DEF Emit, Publish
  <2>3. Len(buffer'[mine]) = Len(buffer[mine]) + 1
    BY <2>1, <2>2, <1>t DEF TypeOK
  <2> QED  BY <2>1, <2>2, <2>3, <1>t
<1>5. ASSUME NEW c \in Conns, StoredPush(c) PROVE NothingDropped'
  <2>1. sid[c] \notin isLive /\ UNCHANGED <<mine, emitted>>
    BY <1>5, <1>t DEF StoredPush, RolesApart
  <2>2. mine # 0 => buffer'[mine] = buffer[mine]
    BY <1>5, <2>1, <1>m, <1>t DEF StoredPush, TypeOK
  <2> QED  BY <2>1, <2>2, <1>t
<1>6. ASSUME NEW c \in Conns,
             AnswerStored(c) \/ JoinLive(c) \/ ReplayStored(c) \/ JoinStored(c) \/ StoredReadFails(c)
             \/ StoredOpen(c) \/ StoredClose(c) \/ Disconnect(c)
      PROVE  NothingDropped'
  BY <1>6, <1>t
  DEF AnswerStored, JoinLive, ReplayStored, JoinStored, StoredReadFails, StoredOpen, StoredClose, Disconnect
<1> QED  BY <1>1, <1>2, <1>3, <1>4, <1>5, <1>6 DEF Next, Join

LEMMA KeepInvariant ==
    ASSUME NoEarlyThreadJoin
    PROVE  Spec => []KeepInv
<1>1. Init => KeepInv
  BY DeliveryInit, UndisturbedInit DEF KeepInv, Init, NothingDropped
<1>2. KeepInv /\ [Next]_vars => KeepInv'
  BY DeliveryStep, UndisturbedStep, DroppedStep DEF KeepInv
<1> QED  BY <1>1, <1>2, PTL DEF Spec

(* For a stateless run, or when no join precedes the stream, a connection  *)
(* that follows the run is ended only once the run has finished (openSse,  *)
(* joinLive, closeSession, the clean-up timer).                            *)
THEOREM FollowedToTheEndCorrect ==
    ASSUME NoEarlyThreadJoin
    PROVE  Spec => []FollowedToTheEnd
<1>1. KeepInv => FollowedToTheEnd
  BY DEF KeepInv, DeliveryInv, TypeOK, RolesApart, WriterUndisturbed, FollowedToTheEnd, Sessions
<1> QED  BY <1>1, KeepInvariant, PTL

(* Under the same condition every event the writer emits is kept for a     *)
(* rejoin (emit, publish).                                                 *)
THEOREM NothingDroppedCorrect ==
    ASSUME NoEarlyThreadJoin
    PROVE  Spec => []NothingDropped
<1>1. KeepInv => NothingDropped  BY DEF KeepInv
<1> QED  BY <1>1, KeepInvariant, PTL

(* Under the same condition a running stream loses neither followers nor   *)
(* events.                                                                 *)
THEOREM StreamKeptCorrect ==
    ASSUME NoEarlyThreadJoin
    PROVE  Spec => []StreamKept
<1>1. FollowedToTheEnd /\ NothingDropped => StreamKept  BY DEF StreamKept
<1>2. Spec => []FollowedToTheEnd  BY FollowedToTheEndCorrect
<1>3. Spec => []NothingDropped    BY NothingDroppedCorrect
<1> QED  BY <1>1, <1>2, <1>3, PTL

(* A follower has left only where Disconnect took it away.                 *)
LEMMA LeavesByDisconnect ==
    ASSUME TypeOK, Next, NEW c \in Conns, Leaves(c)
    PROVE  Disconnect(c)
<1>1. conn[c] = "following" /\ conn'[c] = "gone"  BY DEF Leaves
<1>2. ~OpenSse /\ ~Finish /\ ~TimerFires /\ \A kind \in WriterKinds : ~Emit(kind)
  BY <1>1 DEF OpenSse, Finish, TimerFires, Emit, connVars, TypeOK
<1>3. ASSUME NEW d \in Conns, Join(d) PROVE FALSE
  <2>1. ~JoinLive(d)
    <3>1. JoinLive(d) => \/ conn' = [conn EXCEPT ![d] = "ended"]
                         \/ conn' = [conn EXCEPT ![d] = "following"]
      BY DEF JoinLive
    <3> QED  BY <1>1, <3>1 DEF TypeOK
  <2>2. ~AnswerStored(d) /\ ~ReplayStored(d) /\ ~JoinStored(d) /\ ~StoredReadFails(d)
    BY <1>1 DEF AnswerStored, ReplayStored, JoinStored, StoredReadFails, TypeOK
  <2>3. ~StoredOpen(d) /\ ~StoredPush(d) /\ ~StoredClose(d)
    BY <1>1 DEF StoredOpen, StoredPush, StoredClose, TypeOK
  <2> QED  BY <1>3, <2>1, <2>2, <2>3 DEF Join
<1>4. PICK d \in Conns : Disconnect(d)  BY <1>2, <1>3 DEF Next
<1>5. d = c  BY <1>1, <1>4 DEF Disconnect, TypeOK
<1> QED  BY <1>4, <1>5

(* The run is cancelled by its stream only in Disconnect.                  *)
LEMMA CancelsByDisconnect ==
    ASSUME Next, ~cancelled, cancelled'
    PROVE  \E c \in Conns : Disconnect(c) /\ CancelsLeaving(c)
BY DEF Next, Join, mapVars, connVars, OpenSse, Finish, TimerFires, Emit, AnswerStored, JoinLive,
       ReplayStored, JoinStored, StoredReadFails, StoredOpen, StoredPush, StoredClose, Disconnect

(* The session is open as long as the run goes on.                         *)
LEMMA FollowedWhileOpen ==
    ASSUME KeepInv, NEW c \in Conns, sid[c] \in isLive
    PROVE  writer = "open" <=> sid[c] \notin closed
<1>1. sid[c] = mine /\ mine # 0 /\ writer \in {"idle", "open", "done"}
  BY DEF KeepInv, WriterUndisturbed, DeliveryInv, TypeOK, Sessions
<1> QED  BY <1>1 DEF KeepInv, WriterUndisturbed

(* Under the same condition a client that leaves cancels the run if, and   *)
(* only if, it joined with cancel_on_disconnect and the run goes on        *)
(* (joinLive, closeSession).                                               *)
THEOREM LeavingCancelsCorrect ==
    ASSUME NoEarlyThreadJoin
    PROVE  Spec => LeavingCancels
<1> DEFINE Asked == \E c \in Joiners : Leaves(c) /\ ask[c].cancelOnDisconnect
<1>1. ASSUME KeepInv, Next, ~cancelled, cancelled' PROVE writer = "open" /\ Asked
  <2>1. PICK c \in Conns : Disconnect(c) /\ CancelsLeaving(c)  BY <1>1, CancelsByDisconnect
  <2>2. TypeOK  BY <1>1 DEF KeepInv, DeliveryInv
  <2>3. writer = "open"  BY <1>1, <2>1, FollowedWhileOpen DEF CancelsLeaving
  <2>4. Leaves(c) /\ ask[c].cancelOnDisconnect
    BY <2>1, <2>2 DEF Leaves, Disconnect, CancelsLeaving, TypeOK
  <2>5. c \in Joiners  BY <2>2, <2>4 DEF TypeOK, OriginAsk, Conns
  <2> QED  BY <2>3, <2>4, <2>5
<1>2. ASSUME KeepInv, Next, writer = "open", Asked PROVE cancelled'
  <2>1. PICK c \in Joiners : Leaves(c) /\ ask[c].cancelOnDisconnect  BY <1>2
  <2>2. c \in Conns /\ TypeOK /\ RolesApart  BY <1>2 DEF Conns, KeepInv, DeliveryInv
  <2>3. Disconnect(c)  BY <1>2, <2>1, <2>2, LeavesByDisconnect
  <2>4. sid[c] \in isLive  BY <2>1, <2>2 DEF RolesApart, Leaves
  <2>5. CancelsLeaving(c)  BY <1>2, <2>1, <2>2, <2>4, FollowedWhileOpen DEF CancelsLeaving
  <2> QED  BY <2>3, <2>5 DEF Disconnect
<1>3. KeepInv /\ [Next]_vars =>
        [~cancelled =>
           (cancelled' <=> /\ writer = "open"
                           /\ \E c \in Joiners : Leaves(c) /\ ask[c].cancelOnDisconnect)]_vars
  <2>1. ASSUME KeepInv, Next, ~cancelled PROVE cancelled' <=> writer = "open" /\ Asked
    <3>1. cancelled' \in BOOLEAN  BY <2>1, DeliveryStep DEF KeepInv, DeliveryInv, TypeOK
    <3> QED  BY <1>1, <1>2, <2>1, <3>1
  <2> QED  BY <2>1
<1>4. Spec => []KeepInv  BY KeepInvariant
<1> QED  BY <1>3, <1>4, PTL DEF Spec, LeavingCancels
=============================================================================
