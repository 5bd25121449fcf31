-------------------------- MODULE RunLifecycleProofs --------------------------
(***************************************************************************)
(* Proofs about RunLifecycle, for any number of runs, threads, cancels and *)
(* edits: its type invariant, that no thread is left busy, and that a run  *)
(* reported as `success` has saved its turn.                               *)
(***************************************************************************)
EXTENDS RunLifecycle, TLAPS

-----------------------------------------------------------------------------
(***************************************************************************)
(* Type correctness.                                                       *)
(***************************************************************************)

(* Every step a run can go to is one of RunSteps.                          *)
LEMMA NextSteps ==
    ASSUME TypeOK, NEW r \in RunIds
    PROVE  /\ AfterStart(r) \in RunSteps /\ AfterEnsure(r) \in RunSteps /\ AfterCreate(r) \in RunSteps
           /\ AfterRunning(r) \in RunSteps /\ AfterAgent(r) \in RunSteps
           /\ AfterValues(r) \in RunSteps /\ AfterIdle(r) \in RunSteps /\ AfterSuccess(r) \in RunSteps
           /\ ThrowEarly(r) \in RunSteps /\ ThrowStep(r) \in RunSteps /\ ThrowSaved(r) \in RunSteps
           /\ AfterErrorIdle(r) \in RunSteps /\ AfterErrorRun(r) \in RunSteps
           /\ AfterErrorThrow(r) \in RunSteps /\ Abandon(r) \in RunSteps
<1>1. Kind(r) \in {"background", "wait", "stream"}
  BY KindsAssumption DEF TypeOK, Requests, Kind, AllKinds
<1>2. AfterValues(r) \in RunSteps  BY <1>1 DEF AfterValues, RunSteps
<1>3. AfterIdle(r) \in RunSteps  BY <1>1 DEF AfterIdle, RunSteps
<1>4. AfterSuccess(r) \in RunSteps  BY <1>1 DEF AfterSuccess, RunSteps
<1>5. ThrowSaved(r) \in RunSteps  BY DEF ThrowSaved, RunSteps
<1>6. /\ AfterErrorRun(r) \in RunSteps /\ AfterErrorThrow(r) \in RunSteps
      /\ AfterErrorIdle(r) \in RunSteps /\ Abandon(r) \in RunSteps
  BY DEF AfterErrorRun, AfterErrorThrow, AfterErrorIdle, Abandon, RunSteps
<1>7. /\ AfterStart(r) \in RunSteps /\ AfterEnsure(r) \in RunSteps /\ AfterCreate(r) \in RunSteps
      /\ AfterRunning(r) \in RunSteps /\ AfterAgent(r) \in RunSteps
      /\ ThrowEarly(r) \in RunSteps /\ ThrowStep(r) \in RunSteps
  BY DEF AfterStart, AfterEnsure, AfterCreate, AfterRunning, AfterAgent, ThrowEarly, ThrowStep, RunSteps
<1> QED  BY <1>2, <1>3, <1>4, <1>5, <1>6, <1>7

(* Moving a run keeps the run variables well formed.                       *)
LEMMA MoveType ==
    ASSUME TypeOK, NEW r \in RunIds, NEW step \in RunSteps, Move(r, step)
    PROVE  /\ pc' \in [RunIds -> RunSteps] /\ base' \in [RunIds -> Seq(Turns)]
           /\ live' \subseteq RunIds /\ aborted' \subseteq RunIds /\ retrying' \subseteq RunIds
BY DEF Move, Goto, TypeOK

LEMMA FailSavedType ==
    ASSUME TypeOK, NEW r \in RunIds, FailSaved(r)
    PROVE  /\ pc' \in [RunIds -> RunSteps] /\ base' \in [RunIds -> Seq(Turns)]
           /\ live' \subseteq RunIds /\ aborted' \subseteq RunIds /\ retrying' \subseteq RunIds
<1>1. ThrowSaved(r) \in RunSteps  BY NextSteps
<1> QED  BY <1>1 DEF FailSaved, Goto, TypeOK

(* Each storage call keeps its record well formed.                         *)
LEMMA StoreTypes ==
    ASSUME TypeOK
    PROVE  /\ \A r \in RunIds, s \in RunStatuses :
                 UpdateRun(r, s) => runStatus' \in [RunIds -> RunStatuses]
           /\ \A t : \A s \in ThreadStatuses :
                 UpdateThread(t, s) => threadStatus' \in [ThreadIds -> ThreadStatuses]
           /\ \A t : \A m \in Seq(Turns) :
                 SetThreadValues(t, m) => threadValues' \in [ThreadIds -> Seq(Turns)]
           /\ \A t : \A m \in Seq(Turns) :
                 AddState(t, m) => history' \in [ThreadIds -> Seq(Seq(Turns))]
           /\ \A store : Throws(store) => faults' \in Nat
<1>1. ASSUME NEW r \in RunIds, NEW s \in RunStatuses, UpdateRun(r, s)
      PROVE  runStatus' \in [RunIds -> RunStatuses]
  BY <1>1 DEF UpdateRun, TypeOK
<1>2. ASSUME NEW t, NEW s \in ThreadStatuses, UpdateThread(t, s)
      PROVE  threadStatus' \in [ThreadIds -> ThreadStatuses]
  <2>1. CASE t \in ThreadIds  BY <1>2, <2>1 DEF UpdateThread, TypeOK
  <2>2. CASE t \notin ThreadIds  BY <1>2, <2>2 DEF UpdateThread, TypeOK
  <2> QED  BY <2>1, <2>2
<1>3. ASSUME NEW t, NEW m \in Seq(Turns), SetThreadValues(t, m)
      PROVE  threadValues' \in [ThreadIds -> Seq(Turns)]
  <2>1. CASE t \in ThreadIds  BY <1>3, <2>1 DEF SetThreadValues, TypeOK
  <2>2. CASE t \notin ThreadIds  BY <1>3, <2>2 DEF SetThreadValues, TypeOK
  <2> QED  BY <2>1, <2>2
<1>4. ASSUME NEW t, NEW m \in Seq(Turns), AddState(t, m)
      PROVE  history' \in [ThreadIds -> Seq(Seq(Turns))]
  <2>1. CASE t \in ThreadIds
    <3>1. Append(history[t], m) \in Seq(Seq(Turns))  BY <2>1 DEF TypeOK
    <3> QED  BY <1>4, <2>1, <3>1 DEF AddState, TypeOK
  <2>2. CASE t \notin ThreadIds  BY <1>4, <2>2 DEF AddState, TypeOK
  <2> QED  BY <2>1, <2>2
<1>5. ASSUME NEW store, Throws(store) PROVE faults' \in Nat
  BY <1>5 DEF Throws, TypeOK
<1> QED  BY <1>1, <1>2, <1>3, <1>4, <1>5

(* What a run or an edit saves is a conversation.                          *)
LEMMA SavedTypes ==
    ASSUME TypeOK
    PROVE  /\ \A r \in RunIds : Append(base[r], r) \in Seq(Turns)
           /\ \A e \in Editors : Append(edit[e].base, e) \in Seq(Turns)
<1>1. \A r \in RunIds : base[r] \in Seq(Turns) /\ r \in Turns  BY DEF TypeOK, Turns
<1>2. \A e \in Editors : edit[e].base \in Seq(Turns) /\ e \in Turns  BY DEF TypeOK, Turns
<1> QED  BY <1>1, <1>2

LEMMA LatestType ==
    ASSUME TypeOK, NEW t \in ThreadIds
    PROVE  Latest(t) \in Seq(Turns)
<1>1. history[t] \in Seq(Seq(Turns))  BY DEF TypeOK
<1>2. CASE history[t] = <<>>  BY <1>2 DEF Latest
<1>3. CASE history[t] # <<>>
  <2>1. Len(history[t]) \in 1..Len(history[t])  BY <1>1, <1>3
  <2> QED  BY <1>1, <1>3, <2>1 DEF Latest
<1> QED  BY <1>2, <1>3

(* The calls on a thread are made by runs that have one.                   *)
ThreadSteps == {"ensure", "createThread", "busy", "read", "addState", "values", "reread", "idle",
                "finalRead", "errorIdle"}
StatefulSteps == \A r \in RunIds : pc[r] \in ThreadSteps => Stateful(r)

StepInv == TypeOK /\ StatefulSteps

LEMMA StepInit == Init => StepInv
<1> SUFFICES ASSUME Init PROVE StepInv  OBVIOUS
<1>1. <<>> \in Seq(Turns) /\ <<>> \in Seq(Seq(Turns))  OBVIOUS
<1>2. /\ pc \in [RunIds -> RunSteps] /\ base \in [RunIds -> Seq(Turns)]
      /\ live \subseteq RunIds /\ aborted \subseteq RunIds /\ retrying \subseteq RunIds
  BY <1>1 DEF Init, RunSteps
<1>3. /\ runStatus \in [RunIds -> RunStatuses] /\ threadStatus \in [ThreadIds -> ThreadStatuses]
      /\ threadValues \in [ThreadIds -> Seq(Turns)] /\ history \in [ThreadIds -> Seq(Seq(Turns))]
  BY <1>1 DEF Init, RunStatuses, ThreadStatuses
<1>4. cancel \in [Cancellers -> [step : CancelSteps, run : RunIds, bulk : BOOLEAN]]
  <2>1. [step : {"read"}, run : RunIds, bulk : BOOLEAN] \subseteq [step : CancelSteps, run : RunIds, bulk : BOOLEAN]
    BY DEF CancelSteps
  <2> QED  BY <2>1 DEF Init
<1>5. edit \in [Editors -> [step : EditSteps, thread : ThreadIds, base : Seq(Turns)]]
  <2>1. [step : {"get"}, thread : ThreadIds, base : {<<>>}]
        \subseteq [step : EditSteps, thread : ThreadIds, base : Seq(Turns)]
    BY <1>1 DEF EditSteps
  <2> QED  BY <2>1 DEF Init
<1>6. req \in [RunIds -> Requests] /\ faults \in Nat /\ deletes \in Nat  BY DEF Init
<1>7. StatefulSteps  BY DEF Init, StatefulSteps, ThreadSteps
<1> QED  BY <1>2, <1>3, <1>4, <1>5, <1>6, <1>7 DEF StepInv, TypeOK

(* A run goes to a thread's call only if it has a thread.                  *)
LEMMA NextStateful ==
    ASSUME StepInv, NEW r \in RunIds
    PROVE  /\ AfterStart(r) \in ThreadSteps => Stateful(r)
           /\ AfterCreate(r) \in ThreadSteps => Stateful(r)
           /\ AfterRunning(r) \notin ThreadSteps
           /\ AfterAgent(r) \in ThreadSteps => Stateful(r)
           /\ AfterSuccess(r) \in ThreadSteps => Stateful(r)
           /\ ThrowEarly(r) \notin ThreadSteps /\ ThrowStep(r) \notin ThreadSteps
           /\ ThrowSaved(r) \in ThreadSteps => Stateful(r)
           /\ AfterErrorIdle(r) \notin ThreadSteps
           /\ AfterErrorRun(r) \in ThreadSteps => Stateful(r)
           /\ AfterErrorThrow(r) \in ThreadSteps => Stateful(r)
           /\ Abandon(r) \notin ThreadSteps
<1>1. Kind(r) \in {"background", "wait", "stream"}
  BY KindsAssumption DEF StepInv, TypeOK, Requests, Kind, AllKinds
<1>2. AfterSuccess(r) \in ThreadSteps => Stateful(r)  BY <1>1 DEF AfterSuccess, ThreadSteps
<1>3. ThrowSaved(r) \in ThreadSteps => Stateful(r)  BY DEF ThrowSaved, ThreadSteps
<1> QED  BY <1>2, <1>3
  DEF AfterStart, AfterCreate, AfterRunning, AfterAgent, ThrowEarly, ThrowStep, AfterErrorIdle,
      AfterErrorRun, AfterErrorThrow, Abandon, ThreadSteps

(* Moving a run to a step it may make keeps StatefulSteps.                 *)
LEMMA MoveStateful ==
    ASSUME StepInv, NEW r \in RunIds, NEW step, step \in ThreadSteps => Stateful(r),
           pc' = [pc EXCEPT ![r] = step], req' = req
    PROVE  StatefulSteps'
BY DEF StepInv, TypeOK, StatefulSteps, Stateful, Thread

LEMMA StepStep == StepInv /\ [Next]_vars => StepInv'
<1> SUFFICES ASSUME StepInv, [Next]_vars PROVE StepInv'  OBVIOUS
<1>t. TypeOK /\ StatefulSteps  BY DEF StepInv
<1>1. CASE UNCHANGED vars
  BY <1>1, <1>t DEF vars, runVars, threadVars, StepInv, TypeOK, StatefulSteps, Stateful, Thread
(* A step of run r moves r to a step it may make, changes base[r] to a     *)
(* conversation at most, and leaves every store well formed.               *)
<1>2. ASSUME NEW r \in RunIds, NEW step \in RunSteps, step \in ThreadSteps => Stateful(r),
             pc' = [pc EXCEPT ![r] = step],
             base' \in [RunIds -> Seq(Turns)], live' \subseteq RunIds, aborted' = aborted,
             retrying' \subseteq RunIds,
             runStatus' \in [RunIds -> RunStatuses],
             threadStatus' \in [ThreadIds -> ThreadStatuses],
             threadValues' \in [ThreadIds -> Seq(Turns)],
             history' \in [ThreadIds -> Seq(Seq(Turns))],
             faults' \in Nat, UNCHANGED <<req, cancel, edit, deletes>>
      PROVE  StepInv'
  <2>1. pc' \in [RunIds -> RunSteps]  BY <1>2, <1>t DEF TypeOK
  <2>2. StatefulSteps'  BY <1>2, MoveStateful
  <2> QED  BY <1>2, <1>t, <2>1, <2>2 DEF StepInv, TypeOK
<1>3. ASSUME NEW r \in RunIds, Start(r) PROVE StepInv'
  BY <1>3, <1>2, <1>t, NextSteps, NextStateful DEF Start, Move, Goto, threadVars, TypeOK
<1>4. ASSUME NEW r \in RunIds, Execute(r) PROVE StepInv'
  <2> USE NextSteps, NextStateful, StoreTypes, <1>t DEF Move, Goto, threadVars
  <2>s. Stateful(r) => Thread(r) \in ThreadIds
    BY DEF TypeOK, Requests, Stateful, Thread
  <2>k. Kind(r) \in {"background", "wait", "stream"}
    BY KindsAssumption DEF TypeOK, Requests, Kind, AllKinds
  <2>1. CASE EnsureThread(r)
    <3>1. Stateful(r)  BY <2>1 DEF EnsureThread, StatefulSteps, ThreadSteps
    <3>2. "createThread" \in RunSteps  BY DEF RunSteps
    <3>3. faults' \in Nat  BY <2>1 DEF EnsureThread, TypeOK
    <3>4. \E step \in RunSteps : Move(r, step)  BY <2>1, <3>2 DEF EnsureThread
    <3> QED  BY <2>1, <3>1, <3>3, <3>4, <1>2 DEF EnsureThread, TypeOK
  <2>2. CASE CreateThread(r)
    <3>1. Stateful(r)  BY <2>2 DEF CreateThread, StatefulSteps, ThreadSteps
    <3>2. threadStatus' \in [ThreadIds -> ThreadStatuses] /\ threadValues' \in [ThreadIds -> Seq(Turns)]
      <4>1. Thread(r) \in ThreadIds  BY <2>s, <3>1
      <4>2. \/ UNCHANGED <<threadStatus, threadValues>>
            \/ /\ threadStatus' = [threadStatus EXCEPT ![Thread(r)] = "idle"]
               /\ threadValues' = [threadValues EXCEPT ![Thread(r)] = <<>>]
        BY <2>2 DEF CreateThread
      <4>3. <<>> \in Seq(Turns) /\ "idle" \in ThreadStatuses  BY DEF ThreadStatuses
      <4>4. /\ threadStatus \in [ThreadIds -> ThreadStatuses]
            /\ threadValues \in [ThreadIds -> Seq(Turns)]
        BY DEF TypeOK
      <4> HIDE NextSteps, NextStateful, StoreTypes, <1>t
      <4>5. threadStatus' \in [ThreadIds -> ThreadStatuses]
        BY <4>1, <4>2, <4>3, <4>4
      <4>6. threadValues' \in [ThreadIds -> Seq(Turns)]
        BY <4>1, <4>2, <4>3, <4>4
      <4> QED  BY <4>5, <4>6
    <3>3. faults' \in Nat  BY <2>2 DEF CreateThread, TypeOK
    <3>4. \E step \in RunSteps : Move(r, step)  BY <2>2 DEF CreateThread
    <3> QED  BY <2>2, <3>1, <3>2, <3>3, <3>4, <1>2 DEF CreateThread, TypeOK
  <2>3. CASE RejectAssistant(r)
    <3>1. "rejected" \in RunSteps \ ThreadSteps  BY DEF RunSteps, ThreadSteps
    <3> QED  BY <2>3, <3>1, <1>2 DEF RejectAssistant, TypeOK
  <2>4. CASE CreateRun(r)
    <3>1. "rejected" \in RunSteps \ ThreadSteps  BY DEF RunSteps, ThreadSteps
    <3>2. runStatus' \in [RunIds -> RunStatuses] /\ faults' \in Nat
      BY <2>4 DEF CreateRun, RunStatuses, TypeOK
    <3>3. \E step \in RunSteps : (step \in ThreadSteps => Stateful(r)) /\ Move(r, step)
      BY <2>4, <3>1 DEF CreateRun
    <3> QED  BY <2>4, <3>2, <3>3, <1>2 DEF CreateRun, TypeOK
  <2>5. CASE MarkBusy(r)
    <3>1. Stateful(r)  BY <2>5 DEF MarkBusy, StatefulSteps, ThreadSteps
    <3>2. threadStatus' \in [ThreadIds -> ThreadStatuses] /\ faults' \in Nat
      BY <2>5 DEF MarkBusy, ThreadStatuses, TypeOK
    <3>3. \E step \in RunSteps : Move(r, step)  BY <2>5 DEF MarkBusy, RunSteps
    <3> QED  BY <2>5, <3>1, <3>2, <3>3, <1>2 DEF MarkBusy, TypeOK
  <2>6. CASE ReadState(r)
    <3>1. Stateful(r)  BY <2>6 DEF ReadState, StatefulSteps, ThreadSteps
    <3>2. Latest(Thread(r)) \in Seq(Turns) /\ <<>> \in Seq(Turns)  BY <3>1, <2>s, LatestType
    <3>3. base' \in [RunIds -> Seq(Turns)] /\ faults' \in Nat
      BY <2>6, <3>2 DEF ReadState, TypeOK
    <3>4. "running" \in RunSteps  BY DEF RunSteps
    <3> QED  BY <2>6, <3>1, <3>3, <3>4, <1>2 DEF ReadState, TypeOK
  <2>7. CASE ComposeFails(r)
    BY <2>7, <1>2 DEF ComposeFails, TypeOK
  <2>8. CASE MarkRunning(r)
    <3>1. runStatus' \in [RunIds -> RunStatuses] /\ faults' \in Nat
      BY <2>8 DEF MarkRunning, RunStatuses, TypeOK
    <3>2. \E step \in RunSteps : (step \in ThreadSteps => Stateful(r)) /\ Move(r, step)
      BY <2>8 DEF MarkRunning
    <3> QED  BY <2>8, <3>1, <3>2, <1>2 DEF MarkRunning, TypeOK
  <2>9. CASE OpenStream(r)
    <3>1. "agent" \in RunSteps \ ThreadSteps  BY DEF RunSteps, ThreadSteps
    <3> QED  BY <2>9, <3>1, <1>2 DEF OpenStream, TypeOK
  <2>10. CASE AgentReplies(r)
    BY <2>10, <1>2 DEF AgentReplies, TypeOK
  <2>11. CASE AgentFails(r)
    BY <2>11, <1>2 DEF AgentFails, TypeOK
  <2>12. CASE SaveState(r)
    <3>1. Stateful(r)  BY <2>12 DEF SaveState, StatefulSteps, ThreadSteps
    <3>2. history' \in [ThreadIds -> Seq(Seq(Turns))] /\ faults' \in Nat
      BY <2>12, SavedTypes DEF SaveState, TypeOK
    <3>3. \E step \in RunSteps : Move(r, step)  BY <2>12 DEF SaveState, RunSteps
    <3> QED  BY <2>12, <3>1, <3>2, <3>3, <1>2 DEF SaveState, TypeOK
  <2>13. CASE SaveValues(r)
    <3>1. Stateful(r)  BY <2>13 DEF SaveValues, StatefulSteps, ThreadSteps
    <3>2. threadValues' \in [ThreadIds -> Seq(Turns)] /\ faults' \in Nat
      BY <2>13, SavedTypes DEF SaveValues, TypeOK
    <3>3. \E step \in RunSteps : Move(r, step)  BY <2>13 DEF SaveValues
    <3> QED  BY <2>13, <3>1, <3>2, <3>3, <1>2 DEF SaveValues, TypeOK
  <2>f. ASSUME FailSaved(r)
        PROVE  /\ pc' = [pc EXCEPT ![r] = ThrowSaved(r)] /\ base' \in [RunIds -> Seq(Turns)]
               /\ UNCHANGED <<live, aborted>> /\ retrying' \subseteq RunIds
    BY <2>f DEF FailSaved, TypeOK
  <2>m. ASSUME NEW step, Move(r, step)
        PROVE  pc' = [pc EXCEPT ![r] = step] /\ base' \in [RunIds -> Seq(Turns)]
               /\ UNCHANGED <<live, aborted>> /\ retrying' \subseteq RunIds
    BY <2>m DEF TypeOK
  <2>e. "errorRun" \in RunSteps \ ThreadSteps /\ "idle" \in RunSteps /\ "done" \in RunSteps \ ThreadSteps
        /\ "close" \in RunSteps \ ThreadSteps /\ "success" \in RunSteps \ ThreadSteps
        /\ "abandoned" \in RunSteps \ ThreadSteps
    BY DEF RunSteps, ThreadSteps
  <2>14. CASE MarkSuccess(r)
    <3>1. runStatus' \in [RunIds -> RunStatuses] /\ faults' \in Nat
      BY <2>14 DEF MarkSuccess, RunStatuses, TypeOK
    <3>2. Move(r, AfterSuccess(r)) \/ FailSaved(r) \/ Move(r, "errorRun")
      BY <2>14 DEF MarkSuccess
    <3> HIDE DEF Move
    <3>3. \E step \in RunSteps : /\ step \in ThreadSteps => Stateful(r)
                                /\ pc' = [pc EXCEPT ![r] = step] /\ base' \in [RunIds -> Seq(Turns)]
                                /\ UNCHANGED <<live, aborted>> /\ retrying' \subseteq RunIds
      BY <3>2, <2>f, <2>m, <2>e
    <3> QED  BY <2>14, <3>1, <3>3, <1>2 DEF MarkSuccess, TypeOK
  <2>15. CASE ReleaseThread(r)
    <3>0. Stateful(r)  BY <2>15 DEF ReleaseThread, StatefulSteps, ThreadSteps
    <3>1. threadStatus' \in [ThreadIds -> ThreadStatuses] /\ faults' \in Nat
      BY <2>15 DEF ReleaseThread, ThreadStatuses, TypeOK
    <3>2. Move(r, AfterIdle(r)) \/ FailSaved(r) \/ Move(r, "errorRun")
      BY <2>15 DEF ReleaseThread
    <3> HIDE DEF Move
    <3>3. \E step \in RunSteps : /\ pc' = [pc EXCEPT ![r] = step] /\ base' \in [RunIds -> Seq(Turns)]
                                /\ UNCHANGED <<live, aborted>> /\ retrying' \subseteq RunIds
      BY <3>2, <2>f, <2>m, <2>e
    <3> QED  BY <2>15, <3>0, <3>1, <3>3, <1>2 DEF ReleaseThread, TypeOK
  <2>16. CASE Reread(r)
    <3>0. Stateful(r)  BY <2>16 DEF Reread, StatefulSteps, ThreadSteps
    <3>1. faults' \in Nat  BY <2>16 DEF Reread, TypeOK
    <3>2. Move(r, "idle") \/ FailSaved(r)
      BY <2>16 DEF Reread
    <3> HIDE DEF Move
    <3>3. \E step \in RunSteps : /\ pc' = [pc EXCEPT ![r] = step] /\ base' \in [RunIds -> Seq(Turns)]
                                /\ UNCHANGED <<live, aborted>> /\ retrying' \subseteq RunIds
      BY <3>2, <2>f, <2>m, <2>e
    <3> QED  BY <2>16, <3>0, <3>1, <3>3, <1>2 DEF Reread, TypeOK
  <2>17. CASE CheckCancelled(r)
    <3>1. faults' \in Nat  BY <2>17 DEF CheckCancelled, TypeOK
    <3>2. Move(r, "success") \/ Move(r, "close") \/ FailSaved(r)
      BY <2>17 DEF CheckCancelled
    <3> HIDE DEF Move
    <3>3. \E step \in RunSteps : /\ step \in ThreadSteps => Stateful(r)
                                /\ pc' = [pc EXCEPT ![r] = step] /\ base' \in [RunIds -> Seq(Turns)]
                                /\ UNCHANGED <<live, aborted>> /\ retrying' \subseteq RunIds
      BY <3>2, <2>f, <2>m, <2>e
    <3> QED  BY <2>17, <3>1, <3>3, <1>2 DEF CheckCancelled, TypeOK
  <2>18. CASE FinalRead(r)
    <3>1. faults' \in Nat  BY <2>18 DEF FinalRead, TypeOK
    <3>2. \E step \in RunSteps \ ThreadSteps : Move(r, step)  BY <2>18, <2>e DEF FinalRead
    <3> QED  BY <2>18, <3>1, <3>2, <2>e, <1>2 DEF FinalRead, TypeOK
  <2>19. CASE CloseStream(r)
    <3>1. live' \subseteq RunIds  BY <2>19 DEF CloseStream, TypeOK
    <3>2. \E step \in RunSteps \ ThreadSteps : pc' = [pc EXCEPT ![r] = step]
      BY <2>19, <2>e DEF CloseStream, Goto
    <3> QED  BY <2>19, <3>1, <3>2, <2>e, <1>2 DEF CloseStream, TypeOK
  <2>20. CASE MarkFailed(r)
    <3>1. runStatus' \in [RunIds -> RunStatuses] /\ faults' \in Nat
      BY <2>20 DEF MarkFailed, RunStatuses, TypeOK
    <3>2. \E step \in RunSteps : (step \in ThreadSteps => Stateful(r)) /\ Move(r, step)
      BY <2>20 DEF MarkFailed
    <3> QED  BY <2>20, <3>1, <3>2, <1>2 DEF MarkFailed, TypeOK
  <2>21. CASE ReleaseFailed(r)
    <3>1. threadStatus' \in [ThreadIds -> ThreadStatuses] /\ faults' \in Nat
      BY <2>21 DEF ReleaseFailed, ThreadStatuses, TypeOK
    <3>2. \E step \in RunSteps : step \notin ThreadSteps /\ Move(r, step)
      BY <2>21 DEF ReleaseFailed
    <3> QED  BY <2>21, <3>1, <3>2, <1>2 DEF ReleaseFailed, TypeOK
  <2> QED  BY <1>4, <2>1, <2>2, <2>3, <2>4, <2>5, <2>6, <2>7, <2>8, <2>9, <2>10, <2>11, <2>12, <2>13,
              <2>14, <2>15, <2>16, <2>17, <2>18, <2>19, <2>20, <2>21 DEF Execute
(* The steps of the other requests leave the runs' own variables alone.    *)
<1>5. ASSUME UNCHANGED <<req, pc, base, live, retrying>>, aborted' \subseteq RunIds,
             runStatus' \in [RunIds -> RunStatuses],
             threadStatus' \in [ThreadIds -> ThreadStatuses],
             threadValues' \in [ThreadIds -> Seq(Turns)],
             history' \in [ThreadIds -> Seq(Seq(Turns))],
             cancel' \in [Cancellers -> [step : CancelSteps, run : RunIds, bulk : BOOLEAN]],
             edit' \in [Editors -> [step : EditSteps, thread : ThreadIds, base : Seq(Turns)]],
             faults' \in Nat, deletes' \in Nat
      PROVE  StepInv'
  BY <1>5, <1>t DEF StepInv, TypeOK, StatefulSteps, Stateful, Thread
<1>6. ASSUME NEW r \in RunIds, JoinerLeaves(r) PROVE StepInv'
  <2>1. aborted' \subseteq RunIds  BY <1>6, <1>t DEF JoinerLeaves, Abort, TypeOK
  <2> QED  BY <1>6, <1>5, <2>1, <1>t DEF JoinerLeaves, threadVars, TypeOK
<1>7. ASSUME NEW r \in RunIds, DeleteRun(r) PROVE StepInv'
  <2>1. runStatus' \in [RunIds -> RunStatuses] /\ deletes' \in Nat
    BY <1>7, <1>t DEF DeleteRun, RunStatuses, TypeOK
  <2> QED  BY <1>7, <1>5, <2>1, <1>t DEF DeleteRun, runVars, threadVars, TypeOK
<1>8. ASSUME NEW t \in ThreadIds, DeleteThread(t) PROVE StepInv'
  <2>1. /\ threadStatus' \in [ThreadIds -> ThreadStatuses] /\ deletes' \in Nat
        /\ threadValues' \in [ThreadIds -> Seq(Turns)] /\ history' \in [ThreadIds -> Seq(Seq(Turns))]
    BY <1>8, <1>t DEF DeleteThread, ThreadStatuses, TypeOK
  <2> QED  BY <1>8, <1>5, <2>1, <1>t DEF DeleteThread, runVars, threadVars, TypeOK
<1>9. ASSUME NEW c \in Cancellers, CancelStep(c) PROVE StepInv'
  <2> DEFINE Cancels == [Cancellers -> [step : CancelSteps, run : RunIds, bulk : BOOLEAN]]
  <2>1. ASSUME NEW step \in CancelSteps, CancelGoto(c, step) PROVE cancel' \in Cancels
    BY <2>1, <1>t DEF CancelGoto, TypeOK
  <2>2. cancel[c].run \in RunIds  BY <1>9, <1>t DEF TypeOK
  <2>3. {"interrupt", "release", "abort", "done"} \subseteq CancelSteps  BY DEF CancelSteps
  <2>4. cancel' \in Cancels
    BY <1>9, <2>1, <2>3 DEF CancelStep, CancelRead, CancelRun, CancelRelease, CancelLiveRun, CancelThrows
  <2>5. faults' \in Nat
    BY <1>9, <1>t, StoreTypes
    DEF CancelStep, CancelRead, CancelRun, CancelRelease, CancelLiveRun, CancelThrows, TypeOK
  <2>6. runStatus' \in [RunIds -> RunStatuses]
    <3>1. "interrupted" \in RunStatuses  BY DEF RunStatuses
    <3> QED  BY <1>9, <1>t, <2>2, <3>1, StoreTypes
        DEF CancelStep, CancelRead, CancelRun, CancelRelease, CancelLiveRun, TypeOK
  <2>7. threadStatus' \in [ThreadIds -> ThreadStatuses]
    <3>1. "idle" \in ThreadStatuses  BY DEF ThreadStatuses
    <3> QED  BY <1>9, <1>t, <3>1, StoreTypes
        DEF CancelStep, CancelRead, CancelRun, CancelRelease, CancelLiveRun, threadVars, TypeOK
  <2>8. aborted' \subseteq RunIds
    BY <1>9, <1>t
    DEF CancelStep, CancelRead, CancelRun, CancelRelease, CancelLiveRun, Abort, runVars, TypeOK
  <2>9. UNCHANGED <<req, pc, base, live, retrying, threadValues, history, edit, deletes>>
    BY <1>9 DEF CancelStep, CancelRead, CancelRun, CancelRelease, CancelLiveRun, runVars, threadVars
  <2> QED  BY <1>5, <2>4, <2>5, <2>6, <2>7, <2>8, <2>9, <1>t DEF TypeOK
<1>10. ASSUME NEW e \in Editors, EditStep(e) PROVE StepInv'
  <2> DEFINE Edits == [Editors -> [step : EditSteps, thread : ThreadIds, base : Seq(Turns)]]
  <2>1. ASSUME NEW step \in EditSteps, EditGoto(e, step) PROVE edit' \in Edits
    BY <2>1, <1>t DEF EditGoto, TypeOK
  <2>2. edit[e].thread \in ThreadIds /\ Latest(edit[e].thread) \in Seq(Turns)
    <3>1. edit[e].thread \in ThreadIds  BY <1>10, <1>t DEF TypeOK
    <3> QED  BY <3>1, <1>t, LatestType
  <2>3. {"read", "addState", "values", "done"} \subseteq EditSteps  BY DEF EditSteps
  <2>4. edit' \in Edits
    <3>1. CASE EditThread(e)  BY <3>1, <2>1, <2>3 DEF EditThread
    <3>2. CASE EditRead(e)
      <4>1. CASE edit' = [edit EXCEPT ![e].step = "addState", ![e].base = Latest(edit[e].thread)]
        BY <4>1, <2>2, <2>3, <1>t DEF TypeOK
      <4> QED  BY <3>2, <4>1, <2>1, <2>3 DEF EditRead
    <3>3. CASE EditSaveState(e)  BY <3>3, <2>1, <2>3 DEF EditSaveState
    <3>4. CASE EditSaveValues(e)  BY <3>4, <2>1, <2>3 DEF EditSaveValues
    <3> QED  BY <1>10, <3>1, <3>2, <3>3, <3>4 DEF EditStep
  <2>5. faults' \in Nat
    BY <1>10, <1>t, StoreTypes DEF EditStep, EditThread, EditRead, EditSaveState, EditSaveValues, TypeOK
  <2>6. history' \in [ThreadIds -> Seq(Seq(Turns))]
    BY <1>10, <1>t, StoreTypes, SavedTypes
    DEF EditStep, EditThread, EditRead, EditSaveState, EditSaveValues, threadVars, TypeOK
  <2>7. threadValues' \in [ThreadIds -> Seq(Turns)]
    BY <1>10, <1>t, StoreTypes, SavedTypes
    DEF EditStep, EditThread, EditRead, EditSaveState, EditSaveValues, threadVars, TypeOK
  <2>8. UNCHANGED <<req, pc, base, live, aborted, retrying, runStatus, threadStatus, cancel, deletes>>
    BY <1>10 DEF EditStep, EditThread, EditRead, EditSaveState, EditSaveValues, runVars, threadVars
  <2> QED  BY <1>5, <2>4, <2>5, <2>6, <2>7, <2>8, <1>t DEF TypeOK
<1> QED  BY <1>1, <1>3, <1>4, <1>6, <1>7, <1>8, <1>9, <1>10 DEF Next

LEMMA StepInvariant == Spec => []StepInv
BY StepInit, StepStep, PTL DEF Spec

(* Every reachable state of the run processes and of the stored records is *)
(* well formed, whatever storage calls fail (runs.service.ts).             *)
THEOREM TypeCorrect == Spec => []TypeOK
<1>1. StepInv => TypeOK  BY DEF StepInv
<1> QED  BY <1>1, StepInvariant, PTL

-----------------------------------------------------------------------------
(***************************************************************************)
(* No thread is left busy.                                                 *)
(***************************************************************************)

(* Run r still answers for the status of its thread.                       *)
Answers(r) == Holds(r) \/ Abandoned(r)
AnswerSteps == HoldSteps \union {"abandonClose", "abandoned"}

(* Only a run that marks its thread makes it busy.                         *)
LEMMA BusyByRun ==
    ASSUME StepInv, [Next]_vars, NEW t \in ThreadIds, threadStatus'[t] = "busy"
    PROVE  \/ threadStatus[t] = "busy"
           \/ \E r \in RunIds : Thread(r) = t /\ pc'[r] = "read" /\ req' = req
<1> DEFINE Goal == \/ threadStatus[t] = "busy"
                   \/ \E r \in RunIds : Thread(r) = t /\ pc'[r] = "read" /\ req' = req
<1>t. TypeOK  BY DEF StepInv
<1>1. ASSUME NEW q, UpdateThread(q, "idle") PROVE threadStatus[t] = "busy"
  BY <1>1, <1>t DEF UpdateThread, TypeOK
<1>2. ASSUME NEW r \in RunIds, MarkBusy(r) PROVE Goal
  <2>1. CASE UpdateThread(Thread(r), "busy") /\ Move(r, "read")
    <3>1. pc'[r] = "read" /\ req' = req
      BY <1>2, <2>1, <1>t DEF MarkBusy, Move, Goto, TypeOK
    <3>2. CASE Thread(r) = t
      BY <3>1, <3>2
    <3>3. CASE Thread(r) # t
      BY <2>1, <3>3, <1>t DEF UpdateThread, TypeOK
    <3> QED  BY <3>2, <3>3
  <2>2. CASE threadStatus' = threadStatus
    BY <2>2
  <2> QED  BY <1>2, <2>1, <2>2 DEF MarkBusy
<1>3. ASSUME NEW r \in RunIds, CreateThread(r) PROVE Goal
  BY <1>3, <1>t DEF CreateThread, TypeOK
<1>4. ASSUME NEW r \in RunIds, ReleaseThread(r) \/ ReleaseFailed(r) PROVE Goal
  BY <1>4, <1>1 DEF ReleaseThread, ReleaseFailed
<1>5. ASSUME NEW r \in RunIds, Start(r) \/ EnsureThread(r) \/ RejectAssistant(r) \/ CreateRun(r)
             \/ ReadState(r) \/ ComposeFails(r) \/ MarkRunning(r) \/ OpenStream(r)
             \/ AgentReplies(r) \/ AgentFails(r) \/ SaveState(r) \/ SaveValues(r)
             \/ MarkSuccess(r) \/ Reread(r) \/ CheckCancelled(r) \/ FinalRead(r)
             \/ CloseStream(r) \/ MarkFailed(r) \/ JoinerLeaves(r) \/ DeleteRun(r)
      PROVE  threadStatus' = threadStatus
  BY <1>5 DEF threadVars, Start, EnsureThread, RejectAssistant, CreateRun, ReadState, ComposeFails,
     MarkRunning, OpenStream, AgentReplies, AgentFails, SaveState, SaveValues, MarkSuccess, Reread,
     CheckCancelled, FinalRead, CloseStream, MarkFailed, JoinerLeaves, DeleteRun
<1>6. ASSUME NEW c \in Cancellers, CancelStep(c) PROVE Goal
  <2>1. CASE CancelRelease(c)
    BY <2>1, <1>1 DEF CancelRelease
  <2>2. CASE CancelRead(c) \/ CancelRun(c) \/ CancelLiveRun(c)
    BY <2>2 DEF CancelRead, CancelRun, CancelLiveRun, threadVars
  <2> QED  BY <1>6, <2>1, <2>2 DEF CancelStep
<1>7. ASSUME NEW e \in Editors, EditStep(e) PROVE threadStatus' = threadStatus
  BY <1>7 DEF EditStep, EditThread, EditRead, EditSaveState, EditSaveValues, threadVars
<1>8. ASSUME NEW q \in ThreadIds, DeleteThread(q) PROVE Goal
  BY <1>8, <1>t DEF DeleteThread, TypeOK
<1>9. CASE UNCHANGED vars
  BY <1>9 DEF vars, threadVars
<1> QED  BY <1>2, <1>3, <1>4, <1>5, <1>6, <1>7, <1>8, <1>9 DEF Next, Execute

(* A run that answers for its thread goes on doing so, or has released it. *)
LEMMA HoldKept ==
    ASSUME StepInv, NEW r \in RunIds, Execute(r), Answers(r), Thread(r) \in ThreadIds
    PROVE  Answers(r)' \/ threadStatus'[Thread(r)] # "busy"
<1>t. TypeOK /\ req' = req
  BY DEF StepInv, Execute, EnsureThread, CreateThread, RejectAssistant, CreateRun, MarkBusy, ReadState,
     ComposeFails, MarkRunning, OpenStream, AgentReplies, AgentFails, SaveState, SaveValues, MarkSuccess,
     ReleaseThread, Reread, CheckCancelled, FinalRead, CloseStream, MarkFailed, ReleaseFailed
<1>s. Stateful(r)  BY NoThreadAssumption DEF Stateful
<1>k. Kind(r) \in {"background", "wait", "stream"}
  BY <1>t, KindsAssumption DEF TypeOK, Requests, Kind, AllKinds
(* Where the run goes next, it still answers for its thread.               *)
<1>h. ASSUME NEW step, Move(r, step) \/ pc' = [pc EXCEPT ![r] = step],
             step \in AnswerSteps \/ (step = "success" /\ Kind(r) = "background")
      PROVE  Answers(r)'
  BY <1>h, <1>t DEF Move, Goto, Answers, Holds, Abandoned, AnswerSteps, Kind, TypeOK
<1>i. UpdateThread(Thread(r), "idle") => threadStatus'[Thread(r)] # "busy"
  BY <1>t DEF UpdateThread, TypeOK
<1>w. ThrowStep(r) \in AnswerSteps /\ "errorRun" \in AnswerSteps
  BY DEF ThrowStep, AnswerSteps, HoldSteps
<1>1. CASE ReadState(r)
  BY <1>1, <1>h DEF ReadState, Goto, AnswerSteps, HoldSteps
<1>2. CASE ComposeFails(r) \/ AgentFails(r)
  BY <1>2, <1>h, <1>w DEF ComposeFails, AgentFails
<1>3. CASE MarkRunning(r)
  <2>1. AfterRunning(r) \in AnswerSteps  BY DEF AfterRunning, AnswerSteps, HoldSteps
  <2> QED  BY <1>3, <2>1, <1>h, <1>w DEF MarkRunning
<1>4. CASE OpenStream(r)
  BY <1>4, <1>h DEF OpenStream, Goto, AnswerSteps, HoldSteps
<1>5. CASE AgentReplies(r)
  BY <1>5, <1>h, <1>s DEF AgentReplies, AfterAgent, AnswerSteps, HoldSteps
<1>6. CASE SaveState(r)
  <2>1. "values" \in AnswerSteps  BY DEF AnswerSteps, HoldSteps
  <2> QED  BY <1>6, <2>1, <1>h, <1>w DEF SaveState
<1>7. CASE SaveValues(r)
  <2>1. AfterValues(r) \in AnswerSteps \/ (AfterValues(r) = "success" /\ Kind(r) = "background")
    BY <1>k DEF AfterValues, AnswerSteps, HoldSteps
  <2> QED  BY <1>7, <1>h, <1>w, <2>1 DEF SaveValues
<1>8. CASE MarkSuccess(r)
  <2>1. Kind(r) = "background"
    BY <1>8 DEF MarkSuccess, Answers, Abandoned, Holds, HoldSteps
  <2>2. AfterSuccess(r) = "idle" /\ "idle" \in AnswerSteps
    BY <2>1, <1>s DEF AfterSuccess, AnswerSteps, HoldSteps
  <2> QED  BY <1>8, <2>1, <2>2, <1>h, <1>w DEF MarkSuccess
<1>9. CASE ReleaseThread(r)
  <2>1. CASE UpdateThread(Thread(r), "idle")
    BY <2>1, <1>i
  <2>2. CASE FailSaved(r)
    <3>1. ThrowSaved(r) \in AnswerSteps
      BY <1>9, <1>s DEF ReleaseThread, ThrowSaved, AnswerSteps, HoldSteps
    <3> QED  BY <2>2, <3>1, <1>h DEF FailSaved, Goto
  <2>3. CASE Move(r, "errorRun")
    BY <2>3, <1>h, <1>w
  <2> QED  BY <1>9, <2>1, <2>2, <2>3 DEF ReleaseThread
<1>10. CASE Reread(r)
  <2>1. ThrowSaved(r) \in AnswerSteps /\ "idle" \in AnswerSteps
    BY <1>10, <1>s DEF Reread, ThrowSaved, AnswerSteps, HoldSteps
  <2> QED  BY <1>10, <2>1, <1>h DEF Reread, FailSaved, Goto
<1>11. CASE MarkFailed(r)
  <2>1. AfterErrorRun(r) \in AnswerSteps /\ AfterErrorThrow(r) \in AnswerSteps
    BY <1>s DEF AfterErrorRun, AfterErrorThrow, AnswerSteps, HoldSteps
  <2> QED  BY <1>11, <2>1, <1>h DEF MarkFailed
<1>12. CASE ReleaseFailed(r)
  <2>1. Abandon(r) \in AnswerSteps  BY DEF Abandon, AnswerSteps
  <2> QED  BY <1>12, <2>1, <1>h, <1>i DEF ReleaseFailed
<1>13. CASE CloseStream(r)
  <2>1. pc[r] = "abandonClose" /\ pc' = [pc EXCEPT ![r] = "abandoned"]
    BY <1>13 DEF CloseStream, Goto, Answers, Abandoned, Holds, HoldSteps
  <2> QED  BY <2>1, <1>h DEF AnswerSteps
<1>14. CASE EnsureThread(r) \/ CreateThread(r) \/ RejectAssistant(r) \/ CreateRun(r) \/ MarkBusy(r)
            \/ CheckCancelled(r) \/ FinalRead(r)
  BY <1>14 DEF EnsureThread, CreateThread, RejectAssistant, CreateRun, MarkBusy, CheckCancelled,
     FinalRead, Answers, Abandoned, Holds, HoldSteps
<1> QED  BY <1>1, <1>2, <1>3, <1>4, <1>5, <1>6, <1>7, <1>8, <1>9, <1>10, <1>11, <1>12, <1>13, <1>14
  DEF Execute

(* No other request moves a run, and none changes what it asked for.       *)
LEMMA OthersStill ==
    ASSUME StepInv, [Next]_vars, NEW r \in RunIds, ~Execute(r)
    PROVE  req' = req /\ (pc'[r] = pc[r] \/ Start(r))
<1>t. TypeOK  BY DEF StepInv
<1>1. ASSUME NEW q \in RunIds, Execute(q) PROVE req' = req /\ pc'[r] = pc[r]
  <2>1. req' = req /\ \E step : pc' = [pc EXCEPT ![q] = step]
    BY <1>1 DEF Execute, EnsureThread, CreateThread, RejectAssistant, CreateRun, MarkBusy, ReadState,
     ComposeFails, MarkRunning, OpenStream, AgentReplies, AgentFails, SaveState, SaveValues, MarkSuccess,
     ReleaseThread, Reread, CheckCancelled, FinalRead, CloseStream, MarkFailed, ReleaseFailed,
     Move, Goto, FailSaved
  <2>2. q # r  BY <1>1
  <2> QED  BY <2>1, <2>2
<1>2. ASSUME NEW q \in RunIds, Start(q) PROVE req' = req /\ (pc'[r] = pc[r] \/ Start(r))
  <2>1. CASE q = r
    BY <1>2, <2>1 DEF Start
  <2>2. CASE q # r
    <3>1. req' = req /\ \E step : pc' = [pc EXCEPT ![q] = step]
      BY <1>2 DEF Start, Move, Goto
    <3> QED  BY <2>2, <3>1
  <2> QED  BY <2>1, <2>2
<1>3. ASSUME NEW q \in RunIds, JoinerLeaves(q) \/ DeleteRun(q) PROVE req' = req /\ pc'[r] = pc[r]
  BY <1>3 DEF JoinerLeaves, DeleteRun, runVars
<1>4. ASSUME NEW c \in Cancellers, CancelStep(c) PROVE req' = req /\ pc'[r] = pc[r]
  BY <1>4 DEF CancelStep, CancelRead, CancelRun, CancelRelease, CancelLiveRun, runVars
<1>5. ASSUME NEW e \in Editors, EditStep(e) PROVE req' = req /\ pc'[r] = pc[r]
  BY <1>5 DEF EditStep, EditThread, EditRead, EditSaveState, EditSaveValues, runVars
<1>6. ASSUME NEW t \in ThreadIds, DeleteThread(t) PROVE req' = req /\ pc'[r] = pc[r]
  BY <1>6 DEF DeleteThread, runVars
<1>7. CASE UNCHANGED vars
  BY <1>7 DEF vars, runVars
<1> QED  BY <1>1, <1>2, <1>3, <1>4, <1>5, <1>6, <1>7 DEF Next

LEMMA BusyStep ==
    ASSUME StepInv, NeverLeftBusy, [Next]_vars
    PROVE  NeverLeftBusy'
<1> SUFFICES ASSUME NEW t \in ThreadIds, threadStatus'[t] = "busy"
             PROVE  \E r \in RunIds : Thread(r)' = t /\ Answers(r)'
  BY DEF NeverLeftBusy, Answers
<1>1. CASE \E r \in RunIds : Thread(r) = t /\ pc'[r] = "read" /\ req' = req
  BY <1>1 DEF Answers, Holds, HoldSteps, Thread
<1>2. CASE threadStatus[t] = "busy"
  <2>1. PICK r \in RunIds : Thread(r) = t /\ Answers(r)
    BY <1>2 DEF NeverLeftBusy, Answers
  <2>2. CASE Execute(r)
    <3>1. Answers(r)'  BY <2>1, <2>2, HoldKept
    <3>2. req' = req
      BY <2>2 DEF Execute, EnsureThread, CreateThread, RejectAssistant, CreateRun, MarkBusy, ReadState,
     ComposeFails, MarkRunning, OpenStream, AgentReplies, AgentFails, SaveState, SaveValues, MarkSuccess,
     ReleaseThread, Reread, CheckCancelled, FinalRead, CloseStream, MarkFailed, ReleaseFailed
    <3> QED  BY <2>1, <3>1, <3>2 DEF Thread
  <2>3. CASE ~Execute(r)
    <3>1. req' = req /\ pc'[r] = pc[r]
      BY <2>1, <2>3, OthersStill DEF Start, Answers, Abandoned, Holds, HoldSteps
    <3> QED  BY <2>1, <3>1 DEF Answers, Abandoned, Holds, Thread, Kind
  <2> QED  BY <2>2, <2>3
<1> QED  BY <1>1, <1>2, BusyByRun

(* Whatever the order in which runs, cancels and deletes reach a thread    *)
(* record and whichever storage calls throw, a busy thread always has a run*)
(* that is still going to release it, or that a failed call kept from      *)
(* releasing it.                                                           *)
THEOREM NeverLeftBusyCorrect == Spec => []NeverLeftBusy
<1>1. Init => NeverLeftBusy
  BY DEF Init, NeverLeftBusy
<1>2. StepInv /\ NeverLeftBusy /\ [Next]_vars => NeverLeftBusy'
  BY BusyStep
<1> QED  BY <1>1, <1>2, StepInvariant, PTL DEF Spec

-----------------------------------------------------------------------------
(***************************************************************************)
(* Success means saved.  The turn of a stateful run is in the history from *)
(* the moment SaveState is behind it, and only a delete takes history away.*)
(***************************************************************************)
SavedSteps == {"values", "reread", "idle", "recheck", "success"}

SavedInv ==
    deletes = 0 =>
        \A r \in RunIds : Stateful(r) /\ (pc[r] \in SavedSteps \/ runStatus[r] = "success") => Saved(r)

(* A step that deletes nothing keeps every state a history holds.          *)
LEMMA HistoryGrows ==
    ASSUME StepInv, [Next]_vars, deletes' = 0
    PROVE  /\ deletes = 0
           /\ \/ history' = history
              \/ \E t \in ThreadIds, m \in Seq(Turns) : history' = [history EXCEPT ![t] = Append(@, m)]
<1> DEFINE Grows == \/ history' = history
                    \/ \E t \in ThreadIds, m \in Seq(Turns) : history' = [history EXCEPT ![t] = Append(@, m)]
<1>t. TypeOK  BY DEF StepInv
<1>1. ASSUME NEW r \in RunIds, SaveState(r) PROVE Grows /\ deletes' = deletes
  <2>1. CASE history' = history
    BY <1>1, <2>1 DEF SaveState
  <2>2. CASE AddState(Thread(r), Append(base[r], r))
    <3>1. Thread(r) \in ThreadIds
      BY <1>1 DEF StepInv, SaveState, StatefulSteps, ThreadSteps, TypeOK, Requests, Stateful, Thread
    <3>2. Append(base[r], r) \in Seq(Turns)
      BY <1>t DEF TypeOK, Turns
    <3> QED  BY <1>1, <2>2, <3>1, <3>2 DEF AddState, SaveState
  <2> QED  BY <1>1, <2>1, <2>2 DEF SaveState
<1>2. ASSUME NEW e \in Editors, EditSaveState(e) PROVE Grows /\ deletes' = deletes
  <2>1. CASE history' = history
    BY <1>2, <2>1 DEF EditSaveState
  <2>2. CASE AddState(edit[e].thread, Append(edit[e].base, e))
    <3>1. edit[e].thread \in ThreadIds /\ Append(edit[e].base, e) \in Seq(Turns)
      BY <1>t DEF TypeOK, Turns
    <3> QED  BY <1>2, <2>2, <3>1 DEF AddState, EditSaveState
  <2> QED  BY <1>2, <2>1, <2>2 DEF EditSaveState
<1>3. ASSUME NEW r \in RunIds, DeleteRun(r) PROVE FALSE
  BY <1>3, <1>t DEF DeleteRun, TypeOK
<1>4. ASSUME NEW t \in ThreadIds, DeleteThread(t) PROVE FALSE
  BY <1>4, <1>t DEF DeleteThread, TypeOK
<1>5. ASSUME NEW r \in RunIds, Start(r) \/ EnsureThread(r) \/ CreateThread(r) \/ RejectAssistant(r)
             \/ CreateRun(r) \/ MarkBusy(r) \/ ReadState(r) \/ ComposeFails(r) \/ MarkRunning(r)
             \/ OpenStream(r) \/ AgentReplies(r) \/ AgentFails(r) \/ SaveValues(r)
             \/ MarkSuccess(r) \/ ReleaseThread(r) \/ Reread(r) \/ CheckCancelled(r) \/ FinalRead(r)
             \/ CloseStream(r) \/ MarkFailed(r) \/ ReleaseFailed(r) \/ JoinerLeaves(r)
      PROVE  history' = history /\ deletes' = deletes
  BY <1>5 DEF threadVars, Start, EnsureThread, CreateThread, RejectAssistant, CreateRun, MarkBusy,
     ReadState, ComposeFails, MarkRunning, OpenStream, AgentReplies, AgentFails, SaveValues,
     MarkSuccess, ReleaseThread, Reread, CheckCancelled, FinalRead, CloseStream, MarkFailed,
     ReleaseFailed, JoinerLeaves
<1>6. ASSUME NEW c \in Cancellers, CancelStep(c) PROVE history' = history /\ deletes' = deletes
  BY <1>6 DEF CancelStep, CancelRead, CancelRun, CancelRelease, CancelLiveRun, threadVars
<1>7. ASSUME NEW e \in Editors, EditThread(e) \/ EditRead(e) \/ EditSaveValues(e)
      PROVE  history' = history /\ deletes' = deletes
  BY <1>7 DEF EditThread, EditRead, EditSaveValues, threadVars
<1>8. CASE UNCHANGED vars
  BY <1>8 DEF vars, threadVars
<1> QED  BY <1>1, <1>2, <1>3, <1>4, <1>5, <1>6, <1>7, <1>8 DEF Next, Execute, EditStep

(* What was saved stays saved while nothing is deleted.                    *)
LEMMA SavedStays ==
    ASSUME StepInv, [Next]_vars, deletes' = 0, req' = req,
           NEW r \in RunIds, Thread(r) \in ThreadIds, Saved(r)
    PROVE  Saved(r)'
<1> DEFINE q == Thread(r)
<1>t. history \in [ThreadIds -> Seq(Seq(Turns))]  BY DEF StepInv, TypeOK
<1>1. PICK i \in 1..Len(history[q]) : history[q][i] # <<>> /\ history[q][i][Len(history[q][i])] = r
  BY DEF Saved
<1>2. Len(history'[q]) >= Len(history[q]) /\ history'[q][i] = history[q][i]
  <2>1. CASE history' = history
    BY <1>t, <2>1
  <2>2. ASSUME NEW t \in ThreadIds, NEW m \in Seq(Turns), history' = [history EXCEPT ![t] = Append(@, m)]
        PROVE  Len(history'[q]) >= Len(history[q]) /\ history'[q][i] = history[q][i]
    <3>1. CASE t = q
      <4>1. history'[q] = Append(history[q], m) /\ history[q] \in Seq(Seq(Turns))
        BY <1>t, <2>2, <3>1
      <4> HIDE DEF q
      <4> QED  BY <1>1, <4>1
    <3>2. CASE t # q
      BY <1>t, <2>2, <3>2
    <3> QED  BY <3>1, <3>2
  <2> QED  BY <2>1, <2>2, HistoryGrows
<1>3. i \in 1..Len(history'[q])
  <2>1. Len(history[q]) \in Nat /\ Len(history'[q]) \in Nat
    <3>1. history' \in [ThreadIds -> Seq(Seq(Turns))]
      BY StepStep DEF StepInv, TypeOK
    <3> QED  BY <1>t, <3>1
  <2> HIDE DEF q
  <2> QED  BY <1>1, <1>2, <2>1
<1>4. Thread(r)' = q  BY DEF Thread
<1> HIDE DEF q
<1> QED  BY <1>1, <1>2, <1>3, <1>4 DEF Saved

(* SaveState is where a turn enters the history.                           *)
LEMMA SaveStateSaves ==
    ASSUME StepInv, NEW r \in RunIds, Thread(r) \in ThreadIds,
           AddState(Thread(r), Append(base[r], r)), req' = req
    PROVE  Saved(r)'
<1> DEFINE q == Thread(r)
           m == Append(base[r], r)
<1>1. history[q] \in Seq(Seq(Turns)) /\ base[r] \in Seq(Turns)
  BY DEF StepInv, TypeOK
<1>2. history'[q] = Append(history[q], m)
  BY DEF AddState, StepInv, TypeOK
<1>3. m # <<>> /\ m[Len(m)] = r /\ m \in Seq(Turns)
  BY <1>1 DEF Turns
<1>4. Thread(r)' = q  BY DEF Thread
<1> DEFINE n == Len(history[q]) + 1
<1>5. n \in 1..Len(history'[q]) /\ history'[q][n] = m
  <2> HIDE DEF m, q
  <2> QED  BY <1>1, <1>2, <1>3
<1> HIDE DEF m, q, n
<1> QED  BY <1>3, <1>4, <1>5 DEF Saved

(* A run reaches the steps after SaveState only through it, and `success`  *)
(* only from there.                                                        *)
LEMMA SavedSource ==
    ASSUME StepInv, NEW r \in RunIds, Stateful(r), Execute(r),
           pc'[r] \in SavedSteps \/ runStatus'[r] = "success"
    PROVE  \/ pc[r] \in SavedSteps \/ runStatus[r] = "success"
           \/ AddState(Thread(r), Append(base[r], r))
<1>t. TypeOK  BY DEF StepInv
<1>k. Kind(r) \in {"background", "wait", "stream"}
  BY <1>t, KindsAssumption DEF TypeOK, Requests, Kind, AllKinds
<1>m. \A step : Move(r, step) => pc'[r] = step
  BY <1>t DEF Move, Goto, TypeOK
<1>u. \A s : UpdateRun(r, s) => runStatus'[r] = s \/ runStatus'[r] = runStatus[r]
  BY <1>t DEF UpdateRun, TypeOK
<1>1. CASE pc[r] \in SavedSteps
  BY <1>1
<1>2. CASE EnsureThread(r) \/ CreateThread(r) \/ RejectAssistant(r)
  BY <1>2, <1>m, <1>k DEF EnsureThread, CreateThread, RejectAssistant, AfterEnsure, ThrowEarly, SavedSteps
<1>3. CASE CreateRun(r)
  <2>1. runStatus'[r] # "success" \/ runStatus'[r] = runStatus[r]
    BY <1>3, <1>t DEF CreateRun, TypeOK
  <2> QED  BY <1>3, <1>m, <2>1 DEF CreateRun, AfterCreate, SavedSteps
<1>4. CASE MarkBusy(r)
  BY <1>4, <1>m DEF MarkBusy, ThrowEarly, SavedSteps
<1>5. CASE ReadState(r) \/ OpenStream(r)
  BY <1>5, <1>t DEF ReadState, OpenStream, Goto, SavedSteps, TypeOK
<1>6. CASE ComposeFails(r) \/ AgentFails(r)
  BY <1>6, <1>m DEF ComposeFails, AgentFails, ThrowStep, SavedSteps
<1>7. CASE MarkRunning(r)
  BY <1>7, <1>m, <1>u DEF MarkRunning, AfterRunning, ThrowStep, SavedSteps
<1>8. CASE AgentReplies(r)
  BY <1>8, <1>m DEF AgentReplies, AfterAgent, SavedSteps
<1>9. CASE SaveState(r)
  BY <1>9, <1>m DEF SaveState, ThrowStep, SavedSteps
<1>10. CASE FinalRead(r)
  BY <1>10, <1>m DEF FinalRead, SavedSteps
<1>11. CASE CloseStream(r)
  BY <1>11, <1>t DEF CloseStream, Goto, SavedSteps, TypeOK
<1>12. CASE MarkFailed(r)
  BY <1>12, <1>m, <1>u DEF MarkFailed, AfterErrorRun, AfterErrorThrow, AfterErrorIdle, SavedSteps
<1>13. CASE ReleaseFailed(r)
  BY <1>13, <1>m DEF ReleaseFailed, AfterErrorIdle, Abandon, SavedSteps
<1>14. CASE SaveValues(r) \/ MarkSuccess(r) \/ ReleaseThread(r) \/ Reread(r) \/ CheckCancelled(r)
  BY <1>14 DEF SaveValues, MarkSuccess, ReleaseThread, Reread, CheckCancelled, SavedSteps
<1> QED  BY <1>1, <1>2, <1>3, <1>4, <1>5, <1>6, <1>7, <1>8, <1>9, <1>10, <1>11, <1>12, <1>13, <1>14
   DEF Execute

(* Nothing but the run itself makes its status `success`.                  *)
LEMMA OthersNoSuccess ==
    ASSUME StepInv, [Next]_vars, NEW r \in RunIds, ~Execute(r), runStatus'[r] = "success"
    PROVE  runStatus[r] = "success"
<1>t. TypeOK  BY DEF StepInv
<1>1. ASSUME NEW q \in RunIds, Execute(q) PROVE runStatus'[r] = runStatus[r]
  <2>1. q # r  BY <1>1
  <2>2. \/ runStatus' = runStatus
        \/ \E s : UpdateRun(q, s)
        \/ runStatus' = [runStatus EXCEPT ![q] = "pending"]
    BY <1>1 DEF Execute, EnsureThread, CreateThread, RejectAssistant, CreateRun, MarkBusy, ReadState,
     ComposeFails, MarkRunning, OpenStream, AgentReplies, AgentFails, SaveState, SaveValues, MarkSuccess,
     ReleaseThread, Reread, CheckCancelled, FinalRead, CloseStream, MarkFailed, ReleaseFailed
  <2> QED  BY <2>1, <2>2, <1>t DEF UpdateRun, TypeOK
<1>2. ASSUME NEW q \in RunIds, Start(q) \/ JoinerLeaves(q) PROVE runStatus' = runStatus
  BY <1>2 DEF Start, JoinerLeaves
<1>3. ASSUME NEW q \in RunIds, DeleteRun(q) PROVE runStatus[r] = "success"
  BY <1>3, <1>t DEF DeleteRun, TypeOK
<1>4. ASSUME NEW c \in Cancellers, CancelStep(c) PROVE runStatus[r] = "success"
  <2>1. runStatus' = runStatus \/ UpdateRun(cancel[c].run, "interrupted")
    BY <1>4 DEF CancelStep, CancelRead, CancelRun, CancelRelease, CancelLiveRun
  <2> QED  BY <2>1, <1>t DEF UpdateRun, TypeOK
<1>5. ASSUME NEW e \in Editors, EditStep(e) PROVE runStatus' = runStatus
  BY <1>5 DEF EditStep, EditThread, EditRead, EditSaveState, EditSaveValues
<1>6. ASSUME NEW t \in ThreadIds, DeleteThread(t) PROVE runStatus' = runStatus
  BY <1>6 DEF DeleteThread
<1>7. CASE UNCHANGED vars
  BY <1>7 DEF vars
<1> QED  BY <1>1, <1>2, <1>3, <1>4, <1>5, <1>6, <1>7 DEF Next

LEMMA SavedStep ==
    ASSUME StepInv, SavedInv, [Next]_vars
    PROVE  SavedInv'
<1> SUFFICES ASSUME deletes' = 0, NEW r \in RunIds, Stateful(r)',
                    pc'[r] \in SavedSteps \/ runStatus'[r] = "success"
             PROVE  Saved(r)'
  BY DEF SavedInv
<1>1. deletes = 0  BY HistoryGrows
<1>2. req' = req
  <2>1. CASE Execute(r)
    BY <2>1 DEF Execute, EnsureThread, CreateThread, RejectAssistant, CreateRun, MarkBusy, ReadState,
     ComposeFails, MarkRunning, OpenStream, AgentReplies, AgentFails, SaveState, SaveValues, MarkSuccess,
     ReleaseThread, Reread, CheckCancelled, FinalRead, CloseStream, MarkFailed, ReleaseFailed
  <2> QED  BY <2>1, OthersStill
<1>3. Stateful(r)  BY <1>2 DEF Stateful, Thread
<1>4. Thread(r) \in ThreadIds
  BY <1>3 DEF StepInv, TypeOK, Requests, Stateful, Thread
<1>5. CASE Saved(r)
  BY <1>1, <1>2, <1>4, <1>5, SavedStays
<1>6. CASE Execute(r)
  <2>1. CASE AddState(Thread(r), Append(base[r], r))
    BY <2>1, <1>2, <1>4, SaveStateSaves
  <2>2. CASE pc[r] \in SavedSteps \/ runStatus[r] = "success"
    BY <2>2, <1>1, <1>3, <1>5 DEF SavedInv
  <2> QED  BY <2>1, <2>2, <1>3, <1>6, SavedSource
<1>7. CASE ~Execute(r)
  <2>1. pc'[r] \in SavedSteps => pc[r] \in SavedSteps
    <3>1. CASE Start(r)
      <4>1. pc'[r] = AfterStart(r)
        BY <3>1 DEF Start, Move, Goto, StepInv, TypeOK
      <4> QED  BY <4>1 DEF AfterStart, SavedSteps
    <3> QED  BY <1>7, <3>1, OthersStill
  <2>2. runStatus'[r] = "success" => runStatus[r] = "success"
    BY <1>7, OthersNoSuccess
  <2> QED  BY <2>1, <2>2, <1>1, <1>3, <1>5 DEF SavedInv
<1> QED  BY <1>6, <1>7

(* In all three kinds of run, a client that sees `success` finds the turn  *)
(* in the thread's history, whatever storage calls threw and whatever      *)
(* other runs, cancels and edits did meanwhile (updateThreadState).        *)
THEOREM SuccessMeansSavedCorrect == Spec => []SuccessMeansSaved
<1>1. Init => SavedInv
  BY DEF Init, SavedInv, SavedSteps
<1>2. StepInv /\ SavedInv /\ [Next]_vars => SavedInv'
  BY SavedStep
<1>3. SavedInv => SuccessMeansSaved
  BY DEF SavedInv, SuccessMeansSaved
<1> QED  BY <1>1, <1>2, <1>3, StepInvariant, PTL DEF Spec

-----------------------------------------------------------------------------
(***************************************************************************)
(* Clients that wait, on storages that answer: the conversation of a       *)
(* thread.  Without deletes and cancels, a thread has one user at a time,  *)
(* from the moment it is let in until it has marked the thread idle; what  *)
(* it has read is the newest state until it writes the next.               *)
(***************************************************************************)
OneAtATime == Serial /\ FaultyStores = {} /\ Cancellers = {} /\ MaxDeletes = 0

BusySteps   == {"read", "running", "open", "agent", "addState", "values", "reread", "idle",
                "interruptRun"}
ReadSteps   == {"running", "open", "agent", "addState"}
UnsavedSteps == {"start", "ensure", "createThread", "create", "busy", "read"} \union ReadSteps

MarkedBusy(r) == pc[r] \in BusySteps \/ (pc[r] = "success" /\ Kind(r) = "background")
Uses(r, t)    == Thread(r) = t /\ t # NoThread /\ (pc[r] \in Unsettled \/ MarkedBusy(r))
Edits(e, t)   == edit[e].thread = t /\ edit[e].step \notin {"get", "done"}

(* The turn m is in no conversation.                                       *)
Unsaid(m) == \A t \in ThreadIds : \A i \in DOMAIN Latest(t) : Latest(t)[i] # m

OneUser(t) ==
    /\ \A q, r \in RunIds : Uses(q, t) /\ Uses(r, t) => q = r
    /\ \A d, e \in Editors : Edits(d, t) /\ Edits(e, t) => d = e
    /\ \A r \in RunIds, e \in Editors : ~(Uses(r, t) /\ Edits(e, t))

RunOK(r) ==
    /\ Stateful(r) =>
          /\ MarkedBusy(r) => threadStatus[Thread(r)] = "busy"
          /\ pc[r] = "createThread" => threadStatus[Thread(r)] = "absent"
          /\ pc[r] = "busy" \/ (pc[r] = "create" /\ Kind(r) = "background") =>
                 threadStatus[Thread(r)] # "absent"
          /\ pc[r] \in ReadSteps => base[r] = Latest(Thread(r))
          /\ pc[r] = "values" => Latest(Thread(r)) = Append(base[r], r)
    /\ pc[r] \in UnsavedSteps => Unsaid(r)
    /\ pc[r] = "recheck" => Kind(r) = "stream"

EditOK(e) ==
    LET t == edit[e].thread
    IN  /\ edit[e].step \notin {"get", "done"} => threadStatus[t] # "absent"
        /\ edit[e].step = "addState" => edit[e].base = Latest(t)
        /\ edit[e].step = "values" => Latest(t) = Append(edit[e].base, e)
        /\ edit[e].step \in {"get", "read", "addState"} => Unsaid(e)

ThreadOK(t) ==
    /\ threadStatus[t] = "absent" => history[t] = <<>>
    /\ ~WritesOpen(t) => threadValues[t] = Latest(t)
    /\ OneUser(t)

TurnsInv ==
    /\ OneAtATime /\ StepInv
    /\ \A r \in RunIds : RunOK(r)
    /\ \A e \in Editors : EditOK(e)
    /\ \A t \in ThreadIds : ThreadOK(t)

(* On these storages nothing throws.                                       *)
LEMMA NothingThrows == OneAtATime => \A store : ~Throws(store)
BY DEF OneAtATime, Throws

(* The newest state of a thread that has been left alone, or written to.   *)
LEMMA LatestKept ==
  ASSUME NEW t, history'[t] = history[t]
  PROVE  Latest(t)' = Latest(t)
BY DEF Latest

LEMMA LatestAdded ==
  ASSUME TypeOK, NEW t \in ThreadIds, NEW m \in Seq(Turns), AddState(t, m)
  PROVE  Latest(t)' = m /\ \A q \in ThreadIds \ {t} : history'[q] = history[q]
<1>1. history[t] \in Seq(Seq(Turns)) /\ history'[t] = Append(history[t], m)
      /\ \A q \in ThreadIds \ {t} : history'[q] = history[q]
  BY DEF TypeOK, AddState
<1>2. Len(history'[t]) = Len(history[t]) + 1 /\ history'[t] # <<>>
      /\ history'[t][Len(history[t]) + 1] = m
  <2> DEFINE S == Seq(Turns)
             old == history[t]
             new == history'[t]
  <2>1. old \in Seq(S) /\ new = Append(old, m) /\ m \in S  BY <1>1
  <2> HIDE DEF S, old, new
  <2>2. Len(new) = Len(old) + 1 /\ new # <<>> /\ new[Len(old) + 1] = m  BY <2>1
  <2> QED  BY <2>2 DEF old, new
<1> QED  BY <1>1, <1>2 DEF Latest

(* Turns are not said by leaving the threads alone, nor by saying another  *)
(* one after the newest state.                                             *)
LEMMA UnsaidKept ==
  ASSUME \A t \in ThreadIds : history'[t] = history[t]
  PROVE  \A m : Unsaid(m) => Unsaid(m)'
<1>1. \A t \in ThreadIds : Latest(t)' = Latest(t)  BY LatestKept
<1> QED  BY <1>1 DEF Unsaid

LEMMA UnsaidAdded ==
  ASSUME TypeOK, NEW t \in ThreadIds, NEW n \in Turns, AddState(t, Append(Latest(t), n))
  PROVE  \A m : m # n /\ Unsaid(m) => Unsaid(m)'
<1>1. Latest(t) \in Seq(Turns)  BY LatestType
<1>2. Append(Latest(t), n) \in Seq(Turns)  BY <1>1
<1>3. /\ Latest(t)' = Append(Latest(t), n)
      /\ \A q \in ThreadIds \ {t} : Latest(q)' = Latest(q)
  BY <1>2, LatestAdded, LatestKept
<1> SUFFICES ASSUME NEW m, m # n, Unsaid(m), NEW q \in ThreadIds, NEW i \in DOMAIN Latest(q)'
             PROVE  Latest(q)'[i] # m
  BY DEF Unsaid
<1>4. CASE q = t
  <2> DEFINE old == Latest(t)
             new == Latest(t)'
  <2>1. old \in Seq(Turns) /\ new = Append(old, n) /\ i \in DOMAIN new  BY <1>1, <1>3, <1>4
  <2>2. \A j \in DOMAIN old : old[j] # m  BY DEF Unsaid
  <2> HIDE DEF old, new
  <2>3. i \in DOMAIN old \/ i = Len(old) + 1  BY <2>1
  <2>4. new[i] # m  BY <2>1, <2>2, <2>3
  <2> QED  BY <1>4, <2>4 DEF new
<1>5. CASE q # t  BY <1>3, <1>5 DEF Unsaid
<1> QED  BY <1>4, <1>5

(* A run that moves changes no thread but the one it uses: all others, and *)
(* what else there is, stay as they are.                                   *)
LEMMA RunFrame ==
  ASSUME TurnsInv, NEW r \in RunIds, NEW p, pc' = [pc EXCEPT ![r] = p], req' = req, edit' = edit,
         \A q \in RunIds \ {r} : base'[q] = base[q],
         \A t \in ThreadIds : ~Uses(r, t) =>
             /\ threadStatus'[t] = threadStatus[t] /\ threadValues'[t] = threadValues[t]
             /\ history'[t] = history[t],
         \A m : m # r /\ Unsaid(m) => Unsaid(m)',
         \A t \in ThreadIds : Uses(r, t)' => Uses(r, t) \/ (Thread(r) = t /\ ThreadFree(t))
  PROVE  /\ \A q \in RunIds \ {r} : RunOK(q)'
         /\ \A e \in Editors : EditOK(e)'
         /\ \A t \in ThreadIds : OneUser(t)'
         /\ \A t \in ThreadIds : t # Thread(r) => ThreadOK(t)'
<1>0. /\ pc'[r] = p /\ \A q \in RunIds \ {r} : pc'[q] = pc[q]
      /\ \A q \in RunIds : Thread(q)' = Thread(q) /\ Kind(q)' = Kind(q) /\ Stateful(q)' = Stateful(q)
      /\ TypeOK
  BY DEF TurnsInv, StepInv, TypeOK, Thread, Kind, Stateful
<1>1. ASSUME NEW q \in RunIds \ {r}
      PROVE  MarkedBusy(q)' = MarkedBusy(q) /\ \A t : Uses(q, t)' = Uses(q, t)
  BY <1>0, <1>1 DEF MarkedBusy, Uses
<1>2. \A e \in Editors : \A t : Edits(e, t)' = Edits(e, t)  BY DEF Edits
<1>3. ASSUME NEW q \in RunIds \ {r} PROVE RunOK(q)'
  <2>1. q # r /\ RunOK(q)  BY DEF TurnsInv
  <2>2. pc'[q] \in UnsavedSteps => Unsaid(q)'  BY <1>0, <2>1 DEF RunOK
  <2>3. CASE ~Stateful(q)  BY <1>0, <2>1, <2>2, <2>3 DEF RunOK
  <2>4. CASE Stateful(q)
    <3>1. PICK t \in ThreadIds : t = Thread(q) /\ t # NoThread
      BY <1>0, <2>4 DEF Stateful, Thread, TypeOK, Requests
    <3>2. CASE Uses(q, t)
      <4>1. ~Uses(r, t)  BY <3>1, <3>2 DEF TurnsInv, ThreadOK, OneUser
      <4>2. threadStatus'[t] = threadStatus[t] /\ Latest(t)' = Latest(t)
        BY <3>1, <4>1, LatestKept
      <4> QED  BY <1>0, <1>1, <2>1, <2>2, <2>4, <3>1, <4>2 DEF RunOK
    <3>3. CASE ~Uses(q, t)
      <4>1. pc[q] \notin Unsettled /\ ~MarkedBusy(q)  BY <3>1, <3>3 DEF Uses
      <4> QED
        BY <1>0, <1>1, <2>1, <2>2, <4>1
        DEF RunOK, Unsettled, MarkedBusy, BusySteps, ReadSteps
    <3> QED  BY <3>2, <3>3
  <2> QED  BY <2>3, <2>4
<1>4. ASSUME NEW e \in Editors PROVE EditOK(e)'
  <2> DEFINE t == edit[e].thread
  <2>1. e # r /\ EditOK(e) /\ t \in ThreadIds
    BY <1>0, TurnsAssumption DEF TurnsInv, TypeOK
  <2>2. edit[e].step \in {"get", "read", "addState"} => Unsaid(e)'  BY <2>1 DEF EditOK
  <2>3. CASE Edits(e, t)
    <3>1. ~Uses(r, t)  BY <2>1, <2>3 DEF TurnsInv, ThreadOK, OneUser
    <3>2. threadStatus'[t] = threadStatus[t] /\ Latest(t)' = Latest(t)
      BY <2>1, <3>1, LatestKept
    <3> QED  BY <2>1, <2>2, <3>2 DEF EditOK
  <2>4. CASE ~Edits(e, t)  BY <2>2, <2>4 DEF EditOK, Edits
  <2> QED  BY <2>3, <2>4
<1>5. ASSUME NEW t \in ThreadIds PROVE OneUser(t)'
  <2>1. OneUser(t)  BY DEF TurnsInv, ThreadOK
  <2>2. CASE Uses(r, t)' /\ ~Uses(r, t)
    <3>1. ThreadFree(t) /\ Thread(r) = t  BY <2>2
    <3>2. \A q \in RunIds \ {r} : ~Uses(q, t)
      <4> SUFFICES ASSUME NEW q \in RunIds \ {r}, Uses(q, t) PROVE FALSE  OBVIOUS
      <4>1. Thread(q) = t /\ Stateful(q)  BY DEF Uses, Stateful
      <4>2. MarkedBusy(q)  BY <3>1, <4>1 DEF Uses, ThreadFree
      <4> QED  BY <3>1, <4>1, <4>2 DEF ThreadFree, TurnsInv, RunOK
    <3>3. \A e \in Editors : ~Edits(e, t)  BY <3>1 DEF ThreadFree, Edits
    <3> QED  BY <1>1, <1>2, <2>1, <3>2, <3>3 DEF OneUser
  <2>3. CASE Uses(r, t)' => Uses(r, t)  BY <1>1, <1>2, <2>1, <2>3 DEF OneUser
  <2> QED  BY <2>2, <2>3
<1>6. ASSUME NEW t \in ThreadIds, t # Thread(r) PROVE ThreadOK(t)'
  <2>1. ~Uses(r, t)  BY <1>6 DEF Uses
  <2>2. /\ threadStatus'[t] = threadStatus[t] /\ threadValues'[t] = threadValues[t]
        /\ history'[t] = history[t] /\ Latest(t)' = Latest(t)
    BY <2>1, LatestKept
  <2>3. WritesOpen(t)' = WritesOpen(t)  BY <1>0, <1>6 DEF WritesOpen
  <2> QED  BY <1>5, <2>2, <2>3 DEF TurnsInv, ThreadOK
<1> QED  BY <1>3, <1>4, <1>5, <1>6

(* What is left to show of a step of r that makes no call on its thread.   *)
LEMMA PlainKept ==
  ASSUME TurnsInv, NEW r \in RunIds, NEW p, pc' = [pc EXCEPT ![r] = p],
         UNCHANGED <<req, edit, base, threadStatus, threadValues, history>>,
         Stateful(r) =>
            /\ p \in Unsettled => pc[r] \in Unsettled \/ MarkedBusy(r) \/ ThreadFree(Thread(r))
            /\ p \in BusySteps \/ (p = "success" /\ Kind(r) = "background") => MarkedBusy(r)
            /\ p \in ReadSteps => pc[r] \in ReadSteps
            /\ p = "createThread" => threadStatus[Thread(r)] = "absent"
            /\ p = "busy" \/ (p = "create" /\ Kind(r) = "background") =>
                   threadStatus[Thread(r)] # "absent",
         p \in UnsavedSteps => pc[r] \in UnsavedSteps,
         p = "recheck" => Kind(r) = "stream",
         p # "values" /\ pc[r] # "values"
  PROVE  /\ \A q \in RunIds : RunOK(q)'
         /\ \A e \in Editors : EditOK(e)'
         /\ \A t \in ThreadIds : ThreadOK(t)'
<1>0. /\ pc'[r] = p /\ \A q \in RunIds \ {r} : pc'[q] = pc[q]
      /\ \A q \in RunIds : Thread(q)' = Thread(q) /\ Kind(q)' = Kind(q) /\ Stateful(q)' = Stateful(q)
  BY DEF TurnsInv, StepInv, TypeOK, Thread, Kind, Stateful
<1>1. \A m : Unsaid(m) => Unsaid(m)'  BY UnsaidKept
<1>2. \A t : Latest(t)' = Latest(t)  BY LatestKept
<1>3. \A t \in ThreadIds : Uses(r, t)' => Uses(r, t) \/ (Thread(r) = t /\ ThreadFree(t))
  BY <1>0 DEF Uses, MarkedBusy, Stateful
<1>4. /\ \A q \in RunIds \ {r} : RunOK(q)'
      /\ \A e \in Editors : EditOK(e)'
      /\ \A t \in ThreadIds : OneUser(t)'
  BY <1>1, <1>3, RunFrame
<1>5. RunOK(r)'
  <2>1. RunOK(r)  BY DEF TurnsInv
  <2>2. Stateful(r) /\ MarkedBusy(r)' => MarkedBusy(r)  BY <1>0 DEF MarkedBusy
  <2> QED  BY <1>0, <1>1, <1>2, <2>1, <2>2 DEF RunOK
<1>6. ASSUME NEW t \in ThreadIds PROVE ThreadOK(t)'
  <2>1. WritesOpen(t)' = WritesOpen(t)  BY <1>0 DEF WritesOpen
  <2> QED  BY <1>2, <1>4, <2>1 DEF TurnsInv, ThreadOK
<1> QED  BY <1>4, <1>5, <1>6

(* Every step of a run keeps the invariant.                                *)
LEMMA RunKept ==
  ASSUME TurnsInv, NEW r \in RunIds, Start(r) \/ Execute(r)
  PROVE  /\ \A q \in RunIds : RunOK(q)'
         /\ \A e \in Editors : EditOK(e)'
         /\ \A t \in ThreadIds : ThreadOK(t)'
<1> USE DEF Move, Goto, threadVars
<1>0. TypeOK /\ StatefulSteps /\ RunOK(r) /\ Serial /\ \A store : ~Throws(store)
  BY NothingThrows DEF TurnsInv, StepInv, OneAtATime
<1>k. Kind(r) \in {"background", "wait", "stream"}
  BY <1>0, KindsAssumption DEF TypeOK, Requests, Kind, AllKinds
<1>s. Stateful(r) => Thread(r) \in ThreadIds /\ Thread(r) # NoThread
  BY <1>0 DEF TypeOK, Requests, Stateful, Thread
<1>1. CASE Start(r)
  BY <1>0, <1>1, PlainKept
  DEF Start, AfterStart, Unsettled, BusySteps, ReadSteps, UnsavedSteps
<1>2. CASE EnsureThread(r)
  BY <1>0, <1>2, <1>k, PlainKept
  DEF EnsureThread, AfterEnsure, ThrowEarly, Unsettled, BusySteps, ReadSteps, UnsavedSteps
<1>3. CASE RejectAssistant(r)
  BY <1>0, <1>3, PlainKept DEF RejectAssistant, Unsettled, BusySteps, ReadSteps, UnsavedSteps
<1>4. CASE CreateRun(r)
  BY <1>0, <1>4, <1>k, PlainKept
  DEF CreateRun, AfterCreate, RunOK, Unsettled, BusySteps, ReadSteps, UnsavedSteps
<1>5. CASE ComposeFails(r) \/ AgentFails(r)
  BY <1>0, <1>5, PlainKept
  DEF ComposeFails, AgentFails, ThrowStep, MarkedBusy, Unsettled, BusySteps, ReadSteps, UnsavedSteps
<1>6. CASE MarkRunning(r) \/ OpenStream(r)
  BY <1>0, <1>6, <1>k, PlainKept
  DEF MarkRunning, OpenStream, AfterRunning, MarkedBusy, Unsettled, BusySteps, ReadSteps, UnsavedSteps
<1>7. CASE AgentReplies(r)
  BY <1>0, <1>7, <1>k, PlainKept
  DEF AgentReplies, AfterAgent, MarkedBusy, Unsettled, BusySteps, ReadSteps, UnsavedSteps
<1>8. CASE MarkSuccess(r)
  <2>1. pc[r] = "success" /\ Move(r, AfterSuccess(r))  BY <1>0, <1>8 DEF MarkSuccess
  <2>2. /\ AfterSuccess(r) \in {"close", "done", "idle", "finalRead"}
        /\ AfterSuccess(r) = "idle" => Kind(r) = "background"
    BY <1>k DEF AfterSuccess
  <2> QED
    BY <1>8, <2>1, <2>2, PlainKept
    DEF MarkSuccess, MarkedBusy, Unsettled, BusySteps, ReadSteps, UnsavedSteps
<1>9. CASE Reread(r) \/ CheckCancelled(r)
  BY <1>0, <1>9, PlainKept
  DEF Reread, CheckCancelled, FailSaved, RunOK, MarkedBusy, Unsettled, BusySteps, ReadSteps, UnsavedSteps
<1>10. CASE FinalRead(r) \/ CloseStream(r)
  BY <1>0, <1>10, PlainKept
  DEF FinalRead, CloseStream, Unsettled, BusySteps, ReadSteps, UnsavedSteps
<1>11. CASE MarkFailed(r)
  BY <1>0, <1>11, PlainKept
  DEF MarkFailed, AfterErrorRun, AfterErrorIdle, MarkedBusy, Unsettled, BusySteps, ReadSteps, UnsavedSteps
(* The calls on the thread, each with what it leaves of r and its thread.  *)
<1> DEFINE Call(t, p) ==
             /\ t = Thread(r) /\ Stateful(r) /\ t # NoThread /\ Uses(r, t)
             /\ pc' = [pc EXCEPT ![r] = p] /\ req' = req /\ edit' = edit
             /\ \A q \in RunIds \ {r} : base'[q] = base[q]
             /\ \A q \in ThreadIds : q # t =>
                   /\ threadStatus'[q] = threadStatus[q] /\ threadValues'[q] = threadValues[q]
                   /\ history'[q] = history[q]
           Left(t) == /\ RunOK(r)'
                      /\ threadStatus'[t] = "absent" => history'[t] = <<>>
                      /\ ~WritesOpen(t)' => threadValues'[t] = Latest(t)'
<1>12. ASSUME NEW t \in ThreadIds, NEW p, Call(t, p), Left(t),
              \A m : m # r /\ Unsaid(m) => Unsaid(m)'
       PROVE  /\ \A q \in RunIds : RunOK(q)'
              /\ \A e \in Editors : EditOK(e)'
              /\ \A q \in ThreadIds : ThreadOK(q)'
  <2>1. \A q \in ThreadIds : Uses(r, q) <=> q = t  BY <1>12 DEF Uses
  <2>2. \A q \in ThreadIds : Uses(r, q)' => q = t  BY <1>12 DEF Uses, Thread
  <2>3. /\ \A q \in RunIds \ {r} : RunOK(q)'
        /\ \A e \in Editors : EditOK(e)'
        /\ \A q \in ThreadIds : OneUser(q)'
        /\ \A q \in ThreadIds : q # t => ThreadOK(q)'
    BY <1>12, <2>1, <2>2, RunFrame
  <2> QED  BY <1>12, <2>3 DEF ThreadOK
<1>t. ASSUME Stateful(r)
      PROVE  \E t \in ThreadIds : /\ t = Thread(r) /\ t # NoThread /\ ThreadOK(t)
                                  /\ Thread(r)' = t \/ req' # req
  BY <1>t, <1>s DEF TurnsInv, Thread
<1>13. CASE ReadState(r)
  <2>1. pc[r] = "read" /\ Stateful(r)  BY <1>0, <1>13 DEF ReadState, StatefulSteps, ThreadSteps
  <2>2. PICK t \in ThreadIds : t = Thread(r) /\ t # NoThread /\ ThreadOK(t)  BY <1>t, <2>1
  <2>3. /\ pc' = [pc EXCEPT ![r] = "running"] /\ pc'[r] = "running"
        /\ base' = [base EXCEPT ![r] = Latest(t)] /\ base'[r] = Latest(t)
        /\ UNCHANGED <<req, edit, threadStatus, threadValues, history>>
    BY <1>0, <1>13, <2>2 DEF ReadState, TypeOK
  <2>4. Latest(t)' = Latest(t) /\ (\A m : Unsaid(m) => Unsaid(m)')  BY <2>3, LatestKept, UnsaidKept
  <2>5. Call(t, "running")  BY <2>1, <2>2, <2>3 DEF Uses, MarkedBusy, BusySteps
  <2>6. RunOK(r)'
    BY <1>0, <2>1, <2>2, <2>3, <2>4
    DEF RunOK, Stateful, Thread, Kind, MarkedBusy, BusySteps, ReadSteps, UnsavedSteps
  <2>7. WritesOpen(t)' = WritesOpen(t)
    BY <2>1, <2>3 DEF WritesOpen, Thread, TurnsInv, StepInv, TypeOK
  <2>8. Left(t)  BY <2>2, <2>3, <2>4, <2>6, <2>7 DEF ThreadOK
  <2> HIDE DEF Call, Left
  <2> QED  BY <1>12, <2>4, <2>5, <2>8
<1>14. CASE MarkBusy(r)
  <2>1. pc[r] = "busy" /\ Stateful(r)  BY <1>0, <1>14 DEF MarkBusy, StatefulSteps, ThreadSteps
  <2>2. PICK t \in ThreadIds : t = Thread(r) /\ t # NoThread /\ ThreadOK(t)  BY <1>t, <2>1
  <2>3. threadStatus[t] # "absent"  BY <1>0, <2>1, <2>2 DEF RunOK
  <2>4. /\ pc' = [pc EXCEPT ![r] = "read"] /\ pc'[r] = "read"
        /\ threadStatus' = [threadStatus EXCEPT ![t] = "busy"] /\ threadStatus'[t] = "busy"
        /\ UNCHANGED <<req, edit, base, threadValues, history>>
    BY <1>0, <1>14, <2>2, <2>3 DEF MarkBusy, UpdateThread, TypeOK
  <2>5. Latest(t)' = Latest(t) /\ (\A m : Unsaid(m) => Unsaid(m)')  BY <2>4, LatestKept, UnsaidKept
  <2>6. Call(t, "read")  BY <1>0, <2>1, <2>2, <2>4 DEF Uses, Unsettled, TypeOK
  <2>7. RunOK(r)'
    BY <1>0, <2>1, <2>2, <2>4, <2>5
    DEF RunOK, Stateful, Thread, Kind, MarkedBusy, BusySteps, ReadSteps, UnsavedSteps
  <2>8. WritesOpen(t)' = WritesOpen(t)
    BY <2>1, <2>4 DEF WritesOpen, Thread, TurnsInv, StepInv, TypeOK
  <2>9. Left(t)  BY <2>2, <2>4, <2>5, <2>7, <2>8 DEF ThreadOK
  <2> HIDE DEF Call, Left
  <2> QED  BY <1>12, <2>5, <2>6, <2>9
<1>15. CASE ReleaseThread(r) \/ ReleaseFailed(r)
  <2>1. pc[r] \in {"idle", "errorIdle"} /\ Stateful(r)
    BY <1>0, <1>15 DEF ReleaseThread, ReleaseFailed, StatefulSteps, ThreadSteps
  <2>2. PICK t \in ThreadIds : t = Thread(r) /\ t # NoThread /\ ThreadOK(t)  BY <1>t, <2>1
  <2>3. PICK p : /\ pc' = [pc EXCEPT ![r] = p] /\ pc'[r] = p
                 /\ p \in {"done", "success", "recheck", "close"}
                 /\ p = "success" => Kind(r) = "wait"
                 /\ p = "recheck" => Kind(r) = "stream"
    <3>1. Move(r, AfterIdle(r)) \/ Move(r, AfterErrorIdle(r))
      BY <1>0, <1>15 DEF ReleaseThread, ReleaseFailed
    <3>2. /\ AfterIdle(r) \in {"done", "success", "recheck"}
          /\ AfterIdle(r) = "success" => Kind(r) = "wait"
          /\ AfterIdle(r) = "recheck" => Kind(r) = "stream"
      BY <1>k DEF AfterIdle
    <3>3. AfterErrorIdle(r) \in {"done", "close"}  BY DEF AfterErrorIdle
    <3> QED  BY <1>0, <3>1, <3>2, <3>3 DEF TypeOK
  <2>4. /\ threadStatus' = [threadStatus EXCEPT ![t] = IF @ = "absent" THEN @ ELSE "idle"]
        /\ UNCHANGED <<req, edit, base, threadValues, history>>
    BY <1>0, <1>15, <2>2 DEF ReleaseThread, ReleaseFailed, UpdateThread
  <2>5. threadStatus'[t] = "absent" => threadStatus[t] = "absent"  BY <1>0, <2>4 DEF TypeOK
  <2>6. Latest(t)' = Latest(t) /\ (\A m : Unsaid(m) => Unsaid(m)')  BY <2>4, LatestKept, UnsaidKept
  <2>7. Call(t, p)
    BY <1>0, <2>1, <2>2, <2>3, <2>4 DEF Uses, MarkedBusy, BusySteps, Unsettled, TypeOK
  <2>8. RunOK(r)'
    BY <2>3, <2>4 DEF RunOK, Kind, MarkedBusy, BusySteps, ReadSteps, UnsavedSteps
  <2>9. WritesOpen(t)' = WritesOpen(t)
    BY <2>1, <2>3, <2>4 DEF WritesOpen, Thread, TurnsInv, StepInv, TypeOK
  <2>10. Left(t)  BY <2>2, <2>4, <2>5, <2>6, <2>8, <2>9 DEF ThreadOK
  <2> HIDE DEF Call, Left
  <2> QED  BY <1>12, <2>6, <2>7, <2>10
<1>16. CASE CreateThread(r)
  <2>1. pc[r] = "createThread" /\ Stateful(r)
    BY <1>0, <1>16 DEF CreateThread, StatefulSteps, ThreadSteps
  <2>2. PICK t \in ThreadIds : t = Thread(r) /\ t # NoThread /\ ThreadOK(t)  BY <1>t, <2>1
  <2>3. history[t] = <<>>  BY <1>0, <2>1, <2>2 DEF RunOK, ThreadOK
  <2>4. /\ pc' = [pc EXCEPT ![r] = AfterEnsure(r)] /\ pc'[r] = AfterEnsure(r)
        /\ threadStatus' = [threadStatus EXCEPT ![t] = "idle"] /\ threadStatus'[t] = "idle"
        /\ threadValues' = [threadValues EXCEPT ![t] = <<>>] /\ threadValues'[t] = <<>>
        /\ UNCHANGED <<req, edit, base, history>>
    BY <1>0, <1>16, <2>2 DEF CreateThread, TypeOK
  <2>5. /\ Latest(t)' = Latest(t) /\ Latest(t) = <<>>
        /\ \A m : Unsaid(m) => Unsaid(m)'
    BY <2>3, <2>4, LatestKept, UnsaidKept DEF Latest
  <2>6. Call(t, AfterEnsure(r))  BY <1>0, <2>1, <2>2, <2>4 DEF Uses, Unsettled, TypeOK
  <2>7. AfterEnsure(r) \in {"create", "busy"}  BY DEF AfterEnsure
  <2>8. RunOK(r)'
    BY <1>0, <2>1, <2>2, <2>4, <2>5, <2>7
    DEF RunOK, Stateful, Thread, Kind, MarkedBusy, BusySteps, ReadSteps, UnsavedSteps
  <2>9. Left(t)  BY <2>4, <2>5, <2>8
  <2> HIDE DEF Call, Left
  <2> QED  BY <1>12, <2>5, <2>6, <2>9
<1>17. CASE SaveState(r)
  <2>1. pc[r] = "addState" /\ Stateful(r)  BY <1>0, <1>17 DEF SaveState, StatefulSteps, ThreadSteps
  <2>2. PICK t \in ThreadIds : t = Thread(r) /\ t # NoThread /\ ThreadOK(t)  BY <1>t, <2>1
  <2>3. /\ pc' = [pc EXCEPT ![r] = "values"] /\ pc'[r] = "values"
        /\ AddState(t, Append(base[r], r))
        /\ UNCHANGED <<req, edit, base, threadStatus, threadValues>>
    BY <1>0, <1>17, <2>2 DEF SaveState, TypeOK
  <2>4. base[r] = Latest(t) /\ threadStatus[t] = "busy"
    BY <1>0, <2>1, <2>2 DEF RunOK, ReadSteps, MarkedBusy, BusySteps
  <2>5. Append(base[r], r) \in Seq(Turns)  BY <1>0, SavedTypes
  <2>6. Latest(t)' = Append(base[r], r) /\ (\A q \in ThreadIds \ {t} : history'[q] = history[q])
    BY <1>0, <2>3, <2>5, LatestAdded
  <2>7. \A m : m # r /\ Unsaid(m) => Unsaid(m)'
    BY <1>0, <2>3, <2>4, UnsaidAdded DEF Turns
  <2>8. Call(t, "values")
    BY <1>0, <2>1, <2>2, <2>3, <2>6 DEF Uses, MarkedBusy, BusySteps
  <2>9. RunOK(r)'
    BY <1>0, <2>1, <2>2, <2>3, <2>4, <2>6
    DEF RunOK, Stateful, Thread, Kind, MarkedBusy, BusySteps, ReadSteps, UnsavedSteps
  <2>10. WritesOpen(t)'  BY <2>2, <2>3 DEF WritesOpen, Thread
  <2>11. Left(t)  BY <2>3, <2>4, <2>9, <2>10
  <2> HIDE DEF Call, Left
  <2> QED  BY <1>12, <2>7, <2>8, <2>11
<1>18. CASE SaveValues(r)
  <2>1. pc[r] = "values" /\ Stateful(r)  BY <1>0, <1>18 DEF SaveValues, StatefulSteps, ThreadSteps
  <2>2. PICK t \in ThreadIds : t = Thread(r) /\ t # NoThread /\ ThreadOK(t)  BY <1>t, <2>1
  <2>3. threadStatus[t] = "busy" /\ Latest(t) = Append(base[r], r)
    BY <1>0, <2>1, <2>2 DEF RunOK, MarkedBusy, BusySteps
  <2>4. /\ pc' = [pc EXCEPT ![r] = AfterValues(r)] /\ pc'[r] = AfterValues(r)
        /\ threadValues' = [threadValues EXCEPT ![t] = Append(base[r], r)]
        /\ threadValues'[t] = Append(base[r], r)
        /\ UNCHANGED <<req, edit, base, threadStatus, history>>
    BY <1>0, <1>18, <2>2, <2>3 DEF SaveValues, SetThreadValues, TypeOK
  <2>5. Latest(t)' = Latest(t) /\ (\A m : Unsaid(m) => Unsaid(m)')  BY <2>4, LatestKept, UnsaidKept
  <2>6. Call(t, AfterValues(r))
    BY <1>0, <2>1, <2>2, <2>4 DEF Uses, MarkedBusy, BusySteps, TypeOK
  <2>7. /\ AfterValues(r) \in {"success", "idle", "reread"}
        /\ AfterValues(r) = "success" => Kind(r) = "background"
    BY <1>k DEF AfterValues
  <2>8. RunOK(r)'
    BY <1>0, <2>1, <2>2, <2>3, <2>4, <2>5, <2>7
    DEF RunOK, Stateful, Thread, Kind, MarkedBusy, BusySteps, ReadSteps, UnsavedSteps
  <2>9. Left(t)  BY <2>2, <2>3, <2>4, <2>5, <2>8 DEF ThreadOK
  <2> HIDE DEF Call, Left
  <2> QED  BY <1>12, <2>5, <2>6, <2>9
<1> QED
  BY <1>1, <1>2, <1>3, <1>4, <1>5, <1>6, <1>7, <1>8, <1>9, <1>10, <1>11, <1>13, <1>14, <1>15, <1>16,
     <1>17, <1>18
  DEF Execute

(* So does every step of a POST /state request: what it does to its thread *)
(* concerns no run, and no other edit.                                     *)
LEMMA EditFrame ==
  ASSUME TurnsInv, NEW e \in Editors, NEW t \in ThreadIds, t = edit[e].thread,
         UNCHANGED <<req, pc, base, threadStatus>>,
         \A d \in Editors \ {e} : edit'[d] = edit[d],
         edit'[e].thread = t,
         \A q \in ThreadIds : q # t \/ ~Edits(e, t) =>
             threadValues'[q] = threadValues[q] /\ history'[q] = history[q],
         \A m : m # e /\ Unsaid(m) => Unsaid(m)',
         Edits(e, t)' => Edits(e, t) \/ ThreadFree(t)
  PROVE  /\ \A r \in RunIds : RunOK(r)'
         /\ \A d \in Editors \ {e} : EditOK(d)'
         /\ \A q \in ThreadIds : OneUser(q)'
         /\ \A q \in ThreadIds \ {t} : ThreadOK(q)'
<1>0. /\ \A q \in RunIds : Thread(q)' = Thread(q) /\ Kind(q)' = Kind(q) /\ Stateful(q)' = Stateful(q)
      /\ \A q \in RunIds : MarkedBusy(q)' = MarkedBusy(q) /\ \A u : Uses(q, u)' = Uses(q, u)
      /\ TypeOK
  BY DEF TurnsInv, StepInv, Thread, Kind, Stateful, MarkedBusy, Uses
<1>1. \A d \in Editors : \A q : ~(d = e /\ q = t) => Edits(d, q)' = Edits(d, q)  BY DEF Edits
<1>2. ASSUME NEW r \in RunIds PROVE RunOK(r)'
  <2>1. r # e /\ RunOK(r)  BY TurnsAssumption DEF TurnsInv
  <2>2. pc[r] \in UnsavedSteps => Unsaid(r)'  BY <2>1 DEF RunOK
  <2>3. CASE ~Stateful(r)  BY <1>0, <2>1, <2>2, <2>3 DEF RunOK
  <2>4. CASE Stateful(r)
    <3>1. PICK q \in ThreadIds : q = Thread(r) /\ q # NoThread
      BY <1>0, <2>4 DEF Stateful, Thread, TypeOK, Requests
    <3>2. CASE Uses(r, q)
      <4>1. ~(q = t /\ Edits(e, t))  BY <3>1, <3>2 DEF TurnsInv, ThreadOK, OneUser
      <4>2. Latest(q)' = Latest(q)  BY <3>1, <4>1, LatestKept
      <4> QED  BY <1>0, <2>1, <2>2, <3>1, <4>2 DEF RunOK
    <3>3. CASE ~Uses(r, q)
      <4>1. pc[r] \notin Unsettled /\ ~MarkedBusy(r)  BY <3>1, <3>3 DEF Uses
      <4> QED
        BY <1>0, <2>1, <2>2, <4>1 DEF RunOK, Unsettled, MarkedBusy, BusySteps, ReadSteps
    <3> QED  BY <3>2, <3>3
  <2> QED  BY <2>3, <2>4
<1>3. ASSUME NEW d \in Editors \ {e} PROVE EditOK(d)'
  <2>1. d # e /\ EditOK(d) /\ edit'[d] = edit[d]  BY DEF TurnsInv
  <2>2. PICK q \in ThreadIds : q = edit[d].thread  BY <1>0 DEF TypeOK
  <2>3. edit[d].step \in {"get", "read", "addState"} => Unsaid(d)'  BY <2>1 DEF EditOK
  <2>4. CASE Edits(d, q)
    <3>1. ~(q = t /\ Edits(e, t))  BY <2>1, <2>4 DEF TurnsInv, ThreadOK, OneUser
    <3>2. Latest(q)' = Latest(q)  BY <3>1, LatestKept
    <3> QED  BY <2>1, <2>2, <2>3, <3>2 DEF EditOK
  <2>5. CASE ~Edits(d, q)  BY <2>1, <2>2, <2>3, <2>5 DEF EditOK, Edits
  <2> QED  BY <2>4, <2>5
<1>4. ASSUME NEW q \in ThreadIds PROVE OneUser(q)'
  <2>1. OneUser(q)  BY DEF TurnsInv, ThreadOK
  <2>2. CASE q = t /\ Edits(e, t)' /\ ~Edits(e, t)
    <3>1. ThreadFree(t)  BY <2>2
    <3>2. \A r \in RunIds : ~Uses(r, t)
      <4> SUFFICES ASSUME NEW r \in RunIds, Uses(r, t) PROVE FALSE  OBVIOUS
      <4>1. Thread(r) = t /\ Stateful(r)  BY DEF Uses, Stateful
      <4>2. MarkedBusy(r)  BY <3>1, <4>1 DEF Uses, ThreadFree
      <4> QED  BY <3>1, <4>1, <4>2 DEF ThreadFree, TurnsInv, RunOK
    <3>3. \A d \in Editors : ~Edits(d, t)  BY <3>1 DEF ThreadFree, Edits
    <3> QED  BY <1>0, <1>1, <2>2, <3>2, <3>3 DEF OneUser
  <2>3. CASE ~(q = t /\ Edits(e, t)' /\ ~Edits(e, t))
    <3>1. \A d \in Editors : Edits(d, q)' => Edits(d, q)  BY <1>1, <2>3
    <3> QED  BY <1>0, <2>1, <3>1 DEF OneUser
  <2> QED  BY <2>2, <2>3
<1>5. ASSUME NEW q \in ThreadIds \ {t} PROVE ThreadOK(q)'
  <2>1. threadValues'[q] = threadValues[q] /\ history'[q] = history[q] /\ Latest(q)' = Latest(q)
    BY LatestKept
  <2>2. WritesOpen(q)' = WritesOpen(q)
    <3>1. \A d \in Editors : (edit'[d].thread = q /\ edit'[d].step = "values")
                                <=> (edit[d].thread = q /\ edit[d].step = "values")
      BY <1>5
    <3> QED  BY <1>0, <3>1 DEF WritesOpen
  <2> QED  BY <1>4, <2>1, <2>2 DEF TurnsInv, ThreadOK
<1> QED  BY <1>2, <1>3, <1>4, <1>5

LEMMA EditKept ==
  ASSUME TurnsInv, NEW e \in Editors, EditStep(e)
  PROVE  /\ \A q \in RunIds : RunOK(q)'
         /\ \A d \in Editors : EditOK(d)'
         /\ \A q \in ThreadIds : ThreadOK(q)'
<1> USE DEF EditGoto, threadVars, runVars
<1>0. TypeOK /\ EditOK(e) /\ Serial /\ \A store : ~Throws(store)
  BY NothingThrows DEF TurnsInv, StepInv, OneAtATime
<1>t. PICK t \in ThreadIds : t = edit[e].thread  BY <1>0 DEF TypeOK
<1>o. ThreadOK(t)  BY DEF TurnsInv
<1>w. ASSUME edit[e].step # "values", edit'[e].step # "values", pc' = pc, req' = req,
             edit'[e].thread = t, \A d \in Editors \ {e} : edit'[d] = edit[d]
      PROVE  WritesOpen(t)' = WritesOpen(t)
  BY <1>t, <1>w DEF WritesOpen, Thread
<1>1. CASE EditThread(e)
  <2>1. /\ edit[e].step = "get" /\ threadStatus[t] # "absent" /\ ThreadFree(t)
        /\ edit'[e].step = "read" /\ edit'[e].thread = t
        /\ \A d \in Editors \ {e} : edit'[d] = edit[d]
        /\ UNCHANGED <<req, pc, base, threadStatus, threadValues, history>>
    BY <1>0, <1>1, <1>t DEF EditThread, TypeOK
  <2>2. Latest(t)' = Latest(t) /\ (\A m : Unsaid(m) => Unsaid(m)')  BY <2>1, LatestKept, UnsaidKept
  <2>3. /\ \A r \in RunIds : RunOK(r)'
        /\ \A d \in Editors \ {e} : EditOK(d)'
        /\ \A q \in ThreadIds : OneUser(q)'
        /\ \A q \in ThreadIds \ {t} : ThreadOK(q)'
    BY <1>t, <2>1, <2>2, EditFrame
  <2>4. EditOK(e)'  BY <1>0, <2>1, <2>2 DEF EditOK
  <2>5. ThreadOK(t)'  BY <1>o, <1>w, <2>1, <2>2, <2>3 DEF ThreadOK
  <2> QED  BY <2>3, <2>4, <2>5
<1>2. CASE EditRead(e)
  <2>1. /\ edit[e].step = "read"
        /\ edit'[e].step = "addState" /\ edit'[e].thread = t /\ edit'[e].base = Latest(t)
        /\ \A d \in Editors \ {e} : edit'[d] = edit[d]
        /\ UNCHANGED <<req, pc, base, threadStatus, threadValues, history>>
    BY <1>0, <1>2, <1>t DEF EditRead, TypeOK
  <2>2. Latest(t)' = Latest(t) /\ (\A m : Unsaid(m) => Unsaid(m)')  BY <2>1, LatestKept, UnsaidKept
  <2>3. /\ \A r \in RunIds : RunOK(r)'
        /\ \A d \in Editors \ {e} : EditOK(d)'
        /\ \A q \in ThreadIds : OneUser(q)'
        /\ \A q \in ThreadIds \ {t} : ThreadOK(q)'
    <3>1. Edits(e, t)  BY <1>t, <2>1 DEF Edits
    <3> QED  BY <1>t, <2>1, <2>2, <3>1, EditFrame
  <2>4. EditOK(e)'  BY <1>0, <1>t, <2>1, <2>2 DEF EditOK
  <2>5. ThreadOK(t)'  BY <1>o, <1>w, <2>1, <2>2, <2>3 DEF ThreadOK
  <2> QED  BY <2>3, <2>4, <2>5
<1>3. CASE EditSaveState(e)
  <2>1. /\ edit[e].step = "addState"
        /\ edit'[e].step = "values" /\ edit'[e].thread = t /\ edit'[e].base = edit[e].base
        /\ \A d \in Editors \ {e} : edit'[d] = edit[d]
        /\ AddState(t, Append(edit[e].base, e))
        /\ UNCHANGED <<req, pc, base, threadStatus, threadValues>>
    BY <1>0, <1>3, <1>t DEF EditSaveState, TypeOK
  <2>2. edit[e].base = Latest(t) /\ threadStatus[t] # "absent"
    BY <1>0, <1>t, <2>1 DEF EditOK
  <2>3. Append(edit[e].base, e) \in Seq(Turns)  BY <1>0, SavedTypes
  <2>4. Latest(t)' = Append(edit[e].base, e) /\ \A q \in ThreadIds \ {t} : history'[q] = history[q]
    BY <1>0, <2>1, <2>3, LatestAdded
  <2>5. \A m : m # e /\ Unsaid(m) => Unsaid(m)'
    BY <1>0, <2>1, <2>2, UnsaidAdded DEF Turns
  <2>6. /\ \A r \in RunIds : RunOK(r)'
        /\ \A d \in Editors \ {e} : EditOK(d)'
        /\ \A q \in ThreadIds : OneUser(q)'
        /\ \A q \in ThreadIds \ {t} : ThreadOK(q)'
    <3>1. Edits(e, t)  BY <1>t, <2>1 DEF Edits
    <3> QED  BY <1>t, <2>1, <2>4, <2>5, <3>1, EditFrame
  <2>7. EditOK(e)'  BY <2>1, <2>2, <2>4 DEF EditOK
  <2>8. ThreadOK(t)'  BY <2>1, <2>2, <2>6 DEF ThreadOK, WritesOpen
  <2> QED  BY <2>6, <2>7, <2>8
<1>4. CASE EditSaveValues(e)
  <2>1. /\ edit[e].step = "values"
        /\ edit'[e].step = "done" /\ edit'[e].thread = t
        /\ \A d \in Editors \ {e} : edit'[d] = edit[d]
        /\ SetThreadValues(t, Append(edit[e].base, e))
        /\ UNCHANGED <<req, pc, base, threadStatus, history>>
    BY <1>0, <1>4, <1>t DEF EditSaveValues, TypeOK
  <2>2. Latest(t) = Append(edit[e].base, e) /\ threadStatus[t] # "absent"
    BY <1>0, <1>t, <2>1 DEF EditOK
  <2>3. Latest(t)' = Latest(t) /\ (\A m : Unsaid(m) => Unsaid(m)')  BY <2>1, LatestKept, UnsaidKept
  <2>4. /\ threadValues'[t] = Latest(t)
        /\ \A q \in ThreadIds \ {t} : threadValues'[q] = threadValues[q]
    BY <1>0, <2>1, <2>2 DEF SetThreadValues, TypeOK
  <2>5. /\ \A r \in RunIds : RunOK(r)'
        /\ \A d \in Editors \ {e} : EditOK(d)'
        /\ \A q \in ThreadIds : OneUser(q)'
        /\ \A q \in ThreadIds \ {t} : ThreadOK(q)'
    <3>1. Edits(e, t)  BY <1>t, <2>1 DEF Edits
    <3> QED  BY <1>t, <2>1, <2>3, <2>4, <3>1, EditFrame
  <2>6. EditOK(e)'  BY <2>1 DEF EditOK
  <2>7. ThreadOK(t)'  BY <1>o, <2>1, <2>3, <2>4, <2>5 DEF ThreadOK
  <2> QED  BY <2>5, <2>6, <2>7
<1> QED  BY <1>1, <1>2, <1>3, <1>4 DEF EditStep

(* Nothing else happens on these storages.                                 *)
LEMMA OnlyRunsAndEdits ==
  ASSUME TurnsInv, Next
  PROVE  \/ \E r \in RunIds : Start(r) \/ Execute(r) \/ JoinerLeaves(r)
         \/ \E e \in Editors : EditStep(e)
<1>1. deletes \in Nat /\ Cancellers = {} /\ MaxDeletes = 0
  BY DEF TurnsInv, StepInv, TypeOK, OneAtATime
<1>2. (\A r \in RunIds : ~DeleteRun(r)) /\ (\A t \in ThreadIds : ~DeleteThread(t))
  BY <1>1 DEF DeleteRun, DeleteThread
<1> QED  BY <1>1, <1>2 DEF Next

LEMMA TurnsInitially == Init /\ OneAtATime => TurnsInv
<1> SUFFICES ASSUME Init, OneAtATime PROVE TurnsInv  OBVIOUS
<1>1. StepInv  BY StepInit
<1>2. \A t \in ThreadIds : history[t] = <<>> /\ Latest(t) = <<>> /\ threadValues[t] = <<>>
  BY DEF Init, Latest
<1>3. \A m : Unsaid(m)
  <2>1. DOMAIN << >> = {}  OBVIOUS
  <2> QED  BY <1>2, <2>1 DEF Unsaid
<1>4. \A r \in RunIds : pc[r] = "start" /\ ~MarkedBusy(r) /\ pc[r] \notin Unsettled
  BY DEF Init, MarkedBusy, BusySteps, Unsettled
<1>5. \A e \in Editors : edit[e].step = "get"  BY DEF Init
<1>6. \A r \in RunIds : RunOK(r)  BY <1>3, <1>4 DEF RunOK, ReadSteps
<1>7. \A e \in Editors : EditOK(e)  BY <1>3, <1>5 DEF EditOK
<1>8. \A t \in ThreadIds : ThreadOK(t)
  BY <1>2, <1>4, <1>5 DEF ThreadOK, OneUser, Uses, Edits
<1> QED  BY <1>1, <1>6, <1>7, <1>8 DEF TurnsInv

LEMMA TurnsKept == TurnsInv /\ [Next]_vars => TurnsInv'
<1> SUFFICES ASSUME TurnsInv, [Next]_vars PROVE TurnsInv'  OBVIOUS
<1>1. StepInv' /\ OneAtATime  BY StepStep DEF TurnsInv
<1>2. ASSUME UNCHANGED <<req, pc, base, threadStatus, threadValues, history, edit>>
      PROVE  /\ \A r \in RunIds : RunOK(r)'
             /\ \A e \in Editors : EditOK(e)'
             /\ \A t \in ThreadIds : ThreadOK(t)'
  <2>1. \A r \in RunIds : RunOK(r)'
    BY <1>2 DEF TurnsInv, RunOK, Stateful, Thread, Kind, MarkedBusy, Latest, Unsaid
  <2>2. \A e \in Editors : EditOK(e)'  BY <1>2 DEF TurnsInv, EditOK, Latest, Unsaid
  <2>3. \A t \in ThreadIds : ThreadOK(t)'
    BY <1>2 DEF TurnsInv, ThreadOK, OneUser, Uses, Edits, MarkedBusy, Thread, Kind, WritesOpen, Latest
  <2> QED  BY <2>1, <2>2, <2>3
<1>3. CASE UNCHANGED vars
  BY <1>1, <1>2, <1>3 DEF TurnsInv, vars, runVars, threadVars
<1>4. ASSUME NEW r \in RunIds, JoinerLeaves(r) PROVE TurnsInv'
  BY <1>1, <1>2, <1>4 DEF TurnsInv, JoinerLeaves, threadVars
<1>5. ASSUME NEW r \in RunIds, Start(r) \/ Execute(r) PROVE TurnsInv'
  BY <1>1, <1>5, RunKept DEF TurnsInv
<1>6. ASSUME NEW e \in Editors, EditStep(e) PROVE TurnsInv'
  BY <1>1, <1>6, EditKept DEF TurnsInv
<1> QED  BY <1>3, <1>4, <1>5, <1>6, OnlyRunsAndEdits

(* One user of a thread at a time, and what it has read is the newest      *)
(* state until it writes the next: for clients that wait, on storages that *)
(* answer.                                                                 *)
THEOREM TurnsInvariant == OneAtATime => (Spec => []TurnsInv)
<1>1. Spec /\ OneAtATime => []TurnsInv
  BY TurnsInitially, TurnsKept, PTL DEF Spec
<1> QED  BY <1>1

(* With clients that wait, the thread record and the newest state tell the *)
(* same conversation whenever no write is open, for any number of runs,    *)
(* threads and edits (updateThreadState, updateState).                     *)
THEOREM ValuesMatchHistoryCorrect == OneAtATime => (Spec => []ValuesMatchHistory)
<1>1. TurnsInv => ValuesMatchHistory  BY DEF TurnsInv, ThreadOK, ValuesMatchHistory
<1>2. Spec /\ OneAtATime => []ValuesMatchHistory  BY <1>1, TurnsInvariant, PTL
<1> QED  BY <1>2

(* A step leaves every history as it is, or adds one turn that was not     *)
(* said before, after all that were.                                       *)
LEMMA TurnAdded ==
  ASSUME TurnsInv, Next
  PROVE  \/ history' = history
         \/ \E t \in ThreadIds, n \in Turns : Unsaid(n) /\ AddState(t, Append(Latest(t), n))
<1> USE DEF threadVars
<1>0. TypeOK /\ StatefulSteps  BY DEF TurnsInv, StepInv
<1>1. ASSUME NEW r \in RunIds, SaveState(r), history' # history
      PROVE  \E t \in ThreadIds : Unsaid(r) /\ AddState(t, Append(Latest(t), r))
  <2>1. pc[r] = "addState" /\ Stateful(r) /\ AddState(Thread(r), Append(base[r], r)) /\ RunOK(r)
    BY <1>0, <1>1 DEF SaveState, StatefulSteps, ThreadSteps, TurnsInv
  <2>2. Thread(r) \in ThreadIds  BY <1>0, <2>1 DEF TypeOK, Requests, Stateful, Thread
  <2> QED  BY <2>1, <2>2 DEF RunOK, ReadSteps, UnsavedSteps
<1>2. ASSUME NEW e \in Editors, EditSaveState(e), history' # history
      PROVE  \E t \in ThreadIds : Unsaid(e) /\ AddState(t, Append(Latest(t), e))
  <2>1. /\ edit[e].step = "addState" /\ AddState(edit[e].thread, Append(edit[e].base, e))
        /\ EditOK(e) /\ edit[e].thread \in ThreadIds
    BY <1>0, <1>2 DEF EditSaveState, TurnsInv, TypeOK
  <2> QED  BY <2>1 DEF EditOK
<1>3. ASSUME NEW r \in RunIds, Start(r) \/ Execute(r) \/ JoinerLeaves(r), ~SaveState(r)
      PROVE  history' = history
  BY <1>3 DEF Start, Execute, JoinerLeaves, EnsureThread, CreateThread, RejectAssistant, CreateRun,
     MarkBusy, ReadState, ComposeFails, MarkRunning, OpenStream, AgentReplies, AgentFails, SaveValues,
     MarkSuccess, ReleaseThread, Reread, CheckCancelled, FinalRead, CloseStream, MarkFailed,
     ReleaseFailed
<1>4. ASSUME NEW e \in Editors, EditStep(e), ~EditSaveState(e)
      PROVE  history' = history
  BY <1>4 DEF EditStep, EditThread, EditRead, EditSaveValues
<1>5. RunIds \subseteq Turns /\ Editors \subseteq Turns  BY DEF Turns
<1> QED  BY <1>1, <1>2, <1>3, <1>4, <1>5, OnlyRunsAndEdits

(* With clients that wait, the states of a thread implement the abstract   *)
(* conversation: writing a state commits one new turn after all the turns  *)
(* before it, and every other step changes no conversation.                *)
THEOREM ConversationLogImplemented == OneAtATime => (Spec => ImplementsLog)
<1> DEFINE logs == [t \in ThreadIds |-> Latest(t)]
<1>1. Init => Log!Init
  BY DEF Init, Log!Init, Latest
<1>2. ASSUME TurnsInv, [Next]_vars PROVE [Log!Next]_logs
  <2>0. TypeOK  BY <1>2 DEF TurnsInv, StepInv
  <2>1. CASE history' = history
    BY <2>1, LatestKept
  <2>2. ASSUME NEW t \in ThreadIds, NEW n \in Turns, Unsaid(n),
               AddState(t, Append(Latest(t), n))
        PROVE  Log!Next
    <3>1. Append(Latest(t), n) \in Seq(Turns)
      <4>1. Latest(t) \in Seq(Turns)  BY <2>0, LatestType
      <4> QED  BY <4>1
    <3>2. /\ Latest(t)' = Append(Latest(t), n)
          /\ \A q \in ThreadIds \ {t} : Latest(q)' = Latest(q)
      BY <2>0, <2>2, <3>1, LatestAdded, LatestKept
    <3>3. logs' = [logs EXCEPT ![t] = Append(@, n)]  BY <3>2
    <3>4. ~Log!Committed(n)  BY <2>2 DEF Log!Committed, Unsaid
    <3>5. Log!Commit(t, n)  BY <3>3, <3>4 DEF Log!Commit
    <3> QED  BY <3>5 DEF Log!Next
  <2>3. CASE UNCHANGED vars  BY <2>1, <2>3 DEF vars, threadVars
  <2> QED  BY <1>2, <2>1, <2>2, <2>3, TurnAdded
<1>3. Spec /\ OneAtATime => ImplementsLog
  BY <1>1, <1>2, TurnsInvariant, PTL DEF Spec, ImplementsLog, Log!Spec
<1> QED  BY <1>3
=============================================================================
