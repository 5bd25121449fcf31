---------------------------- MODULE RunLifecycle ----------------------------
(***************************************************************************)
(* The life of a run in src/src/modules/runs/runs.service.ts: the three    *)
(* ways a run executes (background, /runs/wait, /runs/stream), on a thread *)
(* or stateless, against the cancel, delete and POST /state requests that  *)
(* reach the same records.                                                 *)
(*                                                                         *)
(* Every `await` on a storage call is a step of its own: the call takes    *)
(* effect atomically at the store and anything else may run before the     *)
(* code continues.  A run is a small process whose `pc` names the storage  *)
(* call (or the agent call) it is about to make.  A step that the store    *)
(* rejects throws; the model charges it to the budget MaxFaults.           *)
(***************************************************************************)
EXTENDS Naturals, Sequences

CONSTANTS
    RunIds,         \* the requests that create a run
    ThreadIds,      \* thread ids the requests may name
    NoThread,       \* threadId = null: a stateless run
    Kinds,          \* how runs execute: subset of AllKinds
    IfNotExists,    \* values of the body's if_not_exists: subset of {"create", "reject"}
    Cancellers,     \* POST .../cancel and POST /runs/cancel requests
    Editors,        \* POST /threads/:id/state requests
    Serial,         \* TRUE: clients use a thread only while it is not busy
    FaultyStores,   \* storages whose calls may throw: subset of {"runs", "threads"}
    MaxFaults,      \* bound on the storage calls that throw
    MaxDeletes      \* bound on the DELETE requests for runs and threads

AllKinds == {"background", "wait", "stream"}

ASSUME KindsAssumption == Kinds \subseteq AllKinds
ASSUME IfNotExistsAssumption == IfNotExists \subseteq {"create", "reject"}
ASSUME SerialAssumption == Serial \in BOOLEAN
ASSUME FaultsAssumption == FaultyStores \subseteq {"runs", "threads"} /\ MaxFaults \in Nat
ASSUME DeletesAssumption == MaxDeletes \in Nat
ASSUME NoThreadAssumption == NoThread \notin ThreadIds
ASSUME TurnsAssumption == RunIds \intersect Editors = {}

VARIABLES
    req,            \* req[r]: what request r asks for; never changes
    pc,             \* pc[r]: the call run r makes next
    base,           \* base[r]: the messages of the state run r read
    live,           \* runs whose SSE session is open
    aborted,        \* runs whose AbortController fired
    retrying,       \* stream runs inside the catch of a saved turn
    runStatus,      \* the runs storage
    threadStatus,   \* the threads storage: `status` of each thread
    threadValues,   \* ... and `values.messages` of each thread
    history,        \* ... and the states added to each thread, oldest first
    cancel,         \* cancel[c]: a cancel request in progress
    edit,           \* edit[e]: a POST /state request in progress
    faults, deletes

runVars    == <<pc, base, live, aborted, retrying>>
threadVars == <<threadStatus, threadValues, history>>
vars == <<req, runVars, runStatus, threadVars, cancel, edit, faults, deletes>>

Requests == [kind : Kinds, thread : ThreadIds \union {NoThread}, ifNotExists : IfNotExists]

(* A turn is what one run (or one POST /state) appends to `messages`: the  *)
(* input messages followed by the reply.                                   *)
Turns == RunIds \union Editors

RunSteps == {"start", "ensure", "createThread", "create", "busy", "read", "running",
             "open", "agent", "addState", "values", "reread", "idle", "recheck", "success",
             "finalRead", "errorRun", "interruptRun", "errorIdle", "close", "abandonClose",
             "done", "rejected", "abandoned"}
RunStatuses    == {"absent", "pending", "running", "success", "error", "interrupted"}
ThreadStatuses == {"absent", "idle", "busy"}

CancelSteps == {"read", "interrupt", "release", "abort", "done"}
EditSteps   == {"get", "read", "addState", "values", "done"}

Kind(r)       == req[r].kind
Thread(r)     == req[r].thread
Stateful(r)   == Thread(r) # NoThread

(* getState: the last state added, the empty conversation when none is.    *)
Latest(t) == IF history[t] = <<>> THEN <<>> ELSE history[t][Len(history[t])]

-----------------------------------------------------------------------------
Init ==
    /\ req \in [RunIds -> Requests]
    /\ pc = [r \in RunIds |-> "start"]
    /\ base = [r \in RunIds |-> <<>>]
    /\ live = {} /\ aborted = {} /\ retrying = {}
    /\ runStatus = [r \in RunIds |-> "absent"]
    /\ threadStatus \in [ThreadIds -> {"absent", "idle"}]
    /\ threadValues = [t \in ThreadIds |-> <<>>]
    /\ history = [t \in ThreadIds |-> <<>>]
    /\ cancel \in [Cancellers -> [step : {"read"}, run : RunIds, bulk : BOOLEAN]]
    /\ edit \in [Editors -> [step : {"get"}, thread : ThreadIds, base : {<<>>}]]
    /\ faults = 0 /\ deletes = 0

(***************************************************************************)
(* Storage calls.  An update of a record that was deleted meanwhile        *)
(* returns null and changes nothing (InMemoryRepository.update).           *)
(***************************************************************************)
Throws(store) == store \in FaultyStores /\ faults < MaxFaults /\ faults' = faults + 1

(* Mutant: a cancel stores the status name the route's text promises.      *)
UpdateRunCancelled(r, status) ==
    runStatus' = [runStatus EXCEPT ![r] =
        IF @ = "absent" THEN @ ELSE IF status = "interrupted" THEN "cancelled" ELSE status]

UpdateRun(r, status) ==
    runStatus' = [runStatus EXCEPT ![r] = IF @ = "absent" THEN @ ELSE status]

UpdateThread(t, status) ==
    threadStatus' = [threadStatus EXCEPT ![t] = IF @ = "absent" THEN @ ELSE status]

SetThreadValues(t, messages) ==
    threadValues' = [threadValues EXCEPT ![t] = IF threadStatus[t] = "absent" THEN @ ELSE messages]

AddState(t, messages) == history' = [history EXCEPT ![t] = Append(@, messages)]

Goto(r, step) == pc' = [pc EXCEPT ![r] = step]

-----------------------------------------------------------------------------
(***************************************************************************)
(* Where each kind of run goes next.                                       *)
(***************************************************************************)
AfterStart(r)  == IF Kind(r) = "background" /\ Stateful(r) THEN "ensure" ELSE "create"
AfterEnsure(r) == IF Kind(r) = "background" THEN "create" ELSE "busy"
(* Mutant: a background run does not mark its thread busy.                 *)
AfterCreateNotBusy(r) ==
    IF ~Stateful(r) THEN "running" ELSE IF Kind(r) = "background" THEN "read" ELSE "ensure"

AfterCreate(r) ==
    IF ~Stateful(r) THEN "running" ELSE IF Kind(r) = "background" THEN "busy" ELSE "ensure"
AfterRunning(r) == IF Kind(r) = "stream" THEN "open" ELSE "agent"

(* Mutant: a background run saves its turn on the thread record only.      *)
AfterAgentRecordOnly(r) ==
    IF Stateful(r) THEN IF Kind(r) = "background" THEN "values" ELSE "addState"
    ELSE IF Kind(r) = "stream" THEN "recheck" ELSE "success"

AfterAgent(r)  ==
    IF Stateful(r) THEN "addState" ELSE IF Kind(r) = "stream" THEN "recheck" ELSE "success"
AfterValues(r) ==
    CASE Kind(r) = "background" -> "success"
      [] Kind(r) = "wait"       -> "idle"
      [] Kind(r) = "stream"     -> "reread"
AfterIdle(r) ==
    CASE Kind(r) = "background" -> "done"
      [] Kind(r) = "wait"       -> "success"
      [] Kind(r) = "stream"     -> "recheck"
AfterSuccess(r) ==
    CASE Kind(r) = "stream"                      -> "close"
      [] Kind(r) # "stream" /\ ~Stateful(r)      -> "done"
      [] Kind(r) = "background" /\ Stateful(r)   -> "idle"
      [] Kind(r) = "wait" /\ Stateful(r)         -> "finalRead"

(* A throw before the run is executing: /runs/wait is already inside its   *)
(* try, the two other handlers answer the error and leave the run as it is.*)
ThrowEarly(r) == IF Kind(r) = "wait" THEN "errorRun" ELSE "rejected"

(* Mutants: a failed save is swallowed; a failed run is not marked.        *)
ThrowStepSwallowed(r) == IF pc[r] = "addState" THEN AfterValues(r) ELSE "errorRun"
ThrowStepUnmarked(r) == IF Stateful(r) THEN "errorIdle" ELSE "done"

(* A throw while executing, before the turn of a stream is saved.          *)
ThrowStep(r) == IF r \in aborted THEN "interruptRun" ELSE "errorRun"

(* A throw after the turn of a stream is saved (`persisted`): the catch    *)
(* starts markSavedRunDone again, once, and swallows its failure; a failure*)
(* of its first call leaves the thread as it is.                           *)
ThrowSaved(r) ==
    CASE r \in retrying -> IF pc[r] \in {"recheck", "success"} THEN "close" ELSE "abandonClose"
      [] r \notin retrying /\ Stateful(r)  -> "idle"
      [] r \notin retrying /\ ~Stateful(r) -> "recheck"

Move(r, step) == Goto(r, step) /\ UNCHANGED <<base, live, aborted, retrying>>

FailSaved(r) ==
    /\ Goto(r, ThrowSaved(r))
    /\ retrying' = retrying \union {r}
    /\ UNCHANGED <<base, live, aborted>>

-----------------------------------------------------------------------------
(***************************************************************************)
(* The handlers up to the moment the run executes.                         *)
(***************************************************************************)

(* A serial client sends to a thread that is not busy and on which none of *)
(* its requests is still being set up or being answered with an error.     *)
Unsettled == {"ensure", "createThread", "create", "busy", "errorRun", "errorIdle"}

ThreadFree(t) ==
    /\ threadStatus[t] # "busy"
    /\ \A q \in RunIds : Thread(q) = t => pc[q] \notin Unsettled
    /\ \A e \in Editors : edit[e].thread = t => edit[e].step \in {"get", "done"}

Start(r) ==
    /\ pc[r] = "start"
    /\ Serial /\ Stateful(r) => ThreadFree(Thread(r))
    /\ Move(r, AfterStart(r))
    /\ UNCHANGED <<req, runStatus, threadVars, cancel, edit, faults, deletes>>

(* ensureThread: an existing thread is used as it is; a missing one is     *)
(* created on request or answered with 404.                                *)
EnsureThread(r) ==
    /\ pc[r] = "ensure"
    /\ \/ /\ Move(r, IF threadStatus[Thread(r)] # "absent" THEN AfterEnsure(r)
                     ELSE IF req[r].ifNotExists = "create" THEN "createThread"
                     ELSE ThrowEarly(r))
          /\ UNCHANGED faults
       \/ Throws("threads") /\ Move(r, ThrowEarly(r))
    /\ UNCHANGED <<req, runStatus, threadVars, cancel, edit, deletes>>

(* The record written replaces whatever another request created since.     *)
CreateThread(r) ==
    /\ pc[r] = "createThread"
    /\ \/ /\ threadStatus' = [threadStatus EXCEPT ![Thread(r)] = "idle"]
          /\ threadValues' = [threadValues EXCEPT ![Thread(r)] = <<>>]
          /\ Move(r, AfterEnsure(r))
          /\ UNCHANGED faults
       \/ /\ Throws("threads")
          /\ Move(r, ThrowEarly(r))
          /\ UNCHANGED <<threadStatus, threadValues>>
    /\ UNCHANGED <<req, runStatus, history, cancel, edit, deletes>>

(* An unknown assistant_id is answered with 404 before the run exists.     *)
RejectAssistant(r) ==
    /\ pc[r] = "create"
    /\ Move(r, "rejected")
    /\ UNCHANGED <<req, runStatus, threadVars, cancel, edit, faults, deletes>>

CreateRun(r) ==
    /\ pc[r] = "create"
    /\ \/ /\ runStatus' = [runStatus EXCEPT ![r] = "pending"]
          /\ Move(r, AfterCreate(r))
          /\ UNCHANGED faults
       \/ Throws("runs") /\ Move(r, "rejected") /\ UNCHANGED runStatus
    /\ UNCHANGED <<req, threadVars, cancel, edit, deletes>>

MarkBusy(r) ==
    /\ pc[r] = "busy"
    /\ \/ UpdateThread(Thread(r), "busy") /\ Move(r, "read") /\ UNCHANGED faults
       \/ Throws("threads") /\ Move(r, ThrowEarly(r)) /\ UNCHANGED threadStatus
    /\ UNCHANGED <<req, runStatus, threadValues, history, cancel, edit, deletes>>

-----------------------------------------------------------------------------
(***************************************************************************)
(* The execution: read the state, compose, run the agent, save the turn.   *)
(***************************************************************************)

(* A read that throws is swallowed: the run goes on from an empty state.   *)
ReadState(r) ==
    /\ pc[r] = "read"
    /\ \/ base' = [base EXCEPT ![r] = Latest(Thread(r))] /\ UNCHANGED faults
       \/ Throws("threads") /\ base' = [base EXCEPT ![r] = <<>>]
    /\ Goto(r, "running")
    /\ UNCHANGED <<live, aborted, retrying>>
    /\ UNCHANGED <<req, runStatus, threadVars, cancel, edit, deletes>>

(* composeRequest may throw on the request's content.                      *)
ComposeFails(r) ==
    /\ pc[r] = "running"
    /\ Move(r, ThrowStep(r))
    /\ UNCHANGED <<req, runStatus, threadVars, cancel, edit, faults, deletes>>

MarkRunning(r) ==
    /\ pc[r] = "running"
    /\ \/ UpdateRun(r, "running") /\ Move(r, AfterRunning(r)) /\ UNCHANGED faults
       \/ Throws("runs") /\ Move(r, ThrowStep(r)) /\ UNCHANGED runStatus
    /\ UNCHANGED <<req, threadVars, cancel, edit, deletes>>

(* streamLive: openSse creates the session and onCancel registers the abort*)
(* in one tick.                                                            *)
OpenStream(r) ==
    /\ pc[r] = "open"
    /\ Goto(r, "agent")
    /\ live' = live \union {r}
    /\ UNCHANGED <<base, aborted, retrying>>
    /\ UNCHANGED <<req, runStatus, threadVars, cancel, edit, faults, deletes>>

(* The agent may answer even after an abort: the CLI connector ignores the *)
(* signal, and the `final` event may already have been read.               *)
AgentReplies(r) ==
    /\ pc[r] = "agent"
    /\ Move(r, AfterAgent(r))
    /\ UNCHANGED <<req, runStatus, threadVars, cancel, edit, faults, deletes>>

(* An agent error, a connector timeout, or the abort of the call.          *)
AgentFails(r) ==
    /\ pc[r] = "agent"
    /\ Move(r, ThrowStep(r))
    /\ UNCHANGED <<req, runStatus, threadVars, cancel, edit, faults, deletes>>

(* updateThreadState, first await: the new state is what the run READ plus *)
(* its own turn, and is appended to whatever the history is by now.        *)
SaveState(r) ==
    /\ pc[r] = "addState"
    /\ \/ AddState(Thread(r), Append(base[r], r)) /\ Move(r, "values") /\ UNCHANGED faults
       \/ Throws("threads") /\ Move(r, ThrowStep(r)) /\ UNCHANGED history
    /\ UNCHANGED <<req, runStatus, threadStatus, threadValues, cancel, edit, deletes>>

(* updateThreadState, second await: the same values onto the thread record.*)
SaveValues(r) ==
    /\ pc[r] = "values"
    /\ \/ /\ SetThreadValues(Thread(r), Append(base[r], r))
          /\ Move(r, AfterValues(r))
          /\ UNCHANGED faults
       \/ Throws("threads") /\ Move(r, ThrowStep(r)) /\ UNCHANGED threadValues
    /\ UNCHANGED <<req, runStatus, threadStatus, history, cancel, edit, deletes>>

-----------------------------------------------------------------------------
(***************************************************************************)
(* The end of a run: report success and release the thread, in the order   *)
(* of its kind.  For a stream this is markSavedRunDone.                    *)
(***************************************************************************)
MarkSuccess(r) ==
    /\ pc[r] = "success"
    /\ \/ UpdateRun(r, "success") /\ Move(r, AfterSuccess(r)) /\ UNCHANGED faults
       \/ /\ Throws("runs")
          /\ IF Kind(r) = "stream" THEN FailSaved(r) ELSE Move(r, "errorRun")
          /\ UNCHANGED runStatus
    /\ UNCHANGED <<req, threadVars, cancel, edit, deletes>>

ReleaseThread(r) ==
    /\ pc[r] = "idle"
    /\ \/ UpdateThread(Thread(r), "idle") /\ Move(r, AfterIdle(r)) /\ UNCHANGED faults
       \/ /\ Throws("threads")
          /\ IF Kind(r) = "stream" THEN FailSaved(r) ELSE Move(r, "errorRun")
          /\ UNCHANGED threadStatus
    /\ UNCHANGED <<req, runStatus, threadValues, history, cancel, edit, deletes>>

(* streamLive reads the saved state back for the final `values` event.     *)
Reread(r) ==
    /\ pc[r] = "reread"
    /\ \/ Move(r, "idle") /\ UNCHANGED faults
       \/ Throws("threads") /\ FailSaved(r)
    /\ UNCHANGED <<req, runStatus, threadVars, cancel, edit, deletes>>

(* markSavedRunDone checks for a cancel, and acts on it one await later.   *)
CheckCancelled(r) ==
    /\ pc[r] = "recheck"
    /\ \/ /\ Move(r, IF runStatus[r] # "interrupted" THEN "success" ELSE "close")
          /\ UNCHANGED faults
       \/ Throws("runs") /\ FailSaved(r)
    /\ UNCHANGED <<req, runStatus, threadVars, cancel, edit, deletes>>

(* /runs/wait reads the state it answers with, inside the same try.        *)
FinalRead(r) ==
    /\ pc[r] = "finalRead"
    /\ \/ Move(r, "done") /\ UNCHANGED faults
       \/ Throws("threads") /\ Move(r, "errorRun")
    /\ UNCHANGED <<req, runStatus, threadVars, cancel, edit, deletes>>

(* The reply is typed out, then the session closes.                        *)
CloseStream(r) ==
    /\ pc[r] \in {"close", "abandonClose"}
    /\ Goto(r, IF pc[r] = "close" THEN "done" ELSE "abandoned")
    /\ live' = live \ {r}
    /\ UNCHANGED <<base, aborted, retrying>>
    /\ UNCHANGED <<req, runStatus, threadVars, cancel, edit, faults, deletes>>

-----------------------------------------------------------------------------
(***************************************************************************)
(* The catch blocks.  A background run makes both updates inside one try;  *)
(* /runs/wait leaves the first one unguarded; a stream guards each.        *)
(***************************************************************************)
AfterErrorIdle(r) == IF r \in live THEN "close" ELSE "done"

(* Mutant: the thread of a failed run is not released.                     *)
AfterErrorRunHeld(r) == AfterErrorIdle(r)

AfterErrorRun(r)  == IF Stateful(r) THEN "errorIdle" ELSE AfterErrorIdle(r)

(* Where a run goes when even marking it failed throws, or releasing its   *)
(* thread does: the handler is over, the thread is as it was.              *)
AfterErrorThrow(r) == IF Kind(r) = "stream" THEN AfterErrorRun(r) ELSE "abandoned"
Abandon(r) == IF r \in live THEN "abandonClose" ELSE "abandoned"

MarkFailed(r) ==
    /\ pc[r] \in {"errorRun", "interruptRun"}
    /\ \/ /\ UpdateRun(r, IF pc[r] = "errorRun" THEN "error" ELSE "interrupted")
          /\ Move(r, AfterErrorRun(r))
          /\ UNCHANGED faults
       \/ /\ Throws("runs")
          /\ Move(r, AfterErrorThrow(r))
          /\ UNCHANGED runStatus
    /\ UNCHANGED <<req, threadVars, cancel, edit, deletes>>

ReleaseFailed(r) ==
    /\ pc[r] = "errorIdle"
    /\ \/ UpdateThread(Thread(r), "idle") /\ Move(r, AfterErrorIdle(r)) /\ UNCHANGED faults
       \/ Throws("threads") /\ Move(r, Abandon(r)) /\ UNCHANGED threadStatus
    /\ UNCHANGED <<req, runStatus, threadValues, history, cancel, edit, deletes>>

-----------------------------------------------------------------------------
(***************************************************************************)
(* Cancel and bulkCancel: the status is read, then written one await later.*)
(* A bulk cancel names runs, does not release threads, and also reaches    *)
(* stateless runs.                                                         *)
(***************************************************************************)
CancelGoto(c, step) == cancel' = [cancel EXCEPT ![c].step = step]

CancelThrows(c, store) == Throws(store) /\ CancelGoto(c, "done")

CancelRead(c) ==
    LET r == cancel[c].run IN
    /\ cancel[c].step = "read"
    /\ \/ /\ runStatus[r] # "absent"
          /\ cancel[c].bulk \/ Stateful(r)
          /\ CancelGoto(c, IF runStatus[r] \in {"success", "error"} THEN "done" ELSE "interrupt")
          /\ UNCHANGED faults
       \/ CancelThrows(c, "runs")
    /\ UNCHANGED <<req, runVars, runStatus, threadVars, edit, deletes>>

CancelRun(c) ==
    /\ cancel[c].step = "interrupt"
    /\ \/ /\ UpdateRun(cancel[c].run, "interrupted")
          /\ CancelGoto(c, IF cancel[c].bulk THEN "abort" ELSE "release")
          /\ UNCHANGED faults
       \/ CancelThrows(c, "runs") /\ UNCHANGED runStatus
    /\ UNCHANGED <<req, runVars, threadVars, edit, deletes>>

CancelRelease(c) ==
    /\ cancel[c].step = "release"
    /\ \/ /\ UpdateThread(Thread(cancel[c].run), "idle")
          /\ CancelGoto(c, "abort")
          /\ UNCHANGED faults
       \/ CancelThrows(c, "threads") /\ UNCHANGED threadStatus
    /\ UNCHANGED <<req, runVars, runStatus, threadValues, history, edit, deletes>>

(* cancelLiveRun: only a run that is streaming has anything to abort.      *)
Abort(r) == aborted' = IF r \in live THEN aborted \union {r} ELSE aborted

CancelLiveRun(c) ==
    /\ cancel[c].step = "abort"
    /\ Abort(cancel[c].run)
    /\ CancelGoto(c, "done")
    /\ UNCHANGED <<pc, base, live, retrying>>
    /\ UNCHANGED <<req, runStatus, threadVars, edit, faults, deletes>>

(* A joiner with cancel_on_disconnect=true goes away.                      *)
JoinerLeaves(r) ==
    /\ r \in live \ aborted
    /\ Abort(r)
    /\ UNCHANGED <<pc, base, live, retrying>>
    /\ UNCHANGED <<req, runStatus, threadVars, cancel, edit, faults, deletes>>

-----------------------------------------------------------------------------
(***************************************************************************)
(* ThreadsService.updateState, and the deletes.                            *)
(***************************************************************************)
EditGoto(e, step) == edit' = [edit EXCEPT ![e].step = step]

EditThread(e) ==
    /\ edit[e].step = "get"
    /\ threadStatus[edit[e].thread] # "absent"
    /\ Serial => ThreadFree(edit[e].thread)
    /\ EditGoto(e, "read")
    /\ UNCHANGED <<req, runVars, runStatus, threadVars, cancel, faults, deletes>>

EditRead(e) ==
    /\ edit[e].step = "read"
    /\ \/ /\ edit' = [edit EXCEPT ![e].step = "addState", ![e].base = Latest(edit[e].thread)]
          /\ UNCHANGED faults
       \/ Throws("threads") /\ EditGoto(e, "done")
    /\ UNCHANGED <<req, runVars, runStatus, threadVars, cancel, deletes>>

EditSaveState(e) ==
    /\ edit[e].step = "addState"
    /\ \/ /\ AddState(edit[e].thread, Append(edit[e].base, e))
          /\ EditGoto(e, "values")
          /\ UNCHANGED faults
       \/ Throws("threads") /\ EditGoto(e, "done") /\ UNCHANGED history
    /\ UNCHANGED <<req, runVars, runStatus, threadStatus, threadValues, cancel, deletes>>

EditSaveValues(e) ==
    /\ edit[e].step = "values"
    /\ \/ SetThreadValues(edit[e].thread, Append(edit[e].base, e)) /\ UNCHANGED faults
       \/ Throws("threads") /\ UNCHANGED threadValues
    /\ EditGoto(e, "done")
    /\ UNCHANGED <<req, runVars, runStatus, threadStatus, history, cancel, deletes>>

(* An active run may be deleted: its process does not notice.              *)
DeleteRun(r) ==
    /\ runStatus[r] # "absent"
    /\ deletes < MaxDeletes
    /\ deletes' = deletes + 1
    /\ runStatus' = [runStatus EXCEPT ![r] = "absent"]
    /\ UNCHANGED <<req, runVars, threadVars, cancel, edit, faults>>

DeleteThread(t) ==
    /\ threadStatus[t] # "absent"
    /\ deletes < MaxDeletes
    /\ deletes' = deletes + 1
    /\ threadStatus' = [threadStatus EXCEPT ![t] = "absent"]
    /\ threadValues' = [threadValues EXCEPT ![t] = <<>>]
    /\ history' = [history EXCEPT ![t] = <<>>]
    /\ UNCHANGED <<req, runVars, runStatus, cancel, edit, faults>>

-----------------------------------------------------------------------------
Execute(r) ==
    \/ EnsureThread(r) \/ CreateThread(r) \/ RejectAssistant(r) \/ CreateRun(r)
    \/ MarkBusy(r) \/ ReadState(r) \/ ComposeFails(r) \/ MarkRunning(r) \/ OpenStream(r)
    \/ AgentReplies(r) \/ AgentFails(r) \/ SaveState(r) \/ SaveValues(r)
    \/ MarkSuccess(r) \/ ReleaseThread(r) \/ Reread(r) \/ CheckCancelled(r)
    \/ FinalRead(r) \/ CloseStream(r) \/ MarkFailed(r) \/ ReleaseFailed(r)

CancelStep(c) == CancelRead(c) \/ CancelRun(c) \/ CancelRelease(c) \/ CancelLiveRun(c)

EditStep(e) == EditThread(e) \/ EditRead(e) \/ EditSaveState(e) \/ EditSaveValues(e)

Next ==
    \/ \E r \in RunIds : Start(r) \/ Execute(r) \/ JoinerLeaves(r) \/ DeleteRun(r)
    \/ \E c \in Cancellers : CancelStep(c)
    \/ \E e \in Editors : EditStep(e)
    \/ \E t \in ThreadIds : DeleteThread(t)

Spec == Init /\ [][Next]_vars

(***************************************************************************)
(* The event loop resumes every handler whose storage call has answered,   *)
(* and the connectors' timeouts bound the agent call, so a run that has    *)
(* started takes its next step.  Nothing obliges a client to send a request*)
(***************************************************************************)
Fairness == \A r \in RunIds : WF_vars(Execute(r))

FairSpec == Spec /\ Fairness

-----------------------------------------------------------------------------
(***************************************************************************)
(* Properties.                                                             *)
(***************************************************************************)

(* Type invariant: the shape of every request process and stored record.   *)
TypeOK ==
    /\ req \in [RunIds -> Requests]
    /\ pc \in [RunIds -> RunSteps]
    /\ base \in [RunIds -> Seq(Turns)]
    /\ live \subseteq RunIds /\ aborted \subseteq RunIds /\ retrying \subseteq RunIds
    /\ runStatus \in [RunIds -> RunStatuses]
    /\ threadStatus \in [ThreadIds -> ThreadStatuses]
    /\ threadValues \in [ThreadIds -> Seq(Turns)]
    /\ history \in [ThreadIds -> Seq(Seq(Turns))]
    /\ cancel \in [Cancellers -> [step : CancelSteps, run : RunIds, bulk : BOOLEAN]]
    /\ edit \in [Editors -> [step : EditSteps, thread : ThreadIds, base : Seq(Turns)]]
    /\ faults \in Nat /\ deletes \in Nat

(* Run r has marked its thread busy and will still mark it idle.           *)
HoldSteps == {"read", "running", "open", "agent", "addState", "values", "reread", "idle",
              "errorRun", "interruptRun", "errorIdle"}
Holds(r) == pc[r] \in HoldSteps \/ (pc[r] = "success" /\ Kind(r) = "background")

(* A storage fault kept run r from releasing its thread.                   *)
Abandoned(r) == pc[r] \in {"abandonClose", "abandoned"}

(* A thread is busy only on behalf of a run that is still going to release *)
(* it: whatever the order in which concurrent runs, cancels and deletes    *)
(* reach the thread record (createStateful, wait, streamLive, cancel), no  *)
(* thread stays busy after its last run is over - unless the very call that*)
(* releases it threw, or the status update before it in a catch that does  *)
(* not guard it.                                                           *)
NeverLeftBusy ==
    \A t \in ThreadIds : threadStatus[t] = "busy" =>
        \E r \in RunIds : Thread(r) = t /\ (Holds(r) \/ Abandoned(r))

(* The turn of run r is the newest turn of some state of its thread.       *)
Saved(r) ==
    \E i \in 1..Len(history[Thread(r)]) :
        LET m == history[Thread(r)][i] IN m # <<>> /\ m[Len(m)] = r

(* A run a client sees as `success` has had its turn written to the        *)
(* thread's history, in all three kinds and whatever storage calls failed  *)
(* on the way (updateThreadState precedes the status update).              *)
SuccessMeansSaved ==
    deletes = 0 => \A r \in RunIds : runStatus[r] = "success" /\ Stateful(r) => Saved(r)

(* When no request is between the two writes of updateThreadState or       *)
(* updateState, the thread record and the newest state tell the same       *)
(* conversation: GET /threads/:id and GET /threads/:id/state agree.        *)
WritesOpen(t) ==
    \/ \E r \in RunIds : Thread(r) = t /\ pc[r] = "values"
    \/ \E e \in Editors : edit[e].thread = t /\ edit[e].step = "values"

ValuesMatchHistory ==
    \A t \in ThreadIds : ~WritesOpen(t) => threadValues[t] = Latest(t)

(* Every run that was accepted leaves `pending` and `running` for good     *)
(* (or is deleted), whichever kind of run it is and whoever cancels it.    *)
RunsSettle ==
    \A r \in RunIds : (runStatus[r] = "pending") ~>
                      [](runStatus[r] \in {"absent", "success", "error", "interrupted"})

(* A busy thread becomes available again, even when several runs use it at *)
(* once and agents fail.                                                   *)
ThreadsReleased == \A t \in ThreadIds : threadStatus[t] = "busy" ~> threadStatus[t] # "busy"

CancelledByThread(r) ==
    \E c \in Cancellers :
        cancel[c].run = r /\ ~cancel[c].bulk /\ cancel[c].step \in {"release", "abort", "done"}

(* `interrupted` is a terminal status: once POST .../runs/:run_id/cancel   *)
(* has stored it for a run of a thread, no later step of the run, which is *)
(* not told of the cancel, replaces it (cancel, createStateful).           *)
CancelSticks ==
    [][\A r \in RunIds :
          Stateful(r) /\ CancelledByThread(r) /\ runStatus[r] = "interrupted" =>
              runStatus'[r] \in {"interrupted", "absent"}]_vars

(* The conversations as the abstract log of ConversationLog: every write   *)
(* to the history of a thread commits exactly one new turn after all the   *)
(* turns committed before it, and no turn is committed twice.              *)
Log == INSTANCE ConversationLog WITH log <- [t \in ThreadIds |-> Latest(t)]

ImplementsLog == Log!Spec
=============================================================================
