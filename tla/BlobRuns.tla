------------------------------- MODULE BlobRuns -------------------------------
(***************************************************************************)
(* Run records in Azure Blob Storage                                       *)
(* (src/src/storage/providers/azure-blob/azure-blob-run-storage.ts).  A run*)
(* is two blobs: the record, under its thread or under `stateless/`, and a *)
(* pointer `_lookup/{run_id}.json` with the record's path.  There are no   *)
(* transactions: every blob call is a step, the requests of several        *)
(* servers interleave between them, and a call may fail, or take effect    *)
(* and lose its answer.                                                    *)
(***************************************************************************)
EXTENDS Naturals

CONSTANTS
    RunIds,         \* runs; each is created once, under an id of its own (uuid)
    ThreadRuns,     \* the runs of a thread; the others are stateless
    Requests        \* getById, update and delete requests

ASSUME ThreadRunsAssumption == ThreadRuns \subseteq RunIds

VARIABLES
    stored,     \* runs whose record blob exists
    version,    \* version[r]: uploads of the record so far; it stands for the etag
    merged,     \* merged[r]: the updates the record has merged
    pointers,   \* runs whose lookup pointer exists
    create,     \* create[r]: progress of the request that creates r
    ask,        \* ask[q]: what request q does to which run; never changes
    pc,         \* pc[q]: the blob call q makes next, or its outcome
    seen,       \* seen[q]: the record as q downloaded it
    start       \* start[q]: what had been acknowledged when q started

blobs == <<stored, version, merged, pointers>>
vars  == <<blobs, create, ask, pc, seen, start>>

Ops         == {"get", "update", "delete"}
CreateSteps == {"upload", "link", "done", "failed"}
Outcomes    == {"found", "ok", "null", "failed"}
Steps       == {"new", "pointer", "fallback", "download", "load", "store", "remove", "unlink"}
               \union Outcomes

Run(q) == ask[q].run
Op(q)  == ask[q].op

(* The updates of run r that were acknowledged to their callers.           *)
Acked(r) == {q \in Requests : Run(q) = r /\ Op(q) = "update" /\ pc[q] = "ok"}

-----------------------------------------------------------------------------
Init ==
    /\ stored = {} /\ pointers = {}
    /\ version = [r \in RunIds |-> 0]
    /\ merged = [r \in RunIds |-> {}]
    /\ create = [r \in RunIds |-> "upload"]
    /\ ask \in [Requests -> [op : Ops, run : RunIds]]
    /\ pc = [q \in Requests |-> "new"]
    /\ seen = [q \in Requests |-> [version |-> 0, merged |-> {}]]
    /\ start = [q \in Requests |-> [created |-> FALSE, acked |-> {}]]

(***************************************************************************)
(* create: the record first, the pointer second.                           *)
(***************************************************************************)
CreateGoto(r, step) ==
    /\ create' = [create EXCEPT ![r] = step]
    /\ UNCHANGED <<ask, pc, seen, start>>

Upload(r) ==
    /\ create[r] = "upload"
    /\ stored' = stored \union {r}
    /\ version' = [version EXCEPT ![r] = @ + 1]
    /\ merged' = [merged EXCEPT ![r] = {}]
    /\ CreateGoto(r, "link") \/ CreateGoto(r, "failed")
    /\ UNCHANGED pointers

WriteLookup(r) ==
    /\ create[r] = "link"
    /\ pointers' = pointers \union {r}
    /\ CreateGoto(r, "done") \/ CreateGoto(r, "failed")
    /\ UNCHANGED <<stored, version, merged>>

CreateFails(r) ==
    /\ create[r] \in {"upload", "link"}
    /\ CreateGoto(r, "failed")
    /\ UNCHANGED blobs

-----------------------------------------------------------------------------
(***************************************************************************)
(* The requests.                                                           *)
(***************************************************************************)
Goto(q, step) ==
    /\ pc' = [pc EXCEPT ![q] = step]
    /\ UNCHANGED <<create, ask, start>>

(* A blob call may take effect and lose its answer: the request fails.     *)
GotoOrFail(q, step) == Goto(q, step) \/ Goto(q, "failed")

(* A run id is known once create has answered with it; the run of a thread *)
(* is listed as soon as its record exists (listByThreadId).                *)
Known(r) == create[r] = "done" \/ r \in stored \intersect ThreadRuns

Begin(q) ==
    /\ pc[q] = "new"
    /\ Known(Run(q))
    /\ pc' = [pc EXCEPT ![q] = "pointer"]
    /\ start' = [start EXCEPT ![q] = [created |-> create[Run(q)] = "done", acked |-> Acked(Run(q))]]
    /\ UNCHANGED <<blobs, create, ask, seen>>

(* What a request does with the path it has found.                         *)
AfterPath(q) ==
    CASE Op(q) = "get"    -> "download"
      [] Op(q) = "update" -> "load"
      [] Op(q) = "delete" -> "remove"

(* lookupBlobPath.                                                         *)
ReadPointer(q) ==
    /\ pc[q] = "pointer"
    /\ Goto(q, IF Run(q) \in pointers THEN AfterPath(q) ELSE "fallback")
    /\ UNCHANGED <<blobs, seen>>

(* No pointer: only a stateless run can be at its fixed path.              *)
AtStatelessPath(r) == r \in stored \ ThreadRuns

(* Mutant: the record is downloaded without its etag.                      *)
SeeRecordWithoutEtag(q) == seen' = [seen EXCEPT ![q] = [merged |-> merged[Run(q)]]]

SeeRecord(q) ==
    seen' = [seen EXCEPT ![q] = [version |-> version[Run(q)], merged |-> merged[Run(q)]]]

Fallback(q) ==
    /\ pc[q] = "fallback"
    /\ IF ~AtStatelessPath(Run(q)) THEN Goto(q, "null") /\ UNCHANGED seen
       ELSE IF Op(q) = "get" THEN Goto(q, "found") /\ SeeRecord(q)
       ELSE Goto(q, AfterPath(q)) /\ UNCHANGED seen
    /\ UNCHANGED blobs

(* getById downloads the record the pointer names; a missing one is looked *)
(* for at the stateless path.                                              *)
Download(q) ==
    /\ pc[q] = "download"
    /\ IF Run(q) \in stored THEN Goto(q, "found") /\ SeeRecord(q)
       ELSE Goto(q, "fallback") /\ UNCHANGED seen
    /\ UNCHANGED blobs

(* update: read the record with its etag ...                               *)
Load(q) ==
    /\ pc[q] = "load"
    /\ IF Run(q) \in stored THEN Goto(q, "store") /\ SeeRecord(q)
       ELSE Goto(q, "null") /\ UNCHANGED seen
    /\ UNCHANGED blobs

(* Mutants: the upload does not ask for the etag that was read, or only if *)
(* the blob is still there.                                                *)
EtagMatchesAny(q) == Run(q) \in stored
EtagMatchesOrGone(q) == Run(q) \in stored => version[Run(q)] = seen[q].version

(* If-Match fails on another etag and on a missing blob.                   *)
EtagMatches(q) == Run(q) \in stored /\ version[Run(q)] = seen[q].version

(* ... and upload the merged record if the etag is still the one read;     *)
(* otherwise the request fails with 412.                                   *)
Store(q) ==
    /\ pc[q] = "store"
    /\ IF EtagMatches(q)
       THEN /\ stored' = stored \union {Run(q)}
            /\ version' = [version EXCEPT ![Run(q)] = @ + 1]
            /\ merged' = [merged EXCEPT ![Run(q)] = seen[q].merged \union {q}]
            /\ GotoOrFail(q, "ok")
       ELSE Goto(q, "failed") /\ UNCHANGED <<stored, version, merged>>
    /\ UNCHANGED <<pointers, seen>>

(* delete: the record first ...                                            *)
Remove(q) ==
    /\ pc[q] = "remove"
    /\ IF Run(q) \in stored
       THEN stored' = stored \ {Run(q)} /\ GotoOrFail(q, "unlink")
       ELSE Goto(q, "null") /\ UNCHANGED stored
    /\ UNCHANGED <<version, merged, pointers, seen>>

(* Mutant: the pointer is left behind.                                     *)
DeleteLookupSkipped(q) ==
    /\ pc[q] = "unlink"
    /\ Goto(q, "ok")
    /\ UNCHANGED <<blobs, seen>>

(* ... the pointer second.                                                 *)
DeleteLookup(q) ==
    /\ pc[q] = "unlink"
    /\ pointers' = pointers \ {Run(q)}
    /\ GotoOrFail(q, "ok")
    /\ UNCHANGED <<stored, version, merged, seen>>

(* A blob call that fails without effect, or the crash of the server.      *)
Fails(q) ==
    /\ pc[q] \in Steps \ (Outcomes \union {"new"})
    /\ Goto(q, "failed")
    /\ UNCHANGED <<blobs, seen>>

-----------------------------------------------------------------------------
CreateStep(r) == Upload(r) \/ WriteLookup(r) \/ CreateFails(r)

RequestStep(q) ==
    \/ Begin(q) \/ ReadPointer(q) \/ Fallback(q) \/ Download(q) \/ Load(q) \/ Store(q)
    \/ Remove(q) \/ DeleteLookup(q) \/ Fails(q)

Next == (\E r \in RunIds : CreateStep(r)) \/ (\E q \in Requests : RequestStep(q))

Spec == Init /\ [][Next]_vars

-----------------------------------------------------------------------------
(***************************************************************************)
(* Properties.                                                             *)
(***************************************************************************)

(* Type invariant: the blobs and the progress of every request.            *)
TypeOK ==
    /\ stored \subseteq RunIds /\ pointers \subseteq RunIds
    /\ version \in [RunIds -> Nat]
    /\ merged \in [RunIds -> SUBSET Requests]
    /\ create \in [RunIds -> CreateSteps]
    /\ ask \in [Requests -> [op : Ops, run : RunIds]]
    /\ pc \in [Requests -> Steps]
    /\ seen \in [Requests -> [version : Nat, merged : SUBSET Requests]]
    /\ start \in [Requests -> [created : BOOLEAN, acked : SUBSET Requests]]

(* An update that was acknowledged stays part of the record as long as the *)
(* record exists, whatever other updates run at the same time (update,     *)
(* uploadJsonWithEtag).                                                    *)
UpdatesKept ==
    \A r \in stored : Acked(r) \subseteq merged[r]

(* Answers are current: getById returns a record with every update that had*)
(* been acknowledged before it was called, and no request that was called  *)
(* after create had answered is told that there is no such run while the   *)
(* record is still there (getById, resolveBlobPath).                       *)
AnswersCurrent ==
    \A q \in Requests :
        /\ pc[q] = "found" => start[q].acked \subseteq seen[q].merged
        /\ pc[q] = "null" /\ start[q].created => Run(q) \notin stored

(* What was acknowledged is kept and seen (create, update, getById).       *)
UpdatesVisible == UpdatesKept /\ AnswersCurrent

(* count() counts pointers.  It is off only for a run whose create has not *)
(* been answered, or whose delete is between its two calls or failed there:*)
(* every other pointer has its record and every other record its pointer.  *)
CountAccurate ==
    \A r \in RunIds :
        /\ r \in pointers \ stored =>
              \E q \in Requests : Run(q) = r /\ Op(q) = "delete" /\ pc[q] \in {"unlink", "failed"}
        /\ r \in stored \ pointers => create[r] # "done"

(* The record as RunStore promises it.                                     *)
record == [r \in RunIds |->
    [state  |-> IF version[r] = 0 THEN "new" ELSE IF r \in stored THEN "stored" ELSE "deleted",
     merged |-> IF r \in stored THEN merged[r] ELSE {}]]

Records == INSTANCE RunStore WITH rec <- record

(* Two blobs without transactions implement the atomic record: concurrent  *)
(* updates take effect one after the other, and a deleted run stays deleted*)
(* (create, update, delete).                                               *)
ImplementsRunStore == Records!Spec
=============================================================================
