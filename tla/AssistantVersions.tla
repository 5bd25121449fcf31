-------------------------- MODULE AssistantVersions --------------------------
(***************************************************************************)
(* One assistant and its version snapshots                                 *)
(* (src/src/modules/assistants/assistants.service.ts) on each of the four  *)
(* storage providers.  An update reads the record to number the new        *)
(* version, writes the record, and stores a snapshot: three calls, between *)
(* which other requests run.  The listing of versions changes nothing and  *)
(* is left out.                                                            *)
(***************************************************************************)
EXTENDS Naturals, Sequences, FiniteSetsExt

CONSTANTS
    Requests,   \* create, update, setLatestVersion and delete requests
    Fields,     \* what an update may set: graph_id, config, name, ...
    Earlier,    \* the request, before those, that created the assistant
    None,       \* no record
    Versions    \* the version numbers that setLatestVersion is asked for

ASSUME NamesAssumption == Earlier \notin Requests /\ Versions \subseteq Nat

VARIABLES
    provider,   \* the storage provider; never changes
    clients,    \* whether clients wait for each other; never changes
    ask,        \* ask[q]: what request q asks for; never changes
    current,    \* the assistant's record, or None
    etag,       \* identifies the upload that wrote the record
    snapshots,  \* the version snapshots: a list, oldest first, or blobs by their names
    pc,         \* pc[q]: the call q makes next, or its outcome
    number,     \* number[q]: the version number q gives its update
    seen,       \* seen[q]: the record (or snapshot) q read last
    seenEtag,   \* seenEtag[q]: and the etag it read
    out,        \* out[q]: the record q wrote
    listed,     \* listed[q]: blobs that delete q has yet to delete
    removed     \* deletes that have removed a blob

store == <<current, etag, snapshots>>
fixed == <<provider, clients, ask>>
vars  == <<fixed, store, pc, number, seen, seenEtag, out, listed, removed>>

Creates   == {"create", "createIfMissing", "createOrUpdate"}
Outcomes  == {"ok", "kept", "conflict", "notFound", "error"}
Calls     == {"create", "update", "save", "addVersion", "setLatest", "updateLatest", "reload",
              "loadCurrent", "saveLatest", "delete", "deleteBlobs"}
Sql       == {"sqlite", "sqlserver"}
Providers == Sql \union {"memory", "azure"}
Asks      == [op : {"update", "createOrUpdate"}, field : Fields]
             \union [op : {"setLatestVersion"}, version : Versions]
             \union [op : {"create", "createIfMissing", "delete"}]

Op(q)   == ask[q].op
Idle    == \A q \in Requests : pc[q] \notin Calls
Serial  == clients = "serial"

Records == [version : Nat \ {0}, fields : [Fields -> Requests \union {Earlier}]]

ASSUME NoneAssumption == None \notin Records

(* The record that request q creates: every field is its own.              *)
Created(q) == [version |-> 1, fields |-> [f \in Fields |-> q]]

-----------------------------------------------------------------------------
Init ==
    /\ provider \in Providers
    /\ clients \in {"serial", "concurrent"}
    /\ ask \in [Requests -> Asks]
    /\ current \in {None, Created(Earlier)}
    /\ snapshots = IF current = None THEN <<>> ELSE <<current>>
    /\ etag = 0
    /\ pc = [q \in Requests |-> "new"]
    /\ number = [q \in Requests |-> 0]
    /\ seen = [q \in Requests |-> None]
    /\ seenEtag = [q \in Requests |-> 0]
    /\ out = [q \in Requests |-> None]
    /\ listed = [q \in Requests |-> {}]
    /\ removed = {}

Goto(q, step) == pc' = [pc EXCEPT ![q] = step]

Put(record) == current' = record /\ etag' = etag + 1

-----------------------------------------------------------------------------
(***************************************************************************)
(* The service: getById first, then what the request is about.             *)
(***************************************************************************)

NextNumber == IF current = None THEN 1 ELSE current.version + 1

AfterGet(q) ==
    IF Op(q) = "delete" THEN "delete"
    ELSE IF current = None THEN IF Op(q) \in Creates THEN "create" ELSE "notFound"
    ELSE [create |-> "conflict", createIfMissing |-> "kept", createOrUpdate |-> "update",
          update |-> "update", setLatestVersion |-> "setLatest"][Op(q)]

Get(q) ==
    /\ pc[q] = "new"
    /\ Serial => Idle
    /\ number' = [number EXCEPT ![q] = NextNumber]
    /\ Goto(q, AfterGet(q))
    /\ UNCHANGED <<fixed, store, seen, seenEtag, out, listed, removed>>

(* repository.create: SQL refuses a second record; the others overwrite.   *)
Create(q) ==
    /\ pc[q] = "create"
    /\ IF provider \in Sql /\ current # None
       THEN Goto(q, "error") /\ UNCHANGED <<current, etag, out>>
       ELSE /\ Put(Created(q))
            /\ out' = [out EXCEPT ![q] = Created(q)]
            /\ Goto(q, "addVersion")
    /\ UNCHANGED <<fixed, snapshots, number, seen, seenEtag, listed, removed>>

-----------------------------------------------------------------------------
(***************************************************************************)
(* repository.update: in memory one step, elsewhere a read and a write.    *)
(***************************************************************************)

(* Mutant: the version is dropped from the record.                         *)
MergedUnnumbered(record, q) ==
    [fields |-> [record.fields EXCEPT ![ask[q].field] = q]]

Merged(record, q) ==
    [version |-> number[q], fields |-> [record.fields EXCEPT ![ask[q].field] = q]]

UpdateInMemory(q) ==
    /\ pc[q] = "update" /\ provider = "memory"
    /\ IF current = None
       THEN Goto(q, "notFound") /\ UNCHANGED <<current, etag, out>>
       ELSE /\ Put(Merged(current, q))
            /\ out' = [out EXCEPT ![q] = Merged(current, q)]
            /\ Goto(q, "addVersion")
    /\ UNCHANGED <<fixed, snapshots, number, seen, seenEtag, listed, removed>>

Load(q) ==
    /\ pc[q] = "update" /\ provider # "memory"
    /\ IF current = None
       THEN Goto(q, "notFound") /\ UNCHANGED <<seen, seenEtag>>
       ELSE /\ seen' = [seen EXCEPT ![q] = current]
            /\ seenEtag' = [seenEtag EXCEPT ![q] = etag]
            /\ Goto(q, "save")
    /\ UNCHANGED <<fixed, store, number, out, listed, removed>>

(* Mutants: the upload is unconditional; only a missing blob is let pass.  *)
EtagMatchesAny(q) == current # None
EtagMatchesOrGone(q) == current # None => etag = seenEtag[q]

(* If-Match: the blob exists and is the one that was read.                 *)
EtagMatches(q) == current # None /\ etag = seenEtag[q]

(* A blob is written if its etag still matches (412 otherwise).  UPDATE    *)
(* finds no row when the assistant was deleted meanwhile, and reports the  *)
(* merged record all the same.                                             *)
Save(q) ==
    /\ pc[q] = "save"
    /\ IF provider = "azure" /\ ~EtagMatches(q)
       THEN Goto(q, "error") /\ UNCHANGED <<current, etag, out>>
       ELSE /\ IF provider \in Sql /\ current = None
               THEN UNCHANGED <<current, etag>>
               ELSE Put(Merged(seen[q], q))
            /\ out' = [out EXCEPT ![q] = Merged(seen[q], q)]
            /\ Goto(q, "addVersion")
    /\ UNCHANGED <<fixed, snapshots, number, seen, seenEtag, listed, removed>>

-----------------------------------------------------------------------------
(***************************************************************************)
(* addVersion: a list that grows, except that a blob is named by its       *)
(* version number and replaces the blob of that name.                      *)
(***************************************************************************)
Numbered(n) == {i \in DOMAIN snapshots : snapshots[i].version = n}

WithSnapshot(record) ==
    IF provider = "azure"
    THEN [n \in DOMAIN snapshots \union {record.version} |->
            IF n = record.version THEN record ELSE snapshots[n]]
    ELSE Append(snapshots, record)

(* SQL's foreign key refuses a snapshot of a deleted assistant.            *)
AddVersion(q) ==
    /\ pc[q] = "addVersion"
    /\ IF provider \in Sql /\ current = None
       THEN Goto(q, "error") /\ UNCHANGED snapshots
       ELSE Goto(q, "ok") /\ snapshots' = WithSnapshot(out[q])
    /\ UNCHANGED <<fixed, current, etag, number, seen, seenEtag, out, listed, removed>>

-----------------------------------------------------------------------------
(***************************************************************************)
(* setLatestVersion: in memory the first snapshot of that number replaces  *)
(* the record, even a missing one; in SQLite one of them does, if there is *)
(* a record.  SQL Server and the blobs take three calls.                   *)
(***************************************************************************)
Restorable(q) == Numbered(ask[q].version)

(* Mutant: a restored version becomes a new version.                       *)
SetLatestRenumbered(q) ==
    /\ pc[q] = "setLatest" /\ provider \in {"memory", "sqlite"}
    /\ \E i \in Restorable(q) :
          Put([snapshots[i] EXCEPT !.version = NextNumber]) /\ Goto(q, "ok")
    /\ UNCHANGED <<fixed, snapshots, number, seen, seenEtag, out, listed, removed>>

SetLatest(q) ==
    /\ pc[q] = "setLatest" /\ provider \in {"memory", "sqlite"}
    /\ \/ /\ Restorable(q) = {}
          /\ Goto(q, "notFound") /\ UNCHANGED <<current, etag>>
       \/ \E i \in Restorable(q) :
             /\ provider = "memory" => i = Min(Restorable(q))
             /\ provider = "sqlite" => current # None
             /\ Put(snapshots[i])
             /\ Goto(q, "ok")
    /\ UNCHANGED <<fixed, snapshots, number, seen, seenEtag, out, listed, removed>>

(* SQL Server reads the snapshot and blobs read theirs; the snapshot may   *)
(* be gone when it is written to the record.                               *)
LoadVersion(q) ==
    /\ pc[q] = "setLatest" /\ provider \in {"sqlserver", "azure"}
    /\ IF Restorable(q) = {}
       THEN Goto(q, "notFound") /\ UNCHANGED seen
       ELSE \E i \in Restorable(q) :
               /\ seen' = [seen EXCEPT ![q] = snapshots[i]]
               /\ Goto(q, IF provider = "azure" THEN "loadCurrent" ELSE "updateLatest")
    /\ UNCHANGED <<fixed, store, number, seenEtag, out, listed, removed>>

(* The UPDATE finds no row when the assistant is gone; getById answers.    *)
UpdateLatest(q) ==
    /\ pc[q] = "updateLatest"
    /\ IF current = None THEN UNCHANGED <<current, etag>> ELSE Put(seen[q])
    /\ Goto(q, "reload")
    /\ UNCHANGED <<fixed, snapshots, number, seen, seenEtag, out, listed, removed>>

Reload(q) ==
    /\ pc[q] = "reload"
    /\ Goto(q, IF current = None THEN "notFound" ELSE "ok")
    /\ UNCHANGED <<fixed, store, number, seen, seenEtag, out, listed, removed>>

LoadCurrent(q) ==
    /\ pc[q] = "loadCurrent"
    /\ seenEtag' = [seenEtag EXCEPT ![q] = etag]
    /\ Goto(q, IF current = None THEN "notFound" ELSE "saveLatest")
    /\ UNCHANGED <<fixed, store, number, seen, out, listed, removed>>

SaveLatest(q) ==
    /\ pc[q] = "saveLatest"
    /\ IF EtagMatches(q) THEN Put(seen[q]) /\ Goto(q, "ok")
       ELSE Goto(q, "error") /\ UNCHANGED <<current, etag>>
    /\ UNCHANGED <<fixed, snapshots, number, seen, seenEtag, out, listed, removed>>

-----------------------------------------------------------------------------
(***************************************************************************)
(* delete: the record and its snapshots together; blobs are listed and then*)
(* deleted one by one, in the order of their names.                        *)
(***************************************************************************)

Delete(q) ==
    /\ pc[q] = "delete" /\ provider # "azure"
    /\ Goto(q, IF current = None THEN "notFound" ELSE "ok")
    /\ current' = None /\ snapshots' = <<>>
    /\ UNCHANGED <<fixed, etag, number, seen, seenEtag, out, listed, removed>>

(* `current.json` (0) sorts before the versions.                           *)
BlobNames == (IF current = None THEN {} ELSE {0}) \union DOMAIN snapshots

ListBlobs(q) ==
    /\ pc[q] = "delete" /\ provider = "azure"
    /\ listed' = [listed EXCEPT ![q] = BlobNames]
    /\ Goto(q, IF BlobNames = {} THEN "notFound" ELSE "deleteBlobs")
    /\ UNCHANGED <<fixed, store, number, seen, seenEtag, out, removed>>

(* A blob that is gone by then is passed over; if all are, the answer is   *)
(* 404.                                                                    *)
DeleteBlob(q) ==
    /\ pc[q] = "deleteBlobs"
    /\ LET name == Min(listed[q])
       IN  /\ IF name = 0
              THEN current' = None /\ UNCHANGED snapshots
              ELSE /\ snapshots' = [n \in DOMAIN snapshots \ {name} |-> snapshots[n]]
                   /\ UNCHANGED current
           /\ removed' = IF name \in BlobNames THEN removed \union {q} ELSE removed
           /\ listed' = [listed EXCEPT ![q] = @ \ {name}]
           /\ IF listed[q] # {name} THEN UNCHANGED pc
              ELSE Goto(q, IF q \in removed' THEN "ok" ELSE "notFound")
    /\ UNCHANGED <<fixed, etag, number, seen, seenEtag, out>>

(* A call to the database or the blob store fails, or the server crashes.  *)
Fails(q) ==
    /\ pc[q] \in Calls /\ provider # "memory"
    /\ Goto(q, "error")
    /\ UNCHANGED <<fixed, store, number, seen, seenEtag, out, listed, removed>>

-----------------------------------------------------------------------------
RequestStep(q) ==
    \/ Get(q) \/ Create(q) \/ UpdateInMemory(q) \/ Load(q) \/ Save(q) \/ AddVersion(q)
    \/ SetLatest(q) \/ LoadVersion(q) \/ UpdateLatest(q) \/ Reload(q)
    \/ LoadCurrent(q) \/ SaveLatest(q)
    \/ Delete(q) \/ ListBlobs(q) \/ DeleteBlob(q) \/ Fails(q)

Next == \E q \in Requests : RequestStep(q)

Spec == Init /\ [][Next]_vars

-----------------------------------------------------------------------------
(***************************************************************************)
(* Properties.                                                             *)
(***************************************************************************)
(* Type invariant: the store and the progress of every request.            *)
TypeOK ==
    /\ provider \in Providers /\ clients \in {"serial", "concurrent"}
    /\ ask \in [Requests -> Asks]
    /\ current \in Records \union {None}
    /\ etag \in Nat
    /\ IF provider # "azure" THEN snapshots \in Seq(Records)
       ELSE /\ DOMAIN snapshots \subseteq Nat
            /\ \A n \in DOMAIN snapshots : snapshots[n] \in Records /\ snapshots[n].version = n
    /\ pc \in [Requests -> {"new"} \union Calls \union Outcomes]
    /\ number \in [Requests -> Nat]
    /\ seen \in [Requests -> Records \union {None}]
    /\ seenEtag \in [Requests -> Nat]
    /\ out \in [Requests -> Records \union {None}]
    /\ listed \in [Requests -> SUBSET Nat]
    /\ removed \subseteq Requests

(* SQL Server reads the snapshot and writes the record in two calls of a   *)
(* transaction that does not lock what it has read: the record may return  *)
(* to a snapshot that a delete has removed in between.                     *)
ReturnedToDeleted ==
    /\ provider = "sqlserver" /\ ~Serial
    /\ \E q \in Requests : Op(q) = "setLatestVersion" /\ seen[q] = current
    /\ \E d \in Requests : Op(d) = "delete" /\ pc[d] = "ok"

(* The record is one of the versions, so that a rollback can return to it: *)
(* it has its snapshot unless the request that wrote it has yet to store   *)
(* one, or failed in between (update, addVersion, setLatestVersion), or a  *)
(* delete ran through a rollback of SQL Server.  With blobs this needs     *)
(* clients that wait: two updates that overlap get the same number, and    *)
(* the snapshot of one replaces the other's.                               *)
CurrentSnapshotted ==
    current # None /\ (provider # "azure" \/ Serial) =>
        \/ current \in {snapshots[i] : i \in DOMAIN snapshots}
        \/ \E q \in Requests : out[q] = current /\ pc[q] \in {"addVersion", "error"}
        \/ ReturnedToDeleted

Writes(q) == Op(q) \in Creates \union {"update"}

(* The version that was acknowledged to q is what setLatestVersion finds   *)
(* under its number.                                                       *)
Kept(q) ==
    LET found == Numbered(out[q].version)
    IN  found # {} /\ snapshots[Min(found)] = out[q]

(* Version numbers identify versions until the first rollback: whatever a  *)
(* create or an update was answered can be restored by its number, as long *)
(* as nothing is deleted and clients wait for each other (update,          *)
(* addVersion).  After a rollback numbers are given a second time.         *)
VersionsKeptWithoutRollback ==
    Serial /\ (\A q \in Requests : Op(q) \notin {"delete", "setLatestVersion"}) =>
        \A q \in Requests : pc[q] = "ok" /\ Writes(q) => Kept(q)

(* The versions of an assistant can be relied on: the record is one of     *)
(* them, and each is found under its number (update, addVersion,           *)
(* setLatestVersion).                                                      *)
VersionsReliable == CurrentSnapshotted /\ VersionsKeptWithoutRollback

(* Deleting an assistant leaves none of its snapshots: in SQL never, in    *)
(* memory and with blobs if no other request runs meanwhile and the delete *)
(* does not fail half way (delete, addVersion).                            *)
DeletedGone ==
    /\ current = None
    /\ \/ provider \in Sql
       \/ Serial /\ Idle /\ \A q \in Requests : Op(q) = "delete" => pc[q] # "error"
    => DOMAIN snapshots = {}

(* A deleted assistant comes back only if it is created again: no update   *)
(* and no rollback that was under way revives it (update, setLatestVersion,*)
(* delete).  In memory this needs clients that wait: a snapshot stored     *)
(* after the delete can be rolled back to.                                 *)
NoResurrection ==
    [][ provider # "memory" \/ Serial =>
          (current = None /\ current' # None => \E q \in Requests : pc[q] = "create") ]_vars

(* What is deleted stays deleted, its versions too (delete).               *)
DeletedForGood == []DeletedGone /\ NoResurrection

(* An acknowledged update of one field is not undone by an update of       *)
(* another that ran at the same time: in memory because the merge is one   *)
(* step, with blobs because of the etag (update).  In SQL it is.           *)
FieldsKept ==
    (provider \notin Sql \/ Serial) /\ (\A q \in Requests : Op(q) = "update") =>
        \A q \in Requests :
            pc[q] = "ok" /\ (\A p \in Requests : ask[p].field = ask[q].field => p = q) =>
                current.fields[ask[q].field] = q
=============================================================================
