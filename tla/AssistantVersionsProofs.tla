----------------------- MODULE AssistantVersionsProofs -----------------------
(***************************************************************************)
(* Proofs about AssistantVersions, for any requests and fields and any     *)
(* overlap of requests: what versions can be relied on, which updates are  *)
(* kept, and that what is deleted stays deleted.                           *)
(***************************************************************************)
EXTENDS AssistantVersions, WellFoundedInduction, TLAPS

-----------------------------------------------------------------------------
(***************************************************************************)
(* The inductive invariant.                                                *)
(***************************************************************************)
Snapshots == {snapshots[i] : i \in DOMAIN snapshots}
Active(q) == pc[q] \in Calls

(* What a request that makes a call asks for, and has read.                *)
CallOK(q) ==
    /\ pc[q] \notin {"new", "error", "conflict", "kept", "notFound", "ok"} => number[q] # 0
    /\ pc[q] \in {"update", "save"} => Op(q) \in {"update", "createOrUpdate"}
    /\ pc[q] = "create" => Op(q) \in Creates
    /\ pc[q] = "save" => seen[q] \in Records /\ provider # "memory"
    /\ pc[q] = "addVersion" => out[q] \in Records /\ Op(q) \in Creates \union {"update"}
    /\ pc[q] \in {"setLatest", "updateLatest", "reload", "loadCurrent", "saveLatest"} =>
          Op(q) = "setLatestVersion"
    /\ pc[q] \in {"new", "setLatest"} => seen[q] = None
    /\ pc[q] = "updateLatest" => seen[q] \in Records /\ provider = "sqlserver"
    /\ pc[q] \in {"loadCurrent", "saveLatest"} => seen[q] \in Records /\ provider = "azure"
    /\ pc[q] \in {"delete", "deleteBlobs"} => Op(q) = "delete"
    /\ pc[q] = "deleteBlobs" => listed[q] # {} /\ provider = "azure"

TypeInv == TypeOK /\ \A q \in Requests : CallOK(q)

(* One request at a time: what it has read is what is there, and it finds  *)
(* the assistant as it left it.                                            *)
AloneOK(q) ==
    /\ Active(q) => \A r \in Requests : Active(r) => r = q
    /\ pc[q] = "create" => current = None
    /\ pc[q] \in {"update", "save", "addVersion", "setLatest", "updateLatest"} => current # None
    /\ pc[q] = "save" => seen[q] = current
    /\ pc[q] = "addVersion" => out[q] = current
    /\ pc[q] \in {"updateLatest", "loadCurrent", "saveLatest"} => seen[q] \in Snapshots
    /\ pc[q] = "deleteBlobs" => listed[q] = BlobNames

SerialInv == Serial => \A q \in Requests : AloneOK(q)

(* Without a record there is no snapshot: in SQL always; for clients that  *)
(* wait unless a delete is under way or has failed.                        *)
GoneInv ==
    current = None =>
        /\ provider \in Sql => snapshots = <<>>
        /\ Serial /\ (\A q \in Requests : /\ Op(q) = "delete" => pc[q] # "error"
                                          /\ pc[q] # "deleteBlobs") => DOMAIN snapshots = {}

(* What a rollback of SQL Server has read is a snapshot still, unless a    *)
(* delete has removed it.                                                  *)
SomeDeleted == \E d \in Requests : Op(d) = "delete" /\ pc[d] = "ok"

RestoreInv ==
    \A q \in Requests : pc[q] = "updateLatest" => seen[q] \in Snapshots \/ SomeDeleted

(* The etag tells the record: with the etag that was read, so is the       *)
(* record.                                                                 *)
EtagInv ==
    provider = "azure" => \A q \in Requests : pc[q] = "save" =>
        /\ seenEtag[q] <= etag
        /\ seenEtag[q] = etag /\ current # None => seen[q] = current

(* Without deletes and rollbacks, and for clients that wait, versions are  *)
(* numbered one after the other.                                           *)
OnlyWrites == Serial /\ \A q \in Requests : Op(q) \notin {"delete", "setLatestVersion"}

NumbersInv ==
    OnlyWrites =>
        /\ \A i \in DOMAIN snapshots : current # None /\ snapshots[i].version <= current.version
        /\ \A i, j \in DOMAIN snapshots : snapshots[i].version = snapshots[j].version => i = j
        /\ \A q \in Requests :
              /\ pc[q] \in {"update", "save"} => number[q] = current.version + 1
              /\ pc[q] = "addVersion" =>
                    \A i \in DOMAIN snapshots : snapshots[i].version < out[q].version
              /\ pc[q] = "ok" /\ Writes(q) => out[q] \in Snapshots

(* Where all requests are updates, the only one of a field has its value   *)
(* there once it is written.                                               *)
OnlyUpdates == (provider \notin Sql \/ Serial) /\ \A q \in Requests : Op(q) = "update"

OnlyOfField(q) == \A p \in Requests : ask[p].field = ask[q].field => p = q

FieldsInv ==
    OnlyUpdates => \A q \in Requests : pc[q] \in {"addVersion", "ok"} =>
        current # None /\ (OnlyOfField(q) => current.fields[ask[q].field] = q)

VersionsInv ==
    /\ TypeInv /\ SerialInv /\ GoneInv /\ RestoreInv /\ EtagInv
    /\ CurrentSnapshotted /\ NumbersInv /\ FieldsInv

-----------------------------------------------------------------------------
(***************************************************************************)
(* Facts about the operators.                                              *)
(***************************************************************************)

(* A nonempty set of naturals has a least element.                         *)
LEMMA MinProperties ==
  ASSUME NEW S \in SUBSET Nat, S # {}
  PROVE  Min(S) \in S /\ \A n \in S : Min(S) <= n
<1>1. \E m \in S : \A n \in S : <<n, m>> \notin OpToRel(<, Nat)
  BY NatLessThanWellFounded, WFMin
<1>2. PICK m \in S : \A n \in S : <<n, m>> \notin OpToRel(<, Nat)  BY <1>1
<1>3. ASSUME NEW n \in S PROVE m <= n
  <2>1. ~(n < m)  BY <1>2 DEF OpToRel
  <2> QED  BY <2>1
<1> QED  BY <1>3 DEF Min

(* What a request of each kind says.                                       *)
LEMMA AskKinds ==
  ASSUME TypeOK, NEW q \in Requests
  PROVE  /\ Op(q) \in {"update", "createOrUpdate"} => ask[q].field \in Fields
         /\ Op(q) = "setLatestVersion" => ask[q].version \in Versions
         /\ Op(q) \in Creates \union {"update", "setLatestVersion", "delete"}
BY DEF TypeOK, Asks, Op, Creates

LEMMA CreatedType ==
  ASSUME NEW q \in Requests
  PROVE  Created(q) \in Records
BY DEF Created, Records

LEMMA MergedType ==
  ASSUME TypeOK, NEW q \in Requests, NEW record \in Records, number[q] # 0,
         Op(q) \in {"update", "createOrUpdate"}
  PROVE  Merged(record, q) \in Records
<1>1. number[q] \in Nat \ {0} /\ ask[q].field \in Fields  BY AskKinds DEF TypeOK
<1> QED  BY <1>1 DEF Merged, Records

(* The snapshots, as they are and with one more.                           *)
SnapshotsTyped ==
    IF provider # "azure" THEN snapshots \in Seq(Records)
    ELSE /\ DOMAIN snapshots \subseteq Nat \ {0}
         /\ \A n \in DOMAIN snapshots : snapshots[n] \in Records /\ snapshots[n].version = n

LEMMA SnapshotsElements ==
  ASSUME TypeOK
  PROVE  /\ SnapshotsTyped
         /\ DOMAIN snapshots \subseteq Nat \ {0}
         /\ \A i \in DOMAIN snapshots : snapshots[i] \in Records
<1>1. CASE provider = "azure"
  <2>1. \A n \in DOMAIN snapshots : snapshots[n].version = n /\ snapshots[n] \in Records
    BY <1>1 DEF TypeOK
  <2>2. \A n \in DOMAIN snapshots : n \in Nat \ {0}  BY <2>1 DEF Records
  <2> QED  BY <1>1, <2>1, <2>2 DEF SnapshotsTyped
<1>2. CASE provider # "azure"
  <2>1. snapshots \in Seq(Records)  BY <1>2 DEF TypeOK
  <2> QED  BY <1>2, <2>1 DEF SnapshotsTyped
<1> QED  BY <1>1, <1>2

LEMMA WithSnapshotType ==
  ASSUME TypeOK, provider' = provider, NEW record \in Records,
         snapshots' = WithSnapshot(record)
  PROVE  /\ SnapshotsTyped'
         /\ provider = "azure" => 
               /\ DOMAIN snapshots' = DOMAIN snapshots \union {record.version}
               /\ \A n \in DOMAIN snapshots' :
                     snapshots'[n] = IF n = record.version THEN record ELSE snapshots[n]
         /\ provider # "azure" => 
               /\ Len(snapshots') = Len(snapshots) + 1
               /\ snapshots'[Len(snapshots) + 1] = record
               /\ \A i \in DOMAIN snapshots : i \in DOMAIN snapshots' /\ snapshots'[i] = snapshots[i]
               /\ \A i \in DOMAIN snapshots' : i \in DOMAIN snapshots \/ i = Len(snapshots) + 1
<1>0. record.version \in Nat \ {0}  BY DEF Records
<1>1. CASE provider = "azure"
  <2>1. /\ DOMAIN snapshots' = DOMAIN snapshots \union {record.version}
        /\ \A n \in DOMAIN snapshots' :
              snapshots'[n] = IF n = record.version THEN record ELSE snapshots[n]
    BY <1>1 DEF WithSnapshot
  <2> QED  BY <1>0, <1>1, <2>1, SnapshotsElements DEF SnapshotsTyped
<1>2. CASE provider # "azure"
  <2>1. snapshots \in Seq(Records) /\ snapshots' = Append(snapshots, record)
    BY <1>2 DEF WithSnapshot, TypeOK
  <2> QED  BY <1>2, <2>1 DEF SnapshotsTyped
<1> QED  BY <1>1, <1>2

LEMMA WithoutSnapshot ==
  ASSUME TypeOK, provider' = provider, provider = "azure", NEW name,
         snapshots' = [n \in DOMAIN snapshots \ {name} |-> snapshots[n]]
  PROVE  /\ SnapshotsTyped'
         /\ DOMAIN snapshots' = DOMAIN snapshots \ {name}
         /\ \A n \in DOMAIN snapshots' : snapshots'[n] = snapshots[n]
<1>1. /\ DOMAIN snapshots' = DOMAIN snapshots \ {name}
      /\ \A n \in DOMAIN snapshots' : snapshots'[n] = snapshots[n]
  OBVIOUS
<1> QED  BY <1>1, SnapshotsElements DEF SnapshotsTyped

-----------------------------------------------------------------------------
(***************************************************************************)
(* Type correctness.                                                       *)
(***************************************************************************)

(* A step of q changes nothing that q' has read, and no step changes what  *)
(* is fixed.                                                               *)
LEMMA OthersStill ==
  ASSUME TypeOK, NEW q \in Requests, RequestStep(q)
  PROVE  /\ provider' = provider /\ clients' = clients /\ ask' = ask
         /\ \A r \in Requests \ {q} :
               /\ pc'[r] = pc[r] /\ number'[r] = number[r] /\ seen'[r] = seen[r]
               /\ seenEtag'[r] = seenEtag[r] /\ out'[r] = out[r] /\ listed'[r] = listed[r]
<1>1. CASE Get(q) \/ Create(q) \/ UpdateInMemory(q) \/ Load(q) \/ Save(q) \/ AddVersion(q)
  BY <1>1 DEF TypeOK, fixed, store, Goto, Get, Create, UpdateInMemory, Load, Save, AddVersion
<1>2. CASE \/ SetLatest(q) \/ LoadVersion(q) \/ UpdateLatest(q) \/ Reload(q)
           \/ LoadCurrent(q) \/ SaveLatest(q)
  BY <1>2 DEF TypeOK, fixed, store, Goto, SetLatest, LoadVersion, UpdateLatest, Reload,
              LoadCurrent, SaveLatest
<1>3. CASE Delete(q) \/ ListBlobs(q) \/ DeleteBlob(q) \/ Fails(q)
  BY <1>3 DEF TypeOK, fixed, store, Goto, Delete, ListBlobs, DeleteBlob, Fails
<1> QED  BY <1>1, <1>2, <1>3 DEF RequestStep

LEMMA TypeInitially == Init => TypeInv
<1> SUFFICES ASSUME Init PROVE TypeInv  OBVIOUS
<1>1. Created(Earlier) \in Records  BY DEF Created, Records
<1>2. TypeOK
  <2>1. snapshots \in Seq(Records)  BY <1>1 DEF Init
  <2>2. \A n \in DOMAIN snapshots : n = 1 /\ snapshots[n] = Created(Earlier)  BY DEF Init
  <2>3. \A n \in DOMAIN snapshots : n = 1 /\ snapshots[n].version = 1 /\ snapshots[n] \in Records
    BY <1>1, <2>2 DEF Created
  <2> QED  BY <1>1, <2>1, <2>3 DEF Init, TypeOK
<1>3. \A q \in Requests : CallOK(q)
  BY DEF Init, CallOK
<1> QED  BY <1>2, <1>3 DEF TypeInv

LEMMA TypeKept ==
  ASSUME TypeInv, NEW q \in Requests, RequestStep(q)
  PROVE  TypeInv'
<1> USE DEF fixed, store, Goto, Put
<1>0. TypeOK /\ CallOK(q)  BY DEF TypeInv
<1>1. ASSUME NEW r \in Requests, r # q PROVE CallOK(r)'
  <2>1. CallOK(r)  BY DEF TypeInv
  <2> QED  BY <1>0, <1>1, <2>1, OthersStill DEF CallOK, Op
<1>2. SUFFICES TypeOK' /\ CallOK(q)'  BY <1>1, <1>2 DEF TypeInv
<1>3. CASE Get(q)
  <2>1. NextNumber \in Nat \ {0}  BY <1>0 DEF TypeOK, NextNumber, Records
  <2>2. AfterGet(q) \in Calls \union Outcomes
    BY <1>0, AskKinds DEF AfterGet, Calls, Outcomes, Creates
  <2>3. TypeOK'  BY <1>0, <1>3, <2>1, <2>2 DEF TypeOK, Get
  <2>4. CallOK(q)'
    <3>1. pc'[q] = AfterGet(q) /\ number'[q] = NextNumber  BY <1>0, <1>3 DEF Get, TypeOK
    <3> QED  BY <1>3, <2>1, <3>1, <1>0, AskKinds DEF CallOK, AfterGet, Op, Get, Creates
  <2> QED  BY <2>3, <2>4
<1>4. CASE Create(q)
  <2>1. Created(q) \in Records  BY CreatedType
  <2>2. TypeOK'
    <3>1. /\ current' \in Records \union {None} /\ etag' \in Nat
          /\ out' \in [Requests -> Records \union {None}]
      BY <1>0, <1>4, <2>1 DEF TypeOK, Create
    <3>2. pc' \in [Requests -> {"new"} \union Calls \union Outcomes]
      BY <1>0, <1>4 DEF TypeOK, Create, Calls, Outcomes
    <3> QED  BY <1>0, <1>4, <3>1, <3>2 DEF TypeOK, Create
  <2>3. CallOK(q)'  BY <1>0, <1>4, <2>1 DEF TypeOK, CallOK, Create, Op, Creates
  <2> QED  BY <2>2, <2>3
<1>5. CASE UpdateInMemory(q)
  <2>1. current # None => Merged(current, q) \in Records
    BY <1>0, <1>5, MergedType DEF TypeOK, CallOK, UpdateInMemory
  <2>2. TypeOK'
    <3>1. /\ current' \in Records \union {None} /\ etag' \in Nat
          /\ out' \in [Requests -> Records \union {None}]
      <4>1. CASE current = None  BY <1>0, <1>5, <4>1 DEF TypeOK, UpdateInMemory
      <4>2. CASE current # None
        <5>1. current' = Merged(current, q) /\ etag' = etag + 1
              /\ out' = [out EXCEPT ![q] = Merged(current, q)]
          BY <1>5, <4>2 DEF UpdateInMemory
        <5> QED  BY <1>0, <2>1, <4>2, <5>1 DEF TypeOK
      <4> QED  BY <4>1, <4>2
    <3>2. pc' \in [Requests -> {"new"} \union Calls \union Outcomes]
      BY <1>0, <1>5 DEF TypeOK, UpdateInMemory, Calls, Outcomes
    <3> QED  BY <1>0, <1>5, <3>1, <3>2 DEF TypeOK, UpdateInMemory
  <2>3. CallOK(q)'  BY <1>0, <1>5, <2>1 DEF TypeOK, CallOK, UpdateInMemory, Op, Creates
  <2> QED  BY <2>2, <2>3
<1>6. CASE Load(q)
  BY <1>0, <1>6 DEF TypeOK, CallOK, Load, Calls, Outcomes, Op, Creates
<1>7. CASE Save(q)
  <2>1. Merged(seen[q], q) \in Records
    BY <1>0, <1>7, MergedType DEF TypeOK, CallOK, Save
  <2>2. TypeOK'
    <3>1. /\ current' \in Records \union {None} /\ etag' \in Nat
          /\ out' \in [Requests -> Records \union {None}]
      BY <1>0, <1>7, <2>1 DEF TypeOK, Save
    <3>2. pc' \in [Requests -> {"new"} \union Calls \union Outcomes]
      BY <1>0, <1>7 DEF TypeOK, Save, Calls, Outcomes
    <3> QED  BY <1>0, <1>7, <3>1, <3>2 DEF TypeOK, Save
  <2>3. CallOK(q)'  BY <1>0, <1>7, <2>1 DEF TypeOK, CallOK, Save, Op, Creates
  <2> QED  BY <2>2, <2>3
<1>8. CASE AddVersion(q)
  <2>1. out[q] \in Records  BY <1>0, <1>8 DEF CallOK, AddVersion
  <2>2. SnapshotsTyped'
    BY <1>0, <1>8, <2>1, WithSnapshotType, SnapshotsElements DEF AddVersion, SnapshotsTyped
  <2>3. pc' \in [Requests -> {"new"} \union Calls \union Outcomes] /\ pc'[q] \in Outcomes
    BY <1>0, <1>8 DEF TypeOK, AddVersion, Calls, Outcomes
  <2>4. TypeOK'  BY <1>0, <1>8, <2>2, <2>3 DEF TypeOK, AddVersion, SnapshotsTyped
  <2>5. CallOK(q)'  BY <2>3 DEF CallOK, Outcomes
  <2> QED  BY <2>4, <2>5
<1>9. CASE SetLatest(q)
  <2>1. \A i \in Restorable(q) : snapshots[i] \in Records
    BY <1>0, SnapshotsElements DEF Restorable, Numbered
  <2>2. current' \in Records \union {None} /\ etag' \in Nat
    BY <1>0, <1>9, <2>1 DEF TypeOK, SetLatest
  <2>3. pc' \in [Requests -> {"new"} \union Calls \union Outcomes] /\ pc'[q] \in Outcomes
    BY <1>0, <1>9 DEF TypeOK, SetLatest, Calls, Outcomes
  <2>4. TypeOK'  BY <1>0, <1>9, <2>2, <2>3 DEF TypeOK, SetLatest
  <2>5. CallOK(q)'  BY <2>3 DEF CallOK, Outcomes
  <2> QED  BY <2>4, <2>5
<1>10. CASE LoadVersion(q)
  <2>1. \A i \in Restorable(q) : snapshots[i] \in Records
    BY <1>0, SnapshotsElements DEF Restorable, Numbered
  <2> QED  BY <1>0, <1>10, <2>1 DEF TypeOK, CallOK, LoadVersion, Calls, Outcomes, Op
<1>11. CASE UpdateLatest(q) \/ Reload(q)
  <2>1. pc' \in [Requests -> {"new"} \union Calls \union Outcomes]
    <3>1. PICK step \in {"reload", "notFound", "ok"} : pc' = [pc EXCEPT ![q] = step]
      BY <1>11 DEF UpdateLatest, Reload
    <3> QED  BY <1>0, <3>1 DEF TypeOK, Calls, Outcomes
  <2>2. current' \in Records \union {None} /\ etag' \in Nat
    BY <1>0, <1>11 DEF TypeOK, CallOK, UpdateLatest, Reload
  <2>3. TypeOK'  BY <1>0, <1>11, <2>1, <2>2 DEF TypeOK, UpdateLatest, Reload
  <2>4. CallOK(q)'  BY <1>0, <1>11 DEF TypeOK, CallOK, UpdateLatest, Reload, Op
  <2> QED  BY <2>3, <2>4
<1>17. CASE LoadCurrent(q)
  BY <1>0, <1>17 DEF TypeOK, CallOK, LoadCurrent, Calls, Outcomes, Op
<1>12. CASE SaveLatest(q)
  BY <1>0, <1>12 DEF TypeOK, CallOK, SaveLatest, Calls, Outcomes
<1>13. CASE Delete(q)
  <2>1. <<>> \in Seq(Records)  OBVIOUS
  <2> QED  BY <1>0, <1>13, <2>1 DEF TypeOK, CallOK, Delete, Calls, Outcomes
<1>14. CASE ListBlobs(q)
  <2>1. BlobNames \subseteq Nat  BY <1>0, SnapshotsElements DEF BlobNames
  <2> QED  BY <1>0, <1>14, <2>1 DEF TypeOK, CallOK, ListBlobs, Calls, Outcomes, Op
<1>15. CASE DeleteBlob(q)
  <2>1. provider = "azure" /\ provider' = provider  BY <1>0, <1>15 DEF DeleteBlob, CallOK
  <2>2. SnapshotsTyped'
    BY <1>0, <1>15, <2>1, WithoutSnapshot, SnapshotsElements DEF DeleteBlob, SnapshotsTyped
  <2>3. TypeOK'
    BY <1>0, <1>15, <2>1, <2>2 DEF TypeOK, DeleteBlob, Calls, Outcomes, SnapshotsTyped
  <2>4. CallOK(q)'
    BY <1>0, <1>15, <2>1 DEF TypeOK, CallOK, DeleteBlob, Op
  <2> QED  BY <2>3, <2>4
<1>16. CASE Fails(q)
  BY <1>0, <1>16 DEF TypeOK, CallOK, Fails, Calls, Outcomes
<1> QED
  BY <1>3, <1>4, <1>5, <1>6, <1>7, <1>8, <1>9, <1>10, <1>11, <1>12, <1>13, <1>14, <1>15, <1>16,
     <1>17
  DEF RequestStep

-----------------------------------------------------------------------------
(***************************************************************************)
(* Clients that wait.                                                      *)
(***************************************************************************)

(* Only Get starts a request; every other step is of a call that is made.  *)
LEMMA StepIsCall ==
  ASSUME NEW q \in Requests, RequestStep(q), ~Get(q)
  PROVE  Active(q)
BY DEF RequestStep, Active, Calls, Create, UpdateInMemory, Load, Save, AddVersion, SetLatest,
       LoadVersion, UpdateLatest, Reload, LoadCurrent, SaveLatest, Delete, ListBlobs, DeleteBlob, Fails

LEMMA OthersIdle ==
  ASSUME TypeInv, SerialInv, Serial, NEW q \in Requests, RequestStep(q),
         NEW r \in Requests \ {q}
  PROVE  pc[r] \notin Calls /\ pc'[r] = pc[r] /\ out'[r] = out[r]
<1>1. CASE Get(q)  BY <1>1, OthersStill DEF Get, Idle, TypeInv
<1>2. CASE ~Get(q)
  <2>1. Active(q)  BY <1>2, StepIsCall
  <2> QED  BY <2>1, OthersStill DEF SerialInv, AloneOK, Active, TypeInv
<1> QED  BY <1>1, <1>2

LEMMA SnapshotsKept ==
  ASSUME snapshots' = snapshots
  PROVE  Snapshots' = Snapshots
BY DEF Snapshots

LEMMA SerialKept ==
  ASSUME TypeInv, SerialInv, NEW q \in Requests, RequestStep(q)
  PROVE  SerialInv'
<1> USE DEF fixed, store, Goto, Put
<1> SUFFICES ASSUME Serial PROVE \A r \in Requests : AloneOK(r)'
  BY OthersStill DEF SerialInv, Serial, TypeInv
<1>0. TypeOK /\ CallOK(q) /\ AloneOK(q)  BY DEF TypeInv, SerialInv
<1>1. \A r \in Requests \ {q} : ~Active(r)'  BY OthersIdle DEF Active
<1>2. ASSUME NEW r \in Requests, r # q PROVE AloneOK(r)'
  BY <1>1, <1>2 DEF AloneOK, Active, Calls
<1>3. SUFFICES AloneOK(q)'  BY <1>2, <1>3
<1>4. \A r \in Requests : Active(r)' => r = q  BY <1>1
<1>5. ASSUME pc'[q] \notin Calls PROVE AloneOK(q)'
  BY <1>5 DEF AloneOK, Active, Calls
<1>6. CASE Get(q)
  <2>1. pc'[q] = AfterGet(q) /\ current' = current  BY <1>0, <1>6 DEF Get, TypeOK
  <2>2. pc'[q] = "create" => current = None
    BY <1>0, <2>1, AskKinds DEF AfterGet, Creates
  <2>3. pc'[q] \in {"update", "setLatest"} => current # None
    BY <1>0, <2>1, AskKinds DEF AfterGet, Creates
  <2>4. pc'[q] \notin {"save", "addVersion", "updateLatest", "loadCurrent", "saveLatest",
                       "deleteBlobs"}
    BY <1>0, <2>1, AskKinds DEF AfterGet, Creates
  <2> QED  BY <1>4, <2>1, <2>2, <2>3, <2>4 DEF AloneOK
<1>7. CASE Create(q)
  <2>1. current' = Created(q) /\ out'[q] = Created(q) /\ pc'[q] = "addVersion"
    BY <1>0, <1>7 DEF Create, TypeOK, AloneOK
  <2>2. current' # None  BY <2>1, CreatedType, NoneAssumption
  <2> QED  BY <1>4, <2>1, <2>2 DEF AloneOK
<1>8. CASE UpdateInMemory(q)
  <2>1. current # None  BY <1>0, <1>8 DEF UpdateInMemory, AloneOK
  <2>2. current' = Merged(current, q) /\ out'[q] = Merged(current, q) /\ pc'[q] = "addVersion"
    BY <1>0, <1>8, <2>1 DEF UpdateInMemory, TypeOK
  <2>3. current' \in Records
    BY <1>0, <1>8, <2>1, <2>2, MergedType DEF UpdateInMemory, TypeOK, CallOK
  <2> QED  BY <1>4, <2>2, <2>3, NoneAssumption DEF AloneOK
<1>9. CASE Load(q)
  <2>1. pc'[q] = "save" /\ current' = current /\ seen'[q] = current /\ current # None
    BY <1>0, <1>9 DEF Load, TypeOK, AloneOK
  <2> QED  BY <1>4, <2>1 DEF AloneOK
<1>10. CASE Save(q)
  <2>1. CASE pc'[q] \in Calls
    <3>1. /\ pc'[q] = "addVersion"
          /\ current' = Merged(seen[q], q) /\ out'[q] = Merged(seen[q], q)
      BY <1>0, <1>10, <2>1 DEF Save, TypeOK, AloneOK, Calls
    <3>2. current' \in Records
      BY <1>0, <1>10, <3>1, MergedType DEF Save, TypeOK, CallOK
    <3> QED  BY <1>4, <3>1, <3>2, NoneAssumption DEF AloneOK
  <2> QED  BY <1>5, <2>1
<1>11. CASE AddVersion(q)  BY <1>0, <1>5, <1>11 DEF AddVersion, TypeOK, Calls
<1>12. CASE SetLatest(q)  BY <1>0, <1>5, <1>12 DEF SetLatest, TypeOK, Calls
<1>13. CASE LoadVersion(q)
  <2>1. CASE pc'[q] \in Calls
    <3>1. /\ pc'[q] \in {"loadCurrent", "updateLatest"} /\ snapshots' = snapshots
          /\ seen'[q] \in Snapshots /\ current' = current /\ current # None
      BY <1>0, <1>13, <2>1 DEF LoadVersion, TypeOK, Calls, Restorable, Numbered, Snapshots, AloneOK
    <3> QED  BY <1>4, <3>1, SnapshotsKept DEF AloneOK
  <2> QED  BY <1>5, <2>1
<1>20. CASE UpdateLatest(q) \/ Reload(q)
  <2>1. pc'[q] \in {"reload", "notFound", "ok"}
    BY <1>0, <1>20 DEF UpdateLatest, Reload, TypeOK
  <2> QED  BY <1>4, <2>1 DEF AloneOK
<1>14. CASE LoadCurrent(q)
  <2>1. /\ pc'[q] \in {"notFound", "saveLatest"} /\ snapshots' = snapshots
        /\ seen'[q] = seen[q] /\ pc[q] = "loadCurrent"
    BY <1>0, <1>14 DEF LoadCurrent, TypeOK
  <2> QED  BY <1>0, <1>4, <2>1, SnapshotsKept DEF AloneOK
<1>15. CASE SaveLatest(q)  BY <1>0, <1>5, <1>15 DEF SaveLatest, TypeOK, Calls
<1>16. CASE Delete(q)  BY <1>0, <1>5, <1>16 DEF Delete, TypeOK, Calls
<1>17. CASE ListBlobs(q)
  <2>1. /\ pc'[q] \in {"notFound", "deleteBlobs"}
        /\ listed'[q] = BlobNames /\ snapshots' = snapshots /\ current' = current
    BY <1>0, <1>17 DEF ListBlobs, TypeOK
  <2>2. BlobNames' = BlobNames  BY <2>1 DEF BlobNames
  <2> QED  BY <1>4, <2>1, <2>2 DEF AloneOK
<1>18. CASE DeleteBlob(q)
  <2> DEFINE name == Min(listed[q])
  <2>1. CASE pc'[q] \in Calls
    <3>1. /\ pc'[q] = "deleteBlobs" /\ listed[q] = BlobNames /\ provider = "azure"
          /\ listed'[q] = listed[q] \ {name}
      BY <1>0, <1>18, <2>1 DEF DeleteBlob, TypeOK, Calls, AloneOK, CallOK
    <3>2. 0 \notin DOMAIN snapshots  BY <1>0, SnapshotsElements
    <3>3. CASE name = 0
      <4>1. current' = None /\ snapshots' = snapshots  BY <1>18, <3>3 DEF DeleteBlob
      <4>2. BlobNames' = BlobNames \ {name}  BY <3>2, <3>3, <4>1 DEF BlobNames
      <4> QED  BY <1>4, <3>1, <4>2 DEF AloneOK
    <3>4. CASE name # 0
      <4>1. current' = current /\ snapshots' = [n \in DOMAIN snapshots \ {name} |-> snapshots[n]]
        BY <1>18, <3>4 DEF DeleteBlob
      <4>2. BlobNames' = BlobNames \ {name}  BY <3>2, <3>4, <4>1 DEF BlobNames
      <4> QED  BY <1>4, <3>1, <4>2 DEF AloneOK
    <3> QED  BY <3>3, <3>4
  <2> QED  BY <1>5, <2>1
<1>19. CASE Fails(q)  BY <1>0, <1>5, <1>19 DEF Fails, TypeOK, Calls
<1> QED
  BY <1>6, <1>7, <1>8, <1>9, <1>10, <1>11, <1>12, <1>13, <1>14, <1>15, <1>16, <1>17, <1>18, <1>19,
     <1>20
  DEF RequestStep

-----------------------------------------------------------------------------
(***************************************************************************)
(* What a step does to the store.                                          *)
(***************************************************************************)

(* q writes the record that it gives the assistant.                        *)
Wrote(q) ==
    /\ pc[q] \in {"create", "update", "save"} /\ pc'[q] = "addVersion"
    /\ out'[q] \in Records
    /\ Put(out'[q]) /\ snapshots' = snapshots
    /\ pc[q] = "create" => out'[q] = Created(q)
    /\ pc[q] = "update" => /\ provider = "memory" /\ out'[q] = Merged(current, q)
                           /\ current # None
    /\ pc[q] = "save" => /\ out'[q] = Merged(seen[q], q)
                         /\ provider = "azure" => EtagMatches(q)
                         /\ current # None

(* q stores its snapshot.                                                  *)
Snapped(q) ==
    /\ pc[q] = "addVersion" /\ pc'[q] = "ok" /\ out' = out
    /\ provider \in Sql => current # None
    /\ current' = current /\ etag' = etag
    /\ snapshots' = WithSnapshot(out[q])

(* q returns to a version, in one step or to what it has read.             *)
RolledBack(q) ==
    /\ pc'[q] \in {"ok", "reload"} /\ Op(q) = "setLatestVersion" /\ out' = out
    /\ \/ /\ pc[q] = "setLatest" /\ provider # "azure"
          /\ provider \in Sql => current # None
          /\ \E record \in Snapshots : Put(record)
       \/ /\ pc[q] = "updateLatest" /\ provider = "sqlserver" /\ current # None
          /\ seen' = seen /\ Put(seen[q])
       \/ pc[q] = "saveLatest" /\ provider = "azure" /\ EtagMatches(q) /\ Put(seen[q])
    /\ snapshots' = snapshots

(* q deletes everything at once, or one blob.                                      *)
Deleted(q) ==
    /\ Op(q) = "delete" /\ out' = out /\ etag' = etag
    /\ \/ /\ pc[q] = "delete" /\ provider # "azure"
          /\ pc'[q] = IF current = None THEN "notFound" ELSE "ok"
          /\ current' = None /\ snapshots' = <<>>
       \/ DeleteBlob(q)

(* The store stays as it is.  Only SQL reports a write that found no row.  *)
Unstored(q) ==
    /\ UNCHANGED store
    /\ pc'[q] = "addVersion" =>
          pc[q] = "save" /\ provider \in Sql /\ current = None /\ out'[q] \in Records
    /\ pc'[q] # "addVersion" => out'[q] = out[q]
    /\ pc'[q] = "ok" => Op(q) = "setLatestVersion"

(* Every step leaves the store alone or is one of these.                   *)
LEMMA StoreStep ==
  ASSUME TypeInv, NEW q \in Requests, RequestStep(q)
  PROVE  Unstored(q) \/ Wrote(q) \/ Snapped(q) \/ RolledBack(q) \/ Deleted(q)
<1> USE DEF fixed, store, Goto
<1>0. TypeOK /\ CallOK(q)  BY DEF TypeInv
<1>1. CASE Get(q)
  <2>1. AfterGet(q) \notin {"addVersion", "ok"}  BY <1>0, AskKinds DEF AfterGet, Creates
  <2> QED  BY <1>0, <1>1, <2>1 DEF Unstored, Get, TypeOK
<1>2. CASE \/ Load(q) \/ LoadVersion(q) \/ Reload(q) \/ LoadCurrent(q) \/ ListBlobs(q)
           \/ Fails(q)
  BY <1>0, <1>2 DEF Unstored, Load, LoadVersion, Reload, LoadCurrent, ListBlobs, Fails, TypeOK,
                    CallOK
<1>3. CASE Create(q)
  BY <1>0, <1>3, CreatedType DEF Unstored, Wrote, Create, TypeOK, Put
<1>4. CASE UpdateInMemory(q)
  <2>1. CASE current = None  BY <1>0, <1>4, <2>1 DEF Unstored, UpdateInMemory, TypeOK
  <2>2. CASE current # None
    <3>1. Merged(current, q) \in Records
      BY <1>0, <1>4, <2>2, MergedType DEF UpdateInMemory, TypeOK, CallOK
    <3> QED  BY <1>0, <1>4, <2>2, <3>1 DEF Wrote, UpdateInMemory, TypeOK, Put
  <2> QED  BY <2>1, <2>2
<1>5. CASE Save(q)
  <2>1. Merged(seen[q], q) \in Records /\ pc[q] = "save"
    BY <1>0, <1>5, MergedType DEF Save, TypeOK, CallOK
  <2>2. CASE provider = "azure" /\ ~EtagMatches(q)
    BY <1>0, <1>5, <2>2 DEF Unstored, Save, TypeOK, Sql
  <2>3. CASE ~(provider = "azure" /\ ~EtagMatches(q))
    <3>1. out' = [out EXCEPT ![q] = Merged(seen[q], q)] /\ pc' = [pc EXCEPT ![q] = "addVersion"]
          /\ snapshots' = snapshots
          /\ IF provider \in Sql /\ current = None THEN UNCHANGED <<current, etag>>
             ELSE Put(Merged(seen[q], q))
      BY <1>5, <2>3 DEF Save
    <3>2. out'[q] = Merged(seen[q], q) /\ pc'[q] = "addVersion"  BY <1>0, <3>1 DEF TypeOK
    <3>3. CASE provider \in Sql /\ current = None
      BY <2>1, <3>1, <3>2, <3>3 DEF Unstored
    <3>4. CASE ~(provider \in Sql /\ current = None)
      <4>1. provider \in Sql \union {"azure"}
        BY <1>0, <2>1 DEF CallOK, TypeOK, Providers
      <4>2. current # None  BY <2>3, <3>4, <4>1 DEF EtagMatches, Sql
      <4> QED  BY <2>1, <2>3, <3>1, <3>2, <3>4, <4>1, <4>2 DEF Wrote, Sql
    <3> QED  BY <3>3, <3>4
  <2> QED  BY <2>2, <2>3
<1>6. CASE AddVersion(q)
  BY <1>0, <1>6 DEF Unstored, Snapped, AddVersion, TypeOK
<1>7. CASE SetLatest(q)
  <2>1. Op(q) = "setLatestVersion" /\ pc[q] = "setLatest" /\ out' = out /\ snapshots' = snapshots
    BY <1>0, <1>7 DEF SetLatest, CallOK
  <2>2. CASE UNCHANGED <<current, etag>>
    <3>1. pc'[q] \in {"notFound", "ok"}  BY <1>0, <1>7 DEF SetLatest, TypeOK
    <3> QED  BY <2>1, <2>2, <3>1 DEF Unstored
  <2>3. CASE ~UNCHANGED <<current, etag>>
    <3>1. PICK i \in Restorable(q) :
             /\ ~(provider \in Sql /\ current = None) /\ Put(snapshots[i])
             /\ pc' = [pc EXCEPT ![q] = "ok"]
      BY <1>0, <1>7, <2>3 DEF SetLatest, Sql, TypeOK, Providers
    <3>2. snapshots[i] \in Snapshots  BY <3>1 DEF Restorable, Numbered, Snapshots
    <3>3. pc'[q] = "ok" /\ provider # "azure"  BY <1>0, <1>7, <3>1 DEF SetLatest, TypeOK
    <3> QED  BY <2>1, <3>1, <3>2, <3>3 DEF RolledBack
  <2> QED  BY <2>2, <2>3
<1>8. CASE UpdateLatest(q) \/ SaveLatest(q)
  BY <1>0, <1>8 DEF Unstored, RolledBack, UpdateLatest, SaveLatest, TypeOK, CallOK, Op
<1>9. CASE Delete(q)
  BY <1>0, <1>9 DEF Deleted, Delete, TypeOK, CallOK, Op
<1>10. CASE DeleteBlob(q)
  BY <1>0, <1>10 DEF Deleted, DeleteBlob, CallOK, Op
<1> QED
  BY <1>1, <1>2, <1>3, <1>4, <1>5, <1>6, <1>7, <1>8, <1>9, <1>10 DEF RequestStep

(* Where a request comes from.                                             *)
LEMMA CallStep ==
  ASSUME TypeInv, NEW q \in Requests, RequestStep(q)
  PROVE  /\ pc[q] \in Calls \union {"new"}
         /\ pc'[q] = "update" => Get(q)
         /\ pc'[q] = "save" => Load(q)
         /\ pc'[q] = "updateLatest" => LoadVersion(q)
         /\ pc[q] = "addVersion" => pc'[q] \in {"ok", "error"}
         /\ pc[q] = "deleteBlobs" => DeleteBlob(q) \/ Fails(q)
<1>0. TypeOK  BY DEF TypeInv
<1>1. CASE Get(q)
  <2>1. pc'[q] = AfterGet(q)  BY <1>0, <1>1 DEF Get, Goto, TypeOK
  <2>2. AfterGet(q) \notin {"save", "updateLatest"}  BY <1>0, AskKinds DEF AfterGet, Creates
  <2> QED  BY <1>1, <2>1, <2>2 DEF Get
<1>2. CASE Create(q) \/ UpdateInMemory(q) \/ Load(q) \/ Save(q) \/ AddVersion(q) \/ Fails(q)
  BY <1>0, <1>2 DEF Create, UpdateInMemory, Load, Save, AddVersion, Fails, Goto, TypeOK, Calls
<1>3. CASE \/ SetLatest(q) \/ LoadVersion(q) \/ UpdateLatest(q) \/ Reload(q)
           \/ LoadCurrent(q) \/ SaveLatest(q)
  BY <1>0, <1>3 DEF SetLatest, LoadVersion, UpdateLatest, Reload, LoadCurrent, SaveLatest, Goto,
                    TypeOK, Calls
<1>4. CASE Delete(q) \/ ListBlobs(q) \/ DeleteBlob(q)
  BY <1>0, <1>4 DEF Delete, ListBlobs, DeleteBlob, Goto, TypeOK, Calls
<1> QED  BY <1>1, <1>2, <1>3, <1>4 DEF RequestStep

(* A record that is written or restored is a record.                       *)
LEMMA PutIsRecord ==
  ASSUME TypeInv, NEW q \in Requests, Wrote(q) \/ RolledBack(q)
  PROVE  current' \in Records /\ current' # None /\ etag' = etag + 1
<1>1. TypeOK /\ CallOK(q)  BY DEF TypeInv
<1>2. Snapshots \subseteq Records  BY <1>1, SnapshotsElements DEF Snapshots
<1>3. current' \in Records /\ etag' = etag + 1
  BY <1>1, <1>2 DEF Wrote, RolledBack, Put, CallOK
<1> QED  BY <1>3, NoneAssumption

(* What a delete of one blob leaves.                                       *)
LEMMA BlobDeleted ==
  ASSUME TypeInv, NEW q \in Requests, DeleteBlob(q)
  PROVE  /\ provider = "azure" /\ etag' = etag /\ Min(listed[q]) \in listed[q]
         /\ Min(listed[q]) = 0 => current' = None /\ snapshots' = snapshots
         /\ Min(listed[q]) # 0 =>
               /\ current' = current
               /\ DOMAIN snapshots' = DOMAIN snapshots \ {Min(listed[q])}
         /\ pc'[q] = "deleteBlobs" \/ listed[q] = {Min(listed[q])}
<1>1. TypeOK /\ CallOK(q)  BY DEF TypeInv
<1>2. provider = "azure" /\ listed[q] \in SUBSET Nat /\ listed[q] # {}
  BY <1>1 DEF DeleteBlob, CallOK, TypeOK
<1>3. Min(listed[q]) \in listed[q]  BY <1>2, MinProperties
<1> QED  BY <1>1, <1>2, <1>3 DEF DeleteBlob, Goto, TypeOK

-----------------------------------------------------------------------------
(***************************************************************************)
(* Each part of the invariant is kept.                                     *)
(***************************************************************************)
LEMMA EtagKept ==
  ASSUME TypeInv, EtagInv, NEW q \in Requests, RequestStep(q)
  PROVE  EtagInv'
<1>0. TypeOK /\ TypeOK'  BY TypeKept DEF TypeInv
<1> SUFFICES ASSUME provider = "azure", NEW r \in Requests, pc'[r] = "save"
             PROVE  /\ seenEtag'[r] <= etag'
                    /\ seenEtag'[r] = etag' /\ current' # None => seen'[r] = current'
  BY <1>0, OthersStill DEF EtagInv
<1>1. CASE r = q
  <2>1. Load(q)  BY <1>1, CallStep
  <2>2. seenEtag'[r] = etag' /\ seen'[r] = current'
    BY <1>0, <1>1, <2>1, pc'[r] = "save" DEF Load, Goto, store, TypeOK
  <2> QED  BY <1>0, <2>2 DEF TypeOK
<1>2. CASE r # q
  <2>1. /\ pc[r] = "save" /\ seenEtag'[r] = seenEtag[r] /\ seen'[r] = seen[r]
        /\ seenEtag[r] <= etag /\ (seenEtag[r] = etag /\ current # None => seen[r] = current)
        /\ seenEtag[r] \in Nat /\ etag \in Nat
    BY <1>0, <1>2, OthersStill DEF EtagInv, TypeOK
  <2>2. etag' = etag + 1 \/ (etag' = etag /\ current' \in {current, None})
    BY StoreStep, PutIsRecord, BlobDeleted DEF Unstored, Snapped, Deleted, store
  <2> QED  BY <2>1, <2>2
<1> QED  BY <1>1, <1>2

LEMMA GoneKept ==
  ASSUME TypeInv, SerialInv, GoneInv, NEW q \in Requests, RequestStep(q)
  PROVE  GoneInv'
<1>0. TypeOK /\ TypeOK' /\ CallOK(q) /\ (Serial => AloneOK(q))  BY TypeKept DEF TypeInv, SerialInv
<1>1. provider' = provider /\ Serial' = Serial /\ ask' = ask  BY <1>0, OthersStill DEF Serial
<1> SUFFICES ASSUME current' = None
             PROVE  /\ provider \in Sql => snapshots' = <<>>
                    /\ Serial /\ (\A r \in Requests : /\ Op(r) = "delete" => pc'[r] # "error"
                                                      /\ pc'[r] # "deleteBlobs")
                          => DOMAIN snapshots' = {}
  BY <1>1 DEF GoneInv, Op
<1>2. ~Wrote(q) /\ ~RolledBack(q)  BY PutIsRecord
<1>3. ASSUME provider \in Sql PROVE snapshots' = <<>>
  <2>1. ~DeleteBlob(q)  BY <1>3, BlobDeleted DEF Sql
  <2> QED  BY <1>2, <1>3, <2>1, StoreStep DEF Unstored, Snapped, Deleted, GoneInv, store
<1>4. ASSUME Serial,
             \A r \in Requests : /\ Op(r) = "delete" => pc'[r] # "error"
                                 /\ pc'[r] # "deleteBlobs"
      PROVE  DOMAIN snapshots' = {}
  <2>1. CASE DeleteBlob(q)
    <3>1. listed[q] = BlobNames /\ 0 \notin DOMAIN snapshots
      BY <1>0, <1>4, <2>1, SnapshotsElements DEF DeleteBlob, AloneOK
    <3>2. BlobNames = {Min(listed[q])}  BY <1>4, <2>1, <3>1, BlobDeleted
    <3>3. DOMAIN snapshots \subseteq {Min(listed[q])}  BY <3>2 DEF BlobNames
    <3> QED  BY <2>1, <3>1, <3>3, BlobDeleted
  <2>2. CASE Unstored(q) /\ ~DeleteBlob(q)
    <3>1. pc[q] # "error"  BY CallStep DEF Calls
    <3>2. pc[q] # "deleteBlobs"
      <4>1. SUFFICES ASSUME pc[q] = "deleteBlobs" PROVE FALSE  OBVIOUS
      <4>2. Fails(q) /\ Op(q) = "delete"  BY <1>0, <2>2, <4>1, CallStep DEF CallOK
      <4>3. pc'[q] = "error"  BY <1>0, <4>2 DEF Fails, Goto, TypeOK
      <4> QED  BY <1>4, <4>2, <4>3
    <3>3. \A r \in Requests : /\ Op(r) = "delete" => pc[r] # "error"
                              /\ pc[r] # "deleteBlobs"
      BY <1>0, <1>4, <3>1, <3>2, OthersStill
    <3> QED  BY <1>4, <2>2, <3>3 DEF GoneInv, Unstored, store
  <2>3. CASE Snapped(q)  BY <1>0, <1>4, <2>3 DEF Snapped, AloneOK
  <2>4. CASE Deleted(q) /\ ~DeleteBlob(q)  BY <2>4 DEF Deleted
  <2> QED  BY <1>2, <2>1, <2>2, <2>3, <2>4, StoreStep
<1> QED  BY <1>3, <1>4

(* What SQL Server's rollbacks have read loses its snapshot only to a      *)
(* delete that finds the assistant.                                        *)
LEMMA RestoreKept ==
  ASSUME TypeInv, GoneInv, RestoreInv, NEW q \in Requests, RequestStep(q)
  PROVE  RestoreInv'
<1>0. TypeOK /\ TypeOK' /\ CallOK(q)  BY TypeKept DEF TypeInv
<1>1. provider' = provider /\ ask' = ask  BY <1>0, OthersStill
<1> SUFFICES ASSUME NEW r \in Requests, pc'[r] = "updateLatest"
             PROVE  seen'[r] \in Snapshots' \/ SomeDeleted'
  BY DEF RestoreInv
<1>2. CASE r = q
  <2>1. LoadVersion(q)  BY <1>2, CallStep
  <2>2. seen'[r] \in Snapshots /\ snapshots' = snapshots
    BY <1>0, <1>2, <2>1, pc'[r] = "updateLatest"
    DEF LoadVersion, Goto, store, TypeOK, Restorable, Numbered, Snapshots
  <2> QED  BY <2>2, SnapshotsKept
<1>3. CASE r # q
  <2>1. pc[r] = "updateLatest" /\ seen'[r] = seen[r]  BY <1>0, <1>3, OthersStill
  <2>2. provider = "sqlserver"  BY <2>1 DEF TypeInv, CallOK
  <2>3. seen[r] \in Snapshots \/ SomeDeleted  BY <2>1 DEF RestoreInv
  <2>4. SomeDeleted => SomeDeleted'
    <3>1. pc[q] # "ok"  BY CallStep DEF Calls
    <3> QED  BY <1>0, <1>1, <3>1, OthersStill DEF SomeDeleted, Op
  <2>5. CASE Unstored(q) \/ Wrote(q) \/ RolledBack(q)
    <3>1. snapshots' = snapshots  BY <2>5 DEF Unstored, Wrote, RolledBack, store
    <3> QED  BY <2>1, <2>3, <2>4, <3>1, SnapshotsKept
  <2>6. CASE Snapped(q)
    <3>1. out[q] \in Records  BY <1>0, <2>6 DEF Snapped, CallOK
    <3>2. \A i \in DOMAIN snapshots : i \in DOMAIN snapshots' /\ snapshots'[i] = snapshots[i]
      BY <1>0, <1>1, <2>2, <2>6, <3>1, WithSnapshotType DEF Snapped
    <3>3. Snapshots \subseteq Snapshots'  BY <3>2 DEF Snapshots
    <3> QED  BY <2>1, <2>3, <2>4, <3>3
  <2>7. CASE Deleted(q)
    <3>1. ~DeleteBlob(q)  BY <2>2, BlobDeleted
    <3>2. pc'[q] = IF current = None THEN "notFound" ELSE "ok"  BY <2>7, <3>1 DEF Deleted
    <3>3. CASE current = None
      <4>1. snapshots = <<>>  BY <2>2, <3>3 DEF GoneInv, Sql
      <4>2. Snapshots = {}  BY <4>1 DEF Snapshots
      <4> QED  BY <2>3, <2>4, <4>2
    <3>4. CASE current # None
      <4>1. Op(q)' = "delete" /\ pc'[q] = "ok"  BY <1>1, <2>7, <3>2, <3>4 DEF Deleted, Op
      <4> QED  BY <4>1 DEF SomeDeleted
    <3> QED  BY <3>3, <3>4
  <2> QED  BY <2>5, <2>6, <2>7, StoreStep
<1> QED  BY <1>2, <1>3

(* As long as the record stays, so does what its rollback has read.        *)
LEMMA ReturnedStays ==
  ASSUME TypeInv, NEW q \in Requests, RequestStep(q),
         ReturnedToDeleted, current' = current, current # None
  PROVE  ReturnedToDeleted'
<1>0. TypeOK /\ CallOK(q)  BY DEF TypeInv
<1>1. provider' = provider /\ clients' = clients /\ ask' = ask  BY <1>0, OthersStill
<1>2. PICK s \in Requests : Op(s) = "setLatestVersion" /\ seen[s] = current
  BY DEF ReturnedToDeleted
<1>3. PICK d \in Requests : Op(d) = "delete" /\ pc[d] = "ok"  BY DEF ReturnedToDeleted
<1>4. pc'[d] = "ok"
  <2>1. d # q  BY <1>3, CallStep DEF Calls
  <2> QED  BY <1>0, <1>3, <2>1, OthersStill
<1>5. seen'[s] = seen[s]
  <2>1. CASE s # q  BY <1>0, <2>1, OthersStill
  <2>2. CASE s = q
    <3>1. pc[q] \notin {"new", "setLatest", "update"}  BY <1>0, <1>2, <2>2 DEF CallOK
    <3>2. ~Get(q) /\ ~Load(q) /\ ~LoadVersion(q)  BY <3>1 DEF Get, Load, LoadVersion
    <3> QED
      BY <2>2, <3>2 DEF RequestStep, Create, UpdateInMemory, Save, AddVersion, SetLatest,
         UpdateLatest, Reload, LoadCurrent, SaveLatest, Delete, ListBlobs, DeleteBlob, Fails
  <2> QED  BY <2>1, <2>2
<1> QED  BY <1>1, <1>2, <1>3, <1>4, <1>5 DEF ReturnedToDeleted, Serial, Op

LEMMA SnapshottedKept ==
  ASSUME TypeInv, SerialInv, RestoreInv, CurrentSnapshotted, NEW q \in Requests, RequestStep(q)
  PROVE  CurrentSnapshotted'
<1>0. TypeOK /\ TypeOK' /\ CallOK(q) /\ (Serial => AloneOK(q))  BY TypeKept DEF TypeInv, SerialInv
<1>1. provider' = provider /\ Serial' = Serial  BY <1>0, OthersStill DEF Serial
<1> DEFINE Pending(r) == out[r] = current /\ pc[r] \in {"addVersion", "error"}
<1> SUFFICES ASSUME current' # None, provider # "azure" \/ Serial
             PROVE  \/ current' \in Snapshots' \/ \E r \in Requests : Pending(r)'
                    \/ ReturnedToDeleted'
  BY <1>1 DEF CurrentSnapshotted, Snapshots
<1>2. CASE Wrote(q)
  <2>1. Pending(q)'  BY <1>2 DEF Wrote, Put
  <2> QED  BY <2>1
<1>3. ASSUME current' = current
      PROVE  /\ current \in Snapshots \/ (\E r \in Requests : Pending(r)) \/ ReturnedToDeleted'
             /\ \A r \in Requests \ {q} : Pending(r) => Pending(r)'
  <2>1. ReturnedToDeleted => ReturnedToDeleted'  BY <1>3, ReturnedStays
  <2> QED  BY <1>0, <1>3, <2>1, OthersStill DEF CurrentSnapshotted, Snapshots
<1>4. CASE Unstored(q)
  <2>1. current' = current /\ snapshots' = snapshots  BY <1>4 DEF Unstored, store
  <2>2. Pending(q) => Pending(q)'
    <3>1. SUFFICES ASSUME Pending(q) PROVE Pending(q)'  OBVIOUS
    <3>2. pc[q] = "addVersion"  BY <3>1, CallStep DEF Calls
    <3>3. pc'[q] = "error"  BY <1>0, <1>4, <3>2, CallStep DEF Unstored, CallOK, Creates
    <3> QED  BY <1>4, <2>1, <3>1, <3>3 DEF Unstored
  <2> QED  BY <1>3, <2>1, <2>2, SnapshotsKept
<1>5. CASE Snapped(q)
  <2>1. current' = current /\ out' = out /\ out[q] \in Records  BY <1>0, <1>5 DEF Snapped, CallOK
  <2>2. out[q] \in Snapshots'
    <3>1. /\ provider = "azure" => /\ out[q].version \in DOMAIN snapshots'
                                   /\ snapshots'[out[q].version] = out[q]
          /\ provider # "azure" => /\ snapshots'[Len(snapshots) + 1] = out[q]
                                   /\ Len(snapshots') = Len(snapshots) + 1
      BY <1>0, <1>1, <1>5, <2>1, WithSnapshotType DEF Snapped
    <3>2. provider # "azure" => Len(snapshots) + 1 \in DOMAIN snapshots'
      BY <1>0, <1>1, <3>1 DEF TypeOK
    <3> QED  BY <3>1, <3>2 DEF Snapshots
  <2>3. CASE provider = "azure"
    <3>1. out[q] = current  BY <1>0, <1>5, <2>3 DEF Snapped, AloneOK
    <3> QED  BY <2>1, <2>2, <3>1
  <2>4. CASE provider # "azure"
    <3>1. \A i \in DOMAIN snapshots : i \in DOMAIN snapshots' /\ snapshots'[i] = snapshots[i]
      BY <1>0, <1>1, <1>5, <2>1, <2>4, WithSnapshotType DEF Snapped
    <3>2. Snapshots \subseteq Snapshots'  BY <3>1 DEF Snapshots
    <3> QED  BY <1>3, <2>1, <2>2, <3>2
  <2> QED  BY <2>3, <2>4
<1>6. CASE RolledBack(q)
  <2>1. snapshots' = snapshots  BY <1>6 DEF RolledBack
  <2>2. CASE current' \in Snapshots  BY <2>1, <2>2, SnapshotsKept
  <2>3. CASE current' \notin Snapshots
    <3>1. ~Serial /\ pc[q] = "updateLatest" /\ provider = "sqlserver" /\ seen' = seen
          /\ current' = seen[q] /\ Op(q) = "setLatestVersion"
      BY <1>0, <1>6, <2>3 DEF RolledBack, Put, AloneOK
    <3>2. SomeDeleted  BY <2>3, <3>1 DEF RestoreInv
    <3>3. PICK d \in Requests : Op(d) = "delete" /\ pc[d] = "ok"  BY <3>2 DEF SomeDeleted
    <3>4. pc'[d] = "ok"  BY <1>0, <3>1, <3>3, OthersStill
    <3>5. ask' = ask  BY <1>0, OthersStill
    <3> QED  BY <1>1, <3>1, <3>3, <3>4, <3>5 DEF ReturnedToDeleted, Op
  <2> QED  BY <2>2, <2>3
<1>7. CASE Deleted(q)
  <2>1. DeleteBlob(q) /\ Serial  BY <1>7, BlobDeleted DEF Deleted
  <2>2. Min(listed[q]) # 0 /\ current # None  BY <2>1, BlobDeleted
  <2>3. 0 \in listed[q]  BY <1>0, <2>1, <2>2 DEF AloneOK, DeleteBlob, BlobNames
  <2>4. listed[q] \in SUBSET Nat  BY <1>0 DEF TypeOK
  <2>5. Min(listed[q]) \in Nat /\ Min(listed[q]) <= 0  BY <2>3, <2>4, MinProperties
  <2> QED  BY <2>2, <2>5
<1> QED  BY <1>2, <1>4, <1>5, <1>6, <1>7, StoreStep

LEMMA NumbersKept ==
  ASSUME TypeInv, SerialInv, NumbersInv, NEW q \in Requests, RequestStep(q)
  PROVE  NumbersInv'
<1>0. TypeOK /\ TypeOK' /\ CallOK(q)  BY TypeKept DEF TypeInv
<1>1. OnlyWrites' = OnlyWrites /\ provider' = provider /\ ask' = ask
  BY <1>0, OthersStill DEF OnlyWrites, Serial, Op
<1> SUFFICES ASSUME OnlyWrites PROVE NumbersInv'  BY <1>1 DEF NumbersInv
<1>2. Serial /\ AloneOK(q) /\ AloneOK(q)' /\ Op(q) \notin {"delete", "setLatestVersion"}
  BY <1>0, SerialKept, OthersStill DEF OnlyWrites, SerialInv, Serial
<1> DEFINE Lower(i, n) == snapshots[i].version < n
           Below    == \A i \in DOMAIN snapshots :
                          current # None /\ snapshots[i].version <= current.version
           Distinct == \A i, j \in DOMAIN snapshots :
                          snapshots[i].version = snapshots[j].version => i = j
           Request(r) ==
             /\ pc[r] \in {"update", "save"} => number[r] = current.version + 1
             /\ pc[r] = "addVersion" =>
                    \A i \in DOMAIN snapshots : snapshots[i].version < out[r].version
             /\ pc[r] = "ok" /\ Writes(r) => out[r] \in Snapshots
<1>3. Below /\ Distinct /\ \A r \in Requests : Request(r)  BY DEF NumbersInv
<1>4. SUFFICES Below' /\ Distinct' /\ \A r \in Requests : Request(r)'  BY DEF NumbersInv
<1>5. \A i \in DOMAIN snapshots : snapshots[i].version \in Nat
  BY <1>0, SnapshotsElements DEF Records
<1>6. ASSUME Snapshots \subseteq Snapshots', NEW r \in Requests, r # q PROVE Request(r)'
  <2>1. /\ pc'[r] = pc[r] /\ out'[r] = out[r] /\ pc[r] \notin {"update", "save", "addVersion"}
        /\ Writes(r)' = Writes(r)
    BY <1>1, <1>2, <1>6, OthersIdle DEF Calls, Writes, Op
  <2> QED  BY <1>3, <1>6, <2>1
<1>7. SUFFICES Below' /\ Distinct' /\ Request(q)' /\ Snapshots \subseteq Snapshots'
  BY <1>6
<1>8. CASE Unstored(q)
  <2>1. current' = current /\ snapshots' = snapshots  BY <1>8 DEF Unstored, store
  <2>2. pc'[q] \notin {"addVersion", "ok"}
    BY <1>2, <1>8 DEF Unstored, AloneOK
  <2>3. ASSUME pc'[q] = "update" PROVE number'[q] = current.version + 1
    <3>1. Get(q) /\ current # None  BY <1>2, <2>1, <2>3, CallStep DEF AloneOK
    <3> QED  BY <1>0, <3>1 DEF Get, NextNumber, TypeOK
  <2>4. ASSUME pc'[q] = "save" PROVE number'[q] = current.version + 1
    <3>1. Load(q)  BY <2>4, CallStep
    <3> QED  BY <1>3, <3>1 DEF Load
  <2> QED  BY <1>3, <2>1, <2>2, <2>3, <2>4, SnapshotsKept
<1>9. CASE Wrote(q)
  <2>1. /\ current' = out'[q] /\ snapshots' = snapshots /\ pc'[q] = "addVersion"
        /\ current' # None /\ current'.version \in Nat
    BY <1>9, PutIsRecord DEF Wrote, Put, Records
  <2>2. \A i \in DOMAIN snapshots : snapshots[i].version < current'.version
    <3>1. CASE pc[q] = "create"  BY <1>2, <1>3, <3>1 DEF AloneOK
    <3>2. CASE pc[q] \in {"update", "save"}
      <4>1. current'.version = number[q]  BY <1>9, <2>1, <3>2 DEF Wrote, Merged
      <4>2. number[q] = current.version + 1 /\ current \in Records
        BY <1>0, <1>2, <1>3, <3>2 DEF AloneOK, TypeOK
      <4>3. current.version \in Nat  BY <4>2 DEF Records
      <4> QED  BY <1>3, <1>5, <4>1, <4>2, <4>3
    <3> QED  BY <1>9, <3>1, <3>2 DEF Wrote
  <2> QED  BY <1>3, <1>5, <2>1, <2>2, SnapshotsKept
<1>10. CASE Snapped(q)
  <2> DEFINE record == out[q]
             new == IF provider = "azure" THEN record.version ELSE Len(snapshots) + 1
  <2>1. /\ pc[q] = "addVersion" /\ pc'[q] = "ok" /\ out' = out
        /\ current' = current /\ current = record /\ current # None /\ record \in Records
        /\ snapshots' = WithSnapshot(record)
    BY <1>0, <1>2, <1>10 DEF Snapped, AloneOK, CallOK
  <2>2. record.version \in Nat  BY <2>1 DEF Records
  <2>3. \A i \in DOMAIN snapshots : snapshots[i].version < record.version  BY <1>3, <2>1
  <2>4. /\ DOMAIN snapshots' = DOMAIN snapshots \union {new} /\ new \notin DOMAIN snapshots
        /\ snapshots'[new] = record
        /\ \A i \in DOMAIN snapshots : snapshots'[i] = snapshots[i]
    <3>1. CASE provider = "azure"
      <4>1. /\ DOMAIN snapshots' = DOMAIN snapshots \union {new}
            /\ \A n \in DOMAIN snapshots' :
                  snapshots'[n] = IF n = new THEN record ELSE snapshots[n]
        BY <1>0, <1>1, <2>1, <3>1, WithSnapshotType
      <4>2. new \notin DOMAIN snapshots
        BY <1>0, <2>2, <2>3, <3>1, SnapshotsElements DEF SnapshotsTyped
      <4> QED  BY <4>1, <4>2
    <3>2. CASE provider # "azure"
      <4>1. snapshots \in Seq(Records) /\ new = Len(snapshots) + 1
            /\ snapshots' = Append(snapshots, record)
        BY <1>0, <2>1, <3>2 DEF TypeOK, WithSnapshot
      <4> QED  BY <2>1, <4>1
    <3> QED  BY <3>1, <3>2
  <2>5. Snapshots \subseteq Snapshots' /\ record \in Snapshots'  BY <2>4 DEF Snapshots
  <2>6. Below'  BY <1>3, <2>1, <2>2, <2>4
  <2>7. Distinct'
    <3>1. \A i \in DOMAIN snapshots : snapshots[i].version # record.version
      BY <1>5, <2>2, <2>3
    <3> QED  BY <1>3, <2>4, <3>1
  <2> QED  BY <2>1, <2>5, <2>6, <2>7
<1>11. ~RolledBack(q) /\ ~Deleted(q)  BY <1>2 DEF RolledBack, Deleted
<1> QED  BY <1>8, <1>9, <1>10, <1>11, StoreStep

LEMMA FieldsInvKept ==
  ASSUME TypeInv, SerialInv, EtagInv, FieldsInv, NEW q \in Requests, RequestStep(q)
  PROVE  FieldsInv'
<1>0. TypeOK /\ TypeOK' /\ CallOK(q) /\ (Serial => AloneOK(q))  BY TypeKept DEF TypeInv, SerialInv
<1>1. OnlyUpdates' = OnlyUpdates /\ provider' = provider /\ ask' = ask
  BY <1>0, OthersStill DEF OnlyUpdates, Serial, Op
<1> DEFINE Written(r) == current # None /\ (OnlyOfField(r) => current.fields[ask[r].field] = r)
<1> SUFFICES ASSUME OnlyUpdates, NEW r \in Requests, pc'[r] \in {"addVersion", "ok"}
             PROVE  Written(r)'
  BY <1>1 DEF FieldsInv
<1>2. Op(q) = "update" /\ (provider \in Sql => Serial)  BY DEF OnlyUpdates
<1>3. ~RolledBack(q) /\ ~Deleted(q) /\ pc[q] # "create"
  BY <1>0, <1>2 DEF RolledBack, Deleted, CallOK, Creates
<1>4. ASSUME r # q PROVE Written(r)
  BY <1>0, <1>4, OthersStill DEF FieldsInv
<1>5. CASE Unstored(q) \/ Snapped(q)
  <2>1. current' = current  BY <1>5 DEF Unstored, Snapped, store
  <2>2. CASE r = q
    <3>1. Snapped(q)
      <4>1. SUFFICES ASSUME Unstored(q) PROVE FALSE  BY <1>5
      <4>2. pc[q] = "save" /\ current = None /\ Serial
        BY <1>2, <2>2, <4>1 DEF Unstored
      <4> QED  BY <1>0, <4>2 DEF AloneOK
    <3>2. pc[q] = "addVersion"  BY <3>1 DEF Snapped
    <3> QED  BY <1>1, <2>1, <2>2, <3>2 DEF FieldsInv, OnlyOfField
  <2> QED  BY <1>1, <1>4, <2>1, <2>2 DEF OnlyOfField
<1>6. CASE Wrote(q)
  <2>1. current' = out'[q] /\ current' # None  BY <1>6, PutIsRecord DEF Wrote, Put
  <2>2. out'[q] = Merged(current, q) /\ current # None
    <3>1. CASE pc[q] = "update"  BY <1>6, <3>1 DEF Wrote
    <3>2. CASE pc[q] = "save"
      <4>1. out'[q] = Merged(seen[q], q) /\ current # None
            /\ (provider = "azure" => EtagMatches(q)) /\ provider # "memory"
        BY <1>0, <1>6, <3>2 DEF Wrote, CallOK
      <4>2. seen[q] = current
        <5>1. CASE provider = "azure"  BY <3>2, <4>1, <5>1 DEF EtagInv, EtagMatches
        <5>2. CASE provider # "azure"
          <6>1. provider \in Sql  BY <1>0, <4>1, <5>2 DEF TypeOK, Providers
          <6> QED  BY <1>0, <1>2, <3>2, <6>1 DEF AloneOK
        <5> QED  BY <5>1, <5>2
      <4> QED  BY <4>1, <4>2
    <3> QED  BY <1>3, <1>6, <3>1, <3>2 DEF Wrote
  <2>3. current'.fields = [current.fields EXCEPT ![ask[q].field] = q]
    BY <2>1, <2>2 DEF Merged
  <2>4. \A s \in Requests : ask[s].field \in Fields
    BY <1>0, AskKinds DEF OnlyUpdates
  <2>5. DOMAIN current.fields = Fields  BY <1>0, <2>2 DEF TypeOK, Records
  <2>6. CASE r = q  BY <1>1, <2>1, <2>3, <2>4, <2>5, <2>6 DEF OnlyOfField
  <2>7. CASE r # q
    <3>1. ASSUME OnlyOfField(r) PROVE current'.fields[ask[r].field] = r
      <4>1. ask[r].field # ask[q].field  BY <2>7, <3>1 DEF OnlyOfField
      <4> QED  BY <1>4, <2>3, <2>4, <2>5, <2>7, <3>1, <4>1
    <3> QED  BY <1>1, <2>1, <3>1 DEF OnlyOfField
  <2> QED  BY <2>6, <2>7
<1> QED  BY <1>3, <1>5, <1>6, StoreStep

-----------------------------------------------------------------------------
(***************************************************************************)
(* The theorems.                                                           *)
(***************************************************************************)
LEMMA VersionsInitially == Init => VersionsInv
<1> SUFFICES ASSUME Init PROVE VersionsInv  OBVIOUS
<1>1. TypeInv  BY TypeInitially
<1>2. SerialInv /\ RestoreInv /\ EtagInv /\ FieldsInv
  BY DEF Init, SerialInv, AloneOK, Active, Calls, RestoreInv, EtagInv, FieldsInv
<1>3. CASE current = None
  <2>1. snapshots = <<>> /\ DOMAIN snapshots = {}  BY <1>3 DEF Init
  <2> QED  BY <1>1, <1>2, <1>3, <2>1
    DEF Init, VersionsInv, GoneInv, CurrentSnapshotted, NumbersInv
<1>4. CASE current # None
  <2>1. snapshots = <<current>> /\ DOMAIN snapshots = {1} /\ current = Created(Earlier)
    BY <1>4 DEF Init
  <2>2. snapshots[1] = current /\ current.version = 1  BY <2>1 DEF Created
  <2>3. NumbersInv  BY <1>4, <2>1, <2>2 DEF Init, NumbersInv
  <2>4. CurrentSnapshotted  BY <2>1, <2>2 DEF CurrentSnapshotted
  <2> QED  BY <1>1, <1>2, <1>4, <2>3, <2>4 DEF VersionsInv, GoneInv
<1> QED  BY <1>3, <1>4

LEMMA VersionsUnchanged == VersionsInv /\ vars' = vars => VersionsInv'
<1> SUFFICES ASSUME VersionsInv, vars' = vars PROVE VersionsInv'  OBVIOUS
<1>1. /\ provider' = provider /\ clients' = clients /\ ask' = ask /\ current' = current
      /\ etag' = etag /\ snapshots' = snapshots /\ pc' = pc /\ number' = number
      /\ seen' = seen /\ seenEtag' = seenEtag /\ out' = out /\ listed' = listed
      /\ removed' = removed
  BY DEF vars, fixed, store
<1>2. TypeInv'  BY <1>1 DEF VersionsInv, TypeInv, TypeOK, CallOK, Op
<1>3. SerialInv' /\ GoneInv' /\ RestoreInv' /\ EtagInv'
  BY <1>1 DEF VersionsInv, SerialInv, Serial, AloneOK, Active, Snapshots, BlobNames, GoneInv, Op,
              RestoreInv, SomeDeleted, EtagInv
<1>4. CurrentSnapshotted' /\ NumbersInv' /\ FieldsInv'
  BY <1>1 DEF VersionsInv, CurrentSnapshotted, ReturnedToDeleted, Serial, NumbersInv, OnlyWrites, Op, Writes,
              Snapshots, FieldsInv, OnlyUpdates, OnlyOfField
<1> QED  BY <1>2, <1>3, <1>4 DEF VersionsInv

(* The inductive invariant, of every reachable state.                      *)
THEOREM VersionsInvariant == Spec => []VersionsInv
<1>1. Init => VersionsInv  BY VersionsInitially
<1>2. ASSUME VersionsInv, Next PROVE VersionsInv'
  <2>1. PICK q \in Requests : RequestStep(q)  BY <1>2 DEF Next
  <2>2. TypeInv' /\ SerialInv' /\ GoneInv' /\ RestoreInv' /\ EtagInv'
    BY <1>2, <2>1, TypeKept, SerialKept, GoneKept, RestoreKept, EtagKept DEF VersionsInv
  <2>3. CurrentSnapshotted' /\ NumbersInv' /\ FieldsInv'
    BY <1>2, <2>1, SnapshottedKept, NumbersKept, FieldsInvKept DEF VersionsInv
  <2> QED  BY <2>2, <2>3 DEF VersionsInv
<1>3. VersionsInv /\ [Next]_vars => VersionsInv'  BY <1>2, VersionsUnchanged
<1> QED  BY <1>1, <1>3, PTL DEF Spec

(* The store and the progress of every request keep their types.           *)
THEOREM TypeCorrect == Spec => []TypeOK
<1>1. VersionsInv => TypeOK  BY DEF VersionsInv, TypeInv
<1> QED  BY <1>1, VersionsInvariant, PTL

(* The record has its snapshot, and each version is found under its number *)
(* (update, addVersion).                                                   *)
THEOREM VersionsReliableCorrect == Spec => []VersionsReliable
<1>1. ASSUME VersionsInv PROVE VersionsReliable
  <2> SUFFICES ASSUME OnlyWrites, NEW q \in Requests, pc[q] = "ok", Writes(q)
               PROVE  Kept(q)
    BY <1>1 DEF VersionsInv, VersionsReliable, VersionsKeptWithoutRollback, OnlyWrites
  <2>1. out[q] \in Snapshots  BY <1>1 DEF VersionsInv, NumbersInv
  <2>2. PICK i \in DOMAIN snapshots : snapshots[i] = out[q]  BY <2>1 DEF Snapshots
  <2>3. Numbered(out[q].version) = {i}
    BY <1>1, <2>2 DEF VersionsInv, NumbersInv, Numbered
  <2>4. i \in Nat  BY <1>1, SnapshotsElements DEF VersionsInv, TypeInv
  <2>5. Min({i}) = i  BY <2>4, MinProperties
  <2> QED  BY <2>2, <2>3, <2>5 DEF Kept
<1> QED  BY <1>1, VersionsInvariant, PTL

(* An acknowledged update of one field outlives updates of the others      *)
(* (update).                                                               *)
THEOREM FieldsKeptCorrect == Spec => []FieldsKept
<1>1. VersionsInv => FieldsKept
  BY DEF VersionsInv, FieldsInv, FieldsKept, OnlyUpdates, OnlyOfField
<1> QED  BY <1>1, VersionsInvariant, PTL

(* A record appears where there was none only by a create.                 *)
LEMMA RevivedByCreate ==
  ASSUME VersionsInv, Next, provider # "memory" \/ Serial, current = None, current' # None
  PROVE  \E q \in Requests : pc[q] = "create"
<1>1. PICK q \in Requests : RequestStep(q)  BY DEF Next
<1>2. TypeInv /\ SerialInv  BY DEF VersionsInv
<1>3. ~Unstored(q) /\ ~Snapped(q)  BY DEF Unstored, Snapped, store
<1>4. ~Deleted(q)
  <2>1. DeleteBlob(q) => current' \in {current, None}  BY <1>2, BlobDeleted
  <2> QED  BY <2>1 DEF Deleted
<1>5. ~RolledBack(q)
  <2>1. provider = "memory" => AloneOK(q)  BY <1>2 DEF SerialInv
  <2>2. provider \in Providers  BY <1>2 DEF TypeInv, TypeOK
  <2> QED  BY <2>1, <2>2 DEF RolledBack, EtagMatches, AloneOK, Providers
<1> QED  BY <1>1, <1>2, <1>3, <1>4, <1>5, StoreStep DEF Wrote

(* Deleting leaves no snapshot, and nothing under way revives what is      *)
(* deleted (delete, addVersion, update, setLatestVersion).                 *)
THEOREM DeletedForGoodCorrect == Spec => DeletedForGood
<1>1. ASSUME VersionsInv PROVE DeletedGone
  <2>1. DOMAIN << >> = {}  OBVIOUS
  <2> QED  BY <1>1, <2>1 DEF VersionsInv, GoneInv, DeletedGone, Idle, Calls
<1>2. VersionsInv /\ [Next]_vars =>
        [provider # "memory" \/ Serial =>
           (current = None /\ current' # None => \E q \in Requests : pc[q] = "create")]_vars
  BY RevivedByCreate
<1> QED  BY <1>1, <1>2, VersionsInvariant, PTL DEF Spec, DeletedForGood, NoResurrection
=============================================================================
