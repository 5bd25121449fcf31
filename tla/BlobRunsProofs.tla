--------------------------- MODULE BlobRunsProofs ---------------------------
(* Proofs about BlobRuns, for any number of runs and requests.             *)
EXTENDS BlobRuns, TLAPS

(* A run whose create has not uploaded anything has no record, and only    *)
(* requests that stored an update are merged in a record.                  *)
RecordInv ==
    /\ \A r \in RunIds : create[r] = "upload" => version[r] = 0
    /\ \A r \in stored : version[r] # 0
    /\ \A r \in RunIds : \A q \in merged[r] : pc[q] \in {"ok", "failed"}
    /\ \A q \in Requests : Op(q) = "update" /\ pc[q] = "ok" => version[Run(q)] # 0

(* A record downloaded for an update is the current one as long as its etag*)
(* is, and never newer.                                                    *)
EtagInv ==
    \A q \in Requests : pc[q] = "store" =>
        /\ seen[q].version <= version[Run(q)]
        /\ seen[q].version = version[Run(q)] => seen[q].merged = merged[Run(q)]

(* Which requests make which calls.                                        *)
CallsInv ==
    \A q \in Requests :
        /\ pc[q] \in {"load", "store"} => Op(q) = "update"
        /\ pc[q] \in {"remove", "unlink"} => Op(q) = "delete"
        /\ pc[q] = "download" => Op(q) = "get"

(* While a run is being created it has no pointer, so that no request can  *)
(* find its record: not by the pointer, and not at the stateless path,     *)
(* because the id of a stateless run is not known yet.                     *)
CreatingInv ==
    \A r \in RunIds : create[r] \in {"upload", "link"} =>
        /\ r \notin pointers
        /\ create[r] = "link" => r \in stored
        /\ \A q \in Requests : Run(q) = r =>
              /\ pc[q] \in {"new", "pointer", "fallback", "null", "failed"}
              /\ r \notin ThreadRuns => pc[q] = "new"

(* What had been acknowledged when a request started still is, and one that*)
(* no longer looks at the pointer's record knows that the record is gone.  *)
StartInv ==
    \A q \in Requests :
        /\ pc[q] # "new" => start[q].acked \subseteq Acked(Run(q))
        /\ start[q].created => create[Run(q)] = "done"
        /\ pc[q] = "fallback" /\ start[q].created => Run(q) \notin stored
        /\ pc[q] = "unlink" => Run(q) \notin stored

RunsInv ==
    /\ TypeOK /\ RecordInv /\ EtagInv /\ CallsInv /\ CreatingInv /\ StartInv
    /\ UpdatesKept /\ AnswersCurrent /\ CountAccurate

-----------------------------------------------------------------------------
LEMMA TypeInit == Init => TypeOK
BY DEF Init, TypeOK, CreateSteps, Steps, Ops

(* Each step keeps the shape of the blobs and requests.                    *)
LEMMA TypeStep == TypeOK /\ [Next]_vars => TypeOK'
<1> SUFFICES ASSUME TypeOK, [Next]_vars PROVE TypeOK'  OBVIOUS
<1>1. CASE UNCHANGED vars  BY <1>1 DEF vars, blobs, TypeOK
<1>2. ASSUME NEW r \in RunIds, NEW step \in CreateSteps, CreateGoto(r, step)
      PROVE  create' \in [RunIds -> CreateSteps] /\ UNCHANGED <<ask, pc, seen, start>>
  BY <1>2 DEF CreateGoto, TypeOK
<1>s. {"upload", "link", "done", "failed"} \subseteq CreateSteps  BY DEF CreateSteps
<1>3. ASSUME NEW r \in RunIds, CreateStep(r) PROVE TypeOK'
  <2>1. CASE Upload(r)
    <3>1. stored' \subseteq RunIds /\ version' \in [RunIds -> Nat]
          /\ merged' \in [RunIds -> SUBSET Requests] /\ pointers' = pointers
      BY <2>1 DEF Upload, TypeOK
    <3>2. \E step \in CreateSteps : CreateGoto(r, step)  BY <2>1, <1>s DEF Upload
    <3> QED  BY <3>1, <3>2, <1>2 DEF TypeOK
  <2>2. CASE WriteLookup(r)
    <3>1. \E step \in CreateSteps : CreateGoto(r, step)  BY <2>2, <1>s DEF WriteLookup
    <3> QED  BY <2>2, <3>1, <1>2 DEF WriteLookup, TypeOK
  <2>3. CASE CreateFails(r)
    <3>1. \E step \in CreateSteps : CreateGoto(r, step)  BY <2>3, <1>s DEF CreateFails
    <3> QED  BY <2>3, <3>1, <1>2 DEF CreateFails, blobs, TypeOK
  <2> QED  BY <1>3, <2>1, <2>2, <2>3 DEF CreateStep
<1>4. ASSUME NEW q \in Requests, RequestStep(q) PROVE TypeOK'
  <2>0. Run(q) \in RunIds /\ Op(q) \in Ops  BY DEF Run, Op, TypeOK
  <2>s. /\ AfterPath(q) \in Steps /\ "pointer" \in Steps /\ "fallback" \in Steps /\ "null" \in Steps
        /\ "found" \in Steps /\ "store" \in Steps /\ "ok" \in Steps /\ "failed" \in Steps
        /\ "unlink" \in Steps
    BY <2>0 DEF AfterPath, Steps, Ops, Outcomes
  <2>g. ASSUME NEW step \in Steps, Goto(q, step)
        PROVE  pc' \in [Requests -> Steps] /\ UNCHANGED <<create, ask, start>>
    BY <2>g DEF Goto, TypeOK
  <2>r. SeeRecord(q) => seen' \in [Requests -> [version : Nat, merged : SUBSET Requests]]
    BY <2>0 DEF SeeRecord, TypeOK
  <2>1. CASE Begin(q)
    <3>1. pc' \in [Requests -> Steps]  BY <2>1, <2>s DEF Begin, TypeOK
    <3>2. [created |-> create[Run(q)] = "done", acked |-> Acked(Run(q))]
             \in [created : BOOLEAN, acked : SUBSET Requests]
      BY DEF Acked
    <3> QED  BY <2>1, <3>1, <3>2 DEF Begin, blobs, TypeOK
  <2>2. CASE ReadPointer(q) \/ Fails(q)
    <3>1. \E step \in Steps : Goto(q, step)  BY <2>2, <2>s DEF ReadPointer, Fails
    <3> QED  BY <2>2, <3>1, <2>g DEF ReadPointer, Fails, blobs, TypeOK
  <2>3. CASE Fallback(q) \/ Download(q) \/ Load(q)
    <3>1. \E step \in Steps : Goto(q, step)  BY <2>3, <2>s DEF Fallback, Download, Load
    <3>2. SeeRecord(q) \/ UNCHANGED seen  BY <2>3 DEF Fallback, Download, Load
    <3>3. UNCHANGED blobs  BY <2>3 DEF Fallback, Download, Load
    <3> QED  BY <3>1, <3>2, <3>3, <2>g, <2>r DEF blobs, TypeOK
  <2>4. CASE Store(q)
    <3>1. \E step \in Steps : Goto(q, step)  BY <2>4, <2>s DEF Store, GotoOrFail
    <3>2. seen[q].merged \union {q} \in SUBSET Requests  BY DEF TypeOK
    <3>3. stored' \subseteq RunIds /\ version' \in [RunIds -> Nat]
      BY <2>4, <2>0 DEF Store, TypeOK
    <3>4. merged' \in [RunIds -> SUBSET Requests]
      <4>1. CASE EtagMatches(q)
        <5>1. merged' = [merged EXCEPT ![Run(q)] = seen[q].merged \union {q}]
          BY <2>4, <4>1 DEF Store
        <5> QED  BY <5>1, <2>0, <3>2 DEF TypeOK
      <4>2. CASE ~EtagMatches(q)  BY <2>4, <4>2 DEF Store, TypeOK
      <4> QED  BY <4>1, <4>2
    <3> QED  BY <2>4, <3>1, <3>3, <3>4, <2>g DEF Store, TypeOK
  <2>5. CASE Remove(q) \/ DeleteLookup(q)
    <3>1. \E step \in Steps : Goto(q, step)  BY <2>5, <2>s DEF Remove, DeleteLookup, GotoOrFail
    <3>2. /\ stored' \subseteq RunIds /\ pointers' \subseteq RunIds
          /\ UNCHANGED <<version, merged, seen>>
      BY <2>5 DEF Remove, DeleteLookup, TypeOK
    <3> QED  BY <3>1, <3>2, <2>g DEF TypeOK
  <2> QED  BY <1>4, <2>1, <2>2, <2>3, <2>4, <2>5 DEF RequestStep
<1> QED  BY <1>1, <1>3, <1>4 DEF Next

-----------------------------------------------------------------------------
LEMMA RunsInit == Init => RunsInv
<1> SUFFICES ASSUME Init PROVE RunsInv  OBVIOUS
<1>1. TypeOK  BY TypeInit
<1>2. RecordInv /\ EtagInv /\ CallsInv /\ CreatingInv /\ UpdatesKept /\ AnswersCurrent /\ CountAccurate
  BY DEF Init, RecordInv, EtagInv, CallsInv, CreatingInv, UpdatesKept, AnswersCurrent,
     CountAccurate, Acked
<1>3. StartInv  BY DEF Init, StartInv, Acked
<1> QED  BY <1>1, <1>2, <1>3 DEF RunsInv

(* What a step of a create does.                                           *)
LEMMA CreateEffects ==
    ASSUME TypeOK, NEW r \in RunIds, CreateStep(r)
    PROVE  /\ UNCHANGED <<ask, pc, seen, start>>
           /\ \A o \in RunIds : o # r =>
                 /\ create'[o] = create[o] /\ version'[o] = version[o] /\ merged'[o] = merged[o]
                 /\ (o \in stored' <=> o \in stored) /\ (o \in pointers' <=> o \in pointers)
           /\ \/ /\ create[r] = "upload" /\ create'[r] \in {"link", "failed"}
                 /\ r \in stored' /\ version'[r] = version[r] + 1 /\ merged'[r] = {}
                 /\ pointers' = pointers
              \/ /\ create[r] = "link" /\ create'[r] \in {"done", "failed"}
                 /\ r \in pointers' /\ UNCHANGED <<stored, version, merged>>
              \/ /\ create[r] \in {"upload", "link"} /\ create'[r] = "failed" /\ UNCHANGED blobs
<1>1. CASE Upload(r)  BY <1>1 DEF Upload, CreateGoto, TypeOK
<1>2. CASE WriteLookup(r)  BY <1>2 DEF WriteLookup, CreateGoto, TypeOK
<1>3. CASE CreateFails(r)  BY <1>3 DEF CreateFails, CreateGoto, blobs, TypeOK
<1> QED  BY <1>1, <1>2, <1>3 DEF CreateStep

(* What a step of a request does: it moves on without touching a blob,     *)
(* sees a record, or makes one of the three calls that change a blob.      *)
Asks(q) ==
    /\ UNCHANGED <<blobs, seen>>
    /\ \/ /\ pc[q] = "new" /\ pc'[q] = "pointer" /\ Known(Run(q))
          /\ start'[q] = [created |-> create[Run(q)] = "done", acked |-> Acked(Run(q))]
       \/ /\ start' = start
          /\ \/ pc[q] = "pointer" /\ Run(q) \in pointers /\ pc'[q] = AfterPath(q)
             \/ pc[q] = "pointer" /\ Run(q) \notin pointers /\ pc'[q] = "fallback"
             \/ pc[q] = "fallback" /\ ~AtStatelessPath(Run(q)) /\ pc'[q] = "null"
             \/ pc[q] = "fallback" /\ AtStatelessPath(Run(q)) /\ Op(q) # "get" /\ pc'[q] = AfterPath(q)
             \/ pc[q] = "download" /\ Run(q) \notin stored /\ pc'[q] = "fallback"
             \/ pc[q] \in {"load", "remove"} /\ Run(q) \notin stored /\ pc'[q] = "null"
             \/ pc[q] \in Steps \ (Outcomes \union {"new"}) /\ pc'[q] = "failed"

Sees(q) ==
    /\ UNCHANGED <<blobs, start>>
    /\ seen'[q] = [version |-> version[Run(q)], merged |-> merged[Run(q)]]
    /\ Run(q) \in stored
    /\ \/ pc[q] = "fallback" /\ AtStatelessPath(Run(q)) /\ Op(q) = "get" /\ pc'[q] = "found"
       \/ pc[q] = "download" /\ pc'[q] = "found"
       \/ pc[q] = "load" /\ pc'[q] = "store"

Stores(q) ==
    /\ pc[q] = "store" /\ pc'[q] \in {"ok", "failed"}
    /\ EtagMatches(q)
    /\ version'[Run(q)] = version[Run(q)] + 1
    /\ merged'[Run(q)] = seen[q].merged \union {q}
    /\ \A r \in RunIds : r # Run(q) => version'[r] = version[r] /\ merged'[r] = merged[r]
    /\ UNCHANGED <<stored, pointers, seen, start>>

Removes(q) ==
    /\ pc[q] = "remove" /\ pc'[q] \in {"unlink", "failed"}
    /\ stored' = stored \ {Run(q)}
    /\ UNCHANGED <<version, merged, pointers, seen, start>>

Unlinks(q) ==
    /\ pc[q] = "unlink" /\ pc'[q] \in {"ok", "failed"}
    /\ pointers' = pointers \ {Run(q)}
    /\ UNCHANGED <<stored, version, merged, seen, start>>

LEMMA RequestEffects ==
    ASSUME TypeOK, NEW q \in Requests, RequestStep(q)
    PROVE  /\ UNCHANGED <<ask, create>>
           /\ \A p \in Requests : p # q => pc'[p] = pc[p] /\ seen'[p] = seen[p] /\ start'[p] = start[p]
           /\ Asks(q) \/ Sees(q) \/ Stores(q) \/ Removes(q) \/ Unlinks(q)
<1>0. Run(q) \in RunIds  BY DEF Run, TypeOK
<1>g. ASSUME NEW step, Goto(q, step)
      PROVE  /\ UNCHANGED <<ask, create, start>> /\ pc'[q] = step
             /\ \A p \in Requests : p # q => pc'[p] = pc[p]
  BY <1>g DEF Goto, TypeOK
<1>r. ASSUME SeeRecord(q)
      PROVE  /\ seen'[q] = [version |-> version[Run(q)], merged |-> merged[Run(q)]]
             /\ \A p \in Requests : p # q => seen'[p] = seen[p]
  BY <1>r DEF SeeRecord, TypeOK
<1>1. CASE Begin(q)  BY <1>1 DEF Begin, Asks, TypeOK
<1>2. CASE ReadPointer(q)  BY <1>2, <1>g DEF ReadPointer, Asks
<1>3. CASE Fallback(q)  BY <1>3, <1>g, <1>r DEF Fallback, Asks, Sees, AtStatelessPath
<1>4. CASE Download(q)  BY <1>4, <1>g, <1>r DEF Download, Asks, Sees
<1>5. CASE Load(q)  BY <1>5, <1>g, <1>r DEF Load, Asks, Sees
<1>6. CASE Store(q)
  <2>1. CASE EtagMatches(q)
    <3>1. stored' = stored  BY <1>6, <2>1 DEF Store, EtagMatches
    <3>2. /\ version'[Run(q)] = version[Run(q)] + 1
          /\ merged'[Run(q)] = seen[q].merged \union {q}
          /\ \A r \in RunIds : r # Run(q) => version'[r] = version[r] /\ merged'[r] = merged[r]
      BY <1>6, <2>1, <1>0 DEF Store, TypeOK
    <3> QED  BY <1>6, <2>1, <3>1, <3>2, <1>g DEF Store, GotoOrFail, Stores
  <2>2. CASE ~EtagMatches(q)
    BY <1>6, <2>2, <1>g DEF Store, Asks, Steps, Outcomes, blobs
  <2> QED  BY <2>1, <2>2
<1>7. CASE Remove(q)  BY <1>7, <1>g DEF Remove, GotoOrFail, Asks, Removes, blobs
<1>8. CASE DeleteLookup(q)  BY <1>8, <1>g DEF DeleteLookup, GotoOrFail, Unlinks
<1>9. CASE Fails(q)  BY <1>9, <1>g DEF Fails, Asks
<1> QED  BY <1>1, <1>2, <1>3, <1>4, <1>5, <1>6, <1>7, <1>8, <1>9 DEF RequestStep

(* Which run a request is about, and of what kind it is, never changes.    *)
LEMMA AskKept ==
    ASSUME UNCHANGED ask
    PROVE  \A q : Run(q)' = Run(q) /\ Op(q)' = Op(q)
BY DEF Run, Op

(* An acknowledgement is never taken back, and only the step that stores an*)
(* update gives one.                                                       *)
LEMMA AckedStep ==
    ASSUME RunsInv, NEW q \in Requests, RequestStep(q)
    PROVE  /\ \A r : Acked(r) \subseteq Acked(r)'
           /\ \A r : Acked(r)' \subseteq Acked(r) \union {q}
           /\ \A r : r # Run(q) \/ ~Stores(q) => Acked(r)' = Acked(r)
<1>t. TypeOK /\ CallsInv  BY DEF RunsInv
<1>1. UNCHANGED ask /\ \A p \in Requests : p # q => pc'[p] = pc[p]  BY <1>t, RequestEffects
<1>2. \A p : Run(p)' = Run(p) /\ Op(p)' = Op(p)  BY <1>1, AskKept
<1>3. pc[q] # "ok"
  <2>1. Asks(q) \/ Sees(q) \/ Stores(q) \/ Removes(q) \/ Unlinks(q)  BY <1>t, RequestEffects
  <2> QED  BY <2>1 DEF Asks, Sees, Stores, Removes, Unlinks, Outcomes, Steps
<1>4. pc'[q] = "ok" /\ Op(q) = "update" => Stores(q)
  <2>1. Asks(q) \/ Sees(q) \/ Stores(q) \/ Removes(q) \/ Unlinks(q)  BY <1>t, RequestEffects
  <2>2. Asks(q) => pc'[q] # "ok"  BY <1>t DEF Asks, AfterPath, TypeOK, Op, Ops
  <2>3. Unlinks(q) => Op(q) = "delete"  BY <1>t DEF Unlinks, CallsInv
  <2> QED  BY <2>1, <2>2, <2>3 DEF Sees, Removes
<1> QED  BY <1>1, <1>2, <1>3, <1>4 DEF Acked

LEMMA CallsStep == RunsInv /\ [Next]_vars => CallsInv'
<1> SUFFICES ASSUME RunsInv, [Next]_vars PROVE CallsInv'  OBVIOUS
<1>t. TypeOK /\ CallsInv  BY DEF RunsInv
<1>1. CASE UNCHANGED vars  BY <1>1, <1>t DEF vars, CallsInv, Op
<1>2. ASSUME NEW r \in RunIds, CreateStep(r) PROVE CallsInv'
  BY <1>2, <1>t, CreateEffects DEF CallsInv, Op
<1>3. ASSUME NEW q \in Requests, RequestStep(q) PROVE CallsInv'
  <2>1. /\ UNCHANGED ask /\ \A p \in Requests : p # q => pc'[p] = pc[p]
        /\ Asks(q) \/ Sees(q) \/ Stores(q) \/ Removes(q) \/ Unlinks(q)
    BY <1>3, <1>t, RequestEffects
  <2>2. Op(q) \in Ops /\ \A p : Op(p)' = Op(p)  BY <2>1, <1>t, AskKept DEF Op, TypeOK
  <2> QED  BY <2>1, <2>2, <1>t DEF CallsInv, Asks, Sees, Stores, Removes, Unlinks, AfterPath, Ops
<1> QED  BY <1>1, <1>2, <1>3 DEF Next

LEMMA RecordStep == RunsInv /\ [Next]_vars => RecordInv'
<1> SUFFICES ASSUME RunsInv, [Next]_vars PROVE RecordInv'  OBVIOUS
<1>t. TypeOK /\ RecordInv /\ EtagInv /\ CallsInv  BY DEF RunsInv
<1>1. CASE UNCHANGED vars  BY <1>1, <1>t DEF vars, blobs, RecordInv, Op, Run
<1>2. ASSUME NEW r \in RunIds, CreateStep(r) PROVE RecordInv'
  <2>1. \A q \in Requests : Run(q) \in RunIds /\ Run(q)' = Run(q) /\ Op(q)' = Op(q)
    BY <1>2, <1>t, CreateEffects, AskKept DEF Run, TypeOK
  <2>2. /\ version[r] \in Nat /\ stored \subseteq RunIds /\ stored' \subseteq RunIds
    BY <1>2, <1>t, TypeStep DEF TypeOK, Next
  <2> QED  BY <1>2, <1>t, <2>1, <2>2, CreateEffects DEF RecordInv, blobs
<1>3. ASSUME NEW q \in Requests, RequestStep(q) PROVE RecordInv'
  <2>1. /\ UNCHANGED <<ask, create>> /\ \A p \in Requests : p # q => pc'[p] = pc[p]
        /\ Asks(q) \/ Sees(q) \/ Stores(q) \/ Removes(q) \/ Unlinks(q)
    BY <1>3, <1>t, RequestEffects
  <2>2. \A p \in Requests : Run(p) \in RunIds /\ Run(p)' = Run(p) /\ Op(p)' = Op(p)
    BY <2>1, <1>t, AskKept DEF Run, TypeOK
  <2>3. /\ \A r \in RunIds : version[r] \in Nat /\ merged[r] \subseteq Requests
        /\ stored \subseteq RunIds
    BY <1>t DEF TypeOK
  <2>4. CASE Asks(q) \/ Sees(q)
    <3>1. UNCHANGED blobs /\ pc[q] \notin {"ok"} /\ pc'[q] # "ok" /\ (pc[q] = "failed" => pc'[q] = "failed")
      BY <2>4, <2>2, <1>t DEF Asks, Sees, AfterPath, Steps, Outcomes, TypeOK, Op, Ops
    <3> QED  BY <3>1, <2>1, <2>2, <2>3, <1>t DEF RecordInv, blobs
  <2>5. CASE Stores(q)
    <3>1. seen[q].merged = merged[Run(q)] /\ version[Run(q)] # 0
      BY <2>5, <2>2, <1>t DEF Stores, EtagMatches, EtagInv, RecordInv
    <3> QED  BY <2>5, <3>1, <2>1, <2>2, <2>3, <1>t DEF Stores, RecordInv
  <2>6. CASE Removes(q)  BY <2>6, <2>1, <2>2, <2>3, <1>t DEF Removes, RecordInv
  <2>7. CASE Unlinks(q)  BY <2>7, <2>1, <2>2, <2>3, <1>t DEF Unlinks, RecordInv, CallsInv
  <2> QED  BY <2>1, <2>4, <2>5, <2>6, <2>7
<1> QED  BY <1>1, <1>2, <1>3 DEF Next

LEMMA EtagStep == RunsInv /\ [Next]_vars => EtagInv'
<1> SUFFICES ASSUME RunsInv, [Next]_vars PROVE EtagInv'  OBVIOUS
<1>t. TypeOK /\ EtagInv  BY DEF RunsInv
<1>n. \A r \in RunIds : version[r] \in Nat  BY <1>t DEF TypeOK
<1>s. \A q \in Requests : seen[q].version \in Nat /\ Run(q) \in RunIds  BY <1>t DEF TypeOK, Run
<1>1. CASE UNCHANGED vars  BY <1>1, <1>t DEF vars, blobs, EtagInv, Run
<1>2. ASSUME NEW r \in RunIds, CreateStep(r) PROVE EtagInv'
  <2>1. \A q : Run(q)' = Run(q)  BY <1>2, <1>t, CreateEffects, AskKept
  <2> QED  BY <1>2, <1>t, <1>n, <1>s, <2>1, CreateEffects DEF EtagInv, blobs
<1>3. ASSUME NEW q \in Requests, RequestStep(q) PROVE EtagInv'
  <2>1. /\ UNCHANGED ask /\ \A p \in Requests : p # q => pc'[p] = pc[p] /\ seen'[p] = seen[p]
        /\ Asks(q) \/ Sees(q) \/ Stores(q) \/ Removes(q) \/ Unlinks(q)
    BY <1>3, <1>t, RequestEffects
  <2>2. \A p : Run(p)' = Run(p)  BY <2>1, AskKept
  <2>3. CASE Asks(q)
    <3>1. UNCHANGED blobs /\ pc'[q] # "store"
      BY <2>3, <1>t DEF Asks, AfterPath, TypeOK, Op, Ops
    <3> QED  BY <3>1, <2>1, <2>2, <1>t DEF EtagInv, blobs
  <2>4. CASE Sees(q)  BY <2>4, <2>1, <2>2, <1>t, <1>n, <1>s DEF Sees, EtagInv, blobs
  <2>5. CASE Stores(q)
    BY <2>5, <2>1, <2>2, <1>t, <1>n, <1>s DEF Stores, EtagInv
  <2>6. CASE Removes(q) \/ Unlinks(q)
    BY <2>6, <2>1, <2>2, <1>t DEF Removes, Unlinks, EtagInv
  <2> QED  BY <2>1, <2>3, <2>4, <2>5, <2>6
<1> QED  BY <1>1, <1>2, <1>3 DEF Next

LEMMA CreatingStep == RunsInv /\ [Next]_vars => CreatingInv'
<1> SUFFICES ASSUME RunsInv, [Next]_vars PROVE CreatingInv'  OBVIOUS
<1>t. TypeOK /\ CreatingInv  BY DEF RunsInv
<1>r. \A q \in Requests : Run(q) \in RunIds  BY <1>t DEF TypeOK, Run
<1>1. CASE UNCHANGED vars  BY <1>1, <1>t DEF vars, blobs, CreatingInv, Run
<1>2. ASSUME NEW r \in RunIds, CreateStep(r) PROVE CreatingInv'
  <2>1. \A q : Run(q)' = Run(q)  BY <1>2, <1>t, CreateEffects, AskKept
  <2> QED  BY <1>2, <1>t, <1>r, <2>1, CreateEffects DEF CreatingInv, blobs
<1>3. ASSUME NEW q \in Requests, RequestStep(q) PROVE CreatingInv'
  <2>1. /\ UNCHANGED <<ask, create>> /\ \A p \in Requests : p # q => pc'[p] = pc[p]
        /\ Asks(q) \/ Sees(q) \/ Stores(q) \/ Removes(q) \/ Unlinks(q)
    BY <1>3, <1>t, RequestEffects
  <2>2. \A p : Run(p)' = Run(p)  BY <2>1, AskKept
  <2>c. create[Run(q)] \in {"upload", "link"} =>
            pc[q] \in {"new", "pointer", "fallback", "null", "failed"} /\ Run(q) \notin pointers
            /\ (Run(q) \notin ThreadRuns => pc[q] = "new")
    BY <1>t, <1>r DEF CreatingInv
  <2>3. CASE Asks(q)
    <3>1. UNCHANGED <<stored, pointers>>  BY <2>3 DEF Asks, blobs
    <3>2. create[Run(q)] \in {"upload", "link"} =>
            /\ pc'[q] \in {"new", "pointer", "fallback", "null", "failed"}
            /\ (Run(q) \notin ThreadRuns => pc'[q] = "new")
      BY <2>3, <2>c DEF Asks, Known, AtStatelessPath, Steps, Outcomes
    <3> QED  BY <3>1, <3>2, <2>1, <2>2, <1>t DEF CreatingInv
  <2>4. CASE Sees(q)
    <3>1. create[Run(q)] \notin {"upload", "link"}
      BY <2>4, <2>c DEF Sees, AtStatelessPath
    <3> QED  BY <2>4, <3>1, <2>1, <2>2, <1>t DEF Sees, blobs, CreatingInv
  <2>5. CASE Stores(q) \/ Removes(q) \/ Unlinks(q)
    <3>1. create[Run(q)] \notin {"upload", "link"}
      BY <2>5, <2>c DEF Stores, Removes, Unlinks
    <3>2. \A r \in RunIds : r # Run(q) => (r \in stored' <=> r \in stored)
                                          /\ (r \in pointers' <=> r \in pointers)
      BY <2>5 DEF Stores, Removes, Unlinks
    <3> QED  BY <3>1, <3>2, <2>1, <2>2, <1>t DEF CreatingInv
  <2> QED  BY <2>1, <2>3, <2>4, <2>5
<1> QED  BY <1>1, <1>2, <1>3 DEF Next

LEMMA UpdatesStep == RunsInv /\ [Next]_vars => UpdatesKept'
<1> SUFFICES ASSUME RunsInv, [Next]_vars PROVE UpdatesKept'  OBVIOUS
<1>t. TypeOK /\ UpdatesKept /\ EtagInv /\ RecordInv  BY DEF RunsInv
<1>1. CASE UNCHANGED vars  BY <1>1, <1>t DEF vars, blobs, UpdatesKept, Acked, Run, Op
<1>2. ASSUME NEW r \in RunIds, CreateStep(r) PROVE UpdatesKept'
  <2>1. UNCHANGED <<ask, pc>> /\ \A q : Run(q)' = Run(q) /\ Op(q)' = Op(q)
    BY <1>2, <1>t, CreateEffects, AskKept
  <2>2. \A o : Acked(o)' = Acked(o)  BY <2>1 DEF Acked
  <2>3. create[r] = "upload" => Acked(r) = {}  BY <1>t DEF RecordInv, Acked
  <2>4. stored' \subseteq RunIds  BY <1>2, <1>t, TypeStep DEF TypeOK, Next
  <2> QED  BY <1>2, <1>t, <2>2, <2>3, <2>4, CreateEffects DEF UpdatesKept, blobs
<1>3. ASSUME NEW q \in Requests, RequestStep(q) PROVE UpdatesKept'
  <2>1. Asks(q) \/ Sees(q) \/ Stores(q) \/ Removes(q) \/ Unlinks(q)
    BY <1>3, <1>t, RequestEffects
  <2>2. CASE Stores(q)
    <3>1. merged'[Run(q)] = merged[Run(q)] \union {q} /\ Run(q) \in RunIds
      BY <2>2, <1>t DEF Stores, EtagMatches, EtagInv, TypeOK, Run
    <3>2. \A r : Acked(r)' \subseteq Acked(r) \union {q}  BY <1>3, AckedStep
    <3>3. \A r : r # Run(q) => Acked(r)' = Acked(r)  BY <1>3, AckedStep
    <3>4. stored' = stored /\ \A r \in RunIds : r # Run(q) => merged'[r] = merged[r]
      BY <2>2 DEF Stores
    <3> QED  BY <3>1, <3>2, <3>3, <3>4, <1>t DEF UpdatesKept, TypeOK
  <2>3. CASE ~Stores(q)
    <3>1. \A r : Acked(r)' = Acked(r)  BY <1>3, <2>3, AckedStep
    <3>2. stored' \subseteq stored /\ merged' = merged
      BY <2>1, <2>3 DEF Asks, Sees, Removes, Unlinks, blobs
    <3> QED  BY <3>1, <3>2, <1>t DEF UpdatesKept
  <2> QED  BY <2>2, <2>3
<1> QED  BY <1>1, <1>2, <1>3 DEF Next

LEMMA StartStep == RunsInv /\ [Next]_vars => StartInv'
<1> SUFFICES ASSUME RunsInv, [Next]_vars PROVE StartInv'  OBVIOUS
<1>t. TypeOK /\ StartInv /\ CreatingInv /\ CountAccurate  BY DEF RunsInv
<1>r. \A q \in Requests : Run(q) \in RunIds  BY <1>t DEF TypeOK, Run
<1>1. CASE UNCHANGED vars  BY <1>1, <1>t DEF vars, blobs, StartInv, Acked, Run, Op
<1>2. ASSUME NEW r \in RunIds, CreateStep(r) PROVE StartInv'
  <2>1. UNCHANGED <<ask, pc, start>> /\ \A q : Run(q)' = Run(q) /\ Op(q)' = Op(q)
    BY <1>2, <1>t, CreateEffects, AskKept
  <2>2. \A o : Acked(o)' = Acked(o)  BY <2>1 DEF Acked
  <2>3. \A q \in Requests : start[q].created \/ pc[q] = "unlink" => r # Run(q) \/ create[r] = "done"
    BY <1>2, <1>t, <1>r, CreateEffects DEF StartInv, CreatingInv
  <2> QED  BY <1>2, <1>t, <1>r, <2>1, <2>2, <2>3, CreateEffects DEF StartInv, CreatingInv, blobs
<1>3. ASSUME NEW q \in Requests, RequestStep(q) PROVE StartInv'
  <2>1. /\ UNCHANGED <<ask, create>>
        /\ \A p \in Requests : p # q => pc'[p] = pc[p] /\ start'[p] = start[p]
        /\ Asks(q) \/ Sees(q) \/ Stores(q) \/ Removes(q) \/ Unlinks(q)
    BY <1>3, <1>t, RequestEffects
  <2>2. \A p : Run(p)' = Run(p) /\ Op(p)' = Op(p)  BY <2>1, AskKept
  <2>3. \A r : Acked(r) \subseteq Acked(r)'  BY <1>3, AckedStep
  <2>4. stored' \subseteq stored
    BY <2>1 DEF Asks, Sees, Stores, Removes, Unlinks, blobs
  <2>5. /\ pc'[q] # "new" => start'[q].acked \subseteq Acked(Run(q))
        /\ start'[q].created => create[Run(q)] = "done"
    <3>1. CASE start'[q] = start[q] /\ pc[q] # "new"
      BY <3>1, <1>t DEF StartInv
    <3>2. CASE start'[q] = [created |-> create[Run(q)] = "done", acked |-> Acked(Run(q))]
      <4>1. start'[q].acked = Acked(Run(q))  BY <3>2
      <4>2. start'[q].created = (create[Run(q)] = "done")  BY <3>2, SMT
      <4>3. start'[q].created => create[Run(q)] = "done"  BY <4>2, Zenon
      <4> QED  BY <4>1, <4>3
    <3>3. CASE Asks(q)
      <4>1. \/ start'[q] = [created |-> create[Run(q)] = "done", acked |-> Acked(Run(q))]
            \/ start' = start /\ pc[q] # "new"
        BY <3>3 DEF Asks, Steps, Outcomes
      <4> QED  BY <4>1, <3>1, <3>2
    <3>4. CASE Sees(q) \/ Stores(q) \/ Removes(q) \/ Unlinks(q)
      <4>1. start' = start /\ pc[q] # "new"  BY <3>4 DEF Sees, Stores, Removes, Unlinks
      <4> QED  BY <4>1, <3>1
    <3> QED  BY <2>1, <3>3, <3>4
  <2>6. pc'[q] = "fallback" /\ start'[q].created => Run(q) \notin stored
    <3>1. SUFFICES ASSUME pc'[q] = "fallback", start'[q].created PROVE Run(q) \notin stored
      OBVIOUS
    <3>2. Asks(q)  BY <2>1, <3>1 DEF Sees, Stores, Removes, Unlinks
    <3>3. create[Run(q)] = "done"  BY <2>5, <3>1
    <3>4. CASE pc[q] = "pointer" /\ Run(q) \notin pointers
      BY <3>3, <3>4, <1>t, <1>r DEF CountAccurate
    <3> QED  BY <3>1, <3>2, <3>4, <1>t DEF Asks, AfterPath, TypeOK, Op, Ops
  <2>7. pc'[q] = "unlink" => Run(q) \notin stored'
    BY <2>1, <1>t DEF Asks, Sees, Stores, Removes, Unlinks, AfterPath, TypeOK, Op, Ops
  <2> QED  BY <2>1, <2>2, <2>3, <2>4, <2>5, <2>6, <2>7, <1>t DEF StartInv
<1> QED  BY <1>1, <1>2, <1>3 DEF Next

LEMMA AnswersStep == RunsInv /\ [Next]_vars => AnswersCurrent'
<1> SUFFICES ASSUME RunsInv, [Next]_vars PROVE AnswersCurrent'  OBVIOUS
<1>t. TypeOK /\ AnswersCurrent /\ StartInv /\ CreatingInv /\ UpdatesKept  BY DEF RunsInv
<1>r. \A q \in Requests : Run(q) \in RunIds  BY <1>t DEF TypeOK, Run
<1>1. CASE UNCHANGED vars  BY <1>1, <1>t DEF vars, blobs, AnswersCurrent, Run
<1>2. ASSUME NEW r \in RunIds, CreateStep(r) PROVE AnswersCurrent'
  <2>1. UNCHANGED <<pc, seen, start>> /\ \A q : Run(q)' = Run(q)
    BY <1>2, <1>t, CreateEffects, AskKept
  <2>2. \A q \in Requests : start[q].created => r # Run(q)
    BY <1>2, <1>t, <1>r, CreateEffects DEF StartInv
  <2> QED  BY <1>2, <1>t, <1>r, <2>1, <2>2, CreateEffects DEF AnswersCurrent
<1>3. ASSUME NEW q \in Requests, RequestStep(q) PROVE AnswersCurrent'
  <2>1. /\ UNCHANGED <<ask, create>>
        /\ \A p \in Requests : p # q => pc'[p] = pc[p] /\ seen'[p] = seen[p] /\ start'[p] = start[p]
        /\ Asks(q) \/ Sees(q) \/ Stores(q) \/ Removes(q) \/ Unlinks(q)
    BY <1>3, <1>t, RequestEffects
  <2>2. \A p : Run(p)' = Run(p)  BY <2>1, AskKept
  <2>3. stored' \subseteq stored
    BY <2>1 DEF Asks, Sees, Stores, Removes, Unlinks, blobs
  <2>4. pc'[q] = "found" => start'[q].acked \subseteq seen'[q].merged
    <3>1. SUFFICES ASSUME pc'[q] = "found" PROVE start'[q].acked \subseteq seen'[q].merged
      OBVIOUS
    <3>2. Sees(q)
      BY <2>1, <3>1, <1>t DEF Asks, Stores, Removes, Unlinks, AfterPath, TypeOK, Op, Ops
    <3>3. start'[q] = start[q] /\ seen'[q].merged = merged[Run(q)] /\ Run(q) \in stored /\ pc[q] # "new"
      BY <3>2 DEF Sees
    <3> QED  BY <3>3, <1>t DEF StartInv, UpdatesKept
  <2>5. pc'[q] = "null" /\ start'[q].created => Run(q) \notin stored
    <3>1. SUFFICES ASSUME pc'[q] = "null", start'[q].created PROVE Run(q) \notin stored
      OBVIOUS
    <3>2. Asks(q)  BY <2>1, <3>1 DEF Sees, Stores, Removes, Unlinks
    <3>3. CASE pc[q] = "fallback" /\ start' = start  BY <3>1, <3>3, <1>t DEF StartInv
    <3> QED  BY <3>1, <3>2, <3>3, <1>t DEF Asks, AfterPath, TypeOK, Op, Ops
  <2> QED  BY <2>1, <2>2, <2>3, <2>4, <2>5, <1>t DEF AnswersCurrent
<1> QED  BY <1>1, <1>2, <1>3 DEF Next

LEMMA CountStep == RunsInv /\ [Next]_vars => CountAccurate'
<1> SUFFICES ASSUME RunsInv, [Next]_vars PROVE CountAccurate'  OBVIOUS
<1>t. TypeOK /\ CountAccurate /\ CreatingInv /\ StartInv /\ CallsInv  BY DEF RunsInv
<1>r. \A q \in Requests : Run(q) \in RunIds  BY <1>t DEF TypeOK, Run
<1>1. CASE UNCHANGED vars  BY <1>1, <1>t DEF vars, blobs, CountAccurate, Run, Op
<1>2. ASSUME NEW r \in RunIds, CreateStep(r) PROVE CountAccurate'
  <2>1. UNCHANGED pc /\ \A q : Run(q)' = Run(q) /\ Op(q)' = Op(q)
    BY <1>2, <1>t, CreateEffects, AskKept
  <2> QED  BY <1>2, <1>t, <2>1, CreateEffects DEF CountAccurate, CreatingInv, blobs
<1>3. ASSUME NEW q \in Requests, RequestStep(q) PROVE CountAccurate'
  <2>1. /\ UNCHANGED <<ask, create>> /\ \A p \in Requests : p # q => pc'[p] = pc[p]
        /\ Asks(q) \/ Sees(q) \/ Stores(q) \/ Removes(q) \/ Unlinks(q)
    BY <1>3, <1>t, RequestEffects
  <2>2. \A p : Run(p)' = Run(p) /\ Op(p)' = Op(p)  BY <2>1, AskKept
  <2>3. CASE Asks(q) \/ Sees(q) \/ Stores(q)
    <3>1. UNCHANGED <<stored, pointers>>  BY <2>3 DEF Asks, Sees, Stores, blobs
    <3>2. pc[q] = "unlink" => pc'[q] = "failed"
      BY <2>3 DEF Asks, Sees, Stores
    <3>3. pc[q] # "failed"
      BY <2>3 DEF Asks, Sees, Stores, Steps, Outcomes
    <3> QED  BY <3>1, <3>2, <3>3, <2>1, <2>2, <1>t DEF CountAccurate
  <2>4. CASE Removes(q)
    <3>1. Op(q) = "delete"  BY <2>4, <1>t DEF Removes, CallsInv
    <3> QED  BY <2>4, <3>1, <2>1, <2>2, <1>t DEF Removes, CountAccurate
  <2>5. CASE Unlinks(q)
    <3>1. Run(q) \notin stored  BY <2>5, <1>t DEF Unlinks, StartInv
    <3> QED  BY <2>5, <3>1, <2>1, <2>2, <1>t DEF Unlinks, CountAccurate
  <2> QED  BY <2>1, <2>3, <2>4, <2>5
<1> QED  BY <1>1, <1>2, <1>3 DEF Next

-----------------------------------------------------------------------------
LEMMA RunsStep == RunsInv /\ [Next]_vars => RunsInv'
<1> SUFFICES ASSUME RunsInv, [Next]_vars PROVE RunsInv'  OBVIOUS
<1>1. TypeOK'  BY TypeStep DEF RunsInv
<1> QED
  BY <1>1, RecordStep, EtagStep, CallsStep, CreatingStep, StartStep, UpdatesStep, AnswersStep,
     CountStep DEF RunsInv

LEMMA RunsInvariant == Spec => []RunsInv
BY RunsInit, RunsStep, PTL DEF Spec

(* The blobs and the requests keep their shape (all of                     *)
(* azure-blob-run-storage.ts), for any number of runs and requests.        *)
THEOREM TypeCorrect == Spec => []TypeOK
<1>1. RunsInv => TypeOK  BY DEF RunsInv
<1> QED  BY <1>1, RunsInvariant, PTL

(* No acknowledged update is lost (update, uploadJsonWithEtag).            *)
THEOREM UpdatesKeptCorrect == Spec => []UpdatesKept
<1>1. RunsInv => UpdatesKept  BY DEF RunsInv
<1> QED  BY <1>1, RunsInvariant, PTL

(* No answer is out of date when it is given (getById, resolveBlobPath).   *)
THEOREM AnswersCurrentCorrect == Spec => []AnswersCurrent
<1>1. RunsInv => AnswersCurrent  BY DEF RunsInv
<1> QED  BY <1>1, RunsInvariant, PTL

(* Both: an acknowledged update is kept, and later answers show it.        *)
THEOREM UpdatesVisibleCorrect == Spec => []UpdatesVisible
<1>1. UpdatesKept /\ AnswersCurrent => UpdatesVisible  BY DEF UpdatesVisible
<1> QED  BY <1>1, UpdatesKeptCorrect, AnswersCurrentCorrect, PTL

(* count() is off only by creates and deletes that did not complete        *)
(* (create, delete, count).                                                *)
THEOREM CountAccurateCorrect == Spec => []CountAccurate
<1>1. RunsInv => CountAccurate  BY DEF RunsInv
<1> QED  BY <1>1, RunsInvariant, PTL

(* Two blobs implement the atomic record of RunStore: the upload of the    *)
(* record creates it, the conditional upload updates it, the deletion of   *)
(* the record deletes it, and every other call changes nothing.            *)
THEOREM RunStoreImplemented == Spec => ImplementsRunStore
<1>1. Init => Records!Init
  BY DEF Init, Records!Init, Records!Fresh, record
<1>2. ASSUME RunsInv, RunsInv', [Next]_vars PROVE [Records!Next]_record
  <2>t. TypeOK /\ RecordInv /\ EtagInv /\ CreatingInv  BY <1>2 DEF RunsInv
  <2>1. CASE UNCHANGED vars  BY <2>1 DEF vars, blobs, record
  <2>2. ASSUME NEW r \in RunIds, CreateStep(r) PROVE [Records!Next]_record
    <3>1. CASE create[r] = "upload" /\ r \in stored'
      <4>1. version[r] = 0 /\ r \notin stored  BY <3>1, <2>t DEF RecordInv
      <4>2. /\ version'[r] = 1 /\ merged'[r] = {}
            /\ \A o \in RunIds : o # r => version'[o] = version[o] /\ merged'[o] = merged[o]
                                          /\ (o \in stored' <=> o \in stored)
        BY <3>1, <4>1, <2>2, <2>t, CreateEffects DEF blobs
      <4>3. record[r] = Records!Fresh
        BY <4>1 DEF Records!Fresh, record
      <4>4. record' = [record EXCEPT ![r] = [state |-> "stored", merged |-> {}]]
        <5>1. record'[r] = [state |-> "stored", merged |-> {}]
          BY <4>2, <3>1 DEF record
        <5>2. \A o \in RunIds : o # r => record'[o] = record[o]
          BY <4>2 DEF record
        <5>3. record' = [o \in RunIds |-> record'[o]] /\ record = [o \in RunIds |-> record[o]]
          BY DEF record
        <5> QED  BY <5>1, <5>2, <5>3
      <4>5. Records!Create(r)
        BY <4>3, <4>4 DEF Records!Create
      <4> QED  BY <4>5 DEF Records!Next
    <3>2. CASE ~(create[r] = "upload" /\ r \in stored')
      <4>1. UNCHANGED <<stored, version, merged>>
        BY <3>2, <2>2, <2>t, CreateEffects DEF blobs
      <4> QED  BY <4>1 DEF record
    <3> QED  BY <3>1, <3>2
  <2>3. ASSUME NEW q \in Requests, RequestStep(q) PROVE [Records!Next]_record
    <3>0. Run(q) \in RunIds  BY <2>t DEF TypeOK, Run
    <3>1. Asks(q) \/ Sees(q) \/ Stores(q) \/ Removes(q) \/ Unlinks(q)
      BY <2>3, <2>t, RequestEffects
    <3>2. CASE Asks(q) \/ Sees(q) \/ Unlinks(q)
      <4>1. UNCHANGED <<stored, version, merged>>
        BY <3>2 DEF Asks, Sees, Unlinks, blobs
      <4> QED  BY <4>1 DEF record
    <3>3. CASE Stores(q)
      <4>1. /\ Run(q) \in stored /\ stored' = stored /\ version[Run(q)] # 0 /\ version'[Run(q)] # 0
            /\ merged'[Run(q)] = merged[Run(q)] \union {q} /\ q \notin merged[Run(q)]
        BY <3>3, <3>0, <2>t DEF Stores, EtagMatches, EtagInv, RecordInv, TypeOK
      <4>2. \A o \in RunIds : o # Run(q) => version'[o] = version[o] /\ merged'[o] = merged[o]
        BY <3>3 DEF Stores
      <4>3. Records!Update(Run(q), q)
        BY <4>1, <4>2, <3>0 DEF Records!Update, record
      <4> QED  BY <4>3, <3>0 DEF Records!Next
    <3>4. CASE Removes(q)
      <4>1. /\ stored' = stored \ {Run(q)} /\ UNCHANGED <<version, merged>>
        BY <3>4 DEF Removes
      <4>2. CASE Run(q) \in stored
        <5>1. version[Run(q)] # 0  BY <4>2, <2>t DEF RecordInv
        <5>2. Records!Delete(Run(q))
          BY <4>1, <4>2, <5>1, <3>0 DEF Records!Delete, record
        <5> QED  BY <5>2, <3>0 DEF Records!Next
      <4>3. CASE Run(q) \notin stored
        <5>1. stored' = stored  BY <4>1, <4>3
        <5> QED  BY <4>1, <5>1 DEF record
      <4> QED  BY <4>2, <4>3
    <3> QED  BY <3>1, <3>2, <3>3, <3>4
  <2> QED  BY <1>2, <2>1, <2>2, <2>3 DEF Next
<1> QED  BY <1>1, <1>2, RunsInvariant, PTL DEF Spec, ImplementsRunStore, Records!Spec
=============================================================================
