-------------------------- MODULE StoreItemsProofs --------------------------
(***************************************************************************)
(* Proofs about StoreItems, for any namespaces, requests and times to live *)
(* and an unbounded overlap of requests: what is served has not expired,   *)
(* what is lost had, and an item keeps its creation time; and what the     *)
(* store answers: what a search finds and a listing names lies under its   *)
(* prefix, and clients that wait for each other read what they wrote.      *)
(***************************************************************************)
EXTENDS StoreItems, TLAPS, SequenceTheorems, WellFoundedInduction

-----------------------------------------------------------------------------
(***************************************************************************)
(* The inductive invariant.                                                *)
(***************************************************************************)

(* The items that request q answers, or may answer.                        *)
Served(q) == (IF ask[q] \in SearchAsks THEN found[q] ELSE {}) \union ({seen[q]} \ {None})

(* What a request that makes a call has asked for, and has read.           *)
CallOK(q) ==
    /\ pc[q] = "new" => found[q] = {} /\ seen[q] = None
    /\ pc[q] # "new" => ask[q] \in Asks
    /\ pc[q] \in {"upload", "reread"} => ask[q] \in PutAsks \union GetAsks
    /\ pc[q] \in {"refresh", "deleteExpired"} => ask[q] \in GetAsks
    /\ pc[q] = "scan" => ask[q] \in SearchAsks \union ListAsks
    /\ pc[q] = "refresh" \/ (pc[q] \in {"upload", "reread"} /\ ask[q] \in GetAsks)
          => seen[q] \in Items
    /\ pc[q] = "upload" /\ ask[q] \in GetAsks => expires[q] = Never
    /\ pc[q] # "new" /\ ask[q] \in GetAsks => found[q] = {}
    /\ pc[q] \in {"upload", "deleteExpired", "scan"} => provider = "azure"
    /\ Served(q) \subseteq Items

CallsInv == \A q \in Requests : CallOK(q)

(* A put that has yet to store its value has stored it nowhere.            *)
Unstored(q) == pc[q] = "new" \/ (pc[q] = "upload" /\ ask[q] \in PutAsks)

UnstoredInv ==
    \A q \in Requests : Unstored(q) =>
        /\ \A p \in DOMAIN items : items[p].val # q
        /\ \A r \in Requests : \A item \in Served(r) : item.val # q

(* No item is stored with a later expiry than its last writer asked for,   *)
(* and in SQL none is stored with one.                                     *)
Honest(item) ==
    \/ promised[item.val] = Never
    \/ item.expires # Never /\ promised[item.val] \in Nat /\ item.expires <= promised[item.val]

HonestInv ==
    \A p \in DOMAIN items : IF KeepsTtl THEN Honest(items[p]) ELSE items[p].expires = Never

TimelyInv ==
    KeepsTtl => \A q \in Requests : \A item \in Served(q) :
        promised[item.val] = Never \/ judged[q] <= promised[item.val]

(* One request at a time: the creation time that an upload carries is that *)
(* of the blob it replaces.                                                *)
SerialInv ==
    Serial => \A q \in Requests :
        /\ pc[q] \in Calls => \A r \in Requests : pc[r] \in Calls => r = q
        /\ pc[q] = "upload" /\ Place(ask[q].ns) \in DOMAIN items
              => items[Place(ask[q].ns)].created = created[q]

(* Only blobs are collected by nobody's call.                              *)
SweepInv == sweeping # {} => provider = "azure"

ItemsInv ==
    TypeOK /\ CallsInv /\ SweepInv /\ UnstoredInv /\ HonestInv /\ TimelyInv /\ SerialInv

-----------------------------------------------------------------------------
(***************************************************************************)
(* Type correctness.                                                       *)
(***************************************************************************)

(* The disjuncts of Next, with their parameters.                           *)
LEMMA NextSteps ==
  ASSUME Next
  PROVE  \/ \E q \in Requests, ns \in Namespaces :
              \/ \E ttl \in Ttls \union {Never} : Put(q, ns, ttl)
              \/ \E refresh \in BOOLEAN : Get(q, ns, refresh)
              \/ Delete(q, ns)
         \/ \E q \in Requests, prefix \in SearchPrefixes :
              \/ Search(q, prefix)
              \/ \E depth \in Depths : List(q, prefix, depth)
         \/ \E q \in Requests : Upload(q) \/ AnswerLost(q)
         \/ \E q \in Requests : Reread(q) \/ ScanEnds(q) \/ Fails(q)
         \/ \E q \in Requests : Refresh(q)
         \/ \E q \in Requests : DeleteExpired(q)
         \/ \E q \in Requests : \E p \in todo[q] : Scan(q, p)
         \/ \E p \in sweeping : Sweep(p)
         \/ Tick
BY DEF Next

(* A kind of request is told by its op.                                    *)
LEMMA AskKinds ==
  ASSUME NEW a \in Asks
  PROVE  /\ a.op = "put"    <=> a \in PutAsks
         /\ a.op = "get"    <=> a \in GetAsks
         /\ a.op = "delete" <=> a \in DeleteAsks
         /\ a.op = "search" <=> a \in SearchAsks
         /\ a.op = "list"   <=> a \in ListAsks
BY DEF Asks, PutAsks, GetAsks, DeleteAsks, SearchAsks, ListAsks

ItemsTyped == \A p \in DOMAIN items : items[p] \in Items /\ Place(items[p].ns) = p

(* Storing an item, removing places, and leaving the store alone.          *)
LEMMA StoredType ==
  ASSUME ItemsTyped, provider' = provider,
         NEW ns \in Namespaces, NEW val \in Requests,
         NEW since \in 0 .. MaxTime, NEW due \in Nat \union {Never},
         items' = Stored(ns, val, since, due)
  PROVE  ItemsTyped'
<1> DEFINE item == [ns |-> ns, val |-> val, created |-> since, expires |-> due]
<1>1. item \in Items /\ item.ns = ns  BY DEF Items
<1>2. /\ DOMAIN items' = DOMAIN items \union {Place(ns)}
      /\ \A p \in DOMAIN items' : items'[p] = IF p = Place(ns) THEN item ELSE items[p]
  BY DEF Stored
<1>3. ASSUME NEW p \in DOMAIN items' PROVE items'[p] \in Items /\ Place(items'[p].ns) = p
  <2>1. CASE p = Place(ns)
    <3>1. items'[p] = item  BY <1>2, <1>3, <2>1
    <3> QED  BY <1>1, <2>1, <3>1
  <2>2. CASE p # Place(ns)
    <3>1. items'[p] = items[p] /\ p \in DOMAIN items  BY <1>2, <1>3, <2>2
    <3> QED  BY <3>1 DEF ItemsTyped
  <2> QED  BY <2>1, <2>2
<1> QED  BY <1>3 DEF ItemsTyped, Place

LEMMA RemovedItems ==
  ASSUME NEW places, items' = Without(places)
  PROVE  /\ DOMAIN items' = DOMAIN items \ places
         /\ \A p \in DOMAIN items' : items'[p] = items[p]
<1>1. items' = [p \in (DOMAIN items \ places) |-> items[p]]  BY DEF Without, Restrict
<1> QED  BY <1>1

LEMMA RemovedType ==
  ASSUME ItemsTyped, provider' = provider, NEW places, items' = Without(places)
  PROVE  ItemsTyped'
<1>1. \A p \in DOMAIN items' : p \in DOMAIN items /\ items'[p] = items[p]  BY RemovedItems
<1>2. \A p \in DOMAIN items' : items'[p] \in Items /\ Place(items'[p].ns) = p
  BY <1>1 DEF ItemsTyped
<1> QED  BY <1>2 DEF ItemsTyped, Place

LEMMA SameType == ItemsTyped /\ provider' = provider /\ items' = items => ItemsTyped'
BY DEF ItemsTyped, Place

LEMMA TimesType ==
  ASSUME TypeOK
  PROVE  /\ \A p : CreatedAt(p) \in 0 .. MaxTime
         /\ \A ttl \in Ttls \union {Never} : Due(ttl) \in Nat \union {Never}
         /\ \A due \in Nat \union {Never} : Expiry(due) \in Nat \union {Never}
<1>1. now \in Nat /\ now \in 0 .. MaxTime  BY ConstantsAssumption DEF TypeOK
<1>2. ASSUME NEW p PROVE CreatedAt(p) \in 0 .. MaxTime
  <2>1. p \in DOMAIN items => items[p].created \in 0 .. MaxTime  BY DEF TypeOK, Items
  <2> QED  BY <1>1, <2>1 DEF CreatedAt
<1>3. ASSUME NEW ttl \in Ttls \union {Never} PROVE Due(ttl) \in Nat \union {Never}
  <2>1. ttl # Never => ttl \in Nat  BY ConstantsAssumption
  <2>2. ttl # Never => now + ttl \in Nat  BY <1>1, <2>1
  <2> QED  BY <2>2 DEF Due
<1>4. \A due \in Nat \union {Never} : Expiry(due) \in Nat \union {Never}  BY DEF Expiry
<1> QED  BY <1>2, <1>3, <1>4

LEMMA TypeInit == Init => TypeOK
<1> SUFFICES ASSUME Init PROVE TypeOK  OBVIOUS
<1>1. provider \in Providers /\ clients \in {"serial", "concurrent"} /\ now \in 0 .. MaxTime
  BY ConstantsAssumption DEF Init
<1>2. \A p \in DOMAIN items : items[p] \in Items /\ Place(items[p].ns) = p
  BY DEF Init
<1>3. /\ ask \in [Requests -> Asks \union {None}]
      /\ pc \in [Requests -> Calls \union {"new", "ok", "error"}]
      /\ seen \in [Requests -> Items \union {None}]
  BY DEF Init
<1>4. /\ expires \in [Requests -> Nat \union {Never}]
      /\ created \in [Requests -> 0 .. MaxTime] /\ judged \in [Requests -> 0 .. MaxTime]
      /\ DOMAIN todo = Requests /\ DOMAIN found = Requests
      /\ promised \in [Requests -> Nat \union {Never}]
      /\ acked \in [Namespaces -> Requests \union {None, Unknown}]
  BY ConstantsAssumption DEF Init
<1> QED  BY <1>1, <1>2, <1>3, <1>4 DEF TypeOK

LEMMA TypeStep == TypeOK /\ CallsInv /\ [Next]_vars => TypeOK'
<1> SUFFICES ASSUME TypeOK, CallsInv, [Next]_vars PROVE TypeOK'  OBVIOUS
<1> DEFINE Pcs == Calls \union {"new", "ok", "error"}
           Times == Nat \union {Never}
           Tolds == Requests \union {None, Unknown}
<1>i. ItemsTyped  BY DEF ItemsTyped, TypeOK
<1>1. CASE UNCHANGED vars
  BY <1>1 DEF vars, fixed, local, ghost, TypeOK, Place
<1>2. ASSUME NEW q \in Requests, NEW ns \in Namespaces, NEW ttl \in Ttls \union {Never}, Put(q, ns, ttl)
      PROVE  TypeOK'
  <2>1. Due(ttl) \in Times /\ CreatedAt(Place(ns)) \in 0 .. MaxTime /\ Expiry(Due(ttl)) \in Times
    BY TimesType
  <2>2. ItemsTyped'
    <3>1. items' = items \/ items' = Stored(ns, q, CreatedAt(Place(ns)), Expiry(Due(ttl)))
      BY <1>2 DEF Put, PutItem
    <3>2. provider' = provider  BY <1>2 DEF Put, PutItem, fixed
    <3> QED  BY <1>i, <2>1, <3>1, <3>2, StoredType, SameType
  <2>4. pc' \in [Requests -> Pcs]  BY <1>2 DEF Put, PutItem, Goto, Calls, TypeOK
  <2>5. ask' \in [Requests -> Asks \union {None}]  BY <1>2 DEF Put, Starts, TypeOK
  <2>6. /\ created' \in [Requests -> 0 .. MaxTime] /\ expires' \in [Requests -> Times]
        /\ promised' \in [Requests -> Times]
    BY <1>2, <2>1 DEF Put, PutItem, TypeOK
  <2>7. acked' \in [Namespaces -> Tolds]  BY <1>2 DEF Put, Told, TypeOK
  <2>8. UNCHANGED <<provider, clients, now, seen, judged, todo, found>>
    BY <1>2 DEF Put, PutItem, fixed
  <2> QED  BY <2>2, <2>4, <2>5, <2>6, <2>7, <2>8 DEF TypeOK, ItemsTyped
<1>3. ASSUME NEW q \in Requests, NEW ns \in Namespaces, NEW refresh \in BOOLEAN, Get(q, ns, refresh)
      PROVE  TypeOK'
  <2>1. ItemsTyped'
    <3>1. items' = items \/ items' = Without({Place(ns)})  BY <1>3 DEF Get
    <3>2. provider' = provider  BY <1>3 DEF Get, fixed
    <3> QED  BY <1>i, <3>1, <3>2, RemovedType, SameType
  <2>2. pc' \in [Requests -> Pcs]  BY <1>3 DEF Get, Goto, Calls, TypeOK
  <2>3. ask' \in [Requests -> Asks \union {None}]  BY <1>3 DEF Get, Starts, TypeOK
  <2>4. seen' \in [Requests -> Items \union {None}]
    <3>1. ItemAt(Place(ns)) \in Items \union {None}  BY DEF ItemAt, TypeOK
    <3> QED  BY <1>3, <3>1 DEF Get, TypeOK
  <2>5. judged' \in [Requests -> 0 .. MaxTime]  BY <1>3 DEF Get, TypeOK
  <2>6. UNCHANGED <<provider, clients, now, expires, created, todo, found, promised, acked>>
    BY <1>3 DEF Get, fixed, ghost
  <2> QED  BY <2>1, <2>2, <2>3, <2>4, <2>5, <2>6 DEF TypeOK, ItemsTyped
<1>4. ASSUME NEW q \in Requests, NEW ns \in Namespaces, Delete(q, ns)  PROVE TypeOK'
  <2>1. ItemsTyped'
    <3>1. items' = Without({Place(ns)}) /\ provider' = provider  BY <1>4 DEF Delete, fixed
    <3> QED  BY <1>i, <3>1, RemovedType
  <2>2. pc' \in [Requests -> Pcs]  BY <1>4 DEF Delete, Goto, TypeOK
  <2>3. ask' \in [Requests -> Asks \union {None}]  BY <1>4 DEF Delete, Starts, TypeOK
  <2>4. acked' \in [Namespaces -> Tolds]  BY <1>4 DEF Delete, Told, TypeOK
  <2>5. UNCHANGED <<provider, clients, now, local, promised>>  BY <1>4 DEF Delete, fixed
  <2> QED  BY <2>1, <2>2, <2>3, <2>4, <2>5 DEF local, TypeOK, ItemsTyped
<1>5. ASSUME NEW q \in Requests, NEW prefix \in SearchPrefixes, Search(q, prefix)  PROVE TypeOK'
  <2>1. ItemsTyped'
    <3>1. items' = items \/ items' = Without(DOMAIN items \ Live)
      <4>1. Live = DOMAIN items \ (DOMAIN items \ Live)  BY DEF Live
      <4> QED  BY <1>5, <4>1 DEF Search, Without
    <3>2. provider' = provider  BY <1>5 DEF Search, fixed
    <3> QED  BY <1>i, <3>1, <3>2, RemovedType, SameType
  <2>2. pc' \in [Requests -> Pcs]  BY <1>5 DEF Search, Goto, Calls, TypeOK
  <2>3. ask' \in [Requests -> Asks \union {None}]  BY <1>5 DEF Search, Starts, TypeOK
  <2>4. DOMAIN todo' = Requests /\ DOMAIN found' = Requests  BY <1>5 DEF Search, TypeOK
  <2>5. judged' \in [Requests -> 0 .. MaxTime]  BY <1>5 DEF Search, TypeOK
  <2>6. UNCHANGED <<provider, clients, now, seen, expires, created, promised, acked>>
    BY <1>5 DEF Search, fixed, ghost
  <2> QED  BY <2>1, <2>2, <2>3, <2>4, <2>5, <2>6 DEF TypeOK, ItemsTyped
<1>6. ASSUME NEW q \in Requests, NEW prefix \in SearchPrefixes, NEW depth \in Depths, List(q, prefix, depth)
      PROVE  TypeOK'
  <2>1. ItemsTyped'  BY <1>6, <1>i, SameType DEF List, fixed
  <2>2. pc' \in [Requests -> Pcs]  BY <1>6 DEF List, Goto, Calls, TypeOK
  <2>3. ask' \in [Requests -> Asks \union {None}]  BY <1>6 DEF List, Starts, TypeOK
  <2>4. DOMAIN todo' = Requests /\ DOMAIN found' = Requests  BY <1>6 DEF List, TypeOK
  <2>5. UNCHANGED <<provider, clients, now, seen, expires, created, judged, promised, acked>>
    BY <1>6 DEF List, fixed, ghost
  <2> QED  BY <2>1, <2>2, <2>3, <2>4, <2>5 DEF TypeOK, ItemsTyped
<1>7. ASSUME NEW q \in Requests, Upload(q) \/ AnswerLost(q)  PROVE TypeOK'
  <2>1. Uploaded(q) /\ (Ends(q, "ok") \/ Ends(q, "error"))  BY <1>7 DEF Upload, AnswerLost
  <2>2. ask[q] \in PutAsks \union GetAsks /\ pc[q] = "upload"  BY <2>1 DEF Uploaded, CallsInv, CallOK
  <2>3. ask[q].ns \in Namespaces  BY <2>2 DEF PutAsks, GetAsks
  <2>4. PICK val \in Requests : /\ items' = Stored(ask[q].ns, val, created[q], expires[q])
                                /\ promised' = [promised EXCEPT ![val] = expires[q]]
    <3>1. ask[q].op # "put" => seen[q].val \in Requests
      <4>1. ask[q].op # "put" => ask[q] \in GetAsks  BY <2>2 DEF PutAsks
      <4> QED  BY <2>2, <4>1 DEF CallsInv, CallOK, Items
    <3> QED  BY <2>1, <3>1 DEF Uploaded
  <2>5. ItemsTyped'
    <3>1. provider' = provider  BY <2>1 DEF Uploaded, fixed
    <3>2. created[q] \in 0 .. MaxTime /\ expires[q] \in Times  BY DEF TypeOK
    <3> QED  BY <1>i, <2>3, <2>4, <3>1, <3>2, StoredType
  <2>6. promised' \in [Requests -> Times]  BY <2>4 DEF TypeOK
  <2>7. pc' \in [Requests -> Pcs] /\ acked' \in [Namespaces -> Tolds]
    BY <2>1, <2>3 DEF Ends, Goto, Told, TypeOK
  <2>8. UNCHANGED <<provider, clients, now, ask, local>>  BY <2>1 DEF Uploaded, fixed
  <2> QED  BY <2>5, <2>6, <2>7, <2>8 DEF local, TypeOK, ItemsTyped
<1>8. ASSUME NEW q \in Requests, Reread(q) \/ ScanEnds(q) \/ Fails(q)  PROVE TypeOK'
  <2>1. UNCHANGED <<fixed, now, items, ask, local, promised>>
    BY <1>8 DEF Reread, ScanEnds, Fails, ghost
  <2>2. pc' \in [Requests -> Pcs]  BY <1>8 DEF Reread, ScanEnds, Fails, Ends, Goto, TypeOK
  <2>3. acked' \in [Namespaces -> Tolds]
    BY <1>8 DEF Reread, ScanEnds, Fails, Ends, Told, ghost, TypeOK
  <2>4. ItemsTyped'  BY <1>i, <2>1, SameType DEF fixed
  <2> QED  BY <2>1, <2>2, <2>3, <2>4 DEF fixed, local, TypeOK, ItemsTyped
<1>9. ASSUME NEW q \in Requests, Refresh(q)  PROVE TypeOK'
  <2>1. ask[q].ns \in Namespaces /\ seen[q].val \in Requests
    BY <1>9 DEF Refresh, CallsInv, CallOK, GetAsks, Items
  <2>2. CreatedAt(Place(ask[q].ns)) \in 0 .. MaxTime /\ Expiry(Never) \in Times
    BY TimesType
  <2>3. ItemsTyped'
    <3>1. \/ items' = items
          \/ items' = Stored(ask[q].ns, seen[q].val, CreatedAt(Place(ask[q].ns)), Expiry(Never))
      BY <1>9 DEF Refresh, PutItem
    <3>2. provider' = provider  BY <1>9 DEF Refresh, PutItem, fixed
    <3> QED  BY <1>i, <2>1, <2>2, <3>1, <3>2, StoredType, SameType
  <2>4. pc' \in [Requests -> Pcs]  BY <1>9 DEF Refresh, PutItem, Goto, Calls, TypeOK
  <2>5. /\ created' \in [Requests -> 0 .. MaxTime] /\ expires' \in [Requests -> Times]
        /\ promised' \in [Requests -> Times]
    BY <1>9, <2>2 DEF Refresh, PutItem, TypeOK
  <2>6. UNCHANGED <<provider, clients, now, ask, seen, judged, todo, found, acked>>
    BY <1>9 DEF Refresh, PutItem, fixed
  <2> QED  BY <2>3, <2>4, <2>5, <2>6 DEF TypeOK, ItemsTyped
<1>10. ASSUME NEW q \in Requests, DeleteExpired(q)  PROVE TypeOK'
  <2>1. ItemsTyped'
    <3>1. items' = Without({Place(ask[q].ns)}) /\ provider' = provider
      BY <1>10 DEF DeleteExpired, fixed
    <3> QED  BY <1>i, <3>1, RemovedType
  <2>2. pc' \in [Requests -> Pcs]  BY <1>10 DEF DeleteExpired, Goto, TypeOK
  <2> QED  BY <1>10, <2>1, <2>2 DEF DeleteExpired, fixed, local, ghost, TypeOK, ItemsTyped
<1>11. ASSUME NEW q \in Requests, NEW p \in todo[q], Scan(q, p)  PROVE TypeOK'
  <2>1. UNCHANGED <<fixed, now, items, ask, pc, seen, expires, created, judged, ghost>>
        /\ DOMAIN todo' = Requests /\ DOMAIN found' = Requests
    BY <1>11 DEF Scan, TypeOK
  <2>2. ItemsTyped'  BY <1>i, <2>1, SameType DEF fixed
  <2> QED  BY <2>1, <2>2 DEF fixed, ghost, TypeOK, ItemsTyped
<1>12. ASSUME NEW p \in sweeping, Sweep(p)  PROVE TypeOK'
  <2>1. ItemsTyped'
    <3>1. (items' = items \/ items' = Without({p})) /\ provider' = provider
      BY <1>12 DEF Sweep, fixed
    <3> QED  BY <1>i, <3>1, RemovedType, SameType
  <2>2. acked' \in [Namespaces -> Tolds]  BY <1>12 DEF Sweep, TypeOK
  <2> QED  BY <1>12, <2>1, <2>2 DEF Sweep, fixed, local, TypeOK, ItemsTyped
<1>13. CASE Tick
  <2>1. now' \in 0 .. MaxTime  BY <1>13, ConstantsAssumption DEF Tick, TypeOK
  <2>2. ItemsTyped'  BY <1>i, <1>13, SameType DEF Tick, fixed
  <2> QED  BY <1>13, <2>1, <2>2 DEF Tick, fixed, local, ghost, TypeOK, ItemsTyped
<1> QED
  BY <1>1, <1>2, <1>3, <1>4, <1>5, <1>6, <1>7, <1>8, <1>9, <1>10, <1>11, <1>12, <1>13, NextSteps

(* A step of q leaves what the other requests ask and have read.           *)
Steady(q) ==
    /\ provider' = provider
    /\ \A r \in Requests \ {q} :
          /\ pc'[r] = pc[r] /\ ask'[r] = ask[r] /\ seen'[r] = seen[r] /\ found'[r] = found[r]
          /\ expires'[r] = expires[r] /\ judged'[r] = judged[r] /\ created'[r] = created[r]

LEMMA CallsOthers ==
  ASSUME CallsInv, NEW q \in Requests, Steady(q), CallOK(q)'
  PROVE  CallsInv'
<1> SUFFICES ASSUME NEW r \in Requests \ {q} PROVE CallOK(r)'  BY DEF CallsInv
<1>1. CallOK(r)  BY DEF CallsInv
<1>2. /\ provider' = provider
      /\ pc'[r] = pc[r] /\ ask'[r] = ask[r] /\ seen'[r] = seen[r] /\ found'[r] = found[r]
      /\ expires'[r] = expires[r]
  BY DEF Steady
<1>3. Served(r)' = Served(r)  BY <1>2 DEF Served
<1> QED  BY <1>1, <1>2, <1>3 DEF CallOK

(* The steps of one request.                                               *)
StepOf(q) ==
    \/ \E ns \in Namespaces : \/ \E ttl \in Ttls \union {Never} : Put(q, ns, ttl)
                              \/ \E refresh \in BOOLEAN : Get(q, ns, refresh)
                              \/ Delete(q, ns)
    \/ \E prefix \in SearchPrefixes :
          Search(q, prefix) \/ \E depth \in Depths : List(q, prefix, depth)
    \/ Upload(q) \/ AnswerLost(q)
    \/ Reread(q) \/ ScanEnds(q) \/ Fails(q)
    \/ Refresh(q)
    \/ DeleteExpired(q)
    \/ \E p \in todo[q] : Scan(q, p)

LEMMA NextStepOf ==
  ASSUME Next
  PROVE  (\E q \in Requests : StepOf(q)) \/ (\E p \in sweeping : Sweep(p)) \/ Tick
BY DEF Next, StepOf

LEMMA StepsSteady ==
  ASSUME TypeOK, NEW q \in Requests, StepOf(q)
  PROVE  Steady(q)
<1>1. CASE \E ns \in Namespaces : \E ttl \in Ttls \union {Never} : Put(q, ns, ttl)
  BY <1>1 DEF Put, PutItem, Starts, Goto, fixed, Steady, TypeOK
<1>2. CASE \E ns \in Namespaces : \E refresh \in BOOLEAN : Get(q, ns, refresh)
  BY <1>2 DEF Get, Starts, Goto, fixed, Steady, TypeOK
<1>3. CASE \E ns \in Namespaces : Delete(q, ns)
  BY <1>3 DEF Delete, Starts, Goto, fixed, local, Steady, TypeOK
<1>4. CASE \E prefix \in SearchPrefixes :
              Search(q, prefix) \/ \E depth \in Depths : List(q, prefix, depth)
  BY <1>4 DEF Search, List, Starts, Goto, fixed, Steady, TypeOK
<1>5. CASE Upload(q) \/ AnswerLost(q)
  BY <1>5 DEF Upload, AnswerLost, Uploaded, Ends, Goto, fixed, local, Steady, TypeOK
<1>6. CASE Reread(q) \/ ScanEnds(q) \/ Fails(q)
  BY <1>6 DEF Reread, ScanEnds, Fails, Ends, Goto, fixed, local, Steady, TypeOK
<1>7. CASE Refresh(q)  BY <1>7 DEF Refresh, PutItem, Goto, fixed, Steady, TypeOK
<1>8. CASE DeleteExpired(q)  BY <1>8 DEF DeleteExpired, Goto, fixed, local, Steady, TypeOK
<1>9. CASE \E p \in todo[q] : Scan(q, p)  BY <1>9 DEF Scan, fixed, Steady, TypeOK
<1> QED  BY <1>1, <1>2, <1>3, <1>4, <1>5, <1>6, <1>7, <1>8, <1>9 DEF StepOf

(* A request keeps its order of calls.                                     *)
LEMMA CallOfStep ==
  ASSUME TypeOK, CallsInv, NEW q \in Requests, StepOf(q)
  PROVE  CallOK(q)'
<1>i. CallOK(q)  BY DEF CallsInv
<1>d. Calls = {"upload", "reread", "refresh", "deleteExpired", "scan"}  BY DEF Calls
<1>1. ASSUME NEW ns \in Namespaces, NEW ttl \in Ttls \union {Never}, Put(q, ns, ttl)  PROVE CallOK(q)'
  <2>1. pc[q] = "new" /\ found'[q] = {} /\ seen'[q] = None
    BY <1>1, <1>i DEF Put, PutItem, Starts, CallOK
  <2>2. ask'[q] \in PutAsks /\ ask'[q] \in Asks /\ ask'[q] \notin GetAsks
    BY <1>1 DEF Put, Starts, PutAsks, GetAsks, Asks, TypeOK
  <2>3. pc'[q] \in {"upload", "reread", "ok"} /\ (pc'[q] = "upload" => provider' = "azure")
    BY <1>1 DEF Put, PutItem, Goto, fixed, TypeOK
  <2> QED  BY <2>1, <2>2, <2>3 DEF CallOK, Served
<1>2. ASSUME NEW ns \in Namespaces, NEW refresh \in BOOLEAN, Get(q, ns, refresh)  PROVE CallOK(q)'
  <2>1. pc[q] = "new" /\ found'[q] = {}
    BY <1>2, <1>i DEF Get, Starts, CallOK
  <2>2. ask'[q] \in GetAsks /\ ask'[q] \in Asks
    BY <1>2 DEF Get, Starts, GetAsks, Asks, TypeOK
  <2>3. /\ pc'[q] \in {"deleteExpired", "refresh", "ok"}
        /\ pc'[q] = "deleteExpired" => provider' = "azure"
        /\ pc'[q] = "refresh" => seen'[q] # None
    BY <1>2 DEF Get, Goto, fixed, TypeOK
  <2>4. seen'[q] \in Items \union {None}
    <3>1. ItemAt(Place(ns)) \in Items \union {None}  BY DEF ItemAt, TypeOK
    <3> QED  BY <1>2, <3>1 DEF Get, TypeOK
  <2> QED  BY <2>1, <2>2, <2>3, <2>4 DEF CallOK, Served
<1>3. ASSUME NEW ns \in Namespaces, Delete(q, ns)  PROVE CallOK(q)'
  <2>1. pc[q] = "new" /\ found'[q] = {} /\ seen'[q] = None /\ pc'[q] = "ok"
    BY <1>3, <1>i DEF Delete, Starts, Goto, local, CallOK, TypeOK
  <2>2. ask'[q] \in Asks
    BY <1>3 DEF Delete, Starts, DeleteAsks, Asks, TypeOK
  <2> QED  BY <2>1, <2>2 DEF CallOK, Served
<1>4. ASSUME NEW prefix \in SearchPrefixes, Search(q, prefix)  PROVE CallOK(q)'
  <2>1. pc[q] = "new" /\ found[q] = {} /\ seen'[q] = None
    BY <1>4, <1>i DEF Search, Starts, CallOK
  <2>2. ask'[q] \in SearchAsks /\ ask'[q] \in Asks /\ ask'[q] \notin GetAsks
    BY <1>4 DEF Search, Starts, SearchAsks, GetAsks, Asks, TypeOK
  <2>3. pc'[q] \in {"scan", "ok"} /\ (pc'[q] = "scan" => provider' = "azure")
    BY <1>4 DEF Search, Goto, fixed, TypeOK
  <2>4. found'[q] \subseteq Items
    BY <1>4, <2>1 DEF Search, Live, TypeOK
  <2> QED  BY <2>1, <2>2, <2>3, <2>4 DEF CallOK, Served
<1>5. ASSUME NEW prefix \in SearchPrefixes, NEW depth \in Depths, List(q, prefix, depth)
      PROVE  CallOK(q)'
  <2>1. pc[q] = "new" /\ seen'[q] = None
    BY <1>5, <1>i DEF List, Starts, CallOK
  <2>2. ask'[q] \in ListAsks /\ ask'[q] \in Asks /\ ask'[q] \notin GetAsks \union SearchAsks
    BY <1>5 DEF List, Starts, ListAsks, SearchAsks, GetAsks, Asks, TypeOK
  <2>3. pc'[q] \in {"scan", "ok"} /\ (pc'[q] = "scan" => provider' = "azure")
    BY <1>5 DEF List, Goto, fixed, TypeOK
  <2> QED  BY <2>1, <2>2, <2>3 DEF CallOK, Served
<1>6. ASSUME Upload(q) \/ AnswerLost(q)  PROVE CallOK(q)'
  <2>1. pc[q] = "upload" /\ UNCHANGED <<ask, local>> /\ pc'[q] \in {"ok", "error"}
    BY <1>6 DEF Upload, AnswerLost, Uploaded, Ends, Goto, TypeOK
  <2>2. Served(q)' = Served(q)  BY <2>1 DEF Served, local
  <2> QED  BY <1>i, <2>1, <2>2 DEF local, CallOK
<1>7. ASSUME Reread(q) \/ ScanEnds(q) \/ Fails(q)  PROVE CallOK(q)'
  <2>1. pc[q] \in Calls /\ UNCHANGED <<ask, local>> /\ pc'[q] \in {"ok", "error"}
    BY <1>7, <1>d DEF Reread, ScanEnds, Fails, Ends, Goto, TypeOK
  <2>2. Served(q)' = Served(q)  BY <2>1 DEF Served, local
  <2> QED  BY <1>i, <1>d, <2>1, <2>2 DEF local, CallOK
<1>8. ASSUME Refresh(q)  PROVE CallOK(q)'
  <2>1. /\ pc[q] = "refresh" /\ pc'[q] \in {"upload", "reread", "ok"}
        /\ pc'[q] = "upload" => provider' = "azure" /\ expires'[q] = Never
        /\ UNCHANGED <<ask, seen, found>>
    BY <1>8 DEF Refresh, PutItem, Goto, fixed, TypeOK
  <2>2. Served(q)' = Served(q)  BY <2>1 DEF Served
  <2> QED  BY <1>i, <2>1, <2>2 DEF CallOK
<1>9. ASSUME DeleteExpired(q)  PROVE CallOK(q)'
  <2>1. pc[q] = "deleteExpired" /\ pc'[q] = "ok" /\ UNCHANGED <<ask, local>>
    BY <1>9 DEF DeleteExpired, Goto, TypeOK
  <2>2. Served(q)' = Served(q)  BY <2>1 DEF Served, local
  <2> QED  BY <1>i, <2>1, <2>2 DEF local, CallOK
<1>10. ASSUME NEW p \in todo[q], Scan(q, p)  PROVE CallOK(q)'
  <2>1. pc[q] = "scan" /\ UNCHANGED <<fixed, ask, pc, seen>>  BY <1>10 DEF Scan
  <2>2. ask[q] \in SearchAsks => found'[q] \subseteq Items
    <3>1. ASSUME ask[q] \in SearchAsks PROVE found'[q] \subseteq Items
      <4>1. found[q] \subseteq Items  BY <1>i, <3>1 DEF CallOK, Served
      <4>2. ask[q].op = "search"  BY <3>1 DEF SearchAsks
      <4>3. \/ found'[q] = found[q]
            \/ found'[q] = found[q] \union {ItemAt(p)} /\ ItemAt(p) # None
        <5> DEFINE stale == ItemAt(p) # None /\ ExpiredAt(ItemAt(p), judged[q])
        <5>1. CASE ItemAt(p) = None \/ stale
          <6>1. found'[q] = found[q] \union {}  BY <1>10, <4>2, <5>1 DEF Scan, TypeOK
          <6> QED  BY <6>1
        <5>2. CASE ~(ItemAt(p) = None \/ stale)
          <6>1. found'[q] = found[q] \union {ItemAt(p)}  BY <1>10, <4>2, <5>2 DEF Scan, TypeOK
          <6> QED  BY <5>2, <6>1
        <5> QED  BY <5>1, <5>2
      <4>4. ItemAt(p) \in Items \union {None}  BY DEF ItemAt, TypeOK
      <4> QED  BY <4>1, <4>3, <4>4
    <3> QED  BY <3>1
  <2>3. ask[q] \notin GetAsks
    BY <1>i, <2>1 DEF CallOK, SearchAsks, ListAsks, GetAsks
  <2>4. Served(q)' \subseteq Items
    BY <1>i, <2>1, <2>2 DEF Served, CallOK
  <2> QED  BY <1>i, <2>1, <2>3, <2>4 DEF CallOK, fixed
<1> QED
  BY <1>1, <1>2, <1>3, <1>4, <1>5, <1>6, <1>7, <1>8, <1>9, <1>10 DEF StepOf

LEMMA CallsStep == TypeOK /\ CallsInv /\ [Next]_vars => CallsInv'
<1> SUFFICES ASSUME TypeOK, CallsInv, [Next]_vars PROVE CallsInv'  OBVIOUS
<1>1. ASSUME NEW q \in Requests, StepOf(q) PROVE CallsInv'
  BY <1>1, StepsSteady, CallOfStep, CallsOthers
<1>2. ASSUME UNCHANGED <<fixed, ask, pc, local>> PROVE CallsInv'
  <2>1. \A q \in Requests : Served(q)' = Served(q)  BY <1>2 DEF Served, local
  <2> QED  BY <1>2, <2>1 DEF fixed, local, CallsInv, CallOK
<1>3. CASE UNCHANGED vars  BY <1>2, <1>3 DEF vars
<1>4. CASE Tick  BY <1>2, <1>4 DEF Tick
<1>5. ASSUME NEW p \in sweeping, Sweep(p) PROVE CallsInv'  BY <1>2, <1>5 DEF Sweep
<1> QED  BY <1>1, <1>3, <1>4, <1>5, NextStepOf

-----------------------------------------------------------------------------
(***************************************************************************)
(* What a step does to the items, and where an answer comes from.          *)
(***************************************************************************)
Kept(p) == p \in DOMAIN items /\ items'[p] = items[p]

(* Nothing is written, something may be removed.                           *)
Shrinks == (\A p \in DOMAIN items' : Kept(p)) /\ promised' = promised

(* A put is asked for or stored, or a value that was read is put again     *)
(* without an expiry.                                                      *)
WritesVal(val, due) ==
    /\ promised' = [promised EXCEPT ![val] = due]
    /\ \/ Unstored(val)
       \/ due = Never /\ \E q \in Requests : \E item \in Served(q) : item.val = val
    /\ \A p \in DOMAIN items' :
          Kept(p) \/ /\ items'[p].val = val /\ items'[p].expires = Expiry(due)
                     /\ Unstored(val) => ~Unstored(val)'

LEMMA StoredItems ==
  ASSUME NEW ns, NEW val, NEW since, NEW due, items' = Stored(ns, val, since, due)
  PROVE  \A p \in DOMAIN items' :
            Kept(p) \/ (items'[p].val = val /\ items'[p].expires = due
                        /\ items'[p].created = since /\ p = Place(ns))
BY DEF Stored, Kept

LEMMA ShrinksStep ==
  ASSUME NEW places, items' = items \/ items' = Without(places), promised' = promised
  PROVE  Shrinks
<1>1. CASE items' = items  BY <1>1 DEF Shrinks, Kept
<1>2. CASE items' = Without(places)  BY <1>2, RemovedItems DEF Shrinks, Kept
<1> QED  BY <1>1, <1>2

LEMMA EffectStep ==
  ASSUME TypeOK, CallsInv, UnstoredInv, [Next]_vars
  PROVE  \/ Shrinks
         \/ \E val \in Requests, due \in Nat \union {Never} : WritesVal(val, due)
<1>1. CASE UNCHANGED vars  BY <1>1, ShrinksStep DEF vars, ghost
<1>2. ASSUME NEW q \in Requests, NEW ns \in Namespaces, NEW ttl \in Ttls \union {Never}, Put(q, ns, ttl)
      PROVE  WritesVal(q, Due(ttl)) /\ Due(ttl) \in Nat \union {Never}
  <2>1. /\ promised' = [promised EXCEPT ![q] = Due(ttl)] /\ pc[q] = "new"
        /\ \/ items' = items
           \/ /\ items' = Stored(ns, q, CreatedAt(Place(ns)), Expiry(Due(ttl)))
              /\ pc'[q] \in {"reread", "ok"}
    BY <1>2 DEF Put, PutItem, Starts, Goto, TypeOK
  <2>t. Due(ttl) \in Nat \union {Never}  BY TimesType
  <2>2. ASSUME items' = items PROVE WritesVal(q, Due(ttl))
    <3>1. Unstored(q)  BY <2>1 DEF Unstored
    <3>2. \A p \in DOMAIN items' : Kept(p)  BY <2>2 DEF Kept
    <3> QED  BY <2>1, <3>1, <3>2 DEF WritesVal
  <2>3. ASSUME items' # items PROVE WritesVal(q, Due(ttl))
    <3>1. \A p \in DOMAIN items' :
             Kept(p) \/ (items'[p].val = q /\ items'[p].expires = Expiry(Due(ttl)))
      BY <2>1, <2>3, StoredItems
    <3>2. Unstored(q) /\ ~Unstored(q)'  BY <2>1, <2>3 DEF Unstored
    <3> QED  BY <2>1, <3>1, <3>2 DEF WritesVal
  <2> QED  BY <2>t, <2>2, <2>3
<1>3. ASSUME NEW q \in Requests, NEW ns \in Namespaces, NEW refresh \in BOOLEAN, Get(q, ns, refresh)
      PROVE  Shrinks
  BY <1>3, ShrinksStep DEF Get, ghost
<1>4. ASSUME NEW q \in Requests, NEW ns \in Namespaces, Delete(q, ns)  PROVE Shrinks
  BY <1>4, ShrinksStep DEF Delete
<1>5. ASSUME NEW q \in Requests, NEW prefix \in SearchPrefixes, Search(q, prefix)  PROVE Shrinks
  <2>1. Live = DOMAIN items \ (DOMAIN items \ Live)  BY DEF Live
  <2>2. items' = items \/ items' = Without(DOMAIN items \ Live)  BY <1>5, <2>1 DEF Search, Without
  <2> QED  BY <1>5, <2>2, ShrinksStep DEF Search, ghost
<1>6. ASSUME NEW q \in Requests, NEW prefix \in SearchPrefixes, NEW depth \in Depths, List(q, prefix, depth)
      PROVE  Shrinks
  BY <1>6, ShrinksStep DEF List, ghost
<1>7. ASSUME NEW q \in Requests, Upload(q) \/ AnswerLost(q)
      PROVE  \E val \in Requests, due \in Nat \union {Never} : WritesVal(val, due)
  <2>1. Uploaded(q) /\ pc[q] = "upload" /\ pc'[q] \in {"ok", "error"}
    BY <1>7 DEF Upload, AnswerLost, Uploaded, Ends, Goto, TypeOK
  <2>2. /\ ask[q] \in PutAsks \union GetAsks /\ provider = "azure" /\ expires[q] \in Nat \union {Never}
        /\ ask[q] \in GetAsks => seen[q] \in Items /\ expires[q] = Never
    BY <2>1 DEF CallsInv, CallOK, TypeOK
  <2>3. Expiry(expires[q]) = expires[q]  BY <2>2 DEF Expiry, Sql
  <2>4. CASE ask[q].op = "put"
    <3>1. /\ items' = Stored(ask[q].ns, q, created[q], expires[q])
          /\ promised' = [promised EXCEPT ![q] = expires[q]]
      BY <2>1, <2>4 DEF Uploaded
    <3>2. ask[q] \in PutAsks  BY <2>2, <2>4 DEF GetAsks
    <3>3. \A p \in DOMAIN items' : Kept(p) \/ (items'[p].val = q /\ items'[p].expires = expires[q])
      BY <3>1, StoredItems
    <3> QED  BY <2>1, <2>2, <2>3, <3>1, <3>2, <3>3 DEF WritesVal, Unstored
  <2>5. CASE ask[q].op # "put"
    <3>1. /\ items' = Stored(ask[q].ns, seen[q].val, created[q], expires[q])
          /\ promised' = [promised EXCEPT ![seen[q].val] = expires[q]]
      BY <2>1, <2>5 DEF Uploaded
    <3>2. ask[q] \in GetAsks  BY <2>2, <2>5 DEF PutAsks
    <3>3. seen[q].val \in Requests /\ expires[q] = Never  BY <2>2, <3>2 DEF Items
    <3>4. \A p \in DOMAIN items' :
             Kept(p) \/ (items'[p].val = seen[q].val /\ items'[p].expires = expires[q])
      BY <3>1, StoredItems
    <3>5. seen[q] \in Served(q)  BY <2>2, <3>2, NoneAssumption DEF Served
    <3>6. ~Unstored(seen[q].val)  BY <3>3, <3>5 DEF UnstoredInv
    <3> QED  BY <2>3, <3>1, <3>3, <3>4, <3>5, <3>6 DEF WritesVal
  <2> QED  BY <2>4, <2>5
<1>8. ASSUME NEW q \in Requests, Reread(q) \/ ScanEnds(q) \/ Fails(q)  PROVE Shrinks
  BY <1>8, ShrinksStep DEF Reread, ScanEnds, Fails, ghost
<1>9. ASSUME NEW q \in Requests, Refresh(q)
      PROVE  \E val \in Requests, due \in Nat \union {Never} : WritesVal(val, due)  \/ Shrinks
  <2>1. pc[q] = "refresh" /\ ask[q] \in GetAsks /\ seen[q] \in Items /\ seen[q].val \in Requests
    BY <1>9 DEF Refresh, CallsInv, CallOK, Items
  <2>2. CASE provider = "azure"
    <3>1. items' = items /\ promised' = promised  BY <1>9, <2>2 DEF Refresh, PutItem
    <3> QED  BY <2>1, <3>1, ShrinksStep
  <2>3. CASE provider # "azure"
    <3>1. /\ items' = Stored(ask[q].ns, seen[q].val, CreatedAt(Place(ask[q].ns)), Expiry(Never))
          /\ promised' = [promised EXCEPT ![seen[q].val] = Never]
      BY <1>9, <2>3 DEF Refresh, PutItem
    <3>2. \A p \in DOMAIN items' :
             Kept(p) \/ (items'[p].val = seen[q].val /\ items'[p].expires = Expiry(Never))
      BY <3>1, StoredItems
    <3>3. seen[q] \in Served(q)  BY <2>1, NoneAssumption DEF Served
    <3>4. ~Unstored(seen[q].val)  BY <2>1, <3>3 DEF UnstoredInv
    <3>5. WritesVal(seen[q].val, Never)  BY <3>1, <3>2, <3>3, <3>4 DEF WritesVal
    <3> QED  BY <2>1, <3>5
  <2> QED  BY <2>2, <2>3
<1>10. ASSUME NEW q \in Requests, DeleteExpired(q)  PROVE Shrinks
  BY <1>10, ShrinksStep DEF DeleteExpired, ghost
<1>11. ASSUME NEW q \in Requests, NEW p \in todo[q], Scan(q, p)  PROVE Shrinks
  BY <1>11, ShrinksStep DEF Scan, ghost
<1>12. ASSUME NEW p \in sweeping, Sweep(p)  PROVE Shrinks
  BY <1>12, ShrinksStep DEF Sweep
<1>13. CASE Tick  BY <1>13, ShrinksStep DEF Tick, ghost
<1> QED
  BY <1>1, <1>2, <1>3, <1>4, <1>5, <1>6, <1>7, <1>8, <1>9, <1>10, <1>11, <1>12, <1>13, NextSteps

(* A value that a put has stored is not new again.                         *)
LEMMA UnstoredKept ==
  ASSUME TypeOK, CallsInv, [Next]_vars, NEW r \in Requests, Unstored(r)'
  PROVE  Unstored(r)
<1>1. ASSUME pc'[r] = pc[r], ask'[r] = ask[r] PROVE Unstored(r)  BY <1>1 DEF Unstored
<1>2. ASSUME NEW q \in Requests, StepOf(q), q # r PROVE Unstored(r)
  BY <1>1, <1>2, StepsSteady DEF Steady
<1>3. ASSUME StepOf(r) PROVE Unstored(r)
  <2>1. CASE \E ns \in Namespaces : \/ \E ttl \in Ttls \union {Never} : Put(r, ns, ttl)
                                    \/ \E refresh \in BOOLEAN : Get(r, ns, refresh)
                                    \/ Delete(r, ns)
    BY <2>1 DEF Put, Get, Delete, Starts, Unstored
  <2>2. CASE \E prefix \in SearchPrefixes :
                Search(r, prefix) \/ \E depth \in Depths : List(r, prefix, depth)
    BY <2>2 DEF Search, List, Starts, Unstored
  <2>3. CASE Upload(r) \/ AnswerLost(r) \/ Reread(r) \/ ScanEnds(r) \/ Fails(r) \/ DeleteExpired(r)
    <3>1. pc'[r] \in {"ok", "error"}
      BY <2>3 DEF Upload, AnswerLost, Uploaded, Reread, ScanEnds, Fails, DeleteExpired, Ends, Goto, TypeOK
    <3> QED  BY <3>1 DEF Unstored
  <2>4. CASE Refresh(r)
    <3>1. ask'[r] \in GetAsks /\ pc'[r] # "new"
      BY <2>4 DEF Refresh, PutItem, Goto, CallsInv, CallOK, TypeOK
    <3> QED  BY <3>1 DEF Unstored, GetAsks, PutAsks
  <2>5. CASE \E p \in todo[r] : Scan(r, p)  BY <1>1, <2>5 DEF Scan
  <2> QED  BY <1>3, <2>1, <2>2, <2>3, <2>4, <2>5 DEF StepOf
<1>4. ASSUME UNCHANGED <<ask, pc>> PROVE Unstored(r)  BY <1>1, <1>4
<1>5. CASE UNCHANGED vars  BY <1>4, <1>5 DEF vars
<1>6. CASE Tick  BY <1>4, <1>6 DEF Tick
<1>7. ASSUME NEW p \in sweeping, Sweep(p) PROVE Unstored(r)  BY <1>4, <1>7 DEF Sweep
<1> QED  BY <1>2, <1>3, <1>5, <1>6, <1>7, NextStepOf

(* Every answer was given before, or is an item that has not expired.      *)
Before(q, item) == item \in Served(q) /\ judged'[q] = judged[q]
Read(q, item)   == \E p \in DOMAIN items : item = items[p] /\ ~ExpiredAt(item, judged'[q])

LEMMA ServedFrom ==
  ASSUME TypeOK, CallsInv, [Next]_vars, NEW q \in Requests, NEW item \in Served(q)'
  PROVE  Before(q, item) \/ (Read(q, item) /\ promised' = promised)
<1>1. ASSUME ask'[q] = ask[q], seen'[q] = seen[q], found'[q] = found[q], judged'[q] = judged[q]
      PROVE  Before(q, item)
  BY <1>1 DEF Served, Before
<1>2. ASSUME NEW r \in Requests, StepOf(r), r # q PROVE Before(q, item)
  BY <1>1, <1>2, StepsSteady DEF Steady
<1>3. ASSUME UNCHANGED <<ask, local>> PROVE Before(q, item)  BY <1>1, <1>3 DEF local
<1>4. ASSUME pc[q] = "new", seen'[q] = seen[q], ask'[q] \notin SearchAsks PROVE FALSE
  <2>1. seen[q] = None  BY <1>4 DEF CallsInv, CallOK
  <2> QED  BY <1>4, <2>1 DEF Served
<1>5. ASSUME NEW ns \in Namespaces, NEW ttl \in Ttls \union {Never}, Put(q, ns, ttl)  PROVE FALSE
  BY <1>4, <1>5 DEF Put, Starts, SearchAsks, TypeOK
<1>6. ASSUME NEW ns \in Namespaces, Delete(q, ns)  PROVE FALSE
  BY <1>4, <1>6 DEF Delete, Starts, SearchAsks, local, TypeOK
<1>7. ASSUME NEW prefix \in SearchPrefixes, NEW depth \in Depths, List(q, prefix, depth)  PROVE FALSE
  BY <1>4, <1>7 DEF List, Starts, SearchAsks, TypeOK
<1>8. ASSUME NEW ns \in Namespaces, NEW refresh \in BOOLEAN, Get(q, ns, refresh)
      PROVE  Read(q, item) /\ promised' = promised
  <2>1. ask'[q] \notin SearchAsks /\ judged'[q] = now /\ promised' = promised
    BY <1>8 DEF Get, Starts, SearchAsks, ghost, TypeOK
  <2>2. item = seen'[q] /\ item # None  BY <2>1 DEF Served
  <2>3. /\ seen'[q] # None => seen'[q] = ItemAt(Place(ns)) /\ ~Expired(ItemAt(Place(ns)))
    BY <1>8 DEF Get, TypeOK
  <2>4. Place(ns) \in DOMAIN items /\ item = items[Place(ns)] /\ ~ExpiredAt(item, now)
    BY <2>2, <2>3 DEF ItemAt, Expired
  <2> QED  BY <2>1, <2>4 DEF Read
<1>9. ASSUME NEW prefix \in SearchPrefixes, Search(q, prefix)
      PROVE  Read(q, item) /\ promised' = promised
  <2>1. seen'[q] = None /\ found[q] = {} /\ judged'[q] = now /\ promised' = promised
    BY <1>9 DEF Search, Starts, ghost, TypeOK, CallsInv, CallOK
  <2>2. item \in found'[q]  BY <2>1 DEF Served
  <2>3. \A i \in found'[q] : \E p \in Live : i = items[p]
    BY <1>9, <2>1 DEF Search, TypeOK
  <2> QED  BY <2>1, <2>2, <2>3 DEF Read, Live, Expired
<1>10. ASSUME Refresh(q)  PROVE Before(q, item)
  BY <1>1, <1>10 DEF Refresh, PutItem
<1>11. ASSUME NEW p \in todo[q], Scan(q, p)
       PROVE  Before(q, item) \/ (Read(q, item) /\ promised' = promised)
  <2>1. UNCHANGED <<ask, seen, judged, promised>>  BY <1>11 DEF Scan, ghost
  <2>2. CASE item \in Served(q)  BY <2>1, <2>2 DEF Before
  <2>3. CASE item \notin Served(q)
    <3>1. ask[q] \in SearchAsks /\ item \in found'[q] /\ item \notin found[q]
      BY <2>1, <2>3 DEF Served
    <3>2. ask[q].op = "search"  BY <3>1 DEF SearchAsks
    <3>3. item = ItemAt(p) /\ ItemAt(p) # None /\ ~ExpiredAt(ItemAt(p), judged[q])
      <4> DEFINE stale == ItemAt(p) # None /\ ExpiredAt(ItemAt(p), judged[q])
      <4>1. CASE ItemAt(p) = None \/ stale
        <5>1. found'[q] = found[q] \union {}  BY <1>11, <3>2, <4>1 DEF Scan, TypeOK
        <5> QED  BY <3>1, <5>1
      <4>2. CASE ~(ItemAt(p) = None \/ stale)
        <5>1. found'[q] = found[q] \union {ItemAt(p)}  BY <1>11, <3>2, <4>2 DEF Scan, TypeOK
        <5> QED  BY <3>1, <4>2, <5>1
      <4> QED  BY <4>1, <4>2
    <3>4. p \in DOMAIN items /\ item = items[p]  BY <3>3 DEF ItemAt
    <3> QED  BY <2>1, <3>3, <3>4 DEF Read
  <2> QED  BY <2>2, <2>3
<1>12. ASSUME StepOf(q)  PROVE Before(q, item) \/ (Read(q, item) /\ promised' = promised)
  <2>1. ASSUME \/ Upload(q) \/ AnswerLost(q) \/ Reread(q) \/ ScanEnds(q) \/ Fails(q)
               \/ DeleteExpired(q)
        PROVE  Before(q, item)
    BY <1>3, <2>1 DEF Upload, AnswerLost, Uploaded, Reread, ScanEnds, Fails, DeleteExpired
  <2> QED  BY <1>5, <1>6, <1>7, <1>8, <1>9, <1>10, <1>11, <1>12, <2>1 DEF StepOf
<1>13. CASE UNCHANGED vars  BY <1>3, <1>13 DEF vars
<1>14. CASE Tick  BY <1>3, <1>14 DEF Tick
<1>15. ASSUME NEW p \in sweeping, Sweep(p) PROVE Before(q, item)  BY <1>3, <1>15 DEF Sweep
<1> QED  BY <1>2, <1>12, <1>13, <1>14, <1>15, NextStepOf

-----------------------------------------------------------------------------
(***************************************************************************)
(* The invariant.                                                          *)
(***************************************************************************)
LEMMA UnstoredStep ==
  ASSUME TypeOK, CallsInv, UnstoredInv, [Next]_vars
  PROVE  UnstoredInv'
<1> SUFFICES ASSUME NEW q \in Requests, Unstored(q)'
             PROVE  /\ \A p \in DOMAIN items' : items'[p].val # q
                    /\ \A r \in Requests : \A item \in Served(r)' : item.val # q
  BY DEF UnstoredInv
<1>1. Unstored(q)  BY UnstoredKept
<1>2. /\ \A p \in DOMAIN items : items[p].val # q
      /\ \A r \in Requests : \A item \in Served(r) : item.val # q
  BY <1>1 DEF UnstoredInv
<1>3. ASSUME NEW p \in DOMAIN items' PROVE items'[p].val # q
  <2>1. Kept(p) => items'[p].val # q  BY <1>2 DEF Kept
  <2>2. CASE Shrinks  BY <1>3, <2>1, <2>2 DEF Shrinks
  <2>3. ASSUME NEW val \in Requests, NEW due \in Nat \union {Never}, WritesVal(val, due), ~Kept(p)
        PROVE  items'[p].val # q
    <3>1. items'[p].val = val /\ (Unstored(val) => ~Unstored(val)')
      BY <1>3, <2>3 DEF WritesVal
    <3>2. val # q  BY <1>1, <3>1
    <3> QED  BY <3>1, <3>2
  <2> QED  BY <2>1, <2>2, <2>3, EffectStep
<1>4. ASSUME NEW r \in Requests, NEW item \in Served(r)' PROVE item.val # q
  <2>1. item \in Served(r) \/ \E p \in DOMAIN items : item = items[p]
    BY ServedFrom DEF Before, Read
  <2> QED  BY <1>2, <2>1
<1> QED  BY <1>3, <1>4

(* Where a step leaves the promise of a value that is stored or served.    *)
LEMMA PromiseStep ==
  ASSUME TypeOK, CallsInv, UnstoredInv, [Next]_vars,
         NEW item \in Items,
         \/ \E p \in DOMAIN items : item = items[p]
         \/ \E q \in Requests : item \in Served(q)
  PROVE  promised'[item.val] \in {promised[item.val], Never}
<1>1. item.val \in Requests /\ ~Unstored(item.val)  BY DEF Items, UnstoredInv
<1>2. CASE Shrinks  BY <1>2 DEF Shrinks
<1>3. ASSUME NEW val \in Requests, NEW due \in Nat \union {Never}, WritesVal(val, due)
      PROVE  promised'[item.val] \in {promised[item.val], Never}
  <2>1. val # item.val \/ due = Never  BY <1>1, <1>3 DEF WritesVal
  <2>2. promised' = [promised EXCEPT ![val] = due] /\ DOMAIN promised = Requests
    BY <1>3 DEF WritesVal, TypeOK
  <2> QED  BY <1>1, <2>1, <2>2
<1> QED  BY <1>2, <1>3, EffectStep

LEMMA ProviderKept ==
  ASSUME TypeOK, [Next]_vars
  PROVE  provider' = provider /\ clients' = clients /\ KeepsTtl' = KeepsTtl
<1>1. CASE UNCHANGED vars  BY <1>1 DEF vars, fixed, KeepsTtl
<1>2. CASE Next
  <2>1. UNCHANGED fixed
    BY <1>2 DEF Next, Put, PutItem, Get, Delete, Search, List, Upload, Uploaded, AnswerLost, Reread,
                Refresh, DeleteExpired, Scan, ScanEnds, Sweep, Fails, Tick
  <2> QED  BY <2>1 DEF fixed, KeepsTtl
<1> QED  BY <1>1, <1>2

LEMMA SweepStep == TypeOK /\ CallsInv /\ SweepInv /\ [Next]_vars => SweepInv'
<1> SUFFICES ASSUME TypeOK, CallsInv, SweepInv, [Next]_vars PROVE SweepInv'  OBVIOUS
<1>1. ASSUME NEW q \in Requests, NEW p \in todo[q], Scan(q, p)  PROVE provider = "azure"
  BY <1>1 DEF Scan, CallsInv, CallOK
<1>2. CASE UNCHANGED vars  BY <1>2, ProviderKept DEF vars, SweepInv
<1>3. ASSUME Next, ~(\E q \in Requests : \E p \in todo[q] : Scan(q, p))
      PROVE  sweeping' \subseteq sweeping
  BY <1>3 DEF Next, Put, PutItem, Get, Delete, Search, List, Upload, Uploaded, AnswerLost, Reread,
              Refresh, DeleteExpired, ScanEnds, Sweep, Fails, Tick
<1> QED  BY <1>1, <1>2, <1>3, ProviderKept DEF SweepInv

LEMMA HonestStep ==
  ASSUME TypeOK, CallsInv, UnstoredInv, HonestInv, [Next]_vars
  PROVE  HonestInv'
<1>k. KeepsTtl' = KeepsTtl  BY ProviderKept
<1> SUFFICES ASSUME NEW p \in DOMAIN items'
             PROVE  IF KeepsTtl THEN Honest(items[p])' ELSE items'[p].expires = Never
  BY <1>k DEF HonestInv
<1>1. ASSUME Kept(p) PROVE IF KeepsTtl THEN Honest(items[p])' ELSE items'[p].expires = Never
  <2>1. items'[p] = items[p] /\ p \in DOMAIN items /\ items[p] \in Items  BY <1>1 DEF Kept, TypeOK
  <2>2. promised'[items[p].val] \in {promised[items[p].val], Never}  BY <2>1, PromiseStep
  <2> QED  BY <2>1, <2>2 DEF HonestInv, Honest
<1>2. ASSUME NEW val \in Requests, NEW due \in Nat \union {Never}, WritesVal(val, due), ~Kept(p)
      PROVE  IF KeepsTtl THEN Honest(items[p])' ELSE items'[p].expires = Never
  <2>1. items'[p].val = val /\ items'[p].expires = Expiry(due) /\ promised'[val] = due
    BY <1>2 DEF WritesVal, TypeOK
  <2>2. Expiry(due) = IF KeepsTtl THEN due ELSE Never
    BY DEF Expiry, KeepsTtl, Sql, Providers, TypeOK
  <2>3. due # Never => due \in Nat /\ due <= due  OBVIOUS
  <2> QED  BY <2>1, <2>2, <2>3 DEF Honest
<1> QED  BY <1>1, <1>2, EffectStep DEF Shrinks

LEMMA TimelyStep ==
  ASSUME TypeOK, CallsInv, UnstoredInv, HonestInv, TimelyInv, [Next]_vars
  PROVE  TimelyInv'
<1>t. TypeOK' /\ CallsInv'  BY TypeStep, CallsStep
<1> SUFFICES ASSUME KeepsTtl, NEW q \in Requests, NEW item \in Served(q)'
             PROVE  promised'[item.val] = Never \/ judged'[q] <= promised'[item.val]
  BY ProviderKept DEF TimelyInv
<1>1. CASE Before(q, item)
  <2>1. item \in Served(q) /\ item \in Items /\ judged'[q] = judged[q]
    BY <1>1 DEF Before, CallsInv, CallOK
  <2>2. promised'[item.val] \in {promised[item.val], Never}  BY <2>1, PromiseStep
  <2>3. promised[item.val] = Never \/ judged[q] <= promised[item.val]  BY <2>1 DEF TimelyInv
  <2> QED  BY <2>1, <2>2, <2>3
<1>2. CASE Read(q, item) /\ promised' = promised
  <2>1. PICK p \in DOMAIN items : item = items[p] /\ ~ExpiredAt(item, judged'[q])
    BY <1>2 DEF Read
  <2>2. Honest(item) /\ item.expires \in Nat \union {Never}
    BY <2>1 DEF HonestInv, Items, TypeOK
  <2>3. judged'[q] \in Nat  BY <1>t DEF TypeOK
  <2>4. item.expires # Never => judged'[q] <= item.expires  BY <2>1, <2>2, <2>3 DEF ExpiredAt
  <2>5. CASE promised[item.val] # Never
    <3>1. item.expires \in Nat /\ promised[item.val] \in Nat /\ item.expires <= promised[item.val]
      BY <2>2, <2>5 DEF Honest
    <3> QED  BY <1>2, <2>2, <2>3, <2>4, <3>1, <2>5 DEF Honest
  <2> QED  BY <1>2, <2>5
<1> QED  BY <1>1, <1>2, ServedFrom

(* One request at a time.                                                  *)
Alone(q) == \A r \in Requests : pc[r] \in Calls => r = q

LEMMA AloneStep ==
  ASSUME SerialInv, Serial, NEW q \in Requests, StepOf(q)
  PROVE  Alone(q)
<1>d. Calls = {"upload", "reread", "refresh", "deleteExpired", "scan"}  BY DEF Calls
<1>1. ASSUME pc[q] = "new", Idle PROVE Alone(q)  BY <1>1 DEF Idle, Alone
<1>2. ASSUME pc[q] \in Calls PROVE Alone(q)  BY <1>2 DEF SerialInv, Alone
<1>3. CASE \E ns \in Namespaces : \/ \E ttl \in Ttls \union {Never} : Put(q, ns, ttl)
                                  \/ \E refresh \in BOOLEAN : Get(q, ns, refresh)
                                  \/ Delete(q, ns)
  BY <1>1, <1>3 DEF Put, Get, Delete, Starts
<1>4. CASE \E prefix \in SearchPrefixes :
              Search(q, prefix) \/ \E depth \in Depths : List(q, prefix, depth)
  BY <1>1, <1>4 DEF Search, List, Starts
<1>5. CASE \/ Upload(q) \/ AnswerLost(q) \/ Reread(q) \/ ScanEnds(q) \/ Fails(q)
           \/ Refresh(q) \/ DeleteExpired(q) \/ \E p \in todo[q] : Scan(q, p)
  BY <1>2, <1>5, <1>d DEF Upload, AnswerLost, Uploaded, Reread, ScanEnds, Fails, Refresh,
                          DeleteExpired, Scan
<1> QED  BY <1>3, <1>4, <1>5 DEF StepOf

LEMMA SerialStep ==
  ASSUME TypeOK, CallsInv, SerialInv, [Next]_vars
  PROVE  SerialInv'
<1>d. Calls = {"upload", "reread", "refresh", "deleteExpired", "scan"}  BY DEF Calls
<1> SUFFICES ASSUME Serial PROVE SerialInv'  BY ProviderKept DEF SerialInv, Serial
<1>p. \A ns : Place(ns)' = Place(ns)  BY ProviderKept DEF Place
<1>1. ASSUME NEW r \in Requests, pc'[r] = pc[r], ask'[r] = ask[r], created'[r] = created[r],
             \A p \in DOMAIN items' : Kept(p), pc[r] = "upload", Place(ask[r].ns) \in DOMAIN items'
      PROVE  items'[Place(ask[r].ns)].created = created'[r]
  BY <1>1 DEF SerialInv, Kept
<1>2. ASSUME NEW q \in Requests, StepOf(q)  PROVE SerialInv'
  <2>1. Alone(q)  BY <1>2, AloneStep
  <2>2. \A r \in Requests \ {q} : pc'[r] = pc[r] /\ pc[r] \notin Calls
    BY <1>2, <2>1, StepsSteady DEF Steady, Alone
  <2>3. ASSUME pc'[q] = "upload", Place(ask'[q].ns) \in DOMAIN items'
        PROVE  items'[Place(ask'[q].ns)].created = created'[q]
    <3>1. CASE \E ns \in Namespaces : \E ttl \in Ttls \union {Never} : Put(q, ns, ttl)
      BY <2>3, <3>1 DEF Put, PutItem, Starts, Goto, CreatedAt, TypeOK
    <3>2. CASE Refresh(q)
      BY <2>3, <3>2 DEF Refresh, PutItem, Goto, CreatedAt, TypeOK
    <3>3. CASE \E p \in todo[q] : Scan(q, p)
      BY <2>3, <3>3 DEF Scan, TypeOK
    <3>4. ASSUME ~(\E ns \in Namespaces : \E ttl \in Ttls \union {Never} : Put(q, ns, ttl)),
                 ~Refresh(q), ~(\E p \in todo[q] : Scan(q, p))
          PROVE  pc'[q] # "upload"
      <4>1. CASE \E ns \in Namespaces : \/ \E refresh \in BOOLEAN : Get(q, ns, refresh)
                                        \/ Delete(q, ns)
        BY <4>1 DEF Get, Delete, Goto, TypeOK
      <4>2. CASE \E prefix \in SearchPrefixes :
                    Search(q, prefix) \/ \E depth \in Depths : List(q, prefix, depth)
        BY <4>2 DEF Search, List, Goto, TypeOK
      <4>3. CASE Upload(q) \/ AnswerLost(q) \/ Reread(q) \/ ScanEnds(q) \/ Fails(q) \/ DeleteExpired(q)
        BY <4>3 DEF Upload, AnswerLost, Uploaded, Reread, ScanEnds, Fails, DeleteExpired, Ends,
                    Goto, TypeOK
      <4> QED  BY <1>2, <3>4, <4>1, <4>2, <4>3 DEF StepOf
    <3> QED  BY <2>3, <3>1, <3>2, <3>3, <3>4
  <2> QED  BY <1>d, <1>p, <2>2, <2>3 DEF SerialInv
<1>3. ASSUME UNCHANGED <<ask, pc, created>>, \A p \in DOMAIN items' : Kept(p)  PROVE SerialInv'
  BY <1>p, <1>1, <1>3 DEF SerialInv, Serial
<1>4. CASE UNCHANGED vars  BY <1>3, <1>4 DEF vars, local, Kept
<1>5. CASE Tick  BY <1>3, <1>5 DEF Tick, local, Kept
<1>6. ASSUME NEW p \in sweeping, Sweep(p) PROVE SerialInv'
  <2>1. Shrinks  BY <1>6, ShrinksStep DEF Sweep
  <2> QED  BY <1>3, <1>6, <2>1 DEF Sweep, local, Shrinks
<1> QED  BY <1>2, <1>4, <1>5, <1>6, NextStepOf

LEMMA ItemsInit == Init => ItemsInv
<1> SUFFICES ASSUME Init PROVE ItemsInv  OBVIOUS
<1>1. TypeOK  BY TypeInit
<1>2. DOMAIN items = {}  BY DEF Init
<1>3. \A q \in Requests : pc[q] = "new" /\ Served(q) = {} /\ found[q] = {} /\ seen[q] = None
  BY DEF Init, Served
<1>4. CallsInv  BY <1>3 DEF CallsInv, CallOK
<1>5. UnstoredInv /\ HonestInv /\ TimelyInv  BY <1>2, <1>3 DEF UnstoredInv, HonestInv, TimelyInv
<1>6. SerialInv  BY <1>3 DEF SerialInv, Calls
<1>7. SweepInv  BY DEF Init, SweepInv
<1> QED  BY <1>1, <1>4, <1>5, <1>6, <1>7 DEF ItemsInv

(* ItemsInv holds in every reachable state.                                *)
THEOREM ItemsInvariant == Spec => []ItemsInv
<1>1. Init => ItemsInv  BY ItemsInit
<1>2. ItemsInv /\ [Next]_vars => ItemsInv'
  BY TypeStep, CallsStep, SweepStep, UnstoredStep, HonestStep, TimelyStep, SerialStep DEF ItemsInv
<1> QED  BY <1>1, <1>2, PTL DEF Spec

-----------------------------------------------------------------------------
(***************************************************************************)
(* The properties.                                                         *)
(***************************************************************************)

(* The state has its type in every reachable state.                        *)
THEOREM TypeCorrect == Spec => []TypeOK
<1>1. ItemsInv => TypeOK  BY DEF ItemsInv
<1> QED  BY <1>1, ItemsInvariant, PTL

(* Where the provider keeps the time to live, no get and no search answers *)
(* an item past the expiry that its last writer asked for, whatever puts,  *)
(* refreshes, deletes and late collections ran meanwhile.                  *)
THEOREM ServedInTimeCorrect == Spec => []ServedInTime
<1>1. ASSUME ItemsInv PROVE ServedInTime
  <2> SUFFICES ASSUME KeepsTtl, NEW q \in Requests, pc[q] = "ok", ask[q].op \in {"get", "search"},
                      NEW item \in found[q] \union ({seen[q]} \ {None})
               PROVE  promised[item.val] = Never \/ judged[q] <= promised[item.val]
    BY DEF ServedInTime
  <2>1. ask[q] \in GetAsks \union SearchAsks
    <3>1. ask[q] \in Asks  BY <1>1 DEF ItemsInv, CallsInv, CallOK
    <3> QED  BY <3>1, AskKinds
  <2>2. ask[q] \in GetAsks => found[q] = {}  BY <1>1 DEF ItemsInv, CallsInv, CallOK
  <2>3. item \in Served(q)  BY <2>1, <2>2 DEF Served
  <2> QED  BY <1>1, <2>3 DEF ItemsInv, TimelyInv
<1> QED  BY <1>1, ItemsInvariant, PTL

(* How an item leaves the store, step by step.                             *)
LEMMA KeptStep ==
  ASSUME TypeOK, CallsInv, SweepInv, HonestInv, Next, NEW p \in DOMAIN items \ DOMAIN items'
  PROVE  DeletedNow(p) \/ CollectedLate(p) \/ (KeepsTtl /\ Expired(items[p]))
<1>s. ASSUME NEW ns, NEW val, NEW since, NEW due, items' = Stored(ns, val, since, due) PROVE FALSE
  BY <1>s DEF Stored
<1>e. Expired(items[p]) => KeepsTtl  BY DEF Expired, ExpiredAt, HonestInv
<1>w. ASSUME NEW places, items' = Without(places) PROVE p \in places
  BY <1>w, RemovedItems
<1>1. ASSUME NEW q \in Requests, NEW ns \in Namespaces, NEW ttl \in Ttls \union {Never}, Put(q, ns, ttl)
      PROVE  FALSE
  BY <1>s, <1>1 DEF Put, PutItem
<1>2. ASSUME NEW q \in Requests, NEW ns \in Namespaces, NEW refresh \in BOOLEAN, Get(q, ns, refresh)
      PROVE  Expired(items[p])
  <2>1. p = Place(ns) /\ ItemAt(p) # None /\ Expired(ItemAt(p))
    BY <1>2, <1>w DEF Get
  <2> QED  BY <2>1 DEF ItemAt
<1>3. ASSUME NEW q \in Requests, NEW ns \in Namespaces, Delete(q, ns)  PROVE DeletedNow(p)
  <2>1. p = Place(ns)  BY <1>3, <1>w DEF Delete
  <2>2. pc[q] = "new" /\ pc'[q] = "ok" /\ ask'[q].op = "delete" /\ ask'[q].ns = ns
    BY <1>3 DEF Delete, Starts, Goto, TypeOK
  <2>3. Place(ask'[q].ns) = p  BY <2>1, <2>2
  <2> QED  BY <2>2, <2>3 DEF DeletedNow
<1>4. ASSUME NEW q \in Requests, NEW prefix \in SearchPrefixes, Search(q, prefix)
      PROVE  Expired(items[p])
  <2>1. items' = items \/ items' = Without(DOMAIN items \ Live)
    <3>1. Live = DOMAIN items \ (DOMAIN items \ Live)  BY DEF Live
    <3> QED  BY <1>4, <3>1 DEF Search, Without
  <2>2. p \notin Live  BY <1>w, <2>1
  <2> QED  BY <2>2 DEF Live
<1>5. ASSUME NEW q \in Requests, Upload(q) \/ AnswerLost(q)  PROVE FALSE
  BY <1>s, <1>5 DEF Upload, AnswerLost, Uploaded
<1>6. ASSUME NEW q \in Requests, Refresh(q)  PROVE FALSE
  BY <1>s, <1>6 DEF Refresh, PutItem
<1>7. ASSUME NEW q \in Requests, DeleteExpired(q)  PROVE CollectedLate(p)
  <2>1. Place(ask[q].ns) = p  BY <1>7, <1>w DEF DeleteExpired
  <2>2. pc[q] = "deleteExpired" /\ provider = "azure"  BY <1>7 DEF DeleteExpired, CallsInv, CallOK
  <2> QED  BY <2>1, <2>2 DEF CollectedLate
<1>8. ASSUME NEW r \in sweeping, Sweep(r)  PROVE DeletedNow(p) \/ CollectedLate(p)
  <2>1. p \in sweeping  BY <1>8, <1>w DEF Sweep
  <2> QED  BY <2>1 DEF SweepInv, CollectedLate
<1>9. ASSUME items' = items PROVE FALSE  BY <1>9
<1>10. ASSUME NEW q \in Requests, Reread(q) \/ ScanEnds(q) \/ Fails(q)  PROVE FALSE
  BY <1>9, <1>10 DEF Reread, ScanEnds, Fails
<1>11. ASSUME NEW q \in Requests, NEW r \in todo[q], Scan(q, r)  PROVE FALSE
  BY <1>9, <1>11 DEF Scan
<1>12. ASSUME NEW q \in Requests, NEW prefix \in SearchPrefixes, NEW depth \in Depths, List(q, prefix, depth)
       PROVE  FALSE
  BY <1>9, <1>12 DEF List
<1>13. ASSUME Tick PROVE FALSE  BY <1>9, <1>13 DEF Tick
<1> QED
  BY <1>e, <1>1, <1>2, <1>3, <1>4, <1>5, <1>6, <1>7, <1>8, <1>10, <1>11, <1>12, <1>13, NextSteps

(* An item that leaves the store was deleted on request, had expired, or   *)
(* was a blob that somebody had read expired in the same place.            *)
THEOREM KeptUntilDueCorrect == Spec => KeptUntilDue
<1>1. ASSUME ItemsInv, Next
      PROVE  \A p \in DOMAIN items \ DOMAIN items' :
                DeletedNow(p) \/ CollectedLate(p) \/ (KeepsTtl /\ Expired(items[p]))
  BY <1>1, KeptStep DEF ItemsInv
<1>2. ItemsInv /\ [Next]_vars =>
        [\A p \in DOMAIN items \ DOMAIN items' :
            DeletedNow(p) \/ CollectedLate(p) \/ (KeepsTtl /\ Expired(items[p]))]_vars
  BY <1>1
<1> QED  BY <1>2, ItemsInvariant, PTL DEF Spec, KeptUntilDue

(* Writing over an item keeps its creation time.                           *)
LEMMA CreatedStep ==
  ASSUME TypeOK, CallsInv, UnstoredInv, SerialInv, Next, provider # "azure" \/ Serial,
         NEW p \in DOMAIN items \intersect DOMAIN items'
  PROVE  items'[p].created = items[p].created
<1>k. ASSUME Kept(p) PROVE items'[p].created = items[p].created  BY <1>k DEF Kept
<1>1. ASSUME NEW ns, NEW val, NEW due, items' = Stored(ns, val, CreatedAt(Place(ns)), due)
      PROVE  items'[p].created = items[p].created
  <2>1. Kept(p) \/ (items'[p].created = CreatedAt(Place(ns)) /\ p = Place(ns))
    BY <1>1, StoredItems
  <2> QED  BY <1>k, <2>1 DEF CreatedAt
<1>s. ASSUME items' = items PROVE Kept(p)  BY <1>s DEF Kept
<1>2. ASSUME NEW q \in Requests, NEW ns \in Namespaces, NEW ttl \in Ttls \union {Never}, Put(q, ns, ttl)
      PROVE  items'[p].created = items[p].created
  BY <1>k, <1>s, <1>1, <1>2 DEF Put, PutItem
<1>3. ASSUME NEW q \in Requests, Refresh(q)
      PROVE  items'[p].created = items[p].created
  BY <1>k, <1>s, <1>1, <1>3 DEF Refresh, PutItem
<1>4. ASSUME NEW q \in Requests, Upload(q) \/ AnswerLost(q)
      PROVE  items'[p].created = items[p].created
  <2>1. pc[q] = "upload" /\ \E val : items' = Stored(ask[q].ns, val, created[q], expires[q])
    BY <1>4 DEF Upload, AnswerLost, Uploaded
  <2>2. Serial  BY <2>1 DEF CallsInv, CallOK
  <2>3. Kept(p) \/ (items'[p].created = created[q] /\ p = Place(ask[q].ns))
    BY <2>1, StoredItems
  <2> QED  BY <1>k, <2>1, <2>2, <2>3 DEF SerialInv
<1>5. ASSUME ~(\E q \in Requests : Upload(q) \/ AnswerLost(q) \/ Refresh(q)),
             ~(\E q \in Requests, ns \in Namespaces : \E ttl \in Ttls \union {Never} : Put(q, ns, ttl))
      PROVE  items' = items \/ \E places : items' = Without(places)
  <2>1. Live = DOMAIN items \ (DOMAIN items \ Live)  BY DEF Live
  <2>2. ASSUME NEW q \in Requests, NEW prefix \in SearchPrefixes, Search(q, prefix)
        PROVE  items' = items \/ items' = Without(DOMAIN items \ Live)
    BY <2>1, <2>2 DEF Search, Without
  <2>3. ASSUME NEW q \in Requests, NEW ns \in Namespaces, NEW refresh \in BOOLEAN,
               Get(q, ns, refresh) \/ Delete(q, ns)
        PROVE  items' = items \/ items' = Without({Place(ns)})
    BY <2>3 DEF Get, Delete
  <2>4. ASSUME NEW q \in Requests, NEW prefix \in SearchPrefixes, NEW depth \in Depths,
               List(q, prefix, depth)
        PROVE  items' = items
    BY <2>4 DEF List
  <2>5. ASSUME NEW q \in Requests,
               Reread(q) \/ ScanEnds(q) \/ Fails(q) \/ \E r \in todo[q] : Scan(q, r)
        PROVE  items' = items
    BY <2>5 DEF Reread, ScanEnds, Fails, Scan
  <2>6. ASSUME NEW q \in Requests, DeleteExpired(q) PROVE items' = Without({Place(ask[q].ns)})
    BY <2>6 DEF DeleteExpired
  <2>7. ASSUME NEW r \in sweeping, Sweep(r) PROVE items' = items \/ items' = Without({r})
    BY <2>7 DEF Sweep
  <2>8. ASSUME Tick PROVE items' = items  BY <2>8 DEF Tick
  <2> QED  BY <1>5, <2>2, <2>3, <2>4, <2>5, <2>6, <2>7, <2>8, NextSteps
<1>6. ASSUME items' = items \/ \E places : items' = Without(places) PROVE Kept(p)
  BY <1>s, <1>6, RemovedItems DEF Kept
<1> QED  BY <1>k, <1>2, <1>3, <1>4, <1>5, <1>6

(* With any interleaving in memory and SQL, and in blobs for clients that  *)
(* wait for each other, an item that is there before and after a step has  *)
(* the same creation time.                                                 *)
THEOREM CreatedKeptCorrect == Spec => CreatedKept
<1>1. ASSUME ItemsInv, Next, provider # "azure" \/ Serial
      PROVE  \A p \in DOMAIN items \intersect DOMAIN items' : items'[p].created = items[p].created
  BY <1>1, CreatedStep DEF ItemsInv
<1>2. ItemsInv /\ [Next]_vars =>
        [provider # "azure" \/ Serial =>
            \A p \in DOMAIN items \intersect DOMAIN items' :
                items'[p].created = items[p].created]_vars
  BY <1>1
<1> QED  BY <1>2, ItemsInvariant, PTL DEF Spec, CreatedKept

(* Both: neither an item nor its creation time is lost before it is due.   *)
THEOREM ItemsKeptCorrect == Spec => ItemsKept
BY KeptUntilDueCorrect, CreatedKeptCorrect, PTL DEF ItemsKept
-----------------------------------------------------------------------------
(***************************************************************************)
(* The text of a namespace.  FoldLeft is defined by a recursive function,  *)
(* whose existence and values are shown here for Closed; where an          *)
(* induction would go on, the least place where the claim fails is taken   *)
(* to a contradiction.                                                     *)
(***************************************************************************)
Names == Seq(Seq(Letters))

(* A nonempty set of naturals has a least element.                         *)
LEMMA LeastElement ==
  ASSUME NEW S \in SUBSET Nat, S # {}
  PROVE  \E m \in S : \A n \in S : m <= n
<1>1. PICK m \in S : \A n \in S : <<n, m>> \notin OpToRel(<, Nat)
  BY NatLessThanWellFounded, WFMin
<1>2. ASSUME NEW n \in S PROVE m <= n
  <2>1. ~(n < m)  BY <1>1 DEF OpToRel
  <2> QED  BY <2>1
<1> QED  BY <1>2

(* f closes the segments at each set of positions in D.                    *)
Closes(f, ns, D) ==
    f = [s \in D |-> IF s = {} THEN <<>> ELSE f[s \ {Max(s)}] \o ns[Max(s)] \o <<Separator>>]

LEMMA MaxIsLast ==
  ASSUME NEW k \in Nat, NEW s \in SUBSET (1 .. k), k \in s
  PROVE  Max(s) = k
<1>1. \A y \in s : k >= y  OBVIOUS
<1>2. Max(s) \in s /\ \A y \in s : Max(s) >= y
  <2>1. \E x \in s : \A y \in s : x >= y  BY <1>1
  <2> QED  BY <2>1 DEF Max
<1>3. Max(s) \in 1 .. k  BY <1>2
<1> QED  BY <1>2, <1>3

LEMMA ClosesMore ==
  ASSUME NEW ns, NEW k \in Nat, NEW f, Closes(f, ns, SUBSET (1 .. k))
  PROVE  \E g : Closes(g, ns, SUBSET (1 .. k + 1))
<1> DEFINE D == SUBSET (1 .. k)
           E == SUBSET (1 .. k + 1)
           g == [s \in E |-> IF k + 1 \in s THEN f[s \ {k + 1}] \o ns[k + 1] \o <<Separator>> ELSE f[s]]
<1>1. ASSUME NEW s \in E, k + 1 \notin s PROVE s \in D /\ g[s] = f[s]
  <2>1. s \in D
    <3>1. ASSUME NEW x \in s PROVE x \in 1 .. k
      <4>1. x \in 1 .. k + 1 /\ x # k + 1  BY <1>1
      <4> QED  BY <4>1
    <3> QED  BY <3>1
  <2> QED  BY <1>1, <2>1
<1>f. \A s \in D : f[s] = IF s = {} THEN <<>> ELSE f[s \ {Max(s)}] \o ns[Max(s)] \o <<Separator>>
  BY DEF Closes
<1>2. ASSUME NEW s \in E
      PROVE  g[s] = IF s = {} THEN <<>> ELSE g[s \ {Max(s)}] \o ns[Max(s)] \o <<Separator>>
  <2>1. CASE k + 1 \in s
    <3>1. Max(s) = k + 1  BY <2>1, MaxIsLast, k + 1 \in Nat
    <3>2. s \ {k + 1} \in E /\ k + 1 \notin s \ {k + 1}  OBVIOUS
    <3>3. g[s \ {k + 1}] = f[s \ {k + 1}]  BY <1>1, <3>2
    <3>4. g[s] = f[s \ {k + 1}] \o ns[k + 1] \o <<Separator>>  BY <2>1
    <3> QED  BY <2>1, <3>1, <3>3, <3>4
  <2>2. CASE k + 1 \notin s
    <3>1. s \in D /\ g[s] = f[s]  BY <1>1, <2>2
    <3>2. s \ {Max(s)} \in E /\ k + 1 \notin s \ {Max(s)}  BY <2>2
    <3>3. g[s \ {Max(s)}] = f[s \ {Max(s)}]  BY <1>1, <3>2
    <3>4. f[s] = IF s = {} THEN <<>> ELSE f[s \ {Max(s)}] \o ns[Max(s)] \o <<Separator>>
      BY <1>f, <3>1
    <3> QED  BY <3>1, <3>3, <3>4
  <2> QED  BY <2>1, <2>2
<1>3. Closes(g, ns, E)
  <2> DEFINE h == [s \in E |-> IF s = {} THEN <<>> ELSE g[s \ {Max(s)}] \o ns[Max(s)] \o <<Separator>>]
  <2>1. \A s \in E : g[s] = h[s]  BY <1>2
  <2>2. g = [s \in E |-> g[s]] /\ h = [s \in E |-> h[s]]  OBVIOUS
  <2> HIDE DEF g, h
  <2>3. g = h  BY <2>1, <2>2
  <2> QED  BY <2>3 DEF Closes, h
<1> QED  BY <1>3

LEMMA ClosesExists ==
  ASSUME NEW ns, NEW n \in Nat
  PROVE  \E f : Closes(f, ns, SUBSET (1 .. n))
<1> DEFINE Missing == {k \in Nat : ~\E f : Closes(f, ns, SUBSET (1 .. k))}
<1> SUFFICES ASSUME Missing # {} PROVE FALSE  OBVIOUS
<1>1. PICK k \in Missing : \A j \in Missing : k <= j  BY LeastElement
<1>2. \E f : Closes(f, ns, SUBSET (1 .. 0))
  <2> DEFINE f == [s \in SUBSET (1 .. 0) |-> <<>>]
  <2>1. \A s \in SUBSET (1 .. 0) : s = {}  OBVIOUS
  <2>2. f = [s \in SUBSET (1 .. 0) |->
                IF s = {} THEN <<>> ELSE f[s \ {Max(s)}] \o ns[Max(s)] \o <<Separator>>]
    BY <2>1
  <2> QED  BY <2>2 DEF Closes
<1>3. k # 0  BY <1>2
<1>4. k - 1 \in Nat /\ k - 1 \notin Missing
  <2>1. k \in Nat /\ k - 1 \in Nat /\ ~(k <= k - 1)  BY <1>1, <1>3
  <2> HIDE DEF Missing
  <2> QED  BY <1>1, <2>1
<1>5. PICK f : Closes(f, ns, SUBSET (1 .. k - 1))  BY <1>4
<1>6. \E g : Closes(g, ns, SUBSET (1 .. (k - 1) + 1))  BY <1>4, <1>5, ClosesMore
<1>7. (k - 1) + 1 = k  BY <1>1
<1> QED  BY <1>6, <1>7

(* The text grows by one closed segment after the other.                   *)
Grows(text, ns) ==
    /\ text \in [0 .. Len(ns) -> Seq(Letters)]
    /\ text[0] = <<>>
    /\ \A k \in 1 .. Len(ns) : text[k] = text[k - 1] \o ns[k] \o <<Separator>>

LEMMA ClosedGrows ==
  ASSUME NEW ns \in Names
  PROVE  \E text : Grows(text, ns) /\ text[Len(ns)] = Closed(ns)
<1>1. Len(ns) \in Nat /\ DOMAIN ns = 1 .. Len(ns) /\ \A k \in 1 .. Len(ns) : ns[k] \in Seq(Letters)
  BY DEF Names
<1> DEFINE n == Len(ns)
           F == CHOOSE f : Closes(f, ns, SUBSET (1 .. n))
           text == [k \in 0 .. n |-> F[1 .. k]]
<1>2. Closes(F, ns, SUBSET (1 .. n))
  <2>1. \E f : Closes(f, ns, SUBSET (1 .. n))  BY <1>1, ClosesExists
  <2> QED  BY <2>1
<1>3. Closed(ns) = F[1 .. n]
  BY <1>1, Zenon DEF Closed, FoldLeft, MapThenFoldSet, Closes
<1> HIDE DEF F
<1>4. \A s \in SUBSET (1 .. n) :
         F[s] = IF s = {} THEN <<>> ELSE F[s \ {Max(s)}] \o ns[Max(s)] \o <<Separator>>
  BY <1>2 DEF Closes
<1>5. text[0] = <<>>
  <2>1. 1 .. 0 = {}  OBVIOUS
  <2>2. F[{}] = <<>>  BY <1>4
  <2>3. text[0] = F[1 .. 0]  BY <1>1
  <2> QED  BY <2>1, <2>2, <2>3
<1>6. ASSUME NEW k \in 1 .. n PROVE text[k] = text[k - 1] \o ns[k] \o <<Separator>>
  <2>1. k \in Nat /\ k \in 1 .. k /\ 1 .. k \in SUBSET (1 .. n) /\ (1 .. k) \ {k} = 1 .. k - 1
    BY <1>1, <1>6
  <2>2. Max(1 .. k) = k  BY <2>1, MaxIsLast
  <2>3. F[1 .. k] = F[1 .. k - 1] \o ns[k] \o <<Separator>>  BY <1>4, <2>1, <2>2
  <2>4. k \in 0 .. n /\ k - 1 \in 0 .. n  BY <1>1, <1>6
  <2> QED  BY <2>3, <2>4
<1> HIDE DEF text
<1>7. ASSUME NEW k \in 0 .. n PROVE text[k] \in Seq(Letters)
  <2> DEFINE Bad == {j \in 0 .. n : text[j] \notin Seq(Letters)}
  <2> SUFFICES ASSUME Bad # {} PROVE FALSE  OBVIOUS
  <2>1. Bad \subseteq Nat  BY <1>1
  <2>2. PICK j \in Bad : \A i \in Bad : j <= i  BY <2>1, LeastElement
  <2>3. j # 0
    <3>1. text[0] \in Seq(Letters)  BY <1>5, EmptySeq
    <3> QED  BY <2>2, <3>1
  <2>4. j \in 1 .. n /\ j - 1 \in 0 .. n /\ j - 1 \notin Bad  BY <1>1, <2>2, <2>3
  <2>5. text[j - 1] \in Seq(Letters) /\ ns[j] \in Seq(Letters) /\ <<Separator>> \in Seq(Letters)
    BY <1>1, <2>4, NamesAssumption
  <2>6. text[j - 1] \o ns[j] \o <<Separator>> \in Seq(Letters)  BY <2>5, ConcatProperties
  <2> QED  BY <1>6, <2>2, <2>4, <2>6
<1>8. text \in [0 .. n -> Seq(Letters)]
  <2>1. text = [k \in 0 .. n |-> text[k]]  BY DEF text
  <2> QED  BY <1>7, <2>1
<1>9. text[n] = Closed(ns)  BY <1>1, <1>3 DEF text
<1> QED  BY <1>5, <1>6, <1>8, <1>9 DEF Grows

(* A prefix, position by position.                                         *)
Begins(s, t) == Len(s) <= Len(t) /\ \A i \in 1 .. Len(s) : s[i] = t[i]

LEMMA PrefixByPositions ==
  ASSUME NEW S, NEW s \in Seq(S), NEW t \in Seq(S)
  PROVE  IsPrefix(s, t) <=> Begins(s, t)
<1>1. Len(s) \in Nat /\ Len(t) \in Nat /\ \A i \in 1 .. Len(s) : s[i] \in S
  BY ElementOfSeq
<1>2. ASSUME Len(s) <= Len(t)
      PROVE  SubSeq(s, 1, Len(s)) = SubSeq(t, 1, Len(s)) <=> \A i \in 1 .. Len(s) : s[i] = t[i]
  <2> DEFINE n == Len(s)
             a == SubSeq(s, 1, n)
             b == SubSeq(t, 1, n)
  <2>1. \A i \in 1 .. n : s[i] \in S /\ t[i] \in S  BY <1>1, <1>2, ElementOfSeq
  <2>2. a \in Seq(S) /\ Len(a) = n /\ \A i \in 1 .. n : a[i] = s[i]
    BY <1>1, <2>1
  <2>3. b \in Seq(S) /\ Len(b) = n /\ \A i \in 1 .. n : b[i] = t[i]
    BY <1>1, <2>1
  <2> HIDE DEF a, b
  <2>4. a = b <=> \A i \in 1 .. n : a[i] = b[i]  BY <2>2, <2>3, SeqEqual
  <2> QED  BY <2>2, <2>3, <2>4 DEF a, b
<1> QED  BY <1>2 DEF IsPrefix, Begins

LEMMA SequenceLength == \A S : \A s \in Seq(S) : Len(s) \in Nat
OBVIOUS

LEMMA Appended ==
  ASSUME NEW t \in Seq(Letters)
  PROVE  /\ Append(t, Separator) \in Seq(Letters)
         /\ Len(t) \in Nat /\ Len(Append(t, Separator)) = Len(t) + 1
         /\ \A i \in 1 .. Len(t) : Append(t, Separator)[i] = t[i]
         /\ Append(t, Separator)[Len(t) + 1] = Separator
BY AppendProperties, NamesAssumption

LEMMA FrontOf ==
  ASSUME NEW c \in Seq(Letters), Len(c) # 0
  PROVE  /\ Front(c) \in Seq(Letters) /\ Len(Front(c)) = Len(c) - 1
         /\ \A i \in 1 .. Len(c) - 1 : Front(c)[i] = c[i]
<1>1. Len(c) \in Nat /\ \A i \in 1 .. Len(c) : c[i] \in Letters  BY ElementOfSeq
<1>2. \A i \in 1 .. Len(c) - 1 : c[i] \in Letters  BY <1>1
<1>3. Len(c) - 1 \in Nat  BY <1>1
<1>4. Front(c) = SubSeq(c, 1, Len(c) - 1)  BY DEF Front
<1> DEFINE n == Len(c) - 1
<1>5. SubSeq(c, 1, n) \in Seq(Letters) /\ Len(SubSeq(c, 1, n)) = n
      /\ \A i \in 1 .. n : SubSeq(c, 1, n)[i] = c[i]
  <2> HIDE DEF n
  <2>1. n \in Nat /\ \A i \in 1 .. n : c[i] \in Letters  BY <1>2, <1>3 DEF n
  <2> QED  BY <2>1
<1> QED  BY <1>4, <1>5

(* One more segment: the earlier text, the segment, the separator.         *)
Longer(new, old, segment) ==
    /\ old \in Seq(Letters) /\ new \in Seq(Letters) /\ segment \in Seq(Letters)
    /\ Len(new) = Len(old) + Len(segment) + 1
    /\ \A i \in 1 .. Len(old) : new[i] = old[i]
    /\ \A i \in 1 .. Len(segment) : new[Len(old) + i] = segment[i]
    /\ new[Len(new)] = Separator

LEMMA GrowsByOne ==
  ASSUME NEW ns \in Names, NEW text, Grows(text, ns), NEW k \in 1 .. Len(ns)
  PROVE  Longer(text[k], text[k - 1], ns[k])
<1>1. Len(ns) \in Nat /\ ns[k] \in Seq(Letters)  BY ElementOfSeq DEF Names
<1> DEFINE old == text[k - 1]
           seg == ns[k]
<1>2. k - 1 \in 0 .. Len(ns) /\ old \in Seq(Letters) /\ text[k] \in Seq(Letters)
      /\ text[k] = old \o seg \o <<Separator>>
  <2>1. k \in 0 .. Len(ns) /\ k - 1 \in 0 .. Len(ns)  BY <1>1
  <2>2. text[k] \in Seq(Letters) /\ text[k - 1] \in Seq(Letters)  BY <2>1 DEF Grows
  <2>3. text[k] = text[k - 1] \o ns[k] \o <<Separator>>  BY DEF Grows
  <2> QED  BY <2>1, <2>2, <2>3
<1> HIDE DEF old, seg
<1>3. seg \in Seq(Letters)  BY <1>1 DEF seg
<1>4. /\ old \o seg \in Seq(Letters) /\ Len(old \o seg) = Len(old) + Len(seg)
      /\ \A i \in 1 .. Len(old) + Len(seg) :
            (old \o seg)[i] = IF i <= Len(old) THEN old[i] ELSE seg[i - Len(old)]
  BY <1>2, <1>3, ConcatProperties
<1>5. <<Separator>> \in Seq(Letters) /\ Len(<<Separator>>) = 1 /\ <<Separator>>[1] = Separator
  BY NamesAssumption
<1> DEFINE both == old \o seg
<1>6. /\ Len(both \o <<Separator>>) = Len(both) + 1
      /\ \A i \in 1 .. Len(both) + 1 :
            (both \o <<Separator>>)[i] = IF i <= Len(both) THEN both[i] ELSE <<Separator>>[i - Len(both)]
  BY <1>4, <1>5, ConcatProperties
<1>7. Len(old) \in Nat /\ Len(seg) \in Nat /\ Len(both) \in Nat  BY <1>2, <1>3, <1>4
<1> HIDE DEF both
<1>8. text[k] = both \o <<Separator>>  BY <1>2 DEF both
<1>9. /\ Len(both) = Len(old) + Len(seg)
      /\ \A i \in 1 .. Len(old) + Len(seg) : both[i] = IF i <= Len(old) THEN old[i] ELSE seg[i - Len(old)]
  BY <1>4 DEF both
<1>10. \A i \in 1 .. Len(old) : text[k][i] = old[i]  BY <1>6, <1>7, <1>8, <1>9
<1>11. ASSUME NEW i \in 1 .. Len(seg) PROVE text[k][Len(old) + i] = seg[i]
  <2>1. /\ Len(old) + i \in 1 .. Len(old) + Len(seg) /\ ~(Len(old) + i <= Len(old))
        /\ (Len(old) + i) - Len(old) = i
    BY <1>7
  <2>2. both[Len(old) + i] = seg[i]  BY <1>9, <2>1
  <2>3. Len(old) + i \in 1 .. Len(both) + 1 /\ Len(old) + i <= Len(both)  BY <1>7, <1>9, <2>1
  <2> QED  BY <1>6, <1>8, <2>2, <2>3
<1>12. text[k][Len(text[k])] = Separator
  <2>1. Len(both) + 1 \in 1 .. Len(both) + 1 /\ ~(Len(both) + 1 <= Len(both)) /\ (Len(both) + 1) - Len(both) = 1
    BY <1>7
  <2> QED  BY <1>5, <1>6, <1>8, <2>1
<1>13. Len(text[k]) = Len(old) + Len(seg) + 1  BY <1>6, <1>7, <1>8, <1>9
<1>14. Longer(text[k], old, seg)
  BY <1>2, <1>3, <1>10, <1>11, <1>12, <1>13 DEF Longer
<1> QED  BY <1>14 DEF old, seg

LEMMA LongerLengths ==
  ASSUME NEW new, NEW old, NEW segment, Longer(new, old, segment)
  PROVE  /\ Len(old) \in Nat /\ Len(segment) \in Nat /\ Len(new) \in Nat
         /\ Len(new) = Len(old) + Len(segment) + 1
         /\ Begins(old, new)
<1>1. Len(old) \in Nat /\ Len(segment) \in Nat /\ Len(new) \in Nat  BY DEF Longer
<1>2. Len(new) = Len(old) + Len(segment) + 1  BY DEF Longer
<1>3. Len(old) <= Len(new)  BY <1>1, <1>2
<1> QED  BY <1>1, <1>2, <1>3 DEF Longer, Begins

LEMMA BeginsTransitive ==
  ASSUME NEW r, NEW s, NEW t, Len(r) \in Nat, Len(s) \in Nat, Len(t) \in Nat,
         Begins(r, s), Begins(s, t)
  PROVE  Begins(r, t)
<1>1. Len(r) <= Len(s) /\ Len(s) <= Len(t)  BY DEF Begins
<1>2. \A i \in 1 .. Len(r) : i \in 1 .. Len(s)  BY <1>1
<1>3. \A i \in 1 .. Len(r) : r[i] = t[i]  BY <1>2 DEF Begins
<1> QED  BY <1>1, <1>3 DEF Begins

(* The text of the first segments begins the text of more of them.         *)
LEMMA EarlierBegins ==
  ASSUME NEW ns \in Names, NEW text, Grows(text, ns),
         NEW j \in 0 .. Len(ns), NEW k \in j .. Len(ns)
  PROVE  Begins(text[j], text[k])
<1> DEFINE Bad == {i \in j .. Len(ns) : ~Begins(text[j], text[i])}
<1> SUFFICES ASSUME Bad # {} PROVE FALSE  OBVIOUS
<1>1. Len(ns) \in Nat  BY DEF Names
<1>b. Bad \in SUBSET Nat  BY <1>1
<1>2. PICK i \in Bad : \A h \in Bad : i <= h
  <2> HIDE DEF Bad
  <2> QED  BY <1>b, LeastElement
<1>3. i # j
  <2>1. Len(text[j]) \in Nat  BY <1>1 DEF Grows
  <2>2. Begins(text[j], text[j])  BY <2>1 DEF Begins
  <2> QED  BY <1>2, <2>2
<1>4. i \in 1 .. Len(ns) /\ i - 1 \in j .. Len(ns) /\ i - 1 \notin Bad
  <2>1. i \in j .. Len(ns) /\ i \in 1 .. Len(ns) /\ i - 1 \in j .. Len(ns) /\ ~(i <= i - 1)
    BY <1>1, <1>2, <1>3
  <2> HIDE DEF Bad
  <2> QED  BY <1>2, <2>1
<1>5. Begins(text[j], text[i - 1])  BY <1>4
<1>6. Longer(text[i], text[i - 1], ns[i])  BY <1>4, GrowsByOne
<1>7. Len(text[j]) \in Nat
  <2>1. text[j] \in Seq(Letters)  BY DEF Grows
  <2> QED  BY <2>1
<1>8. Begins(text[j], text[i])  BY <1>5, <1>6, <1>7, LongerLengths, BeginsTransitive
<1> QED  BY <1>2, <1>8

(* Namespaces that begin alike have texts that begin alike.                *)
LEMMA SameText ==
  ASSUME NEW ns \in Names, NEW text, Grows(text, ns),
         NEW ms \in Names, NEW words, Grows(words, ms),
         NEW m \in 0 .. Len(ns), m <= Len(ms), \A i \in 1 .. m : ms[i] = ns[i]
  PROVE  words[m] = text[m]
<1> DEFINE Bad == {i \in 0 .. m : words[i] # text[i]}
<1> SUFFICES ASSUME Bad # {} PROVE FALSE
  <2>1. m \in 0 .. m  BY DEF Names
  <2> QED  BY <2>1
<1>1. Len(ns) \in Nat /\ Len(ms) \in Nat /\ m \in Nat  BY DEF Names
<1>b. Bad \in SUBSET Nat  BY <1>1
<1>2. PICK i \in Bad : \A h \in Bad : i <= h
  <2> HIDE DEF Bad
  <2> QED  BY <1>b, LeastElement
<1>3. i # 0  BY <1>2 DEF Grows
<1>4. i \in 1 .. m /\ i - 1 \in 0 .. m /\ i - 1 \notin Bad
  <2>1. i \in 0 .. m /\ i \in 1 .. m /\ i - 1 \in 0 .. m /\ ~(i <= i - 1)
    BY <1>1, <1>2, <1>3
  <2> HIDE DEF Bad
  <2> QED  BY <1>2, <2>1
<1>5. words[i - 1] = text[i - 1] /\ ms[i] = ns[i]  BY <1>4
<1>6. i \in 1 .. Len(ns) /\ i \in 1 .. Len(ms)  BY <1>1, <1>4
<1>7. text[i] = text[i - 1] \o ns[i] \o <<Separator>>  BY <1>6 DEF Grows
<1>8. words[i] = words[i - 1] \o ms[i] \o <<Separator>>  BY <1>6 DEF Grows
<1> QED  BY <1>2, <1>5, <1>7, <1>8

(* The text of a prefix begins the text of the namespace, ...              *)
LEMMA PrefixClosed ==
  ASSUME NEW prefix \in Names, NEW ns \in Names, IsPrefix(prefix, ns)
  PROVE  Begins(Closed(prefix), Closed(ns))
<1>1. Begins(prefix, ns)  BY PrefixByPositions DEF Names
<1>2. Len(prefix) \in Nat /\ Len(ns) \in Nat  BY DEF Names
<1>3. PICK text : Grows(text, ns) /\ text[Len(ns)] = Closed(ns)  BY ClosedGrows
<1>4. PICK words : Grows(words, prefix) /\ words[Len(prefix)] = Closed(prefix)  BY ClosedGrows
<1> DEFINE m == Len(prefix)
<1>5. m \in 0 .. Len(ns) /\ m <= m /\ Len(ns) \in m .. Len(ns)  BY <1>1, <1>2 DEF Begins
<1>6. words[m] = text[m]  BY <1>1, <1>3, <1>4, <1>5, SameText DEF Begins
<1>7. Begins(text[m], text[Len(ns)])  BY <1>3, <1>5, EarlierBegins
<1> QED  BY <1>3, <1>4, <1>6, <1>7

(* ... and tells it, where no segment holds the separator.                 *)
LEMMA PlainParsed ==
  ASSUME NEW prefix \in Names, NEW ns \in Names, Plain(prefix), Plain(ns),
         Begins(Closed(prefix), Closed(ns))
  PROVE  IsPrefix(prefix, ns)
<1>1. Len(prefix) \in Nat /\ Len(ns) \in Nat  BY DEF Names
<1> DEFINE Bad == {k \in 1 .. Len(prefix) : k > Len(ns) \/ prefix[k] # ns[k]}
<1> SUFFICES ASSUME Bad # {} PROVE FALSE
  <2>1. \A k \in 1 .. Len(prefix) : k <= Len(ns) /\ prefix[k] = ns[k]  BY <1>1
  <2>2. Len(prefix) <= Len(ns)  BY <1>1, <2>1
  <2> QED  BY <2>1, <2>2, PrefixByPositions DEF Names, Begins
<1>b. Bad \in SUBSET Nat  BY <1>1
<1>2. PICK k \in Bad : \A h \in Bad : k <= h
  <2> HIDE DEF Bad
  <2> QED  BY <1>b, LeastElement
<1>3. k \in 1 .. Len(prefix) /\ (k > Len(ns) \/ prefix[k] # ns[k])  BY <1>2
<1>4. \A h \in 1 .. k - 1 : h <= Len(ns) /\ prefix[h] = ns[h]
  <2> SUFFICES ASSUME NEW h \in 1 .. k - 1 PROVE h \notin Bad
    <3>1. \A h \in 1 .. k - 1 : h \in 1 .. Len(prefix)  BY <1>1, <1>3
    <3> QED  BY <1>1, <3>1
  <2>1. ~(k <= h)  BY <1>1, <1>3
  <2> HIDE DEF Bad
  <2> QED  BY <1>2, <2>1
<1> HIDE DEF Bad
<1>5. PICK text : Grows(text, ns) /\ text[Len(ns)] = Closed(ns)  BY ClosedGrows
<1>6. PICK words : Grows(words, prefix) /\ words[Len(prefix)] = Closed(prefix)  BY ClosedGrows
<1>7. k - 1 <= Len(ns) /\ k - 1 \in 0 .. Len(ns) /\ k - 1 \in 0 .. Len(prefix)
  BY <1>1, <1>3, <1>4
<1>8. words[k - 1] = text[k - 1]
  <2>1. k - 1 <= Len(prefix)  BY <1>1, <1>3
  <2> QED  BY <1>4, <1>5, <1>6, <1>7, <2>1, SameText
<1> DEFINE old == text[k - 1]
           s == prefix[k]
<1>9. /\ old \in Seq(Letters) /\ s \in Seq(Letters)
      /\ Len(words[k]) = Len(old) + Len(s) + 1
      /\ \A i \in 1 .. Len(s) : words[k][Len(old) + i] = s[i]
      /\ words[k][Len(words[k])] = Separator
  <2>1. Longer(words[k], words[k - 1], prefix[k])  BY <1>3, <1>6, GrowsByOne
  <2> QED  BY <1>8, <2>1 DEF Longer
<1>10. Len(old) \in Nat /\ Len(s) \in Nat  BY <1>9
<1>11. Begins(words[k], Closed(prefix))
  <2>1. k \in 0 .. Len(prefix) /\ Len(prefix) \in k .. Len(prefix)  BY <1>1, <1>3
  <2> QED  BY <1>6, <2>1, EarlierBegins
<1>12. Len(words[k]) <= Len(Closed(ns)) /\ \A i \in 1 .. Len(words[k]) : words[k][i] = Closed(ns)[i]
  <2>1. Closed(prefix) \in Seq(Letters) /\ Closed(ns) \in Seq(Letters)
    <3>1. Len(prefix) \in 0 .. Len(prefix) /\ Len(ns) \in 0 .. Len(ns)  BY <1>1
    <3> QED  BY <1>5, <1>6, <3>1 DEF Grows
  <2>2. Len(Closed(prefix)) \in Nat /\ Len(Closed(ns)) \in Nat /\ Len(words[k]) \in Nat
    <3>1. Len(Closed(prefix)) \in Nat /\ Len(Closed(ns)) \in Nat  BY <2>1, SequenceLength
    <3>2. words[k] \in Seq(Letters)  BY <1>1, <1>3, <1>6 DEF Grows
    <3> QED  BY <3>1, <3>2, SequenceLength
  <2>3. Len(words[k]) <= Len(Closed(prefix)) /\ Len(Closed(prefix)) <= Len(Closed(ns))
    BY <1>11 DEF Begins
  <2> QED  BY <1>11, <2>2, <2>3 DEF Begins
<1>13. CASE k > Len(ns)
  <2>1. k - 1 = Len(ns)  BY <1>1, <1>3, <1>7, <1>13
  <2>2. Closed(ns) = old  BY <1>5, <2>1
  <2>3. Len(words[k]) <= Len(old)  BY <1>12, <2>2
  <2> HIDE DEF old, s
  <2> QED  BY <1>9, <1>10, <2>3
<1>14. CASE k <= Len(ns)
  <2> DEFINE t == ns[k]
  <2>1. k \in 1 .. Len(ns) /\ k \in 0 .. Len(ns) /\ Len(ns) \in k .. Len(ns)  BY <1>1, <1>3, <1>14
  <2>2. /\ t \in Seq(Letters)
        /\ Len(text[k]) = Len(old) + Len(t) + 1
        /\ \A i \in 1 .. Len(t) : text[k][Len(old) + i] = t[i]
        /\ text[k][Len(text[k])] = Separator
    <3>1. Longer(text[k], text[k - 1], ns[k])  BY <1>5, <2>1, GrowsByOne
    <3> QED  BY <3>1 DEF Longer
  <2>3. Len(t) \in Nat  BY <2>2
  <2>4. Len(text[k]) <= Len(Closed(ns)) /\ \A i \in 1 .. Len(text[k]) : text[k][i] = Closed(ns)[i]
    BY <1>5, <2>1, EarlierBegins DEF Begins
  <2>5. \A i \in 1 .. Len(s) : s[i] # Separator
    BY <1>3, <1>9, <1>10 DEF Plain, Contains, Names
  <2>6. \A i \in 1 .. Len(t) : t[i] # Separator
    BY <2>1, <2>2, <2>3 DEF Plain, Contains, Names
  <2>7. \A i \in 1 .. Len(words[k]) : i \in 1 .. Len(text[k]) => words[k][i] = text[k][i]
    BY <1>12, <2>4
  <2> HIDE DEF s, t, old
  <2>8. Len(s) = Len(t)
    <3>1. CASE Len(s) < Len(t)
      <4> DEFINE i == Len(old) + Len(s) + 1
      <4>1. i \in 1 .. Len(words[k]) /\ i \in 1 .. Len(text[k]) /\ Len(s) + 1 \in 1 .. Len(t)
        BY <1>9, <1>10, <2>2, <2>3, <3>1
      <4>2. words[k][i] = Separator  BY <1>9
      <4>3. text[k][Len(old) + (Len(s) + 1)] = t[Len(s) + 1]  BY <2>2, <4>1
      <4>4. Len(old) + (Len(s) + 1) = i  BY <1>10
      <4> QED  BY <2>6, <2>7, <4>1, <4>2, <4>3, <4>4
    <3>2. CASE Len(t) < Len(s)
      <4> DEFINE i == Len(old) + Len(t) + 1
      <4>1. i \in 1 .. Len(words[k]) /\ i \in 1 .. Len(text[k]) /\ Len(t) + 1 \in 1 .. Len(s)
        BY <1>9, <1>10, <2>2, <2>3, <3>2
      <4>2. text[k][i] = Separator  BY <2>2
      <4>3. words[k][Len(old) + (Len(t) + 1)] = s[Len(t) + 1]  BY <1>9, <4>1
      <4>4. Len(old) + (Len(t) + 1) = i  BY <1>10, <2>3
      <4> QED  BY <2>5, <2>7, <4>1, <4>2, <4>3, <4>4
    <3> QED  BY <1>10, <2>3, <3>1, <3>2
  <2>9. ASSUME NEW i \in 1 .. Len(s) PROVE s[i] = t[i]
    <3>1. Len(old) + i \in 1 .. Len(words[k]) /\ Len(old) + i \in 1 .. Len(text[k]) /\ i \in 1 .. Len(t)
      BY <1>9, <1>10, <2>2, <2>3, <2>8
    <3> QED  BY <1>9, <2>2, <2>7, <3>1
  <2>10. s = t  BY <1>9, <2>2, <2>8, <2>9, SeqEqual
  <2> QED  BY <1>3, <1>14, <2>10, <1>1 DEF s, t
<1> QED  BY <1>1, <1>3, <1>13, <1>14

(* The closed text is the joined text and a separator.                     *)
LEMMA JoinedClosed ==
  ASSUME NEW ns \in Names
  PROVE  /\ Joined(ns) \in Seq(Letters) /\ Closed(ns) \in Seq(Letters)
         /\ ns # <<>> => Append(Joined(ns), Separator) = Closed(ns)
<1>1. Len(ns) \in Nat /\ (ns # <<>> => Len(ns) # 0)  BY EmptySeq DEF Names
<1>2. PICK text : Grows(text, ns) /\ text[Len(ns)] = Closed(ns)  BY ClosedGrows
<1>3. Closed(ns) \in Seq(Letters)
  <2>1. Len(ns) \in 0 .. Len(ns)  BY <1>1
  <2> QED  BY <1>2, <2>1 DEF Grows
<1>4. ns = <<>> => Joined(ns) \in Seq(Letters)  BY EmptySeq DEF Joined
<1>5. ASSUME ns # <<>>
      PROVE  Joined(ns) \in Seq(Letters) /\ Append(Joined(ns), Separator) = Closed(ns)
  <2> DEFINE n == Len(ns)
             c == Closed(ns)
  <2>1. n \in 1 .. n  BY <1>1, <1>5
  <2>2. /\ text[n - 1] \in Seq(Letters) /\ ns[n] \in Seq(Letters)
        /\ Len(c) = Len(text[n - 1]) + Len(ns[n]) + 1 /\ c[Len(c)] = Separator
    <3>1. Longer(text[n], text[n - 1], ns[n])  BY <1>2, <2>1, GrowsByOne
    <3> QED  BY <1>2, <3>1 DEF Longer
  <2>3. Len(c) \in Nat \ {0}
    <3> DEFINE old == text[n - 1]
               segment == ns[n]
    <3>1. Len(old) \in Nat /\ Len(segment) \in Nat  BY <2>2, SequenceLength
    <3>2. Len(c) = Len(old) + Len(segment) + 1  BY <2>2
    <3> HIDE DEF old, segment, c
    <3> QED  BY <3>1, <3>2
  <2>4. Joined(ns) = Front(c)  BY <1>5 DEF Joined
  <2> HIDE DEF c
  <2>5. c \in Seq(Letters)  BY <1>3 DEF c
  <2>7. /\ Joined(ns) \in Seq(Letters) /\ Len(Joined(ns)) = Len(c) - 1
        /\ \A i \in 1 .. Len(c) - 1 : Joined(ns)[i] = c[i]
    BY <2>3, <2>4, <2>5, FrontOf
  <2>8. /\ Append(Joined(ns), Separator) \in Seq(Letters)
        /\ Len(Append(Joined(ns), Separator)) = Len(c)
        /\ \A i \in 1 .. Len(c) - 1 : Append(Joined(ns), Separator)[i] = c[i]
        /\ Append(Joined(ns), Separator)[Len(c)] = Separator
    <3>1. /\ Append(Joined(ns), Separator) \in Seq(Letters)
          /\ Len(Append(Joined(ns), Separator)) = Len(Joined(ns)) + 1
          /\ \A i \in 1 .. Len(Joined(ns)) : Append(Joined(ns), Separator)[i] = Joined(ns)[i]
          /\ Append(Joined(ns), Separator)[Len(Joined(ns)) + 1] = Separator
      BY <2>7, Appended
    <3> QED  BY <2>3, <2>7, <3>1
  <2>9. \A i \in 1 .. Len(c) : Append(Joined(ns), Separator)[i] = c[i]
    <3>1. \A i \in 1 .. Len(c) : i \in 1 .. Len(c) - 1 \/ i = Len(c)  BY <2>3
    <3>2. c[Len(c)] = Separator  BY <2>2 DEF c
    <3> QED  BY <2>8, <3>1, <3>2
  <2>10. Append(Joined(ns), Separator) = c  BY <2>5, <2>8, <2>9, SeqEqual
  <2> QED  BY <2>7, <2>10 DEF c
<1> QED  BY <1>3, <1>4, <1>5

(* No text begins every text.                                              *)
LEMMA EmptyPrefix ==
  ASSUME NEW S, NEW t \in Seq(S)
  PROVE  IsPrefix(<<>>, t)
<1>1. Len(<<>>) = 0 /\ <<>> \in Seq(S)  BY EmptySeq
<1>2. SubSeq(<<>>, 1, 0) = <<>> /\ SubSeq(t, 1, 0) = <<>>  BY <1>1
<1> QED  BY <1>1, <1>2 DEF IsPrefix

(* A search looks at what is under its prefix, ...                         *)
LEMMA PrefixLooked ==
  ASSUME provider \in Providers, NEW prefix \in SearchPrefixes, NEW ns \in Namespaces,
         IsPrefix(prefix, ns), provider = "azure" => Joined(ns) # <<>>
  PROVE  UnderPrefix(ns, prefix)
<1> USE DEF Opened
<1>n. prefix \in Names /\ ns \in Names  BY NamesAssumption DEF Names
<1>0. CASE prefix = <<>>
  <2>1. Joined(<<>>) = <<>>  BY DEF Joined
  <2>2. Folder(ns) \in Seq(Letters) /\ Joined(ns) \in Seq(Letters)
    BY <1>n, JoinedClosed, NamesAssumption DEF Folder
  <2>3. \A text \in Seq(Letters) : IsPrefix(<<>>, text)  BY EmptyPrefix
  <2> QED  BY <1>0, <2>1, <2>2, <2>3 DEF UnderPrefix
<1> SUFFICES ASSUME prefix # <<>> PROVE UnderPrefix(ns, prefix)  BY <1>0
<1>1. prefix \in Names /\ ns \in Names /\ prefix # <<>> /\ ns # <<>>
  <2>1. Len(prefix) \in Nat /\ Len(prefix) # 0  BY <1>n, EmptySeq DEF Names
  <2>2. Len(prefix) <= Len(ns)  BY DEF IsPrefix
  <2> QED  BY <1>n, <2>1, <2>2, EmptySeq
<1>2. Begins(Closed(prefix), Closed(ns))  BY <1>1, PrefixClosed
<1>3. /\ Closed(prefix) \in Seq(Letters) /\ Closed(ns) \in Seq(Letters)
      /\ Joined(prefix) \in Seq(Letters) /\ Joined(ns) \in Seq(Letters)
      /\ Append(Joined(prefix), Separator) = Closed(prefix)
      /\ Append(Joined(ns), Separator) = Closed(ns)
  BY <1>1, JoinedClosed
<1>4. IsPrefix(Closed(prefix), Closed(ns))  BY <1>2, <1>3, PrefixByPositions
<1>5. IsPrefix(Joined(prefix), Joined(ns))
  <2> DEFINE a == Joined(prefix)
             b == Joined(ns)
  <2>1. /\ Len(Closed(prefix)) = Len(a) + 1 /\ \A i \in 1 .. Len(a) : Closed(prefix)[i] = a[i]
        /\ Len(Closed(ns)) = Len(b) + 1 /\ \A i \in 1 .. Len(b) : Closed(ns)[i] = b[i]
    BY <1>3, Appended
  <2>2. a \in Seq(Letters) /\ b \in Seq(Letters) /\ Len(a) \in Nat /\ Len(b) \in Nat  BY <1>3
  <2> HIDE DEF a, b
  <2>3. Begins(a, b)  BY <1>2, <2>1, <2>2 DEF Begins
  <2>4. IsPrefix(a, b)  BY <2>2, <2>3, PrefixByPositions
  <2> QED  BY <2>4 DEF a, b
<1>6. provider = "azure" => UnderPrefix(ns, prefix)
  <2>1. provider = "azure" => Folder(ns) = Closed(ns)  BY <1>3 DEF Folder
  <2> QED  BY <1>3, <1>4, <2>1 DEF UnderPrefix
<1> QED  BY <1>5, <1>6 DEF UnderPrefix

(* ... and in blobs at nothing else, if no segment holds the separator.    *)
LEMMA LookedPrefix ==
  ASSUME provider = "azure", NEW prefix \in SearchPrefixes, NEW ns \in Namespaces,
         UnderPrefix(ns, prefix), Plain(prefix), Plain(ns)
  PROVE  IsPrefix(prefix, ns)
<1> USE DEF Opened
<1>n. prefix \in Names /\ ns \in Names  BY NamesAssumption DEF Names
<1>0. CASE prefix = <<>>  BY <1>0, <1>n, EmptyPrefix DEF Names
<1> SUFFICES ASSUME prefix # <<>> PROVE IsPrefix(prefix, ns)  BY <1>0
<1>1. prefix \in Names /\ ns \in Names /\ prefix # <<>>  BY <1>n
<1>2. /\ Closed(prefix) \in Seq(Letters) /\ Closed(ns) \in Seq(Letters) /\ Joined(prefix) \in Seq(Letters)
      /\ Append(Joined(prefix), Separator) = Closed(prefix)
      /\ ns # <<>> => Append(Joined(ns), Separator) = Closed(ns)
  BY <1>1, JoinedClosed
<1>3. IsPrefix(Closed(prefix), Folder(ns))  BY <1>2 DEF UnderPrefix
<1>4. Folder(ns) # <<>>
  <2>1. Len(Closed(prefix)) = Len(Joined(prefix)) + 1 /\ Len(Joined(prefix)) \in Nat
    BY <1>2, AppendProperties, NamesAssumption
  <2>2. Len(<<>>) = 0  BY EmptySeq
  <2>3. Len(Closed(prefix)) <= Len(Folder(ns))  BY <1>3 DEF IsPrefix
  <2> QED  BY <2>1, <2>2, <2>3
<1>5. Folder(ns) = Closed(ns)  BY <1>2, <1>4 DEF Folder, Joined
<1>6. Begins(Closed(prefix), Closed(ns))  BY <1>2, <1>3, <1>5, PrefixByPositions
<1> QED  BY <1>1, <1>6, PlainParsed

-----------------------------------------------------------------------------
(***************************************************************************)
(* Where values are, and what the clients were told.                       *)
(***************************************************************************)

(* The value has passed the expiry that its last writer asked for.         *)
Past(val, time) ==
    /\ KeepsTtl /\ promised[val] # Never
    /\ IF provider = "memory" THEN time > promised[val] ELSE time >= promised[val]

(* A value is stored, and read, at the place that its put asked for.       *)
PutAt(val, p) == pc[val] # "new" /\ ask[val] \in PutAsks /\ Place(ask[val].ns) = p

PlacedInv ==
    /\ \A p \in DOMAIN items : PutAt(items[p].val, p)
    /\ \A q \in Requests : ask[q] \in GetAsks /\ seen[q] # None
          => PutAt(seen[q].val, Place(ask[q].ns))

(* The clients are told of puts that are over.                             *)
ToldInv ==
    \A ns \in Namespaces : acked[ns] \in Requests
        => pc[acked[ns]] = "ok" /\ ask[acked[ns]] \in PutAsks /\ ask[acked[ns]].ns = ns

ReadInv == \A q \in Requests : judged[q] <= now

(* SQL Server has written what the client is not yet told of.              *)
RereadInv == \A q \in Requests : pc[q] = "reread" => provider = "sqlserver"

Writing(ns) == \E q \in Requests : pc[q] = "reread" /\ ask[q] \in PutAsks /\ ask[q].ns = ns

(* What the clients were told last stands, or has passed its expiry.       *)
Stands(ns) ==
    LET val == acked[ns]
        p   == Place(ns)
    IN  /\ val = None => p \notin DOMAIN items
        /\ val \in Requests =>
              IF p \in DOMAIN items
              THEN items[p].val = val /\ (KeepsTtl => items[p].expires = promised[val])
              ELSE Past(val, now)

(* A search that is under way has found it, or is yet to read it.          *)
Sought(q, ns) ==
    /\ Own(ns) /\ (provider = "azure" => Joined(ns) # <<>>)
    /\ IsPrefix(ask[q].prefix, ns)
    /\ Current(acked[ns], now)

InReach(q, ns) ==
    Place(ns) \in todo[q] \/ \E item \in found[q] : item.ns = ns /\ item.val = acked[ns]

(* What a request that is under way has read is what the clients know.     *)
Follows(q) ==
    /\ pc[q] = "reread" /\ ask[q] \in PutAsks
          => Place(ask[q].ns) \in DOMAIN items /\ items[Place(ask[q].ns)].val = q
    /\ ask[q] \in GetAsks /\ Own(ask[q].ns) =>
          /\ pc[q] \in {"refresh", "upload", "reread"} => acked[ask[q].ns] \in {seen[q].val, Unknown}
          /\ pc[q] = "deleteExpired" =>
                /\ seen[q] = None
                /\ acked[ask[q].ns] # None
                /\ acked[ask[q].ns] \in Requests => Past(acked[ask[q].ns], judged[q])
    /\ pc[q] = "scan" /\ ask[q] \in SearchAsks =>
          \A ns \in Namespaces : Sought(q, ns) => InReach(q, ns)

LastInv ==
    Serial =>
        /\ \A ns \in Namespaces : Own(ns) /\ ~Writing(ns) => Stands(ns)
        /\ \A q \in Requests : Follows(q)

AnswersInv == ItemsInv /\ PlacedInv /\ ToldInv /\ ReadInv /\ RereadInv /\ LastInv

LEMMA StartsAsking ==
  ASSUME TypeOK, NEW q \in Requests, NEW what, Starts(q, what)
  PROVE  pc[q] = "new" /\ ask'[q] = what /\ (Serial => Idle)
BY DEF Starts, TypeOK

(* The same after the step.                                                *)
PutThen(val, p) == pc'[val] # "new" /\ ask'[val] \in PutAsks /\ Place(ask'[val].ns) = p

(* A value that was put is not put again.                                  *)
LEMMA PutAtKept ==
  ASSUME TypeOK, CallsInv, [Next]_vars, NEW val \in Requests, NEW p, PutAt(val, p)
  PROVE  PutThen(val, p)
<1>1. ASSUME pc'[val] # "new", ask'[val] = ask[val] PROVE PutThen(val, p)
  BY <1>1 DEF PutAt, PutThen
<1>2. ASSUME NEW q \in Requests, StepOf(q), q # val PROVE PutThen(val, p)
  BY <1>1, <1>2, StepsSteady DEF Steady, PutAt
<1>3. ASSUME StepOf(val) PROVE PutThen(val, p)
  <2>1. pc[val] # "new"  BY DEF PutAt
  <2>2. CASE \E ns \in Namespaces : \/ \E ttl \in Ttls \union {Never} : Put(val, ns, ttl)
                                    \/ \E refresh \in BOOLEAN : Get(val, ns, refresh)
                                    \/ Delete(val, ns)
    BY <2>1, <2>2 DEF Put, Get, Delete, Starts
  <2>3. CASE \E prefix \in SearchPrefixes :
                Search(val, prefix) \/ \E depth \in Depths : List(val, prefix, depth)
    BY <2>1, <2>3 DEF Search, List, Starts
  <2>4. CASE \/ Upload(val) \/ AnswerLost(val) \/ Reread(val) \/ ScanEnds(val) \/ Fails(val)
             \/ DeleteExpired(val)
    <3>1. pc'[val] \in {"ok", "error"} /\ ask' = ask
      BY <2>4 DEF Upload, AnswerLost, Uploaded, Reread, ScanEnds, Fails, DeleteExpired, Ends, Goto, TypeOK
    <3> QED  BY <1>1, <3>1
  <2>5. CASE Refresh(val)
    <3>1. ask' = ask /\ pc'[val] # "new"  BY <2>5 DEF Refresh, PutItem, Goto, TypeOK
    <3> QED  BY <1>1, <3>1
  <2>6. CASE \E r \in todo[val] : Scan(val, r)  BY <1>1, <2>1, <2>6 DEF Scan
  <2> QED  BY <1>3, <2>2, <2>3, <2>4, <2>5, <2>6 DEF StepOf
<1>4. ASSUME UNCHANGED <<ask, pc>> PROVE PutThen(val, p)  BY <1>1, <1>4 DEF PutAt
<1>5. CASE UNCHANGED vars  BY <1>4, <1>5 DEF vars
<1>6. CASE Tick  BY <1>4, <1>6 DEF Tick
<1>7. ASSUME NEW r \in sweeping, Sweep(r) PROVE PutThen(val, p)  BY <1>4, <1>7 DEF Sweep
<1> QED  BY <1>2, <1>3, <1>5, <1>6, <1>7, NextStepOf

(* What a step writes: the value of a put that starts or goes on, or the   *)
(* one that a get has read, at its namespace.                              *)
Writes(q, ns, val, due) ==
    /\ q \in Requests /\ val \in Requests /\ ns \in Namespaces
    /\ ns = ask'[q].ns
    /\ \E since : items' = Stored(ns, val, since, Expiry(due))
    /\ promised' = [promised EXCEPT ![val] = due]
    /\ \/ val = q /\ ask'[q] \in PutAsks /\ pc'[q] # "new" /\ pc[q] \in {"new", "upload"}
       \/ /\ ask[q] \in GetAsks /\ ask' = ask /\ seen[q] \in Items /\ seen[q].val = val /\ due = Never
          /\ pc[q] \in {"refresh", "upload"}

LEMMA PutWrites ==
  ASSUME TypeOK, NEW q \in Requests, NEW ns \in Namespaces, NEW ttl \in Ttls \union {Never},
         Put(q, ns, ttl), provider # "azure"
  PROVE  Writes(q, ns, q, Due(ttl))
<1>1. /\ pc[q] = "new" /\ pc'[q] \in {"reread", "ok"}
      /\ items' = Stored(ns, q, CreatedAt(Place(ns)), Expiry(Due(ttl)))
      /\ promised' = [promised EXCEPT ![q] = Due(ttl)]
  BY DEF Put, PutItem, Starts, Goto, TypeOK
<1>2. ask'[q].ns = ns /\ ask'[q] \in PutAsks  BY DEF Put, Starts, PutAsks, TypeOK
<1> QED  BY <1>1, <1>2 DEF Writes

LEMMA UploadWrites ==
  ASSUME TypeOK, CallsInv, NEW q \in Requests, Upload(q) \/ AnswerLost(q)
  PROVE  IF ask[q].op = "put" THEN Writes(q, ask[q].ns, q, expires[q])
         ELSE Writes(q, ask[q].ns, seen[q].val, expires[q])
<1>1. Uploaded(q) /\ pc[q] = "upload" /\ pc'[q] \in {"ok", "error"} /\ ask' = ask
  BY DEF Upload, AnswerLost, Uploaded, Ends, Goto, TypeOK
<1>2. /\ ask[q] \in PutAsks \union GetAsks /\ provider = "azure"
      /\ ask[q] \in GetAsks => seen[q] \in Items /\ expires[q] = Never
  BY <1>1 DEF CallsInv, CallOK
<1>3. Expiry(expires[q]) = expires[q] /\ ask[q].ns \in Namespaces
  BY <1>2 DEF Expiry, Sql, PutAsks, GetAsks
<1>4. CASE ask[q].op = "put"
  <2>1. /\ items' = Stored(ask[q].ns, q, created[q], Expiry(expires[q]))
        /\ promised' = [promised EXCEPT ![q] = expires[q]]
    BY <1>1, <1>3, <1>4 DEF Uploaded
  <2>2. ask[q] \in PutAsks  BY <1>2, <1>4 DEF GetAsks
  <2>3. Writes(q, ask[q].ns, q, expires[q])  BY <1>1, <1>3, <2>1, <2>2 DEF Writes
  <2> QED  BY <1>4, <2>3
<1>5. CASE ask[q].op # "put"
  <2>1. /\ items' = Stored(ask[q].ns, seen[q].val, created[q], Expiry(expires[q]))
        /\ promised' = [promised EXCEPT ![seen[q].val] = expires[q]]
    BY <1>1, <1>3, <1>5 DEF Uploaded
  <2>2. ask[q] \in GetAsks  BY <1>2, <1>5 DEF PutAsks
  <2>3. seen[q] \in Items /\ seen[q].val \in Requests /\ expires[q] = Never
    BY <1>2, <2>2 DEF Items
  <2>4. Writes(q, ask[q].ns, seen[q].val, expires[q])  BY <1>1, <1>3, <2>1, <2>2, <2>3 DEF Writes
  <2> QED  BY <1>5, <2>4
<1> QED  BY <1>4, <1>5

LEMMA RefreshWrites ==
  ASSUME TypeOK, CallsInv, NEW q \in Requests, Refresh(q), provider # "azure"
  PROVE  Writes(q, ask[q].ns, seen[q].val, Never)
<1>1. pc[q] = "refresh" /\ ask[q] \in GetAsks /\ seen[q] \in Items /\ seen[q].val \in Requests
      /\ ask[q].ns \in Namespaces
  BY DEF Refresh, CallsInv, CallOK, Items, GetAsks
<1>2. /\ items' = Stored(ask[q].ns, seen[q].val, CreatedAt(Place(ask[q].ns)), Expiry(Never))
      /\ promised' = [promised EXCEPT ![seen[q].val] = Never]
      /\ ask' = ask
  BY DEF Refresh, PutItem
<1> QED  BY <1>1, <1>2 DEF Writes

LEMMA WritesStep ==
  ASSUME TypeOK, CallsInv, [Next]_vars
  PROVE  \/ \A p \in DOMAIN items' : Kept(p)
         \/ \E q, ns, val, due : Writes(q, ns, val, due)
<1>s. ASSUME items' = items PROVE \A p \in DOMAIN items' : Kept(p)  BY <1>s DEF Kept
<1>w. ASSUME NEW places, items' = Without(places) PROVE \A p \in DOMAIN items' : Kept(p)
  BY <1>w, RemovedItems DEF Kept
<1>1. CASE UNCHANGED vars  BY <1>s, <1>1 DEF vars
<1>2. ASSUME NEW q \in Requests, NEW ns \in Namespaces, NEW ttl \in Ttls \union {Never}, Put(q, ns, ttl),
             items' # items
      PROVE  Writes(q, ns, q, Due(ttl))
  <2>1. provider # "azure"  BY <1>2 DEF Put, PutItem
  <2> QED  BY <1>2, <2>1, PutWrites
<1>3. ASSUME NEW q \in Requests, Upload(q) \/ AnswerLost(q)
      PROVE  \E ns, val, due : Writes(q, ns, val, due)
  BY <1>3, UploadWrites
<1>4. ASSUME NEW q \in Requests, Refresh(q), items' # items
      PROVE  Writes(q, ask[q].ns, seen[q].val, Never)
  <2>1. provider # "azure"  BY <1>4 DEF Refresh, PutItem
  <2> QED  BY <1>4, <2>1, RefreshWrites
<1>5. ASSUME NEW q \in Requests, NEW ns \in Namespaces, NEW refresh \in BOOLEAN,
             Get(q, ns, refresh) \/ Delete(q, ns)
      PROVE  \A p \in DOMAIN items' : Kept(p)
  BY <1>s, <1>w, <1>5 DEF Get, Delete
<1>6. ASSUME NEW q \in Requests, NEW prefix \in SearchPrefixes, Search(q, prefix)
      PROVE  \A p \in DOMAIN items' : Kept(p)
  <2>1. Live = DOMAIN items \ (DOMAIN items \ Live)  BY DEF Live
  <2>2. items' = items \/ items' = Without(DOMAIN items \ Live)  BY <1>6, <2>1 DEF Search, Without
  <2> QED  BY <1>s, <1>w, <2>2
<1>7. ASSUME NEW q \in Requests, NEW prefix \in SearchPrefixes, NEW depth \in Depths, List(q, prefix, depth)
      PROVE  \A p \in DOMAIN items' : Kept(p)
  BY <1>s, <1>7 DEF List
<1>8. ASSUME NEW q \in Requests,
             Reread(q) \/ ScanEnds(q) \/ Fails(q) \/ DeleteExpired(q) \/ \E p \in todo[q] : Scan(q, p)
      PROVE  \A p \in DOMAIN items' : Kept(p)
  BY <1>s, <1>w, <1>8 DEF Reread, ScanEnds, Fails, DeleteExpired, Scan
<1>9. ASSUME NEW p \in sweeping, Sweep(p) PROVE \A r \in DOMAIN items' : Kept(r)
  BY <1>s, <1>w, <1>9 DEF Sweep
<1>10. CASE Tick  BY <1>s, <1>10 DEF Tick
<1>11. CASE items' # items /\ Next
  BY <1>11, <1>2, <1>3, <1>4, <1>5, <1>6, <1>7, <1>8, <1>9, <1>10, NextSteps
<1> QED  BY <1>s, <1>1, <1>11

(* A value stays, and is read, where it was put.                           *)
LEMMA PlacedStep ==
  ASSUME TypeOK, CallsInv, PlacedInv, [Next]_vars
  PROVE  PlacedInv'
<1>p. \A ns : Place(ns)' = Place(ns)  BY ProviderKept DEF Place
<1>1. ASSUME NEW p \in DOMAIN items' PROVE PutThen(items'[p].val, p)
  <2>1. ASSUME Kept(p) PROVE PutThen(items'[p].val, p)
    <3>1. p \in DOMAIN items /\ items'[p] = items[p] /\ items[p].val \in Requests
      BY <2>1 DEF Kept, TypeOK, Items
    <3>2. PutAt(items[p].val, p)  BY <3>1 DEF PlacedInv
    <3>3. PutThen(items[p].val, p)  BY <3>1, <3>2, PutAtKept
    <3> QED  BY <3>1, <3>3
  <2>2. ASSUME NEW q, NEW ns, NEW val, NEW due, Writes(q, ns, val, due), ~Kept(p)
        PROVE  PutThen(items'[p].val, p)
    <3>1. items'[p].val = val /\ p = Place(ns) /\ val \in Requests /\ q \in Requests
      BY <1>1, <2>2, StoredItems DEF Writes
    <3>2. CASE ask'[q] \in PutAsks /\ val = q /\ pc'[q] # "new"
      BY <2>2, <3>1, <3>2 DEF Writes, PutThen
    <3>3. CASE ask[q] \in GetAsks /\ ask' = ask /\ seen[q] \in Items /\ seen[q].val = val
      <4>1. seen[q] # None  BY <3>3, NoneAssumption
      <4>2. PutAt(val, p)  BY <2>2, <3>1, <3>3, <4>1 DEF PlacedInv, Writes
      <4>3. PutThen(val, p)  BY <3>1, <4>2, PutAtKept
      <4> QED  BY <3>1, <4>3
    <3> QED  BY <2>2, <3>2, <3>3 DEF Writes
  <2> QED  BY <1>1, <2>1, <2>2, WritesStep
<1>2. ASSUME NEW q \in Requests, ask'[q] \in GetAsks, seen'[q] # None
      PROVE  PutThen(seen'[q].val, Place(ask'[q].ns))
  <2>1. ASSUME ask[q] = ask'[q], seen[q] = seen'[q] PROVE PutThen(seen'[q].val, Place(ask'[q].ns))
    <3>1. PutAt(seen[q].val, Place(ask[q].ns))  BY <1>2, <2>1 DEF PlacedInv
    <3>2. seen[q].val \in Requests  BY <1>2, <2>1 DEF TypeOK, Items
    <3>3. PutThen(seen[q].val, Place(ask[q].ns))  BY <3>1, <3>2, PutAtKept
    <3> QED  BY <2>1, <3>3
  <2>2. ASSUME NEW ns \in Namespaces, NEW refresh \in BOOLEAN, Get(q, ns, refresh)
        PROVE  PutThen(seen'[q].val, Place(ask'[q].ns))
    <3>1. seen'[q] = ItemAt(Place(ns)) /\ ask'[q].ns = ns
      BY <1>2, <2>2 DEF Get, Starts, TypeOK
    <3>2. Place(ns) \in DOMAIN items /\ seen'[q] = items[Place(ns)]  BY <1>2, <3>1 DEF ItemAt
    <3>3. items[Place(ns)].val \in Requests /\ PutAt(items[Place(ns)].val, Place(ns))
      BY <3>2 DEF TypeOK, Items, PlacedInv
    <3>4. PutThen(items[Place(ns)].val, Place(ns))  BY <3>3, PutAtKept
    <3> QED  BY <3>1, <3>2, <3>4
  <2>3. ASSUME NEW ns \in Namespaces,
               (\E ttl \in Ttls \union {Never} : Put(q, ns, ttl)) \/ Delete(q, ns)
        PROVE  FALSE
    <3>1. ask'[q].op = "get"  BY <1>2 DEF GetAsks
    <3>2. ASSUME NEW ttl \in Ttls \union {Never}, Put(q, ns, ttl) PROVE ask'[q].op = "put"
      BY <3>2, StartsAsking DEF Put
    <3>3. ASSUME Delete(q, ns) PROVE ask'[q].op = "delete"  BY <3>3, StartsAsking DEF Delete
    <3> QED  BY <2>3, <3>1, <3>2, <3>3
  <2>4. ASSUME NEW prefix \in SearchPrefixes,
               Search(q, prefix) \/ \E depth \in Depths : List(q, prefix, depth)
        PROVE  FALSE
    <3>1. ask'[q].op = "get"  BY <1>2 DEF GetAsks
    <3>2. ASSUME Search(q, prefix) PROVE ask'[q].op = "search"  BY <3>2, StartsAsking DEF Search
    <3>3. ASSUME NEW depth \in Depths, List(q, prefix, depth) PROVE ask'[q].op = "list"
      BY <3>3, StartsAsking DEF List
    <3> QED  BY <2>4, <3>1, <3>2, <3>3
  <2>5. ASSUME \/ Upload(q) \/ AnswerLost(q) \/ Reread(q) \/ ScanEnds(q) \/ Fails(q) \/ DeleteExpired(q)
               \/ Refresh(q) \/ \E p \in todo[q] : Scan(q, p)
        PROVE  ask[q] = ask'[q] /\ seen[q] = seen'[q]
    BY <2>5 DEF Upload, AnswerLost, Uploaded, Reread, ScanEnds, Fails, DeleteExpired, Refresh, PutItem,
                Scan, local
  <2>6. ASSUME StepOf(q) PROVE PutThen(seen'[q].val, Place(ask'[q].ns))
    BY <2>1, <2>2, <2>3, <2>4, <2>5, <2>6 DEF StepOf
  <2>7. ASSUME NEW r \in Requests, StepOf(r), r # q PROVE ask[q] = ask'[q] /\ seen[q] = seen'[q]
    BY <2>7, StepsSteady DEF Steady
  <2>8. ASSUME UNCHANGED <<ask, local>> PROVE ask[q] = ask'[q] /\ seen[q] = seen'[q]
    BY <2>8 DEF local
  <2>9. CASE UNCHANGED vars  BY <2>1, <2>8, <2>9 DEF vars
  <2>10. CASE Tick  BY <2>1, <2>8, <2>10 DEF Tick
  <2>11. ASSUME NEW r \in sweeping, Sweep(r) PROVE PutThen(seen'[q].val, Place(ask'[q].ns))
    BY <2>1, <2>8, <2>11 DEF Sweep
  <2> QED  BY <2>1, <2>6, <2>7, <2>9, <2>10, <2>11, NextStepOf
<1> QED  BY <1>p, <1>1, <1>2 DEF PlacedInv, PutAt, PutThen

(* A request that is over stays over.                                      *)
LEMMA OverKept ==
  ASSUME TypeOK, [Next]_vars, NEW r \in Requests, pc[r] = "ok"
  PROVE  pc'[r] = "ok" /\ ask'[r] = ask[r]
<1>1. ASSUME NEW q \in Requests, StepOf(q), q # r PROVE pc'[r] = pc[r] /\ ask'[r] = ask[r]
  BY <1>1, StepsSteady DEF Steady
<1>2. ASSUME StepOf(r) PROVE FALSE
  <2>1. CASE \E ns \in Namespaces : \/ \E ttl \in Ttls \union {Never} : Put(r, ns, ttl)
                                    \/ \E refresh \in BOOLEAN : Get(r, ns, refresh)
                                    \/ Delete(r, ns)
    BY <2>1 DEF Put, Get, Delete, Starts
  <2>2. CASE \E prefix \in SearchPrefixes :
                Search(r, prefix) \/ \E depth \in Depths : List(r, prefix, depth)
    BY <2>2 DEF Search, List, Starts
  <2>3. CASE \/ Upload(r) \/ AnswerLost(r) \/ Reread(r) \/ ScanEnds(r) \/ Fails(r) \/ DeleteExpired(r)
             \/ Refresh(r) \/ \E p \in todo[r] : Scan(r, p)
    BY <2>3 DEF Upload, AnswerLost, Uploaded, Reread, ScanEnds, Fails, DeleteExpired, Refresh, Scan, Calls
  <2> QED  BY <1>2, <2>1, <2>2, <2>3 DEF StepOf
<1>3. CASE UNCHANGED vars  BY <1>3 DEF vars
<1>4. CASE Tick  BY <1>4 DEF Tick
<1>5. ASSUME NEW p \in sweeping, Sweep(p) PROVE pc'[r] = pc[r] /\ ask'[r] = ask[r]  BY <1>5 DEF Sweep
<1> QED  BY <1>1, <1>2, <1>3, <1>4, <1>5, NextStepOf

(* How the clients come to know what they know.                            *)
LEMMA TellsStep ==
  ASSUME TypeOK, CallsInv, [Next]_vars, NEW ns \in Namespaces
  PROVE  \/ acked'[ns] \in {acked[ns], None, Unknown}
         \/ \E q \in Requests : /\ acked'[ns] = q /\ pc'[q] = "ok"
                               /\ ask'[q] \in PutAsks /\ ask'[q].ns = ns
<1>s. ASSUME acked' = acked PROVE acked'[ns] = acked[ns]  BY <1>s
<1>t. ASSUME NEW at, NEW val, Told(at, val)
      PROVE  acked'[ns] = acked[ns] \/ (at = ns /\ acked'[ns] = val)
  BY <1>t DEF Told, TypeOK
<1>e. ASSUME NEW q \in Requests, NEW outcome, Ends(q, outcome), pc[q] \in Calls, ask' = ask
      PROVE  \/ acked'[ns] \in {acked[ns], Unknown}
             \/ acked'[ns] = q /\ pc'[q] = "ok" /\ ask'[q] \in PutAsks /\ ask'[q].ns = ns
  <2>1. CASE ask[q].op = "put"
    <3>1. Told(ask[q].ns, IF outcome = "ok" THEN q ELSE Unknown) /\ pc'[q] = outcome
      BY <1>e, <2>1 DEF Ends, Goto, TypeOK
    <3>2. acked'[ns] = acked[ns] \/ (ask[q].ns = ns /\ acked'[ns] = IF outcome = "ok" THEN q ELSE Unknown)
      BY <1>t, <3>1
    <3>3. ask[q] \in Asks  BY <1>e DEF CallsInv, CallOK, Calls
    <3>4. ask[q] \in PutAsks  BY <2>1, <3>3, AskKinds
    <3> QED  BY <1>e, <3>1, <3>2, <3>4
  <2>2. CASE ask[q].op # "put"  BY <1>e, <2>2 DEF Ends
  <2> QED  BY <2>1, <2>2
<1>1. CASE UNCHANGED vars  BY <1>s, <1>1 DEF vars, ghost
<1>2. ASSUME NEW q \in Requests, NEW at \in Namespaces, NEW ttl \in Ttls \union {Never}, Put(q, at, ttl)
      PROVE  \/ acked'[ns] = acked[ns]
             \/ acked'[ns] = q /\ pc'[q] = "ok" /\ ask'[q] \in PutAsks /\ ask'[q].ns = ns
  <2>1. ask'[q] \in PutAsks /\ ask'[q].ns = at  BY <1>2 DEF Put, Starts, PutAsks, TypeOK
  <2>2. acked' = acked \/ (pc'[q] = "ok" /\ Told(at, q))  BY <1>2 DEF Put
  <2> QED  BY <1>s, <1>t, <2>1, <2>2
<1>3. ASSUME NEW q \in Requests, NEW at \in Namespaces, Delete(q, at)
      PROVE  acked'[ns] \in {acked[ns], None}
  BY <1>3, <1>t DEF Delete
<1>4. ASSUME NEW q \in Requests, Upload(q) \/ AnswerLost(q) \/ Reread(q) \/ Fails(q)
      PROVE  \/ acked'[ns] \in {acked[ns], Unknown}
             \/ acked'[ns] = q /\ pc'[q] = "ok" /\ ask'[q] \in PutAsks /\ ask'[q].ns = ns
  <2>1. (Ends(q, "ok") \/ Ends(q, "error")) /\ pc[q] \in Calls /\ ask' = ask
    BY <1>4 DEF Upload, AnswerLost, Uploaded, Reread, Fails, Calls
  <2> QED  BY <1>e, <2>1
<1>5. ASSUME NEW p \in sweeping, Sweep(p) PROVE acked'[ns] \in {acked[ns], Unknown}
  BY <1>5 DEF Sweep
<1>6. ASSUME NEW q \in Requests,
             \/ \E at \in Namespaces : \E refresh \in BOOLEAN : Get(q, at, refresh)
             \/ \E prefix \in SearchPrefixes :
                   Search(q, prefix) \/ \E depth \in Depths : List(q, prefix, depth)
             \/ ScanEnds(q) \/ Refresh(q) \/ DeleteExpired(q) \/ \E p \in todo[q] : Scan(q, p)
      PROVE  acked' = acked
  BY <1>6 DEF Get, Search, List, ScanEnds, Refresh, DeleteExpired, Scan, ghost
<1>7. CASE Tick  BY <1>7 DEF Tick, ghost
<1> QED  BY <1>s, <1>1, <1>2, <1>3, <1>4, <1>5, <1>6, <1>7, NextSteps

LEMMA ToldStep ==
  ASSUME TypeOK, CallsInv, ToldInv, [Next]_vars
  PROVE  ToldInv'
<1> SUFFICES ASSUME NEW ns \in Namespaces, acked'[ns] \in Requests
             PROVE  /\ pc'[acked'[ns]] = "ok" /\ ask'[acked'[ns]] \in PutAsks
                    /\ ask'[acked'[ns]].ns = ns
  BY DEF ToldInv
<1>1. CASE acked'[ns] = acked[ns]
  <2>1. pc[acked[ns]] = "ok" /\ ask[acked[ns]] \in PutAsks /\ ask[acked[ns]].ns = ns
    BY <1>1 DEF ToldInv
  <2> QED  BY <1>1, <2>1, OverKept
<1> QED  BY <1>1, TellsStep, ConstantsAssumption

(* Nobody has looked at a clock that is yet to come.                       *)
LEMMA ReadStep ==
  ASSUME TypeOK, ReadInv, [Next]_vars
  PROVE  ReadInv' /\ now \in Nat /\ now' \in Nat /\ now <= now'
<1>t. now \in Nat /\ MaxTime \in Nat  BY ConstantsAssumption DEF TypeOK
<1>j. \A q \in Requests : judged[q] \in Nat  BY <1>t DEF TypeOK
<1>1. CASE Tick
  <2>1. now' = now + 1 /\ judged' = judged  BY <1>1 DEF Tick, local
  <2> QED  BY <1>t, <1>j, <2>1 DEF ReadInv
<1>2. ASSUME ~Tick PROVE now' = now
  BY <1>2 DEF Next, Put, PutItem, Get, Delete, Search, List, Upload, Uploaded, AnswerLost, Reread,
              Refresh, DeleteExpired, Scan, ScanEnds, Sweep, Fails, vars
<1>3. ASSUME NEW q \in Requests, ~Tick PROVE judged'[q] \in {judged[q], now}
  <2>1. ASSUME judged' = judged PROVE judged'[q] = judged[q]  BY <2>1
  <2>2. ASSUME NEW r \in Requests, NEW ns \in Namespaces, NEW refresh \in BOOLEAN, Get(r, ns, refresh)
        PROVE  judged'[q] \in {judged[q], now}
    BY <2>2 DEF Get, TypeOK
  <2>3. ASSUME NEW r \in Requests, NEW prefix \in SearchPrefixes, Search(r, prefix)
        PROVE  judged'[q] \in {judged[q], now}
    BY <2>3 DEF Search, TypeOK
  <2>4. ASSUME ~(\E r \in Requests, ns \in Namespaces : \E refresh \in BOOLEAN : Get(r, ns, refresh)),
               ~(\E r \in Requests, prefix \in SearchPrefixes : Search(r, prefix))
        PROVE  judged' = judged
    BY <1>3, <2>4 DEF Next, Put, PutItem, Delete, List, Upload, Uploaded, AnswerLost, Reread,
                      Refresh, DeleteExpired, Scan, ScanEnds, Sweep, Fails, vars, local
  <2> QED  BY <2>1, <2>2, <2>3, <2>4
<1>4. CASE ~Tick  BY <1>t, <1>j, <1>2, <1>3, <1>4 DEF ReadInv
<1> QED  BY <1>1, <1>4

(* Only SQL Server reads what it has written.                              *)
LEMMA RereadStep ==
  ASSUME TypeOK, RereadInv, [Next]_vars
  PROVE  RereadInv'
<1> SUFFICES ASSUME NEW r \in Requests, pc'[r] = "reread" PROVE provider = "sqlserver"
  BY ProviderKept DEF RereadInv
<1>1. ASSUME pc'[r] = pc[r] PROVE provider = "sqlserver"  BY <1>1 DEF RereadInv
<1>2. ASSUME NEW q \in Requests, StepOf(q), q # r PROVE provider = "sqlserver"
  BY <1>1, <1>2, StepsSteady DEF Steady
<1>3. ASSUME StepOf(r) PROVE provider = "sqlserver"
  <2>1. ASSUME NEW ns, NEW val, NEW due, PutItem(r, ns, val, due) PROVE provider = "sqlserver"
    BY <2>1 DEF PutItem, Goto, TypeOK
  <2>2. CASE (\E ns \in Namespaces : \E ttl \in Ttls \union {Never} : Put(r, ns, ttl)) \/ Refresh(r)
    BY <2>1, <2>2 DEF Put, Refresh
  <2>3. CASE \E ns \in Namespaces : (\E refresh \in BOOLEAN : Get(r, ns, refresh)) \/ Delete(r, ns)
    BY <2>3 DEF Get, Delete, Goto, TypeOK
  <2>4. CASE \E prefix \in SearchPrefixes :
                Search(r, prefix) \/ \E depth \in Depths : List(r, prefix, depth)
    BY <2>4 DEF Search, List, Goto, TypeOK
  <2>5. CASE Upload(r) \/ AnswerLost(r) \/ Reread(r) \/ ScanEnds(r) \/ Fails(r) \/ DeleteExpired(r)
    BY <2>5 DEF Upload, AnswerLost, Uploaded, Reread, ScanEnds, Fails, DeleteExpired, Ends, Goto, TypeOK
  <2>6. CASE \E p \in todo[r] : Scan(r, p)  BY <1>1, <2>6 DEF Scan
  <2> QED  BY <1>3, <2>2, <2>3, <2>4, <2>5, <2>6 DEF StepOf
<1>4. CASE UNCHANGED vars  BY <1>1, <1>4 DEF vars
<1>5. CASE Tick  BY <1>1, <1>5 DEF Tick
<1>6. ASSUME NEW p \in sweeping, Sweep(p) PROVE provider = "sqlserver"  BY <1>1, <1>6 DEF Sweep
<1> QED  BY <1>2, <1>3, <1>4, <1>5, <1>6, NextStepOf

-----------------------------------------------------------------------------
(***************************************************************************)
(* Clients that wait for each other.                                       *)
(***************************************************************************)

(* Nothing happened to the item of ns.                                     *)
Untouched(ns) ==
    /\ Place(ns) \in DOMAIN items' <=> Place(ns) \in DOMAIN items
    /\ Place(ns) \in DOMAIN items => items'[Place(ns)] = items[Place(ns)]

LEMMA OwnPlace ==
  ASSUME NEW ns \in Namespaces, Own(ns), NEW other \in Namespaces, Place(other) = Place(ns)
  PROVE  other = ns
BY DEF Own

(* The item at its own place is of the namespace.                          *)
LEMMA ItemHere ==
  ASSUME TypeOK, NEW ns \in Namespaces, Own(ns), Place(ns) \in DOMAIN items
  PROVE  items[Place(ns)] \in Items /\ items[Place(ns)].ns = ns
<1>1. items[Place(ns)] \in Items /\ Place(items[Place(ns)].ns) = Place(ns)  BY DEF TypeOK
<1>2. items[Place(ns)].ns \in Namespaces  BY <1>1 DEF Items
<1> QED  BY <1>1, <1>2, OwnPlace

LEMMA PastLater ==
  ASSUME TypeOK, NEW val \in Requests, NEW time \in Nat, NEW later \in Nat, Past(val, time), time <= later
  PROVE  Past(val, later)
<1>1. promised[val] \in Nat  BY DEF TypeOK, Past
<1> QED  BY <1>1 DEF Past

LEMMA StandsKept ==
  ASSUME TypeOK, ReadInv, [Next]_vars, NEW ns \in Namespaces, Stands(ns), Untouched(ns),
         acked'[ns] = acked[ns],
         acked[ns] \in Requests => promised'[acked[ns]] = promised[acked[ns]]
  PROVE  Stands(ns)'
<1>1. provider' = provider /\ KeepsTtl' = KeepsTtl /\ Place(ns)' = Place(ns)
  BY ProviderKept DEF Place
<1>2. now \in Nat /\ now' \in Nat /\ now <= now'  BY ReadStep
<1>3. ASSUME acked[ns] \in Requests, Past(acked[ns], now) PROVE Past(acked[ns], now)'
  <2>1. Past(acked[ns], now')  BY <1>2, <1>3, PastLater
  <2> QED  BY <1>1, <1>3, <2>1 DEF Past
<1>4. acked[ns] = None => Place(ns) \notin DOMAIN items'  BY DEF Stands, Untouched
<1>5. ASSUME acked[ns] \in Requests, Place(ns) \in DOMAIN items'
      PROVE  /\ items'[Place(ns)].val = acked[ns]
             /\ KeepsTtl => items'[Place(ns)].expires = promised'[acked[ns]]
  BY <1>5 DEF Stands, Untouched
<1>6. ASSUME acked[ns] \in Requests, Place(ns) \notin DOMAIN items'  PROVE Past(acked[ns], now)'
  BY <1>3, <1>6 DEF Stands, Untouched
<1> QED  BY <1>1, <1>4, <1>5, <1>6 DEF Stands

(* Something is removed that is not told of, or has expired.               *)
LEMMA StandsRemoved ==
  ASSUME TypeOK, ReadInv, [Next]_vars, NEW ns \in Namespaces, Stands(ns),
         Place(ns) \notin DOMAIN items', acked'[ns] = acked[ns], promised' = promised,
         acked[ns] \in Requests => Past(acked[ns], now)
  PROVE  Stands(ns)'
<1>1. provider' = provider /\ KeepsTtl' = KeepsTtl /\ Place(ns)' = Place(ns)
  BY ProviderKept DEF Place
<1>2. now \in Nat /\ now' \in Nat /\ now <= now'  BY ReadStep
<1>3. ASSUME acked[ns] \in Requests PROVE Past(acked[ns], now)'
  <2>1. Past(acked[ns], now')  BY <1>2, <1>3, PastLater
  <2> QED  BY <1>1, <1>3, <2>1 DEF Past
<1> QED  BY <1>1, <1>3 DEF Stands

(* An expired item that stands is past its expiry.                         *)
LEMMA ExpiredPast ==
  ASSUME TypeOK, HonestInv, NEW ns \in Namespaces, Stands(ns), acked[ns] \in Requests,
         Place(ns) \in DOMAIN items, NEW time, ExpiredAt(items[Place(ns)], time)
  PROVE  Past(acked[ns], time)
<1>1. items[Place(ns)].expires # Never  BY DEF ExpiredAt
<1>2. KeepsTtl  BY <1>1 DEF HonestInv
<1>3. items[Place(ns)].expires = promised[acked[ns]]  BY <1>2 DEF Stands
<1> QED  BY <1>1, <1>2, <1>3 DEF ExpiredAt, Past

(* A current value that stands is stored and has not expired.              *)
LEMMA CurrentStands ==
  ASSUME TypeOK, HonestInv, NEW ns \in Namespaces, Stands(ns), NEW time \in Nat, time >= now,
         Current(acked[ns], time)
  PROVE  /\ acked[ns] \in Requests /\ Place(ns) \in DOMAIN items
         /\ items[Place(ns)].val = acked[ns]
         /\ \A earlier \in Nat : earlier <= time => ~ExpiredAt(items[Place(ns)], earlier)
<1>1. acked[ns] \in Requests  BY DEF Current
<1>2. now \in Nat  BY ConstantsAssumption DEF TypeOK
<1>3. promised[acked[ns]] \in Nat \union {Never}  BY <1>1 DEF TypeOK
<1>4. ASSUME NEW earlier \in Nat, earlier <= time PROVE ~Past(acked[ns], earlier)
  BY <1>3, <1>4 DEF Past, Current
<1>5. Place(ns) \in DOMAIN items  BY <1>1, <1>2, <1>4 DEF Stands
<1>6. items[Place(ns)].val = acked[ns]  BY <1>1, <1>5 DEF Stands
<1> QED  BY <1>1, <1>4, <1>5, <1>6, ExpiredPast

(* A write of another namespace, and one of this.                          *)
LEMMA WriteElsewhere ==
  ASSUME TypeOK, PlacedInv, ToldInv, NEW q, NEW at, NEW val, NEW due, Writes(q, at, val, due),
         NEW ns \in Namespaces, Own(ns), ns # at
  PROVE  Untouched(ns) /\ (acked[ns] \in Requests => promised'[acked[ns]] = promised[acked[ns]])
<1>1. at \in Namespaces /\ Place(at) # Place(ns)  BY OwnPlace DEF Writes
<1>2. Untouched(ns)  BY <1>1 DEF Writes, Stored, Untouched
<1>3. ASSUME acked[ns] \in Requests PROVE acked[ns] # val
  <2>1. pc[acked[ns]] = "ok" /\ ask[acked[ns]].ns = ns  BY <1>3 DEF ToldInv
  <2>2. CASE val = q /\ pc[q] \in {"new", "upload"}  BY <2>1, <2>2
  <2>3. CASE ask[q] \in GetAsks /\ ask' = ask /\ seen[q] \in Items /\ seen[q].val = val
    <3>1. seen[q] # None  BY <2>3, NoneAssumption
    <3>2. PutAt(val, Place(ask[q].ns))  BY <2>3, <3>1 DEF PlacedInv, Writes
    <3>3. Place(ask[val].ns) = Place(at)  BY <2>3, <3>2 DEF PutAt, Writes
    <3> QED  BY <1>1, <2>1, <3>3
  <2> QED  BY <2>2, <2>3 DEF Writes
<1>4. acked[ns] \in Requests => promised'[acked[ns]] = promised[acked[ns]]
  BY <1>3 DEF Writes, TypeOK
<1> QED  BY <1>2, <1>4

LEMMA WriteHere ==
  ASSUME TypeOK, [Next]_vars, NEW q, NEW ns \in Namespaces, NEW val, NEW due, Writes(q, ns, val, due),
         acked'[ns] \in {val, Unknown}
  PROVE  Stands(ns)'
<1>1. provider' = provider /\ KeepsTtl' = KeepsTtl /\ Place(ns)' = Place(ns)
  BY ProviderKept DEF Place
<1>2. Place(ns) \in DOMAIN items' /\ items'[Place(ns)].val = val /\ items'[Place(ns)].expires = Expiry(due)
  BY DEF Writes, Stored
<1>3. promised'[val] = due /\ val \in Requests  BY DEF Writes, TypeOK
<1>4. KeepsTtl => Expiry(due) = due  BY DEF KeepsTtl, Expiry, Sql
<1>5. acked'[ns] # None  BY <1>3, ConstantsAssumption
<1>6. acked'[ns] \in Requests => acked'[ns] = val  BY ConstantsAssumption
<1> QED  BY <1>1, <1>2, <1>3, <1>4, <1>5, <1>6 DEF Stands

(* Where the request that has taken a step stands.                         *)
FollowsThen(q) ==
    /\ pc'[q] \in {"scan", "deleteExpired"} => promised' = promised /\ now' = now
    /\ pc'[q] = "reread" /\ ask'[q] \in PutAsks
          => Place(ask'[q].ns) \in DOMAIN items' /\ items'[Place(ask'[q].ns)].val = q
    /\ ask'[q] \in GetAsks /\ Own(ask'[q].ns) =>
          /\ pc'[q] \in {"refresh", "upload", "reread"} => acked'[ask'[q].ns] \in {seen'[q].val, Unknown}
          /\ pc'[q] = "deleteExpired" =>
                /\ seen'[q] = None
                /\ acked'[ask'[q].ns] # None
                /\ acked'[ask'[q].ns] \in Requests => Past(acked'[ask'[q].ns], judged'[q])
    /\ pc'[q] = "scan" /\ ask'[q] \in SearchAsks =>
          \A ns \in Namespaces :
              /\ Own(ns) /\ (provider = "azure" => Joined(ns) # <<>>)
              /\ IsPrefix(ask'[q].prefix, ns)
              /\ Current(acked'[ns], now)
              => \/ Place(ns) \in todo'[q]
                 \/ \E item \in found'[q] : item.ns = ns /\ item.val = acked'[ns]

LEMMA FollowsLater ==
  ASSUME TypeOK, [Next]_vars, NEW q \in Requests, FollowsThen(q)
  PROVE  Follows(q)'
<1>p. provider' = provider /\ KeepsTtl' = KeepsTtl  BY ProviderKept
<1>1. ASSUME pc'[q] = "reread" /\ ask'[q] \in PutAsks
      PROVE  (Place(ask[q].ns) \in DOMAIN items /\ items[Place(ask[q].ns)].val = q)'
  BY <1>p, <1>1 DEF FollowsThen, Place
<1>2. ASSUME ask'[q] \in GetAsks, Own(ask[q].ns)', pc'[q] \in {"refresh", "upload", "reread"}
      PROVE  acked'[ask'[q].ns] \in {seen'[q].val, Unknown}
  BY <1>p, <1>2 DEF FollowsThen, Own, Place
<1>3. ASSUME ask'[q] \in GetAsks, Own(ask[q].ns)', pc'[q] = "deleteExpired"
      PROVE  /\ seen'[q] = None
             /\ acked'[ask'[q].ns] # None
             /\ acked'[ask'[q].ns] \in Requests => Past(acked[ask[q].ns], judged[q])'
  <2>1. Own(ask'[q].ns)  BY <1>p, <1>3 DEF Own, Place
  <2>2. promised' = promised  BY <1>3 DEF FollowsThen
  <2> QED  BY <1>p, <1>3, <2>1, <2>2 DEF FollowsThen, Past
<1>4. ASSUME pc'[q] = "scan", ask'[q] \in SearchAsks, NEW ns \in Namespaces, Sought(q, ns)'
      PROVE  InReach(q, ns)'
  <2>1. promised' = promised /\ now' = now  BY <1>4 DEF FollowsThen
  <2>2. Own(ns) /\ (provider = "azure" => Joined(ns) # <<>>) /\ IsPrefix(ask'[q].prefix, ns)
    BY <1>p, <1>4 DEF Sought, Own, Place
  <2>3. Current(acked'[ns], now)  BY <1>p, <1>4, <2>1 DEF Sought, Current
  <2> QED  BY <1>p, <1>4, <2>2, <2>3 DEF FollowsThen, InReach, Place
<1> QED  BY <1>1, <1>2, <1>3, <1>4 DEF Follows

(* A request that does not write, or asks for something else, or is over.  *)
LEMMA Unwritten ==
  ASSUME NEW q \in Requests, Alone(q), pc[q] # "reread" \/ ask[q] \notin PutAsks, NEW ns
  PROVE  ~Writing(ns)
BY DEF Alone, Writing, Calls

LEMMA AllStand ==
  ASSUME LastInv, Serial, NEW q \in Requests, Alone(q), pc[q] # "reread" \/ ask[q] \notin PutAsks
  PROVE  \A ns \in Namespaces : Own(ns) => Stands(ns)
BY Unwritten DEF LastInv

(* What holds of the namespaces, and of the request, after a step.         *)
AllStandThen == \A ns \in Namespaces : Own(ns) /\ ~Writing(ns)' => Stands(ns)'

LEMMA StandQuietly ==
  ASSUME AnswersInv, [Next]_vars, Serial, NEW q \in Requests, Alone(q),
         pc[q] # "reread" \/ ask[q] \notin PutAsks,
         items' = items, acked' = acked, promised' = promised
  PROVE  AllStandThen
<1> SUFFICES ASSUME NEW ns \in Namespaces, Own(ns) PROVE Stands(ns)'  BY DEF AllStandThen
<1>1. Stands(ns)  BY AllStand DEF AnswersInv
<1>2. Untouched(ns)  BY DEF Untouched
<1> QED  BY <1>1, <1>2, StandsKept DEF AnswersInv, ItemsInv

LEMMA LastPut ==
  ASSUME AnswersInv, [Next]_vars, Serial, NEW q \in Requests, Alone(q),
         NEW at \in Namespaces, NEW ttl \in Ttls \union {Never}, Put(q, at, ttl)
  PROVE  AllStandThen /\ FollowsThen(q)
<1>i. TypeOK /\ CallsInv /\ PlacedInv /\ ToldInv /\ ReadInv  BY DEF AnswersInv, ItemsInv
<1>1. /\ pc[q] = "new" /\ ask'[q].op = "put" /\ ask'[q].ns = at /\ ask'[q] \in PutAsks
      /\ ask'[q] \notin GetAsks \union SearchAsks
  <2>1. pc[q] = "new" /\ ask'[q] = [op |-> "put", ns |-> at, ttl |-> ttl]
    BY <1>i, StartsAsking DEF Put
  <2> QED  BY <2>1 DEF PutAsks, GetAsks, SearchAsks
<1>s. \A ns \in Namespaces : Own(ns) => Stands(ns)  BY <1>1, AllStand DEF AnswersInv
<1>q. ASSUME NEW ns \in Namespaces, acked[ns] \in Requests PROVE acked[ns] # q
  BY <1>1, <1>q, <1>i DEF ToldInv
<1>2. CASE provider = "azure"
  <2>1. /\ items' = items /\ pc'[q] = "upload" /\ acked' = acked
        /\ promised' = [promised EXCEPT ![q] = Due(ttl)]
    BY <1>i, <1>2 DEF Put, PutItem, Goto, TypeOK
  <2>2. FollowsThen(q)  BY <1>1, <2>1 DEF FollowsThen
  <2>3. ASSUME NEW ns \in Namespaces, Own(ns) PROVE Stands(ns)'
    <3>1. Untouched(ns) /\ acked'[ns] = acked[ns]  BY <2>1 DEF Untouched
    <3>2. acked[ns] \in Requests => promised'[acked[ns]] = promised[acked[ns]]
      BY <1>i, <1>q, <2>1 DEF TypeOK
    <3> QED  BY <1>i, <1>s, <2>3, <3>1, <3>2, StandsKept
  <2> QED  BY <2>2, <2>3 DEF AllStandThen
<1>3. CASE provider # "azure"
  <2>1. Writes(q, at, q, Due(ttl))  BY <1>i, <1>3, PutWrites
  <2>2. /\ pc'[q] = IF provider = "sqlserver" THEN "reread" ELSE "ok"
        /\ IF pc'[q] = "ok" THEN Told(at, q) ELSE acked' = acked
    BY <1>i, <1>3 DEF Put, PutItem, Goto, TypeOK
  <2>3. Place(at) \in DOMAIN items' /\ items'[Place(at)].val = q  BY <2>1 DEF Writes, Stored
  <2>4. FollowsThen(q)  BY <1>1, <2>2, <2>3 DEF FollowsThen
  <2>5. ASSUME NEW ns \in Namespaces, Own(ns), ~Writing(ns)' PROVE Stands(ns)'
    <3>1. CASE ns = at
      <4>1. pc'[q] = "ok"  BY <1>1, <2>2, <2>5, <3>1 DEF Writing
      <4>2. acked'[at] = q  BY <1>i, <2>2, <4>1 DEF Told, TypeOK
      <4> QED  BY <1>i, <2>1, <3>1, <4>2, WriteHere
    <3>2. CASE ns # at
      <4>1. acked'[ns] = acked[ns]  BY <1>i, <2>2, <3>2 DEF Told, TypeOK
      <4>2. Untouched(ns) /\ (acked[ns] \in Requests => promised'[acked[ns]] = promised[acked[ns]])
        BY <1>i, <2>1, <2>5, <3>2, WriteElsewhere
      <4> QED  BY <1>i, <1>s, <2>5, <4>1, <4>2, StandsKept
    <3> QED  BY <3>1, <3>2
  <2> QED  BY <2>4, <2>5 DEF AllStandThen
<1> QED  BY <1>2, <1>3

(* A get stores again what it has read, if the clients know it still.      *)
LEMMA LastRewrite ==
  ASSUME AnswersInv, [Next]_vars, Serial, NEW q \in Requests, Alone(q),
         pc[q] \in {"refresh", "upload"}, ask[q] \in GetAsks, acked' = acked,
         NEW due, Writes(q, ask[q].ns, seen[q].val, due)
  PROVE  AllStandThen
<1>i. TypeOK /\ CallsInv /\ PlacedInv /\ ToldInv /\ ReadInv  BY DEF AnswersInv, ItemsInv
<1>s. \A ns \in Namespaces : Own(ns) => Stands(ns)  BY AllStand DEF AnswersInv
<1>a. ask[q].ns \in Namespaces  BY DEF GetAsks
<1>1. ASSUME NEW ns \in Namespaces, Own(ns) PROVE Stands(ns)'
  <2>1. CASE ns = ask[q].ns
    <3>1. acked[ns] \in {seen[q].val, Unknown}
      BY <1>1, <2>1 DEF AnswersInv, LastInv, Follows
    <3> QED  BY <1>i, <2>1, <3>1, WriteHere
  <2>2. CASE ns # ask[q].ns
    <3>1. Untouched(ns) /\ (acked[ns] \in Requests => promised'[acked[ns]] = promised[acked[ns]])
      BY <1>i, <1>1, <2>2, WriteElsewhere
    <3> QED  BY <1>i, <1>s, <1>1, <3>1, StandsKept
  <2> QED  BY <2>1, <2>2
<1> QED  BY <1>1 DEF AllStandThen

LEMMA LastRefresh ==
  ASSUME AnswersInv, [Next]_vars, Serial, NEW q \in Requests, Alone(q), Refresh(q)
  PROVE  AllStandThen /\ FollowsThen(q)
<1>i. TypeOK /\ CallsInv  BY DEF AnswersInv, ItemsInv
<1>1. /\ pc[q] = "refresh" /\ ask[q] \in GetAsks /\ ask'[q] = ask[q] /\ seen'[q] = seen[q]
      /\ acked' = acked /\ pc'[q] \in {"upload", "reread", "ok"}
  BY <1>i DEF Refresh, PutItem, Goto, CallsInv, CallOK, TypeOK
<1>2. FollowsThen(q)
  <2>1. ask'[q] \notin PutAsks \union SearchAsks  BY <1>1 DEF GetAsks, PutAsks, SearchAsks
  <2>2. Own(ask[q].ns) => acked[ask[q].ns] \in {seen[q].val, Unknown}
    BY <1>1 DEF AnswersInv, LastInv, Follows
  <2> QED  BY <1>1, <2>1, <2>2 DEF FollowsThen
<1>3. CASE provider = "azure"
  <2>1. items' = items /\ promised' = promised  BY <1>3 DEF Refresh, PutItem
  <2> QED  BY <1>1, <1>2, <2>1, StandQuietly
<1>4. CASE provider # "azure"
  <2>1. Writes(q, ask[q].ns, seen[q].val, Never)  BY <1>i, <1>4, RefreshWrites
  <2> QED  BY <1>1, <1>2, <2>1, LastRewrite
<1> QED  BY <1>3, <1>4

LEMMA LastUpload ==
  ASSUME AnswersInv, [Next]_vars, Serial, NEW q \in Requests, Alone(q), Upload(q) \/ AnswerLost(q)
  PROVE  AllStandThen /\ FollowsThen(q)
<1>i. TypeOK /\ CallsInv /\ PlacedInv /\ ToldInv /\ ReadInv  BY DEF AnswersInv, ItemsInv
<1>1. /\ pc[q] = "upload" /\ pc'[q] \in {"ok", "error"} /\ ask' = ask
      /\ IF ask[q].op = "put" THEN Told(ask[q].ns, q) \/ Told(ask[q].ns, Unknown) ELSE acked' = acked
  BY <1>i DEF Upload, AnswerLost, Uploaded, Ends, Goto, TypeOK
<1>2. FollowsThen(q)  BY <1>1 DEF FollowsThen
<1>3. ask[q] \in PutAsks \union GetAsks  BY <1>i, <1>1 DEF CallsInv, CallOK
<1>s. \A ns \in Namespaces : Own(ns) => Stands(ns)  BY <1>1, AllStand DEF AnswersInv
<1>4. CASE ask[q].op = "put"
  <2>1. Writes(q, ask[q].ns, q, expires[q])  BY <1>i, <1>4, UploadWrites
  <2>2. ASSUME NEW ns \in Namespaces, Own(ns) PROVE Stands(ns)'
    <3>1. CASE ns = ask[q].ns
      <4>1. acked'[ns] \in {q, Unknown}  BY <1>i, <1>1, <1>4, <3>1 DEF Told, TypeOK
      <4> QED  BY <1>i, <2>1, <3>1, <4>1, WriteHere
    <3>2. CASE ns # ask[q].ns
      <4>1. acked'[ns] = acked[ns]  BY <1>i, <1>1, <1>4, <3>2 DEF Told, TypeOK
      <4>2. Untouched(ns) /\ (acked[ns] \in Requests => promised'[acked[ns]] = promised[acked[ns]])
        BY <1>i, <2>1, <2>2, <3>2, WriteElsewhere
      <4> QED  BY <1>i, <1>s, <2>2, <4>1, <4>2, StandsKept
    <3> QED  BY <3>1, <3>2
  <2> QED  BY <1>2, <2>2 DEF AllStandThen
<1>5. CASE ask[q].op # "put"
  <2>1. Writes(q, ask[q].ns, seen[q].val, expires[q])  BY <1>i, <1>5, UploadWrites
  <2>2. ask[q] \in GetAsks /\ acked' = acked  BY <1>1, <1>3, <1>5 DEF PutAsks
  <2> QED  BY <1>1, <1>2, <2>1, <2>2, LastRewrite
<1> QED  BY <1>4, <1>5

LEMMA LastEnds ==
  ASSUME AnswersInv, [Next]_vars, Serial, NEW q \in Requests, Alone(q),
         Reread(q) \/ ScanEnds(q) \/ Fails(q)
  PROVE  AllStandThen /\ FollowsThen(q)
<1>i. TypeOK /\ CallsInv /\ PlacedInv /\ ToldInv /\ ReadInv  BY DEF AnswersInv, ItemsInv
<1>1. /\ pc[q] \in Calls /\ pc'[q] \in {"ok", "error"}
      /\ items' = items /\ ask' = ask /\ promised' = promised
  BY <1>i DEF Reread, ScanEnds, Fails, Ends, Goto, Calls, ghost, TypeOK
<1>2. FollowsThen(q)  BY <1>1 DEF FollowsThen
<1>3. IF ask[q].op = "put" THEN \/ Told(ask[q].ns, q) /\ pc[q] = "reread" 
                                \/ Told(ask[q].ns, Unknown)
                                \/ acked' = acked /\ pc[q] = "scan"
      ELSE acked' = acked
  BY DEF Reread, ScanEnds, Fails, Ends, ghost
<1>4. ask[q] \in Asks  BY <1>i, <1>1 DEF CallsInv, CallOK, Calls
<1>5. CASE acked' = acked /\ ask[q] \notin PutAsks
  BY <1>1, <1>2, <1>5, StandQuietly
<1>6. CASE ask[q] \in PutAsks
  <2>1. ask[q].op = "put" /\ pc[q] # "scan"
    BY <1>i, <1>6, AskKinds, <1>4 DEF CallsInv, CallOK, PutAsks, SearchAsks, ListAsks
  <2>2. (Told(ask[q].ns, q) /\ pc[q] = "reread") \/ Told(ask[q].ns, Unknown)
    BY <1>3, <2>1
  <2>3. ASSUME NEW ns \in Namespaces, Own(ns) PROVE Stands(ns)'
    <3>1. Untouched(ns)  BY <1>1 DEF Untouched
    <3>2. CASE ns # ask[q].ns
      <4>1. acked'[ns] = acked[ns]  BY <1>i, <2>2, <3>2 DEF Told, TypeOK
      <4>2. ~Writing(ns)  BY <3>2 DEF Writing, Alone, Calls
      <4>3. Stands(ns)  BY <2>3, <4>2 DEF AnswersInv, LastInv
      <4> QED  BY <1>1, <1>i, <3>1, <4>1, <4>3, StandsKept
    <3>3. CASE ns = ask[q].ns
      <4>1. \/ acked'[ns] = q /\ pc[q] = "reread"
            \/ acked'[ns] = Unknown
        BY <1>i, <2>2, <3>3 DEF Told, TypeOK
      <4>2. CASE acked'[ns] = Unknown
        BY <4>2, ConstantsAssumption DEF Stands
      <4>3. CASE acked'[ns] = q /\ pc[q] = "reread"
        <5>1. Place(ns) \in DOMAIN items' /\ items'[Place(ns)].val = q
          BY <1>1, <1>6, <3>3, <4>3 DEF AnswersInv, LastInv, Follows
        <5>2. ~KeepsTtl  BY <4>3 DEF AnswersInv, RereadInv, KeepsTtl
        <5>3. provider' = provider /\ KeepsTtl' = KeepsTtl /\ Place(ns)' = Place(ns)
          BY <1>i, ProviderKept DEF Place
        <5>4. acked'[ns] # None  BY <4>3, ConstantsAssumption
        <5> QED  BY <4>3, <5>1, <5>2, <5>3, <5>4 DEF Stands
      <4> QED  BY <4>1, <4>2, <4>3
    <3> QED  BY <3>2, <3>3
  <2> QED  BY <1>2, <2>3 DEF AllStandThen
<1> QED  BY <1>3, <1>4, <1>5, <1>6, AskKinds

(* A place is emptied that nobody was told of, or whose item has expired.  *)
LEMMA StandWithout ==
  ASSUME AnswersInv, [Next]_vars, Serial, NEW q \in Requests, Alone(q),
         pc[q] # "reread" \/ ask[q] \notin PutAsks, promised' = promised, acked' = acked,
         NEW places, items' = Without(places),
         \A ns \in Namespaces : Own(ns) /\ Place(ns) \in places /\ acked[ns] \in Requests
             => Past(acked[ns], now)
  PROVE  AllStandThen
<1>i. TypeOK /\ ReadInv  BY DEF AnswersInv, ItemsInv
<1>1. ASSUME NEW ns \in Namespaces, Own(ns) PROVE Stands(ns)'
  <2>1. Stands(ns)  BY <1>1, AllStand DEF AnswersInv
  <2>2. CASE Place(ns) \in places
    <3>1. Place(ns) \notin DOMAIN items'  BY <2>2, RemovedItems
    <3> QED  BY <1>1, <1>i, <2>1, <2>2, <3>1, StandsRemoved
  <2>3. CASE Place(ns) \notin places
    <3>1. Untouched(ns)  BY <2>3, RemovedItems DEF Untouched
    <3> QED  BY <1>i, <2>1, <3>1, StandsKept
  <2> QED  BY <2>2, <2>3
<1> QED  BY <1>1 DEF AllStandThen

LEMMA LastDelete ==
  ASSUME AnswersInv, [Next]_vars, Serial, NEW q \in Requests, Alone(q),
         NEW at \in Namespaces, Delete(q, at)
  PROVE  AllStandThen /\ FollowsThen(q)
<1>i. TypeOK /\ ReadInv  BY DEF AnswersInv, ItemsInv
<1>1. /\ pc[q] = "new" /\ pc'[q] = "ok" /\ items' = Without({Place(at)}) /\ promised' = promised
  BY <1>i, StartsAsking DEF Delete, Goto, TypeOK
<1>2. acked'[at] = None /\ \A ns \in Namespaces \ {at} : acked'[ns] = acked[ns]
  BY <1>i DEF Delete, Told, TypeOK
<1>3. FollowsThen(q)  BY <1>1 DEF FollowsThen
<1>4. ASSUME NEW ns \in Namespaces, Own(ns) PROVE Stands(ns)'
  <2>1. CASE ns = at
    <3>1. Place(at) \notin DOMAIN items'  BY <1>1, RemovedItems
    <3>2. Place(at)' = Place(at)  BY <1>i, ProviderKept DEF Place
    <3>3. acked'[at] \notin Requests  BY <1>2, ConstantsAssumption
    <3> QED  BY <2>1, <3>1, <3>2, <3>3 DEF Stands
  <2>2. CASE ns # at
    <3>1. Place(ns) # Place(at)  BY <1>4, <2>2, OwnPlace
    <3>2. Untouched(ns)  BY <1>1, <3>1, RemovedItems DEF Untouched
    <3>3. Stands(ns)  BY <1>1, <1>4, AllStand DEF AnswersInv
    <3> QED  BY <1>1, <1>2, <1>i, <2>2, <3>2, <3>3, StandsKept
  <2> QED  BY <2>1, <2>2
<1> QED  BY <1>3, <1>4 DEF AllStandThen

LEMMA LastGet ==
  ASSUME AnswersInv, [Next]_vars, Serial, NEW q \in Requests, Alone(q),
         NEW at \in Namespaces, NEW refresh \in BOOLEAN, Get(q, at, refresh)
  PROVE  AllStandThen /\ FollowsThen(q)
<1>i. TypeOK /\ ReadInv /\ HonestInv  BY DEF AnswersInv, ItemsInv
<1> DEFINE item  == ItemAt(Place(at))
           stale == item # None /\ Expired(item)
<1>1. /\ pc[q] = "new" /\ ask'[q].op = "get" /\ ask'[q].ns = at
      /\ ask'[q] \notin PutAsks \union SearchAsks
  <2>1. pc[q] = "new" /\ ask'[q] = [op |-> "get", ns |-> at, refresh |-> refresh]
    BY <1>i, StartsAsking DEF Get
  <2> QED  BY <2>1 DEF PutAsks, SearchAsks
<1>2. /\ promised' = promised /\ acked' = acked /\ now' = now /\ judged'[q] = now
      /\ seen'[q] = IF stale THEN None ELSE item
      /\ pc'[q] = CASE stale /\ provider = "azure"      -> "deleteExpired"
                    [] item # None /\ ~stale /\ refresh -> "refresh"
                    [] OTHER                            -> "ok"
      /\ items' = IF stale /\ provider = "memory" THEN Without({Place(at)}) ELSE items
  BY <1>i DEF Get, Goto, ghost, TypeOK
<1>3. ASSUME item # None PROVE Place(at) \in DOMAIN items /\ item = items[Place(at)]
  BY <1>3 DEF ItemAt
<1>s. Own(at) => Stands(at)  BY <1>1, AllStand DEF AnswersInv
<1>4. ASSUME stale, Own(at), acked[at] \in Requests PROVE Past(acked[at], now)
  BY <1>i, <1>3, <1>4, <1>s, ExpiredPast DEF Expired
<1>5. ASSUME item # None, Own(at)
      PROVE  acked[at] # None /\ (acked[at] \in Requests => item.val = acked[at])
  BY <1>3, <1>5, <1>s DEF Stands
<1>6. acked[at] \in Requests \union {None, Unknown}  BY <1>i DEF TypeOK
<1> HIDE DEF item, stale
<1>7. FollowsThen(q)
  <2>1. pc'[q] \in {"deleteExpired", "refresh", "ok"}  BY <1>2
  <2>2. pc'[q] = "deleteExpired" => stale  BY <1>2
  <2>3. pc'[q] = "refresh" => item # None /\ ~stale  BY <1>2
  <2>4. stale => item # None  BY DEF stale
  <2> QED  BY <1>1, <1>2, <1>4, <1>5, <1>6, <2>1, <2>2, <2>3, <2>4 DEF FollowsThen
<1>8. AllStandThen
  <2>1. CASE items' = items  BY <1>1, <1>2, <2>1, StandQuietly
  <2>2. CASE items' # items
    <3>1. stale /\ items' = Without({Place(at)})  BY <1>2, <2>2
    <3>2. \A ns \in Namespaces : Own(ns) /\ Place(ns) \in {Place(at)} => ns = at  BY OwnPlace
    <3> QED  BY <1>1, <1>2, <1>4, <3>1, <3>2, StandWithout
  <2> QED  BY <2>1, <2>2
<1> QED  BY <1>7, <1>8

LEMMA LastDeleteExpired ==
  ASSUME AnswersInv, [Next]_vars, Serial, NEW q \in Requests, Alone(q), DeleteExpired(q)
  PROVE  AllStandThen /\ FollowsThen(q)
<1>i. TypeOK /\ CallsInv /\ ReadInv  BY DEF AnswersInv, ItemsInv
<1>1. /\ pc[q] = "deleteExpired" /\ pc'[q] = "ok" /\ items' = Without({Place(ask[q].ns)})
      /\ promised' = promised /\ acked' = acked
  BY <1>i DEF DeleteExpired, Goto, ghost, TypeOK
<1>2. FollowsThen(q)  BY <1>1 DEF FollowsThen
<1>3. ask[q] \in GetAsks /\ ask[q].ns \in Namespaces  BY <1>1, <1>i DEF CallsInv, CallOK, GetAsks
<1>4. ASSUME NEW ns \in Namespaces, Own(ns), Place(ns) \in {Place(ask[q].ns)}, acked[ns] \in Requests
      PROVE  Past(acked[ns], now)
  <2>1. ns = ask[q].ns  BY <1>3, <1>4, OwnPlace
  <2>2. Past(acked[ns], judged[q])
    BY <1>1, <1>3, <1>4, <2>1 DEF AnswersInv, LastInv, Follows
  <2>3. judged[q] \in Nat /\ now \in Nat /\ judged[q] <= now
    BY <1>i, ConstantsAssumption DEF TypeOK, ReadInv
  <2> QED  BY <1>4, <1>i, <2>2, <2>3, PastLater
<1> QED  BY <1>1, <1>2, <1>4, StandWithout

(* A search looks at all that it should find, ...                          *)
LEMMA SearchLooks ==
  ASSUME TypeOK, NEW prefix \in SearchPrefixes, NEW ns \in Namespaces, Own(ns),
         provider = "azure" => Joined(ns) # <<>>, IsPrefix(prefix, ns), Place(ns) \in DOMAIN items
  PROVE  UnderPrefix(items[Place(ns)].ns, prefix)
<1>1. items[Place(ns)].ns = ns  BY ItemHere
<1> QED  BY <1>1, PrefixLooked DEF TypeOK

LEMMA LastSearch ==
  ASSUME AnswersInv, [Next]_vars, Serial, NEW q \in Requests, Alone(q),
         NEW prefix \in SearchPrefixes, Search(q, prefix)
  PROVE  AllStandThen /\ FollowsThen(q)
<1>i. TypeOK /\ ReadInv /\ HonestInv  BY DEF AnswersInv, ItemsInv
<1>1. pc[q] = "new" /\ ask'[q].prefix = prefix /\ ask'[q] \notin PutAsks \union GetAsks
  <2>1. pc[q] = "new" /\ ask'[q] = [op |-> "search", prefix |-> prefix]
    BY <1>i, StartsAsking DEF Search
  <2> QED  BY <2>1 DEF PutAsks, GetAsks
<1>2. promised' = promised /\ acked' = acked /\ now' = now  BY DEF Search, ghost
<1>s. \A ns \in Namespaces : Own(ns) => Stands(ns)  BY <1>1, AllStand DEF AnswersInv
<1>3. CASE provider = "azure"
  <2>1. /\ pc'[q] = "scan" /\ items' = items
        /\ todo'[q] = {p \in DOMAIN items : UnderPrefix(items[p].ns, prefix)}
    BY <1>i, <1>3 DEF Search, Goto, TypeOK
  <2>2. ASSUME NEW ns \in Namespaces, Own(ns), Joined(ns) # <<>>, IsPrefix(prefix, ns), Current(acked[ns], now)
        PROVE  Place(ns) \in todo'[q]
    <3>1. now \in Nat /\ now >= now  BY <1>i, ConstantsAssumption DEF TypeOK
    <3>2. Place(ns) \in DOMAIN items  BY <1>i, <1>s, <2>2, <3>1, CurrentStands
    <3>3. UnderPrefix(items[Place(ns)].ns, prefix)  BY <1>i, <2>2, <3>2, SearchLooks
    <3> QED  BY <2>1, <3>2, <3>3
  <2>3. FollowsThen(q)  BY <1>1, <1>2, <1>3, <2>1, <2>2 DEF FollowsThen
  <2> QED  BY <1>1, <1>2, <2>1, <2>3, StandQuietly
<1>4. CASE provider # "azure"
  <2>1. pc'[q] = "ok" /\ items' = Restrict(items, Live)  BY <1>i, <1>4 DEF Search, Goto, TypeOK
  <2>2. FollowsThen(q)  BY <2>1 DEF FollowsThen
  <2>3. items' = Without(DOMAIN items \ Live)
    <3>1. Live = DOMAIN items \ (DOMAIN items \ Live)  BY DEF Live
    <3> QED  BY <2>1, <3>1 DEF Without
  <2>4. ASSUME NEW ns \in Namespaces, Own(ns), Place(ns) \in DOMAIN items \ Live, acked[ns] \in Requests
        PROVE  Past(acked[ns], now)
    BY <1>i, <1>s, <2>4, ExpiredPast DEF Live, Expired
  <2> QED  BY <1>1, <1>2, <2>2, <2>3, <2>4, StandWithout
<1> QED  BY <1>3, <1>4

LEMMA LastList ==
  ASSUME AnswersInv, [Next]_vars, Serial, NEW q \in Requests, Alone(q),
         NEW prefix \in SearchPrefixes, NEW depth \in Depths, List(q, prefix, depth)
  PROVE  AllStandThen /\ FollowsThen(q)
<1>i. TypeOK  BY DEF AnswersInv, ItemsInv
<1>1. pc[q] = "new" /\ ask'[q] \notin PutAsks \union GetAsks \union SearchAsks
  <2>1. pc[q] = "new" /\ ask'[q] = [op |-> "list", prefix |-> prefix, depth |-> depth]
    BY <1>i, StartsAsking DEF List
  <2> QED  BY <2>1 DEF PutAsks, GetAsks, SearchAsks
<1>2. promised' = promised /\ acked' = acked /\ now' = now /\ items' = items  BY DEF List, ghost
<1>3. FollowsThen(q)  BY <1>1, <1>2 DEF FollowsThen
<1> QED  BY <1>1, <1>2, <1>3, StandQuietly

(* ... and finds what has not expired.                                     *)
LEMMA LastScan ==
  ASSUME AnswersInv, [Next]_vars, Serial, NEW q \in Requests, Alone(q), NEW p \in todo[q], Scan(q, p)
  PROVE  AllStandThen /\ FollowsThen(q)
<1>i. TypeOK /\ CallsInv /\ ReadInv /\ HonestInv  BY DEF AnswersInv, ItemsInv
<1>1. /\ pc[q] = "scan" /\ pc' = pc /\ ask' = ask /\ items' = items
      /\ promised' = promised /\ acked' = acked /\ now' = now
      /\ todo'[q] = todo[q] \ {p}
  BY <1>i DEF Scan, ghost, TypeOK
<1>2. found[q] \subseteq found'[q]  BY <1>i DEF Scan, TypeOK
<1>s. \A ns \in Namespaces : Own(ns) => Stands(ns)  BY <1>1, AllStand DEF AnswersInv
<1>3. ASSUME ask[q] \in SearchAsks, ItemAt(p) # None, ~ExpiredAt(ItemAt(p), judged[q])
      PROVE  ItemAt(p) \in found'[q]
  <2>1. ask[q].op = "search"  BY <1>3 DEF SearchAsks
  <2> QED  BY <1>i, <1>3, <2>1 DEF Scan, TypeOK
<1>4. ASSUME ask[q] \in SearchAsks, NEW ns \in Namespaces, Own(ns), provider = "azure" => Joined(ns) # <<>>,
             IsPrefix(ask[q].prefix, ns), Current(acked[ns], now)
      PROVE  Place(ns) \in todo'[q] \/ \E item \in found'[q] : item.ns = ns /\ item.val = acked[ns]
  <2>1. Place(ns) \in todo[q] \/ \E item \in found[q] : item.ns = ns /\ item.val = acked[ns]
    BY <1>1, <1>4 DEF AnswersInv, LastInv, Follows, Sought, InReach
  <2>2. CASE Place(ns) = p
    <3>1. now \in Nat /\ now >= now /\ judged[q] \in Nat /\ judged[q] <= now
      BY <1>i, ConstantsAssumption DEF TypeOK, ReadInv
    <3>2. /\ p \in DOMAIN items /\ items[p].val = acked[ns] /\ ~ExpiredAt(items[p], judged[q])
      BY <1>i, <1>s, <1>4, <2>2, <3>1, CurrentStands
    <3>3. items[p].ns = ns /\ items[p] \in Items  BY <1>i, <1>4, <2>2, <3>2, ItemHere
    <3>4. ItemAt(p) = items[p] /\ ItemAt(p) # None  BY <3>2, <3>3, NoneAssumption DEF ItemAt
    <3> QED  BY <1>3, <1>4, <3>2, <3>3, <3>4
  <2> QED  BY <1>1, <1>2, <2>1, <2>2
<1>5. ask[q] \notin PutAsks \union GetAsks
  <2>1. ask[q] \in SearchAsks \union ListAsks  BY <1>1, <1>i DEF CallsInv, CallOK
  <2> QED  BY <2>1 DEF PutAsks, GetAsks, SearchAsks, ListAsks
<1>6. FollowsThen(q)  BY <1>1, <1>4, <1>5 DEF FollowsThen
<1> QED  BY <1>1, <1>6, StandQuietly

LEMMA LastOfStep ==
  ASSUME AnswersInv, [Next]_vars, Serial, NEW q \in Requests, StepOf(q)
  PROVE  AllStandThen /\ FollowsThen(q)
<1>1. Alone(q)  BY AloneStep DEF AnswersInv, ItemsInv
<1>2. ASSUME NEW ns \in Namespaces, NEW ttl \in Ttls \union {Never}, Put(q, ns, ttl)
      PROVE  AllStandThen /\ FollowsThen(q)
  BY <1>1, <1>2, LastPut
<1>3. ASSUME NEW ns \in Namespaces, NEW refresh \in BOOLEAN, Get(q, ns, refresh)
      PROVE  AllStandThen /\ FollowsThen(q)
  BY <1>1, <1>3, LastGet
<1>4. ASSUME NEW ns \in Namespaces, Delete(q, ns)  PROVE AllStandThen /\ FollowsThen(q)
  BY <1>1, <1>4, LastDelete
<1>5. ASSUME NEW prefix \in SearchPrefixes, Search(q, prefix)  PROVE AllStandThen /\ FollowsThen(q)
  BY <1>1, <1>5, LastSearch
<1>6. ASSUME NEW prefix \in SearchPrefixes, NEW depth \in Depths, List(q, prefix, depth)
      PROVE  AllStandThen /\ FollowsThen(q)
  BY <1>1, <1>6, LastList
<1>7. ASSUME NEW p \in todo[q], Scan(q, p)  PROVE AllStandThen /\ FollowsThen(q)
  BY <1>1, <1>7, LastScan
<1> QED
  BY <1>1, <1>2, <1>3, <1>4, <1>5, <1>6, <1>7, LastUpload, LastEnds, LastRefresh, LastDeleteExpired
  DEF StepOf

(* A late sweep, and the clock.                                            *)
LEMMA SweepLast ==
  ASSUME AnswersInv, [Next]_vars, Serial, NEW p \in sweeping, Sweep(p)
  PROVE  LastInv'
<1>i. TypeOK /\ CallsInv /\ SweepInv /\ HonestInv /\ ReadInv  BY DEF AnswersInv, ItemsInv
<1>p. provider' = provider /\ KeepsTtl' = KeepsTtl  BY <1>i, ProviderKept
<1>1. UNCHANGED <<now, ask, pc, local, promised>>  BY DEF Sweep
<1>2. \A ns \in Namespaces : acked'[ns] \in {acked[ns], Unknown}  BY <1>i DEF Sweep, TypeOK
<1>3. ASSUME NEW ns \in Namespaces, Own(ns)', ~Writing(ns)' PROVE Stands(ns)'
  <2>1. Own(ns) /\ ~Writing(ns)  BY <1>1, <1>3, <1>p DEF Own, Place, Writing
  <2>2. Stands(ns)  BY <2>1 DEF AnswersInv, LastInv
  <2>3. CASE items' = items /\ acked' = acked
    <3>1. Untouched(ns)  BY <2>3 DEF Untouched
    <3> QED  BY <1>1, <1>i, <2>2, <2>3, <3>1, StandsKept
  <2>4. CASE /\ items' = Without({p})
             /\ acked' = [n \in Namespaces |-> IF Place(n) = p /\ p \in Live THEN Unknown ELSE acked[n]]
    <3>1. CASE Place(ns) # p
      <4>1. Untouched(ns)  BY <2>4, <3>1, RemovedItems DEF Untouched
      <4>2. acked'[ns] = acked[ns]  BY <2>4, <3>1
      <4> QED  BY <1>1, <1>i, <2>2, <4>1, <4>2, StandsKept
    <3>2. CASE Place(ns) = p /\ p \in Live
      <4>1. acked'[ns] = Unknown  BY <2>4, <3>2
      <4> QED  BY <4>1, ConstantsAssumption DEF Stands
    <3>3. CASE Place(ns) = p /\ p \notin Live
      <4>1. acked'[ns] = acked[ns] /\ Place(ns) \notin DOMAIN items'  BY <2>4, <3>3, RemovedItems
      <4>2. ASSUME acked[ns] \in Requests PROVE Past(acked[ns], now)
        <5>1. CASE p \in DOMAIN items
          BY <1>i, <2>2, <3>3, <4>2, <5>1, ExpiredPast DEF Live, Expired
        <5>2. CASE p \notin DOMAIN items  BY <2>2, <3>3, <4>2, <5>2 DEF Stands
        <5> QED  BY <5>1, <5>2
      <4> QED  BY <1>1, <1>i, <2>2, <4>1, <4>2, StandsRemoved
    <3> QED  BY <3>1, <3>2, <3>3
  <2> QED  BY <2>3, <2>4 DEF Sweep
<1>4. ASSUME NEW q \in Requests PROVE Follows(q)'
  <2>f. Follows(q)  BY DEF AnswersInv, LastInv
  <2>u. Unknown \notin Requests /\ Unknown # None  BY ConstantsAssumption
  <2>a. UNCHANGED <<ask, pc, seen, judged, todo, found, promised, now>>  BY <1>1 DEF local
  <2>1. pc[q] # "reread"
    <3>1. provider = "azure"  BY <1>i DEF SweepInv
    <3> QED  BY <3>1 DEF AnswersInv, RereadInv
  <2>2. ASSUME ask'[q] \in GetAsks, Own(ask[q].ns)'
        PROVE  /\ pc'[q] \in {"refresh", "upload", "reread"} => acked'[ask'[q].ns] \in {seen'[q].val, Unknown}
               /\ pc'[q] = "deleteExpired" =>
                     /\ seen'[q] = None
                     /\ acked'[ask'[q].ns] # None
                     /\ acked'[ask'[q].ns] \in Requests => Past(acked[ask[q].ns], judged[q])'
    <3>1. Own(ask[q].ns) /\ ask[q].ns \in Namespaces /\ ask[q] \in GetAsks
      BY <1>p, <2>2, <2>a DEF Own, Place, GetAsks
    <3>2. acked'[ask[q].ns] \in {acked[ask[q].ns], Unknown}  BY <1>2, <3>1
    <3> QED  BY <1>p, <2>a, <2>f, <2>u, <3>1, <3>2 DEF Follows, Past
  <2>3. ASSUME pc'[q] = "scan", ask'[q] \in SearchAsks, NEW ns \in Namespaces, Sought(q, ns)'
        PROVE  InReach(q, ns)'
    <3>1. acked'[ns] = acked[ns]  BY <1>2, <2>3, <2>u DEF Sought, Current
    <3>2. Sought(q, ns)  BY <1>p, <2>3, <2>a, <3>1 DEF Sought, Own, Place, Current
    <3>3. InReach(q, ns)  BY <2>3, <2>a, <2>f, <3>2 DEF Follows
    <3> QED  BY <1>p, <2>a, <3>1, <3>3 DEF InReach, Place
  <2> QED  BY <2>1, <2>2, <2>3, <2>a DEF Follows
<1>5. Serial'  BY <1>i, ProviderKept DEF Serial
<1> QED  BY <1>3, <1>4 DEF LastInv

LEMMA QuietLast ==
  ASSUME AnswersInv, [Next]_vars, Serial, UNCHANGED <<items, ask, pc, local, sweeping, ghost>>
  PROVE  LastInv'
<1>i. TypeOK /\ ReadInv  BY DEF AnswersInv, ItemsInv
<1>p. provider' = provider /\ KeepsTtl' = KeepsTtl  BY <1>i, ProviderKept
<1>a. UNCHANGED <<items, ask, pc, seen, judged, todo, found, promised, acked>>  BY DEF local, ghost
<1>n. now \in Nat /\ now' \in Nat /\ now <= now'  BY <1>i, ReadStep
<1>1. ASSUME NEW ns \in Namespaces, Own(ns)', ~Writing(ns)' PROVE Stands(ns)'
  <2>1. Own(ns) /\ ~Writing(ns)  BY <1>1, <1>a, <1>p DEF Own, Place, Writing
  <2>2. Stands(ns)  BY <2>1 DEF AnswersInv, LastInv
  <2>3. Untouched(ns)  BY <1>a DEF Untouched
  <2> QED  BY <1>a, <1>i, <2>2, <2>3, StandsKept
<1>2. ASSUME NEW q \in Requests PROVE Follows(q)'
  <2>f. Follows(q)  BY DEF AnswersInv, LastInv
  <2>1. ASSUME ask'[q] \in GetAsks, Own(ask[q].ns)'
        PROVE  /\ pc'[q] \in {"refresh", "upload", "reread"} => acked'[ask'[q].ns] \in {seen'[q].val, Unknown}
               /\ pc'[q] = "deleteExpired" =>
                     /\ seen'[q] = None
                     /\ acked'[ask'[q].ns] # None
                     /\ acked'[ask'[q].ns] \in Requests => Past(acked[ask[q].ns], judged[q])'
    <3>1. Own(ask[q].ns) /\ ask[q] \in GetAsks  BY <1>p, <1>a, <2>1 DEF Own, Place
    <3> QED  BY <1>p, <1>a, <2>f, <3>1 DEF Follows, Past
  <2>2. ASSUME pc'[q] = "scan", ask'[q] \in SearchAsks, NEW ns \in Namespaces, Sought(q, ns)'
        PROVE  InReach(q, ns)'
    <3>1. Current(acked[ns], now)
      <4>1. acked[ns] \in Requests /\ (KeepsTtl /\ promised[acked[ns]] # Never => now' < promised[acked[ns]])
        BY <1>p, <1>a, <2>2 DEF Sought, Current
      <4>2. promised[acked[ns]] \in Nat \union {Never}  BY <1>i, <4>1 DEF TypeOK
      <4> QED  BY <1>n, <4>1, <4>2 DEF Current
    <3>2. Sought(q, ns)  BY <1>p, <1>a, <2>2, <3>1 DEF Sought, Own, Place
    <3>3. InReach(q, ns)  BY <1>a, <2>2, <2>f, <3>2 DEF Follows
    <3> QED  BY <1>p, <1>a, <3>3 DEF InReach, Place
  <2>3. ASSUME pc'[q] = "reread", ask'[q] \in PutAsks
        PROVE  (Place(ask[q].ns) \in DOMAIN items /\ items[Place(ask[q].ns)].val = q)'
    BY <1>p, <1>a, <2>3, <2>f DEF Follows, Place
  <2> QED  BY <2>1, <2>2, <2>3 DEF Follows
<1> QED  BY <1>1, <1>2 DEF LastInv

LEMMA LastStep == AnswersInv /\ [Next]_vars => LastInv'
<1> SUFFICES ASSUME AnswersInv, [Next]_vars PROVE LastInv'  OBVIOUS
<1>i. TypeOK  BY DEF AnswersInv, ItemsInv
<1>p. provider' = provider /\ Serial' = Serial  BY <1>i, ProviderKept DEF Serial
<1>1. CASE ~Serial  BY <1>1, <1>p DEF LastInv
<1>2. ASSUME Serial, NEW q \in Requests, StepOf(q) PROVE LastInv'
  <2>1. AllStandThen /\ FollowsThen(q)  BY <1>2, LastOfStep
  <2>2. Follows(q)'  BY <1>i, <2>1, FollowsLater
  <2>3. ASSUME NEW r \in Requests \ {q} PROVE Follows(r)'
    <3>1. Alone(q)  BY <1>2, AloneStep DEF AnswersInv, ItemsInv
    <3>2. pc'[r] = pc[r] /\ pc[r] \notin Calls
      BY <1>i, <1>2, <3>1, StepsSteady DEF Steady, Alone
    <3> QED  BY <3>2 DEF Follows, Calls
  <2>4. \A ns \in Namespaces : Own(ns)' => Own(ns)  BY <1>p DEF Own, Place
  <2> QED  BY <2>1, <2>2, <2>3, <2>4 DEF LastInv, AllStandThen
<1>3. CASE Serial /\ UNCHANGED vars  BY <1>3, QuietLast DEF vars
<1>4. CASE Serial /\ Tick  BY <1>4, QuietLast DEF Tick
<1>5. ASSUME Serial, NEW p \in sweeping, Sweep(p) PROVE LastInv'  BY <1>5, SweepLast
<1> QED  BY <1>1, <1>2, <1>3, <1>4, <1>5, NextStepOf

LEMMA AnswersInit == Init => AnswersInv
<1> SUFFICES ASSUME Init PROVE AnswersInv  OBVIOUS
<1>1. ItemsInv  BY ItemsInit
<1>2. DOMAIN items = {} /\ \A ns \in Namespaces : acked[ns] = None  BY DEF Init
<1>3. \A q \in Requests : pc[q] = "new" /\ seen[q] = None /\ judged[q] = 0 /\ now = 0  BY DEF Init
<1>4. PlacedInv  BY <1>2, <1>3 DEF PlacedInv
<1>5. ToldInv  BY <1>2, ConstantsAssumption DEF ToldInv
<1>6. ReadInv /\ RereadInv  BY <1>3 DEF ReadInv, RereadInv
<1>7. \A q \in Requests : Follows(q)  BY <1>3 DEF Follows
<1>8. \A ns \in Namespaces : Stands(ns)  BY <1>2, ConstantsAssumption DEF Stands
<1>9. LastInv  BY <1>7, <1>8 DEF LastInv
<1> QED  BY <1>1, <1>4, <1>5, <1>6, <1>9 DEF AnswersInv

(* AnswersInv holds in every reachable state.                              *)
THEOREM AnswersInvariant == Spec => []AnswersInv
<1>1. ItemsInv /\ [Next]_vars => ItemsInv'
  BY TypeStep, CallsStep, SweepStep, UnstoredStep, HonestStep, TimelyStep, SerialStep DEF ItemsInv
<1>2. AnswersInv /\ [Next]_vars => AnswersInv'
  BY <1>1, PlacedStep, ToldStep, ReadStep, RereadStep, LastStep DEF AnswersInv, ItemsInv
<1> QED  BY AnswersInit, <1>2, PTL DEF Spec

(* What a get answers.                                                     *)
LEMMA GetAnswered ==
  ASSUME AnswersInv, Next, Serial, NEW q \in Requests, StepOf(q), Answers(q)
  PROVE  GetAnswers(q)
<1>i. TypeOK /\ CallsInv /\ HonestInv /\ TimelyInv  BY DEF AnswersInv, ItemsInv
<1>c. None \notin Requests /\ Unknown \notin Requests /\ None # Unknown  BY ConstantsAssumption
<1>l. Alone(q)  BY AloneStep DEF AnswersInv, ItemsInv
<1> SUFFICES ASSUME ask'[q].op = "get", Own(ask'[q].ns)
             PROVE  LET val == acked[ask'[q].ns]
                    IN  /\ Current(val, judged'[q]) => seen'[q] # None /\ seen'[q].val = val
                        /\ Gone(val, judged'[q])    => seen'[q] = None
  BY DEF GetAnswers
<1>a. pc[q] # "ok" /\ pc'[q] = "ok"  BY DEF Answers
<1>1. ASSUME NEW at \in Namespaces, NEW refresh \in BOOLEAN, Get(q, at, refresh)
      PROVE  LET val == acked[at]
             IN  /\ ask'[q].ns = at
                 /\ Current(val, judged'[q]) => seen'[q] # None /\ seen'[q].val = val
                 /\ Gone(val, judged'[q])    => seen'[q] = None
  <2> DEFINE item == ItemAt(Place(at))
  <2>1. pc[q] = "new" /\ ask'[q].ns = at  BY <1>i, <1>1, StartsAsking DEF Get
  <2>2. /\ judged'[q] = now
        /\ seen'[q] = IF item # None /\ Expired(item) THEN None ELSE item
    BY <1>i, <1>1 DEF Get, TypeOK
  <2>3. Own(at)  BY <2>1
  <2>4. Stands(at)  BY <1>l, <2>1, <2>3, AllStand DEF AnswersInv
  <2>5. now \in Nat /\ now >= now  BY <1>i, ConstantsAssumption DEF TypeOK
  <2>6. Place(at) \in DOMAIN items => item = items[Place(at)] /\ item # None
    BY <1>i, NoneAssumption DEF ItemAt, TypeOK
  <2>7. ASSUME Current(acked[at], now) PROVE seen'[q] # None /\ seen'[q].val = acked[at]
    <3>1. /\ Place(at) \in DOMAIN items /\ items[Place(at)].val = acked[at]
          /\ ~Expired(items[Place(at)])
      BY <1>i, <2>4, <2>5, <2>7, CurrentStands DEF Expired
    <3> QED  BY <2>2, <2>6, <3>1
  <2>8. ASSUME Gone(acked[at], now), Place(at) \in DOMAIN items PROVE Expired(items[Place(at)])
    <3>1. /\ acked[at] \in Requests /\ KeepsTtl /\ promised[acked[at]] # Never
          /\ now > promised[acked[at]] /\ items[Place(at)].expires = promised[acked[at]]
      BY <2>4, <2>8 DEF Gone, Stands
    <3>2. promised[acked[at]] \in Nat  BY <1>i, <3>1 DEF TypeOK
    <3> QED  BY <2>5, <3>1, <3>2 DEF Expired, ExpiredAt
  <2>9. ASSUME Gone(acked[at], now) PROVE seen'[q] = None
    <3>1. Place(at) \notin DOMAIN items => item = None  BY DEF ItemAt
    <3> HIDE DEF item
    <3> QED  BY <2>2, <2>6, <2>8, <2>9, <3>1
  <2> QED  BY <2>1, <2>2, <2>7, <2>9
<1>2. ASSUME pc[q] \in {"refresh", "upload", "reread"}, ask[q] \in GetAsks, ask' = ask, seen' = seen,
             judged' = judged
      PROVE  LET val == acked[ask[q].ns]
             IN  /\ Current(val, judged[q]) => seen[q] # None /\ seen[q].val = val
                 /\ Gone(val, judged[q])    => seen[q] = None
  <2>1. acked[ask[q].ns] \in {seen[q].val, Unknown}
    BY <1>2 DEF AnswersInv, LastInv, Follows
  <2>2. seen[q] \in Items /\ seen[q] # None /\ seen[q].val \in Requests
    <3>1. seen[q] \in Items  BY <1>2, <1>i DEF CallsInv, CallOK
    <3> QED  BY <3>1, NoneAssumption DEF Items
  <2>3. ASSUME KeepsTtl PROVE promised[seen[q].val] = Never \/ judged[q] <= promised[seen[q].val]
    BY <1>i, <2>2, <2>3 DEF TimelyInv, Served
  <2>4. judged[q] \in Nat /\ promised[seen[q].val] \in Nat \union {Never}
    BY <1>i, <2>2, ConstantsAssumption DEF TypeOK
  <2>5. ~Gone(acked[ask[q].ns], judged[q])  BY <1>c, <2>1, <2>2, <2>3, <2>4 DEF Gone
  <2>6. Current(acked[ask[q].ns], judged[q]) => seen[q].val = acked[ask[q].ns]
    BY <1>c, <2>1 DEF Current
  <2> QED  BY <2>2, <2>5, <2>6
<1>3. ASSUME DeleteExpired(q)
      PROVE  /\ ask'[q] = ask[q] /\ seen'[q] = None /\ judged'[q] = judged[q]
             /\ ~Current(acked[ask[q].ns], judged[q])
  <2>1. pc[q] = "deleteExpired" /\ ask' = ask /\ seen' = seen /\ judged' = judged
    BY <1>3 DEF DeleteExpired, local
  <2>2. ask[q] \in GetAsks /\ provider = "azure"  BY <1>i, <2>1 DEF CallsInv, CallOK
  <2>3. /\ seen[q] = None
        /\ acked[ask[q].ns] \in Requests => Past(acked[ask[q].ns], judged[q])
    BY <2>1, <2>2 DEF AnswersInv, LastInv, Follows
  <2>4. ~Current(acked[ask[q].ns], judged[q])
    <3>1. ASSUME acked[ask[q].ns] \in Requests PROVE promised[acked[ask[q].ns]] \in Nat \union {Never}
      BY <1>i, <3>1 DEF TypeOK
    <3>2. judged[q] \in Nat  BY <1>i, ConstantsAssumption DEF TypeOK
    <3> QED  BY <2>2, <2>3, <3>1, <3>2 DEF Past, Current
  <2> QED  BY <2>1, <2>3, <2>4
<1>4. ASSUME Upload(q) \/ Reread(q) \/ Refresh(q)
      PROVE  /\ pc[q] \in {"refresh", "upload", "reread"} /\ ask[q] \in GetAsks
             /\ ask' = ask /\ seen' = seen /\ judged' = judged
  <2>1. pc[q] \in {"refresh", "upload", "reread"} /\ ask' = ask /\ seen' = seen /\ judged' = judged
    BY <1>4 DEF Upload, Uploaded, Reread, Refresh, local
  <2>2. ask[q] \in PutAsks \union GetAsks  BY <1>i, <2>1 DEF CallsInv, CallOK
  <2>3. ask[q].op = "get"  BY <2>1
  <2> QED  BY <2>1, <2>2, <2>3 DEF PutAsks
<1>5. ~AnswerLost(q) /\ ~Fails(q)  BY <1>i, <1>a DEF AnswerLost, Fails, Ends, Goto, TypeOK
<1>6. ~ScanEnds(q)
  <2>1. ASSUME ScanEnds(q) PROVE FALSE
    <3>1. ask[q] \in SearchAsks \union ListAsks /\ ask' = ask
      BY <1>i, <2>1 DEF ScanEnds, CallsInv, CallOK
    <3> QED  BY <3>1 DEF SearchAsks, ListAsks
  <2> QED  BY <2>1
<1>7. ASSUME NEW p \in todo[q], Scan(q, p) PROVE FALSE  BY <1>7, <1>a DEF Scan
<1>8. ASSUME NEW at \in Namespaces, NEW ttl \in Ttls \union {Never}, Put(q, at, ttl) PROVE FALSE
  BY <1>i, <1>8, StartsAsking DEF Put
<1>9. ASSUME NEW at \in Namespaces, Delete(q, at) PROVE FALSE  BY <1>i, <1>9, StartsAsking DEF Delete
<1>10. ASSUME NEW prefix \in SearchPrefixes, Search(q, prefix) PROVE FALSE
  BY <1>i, <1>10, StartsAsking DEF Search
<1>11. ASSUME NEW prefix \in SearchPrefixes, NEW depth \in Depths, List(q, prefix, depth) PROVE FALSE
  BY <1>i, <1>11, StartsAsking DEF List
<1> QED
  BY <1>1, <1>2, <1>3, <1>4, <1>5, <1>6, <1>7, <1>8, <1>9, <1>10, <1>11 DEF StepOf

(* What a search finds.                                                    *)
LEMMA SearchAnswered ==
  ASSUME AnswersInv, Next, Serial, NEW q \in Requests, StepOf(q), Answers(q)
  PROVE  SearchFinds(q)
<1>i. TypeOK /\ CallsInv /\ HonestInv  BY DEF AnswersInv, ItemsInv
<1>l. Alone(q)  BY AloneStep DEF AnswersInv, ItemsInv
<1> SUFFICES ASSUME ask'[q].op = "search", NEW ns \in Namespaces,
                    Own(ns), provider = "azure" => Joined(ns) # <<>>,
                    IsPrefix(ask'[q].prefix, ns), Current(acked[ns], now)
             PROVE  \E item \in found'[q] : item.ns = ns /\ item.val = acked[ns]
  BY DEF SearchFinds
<1>a. pc[q] # "ok" /\ pc'[q] = "ok"  BY DEF Answers
<1>1. ASSUME NEW prefix \in SearchPrefixes, Search(q, prefix)
      PROVE  \E item \in found'[q] : item.ns = ns /\ item.val = acked[ns]
  <2>1. pc[q] = "new" /\ ask'[q].prefix = prefix  BY <1>i, <1>1, StartsAsking DEF Search
  <2>2. found'[q] = {items[p] : p \in {p \in DOMAIN items : UnderPrefix(items[p].ns, prefix)} \intersect Live}
    BY <1>i, <1>a, <1>1 DEF Search, Goto, TypeOK
  <2>3. Stands(ns)  BY <1>l, <2>1, AllStand DEF AnswersInv
  <2>4. now \in Nat /\ now >= now  BY <1>i, ConstantsAssumption DEF TypeOK
  <2>5. /\ Place(ns) \in DOMAIN items /\ items[Place(ns)].val = acked[ns]
        /\ ~ExpiredAt(items[Place(ns)], now)
    BY <1>i, <2>3, <2>4, CurrentStands
  <2>6. items[Place(ns)].ns = ns  BY <1>i, <2>5, ItemHere
  <2>7. UnderPrefix(items[Place(ns)].ns, prefix)  BY <1>i, <2>1, <2>5, SearchLooks
  <2> QED  BY <2>2, <2>5, <2>6, <2>7 DEF Live, Expired
<1>2. ASSUME ScanEnds(q)
      PROVE  \E item \in found'[q] : item.ns = ns /\ item.val = acked[ns]
  <2>1. pc[q] = "scan" /\ todo[q] = {} /\ ask' = ask /\ found' = found  BY <1>2 DEF ScanEnds, local
  <2>2. ask[q] \in SearchAsks
    <3>1. ask[q] \in SearchAsks \union ListAsks  BY <1>i, <2>1 DEF CallsInv, CallOK
    <3>2. ask[q].op = "search"  BY <2>1
    <3> QED  BY <3>1, <3>2 DEF ListAsks
  <2>3. Sought(q, ns)  BY <2>1 DEF Sought
  <2>4. InReach(q, ns)  BY <2>1, <2>2, <2>3 DEF AnswersInv, LastInv, Follows
  <2> QED  BY <2>1, <2>4 DEF InReach
<1>3. ASSUME Upload(q) \/ AnswerLost(q) \/ Reread(q) \/ Refresh(q) \/ DeleteExpired(q) PROVE FALSE
  <2>1. pc[q] \in {"upload", "reread", "refresh", "deleteExpired"} /\ ask' = ask
    BY <1>3 DEF Upload, AnswerLost, Uploaded, Reread, Refresh, DeleteExpired
  <2>2. ask[q] \in PutAsks \union GetAsks  BY <1>i, <2>1 DEF CallsInv, CallOK
  <2>3. ask[q].op = "search"  BY <2>1
  <2> QED  BY <2>2, <2>3 DEF PutAsks, GetAsks
<1>4. ~Fails(q)  BY <1>i, <1>a DEF Fails, Ends, Goto, TypeOK
<1>5. ASSUME NEW p \in todo[q], Scan(q, p) PROVE FALSE  BY <1>5, <1>a DEF Scan
<1>6. ASSUME NEW at \in Namespaces, NEW ttl \in Ttls \union {Never}, Put(q, at, ttl) PROVE FALSE
  BY <1>i, <1>6, StartsAsking DEF Put
<1>7. ASSUME NEW at \in Namespaces, Delete(q, at) PROVE FALSE  BY <1>i, <1>7, StartsAsking DEF Delete
<1>8. ASSUME NEW at \in Namespaces, NEW refresh \in BOOLEAN, Get(q, at, refresh) PROVE FALSE
  BY <1>i, <1>8, StartsAsking DEF Get
<1>9. ASSUME NEW prefix \in SearchPrefixes, NEW depth \in Depths, List(q, prefix, depth) PROVE FALSE
  BY <1>i, <1>9, StartsAsking DEF List
<1> QED  BY <1>1, <1>2, <1>3, <1>4, <1>5, <1>6, <1>7, <1>8, <1>9 DEF StepOf

(* Clients that wait for each other read what they wrote: a get answers    *)
(* the value they were last told of until it expires, and nothing after a  *)
(* delete; a search finds each such value under its prefix.  Proved of     *)
(* every provider, with failed calls, lost answers and late sweeps.        *)
THEOREM AnswersLastWriteCorrect == Spec => AnswersLastWrite
<1>1. ASSUME AnswersInv, Next, NEW q \in Requests, Serial, Answers(q)
      PROVE  GetAnswers(q) /\ SearchFinds(q)
  <2>i. TypeOK  BY <1>1 DEF AnswersInv, ItemsInv
  <2>1. ASSUME NEW r \in Requests, StepOf(r), r # q PROVE FALSE
    BY <1>1, <2>1, <2>i, StepsSteady DEF Steady, Answers
  <2>2. ~Tick  BY <1>1 DEF Tick, Answers
  <2>3. ASSUME NEW p \in sweeping, Sweep(p) PROVE FALSE  BY <1>1, <2>3 DEF Sweep, Answers
  <2>4. StepOf(q)  BY <1>1, <2>1, <2>2, <2>3, NextStepOf
  <2> QED  BY <1>1, <2>4, GetAnswered, SearchAnswered
<1>2. AnswersInv /\ [Next]_vars =>
        [\A q \in Requests : Serial /\ Answers(q) => GetAnswers(q) /\ SearchFinds(q)]_vars
  BY <1>1
<1> QED  BY <1>2, AnswersInvariant, PTL DEF Spec, AnswersLastWrite

-----------------------------------------------------------------------------
(***************************************************************************)
(* Searches and listings.                                                  *)
(***************************************************************************)

(* What q has found, and the blobs it has yet to read, lie under its       *)
(* prefix.                                                                 *)
FoundOK(q) ==
    /\ ask[q] \notin SearchAsks \union ListAsks => found[q] = {}
    /\ ask[q] \in SearchAsks \union ListAsks =>
          \A ns \in Named(q) : ns \in Namespaces /\ UnderPrefix(ns, ask[q].prefix)
    /\ pc[q] = "scan" =>
          \A p \in todo[q] : \A ns \in Namespaces : Place(ns) = p => UnderPrefix(ns, ask[q].prefix)

FoundInv == provider # "memory" => \A q \in Requests : FoundOK(q)

(* The folder of a blob is told by its place.                              *)
LEMMA UnderByPlace ==
  ASSUME provider = "azure", NEW ns, NEW other, Place(ns) = Place(other), NEW prefix, UnderPrefix(ns, prefix)
  PROVE  UnderPrefix(other, prefix)
BY DEF Place, Sql, UnderPrefix, Folder

(* A listing that does not split texts names namespaces it has read.       *)
LEMMA ListedHere ==
  ASSUME provider # "memory", NEW ns, NEW prefix, NEW depth
  PROVE  Listed(ns, prefix, depth) \subseteq {ns}
BY DEF Listed

LEMMA FoundStart ==
  ASSUME TypeOK, CallsInv, provider # "memory", NEW q \in Requests, NEW prefix \in SearchPrefixes,
         Search(q, prefix) \/ \E depth \in Depths : List(q, prefix, depth)
  PROVE  /\ ask'[q] \in SearchAsks \union ListAsks /\ ask'[q].prefix = prefix
         /\ \A ns \in (IF ask'[q].op = "search" THEN {item.ns : item \in found'[q]} ELSE found'[q]) :
               ns \in Namespaces /\ UnderPrefix(ns, prefix)
         /\ pc'[q] = "scan" =>
               /\ provider = "azure"
               /\ \A p \in todo'[q] : p \in DOMAIN items /\ UnderPrefix(items[p].ns, prefix)
<1>f. ASSUME pc[q] = "new" PROVE found[q] = {}  BY <1>f DEF CallsInv, CallOK
<1>n. \A p \in DOMAIN items : items[p].ns \in Namespaces  BY DEF TypeOK, Items
<1>1. CASE Search(q, prefix)
  <2>1. pc[q] = "new" /\ ask'[q] = [op |-> "search", prefix |-> prefix]
    BY <1>1, StartsAsking DEF Search
  <2>2. ask'[q] \in SearchAsks /\ ask'[q].op = "search" /\ ask'[q].prefix = prefix
    BY <2>1 DEF SearchAsks
  <2>3. CASE provider = "azure"
    <3>1. /\ found' = found
          /\ todo'[q] = {p \in DOMAIN items : UnderPrefix(items[p].ns, prefix)}
      BY <1>1, <2>3 DEF Search, TypeOK
    <3> QED  BY <1>f, <2>1, <2>2, <2>3, <3>1
  <2>4. CASE provider # "azure"
    <3>1. /\ pc'[q] = "ok"
          /\ found'[q] = {items[p] : p \in {p \in DOMAIN items : UnderPrefix(items[p].ns, prefix)}
                                            \intersect Live}
      BY <1>1, <2>4 DEF Search, Goto, TypeOK
    <3>2. \A item \in found'[q] : item.ns \in Namespaces /\ UnderPrefix(item.ns, prefix)
      BY <1>n, <3>1
    <3> QED  BY <2>2, <3>1, <3>2
  <2> QED  BY <2>3, <2>4
<1>2. ASSUME NEW depth \in Depths, List(q, prefix, depth)
      PROVE  /\ ask'[q] \in ListAsks /\ ask'[q].prefix = prefix /\ ask'[q].op = "list"
             /\ \A ns \in found'[q] : ns \in Namespaces /\ UnderPrefix(ns, prefix)
             /\ pc'[q] = "scan" =>
                   /\ provider = "azure"
                   /\ \A p \in todo'[q] : p \in DOMAIN items /\ UnderPrefix(items[p].ns, prefix)
  <2>1. pc[q] = "new" /\ ask'[q] = [op |-> "list", prefix |-> prefix, depth |-> depth]
    BY <1>2, StartsAsking DEF List
  <2>2. ask'[q] \in ListAsks /\ ask'[q].op = "list" /\ ask'[q].prefix = prefix
    BY <2>1 DEF ListAsks
  <2>3. CASE provider = "azure"
    <3>1. /\ found' = found
          /\ todo'[q] = {p \in DOMAIN items : UnderPrefix(items[p].ns, prefix)}
      BY <1>2, <2>3 DEF List, TypeOK
    <3> QED  BY <1>f, <2>1, <2>2, <2>3, <3>1
  <2>4. CASE provider # "azure"
    <3>1. /\ pc'[q] = "ok"
          /\ found'[q] = UNION {Listed(items[p].ns, prefix, depth) :
                                  p \in {l \in Live : IsPrefix(prefix, items[l].ns)}}
      BY <1>2, <2>4 DEF List, Goto, TypeOK
    <3>2. ASSUME NEW ns \in found'[q] PROVE ns \in Namespaces /\ UnderPrefix(ns, prefix)
      <4>1. PICK p \in Live : IsPrefix(prefix, items[p].ns) /\ ns \in Listed(items[p].ns, prefix, depth)
        BY <3>1, <3>2
      <4>2. ns = items[p].ns  BY <4>1, ListedHere
      <4>3. p \in DOMAIN items  BY DEF Live
      <4> QED  BY <1>n, <2>4, <4>1, <4>2, <4>3 DEF UnderPrefix
    <3> QED  BY <2>2, <3>1, <3>2
  <2> QED  BY <2>3, <2>4
<1>3. ASSUME NEW a \in ListAsks PROVE a.op # "search"  BY DEF ListAsks
<1> QED  BY <1>1, <1>2

(* A blob that is read lies where the scan has looked for it.              *)
LEMMA FoundScan ==
  ASSUME TypeOK, CallsInv, provider # "memory", NEW q \in Requests, FoundOK(q),
         NEW p \in todo[q], Scan(q, p)
  PROVE  \A ns \in (IF ask[q].op = "search" THEN {item.ns : item \in found'[q]} ELSE found'[q]) :
            ns \in Namespaces /\ UnderPrefix(ns, ask[q].prefix)
<1>1. pc[q] = "scan" /\ ask[q] \in SearchAsks \union ListAsks  BY DEF Scan, CallsInv, CallOK
<1>2. ASSUME ItemAt(p) # None PROVE ItemAt(p).ns \in Namespaces /\ UnderPrefix(ItemAt(p).ns, ask[q].prefix)
  <2>1. p \in DOMAIN items /\ ItemAt(p) = items[p]  BY <1>2 DEF ItemAt
  <2>2. items[p].ns \in Namespaces /\ Place(items[p].ns) = p  BY <2>1 DEF TypeOK, Items
  <2> QED  BY <1>1, <2>1, <2>2 DEF FoundOK
<1>3. \A ns \in Named(q) : ns \in Namespaces /\ UnderPrefix(ns, ask[q].prefix)  BY <1>1 DEF FoundOK
<1>4. CASE ask[q].op = "search"
  <2>1. \A item \in found'[q] : item \in found[q] \/ (item = ItemAt(p) /\ ItemAt(p) # None)
    BY <1>4 DEF Scan, TypeOK
  <2>2. \A item \in found[q] : item.ns \in Named(q)  BY <1>4 DEF Named
  <2> QED  BY <1>2, <1>3, <1>4, <2>1, <2>2
<1>5. CASE ask[q].op # "search"
  <2>1. \A ns \in found'[q] : \/ ns \in found[q]
                              \/ ItemAt(p) # None /\ ns \in Listed(ItemAt(p).ns, ask[q].prefix, ask[q].depth)
    BY <1>5 DEF Scan, TypeOK
  <2>2. Named(q) = found[q]  BY <1>5 DEF Named
  <2> QED  BY <1>2, <1>3, <1>5, <2>1, <2>2, ListedHere
<1> QED  BY <1>4, <1>5

LEMMA FoundOfStep ==
  ASSUME TypeOK, CallsInv, [Next]_vars, provider # "memory", NEW q \in Requests, FoundOK(q), StepOf(q)
  PROVE  FoundOK(q)'
<1>p. provider' = provider /\ \A ns, prefix : /\ UnderPrefix(ns, prefix)' = UnderPrefix(ns, prefix)
                                              /\ Place(ns)' = Place(ns)
  BY ProviderKept DEF UnderPrefix, Place
<1> DEFINE NamedThen == IF ask'[q].op = "search" THEN {item.ns : item \in found'[q]} ELSE found'[q]
<1>n. Named(q)' = NamedThen  BY DEF Named
<1>1. ASSUME NEW prefix \in SearchPrefixes,
             Search(q, prefix) \/ \E depth \in Depths : List(q, prefix, depth)
      PROVE  FoundOK(q)'
  <2>1. /\ ask'[q] \in SearchAsks \union ListAsks /\ ask'[q].prefix = prefix
        /\ \A ns \in NamedThen : ns \in Namespaces /\ UnderPrefix(ns, prefix)
        /\ pc'[q] = "scan" =>
              /\ provider = "azure"
              /\ \A p \in todo'[q] : p \in DOMAIN items /\ UnderPrefix(items[p].ns, prefix)
    BY <1>1, FoundStart
  <2>2. ASSUME pc'[q] = "scan", NEW p \in todo'[q], NEW ns \in Namespaces, Place(ns) = p
        PROVE  UnderPrefix(ns, prefix)
    <3>1. provider = "azure" /\ p \in DOMAIN items /\ UnderPrefix(items[p].ns, prefix)
      BY <2>1, <2>2
    <3>2. Place(items[p].ns) = Place(ns)  BY <2>2, <3>1 DEF TypeOK
    <3> QED  BY <3>1, <3>2, UnderByPlace
  <2>3. \A ns : UnderPrefix(ns, ask[q].prefix)' = UnderPrefix(ns, prefix)
    BY <1>p, <2>1 DEF UnderPrefix
  <2> HIDE DEF NamedThen
  <2> QED  BY <1>n, <1>p, <2>1, <2>2, <2>3 DEF FoundOK
<1>2. ASSUME NEW p \in todo[q], Scan(q, p)  PROVE FoundOK(q)'
  <2>1. /\ pc[q] = "scan" /\ pc' = pc /\ ask' = ask /\ todo'[q] \subseteq todo[q]
        /\ ask[q] \in SearchAsks \union ListAsks
    BY <1>2 DEF Scan, TypeOK, CallsInv, CallOK
  <2>2. \A ns \in NamedThen : ns \in Namespaces /\ UnderPrefix(ns, ask[q].prefix)
    BY <1>2, <2>1, FoundScan
  <2>3. \A ns : UnderPrefix(ns, ask[q].prefix)' = UnderPrefix(ns, ask[q].prefix)
    BY <1>p, <2>1 DEF UnderPrefix
  <2>4. \A r \in todo'[q] : \A ns \in Namespaces : Place(ns) = r => UnderPrefix(ns, ask[q].prefix)
    BY <2>1 DEF FoundOK
  <2> HIDE DEF NamedThen
  <2> QED  BY <1>n, <1>p, <2>1, <2>2, <2>3, <2>4 DEF FoundOK
<1>3. ASSUME pc'[q] # "scan", found' = found, ask'[q] = ask[q] PROVE FoundOK(q)'
  <2>1. Named(q)' = Named(q)  BY <1>3 DEF Named
  <2>2. \A ns : UnderPrefix(ns, ask[q].prefix)' = UnderPrefix(ns, ask[q].prefix)
    BY <1>p, <1>3 DEF UnderPrefix
  <2> QED  BY <1>3, <2>1, <2>2 DEF FoundOK
<1>4. ASSUME NEW at \in Namespaces, \/ \E ttl \in Ttls \union {Never} : Put(q, at, ttl)
                                    \/ \E refresh \in BOOLEAN : Get(q, at, refresh)
                                    \/ Delete(q, at)
      PROVE  FoundOK(q)'
  <2>1. pc'[q] # "scan" /\ found'[q] = {}
    <3>1. ASSUME pc[q] = "new" PROVE found[q] = {}  BY <3>1 DEF CallsInv, CallOK
    <3>2. pc[q] = "new" /\ found' = found
      BY <1>4 DEF Put, PutItem, Get, Delete, Starts, local
    <3>3. pc'[q] # "scan"  BY <1>4 DEF Put, PutItem, Get, Delete, Goto, TypeOK
    <3> QED  BY <3>1, <3>2, <3>3
  <2>2. Named(q)' = {}  BY <2>1 DEF Named
  <2> QED  BY <2>1, <2>2 DEF FoundOK
<1>5. ASSUME \/ Upload(q) \/ AnswerLost(q) \/ Reread(q) \/ ScanEnds(q) \/ Fails(q) \/ Refresh(q)
             \/ DeleteExpired(q)
      PROVE  pc'[q] # "scan" /\ found' = found /\ ask'[q] = ask[q]
  BY <1>5 DEF Upload, AnswerLost, Uploaded, Reread, ScanEnds, Fails, Refresh, PutItem, DeleteExpired,
              Ends, Goto, local, TypeOK
<1> QED  BY <1>1, <1>2, <1>3, <1>4, <1>5 DEF StepOf

(* A step of another request changes nothing of this one.                  *)
LEMMA TodoSteady ==
  ASSUME TypeOK, NEW q \in Requests, StepOf(q), NEW r \in Requests \ {q}
  PROVE  todo'[r] = todo[r]
<1>1. ASSUME todo' = todo PROVE todo'[r] = todo[r]  BY <1>1
<1>2. CASE \E ns \in Namespaces : \/ \E ttl \in Ttls \union {Never} : Put(q, ns, ttl)
                                  \/ \E refresh \in BOOLEAN : Get(q, ns, refresh)
                                  \/ Delete(q, ns)
  BY <1>1, <1>2 DEF Put, PutItem, Get, Delete, local
<1>3. CASE \E prefix \in SearchPrefixes :
              Search(q, prefix) \/ \E depth \in Depths : List(q, prefix, depth)
  BY <1>1, <1>3 DEF Search, List, TypeOK
<1>4. CASE \/ Upload(q) \/ AnswerLost(q) \/ Reread(q) \/ ScanEnds(q) \/ Fails(q) \/ Refresh(q)
           \/ DeleteExpired(q)
  BY <1>1, <1>4 DEF Upload, AnswerLost, Uploaded, Reread, ScanEnds, Fails, Refresh, PutItem, DeleteExpired,
                    local
<1>5. CASE \E p \in todo[q] : Scan(q, p)  BY <1>5 DEF Scan, TypeOK
<1> QED  BY <1>2, <1>3, <1>4, <1>5 DEF StepOf

LEMMA FoundStep == TypeOK /\ CallsInv /\ FoundInv /\ [Next]_vars => FoundInv'
<1> SUFFICES ASSUME TypeOK, CallsInv, FoundInv, [Next]_vars, provider # "memory", NEW r \in Requests
             PROVE  FoundOK(r)'
  BY ProviderKept DEF FoundInv
<1>f. FoundOK(r)  BY DEF FoundInv
<1>1. ASSUME pc'[r] = pc[r], ask'[r] = ask[r], found'[r] = found[r], todo'[r] = todo[r]
      PROVE  FoundOK(r)'
  <2>1. Named(r)' = Named(r)  BY <1>1 DEF Named
  <2>2. \A ns : /\ UnderPrefix(ns, ask[r].prefix)' = UnderPrefix(ns, ask[r].prefix)
                /\ Place(ns)' = Place(ns)
    BY <1>1, ProviderKept DEF UnderPrefix, Place
  <2> QED  BY <1>1, <1>f, <2>1, <2>2 DEF FoundOK
<1>2. ASSUME NEW q \in Requests, StepOf(q), q # r PROVE FoundOK(r)'
  BY <1>1, <1>2, StepsSteady, TodoSteady DEF Steady
<1>3. CASE StepOf(r)  BY <1>3, <1>f, FoundOfStep
<1>4. CASE UNCHANGED vars  BY <1>1, <1>4 DEF vars, local
<1>5. CASE Tick  BY <1>1, <1>5 DEF Tick, local
<1>6. ASSUME NEW p \in sweeping, Sweep(p) PROVE FoundOK(r)'  BY <1>1, <1>6 DEF Sweep, local
<1> QED  BY <1>2, <1>3, <1>4, <1>5, <1>6, NextStepOf

LEMMA FoundInit == Init => FoundInv
<1> SUFFICES ASSUME Init, NEW q \in Requests PROVE FoundOK(q)  BY DEF FoundInv
<1>1. ask[q] = None /\ found[q] = {} /\ pc[q] = "new"  BY DEF Init
<1>2. Named(q) = {}  BY <1>1 DEF Named
<1> QED  BY <1>1, <1>2 DEF FoundOK

(* In SQL and in blobs, what a search finds and what a listing names was   *)
(* put there and lies under the prefix, segment by segment: in blobs where *)
(* no segment holds the separator, whatever the letters.                   *)
THEOREM FoundUnderPrefixCorrect == Spec => []FoundUnderPrefix
<1>1. Init => FoundInv  BY FoundInit
<1>2. ItemsInv /\ FoundInv /\ [Next]_vars => FoundInv'  BY FoundStep DEF ItemsInv
<1>3. ASSUME ItemsInv, FoundInv PROVE FoundUnderPrefix
  <2> SUFFICES ASSUME provider # "memory", NEW q \in Requests, pc[q] = "ok", NEW ns \in Named(q)
               PROVE  /\ ns \in Namespaces
                      /\ provider \in Sql \/ (Plain(ns) /\ Plain(ask[q].prefix))
                             => IsPrefix(ask[q].prefix, ns)
    BY DEF FoundUnderPrefix
  <2>1. FoundOK(q)  BY <1>3 DEF FoundInv
  <2>2. ask[q] \in SearchAsks \union ListAsks
    <3>1. ASSUME ask[q] \notin SearchAsks \union ListAsks PROVE Named(q) = {}
      BY <2>1, <3>1 DEF FoundOK, Named
    <3> QED  BY <3>1
  <2>3. ns \in Namespaces /\ UnderPrefix(ns, ask[q].prefix)  BY <2>1, <2>2 DEF FoundOK
  <2>4. ask[q].prefix \in SearchPrefixes  BY <2>2 DEF SearchAsks, ListAsks
  <2>5. CASE provider \in Sql  BY <2>3, <2>5 DEF UnderPrefix, Sql
  <2>6. CASE provider = "azure"
    <3>1. Plain(ns) /\ Plain(ask[q].prefix) => IsPrefix(ask[q].prefix, ns)
      BY <2>3, <2>4, <2>6, LookedPrefix
    <3> QED  BY <2>3, <2>6, <3>1 DEF Sql
  <2>7. provider \in Sql \union {"azure"}  BY <1>3 DEF ItemsInv, TypeOK, Providers
  <2> QED  BY <2>3, <2>5, <2>6, <2>7
<1> QED  BY <1>1, <1>2, <1>3, ItemsInvariant, PTL DEF Spec
=============================================================================
