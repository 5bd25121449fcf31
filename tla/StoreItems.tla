----------------------------- MODULE StoreItems -----------------------------
(***************************************************************************)
(* The key-value store (src/src/modules/store/) on each of the four        *)
(* storage providers: put, get with and without a refresh of the expiry,   *)
(* delete, search and the listing of namespaces.  All items have the same  *)
(* key, so that a namespace is an address; a namespace is a sequence of    *)
(* segments and a segment a sequence of letters, among them the separator  *)
(* with which memory (".") and blobs ("/") join the segments.  Filters,    *)
(* text queries, suffixes, scores and pages of results are left out.       *)
(***************************************************************************)
EXTENDS Naturals, Functions, SequencesExt

CONSTANTS
    Requests,   \* calls of the store; a put stores its own name as the value
    Namespaces, \* the namespaces that items are put in
    SearchPrefixes, \* the prefixes searched for and listed, <<>> for none
    Letters,    \* the letters of a segment (of one case, none a wildcard of LIKE)
    Separator,  \* the letter that separates segments
    Ttls,       \* the times to live that puts ask for, in units of the clock
    Never,      \* the expiry of an item without one
    None,       \* no item, no expected value
    Unknown,    \* whether the item is there cannot be told
    MaxTime     \* bound: where the clock stops

ASSUME ConstantsAssumption ==
    /\ Ttls \subseteq Nat \ {0}
    /\ MaxTime \in Nat
    /\ Never \notin Nat
    /\ {None, Unknown} \intersect Requests = {} /\ None # Unknown

ASSUME NamesAssumption ==
    /\ Separator \in Letters
    /\ Namespaces \union SearchPrefixes \subseteq Seq(Seq(Letters))

VARIABLES
    provider,   \* the storage provider; never changes
    clients,    \* whether clients wait for each other; never changes
    now,        \* the clock
    items,      \* the stored items, by place
    ask,        \* ask[q]: what q asks for
    pc,         \* pc[q]: the storage call that q makes next, or its outcome
    seen,       \* seen[q]: the item q read last
    expires,    \* expires[q]: the expiry that put q computed
    created,    \* created[q]: the creation time that q's upload keeps
    judged,     \* judged[q]: when q last looked at the clock
    todo,       \* todo[q]: blobs that scan q has yet to read
    found,      \* found[q]: items that search q answers, namespaces that list q answers
    sweeping,   \* expired blobs that a search deletes without waiting
    promised,   \* the expiry that the last writer of q's value asked for
    acked       \* acked[ns]: the value that the clients were last told is at ns

fixed == <<provider, clients>>
local == <<seen, expires, created, judged, todo, found>>
ghost == <<promised, acked>>
vars  == <<fixed, now, items, ask, pc, local, sweeping, ghost>>

Sql       == {"sqlite", "sqlserver"}
Providers == Sql \union {"memory", "azure"}
Remote    == provider \in {"azure", "sqlserver"}
Serial    == clients = "serial"

Depths == {1, Never}
PutAsks    == [op : {"put"}, ns : Namespaces, ttl : Ttls \union {Never}]
GetAsks    == [op : {"get"}, ns : Namespaces, refresh : BOOLEAN]
DeleteAsks == [op : {"delete"}, ns : Namespaces]
SearchAsks == [op : {"search"}, prefix : SearchPrefixes]
ListAsks   == [op : {"list"}, prefix : SearchPrefixes, depth : Depths]
Asks       == PutAsks \union GetAsks \union DeleteAsks \union SearchAsks \union ListAsks

Calls  == {"upload", "reread", "refresh", "deleteExpired", "scan"}
Idle   == \A q \in Requests : pc[q] \notin Calls

Items  == [ns : Namespaces, val : Requests, created : 0 .. MaxTime,
           expires : Nat \union {Never}]

ASSUME NoneAssumption == None \notin Items

-----------------------------------------------------------------------------
(* Addresses.  Memory and blobs join the segments; the SQL tables keep     *)
(* the JSON text of the namespace, which loses nothing.                    *)
Closed(ns) == FoldLeft(LAMBDA text, segment : text \o segment \o <<Separator>>, <<>>, ns)

Joined(ns) == IF ns = <<>> THEN <<>> ELSE Front(Closed(ns))

Place(ns) == IF provider \in Sql THEN ns ELSE Joined(ns)

(* The folder of a blob: without a text, the blob lies beside the folders. *)
Folder(ns) == IF Joined(ns) = <<>> THEN <<>> ELSE Append(Joined(ns), Separator)

(* Mutant: the folder of a blob prefix is not closed by a separator.       *)
UnderPrefixOpen(ns, prefix) ==
    IF provider = "memory" \/ provider = "azure" THEN IsPrefix(Joined(prefix), Joined(ns))
    ELSE IsPrefix(prefix, ns)

(* The folder of a prefix, unless the prefix is left out.                  *)
Opened(prefix) == IF prefix = <<>> THEN <<>> ELSE Append(Joined(prefix), Separator)

(* The items a search with this prefix looks at: namespaces that begin     *)
(* with its text (memory), blobs in its folder, rows LIKE its JSON text.   *)
UnderPrefix(ns, prefix) ==
    CASE provider = "memory" -> IsPrefix(Joined(prefix), Joined(ns))
      [] provider = "azure"  -> IsPrefix(Opened(prefix), Folder(ns))
      [] OTHER               -> IsPrefix(prefix, ns)

(* Mutant: an item is kept one instant too long.                           *)
ExpiredAtLate(item, time) == item.expires # Never /\ time > item.expires + 1

(* Memory keeps an item through its last instant, blobs do not.            *)
ExpiredAt(item, time) ==
    /\ item.expires # Never
    /\ IF provider = "memory" THEN time > item.expires ELSE time >= item.expires

Expired(item) == ExpiredAt(item, now)

Live == {p \in DOMAIN items : ~Expired(items[p])}

ItemAt(p) == IF p \in DOMAIN items THEN items[p] ELSE None

(* Mutant: the item is cleared, not removed.                               *)
WithoutValue(places) == [p \in DOMAIN items |-> IF p \in places THEN None ELSE items[p]]

Without(places) == Restrict(items, DOMAIN items \ places)

(* Mutant: the creation time of every write is its own.                    *)
CreatedAtNow(p) == now

(* A put keeps the creation time of what it replaces, expired or not.      *)
CreatedAt(p) == IF p \in DOMAIN items THEN items[p].created ELSE now

(* Mutant: an item that is there is kept.                                  *)
StoredOnce(ns, val, since, due) ==
    LET item == [ns |-> ns, val |-> val, created |-> since, expires |-> due]
    IN  [p \in DOMAIN items \union {Place(ns)} |-> IF p \in DOMAIN items THEN items[p] ELSE item]

Stored(ns, val, since, due) ==
    LET item == [ns |-> ns, val |-> val, created |-> since, expires |-> due]
    IN  [p \in DOMAIN items \union {Place(ns)} |-> IF p = Place(ns) THEN item ELSE items[p]]

(* The expiry a put asks for, and the one it stores: SQL tables have none. *)
Due(ttl)    == IF ttl = Never THEN Never ELSE now + ttl
Expiry(due) == IF provider \in Sql THEN Never ELSE due

-----------------------------------------------------------------------------
Init ==
    /\ provider \in Providers
    /\ clients \in {"serial", "concurrent"}
    /\ now = 0
    /\ items = <<>>
    /\ ask = [q \in Requests |-> None]
    /\ pc = [q \in Requests |-> "new"]
    /\ seen = [q \in Requests |-> None]
    /\ expires = [q \in Requests |-> Never]
    /\ created = [q \in Requests |-> 0]
    /\ judged = [q \in Requests |-> 0]
    /\ todo = [q \in Requests |-> {}]
    /\ found = [q \in Requests |-> {}]
    /\ sweeping = {}
    /\ promised = [q \in Requests |-> Never]
    /\ acked = [ns \in Namespaces |-> None]

Goto(q, step) == pc' = [pc EXCEPT ![q] = step]

Starts(q, what) ==
    /\ pc[q] = "new"
    /\ Serial => Idle
    /\ what \in Asks
    /\ ask' = [ask EXCEPT ![q] = what]

Told(ns, val) == acked' = [acked EXCEPT ![ns] = val]

-----------------------------------------------------------------------------
(***************************************************************************)
(* Writes.  Memory and SQLite put an item in one step.  SQL Server merges  *)
(* the row and reads it again for the answer.  A blob is read for its      *)
(* creation time, then uploaded whatever happened to it meanwhile.         *)
(***************************************************************************)
PutItem(q, ns, val, due) ==
    /\ IF provider = "azure"
       THEN /\ created' = [created EXCEPT ![q] = CreatedAt(Place(ns))]
            /\ expires' = [expires EXCEPT ![q] = due]
            /\ Goto(q, "upload")
            /\ UNCHANGED items
       ELSE /\ items' = Stored(ns, val, CreatedAt(Place(ns)), Expiry(due))
            /\ Goto(q, IF provider = "sqlserver" THEN "reread" ELSE "ok")
            /\ UNCHANGED <<created, expires>>
    /\ UNCHANGED <<fixed, now, todo, found, sweeping>>

(* A request ends; the clients are told of a put, or in doubt about it.    *)
Ends(q, outcome) ==
    /\ Goto(q, outcome)
    /\ IF ask[q].op = "put" THEN Told(ask[q].ns, IF outcome = "ok" THEN q ELSE Unknown)
       ELSE UNCHANGED acked

Put(q, ns, ttl) ==
    /\ Starts(q, [op |-> "put", ns |-> ns, ttl |-> ttl])
    /\ PutItem(q, ns, q, Due(ttl))
    /\ promised' = [promised EXCEPT ![q] = Due(ttl)]
    /\ IF pc'[q] = "ok" THEN Told(ns, q) ELSE UNCHANGED acked
    /\ UNCHANGED <<seen, judged>>

(* getItem re-puts the value it has read, without a time to live.          *)
Refresh(q) ==
    /\ pc[q] = "refresh"
    /\ PutItem(q, ask[q].ns, seen[q].val, Never)
    /\ promised' = IF provider = "azure" THEN promised
                   ELSE [promised EXCEPT ![seen[q].val] = Never]
    /\ UNCHANGED <<ask, seen, judged, acked>>

Uploaded(q) ==
    /\ pc[q] = "upload"
    /\ LET val == IF ask[q].op = "put" THEN q ELSE seen[q].val
       IN  /\ items' = Stored(ask[q].ns, val, created[q], expires[q])
           /\ promised' = [promised EXCEPT ![val] = expires[q]]
    /\ UNCHANGED <<fixed, now, ask, local, sweeping>>

Upload(q) == Uploaded(q) /\ Ends(q, "ok")

Reread(q) ==
    /\ pc[q] = "reread"
    /\ Ends(q, "ok")
    /\ UNCHANGED <<fixed, now, items, ask, local, sweeping, promised>>

Delete(q, ns) ==
    /\ Starts(q, [op |-> "delete", ns |-> ns])
    /\ items' = Without({Place(ns)})
    /\ Goto(q, "ok")
    /\ Told(ns, None)
    /\ UNCHANGED <<fixed, now, local, sweeping, promised>>

-----------------------------------------------------------------------------
(***************************************************************************)
(* Reads.  Memory deletes what it finds expired in the same step, a blob   *)
(* get in its next call, a blob search in calls nobody waits for.          *)
(***************************************************************************)
Get(q, ns, refresh) ==
    /\ Starts(q, [op |-> "get", ns |-> ns, refresh |-> refresh])
    /\ judged' = [judged EXCEPT ![q] = now]
    /\ LET item  == ItemAt(Place(ns))
           stale == item # None /\ Expired(item)
       IN  /\ seen' = [seen EXCEPT ![q] = IF stale THEN None ELSE item]
           /\ Goto(q, CASE stale /\ provider = "azure"        -> "deleteExpired"
                        [] item # None /\ ~stale /\ refresh   -> "refresh"
                        [] OTHER                              -> "ok")
           /\ items' = IF stale /\ provider = "memory" THEN Without({Place(ns)}) ELSE items
    /\ UNCHANGED <<fixed, now, expires, created, todo, found, sweeping, ghost>>

(* Blobs have no condition on a delete: it removes what is there by now.   *)
DeleteExpired(q) ==
    /\ pc[q] = "deleteExpired"
    /\ items' = Without({Place(ask[q].ns)})
    /\ Goto(q, "ok")
    /\ UNCHANGED <<fixed, now, ask, local, sweeping, ghost>>

Search(q, prefix) ==
    /\ Starts(q, [op |-> "search", prefix |-> prefix])
    /\ judged' = [judged EXCEPT ![q] = now]
    /\ LET inPrefix == {p \in DOMAIN items : UnderPrefix(items[p].ns, prefix)}
       IN  IF provider = "azure"
           THEN /\ todo' = [todo EXCEPT ![q] = inPrefix]
                /\ Goto(q, "scan")
                /\ UNCHANGED <<items, found>>
           ELSE /\ found' = [found EXCEPT ![q] = {items[p] : p \in inPrefix \intersect Live}]
                /\ items' = Restrict(items, Live)
                /\ Goto(q, "ok")
                /\ UNCHANGED todo
    /\ UNCHANGED <<fixed, now, seen, expires, created, sweeping, ghost>>

(* Text into segments: it parts a segment that holds the separator.        *)
Split(path) ==
    FoldLeft(LAMBDA segments, letter :
                IF letter = Separator THEN Append(segments, <<>>)
                ELSE [segments EXCEPT ![Len(segments)] = Append(@, letter)],
             << <<>> >>, path)

(* What a listing answers for a namespace: memory cuts it to the depth and *)
(* splits its text again, the others leave out what is too deep, blobs     *)
(* counting from the prefix.                                               *)
Listed(ns, prefix, depth) ==
    IF provider = "memory"
    THEN {Split(Joined(IF depth # Never /\ depth < Len(ns) THEN SubSeq(ns, 1, depth) ELSE ns))}
    ELSE {n \in {ns} : \/ depth = Never
                       \/ provider = "azure" /\ Len(n) <= Len(prefix) + depth
                       \/ provider \in Sql   /\ Len(n) <= depth}

List(q, prefix, depth) ==
    /\ Starts(q, [op |-> "list", prefix |-> prefix, depth |-> depth])
    /\ IF provider = "azure"
       THEN /\ todo' = [todo EXCEPT ![q] = {p \in DOMAIN items : UnderPrefix(items[p].ns, prefix)}]
            /\ Goto(q, "scan")
            /\ UNCHANGED found
       ELSE /\ found' = [found EXCEPT ![q] =
                            UNION {Listed(items[p].ns, prefix, depth) :
                                     p \in {l \in Live : IsPrefix(prefix, items[l].ns)}}]
            /\ Goto(q, "ok")
            /\ UNCHANGED todo
    /\ UNCHANGED <<fixed, now, items, seen, expires, created, judged, sweeping, ghost>>

(* A blob search or listing reads the blobs one by one; the search looked  *)
(* at the clock once, and does not wait for the deletes it asks for.       *)
Scan(q, p) ==
    /\ pc[q] = "scan"
    /\ p \in todo[q]
    /\ todo' = [todo EXCEPT ![q] = @ \ {p}]
    /\ LET item   == ItemAt(p)
           stale  == item # None /\ ExpiredAt(item, IF ask[q].op = "search" THEN judged[q] ELSE now)
           answer == IF item = None \/ stale THEN {}
                     ELSE IF ask[q].op = "search" THEN {item}
                     ELSE Listed(item.ns, ask[q].prefix, ask[q].depth)
       IN  /\ found' = [found EXCEPT ![q] = @ \union answer]
           /\ sweeping' = IF stale /\ ask[q].op = "search" THEN sweeping \union {p} ELSE sweeping
    /\ UNCHANGED <<fixed, now, items, ask, pc, seen, expires, created, judged, ghost>>

ScanEnds(q) ==
    /\ pc[q] = "scan"
    /\ todo[q] = {}
    /\ Goto(q, "ok")
    /\ UNCHANGED <<fixed, now, items, ask, local, sweeping, ghost>>

(* A delete that a search did not wait for: it may be late, or fail.       *)
Sweep(p) ==
    /\ p \in sweeping
    /\ sweeping' = sweeping \ {p}
    /\ \/ UNCHANGED <<items, acked>>
       \/ /\ items' = Without({p})
          /\ acked' = [ns \in Namespaces |->
                          IF Place(ns) = p /\ p \in Live THEN Unknown ELSE acked[ns]]
    /\ UNCHANGED <<fixed, now, ask, pc, local, promised>>

-----------------------------------------------------------------------------
(* A call of a remote store fails, or takes effect and loses its answer    *)
(* (a request that fails in its first call is one that never began).       *)
Fails(q) ==
    /\ Remote
    /\ pc[q] \in Calls
    /\ Ends(q, "error")
    /\ UNCHANGED <<fixed, now, items, ask, local, sweeping, promised>>

AnswerLost(q) == Remote /\ Uploaded(q) /\ Ends(q, "error")

Tick ==
    /\ now < MaxTime
    /\ now' = now + 1
    /\ UNCHANGED <<fixed, items, ask, pc, local, sweeping, ghost>>

Next ==
    \/ \E q \in Requests, ns \in Namespaces :
          \/ \E ttl \in Ttls \union {Never} : Put(q, ns, ttl)
          \/ \E refresh \in BOOLEAN : Get(q, ns, refresh)
          \/ Delete(q, ns)
    \/ \E q \in Requests, prefix \in SearchPrefixes :
          \/ Search(q, prefix)
          \/ \E depth \in Depths : List(q, prefix, depth)
    \/ \E q \in Requests :
          \/ Upload(q) \/ Reread(q) \/ Refresh(q) \/ DeleteExpired(q)
          \/ ScanEnds(q) \/ Fails(q) \/ AnswerLost(q)
          \/ \E p \in todo[q] : Scan(q, p)
    \/ \E p \in sweeping : Sweep(p)
    \/ Tick

Spec == Init /\ [][Next]_vars

-----------------------------------------------------------------------------
(* The shape of the state: items lie at the place of their namespace.      *)
TypeOK ==
    /\ provider \in Providers /\ clients \in {"serial", "concurrent"}
    /\ now \in 0 .. MaxTime
    /\ \A p \in DOMAIN items : items[p] \in Items /\ Place(items[p].ns) = p
    /\ ask \in [Requests -> Asks \union {None}]
    /\ pc \in [Requests -> Calls \union {"new", "ok", "error"}]
    /\ seen \in [Requests -> Items \union {None}]
    /\ expires \in [Requests -> Nat \union {Never}]
    /\ created \in [Requests -> 0 .. MaxTime] /\ judged \in [Requests -> 0 .. MaxTime]
    /\ DOMAIN todo = Requests /\ DOMAIN found = Requests
    /\ promised \in [Requests -> Nat \union {Never}]
    /\ acked \in [Namespaces -> Requests \union {None, Unknown}]

KeepsTtl == provider \in {"memory", "azure"}

(* "expired items not returned" (plan-002, AC-3.5) where the provider      *)
(* keeps the time to live: what a get or a search answers had not passed   *)
(* the expiry that its last writer asked for, when the request looked at   *)
(* the clock.                                                              *)
ServedInTime ==
    KeepsTtl =>
        \A q \in Requests :
            pc[q] = "ok" /\ ask[q].op \in {"get", "search"} =>
                \A item \in found[q] \union ({seen[q]} \ {None}) :
                    promised[item.val] = Never \/ judged[q] <= promised[item.val]

(* The store loses no item that has not expired, whatever reads collect    *)
(* what has: an item leaves it by a delete that was asked for, by its      *)
(* expiry, or, as a blob, by the late delete of a client that had read an  *)
(* expired item in its place.                                              *)
DeletedNow(p) ==
    \E q \in Requests : pc[q] = "new" /\ pc'[q] # "new" /\ ask'[q].op = "delete" /\ Place(ask'[q].ns) = p

CollectedLate(p) ==
    /\ provider = "azure"
    /\ \/ p \in sweeping
       \/ \E q \in Requests : pc[q] = "deleteExpired" /\ Place(ask[q].ns) = p

KeptUntilDue ==
    [][\A p \in DOMAIN items \ DOMAIN items' :
          DeletedNow(p) \/ CollectedLate(p) \/ (KeepsTtl /\ Expired(items[p]))]_vars

(* A namespace whose place is its own: no other joins to the same text.    *)
Own(ns) == \A other \in Namespaces \ {ns} : Place(other) # Place(ns)

(* Clients that wait for each other read what they wrote: a get answers    *)
(* the value they were last told of, refreshed or not, until its expiry,   *)
(* and nothing after a delete; a search finds each of those values that    *)
(* has not expired when it answers.  Not for values that a late sweep of a *)
(* blob search removed, nor for blobs beside the folders.                  *)
Answers(q) == pc[q] # "ok" /\ pc'[q] = "ok"

Current(val, time) ==
    /\ val \in Requests
    /\ KeepsTtl /\ promised[val] # Never => time < promised[val]

Gone(val, time) ==
    \/ val = None
    \/ val \in Requests /\ KeepsTtl /\ promised[val] # Never /\ time > promised[val]

GetAnswers(q) ==
    ask'[q].op = "get" /\ Own(ask'[q].ns) =>
        LET val == acked[ask'[q].ns]
        IN  /\ Current(val, judged'[q]) => seen'[q] # None /\ seen'[q].val = val
            /\ Gone(val, judged'[q])    => seen'[q] = None

SearchFinds(q) ==
    ask'[q].op = "search" =>
        \A ns \in Namespaces :
            /\ Own(ns) /\ (provider = "azure" => Joined(ns) # <<>>)
            /\ IsPrefix(ask'[q].prefix, ns)
            /\ Current(acked[ns], now)
            => \E item \in found'[q] : item.ns = ns /\ item.val = acked[ns]

AnswersLastWrite ==
    [][\A q \in Requests : Serial /\ Answers(q) => GetAnswers(q) /\ SearchFinds(q)]_vars

(* Writing over an item keeps its creation time: with any interleaving in  *)
(* memory and SQL, and for clients that wait for each other in blobs.      *)
CreatedKept ==
    [][provider # "azure" \/ Serial =>
          \A p \in DOMAIN items \intersect DOMAIN items' :
              items'[p].created = items[p].created]_vars

(* What is stored stays as it is until it is due: the item, and the time   *)
(* it was created (putItem, deleteItem, getItem).                          *)
ItemsKept == KeptUntilDue /\ CreatedKept

(* "Namespace prefix matching is hierarchical" (store.routes.ts:126) in    *)
(* SQL and in blobs: what a search finds, and what a listing names, is     *)
(* under the prefix, segment by segment, and was put there.  In blobs only *)
(* where no segment holds the separator.                                   *)
Plain(ns) == \A i \in DOMAIN ns : ~Contains(ns[i], Separator)

Named(q) == IF ask[q].op = "search" THEN {item.ns : item \in found[q]} ELSE found[q]

FoundUnderPrefix ==
    provider # "memory" =>
        \A q \in Requests : pc[q] = "ok" =>
            \A ns \in Named(q) :
                /\ ns \in Namespaces
                /\ provider \in Sql \/ (Plain(ns) /\ Plain(ask[q].prefix))
                       => IsPrefix(ask[q].prefix, ns)
=============================================================================
