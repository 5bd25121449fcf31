---------------------------- MODULE ThreadStates ----------------------------
(***************************************************************************)
(* The Threads API (src/src/modules/threads/) on each of the four storage  *)
(* providers: creating, patching, deleting, pruning and copying a thread,  *)
(* adding a state to its history (POST /threads/{id}/state), and reading   *)
(* the history.  A state is named by the request that added it; its        *)
(* `values` are the requests whose messages it holds, in order.  What a    *)
(* message says, the status of a thread and the parent of a state (the     *)
(* last but one of its `values`) are left out.                             *)
(***************************************************************************)
EXTENDS Integers, FiniteSets, SequencesExt

CONSTANTS
    Requests,     \* calls of the Threads API
    ClientIds,    \* thread ids that clients choose
    CopyIds,      \* thread ids that the server generates for copies
    None,         \* no thread, no state
    HistoryLimit, \* how many states SQLite reads when no limit is given: 100
    MaxTime,      \* bound: where the clock stops, in milliseconds
    MaxFaults     \* bound: storage calls that fail

ASSUME ConstantsAssumption ==
    /\ ClientIds \intersect CopyIds = {}
    /\ None \notin Requests \union ClientIds \union CopyIds
    /\ HistoryLimit \in Nat \ {0}
    /\ MaxTime \in Nat
    /\ MaxFaults \in Nat

VARIABLES
    provider,   \* the storage provider; never changes
    clients,    \* whether clients wait for each other; never changes
    now,        \* the clock
    faults,     \* storage calls that failed so far
    uploads,    \* uploads of thread blobs so far: the etag of the last one
    thread,     \* thread[t]: the stored thread
    states,     \* states[t]: the stored states, in the order they were stored
    req,        \* req[q]: how far q is and what it has read
    owed,       \* owed[t]: answered edits of t, no delete of t since
    born,       \* born[t]: requests that were told they created t, no delete since
    gone        \* threads whose delete was answered and that nothing can bring back

fixed == <<provider, clients>>
store == <<uploads, thread, states>>
ghost == <<owed, born, gone>>
vars  == <<fixed, now, faults, store, req, ghost>>

Sql       == {"sqlite", "sqlserver"}
Providers == Sql \union {"memory", "azure"}
Serial    == clients = "serial"

Threads == ClientIds \union CopyIds
Creates == {"raise", "do_nothing", "update"}    \* creates, by their if_exists
Deletes == {"delete", "prune"}
Ops     == Creates \union Deletes \union {"patch", "edit", "copy"}

Calls == {"find", "insert", "modify", "write", "newest", "download", "append",
          "remove", "list", "purge", "copy", "copyInsert", "copyHistory",
          "copyNext", "copyUpload"}
Ends  == {"answered", "failed"}

Times   == 0 .. MaxTime
Records == [meta : Requests \union {None}, values : Seq(Requests), tag : Nat]
States  == [by : Requests, at : Times, values : Seq(Requests)]

ASSUME NoneAssumption == None \notin Records \union States

InFlight(q) == req[q].pc \in Calls
Idle        == \A q \in Requests : ~InFlight(q)
Minted      == {req[q].target : q \in Requests}
\* Threads a client can name: a copy once its id was answered.
Known == ClientIds \union {req[q].target : q \in {p \in Requests : req[p].pc = "answered"}}

-----------------------------------------------------------------------------
(* Histories.  Memory keeps the order of insertion; the SQL tables order   *)
(* by created_at, SQLite then by the row id; a blob is named by the        *)
(* created_at of its state.                                                *)
Latest(s) == {i \in DOMAIN s : \A j \in DOMAIN s : s[j].at <= s[i].at}

MemoryGetState(s) == {s[Len(s)]}

\* Mutant: without the row id as the second key.
SqliteGetStateUntied(s) == {s[i] : i \in Latest(s)}

SqliteGetState(s) == {s[CHOOSE i \in Latest(s) : \A j \in Latest(s) : j <= i]}

SqlServerGetState(s) == {s[i] : i \in Latest(s)}

AzureGetState(s) == {s[i] : i \in Latest(s)}

(* The states that GET /state may answer: one, unless SQL Server holds     *)
(* several of one millisecond.                                             *)
Newest(s) ==
    IF s = <<>> THEN {None}
    ELSE IF provider = "memory" THEN MemoryGetState(s)
    ELSE IF provider = "sqlite" THEN SqliteGetState(s)
    ELSE IF provider = "sqlserver" THEN SqlServerGetState(s)
    ELSE AzureGetState(s)

(* The elements of a finite set, in the strict total order `before`.       *)
InOrder(S, before) ==
    CHOOSE p \in SetToSeqs(S) : \A i, j \in DOMAIN p : i < j => <<p[i], p[j]>> \in before

(* The history oldest first: by time, states of one time as they were      *)
(* stored (the row id of SQLite).                                          *)
Earlier(s) ==
    {p \in (DOMAIN s) \X (DOMAIN s) :
        s[p[1]].at < s[p[2]].at \/ (s[p[1]].at = s[p[2]].at /\ p[1] < p[2])}

ByTime(s) ==
    LET order == InOrder(DOMAIN s, Earlier(s)) IN [i \in 1 .. Len(s) |-> s[order[i]]]

LastOf(s, n) == IF Len(s) <= n THEN s ELSE SubSeq(s, Len(s) - n + 1, Len(s))

(* The elements of s at the places in I, in their order.                   *)
Picked(s, I) ==
    LET order == InOrder(I, {p \in I \X I : p[1] < p[2]})
    IN  [i \in 1 .. Cardinality(I) |-> s[order[i]]]

Before(s, time)  == {i \in DOMAIN s : s[i].at < time}
Fitting(s, fits) == {i \in DOMAIN s : s[i].by \in fits}

(* What getStateHistory answers, newest first: at most `limit` states that *)
(* were created before `before` and fit a filter on the metadata.  Memory  *)
(* and blobs filter and then cut, the SQL providers cut and then filter.   *)
MemoryGetStateHistory(s, limit, before, fits) ==
    Reverse(LastOf(Picked(s, Before(s, before) \intersect Fitting(s, fits)), limit))

AzureGetStateHistory(s, limit, before, fits) ==
    LET b == ByTime(s)
    IN  Reverse(LastOf(Picked(b, Before(b, before) \intersect Fitting(b, fits)), limit))

\* Mutant: a page begins with the state that the page before it ended with.
SqliteHistoryInclusive(s, limit, before, fits) ==
    LET b    == ByTime(s)
        page == Reverse(LastOf(Picked(b, Before(b, before + 1)), limit))
    IN  Picked(page, Fitting(page, fits))

SqliteGetStateHistory(s, limit, before, fits) ==
    LET b    == ByTime(s)
        page == Reverse(LastOf(Picked(b, Before(b, before)), limit))
    IN  Picked(page, Fitting(page, fits))

SqlServerGetStateHistory(s, limit, before, fits) ==
    LET b    == ByTime(s)
        page == Reverse(LastOf(Picked(b, Before(b, before)), limit))
    IN  Picked(page, Fitting(page, fits))

History(s, limit, before, fits) ==
    IF provider = "memory" THEN MemoryGetStateHistory(s, limit, before, fits)
    ELSE IF provider = "azure" THEN AzureGetStateHistory(s, limit, before, fits)
    ELSE IF provider = "sqlite" THEN SqliteGetStateHistory(s, limit, before, fits)
    ELSE SqlServerGetStateHistory(s, limit, before, fits)

Ats(s) == {s[i].at : i \in DOMAIN s}

\* The one blob of this name is removed, if it is there.
Without(s, at) ==
    IF at \in Ats(s) THEN RemoveAt(s, CHOOSE i \in DOMAIN s : s[i].at = at) ELSE s

\* A blob replaces the one that has its name.
AzureAddState(s, state) == Append(Without(s, state.at), state)

\* Mutant: no more states are kept than a history answers.
AddStateTrimmed(s, state) == LastOf(Append(s, state), HistoryLimit)

AddState(s, state) == IF provider = "azure" THEN AzureAddState(s, state) ELSE Append(s, state)

Bys(s) == {s[i].by : i \in DOMAIN s}
Distinct(s) == \A i, j \in DOMAIN s : s[i].at = s[j].at => i = j
StampsByName(s) == InOrder(Ats(s), {p \in Ats(s) \X Ats(s) : p[1] < p[2]})

-----------------------------------------------------------------------------
NoRequest == [op |-> "none", thread |-> None, pc |-> "idle", with |-> {}, old |-> None,
              seen |-> None, at |-> 0, todo |-> <<>>, found |-> FALSE, target |-> None,
              base |-> {}, missing |-> {}, copied |-> 0, behind |-> FALSE]

(* Threads exist, without a history, or do not.                            *)
Init ==
    /\ provider \in Providers
    /\ clients \in {"serial", "concurrent"}
    /\ now = 0
    /\ faults = 0
    /\ uploads = 0
    /\ thread \in [Threads -> {None, [meta |-> None, values |-> <<>>, tag |-> 0]}]
    /\ \A c \in CopyIds : thread[c] = None
    /\ states = [t \in Threads |-> <<>>]
    /\ req = [q \in Requests |-> NoRequest]
    /\ owed = [t \in Threads |-> {}]
    /\ born = [t \in Threads |-> {}]
    /\ gone = {}

(* req after q goes to its next call; with a field set.                    *)
Goto(q, call)           == [req EXCEPT ![q].pc = call]
GotoWith(q, call, seen) == [req EXCEPT ![q].pc = call, ![q].seen = seen]
Fails(q) == /\ req' = Goto(q, "failed")
            /\ UNCHANGED <<fixed, now, faults, store, ghost>>

\* The ETag that the next upload of a thread blob gets.
NextTag == IF provider = "azure" THEN uploads + 1 ELSE 0

(* A client calls: q starts.  Requests on one thread that overlap are kept *)
(* in each other's `with`.                                                 *)
Begin(q, op, t) ==
    /\ req[q].pc = "idle"
    /\ Serial => Idle
    /\ t \in Known
    /\ \E target \in IF op = "copy" THEN CopyIds \ Minted ELSE {None} :
          req' = [p \in Requests |->
                    IF p = q
                    THEN [NoRequest EXCEPT
                            !.op = op, !.thread = t, !.target = target,
                            !.pc = IF op \in Deletes THEN "remove" ELSE "find",
                            !.base = IF op = "copy" THEN owed[t] ELSE {},
                            !.with = {r \in Requests : InFlight(r) /\ req[r].thread = t}]
                    ELSE IF InFlight(p) /\ req[p].thread = t
                    THEN [req[p] EXCEPT !.with = @ \union {q}]
                    ELSE req[p]]
    /\ gone' = IF op \in Creates THEN gone \ {t} ELSE gone
    /\ UNCHANGED <<fixed, now, faults, store, owed, born>>

(* Whether nothing that q overlapped could bring its thread back.          *)
Undisturbed(q) == \A p \in req[q].with : req[p].op \in Deletes \union {"patch", "copy"}

(* Storage owes an answered edit to the clients unless it overlapped a     *)
(* delete of its thread.                                                   *)
Owing(q) == \A p \in req[q].with : req[p].op \notin Deletes

Answer(q) ==
    /\ req' = Goto(q, "answered")
    /\ owed' = IF req[q].op = "edit" /\ Owing(q)
               THEN [owed EXCEPT ![req[q].thread] = @ \union {q}] ELSE owed
    /\ born' = IF req[q].op \in Creates /\ req[q].pc = "insert"
               THEN [born EXCEPT ![req[q].thread] = @ \union {q}] ELSE born
    /\ UNCHANGED gone

-----------------------------------------------------------------------------
(* create                                                                  *)

FindToCreate(q) ==
    LET exists == thread[req[q].thread] # None
    IN  /\ req[q].pc = "find" /\ req[q].op \in Creates
        /\ IF exists /\ req[q].op = "do_nothing" THEN Answer(q)
           ELSE /\ req' = Goto(q, IF ~exists THEN "insert"
                                  ELSE IF req[q].op = "raise" THEN "failed" ELSE "modify")
                /\ UNCHANGED ghost
        /\ UNCHANGED <<fixed, now, faults, store>>

(* A record of t as it was created or copied, with the next etag.          *)
PutThread(t, record) ==
    /\ thread' = [thread EXCEPT ![t] = [record EXCEPT !.tag = NextTag]]
    /\ uploads' = NextTag

(* Map.set and an unconditional upload replace what is there; the SQL      *)
(* INSERT fails on the primary key.                                        *)
Insert(q) ==
    /\ req[q].pc = "insert"
    /\ IF provider \in Sql /\ thread[req[q].thread] # None THEN Fails(q)
       ELSE /\ PutThread(req[q].thread, [meta |-> q, values |-> <<>>, tag |-> 0])
            /\ Answer(q)
            /\ UNCHANGED <<fixed, now, faults, states>>

-----------------------------------------------------------------------------
(* repository.update, which patch, create with "update" and edit end with. *)

(* The messages of q's state: those of the state it read, and its own.     *)
MergedValues(q) ==
    Append(IF req[q].seen = None THEN <<>> ELSE req[q].seen.values, q)

Merged(q, record) ==
    IF req[q].op = "edit" THEN [record EXCEPT !.values = MergedValues(q)]
    ELSE [record EXCEPT !.meta = q]

FindToPatch(q) ==
    /\ req[q].pc = "find" /\ req[q].op = "patch"
    /\ req' = Goto(q, IF thread[req[q].thread] = None THEN "failed" ELSE "modify")
    /\ UNCHANGED <<fixed, now, faults, store, ghost>>

\* Mutant: update goes on with the record it did not find.
ModifyNothing(q) == req' = Goto(q, "write") /\ UNCHANGED ghost

(* update answers null for a thread that is not there: a patch answers     *)
(* 404, an edit does not look.                                             *)
ModifyMissing(q) ==
    IF req[q].op = "edit" THEN Answer(q)
    ELSE req' = Goto(q, "failed") /\ UNCHANGED ghost

(* Memory merges in one step.  The others read first.                      *)
MemoryUpdate(q) ==
    /\ provider = "memory"
    /\ PutThread(req[q].thread, Merged(q, thread[req[q].thread]))
    /\ Answer(q)
    /\ UNCHANGED states

UpdateReads(q) ==
    /\ provider # "memory"
    /\ req' = [req EXCEPT ![q].pc = "write", ![q].old = thread[req[q].thread]]
    /\ UNCHANGED <<store, ghost>>

Modify(q) ==
    /\ req[q].pc = "modify"
    /\ \/ thread[req[q].thread] = None /\ ModifyMissing(q) /\ UNCHANGED store
       \/ thread[req[q].thread] # None /\ (MemoryUpdate(q) \/ UpdateReads(q))
    /\ UNCHANGED <<fixed, now, faults>>

(* The SQL UPDATE writes every column of the row as it was read, or        *)
(* nothing if the row is gone.                                             *)
SqlUpdateWrites(q) ==
    /\ provider \in Sql
    /\ IF thread[req[q].thread] = None THEN UNCHANGED <<thread, uploads>>
       ELSE PutThread(req[q].thread, Merged(q, req[q].old))
    /\ Answer(q)

\* Mutant: without the condition on the etag.
AzureUpdateWritesBlindly(q) ==
    /\ provider = "azure"
    /\ PutThread(req[q].thread, Merged(q, req[q].old))
    /\ Answer(q)

(* The upload is conditional: it fails (412) if the blob was changed or    *)
(* removed since it was read.                                              *)
AzureUpdateWrites(q) ==
    /\ provider = "azure"
    /\ IF thread[req[q].thread] # None /\ thread[req[q].thread].tag = req[q].old.tag
       THEN PutThread(req[q].thread, Merged(q, req[q].old)) /\ Answer(q)
       ELSE req' = Goto(q, "failed") /\ UNCHANGED <<thread, uploads, ghost>>

Write(q) ==
    /\ req[q].pc = "write"
    /\ SqlUpdateWrites(q) \/ AzureUpdateWrites(q)
    /\ UNCHANGED <<fixed, now, faults, states>>

-----------------------------------------------------------------------------
(* updateState                                                             *)

(* The time of the state is taken before the newest one is read.           *)
FindToEdit(q) ==
    /\ req[q].pc = "find" /\ req[q].op = "edit"
    /\ req' = IF thread[req[q].thread] = None THEN Goto(q, "failed")
              ELSE [req EXCEPT ![q].pc = "newest", ![q].at = now]
    /\ UNCHANGED <<fixed, now, faults, store, ghost>>

(* For blobs: list, then download the blob with the last name.             *)
ReadNewest(q) ==
    /\ req[q].pc = "newest"
    /\ IF provider = "azure" /\ states[req[q].thread] # <<>>
       THEN req' = [req EXCEPT ![q].pc = "download",
                               ![q].todo = <<Last(StampsByName(states[req[q].thread]))>>]
       ELSE \E s \in Newest(states[req[q].thread]) : req' = GotoWith(q, "append", s)
    /\ UNCHANGED <<fixed, now, faults, store, ghost>>

(* The blob of t named by this time, if it is there.                       *)
Blob(t, at) ==
    IF at \in Ats(states[t])
    THEN states[t][CHOOSE i \in DOMAIN states[t] : states[t][i].at = at] ELSE None

DownloadNewest(q) ==
    /\ req[q].pc = "download"
    /\ req' = [req EXCEPT ![q].pc = "append", ![q].todo = <<>>,
                          ![q].seen = Blob(req[q].thread, Head(req[q].todo))]
    /\ UNCHANGED <<fixed, now, faults, store, ghost>>

(* The foreign key of the SQL tables needs the thread; memory and blobs    *)
(* do not look whether it still exists.                                    *)
AppendState(q) ==
    LET t == req[q].thread
    IN  /\ req[q].pc = "append"
        /\ IF provider \in Sql /\ thread[t] = None THEN Fails(q)
           ELSE /\ states' = [states EXCEPT ![t] =
                                AddState(@, [by |-> q, at |-> req[q].at,
                                             values |-> MergedValues(q)])]
                /\ req' = Goto(q, "modify")
                /\ UNCHANGED <<fixed, now, faults, thread, uploads, ghost>>

-----------------------------------------------------------------------------
(* delete and prune (of one thread; of several, one after the other).      *)

(* The answer of a delete: it is 404 if nothing was there.                 *)
RemoveAnswer(q, found) ==
    IF found \/ req[q].op = "prune" THEN "answered" ELSE "failed"

(* From the removal of its record on, t owes nothing.                      *)
Forget(t) ==
    /\ owed' = [owed EXCEPT ![t] = {}]
    /\ born' = [born EXCEPT ![t] = {}]

Removed(q, found) ==
    /\ req' = Goto(q, RemoveAnswer(q, found))
    /\ gone' = IF RemoveAnswer(q, found) = "answered" /\ Undisturbed(q)
               THEN gone \union {req[q].thread} ELSE gone

(* Memory deletes the states too; the SQL tables cascade.                  *)
RemoveAtOnce(q) ==
    LET t == req[q].thread
    IN  /\ provider # "azure"
        /\ thread' = [thread EXCEPT ![t] = None]
        /\ states' = [states EXCEPT ![t] = <<>>]
        /\ Removed(q, thread[t] # None)

AzureRemove(q) ==
    LET t == req[q].thread
    IN  /\ provider = "azure"
        /\ thread' = [thread EXCEPT ![t] = None]
        /\ req' = [req EXCEPT ![q].pc = "list", ![q].found = thread[t] # None]
        /\ UNCHANGED <<states, gone>>

RemoveThread(q) ==
    /\ req[q].pc = "remove"
    /\ RemoveAtOnce(q) \/ AzureRemove(q)
    /\ Forget(req[q].thread)
    /\ UNCHANGED <<fixed, now, faults, uploads>>

(* The history blobs are listed once, then deleted one by one.             *)
ListHistory(q) ==
    /\ req[q].pc = "list"
    /\ IF states[req[q].thread] = <<>> THEN Removed(q, req[q].found)
       ELSE /\ req' = [req EXCEPT ![q].pc = "purge",
                                  ![q].todo = StampsByName(states[req[q].thread])]
            /\ UNCHANGED gone
    /\ UNCHANGED <<fixed, now, faults, store, owed, born>>

Purge(q) ==
    LET t == req[q].thread
        at == Head(req[q].todo)
        found == req[q].found \/ at \in Ats(states[t])
    IN  /\ req[q].pc = "purge"
        /\ states' = [states EXCEPT ![t] = Without(@, at)]
        /\ IF Len(req[q].todo) = 1 THEN Removed(q, found)
           ELSE /\ req' = [req EXCEPT ![q].todo = Tail(@), ![q].found = found]
                /\ UNCHANGED gone
        /\ UNCHANGED <<fixed, now, faults, thread, uploads, owed, born>>

-----------------------------------------------------------------------------
(* copy                                                                    *)

FindToCopy(q) ==
    /\ req[q].pc = "find" /\ req[q].op = "copy"
    /\ req' = Goto(q, IF thread[req[q].thread] = None THEN "failed" ELSE "copy")
    /\ UNCHANGED <<fixed, now, faults, store, ghost>>

(* The copy is answered with the history h: what it misses of the states   *)
(* that were owed when it began and still are, and whether its newest      *)
(* state differs from that of a thread nobody else touched.                *)
Copied(q, h) ==
    LET source == states[req[q].thread]
    IN  req' = [req EXCEPT ![q].pc = "answered",
                  ![q].missing = ((req[q].base \intersect owed[req[q].thread])
                                    \intersect Bys(source)) \ Bys(h),
                  ![q].copied = Len(h),
                  ![q].behind = req[q].with = {} /\ Newest(h) # Newest(source)]

MemoryCopyThread(q) ==
    LET t == req[q].thread
        c == req[q].target
    IN  /\ provider = "memory"
        /\ PutThread(c, thread[t])
        /\ states' = [states EXCEPT ![c] = states[t]]
        /\ Copied(q, states[t])

CopyReads(q) ==
    /\ provider # "memory"
    /\ req' = [req EXCEPT ![q].pc = IF provider = "sqlserver" THEN "copyHistory" ELSE "copyInsert",
                          ![q].old = thread[req[q].thread]]
    /\ UNCHANGED store

Copy(q) ==
    /\ req[q].pc = "copy"
    /\ IF thread[req[q].thread] = None THEN req' = Goto(q, "failed") /\ UNCHANGED store
       ELSE MemoryCopyThread(q) \/ CopyReads(q)
    /\ UNCHANGED <<fixed, now, faults, ghost>>

(* SQLite and blobs store the new thread before its history.               *)
CopyInsert(q) ==
    /\ req[q].pc = "copyInsert"
    /\ PutThread(req[q].target, req[q].old)
    /\ req' = Goto(q, "copyHistory")
    /\ UNCHANGED <<fixed, now, faults, states, ghost>>

\* Mutant: the oldest states up to the limit.
SqliteCopyOldest(s) == SubSeq(ByTime(s), 1, IF Len(s) < HistoryLimit THEN Len(s) ELSE HistoryLimit)

(* What is left to copy: the newest states up to the limit, oldest first   *)
(* (SQLite); all of them (SQL Server); the names of the blobs.             *)
SqliteCopySource(s) == LastOf(ByTime(s), HistoryLimit)

CopySource(s) ==
    IF provider = "sqlite" THEN SqliteCopySource(s)
    ELSE IF provider = "sqlserver" THEN ByTime(s) ELSE StampsByName(s)

(* SQL Server inserts the thread and its states and commits; the others    *)
(* go on with one state after the other.                                   *)
SqlServerCopyCommit(q, source) ==
    /\ PutThread(req[q].target, req[q].old)
    /\ states' = [states EXCEPT ![req[q].target] = source]
    /\ Copied(q, source)

CopyHistory(q) ==
    LET source == CopySource(states[req[q].thread])
    IN  /\ req[q].pc = "copyHistory"
        /\ IF provider = "sqlserver" THEN SqlServerCopyCommit(q, source)
           ELSE /\ IF source = <<>> THEN Copied(q, <<>>)
                   ELSE req' = [req EXCEPT ![q].pc = "copyNext", ![q].todo = source]
                /\ UNCHANGED store
        /\ UNCHANGED <<fixed, now, faults, ghost>>

(* q is done with the head of what is left to copy; the copy's history is  *)
(* h.                                                                      *)
CopyAdvances(q, h) ==
    IF Len(req[q].todo) = 1 THEN Copied(q, h)
    ELSE req' = [req EXCEPT ![q].pc = "copyNext", ![q].todo = Tail(@), ![q].seen = None]

SqliteCopyNext(q) ==
    LET h == Append(states[req[q].target], Head(req[q].todo))
    IN  /\ provider = "sqlite"
        /\ states' = [states EXCEPT ![req[q].target] = h]
        /\ CopyAdvances(q, h)

(* A blob that was deleted after the listing is skipped.                   *)
AzureCopyNext(q) ==
    LET blob == Blob(req[q].thread, Head(req[q].todo))
    IN  /\ provider = "azure"
        /\ IF blob = None THEN CopyAdvances(q, states[req[q].target])
           ELSE req' = GotoWith(q, "copyUpload", blob)
        /\ UNCHANGED states

CopyNext(q) ==
    /\ req[q].pc = "copyNext"
    /\ SqliteCopyNext(q) \/ AzureCopyNext(q)
    /\ UNCHANGED <<fixed, now, faults, thread, uploads, ghost>>

CopyUpload(q) ==
    LET h == AzureAddState(states[req[q].target], req[q].seen)
    IN  /\ req[q].pc = "copyUpload"
        /\ states' = [states EXCEPT ![req[q].target] = h]
        /\ CopyAdvances(q, h)
        /\ UNCHANGED <<fixed, now, faults, thread, uploads, ghost>>

-----------------------------------------------------------------------------
(* A storage call throws and its request answers an error; what the        *)
(* request stored before stays.  SQL Server copies in a transaction, which *)
(* has stored nothing before it commits.                                   *)
CallFails(q) ==
    /\ InFlight(q)
    /\ faults < MaxFaults
    /\ faults' = faults + 1
    /\ req' = Goto(q, "failed")
    /\ UNCHANGED <<fixed, now, store, ghost>>

Tick ==
    /\ now < MaxTime
    /\ now' = now + 1
    /\ UNCHANGED <<fixed, faults, store, req, ghost>>

Step(q) ==
    \/ FindToCreate(q) \/ Insert(q)
    \/ FindToPatch(q)  \/ Modify(q) \/ Write(q)
    \/ FindToEdit(q)   \/ ReadNewest(q) \/ DownloadNewest(q) \/ AppendState(q)
    \/ RemoveThread(q)     \/ ListHistory(q) \/ Purge(q)
    \/ FindToCopy(q)   \/ Copy(q) \/ CopyInsert(q) \/ CopyHistory(q)
    \/ CopyNext(q)     \/ CopyUpload(q)

Next ==
    \/ Tick
    \/ \E q \in Requests :
          \/ \E op \in Ops, t \in Threads : Begin(q, op, t)
          \/ Step(q)
          \/ CallFails(q)

Spec == Init /\ [][Next]_vars

-----------------------------------------------------------------------------
TypeOK ==
    /\ provider \in Providers
    /\ clients \in {"serial", "concurrent"}
    /\ now \in Times
    /\ faults \in 0 .. MaxFaults
    /\ uploads \in Nat
    /\ thread \in [Threads -> Records \union {None}]
    /\ states \in [Threads -> Seq(States)]
    /\ \A q \in Requests :
          /\ req[q].op \in Ops \union {"none"}
          /\ req[q].pc \in Calls \union Ends \union {"idle"}
          /\ req[q].pc # "idle" => req[q].thread \in Threads
          /\ req[q].op = "copy" <=> req[q].target \in CopyIds
          /\ req[q].with \subseteq Requests \ {q}
          /\ req[q].old \in Records \union {None}
          /\ req[q].seen \in States \union {None}
          /\ req[q].pc = "write" => req[q].old # None
    /\ owed \in [Threads -> SUBSET Requests]
    /\ born \in [Threads -> SUBSET Requests]
    /\ gone \subseteq Threads

(* A state whose edit was answered stays in the history until its thread   *)
(* is deleted, whatever edits, patches, copies and failures overlap it.    *)
(* In blobs a state of the same millisecond may replace it.                *)
AcceptedKept ==
    \A t \in Threads : \A e \in owed[t] :
        \/ e \in Bys(states[t])
        \/ provider = "azure" /\ req[e].at \in Ats(states[t])

(* For a client that makes one call at a time, the state that GET /state   *)
(* answers holds the messages of every answered edit, and the values of    *)
(* the thread are those of that state: each edit builds on the one before. *)
(* SQL Server may order two edits of one millisecond either way.           *)
ConversationKept ==
    Serial =>
        \A t \in {u \in Threads : provider = "sqlserver" => Distinct(states[u])} :
            \A n \in Newest(states[t]) :
                /\ n # None => owed[t] \subseteq Range(n.values)
                /\ n = None => owed[t] = {}
                /\ Idle /\ faults = 0 /\ thread[t] # None
                       => thread[t].values = IF n = None THEN <<>> ELSE n.values

(* A copy that is answered holds every state that was owed when it began   *)
(* and still is, and its newest state is that of its source if nobody      *)
(* touched the source meanwhile.  SQLite copies the newest states up to    *)
(* the default limit of a history.                                         *)
CopyComplete ==
    \A q \in Requests : req[q].op = "copy" /\ req[q].pc = "answered" =>
        /\ req[q].missing # {} => provider = "sqlite" /\ req[q].copied >= HistoryLimit
        /\ ~req[q].behind

(* A deleted thread is gone with its history.  In the SQL tables no state  *)
(* outlives its thread; in memory and in blobs an edit that overlaps the   *)
(* delete may bring the history back, and a failed delete leaves some.     *)
(* A patch that overlaps the delete brings nothing back.                   *)
DeletedGone ==
    \A t \in Threads :
        /\ provider \in Sql /\ thread[t] = None => states[t] = <<>>
        /\ t \in gone => thread[t] = None /\ states[t] = <<>>

(* Of the creates of one thread at most one is told that it created it:    *)
(* in the SQL tables always, elsewhere for clients that wait.              *)
CreatedOnce ==
    provider \in Sql \/ Serial => \A t \in Threads : Cardinality(born[t]) <= 1

(* What a client was answered stays true: its edits are kept, and the      *)
(* creation of a thread is promised once.                                  *)
AnswersHold == AcceptedKept /\ CreatedOnce

(* The pages of a history: a page, and what comes before the creation time *)
(* of its last state, are the history, with every filter; and a page is    *)
(* empty only if nothing is left, or if a SQL provider has cut the page    *)
(* before it filtered it.  States of one time are told apart by no page,   *)
(* and in memory concurrent edits may be stored out of their order.        *)
PagesPartition ==
    \A t \in Threads : (Serial \/ provider # "memory") /\ Distinct(states[t]) =>
        \A limit \in 1 .. Len(states[t]), before \in 0 .. MaxTime + 1, fits \in SUBSET Requests :
            LET page == History(states[t], limit, before, fits)
                all  == History(states[t], Len(states[t]), before, fits)
            IN  IF page = <<>> THEN all # <<>> => provider \in Sql /\ fits # Requests
                ELSE all = page \o History(states[t], Len(states[t]), Last(page).at, fits)
=============================================================================
