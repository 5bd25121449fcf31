---------------------------- MODULE RecordSearch ----------------------------
(***************************************************************************)
(* Searching and counting threads, crons or assistants on each of the four *)
(* storage providers (src/src/storage/providers/), while they are written. *)
(* A search has a filter, a sort order, a page and, for threads, a choice  *)
(* of fields (`select`) with or without the state of the thread.  Of a     *)
(* record are kept its creation time, one value that filters look at, and  *)
(* what the other fields hold.  Listing the blobs of a container is one    *)
(* step; the order of the names tells nothing.  CronJobs completes this    *)
(* module with what writes the records.                                    *)
(***************************************************************************)
EXTENDS Integers, FiniteSets, SequencesExt

CONSTANTS
    Ids,         \* ids of threads, crons or assistants
    Searches,    \* searches and counts
    None,        \* no record
    Contents,    \* what a record holds besides its filtered value
    Asks         \* what searches ask for

\* A metadata value: the text "1", the number 1 or an object.
Values == {"text", "number", "object"}

\* `big`: the metadata does not fit the metadata of a blob.
Records == [at : 0 .. 1, value : Values, big : BOOLEAN, holds : Contents]

ASSUME ConstantsAssumption ==
    /\ IsFiniteSet(Ids)
    /\ None \notin Records
    /\ Asks \subseteq [op : {"search", "count", "ids"}, wanted : Values \union {"any"},
                      ids : SUBSET Ids, order : {"none", "asc", "desc"},
                      offset : Nat, limit : Nat \ {0}, state : BOOLEAN]
    /\ \A ask \in Asks : ask.op = "ids" <=> ask.ids # {}

VARIABLES
    provider,    \* the storage provider; never changes
    kind,        \* what is stored; never changes
    rows,        \* rows[i]: the stored record
    search,      \* search[s]: what s asks and how far it is
    seen,        \* seen[s][i]: what rows[i] has been since s began
    counts       \* counts[s]: how many rows fitted since s began

searchVars == <<search, seen, counts>>

Sql == {"sqlite", "sqlserver"}

Stored == {i \in Ids : rows[i] # None}

Found == [id : Ids, row : Records, full : BOOLEAN]

NoSearch == [ask |-> None, pc |-> "idle", todo |-> {}, got |-> {}, total |-> 0, items |-> <<>>]

InFlight(s) == search[s].pc \notin {"idle", "done"}
Ask(s)      == search[s].ask

-----------------------------------------------------------------------------
(* Filters.                                                                *)
EqualTo(row, wanted) == wanted = "any" \/ row.value = wanted

MemoryFits(row, wanted) == EqualTo(row, wanted)

(* json_extract gives a number for a number and the parameter is a text:   *)
(* the filter 1 finds "1".                                                 *)
SqliteThreadFits(row, wanted) == EqualTo(row, IF wanted = "number" THEN "text" ELSE wanted)

SqliteCronFits(row, wanted) == EqualTo(row, wanted)

(* JSON_VALUE gives a text for a text and for a number, and nothing for an *)
(* object.                                                                 *)
SqlServerThreadFits(row, wanted) ==
    \/ wanted = "any"
    \/ wanted \in {"text", "number"} /\ row.value \in {"text", "number"}

SqlServerCronFits(row, wanted) == EqualTo(row, wanted)

SqliteAssistantFits(row, wanted) == EqualTo(row, IF wanted = "number" THEN "text" ELSE wanted)

SqlServerAssistantFits(row, wanted) ==
    \/ wanted = "any"
    \/ wanted \in {"text", "number"} /\ row.value \in {"text", "number"}

AzureThreadFits(row, wanted) == EqualTo(row, wanted)

AzureCronFits(row, wanted) == EqualTo(row, wanted)

(* The search of assistants in blobs ignores the metadata, and the count   *)
(* compares it with a copy of it, which is not equal to it.                *)
AzureAssistantFits(ask) == ask.op = "search" \/ ask.wanted = "any"

(* The search of threads by their ids filters in the service.              *)
ServiceFits(row, wanted) == EqualTo(row, wanted)

SqliteFits(row, wanted) ==
    IF kind = "thread" THEN SqliteThreadFits(row, wanted)
    ELSE IF kind = "cron" THEN SqliteCronFits(row, wanted)
    ELSE SqliteAssistantFits(row, wanted)

SqlServerFits(row, wanted) ==
    IF kind = "thread" THEN SqlServerThreadFits(row, wanted)
    ELSE IF kind = "cron" THEN SqlServerCronFits(row, wanted)
    ELSE SqlServerAssistantFits(row, wanted)

AzureFits(row, ask) ==
    IF kind = "thread" THEN AzureThreadFits(row, ask.wanted)
    ELSE IF kind = "cron" THEN AzureCronFits(row, ask.wanted)
    ELSE AzureAssistantFits(ask)

Fits(row, ask) ==
    IF provider = "memory" THEN MemoryFits(row, ask.wanted)
    ELSE IF provider = "sqlite" THEN SqliteFits(row, ask.wanted)
    ELSE IF provider = "sqlserver" THEN SqlServerFits(row, ask.wanted)
    ELSE AzureFits(row, ask)

-----------------------------------------------------------------------------
(* Sorting and pages.  What the sort does not tell apart comes in any      *)
(* order.                                                                  *)
Sorted(p, order) ==
    \A i, j \in DOMAIN p : i < j =>
        /\ order = "asc"  => p[i].row.at <= p[j].row.at
        /\ order = "desc" => p[j].row.at <= p[i].row.at

(* Memory sorts only if it is asked to.                                    *)
MemoryOrder(order) == order

\* created_at, descending, if nothing is asked for
AzureOrder(order) == IF order = "none" THEN "desc" ELSE order

Order(order) == IF provider = "memory" THEN MemoryOrder(order) ELSE AzureOrder(order)

Paginate(p, ask) ==
    SubSeq(p, ask.offset + 1, IF ask.offset + ask.limit < Len(p) THEN ask.offset + ask.limit ELSE Len(p))

Pages(found, order, ask) == {Paginate(p, ask) : p \in {q \in SetToSeqs(found) : Sorted(q, order)}}

(* The fields that are answered: the state of a thread only if asked for.  *)
SelectIncludesState(ask) == kind = "thread" => ask.state

ProjectThread(item, ask) == [item EXCEPT !.full = @ /\ SelectIncludesState(ask)]

Matches(ask) ==
    {[id |-> i, row |-> rows[i], full |-> TRUE] : i \in {j \in Stored : Fits(rows[j], ask)}}

-----------------------------------------------------------------------------
InitSearch ==
    /\ search = [s \in Searches |-> NoSearch]
    /\ seen = [s \in Searches |-> [i \in Ids |-> {}]]
    /\ counts = [s \in Searches |-> {}]

Counted(r, ask) == Cardinality({i \in Ids : r[i] # None /\ Fits(r[i], ask)})

(* s asks for the records that fit a filter, or for the threads with some  *)
(* ids (each of them asked for once).                                      *)
BeginSearch(s, ask) ==
    /\ search[s].pc = "idle"
    /\ kind # "thread" => ask.op # "ids" /\ ask.state
    /\ kind = "cron" => ask.wanted # "number"
    /\ search' = [search EXCEPT ![s] = [NoSearch EXCEPT !.ask = ask,
                                          !.pc = IF ask.op = "ids" THEN "fetch" ELSE "query",
                                          !.todo = ask.ids]]
    /\ seen' = [seen EXCEPT ![s] = [i \in Ids |-> {rows[i]}]]
    /\ counts' = [counts EXCEPT ![s] = {Counted(rows, ask)}]
    /\ UNCHANGED rows

(* The record i becomes `row`, before the eyes of the searches.            *)
WriteRow(i, row) ==
    /\ rows' = [rows EXCEPT ![i] = row]
    /\ seen' = [s \in Searches |-> IF InFlight(s) THEN [seen[s] EXCEPT ![i] = @ \union {row}]
                                   ELSE seen[s]]
    /\ counts' = [s \in Searches |-> IF InFlight(s) THEN counts[s] \union {Counted(rows', Ask(s))}
                                     ELSE counts[s]]
    /\ UNCHANGED search

(* s is answered.                                                          *)
AnswerWith(s, total, items) ==
    search' = [search EXCEPT ![s].pc = "done", ![s].total = total, ![s].todo = {}, ![s].got = {},
                 ![s].items = [i \in DOMAIN items |-> ProjectThread(items[i], Ask(s))]]

Queries(s, at) == search[s].pc = "query" /\ provider = at /\ Ask(s).op = "search"
Counts(s, at)  == search[s].pc = "query" /\ provider = at /\ Ask(s).op = "count"

(* The rows that fit, filtered, counted, sorted and cut, in one step.      *)
AnswerAtOnce(s) ==
    LET found == Matches(Ask(s))
    IN  \E page \in Pages(found, Order(Ask(s).order), Ask(s)) :
            AnswerWith(s, Cardinality(found), page)

MemorySearch(s) == Queries(s, "memory") /\ AnswerAtOnce(s)

MemoryCount(s) == Counts(s, "memory") /\ AnswerWith(s, Cardinality(Matches(Ask(s))), <<>>)

(* The two statements of SQLite run without a pause.                       *)
SqliteSearch(s) == Queries(s, "sqlite") /\ AnswerAtOnce(s)

SqliteCount(s) == Counts(s, "sqlite") /\ AnswerWith(s, Cardinality(Matches(Ask(s))), <<>>)

(* SQL Server counts, and then queries the page.                           *)
SqlServerTotal(s) ==
    /\ Queries(s, "sqlserver")
    /\ search' = [search EXCEPT ![s].pc = "page", ![s].total = Cardinality(Matches(Ask(s)))]

SqlServerPage(s) ==
    /\ search[s].pc = "page"
    /\ \E page \in Pages(Matches(Ask(s)), Order(Ask(s).order), Ask(s)) :
          AnswerWith(s, search[s].total, page)

SqlServerCount(s) == Counts(s, "sqlserver") /\ AnswerWith(s, Cardinality(Matches(Ask(s))), <<>>)

-----------------------------------------------------------------------------
(* Azure.                                                                  *)

\* What the metadata of a blob tells of its thread: all but the state.
BuildThreadMetadata(row) == ~row.big

BlobToThread(i) == [id |-> i, row |-> rows[i], full |-> FALSE]

Body(i) == {[id |-> j, row |-> rows[j], full |-> TRUE] : j \in {i} \intersect Stored}

AzureCountAll(s) ==
    /\ Counts(s, "azure") /\ Ask(s).wanted = "any"
    /\ AnswerWith(s, Cardinality(Stored), <<>>)

\* Mutant: blobs without metadata of a thread are passed over.
AzureListBagged(s) ==
    LET listed == {i \in Stored : BuildThreadMetadata(rows[i])}
    IN  /\ search[s].pc = "query" /\ provider = "azure" /\ kind = "thread"
        /\ ~(Ask(s).op = "count" /\ Ask(s).wanted = "any")
        /\ search' = [search EXCEPT ![s].pc = "download",
                                    ![s].got = {BlobToThread(i) : i \in listed}]

(* Threads are listed with their metadata; those that have none there are  *)
(* downloaded.                                                             *)
AzureListThreads(s) ==
    LET listed == {i \in Stored : BuildThreadMetadata(rows[i])}
    IN  /\ search[s].pc = "query" /\ provider = "azure" /\ kind = "thread"
        /\ ~(Ask(s).op = "count" /\ Ask(s).wanted = "any")
        /\ search' = [search EXCEPT ![s].pc = "download", ![s].todo = Stored \ listed,
                                    ![s].got = {BlobToThread(i) : i \in listed}]

(* Crons and assistants are downloaded one by one.                         *)
AzureListCrons(s) ==
    /\ search[s].pc = "query" /\ provider = "azure" /\ kind = "cron"
    /\ ~(Ask(s).op = "count" /\ Ask(s).wanted = "any")
    /\ search' = [search EXCEPT ![s].pc = "download", ![s].todo = Stored]

AzureListAssistants(s) ==
    /\ search[s].pc = "query" /\ provider = "azure" /\ kind = "assistant"
    /\ ~(Ask(s).op = "count" /\ Ask(s).wanted = "any")
    /\ search' = [search EXCEPT ![s].pc = "download", ![s].todo = Stored]

(* A blob that was deleted after the listing is skipped.                   *)
AzureDownload(s, i) ==
    /\ search[s].pc = "download"
    /\ i \in search[s].todo
    /\ search' = [search EXCEPT ![s].todo = @ \ {i}, ![s].got = @ \union Body(i)]

\* Mutant: the page is cut before it is filtered.
AzureCollectPaged(s) ==
    LET KeepFitting(p) == SelectSeq(p, LAMBDA x : Fits(x.row, Ask(s)))
    IN  /\ search[s].pc = "download" /\ search[s].todo = {} /\ Ask(s).op = "search"
        /\ \E page \in Pages(search[s].got, Order(Ask(s).order), Ask(s)) :
              AnswerWith(s, Len(KeepFitting(page)), KeepFitting(page))

(* With everything listed and downloaded, the rows are filtered, counted,  *)
(* sorted and cut; a page that is to show the state of the threads is then *)
(* downloaded.                                                             *)
AzureCollect(s) ==
    LET found == {x \in search[s].got : Fits(x.row, Ask(s))}
        total == Cardinality(found)
    IN  /\ search[s].pc = "download" /\ search[s].todo = {} /\ Ask(s).op = "search"
        /\ \E page \in Pages(found, Order(Ask(s).order), Ask(s)) :
              IF kind = "thread" /\ Ask(s).state /\ page # <<>>
              THEN search' = [search EXCEPT ![s].pc = "hydrate", ![s].total = total,
                                ![s].todo = {x.id : x \in Range(page)}, ![s].items = page]
              ELSE AnswerWith(s, total, page)

AzureCountFitting(s) ==
    /\ search[s].pc = "download" /\ search[s].todo = {} /\ Ask(s).op = "count"
    /\ AnswerWith(s, Cardinality({x \in search[s].got : Fits(x.row, Ask(s))}), <<>>)

(* The body replaces the row as it is now; the row stays if it is gone.    *)
AzureHydrate(s, i) ==
    LET items == [k \in DOMAIN search[s].items |->
                    IF search[s].items[k].id = i /\ Body(i) # {}
                    THEN CHOOSE x \in Body(i) : TRUE ELSE search[s].items[k]]
    IN  /\ search[s].pc = "hydrate"
        /\ i \in search[s].todo
        /\ IF search[s].todo = {i} THEN AnswerWith(s, search[s].total, items)
           ELSE search' = [search EXCEPT ![s].todo = @ \ {i}, ![s].items = items]

-----------------------------------------------------------------------------
(* Threads by their ids: each is read on its own, and the service filters, *)
(* sorts and cuts.                                                         *)
FetchOne(s, i) ==
    /\ search[s].pc = "fetch"
    /\ i \in search[s].todo
    /\ search' = [search EXCEPT ![s].todo = @ \ {i}, ![s].got = @ \union Body(i)]

SearchByIds(s) ==
    LET found == {x \in search[s].got : ServiceFits(x.row, Ask(s).wanted)}
    IN  /\ search[s].pc = "fetch" /\ search[s].todo = {}
        /\ \E page \in Pages(found, Ask(s).order, Ask(s)) :
              AnswerWith(s, Cardinality(found), page)

SearchStep(s) ==
    /\ \/ MemorySearch(s) \/ MemoryCount(s) \/ SqliteSearch(s) \/ SqliteCount(s)
       \/ SqlServerTotal(s) \/ SqlServerPage(s) \/ SqlServerCount(s)
       \/ AzureCountAll(s) \/ AzureListThreads(s) \/ AzureListCrons(s)
       \/ AzureListAssistants(s) \/ AzureCollect(s) \/ AzureCountFitting(s)
       \/ SearchByIds(s)
       \/ \E i \in Ids : AzureDownload(s, i) \/ AzureHydrate(s, i) \/ FetchOne(s, i)
    /\ UNCHANGED <<rows, seen, counts>>

-----------------------------------------------------------------------------
SearchTypeOK ==
    /\ rows \in [Ids -> Records \union {None}]
    /\ \A s \in Searches :
          /\ search[s].ask \in Asks \union {None}
          /\ search[s].pc \in {"idle", "query", "page", "download", "hydrate", "fetch", "done"}
          /\ search[s].todo \subseteq Ids
          /\ search[s].got \subseteq Found
          /\ search[s].total \in 0 .. Cardinality(Ids)
          /\ search[s].items \in Seq(Found)
          /\ \A i \in Ids : seen[s][i] \subseteq Records \union {None}
          /\ counts[s] \subseteq 0 .. Cardinality(Ids)
    /\ kind = "cron" => \A i \in Stored : ~rows[i].big /\ rows[i].value # "number"

(* The filters that find what they say: all of them in memory, in blobs of *)
(* threads and crons, and on the columns of the SQL tables; on the         *)
(* metadata in SQL only a text, where no record holds a number instead.    *)
Plain(s) ==
    \/ Ask(s).wanted = "any"
    \/ kind = "cron" \/ Ask(s).op = "ids" \/ provider = "memory"
    \/ provider = "azure" /\ kind = "thread"
    \/ provider \in Sql /\ Ask(s).wanted = "text"
          /\ \A i \in Ids : \A r \in seen[s][i] : r = None \/ r.value # "number"

Asked(s) == IF Ask(s).op = "ids" THEN Ask(s).ids ELSE Ids

Quiet(s) == \A i \in Ids : Cardinality(seen[s][i]) = 1

(* What a search answers is there: no record twice, each as it was stored  *)
(* at some moment of the search, and fitting the filter - of a thread blob *)
(* whose body is downloaded for the answer, at some moment before.  And    *)
(* what is there is answered: a record that fitted all the time is missing *)
(* only if the page is full or begins later.  The answer is in the order   *)
(* that was asked for (unless a thread is deleted and created anew in      *)
(* between), and shows the state of the threads if that was asked for and  *)
(* nothing was written meanwhile.                                          *)
SearchFaithful ==
    \A s \in Searches : search[s].pc = "done" /\ Ask(s).op # "count" /\ Plain(s) =>
        LET items == search[s].items
            ids == {x.id : x \in Range(items)}
            Meets(r) == r # None /\ EqualTo(r, Ask(s).wanted)
        IN  /\ Cardinality(ids) = Len(items) /\ Len(items) <= Ask(s).limit
            /\ ids \subseteq Asked(s)
            /\ \A x \in Range(items) :
                  /\ x.row \in seen[s][x.id]
                  /\ \E r \in seen[s][x.id] : Meets(r)
                  /\ Meets(x.row) \/ (provider = "azure" /\ x.full)
                  /\ x.full => Ask(s).state
                  /\ Ask(s).state /\ Quiet(s) => x.full
            /\ Ask(s).offset = 0 /\ Len(items) < Ask(s).limit =>
                  \A i \in Asked(s) : (\A r \in seen[s][i] : Meets(r)) => i \in ids
            /\ (\A i \in Ids : \A q, r \in seen[s][i] \ {None} : q.at = r.at) =>
                  (Ask(s).order # "none" => Sorted(items, Ask(s).order))

(* The total is the number of records that fitted at some moment of the    *)
(* search, and the page has as many of them as it can have.  SQL Server    *)
(* counts and reads the page in two queries; blobs are downloaded one by   *)
(* one, and so are the threads of a search by ids: there the total is      *)
(* right if nothing is written meanwhile.                                  *)
TotalRight ==
    \A s \in Searches : search[s].pc = "done" /\ Plain(s) /\ Ask(s).op # "ids" =>
        /\ provider # "azure" \/ Quiet(s) => search[s].total \in counts[s]
        /\ Ask(s).op # "count" /\ (provider # "sqlserver" \/ Quiet(s)) =>
              LET left == search[s].total - Ask(s).offset
              IN  Len(search[s].items) = IF left < 0 THEN 0
                                         ELSE IF left < Ask(s).limit THEN left ELSE Ask(s).limit
=============================================================================
