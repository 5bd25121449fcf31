--------------------------- MODULE CronJobsProofs ---------------------------
(***************************************************************************)
(* What a search answers, how it counts, and what an update of a cron      *)
(* changes, proved for any finite set of ids, any searches and any         *)
(* requests (CronJobs, RecordSearch).                                      *)
(***************************************************************************)
EXTENDS CronJobs, FiniteSetTheorems, SequenceTheorems, TLAPS

-----------------------------------------------------------------------------
(* The inductive invariant.                                                *)

Pcs == {"idle", "query", "page", "download", "hydrate", "fetch", "done"}

SearchStates ==
    [ask : Asks \union {None}, pc : Pcs, todo : SUBSET Ids, got : SUBSET Found,
     total : 0 .. Cardinality(Ids), items : Seq(Found)]

JobStates ==
    [pc : Calls \union {"idle", "answered", "failed"}, op : {"none", "create", "update", "delete"},
     id : Ids \union {None}, field : Fields \union {None},
     to : {"text", "object", None}, payload : Contents, old : Records \union {None},
     stale : BOOLEAN]

\* What a cron may hold.
CronRow(row) == row = None \/ (~row.big /\ row.value # "number")

Shape ==
    /\ provider \in Sql \union {"memory", "azure"}
    /\ kind \in Kinds
    /\ clients \in {"serial", "concurrent"}
    /\ rows \in [Ids -> Records \union {None}]
    /\ search \in [Searches -> SearchStates]
    /\ seen \in [Searches -> [Ids -> SUBSET (Records \union {None})]]
    /\ counts \in [Searches -> SUBSET (0 .. Cardinality(Ids))]
    /\ job \in [Jobs -> JobStates]
    /\ used \subseteq Ids
    /\ writes \in 0 .. MaxWrites

\* The requests that write crons.
JobOK(j) ==
    /\ job[j].pc # "idle" =>
          /\ job[j].id \in used /\ job[j].field \in Fields /\ job[j].op # "none"
          /\ job[j].to \in {"text", "object"}
    /\ job[j].pc \in {"update", "write"} => job[j].op = "update"
    /\ job[j].pc = "write" => /\ job[j].old # None /\ CronRow(job[j].old)
                              /\ provider # "memory"

\* The id of a cron that is not stored yet.
NewOK(j) ==
    job[j].pc = "create" =>
        /\ rows[job[j].id] = None
        /\ \A k \in Jobs : job[k].pc = "create" /\ job[k].id = job[j].id => k = j

CronsOK ==
    /\ kind = "cron" => Stored \subseteq used /\ \A i \in Ids : CronRow(rows[i])
    /\ kind # "cron" => \A j \in Jobs : job[j].pc = "idle"
    /\ \A j \in Jobs : JobOK(j) /\ NewOK(j)

(* A record that was read is the stored one, as far as the write depends   *)
(* on it.                                                                  *)
Fresh(j) ==
    /\ job[j].pc = "write" /\ (Serial \/ ~job[j].stale) => rows[job[j].id] = job[j].old
    /\ job[j].pc \in {"update", "write"} /\ job[j].field \in Payload /\ Serial =>
          /\ rows[job[j].id] # None
          /\ \A f \in Payload \ {job[j].field} : job[j].payload[f] = rows[job[j].id].holds[f]

InTurn == Serial => \A j, k \in Jobs : Busy(j) /\ Busy(k) => j = k

-----------------------------------------------------------------------------
(* Searches.                                                               *)

\* Where a search can be.
PlaceOK(s) ==
    search[s].pc # "idle" =>
        /\ Ask(s) \in Asks
        /\ kind # "thread" => Ask(s).op # "ids" /\ Ask(s).state
        /\ search[s].pc = "query" => Ask(s).op # "ids" /\ search[s].got = {}
        /\ search[s].pc = "page" => provider = "sqlserver" /\ Ask(s).op = "search"
        /\ search[s].pc = "download" => provider = "azure" /\ Ask(s).op # "ids"
        /\ search[s].pc = "hydrate" => /\ provider = "azure" /\ kind = "thread"
                                       /\ Ask(s).op = "search" /\ Ask(s).state
        /\ search[s].pc = "fetch" => Ask(s).op = "ids"

WatchOK(s) ==
    /\ search[s].pc # "idle" => \A i \in Ids : IsFiniteSet(seen[s][i]) /\ seen[s][i] # {}
    /\ InFlight(s) => /\ \A i \in Ids : rows[i] \in seen[s][i]
                      /\ Counted(rows, Ask(s)) \in counts[s]

\* What was downloaded so far.
GotOK(s) ==
    search[s].pc \in {"download", "fetch"} =>
        /\ search[s].todo \subseteq Asked(s)
        /\ \A x \in search[s].got :
              /\ x.id \in Asked(s) /\ x.id \notin search[s].todo
              /\ x.row \in seen[s][x.id]
              /\ x.full \/ (kind = "thread" /\ search[s].pc = "download")
              /\ \A y \in search[s].got : x.id = y.id => x = y
        /\ \A i \in Asked(s) : None \in seen[s][i] \/ i \in search[s].todo
                                 \/ \E x \in search[s].got : x.id = i

\* A record that was asked for, and the ids that were.
Suits(ask, r) == r # None /\ EqualTo(r, ask.wanted)
AskedBy(ask)  == IF ask.op = "ids" THEN ask.ids ELSE Ids

(* A row that is answered at the storage provider `where`, of a record     *)
(* that was was[i] for the ids i.                                          *)
RowOK(where, ask, was, x) ==
    /\ x.id \in AskedBy(ask)
    /\ x.row \in was[x.id]
    /\ \E r \in was[x.id] : Suits(ask, r)
    /\ Suits(ask, x.row) \/ (where = "azure" /\ x.full /\ ask.state)

SameAge(was) == \A i \in Ids : \A q, r \in was[i] \ {None} : q.at = r.at

RowsOK(where, ask, was, items) ==
    /\ Len(items) <= ask.limit
    /\ \A k, l \in DOMAIN items : items[k].id = items[l].id => k = l
    /\ \A k \in DOMAIN items : RowOK(where, ask, was, items[k])
    /\ ask.offset = 0 /\ Len(items) < ask.limit =>
          \A i \in AskedBy(ask) : (\A r \in was[i] : Suits(ask, r)) =>
                                      \E k \in DOMAIN items : items[k].id = i
    /\ SameAge(was) /\ ask.order # "none" => Sorted(items, ask.order)

\* The rows that show the state of their thread.
FullOK(s) ==
    \A k \in DOMAIN search[s].items :
        LET x == search[s].items[k]
        IN  /\ search[s].pc = "done" => /\ x.full => Ask(s).state
                                        /\ Ask(s).state /\ Quiet(s) => x.full
            /\ search[s].pc = "hydrate" => x.id \in search[s].todo \/ x.full \/ ~Quiet(s)

AnswerOK(s) ==
    search[s].pc \in {"hydrate", "done"} /\ Ask(s).op # "count" /\ Plain(s) =>
        RowsOK(provider, Ask(s), seen[s], search[s].items) /\ FullOK(s)

PageLength(total, ask) ==
    LET left == total - ask.offset
    IN  IF left < 0 THEN 0 ELSE IF left < ask.limit THEN left ELSE ask.limit

TotalOK(s) ==
    search[s].pc \in {"page", "hydrate", "done"} /\ Ask(s).op # "ids" =>
        /\ provider # "azure" \/ Quiet(s) => search[s].total \in counts[s]
        /\ search[s].pc = "page" /\ Quiet(s) => search[s].total = Counted(rows, Ask(s))
        /\ search[s].pc # "page" /\ Ask(s).op # "count" /\ (provider # "sqlserver" \/ Quiet(s)) =>
              Len(search[s].items) = PageLength(search[s].total, Ask(s))

SearchOK(s) == PlaceOK(s) /\ WatchOK(s) /\ GotOK(s) /\ AnswerOK(s) /\ TotalOK(s)

JobsOK == CronsOK /\ InTurn /\ \A j \in Jobs : Fresh(j)

CronInv == Shape /\ JobsOK /\ \A s \in Searches : SearchOK(s)

-----------------------------------------------------------------------------
(* Pages.                                                                  *)

\* The arrangements of a finite set are the ways to number its elements.
LEMMA ArrangementProperties ==
    ASSUME NEW S, IsFiniteSet(S), NEW q \in SetToSeqs(S)
    PROVE  /\ Cardinality(S) \in Nat
           /\ q \in Seq(S) /\ Len(q) = Cardinality(S)
           /\ \A i, j \in 1 .. Cardinality(S) : q[i] = q[j] => i = j
           /\ \A x \in S : \E i \in 1 .. Cardinality(S) : q[i] = x
<1> DEFINE n == Cardinality(S)
<1>1. n \in Nat
  BY FS_CardinalityType
<1>2. q \in [1 .. n -> S] /\ \A i, j \in 1 .. n : i # j => q[i] # q[j]
  BY DEF SetToSeqs
<1>3. q \in Injection(1 .. n, S)
  BY <1>2 DEF Injection, IsInjective
<1>4. Cardinality(1 .. n) = n
  BY <1>1, FS_Interval
<1>5. q \in Surjection(1 .. n, S)
  BY <1>3, <1>4, FS_Injection
<1> QED
  BY <1>1, <1>2, <1>5 DEF Surjection

\* A page of the rows that were found: as long as it can be, in order, each
\* row at most once, and all of them if it is short and the first.
LEMMA PageProperties ==
    ASSUME NEW S, IsFiniteSet(S), NEW order, NEW ask \in Asks, NEW page \in Pages(S, order, ask)
    PROVE  /\ page \in Seq(S)
           /\ Len(page) = PageLength(Cardinality(S), ask)
           /\ Len(page) <= ask.limit
           /\ \A k, l \in DOMAIN page : page[k] = page[l] => k = l
           /\ Sorted(page, order)
           /\ ask.offset = 0 /\ Len(page) < ask.limit =>
                 \A x \in S : \E k \in DOMAIN page : page[k] = x
<1>1. PICK q \in SetToSeqs(S) : Sorted(q, order) /\ page = Paginate(q, ask)
  BY DEF Pages
<1> DEFINE c == Cardinality(S)
<1>2. /\ c \in Nat /\ q \in Seq(S) /\ Len(q) = c /\ DOMAIN q = 1 .. c
      /\ \A i, j \in 1 .. c : q[i] = q[j] => i = j
      /\ \A x \in S : \E i \in 1 .. c : q[i] = x
  BY ArrangementProperties
<1>3. ask.offset \in Nat /\ ask.limit \in Nat \ {0}
  BY ConstantsAssumption
<1> DEFINE m == ask.offset + 1
           n == IF ask.offset + ask.limit < c THEN ask.offset + ask.limit ELSE c
<1>4. page = SubSeq(q, m, n)
  BY <1>1, <1>2 DEF Paginate
<1>5. m \in Nat /\ n \in Nat /\ 1 <= m /\ n <= c
  BY <1>2, <1>3
<1> HIDE DEF m, n, c
<1>6. \A i \in m .. n : q[i] \in S
  BY <1>2, <1>5
<1>7. /\ page \in Seq(S)
      /\ Len(page) = IF m <= n THEN n - m + 1 ELSE 0
      /\ \A i \in 1 .. n - m + 1 : page[i] = q[m + i - 1]
  BY <1>4, <1>5, <1>6, SubSeqProperties, m \in Int, n \in Int
<1>8. DOMAIN page = 1 .. Len(page) /\ Len(page) \in Nat
  BY <1>7
<1>9. \A k \in DOMAIN page : m + k - 1 \in 1 .. c /\ page[k] = q[m + k - 1]
  <2> TAKE k \in DOMAIN page
  <2>1. k \in 1 .. n - m + 1
    BY <1>5, <1>7, <1>8
  <2>2. k \in Nat \ {0} /\ k <= n - m + 1
    BY <2>1, <1>5
  <2>3. m + k - 1 \in 1 .. c
    BY <2>2, <1>2, <1>5
  <2>4. page[k] = q[m + k - 1]
    BY <2>1, <1>7
  <2> QED
    BY <2>3, <2>4
<1>10. Len(page) = PageLength(c, ask) /\ Len(page) <= ask.limit
  BY <1>2, <1>3, <1>7 DEF PageLength, m, n
<1>11. \A k, l \in DOMAIN page : page[k] = page[l] => k = l
  <2> SUFFICES ASSUME NEW k \in DOMAIN page, NEW l \in DOMAIN page, page[k] = page[l]
               PROVE  k = l
    OBVIOUS
  <2>1. m + k - 1 = m + l - 1
    BY <1>2, <1>9
  <2> QED
    BY <2>1, <1>5, <1>8
<1>12. Sorted(page, order)
  <2> SUFFICES ASSUME NEW k \in DOMAIN page, NEW l \in DOMAIN page, k < l
               PROVE  /\ order = "asc"  => page[k].row.at <= page[l].row.at
                      /\ order = "desc" => page[l].row.at <= page[k].row.at
    BY DEF Sorted
  <2>1. m + k - 1 < m + l - 1
    BY <1>5, <1>8
  <2>2. /\ order = "asc"  => q[m + k - 1].row.at <= q[m + l - 1].row.at
        /\ order = "desc" => q[m + l - 1].row.at <= q[m + k - 1].row.at
    BY <2>1, <1>1, <1>2, <1>9 DEF Sorted
  <2> QED
    BY <2>2, <1>9
<1>13. ASSUME ask.offset = 0, Len(page) < ask.limit, NEW x \in S
       PROVE  \E k \in DOMAIN page : page[k] = x
  <2>1. PICK i \in 1 .. c : q[i] = x
    BY <1>2
  <2>2. m = 1 /\ n = c
    BY <1>13, <1>2, <1>3, <1>7 DEF m, n
  <2>3. i \in DOMAIN page /\ page[i] = q[i]
    BY <2>2, <1>2, <1>7, <1>8
  <2> QED
    BY <2>1, <2>3
<1> QED
  BY <1>7, <1>10, <1>11, <1>12, <1>13 DEF c

(* Rows with different ids are as many as their ids.                       *)
OneEach(S) == \A x, y \in S : x.id = y.id => x = y
IdsOf(S)   == {x.id : x \in S}

LEMMA CountedById ==
    ASSUME NEW S, OneEach(S), IsFiniteSet(IdsOf(S))
    PROVE  IsFiniteSet(S) /\ Cardinality(S) = Cardinality(IdsOf(S))
<1> DEFINE f == [x \in S |-> x.id]
<1>1. f \in Injection(S, IdsOf(S))
  BY DEF OneEach, IdsOf, Injection, IsInjective
<1>2. f \in Surjection(S, IdsOf(S))
  BY DEF IdsOf, Surjection
<1> QED
  BY <1>1, <1>2, FS_Injection

LEMMA IdsFinite == \A T \in SUBSET Ids : IsFiniteSet(T) /\ Cardinality(T) \in 0 .. Cardinality(Ids)
<1> TAKE T \in SUBSET Ids
<1>1. IsFiniteSet(T) /\ Cardinality(T) <= Cardinality(Ids)
  BY ConstantsAssumption, FS_Subset
<1>2. Cardinality(T) \in Nat /\ Cardinality(Ids) \in Nat
  BY <1>1, ConstantsAssumption, FS_CardinalityType
<1> QED
  BY <1>1, <1>2

-----------------------------------------------------------------------------
(* What is found.                                                          *)

\* Rows that may answer `ask`, and that leave none out.
Answering(S, ask, was) ==
    /\ \A x \in S : x.id \in AskedBy(ask) /\ x.row \in was[x.id] /\ Suits(ask, x.row)
    /\ \A i \in AskedBy(ask) : (\A r \in was[i] : Suits(ask, r)) => \E x \in S : x.id = i

LEMMA PageAnswers ==
    ASSUME NEW S \in SUBSET Found, IsFiniteSet(S), OneEach(S), NEW ask \in Asks, NEW was,
           Answering(S, ask, was), NEW order, ask.order # "none" => order = ask.order,
           NEW page \in Pages(S, order, ask), NEW where
    PROVE  RowsOK(where, ask, was, page)
<1>1. /\ page \in Seq(S) /\ Len(page) <= ask.limit
      /\ \A k, l \in DOMAIN page : page[k] = page[l] => k = l
      /\ Sorted(page, order)
      /\ ask.offset = 0 /\ Len(page) < ask.limit =>
            \A x \in S : \E k \in DOMAIN page : page[k] = x
  BY PageProperties
<1>2. \A k \in DOMAIN page : page[k] \in S
  BY <1>1
<1>3. \A k, l \in DOMAIN page : page[k].id = page[l].id => k = l
  BY <1>1, <1>2 DEF OneEach
<1>4. \A k \in DOMAIN page : RowOK(where, ask, was, page[k])
  BY <1>2 DEF Answering, RowOK
<1>5. ASSUME ask.offset = 0, Len(page) < ask.limit, NEW i \in AskedBy(ask),
             \A r \in was[i] : Suits(ask, r)
      PROVE  \E k \in DOMAIN page : page[k].id = i
  <2>1. PICK x \in S : x.id = i
    BY <1>5 DEF Answering
  <2> QED
    BY <2>1, <1>1, <1>5
<1>6. ask.order # "none" => Sorted(page, ask.order)
  BY <1>1
<1> QED
  BY <1>1, <1>3, <1>4, <1>5, <1>6 DEF RowsOK

\* The rows of some stored records.
RowsOf(N, of, full) == {[id |-> i, row |-> of[i], full |-> full] : i \in N}

LEMMA RowsOfProperties ==
    ASSUME NEW N \in SUBSET Ids, NEW of, \A i \in N : of[i] \in Records, NEW full \in BOOLEAN
    PROVE  LET S == RowsOf(N, of, full)
           IN  /\ S \in SUBSET Found /\ OneEach(S) /\ IdsOf(S) = N
               /\ IsFiniteSet(S) /\ Cardinality(S) = Cardinality(N)
               /\ \A x \in S : x.id \in N /\ x.row = of[x.id] /\ x.full = full
               /\ \A i \in N : \E x \in S : x.id = i
<1> DEFINE Row(i) == [id |-> i, row |-> of[i], full |-> full]
           S == RowsOf(N, of, full)
<1>1. /\ \A x \in S : \E i \in N : x = Row(i)
      /\ \A i \in N : Row(i) \in S
  BY DEF RowsOf
<1>2. \A i \in N : /\ Row(i) \in Found /\ Row(i).id = i /\ Row(i).row = of[i]
                   /\ Row(i).full = full
  BY DEF Found
<1> HIDE DEF Row, S
<1>3. S \in SUBSET Found
  BY <1>1, <1>2
<1>4. \A x \in S : x.id \in N /\ x.row = of[x.id] /\ x.full = full
  BY <1>1, <1>2
<1>5. \A i \in N : \E x \in S : x.id = i
  BY <1>1, <1>2
<1>6. OneEach(S)
  BY <1>1, <1>2 DEF OneEach
<1>7. IdsOf(S) = N
  BY <1>4, <1>5 DEF IdsOf
<1>8. IsFiniteSet(S) /\ Cardinality(S) = Cardinality(N)
  BY <1>6, <1>7, IdsFinite, CountedById
<1> QED
  BY <1>3, <1>4, <1>5, <1>6, <1>7, <1>8 DEF S

\* A filter that finds what it says fits the records that are equal to it.
LEMMA PlainFits ==
    ASSUME Shape, NEW s \in Searches, PlaceOK(s), search[s].pc # "idle", Plain(s),
           Ask(s).op # "ids", NEW i \in Ids, NEW row \in seen[s][i], row # None
    PROVE  Fits(row, Ask(s)) <=> EqualTo(row, Ask(s).wanted)
<1> USE DEF Fits, EqualTo, MemoryFits
<1>1. Ask(s).wanted \in Values \union {"any"} /\ kind \in {"thread", "cron", "assistant"}
  BY ConstantsAssumption DEF PlaceOK, Shape, Kinds
<1>2. row \in Records /\ row.value \in Values
  BY DEF Shape, Records
<1>3. CASE provider = "memory"
  BY <1>3
<1>4. CASE provider = "sqlite"
  BY <1>1, <1>2, <1>4
     DEF SqliteFits, SqliteThreadFits, SqliteCronFits, SqliteAssistantFits, Plain, Sql
<1>5. CASE provider = "sqlserver"
  BY <1>1, <1>2, <1>5 DEF SqlServerFits, SqlServerThreadFits, SqlServerCronFits,
     SqlServerAssistantFits, Plain, Sql, Values
<1>6. CASE provider = "azure"
  BY <1>1, <1>6
     DEF AzureFits, AzureThreadFits, AzureCronFits, AzureAssistantFits, Plain, Sql
<1> QED
  BY <1>3, <1>4, <1>5, <1>6 DEF Shape, Sql

\* The stored rows that fit, as one query reads them.
LEMMA MatchesRight ==
    ASSUME Shape, NEW s \in Searches, PlaceOK(s), WatchOK(s), InFlight(s), Ask(s).op # "ids"
    PROVE  LET S == Matches(Ask(s))
           IN  /\ S \in SUBSET Found /\ IsFiniteSet(S) /\ OneEach(S)
               /\ \A x \in S : x.full
               /\ Cardinality(S) = Counted(rows, Ask(s))
               /\ Cardinality(S) \in counts[s]
               /\ Cardinality(S) \in 0 .. Cardinality(Ids)
               /\ Plain(s) => Answering(S, Ask(s), seen[s])
<1> DEFINE S == Matches(Ask(s))
           N == {i \in Ids : rows[i] # None /\ Fits(rows[i], Ask(s))}
<1>1. S = RowsOf(N, rows, TRUE)
  <2>1. {j \in Stored : Fits(rows[j], Ask(s))} = N
    BY DEF Stored
  <2> QED
    BY <2>1 DEF Matches, RowsOf
<1>2. \A i \in N : rows[i] \in Records
  BY DEF Shape
<1>3. N \in SUBSET Ids /\ Cardinality(N) \in 0 .. Cardinality(Ids)
  BY IdsFinite
<1> HIDE DEF S
<1>4. /\ S \in SUBSET Found /\ OneEach(S) /\ IsFiniteSet(S) /\ Cardinality(S) = Cardinality(N)
      /\ \A x \in S : x.id \in N /\ x.row = rows[x.id] /\ x.full = TRUE
      /\ \A i \in N : \E x \in S : x.id = i
  <2> HIDE DEF N
  <2> DEFINE R == RowsOf(N, rows, TRUE)
  <2>1. /\ R \in SUBSET Found /\ OneEach(R) /\ IsFiniteSet(R) /\ Cardinality(R) = Cardinality(N)
        /\ \A x \in R : x.id \in N /\ x.row = rows[x.id] /\ x.full = TRUE
        /\ \A i \in N : \E x \in R : x.id = i
    BY <1>2, <1>3, RowsOfProperties
  <2> QED
    BY <2>1, <1>1
<1>5. Cardinality(N) = Counted(rows, Ask(s)) /\ Cardinality(N) \in counts[s]
  BY DEF Counted, WatchOK
<1>6. ASSUME Plain(s)
      PROVE  Answering(S, Ask(s), seen[s])
  <2>0. search[s].pc # "idle" /\ \A i \in Ids : rows[i] \in seen[s][i]
    BY DEF InFlight, WatchOK
  <2>1. \A i \in Stored : Fits(rows[i], Ask(s)) <=> Suits(Ask(s), rows[i])
    BY <1>6, <2>0, PlainFits DEF Stored, Suits
  <2>a. \A i : i \in N <=> i \in Stored /\ Fits(rows[i], Ask(s))
    BY DEF Stored
  <2> HIDE DEF N
  <2>2. \A x \in S : x.id \in Stored /\ x.row = rows[x.id] /\ Fits(x.row, Ask(s))
    BY <1>4, <2>a
  <2>3. \A i \in Stored : Fits(rows[i], Ask(s)) => \E x \in S : x.id = i
    BY <1>4, <2>a
  <2>4. \A i \in Ids : Suits(Ask(s), rows[i]) => i \in Stored
    BY DEF Suits, Stored
  <2>5. Stored \subseteq Ids /\ AskedBy(Ask(s)) = Ids
    BY DEF Stored, AskedBy
  <2> QED
    BY <2>0, <2>1, <2>2, <2>3, <2>4, <2>5 DEF Answering
<1> QED
  BY <1>3, <1>4, <1>5, <1>6 DEF S

\* While nothing is written, a record was only what it is.
LEMMA QuietMeansNow ==
    ASSUME NEW s \in Searches, WatchOK(s), InFlight(s), Quiet(s), NEW i \in Ids
    PROVE  seen[s][i] = {rows[i]}
<1>1. IsFiniteSet(seen[s][i]) /\ Cardinality(seen[s][i]) = 1 /\ rows[i] \in seen[s][i]
  BY DEF WatchOK, InFlight, Quiet
<1>2. PICK x : seen[s][i] = {x}
  BY <1>1, FS_Singleton
<1> QED
  BY <1>1, <1>2

\* The rows that were listed and downloaded, once that is complete.
LEMMA CollectedRight ==
    ASSUME Shape, NEW s \in Searches, PlaceOK(s), WatchOK(s), GotOK(s),
           search[s].pc = "download", search[s].todo = {}
    PROVE  LET S == {x \in search[s].got : Fits(x.row, Ask(s))}
           IN  /\ S \in SUBSET Found /\ IsFiniteSet(S) /\ OneEach(S)
               /\ kind # "thread" => \A x \in S : x.full
               /\ Cardinality(S) \in 0 .. Cardinality(Ids)
               /\ Quiet(s) => Cardinality(S) = Counted(rows, Ask(s)) /\ Cardinality(S) \in counts[s]
               /\ Plain(s) => Answering(S, Ask(s), seen[s])
<1> DEFINE S == {x \in search[s].got : Fits(x.row, Ask(s))}
           N == {i \in Ids : rows[i] # None /\ Fits(rows[i], Ask(s))}
<1>0. /\ Ask(s).op # "ids" /\ Asked(s) = Ids /\ AskedBy(Ask(s)) = Ids
      /\ search[s].pc # "idle" /\ InFlight(s) /\ search[s].got \subseteq Found
  BY DEF PlaceOK, Asked, AskedBy, InFlight, Shape, SearchStates
<1>1. /\ \A x \in search[s].got :
            /\ x.id \in Ids /\ x.row \in seen[s][x.id] /\ (kind # "thread" => x.full)
            /\ \A y \in search[s].got : x.id = y.id => x = y
      /\ \A i \in Ids : None \in seen[s][i] \/ \E x \in search[s].got : x.id = i
  BY <1>0 DEF GotOK
<1>2. S \in SUBSET Found /\ OneEach(S) /\ (kind # "thread" => \A x \in S : x.full)
  BY <1>0, <1>1 DEF OneEach
<1>3. IdsOf(S) \in SUBSET Ids
  BY <1>1 DEF IdsOf
<1>4. IsFiniteSet(S) /\ Cardinality(S) = Cardinality(IdsOf(S))
  BY <1>2, <1>3, IdsFinite, CountedById
<1>5. Cardinality(S) \in 0 .. Cardinality(Ids)
  BY <1>3, <1>4, IdsFinite
<1>6. \A x \in search[s].got : x.row \in Records /\ x.row # None
  BY <1>0, ConstantsAssumption DEF Found
<1>7. ASSUME Quiet(s)
      PROVE  Cardinality(S) = Counted(rows, Ask(s)) /\ Cardinality(S) \in counts[s]
  <2>1. \A i \in Ids : seen[s][i] = {rows[i]}
    BY <1>0, <1>7, QuietMeansNow
  <2>2. \A x \in search[s].got : x.row = rows[x.id]
    BY <1>1, <2>1
  <2>3. IdsOf(S) \subseteq N
    BY <2>2, <1>1, <1>6 DEF IdsOf
  <2>4. N \subseteq IdsOf(S)
    <3> SUFFICES ASSUME NEW i \in N
                 PROVE  \E x \in S : x.id = i
      BY DEF IdsOf
    <3>1. PICK x \in search[s].got : x.id = i
      BY <1>1, <2>1
    <3> QED
      BY <3>1, <2>2
  <2> QED
    BY <2>3, <2>4, <1>0, <1>4 DEF Counted, WatchOK
<1>8. ASSUME Plain(s)
      PROVE  Answering(S, Ask(s), seen[s])
  <2>1. \A x \in search[s].got : Fits(x.row, Ask(s)) <=> Suits(Ask(s), x.row)
    BY <1>0, <1>1, <1>6, <1>8, PlainFits DEF Suits
  <2>2. ASSUME NEW i \in Ids, \A r \in seen[s][i] : Suits(Ask(s), r)
        PROVE  \E x \in S : x.id = i
    <3>1. None \notin seen[s][i]
      BY <2>2 DEF Suits
    <3>2. PICK x \in search[s].got : x.id = i
      BY <3>1, <1>1
    <3> QED
      BY <3>2, <2>1, <2>2, <1>1
  <2>3. \A x \in S : x.id \in Ids /\ x.row \in seen[s][x.id] /\ Suits(Ask(s), x.row)
    BY <2>1, <1>1
  <2> HIDE DEF S
  <2> QED
    BY <2>2, <2>3, <1>0 DEF Answering
<1> QED
  BY <1>2, <1>4, <1>5, <1>7, <1>8

\* The threads that were read by their ids.
LEMMA FetchedRight ==
    ASSUME Shape, NEW s \in Searches, PlaceOK(s), WatchOK(s), GotOK(s),
           search[s].pc = "fetch", search[s].todo = {}
    PROVE  LET S == {x \in search[s].got : ServiceFits(x.row, Ask(s).wanted)}
           IN  /\ S \in SUBSET Found /\ IsFiniteSet(S) /\ OneEach(S)
               /\ \A x \in S : x.full
               /\ Cardinality(S) \in 0 .. Cardinality(Ids)
               /\ Answering(S, Ask(s), seen[s])
<1> DEFINE S == {x \in search[s].got : ServiceFits(x.row, Ask(s).wanted)}
<1>0. /\ Ask(s).op = "ids" /\ Asked(s) = AskedBy(Ask(s)) /\ Ask(s).ids \in SUBSET Ids
      /\ search[s].pc # "idle" /\ search[s].got \subseteq Found
  BY ConstantsAssumption DEF PlaceOK, Asked, AskedBy, Shape, SearchStates
<1>1. /\ \A x \in search[s].got :
            /\ x.id \in AskedBy(Ask(s)) /\ x.row \in seen[s][x.id] /\ x.full
            /\ \A y \in search[s].got : x.id = y.id => x = y
      /\ \A i \in AskedBy(Ask(s)) : None \in seen[s][i] \/ \E x \in search[s].got : x.id = i
  BY <1>0 DEF GotOK
<1>2. S \in SUBSET Found /\ OneEach(S) /\ (\A x \in S : x.full)
  BY <1>0, <1>1 DEF OneEach
<1>3. IdsOf(S) \in SUBSET Ids
  BY <1>0, <1>1 DEF IdsOf, AskedBy
<1>4. IsFiniteSet(S) /\ Cardinality(S) = Cardinality(IdsOf(S))
  BY <1>2, <1>3, IdsFinite, CountedById
<1>5. Cardinality(S) \in 0 .. Cardinality(Ids)
  BY <1>3, <1>4, IdsFinite
<1>6. \A x \in search[s].got : ServiceFits(x.row, Ask(s).wanted) <=> Suits(Ask(s), x.row)
  BY <1>0, ConstantsAssumption DEF Found, ServiceFits, Suits
<1>7. ASSUME NEW i \in AskedBy(Ask(s)), \A r \in seen[s][i] : Suits(Ask(s), r)
      PROVE  \E x \in S : x.id = i
  <2>1. None \notin seen[s][i]
    BY <1>7 DEF Suits
  <2>2. PICK x \in search[s].got : x.id = i
    BY <2>1, <1>1
  <2> QED
    BY <2>2, <1>1, <1>6, <1>7
<1>8. \A x \in S : x.id \in AskedBy(Ask(s)) /\ x.row \in seen[s][x.id] /\ Suits(Ask(s), x.row)
  BY <1>1, <1>6
<1> HIDE DEF S
<1> QED
  BY <1>2, <1>4, <1>5, <1>7, <1>8 DEF S, Answering

-----------------------------------------------------------------------------
(* Steps of a search.                                                      *)

Unwritten == UNCHANGED <<provider, kind, rows, seen, counts>>

LEMMA AnswerFields ==
    ASSUME Shape, NEW s \in Searches, NEW total \in 0 .. Cardinality(Ids), NEW items \in Seq(Found),
           search[s].ask \in Asks, AnswerWith(s, total, items)
    PROVE  /\ search' \in [Searches -> SearchStates]
           /\ \A t \in Searches \ {s} : search'[t] = search[t]
           /\ search'[s].pc = "done" /\ search'[s].ask = search[s].ask
           /\ search'[s].total = total
           /\ Len(search'[s].items) = Len(items) /\ DOMAIN search'[s].items = DOMAIN items
           /\ \A k \in DOMAIN items :
                 /\ search'[s].items[k].id = items[k].id
                 /\ search'[s].items[k].row = items[k].row
                 /\ search'[s].items[k].full <=> items[k].full /\ SelectIncludesState(Ask(s))
<1> DEFINE shown == [k \in DOMAIN items |-> ProjectThread(items[k], Ask(s))]
<1>1. SelectIncludesState(Ask(s)) \in BOOLEAN
  BY ConstantsAssumption DEF SelectIncludesState, Ask
<1>2. ASSUME NEW x \in Found
      PROVE  /\ ProjectThread(x, Ask(s)) \in Found
             /\ ProjectThread(x, Ask(s)).id = x.id /\ ProjectThread(x, Ask(s)).row = x.row
             /\ ProjectThread(x, Ask(s)).full <=> x.full /\ SelectIncludesState(Ask(s))
  BY <1>1 DEF ProjectThread, Found
<1>3. DOMAIN items = 1 .. Len(items) /\ Len(items) \in Nat /\ \A k \in DOMAIN items : items[k] \in Found
  OBVIOUS
<1>4. shown \in Seq(Found) /\ Len(shown) = Len(items) /\ DOMAIN shown = DOMAIN items
  <2>1. shown \in [1 .. Len(items) -> Found]
    BY <1>2, <1>3
  <2> QED
    BY <2>1, <1>3
<1>5. \A k \in DOMAIN items :
        /\ shown[k].id = items[k].id /\ shown[k].row = items[k].row
        /\ shown[k].full <=> items[k].full /\ SelectIncludesState(Ask(s))
  BY <1>2, <1>3
<1> HIDE DEF shown
<1>6. search' = [search EXCEPT ![s].pc = "done", ![s].total = total, ![s].todo = {}, ![s].got = {},
                   ![s].items = shown]
  BY DEF AnswerWith, shown
<1>7. search \in [Searches -> SearchStates]
  BY DEF Shape
<1>8. /\ search' = [search EXCEPT ![s] = search'[s]]
      /\ search'[s] = [search[s] EXCEPT !.pc = "done", !.total = total, !.todo = {}, !.got = {},
                                       !.items = shown]
  BY <1>6, <1>7
<1>9. search[s] \in SearchStates
  BY <1>7
<1>10. /\ search'[s] \in SearchStates
       /\ search'[s].pc = "done" /\ search'[s].ask = search[s].ask
       /\ search'[s].total = total /\ search'[s].items = shown
  BY <1>4, <1>8, <1>9 DEF SearchStates, Pcs
<1>11. search' \in [Searches -> SearchStates] /\ \A t \in Searches \ {s} : search'[t] = search[t]
  BY <1>7, <1>8, <1>10
<1> QED
  BY <1>4, <1>5, <1>10, <1>11

\* The other searches see nothing of a step of s.
LEMMA OthersKept ==
    ASSUME NEW t \in Searches, SearchOK(t), UNCHANGED <<provider, kind, rows>>,
           search'[t] = search[t], seen'[t] = seen[t], counts'[t] = counts[t]
    PROVE  SearchOK(t)'
<1>1. Ask(t)' = Ask(t) /\ InFlight(t)' = InFlight(t) /\ Asked(t)' = Asked(t)
  BY DEF Ask, InFlight, Asked
<1>2. Quiet(t)' = Quiet(t)
  BY DEF Quiet
<1>3. Plain(t)' = Plain(t)
  BY <1>1 DEF Plain
<1>4. Counted(rows, Ask(t))' = Counted(rows, Ask(t))
  BY <1>1 DEF Counted, Fits, SqliteFits, SqlServerFits, AzureFits
<1>5. PlaceOK(t)' /\ WatchOK(t)'
  BY <1>1, <1>4 DEF SearchOK, PlaceOK, WatchOK
<1>6. GotOK(t)'
  BY <1>1 DEF SearchOK, GotOK
<1>7. AnswerOK(t)'
  <2>1. FullOK(t)' = FullOK(t)
    BY <1>1, <1>2 DEF FullOK
  <2> QED
    BY <2>1, <1>1, <1>3 DEF SearchOK, AnswerOK
<1>8. TotalOK(t)'
  BY <1>1, <1>2, <1>4 DEF SearchOK, TotalOK
<1> QED
  BY <1>5, <1>6, <1>7, <1>8 DEF SearchOK

\* s has made a step that keeps the invariant.
Stepped(s) ==
    /\ search' \in [Searches -> SearchStates]
    /\ SearchOK(s)'
    /\ \A t \in Searches \ {s} : search'[t] = search[t]

(* An answer is right if the page it shows is.                             *)
LEMMA AnsweredOK ==
    ASSUME Shape, NEW s \in Searches, SearchOK(s), InFlight(s), Unwritten,
           NEW total \in 0 .. Cardinality(Ids), NEW items \in Seq(Found),
           AnswerWith(s, total, items),
           Ask(s).op # "count" =>
              /\ Plain(s) => RowsOK(provider, Ask(s), seen[s], items)
              /\ Ask(s).state /\ Quiet(s) => \A k \in DOMAIN items : items[k].full,
           Ask(s).op # "ids" =>
              /\ provider # "azure" \/ Quiet(s) => total \in counts[s]
              /\ Ask(s).op # "count" /\ (provider # "sqlserver" \/ Quiet(s)) =>
                    Len(items) = PageLength(total, Ask(s))
    PROVE  Stepped(s)
<1> USE DEF Unwritten
<1>0. /\ search[s].pc # "idle" /\ Ask(s) = search[s].ask /\ search[s].ask \in Asks
      /\ kind # "thread" => Ask(s).op # "ids" /\ Ask(s).state
      /\ Ask(s).state \in BOOLEAN
  BY ConstantsAssumption DEF InFlight, SearchOK, PlaceOK, Ask
<1>1. /\ search' \in [Searches -> SearchStates]
      /\ \A t \in Searches \ {s} : search'[t] = search[t]
      /\ search'[s].pc = "done" /\ search'[s].ask = search[s].ask
      /\ search'[s].total = total
  BY <1>0, AnswerFields
<1> DEFINE shown == search'[s].items
<1>2. /\ Len(shown) = Len(items) /\ DOMAIN shown = DOMAIN items
      /\ \A k \in DOMAIN items :
            /\ shown[k].id = items[k].id /\ shown[k].row = items[k].row
            /\ shown[k].full <=> items[k].full /\ SelectIncludesState(Ask(s))
  BY <1>0, AnswerFields
<1>3. Ask(s)' = Ask(s) /\ Quiet(s)' = Quiet(s) /\ Plain(s)' = Plain(s)
  BY <1>0, <1>1 DEF Ask, Quiet, Plain
<1>4. PlaceOK(s)'
  BY <1>0, <1>1, <1>3 DEF PlaceOK
<1>5. WatchOK(s)' /\ GotOK(s)'
  BY <1>0, <1>1 DEF SearchOK, WatchOK, GotOK, InFlight
<1>6. AnswerOK(s)'
  <2> SUFFICES ASSUME Ask(s).op # "count"
               PROVE  /\ Plain(s) => RowsOK(provider, Ask(s), seen[s], shown)
                      /\ FullOK(s)'
    BY <1>3 DEF AnswerOK
  <2>1. ASSUME Plain(s)
        PROVE  RowsOK(provider, Ask(s), seen[s], shown)
    <3>1. RowsOK(provider, Ask(s), seen[s], items)
      BY <2>1
    <3>2. \A k \in DOMAIN shown : RowOK(provider, Ask(s), seen[s], shown[k])
      BY <3>1, <1>0, <1>2 DEF RowsOK, RowOK, SelectIncludesState
    <3>3. SameAge(seen[s]) /\ Ask(s).order # "none" => Sorted(shown, Ask(s).order)
      BY <3>1, <1>2 DEF RowsOK, Sorted
    <3> HIDE DEF shown
    <3> QED
      BY <3>1, <3>2, <3>3, <1>2 DEF RowsOK
  <2>2. FullOK(s)'
    BY <1>0, <1>1, <1>2, <1>3 DEF FullOK, SelectIncludesState
  <2> QED
    BY <2>1, <2>2
<1>7. TotalOK(s)'
  BY <1>1, <1>2, <1>3 DEF TotalOK
<1> QED
  BY <1>1, <1>4, <1>5, <1>6, <1>7 DEF SearchOK, Stepped

LEMMA OrderAsked ==
    ASSUME NEW order, order # "none"
    PROVE  Order(order) = order
BY DEF Order, MemoryOrder, AzureOrder

\* The rows that fit, and their page, in one query.
LEMMA AtOnceOK ==
    ASSUME Shape, NEW s \in Searches, SearchOK(s), Unwritten, search[s].pc = "query",
           AnswerAtOnce(s)
    PROVE  Stepped(s)
<1>0. /\ PlaceOK(s) /\ WatchOK(s) /\ InFlight(s) /\ Ask(s) \in Asks /\ Ask(s).op # "ids"
  BY DEF SearchOK, PlaceOK, InFlight
<1> DEFINE found == Matches(Ask(s))
<1>1. /\ found \in SUBSET Found /\ IsFiniteSet(found) /\ OneEach(found)
      /\ \A x \in found : x.full
      /\ Cardinality(found) \in counts[s] /\ Cardinality(found) \in 0 .. Cardinality(Ids)
      /\ Plain(s) => Answering(found, Ask(s), seen[s])
  BY <1>0, MatchesRight
<1>2. PICK page \in Pages(found, Order(Ask(s).order), Ask(s)) :
         AnswerWith(s, Cardinality(found), page)
  BY DEF AnswerAtOnce
<1> HIDE DEF found
<1>3. page \in Seq(found) /\ Len(page) = PageLength(Cardinality(found), Ask(s))
  BY <1>0, <1>1, PageProperties
<1>4. page \in Seq(Found) /\ \A k \in DOMAIN page : page[k].full
  BY <1>1, <1>3
<1>5. Plain(s) => RowsOK(provider, Ask(s), seen[s], page)
  BY <1>0, <1>1, OrderAsked, PageAnswers
<1> QED
  BY <1>0, <1>1, <1>2, <1>3, <1>4, <1>5, AnsweredOK

\* A number that is answered without rows.
LEMMA CountOK ==
    ASSUME Shape, NEW s \in Searches, SearchOK(s), Unwritten, InFlight(s), Ask(s).op = "count",
           NEW total \in 0 .. Cardinality(Ids), AnswerWith(s, total, <<>>),
           provider # "azure" \/ Quiet(s) => total \in counts[s]
    PROVE  Stepped(s)
<1> <<>> \in Seq(Found)
  OBVIOUS
<1> QED
  BY AnsweredOK

LEMMA CountMatchesOK ==
    ASSUME Shape, NEW s \in Searches, SearchOK(s), Unwritten, search[s].pc = "query",
           Ask(s).op = "count", AnswerWith(s, Cardinality(Matches(Ask(s))), <<>>)
    PROVE  Stepped(s)
<1>1. PlaceOK(s) /\ WatchOK(s) /\ InFlight(s) /\ Ask(s).op # "ids"
  BY DEF SearchOK, InFlight
<1>2. /\ Cardinality(Matches(Ask(s))) \in counts[s]
      /\ Cardinality(Matches(Ask(s))) \in 0 .. Cardinality(Ids)
  BY <1>1, MatchesRight
<1> QED
  BY <1>1, <1>2, CountOK

LEMMA AzureCountAllOK ==
    ASSUME Shape, NEW s \in Searches, SearchOK(s), Unwritten, AzureCountAll(s)
    PROVE  Stepped(s)
<1>0. /\ search[s].pc = "query" /\ provider = "azure" /\ Ask(s).op = "count"
      /\ Ask(s).wanted = "any" /\ AnswerWith(s, Cardinality(Stored), <<>>)
  BY DEF AzureCountAll, Counts
<1>1. InFlight(s) /\ Counted(rows, Ask(s)) \in counts[s]
  BY <1>0 DEF SearchOK, InFlight, WatchOK
<1>2. \A row : Fits(row, Ask(s))
  BY <1>0 DEF Fits, AzureFits, AzureThreadFits, AzureCronFits, AzureAssistantFits, EqualTo
<1>3. Stored = {i \in Ids : rows[i] # None /\ Fits(rows[i], Ask(s))}
  BY <1>2 DEF Stored
<1>4. Cardinality(Stored) = Counted(rows, Ask(s)) /\ Cardinality(Stored) \in 0 .. Cardinality(Ids)
  BY <1>3, IdsFinite DEF Counted
<1> QED
  BY <1>0, <1>1, <1>4, CountOK

(* SQL Server.                                                             *)
LEMMA SqlServerTotalOK ==
    ASSUME Shape, NEW s \in Searches, SearchOK(s), Unwritten, SqlServerTotal(s)
    PROVE  Stepped(s)
<1> USE DEF Unwritten
<1> DEFINE n == Cardinality(Matches(Ask(s)))
<1>0. /\ search[s].pc = "query" /\ provider = "sqlserver" /\ Ask(s).op = "search"
      /\ search' = [search EXCEPT ![s].pc = "page", ![s].total = n]
  BY DEF SqlServerTotal, Queries
<1>1. PlaceOK(s) /\ WatchOK(s) /\ InFlight(s) /\ search[s].pc # "idle"
  BY <1>0 DEF SearchOK, InFlight
<1>2. n = Counted(rows, Ask(s)) /\ n \in counts[s] /\ n \in 0 .. Cardinality(Ids)
  BY <1>0, <1>1, MatchesRight
<1> HIDE DEF n
<1>3. /\ search' \in [Searches -> SearchStates]
      /\ \A t \in Searches \ {s} : search'[t] = search[t]
      /\ search'[s].pc = "page" /\ search'[s].ask = search[s].ask /\ search'[s].total = n
  BY <1>0, <1>2 DEF Shape, SearchStates, Pcs
<1>4. Ask(s)' = Ask(s) /\ Quiet(s)' = Quiet(s) /\ InFlight(s)'
  BY <1>3 DEF Ask, Quiet, InFlight
<1>5. Counted(rows, Ask(s))' = Counted(rows, Ask(s))
  BY <1>4 DEF Counted, Fits, SqliteFits, SqlServerFits, AzureFits
<1>6. PlaceOK(s)' /\ WatchOK(s)' /\ GotOK(s)'
  BY <1>0, <1>1, <1>3, <1>4, <1>5 DEF PlaceOK, WatchOK, GotOK
<1>7. AnswerOK(s)' /\ TotalOK(s)'
  BY <1>0, <1>2, <1>3, <1>4, <1>5 DEF AnswerOK, TotalOK
<1> QED
  BY <1>3, <1>6, <1>7 DEF SearchOK, Stepped

LEMMA SqlServerPageOK ==
    ASSUME Shape, NEW s \in Searches, SearchOK(s), Unwritten, SqlServerPage(s)
    PROVE  Stepped(s)
<1> DEFINE found == Matches(Ask(s))
           total == search[s].total
<1>0. /\ search[s].pc = "page" /\ PlaceOK(s) /\ WatchOK(s) /\ InFlight(s) /\ Ask(s) \in Asks
      /\ Ask(s).op = "search" /\ provider = "sqlserver"
      /\ total \in counts[s] /\ (Quiet(s) => total = Counted(rows, Ask(s)))
  BY DEF SqlServerPage, SearchOK, PlaceOK, TotalOK, InFlight
<1>1. /\ found \in SUBSET Found /\ IsFiniteSet(found) /\ OneEach(found)
      /\ \A x \in found : x.full
      /\ Cardinality(found) = Counted(rows, Ask(s))
      /\ Plain(s) => Answering(found, Ask(s), seen[s])
  BY <1>0, MatchesRight
<1>2. PICK page \in Pages(found, Order(Ask(s).order), Ask(s)) : AnswerWith(s, total, page)
  BY DEF SqlServerPage
<1>3. total \in 0 .. Cardinality(Ids)
  BY DEF Shape, SearchStates
<1> HIDE DEF found, total
<1>4. page \in Seq(found) /\ Len(page) = PageLength(Cardinality(found), Ask(s))
  BY <1>0, <1>1, PageProperties
<1>5. page \in Seq(Found) /\ \A k \in DOMAIN page : page[k].full
  BY <1>1, <1>4
<1>6. Plain(s) => RowsOK(provider, Ask(s), seen[s], page)
  BY <1>0, <1>1, OrderAsked, PageAnswers
<1> QED
  BY <1>0, <1>1, <1>2, <1>3, <1>4, <1>5, <1>6, AnsweredOK

(* Azure, and threads by their ids.                                        *)

\* s goes on to download or to fetch what it has not got.
LEMMA GatheringOK ==
    ASSUME Shape, NEW s \in Searches, PlaceOK(s), WatchOK(s), Unwritten,
           NEW pc \in {"download", "fetch"}, NEW todo \in SUBSET Ids, NEW got \in SUBSET Found,
           search[s].pc # "idle", InFlight(s),
           pc = "download" => provider = "azure" /\ Ask(s).op # "ids",
           pc = "fetch" => Ask(s).op = "ids",
           search' \in [Searches -> SearchStates],
           \A t \in Searches \ {s} : search'[t] = search[t],
           search'[s].pc = pc, search'[s].ask = search[s].ask,
           search'[s].todo = todo, search'[s].got = got,
           todo \subseteq Asked(s), OneEach(got),
           \A x \in got : /\ x.id \in Asked(s) /\ x.id \notin todo /\ x.row \in seen[s][x.id]
                          /\ x.full \/ (kind = "thread" /\ pc = "download"),
           \A i \in Asked(s) : None \in seen[s][i] \/ i \in todo \/ \E x \in got : x.id = i
    PROVE  Stepped(s)
<1> USE DEF Unwritten
<1>2. Ask(s)' = Ask(s) /\ Asked(s)' = Asked(s) /\ InFlight(s)'
  BY DEF Ask, Asked, InFlight
<1>3. Counted(rows, Ask(s))' = Counted(rows, Ask(s))
  BY <1>2 DEF Counted, Fits, SqliteFits, SqlServerFits, AzureFits
<1>4. PlaceOK(s)' /\ WatchOK(s)'
  BY <1>2, <1>3 DEF PlaceOK, WatchOK
<1>5. GotOK(s)'
  BY <1>2 DEF GotOK, OneEach
<1>6. AnswerOK(s)' /\ TotalOK(s)'
  BY DEF AnswerOK, TotalOK
<1> QED
  BY <1>4, <1>5, <1>6 DEF SearchOK, Stepped

LEMMA AzureListOK ==
    ASSUME Shape, NEW s \in Searches, SearchOK(s), Unwritten,
           AzureListThreads(s) \/ AzureListCrons(s) \/ AzureListAssistants(s)
    PROVE  Stepped(s)
<1>0. /\ search[s].pc = "query" /\ provider = "azure" /\ PlaceOK(s) /\ WatchOK(s) /\ InFlight(s)
      /\ Ask(s).op # "ids" /\ Asked(s) = Ids
      /\ \A i \in Ids : rows[i] \in seen[s][i]
  BY DEF AzureListThreads, AzureListCrons, AzureListAssistants, SearchOK, PlaceOK, WatchOK, InFlight,
     Asked
<1>1. CASE AzureListThreads(s)
  <2> DEFINE listed == {i \in Stored : BuildThreadMetadata(rows[i])}
             got == RowsOf(listed, rows, FALSE)
             todo == Stored \ listed
  <2>1. got = {BlobToThread(i) : i \in listed}
    BY DEF RowsOf, BlobToThread
  <2>2. /\ kind = "thread"
        /\ search' = [search EXCEPT ![s].pc = "download", ![s].todo = todo, ![s].got = got]
    BY <1>1, <2>1 DEF AzureListThreads
  <2>3. listed \in SUBSET Ids /\ todo \in SUBSET Ids /\ \A i \in listed : rows[i] \in Records
    BY DEF Stored, Shape
  <2>4. \A i \in Ids : i \in listed \/ i \in todo \/ rows[i] = None
    BY DEF Stored
  <2>5. \A i \in listed : i \notin todo
    OBVIOUS
  <2> HIDE DEF listed, todo
  <2>6. /\ got \in SUBSET Found /\ OneEach(got)
        /\ \A x \in got : x.id \in listed /\ x.row = rows[x.id] /\ x.full = FALSE
        /\ \A i \in listed : \E x \in got : x.id = i
    <3>1. listed \in SUBSET Ids /\ \A i \in listed : rows[i] \in Records
      BY <2>3
    <3> QED
      BY <3>1, RowsOfProperties
  <2> HIDE DEF got
  <2>a. todo \in SUBSET Ids /\ got \in SUBSET Found
    BY <2>3, <2>6
  <2>7. /\ search' \in [Searches -> SearchStates]
        /\ \A t \in Searches \ {s} : search'[t] = search[t]
        /\ search'[s].pc = "download" /\ search'[s].ask = search[s].ask
        /\ search'[s].todo = todo /\ search'[s].got = got
    BY <2>2, <2>a DEF Shape, SearchStates, Pcs
  <2>8. \A x \in got : x.id \in Ids /\ x.id \notin todo /\ x.row \in seen[s][x.id]
    BY <1>0, <2>3, <2>5, <2>6
  <2>9. \A i \in Ids : None \in seen[s][i] \/ i \in todo \/ \E x \in got : x.id = i
    BY <1>0, <2>4, <2>6
  <2> QED
    BY <1>0, <2>2, <2>3, <2>6, <2>7, <2>8, <2>9, GatheringOK
<1>2. CASE AzureListCrons(s) \/ AzureListAssistants(s)
  <2>1. search' = [search EXCEPT ![s].pc = "download", ![s].todo = Stored]
    BY <1>2 DEF AzureListCrons, AzureListAssistants
  <2>2. search[s].got = {} /\ Stored \in SUBSET Ids
    BY <1>0 DEF PlaceOK, Stored
  <2>3. /\ search' \in [Searches -> SearchStates]
        /\ \A t \in Searches \ {s} : search'[t] = search[t]
        /\ search'[s].pc = "download" /\ search'[s].ask = search[s].ask
        /\ search'[s].todo = Stored /\ search'[s].got = {}
    BY <2>1, <2>2 DEF Shape, SearchStates, Pcs
  <2>4. \A i \in Ids : None \in seen[s][i] \/ i \in Stored
    BY <1>0 DEF Stored
  <2>5. {} \in SUBSET Found /\ OneEach({})
    BY DEF OneEach
  <2> QED
    BY <1>0, <2>2, <2>3, <2>4, <2>5, GatheringOK
<1> QED
  BY <1>1, <1>2

LEMMA BodyProperties ==
    ASSUME Shape, NEW i \in Ids
    PROVE  /\ Body(i) \in SUBSET Found
           /\ \A x \in Body(i) : x.id = i /\ x.row = rows[i] /\ x.full
           /\ rows[i] # None => Body(i) = {[id |-> i, row |-> rows[i], full |-> TRUE]}
           /\ rows[i] = None => Body(i) = {}
<1>1. Body(i) = RowsOf({i} \intersect Stored, rows, TRUE)
  BY DEF Body, RowsOf
<1>2. \A j \in {i} \intersect Stored : rows[j] \in Records
  BY DEF Shape, Stored
<1>3. /\ RowsOf({i} \intersect Stored, rows, TRUE) \in SUBSET Found
      /\ \A x \in RowsOf({i} \intersect Stored, rows, TRUE) :
            x.id \in {i} \intersect Stored /\ x.row = rows[x.id] /\ x.full = TRUE
  BY <1>2, RowsOfProperties
<1>4. rows[i] # None => Body(i) = {[id |-> i, row |-> rows[i], full |-> TRUE]}
  BY DEF Body, Stored
<1>5. rows[i] = None => Body(i) = {}
  BY DEF Body, Stored
<1> QED
  BY <1>1, <1>3, <1>4, <1>5

LEMMA DownloadOK ==
    ASSUME Shape, NEW s \in Searches, SearchOK(s), Unwritten, NEW i \in Ids,
           AzureDownload(s, i) \/ FetchOne(s, i)
    PROVE  Stepped(s)
<1> DEFINE todo == search[s].todo \ {i}
           got  == search[s].got \union Body(i)
<1>0. /\ search[s].pc \in {"download", "fetch"} /\ i \in search[s].todo
      /\ PlaceOK(s) /\ WatchOK(s) /\ InFlight(s) /\ search[s].pc # "idle"
      /\ \A k \in Ids : rows[k] \in seen[s][k]
      /\ search[s].pc = "download" => provider = "azure" /\ Ask(s).op # "ids"
      /\ search[s].pc = "fetch" => Ask(s).op = "ids"
  BY DEF AzureDownload, FetchOne, SearchOK, PlaceOK, WatchOK, InFlight
<1>1. /\ search[s].todo \subseteq Asked(s)
      /\ \A x \in search[s].got :
            /\ x.id \in Asked(s) /\ x.id \notin search[s].todo /\ x.row \in seen[s][x.id]
            /\ x.full \/ (kind = "thread" /\ search[s].pc = "download")
            /\ \A y \in search[s].got : x.id = y.id => x = y
      /\ \A k \in Asked(s) : None \in seen[s][k] \/ k \in search[s].todo
                                 \/ \E x \in search[s].got : x.id = k
  BY <1>0 DEF SearchOK, GotOK
<1>2. search' = [search EXCEPT ![s].todo = todo, ![s].got = got]
  BY DEF AzureDownload, FetchOne, Shape, SearchStates
<1>3. /\ Body(i) \in SUBSET Found
      /\ \A x \in Body(i) : x.id = i /\ x.row = rows[i] /\ x.full
      /\ \A x, y \in Body(i) : x = y
      /\ rows[i] # None => \E x \in Body(i) : x.id = i
  <2>1. /\ Body(i) \in SUBSET Found
        /\ \A x \in Body(i) : x.id = i /\ x.row = rows[i] /\ x.full
    BY BodyProperties
  <2>2. CASE rows[i] = None
    BY <2>1, <2>2, BodyProperties
  <2>3. CASE rows[i] # None
    <3>1. Body(i) = {[id |-> i, row |-> rows[i], full |-> TRUE]}
      BY <2>3, BodyProperties
    <3>2. \A x, y \in Body(i) : x = y
      BY <3>1
    <3>3. \E x \in Body(i) : x.id = i
      BY <3>1
    <3> QED
      BY <2>1, <3>2, <3>3
  <2> QED
    BY <2>2, <2>3
<1>4. todo \in SUBSET Ids /\ got \in SUBSET Found
  BY <1>3 DEF Shape, SearchStates
<1>5. OneEach(got)
  BY <1>0, <1>1, <1>3 DEF OneEach
<1>6. \A x \in got : /\ x.id \in Asked(s) /\ x.id \notin todo /\ x.row \in seen[s][x.id]
                     /\ x.full \/ (kind = "thread" /\ search[s].pc = "download")
  BY <1>0, <1>1, <1>3
<1>7. \A k \in Asked(s) : None \in seen[s][k] \/ k \in todo \/ \E x \in got : x.id = k
  BY <1>0, <1>1, <1>3
<1>8. todo \subseteq Asked(s)
  BY <1>1
<1> HIDE DEF todo, got
<1>9. /\ search' \in [Searches -> SearchStates]
      /\ \A t \in Searches \ {s} : search'[t] = search[t]
      /\ search'[s].pc = search[s].pc /\ search'[s].ask = search[s].ask
      /\ search'[s].todo = todo /\ search'[s].got = got
  BY <1>2, <1>4 DEF Shape, SearchStates
<1> QED
  BY <1>0, <1>4, <1>5, <1>6, <1>7, <1>8, <1>9, GatheringOK

LEMMA AzureCollectOK ==
    ASSUME Shape, NEW s \in Searches, SearchOK(s), Unwritten, AzureCollect(s)
    PROVE  Stepped(s)
<1> USE DEF Unwritten
<1> DEFINE found == {x \in search[s].got : Fits(x.row, Ask(s))}
           total == Cardinality(found)
<1>0. /\ search[s].pc = "download" /\ search[s].todo = {} /\ provider = "azure"
      /\ PlaceOK(s) /\ WatchOK(s) /\ GotOK(s) /\ InFlight(s) /\ search[s].pc # "idle"
      /\ Ask(s) \in Asks /\ Ask(s).op = "search" /\ (kind # "thread" => Ask(s).state)
      /\ Ask(s).state \in BOOLEAN
  BY ConstantsAssumption DEF AzureCollect, SearchOK, PlaceOK, InFlight
<1>1. /\ found \in SUBSET Found /\ IsFiniteSet(found) /\ OneEach(found)
      /\ kind # "thread" => \A x \in found : x.full
      /\ total \in 0 .. Cardinality(Ids)
      /\ Quiet(s) => total \in counts[s]
      /\ Plain(s) => Answering(found, Ask(s), seen[s])
  BY <1>0, CollectedRight
<1>2. PICK page \in Pages(found, Order(Ask(s).order), Ask(s)) :
         IF kind = "thread" /\ Ask(s).state /\ page # <<>>
         THEN search' = [search EXCEPT ![s].pc = "hydrate", ![s].total = total,
                           ![s].todo = {x.id : x \in Range(page)}, ![s].items = page]
         ELSE AnswerWith(s, total, page)
  BY DEF AzureCollect
<1> DEFINE ids == {x.id : x \in Range(page)}
<1>3. page \in Seq(found) /\ Len(page) = PageLength(total, Ask(s))
  <2> HIDE DEF found
  <2> QED
    BY <1>0, <1>1, PageProperties
<1>4. Plain(s) => RowsOK(provider, Ask(s), seen[s], page)
  <2> HIDE DEF found
  <2> QED
    BY <1>0, <1>1, <1>2, OrderAsked, PageAnswers
<1> HIDE DEF found, total
<1>5. page \in Seq(Found) /\ (kind # "thread" => \A k \in DOMAIN page : page[k].full)
  BY <1>1, <1>3
<1>6. CASE ~(kind = "thread" /\ Ask(s).state /\ page # <<>>)
  <2>1. AnswerWith(s, total, page)
    BY <1>2, <1>6
  <2>2. Ask(s).state => \A k \in DOMAIN page : page[k].full
    BY <1>5, <1>6
  <2> QED
    BY <2>1, <2>2, <1>0, <1>1, <1>3, <1>4, <1>5, AnsweredOK
<1>7. CASE kind = "thread" /\ Ask(s).state /\ page # <<>>
  <2>0. ids \in SUBSET Ids /\ \A k \in DOMAIN page : page[k].id \in ids
    <3>1. \A k \in DOMAIN page : page[k] \in Found
      BY <1>5
    <3>2. Range(page) = {page[k] : k \in DOMAIN page}
      BY DEF Range
    <3>3. \A x \in Range(page) : x.id \in Ids
      BY <3>1, <3>2 DEF Found
    <3> QED
      BY <3>2, <3>3
  <2>1. search' = [search EXCEPT ![s].pc = "hydrate", ![s].total = total, ![s].todo = ids,
                     ![s].items = page]
    BY <1>2, <1>7
  <2> HIDE DEF ids
  <2>a. /\ ids \in SUBSET Ids /\ total \in 0 .. Cardinality(Ids) /\ page \in Seq(Found)
        /\ search \in [Searches -> SearchStates]
    BY <2>0, <1>1, <1>5 DEF Shape
  <2>2. /\ search' \in [Searches -> SearchStates]
        /\ \A t \in Searches \ {s} : search'[t] = search[t]
        /\ search'[s].pc = "hydrate" /\ search'[s].ask = search[s].ask
        /\ search'[s].todo = ids /\ search'[s].total = total /\ search'[s].items = page
    BY <2>1, <2>a DEF SearchStates, Pcs
  <2>3. Ask(s)' = Ask(s) /\ Quiet(s)' = Quiet(s) /\ Plain(s)' = Plain(s) /\ InFlight(s)'
    BY <2>2 DEF Ask, Quiet, Plain, InFlight
  <2>4. Counted(rows, Ask(s))' = Counted(rows, Ask(s))
    BY <2>3 DEF Counted, Fits, SqliteFits, SqlServerFits, AzureFits
  <2>5. PlaceOK(s)' /\ WatchOK(s)' /\ GotOK(s)'
    BY <2>2, <2>3, <2>4, <1>0, <1>7 DEF PlaceOK, WatchOK, GotOK
  <2>6. FullOK(s)'
    BY <2>0, <2>2 DEF FullOK
  <2>7. AnswerOK(s)'
    BY <2>2, <2>3, <2>6, <1>4 DEF AnswerOK
  <2>8. TotalOK(s)'
    BY <2>2, <2>3, <1>0, <1>1, <1>3 DEF TotalOK
  <2> QED
    BY <2>2, <2>5, <2>7, <2>8 DEF SearchOK, Stepped
<1> QED
  BY <1>6, <1>7

LEMMA AzureCountFittingOK ==
    ASSUME Shape, NEW s \in Searches, SearchOK(s), Unwritten, AzureCountFitting(s)
    PROVE  Stepped(s)
<1> DEFINE found == {x \in search[s].got : Fits(x.row, Ask(s))}
<1>0. /\ search[s].pc = "download" /\ search[s].todo = {} /\ provider = "azure"
      /\ PlaceOK(s) /\ WatchOK(s) /\ GotOK(s) /\ InFlight(s)
      /\ Ask(s).op = "count" /\ AnswerWith(s, Cardinality(found), <<>>)
  BY DEF AzureCountFitting, SearchOK, PlaceOK, InFlight
<1>1. /\ Cardinality(found) \in 0 .. Cardinality(Ids)
      /\ Quiet(s) => Cardinality(found) \in counts[s]
  BY <1>0, CollectedRight
<1> QED
  BY <1>0, <1>1, CountOK

LEMMA SearchByIdsOK ==
    ASSUME Shape, NEW s \in Searches, SearchOK(s), Unwritten, SearchByIds(s)
    PROVE  Stepped(s)
<1> DEFINE found == {x \in search[s].got : ServiceFits(x.row, Ask(s).wanted)}
<1>0. /\ search[s].pc = "fetch" /\ search[s].todo = {}
      /\ PlaceOK(s) /\ WatchOK(s) /\ GotOK(s) /\ InFlight(s)
      /\ Ask(s) \in Asks /\ Ask(s).op = "ids"
  BY DEF SearchByIds, SearchOK, PlaceOK, InFlight
<1>1. /\ found \in SUBSET Found /\ IsFiniteSet(found) /\ OneEach(found)
      /\ \A x \in found : x.full
      /\ Cardinality(found) \in 0 .. Cardinality(Ids)
      /\ Answering(found, Ask(s), seen[s])
  BY <1>0, FetchedRight
<1>2. PICK page \in Pages(found, Ask(s).order, Ask(s)) : AnswerWith(s, Cardinality(found), page)
  BY DEF SearchByIds
<1> HIDE DEF found
<1>3. page \in Seq(found)
  BY <1>0, <1>1, PageProperties
<1>4. page \in Seq(Found) /\ \A k \in DOMAIN page : page[k].full
  BY <1>1, <1>3
<1>5. RowsOK(provider, Ask(s), seen[s], page)
  BY <1>0, <1>1, PageAnswers
<1> QED
  BY <1>0, <1>1, <1>2, <1>4, <1>5, AnsweredOK

\* One row of the page is replaced by the thread as it is now.
Hydrated(items, i) ==
    [k \in DOMAIN items |-> IF items[k].id = i /\ Body(i) # {} THEN CHOOSE x \in Body(i) : TRUE
                            ELSE items[k]]

LEMMA HydratedProperties ==
    ASSUME Shape, NEW items \in Seq(Found), NEW i \in Ids
    PROVE  LET new == Hydrated(items, i)
           IN  /\ new \in Seq(Found) /\ Len(new) = Len(items) /\ DOMAIN new = DOMAIN items
               /\ \A k \in DOMAIN items :
                     /\ new[k].id = items[k].id
                     /\ \/ new[k] = items[k] /\ (items[k].id = i => rows[i] = None)
                        \/ items[k].id = i /\ new[k].row = rows[i] /\ new[k].full
<1> DEFINE new == Hydrated(items, i)
<1>1. DOMAIN items = 1 .. Len(items) /\ Len(items) \in Nat /\ \A k \in DOMAIN items : items[k] \in Found
  OBVIOUS
<1>2. ASSUME NEW k \in DOMAIN items
      PROVE  /\ new[k] \in Found /\ new[k].id = items[k].id
             /\ \/ new[k] = items[k] /\ (items[k].id = i => rows[i] = None)
                \/ items[k].id = i /\ new[k].row = rows[i] /\ new[k].full
  <2>1. CASE items[k].id = i /\ rows[i] # None
    <3>1. Body(i) # {} /\ \A x \in Body(i) : x \in Found /\ x.id = i /\ x.row = rows[i] /\ x.full
      <4>1. Body(i) = {[id |-> i, row |-> rows[i], full |-> TRUE]}
        BY <2>1, BodyProperties
      <4> QED
        BY <4>1, BodyProperties
    <3>2. new[k] \in Body(i)
      BY <2>1, <3>1 DEF Hydrated
    <3> QED
      BY <2>1, <3>1, <3>2
  <2>2. CASE ~(items[k].id = i /\ rows[i] # None)
    <3>1. new[k] = items[k]
      BY <2>2, BodyProperties DEF Hydrated
    <3> QED
      BY <2>2, <3>1, <1>1
  <2> QED
    BY <2>1, <2>2
<1>3. DOMAIN new = DOMAIN items
  BY DEF Hydrated
<1>4. new \in [1 .. Len(items) -> Found]
  BY <1>1, <1>2, <1>3 DEF Hydrated
<1>5. new \in Seq(Found) /\ Len(new) = Len(items)
  BY <1>1, <1>4
<1> QED
  BY <1>2, <1>3, <1>5

LEMMA AzureHydrateOK ==
    ASSUME Shape, NEW s \in Searches, SearchOK(s), Unwritten, NEW i \in Ids, AzureHydrate(s, i)
    PROVE  Stepped(s)
<1> USE DEF Unwritten
<1> DEFINE items == search[s].items
           new   == Hydrated(items, i)
           total == search[s].total
           todo  == search[s].todo \ {i}
<1>0. /\ search[s].pc = "hydrate" /\ i \in search[s].todo
      /\ PlaceOK(s) /\ WatchOK(s) /\ InFlight(s) /\ search[s].pc # "idle"
      /\ Ask(s) \in Asks /\ Ask(s).op = "search" /\ provider = "azure" /\ kind = "thread"
      /\ Ask(s).state /\ Plain(s)
  BY DEF AzureHydrate, SearchOK, PlaceOK, InFlight, Plain
<1>1. /\ RowsOK(provider, Ask(s), seen[s], items)
      /\ \A k \in DOMAIN items : items[k].id \in search[s].todo \/ items[k].full \/ ~Quiet(s)
  BY <1>0 DEF SearchOK, AnswerOK, FullOK
<1>2. /\ Quiet(s) => total \in counts[s]
      /\ Len(items) = PageLength(total, Ask(s))
  BY <1>0 DEF SearchOK, TotalOK
<1>3. items \in Seq(Found) /\ total \in 0 .. Cardinality(Ids) /\ todo \in SUBSET Ids
  BY DEF Shape, SearchStates
<1>4. IF search[s].todo = {i} THEN AnswerWith(s, total, new)
      ELSE search' = [search EXCEPT ![s].todo = todo, ![s].items = new]
  BY DEF AzureHydrate, Hydrated, Shape, SearchStates
<1>5. /\ new \in Seq(Found) /\ Len(new) = Len(items) /\ DOMAIN new = DOMAIN items
      /\ \A k \in DOMAIN items :
            /\ new[k].id = items[k].id
            /\ \/ new[k] = items[k] /\ (items[k].id = i => rows[i] = None)
               \/ items[k].id = i /\ new[k].row = rows[i] /\ new[k].full
  BY <1>3, HydratedProperties
<1> HIDE DEF new, items, total, todo
<1>6. \A k \in DOMAIN items : /\ items[k].id \in Ids /\ items[k].row \in seen[s][items[k].id]
                              /\ items[k].row \in Records /\ items[k].row # None
  <2>1. \A k \in DOMAIN items : items[k] \in Found
    BY <1>3
  <2> QED
    BY <2>1, <1>1, ConstantsAssumption DEF Found, RowsOK, RowOK
<1>7. RowsOK(provider, Ask(s), seen[s], new)
  <2>0. \A k \in Ids : rows[k] \in seen[s][k]
    BY <1>0 DEF WatchOK
  <2>1. \A k \in DOMAIN new : RowOK(provider, Ask(s), seen[s], new[k])
    BY <2>0, <1>0, <1>1, <1>5 DEF RowsOK, RowOK
  <2>2. ASSUME SameAge(seen[s])
        PROVE  \A k \in DOMAIN items : new[k].row.at = items[k].row.at
    <3> SUFFICES ASSUME NEW k \in DOMAIN items, new[k] # items[k]
                 PROVE  new[k].row.at = items[k].row.at
      OBVIOUS
    <3>1. items[k].id = i /\ new[k].row = rows[i]
      BY <1>5
    <3>2. new[k] \in Found
      BY <1>5
    <3>3. rows[i] \in Records /\ rows[i] # None
      BY <3>1, <3>2, ConstantsAssumption DEF Found
    <3>4. rows[i] \in seen[s][i] \ {None} /\ items[k].row \in seen[s][i] \ {None}
      BY <3>1, <3>3, <2>0, <1>6
    <3> QED
      BY <2>2, <3>1, <3>4 DEF SameAge
  <2>3. SameAge(seen[s]) /\ Ask(s).order # "none" => Sorted(new, Ask(s).order)
    <3> SUFFICES ASSUME SameAge(seen[s]), Sorted(items, Ask(s).order)
                 PROVE  Sorted(new, Ask(s).order)
      BY <1>1 DEF RowsOK
    <3>1. \A k \in DOMAIN items : new[k].row.at = items[k].row.at
      BY <2>2
    <3> QED
      BY <3>1, <1>5 DEF Sorted
  <2> QED
    BY <2>1, <2>3, <1>1, <1>5 DEF RowsOK
<1>8. ASSUME Quiet(s), NEW k \in DOMAIN new
      PROVE  new[k].id \in todo \/ new[k].full
  <2>1. CASE items[k].id = i
    <3>1. rows[i] # None
      BY <2>1, <1>0, <1>5, <1>6, <1>8, QuietMeansNow
    <3> QED
      BY <2>1, <3>1, <1>5
  <2>2. CASE items[k].id # i
    BY <2>2, <1>1, <1>5, <1>8 DEF todo
  <2> QED
    BY <2>1, <2>2
<1>9. CASE search[s].todo = {i}
  <2>1. todo = {}
    BY <1>9 DEF todo
  <2>2. Quiet(s) => \A k \in DOMAIN new : new[k].full
    BY <2>1, <1>8
  <2>3. AnswerWith(s, total, new)
    BY <1>4, <1>9
  <2> QED
    BY <2>2, <2>3, <1>0, <1>2, <1>3, <1>5, <1>7, AnsweredOK
<1>10. CASE search[s].todo # {i}
  <2>1. search' = [search EXCEPT ![s].todo = todo, ![s].items = new]
    BY <1>4, <1>10
  <2>a. new \in Seq(Found)
    BY <1>5
  <2>2. /\ search' \in [Searches -> SearchStates]
        /\ \A t \in Searches \ {s} : search'[t] = search[t]
        /\ search'[s].pc = "hydrate" /\ search'[s].ask = search[s].ask
        /\ search'[s].todo = todo /\ search'[s].total = total /\ search'[s].items = new
    BY <2>1, <2>a, <1>0, <1>3 DEF Shape, SearchStates, total
  <2>3. Ask(s)' = Ask(s) /\ Quiet(s)' = Quiet(s) /\ InFlight(s)'
    BY <2>2 DEF Ask, Quiet, InFlight
  <2>4. Counted(rows, Ask(s))' = Counted(rows, Ask(s))
    BY <2>3 DEF Counted, Fits, SqliteFits, SqlServerFits, AzureFits
  <2>5. PlaceOK(s)' /\ WatchOK(s)' /\ GotOK(s)'
    BY <2>2, <2>3, <2>4, <1>0 DEF PlaceOK, WatchOK, GotOK
  <2>6. FullOK(s)'
    BY <2>2, <2>3, <1>8 DEF FullOK
  <2>7. AnswerOK(s)'
    BY <2>2, <2>3, <2>6, <1>7 DEF AnswerOK
  <2>8. TotalOK(s)'
    BY <2>2, <2>3, <1>0, <1>2, <1>5 DEF TotalOK
  <2> QED
    BY <2>2, <2>5, <2>7, <2>8 DEF SearchOK, Stepped
<1> QED
  BY <1>9, <1>10

(* Every step of a search.                                                 *)
LEMMA SearchStepOK ==
    ASSUME Shape, NEW s \in Searches, SearchOK(s), UNCHANGED <<provider, kind>>, SearchStep(s)
    PROVE  Stepped(s) /\ Unwritten
<1>0. Unwritten
  BY DEF SearchStep, Unwritten
<1>1. CASE MemorySearch(s) \/ SqliteSearch(s)
  BY <1>0, <1>1, AtOnceOK DEF MemorySearch, SqliteSearch, Queries
<1>2. CASE MemoryCount(s) \/ SqliteCount(s) \/ SqlServerCount(s)
  BY <1>0, <1>2, CountMatchesOK DEF MemoryCount, SqliteCount, SqlServerCount, Counts
<1>3. CASE SqlServerTotal(s) \/ SqlServerPage(s)
  BY <1>0, <1>3, SqlServerTotalOK, SqlServerPageOK
<1>4. CASE AzureCountAll(s) \/ AzureCountFitting(s)
  BY <1>0, <1>4, AzureCountAllOK, AzureCountFittingOK
<1>5. CASE AzureListThreads(s) \/ AzureListCrons(s) \/ AzureListAssistants(s)
  BY <1>0, <1>5, AzureListOK
<1>6. CASE AzureCollect(s) \/ SearchByIds(s)
  BY <1>0, <1>6, AzureCollectOK, SearchByIdsOK
<1>7. CASE \E i \in Ids : AzureDownload(s, i) \/ AzureHydrate(s, i) \/ FetchOne(s, i)
  BY <1>0, <1>7, DownloadOK, AzureHydrateOK
<1> QED
  BY <1>0, <1>1, <1>2, <1>3, <1>4, <1>5, <1>6, <1>7 DEF SearchStep

\* A search begins.
LEMMA BeginSearchOK ==
    ASSUME Shape, NEW s \in Searches, NEW ask \in Asks, UNCHANGED <<provider, kind>>,
           BeginSearch(s, ask)
    PROVE  /\ Stepped(s) /\ rows' = rows
           /\ seen' \in [Searches -> [Ids -> SUBSET (Records \union {None})]]
           /\ counts' \in [Searches -> SUBSET (0 .. Cardinality(Ids))]
           /\ \A t \in Searches \ {s} : seen'[t] = seen[t] /\ counts'[t] = counts[t]
<1> DEFINE pc == IF ask.op = "ids" THEN "fetch" ELSE "query"
           first == [NoSearch EXCEPT !.ask = ask, !.pc = pc, !.todo = ask.ids]
           n == Counted(rows, ask)
<1>0. /\ kind # "thread" => ask.op # "ids" /\ ask.state
      /\ ask.ids \in SUBSET Ids /\ rows' = rows
      /\ ask.op \in {"search", "count", "ids"}
  BY ConstantsAssumption DEF BeginSearch
<1>1. search' = [search EXCEPT ![s] = first]
  BY DEF BeginSearch
<1>2. 0 \in 0 .. Cardinality(Ids) /\ n \in 0 .. Cardinality(Ids)
  BY IdsFinite, {} \in SUBSET Ids DEF Counted
<1> HIDE DEF n
<1>a. pc \in {"fetch", "query"} /\ (ask.op # "ids" => pc = "query") /\ (ask.op = "ids" => pc = "fetch")
  OBVIOUS
<1> HIDE DEF pc
<1>3. /\ first \in SearchStates
      /\ first.ask = ask /\ first.todo = ask.ids /\ first.got = {} /\ first.pc = pc
  <2>1. NoSearch \in SearchStates
    <3>1. <<>> \in Seq(Found)
      OBVIOUS
    <3> QED
      BY <3>1, <1>2 DEF NoSearch, SearchStates, Pcs
  <2>2. NoSearch.got = {}
    BY DEF NoSearch
  <2>3. ask \in Asks \union {None} /\ pc \in Pcs /\ ask.ids \in SUBSET Ids
    BY <1>0, <1>a DEF Pcs
  <2> QED
    BY <2>1, <2>2, <2>3 DEF SearchStates
<1> HIDE DEF first
<1>4. /\ search' \in [Searches -> SearchStates]
      /\ \A t \in Searches \ {s} : search'[t] = search[t]
      /\ search'[s] = first
  BY <1>1, <1>3 DEF Shape
<1>5. /\ search'[s].ask = ask /\ search'[s].todo = ask.ids /\ search'[s].got = {}
      /\ search'[s].pc \in {"fetch", "query"}
      /\ ask.op # "ids" => search'[s].pc = "query"
      /\ ask.op = "ids" => search'[s].pc = "fetch"
  BY <1>3, <1>4, <1>a
<1>6. /\ seen' = [seen EXCEPT ![s] = [i \in Ids |-> {rows[i]}]]
      /\ counts' = [counts EXCEPT ![s] = {n}]
  BY DEF BeginSearch, n
<1>7. /\ seen' \in [Searches -> [Ids -> SUBSET (Records \union {None})]]
      /\ \A t \in Searches \ {s} : seen'[t] = seen[t]
      /\ \A i \in Ids : seen'[s][i] = {rows[i]}
  BY <1>6 DEF Shape
<1>8. /\ counts' \in [Searches -> SUBSET (0 .. Cardinality(Ids))]
      /\ \A t \in Searches \ {s} : counts'[t] = counts[t]
      /\ counts'[s] = {n}
  BY <1>2, <1>6 DEF Shape
<1>9. Ask(s)' = ask
  BY <1>5 DEF Ask
<1>10. Counted(rows, Ask(s))' = n
  BY <1>0, <1>9 DEF n, Counted, Fits, SqliteFits, SqlServerFits, AzureFits
<1>11. PlaceOK(s)'
  BY <1>0, <1>5, <1>9 DEF PlaceOK
<1>12. WatchOK(s)'
  <2>1. \A i \in Ids : IsFiniteSet(seen'[s][i]) /\ seen'[s][i] # {} /\ rows'[i] \in seen'[s][i]
    <3> TAKE i \in Ids
    <3>1. seen'[s][i] = {rows[i]} /\ rows'[i] = rows[i]
      BY <1>0, <1>7
    <3> QED
      BY <3>1, FS_Singleton
  <2>2. Counted(rows, Ask(s))' \in counts'[s]
    BY <1>8, <1>10
  <2> QED
    BY <2>1, <2>2 DEF WatchOK
<1>13. GotOK(s)'
  <2>1. ask.op = "ids" => Asked(s)' = ask.ids
    BY <1>9 DEF Asked
  <2> QED
    BY <2>1, <1>5 DEF GotOK
<1>14. AnswerOK(s)' /\ TotalOK(s)'
  BY <1>5 DEF AnswerOK, TotalOK
<1> QED
  BY <1>0, <1>4, <1>7, <1>8, <1>11, <1>12, <1>13, <1>14 DEF SearchOK, Stepped

(* A record is written: what the searches have seen grows.                 *)
LEMMA RowsGrow ==
    ASSUME NEW was, NEW now, \A i \in Ids : was[i] \subseteq now[i],
           NEW ask \in Asks, NEW where, NEW items \in Seq(Found), RowsOK(where, ask, was, items)
    PROVE  RowsOK(where, ask, now, items)
<1>1. AskedBy(ask) \subseteq Ids
  BY ConstantsAssumption DEF AskedBy
<1>2. \A k \in DOMAIN items : RowOK(where, ask, now, items[k])
  BY <1>1 DEF RowsOK, RowOK
<1>3. SameAge(now) => SameAge(was)
  BY DEF SameAge
<1> QED
  BY <1>1, <1>2, <1>3 DEF RowsOK

LEMMA WriteKept ==
    ASSUME Shape, NEW t \in Searches, SearchOK(t), UNCHANGED <<provider, kind>>,
           NEW i \in Ids, NEW row \in Records \union {None}, WriteRow(i, row)
    PROVE  SearchOK(t)'
<1>0. /\ rows' = [rows EXCEPT ![i] = row]
      /\ search' = search
      /\ seen'[t] = IF InFlight(t) THEN [seen[t] EXCEPT ![i] = @ \union {row}] ELSE seen[t]
      /\ counts'[t] = IF InFlight(t) THEN counts[t] \union {Counted(rows', Ask(t))} ELSE counts[t]
  BY DEF WriteRow
<1>1. Ask(t)' = Ask(t) /\ InFlight(t)' = InFlight(t) /\ Asked(t)' = Asked(t)
  BY <1>0 DEF Ask, InFlight, Asked
<1>2. PlaceOK(t)'
  BY <1>0, <1>1 DEF SearchOK, PlaceOK
<1>3. CASE ~InFlight(t)
  <2>1. seen'[t] = seen[t] /\ counts'[t] = counts[t] /\ search[t].pc \in {"idle", "done"}
    BY <1>0, <1>3 DEF InFlight
  <2>2. Quiet(t)' = Quiet(t) /\ Plain(t)' = Plain(t)
    BY <2>1, <1>0, <1>1 DEF Quiet, Plain
  <2>3. WatchOK(t)' /\ GotOK(t)'
    BY <2>1, <1>0, <1>1, <1>3 DEF SearchOK, WatchOK, GotOK
  <2>4. FullOK(t)' = FullOK(t)
    BY <2>1, <2>2, <1>0, <1>1 DEF FullOK
  <2>5. AnswerOK(t)'
    BY <2>1, <2>2, <2>4, <1>0, <1>1 DEF SearchOK, AnswerOK
  <2>6. TotalOK(t)'
    BY <2>1, <2>2, <1>0, <1>1 DEF SearchOK, TotalOK
  <2> QED
    BY <1>2, <2>3, <2>5, <2>6 DEF SearchOK
<1>4. CASE InFlight(t)
  <2>0. /\ search[t].pc \notin {"idle", "done"} /\ Ask(t) \in Asks
        /\ \A k \in Ids : /\ IsFiniteSet(seen[t][k]) /\ seen[t][k] # {}
                          /\ rows[k] \in seen[t][k]
    BY <1>4 DEF InFlight, SearchOK, PlaceOK, WatchOK
  <2>1. /\ \A k \in Ids : seen'[t][k] = IF k = i THEN seen[t][k] \union {row} ELSE seen[t][k]
        /\ counts'[t] = counts[t] \union {Counted(rows', Ask(t))}
    BY <1>0, <1>4 DEF Shape
  <2>2. \A k \in Ids : /\ IsFiniteSet(seen'[t][k]) /\ seen'[t][k] # {}
                      /\ seen[t][k] \subseteq seen'[t][k] /\ rows'[k] \in seen'[t][k]
    <3> TAKE k \in Ids
    <3>1. IsFiniteSet(seen[t][k] \union {row})
      BY <2>0, FS_AddElement
    <3>2. rows'[k] = IF k = i THEN row ELSE rows[k]
      BY <1>0 DEF Shape
    <3> QED
      BY <3>1, <3>2, <2>0, <2>1
  <2>3. Quiet(t)' => Quiet(t)
    <3> SUFFICES ASSUME Quiet(t)', NEW k \in Ids
                 PROVE  Cardinality(seen[t][k]) = 1
      BY DEF Quiet
    <3>1. Cardinality(seen'[t][k]) = 1
      BY DEF Quiet
    <3>2. PICK x : seen'[t][k] = {x}
      BY <3>1, <2>2, FS_Singleton
    <3>3. seen[t][k] = {x}
      BY <3>2, <2>0, <2>2
    <3> QED
      BY <3>3, FS_Singleton
  <2>4. Plain(t)' => Plain(t)
    BY <2>2, <1>1 DEF Plain
  <2>5. Counted(rows, Ask(t))' = Counted(rows', Ask(t))
    BY <1>1 DEF Counted, Fits, SqliteFits, SqlServerFits, AzureFits
  <2>6. WatchOK(t)'
    BY <2>1, <2>2, <2>5 DEF WatchOK
  <2>7. Asked(t) \subseteq Ids
    BY <2>0, ConstantsAssumption DEF Asked
  <2>8. GotOK(t)'
    BY <2>2, <2>7, <1>0, <1>1 DEF SearchOK, GotOK
  <2>9. AnswerOK(t)'
    <3> SUFFICES ASSUME search[t].pc = "hydrate", Ask(t).op # "count", Plain(t)'
                 PROVE  RowsOK(provider, Ask(t), seen'[t], search[t].items) /\ FullOK(t)'
      BY <2>0, <1>0, <1>1 DEF AnswerOK
    <3>1. RowsOK(provider, Ask(t), seen[t], search[t].items) /\ FullOK(t)
      BY <2>4 DEF SearchOK, AnswerOK
    <3>2. search[t].items \in Seq(Found)
      BY DEF Shape, SearchStates
    <3>3. RowsOK(provider, Ask(t), seen'[t], search[t].items)
      BY <3>1, <3>2, <2>0, <2>2, RowsGrow
    <3>4. FullOK(t)'
      BY <3>1, <2>3, <1>0, <1>1 DEF FullOK
    <3> QED
      BY <3>3, <3>4
  <2>10. TotalOK(t)'
    <3>1. Quiet(t)' => rows' = rows
      <4> SUFFICES ASSUME Quiet(t)'
                   PROVE  rows'[i] = rows[i]
        BY <1>0 DEF Shape
      <4>1. Cardinality(seen'[t][i]) = 1
        BY DEF Quiet
      <4>2. PICK x : seen'[t][i] = {x}
        BY <4>1, <2>2, FS_Singleton
      <4> QED
        BY <4>2, <2>0, <2>2
    <3>2. search[t].pc = "page" /\ Quiet(t)' => search[t].total = Counted(rows', Ask(t))
      BY <3>1, <2>3 DEF SearchOK, TotalOK, PlaceOK
    <3> QED
      BY <3>2, <2>0, <2>1, <2>3, <2>5, <1>0, <1>1 DEF SearchOK, TotalOK
  <2> QED
    BY <1>2, <2>6, <2>8, <2>9, <2>10 DEF SearchOK
<1> QED
  BY <1>3, <1>4

-----------------------------------------------------------------------------
(* Crons.                                                                  *)

LEMMA JobsUntouched ==
    ASSUME JobsOK, UNCHANGED <<provider, kind, clients, rows, job, used>>
    PROVE  JobsOK'
<1>1. CronsOK'
  BY DEF JobsOK, CronsOK, Stored, CronRow, JobOK, NewOK
<1>2. InTurn'
  BY DEF JobsOK, InTurn, Serial, Busy
<1>3. \A j \in Jobs : Fresh(j)'
  BY DEF JobsOK, Fresh, Serial
<1> QED
  BY <1>1, <1>2, <1>3 DEF JobsOK

\* j goes on, and nothing is written.
Moves(j) ==
    /\ UNCHANGED <<rows, searchVars, writes>>
    /\ job' \in [Jobs -> JobStates]
    /\ \A k \in Jobs \ {j} : job'[k] = job[k]

LEMMA MoveKept ==
    ASSUME Shape, JobsOK, kind = "cron", UNCHANGED <<provider, kind, clients>>,
           NEW j \in Jobs, Moves(j), used \subseteq used', JobOK(j)', Fresh(j)', NewOK(j)',
           Busy(j) \/ (Serial => \A k \in Jobs : ~Busy(k)),
           \A k \in Jobs \ {j} : job[k].pc = "create" /\ job[k].id = job'[j].id => job'[j].pc # "create"
    PROVE  JobsOK'
<1>0. rows' = rows /\ \A k \in Jobs \ {j} : job'[k] = job[k]
  BY DEF Moves
<1>1. \A k \in Jobs : JobOK(k)'
  BY <1>0 DEF JobsOK, CronsOK, JobOK
<1>2. \A k \in Jobs : NewOK(k)'
  BY <1>0 DEF JobsOK, CronsOK, NewOK
<1>3. Stored' \subseteq used' /\ \A i \in Ids : CronRow(rows[i])'
  BY <1>0 DEF JobsOK, CronsOK, Stored, CronRow
<1>4. \A k \in Jobs : Fresh(k)'
  BY <1>0 DEF JobsOK, Fresh, Serial
<1>5. InTurn'
  BY <1>0 DEF JobsOK, InTurn, Serial, Busy
<1> QED
  BY <1>1, <1>2, <1>3, <1>4, <1>5 DEF JobsOK, CronsOK

(* What a request writes: a new cron, none, or the updates of the cron as  *)
(* it is, except for SQL rows if clients do not wait.                      *)
MayWrite(j, row) ==
    /\ Busy(j) /\ row \in Records \union {None} /\ CronRow(row)
    /\ \/ row = None
       \/ job[j].pc = "create" /\ row # None
       \/ /\ rows[job[j].id] # None /\ row # None
          /\ job[j].op = "update" /\ job[j].pc \in {"update", "write"}
          /\ row = Merged(j, rows[job[j].id]) \/ (~Serial /\ provider \in Sql)

LEMMA WritesFields ==
    ASSUME Shape, CronsOK, NEW j \in Jobs, NEW row \in Records \union {None}, Busy(j), Writes(j, row)
    PROVE  /\ job[j].id \in Ids /\ job[j].id \in used /\ kind = "cron"
           /\ rows' \in [Ids -> Records \union {None}]
           /\ rows'[job[j].id] = row /\ \A i \in Ids \ {job[j].id} : rows'[i] = rows[i]
           /\ job' \in [Jobs -> JobStates]
           /\ job'[j].pc = "answered" /\ job'[j].id = job[j].id
           /\ job'[j].field = job[j].field /\ job'[j].op = job[j].op /\ job'[j].to = job[j].to
           /\ \A k \in Jobs \ {j} :
                 /\ job'[k].pc = job[k].pc /\ job'[k].op = job[k].op /\ job'[k].id = job[k].id
                 /\ job'[k].field = job[k].field /\ job'[k].to = job[k].to
                 /\ job'[k].payload = job[k].payload /\ job'[k].old = job[k].old
                 /\ job'[k].stale <=> job[k].stale \/ (job[k].pc = "write" /\ job[k].id = job[j].id)
<1>1. job[j].pc # "idle" /\ job[j].pc \in Calls
  BY DEF Busy, Calls
<1>2. job[j].id \in Ids /\ job[j].id \in used /\ kind = "cron"
  BY <1>1 DEF Shape, CronsOK, JobOK
<1>3. /\ rows' = [rows EXCEPT ![job[j].id] = row]
      /\ job' = [k \in Jobs |->
                   IF k = j THEN [job[j] EXCEPT !.pc = "answered"]
                   ELSE [job[k] EXCEPT !.stale = @ \/ (job[k].pc = "write" /\ job[k].id = job[j].id)]]
  BY DEF Writes, WriteRow
<1>4. /\ rows' \in [Ids -> Records \union {None}]
      /\ rows'[job[j].id] = row /\ \A i \in Ids \ {job[j].id} : rows'[i] = rows[i]
  BY <1>2, <1>3 DEF Shape
<1>5. \A k \in Jobs : job[k] \in JobStates
  BY DEF Shape
<1>6. /\ job'[j] = [job[j] EXCEPT !.pc = "answered"]
      /\ job'[j] \in JobStates /\ job'[j].pc = "answered" /\ job'[j].id = job[j].id
      /\ job'[j].field = job[j].field /\ job'[j].op = job[j].op /\ job'[j].to = job[j].to
  BY <1>3, <1>5 DEF JobStates
<1>7. ASSUME NEW k \in Jobs, k # j
      PROVE  /\ job'[k] \in JobStates
             /\ job'[k].pc = job[k].pc /\ job'[k].op = job[k].op /\ job'[k].id = job[k].id
             /\ job'[k].field = job[k].field /\ job'[k].to = job[k].to
             /\ job'[k].payload = job[k].payload /\ job'[k].old = job[k].old
             /\ job'[k].stale <=> job[k].stale \/ (job[k].pc = "write" /\ job[k].id = job[j].id)
  <2>1. PICK b \in BOOLEAN : b <=> job[k].stale \/ (job[k].pc = "write" /\ job[k].id = job[j].id)
    OBVIOUS
  <2>2. job'[k] = [job[k] EXCEPT !.stale = b]
    BY <2>1, <1>3, <1>5, <1>7 DEF JobStates
  <2> QED
    BY <2>1, <2>2, <1>5 DEF JobStates
<1>8. job' \in [Jobs -> JobStates]
  BY <1>3, <1>6, <1>7
<1> QED
  BY <1>2, <1>4, <1>6, <1>7, <1>8

LEMMA WriteKeepsJobs ==
    ASSUME Shape, JobsOK, UNCHANGED <<provider, kind, clients, used>>,
           NEW j \in Jobs, NEW row, MayWrite(j, row), Writes(j, row)
    PROVE  JobsOK'
<1>0. Busy(j) /\ row \in Records \union {None} /\ CronRow(row) /\ job[j].pc \in Calls
  BY DEF MayWrite, Busy
<1>1. /\ job[j].id \in Ids /\ job[j].id \in used /\ kind = "cron"
      /\ rows'[job[j].id] = row /\ \A i \in Ids \ {job[j].id} : rows'[i] = rows[i]
      /\ job'[j].pc = "answered" /\ job'[j].id = job[j].id
      /\ job'[j].field = job[j].field /\ job'[j].op = job[j].op /\ job'[j].to = job[j].to
  BY <1>0, WritesFields DEF JobsOK
<1>2. \A k \in Jobs \ {j} :
         /\ job'[k].pc = job[k].pc /\ job'[k].op = job[k].op /\ job'[k].id = job[k].id
         /\ job'[k].field = job[k].field /\ job'[k].to = job[k].to
         /\ job'[k].payload = job[k].payload /\ job'[k].old = job[k].old
         /\ job'[k].stale <=> job[k].stale \/ (job[k].pc = "write" /\ job[k].id = job[j].id)
  BY <1>0, WritesFields DEF JobsOK
<1>3. job[j].pc # "idle"
  BY <1>0 DEF Calls
<1>4. JobOK(j)'
  BY <1>1, <1>3 DEF JobsOK, CronsOK, JobOK
<1>5. \A k \in Jobs \ {j} : JobOK(k)'
  BY <1>2 DEF JobsOK, CronsOK, JobOK, CronRow
<1>6. ASSUME NEW k \in Jobs
      PROVE  NewOK(k)'
  <2>1. CASE k = j
    BY <2>1, <1>1 DEF NewOK
  <2>2. CASE k # j /\ job[k].pc = "create"
    <3>1. rows[job[k].id] = None /\ (job[j].pc = "create" => job[j].id # job[k].id)
      BY <2>2 DEF JobsOK, CronsOK, NewOK
    <3>2. job[j].id = job[k].id => row = None
      BY <3>1 DEF MayWrite
    <3>3. job[k].id \in Ids
      BY <2>2 DEF JobsOK, CronsOK, JobOK, Shape
    <3>4. rows'[job'[k].id] = None
      BY <3>1, <3>2, <3>3, <2>2, <1>1, <1>2
    <3> QED
      BY <3>4, <2>2, <1>1, <1>2 DEF JobsOK, CronsOK, NewOK
  <2>3. CASE k # j /\ job[k].pc # "create"
    BY <2>3, <1>2 DEF NewOK
  <2> QED
    BY <2>1, <2>2, <2>3
<1>7. Stored' \subseteq used' /\ \A i \in Ids : CronRow(rows[i])'
  <2>1. \A i \in Ids : CronRow(rows'[i])
    BY <1>0, <1>1 DEF JobsOK, CronsOK
  <2>2. Stored' \subseteq used'
    BY <1>1 DEF JobsOK, CronsOK, Stored
  <2> QED
    BY <2>1, <2>2 DEF CronRow
<1>8. InTurn'
  BY <1>1, <1>2 DEF JobsOK, InTurn, Serial, Busy, Calls
<1>9. ASSUME NEW k \in Jobs
      PROVE  Fresh(k)'
  <2>1. CASE k = j
    BY <2>1, <1>1 DEF Fresh
  <2>2. CASE k # j /\ job[k].pc \in {"update", "write"}
    <3>1. Busy(k) /\ ~Serial
      BY <2>2, <1>0 DEF JobsOK, InTurn, Busy, Calls
    <3>2. job[k].id \in Ids
      BY <2>2 DEF JobsOK, CronsOK, JobOK, Shape
    <3> QED
      BY <3>1, <3>2, <2>2, <1>1, <1>2 DEF JobsOK, Fresh, Serial
  <2>3. CASE k # j /\ job[k].pc \notin {"update", "write"}
    BY <2>3, <1>2 DEF Fresh
  <2> QED
    BY <2>1, <2>2, <2>3
<1> QED
  BY <1>1, <1>4, <1>5, <1>6, <1>7, <1>8, <1>9 DEF JobsOK, CronsOK

\* A step of the request j keeps the invariant of the requests.
JobStepped(j) ==
    /\ JobsOK'
    /\ job' \in [Jobs -> JobStates]
    /\ \/ UNCHANGED <<rows, searchVars>>
       \/ \E row \in Records \union {None} : MayWrite(j, row) /\ Writes(j, row)

LEMMA WriteOK ==
    ASSUME Shape, JobsOK, UNCHANGED <<provider, kind, clients, used>>,
           NEW j \in Jobs, NEW row, MayWrite(j, row), Writes(j, row)
    PROVE  JobStepped(j)
<1>1. row \in Records \union {None} /\ Busy(j)
  BY DEF MayWrite
<1>2. job' \in [Jobs -> JobStates]
  BY <1>1, WritesFields DEF JobsOK
<1> QED
  BY <1>1, <1>2, WriteKeepsJobs DEF JobStepped

LEMMA BeginJobOK ==
    ASSUME Shape, JobsOK, UNCHANGED <<provider, kind, clients>>,
           NEW j \in Jobs, NEW op \in {"create", "update", "delete"}, NEW i \in Ids,
           NEW field \in Fields, NEW to \in {"text", "object"}, BeginJob(j, op, i, field, to)
    PROVE  JobStepped(j) /\ UNCHANGED <<rows, searchVars, writes>> /\ used' \subseteq Ids
<1> DEFINE pc == IF op = "create" THEN "create" ELSE "find"
           new == [NoJob EXCEPT !.pc = pc, !.op = op, !.id = i, !.field = field, !.to = to]
<1>0. /\ kind = "cron" /\ job[j].pc = "idle" /\ (Serial => \A k \in Jobs : ~Busy(k))
      /\ op = "create" => i \notin used
      /\ used' = used \union {i} /\ UNCHANGED <<rows, searchVars, writes>>
      /\ job' = [job EXCEPT ![j] = new]
  BY DEF BeginJob
<1>1. pc \in {"create", "find"} /\ (pc = "create" => op = "create")
  OBVIOUS
<1> HIDE DEF pc
<1>2. /\ new \in JobStates /\ new.pc = pc /\ new.op = op /\ new.id = i /\ new.field = field
      /\ new.to = to
  <2>1. NoJob \in JobStates
    BY JobsAssumption DEF NoJob, JobStates, Empty
  <2> QED
    BY <2>1, <1>1 DEF JobStates, Calls
<1> HIDE DEF new
<1>3. /\ job' \in [Jobs -> JobStates] /\ job'[j] = new
      /\ \A k \in Jobs \ {j} : job'[k] = job[k]
  BY <1>0, <1>2 DEF Shape
<1>4. Moves(j)
  BY <1>0, <1>3 DEF Moves
<1>5. JobOK(j)' /\ Fresh(j)'
  BY <1>0, <1>1, <1>2, <1>3 DEF JobOK, Fresh
<1>6. \A k \in Jobs : job[k].pc = "create" => job[k].id \in used
  BY DEF JobsOK, CronsOK, JobOK
<1>7. pc = "create" => i \notin used /\ rows[i] = None
  BY <1>0, <1>1 DEF JobsOK, CronsOK, Stored
<1>8. \A k \in Jobs \ {j} : job[k].pc = "create" /\ job[k].id = job'[j].id => job'[j].pc # "create"
  BY <1>2, <1>3, <1>6, <1>7
<1>9. NewOK(j)'
  BY <1>0, <1>2, <1>3, <1>7, <1>8 DEF NewOK
<1>10. used \subseteq used' /\ used' \subseteq Ids
  BY <1>0 DEF Shape
<1>11. JobsOK'
  BY <1>0, <1>4, <1>5, <1>8, <1>9, <1>10, MoveKept
<1> QED
  BY <1>0, <1>3, <1>10, <1>11 DEF JobStepped

\* j goes on with its next call, or is answered or refused.
LEMMA GotoOK ==
    ASSUME Shape, JobsOK, UNCHANGED <<provider, kind, clients, used, writes>>,
           NEW j \in Jobs, Busy(j), NEW pc \in {"delete", "answered", "failed"}, Goto(j, pc),
           UNCHANGED <<rows, searchVars>>
    PROVE  JobStepped(j)
<1>0. /\ job[j].pc # "idle" /\ kind = "cron"
  BY DEF Busy, Calls, JobsOK, CronsOK
<1>1. /\ job' \in [Jobs -> JobStates] /\ job'[j].pc = pc
      /\ job'[j].id = job[j].id /\ job'[j].field = job[j].field /\ job'[j].op = job[j].op
      /\ job'[j].to = job[j].to
      /\ \A k \in Jobs \ {j} : job'[k] = job[k]
  BY DEF Goto, Shape, JobStates, Calls
<1>2. JobOK(j)' /\ Fresh(j)' /\ NewOK(j)'
  BY <1>0, <1>1 DEF JobsOK, CronsOK, JobOK, Fresh, NewOK
<1>3. Moves(j)
  BY <1>1 DEF Moves
<1>4. JobsOK'
  BY <1>0, <1>1, <1>2, <1>3, MoveKept
<1> QED
  BY <1>1, <1>4 DEF JobStepped

LEMMA CreateCronOK ==
    ASSUME Shape, JobsOK, UNCHANGED <<provider, kind, clients>>, NEW j \in Jobs, CreateCron(j)
    PROVE  JobStepped(j)
<1>1. PICK payload \in {Empty, [input |-> j, config |-> j]} :
         Writes(j, [at |-> 1, value |-> job[j].to, big |-> FALSE, holds |-> payload])
  BY DEF CreateCron
<1> DEFINE row == [at |-> 1, value |-> job[j].to, big |-> FALSE, holds |-> payload]
<1>2. job[j].pc = "create" /\ used' = used /\ job[j].to \in {"text", "object"}
  BY DEF CreateCron, JobsOK, CronsOK, JobOK
<1>3. payload \in Contents
  BY JobsAssumption DEF Empty
<1>4. row \in Records /\ ~row.big /\ row.value # "number"
  BY <1>2, <1>3 DEF Records, Values
<1> HIDE DEF row
<1>5. row # None
  BY <1>4, ConstantsAssumption
<1>6. MayWrite(j, row)
  BY <1>2, <1>4, <1>5 DEF MayWrite, Busy, Calls, CronRow
<1>7. Writes(j, row)
  BY <1>1 DEF row
<1> QED
  BY <1>2, <1>6, <1>7, WriteOK

LEMMA FindToUpdateOK ==
    ASSUME Shape, JobsOK, UNCHANGED <<provider, kind, clients>>, NEW j \in Jobs, FindToUpdate(j)
    PROVE  JobStepped(j)
<1> DEFINE cron == rows[job[j].id]
           payload == IF job[j].field = "enabled" THEN Empty ELSE UpdatedPayload(j, cron)
<1>0. /\ job[j].pc = "find" /\ job[j].op = "update"
      /\ UNCHANGED <<rows, searchVars, used, writes>>
      /\ job' = IF cron = None THEN [job EXCEPT ![j].pc = "failed"]
                ELSE [job EXCEPT ![j].pc = "update", ![j].payload = payload]
  BY DEF FindToUpdate
<1>1. /\ Busy(j) /\ kind = "cron" /\ job[j].id \in Ids /\ job[j].field \in Fields
      /\ job[j].id \in used /\ job[j].to \in {"text", "object"}
  BY <1>0 DEF Busy, Calls, JobsOK, CronsOK, JobOK, Shape
<1>2. CASE cron = None
  <2>1. Goto(j, "failed")
    BY <1>0, <1>2 DEF Goto
  <2> QED
    BY <2>1, <1>0, <1>1, GotoOK
<1>3. CASE cron # None
  <2>0. job[j].field # "enabled" => job[j].field \in {"input", "config"}
    BY <1>1 DEF Fields
  <2>1. cron \in Records /\ cron.holds \in [input : Jobs \union {None}, config : Jobs \union {None}]
    BY <1>1, <1>3, JobsAssumption DEF Shape, Records
  <2>2. /\ payload \in Contents
        /\ job[j].field # "enabled" =>
              \A f \in Payload \ {job[j].field} : payload[f] = cron.holds[f]
    BY <2>0, <2>1, JobsAssumption DEF UpdatedPayload, Empty, Payload
  <2> HIDE DEF payload
  <2>3. /\ job' \in [Jobs -> JobStates] /\ job'[j].pc = "update"
        /\ job'[j].id = job[j].id /\ job'[j].field = job[j].field /\ job'[j].op = job[j].op
        /\ job'[j].to = job[j].to /\ job'[j].payload = payload
        /\ \A k \in Jobs \ {j} : job'[k] = job[k]
    <3>1. job' = [job EXCEPT ![j].pc = "update", ![j].payload = payload]
      BY <1>0, <1>3
    <3>2. payload \in Contents /\ job \in [Jobs -> JobStates]
      BY <2>2 DEF Shape
    <3> QED
      BY <3>1, <3>2 DEF JobStates, Calls
  <2>4. JobOK(j)' /\ NewOK(j)'
    BY <1>0, <1>1, <2>3 DEF JobOK, NewOK
  <2>5. Fresh(j)'
    BY <1>0, <1>3, <2>2, <2>3 DEF Fresh, Payload
  <2>6. Moves(j)
    BY <1>0, <2>3 DEF Moves
  <2>7. JobsOK'
    BY <1>0, <1>1, <2>3, <2>4, <2>5, <2>6, MoveKept
  <2> QED
    BY <1>0, <2>3, <2>7 DEF JobStepped
<1> QED
  BY <1>2, <1>3

\* The updates of j, put into a cron.
LEMMA MergedProperties ==
    ASSUME Shape, JobsOK, NEW j \in Jobs, Busy(j), NEW cron \in Records, CronRow(cron)
    PROVE  /\ Merged(j, cron) \in Records /\ Merged(j, cron) # None /\ CronRow(Merged(j, cron))
           /\ job[j].field = "enabled" => Merged(j, cron).holds = cron.holds
           /\ job[j].field # "enabled" => /\ Merged(j, cron).value = cron.value
                                          /\ Merged(j, cron).holds = job[j].payload
<1>1. /\ job[j].to \in {"text", "object"} /\ job[j].payload \in Contents
  BY DEF Busy, Calls, JobsOK, CronsOK, JobOK, Shape, JobStates
<1>2. cron # None /\ ~cron.big /\ cron.value # "number"
  BY ConstantsAssumption DEF CronRow
<1>3. CASE job[j].field = "enabled"
  <2>1. Merged(j, cron) = [cron EXCEPT !.value = job[j].to]
    BY <1>3 DEF Merged
  <2>2. /\ Merged(j, cron) \in Records /\ Merged(j, cron).holds = cron.holds
        /\ ~Merged(j, cron).big /\ Merged(j, cron).value # "number"
    BY <2>1, <1>1, <1>2 DEF Records, Values
  <2> QED
    BY <2>2, <1>3, ConstantsAssumption DEF CronRow
<1>4. CASE job[j].field # "enabled"
  <2>1. Merged(j, cron) = [cron EXCEPT !.holds = job[j].payload]
    BY <1>4 DEF Merged
  <2>2. /\ Merged(j, cron) \in Records /\ Merged(j, cron).value = cron.value
        /\ ~Merged(j, cron).big /\ Merged(j, cron).holds = job[j].payload
    BY <2>1, <1>1, <1>2 DEF Records, Values
  <2> QED
    BY <2>2, <1>2, <1>4, ConstantsAssumption DEF CronRow
<1> QED
  BY <1>3, <1>4

LEMMA UpdateCronOK ==
    ASSUME Shape, JobsOK, UNCHANGED <<provider, kind, clients>>, NEW j \in Jobs, UpdateCron(j)
    PROVE  JobStepped(j)
<1> DEFINE cron == rows[job[j].id]
<1>0. /\ UNCHANGED <<used, writes>>
      /\ job[j].pc \in {"update", "write"} /\ Busy(j) /\ job[j].op = "update" /\ kind = "cron"
      /\ job[j].id \in Ids /\ job[j].field \in Fields /\ job[j].id \in used
      /\ job[j].to \in {"text", "object"}
  BY DEF UpdateCron, UpdateMissing, MemoryUpdate, UpdateReads, SqliteUpdate, SqlServerUpdate,
     AzureUpdate, Busy, Calls, JobsOK, CronsOK, JobOK, Shape
<1>1. cron # None => cron \in Records /\ CronRow(cron)
  BY <1>0 DEF Shape, JobsOK, CronsOK
<1>2. job[j].pc = "write" =>
         /\ job[j].old \in Records /\ CronRow(job[j].old) /\ job[j].old # None
         /\ Serial \/ ~job[j].stale => cron = job[j].old
  BY DEF Shape, JobStates, JobsOK, CronsOK, JobOK, Fresh
<1>3. CASE UpdateMissing(j)
  BY <1>0, <1>3, GotoOK DEF UpdateMissing
<1>4. CASE MemoryUpdate(j)
  <2>1. cron # None /\ Writes(j, Merged(j, cron))
    BY <1>4 DEF MemoryUpdate
  <2>2. MayWrite(j, Merged(j, cron))
    BY <2>1, <1>0, <1>1, MergedProperties DEF MayWrite
  <2> QED
    BY <2>1, <2>2, <1>0, WriteOK
<1>5. CASE UpdateReads(j)
  <2>0. cron # None /\ provider # "memory" /\ UNCHANGED <<rows, searchVars>>
        /\ job' = [job EXCEPT ![j].pc = "write", ![j].old = cron]
        /\ job[j].pc = "update"
    BY <1>5 DEF UpdateReads
  <2>1. cron \in Records \union {None} /\ CronRow(cron)
    BY <2>0, <1>1
  <2> HIDE DEF cron
  <2>2. /\ job' \in [Jobs -> JobStates] /\ job'[j].pc = "write"
        /\ job'[j].id = job[j].id /\ job'[j].field = job[j].field /\ job'[j].op = job[j].op
        /\ job'[j].to = job[j].to /\ job'[j].payload = job[j].payload /\ job'[j].old = cron
        /\ \A k \in Jobs \ {j} : job'[k] = job[k]
    BY <2>0, <2>1 DEF Shape, JobStates, Calls
  <2>3. JobOK(j)' /\ NewOK(j)'
    BY <2>0, <2>1, <2>2, <1>0 DEF JobOK, NewOK, CronRow
  <2>4. Fresh(j)'
    BY <2>0, <2>2, <1>0 DEF JobsOK, Fresh, Serial, cron
  <2>5. Moves(j)
    BY <2>0, <2>2, <1>0 DEF Moves
  <2>6. JobsOK'
    BY <2>2, <2>3, <2>4, <2>5, <1>0, MoveKept
  <2> QED
    BY <2>0, <2>2, <2>6 DEF JobStepped
<1>6. CASE SqliteUpdate(j) \/ SqlServerUpdate(j)
  <2>0. /\ job[j].pc = "write" /\ provider \in Sql
        /\ IF cron = None THEN Goto(j, "answered") /\ UNCHANGED <<rows, searchVars>>
           ELSE Writes(j, Merged(j, job[j].old))
    BY <1>6 DEF SqliteUpdate, SqlServerUpdate, Sql
  <2>1. CASE cron = None
    BY <2>0, <2>1, <1>0, GotoOK
  <2>2. CASE cron # None
    <3>1. MayWrite(j, Merged(j, job[j].old))
      BY <2>0, <2>2, <1>0, <1>2, MergedProperties DEF MayWrite
    <3> QED
      BY <3>1, <2>0, <2>2, <1>0, WriteOK
  <2> QED
    BY <2>1, <2>2
<1>7. CASE AzureUpdate(j)
  <2>0. /\ job[j].pc = "write"
        /\ IF job[j].stale THEN Goto(j, "failed") /\ UNCHANGED <<rows, searchVars>>
           ELSE Writes(j, Merged(j, job[j].old))
    BY <1>7 DEF AzureUpdate
  <2>1. CASE job[j].stale
    BY <2>0, <2>1, <1>0, GotoOK
  <2>2. CASE ~job[j].stale
    <3>1. MayWrite(j, Merged(j, job[j].old))
      BY <2>0, <2>2, <1>0, <1>2, MergedProperties DEF MayWrite
    <3> QED
      BY <3>1, <2>0, <2>2, <1>0, WriteOK
  <2> QED
    BY <2>1, <2>2
<1> QED
  BY <1>3, <1>4, <1>5, <1>6, <1>7 DEF UpdateCron

LEMMA FindToDeleteOK ==
    ASSUME Shape, JobsOK, UNCHANGED <<provider, kind, clients>>, NEW j \in Jobs, FindToDelete(j)
    PROVE  JobStepped(j)
<1>1. /\ Busy(j) /\ UNCHANGED <<rows, searchVars, used, writes>>
      /\ Goto(j, "failed") \/ Goto(j, "delete")
  BY DEF FindToDelete, Busy, Calls
<1> QED
  BY <1>1, GotoOK

LEMMA DeleteCronOK ==
    ASSUME Shape, JobsOK, UNCHANGED <<provider, kind, clients>>, NEW j \in Jobs, DeleteCron(j)
    PROVE  JobStepped(j)
<1>1. Writes(j, None) /\ used' = used /\ MayWrite(j, None)
  BY DEF DeleteCron, MayWrite, Busy, Calls, CronRow
<1> QED
  BY <1>1, WriteOK

\* What a request may do.
JobStep(j) ==
    \/ \E op \in {"create", "update", "delete"}, i \in Ids, field \in Fields, to \in {"text", "object"} :
          BeginJob(j, op, i, field, to)
    \/ CreateCron(j) \/ FindToUpdate(j) \/ UpdateCron(j) \/ FindToDelete(j) \/ DeleteCron(j)

LEMMA JobStepOK ==
    ASSUME Shape, JobsOK, UNCHANGED <<provider, kind, clients>>, NEW j \in Jobs, JobStep(j)
    PROVE  JobStepped(j) /\ used' \subseteq Ids /\ writes' = writes
<1>1. CASE CreateCron(j) \/ FindToUpdate(j) \/ UpdateCron(j) \/ FindToDelete(j) \/ DeleteCron(j)
  <2>1. JobStepped(j)
    BY <1>1, CreateCronOK, FindToUpdateOK, UpdateCronOK, FindToDeleteOK, DeleteCronOK
  <2>2. UNCHANGED <<used, writes>>
    BY <1>1 DEF CreateCron, FindToUpdate, UpdateCron, FindToDelete, DeleteCron
  <2> QED
    BY <2>1, <2>2 DEF Shape
<1>2. CASE \E op \in {"create", "update", "delete"}, i \in Ids, field \in Fields, to \in {"text", "object"} :
             BeginJob(j, op, i, field, to)
  BY <1>2, BeginJobOK
<1> QED
  BY <1>1, <1>2 DEF JobStep

-----------------------------------------------------------------------------
(* The invariant.                                                          *)

LEMMA CountedInRange == \A r, ask : Counted(r, ask) \in 0 .. Cardinality(Ids)
BY IdsFinite DEF Counted

LEMMA WriteKeepsShape ==
    ASSUME Shape, NEW i \in Ids, NEW row \in Records \union {None}, WriteRow(i, row)
    PROVE  /\ rows' \in [Ids -> Records \union {None}]
           /\ search' \in [Searches -> SearchStates]
           /\ seen' \in [Searches -> [Ids -> SUBSET (Records \union {None})]]
           /\ counts' \in [Searches -> SUBSET (0 .. Cardinality(Ids))]
<1>1. /\ rows' = [rows EXCEPT ![i] = row]
      /\ seen' = [s \in Searches |-> IF InFlight(s) THEN [seen[s] EXCEPT ![i] = @ \union {row}]
                                     ELSE seen[s]]
      /\ counts' = [s \in Searches |-> IF InFlight(s) THEN counts[s] \union {Counted(rows', Ask(s))}
                                       ELSE counts[s]]
      /\ search' = search
  BY DEF WriteRow
<1>2. rows' \in [Ids -> Records \union {None}] /\ search' \in [Searches -> SearchStates]
  BY <1>1 DEF Shape
<1>3. ASSUME NEW s \in Searches
      PROVE  [seen[s] EXCEPT ![i] = @ \union {row}] \in [Ids -> SUBSET (Records \union {None})]
  BY DEF Shape
<1>4. seen' \in [Searches -> [Ids -> SUBSET (Records \union {None})]]
  BY <1>1, <1>3 DEF Shape
<1>5. counts' \in [Searches -> SUBSET (0 .. Cardinality(Ids))]
  BY <1>1, CountedInRange DEF Shape
<1> QED
  BY <1>2, <1>4, <1>5

LEMMA InitKept == Init => CronInv
<1> SUFFICES ASSUME Init
             PROVE  CronInv
  OBVIOUS
<1>0. /\ search = [s \in Searches |-> NoSearch] /\ job = [j \in Jobs |-> NoJob]
      /\ seen = [s \in Searches |-> [i \in Ids |-> {}]] /\ counts = [s \in Searches |-> {}]
      /\ rows \in [Ids -> Records \union {None}] /\ used = Stored
  BY DEF Init, InitSearch
<1>1. NoSearch \in SearchStates /\ NoSearch.pc = "idle"
  <2>1. <<>> \in Seq(Found) /\ 0 \in 0 .. Cardinality(Ids)
    BY IdsFinite, {} \in SUBSET Ids
  <2> QED
    BY <2>1 DEF NoSearch, SearchStates, Pcs
<1>2. NoJob \in JobStates /\ NoJob.pc = "idle"
  BY JobsAssumption DEF NoJob, JobStates, Empty
<1>3. Shape
  <2>1. used \subseteq Ids /\ writes \in 0 .. MaxWrites
    BY <1>0, JobsAssumption DEF Init, Stored
  <2>2. search \in [Searches -> SearchStates] /\ job \in [Jobs -> JobStates]
    BY <1>0, <1>1, <1>2
  <2>3. /\ provider \in Sql \union {"memory", "azure"} /\ kind \in Kinds
        /\ clients \in {"serial", "concurrent"}
    BY DEF Init
  <2>4. /\ seen \in [Searches -> [Ids -> SUBSET (Records \union {None})]]
        /\ counts \in [Searches -> SUBSET (0 .. Cardinality(Ids))]
    BY <1>0
  <2> QED
    BY <2>1, <2>2, <2>3, <2>4, <1>0 DEF Shape
<1>4. JobsOK
  <2>1. \A j \in Jobs : job[j].pc = "idle"
    BY <1>0, <1>2
  <2>2. \A j \in Jobs : JobOK(j) /\ NewOK(j) /\ Fresh(j) /\ ~Busy(j)
    BY <2>1 DEF JobOK, NewOK, Fresh, Busy, Calls
  <2>3. kind = "cron" => \A i \in Ids : CronRow(rows[i])
    <3> SUFFICES ASSUME kind = "cron", NEW i \in Ids, rows[i] # None
                 PROVE  ~rows[i].big /\ rows[i].value # "number"
      BY DEF CronRow
    <3>1. i \in Stored /\ rows[i].big \in BOOLEAN
      BY <1>0 DEF Stored, Records
    <3>2. /\ rows[i].big => kind = "thread"
          /\ rows[i].value \in {"text", "object"}
      BY <3>1 DEF Init
    <3> QED
      BY <3>2
  <2> QED
    BY <2>1, <2>2, <2>3, <1>0 DEF JobsOK, CronsOK, InTurn
<1>5. \A s \in Searches : SearchOK(s)
  <2> TAKE s \in Searches
  <2>1. search[s].pc = "idle"
    BY <1>0, <1>1
  <2> QED
    BY <2>1 DEF SearchOK, PlaceOK, WatchOK, GotOK, AnswerOK, TotalOK, InFlight
<1> QED
  BY <1>3, <1>4, <1>5 DEF CronInv

\* A thread or an assistant is written.
LEMMA WriteRecordKept ==
    ASSUME CronInv, UNCHANGED <<provider, kind, clients>>, NEW i \in Ids, WriteRecord(i)
    PROVE  CronInv'
<1>1. PICK row \in Records \union {None} : WriteRow(i, row)
  BY DEF WriteRecord
<1>2. kind # "cron" /\ writes < MaxWrites /\ writes' = writes + 1 /\ UNCHANGED <<job, used>>
  BY DEF WriteRecord
<1>3. Shape'
  <2>1. writes' \in 0 .. MaxWrites
    BY <1>2, JobsAssumption DEF CronInv, Shape
  <2> QED
    BY <2>1, <1>1, <1>2, WriteKeepsShape DEF CronInv, Shape
<1>4. JobsOK'
  <2>1. \A j \in Jobs : job'[j].pc = "idle"
    BY <1>2 DEF CronInv, JobsOK, CronsOK
  <2>2. \A j \in Jobs : JobOK(j)' /\ NewOK(j)' /\ Fresh(j)' /\ ~Busy(j)'
    BY <2>1 DEF JobOK, NewOK, Fresh, Busy, Calls
  <2> QED
    BY <2>1, <2>2, <1>2 DEF JobsOK, CronsOK, InTurn
<1>5. \A s \in Searches : SearchOK(s)'
  BY <1>1, WriteKept DEF CronInv
<1> QED
  BY <1>3, <1>4, <1>5 DEF CronInv

LEMMA JobStepKept ==
    ASSUME CronInv, UNCHANGED <<provider, kind, clients>>, NEW j \in Jobs, JobStep(j)
    PROVE  CronInv'
<1>1. JobStepped(j) /\ used' \subseteq Ids /\ writes' = writes
  BY JobStepOK DEF CronInv
<1>2. CASE UNCHANGED <<rows, searchVars>>
  <2>1. Shape'
    BY <1>1, <1>2 DEF CronInv, Shape, JobStepped, searchVars
  <2>2. \A s \in Searches : SearchOK(s)'
    BY <1>2, OthersKept DEF CronInv, searchVars
  <2> QED
    BY <2>1, <2>2, <1>1 DEF CronInv, JobStepped
<1>3. CASE \E row \in Records \union {None} : MayWrite(j, row) /\ Writes(j, row)
  <2>1. PICK row \in Records \union {None} : MayWrite(j, row) /\ Writes(j, row)
    BY <1>3
  <2>2. job[j].id \in Ids
    BY <2>1, WritesFields DEF CronInv, JobsOK, MayWrite
  <2>3. WriteRow(job[j].id, row)
    BY <2>1 DEF Writes
  <2>4. Shape'
    BY <2>2, <2>3, <1>1, WriteKeepsShape DEF CronInv, Shape, JobStepped
  <2>5. \A s \in Searches : SearchOK(s)'
    BY <2>2, <2>3, WriteKept DEF CronInv
  <2> QED
    BY <2>4, <2>5, <1>1 DEF CronInv, JobStepped
<1> QED
  BY <1>1, <1>2, <1>3 DEF JobStepped

LEMMA SearchesKept ==
    ASSUME CronInv, UNCHANGED <<provider, kind, clients, job, used, writes>>, NEW s \in Searches,
           (\E ask \in Asks : BeginSearch(s, ask)) \/ SearchStep(s)
    PROVE  CronInv'
<1>1. /\ Stepped(s) /\ rows' = rows
      /\ seen' \in [Searches -> [Ids -> SUBSET (Records \union {None})]]
      /\ counts' \in [Searches -> SUBSET (0 .. Cardinality(Ids))]
      /\ \A t \in Searches \ {s} : seen'[t] = seen[t] /\ counts'[t] = counts[t]
  <2>1. CASE SearchStep(s)
    BY <2>1, SearchStepOK DEF CronInv, Unwritten, Shape
  <2>2. CASE \E ask \in Asks : BeginSearch(s, ask)
    BY <2>2, BeginSearchOK DEF CronInv
  <2> QED
    BY <2>1, <2>2
<1>2. Shape'
  BY <1>1 DEF CronInv, Shape, Stepped
<1>3. JobsOK'
  BY <1>1, JobsUntouched DEF CronInv
<1>4. \A t \in Searches : SearchOK(t)'
  BY <1>1, OthersKept DEF CronInv, Stepped
<1> QED
  BY <1>2, <1>3, <1>4 DEF CronInv

LEMMA StepOfNext ==
    ASSUME Next
    PROVE  /\ UNCHANGED <<provider, kind, clients>>
           /\ \/ \E i \in Ids : WriteRecord(i)
              \/ \E j \in Jobs : JobStep(j)
              \/ \E s \in Searches : /\ ((\E ask \in Asks : BeginSearch(s, ask)) \/ SearchStep(s))
                                      /\ UNCHANGED <<job, used, writes>>
BY DEF Next, JobStep

LEMMA NextKept == CronInv /\ [Next]_vars => CronInv'
<1> SUFFICES ASSUME CronInv, [Next]_vars
             PROVE  CronInv'
  OBVIOUS
<1>1. CASE Next
  BY <1>1, StepOfNext, WriteRecordKept, JobStepKept, SearchesKept
<1>2. CASE UNCHANGED vars
  <2>1. Shape' /\ JobsOK'
    BY <1>2, JobsUntouched DEF CronInv, Shape, vars, searchVars
  <2>2. \A s \in Searches : SearchOK(s)'
    BY <1>2, OthersKept DEF CronInv, vars, searchVars
  <2> QED
    BY <2>1, <2>2 DEF CronInv
<1> QED
  BY <1>1, <1>2

(* The invariant holds, for any finite set of ids, any searches, requests  *)
(* and questions, on each storage provider.                                *)
THEOREM CronInvariant == Spec => []CronInv
BY InitKept, NextKept, PTL DEF Spec

-----------------------------------------------------------------------------
(* What it says.                                                           *)

LEMMA ShapeImpliesTypeOK == CronInv => TypeOK
<1> SUFFICES ASSUME CronInv
             PROVE  TypeOK
  OBVIOUS
<1>1. Shape /\ JobsOK
  BY DEF CronInv
<1>2. SearchTypeOK
  <2>1. ASSUME NEW s \in Searches
        PROVE  /\ search[s].ask \in Asks \union {None}
               /\ search[s].pc \in {"idle", "query", "page", "download", "hydrate", "fetch", "done"}
               /\ search[s].todo \subseteq Ids
               /\ search[s].got \subseteq Found
               /\ search[s].total \in 0 .. Cardinality(Ids)
               /\ search[s].items \in Seq(Found)
               /\ \A i \in Ids : seen[s][i] \subseteq Records \union {None}
               /\ counts[s] \subseteq 0 .. Cardinality(Ids)
    <3>1. /\ search[s] \in SearchStates /\ seen[s] \in [Ids -> SUBSET (Records \union {None})]
          /\ counts[s] \in SUBSET (0 .. Cardinality(Ids))
      BY <1>1 DEF Shape
    <3> QED
      BY <3>1 DEF SearchStates, Pcs
  <2>2. kind = "cron" => \A i \in Stored : ~rows[i].big /\ rows[i].value # "number"
    BY <1>1 DEF JobsOK, CronsOK, CronRow, Stored
  <2> QED
    BY <2>1, <2>2, <1>1 DEF SearchTypeOK, Shape
<1>3. ASSUME NEW j \in Jobs
      PROVE  /\ job[j].pc \in Calls \union {"idle", "answered", "failed"}
             /\ job[j].pc # "idle" => job[j].id \in used /\ job[j].field \in Fields
             /\ job[j].payload \in Contents
             /\ job[j].old \in Records \union {None}
             /\ job[j].pc = "write" => job[j].old # None
             /\ job[j].stale \in BOOLEAN
  <2>1. job[j] \in JobStates /\ JobOK(j)
    BY <1>1 DEF Shape, JobsOK, CronsOK
  <2> QED
    BY <2>1 DEF JobStates, JobOK
<1>4. kind = "cron" => Stored \subseteq used
  BY <1>1 DEF JobsOK, CronsOK
<1> QED
  BY <1>1, <1>2, <1>3, <1>4 DEF Shape, TypeOK

(* The shape of the rows, the searches and the requests.                   *)
THEOREM TypeCorrect == Spec => []TypeOK
BY CronInvariant, ShapeImpliesTypeOK, PTL

\* Rows with different ids are as many as the sequence is long.
LEMMA IdsOfItems ==
    ASSUME NEW items \in Seq(Found),
           \A k, l \in DOMAIN items : items[k].id = items[l].id => k = l
    PROVE  Cardinality({x.id : x \in Range(items)}) = Len(items)
<1> DEFINE n == Len(items)
           ids == {x.id : x \in Range(items)}
           f == [k \in 1 .. n |-> items[k].id]
<1>1. n \in Nat /\ DOMAIN items = 1 .. n
  OBVIOUS
<1>2. Range(items) = {items[k] : k \in 1 .. n}
  BY <1>1 DEF Range
<1>3. (\A k \in 1 .. n : items[k].id \in ids) /\ \A y \in ids : \E k \in 1 .. n : items[k].id = y
  BY <1>2
<1> HIDE DEF n, ids
<1>4. f \in Surjection(1 .. n, ids)
  BY <1>3 DEF Surjection
<1>5. f \in Injection(1 .. n, ids)
  BY <1>1, <1>3 DEF Injection, IsInjective
<1>6. IsFiniteSet(1 .. n) /\ Cardinality(1 .. n) = n
  BY <1>1, FS_Interval
<1> QED
  BY <1>4, <1>5, <1>6, FS_Surjection DEF n, ids

LEMMA InvImpliesFaithful == CronInv => SearchFaithful
<1> SUFFICES ASSUME CronInv, NEW s \in Searches,
                    search[s].pc = "done", Ask(s).op # "count", Plain(s)
             PROVE  LET items == search[s].items
                        ids == {x.id : x \in Range(items)}
                        Meets(r) == r # None /\ EqualTo(r, Ask(s).wanted)
                    IN  /\ Cardinality(ids) = Len(items) /\ Len(items) <= Ask(s).limit
                        /\ ids \subseteq Asked(s)
                        /\ \A x \in Range(items) :
                              /\ x.row \in seen[s][x.id]
                              /\ \E r \in seen[s][x.id] : Meets(r)
                              /\ Meets(x.row) \/ (provider = "azure" /\ x.full)
                              /\ x.full => Ask(s).state
                              /\ Ask(s).state /\ Quiet(s) => x.full
                        /\ Ask(s).offset = 0 /\ Len(items) < Ask(s).limit =>
                              \A i \in Asked(s) : (\A r \in seen[s][i] : Meets(r)) => i \in ids
                        /\ (\A i \in Ids : \A q, r \in seen[s][i] \ {None} : q.at = r.at) =>
                              (Ask(s).order # "none" => Sorted(items, Ask(s).order))
  BY DEF SearchFaithful
<1> DEFINE items == search[s].items
           ids == {x.id : x \in Range(items)}
<1>1. RowsOK(provider, Ask(s), seen[s], items) /\ FullOK(s)
  BY DEF CronInv, SearchOK, AnswerOK
<1>2. items \in Seq(Found)
  BY DEF CronInv, Shape, SearchStates
<1>3. Asked(s) = AskedBy(Ask(s))
  BY DEF Asked, AskedBy
<1>4. /\ \A x \in Range(items) : \E k \in DOMAIN items : x = items[k]
      /\ \A k \in DOMAIN items : items[k] \in Range(items)
  BY DEF Range
<1>5. \A k \in DOMAIN items : items[k].id \in ids
  BY <1>4
<1>6. \A k \in DOMAIN items : RowOK(provider, Ask(s), seen[s], items[k])
  BY <1>1 DEF RowsOK
<1>7. Cardinality(ids) = Len(items) /\ Len(items) <= Ask(s).limit
  BY <1>1, <1>2, IdsOfItems DEF RowsOK
<1>8. ids \subseteq Asked(s)
  BY <1>3, <1>4, <1>6 DEF RowOK
<1>9. \A x \in Range(items) :
         /\ x.row \in seen[s][x.id]
         /\ \E r \in seen[s][x.id] : r # None /\ EqualTo(r, Ask(s).wanted)
         /\ (x.row # None /\ EqualTo(x.row, Ask(s).wanted)) \/ (provider = "azure" /\ x.full)
         /\ x.full => Ask(s).state
         /\ Ask(s).state /\ Quiet(s) => x.full
  BY <1>1, <1>4, <1>6 DEF RowOK, Suits, FullOK
<1>10. Ask(s).offset = 0 /\ Len(items) < Ask(s).limit =>
         \A i \in Asked(s) :
            (\A r \in seen[s][i] : r # None /\ EqualTo(r, Ask(s).wanted)) => i \in ids
  BY <1>1, <1>3, <1>5 DEF RowsOK, Suits
<1>11. (\A i \in Ids : \A q, r \in seen[s][i] \ {None} : q.at = r.at) =>
         (Ask(s).order # "none" => Sorted(items, Ask(s).order))
  BY <1>1 DEF RowsOK, SameAge
<1> QED
  BY <1>7, <1>8, <1>9, <1>10, <1>11

(* What a search answers is there, and what is there is answered: for any  *)
(* records, searches, pages and writes in between (RecordSearch).          *)
THEOREM SearchFaithfulCorrect == Spec => []SearchFaithful
BY CronInvariant, InvImpliesFaithful, PTL

LEMMA InvImpliesTotal == CronInv => TotalRight
<1> SUFFICES ASSUME CronInv, NEW s \in Searches, search[s].pc = "done", Plain(s), Ask(s).op # "ids"
             PROVE  /\ provider # "azure" \/ Quiet(s) => search[s].total \in counts[s]
                    /\ Ask(s).op # "count" /\ (provider # "sqlserver" \/ Quiet(s)) =>
                          LET left == search[s].total - Ask(s).offset
                          IN  Len(search[s].items) = IF left < 0 THEN 0
                                                     ELSE IF left < Ask(s).limit THEN left
                                                     ELSE Ask(s).limit
  BY DEF TotalRight
<1>1. TotalOK(s)
  BY DEF CronInv, SearchOK
<1> QED
  BY <1>1 DEF TotalOK, PageLength

(* The total is the number of records that fitted at some moment, and the  *)
(* page has as many of them as it can have.                                *)
THEOREM TotalRightCorrect == Spec => []TotalRight
BY CronInvariant, InvImpliesTotal, PTL

\* What a request writes changes the cron as it was asked to.
LEMMA WriteAsAsked ==
    ASSUME CronInv, NEW j \in Jobs, NEW row, MayWrite(j, row), Writes(j, row), NEW i \in Ids
    PROVE  /\ rows[i] # None /\ rows'[i] \notin {None, rows[i]} =>
                 /\ job[j].id = i /\ job[j].op = "update"
                 /\ Busy(j) /\ job'[j].pc = "answered"
                 /\ \/ Changed(i) \subseteq {job[j].field}
                    \/ ~Serial /\ provider \in Sql
                    \/ ~Serial /\ job[j].field \in Payload /\ Changed(i) \subseteq Payload
           /\ rows[i] = None /\ rows'[i] # None =>
                 job[j].pc = "create" /\ job[j].id = i /\ job'[j].pc = "answered"
<1>0. /\ Shape /\ CronsOK /\ Busy(j) /\ row \in Records \union {None}
      /\ job[j].pc # "idle"
  BY DEF CronInv, JobsOK, MayWrite, Busy, Calls
<1>1. /\ job[j].id \in Ids /\ rows'[job[j].id] = row /\ job'[j].pc = "answered"
      /\ \A k \in Ids \ {job[j].id} : rows'[k] = rows[k]
  BY <1>0, WritesFields
<1>2. rows[i] = None /\ rows'[i] # None =>
         job[j].pc = "create" /\ job[j].id = i /\ job'[j].pc = "answered"
  BY <1>1 DEF MayWrite
<1>3. ASSUME rows[i] # None, rows'[i] \notin {None, rows[i]}
      PROVE  /\ job[j].id = i /\ job[j].op = "update"
             /\ \/ Changed(i) \subseteq {job[j].field}
                \/ ~Serial /\ provider \in Sql
                \/ ~Serial /\ job[j].field \in Payload /\ Changed(i) \subseteq Payload
  <2>1. job[j].id = i /\ rows'[i] = row /\ row # None
    BY <1>1, <1>3
  <2>2. job[j].pc # "create"
    BY <2>1, <1>3, <1>0 DEF CronsOK, NewOK
  <2>3. /\ job[j].op = "update" /\ job[j].pc \in {"update", "write"}
        /\ row = Merged(j, rows[i]) \/ (~Serial /\ provider \in Sql)
    BY <2>1, <2>2 DEF MayWrite
  <2>4. rows[i] \in Records /\ CronRow(rows[i]) /\ job[j].field \in Fields
    BY <1>0, <1>3, <2>1, WritesFields DEF Shape, CronsOK, JobOK
  <2>5. CASE row = Merged(j, rows[i]) /\ job[j].field = "enabled"
    <3>1. row.holds = rows[i].holds
      BY <2>4, <2>5, <1>0, MergedProperties DEF CronInv
    <3>2. Changed(i) \subseteq {"enabled"}
      BY <3>1, <2>1 DEF Changed
    <3> QED
      BY <3>2, <2>1, <2>3, <2>5
  <2>6. CASE row = Merged(j, rows[i]) /\ job[j].field # "enabled"
    <3>1. row.value = rows[i].value /\ row.holds = job[j].payload
      BY <2>4, <2>6, <1>0, MergedProperties DEF CronInv
    <3>2. job[j].field \in Payload /\ Changed(i) \subseteq Payload
      BY <3>1, <2>1, <2>4, <2>6 DEF Changed, Fields, Payload
    <3>3. CASE Serial
      <4>1. \A f \in Payload \ {job[j].field} : row.holds[f] = rows[i].holds[f]
        BY <3>1, <3>2, <3>3, <2>1, <2>3 DEF CronInv, JobsOK, Fresh
      <4>2. Changed(i) \subseteq {job[j].field}
        BY <4>1, <3>2, <2>1 DEF Changed, Payload
      <4> QED
        BY <4>2, <2>1, <2>3
    <3> QED
      BY <3>2, <3>3, <2>1, <2>3
  <2> QED
    BY <2>1, <2>3, <2>5, <2>6
<1> QED
  BY <1>0, <1>1, <1>2, <1>3

LEMMA StepAsAsked ==
    CronInv /\ [Next]_vars =>
      (kind = "cron" => \A i \in Ids :
          /\ rows[i] # None /\ rows'[i] \notin {None, rows[i]} =>
                \E j \in Jobs :
                    /\ job[j].id = i /\ job[j].op = "update"
                    /\ Busy(j) /\ job'[j].pc = "answered"
                    /\ \/ Changed(i) \subseteq {job[j].field}
                       \/ ~Serial /\ provider \in Sql
                       \/ ~Serial /\ job[j].field \in Payload /\ Changed(i) \subseteq Payload
          /\ rows[i] = None /\ rows'[i] # None =>
                \E j \in Jobs : job[j].pc = "create" /\ job[j].id = i /\ job'[j].pc = "answered")
<1> SUFFICES ASSUME CronInv, [Next]_vars, kind = "cron", NEW i \in Ids
             PROVE  /\ rows[i] # None /\ rows'[i] \notin {None, rows[i]} =>
                         \E j \in Jobs :
                             /\ job[j].id = i /\ job[j].op = "update"
                             /\ Busy(j) /\ job'[j].pc = "answered"
                             /\ \/ Changed(i) \subseteq {job[j].field}
                                \/ ~Serial /\ provider \in Sql
                                \/ ~Serial /\ job[j].field \in Payload /\ Changed(i) \subseteq Payload
                    /\ rows[i] = None /\ rows'[i] # None =>
                         \E j \in Jobs : /\ job[j].pc = "create" /\ job[j].id = i
                                         /\ job'[j].pc = "answered"
  OBVIOUS
<1>1. CASE rows' = rows
  BY <1>1
<1>2. CASE \E j \in Jobs, row \in Records \union {None} : MayWrite(j, row) /\ Writes(j, row)
  BY <1>2, WriteAsAsked
<1>3. rows' = rows \/ \E j \in Jobs, row \in Records \union {None} : MayWrite(j, row) /\ Writes(j, row)
  <2>1. CASE UNCHANGED vars
    BY <2>1 DEF vars
  <2>2. CASE \E k \in Ids : WriteRecord(k)
    BY <2>2 DEF WriteRecord
  <2>3. CASE \E j \in Jobs : JobStep(j) /\ UNCHANGED <<provider, kind, clients>>
    BY <2>3, JobStepOK DEF CronInv, JobStepped
  <2>4. CASE \E s \in Searches : (\E ask \in Asks : BeginSearch(s, ask)) \/ SearchStep(s)
    BY <2>4 DEF BeginSearch, SearchStep
  <2> QED
    BY <2>1, <2>2, <2>3, <2>4, StepOfNext
<1> QED
  BY <1>1, <1>2, <1>3

(* An update changes what it names and nothing else as long as clients     *)
(* wait for each other, what overlapping updates may undo is known, and    *)
(* only a creation brings a cron into being (CronJobs).                    *)
THEOREM CronsChangeAsAskedCorrect == Spec => CronsChangeAsAsked
BY CronInvariant, StepAsAsked, PTL DEF Spec, CronsChangeAsAsked
=============================================================================
