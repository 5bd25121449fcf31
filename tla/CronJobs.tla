------------------------------ MODULE CronJobs ------------------------------
(***************************************************************************)
(* The crons (src/src/modules/crons/) on each of the four storage          *)
(* providers: creating, updating and deleting them, one request at a time  *)
(* or several at once, while they are searched and counted (RecordSearch). *)
(* A cron holds a filtered value (`enabled`) and a payload with an input   *)
(* and a config; the schedule, the dates and the metadata are written like *)
(* `enabled` and left out, and no cron is ever run.  The same module shows *)
(* the searches of threads and assistants, whose writes (ThreadStates,     *)
(* AssistantVersions) are single steps here.                               *)
(***************************************************************************)
EXTENDS RecordSearch

CONSTANTS
    Jobs,        \* requests that write crons
    MaxWrites    \* bound: writes of threads or assistants

ASSUME JobsAssumption ==
    /\ MaxWrites \in Nat
    /\ Contents = [input : Jobs \union {None}, config : Jobs \union {None}]

VARIABLES
    clients,     \* whether clients wait for each other; never changes
    job,         \* job[j]: what j asks, how far it is and what it has read
    used,        \* ids that were given to crons
    writes       \* writes of threads or assistants so far

vars == <<provider, kind, clients, rows, searchVars, job, used, writes>>

Serial == clients = "serial"
Kinds  == {"thread", "cron", "assistant"}

Empty  == [input |-> None, config |-> None]
Fields == {"enabled", "input", "config"}
Calls  == {"create", "find", "update", "write", "delete"}

NoJob  == [pc |-> "idle", op |-> "none", id |-> None, field |-> None, to |-> None,
           payload |-> Empty, old |-> None, stale |-> FALSE]
Busy(j) == job[j].pc \in Calls

Init ==
    /\ provider \in Sql \union {"memory", "azure"}
    /\ kind \in Kinds
    /\ clients \in {"serial", "concurrent"}
    /\ rows \in [Ids -> Records \union {None}]
    /\ \A i \in Stored :
          /\ rows[i].holds = Empty
          /\ rows[i].big => kind = "thread" /\ provider = "azure"
          /\ kind = "cron" => rows[i].value \in {"text", "object"}
    /\ kind # "cron" => clients = "serial"
    /\ InitSearch
    /\ job = [j \in Jobs |-> NoJob]
    /\ used = Stored
    /\ writes = 0

-----------------------------------------------------------------------------
(* Threads and assistants: one is created, changed or deleted.             *)
WriteRecord(i) ==
    /\ kind # "cron"
    /\ writes < MaxWrites
    /\ \E s \in Searches : InFlight(s)
    /\ \E row \in Records \union {None} :
          /\ row # rows[i]
          /\ row # None => /\ row.holds = Empty
                           /\ row.big => kind = "thread" /\ provider = "azure"
                           /\ rows[i] # None => row.at = rows[i].at
          /\ WriteRow(i, row)
    /\ writes' = writes + 1
    /\ UNCHANGED <<job, used>>

-----------------------------------------------------------------------------
(* Crons.                                                                  *)
Goto(j, call) == job' = [job EXCEPT ![j].pc = call]

(* j writes its cron (or deletes it) and is answered: the etag that others *)
(* have read is stale.                                                     *)
Writes(j, row) ==
    /\ WriteRow(job[j].id, row)
    /\ job' = [k \in Jobs |->
                 IF k = j THEN [job[j] EXCEPT !.pc = "answered"]
                 ELSE [job[k] EXCEPT !.stale = @ \/ (job[k].pc = "write" /\ job[k].id = job[j].id)]]

BeginJob(j, op, i, field, to) ==
    /\ kind = "cron"
    /\ job[j].pc = "idle"
    /\ Serial => \A k \in Jobs : ~Busy(k)
    /\ IF op = "create" THEN i \notin used ELSE i \in used
    /\ field = "enabled" \/ to = "text"
    /\ op # "update" => field = "enabled"
    /\ used' = used \union {i}
    /\ job' = [job EXCEPT ![j] = [NoJob EXCEPT !.pc = IF op = "create" THEN "create" ELSE "find",
                                    !.op = op, !.id = i, !.field = field, !.to = to]]
    /\ UNCHANGED <<rows, searchVars, writes>>

(* A new cron, no older than the others.                                   *)
CreateCron(j) ==
    /\ job[j].pc = "create"
    /\ \E payload \in {Empty, [input |-> j, config |-> j]} :
          Writes(j, [at |-> 1, value |-> job[j].to, big |-> FALSE, holds |-> payload])
    /\ UNCHANGED <<used, writes>>

\* Mutant: the payload is what the request names.
UpdatedPayloadAnew(j, cron) == [Empty EXCEPT ![job[j].field] = j]

(* The payload as the service read it, with what the request names.        *)
UpdatedPayload(j, cron) == [cron.holds EXCEPT ![job[j].field] = j]

FindToUpdate(j) ==
    LET cron == rows[job[j].id]
    IN  /\ job[j].pc = "find" /\ job[j].op = "update"
        /\ job' = IF cron = None THEN [job EXCEPT ![j].pc = "failed"]
                  ELSE [job EXCEPT ![j].pc = "update",
                          ![j].payload = IF job[j].field = "enabled" THEN Empty
                                         ELSE UpdatedPayload(j, cron)]
        /\ UNCHANGED <<rows, searchVars, used, writes>>

\* The record with the updates of j.
Merged(j, cron) ==
    IF job[j].field = "enabled" THEN [cron EXCEPT !.value = job[j].to]
    ELSE [cron EXCEPT !.holds = job[j].payload]

\* Mutant: the update goes on with a record it did not find.
UpdateNothing(j) ==
    /\ job[j].pc = "update" /\ rows[job[j].id] = None
    /\ Goto(j, "write")
    /\ UNCHANGED <<rows, searchVars>>

UpdateMissing(j) ==
    /\ job[j].pc = "update" /\ rows[job[j].id] = None
    /\ Goto(j, "failed")
    /\ UNCHANGED <<rows, searchVars>>

MemoryUpdate(j) ==
    /\ job[j].pc = "update" /\ rows[job[j].id] # None
    /\ provider = "memory"
    /\ Writes(j, Merged(j, rows[job[j].id]))

UpdateReads(j) ==
    /\ job[j].pc = "update" /\ rows[job[j].id] # None
    /\ provider # "memory"
    /\ job' = [job EXCEPT ![j].pc = "write", ![j].old = rows[job[j].id]]
    /\ UNCHANGED <<rows, searchVars>>

(* The SQL UPDATE writes the row as it was read, if it is still there, and *)
(* answers the record in either case.                                      *)
SqliteUpdate(j) ==
    /\ job[j].pc = "write" /\ provider = "sqlite"
    /\ IF rows[job[j].id] = None THEN Goto(j, "answered") /\ UNCHANGED <<rows, searchVars>>
       ELSE Writes(j, Merged(j, job[j].old))

SqlServerUpdate(j) ==
    /\ job[j].pc = "write" /\ provider = "sqlserver"
    /\ IF rows[job[j].id] = None THEN Goto(j, "answered") /\ UNCHANGED <<rows, searchVars>>
       ELSE Writes(j, Merged(j, job[j].old))

(* The upload is refused (412) if the blob was written since it was read.  *)
AzureUpdate(j) ==
    /\ job[j].pc = "write" /\ provider = "azure"
    /\ IF job[j].stale THEN Goto(j, "failed") /\ UNCHANGED <<rows, searchVars>>
       ELSE Writes(j, Merged(j, job[j].old))

UpdateCron(j) ==
    /\ \/ UpdateMissing(j) \/ MemoryUpdate(j) \/ UpdateReads(j)
       \/ SqliteUpdate(j) \/ SqlServerUpdate(j) \/ AzureUpdate(j)
    /\ UNCHANGED <<used, writes>>

FindToDelete(j) ==
    /\ job[j].pc = "find" /\ job[j].op = "delete"
    /\ Goto(j, IF rows[job[j].id] = None THEN "failed" ELSE "delete")
    /\ UNCHANGED <<rows, searchVars, used, writes>>

(* Whether anything was there to delete is not looked at.                  *)
DeleteCron(j) ==
    /\ job[j].pc = "delete"
    /\ Writes(j, None)
    /\ UNCHANGED <<used, writes>>

-----------------------------------------------------------------------------
Next ==
    /\ \/ \E i \in Ids : WriteRecord(i)
       \/ \E j \in Jobs :
             \/ \E op \in {"create", "update", "delete"}, i \in Ids, field \in Fields,
                   to \in {"text", "object"} : BeginJob(j, op, i, field, to)
             \/ CreateCron(j) \/ FindToUpdate(j) \/ UpdateCron(j)
             \/ FindToDelete(j) \/ DeleteCron(j)
       \/ \E s \in Searches :
             /\ (\E ask \in Asks : BeginSearch(s, ask)) \/ SearchStep(s)
             /\ UNCHANGED <<job, used, writes>>
    /\ UNCHANGED <<provider, kind, clients>>

Spec == Init /\ [][Next]_vars

-----------------------------------------------------------------------------
TypeOK ==
    /\ provider \in Sql \union {"memory", "azure"}
    /\ kind \in Kinds
    /\ clients \in {"serial", "concurrent"}
    /\ SearchTypeOK
    /\ \A j \in Jobs :
          /\ job[j].pc \in Calls \union {"idle", "answered", "failed"}
          /\ job[j].pc # "idle" => job[j].id \in used /\ job[j].field \in Fields
          /\ job[j].payload \in Contents
          /\ job[j].old \in Records \union {None}
          /\ job[j].pc = "write" => job[j].old # None
          /\ job[j].stale \in BOOLEAN
    /\ kind = "cron" => Stored \subseteq used
    /\ used \subseteq Ids
    /\ writes \in 0 .. MaxWrites

Changed(i) ==
    {f \in Fields : IF f = "enabled" THEN rows'[i].value # rows[i].value
                    ELSE rows'[i].holds[f] # rows[i].holds[f]}

Payload == {"input", "config"}

(* An update changes what it names and nothing else: always if clients     *)
(* wait.  Of updates that overlap, memory and blobs keep all fields but    *)
(* those of the payload, which is written as the service had read it; a    *)
(* SQL row is written as storage had read it.  And no update brings back a *)
(* cron that was deleted.                                                  *)
CronsChangeAsAsked ==
    [][kind = "cron" => \A i \in Ids :
          /\ rows[i] # None /\ rows'[i] \notin {None, rows[i]} =>
                \E j \in Jobs :
                    /\ job[j].id = i /\ job[j].op = "update"
                    /\ Busy(j) /\ job'[j].pc = "answered"
                    /\ \/ Changed(i) \subseteq {job[j].field}
                       \/ ~Serial /\ provider \in Sql
                       \/ ~Serial /\ job[j].field \in Payload /\ Changed(i) \subseteq Payload
          /\ rows[i] = None /\ rows'[i] # None =>
                \E j \in Jobs : job[j].pc = "create" /\ job[j].id = i /\ job'[j].pc = "answered"
      ]_vars
=============================================================================
