------------------------------- MODULE D1Backup -------------------------------
(***************************************************************************)
(* The daily export of D1 to R2 (src/lib/d1-backup.ts, run as a workflow   *)
(* by src/workflows/d1-backup.ts): the parts of one table, dumped by rowid *)
(* while others insert and delete, the manifest that completes a           *)
(* partition, the pointer to the latest one, and retention.                *)
(*                                                                         *)
(* A row is its rowid; a hash in the manifest is the part's rows.          *)
(***************************************************************************)
EXTENDS Integers, FiniteSets

CONSTANTS
  MaxRow,           \* bound on rowids
  Days,             \* days modelled; a partition is named after its day
  Reruns,           \* days on which the workflow is also triggered by hand
  KeepDays,         \* params.keepDays: 14
  PartRows,         \* MAX_PART_ROWS
  QueryRows,        \* INITIAL_QUERY_LIMIT
  MaxParts,         \* MAX_PARTS_PER_TABLE
  MaxBackupMishaps  \* bound on lost steps and errored instances

ASSUME BackupAssumption ==
  /\ {MaxRow, Days, KeepDays, PartRows, QueryRows, MaxParts} \subseteq Nat \ {0}
  /\ Reruns \subseteq 1..Days
  /\ MaxBackupMishaps \in Nat

VARIABLES
  table,                 \* the rowids of the table
  today,
  partitions, part,      \* R2: prefixes, and the rows in each part's object
  complete, listed,      \* manifest.json: whether it is there, what it lists
  latest,                \* latest.json, 0 before the first
  backup,                \* the step of each instance
  resume, seq, listing,  \* what its finished steps returned
  page, reached, ended,  \* local variables of the step dump:<table>:<part>
  stable, whole,         \* ghosts: rows present since the instance started,
                         \*   and since the start of the one that completed
                         \*   the partition until its manifest
  backupMishaps

bucket == <<partitions, part, complete, listed, latest, whole>>
dump == <<resume, seq, listing, page, reached, ended>>
backupVars == <<table, today, bucket, backup, dump, stable, backupMishaps>>

Rowids == 1..MaxRow
Dates == 1..Days
Seqs == 1..MaxParts

(* The cron's instance of a date, and the one triggered by hand.            *)
Instances == (Dates \X {"cron"}) \cup (Reruns \X {"manual"})
Date(b) == b[1]

Running == {"query", "put", "return", "manifest", "point", "retention"}
NoParts == [s \in Seqs |-> {}]

BackupTypeOK ==
  /\ table \subseteq Rowids
  /\ today \in Dates
  /\ partitions \subseteq Dates
  /\ part \in [Dates -> [Seqs -> SUBSET Rowids]]
  /\ complete \in [Dates -> BOOLEAN]
  /\ listed \in [Dates -> [Seqs -> SUBSET Rowids]]
  /\ latest \in 0..Days
  /\ backup \in [Instances -> {"idle", "done", "errored"} \cup Running]
  /\ resume \in [Instances -> 0..MaxRow]
  /\ seq \in [Instances -> 1..(MaxParts + 1)]
  /\ listing \in [Instances -> [Seqs -> SUBSET Rowids]]
  /\ page \in [Instances -> SUBSET Rowids]
  /\ reached \in [Instances -> 0..MaxRow]
  /\ ended \in [Instances -> BOOLEAN]
  /\ stable \in [Instances -> SUBSET Rowids]
  /\ whole \in [Dates -> SUBSET Rowids]
  /\ backupMishaps \in 0..MaxBackupMishaps

BackupInit ==
  /\ table \in SUBSET Rowids
  /\ today = 1
  /\ partitions = {}
  /\ part = [d \in Dates |-> NoParts]
  /\ complete = [d \in Dates |-> FALSE]
  /\ listed = part
  /\ latest = 0
  /\ backup = [b \in Instances |-> "idle"]
  /\ resume = [b \in Instances |-> 0]
  /\ seq = [b \in Instances |-> 1]
  /\ listing = [b \in Instances |-> NoParts]
  /\ page = [b \in Instances |-> {}]
  /\ reached = resume
  /\ ended = [b \in Instances |-> FALSE]
  /\ stable = page
  /\ whole = [d \in Dates |-> {}]
  /\ backupMishaps = 0

BackupMishap ==
  /\ backupMishaps < MaxBackupMishaps
  /\ backupMishaps' = backupMishaps + 1

BackupStep(b, from, to) ==
  /\ backup[b] = from
  /\ backup' = [backup EXCEPT ![b] = to]

(* What an instance knew goes with it.                                      *)
Forgets(b) ==
  /\ resume' = [resume EXCEPT ![b] = 0]
  /\ seq' = [seq EXCEPT ![b] = 1]
  /\ listing' = [listing EXCEPT ![b] = NoParts]
  /\ page' = [page EXCEPT ![b] = {}]
  /\ reached' = [reached EXCEPT ![b] = 0]
  /\ ended' = [ended EXCEPT ![b] = FALSE]
  /\ stable' = [stable EXCEPT ![b] = {}]

------------------------------------------------------------------------------
(* Everyone else.                                                           *)

(* The largest rowid of a set, or another when the set is empty.            *)
LastRow(S, other) ==
  IF S = {} THEN other ELSE CHOOSE x \in S : \A y \in S : y <= x

(* SQLite numbers a new row one past the largest rowid.                     *)
InsertRow ==
  /\ LastRow(table, 0) < MaxRow
  /\ table' = table \cup {LastRow(table, 0) + 1}
  /\ UNCHANGED <<today, bucket, backup, dump, stable, backupMishaps>>

DeleteRow(x) ==
  /\ x \in table
  /\ table' = table \ {x}
  /\ stable' = [b \in Instances |-> stable[b] \ {x}]
  /\ UNCHANGED <<today, bucket, backup, dump, backupMishaps>>

(* An instance takes less than a day.                                       *)
NextDay ==
  /\ today < Days
  /\ \A b \in Instances : backup[b] \notin Running
  /\ today' = today + 1
  /\ UNCHANGED <<table, bucket, backup, dump, stable, backupMishaps>>

------------------------------------------------------------------------------
(* runD1Backup.                                                             *)

(* The step 'plan', which puts schema.sql.                                  *)
Plan(b) ==
  /\ BackupStep(b, "idle", "query")
  /\ Date(b) = today
  /\ partitions' = partitions \cup {Date(b)}
  /\ stable' = [stable EXCEPT ![b] = table]
  /\ UNCHANGED <<table, today, part, complete, listed, latest, whole, dump,
                 backupMishaps>>

(* The first n of a set of rowids.                                          *)
FirstRows(S, n) == {x \in S : Cardinality({y \in S : y <= x}) <= n}

Limit(b) ==
  IF QueryRows <= PartRows - Cardinality(page[b])
    THEN QueryRows ELSE PartRows - Cardinality(page[b])

(* The rows of a query: the limit is halved while the response is too large.*)
Fetched(b, limit) == FirstRows({x \in table : x > reached[b]}, limit)

(* Mutant: the part continues after what was fetched.                       *)
QueryPastBudget(b) ==
  /\ backup[b] = "query"
  /\ seq[b] <= MaxParts
  /\ \E limit \in 1..Limit(b) :
       LET fetched == Fetched(b, limit)
       IN /\ \E k \in {1, limit} :
               page' = [page EXCEPT ![b] = @ \cup FirstRows(fetched, k)]
          /\ reached' = [reached EXCEPT ![b] = LastRow(fetched, @)]
          /\ ended' = [ended EXCEPT ![b] = Cardinality(fetched) < limit]
          /\ backup' = [backup EXCEPT ![b] = "put"]
  /\ UNCHANGED <<table, today, bucket, resume, seq, listing, stable, backupMishaps>>

(* One query of dumpTablePart.  The part ends when the table does, when it  *)
(* is full, or when its byte budget is met, perhaps in the middle of what   *)
(* was fetched.                                                             *)
Query(b) ==
  /\ backup[b] = "query"
  /\ seq[b] <= MaxParts
  /\ \E limit \in 1..Limit(b), met \in BOOLEAN :
       LET fetched == Fetched(b, limit)
       IN \E k \in 0..Cardinality(fetched) :
            /\ k = 0 <=> fetched = {}
            /\ k < Cardinality(fetched) => met
            /\ page' = [page EXCEPT ![b] = @ \cup FirstRows(fetched, k)]
            /\ reached' = [reached EXCEPT ![b] = LastRow(FirstRows(fetched, k), @)]
            /\ LET last == k = Cardinality(fetched) /\ k < limit
                   full == Cardinality(page[b]) + k = PartRows
               IN /\ ended' = [ended EXCEPT ![b] = last]
                  /\ backup' = [backup EXCEPT ![b] =
                                  IF last \/ full \/ met THEN "put" ELSE "query"]
  /\ UNCHANGED <<table, today, bucket, resume, seq, listing, stable, backupMishaps>>

(* MAX_PARTS_PER_TABLE is exceeded.                                         *)
TooManyParts(b) ==
  /\ BackupStep(b, "query", "errored")
  /\ seq[b] > MaxParts
  /\ Forgets(b)
  /\ UNCHANGED <<table, today, bucket, backupMishaps>>

(* An empty part has no object.                                             *)
PutPart(b) ==
  /\ BackupStep(b, "put", "return")
  /\ part' = IF page[b] = {} THEN part
             ELSE [part EXCEPT ![Date(b)][seq[b]] = page[b]]
  /\ UNCHANGED <<table, today, partitions, complete, listed, latest, whole,
                 dump, stable, backupMishaps>>

(* The step returns and its result is kept.                                 *)
ReturnPart(b) ==
  /\ BackupStep(b, "return", IF ended[b] THEN "manifest" ELSE "query")
  /\ listing' = [listing EXCEPT ![b][seq[b]] = page[b]]
  /\ seq' = [seq EXCEPT ![b] = @ + 1]
  /\ resume' = [resume EXCEPT ![b] = reached[b]]
  /\ page' = [page EXCEPT ![b] = {}]
  /\ UNCHANGED <<table, today, bucket, reached, ended, stable, backupMishaps>>

(* The step throws, or the engine restarts: it is run again from the cursor *)
(* of the step before, and puts the same key.                               *)
PartLost(b) ==
  /\ backup[b] \in {"query", "put", "return"}
  /\ BackupMishap
  /\ backup' = [backup EXCEPT ![b] = "query"]
  /\ page' = [page EXCEPT ![b] = {}]
  /\ reached' = [reached EXCEPT ![b] = resume[b]]
  /\ UNCHANGED <<table, today, bucket, resume, seq, listing, ended, stable>>

PutManifest(b) ==
  /\ BackupStep(b, "manifest", "point")
  /\ complete' = [complete EXCEPT ![Date(b)] = TRUE]
  /\ listed' = [listed EXCEPT ![Date(b)] = listing[b]]
  /\ whole' = [whole EXCEPT ![Date(b)] = stable[b]]
  /\ Forgets(b)
  /\ UNCHANGED <<table, today, partitions, part, latest, backupMishaps>>

PutLatest(b) ==
  /\ BackupStep(b, "point", "retention")
  /\ latest' = Date(b)
  /\ UNCHANGED <<table, today, partitions, part, complete, listed, whole, dump,
                 stable, backupMishaps>>

(* runBackupRetention: the newest KeepDays partitions stay, complete or not.*)
StalePartitions ==
  {d \in partitions : Cardinality({e \in partitions : e > d}) >= KeepDays}

DeletePartition(b, d) ==
  /\ backup[b] = "retention"
  /\ d \in StalePartitions
  /\ partitions' = partitions \ {d}
  /\ part' = [part EXCEPT ![d] = NoParts]
  /\ complete' = [complete EXCEPT ![d] = FALSE]
  /\ listed' = [listed EXCEPT ![d] = NoParts]
  /\ UNCHANGED <<table, today, latest, whole, backup, dump, stable,
                 backupMishaps>>

Retained(b) ==
  /\ BackupStep(b, "retention", "done")
  /\ StalePartitions = {}
  /\ UNCHANGED <<table, today, bucket, dump, stable, backupMishaps>>

(* A step is out of retries, or the instance is terminated.                 *)
BackupErrors(b) ==
  /\ backup[b] \in Running
  /\ BackupMishap
  /\ backup' = [backup EXCEPT ![b] = "errored"]
  /\ Forgets(b)
  /\ UNCHANGED <<table, today, bucket>>

BackupNext ==
  \/ InsertRow \/ NextDay \/ \E x \in Rowids : DeleteRow(x)
  \/ \E b \in Instances :
       \/ Plan(b) \/ Query(b) \/ TooManyParts(b) \/ PutPart(b) \/ ReturnPart(b)
       \/ PartLost(b) \/ PutManifest(b) \/ PutLatest(b) \/ Retained(b)
       \/ BackupErrors(b)
       \/ \E d \in Dates : DeletePartition(b, d)

BackupSpec == BackupInit /\ [][BackupNext]_backupVars

------------------------------------------------------------------------------

(* What latest.json points to can be restored: its manifest is there, each  *)
(* part it lists is there with the content of its hash, and together they   *)
(* hold every row that was in the table during the whole export, whatever   *)
(* was inserted, deleted, run again or cut short meanwhile and whatever     *)
(* retention removed since.                                                 *)
BackupRestorable ==
  latest # 0 =>
    /\ complete[latest]
    /\ \A s \in Seqs : listed[latest][s] \in {{}, part[latest][s]}
    /\ whole[latest] \subseteq UNION {listed[latest][s] : s \in Seqs}
=============================================================================
