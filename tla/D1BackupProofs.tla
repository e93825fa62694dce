---------------------------- MODULE D1BackupProofs ----------------------------
(***************************************************************************)
(* What D1Backup promises of latest.json, for every number of rows, parts  *)
(* and days and every bound on mishaps, when the workflow is started by    *)
(* the cron only.                                                          *)
(***************************************************************************)
EXTENDS D1Backup, FiniteSetTheorems, WellFoundedInduction, TLAPS

(***************************************************************************)
(* Sets of rowids                                                          *)
(***************************************************************************)

LEMMA Parameters ==
  /\ MaxRow \in Nat \ {0} /\ Days \in Nat \ {0} /\ KeepDays \in Nat \ {0}
  /\ PartRows \in Nat \ {0} /\ QueryRows \in Nat \ {0} /\ MaxParts \in Nat \ {0}
  /\ MaxBackupMishaps \in Nat
BY BackupAssumption, Zenon DEF BackupAssumption

(* A set of natural numbers that is not empty has a least member.           *)
LEMMA LeastMember ==
  ASSUME NEW S \in SUBSET Nat, S # {}
  PROVE  \E x \in S : \A y \in S : x <= y
<1>1. PICK x \in S : \A y \in S : ~ (<<y, x>> \in OpToRel(<, Nat))
  <2> DEFINE R == OpToRel(<, Nat)
  <2>1. IsWellFoundedOn(R, Nat)
    BY NatLessThanWellFounded, Zenon DEF R
  <2>2. \E x \in S : \A y \in S : ~ (<<y, x>> \in R)
    <3> HIDE DEF R
    <3> QED
      BY <2>1, WFMin, Zenon
  <2> QED
    BY <2>2, Zenon DEF R
<1>2. ASSUME NEW y \in S, y < x
      PROVE  FALSE
  <2>1. <<y, x>> \in Nat \X Nat
    OBVIOUS
  <2>2. <<y, x>>[1] < <<y, x>>[2]
    BY <1>2
  <2>3. <<y, x>> \in OpToRel(<, Nat)
    BY <2>1, <2>2, Zenon DEF OpToRel
  <2> QED
    BY <1>1, <2>3, Zenon
<1> QED
  BY <1>2

(* One of rowids has a greatest.                                            *)
LEMMA GreatestMember ==
  ASSUME NEW S \in SUBSET Rowids, S # {}
  PROVE  \E x \in S : \A y \in S : y <= x
<1> DEFINE T == {MaxRow - x : x \in S}
<1>1. T \in SUBSET Nat /\ T # {}
  <2>1. \A x \in S : MaxRow - x \in Nat
    BY Parameters DEF Rowids
  <2> QED
    BY <2>1
<1>2. PICK m \in T : \A n \in T : m <= n
  <2> HIDE DEF T
  <2> QED
    BY <1>1, LeastMember
<1>3. PICK x \in S : m = MaxRow - x
  BY <1>2
<1>4. ASSUME NEW y \in S
      PROVE  y <= x
  <2>1. MaxRow - y \in T
    OBVIOUS
  <2>2. m <= MaxRow - y
    BY <1>2, <2>1
  <2> QED
    BY <1>3, <2>2, Parameters DEF Rowids
<1> QED
  BY <1>4

(* LastRow is the greatest, or the other when there is none.                *)
LEMMA LastRowFacts ==
  ASSUME NEW S \in SUBSET Rowids, NEW other
  PROVE  /\ S = {} => LastRow(S, other) = other
         /\ S # {} => LastRow(S, other) \in S
         /\ \A x \in S : x <= LastRow(S, other)
<1>1. CASE S = {}
  BY <1>1 DEF LastRow
<1>2. CASE S # {}
  BY <1>2, GreatestMember DEF LastRow
<1> QED
  BY <1>1, <1>2

LEMMA RowidsFinite ==
  ASSUME NEW S \in SUBSET Rowids
  PROVE  IsFiniteSet(S) /\ Cardinality(S) \in Nat
<1>1. IsFiniteSet(Rowids)
  BY FS_Interval, Parameters DEF Rowids
<1> QED
  BY <1>1, FS_Subset, FS_CardinalityType

(* The first n of a set leave out nothing before one of them ...            *)
LEMMA FirstRowsClosed ==
  ASSUME NEW S \in SUBSET Rowids, NEW n \in Nat,
         NEW y \in FirstRows(S, n), NEW x \in S, x <= y
  PROVE  x \in FirstRows(S, n)
<1> DEFINE A == {z \in S : z <= x}
           B == {z \in S : z <= y}
<1>0. S \in SUBSET Int /\ x \in Int /\ y \in S /\ y \in Int
  BY Parameters DEF Rowids, FirstRows
<1>1. A \subseteq B
  <2>1. \A z \in S : z <= x => z <= y
    BY <1>0
  <2> QED
    BY <2>1, Zenon
<1>2. IsFiniteSet(B) /\ Cardinality(A) \in Nat /\ Cardinality(B) \in Nat
  BY RowidsFinite
<1>3. Cardinality(A) <= Cardinality(B)
  BY <1>1, <1>2, FS_Subset
<1>4. Cardinality(B) <= n
  BY DEF FirstRows
<1> QED
  BY <1>2, <1>3, <1>4 DEF FirstRows

(* ... and nothing at all when they are fewer than n, or n is enough.       *)
LEMMA FirstRowsAll ==
  ASSUME NEW S \in SUBSET Rowids, NEW n \in Nat,
         Cardinality(FirstRows(S, n)) < n \/ Cardinality(S) <= n
  PROVE  FirstRows(S, n) = S
<1> DEFINE L == FirstRows(S, n)
<1>0. L \in SUBSET S /\ L \in SUBSET Rowids
  BY DEF FirstRows
<1>1. SUFFICES ASSUME S \ L # {}
               PROVE  FALSE
  BY <1>0
<1>2. PICK z \in S \ L : \A y \in S \ L : z <= y
  <2>1. S \subseteq Nat
    BY Parameters DEF Rowids
  <2>2. S \ L \in SUBSET Nat
    BY <2>1, Zenon
  <2> HIDE DEF L
  <2> QED
    BY <1>1, <2>2, LeastMember
<1> DEFINE upto == {y \in S : y <= z}
           below == {y \in S : y < z}
<1>2a. z \in S /\ z \notin L /\ S \in SUBSET Int /\ z \in Int
  BY <1>2, Parameters DEF Rowids
<1>3. below \in SUBSET L /\ below \in SUBSET Rowids
  <2>1. ASSUME NEW y \in below
        PROVE  y \in L
    BY <1>2, <1>2a
  <2> QED
    BY <2>1
<1>4. upto = below \cup {z} /\ z \notin below
  <2>1. \A y \in S : (y <= z) <=> (y < z \/ y = z)
    BY <1>2a
  <2>2. ~ z < z
    BY <1>2a
  <2> QED
    BY <1>2a, <2>1, <2>2
<1>5. Cardinality(upto) = Cardinality(below) + 1
  BY <1>3, <1>4, RowidsFinite, FS_AddElement
<1>6. Cardinality(upto) > n
  <2>1. ~ Cardinality(upto) <= n
    BY <1>2 DEF FirstRows
  <2> QED
    BY <2>1, RowidsFinite
<1>7. Cardinality(below) <= Cardinality(L)
  BY <1>0, <1>3, RowidsFinite, FS_Subset
<1>8. Cardinality(upto) <= Cardinality(S)
  BY RowidsFinite, FS_Subset
<1> QED
  BY <1>0, <1>3, <1>5, <1>6, <1>7, <1>8, RowidsFinite

(***************************************************************************)
(* The inductive invariant                                                 *)
(***************************************************************************)

(* The pointer and retention look back only.                                *)
PointerInv ==
  /\ partitions \subseteq 1..today
  /\ latest <= today
  /\ latest # 0 => complete[latest]

(* A partition that has a manifest holds what it lists, and all of it.      *)
Honest(d) ==
  complete[d] =>
    /\ \A s \in Seqs : listed[d][s] \in {{}, part[d][s]}
    /\ \A x \in whole[d] : \E s \in Seqs : x \in listed[d][s]

(* An instance runs on its day, and is past its manifest when there is one. *)
Place(b) ==
  /\ backup[b] \in Running => Date(b) = today
  /\ complete[Date(b)] => backup[b] \in {"point", "retention", "done", "errored"}
  /\ backup[b] \in {"point", "retention"} => complete[Date(b)]
  /\ backup[b] = "retention" => latest = Date(b)

Dumping == {"query", "put", "return"}

(* The results of finished steps are in R2, none of them yet to come.       *)
Stored(b) ==
  backup[b] \in Dumping \cup {"manifest"} =>
    \A s \in Seqs : /\ listing[b][s] \in {{}, part[Date(b)][s]}
                    /\ s >= seq[b] => listing[b][s] = {}

(* The stable rows up to the cursor are in a listed part, those after it    *)
(* which the step has passed are in its page.                               *)
Dumped(b) ==
  /\ backup[b] \in Dumping =>
       \A x \in stable[b] :
         /\ x <= resume[b] => \E s \in Seqs : x \in listing[b][s]
         /\ resume[b] < x /\ x <= reached[b] => x \in page[b]
  /\ backup[b] \in {"put", "return"} =>
       seq[b] <= MaxParts /\ (ended[b] => \A x \in stable[b] : x <= reached[b])
  /\ backup[b] = "return" => page[b] \in {{}, part[Date(b)][seq[b]]}
  /\ backup[b] = "manifest" =>
       \A x \in stable[b] : \E s \in Seqs : x \in listing[b][s]

(* Rows that stayed are still there; an instance not started knows nothing. *)
Started(b) ==
  /\ stable[b] \subseteq table
  /\ backup[b] = "idle" => /\ listing[b] = NoParts /\ page[b] = {}
                           /\ resume[b] = 0 /\ reached[b] = 0

InstanceInv(b) == Place(b) /\ Stored(b) /\ Dumped(b) /\ Started(b)

BackupInv ==
  /\ BackupTypeOK
  /\ PointerInv
  /\ \A d \in Dates : Honest(d)
  /\ \A b \in Instances : InstanceInv(b)

(***************************************************************************)
(* One query                                                               *)
(***************************************************************************)

LEMMA LimitType ==
  ASSUME BackupTypeOK, NEW b \in Instances
  PROVE  Limit(b) \in Int
<1>1. page[b] \in SUBSET Rowids
  BY DEF BackupTypeOK
<1>2. Cardinality(page[b]) \in Nat
  BY <1>1, RowidsFinite
<1> QED
  BY <1>2, Parameters DEF Limit

(* What a query keeps leaves out no row between the old and the new cursor, *)
(* and no row at all when fewer came than were asked for.                   *)
LEMMA QueryFacts ==
  ASSUME BackupTypeOK, NEW b \in Instances,
         NEW limit \in 1..Limit(b), NEW k \in 0..Cardinality(Fetched(b, limit)),
         NEW got, got = FirstRows(Fetched(b, limit), k),
         NEW cursor, cursor = LastRow(got, reached[b])
  PROVE  /\ got \subseteq table
         /\ cursor \in 0..MaxRow
         /\ \A x \in table : reached[b] < x /\ x <= cursor => x \in got
         /\ k = Cardinality(Fetched(b, limit)) /\ k < limit =>
              \A x \in table : x <= cursor
<1> DEFINE rest == {x \in table : x > reached[b]}
           fetched == FirstRows(rest, limit)
<1>1. /\ rest \in SUBSET Rowids /\ rest \subseteq table
      /\ reached[b] \in 0..MaxRow /\ table \subseteq Int /\ MaxRow \in Nat
  <2>1. table \subseteq Rowids /\ reached[b] \in 0..MaxRow /\ MaxRow \in Nat
    BY Parameters DEF BackupTypeOK
  <2>2. rest \subseteq table
    OBVIOUS
  <2>3. table \subseteq Int
    BY <2>1 DEF Rowids
  <2> HIDE DEF rest
  <2> QED
    BY <2>1, <2>2, <2>3
<1>2. limit \in Nat /\ Limit(b) \in Int
  BY LimitType
<1>3. fetched \subseteq rest /\ fetched \in SUBSET Rowids /\ fetched = Fetched(b, limit)
  BY <1>1 DEF FirstRows, Fetched
<1>4. Cardinality(fetched) \in Nat /\ k \in Nat /\ k <= Cardinality(fetched)
  <2> HIDE DEF fetched
  <2>1. Cardinality(fetched) \in Nat
    BY <1>3, RowidsFinite
  <2> QED
    BY <1>3, <2>1
<1>5. got = FirstRows(fetched, k) /\ got \subseteq fetched /\ got \in SUBSET Rowids
  BY <1>3 DEF FirstRows
<1>6. /\ got = {} => cursor = reached[b]
      /\ got # {} => cursor \in got
      /\ \A x \in got : x <= cursor
  <2> HIDE DEF fetched
  <2> QED
    BY <1>5, LastRowFacts
<1>7. cursor \in 0..MaxRow /\ reached[b] <= cursor
  <2>1. CASE got = {}
    BY <1>1, <1>6, <2>1
  <2>2. CASE got # {}
    <3>1. cursor \in rest
      BY <1>3, <1>5, <1>6, <2>2
    <3> QED
      BY <1>1, <3>1 DEF Rowids
  <2> QED
    BY <2>1, <2>2
<1>8. ASSUME NEW x \in table, reached[b] < x, x <= cursor
      PROVE  x \in got
  <2>1. x \in rest
    BY <1>8
  <2>2. cursor \in got /\ cursor \in fetched
    <3>1. cursor # reached[b]
      BY <1>1, <1>7, <1>8
    <3> QED
      BY <1>5, <1>6, <3>1
  <2>3. x \in fetched
    <3> HIDE DEF rest
    <3> QED
      BY <1>1, <1>2, <1>8, <2>1, <2>2, FirstRowsClosed
  <2> HIDE DEF fetched
  <2> QED
    BY <1>3, <1>4, <1>5, <1>8, <2>2, <2>3, FirstRowsClosed
<1>9. ASSUME k = Cardinality(fetched), k < limit, NEW x \in table
      PROVE  x <= cursor
  <2>1. fetched = rest
    <3> HIDE DEF rest
    <3> QED
      BY <1>1, <1>2, <1>9, FirstRowsAll
  <2>2. got = fetched
    <3> HIDE DEF fetched
    <3> QED
      BY <1>3, <1>4, <1>5, <1>9, FirstRowsAll
  <2>3. CASE x > reached[b]
    BY <1>6, <2>1, <2>2, <2>3
  <2>4. CASE ~ x > reached[b]
    BY <1>1, <1>7, <2>4
  <2> QED
    BY <2>3, <2>4
<1> QED
  BY <1>1, <1>3, <1>5, <1>7, <1>8, <1>9

(* So a query leaves its part open, or closes it, perhaps as the last one.  *)
QueryKeeps(b, got, cursor, last) ==
  /\ page' = [page EXCEPT ![b] = @ \cup got]
  /\ reached' = [reached EXCEPT ![b] = cursor]
  /\ ended' = [ended EXCEPT ![b] = last]
  /\ \/ backup' = [backup EXCEPT ![b] = "put"]
     \/ backup' = [backup EXCEPT ![b] = "query"]
  /\ \A x \in table : reached[b] < x /\ x <= cursor => x \in got
  /\ last => \A x \in table : x <= cursor

LEMMA QueryOutcome ==
  ASSUME BackupTypeOK, NEW b \in Instances, Query(b)
  PROVE  \E got \in SUBSET table, cursor \in 0..MaxRow, last \in BOOLEAN :
           QueryKeeps(b, got, cursor, last)
<1>1. PICK limit \in 1..Limit(b) : \E k \in 0..Cardinality(Fetched(b, limit)) :
         /\ page' = [page EXCEPT ![b] = @ \cup FirstRows(Fetched(b, limit), k)]
         /\ reached' = [reached EXCEPT ![b] =
                          LastRow(FirstRows(Fetched(b, limit), k), @)]
         /\ ended' = [ended EXCEPT ![b] =
                        k = Cardinality(Fetched(b, limit)) /\ k < limit]
         /\ \/ backup' = [backup EXCEPT ![b] = "put"]
            \/ backup' = [backup EXCEPT ![b] = "query"]
  BY DEF Query
<1>2. PICK k \in 0..Cardinality(Fetched(b, limit)) :
         /\ page' = [page EXCEPT ![b] = @ \cup FirstRows(Fetched(b, limit), k)]
         /\ reached' = [reached EXCEPT ![b] =
                          LastRow(FirstRows(Fetched(b, limit), k), @)]
         /\ ended' = [ended EXCEPT ![b] =
                        k = Cardinality(Fetched(b, limit)) /\ k < limit]
         /\ \/ backup' = [backup EXCEPT ![b] = "put"]
            \/ backup' = [backup EXCEPT ![b] = "query"]
  BY <1>1
<1> DEFINE got == FirstRows(Fetched(b, limit), k)
           cursor == LastRow(got, reached[b])
           last == k = Cardinality(Fetched(b, limit)) /\ k < limit
<1>3. /\ got \subseteq table
      /\ cursor \in 0..MaxRow
      /\ \A x \in table : reached[b] < x /\ x <= cursor => x \in got
      /\ last => \A x \in table : x <= cursor
  BY QueryFacts
<1>4. reached' = [reached EXCEPT ![b] = cursor]
  BY <1>2
<1>5. page' = [page EXCEPT ![b] = @ \cup got] /\ ended' = [ended EXCEPT ![b] = last]
  BY <1>2
<1>6. last \in BOOLEAN
  OBVIOUS
<1> HIDE DEF got, cursor, last
<1>7. QueryKeeps(b, got, cursor, last)
  BY <1>2, <1>3, <1>4, <1>5 DEF QueryKeeps
<1> QED
  BY <1>3, <1>6, <1>7

(***************************************************************************)
(* The types                                                               *)
(***************************************************************************)

LEMMA DateType ==
  ASSUME NEW b \in Instances
  PROVE  Date(b) \in Dates
BY BackupAssumption DEF Instances, Date, Dates, BackupAssumption

LEMMA BackupInitType ==
  BackupInit => BackupTypeOK
BY Parameters DEF BackupInit, BackupTypeOK, NoParts, Rowids, Dates, Seqs, Running

(* What an instance that is dumping does to its own variables.              *)
LEMMA DumpStepType ==
  ASSUME BackupTypeOK, NEW b \in Instances,
         Query(b) \/ PutPart(b) \/ ReturnPart(b) \/ PartLost(b),
         Dumped(b)
  PROVE  BackupTypeOK'
<1>1. CASE Query(b)
  <2>1. PICK got \in SUBSET table, cursor \in 0..MaxRow, last \in BOOLEAN :
          QueryKeeps(b, got, cursor, last)
    BY <1>1, QueryOutcome
  <2> QED
    BY <1>1, <2>1 DEF QueryKeeps, Query, BackupTypeOK, bucket, Running
<1>2. CASE PutPart(b)
  <2>1. seq[b] \in Seqs
    BY <1>2, Parameters DEF PutPart, BackupStep, Dumped, BackupTypeOK, Seqs
  <2>2. part' \in [Dates -> [Seqs -> SUBSET Rowids]]
    BY <1>2, <2>1, DateType DEF PutPart, BackupTypeOK
  <2> QED
    BY <1>2, <2>2 DEF PutPart, BackupStep, BackupTypeOK, dump, Running
<1>3. CASE ReturnPart(b)
  <2>1. seq[b] \in Seqs /\ seq[b] + 1 \in 1..(MaxParts + 1)
    BY <1>3, Parameters DEF ReturnPart, BackupStep, Dumped, BackupTypeOK, Seqs
  <2>2. listing' \in [Instances -> [Seqs -> SUBSET Rowids]]
    BY <1>3, <2>1 DEF ReturnPart, BackupTypeOK
  <2> QED
    BY <1>3, <2>1, <2>2 DEF ReturnPart, BackupStep, BackupTypeOK, bucket, Running
<1>4. CASE PartLost(b)
  BY <1>4, Parameters DEF PartLost, BackupMishap, BackupTypeOK, bucket, Running
<1> QED
  BY <1>1, <1>2, <1>3, <1>4

LEMMA ForgetsType ==
  ASSUME BackupTypeOK, NEW b \in Instances, Forgets(b)
  PROVE  /\ resume' \in [Instances -> 0..MaxRow]
         /\ seq' \in [Instances -> 1..(MaxParts + 1)]
         /\ listing' \in [Instances -> [Seqs -> SUBSET Rowids]]
         /\ page' \in [Instances -> SUBSET Rowids]
         /\ reached' \in [Instances -> 0..MaxRow]
         /\ ended' \in [Instances -> BOOLEAN]
         /\ stable' \in [Instances -> SUBSET Rowids]
BY Parameters DEF BackupTypeOK, Forgets, NoParts

LEMMA BackupStepType ==
  ASSUME BackupTypeOK, NEW b \in Instances,
         \/ Plan(b) \/ TooManyParts(b) \/ PutManifest(b) \/ PutLatest(b)
         \/ Retained(b) \/ BackupErrors(b)
         \/ \E d \in Dates : DeletePartition(b, d)
  PROVE  BackupTypeOK'
<1>1. CASE Plan(b)
  BY <1>1, DateType DEF Plan, BackupStep, BackupTypeOK, dump, Running
<1>2. CASE TooManyParts(b)
  BY <1>2, ForgetsType DEF TooManyParts, BackupStep, BackupTypeOK, bucket, Running
<1>3. CASE PutManifest(b)
  BY <1>3, ForgetsType, DateType DEF PutManifest, BackupStep, BackupTypeOK, Running
<1>4. CASE PutLatest(b)
  BY <1>4, DateType, Parameters DEF PutLatest, BackupStep, BackupTypeOK, dump, Running,
     Dates
<1>5. CASE Retained(b)
  BY <1>5 DEF Retained, BackupStep, BackupTypeOK, bucket, dump, Running
<1>6. CASE BackupErrors(b)
  BY <1>6, ForgetsType, Parameters
     DEF BackupErrors, BackupMishap, BackupTypeOK, bucket, Running
<1>7. ASSUME NEW d \in Dates, DeletePartition(b, d)
      PROVE  BackupTypeOK'
  BY <1>7 DEF DeletePartition, BackupTypeOK, NoParts, dump
<1> QED
  BY <1>1, <1>2, <1>3, <1>4, <1>5, <1>6, <1>7

LEMMA OthersType ==
  ASSUME BackupTypeOK,
         InsertRow \/ NextDay \/ (\E x \in Rowids : DeleteRow(x))
  PROVE  BackupTypeOK'
<1>1. CASE InsertRow
  <2>1. LastRow(table, 0) + 1 \in Rowids
    <3>1. LastRow(table, 0) \in 0..MaxRow
      <4>1. table \in SUBSET Rowids
        BY DEF BackupTypeOK
      <4>2. /\ table = {} => LastRow(table, 0) = 0
            /\ table # {} => LastRow(table, 0) \in table
        BY <4>1, LastRowFacts
      <4>3. Rowids \subseteq 0..MaxRow /\ 0 \in 0..MaxRow
        BY Parameters DEF Rowids
      <4> QED
        BY <4>1, <4>2, <4>3, Zenon
    <3> QED
      BY <1>1, <3>1, Parameters DEF InsertRow, Rowids
  <2> QED
    BY <1>1, <2>1 DEF InsertRow, BackupTypeOK, bucket, dump
<1>2. CASE NextDay
  BY <1>2, Parameters DEF NextDay, BackupTypeOK, bucket, dump, Dates
<1>3. ASSUME NEW x \in Rowids, DeleteRow(x)
      PROVE  BackupTypeOK'
  BY <1>3 DEF DeleteRow, BackupTypeOK, bucket, dump
<1> QED
  BY <1>1, <1>2, <1>3

(***************************************************************************)
(* The instances that do not move                                          *)
(***************************************************************************)

(* Started by the cron only, one instance runs at a time.                   *)
LEMMA Alone ==
  ASSUME BackupInv, Reruns = {}, NEW b \in Instances, Date(b) = today,
         NEW c \in Instances, c # b
  PROVE  backup[c] \notin Running /\ Date(c) # Date(b)
<1>1. Date(c) # Date(b)
  BY DEF Instances, Date
<1> QED
  BY <1>1 DEF BackupInv, InstanceInv, Place

LEMMA Resting ==
  ASSUME NEW c \in Instances, InstanceInv(c), backup[c] \notin Running,
         table' = table, backup'[c] = backup[c], stable'[c] = stable[c],
         listing'[c] = listing[c], page'[c] = page[c], resume'[c] = resume[c],
         reached'[c] = reached[c], complete'[Date(c)] => complete[Date(c)]
  PROVE  InstanceInv(c)'
<1>1. Date(c)' = Date(c) /\ (backup[c])' \notin Running
  BY DEF Date, Running
<1>2. Place(c)'
  BY <1>1 DEF InstanceInv, Place, Running
<1>3. Stored(c)' /\ Dumped(c)'
  BY <1>1 DEF Stored, Dumped, Dumping, Running
<1>4. Started(c)'
  BY <1>1 DEF InstanceInv, Started, NoParts, Seqs
<1> QED
  BY <1>2, <1>3, <1>4 DEF InstanceInv

(***************************************************************************)
(* The steps                                                               *)
(***************************************************************************)

LEMMA OthersKeepInv ==
  ASSUME BackupInv, InsertRow \/ NextDay \/ (\E x \in Rowids : DeleteRow(x))
  PROVE  BackupInv'
<1>1. BackupTypeOK'
  BY OthersType DEF BackupInv
<1>2. CASE InsertRow
  <2>1. /\ UNCHANGED <<today, partitions, part, complete, listed, latest, whole,
                       backup, resume, seq, listing, page, reached, ended, stable>>
        /\ table \subseteq table'
    BY <1>2 DEF InsertRow, bucket, dump
  <2>2. PointerInv' /\ \A d \in Dates : Honest(d)'
    BY <2>1 DEF BackupInv, PointerInv, Honest, Seqs
  <2>3. ASSUME NEW b \in Instances
        PROVE  InstanceInv(b)'
    <3>1. InstanceInv(b)
      BY DEF BackupInv
    <3> QED
      BY <2>1, <3>1 DEF InstanceInv, Place, Stored, Dumped, Started, Date, Dumping,
         Running, NoParts, Seqs
  <2> QED
    BY <1>1, <2>2, <2>3 DEF BackupInv, Instances, Dates
<1>3. CASE NextDay
  <2>1. /\ UNCHANGED <<table, partitions, part, complete, listed, latest, whole,
                       backup, resume, seq, listing, page, reached, ended, stable>>
        /\ today' = today + 1
        /\ \A b \in Instances : backup[b] \notin Running
    BY <1>3 DEF NextDay, bucket, dump
  <2>2. PointerInv' /\ \A d \in Dates : Honest(d)'
    BY <2>1, Parameters
       DEF BackupInv, BackupTypeOK, PointerInv, Honest, Dates
  <2>3. ASSUME NEW b \in Instances
        PROVE  InstanceInv(b)'
    BY <2>1, Resting DEF BackupInv
  <2> QED
    BY <1>1, <2>2, <2>3 DEF BackupInv, Instances, Dates
<1>4. ASSUME NEW x \in Rowids, DeleteRow(x)
      PROVE  BackupInv'
  <2>1. /\ UNCHANGED <<today, partitions, part, complete, listed, latest, whole,
                       backup, resume, seq, listing, page, reached, ended>>
        /\ table' = table \ {x}
        /\ \A b \in Instances : stable'[b] = stable[b] \ {x}
    BY <1>4 DEF DeleteRow, bucket, dump
  <2>2. PointerInv' /\ \A d \in Dates : Honest(d)'
    BY <2>1 DEF BackupInv, PointerInv, Honest
  <2>3. ASSUME NEW b \in Instances
        PROVE  InstanceInv(b)'
    <3>1. InstanceInv(b)
      BY DEF BackupInv
    <3>2. stable'[b] \subseteq stable[b] /\ stable'[b] \subseteq stable[b] \ {x}
      BY <2>1
    <3> QED
      BY <2>1, <3>1, <3>2 DEF InstanceInv, Place, Stored, Dumped, Started, Date, Dumping
  <2> QED
    BY <1>1, <2>2, <2>3 DEF BackupInv, Instances, Dates
<1> QED
  BY <1>2, <1>3, <1>4

(* A step of the instance that runs, as far as the others go.               *)
LEMMA OthersRest ==
  ASSUME BackupInv, Reruns = {}, NEW b \in Instances, Date(b) = today,
         table' = table,
         \A c \in Instances \ {b} :
           /\ backup'[c] = backup[c] /\ stable'[c] = stable[c]
           /\ listing'[c] = listing[c] /\ page'[c] = page[c]
           /\ resume'[c] = resume[c] /\ reached'[c] = reached[c]
           /\ complete'[Date(c)] => complete[Date(c)]
  PROVE  \A c \in Instances \ {b} : InstanceInv(c)'
<1> SUFFICES ASSUME NEW c \in Instances, c # b
             PROVE  InstanceInv(c)'
  OBVIOUS
<1>1. backup[c] \notin Running
  BY Alone
<1> QED
  BY <1>1, Resting DEF BackupInv

LEMMA PlanKeepsInv ==
  ASSUME BackupInv, Reruns = {}, NEW b \in Instances, Plan(b)
  PROVE  BackupInv'
<1>1. BackupTypeOK'
  BY BackupStepType DEF BackupInv
<1>2. /\ UNCHANGED <<table, today, part, complete, listed, latest, whole,
                     resume, seq, listing, page, reached, ended>>
      /\ Date(b) = today
      /\ backup[b] = "idle" /\ backup' = [backup EXCEPT ![b] = "query"]
      /\ partitions' = partitions \cup {today}
      /\ stable' = [stable EXCEPT ![b] = table]
      /\ backup \in [Instances -> {"idle", "done", "errored"} \cup Running]
      /\ stable \in [Instances -> SUBSET Rowids]
      /\ table \subseteq Rowids
      /\ today \in Dates
  BY DEF Plan, BackupStep, dump, BackupInv, BackupTypeOK
<1>3. PointerInv' /\ \A d \in Dates : Honest(d)'
  <2>1. today \in 1..today
    BY <1>2, Parameters DEF Dates
  <2>2. PointerInv'
    <3>1. partitions' \subseteq 1..today
      BY <1>2, <2>1 DEF BackupInv, PointerInv
    <3> QED
      BY <1>2, <3>1 DEF BackupInv, PointerInv
  <2> QED
    BY <1>2, <2>2 DEF BackupInv, Honest
<1>4. \A c \in Instances \ {b} : InstanceInv(c)'
  BY <1>2, OthersRest
<1>5. InstanceInv(b)'
  <2>1. InstanceInv(b)
    BY DEF BackupInv
  <2>2. backup'[b] = "query" /\ stable'[b] = table
    BY <1>2
  <2>3. ~ complete[Date(b)]
    BY <1>2, <2>1 DEF InstanceInv, Place
  <2>4. Place(b)'
    BY <1>2, <2>2, <2>3 DEF Place, Date
  <2>5. listing[b] = NoParts /\ page[b] = {} /\ resume[b] = 0 /\ reached[b] = 0
    BY <1>2, <2>1 DEF InstanceInv, Started
  <2>6. Stored(b)'
    BY <1>2, <2>5 DEF Stored, NoParts, Seqs, Date
  <2>7. Dumped(b)'
    <3>1. \A x \in table : ~ x <= 0
      BY <1>2, Parameters DEF Rowids
    <3>2. \A x : ~ (0 < x /\ x <= 0) \/ x \notin table
      BY <3>1
    <3> QED
      BY <1>2, <2>2, <2>5, <3>1 DEF Dumped, Dumping
  <2>8. Started(b)'
    BY <1>2, <2>2 DEF Started
  <2> QED
    BY <2>4, <2>6, <2>7, <2>8 DEF InstanceInv
<1> QED
  BY <1>1, <1>3, <1>4, <1>5 DEF BackupInv, Instances, Dates

LEMMA QueryKeepsInv ==
  ASSUME BackupInv, Reruns = {}, NEW b \in Instances, Query(b)
  PROVE  BackupInv'
<1>1. BackupTypeOK'
  BY DumpStepType DEF BackupInv, InstanceInv
<1>2. PICK got \in SUBSET table, cursor \in 0..MaxRow, last \in BOOLEAN :
        QueryKeeps(b, got, cursor, last)
  BY QueryOutcome DEF BackupInv
<1>3. /\ UNCHANGED <<table, today, partitions, part, complete, listed, latest, whole,
                     resume, seq, listing, stable>>
      /\ backup[b] = "query" /\ seq[b] <= MaxParts
  BY DEF Query, bucket
<1>4. /\ backup \in [Instances -> {"idle", "done", "errored"} \cup Running]
      /\ page \in [Instances -> SUBSET Rowids]
      /\ reached \in [Instances -> 0..MaxRow]
      /\ resume[b] \in 0..MaxRow /\ table \subseteq Rowids
      /\ ended \in [Instances -> BOOLEAN]
  BY DEF BackupInv, BackupTypeOK
<1>5. InstanceInv(b) /\ Date(b) = today
  BY <1>3 DEF BackupInv, InstanceInv, Place, Running
<1>6. PointerInv' /\ \A d \in Dates : Honest(d)'
  BY <1>3 DEF BackupInv, PointerInv, Honest
<1>7. \A c \in Instances \ {b} : InstanceInv(c)'
  BY <1>2, <1>3, <1>4, <1>5, OthersRest DEF QueryKeeps
<1>8. InstanceInv(b)'
  <2>1. /\ backup'[b] \in {"put", "query"} /\ page'[b] = page[b] \cup got
        /\ reached'[b] = cursor /\ ended'[b] = last
    BY <1>2, <1>4 DEF QueryKeeps
  <2>2. Place(b)' /\ Stored(b)' /\ Started(b)'
    BY <1>3, <1>5, <2>1 DEF InstanceInv, Place, Stored, Started, Date, Running, Dumping
  <2>3. ASSUME NEW x \in stable[b]
        PROVE  /\ x <= resume[b] => \E s \in Seqs : x \in listing[b][s]
               /\ resume[b] < x /\ x <= cursor => x \in page[b] \cup got
               /\ last => x <= cursor
    <3>1. x \in table /\ x \in Int /\ reached[b] \in Int
      <4>1. x \in table
        BY <1>5 DEF InstanceInv, Started
      <4> QED
        BY <1>4, <4>1, Parameters DEF Rowids
    <3>2. x <= reached[b] \/ reached[b] < x
      BY <3>1
    <3> QED
      BY <1>2, <1>3, <1>5, <3>1, <3>2 DEF QueryKeeps, InstanceInv, Dumped, Dumping
  <2>4. Dumped(b)'
    BY <1>3, <2>1, <2>3 DEF Dumped, Dumping
  <2> QED
    BY <2>2, <2>4 DEF InstanceInv
<1> QED
  BY <1>1, <1>6, <1>7, <1>8 DEF BackupInv, Instances, Dates

LEMMA PutPartKeepsInv ==
  ASSUME BackupInv, Reruns = {}, NEW b \in Instances, PutPart(b)
  PROVE  BackupInv'
<1>1. BackupTypeOK'
  BY DumpStepType DEF BackupInv, InstanceInv
<1>2. /\ UNCHANGED <<table, today, partitions, complete, listed, latest, whole,
                     resume, seq, listing, page, reached, ended, stable>>
      /\ backup[b] = "put" /\ backup' = [backup EXCEPT ![b] = "return"]
      /\ part' = IF page[b] = {} THEN part
                 ELSE [part EXCEPT ![Date(b)][seq[b]] = page[b]]
      /\ part \in [Dates -> [Seqs -> SUBSET Rowids]]
      /\ backup \in [Instances -> {"idle", "done", "errored"} \cup Running]
  BY DEF PutPart, BackupStep, dump, BackupInv, BackupTypeOK
<1>3. InstanceInv(b) /\ Date(b) = today /\ Date(b) \in Dates
  BY <1>2, DateType DEF BackupInv, InstanceInv, Place, Running
<1>4. ~ complete[Date(b)] /\ seq[b] \in Seqs
  BY <1>2, <1>3, Parameters
     DEF InstanceInv, Place, Dumped, BackupInv, BackupTypeOK, Seqs
<1>5. /\ \A d \in Dates \ {Date(b)} : part'[d] = part[d]
      /\ \A s \in Seqs \ {seq[b]} : part'[Date(b)][s] = part[Date(b)][s]
      /\ page[b] # {} => part'[Date(b)][seq[b]] = page[b]
  BY <1>2, <1>3, <1>4
<1>6. PointerInv' /\ \A d \in Dates : Honest(d)'
  BY <1>2, <1>4, <1>5 DEF BackupInv, PointerInv, Honest
<1>7. \A c \in Instances \ {b} : InstanceInv(c)'
  BY <1>2, <1>3, OthersRest
<1>8. InstanceInv(b)'
  <2>1. backup'[b] = "return"
    BY <1>2
  <2>2. Place(b)' /\ Started(b)'
    BY <1>2, <1>3, <2>1 DEF InstanceInv, Place, Started, Date, Running
  <2>3. Stored(b)'
    <3>1. \A s \in Seqs : /\ listing[b][s] \in {{}, part[Date(b)][s]}
                          /\ s >= seq[b] => listing[b][s] = {}
      BY <1>2, <1>3 DEF InstanceInv, Stored, Dumping
    <3>2. seq[b] >= seq[b]
      BY <1>4 DEF Seqs
    <3> QED
      BY <1>2, <1>4, <1>5, <3>1, <3>2 DEF Stored, Date
  <2>4. Dumped(b)'
    BY <1>2, <1>3, <1>5, <2>1 DEF InstanceInv, Dumped, Dumping, Date
  <2> QED
    BY <2>2, <2>3, <2>4 DEF InstanceInv
<1> QED
  BY <1>1, <1>6, <1>7, <1>8 DEF BackupInv, Instances, Dates

LEMMA ReturnPartKeepsInv ==
  ASSUME BackupInv, Reruns = {}, NEW b \in Instances, ReturnPart(b)
  PROVE  BackupInv'
<1>1. BackupTypeOK'
  BY DumpStepType DEF BackupInv, InstanceInv
<1>2. /\ UNCHANGED <<table, today, partitions, part, complete, listed, latest, whole,
                     reached, ended, stable>>
      /\ backup[b] = "return"
      /\ backup' = [backup EXCEPT ![b] = IF ended[b] THEN "manifest" ELSE "query"]
      /\ listing' = [listing EXCEPT ![b][seq[b]] = page[b]]
      /\ seq' = [seq EXCEPT ![b] = @ + 1]
      /\ resume' = [resume EXCEPT ![b] = reached[b]]
      /\ page' = [page EXCEPT ![b] = {}]
      /\ backup \in [Instances -> {"idle", "done", "errored"} \cup Running]
      /\ listing \in [Instances -> [Seqs -> SUBSET Rowids]]
      /\ seq \in [Instances -> 1..(MaxParts + 1)]
      /\ resume \in [Instances -> 0..MaxRow] /\ reached \in [Instances -> 0..MaxRow]
      /\ page \in [Instances -> SUBSET Rowids]
      /\ table \subseteq Rowids
  BY DEF ReturnPart, BackupStep, bucket, BackupInv, BackupTypeOK
<1>3. InstanceInv(b) /\ Date(b) = today
  BY <1>2 DEF BackupInv, InstanceInv, Place, Running
<1>4. seq[b] \in Seqs
  BY <1>2, <1>3, Parameters DEF InstanceInv, Dumped, Seqs
<1>5. PointerInv' /\ \A d \in Dates : Honest(d)'
  BY <1>2 DEF BackupInv, PointerInv, Honest
<1>6. \A c \in Instances \ {b} : InstanceInv(c)'
  BY <1>2, <1>3, OthersRest
<1>7. InstanceInv(b)'
  <2>1. /\ backup'[b] = IF ended[b] THEN "manifest" ELSE "query"
        /\ seq'[b] = seq[b] + 1 /\ resume'[b] = reached[b] /\ page'[b] = {}
        /\ listing'[b] = [listing[b] EXCEPT ![seq[b]] = page[b]]
    BY <1>2
  <2>2. listing'[b][seq[b]] = page[b] /\ \A s \in Seqs \ {seq[b]} :
                                           listing'[b][s] = listing[b][s]
    BY <1>2, <1>4, <2>1
  <2>3. /\ \A s \in Seqs : /\ listing[b][s] \in {{}, part[Date(b)][s]}
                           /\ s >= seq[b] => listing[b][s] = {}
        /\ page[b] \in {{}, part[Date(b)][seq[b]]}
    BY <1>2, <1>3 DEF InstanceInv, Stored, Dumped, Dumping
  <2>4. Place(b)' /\ Started(b)'
    BY <1>2, <1>3, <2>1 DEF InstanceInv, Place, Started, Date, Running
  <2>5. Stored(b)'
    <3>1. ASSUME NEW s \in Seqs
          PROVE  /\ listing'[b][s] \in {{}, part[Date(b)][s]}
                 /\ s >= seq[b] + 1 => listing'[b][s] = {}
      <4>1. s >= seq[b] + 1 => s # seq[b] /\ s >= seq[b]
        BY <1>4 DEF Seqs
      <4> QED
        BY <2>2, <2>3, <4>1
    <3> QED
      BY <1>2, <2>1, <3>1 DEF Stored, Date
  <2>6. ASSUME NEW x \in stable[b], x <= reached[b]
        PROVE  \E s \in Seqs : x \in listing'[b][s]
    <3>1. x \in Int /\ resume[b] \in Int
      <4>1. x \in table
        BY <1>3 DEF InstanceInv, Started
      <4>2. resume[b] \in 0..MaxRow
        BY <1>2
      <4> QED
        BY <1>2, <4>1, <4>2, Parameters DEF Rowids
    <3>2. CASE x <= resume[b]
      <4>1. PICK s \in Seqs : x \in listing[b][s]
        BY <1>2, <1>3, <3>2 DEF InstanceInv, Dumped, Dumping
      <4>2. s # seq[b]
        <5>1. seq[b] >= seq[b]
          BY <1>4 DEF Seqs
        <5> QED
          BY <1>4, <2>3, <4>1, <5>1
      <4> QED
        BY <2>2, <4>1, <4>2
    <3>3. CASE resume[b] < x
      <4>1. x \in page[b]
        BY <1>2, <1>3, <2>6, <3>3 DEF InstanceInv, Dumped, Dumping
      <4> QED
        BY <1>4, <2>2, <4>1
    <3> QED
      BY <3>1, <3>2, <3>3
  <2>7. \A x \in stable[b] : ~ (reached[b] < x /\ x <= reached[b])
    <3>1. \A x \in Rowids, y \in 0..MaxRow : ~ (y < x /\ x <= y)
      BY Parameters DEF Rowids
    <3>2. stable[b] \subseteq Rowids /\ reached[b] \in 0..MaxRow
      BY <1>2, <1>3 DEF InstanceInv, Started
    <3> QED
      BY <3>1, <3>2
  <2>8. ended[b] => \A x \in stable[b] : x <= reached[b]
    BY <1>2, <1>3 DEF InstanceInv, Dumped
  <2>9. Dumped(b)'
    BY <1>2, <2>1, <2>6, <2>7, <2>8 DEF Dumped, Dumping
  <2> QED
    BY <2>4, <2>5, <2>9 DEF InstanceInv
<1> QED
  BY <1>1, <1>5, <1>6, <1>7 DEF BackupInv, Instances, Dates

LEMMA PartLostKeepsInv ==
  ASSUME BackupInv, Reruns = {}, NEW b \in Instances, PartLost(b)
  PROVE  BackupInv'
<1>1. BackupTypeOK'
  BY DumpStepType DEF BackupInv, InstanceInv
<1>2. /\ UNCHANGED <<table, today, partitions, part, complete, listed, latest, whole,
                     resume, seq, listing, ended, stable>>
      /\ backup[b] \in Dumping
      /\ backup' = [backup EXCEPT ![b] = "query"]
      /\ page' = [page EXCEPT ![b] = {}]
      /\ reached' = [reached EXCEPT ![b] = resume[b]]
      /\ backup \in [Instances -> {"idle", "done", "errored"} \cup Running]
      /\ page \in [Instances -> SUBSET Rowids]
      /\ reached \in [Instances -> 0..MaxRow]
      /\ resume[b] \in 0..MaxRow /\ table \subseteq Rowids
  BY DEF PartLost, bucket, BackupInv, BackupTypeOK, Dumping
<1>3. InstanceInv(b) /\ Date(b) = today
  BY <1>2 DEF BackupInv, InstanceInv, Place, Running, Dumping
<1>4. PointerInv' /\ \A d \in Dates : Honest(d)'
  BY <1>2 DEF BackupInv, PointerInv, Honest
<1>5. \A c \in Instances \ {b} : InstanceInv(c)'
  BY <1>2, <1>3, OthersRest
<1>6. InstanceInv(b)'
  <2>1. backup'[b] = "query" /\ page'[b] = {} /\ reached'[b] = resume[b]
    BY <1>2
  <2>2. Place(b)' /\ Stored(b)' /\ Started(b)'
    BY <1>2, <1>3, <2>1
       DEF InstanceInv, Place, Stored, Started, Date, Running, Dumping
  <2>3. \A x \in stable[b] : ~ (resume[b] < x /\ x <= resume[b])
    <3>1. \A x \in Rowids, y \in 0..MaxRow : ~ (y < x /\ x <= y)
      BY Parameters DEF Rowids
    <3>2. stable[b] \subseteq Rowids
      BY <1>2, <1>3 DEF InstanceInv, Started
    <3> QED
      BY <1>2, <3>1, <3>2
  <2>4. Dumped(b)'
    BY <1>2, <1>3, <2>1, <2>3 DEF InstanceInv, Dumped, Dumping
  <2> QED
    BY <2>2, <2>4 DEF InstanceInv
<1> QED
  BY <1>1, <1>4, <1>5, <1>6 DEF BackupInv, Instances, Dates

LEMMA StopKeepsInv ==
  ASSUME BackupInv, Reruns = {}, NEW b \in Instances,
         TooManyParts(b) \/ BackupErrors(b)
  PROVE  BackupInv'
<1>1. BackupTypeOK'
  BY BackupStepType DEF BackupInv
<1>2. /\ UNCHANGED <<table, today, partitions, part, complete, listed, latest, whole>>
      /\ backup[b] \in Running
      /\ backup' = [backup EXCEPT ![b] = "errored"]
      /\ Forgets(b)
  BY DEF TooManyParts, BackupErrors, BackupStep, bucket, Running
<1>3. InstanceInv(b) /\ Date(b) = today
  BY <1>2 DEF BackupInv, InstanceInv, Place
<1>4. PointerInv' /\ \A d \in Dates : Honest(d)'
  BY <1>2 DEF BackupInv, PointerInv, Honest
<1>5. \A c \in Instances \ {b} : InstanceInv(c)'
  BY <1>2, <1>3, OthersRest DEF Forgets, BackupInv, BackupTypeOK
<1>6. InstanceInv(b)'
  <2>1. backup'[b] = "errored" /\ stable'[b] = {}
    BY <1>2 DEF Forgets, BackupInv, BackupTypeOK
  <2> QED
    BY <1>2, <1>3, <2>1
       DEF InstanceInv, Place, Stored, Dumped, Started, Date, Running, Dumping
<1> QED
  BY <1>1, <1>4, <1>5, <1>6 DEF BackupInv, Instances, Dates

LEMMA PutManifestKeepsInv ==
  ASSUME BackupInv, Reruns = {}, NEW b \in Instances, PutManifest(b)
  PROVE  BackupInv'
<1>1. BackupTypeOK'
  BY BackupStepType DEF BackupInv
<1>2. /\ UNCHANGED <<table, today, partitions, part, latest>>
      /\ backup[b] = "manifest" /\ backup' = [backup EXCEPT ![b] = "point"]
      /\ complete' = [complete EXCEPT ![Date(b)] = TRUE]
      /\ listed' = [listed EXCEPT ![Date(b)] = listing[b]]
      /\ whole' = [whole EXCEPT ![Date(b)] = stable[b]]
      /\ Forgets(b)
      /\ complete \in [Dates -> BOOLEAN] /\ latest \in 0..Days
      /\ listed \in [Dates -> [Seqs -> SUBSET Rowids]]
      /\ whole \in [Dates -> SUBSET Rowids]
      /\ backup \in [Instances -> {"idle", "done", "errored"} \cup Running]
      /\ stable \in [Instances -> SUBSET Rowids]
  BY DEF PutManifest, BackupStep, BackupInv, BackupTypeOK
<1>3. InstanceInv(b) /\ Date(b) = today /\ Date(b) \in Dates
  BY <1>2, DateType DEF BackupInv, InstanceInv, Place, Running
<1>4. PointerInv'
  BY <1>2, <1>3, Parameters DEF BackupInv, PointerInv, Dates
<1>5. ASSUME NEW d \in Dates
      PROVE  Honest(d)'
  <2>1. CASE d = Date(b)
    <3>1. listed'[d] = listing[b] /\ whole'[d] = stable[b]
      BY <1>2, <1>3, <2>1
    <3>2. /\ \A s \in Seqs : listing[b][s] \in {{}, part[d][s]}
          /\ \A x \in stable[b] : \E s \in Seqs : x \in listing[b][s]
      BY <1>2, <1>3, <2>1 DEF InstanceInv, Stored, Dumped
    <3> QED
      BY <1>2, <3>1, <3>2 DEF Honest
  <2>2. CASE d # Date(b)
    BY <1>2, <2>2 DEF BackupInv, Honest
  <2> QED
    BY <2>1, <2>2
<1>6. \A c \in Instances \ {b} : InstanceInv(c)'
  <2>1. ASSUME NEW c \in Instances \ {b}
        PROVE  complete'[Date(c)] = complete[Date(c)]
    BY <1>2, <1>3, Alone, DateType
  <2> QED
    BY <1>2, <1>3, <2>1, OthersRest DEF Forgets, BackupInv, BackupTypeOK
<1>7. InstanceInv(b)'
  <2>1. backup'[b] = "point" /\ stable'[b] = {} /\ complete'[Date(b)]
    BY <1>2, <1>3 DEF Forgets
  <2> QED
    BY <1>2, <1>3, <2>1
       DEF InstanceInv, Place, Stored, Dumped, Started, Date, Running, Dumping
<1> QED
  BY <1>1, <1>4, <1>5, <1>6, <1>7 DEF BackupInv, Instances, Dates

LEMMA PutLatestKeepsInv ==
  ASSUME BackupInv, Reruns = {}, NEW b \in Instances, PutLatest(b)
  PROVE  BackupInv'
<1>1. BackupTypeOK'
  BY BackupStepType DEF BackupInv
<1>2. /\ UNCHANGED <<table, today, partitions, part, complete, listed, whole,
                     resume, seq, listing, page, reached, ended, stable>>
      /\ backup[b] = "point" /\ backup' = [backup EXCEPT ![b] = "retention"]
      /\ latest' = Date(b)
      /\ today \in Dates
      /\ backup \in [Instances -> {"idle", "done", "errored"} \cup Running]
  BY DEF PutLatest, BackupStep, dump, BackupInv, BackupTypeOK
<1>3. InstanceInv(b) /\ Date(b) = today /\ complete[Date(b)]
  BY <1>2 DEF BackupInv, InstanceInv, Place, Running
<1>4. PointerInv' /\ \A d \in Dates : Honest(d)'
  <2>1. today <= today
    BY <1>2, Parameters DEF Dates
  <2> QED
    BY <1>2, <1>3, <2>1 DEF BackupInv, PointerInv, Honest
<1>5. \A c \in Instances \ {b} : InstanceInv(c)'
  BY <1>2, <1>3, OthersRest
<1>6. InstanceInv(b)'
  <2>1. backup'[b] = "retention"
    BY <1>2
  <2> QED
    BY <1>2, <1>3, <2>1
       DEF InstanceInv, Place, Stored, Dumped, Started, Date, Running, Dumping
<1> QED
  BY <1>1, <1>4, <1>5, <1>6 DEF BackupInv, Instances, Dates

LEMMA RetentionKeepsInv ==
  ASSUME BackupInv, Reruns = {}, NEW b \in Instances,
         Retained(b) \/ \E d \in Dates : DeletePartition(b, d)
  PROVE  BackupInv'
<1>1. BackupTypeOK'
  BY BackupStepType DEF BackupInv
<1>2. CASE Retained(b)
  <2>1. /\ UNCHANGED <<table, today, partitions, part, complete, listed, latest,
                       whole, resume, seq, listing, page, reached, ended, stable>>
        /\ backup[b] = "retention" /\ backup' = [backup EXCEPT ![b] = "done"]
        /\ backup \in [Instances -> {"idle", "done", "errored"} \cup Running]
    BY <1>2 DEF Retained, BackupStep, bucket, dump, BackupInv, BackupTypeOK
  <2>2. InstanceInv(b) /\ Date(b) = today
    BY <2>1 DEF BackupInv, InstanceInv, Place, Running
  <2>3. PointerInv' /\ \A d \in Dates : Honest(d)'
    BY <2>1 DEF BackupInv, PointerInv, Honest
  <2>4. \A c \in Instances \ {b} : InstanceInv(c)'
    BY <2>1, <2>2, OthersRest
  <2>5. InstanceInv(b)'
    <3>1. backup'[b] = "done"
      BY <2>1
    <3> QED
      BY <2>1, <2>2, <3>1
         DEF InstanceInv, Place, Stored, Dumped, Started, Date, Running, Dumping
  <2> QED
    BY <1>1, <2>3, <2>4, <2>5 DEF BackupInv, Instances, Dates
<1>3. ASSUME NEW d \in Dates, DeletePartition(b, d)
      PROVE  BackupInv'
  <2>1. /\ UNCHANGED <<table, today, latest, whole, backup, resume, seq, listing,
                       page, reached, ended, stable>>
        /\ backup[b] = "retention" /\ d \in StalePartitions
        /\ partitions' = partitions \ {d}
        /\ part' = [part EXCEPT ![d] = NoParts]
        /\ complete' = [complete EXCEPT ![d] = FALSE]
        /\ listed' = [listed EXCEPT ![d] = NoParts]
        /\ complete \in [Dates -> BOOLEAN] /\ latest \in 0..Days /\ today \in Dates
        /\ listed \in [Dates -> [Seqs -> SUBSET Rowids]]
        /\ part \in [Dates -> [Seqs -> SUBSET Rowids]]
    BY <1>3 DEF DeletePartition, dump, BackupInv, BackupTypeOK
  <2>2. InstanceInv(b) /\ Date(b) = today /\ latest = today
    BY <2>1 DEF BackupInv, InstanceInv, Place, Running
  <2>3. d # today
    <3>1. SUFFICES ASSUME d = today
                   PROVE  FALSE
      OBVIOUS
    <3>2. {e \in partitions : e > d} = {}
      <4>1. \A e \in 1..today : ~ e > today
        BY <2>1, Parameters DEF Dates
      <4>2. partitions \subseteq 1..today
        BY DEF BackupInv, PointerInv
      <4> QED
        BY <3>1, <4>1, <4>2
    <3>3. Cardinality({e \in partitions : e > d}) = 0
      BY <3>2, FS_EmptySet
    <3> QED
      BY <2>1, <3>3, Parameters DEF StalePartitions
  <2>4. /\ \A e \in Dates \ {d} : /\ complete'[e] = complete[e]
                                  /\ listed'[e] = listed[e] /\ part'[e] = part[e]
        /\ ~ complete'[d]
    BY <2>1
  <2>5. PointerInv'
    BY <2>1, <2>2, <2>3, <2>4 DEF BackupInv, PointerInv
  <2>6. \A e \in Dates : Honest(e)'
    BY <2>1, <2>4 DEF BackupInv, Honest
  <2>7. \A c \in Instances \ {b} : InstanceInv(c)'
    <3>1. \A c \in Instances \ {b} : complete'[Date(c)] => complete[Date(c)]
      BY <2>4, DateType
    <3> QED
      BY <2>1, <2>2, <3>1, OthersRest
  <2>8. InstanceInv(b)'
    <3>1. complete'[Date(b)] = complete[Date(b)] /\ part'[Date(b)] = part[Date(b)]
      BY <2>1, <2>2, <2>3, <2>4
    <3> QED
      BY <2>1, <2>2, <3>1
         DEF InstanceInv, Place, Stored, Dumped, Started, Date, Running, Dumping
  <2> QED
    BY <1>1, <2>5, <2>6, <2>7, <2>8 DEF BackupInv, Instances, Dates
<1> QED
  BY <1>2, <1>3

(***************************************************************************)
(* The theorems                                                            *)
(***************************************************************************)

LEMMA BackupInitInv ==
  BackupInit => BackupInv
<1> SUFFICES ASSUME BackupInit
             PROVE  BackupInv
  OBVIOUS
<1>1. BackupTypeOK
  BY BackupInitType
<1>2. /\ today = 1 /\ partitions = {} /\ latest = 0
      /\ \A d \in Dates : ~ complete[d]
      /\ \A b \in Instances : /\ backup[b] = "idle" /\ stable[b] = {}
                              /\ listing[b] = NoParts /\ page[b] = {}
                              /\ resume[b] = 0 /\ reached[b] = 0
  BY DEF BackupInit
<1>3. PointerInv /\ \A d \in Dates : Honest(d)
  BY <1>2 DEF PointerInv, Honest
<1>4. ASSUME NEW b \in Instances
      PROVE  InstanceInv(b)
  <2>1. ~ complete[Date(b)]
    BY <1>2, DateType
  <2> QED
    BY <1>2, <2>1
       DEF InstanceInv, Place, Stored, Dumped, Started, Running, Dumping
<1> QED
  BY <1>1, <1>3, <1>4 DEF BackupInv

LEMMA BackupStepInv ==
  ASSUME Reruns = {}, BackupInv, [BackupNext]_backupVars
  PROVE  BackupInv'
<1>1. CASE InsertRow \/ NextDay \/ \E x \in Rowids : DeleteRow(x)
  BY <1>1, OthersKeepInv
<1>2. ASSUME NEW b \in Instances, Plan(b)
      PROVE  BackupInv'
  BY <1>2, PlanKeepsInv
<1>3. ASSUME NEW b \in Instances, Query(b)
      PROVE  BackupInv'
  BY <1>3, QueryKeepsInv
<1>4. ASSUME NEW b \in Instances, TooManyParts(b) \/ BackupErrors(b)
      PROVE  BackupInv'
  BY <1>4, StopKeepsInv
<1>5. ASSUME NEW b \in Instances, PutPart(b)
      PROVE  BackupInv'
  BY <1>5, PutPartKeepsInv
<1>6. ASSUME NEW b \in Instances, ReturnPart(b)
      PROVE  BackupInv'
  BY <1>6, ReturnPartKeepsInv
<1>7. ASSUME NEW b \in Instances, PartLost(b)
      PROVE  BackupInv'
  BY <1>7, PartLostKeepsInv
<1>8. ASSUME NEW b \in Instances, PutManifest(b)
      PROVE  BackupInv'
  BY <1>8, PutManifestKeepsInv
<1>9. ASSUME NEW b \in Instances, PutLatest(b)
      PROVE  BackupInv'
  BY <1>9, PutLatestKeepsInv
<1>10. ASSUME NEW b \in Instances,
              Retained(b) \/ \E d \in Dates : DeletePartition(b, d)
       PROVE  BackupInv'
  BY <1>10, RetentionKeepsInv
<1>11. CASE UNCHANGED backupVars
  <2>1. UNCHANGED <<table, today, partitions, part, complete, listed, latest, whole,
                    backup, resume, seq, listing, page, reached, ended, stable,
                    backupMishaps>>
    BY <1>11 DEF backupVars, bucket, dump
  <2>2. BackupTypeOK' /\ PointerInv'
    BY <2>1 DEF BackupInv, BackupTypeOK, PointerInv, Instances, Dates, Seqs
  <2>3. \A d \in Dates : Honest(d)'
    BY <2>1 DEF BackupInv, Honest
  <2>4. ASSUME NEW b \in Instances
        PROVE  InstanceInv(b)'
    <3>1. InstanceInv(b)
      BY DEF BackupInv
    <3> QED
      BY <2>1, <3>1 DEF InstanceInv, Place, Stored, Dumped, Started, Date, NoParts, Seqs
  <2> QED
    BY <2>2, <2>3, <2>4 DEF BackupInv, Instances, Dates
<1> QED
  BY <1>1, <1>2, <1>3, <1>4, <1>5, <1>6, <1>7, <1>8, <1>9, <1>10, <1>11 DEF BackupNext

LEMMA BackupInvRestores ==
  BackupInv => BackupRestorable
<1> SUFFICES ASSUME BackupInv, latest # 0
             PROVE  /\ complete[latest]
                    /\ \A s \in Seqs : listed[latest][s] \in {{}, part[latest][s]}
                    /\ whole[latest] \subseteq UNION {listed[latest][s] : s \in Seqs}
  BY DEF BackupRestorable
<1>1. latest \in Dates /\ complete[latest]
  BY Parameters DEF BackupInv, BackupTypeOK, PointerInv, Dates
<1> QED
  BY <1>1 DEF BackupInv, Honest

(* The variables of the export keep their types, when the workflow is       *)
(* started by the cron only (Reruns = {}): src/workflows/d1-backup.ts.       *)
THEOREM BackupTypeCorrect ==
  ASSUME Reruns = {}
  PROVE  BackupSpec => []BackupTypeOK
<1>1. BackupInv => BackupTypeOK
  BY DEF BackupInv
<1>2. BackupInv /\ [BackupNext]_backupVars => BackupInv'
  BY BackupStepInv
<1> QED
  BY <1>1, <1>2, BackupInitInv, PTL DEF BackupSpec

(* What latest.json points to can be restored, for every table, every size  *)
(* of parts and queries, every number of days and every bound on mishaps,   *)
(* when the workflow is started by the cron only: the manifest is there,    *)
(* the parts it lists hold what it says, and together every row that stayed *)
(* in the table while it was made.                                          *)
THEOREM LatestRestorable ==
  ASSUME Reruns = {}
  PROVE  BackupSpec => []BackupRestorable
<1>1. BackupInv /\ [BackupNext]_backupVars => BackupInv'
  BY BackupStepInv
<1> QED
  BY <1>1, BackupInitInv, BackupInvRestores, PTL DEF BackupSpec
=============================================================================
