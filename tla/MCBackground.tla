----------------------------- MODULE MCBackground -----------------------------
(***************************************************************************)
(* Values for FireflyBackfill, ContactMerge (with CampaignSend), SyncJobs  *)
(* and D1Backup.  They share no state, so one run explores the union of    *)
(* their behaviours: the first state picks which of them moves.            *)
(***************************************************************************)
EXTENDS FireflyBackfill, ContactMerge, SyncJobs, D1Backup

CONSTANTS i1, i2, c1, c2, q1, q2, m1, m2, j1, j2

VARIABLE focus

vars == <<focus, fireflyVars, campaignVars, mergeVars, syncJobVars, backupVars>>

OneDomain == [i \in Items |-> 1]
EqualPriority == [i \in Items |-> 50]
TwoAttempts == [i \in Items |-> 2]
NoUpstreams == [i \in Items |-> "none"]

Init ==
  /\ focus \in {"firefly", "campaign", "jobs", "backup"}
  /\ FireflyInit
  /\ CampaignInit /\ MergeInit /\ pair = [m \in Merges |-> <<c1, c2>>]
  /\ SyncJobsInit
  /\ BackupInit /\ (focus # "backup" => table = {})

Next ==
  \/ /\ focus = "firefly"
     /\ FireflyNext
     /\ UNCHANGED <<focus, campaignVars, mergeVars, syncJobVars, backupVars>>
  \/ /\ focus = "campaign"
     /\ \/ CampaignNext /\ UNCHANGED mergeVars
        \/ MergeNext
     /\ UNCHANGED <<focus, fireflyVars, syncJobVars, backupVars>>
  \/ /\ focus = "jobs"
     /\ SyncJobsNext
     /\ UNCHANGED <<focus, fireflyVars, campaignVars, mergeVars, backupVars>>
  \/ /\ focus = "backup"
     /\ BackupNext
     /\ UNCHANGED <<focus, fireflyVars, campaignVars, mergeVars, syncJobVars>>

Spec == Init /\ [][Next]_vars

(* In the first state nothing that is fair is enabled, so the fairness of   *)
(* one asks nothing of a behaviour of another.                              *)
FairSpec == Spec /\ FireflyFairness /\ SyncJobsFairness

(* Every variable of the modules keeps its type, the bounds on their       *)
(* counters and on the attempts of a step included.                         *)
TypeOK ==
  FireflyTypeOK /\ CampaignTypeOK /\ MergeTypeOK /\ SyncJobsTypeOK /\ BackupTypeOK
=============================================================================
