----------------------------- MODULE ContactMerge -----------------------------
(***************************************************************************)
(* Merges of two contacts (src/lib/merge.ts) beside a campaign that may be *)
(* about to mail them.  A merge locks both contacts, then looks for an     *)
(* active campaign; a campaign is marked active, then loads the recipients *)
(* that are not locked.                                                    *)
(***************************************************************************)
EXTENDS CampaignSend

CONSTANT Merges  \* callers of postContactMerge

ASSUME ContactMergeAssumption == IsFiniteSet(Merges)

VARIABLES
  merge,  \* the step of each merge
  pair    \* what it is asked to merge: <<keep_id, discard_id>>

mergeVars == <<merge, pair>>

Pairs == {p \in Contacts \X Contacts : p[1] # p[2]}
Both(m) == {pair[m][1], pair[m][2]}

(* Between the locks and their release.                                     *)
Underway == {"check", "commit", "refused", "release"}

MergeTypeOK ==
  /\ merge \in [Merges -> {"idle", "lock"} \cup Underway]
  /\ pair \in [Merges -> Pairs]

MergeInit ==
  /\ merge = [m \in Merges |-> "idle"]
  /\ pair \in [Merges -> Pairs]

CampaignUnchanged ==
  UNCHANGED <<campaign, request, toInsert, flow, loaded, sentSteps, sending,
              tries, mails, lost, unmarked>>

RowsUnchanged == UNCHANGED <<recipient, rowAt>>

Step(m, from, to) ==
  /\ merge[m] = from
  /\ merge' = [merge EXCEPT ![m] = to]

(* postContactMerge: the kept contact has not been merged itself.  A caller *)
(* may call again.                                                          *)
StartMerge(m) ==
  /\ Step(m, "idle", "lock")
  /\ \E p \in Pairs : p[1] \notin gone /\ pair' = [pair EXCEPT ![m] = p]
  /\ UNCHANGED <<contactTables, campaignMishaps>>
  /\ CampaignUnchanged /\ RowsUnchanged

(* Both INSERTs in one batch.  A lock that has expired is still a row.      *)
Lock(m) ==
  /\ IF \A c \in Both(m) : locks[c] = "none"
       THEN /\ Step(m, "lock", "check")
            /\ locks' = [c \in Contacts |->
                           IF c \in Both(m) THEN "held" ELSE locks[c]]
       ELSE Step(m, "lock", "idle") /\ UNCHANGED locks
  /\ UNCHANGED <<pair, gone, campaignMishaps>>
  /\ CampaignUnchanged /\ RowsUnchanged

(* The campaign is under way and has a row of either contact.               *)
ActiveCampaign(m) ==
  /\ campaign \in Active
  /\ \E c \in Both(m) : recipient[c] # "none"

CheckCampaign(m) ==
  /\ Step(m, "check", IF ActiveCampaign(m) THEN "refused" ELSE "commit")
  /\ UNCHANGED <<pair, contactTables, campaignMishaps>>
  /\ CampaignUnchanged /\ RowsUnchanged

(* One batch: the discarded contact's row of the campaign becomes the kept  *)
(* one's, unless that has one, and the discarded contact is deleted.        *)
Commit(m) ==
  /\ Step(m, "commit", "release")
  /\ LET keep == pair[m][1]
         discard == pair[m][2]
         to == IF recipient[keep] = "none" THEN {keep} ELSE {}
     IN /\ gone' = gone \cup {discard}
        /\ recipient' =
             [c \in Contacts |-> CASE c = discard -> "none"
                                 [] c \in to -> recipient[discard]
                                 [] OTHER -> recipient[c]]
        /\ rowAt' =
             [c \in Contacts |-> IF discard \in rowAt[c]
                                  THEN (rowAt[c] \ {discard}) \cup to ELSE rowAt[c]]
  /\ UNCHANGED <<pair, locks, campaignMishaps>>
  /\ CampaignUnchanged

(* The batch is rolled back.                                                *)
CommitFails(m) ==
  /\ Step(m, "commit", "refused")
  /\ CampaignMishap
  /\ UNCHANGED <<pair, contactTables>>
  /\ CampaignUnchanged /\ RowsUnchanged

(* By contact, in one batch whose error is ignored.                         *)
Release(m) ==
  /\ merge[m] \in {"refused", "release"}
  /\ merge' = [merge EXCEPT ![m] = "idle"]
  /\ \/ /\ locks' = [c \in Contacts |->
                       IF c \in Both(m) THEN "none" ELSE locks[c]]
        /\ UNCHANGED campaignMishaps
     \/ CampaignMishap /\ UNCHANGED locks
  /\ UNCHANGED <<pair, gone>>
  /\ CampaignUnchanged /\ RowsUnchanged

MergeDies(m) ==
  /\ merge[m] \in Underway
  /\ merge' = [merge EXCEPT ![m] = "idle"]
  /\ CampaignMishap
  /\ UNCHANGED <<pair, contactTables>>
  /\ CampaignUnchanged /\ RowsUnchanged

(* Five minutes later.  No merge takes that long.                           *)
LockExpires(c) ==
  /\ locks[c] = "held"
  /\ \A m \in Merges : merge[m] \in Underway => c \notin Both(m)
  /\ locks' = [locks EXCEPT ![c] = "expired"]
  /\ UNCHANGED <<merge, pair, gone, campaignMishaps>>
  /\ CampaignUnchanged /\ RowsUnchanged

(* cleanupExpiredMergeLocks of the daily cron.                              *)
CleanupLocks ==
  /\ \E c \in Contacts : locks[c] = "expired"
  /\ locks' = [c \in Contacts |->
                 IF locks[c] = "expired" THEN "none" ELSE locks[c]]
  /\ UNCHANGED <<merge, pair, gone, campaignMishaps>>
  /\ CampaignUnchanged /\ RowsUnchanged

MergeNext ==
  \/ \E m \in Merges :
       \/ StartMerge(m) \/ Lock(m) \/ CheckCampaign(m) \/ Commit(m)
       \/ CommitFails(m) \/ Release(m) \/ MergeDies(m)
  \/ \E c \in Contacts : LockExpires(c)
  \/ CleanupLocks

(* The campaign and the merges.                                             *)
CampaignSpec ==
  /\ CampaignInit /\ MergeInit
  /\ [][(CampaignNext /\ UNCHANGED mergeVars) \/ MergeNext]_<<campaignVars, mergeVars>>

------------------------------------------------------------------------------

(* A merge never takes a contact, or its row, from a workflow that has      *)
(* loaded it and still has to mail it: the merge locks before it looks for  *)
(* an active campaign, and the campaign is active before it looks for       *)
(* locks.  A PATCH that takes the campaign's mark away while the workflow   *)
(* loads or sends is what the merge's check cannot see.                     *)
MergeSparesCampaign ==
  flow = "send" /\ ~unmarked =>
    \A c \in loaded \ sentSteps : c \notin gone /\ rowAt[c] = {c}
=============================================================================
