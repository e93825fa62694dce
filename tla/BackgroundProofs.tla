--------------------------- MODULE BackgroundProofs ---------------------------
(***************************************************************************)
(* An email campaign beside merges of its contacts (CampaignSend and       *)
(* ContactMerge), and a Firefly backfill (FireflyBackfill): what both      *)
(* promise, for any contacts, requests, merges and windows and every bound *)
(* on retries and mishaps; then the types of both together with sync_jobs  *)
(* and the export of D1.                                                   *)
(***************************************************************************)
EXTENDS MCBackground, D1BackupProofs, WorkQueueRowsProofs, FiniteSetTheorems

------------------------------------------------------------------------------
(* The campaign's invariant.                                                *)

(* What the workflow has still to mail.                                     *)
Left == loaded \ sentSteps

(* Where the workflow is, and what its variables say then.                  *)
FlowInv ==
  /\ flow \in {"none", "load", "recipients"} =>
       sentSteps = {} /\ loaded = {} /\ sending = Idle
  /\ flow \in {"finalize", "done"} => sentSteps = loaded
  /\ flow \in {"recipients", "send"} /\ ~unmarked => campaign \in Active
  /\ sending # Idle => flow = "send" /\ sending.to \in Left
  /\ flow # "errored" => \A c \in Contacts : tries[c] <= StepRetries

(* A contact whose step has still to return has no mail but those lost and  *)
(* the one in flight.                                                       *)
MailInv ==
  /\ \A c \in Contacts : mails[c] <= 1 + lost[c]
  /\ flow \in {"none", "load", "recipients"} =>
       \A c \in Contacts : mails[c] = 0 /\ lost[c] = 0
  /\ flow = "send" =>
       \A c \in Left :
         mails[c] <= lost[c] + IF sending = [to |-> c, at |-> "mailed"] THEN 1 ELSE 0

(* A loaded row stays a row wherever merges put it, says how its step ended, *)
(* and says 'sent' of a mail that was taken.                                *)
RowInv ==
  /\ \A c \in sentSteps : \A d \in rowAt[c] : recipient[d] \in {"sent", "failed"}
  /\ \A c \in loaded : \A d \in rowAt[c] : recipient[d] # "none"
  /\ \A d \in Contacts :
       recipient[d] = "sent" => \E c \in loaded : d \in rowAt[c] /\ mails[c] > 0
  /\ sending # Idle => (sending.at = "mailed" => mails[sending.to] > 0)

(* A merge holds the locks of both its contacts, alone, and has nothing the *)
(* workflow has still to mail unless a PATCH hid the campaign from it.      *)
LockInv ==
  /\ \A m \in Merges : merge[m] \in Underway => \A c \in Both(m) : locks[c] = "held"
  /\ \A m, n \in Merges :
       merge[m] \in Underway /\ merge[n] \in Underway /\ m # n => Both(m) \cap Both(n) = {}
  /\ \A m \in Merges : merge[m] = "commit" /\ flow = "send" /\ ~unmarked => Both(m) \cap Left = {}

CampaignInv ==
  /\ CampaignTypeOK /\ MergeTypeOK
  /\ FlowInv /\ MailInv /\ RowInv /\ LockInv /\ MergeSparesCampaign

LEMMA CampaignInitInv == CampaignInit /\ MergeInit => CampaignInv
<1> SUFFICES ASSUME CampaignInit, MergeInit
             PROVE  CampaignInv
  OBVIOUS
<1>1. StepRetries \in Nat /\ MaxCampaignMishaps \in Nat
  BY CampaignAssumption
<1>2. CampaignTypeOK /\ MergeTypeOK
  <2>1. rowAt \in [Contacts -> SUBSET Contacts] /\ toInsert \in [Requests -> SUBSET Contacts]
    BY DEF CampaignInit
  <2>2. mails \in [Contacts -> Nat] /\ lost \in [Contacts -> Nat]
        /\ tries \in [Contacts -> 0..(StepRetries + 1)] /\ campaignMishaps \in 0..MaxCampaignMishaps
    BY <1>1 DEF CampaignInit
  <2> QED
    BY <2>1, <2>2 DEF CampaignInit, MergeInit, CampaignTypeOK, MergeTypeOK, CampaignStatuses,
       Flows
<1>3. FlowInv /\ MailInv /\ RowInv
  BY <1>1 DEF CampaignInit, FlowInv, MailInv, RowInv, Left
<1>4. LockInv /\ MergeSparesCampaign
  BY DEF CampaignInit, MergeInit, LockInv, Underway, MergeSparesCampaign
<1> QED
  BY <1>2, <1>3, <1>4 DEF CampaignInv

(* The merges beside the campaign's own steps: they keep what they hold, and *)
(* the workflow takes up nothing that they hold.                             *)
LEMMA MergesBeside ==
  ASSUME CampaignInv, UNCHANGED <<mergeVars, locks>>, unmarked => unmarked',
         \/ flow' # "send"
         \/ flow = "send" /\ Left' \subseteq Left
         \/ \A c \in Left' : locks[c] # "held"
  PROVE  MergeTypeOK' /\ LockInv'
<1>1. MergeTypeOK'
  BY DEF CampaignInv, MergeTypeOK, mergeVars
<1>2. \A m \in Merges : Both(m)' = Both(m)
  BY DEF Both, mergeVars
<1>3. \A m \in Merges : merge'[m] \in Underway => \A c \in Both(m)' : locks'[c] = "held"
  BY <1>2 DEF CampaignInv, LockInv, mergeVars
<1>4. \A m, n \in Merges :
        merge'[m] \in Underway /\ merge'[n] \in Underway /\ m # n
          => Both(m)' \cap Both(n)' = {}
  BY <1>2 DEF CampaignInv, LockInv, mergeVars
<1>5. ASSUME NEW m \in Merges, merge'[m] = "commit", flow' = "send", ~unmarked'
      PROVE  Both(m)' \cap Left' = {}
  <2>1. merge[m] = "commit" /\ merge[m] \in Underway
    BY <1>5 DEF mergeVars, Underway
  <2>2. \A c \in Both(m) : locks[c] = "held"
    BY <2>1 DEF CampaignInv, LockInv
  <2>3. flow = "send" => Both(m) \cap Left = {}
    BY <1>5, <2>1 DEF CampaignInv, LockInv
  <2> QED
    BY <1>2, <1>5, <2>2, <2>3
<1> QED
  BY <1>1, <1>3, <1>4, <1>5 DEF LockInv, Underway

(* A request never disturbs the workflow, nor a row that is there.          *)
LEMMA RequestKeepsInv ==
  ASSUME CampaignInv, UNCHANGED mergeVars, FlowUnchanged, CampaignTypeOK',
         campaign' \in {campaign, "scheduled"},
         \A c \in Contacts : recipient[c] # "none" => recipient'[c] = recipient[c],
         \A c \in Contacts : recipient'[c] = "sent" => recipient[c] = "sent"
  PROVE  CampaignInv'
<1>1. UNCHANGED <<flow, loaded, rowAt, sentSteps, sending, tries, mails, lost, locks, gone,
                  unmarked>>
  BY DEF FlowUnchanged, contactTables
<1>2. FlowInv' /\ MailInv'
  BY <1>1 DEF CampaignInv, FlowInv, MailInv, Left, Active
<1>3. RowInv' /\ MergeSparesCampaign'
  BY <1>1 DEF CampaignInv, CampaignTypeOK, RowInv, MergeSparesCampaign
<1>4. MergeTypeOK' /\ LockInv'
  BY <1>1, MergesBeside DEF Left
<1> QED
  BY <1>2, <1>3, <1>4 DEF CampaignInv

LEMMA RequestStepInv ==
  ASSUME CampaignInv, UNCHANGED mergeVars, NEW q \in Requests,
         \/ SendCampaign(q) \/ Schedule(q) \/ RequestDies(q)
         \/ \E c \in Contacts : InsertRecipient(q, c)
  PROVE  CampaignInv'
<1> USE DEF CampaignInv, CampaignTypeOK, CampaignStatuses, Active
<1>0. CampaignMishap => campaignMishaps' \in 0..MaxCampaignMishaps
  BY CampaignAssumption DEF CampaignMishap
<1>1. CASE SendCampaign(q)
  <2>1. CampaignTypeOK'
    BY <1>1 DEF SendCampaign, FlowUnchanged, contactTables
  <2> QED
    BY <1>1, <2>1, RequestKeepsInv DEF SendCampaign
<1>2. CASE Schedule(q)
  <2>1. CampaignTypeOK'
    BY <1>2 DEF Schedule, FlowUnchanged, contactTables
  <2> QED
    BY <1>2, <2>1, RequestKeepsInv DEF Schedule
<1>3. CASE RequestDies(q)
  <2>1. CampaignTypeOK'
    BY <1>0, <1>3 DEF RequestDies, FlowUnchanged, contactTables
  <2> QED
    BY <1>3, <2>1, RequestKeepsInv DEF RequestDies
<1>4. ASSUME NEW c \in Contacts, InsertRecipient(q, c)
      PROVE  CampaignInv'
  <2>1. CampaignTypeOK'
    BY <1>4 DEF InsertRecipient, FlowUnchanged, contactTables
  <2>2. \A d \in Contacts : recipient[d] # "none" => recipient'[d] = recipient[d]
    BY <1>4 DEF InsertRecipient
  <2>3. \A d \in Contacts : recipient'[d] = "sent" => recipient[d] = "sent"
    BY <1>4 DEF InsertRecipient
  <2> QED
    BY <1>4, <2>1, <2>2, <2>3, RequestKeepsInv DEF InsertRecipient
<1> QED
  BY <1>1, <1>2, <1>3, <1>4

(* A PATCH touches no row; it hides the campaign, and is remembered, or not. *)
LEMMA UpdateCampaignKeepsInv ==
  ASSUME CampaignInv, UNCHANGED mergeVars, UpdateCampaign
  PROVE  CampaignInv'
<1> USE CampaignAssumption DEF CampaignInv, CampaignTypeOK, CampaignStatuses, Active
<1>1. CampaignTypeOK'
  BY DEF UpdateCampaign, CampaignMishap, contactTables
<1>2. FlowInv'
  BY DEF UpdateCampaign, FlowInv, Left
<1>3. MailInv'
  BY DEF UpdateCampaign, MailInv, Left
<1>4. RowInv' /\ MergeSparesCampaign'
  BY DEF UpdateCampaign, contactTables, RowInv, MergeSparesCampaign
<1>5. MergeTypeOK' /\ LockInv'
  BY MergesBeside DEF UpdateCampaign, contactTables, Left
<1> QED
  BY <1>1, <1>2, <1>3, <1>4, <1>5

LEMMA TriggerKeepsInv ==
  ASSUME CampaignInv, UNCHANGED mergeVars, NEW q \in Requests, Trigger(q)
  PROVE  CampaignInv'
<1> USE CampaignAssumption DEF CampaignInv, CampaignTypeOK, CampaignStatuses, Active
<1>1. CampaignTypeOK'
  BY DEF Trigger, contactTables, FlowInv, Left, Flows
<1>2. FlowInv'
  BY DEF Trigger, FlowInv, Left
<1>3. MailInv'
  BY DEF Trigger, FlowInv, MailInv, Left
<1>4. RowInv' /\ MergeSparesCampaign'
  BY DEF Trigger, contactTables, FlowInv, RowInv, MergeSparesCampaign, Left
<1>5. MergeTypeOK' /\ LockInv'
  BY MergesBeside DEF Trigger, contactTables, FlowInv, Left
<1> QED
  BY <1>1, <1>2, <1>3, <1>4, <1>5

LEMMA LoadCampaignKeepsInv ==
  ASSUME CampaignInv, UNCHANGED mergeVars, LoadCampaign
  PROVE  CampaignInv'
<1> USE CampaignAssumption DEF CampaignInv, CampaignTypeOK, CampaignStatuses, Active
<1>1. CampaignTypeOK'
  BY DEF LoadCampaign, RequestsUnchanged, contactTables, FlowInv, Left, Flows
<1>2. FlowInv'
  BY DEF LoadCampaign, RequestsUnchanged, FlowInv, Left
<1>3. MailInv'
  BY DEF LoadCampaign, FlowInv, MailInv, Left
<1>4. RowInv' /\ MergeSparesCampaign'
  BY DEF LoadCampaign, RequestsUnchanged, contactTables, FlowInv, RowInv, MergeSparesCampaign,
     Left
<1>5. MergeTypeOK' /\ LockInv'
  BY MergesBeside DEF LoadCampaign, RequestsUnchanged, contactTables, FlowInv, Left
<1> QED
  BY <1>1, <1>2, <1>3, <1>4, <1>5

LEMMA LoadRecipientsKeepsInv ==
  ASSUME CampaignInv, UNCHANGED mergeVars, LoadRecipients
  PROVE  CampaignInv'
<1> USE CampaignAssumption DEF CampaignInv, CampaignTypeOK, CampaignStatuses, Active
<1>1. CampaignTypeOK'
  BY DEF LoadRecipients, Free, RequestsUnchanged, contactTables, FlowInv, Left, Flows
<1>2. FlowInv'
  BY DEF LoadRecipients, Free, RequestsUnchanged, FlowInv, Left
<1>3. MailInv'
  BY DEF LoadRecipients, Free, FlowInv, MailInv, Left
<1>4. RowInv' /\ MergeSparesCampaign'
  BY DEF LoadRecipients, Free, RequestsUnchanged, contactTables, FlowInv, RowInv,
     MergeSparesCampaign, Left
<1>5. MergeTypeOK' /\ LockInv'
  BY MergesBeside DEF LoadRecipients, Free, RequestsUnchanged, contactTables, FlowInv, Left
<1> QED
  BY <1>1, <1>2, <1>3, <1>4, <1>5

LEMMA SentAllKeepsInv ==
  ASSUME CampaignInv, UNCHANGED mergeVars, SentAll
  PROVE  CampaignInv'
<1> USE CampaignAssumption DEF CampaignInv, CampaignTypeOK, CampaignStatuses, Active
<1>1. CampaignTypeOK'
  BY DEF SentAll, RequestsUnchanged, contactTables, FlowInv, Left, Flows
<1>2. FlowInv'
  BY DEF SentAll, RequestsUnchanged, FlowInv, Left
<1>3. MailInv'
  BY DEF SentAll, FlowInv, MailInv, Left
<1>4. RowInv' /\ MergeSparesCampaign'
  BY DEF SentAll, RequestsUnchanged, contactTables, FlowInv, RowInv, MergeSparesCampaign, Left
<1>5. MergeTypeOK' /\ LockInv'
  BY MergesBeside DEF SentAll, RequestsUnchanged, contactTables, FlowInv, Left
<1> QED
  BY <1>1, <1>2, <1>3, <1>4, <1>5

LEMMA FinalizeKeepsInv ==
  ASSUME CampaignInv, UNCHANGED mergeVars, Finalize
  PROVE  CampaignInv'
<1> USE CampaignAssumption DEF CampaignInv, CampaignTypeOK, CampaignStatuses, Active
<1>1. CampaignTypeOK'
  BY DEF Finalize, RequestsUnchanged, contactTables, FlowInv, Left, Flows
<1>2. FlowInv'
  BY DEF Finalize, RequestsUnchanged, FlowInv, Left
<1>3. MailInv'
  BY DEF Finalize, FlowInv, MailInv, Left
<1>4. RowInv' /\ MergeSparesCampaign'
  BY DEF Finalize, RequestsUnchanged, contactTables, FlowInv, RowInv, MergeSparesCampaign, Left
<1>5. MergeTypeOK' /\ LockInv'
  BY MergesBeside DEF Finalize, RequestsUnchanged, contactTables, FlowInv, Left
<1> QED
  BY <1>1, <1>2, <1>3, <1>4, <1>5

LEMMA FlowErrorsKeepsInv ==
  ASSUME CampaignInv, UNCHANGED mergeVars, FlowErrors
  PROVE  CampaignInv'
<1> USE CampaignAssumption DEF CampaignInv, CampaignTypeOK, CampaignStatuses, Active
<1>1. CampaignTypeOK'
  BY DEF FlowErrors, CampaignMishap, RequestsUnchanged, contactTables, FlowInv, Left, Flows
<1>2. FlowInv'
  BY DEF FlowErrors, CampaignMishap, RequestsUnchanged, FlowInv, Left
<1>3. MailInv'
  BY DEF FlowErrors, CampaignMishap, FlowInv, MailInv, Left
<1>4. RowInv' /\ MergeSparesCampaign'
  BY DEF FlowErrors, CampaignMishap, RequestsUnchanged, contactTables, FlowInv, RowInv,
     MergeSparesCampaign, Left
<1>5. MergeTypeOK' /\ LockInv'
  BY MergesBeside DEF FlowErrors, CampaignMishap, RequestsUnchanged, contactTables, FlowInv, Left
<1> QED
  BY <1>1, <1>2, <1>3, <1>4, <1>5

LEMMA EngineRestartsKeepsInv ==
  ASSUME CampaignInv, UNCHANGED mergeVars, EngineRestarts
  PROVE  CampaignInv'
<1> USE CampaignAssumption DEF CampaignInv, CampaignTypeOK, CampaignStatuses, Active
<1>1. CampaignTypeOK'
  BY DEF EngineRestarts, SetRow, CampaignMishap, RequestsUnchanged, contactTables, FlowInv,
     Left, Flows
<1>2. FlowInv'
  BY DEF EngineRestarts, SetRow, CampaignMishap, RequestsUnchanged, FlowInv, Left
<1>3. MailInv'
  BY DEF EngineRestarts, SetRow, CampaignMishap, FlowInv, MailInv, Left
<1>4. RowInv' /\ MergeSparesCampaign'
  BY DEF EngineRestarts, SetRow, CampaignMishap, RequestsUnchanged, contactTables, FlowInv,
     RowInv, MergeSparesCampaign, Left
<1>5. MergeTypeOK' /\ LockInv'
  BY MergesBeside DEF EngineRestarts, SetRow, CampaignMishap, RequestsUnchanged, contactTables,
     FlowInv, Left
<1> QED
  BY <1>1, <1>2, <1>3, <1>4, <1>5

LEMMA BeginSendKeepsInv ==
  ASSUME CampaignInv, UNCHANGED mergeVars, NEW c \in Contacts, BeginSend(c)
  PROVE  CampaignInv'
<1> USE CampaignAssumption DEF CampaignInv, CampaignTypeOK, CampaignStatuses, Active
<1>1. CampaignTypeOK'
  BY DEF BeginSend, RequestsUnchanged, contactTables, FlowInv, Left, Flows
<1>2. FlowInv'
  BY DEF BeginSend, RequestsUnchanged, FlowInv, Left
<1>3. MailInv'
  BY DEF BeginSend, FlowInv, MailInv, Left
<1>4. RowInv' /\ MergeSparesCampaign'
  BY DEF BeginSend, RequestsUnchanged, contactTables, FlowInv, RowInv, MergeSparesCampaign, Left
<1>5. MergeTypeOK' /\ LockInv'
  BY MergesBeside DEF BeginSend, RequestsUnchanged, contactTables, FlowInv, Left
<1> QED
  BY <1>1, <1>2, <1>3, <1>4, <1>5

LEMMA AcceptedKeepsInv ==
  ASSUME CampaignInv, UNCHANGED mergeVars, NEW c \in Contacts, Accepted(c)
  PROVE  CampaignInv'
<1> USE CampaignAssumption DEF CampaignInv, CampaignTypeOK, CampaignStatuses, Active
<1>1. CampaignTypeOK'
  BY DEF Accepted, RequestsUnchanged, contactTables, FlowInv, Left, Flows
<1>2. FlowInv'
  BY DEF Accepted, RequestsUnchanged, FlowInv, Left
<1>3. MailInv'
  BY DEF Accepted, FlowInv, MailInv, Left
<1>4. RowInv' /\ MergeSparesCampaign'
  BY DEF Accepted, RequestsUnchanged, contactTables, FlowInv, RowInv, MergeSparesCampaign, Left
<1>5. MergeTypeOK' /\ LockInv'
  BY MergesBeside DEF Accepted, RequestsUnchanged, contactTables, FlowInv, Left
<1> QED
  BY <1>1, <1>2, <1>3, <1>4, <1>5

LEMMA RateLimitedKeepsInv ==
  ASSUME CampaignInv, UNCHANGED mergeVars, NEW c \in Contacts, RateLimited(c)
  PROVE  CampaignInv'
<1> USE CampaignAssumption DEF CampaignInv, CampaignTypeOK, CampaignStatuses, Active
<1>1. CampaignTypeOK'
  BY DEF RateLimited, Throws, RequestsUnchanged, contactTables, FlowInv, Left, Flows
<1>2. FlowInv'
  BY DEF RateLimited, Throws, RequestsUnchanged, FlowInv, Left
<1>3. MailInv'
  <2>1. sending # Idle /\ sending' = Idle /\ UNCHANGED <<mails, lost>>
    BY DEF RateLimited, Throws
  <2>2. flow = "send" /\ flow' \in {"send", "errored"}
    BY <2>1 DEF RateLimited, Throws, FlowInv
  <2>3. \A d \in Left' : d \in Left /\ sending # [to |-> d, at |-> "mailed"]
    BY DEF RateLimited, Throws, Left
  <2>4. \A d \in Left' : mails[d] <= lost[d] /\ mails[d] \in Nat /\ lost[d] \in Nat
    BY <2>2, <2>3 DEF MailInv, Left
  <2> QED
    BY <2>1, <2>2, <2>4 DEF MailInv
<1>4. RowInv' /\ MergeSparesCampaign'
  BY DEF RateLimited, Throws, RequestsUnchanged, contactTables, FlowInv, RowInv,
     MergeSparesCampaign, Left
<1>5. MergeTypeOK' /\ LockInv'
  BY MergesBeside DEF RateLimited, Throws, RequestsUnchanged, contactTables, FlowInv, Left
<1> QED
  BY <1>1, <1>2, <1>3, <1>4, <1>5

LEMMA RejectedKeepsInv ==
  ASSUME CampaignInv, UNCHANGED mergeVars, NEW c \in Contacts, Rejected(c)
  PROVE  CampaignInv'
<1> USE CampaignAssumption DEF CampaignInv, CampaignTypeOK, CampaignStatuses, Active
<1>1. CampaignTypeOK'
  BY DEF Rejected, Returned, SetRow, RequestsUnchanged, contactTables, FlowInv, Left, Flows
<1>2. FlowInv'
  BY DEF Rejected, Returned, SetRow, RequestsUnchanged, FlowInv, Left
<1>3. MailInv'
  <2>1. sending # Idle /\ sending' = Idle /\ UNCHANGED <<mails, lost>>
    BY DEF Rejected, Returned, SetRow
  <2>2. flow = "send" /\ flow' \in {"send", "errored"}
    BY <2>1 DEF Rejected, Returned, SetRow, FlowInv
  <2>3. \A d \in Left' : d \in Left /\ sending # [to |-> d, at |-> "mailed"]
    BY DEF Rejected, Returned, SetRow, Left
  <2>4. \A d \in Left' : mails[d] <= lost[d] /\ mails[d] \in Nat /\ lost[d] \in Nat
    BY <2>2, <2>3 DEF MailInv, Left
  <2> QED
    BY <2>1, <2>2, <2>4 DEF MailInv
<1>4. RowInv' /\ MergeSparesCampaign'
  BY DEF Rejected, Returned, SetRow, RequestsUnchanged, contactTables, FlowInv, RowInv,
     MergeSparesCampaign, Left
<1>5. MergeTypeOK' /\ LockInv'
  BY MergesBeside DEF Rejected, Returned, SetRow, RequestsUnchanged, contactTables, FlowInv, Left
<1> QED
  BY <1>1, <1>2, <1>3, <1>4, <1>5

LEMMA RecordSentKeepsInv ==
  ASSUME CampaignInv, UNCHANGED mergeVars, NEW c \in Contacts, RecordSent(c)
  PROVE  CampaignInv'
<1> USE CampaignAssumption DEF CampaignInv, CampaignTypeOK, CampaignStatuses, Active
<1>1. CampaignTypeOK'
  BY DEF RecordSent, Returned, SetRow, RequestsUnchanged, contactTables, FlowInv, Left, Flows
<1>2. FlowInv'
  BY DEF RecordSent, Returned, SetRow, RequestsUnchanged, FlowInv, Left
<1>3. MailInv'
  <2>1. sending # Idle /\ sending' = Idle /\ UNCHANGED <<mails, lost>>
    BY DEF RecordSent, Returned, SetRow
  <2>2. flow = "send" /\ flow' \in {"send", "errored"}
    BY <2>1 DEF RecordSent, Returned, SetRow, FlowInv
  <2>3. \A d \in Left' : d \in Left /\ sending # [to |-> d, at |-> "mailed"]
    BY DEF RecordSent, Returned, SetRow, Left
  <2>4. \A d \in Left' : mails[d] <= lost[d] /\ mails[d] \in Nat /\ lost[d] \in Nat
    BY <2>2, <2>3 DEF MailInv, Left
  <2> QED
    BY <2>1, <2>2, <2>4 DEF MailInv
<1>4. RowInv' /\ MergeSparesCampaign'
  BY DEF RecordSent, Returned, SetRow, RequestsUnchanged, contactTables, FlowInv, RowInv,
     MergeSparesCampaign, Left
<1>5. MergeTypeOK' /\ LockInv'
  BY MergesBeside DEF RecordSent, Returned, SetRow, RequestsUnchanged, contactTables, FlowInv,
     Left
<1> QED
  BY <1>1, <1>2, <1>3, <1>4, <1>5

LEMMA SendFailsKeepsInv ==
  ASSUME CampaignInv, UNCHANGED mergeVars, NEW c \in Contacts, SendFails(c)
  PROVE  CampaignInv'
<1> USE CampaignAssumption DEF CampaignInv, CampaignTypeOK, CampaignStatuses, Active
<1>1. CampaignTypeOK'
  BY DEF SendFails, Throws, CampaignMishap, RequestsUnchanged, contactTables, FlowInv, Left, Flows
<1>2. FlowInv'
  BY DEF SendFails, Throws, CampaignMishap, RequestsUnchanged, FlowInv, Left
<1>3. MailInv'
  BY DEF SendFails, Throws, CampaignMishap, FlowInv, MailInv, Left
<1>4. RowInv' /\ MergeSparesCampaign'
  BY DEF SendFails, Throws, CampaignMishap, RequestsUnchanged, contactTables, FlowInv, RowInv,
     MergeSparesCampaign, Left
<1>5. MergeTypeOK' /\ LockInv'
  BY MergesBeside DEF SendFails, Throws, CampaignMishap, RequestsUnchanged, contactTables,
     FlowInv, Left
<1> QED
  BY <1>1, <1>2, <1>3, <1>4, <1>5

(* A step of a merge that writes nothing but locks.                         *)
LEMMA OnlyLocksMove ==
  ASSUME CampaignInv, CampaignUnchanged, RowsUnchanged, UNCHANGED gone,
         campaignMishaps' \in {campaignMishaps} \/ CampaignMishap,
         locks' \in [Contacts -> {"none", "held", "expired"}]
  PROVE  CampaignTypeOK' /\ FlowInv' /\ MailInv' /\ RowInv' /\ MergeSparesCampaign'
<1> USE CampaignAssumption DEF CampaignInv, CampaignTypeOK, CampaignUnchanged, RowsUnchanged
<1>1. CampaignTypeOK'
  BY DEF CampaignMishap
<1>2. FlowInv' /\ MailInv'
  BY DEF FlowInv, MailInv, Left
<1>3. RowInv' /\ MergeSparesCampaign'
  BY DEF RowInv, MergeSparesCampaign
<1> QED
  BY <1>1, <1>2, <1>3

LEMMA StartMergeKeepsInv ==
  ASSUME CampaignInv, NEW m \in Merges, StartMerge(m)
  PROVE  CampaignInv'
<1> USE DEF CampaignInv, MergeTypeOK
<1>1. UNCHANGED <<flow, loaded, sentSteps, unmarked, locks, gone, campaignMishaps>>
  BY DEF StartMerge, CampaignUnchanged, contactTables
<1>2. CampaignTypeOK' /\ FlowInv' /\ MailInv' /\ RowInv' /\ MergeSparesCampaign'
  BY <1>1, OnlyLocksMove DEF StartMerge, CampaignTypeOK
<1>3. MergeTypeOK'
  BY DEF StartMerge, Step
<1>4. \A n \in Merges : merge'[n] \in Underway => merge[n] = merge'[n] /\ Both(n)' = Both(n)
  BY DEF StartMerge, Step, Underway, Both
<1>5. LockInv'
  BY <1>1, <1>4 DEF LockInv, Underway, Left
<1> QED
  BY <1>2, <1>3, <1>5

LEMMA LockKeepsInv ==
  ASSUME CampaignInv, NEW m \in Merges, Lock(m)
  PROVE  CampaignInv'
<1> USE DEF CampaignInv, MergeTypeOK
<1>1. UNCHANGED <<pair, flow, loaded, sentSteps, unmarked, gone, campaignMishaps>>
  BY DEF Lock, CampaignUnchanged
<1>2. locks' \in [Contacts -> {"none", "held", "expired"}]
  BY DEF Lock, CampaignTypeOK
<1>3. CampaignTypeOK' /\ FlowInv' /\ MailInv' /\ RowInv' /\ MergeSparesCampaign'
  BY <1>1, <1>2, OnlyLocksMove DEF Lock
<1>4. MergeTypeOK'
  BY DEF Lock, Step, Underway
<1>5. \A n \in Merges : Both(n)' = Both(n) /\ Both(n) \subseteq Contacts
  BY <1>1 DEF Both, Pairs
<1>6. ASSUME \A c \in Both(m) : locks[c] = "none"
      PROVE  LockInv'
  <2>1. merge' = [merge EXCEPT ![m] = "check"]
        /\ locks' = [c \in Contacts |-> IF c \in Both(m) THEN "held" ELSE locks[c]]
    BY <1>6 DEF Lock, Step
  <2>2. merge'[m] \in Underway \ {"commit"} /\ \A n \in Merges \ {m} : merge'[n] = merge[n]
    BY <2>1 DEF Underway
  <2>3. \A n \in Merges \ {m} : merge[n] \in Underway => Both(n) \cap Both(m) = {}
    BY <1>6 DEF LockInv
  <2>4. \A n \in Merges : merge'[n] \in Underway => \A c \in Both(n) : locks'[c] = "held"
    BY <1>5, <2>1, <2>2, <2>3 DEF LockInv
  <2> QED
    BY <1>1, <1>5, <2>2, <2>3, <2>4 DEF LockInv, Left
<1>7. ASSUME ~ \A c \in Both(m) : locks[c] = "none"
      PROVE  LockInv'
  <2>1. merge' = [merge EXCEPT ![m] = "idle"] /\ UNCHANGED locks
    BY <1>7 DEF Lock, Step
  <2> QED
    BY <1>1, <1>5, <2>1 DEF LockInv, Underway, Left
<1> QED
  BY <1>3, <1>4, <1>6, <1>7

(* It finds no row of the two, so none of those still to be mailed.         *)
LEMMA CheckCampaignKeepsInv ==
  ASSUME CampaignInv, NEW m \in Merges, CheckCampaign(m)
  PROVE  CampaignInv'
<1> USE DEF CampaignInv, MergeTypeOK
<1>1. UNCHANGED <<pair, flow, loaded, sentSteps, unmarked, locks, gone, campaignMishaps>>
  BY DEF CheckCampaign, CampaignUnchanged, contactTables
<1>2. CampaignTypeOK' /\ FlowInv' /\ MailInv' /\ RowInv' /\ MergeSparesCampaign'
  BY <1>1, OnlyLocksMove DEF CheckCampaign, CampaignTypeOK
<1>3. MergeTypeOK'
  BY DEF CheckCampaign, Step, Underway
<1>4. \A n \in Merges : Both(n)' = Both(n)
  BY <1>1 DEF Both
<1>5. \A n \in Merges : merge'[n] \in Underway => merge[n] \in Underway
  BY DEF CheckCampaign, Step, Underway
<1>6. ASSUME merge'[m] = "commit", flow = "send", ~unmarked
      PROVE  Both(m) \cap Left = {}
  <2>1. ~ ActiveCampaign(m)
    BY <1>6 DEF CheckCampaign, Step
  <2>2. \A c \in Both(m) : recipient[c] = "none"
    BY <1>6, <2>1 DEF ActiveCampaign, FlowInv
  <2> QED
    BY <1>6, <2>2 DEF MergeSparesCampaign, RowInv, Left
<1>7. \A n \in Merges \ {m} : merge'[n] = merge[n]
  BY DEF CheckCampaign, Step
<1>8. LockInv'
  BY <1>1, <1>4, <1>5, <1>6, <1>7 DEF LockInv, Left
<1> QED
  BY <1>2, <1>3, <1>8

(* It moves no row the workflow has still to mail, unless a PATCH hid the   *)
(* campaign; and wherever a row goes, rowAt follows it.                     *)
LEMMA CommitKeepsInv ==
  ASSUME CampaignInv, NEW m \in Merges, Commit(m)
  PROVE  CampaignInv'
<1> USE DEF CampaignInv, MergeTypeOK
<1> DEFINE keep == pair[m][1]
           discard == pair[m][2]
           to == IF recipient[keep] = "none" THEN {keep} ELSE {}
<1>1. UNCHANGED <<pair, locks, campaign, request, toInsert, flow, loaded, sentSteps,
                  sending, tries, mails, lost, unmarked, campaignMishaps>>
  BY DEF Commit, CampaignUnchanged
<1>2. /\ keep \in Contacts /\ discard \in Contacts /\ keep # discard
      /\ Both(m) = {keep, discard}
  BY DEF Pairs, Both
<1>3. gone' = gone \cup {discard}
  BY DEF Commit
<1>4. /\ \A c \in Contacts :
           recipient'[c] = CASE c = discard -> "none"
                             [] c \in to -> recipient[discard]
                             [] OTHER -> recipient[c]
      /\ \A c \in Contacts :
           rowAt'[c] = IF discard \in rowAt[c]
                       THEN (rowAt[c] \ {discard}) \cup to ELSE rowAt[c]
  BY DEF Commit
<1>5. merge[m] = "commit" /\ merge' = [merge EXCEPT ![m] = "release"]
  BY DEF Commit, Step
<1>6. flow = "send" /\ ~unmarked => keep \notin Left /\ discard \notin Left
  BY <1>2, <1>5 DEF LockInv
<1>7. /\ to \subseteq {keep} /\ (keep \in to => recipient[keep] = "none")
      /\ to \subseteq Contacts
  BY <1>2
<1>8. recipient' \in [Contacts -> {"none", "pending", "sent", "failed"}]
      /\ rowAt' \in [Contacts -> SUBSET Contacts]
  BY <1>2, <1>7 DEF Commit, CampaignTypeOK
<1>8a. recipient'[discard] = "none"
  BY <1>2 DEF Commit
<1> HIDE DEF keep, discard, to
<1>9. CampaignTypeOK'
  BY <1>1, <1>2, <1>3, <1>8 DEF CampaignTypeOK
<1>10. MergeTypeOK'
  BY <1>1, <1>5 DEF Underway
<1>11. FlowInv' /\ MailInv'
  BY <1>1 DEF FlowInv, MailInv, Left
<1>12. RowInv'
  <2>1. ASSUME NEW c \in loaded, NEW d \in rowAt'[c]
        PROVE  \E e \in rowAt[c] : recipient'[d] = recipient[e]
    <3>1. c \in Contacts /\ d \in Contacts
      BY <1>8 DEF CampaignTypeOK
    <3>2. CASE d \in rowAt[c] /\ d # discard
      <4>1. recipient[d] # "none"
        BY <3>2 DEF RowInv
      <4>2. d \notin to
        BY <1>7, <4>1
      <4> QED
        BY <1>4, <3>1, <3>2, <4>2
    <3>3. CASE discard \in rowAt[c] /\ d \in to
      <4>1. d # discard
        BY <1>2, <1>7, <3>3
      <4> QED
        BY <1>4, <3>1, <3>3, <4>1
    <3>4. discard \notin rowAt'[c]
      BY <1>2, <1>4, <1>7, <3>1
    <3> QED
      BY <1>4, <3>1, <3>2, <3>3, <3>4
  <2>2. sentSteps \subseteq loaded
    BY DEF CampaignTypeOK
  <2>3. ASSUME NEW d \in Contacts, recipient'[d] = "sent"
        PROVE  \E c \in loaded : d \in rowAt'[c] /\ mails[c] > 0
    <3>1. d # discard
      <4>1. recipient'[discard] = "none"
        BY <1>2, <1>8a
      <4> QED
        BY <2>3, <4>1
    <3>2. CASE d \in to
      <4>1. recipient[discard] = "sent"
        BY <1>4, <2>3, <3>1, <3>2
      <4>2. PICK c \in loaded : discard \in rowAt[c] /\ mails[c] > 0
        BY <1>2, <4>1 DEF RowInv
      <4> QED
        BY <1>4, <3>2, <4>2 DEF CampaignTypeOK
    <3>3. CASE d \notin to
      <4>1. recipient[d] = "sent"
        BY <1>4, <2>3, <3>1, <3>3
      <4>2. PICK c \in loaded : d \in rowAt[c] /\ mails[c] > 0
        BY <4>1 DEF RowInv
      <4> QED
        BY <1>4, <3>1, <4>2 DEF CampaignTypeOK
    <3> QED
      BY <3>2, <3>3
  <2>4. \A c \in sentSteps : \A d \in rowAt'[c] : recipient'[d] \in {"sent", "failed"}
    BY <2>1, <2>2 DEF RowInv
  <2>5. \A c \in loaded : \A d \in rowAt'[c] : recipient'[d] # "none"
    BY <2>1 DEF RowInv
  <2> QED
    BY <1>1, <2>3, <2>4, <2>5 DEF RowInv
<1>13. MergeSparesCampaign'
  <2>1. ASSUME flow = "send", ~unmarked, NEW c \in Left
        PROVE  c \notin gone' /\ rowAt'[c] = {c}
    <3>1. c \notin gone /\ rowAt[c] = {c} /\ c # discard /\ c \in Contacts
      BY <1>6, <2>1 DEF MergeSparesCampaign, Left, CampaignTypeOK
    <3> QED
      BY <1>3, <1>4, <3>1
  <2> QED
    BY <1>1, <2>1 DEF MergeSparesCampaign, Left
<1>14. LockInv'
  <2>1. \A n \in Merges : Both(n)' = Both(n)
    BY <1>1 DEF Both
  <2> QED
    BY <1>1, <1>5, <2>1 DEF LockInv, Underway, Left
<1> QED
  BY <1>9, <1>10, <1>11, <1>12, <1>13, <1>14

(* A merge stops, with or without its locks.                                *)
LEMMA MergeEndsKeepInv ==
  ASSUME CampaignInv, NEW m \in Merges, CommitFails(m) \/ Release(m) \/ MergeDies(m)
  PROVE  CampaignInv'
<1> USE DEF CampaignInv, MergeTypeOK
<1>1. /\ UNCHANGED <<pair, flow, loaded, sentSteps, unmarked, gone>>
      /\ CampaignUnchanged /\ RowsUnchanged
  BY DEF CommitFails, Release, MergeDies, CampaignUnchanged, contactTables
<1>2. \A n \in Merges : Both(n)' = Both(n) /\ Both(n) \subseteq Contacts
  BY <1>1 DEF Both, Pairs
<1>3. /\ merge[m] \in Underway
      /\ \/ merge' = [merge EXCEPT ![m] = "idle"]
         \/ merge' = [merge EXCEPT ![m] = "refused"] /\ UNCHANGED locks
  BY DEF CommitFails, Release, MergeDies, Step, Underway, contactTables
<1>4. \/ UNCHANGED locks
      \/ locks' = [c \in Contacts |-> IF c \in Both(m) THEN "none" ELSE locks[c]]
  BY DEF CommitFails, Release, MergeDies, contactTables
<1>5. locks' \in [Contacts -> {"none", "held", "expired"}]
  BY <1>4 DEF CampaignTypeOK
<1>6. CampaignTypeOK' /\ FlowInv' /\ MailInv' /\ RowInv' /\ MergeSparesCampaign'
  <2>1. campaignMishaps' = campaignMishaps \/ CampaignMishap
    BY DEF CommitFails, Release, MergeDies
  <2> QED
    BY <1>1, <1>5, <2>1, OnlyLocksMove
<1>7. MergeTypeOK'
  BY <1>1, <1>3 DEF Underway
<1>8. LockInv'
  BY <1>1, <1>2, <1>3, <1>4 DEF LockInv, Underway, Left
<1> QED
  BY <1>6, <1>7, <1>8

LEMMA CronKeepsInv ==
  ASSUME CampaignInv, CleanupLocks \/ \E c \in Contacts : LockExpires(c)
  PROVE  CampaignInv'
<1> USE DEF CampaignInv, MergeTypeOK
<1>1. /\ UNCHANGED <<merge, pair, flow, loaded, sentSteps, unmarked, gone, campaignMishaps>>
      /\ CampaignUnchanged /\ RowsUnchanged
  BY DEF CleanupLocks, LockExpires, CampaignUnchanged
<1>2. \A n \in Merges : Both(n)' = Both(n) /\ Both(n) \subseteq Contacts
  BY <1>1 DEF Both, Pairs
<1>3. locks' \in [Contacts -> {"none", "held", "expired"}]
  BY DEF CleanupLocks, LockExpires, CampaignTypeOK
<1>4. CampaignTypeOK' /\ FlowInv' /\ MailInv' /\ RowInv' /\ MergeSparesCampaign'
  BY <1>1, <1>3, OnlyLocksMove
<1>5. \A n \in Merges : merge[n] \in Underway => \A c \in Both(n) : locks'[c] = "held"
  BY <1>2 DEF CleanupLocks, LockExpires, LockInv, CampaignTypeOK
<1>6. LockInv'
  BY <1>1, <1>2, <1>5 DEF LockInv, Left
<1> QED
  BY <1>1, <1>4, <1>6

LEMMA CampaignStepInv ==
  ASSUME CampaignInv,
         [(CampaignNext /\ UNCHANGED mergeVars) \/ MergeNext]_<<campaignVars, mergeVars>>
  PROVE  CampaignInv'
<1>1. CASE UNCHANGED <<campaignVars, mergeVars>>
  BY <1>1 DEF campaignVars, mergeVars, contactTables, CampaignInv, CampaignTypeOK,
     MergeTypeOK, FlowInv, MailInv, RowInv, LockInv, MergeSparesCampaign, Left, Both
<1>2. CASE CampaignNext /\ UNCHANGED mergeVars
  BY <1>2, RequestStepInv, UpdateCampaignKeepsInv, TriggerKeepsInv, LoadCampaignKeepsInv,
     LoadRecipientsKeepsInv,
     SentAllKeepsInv, FinalizeKeepsInv, FlowErrorsKeepsInv, EngineRestartsKeepsInv,
     BeginSendKeepsInv, AcceptedKeepsInv, RateLimitedKeepsInv, RejectedKeepsInv,
     RecordSentKeepsInv, SendFailsKeepsInv
  DEF CampaignNext
<1>3. CASE MergeNext
  BY <1>3, StartMergeKeepsInv, LockKeepsInv, CheckCampaignKeepsInv, CommitKeepsInv,
     MergeEndsKeepInv, CronKeepsInv
  DEF MergeNext
<1> QED
  BY <1>1, <1>2, <1>3

LEMMA CampaignInvImplies ==
  CampaignInv => /\ CampaignTypeOK /\ MergeTypeOK /\ MergeSparesCampaign
                 /\ CampaignMailedOnce /\ CampaignAccounts
BY DEF CampaignInv, CampaignTypeOK, FlowInv, MailInv, RowInv, CampaignMailedOnce, CampaignAccounts

(* Every variable of the campaign and of the merges keeps its type; the     *)
(* attempts of a step stay within its retries.                              *)
THEOREM CampaignTypeCorrect == CampaignSpec => [](CampaignTypeOK /\ MergeTypeOK)
<1>1. CampaignInv => CampaignTypeOK /\ MergeTypeOK
  BY CampaignInvImplies
<1> QED
  BY <1>1, CampaignInitInv, CampaignStepInv, PTL DEF CampaignSpec

(* No merge takes a contact, or its row, from a workflow that has still to  *)
(* mail it, unless a PATCH took the campaign's mark away while it loaded or *)
(* sent.                                                                    *)
THEOREM CampaignSpared == CampaignSpec => []MergeSparesCampaign
<1>1. CampaignInv => MergeSparesCampaign
  BY CampaignInvImplies
<1> QED
  BY <1>1, CampaignInitInv, CampaignStepInv, PTL DEF CampaignSpec

(* A contact gets one mail, and one more for each attempt that died between *)
(* Outlook's answer and the end of its step.                                *)
THEOREM MailedOnce == CampaignSpec => []CampaignMailedOnce
<1>1. CampaignInv => CampaignMailedOnce
  BY CampaignInvImplies
<1> QED
  BY <1>1, CampaignInitInv, CampaignStepInv, PTL DEF CampaignSpec

(* When the workflow is done every row it loaded that is still there says   *)
(* 'sent' or 'failed', and none says 'sent' of a mail Outlook did not take, *)
(* whatever merges moved and PATCHes wrote.                                 *)
THEOREM Accounted == CampaignSpec => []CampaignAccounts
<1>1. CampaignInv => CampaignAccounts
  BY CampaignInvImplies
<1> QED
  BY <1>1, CampaignInitInv, CampaignStepInv, PTL DEF CampaignSpec

------------------------------------------------------------------------------
(* The invariant of a backfill.                                             *)

(* A window with handler h, n transcripts counted and the set t stored: the *)
(* count, with what the handler still has to add to it, is no more than     *)
(* what is there.                                                           *)
WindowOK(h, n, t) ==
  /\ n <= Cardinality(t)
  /\ h # NoRun =>
       /\ h.ingested + h.failed <= h.skip
       /\ h.step = "parent" => h.ingested = 0 /\ h.failed = 0
       /\ h.step \in {"parent", "ingest", "legacy"} => n + h.ingested <= Cardinality(t)

WindowsOK == \A i \in Windows : WindowOK(handler[i], counted[i], stored[i])

(* Nothing runs, or has said anything of a window, before the rows are      *)
(* there.                                                                   *)
BeforeQueue ==
  creator \in {"idle", "windows"} =>
    \A i \in Windows : legacy[i] = "none" /\ status[i] = "absent" /\ handler[i] = NoRun

FireflyInv == FireflyTypeOK /\ WindowsOK /\ BeforeQueue

LEMMA StoredFinite ==
  ASSUME NEW t \in SUBSET Transcripts
  PROVE  IsFiniteSet(t) /\ Cardinality(t) \in Nat
<1>1. IsFiniteSet(Transcripts)
  BY FireflyAssumption, FS_Interval DEF Transcripts
<1> QED
  BY <1>1, FS_Subset, FS_CardinalityType

(* A handler is not NoRun.                                                  *)
LEMMA RunIsRun == \A h \in Handlers : h # NoRun
BY FireflyAssumption

LEMMA FireflyInitInv == FireflyInit => FireflyInv
<1> SUFFICES ASSUME FireflyInit
             PROVE  FireflyInv
  OBVIOUS
<1>1. FireflyTypeOK
  BY FireflyAssumption, WorkQueueRowsAssumption
  DEF FireflyInit, FireflyTypeOK, RowInit, RowTypeOK, Statuses, NoLease
<1>2. WindowsOK
  BY FS_EmptySet DEF FireflyInit, WindowsOK, WindowOK
<1>3. BeforeQueue
  BY DEF FireflyInit, RowInit, BeforeQueue, Windows
<1> QED
  BY <1>1, <1>2, <1>3 DEF FireflyInv

(* A statement on a row concerns no other part of the invariant once the    *)
(* rows are there.                                                          *)
LEMMA RowsMove ==
  ASSUME FireflyInv, RowTypeOK',
         fireflyMishaps' \in 0..MaxFireflyMishaps, toQueue' \subseteq Windows,
         UNCHANGED <<parent, legacy, counted, cursor, stored, handler, creator, monitor,
                     canceller>>,
         UNCHANGED status \/ creator \notin {"idle", "windows"}
  PROVE  FireflyInv'
<1>1. FireflyTypeOK'
  BY DEF FireflyInv, FireflyTypeOK
<1>2. WindowsOK'
  BY DEF FireflyInv, WindowsOK
<1>3. BeforeQueue'
  BY DEF FireflyInv, BeforeQueue
<1> QED
  BY <1>1, <1>2, <1>3 DEF FireflyInv

(* A step of one window's handler.                                          *)
LEMMA WindowMoves ==
  ASSUME FireflyInv, NEW i \in Windows, creator \notin {"idle", "windows"},
         NEW h \in Handlers \cup {NoRun}, NEW n \in Nat, NEW t \in SUBSET Transcripts,
         WindowOK(h, n, t),
         handler' = [handler EXCEPT ![i] = h],
         counted' = [counted EXCEPT ![i] = n],
         stored' = [stored EXCEPT ![i] = t],
         RowTypeOK',
         legacy' \in [Windows -> {"none", "pending", "completed", "failed"}],
         cursor' \in [Windows -> 0..Listed],
         fireflyMishaps' \in 0..MaxFireflyMishaps,
         OthersUnchanged
  PROVE  FireflyInv'
<1>1. FireflyTypeOK'
  BY DEF FireflyInv, FireflyTypeOK, OthersUnchanged
<1>2. WindowsOK'
  <2>1. handler'[i] = h /\ counted'[i] = n /\ stored'[i] = t
    BY DEF FireflyInv, FireflyTypeOK
  <2>2. \A j \in Windows \ {i} :
          handler'[j] = handler[j] /\ counted'[j] = counted[j] /\ stored'[j] = stored[j]
    BY DEF FireflyInv, FireflyTypeOK
  <2>3. \A j \in Windows \ {i} : WindowOK(handler'[j], counted'[j], stored'[j])
    BY <2>2 DEF FireflyInv, WindowsOK
  <2> QED
    BY <2>1, <2>3 DEF WindowsOK
<1>3. BeforeQueue'
  BY DEF BeforeQueue, OthersUnchanged
<1> QED
  BY <1>1, <1>2, <1>3 DEF FireflyInv

(* What a running handler's window is like.                                 *)
LEMMA RunningFacts ==
  ASSUME FireflyInv, NEW i \in Windows, handler[i] # NoRun
  PROVE  /\ handler[i] \in Handlers
         /\ creator \notin {"idle", "windows"}
         /\ counted[i] \in Nat /\ stored[i] \in SUBSET Transcripts /\ cursor[i] \in 0..Listed
         /\ Cardinality(stored[i]) \in Nat /\ IsFiniteSet(stored[i])
         /\ WindowOK(handler[i], counted[i], stored[i])
         /\ counted = [counted EXCEPT ![i] = counted[i]]
         /\ stored = [stored EXCEPT ![i] = stored[i]]
         /\ handler[i].skip \in 0..Listed /\ handler[i].ingested \in 0..Listed
         /\ handler[i].failed \in 0..Listed
         /\ RowTypeOK
<1>1. handler[i] \in Handlers
  BY DEF FireflyInv, FireflyTypeOK
<1>2. creator \notin {"idle", "windows"}
  BY DEF FireflyInv, BeforeQueue
<1>3. stored[i] \in SUBSET Transcripts
  BY DEF FireflyInv, FireflyTypeOK
<1>4. Cardinality(stored[i]) \in Nat /\ IsFiniteSet(stored[i])
  BY <1>3, StoredFinite
<1>5. handler[i].skip \in 0..Listed /\ handler[i].ingested \in 0..Listed
      /\ handler[i].failed \in 0..Listed
  BY <1>1 DEF Handlers
<1> QED
  BY <1>1, <1>2, <1>3, <1>4, <1>5 DEF FireflyInv, FireflyTypeOK, WindowsOK

(* A step that writes nothing of its window but what the handler holds.     *)
LEMMA OnlyHandlerMoves ==
  ASSUME FireflyInv, NEW i \in Windows, handler[i] # NoRun,
         NEW h \in Handlers \cup {NoRun}, handler' = [handler EXCEPT ![i] = h],
         WindowOK(h, counted[i], stored[i]),
         UNCHANGED <<counted, stored>>, RowTypeOK',
         legacy' \in [Windows -> {"none", "pending", "completed", "failed"}],
         cursor' \in [Windows -> 0..Listed],
         fireflyMishaps' \in 0..MaxFireflyMishaps,
         OthersUnchanged
  PROVE  FireflyInv'
<1>1. /\ counted[i] \in Nat /\ stored[i] \in SUBSET Transcripts
      /\ counted' = [counted EXCEPT ![i] = counted[i]]
      /\ stored' = [stored EXCEPT ![i] = stored[i]]
      /\ creator \notin {"idle", "windows"}
  BY RunningFacts
<1> QED
  BY <1>1, WindowMoves

LEMMA UnchangedTypes ==
  ASSUME FireflyInv
  PROVE  /\ UNCHANGED row => RowTypeOK'
         /\ UNCHANGED legacy => legacy' \in [Windows -> {"none", "pending", "completed", "failed"}]
         /\ UNCHANGED cursor => cursor' \in [Windows -> 0..Listed]
         /\ UNCHANGED fireflyMishaps => fireflyMishaps' \in 0..MaxFireflyMishaps
         /\ Mishap => fireflyMishaps' \in 0..MaxFireflyMishaps
BY UnchangedRow, FireflyAssumption DEF FireflyInv, FireflyTypeOK, Mishap

LEMMA ClaimWindowKeepsInv ==
  ASSUME FireflyInv, NEW i \in Windows, ClaimWindow(i)
  PROVE  FireflyInv'
<1>1. status[i] = "pending" /\ handler[i] = NoRun
  BY DEF ClaimWindow, Claimable
<1>2. creator \notin {"idle", "windows"}
  BY <1>1 DEF FireflyInv, BeforeQueue
<1>3. /\ counted[i] \in Nat /\ stored[i] \in SUBSET Transcripts
      /\ counted' = [counted EXCEPT ![i] = counted[i]]
      /\ stored' = [stored EXCEPT ![i] = stored[i]]
  BY DEF FireflyInv, FireflyTypeOK, ClaimWindow
<1>4. Fresh \in Handlers /\ handler' = [handler EXCEPT ![i] = Fresh]
  BY FireflyAssumption DEF ClaimWindow, Fresh, Handlers, Results
<1>5. WindowOK(Fresh, counted[i], stored[i])
  <2>1. counted[i] <= Cardinality(stored[i])
    BY DEF FireflyInv, WindowsOK, WindowOK
  <2> QED
    BY <1>3, <2>1 DEF WindowOK, Fresh
<1>6. RowTypeOK'
  BY WorkQueueRowsAssumption
  DEF ClaimWindow, ClaimRows, FireflyInv, FireflyTypeOK, RowTypeOK, Statuses
<1>7. UNCHANGED <<legacy, cursor, fireflyMishaps>> /\ OthersUnchanged
  BY DEF ClaimWindow, OthersUnchanged
<1> HIDE DEF Fresh
<1> QED
  BY <1>2, <1>3, <1>4, <1>5, <1>6, <1>7, WindowMoves, UnchangedTypes

LEMMA ReadParentKeepsInv ==
  ASSUME FireflyInv, NEW i \in Windows, ReadParent(i)
  PROVE  FireflyInv'
<1>1. handler[i] # NoRun /\ handler[i].step = "parent"
  BY DEF ReadParent
<1>2. PICK s \in {"complete", "ingest", "fail"} :
        handler' = [handler EXCEPT ![i].step = s, ![i].skip = cursor[i]]
  BY DEF ReadParent
<1> DEFINE h == [handler[i] EXCEPT !.step = s, !.skip = cursor[i]]
<1>3. h \in Handlers /\ handler' = [handler EXCEPT ![i] = h]
  BY <1>1, <1>2, RunningFacts DEF Handlers, FireflyInv, FireflyTypeOK
<1>4. WindowOK(h, counted[i], stored[i])
  BY <1>1, RunningFacts DEF WindowOK, Handlers
<1>5. UNCHANGED <<row, legacy, cursor, counted, stored, fireflyMishaps>> /\ OthersUnchanged
  BY DEF ReadParent
<1> HIDE DEF h
<1> QED
  BY <1>1, <1>3, <1>4, <1>5, OnlyHandlerMoves, UnchangedTypes DEF row

(* The run of a window's transcripts ends.                                  *)
LEMMA RunEnds ==
  ASSUME FireflyInv, NEW i \in Windows, handler[i] # NoRun, handler[i].step = "ingest",
         NEW result \in Results, Returns(i, handler[i], result),
         UNCHANGED <<row, legacy, counted, cursor, stored>>, OthersUnchanged,
         UNCHANGED fireflyMishaps \/ Mishap
  PROVE  FireflyInv'
<1> DEFINE h == [handler[i] EXCEPT !.step = "legacy", !.result = result]
<1>1. h \in Handlers /\ handler' = [handler EXCEPT ![i] = h]
  BY RunningFacts DEF Handlers, Returns
<1>2. WindowOK(h, counted[i], stored[i])
  BY RunningFacts DEF WindowOK, Handlers
<1> HIDE DEF h
<1> QED
  BY <1>1, <1>2, OnlyHandlerMoves, UnchangedTypes DEF row

LEMMA IngestKeepsInv ==
  ASSUME FireflyInv, NEW i \in Windows, Ingest(i)
  PROVE  FireflyInv'
<1> DEFINE t == handler[i].skip + 1
           known == stored[i]
           n == handler[i].ingested + IF t \in known THEN 0 ELSE 1
           went == [handler[i] EXCEPT !.skip = t, !.ingested = n]
           back == [went EXCEPT !.step = "legacy", !.result = "paused"]
<1>1. handler[i] # NoRun /\ handler[i].step = "ingest" /\ handler[i].skip < Listed
  BY DEF Ingest
<1>2. PICK h \in {went, back} : handler' = [handler EXCEPT ![i] = h]
  BY DEF Ingest, Returns, IngestedAfter
<1>3. stored' = [stored EXCEPT ![i] = known \cup {t}]
  BY <1>1, RunningFacts DEF Ingest
<1>4. /\ t \in Transcripts /\ t \in 0..Listed /\ n \in 0..Listed
      /\ n + handler[i].failed <= t
  BY <1>1, RunningFacts, FireflyAssumption DEF Transcripts, WindowOK
<1>5. h \in Handlers
  BY <1>1, <1>4, RunningFacts DEF Handlers, Results
<1>6. Cardinality(known \cup {t}) = Cardinality(known) + IF t \in known THEN 0 ELSE 1
  <2>1. IsFiniteSet(known) /\ Cardinality(known) \in Nat
    BY <1>1, RunningFacts
  <2> HIDE DEF known, t
  <2>2. CASE t \in known
    <3>1. known \cup {t} = known
      BY <2>2
    <3>2. Cardinality(known \cup {t}) = Cardinality(known)
      BY <3>1, Zenon
    <3> QED
      BY <2>1, <2>2, <3>2
  <2>3. CASE t \notin known
    BY <2>1, <2>3, FS_AddElement
  <2> QED
    BY <2>2, <2>3
<1>7. WindowOK(h, counted[i], known \cup {t})
  <2>1. /\ counted[i] + handler[i].ingested <= Cardinality(known)
        /\ counted[i] <= Cardinality(known)
        /\ counted[i] \in Nat /\ Cardinality(known) \in Nat
        /\ handler[i].ingested \in Nat
    BY <1>1, RunningFacts DEF WindowOK
  <2>2. h.skip = t /\ h.ingested = n /\ h.failed = handler[i].failed
        /\ h.step \in {"ingest", "legacy"}
    BY <1>1, RunningFacts DEF Handlers
  <2>3. counted[i] + n <= Cardinality(known \cup {t})
    BY <1>6, <2>1
  <2>4. counted[i] <= Cardinality(known \cup {t})
    BY <1>6, <2>1
  <2> HIDE DEF t, n, went, back, known
  <2> QED
    BY <1>4, <2>2, <2>3, <2>4 DEF WindowOK
<1>8. /\ UNCHANGED <<row, legacy, counted, cursor, fireflyMishaps>> /\ OthersUnchanged
      /\ known \cup {t} \in SUBSET Transcripts
      /\ creator \notin {"idle", "windows"} /\ counted[i] \in Nat
      /\ counted = [counted EXCEPT ![i] = counted[i]]
  BY <1>1, <1>4, RunningFacts DEF Ingest
<1> HIDE DEF t, n, went, back, known
<1> QED
  BY <1>2, <1>3, <1>5, <1>7, <1>8, WindowMoves, UnchangedTypes DEF row

LEMMA IngestFailsKeepsInv ==
  ASSUME FireflyInv, NEW i \in Windows, IngestFails(i)
  PROVE  FireflyInv'
<1> DEFINE t == handler[i].skip + 1
           went == [handler[i] EXCEPT !.skip = t, !.failed = @ + 1]
           back == [went EXCEPT !.step = "legacy", !.result = "paused"]
<1>1. handler[i] # NoRun /\ handler[i].step = "ingest" /\ handler[i].skip < Listed
  BY DEF IngestFails
<1>2. PICK h \in {went, back} : handler' = [handler EXCEPT ![i] = h]
  BY DEF IngestFails, Returns
<1>3. /\ t \in 0..Listed /\ handler[i].failed + 1 \in 0..Listed
      /\ handler[i].ingested + (handler[i].failed + 1) <= t
  BY <1>1, RunningFacts, FireflyAssumption DEF WindowOK
<1>4. h \in Handlers
  BY <1>1, <1>3, RunningFacts DEF Handlers, Results
<1>5. WindowOK(h, counted[i], stored[i])
  <2>1. h.skip = t /\ h.ingested = handler[i].ingested /\ h.failed = handler[i].failed + 1
        /\ h.step \in {"ingest", "legacy"}
    BY <1>1, RunningFacts DEF Handlers
  <2> HIDE DEF t, went, back
  <2> QED
    BY <1>1, <1>3, <2>1, RunningFacts DEF WindowOK
<1>6. UNCHANGED <<row, legacy, counted, cursor, stored>> /\ OthersUnchanged /\ Mishap
  BY DEF IngestFails
<1> HIDE DEF t, went, back
<1> QED
  BY <1>1, <1>2, <1>4, <1>5, <1>6, OnlyHandlerMoves, UnchangedTypes DEF row

LEMMA WriteLegacyKeepsInv ==
  ASSUME FireflyInv, NEW i \in Windows, WriteLegacy(i)
  PROVE  FireflyInv'
<1>1. handler[i] # NoRun /\ handler[i].step = "legacy"
  BY DEF WriteLegacy
<1> DEFINE h == [handler[i] EXCEPT !.step = AfterLegacy(handler[i])]
           n == counted'[i]
<1>2. h \in Handlers /\ h.step \in {"complete", "fail", "defer"}
      /\ handler' = [handler EXCEPT ![i] = h]
  <2>1. AfterLegacy(handler[i]) \in {"complete", "fail", "defer"}
    BY DEF AfterLegacy
  <2> QED
    BY <1>1, <2>1, RunningFacts DEF Handlers, WriteLegacy
<1>3. /\ n \in {counted[i], counted[i] + handler[i].ingested}
      /\ counted' = [counted EXCEPT ![i] = n]
  BY DEF WriteLegacy, FireflyInv, FireflyTypeOK
<1>4. n \in Nat /\ n <= Cardinality(stored[i])
  BY <1>1, <1>3, RunningFacts DEF WindowOK
<1>5. WindowOK(h, n, stored[i])
  <2>1. h.ingested = handler[i].ingested /\ h.failed = handler[i].failed
        /\ h.skip = handler[i].skip
    BY <1>1, RunningFacts DEF Handlers
  <2> HIDE DEF h, n
  <2> QED
    BY <1>1, <1>2, <1>4, <2>1, RunningFacts DEF WindowOK
<1>6. legacy' \in [Windows -> {"none", "pending", "completed", "failed"}]
  BY DEF WriteLegacy, FireflyInv, FireflyTypeOK
<1>7. /\ UNCHANGED <<row, cursor, stored, fireflyMishaps>> /\ OthersUnchanged
      /\ creator \notin {"idle", "windows"}
      /\ stored[i] \in SUBSET Transcripts
      /\ stored' = [stored EXCEPT ![i] = stored[i]]
  BY <1>1, RunningFacts DEF WriteLegacy
<1> HIDE DEF h, n
<1> QED
  BY <1>2, <1>3, <1>4, <1>5, <1>6, <1>7, WindowMoves, UnchangedTypes DEF row

(* The handler goes on to a step that counts nothing any more.              *)
LEMMA StepsOn ==
  ASSUME FireflyInv, NEW i \in Windows, handler[i] # NoRun,
         NEW s \in {"complete", "fail"}, handler' = [handler EXCEPT ![i].step = s],
         UNCHANGED <<legacy, counted, stored>>, RowTypeOK',
         cursor' \in [Windows -> 0..Listed],
         UNCHANGED fireflyMishaps \/ Mishap, OthersUnchanged
  PROVE  FireflyInv'
<1> DEFINE h == [handler[i] EXCEPT !.step = s]
<1>1. h \in Handlers /\ handler' = [handler EXCEPT ![i] = h]
  BY RunningFacts DEF Handlers
<1>2. WindowOK(h, counted[i], stored[i])
  BY RunningFacts DEF WindowOK, Handlers
<1> HIDE DEF h
<1> QED
  BY <1>1, <1>2, OnlyHandlerMoves, UnchangedTypes

LEMMA DeferKeepsInv ==
  ASSUME FireflyInv, NEW i \in Windows, Defer(i)
  PROVE  FireflyInv'
<1>1. handler[i] # NoRun /\ handler' = [handler EXCEPT ![i].step = "complete"]
  BY DEF Defer
<1>2. RowTypeOK'
  <2>1. 0 \in Nat /\ 1 \in Nat /\ RowTypeOK
    BY DEF FireflyInv, FireflyTypeOK
  <2> QED
    BY <2>1, TransitionType DEF Defer, Windows
<1>3. cursor' \in [Windows -> 0..Listed]
  BY <1>1, RunningFacts DEF Defer, FireflyInv, FireflyTypeOK
<1> QED
  BY <1>1, <1>2, <1>3, StepsOn DEF Defer

(* The handler is over.                                                     *)
LEMMA HandlerEnds ==
  ASSUME FireflyInv, NEW i \in Windows, EndWindow(i) \/ HandlerDies(i)
  PROVE  FireflyInv'
<1>1. handler[i] # NoRun /\ handler' = [handler EXCEPT ![i] = NoRun]
  BY DEF EndWindow, HandlerDies
<1>2. RowTypeOK'
  <2>1. RowTypeOK /\ attempt[i] \in Nat
    BY DEF FireflyInv, FireflyTypeOK, RowTypeOK, Windows
  <2> QED
    BY <2>1, TransitionType, UnchangedRow DEF EndWindow, HandlerDies, Windows
<1>3. WindowOK(NoRun, counted[i], stored[i])
  BY <1>1, RunningFacts DEF WindowOK
<1>4. UNCHANGED <<legacy, counted, cursor, stored>> /\ OthersUnchanged
      /\ (UNCHANGED fireflyMishaps \/ Mishap)
  BY DEF EndWindow, HandlerDies
<1> QED
  BY <1>1, <1>2, <1>3, <1>4, OnlyHandlerMoves, UnchangedTypes

(* Creation, monitor and cancel.                                            *)
LEMMA PartiesKeepInv ==
  ASSUME FireflyInv,
         \/ CreateParent \/ CreatorStep \/ CreatorDies
         \/ CancelFind \/ CancelParent \/ CancelWindows \/ CancellerDies
         \/ MonitorStep \/ MonitorDies
  PROVE  FireflyInv'
<1> USE DEF FireflyInv, FireflyTypeOK
<1>1. UNCHANGED <<counted, cursor, stored, handler>>
  BY DEF CreateParent, CreatorStep, CreateWindows, Created, QueueWindow, CreatorDies,
     CancelFind, CancelParent, CancelWindows, CancellerDies, MonitorStep, MonitorFind,
     MonitorCount, FinalizeCount, FinalizeParent, MonitorDies
<1>2. RowTypeOK' /\ (UNCHANGED row \/ creator = "queue")
  <2>1. CASE UNCHANGED row
    BY <2>1, UnchangedRow
  <2>2. ASSUME NEW i \in Windows, NEW w \in {0, 1}, Insert(i, w), creator = "queue"
        PROVE  RowTypeOK' /\ (UNCHANGED row \/ creator = "queue")
    BY <2>2 DEF Insert, RowTypeOK, Statuses, Windows
  <2> QED
    BY <2>1, <2>2 DEF CreateParent, CreatorStep, CreateWindows, Created, QueueWindow,
       CreatorDies, CancelFind, CancelParent, CancelWindows, CancellerDies, MonitorStep,
       MonitorFind, MonitorCount, FinalizeCount, FinalizeParent, MonitorDies
<1>3. /\ parent' \in {"none", "active", "cancelled"} \cup Finals
      /\ legacy' \in [Windows -> {"none", "pending", "completed", "failed"}]
      /\ creator' \in {"idle", "windows", "queue", "done"}
      /\ toQueue' \subseteq Windows
      /\ monitor' \in {"idle", "count", "verdict"} \cup Finals
      /\ canceller' \in {"idle", "parent", "windows"}
  BY DEF CreateParent, CreatorStep, CreateWindows, Created, QueueWindow, CreatorDies,
     CancelFind, CancelParent, CancelWindows, CancellerDies, MonitorStep, MonitorFind,
     MonitorCount, FinalizeCount, FinalizeParent, MonitorDies, Finals
<1>4. fireflyMishaps' \in 0..MaxFireflyMishaps
  BY UnchangedTypes
  DEF CreateParent, CreatorStep, CreateWindows, Created, QueueWindow, CreatorDies,
     CancelFind, CancelParent, CancelWindows, CancellerDies, MonitorStep, MonitorFind,
     MonitorCount, FinalizeCount, FinalizeParent, MonitorDies
<1>5. FireflyTypeOK'
  BY <1>1, <1>2, <1>3, <1>4
<1>6. WindowsOK'
  BY <1>1 DEF WindowsOK
<1>7. BeforeQueue'
  <2>1. creator' \in {"idle", "windows"} =>
          /\ creator \in {"idle", "windows"}
          /\ \/ UNCHANGED legacy
             \/ legacy' = [i \in Windows |-> IF legacy[i] = "pending" THEN "failed"
                                             ELSE legacy[i]]
    BY DEF CreateParent, CreatorStep, CreateWindows, Created, QueueWindow, CreatorDies,
     CancelFind, CancelParent, CancelWindows, CancellerDies, MonitorStep, MonitorFind,
     MonitorCount, FinalizeCount, FinalizeParent, MonitorDies
  <2>2. creator' \in {"idle", "windows"} => \A i \in Windows : legacy'[i] = "none"
    BY <2>1 DEF BeforeQueue
  <2> QED
    BY <1>1, <1>2, <2>1, <2>2 DEF BeforeQueue, row
<1> QED
  BY <1>5, <1>6, <1>7

(* The watchdog, the hourly repair and the clock.                           *)
LEMMA KeepersKeepInv ==
  ASSUME FireflyInv, FireflyTick \/ \E i \in Windows : SweepWindow(i) \/ RepairWindow(i)
  PROVE  FireflyInv'
<1>0. RowTypeOK
  BY DEF FireflyInv, FireflyTypeOK
<1>1. CASE FireflyTick
  <2>1. RowTypeOK' /\ UNCHANGED status
    BY <1>0, <1>1 DEF FireflyTick, RunDown, RowTypeOK, NoLease
  <2> QED
    BY <1>1, <2>1, RowsMove, UnchangedTypes DEF FireflyTick, firefly, FireflyInv, FireflyTypeOK
<1>2. ASSUME NEW i \in Windows, SweepWindow(i)
      PROVE  FireflyInv'
  <2>1. attempt[i] \in Nat /\ status[i] = "in_progress"
    BY <1>0, <1>2 DEF RowTypeOK, SweepWindow, StaleClaims, Windows
  <2>2. RowTypeOK'
    BY <1>0, <1>2, <2>1, TransitionType DEF SweepWindow, Windows
  <2>3. creator \notin {"idle", "windows"}
    BY <2>1 DEF FireflyInv, BeforeQueue
  <2> QED
    BY <1>2, <2>2, <2>3, RowsMove, UnchangedTypes DEF SweepWindow, firefly, FireflyInv,
       FireflyTypeOK
<1>3. ASSUME NEW i \in Windows, RepairWindow(i)
      PROVE  FireflyInv'
  <2>1. RowTypeOK'
    BY <1>0, <1>3 DEF RepairWindow, RowTypeOK, Statuses
  <2>2. creator \notin {"idle", "windows"}
    BY <1>3 DEF FireflyInv, BeforeQueue, RepairWindow
  <2> QED
    BY <1>3, <2>1, <2>2, RowsMove, UnchangedTypes DEF RepairWindow, FireflyInv, FireflyTypeOK
<1> QED
  BY <1>1, <1>2, <1>3

LEMMA HandlerKeepsInv ==
  ASSUME FireflyInv, NEW i \in Windows, HandlerStep(i) \/ HandlerFault(i)
  PROVE  FireflyInv'
<1>1. CASE Exhausted(i)
  BY <1>1, RunEnds DEF Exhausted, Results
<1>2. CASE Interrupted(i)
  BY <1>2, RunEnds DEF Interrupted, Results
<1>3. CASE WriteLegacyFails(i)
  BY <1>3, StepsOn, UnchangedTypes DEF WriteLegacyFails, row
<1> QED
  BY <1>1, <1>2, <1>3, ReadParentKeepsInv, IngestKeepsInv, WriteLegacyKeepsInv, DeferKeepsInv,
     HandlerEnds, IngestFailsKeepsInv
  DEF HandlerStep, HandlerFault

LEMMA FireflyStepInv ==
  ASSUME FireflyInv, [FireflyNext]_fireflyVars
  PROVE  FireflyInv'
<1>1. CASE UNCHANGED fireflyVars
  <2>1. UNCHANGED <<row, firefly>>
    BY <1>1 DEF fireflyVars
  <2> QED
    BY <2>1, RowsMove, UnchangedTypes DEF firefly, row, FireflyInv, FireflyTypeOK
<1> QED
  BY <1>1, PartiesKeepInv, KeepersKeepInv, HandlerKeepsInv, ClaimWindowKeepsInv DEF FireflyNext

(* Every variable of a backfill keeps its type: a handler's counters do not *)
(* run past the listing.                                                    *)
THEOREM FireflyTypeCorrect == FireflySpec => []FireflyTypeOK
<1>1. FireflyInv => FireflyTypeOK
  BY DEF FireflyInv
<1> QED
  BY <1>1, FireflyInitInv, FireflyStepInv, PTL DEF FireflySpec

(* transcripts_persisted never claims a transcript that is not stored,      *)
(* wherever runs are killed and begun again.                                *)
THEOREM NothingOvercounted == FireflySpec => []FireflyStored
<1>1. FireflyInv => FireflyStored
  BY DEF FireflyInv, WindowsOK, WindowOK, FireflyStored
<1> QED
  BY <1>1, FireflyInitInv, FireflyStepInv, PTL DEF FireflySpec

(* Once the parent is not active any more, only "failed" is written over a  *)
(* window's row.                                                            *)
LEMMA CancelStandsStep ==
  ASSUME FireflyInv, [FireflyNext]_fireflyVars, NEW i \in Windows,
         parent \notin {"none", "active"}, legacy[i] = "failed"
  PROVE  legacy'[i] = "failed"
<1>1. CASE UNCHANGED legacy
  BY <1>1
<1>2. CASE CreateWindows
  BY <1>2 DEF CreateWindows, FireflyInv, BeforeQueue
<1>3. CASE CancelWindows
  BY <1>3 DEF CancelWindows
<1>4. ASSUME NEW j \in Windows, WriteLegacy(j)
      PROVE  legacy'[i] = "failed"
  <2>1. ~ MayWrite(j)
    BY DEF MayWrite
  <2>2. handler[j].result = "thrown" => Verdict(handler[j]) = "failed"
    BY DEF Verdict
  <2> QED
    BY <1>4, <2>1, <2>2 DEF WriteLegacy, FireflyInv, FireflyTypeOK
<1> QED
  BY <1>1, <1>2, <1>3, <1>4
  DEF FireflyNext, fireflyVars, firefly, CreateParent, CreatorStep, Created, QueueWindow,
      CreatorDies, CancelFind, CancelParent, CancellerDies, MonitorStep, MonitorFind,
      MonitorCount, FinalizeCount, FinalizeParent, MonitorDies, ClaimWindow, HandlerStep,
      ReadParent, Exhausted, Ingest, Defer, EndWindow, HandlerFault, IngestFails,
      Interrupted, WriteLegacyFails, HandlerDies, SweepWindow, RepairWindow, FireflyTick

(* The 'failed' a cancel wrote stands: no handler in flight turns it back.  *)
THEOREM CancelStands == FireflySpec => FireflyCancelStands
<1>1. FireflyInv /\ [FireflyNext]_fireflyVars =>
        [\A i \in Windows : parent \notin {"none", "active"} /\ legacy[i] = "failed"
           => legacy'[i] = "failed"]_fireflyVars
  BY CancelStandsStep
<1> QED
  BY <1>1, FireflyInitInv, FireflyStepInv, PTL DEF FireflySpec, FireflyCancelStands

------------------------------------------------------------------------------
(* The operational rows of sync_jobs, and the four components side by side. *)

LEMMA SyncJobsInitType == SyncJobsInit => SyncJobsTypeOK
<1>1. TimeoutLen \in Nat /\ MaxJobMishaps \in Nat
  BY SyncJobsAssumption
<1> QED
  BY <1>1 DEF SyncJobsInit, SyncJobsTypeOK

(* The statement of one runner, of the reconciler on one row, or the clock. *)
LEMMA SyncJobsStepType ==
  ASSUME SyncJobsTypeOK, [SyncJobsNext]_syncJobVars
  PROVE  SyncJobsTypeOK'
<1>0. TimeoutLen \in Nat \ {0} /\ MaxJobMishaps \in Nat
  BY SyncJobsAssumption
<1>1. JobMishap => jobMishaps' \in 0..MaxJobMishaps
  BY <1>0 DEF JobMishap, SyncJobsTypeOK
<1>2. ASSUME NEW j \in SyncRows, OpenSyncJob(j) \/ TouchSyncJob(j) \/ CloseSyncJob(j)
      PROVE  SyncJobsTypeOK'
  <2>1. TimeoutLen \in 0..TimeoutLen /\ 0 \in 0..TimeoutLen
    BY <1>0
  <2>2. CASE OpenSyncJob(j)
    BY <2>1, <2>2 DEF OpenSyncJob, SyncJobsTypeOK
  <2>3. CASE TouchSyncJob(j)
    BY <2>1, <2>3 DEF TouchSyncJob, SyncJobsTypeOK
  <2>4. CASE CloseSyncJob(j)
    BY <2>1, <2>4 DEF CloseSyncJob, SyncJobsTypeOK
  <2> QED
    BY <1>2, <2>2, <2>3, <2>4
<1>3. ASSUME NEW j \in SyncRows, CloseFails(j) \/ RunnerDies(j)
      PROVE  SyncJobsTypeOK'
  BY <1>1, <1>3 DEF CloseFails, RunnerDies, SyncJobsTypeOK
<1>4. ASSUME NEW j \in SyncRows, ReconcileRow(j)
      PROVE  SyncJobsTypeOK'
  BY <1>0, <1>4 DEF ReconcileRow, SyncJobsTypeOK, Verdicts
<1>5. CASE ReconcileRead
  BY <1>5 DEF ReconcileRead, StaleJobs, SyncJobsTypeOK
<1>6. CASE ReconcilerDies
  BY <1>1, <1>6 DEF ReconcilerDies, SyncJobsTypeOK
<1>7. CASE SyncTick
  <2>1. \A n \in 0..TimeoutLen : (IF n > 0 THEN n - 1 ELSE 0) \in 0..TimeoutLen
    BY <1>0
  <2> QED
    BY <1>7, <2>1 DEF SyncTick, SyncJobsTypeOK
<1>8. CASE UNCHANGED syncJobVars
  BY <1>8 DEF syncJobVars, SyncJobsTypeOK
<1> QED
  BY <1>2, <1>3, <1>4, <1>5, <1>6, <1>7, <1>8 DEF SyncJobsNext

(* What of each component its variables say, beside the others.             *)
LEMMA UnmovedFirefly == FireflyInv /\ UNCHANGED fireflyVars => FireflyInv'
BY FireflyStepInv

LEMMA UnmovedCampaign == CampaignInv /\ UNCHANGED <<campaignVars, mergeVars>> => CampaignInv'
BY CampaignStepInv

LEMMA UnmovedJobs == SyncJobsTypeOK /\ UNCHANGED syncJobVars => SyncJobsTypeOK'
BY SyncJobsStepType

LEMMA UnmovedBackup ==
  ASSUME Reruns = {}
  PROVE  BackupInv /\ UNCHANGED backupVars => BackupInv'
BY BackupStepInv

BackgroundInv == FireflyInv /\ CampaignInv /\ SyncJobsTypeOK /\ BackupInv

(* A step of one component leaves the variables of the others alone.        *)
LEMMA BackgroundStepInv ==
  ASSUME Reruns = {}, BackgroundInv, [Next]_vars
  PROVE  BackgroundInv' /\ [FireflyNext]_fireflyVars
<1>0. FireflyInv /\ CampaignInv /\ SyncJobsTypeOK /\ BackupInv
  BY DEF BackgroundInv
<1>1. CASE FireflyNext /\ UNCHANGED <<campaignVars, mergeVars, syncJobVars, backupVars>>
  BY <1>0, <1>1, FireflyStepInv, UnmovedCampaign, UnmovedJobs, UnmovedBackup DEF BackgroundInv
<1>2. CASE /\ (CampaignNext /\ UNCHANGED mergeVars) \/ MergeNext
           /\ UNCHANGED <<fireflyVars, syncJobVars, backupVars>>
  BY <1>0, <1>2, UnmovedFirefly, CampaignStepInv, UnmovedJobs, UnmovedBackup DEF BackgroundInv
<1>3. CASE SyncJobsNext /\ UNCHANGED <<fireflyVars, campaignVars, mergeVars, backupVars>>
  BY <1>0, <1>3, UnmovedFirefly, UnmovedCampaign, SyncJobsStepType, UnmovedBackup
     DEF BackgroundInv
<1>4. CASE BackupNext /\ UNCHANGED <<fireflyVars, campaignVars, mergeVars, syncJobVars>>
  BY <1>0, <1>4, UnmovedFirefly, UnmovedCampaign, UnmovedJobs, BackupStepInv DEF BackgroundInv
<1>5. CASE UNCHANGED <<fireflyVars, campaignVars, mergeVars, syncJobVars, backupVars>>
  BY <1>0, <1>5, UnmovedFirefly, UnmovedCampaign, UnmovedJobs, UnmovedBackup DEF BackgroundInv
<1> QED
  BY <1>1, <1>2, <1>3, <1>4, <1>5 DEF Next, vars

LEMMA BackgroundInvAlways ==
  ASSUME Reruns = {}
  PROVE  Spec => []BackgroundInv
<1>1. Init => BackgroundInv
  BY FireflyInitInv, CampaignInitInv, SyncJobsInitType, BackupInitInv DEF Init, BackgroundInv
<1>2. BackgroundInv /\ [Next]_vars => BackgroundInv'
  BY BackgroundStepInv
<1> QED
  BY <1>1, <1>2, PTL DEF Spec

(* Every variable of the four background components keeps its type, the     *)
(* bounds on their counters and on the attempts of a step included: one     *)
(* theorem for the whole that the run explores, for every size of each.     *)
THEOREM BackgroundTypeCorrect ==
  ASSUME Reruns = {}
  PROVE  Spec => []TypeOK
<1>1. BackgroundInv => TypeOK
  BY CampaignInvImplies DEF BackgroundInv, FireflyInv, BackupInv, TypeOK
<1> QED
  BY <1>1, BackgroundInvAlways, PTL

(* The safety of the four side by side: no transcript counted that is not   *)
(* stored, no cancelled window revived, no mail sent twice or unaccounted   *)
(* for or taken from under the workflow by a merge, and a latest export     *)
(* that can be restored.                                                    *)
THEOREM BackgroundSafe ==
  ASSUME Reruns = {}
  PROVE  Spec => /\ []FireflyStored /\ FireflyCancelStands
                 /\ []CampaignAccounts /\ []CampaignMailedOnce /\ []MergeSparesCampaign
                 /\ []BackupRestorable
<1>1. BackgroundInv => /\ FireflyStored /\ CampaignAccounts /\ CampaignMailedOnce
                       /\ MergeSparesCampaign /\ BackupRestorable
  BY CampaignInvImplies, BackupInvRestores
     DEF BackgroundInv, FireflyInv, WindowsOK, WindowOK, FireflyStored
<1>2. BackgroundInv /\ [Next]_vars =>
        [\A i \in Windows : parent \notin {"none", "active"} /\ legacy[i] = "failed"
           => legacy'[i] = "failed"]_fireflyVars
  BY BackgroundStepInv, CancelStandsStep DEF BackgroundInv
<1> QED
  BY <1>1, <1>2, BackgroundInvAlways, PTL DEF Spec, FireflyCancelStands
=============================================================================
