----------------------------- MODULE CampaignSend -----------------------------
(***************************************************************************)
(* One email campaign: the request that starts it (sendCampaign of         *)
(* src/handlers/campaigns.ts) and CampaignSendWorkflow                     *)
(* (src/workflows/campaign-send.ts) with the call of Outlook it makes for  *)
(* each recipient (src/integrations/outlook-send.ts).                      *)
(*                                                                         *)
(* The workflow engine runs a step again until it returns; what a step     *)
(* returned is remembered, what the workflow holds in its own variables is *)
(* not.                                                                    *)
(***************************************************************************)
EXTENDS Integers, FiniteSets

CONSTANTS
  Contacts,          \* contacts the campaign's filter may select
  Requests,          \* calls of sendCampaign
  StepRetries,       \* retries of the step 'send-<recipient>': 3
  Patched,           \* the statuses a PATCH of the campaign may write
  MaxCampaignMishaps, \* bound on kills, failed statements and these PATCHes
  Idle               \* no 'send-' step is running

(* Only a PATCH writes the last two.                                        *)
CampaignStatuses == {"draft", "scheduled", "sending", "sent", "failed", "cancelled"}
Active == {"scheduled", "sending"}

ASSUME CampaignAssumption ==
  /\ IsFiniteSet(Contacts)
  /\ StepRetries \in Nat
  /\ MaxCampaignMishaps \in Nat
  /\ Patched \subseteq CampaignStatuses
  /\ Idle \notin [to : Contacts, at : {"call", "mailed"}]

VARIABLES
  campaign,        \* email_campaigns.status
  recipient,       \* email_campaign_recipients.status of each contact
  request, toInsert,  \* sendCampaign: its step, contacts not yet inserted
  flow,            \* the workflow instance: its step
  loaded,          \* the contacts of the rows 'load-recipients' returned
  rowAt,           \* whose each of these rows is now: {} once it is deleted
  sentSteps,       \* the contacts whose 'send-' step has returned
  sending,         \* in a 'send-' step: the contact and how far it is
  tries,           \* failed attempts of each contact's step
  mails,           \* mails Outlook accepted for each of them
  lost,            \* accepted mails of which the step's attempt did not end
  locks, gone,     \* merge_locks, and the contacts merged into another:
                   \*   ContactMerge writes them
  unmarked,        \* ghost: a PATCH took the mark of an active campaign away
                   \*   while its workflow was loading or sending
  campaignMishaps

contactTables == <<locks, gone>>
campaignVars == <<campaign, recipient, request, toInsert, flow, loaded, rowAt,
                  sentSteps, sending, tries, mails, lost, contactTables,
                  unmarked, campaignMishaps>>

Flows == {"none", "load", "recipients", "send", "finalize", "done", "errored"}

CampaignTypeOK ==
  /\ campaign \in CampaignStatuses
  /\ recipient \in [Contacts -> {"none", "pending", "sent", "failed"}]
  /\ request \in
       [Requests -> {"idle", "insert", "schedule", "trigger", "done"}]
  /\ toInsert \in [Requests -> SUBSET Contacts]
  /\ flow \in Flows
  /\ loaded \subseteq Contacts
  /\ rowAt \in [Contacts -> SUBSET Contacts]
  /\ sentSteps \subseteq loaded
  /\ sending \in {Idle} \cup [to : Contacts, at : {"call", "mailed"}]
  /\ tries \in [Contacts -> 0..(StepRetries + 1)]
  /\ mails \in [Contacts -> Nat]
  /\ lost \in [Contacts -> Nat]
  /\ locks \in [Contacts -> {"none", "held", "expired"}]
  /\ gone \subseteq Contacts
  /\ unmarked \in BOOLEAN
  /\ campaignMishaps \in 0..MaxCampaignMishaps

CampaignInit ==
  /\ campaign = "draft"
  /\ recipient = [c \in Contacts |-> "none"]
  /\ request = [q \in Requests |-> "idle"]
  /\ toInsert = [q \in Requests |-> {}]
  /\ flow = "none"
  /\ loaded = {}
  /\ rowAt = [c \in Contacts |-> {}]
  /\ sentSteps = {}
  /\ sending = Idle
  /\ tries = [c \in Contacts |-> 0]
  /\ mails = [c \in Contacts |-> 0]
  /\ lost = [c \in Contacts |-> 0]
  /\ locks = [c \in Contacts |-> "none"]
  /\ gone = {}
  /\ unmarked = FALSE
  /\ campaignMishaps = 0

CampaignMishap ==
  /\ campaignMishaps < MaxCampaignMishaps
  /\ campaignMishaps' = campaignMishaps + 1

FlowUnchanged ==
  UNCHANGED <<flow, loaded, rowAt, sentSteps, sending, tries, mails, lost,
              contactTables, unmarked>>

(* Not deleted by a merge, and not locked for one.                          *)
Free(c) == c \notin gone /\ locks[c] # "held"

------------------------------------------------------------------------------

(* sendCampaign.  Two requests may both read 'draft'.                       *)
SendCampaign(q) ==
  /\ request[q] = "idle"
  /\ campaign = "draft"
  /\ \E cs \in SUBSET {c \in Contacts : Free(c)} \ {{}} :
       toInsert' = [toInsert EXCEPT ![q] = cs]
  /\ request' = [request EXCEPT ![q] = "insert"]
  /\ UNCHANGED <<campaign, recipient, campaignMishaps>>
  /\ FlowUnchanged

(* INSERT OR IGNORE, one contact after the other.                           *)
InsertRecipient(q, c) ==
  /\ request[q] = "insert"
  /\ c \in toInsert[q]
  /\ recipient' = [recipient EXCEPT ![c] = IF @ = "none" THEN "pending" ELSE @]
  /\ toInsert' = [toInsert EXCEPT ![q] = @ \ {c}]
  /\ UNCHANGED <<campaign, request, campaignMishaps>>
  /\ FlowUnchanged

(* The campaign's UPDATE is not filtered on status.                         *)
Schedule(q) ==
  /\ request[q] = "insert"
  /\ toInsert[q] = {}
  /\ campaign' = "scheduled"
  /\ request' = [request EXCEPT ![q] = "trigger"]
  /\ UNCHANGED <<recipient, toInsert, campaignMishaps>>
  /\ FlowUnchanged

(* Mutant: every request creates an instance of its own.                    *)
TriggerAgain(q) ==
  /\ request[q] = "trigger"
  /\ flow' = "load"
  /\ sentSteps' = {}
  /\ sending' = Idle
  /\ request' = [request EXCEPT ![q] = "done"]
  /\ UNCHANGED <<campaign, recipient, toInsert, loaded, rowAt, tries, mails, lost,
                 contactTables, unmarked, campaignMishaps>>

(* The id of the instance is campaign-<id>: a second create throws.         *)
Trigger(q) ==
  /\ request[q] = "trigger"
  /\ flow' = IF flow = "none" THEN "load" ELSE flow
  /\ request' = [request EXCEPT ![q] = "done"]
  /\ UNCHANGED <<campaign, recipient, toInsert, loaded, rowAt, sentSteps, sending,
                 tries, mails, lost, contactTables, unmarked, campaignMishaps>>

(* The Worker is killed, or a statement of the request fails.               *)
RequestDies(q) ==
  /\ request[q] \in {"insert", "trigger"}
  /\ CampaignMishap
  /\ request' = [request EXCEPT ![q] = "done"]
  /\ toInsert' = [toInsert EXCEPT ![q] = {}]
  /\ UNCHANGED <<campaign, recipient>>
  /\ FlowUnchanged

------------------------------------------------------------------------------

(* updateCampaign: a PATCH may write any status, whatever it was.           *)
UpdateCampaign ==
  /\ CampaignMishap
  /\ campaign' \in Patched
  /\ unmarked' = (unmarked \/ (flow \in {"recipients", "send"} /\ campaign' \notin Active))
  /\ UNCHANGED <<recipient, request, toInsert, flow, loaded, rowAt, sentSteps,
                 sending, tries, mails, lost, contactTables>>

------------------------------------------------------------------------------

(* CampaignSendWorkflow.                                                    *)

RequestsUnchanged == UNCHANGED <<request, toInsert, contactTables, unmarked>>

(* The row of c that was loaded, wherever a merge has put it since.         *)
SetRow(c, s) ==
  recipient' = [d \in Contacts |-> IF d \in rowAt[c] THEN s ELSE recipient[d]]

LoadCampaign ==
  /\ flow = "load"
  /\ campaign' = "sending"
  /\ flow' = "recipients"
  /\ UNCHANGED <<recipient, loaded, rowAt, sentSteps, sending, tries, mails, lost,
                 campaignMishaps>>
  /\ RequestsUnchanged

(* Mutant: the query does not join merge_locks.                             *)
LoadRecipientsLocked ==
  /\ flow = "recipients"
  /\ loaded' = {c \in Contacts : recipient[c] = "pending" /\ c \notin gone}
  /\ rowAt' = [c \in Contacts |-> {c} \cap loaded']
  /\ flow' = "send"
  /\ UNCHANGED <<campaign, recipient, sentSteps, sending, tries, mails, lost,
                 campaignMishaps>>
  /\ RequestsUnchanged

(* The pending ones, without the contacts a user has deleted, those merged  *)
(* away and those locked for a merge.                                       *)
LoadRecipients ==
  /\ flow = "recipients"
  /\ \E deleted \in SUBSET Contacts :
       loaded' = {c \in Contacts \ deleted : recipient[c] = "pending" /\ Free(c)}
  /\ rowAt' = [c \in Contacts |-> {c} \cap loaded']
  /\ flow' = "send"
  /\ UNCHANGED <<campaign, recipient, sentSteps, sending, tries, mails, lost,
                 campaignMishaps>>
  /\ RequestsUnchanged

(* One recipient after the other.                                           *)
BeginSend(c) ==
  /\ flow = "send"
  /\ sending = Idle
  /\ c \in loaded \ sentSteps
  /\ sending' = [to |-> c, at |-> "call"]
  /\ UNCHANGED <<campaign, recipient, flow, loaded, rowAt, sentSteps, tries, mails,
                 lost, campaignMishaps>>
  /\ RequestsUnchanged

(* Outlook takes the mail.                                                  *)
Accepted(c) ==
  /\ sending = [to |-> c, at |-> "call"]
  /\ sending' = [to |-> c, at |-> "mailed"]
  /\ mails' = [mails EXCEPT ![c] = @ + 1]
  /\ UNCHANGED <<campaign, recipient, flow, loaded, rowAt, sentSteps, tries, lost,
                 campaignMishaps>>
  /\ RequestsUnchanged

(* Mutant: the step is retried without end.                                 *)
ThrowsForever(c) ==
  /\ tries' = [tries EXCEPT ![c] = @ + 1]
  /\ sending' = Idle
  /\ UNCHANGED <<flow, loaded, rowAt, sentSteps>>

(* The step's attempt throws: it is tried again, and after the last retry   *)
(* the whole instance errors.                                               *)
Throws(c) ==
  /\ tries' = [tries EXCEPT ![c] = @ + 1]
  /\ flow' = IF tries[c] < StepRetries THEN flow ELSE "errored"
  /\ sending' = Idle
  /\ UNCHANGED <<loaded, rowAt, sentSteps>>

Returned(c) ==
  /\ sentSteps' = sentSteps \cup {c}
  /\ sending' = Idle
  /\ UNCHANGED <<flow, loaded, rowAt, tries>>

(* Mutant: a throttled step returns where it should throw.                  *)
RateLimitedReturns(c) ==
  /\ sending = [to |-> c, at |-> "call"]
  /\ Returned(c)
  /\ UNCHANGED <<campaign, recipient, mails, lost, campaignMishaps>>
  /\ RequestsUnchanged

(* 429 with a Retry-After: the step sleeps and throws.                      *)
RateLimited(c) ==
  /\ sending = [to |-> c, at |-> "call"]
  /\ Throws(c)
  /\ UNCHANGED <<campaign, recipient, mails, lost, campaignMishaps>>
  /\ RequestsUnchanged

(* Any other answer, an unusable Retry-After or no token: a permanent       *)
(* failure.                                                                 *)
Rejected(c) ==
  /\ sending = [to |-> c, at |-> "call"]
  /\ SetRow(c, "failed")
  /\ Returned(c)
  /\ UNCHANGED <<campaign, mails, lost, campaignMishaps>>
  /\ RequestsUnchanged

RecordSent(c) ==
  /\ sending = [to |-> c, at |-> "mailed"]
  /\ SetRow(c, "sent")
  /\ Returned(c)
  /\ UNCHANGED <<campaign, mails, lost, campaignMishaps>>
  /\ RequestsUnchanged

(* The UPDATE of the recipient fails, or fetch itself throws.               *)
SendFails(c) ==
  /\ sending # Idle
  /\ sending.to = c
  /\ CampaignMishap
  /\ Throws(c)
  /\ lost' = [lost EXCEPT ![c] = IF sending.at = "mailed" THEN @ + 1 ELSE @]
  /\ UNCHANGED <<campaign, recipient, mails>>
  /\ RequestsUnchanged

(* The engine restarts: the step that was running is run again, after the   *)
(* recipient's UPDATE or before it.                                         *)
EngineRestarts ==
  /\ sending # Idle
  /\ CampaignMishap
  /\ sending' = Idle
  /\ IF sending.at = "mailed"
       THEN /\ lost' = [lost EXCEPT ![sending.to] = @ + 1]
            /\ \/ SetRow(sending.to, "sent")
               \/ UNCHANGED recipient
       ELSE UNCHANGED <<lost, recipient>>
  /\ UNCHANGED <<campaign, flow, loaded, rowAt, sentSteps, tries, mails>>
  /\ RequestsUnchanged

SentAll ==
  /\ flow = "send"
  /\ sending = Idle
  /\ sentSteps = loaded
  /\ flow' = "finalize"
  /\ UNCHANGED <<campaign, recipient, loaded, rowAt, sentSteps, sending, tries, mails,
                 lost, campaignMishaps>>
  /\ RequestsUnchanged

Finalize ==
  /\ flow = "finalize"
  /\ campaign' = "sent"
  /\ flow' = "done"
  /\ UNCHANGED <<recipient, loaded, rowAt, sentSteps, sending, tries, mails, lost,
                 campaignMishaps>>
  /\ RequestsUnchanged

(* A step that never succeeds (no sender, D1 down) ends the instance.       *)
FlowErrors ==
  /\ flow \in {"load", "recipients", "finalize"}
  /\ CampaignMishap
  /\ flow' = "errored"
  /\ UNCHANGED <<campaign, recipient, loaded, rowAt, sentSteps, sending, tries, mails,
                 lost>>
  /\ RequestsUnchanged

CampaignNext ==
  \/ \E q \in Requests :
       \/ SendCampaign(q) \/ Schedule(q) \/ Trigger(q) \/ RequestDies(q)
       \/ \E c \in Contacts : InsertRecipient(q, c)
  \/ UpdateCampaign
  \/ LoadCampaign \/ LoadRecipients \/ SentAll \/ Finalize \/ FlowErrors
  \/ EngineRestarts
  \/ \E c \in Contacts :
       \/ BeginSend(c) \/ Accepted(c) \/ RateLimited(c) \/ Rejected(c)
       \/ RecordSent(c) \/ SendFails(c)

------------------------------------------------------------------------------

(* When the workflow is done, every row it loaded that no merge has deleted *)
(* since, whoever's it is by then, says 'sent' or 'failed', and a row says  *)
(* 'sent' only of a mail Outlook took for it: through throttled and         *)
(* repeated steps, merges that move rows, a second request that inserts     *)
(* beside the workflow and a PATCH of the status at any time.               *)
CampaignAccounts ==
  /\ flow = "done" =>
       \A c \in loaded : \A d \in rowAt[c] : recipient[d] \in {"sent", "failed"}
  /\ \A d \in Contacts :
       recipient[d] = "sent" => \E c \in loaded : d \in rowAt[c] /\ mails[c] > 0

(* A contact gets one mail, and one more for each attempt that died between *)
(* Outlook's answer and the end of its step: a second request, a 429, a     *)
(* retry of another step or a PATCH back to 'draft' never mails again.      *)
CampaignMailedOnce == \A c \in Contacts : mails[c] <= 1 + lost[c]
=============================================================================
