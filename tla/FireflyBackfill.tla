---------------------------- MODULE FireflyBackfill ----------------------------
(***************************************************************************)
(* A progressive Firefly backfill: the parent job of one user and its      *)
(* windows (src/lib/firefly-progressive-backfill.ts), the work_queue       *)
(* handler that runs a window (lib/work-queue-handlers/firefly-window.ts)  *)
(* and the loop over its transcripts (lib/firefly-ingest.ts).              *)
(*                                                                         *)
(* A window has two rows, the one of work_queue (an element of Items) and  *)
(* the one of firefly_progressive_backfill_windows that the panel reads.   *)
(***************************************************************************)
EXTENDS WorkQueueRows

CONSTANTS
  Listed,            \* transcripts that Firefly lists in a window
  PerRun,            \* FIREFLY_MAX_TRANSCRIPTS_PER_TICK
  MaxFireflyMishaps, \* bound on kills, failed statements and calls, and on
                     \*   the repairs of scanAndRepairIngestion
  NoRun              \* no handler is running the window

Windows == Items
Transcripts == 1..Listed

(* What a handler holds: its step, its local counts and how its run ended.  *)
Results == {"none", "completed", "paused", "limited", "failed", "thrown"}

Handlers ==
  [step : {"parent", "ingest", "legacy", "defer", "complete", "fail"},
   skip : 0..Listed, ingested : 0..Listed, failed : 0..Listed,
   result : Results]

ASSUME FireflyAssumption ==
  /\ Listed \in Nat \ {0}
  /\ PerRun \in Nat \ {0}
  /\ MaxFireflyMishaps \in Nat
  /\ NoRun \notin Handlers

VARIABLES
  parent,          \* status of the row in firefly_progressive_backfill_jobs
  legacy, counted, \* a window's status and transcripts_persisted
  cursor,          \* last_skip in the payload of a window's work_queue row
  stored,          \* the transcripts of a window that are events
  handler,         \* the handler of a window: its step and its local counts
  creator, toQueue,   \* createFireflyProgressiveBackfill
  monitor, canceller, \* driveFireflyProgressiveBackfill, and the cancel
  fireflyMishaps

firefly == <<parent, legacy, counted, cursor, stored, handler, creator,
             toQueue, monitor, canceller, fireflyMishaps>>
fireflyVars == <<row, firefly>>

Finals == {"completed", "partially_completed"}

FireflyTypeOK ==
  /\ RowTypeOK
  /\ parent \in {"none", "active", "cancelled"} \cup Finals
  /\ legacy \in [Windows -> {"none", "pending", "completed", "failed"}]
  /\ counted \in [Windows -> Nat]
  /\ cursor \in [Windows -> 0..Listed]
  /\ stored \in [Windows -> SUBSET Transcripts]
  /\ handler \in [Windows -> Handlers \cup {NoRun}]
  /\ creator \in {"idle", "windows", "queue", "done"}
  /\ toQueue \subseteq Windows
  /\ monitor \in {"idle", "count", "verdict"} \cup Finals
  /\ canceller \in {"idle", "parent", "windows"}
  /\ fireflyMishaps \in 0..MaxFireflyMishaps

FireflyInit ==
  /\ RowInit
  /\ parent = "none"
  /\ legacy = [i \in Windows |-> "none"]
  /\ counted = [i \in Windows |-> 0]
  /\ cursor = [i \in Windows |-> 0]
  /\ stored = [i \in Windows |-> {}]
  /\ handler = [i \in Windows |-> NoRun]
  /\ creator = "idle"
  /\ toQueue = {}
  /\ monitor = "idle"
  /\ canceller = "idle"
  /\ fireflyMishaps = 0

Mishap ==
  /\ fireflyMishaps < MaxFireflyMishaps
  /\ fireflyMishaps' = fireflyMishaps + 1

------------------------------------------------------------------------------

(* createFireflyProgressiveBackfill: the parent, the batch of its windows,  *)
(* then one work_queue row after the other.                                 *)

CreateParent ==
  /\ creator = "idle"
  /\ parent = "none"
  /\ parent' = "active"
  /\ creator' = "windows"
  /\ UNCHANGED <<row, legacy, counted, cursor, stored, handler, toQueue,
                 monitor, canceller, fireflyMishaps>>

CreateWindows ==
  /\ creator = "windows"
  /\ legacy' = [i \in Windows |-> "pending"]
  /\ creator' = "queue"
  /\ toQueue' = Windows
  /\ UNCHANGED <<row, parent, counted, cursor, stored, handler, monitor,
                 canceller, fireflyMishaps>>

(* A row that cannot be written is logged and left out.  Windows beyond the *)
(* first WINDOWS_PER_DAY start a day later.                                 *)
QueueWindow(i) ==
  /\ creator = "queue"
  /\ i \in toQueue
  /\ \/ (\E w \in {0, 1} : Insert(i, w)) /\ UNCHANGED fireflyMishaps
     \/ Mishap /\ UNCHANGED row
  /\ toQueue' = toQueue \ {i}
  /\ UNCHANGED <<parent, legacy, counted, cursor, stored, handler, creator,
                 monitor, canceller>>

Created ==
  /\ creator = "queue"
  /\ toQueue = {}
  /\ creator' = "done"
  /\ UNCHANGED <<row, parent, legacy, counted, cursor, stored, handler,
                 toQueue, monitor, canceller, fireflyMishaps>>

CreatorDies ==
  /\ creator \in {"windows", "queue"}
  /\ Mishap
  /\ creator' = "done"
  /\ toQueue' = {}
  /\ UNCHANGED <<row, parent, legacy, counted, cursor, stored, handler,
                 monitor, canceller>>

(* The cancel looks at the parent and at the windows, not at work_queue.    *)
CancelFind ==
  /\ canceller = "idle"
  /\ parent = "active"
  /\ canceller' = "parent"
  /\ UNCHANGED <<row, parent, legacy, counted, cursor, stored, handler,
                 creator, toQueue, monitor, fireflyMishaps>>

CancelParent ==
  /\ canceller = "parent"
  /\ parent' = "cancelled"
  /\ canceller' = "windows"
  /\ UNCHANGED <<row, legacy, counted, cursor, stored, handler, creator,
                 toQueue, monitor, fireflyMishaps>>

CancelWindows ==
  /\ canceller = "windows"
  /\ legacy' = [i \in Windows |->
                  IF legacy[i] = "pending" THEN "failed" ELSE legacy[i]]
  /\ canceller' = "idle"
  /\ UNCHANGED <<row, parent, counted, cursor, stored, handler, creator,
                 toQueue, monitor, fireflyMishaps>>

CancellerDies ==
  /\ canceller # "idle"
  /\ Mishap
  /\ canceller' = "idle"
  /\ UNCHANGED <<row, parent, legacy, counted, cursor, stored, handler,
                 creator, toQueue, monitor>>

(* driveFireflyProgressiveBackfill, every minute, and finalizeParent.       *)

(* Mutant: a dead letter counts as a row that still has work to do.         *)
RemainingNotCompleted ==
  {i \in Windows : status[i] \notin {"absent", "completed"}}

Remaining == {i \in Windows : status[i] \in {"pending", "in_progress"}}

MonitorFind ==
  /\ monitor = "idle"
  /\ parent = "active"
  /\ monitor' = "count"
  /\ UNCHANGED <<row, parent, legacy, counted, cursor, stored, handler,
                 creator, toQueue, canceller, fireflyMishaps>>

MonitorCount ==
  /\ monitor = "count"
  /\ monitor' = IF Remaining = {} THEN "verdict" ELSE "idle"
  /\ UNCHANGED <<row, parent, legacy, counted, cursor, stored, handler,
                 creator, toQueue, canceller, fireflyMishaps>>

FinalizeCount ==
  /\ monitor = "verdict"
  /\ monitor' = IF \E i \in Windows : status[i] = "dead_letter"
                  THEN "partially_completed" ELSE "completed"
  /\ UNCHANGED <<row, parent, legacy, counted, cursor, stored, handler,
                 creator, toQueue, canceller, fireflyMishaps>>

(* By id only: it also replaces a 'cancelled' that was written meanwhile.   *)
FinalizeParent ==
  /\ monitor \in Finals
  /\ parent' = monitor
  /\ monitor' = "idle"
  /\ UNCHANGED <<row, legacy, counted, cursor, stored, handler, creator,
                 toQueue, canceller, fireflyMishaps>>

MonitorDies ==
  /\ monitor # "idle"
  /\ Mishap
  /\ monitor' = "idle"
  /\ UNCHANGED <<row, parent, legacy, counted, cursor, stored, handler,
                 creator, toQueue, canceller>>

------------------------------------------------------------------------------

(* The handler of a window.                                                 *)

Fresh == [step |-> "parent", skip |-> 0, ingested |-> 0, failed |-> 0,
          result |-> "none"]

(* The minute driver claims the row.  A handler is over before the tick     *)
(* that could claim the row again (FIREFLY_MAX_RUNTIME_MS is 25 seconds).   *)
ClaimWindow(i) ==
  /\ handler[i] = NoRun
  /\ i \in Claimable(Domain[i], {})
  /\ ClaimRows({i})
  /\ handler' = [handler EXCEPT ![i] = Fresh]
  /\ UNCHANGED <<parent, legacy, counted, cursor, stored, creator, toQueue,
                 monitor, canceller, fireflyMishaps>>

(* The handler's own steps leave the creation, the monitor and the cancel   *)
(* alone.                                                                   *)
OthersUnchanged == UNCHANGED <<parent, creator, toQueue, monitor, canceller>>

(* A parent that is not active any more completes the row without work; no  *)
(* API key throws.                                                          *)
ReadParent(i) ==
  /\ handler[i] # NoRun
  /\ handler[i].step = "parent"
  /\ \E key \in BOOLEAN :
       handler' = [handler EXCEPT
         ![i].step = IF parent # "active" THEN "complete"
                     ELSE IF key THEN "ingest" ELSE "fail",
         ![i].skip = cursor[i]]
  /\ UNCHANGED <<row, legacy, counted, cursor, stored, fireflyMishaps>>
  /\ OthersUnchanged

(* What runFireflyWindowBackfill returns; "limited" is a pause for          *)
(* 'firefly_rate_limit', "thrown" an exception of it.                       *)
Returns(i, h, result) ==
  handler' = [handler EXCEPT ![i] = [h EXCEPT !.step = "legacy",
                                              !.result = result]]

(* An empty page, or a page that ends the listing.                          *)
Exhausted(i) ==
  /\ handler[i] # NoRun
  /\ handler[i].step = "ingest"
  /\ handler[i].skip = Listed
  /\ Returns(i, handler[i], "completed")
  /\ UNCHANGED <<row, legacy, counted, cursor, stored, fireflyMishaps>>
  /\ OthersUnchanged

(* Mutant: a duplicate is counted as ingested.                              *)
IngestedAfterAny(h, t, known) == h.ingested + 1

IngestedAfter(h, t, known) == h.ingested + IF t \in known THEN 0 ELSE 1

(* The transcript at skip is a duplicate or becomes an event; the cap on    *)
(* the transcripts of one run is met after it unless the listing ends.      *)
Ingest(i) ==
  /\ handler[i] # NoRun
  /\ handler[i].step = "ingest"
  /\ handler[i].skip < Listed
  /\ LET t == handler[i].skip + 1
         h == [handler[i] EXCEPT !.skip = t,
                !.ingested = IngestedAfter(handler[i], t, stored[i])]
     IN /\ stored' = [stored EXCEPT ![i] = @ \cup {t}]
        /\ IF t < Listed /\ t = cursor[i] + PerRun
             THEN Returns(i, h, "paused")
             ELSE handler' = [handler EXCEPT ![i] = h]
  /\ UNCHANGED <<row, legacy, counted, cursor, fireflyMishaps>>
  /\ OthersUnchanged

(* The transcript at skip cannot be staged: it is counted as failed, and    *)
(* skip moves past it.                                                      *)
IngestFails(i) ==
  /\ handler[i] # NoRun
  /\ handler[i].step = "ingest"
  /\ handler[i].skip < Listed
  /\ handler[i].skip + 1 \notin stored[i]
  /\ Mishap
  /\ LET t == handler[i].skip + 1
         h == [handler[i] EXCEPT !.skip = t, !.failed = @ + 1]
     IN IF t < Listed /\ t = cursor[i] + PerRun
          THEN Returns(i, h, "paused")
          ELSE handler' = [handler EXCEPT ![i] = h]
  /\ UNCHANGED <<row, legacy, counted, cursor, stored>>
  /\ OthersUnchanged

(* The wallclock cap, Firefly's rate limit, an error of the fetch, or an    *)
(* exception before the first one.                                          *)
Interrupted(i) ==
  /\ handler[i] # NoRun
  /\ handler[i].step = "ingest"
  /\ Mishap
  /\ \E result \in {"paused", "limited", "failed", "thrown"} :
       /\ result \in {"limited", "thrown"} => handler[i].skip = cursor[i]
       /\ Returns(i, handler[i], result)
  /\ UNCHANGED <<row, legacy, counted, cursor, stored>>
  /\ OthersUnchanged

(* Mutant: the window's UPDATE without its subquery on the parent.          *)
MayWriteAlways(i) == TRUE

(* The window's UPDATE is filtered on an active parent.                     *)
MayWrite(i) == parent = "active"

(* A completed run with failures is a failed one: the window is retried.    *)
Verdict(h) ==
  CASE h.result = "completed" /\ h.failed > 0 -> "failed"
    [] h.result = "thrown" -> "failed"
    [] OTHER -> h.result

AfterLegacy(h) ==
  CASE Verdict(h) = "completed" -> "complete"
    [] Verdict(h) = "failed" -> "fail"
    [] OTHER -> "defer"

(* The window's row: its status and the counts of this run, the window      *)
(* first and the work_queue row after it.  After an exception of the run    *)
(* the UPDATE sets the status only, and is not filtered.                    *)
WriteLegacy(i) ==
  /\ handler[i] # NoRun
  /\ handler[i].step = "legacy"
  /\ LET h == handler[i]
         written == MayWrite(i) \/ h.result = "thrown"
     IN /\ legacy' = [legacy EXCEPT ![i] =
             IF written /\ Verdict(h) \in {"completed", "failed"}
               THEN Verdict(h) ELSE @]
        /\ counted' = [counted EXCEPT ![i] =
             IF written /\ h.result # "thrown" THEN @ + h.ingested ELSE @]
        /\ handler' = [handler EXCEPT ![i].step = AfterLegacy(h)]
  /\ UNCHANGED <<row, cursor, stored, fireflyMishaps>>
  /\ OthersUnchanged

(* The UPDATE throws, and so does the handler.                              *)
WriteLegacyFails(i) ==
  /\ handler[i] # NoRun
  /\ handler[i].step = "legacy"
  /\ Mishap
  /\ handler' = [handler EXCEPT ![i].step = "fail"]
  /\ UNCHANGED <<row, legacy, counted, cursor, stored>>
  /\ OthersUnchanged

(* deferWork, with the payload that holds the new last_skip: until the next *)
(* UTC midnight after a rate limit, until the next tick otherwise.          *)
Defer(i) ==
  /\ handler[i] # NoRun
  /\ handler[i].step = "defer"
  /\ DeferWork(i, IF handler[i].result = "limited" THEN 1 ELSE 0)
  /\ cursor' = [cursor EXCEPT ![i] = IF status[i] = "in_progress"
                                       THEN handler[i].skip ELSE @]
  /\ handler' = [handler EXCEPT ![i].step = "complete"]
  /\ UNCHANGED <<legacy, counted, stored, fireflyMishaps>>
  /\ OthersUnchanged

(* The handler returned, or threw: the driver's completeWork or failWork.   *)
EndWindow(i) ==
  /\ handler[i] # NoRun
  /\ \/ handler[i].step = "complete" /\ CompleteWork(i)
     \/ handler[i].step = "fail" /\ FailWork(i, attempt[i])
  /\ handler' = [handler EXCEPT ![i] = NoRun]
  /\ UNCHANGED <<legacy, counted, cursor, stored, fireflyMishaps>>
  /\ OthersUnchanged

HandlerDies(i) ==
  /\ handler[i] # NoRun
  /\ Mishap
  /\ handler' = [handler EXCEPT ![i] = NoRun]
  /\ UNCHANGED <<row, legacy, counted, cursor, stored>>
  /\ OthersUnchanged

SweepWindow(i) ==
  /\ i \in StaleClaims
  /\ SweepRelease(i, attempt[i])
  /\ UNCHANGED firefly

(* scanAndRepairIngestion, hourly: a dead window is put back with a new     *)
(* budget, whatever its parent says (that max_attempts is raised to at      *)
(* least six is left out).                                                  *)
RepairWindow(i) ==
  /\ status[i] = "dead_letter"
  /\ Mishap
  /\ status' = [status EXCEPT ![i] = "pending"]
  /\ attempt' = [attempt EXCEPT ![i] = 0]
  /\ UNCHANGED <<wait, lease, parent, legacy, counted, cursor, stored, handler,
                 creator, toQueue, monitor, canceller>>

(* No handler outlives the minute that started it.                          *)
FireflyTick ==
  /\ \A i \in Windows : handler[i] = NoRun
  /\ \E i \in Windows : wait[i] > 0 \/ lease[i] > 0
  /\ RunDown
  /\ UNCHANGED firefly

HandlerStep(i) ==
  \/ ReadParent(i) \/ Exhausted(i) \/ Ingest(i)
  \/ WriteLegacy(i) \/ Defer(i) \/ EndWindow(i)

HandlerFault(i) ==
  IngestFails(i) \/ Interrupted(i) \/ WriteLegacyFails(i) \/ HandlerDies(i)

MonitorStep == MonitorFind \/ MonitorCount \/ FinalizeCount \/ FinalizeParent

CreatorStep == CreateWindows \/ Created \/ \E i \in Windows : QueueWindow(i)

FireflyNext ==
  \/ CreateParent \/ CreatorStep \/ CreatorDies
  \/ CancelFind \/ CancelParent \/ CancelWindows \/ CancellerDies
  \/ MonitorStep \/ MonitorDies
  \/ \E i \in Windows :
       \/ ClaimWindow(i) \/ HandlerStep(i) \/ HandlerFault(i)
       \/ SweepWindow(i) \/ RepairWindow(i)
  \/ FireflyTick

FireflySpec == FireflyInit /\ [][FireflyNext]_fireflyVars

(* The minute cron claims, sweeps and monitors, handlers run, and a request *)
(* that was begun goes on.  Nobody has to begin one.                        *)
FireflyFairness ==
  /\ WF_fireflyVars(CreatorStep)
  /\ WF_fireflyVars(MonitorStep)
  /\ WF_fireflyVars(FireflyTick)
  /\ \A i \in Windows :
       /\ WF_fireflyVars(ClaimWindow(i))
       /\ WF_fireflyVars(HandlerStep(i))
       /\ WF_fireflyVars(SweepWindow(i))

------------------------------------------------------------------------------

(* The panel never claims a transcript that is not there: whatever runs are *)
(* killed between the window's counters and deferWork and begin again at    *)
(* the old last_skip, transcripts_persisted is at most what was stored.     *)
FireflyStored == \A i \in Windows : counted[i] <= Cardinality(stored[i])

(* "If operator cancelled the parent during runFireflyWindowBackfill ...    *)
(* the cancel path's status='failed' write on the legacy window stands      *)
(* uncontested": no handler in flight turns it back.                        *)
FireflyCancelStands ==
  [][\A i \in Windows :
       parent \notin {"none", "active"} /\ legacy[i] = "failed"
         => legacy'[i] = "failed"]_fireflyVars

(* A backfill ends: killed handlers, exhausted and renewed budgets and      *)
(* windows that were never queued do not leave its parent active for ever.  *)
FireflyEnds == parent = "active" ~> parent # "active"

(* What finalizeParent says of its verdict ("so the failures are visible"). *)
(* The code does not keep it: see the README.                               *)
FireflyWhole ==
  parent = "completed" => \A i \in Windows : stored[i] = Transcripts
=============================================================================
