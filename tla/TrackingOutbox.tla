--------------------------- MODULE TrackingOutbox ---------------------------
(***************************************************************************)
(* One Purchase event on its way to the advertising providers: capture,    *)
(* outbox row, relay, BullMQ job, dispatcher, reconciler, replay, and the  *)
(* revival of targets that were deferred to a validated order status.      *)
(*                                                                         *)
(* Several workers may hold jobs of the event at once.  A worker keeps the *)
(* attempt count it read when it started and writes the outbox by id, so   *)
(* each of its writes may land on a row that has moved on.  Whatever can   *)
(* go wrong (a crash, a database error, an enqueue refused, an answer      *)
(* lost, work that outlasts the ten minute windows) spends one fault.      *)
(***************************************************************************)
EXTENDS Naturals, FiniteSets

CONSTANTS
  Workers,      \* BullMQ workers of the "tracking" queue, numbered
  Targets,      \* the (provider, destination) pairs of the event
  Captures,     \* what may be captured: [trigger, mode, refused]
  MaxAttempts,  \* MAX_OUTBOX_ATTEMPTS
  JobAttempts,  \* attempts of one BullMQ job
  JobIds,       \* attempt counts a job id is built from
  MaxFaults,    \* bound: faults in one behaviour
  MaxCalls      \* bound: replays, removals, later validated transitions

Triggers == {"instant", "validated"}
CaptureType ==
  [trigger : Triggers, mode : [Targets -> Triggers], refused : SUBSET Targets]

ASSUME TrackingAssumption ==
  /\ Workers \subseteq Nat
  /\ Captures \subseteq CaptureType /\ Captures # {}
  /\ MaxAttempts \in Nat /\ JobAttempts \in Nat \ {0}
  /\ JobIds \subseteq Nat /\ 0 \in JobIds
  /\ {MaxFaults, MaxCalls} \subseteq Nat

VARIABLES
  event,     \* the snapshot and the capture-time configSnapshot, or NoEvent
  outbox,    \* the TrackingOutbox row
  row,       \* row[t]: the TrackingDispatch row of t
  jobs,      \* jobs[a]: the BullMQ job `${outboxId}-${a}`
  relay,     \* the attempt counts of claims not enqueued yet
  sweep,     \* TRUE when the reconciler is about to release a claim
  worker,    \* worker[w]: the run of a worker
  revival,   \* where ensureValidatedDispatch is
  removed,   \* destinations removed since
  accepted,  \* accepted[t]: how often the provider took the event
  spent      \* faults and calls so far

vars == <<event, outbox, row, jobs, relay, sweep, worker, revival, removed, accepted, spent>>

NoEvent == [trigger |-> "none", mode |-> [t \in Targets |-> "instant"],
            refused |-> {}, stale |-> FALSE]
NoJob == [st |-> "none", tries |-> 0]
KeptJob == [st |-> "kept", tries |-> 0]
NoRun == [job |-> 0, att |-> 0, st |-> "idle", pc |-> [t \in Targets |-> "out"]]

(* st "orphan": the worker died, BullMQ has not noticed.                   *)
JobStates == {"none", "waiting", "active", "orphan", "kept"}
RowStates == {"absent", "PENDING", "SENDING", "SENT", "RETRY", "FAILED", "SKIPPED"}

(* What a run still has to do for a target, then what came of it.          *)
Todo == {"read", "post", "ok"}
Results == {"SENT", "RETRY", "FAILED", "SKIPPED"}
Inside == {"post", "ok"}

WorkSet == {"PENDING", "SENDING", "RETRY"}
TerminalSuccess == {"SENT", "SKIPPED"}
Settled == {"SENT", "DEAD"}

(* Once, or more than once.                                                *)
Again(n) == IF n = 0 THEN 1 ELSE 2

Spend(kind) == spent' = [spent EXCEPT ![kind] = @ + 1]
MayFault == spent.faults < MaxFaults

(* Back to PENDING, the lock cleared.  nextAttemptAt is abstracted: it     *)
(* says when the relay claims the row, which may be any time later.        *)
Requeued(n) == [st |-> "PENDING", att |-> n, lock |-> "free"]

-----------------------------------------------------------------------------
(* capture: snapshot and outbox in one transaction; a repeat is DEDUPED.   *)

Capture(c) ==
  /\ event = NoEvent
  /\ event' = [trigger |-> c.trigger, mode |-> c.mode, refused |-> c.refused, stale |-> FALSE]
  /\ outbox' = Requeued(0)
  /\ UNCHANGED <<row, jobs, relay, sweep, worker, revival, removed, accepted, spent>>

(* A destination is deleted in the settings.                               *)
Remove(t) ==
  /\ event # NoEvent /\ t \notin removed /\ spent.calls < MaxCalls
  /\ removed' = removed \cup {t}
  /\ Spend("calls")
  /\ UNCHANGED <<event, outbox, row, jobs, relay, sweep, worker, revival, accepted>>

-----------------------------------------------------------------------------
(* The relay.                                                              *)

(* UPDATE ... WHERE status='PENDING' AND due AND lockedAt IS NULL.  BullMQ  *)
(* forgets an ended job when enough others have ended (removeOnComplete,   *)
(* removeOnFail): by the time of a claim, but not while it is enqueued.    *)
Claim ==
  /\ relay = {}
  /\ outbox.st = "PENDING" /\ outbox.lock = "free"
  /\ outbox' = [outbox EXCEPT !.st = "CLAIMED", !.lock = "fresh"]
  /\ relay' = {outbox.att}
  /\ \/ UNCHANGED jobs
     \/ jobs[outbox.att] = KeptJob /\ jobs' = [jobs EXCEPT ![outbox.att] = NoJob]
  /\ UNCHANGED <<event, row, sweep, worker, revival, removed, accepted, spent>>

(* An id BullMQ still has is ignored: the claim then has no job.           *)
Enqueue(a) ==
  /\ a \in relay
  /\ IF jobs[a] = NoJob
     THEN jobs' = [jobs EXCEPT ![a] = [st |-> "waiting", tries |-> 0]]
     ELSE UNCHANGED jobs
  /\ relay' = {}
  /\ UNCHANGED <<event, outbox, row, sweep, worker, revival, removed, accepted, spent>>

(* releaseLock, by id, whatever the row has become.                        *)
EnqueueFails ==
  /\ relay # {} /\ MayFault
  /\ outbox' = Requeued(outbox.att + 1)
  /\ relay' = {}
  /\ Spend("faults")
  /\ UNCHANGED <<event, row, jobs, sweep, worker, revival, removed, accepted>>

RelayCrash ==
  /\ relay # {} /\ MayFault
  /\ relay' = {}
  /\ Spend("faults")
  /\ UNCHANGED <<event, outbox, row, jobs, sweep, worker, revival, removed, accepted>>

-----------------------------------------------------------------------------
(* The dispatcher: run.                                                    *)

OnTime(t) == event.mode[t] = event.trigger
Ended(w) == worker' = [worker EXCEPT ![w] = NoRun]
To(w, t, pc) == worker' = [worker EXCEPT ![w].pc[t] = pc]
Kept(a) == [jobs EXCEPT ![a] = KeptJob]

(* BullMQ runs a job that threw again, until its attempts are used up.     *)
Retried(a) ==
  [jobs EXCEPT ![a] = IF @.tries + 1 < JobAttempts
                      THEN [st |-> "waiting", tries |-> @.tries + 1]
                      ELSE KeptJob]

(* The worker reads the outbox and the live destinations.  A settled row   *)
(* ends the job.  Targets that are not due are parked as SKIPPED; an event *)
(* past the age limit goes no further.  Idle workers are alike: the first  *)
(* of them takes the job.                                                  *)
Begin(w, a) ==
  /\ worker[w] = NoRun /\ \A v \in Workers : v < w => worker[v] # NoRun
  /\ jobs[a].st = "waiting"
  /\ IF outbox.st \in Settled
     THEN jobs' = Kept(a) /\ UNCHANGED <<row, worker>>
     ELSE LET Parked == {t \in Targets : t \in removed \/ ~OnTime(t)} IN
          /\ jobs' = [jobs EXCEPT ![a].st = "active"]
          /\ row' = [t \in Targets |->
               IF t \in Parked /\ row[t] # "SENT" THEN "SKIPPED" ELSE row[t]]
          /\ worker' = [worker EXCEPT ![w] =
               [job |-> a, att |-> outbox.att, st |-> "run",
                pc |-> [t \in Targets |->
                         IF t \in Parked \/ event.stale THEN "out" ELSE "read"]]]
  /\ UNCHANGED <<event, outbox, relay, sweep, revival, removed, accepted, spent>>

(* Mutant of Taken: a row sent before is taken on again.                   *)
TakenAgain(t) == row[t] \in WorkSet \cup {"absent", "SENT"}

(* dispatchProvider for every target, all under way at once: find or       *)
(* create the row; only a row of the work set is taken on, any other       *)
(* reports its status.  A payload the adapter refuses to build is SKIPPED. *)
Taken(t) == row[t] \in WorkSet \cup {"absent"}
FirstStatus(t) ==
  IF ~Taken(t) THEN row[t] ELSE IF t \in event.refused THEN "SKIPPED" ELSE "SENDING"

TakeOn(w) ==
  /\ worker[w].st = "run"
  /\ LET Mine == {t \in Targets : worker[w].pc[t] = "read"} IN
     /\ row' = [t \in Targets |-> IF t \in Mine THEN FirstStatus(t) ELSE row[t]]
     /\ worker' = [worker EXCEPT ![w].st = "sending", ![w].pc = [t \in Targets |->
          IF t \notin Mine THEN "out" ELSE IF row'[t] = "SENDING" THEN "post" ELSE row'[t]]]
  /\ UNCHANGED <<event, outbox, jobs, relay, sweep, revival, removed, accepted, spent>>

Report(w, t, st) ==
  /\ row' = [row EXCEPT ![t] = st]
  /\ To(w, t, st)

(* The provider takes the event.                                           *)
Post(w, t) ==
  /\ worker[w].pc[t] = "post"
  /\ accepted' = [accepted EXCEPT ![t] = Again(@)]
  /\ To(w, t, "ok")
  /\ UNCHANGED <<event, outbox, row, jobs, relay, sweep, revival, removed, spent>>

WriteSent(w, t) ==
  /\ worker[w].pc[t] = "ok"
  /\ Report(w, t, "SENT")
  /\ UNCHANGED <<event, outbox, jobs, relay, sweep, revival, removed, accepted, spent>>

(* It refuses the event, for now or for good.                              *)
PostRefused(w, t) ==
  /\ worker[w].pc[t] = "post"
  /\ Report(w, t, "RETRY") \/ Report(w, t, "FAILED")
  /\ UNCHANGED <<event, outbox, jobs, relay, sweep, revival, removed, accepted, spent>>

(* It takes the event and the answer is lost: a retryable failure.         *)
PostUnanswered(w, t) ==
  /\ worker[w].pc[t] = "post" /\ MayFault
  /\ accepted' = [accepted EXCEPT ![t] = Again(@)]
  /\ Report(w, t, "RETRY")
  /\ Spend("faults")
  /\ UNCHANGED <<event, outbox, jobs, relay, sweep, revival, removed>>

(* Anything thrown in dispatchProvider makes the target FAILED; the row    *)
(* too, if the database still answers.                                     *)
Break(w, t) ==
  /\ worker[w].pc[t] \in Inside /\ MayFault
  /\ Report(w, t, "FAILED") \/ (To(w, t, "FAILED") /\ UNCHANGED row)
  /\ Spend("faults")
  /\ UNCHANGED <<event, outbox, jobs, relay, sweep, revival, removed, accepted>>

-----------------------------------------------------------------------------
(* The dispatcher: advanceOutbox, terminalOutbox.                          *)

ResultsOf(w) == {worker[w].pc[t] : t \in Targets} \cap Results
AllIn(w) == worker[w].st = "sending" /\ \A t \in Targets : worker[w].pc[t] \in Results \cup {"out"}

(* The lock stays on a settled row.                                        *)
Terminal(st) == [outbox EXCEPT !.st = st]

(* Mutant of Advanced: a permanent failure counts as handled.              *)
AdvancedAnyway(w) ==
  IF ResultsOf(w) \subseteq TerminalSuccess \cup {"FAILED"} /\ ~event.stale THEN Terminal("SENT")
  ELSE Terminal("DEAD")

(* Mutant of Advanced: retries without a limit.                            *)
AdvancedForever(w) ==
  IF event.stale THEN Terminal("DEAD")
  ELSE IF ResultsOf(w) \subseteq TerminalSuccess THEN Terminal("SENT")
  ELSE IF ResultsOf(w) \subseteq TerminalSuccess \cup {"FAILED"} THEN Terminal("DEAD")
  ELSE Requeued(worker[w].att + 1)

Advanced(w) ==
  IF event.stale THEN Terminal("DEAD")
  ELSE IF ResultsOf(w) \subseteq TerminalSuccess THEN Terminal("SENT")
  ELSE IF ResultsOf(w) \subseteq TerminalSuccess \cup {"FAILED"} THEN Terminal("DEAD")
  ELSE IF worker[w].att + 1 > MaxAttempts THEN Terminal("DEAD")
  ELSE Requeued(worker[w].att + 1)

Advance(w) ==
  /\ AllIn(w)
  /\ outbox' = Advanced(w)
  /\ jobs' = Kept(worker[w].job)
  /\ Ended(w)
  /\ UNCHANGED <<event, row, relay, sweep, revival, removed, accepted, spent>>

(* The audit event after the write fails: releaseStuckOutbox finds nothing *)
(* CLAIMED, and BullMQ runs the job again.                                 *)
AdvanceThrows(w) ==
  /\ AllIn(w) /\ MayFault
  /\ outbox' = Advanced(w)
  /\ jobs' = Retried(worker[w].job)
  /\ Ended(w)
  /\ Spend("faults")
  /\ UNCHANGED <<event, row, relay, sweep, revival, removed, accepted>>

(* run throws outside dispatchProvider: releaseStuckOutbox, if it can.     *)
RunThrows(w) ==
  /\ worker[w].st = "run" \/ AllIn(w)
  /\ MayFault
  /\ \/ outbox.st = "CLAIMED" /\ outbox' = Requeued(outbox.att + 1)
     \/ UNCHANGED outbox
  /\ jobs' = Retried(worker[w].job)
  /\ Ended(w)
  /\ Spend("faults")
  /\ UNCHANGED <<event, row, relay, sweep, revival, removed, accepted>>

Crash(w) ==
  /\ worker[w] # NoRun /\ MayFault
  /\ jobs' = [jobs EXCEPT ![worker[w].job].st = "orphan"]
  /\ Ended(w)
  /\ Spend("faults")
  /\ UNCHANGED <<event, outbox, row, relay, sweep, revival, removed, accepted>>

(* BullMQ: a stalled job waits again, or has failed.                       *)
Stalled(a) ==
  /\ jobs[a].st = "orphan"
  /\ jobs' = Retried(a)
  /\ UNCHANGED <<event, outbox, row, relay, sweep, worker, revival, removed, accepted, spent>>

-----------------------------------------------------------------------------
(* The reconciler, and the ten minutes it waits for.  A send is over in    *)
(* that time; a claim grows that old while its job is alive only when the  *)
(* queue is slow: that is a fault.                                         *)

Busy == relay # {} \/ \E a \in JobIds : jobs[a].st \in {"waiting", "active"}
Sending(t) == \E w \in Workers : worker[w].pc[t] \in Inside

ClaimAges ==
  /\ outbox.st = "CLAIMED" /\ outbox.lock = "fresh"
  /\ outbox' = [outbox EXCEPT !.lock = "stale"]
  /\ IF Busy THEN MayFault /\ Spend("faults") ELSE UNCHANGED spent
  /\ UNCHANGED <<event, row, jobs, relay, sweep, worker, revival, removed, accepted>>

StuckClaim == outbox.st = "CLAIMED" /\ outbox.lock = "stale"

(* Mutant of SweepRead: only rows not given up on yet are looked at.       *)
SweepReadTimid ==
  /\ ~sweep
  /\ StuckClaim /\ outbox.att < MaxAttempts
  /\ sweep' = TRUE
  /\ UNCHANGED <<event, outbox, row, jobs, relay, worker, revival, removed, accepted, spent>>

(* No dispatch of the event is SENDING or RETRY and recently active.       *)
SweepRead ==
  /\ ~sweep
  /\ StuckClaim /\ \A t \in Targets : ~Sending(t)
  /\ sweep' = TRUE
  /\ UNCHANGED <<event, outbox, row, jobs, relay, worker, revival, removed, accepted, spent>>

(* updateMany where the claim is still stale; the rows are not read again. *)
SweepRelease ==
  /\ sweep
  /\ IF StuckClaim THEN outbox' = Requeued(outbox.att + 1) ELSE UNCHANGED outbox
  /\ sweep' = FALSE
  /\ UNCHANGED <<event, row, jobs, relay, worker, revival, removed, accepted, spent>>

SweepHung(t) ==
  /\ row[t] = "SENDING" /\ ~Sending(t)
  /\ row' = [row EXCEPT ![t] = "RETRY"]
  /\ UNCHANGED <<event, outbox, jobs, relay, sweep, worker, revival, removed, accepted, spent>>

-----------------------------------------------------------------------------
(* replay: DEAD to PENDING with a fresh attempt cycle; dispatch rows stay. *)
(* By then the event may be older than the providers take.  The status is  *)
(* read and the row written in one step.                                   *)

Replay ==
  /\ outbox.st = "DEAD" /\ spent.calls < MaxCalls
  /\ outbox' = Requeued(0)
  /\ \E old \in BOOLEAN : event' = [event EXCEPT !.stale = @ \/ old]
  /\ Spend("calls")
  /\ UNCHANGED <<row, jobs, relay, sweep, worker, revival, removed, accepted>>

-----------------------------------------------------------------------------
(* firePurchaseValidated after an instant capture: ensureValidatedDispatch *)
(* revives the targets of validated mode, then the outbox it read before.  *)

ReviveRead ==
  /\ event.trigger = "instant" /\ revival = "idle" /\ spent.calls < MaxCalls
  /\ \E t \in Targets : event.mode[t] = "validated"
  /\ revival' = outbox.st
  /\ Spend("calls")
  /\ UNCHANGED <<event, outbox, row, jobs, relay, sweep, worker, removed, accepted>>

Revivable == {t \in Targets : event.mode[t] = "validated" /\ row[t] \in {"SKIPPED", "absent"}}

ReviveRows ==
  /\ revival \notin {"idle", "write"}
  /\ row' = [t \in Targets |-> IF t \in Revivable THEN "PENDING" ELSE row[t]]
  /\ revival' = IF Revivable = {} \/ revival = "PENDING" THEN "idle" ELSE "write"
  /\ UNCHANGED <<event, outbox, jobs, relay, sweep, worker, removed, accepted, spent>>

(* attemptCount is kept.                                                   *)
ReviveOutbox ==
  /\ revival = "write"
  /\ outbox' = Requeued(outbox.att)
  /\ revival' = "idle"
  /\ UNCHANGED <<event, row, jobs, relay, sweep, worker, removed, accepted, spent>>

-----------------------------------------------------------------------------
Init ==
  /\ event = NoEvent
  /\ outbox = [st |-> "none", att |-> 0, lock |-> "free"]
  /\ row = [t \in Targets |-> "absent"]
  /\ jobs = [a \in JobIds |-> NoJob]
  /\ relay = {}
  /\ sweep = FALSE
  /\ worker = [w \in Workers |-> NoRun]
  /\ revival = "idle"
  /\ removed = {}
  /\ accepted = [t \in Targets |-> 0]
  /\ spent = [faults |-> 0, calls |-> 0]

(* What a worker does of its own accord.                                   *)
Work(w) ==
  \/ \E a \in JobIds : Begin(w, a)
  \/ TakeOn(w)
  \/ \E t \in Targets :
       \/ Post(w, t)
       \/ PostRefused(w, t)
       \/ WriteSent(w, t)
  \/ Advance(w)

Fault ==
  \/ EnqueueFails
  \/ RelayCrash
  \/ \E w \in Workers :
       \/ AdvanceThrows(w)
       \/ RunThrows(w)
       \/ Crash(w)
       \/ \E t \in Targets : PostUnanswered(w, t) \/ Break(w, t)

Relay == Claim \/ \E a \in JobIds : Enqueue(a)
StalledCheck == \E a \in JobIds : Stalled(a)
ReleaseStale == SweepRead \/ SweepRelease

Revive ==
  \/ ReviveRead
  \/ ReviveRows
  \/ ReviveOutbox

Next ==
  \/ \E c \in Captures : Capture(c)
  \/ \E t \in Targets : Remove(t) \/ SweepHung(t)
  \/ Relay
  \/ StalledCheck
  \/ \E w \in Workers : Work(w)
  \/ Fault
  \/ ClaimAges
  \/ ReleaseStale
  \/ Replay
  \/ Revive

(* The relay polls, workers work, BullMQ looks for stalled jobs, time      *)
(* passes, the reconciler sweeps.  Nobody need replay, and a revival may   *)
(* stop half way.                                                          *)
Fairness ==
  /\ WF_vars(Relay)
  /\ \A w \in Workers : WF_vars(Work(w))
  /\ \A a \in JobIds : WF_vars(Stalled(a))
  /\ WF_vars(ClaimAges)
  /\ WF_vars(SweepRead) /\ WF_vars(SweepRelease)

Spec == Init /\ [][Next]_vars /\ Fairness

-----------------------------------------------------------------------------
(* Every variable has its type; attempt counts stay within the job ids.    *)
TypeOK ==
  /\ event \in {NoEvent} \cup
       [trigger : Triggers, mode : [Targets -> Triggers], refused : SUBSET Targets, stale : BOOLEAN]
  /\ outbox \in [st : {"none", "PENDING", "CLAIMED", "SENT", "DEAD"}, att : JobIds,
                 lock : {"free", "fresh", "stale"}]
  /\ row \in [Targets -> RowStates]
  /\ jobs \in [JobIds -> [st : JobStates, tries : 0..JobAttempts]]
  /\ relay \subseteq JobIds
  /\ sweep \in BOOLEAN
  /\ worker \in [Workers -> [job : JobIds, att : JobIds, st : {"idle", "run", "sending"},
                             pc : [Targets -> Todo \cup Results \cup {"out"}]]]
  /\ revival \in {"idle", "write", "PENDING", "CLAIMED", "SENT", "DEAD"}
  /\ removed \subseteq Targets
  /\ accepted \in [Targets -> 0..2]
  /\ spent \in [faults : 0..MaxFaults, calls : 0..MaxCalls]

(* "Every eligible provider SENT/SKIPPED/DEDUPED -> outbox SENT": an event *)
(* marked SENT was taken by every target it was due at, whatever crashed,  *)
(* overlapped or was replayed on the way.                                  *)
SentMeansAccepted ==
  outbox.st = "SENT" =>
    \A t \in Targets :
      accepted[t] > 0 \/ ~OnTime(t) \/ t \in removed \cup event.refused

(* "Terminal rows are never re-processed", "replay is duplicate-safe": a   *)
(* target takes the event twice only after something failed or was slow;   *)
(* retries, a replay or a revival alone never repeat a delivery.           *)
DuplicatesNeedFaults ==
  spent.faults = 0 => \A t \in Targets : accepted[t] <= 1

(* "The claim predicate never permanently excludes a row": an event under  *)
(* way ends SENT or DEAD, lost jobs, dead workers and ignored job ids      *)
(* notwithstanding.                                                        *)
Settles == outbox.st \in {"PENDING", "CLAIMED"} ~> outbox.st \in Settled
=============================================================================
