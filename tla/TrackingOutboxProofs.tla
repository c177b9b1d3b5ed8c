------------------------ MODULE TrackingOutboxProofs ------------------------
(***************************************************************************)
(* An outbox row marked SENT was taken by every target it was due at, for  *)
(* any number of workers, targets, attempts and faults.  The verdict of    *)
(* advanceOutbox rests on what a run remembers, so the invariant says what *)
(* a row and a memory are worth, whatever overlapped in the meantime.      *)
(*                                                                         *)
(* While nothing goes wrong no target takes the event twice: there is one  *)
(* job, one run, and what it did is written down or in its hands.          *)
(***************************************************************************)
EXTENDS TrackingOutbox, TLAPS

(* The event is not owed to t, or t has it.  Once true, it stays true.     *)
Excused(t) == accepted[t] > 0 \/ ~OnTime(t) \/ t \in removed \cup event.refused

Shape ==
  /\ event \in {NoEvent} \cup
       [trigger : Triggers, mode : [Targets -> Triggers], refused : SUBSET Targets, stale : BOOLEAN]
  /\ outbox \in [st : {"none", "PENDING", "CLAIMED", "SENT", "DEAD"}, att : Nat,
                 lock : {"free", "fresh", "stale"}]
  /\ row \in [Targets -> RowStates]
  /\ worker \in [Workers -> [job : JobIds, att : Nat, st : {"idle", "run", "sending"},
                             pc : [Targets -> Todo \cup Results \cup {"out"}]]]
  /\ accepted \in [Targets -> Nat]

(* Before the capture nothing moves.                                       *)
Still ==
  /\ outbox.st = "none"
  /\ row = [t \in Targets |-> "absent"]
  /\ jobs = [a \in JobIds |-> NoJob]
  /\ relay = {}
  /\ sweep = FALSE
  /\ worker = [w \in Workers |-> NoRun]
  /\ revival = "idle"
Unborn == event = NoEvent => Still

(* A SENT row was accepted, a SKIPPED row is excused.                      *)
RowsExcused ==
  \A t \in Targets :
    /\ row[t] = "SENT" => accepted[t] > 0
    /\ row[t] = "SKIPPED" => Excused(t)

(* So are the results a run remembers; and a run left a target out for a   *)
(* reason, unless the event had grown stale, which never ends in SENT.     *)
RunExcused(w) ==
  /\ worker[w].st = "run" => \A t \in Targets : worker[w].pc[t] \in {"out", "read"}
  /\ \A t \in Targets :
       /\ worker[w].pc[t] \in {"ok", "SENT"} => accepted[t] > 0
       /\ worker[w].pc[t] = "SKIPPED" => Excused(t)
       /\ worker[w].st # "idle" /\ worker[w].pc[t] = "out" => Excused(t) \/ event.stale
RunsExcused == \A w \in Workers : RunExcused(w)

SentInv ==
  /\ Shape
  /\ Unborn
  /\ RowsExcused
  /\ RunsExcused
  /\ SentMeansAccepted

-----------------------------------------------------------------------------
(* What no step after the capture takes back.                              *)
Grows ==
  /\ event'.trigger = event.trigger /\ event'.mode = event.mode
  /\ event'.refused = event.refused /\ (event.stale => event'.stale)
  /\ removed \subseteq removed'
  /\ \A t \in Targets : accepted[t] > 0 => accepted'[t] > 0

LEMMA ExcusedStays ==
  ASSUME Grows, NEW t \in Targets, Excused(t)
  PROVE  Excused(t)'
BY DEF Grows, Excused, OnTime

LEMMA SameGrows ==
  ASSUME UNCHANGED <<event, removed, accepted>>
  PROVE  Grows
BY DEF Grows

LEMMA RowsStay ==
  ASSUME RowsExcused, Grows, UNCHANGED row
  PROVE  RowsExcused'
<1>. SUFFICES ASSUME NEW t \in Targets
              PROVE  /\ row'[t] = "SENT" => accepted'[t] > 0
                     /\ row'[t] = "SKIPPED" => Excused(t)'
  BY DEF RowsExcused
<1>1. row'[t] = "SENT" => accepted'[t] > 0
  BY DEF RowsExcused, Grows
<1>2. row'[t] = "SKIPPED" => Excused(t)'
  BY ExcusedStays DEF RowsExcused
<1>. QED BY <1>1, <1>2

(* A step of one worker leaves the memories of the others alone.           *)
LEMMA RunStays ==
  ASSUME Grows, NEW w \in Workers, RunExcused(w), worker'[w] = worker[w]
  PROVE  RunExcused(w)'
<1>1. ASSUME NEW t \in Targets
      PROVE  /\ worker'[w].pc[t] \in {"ok", "SENT"} => accepted'[t] > 0
             /\ worker'[w].pc[t] = "SKIPPED" => Excused(t)'
             /\ worker'[w].st # "idle" /\ worker'[w].pc[t] = "out" => Excused(t)' \/ event'.stale
  <2>1. worker'[w].pc[t] \in {"ok", "SENT"} => accepted'[t] > 0
    BY DEF RunExcused, Grows
  <2>2. worker'[w].pc[t] = "SKIPPED" => Excused(t)'
    BY ExcusedStays DEF RunExcused
  <2>3. worker'[w].st # "idle" /\ worker'[w].pc[t] = "out" => Excused(t)' \/ event'.stale
    BY ExcusedStays DEF RunExcused, Grows
  <2>. QED BY <2>1, <2>2, <2>3
<1>2. worker'[w].st = "run" => \A t \in Targets : worker'[w].pc[t] \in {"out", "read"}
  BY DEF RunExcused
<1>. QED BY <1>1, <1>2 DEF RunExcused

LEMMA RunsStay ==
  ASSUME RunsExcused, Grows, UNCHANGED worker
  PROVE  RunsExcused'
<1>1. ASSUME NEW w \in Workers
      PROVE  RunExcused(w)'
  BY RunStays DEF RunsExcused
<1>. QED BY <1>1 DEF RunsExcused

(* A verdict given before stands.                                          *)
LEMMA VerdictStays ==
  ASSUME SentMeansAccepted, Grows, outbox'.st = "SENT" => outbox.st = "SENT"
  PROVE  SentMeansAccepted'
<1>. SUFFICES ASSUME outbox'.st = "SENT", NEW t \in Targets
              PROVE  Excused(t)'
  BY DEF SentMeansAccepted, Excused, OnTime
<1>1. Excused(t)
  BY DEF SentMeansAccepted, Excused
<1>. QED BY <1>1, ExcusedStays

(* A step that touches neither rows nor runs and gives no verdict.         *)
LEMMA QuietStep ==
  ASSUME RowsExcused, RunsExcused, SentMeansAccepted, Grows, UNCHANGED <<row, worker>>,
         outbox'.st = "SENT" => outbox.st = "SENT"
  PROVE  RowsExcused' /\ RunsExcused' /\ SentMeansAccepted'
BY RowsStay, RunsStay, VerdictStays

-----------------------------------------------------------------------------
(* Before the capture only the capture can happen.                         *)
LEMMA OnlyCapture ==
  ASSUME event = NoEvent, Still, Next
  PROVE  \E c \in Captures : Capture(c)
<1>w. ASSUME NEW w \in Workers
      PROVE  /\ worker[w] = NoRun /\ worker[w].st = "idle"
             /\ \A t \in Targets : worker[w].pc[t] = "out"
  BY DEF Still, NoRun
<1>j. \A a \in JobIds : jobs[a].st = "none"
  BY DEF Still, NoJob
<1>1. ASSUME NEW t \in Targets
      PROVE  ~Remove(t) /\ ~SweepHung(t)
  BY DEF Remove, SweepHung, Still
<1>2. ~Relay /\ ~StalledCheck
  BY <1>j DEF Relay, Claim, Enqueue, StalledCheck, Stalled, Still
<1>3. ASSUME NEW w \in Workers
      PROVE  ~Work(w)
  <2>1. \A a \in JobIds : ~Begin(w, a)
    BY <1>j DEF Begin
  <2>2. ~TakeOn(w) /\ ~Advance(w)
    BY <1>w DEF TakeOn, Advance, AllIn
  <2>3. \A t \in Targets : ~Post(w, t) /\ ~PostRefused(w, t) /\ ~WriteSent(w, t)
    BY <1>w DEF Post, PostRefused, WriteSent
  <2>. QED BY <2>1, <2>2, <2>3 DEF Work
<1>4. ~Fault
  <2>1. ~EnqueueFails /\ ~RelayCrash
    BY DEF EnqueueFails, RelayCrash, Still
  <2>2. \A w \in Workers : ~AdvanceThrows(w) /\ ~RunThrows(w) /\ ~Crash(w)
    BY <1>w DEF AdvanceThrows, RunThrows, Crash, AllIn
  <2>3. \A w \in Workers, t \in Targets : ~PostUnanswered(w, t) /\ ~Break(w, t)
    BY <1>w DEF PostUnanswered, Break, Inside
  <2>. QED BY <2>1, <2>2, <2>3 DEF Fault
<1>5. ~ClaimAges /\ ~ReleaseStale /\ ~Replay
  BY DEF ClaimAges, ReleaseStale, SweepRead, SweepRelease, StuckClaim, Replay, Still
<1>6. ~Revive
  BY DEF Revive, ReviveRead, ReviveRows, ReviveOutbox, Still, NoEvent
<1>. QED BY <1>1, <1>2, <1>3, <1>4, <1>5, <1>6 DEF Next

-----------------------------------------------------------------------------
(* The types.                                                              *)

LEMMA RequeuedShape ==
  ASSUME NEW n \in Nat
  PROVE  Requeued(n) \in [st : {"none", "PENDING", "CLAIMED", "SENT", "DEAD"}, att : Nat,
                          lock : {"free", "fresh", "stale"}]
BY DEF Requeued

(* Only the type of what a step writes has to be shown again.              *)
LEMMA ToShape ==
  ASSUME Shape, NEW w \in Workers, NEW t \in Targets,
         NEW pc \in Todo \cup Results \cup {"out"}, To(w, t, pc)
  PROVE  worker' \in [Workers -> [job : JobIds, att : Nat, st : {"idle", "run", "sending"},
                                  pc : [Targets -> Todo \cup Results \cup {"out"}]]]
BY DEF Shape, To

LEMMA EndedShape ==
  ASSUME Shape, NEW w \in Workers, Ended(w)
  PROVE  worker' \in [Workers -> [job : JobIds, att : Nat, st : {"idle", "run", "sending"},
                                  pc : [Targets -> Todo \cup Results \cup {"out"}]]]
<1>1. NoRun \in [job : JobIds, att : Nat, st : {"idle", "run", "sending"},
                 pc : [Targets -> Todo \cup Results \cup {"out"}]]
  BY TrackingAssumption DEF TrackingAssumption, NoRun
<1>. QED BY <1>1 DEF Shape, Ended

LEMMA AdvancedShape ==
  ASSUME Shape, NEW w \in Workers
  PROVE  Advanced(w) \in [st : {"none", "PENDING", "CLAIMED", "SENT", "DEAD"}, att : Nat,
                          lock : {"free", "fresh", "stale"}]
<1>1. worker[w].att + 1 \in Nat
  BY DEF Shape
<1>2. /\ Requeued(worker[w].att + 1) \in [st : {"none", "PENDING", "CLAIMED", "SENT", "DEAD"},
                                          att : Nat, lock : {"free", "fresh", "stale"}]
      /\ \A st \in {"SENT", "DEAD"} :
           Terminal(st) \in [st : {"none", "PENDING", "CLAIMED", "SENT", "DEAD"},
                             att : Nat, lock : {"free", "fresh", "stale"}]
  BY <1>1, RequeuedShape DEF Shape, Terminal
<1>. QED BY <1>2 DEF Advanced

-----------------------------------------------------------------------------
(* One lemma per kind of step.                                             *)

LEMMA CaptureKeeps ==
  ASSUME SentInv, NEW c \in Captures, Capture(c)
  PROVE  SentInv'
<1>s. Still
  BY DEF SentInv, Unborn, Capture
<1>c. c \in CaptureType
  BY TrackingAssumption DEF TrackingAssumption
<1>e. /\ event' \in [trigger : Triggers, mode : [Targets -> Triggers],
                     refused : SUBSET Targets, stale : BOOLEAN]
      /\ event'.trigger \in Triggers
  BY <1>c DEF Capture, CaptureType
<1>1. Shape'
  BY <1>e, RequeuedShape DEF SentInv, Shape, Capture
<1>2. Unborn'
  BY <1>e DEF Unborn, NoEvent, Triggers
<1>3. RowsExcused'
  BY <1>s DEF RowsExcused, Capture, Still
<1>4. RunsExcused'
  BY <1>s DEF RunsExcused, RunExcused, Capture, Still, NoRun
<1>5. SentMeansAccepted'
  BY DEF SentMeansAccepted, Capture, Requeued
<1>. QED BY <1>1, <1>2, <1>3, <1>4, <1>5 DEF SentInv

(* The steps of the relay, the queue, the clock and the reconciler.        *)
Background ==
  \/ \E t \in Targets : Remove(t)
  \/ Relay \/ EnqueueFails \/ RelayCrash \/ StalledCheck
  \/ ClaimAges \/ ReleaseStale
  \/ ReviveRead \/ ReviveOutbox

LEMMA BackgroundKeeps ==
  ASSUME SentInv, event # NoEvent, Background
  PROVE  SentInv' /\ event' # NoEvent
<1>o. outbox.att \in Nat /\ outbox.att + 1 \in Nat
  BY DEF SentInv, Shape
<1>1. UNCHANGED <<event, row, worker, accepted>> /\ removed \subseteq removed'
  BY DEF Background, Remove, Relay, Claim, Enqueue, EnqueueFails, RelayCrash, StalledCheck,
         Stalled, ClaimAges, ReleaseStale, SweepRead, SweepRelease, ReviveRead, ReviveOutbox
<1>2. /\ outbox' \in [st : {"none", "PENDING", "CLAIMED", "SENT", "DEAD"}, att : Nat,
                      lock : {"free", "fresh", "stale"}]
      /\ outbox'.st = "SENT" => outbox.st = "SENT"
  <2>1. CASE UNCHANGED outbox
    BY <2>1 DEF SentInv, Shape
  <2>2. CASE \E n \in {outbox.att, outbox.att + 1} : outbox' = Requeued(n)
    BY <2>2, <1>o, RequeuedShape DEF Requeued
  <2>3. CASE Claim \/ ClaimAges
    BY <2>3 DEF SentInv, Shape, Claim, ClaimAges
  <2>. QED BY <2>1, <2>2, <2>3 DEF Background, Remove, Relay, Enqueue, EnqueueFails,
              RelayCrash, StalledCheck, Stalled, ReleaseStale, SweepRead, SweepRelease,
              ReviveRead, ReviveOutbox
<1>3. Grows
  BY <1>1 DEF Grows
<1>4. RowsExcused' /\ RunsExcused' /\ SentMeansAccepted'
  BY <1>1, <1>2, <1>3, QuietStep DEF SentInv
<1>5. Shape'
  BY <1>1, <1>2 DEF SentInv, Shape
<1>. QED BY <1>1, <1>4, <1>5 DEF SentInv, Unborn

LEMMA ReplayKeeps ==
  ASSUME SentInv, event # NoEvent, Replay
  PROVE  SentInv' /\ event' # NoEvent
<1>e. event \in [trigger : Triggers, mode : [Targets -> Triggers], refused : SUBSET Targets,
                 stale : BOOLEAN]
  BY DEF SentInv, Shape
<1>1. PICK old \in BOOLEAN : event' = [event EXCEPT !.stale = @ \/ old]
  BY DEF Replay
<1>2. /\ event' \in [trigger : Triggers, mode : [Targets -> Triggers], refused : SUBSET Targets,
                     stale : BOOLEAN]
      /\ event'.trigger = event.trigger /\ event'.mode = event.mode
      /\ event'.refused = event.refused /\ (event.stale => event'.stale)
  BY <1>e, <1>1
<1>3. Grows
  BY <1>2 DEF Grows, Replay
<1>4. outbox'.st = "PENDING"
  BY DEF Replay, Requeued
<1>5. RowsExcused' /\ RunsExcused' /\ SentMeansAccepted'
  BY <1>3, <1>4, QuietStep DEF SentInv, Replay
<1>6. Shape'
  BY <1>2, RequeuedShape DEF SentInv, Shape, Replay
<1>7. event' # NoEvent
  BY <1>e, <1>2 DEF NoEvent, Triggers
<1>. QED BY <1>5, <1>6, <1>7 DEF SentInv, Unborn

(* Rows put back to work claim nothing.                                    *)
LEMMA RowsReopened ==
  ASSUME SentInv, event # NoEvent, ReviveRows \/ \E t \in Targets : SweepHung(t)
  PROVE  SentInv' /\ event' # NoEvent
<1>1. /\ UNCHANGED <<event, outbox, worker, removed, accepted>>
      /\ row' \in [Targets -> RowStates]
      /\ \A t \in Targets : row'[t] \in {row[t], "PENDING", "RETRY"}
  BY DEF SentInv, Shape, ReviveRows, SweepHung, RowStates
<1>2. Grows
  BY <1>1, SameGrows
<1>3. RowsExcused'
  <2>. SUFFICES ASSUME NEW t \in Targets
                PROVE  /\ row'[t] = "SENT" => accepted'[t] > 0
                       /\ row'[t] = "SKIPPED" => Excused(t)'
    BY DEF RowsExcused
  <2>1. row'[t] \in {"SENT", "SKIPPED"} => row'[t] = row[t]
    BY <1>1
  <2>. QED BY <1>1, <1>2, <2>1, ExcusedStays DEF SentInv, RowsExcused
<1>4. RunsExcused' /\ SentMeansAccepted'
  BY <1>1, <1>2, RunsStay, VerdictStays DEF SentInv
<1>5. Shape'
  BY <1>1 DEF SentInv, Shape
<1>. QED BY <1>1, <1>3, <1>4, <1>5 DEF SentInv, Unborn

-----------------------------------------------------------------------------
(* The steps of a worker.                                                  *)

LEMMA BeginKeeps ==
  ASSUME SentInv, event # NoEvent, NEW w \in Workers, NEW a \in JobIds, Begin(w, a)
  PROVE  SentInv' /\ event' # NoEvent
<1>g. UNCHANGED <<event, outbox, removed, accepted>> /\ Grows
  BY SameGrows DEF Begin
<1>v. SentMeansAccepted'
  BY <1>g, VerdictStays DEF SentInv
<1>1. CASE outbox.st \in Settled
  <2>1. UNCHANGED <<row, worker>>
    BY <1>1 DEF Begin
  <2>. QED BY <1>g, <1>v, <2>1, RowsStay, RunsStay DEF SentInv, Shape, Unborn
<1>2. CASE outbox.st \notin Settled
  <2> DEFINE Parked == {t \in Targets : t \in removed \/ ~OnTime(t)}
             Memory == [t \in Targets |-> IF t \in Parked \/ event.stale THEN "out" ELSE "read"]
  <2>1. /\ row' = [t \in Targets |-> IF t \in Parked /\ row[t] # "SENT" THEN "SKIPPED" ELSE row[t]]
        /\ worker' = [worker EXCEPT ![w] =
                        [job |-> a, att |-> outbox.att, st |-> "run", pc |-> Memory]]
    BY <1>2 DEF Begin
  <2>2. \A t \in Parked : Excused(t)
    BY DEF Excused
  <2>3. RowsExcused'
    <3>. SUFFICES ASSUME NEW t \in Targets
                  PROVE  /\ row'[t] = "SENT" => accepted'[t] > 0
                         /\ row'[t] = "SKIPPED" => Excused(t)'
      BY DEF RowsExcused
    <3>1. row'[t] = "SENT" => row[t] = "SENT"
      BY <2>1
    <3>2. row'[t] = "SKIPPED" => row[t] = "SKIPPED" \/ t \in Parked
      BY <2>1
    <3>. QED BY <1>g, <2>2, <3>1, <3>2, ExcusedStays DEF SentInv, RowsExcused
  <2>4. RunsExcused'
    <3>1. ASSUME NEW v \in Workers, v # w
          PROVE  RunExcused(v)'
      <4>1. worker'[v] = worker[v]
        BY <2>1, <3>1 DEF SentInv, Shape
      <4>. QED BY <1>g, <4>1, RunStays DEF SentInv, RunsExcused
    <3>2. RunExcused(w)'
      <4>1. worker'[w].st = "run" /\ worker'[w].pc = Memory
        BY <2>1 DEF SentInv, Shape
      <4>2. \A t \in Targets : /\ worker'[w].pc[t] \in {"out", "read"}
                               /\ worker'[w].pc[t] = "out" => t \in Parked \/ event.stale
        BY <4>1
      <4>3. \A t \in Targets : worker'[w].pc[t] = "out" => Excused(t)' \/ event'.stale
        BY <1>g, <2>2, <4>2, ExcusedStays
      <4>. QED BY <4>1, <4>2, <4>3 DEF RunExcused
    <3>. QED BY <3>1, <3>2 DEF RunsExcused
  <2>5. Shape'
    <3>1. row' \in [Targets -> RowStates]
      BY <2>1 DEF SentInv, Shape, RowStates
    <3>2. Memory \in [Targets -> Todo \cup Results \cup {"out"}]
      BY DEF Todo
    <3>3. worker' \in [Workers -> [job : JobIds, att : Nat, st : {"idle", "run", "sending"},
                                   pc : [Targets -> Todo \cup Results \cup {"out"}]]]
      <4> HIDE DEF Memory
      <4>. QED BY <2>1, <3>2 DEF SentInv, Shape
    <3>. QED BY <1>g, <3>1, <3>3 DEF SentInv, Shape
  <2>. QED BY <1>g, <1>v, <2>3, <2>4, <2>5 DEF SentInv, Unborn
<1>. QED BY <1>1, <1>2

LEMMA TakeOnKeeps ==
  ASSUME SentInv, event # NoEvent, NEW w \in Workers, TakeOn(w)
  PROVE  SentInv' /\ event' # NoEvent
<1> DEFINE Mine == {t \in Targets : worker[w].pc[t] = "read"}
           Memory == [t \in Targets |->
             IF t \notin Mine THEN "out" ELSE IF row'[t] = "SENDING" THEN "post" ELSE row'[t]]
<1>g. UNCHANGED <<event, outbox, removed, accepted>> /\ Grows
  BY SameGrows DEF TakeOn
<1>1. /\ worker[w].st = "run"
      /\ row' = [t \in Targets |-> IF t \in Mine THEN FirstStatus(t) ELSE row[t]]
      /\ worker' = [worker EXCEPT ![w].st = "sending", ![w].pc = Memory]
  BY DEF TakeOn
<1>2. \A t \in Targets : FirstStatus(t) \in {"SENT", "FAILED", "SKIPPED", "SENDING"}
  BY DEF SentInv, Shape, FirstStatus, Taken, WorkSet, RowStates
<1>3. \A t \in Targets : /\ FirstStatus(t) = "SENT" => row[t] = "SENT"
                         /\ FirstStatus(t) = "SKIPPED" => row[t] = "SKIPPED" \/ t \in event.refused
  BY DEF FirstStatus
<1>4. RowsExcused'
  <2>. SUFFICES ASSUME NEW t \in Targets
                PROVE  /\ row'[t] = "SENT" => accepted'[t] > 0
                       /\ row'[t] = "SKIPPED" => Excused(t)'
    BY DEF RowsExcused
  <2>1. /\ row'[t] = "SENT" => row[t] = "SENT"
        /\ row'[t] = "SKIPPED" => row[t] = "SKIPPED" \/ t \in event.refused
    BY <1>1, <1>3
  <2>2. row'[t] = "SKIPPED" => Excused(t)
    BY <2>1 DEF SentInv, RowsExcused, Excused
  <2>. QED BY <1>g, <2>1, <2>2, ExcusedStays DEF SentInv, RowsExcused
<1>5. RunsExcused'
  <2>1. ASSUME NEW v \in Workers, v # w
        PROVE  RunExcused(v)'
    <3>1. worker'[v] = worker[v]
      BY <1>1, <2>1 DEF SentInv, Shape
    <3>. QED BY <1>g, <3>1, RunStays DEF SentInv, RunsExcused
  <2>2. RunExcused(w)'
    <3>1. worker'[w].st = "sending" /\ worker'[w].pc = Memory
      BY <1>1 DEF SentInv, Shape
    <3>. SUFFICES ASSUME NEW t \in Targets
                  PROVE  /\ Memory[t] \in {"ok", "SENT"} => accepted'[t] > 0
                         /\ Memory[t] = "SKIPPED" => Excused(t)'
                         /\ Memory[t] = "out" => Excused(t)' \/ event'.stale
      BY <3>1 DEF RunExcused
    <3>2. CASE t \notin Mine
      <4>1. worker[w].pc[t] = "out" /\ Memory[t] = "out"
        BY <1>1, <3>2 DEF SentInv, RunsExcused, RunExcused
      <4>2. Excused(t) \/ event.stale
        BY <1>1, <4>1 DEF SentInv, RunsExcused, RunExcused
      <4>. QED BY <1>g, <4>1, <4>2, ExcusedStays
    <3>3. CASE t \in Mine
      <4>1. row'[t] \in {"SENT", "FAILED", "SKIPPED", "SENDING"}
        BY <1>1, <1>2, <3>3
      <4>2. Memory[t] = IF row'[t] = "SENDING" THEN "post" ELSE row'[t]
        BY <3>3
      <4>. QED BY <1>4, <4>1, <4>2 DEF RowsExcused
    <3>. QED BY <3>2, <3>3
  <2>. QED BY <2>1, <2>2 DEF RunsExcused
<1>6. Shape'
  <2>1. row' \in [Targets -> RowStates]
    BY <1>1, <1>2 DEF SentInv, Shape, RowStates
  <2>2. \A t \in Mine : row'[t] \in {"SENT", "FAILED", "SKIPPED", "SENDING"}
    BY <1>1, <1>2
  <2>3. Memory \in [Targets -> Todo \cup Results \cup {"out"}]
    BY <2>2 DEF Todo, Results
  <2>4. worker' \in [Workers -> [job : JobIds, att : Nat, st : {"idle", "run", "sending"},
                                 pc : [Targets -> Todo \cup Results \cup {"out"}]]]
    <3>1. /\ worker'[w] = [worker[w] EXCEPT !.st = "sending", !.pc = Memory]
          /\ \A v \in Workers : v # w => worker'[v] = worker[v]
          /\ worker' = [v \in Workers |-> worker'[v]]
      BY <1>1 DEF SentInv, Shape
    <3> HIDE DEF Memory
    <3>2. worker'[w] \in [job : JobIds, att : Nat, st : {"idle", "run", "sending"},
                          pc : [Targets -> Todo \cup Results \cup {"out"}]]
      BY <2>3, <3>1 DEF SentInv, Shape
    <3>. QED BY <3>1, <3>2 DEF SentInv, Shape
  <2>. QED BY <1>g, <2>1, <2>4 DEF SentInv, Shape
<1>7. SentMeansAccepted'
  BY <1>g, VerdictStays DEF SentInv
<1>. QED BY <1>g, <1>4, <1>5, <1>6, <1>7 DEF SentInv, Unborn

(* A run learns what came of one target: it may call it SENT only when     *)
(* the provider has taken the event.                                       *)
LEMMA LearnKeeps ==
  ASSUME SentInv, event # NoEvent, NEW w \in Workers, NEW t \in Targets,
         NEW pc \in {"ok", "SENT", "RETRY", "FAILED"},
         worker[w].pc[t] \in Inside, To(w, t, pc),
         UNCHANGED <<event, outbox, removed>>,
         accepted' \in [Targets -> Nat],
         \A d \in Targets : accepted[d] > 0 => accepted'[d] > 0,
         pc \in {"ok", "SENT"} => accepted'[t] > 0,
         \/ UNCHANGED row
         \/ row' = [row EXCEPT ![t] = pc] /\ pc # "ok"
  PROVE  SentInv' /\ event' # NoEvent
<1>g. Grows
  BY DEF Grows
<1>1. RowsExcused'
  <2>. SUFFICES ASSUME NEW d \in Targets
                PROVE  /\ row'[d] = "SENT" => accepted'[d] > 0
                       /\ row'[d] = "SKIPPED" => Excused(d)'
    BY DEF RowsExcused
  <2>1. row'[d] = row[d] \/ (d = t /\ row'[d] = pc)
    BY DEF SentInv, Shape
  <2>2. CASE row'[d] = row[d]
    <3>1. row[d] = "SENT" => accepted'[d] > 0
      BY DEF SentInv, RowsExcused
    <3>2. row[d] = "SKIPPED" => Excused(d)'
      BY <1>g, ExcusedStays DEF SentInv, RowsExcused
    <3>. QED BY <2>2, <3>1, <3>2
  <2>. QED BY <2>1, <2>2
<1>2. RunsExcused'
  <2>1. ASSUME NEW v \in Workers, v # w
        PROVE  RunExcused(v)'
    <3>1. worker'[v] = worker[v]
      BY <2>1 DEF SentInv, Shape, To
    <3>. QED BY <1>g, <3>1, RunStays DEF SentInv, RunsExcused
  <2>2. RunExcused(w)'
    <3>1. /\ worker'[w].st = worker[w].st
          /\ worker'[w].pc[t] = pc
          /\ \A d \in Targets : d # t => worker'[w].pc[d] = worker[w].pc[d]
      BY DEF SentInv, Shape, To
    <3>2. RunExcused(w)
      BY DEF SentInv, RunsExcused
    <3>3. worker[w].st # "run"
      BY <3>2 DEF RunExcused, Inside
    <3>. SUFFICES ASSUME NEW d \in Targets
                  PROVE  /\ worker'[w].pc[d] \in {"ok", "SENT"} => accepted'[d] > 0
                         /\ worker'[w].pc[d] = "SKIPPED" => Excused(d)'
                         /\ worker'[w].st # "idle" /\ worker'[w].pc[d] = "out" =>
                              Excused(d)' \/ event'.stale
      BY <3>1, <3>3 DEF RunExcused
    <3>4. CASE d = t
      BY <3>1, <3>4
    <3>5. CASE d # t
      <4>1. /\ worker[w].pc[d] \in {"ok", "SENT"} => accepted'[d] > 0
            /\ worker[w].pc[d] = "SKIPPED" => Excused(d)
            /\ worker[w].st # "idle" /\ worker[w].pc[d] = "out" => Excused(d) \/ event.stale
        BY <3>2 DEF RunExcused
      <4>. QED BY <1>g, <3>1, <3>5, <4>1, ExcusedStays
    <3>. QED BY <3>4, <3>5
  <2>. QED BY <2>1, <2>2 DEF RunsExcused
<1>3. Shape'
  <2>1. row' \in [Targets -> RowStates]
    BY DEF SentInv, Shape, RowStates
  <2>2. pc \in Todo \cup Results \cup {"out"}
    BY DEF Todo, Results
  <2>. QED BY <2>1, <2>2, ToShape DEF SentInv, Shape
<1>4. SentMeansAccepted'
  BY <1>g, VerdictStays DEF SentInv
<1>. QED BY <1>1, <1>2, <1>3, <1>4 DEF SentInv, Unborn

(* A run ends and forgets; a SENT it leaves behind must be excused.        *)
LEMMA EndKeeps ==
  ASSUME SentInv, event # NoEvent, NEW w \in Workers, Ended(w),
         UNCHANGED <<event, row, removed, accepted>>,
         outbox' \in [st : {"none", "PENDING", "CLAIMED", "SENT", "DEAD"}, att : Nat,
                      lock : {"free", "fresh", "stale"}],
         outbox'.st = "SENT" => outbox.st = "SENT" \/ \A t \in Targets : Excused(t)
  PROVE  SentInv' /\ event' # NoEvent
<1>g. Grows
  BY SameGrows
<1>1. RowsExcused'
  BY <1>g, RowsStay DEF SentInv
<1>2. RunsExcused'
  <2>1. ASSUME NEW v \in Workers, v # w
        PROVE  RunExcused(v)'
    <3>1. worker'[v] = worker[v]
      BY <2>1 DEF SentInv, Shape, Ended
    <3>. QED BY <1>g, <3>1, RunStays DEF SentInv, RunsExcused
  <2>2. RunExcused(w)'
    <3>1. worker'[w] = NoRun
      BY DEF SentInv, Shape, Ended
    <3>2. worker'[w].st = "idle" /\ \A t \in Targets : worker'[w].pc[t] = "out"
      BY <3>1 DEF NoRun
    <3>. QED BY <3>2 DEF RunExcused
  <2>. QED BY <2>1, <2>2 DEF RunsExcused
<1>3. SentMeansAccepted'
  <2>1. CASE outbox'.st = "SENT" => outbox.st = "SENT"
    BY <1>g, <2>1, VerdictStays DEF SentInv
  <2>2. CASE \A t \in Targets : Excused(t)
    BY <2>2 DEF SentMeansAccepted, Excused, OnTime
  <2>. QED BY <2>1, <2>2
<1>4. Shape'
  BY EndedShape DEF SentInv, Shape
<1>. QED BY <1>1, <1>2, <1>3, <1>4 DEF SentInv, Unborn

(* advanceOutbox says SENT only when its memory excuses every target.      *)
LEMMA VerdictIsExcused ==
  ASSUME SentInv, NEW w \in Workers, AllIn(w), Advanced(w).st = "SENT"
  PROVE  \A t \in Targets : Excused(t)
<1>1. /\ ~event.stale
      /\ ResultsOf(w) \subseteq TerminalSuccess
  <2>1. \A n \in Nat : Requeued(n).st # "SENT"
    BY DEF Requeued
  <2>2. Terminal("DEAD").st # "SENT"
    BY DEF SentInv, Shape, Terminal
  <2>3. worker[w].att + 1 \in Nat
    BY DEF SentInv, Shape
  <2>. QED BY <2>1, <2>2, <2>3 DEF Advanced
<1>. SUFFICES ASSUME NEW t \in Targets
              PROVE  Excused(t)
  OBVIOUS
<1>2. RunExcused(w) /\ worker[w].st # "idle"
  BY DEF SentInv, RunsExcused, AllIn
<1>3. CASE worker[w].pc[t] = "out"
  BY <1>1, <1>2, <1>3 DEF RunExcused
<1>4. CASE worker[w].pc[t] # "out"
  <2>1. worker[w].pc[t] \in Results
    BY <1>4 DEF AllIn
  <2>2. worker[w].pc[t] \in {"SENT", "SKIPPED"}
    BY <1>1, <2>1 DEF ResultsOf, TerminalSuccess
  <2>. QED BY <1>2, <2>2 DEF RunExcused, Excused
<1>. QED BY <1>3, <1>4

LEMMA EndingsKeep ==
  ASSUME SentInv, event # NoEvent, NEW w \in Workers,
         Advance(w) \/ AdvanceThrows(w) \/ RunThrows(w) \/ Crash(w)
  PROVE  SentInv' /\ event' # NoEvent
<1>1. CASE Advance(w) \/ AdvanceThrows(w)
  <2>1. AllIn(w) /\ outbox' = Advanced(w) /\ Ended(w) /\ UNCHANGED <<event, row, removed, accepted>>
    BY <1>1 DEF Advance, AdvanceThrows
  <2>2. outbox'.st = "SENT" => \A t \in Targets : Excused(t)
    BY <2>1, VerdictIsExcused
  <2>3. outbox' \in [st : {"none", "PENDING", "CLAIMED", "SENT", "DEAD"}, att : Nat,
                     lock : {"free", "fresh", "stale"}]
    BY <2>1, AdvancedShape DEF SentInv
  <2>. QED BY <2>1, <2>2, <2>3, EndKeeps
<1>2. CASE RunThrows(w) \/ Crash(w)
  <2>1. Ended(w) /\ UNCHANGED <<event, row, removed, accepted>>
    BY <1>2 DEF RunThrows, Crash
  <2>2. outbox' = outbox \/ outbox' = Requeued(outbox.att + 1)
    BY <1>2 DEF RunThrows, Crash
  <2>3. outbox.att + 1 \in Nat
    BY DEF SentInv, Shape
  <2>4. /\ outbox' \in [st : {"none", "PENDING", "CLAIMED", "SENT", "DEAD"}, att : Nat,
                        lock : {"free", "fresh", "stale"}]
        /\ outbox'.st = "SENT" => outbox.st = "SENT"
    BY <2>2, <2>3, RequeuedShape DEF SentInv, Shape, Requeued
  <2>. QED BY <2>1, <2>4, EndKeeps
<1>. QED BY <1>1, <1>2

LEMMA TargetStepKeeps ==
  ASSUME SentInv, event # NoEvent, NEW w \in Workers, NEW t \in Targets,
         \/ Post(w, t) \/ PostRefused(w, t) \/ WriteSent(w, t)
         \/ PostUnanswered(w, t) \/ Break(w, t)
  PROVE  SentInv' /\ event' # NoEvent
<1>a. accepted \in [Targets -> Nat]
  BY DEF SentInv, Shape
<1>1. CASE Post(w, t)
  <2>1. /\ accepted' \in [Targets -> Nat] /\ accepted'[t] > 0
        /\ \A d \in Targets : accepted[d] > 0 => accepted'[d] > 0
    BY <1>a, <1>1 DEF Post, Again
  <2>. QED BY <1>1, <2>1, LearnKeeps DEF Post, Inside
<1>2. CASE PostUnanswered(w, t)
  <2>1. /\ accepted' \in [Targets -> Nat]
        /\ \A d \in Targets : accepted[d] > 0 => accepted'[d] > 0
    BY <1>a, <1>2 DEF PostUnanswered, Again
  <2>. QED BY <1>2, <2>1, LearnKeeps DEF PostUnanswered, Report, Inside
<1>3. CASE WriteSent(w, t)
  <2>1. accepted[t] > 0
    BY <1>3 DEF WriteSent, SentInv, RunsExcused, RunExcused
  <2>. QED BY <1>a, <1>3, <2>1, LearnKeeps DEF WriteSent, Report, Inside
<1>4. CASE PostRefused(w, t)
  BY <1>a, <1>4, LearnKeeps DEF PostRefused, Report, Inside
<1>5. CASE Break(w, t)
  BY <1>a, <1>5, LearnKeeps DEF Break, Report
<1>. QED BY <1>1, <1>2, <1>3, <1>4, <1>5

-----------------------------------------------------------------------------
LEMMA SentInvInitially == Init => SentInv
<1>. SUFFICES ASSUME Init
              PROVE  SentInv
  OBVIOUS
<1>1. Shape
  BY TrackingAssumption DEF TrackingAssumption, Init, Shape, NoRun, RowStates
<1>2. Unborn
  BY DEF Init, Unborn, Still
<1>3. RowsExcused
  BY DEF Init, RowsExcused
<1>4. RunsExcused
  BY DEF Init, RunsExcused, RunExcused, NoRun
<1>5. SentMeansAccepted
  BY DEF Init, SentMeansAccepted
<1>. QED BY <1>1, <1>2, <1>3, <1>4, <1>5 DEF SentInv

LEMMA SentInvKept ==
  ASSUME SentInv, [Next]_vars
  PROVE  SentInv'
<1>1. CASE UNCHANGED vars
  <2>1. Grows /\ UNCHANGED <<event, outbox, row, worker, accepted>>
    BY <1>1, SameGrows DEF vars
  <2>2. RowsExcused' /\ RunsExcused' /\ SentMeansAccepted'
    BY <2>1, QuietStep DEF SentInv
  <2>3. Unborn'
    BY <1>1 DEF SentInv, Unborn, Still, vars
  <2>. QED BY <2>1, <2>2, <2>3 DEF SentInv, Shape
<1>2. CASE \E c \in Captures : Capture(c)
  BY <1>2, CaptureKeeps
<1>3. CASE Next /\ event # NoEvent
  <2>1. CASE Background
    BY <1>3, <2>1, BackgroundKeeps
  <2>2. CASE Replay
    BY <1>3, <2>2, ReplayKeeps
  <2>3. CASE ReviveRows \/ \E t \in Targets : SweepHung(t)
    BY <1>3, <2>3, RowsReopened
  <2>4. CASE \E w \in Workers : \/ \E a \in JobIds : Begin(w, a)
                                \/ TakeOn(w)
                                \/ Advance(w) \/ AdvanceThrows(w) \/ RunThrows(w) \/ Crash(w)
    BY <1>3, <2>4, BeginKeeps, TakeOnKeeps, EndingsKeep
  <2>5. CASE \E w \in Workers, t \in Targets :
               \/ Post(w, t) \/ PostRefused(w, t) \/ WriteSent(w, t)
               \/ PostUnanswered(w, t) \/ Break(w, t)
    BY <1>3, <2>5, TargetStepKeeps
  <2>. QED BY <1>2, <1>3, <2>1, <2>2, <2>3, <2>4, <2>5
           DEF Next, Background, Work, Fault, Revive
<1>4. CASE Next /\ event = NoEvent
  BY <1>2, <1>4, OnlyCapture DEF SentInv, Unborn
<1>. QED BY <1>1, <1>3, <1>4

(* For any workers, targets and bounds: an event marked SENT was taken by  *)
(* every target it was due at, whatever crashed, overlapped, was replayed  *)
(* or revived on the way, and whichever stale worker gave the verdict.     *)
THEOREM SentIsAccepted ==
  Spec => []SentMeansAccepted
<1>1. SentInv => SentMeansAccepted
  BY DEF SentInv
<1>. QED BY <1>1, SentInvInitially, SentInvKept, PTL DEF Spec

-----------------------------------------------------------------------------
(* The types of the other variables, and the event behind the outbox row.  *)
Typed ==
  /\ jobs \in [JobIds -> [st : JobStates, tries : 0..JobAttempts]]
  /\ relay \subseteq Nat
  /\ sweep \in BOOLEAN
  /\ revival \in {"idle", "write", "PENDING", "CLAIMED", "SENT", "DEAD"}
  /\ removed \subseteq Targets
  /\ accepted \in [Targets -> 0..2]
  /\ spent \in [faults : 0..MaxFaults, calls : 0..MaxCalls]
  /\ event # NoEvent => outbox.st # "none"

(* While nothing has gone wrong, the only job that lives, or may still be  *)
(* enqueued, is the one of the attempt the outbox row is at, and an old    *)
(* claim has none.                                                         *)
Alive(a) == jobs[a].st \in {"waiting", "active"}
UnderWay == outbox.st \in {"PENDING", "CLAIMED"}
OneJob ==
  /\ \A a \in JobIds : jobs[a].st # "orphan"
  /\ \A a \in JobIds : Alive(a) => a = outbox.att /\ UnderWay
  /\ \A a \in JobIds \cap relay : jobs[a] = NoJob => a = outbox.att /\ UnderWay
  /\ StuckClaim => ~Busy

(* So there is one run at most, ...                                        *)
OneRun ==
  /\ \A w \in Workers : worker[w] # NoRun => jobs[worker[w].job].st = "active"
  /\ \A v, w \in Workers : worker[v] # NoRun /\ worker[w] # NoRun => v = w

(* ... and what it did is either written down or still in its hands.       *)
Once ==
  /\ \A t \in Targets : accepted[t] <= 1
  /\ \A t \in Targets :
       accepted[t] > 0 => row[t] = "SENT" \/ \E w \in Workers : worker[w].pc[t] = "ok"
  /\ \A w \in Workers, t \in Targets : worker[w].pc[t] \in Inside => row[t] = "SENDING"

Calm == spent.faults = 0 => OneJob /\ OneRun /\ Once

JobType == [st : JobStates, tries : 0..JobAttempts]

(* What a step may do to each of the variables of Typed.                   *)
Effects ==
  /\ jobs' \in [JobIds -> JobType]
  /\ relay' \in {relay, {outbox.att}, {}}
  /\ sweep' \in {sweep, TRUE, FALSE}
  /\ revival' \in {revival, "idle", "write"} \/ (event # NoEvent /\ revival' = outbox.st)
  /\ removed' = removed \/ \E t \in Targets : removed' = removed \cup {t}
  /\ accepted' = accepted \/ \E t \in Targets : accepted' = [accepted EXCEPT ![t] = Again(@)]
  /\ \/ spent' = spent
     \/ MayFault /\ Spend("faults")
     \/ spent.calls < MaxCalls /\ Spend("calls")
  /\ outbox' = outbox \/ outbox'.st # "none"

LEMMA JobsTyped ==
  ASSUME Typed, NEW a \in JobIds
  PROVE  /\ jobs \in [JobIds -> JobType]
         /\ Kept(a) \in [JobIds -> JobType]
         /\ Retried(a) \in [JobIds -> JobType]
         /\ [jobs EXCEPT ![a].st = "active"] \in [JobIds -> JobType]
         /\ [jobs EXCEPT ![a].st = "orphan"] \in [JobIds -> JobType]
         /\ [jobs EXCEPT ![a] = [st |-> "waiting", tries |-> 0]] \in [JobIds -> JobType]
         /\ \A x : [jobs EXCEPT ![x] = NoJob] \in [JobIds -> JobType]
<1>1. jobs \in [JobIds -> JobType] /\ JobAttempts \in Nat \ {0}
  BY TrackingAssumption DEF TrackingAssumption, Typed, JobType
<1>2. /\ KeptJob \in JobType /\ NoJob \in JobType /\ [st |-> "waiting", tries |-> 0] \in JobType
  BY <1>1 DEF KeptJob, NoJob, JobType, JobStates
<1>3. \A st \in JobStates : [jobs[a] EXCEPT !.st = st] \in JobType
  BY <1>1 DEF JobType
<1>4. Retried(a) \in [JobIds -> JobType]
  <2> DEFINE n == jobs[a].tries + 1
             r == IF n < JobAttempts THEN [st |-> "waiting", tries |-> n] ELSE KeptJob
  <2>1. r \in JobType
    <3>1. CASE n < JobAttempts
      <4>1. n \in 0..JobAttempts
        BY <1>1, <3>1 DEF JobType
      <4>. QED BY <3>1, <4>1 DEF JobType, JobStates
    <3>2. CASE ~(n < JobAttempts)
      BY <1>2, <3>2
    <3>. QED BY <3>1, <3>2
  <2>2. Retried(a) = [jobs EXCEPT ![a] = r]
    BY <1>1 DEF Retried
  <2>. HIDE DEF r
  <2>. QED BY <1>1, <2>1, <2>2
<1>5. /\ Kept(a) \in [JobIds -> JobType]
      /\ [jobs EXCEPT ![a].st = "active"] \in [JobIds -> JobType]
      /\ [jobs EXCEPT ![a].st = "orphan"] \in [JobIds -> JobType]
      /\ [jobs EXCEPT ![a] = [st |-> "waiting", tries |-> 0]] \in [JobIds -> JobType]
  BY <1>1, <1>2, <1>3 DEF Kept, JobStates
<1>6. \A x : [jobs EXCEPT ![x] = NoJob] \in [JobIds -> JobType]
  BY <1>1, <1>2
<1>. QED BY <1>1, <1>4, <1>5, <1>6

LEMMA NotNone ==
  ASSUME Shape
  PROVE  /\ \A n : Requeued(n).st # "none"
         /\ \A w \in Workers : Advanced(w).st # "none"
<1>1. \A n : Requeued(n).st # "none"
  BY DEF Requeued
<1>2. Terminal("SENT").st # "none" /\ Terminal("DEAD").st # "none"
  BY DEF Shape, Terminal
<1>. QED BY <1>1, <1>2 DEF Advanced

LEMMA QueueEffects ==
  ASSUME Shape, Typed,
         \/ \E c \in Captures : Capture(c)
         \/ Relay \/ StalledCheck \/ EnqueueFails \/ RelayCrash
  PROVE  Effects
<1>j. jobs \in [JobIds -> JobType]
  BY DEF Typed, JobType
<1>1. CASE \E c \in Captures : Capture(c)
  BY <1>j, <1>1, NotNone DEF Effects, Capture
<1>2. CASE Claim
  <2>1. outbox' = [outbox EXCEPT !.st = "CLAIMED", !.lock = "fresh"]
    BY <1>2 DEF Claim
  <2>2. outbox'.st # "none"
    BY <2>1 DEF Shape
  <2>3. jobs' = jobs \/ jobs' = [jobs EXCEPT ![outbox.att] = NoJob]
    BY <1>2 DEF Claim
  <2>4. jobs' \in [JobIds -> JobType]
    <3>1. \A x : [jobs EXCEPT ![x] = NoJob] \in [JobIds -> JobType]
      BY JobsTyped, TrackingAssumption DEF TrackingAssumption
    <3>. QED BY <1>j, <2>3, <3>1
  <2>. QED BY <1>2, <2>2, <2>4 DEF Effects, Claim
<1>3. ASSUME NEW a \in JobIds, Enqueue(a) \/ Stalled(a)
      PROVE  Effects
  BY <1>j, <1>3, JobsTyped DEF Effects, Enqueue, Stalled
<1>4. CASE EnqueueFails
  BY <1>j, <1>4, NotNone DEF Effects, EnqueueFails
<1>5. CASE RelayCrash
  BY <1>j, <1>5 DEF Effects, RelayCrash
<1>. QED BY <1>1, <1>2, <1>3, <1>4, <1>5 DEF Relay, StalledCheck

LEMMA WorkerEffects ==
  ASSUME Shape, Typed, NEW w \in Workers,
         \/ Work(w) \/ AdvanceThrows(w) \/ RunThrows(w) \/ Crash(w)
         \/ \E t \in Targets : PostUnanswered(w, t) \/ Break(w, t)
  PROVE  Effects
<1>j. jobs \in [JobIds -> JobType] /\ worker[w].job \in JobIds
  BY DEF Shape, Typed, JobType
<1>1. CASE \E a \in JobIds : Begin(w, a)
  <2>1. PICK a \in JobIds : Begin(w, a)
    BY <1>1
  <2>2. jobs' = Kept(a) \/ jobs' = [jobs EXCEPT ![a].st = "active"]
    BY <2>1 DEF Begin
  <2>3. jobs' \in [JobIds -> JobType]
    BY <2>2, JobsTyped
  <2>4. UNCHANGED <<outbox, relay, sweep, revival, removed, accepted, spent>>
    BY <2>1 DEF Begin
  <2>. QED BY <2>3, <2>4 DEF Effects
<1>2. CASE TakeOn(w)
  BY <1>j, <1>2 DEF Effects, TakeOn
<1>3. ASSUME NEW t \in Targets, Post(w, t) \/ PostRefused(w, t) \/ WriteSent(w, t)
      PROVE  Effects
  BY <1>j, <1>3 DEF Effects, Post, PostRefused, WriteSent
<1>4. ASSUME NEW t \in Targets, PostUnanswered(w, t) \/ Break(w, t)
      PROVE  Effects
  BY <1>j, <1>4 DEF Effects, PostUnanswered, Break
<1>5. CASE Advance(w)
  BY <1>j, <1>5, JobsTyped, NotNone DEF Effects, Advance
<1>6. CASE AdvanceThrows(w)
  BY <1>j, <1>6, JobsTyped, NotNone DEF Effects, AdvanceThrows
<1>7. CASE RunThrows(w)
  BY <1>j, <1>7, JobsTyped, NotNone DEF Effects, RunThrows
<1>8. CASE Crash(w)
  BY <1>j, <1>8, JobsTyped DEF Effects, Crash
<1>. QED BY <1>1, <1>2, <1>3, <1>4, <1>5, <1>6, <1>7, <1>8 DEF Work

LEMMA OtherEffects ==
  ASSUME Shape, Typed,
         \/ \E t \in Targets : Remove(t) \/ SweepHung(t)
         \/ ClaimAges \/ ReleaseStale \/ Replay \/ Revive \/ UNCHANGED vars
  PROVE  Effects
<1>j. jobs \in [JobIds -> JobType]
  BY DEF Typed, JobType
<1>1. CASE (\E t \in Targets : Remove(t) \/ SweepHung(t)) \/ SweepRead \/ ReviveRows \/ UNCHANGED vars
  BY <1>j, <1>1 DEF Effects, Remove, SweepHung, SweepRead, ReviveRows, vars
<1>2. CASE ClaimAges
  <2>1. outbox'.st # "none"
    BY <1>2 DEF ClaimAges, Shape
  <2>. QED BY <1>j, <1>2, <2>1 DEF Effects, ClaimAges
<1>3. CASE SweepRelease \/ Replay \/ ReviveOutbox
  BY <1>j, <1>3, NotNone DEF Effects, SweepRelease, Replay, ReviveOutbox
<1>4. CASE ReviveRead
  BY <1>j, <1>4 DEF Effects, ReviveRead, NoEvent
<1>. QED BY <1>1, <1>2, <1>3, <1>4 DEF ReleaseStale, Revive

LEMMA StepEffects ==
  ASSUME Shape, Typed, [Next]_vars
  PROVE  Effects
BY QueueEffects, WorkerEffects, OtherEffects DEF Next, Fault

LEMMA TypedKept ==
  ASSUME SentInv, Typed, [Next]_vars
  PROVE  Typed'
<1>e. Effects /\ Shape
  BY StepEffects DEF SentInv
<1>1. jobs' \in [JobIds -> [st : JobStates, tries : 0..JobAttempts]]
  BY <1>e DEF Effects, JobType
<1>2. relay' \subseteq Nat /\ sweep' \in BOOLEAN
  <2>1. outbox.att \in Nat
    BY <1>e DEF Shape
  <2>. QED BY <1>e, <2>1 DEF Effects, Typed
<1>3. revival' \in {"idle", "write", "PENDING", "CLAIMED", "SENT", "DEAD"}
  <2>1. event # NoEvent => outbox.st \in {"PENDING", "CLAIMED", "SENT", "DEAD"}
    BY <1>e DEF Shape, Typed
  <2>. QED BY <1>e, <2>1 DEF Effects, Typed
<1>4. removed' \subseteq Targets
  BY <1>e DEF Effects, Typed
<1>5. accepted' \in [Targets -> 0..2]
  BY <1>e DEF Effects, Typed, Again
<1>6. spent' \in [faults : 0..MaxFaults, calls : 0..MaxCalls]
  <2>1. MaxFaults \in Nat /\ MaxCalls \in Nat
    BY TrackingAssumption DEF TrackingAssumption
  <2>2. CASE MayFault /\ Spend("faults")
    <3>1. spent.faults + 1 \in 0..MaxFaults
      BY <2>1, <2>2 DEF MayFault, Typed
    <3>. QED BY <2>2, <3>1 DEF Spend, Typed
  <2>3. CASE spent.calls < MaxCalls /\ Spend("calls")
    <3>1. spent.calls + 1 \in 0..MaxCalls
      BY <2>1, <2>3 DEF Typed
    <3>. QED BY <2>3, <3>1 DEF Spend, Typed
  <2>4. CASE spent' = spent
    BY <2>4 DEF Typed
  <2>. QED BY <1>e, <2>2, <2>3, <2>4 DEF Effects
<1>7. event' # NoEvent => outbox'.st # "none"
  <2>1. CASE event # NoEvent
    BY <1>e, <2>1 DEF Effects, Typed
  <2>2. CASE event = NoEvent /\ Next
    <3>1. \E c \in Captures : Capture(c)
      BY <2>2, OnlyCapture DEF SentInv, Unborn
    <3>. QED BY <3>1 DEF Capture, Requeued
  <2>3. CASE event = NoEvent /\ UNCHANGED vars
    BY <2>3 DEF vars
  <2>. QED BY <2>1, <2>2, <2>3
<1>. QED BY <1>1, <1>2, <1>3, <1>4, <1>5, <1>6, <1>7 DEF Typed

LEMMA TypedInitially == Init => Typed
<1>. SUFFICES ASSUME Init
              PROVE  Typed
  OBVIOUS
<1>1. jobs \in [JobIds -> [st : JobStates, tries : 0..JobAttempts]]
  BY TrackingAssumption DEF TrackingAssumption, Init, NoJob, JobStates
<1>2. spent \in [faults : 0..MaxFaults, calls : 0..MaxCalls]
  BY TrackingAssumption DEF TrackingAssumption, Init
<1>3. accepted \in [Targets -> 0..2]
  BY DEF Init
<1>4. /\ relay = {} /\ sweep = FALSE /\ revival = "idle" /\ removed = {}
      /\ event = NoEvent
  BY DEF Init
<1>. QED BY <1>1, <1>2, <1>3, <1>4 DEF Typed

(* For all constants every variable keeps its type, when every attempt     *)
(* count makes a job id, as it does in the code.                           *)
THEOREM TypeCorrect ==
  ASSUME JobIds = Nat
  PROVE  Spec => []TypeOK
<1>1. SentInv /\ Typed => TypeOK
  BY DEF SentInv, Shape, Typed, TypeOK
<1>. QED BY <1>1, SentInvInitially, SentInvKept, TypedInitially, TypedKept, PTL DEF Spec

-----------------------------------------------------------------------------
(* Nothing is sent twice while nothing goes wrong.                         *)

CalmState == OneJob /\ OneRun /\ Once

LEMMA IdleRun ==
  /\ NoRun.st = "idle" /\ \A t \in Targets : NoRun.pc[t] = "out"
  /\ \A w \in Workers : /\ worker[w].st # "idle" => worker[w] # NoRun
                        /\ \A t \in Targets : worker[w].pc[t] # "out" => worker[w] # NoRun
BY DEF NoRun

(* The run of the one job there is: no other is in the way of a target.    *)
LEMMA SoleRun ==
  ASSUME SentInv, CalmState, NEW w \in Workers, worker[w] # NoRun
  PROVE  /\ worker[w].job \in JobIds /\ jobs[worker[w].job].st = "active"
         /\ \A v \in Workers \ {w} : worker[v] = NoRun
         /\ \A t \in Targets : worker[w].pc[t] # "ok" /\ accepted[t] > 0 => row[t] = "SENT"
         /\ \A a \in JobIds : Alive(a) => a = worker[w].job
<1>1. worker[w].job \in JobIds /\ jobs[worker[w].job].st = "active"
  BY DEF CalmState, OneRun, SentInv, Shape
<1>2. \A v \in Workers \ {w} : worker[v] = NoRun
  BY DEF CalmState, OneRun
<1>3. \A v \in Workers, t \in Targets : worker[v].pc[t] = "ok" => v = w
  BY <1>2, IdleRun
<1>4. \A t \in Targets : worker[w].pc[t] # "ok" /\ accepted[t] > 0 => row[t] = "SENT"
  BY <1>3 DEF CalmState, Once
<1>5. \A a \in JobIds : Alive(a) => a = worker[w].job
  BY <1>1 DEF CalmState, OneJob, Alive
<1>. QED BY <1>1, <1>2, <1>4, <1>5

(* A step of the queue: runs and rows stay, and an active job stays so.    *)
LEMMA QueueCalm ==
  ASSUME SentInv, CalmState, UNCHANGED <<worker, row, accepted>>,
         \A a \in JobIds : jobs[a].st = "active" => jobs'[a].st = "active",
         OneJob'
  PROVE  CalmState'
<1>1. OneRun'
  BY DEF CalmState, OneRun, SentInv, Shape
<1>2. Once'
  BY DEF CalmState, Once
<1>. QED BY <1>1, <1>2 DEF CalmState

(* What OneJob is about stays as it is.                                    *)
LEMMA JobsStay ==
  ASSUME OneJob, UNCHANGED <<jobs, outbox, relay>>
  PROVE  OneJob'
BY DEF OneJob, Alive, UnderWay, StuckClaim, Busy

LEMMA RelayCalm ==
  ASSUME SentInv, Typed, CalmState, Relay
  PROVE  CalmState'
<1>j. jobs \in [JobIds -> [st : JobStates, tries : 0..JobAttempts]]
  BY DEF Typed
<1>n. NoJob.st = "none" /\ KeptJob.st = "kept"
  BY DEF NoJob, KeptJob
<1>c. OneJob
  BY DEF CalmState
<1>1. CASE Claim
  <2>1. /\ outbox.st = "PENDING"
        /\ outbox' = [outbox EXCEPT !.st = "CLAIMED", !.lock = "fresh"]
        /\ relay' = {outbox.att}
        /\ UNCHANGED <<worker, row, accepted>>
    BY <1>1 DEF Claim
  <2>2. outbox'.st = "CLAIMED" /\ outbox'.lock = "fresh" /\ outbox'.att = outbox.att
    BY <2>1 DEF SentInv, Shape
  <2>3. ASSUME NEW a \in JobIds
        PROVE  jobs'[a] = jobs[a] \/ (jobs[a].st = "kept" /\ jobs'[a] = NoJob)
    <3>1. CASE UNCHANGED jobs
      BY <3>1
    <3>2. CASE jobs[outbox.att] = KeptJob /\ jobs' = [jobs EXCEPT ![outbox.att] = NoJob]
      BY <1>j, <1>n, <3>2
    <3>. QED BY <1>1, <3>1, <3>2 DEF Claim
  <2>4. \A a \in JobIds : /\ jobs'[a].st \in {jobs[a].st, "none"}
                          /\ jobs[a].st = "active" => jobs'[a].st = "active"
    BY <1>n, <2>3
  <2>5. OneJob'
    BY <1>c, <2>1, <2>2, <2>4 DEF OneJob, Alive, UnderWay, StuckClaim
  <2>. QED BY <2>1, <2>4, <2>5, QueueCalm
<1>2. ASSUME NEW a \in JobIds, Enqueue(a)
      PROVE  CalmState'
  <2>1. /\ a \in relay /\ relay' = {}
        /\ UNCHANGED <<outbox, worker, row, accepted>>
        /\ IF jobs[a] = NoJob
           THEN jobs' = [jobs EXCEPT ![a] = [st |-> "waiting", tries |-> 0]]
           ELSE UNCHANGED jobs
    BY <1>2 DEF Enqueue
  <2>2. ~StuckClaim
    BY <1>c, <2>1 DEF OneJob, Busy
  <2>3. /\ jobs[a] = NoJob => a = outbox.att /\ UnderWay
        /\ \A b \in JobIds : jobs'[b] = jobs[b] \/ (b = a /\ jobs[a] = NoJob /\ jobs'[b].st = "waiting")
    BY <1>c, <1>j, <2>1 DEF OneJob
  <2>4. OneJob'
    BY <1>c, <2>1, <2>2, <2>3 DEF OneJob, Alive, UnderWay, StuckClaim
  <2>5. \A b \in JobIds : jobs[b].st = "active" => jobs'[b].st = "active"
    BY <1>n, <2>3
  <2>. QED BY <2>1, <2>4, <2>5, QueueCalm
<1>. QED BY <1>1, <1>2 DEF Relay

(* Steps that put the row back, or let a claim grow old, need the queue to *)
(* be empty, or leave the row at its attempt.                              *)
LEMMA RowBackCalm ==
  ASSUME SentInv, Typed, CalmState, ~Spend("faults"),
         ClaimAges \/ SweepRelease \/ Replay \/ ReviveOutbox
  PROVE  CalmState'
<1>c. OneJob
  BY DEF CalmState
<1>u. UNCHANGED <<jobs, relay, worker, row, accepted>>
  BY DEF ClaimAges, SweepRelease, Replay, ReviveOutbox
<1>r. \A n : Requeued(n).st = "PENDING" /\ Requeued(n).att = n
  BY DEF Requeued
<1>1. CASE ClaimAges
  <2>1. ~Busy /\ outbox.st = "CLAIMED" /\ outbox' = [outbox EXCEPT !.lock = "stale"]
    BY <1>1 DEF ClaimAges
  <2>2. outbox'.st = outbox.st /\ outbox'.att = outbox.att
    BY <2>1 DEF SentInv, Shape
  <2>3. OneJob'
    BY <1>c, <1>u, <2>1, <2>2 DEF OneJob, Alive, UnderWay, StuckClaim, Busy
  <2>. QED BY <1>u, <2>3, QueueCalm
<1>2. CASE UNCHANGED outbox
  BY <1>c, <1>u, <1>2, JobsStay, QueueCalm
<1>3. CASE (SweepRelease /\ ~UNCHANGED outbox) \/ Replay
  <2>1. /\ outbox'.st = "PENDING"
        /\ StuckClaim \/ ~UnderWay
    BY <1>3, <1>r DEF SweepRelease, Replay, UnderWay
  <2>2. \A a \in JobIds : ~Alive(a) /\ (a \in relay => jobs[a] # NoJob)
    BY <1>c, <2>1 DEF OneJob, Busy, Alive
  <2>3. OneJob'
    BY <1>c, <1>u, <2>1, <2>2 DEF OneJob, Alive, StuckClaim
  <2>. QED BY <1>u, <2>3, QueueCalm
<1>4. CASE ReviveOutbox
  <2>1. outbox'.st = "PENDING" /\ outbox'.att = outbox.att
    BY <1>4, <1>r DEF ReviveOutbox
  <2>2. OneJob'
    BY <1>c, <1>u, <2>1 DEF OneJob, Alive, UnderWay, StuckClaim
  <2>. QED BY <1>u, <2>2, QueueCalm
<1>. QED BY <1>1, <1>2, <1>3, <1>4

(* A row is put back to work only when nobody has sent it.                 *)
LEMMA RowsCalm ==
  ASSUME SentInv, CalmState, ReviveRows \/ \E t \in Targets : SweepHung(t)
  PROVE  CalmState'
<1>u. UNCHANGED <<outbox, jobs, relay, worker, accepted>>
  BY DEF ReviveRows, SweepHung
<1>1. OneJob' /\ OneRun'
  BY <1>u, JobsStay DEF CalmState, OneRun
<1>2. ASSUME NEW t \in Targets
      PROVE  row'[t] = row[t] \/ (row[t] \in {"SKIPPED", "absent"})
               \/ (row[t] = "SENDING" /\ \A w \in Workers : worker[w].pc[t] \notin Inside)
  BY DEF ReviveRows, Revivable, SweepHung, Sending, SentInv, Shape
<1>3. Once'
  <2>. SUFFICES ASSUME NEW t \in Targets
                PROVE  /\ accepted[t] > 0 => row'[t] = "SENT" \/ \E w \in Workers : worker[w].pc[t] = "ok"
                       /\ \A w \in Workers : worker[w].pc[t] \in Inside => row'[t] = "SENDING"
    BY <1>u DEF CalmState, Once
  <2>. QED BY <1>2 DEF CalmState, Once, Inside
<1>. QED BY <1>1, <1>3 DEF CalmState

-----------------------------------------------------------------------------
(* The one run.                                                            *)

(* Nobody is at work before it begins, so all that was sent is written.    *)
LEMMA BeginCalm ==
  ASSUME SentInv, Typed, CalmState, NEW w \in Workers, NEW a \in JobIds, Begin(w, a)
  PROVE  CalmState'
<1>c. OneJob /\ OneRun /\ Once
  BY DEF CalmState
<1>j. jobs \in [JobIds -> [st : JobStates, tries : 0..JobAttempts]]
  BY DEF Typed
<1>1. jobs[a].st = "waiting" /\ a = outbox.att /\ UnderWay
  BY <1>c DEF Begin, OneJob, Alive
<1>2. \A v \in Workers : worker[v] = NoRun
  <2>1. ASSUME NEW v \in Workers, worker[v] # NoRun
        PROVE  FALSE
    <3>1. jobs[worker[v].job].st = "active" /\ worker[v].job \in JobIds
      BY <1>c, <2>1 DEF OneRun, SentInv, Shape
    <3>2. worker[v].job = outbox.att
      BY <1>c, <3>1 DEF OneJob, Alive
    <3>. QED BY <1>1, <3>1, <3>2
  <2>. QED BY <2>1
<1>3. outbox.st \notin Settled
  BY <1>1 DEF UnderWay, Settled
<1> DEFINE Parked == {t \in Targets : t \in removed \/ ~OnTime(t)}
           Memory == [t \in Targets |-> IF t \in Parked \/ event.stale THEN "out" ELSE "read"]
           run == [job |-> a, att |-> outbox.att, st |-> "run", pc |-> Memory]
<1>4. /\ jobs' = [jobs EXCEPT ![a].st = "active"]
      /\ row' = [t \in Targets |-> IF t \in Parked /\ row[t] # "SENT" THEN "SKIPPED" ELSE row[t]]
      /\ worker' = [worker EXCEPT ![w] = run]
      /\ UNCHANGED <<outbox, relay, accepted>>
  BY <1>3 DEF Begin
<1>5. \A t \in Targets : row[t] = "SENT" => row'[t] = "SENT"
  BY <1>4
<1>6. \A t \in Targets : Memory[t] \in {"out", "read"}
  OBVIOUS
<1>7. run.job = a /\ run.pc = Memory
  OBVIOUS
<1>. HIDE DEF Parked, Memory, run
<1>8. worker'[w] = run /\ \A v \in Workers \ {w} : worker'[v] = NoRun
  BY <1>2, <1>4 DEF SentInv, Shape
<1>9. /\ jobs'[a].st = "active" /\ \A b \in JobIds \ {a} : jobs'[b] = jobs[b]
      /\ \A b \in JobIds : jobs'[b].st \in {jobs[b].st, "active"}
  BY <1>j, <1>4
<1>10. OneJob'
  <2>1. ~StuckClaim
    BY <1>c, <1>1 DEF OneJob, Busy
  <2>2. \A b \in JobIds : jobs'[b].st # "orphan" /\ (Alive(b)' => b = outbox.att /\ UnderWay)
    BY <1>c, <1>1, <1>9 DEF OneJob, Alive
  <2>3. jobs'[a] # NoJob
    BY <1>9 DEF NoJob
  <2>4. \A b \in JobIds \cap relay' : jobs'[b] = NoJob => b = outbox.att /\ UnderWay
    BY <1>c, <1>4, <1>9, <2>3 DEF OneJob
  <2>. QED BY <1>4, <2>1, <2>2, <2>4 DEF OneJob, UnderWay, StuckClaim
<1>11. OneRun'
  BY <1>7, <1>8, <1>9 DEF OneRun
<1>12. Once'
  <2>1. \A t \in Targets : accepted[t] > 0 => row'[t] = "SENT"
    BY <1>c, <1>2, <1>5, IdleRun DEF Once
  <2>2. \A v \in Workers, t \in Targets : worker'[v].pc[t] \in {"out", "read"}
    BY <1>6, <1>7, <1>8, IdleRun
  <2>. QED BY <1>c, <1>4, <2>1, <2>2 DEF Once, Inside
<1>. QED BY <1>10, <1>11, <1>12 DEF CalmState

(* A run works on: what it has sent and not written is in its hands.       *)
LEMMA RunCalm ==
  ASSUME SentInv, CalmState, NEW w \in Workers, worker[w] # NoRun,
         worker'[w].job = worker[w].job,
         \A v \in Workers \ {w} : worker'[v] = worker[v],
         UNCHANGED <<outbox, jobs, relay>>,
         \A t \in Targets :
           /\ accepted'[t] <= 1
           /\ accepted'[t] > 0 => row'[t] = "SENT" \/ worker'[w].pc[t] = "ok"
           /\ worker'[w].pc[t] \in Inside => row'[t] = "SENDING"
  PROVE  CalmState'
<1>1. OneJob'
  BY JobsStay DEF CalmState
<1>2. OneRun'
  BY SoleRun DEF CalmState, OneRun
<1>3. Once'
  <2>1. \A v \in Workers \ {w}, t \in Targets : worker'[v].pc[t] = "out"
    BY SoleRun, IdleRun
  <2>. QED BY <2>1 DEF Once, Inside
<1>. QED BY <1>1, <1>2, <1>3 DEF CalmState

LEMMA TakeOnCalm ==
  ASSUME SentInv, CalmState, NEW w \in Workers, TakeOn(w)
  PROVE  CalmState'
<1> DEFINE Mine == {t \in Targets : worker[w].pc[t] = "read"}
           Memory == [t \in Targets |->
             IF t \notin Mine THEN "out" ELSE IF row'[t] = "SENDING" THEN "post" ELSE row'[t]]
<1>1. /\ worker[w].st = "run"
      /\ row' = [t \in Targets |-> IF t \in Mine THEN FirstStatus(t) ELSE row[t]]
      /\ worker' = [worker EXCEPT ![w].st = "sending", ![w].pc = Memory]
      /\ UNCHANGED <<outbox, jobs, relay, accepted>>
  BY DEF TakeOn
<1>2. worker[w] # NoRun /\ \A t \in Targets : worker[w].pc[t] \in {"out", "read"}
  BY <1>1, IdleRun DEF SentInv, RunsExcused, RunExcused
<1>3. \A t \in Targets : /\ FirstStatus(t) \in {"SENT", "FAILED", "SKIPPED", "SENDING"}
                         /\ row[t] = "SENT" => FirstStatus(t) = "SENT"
  BY DEF SentInv, Shape, FirstStatus, Taken, WorkSet, RowStates
<1>4. ASSUME NEW t \in Targets
      PROVE  /\ accepted[t] <= 1
             /\ accepted[t] > 0 => row'[t] = "SENT"
             /\ Memory[t] \in Inside => row'[t] = "SENDING"
  <2>1. accepted[t] > 0 => row[t] = "SENT"
    BY <1>2, SoleRun
  <2>2. accepted[t] > 0 => row'[t] = "SENT"
    BY <1>1, <1>3, <2>1
  <2>3. t \in Mine => row'[t] \in {"SENT", "FAILED", "SKIPPED", "SENDING"}
    BY <1>1, <1>3
  <2>4. Memory[t] \in Inside => row'[t] = "SENDING"
    BY <2>3 DEF Inside
  <2>. QED BY <2>2, <2>4 DEF CalmState, Once
<1>. HIDE DEF Memory
<1>5. /\ worker'[w].job = worker[w].job /\ worker'[w].pc = Memory
      /\ \A v \in Workers \ {w} : worker'[v] = worker[v]
  BY <1>1 DEF SentInv, Shape
<1>. QED BY <1>1, <1>2, <1>4, <1>5, RunCalm

LEMMA TargetCalm ==
  ASSUME SentInv, Typed, CalmState, NEW w \in Workers, NEW t \in Targets,
         Post(w, t) \/ PostRefused(w, t) \/ WriteSent(w, t)
  PROVE  CalmState'
<1>1. worker[w].pc[t] \in Inside /\ worker[w] # NoRun
  BY IdleRun DEF Post, PostRefused, WriteSent, Inside
<1>2. PICK pc \in {"ok", "SENT", "RETRY", "FAILED"} :
        /\ To(w, t, pc)
        /\ UNCHANGED row \/ row' = [row EXCEPT ![t] = pc]
        /\ \/ worker[w].pc[t] = "post" /\ pc = "ok" /\ UNCHANGED row
                /\ accepted' = [accepted EXCEPT ![t] = Again(@)]
           \/ worker[w].pc[t] = "post" /\ pc \in {"RETRY", "FAILED"} /\ UNCHANGED accepted
           \/ pc = "SENT" /\ row' = [row EXCEPT ![t] = pc] /\ UNCHANGED accepted
  BY DEF Post, PostRefused, WriteSent, Report
<1>3. UNCHANGED <<outbox, jobs, relay>>
  BY DEF Post, PostRefused, WriteSent
<1>4. /\ worker'[w].job = worker[w].job /\ worker'[w].pc = [worker[w].pc EXCEPT ![t] = pc]
      /\ \A v \in Workers \ {w} : worker'[v] = worker[v]
  BY <1>2 DEF To, SentInv, Shape
<1>5. /\ worker'[w].pc[t] = pc
      /\ \A d \in Targets \ {t} : worker'[w].pc[d] = worker[w].pc[d]
  BY <1>4 DEF SentInv, Shape
<1>6. \A d \in Targets \ {t} : row'[d] = row[d] /\ accepted'[d] = accepted[d]
  BY <1>2 DEF SentInv, Shape
<1>7. row[t] = "SENDING" /\ (worker[w].pc[t] = "post" => ~(accepted[t] > 0))
  BY <1>1, SoleRun DEF CalmState, Once
<1>8. /\ accepted'[t] <= 1
      /\ accepted'[t] > 0 => row'[t] = "SENT" \/ pc = "ok"
      /\ pc = "ok" => row'[t] = "SENDING"
  <2>1. accepted \in [Targets -> 0..2] /\ row \in [Targets -> RowStates] /\ accepted[t] <= 1
    BY DEF Typed, SentInv, Shape, CalmState, Once
  <2>2. CASE accepted' = [accepted EXCEPT ![t] = Again(@)]
    <3>1. accepted[t] = 0 /\ pc = "ok" /\ UNCHANGED row
      BY <1>2, <1>7, <2>1, <2>2 DEF Again
    <3>. QED BY <1>7, <2>1, <2>2, <3>1 DEF Again
  <2>3. CASE UNCHANGED accepted
    BY <1>2, <1>7, <2>1, <2>3
  <2>. QED BY <1>2, <2>2, <2>3
<1>9. \A d \in Targets \ {t} : /\ accepted[d] <= 1
                               /\ accepted[d] > 0 => row[d] = "SENT" \/ worker[w].pc[d] = "ok"
                               /\ worker[w].pc[d] \in Inside => row[d] = "SENDING"
  BY <1>1, SoleRun DEF CalmState, Once
<1>10. \A d \in Targets : /\ accepted'[d] <= 1
                          /\ accepted'[d] > 0 => row'[d] = "SENT" \/ worker'[w].pc[d] = "ok"
                          /\ worker'[w].pc[d] \in Inside => row'[d] = "SENDING"
  BY <1>5, <1>6, <1>8, <1>9 DEF Inside
<1>. QED BY <1>1, <1>3, <1>4, <1>10, RunCalm

(* The run ends: its job with it, and all it sent is written.              *)
LEMMA AdvanceCalm ==
  ASSUME SentInv, Typed, CalmState, NEW w \in Workers, Advance(w)
  PROVE  CalmState'
<1> DEFINE a == worker[w].job
<1>j. jobs \in [JobIds -> [st : JobStates, tries : 0..JobAttempts]]
  BY DEF Typed
<1>1. worker[w].st = "sending" /\ worker[w] # NoRun
  BY IdleRun DEF Advance, AllIn
<1>2. \A t \in Targets : worker[w].pc[t] \in Results \cup {"out"}
  BY DEF Advance, AllIn
<1>3. /\ a \in JobIds /\ jobs[a].st = "active"
      /\ \A v \in Workers \ {w} : worker[v] = NoRun
      /\ \A t \in Targets : accepted[t] > 0 => row[t] = "SENT"
      /\ \A b \in JobIds : Alive(b) => b = a
  BY <1>1, <1>2, SoleRun DEF Results
<1>4. /\ jobs' = [jobs EXCEPT ![a] = KeptJob]
      /\ worker' = [worker EXCEPT ![w] = NoRun]
      /\ UNCHANGED <<row, relay, accepted>>
  BY DEF Advance, Kept, Ended
<1>. HIDE DEF a
<1>5. outbox'.st # "CLAIMED"
  <2>1. \A n : Requeued(n).st # "CLAIMED"
    BY DEF Requeued
  <2>2. Terminal("SENT").st # "CLAIMED" /\ Terminal("DEAD").st # "CLAIMED"
    BY DEF SentInv, Shape, Terminal
  <2>. QED BY <2>1, <2>2 DEF Advance, Advanced
<1>6. \A v \in Workers : worker'[v] = NoRun
  BY <1>3, <1>4 DEF SentInv, Shape
<1>7. /\ jobs'[a].st = "kept" /\ jobs'[a] # NoJob
      /\ \A b \in JobIds \ {a} : jobs'[b] = jobs[b]
  BY <1>j, <1>3, <1>4 DEF KeptJob, NoJob
<1>8. OneJob'
  <2>1. \A b \in JobIds : jobs'[b].st # "orphan" /\ ~Alive(b)'
    BY <1>3, <1>7 DEF CalmState, OneJob, Alive
  <2>2. \A b \in JobIds \cap relay : jobs'[b] # NoJob
    <3>1. \A b \in JobIds \cap relay : jobs[b] = NoJob => b = outbox.att
      BY DEF CalmState, OneJob
    <3>2. a = outbox.att
      BY <1>3 DEF CalmState, OneJob, Alive
    <3>. QED BY <1>7, <3>1, <3>2
  <2>. QED BY <1>4, <1>5, <2>1, <2>2 DEF OneJob, StuckClaim
<1>9. OneRun'
  BY <1>6 DEF OneRun
<1>10. Once'
  <2>1. \A v \in Workers, t \in Targets : worker'[v].pc[t] = "out"
    BY <1>6, IdleRun
  <2>. QED BY <1>3, <1>4, <2>1 DEF CalmState, Once, Inside
<1>. QED BY <1>8, <1>9, <1>10 DEF CalmState

-----------------------------------------------------------------------------
LEMMA CalmKept ==
  ASSUME SentInv, Typed, Calm, [Next]_vars
  PROVE  Calm'
<1>1. SUFFICES ASSUME spent'.faults = 0
               PROVE  CalmState'
  BY DEF Calm, CalmState
<1>2. spent.faults = 0 /\ ~Spend("faults")
  <2>1. Effects
    BY StepEffects DEF SentInv
  <2>2. spent.faults \in Nat /\ spent \in [faults : 0..MaxFaults, calls : 0..MaxCalls]
    BY DEF Typed
  <2>3. ~Spend("faults")
    BY <1>1, <2>2 DEF Spend
  <2>4. Spend("calls") => spent'.faults = spent.faults
    BY <2>2 DEF Spend
  <2>. QED BY <1>1, <2>1, <2>3, <2>4 DEF Effects
<1>3. CalmState
  BY <1>2 DEF Calm, CalmState
<1>4. CASE \E c \in Captures : Capture(c)
  <2>1. Still
    BY <1>4 DEF SentInv, Unborn, Capture
  <2>2. UNCHANGED <<row, jobs, relay, worker, accepted>> /\ outbox'.st = "PENDING"
    BY <1>4 DEF Capture, Requeued
  <2>3. OneJob'
    BY <2>1, <2>2 DEF OneJob, Alive, Still, NoJob, StuckClaim
  <2>. QED BY <1>3, <2>2, <2>3, QueueCalm
<1>5. CASE Relay
  BY <1>3, <1>5, RelayCalm
<1>6. CASE ClaimAges \/ SweepRelease \/ Replay \/ ReviveOutbox
  BY <1>2, <1>3, <1>6, RowBackCalm
<1>7. CASE ReviveRows \/ \E t \in Targets : SweepHung(t)
  BY <1>3, <1>7, RowsCalm
<1>8. CASE (\E t \in Targets : Remove(t)) \/ SweepRead \/ ReviveRead \/ UNCHANGED vars
  <2>1. UNCHANGED <<outbox, row, jobs, relay, worker, accepted>>
    BY <1>8 DEF Remove, SweepRead, ReviveRead, vars
  <2>. QED BY <1>3, <2>1, JobsStay, QueueCalm DEF CalmState
<1>9. CASE \E w \in Workers : Work(w)
  BY <1>3, <1>9, BeginCalm, TakeOnCalm, TargetCalm, AdvanceCalm DEF Work
<1>10. CASE StalledCheck
  BY <1>3, <1>10 DEF StalledCheck, Stalled, CalmState, OneJob
<1>11. CASE Fault
  BY <1>2, <1>11 DEF Fault, EnqueueFails, RelayCrash, AdvanceThrows, RunThrows, Crash,
                     PostUnanswered, Break
<1>. QED BY <1>4, <1>5, <1>6, <1>7, <1>8, <1>9, <1>10, <1>11 DEF Next, ReleaseStale, Revive

LEMMA CalmInitially == Init => Calm
<1>. SUFFICES ASSUME Init
              PROVE  CalmState
  BY DEF Calm, CalmState
<1>1. OneJob
  BY DEF Init, OneJob, Alive, NoJob, StuckClaim
<1>2. OneRun /\ Once
  BY IdleRun DEF Init, OneRun, Once, Inside
<1>. QED BY <1>1, <1>2 DEF CalmState

(* For any workers, targets, attempts and calls: retries, a replay, a      *)
(* removal or a revival never make a target take the event twice; only a   *)
(* fault can.                                                              *)
THEOREM TwiceNeedsFault ==
  Spec => []DuplicatesNeedFaults
<1>1. Calm => DuplicatesNeedFaults
  BY DEF Calm, Once, DuplicatesNeedFaults
<1>. QED BY <1>1, SentInvInitially, SentInvKept, TypedInitially, TypedKept,
            CalmInitially, CalmKept, PTL DEF Spec
=============================================================================
