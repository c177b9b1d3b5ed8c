--------------------------- MODULE OrderEditLock ---------------------------
(***************************************************************************)
(* The edit lock of one order: OrderEditLockService and the guard of the   *)
(* admin order page that drives it.                                        *)
(*                                                                         *)
(* The lock is one row, [user, expiresAt].  Every call of the service      *)
(* reads the row in one statement and writes it in another, with nothing   *)
(* between them but the unique key on orderId.  Time is the lifetime the   *)
(* row has left, in ticks; a write carries the expiry its call computed    *)
(* when it read the row and the clock (its stamp, which ages with the      *)
(* row).  A session is a browser tab of one user: it may leave the page    *)
(* and open it again, with the DELETE of the first visit still under way.  *)
(***************************************************************************)
EXTENDS Naturals

CONSTANTS
  Sessions,   \* browser tabs that show the order
  Users,      \* staff members
  UserOf,     \* UserOf[s]: who is logged in, in s
  TTL,        \* LOCK_TTL_MS, in ticks
  Faulty      \* the sessions whose browser, network or login may fail

ASSUME EditLockAssumption ==
  /\ UserOf \in [Sessions -> Users]
  /\ TTL \in Nat \ {0}
  /\ "none" \notin Users
  /\ Faulty \subseteq Sessions

VARIABLES
  lock,       \* the OrderEditLock row, or NoLock
  ui,         \* ui[s]: the LockState the guard of s shows
  call,       \* call[s]: the acquire, heartbeat or override s awaits
  release     \* release[s]: the DELETE sent when s was closed

vars == <<lock, ui, call, release>>

NoLock == [user |-> "none", left |-> 0]
Rows == [user : Users, left : 0..TTL]

(* "heldByOther" offers the override; "conflict" offers nothing: the page  *)
(* has to be opened again.                                                 *)
UiStates == {"idle", "acquiring", "heldByMe", "heldByOther", "conflict", "closed"}

(* Where a call is: on its way, in the service before its next statement,  *)
(* or answered: "yes" (acquired, overridden, renewed), "no" (held by       *)
(* another, lost) or "error".                                              *)
CallPhases ==
  {"none", "acquire", "upsert", "create", "raced", "heartbeat", "renew", "override",
   "yes", "no", "error"}

NoCall == [pc |-> "none", exp |-> 0]

Live == lock # NoLock /\ lock.left > 0
Holds(s) == Live /\ lock.user = UserOf[s]
HeldByOther(s) == Live /\ lock.user # UserOf[s]

Goto(s, pc) == call' = [call EXCEPT ![s] = [pc |-> pc, exp |-> 0]]
Stamp(s, pc) == call' = [call EXCEPT ![s] = [pc |-> pc, exp |-> TTL]]
Stamped(s, pc) == call' = [call EXCEPT ![s].pc = pc]      \* keeps its stamp

-----------------------------------------------------------------------------
(* acquire                                                                 *)

Open(s) ==
  /\ ui[s] = "closed"
  /\ call[s] = NoCall
  /\ ui' = [ui EXCEPT ![s] = "acquiring"]
  /\ Goto(s, "acquire")
  /\ UNCHANGED <<lock, release>>

AcquireRead(s) ==
  /\ call[s].pc = "acquire"
  /\ \/ HeldByOther(s) /\ Goto(s, "no")
     \/ ~HeldByOther(s) /\ lock # NoLock /\ Stamp(s, "upsert")
     \/ lock = NoLock /\ Stamp(s, "create")
  /\ UNCHANGED <<lock, ui, release>>

AcquireUpsert(s) ==
  /\ call[s].pc = "upsert"
  /\ lock' = [user |-> UserOf[s], left |-> call[s].exp]
  /\ Goto(s, "yes")
  /\ UNCHANGED <<ui, release>>

(* A plain create; P2002 when someone else's row got there first.          *)
AcquireCreate(s) ==
  /\ call[s].pc = "create"
  /\ \/ /\ lock = NoLock
        /\ lock' = [user |-> UserOf[s], left |-> call[s].exp]
        /\ Goto(s, "yes")
     \/ /\ lock # NoLock
        /\ Stamped(s, "raced")
        /\ UNCHANGED lock
  /\ UNCHANGED <<ui, release>>

AcquireReread(s) ==
  /\ call[s].pc = "raced"
  /\ IF HeldByOther(s) THEN Goto(s, "no") ELSE Stamped(s, "upsert")
  /\ UNCHANGED <<lock, ui, release>>

-----------------------------------------------------------------------------
(* heartbeat                                                               *)

(* Mutant of HeartbeatSend: the interval outlives the page.                *)
HeartbeatSendZombie(s) ==
  /\ ui[s] \in {"heldByMe", "closed"}
  /\ call[s] = NoCall
  /\ Goto(s, "heartbeat")
  /\ UNCHANGED <<lock, ui, release>>

HeartbeatSend(s) ==
  /\ ui[s] = "heldByMe"
  /\ call[s] = NoCall
  /\ Goto(s, "heartbeat")
  /\ UNCHANGED <<lock, ui, release>>

(* Mutant of HeartbeatRead: the owner of the row is not compared.          *)
HeartbeatReadAnyOwner(s) ==
  /\ call[s].pc = "heartbeat"
  /\ IF Live THEN Stamp(s, "renew") ELSE Goto(s, "no")
  /\ UNCHANGED <<lock, ui, release>>

HeartbeatRead(s) ==
  /\ call[s].pc = "heartbeat"
  /\ IF Holds(s) THEN Stamp(s, "renew") ELSE Goto(s, "no")
  /\ UNCHANGED <<lock, ui, release>>

(* Mutant of HeartbeatWrite: an upsert where the code updates.             *)
HeartbeatWriteBlind(s) ==
  /\ call[s].pc = "renew"
  /\ lock' = [lock EXCEPT !.left = call[s].exp]
  /\ Goto(s, "yes")
  /\ UNCHANGED <<ui, release>>

(* By orderId, whoever owns the row by now; P2025 when it is gone.         *)
HeartbeatWrite(s) ==
  /\ call[s].pc = "renew"
  /\ \/ /\ lock # NoLock
        /\ lock' = [lock EXCEPT !.left = call[s].exp]
        /\ Goto(s, "yes")
     \/ /\ lock = NoLock
        /\ Goto(s, "error")
        /\ UNCHANGED lock
  /\ UNCHANGED <<ui, release>>

-----------------------------------------------------------------------------
(* override                                                                *)

OverrideSend(s) ==
  /\ ui[s] = "heldByOther"
  /\ call[s] = NoCall
  /\ Stamp(s, "override")
  /\ UNCHANGED <<lock, ui, release>>

OverrideWrite(s) ==
  /\ call[s].pc = "override"
  /\ lock' = [user |-> UserOf[s], left |-> call[s].exp]
  /\ Goto(s, "yes")
  /\ UNCHANGED <<ui, release>>

-----------------------------------------------------------------------------
(* What the guard makes of an answer.  An answer to a page that is gone    *)
(* changes nothing.                                                        *)

Shows == [yes |-> "heldByMe", no |-> "heldByOther", error |-> "conflict"]

Answer(s) ==
  /\ call[s].pc \in DOMAIN Shows
  /\ ui' = IF ui[s] = "closed" THEN ui ELSE [ui EXCEPT ![s] = Shows[call[s].pc]]
  /\ call' = [call EXCEPT ![s] = NoCall]
  /\ UNCHANGED <<lock, release>>

(* The request, the service or the answer fails; what it wrote stays.      *)
Lose(s) ==
  /\ s \in Faulty
  /\ call[s].pc \notin {"none", "error"}
  /\ Goto(s, "error")
  /\ UNCHANGED <<lock, ui, release>>

(* An acquire refused with 401 or 403 leaves the guard idle.               *)
Unauthorised(s) ==
  /\ s \in Faulty
  /\ call[s].pc = "acquire" /\ ui[s] = "acquiring"
  /\ ui' = [ui EXCEPT ![s] = "idle"]
  /\ call' = [call EXCEPT ![s] = NoCall]
  /\ UNCHANGED <<lock, release>>

-----------------------------------------------------------------------------
(* Leaving the page sends a DELETE; a killed browser sends nothing.        *)

Close(s) ==
  /\ ui[s] # "closed"
  /\ ui' = [ui EXCEPT ![s] = "closed"]
  /\ release' = [release EXCEPT ![s] = "sent"]
  /\ UNCHANGED <<lock, call>>

Crash(s) ==
  /\ s \in Faulty
  /\ ui[s] # "closed"
  /\ ui' = [ui EXCEPT ![s] = "closed"]
  /\ UNCHANGED <<lock, call, release>>

(* The owner is compared whether or not the lock is still live.            *)
ReleaseRead(s) ==
  /\ release[s] = "sent"
  /\ release' = [release EXCEPT ![s] =
       IF lock # NoLock /\ lock.user = UserOf[s] THEN "delete" ELSE "none"]
  /\ UNCHANGED <<lock, ui, call>>

(* By orderId; P2025 when the row is gone already.                         *)
ReleaseWrite(s) ==
  /\ release[s] = "delete"
  /\ lock' = NoLock
  /\ release' = [release EXCEPT ![s] = "none"]
  /\ UNCHANGED <<ui, call>>

-----------------------------------------------------------------------------
Aged(n) == IF n > 0 THEN n - 1 ELSE 0

Tick ==
  /\ lock' = [lock EXCEPT !.left = Aged(@)]
  /\ call' = [s \in Sessions |-> [call[s] EXCEPT !.exp = Aged(@)]]
  /\ UNCHANGED <<ui, release>>

Init ==
  /\ lock = NoLock
  /\ ui = [s \in Sessions |-> "closed"]
  /\ call = [s \in Sessions |-> NoCall]
  /\ release = [s \in Sessions |-> "none"]

(* The statements of the service, and the answers it sends.                *)
Serve(s) ==
  \/ AcquireRead(s)
  \/ AcquireUpsert(s)
  \/ AcquireCreate(s)
  \/ AcquireReread(s)
  \/ HeartbeatRead(s)
  \/ HeartbeatWrite(s)
  \/ OverrideWrite(s)
  \/ Answer(s)

Next ==
  \/ \E s \in Sessions :
       \/ Open(s)
       \/ HeartbeatSend(s)
       \/ OverrideSend(s)
       \/ Serve(s)
       \/ Lose(s)
       \/ Unauthorised(s)
       \/ Close(s)
       \/ Crash(s)
       \/ ReleaseRead(s)
       \/ ReleaseWrite(s)
  \/ Tick

(* Requests are served, the heartbeat interval fires, time passes.         *)
Fairness ==
  /\ WF_vars(Tick)
  /\ \A s \in Sessions :
       /\ WF_vars(Serve(s))
       /\ WF_vars(HeartbeatSend(s))

Spec == Init /\ [][Next]_vars /\ Fairness

-----------------------------------------------------------------------------
(* Every variable has its type: a lock row always has an owner.            *)
TypeOK ==
  /\ lock \in Rows \cup {NoLock}
  /\ ui \in [Sessions -> UiStates]
  /\ call \in [Sessions -> [pc : CallPhases, exp : 0..TTL]]
  /\ release \in [Sessions -> {"none", "sent", "delete"}]

(* A page that shows "you hold the edit lock" while its user does not, by  *)
(* an override, an expiry, a raced takeover or the close of another tab,   *)
(* stops showing it, or gets the lock back: the heartbeat finds out.       *)
DisplacedLearns ==
  \A s \in Sessions :
    ui[s] = "heldByMe" /\ ~Holds(s) ~> ui[s] # "heldByMe" \/ Holds(s)

(* "Missing heartbeat lets the lock expire": once every page of its owner  *)
(* is gone, killed pages and calls still in flight included, a lock dies   *)
(* or passes on, so nobody is kept off the order for ever.                 *)
Abandoned(u) == \A s \in Sessions : UserOf[s] = u => ui[s] = "closed"

AbandonedLockEnds ==
  \A u \in Users :
    Live /\ lock.user = u /\ Abandoned(u) ~> ~Live \/ lock.user # u \/ ~Abandoned(u)

(* "No read-then-write races", "Release only by the holder": a live lock   *)
(* is taken from its owner by an explicit override and by nothing else.    *)
OnlyOverrideDisplaces ==
  [][Live /\ lock'.user # lock.user =>
       \E s \in Sessions :
         OverrideWrite(s) \/ (ReleaseWrite(s) /\ UserOf[s] = lock.user)]_vars
=============================================================================
