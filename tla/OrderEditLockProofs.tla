------------------------ MODULE OrderEditLockProofs ------------------------
(***************************************************************************)
(* The types of the edit lock, for any tabs, users and lifetime.  Three    *)
(* statements write the row without having just read it: a renewal, an     *)
(* upsert after a lost race, and a delete.                                 *)
(***************************************************************************)
EXTENDS OrderEditLock, TLAPS

Calls == [pc : CallPhases, exp : 0..TTL]

LEMMA CallTypes ==
  /\ NoCall \in Calls
  /\ \A pc \in CallPhases : /\ [pc |-> pc, exp |-> 0] \in Calls
                            /\ [pc |-> pc, exp |-> TTL] \in Calls
                            /\ \A c \in Calls : [c EXCEPT !.pc = pc] \in Calls
BY EditLockAssumption DEF Calls, NoCall, CallPhases

(* What a session does to its own call, whatever its phase.                *)
LEMMA CallStep ==
  ASSUME TypeOK, NEW s \in Sessions, NEW pc \in CallPhases,
         Goto(s, pc) \/ Stamp(s, pc) \/ Stamped(s, pc)
  PROVE  call' \in [Sessions -> Calls]
BY CallTypes DEF TypeOK, Calls, Goto, Stamp, Stamped

(* A write of the row in the name of s, with the expiry its call computed. *)
LEMMA RowStep ==
  ASSUME TypeOK, NEW s \in Sessions,
         lock' = [user |-> UserOf[s], left |-> call[s].exp]
  PROVE  lock' \in Rows
BY EditLockAssumption DEF TypeOK, Rows

LEMMA ServeType == \A s \in Sessions : TypeOK /\ Serve(s) => TypeOK'
<1> SUFFICES ASSUME NEW s \in Sessions, TypeOK, Serve(s)
             PROVE  TypeOK'
  OBVIOUS
<1> USE DEF CallPhases
<1>1. CASE AcquireRead(s)
  BY <1>1, CallStep DEF AcquireRead, TypeOK, Calls
<1>2. CASE AcquireUpsert(s)
  BY <1>2, CallStep, RowStep DEF AcquireUpsert, TypeOK, Calls
<1>3. CASE AcquireCreate(s)
  BY <1>3, CallStep, RowStep DEF AcquireCreate, TypeOK, Calls
<1>4. CASE AcquireReread(s)
  BY <1>4, CallStep DEF AcquireReread, TypeOK, Calls
<1>5. CASE HeartbeatRead(s)
  BY <1>5, CallStep DEF HeartbeatRead, TypeOK, Calls
<1>6. CASE HeartbeatWrite(s)
  <2>1. lock' \in Rows \cup {NoLock}
    BY <1>6 DEF HeartbeatWrite, TypeOK, Rows
  <2> QED
    BY <1>6, <2>1, CallStep DEF HeartbeatWrite, TypeOK, Calls
<1>7. CASE OverrideWrite(s)
  BY <1>7, CallStep, RowStep DEF OverrideWrite, TypeOK, Calls
<1>8. CASE Answer(s)
  <2>1. Shows[call[s].pc] \in UiStates
    BY <1>8 DEF Answer, Shows, UiStates
  <2> QED
    BY <1>8, <2>1, CallTypes DEF Answer, TypeOK, Calls
<1> QED
  BY <1>1, <1>2, <1>3, <1>4, <1>5, <1>6, <1>7, <1>8 DEF Serve

(* What users and failures do.                                             *)
LEMMA PageType ==
  \A s \in Sessions :
    /\ TypeOK
    /\ \/ Open(s) \/ HeartbeatSend(s) \/ OverrideSend(s) \/ Lose(s) \/ Unauthorised(s)
       \/ Close(s) \/ Crash(s) \/ ReleaseRead(s) \/ ReleaseWrite(s)
    => TypeOK'
<1> SUFFICES ASSUME NEW s \in Sessions, TypeOK,
                    \/ Open(s) \/ HeartbeatSend(s) \/ OverrideSend(s) \/ Lose(s)
                    \/ Unauthorised(s) \/ Close(s) \/ Crash(s)
                    \/ ReleaseRead(s) \/ ReleaseWrite(s)
             PROVE  TypeOK'
  OBVIOUS
<1>1. CASE Open(s)
  BY <1>1, CallStep DEF Open, TypeOK, Calls, CallPhases, UiStates
<1>2. CASE HeartbeatSend(s)
  BY <1>2, CallStep DEF HeartbeatSend, TypeOK, Calls, CallPhases
<1>3. CASE OverrideSend(s)
  BY <1>3, CallStep DEF OverrideSend, TypeOK, Calls, CallPhases
<1>4. CASE Lose(s)
  BY <1>4, CallStep DEF Lose, TypeOK, Calls, CallPhases
<1>5. CASE Unauthorised(s)
  BY <1>5, CallTypes DEF Unauthorised, TypeOK, Calls, UiStates
<1>6. CASE Close(s)
  BY <1>6 DEF Close, TypeOK, UiStates
<1>7. CASE Crash(s)
  BY <1>7 DEF Crash, TypeOK, UiStates
<1>8. CASE ReleaseRead(s)
  BY <1>8 DEF ReleaseRead, TypeOK
<1>9. CASE ReleaseWrite(s)
  BY <1>9 DEF ReleaseWrite, TypeOK
<1> QED
  BY <1>1, <1>2, <1>3, <1>4, <1>5, <1>6, <1>7, <1>8, <1>9

LEMMA TickType == TypeOK /\ Tick => TypeOK'
<1> SUFFICES ASSUME TypeOK, Tick
             PROVE  TypeOK'
  OBVIOUS
<1>1. \A n \in 0..TTL : Aged(n) \in 0..TTL
  BY EditLockAssumption DEF Aged
<1>2. lock' \in Rows \cup {NoLock}
  <2>1. CASE lock = NoLock
    BY <2>1 DEF Tick, NoLock, Aged
  <2>2. CASE lock \in Rows
    BY <2>2, <1>1 DEF Tick, Rows
  <2> QED
    BY <2>1, <2>2 DEF TypeOK
<1>3. \A s \in Sessions : [call[s] EXCEPT !.exp = Aged(@)] \in Calls
  BY <1>1 DEF TypeOK, Calls
<1>4. call' \in [Sessions -> Calls]
  BY <1>3 DEF Tick
<1> QED
  BY <1>2, <1>4 DEF Tick, TypeOK, Calls

(* A row always has an owner and at most a lifetime left, a page shows one *)
(* of its states, and a call is where the service can be, whatever calls   *)
(* overlap, fail, or come back to a page that was opened again.            *)
THEOREM TypeCorrect == Spec => []TypeOK
<1>1. Init => TypeOK
  BY CallTypes DEF Init, TypeOK, Calls, UiStates
<1>2. TypeOK /\ [Next]_vars => TypeOK'
  <2> SUFFICES ASSUME TypeOK, [Next]_vars
               PROVE  TypeOK'
    OBVIOUS
  <2>1. CASE Next
    BY <2>1, ServeType, PageType, TickType DEF Next
  <2>2. CASE UNCHANGED vars
    BY <2>2 DEF vars, TypeOK
  <2> QED
    BY <2>1, <2>2
<1> QED
  BY <1>1, <1>2, PTL DEF Spec
=============================================================================
