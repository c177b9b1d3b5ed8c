------------------------- MODULE OrderStockProofs -------------------------
(***************************************************************************)
(* Theorems of OrderStock, for every value of its constants:               *)
(*                                                                         *)
(*   TypeCorrect                every reachable state is well typed;       *)
(*   LineTakenOnce              a line leaves the shelf at most once;      *)
(*   OrderStockImplementsShelf  the handlers implement Shelf.              *)
(*                                                                         *)
(* TypeCorrect holds of every Overlap.  The other two assume that the      *)
(* transactions of ONE order do not overlap (Overlap # "full"; their gates *)
(* may, and transactions of different orders always may), and that a return*)
(* covers its whole line (~SplitReturns): the runs OrderStock_twice and    *)
(* OrderStock_partial show that both assumptions are needed.               *)
(***************************************************************************)
EXTENDS OrderStock, SequenceTheorems, TLAPS

-----------------------------------------------------------------------------
(* The parts of the typing invariant                                       *)

StockTyped ==
  /\ onHand \in Nat
  /\ reserved \in Nat
  /\ resF \in [Orders -> BOOLEAN]
  /\ dedF \in [Orders -> BOOLEAN]
  /\ taken \in [Orders -> Int]

OrderTyped ==
  /\ heldRow \in [Orders -> BOOLEAN]
  /\ status \in [Orders -> OrderStatuses \cup {"None"}]
  /\ trashed \in [Orders -> BOOLEAN]
  /\ dispatch \in [Orders -> DispatchStatuses \cup {"None"}]
  /\ left \in [Orders -> BOOLEAN]
  /\ rets \in [Orders -> Seq(ReturnRows)]

(* A job's target belongs to the table of its kind.                        *)
GoodJobs ==
  {j \in Jobs :
     /\ j.kind = "board" => j.to \in DispatchStatuses
     /\ j.kind \in {"create", "status", "customer", "sync"} => j.to \in OrderStatuses
     /\ j.kind = "newReturn" => j.to \in {"FULL", "PARTIAL"}}

JobsTyped == job \in [Workers -> GoodJobs \cup {NoJob}]

TypeInv == StockTyped /\ OrderTyped /\ JobsTyped

LEMMA TypeInvImpliesTypeOK == TypeInv => TypeOK
BY DEF TypeInv, TypeOK, StockTyped, OrderTyped, JobsTyped, GoodJobs

(* The projection of a dispatch status is an order status, or moves none.  *)
LEMMA SyncTargetTyped ==
  ASSUME NEW d \in DispatchStatuses
  PROVE  SyncTarget[d] \in OrderStatuses \cup {"None"}
BY DEF SyncTarget, DispatchStatuses, OrderStatuses

-----------------------------------------------------------------------------
(* What the stock services do keeps the counters natural numbers.          *)

LEMMA ClaimLineTyped ==
  ASSUME StockTyped, NEW o \in Orders, NEW res \in BOOLEAN, ClaimLine(o, res)
  PROVE  StockTyped'
<1>q. Qty[o] \in Nat
  BY OrderStockAssumption DEF OrderStockAssumption
<1>1. CASE res
  BY <1>1 DEF StockTyped, ClaimLine
<1>2. CASE ~res
  <2>1. /\ reserved' = reserved + Qty[o]
        /\ resF' = [resF EXCEPT ![o] = TRUE]
        /\ UNCHANGED <<onHand, dedF, taken>>
    BY <1>2 DEF ClaimLine
  <2>. QED BY <2>1, <1>q DEF StockTyped
<1>. QED BY <1>1, <1>2

LEMMA TakeLineTyped ==
  ASSUME StockTyped, NEW o \in Orders, NEW ded \in BOOLEAN, TakeLine(o, ded)
  PROVE  StockTyped'
<1>q. Qty[o] \in Nat
  BY OrderStockAssumption DEF OrderStockAssumption
<1>1. CASE ded
  BY <1>1 DEF StockTyped, TakeLine, stockVars
<1>2. CASE ~ded
  <2>1. /\ onHand >= Qty[o] /\ onHand' = onHand - Qty[o]
        /\ reserved >= Qty[o] /\ reserved' = reserved - Qty[o]
        /\ dedF' = [dedF EXCEPT ![o] = TRUE]
        /\ taken' = [taken EXCEPT ![o] = @ + Qty[o]]
        /\ resF' = resF
    BY <1>2 DEF TakeLine
  <2>. QED BY <2>1, <1>q DEF StockTyped
<1>. QED BY <1>1, <1>2

LEMMA GiveBackTyped ==
  ASSUME StockTyped, NEW o \in Orders, NEW ded \in BOOLEAN, NEW res \in BOOLEAN,
         GiveBack(o, ded, res)
  PROVE  StockTyped'
<1>q. Qty[o] \in Nat
  BY OrderStockAssumption DEF OrderStockAssumption
<1>1. CASE ded
  <2>1. /\ onHand' = onHand + Qty[o]
        /\ taken' = [taken EXCEPT ![o] = @ - Qty[o]]
        /\ ReleaseIfHeld(Qty[o])
        /\ dedF' = [dedF EXCEPT ![o] = FALSE]
        /\ resF' = [resF EXCEPT ![o] = FALSE]
    BY <1>1 DEF GiveBack
  <2>2. reserved' \in Nat
    BY <2>1, <1>q DEF StockTyped, ReleaseIfHeld
  <2>3. onHand' \in Nat /\ taken' \in [Orders -> Int]
    BY <2>1, <1>q DEF StockTyped
  <2>. QED BY <2>1, <2>2, <2>3 DEF StockTyped
<1>2. CASE ~ded /\ res
  <2>1. /\ ReleaseClaim(Qty[o])
        /\ resF' = [resF EXCEPT ![o] = FALSE]
        /\ UNCHANGED <<onHand, dedF, taken>>
    BY <1>2 DEF GiveBack
  <2>. QED BY <2>1, <1>q DEF StockTyped, ReleaseClaim
<1>3. CASE ~ded /\ ~res
  BY <1>3 DEF StockTyped, GiveBack, stockVars
<1>. QED BY <1>1, <1>2, <1>3

LEMMA ReturnBackTyped ==
  ASSUME StockTyped, NEW o \in Orders, NEW ded \in BOOLEAN, NEW res \in BOOLEAN,
         NEW n \in Nat, ReturnBack(o, ded, res, n)
  PROVE  StockTyped'
<1>f. dedF' \in [Orders -> BOOLEAN] /\ resF' \in [Orders -> BOOLEAN]
  BY DEF StockTyped, ReturnBack
<1>1. CASE n > 0 /\ ded
  <2>1. onHand' = onHand + n /\ taken' = [taken EXCEPT ![o] = @ - n] /\ ReleaseIfHeld(n)
    BY <1>1 DEF ReturnBack
  <2>2. reserved' \in Nat
    BY <2>1 DEF StockTyped, ReleaseIfHeld
  <2>3. onHand' \in Nat /\ taken' \in [Orders -> Int]
    BY <2>1 DEF StockTyped
  <2>. QED BY <2>2, <2>3, <1>f DEF StockTyped
<1>2. CASE n > 0 /\ ~ded /\ res
  <2>1. ReleaseClaim(n) /\ UNCHANGED <<onHand, taken>>
    BY <1>2 DEF ReturnBack
  <2>. QED BY <2>1, <1>f DEF StockTyped, ReleaseClaim
<1>3. CASE ~(n > 0 /\ ded) /\ ~(n > 0 /\ ~ded /\ res)
  <2>1. UNCHANGED <<onHand, reserved, taken>>
    BY <1>3 DEF ReturnBack
  <2>. QED BY <2>1, <1>f DEF StockTyped
<1>. QED BY <1>1, <1>2, <1>3

LEMMA StockUnchangedTyped ==
  ASSUME StockTyped, UNCHANGED stockVars
  PROVE  StockTyped'
BY DEF StockTyped, stockVars

-----------------------------------------------------------------------------
(* How a step moves a worker's job.                                        *)

LEMMA StartTyped ==
  ASSUME JobsTyped, NEW w \in Workers, NEW j \in GoodJobs, Start(w, j)
  PROVE  JobsTyped'
BY DEF JobsTyped, Start

LEMMA FinishTyped ==
  ASSUME JobsTyped, NEW w \in Workers, Finish(w)
  PROVE  JobsTyped'
BY DEF JobsTyped, Finish

LEMMA BusyIsGood ==
  ASSUME JobsTyped, NEW w \in Workers, job[w] # NoJob
  PROVE  job[w] \in GoodJobs
BY DEF JobsTyped

LEMMA RunningIsGood ==
  ASSUME JobsTyped, NEW w \in Workers, NEW kind, NEW pc, Running(w, kind, pc)
  PROVE  /\ job[w] \in GoodJobs
         /\ job[w].kind = kind
         /\ job[w].pc = pc
         /\ job[w].o \in Orders
         /\ job[w].ded \in BOOLEAN
         /\ job[w].res \in BOOLEAN
         /\ job[w].extra \in BOOLEAN
         /\ job[w].n \in Nat
         /\ job[w].row \in Nat
BY DEF JobsTyped, Running, GoodJobs, Jobs

LEMMA NewJobGood ==
  ASSUME NEW kind \in Kinds, NEW o \in Orders,
         NEW to \in OrderStatuses \cup DispatchStatuses \cup {"FULL", "None"},
         NEW from \in DispatchStatuses \cup {"None"}, NEW extra \in BOOLEAN,
         kind = "board" => to \in DispatchStatuses,
         kind \in {"create", "status", "customer", "sync"} => to \in OrderStatuses,
         kind = "newReturn" => to \in {"FULL", "PARTIAL"}
  PROVE  NewJob(kind, o, to, from, extra) \in GoodJobs
BY DEF NewJob, GoodJobs, Jobs, Phases

(* The only parts of a job a step rewrites in place.                       *)
LEMMA MovedJobGood ==
  ASSUME NEW j \in GoodJobs, NEW pc \in Phases, NEW ded \in BOOLEAN,
         NEW res \in BOOLEAN, NEW extra \in BOOLEAN
  PROVE  /\ [j EXCEPT !.pc = pc] \in GoodJobs
         /\ [j EXCEPT !.pc = pc, !.ded = ded] \in GoodJobs
         /\ [j EXCEPT !.pc = pc, !.ded = ded, !.res = res] \in GoodJobs
         /\ [j EXCEPT !.pc = pc, !.ded = ded, !.res = res, !.extra = extra] \in GoodJobs
BY DEF GoodJobs, Jobs

LEMMA CountedJobGood ==
  ASSUME NEW j \in GoodJobs, NEW n \in Nat, NEW i \in Nat
  PROVE  /\ [j EXCEPT !.n = n] \in GoodJobs
         /\ [j EXCEPT !.row = i, !.n = n] \in GoodJobs
BY DEF GoodJobs, Jobs

LEMMA OrderUnchangedTyped ==
  ASSUME OrderTyped, UNCHANGED <<heldRow, orderVars, parcelVars, rets>>
  PROVE  OrderTyped'
BY DEF OrderTyped, orderVars, parcelVars

-----------------------------------------------------------------------------
(* The gates: only the job of one worker changes.                          *)

LEMMA GateTyped ==
  ASSUME TypeInv, NEW w \in Workers, NEW j \in GoodJobs \cup {NoJob}, Start(w, j),
         UNCHANGED <<stockVars, heldRow, orderVars, parcelVars, rets>>
  PROVE  TypeInv'
<1>1. StockTyped'
  BY StockUnchangedTyped DEF TypeInv
<1>2. OrderTyped'
  BY OrderUnchangedTyped DEF TypeInv
<1>3. JobsTyped'
  BY DEF TypeInv, JobsTyped, Start
<1>. QED BY <1>1, <1>2, <1>3 DEF TypeInv

LEMMA FinishGateTyped ==
  ASSUME TypeInv, NEW w \in Workers, Finish(w),
         UNCHANGED <<stockVars, heldRow, orderVars, parcelVars, rets>>
  PROVE  TypeInv'
BY GateTyped DEF Start, Finish

LEMMA StartHandlerTyped ==
  ASSUME TypeInv, NEW w \in Workers, NEW o \in Orders, StartHandler(w, o)
  PROVE  TypeInv'
<1>a. StatusTargets[o] \subseteq OrderStatuses /\ BoardTargets \subseteq DispatchStatuses
  BY OrderStockAssumption DEF OrderStockAssumption
<1>1. CASE CreateGate(w, o)
  <2>1. NewJob("create", o, "Pending", "None", FALSE) \in GoodJobs
    BY NewJobGood DEF Kinds, OrderStatuses
  <2>. QED BY <1>1, <2>1, GateTyped DEF CreateGate
<1>2. ASSUME NEW to \in StatusTargets[o], NEW automated \in BOOLEAN,
             StatusGate(w, o, to, automated)
      PROVE  TypeInv'
  <2>1. \A e \in BOOLEAN : NewJob("status", o, to, "None", e) \in GoodJobs
    BY <1>a, NewJobGood DEF Kinds
  <2>2. PICK e \in BOOLEAN : Start(w, NewJob("status", o, to, "None", e))
    BY <1>2 DEF StatusGate
  <2>. QED BY <1>2, <2>1, <2>2, GateTyped DEF StatusGate
<1>3. CASE CustomerCancelGate(w, o)
  <2>1. NewJob("customer", o, "Cancelled", "None", FALSE) \in GoodJobs
    BY NewJobGood DEF Kinds, OrderStatuses
  <2>. QED BY <1>3, <2>1, GateTyped DEF CustomerCancelGate
<1>4. CASE TrashGate(w, o)
  <2>1. NewJob("trash", o, "None", "None", status[o] \notin GoodsAlreadyLeft) \in GoodJobs
    BY NewJobGood DEF Kinds
  <2>. QED BY <1>4, <2>1, GateTyped DEF TrashGate
<1>5. CASE RestoreGate(w, o)
  <2>1. NewJob("restore", o, "None", "None",
               status[o] \notin GoodsAlreadyLeft \cup {"Cancelled"}) \in GoodJobs
    BY NewJobGood DEF Kinds
  <2>. QED BY <1>5, <2>1, GateTyped DEF RestoreGate
<1>6. ASSUME NEW to \in BoardTargets, NEW automated \in BOOLEAN,
             BoardGate(w, o, to, automated)
      PROVE  TypeInv'
  <2>1. dispatch[o] \in DispatchStatuses \cup {"None"}
    BY DEF TypeInv, OrderTyped
  <2>2. NewJob("board", o, to, dispatch[o], automated) \in GoodJobs
    BY <1>a, <2>1, NewJobGood DEF Kinds
  <2>. QED BY <1>6, <2>2, GateTyped DEF BoardGate
<1>7. ASSUME NEW type \in {"FULL", "PARTIAL"}, NEW n \in 1..Qty[o],
             NEW mark \in BOOLEAN, NewReturnGate(w, o, type, n, mark)
      PROVE  TypeInv'
  <2>1. NewJob("newReturn", o, type, "None", mark) \in GoodJobs
    BY NewJobGood DEF Kinds, DispatchStatuses
  <2>2. n \in Nat
    OBVIOUS
  <2>3. [NewJob("newReturn", o, type, "None", mark) EXCEPT !.n = n] \in GoodJobs
    BY <2>1, <2>2, CountedJobGood
  <2>. QED BY <1>7, <2>3, GateTyped DEF NewReturnGate
<1>8. ASSUME NEW i \in 1..MaxReturns, NEW n \in 0..Qty[o], ReceiveGate(w, o, i, n)
      PROVE  TypeInv'
  <2>1. rets[o][i].type \in {"FULL", "PARTIAL"}
    <3>1. rets[o] \in Seq(ReturnRows) /\ i \in DOMAIN rets[o]
      BY <1>8 DEF ReceiveGate, TypeInv, OrderTyped
    <3>2. rets[o][i] \in ReturnRows
      BY <3>1
    <3>. QED BY <3>2 DEF ReturnRows
  <2>2. /\ NewJob("receive", o, rets[o][i].type, "None", FALSE) \in GoodJobs
        /\ NewJob("mirror", o, rets[o][i].type, "None", FALSE) \in GoodJobs
    BY <2>1, NewJobGood DEF Kinds, DispatchStatuses
  <2>3. n \in Nat /\ i \in Nat
    BY OrderStockAssumption DEF OrderStockAssumption
  <2>4. [NewJob("receive", o, rets[o][i].type, "None", FALSE) EXCEPT !.row = i, !.n = n]
          \in GoodJobs
    BY <2>2, <2>3, CountedJobGood
  <2>. QED BY <1>8, <2>2, <2>4, GateTyped DEF ReceiveGate
<1>. QED BY <1>1, <1>2, <1>3, <1>4, <1>5, <1>6, <1>7, <1>8 DEF StartHandler

-----------------------------------------------------------------------------
(* The steps of a handler in flight, one lemma each where a step does more *)
(* than move its job.                                                      *)

LEMMA CreateCommitTyped ==
  ASSUME TypeInv, NEW w \in Workers, CreateCommit(w)
  PROVE  TypeInv'
<1>1. job[w].o \in Orders
  BY RunningIsGood DEF TypeInv, CreateCommit
<1>2. StockTyped'
  BY <1>1, ClaimLineTyped DEF TypeInv, CreateCommit
<1>3. OrderTyped'
  <2>1. status' \in [Orders -> OrderStatuses \cup {"None"}]
    BY <1>1 DEF TypeInv, OrderTyped, CreateCommit, OrderStatuses
  <2>. QED BY <2>1 DEF TypeInv, OrderTyped, CreateCommit, parcelVars
<1>4. JobsTyped'
  BY FinishTyped DEF TypeInv, CreateCommit
<1>. QED BY <1>2, <1>3, <1>4 DEF TypeInv

LEMMA OrderBeginTyped ==
  ASSUME TypeInv, NEW w \in Workers, OrderBegin(w)
  PROVE  TypeInv'
<1>1. PICK k \in OrderRowKinds : Running(w, k, "gate")
  BY DEF OrderBegin
<1>2. job[w] \in GoodJobs /\ job[w].o \in Orders /\ job[w].extra \in BOOLEAN
  BY <1>1, RunningIsGood DEF TypeInv
<1>3. dedF[job[w].o] \in BOOLEAN /\ resF[job[w].o] \in BOOLEAN
  BY <1>2 DEF TypeInv, StockTyped
<1>4. PICK pc \in Phases, extra \in BOOLEAN :
        Start(w, [job[w] EXCEPT !.pc = pc, !.ded = dedF[job[w].o],
                                !.res = resF[job[w].o], !.extra = extra])
  <2>1. (IF HoldsStock(job[w]) THEN "hold" ELSE "tx") \in Phases
    BY DEF Phases
  <2>2. CreatesReturn(job[w].o) \in BOOLEAN
    BY DEF CreatesReturn
  <2>3. (IF MarksReturned(job[w]) THEN CreatesReturn(job[w].o) ELSE job[w].extra) \in BOOLEAN
    BY <1>2, <2>2
  <2>. QED BY <2>1, <2>3 DEF OrderBegin
<1>5. [job[w] EXCEPT !.pc = pc, !.ded = dedF[job[w].o],
                     !.res = resF[job[w].o], !.extra = extra] \in GoodJobs
  BY <1>2, <1>3, MovedJobGood
<1>. QED BY <1>4, <1>5, GateTyped DEF OrderBegin

LEMMA StatusCommitTyped ==
  ASSUME TypeInv, NEW w \in Workers, StatusCommit(w)
  PROVE  TypeInv'
<1>j. /\ job[w] \in GoodJobs /\ job[w].o \in Orders /\ job[w].to \in OrderStatuses
      /\ job[w].ded \in BOOLEAN /\ job[w].res \in BOOLEAN
  BY RunningIsGood DEF TypeInv, StatusCommit, GoodJobs
<1>q. Qty[job[w].o] \in Nat
  BY <1>j, OrderStockAssumption DEF OrderStockAssumption
<1>1. StockTyped'
  <2>1. \/ ClaimLine(job[w].o, job[w].res)
        \/ GiveBack(job[w].o, job[w].ded, job[w].res)
        \/ TakeLine(job[w].o, job[w].ded)
        \/ ReturnBack(job[w].o, job[w].ded, job[w].res, Qty[job[w].o])
        \/ UNCHANGED stockVars
    BY DEF StatusCommit
  <2>. QED BY <2>1, <1>j, <1>q, ClaimLineTyped, GiveBackTyped, TakeLineTyped,
              ReturnBackTyped, StockUnchangedTyped DEF TypeInv
<1>2. OrderTyped'
  <2>1. status' \in [Orders -> OrderStatuses \cup {"None"}]
    BY <1>j DEF TypeInv, OrderTyped, StatusCommit
  <2>2. dispatch' \in [Orders -> DispatchStatuses \cup {"None"}]
    BY <1>j DEF TypeInv, OrderTyped, StatusCommit, DispatchStatuses
  <2>3. rets' \in [Orders -> Seq(ReturnRows)]
    <3>1. [type |-> "FULL", qty |-> Qty[job[w].o], good |-> Qty[job[w].o],
           st |-> "RESTOCKED", rec |-> TRUE] \in ReturnRows
      BY <1>q DEF ReturnRows
    <3>2. rets[job[w].o] \in Seq(ReturnRows)
      BY <1>j DEF TypeInv, OrderTyped
    <3>3. Append(rets[job[w].o],
                 [type |-> "FULL", qty |-> Qty[job[w].o], good |-> Qty[job[w].o],
                  st |-> "RESTOCKED", rec |-> TRUE]) \in Seq(ReturnRows)
      BY <3>1, <3>2, AppendProperties
    <3>. QED BY <3>3 DEF TypeInv, OrderTyped, StatusCommit
  <2>. QED BY <2>1, <2>2, <2>3 DEF TypeInv, OrderTyped, StatusCommit
<1>3. JobsTyped'
  BY FinishTyped DEF TypeInv, StatusCommit
<1>. QED BY <1>1, <1>2, <1>3 DEF TypeInv

LEMMA HoldTyped ==
  ASSUME TypeInv, NEW w \in Workers, HoldGate(w) \/ HoldApply(w) \/ HoldFails(w)
  PROVE  TypeInv'
<1>j. job[w] \in GoodJobs /\ job[w].o \in Orders
  BY BusyIsGood DEF TypeInv, HoldGate, HoldApply, HoldFails, InHold, GoodJobs, Jobs
<1>m. /\ [job[w] EXCEPT !.pc = "apply"] \in GoodJobs
      /\ [job[w] EXCEPT !.pc = "tx"] \in GoodJobs
  BY <1>j, MovedJobGood DEF Phases
<1>1. CASE HoldGate(w)
  <2>1. \E j \in GoodJobs \cup {NoJob} : Start(w, j)
    BY <1>1, <1>m DEF HoldGate, AfterHold, Start, Finish
  <2>. QED BY <2>1, <1>1, GateTyped DEF HoldGate
<1>2. CASE HoldApply(w)
  <2>1. StockTyped'
    <3>1. Qty[job[w].o] \in Nat
      BY <1>j, OrderStockAssumption DEF OrderStockAssumption
    <3>2. reserved' \in Nat
      BY <1>2, <3>1 DEF TypeInv, StockTyped, HoldApply
    <3>. QED BY <1>2, <3>2 DEF TypeInv, StockTyped, HoldApply
  <2>2. OrderTyped'
    BY <1>2, <1>j DEF TypeInv, OrderTyped, HoldApply, orderVars, parcelVars
  <2>3. JobsTyped'
    BY <1>2, <1>m DEF TypeInv, JobsTyped, HoldApply, AfterHold, Start, Finish
  <2>. QED BY <2>1, <2>2, <2>3 DEF TypeInv
<1>3. CASE HoldFails(w)
  <2>1. \E j \in GoodJobs \cup {NoJob} : Start(w, j)
    BY <1>3, <1>m DEF HoldFails, AfterHold, Start, Finish
  <2>. QED BY <2>1, <1>3, GateTyped DEF HoldFails
<1>. QED BY <1>1, <1>2, <1>3

LEMMA OrderRowCommitTyped ==
  ASSUME TypeInv, NEW w \in Workers,
         CustomerCancelCommit(w) \/ TrashCommit(w) \/ RestoreCommit(w)
  PROVE  TypeInv'
<1>j. /\ job[w].o \in Orders /\ job[w].ded \in BOOLEAN /\ job[w].res \in BOOLEAN
  BY RunningIsGood DEF TypeInv, CustomerCancelCommit, TrashCommit, RestoreCommit
<1>1. StockTyped'
  <2>1. \/ ClaimLine(job[w].o, job[w].res)
        \/ GiveBack(job[w].o, job[w].ded, job[w].res)
        \/ UNCHANGED stockVars
    BY DEF CustomerCancelCommit, TrashCommit, RestoreCommit
  <2>. QED BY <2>1, <1>j, ClaimLineTyped, GiveBackTyped, StockUnchangedTyped DEF TypeInv
<1>2. OrderTyped'
  <2>1. CASE CustomerCancelCommit(w)
    <3>1. status' = [status EXCEPT ![job[w].o] = "Cancelled"]
          /\ UNCHANGED <<heldRow, trashed, dispatch, left, rets>>
      BY <2>1 DEF CustomerCancelCommit, parcelVars
    <3>. QED BY <3>1, <1>j DEF TypeInv, OrderTyped, OrderStatuses
  <2>2. CASE TrashCommit(w) \/ RestoreCommit(w)
    <3>1. PICK b \in BOOLEAN :
            trashed' = [trashed EXCEPT ![job[w].o] = b]
            /\ UNCHANGED <<heldRow, status, dispatch, left, rets>>
      BY <2>2 DEF TrashCommit, RestoreCommit, parcelVars
    <3>. QED BY <3>1, <1>j DEF TypeInv, OrderTyped
  <2>. QED BY <2>1, <2>2
<1>3. JobsTyped'
  BY FinishTyped DEF TypeInv, CustomerCancelCommit, TrashCommit, RestoreCommit
<1>. QED BY <1>1, <1>2, <1>3 DEF TypeInv

LEMMA BookCourierTyped ==
  ASSUME TypeInv, NEW o \in Orders, BookCourier(o)
  PROVE  TypeInv'
<1>1. StockTyped'
  BY StockUnchangedTyped DEF TypeInv, BookCourier
<1>2. OrderTyped'
  BY DEF TypeInv, OrderTyped, BookCourier, orderVars, DispatchStatuses
<1>3. JobsTyped'
  BY DEF TypeInv, JobsTyped, BookCourier
<1>. QED BY <1>1, <1>2, <1>3 DEF TypeInv

LEMMA BoardBeginTyped ==
  ASSUME TypeInv, NEW w \in Workers, BoardBegin(w)
  PROVE  TypeInv'
<1>1. job[w] \in GoodJobs /\ job[w].o \in Orders
  BY RunningIsGood DEF TypeInv, BoardBegin
<1>2. dedF[job[w].o] \in BOOLEAN
  BY <1>1 DEF TypeInv, StockTyped
<1>3. [job[w] EXCEPT !.pc = "tx", !.ded = dedF[job[w].o]] \in GoodJobs
  BY <1>1, <1>2, MovedJobGood DEF Phases
<1>4. CASE dispatch[job[w].o] = job[w].from
  BY <1>3, <1>4, GateTyped DEF BoardBegin
<1>5. CASE dispatch[job[w].o] # job[w].from
  BY <1>5, FinishGateTyped DEF BoardBegin
<1>. QED BY <1>4, <1>5

LEMMA BoardCommitTyped ==
  ASSUME TypeInv, NEW w \in Workers, BoardCommit(w)
  PROVE  TypeInv'
<1>j. /\ job[w] \in GoodJobs /\ job[w].o \in Orders /\ job[w].to \in DispatchStatuses
      /\ job[w].ded \in BOOLEAN /\ job[w].extra \in BOOLEAN
  BY RunningIsGood DEF TypeInv, BoardCommit, GoodJobs
<1>1. StockTyped'
  <2>1. TakeLine(job[w].o, job[w].ded) \/ UNCHANGED stockVars
    BY DEF BoardCommit
  <2>. QED BY <2>1, <1>j, TakeLineTyped, StockUnchangedTyped DEF TypeInv
<1>2. OrderTyped'
  <2>1. dispatch' \in [Orders -> DispatchStatuses \cup {"None"}]
    BY <1>j DEF TypeInv, OrderTyped, BoardCommit
  <2>2. left' \in [Orders -> BOOLEAN]
    BY <1>j DEF TypeInv, OrderTyped, BoardCommit
  <2>. QED BY <2>1, <2>2 DEF TypeInv, OrderTyped, BoardCommit, orderVars
<1>3. JobsTyped'
  <2>1. CASE SyncTarget[job[w].to] = "None"
    BY <2>1, FinishTyped DEF TypeInv, BoardCommit
  <2>2. CASE SyncTarget[job[w].to] # "None"
    <3>1. SyncTarget[job[w].to] \in OrderStatuses
      BY <2>2, <1>j, SyncTargetTyped
    <3>2. NewJob("sync", job[w].o, SyncTarget[job[w].to], "None", job[w].extra) \in GoodJobs
      BY <3>1, <1>j, NewJobGood DEF Kinds
    <3>3. [NewJob("sync", job[w].o, SyncTarget[job[w].to], "None", job[w].extra)
             EXCEPT !.pc = "read"] \in GoodJobs
      BY <3>2, MovedJobGood DEF Phases
    <3>. QED BY <2>2, <3>3, StartTyped DEF TypeInv, BoardCommit
  <2>. QED BY <2>1, <2>2
<1>. QED BY <1>1, <1>2, <1>3 DEF TypeInv

LEMMA SyncGateTyped ==
  ASSUME TypeInv, NEW w \in Workers, SyncGate(w)
  PROVE  TypeInv'
<1>1. job[w] \in GoodJobs
  BY RunningIsGood DEF TypeInv, SyncGate
<1>2. [job[w] EXCEPT !.pc = "gate"] \in GoodJobs
  BY <1>1, MovedJobGood DEF Phases
<1>3. CASE SyncRefused(job[w])
  BY <1>3, FinishGateTyped DEF SyncGate
<1>4. CASE ~SyncRefused(job[w])
  BY <1>2, <1>4, GateTyped DEF SyncGate
<1>. QED BY <1>3, <1>4

LEMMA SyncCommitTyped ==
  ASSUME TypeInv, NEW w \in Workers, SyncCommit(w)
  PROVE  TypeInv'
<1>j. /\ job[w] \in GoodJobs /\ job[w].o \in Orders /\ job[w].to \in OrderStatuses
      /\ job[w].ded \in BOOLEAN /\ job[w].res \in BOOLEAN
  BY RunningIsGood DEF TypeInv, SyncCommit, GoodJobs
<1>1. StockTyped'
  <2>1. GiveBack(job[w].o, job[w].ded, job[w].res) \/ UNCHANGED stockVars
    BY DEF SyncCommit
  <2>. QED BY <2>1, <1>j, GiveBackTyped, StockUnchangedTyped DEF TypeInv
<1>2. OrderTyped'
  BY <1>j DEF TypeInv, OrderTyped, SyncCommit, parcelVars
<1>3. JobsTyped'
  <2>1. NewJob("hold", job[w].o, "None", "None", FALSE) \in GoodJobs
    BY <1>j, NewJobGood DEF Kinds
  <2>2. [NewJob("hold", job[w].o, "None", "None", FALSE) EXCEPT !.pc = "hold"] \in GoodJobs
    BY <2>1, MovedJobGood DEF Phases
  <2>. QED BY <2>2, StartTyped, FinishTyped DEF TypeInv, SyncCommit
<1>. QED BY <1>1, <1>2, <1>3 DEF TypeInv

LEMMA NewReturnCommitTyped ==
  ASSUME TypeInv, NEW w \in Workers, NewReturnCommit(w)
  PROVE  TypeInv'
<1>j. /\ job[w].o \in Orders /\ job[w].to \in {"FULL", "PARTIAL"} /\ job[w].n \in Nat
  BY RunningIsGood DEF TypeInv, NewReturnCommit, GoodJobs
<1>1. StockTyped'
  BY StockUnchangedTyped DEF TypeInv, NewReturnCommit
<1>2. OrderTyped'
  <2>1. status' \in [Orders -> OrderStatuses \cup {"None"}]
    BY <1>j DEF TypeInv, OrderTyped, NewReturnCommit, OrderStatuses
  <2>2. [type |-> job[w].to, qty |-> job[w].n, good |-> 0,
         st |-> "REQUESTED", rec |-> FALSE] \in ReturnRows
    BY <1>j DEF ReturnRows
  <2>3. rets[job[w].o] \in Seq(ReturnRows)
    BY <1>j DEF TypeInv, OrderTyped
  <2>4. Append(rets[job[w].o],
               [type |-> job[w].to, qty |-> job[w].n, good |-> 0,
                st |-> "REQUESTED", rec |-> FALSE]) \in Seq(ReturnRows)
    BY <2>2, <2>3, AppendProperties
  <2>5. rets' \in [Orders -> Seq(ReturnRows)]
    BY <2>4 DEF TypeInv, OrderTyped, NewReturnCommit
  <2>. QED BY <2>1, <2>5 DEF TypeInv, OrderTyped, NewReturnCommit, parcelVars
<1>3. JobsTyped'
  BY FinishTyped DEF TypeInv, NewReturnCommit
<1>. QED BY <1>1, <1>2, <1>3 DEF TypeInv

LEMMA ReceiveBeginTyped ==
  ASSUME TypeInv, NEW w \in Workers, ReceiveBegin(w)
  PROVE  TypeInv'
<1>1. job[w] \in GoodJobs /\ job[w].o \in Orders
  BY RunningIsGood DEF TypeInv, ReceiveBegin
<1>2. dedF[job[w].o] \in BOOLEAN /\ resF[job[w].o] \in BOOLEAN
  BY <1>1 DEF TypeInv, StockTyped
<1>3. [job[w] EXCEPT !.pc = "tx", !.ded = dedF[job[w].o], !.res = resF[job[w].o]] \in GoodJobs
  BY <1>1, <1>2, MovedJobGood DEF Phases
<1>. QED BY <1>3, GateTyped DEF ReceiveBegin

(* One Return row of one order is rewritten with a row of the right type.  *)
LEMMA RowRewrittenTyped ==
  ASSUME rets \in [Orders -> Seq(ReturnRows)], NEW o \in Orders,
         NEW i \in DOMAIN rets[o], NEW r \in ReturnRows
  PROVE  [rets EXCEPT ![o] = [rets[o] EXCEPT ![i] = r]] \in [Orders -> Seq(ReturnRows)]
<1>1. rets[o] \in Seq(ReturnRows) /\ i \in 1..Len(rets[o])
  BY LenProperties
<1>2. [rets[o] EXCEPT ![i] = r] \in Seq(ReturnRows)
  BY <1>1, ExceptSeq
<1>. QED BY <1>2

LEMMA CloseReturnTyped ==
  ASSUME TypeInv, NEW o \in Orders, NEW i \in 1..MaxReturns, CloseReturn(o, i)
  PROVE  TypeInv'
<1>1. StockTyped'
  BY StockUnchangedTyped DEF TypeInv, CloseReturn
<1>2. OrderTyped'
  <2>1. rets[o] \in Seq(ReturnRows) /\ i \in DOMAIN rets[o]
    BY DEF TypeInv, OrderTyped, CloseReturn
  <2>2. rets[o][i] \in ReturnRows
    BY <2>1
  <2>3. [rets[o][i] EXCEPT !.st = "CLOSED"] \in ReturnRows
    BY <2>2 DEF ReturnRows
  <2>4. rets' = [rets EXCEPT ![o] = [rets[o] EXCEPT ![i] = [rets[o][i] EXCEPT !.st = "CLOSED"]]]
    BY DEF CloseReturn
  <2>5. rets' \in [Orders -> Seq(ReturnRows)]
    BY <2>1, <2>3, <2>4, RowRewrittenTyped DEF TypeInv, OrderTyped
  <2>. QED BY <2>5 DEF TypeInv, OrderTyped, CloseReturn, orderVars, parcelVars
<1>3. JobsTyped'
  BY DEF TypeInv, JobsTyped, CloseReturn
<1>. QED BY <1>1, <1>2, <1>3 DEF TypeInv

LEMMA MirrorDispatchTyped ==
  ASSUME TypeInv, NEW w \in Workers, MirrorDispatch(w)
  PROVE  TypeInv'
<1>j. job[w].o \in Orders
  BY RunningIsGood DEF TypeInv, MirrorDispatch
<1>1. StockTyped'
  BY StockUnchangedTyped DEF TypeInv, MirrorDispatch
<1>2. OrderTyped'
  <2>1. dispatch' \in [Orders -> DispatchStatuses \cup {"None"}]
    BY <1>j DEF TypeInv, OrderTyped, MirrorDispatch, DispatchStatuses
  <2>. QED BY <2>1 DEF TypeInv, OrderTyped, MirrorDispatch, orderVars
<1>3. JobsTyped'
  BY FinishTyped DEF TypeInv, MirrorDispatch
<1>. QED BY <1>1, <1>2, <1>3 DEF TypeInv

LEMMA ReceiveCommitTyped ==
  ASSUME TypeInv, NEW w \in Workers, ReceiveCommit(w)
  PROVE  TypeInv'
<1> DEFINE o == job[w].o
           i == job[w].row
           r == [rets[o][i] EXCEPT !.st = "RESTOCKED", !.rec = TRUE, !.good = job[w].n]
<1>j. /\ job[w] \in GoodJobs /\ o \in Orders /\ job[w].n \in Nat
      /\ job[w].ded \in BOOLEAN /\ job[w].res \in BOOLEAN
      /\ job[w].to \in OrderStatuses \cup DispatchStatuses \cup {"FULL", "None"}
  BY RunningIsGood DEF TypeInv, ReceiveCommit, GoodJobs, Jobs
<1>1. StockTyped'
  BY <1>j, ReturnBackTyped DEF TypeInv, ReceiveCommit
<1>2. OrderTyped'
  <2>1. rets' = [rets EXCEPT ![o] = [rets[o] EXCEPT ![i] = r]]
    BY DEF ReceiveCommit
  <2>t. rets \in [Orders -> Seq(ReturnRows)] /\ rets[o] \in Seq(ReturnRows)
    BY <1>j DEF TypeInv, OrderTyped
  <2>2. CASE i \in DOMAIN rets[o]
    <3>1. rets[o][i] \in ReturnRows
      BY <2>2, <2>t
    <3>2. r \in ReturnRows
      BY <3>1, <1>j DEF ReturnRows
    <3>3. rets' \in [Orders -> Seq(ReturnRows)]
      <4> HIDE DEF o, i, r
      <4>. QED BY <2>1, <2>2, <2>t, <3>2, <1>j, RowRewrittenTyped
    <3>. QED BY <3>3 DEF TypeInv, OrderTyped, ReceiveCommit, orderVars, parcelVars
  <2>3. CASE i \notin DOMAIN rets[o]
    <3> HIDE DEF o, i, r
    <3>1. rets[o] \in [1..Len(rets[o]) -> ReturnRows] /\ DOMAIN rets[o] = 1..Len(rets[o])
      BY <2>t, LenProperties
    <3>2. [rets[o] EXCEPT ![i] = r] = rets[o]
      BY <2>3, <3>1
    <3>3. rets' \in [Orders -> Seq(ReturnRows)]
      BY <2>1, <2>t, <3>2
    <3>. QED BY <3>3 DEF TypeInv, OrderTyped, ReceiveCommit, orderVars, parcelVars
  <2>. QED BY <2>2, <2>3
<1>3. JobsTyped'
  <2>1. NewJob("mirror", o, job[w].to, "None", FALSE) \in GoodJobs
    BY <1>j, NewJobGood DEF Kinds
  <2>. QED BY <2>1, StartTyped DEF TypeInv, ReceiveCommit
<1>. QED BY <1>1, <1>2, <1>3 DEF TypeInv

-----------------------------------------------------------------------------
LEMMA InitTyped == Init => TypeInv
<1>1. InitialOnHand \in Nat
  BY OrderStockAssumption DEF OrderStockAssumption
<1>2. <<>> \in Seq(ReturnRows)
  OBVIOUS
<1>. QED BY <1>1, <1>2 DEF Init, TypeInv, StockTyped, OrderTyped, JobsTyped

LEMMA StepTyped == TypeInv /\ [Next]_vars => TypeInv'
<1>. SUFFICES ASSUME TypeInv, [Next]_vars PROVE TypeInv'
  OBVIOUS
<1>1. ASSUME NEW w \in Workers, NEW o \in Orders, StartHandler(w, o)
      PROVE  TypeInv'
  BY <1>1, StartHandlerTyped
<1>2. ASSUME NEW w \in Workers, Advance(w)
      PROVE  TypeInv'
  <2>1. CASE Abort(w)
    BY <2>1, FinishGateTyped DEF Abort
  <2>. QED BY <1>2, <2>1, CreateCommitTyped, OrderBeginTyped, StatusCommitTyped, HoldTyped,
           OrderRowCommitTyped, BoardBeginTyped, BoardCommitTyped, SyncGateTyped,
           SyncCommitTyped, NewReturnCommitTyped, ReceiveBeginTyped, ReceiveCommitTyped,
           MirrorDispatchTyped DEF Advance
<1>3. CASE UNCHANGED vars
  BY <1>3 DEF vars, stockVars, orderVars, parcelVars, TypeInv, StockTyped, OrderTyped, JobsTyped
<1>. QED BY <1>1, <1>2, <1>3, BookCourierTyped, CloseReturnTyped DEF Next

(* Every reachable state is well typed, so no interleaving, rollback or    *)
(* double request drives either stock counter of the product below zero:   *)
(* the guards of TakeLine, ReleaseClaim and ReleaseIfHeld, evaluated under *)
(* the product lock, are enough, at every Overlap.                         *)
THEOREM TypeCorrect == Spec => []TypeOK
<1>1. TypeInv => TypeOK
  BY TypeInvImpliesTypeOK
<1>. QED BY InitTyped, StepTyped, <1>1, PTL DEF Spec

-----------------------------------------------------------------------------
(***************************************************************************)
(* The ledger.  TakenOnce is not inductive: a commit step acts on the flags*)
(* its transaction read some steps before.  The invariant adds that at most*)
(* one transaction of an order is open, and that the snapshot it holds is  *)
(* still what the line says.                                               *)
(***************************************************************************)

WholeAndApart == Overlap # "full" /\ ~SplitReturns

TxPhases == {"hold", "apply", "tx"}
JobInTx(j) == j # NoJob /\ j.pc \in TxPhases

(* The ledger of a line says what its flag says.                           *)
LedgerExact == \A o \in Orders : taken[o] = IF dedF[o] THEN Qty[o] ELSE 0

(* At most one open transaction per order.                                 *)
OneTxPerOrder ==
  \A v, w \in Workers :
    v # w /\ JobInTx(job[v]) /\ JobInTx(job[w]) => job[v].o # job[w].o

(* What an open transaction read of its line is still true.                *)
FreshSnapshot ==
  \A w \in Workers :
    JobInTx(job[w]) /\ job[w].kind # "hold" => job[w].ded = dedF[job[w].o]

WholeRows == \A o \in Orders : \A i \in DOMAIN rets[o] : rets[o][i].qty = Qty[o]

WholeJob(j) ==
  j # NoJob /\ j.kind \in {"newReturn", "receive"} => j.n = Qty[j.o]

LedgerInv ==
  /\ LedgerExact
  /\ OneTxPerOrder
  /\ FreshSnapshot
  /\ WholeRows
  /\ \A w \in Workers : WholeJob(job[w])

LEMMA LedgerInvImpliesTakenOnce == LedgerInv => TakenOnce
<1>1. \A o \in Orders : Qty[o] \in Nat
  BY OrderStockAssumption DEF OrderStockAssumption
<1>. QED BY <1>1 DEF LedgerInv, LedgerExact, TakenOnce

-----------------------------------------------------------------------------
(* What a step of one worker must show.                                    *)

LEMMA WorkerStep ==
  ASSUME JobsTyped, LedgerInv, NEW w \in Workers, NEW j, Start(w, j),
         LedgerExact', WholeRows', WholeJob(j),
         \A v \in Workers \ {w} : JobInTx(job[v]) => dedF'[job[v].o] = dedF[job[v].o],
         JobInTx(j) => \A v \in Workers \ {w} : JobInTx(job[v]) => job[v].o # j.o,
         JobInTx(j) /\ j.kind # "hold" => j.ded = dedF'[j.o]
  PROVE  LedgerInv'
<1>1. /\ job'[w] = j
      /\ \A v \in Workers \ {w} : job'[v] = job[v]
  BY DEF Start, JobsTyped
<1>2. OneTxPerOrder'
  <2>. SUFFICES ASSUME NEW v \in Workers, NEW u \in Workers, v # u,
                       JobInTx(job'[v]), JobInTx(job'[u])
                PROVE  job'[v].o # job'[u].o
    BY DEF OneTxPerOrder, JobInTx
  <2>1. CASE v = w
    BY <2>1, <1>1
  <2>2. CASE u = w
    BY <2>2, <1>1
  <2>3. CASE v # w /\ u # w
    BY <2>3, <1>1 DEF LedgerInv, OneTxPerOrder
  <2>. QED BY <2>1, <2>2, <2>3
<1>3. FreshSnapshot'
  <2>. SUFFICES ASSUME NEW v \in Workers, JobInTx(job'[v]), job'[v].kind # "hold"
                PROVE  job'[v].ded = dedF'[job'[v].o]
    BY DEF FreshSnapshot, JobInTx
  <2>1. CASE v = w
    BY <2>1, <1>1
  <2>2. CASE v # w
    BY <2>2, <1>1 DEF LedgerInv, FreshSnapshot
  <2>. QED BY <2>1, <2>2
<1>4. (\A v \in Workers : WholeJob(job[v]))'
  <2>. SUFFICES ASSUME NEW v \in Workers PROVE WholeJob(job'[v])
    BY DEF WholeJob
  <2>. QED BY <1>1 DEF LedgerInv
<1>. QED BY <1>2, <1>3, <1>4 DEF LedgerInv

(* A step that writes neither the line, nor its ledger, nor a Return row.  *)
LEMMA ReadingStep ==
  ASSUME JobsTyped, LedgerInv, NEW w \in Workers, NEW j, Start(w, j), WholeJob(j),
         UNCHANGED <<dedF, taken, rets>>,
         JobInTx(j) => \A v \in Workers \ {w} : JobInTx(job[v]) => job[v].o # j.o,
         JobInTx(j) /\ j.kind # "hold" => j.ded = dedF[j.o]
  PROVE  LedgerInv'
<1>1. LedgerExact' /\ WholeRows'
  BY DEF LedgerInv, LedgerExact, WholeRows
<1>. QED BY <1>1, WorkerStep

(* A step of a worker that stays out of any transaction.                   *)
LEMMA GateStep ==
  ASSUME JobsTyped, LedgerInv, NEW w \in Workers, NEW j, Start(w, j), WholeJob(j),
         ~JobInTx(j), UNCHANGED <<dedF, taken, rets>>
  PROVE  LedgerInv'
BY ReadingStep

LEMMA NoJobQuiet == ~JobInTx(NoJob) /\ WholeJob(NoJob)
BY DEF JobInTx, WholeJob

LEMMA EntersAlone ==
  ASSUME WholeAndApart, JobsTyped, NEW w \in Workers, MayEnter(w)
  PROVE  \A v \in Workers \ {w} : JobInTx(job[v]) => job[v].o # job[w].o
BY DEF WholeAndApart, MayEnter, JobInTx, InTx, TxPhases

LEMMA AloneInTx ==
  ASSUME LedgerInv, NEW w \in Workers, JobInTx(job[w])
  PROVE  \A v \in Workers \ {w} : JobInTx(job[v]) => job[v].o # job[w].o
BY DEF LedgerInv, OneTxPerOrder

-----------------------------------------------------------------------------
(* What the stock services do to flag and ledger, given a fresh snapshot.  *)

LineMoved(o) ==
  /\ LedgerExact'
  /\ \A p \in Orders \ {o} : dedF'[p] = dedF[p]

LEMMA LineUnchanged ==
  ASSUME LedgerInv, NEW o \in Orders, UNCHANGED <<dedF, taken>>
  PROVE  LineMoved(o)
BY DEF LedgerInv, LedgerExact, LineMoved

LEMMA TakeLineMoves ==
  ASSUME StockTyped, LedgerInv, NEW o \in Orders, TakeLine(o, dedF[o])
  PROVE  LineMoved(o)
<1>q. Qty[o] \in Nat
  BY OrderStockAssumption DEF OrderStockAssumption
<1>1. CASE dedF[o]
  BY <1>1, LineUnchanged DEF TakeLine, stockVars
<1>2. CASE ~dedF[o]
  <2>1. /\ dedF' = [dedF EXCEPT ![o] = TRUE]
        /\ taken' = [taken EXCEPT ![o] = @ + Qty[o]]
    BY <1>2 DEF TakeLine
  <2>2. taken[o] = 0
    BY <1>2 DEF LedgerInv, LedgerExact
  <2>. QED BY <2>1, <2>2, <1>q DEF LineMoved, LedgerInv, LedgerExact, StockTyped
<1>. QED BY <1>1, <1>2

LEMMA GiveBackMoves ==
  ASSUME StockTyped, LedgerInv, NEW o \in Orders, NEW res \in BOOLEAN,
         GiveBack(o, dedF[o], res)
  PROVE  LineMoved(o)
<1>q. Qty[o] \in Nat
  BY OrderStockAssumption DEF OrderStockAssumption
<1>1. CASE dedF[o]
  <2>1. /\ dedF' = [dedF EXCEPT ![o] = FALSE]
        /\ taken' = [taken EXCEPT ![o] = @ - Qty[o]]
    BY <1>1 DEF GiveBack
  <2>2. taken[o] = Qty[o]
    BY <1>1 DEF LedgerInv, LedgerExact
  <2>. QED BY <2>1, <2>2, <1>q DEF LineMoved, LedgerInv, LedgerExact, StockTyped
<1>2. CASE ~dedF[o]
  <2>1. UNCHANGED <<dedF, taken>>
    BY <1>2 DEF GiveBack, stockVars
  <2>. QED BY <2>1, LineUnchanged
<1>. QED BY <1>1, <1>2

LEMMA ReturnBackMoves ==
  ASSUME StockTyped, LedgerInv, NEW o \in Orders, NEW res \in BOOLEAN,
         ReturnBack(o, dedF[o], res, Qty[o])
  PROVE  LineMoved(o)
<1>q. Qty[o] \in Nat /\ Qty[o] > 0
  BY OrderStockAssumption DEF OrderStockAssumption
<1>d. dedF' = [dedF EXCEPT ![o] = FALSE]
  BY DEF ReturnBack
<1>1. CASE dedF[o]
  <2>1. taken' = [taken EXCEPT ![o] = @ - Qty[o]]
    BY <1>1, <1>q DEF ReturnBack
  <2>2. taken[o] = Qty[o]
    BY <1>1 DEF LedgerInv, LedgerExact
  <2>. QED BY <2>1, <2>2, <1>d, <1>q DEF LineMoved, LedgerInv, LedgerExact, StockTyped
<1>2. CASE ~dedF[o]
  <2>1. taken' = taken
    BY <1>2 DEF ReturnBack
  <2>2. taken[o] = 0
    BY <1>2 DEF LedgerInv, LedgerExact
  <2>. QED BY <2>1, <2>2, <1>d DEF LineMoved, LedgerInv, LedgerExact, StockTyped
<1>. QED BY <1>1, <1>2

(* A commit: the line of the worker's order moves, nobody else's does, and *)
(* the worker leaves the order or goes on to a hold of the same order.     *)
LEMMA CommitStep ==
  ASSUME TypeInv, LedgerInv, NEW w \in Workers, job[w] # NoJob, JobInTx(job[w]),
         LineMoved(job[w].o), WholeRows', NEW j, Start(w, j), WholeJob(j),
         JobInTx(j) => j.kind = "hold" /\ j.o = job[w].o
  PROVE  LedgerInv'
<1>1. \A v \in Workers \ {w} : JobInTx(job[v]) => job[v].o # job[w].o
  BY AloneInTx
<1>2. \A v \in Workers \ {w} : JobInTx(job[v]) => dedF'[job[v].o] = dedF[job[v].o]
  <2>. SUFFICES ASSUME NEW v \in Workers \ {w}, JobInTx(job[v])
                PROVE  dedF'[job[v].o] = dedF[job[v].o]
    OBVIOUS
  <2>1. job[v].o \in Orders
    BY BusyIsGood DEF TypeInv, JobInTx, GoodJobs, Jobs
  <2>. QED BY <2>1, <1>1 DEF LineMoved
<1>. QED BY <1>1, <1>2, WorkerStep DEF TypeInv, LineMoved

-----------------------------------------------------------------------------
LEMMA NewJobIsOutside ==
  ASSUME NEW kind \in Kinds, NEW o, NEW to, NEW from, NEW extra
  PROVE  /\ ~JobInTx(NewJob(kind, o, to, from, extra))
         /\ kind \notin {"newReturn", "receive"} => WholeJob(NewJob(kind, o, to, from, extra))
BY DEF NewJob, JobInTx, TxPhases, WholeJob

LEMMA StartHandlerKeeps ==
  ASSUME WholeAndApart, TypeInv, LedgerInv, NEW w \in Workers, NEW o \in Orders,
         StartHandler(w, o)
  PROVE  LedgerInv'
<1>u. UNCHANGED <<dedF, taken, rets>>
  BY DEF StartHandler, CreateGate, StatusGate, CustomerCancelGate, TrashGate, RestoreGate,
         BoardGate, NewReturnGate, ReceiveGate, stockVars
<1>1. CASE \E kind \in Kinds \ {"newReturn", "receive"} : \E to, from, extra :
             Start(w, NewJob(kind, o, to, from, extra))
  <2>1. PICK j : Start(w, j) /\ ~JobInTx(j) /\ WholeJob(j)
    BY <1>1, NewJobIsOutside
  <2>. QED BY <2>1, <1>u, GateStep DEF TypeInv
<1>2. CASE CreateGate(w, o)
  <2>1. Start(w, NewJob("create", o, "Pending", "None", FALSE)) /\ "create" \in Kinds
    BY <1>2 DEF CreateGate, Kinds
  <2>. QED BY <2>1, <1>1
<1>3. ASSUME NEW to \in StatusTargets[o], NEW automated \in BOOLEAN,
             StatusGate(w, o, to, automated)
      PROVE  LedgerInv'
  <2>1. PICK e : Start(w, NewJob("status", o, to, "None", e))
    BY <1>3 DEF StatusGate
  <2>2. "status" \in Kinds
    BY DEF Kinds
  <2>. QED BY <2>1, <2>2, <1>1
<1>4. CASE CustomerCancelGate(w, o)
  <2>1. Start(w, NewJob("customer", o, "Cancelled", "None", FALSE)) /\ "customer" \in Kinds
    BY <1>4 DEF CustomerCancelGate, Kinds
  <2>. QED BY <2>1, <1>1
<1>5. CASE TrashGate(w, o)
  <2>1. /\ Start(w, NewJob("trash", o, "None", "None", status[o] \notin GoodsAlreadyLeft))
        /\ "trash" \in Kinds
    BY <1>5 DEF TrashGate, Kinds
  <2>. QED BY <2>1, <1>1
<1>6. CASE RestoreGate(w, o)
  <2>1. /\ Start(w, NewJob("restore", o, "None", "None",
                           status[o] \notin GoodsAlreadyLeft \cup {"Cancelled"}))
        /\ "restore" \in Kinds
    BY <1>6 DEF RestoreGate, Kinds
  <2>. QED BY <2>1, <1>1
<1>7. ASSUME NEW to \in BoardTargets, NEW automated \in BOOLEAN,
             BoardGate(w, o, to, automated)
      PROVE  LedgerInv'
  <2>1. Start(w, NewJob("board", o, to, dispatch[o], automated)) /\ "board" \in Kinds
    BY <1>7 DEF BoardGate, Kinds
  <2>. QED BY <2>1, <1>1
<1>8. ASSUME NEW type \in {"FULL", "PARTIAL"}, NEW n \in 1..Qty[o],
             NEW mark \in BOOLEAN, NewReturnGate(w, o, type, n, mark)
      PROVE  LedgerInv'
  <2> DEFINE j == [NewJob("newReturn", o, type, "None", mark) EXCEPT !.n = n]
  <2>1. n = Qty[o]
    <3>1. Qty[o] \in Nat
      BY OrderStockAssumption DEF OrderStockAssumption
    <3>2. ~(n < Qty[o])
      BY <1>8 DEF NewReturnGate, WholeAndApart
    <3>. QED BY <3>1, <3>2
  <2>2. ~JobInTx(j) /\ WholeJob(j)
    BY <2>1 DEF JobInTx, TxPhases, WholeJob, NewJob
  <2>3. Start(w, j)
    BY <1>8 DEF NewReturnGate
  <2>. QED BY <2>2, <2>3, <1>u, GateStep DEF TypeInv
<1>9. ASSUME NEW i \in 1..MaxReturns, NEW n \in 0..Qty[o], ReceiveGate(w, o, i, n)
      PROVE  LedgerInv'
  <2> DEFINE j == [NewJob("receive", o, rets[o][i].type, "None", FALSE)
                     EXCEPT !.row = i, !.n = n]
  <2>1. CASE rets[o][i].rec
    <3>1. /\ Start(w, NewJob("mirror", o, rets[o][i].type, "None", FALSE))
          /\ "mirror" \in Kinds
      BY <1>9, <2>1 DEF ReceiveGate, Kinds
    <3>. QED BY <3>1, <1>1
  <2>2. CASE ~rets[o][i].rec
    <3>1. rets[o][i].qty = Qty[o]
      BY <1>9 DEF ReceiveGate, LedgerInv, WholeRows
    <3>2. ~(n < Qty[o])
      BY <1>9, <3>1 DEF ReceiveGate, WholeAndApart
    <3>3. n = Qty[o]
      BY <3>2, OrderStockAssumption DEF OrderStockAssumption
    <3>4. ~JobInTx(j) /\ WholeJob(j)
      BY <3>3 DEF JobInTx, TxPhases, WholeJob, NewJob
    <3>5. Start(w, j)
      BY <1>9, <2>2 DEF ReceiveGate
    <3>. QED BY <3>4, <3>5, <1>u, GateStep DEF TypeInv
  <2>. QED BY <2>1, <2>2
<1>. QED BY <1>2, <1>3, <1>4, <1>5, <1>6, <1>7, <1>8, <1>9 DEF StartHandler

-----------------------------------------------------------------------------
LEMMA FinishKeeps ==
  ASSUME TypeInv, LedgerInv, NEW w \in Workers, Finish(w), UNCHANGED <<dedF, taken, rets>>
  PROVE  LedgerInv'
<1>1. Start(w, NoJob)
  BY DEF Start, Finish
<1>. QED BY <1>1, NoJobQuiet, GateStep DEF TypeInv

LEMMA CreateCommitKeeps ==
  ASSUME TypeInv, LedgerInv, NEW w \in Workers, CreateCommit(w)
  PROVE  LedgerInv'
<1>1. UNCHANGED <<dedF, taken, rets>>
  BY DEF CreateCommit, ClaimLine
<1>. QED BY <1>1, FinishKeeps DEF CreateCommit

(* The begin steps: the worker is alone on its order and reads the line.   *)
LEMMA BeginKeeps ==
  ASSUME WholeAndApart, TypeInv, LedgerInv, NEW w \in Workers,
         OrderBegin(w) \/ BoardBegin(w) \/ ReceiveBegin(w)
  PROVE  LedgerInv'
<1>u. UNCHANGED <<dedF, taken, rets>>
  BY DEF OrderBegin, BoardBegin, ReceiveBegin, stockVars
<1>e. \A v \in Workers \ {w} : JobInTx(job[v]) => job[v].o # job[w].o
  BY EntersAlone DEF TypeInv, OrderBegin, BoardBegin, ReceiveBegin
<1>j. job[w] # NoJob /\ job[w] \in GoodJobs /\ WholeJob(job[w])
  BY BusyIsGood DEF TypeInv, LedgerInv, OrderBegin, BoardBegin, ReceiveBegin, Running
<1>1. CASE BoardBegin(w) /\ Finish(w)
  BY <1>1, <1>u, FinishKeeps
<1>2. CASE ~(BoardBegin(w) /\ Finish(w))
  <2>g. job[w] \in Jobs
    BY <1>j DEF GoodJobs
  <2>1. PICK j : /\ Start(w, j)
                 /\ j.o = job[w].o /\ j.kind = job[w].kind /\ j.n = job[w].n
                 /\ j.ded = dedF[job[w].o]
    <3>1. CASE OrderBegin(w)
      <4> DEFINE p == IF HoldsStock(job[w]) THEN "hold" ELSE "tx"
                 e == IF MarksReturned(job[w]) THEN CreatesReturn(job[w].o)
                                               ELSE job[w].extra
                 j == [job[w] EXCEPT !.pc = p, !.ded = dedF[job[w].o],
                                     !.res = resF[job[w].o], !.extra = e]
      <4>1. Start(w, j)
        BY <3>1 DEF OrderBegin
      <4>2. /\ j.o = job[w].o /\ j.kind = job[w].kind /\ j.n = job[w].n
            /\ j.ded = dedF[job[w].o]
        <5> HIDE DEF p, e
        <5>. QED BY <2>g DEF Jobs
      <4> HIDE DEF j
      <4>. QED BY <4>1, <4>2
    <3>2. CASE BoardBegin(w)
      <4> DEFINE j == [job[w] EXCEPT !.pc = "tx", !.ded = dedF[job[w].o]]
      <4>1. Start(w, j)
        BY <1>2, <3>2 DEF BoardBegin
      <4>2. /\ j.o = job[w].o /\ j.kind = job[w].kind /\ j.n = job[w].n
            /\ j.ded = dedF[job[w].o]
        BY <2>g DEF Jobs
      <4> HIDE DEF j
      <4>. QED BY <4>1, <4>2
    <3>3. CASE ReceiveBegin(w)
      <4> DEFINE j == [job[w] EXCEPT !.pc = "tx", !.ded = dedF[job[w].o],
                                     !.res = resF[job[w].o]]
      <4>1. Start(w, j)
        BY <3>3 DEF ReceiveBegin
      <4>2. /\ j.o = job[w].o /\ j.kind = job[w].kind /\ j.n = job[w].n
            /\ j.ded = dedF[job[w].o]
        BY <2>g DEF Jobs
      <4> HIDE DEF j
      <4>. QED BY <4>1, <4>2
    <3>. QED BY <3>1, <3>2, <3>3
  <2>3. WholeJob(j)
    BY <2>1, <1>j DEF WholeJob
  <2>. QED BY <2>1, <2>3, <1>u, <1>e, ReadingStep DEF TypeInv
<1>. QED BY <1>1, <1>2

(* The hold of a pending return moves counters, never the line.            *)
LEMMA HoldKeeps ==
  ASSUME TypeInv, LedgerInv, NEW w \in Workers, HoldGate(w) \/ HoldApply(w) \/ HoldFails(w)
  PROVE  LedgerInv'
<1>u. UNCHANGED <<dedF, taken, rets>>
  BY DEF HoldGate, HoldApply, HoldFails, stockVars
<1>j. /\ job[w] # NoJob /\ job[w] \in GoodJobs /\ WholeJob(job[w]) /\ JobInTx(job[w])
  BY BusyIsGood DEF TypeInv, LedgerInv, HoldGate, HoldApply, HoldFails, InHold, JobInTx, TxPhases
<1>a. \A v \in Workers \ {w} : JobInTx(job[v]) => job[v].o # job[w].o
  BY <1>j, AloneInTx
<1>1. CASE Finish(w)
  BY <1>1, <1>u, FinishKeeps
<1>2. CASE ~Finish(w)
  <2>1. PICK pc : Start(w, [job[w] EXCEPT !.pc = pc])
    BY <1>2 DEF HoldGate, HoldApply, HoldFails, AfterHold
  <2> DEFINE j == [job[w] EXCEPT !.pc = pc]
  <2>2. /\ j.o = job[w].o /\ j.kind = job[w].kind /\ j.n = job[w].n
        /\ j.ded = job[w].ded
    BY <1>j DEF GoodJobs, Jobs
  <2>3. WholeJob(j)
    BY <2>2, <1>j DEF WholeJob
  <2>4. j.kind # "hold" => j.ded = dedF[j.o]
    BY <2>2, <1>j DEF LedgerInv, FreshSnapshot
  <2>5. Start(w, j)
    BY <2>1
  <2> HIDE DEF j
  <2>. QED BY <2>2, <2>3, <2>4, <2>5, <1>u, <1>a, ReadingStep DEF TypeInv
<1>. QED BY <1>1, <1>2

-----------------------------------------------------------------------------
(* The commits.                                                            *)

LEMMA CommitJob ==
  ASSUME TypeInv, LedgerInv, NEW w \in Workers, NEW kind, Running(w, kind, "tx"),
         kind # "hold"
  PROVE  /\ job[w] # NoJob /\ JobInTx(job[w])
         /\ job[w].o \in Orders /\ job[w].res \in BOOLEAN
         /\ job[w].ded = dedF[job[w].o]
         /\ job[w].kind = "receive" => job[w].n = Qty[job[w].o]
<1>1. job[w] # NoJob /\ JobInTx(job[w]) /\ job[w].kind = kind
  BY DEF Running, JobInTx, TxPhases
<1>2. job[w].o \in Orders /\ job[w].res \in BOOLEAN
  BY RunningIsGood DEF TypeInv
<1>3. job[w].ded = dedF[job[w].o]
  BY <1>1 DEF LedgerInv, FreshSnapshot
<1>4. job[w].kind = "receive" => job[w].n = Qty[job[w].o]
  BY <1>1 DEF LedgerInv, WholeJob
<1>. QED BY <1>1, <1>2, <1>3, <1>4

LEMMA RowsUnchanged ==
  ASSUME LedgerInv, rets' = rets
  PROVE  WholeRows'
BY DEF LedgerInv, WholeRows

(* A whole-line row appended to an order's returns.                        *)
LEMMA RowAppended ==
  ASSUME OrderTyped, LedgerInv, NEW o \in Orders, NEW r \in ReturnRows, r.qty = Qty[o],
         rets' = [rets EXCEPT ![o] = Append(@, r)]
  PROVE  WholeRows'
<1>. SUFFICES ASSUME NEW p \in Orders, NEW i \in DOMAIN rets'[p]
              PROVE  rets'[p][i].qty = Qty[p]
  BY DEF WholeRows
<1>1. CASE p # o
  BY <1>1 DEF LedgerInv, WholeRows, OrderTyped
<1>2. CASE p = o
  <2>1. rets[o] \in Seq(ReturnRows) /\ rets'[o] = Append(rets[o], r)
    BY DEF OrderTyped
  <2>2. /\ Append(rets[o], r) \in Seq(ReturnRows)
        /\ Len(Append(rets[o], r)) = Len(rets[o]) + 1
        /\ \A k \in 1..Len(rets[o]) : Append(rets[o], r)[k] = rets[o][k]
        /\ Append(rets[o], r)[Len(rets[o]) + 1] = r
    BY <2>1, AppendProperties
  <2>3. i \in 1..(Len(rets[o]) + 1) /\ Len(rets[o]) \in Nat
    BY <1>2, <2>1, <2>2, LenProperties
  <2>4. \A k \in 1..Len(rets[o]) : rets[o][k].qty = Qty[o]
    BY <2>1, LenProperties DEF LedgerInv, WholeRows
  <2>5. CASE i = Len(rets[o]) + 1
    BY <2>5, <1>2, <2>1, <2>2
  <2>6. CASE i # Len(rets[o]) + 1
    <3>1. i \in 1..Len(rets[o])
      BY <2>6, <2>3
    <3>. QED BY <3>1, <1>2, <2>1, <2>2, <2>4
  <2>. QED BY <2>5, <2>6
<1>. QED BY <1>1, <1>2

LEMMA StatusCommitKeeps ==
  ASSUME TypeInv, LedgerInv, NEW w \in Workers, StatusCommit(w)
  PROVE  LedgerInv'
<1>j. /\ job[w] # NoJob /\ JobInTx(job[w]) /\ job[w].o \in Orders
      /\ job[w].res \in BOOLEAN /\ job[w].ded = dedF[job[w].o]
  BY CommitJob DEF StatusCommit
<1>1. LineMoved(job[w].o)
  <2>1. \/ ClaimLine(job[w].o, job[w].res)
        \/ GiveBack(job[w].o, dedF[job[w].o], job[w].res)
        \/ TakeLine(job[w].o, dedF[job[w].o])
        \/ ReturnBack(job[w].o, dedF[job[w].o], job[w].res, Qty[job[w].o])
        \/ UNCHANGED stockVars
    BY <1>j DEF StatusCommit
  <2>2. CASE ClaimLine(job[w].o, job[w].res) \/ UNCHANGED stockVars
    BY <2>2, <1>j, LineUnchanged DEF ClaimLine, stockVars
  <2>. QED BY <2>1, <2>2, <1>j, GiveBackMoves, TakeLineMoves, ReturnBackMoves DEF TypeInv
<1>2. WholeRows'
  <2>1. CASE UNCHANGED rets
    BY <2>1, RowsUnchanged
  <2>2. CASE ~UNCHANGED rets
    <3> DEFINE r == [type |-> "FULL", qty |-> Qty[job[w].o], good |-> Qty[job[w].o],
                     st |-> "RESTOCKED", rec |-> TRUE]
    <3>1. rets' = [rets EXCEPT ![job[w].o] = Append(@, r)]
      BY <2>2 DEF StatusCommit
    <3>2. r \in ReturnRows /\ r.qty = Qty[job[w].o]
      BY <1>j, OrderStockAssumption DEF OrderStockAssumption, ReturnRows
    <3> HIDE DEF r
    <3>. QED BY <3>1, <3>2, <1>j, RowAppended DEF TypeInv
  <2>. QED BY <2>1, <2>2
<1>3. Start(w, NoJob)
  BY DEF StatusCommit, Finish, Start
<1>. QED BY <1>j, <1>1, <1>2, <1>3, NoJobQuiet, CommitStep

LEMMA OrderRowCommitKeeps ==
  ASSUME TypeInv, LedgerInv, NEW w \in Workers,
         CustomerCancelCommit(w) \/ TrashCommit(w) \/ RestoreCommit(w)
  PROVE  LedgerInv'
<1>j. /\ job[w] # NoJob /\ JobInTx(job[w]) /\ job[w].o \in Orders
      /\ job[w].res \in BOOLEAN /\ job[w].ded = dedF[job[w].o]
  BY CommitJob DEF CustomerCancelCommit, TrashCommit, RestoreCommit
<1>1. LineMoved(job[w].o)
  <2>1. \/ ClaimLine(job[w].o, job[w].res)
        \/ GiveBack(job[w].o, dedF[job[w].o], job[w].res)
        \/ UNCHANGED stockVars
    BY <1>j DEF CustomerCancelCommit, TrashCommit, RestoreCommit
  <2>2. CASE ClaimLine(job[w].o, job[w].res) \/ UNCHANGED stockVars
    BY <2>2, <1>j, LineUnchanged DEF ClaimLine, stockVars
  <2>. QED BY <2>1, <2>2, <1>j, GiveBackMoves DEF TypeInv
<1>2. WholeRows' /\ Start(w, NoJob)
  BY RowsUnchanged DEF CustomerCancelCommit, TrashCommit, RestoreCommit, Finish, Start
<1>. QED BY <1>j, <1>1, <1>2, NoJobQuiet, CommitStep

LEMMA BoardCommitKeeps ==
  ASSUME TypeInv, LedgerInv, NEW w \in Workers, BoardCommit(w)
  PROVE  LedgerInv'
<1>j. /\ job[w] # NoJob /\ JobInTx(job[w]) /\ job[w].o \in Orders
      /\ job[w].ded = dedF[job[w].o]
  BY CommitJob DEF BoardCommit
<1>1. LineMoved(job[w].o)
  <2>1. TakeLine(job[w].o, dedF[job[w].o]) \/ UNCHANGED stockVars
    BY <1>j DEF BoardCommit
  <2>2. CASE UNCHANGED stockVars
    BY <2>2, <1>j, LineUnchanged DEF stockVars
  <2>. QED BY <2>1, <2>2, <1>j, TakeLineMoves DEF TypeInv
<1>2. WholeRows'
  BY RowsUnchanged DEF BoardCommit
<1>3. PICK j : Start(w, j) /\ ~JobInTx(j) /\ WholeJob(j)
  <2>1. CASE Finish(w)
    BY <2>1, NoJobQuiet DEF Finish, Start
  <2>2. CASE ~Finish(w)
    <3>1. Start(w, [NewJob("sync", job[w].o, SyncTarget[job[w].to], "None", job[w].extra)
                      EXCEPT !.pc = "read"])
      BY <2>2 DEF BoardCommit
    <3>. QED BY <3>1 DEF NewJob, JobInTx, TxPhases, WholeJob
  <2>. QED BY <2>1, <2>2
<1>. QED BY <1>j, <1>1, <1>2, <1>3, CommitStep

LEMMA SyncGateKeeps ==
  ASSUME TypeInv, LedgerInv, NEW w \in Workers, SyncGate(w)
  PROVE  LedgerInv'
<1>u. UNCHANGED <<dedF, taken, rets>>
  BY DEF SyncGate, stockVars
<1>1. job[w] \in GoodJobs /\ job[w].kind = "sync"
  BY RunningIsGood DEF TypeInv, SyncGate
<1>2. CASE Finish(w)
  BY <1>2, <1>u, FinishKeeps
<1>3. CASE ~Finish(w)
  <2>1. Start(w, [job[w] EXCEPT !.pc = "gate"])
    BY <1>3 DEF SyncGate
  <2>2. ~JobInTx([job[w] EXCEPT !.pc = "gate"]) /\ WholeJob([job[w] EXCEPT !.pc = "gate"])
    BY <1>1 DEF GoodJobs, Jobs, JobInTx, TxPhases, WholeJob
  <2>. QED BY <2>1, <2>2, <1>u, GateStep DEF TypeInv
<1>. QED BY <1>2, <1>3

LEMMA SyncCommitKeeps ==
  ASSUME TypeInv, LedgerInv, NEW w \in Workers, SyncCommit(w)
  PROVE  LedgerInv'
<1>j. /\ job[w] # NoJob /\ JobInTx(job[w]) /\ job[w].o \in Orders
      /\ job[w].res \in BOOLEAN /\ job[w].ded = dedF[job[w].o]
  BY CommitJob DEF SyncCommit
<1>1. LineMoved(job[w].o)
  <2>1. GiveBack(job[w].o, dedF[job[w].o], job[w].res) \/ UNCHANGED stockVars
    BY <1>j DEF SyncCommit
  <2>2. CASE UNCHANGED stockVars
    BY <2>2, <1>j, LineUnchanged DEF stockVars
  <2>. QED BY <2>1, <2>2, <1>j, GiveBackMoves DEF TypeInv
<1>2. WholeRows'
  BY RowsUnchanged DEF SyncCommit
<1>3. PICK j : /\ Start(w, j) /\ WholeJob(j)
               /\ JobInTx(j) => j.kind = "hold" /\ j.o = job[w].o
  <2>1. CASE Finish(w)
    BY <2>1, NoJobQuiet DEF Finish, Start
  <2>2. CASE ~Finish(w)
    <3>1. Start(w, [NewJob("hold", job[w].o, "None", "None", FALSE) EXCEPT !.pc = "hold"])
      BY <2>2 DEF SyncCommit
    <3>. QED BY <3>1 DEF NewJob, WholeJob
  <2>. QED BY <2>1, <2>2
<1>. QED BY <1>j, <1>1, <1>2, <1>3, CommitStep

LEMMA NewReturnCommitKeeps ==
  ASSUME TypeInv, LedgerInv, NEW w \in Workers, NewReturnCommit(w)
  PROVE  LedgerInv'
<1>j. /\ job[w] # NoJob /\ job[w].o \in Orders /\ job[w].n = Qty[job[w].o]
      /\ job[w].to \in {"FULL", "PARTIAL"} /\ job[w].n \in Nat
  <2>1. /\ job[w].kind = "newReturn" /\ job[w] \in GoodJobs /\ job[w].o \in Orders
        /\ job[w].n \in Nat
    BY RunningIsGood DEF TypeInv, NewReturnCommit
  <2>2. job[w] # NoJob
    BY DEF NewReturnCommit, Running
  <2>. QED BY <2>1, <2>2 DEF LedgerInv, WholeJob, GoodJobs
<1>u. UNCHANGED <<dedF, taken>>
  BY DEF NewReturnCommit, stockVars
<1>1. LedgerExact'
  BY <1>u DEF LedgerInv, LedgerExact
<1>2. WholeRows'
  <2> DEFINE r == [type |-> job[w].to, qty |-> job[w].n, good |-> 0,
                   st |-> "REQUESTED", rec |-> FALSE]
  <2>1. rets' = [rets EXCEPT ![job[w].o] = Append(@, r)]
    BY DEF NewReturnCommit
  <2>2. r \in ReturnRows /\ r.qty = Qty[job[w].o]
    BY <1>j DEF ReturnRows
  <2> HIDE DEF r
  <2>. QED BY <2>1, <2>2, <1>j, RowAppended DEF TypeInv
<1>3. Start(w, NoJob)
  BY DEF NewReturnCommit, Finish, Start
<1>. QED BY <1>u, <1>1, <1>2, <1>3, NoJobQuiet, WorkerStep DEF TypeInv

(* Rewriting a Return row never changes how much it covers.                *)
LEMMA RowRewritten ==
  ASSUME OrderTyped, LedgerInv, NEW o \in Orders, NEW i, NEW r,
         r.qty = rets[o][i].qty, rets' = [rets EXCEPT ![o] = [rets[o] EXCEPT ![i] = r]]
  PROVE  WholeRows'
<1>. SUFFICES ASSUME NEW p \in Orders, NEW k \in DOMAIN rets'[p]
              PROVE  rets'[p][k].qty = Qty[p]
  BY DEF WholeRows
<1>1. CASE p # o
  BY <1>1 DEF LedgerInv, WholeRows, OrderTyped
<1>2. CASE p = o
  <2>1. rets'[o] = [rets[o] EXCEPT ![i] = r]
    BY DEF OrderTyped
  <2>2. k \in DOMAIN rets[o] /\ rets[o][k].qty = Qty[o]
    BY <2>1, <1>2 DEF LedgerInv, WholeRows
  <2>3. rets'[o][k] = IF k = i THEN r ELSE rets[o][k]
    BY <2>1, <2>2
  <2>. QED BY <2>2, <2>3, <1>2
<1>. QED BY <1>1, <1>2

LEMMA ReceiveCommitKeeps ==
  ASSUME TypeInv, LedgerInv, NEW w \in Workers, ReceiveCommit(w)
  PROVE  LedgerInv'
<1> DEFINE o == job[w].o
           i == job[w].row
           r == [rets[o][i] EXCEPT !.st = "RESTOCKED", !.rec = TRUE, !.good = job[w].n]
<1>j. /\ job[w] # NoJob /\ JobInTx(job[w]) /\ o \in Orders
      /\ job[w].res \in BOOLEAN /\ job[w].ded = dedF[o] /\ job[w].n = Qty[o]
  BY CommitJob DEF ReceiveCommit, Running
<1>1. LineMoved(o)
  BY <1>j, ReturnBackMoves DEF ReceiveCommit, TypeInv
<1>2. WholeRows'
  <2>1. rets' = [rets EXCEPT ![o] = [rets[o] EXCEPT ![i] = r]]
    BY DEF ReceiveCommit
  <2>2. CASE i \in DOMAIN rets[o]
    <3>1. rets[o] \in Seq(ReturnRows)
      BY <1>j DEF TypeInv, OrderTyped
    <3>2. rets[o][i] \in ReturnRows
      BY <2>2, <3>1
    <3>3. r.qty = rets[o][i].qty
      BY <3>2 DEF ReturnRows
    <3> HIDE DEF o, i, r
    <3>. QED BY <2>1, <3>3, <1>j, RowRewritten DEF TypeInv
  <2>3. CASE i \notin DOMAIN rets[o]
    <3> HIDE DEF o, i, r
    <3>1. rets[o] \in Seq(ReturnRows) /\ rets \in [Orders -> Seq(ReturnRows)]
      BY <1>j DEF TypeInv, OrderTyped
    <3>2. rets[o] \in [1..Len(rets[o]) -> ReturnRows] /\ DOMAIN rets[o] = 1..Len(rets[o])
      BY <3>1, LenProperties
    <3>3. [rets[o] EXCEPT ![i] = r] = rets[o]
      BY <2>3, <3>2
    <3>4. rets' = rets
      BY <2>1, <3>1, <3>3
    <3>. QED BY <3>4, RowsUnchanged
  <2>. QED BY <2>2, <2>3
<1>3. PICK j : Start(w, j) /\ ~JobInTx(j) /\ WholeJob(j)
  <2>1. Start(w, NewJob("mirror", job[w].o, job[w].to, "None", FALSE)) /\ "mirror" \in Kinds
    BY DEF ReceiveCommit, Kinds
  <2>2. "mirror" \notin {"newReturn", "receive"}
    OBVIOUS
  <2>. QED BY <2>1, <2>2, NewJobIsOutside
<1>. QED BY <1>j, <1>1, <1>2, <1>3, CommitStep

LEMMA CloseReturnKeeps ==
  ASSUME TypeInv, LedgerInv, NEW o \in Orders, NEW i \in 1..MaxReturns, CloseReturn(o, i)
  PROVE  LedgerInv'
<1>u. UNCHANGED <<dedF, taken, job>>
  BY DEF CloseReturn, stockVars
<1>1. WholeRows'
  <2> DEFINE r == [rets[o][i] EXCEPT !.st = "CLOSED"]
  <2>1. rets[o] \in Seq(ReturnRows) /\ i \in DOMAIN rets[o]
    BY DEF TypeInv, OrderTyped, CloseReturn
  <2>2. rets[o][i] \in ReturnRows
    BY <2>1
  <2>3. r.qty = rets[o][i].qty
    BY <2>2 DEF ReturnRows
  <2>4. rets' = [rets EXCEPT ![o] = [rets[o] EXCEPT ![i] = r]]
    BY DEF CloseReturn
  <2> HIDE DEF r
  <2>. QED BY <2>3, <2>4, RowRewritten DEF TypeInv
<1>. QED BY <1>u, <1>1
         DEF LedgerInv, LedgerExact, OneTxPerOrder, FreshSnapshot, JobInTx, WholeJob

-----------------------------------------------------------------------------
LEMMA InitLedger == Init => LedgerInv
BY DEF Init, LedgerInv, LedgerExact, OneTxPerOrder, FreshSnapshot, WholeRows, WholeJob, JobInTx

LEMMA StepLedger ==
  ASSUME WholeAndApart
  PROVE  TypeInv /\ LedgerInv /\ [Next]_vars => LedgerInv'
<1>. SUFFICES ASSUME TypeInv, LedgerInv, [Next]_vars PROVE LedgerInv'
  OBVIOUS
<1>1. ASSUME NEW w \in Workers, NEW o \in Orders, StartHandler(w, o)
      PROVE  LedgerInv'
  BY <1>1, StartHandlerKeeps
<1>2. ASSUME NEW w \in Workers, Advance(w)
      PROVE  LedgerInv'
  <2>1. CASE Abort(w) \/ MirrorDispatch(w)
    BY <2>1, FinishKeeps DEF Abort, MirrorDispatch, stockVars
  <2>. QED BY <1>2, <2>1, CreateCommitKeeps, BeginKeeps, HoldKeeps, StatusCommitKeeps,
           OrderRowCommitKeeps, BoardCommitKeeps, SyncGateKeeps, SyncCommitKeeps,
           NewReturnCommitKeeps, ReceiveCommitKeeps DEF Advance
<1>3. ASSUME NEW o \in Orders, BookCourier(o)
      PROVE  LedgerInv'
  BY <1>3 DEF BookCourier, stockVars, LedgerInv, LedgerExact, OneTxPerOrder, FreshSnapshot,
              WholeRows, WholeJob, JobInTx
<1>4. CASE UNCHANGED vars
  BY <1>4 DEF vars, stockVars, LedgerInv, LedgerExact, OneTxPerOrder, FreshSnapshot,
              WholeRows, WholeJob, JobInTx
<1>. QED BY <1>1, <1>2, <1>3, <1>4, CloseReturnKeeps DEF Next

(* However the gates of an order's handlers interleave, whatever aborts,   *)
(* and however many orders compete, the units of a line leave the shelf at *)
(* most once and come back at most once: deductForOrder,                   *)
(* releaseForCancellation and restoreReturnClaim act on flags that are     *)
(* still true when they act.                                               *)
THEOREM LineTakenOnce ==
  ASSUME WholeAndApart
  PROVE  Spec => []TakenOnce
<1>1. LedgerInv => TakenOnce
  BY LedgerInvImpliesTakenOnce
<1>2. TypeInv /\ LedgerInv /\ [Next]_vars => LedgerInv'
  BY StepLedger
<1>. QED BY InitTyped, StepTyped, InitLedger, <1>1, <1>2, PTL DEF Spec

-----------------------------------------------------------------------------
(***************************************************************************)
(* OrderStock implements Shelf: every step of the handlers is one step of  *)
(* one line of the shelf, or leaves the shelf alone.                       *)
(***************************************************************************)

ShelfStep == [OnShelf!Next]_OnShelf!vars

LEMMA StutterIsShelfStep ==
  ASSUME UNCHANGED <<onHand, dedF, taken>>
  PROVE  ShelfStep
BY DEF ShelfStep, OnShelf!vars

LEMMA TakeLineIsShelfStep ==
  ASSUME NEW o \in Orders, TakeLine(o, dedF[o])
  PROVE  ShelfStep
<1>1. CASE dedF[o]
  BY <1>1, StutterIsShelfStep DEF TakeLine, stockVars
<1>2. CASE ~dedF[o]
  <2>1. OnShelf!Take(o)
    BY <1>2 DEF TakeLine, OnShelf!Take
  <2>. QED BY <2>1 DEF ShelfStep, OnShelf!Next
<1>. QED BY <1>1, <1>2

LEMMA GiveBackIsShelfStep ==
  ASSUME NEW o \in Orders, NEW res \in BOOLEAN, GiveBack(o, dedF[o], res)
  PROVE  ShelfStep
<1>1. CASE dedF[o]
  <2>1. OnShelf!PutBack(o)
    BY <1>1 DEF GiveBack, OnShelf!PutBack
  <2>. QED BY <2>1 DEF ShelfStep, OnShelf!Next
<1>2. CASE ~dedF[o]
  <2>1. UNCHANGED <<onHand, dedF, taken>>
    BY <1>2 DEF GiveBack, stockVars
  <2>. QED BY <2>1, StutterIsShelfStep
<1>. QED BY <1>1, <1>2

LEMMA ReturnBackIsShelfStep ==
  ASSUME StockTyped, NEW o \in Orders, NEW res \in BOOLEAN,
         ReturnBack(o, dedF[o], res, Qty[o])
  PROVE  ShelfStep
<1>q. Qty[o] \in Nat /\ Qty[o] > 0
  BY OrderStockAssumption DEF OrderStockAssumption
<1>d. dedF' = [dedF EXCEPT ![o] = FALSE]
  BY DEF ReturnBack
<1>1. CASE dedF[o]
  <2>1. onHand' = onHand + Qty[o] /\ taken' = [taken EXCEPT ![o] = @ - Qty[o]]
    BY <1>1, <1>q DEF ReturnBack
  <2>2. OnShelf!PutBack(o)
    BY <1>1, <1>d, <2>1 DEF OnShelf!PutBack
  <2>. QED BY <2>2 DEF ShelfStep, OnShelf!Next
<1>2. CASE ~dedF[o]
  <2>1. onHand' = onHand /\ taken' = taken
    BY <1>2 DEF ReturnBack
  <2>2. dedF' = dedF
    BY <1>2, <1>d DEF StockTyped
  <2>. QED BY <2>1, <2>2, StutterIsShelfStep
<1>. QED BY <1>1, <1>2

(* One disjunct per way a commit touches the line.                         *)
LEMMA LineWriteIsShelfStep ==
  ASSUME StockTyped, NEW o \in Orders, NEW res \in BOOLEAN,
         \/ ClaimLine(o, res)
         \/ TakeLine(o, dedF[o])
         \/ GiveBack(o, dedF[o], res)
         \/ ReturnBack(o, dedF[o], res, Qty[o])
         \/ UNCHANGED stockVars
  PROVE  ShelfStep
<1>1. CASE ClaimLine(o, res) \/ UNCHANGED stockVars
  BY <1>1, StutterIsShelfStep DEF ClaimLine, stockVars
<1>. QED BY <1>1, TakeLineIsShelfStep, GiveBackIsShelfStep, ReturnBackIsShelfStep

-----------------------------------------------------------------------------
LEMMA CommitIsShelfStep ==
  ASSUME TypeInv, LedgerInv, NEW w \in Workers,
         \/ StatusCommit(w) \/ CustomerCancelCommit(w) \/ TrashCommit(w)
         \/ RestoreCommit(w) \/ BoardCommit(w) \/ SyncCommit(w) \/ ReceiveCommit(w)
  PROVE  ShelfStep
<1>j. /\ job[w].o \in Orders /\ job[w].res \in BOOLEAN /\ job[w].ded = dedF[job[w].o]
      /\ job[w].kind = "receive" => job[w].n = Qty[job[w].o]
  BY CommitJob DEF StatusCommit, CustomerCancelCommit, TrashCommit, RestoreCommit,
                   BoardCommit, SyncCommit, ReceiveCommit
<1>1. \/ ClaimLine(job[w].o, job[w].res)
      \/ TakeLine(job[w].o, dedF[job[w].o])
      \/ GiveBack(job[w].o, dedF[job[w].o], job[w].res)
      \/ ReturnBack(job[w].o, dedF[job[w].o], job[w].res, Qty[job[w].o])
      \/ UNCHANGED stockVars
  <2>1. CASE StatusCommit(w)
    BY <2>1, <1>j DEF StatusCommit
  <2>2. CASE CustomerCancelCommit(w) \/ TrashCommit(w) \/ RestoreCommit(w)
    BY <2>2, <1>j DEF CustomerCancelCommit, TrashCommit, RestoreCommit
  <2>3. CASE BoardCommit(w) \/ SyncCommit(w)
    BY <2>3, <1>j DEF BoardCommit, SyncCommit
  <2>4. CASE ReceiveCommit(w)
    BY <2>4, <1>j DEF ReceiveCommit, Running
  <2>. QED BY <2>1, <2>2, <2>3, <2>4
<1>. QED BY <1>j, <1>1, LineWriteIsShelfStep DEF TypeInv

LEMMA GateIsShelfStep ==
  ASSUME NEW w \in Workers, NEW o \in Orders, StartHandler(w, o)
  PROVE  ShelfStep
<1>1. UNCHANGED <<onHand, dedF, taken>>
  BY DEF StartHandler, CreateGate, StatusGate, CustomerCancelGate, TrashGate,
         RestoreGate, BoardGate, NewReturnGate, ReceiveGate, stockVars
<1>. QED BY <1>1, StutterIsShelfStep

LEMMA OtherIsShelfStep ==
  ASSUME NEW w \in Workers,
         \/ CreateCommit(w) \/ OrderBegin(w) \/ HoldGate(w) \/ HoldApply(w) \/ HoldFails(w)
         \/ BoardBegin(w) \/ SyncGate(w) \/ NewReturnCommit(w) \/ ReceiveBegin(w) \/ MirrorDispatch(w)
         \/ Abort(w)
  PROVE  ShelfStep
<1>1. UNCHANGED <<onHand, dedF, taken>>
  BY DEF CreateCommit, ClaimLine, OrderBegin, HoldGate, HoldApply, HoldFails, BoardBegin,
         SyncGate, NewReturnCommit, ReceiveBegin, MirrorDispatch, Abort, stockVars
<1>. QED BY <1>1, StutterIsShelfStep

LEMMA NextIsShelfStep ==
  ASSUME TypeInv, LedgerInv, [Next]_vars
  PROVE  ShelfStep
<1>1. CASE UNCHANGED vars
  BY <1>1, StutterIsShelfStep DEF vars, stockVars
<1>2. CASE \E w \in Workers : \E o \in Orders : StartHandler(w, o)
  BY <1>2, GateIsShelfStep
<1>3. ASSUME NEW w \in Workers, Advance(w)
      PROVE  ShelfStep
  BY <1>3, CommitIsShelfStep, OtherIsShelfStep DEF Advance
<1>4. CASE \E o \in Orders : BookCourier(o) \/ \E i \in 1..MaxReturns : CloseReturn(o, i)
  <2>1. PICK o \in Orders : BookCourier(o) \/ \E i \in 1..MaxReturns : CloseReturn(o, i)
    BY <1>4
  <2>2. UNCHANGED <<onHand, dedF, taken>>
    BY <2>1 DEF BookCourier, CloseReturn, stockVars
  <2>. QED BY <2>2, StutterIsShelfStep
<1>. QED BY <1>1, <1>2, <1>3, <1>4 DEF Next

(* OrderStock implements Shelf, so what holds of the shelf holds of the    *)
(* handlers: units leave and return by whole lines, one line at a time,    *)
(* and onHand, the deducted flags and the ledger never drift apart.        *)
THEOREM OrderStockImplementsShelf ==
  ASSUME WholeAndApart
  PROVE  Spec => ShelfPromise
<1>1. Init => OnShelf!Init
  BY DEF Init, OnShelf!Init
<1>2. TypeInv /\ LedgerInv /\ [Next]_vars => [OnShelf!Next]_OnShelf!vars
  BY NextIsShelfStep DEF ShelfStep
<1>3. TypeInv /\ LedgerInv /\ [Next]_vars => LedgerInv'
  BY StepLedger
<1>. QED BY InitTyped, StepTyped, InitLedger, <1>1, <1>2, <1>3, PTL
         DEF Spec, ShelfPromise, OnShelf!Spec
=============================================================================
