-------------------------- MODULE OrderClaimProofs --------------------------
(***************************************************************************)
(* The reservations of OrderStock, for every value of its constants:       *)
(*                                                                         *)
(*   ReservationsAccounted  no unit is withheld that no line put there,    *)
(*                          where LineTakenOnce holds;                     *)
(*   LiveOrdersHold         an order that waits for its goods has reserved *)
(*                          them, when it has one handler at a time;       *)
(*   OrdersDieEmpty         an order dies with nothing, and only the       *)
(*                          hand-over of its parcel gives it something     *)
(*                          back, when it has one handler at a time.       *)
(*                                                                         *)
(* Two handlers of an order whose gates both read before either commits    *)
(* break the last two promises, which therefore assume more than the first.*)
(***************************************************************************)
EXTENDS OrderStockProofs, SumTheorems

(***************************************************************************)
(* What lines put on the counter.  NoPhantomReservation is not inductive:  *)
(* ClaimLine adds units because of a flag its transaction read, and a      *)
(* give-back that is refused leaves them there.  BornInv says that an order*)
(* being created has no claim yet; ClaimInv adds that what a transaction   *)
(* read of its claim is still so, and that a line is held only once.       *)
(***************************************************************************)

(* An order that is not created yet has nothing, and only the request that *)
(* creates it works on it.                                                 *)
Unborn ==
  \A o \in Orders :
    status[o] = "None" => ~resF[o] /\ dispatch[o] = "None" /\ rets[o] = <<>>

CreatesUnborn ==
  \A w \in Workers :
    job[w] # NoJob =>
      /\ job[w].kind = "create" <=> status[job[w].o] = "None"
      /\ job[w].kind = "create" => job[w].pc = "gate"

CreatesAlone ==
  \A v, w \in Workers :
    /\ v # w
    /\ job[v] # NoJob /\ job[w] # NoJob
    /\ job[v].kind = "create"
    => job[v].o # job[w].o

BornInv == Unborn /\ CreatesUnborn /\ CreatesAlone

(* A gate admits a handler; nothing else changes.                          *)
LEMMA BornGate ==
  ASSUME TypeInv, BornInv, NEW w \in Workers, NEW j, Start(w, j), j # NoJob,
         UNCHANGED <<status, dispatch, rets, resF>>,
         j.kind = "create" <=> status[j.o] = "None",
         j.kind = "create" => j.pc = "gate" /\ \A v \in Workers : ~BusyOn(v, j.o)
  PROVE  BornInv'
<1>1. job'[w] = j /\ \A v \in Workers \ {w} : job'[v] = job[v]
  BY DEF Start, TypeInv, JobsTyped
<1>2. Unborn'
  BY DEF BornInv, Unborn
<1>3. CreatesUnborn'
  BY <1>1 DEF BornInv, CreatesUnborn
<1>4. CreatesAlone'
  <2>. SUFFICES ASSUME NEW v \in Workers, NEW u \in Workers, v # u, job'[v] # NoJob,
                       job'[u] # NoJob, job'[v].kind = "create"
                PROVE  job'[v].o # job'[u].o
    BY DEF CreatesAlone
  <2>1. CASE v = w
    BY <2>1, <1>1 DEF BusyOn
  <2>2. CASE u = w
    <3>1. CASE j.kind = "create"
      BY <3>1, <2>2, <1>1 DEF BusyOn
    <3>2. CASE j.kind # "create"
      BY <3>2, <2>2, <1>1 DEF BornInv, CreatesUnborn
    <3>. QED BY <3>1, <3>2
  <2>3. CASE v # w /\ u # w
    BY <2>3, <1>1 DEF BornInv, CreatesAlone
  <2>. QED BY <2>1, <2>2, <2>3
<1>. QED BY <1>2, <1>3, <1>4 DEF BornInv

(* A step of a handler on an existing order touches that order only.       *)
LEMMA BornWorker ==
  ASSUME TypeInv, BornInv, NEW w \in Workers, job[w] # NoJob, job[w].kind # "create",
         status'[job[w].o] # "None",
         \A o \in Orders \ {job[w].o} :
           /\ status'[o] = status[o] /\ dispatch'[o] = dispatch[o]
           /\ rets'[o] = rets[o] /\ resF'[o] = resF[o],
         NEW j, Start(w, j), j # NoJob => j.o = job[w].o /\ j.kind # "create"
  PROVE  BornInv'
<1>1. job'[w] = j /\ \A v \in Workers \ {w} : job'[v] = job[v]
  BY DEF Start, TypeInv, JobsTyped
<1>2. \A v \in Workers : job[v] # NoJob => job[v].o \in Orders
  BY BusyIsGood DEF TypeInv, GoodJobs, Jobs
<1>3. status[job[w].o] # "None"
  BY DEF BornInv, CreatesUnborn
<1>4. Unborn'
  BY DEF BornInv, Unborn
<1>5. CreatesUnborn'
  <2>. SUFFICES ASSUME NEW v \in Workers, job'[v] # NoJob
                PROVE  /\ job'[v].kind = "create" <=> status'[job'[v].o] = "None"
                       /\ job'[v].kind = "create" => job'[v].pc = "gate"
    BY DEF CreatesUnborn
  <2>1. CASE v = w
    BY <2>1, <1>1
  <2>2. CASE v # w
    <3>1. job'[v] = job[v] /\ job[v].o \in Orders
      BY <2>2, <1>1, <1>2
    <3>2. /\ job[v].kind = "create" <=> status[job[v].o] = "None"
          /\ job[v].kind = "create" => job[v].pc = "gate"
      BY <3>1 DEF BornInv, CreatesUnborn
    <3>. QED BY <3>1, <3>2, <1>3
  <2>. QED BY <2>1, <2>2
<1>6. CreatesAlone'
  <2>. SUFFICES ASSUME NEW v \in Workers, NEW u \in Workers, v # u, job'[v] # NoJob,
                       job'[u] # NoJob, job'[v].kind = "create"
                PROVE  job'[v].o # job'[u].o
    BY DEF CreatesAlone
  <2>1. v # w
    BY <1>1
  <2>2. CASE u = w
    BY <2>1, <2>2, <1>1 DEF BornInv, CreatesAlone
  <2>3. CASE u # w
    BY <2>1, <2>3, <1>1 DEF BornInv, CreatesAlone
  <2>. QED BY <2>2, <2>3
<1>. QED BY <1>4, <1>5, <1>6 DEF BornInv

LEMMA StartHandlerBorn ==
  ASSUME TypeInv, BornInv, NEW w \in Workers, NEW o \in Orders, StartHandler(w, o)
  PROVE  BornInv'
<1>u. UNCHANGED <<status, dispatch, rets, resF>>
  BY DEF StartHandler, CreateGate, StatusGate, CustomerCancelGate, TrashGate, RestoreGate,
         BoardGate, NewReturnGate, ReceiveGate, stockVars, orderVars, parcelVars
<1>1. CASE CreateGate(w, o)
  <2> DEFINE j == NewJob("create", o, "Pending", "None", FALSE)
  <2>1. j # NoJob /\ j.kind = "create" /\ j.o = o /\ j.pc = "gate"
    BY DEF NewJob, NoJob
  <2>2. Start(w, j) /\ status[o] = "None" /\ \A v \in Workers : ~BusyOn(v, o)
    BY <1>1 DEF CreateGate
  <2> HIDE DEF j
  <2>. QED BY <2>1, <2>2, <1>u, BornGate
<1>2. CASE ~CreateGate(w, o)
  <2>1. PICK j : Start(w, j) /\ j # NoJob /\ j.o = o /\ j.kind # "create"
    <3>1. ASSUME NEW kind \in Kinds \ {"create"}, NEW to, NEW from, NEW e
          PROVE  /\ NewJob(kind, o, to, from, e) # NoJob
                 /\ NewJob(kind, o, to, from, e).o = o
                 /\ NewJob(kind, o, to, from, e).kind # "create"
      BY DEF NewJob, NoJob
    <3>3. \/ \E kind \in Kinds \ {"create"} : \E to, from, e :
               Start(w, NewJob(kind, o, to, from, e))
          \/ \E kind \in Kinds \ {"create"} : \E to, from, e, n :
               Start(w, [NewJob(kind, o, to, from, e) EXCEPT !.n = n])
          \/ \E kind \in Kinds \ {"create"} : \E to, from, e, i, n :
               Start(w, [NewJob(kind, o, to, from, e) EXCEPT !.row = i, !.n = n])
      <4>k. {"status", "customer", "trash", "restore", "board", "newReturn", "receive", "mirror"}
              \subseteq Kinds \ {"create"}
        BY DEF Kinds
      <4>1. CASE \E to \in StatusTargets[o], a \in BOOLEAN : StatusGate(w, o, to, a)
        BY <4>1, <4>k DEF StatusGate
      <4>2. CASE CustomerCancelGate(w, o) \/ TrashGate(w, o) \/ RestoreGate(w, o)
        BY <4>2, <4>k DEF CustomerCancelGate, TrashGate, RestoreGate
      <4>3. CASE \E to \in BoardTargets, a \in BOOLEAN : BoardGate(w, o, to, a)
        BY <4>3, <4>k DEF BoardGate
      <4>4. CASE \E type \in {"FULL", "PARTIAL"}, n \in 1..Qty[o], mark \in BOOLEAN :
                   NewReturnGate(w, o, type, n, mark)
        BY <4>4, <4>k DEF NewReturnGate
      <4>5. CASE \E i \in 1..MaxReturns, n \in 0..Qty[o] : ReceiveGate(w, o, i, n)
        <5>1. PICK i \in 1..MaxReturns, n \in 0..Qty[o] : ReceiveGate(w, o, i, n)
          BY <4>5
        <5>2. CASE rets[o][i].rec
          BY <5>1, <5>2, <4>k DEF ReceiveGate
        <5>3. CASE ~rets[o][i].rec
          <6>1. Start(w, [NewJob("receive", o, rets[o][i].type, "None", FALSE)
                            EXCEPT !.row = i, !.n = n])
            BY <5>1, <5>3 DEF ReceiveGate
          <6>. QED BY <6>1, <4>k
        <5>. QED BY <5>2, <5>3
      <4>. QED BY <1>2, <4>1, <4>2, <4>3, <4>4, <4>5 DEF StartHandler
    <3>4. CASE \E kind \in Kinds \ {"create"} : \E to, from, e :
                 Start(w, NewJob(kind, o, to, from, e))
      <4>1. PICK kind, to, from, e :
                   kind \in Kinds \ {"create"} /\ Start(w, NewJob(kind, o, to, from, e))
        BY <3>4
      <4> DEFINE j == NewJob(kind, o, to, from, e)
      <4>2. Start(w, j) /\ j # NoJob /\ j.o = o /\ j.kind # "create"
        BY <4>1, <3>1
      <4> HIDE DEF j
      <4>. QED BY <4>2
    <3>5. CASE \E kind \in Kinds \ {"create"} : \E to, from, e, n :
                 Start(w, [NewJob(kind, o, to, from, e) EXCEPT !.n = n])
      <4>1. PICK kind, to, from, e, n :
                   kind \in Kinds \ {"create"} /\ Start(w, [NewJob(kind, o, to, from, e) EXCEPT !.n = n])
        BY <3>5
      <4> DEFINE j == [NewJob(kind, o, to, from, e) EXCEPT !.n = n]
      <4>2. Start(w, j) /\ j # NoJob /\ j.o = o /\ j.kind # "create"
        BY <4>1 DEF NewJob, NoJob
      <4> HIDE DEF j
      <4>. QED BY <4>2
    <3>6. CASE \E kind \in Kinds \ {"create"} : \E to, from, e, i, n :
                 Start(w, [NewJob(kind, o, to, from, e) EXCEPT !.row = i, !.n = n])
      <4>1. PICK kind, to, from, e, i, n :
                   kind \in Kinds \ {"create"} /\ Start(w, [NewJob(kind, o, to, from, e) EXCEPT !.row = i, !.n = n])
        BY <3>6
      <4> DEFINE j == [NewJob(kind, o, to, from, e) EXCEPT !.row = i, !.n = n]
      <4>2. Start(w, j) /\ j # NoJob /\ j.o = o /\ j.kind # "create"
        BY <4>1 DEF NewJob, NoJob
      <4> HIDE DEF j
      <4>. QED BY <4>2
    <3>. QED BY <3>3, <3>4, <3>5, <3>6
  <2>2. status[o] # "None"
    <3>1. CASE dispatch[o] # "None" \/ rets[o] # <<>>
      BY <3>1 DEF BornInv, Unborn
    <3>2. ASSUME NEW i \in DOMAIN rets[o] PROVE rets[o] # <<>>
      BY <3>2
    <3>3. ReturnEligible \subseteq OrderStatuses /\ "None" \notin OrderStatuses
      BY DEF ReturnEligible, OrderStatuses
    <3>. QED BY <1>2, <3>1, <3>2, <3>3 DEF StartHandler, StatusGate, CustomerCancelGate,
             TrashGate, RestoreGate, BoardGate, NewReturnGate, ReceiveGate
  <2>. QED BY <2>1, <2>2, <1>u, BornGate
<1>. QED BY <1>1, <1>2

LEMMA CreateCommitBorn ==
  ASSUME TypeInv, BornInv, NEW w \in Workers, CreateCommit(w)
  PROVE  BornInv'
<1> DEFINE o == job[w].o
<1>1. /\ job'[w] = NoJob /\ \A v \in Workers \ {w} : job'[v] = job[v]
      /\ UNCHANGED <<dispatch, rets>>
      /\ status' = [status EXCEPT ![o] = "Pending"]
      /\ resF' = [resF EXCEPT ![o] = TRUE]
  BY DEF CreateCommit, ClaimLine, Finish, parcelVars, TypeInv, JobsTyped
<1>2. o \in Orders /\ job[w] # NoJob /\ job[w].kind = "create"
  BY RunningIsGood DEF TypeInv, CreateCommit, Running
<1>3. \A v \in Workers \ {w} : job[v] # NoJob => job[v].o \in Orders /\ job[v].o # o
  BY <1>2, BusyIsGood DEF TypeInv, GoodJobs, Jobs, BornInv, CreatesAlone
<1>4. /\ status'[o] = "Pending"
      /\ \A p \in Orders \ {o} : status'[p] = status[p] /\ resF'[p] = resF[p]
  BY <1>1, <1>2 DEF TypeInv, OrderTyped, StockTyped
<1> HIDE DEF o
<1>5. Unborn'
  BY <1>1, <1>4 DEF BornInv, Unborn
<1>6. CreatesUnborn'
  BY <1>1, <1>3, <1>4 DEF BornInv, CreatesUnborn
<1>7. CreatesAlone'
  BY <1>1 DEF BornInv, CreatesAlone
<1>. QED BY <1>5, <1>6, <1>7 DEF BornInv

(* What a handler of an existing order knows of it.                        *)
LEMMA ExistingJob ==
  ASSUME TypeInv, BornInv, NEW w \in Workers, job[w] # NoJob, job[w].kind # "create"
  PROVE  job[w].o \in Orders /\ status[job[w].o] # "None"
BY BusyIsGood DEF TypeInv, GoodJobs, Jobs, BornInv, CreatesUnborn

LEMMA FinishBorn ==
  ASSUME TypeInv, BornInv, NEW w \in Workers, Finish(w),
         UNCHANGED <<status, dispatch, rets, resF>>
  PROVE  BornInv'
<1>1. job'[w] = NoJob /\ \A v \in Workers \ {w} : job'[v] = job[v]
  BY DEF Finish, TypeInv, JobsTyped
<1>. QED BY <1>1 DEF BornInv, Unborn, CreatesUnborn, CreatesAlone

(* The steps in which a handler only moves on.                             *)
LEMMA MovingBorn ==
  ASSUME TypeInv, BornInv, NEW w \in Workers,
         \/ OrderBegin(w) \/ BoardBegin(w) \/ ReceiveBegin(w) \/ SyncGate(w)
         \/ HoldGate(w) \/ HoldApply(w) \/ HoldFails(w)
  PROVE  BornInv'
<1>u. UNCHANGED <<status, dispatch, rets, resF>>
  BY DEF OrderBegin, BoardBegin, ReceiveBegin, SyncGate, HoldGate, HoldApply, HoldFails,
         stockVars, orderVars, parcelVars
<1>g. job[w] # NoJob /\ job[w] \in Jobs /\ job[w].kind # "create"
  <2>1. job[w] # NoJob
    BY DEF OrderBegin, BoardBegin, ReceiveBegin, SyncGate, HoldGate, HoldApply, HoldFails,
           Running, InHold
  <2>2. job[w] \in GoodJobs
    BY <2>1, BusyIsGood DEF TypeInv
  <2>3. job[w].kind # "create" \/ job[w].pc \in {"hold", "apply"}
    BY DEF OrderBegin, BoardBegin, ReceiveBegin, SyncGate, HoldGate, HoldApply, HoldFails,
           Running, OrderRowKinds, InHold
  <2>. QED BY <2>1, <2>2, <2>3 DEF GoodJobs, BornInv, CreatesUnborn
<1>o. status[job[w].o] # "None"
  BY <1>g, ExistingJob
<1>1. CASE Finish(w)
  BY <1>1, <1>u, FinishBorn
<1>2. ASSUME NEW j, Start(w, j), j # NoJob, j.o = job[w].o, j.kind # "create"
      PROVE  BornInv'
  BY <1>2, <1>g, <1>o, <1>u, BornWorker
<1>3. CASE ~Finish(w)
  <2>2. CASE HoldGate(w) \/ HoldApply(w) \/ HoldFails(w) \/ SyncGate(w)
    <3>1. PICK pc : Start(w, [job[w] EXCEPT !.pc = pc])
      BY <1>3, <2>2 DEF HoldGate, HoldApply, HoldFails, AfterHold, SyncGate
    <3> DEFINE j == [job[w] EXCEPT !.pc = pc]
    <3>2. Start(w, j) /\ j # NoJob /\ j.o = job[w].o /\ j.kind # "create"
      BY <3>1, <1>g DEF Jobs, NoJob
    <3> HIDE DEF j
    <3>. QED BY <3>2, <1>2
  <2>3. CASE BoardBegin(w)
    <3> DEFINE j == [job[w] EXCEPT !.pc = "tx", !.ded = dedF[job[w].o]]
    <3>1. Start(w, j)
      BY <1>3, <2>3 DEF BoardBegin
    <3>2. j # NoJob /\ j.o = job[w].o /\ j.kind # "create"
      BY <1>g DEF Jobs, NoJob
    <3> HIDE DEF j
    <3>. QED BY <3>1, <3>2, <1>2
  <2>4. CASE ReceiveBegin(w)
    <3> DEFINE j == [job[w] EXCEPT !.pc = "tx", !.ded = dedF[job[w].o],
                                   !.res = resF[job[w].o]]
    <3>1. Start(w, j)
      BY <2>4 DEF ReceiveBegin
    <3>2. j # NoJob /\ j.o = job[w].o /\ j.kind # "create"
      BY <1>g DEF Jobs, NoJob
    <3> HIDE DEF j
    <3>. QED BY <3>1, <3>2, <1>2
  <2>5. CASE OrderBegin(w)
    <3> DEFINE p == IF HoldsStock(job[w]) THEN "hold" ELSE "tx"
               e == IF MarksReturned(job[w]) THEN CreatesReturn(job[w].o)
                                             ELSE job[w].extra
               j == [job[w] EXCEPT !.pc = p, !.ded = dedF[job[w].o],
                                   !.res = resF[job[w].o], !.extra = e]
    <3>1. Start(w, j)
      BY <2>5 DEF OrderBegin
    <3>2. j # NoJob /\ j.o = job[w].o /\ j.kind # "create"
      <4> HIDE DEF p, e
      <4>. QED BY <1>g DEF Jobs, NoJob
    <3> HIDE DEF j
    <3>. QED BY <3>1, <3>2, <1>2
  <2>. QED BY <2>2, <2>3, <2>4, <2>5
<1>. QED BY <1>1, <1>3

(* The steps in which a handler writes.                                    *)
LEMMA WritingBorn ==
  ASSUME TypeInv, BornInv, NEW w \in Workers,
         \/ StatusCommit(w) \/ CustomerCancelCommit(w) \/ TrashCommit(w)
         \/ RestoreCommit(w) \/ BoardCommit(w) \/ SyncCommit(w) \/ NewReturnCommit(w)
         \/ ReceiveCommit(w) \/ MirrorDispatch(w)
  PROVE  BornInv'
<1> DEFINE o == job[w].o
<1>g. job[w] # NoJob /\ job[w].kind # "create"
  BY DEF StatusCommit, CustomerCancelCommit, TrashCommit, RestoreCommit, BoardCommit,
         SyncCommit, NewReturnCommit, ReceiveCommit, MirrorDispatch, Running
<1>o. o \in Orders /\ status[o] # "None" /\ job[w] \in GoodJobs
  BY <1>g, ExistingJob, BusyIsGood DEF TypeInv
<1>t. /\ status \in [Orders -> OrderStatuses \cup {"None"}]
      /\ rets \in [Orders -> Seq(ReturnRows)]
      /\ dispatch \in [Orders -> DispatchStatuses \cup {"None"}]
      /\ resF \in [Orders -> BOOLEAN]
  BY DEF TypeInv, OrderTyped, StockTyped
<1>1. status'[o] # "None" /\ \A p \in Orders \ {o} : status'[p] = status[p]
  <2>1. CASE UNCHANGED status
    BY <2>1, <1>o
  <2>2. CASE ~UNCHANGED status
    <3>1. PICK s \in OrderStatuses : status' = [status EXCEPT ![o] = s]
      <4>1. CASE StatusCommit(w) \/ SyncCommit(w)
        <5>1. job[w].to \in OrderStatuses
          BY <4>1, <1>o DEF StatusCommit, SyncCommit, Running, GoodJobs
        <5>. QED BY <4>1, <5>1 DEF StatusCommit, SyncCommit
      <4>2. CASE CustomerCancelCommit(w) \/ NewReturnCommit(w)
        BY <4>2, <2>2 DEF CustomerCancelCommit, NewReturnCommit, OrderStatuses
      <4>. QED BY <2>2, <4>1, <4>2 DEF TrashCommit, RestoreCommit, BoardCommit,
               ReceiveCommit, MirrorDispatch, orderVars
    <3>2. "None" \notin OrderStatuses
      BY DEF OrderStatuses
    <3>. QED BY <3>1, <3>2, <1>o, <1>t
  <2>. QED BY <2>1, <2>2
<1>2. \A p \in Orders \ {o} : dispatch'[p] = dispatch[p]
  BY <1>o, <1>t DEF StatusCommit, CustomerCancelCommit, TrashCommit, RestoreCommit,
     BoardCommit, SyncCommit, NewReturnCommit, ReceiveCommit, MirrorDispatch, parcelVars
<1>3. \A p \in Orders \ {o} : rets'[p] = rets[p]
  BY <1>o, <1>t DEF StatusCommit, CustomerCancelCommit, TrashCommit, RestoreCommit,
     BoardCommit, SyncCommit, NewReturnCommit, ReceiveCommit, MirrorDispatch
<1>4. \A p \in Orders \ {o} : resF'[p] = resF[p]
  BY <1>o, <1>t DEF StatusCommit, CustomerCancelCommit, TrashCommit, RestoreCommit,
     BoardCommit, SyncCommit, NewReturnCommit, ReceiveCommit, MirrorDispatch,
     stockVars, ClaimLine, TakeLine, GiveBack, ReturnBack
<1>5. PICK j : Start(w, j) /\ (j # NoJob => j.o = o /\ j.kind # "create")
  <2>1. CASE Finish(w)
    BY <2>1 DEF Finish, Start
  <2>2. CASE ~Finish(w)
    <3>1. \/ Start(w, [NewJob("sync", o, SyncTarget[job[w].to], "None", job[w].extra)
                         EXCEPT !.pc = "read"])
          \/ Start(w, [NewJob("hold", o, "None", "None", FALSE) EXCEPT !.pc = "hold"])
          \/ Start(w, NewJob("mirror", o, job[w].to, "None", FALSE))
      BY <2>2 DEF StatusCommit, CustomerCancelCommit, TrashCommit, RestoreCommit,
         BoardCommit, SyncCommit, NewReturnCommit, ReceiveCommit, MirrorDispatch
    <3>2. CASE Start(w, [NewJob("sync", o, SyncTarget[job[w].to], "None", job[w].extra)
                           EXCEPT !.pc = "read"])
      BY <3>2 DEF NewJob
    <3>3. CASE Start(w, [NewJob("hold", o, "None", "None", FALSE) EXCEPT !.pc = "hold"])
      BY <3>3 DEF NewJob
    <3>4. CASE Start(w, NewJob("mirror", o, job[w].to, "None", FALSE))
      BY <3>4 DEF NewJob
    <3>. QED BY <3>1, <3>2, <3>3, <3>4
  <2>. QED BY <2>1, <2>2
<1> HIDE DEF o
<1>. QED BY <1>g, <1>1, <1>2, <1>3, <1>4, <1>5, BornWorker DEF o

LEMMA InitBorn == Init => BornInv
BY DEF Init, BornInv, Unborn, CreatesUnborn, CreatesAlone

LEMMA StepBorn == TypeInv /\ BornInv /\ [Next]_vars => BornInv'
<1>. SUFFICES ASSUME TypeInv, BornInv, [Next]_vars PROVE BornInv'
  OBVIOUS
<1>1. ASSUME NEW w \in Workers, Advance(w) PROVE BornInv'
  <2>1. CASE Abort(w)
    BY <2>1, FinishBorn DEF Abort, stockVars, orderVars, parcelVars
  <2>. QED BY <1>1, <2>1, CreateCommitBorn, MovingBorn, WritingBorn DEF Advance
<1>2. ASSUME NEW o \in Orders, BookCourier(o) PROVE BornInv'
  <2>1. /\ UNCHANGED <<status, rets, resF, job>> /\ status[o] # "None"
        /\ \A p \in Orders \ {o} : dispatch'[p] = dispatch[p]
    <3>1. "None" \notin Bookable
      BY OrderStockAssumption DEF OrderStockAssumption, OrderStatuses
    <3>. QED BY <1>2, <3>1 DEF BookCourier, stockVars, orderVars, TypeInv, OrderTyped
  <2>. QED BY <2>1 DEF BornInv, Unborn, CreatesUnborn, CreatesAlone
<1>3. ASSUME NEW o \in Orders, NEW i \in 1..MaxReturns, CloseReturn(o, i) PROVE BornInv'
  <2>1. rets[o] # <<>>
    BY <1>3 DEF CloseReturn
  <2>2. /\ UNCHANGED <<status, dispatch, resF, job>>
        /\ \A p \in Orders \ {o} : rets'[p] = rets[p]
    BY <1>3 DEF CloseReturn, stockVars, orderVars, parcelVars, TypeInv, OrderTyped
  <2>. QED BY <2>1, <2>2 DEF BornInv, Unborn, CreatesUnborn, CreatesAlone
<1>4. CASE UNCHANGED vars
  BY <1>4 DEF vars, stockVars, orderVars, parcelVars, BornInv, Unborn, CreatesUnborn, CreatesAlone
<1>. QED BY <1>1, <1>2, <1>3, <1>4, StartHandlerBorn DEF Next

-----------------------------------------------------------------------------
(* The reservation account                                                 *)

(* A transaction that read whether its line is reserved still knows it.    *)
FreshClaim ==
  \A w \in Workers :
    JobInTx(job[w]) /\ job[w].kind \notin {"board", "hold"}
    => job[w].res = resF[job[w].o]

(* Who is about to place a hold is the first to do so.                     *)
HeldOnce ==
  \A w \in Workers : JobInTx(job[w]) /\ job[w].pc = "apply" => ~heldRow[job[w].o]

ClaimInv == NoPhantomReservation /\ FreshClaim /\ HeldOnce

Account == [o \in Orders |-> Accounted(o)]

(* The counter and the account of one order move.                          *)
LEMMA AccountMoves ==
  ASSUME StockTyped, heldRow \in [Orders -> BOOLEAN],
         StockTyped', heldRow' \in [Orders -> BOOLEAN],
         NoPhantomReservation, NEW o \in Orders,
         \A p \in Orders \ {o} :
           resF'[p] = resF[p] /\ heldRow'[p] = heldRow[p] /\ taken'[p] = taken[p],
         reserved' - reserved <= Accounted(o)' - Accounted(o)
  PROVE  NoPhantomReservation'
<1>q. Qty \in [Orders -> Nat] /\ IsFiniteSet(Orders)
  BY OrderStockAssumption DEF OrderStockAssumption
<1>1. \A p \in Orders : Accounted(p) \in Int /\ Accounted(p)' \in Int
  BY <1>q DEF StockTyped, Accounted
<1>2. Account \in [Orders -> Int] /\ Account' \in [Orders -> Int]
  BY <1>1 DEF Account
<1>3. \A p \in Orders \ {o} : Account[p] = Account'[p]
  BY DEF Account, Accounted
<1>4. SumFunction(Account') = SumFunction(Account) - Account[o] + Account'[o]
  BY <1>q, <1>2, <1>3, TotalChange
<1>5. Account[o] = Accounted(o) /\ Account'[o] = Accounted(o)'
  BY DEF Account
<1>6. SumFunction(Account) \in Int /\ reserved <= SumFunction(Account)
  BY <1>q, <1>2, TotalInt DEF NoPhantomReservation, Account
<1>7. reserved' <= SumFunction(Account')
  <2>1. /\ reserved \in Int /\ reserved' \in Int
        /\ Accounted(o) \in Int /\ Accounted(o)' \in Int
    BY <1>1 DEF StockTyped
  <2>2. SumFunction(Account') = SumFunction(Account) - Accounted(o) + Accounted(o)'
    BY <1>4, <1>5
  <2> HIDE DEF Account, Accounted
  <2>. QED BY <1>6, <2>1, <2>2
<1>. QED BY <1>7 DEF NoPhantomReservation, Account

(* What a write of the stock services on o's line leaves.                  *)
LineAccounted(o) ==
  /\ NoPhantomReservation'
  /\ \A p \in Orders \ {o} : resF'[p] = resF[p]

LEMMA ClaimLineAccounted ==
  ASSUME StockTyped, StockTyped', heldRow \in [Orders -> BOOLEAN], heldRow' = heldRow,
         NoPhantomReservation, NEW o \in Orders, ClaimLine(o, resF[o])
  PROVE  LineAccounted(o)
<1>q. Qty[o] \in Nat /\ taken[o] \in Int
  BY OrderStockAssumption DEF OrderStockAssumption, StockTyped
<1>1. \A p \in Orders \ {o} : resF'[p] = resF[p] /\ taken'[p] = taken[p]
  BY DEF ClaimLine, StockTyped
<1>2. reserved' - reserved <= Accounted(o)' - Accounted(o)
  <2>1. CASE resF[o]
    BY <2>1, <1>q DEF ClaimLine, Accounted, StockTyped
  <2>2. CASE ~resF[o]
    <3>1. reserved' = reserved + Qty[o] /\ resF'[o] /\ taken'[o] = taken[o]
      BY <2>2 DEF ClaimLine, StockTyped
    <3>. QED BY <3>1, <2>2, <1>q DEF Accounted, StockTyped
  <2>. QED BY <2>1, <2>2
<1>. QED BY <1>1, <1>2, AccountMoves DEF LineAccounted

LEMMA TakeLineAccounted ==
  ASSUME StockTyped, StockTyped', heldRow \in [Orders -> BOOLEAN], heldRow' = heldRow,
         NoPhantomReservation, NEW o \in Orders, NEW ded \in BOOLEAN, TakeLine(o, ded)
  PROVE  LineAccounted(o)
<1>q. Qty[o] \in Nat /\ taken[o] \in Int
  BY OrderStockAssumption DEF OrderStockAssumption, StockTyped
<1>1. \A p \in Orders \ {o} : resF'[p] = resF[p] /\ taken'[p] = taken[p]
  BY DEF TakeLine, StockTyped, stockVars
<1>2. reserved' - reserved <= Accounted(o)' - Accounted(o)
  <2>1. CASE ded
    BY <2>1, <1>q DEF TakeLine, Accounted, StockTyped, stockVars
  <2>2. CASE ~ded
    <3>1. reserved' = reserved - Qty[o] /\ resF'[o] = resF[o] /\ taken'[o] = taken[o] + Qty[o]
      BY <2>2 DEF TakeLine, StockTyped
    <3>. QED BY <3>1, <1>q DEF Accounted, StockTyped
  <2>. QED BY <2>1, <2>2
<1>. QED BY <1>1, <1>2, AccountMoves DEF LineAccounted

LEMMA GiveBackAccounted ==
  ASSUME StockTyped, StockTyped', heldRow \in [Orders -> BOOLEAN], heldRow' = heldRow,
         NoPhantomReservation, NEW o \in Orders, NEW ded \in BOOLEAN, NEW res \in BOOLEAN,
         GiveBack(o, ded, res)
  PROVE  LineAccounted(o)
<1>q. Qty[o] \in Nat /\ taken[o] \in Int /\ resF[o] \in BOOLEAN
  BY OrderStockAssumption DEF OrderStockAssumption, StockTyped
<1>1. \A p \in Orders \ {o} : resF'[p] = resF[p] /\ taken'[p] = taken[p]
  BY DEF GiveBack, StockTyped, stockVars
<1>2. reserved' - reserved <= Accounted(o)' - Accounted(o)
  <2>1. CASE ded
    <3>1. ReleaseIfHeld(Qty[o]) /\ ~resF'[o] /\ taken'[o] = taken[o] - Qty[o]
      BY <2>1 DEF GiveBack, StockTyped
    <3>2. reserved' <= reserved
      BY <3>1, <1>q DEF ReleaseIfHeld, StockTyped
    <3>. QED BY <3>1, <3>2, <1>q DEF Accounted, StockTyped
  <2>2. CASE ~ded /\ res
    <3>1. reserved' = reserved - Qty[o] /\ ~resF'[o] /\ taken'[o] = taken[o]
      BY <2>2 DEF GiveBack, ReleaseClaim, StockTyped
    <3>. QED BY <3>1, <1>q DEF Accounted, StockTyped
  <2>3. CASE ~ded /\ ~res
    BY <2>3, <1>q DEF GiveBack, Accounted, StockTyped, stockVars
  <2>. QED BY <2>1, <2>2, <2>3
<1>. QED BY <1>1, <1>2, AccountMoves DEF LineAccounted

LEMMA ReturnBackAccounted ==
  ASSUME StockTyped, StockTyped', heldRow \in [Orders -> BOOLEAN], heldRow' = heldRow,
         NoPhantomReservation, NEW o \in Orders, NEW ded \in BOOLEAN,
         ReturnBack(o, ded, resF[o], Qty[o])
  PROVE  LineAccounted(o)
<1>q. Qty[o] \in Nat /\ Qty[o] > 0 /\ taken[o] \in Int /\ resF[o] \in BOOLEAN
  BY OrderStockAssumption DEF OrderStockAssumption, StockTyped
<1>r. resF' = [resF EXCEPT ![o] = FALSE]
  BY DEF ReturnBack
<1>1. \A p \in Orders \ {o} : resF'[p] = resF[p] /\ taken'[p] = taken[p]
  BY <1>r DEF ReturnBack, StockTyped
<1>2. reserved' - reserved <= Accounted(o)' - Accounted(o)
  <2>1. CASE ded
    <3>1. ReleaseIfHeld(Qty[o]) /\ ~resF'[o] /\ taken'[o] = taken[o] - Qty[o]
      BY <2>1, <1>q, <1>r DEF ReturnBack, StockTyped
    <3>2. reserved' <= reserved
      BY <3>1, <1>q DEF ReleaseIfHeld, StockTyped
    <3>. QED BY <3>1, <3>2, <1>q DEF Accounted, StockTyped
  <2>2. CASE ~ded /\ resF[o]
    <3>1. reserved' = reserved - Qty[o] /\ ~resF'[o] /\ taken'[o] = taken[o]
      BY <2>2, <1>q, <1>r DEF ReturnBack, ReleaseClaim, StockTyped
    <3>. QED BY <3>1, <1>q DEF Accounted, StockTyped
  <2>3. CASE ~ded /\ ~resF[o]
    <3>1. reserved' = reserved /\ resF'[o] = resF[o] /\ taken'[o] = taken[o]
      BY <2>3, <1>r DEF ReturnBack, StockTyped
    <3>. QED BY <3>1, <1>q DEF Accounted, StockTyped
  <2>. QED BY <2>1, <2>2, <2>3
<1>. QED BY <1>1, <1>2, AccountMoves DEF LineAccounted

LEMMA LineWriteAccounted ==
  ASSUME StockTyped, StockTyped', OrderTyped, heldRow' = heldRow, NoPhantomReservation,
         NEW o \in Orders, NEW ded \in BOOLEAN,
         \/ ClaimLine(o, resF[o])
         \/ TakeLine(o, ded)
         \/ GiveBack(o, ded, resF[o])
         \/ ReturnBack(o, ded, resF[o], Qty[o])
         \/ UNCHANGED stockVars
  PROVE  LineAccounted(o)
<1>1. heldRow \in [Orders -> BOOLEAN] /\ resF[o] \in BOOLEAN
  BY DEF OrderTyped, StockTyped
<1>2. CASE UNCHANGED stockVars
  BY <1>2 DEF stockVars, LineAccounted, NoPhantomReservation, Accounted
<1>. QED BY <1>1, <1>2, ClaimLineAccounted, TakeLineAccounted, GiveBackAccounted, ReturnBackAccounted

-----------------------------------------------------------------------------
(* A handler moves on; the account stands still.                           *)
LEMMA ClaimMove ==
  ASSUME TypeInv, ClaimInv, NEW w \in Workers, NEW j, Start(w, j),
         UNCHANGED <<reserved, resF, taken, heldRow>>,
         JobInTx(j) /\ j.kind \notin {"board", "hold"} => j.res = resF[j.o],
         JobInTx(j) /\ j.pc = "apply" => ~heldRow[j.o]
  PROVE  ClaimInv'
<1>1. job'[w] = j /\ \A v \in Workers \ {w} : job'[v] = job[v]
  BY DEF Start, TypeInv, JobsTyped
<1>2. NoPhantomReservation'
  BY DEF ClaimInv, NoPhantomReservation, Accounted
<1>3. FreshClaim' /\ HeldOnce'
  <2>. SUFFICES ASSUME NEW v \in Workers, JobInTx(job'[v])
                PROVE  /\ job'[v].kind \notin {"board", "hold"}
                            => job'[v].res = resF'[job'[v].o]
                       /\ job'[v].pc = "apply" => ~heldRow'[job'[v].o]
    BY DEF FreshClaim, HeldOnce, JobInTx
  <2>1. CASE v = w
    BY <2>1, <1>1
  <2>2. CASE v # w
    BY <2>2, <1>1 DEF ClaimInv, FreshClaim, HeldOnce
  <2>. QED BY <2>1, <2>2
<1>. QED BY <1>2, <1>3 DEF ClaimInv

(* One order's line or hold is written; nobody else is in a transaction of *)
(* that order.                                                             *)
LEMMA ClaimWrite ==
  ASSUME TypeInv, ClaimInv, NEW w \in Workers, NEW o \in Orders, NEW j, Start(w, j),
         \A v \in Workers \ {w} : JobInTx(job[v]) => job[v].o # o,
         LineAccounted(o),
         \A p \in Orders \ {o} : heldRow'[p] = heldRow[p],
         JobInTx(j) /\ j.kind \notin {"board", "hold"} => j.res = resF'[j.o],
         JobInTx(j) => j.pc # "apply"
  PROVE  ClaimInv'
<1>1. job'[w] = j /\ \A v \in Workers \ {w} : job'[v] = job[v]
  BY DEF Start, TypeInv, JobsTyped
<1>2. FreshClaim' /\ HeldOnce'
  <2>. SUFFICES ASSUME NEW v \in Workers, JobInTx(job'[v])
                PROVE  /\ job'[v].kind \notin {"board", "hold"}
                            => job'[v].res = resF'[job'[v].o]
                       /\ job'[v].pc = "apply" => ~heldRow'[job'[v].o]
    BY DEF FreshClaim, HeldOnce, JobInTx
  <2>1. CASE v = w
    BY <2>1, <1>1
  <2>2. CASE v # w
    <3>1. job'[v] = job[v] /\ job[v].o \in Orders \ {o}
      BY <2>2, <1>1, BusyIsGood DEF TypeInv, JobInTx, GoodJobs, Jobs
    <3>2. resF'[job[v].o] = resF[job[v].o] /\ heldRow'[job[v].o] = heldRow[job[v].o]
      BY <3>1 DEF LineAccounted
    <3>. QED BY <3>1, <3>2 DEF ClaimInv, FreshClaim, HeldOnce
  <2>. QED BY <2>1, <2>2
<1>. QED BY <1>2 DEF ClaimInv, LineAccounted

-----------------------------------------------------------------------------
LEMMA FinishClaim ==
  ASSUME TypeInv, ClaimInv, NEW w \in Workers, Finish(w),
         UNCHANGED <<reserved, resF, taken, heldRow>>
  PROVE  ClaimInv'
<1>1. Start(w, NoJob) /\ ~JobInTx(NoJob)
  BY DEF Start, Finish, JobInTx
<1>. QED BY <1>1, ClaimMove

LEMMA StartHandlerClaim ==
  ASSUME TypeInv, ClaimInv, NEW w \in Workers, NEW o \in Orders, StartHandler(w, o)
  PROVE  ClaimInv'
<1>1. UNCHANGED <<reserved, resF, taken, heldRow>>
  BY DEF StartHandler, CreateGate, StatusGate, CustomerCancelGate, TrashGate, RestoreGate,
         BoardGate, NewReturnGate, ReceiveGate, stockVars
<1>2. CASE \E kind, to, from, e : Start(w, NewJob(kind, o, to, from, e))
  <2>1. PICK kind, to, from, e : Start(w, NewJob(kind, o, to, from, e))
    BY <1>2
  <2>2. ~JobInTx(NewJob(kind, o, to, from, e))
    BY DEF NewJob, JobInTx, TxPhases
  <2>. QED BY <1>1, <2>1, <2>2, ClaimMove
<1>3. ASSUME NEW type \in {"FULL", "PARTIAL"}, NEW n \in 1..Qty[o], NEW mark \in BOOLEAN,
             NewReturnGate(w, o, type, n, mark)
      PROVE  ClaimInv'
  <2> DEFINE j == [NewJob("newReturn", o, type, "None", mark) EXCEPT !.n = n]
  <2>1. Start(w, j) /\ ~JobInTx(j)
    BY <1>3 DEF NewReturnGate, NewJob, JobInTx, TxPhases
  <2> HIDE DEF j
  <2>. QED BY <1>1, <2>1, ClaimMove
<1>4. ASSUME NEW i \in 1..MaxReturns, NEW n \in 0..Qty[o], ReceiveGate(w, o, i, n)
      PROVE  ClaimInv'
  <2>1. CASE rets[o][i].rec
    BY <1>2, <1>4, <2>1 DEF ReceiveGate
  <2>2. CASE ~rets[o][i].rec
    <3> DEFINE j == [NewJob("receive", o, rets[o][i].type, "None", FALSE)
                       EXCEPT !.row = i, !.n = n]
    <3>1. Start(w, j)
      BY <1>4, <2>2 DEF ReceiveGate
    <3>2. ~JobInTx(j)
      BY DEF NewJob, JobInTx, TxPhases
    <3> HIDE DEF j
    <3>. QED BY <1>1, <3>1, <3>2, ClaimMove
  <2>. QED BY <2>1, <2>2
<1>5. CASE \/ CreateGate(w, o) \/ CustomerCancelGate(w, o) \/ TrashGate(w, o)
           \/ RestoreGate(w, o)
           \/ \E to \in StatusTargets[o], a \in BOOLEAN : StatusGate(w, o, to, a)
           \/ \E to \in BoardTargets, a \in BOOLEAN : BoardGate(w, o, to, a)
  BY <1>2, <1>5 DEF CreateGate, StatusGate, CustomerCancelGate, TrashGate, RestoreGate, BoardGate
<1>. QED BY <1>3, <1>4, <1>5 DEF StartHandler

LEMMA CreateCommitClaim ==
  ASSUME TypeInv, TypeInv', BornInv, ClaimInv, NEW w \in Workers, CreateCommit(w)
  PROVE  ClaimInv'
<1> DEFINE o == job[w].o
<1>1. o \in Orders /\ job[w] # NoJob /\ job[w].kind = "create"
  BY RunningIsGood DEF TypeInv, CreateCommit, Running
<1>2. resF[o] = FALSE
  BY <1>1 DEF BornInv, CreatesUnborn, Unborn, TypeInv, StockTyped
<1>3. ClaimLine(o, resF[o]) /\ heldRow' = heldRow
  BY <1>2 DEF CreateCommit
<1>4. LineAccounted(o)
  BY <1>1, <1>3, LineWriteAccounted DEF TypeInv, ClaimInv
<1>5. \A v \in Workers \ {w} : JobInTx(job[v]) => job[v].o # o
  BY <1>1 DEF BornInv, CreatesAlone, JobInTx
<1>6. Start(w, NoJob) /\ ~JobInTx(NoJob)
  BY DEF CreateCommit, Start, Finish, JobInTx
<1> HIDE DEF o
<1>. QED BY <1>1, <1>3, <1>4, <1>5, <1>6, ClaimWrite

(* A transaction opens and reads the flags of its line.                    *)
LEMMA BeginClaim ==
  ASSUME TypeInv, ClaimInv, NEW w \in Workers,
         OrderBegin(w) \/ BoardBegin(w) \/ ReceiveBegin(w)
  PROVE  ClaimInv'
<1>u. UNCHANGED <<reserved, resF, taken, heldRow>>
  BY DEF OrderBegin, BoardBegin, ReceiveBegin, stockVars
<1>g. job[w] \in Jobs
  BY BusyIsGood DEF TypeInv, GoodJobs, OrderBegin, BoardBegin, ReceiveBegin, Running
<1>1. CASE OrderBegin(w)
  <2> DEFINE p == IF HoldsStock(job[w]) THEN "hold" ELSE "tx"
             e == IF MarksReturned(job[w]) THEN CreatesReturn(job[w].o) ELSE job[w].extra
             j == [job[w] EXCEPT !.pc = p, !.ded = dedF[job[w].o],
                                 !.res = resF[job[w].o], !.extra = e]
  <2>1. Start(w, j)
    BY <1>1 DEF OrderBegin
  <2>2. p # "apply"
    OBVIOUS
  <2>3. j.o = job[w].o /\ j.res = resF[job[w].o] /\ j.pc # "apply"
    <3> HIDE DEF p, e
    <3>. QED BY <1>g, <2>2 DEF Jobs
  <2> HIDE DEF j
  <2>. QED BY <1>u, <2>1, <2>3, ClaimMove
<1>2. CASE ReceiveBegin(w)
  <2> DEFINE j == [job[w] EXCEPT !.pc = "tx", !.ded = dedF[job[w].o], !.res = resF[job[w].o]]
  <2>1. Start(w, j)
    BY <1>2 DEF ReceiveBegin
  <2>2. j.o = job[w].o /\ j.res = resF[job[w].o] /\ j.pc # "apply"
    BY <1>g DEF Jobs
  <2> HIDE DEF j
  <2>. QED BY <1>u, <2>1, <2>2, ClaimMove
<1>3. CASE BoardBegin(w)
  <2>1. CASE Finish(w)
    BY <2>1, <1>u, FinishClaim
  <2>2. CASE ~Finish(w)
    <3> DEFINE j == [job[w] EXCEPT !.pc = "tx", !.ded = dedF[job[w].o]]
    <3>1. Start(w, j)
      BY <1>3, <2>2 DEF BoardBegin
    <3>2. j.kind = "board" /\ j.pc # "apply"
      BY <1>3, <1>g DEF Jobs, BoardBegin, Running
    <3> HIDE DEF j
    <3>. QED BY <1>u, <3>1, <3>2, ClaimMove
  <2>. QED BY <2>1, <2>2
<1>. QED BY <1>1, <1>2, <1>3

(* What the steps of a hold leave of a job.                                *)
LEMMA MovedJob ==
  ASSUME NEW j \in Jobs, NEW pc
  PROVE  /\ [j EXCEPT !.pc = pc].o = j.o
         /\ [j EXCEPT !.pc = pc].kind = j.kind
         /\ [j EXCEPT !.pc = pc].res = j.res
         /\ [j EXCEPT !.pc = pc].pc = pc
BY DEF Jobs

LEMMA HoldGateClaim ==
  ASSUME TypeInv, ClaimInv, NEW w \in Workers, HoldGate(w) \/ HoldFails(w)
  PROVE  ClaimInv'
<1>u. UNCHANGED <<reserved, resF, taken, heldRow>>
  BY DEF HoldGate, HoldFails, stockVars
<1>g. job[w] # NoJob /\ job[w] \in Jobs /\ JobInTx(job[w])
  BY BusyIsGood DEF TypeInv, GoodJobs, HoldGate, HoldFails, InHold, JobInTx, TxPhases
<1>1. CASE Finish(w)
  BY <1>1, <1>u, FinishClaim
<1>2. CASE ~Finish(w)
  <2>1. PICK pc : /\ Start(w, [job[w] EXCEPT !.pc = pc])
                  /\ pc = "apply" => ~heldRow[job[w].o]
    BY <1>2 DEF HoldGate, HoldFails, AfterHold, HoldNeeded
  <2> DEFINE j == [job[w] EXCEPT !.pc = pc]
  <2>2. j.o = job[w].o /\ j.kind = job[w].kind /\ j.res = job[w].res /\ j.pc = pc
    BY <1>g, MovedJob
  <2>3. Start(w, j)
    BY <2>1
  <2> HIDE DEF j
  <2>4. j.kind \notin {"board", "hold"} => j.res = resF[j.o]
    BY <2>2, <1>g DEF ClaimInv, FreshClaim
  <2>. QED BY <2>1, <2>2, <2>3, <2>4, <1>u, ClaimMove
<1>. QED BY <1>1, <1>2

LEMMA HoldApplyClaim ==
  ASSUME TypeInv, TypeInv', LedgerInv, ClaimInv, NEW w \in Workers, HoldApply(w)
  PROVE  ClaimInv'
<1>j. job[w] # NoJob /\ job[w] \in Jobs /\ JobInTx(job[w]) /\ job[w].o \in Orders
  BY BusyIsGood DEF TypeInv, GoodJobs, HoldApply, JobInTx, TxPhases, Jobs
<1>o. PICK o \in Orders : job[w].o = o
  BY <1>j
<1>g. job[w] # NoJob /\ job[w] \in Jobs /\ JobInTx(job[w]) /\ o \in Orders
  BY <1>j
<1>1. ~heldRow[o]
  BY <1>g, <1>o DEF ClaimInv, HeldOnce, HoldApply
<1>2. /\ reserved' = reserved + Qty[o]
      /\ heldRow' = [heldRow EXCEPT ![o] = TRUE]
      /\ UNCHANGED <<resF, taken>>
  BY <1>o DEF HoldApply
<1>t. heldRow \in [Orders -> BOOLEAN] /\ heldRow' \in [Orders -> BOOLEAN]
  BY DEF TypeInv, OrderTyped
<1>a. \A v \in Workers \ {w} : JobInTx(job[v]) => job[v].o # o
  BY <1>g, <1>o, AloneInTx
<1>3. LineAccounted(o)
  <2>q. Qty[o] \in Nat /\ taken[o] \in Int /\ resF[o] \in BOOLEAN /\ reserved \in Int
    BY <1>g, OrderStockAssumption DEF OrderStockAssumption, TypeInv, StockTyped
  <2>1. heldRow'[o] = TRUE /\ \A p \in Orders \ {o} : heldRow'[p] = heldRow[p]
    BY <1>g, <1>2, <1>t
  <2>2. resF'[o] = resF[o] /\ taken'[o] = taken[o]
    BY <1>2
  <2>3. reserved' - reserved <= Accounted(o)' - Accounted(o)
    BY <2>q, <2>1, <2>2, <1>1, <1>2 DEF Accounted
  <2>4. NoPhantomReservation'
    BY <2>1, <2>3, <1>2, <1>t, <1>g, AccountMoves DEF TypeInv, ClaimInv
  <2>. QED BY <2>4, <1>2 DEF LineAccounted
<1>4. \A p \in Orders \ {o} : heldRow'[p] = heldRow[p]
  BY <1>2, <1>t
<1>5. CASE Finish(w)
  <2>1. Start(w, NoJob) /\ ~JobInTx(NoJob)
    BY <1>5 DEF Start, Finish, JobInTx
  <2>. QED BY <2>1, <1>g, <1>a, <1>3, <1>4, ClaimWrite
<1>6. CASE ~Finish(w)
  <2> DEFINE j == [job[w] EXCEPT !.pc = "tx"]
  <2>1. Start(w, j)
    BY <1>6 DEF HoldApply, AfterHold
  <2>2. j.o = o /\ j.kind = job[w].kind /\ j.res = job[w].res /\ j.pc = "tx"
    BY <1>g, <1>o, MovedJob
  <2> HIDE DEF j
  <2>3. j.kind \notin {"board", "hold"} => j.res = resF'[j.o]
    BY <2>2, <1>g, <1>o, <1>2 DEF ClaimInv, FreshClaim
  <2>. QED BY <2>1, <2>2, <2>3, <1>g, <1>a, <1>3, <1>4, ClaimWrite
<1>. QED BY <1>5, <1>6

(* A commit of the stock services.                                         *)
LEMMA CommitClaim ==
  ASSUME TypeInv, TypeInv', LedgerInv, ClaimInv, NEW w \in Workers,
         \/ StatusCommit(w) \/ CustomerCancelCommit(w) \/ TrashCommit(w)
         \/ RestoreCommit(w) \/ BoardCommit(w) \/ SyncCommit(w) \/ ReceiveCommit(w)
  PROVE  ClaimInv'
<1> DEFINE o == job[w].o
<1>k. PICK kind \in {"status", "customer", "trash", "restore", "board", "sync", "receive"} :
        Running(w, kind, "tx")
  BY DEF StatusCommit, CustomerCancelCommit, TrashCommit, RestoreCommit, BoardCommit,
         SyncCommit, ReceiveCommit
<1>j. /\ JobInTx(job[w]) /\ o \in Orders /\ job[w].ded \in BOOLEAN
      /\ job[w].kind = kind
      /\ kind # "board" => job[w].res = resF[o]
      /\ kind = "receive" => job[w].n = Qty[o]
  <2>1. JobInTx(job[w]) /\ o \in Orders /\ job[w].kind = kind /\ job[w].ded \in BOOLEAN
    BY <1>k, RunningIsGood, CommitJob DEF TypeInv
  <2>2. kind = "receive" => job[w].n = Qty[o]
    BY <1>k, <2>1, CommitJob
  <2>. QED BY <2>1, <2>2 DEF ClaimInv, FreshClaim
<1>1. \/ ClaimLine(o, resF[o])
      \/ TakeLine(o, job[w].ded)
      \/ GiveBack(o, job[w].ded, resF[o])
      \/ ReturnBack(o, job[w].ded, resF[o], Qty[o])
      \/ UNCHANGED stockVars
  <2>1. CASE StatusCommit(w)
    BY <2>1, <1>j DEF StatusCommit, Running
  <2>2. CASE CustomerCancelCommit(w) \/ TrashCommit(w) \/ RestoreCommit(w)
    BY <2>2, <1>j DEF CustomerCancelCommit, TrashCommit, RestoreCommit, Running
  <2>3. CASE BoardCommit(w) \/ SyncCommit(w)
    BY <2>3, <1>j DEF BoardCommit, SyncCommit, Running
  <2>4. CASE ReceiveCommit(w)
    BY <2>4, <1>j DEF ReceiveCommit, Running
  <2>. QED BY <2>1, <2>2, <2>3, <2>4
<1>h. heldRow' = heldRow
  BY DEF StatusCommit, CustomerCancelCommit, TrashCommit, RestoreCommit, BoardCommit,
         SyncCommit, ReceiveCommit
<1>2. LineAccounted(o)
  <2> HIDE DEF o
  <2>. QED BY <1>1, <1>j, <1>h, LineWriteAccounted DEF TypeInv, ClaimInv
<1>a. \A v \in Workers \ {w} : JobInTx(job[v]) => job[v].o # o
  BY <1>j, AloneInTx
<1>3. PICK j : Start(w, j) /\ (JobInTx(j) => j.kind = "hold" /\ j.pc # "apply")
  <2>1. CASE Finish(w)
    BY <2>1, NoJobQuiet DEF Finish, Start
  <2>2. CASE ~Finish(w)
    <3>1. \/ Start(w, [NewJob("sync", o, SyncTarget[job[w].to], "None", job[w].extra)
                         EXCEPT !.pc = "read"])
          \/ Start(w, [NewJob("hold", o, "None", "None", FALSE) EXCEPT !.pc = "hold"])
          \/ Start(w, NewJob("mirror", o, job[w].to, "None", FALSE))
      BY <2>2 DEF StatusCommit, CustomerCancelCommit, TrashCommit, RestoreCommit,
         BoardCommit, SyncCommit, ReceiveCommit
    <3>2. CASE Start(w, [NewJob("sync", o, SyncTarget[job[w].to], "None", job[w].extra)
                           EXCEPT !.pc = "read"])
      BY <3>2 DEF NewJob, JobInTx, TxPhases
    <3>3. CASE Start(w, [NewJob("hold", o, "None", "None", FALSE) EXCEPT !.pc = "hold"])
      BY <3>3 DEF NewJob
    <3>4. CASE Start(w, NewJob("mirror", o, job[w].to, "None", FALSE))
      BY <3>4 DEF NewJob, JobInTx, TxPhases
    <3>. QED BY <3>1, <3>2, <3>3, <3>4
  <2>. QED BY <2>1, <2>2
<1> HIDE DEF o
<1>. QED BY <1>j, <1>h, <1>2, <1>a, <1>3, ClaimWrite

LEMMA OtherClaim ==
  ASSUME TypeInv, ClaimInv, NEW w \in Workers,
         SyncGate(w) \/ NewReturnCommit(w) \/ MirrorDispatch(w) \/ Abort(w)
  PROVE  ClaimInv'
<1>u. UNCHANGED <<reserved, resF, taken, heldRow>>
  BY DEF SyncGate, NewReturnCommit, MirrorDispatch, Abort, stockVars
<1>1. CASE Finish(w)
  BY <1>1, <1>u, FinishClaim
<1>2. CASE ~Finish(w)
  <2>1. Start(w, [job[w] EXCEPT !.pc = "gate"]) /\ job[w] \in Jobs
    BY <1>2, BusyIsGood DEF SyncGate, NewReturnCommit, MirrorDispatch, Abort, Running,
       TypeInv, GoodJobs
  <2>2. ~JobInTx([job[w] EXCEPT !.pc = "gate"])
    BY <2>1 DEF Jobs, JobInTx, TxPhases
  <2>. QED BY <2>1, <2>2, <1>u, ClaimMove
<1>. QED BY <1>1, <1>2

LEMMA InitClaim == Init => ClaimInv
<1>. SUFFICES ASSUME Init PROVE ClaimInv
  OBVIOUS
<1>1. IsFiniteSet(Orders) /\ [o \in Orders |-> Accounted(o)] = [o \in Orders |-> 0]
  BY OrderStockAssumption DEF OrderStockAssumption, Init, Accounted
<1>2. SumFunction([o \in Orders |-> Accounted(o)]) = 0
  BY <1>1, TotalZero
<1>. QED BY <1>2 DEF Init, ClaimInv, NoPhantomReservation, FreshClaim, HeldOnce, JobInTx

LEMMA StepClaim ==
  TypeInv /\ TypeInv' /\ LedgerInv /\ BornInv /\ ClaimInv /\ [Next]_vars => ClaimInv'
<1>. SUFFICES ASSUME TypeInv, TypeInv', LedgerInv, BornInv, ClaimInv, [Next]_vars
              PROVE  ClaimInv'
  OBVIOUS
<1>1. ASSUME NEW w \in Workers, Advance(w) PROVE ClaimInv'
  BY <1>1, CreateCommitClaim, BeginClaim, HoldGateClaim, HoldApplyClaim, CommitClaim,
     OtherClaim DEF Advance
<1>2. ASSUME NEW o \in Orders,
             BookCourier(o) \/ (\E i \in 1..MaxReturns : CloseReturn(o, i))
      PROVE  ClaimInv'
  BY <1>2 DEF BookCourier, CloseReturn, stockVars, ClaimInv, NoPhantomReservation, Accounted,
              FreshClaim, HeldOnce
<1>3. CASE UNCHANGED vars
  BY <1>3 DEF vars, stockVars, ClaimInv, NoPhantomReservation, Accounted, FreshClaim, HeldOnce
<1>. QED BY <1>1, <1>2, <1>3, StartHandlerClaim DEF Next

(* However many orders of whatever sizes share the product, and whatever   *)
(* handlers race, roll back or are tried again, no unit is withheld from   *)
(* sale that no line put there: a line is claimed once                     *)
(* (resolveAndApplyStock) and held once (holdReservationForReturnPending), *)
(* and a deduction takes its units out of the counter (deductForOrder).    *)
THEOREM ReservationsAccounted ==
  ASSUME WholeAndApart
  PROVE  Spec => []NoPhantomReservation
<1>1. ClaimInv => NoPhantomReservation
  BY DEF ClaimInv
<1>2. TypeInv /\ LedgerInv /\ [Next]_vars => LedgerInv'
  BY StepLedger
<1>. QED BY InitTyped, StepTyped, InitLedger, InitBorn, StepBorn, InitClaim, StepClaim,
            <1>1, <1>2, PTL DEF Spec

-----------------------------------------------------------------------------
(***************************************************************************)
(* Live orders.  Whether a handler verifies the claim it moves an order to *)
(* was decided at its gate; the invariant says that the decision, and the  *)
(* flag its transaction read, are still right at every later step.         *)
(***************************************************************************)

Serial == Overlap = "serial"

(* One handler of an order at a time.                                      *)
OneHandler ==
  \A v, w \in Workers :
    v # w /\ job[v] # NoJob /\ job[w] # NoJob => job[v].o # job[w].o

Claimed(s, gone, rows, res) ==
  s \in AwaitsGoods /\ ~gone /\ rows = <<>> => res

LiveClaimed == \A o \in Orders : Claimed(status[o], trashed[o], rets[o], resF[o])

(* What a handler decided at its gate is still right, whatever step it is  *)
(* at: s, rows and res are the status, the returns and the flag of its     *)
(* order now.                                                              *)
GateHolds(j, s, rows, res) ==
  j # NoJob =>
    /\ j.kind = "status" /\ j.to \in AwaitsGoods => s \in AwaitsGoods \/ Verifies(j)
    /\ j.kind = "restore" /\ s \in AwaitsGoods => j.extra
    /\ j.kind = "sync" => j.to \notin AwaitsGoods
    /\ j.kind = "receive" => rows # <<>>
    /\ JobInTx(j) /\ j.kind \notin {"board", "hold"} => j.res = res

GatesHold ==
  \A w \in Workers :
    GateHolds(job[w], status[job[w].o], rets[job[w].o], resF[job[w].o])

LiveInv == OneHandler /\ LiveClaimed /\ GatesHold

LEMMA HandlerStep ==
  ASSUME TypeInv, LiveInv, NEW w \in Workers, NEW o \in Orders,
         \A v \in Workers \ {w} : job[v] # NoJob => job[v].o # o,
         \A p \in Orders \ {o} :
           /\ status'[p] = status[p] /\ trashed'[p] = trashed[p]
           /\ rets'[p] = rets[p] /\ resF'[p] = resF[p],
         Claimed(status'[o], trashed'[o], rets'[o], resF'[o]),
         NEW j, Start(w, j), j # NoJob => j.o = o,
         GateHolds(j, status'[o], rets'[o], resF'[o])
  PROVE  LiveInv'
<1>1. job'[w] = j /\ \A v \in Workers \ {w} : job'[v] = job[v]
  BY DEF Start, TypeInv, JobsTyped
<1>2. \A v \in Workers \ {w} : job[v] # NoJob => job[v].o \in Orders \ {o}
  BY BusyIsGood DEF TypeInv, GoodJobs, Jobs
<1>3. OneHandler'
  <2>. SUFFICES ASSUME NEW v \in Workers, NEW u \in Workers, v # u, job'[v] # NoJob,
                       job'[u] # NoJob
                PROVE  job'[v].o # job'[u].o
    BY DEF OneHandler
  <2>1. CASE v = w
    BY <2>1, <1>1, <1>2
  <2>2. CASE u = w
    BY <2>2, <1>1, <1>2
  <2>3. CASE v # w /\ u # w
    BY <2>3, <1>1 DEF LiveInv, OneHandler
  <2>. QED BY <2>1, <2>2, <2>3
<1>4. LiveClaimed'
  BY DEF LiveInv, LiveClaimed, Claimed
<1>5. GatesHold'
  <2>. SUFFICES ASSUME NEW v \in Workers
                PROVE  GateHolds(job'[v], status'[job'[v].o], rets'[job'[v].o], resF'[job'[v].o])
    BY DEF GatesHold, GateHolds, Verifies, JobInTx
  <2>1. CASE job'[v] = NoJob
    BY <2>1 DEF GateHolds
  <2>2. CASE v = w /\ job'[v] # NoJob
    BY <2>2, <1>1
  <2>3. CASE v # w /\ job'[v] # NoJob
    <3>1. job'[v] = job[v] /\ job[v].o \in Orders \ {o}
      BY <2>3, <1>1, <1>2
    <3>2. GateHolds(job[v], status[job[v].o], rets[job[v].o], resF[job[v].o])
      BY DEF LiveInv, GatesHold
    <3>. QED BY <3>1, <3>2
  <2>. QED BY <2>1, <2>2, <2>3
<1>. QED BY <1>3, <1>4, <1>5 DEF LiveInv

(* The statuses of an order that awaits its goods are reached from each    *)
(* other, or by a revival of a cancelled order.                            *)
LEMMA AwaitsFrom ==
  ASSUME NEW s \in OrderStatuses, NEW t \in OrderNext[s], t \in AwaitsGoods
  PROVE  s \in AwaitsGoods \/ (s = "Cancelled" /\ t \in {"Hold", "Confirmed"})
BY DEF OrderNext, OrderStatuses, AwaitsGoods, GoodsAlreadyLeft, CallGroup

LEMMA SyncLeaves ==
  ASSUME NEW d \in DispatchStatuses
  PROVE  SyncTarget[d] \notin AwaitsGoods
BY DEF SyncTarget, DispatchStatuses, AwaitsGoods, GoodsAlreadyLeft, OrderStatuses

LEMMA StartHandlerLive ==
  ASSUME Serial, TypeInv, LiveInv, NEW w \in Workers, NEW o \in Orders, StartHandler(w, o)
  PROVE  LiveInv'
<1>u. UNCHANGED <<status, trashed, rets, resF>>
  BY DEF StartHandler, CreateGate, StatusGate, CustomerCancelGate, TrashGate, RestoreGate,
         BoardGate, NewReturnGate, ReceiveGate, stockVars, orderVars, parcelVars
<1>m. \A v \in Workers \ {w} : job[v] # NoJob => job[v].o # o
  BY DEF Serial, StartHandler, CreateGate, StatusGate, CustomerCancelGate, TrashGate, RestoreGate,
         BoardGate, NewReturnGate, ReceiveGate, MayStart, BusyOn
<1>c. Claimed(status'[o], trashed'[o], rets'[o], resF'[o])
  BY <1>u DEF LiveInv, LiveClaimed
<1>g. ASSUME NEW j, Start(w, j), j.o = o, GateHolds(j, status[o], rets[o], resF[o])
      PROVE  LiveInv'
  BY <1>g, <1>u, <1>m, <1>c, HandlerStep
<1>n. \A kind, to, from, e :
        /\ NewJob(kind, o, to, from, e).o = o
        /\ NewJob(kind, o, to, from, e).kind = kind
        /\ NewJob(kind, o, to, from, e).to = to
        /\ NewJob(kind, o, to, from, e).extra = e
        /\ ~JobInTx(NewJob(kind, o, to, from, e))
  BY DEF NewJob, JobInTx, TxPhases
<1>1. CASE \E kind \in {"create", "customer", "trash", "board", "mirror"} : \E to, from, e :
             Start(w, NewJob(kind, o, to, from, e))
  <2>1. PICK kind, to, from, e : /\ kind \in {"create", "customer", "trash", "board", "mirror"}
                                 /\ Start(w, NewJob(kind, o, to, from, e))
    BY <1>1
  <2> DEFINE j == NewJob(kind, o, to, from, e)
  <2>2. j.o = o /\ j.kind = kind /\ ~JobInTx(j)
    BY <1>n
  <2>3. Start(w, j)
    BY <2>1
  <2> HIDE DEF j
  <2>. QED BY <2>1, <2>2, <2>3, <1>g DEF GateHolds
<1>2. CASE CreateGate(w, o) \/ CustomerCancelGate(w, o) \/ TrashGate(w, o)
  BY <1>1, <1>2 DEF CreateGate, CustomerCancelGate, TrashGate
<1>3. ASSUME NEW to \in StatusTargets[o], NEW automated \in BOOLEAN,
             StatusGate(w, o, to, automated)
      PROVE  LiveInv'
  <2>1. PICK e \in BOOLEAN :
          /\ Start(w, NewJob("status", o, to, "None", e))
          /\ to = "Confirmed" \/ (to = "Hold" /\ status[o] \in {"Cancelled", "Confirmed"}) => e
    BY <1>3 DEF StatusGate
  <2> DEFINE j == NewJob("status", o, to, "None", e)
  <2>2. j.o = o /\ j.kind = "status" /\ j.to = to /\ j.extra = e /\ ~JobInTx(j)
    BY <1>n
  <2>4. to \in AwaitsGoods => status[o] \in AwaitsGoods \/ (e /\ to \in {"Hold", "Confirmed"})
    <3>1. status[o] \in OrderStatuses /\ to \in OrderNext[status[o]]
      BY <1>3 DEF StatusGate, TypeInv, OrderTyped
    <3>. QED BY <3>1, <2>1, AwaitsFrom
  <2>5. Start(w, j)
    BY <2>1
  <2> HIDE DEF j
  <2>. QED BY <2>2, <2>4, <2>5, <1>g DEF GateHolds, Verifies
<1>4. CASE RestoreGate(w, o)
  <2> DEFINE e == status[o] \notin GoodsAlreadyLeft \cup {"Cancelled"}
             j == NewJob("restore", o, "None", "None", e)
  <2>1. Start(w, j)
    BY <1>4 DEF RestoreGate
  <2>2. status[o] \in AwaitsGoods => e
    BY DEF AwaitsGoods
  <2>3. j.o = o /\ j.kind = "restore" /\ j.extra = e /\ ~JobInTx(j)
    BY <1>n
  <2> HIDE DEF j, e
  <2>. QED BY <2>1, <2>2, <2>3, <1>g DEF GateHolds
<1>5. ASSUME NEW to \in BoardTargets, NEW automated \in BOOLEAN, BoardGate(w, o, to, automated)
      PROVE  LiveInv'
  BY <1>1, <1>5 DEF BoardGate
<1>6. ASSUME NEW type \in {"FULL", "PARTIAL"}, NEW n \in 1..Qty[o], NEW mark \in BOOLEAN,
             NewReturnGate(w, o, type, n, mark)
      PROVE  LiveInv'
  <2> DEFINE j == [NewJob("newReturn", o, type, "None", mark) EXCEPT !.n = n]
  <2>1. Start(w, j)
    BY <1>6 DEF NewReturnGate
  <2>2. j.o = o /\ j.kind = "newReturn" /\ ~JobInTx(j)
    BY DEF NewJob, JobInTx, TxPhases
  <2> HIDE DEF j
  <2>. QED BY <2>1, <2>2, <1>g DEF GateHolds
<1>7. ASSUME NEW i \in 1..MaxReturns, NEW n \in 0..Qty[o], ReceiveGate(w, o, i, n)
      PROVE  LiveInv'
  <2>1. CASE rets[o][i].rec
    BY <1>1, <1>7, <2>1 DEF ReceiveGate
  <2>2. CASE ~rets[o][i].rec
    <3> DEFINE j == [NewJob("receive", o, rets[o][i].type, "None", FALSE)
                       EXCEPT !.row = i, !.n = n]
    <3>1. Start(w, j) /\ rets[o] # <<>>
      BY <1>7, <2>2 DEF ReceiveGate
    <3>2. j.o = o /\ j.kind = "receive" /\ ~JobInTx(j)
      BY DEF NewJob, JobInTx, TxPhases
    <3> HIDE DEF j
    <3>. QED BY <3>1, <3>2, <1>g DEF GateHolds
  <2>. QED BY <2>1, <2>2
<1>. QED BY <1>2, <1>3, <1>4, <1>5, <1>6, <1>7 DEF StartHandler

-----------------------------------------------------------------------------
LEMMA AloneOnOrder ==
  ASSUME TypeInv, LiveInv, NEW w \in Workers, job[w] # NoJob
  PROVE  /\ job[w] \in GoodJobs /\ job[w] \in Jobs /\ job[w].o \in Orders
         /\ \A v \in Workers \ {w} : job[v] # NoJob => job[v].o # job[w].o
         /\ GateHolds(job[w], status[job[w].o], rets[job[w].o], resF[job[w].o])
         /\ Claimed(status[job[w].o], trashed[job[w].o], rets[job[w].o], resF[job[w].o])
<1>1. job[w] \in GoodJobs /\ job[w] \in Jobs /\ job[w].o \in Orders
  BY BusyIsGood DEF TypeInv, GoodJobs, Jobs
<1>. QED BY <1>1 DEF LiveInv, OneHandler, GatesHold, LiveClaimed

(* A step of w that leaves its order as it is.                             *)
LEMMA IdleLive ==
  ASSUME TypeInv, LiveInv, NEW w \in Workers, job[w] # NoJob,
         UNCHANGED <<status, trashed, rets, resF>>,
         NEW j, Start(w, j), j # NoJob => j.o = job[w].o,
         GateHolds(j, status[job[w].o], rets[job[w].o], resF[job[w].o])
  PROVE  LiveInv'
BY AloneOnOrder, HandlerStep

LEMMA FinishLive ==
  ASSUME TypeInv, LiveInv, NEW w \in Workers, job[w] # NoJob, Finish(w),
         UNCHANGED <<status, trashed, rets, resF>>
  PROVE  LiveInv'
<1>1. Start(w, NoJob)
  BY DEF Start, Finish
<1>. QED BY <1>1, IdleLive DEF GateHolds

(* The job goes on in another phase, out of the reach of its old snapshot. *)
LEMMA MovedLive ==
  ASSUME TypeInv, LiveInv, NEW w \in Workers, job[w] # NoJob,
         UNCHANGED <<status, trashed, rets, resF>>,
         NEW pc, Start(w, [job[w] EXCEPT !.pc = pc]),
         JobInTx(job[w]) \/ pc \notin TxPhases
  PROVE  LiveInv'
<1> DEFINE j == [job[w] EXCEPT !.pc = pc]
<1>1. job[w] \in Jobs
  BY AloneOnOrder
<1>2. /\ j.o = job[w].o /\ j.kind = job[w].kind /\ j.to = job[w].to
      /\ j.extra = job[w].extra /\ j.res = job[w].res /\ j.pc = pc
  BY <1>1 DEF Jobs
<1>3. GateHolds(job[w], status[job[w].o], rets[job[w].o], resF[job[w].o])
  BY AloneOnOrder
<1>4. Start(w, j)
  OBVIOUS
<1> HIDE DEF j
<1>5. GateHolds(j, status[job[w].o], rets[job[w].o], resF[job[w].o])
  BY <1>2, <1>3 DEF GateHolds, Verifies, JobInTx
<1>. QED BY <1>2, <1>4, <1>5, IdleLive

LEMMA BeginLive ==
  ASSUME TypeInv, LiveInv, NEW w \in Workers,
         OrderBegin(w) \/ BoardBegin(w) \/ ReceiveBegin(w)
  PROVE  LiveInv'
<1>u. UNCHANGED <<status, trashed, rets, resF>>
  BY DEF OrderBegin, BoardBegin, ReceiveBegin, stockVars, orderVars
<1>b. job[w] # NoJob
  BY DEF OrderBegin, BoardBegin, ReceiveBegin, Running
<1>g. /\ job[w] \in Jobs
      /\ GateHolds(job[w], status[job[w].o], rets[job[w].o], resF[job[w].o])
  BY <1>b, AloneOnOrder
<1>1. CASE OrderBegin(w)
  <2> DEFINE p == IF HoldsStock(job[w]) THEN "hold" ELSE "tx"
             e == IF MarksReturned(job[w]) THEN CreatesReturn(job[w].o) ELSE job[w].extra
             j == [job[w] EXCEPT !.pc = p, !.ded = dedF[job[w].o],
                                 !.res = resF[job[w].o], !.extra = e]
  <2>1. Start(w, j)
    BY <1>1 DEF OrderBegin
  <2>2. /\ j.o = job[w].o /\ j.kind = job[w].kind /\ j.to = job[w].to
        /\ j.extra = e /\ j.res = resF[job[w].o]
    <3> HIDE DEF p, e
    <3>. QED BY <1>g DEF Jobs
  <2>3. e = job[w].extra \/ (job[w].kind = "status" /\ job[w].to = "Returned")
    BY DEF MarksReturned
  <2>4. "Returned" \notin AwaitsGoods
    BY DEF AwaitsGoods, GoodsAlreadyLeft
  <2> HIDE DEF j, e
  <2>5. GateHolds(j, status[job[w].o], rets[job[w].o], resF[job[w].o])
    BY <2>2, <2>3, <2>4, <1>g, <1>b DEF GateHolds, Verifies
  <2>. QED BY <1>u, <1>b, <2>1, <2>2, <2>5, IdleLive
<1>2. CASE ReceiveBegin(w)
  <2> DEFINE j == [job[w] EXCEPT !.pc = "tx", !.ded = dedF[job[w].o], !.res = resF[job[w].o]]
  <2>1. Start(w, j)
    BY <1>2 DEF ReceiveBegin
  <2>2. /\ j.o = job[w].o /\ j.kind = job[w].kind /\ j.to = job[w].to
        /\ j.extra = job[w].extra /\ j.res = resF[job[w].o]
    BY <1>g DEF Jobs
  <2> HIDE DEF j
  <2>3. GateHolds(j, status[job[w].o], rets[job[w].o], resF[job[w].o])
    BY <2>2, <1>g, <1>b DEF GateHolds, Verifies
  <2>. QED BY <1>u, <1>b, <2>1, <2>2, <2>3, IdleLive
<1>3. CASE BoardBegin(w)
  <2>1. CASE Finish(w)
    BY <2>1, <1>b, <1>u, FinishLive
  <2>2. CASE ~Finish(w)
    <3> DEFINE j == [job[w] EXCEPT !.pc = "tx", !.ded = dedF[job[w].o]]
    <3>1. Start(w, j)
      BY <1>3, <2>2 DEF BoardBegin
    <3>2. j.o = job[w].o /\ j.kind = "board"
      BY <1>3, <1>g DEF Jobs, BoardBegin, Running
    <3> HIDE DEF j
    <3>3. GateHolds(j, status[job[w].o], rets[job[w].o], resF[job[w].o])
      BY <3>2 DEF GateHolds
    <3>. QED BY <1>u, <1>b, <3>1, <3>2, <3>3, IdleLive
  <2>. QED BY <2>1, <2>2
<1>. QED BY <1>1, <1>2, <1>3

LEMMA HoldLive ==
  ASSUME TypeInv, LiveInv, NEW w \in Workers,
         HoldGate(w) \/ HoldApply(w) \/ HoldFails(w)
  PROVE  LiveInv'
<1>u. UNCHANGED <<status, trashed, rets, resF>>
  BY DEF HoldGate, HoldApply, HoldFails, stockVars, orderVars
<1>b. job[w] # NoJob /\ JobInTx(job[w])
  BY DEF HoldGate, HoldApply, HoldFails, InHold, JobInTx, TxPhases
<1>1. CASE Finish(w)
  BY <1>1, <1>b, <1>u, FinishLive
<1>2. CASE ~Finish(w)
  <2>1. PICK pc : Start(w, [job[w] EXCEPT !.pc = pc])
    BY <1>2 DEF HoldGate, HoldApply, HoldFails, AfterHold
  <2>. QED BY <2>1, <1>b, <1>u, MovedLive
<1>. QED BY <1>1, <1>2

LEMMA OtherLive ==
  ASSUME TypeInv, LiveInv, NEW w \in Workers,
         SyncGate(w) \/ MirrorDispatch(w) \/ Abort(w)
  PROVE  LiveInv'
<1>u. UNCHANGED <<status, trashed, rets, resF>>
  BY DEF SyncGate, MirrorDispatch, Abort, stockVars, orderVars
<1>b. job[w] # NoJob
  BY DEF SyncGate, MirrorDispatch, Abort, Running
<1>1. CASE Finish(w)
  BY <1>1, <1>b, <1>u, FinishLive
<1>2. CASE ~Finish(w)
  <2>1. Start(w, [job[w] EXCEPT !.pc = "gate"])
    BY <1>2 DEF SyncGate, MirrorDispatch, Abort
  <2>2. "gate" \notin TxPhases
    BY DEF TxPhases
  <2>. QED BY <2>1, <2>2, <1>b, <1>u, MovedLive
<1>. QED BY <1>1, <1>2

-----------------------------------------------------------------------------
(* The commits: what they leave of the order they work on.                 *)

LEMMA CreateCommitLive ==
  ASSUME TypeInv, LiveInv, NEW w \in Workers, CreateCommit(w)
  PROVE  LiveInv'
<1>b. job[w] # NoJob
  BY DEF CreateCommit, Running
<1>o. PICK o \in Orders : o = job[w].o
  BY <1>b, AloneOnOrder
<1>1. /\ status' = [status EXCEPT ![o] = "Pending"] /\ UNCHANGED <<trashed, rets>>
      /\ resF' = [resF EXCEPT ![o] = TRUE] /\ Start(w, NoJob)
  BY <1>o DEF CreateCommit, ClaimLine, Finish, Start
<1>2. resF'[o] /\ \A p \in Orders \ {o} : status'[p] = status[p] /\ resF'[p] = resF[p]
  BY <1>1 DEF TypeInv, OrderTyped, StockTyped
<1>3. Claimed(status'[o], trashed'[o], rets'[o], resF'[o])
  BY <1>2 DEF Claimed
<1>4. \A v \in Workers \ {w} : job[v] # NoJob => job[v].o # o
  BY <1>b, <1>o, AloneOnOrder
<1>. QED BY <1>1, <1>2, <1>3, <1>4, HandlerStep DEF GateHolds

LEMMA StatusCommitLive ==
  ASSUME TypeInv, LiveInv, NEW w \in Workers, StatusCommit(w)
  PROVE  LiveInv'
<1>b. job[w] # NoJob /\ job[w].kind = "status" /\ JobInTx(job[w])
  BY DEF StatusCommit, Running, JobInTx, TxPhases
<1>o. PICK o \in Orders : o = job[w].o
  BY <1>b, AloneOnOrder
<1>a. /\ \A v \in Workers \ {w} : job[v] # NoJob => job[v].o # o
      /\ GateHolds(job[w], status[o], rets[o], resF[o])
      /\ Claimed(status[o], trashed[o], rets[o], resF[o])
  BY <1>b, <1>o, AloneOnOrder
<1>1. /\ status' = [status EXCEPT ![o] = job[w].to] /\ UNCHANGED trashed /\ Start(w, NoJob)
  BY <1>o DEF StatusCommit, Finish, Start
<1>2. \A p \in Orders \ {o} : status'[p] = status[p] /\ rets'[p] = rets[p] /\ resF'[p] = resF[p]
  <2>1. \A p \in Orders \ {o} : status'[p] = status[p] /\ rets'[p] = rets[p]
    BY <1>o, <1>1 DEF StatusCommit, TypeInv, OrderTyped
  <2>2. \A p \in Orders \ {o} : resF'[p] = resF[p]
    BY <1>o DEF StatusCommit, ClaimLine, TakeLine, GiveBack, ReturnBack, stockVars,
       TypeInv, StockTyped
  <2>. QED BY <2>1, <2>2
<1>3. Claimed(status'[o], trashed'[o], rets'[o], resF'[o])
  <2>1. CASE job[w].to \notin AwaitsGoods
    BY <2>1, <1>1 DEF Claimed, TypeInv, OrderTyped
  <2>2. CASE job[w].to \in AwaitsGoods /\ Verifies(job[w])
    <3>0. job[w].to \notin {"Cancelled", "Delivered", "Returned"}
      BY <2>2, <1>b DEF Verifies
    <3>1. ClaimLine(job[w].o, job[w].res)
      BY <2>2, <3>0 DEF StatusCommit, MarksReturned
    <3>2. job[w].res = resF[o]
      BY <2>2, <1>a, <1>b DEF GateHolds
    <3>3. resF'[o]
      BY <3>1, <3>2, <1>o DEF ClaimLine, TypeInv, StockTyped
    <3>. QED BY <3>3 DEF Claimed
  <2>3. CASE job[w].to \in AwaitsGoods /\ ~Verifies(job[w])
    <3>1. job[w].to \notin {"Cancelled", "Delivered", "Returned"}
      BY <2>3 DEF AwaitsGoods, GoodsAlreadyLeft
    <3>2. UNCHANGED stockVars /\ UNCHANGED rets
      BY <2>3, <3>1 DEF StatusCommit, MarksReturned
    <3>3. status[o] \in AwaitsGoods
      BY <2>3, <1>b, <1>a DEF GateHolds
    <3>. QED BY <3>2, <3>3, <1>1, <1>a DEF Claimed, stockVars
  <2>. QED BY <2>1, <2>2, <2>3
<1>. QED BY <1>a, <1>1, <1>2, <1>3, HandlerStep DEF GateHolds

LEMMA OrderRowCommitLive ==
  ASSUME TypeInv, LiveInv, NEW w \in Workers,
         CustomerCancelCommit(w) \/ TrashCommit(w) \/ RestoreCommit(w)
  PROVE  LiveInv'
<1>b. job[w] # NoJob /\ JobInTx(job[w])
  BY DEF CustomerCancelCommit, TrashCommit, RestoreCommit, Running, JobInTx, TxPhases
<1>o. PICK o \in Orders : o = job[w].o
  BY <1>b, AloneOnOrder
<1>a. /\ \A v \in Workers \ {w} : job[v] # NoJob => job[v].o # o
      /\ GateHolds(job[w], status[o], rets[o], resF[o])
      /\ Claimed(status[o], trashed[o], rets[o], resF[o])
  BY <1>b, <1>o, AloneOnOrder
<1>1. UNCHANGED rets /\ Start(w, NoJob)
  BY DEF CustomerCancelCommit, TrashCommit, RestoreCommit, Finish, Start
<1>2. \A p \in Orders \ {o} :
        status'[p] = status[p] /\ trashed'[p] = trashed[p] /\ resF'[p] = resF[p]
  <2>1. \A p \in Orders \ {o} : status'[p] = status[p] /\ trashed'[p] = trashed[p]
    BY <1>o DEF CustomerCancelCommit, TrashCommit, RestoreCommit, TypeInv, OrderTyped
  <2>2. \A p \in Orders \ {o} : resF'[p] = resF[p]
    BY <1>o DEF CustomerCancelCommit, TrashCommit, RestoreCommit, ClaimLine, GiveBack, stockVars,
       TypeInv, StockTyped
  <2>. QED BY <2>1, <2>2
<1>3. Claimed(status'[o], trashed'[o], rets'[o], resF'[o])
  <2>1. CASE CustomerCancelCommit(w)
    <3>1. status'[o] = "Cancelled"
      BY <2>1, <1>o DEF CustomerCancelCommit, TypeInv, OrderTyped
    <3>. QED BY <3>1 DEF Claimed, AwaitsGoods
  <2>2. CASE TrashCommit(w)
    <3>1. trashed'[o] = TRUE
      BY <2>2, <1>o DEF TrashCommit, TypeInv, OrderTyped
    <3>. QED BY <3>1 DEF Claimed
  <2>3. CASE RestoreCommit(w)
    <3>1. status'[o] = status[o] /\ job[w].kind = "restore"
      BY <2>3 DEF RestoreCommit, Running
    <3>2. CASE status[o] \notin AwaitsGoods
      BY <3>1, <3>2 DEF Claimed
    <3>3. CASE status[o] \in AwaitsGoods
      <4>1. ClaimLine(o, resF[o])
        BY <2>3, <3>1, <3>3, <1>a, <1>b, <1>o DEF RestoreCommit, GateHolds
      <4>2. resF'[o]
        BY <4>1 DEF ClaimLine, TypeInv, StockTyped
      <4>. QED BY <4>2 DEF Claimed
    <3>. QED BY <3>2, <3>3
  <2>. QED BY <2>1, <2>2, <2>3
<1>. QED BY <1>a, <1>1, <1>2, <1>3, HandlerStep DEF GateHolds

LEMMA BoardCommitLive ==
  ASSUME TypeInv, LiveInv, NEW w \in Workers, BoardCommit(w)
  PROVE  LiveInv'
<1>b. job[w] # NoJob /\ job[w].kind = "board"
  BY DEF BoardCommit, Running
<1>u. UNCHANGED <<status, trashed, rets, resF>>
  BY DEF BoardCommit, TakeLine, stockVars, orderVars
<1>1. CASE Finish(w)
  BY <1>1, <1>b, <1>u, FinishLive
<1>2. CASE ~Finish(w)
  <2> DEFINE t == SyncTarget[job[w].to]
             j == [NewJob("sync", job[w].o, t, "None", job[w].extra) EXCEPT !.pc = "read"]
  <2>1. Start(w, j)
    BY <1>2 DEF BoardCommit
  <2>2. t \notin AwaitsGoods
    BY <1>b, AloneOnOrder, SyncLeaves DEF GoodJobs
  <2>3. j.o = job[w].o /\ j.kind = "sync" /\ j.to = t /\ ~JobInTx(j)
    BY DEF NewJob, JobInTx, TxPhases
  <2> HIDE DEF j, t
  <2>4. GateHolds(j, status[job[w].o], rets[job[w].o], resF[job[w].o])
    BY <2>2, <2>3 DEF GateHolds
  <2>. QED BY <1>u, <1>b, <2>1, <2>3, <2>4, IdleLive
<1>. QED BY <1>1, <1>2

LEMMA SyncCommitLive ==
  ASSUME TypeInv, LiveInv, NEW w \in Workers, SyncCommit(w)
  PROVE  LiveInv'
<1>b. job[w] # NoJob /\ job[w].kind = "sync"
  BY DEF SyncCommit, Running
<1>o. PICK o \in Orders : o = job[w].o
  BY <1>b, AloneOnOrder
<1>a. /\ \A v \in Workers \ {w} : job[v] # NoJob => job[v].o # o
      /\ job[w].to \notin AwaitsGoods
  BY <1>b, <1>o, AloneOnOrder DEF GateHolds
<1>1. status' = [status EXCEPT ![o] = job[w].to] /\ UNCHANGED <<trashed, rets>>
  BY <1>o DEF SyncCommit
<1>2. \A p \in Orders \ {o} : status'[p] = status[p] /\ resF'[p] = resF[p]
  BY <1>o DEF SyncCommit, GiveBack, stockVars, TypeInv, OrderTyped, StockTyped
<1>3. Claimed(status'[o], trashed'[o], rets'[o], resF'[o])
  BY <1>1, <1>a DEF Claimed, TypeInv, OrderTyped
<1>4. PICK j : Start(w, j) /\ (j # NoJob => j.o = o /\ j.kind = "hold")
  <2>1. CASE Finish(w)
    BY <2>1 DEF Finish, Start
  <2>2. CASE ~Finish(w)
    <3>1. Start(w, [NewJob("hold", o, "None", "None", FALSE) EXCEPT !.pc = "hold"])
      BY <2>2, <1>o DEF SyncCommit
    <3>. QED BY <3>1 DEF NewJob
  <2>. QED BY <2>1, <2>2
<1>5. GateHolds(j, status'[o], rets'[o], resF'[o])
  BY <1>4 DEF GateHolds
<1>. QED BY <1>a, <1>1, <1>2, <1>3, <1>4, <1>5, HandlerStep

LEMMA NewReturnCommitLive ==
  ASSUME TypeInv, LiveInv, NEW w \in Workers, NewReturnCommit(w)
  PROVE  LiveInv'
<1>b. job[w] # NoJob
  BY DEF NewReturnCommit, Running
<1>o. PICK o \in Orders : o = job[w].o
  BY <1>b, AloneOnOrder
<1>a. \A v \in Workers \ {w} : job[v] # NoJob => job[v].o # o
  BY <1>b, <1>o, AloneOnOrder
<1>1. UNCHANGED <<trashed, resF>> /\ Start(w, NoJob)
  BY DEF NewReturnCommit, stockVars, Finish, Start
<1>2. \A p \in Orders \ {o} : status'[p] = status[p] /\ rets'[p] = rets[p]
  BY <1>o DEF NewReturnCommit, TypeInv, OrderTyped
<1>3. rets'[o] # <<>>
  <2>1. PICK r : rets'[o] = Append(rets[o], r)
    BY <1>o DEF NewReturnCommit, TypeInv, OrderTyped
  <2>2. rets[o] \in Seq(ReturnRows)
    BY DEF TypeInv, OrderTyped
  <2>. QED BY <2>1, <2>2
<1>4. Claimed(status'[o], trashed'[o], rets'[o], resF'[o])
  BY <1>3 DEF Claimed
<1>. QED BY <1>a, <1>1, <1>2, <1>4, HandlerStep DEF GateHolds

(* Rewriting a row keeps the row.                                          *)
LEMMA RowsStay ==
  ASSUME TypeInv, NEW o \in Orders, rets[o] # <<>>, NEW i, NEW r,
         rets' = [rets EXCEPT ![o] = [rets[o] EXCEPT ![i] = r]]
  PROVE  rets'[o] # <<>> /\ \A p \in Orders \ {o} : rets'[p] = rets[p]
<1>1. rets'[o] = [rets[o] EXCEPT ![i] = r] /\ \A p \in Orders \ {o} : rets'[p] = rets[p]
  BY DEF TypeInv, OrderTyped
<1>2. rets[o] \in Seq(ReturnRows)
  BY DEF TypeInv, OrderTyped
<1>3. DOMAIN rets'[o] = DOMAIN rets[o] /\ DOMAIN rets[o] = 1..Len(rets[o])
  BY <1>1, <1>2, LenProperties
<1>4. Len(rets[o]) \in Nat /\ Len(rets[o]) # 0
  BY <1>2, EmptySeq, LenProperties
<1>5. 1 \in DOMAIN rets'[o]
  BY <1>3, <1>4
<1>. QED BY <1>1, <1>5

LEMMA ReceiveCommitLive ==
  ASSUME TypeInv, LiveInv, NEW w \in Workers, ReceiveCommit(w)
  PROVE  LiveInv'
<1>b. job[w] # NoJob /\ job[w].kind = "receive"
  BY DEF ReceiveCommit, Running
<1>o. PICK o \in Orders : o = job[w].o
  BY <1>b, AloneOnOrder
<1>a. /\ \A v \in Workers \ {w} : job[v] # NoJob => job[v].o # o
      /\ rets[o] # <<>>
  BY <1>b, <1>o, AloneOnOrder DEF GateHolds
<1>1. UNCHANGED <<status, trashed>>
  BY DEF ReceiveCommit, orderVars
<1>2. rets'[o] # <<>> /\ \A p \in Orders \ {o} : rets'[p] = rets[p]
  <2> DEFINE r == [rets[o][job[w].row] EXCEPT !.st = "RESTOCKED", !.rec = TRUE, !.good = job[w].n]
  <2>1. rets' = [rets EXCEPT ![o] = [rets[o] EXCEPT ![job[w].row] = r]]
    BY <1>o DEF ReceiveCommit
  <2> HIDE DEF r
  <2>. QED BY <2>1, <1>a, RowsStay
<1>3. \A p \in Orders \ {o} : resF'[p] = resF[p]
  BY <1>o DEF ReceiveCommit, ReturnBack, TypeInv, StockTyped
<1>4. Claimed(status'[o], trashed'[o], rets'[o], resF'[o])
  BY <1>2 DEF Claimed
<1> DEFINE j == NewJob("mirror", o, job[w].to, "None", FALSE)
<1>5. Start(w, j)
  BY <1>o DEF ReceiveCommit
<1>6. j.o = o /\ j.kind = "mirror" /\ ~JobInTx(j)
  BY DEF NewJob, JobInTx, TxPhases
<1> HIDE DEF j
<1>7. GateHolds(j, status'[o], rets'[o], resF'[o])
  BY <1>6 DEF GateHolds
<1>. QED BY <1>a, <1>1, <1>2, <1>3, <1>4, <1>5, <1>6, <1>7, HandlerStep

LEMMA CloseReturnLive ==
  ASSUME TypeInv, LiveInv, NEW o \in Orders, NEW i \in 1..MaxReturns, CloseReturn(o, i)
  PROVE  LiveInv'
<1>u. UNCHANGED <<status, trashed, resF, job>>
  BY DEF CloseReturn, stockVars, orderVars
<1>1. rets[o] # <<>> /\ i \in DOMAIN rets[o]
  BY DEF CloseReturn
<1>2. rets'[o] # <<>> /\ \A p \in Orders \ {o} : rets'[p] = rets[p]
  <2> DEFINE r == [rets[o][i] EXCEPT !.st = "CLOSED"]
  <2>1. rets' = [rets EXCEPT ![o] = [rets[o] EXCEPT ![i] = r]]
    BY DEF CloseReturn
  <2> HIDE DEF r
  <2>. QED BY <2>1, <1>1, RowsStay
<1>3. LiveClaimed'
  BY <1>u, <1>2 DEF LiveInv, LiveClaimed, Claimed
<1>4. GatesHold'
  <2>. SUFFICES ASSUME NEW v \in Workers
                PROVE  GateHolds(job[v], status[job[v].o], rets'[job[v].o], resF[job[v].o])
    BY <1>u DEF GatesHold, GateHolds, Verifies, JobInTx
  <2>1. GateHolds(job[v], status[job[v].o], rets[job[v].o], resF[job[v].o])
    BY DEF LiveInv, GatesHold
  <2>2. CASE job[v] = NoJob
    BY <2>2 DEF GateHolds
  <2>3. CASE job[v] # NoJob
    <3>1. job[v].o \in Orders
      BY <2>3, AloneOnOrder
    <3>. QED BY <2>1, <3>1, <1>2 DEF GateHolds
  <2>. QED BY <2>2, <2>3
<1>5. OneHandler'
  BY <1>u DEF LiveInv, OneHandler
<1>. QED BY <1>3, <1>4, <1>5 DEF LiveInv

-----------------------------------------------------------------------------
LEMMA InitLive == Init => LiveInv
BY DEF Init, LiveInv, OneHandler, LiveClaimed, Claimed, AwaitsGoods, OrderStatuses, GatesHold, GateHolds

LEMMA StepLive ==
  ASSUME Serial
  PROVE  TypeInv /\ LiveInv /\ [Next]_vars => LiveInv'
<1>. SUFFICES ASSUME TypeInv, LiveInv, [Next]_vars PROVE LiveInv'
  OBVIOUS
<1>1. ASSUME NEW w \in Workers, Advance(w) PROVE LiveInv'
  BY <1>1, CreateCommitLive, BeginLive, HoldLive, OtherLive, StatusCommitLive,
     OrderRowCommitLive, BoardCommitLive, SyncCommitLive, NewReturnCommitLive,
     ReceiveCommitLive DEF Advance
<1>2. CASE UNCHANGED <<status, trashed, rets, resF, job>>
  BY <1>2 DEF LiveInv, OneHandler, LiveClaimed, Claimed, GatesHold, GateHolds, Verifies, JobInTx
<1>3. ASSUME NEW o \in Orders, BookCourier(o) PROVE LiveInv'
  BY <1>2, <1>3 DEF BookCourier, stockVars, orderVars
<1>4. CASE UNCHANGED vars
  BY <1>2, <1>4 DEF vars, stockVars, orderVars
<1>. QED BY <1>1, <1>3, <1>4, StartHandlerLive, CloseReturnLive DEF Next

(* Whatever is asked of an order, by staff, courier, customer or board,    *)
(* one request at a time, and whatever of it is rolled back: while the     *)
(* order waits for its goods it holds its claim on them                    *)
(* (verifyStockForOrder revives what releaseForCancellation and trash let  *)
(* go).                                                                    *)
THEOREM LiveOrdersHold ==
  ASSUME Serial
  PROVE  Spec => []LiveOrderHoldsClaim
<1>1. LiveInv => LiveOrderHoldsClaim
  BY DEF LiveInv, LiveClaimed, Claimed, LiveOrderHoldsClaim
<1>2. TypeInv /\ LiveInv /\ [Next]_vars => LiveInv'
  BY StepLive
<1>. QED BY InitTyped, StepTyped, InitLive, <1>1, <1>2, PTL DEF Spec

-----------------------------------------------------------------------------
(***************************************************************************)
(* Dead orders.  What a commit gives back, and whether it gives back at    *)
(* all, was settled by flags its transaction read and a status its gate    *)
(* read; the invariant says that all of it is still so when it commits.    *)
(***************************************************************************)

(* No order is trashed before it exists.                                   *)
TrashedExist == \A o \in Orders : status[o] = "None" => ~trashed[o]

(* s, gone, d, ded and res are what the rows of the handler's order hold   *)
(* now: its status, whether it is trashed, its dispatch, its line's flags. *)
Settled(j, s, gone, d, ded, res) ==
  j # NoJob =>
    /\ j.kind = "status" => ~gone
    /\ j.kind = "status" /\ j.to = "Cancelled" => (j.extra <=> d \notin {"None", "CANCELLED"})
    /\ j.kind = "trash" => (j.extra <=> s \notin GoodsAlreadyLeft)
    /\ j.kind = "restore" => (j.extra <=> s \notin GoodsAlreadyLeft \cup {"Cancelled"})
    /\ j.kind = "board" => j.from # "None" /\ j.to \in DispatchNext[j.from]
    /\ j.kind = "board" /\ JobInTx(j) => j.from = d
    /\ j.kind = "sync" => j.to \notin AwaitsGoods
    /\ j.kind = "sync" /\ j.to = "Cancelled" => d = "CANCELLED"
    /\ j.kind \in {"customer", "trash", "board"} => j.kind \in EntryPoints[j.o]
    /\ JobInTx(j) /\ j.kind \notin {"board", "hold"} => j.ded = ded /\ j.res = res

SettledNow(w) ==
  Settled(job[w], status[job[w].o], trashed[job[w].o], dispatch[job[w].o],
          dedF[job[w].o], resF[job[w].o])

DeathInv == TrashedExist /\ \A w \in Workers : SettledNow(w)

(* A step of one handler that touches its own order only.                  *)
LEMMA SettledStep ==
  ASSUME TypeInv, LiveInv, DeathInv, NEW w \in Workers, NEW o \in Orders,
         \A v \in Workers \ {w} : job[v] # NoJob => job[v].o # o,
         \A p \in Orders \ {o} :
           /\ status'[p] = status[p] /\ trashed'[p] = trashed[p]
           /\ dispatch'[p] = dispatch[p]
           /\ dedF'[p] = dedF[p] /\ resF'[p] = resF[p],
         status'[o] = "None" => ~trashed'[o],
         NEW j, Start(w, j), j # NoJob => j.o = o,
         Settled(j, status'[o], trashed'[o], dispatch'[o], dedF'[o], resF'[o])
  PROVE  DeathInv'
<1>1. job'[w] = j /\ \A v \in Workers \ {w} : job'[v] = job[v]
  BY DEF Start, TypeInv, JobsTyped
<1>2. \A v \in Workers \ {w} : job[v] # NoJob => job[v].o \in Orders \ {o}
  BY BusyIsGood DEF TypeInv, GoodJobs, Jobs
<1>3. TrashedExist'
  BY DEF DeathInv, TrashedExist
<1>4. ASSUME NEW v \in Workers
      PROVE  Settled(job'[v], status'[job'[v].o], trashed'[job'[v].o], dispatch'[job'[v].o],
                     dedF'[job'[v].o], resF'[job'[v].o])
  <2>1. CASE job'[v] = NoJob
    BY <2>1 DEF Settled
  <2>2. CASE v = w /\ job'[v] # NoJob
    BY <2>2, <1>1
  <2>3. CASE v # w /\ job'[v] # NoJob
    <3>1. job'[v] = job[v] /\ job[v].o \in Orders \ {o}
      BY <2>3, <1>1, <1>2
    <3>2. SettledNow(v)
      BY DEF DeathInv
    <3>. QED BY <3>1, <3>2 DEF SettledNow
  <2>. QED BY <2>1, <2>2, <2>3
<1>5. ASSUME NEW v \in Workers PROVE SettledNow(v)'
  BY <1>4 DEF SettledNow, Settled, JobInTx
<1>. QED BY <1>3, <1>5 DEF DeathInv

LEMMA SettledAlone ==
  ASSUME TypeInv, LiveInv, DeathInv, NEW w \in Workers, job[w] # NoJob
  PROVE  /\ job[w] \in GoodJobs /\ job[w] \in Jobs /\ job[w].o \in Orders
         /\ \A v \in Workers \ {w} : job[v] # NoJob => job[v].o # job[w].o
         /\ SettledNow(w)
BY AloneOnOrder DEF DeathInv

(* A step of w that leaves the rows as they are.                           *)
LEMMA IdleSettled ==
  ASSUME TypeInv, LiveInv, DeathInv, NEW w \in Workers, job[w] # NoJob,
         UNCHANGED <<status, trashed, dispatch, dedF, resF>>,
         NEW j, Start(w, j), j # NoJob => j.o = job[w].o,
         Settled(j, status[job[w].o], trashed[job[w].o], dispatch[job[w].o],
                 dedF[job[w].o], resF[job[w].o])
  PROVE  DeathInv'
<1>1. job[w].o \in Orders /\ \A v \in Workers \ {w} : job[v] # NoJob => job[v].o # job[w].o
  BY SettledAlone
<1>2. status'[job[w].o] = "None" => ~trashed'[job[w].o]
  BY <1>1 DEF DeathInv, TrashedExist
<1>. QED BY <1>1, <1>2, SettledStep

(* A handler that ends, whatever its step wrote of its own order.          *)
LEMMA EndSettled ==
  ASSUME TypeInv, LiveInv, DeathInv, NEW w \in Workers, job[w] # NoJob, Finish(w),
         \A p \in Orders \ {job[w].o} :
           /\ status'[p] = status[p] /\ trashed'[p] = trashed[p]
           /\ dispatch'[p] = dispatch[p]
           /\ dedF'[p] = dedF[p] /\ resF'[p] = resF[p],
         status'[job[w].o] = "None" => ~trashed'[job[w].o]
  PROVE  DeathInv'
<1>1. job[w].o \in Orders /\ \A v \in Workers \ {w} : job[v] # NoJob => job[v].o # job[w].o
  BY SettledAlone
<1>2. Start(w, NoJob)
  BY DEF Start, Finish
<1>3. \A s, gone, d, ded, res : Settled(NoJob, s, gone, d, ded, res)
  BY DEF Settled
<1>. QED BY <1>1, <1>2, <1>3, SettledStep

LEMMA FinishSettled ==
  ASSUME TypeInv, LiveInv, DeathInv, NEW w \in Workers, job[w] # NoJob, Finish(w),
         UNCHANGED <<status, trashed, dispatch, dedF, resF>>
  PROVE  DeathInv'
<1>1. Start(w, NoJob)
  BY DEF Start, Finish
<1>. QED BY <1>1, IdleSettled DEF Settled

(* The job goes on in another phase, out of the reach of its old snapshot. *)
LEMMA MovedSettled ==
  ASSUME TypeInv, LiveInv, DeathInv, NEW w \in Workers, job[w] # NoJob,
         UNCHANGED <<status, trashed, dispatch, dedF, resF>>,
         NEW pc, Start(w, [job[w] EXCEPT !.pc = pc]),
         JobInTx(job[w]) \/ pc \notin TxPhases
  PROVE  DeathInv'
<1> DEFINE j == [job[w] EXCEPT !.pc = pc]
<1>1. job[w] \in Jobs /\ SettledNow(w)
  BY SettledAlone
<1>2. /\ j.o = job[w].o /\ j.kind = job[w].kind /\ j.to = job[w].to /\ j.from = job[w].from
      /\ j.extra = job[w].extra /\ j.res = job[w].res /\ j.ded = job[w].ded /\ j.pc = pc
  BY <1>1 DEF Jobs
<1>3. Start(w, j)
  OBVIOUS
<1> HIDE DEF j
<1>4. Settled(j, status[job[w].o], trashed[job[w].o], dispatch[job[w].o],
              dedF[job[w].o], resF[job[w].o])
  BY <1>1, <1>2 DEF SettledNow, Settled, JobInTx
<1>. QED BY <1>2, <1>3, <1>4, IdleSettled

(* The decisions a gate makes are those its reads justify.                 *)
LEMMA StartHandlerSettled ==
  ASSUME Serial, TypeInv, LiveInv, DeathInv, NEW w \in Workers, NEW o \in Orders,
         StartHandler(w, o)
  PROVE  DeathInv'
<1>u. UNCHANGED <<status, trashed, dispatch, dedF, resF>>
  BY DEF StartHandler, CreateGate, StatusGate, CustomerCancelGate, TrashGate, RestoreGate,
         BoardGate, NewReturnGate, ReceiveGate, stockVars, orderVars, parcelVars
<1>m. \A v \in Workers \ {w} : job[v] # NoJob => job[v].o # o
  BY DEF Serial, StartHandler, CreateGate, StatusGate, CustomerCancelGate, TrashGate, RestoreGate,
         BoardGate, NewReturnGate, ReceiveGate, MayStart, BusyOn
<1>t. status'[o] = "None" => ~trashed'[o]
  BY <1>u DEF DeathInv, TrashedExist
<1>g. ASSUME NEW j, Start(w, j), j.o = o,
             Settled(j, status[o], trashed[o], dispatch[o], dedF[o], resF[o])
      PROVE  DeathInv'
  BY <1>g, <1>u, <1>m, <1>t, SettledStep
<1>1. CASE CreateGate(w, o)
  <2> DEFINE j == NewJob("create", o, "Pending", "None", FALSE)
  <2>1. Start(w, j)
    BY <1>1 DEF CreateGate
  <2>2. j.o = o /\ j.kind = "create" /\ ~JobInTx(j)
    BY DEF NewJob, JobInTx, TxPhases
  <2> HIDE DEF j
  <2>. QED BY <2>1, <2>2, <1>g DEF Settled
<1>2. ASSUME NEW to \in StatusTargets[o], NEW automated \in BOOLEAN,
             StatusGate(w, o, to, automated)
      PROVE  DeathInv'
  <2> DEFINE plan == to = "Cancelled" /\ HasDispatch(o)
             verify == to = "Confirmed" \/ (to = "Hold" /\ status[o] \in {"Cancelled", "Confirmed"})
             j == NewJob("status", o, to, "None", plan \/ verify)
  <2>1. Start(w, j) /\ ~trashed[o]
    BY <1>2 DEF StatusGate
  <2>2. to = "Cancelled" => ((plan \/ verify) <=> dispatch[o] \notin {"None", "CANCELLED"})
    BY DEF HasDispatch
  <2>3. j.o = o /\ j.kind = "status" /\ j.to = to /\ (j.extra <=> (plan \/ verify)) /\ ~JobInTx(j)
    BY DEF NewJob, JobInTx, TxPhases
  <2> HIDE DEF j, plan, verify
  <2>. QED BY <2>1, <2>2, <2>3, <1>g DEF Settled
<1>3. CASE CustomerCancelGate(w, o)
  <2> DEFINE j == NewJob("customer", o, "Cancelled", "None", FALSE)
  <2>1. Start(w, j) /\ "customer" \in EntryPoints[o]
    BY <1>3 DEF CustomerCancelGate
  <2>2. j.o = o /\ j.kind = "customer" /\ ~JobInTx(j)
    BY DEF NewJob, JobInTx, TxPhases
  <2> HIDE DEF j
  <2>. QED BY <2>1, <2>2, <1>g DEF Settled
<1>4. CASE TrashGate(w, o)
  <2> DEFINE e == status[o] \notin GoodsAlreadyLeft
             j == NewJob("trash", o, "None", "None", e)
  <2>1. Start(w, j) /\ "trash" \in EntryPoints[o]
    BY <1>4 DEF TrashGate
  <2>2. j.o = o /\ j.kind = "trash" /\ j.extra = e /\ ~JobInTx(j)
    BY DEF NewJob, JobInTx, TxPhases
  <2>3. e <=> status[o] \notin GoodsAlreadyLeft
    OBVIOUS
  <2> HIDE DEF j, e
  <2>. QED BY <2>1, <2>2, <2>3, <1>g DEF Settled
<1>5. CASE RestoreGate(w, o)
  <2> DEFINE e == status[o] \notin GoodsAlreadyLeft \cup {"Cancelled"}
             j == NewJob("restore", o, "None", "None", e)
  <2>1. Start(w, j)
    BY <1>5 DEF RestoreGate
  <2>2. j.o = o /\ j.kind = "restore" /\ j.extra = e /\ ~JobInTx(j)
    BY DEF NewJob, JobInTx, TxPhases
  <2>3. e <=> status[o] \notin GoodsAlreadyLeft \cup {"Cancelled"}
    OBVIOUS
  <2> HIDE DEF j, e
  <2>. QED BY <2>1, <2>2, <2>3, <1>g DEF Settled
<1>6. ASSUME NEW to \in BoardTargets, NEW automated \in BOOLEAN, BoardGate(w, o, to, automated)
      PROVE  DeathInv'
  <2> DEFINE j == NewJob("board", o, to, dispatch[o], automated)
  <2>1. /\ Start(w, j) /\ "board" \in EntryPoints[o]
        /\ dispatch[o] # "None" /\ to \in DispatchNext[dispatch[o]]
    BY <1>6 DEF BoardGate
  <2>2. j.o = o /\ j.kind = "board" /\ j.to = to /\ j.from = dispatch[o] /\ ~JobInTx(j)
    BY DEF NewJob, JobInTx, TxPhases
  <2> HIDE DEF j
  <2>. QED BY <2>1, <2>2, <1>g DEF Settled
<1>7. ASSUME NEW type \in {"FULL", "PARTIAL"}, NEW n \in 1..Qty[o], NEW mark \in BOOLEAN,
             NewReturnGate(w, o, type, n, mark)
      PROVE  DeathInv'
  <2> DEFINE j == [NewJob("newReturn", o, type, "None", mark) EXCEPT !.n = n]
  <2>1. Start(w, j)
    BY <1>7 DEF NewReturnGate
  <2>2. j.o = o /\ j.kind = "newReturn" /\ ~JobInTx(j)
    BY DEF NewJob, JobInTx, TxPhases
  <2> HIDE DEF j
  <2>. QED BY <2>1, <2>2, <1>g DEF Settled
<1>8. ASSUME NEW i \in 1..MaxReturns, NEW n \in 0..Qty[o], ReceiveGate(w, o, i, n)
      PROVE  DeathInv'
  <2>1. CASE rets[o][i].rec
    <3> DEFINE j == NewJob("mirror", o, rets[o][i].type, "None", FALSE)
    <3>1. Start(w, j)
      BY <1>8, <2>1 DEF ReceiveGate
    <3>2. j.o = o /\ j.kind = "mirror" /\ ~JobInTx(j)
      BY DEF NewJob, JobInTx, TxPhases
    <3> HIDE DEF j
    <3>. QED BY <3>1, <3>2, <1>g DEF Settled
  <2>2. CASE ~rets[o][i].rec
    <3> DEFINE j == [NewJob("receive", o, rets[o][i].type, "None", FALSE)
                       EXCEPT !.row = i, !.n = n]
    <3>1. Start(w, j)
      BY <1>8, <2>2 DEF ReceiveGate
    <3>2. j.o = o /\ j.kind = "receive" /\ ~JobInTx(j)
      BY DEF NewJob, JobInTx, TxPhases
    <3> HIDE DEF j
    <3>. QED BY <3>1, <3>2, <1>g DEF Settled
  <2>. QED BY <2>1, <2>2
<1>. QED BY <1>1, <1>2, <1>3, <1>4, <1>5, <1>6, <1>7, <1>8 DEF StartHandler

(* A transaction reads the flags, and the rows still justify its gate.     *)
LEMMA BeginSettled ==
  ASSUME TypeInv, LiveInv, DeathInv, NEW w \in Workers,
         OrderBegin(w) \/ BoardBegin(w) \/ ReceiveBegin(w)
  PROVE  DeathInv'
<1>u. UNCHANGED <<status, trashed, dispatch, dedF, resF>>
  BY DEF OrderBegin, BoardBegin, ReceiveBegin, stockVars, orderVars, parcelVars
<1>b. job[w] # NoJob
  BY DEF OrderBegin, BoardBegin, ReceiveBegin, Running
<1>g. job[w] \in Jobs /\ SettledNow(w)
  BY <1>b, SettledAlone
<1>1. CASE OrderBegin(w)
  <2> DEFINE p == IF HoldsStock(job[w]) THEN "hold" ELSE "tx"
             e == IF MarksReturned(job[w]) THEN CreatesReturn(job[w].o) ELSE job[w].extra
             j == [job[w] EXCEPT !.pc = p, !.ded = dedF[job[w].o],
                                 !.res = resF[job[w].o], !.extra = e]
  <2>1. Start(w, j)
    BY <1>1 DEF OrderBegin
  <2>2. /\ j.o = job[w].o /\ j.kind = job[w].kind /\ j.to = job[w].to
        /\ j.extra = e /\ j.ded = dedF[job[w].o] /\ j.res = resF[job[w].o]
    <3> HIDE DEF p, e
    <3>. QED BY <1>g DEF Jobs
  <2>3. e = job[w].extra \/ (job[w].kind = "status" /\ job[w].to = "Returned")
    BY DEF MarksReturned
  <2>4. job[w].kind # "board"
    BY <1>1 DEF OrderBegin, OrderRowKinds, Running
  <2> HIDE DEF j, e
  <2>5. Settled(j, status[job[w].o], trashed[job[w].o], dispatch[job[w].o],
                dedF[job[w].o], resF[job[w].o])
    BY <2>2, <2>3, <2>4, <1>g, <1>b DEF SettledNow, Settled
  <2>. QED BY <1>u, <1>b, <2>1, <2>2, <2>5, IdleSettled
<1>2. CASE ReceiveBegin(w)
  <2> DEFINE j == [job[w] EXCEPT !.pc = "tx", !.ded = dedF[job[w].o], !.res = resF[job[w].o]]
  <2>1. Start(w, j)
    BY <1>2 DEF ReceiveBegin
  <2>2. /\ j.o = job[w].o /\ j.kind = "receive"
        /\ j.ded = dedF[job[w].o] /\ j.res = resF[job[w].o]
    BY <1>2, <1>g DEF Jobs, ReceiveBegin, Running
  <2> HIDE DEF j
  <2>3. Settled(j, status[job[w].o], trashed[job[w].o], dispatch[job[w].o],
                dedF[job[w].o], resF[job[w].o])
    BY <2>2 DEF Settled
  <2>. QED BY <1>u, <1>b, <2>1, <2>2, <2>3, IdleSettled
<1>3. CASE BoardBegin(w)
  <2>1. CASE dispatch[job[w].o] # job[w].from
    <3>1. Finish(w)
      BY <1>3, <2>1 DEF BoardBegin
    <3>. QED BY <3>1, <1>b, <1>u, FinishSettled
  <2>2. CASE dispatch[job[w].o] = job[w].from
    <3> DEFINE j == [job[w] EXCEPT !.pc = "tx", !.ded = dedF[job[w].o]]
    <3>1. Start(w, j)
      BY <1>3, <2>2 DEF BoardBegin
    <3>2. /\ j.o = job[w].o /\ j.kind = "board" /\ job[w].kind = "board"
          /\ j.to = job[w].to /\ j.from = job[w].from
      BY <1>3, <1>g DEF Jobs, BoardBegin, Running
    <3> HIDE DEF j
    <3>3. Settled(j, status[job[w].o], trashed[job[w].o], dispatch[job[w].o],
                  dedF[job[w].o], resF[job[w].o])
      BY <3>2, <2>2, <1>g, <1>b DEF SettledNow, Settled
    <3>. QED BY <1>u, <1>b, <3>1, <3>2, <3>3, IdleSettled
  <2>. QED BY <2>1, <2>2
<1>. QED BY <1>1, <1>2, <1>3

(* The steps that write none of the rows these decisions are about.        *)
LEMMA QuietSettled ==
  ASSUME TypeInv, LiveInv, DeathInv, NEW w \in Workers,
         HoldGate(w) \/ HoldApply(w) \/ HoldFails(w) \/ SyncGate(w) \/ Abort(w)
  PROVE  DeathInv'
<1>u. UNCHANGED <<status, trashed, dispatch, dedF, resF>>
  BY DEF HoldGate, HoldApply, HoldFails, SyncGate, Abort, stockVars, orderVars, parcelVars
<1>b. job[w] # NoJob
  BY DEF HoldGate, HoldApply, HoldFails, SyncGate, Abort, InHold, Running
<1>1. CASE Finish(w)
  BY <1>1, <1>b, <1>u, FinishSettled
<1>2. CASE ~Finish(w) /\ SyncGate(w)
  <2>1. Start(w, [job[w] EXCEPT !.pc = "gate"]) /\ "gate" \notin TxPhases
    BY <1>2 DEF SyncGate, TxPhases
  <2>. QED BY <2>1, <1>b, <1>u, MovedSettled
<1>3. CASE ~Finish(w) /\ ~SyncGate(w)
  <2>1. PICK pc : Start(w, [job[w] EXCEPT !.pc = pc]) /\ JobInTx(job[w])
    BY <1>3, <1>b DEF HoldGate, HoldApply, HoldFails, Abort, AfterHold, InHold, JobInTx, TxPhases
  <2>. QED BY <2>1, <1>b, <1>u, MovedSettled
<1>. QED BY <1>1, <1>2, <1>3

-----------------------------------------------------------------------------
(* The commits write the rows of one order.                                *)

Commit(w) ==
  \/ StatusCommit(w) \/ CustomerCancelCommit(w) \/ TrashCommit(w) \/ RestoreCommit(w)
  \/ BoardCommit(w) \/ SyncCommit(w) \/ ReceiveCommit(w) \/ CreateCommit(w)
  \/ NewReturnCommit(w) \/ MirrorDispatch(w)

LEMMA CommitLocal ==
  ASSUME TypeInv, NEW w \in Workers, Commit(w)
  PROVE  /\ job[w] # NoJob /\ job[w].o \in Orders
         /\ \A p \in Orders \ {job[w].o} :
              /\ status'[p] = status[p] /\ trashed'[p] = trashed[p]
              /\ dispatch'[p] = dispatch[p]
              /\ dedF'[p] = dedF[p] /\ resF'[p] = resF[p]
<1>1. job[w] # NoJob
  BY DEF Commit, StatusCommit, CustomerCancelCommit, TrashCommit, RestoreCommit, BoardCommit,
         SyncCommit, ReceiveCommit, CreateCommit, NewReturnCommit, MirrorDispatch, Running
<1>2. job[w].o \in Orders
  BY <1>1, BusyIsGood DEF TypeInv, GoodJobs, Jobs
<1>o. PICK o \in Orders : o = job[w].o
  BY <1>2
<1>3. ASSUME NEW p \in Orders \ {o} PROVE status'[p] = status[p]
  BY <1>o DEF Commit, StatusCommit, CustomerCancelCommit, TrashCommit, RestoreCommit, BoardCommit,
     SyncCommit, ReceiveCommit, CreateCommit, NewReturnCommit, MirrorDispatch, orderVars,
     TypeInv, OrderTyped
<1>4. ASSUME NEW p \in Orders \ {o} PROVE trashed'[p] = trashed[p]
  BY <1>o DEF Commit, StatusCommit, CustomerCancelCommit, TrashCommit, RestoreCommit, BoardCommit,
     SyncCommit, ReceiveCommit, CreateCommit, NewReturnCommit, MirrorDispatch, orderVars,
     TypeInv, OrderTyped
<1>5. ASSUME NEW p \in Orders \ {o} PROVE dispatch'[p] = dispatch[p]
  BY <1>o DEF Commit, StatusCommit, CustomerCancelCommit, TrashCommit, RestoreCommit, BoardCommit,
     SyncCommit, ReceiveCommit, CreateCommit, NewReturnCommit, MirrorDispatch, parcelVars,
     TypeInv, OrderTyped
<1>6. \/ \E ded, res, n : \/ ClaimLine(o, res) \/ TakeLine(o, ded) \/ GiveBack(o, ded, res)
                          \/ ReturnBack(o, ded, res, n)
      \/ UNCHANGED stockVars
  BY <1>o DEF Commit, StatusCommit, CustomerCancelCommit, TrashCommit, RestoreCommit, BoardCommit,
     SyncCommit, ReceiveCommit, CreateCommit, NewReturnCommit, MirrorDispatch
<1>7. ASSUME NEW p \in Orders \ {o} PROVE dedF'[p] = dedF[p] /\ resF'[p] = resF[p]
  BY <1>6 DEF ClaimLine, TakeLine, GiveBack, ReturnBack, stockVars, TypeInv, StockTyped
<1>. QED BY <1>1, <1>o, <1>3, <1>4, <1>5, <1>7

(* No commit makes an order that does not exist a trashed one.             *)
LEMMA CommitKeepsUntrashed ==
  ASSUME TypeInv, BornInv, DeathInv, NEW w \in Workers, Commit(w), NEW o \in Orders,
         o = job[w].o
  PROVE  status'[o] = "None" => ~trashed'[o]
<1>1. job[w] # NoJob /\ job[w].o \in Orders
  BY CommitLocal
<1>2. ~trashed[o] \/ status[o] # "None"
  BY DEF DeathInv, TrashedExist
<1>3. CASE CreateCommit(w)
  BY <1>2, <1>3 DEF CreateCommit, TypeInv, OrderTyped
<1>4. CASE MirrorDispatch(w) \/ ReceiveCommit(w) \/ BoardCommit(w)
  BY <1>2, <1>4 DEF MirrorDispatch, ReceiveCommit, BoardCommit, orderVars
<1>5. CASE TrashCommit(w) \/ RestoreCommit(w)
  <2>1. job[w].kind # "create"
    BY <1>5 DEF TrashCommit, RestoreCommit, Running
  <2>2. status[o] # "None" /\ status' = status
    BY <1>1, <1>5, <2>1, ExistingJob DEF TrashCommit, RestoreCommit
  <2>. QED BY <2>2
<1>6. CASE StatusCommit(w) \/ CustomerCancelCommit(w) \/ SyncCommit(w)
  <2>1. status'[o] = "Cancelled" \/ status'[o] = job[w].to
    BY <1>6 DEF StatusCommit, CustomerCancelCommit, SyncCommit, TypeInv, OrderTyped
  <2>2. job[w].kind \in {"status", "customer", "sync"} /\ job[w] \in GoodJobs
    BY <1>1, <1>6, BusyIsGood DEF StatusCommit, CustomerCancelCommit, SyncCommit, Running, TypeInv
  <2>. QED BY <2>1, <2>2 DEF GoodJobs, OrderStatuses
<1>7. CASE NewReturnCommit(w)
  <2>1. trashed' = trashed /\ (status'[o] = "Delivered" \/ status'[o] = status[o])
    BY <1>7 DEF NewReturnCommit, TypeInv, OrderTyped
  <2>. QED BY <2>1, <1>2
<1>. QED BY <1>3, <1>4, <1>5, <1>6, <1>7 DEF Commit

LEMMA CommitSettled ==
  ASSUME TypeInv, LiveInv, BornInv, DeathInv, NEW w \in Workers, Commit(w)
  PROVE  DeathInv'
<1>b. /\ job[w] # NoJob /\ job[w].o \in Orders
      /\ \A p \in Orders \ {job[w].o} :
           /\ status'[p] = status[p] /\ trashed'[p] = trashed[p]
           /\ dispatch'[p] = dispatch[p]
           /\ dedF'[p] = dedF[p] /\ resF'[p] = resF[p]
      /\ status'[job[w].o] = "None" => ~trashed'[job[w].o]
  BY CommitLocal, CommitKeepsUntrashed
<1>a. \A v \in Workers \ {w} : job[v] # NoJob => job[v].o # job[w].o
  BY <1>b, SettledAlone
<1>1. CASE Finish(w)
  BY <1>1, <1>b, EndSettled
<1>g. ASSUME NEW j, Start(w, j), j # NoJob => j.o = job[w].o,
             Settled(j, status'[job[w].o], trashed'[job[w].o], dispatch'[job[w].o],
                     dedF'[job[w].o], resF'[job[w].o])
      PROVE  DeathInv'
  BY <1>g, <1>a, <1>b, SettledStep
<1>2. CASE ~Finish(w) /\ BoardCommit(w)
  <2> DEFINE t == SyncTarget[job[w].to]
             j == [NewJob("sync", job[w].o, t, "None", job[w].extra) EXCEPT !.pc = "read"]
  <2>1. Start(w, j) /\ dispatch' = [dispatch EXCEPT ![job[w].o] = job[w].to]
    BY <1>2 DEF BoardCommit
  <2>2. job[w].to \in DispatchStatuses
    BY <1>2, <1>b, SettledAlone DEF GoodJobs, BoardCommit, Running
  <2>3. t \notin AwaitsGoods
    BY <2>2, SyncLeaves
  <2>4. t = "Cancelled" => job[w].to = "CANCELLED"
    BY <2>2 DEF SyncTarget, DispatchStatuses
  <2>5. dispatch'[job[w].o] = job[w].to
    BY <2>1, <1>b DEF TypeInv, OrderTyped
  <2>6. j.o = job[w].o /\ j.kind = "sync" /\ j.to = t /\ ~JobInTx(j)
    BY DEF NewJob, JobInTx, TxPhases
  <2> HIDE DEF j, t
  <2>. QED BY <2>1, <2>3, <2>4, <2>5, <2>6, <1>g DEF Settled
<1>3. CASE ~Finish(w) /\ SyncCommit(w)
  <2> DEFINE j == [NewJob("hold", job[w].o, "None", "None", FALSE) EXCEPT !.pc = "hold"]
  <2>1. Start(w, j)
    BY <1>3 DEF SyncCommit
  <2>2. j.o = job[w].o /\ j.kind = "hold"
    BY DEF NewJob
  <2> HIDE DEF j
  <2>. QED BY <2>1, <2>2, <1>g DEF Settled
<1>4. CASE ~Finish(w) /\ ReceiveCommit(w)
  <2> DEFINE j == NewJob("mirror", job[w].o, job[w].to, "None", FALSE)
  <2>1. Start(w, j)
    BY <1>4 DEF ReceiveCommit
  <2>2. j.o = job[w].o /\ j.kind = "mirror" /\ ~JobInTx(j)
    BY DEF NewJob, JobInTx, TxPhases
  <2> HIDE DEF j
  <2>. QED BY <2>1, <2>2, <1>g DEF Settled
<1>. QED BY <1>1, <1>2, <1>3, <1>4 DEF Commit, StatusCommit, CustomerCancelCommit, TrashCommit,
            RestoreCommit, CreateCommit, NewReturnCommit, MirrorDispatch

(* What happens to an order no handler of which is under way.              *)
LEMMA DirectSettled ==
  ASSUME Serial, TypeInv, DeathInv, NEW o \in Orders,
         BookCourier(o) \/ \E i \in 1..MaxReturns : CloseReturn(o, i)
  PROVE  DeathInv'
<1>1. /\ \A v \in Workers : ~BusyOn(v, o)
      /\ UNCHANGED <<status, trashed, dedF, resF, job>>
  BY DEF Serial, BookCourier, CloseReturn, stockVars, orderVars
<1>2. \A p \in Orders \ {o} : dispatch'[p] = dispatch[p]
  BY DEF BookCourier, CloseReturn, parcelVars, TypeInv, OrderTyped
<1>3. ASSUME NEW v \in Workers PROVE SettledNow(v)'
  <2>1. SettledNow(v)
    BY DEF DeathInv
  <2>2. job[v] # NoJob => job[v].o \in Orders \ {o}
    BY <1>1, BusyIsGood DEF TypeInv, GoodJobs, Jobs, BusyOn
  <2>. QED BY <2>1, <2>2, <1>1, <1>2 DEF SettledNow, Settled, JobInTx
<1>. QED BY <1>1, <1>3 DEF DeathInv, TrashedExist

LEMMA InitDeath == Init => DeathInv
BY DEF Init, DeathInv, TrashedExist, SettledNow, Settled

LEMMA StepDeath ==
  ASSUME Serial
  PROVE  TypeInv /\ LiveInv /\ BornInv /\ DeathInv /\ [Next]_vars => DeathInv'
<1>. SUFFICES ASSUME TypeInv, LiveInv, BornInv, DeathInv, [Next]_vars PROVE DeathInv'
  OBVIOUS
<1>1. ASSUME NEW w \in Workers, Advance(w) PROVE DeathInv'
  BY <1>1, BeginSettled, QuietSettled, CommitSettled DEF Advance, Commit
<1>2. CASE UNCHANGED vars
  BY <1>2 DEF vars, stockVars, orderVars, parcelVars, DeathInv, TrashedExist, SettledNow,
              Settled, JobInTx
<1>. QED BY <1>1, <1>2, StartHandlerSettled, DirectSettled DEF Next

-----------------------------------------------------------------------------
(* What the stock services leave on a line.                                *)

LEMMA GiveBackEmpties ==
  ASSUME StockTyped, NEW o \in Orders, GiveBack(o, dedF[o], resF[o])
  PROVE  HoldsNothing(o)'
<1>1. CASE dedF[o]
  BY <1>1 DEF GiveBack, HoldsNothing, StockTyped
<1>2. CASE ~dedF[o] /\ resF[o]
  BY <1>2 DEF GiveBack, HoldsNothing, StockTyped
<1>3. CASE ~dedF[o] /\ ~resF[o]
  BY <1>3 DEF GiveBack, HoldsNothing, stockVars
<1>. QED BY <1>1, <1>2, <1>3

LEMMA ReturnBackEmpties ==
  ASSUME StockTyped, NEW o \in Orders, NEW ded, NEW res, NEW n, ReturnBack(o, ded, res, n)
  PROVE  HoldsNothing(o)'
BY DEF ReturnBack, HoldsNothing, StockTyped

(* An order whose rows a step leaves alone.                                *)
LEMMA UntouchedClean ==
  ASSUME NEW o \in Orders, status'[o] = status[o], trashed'[o] = trashed[o],
         dedF'[o] = dedF[o], resF'[o] = resF[o]
  PROVE  DiesClean(o)
BY DEF DiesClean, Dead, HoldsNothing

LEMMA StatusCommitClean ==
  ASSUME TypeInv, LiveInv, DeathInv, NEW w \in Workers, StatusCommit(w),
         NEW o \in Orders, o = job[w].o
  PROVE  DiesClean(o)
<1>1. job[w] # NoJob /\ job[w].kind = "status" /\ JobInTx(job[w])
  BY DEF StatusCommit, Running, JobInTx, TxPhases
<1>2. job[w].ded = dedF[o] /\ job[w].res = resF[o] /\ ~trashed[o]
  BY <1>1, SettledAlone DEF SettledNow, Settled
<1>3. status'[o] = job[w].to /\ trashed' = trashed
  BY DEF StatusCommit, TypeInv, OrderTyped
<1>4. CASE job[w].to # "Cancelled"
  BY <1>2, <1>3, <1>4 DEF DiesClean, Dead
<1>5. CASE job[w].to = "Cancelled"
  <2>1. ~Verifies(job[w])
    BY <1>1, <1>5 DEF Verifies
  <2>2. GiveBack(o, dedF[o], resF[o])
    BY <1>2, <1>5, <2>1 DEF StatusCommit, MarksReturned
  <2>. QED BY <2>2, GiveBackEmpties DEF TypeInv, DiesClean
<1>. QED BY <1>4, <1>5

LEMMA OrderRowCommitClean ==
  ASSUME TypeInv, LiveInv, DeathInv, NEW w \in Workers,
         CustomerCancelCommit(w) \/ TrashCommit(w) \/ RestoreCommit(w),
         NEW o \in Orders, o = job[w].o
  PROVE  DiesClean(o)
<1>1. /\ job[w] # NoJob /\ JobInTx(job[w])
      /\ job[w].kind \in {"customer", "trash", "restore"}
  BY DEF CustomerCancelCommit, TrashCommit, RestoreCommit, Running, JobInTx, TxPhases
<1>2. /\ job[w].ded = dedF[o] /\ job[w].res = resF[o]
      /\ job[w].kind = "trash" => (job[w].extra <=> status[o] \notin GoodsAlreadyLeft)
      /\ job[w].kind = "restore" =>
           (job[w].extra <=> status[o] \notin GoodsAlreadyLeft \cup {"Cancelled"})
  BY <1>1, SettledAlone DEF SettledNow, Settled
<1>3. CASE CustomerCancelCommit(w)
  <2>1. GiveBack(o, dedF[o], resF[o])
    BY <1>2, <1>3 DEF CustomerCancelCommit
  <2>. QED BY <2>1, GiveBackEmpties DEF TypeInv, DiesClean
<1>4. CASE TrashCommit(w)
  <2>1. status' = status /\ job[w].kind = "trash"
    BY <1>4 DEF TrashCommit, Running
  <2>2. CASE job[w].extra
    <3>1. GiveBack(o, dedF[o], resF[o])
      BY <1>2, <1>4, <2>2 DEF TrashCommit
    <3>. QED BY <3>1, GiveBackEmpties DEF TypeInv, DiesClean
  <2>3. CASE ~job[w].extra
    BY <1>2, <2>1, <2>3 DEF DiesClean, Dead, AwaitsGoods, GoodsAlreadyLeft
  <2>. QED BY <2>2, <2>3
<1>5. CASE RestoreCommit(w)
  <2>1. status' = status /\ ~trashed'[o] /\ job[w].kind = "restore"
    BY <1>5 DEF RestoreCommit, Running, TypeInv, OrderTyped
  <2>2. CASE status[o] # "Cancelled"
    BY <2>1, <2>2 DEF DiesClean, Dead
  <2>3. CASE status[o] = "Cancelled"
    <3>1. ~job[w].extra
      BY <1>2, <2>1, <2>3
    <3>2. UNCHANGED stockVars
      BY <1>5, <3>1 DEF RestoreCommit
    <3>. QED BY <3>2, <2>3 DEF DiesClean, Dead, HoldsNothing, stockVars
  <2>. QED BY <2>2, <2>3
<1>. QED BY <1>3, <1>4, <1>5

(* The one commit that gives a dead order something.                       *)
LEMMA BoardCommitClean ==
  ASSUME TypeInv, LiveInv, DeathInv, NEW w \in Workers, BoardCommit(w),
         NEW o \in Orders, o = job[w].o
  PROVE  DiesClean(o)
<1>1. job[w] # NoJob /\ job[w].kind = "board" /\ JobInTx(job[w])
  BY DEF BoardCommit, Running, JobInTx, TxPhases
<1>2. /\ job[w].from = dispatch[o] /\ dispatch[o] # "None"
      /\ job[w].to \in DispatchNext[dispatch[o]]
  BY <1>1, SettledAlone DEF SettledNow, Settled
<1>3. dispatch'[o] = job[w].to /\ status' = status /\ trashed' = trashed
  BY DEF BoardCommit, orderVars, TypeInv, OrderTyped
<1>4. CASE job[w].to \notin {"HANDED_OVER", "IN_TRANSIT"}
  <2>1. UNCHANGED stockVars
    BY <1>4 DEF BoardCommit
  <2>. QED BY <2>1, <1>3, UntouchedClean DEF stockVars
<1>5. CASE job[w].to \in {"HANDED_OVER", "IN_TRANSIT"}
  <2>1. dispatch[o] \in DispatchStatuses
    BY <1>2 DEF TypeInv, OrderTyped
  <2>2. dispatch[o] \notin DispatchNext[dispatch[o]]
    BY <2>1 DEF DispatchNext, DispatchStatuses
  <2>. QED BY <2>2, <1>2, <1>3, <1>5 DEF DiesClean, Dead
<1>. QED BY <1>4, <1>5

LEMMA SyncCommitClean ==
  ASSUME TypeInv, LiveInv, DeathInv, NEW w \in Workers, SyncCommit(w),
         NEW o \in Orders, o = job[w].o
  PROVE  DiesClean(o)
<1>1. job[w] # NoJob /\ job[w].kind = "sync" /\ JobInTx(job[w])
  BY DEF SyncCommit, Running, JobInTx, TxPhases
<1>2. job[w].ded = dedF[o] /\ job[w].res = resF[o] /\ job[w].to \notin AwaitsGoods
  BY <1>1, SettledAlone DEF SettledNow, Settled
<1>3. status'[o] = job[w].to
  BY DEF SyncCommit, TypeInv, OrderTyped
<1>4. CASE job[w].to # "Cancelled"
  BY <1>2, <1>3, <1>4 DEF DiesClean, Dead
<1>5. CASE job[w].to = "Cancelled"
  <2>1. GiveBack(o, dedF[o], resF[o])
    BY <1>2, <1>5 DEF SyncCommit
  <2>. QED BY <2>1, GiveBackEmpties DEF TypeInv, DiesClean
<1>. QED BY <1>4, <1>5

LEMMA OtherCommitClean ==
  ASSUME TypeInv, LiveInv, BornInv, DeathInv, NEW w \in Workers,
         CreateCommit(w) \/ NewReturnCommit(w) \/ ReceiveCommit(w) \/ MirrorDispatch(w),
         NEW o \in Orders, o = job[w].o
  PROVE  DiesClean(o)
<1>1. CASE CreateCommit(w)
  <2>1. job[w] # NoJob /\ job[w].kind = "create"
    BY <1>1 DEF CreateCommit, Running
  <2>2. status[o] = "None"
    BY <2>1 DEF BornInv, CreatesUnborn
  <2>3. ~trashed[o] /\ trashed' = trashed /\ status'[o] = "Pending"
    BY <2>2, <1>1 DEF DeathInv, TrashedExist, CreateCommit, TypeInv, OrderTyped
  <2>. QED BY <2>3 DEF DiesClean, Dead
<1>2. CASE NewReturnCommit(w)
  <2>1. UNCHANGED <<trashed, resF, dedF>>
    BY <1>2 DEF NewReturnCommit, stockVars
  <2>2. status'[o] = "Delivered" \/ status' = status
    BY <1>2 DEF NewReturnCommit, TypeInv, OrderTyped
  <2>3. CASE status'[o] = "Delivered"
    BY <2>3 DEF DiesClean, Dead, AwaitsGoods, GoodsAlreadyLeft
  <2>4. CASE status' = status
    BY <2>1, <2>4, UntouchedClean
  <2>. QED BY <2>2, <2>3, <2>4
<1>3. CASE ReceiveCommit(w)
  BY <1>3, ReturnBackEmpties DEF ReceiveCommit, TypeInv, DiesClean
<1>4. CASE MirrorDispatch(w)
  BY <1>4, UntouchedClean DEF MirrorDispatch, stockVars, orderVars
<1>. QED BY <1>1, <1>2, <1>3, <1>4

(* The steps that touch no line and no status.                             *)
LEMMA NextTouches ==
  ASSUME [Next]_vars
  PROVE  (\E w \in Workers : Commit(w)) \/ UNCHANGED <<status, trashed, dedF, resF>>
<1>1. ASSUME NEW w \in Workers, Advance(w)
      PROVE  Commit(w) \/ UNCHANGED <<status, trashed, dedF, resF>>
  BY <1>1 DEF Advance, Commit, OrderBegin, HoldGate, HoldApply, HoldFails, BoardBegin, SyncGate,
     ReceiveBegin, Abort, stockVars, orderVars
<1>2. ASSUME NEW w \in Workers, NEW o \in Orders, StartHandler(w, o)
      PROVE  UNCHANGED <<status, trashed, dedF, resF>>
  BY <1>2 DEF StartHandler, CreateGate, StatusGate, CustomerCancelGate, TrashGate, RestoreGate,
         BoardGate, NewReturnGate, ReceiveGate, stockVars, orderVars
<1>3. ASSUME NEW o \in Orders, BookCourier(o) \/ \E i \in 1..MaxReturns : CloseReturn(o, i)
      PROVE  UNCHANGED <<status, trashed, dedF, resF>>
  BY <1>3 DEF BookCourier, CloseReturn, stockVars, orderVars
<1>4. CASE UNCHANGED vars
  BY <1>4 DEF vars, stockVars, orderVars
<1>. QED BY <1>1, <1>2, <1>3, <1>4 DEF Next

LEMMA StepClean ==
  ASSUME TypeInv, LiveInv, BornInv, DeathInv, [Next]_vars
  PROVE  \A o \in Orders : DiesClean(o)
<1>1. CASE UNCHANGED <<status, trashed, dedF, resF>>
  BY <1>1, UntouchedClean
<1>2. ASSUME NEW w \in Workers, Commit(w), NEW o \in Orders PROVE DiesClean(o)
  <2>1. CASE o # job[w].o
    <3>1. /\ status'[o] = status[o] /\ trashed'[o] = trashed[o]
          /\ dedF'[o] = dedF[o] /\ resF'[o] = resF[o]
      BY <1>2, <2>1, CommitLocal
    <3>. QED BY <3>1, UntouchedClean
  <2>2. CASE o = job[w].o
    BY <1>2, <2>2, StatusCommitClean, OrderRowCommitClean, BoardCommitClean, SyncCommitClean,
       OtherCommitClean DEF Commit
  <2>. QED BY <2>1, <2>2
<1>. QED BY <1>1, <1>2, NextTouches

(* However an order dies, cancelled by staff, by its customer, by the      *)
(* courier's board or put in the trash, one request at a time, it dies with*)
(* nothing, whatever other orders do to the same counters meanwhile; and   *)
(* the only thing that gives a dead order something is the hand-over of a  *)
(* parcel still booked for it.                                             *)
THEOREM OrdersDieEmpty ==
  ASSUME Serial
  PROVE  Spec => DiesWithNothing
<1>1. TypeInv /\ LiveInv /\ [Next]_vars => LiveInv'
  BY StepLive
<1>2. TypeInv /\ LiveInv /\ BornInv /\ DeathInv /\ [Next]_vars => DeathInv'
  BY StepDeath
<1>3. TypeInv /\ LiveInv /\ BornInv /\ DeathInv /\ [Next]_vars
        => [\A o \in Orders : DiesClean(o)]_vars
  BY StepClean
<1>. QED BY InitTyped, StepTyped, InitLive, InitBorn, StepBorn, InitDeath, <1>1, <1>2, <1>3,
            PTL DEF Spec, DiesWithNothing
=============================================================================
