------------------------ MODULE PhysicalStockProofs ------------------------
(***************************************************************************)
(* No costing lot is ever overdrawn, for any orders, rows, lots and jobs.  *)
(*                                                                         *)
(* What the open transactions have taken of a lot is covered by what the   *)
(* lot still has, and no two of them have taken of the same lot: a commit  *)
(* subtracts what was there when it was claimed and nobody else moved.     *)
(*                                                                         *)
(* The second part is about sums.  The books of the physical goods agree   *)
(* with the orders: counters follow the active claims, what is reserved is *)
(* on hand, no lot is restored beyond its receipt, and a cost comes back   *)
(* with its goods, each but for the exceptions its property names.         *)
(*                                                                         *)
(* The last part maps every step to one of CostBooks, or to none.          *)
(***************************************************************************)
EXTENDS PhysicalStock, SumTheorems

(* What a job is about to take is part of what it needs.                   *)
Takes ==
  \A w \in Workers : /\ job[w].take <= job[w].need
                     /\ job[w].pick = 0 => job[w].take = 0
                     /\ job[w].op \in {"reserve", "ship"} => job[w].o \in Orders

Backed == \A w \in Workers, l \in Lots : job[w].cost[l] <= left[l]

Exclusive ==
  \A v, w \in Workers : v # w => \A l \in Lots : job[v].cost[l] = 0 \/ job[w].cost[l] = 0

(* Nothing has been taken of a lot that was not received yet.              *)
Unborn == \A l \in Lots : got[l] = 0 => left[l] = 0 /\ \A o \in Orders : used[o][l].owed = 0

Inv == TypeOK /\ NoLotOverdrawn /\ Takes /\ Backed /\ Exclusive /\ Unborn

-----------------------------------------------------------------------------
LEMMA ZerosType == None \in [Rows -> Nat] /\ NoCost \in [Lots -> Nat] /\ 0 \notin Lots
  BY PhysicalAssumption DEF None, NoCost, Lots

LEMMA NoJobType == NoJob \in Jobs
  BY ZerosType DEF NoJob, Jobs

LEMMA WalkType ==
  ASSUME NEW there, NEW n \in Nat, NEW f \in Walks(there, n)
  PROVE  f \in [Rows -> Nat]
  BY DEF Walks

(* A job that keeps or drops what it has taken, while no lot shrinks,      *)
(* disturbs nothing.                                                       *)
NoLotShrinks == left' \in [Lots -> Int] /\ \A l \in Lots : left[l] <= left'[l]

Harmless(w, j) ==
  /\ j \in Jobs /\ job' = [job EXCEPT ![w] = j] /\ NoLotShrinks
  /\ \A l \in Lots : j.cost[l] = job[w].cost[l] \/ j.cost[l] = 0
  /\ j.take <= j.need /\ (j.pick = 0 => j.take = 0)
  /\ j.op \in {"reserve", "ship"} => j.o \in Orders

JobsInv == job \in [Workers -> Jobs] /\ NoLotOverdrawn /\ Takes /\ Backed /\ Exclusive

LEMMA JobStep ==
  ASSUME Inv, NEW w \in Workers, NEW j, Harmless(w, j)
  PROVE  JobsInv'
<1> USE DEF Inv, TypeOK, Harmless, NoLotShrinks
<1>1. job' \in [Workers -> Jobs]  OBVIOUS
<1>2. \A v \in Workers : job'[v] = IF v = w THEN j ELSE job[v]  OBVIOUS
<1>3. \A v \in Workers, l \in Lots :
        /\ job[v].cost[l] \in Nat
        /\ job'[v].cost[l] = job[v].cost[l] \/ job'[v].cost[l] = 0
  BY <1>2 DEF Jobs
<1>4. NoLotOverdrawn'  BY DEF NoLotOverdrawn
<1>5. Takes'  BY <1>2 DEF Takes
<1>6. Backed'
  <2> SUFFICES ASSUME NEW v \in Workers, NEW l \in Lots PROVE job'[v].cost[l] <= left'[l]
    BY DEF Backed
  <2>1. left[l] \in Int /\ left'[l] \in Int /\ 0 <= left[l] /\ left[l] <= left'[l]
    BY DEF NoLotOverdrawn
  <2>2. job[v].cost[l] <= left[l]  BY DEF Backed
  <2> QED  BY <1>3, <2>1, <2>2
<1>7. Exclusive'  BY <1>3 DEF Exclusive
<1> QED  BY <1>1, <1>4, <1>5, <1>6, <1>7 DEF JobsInv

LEMMA DoneStep ==
  ASSUME Inv, NEW w \in Workers, Done(w), NoLotShrinks
  PROVE  JobsInv'
<1>1. job' = [job EXCEPT ![w] = NoJob]  BY DEF Done
<1>2. /\ \A l \in Lots : NoJob.cost[l] = 0
      /\ NoJob.take = 0 /\ NoJob.need = 0 /\ NoJob.op = "idle"
  BY DEF NoJob, NoCost
<1>3. Harmless(w, NoJob)  BY <1>1, <1>2, NoJobType DEF Harmless
<1> QED  BY <1>3, JobStep

(* The commit of what a job has taken of the lots.                         *)
LEMMA CommitStep ==
  ASSUME Inv, NEW w \in Workers, Done(w), left' = Minus(left, job[w].cost)
  PROVE  left' \in [Lots -> Int] /\ JobsInv'
<1> USE DEF Inv, TypeOK
<1>1. \A v \in Workers : job'[v] = IF v = w THEN NoJob ELSE job[v]  BY DEF Done
<1>2. job' \in [Workers -> Jobs]  BY NoJobType DEF Done
<1>3. \A v \in Workers, l \in Lots : job[v].cost[l] \in Nat  BY DEF Jobs
<1>4. left' = [l \in Lots |-> left[l] - job[w].cost[l]]  BY DEF Minus
<1>5. left' \in [Lots -> Int]  BY <1>3, <1>4
<1>6. \A l \in Lots : NoJob.cost[l] = 0 /\ NoJob.take = 0 /\ NoJob.need = 0 /\ NoJob.op = "idle"
  BY DEF NoJob, NoCost
<1>7. NoLotOverdrawn'  BY <1>3, <1>4 DEF NoLotOverdrawn, Backed
<1>8. Takes'
  <2>1. NoJob.take = 0 /\ NoJob.need = 0 /\ NoJob.op = "idle"  BY DEF NoJob
  <2> QED  BY <1>1, <2>1 DEF Takes
<1>9. Backed'
  <2> SUFFICES ASSUME NEW v \in Workers, NEW l \in Lots PROVE job'[v].cost[l] <= left'[l]
    BY DEF Backed
  <2>1. CASE v = w
    BY <2>1, <1>1, <1>6, <1>7 DEF NoLotOverdrawn
  <2>2. CASE v # w
    <3>1. job'[v].cost[l] = job[v].cost[l]  BY <2>2, <1>1
    <3>2. job[v].cost[l] = 0 \/ job[w].cost[l] = 0  BY <2>2 DEF Exclusive
    <3>3. job[v].cost[l] <= left[l]  BY DEF Backed
    <3>4. left'[l] >= 0 /\ left'[l] = left[l] - job[w].cost[l]  BY <1>4, <1>7 DEF NoLotOverdrawn
    <3> QED  BY <3>1, <3>2, <3>3, <3>4, <1>3
  <2> QED  BY <2>1, <2>2
<1>10. Exclusive'  BY <1>1, <1>6 DEF Exclusive
<1> QED  BY <1>2, <1>5, <1>7, <1>8, <1>9, <1>10 DEF JobsInv

-----------------------------------------------------------------------------
LEMMA InitInv == Init => Inv
<1> SUFFICES ASSUME Init PROVE Inv  OBVIOUS
<1> USE PhysicalAssumption DEF Init
<1>1. NoClaim \in Claims /\ NoUse \in Uses  BY ZerosType DEF NoClaim, Claims, NoUse, Uses
<1>2. job \in [Workers -> Jobs]  BY NoJobType
<1>3. qty \in [Rows -> Int] /\ res \in [Rows -> Int] /\ stray \in [Rows -> Int]
  BY ZerosType
<1>4. TypeOK  BY <1>1, <1>2, <1>3 DEF TypeOK, Stages
<1>5. NoLotOverdrawn  BY DEF NoLotOverdrawn
<1>6. \A w \in Workers : /\ job[w].take = 0 /\ job[w].need = 0 /\ job[w].op = "idle"
                         /\ \A l \in Lots : job[w].cost[l] = 0
  BY DEF NoJob, NoCost
<1>7. Takes /\ Backed /\ Exclusive  BY <1>6 DEF Takes, Backed, Exclusive
<1>8. Unborn  BY DEF Unborn, NoUse
<1> QED  BY <1>4, <1>5, <1>7, <1>8 DEF Inv

LEMMA StillUnborn ==
  ASSUME Inv, UNCHANGED <<got, left, used>>
  PROVE  Unborn'
  BY DEF Inv, Unborn

LEMMA LookInv == \A w \in Workers, o \in Orders : Inv /\ Look(w, o) => Inv'
<1> SUFFICES ASSUME NEW w \in Workers, NEW o \in Orders, Inv, Look(w, o) PROVE Inv'
  OBVIOUS
<1> USE DEF Look
<1>1. PICK plan \in Walks([r \in Rows |-> Available(r)], Qty[o]) :
        job' = [job EXCEPT ![w] = [NoJob EXCEPT !.op = "reserve", !.o = o, !.plan = plan]]
  OBVIOUS
<1> DEFINE j == [NoJob EXCEPT !.op = "reserve", !.o = o, !.plan = plan]
<1>2. plan \in [Rows -> Nat]  BY WalkType, PhysicalAssumption
<1>3. j \in Jobs  BY <1>2, ZerosType DEF NoJob, Jobs
<1>4. j.take = 0 /\ j.need = 0 /\ j.o = o /\ \A l \in Lots : j.cost[l] = 0  BY DEF NoJob, NoCost
<1>5. NoLotShrinks  BY DEF Inv, TypeOK, lots, NoLotShrinks
<1> HIDE DEF j, Look
<1>6. Harmless(w, j)  BY <1>1, <1>3, <1>4, <1>5 DEF Harmless, j
<1>7. JobsInv'  BY <1>6, JobStep
<1>8. TypeOK'  BY <1>7 DEF Inv, JobsInv, TypeOK, stock, lots, order, aside, Look
<1>9. Unborn'  BY StillUnborn DEF Look, lots, order, aside
<1> QED  BY <1>7, <1>8, <1>9 DEF Inv, JobsInv

(* Steps that leave lots alone and end a job.                              *)
LEMMA IdleType == \A w \in Workers : Inv => job[w] \in Jobs
  BY DEF Inv, TypeOK

LEMMA ReserveInv == \A w \in Workers : Inv /\ Reserve(w) => Inv'
<1> SUFFICES ASSUME NEW w \in Workers, Inv, Reserve(w) PROVE Inv'
  OBVIOUS
<1> USE DEF Reserve
<1>1. NoLotShrinks  BY DEF Inv, TypeOK, lots, NoLotShrinks
<1>2. JobsInv'  BY <1>1, DoneStep
<1>3. job[w].plan \in [Rows -> Nat]  BY DEF Inv, TypeOK, Jobs
<1>4. res' \in [Rows -> Int]  BY <1>3 DEF Inv, TypeOK
<1>5. claim' \in [Orders -> Claims]
  <2>1. [st |-> "ACTIVE", plan |-> job[w].plan] \in Claims  BY <1>3 DEF Claims
  <2> QED  BY <2>1 DEF Inv, TypeOK
<1>6. stage' \in [Orders -> Stages] /\ cycle' \in [Orders -> Nat]
  <2>1. "reserved" \in Stages  BY DEF Stages
  <2>2. job[w].o \in Orders  BY DEF Inv, Takes
  <2> QED  BY <2>1, <2>2 DEF Inv, TypeOK
<1>7. loose' \subseteq Rows
  BY <1>3 DEF Inv, TypeOK, Where
<1>8. TypeOK'  BY <1>2, <1>4, <1>5, <1>6, <1>7 DEF Inv, JobsInv, TypeOK, lots
<1> QED  BY <1>2, <1>8, StillUnborn DEF Inv, JobsInv, lots, order, aside

LEMMA HandOverInv == \A w \in Workers, o \in Orders : Inv /\ HandOver(w, o) => Inv'
<1> SUFFICES ASSUME NEW w \in Workers, NEW o \in Orders, Inv, HandOver(w, o) PROVE Inv'
  OBVIOUS
<1> USE DEF HandOver
<1> DEFINE j == [NoJob EXCEPT !.op = "ship", !.o = o, !.todo = Where(claim[o].plan)]
<1>1. Where(claim[o].plan) \subseteq Rows  BY DEF Inv, TypeOK, Claims, Where
<1>2. j \in Jobs  BY <1>1, ZerosType DEF NoJob, Jobs
<1>3. j.take = 0 /\ j.need = 0 /\ j.o = o /\ \A l \in Lots : j.cost[l] = 0  BY DEF NoJob, NoCost
<1>4. NoLotShrinks  BY DEF Inv, TypeOK, lots, NoLotShrinks
<1>5. job' = [job EXCEPT ![w] = j]  OBVIOUS
<1> HIDE DEF j, HandOver
<1>6. Harmless(w, j)  BY <1>2, <1>3, <1>4, <1>5 DEF Harmless
<1>7. JobsInv'  BY <1>6, JobStep
<1>8. TypeOK'  BY <1>7 DEF Inv, JobsInv, TypeOK, stock, lots, order, aside, HandOver
<1>9. Unborn'  BY StillUnborn DEF HandOver, lots, order, aside
<1> QED  BY <1>7, <1>8, <1>9 DEF Inv, JobsInv

LEMMA TakeRowInv == \A w \in Workers, r \in Rows : Inv /\ TakeRow(w, r) => Inv'
<1> SUFFICES ASSUME NEW w \in Workers, NEW r \in Rows, Inv, TakeRow(w, r) PROVE Inv'
  OBVIOUS
<1> USE DEF TakeRow
<1> DEFINE n == claim[job[w].o].plan[r]
           j == [job[w] EXCEPT !.todo = @ \ {r}, !.took[r] = n, !.need = n, !.skip = {}]
<1>1. job[w] \in Jobs  BY IdleType
<1>2. n \in Nat  BY DEF Inv, TypeOK, Takes, Claims
<1>3. j \in Jobs  BY <1>1, <1>2 DEF Jobs
<1>4. /\ j.take = job[w].take /\ j.need = n /\ j.pick = job[w].pick /\ j.op = job[w].op
      /\ j.o = job[w].o /\ j.cost = job[w].cost
  BY <1>1 DEF Jobs
<1>5. job[w].take = 0
  BY <1>1 DEF Inv, Takes, Jobs
<1>6. NoLotShrinks  BY DEF Inv, TypeOK, lots, NoLotShrinks
<1>7. job' = [job EXCEPT ![w] = j]  BY DEF Inv, TypeOK
<1> HIDE DEF j, n, TakeRow
<1>8. Harmless(w, j)  BY <1>2, <1>3, <1>4, <1>5, <1>6, <1>7 DEF Harmless, Inv, Takes
<1>9. JobsInv'  BY <1>8, JobStep
<1>10. TypeOK'  BY <1>9 DEF Inv, JobsInv, TypeOK, stock, lots, order, aside, TakeRow
<1>11. Unborn'  BY StillUnborn DEF TakeRow, lots, order, aside
<1> QED  BY <1>9, <1>10, <1>11 DEF Inv, JobsInv

LEMMA FindLotInv == \A w \in Workers : Inv /\ FindLot(w) => Inv'
<1> SUFFICES ASSUME NEW w \in Workers, Inv, FindLot(w) PROVE Inv'
  OBVIOUS
<1> USE DEF FindLot
<1>1. job[w] \in Jobs  BY IdleType
<1>2. NoLotShrinks  BY DEF Inv, TypeOK, lots, NoLotShrinks
<1>3. JobsInv'
  <2> DEFINE Found(l) == job' = [job EXCEPT ![w].pick = l, ![w].take = Least(job[w].need, Seen(w, l))]
             Short == job' = [job EXCEPT ![w].need = 0]
  <2>1. CASE \E l \in Candidates(w) : Found(l)
    <3>1. PICK l \in Candidates(w) : Found(l)
      BY <2>1
    <3> DEFINE t == Least(job[w].need, Seen(w, l))
               j == [job[w] EXCEPT !.pick = l, !.take = t]
    <3>2. l \in Lots /\ Seen(w, l) > 0  BY DEF Candidates
    <3>3. Seen(w, l) \in Int  BY <1>1, <3>2 DEF Seen, Inv, TypeOK, Jobs
    <3>4. job[w].need \in Nat  BY <1>1 DEF Jobs
    <3>5. t \in Nat /\ t <= job[w].need  BY <3>2, <3>3, <3>4 DEF Least
    <3>6. job' = [job EXCEPT ![w] = j]  BY <3>1 DEF Inv, TypeOK
    <3> HIDE DEF t
    <3>7. j \in Jobs  BY <1>1, <3>2, <3>5 DEF Jobs
    <3>8. /\ j.take = t /\ j.need = job[w].need /\ j.pick = l /\ j.op = job[w].op
          /\ j.o = job[w].o /\ j.cost = job[w].cost
      BY <1>1 DEF Jobs
    <3>9. l # 0  BY <3>2, ZerosType
    <3> HIDE DEF j
    <3> QED  BY <1>2, <3>5, <3>6, <3>7, <3>8, <3>9, JobStep DEF Harmless, Inv, Takes
  <2>2. CASE Short
    <3> DEFINE j == [job[w] EXCEPT !.need = 0]
    <3>1. job' = [job EXCEPT ![w] = j]  BY <2>2 DEF Inv, TypeOK
    <3>2. j \in Jobs  BY <1>1 DEF Jobs
    <3>3. /\ j.take = job[w].take /\ j.need = 0 /\ j.pick = job[w].pick /\ j.op = job[w].op
          /\ j.o = job[w].o /\ j.cost = job[w].cost
      BY <1>1 DEF Jobs
    <3>4. job[w].take = 0 /\ (job[w].op \in {"reserve", "ship"} => job[w].o \in Orders)
      BY DEF Inv, Takes
    <3> HIDE DEF j, FindLot
    <3>5. Harmless(w, j)  BY <1>2, <3>1, <3>2, <3>3, <3>4 DEF Harmless
    <3> QED  BY <3>5, JobStep
  <2>3. CASE Done(w)
    BY <1>2, <2>3, DoneStep
  <2>4. (\E l \in Candidates(w) : Found(l)) \/ Short \/ Done(w)  BY DEF FindLot
  <2> HIDE DEF Found, Short, FindLot
  <2> QED  BY <2>1, <2>2, <2>3, <2>4
<1>4. TypeOK'  BY <1>3 DEF Inv, JobsInv, TypeOK, stock, lots, order, aside
<1> QED  BY <1>3, <1>4, StillUnborn DEF Inv, JobsInv, lots, order, aside

(* A step that leaves the jobs alone while no lot shrinks.                 *)
LEMMA OutsideStep ==
  ASSUME Inv, UNCHANGED job, NoLotShrinks
  PROVE  JobsInv'
<1> USE DEF Inv, TypeOK, NoLotShrinks
<1>1. \A v \in Workers, l \in Lots : job[v].cost[l] \in Nat  BY DEF Jobs
<1>2. NoLotOverdrawn'  BY DEF NoLotOverdrawn
<1>3. Takes' /\ Exclusive'  BY DEF Takes, Exclusive
<1>4. Backed'
  <2> SUFFICES ASSUME NEW v \in Workers, NEW l \in Lots PROVE job[v].cost[l] <= left'[l]
    BY DEF Backed
  <2>1. left[l] \in Int /\ left'[l] \in Int /\ left[l] <= left'[l]  OBVIOUS
  <2>2. job[v].cost[l] <= left[l]  BY DEF Backed
  <2> QED  BY <1>1, <2>1, <2>2
<1> QED  BY <1>2, <1>3, <1>4 DEF JobsInv

(* What TakeLot makes of a job.                                            *)
LEMMA NextJob ==
  ASSUME NEW j \in Jobs, j.pick \in Lots, j.take <= j.need
  PROVE  /\ Served(j) \in Jobs /\ Served(j).pick = 0 /\ Served(j).take = 0
         /\ Served(j).op = j.op /\ Served(j).o = j.o /\ Served(j).cost = j.cost
         /\ Skipped(j) \in Jobs /\ Skipped(j).pick = 0 /\ Skipped(j).take = 0
         /\ Skipped(j).op = j.op /\ Skipped(j).o = j.o /\ Skipped(j).cost = j.cost
         /\ Costed(j) \in Jobs /\ Costed(j).pick = 0 /\ Costed(j).take = 0
         /\ Costed(j).op = j.op /\ Costed(j).o = j.o
         /\ Costed(j).cost = [j.cost EXCEPT ![j.pick] = @ + j.take]
<1> DEFINE s == Served(j)
           more == [j.cost EXCEPT ![j.pick] = @ + j.take]
<1>1. j.need \in Nat /\ j.take \in Nat /\ j.cost \in [Lots -> Nat]  BY DEF Jobs
<1>2. j.need - j.take \in Nat  BY <1>1
<1>3. /\ s \in Jobs /\ s.pick = 0 /\ s.take = 0 /\ s.op = j.op /\ s.o = j.o /\ s.cost = j.cost
  BY <1>2 DEF Served, Jobs
<1>4. /\ Skipped(j) \in Jobs /\ Skipped(j).pick = 0 /\ Skipped(j).take = 0
      /\ Skipped(j).op = j.op /\ Skipped(j).o = j.o /\ Skipped(j).cost = j.cost
  BY DEF Skipped, Jobs
<1>5. more \in [Lots -> Nat]  BY <1>1
<1>6. Costed(j) = [s EXCEPT !.cost = more]  BY DEF Costed
<1> HIDE DEF s, more
<1>7. /\ Costed(j) \in Jobs /\ Costed(j).pick = 0 /\ Costed(j).take = 0
      /\ Costed(j).op = j.op /\ Costed(j).o = j.o /\ Costed(j).cost = more
  BY <1>3, <1>5, <1>6 DEF Jobs
<1> QED  BY <1>3, <1>4, <1>7 DEF s, more

LEMMA TakeLotInv == \A w \in Workers : Inv /\ TakeLot(w) => Inv'
<1> SUFFICES ASSUME NEW w \in Workers, Inv, TakeLot(w) PROVE Inv'
  OBVIOUS
<1>1. job[w] \in Jobs /\ job \in [Workers -> Jobs]  BY DEF Inv, TypeOK
<1>2. PICK l : l = job[w].pick  OBVIOUS
<1>3. PICK n : n = job[w].take  OBVIOUS
<1>4. l \in Lots /\ n \in Nat /\ n <= job[w].need /\ job[w].need \in Nat
  BY <1>1, <1>2, <1>3 DEF TakeLot, Inv, Takes, Jobs
<1>5. left \in [Lots -> Int] /\ \A v \in Workers, k \in Lots : job[v].cost[k] \in Nat
  BY <1>1 DEF Inv, TypeOK, Jobs
<1>6. job[w].op \in {"reserve", "ship"} => job[w].o \in Orders  BY DEF Inv, Takes
<1>7. \A v \in Workers \ {w} : job[v].cost[l] = 0  BY <1>2 DEF TakeLot, LotsFree
<1>8. UNCHANGED <<qty, res, got, stage, cycle, claim, used, gone, came, moves, stray, loose>>
  BY DEF TakeLot, stock, order, aside
<1>9. /\ Served(job[w]) \in Jobs /\ Served(job[w]).pick = 0 /\ Served(job[w]).take = 0
      /\ Served(job[w]).op = job[w].op /\ Served(job[w]).o = job[w].o
      /\ Served(job[w]).cost = job[w].cost
      /\ Skipped(job[w]) \in Jobs /\ Skipped(job[w]).pick = 0 /\ Skipped(job[w]).take = 0
      /\ Skipped(job[w]).op = job[w].op /\ Skipped(job[w]).o = job[w].o
      /\ Skipped(job[w]).cost = job[w].cost
      /\ Costed(job[w]) \in Jobs /\ Costed(job[w]).pick = 0 /\ Costed(job[w]).take = 0
      /\ Costed(job[w]).op = job[w].op /\ Costed(job[w]).o = job[w].o
      /\ Costed(job[w]).cost = [job[w].cost EXCEPT ![l] = @ + n]
  BY <1>1, <1>2, <1>3, <1>4, NextJob
<1>10. CASE job' = [job EXCEPT ![w] = Skipped(job[w])] /\ UNCHANGED left
  <2>1. NoLotShrinks  BY <1>5, <1>10 DEF NoLotShrinks
  <2>2. Skipped(job[w]).need \in Nat  BY <1>9 DEF Jobs
  <2>3. Harmless(w, Skipped(job[w]))  BY <1>6, <1>9, <1>10, <2>1, <2>2 DEF Harmless
  <2>4. JobsInv'  BY <2>3, JobStep
  <2>5. Unborn'  BY <1>8, <1>10, StillUnborn
  <2>6. TypeOK'  BY <1>8, <1>10, <2>4 DEF Inv, JobsInv, TypeOK
  <2> QED  BY <2>4, <2>5, <2>6 DEF Inv, JobsInv
<1>11. CASE /\ n <= Seen(w, l) /\ UNCHANGED left
            /\ job' = [job EXCEPT ![w] = Costed(job[w])]
  <2> DEFINE j == Costed(job[w])
  <2>1. \A v \in Workers : job'[v] = IF v = w THEN j ELSE job[v]  BY <1>1, <1>11
  <2>2. job' \in [Workers -> Jobs]  BY <1>1, <1>9, <1>11
  <2>3. \A k \in Lots : j.cost[k] = IF k = l THEN job[w].cost[l] + n ELSE job[w].cost[k]
    <3>1. job[w].cost \in [Lots -> Nat]  BY <1>1 DEF Jobs
    <3> QED  BY <1>4, <1>9, <3>1
  <2>4. j.need \in Nat /\ j.take = 0 /\ j.op = job[w].op /\ j.o = job[w].o
    BY <1>9 DEF Jobs
  <2> HIDE DEF j
  <2>5. NoLotOverdrawn'  BY <1>11 DEF Inv, NoLotOverdrawn
  <2>6. Takes'  BY <1>6, <2>1, <2>4 DEF Inv, Takes
  <2>7. Backed'
    <3> SUFFICES ASSUME NEW v \in Workers, NEW k \in Lots PROVE job'[v].cost[k] <= left[k]
      BY <1>11 DEF Backed
    <3>1. job[v].cost[k] <= left[k]  BY DEF Inv, Backed
    <3>2. job[w].cost[l] + n <= left[l]  BY <1>4, <1>5, <1>11 DEF Seen
    <3> QED  BY <2>1, <2>3, <3>1, <3>2
  <2>8. Exclusive'
    <3> SUFFICES ASSUME NEW u \in Workers, NEW v \in Workers, u # v, NEW k \in Lots
                 PROVE  job'[u].cost[k] = 0 \/ job'[v].cost[k] = 0
      BY DEF Exclusive
    <3>1. job[u].cost[k] = 0 \/ job[v].cost[k] = 0  BY DEF Inv, Exclusive
    <3> QED  BY <2>1, <2>3, <1>7, <3>1
  <2>9. Unborn'  BY <1>8, <1>11, StillUnborn
  <2>10. TypeOK'  BY <1>8, <1>11, <2>2 DEF Inv, TypeOK
  <2> QED  BY <2>5, <2>6, <2>7, <2>8, <2>9, <2>10 DEF Inv
<1>12. CASE /\ n <= Seen(w, l) /\ left' = [left EXCEPT ![l] = @ - n]
            /\ Done(w) \/ job' = [job EXCEPT ![w] = Served(job[w])]
  <2>1. PICK j \in {NoJob, Served(job[w])} : job' = [job EXCEPT ![w] = j]
    BY <1>12 DEF Done
  <2>2. \A k \in Lots : left'[k] = IF k = l THEN left[l] - n ELSE left[k]  BY <1>5, <1>12
  <2>3. left' \in [Lots -> Int]  BY <1>4, <1>5, <1>12
  <2>4. job[w].cost[l] + n <= left[l]  BY <1>4, <1>5, <1>12 DEF Seen
  <2>5. /\ j \in Jobs /\ j.take = 0
        /\ j.op \in {"reserve", "ship"} => j.o \in Orders
        /\ \A k \in Lots : j.cost[k] = job[w].cost[k] \/ j.cost[k] = 0
    <3>1. /\ NoJob \in Jobs /\ NoJob.take = 0 /\ NoJob.op = "idle"
          /\ \A k \in Lots : NoJob.cost[k] = 0
      BY NoJobType DEF NoJob, NoCost
    <3> QED  BY <1>6, <1>9, <3>1
  <2>6. j.need \in Nat  BY <2>5 DEF Jobs
  <2>7. \A v \in Workers : job'[v] = IF v = w THEN j ELSE job[v]  BY <1>1, <2>1
  <2>8. job' \in [Workers -> Jobs]  BY <1>1, <2>1, <2>5
  <2>9. NoLotOverdrawn'
    BY <1>4, <1>5, <2>2, <2>4 DEF Inv, NoLotOverdrawn
  <2>10. Takes'  BY <2>5, <2>6, <2>7 DEF Inv, Takes
  <2>11. Backed'
    <3> SUFFICES ASSUME NEW v \in Workers, NEW k \in Lots PROVE job'[v].cost[k] <= left'[k]
      BY DEF Backed
    <3>1. job[v].cost[k] <= left[k]  BY DEF Inv, Backed
    <3>2. 0 <= left'[k]  BY <2>9 DEF NoLotOverdrawn
    <3>3. CASE v = w /\ j.cost[k] = 0  BY <3>2, <3>3, <2>7
    <3>4. CASE v = w /\ j.cost[k] = job[w].cost[k]  BY <3>1, <3>4, <1>4, <1>5, <2>2, <2>4, <2>7
    <3>5. CASE v # w  BY <3>1, <3>2, <3>5, <1>7, <2>2, <2>7
    <3> QED  BY <2>5, <3>3, <3>4, <3>5
  <2>12. Exclusive'
    <3> SUFFICES ASSUME NEW u \in Workers, NEW v \in Workers, u # v, NEW k \in Lots
                 PROVE  job'[u].cost[k] = 0 \/ job'[v].cost[k] = 0
      BY DEF Exclusive
    <3>1. job[u].cost[k] = 0 \/ job[v].cost[k] = 0  BY DEF Inv, Exclusive
    <3> QED  BY <2>5, <2>7, <3>1
  <2>13. Unborn'
    <3>1. got[l] = 0 => n = 0 /\ left[l] = 0  BY <1>4, <1>5, <2>4 DEF Inv, Unborn
    <3> QED  BY <1>4, <1>8, <2>2, <3>1 DEF Inv, Unborn
  <2>14. TypeOK'  BY <1>8, <2>3, <2>8 DEF Inv, TypeOK
  <2> QED  BY <2>9, <2>10, <2>11, <2>12, <2>13, <2>14 DEF Inv
<1>13. \/ job' = [job EXCEPT ![w] = Skipped(job[w])] /\ UNCHANGED left
       \/ /\ n <= Seen(w, l) /\ UNCHANGED left
          /\ job' = [job EXCEPT ![w] = Costed(job[w])]
       \/ /\ n <= Seen(w, l) /\ left' = [left EXCEPT ![l] = @ - n]
          /\ Done(w) \/ job' = [job EXCEPT ![w] = Served(job[w])]
  BY <1>2, <1>3 DEF TakeLot, Consume
<1> QED  BY <1>10, <1>11, <1>12, <1>13

-----------------------------------------------------------------------------
(* Two functions of which one is subtracted stay functions to the integers.*)
LEMMA MinusType ==
  ASSUME NEW f \in [Rows -> Int], NEW g \in [Rows -> Int]
  PROVE  Minus(f, g) \in [Rows -> Int]
  BY DEF Minus

LEMMA ShipCommitInv == \A w \in Workers : Inv /\ ShipCommit(w) => Inv'
<1> SUFFICES ASSUME NEW w \in Workers, Inv, ShipCommit(w) PROVE Inv'
  OBVIOUS
<1>1. job[w] \in Jobs  BY DEF Inv, TypeOK
<1>2. PICK o \in Orders : o = job[w].o  BY DEF ShipCommit, Inv, Takes
<1>3. left' \in [Lots -> Int] /\ JobsInv'  BY CommitStep DEF ShipCommit
<1>4. \A l \in Lots : left'[l] = left[l] - job[w].cost[l] /\ job[w].cost[l] \in Nat
  BY <1>1 DEF ShipCommit, Minus, Inv, TypeOK, Jobs
<1>5. qty' \in [Rows -> Int] /\ res' \in [Rows -> Int]
  <2>1. job[w].took \in [Rows -> Int]  BY <1>1 DEF Jobs
  <2> QED  BY <2>1, MinusType DEF ShipCommit, Inv, TypeOK
<1>6. Record(o, job[w].cost) \in Uses
  <2>1. used[o] \in Uses /\ cycle[o] \in Nat  BY DEF Inv, TypeOK
  <2> SUFFICES ASSUME NEW l \in Lots
               PROVE  /\ used[o][l] \in [owed : Nat, cycle : Nat]
                      /\ used[o][l].owed + job[w].cost[l] \in Nat
                      /\ (IF used[o][l].cycle = 0 THEN cycle[o] ELSE used[o][l].cycle) \in Nat
    BY DEF Record, Uses
  <2> QED  BY <2>1, <1>4 DEF Uses
<1>7. used' = [used EXCEPT ![o] = Record(o, job[w].cost)]  BY <1>2 DEF ShipCommit
<1>8. used' \in [Orders -> Uses]  BY <1>6, <1>7 DEF Inv, TypeOK
<1>9. claim' \in [Orders -> Claims]
  <2>1. [claim[o] EXCEPT !.st = "CONSUMED"] \in Claims  BY DEF Inv, TypeOK, Claims
  <2>2. claim' = [claim EXCEPT ![o] = [claim[o] EXCEPT !.st = "CONSUMED"]]
    BY <1>2 DEF ShipCommit, Inv, TypeOK
  <2> QED  BY <2>1, <2>2 DEF Inv, TypeOK
<1>10. stage' \in [Orders -> Stages] /\ gone' \in [Orders -> Int]
  <2>1. stage' = [stage EXCEPT ![o] = "out"] /\ gone' = [gone EXCEPT ![o] = Qty[o]]
    BY <1>2 DEF ShipCommit
  <2>2. Qty[o] \in Int /\ "out" \in Stages  BY PhysicalAssumption DEF Stages
  <2> QED  BY <2>1, <2>2 DEF Inv, TypeOK
<1>11. TypeOK'
  BY <1>3, <1>5, <1>8, <1>9, <1>10 DEF ShipCommit, Inv, JobsInv, TypeOK, aside
<1>12. Unborn'
  <2> SUFFICES ASSUME NEW l \in Lots, got[l] = 0
               PROVE  left'[l] = 0 /\ \A p \in Orders : used'[p][l].owed = 0
    BY DEF Unborn, ShipCommit
  <2>1. left[l] = 0 /\ \A p \in Orders : used[p][l].owed = 0  BY DEF Inv, Unborn
  <2>2. job[w].cost[l] = 0  BY <2>1, <1>4 DEF Inv, Backed
  <2>3. Record(o, job[w].cost)[l] = used[o][l]  BY <2>2 DEF Record
  <2> QED  BY <1>4, <1>7, <2>1, <2>2, <2>3 DEF Inv, TypeOK
<1> QED  BY <1>3, <1>11, <1>12 DEF Inv, JobsInv

LEMMA TakeFromType ==
  ASSUME Inv, NEW r \in Rows, NEW n \in Nat, TakeFrom(r, n)
  PROVE  qty' \in [Rows -> Int] /\ loose' \subseteq Rows
  BY DEF Inv, TypeOK, TakeFrom

LEMMA TransferCommitInv == \A w \in Workers, r \in Rows : Inv /\ TransferCommit(w, r) => Inv'
<1> SUFFICES ASSUME NEW w \in Workers, NEW r \in Rows, Inv, TransferCommit(w, r) PROVE Inv'
  OBVIOUS
<1>1. job[w] \in Jobs  BY DEF Inv, TypeOK
<1>2. left' \in [Lots -> Int] /\ JobsInv'  BY CommitStep DEF TransferCommit
<1>3. qty' \in [Rows -> Int] /\ loose' \subseteq Rows
  BY <1>1, TakeFromType DEF TransferCommit, Jobs
<1>4. \A l \in Lots : left'[l] = left[l] - job[w].cost[l] /\ job[w].cost[l] \in Nat
  BY <1>1 DEF TransferCommit, Minus, Inv, TypeOK, Jobs
<1>5. TypeOK'  BY <1>2, <1>3 DEF TransferCommit, Inv, JobsInv, TypeOK, order, aside
<1>6. Unborn'
  <2> SUFFICES ASSUME NEW l \in Lots, got[l] = 0
               PROVE  left'[l] = 0 /\ \A p \in Orders : used[p][l].owed = 0
    BY DEF Unborn, TransferCommit, order, aside
  <2>1. left[l] = 0 /\ \A p \in Orders : used[p][l].owed = 0  BY DEF Inv, Unborn
  <2> QED  BY <1>4, <2>1 DEF Inv, Backed
<1> QED  BY <1>2, <1>5, <1>6 DEF Inv, JobsInv

LEMMA GiveUpInv == \A w \in Workers : Inv /\ GiveUp(w) => Inv'
<1> SUFFICES ASSUME NEW w \in Workers, Inv, GiveUp(w) PROVE Inv'
  OBVIOUS
<1>1. NoLotShrinks  BY DEF GiveUp, Inv, TypeOK, lots, NoLotShrinks
<1>2. JobsInv'  BY <1>1, DoneStep DEF GiveUp
<1>3. TypeOK'  BY <1>2 DEF GiveUp, Inv, JobsInv, TypeOK, stock, lots, order, aside
<1>4. Unborn'  BY StillUnborn DEF GiveUp, lots, order, aside
<1> QED  BY <1>2, <1>3, <1>4 DEF Inv, JobsInv

LEMMA TransferInv == \A w \in Workers, n \in Moves : Inv /\ Transfer(w, n) => Inv'
<1> SUFFICES ASSUME NEW w \in Workers, NEW n \in Moves, Inv, Transfer(w, n) PROVE Inv'
  OBVIOUS
<1> DEFINE j == [NoJob EXCEPT !.op = "transfer", !.n = n, !.need = n]
<1>1. n \in Nat  BY PhysicalAssumption
<1>2. j \in Jobs  BY <1>1, ZerosType DEF NoJob, Jobs
<1>3. j.take = 0 /\ j.need = n /\ j.op = "transfer" /\ \A l \in Lots : j.cost[l] = 0
  BY DEF NoJob, NoCost
<1>4. NoLotShrinks  BY DEF Transfer, Inv, TypeOK, lots, NoLotShrinks
<1>5. job' = [job EXCEPT ![w] = j]  BY DEF Transfer
<1> HIDE DEF j
<1>6. Harmless(w, j)  BY <1>1, <1>2, <1>3, <1>4, <1>5 DEF Harmless
<1>7. JobsInv'  BY <1>6, JobStep
<1>8. TypeOK'  BY <1>7 DEF Transfer, Inv, JobsInv, TypeOK, stock, lots, order, aside
<1>9. Unborn'  BY StillUnborn DEF Transfer, lots, order, aside
<1> QED  BY <1>7, <1>8, <1>9 DEF Inv, JobsInv

LEMMA CountInv == \A w \in Workers, r \in Rows, n \in Moves : Inv /\ Count(w, r, n) => Inv'
<1> SUFFICES ASSUME NEW w \in Workers, NEW r \in Rows, NEW n \in Moves, Inv, Count(w, r, n)
             PROVE  Inv'
  OBVIOUS
<1> DEFINE j == [NoJob EXCEPT !.op = "count", !.need = n]
<1>1. n \in Nat  BY PhysicalAssumption
<1>2. j \in Jobs  BY <1>1, ZerosType DEF NoJob, Jobs
<1>3. j.take = 0 /\ j.need = n /\ j.op = "count" /\ \A l \in Lots : j.cost[l] = 0
  BY DEF NoJob, NoCost
<1>4. NoLotShrinks  BY DEF Count, Inv, TypeOK, lots, NoLotShrinks
<1>5. job' = [job EXCEPT ![w] = j]  BY DEF Count
<1> HIDE DEF j
<1>6. Harmless(w, j)  BY <1>1, <1>2, <1>3, <1>4, <1>5 DEF Harmless
<1>7. JobsInv'  BY <1>6, JobStep
<1>8. qty' \in [Rows -> Int] /\ loose' \subseteq Rows  BY <1>1, TakeFromType DEF Count
<1>9. TypeOK'  BY <1>7, <1>8 DEF Count, Inv, JobsInv, TypeOK, lots, order, aside
<1>10. Unborn'  BY StillUnborn DEF Count, lots, order, aside
<1> QED  BY <1>7, <1>9, <1>10 DEF Inv, JobsInv

-----------------------------------------------------------------------------
LEMMA CountersType ==
  ASSUME Inv, NEW back \in [Rows -> Nat], Counters(back)
  PROVE  /\ qty' \in [Rows -> Int] /\ res' \in [Rows -> Int]
         /\ stray' \in [Rows -> Int] /\ loose' \subseteq Rows
<1> DEFINE free == [r \in Rows |-> IF res[r] >= back[r] THEN back[r] ELSE 0]
<1>1. free \in [Rows -> Nat] /\ free \in [Rows -> Int]  OBVIOUS
<1>2. Where(free) \subseteq Rows  BY <1>1 DEF Where
<1>3. /\ qty' = [r \in Rows |-> qty[r] + back[r]] /\ res' = Minus(res, free)
      /\ stray' = Minus(stray, free) /\ loose' = loose \cup Where(free)
  BY DEF Counters
<1> HIDE DEF free
<1>4. res' \in [Rows -> Int]  BY <1>1, <1>3, MinusType DEF Inv, TypeOK
<1>5. qty' \in [Rows -> Int] /\ loose' \subseteq Rows  BY <1>2, <1>3 DEF Inv, TypeOK
<1>6. stray' \in [Rows -> Int]  BY <1>1, <1>3, MinusType DEF Inv, TypeOK
<1> QED  BY <1>4, <1>5, <1>6

(* Lots take back no more than a line owes them.                           *)
LEMMA RestoreStep ==
  ASSUME Inv, NEW o \in Orders, NEW back \in [Lots -> Nat],
         \A l \in Lots : back[l] <= used[o][l].owed,
         RestoreLots(o, back), UNCHANGED got
  PROVE  NoLotShrinks /\ used' \in [Orders -> Uses] /\ Unborn'
<1> DEFINE u == [l \in Lots |-> Repaid(used[o][l], back[l])]
<1>1. used' = [used EXCEPT ![o] = u] /\ left' = [l \in Lots |-> left[l] + back[l]]
  BY DEF RestoreLots
<1>2. used[o] \in Uses /\ left \in [Lots -> Int]  BY DEF Inv, TypeOK
<1>3. \A l \in Lots : Repaid(used[o][l], back[l]) \in [owed : Nat, cycle : Nat]
                      /\ Repaid(used[o][l], back[l]).owed = used[o][l].owed - back[l]
  BY <1>2 DEF Repaid, Uses
<1>4. u \in Uses /\ \A l \in Lots : u[l].owed = used[o][l].owed - back[l]  BY <1>3 DEF Uses
<1> HIDE DEF u
<1>5. NoLotShrinks  BY <1>1, <1>2 DEF NoLotShrinks
<1>6. used' \in [Orders -> Uses]  BY <1>1, <1>4 DEF Inv, TypeOK
<1>7. Unborn'
  <2> SUFFICES ASSUME NEW l \in Lots, got[l] = 0
               PROVE  left'[l] = 0 /\ \A p \in Orders : used'[p][l].owed = 0
    BY DEF Unborn
  <2>1. left[l] = 0 /\ \A p \in Orders : used[p][l].owed = 0  BY DEF Inv, Unborn
  <2>2. back[l] = 0  BY <2>1
  <2>3. \A p \in Orders : used'[p] = IF p = o THEN u ELSE used[p]  BY <1>1 DEF Inv, TypeOK
  <2> QED  BY <1>1, <1>4, <2>1, <2>2, <2>3
<1> QED  BY <1>5, <1>6, <1>7

LEMMA CancelInv == \A o \in Orders : Inv /\ Cancel(o) => Inv'
<1> SUFFICES ASSUME NEW o \in Orders, Inv, Cancel(o) PROVE Inv'
  OBVIOUS
<1> DEFINE back == [l \in Lots |-> IF l \in Ours(o) THEN used[o][l].owed ELSE 0]
<1>1. claim[o] \in Claims /\ used[o] \in Uses  BY DEF Inv, TypeOK
<1>2. claim[o].plan \in [Rows -> Nat] /\ claim[o].plan \in [Rows -> Int]  BY <1>1 DEF Claims
<1>3. /\ back \in [Lots -> Nat]
      /\ \A l \in Lots : back[l] <= used[o][l].owed
  BY <1>1 DEF Uses
<1>4. /\ UNCHANGED <<got, cycle, came, job, moves>>
      /\ stage' = [stage EXCEPT ![o] = "cancelled"] /\ gone' = [gone EXCEPT ![o] = 0]
  BY DEF Cancel
<1>5. claim' \in [Orders -> Claims]
  <2>1. PICK st \in {"RELEASED", "RESTORED"} : claim' = [claim EXCEPT ![o].st = st]
    BY DEF Cancel
  <2>2. [claim[o] EXCEPT !.st = st] \in Claims  BY <1>1, <2>1 DEF Claims
  <2>3. claim' = [claim EXCEPT ![o] = [claim[o] EXCEPT !.st = st]]  BY <2>1 DEF Inv, TypeOK
  <2> QED  BY <2>2, <2>3 DEF Inv, TypeOK
<1>6. stage' \in [Orders -> Stages] /\ gone' \in [Orders -> Int]
  BY <1>4 DEF Inv, TypeOK, Stages
<1> HIDE DEF back
<1>7. CASE res' = Minus(res, claim[o].plan) /\ UNCHANGED <<qty, left, used, stray, loose>>
  <2>1. NoLotShrinks  BY <1>7 DEF Inv, TypeOK, NoLotShrinks
  <2>2. JobsInv'  BY <1>4, <2>1, OutsideStep
  <2>3. Unborn'  BY <1>4, <1>7, StillUnborn
  <2>4. res' \in [Rows -> Int]  BY <1>2, <1>7, MinusType DEF Inv, TypeOK
  <2>5. TypeOK'  BY <1>4, <1>5, <1>6, <1>7, <2>2, <2>4 DEF Inv, JobsInv, TypeOK
  <2> QED  BY <2>2, <2>3, <2>5 DEF Inv, JobsInv
<1>8. CASE Counters(claim[o].plan) /\ RestoreLots(o, back)
  <2>1. NoLotShrinks /\ used' \in [Orders -> Uses] /\ Unborn'  BY <1>3, <1>4, <1>8, RestoreStep
  <2>2. JobsInv'  BY <1>4, <2>1, OutsideStep
  <2>3. /\ qty' \in [Rows -> Int] /\ res' \in [Rows -> Int]
        /\ stray' \in [Rows -> Int] /\ loose' \subseteq Rows
    BY <1>2, <1>8, CountersType
  <2>4. TypeOK'
    BY <1>4, <1>5, <1>6, <2>1, <2>2, <2>3 DEF Inv, JobsInv, TypeOK, NoLotShrinks
  <2> QED  BY <2>1, <2>2, <2>4 DEF Inv, JobsInv
<1> QED  BY <1>7, <1>8 DEF Cancel, back, aside

LEMMA ReturnInv == \A o \in Orders : \A n \in 0..Qty[o] : Inv /\ Return(o, n) => Inv'
<1> SUFFICES ASSUME NEW o \in Orders, NEW n \in 0..Qty[o], Inv, Return(o, n) PROVE Inv'
  OBVIOUS
<1>1. claim[o] \in Claims /\ used[o] \in Uses  BY DEF Inv, TypeOK
<1>2. Qty[o] \in Nat /\ n \in Nat  BY PhysicalAssumption
<1>3. /\ UNCHANGED <<got, cycle, came, job, moves>>
      /\ stage' = [stage EXCEPT ![o] = "returned"] /\ gone' = [gone EXCEPT ![o] = @ - n]
  BY DEF Return
<1>4. claim' \in [Orders -> Claims]
  <2>1. [claim[o] EXCEPT !.st = "RESTORED"] \in Claims  BY <1>1 DEF Claims
  <2>2. claim' = [claim EXCEPT ![o] = [claim[o] EXCEPT !.st = "RESTORED"]]
    BY DEF Return, Inv, TypeOK
  <2> QED  BY <2>1, <2>2 DEF Inv, TypeOK
<1>5. stage' \in [Orders -> Stages] /\ gone' \in [Orders -> Int]
  BY <1>2, <1>3 DEF Inv, TypeOK, Stages
<1>6. /\ qty' \in [Rows -> Int] /\ res' \in [Rows -> Int]
      /\ stray' \in [Rows -> Int] /\ loose' \subseteq Rows
  <2>1. PICK b \in Walks(claim[o].plan, n) : Counters(b)  BY DEF Return
  <2>2. b \in [Rows -> Nat]  BY <1>2, WalkType
  <2> QED  BY <2>1, <2>2, CountersType
<1>7. NoLotShrinks /\ used' \in [Orders -> Uses] /\ Unborn'
  <2>1. CASE \E l \in Ours(o) : RestoreLots(o, [NoCost EXCEPT ![l] = Capped(n, used[o][l].owed)])
    <3>1. PICK l \in Ours(o) : RestoreLots(o, [NoCost EXCEPT ![l] = Capped(n, used[o][l].owed)])
      BY <2>1
    <3> DEFINE back == [NoCost EXCEPT ![l] = Capped(n, used[o][l].owed)]
    <3>2. l \in Lots /\ \A k \in Lots : used[o][k].owed \in Nat  BY <1>1 DEF Ours, Uses
    <3>3. Capped(n, used[o][l].owed) \in Nat /\ Capped(n, used[o][l].owed) <= used[o][l].owed
      BY <1>2, <3>2 DEF Capped, Least
    <3>4. back \in [Lots -> Nat] /\ \A k \in Lots : back[k] <= used[o][k].owed
      BY <3>2, <3>3 DEF NoCost
    <3> HIDE DEF back
    <3> QED  BY <1>3, <3>1, <3>4, RestoreStep DEF back
  <2>2. CASE UNCHANGED <<left, used>>
    BY <1>3, <2>2, StillUnborn DEF Inv, TypeOK, NoLotShrinks
  <2> QED  BY <2>1, <2>2 DEF Return
<1>8. JobsInv'  BY <1>3, <1>7, OutsideStep
<1>9. TypeOK'  BY <1>3, <1>4, <1>5, <1>6, <1>7, <1>8 DEF Inv, JobsInv, TypeOK, NoLotShrinks
<1> QED  BY <1>7, <1>8, <1>9 DEF Inv, JobsInv

(* What a return of n good units of goods never handed over releases, and  *)
(* what becomes of the claim.                                              *)
Asked(o, n) == [r \in Rows |-> Least(claim[o].plan[r], n)]
Released(o, n) == [r \in Rows |-> IF res[r] >= Asked(o, n)[r] THEN Asked(o, n)[r] ELSE 0]

Settles(o, n) ==
  /\ \E st \in {"RELEASED", "RESTORED"} : claim' = [claim EXCEPT ![o].st = st]
  /\ stage' = [stage EXCEPT ![o] = "returned"]
  /\ stray' = [r \in Rows |-> stray[r] + claim[o].plan[r] - Released(o, n)[r]]
  /\ UNCHANGED loose

Keeps(o, n) ==
  /\ \E s \in {"reserved", "returned"} : stage' = [stage EXCEPT ![o] = s]
  /\ stray' = Minus(stray, Released(o, n)) /\ loose' = loose \cup Where(Released(o, n))
  /\ UNCHANGED claim

LEMMA ReleasedType ==
  ASSUME Inv, NEW o \in Orders, NEW n \in Nat
  PROVE  /\ Released(o, n) \in [Rows -> Nat] /\ Released(o, n) \in [Rows -> Int]
         /\ \A r \in Rows : claim[o].plan[r] \in Nat /\ Released(o, n)[r] <= claim[o].plan[r]
<1>1. claim[o].plan \in [Rows -> Nat]  BY DEF Inv, TypeOK, Claims
<1>2. \A r \in Rows : Asked(o, n)[r] \in Nat /\ Asked(o, n)[r] <= claim[o].plan[r]
  BY <1>1 DEF Asked, Least
<1>3. \A r \in Rows : Released(o, n)[r] \in Nat /\ Released(o, n)[r] <= claim[o].plan[r]
  BY <1>1, <1>2 DEF Released
<1> QED  BY <1>1, <1>3 DEF Released

LEMMA Unshipped ==
  ASSUME Inv, NEW o \in Orders, NEW n \in 0..Qty[o], NEW d \in 0..Qty[o], ReturnUnshipped(o, n, d)
  PROVE  /\ stage[o] = "reserved" /\ Quiet(o) /\ res' = Minus(res, Released(o, n))
         /\ Settles(o, n) \/ Keeps(o, n)
         /\ came' \in [Orders -> Nat]
         /\ UNCHANGED <<qty, got, left, cycle, used, gone, job, moves>>
<1>1. Qty[o] \in Nat \ {0} /\ n \in Nat /\ d \in Nat  BY PhysicalAssumption
<1>2. came \in [Orders -> Nat]  BY DEF Inv, TypeOK
<1>3. /\ stage[o] = "reserved" /\ Quiet(o) /\ res' = Minus(res, Released(o, n))
      /\ came[o] + n + d <= Qty[o] /\ came' = [came EXCEPT ![o] = @ + n + d]
      /\ stage' = [stage EXCEPT ![o] = IF n = 0 \/ n + d = Qty[o] THEN "returned" ELSE "reserved"]
      /\ UNCHANGED <<qty, got, left, cycle, used, gone, job, moves>>
  BY DEF ReturnUnshipped, Released, Asked, lots
<1>4. came' \in [Orders -> Nat]  BY <1>1, <1>2, <1>3
<1>5. CASE n \in {0, Qty[o]}
  <2>1. n = 0 \/ n + d = Qty[o]  BY <1>1, <1>2, <1>3, <1>5
  <2>2. stage' = [stage EXCEPT ![o] = "returned"]  BY <1>3, <2>1
  <2>3. /\ claim' = [claim EXCEPT ![o].st = IF n = 0 THEN "RESTORED" ELSE "RELEASED"]
        /\ stray' = [r \in Rows |-> stray[r] + claim[o].plan[r] - Released(o, n)[r]]
        /\ UNCHANGED loose
    BY <1>5 DEF ReturnUnshipped, Released, Asked
  <2>4. \E st \in {"RELEASED", "RESTORED"} : claim' = [claim EXCEPT ![o].st = st]
    <3>1. CASE n = 0  BY <2>3, <3>1
    <3>2. CASE n # 0  BY <2>3, <3>2
    <3> QED  BY <3>1, <3>2
  <2> QED  BY <1>3, <1>4, <2>2, <2>3, <2>4 DEF Settles
<1>6. CASE n \notin {0, Qty[o]}
  <2>1. /\ stray' = Minus(stray, Released(o, n)) /\ loose' = loose \cup Where(Released(o, n))
        /\ UNCHANGED claim
    BY <1>6 DEF ReturnUnshipped, Released, Asked
  <2>2. \E s \in {"reserved", "returned"} : stage' = [stage EXCEPT ![o] = s]
    <3>1. CASE n + d = Qty[o]  BY <1>3, <3>1
    <3>2. CASE n + d # Qty[o]  BY <1>3, <1>6, <3>2
    <3> QED  BY <3>1, <3>2
  <2> QED  BY <1>3, <1>4, <2>1, <2>2 DEF Keeps
<1> QED  BY <1>5, <1>6

LEMMA ReturnUnshippedInv ==
  \A o \in Orders : \A n, d \in 0..Qty[o] : Inv /\ ReturnUnshipped(o, n, d) => Inv'
<1> SUFFICES ASSUME NEW o \in Orders, NEW n \in 0..Qty[o], NEW d \in 0..Qty[o],
                    Inv, ReturnUnshipped(o, n, d)
             PROVE  Inv'
  OBVIOUS
<1>1. n \in Nat  BY PhysicalAssumption
<1>2. /\ res' = Minus(res, Released(o, n)) /\ came' \in [Orders -> Nat]
      /\ Settles(o, n) \/ Keeps(o, n)
      /\ UNCHANGED <<qty, got, left, cycle, used, gone, job, moves>>
  BY Unshipped
<1>3. /\ Released(o, n) \in [Rows -> Nat] /\ Released(o, n) \in [Rows -> Int]
      /\ \A r \in Rows : claim[o].plan[r] \in Nat
  BY <1>1, ReleasedType
<1>4. res' \in [Rows -> Int]  BY <1>2, <1>3, MinusType DEF Inv, TypeOK
<1>5. /\ claim' \in [Orders -> Claims] /\ stage' \in [Orders -> Stages]
      /\ stray' \in [Rows -> Int] /\ loose' \subseteq Rows
  <2>1. CASE Settles(o, n)
    <3>1. PICK st \in {"RELEASED", "RESTORED"} : claim' = [claim EXCEPT ![o].st = st]
      BY <2>1 DEF Settles
    <3>2. [claim[o] EXCEPT !.st = st] \in Claims  BY <3>1 DEF Inv, TypeOK, Claims
    <3>3. claim' = [claim EXCEPT ![o] = [claim[o] EXCEPT !.st = st]]  BY <3>1 DEF Inv, TypeOK
    <3>4. claim' \in [Orders -> Claims]  BY <3>2, <3>3 DEF Inv, TypeOK
    <3>5. stage' \in [Orders -> Stages]  BY <2>1 DEF Settles, Inv, TypeOK, Stages
    <3>6. stray' = [r \in Rows |-> stray[r] + claim[o].plan[r] - Released(o, n)[r]]
      BY <2>1 DEF Settles
    <3>7. \A r \in Rows : stray[r] \in Int /\ Released(o, n)[r] \in Nat  BY <1>3 DEF Inv, TypeOK
    <3>8. stray' \in [Rows -> Int]  BY <1>3, <3>6, <3>7
    <3> QED  BY <2>1, <3>4, <3>5, <3>8 DEF Settles, Inv, TypeOK
  <2>2. CASE Keeps(o, n)
    <3>1. stage' \in [Orders -> Stages]  BY <2>2 DEF Keeps, Inv, TypeOK, Stages
    <3>2. stray' \in [Rows -> Int]  BY <1>3, <2>2, MinusType DEF Keeps, Inv, TypeOK
    <3>3. Where(Released(o, n)) \subseteq Rows  BY <1>3 DEF Where
    <3> QED  BY <2>2, <3>1, <3>2, <3>3 DEF Keeps, Inv, TypeOK
  <2> QED  BY <1>2, <2>1, <2>2
<1>6. NoLotShrinks  BY <1>2 DEF Inv, TypeOK, NoLotShrinks
<1>7. JobsInv'  BY <1>2, <1>6, OutsideStep
<1>8. Unborn'  BY <1>2, StillUnborn
<1>9. TypeOK'  BY <1>2, <1>4, <1>5, <1>7 DEF Inv, JobsInv, TypeOK
<1> QED  BY <1>7, <1>8, <1>9 DEF Inv, JobsInv

LEMMA ReleaseInv == \A w \in Workers, r \in Rows : Inv /\ Release(w, r) => Inv'
<1> SUFFICES ASSUME NEW w \in Workers, NEW r \in Rows, Inv, Release(w, r) PROVE Inv'
  OBVIOUS
<1> DEFINE j == [NoJob EXCEPT !.op = "release", !.n = res[r]]
<1>1. res[r] \in Nat  BY DEF Release, Inv, TypeOK
<1>2. j \in Jobs  BY <1>1, ZerosType DEF NoJob, Jobs
<1>3. j.take = 0 /\ j.need = 0 /\ j.op = "release" /\ \A l \in Lots : j.cost[l] = 0
  BY DEF NoJob, NoCost
<1>4. NoLotShrinks  BY DEF Release, Inv, TypeOK, lots, NoLotShrinks
<1>5. job' = [job EXCEPT ![w] = j]  BY DEF Release
<1> HIDE DEF j
<1>6. Harmless(w, j)  BY <1>2, <1>3, <1>4, <1>5 DEF Harmless
<1>7. JobsInv'  BY <1>6, JobStep
<1>8. TypeOK'  BY <1>7 DEF Release, Inv, JobsInv, TypeOK, stock, lots, order, aside
<1>9. Unborn'  BY StillUnborn DEF Release, lots, order
<1> QED  BY <1>7, <1>8, <1>9 DEF Inv, JobsInv

LEMMA ReleaseCommitInv == \A w \in Workers, r \in Rows : Inv /\ ReleaseCommit(w, r) => Inv'
<1> SUFFICES ASSUME NEW w \in Workers, NEW r \in Rows, Inv, ReleaseCommit(w, r) PROVE Inv'
  OBVIOUS
<1>1. job[w].n \in Int  BY DEF Inv, TypeOK, Jobs
<1>2. NoLotShrinks  BY DEF ReleaseCommit, Inv, TypeOK, lots, NoLotShrinks
<1>3. JobsInv'  BY <1>2, DoneStep DEF ReleaseCommit
<1>4. res' \in [Rows -> Int] /\ stray' \in [Rows -> Int] /\ loose' \subseteq Rows
  BY <1>1 DEF ReleaseCommit, Inv, TypeOK
<1>5. TypeOK'  BY <1>3, <1>4 DEF ReleaseCommit, Inv, JobsInv, TypeOK, lots, order
<1>6. Unborn'  BY StillUnborn DEF ReleaseCommit, lots, order
<1> QED  BY <1>3, <1>5, <1>6 DEF Inv, JobsInv

LEMMA ReceiveInv == \A n \in Moves : Inv /\ Receive(n) => Inv'
<1> SUFFICES ASSUME NEW n \in Moves, Inv, Receive(n) PROVE Inv'
  OBVIOUS
<1>1. n \in Nat \ {0}  BY PhysicalAssumption
<1>2. PICK l \in Lots : /\ got[l] = 0 /\ got' = [got EXCEPT ![l] = n]
                        /\ left' = [left EXCEPT ![l] = n]
  BY DEF Receive
<1>3. UNCHANGED <<res, stage, cycle, claim, used, gone, came, job, stray, loose>>
  BY DEF Receive, order, aside
<1>4. left[l] = 0  BY <1>2 DEF Inv, Unborn
<1>5. NoLotShrinks  BY <1>1, <1>2, <1>4 DEF NoLotShrinks, Inv, TypeOK
<1>6. JobsInv'  BY <1>3, <1>5, OutsideStep
<1>7. got' \in [Lots -> Nat] /\ left' \in [Lots -> Int]  BY <1>1, <1>2 DEF Inv, TypeOK
<1>8. qty' \in [Rows -> Int] /\ moves' \in Nat
  <2>1. qty' = [qty EXCEPT ![Floor] = @ + n] /\ moves' = moves + 1  BY DEF Receive
  <2>2. qty \in [Rows -> Int] /\ moves \in Nat  BY DEF Inv, TypeOK
  <2>3. Floor \in Rows /\ n \in Int  BY <1>1, PhysicalAssumption
  <2>4. qty[Floor] + n \in Int  BY <2>2, <2>3
  <2>5. qty' \in [Rows -> Int]  BY <2>1, <2>2, <2>4
  <2>6. moves' \in Nat  BY <2>1, <2>2
  <2> QED  BY <2>5, <2>6
<1>9. TypeOK'  BY <1>3, <1>6, <1>7, <1>8 DEF Inv, JobsInv, TypeOK
<1>10. Unborn'
  <2>1. \A k \in Lots : /\ got'[k] = IF k = l THEN n ELSE got[k]
                        /\ left'[k] = IF k = l THEN n ELSE left[k]
    BY <1>2 DEF Inv, TypeOK
  <2> QED  BY <1>1, <1>3, <2>1 DEF Inv, Unborn
<1> QED  BY <1>6, <1>9, <1>10 DEF Inv, JobsInv

-----------------------------------------------------------------------------
LEMMA StepInv == Inv /\ [Next]_vars => Inv'
<1> SUFFICES ASSUME Inv, [Next]_vars PROVE Inv'
  OBVIOUS
<1>1. ASSUME NEW w \in Workers, NEW o \in Orders, Look(w, o) \/ HandOver(w, o) PROVE Inv'
  BY <1>1, LookInv, HandOverInv
<1>2. ASSUME NEW w \in Workers, NEW r \in Rows, TakeRow(w, r) \/ TransferCommit(w, r) PROVE Inv'
  BY <1>2, TakeRowInv, TransferCommitInv
<1>8. ASSUME NEW w \in Workers, NEW r \in Rows, Release(w, r) \/ ReleaseCommit(w, r) PROVE Inv'
  BY <1>8, ReleaseInv, ReleaseCommitInv
<1>3. ASSUME NEW w \in Workers, NEW n \in Moves,
             Transfer(w, n) \/ \E r \in Rows : Count(w, r, n)
      PROVE  Inv'
  BY <1>3, TransferInv, CountInv
<1>4. ASSUME NEW w \in Workers,
             Reserve(w) \/ FindLot(w) \/ TakeLot(w) \/ ShipCommit(w) \/ GiveUp(w)
      PROVE  Inv'
  BY <1>4, ReserveInv, FindLotInv, TakeLotInv, ShipCommitInv, GiveUpInv
<1>5. ASSUME NEW o \in Orders, Cancel(o) \/ \E n \in 0..Qty[o] : Return(o, n) PROVE Inv'
  BY <1>5, CancelInv, ReturnInv
<1>9. ASSUME NEW o \in Orders, NEW n \in 0..Qty[o], NEW d \in 0..Qty[o], ReturnUnshipped(o, n, d)
      PROVE  Inv'
  BY <1>9, ReturnUnshippedInv
<1>6. ASSUME NEW n \in Moves, Receive(n) PROVE Inv'
  BY <1>6, ReceiveInv
<1>7. CASE UNCHANGED vars
  <2> USE <1>7 DEF vars, stock, lots, order, aside
  <2>1. NoLotShrinks  BY DEF Inv, TypeOK, NoLotShrinks
  <2>2. JobsInv'  BY <2>1, OutsideStep
  <2>3. Unborn'  BY StillUnborn
  <2>4. TypeOK'  BY <2>2 DEF Inv, JobsInv, TypeOK
  <2> QED  BY <2>2, <2>3, <2>4 DEF Inv, JobsInv
<1> QED  BY <1>1, <1>2, <1>3, <1>4, <1>5, <1>6, <1>7, <1>8, <1>9 DEF Next

LEMMA InvHolds == Spec => []Inv
<1> QED  BY InitInv, StepInv, PTL DEF Spec

(* Every variable keeps its type.                                          *)
THEOREM TypeCorrect == Spec => []TypeOK
<1>1. Inv => TypeOK  BY DEF Inv
<1> QED  BY <1>1, InvHolds, PTL

(* No costing lot is overdrawn, however hand-overs, transfers and counts   *)
(* of any number of orders meet at it, and whichever of them fails.        *)
THEOREM NeverOverdrawn == Spec => []NoLotOverdrawn
<1>1. Inv => NoLotOverdrawn  BY DEF Inv
<1> QED  BY <1>1, InvHolds, PTL

-----------------------------------------------------------------------------
(***************************************************************************)
(* The books.  Four invariants, each inductive given those before it and   *)
(* Inv: the jobs agree with the orders they work for; the counters of the  *)
(* rows with the claims; the lots with the consumption records; the records*)
(* with the stock cycles.                                                  *)
(***************************************************************************)

LEMMA LotsFinite == IsFiniteSet(Lots)
  BY PhysicalAssumption, FS_Interval DEF Lots

LEMMA SumOfNone == SumFunction(None) = 0 /\ SumFunction(NoCost) = 0
<1>1. SumFunction(None) = 0  BY PhysicalAssumption, TotalZero DEF None
<1>2. SumFunction(NoCost) = 0  BY LotsFinite, TotalZero DEF NoCost
<1> QED  BY <1>1, <1>2

-----------------------------------------------------------------------------
(* A job works for an order only where it reserves or ships.  It reserves  *)
(* for an order without a claim; it ships what the order's claim holds,    *)
(* and what it has costed or has yet to cost is among what it has taken.   *)
Fits(j) ==
  /\ j.op \notin {"reserve", "ship"} => j.o = "none"
  /\ j.op = "reserve" => /\ stage[j.o] \in {"new", "cancelled"}
                         /\ SumFunction(j.plan) = Qty[j.o]
  /\ j.op = "ship" =>
       /\ stage[j.o] = "reserved"
       /\ \A r \in Rows : j.took[r] = IF r \in j.todo THEN 0 ELSE claim[j.o].plan[r]
       /\ SumFunction(j.cost) + j.need <= SumFunction(j.took)

(* The claim of an order is active while the order is reserved, perhaps    *)
(* after a return of goods that were never handed over, and at no other    *)
(* time; it covers the whole quantity.                                     *)
ClaimFits(o, c, s) == /\ s = "reserved" => c.st = "ACTIVE"
                      /\ c.st = "ACTIVE" => s \in {"reserved", "returned"}
                      /\ c.st = "ACTIVE" => SumFunction(c.plan) = Qty[o]

Alone == \A v, w \in Workers : v # w /\ job[v].o = job[w].o => job[v].o = "none"

Agreed == /\ \A w \in Workers : Fits(job[w])
          /\ \A o \in Orders : ClaimFits(o, claim[o], stage[o])
          /\ Alone

LEMMA NoJobFits == Fits(NoJob)
  BY DEF Fits, NoJob

(* A job begins, goes on or ends while every order stays as it is.         *)
LEMMA JobAgreed ==
  ASSUME Inv, Agreed, UNCHANGED <<stage, claim>>, NEW w \in Workers, NEW j,
         job' = [job EXCEPT ![w] = j], Fits(j),
         j.o \in {"none", job[w].o} \/ Quiet(j.o)
  PROVE  Agreed'
<1>1. \A v \in Workers : job'[v] = IF v = w THEN j ELSE job[v]  BY DEF Inv, TypeOK
<1>2. \A v \in Workers : Fits(job[v])'
  <2> SUFFICES ASSUME NEW v \in Workers PROVE Fits(job[v])'  OBVIOUS
  <2>1. Fits(job[v])  BY DEF Agreed
  <2> QED  BY <1>1, <2>1 DEF Fits
<1>3. \A o \in Orders : ClaimFits(o, claim[o], stage[o])'  BY DEF Agreed, ClaimFits
<1>4. Alone'
  <2> SUFFICES ASSUME NEW u \in Workers, NEW v \in Workers, u # v, job'[u].o = job'[v].o
               PROVE  job'[u].o = "none"
    BY DEF Alone
  <2>1. CASE u # w /\ v # w  BY <1>1, <2>1 DEF Agreed, Alone
  <2>2. CASE u = w \/ v = w
    <3>1. PICK x \in Workers : x # w /\ job[x].o = j.o /\ job'[u].o = j.o  BY <1>1, <2>2
    <3>2. CASE j.o = "none"  BY <3>1, <3>2
    <3>3. CASE j.o = job[w].o  BY <3>1, <3>3 DEF Agreed, Alone
    <3>4. CASE Quiet(j.o)  BY <3>1, <3>4 DEF Quiet
    <3> QED  BY <3>2, <3>3, <3>4
  <2> QED  BY <2>1, <2>2
<1> QED  BY <1>2, <1>3, <1>4 DEF Agreed

(* One order changes while no job, but one that ends, works for it.        *)
LEMMA OrderAgreed ==
  ASSUME Inv, Agreed, NEW o \in Orders, NEW c, NEW s, ClaimFits(o, c, s),
         claim' = [claim EXCEPT ![o] = c], stage' = [stage EXCEPT ![o] = s],
         \A v \in Workers : job'[v] = NoJob \/ (job'[v] = job[v] /\ job[v].o # o)
  PROVE  Agreed'
<1>1. \A p \in Orders \ {o} : claim'[p] = claim[p] /\ stage'[p] = stage[p]
  BY DEF Inv, TypeOK
<1>2. claim'[o] = c /\ stage'[o] = s  BY DEF Inv, TypeOK
<1>3. \A v \in Workers : Fits(job[v])'
  <2> SUFFICES ASSUME NEW v \in Workers PROVE Fits(job[v])'  OBVIOUS
  <2>1. CASE job'[v] = NoJob
    <3>1. NoJob.op = "idle" /\ NoJob.o = "none"  BY DEF NoJob
    <3> QED  BY <2>1, <3>1 DEF Fits
  <2>2. CASE job'[v] = job[v] /\ job[v].o # o
    <3>1. Fits(job[v])  BY DEF Agreed
    <3>2. job[v].op \in {"reserve", "ship"} => job[v].o \in Orders \ {o}  BY <2>2 DEF Inv, Takes
    <3> QED  BY <1>1, <2>2, <3>1, <3>2 DEF Fits
  <2> QED  BY <2>1, <2>2
<1>4. \A p \in Orders : ClaimFits(p, claim[p], stage[p])'
  <2> SUFFICES ASSUME NEW p \in Orders PROVE ClaimFits(p, claim[p], stage[p])'  OBVIOUS
  <2>1. ClaimFits(p, claim[p], stage[p])  BY DEF Agreed
  <2> QED  BY <1>1, <1>2, <2>1 DEF ClaimFits
<1>5. Alone'
  <2>1. NoJob.o = "none"  BY DEF NoJob
  <2> QED  BY <2>1 DEF Agreed, Alone
<1> QED  BY <1>3, <1>4, <1>5 DEF Agreed

LEMMA EndAgreed ==
  ASSUME Inv, Agreed, UNCHANGED <<stage, claim>>, NEW w \in Workers, Done(w)
  PROVE  Agreed'
<1>1. job' = [job EXCEPT ![w] = NoJob] /\ NoJob.o = "none"  BY DEF Done, NoJob
<1> QED  BY <1>1, NoJobFits, JobAgreed

LEMMA LookAgreed == \A w \in Workers, o \in Orders : Inv /\ Agreed /\ Look(w, o) => Agreed'
<1> SUFFICES ASSUME NEW w \in Workers, NEW o \in Orders, Inv, Agreed, Look(w, o) PROVE Agreed'
  OBVIOUS
<1>1. PICK plan \in Walks([r \in Rows |-> Available(r)], Qty[o]) :
        job' = [job EXCEPT ![w] = [NoJob EXCEPT !.op = "reserve", !.o = o, !.plan = plan]]
  BY DEF Look
<1> DEFINE j == [NoJob EXCEPT !.op = "reserve", !.o = o, !.plan = plan]
<1>2. SumFunction(plan) = Qty[o]  BY DEF Walks
<1>3. j.op = "reserve" /\ j.o = o /\ j.plan = plan  BY DEF NoJob
<1>4. UNCHANGED <<stage, claim>> /\ Quiet(o) /\ stage[o] \in {"new", "cancelled"}
  BY DEF Look, order, aside
<1> HIDE DEF j
<1>5. Fits(j)  BY <1>2, <1>3, <1>4 DEF Fits
<1> QED  BY <1>1, <1>3, <1>4, <1>5, JobAgreed DEF j

LEMMA HandOverAgreed ==
  \A w \in Workers, o \in Orders : Inv /\ Agreed /\ HandOver(w, o) => Agreed'
<1> SUFFICES ASSUME NEW w \in Workers, NEW o \in Orders, Inv, Agreed, HandOver(w, o)
             PROVE  Agreed'
  OBVIOUS
<1> DEFINE j == [NoJob EXCEPT !.op = "ship", !.o = o, !.todo = Where(claim[o].plan)]
<1>1. job' = [job EXCEPT ![w] = j]  BY DEF HandOver
<1>2. /\ j.op = "ship" /\ j.o = o /\ j.todo = Where(claim[o].plan) /\ j.took = None
      /\ j.cost = NoCost /\ j.need = 0
  BY DEF NoJob
<1>3. UNCHANGED <<stage, claim>> /\ Quiet(o) /\ stage[o] = "reserved"  BY DEF HandOver, order, aside
<1>4. claim[o].plan \in [Rows -> Nat]  BY DEF Inv, TypeOK, Claims
<1>5. \A r \in Rows : r \notin Where(claim[o].plan) => claim[o].plan[r] = 0  BY <1>4 DEF Where
<1> HIDE DEF j
<1>6. Fits(j)
  <2>1. \A r \in Rows : j.took[r] = IF r \in j.todo THEN 0 ELSE claim[j.o].plan[r]
    BY <1>2, <1>5 DEF None
  <2>2. SumFunction(j.cost) + j.need <= SumFunction(j.took)  BY <1>2, SumOfNone
  <2> QED  BY <1>2, <1>3, <2>1, <2>2 DEF Fits
<1> QED  BY <1>1, <1>2, <1>3, <1>6, JobAgreed

LEMMA TakeRowAgreed ==
  \A w \in Workers, r \in Rows : Inv /\ Agreed /\ TakeRow(w, r) => Agreed'
<1> SUFFICES ASSUME NEW w \in Workers, NEW r \in Rows, Inv, Agreed, TakeRow(w, r)
             PROVE  Agreed'
  OBVIOUS
<1> DEFINE n == claim[job[w].o].plan[r]
           j == [job[w] EXCEPT !.todo = @ \ {r}, !.took[r] = n, !.need = n, !.skip = {}]
<1>1. job[w] \in Jobs /\ Fits(job[w])  BY DEF Inv, TypeOK, Agreed
<1>2. job[w].o \in Orders /\ job[w].op = "ship" /\ job[w].need = 0 /\ r \in job[w].todo
  BY DEF TakeRow, Inv, Takes
<1>3. n \in Nat  BY <1>2 DEF Inv, TypeOK, Claims
<1>4. job' = [job EXCEPT ![w] = j]  BY DEF TakeRow, Inv, TypeOK
<1>5. /\ j.op = "ship" /\ j.o = job[w].o /\ j.todo = job[w].todo \ {r} /\ j.cost = job[w].cost
      /\ j.need = n /\ j.took = [job[w].took EXCEPT ![r] = n]
  BY <1>1, <1>2 DEF Jobs
<1>6. UNCHANGED <<stage, claim>>  BY DEF TakeRow, order, aside
<1>7. /\ stage[job[w].o] = "reserved"
      /\ \A s \in Rows : job[w].took[s] = IF s \in job[w].todo THEN 0 ELSE claim[job[w].o].plan[s]
      /\ SumFunction(job[w].cost) + job[w].need <= SumFunction(job[w].took)
  BY <1>1, <1>2 DEF Fits
<1>8. job[w].took \in [Rows -> Nat] /\ job[w].took \in [Rows -> Int]  BY <1>1 DEF Jobs
<1>9. job[w].cost \in [Lots -> Int]  BY <1>1 DEF Jobs
<1> HIDE DEF j
<1>10. \A s \in Rows : j.took[s] = IF s \in j.todo THEN 0 ELSE claim[j.o].plan[s]
  BY <1>5, <1>7, <1>8 DEF n
<1> HIDE DEF n
<1>11. SumFunction(j.took) = SumFunction(job[w].took) + n
  <2>1. j.took \in [Rows -> Int] /\ j.took[r] = n  BY <1>3, <1>5, <1>8
  <2>2. \A s \in Rows \ {r} : job[w].took[s] = j.took[s]  BY <1>5, <1>8
  <2>3. job[w].took[r] = 0  BY <1>2, <1>7
  <2>4. SumFunction(j.took) = SumFunction(job[w].took) - job[w].took[r] + j.took[r]
    BY <1>8, <2>1, <2>2, PhysicalAssumption, TotalChange
  <2>5. SumFunction(job[w].took) \in Int  BY <1>8, PhysicalAssumption, TotalInt
  <2> QED  BY <1>3, <2>1, <2>3, <2>4, <2>5
<1>12. SumFunction(j.cost) + j.need <= SumFunction(j.took)
  <2>1. SumFunction(job[w].cost) \in Int  BY <1>9, LotsFinite, TotalInt
  <2>2. SumFunction(job[w].took) \in Int  BY <1>8, PhysicalAssumption, TotalInt
  <2>3. SumFunction(j.cost) = SumFunction(job[w].cost)  BY <1>5
  <2> QED  BY <1>2, <1>3, <1>5, <1>7, <1>11, <2>1, <2>2, <2>3
<1>13. Fits(j)  BY <1>5, <1>7, <1>10, <1>12 DEF Fits
<1> QED  BY <1>4, <1>5, <1>6, <1>13, JobAgreed
LEMMA FindLotAgreed == \A w \in Workers : Inv /\ Agreed /\ FindLot(w) => Agreed'
<1> SUFFICES ASSUME NEW w \in Workers, Inv, Agreed, FindLot(w) PROVE Agreed'
  OBVIOUS
<1>1. job[w] \in Jobs /\ Fits(job[w])  BY DEF Inv, TypeOK, Agreed
<1>2. UNCHANGED <<stage, claim>>  BY DEF FindLot, order, aside
<1> DEFINE Found(l) == job' = [job EXCEPT ![w].pick = l, ![w].take = Least(job[w].need, Seen(w, l))]
           Short == job' = [job EXCEPT ![w].need = 0]
<1>3. CASE \E l \in Candidates(w) : Found(l)
  <2>1. PICK l \in Candidates(w) : Found(l)  BY <1>3
  <2> DEFINE t == Least(job[w].need, Seen(w, l))
             j == [job[w] EXCEPT !.pick = l, !.take = t]
  <2>2. job' = [job EXCEPT ![w] = j]  BY <2>1 DEF Inv, TypeOK
  <2> HIDE DEF t
  <2>3. /\ j.op = job[w].op /\ j.o = job[w].o /\ j.plan = job[w].plan /\ j.todo = job[w].todo
        /\ j.took = job[w].took /\ j.cost = job[w].cost /\ j.need = job[w].need
    BY <1>1 DEF Jobs
  <2> HIDE DEF j, Found
  <2>4. Fits(j)  BY <1>1, <2>3 DEF Fits
  <2> QED  BY <1>2, <2>2, <2>3, <2>4, JobAgreed
<1>4. CASE Short
  <2> DEFINE j == [job[w] EXCEPT !.need = 0]
  <2>1. job' = [job EXCEPT ![w] = j]  BY <1>4 DEF Inv, TypeOK
  <2>2. /\ j.op = job[w].op /\ j.o = job[w].o /\ j.plan = job[w].plan /\ j.todo = job[w].todo
        /\ j.took = job[w].took /\ j.cost = job[w].cost /\ j.need = 0
    BY <1>1 DEF Jobs
  <2> HIDE DEF j, Found
  <2>3. SumFunction(j.cost) \in Int /\ SumFunction(j.took) \in Int /\ job[w].need \in Nat
    <3>1. job[w].cost \in [Lots -> Int] /\ job[w].took \in [Rows -> Int] /\ job[w].need \in Nat
      BY <1>1 DEF Jobs
    <3> QED  BY <2>2, <3>1, LotsFinite, PhysicalAssumption, TotalInt
  <2>4. job[w].op = "ship" => SumFunction(j.cost) + j.need <= SumFunction(j.took)
    <3>1. ASSUME job[w].op = "ship"
          PROVE  SumFunction(job[w].cost) + job[w].need <= SumFunction(job[w].took)
      BY <1>1, <3>1 DEF Fits
    <3> QED  BY <2>2, <2>3, <3>1
  <2>5. Fits(j)  BY <1>1, <2>2, <2>4 DEF Fits
  <2> QED  BY <1>2, <2>1, <2>2, <2>5, JobAgreed
<1>5. CASE Done(w)
  BY <1>2, <1>5, EndAgreed
<1>6. (\E l \in Candidates(w) : Found(l)) \/ Short \/ Done(w)  BY DEF FindLot
<1> HIDE DEF Found, Short
<1> QED  BY <1>3, <1>4, <1>5, <1>6

LEMMA TakeLotAgreed == \A w \in Workers : Inv /\ Agreed /\ TakeLot(w) => Agreed'
<1> SUFFICES ASSUME NEW w \in Workers, Inv, Agreed, TakeLot(w) PROVE Agreed'
  OBVIOUS
<1>1. job[w] \in Jobs /\ Fits(job[w])  BY DEF Inv, TypeOK, Agreed
<1>2. UNCHANGED <<stage, claim>>  BY DEF TakeLot, order, aside
<1> DEFINE l == job[w].pick
           n == job[w].take
<1>3. l \in Lots /\ n \in Nat /\ n <= job[w].need /\ job[w].need \in Nat
  BY <1>1 DEF TakeLot, Inv, Takes, Jobs
<1>4. CASE job' = [job EXCEPT ![w] = Skipped(job[w])]
  <2> DEFINE j == Skipped(job[w])
  <2>1. /\ j.op = job[w].op /\ j.o = job[w].o /\ j.plan = job[w].plan /\ j.todo = job[w].todo
        /\ j.took = job[w].took /\ j.cost = job[w].cost /\ j.need = job[w].need
    BY <1>1 DEF Skipped, Jobs
  <2> HIDE DEF j
  <2>2. Fits(j)  BY <1>1, <2>1 DEF Fits
  <2> QED  BY <1>2, <1>4, <2>1, <2>2, JobAgreed DEF j
<1>8. CASE job' = [job EXCEPT ![w] = Served(job[w])] /\ job[w].op = "count"
  <2>1. Served(job[w]).op = job[w].op /\ Served(job[w]).o = job[w].o  BY <1>1, <1>3, NextJob
  <2>2. Fits(Served(job[w]))  BY <1>1, <1>8, <2>1 DEF Fits
  <2> QED  BY <1>2, <1>8, <2>1, <2>2, JobAgreed
<1>5. CASE job' = [job EXCEPT ![w] = Costed(job[w])]
  <2> DEFINE j == Costed(job[w])
  <2>1. j.op = job[w].op /\ j.o = job[w].o /\ j.cost = [job[w].cost EXCEPT ![l] = @ + n]
    BY <1>1, <1>3, NextJob
  <2>2. j.plan = job[w].plan /\ j.todo = job[w].todo /\ j.took = job[w].took
    BY <1>1 DEF Costed, Served, Jobs
  <2>3. j.need = job[w].need - n  BY <1>1 DEF Costed, Served, Jobs
  <2>4. job[w].cost \in [Lots -> Int] /\ job[w].took \in [Rows -> Int]  BY <1>1 DEF Jobs
  <2> HIDE DEF j, l, n
  <2>5. SumFunction(j.cost) = SumFunction(job[w].cost) + n
    <3>1. job[w].cost[l] \in Int /\ SumFunction(job[w].cost) \in Int
      BY <1>3, <2>4, LotsFinite, TotalInt
    <3>2. /\ j.cost \in [Lots -> Int] /\ j.cost[l] = job[w].cost[l] + n
          /\ \A k \in Lots \ {l} : job[w].cost[k] = j.cost[k]
      BY <1>3, <2>1, <2>4
    <3>3. SumFunction(j.cost) = SumFunction(job[w].cost) - job[w].cost[l] + j.cost[l]
      BY <1>3, <2>4, <3>2, LotsFinite, TotalChange
    <3> QED  BY <1>3, <3>1, <3>2, <3>3
  <2>6. job[w].op = "ship" => SumFunction(j.cost) + j.need <= SumFunction(j.took)
    <3>1. ASSUME job[w].op = "ship"
          PROVE  SumFunction(job[w].cost) + job[w].need <= SumFunction(job[w].took)
      BY <1>1, <3>1 DEF Fits
    <3>2. SumFunction(job[w].cost) \in Int /\ SumFunction(job[w].took) \in Int
      BY <2>4, LotsFinite, PhysicalAssumption, TotalInt
    <3> QED  BY <1>3, <2>2, <2>3, <2>5, <3>1, <3>2
  <2>7. Fits(j)  BY <1>1, <2>1, <2>2, <2>6 DEF Fits
  <2> QED  BY <1>2, <1>5, <2>1, <2>7, JobAgreed DEF j
<1>6. CASE Done(w)
  BY <1>2, <1>6, EndAgreed
<1>7. \/ job' = [job EXCEPT ![w] = Skipped(job[w])]
      \/ job[w].op = "count" /\ (Done(w) \/ job' = [job EXCEPT ![w] = Served(job[w])])
      \/ job' = [job EXCEPT ![w] = Costed(job[w])]
  BY DEF TakeLot, Consume, InTx
<1> HIDE DEF l, n
<1> QED  BY <1>4, <1>5, <1>6, <1>7, <1>8

LEMMA MoveAgreed ==
  \A w \in Workers, n \in Moves :
    Inv /\ Agreed /\ (Transfer(w, n) \/ \E r \in Rows : Count(w, r, n)) => Agreed'
<1> SUFFICES ASSUME NEW w \in Workers, NEW n \in Moves, Inv, Agreed,
                    Transfer(w, n) \/ \E r \in Rows : Count(w, r, n)
             PROVE  Agreed'
  OBVIOUS
<1>1. PICK j \in {[NoJob EXCEPT !.op = "transfer", !.n = n, !.need = n],
                  [NoJob EXCEPT !.op = "count", !.need = n]} : job' = [job EXCEPT ![w] = j]
  BY DEF Transfer, Count
<1>2. j.op \in {"transfer", "count"} /\ j.o = "none"  BY DEF NoJob
<1>3. UNCHANGED <<stage, claim>>  BY DEF Transfer, Count, order, aside
<1>4. Fits(j)  BY <1>2 DEF Fits
<1> QED  BY <1>1, <1>2, <1>3, <1>4, JobAgreed

-----------------------------------------------------------------------------
(* Two transactions of one order exclude each other, so that the commit of *)
(* one leaves no other working for it.                                     *)
LEMMA OnlyJob ==
  ASSUME Inv, Agreed, NEW w \in Workers, job[w].o \in Orders, Done(w)
  PROVE  \A v \in Workers : job'[v] = NoJob \/ (job'[v] = job[v] /\ job[v].o # job[w].o)
<1>1. job[w].o # "none"  BY PhysicalAssumption
<1>2. \A v \in Workers : job'[v] = IF v = w THEN NoJob ELSE job[v]  BY DEF Done, Inv, TypeOK
<1>3. \A v \in Workers : v # w => job[v].o # job[w].o  BY <1>1 DEF Agreed, Alone
<1> SUFFICES ASSUME NEW v \in Workers
             PROVE  job'[v] = NoJob \/ (job'[v] = job[v] /\ job[v].o # job[w].o)
  OBVIOUS
<1>4. CASE v = w  BY <1>2, <1>4
<1>5. CASE v # w  BY <1>2, <1>3, <1>5
<1> QED  BY <1>4, <1>5

LEMMA ReserveAgreed == \A w \in Workers : Inv /\ Agreed /\ Reserve(w) => Agreed'
<1> SUFFICES ASSUME NEW w \in Workers, Inv, Agreed, Reserve(w) PROVE Agreed'
  OBVIOUS
<1>1. PICK o \in Orders : o = job[w].o  BY DEF Reserve, Inv, Takes
<1> DEFINE c == [st |-> "ACTIVE", plan |-> job[w].plan]
<1>2. SumFunction(job[w].plan) = Qty[o]  BY <1>1 DEF Reserve, Agreed, Fits
<1>3. ClaimFits(o, c, "reserved")  BY <1>2 DEF ClaimFits
<1>4. claim' = [claim EXCEPT ![o] = c] /\ stage' = [stage EXCEPT ![o] = "reserved"] /\ Done(w)
  BY <1>1 DEF Reserve
<1> HIDE DEF c
<1> QED  BY <1>1, <1>3, <1>4, OnlyJob, OrderAgreed

LEMMA ShipCommitAgreed == \A w \in Workers : Inv /\ Agreed /\ ShipCommit(w) => Agreed'
<1> SUFFICES ASSUME NEW w \in Workers, Inv, Agreed, ShipCommit(w) PROVE Agreed'
  OBVIOUS
<1>1. PICK o \in Orders : o = job[w].o  BY DEF ShipCommit, Inv, Takes
<1> DEFINE c == [claim[o] EXCEPT !.st = "CONSUMED"]
<1>2. c.st = "CONSUMED"  BY DEF Inv, TypeOK, Claims
<1>3. claim' = [claim EXCEPT ![o] = c]  BY <1>1 DEF ShipCommit, Inv, TypeOK
<1>4. stage' = [stage EXCEPT ![o] = "out"] /\ Done(w)  BY <1>1 DEF ShipCommit
<1> HIDE DEF c
<1>5. ClaimFits(o, c, "out")  BY <1>2 DEF ClaimFits
<1> QED  BY <1>1, <1>3, <1>4, <1>5, OnlyJob, OrderAgreed

LEMMA GiveBackAgreed ==
  \A o \in Orders :
    Inv /\ Agreed /\ (Cancel(o) \/ \E n \in 0..Qty[o] : Return(o, n)) => Agreed'
<1> SUFFICES ASSUME NEW o \in Orders, Inv, Agreed, Cancel(o) \/ \E n \in 0..Qty[o] : Return(o, n)
             PROVE  Agreed'
  OBVIOUS
<1>1. PICK st \in {"RELEASED", "RESTORED"}, s \in {"cancelled", "returned"} :
        claim' = [claim EXCEPT ![o].st = st] /\ stage' = [stage EXCEPT ![o] = s]
  BY DEF Cancel, Return
<1> DEFINE c == [claim[o] EXCEPT !.st = st]
<1>2. claim' = [claim EXCEPT ![o] = c]  BY <1>1 DEF Inv, TypeOK
<1>3. c.st = st  BY DEF Inv, TypeOK, Claims
<1> HIDE DEF c
<1>4. ClaimFits(o, c, s)  BY <1>3 DEF ClaimFits
<1>5. \A v \in Workers : job'[v] = job[v] /\ job[v].o # o  BY DEF Cancel, Return, Quiet
<1> QED  BY <1>1, <1>2, <1>4, <1>5, OrderAgreed

LEMMA ReturnUnshippedAgreed ==
  \A o \in Orders : \A n, d \in 0..Qty[o] : Inv /\ Agreed /\ ReturnUnshipped(o, n, d) => Agreed'
<1> SUFFICES ASSUME NEW o \in Orders, NEW n \in 0..Qty[o], NEW d \in 0..Qty[o],
                    Inv, Agreed, ReturnUnshipped(o, n, d)
             PROVE  Agreed'
  OBVIOUS
<1>1. stage[o] = "reserved" /\ Quiet(o) /\ UNCHANGED job /\ (Settles(o, n) \/ Keeps(o, n))
  BY Unshipped
<1>2. \A v \in Workers : job'[v] = job[v] /\ job[v].o # o  BY <1>1 DEF Quiet
<1>3. CASE Settles(o, n)
  <2>1. PICK st \in {"RELEASED", "RESTORED"} : claim' = [claim EXCEPT ![o].st = st]
    BY <1>3 DEF Settles
  <2> DEFINE c == [claim[o] EXCEPT !.st = st]
  <2>2. claim' = [claim EXCEPT ![o] = c] /\ c.st = st  BY <2>1 DEF Inv, TypeOK, Claims
  <2> HIDE DEF c
  <2>3. ClaimFits(o, c, "returned")  BY <2>2 DEF ClaimFits
  <2>4. stage' = [stage EXCEPT ![o] = "returned"]  BY <1>3 DEF Settles
  <2> QED  BY <1>2, <2>2, <2>3, <2>4, OrderAgreed
<1>4. CASE Keeps(o, n)
  <2>1. PICK s \in {"reserved", "returned"} : stage' = [stage EXCEPT ![o] = s]
    BY <1>4 DEF Keeps
  <2>2. claim' = [claim EXCEPT ![o] = claim[o]]  BY <1>4 DEF Keeps, Inv, TypeOK
  <2>3. ClaimFits(o, claim[o], s)  BY <1>1 DEF Agreed, ClaimFits
  <2> QED  BY <1>2, <2>1, <2>2, <2>3, OrderAgreed
<1> QED  BY <1>1, <1>3, <1>4

LEMMA ReleaseAgreed ==
  \A w \in Workers, r \in Rows : Inv /\ Agreed /\ Release(w, r) => Agreed'
<1> SUFFICES ASSUME NEW w \in Workers, NEW r \in Rows, Inv, Agreed, Release(w, r) PROVE Agreed'
  OBVIOUS
<1> DEFINE j == [NoJob EXCEPT !.op = "release", !.n = res[r]]
<1>1. job' = [job EXCEPT ![w] = j] /\ UNCHANGED <<stage, claim>>  BY DEF Release, order
<1>2. j.op = "release" /\ j.o = "none"  BY DEF NoJob
<1> HIDE DEF j
<1>3. Fits(j)  BY <1>2 DEF Fits
<1> QED  BY <1>1, <1>2, <1>3, JobAgreed

LEMMA SameAgreed ==
  ASSUME Agreed, UNCHANGED <<stage, claim, job>>
  PROVE  Agreed'
  BY DEF Agreed, Alone, Fits, ClaimFits

LEMMA AgreedInit == Init => Agreed
<1> SUFFICES ASSUME Init PROVE Agreed  OBVIOUS
<1>1. NoJob.o = "none"  BY DEF NoJob
<1>2. \A o \in Orders : stage[o] = "new" /\ claim[o].st = "none"  BY DEF Init, NoClaim
<1> QED  BY <1>1, <1>2, NoJobFits DEF Init, Agreed, Alone, ClaimFits

LEMMA AgreedStep == Inv /\ Agreed /\ [Next]_vars => Agreed'
<1> SUFFICES ASSUME Inv, Agreed, [Next]_vars PROVE Agreed'
  OBVIOUS
<1>1. ASSUME NEW w \in Workers, NEW o \in Orders, Look(w, o) \/ HandOver(w, o) PROVE Agreed'
  BY <1>1, LookAgreed, HandOverAgreed
<1>2. ASSUME NEW w \in Workers, NEW r \in Rows, TakeRow(w, r) PROVE Agreed'
  BY <1>2, TakeRowAgreed
<1>3. ASSUME NEW w \in Workers, NEW r \in Rows, TransferCommit(w, r) \/ ReleaseCommit(w, r)
      PROVE  Agreed'
  BY <1>3, EndAgreed DEF TransferCommit, ReleaseCommit, order
<1>10. ASSUME NEW w \in Workers, NEW r \in Rows, Release(w, r) PROVE Agreed'
  BY <1>10, ReleaseAgreed
<1>4. ASSUME NEW w \in Workers, NEW n \in Moves,
             Transfer(w, n) \/ \E r \in Rows : Count(w, r, n)
      PROVE  Agreed'
  BY <1>4, MoveAgreed
<1>5. ASSUME NEW w \in Workers, Reserve(w) \/ FindLot(w) \/ TakeLot(w) \/ ShipCommit(w)
      PROVE  Agreed'
  BY <1>5, ReserveAgreed, FindLotAgreed, TakeLotAgreed, ShipCommitAgreed
<1>6. ASSUME NEW w \in Workers, GiveUp(w) PROVE Agreed'
  BY <1>6, EndAgreed DEF GiveUp, order, aside
<1>7. ASSUME NEW o \in Orders, Cancel(o) \/ \E n \in 0..Qty[o] : Return(o, n) PROVE Agreed'
  BY <1>7, GiveBackAgreed
<1>11. ASSUME NEW o \in Orders, NEW n \in 0..Qty[o], NEW d \in 0..Qty[o], ReturnUnshipped(o, n, d)
       PROVE  Agreed'
  BY <1>11, ReturnUnshippedAgreed
<1>8. ASSUME NEW n \in Moves, Receive(n) PROVE Agreed'
  BY <1>8, SameAgreed DEF Receive, order, aside
<1>9. CASE UNCHANGED vars
  BY <1>9, SameAgreed DEF vars, order, aside
<1> QED  BY <1>1, <1>2, <1>3, <1>4, <1>5, <1>6, <1>7, <1>8, <1>9, <1>10, <1>11 DEF Next

LEMMA AgreedHolds == Spec => []Agreed
<1>1. Init => Inv /\ Agreed  BY InitInv, AgreedInit
<1>2. (Inv /\ Agreed) /\ [Next]_vars => (Inv /\ Agreed)'  BY StepInv, AgreedStep
<1> QED  BY <1>1, <1>2, PTL DEF Spec
-----------------------------------------------------------------------------
(* The books of a row: its counter is what the active claims hold there,   *)
(* and what is there without a claim; where more was released without its  *)
(* claim than stayed, the row is loose; and what is held is on hand unless *)
(* the row is loose.                                                       *)
RowBooks(r) == /\ res[r] = Held(r) + stray[r]
               /\ stray[r] < 0 => r \in loose
               /\ r \in loose \/ Held(r) <= qty[r]

Counted == \A r \in Rows : RowBooks(r)

Part(c, r) == IF c.st = "ACTIVE" THEN c.plan[r] ELSE 0

LEMMA PartNat == \A c \in Claims, r \in Rows : Part(c, r) \in Nat
  BY DEF Claims, Part

LEMMA HeldInt == \A r \in Rows : Inv => Held(r) \in Int
<1> SUFFICES ASSUME NEW r \in Rows, Inv PROVE Held(r) \in Int  OBVIOUS
<1>1. [o \in Orders |-> IF claim[o].st = "ACTIVE" THEN claim[o].plan[r] ELSE 0] \in [Orders -> Int]
  BY PartNat DEF Inv, TypeOK, Part
<1> QED  BY <1>1, PhysicalAssumption, TotalInt DEF Held

(* When one claim changes, its part of each sum does.                      *)
LEMMA HeldChange ==
  ASSUME Inv, NEW o \in Orders, NEW c \in Claims, claim' = [claim EXCEPT ![o] = c], NEW r \in Rows
  PROVE  Held(r)' = Held(r) - Part(claim[o], r) + Part(c, r)
<1> DEFINE f == [p \in Orders |-> IF claim[p].st = "ACTIVE" THEN claim[p].plan[r] ELSE 0]
           g == [p \in Orders |-> IF claim'[p].st = "ACTIVE" THEN claim'[p].plan[r] ELSE 0]
<1>1. claim \in [Orders -> Claims] /\ claim' \in [Orders -> Claims]  BY DEF Inv, TypeOK
<1>2. \A p \in Orders : claim'[p] = IF p = o THEN c ELSE claim[p]  BY <1>1
<1>3. f \in [Orders -> Int] /\ g \in [Orders -> Int]  BY <1>1, PartNat DEF Part
<1>4. f[o] = Part(claim[o], r) /\ g[o] = Part(c, r)  BY <1>2 DEF Part
<1>5. \A p \in Orders \ {o} : f[p] = g[p]  BY <1>2
<1>6. Held(r) = SumFunction(f) /\ Held(r)' = SumFunction(g)  BY DEF Held
<1> HIDE DEF f, g
<1> QED  BY <1>3, <1>4, <1>5, <1>6, PhysicalAssumption, TotalChange

LEMMA HeldSame == \A r \in Rows : UNCHANGED claim => Held(r)' = Held(r)
  BY DEF Held

LEMMA SameCounted ==
  ASSUME Counted, UNCHANGED <<qty, res, claim, stray, loose>>
  PROVE  Counted'
  BY HeldSame DEF Counted, RowBooks

LEMMA ReserveCounted == \A w \in Workers : Inv /\ Agreed /\ Counted /\ Reserve(w) => Counted'
<1> SUFFICES ASSUME NEW w \in Workers, Inv, Agreed, Counted, Reserve(w), NEW r \in Rows
             PROVE  RowBooks(r)'
  BY DEF Counted
<1>1. PICK o \in Orders : o = job[w].o  BY DEF Reserve, Inv, Takes
<1>2. PICK plan \in [Rows -> Nat] : plan = job[w].plan  BY DEF Inv, TypeOK, Jobs
<1> DEFINE c == [st |-> "ACTIVE", plan |-> plan]
<1>3. c \in Claims /\ Part(c, r) = plan[r]  BY DEF Claims, Part
<1>4. claim' = [claim EXCEPT ![o] = c]  BY <1>1, <1>2 DEF Reserve
<1>5. Part(claim[o], r) = 0
  <2>1. stage[o] \in {"new", "cancelled"}  BY <1>1 DEF Reserve, Agreed, Fits
  <2> QED  BY <2>1 DEF Agreed, ClaimFits, Part
<1> HIDE DEF c
<1>6. Held(r)' = Held(r) + plan[r] /\ Held(r) \in Int
  <2>1. Held(r)' = Held(r) - Part(claim[o], r) + Part(c, r)  BY <1>3, <1>4, HeldChange
  <2> QED  BY <1>3, <1>5, <2>1, HeldInt
<1>7. /\ res'[r] = res[r] + plan[r] /\ qty' = qty /\ stray' = stray
      /\ loose' = loose \cup {s \in Where(plan) : plan[s] > Available(s)}
  BY <1>2 DEF Reserve, order, aside
<1>8. /\ res[r] = Held(r) + stray[r] /\ (stray[r] < 0 => r \in loose)
      /\ r \in loose \/ Held(r) <= qty[r]
  BY DEF Counted, RowBooks
<1>9. qty[r] \in Int /\ res[r] \in Int /\ stray[r] \in Int /\ plan[r] \in Nat
  BY <1>2 DEF Inv, TypeOK
<1>10. r \in loose' \/ plan[r] = 0 \/ plan[r] <= qty[r] - res[r]
  BY <1>7, <1>9 DEF Where, Available
<1>11. r \in loose' \/ Held(r)' <= qty'[r]  BY <1>6, <1>7, <1>8, <1>9, <1>10
<1> QED  BY <1>6, <1>7, <1>8, <1>9, <1>11 DEF RowBooks

LEMMA ShipCommitCounted ==
  \A w \in Workers : Inv /\ Agreed /\ Counted /\ ShipCommit(w) => Counted'
<1> SUFFICES ASSUME NEW w \in Workers, Inv, Agreed, Counted, ShipCommit(w), NEW r \in Rows
             PROVE  RowBooks(r)'
  BY DEF Counted
<1>1. PICK o \in Orders : o = job[w].o  BY DEF ShipCommit, Inv, Takes
<1> DEFINE c == [claim[o] EXCEPT !.st = "CONSUMED"]
<1>2. c \in Claims /\ Part(c, r) = 0  BY DEF Inv, TypeOK, Claims, Part
<1>3. claim' = [claim EXCEPT ![o] = c]  BY <1>1 DEF ShipCommit, Inv, TypeOK
<1> DEFINE n == job[w].took[r]
<1>4. n = claim[o].plan[r] /\ claim[o].st = "ACTIVE"
  <2>1. job[w].op = "ship" /\ job[w].todo = {}  BY DEF ShipCommit
  <2> QED  BY <1>1, <2>1 DEF Agreed, Fits, ClaimFits
<1>5. n \in Nat  BY <1>4 DEF Inv, TypeOK, Claims
<1>6. /\ qty'[r] = qty[r] - n /\ res'[r] = res[r] - n /\ stray' = stray /\ loose' = loose
  BY DEF ShipCommit, Minus, Inv, TypeOK, aside
<1> HIDE DEF c, n
<1>7. Held(r)' = Held(r) - n /\ Held(r) \in Int
  <2>1. Held(r)' = Held(r) - Part(claim[o], r) + Part(c, r)  BY <1>2, <1>3, HeldChange
  <2>2. Part(claim[o], r) = n  BY <1>4 DEF Part
  <2> QED  BY <1>2, <1>5, <2>1, <2>2, HeldInt
<1>8. /\ res[r] = Held(r) + stray[r] /\ (stray[r] < 0 => r \in loose)
      /\ r \in loose \/ Held(r) <= qty[r]
  BY DEF Counted, RowBooks
<1>9. qty[r] \in Int /\ res[r] \in Int /\ stray[r] \in Int  BY DEF Inv, TypeOK
<1> QED  BY <1>5, <1>6, <1>7, <1>8, <1>9 DEF RowBooks

LEMMA TakeFromCounted ==
  \A r \in Rows, n \in Nat :
    Inv /\ Counted /\ TakeFrom(r, n) /\ UNCHANGED <<res, claim, stray>> => Counted'
<1> SUFFICES ASSUME NEW r \in Rows, NEW n \in Nat, Inv, Counted, TakeFrom(r, n),
                    UNCHANGED <<res, claim, stray>>, NEW s \in Rows
             PROVE  RowBooks(s)'
  BY DEF Counted
<1>1. Held(s)' = Held(s) /\ Held(s) \in Int  BY HeldSame, HeldInt
<1>2. /\ res[s] = Held(s) + stray[s] /\ (stray[s] < 0 => s \in loose)
      /\ s \in loose \/ Held(s) <= qty[s]
  BY DEF Counted, RowBooks
<1>3. qty[s] \in Int /\ res[s] \in Int /\ stray[s] \in Int  BY DEF Inv, TypeOK
<1>4. qty'[s] = IF s = r THEN qty[s] - n ELSE qty[s]  BY DEF TakeFrom, Inv, TypeOK
<1>5. loose \subseteq loose' /\ (n > qty[r] - res[r] => r \in loose')  BY DEF TakeFrom, Available
<1>6. s \in loose' \/ Held(s)' <= qty'[s]  BY <1>1, <1>2, <1>3, <1>4, <1>5
<1> QED  BY <1>1, <1>2, <1>5, <1>6 DEF RowBooks

(* Goods come back to rows whose claims hold what they held.               *)
LEMMA CountersCounted ==
  ASSUME Inv, Counted, NEW back \in [Rows -> Nat], Counters(back),
         \A r \in Rows : Held(r)' = Held(r)
  PROVE  Counted'
<1> SUFFICES ASSUME NEW r \in Rows PROVE RowBooks(r)'  BY DEF Counted
<1> DEFINE free == [s \in Rows |-> IF res[s] >= back[s] THEN back[s] ELSE 0]
<1>1. /\ qty'[r] = qty[r] + back[r] /\ res'[r] = res[r] - free[r]
      /\ stray'[r] = stray[r] - free[r] /\ loose' = loose \cup Where(free)
  BY DEF Counters, Minus, Inv, TypeOK
<1>2. free[r] \in Nat /\ (free[r] > 0 => r \in Where(free)) /\ back[r] \in Nat  BY DEF Where
<1> HIDE DEF free
<1>3. Held(r)' = Held(r) /\ Held(r) \in Int  BY HeldInt
<1>4. /\ res[r] = Held(r) + stray[r] /\ (stray[r] < 0 => r \in loose)
      /\ r \in loose \/ Held(r) <= qty[r]
  BY DEF Counted, RowBooks
<1>5. qty[r] \in Int /\ res[r] \in Int /\ stray[r] \in Int  BY DEF Inv, TypeOK
<1> QED  BY <1>1, <1>2, <1>3, <1>4, <1>5 DEF RowBooks

(* The claim of an order that ends, and what it held.                      *)
LEMMA ClaimEnds ==
  ASSUME Inv, NEW o \in Orders, NEW st \in {"RELEASED", "RESTORED"},
         claim' = [claim EXCEPT ![o].st = st]
  PROVE  \A r \in Rows : Held(r)' = Held(r) - Part(claim[o], r)
<1> SUFFICES ASSUME NEW r \in Rows PROVE Held(r)' = Held(r) - Part(claim[o], r)  OBVIOUS
<1> DEFINE c == [claim[o] EXCEPT !.st = st]
<1>1. c \in Claims /\ Part(c, r) = 0  BY DEF Inv, TypeOK, Claims, Part
<1>2. claim' = [claim EXCEPT ![o] = c]  BY DEF Inv, TypeOK
<1>3. Part(claim[o], r) \in Int  BY PartNat DEF Inv, TypeOK
<1> HIDE DEF c
<1>4. Held(r)' = Held(r) - Part(claim[o], r) + Part(c, r)  BY <1>1, <1>2, HeldChange
<1> QED  BY <1>1, <1>3, <1>4, HeldInt

LEMMA CancelCounted == \A o \in Orders : Inv /\ Agreed /\ Counted /\ Cancel(o) => Counted'
<1> SUFFICES ASSUME NEW o \in Orders, Inv, Agreed, Counted, Cancel(o) PROVE Counted'
  OBVIOUS
<1>1. PICK st \in {"RELEASED", "RESTORED"} : claim' = [claim EXCEPT ![o].st = st]
  BY DEF Cancel
<1>2. \A r \in Rows : Held(r)' = Held(r) - Part(claim[o], r)  BY <1>1, ClaimEnds
<1>3. claim[o].plan \in [Rows -> Nat]  BY DEF Inv, TypeOK, Claims
<1>4. CASE claim[o].st = "ACTIVE"
  <2> SUFFICES ASSUME NEW r \in Rows PROVE RowBooks(r)'  BY DEF Counted
  <2>1. res'[r] = res[r] - claim[o].plan[r] /\ UNCHANGED <<qty, stray, loose>>
    BY <1>4 DEF Cancel, Minus, Inv, TypeOK, aside
  <2>2. Held(r)' = Held(r) - claim[o].plan[r]  BY <1>2, <1>4 DEF Part
  <2>3. Held(r) \in Int /\ claim[o].plan[r] \in Nat  BY <1>3, HeldInt
  <2>4. /\ res[r] = Held(r) + stray[r] /\ (stray[r] < 0 => r \in loose)
        /\ r \in loose \/ Held(r) <= qty[r]
    BY DEF Counted, RowBooks
  <2>5. qty[r] \in Int /\ res[r] \in Int /\ stray[r] \in Int  BY DEF Inv, TypeOK
  <2> QED  BY <2>1, <2>2, <2>3, <2>4, <2>5 DEF RowBooks
<1>5. CASE claim[o].st # "ACTIVE"
  <2>1. Counters(claim[o].plan)  BY <1>5 DEF Cancel
  <2>2. \A r \in Rows : Held(r)' = Held(r)  BY <1>2, <1>5, HeldInt DEF Part
  <2> QED  BY <1>3, <2>1, <2>2, CountersCounted
<1> QED  BY <1>4, <1>5

LEMMA ReturnCounted ==
  \A o \in Orders : \A n \in 0..Qty[o] : Inv /\ Agreed /\ Counted /\ Return(o, n) => Counted'
<1> SUFFICES ASSUME NEW o \in Orders, NEW n \in 0..Qty[o], Inv, Agreed, Counted, Return(o, n)
             PROVE  Counted'
  OBVIOUS
<1>1. PICK b \in Walks(claim[o].plan, n) : Counters(b)  BY DEF Return
<1>2. b \in [Rows -> Nat]  BY PhysicalAssumption, WalkType
<1>3. claim[o].st # "ACTIVE"  BY DEF Return, Agreed, ClaimFits
<1>4. claim' = [claim EXCEPT ![o].st = "RESTORED"]  BY DEF Return
<1>5. \A r \in Rows : Held(r)' = Held(r) - Part(claim[o], r)  BY <1>4, ClaimEnds
<1>6. \A r \in Rows : Held(r)' = Held(r)  BY <1>3, <1>5, HeldInt DEF Part
<1> QED  BY <1>1, <1>2, <1>6, CountersCounted

LEMMA ReturnUnshippedCounted ==
  \A o \in Orders : \A n, d \in 0..Qty[o] :
    Inv /\ Agreed /\ Counted /\ ReturnUnshipped(o, n, d) => Counted'
<1> SUFFICES ASSUME NEW o \in Orders, NEW n \in 0..Qty[o], NEW d \in 0..Qty[o],
                    Inv, Agreed, Counted, ReturnUnshipped(o, n, d), NEW r \in Rows
             PROVE  RowBooks(r)'
  BY DEF Counted
<1>1. /\ stage[o] = "reserved" /\ UNCHANGED qty /\ res' = Minus(res, Released(o, n))
      /\ Settles(o, n) \/ Keeps(o, n)
  BY Unshipped
<1>2. n \in Nat  BY PhysicalAssumption
<1> DEFINE free == Released(o, n)[r]
           plan == claim[o].plan[r]
<1>3. Released(o, n) \in [Rows -> Nat] /\ free \in Nat /\ plan \in Nat /\ free <= plan
  BY <1>2, ReleasedType
<1>4. res'[r] = res[r] - free  BY <1>1 DEF Minus, Inv, TypeOK
<1>5. /\ res[r] = Held(r) + stray[r] /\ (stray[r] < 0 => r \in loose)
      /\ r \in loose \/ Held(r) <= qty[r]
  BY DEF Counted, RowBooks
<1>6. qty[r] \in Int /\ res[r] \in Int /\ stray[r] \in Int /\ Held(r) \in Int
  BY HeldInt DEF Inv, TypeOK
<1>7. CASE Settles(o, n)
  <2>1. Held(r)' = Held(r) - Part(claim[o], r)
    <3>1. PICK st \in {"RELEASED", "RESTORED"} : claim' = [claim EXCEPT ![o].st = st]
      BY <1>7 DEF Settles
    <3> QED  BY <3>1, ClaimEnds
  <2>2. Part(claim[o], r) = plan  BY <1>1 DEF Agreed, ClaimFits, Part
  <2>3. stray'[r] = stray[r] + plan - free /\ UNCHANGED loose  BY <1>7 DEF Settles
  <2> HIDE DEF free, plan
  <2> QED  BY <1>1, <1>3, <1>4, <1>5, <1>6, <2>1, <2>2, <2>3 DEF RowBooks
<1>8. CASE Keeps(o, n)
  <2>1. Held(r)' = Held(r)  BY <1>8, HeldSame DEF Keeps
  <2>2. stray'[r] = stray[r] - free  BY <1>8 DEF Keeps, Minus, Inv, TypeOK
  <2>3. loose \subseteq loose' /\ (free > 0 => r \in loose')
    BY <1>3, <1>8 DEF Keeps, Where
  <2> HIDE DEF free, plan
  <2> QED  BY <1>1, <1>3, <1>4, <1>5, <1>6, <2>1, <2>2, <2>3 DEF RowBooks
<1> QED  BY <1>1, <1>7, <1>8

LEMMA ReleaseCommitCounted ==
  \A w \in Workers, r \in Rows : Inv /\ Counted /\ ReleaseCommit(w, r) => Counted'
<1> SUFFICES ASSUME NEW w \in Workers, NEW s \in Rows, Inv, Counted, ReleaseCommit(w, s),
                    NEW r \in Rows
             PROVE  RowBooks(r)'
  BY DEF Counted
<1> DEFINE n == IF r = s THEN job[w].n ELSE 0
<1>1. n \in Nat  BY DEF Inv, TypeOK, Jobs
<1>2. /\ res'[r] = res[r] - n /\ stray'[r] = stray[r] - n /\ UNCHANGED <<qty, claim>>
      /\ loose \subseteq loose' /\ (n > 0 => r \in loose')
  BY DEF ReleaseCommit, Inv, TypeOK, Jobs, order
<1>3. Held(r)' = Held(r) /\ Held(r) \in Int  BY <1>2, HeldSame, HeldInt
<1>4. /\ res[r] = Held(r) + stray[r] /\ (stray[r] < 0 => r \in loose)
      /\ r \in loose \/ Held(r) <= qty[r]
  BY DEF Counted, RowBooks
<1>5. qty[r] \in Int /\ res[r] \in Int /\ stray[r] \in Int  BY DEF Inv, TypeOK
<1> HIDE DEF n
<1> QED  BY <1>1, <1>2, <1>3, <1>4, <1>5 DEF RowBooks

LEMMA ReceiveCounted == \A n \in Moves : Inv /\ Counted /\ Receive(n) => Counted'
<1> SUFFICES ASSUME NEW n \in Moves, Inv, Counted, Receive(n), NEW r \in Rows
             PROVE  RowBooks(r)'
  BY DEF Counted
<1>1. UNCHANGED <<res, claim, stray, loose>> /\ qty' = [qty EXCEPT ![Floor] = @ + n]
  BY DEF Receive, order, aside
<1>2. n \in Nat  BY PhysicalAssumption
<1>3. Held(r)' = Held(r) /\ Held(r) \in Int  BY <1>1, HeldSame, HeldInt
<1>4. qty[r] \in Int  BY DEF Inv, TypeOK
<1>5. qty[r] <= qty'[r] /\ qty'[r] \in Int  BY <1>1, <1>2, <1>4 DEF Inv, TypeOK
<1>6. RowBooks(r)  BY DEF Counted
<1> QED  BY <1>1, <1>3, <1>4, <1>5, <1>6 DEF RowBooks

LEMMA CountedInit == Init => Counted
<1> SUFFICES ASSUME Init, NEW r \in Rows PROVE RowBooks(r)  BY DEF Counted
<1>1. [o \in Orders |-> IF claim[o].st = "ACTIVE" THEN claim[o].plan[r] ELSE 0]
        = [o \in Orders |-> 0]
  BY DEF Init, NoClaim
<1>2. Held(r) = 0  BY <1>1, PhysicalAssumption, TotalZero DEF Held
<1>3. qty[r] \in Nat /\ res[r] = 0 /\ stray[r] = 0  BY PhysicalAssumption DEF Init, None
<1> QED  BY <1>2, <1>3 DEF RowBooks

LEMMA CountedStep == Inv /\ Agreed /\ Counted /\ [Next]_vars => Counted'
<1> SUFFICES ASSUME Inv, Agreed, Counted, [Next]_vars PROVE Counted'
  OBVIOUS
<1>1. ASSUME NEW w \in Workers, NEW o \in Orders, Look(w, o) \/ HandOver(w, o) PROVE Counted'
  BY <1>1, SameCounted DEF Look, HandOver, stock, order, aside
<1>2. ASSUME NEW w \in Workers, NEW r \in Rows, TakeRow(w, r) PROVE Counted'
  BY <1>2, SameCounted DEF TakeRow, stock, order, aside
<1>3. ASSUME NEW w \in Workers, NEW r \in Rows, TransferCommit(w, r) PROVE Counted'
  <2>1. job[w].n \in Nat  BY DEF Inv, TypeOK, Jobs
  <2> QED  BY <1>3, <2>1, TakeFromCounted DEF TransferCommit, order, aside
<1>11. ASSUME NEW w \in Workers, NEW r \in Rows, Release(w, r) PROVE Counted'
  BY <1>11, SameCounted DEF Release, stock, order, aside
<1>12. ASSUME NEW w \in Workers, NEW r \in Rows, ReleaseCommit(w, r) PROVE Counted'
  BY <1>12, ReleaseCommitCounted
<1>4. ASSUME NEW w \in Workers, NEW n \in Moves, Transfer(w, n) PROVE Counted'
  BY <1>4, SameCounted DEF Transfer, stock, order, aside
<1>5. ASSUME NEW w \in Workers, NEW n \in Moves, NEW r \in Rows, Count(w, r, n) PROVE Counted'
  <2>1. n \in Nat  BY PhysicalAssumption
  <2> QED  BY <1>5, <2>1, TakeFromCounted DEF Count, order, aside
<1>6. ASSUME NEW w \in Workers, FindLot(w) \/ TakeLot(w) \/ GiveUp(w) PROVE Counted'
  BY <1>6, SameCounted DEF FindLot, TakeLot, GiveUp, stock, order, aside
<1>7. ASSUME NEW w \in Workers, Reserve(w) \/ ShipCommit(w) PROVE Counted'
  BY <1>7, ReserveCounted, ShipCommitCounted
<1>8. ASSUME NEW o \in Orders, Cancel(o) \/ \E n \in 0..Qty[o] : Return(o, n) PROVE Counted'
  BY <1>8, CancelCounted, ReturnCounted
<1>13. ASSUME NEW o \in Orders, NEW n \in 0..Qty[o], NEW d \in 0..Qty[o], ReturnUnshipped(o, n, d)
       PROVE  Counted'
  BY <1>13, ReturnUnshippedCounted
<1>9. ASSUME NEW n \in Moves, Receive(n) PROVE Counted'
  BY <1>9, ReceiveCounted
<1>10. CASE UNCHANGED vars
  BY <1>10, SameCounted DEF vars, stock, order, aside
<1> QED  BY <1>1, <1>2, <1>3, <1>4, <1>5, <1>6, <1>7, <1>8, <1>9, <1>10, <1>11, <1>12, <1>13 DEF Next

LEMMA CountedHolds == Spec => []Counted
<1>1. Init => Counted  BY CountedInit
<1>2. Inv /\ Agreed /\ Counted /\ [Next]_vars => Counted'  BY CountedStep
<1> QED  BY <1>1, <1>2, InvHolds, AgreedHolds, PTL DEF Spec

(* For any orders, rows, quantities and open transactions, a row's counter *)
(* is what the active claims hold there and what is there without a claim: *)
(* only the releases that do not look at a claim (give-backs, returns of   *)
(* goods never handed over, staff) and the claims such returns settle set  *)
(* the two apart; reservations, hand-overs, cancellations and movements,   *)
(* stale, failing or interleaved, do not.                                  *)
THEOREM CountersAreClaims == Spec => []ReservationsCounted
<1>1. Counted => ReservationsCounted  BY DEF Counted, RowBooks, ReservationsCounted
<1> QED  BY <1>1, CountedHolds, PTL

(* What the active claims hold at a row is on hand there, unless the row   *)
(* has been promised twice, moved from, or released without the claim, by  *)
(* a give-back, a return of goods never handed over, or staff.             *)
THEOREM ReservedIsOnHand == Spec => []ReservedGoodsAreThere
<1>1. Counted => ReservedGoodsAreThere  BY DEF Counted, RowBooks, ReservedGoodsAreThere
<1> QED  BY <1>1, CountedHolds, PTL
-----------------------------------------------------------------------------
(* What lines still owe to a lot, together with what it has left, was      *)
(* received with it.                                                       *)
Owed(l) == SumFunction([o \in Orders |-> used[o][l].owed])

LotBooks(l) == left[l] + Owed(l) <= got[l]

Covered == \A l \in Lots : LotBooks(l)

LEMMA OwedNat == \A l \in Lots : Inv => Owed(l) \in Nat
<1> SUFFICES ASSUME NEW l \in Lots, Inv PROVE Owed(l) \in Nat  OBVIOUS
<1>1. [o \in Orders |-> used[o][l].owed] \in [Orders -> Nat]  BY DEF Inv, TypeOK, Uses
<1> QED  BY <1>1, PhysicalAssumption, TotalNat DEF Owed

(* When one line's records change, its part of each sum does.              *)
LEMMA OwedChange ==
  ASSUME Inv, NEW o \in Orders, NEW u \in Uses, used' = [used EXCEPT ![o] = u], NEW l \in Lots
  PROVE  Owed(l)' = Owed(l) - used[o][l].owed + u[l].owed
<1> DEFINE f == [p \in Orders |-> used[p][l].owed]
           g == [p \in Orders |-> used'[p][l].owed]
<1>1. used \in [Orders -> Uses] /\ used' \in [Orders -> Uses]  BY DEF Inv, TypeOK
<1>2. \A p \in Orders : used'[p] = IF p = o THEN u ELSE used[p]  BY <1>1
<1>3. f \in [Orders -> Int] /\ g \in [Orders -> Int]  BY <1>1 DEF Uses
<1>4. f[o] = used[o][l].owed /\ g[o] = u[l].owed  BY <1>2
<1>5. \A p \in Orders \ {o} : f[p] = g[p]  BY <1>2
<1>6. Owed(l) = SumFunction(f) /\ Owed(l)' = SumFunction(g)  BY DEF Owed
<1> HIDE DEF f, g
<1> QED  BY <1>3, <1>4, <1>5, <1>6, PhysicalAssumption, TotalChange

(* Lots that give units to no line, or to no one.                          *)
LEMMA LessCovered ==
  ASSUME Inv, Covered, UNCHANGED <<got, used>>,
         \A l \in Lots : left'[l] \in Int /\ left'[l] <= left[l]
  PROVE  Covered'
<1> SUFFICES ASSUME NEW l \in Lots PROVE LotBooks(l)'  BY DEF Covered
<1>1. Owed(l)' = Owed(l) /\ Owed(l) \in Nat  BY OwedNat DEF Owed
<1>2. left[l] \in Int /\ got[l] \in Nat /\ left[l] + Owed(l) <= got[l]
  BY DEF Inv, TypeOK, Covered, LotBooks
<1> QED  BY <1>1, <1>2 DEF LotBooks

LEMMA SameCovered ==
  ASSUME Inv, Covered, UNCHANGED <<got, left, used>>
  PROVE  Covered'
  BY LessCovered DEF Inv, TypeOK

LEMMA TakeLotCovered == \A w \in Workers : Inv /\ Covered /\ TakeLot(w) => Covered'
<1> SUFFICES ASSUME NEW w \in Workers, Inv, Covered, TakeLot(w) PROVE Covered'
  OBVIOUS
<1>1. UNCHANGED <<got, used>>  BY DEF TakeLot, order, aside
<1>2. job[w].take \in Nat /\ left \in [Lots -> Int]  BY DEF Inv, TypeOK, Jobs
<1>3. UNCHANGED left \/ left' = [left EXCEPT ![job[w].pick] = @ - job[w].take]
  BY DEF TakeLot, Consume
<1>4. \A l \in Lots : left'[l] \in Int /\ left'[l] <= left[l]  BY <1>2, <1>3
<1> QED  BY <1>1, <1>4, LessCovered

LEMMA TransferCommitCovered ==
  \A w \in Workers, r \in Rows : Inv /\ Covered /\ TransferCommit(w, r) => Covered'
<1> SUFFICES ASSUME NEW w \in Workers, NEW r \in Rows, Inv, Covered, TransferCommit(w, r)
             PROVE  Covered'
  OBVIOUS
<1>1. \A l \in Lots : left'[l] = left[l] - job[w].cost[l] /\ job[w].cost[l] \in Nat
  BY DEF TransferCommit, Minus, Inv, TypeOK, Jobs
<1>2. \A l \in Lots : left'[l] \in Int /\ left'[l] <= left[l]  BY <1>1 DEF Inv, TypeOK
<1> QED  BY <1>2, LessCovered DEF TransferCommit, order, aside

(* Units that move between a lot and a line.                               *)
LEMMA MovedCovered ==
  ASSUME Inv, Covered, UNCHANGED got, NEW o \in Orders, NEW u \in Uses,
         used' = [used EXCEPT ![o] = u],
         \A l \in Lots : left'[l] \in Int /\ left'[l] + u[l].owed = left[l] + used[o][l].owed
  PROVE  Covered'
<1> SUFFICES ASSUME NEW l \in Lots PROVE LotBooks(l)'  BY DEF Covered
<1>1. Owed(l)' = Owed(l) - used[o][l].owed + u[l].owed  BY OwedChange
<1>2. Owed(l) \in Nat /\ used[o][l].owed \in Nat /\ u[l].owed \in Nat
  BY OwedNat DEF Inv, TypeOK, Uses
<1>3. /\ left[l] \in Int /\ got[l] \in Nat /\ left[l] + Owed(l) <= got[l]
      /\ left'[l] \in Int /\ left'[l] + u[l].owed = left[l] + used[o][l].owed
  BY DEF Inv, TypeOK, Covered, LotBooks
<1> QED  BY <1>1, <1>2, <1>3 DEF LotBooks

(* What a line owes once it is handed over: what it owed and what it costs.*)
LEMMA Recorded ==
  ASSUME Inv, NEW o \in Orders, NEW cost \in [Lots -> Nat]
  PROVE  /\ Record(o, cost) \in Uses
         /\ \A l \in Lots : Record(o, cost)[l].owed = used[o][l].owed + cost[l]
<1>1. \A l \in Lots : used[o][l] \in [owed : Nat, cycle : Nat] /\ cycle[o] \in Nat /\ cost[l] \in Nat
  BY DEF Inv, TypeOK, Uses
<1>2. \A l \in Lots : /\ Record(o, cost)[l] \in [owed : Nat, cycle : Nat]
                      /\ Record(o, cost)[l].owed = used[o][l].owed + cost[l]
  BY <1>1 DEF Record
<1> QED  BY <1>2 DEF Record, Uses

LEMMA ShipCommitCovered == \A w \in Workers : Inv /\ Covered /\ ShipCommit(w) => Covered'
<1> SUFFICES ASSUME NEW w \in Workers, Inv, Covered, ShipCommit(w) PROVE Covered'
  OBVIOUS
<1>1. PICK o \in Orders : o = job[w].o  BY DEF ShipCommit, Inv, Takes
<1>2. PICK cost \in [Lots -> Nat] : cost = job[w].cost  BY DEF Inv, TypeOK, Jobs
<1>3. PICK u \in Uses : u = Record(o, cost)  BY Recorded
<1>4. used' = [used EXCEPT ![o] = u] /\ UNCHANGED got  BY <1>1, <1>2, <1>3 DEF ShipCommit
<1>5. \A l \in Lots : u[l].owed = used[o][l].owed + cost[l]  BY <1>3, Recorded
<1>6. \A l \in Lots : left'[l] = left[l] - cost[l]  BY <1>2 DEF ShipCommit, Minus, Inv, TypeOK
<1>7. \A l \in Lots : left[l] \in Int /\ used[o][l].owed \in Nat /\ cost[l] \in Nat
  BY DEF Inv, TypeOK, Uses
<1>8. \A l \in Lots : left'[l] \in Int /\ left'[l] + u[l].owed = left[l] + used[o][l].owed
  BY <1>5, <1>6, <1>7
<1> QED  BY <1>4, <1>8, MovedCovered

(* What a line owes after lots took units back.                            *)
LEMMA Restored ==
  ASSUME Inv, NEW o \in Orders, NEW back \in [Lots -> Nat],
         \A l \in Lots : back[l] <= used[o][l].owed, RestoreLots(o, back)
  PROVE  \E u \in Uses :
           /\ used' = [used EXCEPT ![o] = u]
           /\ \A l \in Lots : /\ u[l].owed = used[o][l].owed - back[l]
                              /\ u[l].cycle = used[o][l].cycle
<1> DEFINE u == [l \in Lots |-> Repaid(used[o][l], back[l])]
<1>1. used' = [used EXCEPT ![o] = u]  BY DEF RestoreLots
<1>2. \A l \in Lots : used[o][l] \in [owed : Nat, cycle : Nat] /\ back[l] \in Nat
  BY DEF Inv, TypeOK, Uses
<1>3. \A l \in Lots : /\ u[l] \in [owed : Nat, cycle : Nat]
                      /\ u[l].owed = used[o][l].owed - back[l]
                      /\ u[l].cycle = used[o][l].cycle
  BY <1>2 DEF Repaid
<1>4. u \in Uses  BY <1>3 DEF Uses
<1> QED  BY <1>1, <1>3, <1>4

LEMMA RestoreCovered ==
  ASSUME Inv, Covered, NEW o \in Orders, NEW back \in [Lots -> Nat],
         \A l \in Lots : back[l] <= used[o][l].owed,
         RestoreLots(o, back), UNCHANGED got
  PROVE  Covered'
<1>1. PICK u \in Uses : /\ used' = [used EXCEPT ![o] = u]
                        /\ \A l \in Lots : u[l].owed = used[o][l].owed - back[l]
  BY Restored
<1>2. \A l \in Lots : left'[l] = left[l] + back[l] /\ left[l] \in Int /\ used[o][l].owed \in Nat
  BY DEF RestoreLots, Inv, TypeOK, Uses
<1>3. \A l \in Lots : left'[l] \in Int /\ left'[l] + u[l].owed = left[l] + used[o][l].owed
  BY <1>1, <1>2
<1> QED  BY <1>1, <1>3, MovedCovered

(* What a cancellation and a return give back of what a line owes.         *)
AllOurs(o) == [l \in Lots |-> IF l \in Ours(o) THEN used[o][l].owed ELSE 0]
OneOf(o, l, n) == [NoCost EXCEPT ![l] = Capped(n, used[o][l].owed)]

LEMMA BackWithinOwed ==
  ASSUME Inv, NEW o \in Orders
  PROVE  /\ AllOurs(o) \in [Lots -> Nat] /\ \A l \in Lots : AllOurs(o)[l] <= used[o][l].owed
         /\ \A k \in Lots, n \in Nat :
              /\ OneOf(o, k, n) \in [Lots -> Nat]
              /\ \A l \in Lots : OneOf(o, k, n)[l] <= used[o][l].owed
<1>1. \A l \in Lots : used[o][l].owed \in Nat  BY DEF Inv, TypeOK, Uses
<1>2. AllOurs(o) \in [Lots -> Nat] /\ \A l \in Lots : AllOurs(o)[l] <= used[o][l].owed
  BY <1>1 DEF AllOurs
<1>3. ASSUME NEW k \in Lots, NEW n \in Nat
      PROVE  /\ OneOf(o, k, n) \in [Lots -> Nat]
             /\ \A l \in Lots : OneOf(o, k, n)[l] <= used[o][l].owed
  <2>1. Capped(n, used[o][k].owed) \in Nat /\ Capped(n, used[o][k].owed) <= used[o][k].owed
    BY <1>1 DEF Capped, Least
  <2> QED  BY <1>1, <2>1 DEF OneOf, NoCost
<1> QED  BY <1>2, <1>3

LEMMA CancelCovered == \A o \in Orders : Inv /\ Covered /\ Cancel(o) => Covered'
<1> SUFFICES ASSUME NEW o \in Orders, Inv, Covered, Cancel(o) PROVE Covered'
  OBVIOUS
<1>1. UNCHANGED got  BY DEF Cancel
<1>2. UNCHANGED <<left, used>> \/ RestoreLots(o, AllOurs(o))  BY DEF Cancel, AllOurs
<1> QED  BY <1>1, <1>2, SameCovered, RestoreCovered, BackWithinOwed

LEMMA ReturnCovered ==
  \A o \in Orders : \A n \in 0..Qty[o] : Inv /\ Covered /\ Return(o, n) => Covered'
<1> SUFFICES ASSUME NEW o \in Orders, NEW n \in 0..Qty[o], Inv, Covered, Return(o, n)
             PROVE  Covered'
  OBVIOUS
<1>1. UNCHANGED got /\ n \in Nat  BY PhysicalAssumption DEF Return
<1>2. UNCHANGED <<left, used>> \/ \E l \in Ours(o) : RestoreLots(o, OneOf(o, l, n))
  BY DEF Return, OneOf
<1>3. CASE \E l \in Ours(o) : RestoreLots(o, OneOf(o, l, n))
  <2>1. PICK l \in Lots : RestoreLots(o, OneOf(o, l, n))  BY <1>3 DEF Ours
  <2> QED  BY <1>1, <2>1, RestoreCovered, BackWithinOwed
<1> QED  BY <1>1, <1>2, <1>3, SameCovered

LEMMA ReceiveCovered == \A n \in Moves : Inv /\ Covered /\ Receive(n) => Covered'
<1> SUFFICES ASSUME NEW n \in Moves, Inv, Covered, Receive(n), NEW l \in Lots
             PROVE  LotBooks(l)'
  BY DEF Covered
<1>1. PICK k \in Lots : /\ got[k] = 0 /\ got' = [got EXCEPT ![k] = n]
                        /\ left' = [left EXCEPT ![k] = n]
  BY DEF Receive
<1>2. Owed(l)' = Owed(l)  BY DEF Receive, order, aside, Owed
<1>3. CASE l = k
  <2>1. [o \in Orders |-> used[o][l].owed] = [o \in Orders |-> 0]
    BY <1>1, <1>3 DEF Inv, Unborn
  <2>2. Owed(l) = 0  BY <2>1, PhysicalAssumption, TotalZero DEF Owed
  <2>3. got'[l] = n /\ left'[l] = n /\ n \in Nat
    BY <1>1, <1>3, PhysicalAssumption DEF Inv, TypeOK
  <2> QED  BY <1>2, <2>2, <2>3 DEF LotBooks
<1>4. CASE l # k
  <2>1. got'[l] = got[l] /\ left'[l] = left[l]  BY <1>1, <1>4 DEF Inv, TypeOK
  <2> QED  BY <1>2, <2>1 DEF Covered, LotBooks
<1> QED  BY <1>3, <1>4

(* Steps of no concern to lots and records.                                *)
LEMMA LotsAside ==
  /\ \A w \in Workers, r \in Rows :
       Release(w, r) \/ ReleaseCommit(w, r) => UNCHANGED <<got, left, used>>
  /\ \A o \in Orders, n, d \in Nat : ReturnUnshipped(o, n, d) => UNCHANGED <<got, left, used>>
<1>1. \A w \in Workers, r \in Rows :
        Release(w, r) \/ ReleaseCommit(w, r) => UNCHANGED <<got, left, used>>
  BY DEF Release, ReleaseCommit, lots, order
<1>2. \A o \in Orders, n, d \in Nat : ReturnUnshipped(o, n, d) => UNCHANGED <<got, left, used>>
  BY DEF ReturnUnshipped, lots
<1> QED  BY <1>1, <1>2

LEMMA CoveredInit == Init => Covered
<1> SUFFICES ASSUME Init, NEW l \in Lots PROVE LotBooks(l)  BY DEF Covered
<1>1. [o \in Orders |-> used[o][l].owed] = [o \in Orders |-> 0]  BY DEF Init, NoUse
<1>2. Owed(l) = 0  BY <1>1, PhysicalAssumption, TotalZero DEF Owed
<1>3. left[l] = got[l] /\ got[l] \in Nat  BY PhysicalAssumption DEF Init
<1> QED  BY <1>2, <1>3 DEF LotBooks

LEMMA CoveredStep == Inv /\ Covered /\ [Next]_vars => Covered'
<1> SUFFICES ASSUME Inv, Covered, [Next]_vars PROVE Covered'
  OBVIOUS
<1>1. ASSUME NEW w \in Workers, NEW o \in Orders, Look(w, o) \/ HandOver(w, o) PROVE Covered'
  BY <1>1, SameCovered DEF Look, HandOver, lots, order, aside
<1>2. ASSUME NEW w \in Workers, NEW r \in Rows, TakeRow(w, r) PROVE Covered'
  BY <1>2, SameCovered DEF TakeRow, lots, order, aside
<1>3. ASSUME NEW w \in Workers, NEW r \in Rows, TransferCommit(w, r) PROVE Covered'
  BY <1>3, TransferCommitCovered
<1>4. ASSUME NEW w \in Workers, NEW n \in Moves,
             Transfer(w, n) \/ \E r \in Rows : Count(w, r, n)
      PROVE  Covered'
  BY <1>4, SameCovered DEF Transfer, Count, lots, order, aside
<1>5. ASSUME NEW w \in Workers, Reserve(w) \/ FindLot(w) \/ GiveUp(w) PROVE Covered'
  BY <1>5, SameCovered DEF Reserve, FindLot, GiveUp, lots, order, aside
<1>6. ASSUME NEW w \in Workers, TakeLot(w) \/ ShipCommit(w) PROVE Covered'
  BY <1>6, TakeLotCovered, ShipCommitCovered
<1>7. ASSUME NEW o \in Orders, Cancel(o) \/ \E n \in 0..Qty[o] : Return(o, n) PROVE Covered'
  BY <1>7, CancelCovered, ReturnCovered
<1>10. ASSUME NEW w \in Workers, NEW r \in Rows, Release(w, r) \/ ReleaseCommit(w, r)
       PROVE  Covered'
  BY <1>10, SameCovered, LotsAside
<1>11. ASSUME NEW o \in Orders, NEW n \in 0..Qty[o], NEW d \in 0..Qty[o], ReturnUnshipped(o, n, d)
       PROVE  Covered'
  <2>1. n \in Nat /\ d \in Nat  BY PhysicalAssumption
  <2> QED  BY <1>11, <2>1, SameCovered, LotsAside
<1>8. ASSUME NEW n \in Moves, Receive(n) PROVE Covered'
  BY <1>8, ReceiveCovered
<1>9. CASE UNCHANGED vars
  BY <1>9, SameCovered DEF vars, lots, order, aside
<1> QED  BY <1>1, <1>2, <1>3, <1>4, <1>5, <1>6, <1>7, <1>8, <1>9, <1>10, <1>11 DEF Next

LEMMA CoveredHolds == Spec => []Covered
<1>1. Init => Covered  BY CoveredInit
<1>2. Inv /\ Covered /\ [Next]_vars => Covered'  BY CoveredStep
<1> QED  BY <1>1, <1>2, InvHolds, PTL DEF Spec

(* No costing lot is restored beyond its receipt, however many orders give *)
(* back, by cancellation, by return or after a revival, what they took.    *)
THEOREM NeverOverRestored == Spec => []LotsWithinReceipt
<1>1. Inv /\ Covered => LotsWithinReceipt
  <2> SUFFICES ASSUME Inv, Covered, NEW l \in Lots PROVE left[l] <= got[l]
    BY DEF LotsWithinReceipt
  <2>1. left[l] \in Int /\ got[l] \in Nat /\ Owed(l) \in Nat  BY OwedNat DEF Inv, TypeOK
  <2> QED  BY <2>1 DEF Covered, LotBooks
<1> QED  BY <1>1, InvHolds, CoveredHolds, PTL
-----------------------------------------------------------------------------
(* What one line owes, by its records u, when its order is in stage s and  *)
(* cycle c and g of its units are out.                                     *)
Debt(u) == SumFunction([l \in Lots |-> u[l].owed])
Records(u) == {l \in Lots : u[l].cycle > 0}
Stale(u, c) == \E l \in Records(u) : u[l].cycle # c /\ u[l].owed > 0

CostBack(u, s, c, g) ==
  \/ s = "returned" /\ Cardinality(Records(u)) > 1
  \/ Stale(u, c)
  \/ Debt(u) <= g

(* A record keeps the cycle that made it.  While the order is reserved     *)
(* every record is of an earlier cycle; before that, the current cycle has *)
(* given everything back.                                                  *)
RecordFits(r, s, c) ==
  /\ r.owed > 0 => r.cycle > 0
  /\ r.cycle <= c
  /\ s = "reserved" => r.cycle < c
  /\ s \in {"new", "cancelled"} => r.owed = 0 \/ r.cycle # c

GoneFits(o, s, g) == /\ s \in {"new", "cancelled", "reserved"} => g = 0
                     /\ s = "out" => g = Qty[o]

DebtFits(o, u, s, c, g) == /\ \A l \in Lots : RecordFits(u[l], s, c)
                           /\ GoneFits(o, s, g)
                           /\ CostBack(u, s, c, g)

Dated == \A o \in Orders : DebtFits(o, used[o], stage[o], cycle[o], gone[o])

LEMMA DebtNat == \A u \in Uses : Debt(u) \in Nat
<1> SUFFICES ASSUME NEW u \in Uses PROVE Debt(u) \in Nat  OBVIOUS
<1>1. [l \in Lots |-> u[l].owed] \in [Lots -> Nat]  BY DEF Uses
<1> QED  BY <1>1, LotsFinite, TotalNat DEF Debt

LEMMA NoDebt ==
  ASSUME NEW u, \A l \in Lots : u[l].owed = 0
  PROVE  Debt(u) = 0
<1>1. [l \in Lots |-> u[l].owed] = [l \in Lots |-> 0]  OBVIOUS
<1> QED  BY <1>1, LotsFinite, TotalZero DEF Debt

(* Before a hand-over every debt is of an earlier cycle.                   *)
LEMMA OldDebt ==
  ASSUME NEW u \in Uses, NEW c \in Nat, NEW s, NEW g,
         \A l \in Lots : RecordFits(u[l], s, c), \A l \in Lots : u[l].owed = 0 \/ u[l].cycle # c,
         g = 0
  PROVE  CostBack(u, s, c, g)
<1>1. CASE \A l \in Lots : u[l].owed = 0
  BY <1>1, NoDebt DEF CostBack
<1>2. CASE \E l \in Lots : u[l].owed # 0
  <2>1. PICK l \in Lots : u[l].owed # 0  BY <1>2
  <2>2. u[l].owed \in Nat  BY DEF Uses
  <2>3. l \in Records(u) /\ u[l].cycle # c /\ u[l].owed > 0  BY <2>1, <2>2 DEF RecordFits, Records
  <2> QED  BY <2>3 DEF CostBack, Stale
<1> QED  BY <1>1, <1>2

(* One order changes.                                                      *)
LEMMA OneDated ==
  ASSUME Inv, Dated, NEW o \in Orders,
         \A p \in Orders \ {o} : /\ used'[p] = used[p] /\ stage'[p] = stage[p]
                                 /\ cycle'[p] = cycle[p] /\ gone'[p] = gone[p],
         NEW u, NEW s, NEW c, NEW g, DebtFits(o, u, s, c, g),
         used'[o] = u, stage'[o] = s, cycle'[o] = c, gone'[o] = g
  PROVE  Dated'
<1> SUFFICES ASSUME NEW p \in Orders
             PROVE  DebtFits(p, used'[p], stage'[p], cycle'[p], gone'[p])
  BY DEF Dated, DebtFits, RecordFits, GoneFits, CostBack, Stale, Records, Debt
<1>1. CASE p = o  BY <1>1
<1>2. CASE p # o  BY <1>2 DEF Dated
<1> QED  BY <1>1, <1>2

LEMMA SameDated ==
  ASSUME Dated, UNCHANGED <<used, stage, cycle, gone>>
  PROVE  Dated'
  BY DEF Dated, DebtFits, RecordFits, GoneFits, CostBack, Stale, Records, Debt

LEMMA ReserveDated == \A w \in Workers : Inv /\ Agreed /\ Dated /\ Reserve(w) => Dated'
<1> SUFFICES ASSUME NEW w \in Workers, Inv, Agreed, Dated, Reserve(w) PROVE Dated'
  OBVIOUS
<1>1. PICK o \in Orders : o = job[w].o  BY DEF Reserve, Inv, Takes
<1>2. PICK u \in Uses : u = used[o]  BY DEF Inv, TypeOK
<1>3. PICK c \in Nat : c = cycle[o]  BY DEF Inv, TypeOK
<1>4. stage[o] \in {"new", "cancelled"}  BY <1>1 DEF Reserve, Agreed, Fits
<1>5. /\ used' = used /\ gone' = gone /\ stage' = [stage EXCEPT ![o] = "reserved"]
      /\ cycle' = [cycle EXCEPT ![o] = @ + 1]
  BY <1>1 DEF Reserve
<1>6. DebtFits(o, u, stage[o], c, gone[o])  BY <1>2, <1>3 DEF Dated
<1>7. gone[o] = 0  BY <1>4, <1>6 DEF DebtFits, GoneFits
<1>8. \A l \in Lots : RecordFits(u[l], "reserved", c + 1)
  <2> SUFFICES ASSUME NEW l \in Lots PROVE RecordFits(u[l], "reserved", c + 1)  OBVIOUS
  <2>1. u[l].cycle \in Nat /\ u[l].cycle <= c /\ (u[l].owed > 0 => u[l].cycle > 0)
    BY <1>6 DEF DebtFits, RecordFits, Uses
  <2> QED  BY <2>1 DEF RecordFits
<1>9. \A l \in Lots : u[l].cycle # c + 1
  <2> SUFFICES ASSUME NEW l \in Lots PROVE u[l].cycle # c + 1  OBVIOUS
  <2>1. u[l].cycle \in Nat /\ u[l].cycle <= c  BY <1>6 DEF DebtFits, RecordFits, Uses
  <2> QED  BY <2>1
<1>10. CostBack(u, "reserved", c + 1, gone[o])  BY <1>7, <1>8, <1>9, OldDebt
<1>11. DebtFits(o, u, "reserved", c + 1, gone[o])
  BY <1>7, <1>8, <1>10 DEF DebtFits, GoneFits
<1> QED  BY <1>2, <1>3, <1>5, <1>11, OneDated DEF Inv, TypeOK

(* The units a hand-over costs are no more than the line has.              *)
LEMMA CostWithinLine ==
  ASSUME Inv, Agreed, NEW w \in Workers, ShipCommit(w)
  PROVE  SumFunction(job[w].cost) <= Qty[job[w].o]
<1>1. PICK o \in Orders : o = job[w].o  BY DEF ShipCommit, Inv, Takes
<1>2. job[w].op = "ship" /\ job[w].todo = {} /\ job[w].need = 0  BY DEF ShipCommit
<1>3. /\ stage[o] = "reserved"
      /\ \A r \in Rows : job[w].took[r] = claim[o].plan[r]
      /\ SumFunction(job[w].cost) + 0 <= SumFunction(job[w].took)
  BY <1>1, <1>2 DEF Agreed, Fits
<1>4. job[w].took \in [Rows -> Nat] /\ claim[o].plan \in [Rows -> Nat]
  BY DEF Inv, TypeOK, Jobs, Claims
<1>5. job[w].took = claim[o].plan  BY <1>3, <1>4
<1>6. SumFunction(claim[o].plan) = Qty[o]  BY <1>3 DEF Agreed, ClaimFits
<1>7. SumFunction(job[w].cost) \in Int
  <2>1. job[w].cost \in [Lots -> Int]  BY DEF Inv, TypeOK, Jobs
  <2> QED  BY <2>1, LotsFinite, TotalInt
<1>8. Qty[o] \in Int  BY PhysicalAssumption
<1>9. SumFunction(job[w].took) = Qty[o]  BY <1>5, <1>6
<1> QED  BY <1>1, <1>3, <1>7, <1>8, <1>9

LEMMA ShipCommitDated == \A w \in Workers : Inv /\ Agreed /\ Dated /\ ShipCommit(w) => Dated'
<1> SUFFICES ASSUME NEW w \in Workers, Inv, Agreed, Dated, ShipCommit(w) PROVE Dated'
  OBVIOUS
<1>1. PICK o \in Orders : o = job[w].o  BY DEF ShipCommit, Inv, Takes
<1>2. PICK cost \in [Lots -> Nat] : cost = job[w].cost  BY DEF Inv, TypeOK, Jobs
<1>3. PICK u \in Uses : u = Record(o, cost)  BY Recorded
<1>4. PICK c \in Nat : c = cycle[o]  BY DEF Inv, TypeOK
<1>5. /\ used' = [used EXCEPT ![o] = u] /\ cycle' = cycle
      /\ stage' = [stage EXCEPT ![o] = "out"] /\ gone' = [gone EXCEPT ![o] = Qty[o]]
  BY <1>1, <1>2, <1>3 DEF ShipCommit
<1>6. stage[o] = "reserved"  BY <1>1 DEF ShipCommit, Agreed, Fits
<1>7. \A l \in Lots :
        /\ used[o][l].owed \in Nat /\ used[o][l].cycle \in Nat /\ cost[l] \in Nat
        /\ used[o][l].cycle < c /\ (used[o][l].owed > 0 => used[o][l].cycle > 0)
  <2>1. \A l \in Lots : RecordFits(used[o][l], "reserved", c)
    BY <1>4, <1>6 DEF Dated, DebtFits
  <2> QED  BY <2>1 DEF RecordFits, Inv, TypeOK, Uses
<1>8. \A l \in Lots :
        /\ u[l].owed = used[o][l].owed + cost[l]
        /\ u[l].cycle = IF cost[l] # 0 /\ used[o][l].cycle = 0 THEN c ELSE used[o][l].cycle
  <2>1. \A l \in Lots : u[l].owed = used[o][l].owed + cost[l]  BY <1>3, Recorded
  <2>2. \A l \in Lots :
          u[l].cycle = IF cost[l] # 0 /\ used[o][l].cycle = 0 THEN c ELSE used[o][l].cycle
    BY <1>3, <1>4 DEF Record
  <2> QED  BY <2>1, <2>2
<1>9. \A l \in Lots : RecordFits(u[l], "out", c)
  <2> SUFFICES ASSUME NEW l \in Lots PROVE RecordFits(u[l], "out", c)  OBVIOUS
  <2> QED  BY <1>7, <1>8 DEF RecordFits
<1>10. CostBack(u, "out", c, Qty[o])
  <2>1. CASE \E l \in Lots : used[o][l].owed > 0
    <3>1. PICK l \in Lots : used[o][l].owed > 0  BY <2>1
    <3>2. u[l].cycle = used[o][l].cycle /\ u[l].owed > 0 /\ u[l].cycle > 0 /\ u[l].cycle # c
      BY <1>7, <1>8, <3>1
    <3> QED  BY <3>2 DEF CostBack, Stale, Records
  <2>2. CASE \A l \in Lots : used[o][l].owed = 0
    <3>1. [l \in Lots |-> u[l].owed] = cost  BY <1>7, <1>8, <2>2
    <3>2. Debt(u) = SumFunction(cost)  BY <3>1 DEF Debt
    <3> QED  BY <1>1, <1>2, <3>2, CostWithinLine DEF CostBack
  <2> QED  BY <1>7, <2>1, <2>2
<1>11. DebtFits(o, u, "out", c, Qty[o])  BY <1>9, <1>10 DEF DebtFits, GoneFits
<1> QED  BY <1>4, <1>5, <1>11, OneDated DEF Inv, TypeOK

LEMMA CancelDated == \A o \in Orders : Inv /\ Agreed /\ Dated /\ Cancel(o) => Dated'
<1> SUFFICES ASSUME NEW o \in Orders, Inv, Agreed, Dated, Cancel(o) PROVE Dated'
  OBVIOUS
<1>1. PICK c \in Nat : c = cycle[o]  BY DEF Inv, TypeOK
<1>2. DebtFits(o, used[o], stage[o], c, gone[o])  BY <1>1 DEF Dated
<1>3. /\ stage' = [stage EXCEPT ![o] = "cancelled"] /\ gone' = [gone EXCEPT ![o] = 0]
      /\ cycle' = cycle
  BY DEF Cancel
<1>4. \A l \in Lots : used[o][l].owed \in Nat /\ used[o][l].cycle \in Nat
  BY DEF Inv, TypeOK, Uses
<1>5. ASSUME NEW u \in Uses, used'[o] = u, \A p \in Orders \ {o} : used'[p] = used[p],
             \A l \in Lots : /\ u[l].cycle = used[o][l].cycle /\ u[l].owed <= used[o][l].owed
                             /\ u[l].owed = 0 \/ u[l].cycle # c
      PROVE  Dated'
  <2>1. \A l \in Lots : RecordFits(u[l], "cancelled", c)
    <3> SUFFICES ASSUME NEW l \in Lots PROVE RecordFits(u[l], "cancelled", c)  OBVIOUS
    <3>1. RecordFits(used[o][l], stage[o], c) /\ u[l].owed \in Nat  BY <1>2 DEF DebtFits, Uses
    <3> QED  BY <1>4, <1>5, <3>1 DEF RecordFits
  <2>2. CostBack(u, "cancelled", c, 0)  BY <1>5, <2>1, OldDebt
  <2>3. DebtFits(o, u, "cancelled", c, 0)  BY <2>1, <2>2 DEF DebtFits, GoneFits
  <2> QED  BY <1>1, <1>3, <1>5, <2>3, OneDated DEF Inv, TypeOK
<1>6. CASE claim[o].st = "ACTIVE"
  <2>1. stage[o] = "reserved" /\ used' = used  BY <1>6 DEF Cancel, Agreed, ClaimFits
  <2>2. \A l \in Lots : used[o][l].cycle # c  BY <1>2, <1>4, <2>1 DEF DebtFits, RecordFits
  <2>3. used[o] \in Uses /\ \A l \in Lots : used[o][l].owed <= used[o][l].owed
    BY <1>4 DEF Inv, TypeOK
  <2> QED  BY <1>5, <2>1, <2>2, <2>3
<1>7. CASE claim[o].st # "ACTIVE"
  <2>1. RestoreLots(o, AllOurs(o))  BY <1>7 DEF Cancel, AllOurs
  <2>2. PICK u \in Uses : /\ used' = [used EXCEPT ![o] = u]
                          /\ \A l \in Lots : /\ u[l].owed = used[o][l].owed - AllOurs(o)[l]
                                             /\ u[l].cycle = used[o][l].cycle
    BY <2>1, BackWithinOwed, Restored
  <2>3. \A l \in Lots : AllOurs(o)[l] =
          IF used[o][l].cycle = c /\ used[o][l].owed > 0 THEN used[o][l].owed ELSE 0
    BY <1>1 DEF AllOurs, Ours
  <2>4. \A l \in Lots : /\ u[l].cycle = used[o][l].cycle /\ u[l].owed <= used[o][l].owed
                        /\ u[l].owed = 0 \/ u[l].cycle # c
    BY <1>4, <2>2, <2>3
  <2>5. used'[o] = u /\ \A p \in Orders \ {o} : used'[p] = used[p]  BY <2>2 DEF Inv, TypeOK
  <2> QED  BY <1>5, <2>4, <2>5
<1> QED  BY <1>6, <1>7

(* A return by item, of n units, of a line that owes to lot l.             *)
LEMMA PaidBack ==
  ASSUME NEW u \in Uses, NEW v \in Uses, NEW c \in Nat, NEW g \in Nat, NEW n \in 0..g,
         NEW l \in Lots, u[l].cycle = c, u[l].owed > 0,
         \A k \in Lots : RecordFits(u[k], "out", c),
         CostBack(u, "out", c, g),
         \A k \in Lots : /\ v[k].owed = u[k].owed - (IF k = l THEN Least(n, u[l].owed) ELSE 0)
                         /\ v[k].cycle = u[k].cycle
  PROVE  CostBack(v, "returned", c, g - n)
<1>1. \A k \in Lots : /\ u[k].owed \in Nat /\ u[k].cycle \in Nat /\ (u[k].owed > 0 => u[k].cycle > 0)
                      /\ v[k].owed \in Nat
  BY DEF Uses, RecordFits
<1>2. CASE Stale(u, c)
  <2>1. PICK k \in Lots : u[k].cycle > 0 /\ u[k].cycle # c /\ u[k].owed > 0
    BY <1>2 DEF Stale, Records
  <2>2. v[k].cycle = u[k].cycle /\ v[k].owed = u[k].owed  BY <1>1, <2>1
  <2> QED  BY <2>1, <2>2 DEF CostBack, Stale, Records
<1>3. CASE \E k \in Lots : k # l /\ u[k].cycle > 0
  <2>1. PICK k \in Lots : k # l /\ u[k].cycle > 0  BY <1>3
  <2>2. Records(v) \subseteq Lots /\ k \in Records(v) /\ l \in Records(v)
    BY <1>1, <2>1 DEF Records
  <2>3. IsFiniteSet(Records(v))  BY <2>2, LotsFinite, FS_Subset
  <2>4. Cardinality(Records(v)) \in Nat  BY <2>3, FS_CardinalityType
  <2>5. Cardinality(Records(v)) # 0  BY <2>2, <2>3, FS_EmptySet
  <2>6. Cardinality(Records(v)) # 1
    <3> SUFFICES ASSUME Cardinality(Records(v)) = 1 PROVE FALSE  OBVIOUS
    <3>1. PICK x : Records(v) = {x}  BY <2>3, FS_Singleton
    <3> QED  BY <2>1, <2>2, <3>1
  <2> QED  BY <2>4, <2>5, <2>6 DEF CostBack
<1>4. CASE ~ Stale(u, c) /\ \A k \in Lots : k = l \/ u[k].cycle = 0
  <2>1. Debt(u) <= g  BY <1>4 DEF CostBack
  <2>2. \A k \in Lots \ {l} : u[k].owed = 0 /\ v[k].owed = 0  BY <1>1, <1>4
  <2>3. CASE n <= u[l].owed
    <3> DEFINE a == [k \in Lots |-> u[k].owed]
               b == [k \in Lots |-> v[k].owed]
    <3>1. a \in [Lots -> Int] /\ b \in [Lots -> Int]  BY <1>1
    <3>2. b[l] = a[l] - n /\ a[l] \in Int
      <4>1. Least(n, u[l].owed) = n  BY <1>1, <2>3 DEF Least
      <4> QED  BY <1>1, <4>1
    <3>3. \A k \in Lots \ {l} : a[k] = b[k]  BY <2>2
    <3>4. Debt(u) = SumFunction(a) /\ Debt(v) = SumFunction(b)  BY DEF Debt
    <3> HIDE DEF a, b
    <3>5. Debt(v) = Debt(u) - a[l] + b[l]  BY <3>1, <3>3, <3>4, LotsFinite, TotalChange
    <3>6. Debt(v) <= g - n  BY <2>1, <3>2, <3>5, DebtNat
    <3> QED  BY <3>6 DEF CostBack
  <2>4. CASE ~ n <= u[l].owed
    <3>1. v[l].owed = 0  BY <1>1, <2>4 DEF Least
    <3>2. \A k \in Lots : v[k].owed = 0  BY <2>2, <3>1
    <3>3. Debt(v) = 0  BY <3>2, NoDebt
    <3> QED  BY <3>3 DEF CostBack
  <2> QED  BY <2>3, <2>4
<1> QED  BY <1>1, <1>2, <1>3, <1>4

LEMMA ReturnDated ==
  \A o \in Orders : \A n \in 0..Qty[o] : Inv /\ Agreed /\ Dated /\ Return(o, n) => Dated'
<1> SUFFICES ASSUME NEW o \in Orders, NEW n \in 0..Qty[o], Inv, Agreed, Dated, Return(o, n)
             PROVE  Dated'
  OBVIOUS
<1>1. PICK c \in Nat : c = cycle[o]  BY DEF Inv, TypeOK
<1>2. PICK u \in Uses : u = used[o]  BY DEF Inv, TypeOK
<1>3. stage[o] = "out" /\ DebtFits(o, u, "out", c, gone[o])  BY <1>1, <1>2 DEF Return, Dated
<1>4. gone[o] = Qty[o] /\ Qty[o] \in Nat  BY <1>3, PhysicalAssumption DEF DebtFits, GoneFits
<1>5. /\ stage' = [stage EXCEPT ![o] = "returned"] /\ gone' = [gone EXCEPT ![o] = @ - n]
      /\ cycle' = cycle
  BY DEF Return
<1>6. gone'[o] = Qty[o] - n  BY <1>4, <1>5 DEF Inv, TypeOK
<1>7. \A l \in Lots : u[l].owed \in Nat /\ u[l].cycle \in Nat  BY DEF Uses
<1>8. ASSUME NEW v \in Uses, used'[o] = v, \A p \in Orders \ {o} : used'[p] = used[p],
             \A l \in Lots : v[l].cycle = u[l].cycle /\ v[l].owed <= u[l].owed,
             CostBack(v, "returned", c, Qty[o] - n)
      PROVE  Dated'
  <2>1. \A l \in Lots : RecordFits(v[l], "returned", c)
    <3> SUFFICES ASSUME NEW l \in Lots PROVE RecordFits(v[l], "returned", c)  OBVIOUS
    <3>1. RecordFits(u[l], "out", c) /\ v[l].owed \in Nat  BY <1>3 DEF DebtFits, Uses
    <3> QED  BY <1>7, <1>8, <3>1 DEF RecordFits
  <2>2. DebtFits(o, v, "returned", c, Qty[o] - n)  BY <1>8, <2>1 DEF DebtFits, GoneFits
  <2> QED  BY <1>1, <1>5, <1>6, <1>8, <2>2, OneDated DEF Inv, TypeOK
<1>9. CostBack(u, "out", c, Qty[o])  BY <1>3, <1>4 DEF DebtFits
<1>10. CASE n > 0 /\ Ours(o) # {}
  <2>1. PICK l \in Ours(o) : RestoreLots(o, OneOf(o, l, n))  BY <1>10 DEF Return, OneOf
  <2>2. l \in Lots /\ u[l].cycle = c /\ u[l].owed > 0  BY <1>1, <1>2, <2>1 DEF Ours
  <2>3. n \in Nat /\ n \in 0..Qty[o]  BY <1>4
  <2>4. OneOf(o, l, n) \in [Lots -> Nat] /\ \A k \in Lots : OneOf(o, l, n)[k] <= used[o][k].owed
    BY <2>2, <2>3, BackWithinOwed
  <2>5. PICK v \in Uses : /\ used' = [used EXCEPT ![o] = v]
                          /\ \A k \in Lots : /\ v[k].owed = used[o][k].owed - OneOf(o, l, n)[k]
                                             /\ v[k].cycle = used[o][k].cycle
    BY <2>1, <2>4, Restored
  <2>6. \A k \in Lots : OneOf(o, l, n)[k] = IF k = l THEN Least(n, u[l].owed) ELSE 0
    BY <1>2, <2>2 DEF OneOf, NoCost, Capped
  <2>7. \A k \in Lots : /\ v[k].owed = u[k].owed - (IF k = l THEN Least(n, u[l].owed) ELSE 0)
                        /\ v[k].cycle = u[k].cycle
    BY <1>2, <2>5, <2>6
  <2>8. \A k \in Lots : RecordFits(u[k], "out", c)  BY <1>3 DEF DebtFits
  <2>9. CostBack(v, "returned", c, Qty[o] - n)
    BY <1>4, <1>9, <2>2, <2>3, <2>7, <2>8, PaidBack
  <2>10. \A k \in Lots : v[k].cycle = u[k].cycle /\ v[k].owed <= u[k].owed
    <3>1. \A k \in Lots : OneOf(o, l, n)[k] \in Nat  BY <2>4
    <3> QED  BY <1>2, <1>7, <2>5, <3>1
  <2>11. used'[o] = v /\ \A p \in Orders \ {o} : used'[p] = used[p]  BY <2>5 DEF Inv, TypeOK
  <2> QED  BY <1>8, <2>9, <2>10, <2>11
<1>11. CASE ~ (n > 0 /\ Ours(o) # {})
  <2>1. used' = used  BY <1>11 DEF Return
  <2>2. CostBack(u, "returned", c, Qty[o] - n)
    <3>1. CASE Stale(u, c)  BY <3>1 DEF CostBack
    <3>2. CASE ~ Stale(u, c) /\ ~ n > 0
      <4>1. Qty[o] - n = Qty[o]  BY <1>4, <3>2
      <4> QED  BY <1>9, <3>2, <4>1 DEF CostBack
    <3>3. CASE ~ Stale(u, c) /\ Ours(o) = {}
      <4>1. \A l \in Lots : u[l].owed = 0
        <5> SUFFICES ASSUME NEW l \in Lots, u[l].owed # 0 PROVE FALSE  OBVIOUS
        <5>1. u[l].owed > 0  BY <1>7
        <5>2. u[l].cycle > 0  BY <1>3, <5>1 DEF DebtFits, RecordFits
        <5>3. u[l].cycle = c  BY <3>3, <5>1, <5>2 DEF Stale, Records
        <5> QED  BY <1>1, <1>2, <3>3, <5>1, <5>3 DEF Ours
      <4>2. Debt(u) = 0 /\ 0 <= Qty[o] - n  BY <1>4, <4>1, NoDebt
      <4> QED  BY <4>2 DEF CostBack
    <3> QED  BY <1>11, <3>1, <3>2, <3>3
  <2>3. \A l \in Lots : u[l].owed <= u[l].owed  BY <1>7
  <2> QED  BY <1>2, <1>8, <2>1, <2>2, <2>3
<1> QED  BY <1>10, <1>11

(* Goods that come back without a hand-over: the order's debts are those   *)
(* of earlier cycles.                                                      *)
LEMMA ReturnUnshippedDated ==
  \A o \in Orders : \A n, d \in 0..Qty[o] : Inv /\ Dated /\ ReturnUnshipped(o, n, d) => Dated'
<1> SUFFICES ASSUME NEW o \in Orders, NEW n \in 0..Qty[o], NEW d \in 0..Qty[o],
                    Inv, Dated, ReturnUnshipped(o, n, d)
             PROVE  Dated'
  OBVIOUS
<1>1. /\ stage[o] = "reserved" /\ UNCHANGED <<used, cycle, gone>>
      /\ Settles(o, n) \/ Keeps(o, n)
  BY Unshipped
<1>2. PICK s \in {"reserved", "returned"} : stage' = [stage EXCEPT ![o] = s]
  BY <1>1 DEF Settles, Keeps
<1>3. PICK u \in Uses : u = used[o]  BY DEF Inv, TypeOK
<1>4. PICK c \in Nat : c = cycle[o]  BY DEF Inv, TypeOK
<1>5. DebtFits(o, u, "reserved", c, gone[o])  BY <1>1, <1>3, <1>4 DEF Dated
<1>6. gone[o] = 0  BY <1>5 DEF DebtFits, GoneFits
<1>7. \A l \in Lots : u[l].cycle \in Nat /\ RecordFits(u[l], "reserved", c)
  BY <1>5 DEF DebtFits, Uses
<1>8. \A l \in Lots : RecordFits(u[l], s, c) /\ u[l].cycle # c  BY <1>7 DEF RecordFits
<1>9. CostBack(u, s, c, gone[o])  BY <1>6, <1>8, OldDebt
<1>10. DebtFits(o, u, s, c, gone[o])  BY <1>6, <1>8, <1>9 DEF DebtFits, GoneFits
<1> QED  BY <1>1, <1>2, <1>3, <1>4, <1>10, OneDated DEF Inv, TypeOK

LEMMA DatedInit == Init => Dated
<1> SUFFICES ASSUME Init, NEW o \in Orders
             PROVE  DebtFits(o, used[o], stage[o], cycle[o], gone[o])
  BY DEF Dated
<1>1. /\ stage[o] = "new" /\ cycle[o] = 0 /\ gone[o] = 0 /\ used[o] = NoUse  BY DEF Init
<1>2. \A l \in Lots : NoUse[l].owed = 0 /\ NoUse[l].cycle = 0  BY DEF NoUse
<1>3. Debt(NoUse) = 0  BY <1>2, NoDebt
<1>4. \A l \in Lots : RecordFits(NoUse[l], "new", 0)  BY <1>2 DEF RecordFits
<1>5. CostBack(NoUse, "new", 0, 0)  BY <1>3 DEF CostBack
<1> QED  BY <1>1, <1>4, <1>5 DEF DebtFits, GoneFits

LEMMA DatedStep == Inv /\ Agreed /\ Dated /\ [Next]_vars => Dated'
<1> SUFFICES ASSUME Inv, Agreed, Dated, [Next]_vars PROVE Dated'
  OBVIOUS
<1>1. ASSUME NEW w \in Workers, NEW o \in Orders, Look(w, o) \/ HandOver(w, o) PROVE Dated'
  BY <1>1, SameDated DEF Look, HandOver, order, aside
<1>2. ASSUME NEW w \in Workers, NEW r \in Rows, TakeRow(w, r) \/ TransferCommit(w, r) PROVE Dated'
  BY <1>2, SameDated DEF TakeRow, TransferCommit, order, aside
<1>3. ASSUME NEW w \in Workers, NEW n \in Moves,
             Transfer(w, n) \/ \E r \in Rows : Count(w, r, n)
      PROVE  Dated'
  BY <1>3, SameDated DEF Transfer, Count, order, aside
<1>4. ASSUME NEW w \in Workers, FindLot(w) \/ TakeLot(w) \/ GiveUp(w) PROVE Dated'
  BY <1>4, SameDated DEF FindLot, TakeLot, GiveUp, order, aside
<1>5. ASSUME NEW w \in Workers, Reserve(w) \/ ShipCommit(w) PROVE Dated'
  BY <1>5, ReserveDated, ShipCommitDated
<1>6. ASSUME NEW o \in Orders, Cancel(o) \/ \E n \in 0..Qty[o] : Return(o, n) PROVE Dated'
  BY <1>6, CancelDated, ReturnDated
<1>9. ASSUME NEW w \in Workers, NEW r \in Rows, Release(w, r) \/ ReleaseCommit(w, r) PROVE Dated'
  BY <1>9, SameDated DEF Release, ReleaseCommit, order
<1>10. ASSUME NEW o \in Orders, NEW n \in 0..Qty[o], NEW d \in 0..Qty[o], ReturnUnshipped(o, n, d)
       PROVE  Dated'
  BY <1>10, ReturnUnshippedDated
<1>7. ASSUME NEW n \in Moves, Receive(n) PROVE Dated'
  BY <1>7, SameDated DEF Receive, order, aside
<1>8. CASE UNCHANGED vars
  BY <1>8, SameDated DEF vars, order, aside
<1> QED  BY <1>1, <1>2, <1>3, <1>4, <1>5, <1>6, <1>7, <1>8, <1>9, <1>10 DEF Next

LEMMA DatedHolds == Spec => []Dated
<1>1. Init => Dated  BY DatedInit
<1>2. Inv /\ Agreed /\ Dated /\ [Next]_vars => Dated'  BY DatedStep
<1> QED  BY <1>1, <1>2, InvHolds, AgreedHolds, PTL DEF Spec

(* The cost of an order's goods comes back with the goods, and once: what  *)
(* its line owes to lots never covers more units than are out, but for the *)
(* two exceptions the property names, for any orders, lots and cycles.     *)
THEOREM CostsReturn == Spec => []CostsComeBack
<1>1. Dated => CostsComeBack
  <2> SUFFICES ASSUME Dated, NEW o \in Orders
               PROVE  LET records == {l \in Lots : used[o][l].cycle > 0}
                      IN \/ stage[o] = "returned" /\ Cardinality(records) > 1
                         \/ \E l \in records : used[o][l].cycle # cycle[o] /\ used[o][l].owed > 0
                         \/ SumFunction([l \in Lots |-> used[o][l].owed]) <= gone[o]
    BY DEF CostsComeBack
  <2>1. CostBack(used[o], stage[o], cycle[o], gone[o])  BY DEF Dated, DebtFits
  <2> QED  BY <2>1 DEF CostBack, Stale, Records, Debt
<1> QED  BY <1>1, DatedHolds, PTL
-----------------------------------------------------------------------------
(* PhysicalStock implements CostBooks: every step of the transactions is   *)
(* one step of the cost books or leaves them alone.                        *)
Due == [o \in Orders |-> [l \in Lots |-> used[o][l].owed]]

BookStep == [Books!Next]_Books!vars

LEMMA StutterIsBookStep ==
  ASSUME UNCHANGED <<got, left, used>>
  PROVE  BookStep
  BY DEF BookStep, Books!vars

(* One line's records change: so does what is due of it, and of it only.   *)
LEMMA DueOfOne ==
  ASSUME Inv, NEW o \in Orders, NEW u \in Uses, used' = [used EXCEPT ![o] = u]
  PROVE  Due' = [Due EXCEPT ![o] = [l \in Lots |-> u[l].owed]]
<1> DEFINE d == [l \in Lots |-> u[l].owed]
<1>1. \A p \in Orders : used'[p] = IF p = o THEN u ELSE used[p]  BY DEF Inv, TypeOK
<1>2. \A p \in Orders : Due'[p] = IF p = o THEN d ELSE Due[p]  BY <1>1 DEF Due
<1>3. [Due EXCEPT ![o] = d] = [p \in Orders |-> IF p = o THEN d ELSE Due[p]]  BY DEF Due
<1>4. Due' = [p \in Orders |-> Due'[p]]  BY DEF Due
<1> HIDE DEF d
<1>5. Due' = [p \in Orders |-> IF p = o THEN d ELSE Due[p]]  BY <1>2, <1>4
<1> QED  BY <1>3, <1>5 DEF d

LotsFull == left \in [Lots -> Nat] /\ \A o \in Orders, l \in Lots : used[o][l].owed \in Nat

LEMMA LotsAreAmounts == (Inv => LotsFull) /\ (Inv' => LotsFull')
<1>1. ASSUME Inv PROVE LotsFull
  BY <1>1 DEF Inv, TypeOK, NoLotOverdrawn, Uses, LotsFull
<1>2. ASSUME Inv' PROVE LotsFull'
  BY <1>2 DEF Inv, TypeOK, NoLotOverdrawn, Uses, LotsFull
<1> QED  BY <1>1, <1>2

(* Lots that lose units to no line: a write-off.                           *)
LEMMA SpendIsBookStep ==
  ASSUME Inv, Inv', UNCHANGED <<got, used>>, \A l \in Lots : left'[l] <= left[l]
  PROVE  BookStep
<1>1. left' \in [Lots -> Nat]  BY LotsAreAmounts DEF LotsFull
<1>2. Books!Spend  BY <1>1 DEF Books!Spend, Books!Amounts
<1> QED  BY <1>2 DEF BookStep, Books!Next

LEMMA TakeLotIsBookStep == \A w \in Workers : Inv /\ Inv' /\ TakeLot(w) => BookStep
<1> SUFFICES ASSUME NEW w \in Workers, Inv, Inv', TakeLot(w) PROVE BookStep
  OBVIOUS
<1>1. UNCHANGED <<got, used>>  BY DEF TakeLot, order, aside
<1>2. job[w].take \in Nat /\ left \in [Lots -> Int]  BY DEF Inv, TypeOK, Jobs
<1>3. UNCHANGED left \/ left' = [left EXCEPT ![job[w].pick] = @ - job[w].take]
  BY DEF TakeLot, Consume
<1>4. \A l \in Lots : left'[l] <= left[l]  BY <1>2, <1>3
<1> QED  BY <1>1, <1>4, SpendIsBookStep

LEMMA TransferCommitIsBookStep ==
  \A w \in Workers, r \in Rows : Inv /\ Inv' /\ TransferCommit(w, r) => BookStep
<1> SUFFICES ASSUME NEW w \in Workers, NEW r \in Rows, Inv, Inv', TransferCommit(w, r)
             PROVE  BookStep
  OBVIOUS
<1>1. \A l \in Lots : left'[l] = left[l] - job[w].cost[l] /\ job[w].cost[l] \in Nat
  BY DEF TransferCommit, Minus, Inv, TypeOK, Jobs
<1>2. \A l \in Lots : left'[l] <= left[l]  BY <1>1 DEF Inv, TypeOK
<1> QED  BY <1>2, SpendIsBookStep DEF TransferCommit, order, aside

(* A hand-over charges its line what its transaction took of the lots.     *)
LEMMA ShipCommitIsBookStep == \A w \in Workers : Inv /\ Inv' /\ Agreed /\ ShipCommit(w) => BookStep
<1> SUFFICES ASSUME NEW w \in Workers, Inv, Inv', Agreed, ShipCommit(w) PROVE BookStep
  OBVIOUS
<1>1. PICK o \in Orders : o = job[w].o  BY DEF ShipCommit, Inv, Takes
<1>2. PICK cost \in [Lots -> Nat] : cost = job[w].cost  BY DEF Inv, TypeOK, Jobs
<1>3. PICK u \in Uses : u = Record(o, cost)  BY Recorded
<1>4. used' = [used EXCEPT ![o] = u] /\ UNCHANGED got  BY <1>1, <1>2, <1>3 DEF ShipCommit
<1>5. \A l \in Lots : u[l].owed = used[o][l].owed + cost[l]  BY <1>3, Recorded
<1>6. left \in [Lots -> Nat] /\ left' \in [Lots -> Nat]  BY LotsAreAmounts DEF LotsFull
<1>7. \A l \in Lots : left'[l] = left[l] - cost[l]  BY <1>2 DEF ShipCommit, Minus, Inv, TypeOK
<1>8. cost = [l \in Lots |-> left[l] - left'[l]]
  <2>1. \A l \in Lots : cost[l] = left[l] - left'[l]  BY <1>6, <1>7
  <2> QED  BY <2>1
<1>9. SumFunction(cost) <= Qty[o]  BY <1>1, <1>2, CostWithinLine
<1>10. Due' = [Due EXCEPT ![o] = [l \in Lots |-> Due[o][l] + cost[l]]]
  <2>1. [l \in Lots |-> u[l].owed] = [l \in Lots |-> Due[o][l] + cost[l]]  BY <1>5 DEF Due
  <2> QED  BY <1>4, <2>1, DueOfOne
<1>11. Books!Charge(o)
  BY <1>4, <1>6, <1>8, <1>9, <1>10 DEF Books!Charge, Books!Amounts, Due
<1> QED  BY <1>11 DEF BookStep, Books!Next

(* A give-back repays lots what the line owes them, or part of it.         *)
LEMMA RestoreIsBookStep ==
  ASSUME Inv, Inv', NEW o \in Orders, NEW back \in [Lots -> Nat],
         \A l \in Lots : back[l] <= used[o][l].owed,
         RestoreLots(o, back), UNCHANGED got
  PROVE  BookStep
<1>1. PICK u \in Uses : /\ used' = [used EXCEPT ![o] = u]
                        /\ \A l \in Lots : u[l].owed = used[o][l].owed - back[l]
  BY Restored
<1>2. left \in [Lots -> Nat] /\ left' \in [Lots -> Nat]  BY LotsAreAmounts DEF LotsFull
<1>3. \A l \in Lots : left'[l] = left[l] + back[l]  BY DEF RestoreLots
<1>4. back = [l \in Lots |-> left'[l] - left[l]]
  <2>1. \A l \in Lots : back[l] = left'[l] - left[l]  BY <1>2, <1>3
  <2> QED  BY <2>1
<1>5. Due' = [Due EXCEPT ![o] = [l \in Lots |-> Due[o][l] - back[l]]]
  <2>1. [l \in Lots |-> u[l].owed] = [l \in Lots |-> Due[o][l] - back[l]]  BY <1>1 DEF Due
  <2> QED  BY <1>1, <2>1, DueOfOne
<1>6. Due'[o] \in [Lots -> Nat]
  <2>1. \A l \in Lots : used'[o][l].owed \in Nat  BY LotsAreAmounts DEF LotsFull
  <2> QED  BY <2>1 DEF Due
<1>7. Books!Repay(o)
  BY <1>2, <1>4, <1>5, <1>6 DEF Books!Repay, Books!Amounts, Due
<1> QED  BY <1>7 DEF BookStep, Books!Next

LEMMA CancelIsBookStep == \A o \in Orders : Inv /\ Inv' /\ Cancel(o) => BookStep
<1> SUFFICES ASSUME NEW o \in Orders, Inv, Inv', Cancel(o) PROVE BookStep
  OBVIOUS
<1>1. UNCHANGED got  BY DEF Cancel
<1>2. UNCHANGED <<left, used>> \/ RestoreLots(o, AllOurs(o))  BY DEF Cancel, AllOurs
<1> QED  BY <1>1, <1>2, StutterIsBookStep, RestoreIsBookStep, BackWithinOwed

LEMMA ReturnIsBookStep ==
  \A o \in Orders : \A n \in 0..Qty[o] : Inv /\ Inv' /\ Return(o, n) => BookStep
<1> SUFFICES ASSUME NEW o \in Orders, NEW n \in 0..Qty[o], Inv, Inv', Return(o, n)
             PROVE  BookStep
  OBVIOUS
<1>1. UNCHANGED got /\ n \in Nat  BY PhysicalAssumption DEF Return
<1>2. UNCHANGED <<left, used>> \/ \E l \in Ours(o) : RestoreLots(o, OneOf(o, l, n))
  BY DEF Return, OneOf
<1>3. CASE \E l \in Ours(o) : RestoreLots(o, OneOf(o, l, n))
  <2>1. PICK l \in Lots : RestoreLots(o, OneOf(o, l, n))  BY <1>3 DEF Ours
  <2> QED  BY <1>1, <2>1, RestoreIsBookStep, BackWithinOwed
<1> QED  BY <1>1, <1>2, <1>3, StutterIsBookStep

LEMMA ReceiveIsBookStep == \A n \in Moves : Inv /\ Receive(n) => BookStep
<1> SUFFICES ASSUME NEW n \in Moves, Inv, Receive(n) PROVE BookStep
  OBVIOUS
<1>1. PICK l \in Lots : /\ got[l] = 0 /\ got' = [got EXCEPT ![l] = n]
                        /\ left' = [left EXCEPT ![l] = n]
  BY DEF Receive
<1>2. got'[l] = n /\ n \in Nat \ {0}  BY <1>1, PhysicalAssumption DEF Inv, TypeOK
<1>3. UNCHANGED used  BY DEF Receive, order, aside
<1>4. Books!Buy(l)  BY <1>1, <1>2, <1>3 DEF Books!Buy
<1> QED  BY <1>4 DEF BookStep, Books!Next

LEMMA NextIsBookStep == Inv /\ Inv' /\ Agreed /\ [Next]_vars => BookStep
<1> SUFFICES ASSUME Inv, Inv', Agreed, [Next]_vars PROVE BookStep
  OBVIOUS
<1>1. ASSUME NEW w \in Workers, NEW o \in Orders, Look(w, o) \/ HandOver(w, o) PROVE BookStep
  BY <1>1, StutterIsBookStep DEF Look, HandOver, lots, order, aside
<1>2. ASSUME NEW w \in Workers, NEW r \in Rows, TakeRow(w, r) PROVE BookStep
  BY <1>2, StutterIsBookStep DEF TakeRow, lots, order, aside
<1>3. ASSUME NEW w \in Workers, NEW r \in Rows, TransferCommit(w, r) PROVE BookStep
  BY <1>3, TransferCommitIsBookStep
<1>4. ASSUME NEW w \in Workers, NEW n \in Moves,
             Transfer(w, n) \/ \E r \in Rows : Count(w, r, n)
      PROVE  BookStep
  BY <1>4, StutterIsBookStep DEF Transfer, Count, lots, order, aside
<1>5. ASSUME NEW w \in Workers, Reserve(w) \/ FindLot(w) \/ GiveUp(w) PROVE BookStep
  BY <1>5, StutterIsBookStep DEF Reserve, FindLot, GiveUp, lots, order, aside
<1>6. ASSUME NEW w \in Workers, TakeLot(w) \/ ShipCommit(w) PROVE BookStep
  BY <1>6, TakeLotIsBookStep, ShipCommitIsBookStep
<1>7. ASSUME NEW o \in Orders, Cancel(o) \/ \E n \in 0..Qty[o] : Return(o, n) PROVE BookStep
  BY <1>7, CancelIsBookStep, ReturnIsBookStep
<1>10. ASSUME NEW w \in Workers, NEW r \in Rows, Release(w, r) \/ ReleaseCommit(w, r)
       PROVE  BookStep
  BY <1>10, StutterIsBookStep, LotsAside
<1>11. ASSUME NEW o \in Orders, NEW n \in 0..Qty[o], NEW d \in 0..Qty[o], ReturnUnshipped(o, n, d)
       PROVE  BookStep
  <2>1. n \in Nat /\ d \in Nat  BY PhysicalAssumption
  <2> QED  BY <1>11, <2>1, StutterIsBookStep, LotsAside
<1>8. ASSUME NEW n \in Moves, Receive(n) PROVE BookStep
  BY <1>8, ReceiveIsBookStep
<1>9. CASE UNCHANGED vars
  BY <1>9, StutterIsBookStep DEF vars, lots, order, aside
<1> QED  BY <1>1, <1>2, <1>3, <1>4, <1>5, <1>6, <1>7, <1>8, <1>9, <1>10, <1>11 DEF Next

LEMMA BooksOpen == Init => Books!Init
<1> SUFFICES ASSUME Init PROVE Books!Init
  OBVIOUS
<1>1. got \in [Lots -> Nat] /\ left = got  BY PhysicalAssumption DEF Init
<1>2. Due = [o \in Orders |-> [l \in Lots |-> 0]]  BY DEF Init, NoUse, Due
<1> QED  BY <1>1, <1>2 DEF Books!Init, Books!Amounts, Due

(* PhysicalStock implements CostBooks: unlocked reads, walks over lots and *)
(* transactions that interleave add up to charges, repayments and          *)
(* write-offs made one at a time, for any orders, rows, lots and jobs.     *)
THEOREM PhysicalStockKeepsCostBooks == Spec => CostPromise
<1>1. Init => Books!Init  BY BooksOpen
<1>2. Inv /\ Inv' /\ Agreed /\ [Next]_vars => [Books!Next]_Books!vars
  BY NextIsBookStep DEF BookStep
<1> QED  BY <1>1, <1>2, InvHolds, AgreedHolds, PTL DEF Spec, CostPromise, Books!Spec
=============================================================================
