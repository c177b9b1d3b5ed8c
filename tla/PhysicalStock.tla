--------------------------- MODULE PhysicalStock ---------------------------
(***************************************************************************)
(* The physical goods of one product in its warehouse, and their cost, for *)
(* a product whose stock is physical only (INVENTORY_CONTROLLED).          *)
(*                                                                         *)
(* PhysicalInventory rows (the warehouse's floor and its bins) count goods *)
(* and reservations; costing lots say what the goods on hand have cost,    *)
(* oldest first.  An order reserves goods in a stock cycle when it is      *)
(* placed or revived, consumes reservation and lots when it is handed over *)
(* and gives both back when it is cancelled or returned.  Transfers and    *)
(* counts take goods and lots without any order, and staff may release a   *)
(* row's reservations by hand.                                             *)
(*                                                                         *)
(* Transactions are READ COMMITTED: what one has written is locked and     *)
(* invisible until it commits, and reads take no lock.  Here the writes of *)
(* a transaction wait in its job: a row or lot that some job has taken     *)
(* from is locked.  Such a product never takes the product lock.           *)
(* Assumed: transactions of one order exclude each other.  No lock of the  *)
(* code enforces it, for a cancellation locks the Order row and a          *)
(* hand-over the Dispatch row: what follows holds as long as no two of     *)
(* them meet, both with the order's claim read as ACTIVE.                  *)
(***************************************************************************)
EXTENDS Integers, FiniteSetsExt

CONSTANTS
  Orders,       \* each with one line for the product
  Workers,      \* transactions under way at the same time
  Qty,          \* Qty[o]: the quantity of o's line
  Rows,         \* the PhysicalInventory rows of the warehouse
  Floor,        \* the one without a bin
  StockAt,      \* StockAt[r]: what is on hand at the start
  Opening,      \* Opening[l]: the lots it came in, oldest first
  Moves,        \* quantities received, transferred and counted off
  MaxLots,      \* bound: costing lots
  MaxCycles,    \* bound: MaxCycles[o]: stock cycles of o
  MaxMoves      \* bound: receipts, transfers, counts and releases by hand

Lots == 1..MaxLots

ASSUME PhysicalAssumption ==
  /\ Qty \in [Orders -> Nat \ {0}] /\ StockAt \in [Rows -> Nat] /\ Floor \in Rows
  /\ {MaxLots, MaxMoves} \subseteq Nat /\ Opening \in [Lots -> Nat] /\ MaxCycles \in [Orders -> Nat]
  /\ Moves \subseteq Nat \ {0} /\ "none" \notin Orders
  /\ IsFiniteSet(Orders) /\ IsFiniteSet(Rows)

VARIABLES
  qty,     \* qty[r]: PhysicalInventory.quantity
  res,     \* res[r]: PhysicalInventory.reservedQuantity
  got,     \* got[l]: CostingLot.quantity, 0 before the lot exists
  left,    \* left[l]: CostingLot.remainingQty
  stage,   \* stage[o]: the order's status, as far as physical stock cares
  cycle,   \* cycle[o]: its latest OrderStockCycle
  claim,   \* claim[o]: the PhysicalReservation of that cycle
  used,    \* used[o][l]: the CostingLotConsumption of o's line at lot l
  job,     \* job[w]: an open transaction
  moves,   \* receipts, transfers, counts and releases by hand so far
  gone,    \* gone[o]: units of o the books have out of the warehouse
  came,    \* came[o]: units of o that came back without a hand-over
  stray,   \* stray[r]: reservations left there when their claim was settled,
           \* less those released there while their claim was not
  loose    \* rows whose reserved goods something else may have taken

stock == <<qty, res>>
lots == <<got, left>>
order == <<stage, cycle, claim, used, gone, came>>
aside == <<stray, loose>>
vars == <<stock, lots, order, job, moves, aside>>

-----------------------------------------------------------------------------
Least(a, b) == IF a < b THEN a ELSE b
None == [r \in Rows |-> 0]
NoCost == [l \in Lots |-> 0]
NoClaim == [st |-> "none", plan |-> None]
NoUse == [l \in Lots |-> [owed |-> 0, cycle |-> 0]]   \* owed: consumed and not restored

NoJob == [op |-> "idle", o |-> "none", plan |-> None, todo |-> {}, took |-> None,
          cost |-> NoCost, n |-> 0, need |-> 0, pick |-> 0, take |-> 0, skip |-> {}]

Idle(w) == job[w] = NoJob
Quiet(o) == \A w \in Workers : job[w].o # o
RowsFree(S, w) == \A v \in Workers \ {w}, r \in S : job[v].took[r] = 0
LotsFree(S, w) == \A v \in Workers \ {w}, l \in S : job[v].cost[l] = 0
Done(w) == job' = [job EXCEPT ![w] = NoJob]

(* Mutant of Available: goods that are reserved count as available.        *)
OnHand(r) == qty[r]

Available(r) == qty[r] - res[r]
Where(f) == {x \in DOMAIN f : f[x] > 0}

(* The walks that hand out n over a list of rows: take what is there until *)
(* n is reached, so that at most one row is used in part.                  *)
Walks(there, n) ==
  {f \in [Rows -> 0..n] :
     /\ \A r \in Rows : f[r] > 0 => f[r] <= there[r]
     /\ SumFunction(f) = n
     /\ \A r, s \in Where(f) : f[r] < there[r] /\ f[s] < there[s] => r = s}

Init ==
  /\ qty = StockAt /\ res = None
  /\ got = Opening /\ left = Opening
  /\ stage = [o \in Orders |-> "new"] /\ cycle = [o \in Orders |-> 0]
  /\ claim = [o \in Orders |-> NoClaim] /\ used = [o \in Orders |-> NoUse]
  /\ gone = [o \in Orders |-> 0] /\ came = [o \in Orders |-> 0]
  /\ job = [w \in Workers |-> NoJob] /\ moves = 0
  /\ stray = None /\ loose = {}

-----------------------------------------------------------------------------
(* Placing an order, or reviving a cancelled one: some row must have       *)
(* enough available, then the rows are read and allocated one by one.      *)
Look(w, o) ==
  /\ Idle(w) /\ Quiet(o) /\ stage[o] \in {"new", "cancelled"} /\ cycle[o] < MaxCycles[o]
  /\ \E r \in Rows : Available(r) >= Qty[o]
  /\ \E plan \in Walks([r \in Rows |-> Available(r)], Qty[o]) :
       job' = [job EXCEPT ![w] = [NoJob EXCEPT !.op = "reserve", !.o = o, !.plan = plan]]
  /\ UNCHANGED <<stock, lots, order, moves, aside>>

(* The increments are not guarded: what was read may be gone by now.       *)
Reserve(w) ==
  LET o == job[w].o
      plan == job[w].plan
  IN /\ job[w].op = "reserve" /\ RowsFree(Where(plan), w)
     /\ res' = [r \in Rows |-> res[r] + plan[r]]
     /\ cycle' = [cycle EXCEPT ![o] = @ + 1]
     /\ claim' = [claim EXCEPT ![o] = [st |-> "ACTIVE", plan |-> plan]]
     /\ stage' = [stage EXCEPT ![o] = "reserved"]
     /\ loose' = loose \cup {r \in Where(plan) : plan[r] > Available(r)}
     /\ Done(w)
     /\ UNCHANGED <<qty, lots, used, gone, came, moves, stray>>

-----------------------------------------------------------------------------
(* The hand-over: the claim of the active cycle is consumed, allocation by *)
(* allocation, each at the oldest lots.                                    *)
HandOver(w, o) ==
  /\ Idle(w) /\ Quiet(o) /\ stage[o] = "reserved" /\ claim[o].st = "ACTIVE"
  /\ job' = [job EXCEPT ![w] = [NoJob EXCEPT !.op = "ship", !.o = o, !.todo = Where(claim[o].plan)]]
  /\ UNCHANGED <<stock, lots, order, moves, aside>>

TakeRow(w, r) ==
  /\ job[w].op = "ship" /\ job[w].need = 0 /\ r \in job[w].todo /\ RowsFree({r}, w)
  /\ LET n == claim[job[w].o].plan[r]
     IN job' = [job EXCEPT ![w].todo = @ \ {r}, ![w].took[r] = n,
                           ![w].need = n, ![w].skip = {}]
  /\ UNCHANGED <<stock, lots, order, moves, aside>>

(* Statements outside a transaction are committed as they run.             *)
InTx(w) == job[w].op # "count"
Seen(w, l) == left[l] - job[w].cost[l]
Candidates(w) == {l \in Lots : Seen(w, l) > 0 /\ l \notin job[w].skip}

(* A transfer without enough lots is rolled back; a hand-over or a count   *)
(* goes on and the shortfall is logged.                                    *)
FindLot(w) ==
  /\ job[w].need > 0 /\ job[w].pick = 0
  /\ \/ \E l \in Candidates(w) :
          /\ \A k \in Candidates(w) : l <= k
          /\ job' = [job EXCEPT ![w].pick = l, ![w].take = Least(job[w].need, Seen(w, l))]
     \/ Candidates(w) = {} /\ job[w].op = "ship" /\ job' = [job EXCEPT ![w].need = 0]
     \/ Candidates(w) = {} /\ job[w].op # "ship" /\ Done(w)
  /\ UNCHANGED <<stock, lots, order, moves, aside>>

(* What becomes of a job: its lot has given what it was asked for, within  *)
(* the job's own transaction, or has been drained by others since.         *)
Served(j) == [j EXCEPT !.pick = 0, !.take = 0, !.need = @ - j.take]
Costed(j) == [Served(j) EXCEPT !.cost = [j.cost EXCEPT ![j.pick] = @ + j.take]]
Skipped(j) == [j EXCEPT !.pick = 0, !.take = 0, !.skip = @ \cup {j.pick}]

Consume(w, l) ==
  IF InTx(w)
  THEN job' = [job EXCEPT ![w] = Costed(@)] /\ UNCHANGED left
  ELSE /\ left' = [left EXCEPT ![l] = @ - job[w].take]
       /\ IF job[w].take = job[w].need THEN Done(w) ELSE job' = [job EXCEPT ![w] = Served(@)]

(* Mutant of TakeLot: the decrement is not guarded.                        *)
TakeLotAnyway(w) ==
  LET l == job[w].pick
  IN /\ l > 0 /\ LotsFree({l}, w)
     /\ Consume(w, l)
     /\ UNCHANGED <<stock, got, order, moves, aside>>

(* The guarded decrement: a lot that others have drained since is skipped. *)
TakeLot(w) ==
  LET l == job[w].pick
  IN /\ l > 0 /\ LotsFree({l}, w)
     /\ IF job[w].take <= Seen(w, l) THEN Consume(w, l)
        ELSE job' = [job EXCEPT ![w] = Skipped(@)] /\ UNCHANGED left
     /\ UNCHANGED <<stock, got, order, moves, aside>>

Minus(f, g) == [x \in DOMAIN f |-> f[x] - g[x]]

(* Mutant of Record: the record is not associated with the cycle.          *)
RecordUncycled(o, cost) ==
  [l \in Lots |-> [used[o][l] EXCEPT !.owed = @ + cost[l]]]

(* A record is unique per line, lot and type: units of a later cycle are   *)
(* added to the record of the first, which keeps its cycle.                *)
Record(o, cost) ==
  [l \in Lots |->
     IF cost[l] = 0 THEN used[o][l]
     ELSE [owed  |-> used[o][l].owed + cost[l],
           cycle |-> IF used[o][l].cycle = 0 THEN cycle[o] ELSE used[o][l].cycle]]

(* Mutant of ShipCommit: the goods leave and their reservation stays.      *)
ShipCommitHolding(w) ==
  LET o == job[w].o
  IN /\ job[w].op = "ship" /\ job[w].todo = {} /\ job[w].need = 0
     /\ qty' = Minus(qty, job[w].took)
     /\ left' = Minus(left, job[w].cost)
     /\ used' = [used EXCEPT ![o] = Record(o, job[w].cost)]
     /\ claim' = [claim EXCEPT ![o].st = "CONSUMED"]
     /\ stage' = [stage EXCEPT ![o] = "out"]
     /\ gone' = [gone EXCEPT ![o] = Qty[o]]
     /\ Done(w)
     /\ UNCHANGED <<res, got, cycle, came, moves, aside>>

(* The two decrements of a row are not guarded.                            *)
ShipCommit(w) ==
  LET o == job[w].o
  IN /\ job[w].op = "ship" /\ job[w].todo = {} /\ job[w].need = 0
     /\ qty' = Minus(qty, job[w].took) /\ res' = Minus(res, job[w].took)
     /\ left' = Minus(left, job[w].cost)
     /\ used' = [used EXCEPT ![o] = Record(o, job[w].cost)]
     /\ claim' = [claim EXCEPT ![o].st = "CONSUMED"]
     /\ stage' = [stage EXCEPT ![o] = "out"]
     /\ gone' = [gone EXCEPT ![o] = Qty[o]]
     /\ Done(w)
     /\ UNCHANGED <<got, cycle, came, moves, aside>>

(* A transaction fails, dies, or loses a deadlock: it leaves nothing.  A   *)
(* count that dies here leaves goods written off and lots that are not.    *)
GiveUp(w) ==
  /\ ~ Idle(w) /\ Done(w)
  /\ UNCHANGED <<stock, lots, order, moves, aside>>

-----------------------------------------------------------------------------
(* Handed-over goods come back to their rows.  The counter is decremented  *)
(* when it holds that much, for a hold this product never has: what it     *)
(* frees belongs to others.                                                *)
Counters(back) ==
  LET free == [r \in Rows |-> IF res[r] >= back[r] THEN back[r] ELSE 0]
  IN /\ qty' = [r \in Rows |-> qty[r] + back[r]]
     /\ res' = Minus(res, free)
     /\ stray' = Minus(stray, free)
     /\ loose' = loose \cup Where(free)

(* The records of the active cycle, all that a restoration sees.           *)
Ours(o) == {l \in Lots : used[o][l].cycle = cycle[o] /\ used[o][l].owed > 0}

Repaid(u, n) == [u EXCEPT !.owed = @ - n]

RestoreLots(o, back) ==
  /\ LotsFree(Where(back), "none")
  /\ left' = [l \in Lots |-> left[l] + back[l]]
  /\ used' = [used EXCEPT ![o] = [l \in Lots |-> Repaid(used[o][l], back[l])]]

(* An order that is cancelled releases what it holds or gives back what    *)
(* was handed over, and its cycle ends.                                    *)
Cancel(o) ==
  LET plan == claim[o].plan
      held == claim[o].st = "ACTIVE"
  IN /\ Quiet(o) /\ stage[o] \in {"reserved", "out"} /\ RowsFree(Where(plan), "none")
     /\ stage' = [stage EXCEPT ![o] = "cancelled"]
     /\ claim' = [claim EXCEPT ![o].st = IF held THEN "RELEASED" ELSE "RESTORED"]
     /\ IF held
        THEN res' = Minus(res, plan) /\ UNCHANGED <<qty, left, used, aside>>
        ELSE /\ Counters(plan)
             /\ RestoreLots(o, [l \in Lots |-> IF l \in Ours(o) THEN used[o][l].owed ELSE 0])
     /\ gone' = [gone EXCEPT ![o] = 0]
     /\ UNCHANGED <<got, cycle, came, job, moves>>

(* Mutant of Capped: a return restores all it brings to that record.       *)
Uncapped(n, owed) == n

Capped(n, owed) == Least(n, owed)

(* A return of handed-over goods, n units of them good.  Lots are restored *)
(* from one record only, at most what it owes; damaged units settle the    *)
(* claim and nothing comes back.  The claim is settled either way: a       *)
(* second return finds it so and changes nothing here.                     *)
Return(o, n) ==
  /\ Quiet(o) /\ stage[o] = "out" /\ came[o] < Qty[o] /\ n \in 0..(Qty[o] - came[o])
  /\ \E back \in Walks(claim[o].plan, n) :
       RowsFree(Where(back), "none") /\ Counters(back)
  /\ IF n > 0 /\ Ours(o) # {}
     THEN \E l \in Ours(o) : RestoreLots(o, [NoCost EXCEPT ![l] = Capped(n, used[o][l].owed)])
     ELSE UNCHANGED <<left, used>>
  /\ claim' = [claim EXCEPT ![o].st = "RESTORED"]
  /\ stage' = [stage EXCEPT ![o] = "returned"]
  /\ gone' = [gone EXCEPT ![o] = @ - n]
  /\ UNCHANGED <<got, cycle, came, job, moves>>

(* A return of n good and d damaged units of an order whose claim is still *)
(* active: the board may deliver what was never handed over.  No goods     *)
(* move.  Each allocation is released up to n, whatever the others gave,   *)
(* where the counter holds that much.  The claim is settled by a return    *)
(* that is all good or all damaged (then nothing is released); otherwise   *)
(* it stays as it was, even when the cycle ends because all has come back. *)
ReturnUnshipped(o, n, d) ==
  LET asked == [r \in Rows |-> Least(claim[o].plan[r], n)]
      free == [r \in Rows |-> IF res[r] >= asked[r] THEN asked[r] ELSE 0]
  IN /\ Quiet(o) /\ stage[o] = "reserved" /\ 0 < n + d /\ came[o] + n + d <= Qty[o]
     /\ RowsFree(Where(asked), "none")
     /\ res' = Minus(res, free)
     /\ IF n \in {0, Qty[o]}
        THEN /\ claim' = [claim EXCEPT ![o].st = IF n = 0 THEN "RESTORED" ELSE "RELEASED"]
             /\ stray' = [r \in Rows |-> stray[r] + claim[o].plan[r] - free[r]]
             /\ UNCHANGED loose
        ELSE /\ stray' = Minus(stray, free)
             /\ loose' = loose \cup Where(free)
             /\ UNCHANGED claim
     /\ stage' = [stage EXCEPT ![o] = IF n = 0 \/ n + d = Qty[o] THEN "returned" ELSE "reserved"]
     /\ came' = [came EXCEPT ![o] = @ + n + d]
     /\ UNCHANGED <<qty, lots, cycle, used, gone, job, moves>>

-----------------------------------------------------------------------------
(* A goods receipt: a lot and its goods in one transaction.                *)
Receive(n) ==
  /\ moves < MaxMoves /\ RowsFree({Floor}, "none")
  /\ \E l \in Lots :
       /\ got[l] = 0 /\ \A k \in Lots : k < l => got[k] > 0
       /\ got' = [got EXCEPT ![l] = n] /\ left' = [left EXCEPT ![l] = n]
  /\ qty' = [qty EXCEPT ![Floor] = @ + n]
  /\ moves' = moves + 1
  /\ UNCHANGED <<res, order, job, aside>>

(* The row a movement without a bin takes from: any with goods, else the   *)
(* floor.                                                                  *)
Finds(r) == qty[r] > 0 \/ (r = Floor /\ \A s \in Rows : qty[s] <= 0)

(* It must hold n; reservations are not asked.                             *)
TakeFrom(r, n) ==
  /\ Finds(r) /\ qty[r] >= n
  /\ qty' = [qty EXCEPT ![r] = @ - n]
  /\ loose' = IF n > Available(r) THEN loose \cup {r} ELSE loose

(* A transfer to another warehouse costs the units first ...               *)
Transfer(w, n) ==
  /\ Idle(w) /\ moves < MaxMoves
  /\ job' = [job EXCEPT ![w] = [NoJob EXCEPT !.op = "transfer", !.n = n, !.need = n]]
  /\ moves' = moves + 1
  /\ UNCHANGED <<stock, lots, order, aside>>

(* ... then moves them; without the goods it fails and GiveUp follows.     *)
TransferCommit(w, r) ==
  /\ job[w].op = "transfer" /\ job[w].need = 0 /\ RowsFree({r}, w)
  /\ TakeFrom(r, job[w].n)
  /\ left' = Minus(left, job[w].cost)
  /\ Done(w)
  /\ UNCHANGED <<res, got, order, moves, stray>>

(* A count that finds n units missing: the goods are written off, and      *)
(* their lots afterwards, outside that transaction.                        *)
Count(w, r, n) ==
  /\ Idle(w) /\ moves < MaxMoves /\ RowsFree({r}, w)
  /\ TakeFrom(r, n)
  /\ job' = [job EXCEPT ![w] = [NoJob EXCEPT !.op = "count", !.need = n]]
  /\ moves' = moves + 1
  /\ UNCHANGED <<res, lots, order, stray>>

(* Staff release what a row has reserved.  The record is read ...          *)
Release(w, r) ==
  /\ Idle(w) /\ moves < MaxMoves /\ res[r] > 0
  /\ job' = [job EXCEPT ![w] = [NoJob EXCEPT !.op = "release", !.n = res[r]]]
  /\ moves' = moves + 1
  /\ UNCHANGED <<stock, lots, order, aside>>

(* ... and that much is released where a movement without a bin takes      *)
(* from, so perhaps in another row, if it has that much.  No claim learns  *)
(* of it.                                                                  *)
ReleaseCommit(w, r) ==
  LET n == job[w].n
  IN /\ job[w].op = "release" /\ RowsFree({r}, w) /\ Finds(r) /\ res[r] >= n
     /\ res' = [res EXCEPT ![r] = @ - n]
     /\ stray' = [stray EXCEPT ![r] = @ - n]
     /\ loose' = loose \cup {r}
     /\ Done(w)
     /\ UNCHANGED <<qty, lots, order, moves>>

-----------------------------------------------------------------------------
Next ==
  \/ \E w \in Workers :
       \/ \E o \in Orders : Look(w, o) \/ HandOver(w, o)
       \/ \E r \in Rows :
            \/ TakeRow(w, r) \/ TransferCommit(w, r)
            \/ Release(w, r) \/ ReleaseCommit(w, r)
       \/ \E n \in Moves : Transfer(w, n) \/ (\E r \in Rows : Count(w, r, n))
       \/ Reserve(w) \/ FindLot(w) \/ TakeLot(w) \/ ShipCommit(w) \/ GiveUp(w)
  \/ \E o \in Orders :
       \/ Cancel(o)
       \/ \E n \in 0..Qty[o] : Return(o, n) \/ (\E d \in 0..Qty[o] : ReturnUnshipped(o, n, d))
  \/ \E n \in Moves : Receive(n)

Spec == Init /\ [][Next]_vars

-----------------------------------------------------------------------------
Stages == {"new", "reserved", "out", "cancelled", "returned"}
Claims == [st : {"none", "ACTIVE", "CONSUMED", "RELEASED", "RESTORED"}, plan : [Rows -> Nat]]
Uses == [Lots -> [owed : Nat, cycle : Nat]]
Jobs == [op : {"idle", "reserve", "ship", "transfer", "count", "release"}, o : Orders \cup {"none"},
         plan : [Rows -> Nat], todo : SUBSET Rows, took : [Rows -> Nat], cost : [Lots -> Nat],
         n : Nat, need : Nat, pick : {0} \cup Lots, take : Nat, skip : SUBSET Lots]

(* Every variable keeps its type.  The counters of a row are integers: the *)
(* code may take either below zero.                                        *)
TypeOK ==
  /\ qty \in [Rows -> Int] /\ res \in [Rows -> Int]
  /\ stray \in [Rows -> Int] /\ loose \subseteq Rows
  /\ got \in [Lots -> Nat] /\ left \in [Lots -> Int]
  /\ stage \in [Orders -> Stages] /\ cycle \in [Orders -> Nat] /\ claim \in [Orders -> Claims]
  /\ used \in [Orders -> Uses] /\ gone \in [Orders -> Int] /\ came \in [Orders -> Nat]
  /\ job \in [Workers -> Jobs] /\ moves \in Nat

(* No lot is overdrawn, although hand-overs, transfers and counts read it  *)
(* unlocked and take what they read.                                       *)
NoLotOverdrawn == \A l \in Lots : 0 <= left[l]

(* No lot is restored beyond its receipt, although cancellations, returns  *)
(* and revivals of many orders restore what they consumed of it.           *)
LotsWithinReceipt == \A l \in Lots : left[l] <= got[l]

(* Hand-overs, transfers, counts, cancellations and returns keep the cost  *)
(* books: whatever unlocked reads and interleaved transactions they are    *)
(* made of, each charges a line, writes units off or repays a lot in one   *)
(* step, as if it were alone (consumeForOrderItem, restoreForReturn...).   *)
Books == INSTANCE CostBooks WITH
  Lots <- Lots, Lines <- Orders, Size <- Qty, Total <- SumFunction,
  bought <- got, unspent <- left,
  debt <- [o \in Orders |-> [l \in Lots |-> used[o][l].owed]]

CostPromise == Books!Spec

(* What an order's line still owes to lots covers no more units than are   *)
(* out: the cost comes back with the goods, once.  Two exceptions: a line  *)
(* costed at several lots that is returned by item, and a revived order    *)
(* that is costed at a lot its first cycle has used.                       *)
CostsComeBack ==
  \A o \in Orders :
    LET records == {l \in Lots : used[o][l].cycle > 0}
    IN \/ stage[o] = "returned" /\ Cardinality(records) > 1
       \/ \E l \in records : used[o][l].cycle # cycle[o] /\ used[o][l].owed > 0
       \/ SumFunction([l \in Lots |-> used[o][l].owed]) <= gone[o]

Held(r) ==
  SumFunction([o \in Orders |-> IF claim[o].st = "ACTIVE" THEN claim[o].plan[r] ELSE 0])

(* A row's counter is the sum of the active allocations there, whatever    *)
(* interleaved reservations, hand-overs, cancellations and movements do,   *)
(* with two corrections that the code never makes: what was released       *)
(* without its claim (by a give-back of handed-over goods, by a return of  *)
(* goods never handed over that were neither all good nor all damaged, by  *)
(* staff) and what stayed when such a return settled the claim.            *)
ReservationsCounted == \A r \in Rows : res[r] = Held(r) + stray[r]

(* The goods an order has reserved are on hand until it takes them, unless *)
(* the row's last units were promised twice at the same moment, moved by a *)
(* transfer or a count, or freed by a give-back, by a return of goods      *)
(* never handed over, or by staff's release of the row.                    *)
ReservedGoodsAreThere == \A r \in Rows : r \in loose \/ Held(r) <= qty[r]
=============================================================================
