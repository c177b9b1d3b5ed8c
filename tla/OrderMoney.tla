----------------------------- MODULE OrderMoney -----------------------------
(***************************************************************************)
(* The money of a customer's orders: the append-only Payment rows, their   *)
(* verification, the credit an overpayment earns and the orders it is      *)
(* spent on, refunds with their negative rows, and the cancellation that   *)
(* must leave no money behind.                                             *)
(*                                                                         *)
(* PaymentsService.create locks the order first and applyCredit the        *)
(* customer: each is one step.  verify reads its row before that lock, and *)
(* a refund or a cancellation reads the balance before its transaction:    *)
(* these are calls of two steps, with anything between.  A refund may move *)
(* the order in a third one.                                               *)
(***************************************************************************)
EXTENDS Integers, FiniteSetsExt, Functions

CONSTANTS
  Orders,    \* the customer's orders
  Total,     \* what each of them costs
  Amounts,   \* amounts paid; a negative one is a correction
  Calls,     \* bound: calls under way at the same time
  MaxRows,   \* bound: Payment rows
  MaxCalls   \* bound: calls that are not given up

ASSUME MoneyAssumption ==
  /\ IsFiniteSet(Orders)
  /\ Total \in Nat /\ {MaxRows, MaxCalls} \subseteq Nat
  /\ Amounts \subseteq Int \ {0}

VARIABLES
  rows,       \* rows[r]: the r-th Payment row
  status,     \* status[o]: Order.paymentStatus
  cancelled,  \* the orders that are Cancelled
  granted,    \* granted[o]: credit earned on o
  spent,      \* credit applied to orders
  call,       \* call[c]: a call between its read and its transaction
  made,       \* the number of calls that were not given up
  odd         \* odd[o]: what happened to o that the promises below exempt

vars == <<rows, status, cancelled, granted, spent, call, made, odd>>

-----------------------------------------------------------------------------
Ids == 1..MaxRows
NoRow == [order |-> "None", amount |-> 0, st |-> "None"]
NoCall == [op |-> "idle"]

Free == {r \in Ids : rows[r] = NoRow}
Next1 == Min(Free)
Plus(a, b) == IF a - b > 0 THEN a - b ELSE 0   \* what a exceeds b by

(* What a row counts for o among the rows of the given statuses.           *)
Worth(row, o, sts) == IF row.order = o /\ row.st \in sts THEN row.amount ELSE 0

(* The sum of the signed PAID rows, customer credit and refunds included.  *)
PaidOf(rs, o) == SumFunction([r \in Ids |-> Worth(rs[r], o, {"PAID"})])
Paid(o) == PaidOf(rows, o)

Append1(o, n, st) == rows' = [rows EXCEPT ![Next1] = [order |-> o, amount |-> n, st |-> st]]
Balance == SumFunction(granted) - spent

Note(o, kinds) == odd' = [odd EXCEPT ![o] = @ \cup kinds]
If(cond, kind) == IF cond THEN {kind} ELSE {}

(* Mutant of Marginal: the excess that was there already is granted anew.  *)
MarginalWhole(before, n) == IF n <= 0 THEN 0 ELSE Plus(before + n, Total)

(* grantFromOverpayment: only what this payment adds to the excess.        *)
Marginal(before, n) == IF n <= 0 THEN 0 ELSE Plus(before + n, Total) - Plus(before, Total)
Grant(o, n) == granted' = [granted EXCEPT ![o] = @ + n]

-----------------------------------------------------------------------------
(* A call reads, and later commits.                                        *)
Ready(c) == call[c] = NoCall /\ made < MaxCalls
Begin(c, record) ==
  /\ call' = [call EXCEPT ![c] = record] /\ made' = made + 1
  /\ UNCHANGED <<rows, status, cancelled, granted, spent, odd>>
End(c) == call' = [call EXCEPT ![c] = NoCall] /\ UNCHANGED made

(* PaymentsService.create: a staff entry that needs no review, and an      *)
(* API gateway's, is PAID at once; any other waits for verification.       *)
Create(o, n, st) ==
  /\ Free # {}
  /\ Append1(o, n, st)
  /\ Grant(o, IF st = "PAID" THEN Marginal(Paid(o), n) ELSE 0)
  /\ Note(o, If(n < 0, "corrected") \cup If(o \in cancelled /\ st = "PAID", "late"))
  /\ UNCHANGED <<status, cancelled, spent, call, made>>

(* verify reads the row without a lock.                                    *)
VerifyRead(c, r, to) ==
  /\ rows[r] # NoRow
  /\ Begin(c, [op |-> "verify", row |-> r, seen |-> rows[r].st, to |-> to])

StatusFor(paid) ==
  IF paid = 0 THEN "PAYMENT_PENDING" ELSE IF paid >= Total THEN "PAID" ELSE "PARTIAL_PAID"

(* Under the order's lock: the status is written whatever it has become,   *)
(* the sums are taken again, and credit is granted by the status first read. *)
VerifyCommit(c) ==
  /\ call[c].op = "verify"
  /\ LET v == call[c]
         o == rows[v.row].order
         n == rows[v.row].amount
         paid == PaidOf(rows', o)
     IN  /\ rows' = [rows EXCEPT ![v.row].st = v.to]
         /\ Grant(o, IF v.to = "PAID" /\ v.seen # "PAID" THEN Marginal(paid - n, n) ELSE 0)
         /\ status' = [status EXCEPT ![o] = StatusFor(paid)]
         /\ Note(o, If(rows[v.row].st # v.seen, "twice")
                    \cup If(rows[v.row].st = "PAID" /\ v.to # "PAID", "reversed")
                    \cup If(rows[v.row].st = "PAID" /\ v.to # "PAID" /\ n < 0, "restored")
                    \cup If(o \in cancelled /\ v.to = "PAID", "late"))
  /\ End(c)
  /\ UNCHANGED <<cancelled, spent>>

(* Mutant of ApplyCredit: what is asked for is not cut to the balance.     *)
ApplyCreditAsked(o, want) ==
  /\ Balance > 0 /\ want > 0 /\ Free # {}
  /\ Append1(o, want, "PAID") /\ spent' = spent + want
  /\ Note(o, {"credited"} \cup If(o \in cancelled, "late"))
  /\ UNCHANGED <<status, cancelled, granted, call, made>>

(* applyCredit: under the customer's lock, never more than the balance.    *)
ApplyCredit(o, want) ==
  /\ Balance > 0 /\ want > 0 /\ Free # {}
  /\ LET use == Min({want, Balance})
     IN  Append1(o, use, "PAID") /\ spent' = spent + use
  /\ Note(o, {"credited"} \cup If(o \in cancelled, "late"))
  /\ UNCHANGED <<status, cancelled, granted, call, made>>

-----------------------------------------------------------------------------
(* A refund alone, with the cancellation, or with a status to set after it. *)
Goals == {"refund", "cancelToo", "target"}

(* Mutant of RefundRead: a partial refund may cancel the order with it.    *)
RefundReadPart(c, o, n, goal) ==
  /\ n \in 1..Paid(o)
  /\ Begin(c, [op |-> "refund", order |-> o, amount |-> n, seen |-> Paid(o), goal |-> goal])

(* Mutant of RefundRead: earlier refunds are not taken off.                *)
RefundReadGross(c, o, n, goal) ==
  /\ Paid(o) > 0 /\ (goal = "cancelToo" => n = Paid(o))
  /\ n \in 1..MapThenSumSet(LAMBDA r : rows[r].amount,
                    {r \in Ids : rows[r].order = o /\ rows[r].st = "PAID" /\ rows[r].amount > 0})
  /\ Begin(c, [op |-> "refund", order |-> o, amount |-> n, seen |-> Paid(o), goal |-> goal])

(* RefundsService.create: what is outstanding is read first; with the      *)
(* cancellation it must be refunded in full.  A target status asks for no  *)
(* more than the refund.                                                   *)
RefundRead(c, o, n, goal) ==
  /\ n \in 1..Paid(o) /\ (goal = "cancelToo" => n = Paid(o))
  /\ Begin(c, [op |-> "refund", order |-> o, amount |-> n, seen |-> Paid(o), goal |-> goal])

(* The transaction compares nothing again.                                 *)
RefundCommit(c) ==
  /\ call[c].op = "refund" /\ Free # {}
  /\ LET f == call[c]
         o == f.order
     IN  /\ Append1(o, -f.amount, "PAID")
         /\ IF f.goal = "cancelToo"
            THEN /\ cancelled' = cancelled \cup {o}
                 /\ status' = [status EXCEPT ![o] = "REFUNDED"]
            ELSE UNCHANGED <<cancelled, status>>
         /\ Note(o, {"refunded"} \cup If(Paid(o) < f.seen, "overlap")
                    \cup If(f.goal = "cancelToo" /\ Paid(o) > f.seen, "late"))
         /\ call' = [call EXCEPT ![c] =
                       IF f.goal = "target" THEN [op |-> "target", order |-> o] ELSE NoCall]
  /\ UNCHANGED <<granted, spent, made>>

(* The target status Cancelled, in a transaction of its own, whatever is   *)
(* still paid.  Which of the two it is depends on the refunds approved.    *)
TargetCommit(c) ==
  /\ call[c].op = "target"
  /\ LET o == call[c].order
     IN  /\ cancelled' = cancelled \cup {o}
         /\ \E st \in {"REFUNDED", "PARTIAL_REFUNDED"} : status' = [status EXCEPT ![o] = st]
         /\ Note(o, If(Paid(o) > 0, "ungated"))
  /\ End(c)
  /\ UNCHANGED <<rows, granted, spent>>

(* The plain cancellation: refused while a paid balance is outstanding,    *)
(* unless staff chose to cancel a dispatched order without a refund.       *)
CancelRead(c, o, keep) ==
  /\ o \notin cancelled /\ keep = (Paid(o) > 0)
  /\ Begin(c, [op |-> "cancel", order |-> o, keep |-> keep])

CancelCommit(c) ==
  /\ call[c].op = "cancel"
  /\ cancelled' = cancelled \cup {call[c].order}
  /\ Note(call[c].order, If(Paid(call[c].order) > 0, IF call[c].keep THEN "kept" ELSE "late"))
  /\ End(c)
  /\ UNCHANGED <<rows, status, granted, spent>>

(* A refusal of the courier, a transaction that fails, a client that goes. *)
Abort(c) ==
  /\ call[c] # NoCall
  /\ call' = [call EXCEPT ![c] = NoCall]
  /\ made' = IF call[c].op = "target" THEN made ELSE made - 1
  /\ UNCHANGED <<rows, status, cancelled, granted, spent, odd>>

-----------------------------------------------------------------------------
Init ==
  /\ rows = [r \in Ids |-> NoRow]
  /\ status = [o \in Orders |-> "PAYMENT_PENDING"]
  /\ cancelled = {} /\ spent = 0 /\ made = 0
  /\ granted = [o \in Orders |-> 0]
  /\ call = [c \in Calls |-> NoCall]
  /\ odd = [o \in Orders |-> {}]

Paying(o) ==
  \/ \E n \in Amounts, st \in {"PENDING", "PAID"} : Create(o, n, st)
  \/ \E n \in Amounts : ApplyCredit(o, n)

Asking(c) ==
  /\ Ready(c)
  /\ \/ \E r \in Ids, to \in {"PAID", "FAILED"} : VerifyRead(c, r, to)
     \/ \E o \in Orders, n \in 1..(MaxRows * Max(Amounts)), goal \in Goals :
          RefundRead(c, o, n, goal)
     \/ \E o \in Orders, keep \in BOOLEAN : CancelRead(c, o, keep)

Committing(c) ==
  VerifyCommit(c) \/ RefundCommit(c) \/ TargetCommit(c) \/ CancelCommit(c)

Next ==
  \/ \E o \in Orders : Paying(o)
  \/ \E c \in Calls : Asking(c) \/ Committing(c) \/ Abort(c)

Spec == Init /\ [][Next]_vars

-----------------------------------------------------------------------------
Odd == {"corrected", "late", "twice", "reversed", "restored", "credited", "refunded",
        "overlap", "kept", "ungated"}

(* Types; that the balance is a number of its own type says that credit is *)
(* never overspent.                                                        *)
TypeOK ==
  /\ \A r \in Ids : rows[r].st \in {"None", "PENDING", "PAID", "FAILED"}
  /\ status \in [Orders -> {"PAYMENT_PENDING", "PARTIAL_PAID", "PAID", "REFUNDED",
                            "PARTIAL_REFUNDED"}]
  /\ cancelled \subseteq Orders
  /\ granted \in [Orders -> Nat] /\ Balance \in Nat
  /\ \A c \in Calls : call[c].op \in {"idle", "verify", "refund", "target", "cancel"}
  /\ odd \in [Orders -> SUBSET Odd]

(* No taka paid beyond the order's total goes without credit, whichever    *)
(* way and in whatever order payments are entered, verified, rejected,     *)
(* approved after all, refunded or corrected.  (Applied credit earns none, *)
(* nor does a refund or correction that is itself rejected; and of two     *)
(* verifications of one row that overlap, either may grant by an outdated  *)
(* status.)  And none is credited twice, as long as nothing is taken off   *)
(* the order again: what is rejected, refunded or corrected and then paid  *)
(* anew is granted anew, and so may be a row verified twice at once.       *)
GrantsMatchExcess ==
  \A o \in Orders :
    /\ odd[o] \cap {"twice", "credited", "restored"} = {} => granted[o] >= Plus(Paid(o), Total)
    /\ odd[o] \subseteq {"late", "kept", "ungated", "credited"} =>
         granted[o] <= Plus(Paid(o), Total)

(* No more is paid back than was collected, unless two refunds overlap, a  *)
(* payment is rejected after it was approved, or staff correct the ledger. *)
RefundsWithinPaid ==
  \A o \in Orders : odd[o] \cap {"overlap", "reversed", "corrected"} = {} => Paid(o) >= 0

(* A cancelled order keeps no money, unless staff chose so, money came in  *)
(* behind the reading of its balance, or a row was rejected afterwards.    *)
(* One entry has no such gate: a refund whose target status is Cancelled   *)
(* cancels the order also when it paid back only a part.                   *)
CancelledIsSettled ==
  \A o \in cancelled :
    odd[o] \cap {"kept", "late", "reversed", "ungated"} = {} => Paid(o) <= 0
=============================================================================
