-------------------------- MODULE OrderMoneyProofs --------------------------
(***************************************************************************)
(* The books of OrderMoney, for any orders, amounts, calls and rows.       *)
(*                                                                         *)
(*   CreditNeverOverspent  every reachable state is well typed, the        *)
(*                         balance of the credit included;                 *)
(*   ExcessEarnsOnce       GrantsMatchExcess;                              *)
(*   NeverOverRefunded     RefundsWithinPaid;                              *)
(*   CancelledKeepsNothing CancelledIsSettled.                             *)
(*                                                                         *)
(* What an order must satisfy is one relation between its grants, what was *)
(* paid on it, its exceptions and whether it is cancelled (Books).  It is  *)
(* not inductive: a verification or a refund acts on what it read.  The    *)
(* invariant adds what a waiting call still knows (CallsKept), and that a  *)
(* negative row is a correction, or a refund that stands (NegativeRows).   *)
(***************************************************************************)
EXTENDS OrderMoney, SumTheorems

RowSet == [order : Orders, amount : Int, st : {"PENDING", "PAID", "FAILED"}]

VerifyCalls ==
  [op : {"verify"}, row : Ids, seen : {"PENDING", "PAID", "FAILED"}, to : {"PAID", "FAILED"}]
RefundCalls == [op : {"refund"}, order : Orders, amount : Int, seen : Int, goal : Goals]
TargetCalls == [op : {"target"}, order : Orders]
CancelCalls == [op : {"cancel"}, order : Orders, keep : BOOLEAN]
CallSet == VerifyCalls \cup RefundCalls \cup TargetCalls \cup CancelCalls \cup {NoCall}

MoneyTyped ==
  /\ rows \in [Ids -> RowSet \cup {NoRow}]
  /\ status \in [Orders -> {"PAYMENT_PENDING", "PARTIAL_PAID", "PAID", "REFUNDED",
                            "PARTIAL_REFUNDED"}]
  /\ cancelled \subseteq Orders
  /\ granted \in [Orders -> Nat]
  /\ spent \in Int
  /\ call \in [Calls -> CallSet]
  /\ odd \in [Orders -> SUBSET Odd]

(* The row to verify is there for good; a refund is of money that was seen. *)
CallsKept ==
  \A c \in Calls :
    /\ call[c].op = "verify" => rows[call[c].row] # NoRow
    /\ call[c].op = "refund" =>
         /\ 0 < call[c].amount /\ call[c].amount <= call[c].seen
         /\ call[c].goal = "cancelToo" => call[c].amount = call[c].seen

(* Why a row takes money off its order.                                    *)
Explained(row, notes) ==
  row.amount < 0 =>
    \/ "corrected" \in notes
    \/ "refunded" \in notes /\ (row.st = "PAID" \/ "reversed" \in notes)

(* Rows change, but what is noted of an order stays noted.                 *)
NegativeRows == \A r \in Ids : rows[r] # NoRow => Explained(rows[r], odd[rows[r].order])

(* Credit granted and money kept agree with the notes of the order.        *)
Books(g, paid, notes, dead) ==
  /\ notes \cap {"twice", "credited", "restored"} = {} => g >= Plus(paid, Total)
  /\ notes \subseteq {"late", "kept", "ungated", "credited"} => g <= Plus(paid, Total)
  /\ notes \cap {"overlap", "reversed", "corrected"} = {} => paid >= 0
  /\ dead /\ notes \cap {"kept", "late", "reversed", "ungated"} = {} => paid <= 0

BooksKept == \A o \in Orders : Books(granted[o], PaidOf(rows, o), odd[o], o \in cancelled)

MoneyInv ==
  /\ MoneyTyped
  /\ CallsKept
  /\ NegativeRows
  /\ Balance >= 0
  /\ BooksKept

-----------------------------------------------------------------------------
(* Sums over the rows                                                      *)

LEMMA TotalAndRows == Total \in Nat /\ MaxRows \in Nat /\ IsFiniteSet(Ids) /\ Ids \subseteq Int
<1>1. Total \in Nat /\ MaxRows \in Nat
  BY MoneyAssumption DEF MoneyAssumption
<1>. QED BY <1>1, FS_Interval DEF Ids

LEMMA WorthInt ==
  ASSUME NEW row \in RowSet \cup {NoRow}, NEW o, NEW sts
  PROVE  Worth(row, o, sts) \in Int
BY DEF Worth, RowSet, NoRow

LEMMA PaidInt ==
  ASSUME NEW rs \in [Ids -> RowSet \cup {NoRow}], NEW o
  PROVE  PaidOf(rs, o) \in Int
<1> DEFINE f == [r \in Ids |-> Worth(rs[r], o, {"PAID"})]
<1>1. f \in [Ids -> Int]
  BY WorthInt
<1> HIDE DEF f
<1>2. SumFunction(f) \in Int
  BY <1>1, TotalInt, TotalAndRows
<1>. QED BY <1>2 DEF PaidOf, f

(* One row is written.                                                     *)
LEMMA PaidChange ==
  ASSUME NEW rs \in [Ids -> RowSet \cup {NoRow}], NEW new \in [Ids -> RowSet \cup {NoRow}],
         NEW r \in Ids, \A q \in Ids \ {r} : new[q] = rs[q], NEW o
  PROVE  PaidOf(new, o) =
           PaidOf(rs, o) - Worth(rs[r], o, {"PAID"}) + Worth(new[r], o, {"PAID"})
<1> DEFINE f == [q \in Ids |-> Worth(rs[q], o, {"PAID"})]
           g == [q \in Ids |-> Worth(new[q], o, {"PAID"})]
<1>1. f \in [Ids -> Int] /\ g \in [Ids -> Int]
  BY WorthInt
<1>2. \A q \in Ids \ {r} : f[q] = g[q]
  OBVIOUS
<1>3. f[r] = Worth(rs[r], o, {"PAID"}) /\ g[r] = Worth(new[r], o, {"PAID"})
  OBVIOUS
<1>4. PaidOf(rs, o) = SumFunction(f) /\ PaidOf(new, o) = SumFunction(g)
  BY DEF PaidOf
<1> HIDE DEF f, g
<1>5. SumFunction(g) = SumFunction(f) - f[r] + g[r]
  BY <1>1, <1>2, TotalChange, TotalAndRows
<1>. QED BY <1>3, <1>4, <1>5

LEMMA LeastExists ==
  ASSUME NEW S \in SUBSET Int, IsFiniteSet(S), S # {}
  PROVE  \E x \in S : \A y \in S : x <= y
<1> DEFINE below(x) == {y \in S : y <= x}
           T == {below(x) : x \in S}
<1>1. PICK m \in T : \A u \in SUBSET m : u # m => u \notin T
  <2>1. T \subseteq SUBSET S /\ T # {}
    OBVIOUS
  <2> HIDE DEF T
  <2>. QED BY <2>1, LeastCounterexample
<1>2. PICK x \in S : m = below(x)
  OBVIOUS
<1>3. ASSUME NEW y \in S PROVE x <= y
  <2>1. CASE y < x
    <3>1. below(y) \in SUBSET m
      <4>. SUFFICES ASSUME NEW z \in S, z <= y PROVE z <= x
        BY <1>2
      <4>. x \in Int /\ y \in Int /\ z \in Int
        OBVIOUS
      <4>. QED BY <2>1
    <3>2. x \in m /\ x \notin below(y)
      BY <2>1, <1>2
    <3>3. below(y) \in T
      OBVIOUS
    <3>. QED BY <3>1, <3>2, <3>3, <1>1
  <2>. QED BY <2>1
<1>. QED BY <1>3

LEMMA NextIsFree ==
  ASSUME Free # {}
  PROVE  Next1 \in Ids /\ rows[Next1] = NoRow
<1>1. Free \in SUBSET Ids /\ IsFiniteSet(Free)
  BY TotalAndRows, FS_Subset DEF Free
<1>2. \E x \in Free : \A y \in Free : x <= y
  BY <1>1, TotalAndRows, LeastExists
<1>3. Next1 \in Free
  BY <1>2 DEF Next1, Min
<1>. QED BY <1>3 DEF Free

LEMMA NewRow ==
  ASSUME MoneyTyped, Free # {}, NEW o \in Orders, NEW n \in Int,
         NEW st \in {"PENDING", "PAID"}, Append1(o, n, st)
  PROVE  /\ rows' \in [Ids -> RowSet \cup {NoRow}]
         /\ \A p \in Orders :
              PaidOf(rows', p) = PaidOf(rows, p) + IF p = o /\ st = "PAID" THEN n ELSE 0
<1> DEFINE r == Next1
           row == [order |-> o, amount |-> n, st |-> st]
<1>1. r \in Ids /\ rows[r] = NoRow
  BY NextIsFree
<1>2. row \in RowSet /\ rows' = [rows EXCEPT ![r] = row]
  BY DEF RowSet, Append1
<1> HIDE DEF r, row
<1>3. rows' \in [Ids -> RowSet \cup {NoRow}] /\ rows'[r] = row
      /\ \A q \in Ids \ {r} : rows'[q] = rows[q]
  BY <1>1, <1>2 DEF MoneyTyped
<1>4. ASSUME NEW p \in Orders
      PROVE  PaidOf(rows', p) = PaidOf(rows, p) + IF p = o /\ st = "PAID" THEN n ELSE 0
  <2>1. PaidOf(rows', p) =
          PaidOf(rows, p) - Worth(rows[r], p, {"PAID"}) + Worth(rows'[r], p, {"PAID"})
    BY <1>1, <1>3, PaidChange DEF MoneyTyped
  <2>2. Worth(rows[r], p, {"PAID"}) = 0
    BY <1>1 DEF Worth, NoRow
  <2>3. Worth(rows'[r], p, {"PAID"}) = IF p = o /\ st = "PAID" THEN n ELSE 0
    BY <1>3 DEF Worth, row
  <2>4. PaidOf(rows, p) \in Int
    BY PaidInt DEF MoneyTyped
  <2>. QED BY <2>1, <2>2, <2>3, <2>4
<1>. QED BY <1>3, <1>4

-----------------------------------------------------------------------------
(* What a step must show, part by part                                     *)

(* What is noted of an order stays noted.                                  *)
Noted == \A p \in Orders : odd[p] \subseteq odd'[p]

LEMMA NoteAdds ==
  ASSUME MoneyTyped, NEW o \in Orders, NEW kinds \in SUBSET Odd, Note(o, kinds)
  PROVE  /\ odd' \in [Orders -> SUBSET Odd] /\ Noted
         /\ odd'[o] = odd[o] \cup kinds
         /\ \A p \in Orders \ {o} : odd'[p] = odd[p]
BY DEF MoneyTyped, Note, Noted

LEMMA IfAdds == \A cond, kind : If(cond, kind) = IF cond THEN {kind} ELSE {}
BY DEF If

LEMMA GrantAdds ==
  ASSUME MoneyTyped, NEW o \in Orders, NEW n \in Nat, Grant(o, n), spent' = spent
  PROVE  /\ granted' \in [Orders -> Nat]
         /\ Balance' = Balance + n
         /\ granted'[o] = granted[o] + n
         /\ \A p \in Orders \ {o} : granted'[p] = granted[p]
<1>1. /\ granted' \in [Orders -> Nat]
      /\ granted'[o] = granted[o] + n
      /\ \A p \in Orders \ {o} : granted'[p] = granted[p]
  BY DEF MoneyTyped, Grant
<1>2. granted \in [Orders -> Int] /\ granted' \in [Orders -> Int]
  BY <1>1 DEF MoneyTyped
<1>3. SumFunction(granted') = SumFunction(granted) - granted[o] + granted'[o]
  BY <1>1, <1>2, MoneyAssumption, TotalChange DEF MoneyAssumption
<1>4. SumFunction(granted) \in Int /\ spent \in Int /\ granted[o] \in Int
  BY <1>2, MoneyAssumption, TotalInt DEF MoneyAssumption, MoneyTyped
<1>. QED BY <1>1, <1>3, <1>4 DEF Balance

LEMMA BalanceInt ==
  ASSUME MoneyTyped
  PROVE  Balance \in Int
<1>1. granted \in [Orders -> Int]
  BY DEF MoneyTyped
<1>. QED BY <1>1, MoneyAssumption, TotalInt DEF MoneyAssumption, MoneyTyped, Balance

LEMMA MarginalWorth ==
  ASSUME NEW before \in Int, NEW n \in Int
  PROVE  /\ Marginal(before, n) \in Nat
         /\ n > 0 => Marginal(before, n) = Plus(before + n, Total) - Plus(before, Total)
BY TotalAndRows DEF Marginal, Plus

(* Less money, no more excess.                                             *)
LEMMA PlusGrows ==
  ASSUME NEW a \in Int
  PROVE  /\ Plus(a, Total) \in Nat
         /\ \A b \in Int : b <= a => Plus(b, Total) \in Nat /\ Plus(b, Total) <= Plus(a, Total)
BY TotalAndRows DEF Plus

LEMMA BooksStep ==
  ASSUME BooksKept, NEW o \in Orders,
         \A p \in Orders \ {o} :
           /\ granted'[p] = granted[p] /\ PaidOf(rows', p) = PaidOf(rows, p)
           /\ odd'[p] = odd[p] /\ (p \in cancelled' <=> p \in cancelled),
         Books(granted'[o], PaidOf(rows', o), odd'[o], o \in cancelled')
  PROVE  BooksKept'
<1>. SUFFICES ASSUME NEW p \in Orders
              PROVE  Books(granted'[p], PaidOf(rows', p), odd'[p], p \in cancelled')
  BY DEF BooksKept
<1>1. CASE p # o
  BY <1>1 DEF BooksKept, Books
<1>. QED BY <1>1

LEMMA RowsStep ==
  ASSUME MoneyTyped, NegativeRows, Noted, NEW r \in Ids,
         \A q \in Ids \ {r} : rows'[q] = rows[q],
         rows'[r] # NoRow => Explained(rows'[r], odd'[rows'[r].order])
  PROVE  NegativeRows'
<1>. SUFFICES ASSUME NEW q \in Ids, rows'[q] # NoRow
              PROVE  Explained(rows'[q], odd'[rows'[q].order])
  BY DEF NegativeRows
<1>1. CASE q # r
  <2>1. rows'[q] = rows[q] /\ rows[q].order \in Orders
    BY <1>1 DEF MoneyTyped, RowSet
  <2>. QED BY <2>1 DEF NegativeRows, Explained, Noted
<1>. QED BY <1>1

RowsStay == \A q \in Ids : rows[q] # NoRow => rows'[q] # NoRow

LEMMA CallsStep ==
  ASSUME MoneyTyped, CallsKept, RowsStay, NEW c \in Calls,
         NEW x, call' = [call EXCEPT ![c] = x],
         x.op = "verify" => rows'[x.row] # NoRow,
         x.op = "refund" => /\ 0 < x.amount /\ x.amount <= x.seen
                            /\ x.goal = "cancelToo" => x.amount = x.seen
  PROVE  CallsKept'
<1>. SUFFICES ASSUME NEW d \in Calls
              PROVE  /\ call'[d].op = "verify" => rows'[call'[d].row] # NoRow
                     /\ call'[d].op = "refund" =>
                          /\ 0 < call'[d].amount /\ call'[d].amount <= call'[d].seen
                          /\ call'[d].goal = "cancelToo" => call'[d].amount = call'[d].seen
  BY DEF CallsKept
<1>1. CASE d = c
  BY <1>1 DEF MoneyTyped
<1>2. CASE d # c
  <2>1. call'[d] = call[d] /\ (call[d].op = "verify" => call[d].row \in Ids)
    BY <1>2 DEF MoneyTyped, CallSet, VerifyCalls, RefundCalls,
         TargetCalls, CancelCalls, NoCall
  <2>. QED BY <2>1 DEF CallsKept, RowsStay
<1>. QED BY <1>1, <1>2

LEMMA CallsSame ==
  ASSUME MoneyTyped, CallsKept, RowsStay, UNCHANGED call
  PROVE  CallsKept'
<1>. SUFFICES ASSUME NEW d \in Calls
              PROVE  /\ call[d].op = "verify" => rows'[call[d].row] # NoRow
                     /\ call[d].op = "refund" =>
                          /\ 0 < call[d].amount /\ call[d].amount <= call[d].seen
                          /\ call[d].goal = "cancelToo" => call[d].amount = call[d].seen
  BY DEF CallsKept
<1>1. call[d].op = "verify" => call[d].row \in Ids
  BY DEF MoneyTyped, CallSet, VerifyCalls, RefundCalls,
         TargetCalls, CancelCalls, NoCall
<1>. QED BY <1>1 DEF CallsKept, RowsStay

(* A call is over, whatever else happened.                                 *)
LEMMA CallEnds ==
  ASSUME MoneyTyped, CallsKept, RowsStay, NEW c \in Calls, call' = [call EXCEPT ![c] = NoCall]
  PROVE  /\ CallsKept'
         /\ call' \in [Calls -> CallSet]
<1>1. NoCall.op = "idle"
  BY DEF NoCall
<1>2. CallsKept'
  BY <1>1, CallsStep
<1>. QED BY <1>2 DEF MoneyTyped, CallSet

LEMMA NewRowKept ==
  ASSUME MoneyTyped, NegativeRows, Noted, Free # {}, NEW o \in Orders, NEW n \in Int,
         NEW st \in {"PENDING", "PAID"}, Append1(o, n, st),
         Explained([order |-> o, amount |-> n, st |-> st], odd'[o])
  PROVE  NegativeRows' /\ RowsStay
<1> DEFINE r == Next1
<1>1. r \in Ids /\ rows[r] = NoRow
  BY NextIsFree
<1>2. rows' = [rows EXCEPT ![r] = [order |-> o, amount |-> n, st |-> st]]
  BY DEF Append1
<1> HIDE DEF r
<1>3. /\ rows'[r] = [order |-> o, amount |-> n, st |-> st]
      /\ \A q \in Ids \ {r} : rows'[q] = rows[q]
  BY <1>1, <1>2 DEF MoneyTyped
<1>4. rows'[r].order = o
  BY <1>3
<1>5. NegativeRows'
  BY <1>1, <1>3, <1>4, RowsStep
<1>. QED BY <1>1, <1>3, <1>5 DEF RowsStay

-----------------------------------------------------------------------------
(* The steps                                                               *)

LEMMA CreateKeeps ==
  ASSUME MoneyInv, NEW o \in Orders, NEW n \in Amounts, NEW st \in {"PENDING", "PAID"},
         Create(o, n, st)
  PROVE  MoneyInv'
<1> DEFINE g == IF st = "PAID" THEN Marginal(Paid(o), n) ELSE 0
           kinds == If(n < 0, "corrected") \cup If(o \in cancelled /\ st = "PAID", "late")
<1>n. n \in Int /\ n # 0 /\ Paid(o) \in Int
  BY MoneyAssumption, PaidInt DEF MoneyAssumption, MoneyInv, MoneyTyped, Paid
<1>1. /\ g \in Nat /\ kinds \in SUBSET Odd
      /\ n < 0 => "corrected" \in kinds
      /\ o \in cancelled /\ st = "PAID" => "late" \in kinds
  BY <1>n, MarginalWorth, IfAdds DEF Odd
<1>2. /\ Free # {} /\ Append1(o, n, st) /\ Grant(o, g) /\ Note(o, kinds)
      /\ UNCHANGED <<status, cancelled, spent, call>>
  BY DEF Create
<1>p. g = IF st = "PAID" THEN Marginal(Paid(o), n) ELSE 0
  OBVIOUS
<1> HIDE DEF g, kinds
<1>3. /\ rows' \in [Ids -> RowSet \cup {NoRow}]
      /\ \A p \in Orders :
           PaidOf(rows', p) = PaidOf(rows, p) + IF p = o /\ st = "PAID" THEN n ELSE 0
  BY <1>n, <1>2, NewRow DEF MoneyInv
<1>4. /\ granted' \in [Orders -> Nat] /\ Balance' = Balance + g
      /\ granted'[o] = granted[o] + g
      /\ \A p \in Orders \ {o} : granted'[p] = granted[p]
  BY <1>1, <1>2, GrantAdds DEF MoneyInv
<1>5. /\ odd' \in [Orders -> SUBSET Odd] /\ Noted
      /\ odd'[o] = odd[o] \cup kinds
      /\ \A p \in Orders \ {o} : odd'[p] = odd[p]
  BY <1>1, <1>2, NoteAdds DEF MoneyInv
<1>6. MoneyTyped'
  BY <1>2, <1>3, <1>4, <1>5 DEF MoneyInv, MoneyTyped
<1>7. NegativeRows' /\ RowsStay
  BY <1>n, <1>1, <1>2, <1>5, NewRowKept DEF MoneyInv, Explained
<1>8. CallsKept'
  BY <1>2, <1>7, CallsSame DEF MoneyInv
<1>9. BooksKept'
  <2>1. \A p \in Orders \ {o} :
           /\ granted'[p] = granted[p] /\ PaidOf(rows', p) = PaidOf(rows, p)
           /\ odd'[p] = odd[p] /\ (p \in cancelled' <=> p \in cancelled)
    <3>1. \A p \in Orders : PaidOf(rows, p) \in Int
      BY PaidInt DEF MoneyInv, MoneyTyped
    <3>. QED BY <3>1, <1>2, <1>3, <1>4, <1>5
  <2>2. Books(granted[o], Paid(o), odd[o], o \in cancelled) /\ granted[o] \in Int
    BY DEF MoneyInv, BooksKept, MoneyTyped, Paid
  <2>3. Books(granted'[o], PaidOf(rows', o), odd'[o], o \in cancelled')
    <3>1. PaidOf(rows', o) = Paid(o) + IF st = "PAID" THEN n ELSE 0
      BY <1>3 DEF Paid
    <3>2. CASE st = "PENDING"
      <4>1. PaidOf(rows', o) = Paid(o) /\ granted'[o] = granted[o]
        BY <3>1, <3>2, <1>n, <1>p, <1>4, <2>2
      <4>. QED BY <4>1, <1>2, <1>5, <2>2 DEF Books
    <3>3. CASE st = "PAID" /\ n > 0
      <4>1. /\ PaidOf(rows', o) = Paid(o) + n
            /\ granted'[o] = granted[o] + Plus(Paid(o) + n, Total) - Plus(Paid(o), Total)
        BY <3>1, <3>3, <1>n, <1>p, <1>4, <2>2, MarginalWorth DEF Plus
      <4>2. Plus(Paid(o), Total) \in Int /\ Plus(Paid(o) + n, Total) \in Int
        BY <1>n, TotalAndRows DEF Plus
      <4>. QED BY <4>1, <4>2, <1>n, <3>3, <1>1, <1>2, <1>5, <2>2 DEF Books
    <3>4. CASE st = "PAID" /\ n < 0
      <4>1. "corrected" \in odd'[o] /\ (o \in cancelled => "late" \in odd'[o])
        BY <3>4, <1>1, <1>5
      <4>2. PaidOf(rows', o) = Paid(o) + n /\ granted'[o] >= granted[o]
        BY <3>1, <3>4, <1>n, <1>1, <1>4, <2>2
      <4>3. Plus(PaidOf(rows', o), Total) <= Plus(Paid(o), Total) /\ granted'[o] \in Int
        BY <4>2, <3>4, <1>n, <1>4, PlusGrows DEF MoneyTyped
      <4>4. Plus(PaidOf(rows', o), Total) \in Int /\ Plus(Paid(o), Total) \in Int
        BY <4>2, <1>n, PlusGrows
      <4>. QED BY <4>1, <4>2, <4>3, <4>4, <1>2, <1>5, <2>2 DEF Books
    <3>. QED BY <1>n, <3>2, <3>3, <3>4
  <2>. QED BY <2>1, <2>3, BooksStep DEF MoneyInv
<1>. QED BY <1>1, <1>4, <1>6, <1>7, <1>8, <1>9, BalanceInt DEF MoneyInv

LEMMA ApplyCreditKeeps ==
  ASSUME MoneyInv, NEW o \in Orders, NEW want \in Amounts, ApplyCredit(o, want)
  PROVE  MoneyInv'
<1> DEFINE use == Min({want, Balance})
           kinds == {"credited"} \cup If(o \in cancelled, "late")
<1>n. want \in Int /\ want > 0 /\ Balance \in Int /\ Balance > 0 /\ Paid(o) \in Int
  BY MoneyAssumption, PaidInt, BalanceInt DEF MoneyAssumption, MoneyInv, MoneyTyped, Paid, ApplyCredit
<1>1. /\ use \in Int /\ 0 < use /\ use <= Balance
      /\ kinds \in SUBSET Odd /\ "credited" \in kinds /\ (o \in cancelled => "late" \in kinds)
  <2>1. \E x \in {want, Balance} : \A y \in {want, Balance} : x <= y
    BY <1>n
  <2>2. use \in {want, Balance} /\ \A y \in {want, Balance} : use <= y
    BY <2>1 DEF Min
  <2>. QED BY <2>2, <1>n, IfAdds DEF Odd
<1>2. /\ Free # {} /\ Append1(o, use, "PAID") /\ spent' = spent + use /\ Note(o, kinds)
      /\ UNCHANGED <<status, cancelled, granted, call>>
  BY DEF ApplyCredit
<1> HIDE DEF use, kinds
<1>3. /\ rows' \in [Ids -> RowSet \cup {NoRow}]
      /\ \A p \in Orders : PaidOf(rows', p) = PaidOf(rows, p) + IF p = o THEN use ELSE 0
  BY <1>1, <1>2, NewRow DEF MoneyInv
<1>4. Balance' = Balance - use
  <2>1. SumFunction(granted) \in Int /\ spent \in Int
    <3>1. granted \in [Orders -> Int]
      BY DEF MoneyInv, MoneyTyped
    <3>. QED BY <3>1, MoneyAssumption, TotalInt DEF MoneyAssumption, MoneyInv, MoneyTyped
  <2>. QED BY <1>1, <1>2, <2>1 DEF Balance
<1>5. /\ odd' \in [Orders -> SUBSET Odd] /\ Noted
      /\ odd'[o] = odd[o] \cup kinds
      /\ \A p \in Orders \ {o} : odd'[p] = odd[p]
  BY <1>1, <1>2, NoteAdds DEF MoneyInv
<1>6. MoneyTyped'
  BY <1>1, <1>2, <1>3, <1>5 DEF MoneyInv, MoneyTyped
<1>7. NegativeRows' /\ RowsStay
  BY <1>1, <1>2, <1>5, NewRowKept DEF MoneyInv, Explained
<1>8. CallsKept'
  BY <1>2, <1>7, CallsSame DEF MoneyInv
<1>9. BooksKept'
  <2>1. \A p \in Orders \ {o} :
           /\ granted'[p] = granted[p] /\ PaidOf(rows', p) = PaidOf(rows, p)
           /\ odd'[p] = odd[p] /\ (p \in cancelled' <=> p \in cancelled)
    <3>1. \A p \in Orders : PaidOf(rows, p) \in Int
      BY PaidInt DEF MoneyInv, MoneyTyped
    <3>. QED BY <3>1, <1>2, <1>3, <1>5
  <2>2. Books(granted[o], Paid(o), odd[o], o \in cancelled) /\ granted[o] \in Int
    BY DEF MoneyInv, BooksKept, MoneyTyped, Paid
  <2>3. PaidOf(rows', o) = Paid(o) + use /\ granted'[o] = granted[o]
    BY <1>2, <1>3 DEF Paid
  <2>4. Plus(Paid(o), Total) <= Plus(Paid(o) + use, Total)
        /\ Plus(Paid(o), Total) \in Int /\ Plus(Paid(o) + use, Total) \in Int
    BY <1>n, <1>1, TotalAndRows DEF Plus
  <2>5. Books(granted'[o], PaidOf(rows', o), odd'[o], o \in cancelled')
    BY <1>n, <1>1, <1>2, <1>5, <2>2, <2>3, <2>4 DEF Books
  <2>. QED BY <2>1, <2>5, BooksStep DEF MoneyInv
<1>. QED BY <1>n, <1>1, <1>4, <1>6, <1>7, <1>8, <1>9 DEF MoneyInv

(* A call reads what it will act on.                                       *)
LEMMA BeginKeeps ==
  ASSUME MoneyInv, NEW c \in Calls, NEW x \in CallSet,
         Begin(c, x),
         x.op = "verify" => rows[x.row] # NoRow,
         x.op = "refund" => /\ 0 < x.amount /\ x.amount <= x.seen
                            /\ x.goal = "cancelToo" => x.amount = x.seen
  PROVE  MoneyInv'
<1>1. /\ call' = [call EXCEPT ![c] = x]
      /\ UNCHANGED <<rows, status, cancelled, granted, spent, odd>>
  BY DEF Begin
<1>2. MoneyTyped'
  BY <1>1 DEF MoneyInv, MoneyTyped
<1>3. RowsStay /\ CallsKept'
  <2>1. RowsStay
    BY <1>1 DEF RowsStay
  <2>2. x.op = "verify" => rows'[x.row] # NoRow
    BY <1>1
  <2>. QED BY <1>1, <2>1, <2>2, CallsStep DEF MoneyInv
<1>4. NegativeRows' /\ Balance' = Balance /\ BooksKept'
  BY <1>1 DEF MoneyInv, NegativeRows, Explained, Balance, BooksKept, Books
<1>. QED BY <1>2, <1>3, <1>4 DEF MoneyInv

LEMMA AskingKeeps ==
  ASSUME MoneyInv, NEW c \in Calls, Asking(c)
  PROVE  MoneyInv'
<1>1. ASSUME NEW r \in Ids, NEW to \in {"PAID", "FAILED"}, VerifyRead(c, r, to)
      PROVE  MoneyInv'
  <2> DEFINE x == [op |-> "verify", row |-> r, seen |-> rows[r].st, to |-> to]
  <2>1. rows[r] # NoRow /\ Begin(c, x)
    BY <1>1 DEF VerifyRead
  <2>2. rows[r].st \in {"PENDING", "PAID", "FAILED"}
    BY <2>1 DEF MoneyInv, MoneyTyped, RowSet
  <2>3. x \in CallSet /\ x \in VerifyCalls /\ x.op = "verify" /\ x.row = r
    BY <2>2 DEF CallSet, VerifyCalls
  <2> HIDE DEF x
  <2>. QED BY <2>1, <2>3, BeginKeeps
<1>2. ASSUME NEW o \in Orders, NEW n \in 1..(MaxRows * Max(Amounts)), NEW goal \in Goals,
             RefundRead(c, o, n, goal)
      PROVE  MoneyInv'
  <2> DEFINE x == [op |-> "refund", order |-> o, amount |-> n, seen |-> Paid(o),
                   goal |-> goal]
  <2>1. n \in 1..Paid(o) /\ (goal = "cancelToo" => n = Paid(o)) /\ Begin(c, x)
    BY <1>2 DEF RefundRead
  <2>2. Paid(o) \in Int
    BY PaidInt DEF MoneyInv, MoneyTyped, Paid
  <2>3. /\ x \in CallSet /\ x.op = "refund" /\ 0 < x.amount /\ x.amount <= x.seen
        /\ x.goal = "cancelToo" => x.amount = x.seen
    BY <2>1, <2>2 DEF CallSet, RefundCalls
  <2> HIDE DEF x
  <2>. QED BY <2>1, <2>3, BeginKeeps
<1>3. ASSUME NEW o \in Orders, NEW keep \in BOOLEAN, CancelRead(c, o, keep)
      PROVE  MoneyInv'
  <2> DEFINE x == [op |-> "cancel", order |-> o, keep |-> keep]
  <2>1. Begin(c, x)
    BY <1>3 DEF CancelRead
  <2>2. x \in CallSet /\ x.op = "cancel"
    BY DEF CallSet, CancelCalls
  <2> HIDE DEF x
  <2>. QED BY <2>1, <2>2, BeginKeeps
<1>. QED BY <1>1, <1>2, <1>3 DEF Asking

-----------------------------------------------------------------------------
(* The commits, acting on what was read                                    *)

LEMMA VerifyCommitKeeps ==
  ASSUME MoneyInv, NEW c \in Calls, VerifyCommit(c)
  PROVE  MoneyInv'
<1>v. /\ call[c].op = "verify" /\ call[c] \in VerifyCalls
      /\ rows[call[c].row] # NoRow
  <2>1. call[c].op = "verify"
    BY DEF VerifyCommit
  <2>2. call[c] \in VerifyCalls
    BY <2>1 DEF MoneyInv, MoneyTyped, CallSet, VerifyCalls, RefundCalls,
         TargetCalls, CancelCalls, NoCall
  <2>. QED BY <2>1, <2>2 DEF MoneyInv, CallsKept
<1>r. PICK r \in Ids : r = call[c].row
  BY <1>v DEF VerifyCalls
<1>o. PICK o \in Orders : o = rows[r].order
  BY <1>v, <1>r DEF MoneyInv, MoneyTyped, RowSet
<1>n. PICK n \in Int : n = rows[r].amount
  BY <1>v, <1>r DEF MoneyInv, MoneyTyped, RowSet
<1>t. PICK to \in {"PAID", "FAILED"}, seen \in {"PENDING", "PAID", "FAILED"} :
        to = call[c].to /\ seen = call[c].seen
  BY <1>v DEF VerifyCalls
<1>s. PICK cur \in {"PENDING", "PAID", "FAILED"} : cur = rows[r].st
  BY <1>v, <1>r DEF MoneyInv, MoneyTyped, RowSet
<1> DEFINE paid == PaidOf(rows', o)
           g == IF to = "PAID" /\ seen # "PAID" THEN Marginal(paid - n, n) ELSE 0
           kinds == If(cur # seen, "twice") \cup If(cur = "PAID" /\ to # "PAID", "reversed")
                    \cup If(cur = "PAID" /\ to # "PAID" /\ n < 0, "restored")
                    \cup If(o \in cancelled /\ to = "PAID", "late")
<1>1. /\ rows' = [rows EXCEPT ![r].st = to]
      /\ Grant(o, g) /\ Note(o, kinds)
      /\ status' = [status EXCEPT ![o] = StatusFor(paid)]
      /\ call' = [call EXCEPT ![c] = NoCall] /\ UNCHANGED <<cancelled, spent>>
  BY <1>r, <1>o, <1>n, <1>t, <1>s DEF VerifyCommit, End
<1>2. /\ rows'[r] = [order |-> o, amount |-> n, st |-> to]
      /\ rows' \in [Ids -> RowSet \cup {NoRow}]
      /\ \A q \in Ids \ {r} : rows'[q] = rows[q]
  <2>1. rows[r] \in RowSet
    BY <1>v, <1>r DEF MoneyInv, MoneyTyped
  <2>2. [rows[r] EXCEPT !.st = to] = [order |-> o, amount |-> n, st |-> to]
    BY <2>1, <1>o, <1>n DEF RowSet
  <2>3. rows' = [rows EXCEPT ![r] = [rows[r] EXCEPT !.st = to]]
    BY <1>1
  <2>4. [order |-> o, amount |-> n, st |-> to] \in RowSet
    BY DEF RowSet
  <2>. QED BY <2>2, <2>3, <2>4 DEF MoneyInv, MoneyTyped
<1>k. /\ kinds \in SUBSET Odd
      /\ cur # seen => "twice" \in kinds
      /\ cur = "PAID" /\ to # "PAID" => "reversed" \in kinds
      /\ cur = "PAID" /\ to # "PAID" /\ n < 0 => "restored" \in kinds
      /\ o \in cancelled /\ to = "PAID" => "late" \in kinds
  BY IfAdds DEF Odd
<1>3. \A p \in Orders : /\ PaidOf(rows, p) \in Int
                        /\ PaidOf(rows', p) =
                             PaidOf(rows, p) - Worth(rows[r], p, {"PAID"})
                                             + Worth(rows'[r], p, {"PAID"})
  BY <1>2, PaidInt, PaidChange DEF MoneyInv, MoneyTyped
<1>4. /\ Worth(rows[r], o, {"PAID"}) = IF cur = "PAID" THEN n ELSE 0
      /\ Worth(rows'[r], o, {"PAID"}) = IF to = "PAID" THEN n ELSE 0
      /\ \A p \in Orders \ {o} : Worth(rows[r], p, {"PAID"}) = 0 /\ Worth(rows'[r], p, {"PAID"}) = 0
  <2>1. rows'[r].order = o /\ rows'[r].st = to /\ rows'[r].amount = n
    BY <1>2
  <2>. QED BY <2>1, <1>o, <1>n, <1>s DEF Worth
<1>5. paid = PaidOf(rows, o) - (IF cur = "PAID" THEN n ELSE 0) + (IF to = "PAID" THEN n ELSE 0)
      /\ paid \in Int
  <2>1. /\ PaidOf(rows, o) \in Int
        /\ paid = PaidOf(rows, o) - Worth(rows[r], o, {"PAID"}) + Worth(rows'[r], o, {"PAID"})
    BY <1>3
  <2> HIDE DEF paid
  <2>. QED BY <2>1, <1>4
<1>g. g \in Nat /\ g = IF to = "PAID" /\ seen # "PAID" THEN Marginal(paid - n, n) ELSE 0
  <2>1. paid \in Int
    BY <1>5
  <2> HIDE DEF paid
  <2>2. Marginal(paid - n, n) \in Nat
    BY <2>1, MarginalWorth
  <2>. QED BY <2>2
<1>st. StatusFor(paid) \in {"PAYMENT_PENDING", "PARTIAL_PAID", "PAID"}
  BY DEF StatusFor
<1>e. Explained(rows[r], odd[o])
  BY <1>v, <1>r, <1>o DEF MoneyInv, NegativeRows
<1> HIDE DEF paid, g, kinds
<1>6. /\ granted' \in [Orders -> Nat] /\ Balance' = Balance + g
      /\ granted'[o] = granted[o] + g
      /\ \A p \in Orders \ {o} : granted'[p] = granted[p]
  BY <1>1, <1>g, GrantAdds DEF MoneyInv
<1>7. /\ odd' \in [Orders -> SUBSET Odd] /\ Noted
      /\ odd'[o] = odd[o] \cup kinds
      /\ \A p \in Orders \ {o} : odd'[p] = odd[p]
  BY <1>1, <1>k, NoteAdds DEF MoneyInv
<1>8. NegativeRows' /\ RowsStay
  <2>1. Explained([order |-> o, amount |-> n, st |-> to], odd'[o])
    BY <1>e, <1>n, <1>s, <1>k, <1>7 DEF Explained
  <2>2. rows'[r].order = o /\ Explained(rows'[r], odd'[o])
    BY <2>1, <1>2
  <2>3. NegativeRows'
    BY <2>2, <1>2, <1>7, RowsStep DEF MoneyInv
  <2>4. rows'[r] # NoRow
    BY <1>2 DEF NoRow
  <2>. QED BY <2>3, <2>4, <1>2 DEF RowsStay
<1>9. /\ CallsKept'
      /\ call' \in [Calls -> CallSet]
  BY <1>1, <1>8, CallEnds DEF MoneyInv
<1>10. MoneyTyped'
  BY <1>1, <1>2, <1>6, <1>7, <1>9, <1>st DEF MoneyInv, MoneyTyped
<1>11. BooksKept'
  <2>1. \A p \in Orders \ {o} :
           /\ granted'[p] = granted[p] /\ PaidOf(rows', p) = PaidOf(rows, p)
           /\ odd'[p] = odd[p] /\ (p \in cancelled' <=> p \in cancelled)
    <3>1. ASSUME NEW p \in Orders \ {o}
          PROVE  PaidOf(rows', p) = PaidOf(rows, p)
      <4>1. /\ PaidOf(rows, p) \in Int
            /\ PaidOf(rows', p) = PaidOf(rows, p) - Worth(rows[r], p, {"PAID"})
                                                 + Worth(rows'[r], p, {"PAID"})
        BY <1>3
      <4>2. Worth(rows[r], p, {"PAID"}) = 0 /\ Worth(rows'[r], p, {"PAID"}) = 0
        BY <1>4
      <4>. QED BY <4>1, <4>2
    <3>. QED BY <3>1, <1>1, <1>6, <1>7
  <2>2. Books(granted[o], PaidOf(rows, o), odd[o], o \in cancelled) /\ granted[o] \in Int
    BY DEF MoneyInv, BooksKept, MoneyTyped
  <2>3. Books(granted[o] + g, paid, odd'[o], o \in cancelled)
    <3>p. PaidOf(rows, o) \in Int /\ Total \in Nat
      BY <1>3, TotalAndRows
    <3>1. CASE cur = "PAID" /\ to # "PAID"
      <4>1. "reversed" \in odd'[o] /\ (n < 0 => "restored" \in odd'[o])
            /\ odd[o] \subseteq odd'[o]
        BY <3>1, <1>k, <1>7
      <4>2. paid = PaidOf(rows, o) - n /\ g = 0
        BY <3>1, <3>p, <1>5, <1>g
      <4>3. n >= 0 => Plus(paid, Total) <= Plus(PaidOf(rows, o), Total)
        BY <4>2, <3>p, PlusGrows
      <4>4. Plus(paid, Total) \in Int /\ Plus(PaidOf(rows, o), Total) \in Int
        BY <3>p, <1>5, PlusGrows
      <4>5. odd'[o] \cap {"twice", "credited", "restored"} = {} =>
                granted[o] + g >= Plus(paid, Total)
        BY <4>1, <4>2, <4>3, <4>4, <2>2 DEF Books
      <4>. QED BY <4>1, <4>5 DEF Books
    <3>2. CASE cur = "PAID" <=> to = "PAID"
      <4>1. paid = PaidOf(rows, o)
        BY <3>2, <3>p, <1>5
      <4>2. g = 0 \/ "twice" \in odd'[o]
        BY <3>2, <1>g, <1>k, <1>7
      <4>. QED BY <4>1, <4>2, <2>2, <1>g, <1>7 DEF Books
    <3>3. CASE cur # "PAID" /\ to = "PAID"
      <4>1. paid = PaidOf(rows, o) + n /\ (o \in cancelled => "late" \in odd'[o])
        BY <3>3, <3>p, <1>5, <1>k, <1>7
      <4>2. CASE n < 0
        <5>1. "corrected" \in odd'[o] \/ ("refunded" \in odd'[o] /\ "reversed" \in odd'[o])
          BY <4>2, <3>3, <1>e, <1>n, <1>s, <1>7 DEF Explained
        <5>2. Plus(paid, Total) <= Plus(PaidOf(rows, o), Total) /\ Plus(paid, Total) \in Int
              /\ Plus(PaidOf(rows, o), Total) \in Int /\ odd[o] \subseteq odd'[o]
          BY <4>1, <4>2, <3>p, <1>7, PlusGrows
        <5>3. odd'[o] \cap {"twice", "credited", "restored"} = {}
                => granted[o] + g >= Plus(paid, Total)
          BY <5>2, <2>2, <1>g DEF Books
        <5>. QED BY <5>1, <5>3, <4>1 DEF Books
      <4>3. CASE n >= 0 /\ seen = "PAID"
        <5>1. "twice" \in odd'[o]
          BY <4>3, <3>3, <1>k, <1>7
        <5>. QED BY <5>1, <4>1, <4>3, <2>2, <3>p, <1>7 DEF Books
      <4>4. CASE n >= 0 /\ seen # "PAID"
        <5>1. g = Plus(PaidOf(rows, o) + n, Total) - Plus(PaidOf(rows, o), Total)
          <6>1. g = Marginal(PaidOf(rows, o), n)
            BY <4>1, <4>4, <3>3, <3>p, <1>g
          <6>. QED BY <6>1, <4>4, <3>p DEF Marginal, Plus
        <5>2. Plus(PaidOf(rows, o), Total) \in Int /\ Plus(PaidOf(rows, o) + n, Total) \in Int
          BY <3>p DEF Plus
        <5>. QED BY <5>1, <5>2, <4>1, <4>4, <2>2, <3>p, <1>7 DEF Books
      <4>. QED BY <4>2, <4>3, <4>4
    <3>. QED BY <3>1, <3>2, <3>3
  <2>. QED BY <2>1, <2>3, <1>1, <1>6, BooksStep DEF MoneyInv, paid
<1>. QED BY <1>6, <1>g, <1>8, <1>9, <1>10, <1>11, BalanceInt DEF MoneyInv

LEMMA RefundCommitKeeps ==
  ASSUME MoneyInv, NEW c \in Calls, RefundCommit(c)
  PROVE  MoneyInv'
<1>v. call[c].op = "refund" /\ call[c] \in RefundCalls
  BY DEF RefundCommit, MoneyInv, MoneyTyped, CallSet, VerifyCalls, RefundCalls,
         TargetCalls, CancelCalls, NoCall
<1>o. PICK o \in Orders, n \in Int, seen \in Int, too \in BOOLEAN :
        /\ o = call[c].order /\ n = call[c].amount /\ seen = call[c].seen
        /\ too <=> call[c].goal = "cancelToo"
        /\ 0 < n /\ n <= seen /\ (too => n = seen)
  BY <1>v DEF RefundCalls, MoneyInv, CallsKept
<1> DEFINE kinds == {"refunded"} \cup If(Paid(o) < seen, "overlap")
                    \cup If(too /\ Paid(o) > seen, "late")
           next == IF call[c].goal = "target" THEN [op |-> "target", order |-> o] ELSE NoCall
<1>1. /\ Free # {} /\ Append1(o, -n, "PAID") /\ Note(o, kinds)
      /\ call' = [call EXCEPT ![c] = next] /\ UNCHANGED <<granted, spent>>
      /\ too => /\ cancelled' = cancelled \cup {o}
                /\ status' = [status EXCEPT ![o] = "REFUNDED"]
      /\ ~too => UNCHANGED <<cancelled, status>>
  BY <1>o DEF RefundCommit
<1>x. next \in CallSet /\ next.op \in {"target", "idle"}
  BY DEF CallSet, TargetCalls, NoCall
<1>k. /\ kinds \in SUBSET Odd /\ "refunded" \in kinds
      /\ Paid(o) < seen => "overlap" \in kinds
      /\ too /\ Paid(o) > seen => "late" \in kinds
  BY IfAdds DEF Odd
<1>p. Paid(o) \in Int /\ -n \in Int
  BY PaidInt DEF Paid, MoneyInv, MoneyTyped
<1> HIDE DEF kinds, next
<1>3. /\ rows' \in [Ids -> RowSet \cup {NoRow}]
      /\ \A p \in Orders : PaidOf(rows', p) = PaidOf(rows, p) + IF p = o THEN -n ELSE 0
  BY <1>1, <1>p, NewRow DEF MoneyInv
<1>5. /\ odd' \in [Orders -> SUBSET Odd] /\ Noted
      /\ odd'[o] = odd[o] \cup kinds
      /\ \A p \in Orders \ {o} : odd'[p] = odd[p]
  BY <1>1, <1>k, NoteAdds DEF MoneyInv
<1>7. NegativeRows' /\ RowsStay
  <2>1. Explained([order |-> o, amount |-> -n, st |-> "PAID"], odd'[o])
    BY <1>k, <1>5 DEF Explained
  <2>. QED BY <2>1, <1>p, <1>1, <1>5, NewRowKept DEF MoneyInv
<1>8. /\ CallsKept'
      /\ call' \in [Calls -> CallSet]
  <2>1. CallsKept'
    BY <1>1, <1>7, <1>x, CallsStep DEF MoneyInv
  <2>. QED BY <2>1, <1>1, <1>x DEF MoneyInv, MoneyTyped
<1>c. /\ cancelled' \subseteq Orders
      /\ \A p \in Orders \ {o} : p \in cancelled' <=> p \in cancelled
      /\ o \in cancelled' => o \in cancelled \/ too
  BY <1>1 DEF MoneyInv, MoneyTyped
<1>s. status' \in [Orders -> {"PAYMENT_PENDING", "PARTIAL_PAID", "PAID", "REFUNDED",
                               "PARTIAL_REFUNDED"}]
  BY <1>1 DEF MoneyInv, MoneyTyped
<1>6. MoneyTyped'
  BY <1>1, <1>3, <1>5, <1>8, <1>c, <1>s DEF MoneyInv, MoneyTyped
<1>9. BooksKept'
  <2>1. \A p \in Orders \ {o} :
           /\ granted'[p] = granted[p] /\ PaidOf(rows', p) = PaidOf(rows, p)
           /\ odd'[p] = odd[p] /\ (p \in cancelled' <=> p \in cancelled)
    <3>1. \A p \in Orders : PaidOf(rows, p) \in Int
      BY PaidInt DEF MoneyInv, MoneyTyped
    <3>. QED BY <3>1, <1>1, <1>3, <1>5, <1>c
  <2>2. Books(granted[o], Paid(o), odd[o], o \in cancelled)
    BY DEF MoneyInv, BooksKept, Paid
  <2>3. PaidOf(rows', o) = Paid(o) - n
    BY <1>3, <1>p DEF Paid
  <2>4. "refunded" \in odd'[o] /\ odd[o] \subseteq odd'[o]
        /\ (Paid(o) < seen => "overlap" \in odd'[o])
        /\ (too /\ Paid(o) > seen => "late" \in odd'[o])
    BY <1>5, <1>k
  <2>5. odd'[o] \cap {"overlap", "reversed", "corrected"} = {} => Paid(o) - n >= 0
    BY <2>4, <1>o, <1>p
  <2>6. o \in cancelled' /\ odd'[o] \cap {"kept", "late", "reversed", "ungated"} = {}
          => Paid(o) - n <= 0
    <3>1. CASE too
      BY <3>1, <2>4, <1>o, <1>p
    <3>2. CASE ~too
      BY <3>2, <2>2, <2>4, <1>o, <1>p, <1>c DEF Books
    <3>. QED BY <3>1, <3>2
  <2>7. odd'[o] \cap {"twice", "credited", "restored"} = {}
          => granted[o] >= Plus(PaidOf(rows', o), Total)
    <3>1. Plus(PaidOf(rows', o), Total) <= Plus(Paid(o), Total)
          /\ Plus(PaidOf(rows', o), Total) \in Int /\ Plus(Paid(o), Total) \in Int
      BY <2>3, <1>o, <1>p, PlusGrows
    <3>2. granted[o] \in Int
      BY DEF MoneyInv, MoneyTyped
    <3>. QED BY <3>1, <3>2, <2>2, <2>4 DEF Books
  <2>8. Books(granted'[o], PaidOf(rows', o), odd'[o], o \in cancelled')
    BY <2>3, <2>4, <2>5, <2>6, <2>7, <1>1 DEF Books
  <2>. QED BY <2>1, <2>8, BooksStep DEF MoneyInv
<1>b. Balance' = Balance
  BY <1>1 DEF Balance
<1>. QED BY <1>b, <1>6, <1>7, <1>8, <1>9 DEF MoneyInv

LEMMA CancelCommitKeeps ==
  ASSUME MoneyInv, NEW c \in Calls, CancelCommit(c)
  PROVE  MoneyInv'
<1>v. call[c] \in CancelCalls
  BY DEF CancelCommit, MoneyInv, MoneyTyped, CallSet, VerifyCalls, RefundCalls,
         TargetCalls, CancelCalls, NoCall
<1>o. PICK o \in Orders, keep \in BOOLEAN : o = call[c].order /\ keep = call[c].keep
  BY <1>v DEF CancelCalls
<1> DEFINE kinds == If(Paid(o) > 0, IF keep THEN "kept" ELSE "late")
<1>1. /\ cancelled' = cancelled \cup {o} /\ Note(o, kinds)
      /\ call' = [call EXCEPT ![c] = NoCall] /\ UNCHANGED <<rows, status, granted, spent>>
  BY <1>o DEF CancelCommit, End
<1>k. /\ kinds \subseteq {"kept", "late"} /\ kinds \in SUBSET Odd
      /\ Paid(o) > 0 => kinds # {}
  BY IfAdds DEF Odd
<1>p. PaidOf(rows, o) \in Int /\ Paid(o) = PaidOf(rows, o)
  BY PaidInt DEF Paid, MoneyInv, MoneyTyped
<1> HIDE DEF kinds
<1>5. /\ odd' \in [Orders -> SUBSET Odd] /\ Noted
      /\ odd'[o] = odd[o] \cup kinds
      /\ \A p \in Orders \ {o} : odd'[p] = odd[p]
  BY <1>1, <1>k, NoteAdds DEF MoneyInv
<1>7. NegativeRows' /\ RowsStay
  <2>1. RowsStay
    BY <1>1 DEF RowsStay
  <2>2. ASSUME NEW r \in Ids, rows[r] # NoRow PROVE Explained(rows[r], odd'[rows[r].order])
    <3>1. rows[r].order \in Orders /\ Explained(rows[r], odd[rows[r].order])
      BY <2>2 DEF MoneyInv, MoneyTyped, RowSet, NegativeRows
    <3>. QED BY <3>1, <1>5 DEF Explained, Noted
  <2>. QED BY <2>1, <2>2, <1>1 DEF NegativeRows
<1>8. /\ CallsKept'
      /\ call' \in [Calls -> CallSet]
  BY <1>1, <1>7, CallEnds DEF MoneyInv
<1>6. MoneyTyped'
  BY <1>1, <1>5, <1>8 DEF MoneyInv, MoneyTyped
<1>9. BooksKept'
  <2>1. \A p \in Orders \ {o} :
           /\ granted'[p] = granted[p] /\ PaidOf(rows', p) = PaidOf(rows, p)
           /\ odd'[p] = odd[p] /\ (p \in cancelled' <=> p \in cancelled)
    BY <1>1, <1>5
  <2>2. Books(granted[o], PaidOf(rows, o), odd[o], o \in cancelled)
    BY DEF MoneyInv, BooksKept
  <2>3. Books(granted'[o], PaidOf(rows', o), odd'[o], o \in cancelled')
    <3>1. /\ granted'[o] = granted[o] /\ PaidOf(rows', o) = PaidOf(rows, o)
          /\ odd[o] \subseteq odd'[o]
      BY <1>1, <1>5
    <3>2. PaidOf(rows, o) > 0 => "kept" \in odd'[o] \/ "late" \in odd'[o]
      BY <1>5, <1>k, <1>p
    <3>. QED BY <2>2, <3>1, <3>2, <1>p DEF Books
  <2>. QED BY <2>1, <2>3, BooksStep DEF MoneyInv
<1>b. Balance' = Balance
  BY <1>1 DEF Balance
<1>. QED BY <1>b, <1>6, <1>7, <1>8, <1>9 DEF MoneyInv

LEMMA TargetCommitKeeps ==
  ASSUME MoneyInv, NEW c \in Calls, TargetCommit(c)
  PROVE  MoneyInv'
<1>v. call[c] \in TargetCalls
  BY DEF TargetCommit, MoneyInv, MoneyTyped, CallSet, VerifyCalls, RefundCalls,
         TargetCalls, CancelCalls, NoCall
<1>o. PICK o \in Orders : o = call[c].order
  BY <1>v DEF TargetCalls
<1> DEFINE kinds == If(Paid(o) > 0, "ungated")
<1>1. /\ cancelled' = cancelled \cup {o} /\ Note(o, kinds)
      /\ call' = [call EXCEPT ![c] = NoCall] /\ UNCHANGED <<rows, granted, spent>>
      /\ \E st \in {"REFUNDED", "PARTIAL_REFUNDED"} : status' = [status EXCEPT ![o] = st]
  BY <1>o DEF TargetCommit, End
<1>k. /\ kinds \subseteq {"ungated"} /\ kinds \in SUBSET Odd
      /\ Paid(o) > 0 => kinds # {}
  BY IfAdds DEF Odd
<1>p. PaidOf(rows, o) \in Int /\ Paid(o) = PaidOf(rows, o)
  BY PaidInt DEF Paid, MoneyInv, MoneyTyped
<1> HIDE DEF kinds
<1>5. /\ odd' \in [Orders -> SUBSET Odd] /\ Noted
      /\ odd'[o] = odd[o] \cup kinds
      /\ \A p \in Orders \ {o} : odd'[p] = odd[p]
  BY <1>1, <1>k, NoteAdds DEF MoneyInv
<1>7. NegativeRows' /\ RowsStay
  <2>1. RowsStay
    BY <1>1 DEF RowsStay
  <2>2. ASSUME NEW r \in Ids, rows[r] # NoRow PROVE Explained(rows[r], odd'[rows[r].order])
    <3>1. rows[r].order \in Orders /\ Explained(rows[r], odd[rows[r].order])
      BY <2>2 DEF MoneyInv, MoneyTyped, RowSet, NegativeRows
    <3>. QED BY <3>1, <1>5 DEF Explained, Noted
  <2>. QED BY <2>1, <2>2, <1>1 DEF NegativeRows
<1>8. /\ CallsKept'
      /\ call' \in [Calls -> CallSet]
  BY <1>1, <1>7, CallEnds DEF MoneyInv
<1>6. MoneyTyped'
  BY <1>1, <1>5, <1>8 DEF MoneyInv, MoneyTyped
<1>9. BooksKept'
  <2>1. \A p \in Orders \ {o} :
           /\ granted'[p] = granted[p] /\ PaidOf(rows', p) = PaidOf(rows, p)
           /\ odd'[p] = odd[p] /\ (p \in cancelled' <=> p \in cancelled)
    BY <1>1, <1>5
  <2>2. Books(granted[o], PaidOf(rows, o), odd[o], o \in cancelled)
    BY DEF MoneyInv, BooksKept
  <2>3. Books(granted'[o], PaidOf(rows', o), odd'[o], o \in cancelled')
    <3>1. /\ granted'[o] = granted[o] /\ PaidOf(rows', o) = PaidOf(rows, o)
          /\ odd[o] \subseteq odd'[o]
      BY <1>1, <1>5
    <3>2. PaidOf(rows, o) > 0 => "ungated" \in odd'[o]
      BY <1>5, <1>k, <1>p
    <3>. QED BY <2>2, <3>1, <3>2, <1>p DEF Books
  <2>. QED BY <2>1, <2>3, BooksStep DEF MoneyInv
<1>b. Balance' = Balance
  BY <1>1 DEF Balance
<1>. QED BY <1>b, <1>6, <1>7, <1>8, <1>9 DEF MoneyInv

LEMMA AbortKeeps ==
  ASSUME MoneyInv, NEW c \in Calls, Abort(c)
  PROVE  MoneyInv'
<1>1. /\ call' = [call EXCEPT ![c] = NoCall]
      /\ UNCHANGED <<rows, status, cancelled, granted, spent, odd>>
  BY DEF Abort
<1>2. RowsStay
  BY <1>1 DEF RowsStay
<1>3. /\ CallsKept'
      /\ call' \in [Calls -> CallSet]
  BY <1>1, <1>2, CallEnds DEF MoneyInv
<1>. QED BY <1>1, <1>3 DEF MoneyInv, MoneyTyped, NegativeRows, Explained, Balance, BooksKept, Books

-----------------------------------------------------------------------------
LEMMA InitMoney == Init => MoneyInv
<1>. SUFFICES ASSUME Init PROVE MoneyInv
  OBVIOUS
<1>1. MoneyTyped
  BY DEF Init, MoneyTyped, Odd, CallSet
<1>2. CallsKept /\ NegativeRows
  BY DEF Init, CallsKept, NegativeRows, NoCall
<1>3. Balance = 0
  BY MoneyAssumption, TotalZero DEF MoneyAssumption, Init, Balance
<1>4. ASSUME NEW o \in Orders PROVE PaidOf(rows, o) = 0
  <2>1. [r \in Ids |-> Worth(rows[r], o, {"PAID"})] = [r \in Ids |-> 0]
    BY DEF Init, Worth, NoRow
  <2>2. SumFunction([r \in Ids |-> 0]) = 0
    BY TotalAndRows, TotalZero
  <2>. QED BY <2>1, <2>2 DEF PaidOf
<1>5. BooksKept
  <2>1. ASSUME NEW o \in Orders
        PROVE  Books(granted[o], PaidOf(rows, o), odd[o], o \in cancelled)
    <3>1. granted[o] = 0 /\ PaidOf(rows, o) = 0 /\ o \notin cancelled
      BY <1>4 DEF Init
    <3>2. Plus(0, Total) = 0
      BY TotalAndRows DEF Plus
    <3>. QED BY <3>1, <3>2 DEF Books
  <2>. QED BY <2>1 DEF BooksKept
<1>. QED BY <1>1, <1>2, <1>3, <1>5 DEF MoneyInv

LEMMA StepMoney == MoneyInv /\ [Next]_vars => MoneyInv'
<1>. SUFFICES ASSUME MoneyInv, [Next]_vars PROVE MoneyInv'
  OBVIOUS
<1>1. ASSUME NEW o \in Orders, Paying(o) PROVE MoneyInv'
  BY <1>1, CreateKeeps, ApplyCreditKeeps DEF Paying
<1>2. ASSUME NEW c \in Calls, Asking(c) \/ Committing(c) \/ Abort(c) PROVE MoneyInv'
  BY <1>2, AskingKeeps, VerifyCommitKeeps, RefundCommitKeeps, TargetCommitKeeps,
     CancelCommitKeeps, AbortKeeps
     DEF Committing
<1>3. CASE UNCHANGED vars
  BY <1>3 DEF vars, MoneyInv, MoneyTyped, CallsKept, NegativeRows, Explained, Balance,
              BooksKept, Books
<1>. QED BY <1>1, <1>2, <1>3 DEF Next

(* No sequence of payments, verifications, refunds and give-ups spends     *)
(* credit that no payment earned: applyCredit cuts to the balance under    *)
(* the customer's lock (CustomerCreditService.applyCredit), and nothing    *)
(* takes a grant back.                                                     *)
THEOREM CreditNeverOverspent == Spec => []TypeOK
<1>1. MoneyInv => TypeOK
  BY BalanceInt DEF MoneyInv, MoneyTyped, TypeOK, RowSet, NoRow, CallSet, VerifyCalls,
                    RefundCalls, TargetCalls, CancelCalls, NoCall
<1>. QED BY InitMoney, StepMoney, <1>1, PTL DEF Spec

(* What is paid beyond an order's total is credited, in whatever order its *)
(* payments are entered, verified, rejected, approved after all, refunded  *)
(* or corrected: each grants what its own row adds to the excess           *)
(* (grantFromOverpayment).  And not twice, as long as nothing is taken off *)
(* the order again.  GrantsMatchExcess names what is exempt: a payment     *)
(* that is rejected and approved again is granted again.                   *)
THEOREM ExcessEarnsOnce == Spec => []GrantsMatchExcess
<1>1. MoneyInv => GrantsMatchExcess
  BY DEF MoneyInv, BooksKept, Books, GrantsMatchExcess, Paid
<1>. QED BY InitMoney, StepMoney, <1>1, PTL DEF Spec

(* Refunds that do not overlap never pay back more than was collected,     *)
(* although RefundsService.create compares with a balance it read before   *)
(* its transaction: meanwhile money only comes in, unless a payment is     *)
(* rejected after the fact or corrected by hand.                           *)
THEOREM NeverOverRefunded == Spec => []RefundsWithinPaid
<1>1. MoneyInv => RefundsWithinPaid
  BY DEF MoneyInv, BooksKept, Books, RefundsWithinPaid, Paid
<1>. QED BY InitMoney, StepMoney, <1>1, PTL DEF Spec

(* A cancelled order keeps no money that was there when its balance was    *)
(* read (assertNoOutstandingForCancel, or a refund in full), unless staff  *)
(* chose to keep it, a row was rejected after its approval, or the order   *)
(* was cancelled by a refund's target status, which looks at no balance.   *)
THEOREM CancelledKeepsNothing == Spec => []CancelledIsSettled
<1>1. MoneyInv => CancelledIsSettled
  BY DEF MoneyInv, MoneyTyped, BooksKept, Books, CancelledIsSettled, Paid
<1>. QED BY InitMoney, StepMoney, <1>1, PTL DEF Spec
=============================================================================
