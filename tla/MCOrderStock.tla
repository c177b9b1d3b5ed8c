---------------------------- MODULE MCOrderStock ----------------------------
(* Instances of OrderStock for TLC: quantities, entry points and the       *)
(* statuses actors ask for are given here, sizes in the .cfg files.        *)
EXTENDS OrderStock, TLC

CONSTANTS o1, o2, w1, w2

Symmetry == Permutations(Workers)

OneEach == [o \in Orders |-> 1]

(* Handlers of o1 race with each other, o2 competes for the product.       *)
RaceEntries ==
  [o \in Orders |-> IF o = o1
                    THEN {"create", "staff", "customer", "board", "return"}
                    ELSE {"create"}]

RaceStatuses ==
  [o \in Orders |-> {"Confirmed", "Delivered", "Return Pending", "Cancelled"}]

RaceBoard == {"HANDED_OVER", "CANCELLED"}

(* One handler of an order at a time: o1 lives its whole life, o2 is an    *)
(* order without a courier that competes for the product.                  *)
LifeEntries ==
  [o \in Orders |-> IF o = o1
                    THEN {"create", "staff", "courier", "board", "return"}
                    ELSE {"create", "staff", "trash"}]

LifeStatuses ==
  [o \in Orders |-> IF o = o1
                    THEN {"Hold", "Confirmed", "Packed", "Delivered", "Return Pending",
                          "Returned", "Cancelled"}
                    ELSE {"Cancelled"}]

LifeBoard ==
  {"HANDED_OVER", "HOLD", "PICKUP_FAILED", "DELIVERED", "RETURN_PENDING", "CANCELLED"}

(* Scenes in which the code departs from what its comments say.            *)
TwoEach == [o \in Orders |-> 2]

CounterEntries == [o \in Orders |-> {"create", "staff", "board"}]
CustomerEntries == [o \in Orders |-> {"create", "staff", "customer", "board"}]
ReturnEntries == [o \in Orders |-> {"create", "staff", "return"}]

ShopStatuses ==
  [o \in Orders |-> {"Confirmed", "Packed", "Shipping", "Delivered", "Cancelled"}]

ShopBoard == {"HANDED_OVER", "HOLD", "DELIVERED", "CANCELLED"}
=============================================================================
