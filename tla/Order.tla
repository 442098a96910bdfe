------------------------------- MODULE Order -------------------------------
(***************************************************************************)
(* Orders of the matching engine (src/src/models/order.rs).                *)
(*                                                                         *)
(* A program Order mixes fields fixed by its request (symbol, side, type,  *)
(* price, quantity) with two fields that change: filled_quantity and       *)
(* status.  The program clones orders: the incoming order, its clone in a  *)
(* price level and its clone in the status map evolve separately.  Here    *)
(* the fixed part is a request record, shared by every clone, and each     *)
(* clone is a copy record [filled, status] of its own.                     *)
(***************************************************************************)
EXTENDS Integers

CONSTANTS
  Symbols,     \* the symbols orders are submitted for
  NoSymbol,    \* the empty string, which is no symbol
  Prices,      \* the limit prices requests carry
  Quantities,  \* the quantities requests carry
  U64Max       \* the largest u64

ASSUME DomainAssumption ==
  /\ U64Max \in Nat
  /\ Prices \subseteq 1 .. U64Max
  /\ Quantities \subseteq 1 .. U64Max
  /\ NoSymbol \notin Symbols

Sides == {"Buy", "Sell"}
OrderTypes == {"Limit", "Market"}
Opposite(side) == IF side = "Buy" THEN "Sell" ELSE "Buy"

NoPrice == -1   \* Option<u64>::None

(* What a client may send, requests that validation refuses included.      *)
CreateOrderRequest ==
  [symbol : Symbols \cup {NoSymbol}, side : Sides, order_type : OrderTypes,
   price : Prices \cup {NoPrice, 0}, quantity : Quantities \cup {0}]

Validate(r) ==
  /\ r.symbol # NoSymbol
  /\ r.quantity # 0
  /\ \/ r.order_type = "Limit"  /\ r.price \notin {NoPrice, 0}
     \/ r.order_type = "Market" /\ r.price = NoPrice

Request == {r \in CreateOrderRequest : Validate(r)}

(* The first check that refuses a request r, by its message.               *)
Refusal(r) ==
  IF r.symbol = NoSymbol THEN "Symbol cannot be empty"
  ELSE IF r.quantity = 0 THEN "Quantity must be positive"
  ELSE IF r.order_type = "Market" THEN "Price should not be specified for MARKET orders"
  ELSE IF r.price = NoPrice THEN "Price is required for LIMIT orders"
  ELSE "Price must be positive"

(***************************************************************************)
(* Copies.  "Absent" marks an id that a map or a queue does not hold.      *)
(***************************************************************************)
OrderStatus == {"Accepted", "PartialFill", "Filled", "Cancelled"}
Copy == [filled : Nat, status : OrderStatus \cup {"Absent"}]

Absent == [filled |-> 0, status |-> "Absent"]
NewOrder == [filled |-> 0, status |-> "Accepted"]
Active == {"Accepted", "PartialFill"}

SaturatingSub(a, b) == IF a >= b THEN a - b ELSE 0

RemainingQuantity(r, c) == SaturatingSub(r.quantity, c.filled)
IsFilled(r, c) == c.filled >= r.quantity

Fill(r, c, n) ==
  LET filled == c.filled + n
  IN  [filled |-> filled,
       status |-> IF filled >= r.quantity THEN "Filled"
                  ELSE IF filled > 0 THEN "PartialFill" ELSE c.status]

(* Mutant: a cancelled order forgets its fills.                            *)
CancelAndForget(c) == [filled |-> 0, status |-> "Cancelled"]

Cancel(c) == [c EXCEPT !.status = "Cancelled"]
=============================================================================
