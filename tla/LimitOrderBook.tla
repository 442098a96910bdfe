--------------------------- MODULE LimitOrderBook ---------------------------
(***************************************************************************)
(* What the engine promises: a continuous market with price-time priority. *)
(*                                                                         *)
(* There are no levels, caches, locations, locks or maps here.  Orders     *)
(* wait in one line per symbol, side and price.  One order at a time       *)
(* arrives and trades with the first order of the best line it accepts for *)
(* as long as there is one; what then is left of a limit order goes to the *)
(* end of its own line, and a market order leaves only when it is filled.  *)
(* readme.md promises price-time priority and one writer at a time.        *)
(***************************************************************************)
EXTENDS Order, Sequences, FiniteSetsExt, SequencesExt

CONSTANT MaxOrders   \* bound: orders of a behaviour

VARIABLES
  request,  \* what was asked for, in the order of the requests
  arrived,  \* the orders that reached the market
  filled,   \* what each order has bought or sold
  line,     \* the orders that wait, by symbol, side and price, first first
  taker     \* the order that is trading, if any

bookVars == <<request, arrived, filled, line, taker>>

Orders == 1 .. MaxOrders
Nobody == 0

Left(o) == request[o].quantity - filled[o]

BookInit ==
  /\ request = << >>
  /\ arrived = {}
  /\ filled = [o \in Orders |-> 0]
  /\ line = [s \in Symbols |-> [d \in Sides |-> [p \in Prices |-> << >>]]]
  /\ taker = Nobody

Ask ==
  /\ Len(request) < MaxOrders
  /\ \E r \in Request : request' = Append(request, r)
  /\ UNCHANGED <<arrived, filled, line, taker>>

Arrive(o) ==
  /\ taker = Nobody /\ o \in (1 .. Len(request)) \ arrived
  /\ taker' = o
  /\ arrived' = arrived \cup {o}
  /\ UNCHANGED <<request, filled, line>>

(* The lines an order accepts to trade with, and the one it prefers.       *)
Accepts(r, p) ==
  \/ r.order_type = "Market"
  \/ r.side = "Buy"  /\ p <= r.price
  \/ r.side = "Sell" /\ p >= r.price
Offers(r) ==
  {p \in Prices : line[r.symbol][Opposite(r.side)][p] # << >> /\ Accepts(r, p)}
Best(r, p) ==
  /\ p \in Offers(r)
  /\ \A q \in Offers(r) : IF r.side = "Buy" THEN p <= q ELSE p >= q

Trade ==
  /\ taker # Nobody /\ Left(taker) > 0
  /\ LET r == request[taker]
         d == Opposite(r.side)
     IN  \E p \in Prices :
           LET maker == Head(line[r.symbol][d][p])
               n == IF Left(taker) < Left(maker) THEN Left(taker) ELSE Left(maker)
           IN  /\ Best(r, p)
               /\ filled' = [filled EXCEPT ![taker] = @ + n, ![maker] = @ + n]
               /\ line' = IF n = Left(maker)
                          THEN [line EXCEPT ![r.symbol][d][p] = Tail(@)] ELSE line
  /\ UNCHANGED <<request, arrived, taker>>

(* The taker has all it asked for.                                         *)
Done ==
  /\ taker # Nobody /\ Left(taker) = 0
  /\ taker' = Nobody
  /\ UNCHANGED <<request, arrived, filled, line>>

(* The taker accepts no offer: what is left of a limit order waits.        *)
Rest ==
  /\ taker # Nobody /\ Left(taker) > 0
  /\ LET r == request[taker]
     IN  /\ r.order_type = "Limit"
         /\ Offers(r) = {}
         /\ line' = [line EXCEPT ![r.symbol][r.side][r.price] = Append(@, taker)]
  /\ taker' = Nobody
  /\ UNCHANGED <<request, arrived, filled>>

(* A line is full for order o if what waits there and what is left of o    *)
(* are together more than a u64 can tell.                                  *)
Full(l, o) == MapThenSumSet(Left, ToSet(l)) + Left(o) > U64Max

(* An order that would wait, and cannot because its line is full, is as if *)
(* it never came: it must not have traded.                                 *)
TurnAway ==
  /\ taker # Nobody /\ filled[taker] = 0
  /\ LET r == request[taker]
     IN  /\ r.order_type = "Limit"
         /\ Offers(r) = {}
         /\ Full(line[r.symbol][r.side][r.price], taker)
  /\ taker' = Nobody
  /\ arrived' = arrived \ {taker}
  /\ UNCHANGED <<request, filled, line>>

(* A line without its i-th order.                                          *)
Without(l, i) == SubSeq(l, 1, i - 1) \o SubSeq(l, i + 1, Len(l))

(* A waiting order is taken out, from anywhere in its line.                *)
Withdraw(o) ==
  /\ taker = Nobody /\ o \in arrived
  /\ LET r == request[o]
         l == line[r.symbol][r.side][r.price]
     IN  /\ r.order_type = "Limit"
         /\ \E i \in DOMAIN l :
              /\ l[i] = o
              /\ line' = [line EXCEPT ![r.symbol][r.side][r.price] = Without(l, i)]
  /\ UNCHANGED <<request, arrived, filled, taker>>

Handle == Trade \/ Done \/ Rest \/ TurnAway

BookNext ==
  Ask \/ Handle \/ \E o \in Orders : Arrive(o) \/ Withdraw(o)

BookSpec == BookInit /\ [][BookNext]_bookVars

(* An order that neither trades nor waits may leave its number to a new    *)
(* request: the market of clients that never stop asking.  In it, too, an  *)
(* order that has arrived is dealt with to the end.                        *)
AskAgain(o) ==
  /\ o \in 1 .. Len(request) /\ o # taker
  /\ \A s \in Symbols, d \in Sides, p \in Prices : o \notin ToSet(line[s][d][p])
  /\ \E r \in Request : request' = [request EXCEPT ![o] = r]
  /\ arrived' = arrived \ {o}
  /\ filled' = [filled EXCEPT ![o] = 0]
  /\ UNCHANGED <<line, taker>>

BusyBookSpec ==
  /\ BookInit /\ [][BookNext \/ \E o \in Orders : AskAgain(o)]_bookVars
  /\ WF_bookVars(Handle)
=============================================================================
