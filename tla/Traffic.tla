------------------------------ MODULE Traffic ------------------------------
(***************************************************************************)
(* The engine under calls that never stop coming.                          *)
(*                                                                         *)
(* An order that is over, filled, cancelled or turned down, can never be   *)
(* traded or cancelled again, so its number may go to a new order: as many *)
(* submissions and cancellations follow one another as the threads care to *)
(* make, and MaxOrders bounds only how many orders are alive at a time.    *)
(* Threads can then keep order_books busy for ever, which no behaviour of  *)
(* MatchingEngine, with its MaxOrders submissions, can.                    *)
(***************************************************************************)
EXTENDS EngineProperties

(* No thread and no book knows the order o, and its fills are stored.      *)
Over(o) ==
  /\ orders[o].status \notin Active
  /\ \A t \in Tasks : work[t] # o
  /\ \A s \in Symbols : o \notin order_locations[s]
  /\ ~ Waiting(o) /\ filled_qty[o] = 0 /\ o \notin orders_to_remove

(* submit_order of a new order under the number of one that is over.  The  *)
(* trade counter, which no step reads, starts again with it.               *)
SubmitAgain(t) ==
  /\ pc[t] = "idle"
  /\ \E o \in Created, r \in Request :
       /\ Over(o)
       /\ request' = [request EXCEPT ![o] = r]
       /\ orders' = [orders EXCEPT ![o] = Absent]
       /\ work' = [work EXCEPT ![t] = o]
  /\ trade_count' = 0
  /\ Goto(t, "submit")
  /\ UNCHANGED <<books, writer, locals>>

TrafficNext == Next \/ \E t \in Tasks : SubmitAgain(t)

TrafficSpec == Init /\ [][TrafficNext]_vars /\ Fairness

-----------------------------------------------------------------------------
(* Every call returns, though the others take the one lock of all books    *)
(* again and again for ever (engine.rs:105, 159 and 400).                  *)
CallsReturn == \A t \in Tasks : pc[t] # "idle" ~> pc[t] = "idle"

(* The engine is the market with price-time priority under this traffic as *)
(* well, and there an order that has arrived is dealt with to the end: its *)
(* sweep goes on until it is filled or finds no offer, and then it waits   *)
(* in its line (engine.rs:236, 262, 298).                                  *)
ArrivalsAreHandled == Market!BusyBookSpec
=============================================================================
