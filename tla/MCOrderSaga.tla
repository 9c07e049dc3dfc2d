----------------------------- MODULE MCOrderSaga -----------------------------
(* A small instance of OrderSaga for TLC: one order, cash on delivery or    *)
(* card, split across two sellers.                                          *)
EXTENDS OrderSaga, TLC

CONSTANTS o1, s1, s2

MCSellersOf == o1 :> {s1, s2}
=============================================================================
