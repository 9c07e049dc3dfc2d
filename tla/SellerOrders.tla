----------------------------- MODULE SellerOrders -----------------------------
(* The seller orders that order-saga has placed with sellers, as the other  *)
(* services know them: opaque references, the seller and the amount due.    *)

CONSTANTS
  Deals,       \* seller_orders.id
  SellerOf,    \* seller_orders.seller_id
  Expected     \* seller_orders.subtotal_cents
=============================================================================
