---------------------------- MODULE CheckoutClaims ----------------------------
(***************************************************************************)
(* What the repository's documents say of the checkout and the code does   *)
(* not keep when requests overlap.                                         *)
(***************************************************************************)
EXTENDS SerialCheckout

\* "Reserve()/Release() already prevent oversell" (ticketing README): the
\* live orders of a type never claim more units than it offers.
NoOversell == \A t \in Types : Ledger!ActiveUnits(t) <= types[t].total
=============================================================================
