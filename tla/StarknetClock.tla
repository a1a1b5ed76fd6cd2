--------------------------- MODULE StarknetClock ---------------------------
(***************************************************************************)
(* The block timestamp every contract of the project reads with            *)
(* get_block_timestamp().  Starknet is external: the contracts only ever   *)
(* compare its clock with stored times, so all that matters is that it     *)
(* never goes back.  A transaction does not advance it; blocks do.         *)
(***************************************************************************)
EXTENDS Naturals

CONSTANT MaxTime    \* bound on the clock, for TLC

ASSUME MaxTimeAssumption == MaxTime \in Nat

VARIABLE now

ClockInit == now = 0

Tick == now < MaxTime /\ now' = now + 1

=============================================================================
