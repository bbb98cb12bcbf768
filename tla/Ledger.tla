------------------------------- MODULE Ledger -------------------------------
(***************************************************************************)
(* What a world promises its users about energy and history, with no       *)
(* account record, no files and no caches: a log of charges that only      *)
(* grows, one charge at a time, and a balance that falls by exactly the    *)
(* charge logged and never below zero.  World.tla implements it.           *)
(***************************************************************************)
EXTENDS Integers, Sequences

CONSTANT Cap                \* the energy the world is created with

VARIABLES
    charges,                \* what each event of the log cost, oldest first
    balance                 \* the energy left

ledgerVars == <<charges, balance>>

LedgerInit ==
    /\ charges = <<0>>      \* the Init event is free
    /\ balance = Cap

Charge(mj) ==
    /\ mj \in Nat
    /\ mj <= balance
    /\ charges' = Append(charges, mj)
    /\ balance' = balance - mj

LedgerNext == \E mj \in 0..balance : Charge(mj)

LedgerSpec == LedgerInit /\ [][LedgerNext]_ledgerVars
=============================================================================
