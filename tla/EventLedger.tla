----------------------------- MODULE EventLedger -----------------------------
(***************************************************************************)
(* What delegation promises of the items of a source: each gets its task   *)
(* once, and its answer after that; neither is ever taken back.            *)
(***************************************************************************)
CONSTANTS Item

VARIABLE ledger     \* per item: new, tasked or answered

LedgerInit == ledger = [i \in Item |-> "new"]

Give(i)  == ledger[i] = "new" /\ ledger' = [ledger EXCEPT ![i] = "tasked"]
Reply(i) == ledger[i] = "tasked" /\ ledger' = [ledger EXCEPT ![i] = "answered"]

LedgerNext == \E i \in Item : Give(i) \/ Reply(i)

LedgerSpec == LedgerInit /\ [][LedgerNext]_ledger
=============================================================================
