---------------------------- MODULE AttemptLedger ----------------------------
(***************************************************************************)
(* What task dispatch promises of the attempts of a task: each time a row  *)
(* is queued an attempt opens, and an open attempt ends once, either       *)
(* claimed by a dispatcher, which alone may submit it to the runtime, or   *)
(* closed without a claim.  Nothing reopens it.                            *)
(***************************************************************************)
EXTENDS Naturals

CONSTANTS Task, MaxAttempts

VARIABLE ledger     \* per task and attempt: unborn, open, claimed or closed

Attempt == 1 .. MaxAttempts
Entries == {"unborn", "open", "claimed", "closed"}

LedgerInit == ledger = [t \in Task |-> [k \in Attempt |-> "unborn"]]

\* The next attempt opens; one still open is superseded.
Open(t, k) ==
    /\ ledger[t][k] = "unborn"
    /\ \A j \in Attempt : j < k => ledger[t][j] # "unborn"
    /\ ledger' = [ledger EXCEPT ![t] = [j \in Attempt |->
            IF j = k THEN "open" ELSE IF ledger[t][j] = "open" THEN "closed" ELSE ledger[t][j]]]

End(t, k, entry) ==
    /\ ledger[t][k] = "open"
    /\ ledger' = [ledger EXCEPT ![t][k] = entry]

LedgerNext == \E t \in Task, k \in Attempt :
    Open(t, k) \/ End(t, k, "claimed") \/ End(t, k, "closed")

LedgerSpec == LedgerInit /\ [][LedgerNext]_ledger
=============================================================================
