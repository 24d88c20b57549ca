--------------------------- MODULE EmploymentLedger ---------------------------
(***************************************************************************)
(* What the employment-change module promises, without its handlers: each  *)
(* request has a chain of stages fixed when it is submitted, the stages     *)
(* sign one after the other and no signature is taken back, a request is in *)
(* force only when its whole chain has signed it, and the salary is written *)
(* only for such a request.                                                *)
(***************************************************************************)
EXTENDS Naturals, Sequences

CONSTANTS Reqs, Stages, Amounts

VARIABLES
    chain,    \* request -> the stages that must sign it, in order
    signed,   \* request -> the stages that have signed it
    inForce,  \* request -> approved, scheduled or applied
    salary

ledger == <<chain, signed, inForce, salary>>

FullySigned(r) == \A k \in DOMAIN chain[r] : chain[r][k] \in signed[r]

Init ==
    /\ chain = [r \in Reqs |-> << >>]
    /\ signed = [r \in Reqs |-> {}]
    /\ inForce = [r \in Reqs |-> FALSE]
    /\ salary \in Amounts

Submit(r) ==
    /\ chain[r] = << >>
    /\ signed[r] = {} /\ ~inForce[r]
    /\ chain'[r] \in Seq(Stages)
    /\ chain' = [chain EXCEPT ![r] = chain'[r]]
    /\ UNCHANGED <<signed, inForce, salary>>

Sign(r) ==
    /\ \E k \in DOMAIN chain[r] :
          /\ \A i \in DOMAIN chain[r] : i < k => chain[r][i] \in signed[r]
          /\ signed' = [signed EXCEPT ![r] = @ \cup {chain[r][k]}]
    /\ UNCHANGED <<chain, inForce, salary>>

TakeEffect(r) ==
    /\ FullySigned(r)
    /\ inForce' = [inForce EXCEPT ![r] = TRUE]
    /\ UNCHANGED <<chain, signed, salary>>

Withdraw(r) ==
    /\ inForce' = [inForce EXCEPT ![r] = FALSE]
    /\ UNCHANGED <<chain, signed, salary>>

Pay(r) ==
    /\ FullySigned(r)
    /\ salary' \in Amounts
    /\ UNCHANGED <<chain, signed, inForce>>

Next == \E r \in Reqs : Submit(r) \/ Sign(r) \/ TakeEffect(r) \/ Withdraw(r) \/ Pay(r)

Spec == Init /\ [][Next]_ledger
=============================================================================
