--------------------------- MODULE MCLeaveRequest ---------------------------
EXTENDS LeaveRequest, TLC

\* Handlers, requests and balances are interchangeable.
Interchangeable ==
    Permutations(Calls) \cup Permutations(Requests) \cup Permutations(Balances)
=============================================================================
