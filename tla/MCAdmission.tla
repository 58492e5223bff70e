---------------------------- MODULE MCAdmission ----------------------------
(***************************************************************************)
(* Deployments of Admission: goroutines 1..6, the first three of principal *)
(* "a", two of "b", one of "c".                                            *)
(***************************************************************************)
EXTENDS Admission

MCPrincipals == {"a", "b", "c"}
MCRequests == 1 .. 6
MCPrincipalOf == [r \in MCRequests |-> IF r <= 3 THEN "a" ELSE IF r <= 5 THEN "b" ELSE "c"]

NoQuotas == [p \in MCPrincipals |-> 0]

\* The default share of a queue of four.
Shares == [depth |-> 4, inFlight |-> 0, multi |-> TRUE, quota |-> 0, quotaOf |-> NoQuotas,
           conns |-> 1 .. 5, lastMinute |-> 0]
\* A share as large as the queue, so that only the reserve holds a principal back.
WideShares == [Shares EXCEPT !.depth = 3, !.inFlight = 3, !.conns = {1, 2, 3, 4, 6}]
\* A single operator: no shares, and quotas over a change of minute.
Quotas == [Shares EXCEPT !.depth = 1, !.multi = FALSE, !.quota = 1,
                         !.quotaOf = [NoQuotas EXCEPT !["a"] = 2],
                         !.conns = {1, 2, 4}, !.lastMinute = 1]
MCConfs == {Shares, WideShares, Quotas}

=============================================================================
