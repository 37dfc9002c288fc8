------------------------------ MODULE MCBudget ------------------------------
(* Instance of Budget for TLC: the budgets b1, of the proposal p, and b2,  *)
(* of q and p, in the cycle of heights 2 and 3; nobody sends q.  Peers     *)
(* send p and the votes on it with b1, or the two budgets with the votes   *)
(* of both masternodes.  The collateral of b2 is not mature at first.      *)
EXTENDS Budget
CONSTANTS self, m, p, q, b1, b2
MCMN == {self, m}
MCProposal == {p, q}
MCFinSeq == <<b1, b2>>
MCPayments == [b \in Fin |-> IF b = b1 THEN <<p>> ELSE <<q, p>>]
MCStart == [b \in Fin |-> 2]
MCFrom == [x \in Proposal |-> 2]
MCTo == [x \in Proposal |-> 5]
MCAmount == [x \in Proposal |-> 1]
MCMined == [i \in Item |-> IF i = b2 THEN 1 ELSE 0]
V(n, i, t, y) == [mn |-> n, item |-> i, time |-> t, yes |-> y]
MCTraffic == {{p, b1, V(m, p, 0, TRUE), V(self, p, 0, TRUE)},
              {p, V(m, p, 0, TRUE), V(m, p, 2, FALSE), V(self, p, 2, FALSE)},
              {b1, b2, V(m, b1, 0, TRUE), V(self, b1, 0, TRUE), V(m, b2, 0, TRUE)}}
=============================================================================
