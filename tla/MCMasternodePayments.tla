------------------------ MODULE MCMasternodePayments ------------------------
(* Instance of MasternodePayments for TLC: another masternode, which votes *)
(* twice for height 2, as one does that restarts after a reorganisation.   *)
(* The node's own votes for height 0 are cleaned away, at times uncounted. *)
(* The block value drops at height EarlyEnd, within the instance.          *)
EXTENDS MasternodePayments
CONSTANTS self, m1, p, q
MCMN == {self, m1}
MCPayee == {p, q}
MCQueue == [h \in Height |-> IF h = 2 THEN {p} ELSE {}]
MCNetwork == {VoteOf(m1, 2, p), VoteOf(m1, 2, q)}
=============================================================================
