--------------------------- MODULE MCCoinsCache ---------------------------
(* Instances of CoinsCache for TLC.                                        *)
EXTENDS CoinsCache
CONSTANTS t1, t2, c1, c2, g, b1, b2

MCTxid == {t1, t2}
MCCoins == {c1, c2}
MCBlock == {g, b1, b2}
=============================================================================
