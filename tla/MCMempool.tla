----------------------------- MODULE MCMempool -----------------------------
(* Instance of Mempool for TLC: a and b spend the same output, c spends a, *)
(* d spends c and the coinbase k1, and s is a coinstake that conflicts     *)
(* with b.                                                                 *)
EXTENDS Mempool
CONSTANTS base, k1, k2, k3, k4, s, a, b, c, d

MCTx == {base, k1, k2, k3, k4, s, a, b, c, d}
MCOutpoint == {<<base, 0>>, <<base, 1>>, <<a, 0>>, <<c, 0>>, <<k1, 0>>, <<s, 0>>}
MCInputs == [t \in MCTx |->
                CASE t = a -> {<<base, 0>>} [] t = b -> {<<base, 0>>, <<base, 1>>} [] t = c -> {<<a, 0>>}
                  [] t = d -> {<<c, 0>>, <<k1, 0>>} [] t = s -> {<<base, 1>>} [] OTHER -> {}]
MCCreator == [o \in MCOutpoint |-> o[1]]
MCGenerated == {base, k1, k2, k3, k4, s}
MCBlockTxs == {<<k>> \o body : k \in {k1, k2, k3, k4}, body \in {<<>>, <<a>>, <<a, c>>, <<b>>, <<s>>, <<s, a>>, <<c, d>>, <<d>>}}
MCBase == <<base>>
=============================================================================
