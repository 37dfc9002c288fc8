--------------------------- MODULE MCBlockChain ---------------------------
(* Instances of BlockChain for TLC: three branches.                        *)
EXTENDS BlockChain
CONSTANTS g, a1, a2, b1, b2, c1

MCBlock == {g, a1, a2, b1, b2, c1}
MCParent == [x \in {a1, a2, b1, b2, c1} |->
                CASE x = a2 -> a1 [] x = b2 -> b1 [] OTHER -> g]
MCAnc == [x \in MCBlock |->
                CASE x = g -> {g} [] x = a1 -> {g, a1} [] x = a2 -> {g, a1, a2}
                  [] x = b1 -> {g, b1} [] x = b2 -> {g, b1, b2} [] x = c1 -> {g, c1}]
MCWork == [x \in MCBlock |->
                CASE x = g -> 0 [] x = a1 -> 1 [] x = c1 -> 2 [] x = b1 -> 3 [] x \in {a2, b2} -> 4]
MCOrders == {[x \in MCBlock |-> IF x = last THEN 2 ELSE 1] : last \in {a2, b2}}
MCInvalid == {b2}
MCNotContextual == {}
MCUnverified == {b1}
MCRefusable == {a2}
=============================================================================
