----------------------------- MODULE MCSwiftTX -----------------------------
(* Two transactions that spend one output in common.                       *)
EXTENDS SwiftTX, TLC

CONSTANTS t1, t2, o1, o2, m1, m2

MCVin == t1 :> {o1, o2} @@ t2 :> {o1}

(* All are ranked high enough at height 1; at the tip (height 0) and at    *)
(* height 2 one only.  m1 is this node's own masternode.                   *)
MCTopRanked ==
    [h \in Heights |-> CASE h = 0 -> {m1} [] h = 1 -> Masternodes [] OTHER -> {m2}]
=============================================================================
