----------------------------- MODULE MCIceAgent -----------------------------
(* Two addresses on each side, of which any three become candidates: c2 is  *)
(* worse than c1, s2 better than s1, and a pair can be listed twice.        *)
EXTENDS IceAgent
MCPriority == [x \in Local \cup Remote |->
    CASE x = "s2" -> 3 [] x = "c1" -> 2 [] OTHER -> 1]
============================================================================
