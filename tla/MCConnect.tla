----------------------------- MODULE MCConnect -----------------------------
(* Instances of Connect and Listen for TLC: a dual-stack host whose        *)
(* addresses are sorted, family by family, with those of a second SRV      *)
(* target behind them, or whose addresses alternate.                       *)
EXTENDS Listen

Sorted == [p \in Path |-> IF p \in {3, 4} THEN "INET" ELSE "INET6"]

Alternating == [p \in Path |-> IF p % 2 = 1 THEN "INET6" ELSE "INET"]

Streams == {[sequential |-> FALSE, datagram |-> FALSE, local |-> FALSE, mandatory |-> FALSE]}
=============================================================================
