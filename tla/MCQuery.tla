------------------------------ MODULE MCQuery ------------------------------
(* Instances of Query for TLC.  The backends are positions of a list such  *)
(* as "unix|+dns|avahi" (1, 2, 3), of which dns and avahi keep a state     *)
(* object.                                                                 *)
EXTENDS Query

(* Every backend handles every request type, as dns does.                  *)
AllTypes == [t \in Type |-> Backend]

(* The first backend handles forward requests only, as unix does.          *)
FirstForwardOnly == [t \in Type |-> IF t = "FORWARD" THEN Backend ELSE Backend \ {1}]
=============================================================================
