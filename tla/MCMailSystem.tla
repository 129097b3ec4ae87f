---------------------------- MODULE MCMailSystem ----------------------------
(* Small instances of MailSystem for TLC. *)
EXTENDS MailSystem, TLC

CONSTANTS i1, i2, m1, m2, l1, r1

(* m1 goes to a local and a remote recipient, m2 to a remote one. *)
MCTo == [m \in Msgs |-> IF m = m1 THEN Rcpts ELSE Rcpts \ {l1}]

(* m1 goes to every recipient, m2 to nobody. *)
MCToOneNone == [m \in Msgs |-> IF m = m1 THEN Rcpts ELSE {}]

MCChannelOf == [r \in Rcpts |-> IF r = l1 THEN "local" ELSE "remote"]

IdSymmetry == Permutations(Ids)

=============================================================================
