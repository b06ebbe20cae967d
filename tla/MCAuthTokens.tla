---------------------------- MODULE MCAuthTokens ----------------------------
(* Two people who ask for the same user name. *)
EXTENDS AuthTokens, TLC

CONSTANTS t1, t2, t3, r1, r2, r3, r4

MCUsers == {[name |-> "ann", email |-> "a@x"], [name |-> "ann", email |-> "b@x"]}
MCTokens == {t1, t2, t3}
MCThree == {r1, r2, r3}
MCFour == {r1, r2, r3, r4}
MCSymmetry3 == Permutations(MCTokens) \cup Permutations(MCThree)
MCSymmetry4 == Permutations(MCTokens) \cup Permutations(MCFour)
=============================================================================
