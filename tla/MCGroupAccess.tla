--------------------------- MODULE MCGroupAccess ---------------------------
(* GroupAccess for TLC: two groups that a made, and c, who may only read.  *)
EXTENDS GroupAccess, TLC

CONSTANTS a, c

TheCreator == [g \in Groups |-> a]
NoneInvited == [g \in Groups |-> <<>>]

Of(u, editor) == [user |-> u, editor |-> editor]
SomeLists == { <<Of(a, TRUE)>>, <<Of(c, FALSE), Of(c, TRUE)>>, <<Of(c, TRUE), Of(a, FALSE)>>,
               <<Of(a, TRUE), Of(c, FALSE)>> }

Symmetry == Permutations(Requests) \cup Permutations(Groups)
=============================================================================
