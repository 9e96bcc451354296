-------------------------- MODULE MCCompletionPort --------------------------
(* Small instances of CompletionPort for TLC.                              *)
EXTENDS CompletionPort

\* A hash that tells all connections apart, and one that tells none.
DistinctIds == [c \in Client |-> c]
CollidingIds == [c \in Client |-> CHOOSE id \in Id : TRUE]
=============================================================================
