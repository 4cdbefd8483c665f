------------------------------ MODULE MCClient ------------------------------
(* Client and its contract, with a read and a mutating method.              *)
EXTENDS ClientContract

MCMethods == {"GET", "PATCH"}

\* two callers, one with unsafe retries: one status of each class and two kinds
\* of body suffice
OneUnsafe == LET u == CHOOSE c \in Callers : TRUE IN [c \in Callers |-> c = u]
FewStatuses == {200, 304, 401, 404, 412, 503}
FewBodies == {"good", "broken"}

\* one caller with the default policy: everything
NoneUnsafe == [c \in Callers |-> FALSE]
AllStatuses == FewStatuses \cup {302, 429, 502, 504}
AllBodies == {"empty", "good", "malformed", "oversize", "broken"}
=============================================================================
