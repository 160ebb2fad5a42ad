----------------------------- MODULE MCFastCache -----------------------------
(* Instance of FastCache: a process on each of two servers, which serves one *)
(* request after the other.  After a race the properties promise nothing:    *)
(* such states are not extended.                                             *)
EXTENDS FastCache, TLC

CONSTANTS p1, p2, s1, s2

MCHost == p1 :> s1 @@ p2 :> s2
NotRaced == ~raced

\* The two servers, each with its process, can be exchanged.
Exchange  == p1 :> p2 @@ p2 :> p1 @@ s1 :> s2 @@ s2 :> s1
Symmetric == {Exchange}
=============================================================================
