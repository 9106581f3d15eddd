--------------------------- MODULE MCRateLimiter ---------------------------
(* Small instances of RateLimiter for TLC.                                 *)
EXTENDS RateLimiter, TLC

CONSTANTS a1, a2, t1, t2, alice

(* Two callers of different tenants.                                       *)
MC_TwoTenants == a1 :> t1 @@ a2 :> t2

MC_OneSubject == a1 :> alice @@ a2 :> alice
=============================================================================
