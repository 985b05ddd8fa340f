----------------------------- MODULE MCRateLimiter -----------------------------
(* Small instances of RateLimiter. *)
EXTENDS RateLimiter

CONSTANTS MCLimit, MCSeconds, MCValidToken

MCClasses == {"ingress", "health"}
MCValid   == [c \in MCClasses |-> IF c = "ingress" THEN MCValidToken ELSE NoToken]
MCLimits  == [c \in MCClasses |-> IF c = "ingress" THEN MCLimit ELSE 0]
MCWindow  == [c \in MCClasses |-> MCSeconds]
==============================================================================
