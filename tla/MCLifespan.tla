------------------------------ MODULE MCLifespan ------------------------------
(* Small instances of Lifespan. *)
EXTENDS Lifespan

MCPoisonings == {{}, {2}}
==============================================================================
