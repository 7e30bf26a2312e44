---------------------------- MODULE MCNodeHealth ----------------------------
(* One node with two proxies, of which a check probes one *)
EXTENDS NodeHealth

MCWorlds ==
    {Fine, [Fine EXCEPT !.xrayUp = FALSE, !.blocked = TRUE], [Fine EXCEPT !.dead = {1}],
     [Fine EXCEPT !.agentUp = FALSE, !.dead = {1}, !.tls = TRUE]}
=============================================================================
