------------------------------ MODULE PortPool ------------------------------
(***************************************************************************)
(* What the session handlers expect of the UDP port allocator: a port that *)
(* nobody holds while there is one, a refusal only when every port of the  *)
(* range is held, and a port back in the pool when its reservation goes.   *)
(***************************************************************************)
EXTENDS Integers

CONSTANTS Ports, NoPort

VARIABLES
  held,    \* ports of live reservations
  granted  \* answer to the latest request, NoPort for a refusal

poolVars == <<held, granted>>

PoolInit == held = {} /\ granted = NoPort

Grant ==
  \E p \in Ports \ held : /\ held' = held \cup {p}
                          /\ granted' = p

Refuse ==
  /\ held = Ports
  /\ granted' = NoPort
  /\ UNCHANGED held

Return ==
  \E p \in held : /\ held' = held \ {p}
                  /\ UNCHANGED granted

PoolNext == Grant \/ Refuse \/ Return

PoolSpec == PoolInit /\ [][PoolNext]_poolVars
=============================================================================
