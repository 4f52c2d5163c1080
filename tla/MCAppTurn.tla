----------------------------- MODULE MCAppTurn ------------------------------
EXTENDS AppTurn

\* A turn over two connections of the Agent, beside the event of another turn,
\* or with another App that takes relayctl's place; and a request.
MCSetups ==
  {[command |-> TurnStart, other |-> FALSE, watch |-> FALSE, links |-> 2],
   [command |-> TurnStart, other |-> TRUE, watch |-> FALSE, links |-> 1],
   [command |-> TurnStart, other |-> FALSE, watch |-> TRUE, links |-> 1],
   [command |-> Request, other |-> FALSE, watch |-> TRUE, links |-> 2]}
=============================================================================
