------------------------------ MODULE MCGateway ------------------------------
EXTENDS Gateway

MCExpiry == [t \in Ticket |-> 2]
=============================================================================
