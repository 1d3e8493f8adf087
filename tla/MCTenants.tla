----------------------------- MODULE MCTenants -----------------------------
\* Tenants on small boxes: a tenant of class 2 and one of class 3.
EXTENDS Tenants
CONSTANTS agent, render, card, spare
Tiers == [t \in Tenants |-> IF t = agent THEN 2 ELSE 3]
Apart == [t \in Tenants |-> t]
Named == [t \in Tenants |-> IF t = agent THEN {card} ELSE {card, spare}]
Together == [t \in Tenants |-> agent]
=============================================================================
