-------------------------- MODULE MCEventConsumer --------------------------
\* TLC instances of EventConsumer: up to two events with ids, and one
\* that does not parse and is known by its length.
EXTENDS EventConsumer, TLC

CONSTANTS uploaded, created, garbage, i1, i2, h1

MCIdOf ==
  [e \in Events |-> CASE e = uploaded -> i1 [] e = created -> i2 [] e = garbage -> h1]
=============================================================================
