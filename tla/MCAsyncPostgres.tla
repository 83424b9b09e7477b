-------------------------- MODULE MCAsyncPostgres --------------------------
EXTENDS AsyncPostgres

\* Two queries of the same priority and one that overtakes them.
CONSTANTS q1, q2, q3

MCQueries == {q1, q2, q3}
MCTwo == {q1, q3}

MCPriority == [q \in Queries |-> IF q = q3 THEN 1 ELSE 0]
=============================================================================
