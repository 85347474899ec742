------------------------- MODULE MCSchemaEvolution --------------------------
EXTENDS SchemaEvolution

CONSTANTS old, new, newer

\* One process of a build that knows two migrations, the others of the next.
MCVersion == [p \in Processes |-> IF p = old THEN 2 ELSE 3]
MCKind == [v \in 1..3 |-> CASE v = 1 -> "create" [] v = 2 -> "insert" [] v = 3 -> "add"]
=============================================================================
