-------------------------- MODULE MCSchemaVariants --------------------------
(* Small instances of SchemaVariants.                                      *)
EXTENDS SchemaVariants

CONSTANTS r1, r2

MCRequests == {r1, r2}

\* The shapes a three-rung ladder meets: everything present, the first rungs'
\* columns missing, the table missing, and a shape whose accepted rungs are not
\* a suffix (as tuning's, where a spelling excludes every other rung).
MCSchemas == {{}, {3}, {1, 3}, {2, 3}, {1, 2, 3}}

\* A schema that never changes, as the comment on the caches assumes.
StaticSchemas == {{1, 2, 3}}
=============================================================================
