---------------------------- MODULE MCProviders -----------------------------
EXTENDS Providers

CONSTANTS p1, p2, m1, m2, h1, h2, c1, c2

MCTypeOf == [p \in {p1, p2} |-> "openai_compat"]

\* The model of the environment and one a user created.
MCPrefixOf == [m \in {m1, m2} |-> IF m = m1 THEN "mdl_env_" ELSE "mdl_ab12"]
=============================================================================
