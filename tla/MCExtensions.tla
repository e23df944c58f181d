---------------------------- MODULE MCExtensions ----------------------------
EXTENDS Extensions, TLC

CONSTANTS e1, e2

MCExts == {e1, e2}

\* The entry is installed twice, as each kind there is, or users create servers.
MCKinds == {[e \in MCExts |-> k] : k \in {"mcp", "plugin", "skill"}}
           \cup {[e \in MCExts |-> IF e = f THEN "custom" ELSE "direct"] : f \in MCExts}

MCSymmetry == Permutations(MCExts)
=============================================================================
