---------------------------- MODULE MCProjektteam ----------------------------
EXTENDS Projektteam, TLC
CONSTANTS a, b

\* The id of a is a digit; that of b is made of a's and of one nobody has.
MCPerson == {a, b}
MCZiffern == [p \in MCPerson |-> IF p = a THEN {a} ELSE {a, Keiner}]
Symmetrie == Permutations(Anfrage) \cup Permutations(Seite)
==============================================================================
