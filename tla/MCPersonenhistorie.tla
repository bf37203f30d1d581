-------------------------- MODULE MCPersonenhistorie --------------------------
EXTENDS Personenhistorie, TLC

Symmetrie == Permutations(Ressort) \cup Permutations(Person) \cup Permutations(Anfrage)
=============================================================================
