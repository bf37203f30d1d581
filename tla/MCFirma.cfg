\* Two companies, of which one cannot be deleted, two requests at once, any of
\* which may die between two flushes.
SPECIFICATION Spec
CONSTANTS
    Firma = {f1, f2}
    Belegt = {f2}
    Arten <- ArtenKlein
    Sofort <- EmailSofort
    Anfrage = {a1, a2}
    MaxAnfragen = 2
    Stoerung = TRUE
SYMMETRY Symmetrie
INVARIANTS
    TypeOK
    AdresseMitFirma
PROPERTY
    NachUpdate
CHECK_DEADLOCK FALSE
