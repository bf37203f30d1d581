\* Two persons, two pages, two requests at once, four things users do.
SPECIFICATION Spec
CONSTANTS
    a = a
    b = b
    Keiner = Keiner
    Leer = Leer
    Person <- MCPerson
    Ziffern <- MCZiffern
    Datum = {Leer, d1}
    Seite = {s1, s2}
    Anfrage = {r1, r2}
    MaxZeilen = 5
    MaxKlicks = 4
SYMMETRY Symmetrie
INVARIANTS
    TypeOK
    SeiteZeigtTeam
PROPERTIES
    LeiterNurUeberholt
    NachFertig
    NachUpdate
CHECK_DEADLOCK FALSE
