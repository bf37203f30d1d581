SPECIFICATION Spec
CONSTANTS
    Person = {anna, bert}
    Ressort = {it, recht}
    Amt = {vorstand}
    KeinRessort = kein
    Status = {anwaerter, paulaner}
    Ohne = ohne
    Anfrage = {a1}
    MaxAnfragen = 3
    Stoerung = FALSE
SYMMETRY Symmetrie
INVARIANTS
    TypeOK
    ZeileGehoertZumPosten
    OffeneZeilenHabenStatus
    RessortHatZeile
    PostenNurEinePerson
CHECK_DEADLOCK FALSE
