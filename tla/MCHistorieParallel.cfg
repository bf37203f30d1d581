SPECIFICATION Spec
CONSTANTS
    Person = {anna, bert}
    Ressort = {it}
    Amt = {vorstand}
    KeinRessort = kein
    Status = {anwaerter, paulaner}
    Ohne = ohne
    Anfrage = {a1, a2}
    MaxAnfragen = 3
    Stoerung = TRUE
SYMMETRY Symmetrie
PROPERTY
    UpdateWirkt
CHECK_DEADLOCK FALSE
