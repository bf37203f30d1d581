\* One request after another: an employee is taken out of the form, another stays.
SPECIFICATION Spec
CONSTANTS
    Firma = {f1}
    Belegt = {}
    Arten <- ArtenKlein
    Sofort <- EmailSofort
    Anfrage = {a1}
    MaxAnfragen = 2
    Stoerung = FALSE
PROPERTY
    GeloeschteMitarbeiterFehlen
CHECK_DEADLOCK FALSE
