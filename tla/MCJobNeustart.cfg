\* The server may restart at any moment, projects come and go.
SPECIFICATION Spec
CONSTANTS
    Null = Null
    ProjektAlterB = 2
    Warnung = 1
    NeuOderLoeschen = 2
    Matrix <- MCMatrix
    Eingaben <- MCEingaben
    Projektlagen <- MCKeineProjekte
    Firmen = {f1, f2}
    Kontakte = {k1, k2}
    Personen = {p1}
    Kmu = Kmu
    Laeufe = {l1}
    Bearbeiter = {}
    Ungueltig = {}
    MailFehler = FALSE
    MaxDatum = 99
    MaxTag = 3
    MaxWeb = 2
    MaxNeustart = 1
INVARIANTS
    WarnungWurdeVerschickt
    NachDemLauf
    WarnungInv
    StufeBegruendet
PROPERTIES
    HaeltErinnerungEin
