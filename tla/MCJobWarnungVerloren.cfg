\* Mails may fail: the warning that is noted down and never sent.
SPECIFICATION Spec
CONSTANTS
    Null = Null
    ProjektAlterB = 2
    Warnung = 1
    NeuOderLoeschen = 2
    Matrix <- MCMatrix
    Eingaben <- MCEingaben
    Projektlagen <- MCKeineProjekte
    Firmen = {f1}
    Kontakte = {k1, k2}
    Personen = {p1}
    Kmu = Kmu
    Laeufe = {l1}
    Bearbeiter = {}
    Ungueltig = {}
    MailFehler = TRUE
    MaxDatum = 99
    MaxTag = 3
    MaxWeb = 1
    MaxNeustart = 0
INVARIANTS
    WarnungWurdeVerschickt
