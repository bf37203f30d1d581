\* Two workers and a user in the middle of editing the company: what a later
\* undisturbed run sets right.
SPECIFICATION Spec
CONSTANTS
    Null = Null
    ProjektAlterB = 2
    Warnung = 1
    NeuOderLoeschen = 2
    Matrix <- MCMatrix
    Eingaben <- MCEingaben
    Projektlagen <- MCKeineProjekte
    Firmen = {f1}
    Kontakte = {k1, k2}
    Personen = {p1}
    Kmu = Kmu
    Laeufe = {l1, l2}
    Bearbeiter = {b1}
    Ungueltig = {}
    MailFehler = FALSE
    MaxDatum = 99
    MaxTag = 3
    MaxWeb = 3
    MaxNeustart = 0
INVARIANTS
    NachDemLauf
