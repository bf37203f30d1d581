\* One worker among users who log, edit, share and delete contacts; mails may
\* fail at any moment, and the row of f2 fails a constraint.
SPECIFICATION Spec
CONSTANTS
    Null = Null
    ProjektAlterB = 2
    Warnung = 1
    NeuOderLoeschen = 2
    Matrix <- MCMatrix
    Eingaben <- MCEingaben
    Projektlagen <- MCProjektlagen
    Firmen = {f1, f2}
    Kontakte = {k1, k2}
    Personen = {p1}
    Kmu = Kmu
    Laeufe = {l1}
    Bearbeiter = {}
    Ungueltig = {f2}
    MailFehler = TRUE
    MaxDatum = 99
    MaxTag = 4
    MaxWeb = 2
    MaxNeustart = 0
INVARIANTS
    TypeOK
    NachDemLauf
    TerminDesLetztenKontakts
PROPERTIES
    KeineDoppelteErinnerung
