\* Progress of every company under the fairness of scheduler and calendar.
SPECIFICATION FairSpec
CONSTANTS
    Null = Null
    ProjektAlterB = 2
    Warnung = 1
    NeuOderLoeschen = 2
    Matrix <- MCMatrix
    Eingaben <- MCEingaben
    Projektlagen <- MCKeineProjekte
    Firmen = {f1, f2}
    Kontakte = {k1}
    Personen = {}
    Kmu = Kmu
    Laeufe = {l1}
    Bearbeiter = {}
    Ungueltig = {}
    MailFehler = FALSE
    MaxDatum = 99
    MaxTag = 3
    MaxWeb = 2
    MaxNeustart = 1
PROPERTIES
    JedeFirmaKommtDran
