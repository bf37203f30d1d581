\* One company over more than two years with the program's day numbers.
SPECIFICATION Spec
CONSTANTS
    Null = Null
    ProjektAlterB = 720
    Warnung = 3
    NeuOderLoeschen = 30
    Matrix <- MCMatrix
    Kontaktarten <- MCKontaktarten
    Projektlagen <- MCProjektlagen
    Horizont = 780
    MaxAusfaelle = 2
INVARIANTS
    TypeOK
    RundenBegrenzt
    ErmahnungVorWarnung
    StufeGehoertZuFrist
PROPERTIES
    VerstummtZuletzt
\* The horizon ends the behaviour.
CHECK_DEADLOCK FALSE
