\* Form of a project: three changes, at any moment of the answers to those
\* before.  Studies: two persons, two tabs, five things the user does.  Phone
\* book: two persons, two jobs and a request, a change, two disturbances.
\* Master data: two columns, two pages, seven things users do.
SPECIFICATION MCSpec
CONSTANTS
    f1 = f1
    f2 = f2
    Keins = Keins
    Cluster = {c1, c2}
    ErstesCluster = c1
    Firma = {f1, f2}
    Mitarbeiterzahl <- MCMitarbeiterzahl
    Anfragenzahl <- MCAnfragenzahl
    Person = {p1, p2}
    MaxZeilen = 4
    MaxVorhanden = 2
    MaxKlicks = 3
    Mitglied = {p1, p2}
    KeinePerson = KeinePerson
    Tab = {s1, s2}
    MaxStudien = 2
    MaxGetan = 5
    Job = {job, vonHand}
    Abruf = {abruf}
    Luecke = Luecke
    MaxAenderungen = 1
    MaxStoerungen = 2
    Spalte = {plz, stadt}
    Wert = {0, 1}
    Weg = Weg
    Gueltig <- MCGueltig
    Blatt = {s1, s2}
    MaxEingaben = 7
INVARIANTS
    TypeOK
    FelderPassen
    AnfragenDerFirmen
    AlleAngeboten
    FreieMitarbeiter
    StudiumGehoertZuPerson
    EinStudiumJeFormular
    StandDesLaufs
PROPERTIES
    LetzteSpeicherung
    WiederLesbar
CHECK_DEADLOCK FALSE
