------------------------------- MODULE Scoring -------------------------------
(***************************************************************************)
(* The pure part of the customer scoring of UnternehmensscoringJob: how a  *)
(* company is classified as A, B or C customer, which of its contacts is   *)
(* the last one, when the next contact is due, and what one pass over a    *)
(* company does to its due date and its reminder level.                    *)
(*                                                                         *)
(* Dates are day numbers.  The program compares midnight dates with the    *)
(* instant the job runs, later on the same day: "d < new Date()" is        *)
(* d <= heute, "d + n > new Date()" is d + n > heute, and "d < new Date()  *)
(* - n" is d <= heute - n.                                                 *)
(***************************************************************************)
EXTENDS Integers

CONSTANTS
    Null,            \* the null of the program
    ProjektAlterB,   \* projektAlterBKunde, 720 days in the program
    Warnung,         \* days overdue before a warning, 3 in the program
    NeuOderLoeschen, \* days overdue before a date is dropped, 30
    Matrix           \* naechsterKontaktMatrix: class -> rating -> days

Klassen == {"A", "B", "C"}
Bewertungen == {"0", "1", "2", "3", "4"}
Stufen == {"ermahnung", "warnung"}

ASSUME ScoringAssumption ==
    /\ Null \notin Int \cup Klassen \cup Bewertungen \cup Stufen
    /\ ProjektAlterB \in Nat
    /\ Warnung \in Nat
    /\ NeuOderLoeschen \in Nat
    /\ Matrix \in [Klassen -> [Bewertungen -> (Nat \ {0}) \cup {Null}]]

Datum == Int \cup {Null}
Projekt == [anfang : Datum, ende : Datum]

(***************************************************************************)
(* Classification: a company none of whose projects has a start date is a  *)
(* C customer; otherwise it is an A customer when some project ends after  *)
(* heute - 720 days, and a B customer when none does.  A project without   *)
(* an end date does not count (in Groovy null > date is false).            *)
(***************************************************************************)
Klasse(projekte, heute) ==
    IF \A p \in projekte : p.anfang = Null THEN "C"
    ELSE IF \E p \in projekte : p.ende # Null /\ p.ende > heute - ProjektAlterB
         THEN "A" ELSE "B"

\* The rating of a contact; an unrated contact counts as rating 4.
Bewertet(bewertung) == IF bewertung = Null THEN "4" ELSE bewertung

\* The due date the matrix gives after a contact, Null when it gives none.
MatrixTermin(klasse, kontakt) ==
    LET tage == Matrix[klasse][Bewertet(kontakt.bewertung)]
    IN  IF tage = Null THEN Null ELSE kontakt.datum + tage

\* Fault: the date written down in the contact is ignored.
NeuerTermin_NurMatrix(klasse, kontakt) == MatrixTermin(klasse, kontakt)

\* The due date after a new or edited contact: the date written down in the
\* contact if there is one, else the one of the matrix.
NeuerTermin(klasse, kontakt) ==
    IF kontakt.naechster # Null THEN kontakt.naechster
    ELSE MatrixTermin(klasse, kontakt)

\* Too old, due, and due for long enough to warn about.
Verfallen(termin, heute) == termin # Null /\ termin <= heute - NeuOderLoeschen
Faellig(termin, heute)   == termin # Null /\ termin <= heute
Warnreif(termin, heute)  == termin # Null /\ termin <= heute - Warnung

\* Fault: line 105 is missing, the level survives a new date.
Angepasst_OhneReset(zeile, geaendert, klasse, kontakt) ==
    IF geaendert
    THEN [zeile EXCEPT !.naechster = NeuerTermin(klasse, kontakt)]
    ELSE zeile

\* The row after a new or edited contact.
Angepasst(zeile, geaendert, klasse, kontakt) ==
    IF geaendert
    THEN [naechster |-> NeuerTermin(klasse, kontakt), level |-> Null]
    ELSE zeile

\* Fault: line 112 does not ask whether the new date is still to come.
Ersatztermin_AuchVergangen(klasse, kontakt, heute) == MatrixTermin(klasse, kontakt)

\* The date that replaces one that has been overdue for too long.
Ersatztermin(klasse, kontakt, heute) ==
    LET neu == MatrixTermin(klasse, kontakt)
    IN  IF neu # Null /\ neu > heute THEN neu ELSE Null

\* Fault: the level reached is not looked at (lines 122, 147).
NeueStufe_OhneStand(zeile, heute) ==
    IF ~Faellig(zeile.naechster, heute) \/ Verfallen(zeile.naechster, heute) THEN Null
    ELSE IF Warnreif(zeile.naechster, heute) THEN "warnung" ELSE "ermahnung"

\* Fault: an overdue company is warned about at once (line 125).
NeueStufe_SofortWarnung(zeile, heute) ==
    IF \/ ~Faellig(zeile.naechster, heute)
       \/ Verfallen(zeile.naechster, heute)
       \/ zeile.level = "warnung"
    THEN Null ELSE "warnung"

\* Fault: a level outside the inList of Unternehmen.naechsterkontaktlevel.
NeueStufe_Unbekannt(zeile, heute) ==
    IF Faellig(zeile.naechster, heute) /\ zeile.level = Null THEN "mahnung" ELSE Null

\* The reminder stage a row reaches today, Null if it stays where it is.
NeueStufe(zeile, heute) ==
    IF \/ ~Faellig(zeile.naechster, heute)
       \/ Verfallen(zeile.naechster, heute)
       \/ zeile.level = "warnung"
    THEN Null
    ELSE IF Warnreif(zeile.naechster, heute) THEN "warnung"
    ELSE IF zeile.level = Null THEN "ermahnung" ELSE Null

\* Fault: line 121 is missing, the level survives the old date.
Bewerte_OhneReset(zeile, geaendert, klasse, kontakt, heute) ==
    LET z == Angepasst(zeile, geaendert, klasse, kontakt)
        s == NeueStufe(z, heute)
    IN  [naechster |-> IF Verfallen(z.naechster, heute)
                       THEN Ersatztermin(klasse, kontakt, heute) ELSE z.naechster,
         level |-> IF s = Null THEN z.level ELSE s, mail |-> s]

(***************************************************************************)
(* One pass over a company that has a last contact: a row                  *)
(* [naechster, level] becomes a row, and "mail" says which reminder the    *)
(* pass sends, if any.  "geaendert" says that the last contact is another  *)
(* one or was edited since the previous pass.                              *)
(***************************************************************************)
Bewerte(zeile, geaendert, klasse, kontakt, heute) ==
    LET z == Angepasst(zeile, geaendert, klasse, kontakt)
        s == NeueStufe(z, heute)
    IN  IF Verfallen(z.naechster, heute)
        THEN [naechster |-> Ersatztermin(klasse, kontakt, heute),
              level |-> Null, mail |-> Null]
        ELSE [naechster |-> z.naechster,
              level |-> IF s = Null THEN z.level ELSE s, mail |-> s]
==============================================================================
