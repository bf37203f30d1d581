----------------------------- MODULE Projektteam -----------------------------
(***************************************************************************)
(* The team of one project: the edit page in the browsers (projekte.js,    *)
(* projekte/edit.gsp) and the requests it sends (ProjekteController).      *)
(*                                                                         *)
(* The dialogs for members and free-lance members send the whole selection *)
(* and do not wait; the answer, whenever it comes, redraws the table.      *)
(* Submitting the form leaves the page, so answers still under way go      *)
(* nowhere, but their requests go on beside the update.  Requests have     *)
(* sessions of their own and no transaction: every flush is seen by the    *)
(* others at once.  Free-lance members (FMA) have a table of their own.    *)
(***************************************************************************)
EXTENDS Naturals, FiniteSets

CONSTANTS
    Person,
    Keiner,      \* null
    Ziffern,     \* the persons whose ids are the digits of a person's id
    Datum,       \* what can be typed as dates of a row
    Leer,        \* ... and the empty dates of a new one
    Seite,       \* browser pages on which the project is edited
    Anfrage,     \* requests that may run at once
    MaxZeilen,   \* bound: ids of rows
    MaxKlicks    \* bound: what users do

ASSUME TeamAssumption ==
    /\ Keiner \notin Person \cup Seite \cup Nat
    /\ Ziffern \in [Person -> SUBSET (Person \cup {Keiner})]
    /\ Leer \in Datum
    /\ MaxZeilen \in Nat
    /\ IsFiniteSet(Person) /\ Cardinality(Person) <= MaxZeilen
    /\ MaxKlicks \in Nat

VARIABLES
    tm,       \* table teammitglieder of the project
    fma,      \* table freiemitarbeiter of the project
    leiter,   \* table projektleiter
    frisch,   \* the next id the database gives
    seite,    \* the browser pages
    anfrage,  \* the requests and their answers under way
    klicks    \* what users have done so far

vars == <<tm, fma, leiter, frisch, seite, anfrage, klicks>>
tabellen == <<tm, fma, leiter, frisch>>

Id == 0 .. MaxZeilen
Zeile == [id : Id, person : Person, daten : Datum]
\* A leader's row may lack its dates: update makes such rows, and nothing
\* fills them in; only rows from before the program have dates.
Leiter == [id : Id, tm : Id, datiert : BOOLEAN]

\* The hidden fields plId and plTmId, the radio button, the two tables.
Formular == [tm : SUBSET Zeile, fma : SUBSET Zeile,
             gruppe : Id \cup {Keiner}, plId : Id \cup {Keiner}, plTm : Id \cup {Keiner}]
LeeresFormular == [tm |-> {}, fma |-> {}, gruppe |-> Keiner, plId |-> Keiner, plTm |-> Keiner]

Browserseite ==
    [auf : BOOLEAN,
     form : Formular,
     waehlbar : SUBSET Person,   \* options of the dialogs
     treu : BOOLEAN]   \* observation: nothing happened that the page misses
GeschlosseneSeite == [auf |-> FALSE, form |-> LeeresFormular, waehlbar |-> {}, treu |-> FALSE]

Vorgang ==
    [pc : {"frei", "suchen", "anlegen", "loeschen", "fma", "fmaAnlegen", "fmaLesen",
           "antwort", "fmaAntwort", "zeilen", "fmaZeilen", "leiter", "speichern"},
     seite : Seite \cup {Keiner},   \* Keiner: nobody waits for the answer
     auswahl : SUBSET Person,       \* the selection as sent
     rest : SUBSET (Person \cup {Keiner}),  \* ... what of it is still to be looked up
     wer : Person \cup {Keiner},    \* ... and who is to be added
     liste : SUBSET Zeile,          \* tmList; in an answer, its rows
     weg : SUBSET Id,               \* deleteList; update: the rows still to be saved
     form : Formular,               \* update: the form as sent; in an answer, the leader
     plan : {"nichts", "umsetzen", "neu"},  \* update: what becomes of the leader
     gueltig : BOOLEAN,             \* update: the rest of the form is valid
     vorher : SUBSET Zeile,         \* observation: the team when it began
     allein : BOOLEAN,              \* observation: no other request has written since
     treu : BOOLEAN]                \* observation: the page was up to date
Ruhe == [pc |-> "frei", seite |-> Keiner, auswahl |-> {}, rest |-> {}, wer |-> Keiner,
         liste |-> {}, weg |-> {}, form |-> LeeresFormular, plan |-> "nichts",
         gueltig |-> TRUE, vorher |-> {}, allein |-> TRUE, treu |-> FALSE]

Ids(zeilen) == {z.id : z \in zeilen}
Personen(zeilen) == {z.person : z \in zeilen}
OderKeiner(menge) == IF menge = {} THEN {Keiner} ELSE menge

\* A team from before the program, with or without a dated leader, and one
\* that save has just made (lines 148-185): a leader without dates.
Init ==
    /\ \E team \in SUBSET Person :
           /\ \E nr \in [team -> 1 .. Cardinality(team)] :
                  /\ \A p, q \in team : nr[p] = nr[q] => p = q
                  /\ tm = {[id |-> nr[p], person |-> p, daten |-> Leer] : p \in team}
           /\ frisch = Cardinality(team) + 1
    /\ fma = {}
    /\ leiter \in {{}} \cup {{[id |-> 0, tm |-> z.id, datiert |-> d]} : z \in tm, d \in BOOLEAN}
    /\ seite = [s \in Seite |-> GeschlosseneSeite]
    /\ anfrage = [a \in Anfrage |-> Ruhe]
    /\ klicks = 0
-----------------------------------------------------------------------------
(* The page.                                                               *)

Klick == klicks < MaxKlicks /\ klicks' = klicks + 1

Unterwegs(s) == \E a \in Anfrage : anfrage[a].pc # "frei" /\ anfrage[a].seite = s

\* The leaders of members.  One of no member's row is looked up by nobody but
\* an update that holds its id.
TeamLeiter == {l \in leiter : l.tm \in Ids(tm)}

\* The page of edit (lines 289-372): the tables, and one leader if any.
SeiteLaden(s) ==
    /\ Klick
    /\ ~seite[s].auf /\ ~Unterwegs(s)
    /\ \E l \in (IF TeamLeiter = {} THEN {[id |-> Keiner, tm |-> Keiner]} ELSE TeamLeiter) :
           seite' = [seite EXCEPT ![s] =
                        [auf |-> TRUE,
                         form |-> [tm |-> tm, fma |-> fma, gruppe |-> l.tm,
                                   plId |-> l.id, plTm |-> l.tm],
                         waehlbar |-> Person,
                         treu |-> \A a \in Anfrage : anfrage[a].pc = "frei"]]
    /\ UNCHANGED <<tabellen, anfrage>>

\* A request starts in a free slot.  If the page is left, nobody waits any
\* longer for the answers still under way.
Abschicken(s, r, verlassen) ==
    /\ \E a \in Anfrage :
           /\ anfrage[a].pc = "frei"
           /\ anfrage' = [b \in Anfrage |->
                 IF b = a THEN [r EXCEPT !.seite = s, !.vorher = tm,
                                          !.treu = seite[s].treu /\ ~Unterwegs(s)]
                 ELSE IF verlassen /\ anfrage[b].seite = s
                 THEN [anfrage[b] EXCEPT !.seite = Keiner]
                 ELSE anfrage[b]]
    /\ UNCHANGED tabellen

\* "Fertig" in the dialog of the members (projekte.js 12-84).  A selection of
\* one arrives as a string, which the server takes apart into its characters
\* (line 384).
TeamFertig(s, p) ==
    /\ Klick
    /\ seite[s].auf
    /\ p \subseteq seite[s].waehlbar
    /\ Abschicken(s, [Ruhe EXCEPT !.pc = "suchen", !.auswahl = p,
                         !.rest = IF Cardinality(p) = 1 THEN UNION {Ziffern[q] : q \in p}
                                  ELSE p], FALSE)
    /\ seite' = [seite EXCEPT ![s].treu = @ /\ ~Unterwegs(s)]

\* "Fertig" in the dialog of the free-lance members (projekte.js 112-171).
FmaFertig(s, p) ==
    /\ Klick
    /\ seite[s].auf
    /\ p \subseteq seite[s].waehlbar
    /\ Abschicken(s, [Ruhe EXCEPT !.pc = "fma", !.auswahl = p], FALSE)
    /\ seite' = [seite EXCEPT ![s].treu = @ /\ ~Unterwegs(s)]

\* The form is submitted with the dates typed and the leader ticked; what else
\* it holds is valid or not.  The page is left.
Absenden(s, daten, gruppe, gueltig) ==
    LET f == seite[s].form
    IN  /\ Klick
        /\ seite[s].auf
        /\ gruppe \in Ids(f.tm) \cup {f.gruppe}
        /\ Abschicken(s, [Ruhe EXCEPT !.pc = "zeilen", !.gueltig = gueltig,
               !.form = [f EXCEPT !.gruppe = gruppe,
                                  !.tm = {[z EXCEPT !.daten = daten] : z \in f.tm},
                                  !.fma = {[z EXCEPT !.daten = daten] : z \in f.fma}],
               !.weg = Ids(f.tm)], TRUE)
        /\ seite' = [seite EXCEPT ![s] = GeschlosseneSeite]

-----------------------------------------------------------------------------
(* A request on the server.                                                *)

\* Request a goes on as r; if it has written, others notice.
Weiter(a, r, geschrieben) ==
    /\ anfrage' = [b \in Anfrage |->
          IF b = a THEN r
          ELSE IF anfrage[b].pc = "frei" THEN Ruhe
          ELSE [anfrage[b] EXCEPT !.allein = @ /\ ~geschrieben]]
    /\ seite' = [s \in Seite |->
          IF s = anfrage[a].seite THEN seite[s]
          ELSE [seite[s] EXCEPT !.treu = @ /\ ~geschrieben]]
    /\ UNCHANGED klicks

\* The request ends in an exception.  An AJAX call has no handler for that,
\* so its page keeps the table it has; a submitted form gives an error page.
Scheitern(a) ==
    /\ anfrage' = [anfrage EXCEPT ![a] = Ruhe]
    /\ seite' = [s \in Seite |->
          IF s = anfrage[a].seite THEN [seite[s] EXCEPT !.treu = FALSE] ELSE seite[s]]
    /\ UNCHANGED <<tabellen, klicks>>

\* editTeammitglieder, lines 384-411: one person of the request ...
MitgliedSuchen(a) ==
    LET r == anfrage[a]
    IN  /\ r.pc = "suchen"
        /\ \E p \in r.rest \ {Keiner} :
              LET treffer == {z \in tm : z.person = p}
              IN  IF treffer = {}
                  THEN Weiter(a, [r EXCEPT !.pc = "anlegen", !.wer = p], FALSE)
                  ELSE \E z \in treffer :
                           Weiter(a, [r EXCEPT !.liste = @ \cup {z}, !.rest = @ \ {p}], FALSE)
        /\ UNCHANGED tabellen

\* ... who is not there yet: another request may have added her meanwhile.
MitgliedAnlegen(a) ==
    LET r == anfrage[a]
        z == [id |-> frisch, person |-> r.wer, daten |-> Leer]
    IN  /\ r.pc = "anlegen"
        /\ frisch <= MaxZeilen
        /\ tm' = tm \cup {z}
        /\ frisch' = frisch + 1
        /\ Weiter(a, [r EXCEPT !.pc = "suchen", !.liste = @ \cup {z},
                               !.rest = @ \ {r.wer}, !.wer = Keiner], TRUE)
        /\ UNCHANGED <<fma, leiter>>

\* Fault: the row is saved without a person.
MitgliedUnbekannt_Gespeichert(a) ==
    LET r == anfrage[a]
    IN  /\ r.pc = "suchen"
        /\ Keiner \in r.rest
        /\ frisch <= MaxZeilen
        /\ tm' = tm \cup {[id |-> frisch, person |-> Keiner, daten |-> Leer]}
        /\ frisch' = frisch + 1
        /\ Weiter(a, [r EXCEPT !.rest = @ \ {Keiner}], TRUE)
        /\ UNCHANGED <<fma, leiter>>

\* A digit that is no person's id: the new row has no person, is not saved,
\* and makes the next flush fail.
MitgliedUnbekannt(a) ==
    /\ anfrage[a].pc = "suchen"
    /\ Keiner \in anfrage[a].rest
    /\ Scheitern(a)

\* Fault: whoever is on the list stays, with all her rows.
TeamVergleichen_Personen(a) ==
    LET r == anfrage[a]
    IN  /\ r.pc = "suchen"
        /\ r.rest = {}
        /\ Weiter(a, [r EXCEPT !.pc = "loeschen",
                         !.weg = {z.id : z \in {y \in tm : y.person \notin Personen(r.liste)}}],
                  FALSE)
        /\ UNCHANGED tabellen

\* Lines 416-417: the rows of the project that are not on the list.
TeamVergleichen(a) ==
    LET r == anfrage[a]
    IN  /\ r.pc = "suchen"
        /\ r.rest = {}
        /\ Weiter(a, [r EXCEPT !.pc = "loeschen", !.weg = Ids(tm) \ Ids(r.liste)], FALSE)
        /\ UNCHANGED tabellen

\* Lines 420-424: one row, with it the leader's row that belongs to it.  A row
\* another request has deleted is an error.
MitgliedLoeschen(a) ==
    LET r == anfrage[a]
    IN  /\ r.pc = "loeschen"
        /\ \E i \in r.weg :
              IF i \in Ids(tm)
              THEN /\ tm' = {z \in tm : z.id # i}
                   /\ leiter' = {l \in leiter : l.tm # i}
                   /\ Weiter(a, [r EXCEPT !.weg = @ \ {i}], TRUE)
                   /\ UNCHANGED <<fma, frisch>>
              ELSE Scheitern(a)

\* Lines 429-465: the answer is made of the list, and of the leaders as they
\* are now; one without dates cannot be formatted.
TeamAntworten(a) ==
    LET r == anfrage[a]
    IN  /\ r.pc = "loeschen"
        /\ r.weg = {}
        /\ \/ /\ \A z \in r.liste : {l \in leiter : l.tm = z.id} # {} =>
                     \E l \in leiter : l.tm = z.id /\ l.datiert
              /\ \E i \in OderKeiner({l.tm : l \in leiter} \cap Ids(r.liste)) :
                     Weiter(a, [r EXCEPT !.pc = "antwort", !.form.gruppe = i], FALSE)
              /\ UNCHANGED tabellen
           \/ /\ \E l \in leiter : l.tm \in Ids(r.liste) /\ ~l.datiert
              /\ Scheitern(a)

\* editFMA, lines 482-531.  One is looked up, and added if not found; of
\* several, a new one ends in an exception before she is saved (line 522), and
\* an empty selection does at once.
FmaSuchen(a) ==
    LET r == anfrage[a]
        bekannt == r.auswahl \subseteq Personen(fma)
    IN  /\ r.pc = "fma"
        /\ \/ /\ bekannt /\ r.auswahl # {}
              /\ Weiter(a, [r EXCEPT !.pc = "fmaLesen"], FALSE)
              /\ UNCHANGED tabellen
           \/ /\ ~bekannt /\ Cardinality(r.auswahl) = 1
              /\ Weiter(a, [r EXCEPT !.pc = "fmaAnlegen"], FALSE)
              /\ UNCHANGED tabellen
           \/ /\ r.auswahl = {} \/ (~bekannt /\ Cardinality(r.auswahl) > 1)
              /\ Scheitern(a)

FmaAnlegen(a) ==
    LET r == anfrage[a]
    IN  /\ r.pc = "fmaAnlegen"
        /\ frisch <= MaxZeilen
        /\ fma' = fma \cup {[id |-> frisch, person |-> p, daten |-> Leer] : p \in r.auswahl}
        /\ frisch' = frisch + 1
        /\ Weiter(a, [r EXCEPT !.pc = "fmaLesen"], TRUE)
        /\ UNCHANGED <<tm, leiter>>

\* Lines 538-583: whoever is not selected would be deleted, but line 544
\* throws before; otherwise all rows are answered.
FmaAntworten(a) ==
    LET r == anfrage[a]
    IN  /\ r.pc = "fmaLesen"
        /\ IF Personen(fma) \subseteq r.auswahl
           THEN /\ Weiter(a, [r EXCEPT !.pc = "fmaAntwort", !.liste = fma], FALSE)
                /\ UNCHANGED tabellen
           ELSE Scheitern(a)

\* Fault: a row that is gone is passed over.
ZeileSpeichern_Uebergangen(a) ==
    LET r == anfrage[a]
    IN  /\ r.pc = "zeilen"
        /\ \E i \in r.weg :
              IF Cardinality(r.form.tm) = 1
              THEN Scheitern(a)
              ELSE /\ tm' = {IF z.id # i THEN z
                             ELSE CHOOSE y \in r.form.tm : y.id = i : z \in tm}
                   /\ Weiter(a, [r EXCEPT !.weg = @ \ {i}], TRUE)
                   /\ UNCHANGED <<fma, leiter, frisch>>

\* update, lines 774-800: the dates of the members, row by row.  A single row
\* arrives as a string and fails at its first character; a row that is gone
\* is a null dereference.
ZeileSpeichern(a) ==
    LET r == anfrage[a]
    IN  /\ r.pc = "zeilen"
        /\ \E i \in r.weg :
              IF Cardinality(r.form.tm) = 1 \/ i \notin Ids(tm)
              THEN Scheitern(a)
              ELSE /\ tm' = {IF z.id # i THEN z
                             ELSE CHOOSE y \in r.form.tm : y.id = i : z \in tm}
                   /\ Weiter(a, [r EXCEPT !.weg = @ \ {i}], TRUE)
                   /\ UNCHANGED <<fma, leiter, frisch>>

ZeilenGespeichert(a) ==
    LET r == anfrage[a]
    IN  /\ r.pc = "zeilen"
        /\ r.weg = {}
        /\ Weiter(a, [r EXCEPT !.pc = "fmaZeilen", !.weg = Ids(r.form.fma)], FALSE)
        /\ UNCHANGED tabellen

\* Lines 809-872: the free-lance members; a single one is an error (line 814).
FmaSpeichern(a) ==
    LET r == anfrage[a]
    IN  /\ r.pc = "fmaZeilen"
        /\ \E i \in r.weg :
              IF Cardinality(r.form.fma) = 1
              THEN Scheitern(a)
              ELSE /\ fma' = {IF z.id # i THEN z
                              ELSE CHOOSE y \in r.form.fma : y.id = i : z \in fma}
                   /\ Weiter(a, [r EXCEPT !.weg = @ \ {i}], TRUE)
                   /\ UNCHANGED <<tm, leiter, frisch>>
FmaGespeichert(a) ==
    LET r == anfrage[a]
    IN  /\ r.pc = "fmaZeilen"
        /\ r.weg = {}
        /\ Weiter(a, [r EXCEPT !.pc = "leiter"], FALSE)
        /\ UNCHANGED tabellen

\* Fault: a leader the page knows stays where it is.
LeiterBestimmen_OhneUmsetzen(a) ==
    LET r == anfrage[a]
        bekannt == \E l \in leiter : l.id = r.form.plId
        plan == IF bekannt \/ r.form.gruppe = Keiner THEN "nichts" ELSE "neu"
    IN  /\ r.pc = "leiter"
        /\ Weiter(a, [r EXCEPT !.pc = "speichern", !.plan = plan], FALSE)
        /\ UNCHANGED tabellen

\* Lines 881-896: the leader of the page is moved to the member ticked, or a
\* new one is made if that leader is not in the table.  In memory only, the
\* flush comes with the project, and has nothing to write of a leader that is
\* where it is moved to.  The member ticked is not looked up again: get returns
\* what the session has read at line 776, whether its row is still there or not.
LeiterBestimmen(a) ==
    LET r == anfrage[a]
        f == r.form
        bekannt == \E l \in leiter : l.id = f.plId
        woanders == \E l \in leiter : l.id = f.plId /\ l.tm # f.gruppe
        plan == IF bekannt
                THEN IF f.gruppe # f.plTm /\ woanders THEN "umsetzen" ELSE "nichts"
                ELSE IF f.gruppe # Keiner THEN "neu" ELSE "nichts"
    IN  /\ r.pc = "leiter"
        /\ Weiter(a, [r EXCEPT !.pc = "speichern", !.plan = plan], FALSE)
        /\ UNCHANGED tabellen

\* What the flush makes of the leaders.  A leader needs a member, and one that
\* is moved must still have its row.
LeiterSchreibbar(r) ==
    /\ r.plan # "nichts" => r.form.gruppe # Keiner
    /\ r.plan = "umsetzen" => \E l \in leiter : l.id = r.form.plId
LeiterSchreiben(r) ==
    /\ r.plan = "neu" => frisch <= MaxZeilen
    /\ leiter' = CASE r.plan = "nichts" -> leiter
                   [] r.plan = "umsetzen" ->
                        {IF l.id = r.form.plId THEN [l EXCEPT !.tm = r.form.gruppe] ELSE l
                         : l \in leiter}
                   [] r.plan = "neu" ->
                        leiter \cup {[id |-> frisch, tm |-> r.form.gruppe, datiert |-> FALSE]}
    /\ frisch' = IF r.plan = "neu" THEN frisch + 1 ELSE frisch
    /\ UNCHANGED <<tm, fma>>

\* The member ticked is gone.  Nothing in the program looks; whether the
\* database does (a foreign key) is not in the repository.
LeiterVerwaist(r) == r.plan # "nichts" /\ r.form.gruppe \notin Ids(tm)

\* Lines 923-928: the project is flushed, and with it the leader.
UpdateSpeichern(a) ==
    LET r == anfrage[a]
    IN  /\ r.pc = "speichern"
        /\ r.gueltig
        /\ LeiterSchreibbar(r)
        /\ LeiterSchreiben(r)
        /\ Weiter(a, Ruhe, r.plan # "nichts")

\* That flush, or the one at the end of the request, fails.
UpdateScheitern(a) ==
    LET r == anfrage[a]
    IN  /\ r.pc = "speichern"
        /\ ~LeiterSchreibbar(r) \/ LeiterVerwaist(r)
        /\ Scheitern(a)

\* Lines 929-931: the form is not valid.  Whether the leader is flushed at the
\* end of the request depends on what is wrong.  The page comes again without
\* what the view takes from edit: the leader, the hidden fields, the free-lance
\* members, the options of the dialogs.
UpdateAblehnen(a) ==
    LET r == anfrage[a]
        wiederSeite == [auf |-> TRUE, form |-> [LeeresFormular EXCEPT !.tm = tm],
                        waehlbar |-> {}, treu |-> FALSE]
        mitSchreiben == leiter' # leiter
    IN  /\ r.pc = "speichern"
        /\ ~r.gueltig
        /\ \/ LeiterSchreibbar(r) /\ LeiterSchreiben(r)
           \/ UNCHANGED tabellen
        /\ anfrage' = [b \in Anfrage |->
              IF b = a \/ anfrage[b].pc = "frei" THEN Ruhe
              ELSE [anfrage[b] EXCEPT !.allein = @ /\ ~mitSchreiben]]
        /\ seite' = [s \in Seite |->
              IF s = r.seite THEN wiederSeite
              ELSE [seite[s] EXCEPT !.treu = @ /\ ~mitSchreiben]]
        /\ UNCHANGED klicks

\* Fault: the radio buttons keep what was ticked.
AntwortErhalten_OhneLeiter(a) ==
    LET r == anfrage[a]
    IN  /\ r.pc \in {"antwort", "fmaAntwort"}
        /\ anfrage' = [anfrage EXCEPT ![a] = Ruhe]
        /\ seite' = IF r.seite = Keiner THEN seite
                    ELSE IF r.pc = "antwort"
                    THEN [seite EXCEPT ![r.seite].form.tm = r.liste]
                    ELSE [seite EXCEPT ![r.seite].form.fma = r.liste]
        /\ UNCHANGED <<tabellen, klicks>>

\* The callbacks of the dialogs (projekte.js 18-81 and 118-168): the table is
\* replaced by the rows of the answer, whichever answer comes last.
AntwortErhalten(a) ==
    LET r == anfrage[a]
    IN  /\ r.pc \in {"antwort", "fmaAntwort"}
        /\ anfrage' = [anfrage EXCEPT ![a] = Ruhe]
        /\ seite' = IF r.seite = Keiner THEN seite
                    ELSE IF r.pc = "antwort"
                    THEN [seite EXCEPT ![r.seite].form.tm = r.liste,
                                       ![r.seite].form.gruppe = r.form.gruppe]
                    ELSE [seite EXCEPT ![r.seite].form.fma = r.liste]
        /\ UNCHANGED <<tabellen, klicks>>

Benutzer(s) ==
    \/ SeiteLaden(s)
    \/ \E p \in SUBSET Person : TeamFertig(s, p) \/ FmaFertig(s, p)
    \/ \E d \in Datum, g \in Id \cup {Keiner}, ok \in BOOLEAN : Absenden(s, d, g, ok)

Server(a) ==
    \/ MitgliedSuchen(a) \/ MitgliedAnlegen(a) \/ MitgliedUnbekannt(a)
    \/ TeamVergleichen(a) \/ MitgliedLoeschen(a) \/ TeamAntworten(a)
    \/ FmaSuchen(a) \/ FmaAnlegen(a) \/ FmaAntworten(a)
    \/ ZeileSpeichern(a) \/ ZeilenGespeichert(a)
    \/ FmaSpeichern(a) \/ FmaGespeichert(a)
    \/ LeiterBestimmen(a)
    \/ UpdateSpeichern(a) \/ UpdateScheitern(a) \/ UpdateAblehnen(a)

Next ==
    \/ \E s \in Seite : Benutzer(s)
    \/ \E a \in Anfrage : Server(a) \/ AntwortErhalten(a)

Spec == Init /\ [][Next]_vars
-----------------------------------------------------------------------------
(* Properties.                                                             *)

TypeOK ==
    /\ tm \subseteq Zeile
    /\ fma \subseteq Zeile
    /\ leiter \subseteq Leiter
    /\ frisch \in 1 .. MaxZeilen + 1
    /\ seite \in [Seite -> Browserseite]
    /\ anfrage \in [Anfrage -> Vorgang]
    /\ klicks \in 0 .. MaxKlicks

\* A leader that leads no member (his page does not show it, and a new one is
\* made beside it) has one origin: an update that appoints a member who was in
\* the team when it began, and whom another request has deleted meanwhile.
\* editTeammitglieder leaves no leader behind whose row it deletes, and an
\* update sent from a page that is out of date appoints nobody who is gone.
LeiterNurUeberholt ==
    [][\A l \in leiter' : (l.tm \notin Ids(tm') /\ l \notin leiter \ TeamLeiter) =>
          \E a \in Anfrage :
              LET r == anfrage[a]
              IN  /\ r.pc = "speichern" /\ anfrage'[a].pc # "speichern"
                  /\ l.tm = r.form.gruppe
                  /\ l.tm \in Ids(r.vorher) /\ ~r.allein]_vars

\* editTeammitglieder with which no other request interfered, and whose
\* selection arrived as sent: everyone chosen has exactly one row, nobody else
\* has any, and whoever stays keeps a row she had (with its dates and leader).
NachFertig ==
    [][\A a \in Anfrage :
          LET r == anfrage[a]
              angekommen == Cardinality(r.auswahl) = 1 =>
                                UNION {Ziffern[p] : p \in r.auswahl} = r.auswahl
          IN  (/\ r.pc = "loeschen" /\ r.weg = {} /\ r.allein /\ angekommen
               /\ anfrage'[a].pc # "loeschen")
              => /\ Personen(tm) = r.auswahl
                 /\ Cardinality(tm) = Cardinality(r.auswahl)
                 /\ \A z \in r.vorher : z.person \in r.auswahl =>
                        \E y \in r.vorher : y \in tm /\ y.person = z.person]_vars

\* The team has no leader but the one whose id the page holds.
EinzigerLeiter(f) == {l.id : l \in TeamLeiter} \subseteq {f.plId}

\* A page nothing passed by shows, once its answers are in, the team and the
\* free-lance members of the database, and ticks the leader (the only one):
\* what is submitted from it is what its user has seen.
SeiteZeigtTeam ==
    \A s \in Seite :
        LET f == seite[s].form
        IN  (seite[s].auf /\ seite[s].treu /\ ~Unterwegs(s)) =>
                /\ f.tm = tm
                /\ f.fma = fma
                /\ EinzigerLeiter(f) => {f.gruppe} \ {Keiner} = {l.tm : l \in TeamLeiter}

\* A form submitted from such a page, and with which no other request
\* interfered, does what it says: the dates are those typed, the leader is the
\* one ticked, and there is no other unless there was.
NachUpdate ==
    [][\A a \in Anfrage :
          LET r == anfrage[a]
          IN  (/\ r.pc = "speichern" /\ r.gueltig /\ r.allein /\ r.treu
               /\ anfrage'[a].pc # "speichern")
              => /\ tm' = r.form.tm
                 /\ fma' = r.form.fma
                 /\ EinzigerLeiter(r.form) =>
                       {l.tm : l \in TeamLeiter'} = {r.form.gruppe} \ {Keiner}]_vars
=============================================================================
