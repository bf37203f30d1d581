------------------------ MODULE UnternehmensscoringJob ------------------------
(***************************************************************************)
(* The nightly scoring job beside the web application.  A run loads all    *)
(* companies at its start, and for each of them determines class and last  *)
(* contact, decides on due date and reminder level, sends the reminders    *)
(* and writes the row; users log, edit and delete contacts, assign         *)
(* supervisors and edit companies meanwhile.  Neither side locks anything, *)
(* no row has a version, and a run is no transaction: what it has flushed  *)
(* stays when it aborts or the server stops.                               *)
(*                                                                         *)
(* The job may run on several worker threads at once (Laeufe): it is not a *)
(* stateful Quartz job, and three triggers start it.                       *)
(***************************************************************************)
EXTENDS Scoring, FiniteSets

CONSTANTS
    Firmen,       \* the companies (Unternehmen)
    Kontakte,     \* ids of contacts (Kontakt)
    Personen,     \* members who may supervise companies and read mail
    Kmu,          \* empfaengerWarnung, the head office's address
    Laeufe,       \* the scheduler's worker threads that may run the job
    Bearbeiter,   \* users in the middle of editing a company
    Ungueltig,    \* companies whose row fails a Grails constraint
    Eingaben,     \* what users type into a contact: [datum, naechster, bewertung]
    Projektlagen, \* sets of projects a company may have
    MailFehler,   \* whether sending a mail may fail
    MaxDatum,     \* the latest date the database can hold
    MaxTag,       \* bound: the last day told apart from the days after it
    MaxWeb,       \* bound: writes by users
    MaxNeustart   \* bound: restarts of the server

ASSUME JobAssumption ==
    /\ Null \notin Firmen \cup Kontakte
    /\ Kmu \notin Personen
    /\ Ungueltig \subseteq Firmen
    /\ Eingaben \subseteq
           [datum : {d \in Int : d <= MaxDatum}, naechster : Datum,
            bewertung : Bewertungen \cup {Null}]
    /\ MaxDatum \in Nat
    /\ \A p \in Projektlagen : p \subseteq Projekt
    /\ MailFehler \in BOOLEAN
    /\ MaxTag \in Nat /\ MaxWeb \in Nat /\ MaxNeustart \in Nat

VARIABLES
    \* the database
    firma,    \* rows of unternehmen
    kontakt,  \* rows of kontakt, with the companies of their mitarbeiter
    projekte, \* the projects of each company
    betreuer, \* the supervisors of each company (those with an e-mail address)
    \* the job
    pc,       \* control state of each worker
    sitzung,  \* its Hibernate session: day of the run, loaded rows
    rest,     \* companies it has yet to look at
    arbeit,   \* the company it is looking at
    \* scheduler, users, calendar
    tag, ausloeser, formular, web, neustarts,
    \* observation only: reminders out, and whether something happened that
    \* the last run has not taken into account
    post, veraltet

db == <<firma, kontakt, projekte, betreuer>>
job == <<pc, sitzung, rest, arbeit>>
umwelt == <<tag, ausloeser, formular, web, neustarts>>
vars == <<db, job, umwelt, post, veraltet>>

Zeile == [klasse : Klassen, letzter : Kontakte \cup {Null},
          naechster : Datum, level : Stufen \cup {Null}]
KontaktSatz == [datum : {d \in Int : d <= MaxDatum}, naechster : Datum,
                bewertung : Bewertungen \cup {Null}, geaendert : BOOLEAN,
                firmen : SUBSET Firmen]
Adressen == Personen \cup {Kmu}
Mails == Stufen \X Adressen
Zustaende == {"bereit", "unternehmen", "frist", "mail", "speichern", "abbruch"}

\* Fault: the default class of a new company is missing.
NeueFirma_OhneKlasse == [klasse |-> Null, letzter |-> Null, naechster |-> Null, level |-> Null]

NeueFirma == [klasse |-> "C", letzter |-> Null, naechster |-> Null, level |-> Null]
KeinKontakt == [datum |-> 0, naechster |-> Null, bewertung |-> Null,
                geaendert |-> FALSE, firmen |-> {}]
LeereSitzung == [heute |-> 0, firma |-> [u \in Firmen |-> NeueFirma],
                 kontakt |-> [k \in Kontakte |-> KeinKontakt],
                 geladen |-> {}]
KeineArbeit == [u |-> Null, zeile |-> NeueFirma, geaendert |-> FALSE,
                stufe |-> Null, offen |-> {}, neu |-> FALSE, raus |-> {}]

Arbeit == [u : Firmen \cup {Null}, zeile : Zeile, geaendert : BOOLEAN,
           stufe : Stufen \cup {Null}, offen : SUBSET Adressen,
           neu : BOOLEAN, raus : SUBSET Mails]
Sitzung == [heute : Nat, firma : [Firmen -> Zeile],
            kontakt : [Kontakte -> KontaktSatz], geladen : SUBSET Kontakte]

AlleBereit == \A r \in Laeufe : pc[r] = "bereit"

\* Kontakt.getKontakteMitUnternehmen
KontakteMit(u) == {k \in Kontakte : u \in kontakt[k].firmen}

Init ==
    /\ firma = [u \in Firmen |-> NeueFirma]
    /\ kontakt = [k \in Kontakte |-> KeinKontakt]
    /\ projekte \in [Firmen -> Projektlagen]
    /\ betreuer = [u \in Firmen |-> {}]
    /\ pc = [r \in Laeufe |-> "bereit"]
    /\ sitzung = [r \in Laeufe |-> LeereSitzung]
    /\ rest = [r \in Laeufe |-> {}]
    /\ arbeit = [r \in Laeufe |-> KeineArbeit]
    /\ tag = 0
    /\ ausloeser = {"start"}
    /\ formular = [b \in Bearbeiter |-> [u |-> Null, zeile |-> NeueFirma]]
    /\ web = 0
    /\ neustarts = 0
    /\ post = [u \in Firmen |-> {}]
    /\ veraltet = TRUE
------------------------------------------------------------------------------
(***************************************************************************)
(* The job.                                                                *)
(***************************************************************************)

\* A trigger fires and a free worker takes the job: a session is opened, the
\* start is mailed, all companies are loaded.
Starten(r) ==
    /\ pc[r] = "bereit"
    /\ \E a \in ausloeser : ausloeser' = ausloeser \ {a}
    /\ \/ pc' = [pc EXCEPT ![r] = "unternehmen"]
       \/ MailFehler /\ pc' = [pc EXCEPT ![r] = "abbruch"]
    /\ sitzung' = [sitzung EXCEPT ![r] =
                       [LeereSitzung EXCEPT !.heute = tag, !.firma = firma]]
    /\ rest' = [rest EXCEPT ![r] = Firmen]
    /\ veraltet' = ~AlleBereit
    /\ UNCHANGED <<db, arbeit, tag, formular, web, neustarts, post>>

\* A contact as the session sees it: the row as first loaded.
Gesehen(r, k) ==
    IF k \in sitzung[r].geladen THEN sitzung[r].kontakt[k] ELSE kontakt[k]

\* The contact with the latest date; on equal dates the first in the database's
\* order.
Juengster(datum) ==
    CHOOSE k \in DOMAIN datum : \A j \in DOMAIN datum : datum[j] <= datum[k]

\* Fault: the contacts are ordered the wrong way round.
Letzter_Aeltester(r, u) ==
    IF KontakteMit(u) = {} THEN Null
    ELSE CHOOSE k \in KontakteMit(u) :
             \A j \in KontakteMit(u) : Gesehen(r, j).datum >= Gesehen(r, k).datum

\* The latest of a company's contacts.
Letzter(r, u) ==
    IF KontakteMit(u) = {} THEN Null
    ELSE Juengster([k \in KontakteMit(u) |-> Gesehen(r, k).datum])

\* Class and last contact.  If the contact is marked as changed the mark is
\* removed and the session flushed, which writes the contact as loaded and
\* the company as far as it is worked out.
KontaktErmitteln(r, u) ==
    LET k == Letzter(r, u)
        alt == sitzung[r].firma[u]
        z == [alt EXCEPT !.klasse = Klasse(projekte[u], sitzung[r].heute),
                         !.letzter = k]
        markiert == k # Null /\ Gesehen(r, k).geaendert
        kopie == [j \in Kontakte |->
                     IF j \notin KontakteMit(u) THEN sitzung[r].kontakt[j]
                     ELSE IF markiert /\ j = k
                          THEN [Gesehen(r, j) EXCEPT !.geaendert = FALSE]
                          ELSE Gesehen(r, j)]
    IN  /\ pc[r] = "unternehmen"
        /\ u \in rest[r]
        /\ pc' = [pc EXCEPT ![r] = "frist"]
        /\ rest' = [rest EXCEPT ![r] = @ \ {u}]
        /\ arbeit' = [arbeit EXCEPT ![r] =
               [KeineArbeit EXCEPT !.u = u, !.zeile = z,
                                   !.geaendert = k # alt.letzter \/ markiert]]
        /\ sitzung' = [sitzung EXCEPT
               ![r].kontakt = kopie,
               ![r].geladen = @ \cup KontakteMit(u),
               ![r].firma[u] = IF markiert THEN z ELSE @]
        /\ IF markiert
           THEN /\ kontakt' = [kontakt EXCEPT ![k] =
                                  [kopie[k] EXCEPT !.firmen = kontakt[k].firmen]]
                /\ firma' = IF z = alt THEN firma ELSE [firma EXCEPT ![u] = z]
           ELSE UNCHANGED <<kontakt, firma>>
    /\ UNCHANGED <<projekte, betreuer, umwelt, post, veraltet>>

\* Fault: only the supervisors are mailed.
Empfaenger_OhneKmu(u, stufe) == IF stufe = Null THEN {} ELSE betreuer[u]

\* The addresses a reminder goes to.
Empfaenger(u, stufe) ==
    IF stufe = Null THEN {}
    ELSE betreuer[u] \cup (IF stufe = "warnung" THEN {Kmu} ELSE {})

\* Due date and level, in memory only.
FristBestimmen(r) ==
    LET a == arbeit[r]
        k == a.zeile.letzter
        b == Bewerte([naechster |-> a.zeile.naechster, level |-> a.zeile.level],
                     a.geaendert, a.zeile.klasse, sitzung[r].kontakt[k],
                     sitzung[r].heute)
    IN  /\ pc[r] = "frist"
        /\ k # Null
        /\ arbeit' = [arbeit EXCEPT ![r] =
               [a EXCEPT !.zeile.naechster = b.naechster,
                         !.zeile.level = b.level,
                         !.stufe = b.mail,
                         !.offen = Empfaenger(a.u, b.mail),
                         !.neu = \/ a.geaendert
                                 \/ Verfallen(a.zeile.naechster, sitzung[r].heute)]]
        /\ pc' = [pc EXCEPT ![r] =
               IF Empfaenger(a.u, b.mail) = {} THEN "speichern" ELSE "mail"]
        /\ UNCHANGED <<db, sitzung, rest, umwelt, post, veraltet>>

\* A company without a contact: if it never had one, nothing is due; if it
\* has lost its last one, line 97 dereferences null and the run aborts.
OhneKontakt(r) ==
    /\ pc[r] = "frist"
    /\ arbeit[r].zeile.letzter = Null
    /\ pc' = [pc EXCEPT ![r] =
           IF arbeit[r].geaendert THEN "abbruch" ELSE "speichern"]
    /\ UNCHANGED <<db, sitzung, rest, arbeit, umwelt, post, veraltet>>

\* The reminders of one company, the head office first.
Vorrang(r, e) == Kmu \in arbeit[r].offen => e = Kmu

Verschickt(r, e) ==
    /\ arbeit' = [arbeit EXCEPT ![r].offen = @ \ {e},
                                ![r].raus = @ \cup {<<arbeit[r].stufe, e>>}]
    /\ post' = [post EXCEPT ![arbeit[r].u] = @ \cup {<<arbeit[r].stufe, e>>}]

MailSenden(r, e) ==
    /\ pc[r] = "mail"
    /\ e \in arbeit[r].offen /\ Vorrang(r, e)
    /\ Verschickt(r, e)
    /\ pc' = [pc EXCEPT ![r] = IF arbeit[r].offen = {e} THEN "speichern" ELSE "mail"]
    /\ UNCHANGED <<db, sitzung, rest, umwelt, veraltet>>

\* The reminder, or the copy to the administrator after it, cannot be sent.
MailScheitert(r, e) ==
    /\ MailFehler
    /\ pc[r] = "mail"
    /\ e \in arbeit[r].offen /\ Vorrang(r, e)
    /\ Verschickt(r, e) \/ UNCHANGED <<arbeit, post>>
    /\ pc' = [pc EXCEPT ![r] = "abbruch"]
    /\ UNCHANGED <<db, sitzung, rest, umwelt, veraltet>>

\* The flush of the company at hand: Hibernate writes the whole row if it
\* differs from what was loaded or last flushed.  In the reminder log a row
\* whose due date was set anew begins a new round.
Schreiben(r) ==
    LET a == arbeit[r]
    IN  /\ firma' = IF a.zeile = sitzung[r].firma[a.u] THEN firma
                    ELSE [firma EXCEPT ![a.u] = a.zeile]
        /\ post' = IF a.neu THEN [post EXCEPT ![a.u] = a.raus] ELSE post

\* unternehmen.save: a row that fails a constraint is logged and not written.
Speichern(r) ==
    /\ pc[r] = "speichern"
    /\ IF arbeit[r].u \in Ungueltig THEN UNCHANGED <<firma, post>> ELSE Schreiben(r)
    /\ pc' = [pc EXCEPT ![r] = "unternehmen"]
    /\ arbeit' = [arbeit EXCEPT ![r] = KeineArbeit]
    /\ UNCHANGED <<kontakt, projekte, betreuer, sitzung, rest, umwelt, veraltet>>

\* All companies are done; the phone book is written and the session closed.
LaufBeenden(r) ==
    /\ pc[r] = "unternehmen"
    /\ rest[r] = {}
    /\ pc' = [pc EXCEPT ![r] = "bereit"]
    /\ sitzung' = [sitzung EXCEPT ![r] = LeereSitzung]
    /\ UNCHANGED <<db, rest, arbeit, umwelt, post, veraltet>>

\* Fault: the session is closed without a flush after an exception.
LaufAbbrechen_OhneSpuelung(r) ==
    /\ pc[r] = "abbruch"
    /\ pc' = [pc EXCEPT ![r] = "bereit"]
    /\ sitzung' = [sitzung EXCEPT ![r] = LeereSitzung]
    /\ rest' = [rest EXCEPT ![r] = {}]
    /\ arbeit' = [arbeit EXCEPT ![r] = KeineArbeit]
    /\ veraltet' = TRUE
    /\ UNCHANGED <<db, umwelt, post>>

\* After an exception the job listener flushes the session all the same, and
\* a flush checks no Grails constraint.
LaufAbbrechen(r) ==
    /\ pc[r] = "abbruch"
    /\ IF arbeit[r].u = Null THEN UNCHANGED <<firma, post>> ELSE Schreiben(r)
    /\ pc' = [pc EXCEPT ![r] = "bereit"]
    /\ sitzung' = [sitzung EXCEPT ![r] = LeereSitzung]
    /\ rest' = [rest EXCEPT ![r] = {}]
    /\ arbeit' = [arbeit EXCEPT ![r] = KeineArbeit]
    /\ veraltet' = TRUE
    /\ UNCHANGED <<kontakt, projekte, betreuer, umwelt>>

Laufschritt(r) ==
    \/ \E u \in Firmen : KontaktErmitteln(r, u)
    \/ FristBestimmen(r)
    \/ OhneKontakt(r)
    \/ \E e \in Adressen : MailSenden(r, e)
    \/ \E e \in Adressen : MailScheitert(r, e)
    \/ Speichern(r)
    \/ LaufBeenden(r)
    \/ LaufAbbrechen(r)
------------------------------------------------------------------------------
(***************************************************************************)
(* Users.  A request is one step where nothing it reads can be changed     *)
(* before it writes; editing a company takes long enough to be two.        *)
(***************************************************************************)
Schreibzugriff ==
    /\ web < MaxWeb
    /\ web' = web + 1
    /\ veraltet' = TRUE
    /\ UNCHANGED <<job, tag, ausloeser, neustarts, post>>

\* An id no row refers to: ids are never given out twice.
Frei(k) ==
    /\ kontakt[k].firmen = {}
    /\ \A u \in Firmen : firma[u].letzter # k
    /\ \A b \in Bearbeiter : formular[b].zeile.letzter # k
    /\ \A r \in Laeufe :
           /\ k \notin sitzung[r].geladen
           /\ arbeit[r].zeile.letzter # k
           /\ \A u \in Firmen : sitzung[r].firma[u].letzter # k

\* KontaktController.save and update: every field of the row comes from the
\* form, the companies from the chosen mitarbeiter, and geaendert is set.
KontaktSchreiben(k) ==
    \E e \in Eingaben, fs \in SUBSET Firmen \ {{}} :
        kontakt' = [kontakt EXCEPT ![k] =
            [datum |-> e.datum, naechster |-> e.naechster,
             bewertung |-> e.bewertung, geaendert |-> TRUE, firmen |-> fs]]

KontaktAnlegen(k) ==
    /\ Frei(k)
    /\ KontaktSchreiben(k)
    /\ Schreibzugriff
    /\ UNCHANGED <<firma, projekte, betreuer, formular>>

KontaktAendern(k) ==
    /\ kontakt[k].firmen # {}
    /\ KontaktSchreiben(k)
    /\ Schreibzugriff
    /\ UNCHANGED <<firma, projekte, betreuer, formular>>

\* KontaktController.delete: with two mitarbeiter it fails before it has
\* written anything.  With one, the links go; the row itself stays if some
\* company still refers to it, but no query of the job finds it any more.
KontaktLoeschen(k) ==
    /\ Cardinality(kontakt[k].firmen) = 1
    /\ kontakt' = [kontakt EXCEPT ![k] = KeinKontakt]
    /\ Schreibzugriff
    /\ UNCHANGED <<firma, projekte, betreuer, formular>>

\* UnternehmenController.betreuerZuweisen, KontaktController.abgeben
BetreuerZuweisen(u, p) ==
    /\ p \notin betreuer[u]
    /\ betreuer' = [betreuer EXCEPT ![u] = @ \cup {p}]
    /\ Schreibzugriff
    /\ UNCHANGED <<firma, kontakt, projekte, formular>>

Abgeben(u, p) ==
    /\ p \in betreuer[u]
    /\ betreuer' = [betreuer EXCEPT ![u] = @ \ {p}]
    /\ Schreibzugriff
    /\ UNCHANGED <<firma, kontakt, projekte, formular>>

\* ProjekteController.save, update and delete, as far as the job sees them.
ProjekteAendern(u) ==
    /\ \E ps \in Projektlagen \ {projekte[u]} :
           projekte' = [projekte EXCEPT ![u] = ps]
    /\ Schreibzugriff
    /\ UNCHANGED <<firma, kontakt, betreuer, formular>>

\* UnternehmenController.update: the row is loaded, form fields are bound
\* (class, last contact, due date and level are not among them), related
\* rows are written one by one, and at last the whole row is written.
UnternehmenLaden(b, u) ==
    /\ formular[b].u = Null
    /\ web < MaxWeb
    /\ formular' = [formular EXCEPT ![b] = [u |-> u, zeile |-> firma[u]]]
    /\ UNCHANGED <<db, job, tag, ausloeser, web, neustarts, post, veraltet>>

UnternehmenSpeichern(b) ==
    LET f == formular[b]
    IN  /\ f.u # Null
        /\ firma' = IF f.u \in Ungueltig THEN firma
                    ELSE [firma EXCEPT ![f.u] = f.zeile]
        /\ formular' = [formular EXCEPT ![b] = [u |-> Null, zeile |-> NeueFirma]]
        /\ Schreibzugriff
        /\ UNCHANGED <<kontakt, projekte, betreuer>>

\* UnternehmenController.updateScoring
UpdateScoring ==
    /\ "manuell" \notin ausloeser
    /\ web < MaxWeb
    /\ web' = web + 1
    /\ ausloeser' = ausloeser \cup {"manuell"}
    /\ UNCHANGED <<db, job, tag, formular, neustarts, post, veraltet>>

Webzugriff ==
    \/ \E k \in Kontakte :
           KontaktAnlegen(k) \/ KontaktAendern(k) \/ KontaktLoeschen(k)
    \/ \E u \in Firmen, p \in Personen : BetreuerZuweisen(u, p) \/ Abgeben(u, p)
    \/ \E u \in Firmen : ProjekteAendern(u)
    \/ \E b \in Bearbeiter, u \in Firmen : UnternehmenLaden(b, u)
    \/ \E b \in Bearbeiter : UnternehmenSpeichern(b)
    \/ UpdateScoring
------------------------------------------------------------------------------
(***************************************************************************)
(* Calendar and server.                                                    *)
(***************************************************************************)

\* The night passes and the cron trigger fires.  A run takes minutes, so none
\* spans two days; every day has its run unless the server was down.  From
\* MaxTag on days are no longer told apart.
TagWechsel ==
    /\ AlleBereit
    /\ "cron" \notin ausloeser
    /\ tag' = IF tag < MaxTag THEN tag + 1 ELSE tag
    /\ ausloeser' = ausloeser \cup {"cron"}
    /\ veraltet' = TRUE
    /\ UNCHANGED <<db, job, formular, web, neustarts, post>>

\* The server stops at any moment and is started again: sessions, forms and
\* the scheduler's triggers are lost, flushed rows and sent mails are not.
Neustart ==
    /\ neustarts < MaxNeustart
    /\ neustarts' = neustarts + 1
    /\ pc' = [r \in Laeufe |-> "bereit"]
    /\ sitzung' = [r \in Laeufe |-> LeereSitzung]
    /\ rest' = [r \in Laeufe |-> {}]
    /\ arbeit' = [r \in Laeufe |-> KeineArbeit]
    /\ formular' = [b \in Bearbeiter |-> [u |-> Null, zeile |-> NeueFirma]]
    /\ ausloeser' = {"start"}
    /\ veraltet' = TRUE
    /\ UNCHANGED <<db, tag, web, post>>

Next ==
    \/ \E r \in Laeufe : Starten(r) \/ Laufschritt(r)
    \/ Webzugriff
    \/ TagWechsel
    \/ Neustart

\* Quartz starts a pending job on a free worker, a worker works on, days pass.
\* Users owe nothing.
Fairness ==
    /\ \A r \in Laeufe : WF_vars(Starten(r)) /\ WF_vars(Laufschritt(r))
    /\ WF_vars(TagWechsel)

Spec == Init /\ [][Next]_vars
FairSpec == Spec /\ Fairness
------------------------------------------------------------------------------
(***************************************************************************)
(* Properties.                                                             *)
(***************************************************************************)

TypeOK ==
    /\ firma \in [Firmen -> Zeile]
    /\ kontakt \in [Kontakte -> KontaktSatz]
    /\ projekte \in [Firmen -> Projektlagen]
    /\ betreuer \in [Firmen -> SUBSET Personen]
    /\ pc \in [Laeufe -> Zustaende]
    /\ sitzung \in [Laeufe -> Sitzung]
    /\ rest \in [Laeufe -> SUBSET Firmen]
    /\ arbeit \in [Laeufe -> Arbeit]
    /\ tag \in 0 .. MaxTag
    /\ ausloeser \in SUBSET {"start", "cron", "manuell"}
    /\ formular \in [Bearbeiter -> [u : Firmen \cup {Null}, zeile : Zeile]]
    /\ web \in 0 .. MaxWeb
    /\ neustarts \in 0 .. MaxNeustart
    /\ post \in [Firmen -> SUBSET Mails]
    /\ veraltet \in BOOLEAN

\* Nobody gets the same reminder twice in one round: the level in the row
\* keeps a later run from sending again what an earlier one has sent (lines
\* 122, 147), though the mail goes out before the level is written.  A row
\* that cannot be saved is excepted; restarts, parallel runs and forms that
\* write old rows back break it.
KeineDoppelteErinnerung ==
    [][\A r \in Laeufe :
           /\ pc[r] = "mail"
           /\ arbeit[r].u \notin Ungueltig
           /\ ~arbeit[r].neu
           => (arbeit'[r].raus \ arbeit[r].raus) \cap post[arbeit[r].u] = {}]_vars

\* A warning level in the database says that the head office was told (lines
\* 125-138), also if the server stopped or contacts changed in between: the
\* row is written after the mail is out.
WarnungWurdeVerschickt ==
    \A u \in Firmen :
        firma[u].level = "warnung" => <<"warnung", Kmu>> \in post[u]

\* What a finished run leaves behind if nothing has changed since it began:
\* every company's class and last contact are those of the data, no due date
\* is overdue without its level, no level stands without an overdue date,
\* none is older than the limit, and no change of a last contact is pending.
RichtigBewertet(u) ==
    LET f == firma[u]
        ks == KontakteMit(u)
    IN  /\ f.klasse = Klasse(projekte[u], tag)
        /\ IF f.letzter = Null THEN ks = {}
           ELSE /\ f.letzter \in ks
                /\ \A k \in ks : kontakt[k].datum <= kontakt[f.letzter].datum
                /\ ~kontakt[f.letzter].geaendert
                /\ ~Verfallen(f.naechster, tag)
                /\ Faellig(f.naechster, tag) <=> f.level # Null
                /\ Warnreif(f.naechster, tag) <=> f.level = "warnung"

NachDemLauf ==
    AlleBereit /\ ~veraltet => \A u \in Firmen \ Ungueltig : RichtigBewertet(u)

\* The date a user wrote into the last contact reaches the company with the
\* next run (lines 94-106) and stays until it is overdue by the limit.  A
\* contact with two companies is excepted: the first one removes its mark.
TerminDesLetztenKontakts ==
    AlleBereit /\ ~veraltet =>
        \A u \in Firmen \ Ungueltig :
            LET k == firma[u].letzter
            IN  k # Null /\ kontakt[k].firmen = {u} /\ kontakt[k].naechster # Null
                /\ ~Verfallen(kontakt[k].naechster, tag)
                => firma[u].naechster = kontakt[k].naechster

\* Every company whose date has come is reminded of or gets another date,
\* also if the server restarts or another company has lost its last contact:
\* the flush after the abort writes that company's row, so that the next run
\* gets past it (lines 94-97).
Wartet(u) ==
    firma[u].letzter # Null /\ firma[u].level = Null /\ Faellig(firma[u].naechster, tag)

JedeFirmaKommtDran == \A u \in Firmen \ Ungueltig : Wartet(u) ~> ~Wartet(u)

------------------------------------------------------------------------------
(***************************************************************************)
(* Refinement.                                                             *)
(***************************************************************************)

\* The last contact as the database has it.
LetzterJetzt(u) ==
    IF KontakteMit(u) = {} THEN Null
    ELSE Juengster([k \in KontakteMit(u) |-> kontakt[k].datum])

\* Companies whose last contact is new or edited, or is being dealt with.
Anlass ==
    {u \in Firmen :
        \/ LetzterJetzt(u) # firma[u].letzter
        \/ \E k \in KontakteMit(u) : kontakt[k].geaendert
        \/ \E r \in Laeufe : arbeit[r].u = u /\ arbeit[r].geaendert}

\* The due dates a contact can give: written down in it, or counted from its
\* date by the matrix.
Termine ==
    {Null} \cup {e.naechster : e \in Eingaben}
    \cup {MatrixTermin(c, e) : c \in Klassen, e \in Eingaben}

Erinnerung == INSTANCE Kontakterinnerung WITH
    termin <- [u \in Firmen |-> firma[u].naechster],
    stufe <- [u \in Firmen |-> firma[u].level],
    gewarnt <- {u \in Firmen : <<"warnung", Kmu>> \in post[u]},
    anlass <- Anlass,
    ereignisse <- web,
    MaxEreignisse <- MaxWeb

\* With one worker, no editor and a mail server that works, the job keeps
\* the promise of Kontakterinnerung, restarts included: due date and level
\* change only for a reason, and every level is earned.
HaeltErinnerungEin == Erinnerung!Spec

\* At every moment, in the middle of a run and after a stop: a level stands only
\* beside a date that has come, and a warning only beside one overdue by the
\* warning time and after the head office was told (lines 121-151).
StufeBegruendet == Erinnerung!StufeBegruendet
==============================================================================
