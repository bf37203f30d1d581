# PaulDB2 in TLA+

PaulDB2 is the member and customer database of a student consultancy: a Grails
1.3 web application over a MySQL database, with one background job. This
directory holds TLA+ modules that model it, TLC configurations that check them
on small instances, and proofs that TLAPS checks. Paths below are relative to
the repository; "the job" is
`grails-app/jobs/pauldb2/UnternehmensscoringJob.groovy`.

Names of modules, actions and variables follow the source, which is German:
Unternehmen (company), Kontakt (a logged conversation with a company), Betreuer
(supervisor of a company), Ermahnung (first reminder), Warnung (second reminder,
also to the head office).

## 1. The system

### Components

| component | state | operations | what makes it correct |
|---|---|---|---|
| scoring job | columns of `unternehmen`: class (`unternehmensscoring`), `letzterkontakt`, `naechsterkontakt` (due date), `naechsterkontaktlevel`; a Hibernate session per run | `execute`, started by a start trigger, a cron trigger at six and `updateScoring` | each company is classified by its projects, dated by its last contact, reminded of in two stages, once per stage, and never forgotten |
| contacts | `kontakt`, its persons and employees, the mark `geaendert` | `KontaktController` save, update, delete, nameUpdate, abgeben | a changed last contact reaches the company exactly once |
| companies | `unternehmen` with addresses, phones, mails, homepages, employees, branches, supervisors | `UnternehmenController` save, update, delete, betreuerZuweisen, updateScoring | an edit changes what the form shows and nothing else, as a whole or not at all |
| projects, teams | `projekte`, `teammitglieder`, `projektleiter`, free-lance members; the edit page in the browser (`projekte.js`) | `ProjekteController` save, update, delete, editTeammitglieder, editFMA; the dialogs and callbacks of the page | the team is the selection, one row per member; the leader is one of them; the page shows what is stored |
| members, history | `personen`, `person_history`, posts | `PersonenController` save, update, HistoryStart, HistoryEnde, postenzuordnungSave | status and post intervals do not overlap, the open one is the present one |
| studies | `studium`; the person in the web session | `StudiumController` create, save, edit, update, delete | a study is stored with the person the form was opened for, once per form |
| phone book | a text file | `PhoneBookService`, `ApiController` | the file is a whole list of the persons there are, in the end whatever happened |
| tasks, trainings, enquiries | their tables and links | `AufgabeController`, `SchulungController`, `ProjektanfrageController` | links are replaced as a whole |
| master data | small tables | thirteen scaffolded controllers | a row is one of the forms sent, never a mixture |
| login, dashboard, statistics, views, LDAP glue, plugins | none of their own, or external | | |

### How they interact

Everything goes through the database. There are no transactions: services are
not used for writes, controllers and the job call `save(flush: true)` row by row,
and every statement commits on its own. Every mapping says `version false`, so
Hibernate has no optimistic lock and the check `instance.version > version` in
the controllers never fires. Hibernate writes whole rows: a save stores every
column as it was when the row was loaded, apart from those the code has set.

The job runs on Quartz worker threads. It is not declared sequential, its store
is in memory (`QuartzConfig.groovy`), and a listener of the plugin
(`SessionBinderJobListener`, lines 48-68) opens a session before a run and
flushes it after the run, even if the run has thrown an exception.

The edit page of a project is a program of its own: every change posts requests
and goes on, and their callbacks run in any order and find the elements they
fill by what holds when they run.

Users reach the job in four ways: contacts they log or change set `geaendert`,
which a run takes as the occasion for a new due date; projects decide the
class; supervisors get the mails; and `UnternehmenController.update` writes back
whole company rows, among them the columns of the job.

### What is hard

Interleaving (runs beside requests, runs beside runs), stale rows and stale
pages, failures between two flushes (mail, null dereference at line 97, restart),
answers out of order in the browser, and the length of the protocol: a reminder
round takes weeks and consists of runs that know nothing of each other but the
row. Nothing of this is tested: the repository's
tests are empty stubs. `PROJECT.json` lists these hazards at their lines.

## 2. Modules

| module | what it is |
|---|---|
| `Scoring` | pure operators: class, last contact's due date, level; `Bewerte` is one pass over one company (job lines 92-151) |
| `Nachbetreuung` | one company, one pass per morning, with the program's real numbers (720, 3 and 30 days, the whole matrix) |
| `Kontakterinnerung` | abstract specification: due dates, levels, warnings, without runs or sessions |
| `UnternehmensscoringJob` | the job statement by statement, beside users, calendar and restarts; refines `Kontakterinnerung` |
| `Personenhistorie` | status, posts and history of the members: `update` and `postenzuordnungSave` flush by flush, requests side by side |
| `Unternehmensbearbeitung` | a company with address, employees, mails, phones and homepages: `save`, `update`, `delete` flush by flush, requests side by side |
| `Projektteam` | the team, free-lance members and leader of a project: pages, requests row by row, answers in any order |
| `Projektformular` | the form of a project in the browser: changes, and callbacks in any order |
| `Studium` | studies entered in several tabs of one web session |
| `Telefonbuch` | the phone book file, its writers and what stops them |
| `Stammdaten` | one row of the master data edited on several pages |
| `Nebenteile` | these last three side by side, each with variables of its own |
| `MC...` | instances for TLC; `MCNebenteile` runs `Nebenteile` and `Projektformular` |
| `..._proofs` | theorems about the module of that name |

`UnternehmensscoringJob` uses `Scoring` and, for the refinement, an instance of
`Kontakterinnerung`; `Nachbetreuung` uses `Scoring`. The other modules model
other tables of the same database (or the browser, or the file) and share no
state with the job or each other: what the job sees of a company being edited
(its own columns, written back) is in `UnternehmensscoringJob`, what happens to
the lists of the company is in `Unternehmensbearbeitung`. The one place where two
of them meet is the last thing a run does, writing the phone book: it is
`JobBeginnt` of `Telefonbuch`.

Operators named `X_Something` with a comment "Fault:" are wrong variants of `X`.
Nothing uses them; put in place of `X` they show that a property notices the
mistake (`PROJECT.json`, "mutants").

### Scoring

Dates are day numbers. The code compares midnight dates with the instant of the
run; the header says how each comparison becomes one of day numbers. Null is a
value of its own: a missing end date compares as smaller than every date in
Groovy, a missing rating counts as "4", a null entry of the matrix gives no date.

### UnternehmensscoringJob

State: the database (`firma`, `kontakt`, `projekte`, `betreuer`), the workers
(`pc`, `sitzung`, `rest`, `arbeit`), their surroundings (`tag`, `ausloeser`,
`formular`, `web`, `neustarts`) and two observations: `post`, the log of reminders
of the current round, and `veraltet`, whether anything happened since the last
run began.

One step of a worker is what lies between two points at which others can see or
change something:

| action | lines | |
|---|---|---|
| `Starten` | 47-68 | session, start mail, load all companies |
| `KontaktErmitteln` | 69-90 | class and last contact; if the contact is marked, unmark it and flush, which also writes the company as far as it is worked out |
| `FristBestimmen` | 92-151 | due date and level, in memory |
| `OhneKontakt` | 94-107 | no last contact: nothing to do, or the null dereference of line 97 |
| `MailSenden`, `MailScheitert` | 130-177 | one mail to one address |
| `Speichern` | 180-188 | write the row, unless it fails a constraint |
| `LaufBeenden` | 189-199 | the end; the phone book and the last mail touch none of this state |
| `LaufAbbrechen` | listener 55-68 | after an exception: flush, close |

The session is modelled as Hibernate keeps it: companies are copies taken at
the start of the run, a contact is a copy taken when the run first reads it, and
which contacts belong to a company is asked of the database each time. A row is
written only if it differs from the copy, and then as a whole.

Users act in one step per request (`KontaktAnlegen`, `KontaktAendern`,
`KontaktLoeschen`, `BetreuerZuweisen`, `Abgeben`, `ProjekteAendern`,
`UpdateScoring`), except for editing a company, which is a load and a later
write (`UnternehmenLaden`, `UnternehmenSpeichern`). Deleting a contact of two or
more employees fails before it writes anything (the loop removes from the set
it iterates over). `Neustart` stops the server between any two steps.

Simplifications: a contact's employees are represented by their companies; a
contact's rating and dates come from a small set; `save` of the contact at line
83 is taken to succeed; deleting a contact frees its id only when no row or copy
refers to it; whether a company's row fails a constraint does not change.

### Personenhistorie

State: `status` (column `personstatus`), `inhaber` (the join table of persons and
posts), `historie` (the rows of `personhistory`; a row is open while `bis` is
empty) and the sessions of the requests. A session holds what was read and what
is not yet flushed: links removed and added, rows ended.

| action | lines of `PersonenController` | |
|---|---|---|
| `PersonAnlegen` | 96-168 | a person with the row "no Ressort" (post 23) |
| `UpdateBeginnen` | 288-321 | read the person, compare the Ressorts of the form |
| `RessortEntfernen`, `RessortHinzufuegen` | 323-333 | one Ressort: its link and its history row |
| `StatusVergleichen`, `HistorieFuerPosten` | 335-343 | a new status ends all rows and opens one per post |
| `KontaktdatenSpeichern`, `KontaktdatenScheitern` | 345-506 | mails and phones, which may flush or throw |
| `Speichern`, `SpeichernScheitert` | 509-528 | the row of the person |
| `ZuordnungBeginnen`, `PostenLesen`, `InhaberEntlassen`, `EntlassenScheitert`, `PostenBesetzen` | 645-702 | the form that assigns the posts, post by post |
| `Neustart` | | the server stops, sessions are lost |

`HistoryEnde` asks for rows and therefore flushes what is pending; it ends the
rows in memory. `HistoryStart` saves with a flush. So the link of a second
Ressort is gone before its row is ended. A row without a status fails validation
and is not stored (`NeueZeile`): assigning a post calls `HistoryStart` without one
(line 683), so that no row is opened.

Simplifications: whether the join table has a key that refuses a second link is
not in the repository, so both outcomes are possible (`DoppeltVerknuepft`); with
a form that could not be bound Hibernate may or may not write the person at the
end of the request (`SpeichernScheitert`); dates are reduced to open or ended;
deleting persons is left out.

### Unternehmensbearbeitung

State: `stamm` (the row of each company, represented by who wrote it last),
`adressen`, `zeilen` (employees and entries, with the request that wrote them
last), the sessions, and two bookkeeping variables: `unbenutzt` (an id is given
once) and `verwaist` (creations that died).

| action | lines of `UnternehmenController` | |
|---|---|---|
| `AdresseAnlegen`, `FirmaAnlegen`, `AnlegenScheitert` | 165-322 | the address is saved first, and taken back if the company is invalid |
| `EditLaden`, `Absenden` | 381-433 | the form, and its return |
| `MitarbeiterLoeschen`, `MitarbeiterSpeichern` | 434-502 | employees one by one |
| `ArtBeginnen`, `EintragAendern`, `EintraegeVergleichen`, `EintragLoeschen`, `EintragEinfuegen` | 508-756 | mails, phones and homepages, which the code treats one after another by the same pattern, and differently if the form has exactly one entry |
| `Speichern`, `SpeichernScheitert` | 762-782 | the row |
| `DeleteBeginnen`, `MitarbeiterLoeschen`, `FirmaLoeschen` | 785-823 | employees, then entries, company and address in one flush |
| `FormularVerwerfen`, `Absturz` | | an abandoned form, a request that dies between two flushes |

`Spuelen` is a flush: it writes all that is pending in the session, and throws if
a row to be changed or deleted is gone or if a row is added to a company that is
gone. Simplifications: a flush that throws in `update` is taken to write nothing,
although the statements before the one that fails may have gone through (in
`delete`, where the code expects it, they do); projects and employees
are assumed to keep a company from being deleted (a foreign key, which line 809
expects); branches, supervisors and the status of the company are part of its
row.

### Projektteam

State: the tables `tm`, `fma`, `leiter`, the pages (`seite`: what their forms hold)
and the requests (`anfrage`) with their answers still under way.

| action | lines (`ProjekteController` unless named) | |
|---|---|---|
| `SeiteLaden` | 289-372 | the edit page with the tables as they are |
| `TeamFertig`, `FmaFertig` | `projekte.js` 12-84, 112-171 | the whole selection is sent, nothing waits |
| `MitgliedSuchen`, `MitgliedAnlegen`, `MitgliedUnbekannt` | 384-411 | person by person; a selection of one is a string, which is taken apart into digits |
| `TeamVergleichen`, `MitgliedLoeschen`, `TeamAntworten` | 416-465 | rows not on the list go, with their leader; the answer |
| `FmaSuchen`, `FmaAnlegen`, `FmaAntworten` | 482-583 | free-lance members, with the two exceptions of lines 522 and 544 |
| `Absenden` | | the form with dates and the leader ticked; the page is left |
| `ZeileSpeichern`, `ZeilenGespeichert`, `FmaSpeichern`, `FmaGespeichert` | 774-872 | dates row by row, before the form is known to be valid |
| `LeiterBestimmen`, `UpdateSpeichern`, `UpdateScheitern`, `UpdateAblehnen` | 875-972 | the leader is moved, made or left; the project is flushed, or its flush fails; a rejected form is shown again |
| `AntwortErhalten` | `projekte.js` 18-79, 118-168 | whenever an answer comes it redraws its table |

A row another request has deleted is an exception (`Scheitern`): an AJAX call has
no handler for it, so its page keeps the table it has.

The rows are looked up once, at line 776. The member ticked is not looked up
again: `Teammitglied.get` of lines 886 to 893 returns what the session has read
there, whether its row is still in the table or not. What Hibernate refuses to
flush is in `LeiterSchreibbar` (a leader without a member; a moved leader whose own
row is gone). Whether the database refuses a leader of a row that is gone is not
known: the domain classes name the column (`Projektleiter.groovy`, line 10), but the
repository holds no schema, so no foreign key is assumed and none excluded. After
`LeiterVerwaist` an update may succeed (`UpdateSpeichern`) or fail (`UpdateScheitern`).
A leader outside the team that is left behind this way is shown by no page (`edit`
goes from the members to their leaders, 342-350), and the next update makes
another: `TeamLeiter` are the leaders of members. Such leaders from before the
program are left out (`Init`).

Simplifications: dates are
an input typed for all rows at once; the rest of the form is valid or not; the
ids given by the database are numbers in order, and which persons the digits of
an id name is a constant (`Ziffern`).

### Projektformular

State: what the form shows (`zeilen`, `anfragen`, `firmen`, `ansprechpartner`, `fma`),
the global variable `select_feld`, and the bag `offen` of posted requests. The
user's changes (`ZeileHinzu`, `ZeileWeg`, `ClusterWaehlen`, `FirmaHinzu`, `FirmaWeg`,
`FmaFertig`; `projekte.js` 200-642) post requests; the callbacks (`ClusterErhalten`,
`FelderErhalten`, `AnfragenErhalten`, `MitarbeiterErhalten`, `PersonErhalten`) run in
any order, among the next changes. The server only reads. Lists of options are
represented by whose they are, and wholly or in part, since a list written over
a longer one leaves its tail.

### Studium, Telefonbuch, Stammdaten

`Studium`: `pid` is `session.pid`, which every link sets (`Create`, `Edit`, lines 20-30
and 82-98) and the next request to be answered uses up, in four steps others can
come between: `Schreiben`, `Pruefen`, `Zuordnen`, `Umleiten`/`Leeren` (34-47, 102-115,
137-145). `Neustart` empties the session while the pages stay open.

`Telefonbuch`: a writer collects the entries person by person from a session that
may have loaded them earlier (`Sammeln`; the job's session is as old as its run,
`LaufEndet`), empties the file (`Oeffnen`, line 17) and
writes it block by block from its own position (`BlockSchreiben`), so that two
writers overwrite each other's blocks. `AbrufBeginnt` is a request that finds no
file (42-51); `Scheitern` and `Neustart` end a writer anywhere. What a reader gets is
`Lesbar`: all blocks of one list, or not.

`Stammdaten`: `Laden`, `Speichern`, `Ablehnen`, `Loeschen` of `AdresseController`
(58-113), which stands for eleven controllers of the same text. A row is written
if the form differs from what this request loaded, and then as a whole.

## 3. Runs

| run | question | bounds |
|---|---|---|
| `nachbetreuung` | How many reminders does one contact cause, in which order, and does it end? | 780 days, all ratings, own dates past and future, four project situations, two mornings without a run |
| `job_mailfehler` | Does a run get along with users if any mail may fail and one company cannot be saved? | 2 companies, 2 contacts, 1 supervisor, 5 days, 2 writes by users |
| `job_neustart` | Does the job implement `Kontakterinnerung` if the server stops once, and keep its promise `StufeBegruendet`? Is a stored warning mailed, and does the inductive invariant of its proof hold? | the same, 4 days, 1 restart |
| `job_fortschritt` | Is no due company forgotten? | under fairness, 1 contact, 1 restart |
| `job_parallel` | What survives two runs at once and stale company forms? | 1 company, 2 workers, 1 editor |
| `historie_allein` | Does the history stay in step with posts and status? | 2 persons, 2 Ressorts, 1 office, 3 requests one after another |
| `historie_parallel` | What does an update achieve whatever was left behind before it? | 2 persons, 1 Ressort, 1 office, 3 requests, 2 at once, failures and stops |
| `firma` | Do address and company come and go together, and does an update do what its form says? | 2 companies, one of them with projects; 1 kind of entries; 2 requests, at once or not, failures anywhere |
| `team` | What do the dialogs and the update do to the team, whatever overlaps? | 2 persons, 2 pages, 2 requests at once, 4 things users do, ids up to 5 |
| `nebenteile` | Is the form filled right whatever the order of answers? Does a study get its person? Is the phone book readable again in the end? Is a row of master data ever a mixture? | form: 2 clusters, 2 companies, 2 persons, 2 rows to begin with, 3 changes; studies: 2 persons, 2 tabs, 5 things the user does; phone book: 2 persons, 2 jobs and a request, 1 change, 2 disturbances; master data: 2 columns, 2 pages, 7 things users do |
| `job_warnung_verloren`, `firma_mitarbeiter` | two statements of comments that the code does not keep | |

The job's instances scale the numbers down so that a whole round (due, warned,
dropped or dated anew) fits into three days: warning one day after the due date,
dropped two days after it. Two companies are needed because a run that aborts
leaves companies unvisited and because contacts can be shared; a third would be
in the place of the second. Two writes by users are enough for "log a contact,
then take it away", the shortest way into line 97, and for a change before and a
change during a run.

Three requests on the history are enough to give a Ressort, change the status
and take the Ressort away, in any order and by any of the two actions; two
Ressorts are needed for the flush between their removals. Two requests on
companies are one that interferes or dies and one that is judged; the kind of
entries in the instance is one that `update` does not flush entry by entry
(homepages), which leaves the most to a later flush. `Firma` has a company that
exists and one that can be created, and either may be the one that cannot be
deleted.

Two requests on a team are the least that interfere, and two pages the least of
which one can be out of date; four clicks allow a page to be loaded twice, a
dialog to be used and the form to be sent. Of the two persons one has an id of
one digit and one an id of two, the second of which is nobody's: the two ways a
selection of one can arrive. In the form three changes are enough for a change, one
that overlaps with its answers, and one that would repair it; companies differ in
which of their two lists is longer. A study needs two tabs and five clicks (two
forms opened, two sent, a restart); the phone book needs two writers that
overlap and a third reader that writes, one stop for each of two of them. The
four parts of `nebenteile` share no state, so that it is enough to run each while
the others stand still.

### What the runs show

| | mail fails | restart | two workers, stale form |
|---|---|---|---|
| `NachDemLauf`: an undisturbed run sets everything right | holds | holds | holds |
| `WarnungWurdeVerschickt`: a stored warning was mailed | **violated** (finding) | holds | violated |
| `KeineDoppelteErinnerung`: no reminder twice in a round | holds | violated | violated |
| `TerminDesLetztenKontakts`: the date in the contact arrives | holds | violated | violated |

Without mail failures, restarts, a second worker and stale forms all four hold.
The violated cells are not run for every combination; they are what TLC reports
if the property is put into the other configuration, and their reason is always
the same: the mail goes out before the row is written (restart: mailed again),
and the mark of the contact is removed before the date it gave occasion for is
written (restart: occasion lost, lines 83 and 183).

`NachDemLauf` is what the design rests on: every run derives class, last contact,
date and level afresh, so whatever interleaving, failure or restart did, the next
run that nothing disturbs repairs all of it except a lost occasion and a lost
warning. `HaeltErinnerungEin` says the same from the other side: nothing but the
occasions of the abstract specification ever changes date or level.

`JedeFirmaKommtDran` depends on the flush in the plugin's listener: the run
that dies at line 97 has already put the lost last contact to null in the
session, the flush stores it, and the next run gets past the company. Without
the flush (fault `LaufAbbrechen_OhneSpuelung`) all companies after it are
forgotten for ever. If the start mail of line 49 fails every day, the job never
begins and nothing is reminded of; the run assumes working mail.

`nachbetreuung` refutes the obvious bound of two rounds per contact: a company
that slips from A to B meanwhile gets a third one, because the B interval of the
same contact lies in the future again.

History and companies rest on the same idea as the job: an update compares the
form with what is there now and not with what the form showed, so one that
nobody interferes with repairs what requests that failed or were overtaken have
left (`UpdateWirkt`, `NachUpdate`). While requests come one after another and
none fails, the open rows of the history are those of the posts and the status
(`ZeileGehoertZumPosten`, `OffeneZeilenHabenStatus`, `RessortHatZeile`), and an office
has one person (`PostenNurEinePerson`). The
converse of the first is false for posts other than Ressorts, since they get
their row only with the next change of status.

Teams do not rest on that idea: `editTeammitglieder` looks up or adds everyone
first and deletes whoever is not on its list afterwards, so two requests at once
can each delete the row the other has made. What holds is that a request nobody
interferes with leaves the selection, and nobody who stays loses her row
(`NachFertig`); that a page that missed nothing shows the team (`SeiteZeigtTeam`);
that an update from such a page does what it says (`NachUpdate`); and, whatever
overlaps, that a leader comes to stand outside the team in one way only: by an
update that appoints who was in the team when it began, and beside which another
request has written (`LeiterNurUeberholt`). That this happens is a defect of the
code unless the database has a foreign key; that nothing else leads to it rests on
`editTeammitglieder`, which deletes the leader with the row, and on line 776, where
an update from a page that is out of date fails at the first row it misses.

In the form, a user who waits for the answers gets what he chose; one who does
not still gets every employee of every company chosen (`AlleAngeboten`) and every
person chosen last (`FreieMitarbeiter`), but not only those.

### Fairness

`FairSpec` asks for weak fairness of starting a pending run, of each worker's
steps and of the calendar. Quartz starts triggered jobs and a thread that can
run does run; days pass. Users owe nothing. `Nachbetreuung` asks for weak
fairness of a morning with a run; the number of mornings without one is bounded.
`Telefonbuch` asks for weak fairness of the end of a run (line 190 of the job is
reached day by day, and a run takes less than a day) and of each writer that can
go on; stops and failures are bounded. `WiederLesbar` needs both: a file cut short
stays until the next run, since requests only write a file that is missing.

### Findings

1. `job_warnung_verloren`: if the warning mail fails, the level "warnung" is
   stored all the same and the head office is never told.
2. `firma_mitarbeiter`: an employee taken out of the form of a company stays as
   long as the form shows any other (`UnternehmenController`, line 432).

Seen while modelling, in the models, and without a run of their own:

- The comment of line 15 of the job speaks of the age of a project; the code
  looks at end dates, and a project without one does not count (line 72): its
  company is a B customer from the first day.
- The comment of line 191 of the job speaks of unlocking it; there is no lock,
  and `job_parallel` has two runs at once.
- The version check of `UnternehmenController` (line 765) never fires: of two
  users the second overwrites the first unnoticed.
- A deletion the database refuses (line 809) has deleted employees, mails,
  phones and homepages already, although the message says that the company was
  not deleted.
- A new member's row "no Ressort" stays open when she gets a Ressort without a
  change of status (`PersonenController`, lines 329-333). A change of status and
  of Ressorts in the same edit opens two rows for each new Ressort.
- Two people who assign the same post at once leave it with two persons
  (`PersonenController`, lines 665-677).
- Teams: two dialogs answered at once may add a person twice or delete each
  other's row. An update beside which the new leader is deleted from the team leaves
  a leader without a row, unless the database refuses (886-893). A leader made in this program has no dates, so the answer of
  `editTeammitglieder` throws (455-456) after everything has been written. With a
  single member every update fails (774), with a single free-lance member too
  (814). Of several new free-lance members none is added, and none is ever
  removed (522, 544). A selection of one person is split into the digits of her
  id (384). Dates typed before a dialog is used are lost when its answer redraws
  the table. A form that was rejected is shown without `plId`, so the next one adds
  a second leader (the comment of line 890 says there is none yet).
- Form of a project: after a row of Taetigkeitsfelder was removed, a new row gets
  the id of an older one (`projekte.js`, line 581). Two rows added in quick
  succession leave the first one empty. `select_feld` lets enquiries or Felder
  arrive in the wrong select. The enquiries of a second company are written over
  those of the first.
- Studies: a form opened from the list after one that was abandoned gives the
  study to the person of the abandoned one; so does a second tab. A stop between
  the two statements leaves a study of nobody.
- Phone book: a file cut short is served until the next run, and a reader during
  a write gets half a file.
- Master data: a later save overwrites an earlier one unnoticed, except that a
  form equal to what was loaded writes nothing.
- Trainings and tasks, read but not modelled: the edit page after a refused update
  lacks the options of the persons, so the next submit removes everybody.

## 4. Proofs

| theorem | module | says |
|---|---|---|
| `TypKorrekt` | `UnternehmensscoringJob_proofs` | `Spec => []TypeOK` |
| `WarnungVerschickt` | `UnternehmensscoringJob_proofs` | `Spec => []WarnungWurdeVerschickt` if there is one worker, mail works and nobody has a company form open |
| `WarnungInvHaelt` | `UnternehmensscoringJob_proofs` | `Spec => []WarnungInv` under the same hypotheses |
| `LaufSetztRichtig` | `UnternehmensscoringJob_proofs` | `Spec => []NachDemLauf`: any number of companies, contacts, workers and users, with restarts, failing mail and stale forms |
| `StufenBegruendet` | `UnternehmensscoringJob_proofs` | `Spec => []StufeBegruendet` of the job, under the hypotheses of `WarnungVerschickt` |
| `JobHaeltErinnerungEin` | `UnternehmensscoringJob_proofs` | `Spec => Erinnerung!Spec`: the job implements `Kontakterinnerung`, restarts included, under the hypotheses of `WarnungVerschickt` |
| `KeinerDoppeltErinnert` | `UnternehmensscoringJob_proofs` | `Spec => KeineDoppelteErinnerung` if there is one worker, no company form open and no restart; mail may fail |
| `TerminErreichtFirma` | `UnternehmensscoringJob_proofs` | `Spec => []TerminDesLetztenKontakts` under the hypotheses of `KeinerDoppeltErinnert` |
| `JedeStufeBegruendet` | `Kontakterinnerung_proofs` | `Spec => []StufeBegruendet` of the abstract specification |
| `NachbetreuungTyp`, `StufeZurFrist`, `ErmahnungZuerst`, `HoechstensDreiRunden` | `Nachbetreuung_proofs` | all four invariants of the run `nachbetreuung`, for any matrix, horizon and number of missed mornings |
| `BearbeitungTyp` | `Unternehmensbearbeitung_proofs` | `Spec => []TypeOK` of the editing of companies |
| `AdresseImmerMitFirma` | `Unternehmensbearbeitung_proofs` | `Spec => []AdresseMitFirma`: any number of companies, requests and kinds of entries, any of them dying anywhere |
| `UpdateGespeichert` | `Unternehmensbearbeitung_proofs` | `Spec => NachUpdate` of companies: an update that is saved and that nobody else has disturbed has taken over the whole form, list by list, whatever the kinds and whichever of the others die |
| `TeamTyp`, `LeiterVonUeberholten` | `Projektteam_proofs` | `Spec => []TypeOK` and `Spec => LeiterNurUeberholt`: any number of persons, pages and requests, and either answer of the database |
| `SeiteZeigtWasDaIst` | `Projektteam_proofs` | `Spec => []SeiteZeigtTeam`: a page that nothing has passed by shows what is stored |
| `FertigErreicht`, `UpdateErreicht` | `Projektteam_proofs` | `Spec => NachFertig` and `Spec => NachUpdate`: what the dialog and the update of a project say they do, of those that no other request has disturbed |
| `FormularTyp` | `Projektformular_proofs` | `Spec => []TypeOK` of the form of a project |
| `FelderGehoerenZumCluster`, `NurAnfragenDerFirmen`, `JederAngeboten`, `AuswahlErscheint` | `Projektformular_proofs` | the four invariants of the form (`FelderPassen`, `AnfragenDerFirmen`, `AlleAngeboten`, `FreieMitarbeiter`): any number of rows, companies, persons and changes, with answers in any order |
| `HistorieTyp` | `Personenhistorie_proofs` | `Spec => []TypeOK` of the history: any number of requests, failures and restarts |
| `ZeileUndPosten`, `ZeileUndStatus`, `RessortUndZeile`, `EinePersonProPosten` | `Personenhistorie_proofs` | the four invariants of the run `historie_allein`, if requests come one after another and none fails (`Nacheinander`) |
| `UpdateVollzogen` | `Personenhistorie_proofs` | `Spec => UpdateWirkt`: an update of a person that is saved and during which nobody else wrote leaves status, Ressorts and open rows as its form has them, whatever was there before and whatever else fails |
| `StudiumGehoertDerPerson`, `StudiumNurMitFormular` | `Nebenteile_proofs` | `St!Spec => []StudiumGehoertZuPerson` and `St!Spec => []EinStudiumJeFormular`: any number of persons, tabs, forms and restarts |
| `LaufGelingt` | `Nebenteile_proofs` | `Tb!Spec => []StandDesLaufs`: any number of writers and persons, with stops and failures anywhere |
| `LetzteGewinnt` | `Nebenteile_proofs` | `Sd!Spec => LetzteSpeicherung`: any number of columns, pages and requests |

All of them hold for every value of the constants that satisfies the named
assumptions. `JobAssumption`, `BearbeitungAssumption` and `HistorieAssumption`
give the constants their types (and say that the values for "nothing" are none of
the others, and that the kinds of entries `update` goes through are different
ones); `ScoringAssumption` and `NachbetreuungAssumption` add that there is a
positive number of days before a warning; `TeamAssumption` that there are finitely
many persons and ids for their first rows, and that null is no person, page or id;
`FormularAssumption` that the first cluster of the list is one of them and that
the page has room for the rows it comes with; `NebenteileAssumption` that null is
no person and that there is room for one study. TLC evaluates them in every run.
The theorem on `Kontakterinnerung` has its assumption as a hypothesis.

The job's `TypeOK` is not inductive: a worker that mails or saves without having a company
at hand would write a row of no type. `ArbeitHatFirma` ties the control state to
the company at hand. That "the latest contact" exists at all is a theorem
(`EsGibtEinenLetzten`, from the least number principle): it needs dates bounded
from above, hence the constant `MaxDatum`.

`WarnungWurdeVerschickt` needs more. `WarnungBelegt` follows the level through a run:
at "frist" the level in hand is the stored one; at "mail" a warning level still
has the head office among the addresses or the mail is out; at "speichern" and
"abbruch" the mail is in the log. `SitzungAktuell` says that copies not yet
looked at have the stored level and that a run never comes back to a company;
without it a flush could write an old warning level into a new round.
`Unbeschaeftigt` says that nothing is left over between companies. The run
`job_neustart` checks the whole of it on a small instance (`WarnungInv`). The
hypotheses are needed: mail that fails, a second worker and a stale form each
violate the property.

`NachDemLauf` speaks of the moment after an undisturbed run only. Its invariant
(`LaufInv`) says two things of all the moments before. `StufenStimmen` holds
always: no row is ahead of its date, neither in the table nor in any copy of it,
in a session, in a form or in the hands of a worker, so that whichever copy is
written back, a run can still put it right; and the day of an active run is the
calendar's. `Ungestoert` holds as long as nothing has come between: the run that
is active is the only one, the contacts it has loaded are those of the table, the
rows it has still to look at are those of the table, and every company behind it
is right (`Zwischenstand`). The first part with `WarnungInv` gives
`StufenBegruendet`, the abstract specification's own invariant for the job.

That the job implements `Kontakterinnerung` is proved step by step
(`JobHaeltErinnerungEin`), due date, level, log, contacts and day being mapped to
themselves. Where a step of the job goes:

| step of the job | step of `Kontakterinnerung` |
|---|---|
| `Starten`, `KontaktErmitteln`, `FristBestimmen`, `OhneKontakt`, `LaufBeenden`, `Neustart` | `AnlassVerlieren`, of no company if none lost its occasion |
| `MailSenden` that tells the head office of a warning | `Melden` |
| every other `MailSenden` | `AnlassVerlieren` of no company |
| `Schreiben` (on saving, or at the end of a broken-off run) with a new due date | `Vereinbaren` |
| `Schreiben` with a level raised | `Erinnern` |
| `Schreiben` with the date and level there are | `AnlassVerlieren` |
| a user's change of contacts, projects or supervisors | `Kontaktereignis` |
| `TagWechsel` | `Tagesanbruch` |

The proof cannot go from the table alone: the write comes several steps after
the decision. `BuchInv` keeps the account in between. `SitzungGleich` and
`KontakteGleich` say which copies are still those of the table, and
`KontakteEingegeben` that every date somebody can take over was typed in once.
`ArbeitStimmt` says how row, mails and stage at hand may differ from the stored
row at each place of the pass: not at all (`Geholt`), or by a new due date the
contact gives reason for, or by one of the three ways a level may go up
(`Bearbeitet`), and with the mails still to be sent being none of those sent
(`Unterwegs`). `PostEntspricht` adds that what the log says of a round is said by
the level in the row, or was sent by the run that is at the company: then no
pass can tell anybody twice. `TerminKommtAn` adds that a date in the last contact
is in the row at hand from the moment the mark is taken off and until the flush.
A restart breaks both, for the mark and the mails are not rolled back with the
row: hence `MaxNeustart = 0`.

`RundenBegrenzt` is a bound on a counter that only grows, so its invariant has to
say what can still be counted. `Lage` does: the date that stands is the contact's
own, the matrix date of the first class, or that of another class, in this order,
and in round i no stage was mailed more often than the round allows. That the
order never turns back is the lemma `Klassenfolge`: as days pass a company can
only slip from A to B. `ErmahnungVorWarnung` needs `Reihenfolge`: as long as no
morning is missed, an Ermahnung that stands has not been followed by its warning.

`AdresseMitFirma` says nothing of a company while it is being created, so it
needs `WirdAngelegt`: that such a company is not there yet, that its address is,
and that no other request creates it. `NochNicht` keeps what was never created,
and what died half way, out of the way of the others. Every other step only has
to be shown to leave company and address alone (`NurListen`), and the type of the
session at the kind of entries at hand (`IndexStimmt`).

`NachUpdate` of companies speaks of the last flush; `FirmenInv` says what an
undisturbed update has done on the way there. Before the form comes back, it shows
the rows there are. From then on every list is in one of three states (`Kommt`,
`Dran`, neither): still to come, at hand, done. For each, `ListeStimmt` says which of
the rows of the form are still there (`NochDa`), which of them are still to be
written (`NochZuAendern`), and that the new row of the form is either still owed
(`NochNeu`) or there, once. What is changed in memory and waits for the next flush
counts as written (`vorgemerkt`), because any flush of the session takes it along,
also that of another list: this is why all lists have to be carried through every
step, and why a flush is proved once for all of them (`SpuelenErhaelt`), from what
it does to the one list that it deletes from or inserts into. That a number has one
kind (`EineArt`) and that the kinds differ keep the lists apart (`Getrennt`). A session
that someone else has disturbed promises nothing (`AndereStimmen`). TLC has checked
that `FirmenInv` holds on the instance of the run `firma`.

The types of the team need `Passend`: what a request in the middle of its rows still
holds are rows of its own form. `LeiterNurUeberholt` needs to know of every update,
overtaken or not, where the member it appoints comes from: `Herkunft` says that what
a page ticks is one of the rows it shows (`Tickt`), that of the rows of its form those
in the table were there when the update began, since ids are given once, that so were
those it has saved, and that these are there still unless another request has
written. An update that appoints anybody has been through all its rows
(`Gespeichert`). Every other step leaves the rows of the leaders there are, or
deletes them with their leaders (`KeinerVerlassen`).

What the dialogs and update of a project promise needs more, and of requests and
pages that others disturb nothing can be promised at all: so `Bild` speaks of
requests since whose beginning no other has written (`allein`), and of pages that
have missed nothing (`treu`). `VorgangStimmt` says what such a request has in hand. The
rows a dialog has collected are rows of the table, and once the rest is deleted
the whole of it (`ListeStimmt`); they have one row for everyone chosen that it has
been through, and the row she had if there was one (`AuswahlStimmt`). An update from
such a page finds the ids of its form in the tables, the rows it has saved as they
were typed, and the leader where its hidden fields say (`UpdateStimmt`).
`FormStimmt` says what such a page knows: it waits for the answer of one dialog at
most, whose request is undisturbed, and whatever this answer will not replace is
what is stored. A second click while an answer is on the way ends that, because
either answer may come last. `NummernOK` (ids are given once) makes "the leader the
page ticks" one row. The run `team` checks the three properties; that the whole of
`TeamInv` is inductive is what the proof shows.

The invariant of the history (`FolgeInv`) speaks of the tables as the request at
work sees them: rows it has ended in memory are ended (`OffenJetzt`), links it has
removed are gone (`Links`), flushed or not. Seen so, rows, links and status belong
together after every step (`Verbunden`, `StatusStimmt`), but for the row of a post
whose link has just been made (`NochOhneZeile`) and the status about to be stored.
`UpdateInv` and `ZuordnungInv` keep the copies of the request in step with the
tables; a flush then changes nothing that the view does not have already
(`NochZuSchreiben`). With a second request the view is no longer the truth, and
the properties fail: hence the hypothesis `Nacheinander`.

`UpdateWirkt` needs no such hypothesis, and another invariant. `StandInv` speaks of
every request in an update since whose reading no other has written, with the links
and open rows its session sees (`Gesehen`, `OffenIn`). `AuswahlStimmt`: the posts are
those the person should have (`Soll`), but for the Ressorts still to be taken away
or added (`NochWeg`, `NochDazu`); a Ressort taken away has no open row any more, an
added one has its row. `WechselStimmt`: once a change of status is noticed, no open
row has the old one, and each post has a row with the new one or is still to get
it. That the status is the one that was read is part of it, since other requests
may store one. A flush moves changes from the session to the tables and leaves what
the session sees as it is (`SpuelenFolgt`); HistoryEnde, which flushes only now and
then, takes rows out of sight either way (`EndeFolgt`). So each step is proved once,
on what is seen, wherever the flushes fall. Steps of others either write, and then
nothing is promised any more, or change nothing (`AndereStimmen`); only a new person
leaves the observation alone, and her row is nobody's who is being edited
(`AnlegenStand`). TLC has checked `StandInv` on the instance of the run
`historie_parallel`.

The properties of the form speak of the moment when all answers are in; the
invariant (`BildInv`) says what is true on the way there. Two of its parts hold
however changes and answers overlap: each thing still to be shown has its request
on the way. A chosen company is offered already or asked for by the last call
(`AngebotStimmt`); of a chosen person, rows and requests are counted together
(`AuswahlStimmt`). The other parts are about a user who waits. What is then on the way
belongs to one change (`EinAnlass`), so that nothing sets `select_feld` anew between
a request and its answer: it is 0 for enquiries, the number of a row for Felder
(`AnfragenStimmen`). As long as no row is removed, `ZeilenStimmen` goes on to say which
row that is: every row shows its Felder, except the last one while its clusters
are asked for, whose id is the number of rows and nobody else's, and except the
one `select_feld` names while its Felder are asked for. Identical requests can be on
the way several times (handlers are bound twice), so `offen` is a bag; the lemmas
about it count the copies of a request (`Kopien`), and `TypeOK` needs `ZeilenOK`: at
most as many rows as were made.

Of a study the page knows the person, the request only the session. `StudienInv`
ties them together for as long as nothing else happens: a page nobody has come
between (`treu`) sees no request at work, and the person in the session is the one
of its link (`SeiteStimmt`); the request sent from it is alone, and until it has
fetched her she is still there (`AnfrageStimmt`), then in its row and on the page
that comes next. The other theorem is a count. The person in the session stands
for a study still to come (`Guthaben` in `FormularInv`), but no longer from the
moment a request has entered her until it has cleared the session (`Vergeben`): so
entering her twice would need a second opening. Two requests at once break it,
between the entry and the clearing: hence `nacheinander`. The theorems on phone
book and master data are about those that are undisturbed, too: `TelefonInv` says
of a writer at work that whoever is not on its list is still to be asked for, and,
if nobody has come between since it emptied the file, that its blocks are the file
(`SchreiberStimmt`); `StammdatenInv` that the row an undisturbed update has loaded
is still the row (`WieGeladen`), without which a form that equals what was loaded,
and so is not written, might leave another one. TLC has checked `StudienInv`,
`FormularInv` and `TelefonInv` on the instance of the run `nebenteile`.

Only model-checked: liveness (`JedeFirmaKommtDran`, `VerstummtZuletzt`,
`WiederLesbar`), which is beyond TLAPS, and `Scoring` as such: what its operators
compute is proved where a theorem on the job or on `Nachbetreuung` needs it.

## 5. Plan

1. The persons and employees of a contact (`KontaktController`), to make contacts
   complete.

Not modelled, and why:

- Tasks and trainings (`AufgabeController`, `SchulungController`): `Personen` is joined
  to them by several many-to-many relations between the same classes without
  `mappedBy` (`Personen.groovy`, lines 54-57). Which side GORM takes for which
  relation decides what `addTo` and `removeFrom` do while the code iterates, and
  GORM is not in the repository.
- Project enquiries (`ProjektanfrageController`): what an edit stores depends on how
  GORM binds request parameters to collections.
- Deleting persons and projects: what the database does with the rows that refer
  to them is not in the repository.
- Two of the thirteen master data controllers, which differ from the text the
  others share.
- Most lines of the repository belong to bundled libraries (jQuery, Prototype and
  plugins, with several copies of `lib.js` that nothing uses). The application's own
  JavaScript has about 1,300 lines, of which `projekte.js` is modelled where it
  keeps state; the rest builds rows of tables.

Not planned: views, scripts and messages (layout), statistics (read-only), LDAP
glue and bundled plugins (external), URL services (string building).
