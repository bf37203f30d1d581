---------------------------- MODULE Nachbetreuung ----------------------------
(***************************************************************************)
(* One company from its last contact on, day by day, with the real day     *)
(* numbers of the program: every morning the job passes over the company   *)
(* once (Scoring!Bewerte), unless the server is down at six o'clock.  The  *)
(* module answers what the users see over months: how many reminders one   *)
(* contact causes, in which order, and when the company falls silent.      *)
(* How a pass is carried out is the subject of UnternehmensscoringJob.     *)
(***************************************************************************)
EXTENDS Scoring

CONSTANTS
    Kontaktarten,  \* the contacts [datum, naechster, bewertung] considered
    Projektlagen,  \* the sets of projects considered
    Horizont,      \* bound: days looked ahead
    MaxAusfaelle   \* bound: mornings on which the server is down

\* A company is warned about no earlier than a day after it was due.
ASSUME NachbetreuungAssumption ==
    /\ Kontaktarten \subseteq [datum : Int, naechster : Datum,
                               bewertung : Bewertungen \cup {Null}]
    /\ Projektlagen \subseteq SUBSET Projekt
    /\ Horizont \in Nat
    /\ MaxAusfaelle \in Nat
    /\ Warnung > 0

VARIABLES
    heute,     \* the present day; the last contact was on day 0 or before
    kontakt,   \* the last contact of the company
    projekte,  \* its projects
    zeile,     \* naechsterkontakt and naechsterkontaktlevel of the company
    neu,       \* the contact's geaendert flag
    mails,     \* how often each reminder stage was mailed for this contact
    ausfaelle  \* mornings without a run so far

vars == <<heute, kontakt, projekte, zeile, neu, mails, ausfaelle>>

Init ==
    /\ heute = 0
    /\ kontakt \in Kontaktarten
    /\ projekte \in Projektlagen
    /\ zeile = [naechster |-> Null, level |-> Null]
    /\ neu = TRUE
    /\ mails = [s \in Stufen |-> 0]
    /\ ausfaelle = 0

\* The cron trigger fires at six and the job passes over the company.
MorgenMitLauf ==
    /\ heute < Horizont
    /\ LET b == Bewerte(zeile, neu, Klasse(projekte, heute), kontakt, heute)
       IN  /\ zeile' = [naechster |-> b.naechster, level |-> b.level]
           /\ mails' = [s \in Stufen |->
                            mails[s] + (IF s = b.mail THEN 1 ELSE 0)]
    /\ neu' = FALSE
    /\ heute' = heute + 1
    /\ UNCHANGED <<kontakt, projekte, ausfaelle>>

\* The server is down at six; the RAM job store does not make up for it.
MorgenOhneLauf ==
    /\ heute < Horizont
    /\ ausfaelle < MaxAusfaelle
    /\ ausfaelle' = ausfaelle + 1
    /\ heute' = heute + 1
    /\ UNCHANGED <<kontakt, projekte, zeile, neu, mails>>

Next == MorgenMitLauf \/ MorgenOhneLauf

\* Days pass, and the server is not down on every morning.
Spec == Init /\ [][Next]_vars /\ WF_vars(MorgenMitLauf)

------------------------------------------------------------------------------
TypeOK ==
    /\ heute \in 0 .. Horizont
    /\ kontakt \in Kontaktarten
    /\ projekte \in Projektlagen
    /\ zeile \in [naechster : Datum, level : Stufen \cup {Null}]
    /\ neu \in BOOLEAN
    /\ mails \in [Stufen -> Nat]
    /\ ausfaelle \in 0 .. MaxAusfaelle

\* One contact causes a bounded number of reminder rounds: one for the date
\* written down in it, one for the date of the matrix that replaces it after
\* thirty days, and one more if the company slips from A to B customer
\* meanwhile, since B customers have the longer intervals (lines 109-121).
Runden == (IF kontakt.naechster = Null THEN 0 ELSE 1)
          + (IF Klasse(projekte, heute) = Klasse(projekte, 0) THEN 1 ELSE 2)
RundenBegrenzt == \A s \in Stufen : mails[s] <= Runden

\* Staff is reminded before the head office is: unless a morning was missed
\* or the date was overdue by days when the contact was entered, a warning
\* follows an Ermahnung of the same round (lines 125-150).
ErmahnungVorWarnung ==
    /\ ausfaelle = 0
    /\ ~Warnreif(NeuerTermin(Klasse(projekte, 0), kontakt), 0)
    => mails["warnung"] <= mails["ermahnung"]

\* A level always belongs to an overdue date, and a date is never overdue
\* without a level for longer than the server was down (lines 94-151): what a
\* missed morning leaves undone lasts until the next run and no longer.
StufeGehoertZuFrist ==
    ~neu =>
        /\ zeile.level # Null => Faellig(zeile.naechster, heute - 1)
        /\ zeile.level = Null =>
               ~Faellig(zeile.naechster, heute - 1 - ausfaelle)

\* A company nobody contacts again falls silent for ever: its due date is
\* dropped (line 117) and no later pass sets one, since only a changed last
\* contact does (line 94).
VerstummtZuletzt == <>[](zeile.naechster = Null)

==============================================================================
