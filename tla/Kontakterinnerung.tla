-------------------------- MODULE Kontakterinnerung --------------------------
(***************************************************************************)
(* What the scoring job promises about reminders, company by company and   *)
(* without runs, sessions or a database: a company has a due date and a    *)
(* level; the level rises with the days the date is overdue; the head      *)
(* office is told before a warning is noted down; and neither date nor     *)
(* level changes in any other way unless the company's last contact gave   *)
(* occasion for it or the date is too old.                                 *)
(***************************************************************************)
EXTENDS Scoring

CONSTANTS
    Firmen,       \* the companies
    Termine,      \* the due dates that can be agreed on, "none" among them
    MaxTag,       \* bound: the last day told apart from those after it
    MaxEreignisse \* bound: what users do

\* What the theorems presuppose of the dates and bounds.
KontakterinnerungAssumption ==
    MaxTag \in Nat /\ MaxEreignisse \in Nat /\ Termine \subseteq Datum

VARIABLES
    tag,     \* the present day
    termin,  \* naechsterkontakt of each company
    stufe,   \* its naechsterkontaktlevel
    gewarnt, \* companies the head office was told about in the present round
    anlass,  \* companies whose last contact gives occasion for a new date
    ereignisse \* what users have done so far

vars == <<tag, termin, stufe, gewarnt, anlass, ereignisse>>

Init ==
    /\ tag = 0
    /\ termin = [u \in Firmen |-> Null]
    /\ stufe = [u \in Firmen |-> Null]
    /\ gewarnt = {}
    /\ anlass = {}
    /\ ereignisse = 0

Tagesanbruch ==
    /\ tag' = IF tag < MaxTag THEN tag + 1 ELSE tag
    /\ UNCHANGED <<termin, stufe, gewarnt, anlass, ereignisse>>

\* Users log, edit, move and delete contacts, and do other things.
Kontaktereignis ==
    /\ ereignisse < MaxEreignisse
    /\ ereignisse' = ereignisse + 1
    /\ anlass' \in SUBSET Firmen
    /\ UNCHANGED <<tag, termin, stufe, gewarnt>>

\* An occasion is passed over: the contact is another company's as well, or
\* the server stopped between noticing it and acting on it.
AnlassVerlieren ==
    /\ anlass' \in SUBSET anlass
    /\ UNCHANGED <<tag, termin, stufe, gewarnt, ereignisse>>

\* The head office is told about a company.
Melden(u) ==
    /\ gewarnt' = gewarnt \cup {u}
    /\ UNCHANGED <<tag, termin, stufe, anlass, ereignisse>>

\* Whether level s is in order for a company with due date t.
Angemessen(u, t, s) ==
    \/ s = Null
    \/ s = "ermahnung" /\ Faellig(t, tag)
    \/ s = "warnung" /\ Warnreif(t, tag) /\ u \in gewarnt

\* A new round: a new due date, and the level that date deserves today.
Vereinbaren(u, t, s) ==
    /\ u \in anlass \/ Verfallen(termin[u], tag)
    /\ Angemessen(u, t, s)
    /\ termin' = [termin EXCEPT ![u] = t]
    /\ stufe' = [stufe EXCEPT ![u] = s]
    /\ gewarnt' = IF s = "warnung" THEN gewarnt ELSE gewarnt \ {u}
    /\ anlass' \in {anlass, anlass \ {u}}
    /\ UNCHANGED <<tag, ereignisse>>

\* Fault: the level rises whatever the date says.
Erinnern_Unbegruendet(u, s) ==
    /\ stufe' = [stufe EXCEPT ![u] = s]
    /\ UNCHANGED <<tag, termin, gewarnt, anlass, ereignisse>>

\* The level rises while the date stays.
Erinnern(u, s) ==
    /\ <<stufe[u], s>> \in {<<Null, "ermahnung">>, <<Null, "warnung">>,
                            <<"ermahnung", "warnung">>}
    /\ Angemessen(u, termin[u], s)
    /\ stufe' = [stufe EXCEPT ![u] = s]
    /\ UNCHANGED <<tag, termin, gewarnt, anlass, ereignisse>>

Next ==
    \/ Tagesanbruch
    \/ Kontaktereignis
    \/ AnlassVerlieren
    \/ \E u \in Firmen :
           \/ Melden(u)
           \/ \E t \in Termine, s \in Stufen \cup {Null} : Vereinbaren(u, t, s)
           \/ \E s \in Stufen : Erinnern(u, s)

Spec == Init /\ [][Next]_vars
------------------------------------------------------------------------------
TypeOK ==
    /\ tag \in 0 .. MaxTag
    /\ termin \in [Firmen -> Datum]
    /\ stufe \in [Firmen -> Stufen \cup {Null}]
    /\ gewarnt \in SUBSET Firmen
    /\ anlass \in SUBSET Firmen
    /\ ereignisse \in 0 .. MaxEreignisse

\* At every moment, not only after a run: a level stands only beside a date
\* that has come, and a warning only beside one overdue by the warning time
\* and after the head office was told (lines 121-151).
StufeBegruendet ==
    \A u \in Firmen : Angemessen(u, termin[u], stufe[u])
==============================================================================
