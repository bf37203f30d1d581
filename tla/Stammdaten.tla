----------------------------- MODULE Stammdaten ------------------------------
(***************************************************************************)
(* One row of the master data, edited on several pages at once.            *)
(* AdresseController stands for the eleven controllers of this shape.      *)
(*                                                                         *)
(* No version is kept (version false), so the check of update (lines       *)
(* 72-80) never refuses: forms are written over each other.  Hibernate     *)
(* writes a row that differs from what this request has loaded, and then   *)
(* all of its columns.                                                     *)
(***************************************************************************)
EXTENDS Naturals

CONSTANTS Spalte, Wert, Weg,   \* columns, what they may hold; the row is gone
          Gueltig(_),          \* the constraints of the domain class
          Seite,               \* pages, each with one request at a time
          MaxKlicks            \* bound: what users do

VARIABLES
    zeile,    \* the row
    seite,    \* the page: its form, or Weg for another page
    anfrage,  \* the request of a page
    klicks

vars == <<zeile, seite, anfrage, klicks>>

Inhalt == [Spalte -> Wert]
Ruhe == [pc |-> "frei", form |-> Weg, geladen |-> Weg, allein |-> TRUE]

Init ==
    /\ zeile \in {i \in Inhalt : Gueltig(i)}
    /\ seite = [s \in Seite |-> Weg]
    /\ anfrage = [s \in Seite |-> Ruhe]
    /\ klicks = 0

Klick == klicks < MaxKlicks /\ klicks' = klicks + 1

\* edit (lines 58-67).
Edit(s) ==
    /\ Klick
    /\ anfrage[s].pc = "frei"
    /\ zeile # Weg
    /\ seite' = [seite EXCEPT ![s] = zeile]
    /\ UNCHANGED <<zeile, anfrage>>

\* The form has a field for every column; the user changes some.
Absenden(s, art, form) ==
    /\ Klick
    /\ anfrage[s].pc = "frei"
    /\ seite[s] # Weg
    /\ art = "delete" => form = seite[s]
    /\ anfrage' = [anfrage EXCEPT ![s] = [Ruhe EXCEPT !.pc = art, !.form = form]]
    /\ seite' = [seite EXCEPT ![s] = Weg]
    /\ UNCHANGED zeile

Weiter(s, r, geschrieben) ==
    /\ anfrage' = [t \in Seite |->
           IF t = s THEN r ELSE [anfrage[t] EXCEPT !.allein = @ /\ ~geschrieben]]
    /\ UNCHANGED klicks

\* Lines 70 and 97: the row is loaded; if there is none, the list comes next.
Laden(s) ==
    /\ anfrage[s].pc \in {"update", "delete"}
    /\ Weiter(s, IF zeile = Weg THEN Ruhe
                 ELSE [anfrage[s] EXCEPT !.pc = IF @ = "update" THEN "speichern" ELSE "loeschen",
                                         !.geladen = zeile, !.allein = TRUE], FALSE)
    /\ UNCHANGED <<zeile, seite>>

\* Fault: only what the form changes is written.
Geschrieben_Spaltenweise(r) ==
    [sp \in Spalte |-> IF r.form[sp] # r.geladen[sp] THEN r.form[sp] ELSE zeile[sp]]

\* What the flush makes of the row: nothing if the form is what was loaded.
Geschrieben(r) == IF r.form = r.geladen THEN zeile ELSE r.form

\* Lines 81-85: the form is bound and flushed.  A row deleted meanwhile is an
\* error if it has to be written.
Speichern(s) ==
    LET r == anfrage[s]
    IN  /\ r.pc = "speichern"
        /\ Gueltig(r.form)
        /\ zeile' = IF zeile = Weg THEN Weg ELSE Geschrieben(r)
        /\ Weiter(s, [r EXCEPT !.pc = "fertig"], zeile' # zeile)
        /\ UNCHANGED seite

\* Line 87: the form is not valid, nothing is written, the page comes again
\* with what was typed.
Ablehnen(s) ==
    LET r == anfrage[s]
    IN  /\ r.pc = "speichern"
        /\ ~Gueltig(r.form)
        /\ Weiter(s, Ruhe, FALSE)
        /\ seite' = [seite EXCEPT ![s] = r.form]
        /\ UNCHANGED zeile

\* Lines 96-107: the row is deleted, or the database refuses because others
\* refer to it.
Loeschen(s) ==
    /\ anfrage[s].pc = "loeschen"
    /\ \E ok \in BOOLEAN :
           /\ zeile' = IF ok THEN Weg ELSE zeile
           /\ Weiter(s, Ruhe, ok)
    /\ UNCHANGED seite

Antworten(s) ==
    /\ anfrage[s].pc = "fertig"
    /\ Weiter(s, Ruhe, FALSE)
    /\ UNCHANGED <<zeile, seite>>

Next ==
    \E s \in Seite :
        \/ Edit(s)
        \/ \E art \in {"update", "delete"}, form \in Inhalt : Absenden(s, art, form)
        \/ Laden(s) \/ Speichern(s) \/ Ablehnen(s) \/ Loeschen(s) \/ Antworten(s)

Spec == Init /\ [][Next]_vars
-----------------------------------------------------------------------------
\* Whatever overlaps, the row is never a mixture: a step leaves it, deletes it,
\* or makes it one valid form in whole; and an update no other request wrote
\* beside leaves exactly its form, although nothing checks for versions.
LetzteSpeicherung ==
    [][/\ zeile' # zeile => zeile' = Weg \/ \E s \in Seite : zeile' = anfrage[s].form
       /\ zeile' # Weg => Gueltig(zeile')
       /\ \A s \in Seite :
             (anfrage[s].pc = "speichern" /\ anfrage'[s].pc = "fertig" /\ anfrage[s].allein)
             => zeile' = anfrage[s].form]_vars
=============================================================================
