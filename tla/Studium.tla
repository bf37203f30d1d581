------------------------------- MODULE Studium -------------------------------
(***************************************************************************)
(* Studies of a person, entered and changed in several tabs of a browser   *)
(* (StudiumController).                                                    *)
(*                                                                         *)
(* No form holds the person: the link that opens it puts her id into the   *)
(* session, which all tabs share, and whichever request is answered next   *)
(* uses it up.  Requests run side by side.                                 *)
(***************************************************************************)
EXTENDS Naturals, FiniteSets

CONSTANTS
    Person,
    Keine,        \* null
    Tab,
    MaxStudien,   \* bound: ids of rows
    MaxKlicks     \* bound: what the user does, and restarts

VARIABLES
    studium,      \* table studium
    frisch,       \* the next id the database gives
    pid,          \* session.pid
    tab,          \* the pages shown
    anfrage,      \* the request of each tab
    klicks,
    geoeffnet,    \* observation: how often a form was opened for a person
    nacheinander  \* observation: no request began before another had ended

vars == <<studium, frisch, pid, tab, anfrage, klicks, geoeffnet, nacheinander>>

Niemand == Person \cup {Keine}
Zeile == [id : 1 .. MaxStudien, person : Niemand]

\* The form shown (if any), for which row; the person of the link that opened
\* it, and whether nothing else has happened in the session since.
Seite == [form : {"keine", "neu", "aendern"}, studie : 0 .. MaxStudien,
          soll : Niemand, treu : BOOLEAN]
LeereSeite == [form |-> "keine", studie |-> 0, soll |-> Keine, treu |-> FALSE]

Vorgang == [pc : {"frei", "schreiben", "pruefen", "zuordnen", "umleiten", "leeren", "fertig"},
            art : {"keine", "save", "update", "delete"},
            gueltig : BOOLEAN,      \* the form is valid; the row may be deleted
            seite : Seite,
            ziel : Niemand]         \* the person whose page comes next
Ruhe == [pc |-> "frei", art |-> "keine", gueltig |-> TRUE, seite |-> LeereSeite,
         ziel |-> Keine]

Init ==
    /\ studium \in {{}} \cup {{[id |-> 1, person |-> p]} : p \in Person}
    /\ frisch = Cardinality(studium) + 1
    /\ pid = Keine
    /\ tab = [t \in Tab |-> LeereSeite]
    /\ anfrage = [t \in Tab |-> Ruhe]
    /\ klicks = 0
    /\ geoeffnet = [p \in Person |-> Cardinality({z \in studium : z.person = p})]
    /\ nacheinander = TRUE
-----------------------------------------------------------------------------
Klick == klicks < MaxKlicks /\ klicks' = klicks + 1

Ruhig == \A t \in Tab : anfrage[t].pc = "frei"

\* Tab t does something the others do not know of, and shows s next.
Auftreten(t, s) ==
    /\ tab' = [u \in Tab |-> IF u = t THEN s ELSE [tab[u] EXCEPT !.treu = FALSE]]
    /\ nacheinander' = (nacheinander /\ Ruhig)

Stoeren(t) == [u \in Tab |-> [anfrage[u] EXCEPT !.seite.treu = @ /\ u = t]]

\* create (lines 20-30), from the page of a person or from the list; only the
\* former names a person.
Create(t, p) ==
    /\ Klick
    /\ anfrage[t].pc = "frei"
    /\ pid' = IF p = Keine THEN pid ELSE p
    /\ Auftreten(t, [form |-> "neu", studie |-> 0, soll |-> p, treu |-> Ruhig])
    /\ anfrage' = Stoeren(t)
    /\ geoeffnet' = [q \in Person |-> geoeffnet[q] + IF q = p THEN 1 ELSE 0]
    /\ UNCHANGED <<studium, frisch>>

\* Fault: an edit page without a person leaves the one remembered.
Edit_Behaltend(t, z, p) ==
    /\ Klick
    /\ anfrage[t].pc = "frei"
    /\ pid' = IF p = Keine THEN pid ELSE p
    /\ Auftreten(t, [form |-> "aendern", studie |-> z.id, soll |-> p, treu |-> Ruhig])
    /\ anfrage' = Stoeren(t)
    /\ geoeffnet' = [q \in Person |-> geoeffnet[q] + IF q = p THEN 1 ELSE 0]
    /\ UNCHANGED <<studium, frisch>>

\* edit (lines 82-98), from the page of a person or from that of the study.
Edit(t, z, p) ==
    /\ Klick
    /\ anfrage[t].pc = "frei"
    /\ pid' = p
    /\ Auftreten(t, [form |-> "aendern", studie |-> z.id, soll |-> p, treu |-> Ruhig])
    /\ anfrage' = Stoeren(t)
    /\ geoeffnet' = [q \in Person |-> geoeffnet[q] + IF q = p THEN 1 ELSE 0]
    /\ UNCHANGED <<studium, frisch>>

Absenden(t, art, gueltig) ==
    /\ Klick
    /\ anfrage[t].pc = "frei"
    /\ tab[t].form = IF art = "save" THEN "neu" ELSE "aendern"
    /\ anfrage' = [Stoeren(t) EXCEPT ![t] =
                      [Ruhe EXCEPT !.pc = "schreiben", !.art = art, !.gueltig = gueltig,
                                   !.seite = [tab[t] EXCEPT !.treu = @ /\ Ruhig]]]
    /\ Auftreten(t, LeereSeite)
    /\ UNCHANGED <<studium, frisch, pid, geoeffnet>>
-----------------------------------------------------------------------------
Weiter(t, r) ==
    /\ anfrage' = [anfrage EXCEPT ![t] = r]
    /\ UNCHANGED <<klicks, geoeffnet, nacheinander>>
Nach(t, pc) == Weiter(t, [anfrage[t] EXCEPT !.pc = pc])

Reihe(t) == {z \in studium : z.id = anfrage[t].seite.studie}

\* The row is written: save 34-39, update 102-111, delete 137-140.  A new row
\* has no person yet.
Schreiben(t) ==
    LET r == anfrage[t]
    IN  /\ r.pc = "schreiben"
        /\ r.gueltig
        /\ \/ /\ r.art = "save" /\ frisch <= MaxStudien
              /\ studium' = studium \cup {[id |-> frisch, person |-> Keine]}
              /\ frisch' = frisch + 1
              /\ Weiter(t, [r EXCEPT !.pc = "pruefen", !.seite.studie = frisch])
           \/ /\ r.art # "save" /\ Reihe(t) # {}
              /\ frisch' = frisch
              /\ studium' = IF r.art = "delete" THEN studium \ Reihe(t) ELSE studium
              /\ Nach(t, "pruefen")
        /\ UNCHANGED <<pid, tab>>

\* An invalid form is shown again (line 59, 124); a row that cannot be deleted,
\* or is not there, leads to another page.
NichtSchreiben(t) ==
    LET r == anfrage[t]
    IN  /\ r.pc = "schreiben"
        /\ ~r.gueltig \/ (r.art # "save" /\ Reihe(t) = {})
        /\ tab' = IF ~r.gueltig /\ (r.art = "save" \/ (r.art = "update" /\ Reihe(t) # {}))
                  THEN [tab EXCEPT ![t] = r.seite] ELSE tab
        /\ Weiter(t, Ruhe)
        /\ UNCHANGED <<studium, frisch, pid>>

\* Lines 41, 113, 141: is there a person in the session?
Pruefen(t) ==
    /\ anfrage[t].pc = "pruefen"
    /\ Nach(t, IF pid = Keine THEN "fertig"
               ELSE IF anfrage[t].art = "save" THEN "zuordnen" ELSE "umleiten")
    /\ UNCHANGED <<studium, frisch, pid, tab>>

\* Lines 43-45: the person who is in the session now, if any.
Zuordnen(t) ==
    /\ anfrage[t].pc = "zuordnen"
    /\ studium' = {IF z.id = anfrage[t].seite.studie THEN [z EXCEPT !.person = pid] ELSE z
                   : z \in studium}
    /\ Nach(t, "umleiten")
    /\ UNCHANGED <<frisch, pid, tab>>

\* Lines 46, 114, 144.
Umleiten(t) ==
    /\ anfrage[t].pc = "umleiten"
    /\ Weiter(t, [anfrage[t] EXCEPT !.pc = "leeren", !.ziel = pid])
    /\ UNCHANGED <<studium, frisch, pid, tab>>

\* Fault: the person stays in the session.
Leeren_Vergessen(t) ==
    /\ anfrage[t].pc = "leeren"
    /\ Nach(t, "fertig")
    /\ UNCHANGED <<studium, frisch, pid, tab>>

\* Lines 47, 115, 145.
Leeren(t) ==
    /\ anfrage[t].pc = "leeren"
    /\ pid' = Keine
    /\ Nach(t, "fertig")
    /\ UNCHANGED <<studium, frisch, tab>>

Antworten(t) ==
    /\ anfrage[t].pc = "fertig"
    /\ Weiter(t, Ruhe)
    /\ UNCHANGED <<studium, frisch, pid, tab>>

\* The server stops and comes back: sessions and requests are gone, the pages
\* stay where they are.
Neustart ==
    /\ Klick
    /\ pid' = Keine
    /\ anfrage' = [t \in Tab |-> Ruhe]
    /\ tab' = [t \in Tab |-> [tab[t] EXCEPT !.treu = FALSE]]
    /\ nacheinander' = (nacheinander /\ Ruhig)
    /\ UNCHANGED <<studium, frisch, geoeffnet>>

Next ==
    \/ \E t \in Tab :
          \/ \E p \in Niemand : Create(t, p) \/ \E z \in studium : Edit(t, z, p)
          \/ \E art \in {"save", "update", "delete"}, g \in BOOLEAN : Absenden(t, art, g)
          \/ Schreiben(t) \/ NichtSchreiben(t) \/ Pruefen(t)
          \/ Zuordnen(t) \/ Umleiten(t) \/ Leeren(t) \/ Antworten(t)
    \/ Neustart

Spec == Init /\ [][Next]_vars
-----------------------------------------------------------------------------
\* A form opened for a person, with nothing else done in the session until it
\* is answered: its study is hers and the user comes back to her page, whatever
\* was begun and left before.  A page opened for nobody leads to nobody's.
StudiumGehoertZuPerson ==
    \A t \in Tab :
        LET r == anfrage[t]
        IN  (r.pc = "fertig" /\ r.seite.treu) =>
               /\ (r.art # "save" \/ r.seite.soll # Keine) => r.ziel = r.seite.soll
               /\ (r.art = "save" /\ r.seite.soll # Keine) =>
                     \E z \in studium : z.id = r.seite.studie /\ z.person = r.seite.soll

\* The person remembered is used up: as long as one request follows another,
\* nobody has more studies than forms were opened for her, however often a form
\* is sent and whichever tabs are left open.
EinStudiumJeFormular ==
    nacheinander =>
        \A p \in Person : Cardinality({z \in studium : z.person = p}) <= geoeffnet[p]
=============================================================================
