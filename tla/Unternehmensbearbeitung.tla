----------------------- MODULE Unternehmensbearbeitung -----------------------
(***************************************************************************)
(* Creating, editing and deleting a company (UnternehmenController save,   *)
(* update, delete): its row, its address, its employees, and its mails,    *)
(* phones and homepages ("Arten", which update treats one after another    *)
(* and alike).  There is no transaction: a request flushes many times, and *)
(* whatever ends it, what was flushed before stays.                        *)
(*                                                                         *)
(* One step of a request lies between two flushes.  What a row says is     *)
(* represented by the number of the request that wrote it last.            *)
(***************************************************************************)
EXTENDS Integers, Sequences, FiniteSets

CONSTANTS
    Firma,
    Belegt,        \* companies with projects, which the database keeps
    Arten,         \* the kinds of entries in the order of update
    Sofort,        \* the kinds whose changed entries are flushed one by one
    Anfrage,       \* requests and open forms at one time
    MaxAnfragen,   \* bound: the requests of a behaviour
    Stoerung       \* whether requests may die and the server may stop

ASSUME BearbeitungAssumption ==
    /\ Belegt \subseteq Firma
    /\ Arten \in Seq(STRING)
    /\ \A i \in DOMAIN Arten : Arten[i] # "mitarbeiter"
    /\ \A i, j \in DOMAIN Arten : Arten[i] = Arten[j] => i = j
    /\ MaxAnfragen \in Nat
    /\ Stoerung \in BOOLEAN

VARIABLES
    stamm,     \* who wrote the row of each company last, Fehlt if there is none
    unbenutzt, \* the companies nobody has tried to create: an id is given once
    adressen,  \* the companies an address is stored for
    verwaist,  \* observation: the companies whose creation died half way
    zeilen,    \* employees and entries
    naechste,  \* the next number of a row
    sitzung,   \* the session of each request
    anfragen   \* how many requests there have been

vars == <<stamm, unbenutzt, adressen, verwaist, zeilen, naechste, sitzung, anfragen>>

Fehlt == -1
Listen == {"mitarbeiter"} \cup {Arten[i] : i \in DOMAIN Arten}
Zeile == [nr : Nat, firma : Firma, art : Listen, stand : Nat]

\* What a form says of a list: the rows it still shows, and how many new ones.
Liste == [behalten : SUBSET Nat, neu : 0..1]
LeereListe == [behalten |-> {}, neu |-> 0]

Sitzung ==
    [pc : {"frei", "formular", "mitarbeiter", "art", "eintraege", "speichern",
           "anlegen", "entlassen"},
     firma : Firma, nummer : Nat,
     gesehen : SUBSET Zeile,         \* the rows when the form was opened
     form : [Listen -> Liste],
     i : Nat,                        \* the kind at hand is Arten[i]
     gelesen : BOOLEAN,              \* whether its rows have been looked up
     aendern : SUBSET Nat, loeschen : SUBSET Nat, einfuegen : 0..1, \* to be done
     vorgemerkt : SUBSET Nat,        \* changed in memory, not yet flushed
     neueMitarbeiter : 0..1,         \* likewise added
     ungestoert : BOOLEAN]  \* observation: nobody else has written since

Leer(u) ==
    [pc |-> "frei", firma |-> u, nummer |-> 0, gesehen |-> {},
     form |-> [l \in Listen |-> LeereListe], i |-> 0, gelesen |-> FALSE,
     aendern |-> {}, loeschen |-> {}, einfuegen |-> 0,
     vorgemerkt |-> {}, neueMitarbeiter |-> 0, ungestoert |-> TRUE]

NrVon(u, art) == {z.nr : z \in {y \in zeilen : y.firma = u /\ y.art = art}}

\* One company is there, with an employee and an entry of each kind; the others
\* are yet to be created.
Init ==
    \E u \in Firma :
        /\ stamm = [v \in Firma |-> IF v = u THEN 0 ELSE Fehlt]
        /\ unbenutzt = Firma \ {u}
        /\ adressen = {u}
        /\ verwaist = {}
        /\ zeilen = {[nr |-> 1, firma |-> u, art |-> "mitarbeiter", stand |-> 0]}
                    \cup {[nr |-> 1 + i, firma |-> u, art |-> Arten[i], stand |-> 0]
                            : i \in DOMAIN Arten}
        /\ naechste = 2 + Len(Arten)
        /\ sitzung = [a \in Anfrage |-> Leer(u)]
        /\ anfragen = 0

---------------------------------------------------------------------------
(* The session.                                                            *)

\* Request a goes on as s; the others learn that something was written.
Weiter(a, s, geschrieben) ==
    sitzung' = [b \in Anfrage |->
                  IF b = a THEN s
                  ELSE [sitzung[b] EXCEPT
                          !.ungestoert = @ /\ ~(geschrieben /\ sitzung[b].pc # "frei")]]

Ende(a) == Leer(sitzung[a].firma)

\* An exception ends the request; what it has not flushed is lost.
Abbrechen(a) ==
    /\ Weiter(a, Ende(a), FALSE)
    /\ UNCHANGED <<zeilen, naechste>>

\* A flush of session s that also deletes the rows "weg" and inserts k rows of
\* kind "art".  Changing or deleting a row that is gone is an exception, and so
\* is inserting one for a company that is gone.
Spuelen(a, s, weg, art, k) ==
    LET anzahl == k + s.neueMitarbeiter
        neue == {[nr |-> naechste + j, firma |-> s.firma, stand |-> s.nummer,
                  art |-> IF j < k THEN art ELSE "mitarbeiter"] : j \in 0..(anzahl - 1)}
        bleiben == {z \in zeilen : z.nr \notin weg}
    IN  IF /\ s.vorgemerkt \cup weg \subseteq {z.nr : z \in zeilen}
           /\ anzahl > 0 => stamm[s.firma] # Fehlt
        THEN /\ zeilen' = {z \in bleiben : z.nr \notin s.vorgemerkt} \cup neue
                          \cup {[z EXCEPT !.stand = s.nummer]
                                  : z \in {y \in bleiben : y.nr \in s.vorgemerkt}}
             /\ naechste' = naechste + anzahl
             /\ Weiter(a, [s EXCEPT !.vorgemerkt = {}, !.neueMitarbeiter = 0], TRUE)
        ELSE Abbrechen(a)

\* A new request of a for company u.
Beginnen(a, u, pc) ==
    [Leer(u) EXCEPT !.pc = pc, !.nummer = anfragen + 1]

Gezaehlt == anfragen < MaxAnfragen /\ anfragen' = anfragen + 1

---------------------------------------------------------------------------
(* save                                                                    *)

AdresseAnlegen(a, u) ==
    /\ sitzung[a].pc = "frei"
    /\ u \in unbenutzt
    /\ Gezaehlt
    /\ unbenutzt' = unbenutzt \ {u}
    /\ adressen' = adressen \cup {u}
    /\ Weiter(a, Beginnen(a, u, "anlegen"), TRUE)
    /\ UNCHANGED <<stamm, verwaist, zeilen, naechste>>

\* The company is saved with all it has been given in the form.
FirmaAnlegen(a) ==
    LET s == sitzung[a]
    IN  /\ s.pc = "anlegen"
        /\ \E arten \in SUBSET Listen : \E folge \in [1..Cardinality(arten) -> arten] :
              /\ \A l \in arten : \E j \in DOMAIN folge : folge[j] = l
              /\ zeilen' = zeilen \cup
                    {[nr |-> naechste + j - 1, firma |-> s.firma,
                      art |-> folge[j], stand |-> s.nummer] : j \in DOMAIN folge}
              /\ naechste' = naechste + Cardinality(arten)
        /\ stamm' = [stamm EXCEPT ![s.firma] = s.nummer]
        /\ Weiter(a, Ende(a), TRUE)
        /\ UNCHANGED <<unbenutzt, adressen, verwaist, anfragen>>

\* Fault: the address stays.
AnlegenScheitert_OhneRollback(a) ==
    /\ sitzung[a].pc = "anlegen"
    /\ Weiter(a, Ende(a), TRUE)
    /\ UNCHANGED <<stamm, unbenutzt, adressen, verwaist, zeilen, naechste, anfragen>>

\* The company is invalid: "rollback adresse".
AnlegenScheitert(a) ==
    /\ sitzung[a].pc = "anlegen"
    /\ adressen' = adressen \ {sitzung[a].firma}
    /\ Weiter(a, Ende(a), TRUE)
    /\ UNCHANGED <<stamm, unbenutzt, verwaist, zeilen, naechste, anfragen>>

---------------------------------------------------------------------------
(* edit and update                                                         *)

EditLaden(a, u) ==
    /\ sitzung[a].pc = "frei"
    /\ stamm[u] # Fehlt
    /\ Gezaehlt
    /\ Weiter(a, [Beginnen(a, u, "formular") EXCEPT
                     !.gesehen = {z \in zeilen : z.firma = u}], FALSE)
    /\ UNCHANGED <<stamm, unbenutzt, adressen, verwaist, zeilen, naechste>>

LeereForm(f) == f.behalten = {} /\ f.neu = 0

\* The employees to be deleted: the closure given to any does not compare, it
\* holds for every entry of the form, so that it is all or none.
Weggefallene(f, vorhandene) == IF LeereForm(f) THEN vorhandene ELSE {}

\* Fault: a new row, with number -1 in the form, is taken for an old one.
Bestehende_AuchNeue(f) == f.behalten \cup (IF f.neu = 1 THEN {-1} ELSE {})

Bestehende(f) == f.behalten

Formulare(gesehen) ==
    {f \in [Listen -> [behalten : SUBSET {z.nr : z \in gesehen}, neu : 0..1]] :
        \A l \in Listen : \A n \in f[l].behalten :
            \E z \in gesehen : z.nr = n /\ z.art = l}

\* The form comes back; a company deleted meanwhile is a null dereference.
Absenden(a) ==
    LET s == sitzung[a]
    IN  /\ s.pc = "formular"
        /\ IF stamm[s.firma] = Fehlt THEN Abbrechen(a)
           ELSE \E form \in Formulare(s.gesehen) :
                   /\ Weiter(a, [s EXCEPT
                        !.pc = "mitarbeiter", !.form = form,
                        !.loeschen = Weggefallene(form["mitarbeiter"],
                                                  NrVon(s.firma, "mitarbeiter")),
                        !.aendern = Bestehende(form["mitarbeiter"]),
                        !.einfuegen = form["mitarbeiter"].neu], FALSE)
                   /\ UNCHANGED <<zeilen, naechste>>
        /\ UNCHANGED <<stamm, unbenutzt, adressen, verwaist, anfragen>>

\* Deleting an employee of the company, in update and in delete.
MitarbeiterLoeschen(a) ==
    LET s == sitzung[a]
    IN  /\ s.pc \in {"mitarbeiter", "entlassen"}
        /\ \E n \in s.loeschen :
              Spuelen(a, [s EXCEPT !.loeschen = @ \ {n}], {n}, "mitarbeiter", 0)
        /\ UNCHANGED <<stamm, unbenutzt, adressen, verwaist, anfragen>>

\* One employee of the form.  A new one has no company yet and is not saved
\* before a later flush reaches it through the company.
MitarbeiterSpeichern(a) ==
    LET s == sitzung[a]
    IN  /\ s.pc = "mitarbeiter"
        /\ s.loeschen = {}
        /\ \/ \E n \in s.aendern :
                 Spuelen(a, [s EXCEPT !.aendern = @ \ {n},
                                      !.vorgemerkt = @ \cup {n}], {}, "mitarbeiter", 0)
           \/ /\ s.einfuegen = 1
              /\ Weiter(a, [s EXCEPT !.einfuegen = 0, !.neueMitarbeiter = 1], FALSE)
              /\ UNCHANGED <<zeilen, naechste>>
        /\ UNCHANGED <<stamm, unbenutzt, adressen, verwaist, anfragen>>

Getan(s) == s.aendern = {} /\ s.loeschen = {} /\ s.einfuegen = 0

\* Exactly one entry in the form: the parameter is a string and not a list.
Einzeln(f) == Cardinality(f.behalten) + f.neu = 1

\* The next kind.  With one entry in the form update goes through the entries
\* of the company, changes the one and deletes the others; otherwise it goes
\* through the entries of the form first.
ArtBeginnen(a) ==
    LET s == sitzung[a]
        i == s.i + 1
        f == s.form[Arten[i]]
        da == NrVon(s.firma, Arten[i])
        naechstes ==
            IF i > Len(Arten) THEN [s EXCEPT !.pc = "speichern"]
            ELSE IF Einzeln(f)
            THEN [s EXCEPT !.pc = "eintraege", !.i = i, !.gelesen = TRUE,
                           !.aendern = Bestehende(f) \cap da,
                           !.loeschen = da \ f.behalten, !.einfuegen = f.neu]
            ELSE [s EXCEPT !.pc = "eintraege", !.i = i, !.gelesen = FALSE,
                           !.aendern = Bestehende(f), !.einfuegen = f.neu]
    IN  /\ \/ s.pc = "mitarbeiter"
           \/ s.pc = "eintraege" /\ s.gelesen
        /\ Getan(s)
        /\ Weiter(a, naechstes, FALSE)
        /\ UNCHANGED <<stamm, unbenutzt, adressen, verwaist, zeilen, naechste, anfragen>>

EintragAendern(a) ==
    LET s == sitzung[a]
        art == Arten[s.i]
    IN  /\ s.pc = "eintraege"
        /\ \E n \in s.aendern :
              LET t == [s EXCEPT !.aendern = @ \ {n}, !.vorgemerkt = @ \cup {n}]
              IN  IF Einzeln(s.form[art]) \/ art \in Sofort
                  THEN Spuelen(a, t, {}, art, 0)
                  ELSE IF n \in NrVon(s.firma, art)
                  THEN Weiter(a, t, FALSE) /\ UNCHANGED <<zeilen, naechste>>
                  ELSE Abbrechen(a)
        /\ UNCHANGED <<stamm, unbenutzt, adressen, verwaist, anfragen>>

\* Fault: entries the form no longer shows are kept.
Ueberzaehlige_Keine(f, vorhandene) == (vorhandene \ f.behalten) \cap f.behalten

\* "alles was uebrig bleibt, wurde vom User geloescht"
Ueberzaehlige(f, vorhandene) == vorhandene \ f.behalten

EintraegeVergleichen(a) ==
    LET s == sitzung[a]
        art == Arten[s.i]
    IN  /\ s.pc = "eintraege"
        /\ ~s.gelesen /\ s.aendern = {}
        /\ Weiter(a, [s EXCEPT !.gelesen = TRUE,
                               !.loeschen = Ueberzaehlige(s.form[art], NrVon(s.firma, art))],
                  FALSE)
        /\ UNCHANGED <<stamm, unbenutzt, adressen, verwaist, zeilen, naechste, anfragen>>

\* A list deletes before it adds, a single entry is added first.
EintragLoeschen(a) ==
    LET s == sitzung[a]
    IN  /\ s.pc = "eintraege"
        /\ s.gelesen /\ s.aendern = {}
        /\ Einzeln(s.form[Arten[s.i]]) => s.einfuegen = 0
        /\ \E n \in s.loeschen :
              Spuelen(a, [s EXCEPT !.loeschen = @ \ {n}], {n}, Arten[s.i], 0)
        /\ UNCHANGED <<stamm, unbenutzt, adressen, verwaist, anfragen>>

EintragEinfuegen(a) ==
    LET s == sitzung[a]
    IN  /\ s.pc = "eintraege"
        /\ s.gelesen /\ s.aendern = {} /\ s.einfuegen = 1
        /\ Einzeln(s.form[Arten[s.i]]) \/ s.loeschen = {}
        /\ Spuelen(a, [s EXCEPT !.einfuegen = 0], {}, Arten[s.i], 1)
        /\ UNCHANGED <<stamm, unbenutzt, adressen, verwaist, anfragen>>

\* The row of the company: there is no version to compare (the mapping says
\* "version false"), and a company that is gone is an exception.
FirmaSchreiben(a) ==
    LET s == sitzung[a]
    IN  IF stamm[s.firma] = Fehlt THEN Abbrechen(a) /\ UNCHANGED stamm
        ELSE /\ stamm' = [stamm EXCEPT ![s.firma] = s.nummer]
             /\ Spuelen(a, [Ende(a) EXCEPT !.nummer = s.nummer,
                                           !.vorgemerkt = s.vorgemerkt,
                                           !.neueMitarbeiter = s.neueMitarbeiter],
                        {}, "mitarbeiter", 0)

Speichern(a) ==
    /\ sitzung[a].pc = "speichern"
    /\ FirmaSchreiben(a)
    /\ UNCHANGED <<unbenutzt, adressen, verwaist, anfragen>>

\* The company is invalid and nothing more is flushed, or the form could not
\* be bound, save is not called, and the end of the request flushes.
SpeichernScheitert(a) ==
    /\ Stoerung
    /\ sitzung[a].pc = "speichern"
    /\ (Abbrechen(a) /\ UNCHANGED stamm) \/ FirmaSchreiben(a)
    /\ UNCHANGED <<unbenutzt, adressen, verwaist, anfragen>>

---------------------------------------------------------------------------
(* delete                                                                  *)

DeleteBeginnen(a, u) ==
    /\ sitzung[a].pc = "frei"
    /\ stamm[u] # Fehlt
    /\ Gezaehlt
    /\ Weiter(a, [Beginnen(a, u, "entlassen") EXCEPT
                     !.loeschen = NrVon(u, "mitarbeiter")], FALSE)
    /\ UNCHANGED <<stamm, unbenutzt, adressen, verwaist, zeilen, naechste>>

\* The last flush deletes the entries, then the company, then its address.  If
\* the company is still referred to, its row and address stay, the entries are
\* gone all the same.
FirmaLoeschen(a) ==
    LET u == sitzung[a].firma
        gesperrt == u \in Belegt \/ NrVon(u, "mitarbeiter") # {}
    IN  /\ sitzung[a].pc = "entlassen"
        /\ sitzung[a].loeschen = {}
        /\ IF stamm[u] = Fehlt
           THEN Abbrechen(a) /\ UNCHANGED <<stamm, adressen>>
           ELSE /\ zeilen' = {z \in zeilen : z.firma = u => z.art = "mitarbeiter"}
                /\ Weiter(a, Ende(a), TRUE)
                /\ UNCHANGED naechste
                /\ IF gesperrt THEN UNCHANGED <<stamm, adressen>>
                   ELSE /\ stamm' = [stamm EXCEPT ![u] = Fehlt]
                        /\ adressen' = adressen \ {u}
        /\ UNCHANGED <<unbenutzt, verwaist, anfragen>>

---------------------------------------------------------------------------

\* A form is abandoned.
FormularVerwerfen(a) ==
    /\ sitzung[a].pc = "formular"
    /\ Abbrechen(a)
    /\ UNCHANGED <<stamm, unbenutzt, adressen, verwaist, anfragen>>

\* A request dies between two flushes: a malformed date, the server stops.
Absturz(a) ==
    /\ Stoerung
    /\ sitzung[a].pc \notin {"frei", "formular"}
    /\ Abbrechen(a)
    /\ verwaist' = IF sitzung[a].pc = "anlegen" THEN verwaist \cup {sitzung[a].firma}
                   ELSE verwaist
    /\ UNCHANGED <<stamm, unbenutzt, adressen, anfragen>>

Next ==
    \E a \in Anfrage :
        \/ \E u \in Firma : \/ AdresseAnlegen(a, u)
                            \/ EditLaden(a, u)
                            \/ DeleteBeginnen(a, u)
        \/ FirmaAnlegen(a)
        \/ AnlegenScheitert(a)
        \/ Absenden(a)
        \/ MitarbeiterLoeschen(a)
        \/ MitarbeiterSpeichern(a)
        \/ ArtBeginnen(a)
        \/ EintragAendern(a)
        \/ EintraegeVergleichen(a)
        \/ EintragLoeschen(a)
        \/ EintragEinfuegen(a)
        \/ Speichern(a)
        \/ SpeichernScheitert(a)
        \/ FirmaLoeschen(a)
        \/ FormularVerwerfen(a)
        \/ Absturz(a)

Spec == Init /\ [][Next]_vars

---------------------------------------------------------------------------
(* Properties                                                              *)

TypeOK ==
    /\ stamm \in [Firma -> Nat \cup {Fehlt}]
    /\ unbenutzt \subseteq Firma /\ adressen \subseteq Firma /\ verwaist \subseteq Firma
    /\ \A z \in zeilen : z \in Zeile /\ z.nr < naechste
    /\ naechste \in Nat
    /\ sitzung \in [Anfrage -> Sitzung]
    /\ anfragen \in 0..MaxAnfragen

\* Unless the company is just being created, or its creation died half way, it
\* has an address if and only if it is there: creating undoes the address when
\* the company fails, deleting takes both or neither, whatever else goes on
\* ("rollback adresse", line 319; Adresse.groovy, "wird automatisch geloescht").
AdresseMitFirma ==
    \A u \in Firma :
        (\A a \in Anfrage : sitzung[a].pc = "anlegen" => sitzung[a].firma # u)
        => (u \in adressen <=> stamm[u] # Fehlt \/ u \in verwaist)

Art(zz, u, l) == {z \in zz : z.firma = u /\ z.art = l}

\* What an update leaves: every list of entries is what the form shows, all of
\* it written by this request; the employees are gone if the form shows none,
\* and otherwise none is lost, the ones in the form are written and a new one is
\* there.
Uebernommen(a) ==
    LET s == sitzung[a]
        u == s.firma
        mit == s.form["mitarbeiter"]
        neu(l) == Art(zeilen', u, l) \ {z \in zeilen' : z.nr \in {y.nr : y \in s.gesehen}}
    IN  /\ stamm'[u] = s.nummer
        /\ \A l \in Listen \ {"mitarbeiter"} :
              /\ {z.nr : z \in Art(zeilen', u, l)} \cap {z.nr : z \in s.gesehen}
                   = s.form[l].behalten
              /\ Cardinality(neu(l)) = s.form[l].neu
              /\ \A z \in Art(zeilen', u, l) : z.stand = s.nummer
        /\ Cardinality(neu("mitarbeiter")) = mit.neu
        /\ \A z \in zeilen' : z.nr \in mit.behalten => z.stand = s.nummer
        /\ {z.nr : z \in Art(zeilen', u, "mitarbeiter") \ neu("mitarbeiter")}
             = IF LeereForm(mit) THEN {}
               ELSE {z.nr : z \in Art(s.gesehen, u, "mitarbeiter")}

\* An update that was saved and during which, the form included, nobody else
\* wrote has taken over the whole form (UnternehmenController update).
NachUpdate ==
    [][\A a \in Anfrage : Speichern(a) /\ sitzung[a].ungestoert => Uebernommen(a)]_vars

\* The comment of lines 427-429: employees the form no longer shows are
\* deleted from the company.
GeloeschteMitarbeiterFehlen ==
    [][\A a \in Anfrage :
          Speichern(a) /\ sitzung[a].ungestoert =>
             \A z \in Art(zeilen', sitzung[a].firma, "mitarbeiter") :
                z \in sitzung[a].gesehen => z.nr \in sitzung[a].form["mitarbeiter"].behalten
      ]_vars

=============================================================================
