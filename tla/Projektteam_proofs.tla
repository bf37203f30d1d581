-------------------------- MODULE Projektteam_proofs --------------------------
(***************************************************************************)
(* The team of a project for any number of persons, pages and requests:    *)
(* type correctness; where a leader outside the team comes from; and, of   *)
(* requests that no other has disturbed and pages that nothing has passed  *)
(* by, that the page shows what is stored and that dialogs and update do   *)
(* what they say.                                                          *)
(***************************************************************************)
EXTENDS Projektteam, FiniteSetTheorems, TLAPS

\* What a request at hand needs: update goes through rows of its own form, and
\* whoever is to be added is a person.
Passend(r) ==
    /\ r.pc = "zeilen" => r.weg \subseteq Ids(r.form.tm)
    /\ r.pc = "fmaZeilen" => r.weg \subseteq Ids(r.form.fma)
    /\ r.pc = "anlegen" => r.wer \in Person

TabellenOK ==
    /\ tm \subseteq Zeile
    /\ fma \subseteq Zeile
    /\ leiter \subseteq Leiter
    /\ frisch \in 1 .. MaxZeilen + 1

NetzOK ==
    /\ seite \in [Seite -> Browserseite]
    /\ anfrage \in [Anfrage -> Vorgang]
    /\ klicks \in 0 .. MaxKlicks
    /\ \A a \in Anfrage : Passend(anfrage[a])

Inv == TabellenOK /\ NetzOK

LEMMA LeereFormTyp == LeeresFormular \in Formular
  BY DEF LeeresFormular, Formular

LEMMA RuheFolgt == Ruhe \in Vorgang /\ Passend(Ruhe)
  <1>1. Ruhe \in Vorgang
    BY LeereFormTyp DEF Ruhe, Vorgang
  <1> QED
    BY <1>1 DEF Passend, Ruhe

LEMMA TabellenBleiben ==
    ASSUME TabellenOK, UNCHANGED tabellen
    PROVE  TabellenOK'
  BY DEF TabellenOK, tabellen

LEMMA IdsTyp ==
    ASSUME NEW z, z \subseteq Zeile
    PROVE  Ids(z) \subseteq Id
  BY DEF Ids, Zeile

\* What Weiter and Scheitern do to the other requests leaves them as they
\* were, apart from an observation, or idle.
LEMMA AndereFolgen ==
    ASSUME NEW r \in Vorgang, Passend(r), NEW x \in BOOLEAN
    PROVE  [r EXCEPT !.allein = x] \in Vorgang /\ Passend([r EXCEPT !.allein = x])
  BY DEF Vorgang, Passend

LEMMA SeitenFolgen ==
    ASSUME NEW p \in Browserseite, NEW x \in BOOLEAN
    PROVE  [p EXCEPT !.treu = x] \in Browserseite
  BY DEF Browserseite

LEMMA WeiterNetz ==
    ASSUME NetzOK, NEW a \in Anfrage, NEW r \in Vorgang, Passend(r), NEW g \in BOOLEAN,
           Weiter(a, r, g)
    PROVE  NetzOK'
  <1>1. \A b \in Anfrage : anfrage[b] \in Vorgang /\ Passend(anfrage[b])
    BY DEF NetzOK
  <1>2. \A b \in Anfrage : (anfrage[b].allein /\ ~g) \in BOOLEAN
    OBVIOUS
  <1>3. \A b \in Anfrage : [anfrage[b] EXCEPT !.allein = @ /\ ~g] \in Vorgang
                        /\ Passend([anfrage[b] EXCEPT !.allein = @ /\ ~g])
    BY <1>1, <1>2, AndereFolgen
  <1>4. anfrage' = [b \in Anfrage |->
            IF b = a THEN r
            ELSE IF anfrage[b].pc = "frei" THEN Ruhe
            ELSE [anfrage[b] EXCEPT !.allein = @ /\ ~g]]
    BY DEF Weiter
  <1>5. \A b \in Anfrage : anfrage'[b] \in Vorgang /\ Passend(anfrage'[b])
    BY <1>3, <1>4, RuheFolgt
  <1>6. anfrage' \in [Anfrage -> Vorgang]
    BY <1>4, <1>5
  <1>7. \A s \in Seite : seite[s] \in Browserseite /\ (seite[s].treu /\ ~g) \in BOOLEAN
    BY DEF NetzOK
  <1>8. \A s \in Seite : [seite[s] EXCEPT !.treu = @ /\ ~g] \in Browserseite
    BY <1>7, SeitenFolgen
  <1>9. seite' \in [Seite -> Browserseite]
    BY <1>7, <1>8 DEF Weiter
  <1>10. klicks' = klicks
    BY DEF Weiter
  <1> QED
    BY <1>5, <1>6, <1>9, <1>10 DEF NetzOK

LEMMA ScheiternInv ==
    ASSUME Inv, NEW a \in Anfrage, Scheitern(a)
    PROVE  Inv'
  <1>1. anfrage' \in [Anfrage -> Vorgang] /\ \A b \in Anfrage : Passend(anfrage'[b])
    BY RuheFolgt DEF Inv, NetzOK, Scheitern
  <1>2. \A s \in Seite : seite[s] \in Browserseite
    BY DEF Inv, NetzOK
  <1>3. \A s \in Seite : [seite[s] EXCEPT !.treu = FALSE] \in Browserseite
    BY <1>2, SeitenFolgen
  <1>4. seite' \in [Seite -> Browserseite]
    BY <1>2, <1>3 DEF Scheitern
  <1>5. UNCHANGED tabellen /\ klicks' = klicks
    BY DEF Scheitern
  <1> QED
    BY <1>1, <1>4, <1>5, TabellenBleiben DEF Inv, NetzOK

\* A step of a request that leaves the tables alone.
LEMMA ImSpeicher ==
    ASSUME Inv, NEW a \in Anfrage, NEW r \in Vorgang, Passend(r), NEW g \in BOOLEAN,
           Weiter(a, r, g), UNCHANGED tabellen
    PROVE  Inv'
  BY WeiterNetz, TabellenBleiben DEF Inv
------------------------------------------------------------------------------
LEMMA VorgangAmWerk ==
    ASSUME Inv, NEW a \in Anfrage
    PROVE  anfrage[a] \in Vorgang /\ Passend(anfrage[a])
  BY DEF Inv, NetzOK

LEMMA MitgliedSuchenInv ==
    ASSUME Inv, NEW a \in Anfrage, MitgliedSuchen(a)
    PROVE  Inv'
  <1> DEFINE r == anfrage[a]
  <1>1. r \in Vorgang /\ r.pc = "suchen" /\ UNCHANGED tabellen
    BY VorgangAmWerk DEF MitgliedSuchen
  <1> HIDE DEF r
  <1>2. PICK p \in r.rest \ {Keiner} :
           \/ Weiter(a, [r EXCEPT !.pc = "anlegen", !.wer = p], FALSE)
           \/ \E z \in {y \in tm : y.person = p} :
                 Weiter(a, [r EXCEPT !.liste = @ \cup {z}, !.rest = @ \ {p}], FALSE)
    BY DEF MitgliedSuchen, r
  <1>3. p \in Person
    BY <1>1, <1>2 DEF Vorgang
  <1>4. CASE Weiter(a, [r EXCEPT !.pc = "anlegen", !.wer = p], FALSE)
    <2>1. [r EXCEPT !.pc = "anlegen", !.wer = p] \in Vorgang
          /\ Passend([r EXCEPT !.pc = "anlegen", !.wer = p])
      BY <1>1, <1>3 DEF Vorgang, Passend
    <2> QED
      BY <1>1, <1>4, <2>1, ImSpeicher
  <1>5. ASSUME NEW z \in tm, Weiter(a, [r EXCEPT !.liste = @ \cup {z}, !.rest = @ \ {p}], FALSE)
        PROVE  Inv'
    <2>1. z \in Zeile
      BY DEF Inv, TabellenOK
    <2>2. [r EXCEPT !.liste = @ \cup {z}, !.rest = @ \ {p}] \in Vorgang
          /\ Passend([r EXCEPT !.liste = @ \cup {z}, !.rest = @ \ {p}])
      BY <1>1, <2>1 DEF Vorgang, Passend
    <2> QED
      BY <1>1, <1>5, <2>2, ImSpeicher
  <1> QED
    BY <1>2, <1>4, <1>5

\* A row with the next id keeps the tables in order.
LEMMA NeueZeile ==
    ASSUME TabellenOK, NEW p \in Person, frisch <= MaxZeilen
    PROVE  /\ [id |-> frisch, person |-> p, daten |-> Leer] \in Zeile
           /\ frisch + 1 \in 1 .. MaxZeilen + 1
  BY TeamAssumption DEF TabellenOK, Zeile, Id

LEMMA MitgliedAnlegenInv ==
    ASSUME Inv, NEW a \in Anfrage, MitgliedAnlegen(a)
    PROVE  Inv'
  <1> DEFINE r == anfrage[a]
             z == [id |-> frisch, person |-> r.wer, daten |-> Leer]
             s == [r EXCEPT !.pc = "suchen", !.liste = @ \cup {z},
                            !.rest = @ \ {r.wer}, !.wer = Keiner]
  <1>1. r \in Vorgang /\ Passend(r) /\ r.pc = "anlegen"
    BY VorgangAmWerk DEF MitgliedAnlegen
  <1>2. /\ tm' = tm \cup {z} /\ frisch' = frisch + 1 /\ frisch <= MaxZeilen
        /\ Weiter(a, s, TRUE) /\ UNCHANGED <<fma, leiter>>
    BY DEF MitgliedAnlegen
  <1> HIDE DEF r
  <1>3. r.wer \in Person
    BY <1>1 DEF Passend
  <1>4. z \in Zeile /\ frisch' \in 1 .. MaxZeilen + 1
    BY <1>2, <1>3, NeueZeile DEF Inv
  <1> HIDE DEF z
  <1>5. s \in Vorgang /\ Passend(s)
    BY <1>1, <1>4 DEF Vorgang, Passend
  <1>6. TabellenOK'
    BY <1>2, <1>4 DEF Inv, TabellenOK
  <1>7. NetzOK'
    BY <1>2, <1>5, WeiterNetz DEF Inv
  <1> QED
    BY <1>6, <1>7 DEF Inv

LEMMA TeamVergleichenInv ==
    ASSUME Inv, NEW a \in Anfrage, TeamVergleichen(a)
    PROVE  Inv'
  <1> DEFINE r == anfrage[a]
             w == Ids(tm) \ Ids(r.liste)
             s == [r EXCEPT !.pc = "loeschen", !.weg = w]
  <1>1. r \in Vorgang
    BY VorgangAmWerk
  <1>2. Weiter(a, s, FALSE) /\ UNCHANGED tabellen
    BY DEF TeamVergleichen
  <1>3. w \subseteq Id
    BY IdsTyp DEF Inv, TabellenOK
  <1> HIDE DEF r, w
  <1>4. s \in Vorgang /\ Passend(s)
    BY <1>1, <1>3 DEF Vorgang, Passend
  <1> QED
    BY <1>2, <1>4, ImSpeicher

LEMMA MitgliedLoeschenInv ==
    ASSUME Inv, NEW a \in Anfrage, MitgliedLoeschen(a)
    PROVE  Inv'
  <1> DEFINE r == anfrage[a]
  <1>1. r \in Vorgang /\ r.pc = "loeschen"
    BY VorgangAmWerk DEF MitgliedLoeschen
  <1>2. CASE Scheitern(a)
    BY <1>2, ScheiternInv
  <1>3. ASSUME NEW i \in r.weg,
               tm' = {z \in tm : z.id # i},
               leiter' = {l \in leiter : l.tm # i},
               Weiter(a, [r EXCEPT !.weg = @ \ {i}], TRUE),
               UNCHANGED <<fma, frisch>>
        PROVE  Inv'
    <2> HIDE DEF r
    <2>1. [r EXCEPT !.weg = @ \ {i}] \in Vorgang /\ Passend([r EXCEPT !.weg = @ \ {i}])
      BY <1>1 DEF Vorgang, Passend
    <2>2. TabellenOK'
      BY <1>3 DEF Inv, TabellenOK
    <2>3. NetzOK'
      BY <1>3, <2>1, WeiterNetz DEF Inv
    <2> QED
      BY <2>2, <2>3 DEF Inv
  <1> QED
    BY <1>2, <1>3 DEF MitgliedLoeschen

LEMMA TeamAntwortenInv ==
    ASSUME Inv, NEW a \in Anfrage, TeamAntworten(a)
    PROVE  Inv'
  <1> DEFINE r == anfrage[a]
  <1>1. r \in Vorgang
    BY VorgangAmWerk
  <1>2. CASE Scheitern(a)
    BY <1>2, ScheiternInv
  <1>3. ASSUME NEW i \in OderKeiner({l.tm : l \in leiter} \cap Ids(r.liste)),
               Weiter(a, [r EXCEPT !.pc = "antwort", !.form.gruppe = i], FALSE),
               UNCHANGED tabellen
        PROVE  Inv'
    <2>1. {l.tm : l \in leiter} \subseteq Id
      BY DEF Inv, TabellenOK, Leiter
    <2>2. i \in Id \cup {Keiner}
      BY <2>1 DEF OderKeiner
    <2> HIDE DEF r
    <2>3. r.form \in Formular
      BY <1>1 DEF Vorgang
    <2>4. [r.form EXCEPT !.gruppe = i] \in Formular
      BY <2>2, <2>3 DEF Formular
    <2>5. [r EXCEPT !.pc = "antwort", !.form.gruppe = i] \in Vorgang
          /\ Passend([r EXCEPT !.pc = "antwort", !.form.gruppe = i])
      BY <1>1, <2>4 DEF Vorgang, Passend
    <2> QED
      BY <1>3, <2>5, ImSpeicher
  <1> QED
    BY <1>2, <1>3 DEF TeamAntworten

LEMMA FmaSuchenInv ==
    ASSUME Inv, NEW a \in Anfrage, FmaSuchen(a)
    PROVE  Inv'
  <1> DEFINE r == anfrage[a]
  <1>1. r \in Vorgang
    BY VorgangAmWerk
  <1>2. \A pc \in {"fmaLesen", "fmaAnlegen"} :
           [r EXCEPT !.pc = pc] \in Vorgang /\ Passend([r EXCEPT !.pc = pc])
    <2> HIDE DEF r
    <2> QED
      BY <1>1 DEF Vorgang, Passend
  <1>3. CASE Scheitern(a)
    BY <1>3, ScheiternInv
  <1>4. CASE Weiter(a, [r EXCEPT !.pc = "fmaLesen"], FALSE) /\ UNCHANGED tabellen
    BY <1>2, <1>4, ImSpeicher
  <1>5. CASE Weiter(a, [r EXCEPT !.pc = "fmaAnlegen"], FALSE) /\ UNCHANGED tabellen
    BY <1>2, <1>5, ImSpeicher
  <1> QED
    BY <1>3, <1>4, <1>5 DEF FmaSuchen

LEMMA FmaAnlegenInv ==
    ASSUME Inv, NEW a \in Anfrage, FmaAnlegen(a)
    PROVE  Inv'
  <1> DEFINE r == anfrage[a]
  <1>1. r \in Vorgang
    BY VorgangAmWerk
  <1>2. /\ fma' = fma \cup {[id |-> frisch, person |-> p, daten |-> Leer] : p \in r.auswahl}
        /\ frisch' = frisch + 1 /\ frisch <= MaxZeilen
        /\ Weiter(a, [r EXCEPT !.pc = "fmaLesen"], TRUE) /\ UNCHANGED <<tm, leiter>>
    BY DEF FmaAnlegen
  <1> HIDE DEF r
  <1>3. [r EXCEPT !.pc = "fmaLesen"] \in Vorgang /\ Passend([r EXCEPT !.pc = "fmaLesen"])
    BY <1>1 DEF Vorgang, Passend
  <1>4. r.auswahl \subseteq Person
    BY <1>1 DEF Vorgang
  <1>5. fma' \subseteq Zeile /\ frisch' \in 1 .. MaxZeilen + 1
    <2>1. \A p \in Person : [id |-> frisch, person |-> p, daten |-> Leer] \in Zeile
      BY <1>2, NeueZeile DEF Inv
    <2>2. frisch' \in 1 .. MaxZeilen + 1
      BY <1>2, TeamAssumption DEF Inv, TabellenOK
    <2> QED
      BY <1>2, <1>4, <2>1, <2>2 DEF Inv, TabellenOK
  <1>6. TabellenOK'
    BY <1>2, <1>5 DEF Inv, TabellenOK
  <1>7. NetzOK'
    BY <1>2, <1>3, WeiterNetz DEF Inv
  <1> QED
    BY <1>6, <1>7 DEF Inv

LEMMA FmaAntwortenInv ==
    ASSUME Inv, NEW a \in Anfrage, FmaAntworten(a)
    PROVE  Inv'
  <1> DEFINE r == anfrage[a]
             s == [r EXCEPT !.pc = "fmaAntwort", !.liste = fma]
  <1>1. r \in Vorgang /\ fma \subseteq Zeile
    BY VorgangAmWerk DEF Inv, TabellenOK
  <1>2. s \in Vorgang /\ Passend(s)
    <2> HIDE DEF r
    <2> QED
      BY <1>1 DEF Vorgang, Passend
  <1>3. CASE Scheitern(a)
    BY <1>3, ScheiternInv
  <1>4. CASE Weiter(a, s, FALSE) /\ UNCHANGED tabellen
    BY <1>2, <1>4, ImSpeicher
  <1> QED
    BY <1>3, <1>4 DEF FmaAntworten
------------------------------------------------------------------------------
(* update. *)

LEMMA WegWeiter ==
    ASSUME NEW r \in Vorgang, Passend(r), NEW i,
           r.pc \in {"zeilen", "fmaZeilen"}
    PROVE  [r EXCEPT !.weg = @ \ {i}] \in Vorgang /\ Passend([r EXCEPT !.weg = @ \ {i}])
  <1>1. [r EXCEPT !.weg = @ \ {i}] \in Vorgang
    BY DEF Vorgang
  <1> QED
    BY <1>1 DEF Vorgang, Passend

\* A row of the form takes the place of the row with its id.
LEMMA ZeileErsetzt ==
    ASSUME NEW alt, alt \subseteq Zeile, NEW f, f \subseteq Zeile, NEW i \in Ids(f), NEW neu,
           neu = {IF z.id # i THEN z ELSE CHOOSE y \in f : y.id = i : z \in alt}
    PROVE  neu \subseteq Zeile /\ Ids(neu) = Ids(alt)
  <1> DEFINE c == CHOOSE y \in f : y.id = i
  <1>1. c \in f /\ c.id = i
    BY DEF Ids
  <1> HIDE DEF c
  <1>2. neu = {IF z.id # i THEN z ELSE c : z \in alt}
    BY DEF c
  <1>3. neu \subseteq Zeile
    BY <1>1, <1>2
  <1>4. \A z \in alt : (IF z.id # i THEN z ELSE c).id = z.id
    BY <1>1
  <1>5. Ids(neu) = Ids(alt)
    BY <1>2, <1>4 DEF Ids
  <1> QED
    BY <1>3, <1>5

LEMMA FormTyp ==
    ASSUME NEW r \in Vorgang
    PROVE  /\ r.form \in Formular
           /\ r.form.tm \subseteq Zeile /\ r.form.fma \subseteq Zeile
           /\ Ids(r.form.tm) \subseteq Id /\ Ids(r.form.fma) \subseteq Id
  BY DEF Vorgang, Formular, Ids, Zeile

LEMMA ZeileSpeichernInv ==
    ASSUME Inv, NEW a \in Anfrage, ZeileSpeichern(a)
    PROVE  Inv'
  <1> DEFINE r == anfrage[a]
  <1>1. r \in Vorgang /\ Passend(r) /\ r.pc = "zeilen"
    BY VorgangAmWerk DEF ZeileSpeichern
  <1>2. CASE Scheitern(a)
    BY <1>2, ScheiternInv
  <1>3. ASSUME NEW i \in r.weg,
               tm' = {IF z.id # i THEN z ELSE CHOOSE y \in r.form.tm : y.id = i : z \in tm},
               Weiter(a, [r EXCEPT !.weg = @ \ {i}], TRUE),
               UNCHANGED <<fma, leiter, frisch>>
        PROVE  Inv'
    <2> HIDE DEF r
    <2>1. i \in Ids(r.form.tm) /\ r.form.tm \subseteq Zeile /\ tm \subseteq Zeile
      BY <1>1, <1>3, FormTyp DEF Passend, Inv, TabellenOK
    <2>2. tm' \subseteq Zeile /\ Ids(tm') = Ids(tm)
      BY <1>3, <2>1, ZeileErsetzt
    <2>3. TabellenOK'
      BY <1>3, <2>2 DEF Inv, TabellenOK
    <2>4. NetzOK'
      <3>1. [r EXCEPT !.weg = @ \ {i}] \in Vorgang /\ Passend([r EXCEPT !.weg = @ \ {i}])
        BY <1>1, WegWeiter
      <3> QED
        BY <1>3, <3>1, WeiterNetz DEF Inv
    <2> QED
      BY <2>3, <2>4 DEF Inv
  <1> QED
    BY <1>2, <1>3 DEF ZeileSpeichern

LEMMA ZeilenGespeichertInv ==
    ASSUME Inv, NEW a \in Anfrage, ZeilenGespeichert(a)
    PROVE  Inv'
  <1> DEFINE r == anfrage[a]
             s == [r EXCEPT !.pc = "fmaZeilen", !.weg = Ids(r.form.fma)]
  <1>1. r \in Vorgang
    BY VorgangAmWerk
  <1>2. Weiter(a, s, FALSE) /\ UNCHANGED tabellen
    BY DEF ZeilenGespeichert
  <1> HIDE DEF r
  <1>3. Ids(r.form.fma) \subseteq Id
    BY <1>1, FormTyp
  <1>4. s \in Vorgang /\ Passend(s)
    BY <1>1, <1>3 DEF Vorgang, Passend
  <1> QED
    BY <1>2, <1>4, ImSpeicher

LEMMA FmaSpeichernInv ==
    ASSUME Inv, NEW a \in Anfrage, FmaSpeichern(a)
    PROVE  Inv'
  <1> DEFINE r == anfrage[a]
  <1>1. r \in Vorgang /\ Passend(r) /\ r.pc = "fmaZeilen"
    BY VorgangAmWerk DEF FmaSpeichern
  <1>2. CASE Scheitern(a)
    BY <1>2, ScheiternInv
  <1>3. ASSUME NEW i \in r.weg,
               fma' = {IF z.id # i THEN z ELSE CHOOSE y \in r.form.fma : y.id = i : z \in fma},
               Weiter(a, [r EXCEPT !.weg = @ \ {i}], TRUE),
               UNCHANGED <<tm, leiter, frisch>>
        PROVE  Inv'
    <2> HIDE DEF r
    <2>1. i \in Ids(r.form.fma) /\ r.form.fma \subseteq Zeile /\ fma \subseteq Zeile
      BY <1>1, <1>3, FormTyp DEF Passend, Inv, TabellenOK
    <2>2. fma' \subseteq Zeile
      <3> DEFINE c == CHOOSE y \in r.form.fma : y.id = i
      <3>1. c \in r.form.fma
        BY <2>1 DEF Ids
      <3>2. fma' = {IF z.id # i THEN z ELSE c : z \in fma}
        BY <1>3
      <3> HIDE DEF c
      <3> QED
        BY <2>1, <3>1, <3>2
    <2>3. TabellenOK'
      BY <1>3, <2>2 DEF Inv, TabellenOK
    <2>4. NetzOK'
      <3>1. [r EXCEPT !.weg = @ \ {i}] \in Vorgang /\ Passend([r EXCEPT !.weg = @ \ {i}])
        BY <1>1, WegWeiter
      <3> QED
        BY <1>3, <3>1, WeiterNetz DEF Inv
    <2> QED
      BY <2>3, <2>4 DEF Inv
  <1> QED
    BY <1>2, <1>3 DEF FmaSpeichern

LEMMA FmaGespeichertInv ==
    ASSUME Inv, NEW a \in Anfrage, FmaGespeichert(a)
    PROVE  Inv'
  <1> DEFINE r == anfrage[a]
             s == [r EXCEPT !.pc = "leiter"]
  <1>1. r \in Vorgang
    BY VorgangAmWerk
  <1>2. Weiter(a, s, FALSE) /\ UNCHANGED tabellen
    BY DEF FmaGespeichert
  <1> HIDE DEF r
  <1>3. s \in Vorgang /\ Passend(s)
    BY <1>1 DEF Vorgang, Passend
  <1> QED
    BY <1>2, <1>3, ImSpeicher

LEMMA LeiterBestimmenInv ==
    ASSUME Inv, NEW a \in Anfrage, LeiterBestimmen(a)
    PROVE  Inv'
  <1> DEFINE r == anfrage[a]
  <1>1. r \in Vorgang
    BY VorgangAmWerk
  <1>2. PICK plan \in {"nichts", "umsetzen", "neu"} :
           /\ Weiter(a, [r EXCEPT !.pc = "speichern", !.plan = plan], FALSE)
           /\ UNCHANGED tabellen
    BY DEF LeiterBestimmen
  <1> HIDE DEF r
  <1>3. [r EXCEPT !.pc = "speichern", !.plan = plan] \in Vorgang
        /\ Passend([r EXCEPT !.pc = "speichern", !.plan = plan])
    BY <1>1 DEF Vorgang, Passend
  <1> QED
    BY <1>2, <1>3, ImSpeicher

LEMMA LeiterSchreibenTabellen ==
    ASSUME TabellenOK, NEW r \in Vorgang, LeiterSchreibbar(r), LeiterSchreiben(r)
    PROVE  TabellenOK'
  <1>1. /\ UNCHANGED <<tm, fma>>
        /\ r.plan \in {"nichts", "umsetzen", "neu"}
        /\ \A l \in leiter : l \in Leiter
    BY DEF LeiterSchreiben, TabellenOK, Vorgang
  <1>2. r.plan # "nichts" => r.form.gruppe \in Id
    BY DEF LeiterSchreibbar, Vorgang, Formular
  <1>3. frisch' \in 1 .. MaxZeilen + 1
    BY <1>1, TeamAssumption DEF LeiterSchreiben, TabellenOK
  <1>4. \A l \in leiter' : l \in Leiter
    <2>1. CASE r.plan = "nichts"
      BY <1>1, <2>1 DEF LeiterSchreiben
    <2>2. CASE r.plan = "umsetzen"
      <3>1. leiter' = {IF l.id = r.form.plId THEN [l EXCEPT !.tm = r.form.gruppe] ELSE l
                       : l \in leiter}
        BY <2>2 DEF LeiterSchreiben
      <3>2. \A l \in leiter : [l EXCEPT !.tm = r.form.gruppe] \in Leiter
        BY <1>1, <1>2, <2>2 DEF Leiter
      <3> QED
        BY <1>1, <3>1, <3>2
    <2>3. CASE r.plan = "neu"
      <3>1. leiter' = leiter \cup {[id |-> frisch, tm |-> r.form.gruppe, datiert |-> FALSE]}
        BY <2>3 DEF LeiterSchreiben
      <3>2. frisch \in Id
        BY <2>3, TeamAssumption DEF LeiterSchreiben, TabellenOK, Id
      <3>3. [id |-> frisch, tm |-> r.form.gruppe, datiert |-> FALSE] \in Leiter
        BY <1>2, <2>3, <3>2 DEF Leiter
      <3> QED
        BY <1>1, <3>1, <3>3
    <2> QED
      BY <1>1, <2>1, <2>2, <2>3
  <1> QED
    BY <1>1, <1>3, <1>4 DEF TabellenOK

LEMMA UpdateSpeichernInv ==
    ASSUME Inv, NEW a \in Anfrage, UpdateSpeichern(a)
    PROVE  Inv'
  <1> DEFINE r == anfrage[a]
  <1>1. r \in Vorgang
    BY VorgangAmWerk
  <1>2. LeiterSchreibbar(r) /\ LeiterSchreiben(r) /\ Weiter(a, Ruhe, r.plan # "nichts")
    BY DEF UpdateSpeichern
  <1>3. TabellenOK'
    BY <1>1, <1>2, LeiterSchreibenTabellen DEF Inv
  <1>4. NetzOK'
    BY <1>2, RuheFolgt, WeiterNetz DEF Inv
  <1> QED
    BY <1>3, <1>4 DEF Inv

LEMMA UpdateAblehnenInv ==
    ASSUME Inv, NEW a \in Anfrage, UpdateAblehnen(a)
    PROVE  Inv'
  <1> DEFINE r == anfrage[a]
             g == leiter' # leiter
             w == [auf |-> TRUE, form |-> [LeeresFormular EXCEPT !.tm = tm],
                   waehlbar |-> {}, treu |-> FALSE]
  <1>1. r \in Vorgang
    BY VorgangAmWerk
  <1>2. TabellenOK'
    <2>1. CASE LeiterSchreibbar(r) /\ LeiterSchreiben(r)
      BY <1>1, <2>1, LeiterSchreibenTabellen DEF Inv
    <2>2. CASE UNCHANGED tabellen
      BY <2>2, TabellenBleiben DEF Inv
    <2> QED
      BY <2>1, <2>2 DEF UpdateAblehnen
  <1>3. \A b \in Anfrage : /\ anfrage[b] \in Vorgang /\ Passend(anfrage[b])
                           /\ (anfrage[b].allein /\ ~g) \in BOOLEAN
    BY DEF Inv, NetzOK
  <1>4. \A b \in Anfrage : [anfrage[b] EXCEPT !.allein = @ /\ ~g] \in Vorgang
                        /\ Passend([anfrage[b] EXCEPT !.allein = @ /\ ~g])
    BY <1>3, AndereFolgen
  <1>5. anfrage' = [b \in Anfrage |->
            IF b = a \/ anfrage[b].pc = "frei" THEN Ruhe
            ELSE [anfrage[b] EXCEPT !.allein = @ /\ ~g]]
    BY DEF UpdateAblehnen
  <1>6. \A b \in Anfrage : anfrage'[b] \in Vorgang /\ Passend(anfrage'[b])
    BY <1>4, <1>5, RuheFolgt
  <1>7. w \in Browserseite
    <2>1. [LeeresFormular EXCEPT !.tm = tm] \in Formular
      BY LeereFormTyp DEF Formular, Inv, TabellenOK
    <2> QED
      BY <2>1 DEF Browserseite
  <1>8. \A s \in Seite : seite[s] \in Browserseite /\ (seite[s].treu /\ ~g) \in BOOLEAN
    BY DEF Inv, NetzOK
  <1>9. \A s \in Seite : [seite[s] EXCEPT !.treu = @ /\ ~g] \in Browserseite
    BY <1>8, SeitenFolgen
  <1>10. seite' = [s \in Seite |-> IF s = r.seite THEN w
                                   ELSE [seite[s] EXCEPT !.treu = @ /\ ~g]]
    BY DEF UpdateAblehnen
  <1>11. klicks' = klicks
    BY DEF UpdateAblehnen
  <1> HIDE DEF w, g, r
  <1>12. seite' \in [Seite -> Browserseite]
    BY <1>7, <1>9, <1>10
  <1>13. anfrage' \in [Anfrage -> Vorgang]
    BY <1>5, <1>6
  <1> QED
    BY <1>2, <1>6, <1>11, <1>12, <1>13 DEF Inv, NetzOK
------------------------------------------------------------------------------
(* The pages. *)

LEMMA AntwortErhaltenInv ==
    ASSUME Inv, NEW a \in Anfrage, AntwortErhalten(a)
    PROVE  Inv'
  <1> DEFINE r == anfrage[a]
  <1>1. r \in Vorgang
    BY VorgangAmWerk
  <1>2. anfrage' \in [Anfrage -> Vorgang] /\ \A b \in Anfrage : Passend(anfrage'[b])
    BY RuheFolgt DEF Inv, NetzOK, AntwortErhalten
  <1>3. UNCHANGED tabellen /\ klicks' = klicks
    BY DEF AntwortErhalten
  <1>4. \A p \in Browserseite, z \in SUBSET Zeile, i \in Id \cup {Keiner} :
           /\ [p EXCEPT !.form.tm = z, !.form.gruppe = i] \in Browserseite
           /\ [p EXCEPT !.form.fma = z] \in Browserseite
    BY DEF Browserseite, Formular
  <1>5. /\ seite \in [Seite -> Browserseite]
        /\ r.liste \subseteq Zeile
        /\ r.form.gruppe \in Id \cup {Keiner}
    BY <1>1 DEF Inv, NetzOK, Vorgang, Formular
  <1>6. seite' \in [Seite -> Browserseite]
    <2>1. CASE r.seite = Keiner
      BY <1>5, <2>1 DEF AntwortErhalten
    <2>2. CASE /\ r.seite \in Seite
               /\ seite' = [seite EXCEPT ![r.seite] =
                               [@ EXCEPT !.form.tm = r.liste, !.form.gruppe = r.form.gruppe]]
      BY <1>4, <1>5, <2>2
    <2>3. CASE /\ r.seite \in Seite
               /\ seite' = [seite EXCEPT ![r.seite] = [@ EXCEPT !.form.fma = r.liste]]
      BY <1>4, <1>5, <2>3
    <2>4. r.seite \in Seite \cup {Keiner}
      BY <1>1 DEF Vorgang
    <2> QED
      BY <2>1, <2>2, <2>3, <2>4 DEF AntwortErhalten
  <1> QED
    BY <1>2, <1>3, <1>6, TabellenBleiben DEF Inv, NetzOK

LEMMA SeiteLadenInv ==
    ASSUME Inv, NEW s \in Seite, SeiteLaden(s)
    PROVE  Inv'
  <1>1. \A l \in TeamLeiter : l.id \in Id /\ l.tm \in Id
    BY DEF Inv, TabellenOK, Leiter, TeamLeiter
  <1>2. PICK l \in (IF TeamLeiter = {} THEN {[id |-> Keiner, tm |-> Keiner]} ELSE TeamLeiter) :
           seite' = [seite EXCEPT ![s] =
                        [auf |-> TRUE,
                         form |-> [tm |-> tm, fma |-> fma, gruppe |-> l.tm,
                                   plId |-> l.id, plTm |-> l.tm],
                         waehlbar |-> Person,
                         treu |-> \A a \in Anfrage : anfrage[a].pc = "frei"]]
    BY DEF SeiteLaden
  <1>3. l.id \in Id \cup {Keiner} /\ l.tm \in Id \cup {Keiner}
    BY <1>1, <1>2
  <1>4. [tm |-> tm, fma |-> fma, gruppe |-> l.tm, plId |-> l.id, plTm |-> l.tm] \in Formular
    BY <1>3 DEF Formular, Inv, TabellenOK
  <1>5. [auf |-> TRUE,
         form |-> [tm |-> tm, fma |-> fma, gruppe |-> l.tm, plId |-> l.id, plTm |-> l.tm],
         waehlbar |-> Person,
         treu |-> \A a \in Anfrage : anfrage[a].pc = "frei"] \in Browserseite
    BY <1>4 DEF Browserseite
  <1>6. seite' \in [Seite -> Browserseite]
    BY <1>2, <1>5 DEF Inv, NetzOK
  <1>7. UNCHANGED tabellen /\ anfrage' = anfrage /\ klicks' \in 0 .. MaxKlicks
    BY TeamAssumption DEF SeiteLaden, Klick, Inv, NetzOK
  <1> QED
    BY <1>6, <1>7, TabellenBleiben DEF Inv, NetzOK

\* A request that a page sends.
LEMMA AbschickenNetz ==
    ASSUME Inv, NEW s \in Seite, NEW r \in Vorgang, Passend(r), NEW v, Abschicken(s, r, v)
    PROVE  /\ anfrage' \in [Anfrage -> Vorgang]
           /\ \A b \in Anfrage : Passend(anfrage'[b])
           /\ UNCHANGED tabellen
  <1>1. (seite[s].treu /\ ~Unterwegs(s)) \in BOOLEAN /\ tm \in SUBSET Zeile
    BY DEF Inv, TabellenOK
  <1>2. \A x \in BOOLEAN, z \in SUBSET Zeile :
           /\ [r EXCEPT !.seite = s, !.vorher = z, !.treu = x] \in Vorgang
           /\ Passend([r EXCEPT !.seite = s, !.vorher = z, !.treu = x])
    BY DEF Vorgang, Passend
  <1>3. \A q \in Vorgang : [q EXCEPT !.seite = Keiner] \in Vorgang
                        /\ (Passend(q) => Passend([q EXCEPT !.seite = Keiner]))
    BY DEF Vorgang, Passend
  <1>4. \A b \in Anfrage : anfrage[b] \in Vorgang /\ Passend(anfrage[b])
    BY VorgangAmWerk
  <1> DEFINE n == [r EXCEPT !.seite = s, !.vorher = tm, !.treu = seite[s].treu /\ ~Unterwegs(s)]
  <1>5. n \in Vorgang /\ Passend(n)
    BY <1>1, <1>2
  <1>6. PICK a \in Anfrage :
           anfrage' = [b \in Anfrage |->
              IF b = a THEN n
              ELSE IF v /\ anfrage[b].seite = s THEN [anfrage[b] EXCEPT !.seite = Keiner]
              ELSE anfrage[b]]
    BY DEF Abschicken
  <1> HIDE DEF n
  <1>7. \A b \in Anfrage : anfrage'[b] \in Vorgang /\ Passend(anfrage'[b])
    BY <1>3, <1>4, <1>5, <1>6
  <1>8. anfrage' \in [Anfrage -> Vorgang]
    BY <1>6, <1>7
  <1> QED
    BY <1>7, <1>8 DEF Abschicken

LEMMA Treue ==
    ASSUME Inv, NEW s \in Seite, NEW x \in BOOLEAN
    PROVE  [seite EXCEPT ![s].treu = @ /\ x] \in [Seite -> Browserseite]
  <1>1. seite[s] \in Browserseite /\ (seite[s].treu /\ x) \in BOOLEAN
    BY DEF Inv, NetzOK
  <1>2. [seite[s] EXCEPT !.treu = seite[s].treu /\ x] \in Browserseite
    BY <1>1, SeitenFolgen
  <1> QED
    BY <1>1, <1>2 DEF Inv, NetzOK

LEMMA KlickTyp ==
    ASSUME Inv, Klick
    PROVE  klicks' \in 0 .. MaxKlicks
  BY TeamAssumption DEF Inv, NetzOK, Klick

LEMMA TeamFertigInv ==
    ASSUME Inv, NEW s \in Seite, NEW p \in SUBSET Person, TeamFertig(s, p)
    PROVE  Inv'
  <1> DEFINE e == IF Cardinality(p) = 1 THEN UNION {Ziffern[q] : q \in p} ELSE p
             r == [Ruhe EXCEPT !.pc = "suchen", !.auswahl = p, !.rest = e]
  <1>1. e \in SUBSET (Person \cup {Keiner})
    BY TeamAssumption
  <1>2. /\ Abschicken(s, r, FALSE)
        /\ seite' = [seite EXCEPT ![s].treu = @ /\ ~Unterwegs(s)]
        /\ klicks' \in 0 .. MaxKlicks
    BY KlickTyp DEF TeamFertig
  <1> HIDE DEF e
  <1>3. r \in Vorgang /\ Passend(r)
    BY <1>1, RuheFolgt DEF Vorgang, Passend
  <1>4. seite' \in [Seite -> Browserseite]
    BY <1>2, Treue
  <1> QED
    BY <1>2, <1>3, <1>4, AbschickenNetz, TabellenBleiben DEF Inv, NetzOK

LEMMA FmaFertigInv ==
    ASSUME Inv, NEW s \in Seite, NEW p \in SUBSET Person, FmaFertig(s, p)
    PROVE  Inv'
  <1> DEFINE r == [Ruhe EXCEPT !.pc = "fma", !.auswahl = p]
  <1>1. /\ Abschicken(s, r, FALSE)
        /\ seite' = [seite EXCEPT ![s].treu = @ /\ ~Unterwegs(s)]
        /\ klicks' \in 0 .. MaxKlicks
    BY KlickTyp DEF FmaFertig
  <1>2. r \in Vorgang /\ Passend(r)
    BY RuheFolgt DEF Vorgang, Passend
  <1>3. seite' \in [Seite -> Browserseite]
    BY <1>1, Treue
  <1> QED
    BY <1>1, <1>2, <1>3, AbschickenNetz, TabellenBleiben DEF Inv, NetzOK

LEMMA AbsendenInv ==
    ASSUME Inv, NEW s \in Seite, NEW d \in Datum, NEW g \in Id \cup {Keiner},
           NEW ok \in BOOLEAN, Absenden(s, d, g, ok)
    PROVE  Inv'
  <1> DEFINE f == seite[s].form
             neu == [f EXCEPT !.gruppe = g,
                              !.tm = {[z EXCEPT !.daten = d] : z \in f.tm},
                              !.fma = {[z EXCEPT !.daten = d] : z \in f.fma}]
             r == [Ruhe EXCEPT !.pc = "zeilen", !.gueltig = ok, !.form = neu, !.weg = Ids(f.tm)]
  <1>1. /\ Abschicken(s, r, TRUE)
        /\ seite' = [seite EXCEPT ![s] = GeschlosseneSeite]
        /\ klicks' \in 0 .. MaxKlicks
    BY KlickTyp DEF Absenden
  <1>2. f \in Formular
    BY DEF Inv, NetzOK, Browserseite
  <1> HIDE DEF f
  <1>3. \A z \in Zeile : [z EXCEPT !.daten = d] \in Zeile /\ [z EXCEPT !.daten = d].id = z.id
    BY DEF Zeile
  <1>4. f.tm \subseteq Zeile /\ f.fma \subseteq Zeile
    BY <1>2 DEF Formular
  <1> DEFINE t2 == {[z EXCEPT !.daten = d] : z \in f.tm}
             f2 == {[z EXCEPT !.daten = d] : z \in f.fma}
  <1>5. t2 \in SUBSET Zeile /\ f2 \in SUBSET Zeile /\ Ids(t2) = Ids(f.tm)
    BY <1>3, <1>4 DEF Ids
  <1> HIDE DEF t2, f2
  <1>6. neu = [f EXCEPT !.gruppe = g, !.tm = t2, !.fma = f2]
    BY DEF t2, f2
  <1>7. neu \in Formular /\ neu.tm = t2
    <2> HIDE DEF neu
    <2> QED
      BY <1>2, <1>5, <1>6 DEF Formular
  <1> HIDE DEF neu
  <1>8. Ids(f.tm) \subseteq Id /\ Ids(f.tm) \subseteq Ids(neu.tm)
    BY <1>4, <1>5, <1>7, IdsTyp
  <1>9. r \in Vorgang /\ r.pc = "zeilen" /\ r.weg = Ids(f.tm) /\ r.form = neu
    BY <1>7, <1>8, RuheFolgt DEF Vorgang
  <1>10. Passend(r)
    <2> HIDE DEF r
    <2> QED
      BY <1>8, <1>9 DEF Passend
  <1>11. GeschlosseneSeite \in Browserseite
    BY LeereFormTyp DEF GeschlosseneSeite, Browserseite
  <1>12. seite' \in [Seite -> Browserseite]
    BY <1>1, <1>11 DEF Inv, NetzOK
  <1> HIDE DEF r
  <1> QED
    BY <1>1, <1>9, <1>10, <1>12, AbschickenNetz, TabellenBleiben DEF Inv, NetzOK
------------------------------------------------------------------------------
LEMMA InitInv == Init => Inv
  <1> SUFFICES ASSUME Init PROVE Inv
    OBVIOUS
  <1>1. PICK team \in SUBSET Person :
           /\ \E nr \in [team -> 1 .. Cardinality(team)] :
                  tm = {[id |-> nr[p], person |-> p, daten |-> Leer] : p \in team}
           /\ frisch = Cardinality(team) + 1
    BY DEF Init
  <1>2. Cardinality(team) \in Nat /\ Cardinality(team) <= MaxZeilen
    <2>1. IsFiniteSet(team) /\ Cardinality(team) <= Cardinality(Person)
      BY FS_Subset, TeamAssumption
    <2> QED
      BY <2>1, FS_CardinalityType, TeamAssumption
  <1>3. frisch \in 1 .. MaxZeilen + 1
    BY <1>1, <1>2, TeamAssumption
  <1>4. PICK nr \in [team -> 1 .. Cardinality(team)] :
           tm = {[id |-> nr[p], person |-> p, daten |-> Leer] : p \in team}
    BY <1>1
  <1>5. \A p \in team : nr[p] \in Id
    BY <1>2, TeamAssumption DEF Id
  <1>6. tm \subseteq Zeile
    BY <1>4, <1>5, TeamAssumption DEF Zeile
  <1>7. \A l \in leiter : l \in Leiter
    <2>1. 0 \in Id
      BY TeamAssumption DEF Id
    <2>2. \A l \in leiter : \E z \in tm, d \in BOOLEAN : l = [id |-> 0, tm |-> z.id, datiert |-> d]
      BY DEF Init
    <2>3. \A z \in tm : z.id \in Id
      BY <1>6 DEF Zeile
    <2> QED
      BY <2>1, <2>2, <2>3 DEF Leiter
  <1>8. TabellenOK
    BY <1>3, <1>6, <1>7 DEF Init, TabellenOK
  <1>9. GeschlosseneSeite \in Browserseite
    BY LeereFormTyp DEF GeschlosseneSeite, Browserseite
  <1>10. NetzOK
    BY <1>9, RuheFolgt, TeamAssumption DEF Init, NetzOK
  <1> QED
    BY <1>8, <1>10 DEF Inv

LEMMA InvErhalten == Inv /\ [Next]_vars => Inv'
  <1> SUFFICES ASSUME Inv, [Next]_vars PROVE Inv'
    OBVIOUS
  <1>1. ASSUME NEW s \in Seite, Benutzer(s) PROVE Inv'
    BY <1>1, SeiteLadenInv, TeamFertigInv, FmaFertigInv, AbsendenInv DEF Benutzer
  <1>2. ASSUME NEW a \in Anfrage, Server(a) PROVE Inv'
    <2>1. CASE MitgliedSuchen(a) \/ MitgliedAnlegen(a) \/ TeamVergleichen(a)
               \/ MitgliedLoeschen(a) \/ TeamAntworten(a)
      BY <2>1, MitgliedSuchenInv, MitgliedAnlegenInv, TeamVergleichenInv,
         MitgliedLoeschenInv, TeamAntwortenInv
    <2>2. CASE MitgliedUnbekannt(a)
      BY <2>2, ScheiternInv DEF MitgliedUnbekannt
    <2>3. CASE FmaSuchen(a) \/ FmaAnlegen(a) \/ FmaAntworten(a)
      BY <2>3, FmaSuchenInv, FmaAnlegenInv, FmaAntwortenInv
    <2>4. CASE ZeileSpeichern(a) \/ ZeilenGespeichert(a) \/ FmaSpeichern(a)
               \/ FmaGespeichert(a)
      BY <2>4, ZeileSpeichernInv, ZeilenGespeichertInv, FmaSpeichernInv, FmaGespeichertInv
    <2>5. CASE LeiterBestimmen(a) \/ UpdateSpeichern(a) \/ UpdateAblehnen(a)
      BY <2>5, LeiterBestimmenInv, UpdateSpeichernInv, UpdateAblehnenInv
    <2>6. CASE UpdateScheitern(a)
      BY <2>6, ScheiternInv DEF UpdateScheitern
    <2> QED
      BY <1>2, <2>1, <2>2, <2>3, <2>4, <2>5, <2>6 DEF Server
  <1>3. ASSUME NEW a \in Anfrage, AntwortErhalten(a) PROVE Inv'
    BY <1>3, AntwortErhaltenInv
  <1>4. CASE UNCHANGED vars
    BY <1>4, TabellenBleiben DEF vars, tabellen, Inv, NetzOK
  <1> QED
    BY <1>1, <1>2, <1>3, <1>4 DEF Next

\* Rows, pages and requests keep their types, whatever overlaps: no row without
\* a person is stored, and every digit that is nobody's id is caught.
THEOREM TeamTyp == Spec => []TypeOK
  <1>1. Inv => TypeOK
    BY DEF Inv, TabellenOK, NetzOK, TypeOK
  <1> QED
    BY <1>1, InitInv, InvErhalten, PTL DEF Spec
------------------------------------------------------------------------------
(* What requests and pages know of the tables.  The invariant speaks of    *)
(* requests that no other has disturbed (allein) and of pages that nothing *)
(* has passed by (treu): of the others nothing can be said.                *)

\* The steps of the two dialogs and of update.
TeamDialog == {"suchen", "anlegen", "loeschen", "antwort"}
FmaDialog == {"fma", "fmaAnlegen", "fmaLesen", "fmaAntwort"}
Update == {"zeilen", "fmaZeilen", "leiter", "speichern"}

\* No two rows have one id, no two rows one person.
Eindeutig(zeilen) == \A y, z \in zeilen : y.id = z.id => y = z
JedeEinmal(zeilen) == \A y, z \in zeilen : y.person = z.person => y = z

\* The database numbers its rows.
NummernOK ==
    /\ Eindeutig(tm) /\ Eindeutig(fma) /\ Eindeutig(leiter)
    /\ \A z \in tm \cup fma \cup leiter : z.id < frisch

\* The selection has arrived as sent: several persons, or one whose id has the
\* digits of her id only.
Angekommen(r) == Cardinality(r.auswahl) = 1 => UNION {Ziffern[p] : p \in r.auswahl} = r.auswahl

\* Those of the leaders l that lead one of the rows t.
Echte(l, t) == {x \in l : x.tm \in Ids(t)}

\* The rows a dialog has collected are rows of the tables t and f, and in the
\* end all of them; the leader of its answer is one of l that leads one of them.
ListeStimmt(r, t, f, l) ==
    /\ r.pc \in {"suchen", "anlegen"} => r.liste \subseteq t
    /\ r.pc = "loeschen" => r.weg \subseteq Ids(t) /\ r.liste = {z \in t : z.id \notin r.weg}
    /\ r.pc = "antwort" => r.liste = t /\ r.form.gruppe \in OderKeiner({x.tm : x \in Echte(l, t)})
    /\ r.pc = "fmaAntwort" => r.liste = f

\* They belong to the persons chosen that have been looked up, one row each, and
\* whoever had a row before is on the list with that row.
AuswahlStimmt(r, t) == Angekommen(r) =>
    /\ r.pc \in {"suchen", "anlegen"} =>
           /\ r.vorher \subseteq t /\ t \subseteq r.vorher \cup r.liste
           /\ Personen(r.liste) \cap r.rest = {}
    /\ r.pc = "anlegen" => r.wer \in r.rest /\ r.wer \notin Personen(t)
    /\ r.pc \in {"suchen", "anlegen", "loeschen"} =>
           /\ Personen(r.liste) \cup r.rest = r.auswahl
           /\ JedeEinmal(r.liste)
           /\ \A z \in r.liste : z.person \in Personen(r.vorher) => z \in r.vorher
    /\ r.pc = "loeschen" => r.rest = {}

\* No leader of l but the form's; and what update makes of it.
Einziger(f, l) == {x.id : x \in l} \subseteq {f.plId}
Plan(f, l) ==
    IF \E x \in l : x.id = f.plId
    THEN IF f.gruppe # f.plTm /\ \E x \in l : x.id = f.plId /\ x.tm # f.gruppe
         THEN "umsetzen" ELSE "nichts"
    ELSE IF f.gruppe # Keiner THEN "neu" ELSE "nichts"

\* The tables have the rows of the form that update saves: those it has been
\* through as they were typed, the others as they were.
UpdateStimmt(r, t, f, l) == (r.treu /\ r.pc \in Update) =>
    /\ Eindeutig(r.form.tm) /\ Eindeutig(r.form.fma)
    /\ Ids(t) = Ids(r.form.tm) /\ Ids(f) = Ids(r.form.fma)
    /\ \A z \in t : z \in r.form.tm \/ (r.pc = "zeilen" /\ z.id \in r.weg)
    /\ \A z \in f : \/ z \in r.form.fma
                    \/ r.pc = "zeilen" \/ (r.pc = "fmaZeilen" /\ z.id \in r.weg)
    /\ \A x \in l : x.id = r.form.plId => x.tm = r.form.plTm /\ x.tm \in Ids(t)
    /\ Einziger(r.form, Echte(l, t)) =>
           r.form.gruppe \in Ids(t) \/ (r.form.gruppe = Keiner /\ Echte(l, t) = {})
    /\ r.pc = "speichern" => r.plan = Plan(r.form, l)

\* A free-lance member is only added alone (line 522).
VorgangStimmt(r, t, f, l) ==
    /\ r.allein => ListeStimmt(r, t, f, l) /\ AuswahlStimmt(r, t) /\ UpdateStimmt(r, t, f, l)
    /\ r.pc = "fmaAnlegen" => \E p \in Person : r.auswahl = {p}

\* A page that is up to date waits for one answer at most, and what that answer
\* will not replace is what the tables hold.
Arbeitet(a, s) == anfrage[a].pc # "frei" /\ anfrage[a].seite = s
FormStimmt(s) ==
    LET f == seite[s].form
    IN  (seite[s].auf /\ seite[s].treu) =>
          /\ \A a \in Anfrage : Arbeitet(a, s) =>
                 /\ anfrage[a].allein
                 /\ anfrage[a].pc \in TeamDialog \cup FmaDialog
                 /\ \A b \in Anfrage : Arbeitet(b, s) => a = b
          /\ \A x \in leiter : x.id = f.plId => x.tm = f.plTm /\ x.tm \in Ids(tm)
          /\ (\A a \in Anfrage : Arbeitet(a, s) => anfrage[a].pc \notin TeamDialog) =>
                 /\ f.tm = tm
                 /\ Einziger(f, Echte(leiter, tm)) =>
                        {f.gruppe} \ {Keiner} = {x.tm : x \in Echte(leiter, tm)}
          /\ (\A a \in Anfrage : Arbeitet(a, s) => anfrage[a].pc \notin FmaDialog) =>
                 f.fma = fma

Bild == /\ \A a \in Anfrage : VorgangStimmt(anfrage[a], tm, fma, leiter)
        /\ \A s \in Seite : FormStimmt(s)
TeamInv == Inv /\ NummernOK /\ Bild

\* A request loses nothing when its page is left, and is beyond this invariant
\* once another has written.
LEMMA AndereStimmen ==
    ASSUME NEW r \in Vorgang, NEW t, NEW f, NEW l, VorgangStimmt(r, t, f, l)
    PROVE  /\ \A s \in Seite \cup {Keiner} : VorgangStimmt([r EXCEPT !.seite = s], t, f, l)
           /\ VorgangStimmt([r EXCEPT !.allein = @ /\ ~FALSE], t, f, l)
           /\ \A t2, f2, l2 : VorgangStimmt([r EXCEPT !.allein = @ /\ ~TRUE], t2, f2, l2)
  <1>1. ASSUME NEW s PROVE VorgangStimmt([r EXCEPT !.seite = s], t, f, l)
    <2> DEFINE q == [r EXCEPT !.seite = s]
    <2>1. /\ q.pc = r.pc /\ q.auswahl = r.auswahl /\ q.rest = r.rest /\ q.wer = r.wer
          /\ q.liste = r.liste /\ q.weg = r.weg /\ q.form = r.form /\ q.plan = r.plan
          /\ q.vorher = r.vorher /\ q.treu = r.treu /\ q.allein = r.allein
      BY DEF Vorgang
    <2> HIDE DEF q
    <2>2. ListeStimmt(q, t, f, l) <=> ListeStimmt(r, t, f, l)
      BY <2>1, Zenon DEF ListeStimmt
    <2>3. Angekommen(q) <=> Angekommen(r)
      BY <2>1, Zenon DEF Angekommen
    <2>4. AuswahlStimmt(q, t) <=> AuswahlStimmt(r, t)
      BY <2>1, <2>3 DEF AuswahlStimmt
    <2>5. UpdateStimmt(q, t, f, l) <=> UpdateStimmt(r, t, f, l)
      BY <2>1 DEF UpdateStimmt
    <2>6. VorgangStimmt(q, t, f, l)
      BY <2>1, <2>2, <2>4, <2>5 DEF VorgangStimmt
    <2> QED
      BY <2>6 DEF q
  <1>2. [r EXCEPT !.allein = @ /\ ~FALSE] = r
    BY DEF Vorgang
  <1>3. ASSUME NEW t2, NEW f2, NEW l2
        PROVE  VorgangStimmt([r EXCEPT !.allein = @ /\ ~TRUE], t2, f2, l2)
    <2> DEFINE q == [r EXCEPT !.allein = @ /\ ~TRUE]
    <2>1. q.pc = r.pc /\ q.auswahl = r.auswahl /\ q.allein = FALSE
      BY DEF Vorgang
    <2> HIDE DEF q
    <2>2. VorgangStimmt(q, t2, f2, l2)
      BY <2>1 DEF VorgangStimmt
    <2> QED
      BY <2>2 DEF q
  <1> QED
    BY <1>1, <1>2, <1>3

LEMMA RuheStimmt ==
    \A t, f, l : VorgangStimmt(Ruhe, t, f, l) /\ Ruhe.pc = "frei"
  <1>1. Ruhe.pc = "frei"
    BY DEF Ruhe
  <1> QED
    BY <1>1 DEF VorgangStimmt, ListeStimmt, AuswahlStimmt, UpdateStimmt, Update

\* What others notice of a step of request a.
LEMMA AndereSehen ==
    ASSUME TeamInv, NEW a \in Anfrage, NEW r, NEW g \in BOOLEAN, Weiter(a, r, g),
           ~g => UNCHANGED <<tm, fma, leiter>>
    PROVE  /\ anfrage'[a] = r
           /\ \A b \in Anfrage : b # a =>
                 /\ VorgangStimmt(anfrage'[b], tm', fma', leiter')
                 /\ anfrage'[b].pc = anfrage[b].pc
                 /\ anfrage[b].pc # "frei" =>
                       /\ anfrage'[b].seite = anfrage[b].seite
                       /\ anfrage'[b].allein = (anfrage[b].allein /\ ~g)
  <1>1. anfrage' = [b \in Anfrage |->
            IF b = a THEN r
            ELSE IF anfrage[b].pc = "frei" THEN Ruhe
            ELSE [anfrage[b] EXCEPT !.allein = @ /\ ~g]]
    BY DEF Weiter
  <1>2. ASSUME NEW b \in Anfrage, b # a
        PROVE  /\ VorgangStimmt(anfrage'[b], tm', fma', leiter')
               /\ anfrage'[b].pc = anfrage[b].pc
               /\ anfrage[b].pc # "frei" =>
                     /\ anfrage'[b].seite = anfrage[b].seite
                     /\ anfrage'[b].allein = (anfrage[b].allein /\ ~g)
    <2> DEFINE q == anfrage[b]
    <2>1. q \in Vorgang /\ VorgangStimmt(q, tm, fma, leiter)
      BY VorgangAmWerk DEF TeamInv, Bild
    <2>2. anfrage'[b] = IF q.pc = "frei" THEN Ruhe ELSE [q EXCEPT !.allein = @ /\ ~g]
      BY <1>1, <1>2
    <2> HIDE DEF q
    <2>3. CASE q.pc = "frei"
      BY <2>2, <2>3, RuheStimmt DEF q
    <2>4. CASE q.pc # "frei"
      <3>1. /\ [q EXCEPT !.allein = @ /\ ~g].pc = q.pc
            /\ [q EXCEPT !.allein = @ /\ ~g].seite = q.seite
            /\ [q EXCEPT !.allein = @ /\ ~g].allein = (q.allein /\ ~g)
        BY <2>1 DEF Vorgang
      <3>2. anfrage'[b] = [q EXCEPT !.allein = @ /\ ~g]
        BY <2>2, <2>4
      <3>3. VorgangStimmt([q EXCEPT !.allein = @ /\ ~g], tm', fma', leiter')
        <4>1. CASE g = TRUE
          BY <2>1, <4>1, AndereStimmen
        <4>2. CASE g = FALSE
          BY <2>1, <4>2, AndereStimmen
        <4> QED
          BY <4>1, <4>2
      <3> QED
        BY <3>1, <3>2, <3>3 DEF q
    <2> QED
      BY <2>3, <2>4
  <1> QED
    BY <1>1, <1>2

\* A page that takes no part in a step.
LEMMA SeiteUnbeteiligt ==
    ASSUME NEW s \in Seite, FormStimmt(s),
           seite'[s].auf => seite[s].auf, seite'[s].form = seite[s].form,
           seite'[s].treu =>
               /\ seite[s].treu
               /\ UNCHANGED <<tm, fma, leiter>>
               /\ \A b \in Anfrage :
                      /\ Arbeitet(b, s)' <=> Arbeitet(b, s)
                      /\ Arbeitet(b, s) => /\ anfrage'[b].pc = anfrage[b].pc
                                           /\ anfrage[b].allein => anfrage'[b].allein
    PROVE  FormStimmt(s)'
  BY DEF FormStimmt

\* What a dialog for members leaves alone: it deletes leaders with their rows.
NurMitglieder ==
    /\ fma' = fma /\ leiter' \subseteq leiter
    /\ \A x \in leiter' : x.tm \in Ids(tm) => x.tm \in Ids(tm')

LEMMA NichtsGeschrieben ==
    ASSUME UNCHANGED <<tm, fma, leiter>>
    PROVE  NurMitglieder
  BY DEF NurMitglieder

\* A step of a request and the pages: what it may do to the tables depends on
\* whether its own page is still there to notice.
LEMMA WeiterSeiten ==
    ASSUME TeamInv, NEW a \in Anfrage, NEW r \in Vorgang, NEW g \in BOOLEAN, Weiter(a, r, g),
           anfrage[a].pc # "frei",
           ~g => UNCHANGED <<tm, fma, leiter>>,
           r.pc # "frei" => r.seite = anfrage[a].seite /\ r.allein = anfrage[a].allein,
           \/ /\ anfrage[a].pc \in TeamDialog /\ r.pc \in TeamDialog
              /\ NurMitglieder
           \/ /\ anfrage[a].pc \in FmaDialog /\ r.pc \in FmaDialog
              /\ tm' = tm /\ leiter' = leiter
           \/ anfrage[a].pc \in Update
    PROVE  \A s \in Seite : FormStimmt(s)'
  <1>1. /\ anfrage'[a] = r
        /\ \A b \in Anfrage : b # a =>
              /\ anfrage'[b].pc = anfrage[b].pc
              /\ anfrage[b].pc # "frei" =>
                    /\ anfrage'[b].seite = anfrage[b].seite
                    /\ anfrage'[b].allein = (anfrage[b].allein /\ ~g)
    BY AndereSehen
  <1>2. \A s \in Seite : FormStimmt(s) /\ seite[s] \in Browserseite
    BY DEF TeamInv, Bild, Inv, NetzOK
  <1>3. ASSUME NEW s \in Seite, s # anfrage[a].seite
        PROVE  FormStimmt(s)'
    <2>1. seite'[s] = [seite[s] EXCEPT !.treu = @ /\ ~g]
      BY <1>3 DEF Weiter
    <2>2. /\ seite'[s].auf = seite[s].auf /\ seite'[s].form = seite[s].form
          /\ seite'[s].treu = (seite[s].treu /\ ~g)
      BY <1>2, <2>1 DEF Browserseite
    <2>3. \A b \in Anfrage :
              /\ Arbeitet(b, s)' <=> Arbeitet(b, s)
              /\ Arbeitet(b, s) => /\ anfrage'[b].pc = anfrage[b].pc
                                   /\ anfrage[b].allein /\ ~g => anfrage'[b].allein
      BY <1>1, <1>3 DEF Arbeitet
    <2> QED
      BY <1>2, <2>2, <2>3, SeiteUnbeteiligt
  <1>4. ASSUME NEW s \in Seite, s = anfrage[a].seite
        PROVE  FormStimmt(s)'
    <2>1. seite'[s] = seite[s]
      BY <1>4 DEF Weiter
    <2>2. SUFFICES ASSUME seite[s].auf, seite[s].treu PROVE FormStimmt(s)'
      BY <2>1 DEF FormStimmt
    <2>3. /\ anfrage[a].allein
          /\ anfrage[a].pc \in TeamDialog \cup FmaDialog
          /\ \A b \in Anfrage : Arbeitet(b, s) => a = b
          /\ \A x \in leiter : x.id = seite[s].form.plId =>
                 x.tm = seite[s].form.plTm /\ x.tm \in Ids(tm)
          /\ (\A b \in Anfrage : Arbeitet(b, s) => anfrage[b].pc \notin TeamDialog) =>
                 /\ seite[s].form.tm = tm
                 /\ Einziger(seite[s].form, Echte(leiter, tm)) =>
                        {seite[s].form.gruppe} \ {Keiner} = {x.tm : x \in Echte(leiter, tm)}
          /\ (\A b \in Anfrage : Arbeitet(b, s) => anfrage[b].pc \notin FmaDialog) =>
                 seite[s].form.fma = fma
      BY <1>2, <1>4, <2>2 DEF FormStimmt, Arbeitet
    <2>4. anfrage[a].pc \notin Update /\ r.pc # "frei"
      BY <2>3 DEF Update, TeamDialog, FmaDialog
    <2>5. /\ Arbeitet(a, s) /\ Arbeitet(a, s)'
          /\ \A b \in Anfrage : Arbeitet(b, s)' => b = a
          /\ anfrage'[a].allein
      BY <1>1, <1>4, <2>3, <2>4 DEF Arbeitet
    <2>6. CASE anfrage[a].pc \in TeamDialog
      <3>1. r.pc \in TeamDialog /\ NurMitglieder
        BY <2>4, <2>6 DEF TeamDialog, FmaDialog
      <3>2. seite[s].form.fma = fma'
        BY <2>3, <2>6, <3>1 DEF TeamDialog, FmaDialog, NurMitglieder
      <3>3. \A x \in leiter' : x.id = seite[s].form.plId =>
                x.tm = seite[s].form.plTm /\ x.tm \in Ids(tm')
        BY <2>3, <3>1 DEF NurMitglieder
      <3> QED
        BY <1>1, <2>1, <2>5, <3>1, <3>2, <3>3 DEF FormStimmt
    <2>7. CASE anfrage[a].pc \in FmaDialog
      <3>1. r.pc \in FmaDialog /\ tm' = tm /\ leiter' = leiter
        BY <2>4, <2>7 DEF TeamDialog, FmaDialog
      <3>2. /\ seite[s].form.tm = tm
            /\ Einziger(seite[s].form, Echte(leiter, tm)) =>
                   {seite[s].form.gruppe} \ {Keiner} = {x.tm : x \in Echte(leiter, tm)}
        BY <2>3, <2>7 DEF TeamDialog, FmaDialog
      <3> QED
        BY <1>1, <2>1, <2>3, <2>5, <3>1, <3>2 DEF FormStimmt
    <2> QED
      BY <2>3, <2>6, <2>7
  <1> QED
    BY <1>3, <1>4

LEMMA WeiterBild ==
    ASSUME TeamInv, NEW a \in Anfrage, NEW r \in Vorgang, NEW g \in BOOLEAN, Weiter(a, r, g),
           anfrage[a].pc # "frei",
           ~g => UNCHANGED <<tm, fma, leiter>>,
           r.pc # "frei" => r.seite = anfrage[a].seite /\ r.allein = anfrage[a].allein,
           \/ /\ anfrage[a].pc \in TeamDialog /\ r.pc \in TeamDialog
              /\ NurMitglieder
           \/ /\ anfrage[a].pc \in FmaDialog /\ r.pc \in FmaDialog
              /\ tm' = tm /\ leiter' = leiter
           \/ anfrage[a].pc \in Update,
           VorgangStimmt(r, tm', fma', leiter')
    PROVE  Bild'
  <1>1. \A s \in Seite : FormStimmt(s)'
    BY WeiterSeiten
  <1>2. \A b \in Anfrage : VorgangStimmt(anfrage'[b], tm', fma', leiter')
    BY AndereSehen
  <1> QED
    BY <1>1, <1>2 DEF Bild

LEMMA NummernBleiben ==
    ASSUME NummernOK, UNCHANGED tabellen
    PROVE  NummernOK'
  BY DEF NummernOK, tabellen, Eindeutig

LEMMA ListeWaechst ==
    ASSUME NEW L, NEW z
    PROVE  /\ Personen(L \cup {z}) = Personen(L) \cup {z.person}
           /\ JedeEinmal(L) /\ z.person \notin Personen(L) => JedeEinmal(L \cup {z})
  BY DEF Personen, JedeEinmal

LEMMA VorgangBekannt ==
    ASSUME TeamInv, NEW a \in Anfrage
    PROVE  /\ anfrage[a] \in Vorgang
           /\ VorgangStimmt(anfrage[a], tm, fma, leiter)
  BY VorgangAmWerk DEF TeamInv, Bild

------------------------------------------------------------------------------
(* editTeammitglieder. *)

LEMMA MitgliedSuchenBild ==
    ASSUME TeamInv, NEW a \in Anfrage, MitgliedSuchen(a)
    PROVE  Bild'
  <1> DEFINE r == anfrage[a]
  <1>1. r \in Vorgang /\ VorgangStimmt(r, tm, fma, leiter) /\ r.pc = "suchen"
        /\ UNCHANGED <<tm, fma, leiter>>
    BY VorgangBekannt DEF MitgliedSuchen, tabellen
  <1>2. PICK p \in r.rest \ {Keiner} :
           \/ /\ p \notin Personen(tm)
              /\ Weiter(a, [r EXCEPT !.pc = "anlegen", !.wer = p], FALSE)
           \/ \E z \in {y \in tm : y.person = p} :
                 Weiter(a, [r EXCEPT !.liste = @ \cup {z}, !.rest = @ \ {p}], FALSE)
    BY DEF MitgliedSuchen, Personen
  <1> HIDE DEF r
  <1>3. r.pc \in TeamDialog /\ r.pc # "frei"
    BY <1>1 DEF TeamDialog
  <1>4. CASE /\ p \notin Personen(tm)
             /\ Weiter(a, [r EXCEPT !.pc = "anlegen", !.wer = p], FALSE)
    <2> DEFINE q == [r EXCEPT !.pc = "anlegen", !.wer = p]
    <2>1. /\ q \in Vorgang /\ q.pc = "anlegen" /\ q.wer = p
          /\ q.seite = r.seite /\ q.allein = r.allein /\ q.liste = r.liste /\ q.rest = r.rest
          /\ q.auswahl = r.auswahl /\ q.vorher = r.vorher
      BY <1>1, <1>2 DEF Vorgang
    <2>2. Weiter(a, q, FALSE)
      BY <1>4
    <2> HIDE DEF q
    <2>3. Angekommen(q) <=> Angekommen(r)
      BY <2>1, Zenon DEF Angekommen
    <2>4. r.allein => ListeStimmt(q, tm, fma, leiter) /\ UpdateStimmt(q, tm, fma, leiter)
      BY <1>1, <2>1 DEF VorgangStimmt, ListeStimmt, UpdateStimmt, Update
    <2>5. r.allein => AuswahlStimmt(q, tm)
      BY <1>1, <1>2, <1>4, <2>1, <2>3 DEF VorgangStimmt, AuswahlStimmt
    <2>6. VorgangStimmt(q, tm, fma, leiter)
      BY <2>1, <2>4, <2>5 DEF VorgangStimmt
    <2>7. q.pc \in TeamDialog
      BY <2>1 DEF TeamDialog
    <2> QED
      BY <1>1, <1>3, <2>1, <2>2, <2>6, <2>7, NichtsGeschrieben, WeiterBild DEF r
  <1>5. ASSUME NEW z \in tm, z.person = p,
               Weiter(a, [r EXCEPT !.liste = @ \cup {z}, !.rest = @ \ {p}], FALSE)
        PROVE  Bild'
    <2> DEFINE q == [r EXCEPT !.liste = @ \cup {z}, !.rest = @ \ {p}]
    <2>1. /\ q \in Vorgang /\ q.pc = "suchen" /\ q.liste = r.liste \cup {z}
          /\ q.rest = r.rest \ {p}
          /\ q.seite = r.seite /\ q.allein = r.allein
          /\ q.auswahl = r.auswahl /\ q.vorher = r.vorher
      <3>1. z \in Zeile
        BY DEF TeamInv, Inv, TabellenOK
      <3> QED
        BY <1>1, <3>1 DEF Vorgang
    <2>2. Weiter(a, q, FALSE)
      BY <1>5
    <2> HIDE DEF q
    <2>3. Angekommen(q) <=> Angekommen(r)
      BY <2>1, Zenon DEF Angekommen
    <2>4. r.allein => ListeStimmt(q, tm, fma, leiter) /\ UpdateStimmt(q, tm, fma, leiter)
      BY <1>1, <2>1 DEF VorgangStimmt, ListeStimmt, UpdateStimmt, Update
    <2>5. ASSUME r.allein, Angekommen(q)
          PROVE  AuswahlStimmt(q, tm)
      <3>1. /\ r.vorher \subseteq tm /\ tm \subseteq r.vorher \cup r.liste
            /\ Personen(r.liste) \cap r.rest = {}
            /\ Personen(r.liste) \cup r.rest = r.auswahl
            /\ JedeEinmal(r.liste)
            /\ \A y \in r.liste : y.person \in Personen(r.vorher) => y \in r.vorher
        BY <1>1, <2>3, <2>5 DEF VorgangStimmt, AuswahlStimmt
      <3>2. p \in r.rest /\ p \notin Personen(r.liste)
        BY <1>2, <3>1
      <3>3. z \in r.vorher
        BY <1>5, <3>1, <3>2 DEF Personen
      <3>4. Personen(q.liste) = Personen(r.liste) \cup {p} /\ JedeEinmal(q.liste)
        <4>1. /\ Personen(r.liste \cup {z}) = Personen(r.liste) \cup {z.person}
              /\ JedeEinmal(r.liste) /\ z.person \notin Personen(r.liste) =>
                     JedeEinmal(r.liste \cup {z})
          BY ListeWaechst, Zenon
        <4> QED
          BY <1>5, <2>1, <3>1, <3>2, <4>1
      <3> QED
        BY <2>1, <3>1, <3>2, <3>3, <3>4 DEF AuswahlStimmt
    <2>6. VorgangStimmt(q, tm, fma, leiter)
      BY <2>1, <2>4, <2>5 DEF VorgangStimmt, AuswahlStimmt
    <2> QED
      BY <1>1, <1>3, <2>1, <2>2, <2>6, NichtsGeschrieben, WeiterBild DEF r
  <1> QED
    BY <1>2, <1>4, <1>5

LEMMA MitgliedAnlegenBild ==
    ASSUME TeamInv, NEW a \in Anfrage, MitgliedAnlegen(a)
    PROVE  Bild' /\ NummernOK'
  <1> DEFINE r == anfrage[a]
             z == [id |-> frisch, person |-> r.wer, daten |-> Leer]
             q == [r EXCEPT !.pc = "suchen", !.liste = @ \cup {z},
                            !.rest = @ \ {r.wer}, !.wer = Keiner]
  <1>1. r \in Vorgang /\ Passend(r) /\ VorgangStimmt(r, tm, fma, leiter) /\ r.pc = "anlegen"
    BY VorgangBekannt, VorgangAmWerk DEF MitgliedAnlegen, TeamInv
  <1>2. /\ tm' = tm \cup {z} /\ frisch' = frisch + 1 /\ frisch <= MaxZeilen
        /\ Weiter(a, q, TRUE) /\ UNCHANGED <<fma, leiter>>
    BY DEF MitgliedAnlegen
  <1> HIDE DEF r
  <1>3. z \in Zeile /\ z.id = frisch /\ z.person = r.wer
    BY <1>1, <1>2, NeueZeile DEF TeamInv, Inv, Passend
  <1> HIDE DEF z
  <1>4. /\ q \in Vorgang /\ q.pc = "suchen" /\ q.liste = r.liste \cup {z}
        /\ q.rest = r.rest \ {r.wer}
        /\ q.seite = r.seite /\ q.allein = r.allein
        /\ q.auswahl = r.auswahl /\ q.vorher = r.vorher
    BY <1>1, <1>3 DEF Vorgang
  <1> HIDE DEF q
  <1>5. Angekommen(q) <=> Angekommen(r)
    BY <1>4, Zenon DEF Angekommen
  <1>6. r.allein => ListeStimmt(q, tm', fma', leiter') /\ UpdateStimmt(q, tm', fma', leiter')
    BY <1>1, <1>2, <1>4 DEF VorgangStimmt, ListeStimmt, UpdateStimmt, Update
  <1>7. ASSUME r.allein, Angekommen(q)
        PROVE  AuswahlStimmt(q, tm')
    <2>1. /\ r.vorher \subseteq tm /\ tm \subseteq r.vorher \cup r.liste
          /\ Personen(r.liste) \cap r.rest = {}
          /\ r.wer \in r.rest /\ r.wer \notin Personen(tm)
          /\ Personen(r.liste) \cup r.rest = r.auswahl
          /\ JedeEinmal(r.liste)
          /\ \A y \in r.liste : y.person \in Personen(r.vorher) => y \in r.vorher
      BY <1>1, <1>5, <1>7 DEF VorgangStimmt, AuswahlStimmt
    <2>2. r.wer \notin Personen(r.liste) /\ r.wer \notin Personen(r.vorher)
      BY <2>1 DEF Personen
    <2>3. Personen(q.liste) = Personen(r.liste) \cup {r.wer} /\ JedeEinmal(q.liste)
      <3>1. /\ Personen(r.liste \cup {z}) = Personen(r.liste) \cup {z.person}
            /\ JedeEinmal(r.liste) /\ z.person \notin Personen(r.liste) =>
                   JedeEinmal(r.liste \cup {z})
        BY ListeWaechst, Zenon
      <3> QED
        BY <1>3, <1>4, <2>1, <2>2, <3>1
    <2>4. r.vorher \subseteq tm' /\ tm' \subseteq r.vorher \cup q.liste
      BY <1>2, <1>4, <2>1
    <2>5. /\ Personen(q.liste) \cap q.rest = {}
          /\ Personen(q.liste) \cup q.rest = q.auswahl
      BY <1>4, <2>1, <2>3
    <2>6. \A y \in q.liste : y.person \in Personen(q.vorher) => y \in q.vorher
      BY <1>3, <1>4, <2>1, <2>2
    <2> QED
      BY <1>4, <2>3, <2>4, <2>5, <2>6 DEF AuswahlStimmt
  <1>8. VorgangStimmt(q, tm', fma', leiter')
    BY <1>4, <1>6, <1>7 DEF VorgangStimmt, AuswahlStimmt
  <1>9. Bild'
    <2>1. r.pc \in TeamDialog /\ q.pc \in TeamDialog /\ r.pc # "frei"
      BY <1>1, <1>4 DEF TeamDialog
    <2>2. NurMitglieder
      BY <1>2 DEF NurMitglieder, Ids
    <2> QED
      BY <1>2, <1>4, <1>8, <2>1, <2>2, WeiterBild DEF r
  <1>10. NummernOK'
    <2>1. frisch \in Nat /\ tm \subseteq Zeile /\ fma \subseteq Zeile /\ leiter \subseteq Leiter
      BY TeamAssumption DEF TeamInv, Inv, TabellenOK
    <2>2. \A y \in tm \cup fma \cup leiter : y.id \in Nat /\ y.id < frisch
      BY <2>1, TeamAssumption DEF TeamInv, NummernOK, Zeile, Leiter, Id
    <2> QED
      BY <1>2, <1>3, <2>1, <2>2 DEF TeamInv, NummernOK, Eindeutig
  <1> QED
    BY <1>9, <1>10

LEMMA ScheiternBild ==
    ASSUME TeamInv, NEW a \in Anfrage, Scheitern(a)
    PROVE  Bild' /\ NummernOK'
  <1>1. UNCHANGED <<tm, fma, leiter, frisch>>
    BY DEF Scheitern, tabellen
  <1>2. /\ anfrage'[a] = Ruhe
        /\ \A b \in Anfrage : b # a => anfrage'[b] = anfrage[b]
    BY DEF Scheitern, TeamInv, Inv, NetzOK
  <1>3. \A b \in Anfrage : VorgangStimmt(anfrage'[b], tm', fma', leiter')
    BY <1>1, <1>2, RuheStimmt, VorgangBekannt
  <1>4. ASSUME NEW s \in Seite PROVE FormStimmt(s)'
    <2>1. FormStimmt(s) /\ seite[s] \in Browserseite
      BY DEF TeamInv, Bild, Inv, NetzOK
    <2>2. CASE s = anfrage[a].seite
      <3>1. seite'[s].treu = FALSE
        BY <2>1, <2>2 DEF Scheitern, Browserseite
      <3> QED
        BY <3>1 DEF FormStimmt
    <2>3. CASE s # anfrage[a].seite
      <3>1. seite'[s] = seite[s]
        BY <2>3 DEF Scheitern
      <3>2. \A b \in Anfrage :
                /\ Arbeitet(b, s)' <=> Arbeitet(b, s)
                /\ Arbeitet(b, s) => anfrage'[b] = anfrage[b]
        BY <1>2, <2>3, RuheStimmt DEF Arbeitet
      <3> QED
        BY <1>1, <2>1, <3>1, <3>2, SeiteUnbeteiligt
    <2> QED
      BY <2>2, <2>3
  <1>5. NummernOK'
    BY <1>1, NummernBleiben DEF TeamInv, tabellen
  <1> QED
    BY <1>3, <1>4, <1>5 DEF Bild

LEMMA TeamVergleichenBild ==
    ASSUME TeamInv, NEW a \in Anfrage, TeamVergleichen(a)
    PROVE  Bild'
  <1> DEFINE r == anfrage[a]
             w == Ids(tm) \ Ids(r.liste)
             q == [r EXCEPT !.pc = "loeschen", !.weg = w]
  <1>1. r \in Vorgang /\ VorgangStimmt(r, tm, fma, leiter) /\ r.pc = "suchen" /\ r.rest = {}
        /\ UNCHANGED <<tm, fma, leiter>> /\ Weiter(a, q, FALSE)
    BY VorgangBekannt DEF TeamVergleichen, tabellen
  <1>2. w \subseteq Id
    BY IdsTyp DEF TeamInv, Inv, TabellenOK
  <1> HIDE DEF r, w
  <1>3. /\ q \in Vorgang /\ q.pc = "loeschen" /\ q.liste = r.liste /\ q.weg = w
        /\ q.rest = r.rest /\ q.seite = r.seite /\ q.allein = r.allein
        /\ q.auswahl = r.auswahl /\ q.vorher = r.vorher
    BY <1>1, <1>2 DEF Vorgang
  <1> HIDE DEF q
  <1>4. Angekommen(q) <=> Angekommen(r)
    BY <1>3, Zenon DEF Angekommen
  <1>5. r.allein => ListeStimmt(q, tm, fma, leiter)
    <2>1. SUFFICES ASSUME r.allein
                   PROVE  w \subseteq Ids(tm) /\ r.liste = {z \in tm : z.id \notin w}
      BY <1>3 DEF ListeStimmt
    <2>2. r.liste \subseteq tm
      BY <1>1, <2>1 DEF VorgangStimmt, ListeStimmt
    <2>3. \A z \in tm : z.id \notin w <=> z \in r.liste
      BY <2>2 DEF w, Ids, TeamInv, NummernOK, Eindeutig
    <2> QED
      BY <2>2, <2>3 DEF w
  <1>6. r.allein => AuswahlStimmt(q, tm) /\ UpdateStimmt(q, tm, fma, leiter)
    BY <1>1, <1>3, <1>4 DEF VorgangStimmt, AuswahlStimmt, UpdateStimmt, Update
  <1>7. VorgangStimmt(q, tm, fma, leiter)
    BY <1>3, <1>5, <1>6 DEF VorgangStimmt
  <1>8. r.pc \in TeamDialog /\ q.pc \in TeamDialog /\ r.pc # "frei"
    BY <1>1, <1>3 DEF TeamDialog
  <1> QED
    BY <1>1, <1>3, <1>7, <1>8, NichtsGeschrieben, WeiterBild DEF r

LEMMA MitgliedLoeschenBild ==
    ASSUME TeamInv, NEW a \in Anfrage, MitgliedLoeschen(a)
    PROVE  Bild' /\ NummernOK'
  <1> DEFINE r == anfrage[a]
  <1>1. r \in Vorgang /\ VorgangStimmt(r, tm, fma, leiter) /\ r.pc = "loeschen"
    BY VorgangBekannt DEF MitgliedLoeschen
  <1>2. CASE Scheitern(a)
    BY <1>2, ScheiternBild
  <1>3. ASSUME NEW i \in r.weg,
               tm' = {z \in tm : z.id # i},
               leiter' = {l \in leiter : l.tm # i},
               Weiter(a, [r EXCEPT !.weg = @ \ {i}], TRUE),
               UNCHANGED <<fma, frisch>>
        PROVE  Bild' /\ NummernOK'
    <2> DEFINE q == [r EXCEPT !.weg = @ \ {i}]
    <2> HIDE DEF r
    <2>1. /\ q \in Vorgang /\ q.pc = "loeschen" /\ q.liste = r.liste /\ q.weg = r.weg \ {i}
          /\ q.rest = r.rest /\ q.seite = r.seite /\ q.allein = r.allein
          /\ q.auswahl = r.auswahl /\ q.vorher = r.vorher
      BY <1>1 DEF Vorgang
    <2>2. Weiter(a, q, TRUE)
      BY <1>3
    <2> HIDE DEF q
    <2>3. Angekommen(q) <=> Angekommen(r)
      BY <2>1, Zenon DEF Angekommen
    <2>4. r.allein => ListeStimmt(q, tm', fma', leiter')
      <3>1. SUFFICES ASSUME r.allein
                     PROVE  q.weg \subseteq Ids(tm') /\ q.liste = {z \in tm' : z.id \notin q.weg}
        BY <2>1 DEF ListeStimmt
      <3>2. r.weg \subseteq Ids(tm) /\ r.liste = {z \in tm : z.id \notin r.weg}
        BY <1>1, <3>1 DEF VorgangStimmt, ListeStimmt
      <3> QED
        BY <1>3, <2>1, <3>2 DEF Ids
    <2>5. r.allein => AuswahlStimmt(q, tm') /\ UpdateStimmt(q, tm', fma', leiter')
      BY <1>1, <2>1, <2>3 DEF VorgangStimmt, AuswahlStimmt, UpdateStimmt, Update
    <2>6. VorgangStimmt(q, tm', fma', leiter')
      BY <2>1, <2>4, <2>5 DEF VorgangStimmt
    <2>7. r.pc \in TeamDialog /\ q.pc \in TeamDialog /\ r.pc # "frei"
      BY <1>1, <2>1 DEF TeamDialog
    <2>8. Bild'
      <3>1. NurMitglieder
        BY <1>3 DEF NurMitglieder, Ids
      <3> QED
        BY <2>1, <2>2, <2>6, <2>7, <3>1, WeiterBild DEF r
    <2>9. NummernOK'
      BY <1>3 DEF TeamInv, NummernOK, Eindeutig
    <2> QED
      BY <2>8, <2>9
  <1> QED
    BY <1>2, <1>3 DEF MitgliedLoeschen

LEMMA TeamAntwortenBild ==
    ASSUME TeamInv, NEW a \in Anfrage, TeamAntworten(a)
    PROVE  Bild' /\ NummernOK'
  <1> DEFINE r == anfrage[a]
  <1>1. r \in Vorgang /\ VorgangStimmt(r, tm, fma, leiter) /\ r.pc = "loeschen" /\ r.weg = {}
    BY VorgangBekannt DEF TeamAntworten
  <1>2. CASE Scheitern(a)
    BY <1>2, ScheiternBild
  <1>3. ASSUME NEW i \in OderKeiner({l.tm : l \in leiter} \cap Ids(r.liste)),
               Weiter(a, [r EXCEPT !.pc = "antwort", !.form.gruppe = i], FALSE),
               UNCHANGED tabellen
        PROVE  Bild' /\ NummernOK'
    <2> DEFINE q == [r EXCEPT !.pc = "antwort", !.form.gruppe = i]
    <2>1. {l.tm : l \in leiter} \subseteq Id
      BY DEF TeamInv, Inv, TabellenOK, Leiter
    <2>2. i \in Id \cup {Keiner}
      BY <2>1 DEF OderKeiner
    <2> HIDE DEF r
    <2>3. r.form \in Formular
      BY <1>1 DEF Vorgang
    <2>4. [r.form EXCEPT !.gruppe = i] \in Formular /\ [r.form EXCEPT !.gruppe = i].gruppe = i
      BY <2>2, <2>3 DEF Formular
    <2>5. /\ q \in Vorgang /\ q.pc = "antwort" /\ q.liste = r.liste
          /\ q.seite = r.seite /\ q.allein = r.allein /\ q.form.gruppe = i
      BY <1>1, <2>4 DEF Vorgang
    <2>6. Weiter(a, q, FALSE) /\ UNCHANGED <<tm, fma, leiter>>
      BY <1>3 DEF tabellen
    <2> HIDE DEF q
    <2>7. r.allein => r.liste = tm
      BY <1>1 DEF VorgangStimmt, ListeStimmt
    <2>8. NurMitglieder
      BY <2>6, NichtsGeschrieben
    <2>9. r.allein =>
              {l.tm : l \in leiter} \cap Ids(r.liste) = {x.tm : x \in Echte(leiter, tm)}
      BY <2>7 DEF Echte
    <2>10. VorgangStimmt(q, tm, fma, leiter)
      <3>1. r.allein => ListeStimmt(q, tm, fma, leiter)
        BY <1>3, <2>5, <2>7, <2>9 DEF ListeStimmt
      <3>2. AuswahlStimmt(q, tm) /\ UpdateStimmt(q, tm, fma, leiter)
        BY <2>5 DEF AuswahlStimmt, UpdateStimmt, Update
      <3> QED
        BY <2>5, <3>1, <3>2 DEF VorgangStimmt
    <2>11. r.pc \in TeamDialog /\ q.pc \in TeamDialog /\ r.pc # "frei"
      BY <1>1, <2>5 DEF TeamDialog
    <2>12. Bild'
      BY <2>5, <2>6, <2>8, <2>10, <2>11, WeiterBild DEF r
    <2> QED
      BY <1>3, <2>12, NummernBleiben DEF TeamInv
  <1> QED
    BY <1>2, <1>3 DEF TeamAntworten

------------------------------------------------------------------------------
(* editFMA. *)

LEMMA GenauEine ==
    ASSUME NEW P \in SUBSET Person, Cardinality(P) = 1
    PROVE  \E p \in Person : P = {p}
  <1>1. IsFiniteSet(P)
    BY FS_Subset, TeamAssumption
  <1> QED
    BY <1>1, FS_Singleton

LEMMA FmaSuchenBild ==
    ASSUME TeamInv, NEW a \in Anfrage, FmaSuchen(a)
    PROVE  Bild' /\ NummernOK'
  <1> DEFINE r == anfrage[a]
  <1>1. r \in Vorgang /\ r.pc = "fma"
    BY VorgangBekannt DEF FmaSuchen
  <1>2. CASE Scheitern(a)
    BY <1>2, ScheiternBild
  <1>3. ASSUME NEW pc \in {"fmaLesen", "fmaAnlegen"},
               pc = "fmaAnlegen" => Cardinality(r.auswahl) = 1,
               Weiter(a, [r EXCEPT !.pc = pc], FALSE), UNCHANGED tabellen
        PROVE  Bild' /\ NummernOK'
    <2> DEFINE q == [r EXCEPT !.pc = pc]
    <2> HIDE DEF r
    <2>1. /\ q \in Vorgang /\ q.pc = pc /\ q.auswahl = r.auswahl
          /\ q.seite = r.seite /\ q.allein = r.allein
      BY <1>1 DEF Vorgang
    <2>2. Weiter(a, q, FALSE) /\ UNCHANGED <<tm, fma, leiter>>
      BY <1>3 DEF tabellen
    <2> HIDE DEF q
    <2>3. pc = "fmaAnlegen" => \E p \in Person : r.auswahl = {p}
      BY <1>1, <1>3, GenauEine DEF Vorgang
    <2>4. VorgangStimmt(q, tm, fma, leiter)
      BY <2>1, <2>3 DEF VorgangStimmt, ListeStimmt, AuswahlStimmt, UpdateStimmt, Update
    <2>5. r.pc \in FmaDialog /\ q.pc \in FmaDialog /\ r.pc # "frei"
      BY <1>1, <2>1 DEF FmaDialog
    <2>6. Bild'
      BY <2>1, <2>2, <2>4, <2>5, WeiterBild DEF r
    <2> QED
      BY <1>3, <2>6, NummernBleiben DEF TeamInv
  <1> QED
    BY <1>2, <1>3 DEF FmaSuchen

LEMMA FmaAnlegenBild ==
    ASSUME TeamInv, NEW a \in Anfrage, FmaAnlegen(a)
    PROVE  Bild' /\ NummernOK'
  <1> DEFINE r == anfrage[a]
             q == [r EXCEPT !.pc = "fmaLesen"]
  <1>1. r \in Vorgang /\ VorgangStimmt(r, tm, fma, leiter) /\ r.pc = "fmaAnlegen"
    BY VorgangBekannt DEF FmaAnlegen
  <1>2. /\ fma' = fma \cup {[id |-> frisch, person |-> p, daten |-> Leer] : p \in r.auswahl}
        /\ frisch' = frisch + 1 /\ frisch <= MaxZeilen
        /\ Weiter(a, q, TRUE) /\ UNCHANGED <<tm, leiter>>
    BY DEF FmaAnlegen
  <1> HIDE DEF r
  <1>3. q \in Vorgang /\ q.pc = "fmaLesen" /\ q.seite = r.seite /\ q.allein = r.allein
    BY <1>1 DEF Vorgang
  <1> HIDE DEF q
  <1>4. VorgangStimmt(q, tm', fma', leiter')
    BY <1>3 DEF VorgangStimmt, ListeStimmt, AuswahlStimmt, UpdateStimmt, Update
  <1>5. r.pc \in FmaDialog /\ q.pc \in FmaDialog /\ r.pc # "frei"
    BY <1>1, <1>3 DEF FmaDialog
  <1>6. Bild'
    BY <1>2, <1>3, <1>4, <1>5, WeiterBild DEF r
  <1>7. PICK p \in Person : r.auswahl = {p}
    BY <1>1 DEF VorgangStimmt
  <1> DEFINE z == [id |-> frisch, person |-> p, daten |-> Leer]
  <1>8. fma' = fma \cup {z} /\ z.id = frisch
    BY <1>2, <1>7
  <1> HIDE DEF z
  <1>9. NummernOK'
    <2>1. frisch \in Nat /\ tm \subseteq Zeile /\ fma \subseteq Zeile /\ leiter \subseteq Leiter
      BY TeamAssumption DEF TeamInv, Inv, TabellenOK
    <2>2. \A y \in tm \cup fma \cup leiter : y.id \in Nat /\ y.id < frisch
      BY <2>1, TeamAssumption DEF TeamInv, NummernOK, Zeile, Leiter, Id
    <2> QED
      BY <1>2, <1>8, <2>1, <2>2 DEF TeamInv, NummernOK, Eindeutig
  <1> QED
    BY <1>6, <1>9

LEMMA FmaAntwortenBild ==
    ASSUME TeamInv, NEW a \in Anfrage, FmaAntworten(a)
    PROVE  Bild' /\ NummernOK'
  <1> DEFINE r == anfrage[a]
             q == [r EXCEPT !.pc = "fmaAntwort", !.liste = fma]
  <1>1. r \in Vorgang /\ r.pc = "fmaLesen" /\ fma \subseteq Zeile
    BY VorgangBekannt DEF FmaAntworten, TeamInv, Inv, TabellenOK
  <1>2. CASE Scheitern(a)
    BY <1>2, ScheiternBild
  <1>3. CASE Weiter(a, q, FALSE) /\ UNCHANGED tabellen
    <2> HIDE DEF r
    <2>1. /\ q \in Vorgang /\ q.pc = "fmaAntwort" /\ q.liste = fma
          /\ q.seite = r.seite /\ q.allein = r.allein
      BY <1>1 DEF Vorgang
    <2>2. Weiter(a, q, FALSE) /\ UNCHANGED <<tm, fma, leiter>>
      BY <1>3 DEF tabellen
    <2> HIDE DEF q
    <2>3. VorgangStimmt(q, tm, fma, leiter)
      BY <2>1 DEF VorgangStimmt, ListeStimmt, AuswahlStimmt, UpdateStimmt, Update
    <2>4. r.pc \in FmaDialog /\ q.pc \in FmaDialog /\ r.pc # "frei"
      BY <1>1, <2>1 DEF FmaDialog
    <2>5. Bild'
      BY <2>1, <2>2, <2>3, <2>4, WeiterBild DEF r
    <2> QED
      BY <1>3, <2>5, NummernBleiben DEF TeamInv
  <1> QED
    BY <1>2, <1>3 DEF FmaAntworten

------------------------------------------------------------------------------
(* update. *)

LEMMA ZeileSpeichernBild ==
    ASSUME TeamInv, NEW a \in Anfrage, ZeileSpeichern(a)
    PROVE  Bild' /\ NummernOK'
  <1> DEFINE r == anfrage[a]
  <1>1. /\ r \in Vorgang /\ Passend(r) /\ VorgangStimmt(r, tm, fma, leiter)
        /\ r.pc = "zeilen"
    BY VorgangBekannt, VorgangAmWerk DEF ZeileSpeichern, TeamInv
  <1>2. CASE Scheitern(a)
    BY <1>2, ScheiternBild
  <1>3. ASSUME NEW i \in r.weg,
               tm' = {IF z.id # i THEN z ELSE CHOOSE y \in r.form.tm : y.id = i : z \in tm},
               Weiter(a, [r EXCEPT !.weg = @ \ {i}], TRUE),
               UNCHANGED <<fma, leiter, frisch>>
        PROVE  Bild' /\ NummernOK'
    <2> DEFINE q == [r EXCEPT !.weg = @ \ {i}]
    <2> HIDE DEF r
    <2>1. /\ q \in Vorgang /\ q.pc = "zeilen" /\ q.weg = r.weg \ {i} /\ q.form = r.form
          /\ q.treu = r.treu /\ q.seite = r.seite /\ q.allein = r.allein
      BY <1>1 DEF Vorgang
    <2>2. Weiter(a, q, TRUE)
      BY <1>3
    <2> HIDE DEF q
    <2>3. i \in Ids(r.form.tm) /\ r.form.tm \subseteq Zeile /\ tm \subseteq Zeile
      BY <1>1, <1>3, FormTyp DEF Passend, TeamInv, Inv, TabellenOK
    <2>4. /\ Ids(tm') = Ids(tm)
          /\ Eindeutig(tm) => Eindeutig(tm')
          /\ \A z \in tm' : z \in r.form.tm \/ (z \in tm /\ z.id # i)
          /\ \A z \in tm' : \E y \in tm : y.id = z.id
      <3>1. Ids(tm') = Ids(tm)
        BY <1>3, <2>3, ZeileErsetzt
      <3> DEFINE c == CHOOSE y \in r.form.tm : y.id = i
      <3>2. c \in r.form.tm /\ c.id = i
        BY <2>3 DEF Ids
      <3>3. tm' = {IF z.id # i THEN z ELSE c : z \in tm}
        BY <1>3
      <3> HIDE DEF c
      <3>4. \A z \in tm' : \E y \in tm : y.id = z.id /\ z = IF y.id # i THEN y ELSE c
        BY <3>2, <3>3
      <3> QED
        BY <3>1, <3>2, <3>4 DEF Eindeutig
    <2>5. ASSUME r.allein, r.treu
          PROVE  UpdateStimmt(q, tm', fma', leiter')
      <3>1. UpdateStimmt(r, tm, fma, leiter)
        BY <1>1, <2>5 DEF VorgangStimmt
      <3>2. Echte(leiter', tm') = Echte(leiter, tm)
        BY <1>3, <2>4 DEF Echte
      <3> QED
        BY <1>1, <1>3, <2>1, <2>4, <2>5, <3>1, <3>2 DEF UpdateStimmt, Update
    <2>6. VorgangStimmt(q, tm', fma', leiter')
      <3>1. ListeStimmt(q, tm', fma', leiter') /\ AuswahlStimmt(q, tm')
        BY <2>1 DEF ListeStimmt, AuswahlStimmt
      <3>2. ~r.treu => UpdateStimmt(q, tm', fma', leiter')
        BY <2>1 DEF UpdateStimmt
      <3> QED
        BY <2>1, <2>5, <3>1, <3>2 DEF VorgangStimmt
    <2>7. r.pc \in Update /\ r.pc # "frei"
      BY <1>1 DEF Update
    <2>8. Bild'
      BY <2>1, <2>2, <2>6, <2>7, WeiterBild DEF r
    <2>9. NummernOK'
      <3>1. Eindeutig(tm)
        BY DEF TeamInv, NummernOK
      <3>2. \A z \in tm' \cup fma \cup leiter : z.id < frisch
        BY <2>4 DEF TeamInv, NummernOK
      <3> QED
        BY <1>3, <2>4, <3>1, <3>2 DEF TeamInv, NummernOK, Eindeutig
    <2> QED
      BY <2>8, <2>9
  <1> QED
    BY <1>2, <1>3 DEF ZeileSpeichern

LEMMA ZeilenGespeichertBild ==
    ASSUME TeamInv, NEW a \in Anfrage, ZeilenGespeichert(a)
    PROVE  Bild'
  <1> DEFINE r == anfrage[a]
             q == [r EXCEPT !.pc = "fmaZeilen", !.weg = Ids(r.form.fma)]
  <1>1. /\ r \in Vorgang /\ VorgangStimmt(r, tm, fma, leiter) /\ r.pc = "zeilen"
        /\ r.weg = {} /\ UNCHANGED <<tm, fma, leiter>> /\ Weiter(a, q, FALSE)
    BY VorgangBekannt DEF ZeilenGespeichert, tabellen
  <1> HIDE DEF r
  <1>2. Ids(r.form.fma) \subseteq Id
    BY <1>1, FormTyp
  <1>3. /\ q \in Vorgang /\ q.pc = "fmaZeilen" /\ q.weg = Ids(r.form.fma) /\ q.form = r.form
        /\ q.treu = r.treu /\ q.seite = r.seite /\ q.allein = r.allein
    BY <1>1, <1>2 DEF Vorgang
  <1> HIDE DEF q
  <1>4. ASSUME r.allein, r.treu
        PROVE  UpdateStimmt(q, tm, fma, leiter)
    <2>1. UpdateStimmt(r, tm, fma, leiter)
      BY <1>1, <1>4 DEF VorgangStimmt
    <2>2. Ids(fma) = Ids(r.form.fma)
      BY <1>1, <1>4, <2>1 DEF UpdateStimmt, Update
    <2>3. \A z \in fma : z.id \in q.weg
      BY <1>3, <2>2 DEF Ids
    <2> QED
      BY <1>1, <1>3, <1>4, <2>1, <2>3 DEF UpdateStimmt, Update
  <1>5. VorgangStimmt(q, tm, fma, leiter)
    <2>1. ListeStimmt(q, tm, fma, leiter) /\ AuswahlStimmt(q, tm)
      BY <1>3 DEF ListeStimmt, AuswahlStimmt
    <2>2. ~r.treu => UpdateStimmt(q, tm, fma, leiter)
      BY <1>3 DEF UpdateStimmt
    <2> QED
      BY <1>3, <1>4, <2>1, <2>2 DEF VorgangStimmt
  <1>6. r.pc \in Update /\ r.pc # "frei"
    BY <1>1 DEF Update
  <1> QED
    BY <1>1, <1>3, <1>5, <1>6, WeiterBild DEF r

LEMMA FmaSpeichernBild ==
    ASSUME TeamInv, NEW a \in Anfrage, FmaSpeichern(a)
    PROVE  Bild' /\ NummernOK'
  <1> DEFINE r == anfrage[a]
  <1>1. /\ r \in Vorgang /\ Passend(r) /\ VorgangStimmt(r, tm, fma, leiter)
        /\ r.pc = "fmaZeilen"
    BY VorgangBekannt, VorgangAmWerk DEF FmaSpeichern, TeamInv
  <1>2. CASE Scheitern(a)
    BY <1>2, ScheiternBild
  <1>3. ASSUME NEW i \in r.weg,
               fma' = {IF z.id # i THEN z ELSE CHOOSE y \in r.form.fma : y.id = i : z \in fma},
               Weiter(a, [r EXCEPT !.weg = @ \ {i}], TRUE),
               UNCHANGED <<tm, leiter, frisch>>
        PROVE  Bild' /\ NummernOK'
    <2> DEFINE q == [r EXCEPT !.weg = @ \ {i}]
    <2> HIDE DEF r
    <2>1. /\ q \in Vorgang /\ q.pc = "fmaZeilen" /\ q.weg = r.weg \ {i} /\ q.form = r.form
          /\ q.treu = r.treu /\ q.seite = r.seite /\ q.allein = r.allein
      BY <1>1 DEF Vorgang
    <2>2. Weiter(a, q, TRUE)
      BY <1>3
    <2> HIDE DEF q
    <2>3. i \in Ids(r.form.fma) /\ r.form.fma \subseteq Zeile /\ fma \subseteq Zeile
      BY <1>1, <1>3, FormTyp DEF Passend, TeamInv, Inv, TabellenOK
    <2>4. /\ Ids(fma') = Ids(fma)
          /\ Eindeutig(fma) => Eindeutig(fma')
          /\ \A z \in fma' : z \in r.form.fma \/ (z \in fma /\ z.id # i)
          /\ \A z \in fma' : \E y \in fma : y.id = z.id
      <3>1. Ids(fma') = Ids(fma)
        BY <1>3, <2>3, ZeileErsetzt
      <3> DEFINE c == CHOOSE y \in r.form.fma : y.id = i
      <3>2. c \in r.form.fma /\ c.id = i
        BY <2>3 DEF Ids
      <3>3. fma' = {IF z.id # i THEN z ELSE c : z \in fma}
        BY <1>3
      <3> HIDE DEF c
      <3>4. \A z \in fma' : \E y \in fma : y.id = z.id /\ z = IF y.id # i THEN y ELSE c
        BY <3>2, <3>3
      <3> QED
        BY <3>1, <3>2, <3>4 DEF Eindeutig
    <2>5. ASSUME r.allein, r.treu
          PROVE  UpdateStimmt(q, tm', fma', leiter')
      <3>1. UpdateStimmt(r, tm, fma, leiter)
        BY <1>1, <2>5 DEF VorgangStimmt
      <3> QED
        BY <1>1, <1>3, <2>1, <2>4, <2>5, <3>1 DEF UpdateStimmt, Update
    <2>6. VorgangStimmt(q, tm', fma', leiter')
      <3>1. ListeStimmt(q, tm', fma', leiter') /\ AuswahlStimmt(q, tm')
        BY <2>1 DEF ListeStimmt, AuswahlStimmt
      <3>2. ~r.treu => UpdateStimmt(q, tm', fma', leiter')
        BY <2>1 DEF UpdateStimmt
      <3> QED
        BY <2>1, <2>5, <3>1, <3>2 DEF VorgangStimmt
    <2>7. r.pc \in Update /\ r.pc # "frei"
      BY <1>1 DEF Update
    <2>8. Bild'
      BY <2>1, <2>2, <2>6, <2>7, WeiterBild DEF r
    <2>9. NummernOK'
      <3>1. Eindeutig(fma)
        BY DEF TeamInv, NummernOK
      <3>2. \A z \in tm \cup fma' \cup leiter : z.id < frisch
        BY <2>4 DEF TeamInv, NummernOK
      <3> QED
        BY <1>3, <2>4, <3>1, <3>2 DEF TeamInv, NummernOK, Eindeutig
    <2> QED
      BY <2>8, <2>9
  <1> QED
    BY <1>2, <1>3 DEF FmaSpeichern

LEMMA FmaGespeichertBild ==
    ASSUME TeamInv, NEW a \in Anfrage, FmaGespeichert(a)
    PROVE  Bild'
  <1> DEFINE r == anfrage[a]
             q == [r EXCEPT !.pc = "leiter"]
  <1>1. /\ r \in Vorgang /\ VorgangStimmt(r, tm, fma, leiter) /\ r.pc = "fmaZeilen"
        /\ r.weg = {} /\ UNCHANGED <<tm, fma, leiter>> /\ Weiter(a, q, FALSE)
    BY VorgangBekannt DEF FmaGespeichert, tabellen
  <1> HIDE DEF r
  <1>2. /\ q \in Vorgang /\ q.pc = "leiter" /\ q.form = r.form
        /\ q.treu = r.treu /\ q.seite = r.seite /\ q.allein = r.allein
    BY <1>1 DEF Vorgang
  <1> HIDE DEF q
  <1>3. r.allein => UpdateStimmt(q, tm, fma, leiter)
    BY <1>1, <1>2 DEF VorgangStimmt, UpdateStimmt, Update
  <1>4. VorgangStimmt(q, tm, fma, leiter)
    BY <1>2, <1>3 DEF VorgangStimmt, ListeStimmt, AuswahlStimmt
  <1>5. r.pc \in Update /\ r.pc # "frei"
    BY <1>1 DEF Update
  <1> QED
    BY <1>1, <1>2, <1>4, <1>5, WeiterBild DEF r

LEMMA LeiterBestimmenBild ==
    ASSUME TeamInv, NEW a \in Anfrage, LeiterBestimmen(a)
    PROVE  Bild' /\ NummernOK'
  <1> DEFINE r == anfrage[a]
             plan == Plan(r.form, leiter)
             q == [r EXCEPT !.pc = "speichern", !.plan = plan]
  <1>1. r \in Vorgang /\ VorgangStimmt(r, tm, fma, leiter) /\ r.pc = "leiter"
    BY VorgangBekannt DEF LeiterBestimmen
  <1>2. Weiter(a, q, FALSE) /\ UNCHANGED tabellen
    BY DEF LeiterBestimmen, Plan
  <1>3. plan \in {"nichts", "umsetzen", "neu"}
    BY DEF Plan
  <1>4. UNCHANGED <<tm, fma, leiter>>
    BY <1>2 DEF tabellen
  <1> HIDE DEF r, plan
  <1>5. /\ q \in Vorgang /\ q.pc = "speichern" /\ q.form = r.form /\ q.plan = plan
        /\ q.treu = r.treu /\ q.seite = r.seite /\ q.allein = r.allein
    BY <1>1, <1>3 DEF Vorgang
  <1> HIDE DEF q
  <1>6. q.plan = Plan(q.form, leiter)
    BY <1>5 DEF plan
  <1>7. r.allein => UpdateStimmt(q, tm, fma, leiter)
    BY <1>1, <1>5, <1>6 DEF VorgangStimmt, UpdateStimmt, Update
  <1>8. VorgangStimmt(q, tm, fma, leiter)
    BY <1>5, <1>7 DEF VorgangStimmt, ListeStimmt, AuswahlStimmt
  <1>9. r.pc \in Update /\ r.pc # "frei"
    BY <1>1 DEF Update
  <1>10. Bild'
    BY <1>2, <1>4, <1>5, <1>8, <1>9, WeiterBild DEF r
  <1> QED
    BY <1>2, <1>10, NummernBleiben DEF TeamInv

LEMMA LeiterNummern ==
    ASSUME TeamInv, NEW r \in Vorgang, LeiterSchreibbar(r), LeiterSchreiben(r)
    PROVE  NummernOK'
  <1>1. /\ frisch \in Nat
        /\ \A y \in tm \cup fma \cup leiter : y.id \in Nat /\ y.id < frisch
        /\ \A x \in leiter : x \in Leiter
        /\ Eindeutig(tm) /\ Eindeutig(fma) /\ Eindeutig(leiter)
    BY TeamAssumption DEF TeamInv, Inv, TabellenOK, NummernOK, Zeile, Leiter, Id
  <1>2. UNCHANGED <<tm, fma>> /\ r.plan \in {"nichts", "umsetzen", "neu"}
    BY DEF LeiterSchreiben, Vorgang
  <1>3. CASE r.plan = "nichts"
    <2>1. leiter' = leiter /\ frisch' = frisch
      BY <1>3 DEF LeiterSchreiben
    <2> QED
      BY <1>1, <1>2, <2>1 DEF NummernOK, Eindeutig
  <1>4. CASE r.plan = "umsetzen"
    <2>1. /\ leiter' = {IF l.id = r.form.plId THEN [l EXCEPT !.tm = r.form.gruppe] ELSE l
                        : l \in leiter}
          /\ frisch' = frisch
      BY <1>4 DEF LeiterSchreiben
    <2>2. \A l \in leiter : [l EXCEPT !.tm = r.form.gruppe].id = l.id
      BY <1>1 DEF Leiter
    <2>3. \A x \in leiter' : \E l \in leiter : x.id = l.id /\
              x = IF l.id = r.form.plId THEN [l EXCEPT !.tm = r.form.gruppe] ELSE l
      BY <2>1, <2>2
    <2>4. \A x, y \in leiter' : x.id = y.id => x = y
      <3>1. SUFFICES ASSUME NEW x \in leiter', NEW y \in leiter', x.id = y.id PROVE x = y
        OBVIOUS
      <3>2. PICK l \in leiter : x.id = l.id /\
                x = IF l.id = r.form.plId THEN [l EXCEPT !.tm = r.form.gruppe] ELSE l
        BY <2>3
      <3>3. PICK k \in leiter : y.id = k.id /\
                y = IF k.id = r.form.plId THEN [k EXCEPT !.tm = r.form.gruppe] ELSE k
        BY <2>3
      <3>4. l = k
        BY <1>1, <3>1, <3>2, <3>3 DEF Eindeutig
      <3> QED
        BY <3>2, <3>3, <3>4
    <2>5. \A x \in leiter' : x.id < frisch
      BY <1>1, <2>3
    <2> QED
      BY <1>1, <1>2, <2>1, <2>4, <2>5 DEF NummernOK, Eindeutig
  <1>5. CASE r.plan = "neu"
    <2> DEFINE n == [id |-> frisch, tm |-> r.form.gruppe, datiert |-> FALSE]
    <2>1. leiter' = leiter \cup {n} /\ frisch' = frisch + 1 /\ n.id = frisch
      BY <1>5 DEF LeiterSchreiben
    <2> HIDE DEF n
    <2> QED
      BY <1>1, <1>2, <2>1 DEF NummernOK, Eindeutig
  <1> QED
    BY <1>2, <1>3, <1>4, <1>5

LEMMA UpdateSpeichernBild ==
    ASSUME TeamInv, NEW a \in Anfrage, UpdateSpeichern(a)
    PROVE  Bild' /\ NummernOK'
  <1> DEFINE r == anfrage[a]
  <1>1. r \in Vorgang /\ r.pc = "speichern"
    BY VorgangBekannt DEF UpdateSpeichern
  <1>2. LeiterSchreibbar(r) /\ LeiterSchreiben(r) /\ Weiter(a, Ruhe, r.plan # "nichts")
    BY DEF UpdateSpeichern
  <1>3. NummernOK'
    BY <1>1, <1>2, LeiterNummern
  <1>4. ~(r.plan # "nichts") => UNCHANGED <<tm, fma, leiter>>
    BY <1>2 DEF LeiterSchreiben
  <1>5. r.pc \in Update /\ r.pc # "frei"
    BY <1>1 DEF Update
  <1>6. VorgangStimmt(Ruhe, tm', fma', leiter') /\ Ruhe.pc = "frei" /\ Ruhe \in Vorgang
    BY RuheStimmt, RuheFolgt
  <1>7. (r.plan # "nichts") \in BOOLEAN
    OBVIOUS
  <1>8. Bild'
    BY <1>2, <1>4, <1>5, <1>6, <1>7, WeiterBild
  <1> QED
    BY <1>3, <1>8

LEMMA UpdateAblehnenBild ==
    ASSUME TeamInv, NEW a \in Anfrage, UpdateAblehnen(a)
    PROVE  Bild' /\ NummernOK'
  <1> DEFINE r == anfrage[a]
             g == leiter' # leiter
  <1>1. r \in Vorgang /\ r.pc = "speichern"
    BY VorgangBekannt DEF UpdateAblehnen
  <1>2. CASE (LeiterSchreibbar(r) /\ LeiterSchreiben(r)) \/ UNCHANGED tabellen
    <2>1. NummernOK'
      BY <1>1, <1>2, LeiterNummern, NummernBleiben DEF TeamInv
    <2>2. tm' = tm /\ fma' = fma
      BY <1>2 DEF LeiterSchreiben, tabellen
    <2>3. anfrage' = [b \in Anfrage |->
              IF b = a \/ anfrage[b].pc = "frei" THEN Ruhe
              ELSE [anfrage[b] EXCEPT !.allein = @ /\ ~g]]
      BY DEF UpdateAblehnen
    <2>4. ~g => UNCHANGED <<tm, fma, leiter>>
      BY <2>2
    <2> HIDE DEF g
    <2>5. g \in BOOLEAN
      BY DEF g
    <2>6. ASSUME NEW b \in Anfrage
          PROVE  VorgangStimmt(anfrage'[b], tm', fma', leiter')
      <3> DEFINE q == anfrage[b]
      <3>1. q \in Vorgang /\ VorgangStimmt(q, tm, fma, leiter)
        BY VorgangBekannt
      <3>2. anfrage'[b] = IF b = a \/ q.pc = "frei" THEN Ruhe
                          ELSE [q EXCEPT !.allein = @ /\ ~g]
        BY <2>3
      <3> HIDE DEF q
      <3>3. VorgangStimmt([q EXCEPT !.allein = @ /\ ~g], tm', fma', leiter')
        <4>1. CASE g = TRUE
          BY <3>1, <4>1, AndereStimmen
        <4>2. CASE g = FALSE
          BY <2>4, <3>1, <4>2, AndereStimmen
        <4> QED
          BY <2>5, <4>1, <4>2
      <3> QED
        BY <3>2, <3>3, RuheStimmt
    <2>7. ASSUME NEW s \in Seite PROVE FormStimmt(s)'
      <3>1. FormStimmt(s) /\ seite[s] \in Browserseite
        BY DEF TeamInv, Bild, Inv, NetzOK
      <3>2. CASE s = r.seite
        <4>1. seite'[s].treu = FALSE
          BY <3>2 DEF UpdateAblehnen
        <4> QED
          BY <4>1 DEF FormStimmt
      <3>3. CASE s # r.seite
        <4>1. seite'[s] = [seite[s] EXCEPT !.treu = @ /\ ~g]
          BY <3>3 DEF UpdateAblehnen, g
        <4>2. /\ seite'[s].auf = seite[s].auf /\ seite'[s].form = seite[s].form
              /\ seite'[s].treu = (seite[s].treu /\ ~g)
          BY <3>1, <4>1 DEF Browserseite
        <4>3. ASSUME NEW b \in Anfrage
              PROVE  /\ Arbeitet(b, s)' <=> Arbeitet(b, s)
                     /\ Arbeitet(b, s) => /\ anfrage'[b].pc = anfrage[b].pc
                                          /\ anfrage[b].allein /\ ~g => anfrage'[b].allein
          <5> DEFINE q == anfrage[b]
          <5>1. q \in Vorgang
            BY VorgangBekannt
          <5>2. anfrage'[b] = IF b = a \/ q.pc = "frei" THEN Ruhe
                              ELSE [q EXCEPT !.allein = @ /\ ~g]
            BY <2>3
          <5>3. b = a => q = r
            OBVIOUS
          <5> HIDE DEF q
          <5>4. /\ [q EXCEPT !.allein = @ /\ ~g].pc = q.pc
                /\ [q EXCEPT !.allein = @ /\ ~g].seite = q.seite
                /\ [q EXCEPT !.allein = @ /\ ~g].allein = (q.allein /\ ~g)
            BY <5>1 DEF Vorgang
          <5> QED
            BY <3>3, <5>2, <5>3, <5>4, RuheStimmt DEF Arbeitet, q
        <4> QED
          BY <2>4, <3>1, <4>2, <4>3, SeiteUnbeteiligt
      <3> QED
        BY <3>2, <3>3
    <2> QED
      BY <2>1, <2>6, <2>7 DEF Bild
  <1> QED
    BY <1>2 DEF UpdateAblehnen

------------------------------------------------------------------------------
(* The pages. *)

\* The one leader of the team, if there is no other, is the one a page ticks.
LEMMA Angekreuzt ==
    ASSUME TeamInv, NEW L, L \subseteq leiter, NEW g \in OderKeiner({x.tm : x \in L}), NEW i,
           {x.id : x \in L} \subseteq {i}
    PROVE  {g} \ {Keiner} = {x.tm : x \in L}
  <1>1. \A x \in L : x.tm \in Nat
    BY TeamAssumption DEF TeamInv, Inv, TabellenOK, Leiter, Id
  <1>2. \A x, y \in L : x = y
    BY DEF TeamInv, NummernOK, Eindeutig
  <1>3. CASE L = {}
    BY <1>3 DEF OderKeiner
  <1>4. CASE L # {}
    <2>1. PICK x \in L : TRUE
      BY <1>4
    <2>2. {y.tm : y \in L} = {x.tm}
      BY <1>2, <2>1
    <2>3. g = x.tm /\ g # Keiner
      BY <1>1, <2>1, <2>2, TeamAssumption DEF OderKeiner
    <2> QED
      BY <2>2, <2>3
  <1> QED
    BY <1>3, <1>4

LEMMA EchteLeiter == TeamLeiter = Echte(leiter, tm) /\ Echte(leiter, tm) \subseteq leiter
  BY DEF TeamLeiter, Echte

LEMMA AntwortErhaltenBild ==
    ASSUME TeamInv, NEW a \in Anfrage, AntwortErhalten(a)
    PROVE  Bild' /\ NummernOK'
  <1> DEFINE r == anfrage[a]
  <1>1. /\ r \in Vorgang /\ VorgangStimmt(r, tm, fma, leiter)
        /\ r.pc \in {"antwort", "fmaAntwort"}
    BY VorgangBekannt DEF AntwortErhalten
  <1>2. UNCHANGED <<tm, fma, leiter, frisch>>
    BY DEF AntwortErhalten, tabellen
  <1>3. /\ anfrage'[a] = Ruhe
        /\ \A b \in Anfrage : b # a => anfrage'[b] = anfrage[b]
    BY DEF AntwortErhalten, TeamInv, Inv, NetzOK
  <1>4. \A b \in Anfrage : VorgangStimmt(anfrage'[b], tm', fma', leiter')
    BY <1>2, <1>3, RuheStimmt, VorgangBekannt
  <1>5. \A s \in Seite : FormStimmt(s) /\ seite[s] \in Browserseite /\ s # Keiner
    BY TeamAssumption DEF TeamInv, Bild, Inv, NetzOK
  <1>6. seite \in [Seite -> Browserseite]
    BY DEF TeamInv, Inv, NetzOK
  <1>7. ASSUME NEW s \in Seite, s # r.seite PROVE FormStimmt(s)'
    <2>1. seite'[s] = seite[s]
      BY <1>5, <1>6, <1>7 DEF AntwortErhalten
    <2>2. \A b \in Anfrage :
              /\ Arbeitet(b, s)' <=> Arbeitet(b, s)
              /\ Arbeitet(b, s) => anfrage'[b] = anfrage[b]
      BY <1>3, <1>7, RuheStimmt DEF Arbeitet
    <2> QED
      BY <1>2, <1>5, <2>1, <2>2, SeiteUnbeteiligt
  <1>8. ASSUME NEW s \in Seite, s = r.seite PROVE FormStimmt(s)'
    <2> DEFINE f == seite[s].form
    <2>1. /\ seite'[s].auf = seite[s].auf /\ seite'[s].treu = seite[s].treu
          /\ seite'[s].form.plId = f.plId /\ seite'[s].form.plTm = f.plTm
          /\ r.pc = "antwort" => /\ seite'[s].form.tm = r.liste
                                 /\ seite'[s].form.fma = f.fma
                                 /\ seite'[s].form.gruppe = r.form.gruppe
          /\ r.pc # "antwort" => /\ seite'[s].form.tm = f.tm
                                 /\ seite'[s].form.fma = r.liste
                                 /\ seite'[s].form.gruppe = f.gruppe
      <3>1. seite'[s] = IF r.pc = "antwort"
                        THEN [seite[s] EXCEPT !.form.tm = r.liste, !.form.gruppe = r.form.gruppe]
                        ELSE [seite[s] EXCEPT !.form.fma = r.liste]
        <4>1. CASE r.pc = "antwort"
          BY <1>5, <1>6, <1>8, <4>1 DEF AntwortErhalten
        <4>2. CASE r.pc # "antwort"
          BY <1>5, <1>6, <1>8, <4>2 DEF AntwortErhalten
        <4> QED
          BY <4>1, <4>2
      <3>2. seite[s] \in Browserseite /\ f \in Formular
        BY <1>5 DEF Browserseite
      <3> HIDE DEF r
      <3> QED
        BY <3>1, <3>2 DEF Browserseite, Formular
    <2>2. SUFFICES ASSUME seite[s].auf, seite[s].treu PROVE FormStimmt(s)'
      BY <2>1 DEF FormStimmt
    <2>3. r.pc # "frei"
      BY <1>1
    <2>4. /\ r.allein
          /\ \A b \in Anfrage : Arbeitet(b, s) => a = b
          /\ \A x \in leiter : x.id = f.plId => x.tm = f.plTm /\ x.tm \in Ids(tm)
          /\ r.pc \notin TeamDialog =>
                 /\ f.tm = tm
                 /\ Einziger(f, Echte(leiter, tm)) =>
                        {f.gruppe} \ {Keiner} = {x.tm : x \in Echte(leiter, tm)}
          /\ r.pc \notin FmaDialog => f.fma = fma
      BY <1>5, <1>8, <2>2, <2>3 DEF FormStimmt, Arbeitet
    <2>5. \A b \in Anfrage : ~Arbeitet(b, s)'
      BY <1>3, <2>4, RuheStimmt DEF Arbeitet
    <2>6. ListeStimmt(r, tm, fma, leiter)
      BY <1>1, <2>4 DEF VorgangStimmt
    <2>7. CASE r.pc = "antwort"
      <3>1. /\ r.liste = tm /\ f.fma = fma
            /\ r.form.gruppe \in OderKeiner({x.tm : x \in Echte(leiter, tm)})
        BY <2>4, <2>6, <2>7 DEF ListeStimmt, FmaDialog
      <3>2. {x.id : x \in Echte(leiter, tm)} \subseteq {f.plId} =>
                {r.form.gruppe} \ {Keiner} = {x.tm : x \in Echte(leiter, tm)}
        BY <3>1, EchteLeiter, Angekreuzt
      <3> QED
        BY <1>2, <2>1, <2>4, <2>5, <2>7, <3>1, <3>2 DEF FormStimmt, Einziger
    <2>8. CASE r.pc = "fmaAntwort"
      <3>1. /\ r.liste = fma /\ f.tm = tm
            /\ Einziger(f, Echte(leiter, tm)) =>
                   {f.gruppe} \ {Keiner} = {x.tm : x \in Echte(leiter, tm)}
        BY <2>4, <2>6, <2>8 DEF ListeStimmt, TeamDialog
      <3> QED
        BY <1>2, <2>1, <2>4, <2>5, <2>8, <3>1 DEF FormStimmt, Einziger
    <2> QED
      BY <1>1, <2>7, <2>8
  <1>9. NummernOK'
    BY <1>2, NummernBleiben DEF TeamInv, tabellen
  <1> QED
    BY <1>4, <1>7, <1>8, <1>9 DEF Bild

LEMMA SeiteLadenBild ==
    ASSUME TeamInv, NEW s \in Seite, SeiteLaden(s)
    PROVE  Bild' /\ NummernOK'
  <1>1. UNCHANGED <<tm, fma, leiter, frisch, anfrage>>
    BY DEF SeiteLaden, tabellen
  <1>2. \A t \in Seite : FormStimmt(t)
    BY DEF TeamInv, Bild
  <1>3. seite \in [Seite -> Browserseite]
    BY DEF TeamInv, Inv, NetzOK
  <1>4. PICK l \in (IF TeamLeiter = {} THEN {[id |-> Keiner, tm |-> Keiner]} ELSE TeamLeiter) :
           seite' = [seite EXCEPT ![s] =
                        [auf |-> TRUE,
                         form |-> [tm |-> tm, fma |-> fma, gruppe |-> l.tm,
                                   plId |-> l.id, plTm |-> l.tm],
                         waehlbar |-> Person,
                         treu |-> \A a \in Anfrage : anfrage[a].pc = "frei"]]
    BY DEF SeiteLaden
  <1>5. ASSUME NEW t \in Seite, t # s PROVE FormStimmt(t)'
    <2>1. seite'[t] = seite[t]
      BY <1>3, <1>4, <1>5
    <2> QED
      BY <1>1, <1>2, <2>1, SeiteUnbeteiligt DEF Arbeitet
  <1>6. FormStimmt(s)'
    <2>1. /\ seite'[s].form.tm = tm /\ seite'[s].form.fma = fma
          /\ seite'[s].form.gruppe = l.tm /\ seite'[s].form.plId = l.id
          /\ seite'[s].form.plTm = l.tm
      BY <1>3, <1>4
    <2>2. \A a \in Anfrage : ~Arbeitet(a, s)'
      BY <1>1 DEF SeiteLaden, Unterwegs, Arbeitet
    <2>3. \A x \in leiter : x.id = l.id => x.tm = l.tm /\ x.tm \in Ids(tm)
      <3>1. \A x \in leiter : x.id # Keiner
        BY TeamAssumption DEF TeamInv, Inv, TabellenOK, Leiter, Id
      <3> QED
        BY <1>4, <3>1 DEF TeamInv, NummernOK, Eindeutig, TeamLeiter
    <2>4. l.tm \in OderKeiner({x.tm : x \in Echte(leiter, tm)})
      BY <1>4, EchteLeiter DEF OderKeiner
    <2>5. {x.id : x \in Echte(leiter, tm)} \subseteq {l.id} =>
              {l.tm} \ {Keiner} = {x.tm : x \in Echte(leiter, tm)}
      BY <2>4, EchteLeiter, Angekreuzt
    <2> QED
      BY <1>1, <2>1, <2>2, <2>3, <2>5 DEF FormStimmt, Einziger
  <1>7. Bild'
    BY <1>1, <1>5, <1>6 DEF TeamInv, Bild
  <1> QED
    BY <1>1, <1>7, NummernBleiben DEF TeamInv, tabellen

\* A request that a page sends, and what it is to the others.
LEMMA AbschickenBild ==
    ASSUME TeamInv, NEW s \in Seite, NEW r \in Vorgang, NEW v \in BOOLEAN, Abschicken(s, r, v),
           \A t \in Seite : t # s => seite'[t] = seite[t]
    PROVE  \E a \in Anfrage :
               /\ anfrage[a].pc = "frei"
               /\ anfrage'[a] = [r EXCEPT !.seite = s, !.vorher = tm,
                                          !.treu = seite[s].treu /\ ~Unterwegs(s)]
               /\ \A b \in Anfrage : b # a =>
                      /\ VorgangStimmt(anfrage'[b], tm, fma, leiter)
                      /\ ~v => anfrage'[b] = anfrage[b]
               /\ \A t \in Seite : t # s => FormStimmt(t)'
  <1> DEFINE n == [r EXCEPT !.seite = s, !.vorher = tm, !.treu = seite[s].treu /\ ~Unterwegs(s)]
  <1>1. PICK a \in Anfrage :
           /\ anfrage[a].pc = "frei"
           /\ anfrage' = [b \in Anfrage |->
                 IF b = a THEN n
                 ELSE IF v /\ anfrage[b].seite = s
                 THEN [anfrage[b] EXCEPT !.seite = Keiner]
                 ELSE anfrage[b]]
    BY DEF Abschicken
  <1>2. UNCHANGED <<tm, fma, leiter>>
    BY DEF Abschicken, tabellen
  <1>3. n.seite = s
    BY DEF Vorgang
  <1> HIDE DEF n
  <1>4. anfrage'[a] = n
    BY <1>1
  <1>5. ASSUME NEW b \in Anfrage, b # a
        PROVE  /\ VorgangStimmt(anfrage'[b], tm, fma, leiter)
               /\ ~v => anfrage'[b] = anfrage[b]
               /\ anfrage'[b].pc = anfrage[b].pc /\ anfrage'[b].allein = anfrage[b].allein
               /\ \A t \in Seite : t # s => (anfrage'[b].seite = t <=> anfrage[b].seite = t)
    <2> DEFINE q == anfrage[b]
    <2>1. q \in Vorgang /\ VorgangStimmt(q, tm, fma, leiter)
      BY VorgangBekannt
    <2>2. anfrage'[b] = IF v /\ q.seite = s THEN [q EXCEPT !.seite = Keiner] ELSE q
      BY <1>1, <1>5
    <2> HIDE DEF q
    <2>3. VorgangStimmt([q EXCEPT !.seite = Keiner], tm, fma, leiter)
      BY <2>1, AndereStimmen
    <2>4. /\ [q EXCEPT !.seite = Keiner].pc = q.pc
          /\ [q EXCEPT !.seite = Keiner].allein = q.allein
          /\ [q EXCEPT !.seite = Keiner].seite = Keiner
      BY <2>1 DEF Vorgang
    <2> QED
      BY <2>1, <2>2, <2>3, <2>4, TeamAssumption DEF q
  <1>6. ASSUME NEW t \in Seite, t # s PROVE FormStimmt(t)'
    <2>1. FormStimmt(t) /\ seite'[t] = seite[t]
      BY <1>6 DEF TeamInv, Bild
    <2>2. \A b \in Anfrage :
              /\ Arbeitet(b, t)' <=> Arbeitet(b, t)
              /\ Arbeitet(b, t) => /\ anfrage'[b].pc = anfrage[b].pc
                                   /\ anfrage[b].allein => anfrage'[b].allein
      BY <1>1, <1>3, <1>4, <1>5, <1>6 DEF Arbeitet
    <2> QED
      BY <1>2, <2>1, <2>2, SeiteUnbeteiligt
  <1> QED
    BY <1>1, <1>4, <1>5, <1>6 DEF n

\* A dialog is confirmed: on a page that is up to date its request is the only
\* one under way.
LEMMA DialogBild ==
    ASSUME TeamInv, NEW s \in Seite, NEW r \in Vorgang, Abschicken(s, r, FALSE),
           seite' = [seite EXCEPT ![s].treu = @ /\ ~Unterwegs(s)],
           r.pc \in {"suchen", "fma"}, r.allein,
           \A x \in BOOLEAN :
              VorgangStimmt([r EXCEPT !.seite = s, !.vorher = tm, !.treu = x], tm, fma, leiter)
    PROVE  Bild' /\ NummernOK'
  <1> DEFINE n == [r EXCEPT !.seite = s, !.vorher = tm, !.treu = seite[s].treu /\ ~Unterwegs(s)]
  <1>1. seite \in [Seite -> Browserseite] /\ UNCHANGED tabellen
    BY DEF TeamInv, Inv, NetzOK, Abschicken
  <1>2. \A t \in Seite : t # s => seite'[t] = seite[t]
    BY <1>1
  <1> HIDE DEF n
  <1>3. PICK a \in Anfrage :
           /\ anfrage[a].pc = "frei"
           /\ anfrage'[a] = n
           /\ \A b \in Anfrage : b # a =>
                  /\ VorgangStimmt(anfrage'[b], tm, fma, leiter)
                  /\ ~FALSE => anfrage'[b] = anfrage[b]
           /\ \A t \in Seite : t # s => FormStimmt(t)'
    <2>1. FALSE \in BOOLEAN
      OBVIOUS
    <2> QED
      BY <1>2, <2>1, AbschickenBild, Zenon DEF n
  <1>4. (seite[s].treu /\ ~Unterwegs(s)) \in BOOLEAN
    OBVIOUS
  <1>5. VorgangStimmt(n, tm, fma, leiter) /\ n.pc = r.pc /\ n.allein
    BY <1>4 DEF Vorgang, n
  <1>6. \A b \in Anfrage : VorgangStimmt(anfrage'[b], tm', fma', leiter')
    BY <1>1, <1>3, <1>5 DEF tabellen
  <1>7. /\ seite'[s].auf = seite[s].auf /\ seite'[s].form = seite[s].form
        /\ seite'[s].treu = (seite[s].treu /\ ~Unterwegs(s))
    BY <1>1 DEF Browserseite
  <1>8. FormStimmt(s)'
    <2>1. SUFFICES ASSUME seite[s].auf, seite[s].treu, ~Unterwegs(s) PROVE FormStimmt(s)'
      BY <1>7 DEF FormStimmt
    <2>2. \A b \in Anfrage : ~Arbeitet(b, s)
      BY <2>1 DEF Unterwegs, Arbeitet
    <2>3. \A b \in Anfrage : Arbeitet(b, s)' => b = a
      BY <1>3, <2>2 DEF Arbeitet
    <2>4. FormStimmt(s)
      BY DEF TeamInv, Bild
    <2>5. /\ anfrage'[a].allein
          /\ anfrage'[a].pc \in TeamDialog \cup FmaDialog
      BY <1>3, <1>5 DEF TeamDialog, FmaDialog
    <2> QED
      BY <1>1, <1>7, <2>1, <2>2, <2>3, <2>4, <2>5 DEF FormStimmt, tabellen
  <1>9. NummernOK'
    BY <1>1, NummernBleiben DEF TeamInv
  <1> QED
    BY <1>3, <1>6, <1>8, <1>9 DEF Bild

LEMMA TeamFertigBild ==
    ASSUME TeamInv, NEW s \in Seite, NEW p \in SUBSET Person, TeamFertig(s, p)
    PROVE  Bild' /\ NummernOK'
  <1> DEFINE u == UNION {Ziffern[q] : q \in p}
             e == IF Cardinality(p) = 1 THEN u ELSE p
             r == [Ruhe EXCEPT !.pc = "suchen", !.auswahl = p, !.rest = e]
  <1>1. e \in SUBSET (Person \cup {Keiner})
    BY TeamAssumption
  <1>2. /\ Abschicken(s, r, FALSE)
        /\ seite' = [seite EXCEPT ![s].treu = @ /\ ~Unterwegs(s)]
    BY DEF TeamFertig
  <1> HIDE DEF e
  <1>3. /\ r \in Vorgang /\ r.pc = "suchen" /\ r.allein
        /\ r.auswahl = p /\ r.rest = e /\ r.liste = {}
    BY <1>1, RuheFolgt DEF Vorgang, Ruhe
  <1> HIDE DEF r
  <1>4. ASSUME NEW x \in BOOLEAN
        PROVE  VorgangStimmt([r EXCEPT !.seite = s, !.vorher = tm, !.treu = x], tm, fma, leiter)
    <2> DEFINE n == [r EXCEPT !.seite = s, !.vorher = tm, !.treu = x]
    <2>1. n.pc = "suchen" /\ n.auswahl = p /\ n.rest = e /\ n.liste = {} /\ n.vorher = tm
      BY <1>3 DEF Vorgang
    <2> HIDE DEF n
    <2>2. Angekommen(n) => e = p
      BY <2>1, Zenon DEF Angekommen, e
    <2>3. Personen({}) = {} /\ JedeEinmal({})
      BY DEF Personen, JedeEinmal
    <2>4. AuswahlStimmt(n, tm)
      BY <2>1, <2>2, <2>3 DEF AuswahlStimmt
    <2>5. ListeStimmt(n, tm, fma, leiter) /\ UpdateStimmt(n, tm, fma, leiter)
      BY <2>1 DEF ListeStimmt, UpdateStimmt, Update
    <2>6. VorgangStimmt(n, tm, fma, leiter)
      BY <2>1, <2>4, <2>5 DEF VorgangStimmt
    <2> QED
      BY <2>6 DEF n
  <1> QED
    BY <1>2, <1>3, <1>4, DialogBild

LEMMA FmaFertigBild ==
    ASSUME TeamInv, NEW s \in Seite, NEW p \in SUBSET Person, FmaFertig(s, p)
    PROVE  Bild' /\ NummernOK'
  <1> DEFINE r == [Ruhe EXCEPT !.pc = "fma", !.auswahl = p]
  <1>1. /\ Abschicken(s, r, FALSE)
        /\ seite' = [seite EXCEPT ![s].treu = @ /\ ~Unterwegs(s)]
    BY DEF FmaFertig
  <1>2. r \in Vorgang /\ r.pc = "fma" /\ r.allein
    BY RuheFolgt DEF Vorgang, Ruhe
  <1> HIDE DEF r
  <1>3. ASSUME NEW x \in BOOLEAN
        PROVE  VorgangStimmt([r EXCEPT !.seite = s, !.vorher = tm, !.treu = x], tm, fma, leiter)
    <2> DEFINE n == [r EXCEPT !.seite = s, !.vorher = tm, !.treu = x]
    <2>1. n.pc = "fma"
      BY <1>2 DEF Vorgang
    <2> HIDE DEF n
    <2>2. VorgangStimmt(n, tm, fma, leiter)
      BY <2>1 DEF VorgangStimmt, ListeStimmt, AuswahlStimmt, UpdateStimmt, Update
    <2> QED
      BY <2>2 DEF n
  <1> QED
    BY <1>1, <1>2, <1>3, DialogBild

\* New dates leave the ids alone.
LEMMA NeueDaten ==
    ASSUME NEW alt, alt \subseteq Zeile, NEW d \in Datum, Eindeutig(alt), NEW neu,
           neu = {[z EXCEPT !.daten = d] : z \in alt}
    PROVE  Ids(neu) = Ids(alt) /\ Eindeutig(neu)
  <1>1. \A z \in alt : [z EXCEPT !.daten = d].id = z.id
    BY DEF Zeile
  <1>2. Ids(neu) = Ids(alt)
    BY <1>1 DEF Ids
  <1>3. ASSUME NEW x \in neu, NEW y \in neu, x.id = y.id PROVE x = y
    <2>1. PICK p \in alt : x = [p EXCEPT !.daten = d]
      OBVIOUS
    <2>2. PICK q \in alt : y = [q EXCEPT !.daten = d]
      OBVIOUS
    <2>3. p.id = q.id
      BY <1>1, <1>3, <2>1, <2>2
    <2>4. p = q
      BY <2>3 DEF Eindeutig
    <2> QED
      BY <2>1, <2>2, <2>4
  <1> QED
    BY <1>2, <1>3 DEF Eindeutig

LEMMA AbsendenBild ==
    ASSUME TeamInv, NEW s \in Seite, NEW d \in Datum, NEW g \in Id \cup {Keiner},
           NEW ok \in BOOLEAN, Absenden(s, d, g, ok)
    PROVE  Bild' /\ NummernOK'
  <1> DEFINE f == seite[s].form
             t2 == {[z EXCEPT !.daten = d] : z \in f.tm}
             f2 == {[z EXCEPT !.daten = d] : z \in f.fma}
             neu == [f EXCEPT !.gruppe = g, !.tm = t2, !.fma = f2]
             r == [Ruhe EXCEPT !.pc = "zeilen", !.gueltig = ok, !.form = neu, !.weg = Ids(f.tm)]
             w == seite[s].treu /\ ~Unterwegs(s)
             n == [r EXCEPT !.seite = s, !.vorher = tm, !.treu = w]
  <1>1. /\ Abschicken(s, r, TRUE)
        /\ seite' = [seite EXCEPT ![s] = GeschlosseneSeite]
        /\ seite[s].auf /\ g \in Ids(f.tm) \cup {f.gruppe}
    BY DEF Absenden
  <1>2. UNCHANGED <<tm, fma, leiter, frisch>> /\ seite \in [Seite -> Browserseite]
    BY <1>1 DEF Abschicken, tabellen, TeamInv, Inv, NetzOK
  <1>3. f \in Formular /\ f.tm \subseteq Zeile /\ f.fma \subseteq Zeile
    BY <1>2 DEF Browserseite, Formular
  <1>4. tm \subseteq Zeile /\ fma \subseteq Zeile
        /\ Eindeutig(tm) /\ Eindeutig(fma)
    BY DEF TeamInv, Inv, TabellenOK, NummernOK
  <1>5. FormStimmt(s)
    BY DEF TeamInv, Bild
  <1>6. t2 \in SUBSET Zeile /\ f2 \in SUBSET Zeile
    <2>1. \A z \in Zeile : [z EXCEPT !.daten = d] \in Zeile
      BY DEF Zeile
    <2> QED
      BY <1>3, <2>1
  <1>7. seite[s].treu /\ ~Unterwegs(s) =>
            /\ f.tm = tm /\ f.fma = fma
            /\ \A x \in leiter : x.id = f.plId => x.tm = f.plTm /\ x.tm \in Ids(tm)
            /\ Einziger(f, Echte(leiter, tm)) =>
                   {f.gruppe} \ {Keiner} = {x.tm : x \in Echte(leiter, tm)}
    BY <1>1, <1>5 DEF FormStimmt, Unterwegs, Arbeitet
  <1>8. (seite[s].treu /\ ~Unterwegs(s)) =>
            /\ Eindeutig(t2) /\ Eindeutig(f2) /\ Ids(t2) = Ids(f.tm) /\ Ids(f2) = Ids(f.fma)
    <2>1. SUFFICES ASSUME seite[s].treu, ~Unterwegs(s)
                   PROVE  /\ Eindeutig(t2) /\ Eindeutig(f2)
                          /\ Ids(t2) = Ids(f.tm) /\ Ids(f2) = Ids(f.fma)
      OBVIOUS
    <2>2. Eindeutig(f.tm) /\ Eindeutig(f.fma)
      BY <1>4, <1>7, <2>1
    <2>3. /\ t2 = {[z EXCEPT !.daten = d] : z \in f.tm}
          /\ f2 = {[z EXCEPT !.daten = d] : z \in f.fma}
      OBVIOUS
    <2> HIDE DEF f, t2, f2
    <2>4. Ids(t2) = Ids(f.tm) /\ Eindeutig(t2)
      BY <1>3, <2>2, <2>3, NeueDaten
    <2>5. Ids(f2) = Ids(f.fma) /\ Eindeutig(f2)
      BY <1>3, <2>2, <2>3, NeueDaten
    <2> QED
      BY <2>4, <2>5
  <1> HIDE DEF t2, f2
  <1>9. neu \in Formular /\ neu.tm = t2 /\ neu.fma = f2 /\ neu.gruppe = g
        /\ neu.plId = f.plId /\ neu.plTm = f.plTm
    <2> HIDE DEF f
    <2> QED
      BY <1>3, <1>6 DEF Formular
  <1> HIDE DEF neu
  <1>10. Ids(f.tm) \subseteq Id
    BY <1>3, IdsTyp
  <1>11. /\ r \in Vorgang /\ r.pc = "zeilen" /\ r.weg = Ids(f.tm) /\ r.form = neu
    BY <1>9, <1>10, RuheFolgt DEF Vorgang
  <1> HIDE DEF r
  <1>12. /\ n.pc = "zeilen" /\ n.weg = Ids(f.tm) /\ n.form = neu
         /\ n.treu => seite[s].treu /\ ~Unterwegs(s)
    <2>1. n.treu = w
      <3> HIDE DEF w, f
      <3> QED
        BY <1>11 DEF Vorgang
    <2> QED
      BY <1>11, <2>1 DEF Vorgang
  <1>13. \A t \in Seite : t # s => seite'[t] = seite[t]
    BY <1>1, <1>2
  <1>14. PICK a \in Anfrage :
           /\ anfrage[a].pc = "frei"
           /\ anfrage'[a] = n
           /\ \A b \in Anfrage : b # a =>
                  /\ VorgangStimmt(anfrage'[b], tm, fma, leiter)
                  /\ ~TRUE => anfrage'[b] = anfrage[b]
           /\ \A t \in Seite : t # s => FormStimmt(t)'
    <2>1. TRUE \in BOOLEAN
      OBVIOUS
    <2> HIDE DEF n
    <2> QED
      BY <1>1, <1>11, <1>13, <2>1, AbschickenBild, Zenon DEF n
  <1> HIDE DEF n
  <1>15. UpdateStimmt(n, tm, fma, leiter)
    <2>1. SUFFICES ASSUME n.treu PROVE UpdateStimmt(n, tm, fma, leiter)
      BY DEF UpdateStimmt
    <2>2. seite[s].treu /\ ~Unterwegs(s)
      BY <1>12, <2>1
    <2>3. /\ Eindeutig(n.form.tm) /\ Eindeutig(n.form.fma)
          /\ Ids(tm) = Ids(n.form.tm) /\ Ids(fma) = Ids(n.form.fma)
      BY <1>7, <1>8, <1>9, <1>12, <2>2
    <2>4. \A z \in tm : z.id \in n.weg
      BY <1>7, <1>12, <2>2 DEF Ids
    <2>5. \A x \in leiter : x.id = n.form.plId => x.tm = n.form.plTm /\ x.tm \in Ids(tm)
      BY <1>7, <1>9, <1>12, <2>2
    <2> DEFINE E == Echte(leiter, tm)
    <2>6. Einziger(n.form, E) =>
              n.form.gruppe \in Ids(tm) \/ (n.form.gruppe = Keiner /\ E = {})
      <3>1. SUFFICES ASSUME Einziger(n.form, E)
                     PROVE  g \in Ids(tm) \/ (g = Keiner /\ E = {})
        BY <1>9, <1>12
      <3>2. {f.gruppe} \ {Keiner} = {x.tm : x \in E}
        BY <1>7, <1>9, <1>12, <2>2, <3>1 DEF Einziger
      <3>3. g \in Ids(tm) \/ g = f.gruppe
        BY <1>1, <1>7, <2>2
      <3>4. f.gruppe = Keiner \/ f.gruppe \in Ids(tm)
        BY <3>2 DEF Echte
      <3>5. f.gruppe = Keiner => E = {}
        BY <3>2
      <3> QED
        BY <3>3, <3>4, <3>5
    <2> QED
      BY <1>12, <2>3, <2>4, <2>5, <2>6 DEF UpdateStimmt
  <1>16. VorgangStimmt(n, tm, fma, leiter)
    BY <1>12, <1>15 DEF VorgangStimmt, ListeStimmt, AuswahlStimmt
  <1>17. \A b \in Anfrage : VorgangStimmt(anfrage'[b], tm', fma', leiter')
    BY <1>2, <1>14, <1>16
  <1>18. FormStimmt(s)'
    <2>1. seite'[s].auf = FALSE
      BY <1>1, <1>2 DEF GeschlosseneSeite
    <2> QED
      BY <2>1 DEF FormStimmt
  <1>19. NummernOK'
    BY <1>2, NummernBleiben DEF TeamInv, tabellen
  <1> QED
    BY <1>14, <1>17, <1>18, <1>19 DEF Bild

------------------------------------------------------------------------------
LEMMA TeamInit == Init => TeamInv
  <1> SUFFICES ASSUME Init PROVE TeamInv
    OBVIOUS
  <1>1. PICK team \in SUBSET Person :
           /\ \E nr \in [team -> 1 .. Cardinality(team)] :
                  /\ \A p, q \in team : nr[p] = nr[q] => p = q
                  /\ tm = {[id |-> nr[p], person |-> p, daten |-> Leer] : p \in team}
           /\ frisch = Cardinality(team) + 1
    BY DEF Init
  <1>2. Cardinality(team) \in Nat
    <2>1. IsFiniteSet(team)
      BY FS_Subset, TeamAssumption
    <2> QED
      BY <2>1, FS_CardinalityType
  <1>3. PICK nr \in [team -> 1 .. Cardinality(team)] :
           /\ \A p, q \in team : nr[p] = nr[q] => p = q
           /\ tm = {[id |-> nr[p], person |-> p, daten |-> Leer] : p \in team}
    BY <1>1
  <1>4. Eindeutig(tm) /\ \A z \in tm : z.id < frisch
    BY <1>1, <1>2, <1>3 DEF Eindeutig
  <1>5. Eindeutig(leiter) /\ \A l \in leiter : l.id < frisch
    <2>1. \A l \in leiter : l.id = 0
      BY DEF Init
    <2>2. \A l, k \in leiter : l = k
      BY DEF Init
    <2> QED
      BY <1>1, <1>2, <2>1, <2>2 DEF Eindeutig
  <1>6. NummernOK
    BY <1>4, <1>5 DEF Init, NummernOK, Eindeutig
  <1>7. \A a \in Anfrage : VorgangStimmt(anfrage[a], tm, fma, leiter)
    BY RuheStimmt DEF Init
  <1>8. \A s \in Seite : FormStimmt(s)
    BY DEF Init, FormStimmt, GeschlosseneSeite
  <1> QED
    BY <1>6, <1>7, <1>8, InitInv DEF TeamInv, Bild

LEMMA TeamErhalten == TeamInv /\ [Next]_vars => TeamInv'
  <1> SUFFICES ASSUME TeamInv, [Next]_vars PROVE TeamInv'
    OBVIOUS
  <1>1. Inv'
    BY InvErhalten DEF TeamInv
  <1>2. ASSUME NEW s \in Seite, Benutzer(s) PROVE Bild' /\ NummernOK'
    BY <1>2, SeiteLadenBild, TeamFertigBild, FmaFertigBild, AbsendenBild DEF Benutzer
  <1>3. ASSUME NEW a \in Anfrage, Server(a) PROVE Bild' /\ NummernOK'
    <2>1. CASE MitgliedSuchen(a) \/ TeamVergleichen(a)
               \/ ZeilenGespeichert(a) \/ FmaGespeichert(a)
      <3>1. UNCHANGED tabellen
        BY <2>1 DEF MitgliedSuchen, TeamVergleichen, ZeilenGespeichert, FmaGespeichert
      <3>2. Bild'
        BY <2>1, MitgliedSuchenBild, TeamVergleichenBild, ZeilenGespeichertBild,
           FmaGespeichertBild
      <3> QED
        BY <3>1, <3>2, NummernBleiben DEF TeamInv
    <2>2. CASE MitgliedAnlegen(a) \/ MitgliedLoeschen(a) \/ TeamAntworten(a)
      BY <2>2, MitgliedAnlegenBild, MitgliedLoeschenBild, TeamAntwortenBild
    <2>3. CASE MitgliedUnbekannt(a)
      BY <2>3, ScheiternBild DEF MitgliedUnbekannt
    <2>4. CASE FmaSuchen(a) \/ FmaAnlegen(a) \/ FmaAntworten(a)
      BY <2>4, FmaSuchenBild, FmaAnlegenBild, FmaAntwortenBild
    <2>5. CASE ZeileSpeichern(a) \/ FmaSpeichern(a)
      BY <2>5, ZeileSpeichernBild, FmaSpeichernBild
    <2>6. CASE LeiterBestimmen(a) \/ UpdateSpeichern(a) \/ UpdateAblehnen(a)
      BY <2>6, LeiterBestimmenBild, UpdateSpeichernBild, UpdateAblehnenBild
    <2>7. CASE UpdateScheitern(a)
      BY <2>7, ScheiternBild DEF UpdateScheitern
    <2> QED
      BY <1>3, <2>1, <2>2, <2>3, <2>4, <2>5, <2>6, <2>7 DEF Server
  <1>4. ASSUME NEW a \in Anfrage, AntwortErhalten(a) PROVE Bild' /\ NummernOK'
    BY <1>4, AntwortErhaltenBild
  <1>5. CASE UNCHANGED vars
    <2>1. UNCHANGED <<tm, fma, leiter, frisch, seite, anfrage>>
      BY <1>5 DEF vars
    <2>2. NummernOK'
      BY <2>1, NummernBleiben DEF TeamInv, tabellen
    <2>3. \A s \in Seite : FormStimmt(s)'
      BY <2>1, SeiteUnbeteiligt DEF TeamInv, Bild, Arbeitet
    <2>4. \A a \in Anfrage : VorgangStimmt(anfrage'[a], tm', fma', leiter')
      BY <2>1 DEF TeamInv, Bild
    <2> QED
      BY <2>2, <2>3, <2>4, <1>1 DEF TeamInv, Bild
  <1> QED
    BY <1>1, <1>2, <1>3, <1>4, <1>5 DEF Next, TeamInv

\* A page nothing passed by shows, once its answers are in, the team and the
\* free-lance members of the database, and ticks the leader (the only one):
\* what edit and the callbacks of the dialogs draw (ProjekteController lines
\* 289-372, projekte.js 18-81 and 118-168), wherever requests overlap or fail.
THEOREM SeiteZeigtWasDaIst == Spec => []SeiteZeigtTeam
  <1>1. TeamInv => SeiteZeigtTeam
    <2> SUFFICES ASSUME TeamInv, NEW s \in Seite,
                        seite[s].auf, seite[s].treu, ~Unterwegs(s)
                 PROVE  /\ seite[s].form.tm = tm
                        /\ seite[s].form.fma = fma
                        /\ EinzigerLeiter(seite[s].form) =>
                               {seite[s].form.gruppe} \ {Keiner} = {l.tm : l \in TeamLeiter}
      BY DEF SeiteZeigtTeam
    <2>1. \A a \in Anfrage : ~Arbeitet(a, s)
      BY DEF Unterwegs, Arbeitet
    <2>2. FormStimmt(s)
      BY DEF TeamInv, Bild
    <2> QED
      BY <2>1, <2>2, EchteLeiter DEF FormStimmt, EinzigerLeiter, Einziger
  <1> QED
    BY <1>1, TeamInit, TeamErhalten, PTL DEF Spec

\* editTeammitglieder with which no other request interfered, and whose
\* selection arrived as sent, leaves one row for everyone chosen and no other,
\* and whoever stays keeps the row she had (ProjekteController lines 384-424).
THEOREM FertigErreicht == Spec => NachFertig
  <1> DEFINE Fertig ==
        \A a \in Anfrage :
          LET r == anfrage[a]
              angekommen == Cardinality(r.auswahl) = 1 =>
                                UNION {Ziffern[p] : p \in r.auswahl} = r.auswahl
          IN  (/\ r.pc = "loeschen" /\ r.weg = {} /\ r.allein /\ angekommen
               /\ anfrage'[a].pc # "loeschen")
              => /\ Personen(tm) = r.auswahl
                 /\ Cardinality(tm) = Cardinality(r.auswahl)
                 /\ \A z \in r.vorher : z.person \in r.auswahl =>
                        \E y \in r.vorher : y \in tm /\ y.person = z.person
  <1>1. ASSUME TeamInv, NEW a \in Anfrage,
               anfrage[a].pc = "loeschen", anfrage[a].weg = {}, anfrage[a].allein,
               Angekommen(anfrage[a])
        PROVE  /\ Personen(tm) = anfrage[a].auswahl
               /\ Cardinality(tm) = Cardinality(anfrage[a].auswahl)
               /\ \A z \in anfrage[a].vorher : z.person \in anfrage[a].auswahl =>
                      \E y \in anfrage[a].vorher : y \in tm /\ y.person = z.person
    <2> DEFINE r == anfrage[a]
    <2>1. r \in Vorgang /\ VorgangStimmt(r, tm, fma, leiter)
      BY <1>1, VorgangBekannt
    <2>2. r.pc = "loeschen" /\ r.weg = {} /\ r.allein /\ Angekommen(r)
      BY <1>1
    <2> HIDE DEF r
    <2>3. r.liste = tm
      BY <2>1, <2>2 DEF VorgangStimmt, ListeStimmt
    <2>4. /\ Personen(tm) = r.auswahl
          /\ JedeEinmal(tm)
          /\ \A z \in tm : z.person \in Personen(r.vorher) => z \in r.vorher
      BY <2>1, <2>2, <2>3 DEF VorgangStimmt, AuswahlStimmt
    <2>5. Cardinality(tm) = Cardinality(r.auswahl)
      <3> DEFINE f == [z \in tm |-> z.person]
      <3>1. IsFiniteSet(r.auswahl)
        BY <2>1, FS_Subset, TeamAssumption DEF Vorgang
      <3>2. f \in [tm -> r.auswahl]
        BY <2>4 DEF Personen
      <3>3. IsInjective(f)
        BY <2>4 DEF IsInjective, JedeEinmal
      <3>4. \A p \in r.auswahl : \E z \in tm : f[z] = p
        BY <2>4 DEF Personen
      <3> HIDE DEF f
      <3>5. f \in Injection(tm, r.auswahl) /\ f \in Surjection(tm, r.auswahl)
        BY <3>2, <3>3, <3>4 DEF Injection, Surjection
      <3> QED
        BY <3>1, <3>5, FS_Injection
    <2>6. ASSUME NEW z \in r.vorher, z.person \in r.auswahl
          PROVE  \E y \in r.vorher : y \in tm /\ y.person = z.person
      <3>1. PICK y \in tm : y.person = z.person
        BY <2>4, <2>6 DEF Personen
      <3>2. y.person \in Personen(r.vorher)
        BY <3>1 DEF Personen
      <3> QED
        BY <2>4, <3>1, <3>2
    <2> QED
      BY <2>4, <2>5, <2>6 DEF r
  <1>2. TeamInv => Fertig
    BY <1>1, Zenon DEF Angekommen
  <1>3. TeamInv => [Fertig]_vars
    BY <1>2
  <1> HIDE DEF Fertig
  <1>4. Spec => [][Fertig]_vars
    BY <1>3, TeamInit, TeamErhalten, PTL DEF Spec
  <1> QED
    BY <1>4 DEF NachFertig, Fertig

\* A request stays where it is while another goes on.
LEMMA WeiterAndere ==
    ASSUME TeamInv, NEW a \in Anfrage, NEW b \in Anfrage, a # b, NEW r, NEW g,
           Weiter(b, r, g)
    PROVE  anfrage'[a].pc = anfrage[a].pc
  <1> DEFINE q == anfrage[a]
  <1>1. q \in Vorgang
    BY VorgangBekannt
  <1>2. anfrage'[a] = IF q.pc = "frei" THEN Ruhe ELSE [q EXCEPT !.allein = @ /\ ~g]
    BY DEF Weiter
  <1> HIDE DEF q
  <1>3. [q EXCEPT !.allein = @ /\ ~g].pc = q.pc
    BY <1>1 DEF Vorgang
  <1> QED
    BY <1>2, <1>3, RuheStimmt DEF q

LEMMA AndereBleiben ==
    ASSUME TeamInv, NEW a \in Anfrage, NEW b \in Anfrage, a # b,
           Server(b) \/ AntwortErhalten(b)
    PROVE  anfrage'[a].pc = anfrage[a].pc
  <1> DEFINE Ziel == anfrage'[a].pc = anfrage[a].pc
  <1>1. Scheitern(b) => Ziel
    BY DEF Scheitern, TeamInv, Inv, NetzOK
  <1>2. \A r, g : Weiter(b, r, g) => Ziel
    BY WeiterAndere
  <1> HIDE DEF Ziel
  <1>3. CASE MitgliedSuchen(b) \/ MitgliedAnlegen(b) \/ MitgliedUnbekannt(b)
    BY <1>1, <1>2, <1>3 DEF MitgliedSuchen, MitgliedAnlegen, MitgliedUnbekannt, Ziel
  <1>4. CASE TeamVergleichen(b) \/ MitgliedLoeschen(b) \/ TeamAntworten(b)
    BY <1>1, <1>2, <1>4 DEF TeamVergleichen, MitgliedLoeschen, TeamAntworten, Ziel
  <1>5. CASE FmaSuchen(b) \/ FmaAnlegen(b) \/ FmaAntworten(b)
    BY <1>1, <1>2, <1>5 DEF FmaSuchen, FmaAnlegen, FmaAntworten, Ziel
  <1>6. CASE ZeileSpeichern(b) \/ ZeilenGespeichert(b) \/ FmaSpeichern(b) \/ FmaGespeichert(b)
    BY <1>1, <1>2, <1>6 DEF ZeileSpeichern, ZeilenGespeichert, FmaSpeichern,
       FmaGespeichert, Ziel
  <1>7. CASE LeiterBestimmen(b) \/ UpdateSpeichern(b) \/ UpdateScheitern(b)
    BY <1>1, <1>2, <1>7 DEF LeiterBestimmen, UpdateSpeichern, UpdateScheitern, Ziel
  <1>8. CASE UpdateAblehnen(b)
    <2> DEFINE q == anfrage[a]
               g == leiter' # leiter
    <2>1. q \in Vorgang
      BY VorgangBekannt
    <2>2. anfrage'[a] = IF q.pc = "frei" THEN Ruhe ELSE [q EXCEPT !.allein = @ /\ ~g]
      BY <1>8 DEF UpdateAblehnen
    <2> HIDE DEF q, g
    <2>3. [q EXCEPT !.allein = @ /\ ~g].pc = q.pc
      BY <2>1 DEF Vorgang
    <2> QED
      BY <2>2, <2>3, RuheStimmt DEF q
  <1>9. CASE AntwortErhalten(b)
    BY <1>9 DEF AntwortErhalten, TeamInv, Inv, NetzOK
  <1> QED
    BY <1>3, <1>4, <1>5, <1>6, <1>7, <1>8, <1>9 DEF Server, Ziel

LEMMA AbschickenAndere ==
    ASSUME TeamInv, NEW a \in Anfrage, anfrage[a].pc # "frei",
           NEW s, NEW r, NEW v, Abschicken(s, r, v)
    PROVE  anfrage'[a].pc = anfrage[a].pc
  <1> DEFINE q == anfrage[a]
  <1>1. q \in Vorgang /\ q.pc # "frei"
    BY VorgangBekannt
  <1>2. anfrage'[a] = IF v /\ q.seite = s THEN [q EXCEPT !.seite = Keiner] ELSE q
    BY DEF Abschicken
  <1> HIDE DEF q
  <1> QED
    BY <1>1, <1>2 DEF Vorgang, q

\* An update ends in what its own last step writes, or in an exception.
LEMMA NurUpdateSpeichern ==
    ASSUME TeamInv, [Next]_vars, NEW a \in Anfrage, anfrage[a].pc = "speichern",
           anfrage[a].gueltig, anfrage'[a].pc # "speichern"
    PROVE  UpdateSpeichern(a) \/ UpdateScheitern(a)
  <1>1. ASSUME NEW s \in Seite, Benutzer(s) PROVE FALSE
    <2>1. CASE SeiteLaden(s)
      BY <2>1 DEF SeiteLaden
    <2>2. ASSUME NEW r, NEW v, Abschicken(s, r, v) PROVE FALSE
      BY <2>2, AbschickenAndere
    <2>3. ASSUME NEW p, TeamFertig(s, p) \/ FmaFertig(s, p) PROVE FALSE
      BY <2>2, <2>3 DEF TeamFertig, FmaFertig
    <2>4. ASSUME NEW d, NEW g, NEW ok, Absenden(s, d, g, ok) PROVE FALSE
      BY <2>2, <2>4 DEF Absenden
    <2> QED
      BY <1>1, <2>1, <2>3, <2>4 DEF Benutzer
  <1>2. ASSUME NEW b \in Anfrage, Server(b) \/ AntwortErhalten(b)
        PROVE  UpdateSpeichern(a) \/ UpdateScheitern(a)
    <2>1. a = b
      BY <1>2, AndereBleiben
    <2>2. Server(a)
      BY <1>2, <2>1 DEF AntwortErhalten
    <2> QED
      BY <2>2 DEF Server, MitgliedSuchen, MitgliedAnlegen, MitgliedUnbekannt,
         TeamVergleichen, MitgliedLoeschen, TeamAntworten, FmaSuchen, FmaAnlegen,
         FmaAntworten, ZeileSpeichern, ZeilenGespeichert, FmaSpeichern, FmaGespeichert,
         LeiterBestimmen, UpdateAblehnen
  <1>3. CASE UNCHANGED vars
    BY <1>3 DEF vars
  <1> QED
    BY <1>1, <1>2, <1>3 DEF Next

\* What an undisturbed update from a page that is up to date makes of the
\* leaders, if the team has none but the page's.
LEMMA LeiterWieAngekreuzt ==
    ASSUME TeamInv, NEW r \in Vorgang, UpdateStimmt(r, tm, fma, leiter),
           r.treu, r.pc = "speichern", Einziger(r.form, Echte(leiter, tm))
    PROVE  /\ LeiterSchreibbar(r) /\ ~LeiterVerwaist(r)
           /\ LeiterSchreiben(r) =>
                  {l.tm : l \in Echte(leiter', tm)} = {r.form.gruppe} \ {Keiner}
  <1> DEFINE f == r.form
             i == f.plId
             g == f.gruppe
             E == Echte(leiter, tm)
  <1>1. /\ \A x \in leiter : x.id = i => x.tm = f.plTm /\ x.tm \in Ids(tm)
        /\ g \in Ids(tm) \/ (g = Keiner /\ E = {})
        /\ r.plan = Plan(f, leiter)
    BY DEF UpdateStimmt, Update
  <1>2. /\ leiter \subseteq Leiter /\ Eindeutig(leiter)
        /\ \A x \in leiter : x \in E <=> x.tm \in Ids(tm)
        /\ \A x \in E : x \in leiter /\ x.id = i
    BY DEF TeamInv, Inv, TabellenOK, NummernOK, Echte, Einziger
  <1>3. g \in Ids(tm) => g \in Nat
    BY TeamAssumption DEF TeamInv, Inv, TabellenOK, Ids, Zeile, Id
  <1>4. g # Keiner => g \in Ids(tm)
    BY <1>1
  <1> HIDE DEF f, g, i, E
  <1>5. CASE \A x \in leiter : x.id # i
    <2>1. r.plan = IF g # Keiner THEN "neu" ELSE "nichts"
      BY <1>1, <1>5 DEF Plan, g, i
    <2>2. LeiterSchreibbar(r) /\ ~LeiterVerwaist(r)
      BY <1>4, <2>1 DEF LeiterSchreibbar, LeiterVerwaist, f, g
    <2>3. \A x \in leiter : x.tm \notin Ids(tm)
      BY <1>2, <1>5
    <2>4. ASSUME LeiterSchreiben(r) PROVE {l.tm : l \in Echte(leiter', tm)} = {g} \ {Keiner}
      <3>1. CASE g = Keiner
        <4>1. leiter' = leiter
          BY <2>1, <2>4, <3>1 DEF LeiterSchreiben
        <4>2. Echte(leiter', tm) = {}
          BY <2>3, <4>1 DEF Echte
        <4> QED
          BY <3>1, <4>2
      <3>2. CASE g # Keiner
        <4> DEFINE n == [id |-> frisch, tm |-> g, datiert |-> FALSE]
        <4>1. leiter' = leiter \cup {n} /\ n.tm = g
          BY <2>1, <2>4, <3>2 DEF LeiterSchreiben, f, g
        <4> HIDE DEF n
        <4>2. Echte(leiter', tm) = {n}
          BY <1>4, <2>3, <3>2, <4>1 DEF Echte
        <4> QED
          BY <3>2, <4>1, <4>2
      <3> QED
        BY <3>1, <3>2
    <2> QED
      BY <2>2, <2>4 DEF f, g
  <1>6. ASSUME NEW x \in leiter, x.id = i
        PROVE  /\ LeiterSchreibbar(r) /\ ~LeiterVerwaist(r)
               /\ LeiterSchreiben(r) =>
                      {l.tm : l \in Echte(leiter', tm)} = {g} \ {Keiner}
    <2>1. x.tm = f.plTm /\ x \in E /\ E = {x}
      BY <1>1, <1>2, <1>6 DEF Eindeutig
    <2>2. g \in Ids(tm) /\ g # Keiner
      BY <1>1, <1>3, <2>1, TeamAssumption
    <2>3. r.plan = IF g # f.plTm THEN "umsetzen" ELSE "nichts"
      BY <1>1, <1>6, <2>1 DEF Plan, g, i
    <2>4. LeiterSchreibbar(r) /\ ~LeiterVerwaist(r)
      BY <1>6, <2>2 DEF LeiterSchreibbar, LeiterVerwaist, f, g, i
    <2>5. ASSUME LeiterSchreiben(r) PROVE {l.tm : l \in Echte(leiter', tm)} = {g} \ {Keiner}
      <3>1. CASE r.plan = "nichts"
        <4>1. leiter' = leiter /\ x.tm = g
          BY <2>1, <2>3, <2>5, <3>1 DEF LeiterSchreiben
        <4>2. Echte(leiter', tm) = {x}
          BY <2>1, <4>1 DEF E
        <4> QED
          BY <2>2, <4>1, <4>2
      <3>2. CASE r.plan = "umsetzen"
        <4> DEFINE n == [x EXCEPT !.tm = g]
        <4>1. leiter' = {IF l.id = i THEN [l EXCEPT !.tm = g] ELSE l : l \in leiter}
          BY <2>5, <3>2 DEF LeiterSchreiben, f, g, i
        <4>2. n.tm = g
          BY <1>2, <1>6 DEF Leiter
        <4>3. \A l \in leiter : l.id = i => l = x
          BY <1>2, <1>6 DEF Eindeutig
        <4>4. n \in leiter' /\ \A l \in leiter' : l = n \/ (l \in leiter /\ l.id # i)
          BY <1>6, <4>1, <4>3
        <4>5. \A l \in leiter : l.id # i => l.tm \notin Ids(tm)
          BY <1>2
        <4> HIDE DEF n
        <4>6. Echte(leiter', tm) = {n}
          BY <2>2, <4>2, <4>4, <4>5 DEF Echte
        <4> QED
          BY <2>2, <4>2, <4>6
      <3> QED
        BY <2>3, <3>1, <3>2
    <2> QED
      BY <2>4, <2>5
  <1> QED
    BY <1>5, <1>6 DEF f, g

\* A form submitted from a page that is up to date, and with which no other
\* request interfered, does what it says: the dates are those typed, the leader
\* is the one ticked (ProjekteController lines 774-928).
THEOREM UpdateErreicht == Spec => NachUpdate
  <1> DEFINE Gespeichert ==
        \A a \in Anfrage :
          LET r == anfrage[a]
          IN  (/\ r.pc = "speichern" /\ r.gueltig /\ r.allein /\ r.treu
               /\ anfrage'[a].pc # "speichern")
              => /\ tm' = r.form.tm
                 /\ fma' = r.form.fma
                 /\ EinzigerLeiter(r.form) =>
                       {l.tm : l \in TeamLeiter'} = {r.form.gruppe} \ {Keiner}
  <1>1. ASSUME TeamInv, [Next]_vars, NEW a \in Anfrage,
               anfrage[a].pc = "speichern", anfrage[a].gueltig, anfrage[a].allein,
               anfrage[a].treu, anfrage'[a].pc # "speichern"
        PROVE  /\ tm' = anfrage[a].form.tm
               /\ fma' = anfrage[a].form.fma
               /\ EinzigerLeiter(anfrage[a].form) =>
                     {l.tm : l \in TeamLeiter'} = {anfrage[a].form.gruppe} \ {Keiner}
    <2> DEFINE r == anfrage[a]
    <2>1. UpdateSpeichern(a) \/ UpdateScheitern(a)
      BY <1>1, NurUpdateSpeichern
    <2>2. /\ r \in Vorgang /\ VorgangStimmt(r, tm, fma, leiter)
          /\ r.pc = "speichern" /\ r.allein /\ r.treu
      BY <1>1, VorgangBekannt
    <2>3. \/ LeiterSchreibbar(r) /\ LeiterSchreiben(r)
          \/ (~LeiterSchreibbar(r) \/ LeiterVerwaist(r)) /\ UNCHANGED tabellen
      BY <2>1 DEF UpdateSpeichern, UpdateScheitern, Scheitern
    <2> HIDE DEF r
    <2>4. UpdateStimmt(r, tm, fma, leiter)
      BY <2>2 DEF VorgangStimmt
    <2>5. tm' = tm /\ fma' = fma
      BY <2>3 DEF LeiterSchreiben, tabellen
    <2>6. tm = r.form.tm
      <3>1. Eindeutig(r.form.tm) /\ Ids(tm) = Ids(r.form.tm) /\ \A z \in tm : z \in r.form.tm
        BY <2>2, <2>4 DEF UpdateStimmt, Update
      <3>2. ASSUME NEW y \in r.form.tm PROVE y \in tm
        <4>1. PICK z \in tm : z.id = y.id
          BY <3>1 DEF Ids
        <4> QED
          BY <3>1, <4>1 DEF Eindeutig
      <3> QED
        BY <3>1, <3>2
    <2>7. fma = r.form.fma
      <3>1. Eindeutig(r.form.fma) /\ Ids(fma) = Ids(r.form.fma) /\ \A z \in fma : z \in r.form.fma
        BY <2>2, <2>4 DEF UpdateStimmt, Update
      <3>2. ASSUME NEW y \in r.form.fma PROVE y \in fma
        <4>1. PICK z \in fma : z.id = y.id
          BY <3>1 DEF Ids
        <4> QED
          BY <3>1, <4>1 DEF Eindeutig
      <3> QED
        BY <3>1, <3>2
    <2>8. ASSUME EinzigerLeiter(r.form)
          PROVE  {l.tm : l \in TeamLeiter'} = {r.form.gruppe} \ {Keiner}
      <3>1. Einziger(r.form, Echte(leiter, tm))
        BY <2>8, EchteLeiter DEF Einziger, EinzigerLeiter
      <3>2. TeamLeiter' = Echte(leiter', tm)
        BY <2>5 DEF TeamLeiter, Echte
      <3> QED
        BY <2>2, <2>3, <2>4, <3>1, <3>2, LeiterWieAngekreuzt, <1>1
    <2> QED
      BY <2>5, <2>6, <2>7, <2>8 DEF r
  <1>2. TeamInv /\ [Next]_vars => Gespeichert
    BY <1>1
  <1>3. TeamInv /\ [Next]_vars => [Gespeichert]_vars
    BY <1>2
  <1> HIDE DEF Gespeichert
  <1>4. Spec => [][Gespeichert]_vars
    BY <1>3, TeamInit, TeamErhalten, PTL DEF Spec
  <1> QED
    BY <1>4 DEF NachUpdate, Gespeichert
------------------------------------------------------------------------------
(* Where a leader outside the team comes from.  This invariant speaks of   *)
(* every update, disturbed or not: what it has saved was in the team when  *)
(* it began, and is there still unless another request has written.        *)

\* One of the rows z is ticked, or none, and all of them are older than n.
Tickt(g, z, n) == g \in Ids(z) \cup {Keiner} /\ \A y \in z : y.id < n

\* The rows an update has been through.
Gespeichert(r) == Ids(r.form.tm) \ (IF r.pc = "zeilen" THEN r.weg ELSE {})

\* What request r knows of the team's rows t, n being the next id.
HerkunftVon(r, t, n) ==
    /\ r.pc \in TeamDialog => \A y \in r.liste : y.id < n
    /\ r.pc = "antwort" => Tickt(r.form.gruppe, r.liste, n)
    /\ r.pc \in Update =>
           /\ Tickt(r.form.gruppe, r.form.tm, n)
           /\ Ids(r.form.tm) \cap Ids(t) \subseteq Ids(r.vorher)
           /\ Gespeichert(r) \subseteq Ids(r.vorher)
           /\ r.allein => Gespeichert(r) \subseteq Ids(t)

Herkunft ==
    /\ \A a \in Anfrage : HerkunftVon(anfrage[a], tm, frisch)
    /\ \A s \in Seite : Tickt(seite[s].form.gruppe, seite[s].form.tm, frisch)
HerkunftInv == Inv /\ NummernOK /\ Herkunft

\* Rows come with the next id, and go.
Fortgang == /\ frisch' \in {frisch, frisch + 1}
            /\ Ids(tm') \subseteq Ids(tm) \cup {frisch}

LEMMA TicktNoch ==
    ASSUME Inv, Fortgang, NEW g, NEW z, z \subseteq Zeile, Tickt(g, z, frisch)
    PROVE  Tickt(g, z, frisch')
  <1>1. frisch \in Nat /\ \A y \in z : y.id \in Nat
    BY TeamAssumption DEF Inv, TabellenOK, Zeile, Id
  <1> QED
    BY <1>1 DEF Tickt, Fortgang

\* What others write takes nothing from a request but that it is alone.
LEMMA HerkunftBleibt ==
    ASSUME Inv, Fortgang, NEW r \in Vorgang, NEW q \in Vorgang, HerkunftVon(r, tm, frisch),
           q.pc = r.pc, q.liste = r.liste, q.form = r.form, q.weg = r.weg, q.vorher = r.vorher,
           q.allein => r.allein /\ tm' = tm
    PROVE  HerkunftVon(q, tm', frisch')
  <1>1. /\ frisch \in Nat /\ r.liste \subseteq Zeile /\ r.form.tm \subseteq Zeile
        /\ \A y \in r.liste : y.id \in Nat
    BY FormTyp, TeamAssumption DEF Inv, TabellenOK, Vorgang, Zeile, Id
  <1>2. q.pc \in TeamDialog => \A y \in q.liste : y.id < frisch'
    BY <1>1 DEF HerkunftVon, Fortgang
  <1>3. q.pc = "antwort" => Tickt(q.form.gruppe, q.liste, frisch')
    BY <1>1, TicktNoch DEF HerkunftVon
  <1>4. ASSUME q.pc \in Update
        PROVE  /\ Tickt(q.form.gruppe, q.form.tm, frisch')
               /\ Ids(q.form.tm) \cap Ids(tm') \subseteq Ids(q.vorher)
               /\ Gespeichert(q) \subseteq Ids(q.vorher)
               /\ q.allein => Gespeichert(q) \subseteq Ids(tm')
    <2>1. Tickt(r.form.gruppe, r.form.tm, frisch)
      BY <1>4 DEF HerkunftVon
    <2>2. frisch \notin Ids(r.form.tm)
      BY <1>1, <2>1 DEF Tickt, Ids
    <2>3. Gespeichert(q) = Gespeichert(r)
      BY DEF Gespeichert
    <2>4. Tickt(q.form.gruppe, q.form.tm, frisch')
      BY <1>1, <2>1, TicktNoch
    <2> QED
      BY <1>4, <2>2, <2>3, <2>4 DEF HerkunftVon, Fortgang
  <1> QED
    BY <1>2, <1>3, <1>4 DEF HerkunftVon

LEMMA RuheHerkunft ==
    ASSUME NEW t, NEW n
    PROVE  HerkunftVon(Ruhe, t, n)
  BY DEF HerkunftVon, Ruhe, TeamDialog, Update

LEMMA SeitenHerkunft ==
    ASSUME HerkunftInv, Fortgang, NEW s \in Seite, seite'[s].form = seite[s].form
    PROVE  Tickt(seite[s].form.gruppe, seite[s].form.tm, frisch)'
  <1>1. seite[s].form.tm \subseteq Zeile
    BY DEF HerkunftInv, Inv, NetzOK, Browserseite, Formular
  <1> QED
    BY <1>1, TicktNoch DEF HerkunftInv, Herkunft

\* A step of a request: what is left to show is what it knows itself.
LEMMA WeiterHerkunft ==
    ASSUME HerkunftInv, NEW a \in Anfrage, NEW r, NEW g \in BOOLEAN, Weiter(a, r, g),
           Fortgang, ~g => tm' = tm, HerkunftVon(r, tm', frisch')
    PROVE  Herkunft'
  <1>1. ASSUME NEW b \in Anfrage PROVE HerkunftVon(anfrage'[b], tm', frisch')
    <2> DEFINE q == anfrage[b]
    <2>1. q \in Vorgang /\ HerkunftVon(q, tm, frisch)
      BY VorgangAmWerk DEF HerkunftInv, Herkunft
    <2>2. anfrage'[b] = IF b = a THEN r ELSE IF q.pc = "frei" THEN Ruhe
                        ELSE [q EXCEPT !.allein = @ /\ ~g]
      BY DEF Weiter
    <2> HIDE DEF q
    <2> DEFINE p == [q EXCEPT !.allein = @ /\ ~g]
    <2>3. /\ p \in Vorgang /\ p.pc = q.pc /\ p.liste = q.liste /\ p.form = q.form
          /\ p.weg = q.weg /\ p.vorher = q.vorher /\ p.allein = (q.allein /\ ~g)
      BY <2>1 DEF Vorgang
    <2> HIDE DEF p
    <2>4. HerkunftVon(p, tm', frisch')
      BY <2>1, <2>3, HerkunftBleibt DEF HerkunftInv
    <2> QED
      BY <2>2, <2>4, RuheHerkunft DEF p
  <1>2. ASSUME NEW s \in Seite
        PROVE  Tickt(seite[s].form.gruppe, seite[s].form.tm, frisch)'
    <2>1. seite[s] \in Browserseite
      BY DEF HerkunftInv, Inv, NetzOK
    <2>2. seite'[s] = seite[s] \/ seite'[s] = [seite[s] EXCEPT !.treu = @ /\ ~g]
      BY DEF Weiter
    <2>3. seite'[s].form = seite[s].form
      BY <2>1, <2>2 DEF Browserseite
    <2> QED
      BY <2>3, SeitenHerkunft
  <1> QED
    BY <1>1, <1>2 DEF Herkunft

LEMMA ScheiternHerkunft ==
    ASSUME HerkunftInv, NEW a \in Anfrage, Scheitern(a)
    PROVE  Herkunft'
  <1>1. UNCHANGED <<tm, frisch>> /\ Fortgang
    BY DEF Scheitern, tabellen, Fortgang
  <1>2. \A b \in Anfrage : anfrage'[b] = Ruhe \/ anfrage'[b] = anfrage[b]
    BY DEF Scheitern, HerkunftInv, Inv, NetzOK
  <1>3. \A b \in Anfrage : HerkunftVon(anfrage'[b], tm', frisch')
    BY <1>1, <1>2, RuheHerkunft DEF HerkunftInv, Herkunft
  <1>4. \A s \in Seite : seite'[s].form = seite[s].form
    BY DEF Scheitern, HerkunftInv, Inv, NetzOK, Browserseite
  <1> QED
    BY <1>1, <1>3, <1>4, SeitenHerkunft DEF Herkunft

LEMMA HerkunftBekannt ==
    ASSUME HerkunftInv, NEW a \in Anfrage
    PROVE  /\ anfrage[a] \in Vorgang /\ Passend(anfrage[a])
           /\ HerkunftVon(anfrage[a], tm, frisch)
  BY VorgangAmWerk DEF HerkunftInv, Herkunft

\* The dialog for members: its list is made of rows that are there.
LEMMA DialogHerkunft ==
    ASSUME HerkunftInv, NEW a \in Anfrage,
           \/ MitgliedSuchen(a) \/ MitgliedAnlegen(a) \/ TeamVergleichen(a)
           \/ MitgliedLoeschen(a) \/ TeamAntworten(a)
    PROVE  Herkunft'
  <1> DEFINE r == anfrage[a]
  <1>1. r \in Vorgang /\ HerkunftVon(r, tm, frisch)
    BY HerkunftBekannt
  <1>2. frisch \in Nat /\ \A y \in tm : y.id < frisch /\ y.id \in Nat
    BY TeamAssumption DEF HerkunftInv, Inv, TabellenOK, NummernOK, Zeile, Id
  <1>3. \A y \in r.liste : y.id \in Nat
    BY <1>1, TeamAssumption DEF Vorgang, Zeile, Id
  <1>4. CASE MitgliedSuchen(a)
    <2>1. /\ r.pc = "suchen" /\ UNCHANGED <<tm, frisch>> /\ Fortgang
          /\ \E p \in r.rest \ {Keiner} :
                \/ Weiter(a, [r EXCEPT !.pc = "anlegen", !.wer = p], FALSE)
                \/ \E z \in {y \in tm : y.person = p} :
                      Weiter(a, [r EXCEPT !.liste = @ \cup {z}, !.rest = @ \ {p}], FALSE)
      BY <1>4 DEF MitgliedSuchen, tabellen, Fortgang
    <2> HIDE DEF r
    <2>2. ASSUME NEW p PROVE HerkunftVon([r EXCEPT !.pc = "anlegen", !.wer = p], tm', frisch')
      <3> DEFINE q == [r EXCEPT !.pc = "anlegen", !.wer = p]
      <3>1. q.pc = "anlegen" /\ q.liste = r.liste
        BY <1>1 DEF Vorgang
      <3> HIDE DEF q
      <3>2. HerkunftVon(q, tm', frisch')
        BY <1>1, <2>1, <3>1 DEF HerkunftVon, TeamDialog, Update
      <3> QED
        BY <3>2 DEF q
    <2>3. ASSUME NEW p, NEW z \in tm
          PROVE  HerkunftVon([r EXCEPT !.liste = @ \cup {z}, !.rest = @ \ {p}], tm', frisch')
      <3> DEFINE q == [r EXCEPT !.liste = @ \cup {z}, !.rest = @ \ {p}]
      <3>1. q.pc = "suchen" /\ q.liste = r.liste \cup {z}
        BY <1>1, <2>1 DEF Vorgang
      <3> HIDE DEF q
      <3>2. HerkunftVon(q, tm', frisch')
        BY <1>1, <1>2, <2>1, <3>1 DEF HerkunftVon, TeamDialog, Update
      <3> QED
        BY <3>2 DEF q
    <2> QED
      BY <2>1, <2>2, <2>3, WeiterHerkunft
  <1>5. CASE MitgliedAnlegen(a)
    <2> DEFINE z == [id |-> frisch, person |-> r.wer, daten |-> Leer]
               q == [r EXCEPT !.pc = "suchen", !.liste = @ \cup {z},
                              !.rest = @ \ {r.wer}, !.wer = Keiner]
    <2>1. /\ r.pc = "anlegen" /\ tm' = tm \cup {z} /\ frisch' = frisch + 1
          /\ Weiter(a, q, TRUE)
      BY <1>5 DEF MitgliedAnlegen
    <2>2. z.id = frisch
      OBVIOUS
    <2> HIDE DEF r, z
    <2>3. q.pc = "suchen" /\ q.liste = r.liste \cup {z}
      BY <1>1 DEF Vorgang
    <2>4. Fortgang
      BY <2>1, <2>2 DEF Fortgang, Ids
    <2> HIDE DEF q
    <2>5. HerkunftVon(q, tm', frisch')
      BY <1>1, <1>2, <1>3, <2>1, <2>2, <2>3 DEF HerkunftVon, TeamDialog, Update
    <2> QED
      BY <2>1, <2>4, <2>5, WeiterHerkunft
  <1>6. CASE TeamVergleichen(a)
    <2> DEFINE w == Ids(tm) \ Ids(r.liste)
               q == [r EXCEPT !.pc = "loeschen", !.weg = w]
    <2>1. r.pc = "suchen" /\ UNCHANGED <<tm, frisch>> /\ Fortgang /\ Weiter(a, q, FALSE)
      BY <1>6 DEF TeamVergleichen, tabellen, Fortgang
    <2> HIDE DEF r, w
    <2>2. q.pc = "loeschen" /\ q.liste = r.liste
      BY <1>1 DEF Vorgang
    <2> HIDE DEF q
    <2>3. HerkunftVon(q, tm', frisch')
      BY <1>1, <2>1, <2>2 DEF HerkunftVon, TeamDialog, Update
    <2> QED
      BY <2>1, <2>3, WeiterHerkunft
  <1>7. CASE MitgliedLoeschen(a)
    <2>1. CASE Scheitern(a)
      BY <2>1, ScheiternHerkunft
    <2>2. ASSUME NEW i, r.pc = "loeschen", tm' = {z \in tm : z.id # i}, frisch' = frisch,
                 Weiter(a, [r EXCEPT !.weg = @ \ {i}], TRUE)
          PROVE  Herkunft'
      <3> DEFINE q == [r EXCEPT !.weg = @ \ {i}]
      <3>1. Weiter(a, q, TRUE) /\ Fortgang
        BY <2>2 DEF Fortgang, Ids
      <3> HIDE DEF r
      <3>2. q.pc = "loeschen" /\ q.liste = r.liste
        BY <1>1, <2>2 DEF Vorgang
      <3> HIDE DEF q
      <3>3. HerkunftVon(q, tm', frisch')
        BY <1>1, <2>2, <3>2 DEF HerkunftVon, TeamDialog, Update
      <3> QED
        BY <3>1, <3>3, WeiterHerkunft
    <2> QED
      BY <1>7, <2>1, <2>2 DEF MitgliedLoeschen
  <1>8. CASE TeamAntworten(a)
    <2>1. CASE Scheitern(a)
      BY <2>1, ScheiternHerkunft
    <2>2. ASSUME NEW i \in OderKeiner({l.tm : l \in leiter} \cap Ids(r.liste)),
                 r.pc = "loeschen", UNCHANGED tabellen,
                 Weiter(a, [r EXCEPT !.pc = "antwort", !.form.gruppe = i], FALSE)
          PROVE  Herkunft'
      <3> DEFINE q == [r EXCEPT !.pc = "antwort", !.form.gruppe = i]
      <3>1. Weiter(a, q, FALSE) /\ Fortgang /\ UNCHANGED <<tm, frisch>>
        BY <2>2 DEF Fortgang, tabellen
      <3>2. i \in Ids(r.liste) \cup {Keiner}
        BY DEF OderKeiner
      <3> HIDE DEF r
      <3>3. q.pc = "antwort" /\ q.liste = r.liste /\ q.form.gruppe = i
        BY <1>1 DEF Vorgang, Formular
      <3> HIDE DEF q
      <3>4. HerkunftVon(q, tm', frisch')
        BY <1>1, <2>2, <3>1, <3>2, <3>3 DEF HerkunftVon, Tickt, TeamDialog, Update
      <3> QED
        BY <3>1, <3>4, WeiterHerkunft
    <2> QED
      BY <1>8, <2>1, <2>2 DEF TeamAntworten
  <1> QED
    BY <1>4, <1>5, <1>6, <1>7, <1>8

LEMMA FmaHerkunft ==
    ASSUME HerkunftInv, NEW a \in Anfrage,
           FmaSuchen(a) \/ FmaAnlegen(a) \/ FmaAntworten(a)
    PROVE  Herkunft'
  <1> DEFINE r == anfrage[a]
  <1>1. r \in Vorgang
    BY HerkunftBekannt
  <1>2. \A pc \in {"fmaLesen", "fmaAnlegen"} : [r EXCEPT !.pc = pc].pc = pc
    BY <1>1 DEF Vorgang
  <1>3. [r EXCEPT !.pc = "fmaAntwort", !.liste = fma].pc = "fmaAntwort"
    BY <1>1 DEF Vorgang
  <1>4. \A q : q.pc \in FmaDialog => HerkunftVon(q, tm', frisch')
    BY DEF HerkunftVon, FmaDialog, TeamDialog, Update
  <1>5. PICK g \in BOOLEAN :
           Scheitern(a) \/ \E q : Weiter(a, q, g) /\ q.pc \in FmaDialog
    <2>1. CASE FmaSuchen(a)
      BY <1>2, <2>1 DEF FmaSuchen, FmaDialog
    <2>2. CASE FmaAnlegen(a)
      BY <1>2, <2>2 DEF FmaAnlegen, FmaDialog
    <2>3. CASE FmaAntworten(a)
      BY <1>3, <2>3 DEF FmaAntworten, FmaDialog
    <2> QED
      BY <2>1, <2>2, <2>3
  <1>6. tm' = tm /\ Fortgang
    BY DEF FmaSuchen, FmaAnlegen, FmaAntworten, Scheitern, tabellen, Fortgang
  <1> QED
    BY <1>4, <1>5, <1>6, WeiterHerkunft, ScheiternHerkunft

\* update: a row is saved only if it is there.
LEMMA ZeileHerkunft ==
    ASSUME HerkunftInv, NEW a \in Anfrage, ZeileSpeichern(a)
    PROVE  Herkunft'
  <1> DEFINE r == anfrage[a]
  <1>1. /\ r \in Vorgang /\ Passend(r) /\ HerkunftVon(r, tm, frisch) /\ r.pc = "zeilen"
    BY HerkunftBekannt DEF ZeileSpeichern
  <1>2. CASE Scheitern(a)
    BY <1>2, ScheiternHerkunft
  <1>3. ASSUME NEW i \in r.weg, i \in Ids(tm),
               tm' = {IF z.id # i THEN z ELSE CHOOSE y \in r.form.tm : y.id = i : z \in tm},
               Weiter(a, [r EXCEPT !.weg = @ \ {i}], TRUE),
               frisch' = frisch
        PROVE  Herkunft'
    <2> DEFINE q == [r EXCEPT !.weg = @ \ {i}]
    <2>1. Weiter(a, q, TRUE)
      BY <1>3
    <2> HIDE DEF r
    <2>2. /\ q.pc = "zeilen" /\ q.weg = r.weg \ {i} /\ q.form = r.form
          /\ q.vorher = r.vorher /\ q.allein = r.allein
      BY <1>1 DEF Vorgang
    <2> HIDE DEF q
    <2>3. i \in Ids(r.form.tm) /\ r.form.tm \subseteq Zeile /\ tm \subseteq Zeile
      BY <1>1, <1>3, FormTyp DEF Passend, HerkunftInv, Inv, TabellenOK
    <2>4. Ids(tm') = Ids(tm)
      BY <1>3, <2>3, ZeileErsetzt
    <2>5. i \in Ids(r.vorher)
      BY <1>1, <1>3, <2>3 DEF HerkunftVon, Update
    <2>6. Gespeichert(q) \subseteq Gespeichert(r) \cup {i}
      BY <1>1, <2>2 DEF Gespeichert
    <2>7. HerkunftVon(q, tm', frisch')
      BY <1>1, <1>3, <2>2, <2>4, <2>5, <2>6 DEF HerkunftVon, TeamDialog, Update
    <2> QED
      BY <1>3, <2>1, <2>4, <2>7, WeiterHerkunft DEF Fortgang
  <1> QED
    BY <1>2, <1>3 DEF ZeileSpeichern

\* The other steps of update change no row of the team.
LEMMA UpdateHerkunft ==
    ASSUME HerkunftInv, NEW a \in Anfrage,
           \/ ZeilenGespeichert(a) \/ FmaSpeichern(a) \/ FmaGespeichert(a)
           \/ LeiterBestimmen(a) \/ UpdateSpeichern(a) \/ UpdateScheitern(a)
    PROVE  Herkunft'
  <1> DEFINE r == anfrage[a]
  <1>1. r \in Vorgang /\ HerkunftVon(r, tm, frisch)
    BY HerkunftBekannt
  <1>2. tm' = tm /\ Fortgang
    BY DEF ZeilenGespeichert, FmaSpeichern, FmaGespeichert, LeiterBestimmen, UpdateSpeichern,
           UpdateScheitern, LeiterSchreiben, Scheitern, tabellen, Fortgang
  <1>3. ASSUME NEW q, NEW g \in BOOLEAN, Weiter(a, q, g), frisch' = frisch,
               r.pc = "zeilen" => r.weg = {}, r.pc \in Update,
               q.pc \in Update \ {"zeilen"}, q.form = r.form, q.vorher = r.vorher,
               q.allein = r.allein
        PROVE  Herkunft'
    <2>1. Gespeichert(q) = Gespeichert(r)
      BY <1>3 DEF Gespeichert
    <2>2. HerkunftVon(q, tm', frisch')
      BY <1>1, <1>2, <1>3, <2>1 DEF HerkunftVon, TeamDialog, Update
    <2> QED
      BY <1>2, <1>3, <2>2, WeiterHerkunft
  <1>4. CASE ZeilenGespeichert(a)
    <2> DEFINE q == [r EXCEPT !.pc = "fmaZeilen", !.weg = Ids(r.form.fma)]
    <2>1. r.pc = "zeilen" /\ r.weg = {} /\ Weiter(a, q, FALSE) /\ frisch' = frisch
      BY <1>4 DEF ZeilenGespeichert, tabellen
    <2> HIDE DEF r
    <2>2. q.pc = "fmaZeilen" /\ q.form = r.form /\ q.vorher = r.vorher /\ q.allein = r.allein
      BY <1>1 DEF Vorgang
    <2> HIDE DEF q
    <2> QED
      BY <1>3, <2>1, <2>2 DEF Update
  <1>5. CASE FmaSpeichern(a)
    <2>1. ASSUME NEW i, r.pc = "fmaZeilen", Weiter(a, [r EXCEPT !.weg = @ \ {i}], TRUE),
                 frisch' = frisch
          PROVE  Herkunft'
      <3> DEFINE q == [r EXCEPT !.weg = @ \ {i}]
      <3>1. Weiter(a, q, TRUE)
        BY <2>1
      <3> HIDE DEF r
      <3>2. q.pc = "fmaZeilen" /\ q.form = r.form /\ q.vorher = r.vorher /\ q.allein = r.allein
        BY <1>1, <2>1 DEF Vorgang
      <3> HIDE DEF q
      <3> QED
        BY <1>3, <2>1, <3>1, <3>2 DEF Update
    <2> QED
      BY <1>5, <2>1, ScheiternHerkunft DEF FmaSpeichern
  <1>6. CASE FmaGespeichert(a)
    <2> DEFINE q == [r EXCEPT !.pc = "leiter"]
    <2>1. r.pc = "fmaZeilen" /\ Weiter(a, q, FALSE) /\ frisch' = frisch
      BY <1>6 DEF FmaGespeichert, tabellen
    <2> HIDE DEF r
    <2>2. q.pc = "leiter" /\ q.form = r.form /\ q.vorher = r.vorher /\ q.allein = r.allein
      BY <1>1 DEF Vorgang
    <2> HIDE DEF q
    <2> QED
      BY <1>3, <2>1, <2>2 DEF Update
  <1>7. CASE LeiterBestimmen(a)
    <2>1. PICK plan : /\ Weiter(a, [r EXCEPT !.pc = "speichern", !.plan = plan], FALSE)
                      /\ r.pc = "leiter" /\ frisch' = frisch
      BY <1>7 DEF LeiterBestimmen, tabellen
    <2> DEFINE q == [r EXCEPT !.pc = "speichern", !.plan = plan]
    <2> HIDE DEF r
    <2>2. q.pc = "speichern" /\ q.form = r.form /\ q.vorher = r.vorher /\ q.allein = r.allein
      BY <1>1 DEF Vorgang
    <2>3. Weiter(a, q, FALSE)
      BY <2>1
    <2> HIDE DEF q
    <2> QED
      BY <1>3, <2>1, <2>2, <2>3 DEF Update
  <1>8. CASE UpdateSpeichern(a)
    <2>1. Weiter(a, Ruhe, r.plan # "nichts") /\ (r.plan # "nichts") \in BOOLEAN
      BY <1>8 DEF UpdateSpeichern
    <2>2. HerkunftVon(Ruhe, tm', frisch')
      BY RuheHerkunft
    <2> QED
      BY <1>2, <2>1, <2>2, WeiterHerkunft
  <1>9. CASE UpdateScheitern(a)
    BY <1>9, ScheiternHerkunft DEF UpdateScheitern
  <1> QED
    BY <1>4, <1>5, <1>6, <1>7, <1>8, <1>9

LEMMA AblehnenHerkunft ==
    ASSUME HerkunftInv, NEW a \in Anfrage, UpdateAblehnen(a)
    PROVE  Herkunft'
  <1> DEFINE g == leiter' # leiter
  <1>1. tm' = tm /\ Fortgang
    BY DEF UpdateAblehnen, LeiterSchreiben, tabellen, Fortgang
  <1>2. ASSUME NEW b \in Anfrage PROVE HerkunftVon(anfrage'[b], tm', frisch')
    <2> DEFINE q == anfrage[b]
               p == [q EXCEPT !.allein = @ /\ ~g]
    <2>1. q \in Vorgang /\ HerkunftVon(q, tm, frisch)
      BY HerkunftBekannt
    <2>2. anfrage'[b] = Ruhe \/ anfrage'[b] = p
      BY DEF UpdateAblehnen
    <2> HIDE DEF q, g
    <2>3. /\ p \in Vorgang /\ p.pc = q.pc /\ p.liste = q.liste /\ p.form = q.form
          /\ p.weg = q.weg /\ p.vorher = q.vorher /\ p.allein = (q.allein /\ ~g)
      BY <2>1 DEF Vorgang
    <2> HIDE DEF p
    <2>4. HerkunftVon(p, tm', frisch')
      BY <1>1, <2>1, <2>3, HerkunftBleibt DEF HerkunftInv
    <2> QED
      BY <2>2, <2>4, RuheHerkunft
  <1>3. ASSUME NEW s \in Seite
        PROVE  Tickt(seite[s].form.gruppe, seite[s].form.tm, frisch)'
    <2>1. seite[s] \in Browserseite
      BY DEF HerkunftInv, Inv, NetzOK
    <2>2. CASE seite'[s].form = seite[s].form
      BY <1>1, <2>2, SeitenHerkunft
    <2>3. CASE seite'[s].form = [LeeresFormular EXCEPT !.tm = tm]
      <3>1. seite'[s].form.gruppe = Keiner /\ seite'[s].form.tm = tm
        BY <2>3 DEF LeeresFormular
      <3>2. tm \subseteq Zeile /\ Tickt(Keiner, tm, frisch)
        BY DEF Tickt, HerkunftInv, Inv, TabellenOK, NummernOK
      <3>3. Tickt(Keiner, tm, frisch')
        BY <1>1, <3>2, TicktNoch DEF HerkunftInv
      <3> QED
        BY <3>1, <3>3
    <2>4. \/ seite'[s] = [auf |-> TRUE, form |-> [LeeresFormular EXCEPT !.tm = tm],
                          waehlbar |-> {}, treu |-> FALSE]
          \/ seite'[s] = [seite[s] EXCEPT !.treu = @ /\ ~g]
      BY DEF UpdateAblehnen
    <2> QED
      BY <2>1, <2>2, <2>3, <2>4 DEF Browserseite
  <1> QED
    BY <1>2, <1>3 DEF Herkunft

\* The callbacks of the dialogs: ticked is one of the rows that are drawn.
LEMMA AntwortHerkunft ==
    ASSUME HerkunftInv, NEW a \in Anfrage, AntwortErhalten(a)
    PROVE  Herkunft'
  <1> DEFINE r == anfrage[a]
  <1>1. r \in Vorgang /\ HerkunftVon(r, tm, frisch)
    BY HerkunftBekannt
  <1>2. UNCHANGED <<tm, frisch>> /\ Fortgang
    BY DEF AntwortErhalten, tabellen, Fortgang
  <1>3. \A b \in Anfrage : anfrage'[b] = Ruhe \/ anfrage'[b] = anfrage[b]
    BY DEF AntwortErhalten, HerkunftInv, Inv, NetzOK
  <1>4. \A b \in Anfrage : HerkunftVon(anfrage'[b], tm', frisch')
    BY <1>2, <1>3, RuheHerkunft DEF HerkunftInv, Herkunft
  <1>5. ASSUME NEW s \in Seite
        PROVE  Tickt(seite[s].form.gruppe, seite[s].form.tm, frisch)'
    <2>1. seite \in [Seite -> Browserseite]
      BY DEF HerkunftInv, Inv, NetzOK
    <2>2. CASE r.seite = s /\ r.pc = "antwort" /\ s # Keiner
      <3>1. seite'[s] = [seite[s] EXCEPT !.form.tm = r.liste, !.form.gruppe = r.form.gruppe]
        BY <2>1, <2>2 DEF AntwortErhalten
      <3> HIDE DEF r
      <3>2. seite'[s].form.tm = r.liste /\ seite'[s].form.gruppe = r.form.gruppe
        BY <2>1, <3>1 DEF Browserseite, Formular
      <3> QED
        BY <1>1, <1>2, <2>2, <3>2 DEF HerkunftVon
    <2>3. CASE r.seite # s \/ r.pc # "antwort" \/ s = Keiner
      <3>1. \/ seite'[s] = seite[s]
            \/ seite'[s] = [seite[s] EXCEPT !.form.fma = r.liste]
        BY <2>1, <2>3 DEF AntwortErhalten
      <3> HIDE DEF r
      <3>2. seite'[s].form.tm = seite[s].form.tm /\ seite'[s].form.gruppe = seite[s].form.gruppe
        BY <2>1, <3>1 DEF Browserseite, Formular
      <3> QED
        BY <1>2, <3>2 DEF HerkunftInv, Herkunft
    <2> QED
      BY <2>2, <2>3
  <1> QED
    BY <1>4, <1>5 DEF Herkunft

\* A page that is loaded ticks a member's leader or none.
LEMMA LadenHerkunft ==
    ASSUME HerkunftInv, NEW s \in Seite, SeiteLaden(s)
    PROVE  Herkunft'
  <1>1. UNCHANGED <<tm, frisch, anfrage>> /\ Fortgang
    BY DEF SeiteLaden, tabellen, Fortgang
  <1>2. seite \in [Seite -> Browserseite]
    BY DEF HerkunftInv, Inv, NetzOK
  <1>3. PICK l \in (IF TeamLeiter = {} THEN {[id |-> Keiner, tm |-> Keiner]} ELSE TeamLeiter) :
           seite' = [seite EXCEPT ![s] =
                        [auf |-> TRUE,
                         form |-> [tm |-> tm, fma |-> fma, gruppe |-> l.tm,
                                   plId |-> l.id, plTm |-> l.tm],
                         waehlbar |-> Person,
                         treu |-> \A a \in Anfrage : anfrage[a].pc = "frei"]]
    BY DEF SeiteLaden
  <1>4. l.tm \in Ids(tm) \cup {Keiner}
    BY <1>3 DEF TeamLeiter
  <1>5. seite'[s].form.gruppe = l.tm /\ seite'[s].form.tm = tm
    BY <1>2, <1>3
  <1>6. Tickt(l.tm, tm, frisch)
    BY <1>4 DEF Tickt, HerkunftInv, NummernOK
  <1>7. \A x \in Seite : x # s => seite'[x] = seite[x]
    BY <1>2, <1>3
  <1>8. \A x \in Seite : Tickt(seite[x].form.gruppe, seite[x].form.tm, frisch)'
    BY <1>1, <1>5, <1>6, <1>7 DEF HerkunftInv, Herkunft
  <1>9. \A a \in Anfrage : HerkunftVon(anfrage'[a], tm', frisch')
    BY <1>1 DEF HerkunftInv, Herkunft
  <1> QED
    BY <1>8, <1>9 DEF Herkunft

\* A request that a page sends leaves the others what they know.
LEMMA AbschickenHerkunft ==
    ASSUME HerkunftInv, NEW s \in Seite, NEW r \in Vorgang, NEW v, Abschicken(s, r, v),
           \A q \in Vorgang : (/\ q.pc = r.pc /\ q.liste = r.liste /\ q.form = r.form
                               /\ q.weg = r.weg /\ q.vorher = tm)
                              => HerkunftVon(q, tm, frisch)
    PROVE  /\ \A b \in Anfrage : HerkunftVon(anfrage'[b], tm', frisch')
           /\ UNCHANGED <<tm, frisch>> /\ Fortgang
  <1> DEFINE w == seite[s].treu /\ ~Unterwegs(s)
             n == [r EXCEPT !.seite = s, !.vorher = tm, !.treu = w]
  <1>1. UNCHANGED <<tm, frisch>> /\ Fortgang
    BY DEF Abschicken, tabellen, Fortgang
  <1>2. \A b \in Anfrage :
           \/ anfrage'[b] = n
           \/ anfrage'[b] = [anfrage[b] EXCEPT !.seite = Keiner]
           \/ anfrage'[b] = anfrage[b]
    BY DEF Abschicken
  <1>3. w \in BOOLEAN /\ tm \subseteq Zeile
    BY DEF HerkunftInv, Inv, TabellenOK
  <1> HIDE DEF w
  <1>4. /\ n \in Vorgang /\ n.pc = r.pc /\ n.liste = r.liste /\ n.form = r.form
        /\ n.weg = r.weg /\ n.vorher = tm
    BY <1>3 DEF Vorgang
  <1> HIDE DEF n
  <1>5. HerkunftVon(n, tm', frisch')
    BY <1>1, <1>4
  <1>6. ASSUME NEW b \in Anfrage
        PROVE  HerkunftVon([anfrage[b] EXCEPT !.seite = Keiner], tm', frisch')
    <2> DEFINE q == anfrage[b]
               p == [q EXCEPT !.seite = Keiner]
    <2>1. q \in Vorgang /\ HerkunftVon(q, tm, frisch)
      BY HerkunftBekannt
    <2> HIDE DEF q
    <2>2. /\ p \in Vorgang /\ p.pc = q.pc /\ p.liste = q.liste /\ p.form = q.form
          /\ p.weg = q.weg /\ p.vorher = q.vorher /\ p.allein = q.allein
      BY <2>1 DEF Vorgang
    <2> HIDE DEF p
    <2>3. HerkunftVon(p, tm', frisch')
      BY <1>1, <2>1, <2>2, HerkunftBleibt DEF HerkunftInv
    <2> QED
      BY <2>3 DEF p, q
  <1> QED
    BY <1>1, <1>2, <1>5, <1>6 DEF HerkunftInv, Herkunft

\* The dialogs begin with nothing on their lists.
LEMMA FertigHerkunft ==
    ASSUME HerkunftInv, NEW s \in Seite, NEW p \in SUBSET Person,
           TeamFertig(s, p) \/ FmaFertig(s, p)
    PROVE  Herkunft'
  <1>1. PICK r \in Vorgang : /\ Abschicken(s, r, FALSE)
                             /\ r.pc \in {"suchen", "fma"} /\ r.liste = {}
    <2>1. CASE TeamFertig(s, p)
      <3> DEFINE e == IF Cardinality(p) = 1 THEN UNION {Ziffern[q] : q \in p} ELSE p
                 n == [Ruhe EXCEPT !.pc = "suchen", !.auswahl = p, !.rest = e]
      <3>1. e \in SUBSET (Person \cup {Keiner}) /\ Abschicken(s, n, FALSE)
        BY <2>1, TeamAssumption DEF TeamFertig
      <3> HIDE DEF e
      <3>2. n \in Vorgang /\ n.pc = "suchen" /\ n.liste = {}
        BY <3>1, RuheFolgt DEF Vorgang, Ruhe
      <3> HIDE DEF n
      <3> QED
        BY <3>1, <3>2
    <2>2. CASE FmaFertig(s, p)
      <3> DEFINE n == [Ruhe EXCEPT !.pc = "fma", !.auswahl = p]
      <3>1. Abschicken(s, n, FALSE)
        BY <2>2 DEF FmaFertig
      <3>2. n \in Vorgang /\ n.pc = "fma" /\ n.liste = {}
        BY RuheFolgt DEF Vorgang, Ruhe
      <3> HIDE DEF n
      <3> QED
        BY <3>1, <3>2
    <2> QED
      BY <2>1, <2>2
  <1>2. \A q \in Vorgang : q.pc = r.pc /\ q.liste = r.liste => HerkunftVon(q, tm, frisch)
    BY <1>1 DEF HerkunftVon, TeamDialog, Update
  <1>3. /\ \A b \in Anfrage : HerkunftVon(anfrage'[b], tm', frisch')
        /\ UNCHANGED <<tm, frisch>> /\ Fortgang
    BY <1>1, <1>2, AbschickenHerkunft
  <1>4. seite' = [seite EXCEPT ![s].treu = @ /\ ~Unterwegs(s)]
    BY DEF TeamFertig, FmaFertig
  <1>5. \A x \in Seite : seite'[x].form = seite[x].form
    BY <1>4 DEF HerkunftInv, Inv, NetzOK, Browserseite
  <1> QED
    BY <1>3, <1>5, SeitenHerkunft DEF Herkunft

\* An update begins with all rows of its form still to be saved.
LEMMA AbsendenHerkunft ==
    ASSUME HerkunftInv, NEW s \in Seite, NEW d \in Datum, NEW g \in Id \cup {Keiner},
           NEW ok \in BOOLEAN, Absenden(s, d, g, ok)
    PROVE  Herkunft'
  <1> DEFINE f == seite[s].form
             t2 == {[z EXCEPT !.daten = d] : z \in f.tm}
             f2 == {[z EXCEPT !.daten = d] : z \in f.fma}
             neu == [f EXCEPT !.gruppe = g, !.tm = t2, !.fma = f2]
             r == [Ruhe EXCEPT !.pc = "zeilen", !.gueltig = ok, !.form = neu, !.weg = Ids(f.tm)]
  <1>1. /\ Abschicken(s, r, TRUE)
        /\ seite' = [seite EXCEPT ![s] = GeschlosseneSeite]
        /\ g \in Ids(f.tm) \cup {f.gruppe}
    BY DEF Absenden
  <1>2. seite \in [Seite -> Browserseite]
    BY DEF HerkunftInv, Inv, NetzOK
  <1>3. /\ f \in Formular /\ Tickt(f.gruppe, f.tm, frisch)
        /\ f.tm \subseteq Zeile /\ f.fma \subseteq Zeile
    BY <1>2 DEF HerkunftInv, Herkunft, Browserseite, Formular
  <1> HIDE DEF f
  <1>4. \A z \in Zeile : [z EXCEPT !.daten = d] \in Zeile /\ [z EXCEPT !.daten = d].id = z.id
    BY DEF Zeile
  <1>5. t2 \in SUBSET Zeile /\ f2 \in SUBSET Zeile /\ Ids(t2) = Ids(f.tm)
    BY <1>3, <1>4 DEF Ids
  <1> HIDE DEF t2, f2
  <1>6. neu \in Formular /\ neu.gruppe = g /\ neu.tm = t2
    BY <1>3, <1>5 DEF Formular
  <1> HIDE DEF neu
  <1>7. Ids(f.tm) \subseteq Id
    BY <1>3, IdsTyp
  <1>8. /\ r \in Vorgang /\ r.pc = "zeilen" /\ r.form = neu /\ r.weg = Ids(t2)
    BY <1>5, <1>6, <1>7, RuheFolgt DEF Vorgang
  <1> HIDE DEF r
  <1>9. Tickt(g, t2, frisch)
    <2>1. \A y \in f.tm : y.id < frisch
      BY <1>3 DEF Tickt
    <2>2. \A y \in t2 : \E z \in f.tm : y.id = z.id
      BY <1>5 DEF Ids
    <2> QED
      BY <1>1, <1>3, <1>5, <2>1, <2>2 DEF Tickt
  <1>10. ASSUME NEW q \in Vorgang, q.pc = r.pc, q.form = r.form, q.weg = r.weg, q.vorher = tm
         PROVE  HerkunftVon(q, tm, frisch)
    <2>1. Gespeichert(q) = {}
      BY <1>6, <1>8, <1>10 DEF Gespeichert
    <2> QED
      BY <1>6, <1>8, <1>9, <1>10, <2>1 DEF HerkunftVon, TeamDialog, Update
  <1>11. /\ \A b \in Anfrage : HerkunftVon(anfrage'[b], tm', frisch')
         /\ UNCHANGED <<tm, frisch>> /\ Fortgang
    BY <1>1, <1>8, <1>10, AbschickenHerkunft
  <1>12. Tickt(GeschlosseneSeite.form.gruppe, GeschlosseneSeite.form.tm, frisch)
    BY DEF Tickt, GeschlosseneSeite, LeeresFormular
  <1>13. \A x \in Seite : seite'[x] = IF x = s THEN GeschlosseneSeite ELSE seite[x]
    BY <1>1, <1>2
  <1> QED
    BY <1>11, <1>12, <1>13 DEF HerkunftInv, Herkunft

LEMMA HerkunftAnfang == Init => Herkunft
  <1> SUFFICES ASSUME Init PROVE Herkunft
    OBVIOUS
  <1>1. Tickt(GeschlosseneSeite.form.gruppe, GeschlosseneSeite.form.tm, frisch)
    BY DEF Tickt, GeschlosseneSeite, LeeresFormular
  <1> QED
    BY <1>1, RuheHerkunft DEF Init, Herkunft

LEMMA HerkunftErhalten == TeamInv /\ Herkunft /\ [Next]_vars => Herkunft'
  <1> SUFFICES ASSUME TeamInv, Herkunft, [Next]_vars PROVE Herkunft'
    OBVIOUS
  <1>1. HerkunftInv
    BY DEF TeamInv, HerkunftInv
  <1>2. ASSUME NEW s \in Seite, Benutzer(s) PROVE Herkunft'
    BY <1>1, <1>2, LadenHerkunft, FertigHerkunft, AbsendenHerkunft DEF Benutzer
  <1>3. ASSUME NEW a \in Anfrage, Server(a) PROVE Herkunft'
    BY <1>1, <1>3, DialogHerkunft, FmaHerkunft, ZeileHerkunft, UpdateHerkunft,
       AblehnenHerkunft, ScheiternHerkunft DEF Server, MitgliedUnbekannt
  <1>4. ASSUME NEW a \in Anfrage, AntwortErhalten(a) PROVE Herkunft'
    BY <1>1, <1>4, AntwortHerkunft
  <1>5. CASE UNCHANGED vars
    BY <1>5 DEF vars, Herkunft
  <1> QED
    BY <1>2, <1>3, <1>4, <1>5 DEF Next

\* A leader that this step leaves without a member's row.
Verlassen(l) == l.tm \notin Ids(tm') /\ l \notin leiter \ TeamLeiter

\* Steps that make no leader, and delete a row with its leaders if they do.
LEMMA KeinerVerlassen ==
    ASSUME leiter' \subseteq leiter, \A l \in leiter' : l.tm \in Ids(tm) => l.tm \in Ids(tm')
    PROVE  \A l \in leiter' : ~Verlassen(l)
  BY DEF Verlassen, TeamLeiter

LEMMA LoeschenVerlaesst ==
    ASSUME NEW a \in Anfrage, MitgliedLoeschen(a)
    PROVE  \A l \in leiter' : ~Verlassen(l)
  <1>1. CASE Scheitern(a)
    BY <1>1, KeinerVerlassen DEF Scheitern, tabellen
  <1>2. ASSUME NEW i, tm' = {z \in tm : z.id # i}, leiter' = {l \in leiter : l.tm # i}
        PROVE  \A l \in leiter' : ~Verlassen(l)
    <2>1. \A l \in leiter' : l.tm \in Ids(tm) => l.tm \in Ids(tm')
      BY <1>2 DEF Ids
    <2> QED
      BY <1>2, <2>1, KeinerVerlassen
  <1> QED
    BY <1>1, <1>2 DEF MitgliedLoeschen

\* What other steps do, apart from the last of an update.
LEMMA AndereVerlassen ==
    ASSUME TeamInv, NEW a \in Anfrage, Server(a) \/ AntwortErhalten(a),
           ~UpdateSpeichern(a), ~UpdateAblehnen(a)
    PROVE  \A l \in leiter' : ~Verlassen(l)
  <1>1. CASE Scheitern(a)
    BY <1>1, KeinerVerlassen DEF Scheitern, tabellen
  <1>2. CASE UNCHANGED <<tm, leiter>>
    BY <1>2, KeinerVerlassen
  <1>3. CASE MitgliedSuchen(a) \/ MitgliedUnbekannt(a) \/ TeamVergleichen(a) \/ TeamAntworten(a)
    BY <1>1, <1>2, <1>3 DEF MitgliedSuchen, MitgliedUnbekannt, TeamVergleichen,
       TeamAntworten, tabellen
  <1>4. CASE FmaSuchen(a) \/ FmaAnlegen(a) \/ FmaAntworten(a)
    BY <1>1, <1>2, <1>4 DEF FmaSuchen, FmaAnlegen, FmaAntworten, tabellen
  <1>5. CASE \/ ZeilenGespeichert(a) \/ FmaSpeichern(a) \/ FmaGespeichert(a)
             \/ LeiterBestimmen(a) \/ UpdateScheitern(a) \/ AntwortErhalten(a)
    BY <1>1, <1>2, <1>5 DEF ZeilenGespeichert, FmaSpeichern, FmaGespeichert,
       LeiterBestimmen, UpdateScheitern, AntwortErhalten, tabellen
  <1>6. CASE MitgliedAnlegen(a)
    <2>1. tm \subseteq tm' /\ leiter' = leiter
      BY <1>6 DEF MitgliedAnlegen
    <2> QED
      BY <2>1, KeinerVerlassen DEF Ids
  <1>7. CASE MitgliedLoeschen(a)
    BY <1>7, LoeschenVerlaesst
  <1>8. CASE ZeileSpeichern(a)
    <2> DEFINE r == anfrage[a]
    <2>1. r \in Vorgang /\ Passend(r) /\ r.pc = "zeilen"
      BY <1>8, VorgangAmWerk DEF ZeileSpeichern, TeamInv
    <2>2. ASSUME NEW i \in r.weg, leiter' = leiter,
                 tm' = {IF z.id # i THEN z ELSE CHOOSE y \in r.form.tm : y.id = i : z \in tm}
          PROVE  \A l \in leiter' : ~Verlassen(l)
      <3>1. i \in Ids(r.form.tm) /\ r.form.tm \subseteq Zeile /\ tm \subseteq Zeile
        BY <2>1, <2>2, FormTyp DEF Passend, TeamInv, Inv, TabellenOK
      <3>2. Ids(tm') = Ids(tm)
        BY <2>2, <3>1, ZeileErsetzt
      <3> QED
        BY <2>2, <3>2, KeinerVerlassen
    <2> QED
      BY <1>1, <1>8, <2>2 DEF ZeileSpeichern
  <1> QED
    BY <1>3, <1>4, <1>5, <1>6, <1>7, <1>8 DEF Server

\* The last step of an update.
LEMMA UpdateVerlaesst ==
    ASSUME TeamInv, Herkunft, NEW a \in Anfrage, UpdateSpeichern(a) \/ UpdateAblehnen(a),
           NEW l \in leiter', Verlassen(l)
    PROVE  /\ anfrage[a].pc = "speichern" /\ anfrage'[a].pc # "speichern"
           /\ l.tm = anfrage[a].form.gruppe
           /\ l.tm \in Ids(anfrage[a].vorher) /\ ~anfrage[a].allein
  <1> DEFINE r == anfrage[a]
  <1>1. /\ r \in Vorgang /\ HerkunftVon(r, tm, frisch) /\ r.pc = "speichern"
        /\ leiter \subseteq Leiter
    BY VorgangAmWerk DEF TeamInv, Inv, TabellenOK, Herkunft, UpdateSpeichern, UpdateAblehnen
  <1>2. anfrage'[a].pc # "speichern"
    BY DEF UpdateSpeichern, UpdateAblehnen, Weiter, Ruhe
  <1>3. \/ UNCHANGED tabellen
        \/ LeiterSchreibbar(r) /\ LeiterSchreiben(r)
    BY DEF UpdateSpeichern, UpdateAblehnen
  <1> HIDE DEF r
  <1>4. tm' = tm
    BY <1>3 DEF tabellen, LeiterSchreiben
  <1>5. l.tm \notin Ids(tm) /\ l \notin leiter
    BY <1>4 DEF Verlassen, TeamLeiter
  <1>6. LeiterSchreibbar(r) /\ LeiterSchreiben(r)
    BY <1>3, <1>5 DEF tabellen
  <1>7. l.tm = r.form.gruppe /\ r.form.gruppe # Keiner
    <2>1. r.plan \in {"nichts", "umsetzen", "neu"}
      BY <1>1 DEF Vorgang
    <2>2. CASE r.plan = "nichts"
      BY <1>5, <1>6, <2>2 DEF LeiterSchreiben
    <2>3. CASE r.plan = "umsetzen"
      <3>1. leiter' = {IF x.id = r.form.plId THEN [x EXCEPT !.tm = r.form.gruppe] ELSE x
                       : x \in leiter}
        BY <1>6, <2>3 DEF LeiterSchreiben
      <3>2. PICK x \in leiter : l = [x EXCEPT !.tm = r.form.gruppe]
        BY <1>5, <3>1
      <3>3. l.tm = r.form.gruppe
        BY <1>1, <3>2 DEF Leiter
      <3> QED
        BY <1>6, <2>3, <3>3 DEF LeiterSchreibbar
    <2>4. CASE r.plan = "neu"
      <3>1. leiter' = leiter \cup {[id |-> frisch, tm |-> r.form.gruppe, datiert |-> FALSE]}
        BY <1>6, <2>4 DEF LeiterSchreiben
      <3>2. l.tm = r.form.gruppe
        BY <1>5, <3>1
      <3> QED
        BY <1>6, <2>4, <3>2 DEF LeiterSchreibbar
    <2> QED
      BY <2>1, <2>2, <2>3, <2>4
  <1>8. r.form.gruppe \in Gespeichert(r)
    BY <1>1, <1>7 DEF HerkunftVon, Update, Tickt, Gespeichert
  <1>9. r.form.gruppe \in Ids(r.vorher) /\ (r.allein => r.form.gruppe \in Ids(tm))
    BY <1>1, <1>8 DEF HerkunftVon, Update
  <1> QED
    BY <1>1, <1>2, <1>5, <1>7, <1>9 DEF r

\* A leader outside the team has one origin: an update that appoints a member
\* who was in the team when it began, and beside which another request has
\* written.  The dialog for members deletes the leader with the row, a page that
\* is out of date appoints nobody who is gone: update fails at the first row it
\* misses (ProjekteController lines 420-424, 774-800, 881-928).  Whether the
\* database would refuse the leader is left open.
THEOREM LeiterVonUeberholten == Spec => LeiterNurUeberholt
  <1> DEFINE NurUeberholt ==
        \A l \in leiter' : (l.tm \notin Ids(tm') /\ l \notin leiter \ TeamLeiter) =>
          \E a \in Anfrage :
              LET r == anfrage[a]
              IN  /\ r.pc = "speichern" /\ anfrage'[a].pc # "speichern"
                  /\ l.tm = r.form.gruppe
                  /\ l.tm \in Ids(r.vorher) /\ ~r.allein
  <1>1. TeamInv /\ Herkunft /\ [Next]_vars => NurUeberholt
    <2> SUFFICES ASSUME TeamInv, Herkunft, [Next]_vars, NEW l \in leiter', Verlassen(l)
                 PROVE  \E a \in Anfrage :
                           /\ anfrage[a].pc = "speichern" /\ anfrage'[a].pc # "speichern"
                           /\ l.tm = anfrage[a].form.gruppe
                           /\ l.tm \in Ids(anfrage[a].vorher) /\ ~anfrage[a].allein
      BY DEF Verlassen
    <2>1. ASSUME NEW s \in Seite, Benutzer(s) PROVE FALSE
      <3>1. UNCHANGED <<tm, leiter>>
        BY <2>1 DEF Benutzer, SeiteLaden, TeamFertig, FmaFertig, Absenden, Abschicken, tabellen
      <3> QED
        BY <3>1, KeinerVerlassen
    <2>2. ASSUME UNCHANGED vars PROVE FALSE
      BY <2>2, KeinerVerlassen DEF vars
    <2>3. PICK a \in Anfrage : Server(a) \/ AntwortErhalten(a)
      BY <2>1, <2>2 DEF Next
    <2>4. UpdateSpeichern(a) \/ UpdateAblehnen(a)
      BY <2>3, AndereVerlassen
    <2> QED
      BY <2>4, UpdateVerlaesst
  <1>2. TeamInv /\ Herkunft /\ [Next]_vars => [NurUeberholt]_vars
    BY <1>1
  <1> HIDE DEF NurUeberholt
  <1>3. Spec => [][NurUeberholt]_vars
    BY <1>2, TeamInit, TeamErhalten, HerkunftAnfang, HerkunftErhalten, PTL DEF Spec
  <1> QED
    BY <1>3 DEF LeiterNurUeberholt, NurUeberholt
==============================================================================
