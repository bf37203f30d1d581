------------------------ MODULE Nebenteile_proofs ------------------------
(***************************************************************************)
(* What studies, phone book and master data promise, for any number of     *)
(* persons, tabs, writers, columns and pages.                              *)
(***************************************************************************)
EXTENDS Nebenteile, Sequences, FiniteSetTheorems, TLAPS

---------------------------------------------------------------------------
(* Master data.  A request that has loaded the row and that no other has    *)
(* written beside still sees it as it is.                                   *)

SdStelle == {"frei", "update", "delete", "speichern", "loeschen", "fertig"}

SdVorgang == [pc : SdStelle, form : Sd!Inhalt \cup {Weg},
              geladen : Sd!Inhalt \cup {Weg}, allein : BOOLEAN]

SdTyp ==
    /\ zeile \in Sd!Inhalt \cup {Weg}
    /\ seite \in [Blatt -> Sd!Inhalt \cup {Weg}]
    /\ vorgang \in [Blatt -> SdVorgang]

ZeileGueltig == zeile # Weg => Gueltig(zeile)

WieGeladen ==
    \A s \in Blatt : vorgang[s].pc = "speichern" /\ vorgang[s].allein =>
        zeile # Weg /\ vorgang[s].geladen = zeile

StammdatenInv == SdTyp /\ ZeileGueltig /\ WieGeladen

LEMMA SdRuhe ==
    /\ Sd!Ruhe \in SdVorgang /\ Sd!Ruhe.pc = "frei" /\ Sd!Ruhe.form = Weg
    /\ Sd!Ruhe.geladen = Weg /\ Sd!Ruhe.allein = TRUE
  BY DEF Sd!Ruhe, SdVorgang, SdStelle

LEMMA SdAmAnfang == Sd!Init => StammdatenInv
  <1> SUFFICES ASSUME Sd!Init PROVE StammdatenInv
    OBVIOUS
  <1>1. /\ zeile \in Sd!Inhalt /\ Gueltig(zeile)
        /\ seite = [s \in Blatt |-> Weg] /\ vorgang = [s \in Blatt |-> Sd!Ruhe]
    BY DEF Sd!Init
  <1>2. SdTyp
    BY <1>1, SdRuhe DEF SdTyp
  <1>3. WieGeladen
    BY <1>1, SdRuhe DEF WieGeladen
  <1> QED
    BY <1>1, <1>2, <1>3 DEF StammdatenInv, ZeileGueltig

\* A step of page s: the others notice if it wrote.
LEMMA SdWeiter ==
    ASSUME StammdatenInv, NEW s \in Blatt, NEW r \in SdVorgang, NEW g \in BOOLEAN,
           Sd!Weiter(s, r, g), zeile' \in Sd!Inhalt \cup {Weg},
           seite' \in [Blatt -> Sd!Inhalt \cup {Weg}], ZeileGueltig',
           g = FALSE => zeile' = zeile,
           r.pc = "speichern" /\ r.allein => zeile' # Weg /\ r.geladen = zeile'
    PROVE  StammdatenInv'
  <1> DEFINE mit(v, b) == [v EXCEPT !.allein = b]
  <1>1. \A v \in SdVorgang, b \in BOOLEAN :
           /\ mit(v, b) \in SdVorgang /\ mit(v, b).pc = v.pc
           /\ mit(v, b).geladen = v.geladen /\ mit(v, b).allein = b
    BY DEF SdVorgang
  <1>2. \A t \in Blatt : vorgang[t] \in SdVorgang /\ vorgang[t].allein \in BOOLEAN
    BY DEF StammdatenInv, SdTyp, SdVorgang
  <1>3. vorgang' = [t \in Blatt |-> IF t = s THEN r
                                    ELSE mit(vorgang[t], vorgang[t].allein /\ ~g)]
    BY DEF Sd!Weiter
  <1> HIDE DEF mit
  <1>4. \A t \in Blatt : t # s =>
           /\ vorgang'[t] \in SdVorgang
           /\ vorgang'[t].pc = vorgang[t].pc /\ vorgang'[t].geladen = vorgang[t].geladen
           /\ vorgang'[t].allein <=> vorgang[t].allein /\ ~g
    BY <1>1, <1>2, <1>3
  <1>5. vorgang'[s] = r
    BY <1>3
  <1>6. vorgang' \in [Blatt -> SdVorgang]
    BY <1>3, <1>4, <1>5
  <1>7. WieGeladen'
    BY <1>4, <1>5 DEF StammdatenInv, WieGeladen
  <1> QED
    BY <1>6, <1>7 DEF StammdatenInv, SdTyp

LEMMA SdErhalten == StammdatenInv /\ [Sd!Next]_stammdaten => StammdatenInv'
  <1> SUFFICES ASSUME StammdatenInv, [Sd!Next]_stammdaten PROVE StammdatenInv'
    OBVIOUS
  <1>1. /\ zeile \in Sd!Inhalt \cup {Weg} /\ ZeileGueltig
        /\ seite \in [Blatt -> Sd!Inhalt \cup {Weg}]
        /\ \A s \in Blatt : /\ vorgang[s] \in SdVorgang
                            /\ vorgang[s].form \in Sd!Inhalt \cup {Weg}
    BY DEF StammdatenInv, SdTyp, SdVorgang
  <1>2. ASSUME NEW s \in Blatt, Sd!Edit(s)
        PROVE  StammdatenInv'
    <2>1. /\ zeile' = zeile /\ vorgang' = vorgang
          /\ seite' = [seite EXCEPT ![s] = zeile]
      BY <1>2 DEF Sd!Edit
    <2>2. seite' \in [Blatt -> Sd!Inhalt \cup {Weg}]
      BY <1>1, <2>1
    <2> QED
      BY <2>1, <2>2 DEF StammdatenInv, SdTyp, ZeileGueltig, WieGeladen
  <1>3. ASSUME NEW s \in Blatt, NEW art \in {"update", "delete"}, NEW form \in Sd!Inhalt,
               Sd!Absenden(s, art, form)
        PROVE  StammdatenInv'
    <2> DEFINE r == [Sd!Ruhe EXCEPT !.pc = art, !.form = form]
    <2>1. /\ zeile' = zeile /\ vorgang' = [vorgang EXCEPT ![s] = r]
          /\ seite' = [seite EXCEPT ![s] = Weg]
      BY <1>3 DEF Sd!Absenden
    <2>2. r \in SdVorgang /\ r.pc # "speichern"
      BY SdRuhe DEF SdVorgang, SdStelle
    <2> HIDE DEF r
    <2>3. seite' \in [Blatt -> Sd!Inhalt \cup {Weg}] /\ vorgang' \in [Blatt -> SdVorgang]
      BY <1>1, <2>1, <2>2 DEF StammdatenInv, SdTyp
    <2>4. \A t \in Blatt : vorgang'[t] = IF t = s THEN r ELSE vorgang[t]
      BY <2>1 DEF StammdatenInv, SdTyp
    <2>5. WieGeladen'
      BY <2>1, <2>2, <2>4 DEF StammdatenInv, WieGeladen
    <2> QED
      BY <2>1, <2>3, <2>5 DEF StammdatenInv, SdTyp, ZeileGueltig
  <1>4. ASSUME NEW s \in Blatt, Sd!Laden(s)
        PROVE  StammdatenInv'
    <2> DEFINE p == IF vorgang[s].pc = "update" THEN "speichern" ELSE "loeschen"
               v == [vorgang[s] EXCEPT !.pc = p, !.geladen = zeile, !.allein = TRUE]
    <2>1. /\ Sd!Weiter(s, IF zeile = Weg THEN Sd!Ruhe ELSE v, FALSE)
          /\ zeile' = zeile /\ seite' = seite
      BY <1>4 DEF Sd!Laden
    <2>2. p \in SdStelle
      BY DEF SdStelle
    <2> HIDE DEF p
    <2>3. v \in SdVorgang /\ v.geladen = zeile
      BY <1>1, <2>2 DEF SdVorgang
    <2> HIDE DEF v
    <2>4. CASE zeile = Weg
      BY <1>1, <2>1, <2>4, SdRuhe, SdWeiter DEF ZeileGueltig
    <2>5. CASE zeile # Weg
      BY <1>1, <2>1, <2>3, <2>5, SdWeiter DEF ZeileGueltig
    <2> QED
      BY <2>4, <2>5
  <1>5. ASSUME NEW s \in Blatt, Sd!Speichern(s)
        PROVE  StammdatenInv'
    <2> DEFINE r == [vorgang[s] EXCEPT !.pc = "fertig"]
               g == zeile' # zeile
    <2>1. /\ zeile' \in {zeile, vorgang[s].form} /\ Gueltig(vorgang[s].form)
          /\ Sd!Weiter(s, r, g) /\ seite' = seite
      BY <1>5 DEF Sd!Speichern, Sd!Geschrieben
    <2>2. r \in SdVorgang /\ r.pc # "speichern"
      BY <1>1 DEF SdVorgang, SdStelle
    <2>3. g \in BOOLEAN /\ (g = FALSE => zeile' = zeile)
      OBVIOUS
    <2> HIDE DEF r, g
    <2>4. zeile' \in Sd!Inhalt \cup {Weg} /\ ZeileGueltig'
      BY <1>1, <2>1 DEF ZeileGueltig
    <2> QED
      BY <1>1, <2>1, <2>2, <2>3, <2>4, SdWeiter
  <1>6. ASSUME NEW s \in Blatt, Sd!Ablehnen(s)
        PROVE  StammdatenInv'
    <2>1. /\ Sd!Weiter(s, Sd!Ruhe, FALSE) /\ zeile' = zeile
          /\ seite' = [seite EXCEPT ![s] = vorgang[s].form]
      BY <1>6 DEF Sd!Ablehnen
    <2>2. seite' \in [Blatt -> Sd!Inhalt \cup {Weg}]
      BY <1>1, <2>1
    <2> QED
      BY <1>1, <2>1, <2>2, SdRuhe, SdWeiter DEF ZeileGueltig
  <1>7. ASSUME NEW s \in Blatt, Sd!Loeschen(s)
        PROVE  StammdatenInv'
    <2>1. PICK ok \in BOOLEAN : zeile' = (IF ok THEN Weg ELSE zeile) /\ Sd!Weiter(s, Sd!Ruhe, ok)
      BY <1>7 DEF Sd!Loeschen
    <2>2. seite' = seite
      BY <1>7 DEF Sd!Loeschen
    <2> QED
      BY <1>1, <2>1, <2>2, SdRuhe, SdWeiter DEF ZeileGueltig
  <1>8. ASSUME NEW s \in Blatt, Sd!Antworten(s)
        PROVE  StammdatenInv'
    <2>1. Sd!Weiter(s, Sd!Ruhe, FALSE) /\ zeile' = zeile /\ seite' = seite
      BY <1>8 DEF Sd!Antworten
    <2> QED
      BY <1>1, <2>1, SdRuhe, SdWeiter DEF ZeileGueltig
  <1>9. CASE UNCHANGED stammdaten
    BY <1>9 DEF stammdaten, StammdatenInv, SdTyp, ZeileGueltig, WieGeladen
  <1> QED
    BY <1>2, <1>3, <1>4, <1>5, <1>6, <1>7, <1>8, <1>9 DEF Sd!Next

\* An update that is stored, undisturbed since it loaded the row, leaves its form.
LEMMA SdSpeichernWirkt ==
    ASSUME StammdatenInv, NEW s \in Blatt, Sd!Speichern(s), vorgang[s].allein
    PROVE  zeile' = vorgang[s].form
  BY DEF Sd!Speichern, Sd!Geschrieben, StammdatenInv, WieGeladen

\* Only Speichern takes a request from the update to its answer.
LEMMA SdNurSpeichern ==
    ASSUME StammdatenInv, Sd!Next, NEW s \in Blatt,
           vorgang[s].pc = "speichern", vorgang'[s].pc = "fertig"
    PROVE  Sd!Speichern(s)
  <1> DEFINE mit(v, b) == [v EXCEPT !.allein = b]
  <1>1. \A v \in SdVorgang : \A b : mit(v, b).pc = v.pc
    BY DEF SdVorgang
  <1>2. \A t \in Blatt : vorgang[t] \in SdVorgang
    BY DEF StammdatenInv, SdTyp
  <1>3. ASSUME NEW t \in Blatt, NEW r, NEW g, Sd!Weiter(t, r, g), t # s
        PROVE  FALSE
    <2>1. vorgang'[s] = mit(vorgang[s], vorgang[s].allein /\ ~g)
      BY <1>3 DEF Sd!Weiter
    <2> HIDE DEF mit
    <2>2. vorgang'[s].pc = vorgang[s].pc
      BY <1>1, <1>2, <2>1
    <2> QED
      BY <2>2
  <1>4. ASSUME NEW r, NEW g, Sd!Weiter(s, r, g)
        PROVE  vorgang'[s] = r
    BY <1>4 DEF Sd!Weiter
  <1>5. \A t \in Blatt : ~Sd!Edit(t)
    BY DEF Sd!Edit
  <1>6. \A t \in Blatt : \A art, form : ~Sd!Absenden(t, art, form)
    BY DEF Sd!Absenden, StammdatenInv, SdTyp
  <1>7. \A t \in Blatt : ~Sd!Laden(t) /\ ~Sd!Ablehnen(t) /\ ~Sd!Loeschen(t) /\ ~Sd!Antworten(t)
    BY <1>3, <1>4, SdRuhe DEF Sd!Laden, Sd!Ablehnen, Sd!Loeschen, Sd!Antworten
  <1>8. PICK t \in Blatt : Sd!Speichern(t)
    BY <1>5, <1>6, <1>7 DEF Sd!Next
  <1>9. t = s
    BY <1>3, <1>8 DEF Sd!Speichern
  <1> QED
    BY <1>8, <1>9

\* A row of the master data is never a mixture, and an update no other request
\* wrote beside leaves exactly its form (AdresseController, lines 61-115).
THEOREM LetzteGewinnt == Sd!Spec => LetzteSpeicherung
  <1> DEFINE schritt == /\ zeile' # zeile => zeile' = Weg \/ \E s \in Blatt : zeile' = vorgang[s].form
                        /\ zeile' # Weg => Gueltig(zeile')
                        /\ \A s \in Blatt :
                              (vorgang[s].pc = "speichern" /\ vorgang'[s].pc = "fertig"
                                 /\ vorgang[s].allein) => zeile' = vorgang[s].form
  <1>1. ASSUME StammdatenInv, [Sd!Next]_stammdaten PROVE [schritt]_stammdaten
    <2> SUFFICES ASSUME Sd!Next PROVE schritt
      BY <1>1
    <2>1. zeile' # zeile => zeile' = Weg \/ \E s \in Blatt : zeile' = vorgang[s].form
      BY DEF Sd!Next, Sd!Edit, Sd!Absenden, Sd!Laden, Sd!Speichern, Sd!Geschrieben,
             Sd!Ablehnen, Sd!Loeschen, Sd!Antworten
    <2>2. zeile' # Weg => Gueltig(zeile')
      BY <1>1, SdErhalten DEF StammdatenInv, ZeileGueltig
    <2>3. \A s \in Blatt :
             (vorgang[s].pc = "speichern" /\ vorgang'[s].pc = "fertig" /\ vorgang[s].allein)
                => zeile' = vorgang[s].form
      BY <1>1, SdNurSpeichern, SdSpeichernWirkt
    <2> QED
      BY <2>1, <2>2, <2>3
  <1>2. StammdatenInv /\ [Sd!Next]_(Sd!vars) => StammdatenInv'
    BY SdErhalten DEF stammdaten, Sd!vars
  <1>3. StammdatenInv /\ [Sd!Next]_(Sd!vars) => [schritt]_(Sd!vars)
    BY <1>1 DEF stammdaten, Sd!vars
  <1> QED
    BY <1>2, <1>3, SdAmAnfang, PTL DEF Sd!Spec, LetzteSpeicherung, Sd!LetzteSpeicherung
---------------------------------------------------------------------------
(* The phone book.  A writer still has to ask for those not on its list;    *)
(* one that nobody came between since it emptied the file has written its   *)
(* blocks one after the other.                                              *)

Schreibende == Job \cup Abruf

Angaben == [da : BOOLEAN, nr : Nat]
Liste == SUBSET (Mitglied \X Nat)
Buch == [da : BOOLEAN, inhalt : Seq(Liste \cup {Luecke})]

TbVorgang == [pc : {"frei", "sammeln", "schreiben"}, rest : SUBSET Mitglied,
              liste : Liste, blocks : Nat,
              ab : [Mitglied -> Angaben] \cup {<<>>}, allein : BOOLEAN]

\* A number that person p had since r's session met her is on its list; pe: the
\* persons now.
Notiert(r, pe, p) == \E n \in r.ab[p].nr .. pe[p].nr : <<p, n>> \in r.liste

SchreiberStimmt(r, pe, inhalt) ==
    /\ r.pc # "frei" =>
          /\ r.ab \in [Mitglied -> Angaben]
          /\ \A p \in Mitglied : r.ab[p].nr <= pe[p].nr
          /\ \A p \in Mitglied : r.ab[p].da => p \in r.rest \/ Notiert(r, pe, p)
    /\ r.pc = "sammeln" => r.blocks = 0
    /\ r.pc = "schreiben" => r.rest = {}
    /\ r.pc = "schreiben" /\ r.allein => inhalt = [k \in 1 .. r.blocks |-> r.liste]

TbTyp ==
    /\ person \in [Mitglied -> Angaben]
    /\ datei \in Buch
    /\ schreiber \in [Schreibende -> TbVorgang]

TelefonInv ==
    /\ TbTyp
    /\ \A s \in Schreibende : SchreiberStimmt(schreiber[s], person, datei.inhalt)

LEMMA TbKardinal == ASSUME NEW S PROVE Tb!Cardinality(S) = Cardinality(S)
  BY DEF Tb!Cardinality, Cardinality

LEMMA TbRuhe ==
    /\ Tb!Ruhe \in TbVorgang
    /\ \A pe, inhalt : SchreiberStimmt(Tb!Ruhe, pe, inhalt)
  <1>1. Tb!Ruhe \in TbVorgang /\ Tb!Ruhe.pc = "frei"
    BY DEF Tb!Ruhe, TbVorgang, Liste
  <1> QED
    BY <1>1 DEF SchreiberStimmt

LEMMA TbAmAnfang == Tb!Init => TelefonInv
  <1> SUFFICES ASSUME Tb!Init PROVE TelefonInv
    OBVIOUS
  <1>1. schreiber = [s \in Schreibende |-> Tb!Ruhe]
    BY DEF Tb!Init, Schreibende
  <1>2. person \in [Mitglied -> Angaben]
    BY DEF Tb!Init, Angaben
  <1>3. datei \in Buch
    <2>1. Tb!Keine \in Buch
      BY DEF Tb!Keine, Buch
    <2>2. Tb!Blockzahl({}) = 1
      <3>1. Tb!Cardinality({}) = 0
        BY TbKardinal, FS_EmptySet
      <3> QED
        BY <3>1 DEF Tb!Blockzahl
    <2>3. Tb!Inhalt({}) = [k \in 1 .. 1 |-> {}]
      BY <2>2 DEF Tb!Inhalt
    <2>4. [k \in 1 .. 1 |-> {}] \in Seq(Liste \cup {Luecke})
      BY DEF Liste
    <2>5. [da |-> TRUE, inhalt |-> Tb!Inhalt({})] \in Buch
      BY <2>3, <2>4 DEF Buch
    <2> QED
      BY <2>1, <2>5 DEF Tb!Init
  <1> QED
    BY <1>1, <1>2, <1>3, TbRuhe DEF TelefonInv, TbTyp

\* A step of writer s: the others notice if it wrote.
LEMMA TbWeiter ==
    ASSUME TelefonInv, NEW s \in Schreibende, NEW r \in TbVorgang, NEW g \in BOOLEAN,
           Tb!Weiter(s, r, g), datei' \in Buch, g = FALSE => datei' = datei,
           SchreiberStimmt(r, person, datei'.inhalt)
    PROVE  TelefonInv'
  <1> DEFINE mit(v, b) == [v EXCEPT !.allein = b]
  <1>1. \A v \in TbVorgang, b \in BOOLEAN :
           /\ mit(v, b) \in TbVorgang /\ mit(v, b).pc = v.pc /\ mit(v, b).rest = v.rest
           /\ mit(v, b).liste = v.liste /\ mit(v, b).blocks = v.blocks
           /\ mit(v, b).ab = v.ab /\ mit(v, b).allein = b
    BY DEF TbVorgang
  <1>2. \A t \in Schreibende :
           /\ schreiber[t] \in TbVorgang /\ schreiber[t].allein \in BOOLEAN
           /\ SchreiberStimmt(schreiber[t], person, datei.inhalt)
    BY DEF TelefonInv, TbTyp, TbVorgang
  <1>3. /\ schreiber' = [t \in Schreibende |->
                            IF t = s THEN r
                            ELSE IF schreiber[t].pc = "frei" THEN Tb!Ruhe
                            ELSE mit(schreiber[t], schreiber[t].allein /\ ~g)]
        /\ person' = person
    BY DEF Tb!Weiter, TelefonInv, TbTyp
  <1> HIDE DEF mit
  <1>4. ASSUME NEW t \in Schreibende, t # s, schreiber[t].pc # "frei"
        PROVE  /\ schreiber'[t] \in TbVorgang
               /\ SchreiberStimmt(schreiber'[t], person, datei'.inhalt)
    <2> DEFINE v == schreiber[t]
               w == schreiber'[t]
    <2>1. w = mit(v, v.allein /\ ~g)
      BY <1>3, <1>4
    <2>2. v \in TbVorgang /\ SchreiberStimmt(v, person, datei.inhalt)
      BY <1>2
    <2> HIDE DEF v, w
    <2> DEFINE b == v.allein /\ ~g
    <2>3. w = mit(v, b) /\ b \in BOOLEAN
      BY <2>1
    <2>4. b => v.allein /\ ~g
      OBVIOUS
    <2> HIDE DEF b
    <2>5. /\ w \in TbVorgang /\ w.pc = v.pc /\ w.rest = v.rest /\ w.liste = v.liste
          /\ w.blocks = v.blocks /\ w.ab = v.ab /\ w.allein = b
      BY <1>1, <2>2, <2>3
    <2>6. \A p : Notiert(w, person, p) = Notiert(v, person, p)
      BY <2>5 DEF Notiert
    <2>7. SchreiberStimmt(w, person, datei'.inhalt)
      <3>1. CASE b = FALSE
        BY <2>2, <2>5, <2>6, <3>1 DEF SchreiberStimmt
      <3>2. CASE b = TRUE
        <4>1. v.allein /\ datei' = datei
          BY <2>4, <3>2
        <4> QED
          BY <2>2, <2>5, <2>6, <4>1 DEF SchreiberStimmt
      <3> QED
        BY <2>3, <3>1, <3>2
    <2> QED
      BY <2>5, <2>7 DEF w
  <1>5. ASSUME NEW t \in Schreibende, t # s, schreiber[t].pc = "frei"
        PROVE  /\ schreiber'[t] \in TbVorgang
               /\ SchreiberStimmt(schreiber'[t], person, datei'.inhalt)
    BY <1>3, <1>5, TbRuhe
  <1>6. schreiber'[s] = r
    BY <1>3
  <1>7. schreiber' \in [Schreibende -> TbVorgang]
    BY <1>3, <1>4, <1>5, <1>6
  <1>8. \A t \in Schreibende : SchreiberStimmt(schreiber'[t], person', datei'.inhalt)
    BY <1>3, <1>4, <1>5, <1>6
  <1> QED
    BY <1>3, <1>7, <1>8 DEF TelefonInv, TbTyp

\* Writers that end, or one that begins, and nothing else.
LEMMA TbBeginnen ==
    ASSUME TelefonInv, NEW s \in Schreibende, NEW geladen \in [Mitglied -> Nat],
           Tb!Beginnen(s, geladen)
    PROVE  TelefonInv'
  <1> DEFINE ab == [p \in Mitglied |-> [da |-> person[p].da, nr |-> geladen[p]]]
             r == [Tb!Ruhe EXCEPT !.pc = "sammeln", !.rest = {p \in Mitglied : person[p].da},
                                  !.ab = ab]
  <1>1. schreiber' = [schreiber EXCEPT ![s] = r] /\ person' = person /\ datei' = datei
    BY DEF Tb!Beginnen
  <1>2. person \in [Mitglied -> Angaben] /\ \A p \in Mitglied : geladen[p] <= person[p].nr
    BY DEF TelefonInv, TbTyp, Tb!Beginnen
  <1>3. /\ ab \in [Mitglied -> Angaben]
        /\ \A p \in Mitglied : ab[p].da = person[p].da /\ ab[p].nr <= person[p].nr
    BY <1>2 DEF Angaben
  <1> HIDE DEF ab
  <1>7. /\ r \in TbVorgang /\ r.pc = "sammeln" /\ r.ab = ab /\ r.blocks = 0
        /\ r.rest = {p \in Mitglied : person[p].da}
    BY <1>3 DEF Tb!Ruhe, TbVorgang, Liste
  <1> HIDE DEF r
  <1>4. SchreiberStimmt(r, person, datei.inhalt)
    BY <1>2, <1>3, <1>7 DEF SchreiberStimmt, Angaben
  <1>5. \A t \in Schreibende : schreiber'[t] = IF t = s THEN r ELSE schreiber[t]
    BY <1>1 DEF TelefonInv, TbTyp
  <1>6. schreiber' \in [Schreibende -> TbVorgang]
    BY <1>1, <1>7 DEF TelefonInv, TbTyp
  <1> QED
    BY <1>1, <1>4, <1>5, <1>6 DEF TelefonInv, TbTyp

LEMMA TbEnden ==
    ASSUME TelefonInv, NEW S \in SUBSET Schreibende, person' = person, datei' = datei,
           schreiber' = [t \in Schreibende |-> IF t \in S THEN Tb!Ruhe ELSE schreiber[t]]
    PROVE  TelefonInv'
  <1>1. schreiber' \in [Schreibende -> TbVorgang]
    BY TbRuhe DEF TelefonInv, TbTyp
  <1> QED
    BY <1>1, TbRuhe DEF TelefonInv, TbTyp

LEMMA TbAendern ==
    ASSUME TelefonInv, NEW p \in Mitglied, NEW bleibt \in BOOLEAN, Tb!PersonAendern(p, bleibt)
    PROVE  TelefonInv'
  <1> DEFINE neu == [da |-> bleibt, nr |-> person[p].nr + 1]
  <1>1. /\ person' = [person EXCEPT ![p] = neu]
        /\ datei' = datei /\ schreiber' = schreiber
    BY DEF Tb!PersonAendern
  <1>2. person \in [Mitglied -> Angaben]
    BY DEF TelefonInv, TbTyp
  <1>3. person[p].nr \in Nat
    BY <1>2 DEF Angaben
  <1>4. neu \in Angaben /\ neu.nr = person[p].nr + 1
    BY <1>3 DEF Angaben
  <1> HIDE DEF neu
  <1>5. person' \in [Mitglied -> Angaben]
    BY <1>1, <1>2, <1>4
  <1>6. \A q \in Mitglied : person[q].nr \in Nat /\ person'[q].nr \in Nat
                            /\ person[q].nr <= person'[q].nr
    <2>1. \A q \in Mitglied : person'[q] = IF q = p THEN neu ELSE person[q]
      BY <1>1, <1>2
    <2> QED
      BY <1>2, <1>3, <1>4, <2>1 DEF Angaben
  <1>7. ASSUME NEW s \in Schreibende
        PROVE  SchreiberStimmt(schreiber[s], person', datei.inhalt)
    <2> DEFINE r == schreiber[s]
    <2>1. SchreiberStimmt(r, person, datei.inhalt)
      BY DEF TelefonInv
    <2> HIDE DEF r
    <2>2. ASSUME r.pc # "frei", NEW q \in Mitglied
          PROVE  /\ r.ab[q].nr <= person'[q].nr
                 /\ Notiert(r, person, q) => Notiert(r, person', q)
      <3>1. r.ab[q].nr \in Nat /\ r.ab[q].nr <= person[q].nr
        BY <2>1, <2>2 DEF SchreiberStimmt, Angaben
      <3>2. r.ab[q].nr .. person[q].nr \subseteq r.ab[q].nr .. person'[q].nr
        BY <1>6, <3>1
      <3> QED
        BY <1>6, <3>1, <3>2 DEF Notiert
    <2>3. SchreiberStimmt(r, person', datei.inhalt)
      BY <2>1, <2>2 DEF SchreiberStimmt
    <2> QED
      BY <2>3 DEF r
  <1> QED
    BY <1>1, <1>5, <1>7 DEF TelefonInv, TbTyp

LEMMA TbSammeln ==
    ASSUME TelefonInv, NEW s \in Schreibende, NEW p \in Mitglied, Tb!Sammeln(s, p)
    PROVE  TelefonInv'
  <1> DEFINE r == schreiber[s]
             mit(n) == [r EXCEPT !.rest = @ \ {p}, !.liste = @ \cup {<<p, n>>}]
             mehr(n) == r.liste \cup {<<p, n>>}
             weniger == r.rest \ {p}
  <1>1. PICK n \in r.ab[p].nr .. person[p].nr : Tb!Weiter(s, mit(n), FALSE)
    BY DEF Tb!Sammeln
  <1>2. r.pc = "sammeln" /\ datei' = datei
    BY DEF Tb!Sammeln
  <1>3. /\ r \in TbVorgang /\ SchreiberStimmt(r, person, datei.inhalt)
        /\ person \in [Mitglied -> Angaben] /\ datei \in Buch
    BY DEF TelefonInv, TbTyp
  <1>4. r.ab[p].nr \in Nat /\ person[p].nr \in Nat
    BY <1>2, <1>3 DEF SchreiberStimmt, Angaben
  <1>5. n \in Nat
    BY <1>4
  <1> HIDE DEF r
  <1>6. mehr(n) \in Liste /\ weniger \in SUBSET Mitglied
    BY <1>3, <1>5 DEF TbVorgang, Liste
  <1>7. mit(n) = [r EXCEPT !.rest = weniger, !.liste = mehr(n)]
    BY <1>3 DEF TbVorgang
  <1> HIDE DEF mehr, weniger
  <1>8. /\ mit(n) \in TbVorgang /\ mit(n).pc = r.pc /\ mit(n).rest = weniger
        /\ mit(n).liste = mehr(n) /\ mit(n).blocks = r.blocks /\ mit(n).ab = r.ab
    BY <1>3, <1>6, <1>7 DEF TbVorgang
  <1> HIDE DEF mit
  <1>9. \A q \in Mitglied : Notiert(r, person, q) => Notiert(mit(n), person, q)
    BY <1>8 DEF Notiert, mehr
  <1>10. Notiert(mit(n), person, p)
    BY <1>1, <1>8 DEF Notiert, mehr
  <1>11. SchreiberStimmt(mit(n), person, datei.inhalt)
    BY <1>2, <1>3, <1>8, <1>9, <1>10 DEF SchreiberStimmt, weniger
  <1> QED
    BY <1>1, <1>2, <1>3, <1>8, <1>11, TbWeiter

LEMMA TbOeffnen ==
    ASSUME TelefonInv, NEW s \in Schreibende, Tb!Oeffnen(s)
    PROVE  TelefonInv'
  <1> DEFINE r == schreiber[s]
             w == [r EXCEPT !.pc = "schreiben", !.allein = TRUE]
  <1>1. /\ r.pc = "sammeln" /\ r.rest = {} /\ Tb!Weiter(s, w, TRUE)
        /\ datei' = [da |-> TRUE, inhalt |-> <<>>]
    BY DEF Tb!Oeffnen
  <1>2. r \in TbVorgang /\ SchreiberStimmt(r, person, datei.inhalt)
    BY DEF TelefonInv, TbTyp
  <1> HIDE DEF r
  <1>3. /\ w \in TbVorgang /\ w.pc = "schreiben" /\ w.rest = r.rest /\ w.liste = r.liste
        /\ w.blocks = r.blocks /\ w.ab = r.ab
    BY <1>2 DEF TbVorgang
  <1> HIDE DEF w
  <1>4. datei' \in Buch /\ datei'.inhalt = <<>>
    BY <1>1 DEF Buch
  <1>5. w.blocks = 0
    BY <1>1, <1>2, <1>3 DEF SchreiberStimmt
  <1>6. datei'.inhalt = [k \in 1 .. w.blocks |-> w.liste]
    BY <1>4, <1>5
  <1>7. \A p : Notiert(w, person, p) = Notiert(r, person, p)
    BY <1>3 DEF Notiert
  <1>8. SchreiberStimmt(w, person, datei'.inhalt)
    BY <1>1, <1>2, <1>3, <1>6, <1>7 DEF SchreiberStimmt
  <1> QED
    BY <1>1, <1>3, <1>4, <1>8, TbWeiter

LEMMA TbBlockSchreiben ==
    ASSUME TelefonInv, NEW s \in Schreibende, Tb!BlockSchreiben(s)
    PROVE  TelefonInv'
  <1> DEFINE r == schreiber[s]
             k == r.blocks + 1
             bisher == datei.inhalt
             laenge == IF Len(bisher) >= k THEN Len(bisher) ELSE k
             inhalt == [i \in 1 .. laenge |-> IF i = k THEN r.liste
                            ELSE IF i <= Len(bisher) THEN bisher[i] ELSE Luecke]
             w == [r EXCEPT !.blocks = k]
  <1>1. /\ r.pc = "schreiben" /\ Tb!Weiter(s, w, TRUE)
        /\ datei' = [datei EXCEPT !.inhalt = inhalt]
    BY DEF Tb!BlockSchreiben
  <1>2. /\ r \in TbVorgang /\ SchreiberStimmt(r, person, bisher)
        /\ datei \in Buch /\ bisher \in Seq(Liste \cup {Luecke})
    BY DEF TelefonInv, TbTyp, Buch
  <1> HIDE DEF r
  <1>3. /\ w \in TbVorgang /\ w.pc = r.pc /\ w.rest = r.rest /\ w.liste = r.liste
        /\ w.blocks = k /\ w.ab = r.ab /\ w.allein = r.allein
        /\ r.blocks \in Nat /\ r.liste \in Liste
    BY <1>2 DEF TbVorgang
  <1> HIDE DEF w
  <1>4. inhalt \in Seq(Liste \cup {Luecke})
    <2>1. laenge \in Nat
      BY <1>2, <1>3
    <2>2. \A i \in 1 .. laenge : inhalt[i] \in Liste \cup {Luecke}
      BY <1>2, <1>3
    <2> QED
      BY <2>1, <2>2
  <1>5. ASSUME r.allein
        PROVE  inhalt = [i \in 1 .. w.blocks |-> w.liste]
    <2>1. bisher = [i \in 1 .. r.blocks |-> r.liste]
      BY <1>1, <1>2, <1>5 DEF SchreiberStimmt
    <2>2. Len(bisher) = r.blocks
      BY <1>2, <1>3, <2>1
    <2>3. laenge = k
      BY <1>3, <2>2
    <2>4. \A i \in 1 .. k : inhalt[i] = r.liste
      BY <1>3, <2>1, <2>2, <2>3
    <2> QED
      BY <1>3, <2>3, <2>4
  <1> HIDE DEF inhalt, bisher
  <1>6. datei' \in Buch /\ datei'.inhalt = inhalt
    BY <1>1, <1>2, <1>4 DEF Buch
  <1>7. \A p : Notiert(w, person, p) = Notiert(r, person, p)
    BY <1>3 DEF Notiert
  <1>8. SchreiberStimmt(w, person, datei'.inhalt)
    BY <1>1, <1>2, <1>3, <1>5, <1>6, <1>7 DEF SchreiberStimmt
  <1> QED
    BY <1>1, <1>3, <1>6, <1>8, TbWeiter

LEMMA TbSchliessen ==
    ASSUME TelefonInv, NEW s \in Schreibende, Tb!Schliessen(s)
    PROVE  TelefonInv'
  <1>1. Tb!Weiter(s, Tb!Ruhe, FALSE) /\ datei' = datei
    BY DEF Tb!Schliessen
  <1>2. datei \in Buch
    BY DEF TelefonInv, TbTyp
  <1> QED
    BY <1>1, <1>2, TbRuhe, TbWeiter

LEMMA TbErhalten == TelefonInv /\ [Tb!Next]_(Tb!vars) => TelefonInv'
  <1> SUFFICES ASSUME TelefonInv, [Tb!Next]_(Tb!vars) PROVE TelefonInv'
    OBVIOUS
  <1>1. CASE UNCHANGED Tb!vars
    BY <1>1 DEF Tb!vars, TelefonInv, TbTyp
  <1>2. ASSUME NEW p \in Mitglied, NEW bleibt \in BOOLEAN, Tb!PersonAendern(p, bleibt)
        PROVE  TelefonInv'
    BY <1>2, TbAendern
  <1>3. ASSUME NEW s \in Schreibende, NEW geladen \in [Mitglied -> Nat],
               Tb!Beginnen(s, geladen)
        PROVE  TelefonInv'
    BY <1>3, TbBeginnen
  <1>7. CASE Tb!LaufEndet
    <2>1. [Mitglied -> 0 .. MaxAenderungen] \subseteq [Mitglied -> Nat]
      OBVIOUS
    <2> QED
      BY <1>3, <1>7, <2>1 DEF Tb!LaufEndet, Schreibende
  <1>8. CASE Tb!AbrufBeginnt
    <2>1. [p \in Mitglied |-> person[p].nr] \in [Mitglied -> Nat]
      BY DEF TelefonInv, TbTyp, Angaben
    <2> QED
      BY <1>3, <1>8, <2>1 DEF Tb!AbrufBeginnt, Schreibende
  <1>4. ASSUME NEW s \in Schreibende, Tb!Schreibschritt(s)
        PROVE  TelefonInv'
    BY <1>4, TbSammeln, TbOeffnen, TbBlockSchreiben, TbSchliessen DEF Tb!Schreibschritt
  <1>5. ASSUME NEW s \in Schreibende, Tb!Scheitern(s)
        PROVE  TelefonInv'
    <2>1. schreiber' = [t \in Schreibende |-> IF t \in {s} THEN Tb!Ruhe ELSE schreiber[t]]
      BY <1>5 DEF Tb!Scheitern, TelefonInv, TbTyp
    <2> QED
      BY <1>5, <2>1, TbEnden DEF Tb!Scheitern
  <1>6. CASE Tb!Neustart
    <2>1. schreiber' = [t \in Schreibende |->
                           IF t \in Schreibende THEN Tb!Ruhe ELSE schreiber[t]]
      BY <1>6 DEF Tb!Neustart, TelefonInv, TbTyp
    <2> QED
      BY <1>6, <2>1, TbEnden DEF Tb!Neustart
  <1> QED
    BY <1>1, <1>2, <1>4, <1>5, <1>6, <1>7, <1>8
    DEF Tb!Next, Tb!JobBeginnt, Tb!VonHand, Schreibende

\* A run of the writer that nobody came between leaves a phone book that can be
\* read, with every person there was when it began (updatePhoneBook), for any
\* number of writers, persons, changes, stops and failures.
THEOREM LaufGelingt == Tb!Spec => []StandDesLaufs
  <1>1. TelefonInv => StandDesLaufs
    <2> SUFFICES ASSUME TelefonInv, NEW s \in Schreibende, schreiber[s].pc = "schreiben",
                        schreiber[s].blocks = Tb!Blockzahl(schreiber[s].liste),
                        schreiber[s].allein
                 PROVE  /\ datei.inhalt = Tb!Inhalt(schreiber[s].liste)
                        /\ \A p \in Mitglied : schreiber[s].ab[p].da =>
                              \E n \in schreiber[s].ab[p].nr .. person[p].nr :
                                 <<p, n>> \in schreiber[s].liste
      BY DEF StandDesLaufs, Tb!StandDesLaufs, Schreibende
    <2>1. SchreiberStimmt(schreiber[s], person, datei.inhalt)
      BY DEF TelefonInv
    <2> QED
      BY <2>1 DEF SchreiberStimmt, Notiert, Tb!Inhalt
  <1> QED
    BY <1>1, TbAmAnfang, TbErhalten, PTL DEF Tb!Spec
---------------------------------------------------------------------------
(* Studies.  A page that nothing else happened beside has the session to    *)
(* itself, and so has the request sent from it.                             *)

Aktiv(t) == anfrage[t].pc # "frei"
RuhigBis(t) == \A u \in Tab : u # t => ~Aktiv(u)

StTyp ==
    /\ studium \subseteq St!Zeile
    /\ frisch \in Nat \ {0}
    /\ pid \in St!Niemand
    /\ tab \in [Tab -> St!Seite]
    /\ anfrage \in [Tab -> St!Vorgang]

Nummeriert ==
    /\ IsFiniteSet(studium)
    /\ \A z \in studium : z.id < frisch
    /\ \A y, z \in studium : y.id = z.id => y = z

\* s: a page, p: the person in the session.
SeiteStimmt(s, p) == s.form = "aendern" \/ s.soll # KeinePerson => p = s.soll

\* r: a request, p: the person in the session, st: the table.
AnfrageStimmt(r, p, st) ==
    LET soll == r.seite.soll
        verlangt == r.art # "save" \/ soll # KeinePerson
    IN  /\ r.seite.form = "aendern" <=> r.art # "save"
        /\ verlangt /\ r.pc \in {"schreiben", "pruefen", "zuordnen", "umleiten"} => p = soll
        /\ r.pc \in {"schreiben", "pruefen", "zuordnen", "umleiten"} => r.ziel = KeinePerson
        /\ verlangt /\ r.pc \in {"leeren", "fertig"} => r.ziel = soll
        /\ r.art = "save" /\ soll # KeinePerson =>
              /\ r.pc \in {"pruefen", "zuordnen"} =>
                    \E z \in st : z.id = r.seite.studie
              /\ r.pc \in {"umleiten", "leeren", "fertig"} =>
                    \E z \in st : z.id = r.seite.studie /\ z.person = soll

StudienInv ==
    /\ StTyp
    /\ Nummeriert
    /\ \A t \in Tab : tab[t].treu => (\A u \in Tab : ~Aktiv(u)) /\ SeiteStimmt(tab[t], pid)
    /\ \A t \in Tab : Aktiv(t) /\ anfrage[t].seite.treu =>
                         RuhigBis(t) /\ AnfrageStimmt(anfrage[t], pid, studium)

\* The person in the session stands for a study still to come, unless a request
\* has just entered her.
Vergeben == \E t \in Tab : anfrage[t].pc \in {"umleiten", "leeren"}
Guthaben(p) == IF pid = p /\ ~Vergeben THEN 1 ELSE 0
Studien(st, p) == {z \in st : z.person = p}

FormularInv ==
    /\ geoeffnet \in [Mitglied -> Nat]
    /\ nacheinander \in BOOLEAN
    /\ nacheinander =>
          /\ \A t \in Tab : Aktiv(t) => RuhigBis(t)
          /\ \A p \in Mitglied :
                Cardinality(Studien(studium, p)) + Guthaben(p) <= geoeffnet[p]

LEMMA StKardinal == ASSUME NEW S PROVE St!Cardinality(S) = Cardinality(S)
  BY Zenon DEF St!Cardinality, Cardinality

LEMMA StRuhe ==
    /\ St!LeereSeite \in St!Seite /\ St!LeereSeite.treu = FALSE
    /\ St!Ruhe \in St!Vorgang /\ St!Ruhe.pc = "frei" /\ St!Ruhe.ziel = KeinePerson
  <1>1. 0 \in 0 .. MaxStudien /\ KeinePerson \in St!Niemand
    BY NebenteileAssumption DEF St!Niemand
  <1>2. St!LeereSeite \in St!Seite /\ St!LeereSeite.treu = FALSE
    BY <1>1 DEF St!LeereSeite, St!Seite
  <1> QED
    BY <1>1, <1>2 DEF St!Ruhe, St!Vorgang

LEMMA StAmAnfang == St!Init => StudienInv /\ FormularInv
  <1> SUFFICES ASSUME St!Init PROVE StudienInv /\ FormularInv
    OBVIOUS
  <1> DEFINE erste(p) == [id |-> 1, person |-> p]
  <1>1. /\ studium = {} \/ \E p \in Mitglied : studium = {erste(p)}
        /\ frisch = Cardinality(studium) + 1 /\ pid = KeinePerson
        /\ tab = [t \in Tab |-> St!LeereSeite] /\ anfrage = [t \in Tab |-> St!Ruhe]
        /\ nacheinander = TRUE
        /\ geoeffnet = [p \in Mitglied |-> Cardinality(Studien(studium, p))]
    BY StKardinal DEF St!Init, Studien
  <1>2. \A p \in Mitglied : erste(p) \in St!Zeile /\ erste(p).id = 1
    BY NebenteileAssumption DEF St!Zeile, St!Niemand
  <1> HIDE DEF erste
  <1>3. studium \subseteq St!Zeile /\ frisch \in Nat \ {0} /\ Nummeriert
    <2>1. CASE studium = {}
      <3>1. frisch = 1 /\ IsFiniteSet(studium)
        BY <1>1, <2>1, FS_EmptySet
      <3> QED
        BY <2>1, <3>1 DEF Nummeriert
    <2>2. ASSUME NEW p \in Mitglied, studium = {erste(p)}
          PROVE  studium \subseteq St!Zeile /\ frisch \in Nat \ {0} /\ Nummeriert
      <3>1. Cardinality(studium) = 1 /\ IsFiniteSet(studium)
        BY <2>2, FS_Singleton
      <3>2. frisch = 2
        BY <1>1, <3>1
      <3> QED
        BY <1>2, <2>2, <3>1, <3>2 DEF Nummeriert
    <2> QED
      BY <1>1, <2>1, <2>2
  <1>4. \A t \in Tab : ~Aktiv(t) /\ tab[t].treu = FALSE
    BY <1>1, StRuhe DEF Aktiv
  <1>5. StTyp
    BY <1>1, <1>3, StRuhe DEF StTyp, St!Niemand
  <1>6. StudienInv
    BY <1>3, <1>4, <1>5 DEF StudienInv
  <1>7. \A p \in Mitglied : Cardinality(Studien(studium, p)) \in Nat /\ Guthaben(p) = 0
    <2>1. ASSUME NEW p \in Mitglied
          PROVE  Cardinality(Studien(studium, p)) \in Nat
      BY <1>3, FS_Subset, FS_CardinalityType DEF Studien, Nummeriert
    <2>2. \A p \in Mitglied : Guthaben(p) = 0
      BY <1>1, NebenteileAssumption DEF Guthaben
    <2> QED
      BY <2>1, <2>2
  <1>8. FormularInv
    BY <1>1, <1>4, <1>7 DEF FormularInv
  <1> QED
    BY <1>6, <1>8

\* What the user does in a tab is a disturbance to every other.
LEMMA StStoeren ==
    ASSUME StTyp, NEW t \in Tab
    PROVE  /\ DOMAIN St!Stoeren(t) = Tab
           /\ \A u \in Tab : /\ St!Stoeren(t)[u] \in St!Vorgang
                             /\ St!Stoeren(t)[u].pc = anfrage[u].pc
                             /\ u # t => St!Stoeren(t)[u].seite.treu = FALSE
  <1> DEFINE mit(v, b) == [v EXCEPT !.seite.treu = b]
  <1>1. \A v \in St!Vorgang, b \in BOOLEAN :
           /\ mit(v, b) \in St!Vorgang /\ mit(v, b).pc = v.pc /\ mit(v, b).seite.treu = b
    BY DEF St!Vorgang, St!Seite
  <1>2. \A u \in Tab : anfrage[u] \in St!Vorgang
    BY DEF StTyp
  <1>3. St!Stoeren(t) = [u \in Tab |-> mit(anfrage[u], anfrage[u].seite.treu /\ u = t)]
    BY DEF St!Stoeren
  <1> HIDE DEF mit
  <1> DEFINE wert(u) == anfrage[u].seite.treu /\ u = t
  <1>4. \A u \in Tab : wert(u) \in BOOLEAN /\ (u # t => wert(u) = FALSE)
    OBVIOUS
  <1>5. St!Stoeren(t) = [u \in Tab |-> mit(anfrage[u], wert(u))]
    BY <1>3
  <1> HIDE DEF wert
  <1> QED
    BY <1>1, <1>2, <1>4, <1>5


LEMMA StAuftreten ==
    ASSUME StudienInv, NEW t \in Tab, NEW s \in St!Seite, NEW r \in St!Vorgang,
           St!Auftreten(t, s), anfrage' = [St!Stoeren(t) EXCEPT ![t] = r],
           UNCHANGED <<studium, frisch>>, pid' \in St!Niemand,
           s.treu => St!Ruhig /\ r.pc = "frei" /\ SeiteStimmt(s, pid'),
           r.pc # "frei" /\ r.seite.treu => St!Ruhig /\ AnfrageStimmt(r, pid', studium)
    PROVE  StudienInv'
  <1> DEFINE fremd(v) == [v EXCEPT !.treu = FALSE]
  <1>1. \A v \in St!Seite : fremd(v) \in St!Seite /\ fremd(v).treu = FALSE
    BY DEF St!Seite
  <1>2. StTyp
    BY DEF StudienInv
  <1>3. tab' = [u \in Tab |-> IF u = t THEN s ELSE fremd(tab[u])]
    BY DEF St!Auftreten
  <1> HIDE DEF fremd
  <1>4. tab' \in [Tab -> St!Seite]
    BY <1>1, <1>2, <1>3 DEF StTyp
  <1>5. tab'[t] = s /\ \A u \in Tab : u # t => tab'[u].treu = FALSE
    BY <1>1, <1>2, <1>3 DEF StTyp
  <1>6. /\ anfrage'[t] = r
        /\ \A u \in Tab : u # t => /\ anfrage'[u] \in St!Vorgang
                                   /\ anfrage'[u].pc = anfrage[u].pc
                                   /\ anfrage'[u].seite.treu = FALSE
    <2> HIDE DEF St!Stoeren
    <2> QED
      BY <1>2, StStoeren
  <1>7. DOMAIN anfrage' = Tab
    BY <1>2, StStoeren
  <1>8. anfrage' \in [Tab -> St!Vorgang]
    <2>1. anfrage' = [u \in Tab |-> anfrage'[u]]
      BY <1>2, <1>7, StStoeren
    <2> QED
      BY <1>6, <2>1
  <1>9. StTyp' /\ Nummeriert'
    BY <1>4, <1>8 DEF StTyp, StudienInv, Nummeriert
  <1>10. ASSUME NEW u \in Tab, tab'[u].treu
         PROVE  (\A v \in Tab : ~Aktiv(v)') /\ SeiteStimmt(tab'[u], pid')
    BY <1>5, <1>6, <1>10 DEF Aktiv, St!Ruhig
  <1>11. ASSUME NEW u \in Tab, anfrage'[u].pc # "frei", anfrage'[u].seite.treu
         PROVE  RuhigBis(u)' /\ AnfrageStimmt(anfrage'[u], pid', studium')
    BY <1>6, <1>11 DEF RuhigBis, Aktiv, St!Ruhig
  <1> QED
    BY <1>9, <1>10, <1>11 DEF StudienInv, Aktiv

\* A step of the request of tab t.
LEMMA StSchritt ==
    ASSUME StudienInv, NEW t \in Tab, Aktiv(t), NEW r \in St!Vorgang,
           anfrage' = [anfrage EXCEPT ![t] = r], frisch' \in Nat \ {0}, pid' \in St!Niemand,
           studium' \subseteq St!Zeile, Nummeriert', tab' \in [Tab -> St!Seite],
           \A u \in Tab : u # t => tab'[u] = tab[u],
           \/ tab'[t] = tab[t]
           \/ r.pc = "frei" /\ tab'[t] = anfrage[t].seite
              /\ (tab'[t].treu => SeiteStimmt(tab'[t], pid')),
           r.pc # "frei" /\ r.seite.treu =>
               anfrage[t].seite.treu /\ AnfrageStimmt(r, pid', studium')
    PROVE  StudienInv'
  <1>1. StTyp
    BY DEF StudienInv
  <1>2. anfrage'[t] = r /\ \A u \in Tab : u # t => anfrage'[u] = anfrage[u]
    BY <1>1 DEF StTyp
  <1>3. anfrage' \in [Tab -> St!Vorgang]
    BY <1>1 DEF StTyp
  <1>4. \A u \in Tab : ~tab[u].treu
    BY DEF StudienInv
  <1>5. ASSUME NEW u \in Tab, u # t, Aktiv(u)
        PROVE  ~anfrage[u].seite.treu
    BY <1>5 DEF StudienInv, RuhigBis
  <1>6. ASSUME anfrage[t].seite.treu
        PROVE  RuhigBis(t)
    BY <1>6 DEF StudienInv
  <1>7. ASSUME NEW u \in Tab, tab'[u].treu
        PROVE  (\A v \in Tab : ~Aktiv(v)') /\ SeiteStimmt(tab'[u], pid')
    <2>1. u = t /\ r.pc = "frei" /\ anfrage[t].seite.treu /\ SeiteStimmt(tab'[t], pid')
      BY <1>4, <1>7
    <2> QED
      BY <1>2, <1>6, <2>1 DEF RuhigBis, Aktiv
  <1>8. ASSUME NEW u \in Tab, anfrage'[u].pc # "frei", anfrage'[u].seite.treu
        PROVE  RuhigBis(u)' /\ AnfrageStimmt(anfrage'[u], pid', studium')
    <2>1. u = t
      BY <1>2, <1>5, <1>8 DEF Aktiv
    <2> QED
      BY <1>2, <1>6, <1>8, <2>1 DEF RuhigBis, Aktiv
  <1>9. StTyp'
    BY <1>3 DEF StTyp
  <1> QED
    BY <1>7, <1>8, <1>9 DEF StudienInv, Aktiv

LEMMA StOeffnen ==
    ASSUME StudienInv, NEW t \in Tab, NEW p \in St!Niemand,
           St!Create(t, p) \/ \E z \in studium : St!Edit(t, z, p)
    PROVE  StudienInv'
  <1> DEFINE blatt(form, studie) == [form |-> form, studie |-> studie, soll |-> p,
                                     treu |-> St!Ruhig]
  <1>1. StTyp
    BY DEF StudienInv
  <1>2. \A form \in {"neu", "aendern"}, n \in 0 .. MaxStudien :
           /\ blatt(form, n) \in St!Seite /\ blatt(form, n).soll = p
           /\ blatt(form, n).form = form /\ (blatt(form, n).treu => St!Ruhig)
    BY DEF St!Seite, St!Ruhig
  <1> DEFINE r == St!Stoeren(t)[t]
  <1>3. r \in St!Vorgang /\ r.pc = anfrage[t].pc
    BY <1>1, StStoeren
  <1>4. St!Stoeren(t) = [St!Stoeren(t) EXCEPT ![t] = r]
    <2> HIDE DEF St!Stoeren
    <2>1. DOMAIN St!Stoeren(t) = Tab
      BY <1>1, StStoeren
    <2> QED
      BY <2>1 DEF St!Stoeren
  <1> HIDE DEF r, blatt
  <1>5. ASSUME St!Create(t, p)
        PROVE  StudienInv'
    <2>1. /\ r.pc = "frei" /\ pid' = (IF p = KeinePerson THEN pid ELSE p)
          /\ St!Auftreten(t, blatt("neu", 0)) /\ anfrage' = St!Stoeren(t)
          /\ UNCHANGED <<studium, frisch>>
      BY <1>3, <1>5 DEF St!Create, blatt
    <2>2. 0 \in 0 .. MaxStudien
      BY NebenteileAssumption
    <2>3. pid' \in St!Niemand
      BY <1>1, <2>1 DEF StTyp
    <2>4. SeiteStimmt(blatt("neu", 0), pid')
      BY <1>2, <2>1, <2>2 DEF SeiteStimmt
    <2> QED
      BY <1>2, <1>3, <1>4, <2>1, <2>2, <2>3, <2>4, StAuftreten
  <1>6. ASSUME NEW z \in studium, St!Edit(t, z, p)
        PROVE  StudienInv'
    <2>1. /\ r.pc = "frei" /\ pid' = p
          /\ St!Auftreten(t, blatt("aendern", z.id)) /\ anfrage' = St!Stoeren(t)
          /\ UNCHANGED <<studium, frisch>>
      BY <1>3, <1>6 DEF St!Edit, blatt
    <2>2. z.id \in 0 .. MaxStudien
      BY <1>1, NebenteileAssumption DEF StTyp, St!Zeile
    <2>3. SeiteStimmt(blatt("aendern", z.id), pid')
      BY <1>2, <2>1, <2>2 DEF SeiteStimmt
    <2> QED
      BY <1>2, <1>3, <1>4, <2>1, <2>2, <2>3, StAuftreten
  <1> QED
    BY <1>5, <1>6

LEMMA StAbsenden ==
    ASSUME StudienInv, NEW t \in Tab, NEW art \in {"save", "update", "delete"},
           NEW g \in BOOLEAN, St!Absenden(t, art, g)
    PROVE  StudienInv' /\ anfrage'[t].pc = "schreiben"
  <1> DEFINE treu(b) == [tab[t] EXCEPT !.treu = b]
             blatt == treu(tab[t].treu /\ St!Ruhig)
             mit(v) == [St!Ruhe EXCEPT !.pc = "schreiben", !.art = art, !.gueltig = g,
                                       !.seite = v]
  <1>1. StTyp
    BY DEF StudienInv
  <1>2. /\ tab[t].form = (IF art = "save" THEN "neu" ELSE "aendern")
        /\ anfrage' = [St!Stoeren(t) EXCEPT ![t] = mit(blatt)]
        /\ St!Auftreten(t, St!LeereSeite) /\ UNCHANGED <<studium, frisch, pid>>
    BY DEF St!Absenden
  <1>3. \A b \in BOOLEAN : /\ treu(b) \in St!Seite /\ treu(b).treu = b
                           /\ treu(b).form = tab[t].form /\ treu(b).soll = tab[t].soll
    BY <1>1 DEF StTyp, St!Seite
  <1>4. /\ blatt \in St!Seite /\ (blatt.treu => tab[t].treu /\ St!Ruhig)
        /\ blatt.form = tab[t].form /\ blatt.soll = tab[t].soll
    <2> DEFINE b == tab[t].treu /\ St!Ruhig
    <2>1. b \in BOOLEAN /\ (b => tab[t].treu /\ St!Ruhig)
      OBVIOUS
    <2> HIDE DEF b, treu
    <2>2. blatt = treu(b)
      BY DEF b
    <2> QED
      BY <1>3, <2>1, <2>2
  <1>5. \A v \in St!Seite :
           /\ mit(v) \in St!Vorgang /\ mit(v).pc = "schreiben" /\ mit(v).art = art
           /\ mit(v).seite = v /\ mit(v).ziel = KeinePerson
    BY StRuhe DEF St!Ruhe, St!Vorgang, St!Niemand
  <1> HIDE DEF blatt, mit, treu
  <1>6. ASSUME blatt.treu
        PROVE  AnfrageStimmt(mit(blatt), pid, studium)
    <2>1. SeiteStimmt(tab[t], pid)
      BY <1>4, <1>6 DEF StudienInv
    <2>2. \A v \in St!Seite : v = blatt => AnfrageStimmt(mit(v), pid, studium)
      BY <1>2, <1>4, <1>5, <2>1 DEF AnfrageStimmt, SeiteStimmt
    <2> QED
      BY <1>4, <2>2
  <1>7. StudienInv'
    BY <1>1, <1>2, <1>4, <1>5, <1>6, StRuhe, StAuftreten DEF StTyp
  <1>8. anfrage'[t].pc = "schreiben"
    BY <1>1, <1>2, <1>4, <1>5, StStoeren
  <1> QED
    BY <1>7, <1>8

StStelle == {"frei", "schreiben", "pruefen", "zuordnen", "umleiten", "leeren", "fertig"}
StNach(v, c) == [v EXCEPT !.pc = c]

LEMMA StNachher ==
    ASSUME NEW v \in St!Vorgang, NEW c \in StStelle
    PROVE  /\ StNach(v, c) \in St!Vorgang /\ StNach(v, c).pc = c
           /\ StNach(v, c).art = v.art /\ StNach(v, c).seite = v.seite
           /\ StNach(v, c).ziel = v.ziel
  BY DEF StNach, St!Vorgang, StStelle

\* A step of the request that leaves the page, and whose row it is, alone.
LEMMA StNurWeiter ==
    ASSUME StudienInv, NEW t \in Tab, Aktiv(t), NEW r \in St!Vorgang, St!Weiter(t, r),
           UNCHANGED <<studium, frisch, tab>>, pid' \in St!Niemand,
           r.seite = anfrage[t].seite,
           AnfrageStimmt(anfrage[t], pid, studium) => AnfrageStimmt(r, pid', studium)
    PROVE  StudienInv'
  <1>1. StTyp /\ Nummeriert
    BY DEF StudienInv
  <1>2. Nummeriert'
    BY <1>1 DEF Nummeriert
  <1>3. anfrage[t].seite.treu => AnfrageStimmt(anfrage[t], pid, studium)
    BY DEF StudienInv
  <1>4. anfrage' = [anfrage EXCEPT ![t] = r]
    BY DEF St!Weiter
  <1>5. frisch' \in Nat \ {0} /\ studium' \subseteq St!Zeile /\ tab' \in [Tab -> St!Seite]
    BY <1>1 DEF StTyp
  <1>6. r.pc # "frei" /\ r.seite.treu =>
           anfrage[t].seite.treu /\ AnfrageStimmt(r, pid', studium')
    BY <1>3
  <1> QED
    BY <1>2, <1>4, <1>5, <1>6, StSchritt

LEMMA StPruefen ==
    ASSUME StudienInv, NEW t \in Tab, St!Pruefen(t)
    PROVE  StudienInv'
  <1> DEFINE v == anfrage[t]
             c == IF pid = KeinePerson THEN "fertig"
                  ELSE IF v.art = "save" THEN "zuordnen" ELSE "umleiten"
  <1>1. /\ v.pc = "pruefen" /\ St!Weiter(t, StNach(v, c))
        /\ UNCHANGED <<studium, frisch, pid, tab>>
    BY DEF St!Pruefen, St!Nach, StNach
  <1>2. v \in St!Vorgang /\ c \in StStelle /\ pid \in St!Niemand
    BY DEF StudienInv, StTyp, StStelle
  <1> DEFINE r == StNach(v, c)
  <1>3. r \in St!Vorgang /\ r.pc = c /\ r.art = v.art /\ r.seite = v.seite /\ r.ziel = v.ziel
    BY <1>2, StNachher
  <1>4. c # "frei" /\ c # "schreiben" /\ c # "pruefen" /\ c # "leeren"
    OBVIOUS
  <1>5. /\ c = "fertig" => pid = KeinePerson
        /\ c = "zuordnen" => v.art = "save" /\ pid # KeinePerson
        /\ c = "umleiten" => v.art # "save" /\ pid # KeinePerson
    OBVIOUS
  <1> HIDE DEF v, c, r
  <1>6. AnfrageStimmt(v, pid, studium) => AnfrageStimmt(r, pid, studium)
    BY <1>1, <1>3, <1>4, <1>5 DEF AnfrageStimmt
  <1>7. Aktiv(t)
    BY <1>1 DEF Aktiv, v
  <1>8. AnfrageStimmt(anfrage[t], pid, studium) => AnfrageStimmt(r, pid', studium)
    BY <1>1, <1>6 DEF v
  <1> QED
    BY <1>1, <1>2, <1>3, <1>7, <1>8, StNurWeiter DEF r, v

LEMMA StUmleiten ==
    ASSUME StudienInv, NEW t \in Tab, St!Umleiten(t)
    PROVE  StudienInv'
  <1> DEFINE v == anfrage[t]
             r == [v EXCEPT !.pc = "leeren", !.ziel = pid]
  <1>1. /\ v.pc = "umleiten" /\ St!Weiter(t, r) /\ UNCHANGED <<studium, frisch, pid, tab>>
    BY DEF St!Umleiten
  <1>2. v \in St!Vorgang /\ pid \in St!Niemand
    BY DEF StudienInv, StTyp
  <1> HIDE DEF v
  <1>3. /\ r \in St!Vorgang /\ r.pc = "leeren" /\ r.art = v.art /\ r.seite = v.seite
        /\ r.ziel = pid
    BY <1>2 DEF St!Vorgang
  <1> HIDE DEF r
  <1>4. AnfrageStimmt(v, pid, studium) => AnfrageStimmt(r, pid, studium)
    BY <1>1, <1>3 DEF AnfrageStimmt
  <1>5. Aktiv(t)
    BY <1>1 DEF Aktiv, v
  <1>6. AnfrageStimmt(anfrage[t], pid, studium) => AnfrageStimmt(r, pid', studium)
    BY <1>1, <1>4 DEF v
  <1> QED
    BY <1>1, <1>2, <1>3, <1>5, <1>6, StNurWeiter DEF v

LEMMA StLeeren ==
    ASSUME StudienInv, NEW t \in Tab, St!Leeren(t)
    PROVE  StudienInv'
  <1> DEFINE v == anfrage[t]
             r == StNach(v, "fertig")
  <1>1. /\ v.pc = "leeren" /\ St!Weiter(t, r) /\ UNCHANGED <<studium, frisch, tab>>
        /\ pid' = KeinePerson
    BY DEF St!Leeren, St!Nach, StNach
  <1>2. v \in St!Vorgang /\ pid' \in St!Niemand
    BY <1>1 DEF StudienInv, StTyp, St!Niemand
  <1>3. r \in St!Vorgang /\ r.pc = "fertig" /\ r.art = v.art /\ r.seite = v.seite /\ r.ziel = v.ziel
    BY <1>2, StNachher DEF StStelle
  <1> HIDE DEF v, r
  <1>4. AnfrageStimmt(v, pid, studium) => AnfrageStimmt(r, KeinePerson, studium)
    BY <1>1, <1>3 DEF AnfrageStimmt
  <1>5. Aktiv(t)
    BY <1>1 DEF Aktiv, v
  <1>6. AnfrageStimmt(anfrage[t], pid, studium) => AnfrageStimmt(r, pid', studium)
    BY <1>1, <1>4 DEF v
  <1> QED
    BY <1>1, <1>2, <1>3, <1>5, <1>6, StNurWeiter DEF v

\* The request ends, and its page may be shown again.
LEMMA StEnden ==
    ASSUME StudienInv, NEW t \in Tab,
           St!NichtSchreiben(t) \/ St!Antworten(t)
    PROVE  StudienInv'
  <1> DEFINE v == anfrage[t]
  <1>1. /\ v.pc = "schreiben" \/ v.pc = "fertig"
        /\ anfrage' = [anfrage EXCEPT ![t] = St!Ruhe]
        /\ UNCHANGED <<studium, frisch, pid>>
        /\ \/ tab' = tab
           \/ v.pc = "schreiben" /\ tab' = [tab EXCEPT ![t] = v.seite]
    BY DEF St!NichtSchreiben, St!Antworten, St!Weiter
  <1>2. StTyp /\ Nummeriert
    BY DEF StudienInv
  <1>3. v \in St!Vorgang /\ v.seite \in St!Seite
    BY <1>2 DEF StTyp, St!Vorgang
  <1>4. /\ tab' \in [Tab -> St!Seite] /\ \A u \in Tab : u # t => tab'[u] = tab[u]
        /\ \/ tab'[t] = tab[t]
           \/ v.pc = "schreiben" /\ tab'[t] = v.seite
    BY <1>1, <1>2, <1>3 DEF StTyp
  <1>5. Aktiv(t)
    BY <1>1 DEF Aktiv
  <1>6. v.seite.treu => AnfrageStimmt(v, pid, studium)
    BY <1>5 DEF StudienInv
  <1>7. AnfrageStimmt(v, pid, studium) /\ v.pc = "schreiben" => SeiteStimmt(v.seite, pid)
    BY DEF AnfrageStimmt, SeiteStimmt
  <1>8. Nummeriert'
    BY <1>1, <1>2 DEF Nummeriert
  <1>9. /\ frisch' \in Nat \ {0} /\ pid' \in St!Niemand /\ studium' \subseteq St!Zeile
    BY <1>1, <1>2 DEF StTyp
  <1>10. \/ tab'[t] = tab[t]
         \/ St!Ruhe.pc = "frei" /\ tab'[t] = anfrage[t].seite
            /\ (tab'[t].treu => SeiteStimmt(tab'[t], pid'))
    BY <1>1, <1>4, <1>6, <1>7, StRuhe
  <1> QED
    BY <1>1, <1>4, <1>5, <1>8, <1>9, <1>10, StRuhe, StSchritt

LEMMA StSchreiben ==
    ASSUME StudienInv, NEW t \in Tab, St!Schreiben(t)
    PROVE  StudienInv'
  <1> DEFINE v == anfrage[t]
             neu == [id |-> frisch, person |-> KeinePerson]
             r == [v EXCEPT !.pc = "pruefen", !.seite.studie = frisch]
  <1>1. v.pc = "schreiben" /\ UNCHANGED <<pid, tab>>
    BY DEF St!Schreiben
  <1>2. StTyp /\ Nummeriert /\ v \in St!Vorgang
    BY DEF StudienInv, StTyp
  <1>3. Aktiv(t)
    BY <1>1 DEF Aktiv
  <1>4. pid' \in St!Niemand /\ tab' \in [Tab -> St!Seite]
        /\ \A u \in Tab : tab'[u] = tab[u]
    BY <1>1, <1>2 DEF StTyp
  <1>5. v.seite.treu => AnfrageStimmt(v, pid, studium)
    BY <1>3 DEF StudienInv
  <1>6. ASSUME v.art = "save", frisch <= MaxStudien, studium' = studium \cup {neu},
               frisch' = frisch + 1, St!Weiter(t, r)
        PROVE  StudienInv'
    <2>1. frisch \in 1 .. MaxStudien /\ frisch \in 0 .. MaxStudien
      BY <1>2, <1>6, NebenteileAssumption DEF StTyp
    <2>2. neu \in St!Zeile /\ neu.id = frisch
      BY <2>1 DEF St!Zeile, St!Niemand
    <2> HIDE DEF neu
    <2>3. studium' \subseteq St!Zeile /\ frisch' \in Nat \ {0}
      BY <1>2, <1>6, <2>2 DEF StTyp
    <2>4. Nummeriert'
      <3>1. IsFiniteSet(studium')
        BY <1>2, <1>6, FS_AddElement DEF Nummeriert
      <3>2. \A z \in studium : z.id \in Nat /\ z.id < frisch
        BY <1>2 DEF Nummeriert, StTyp, St!Zeile
      <3>3. \A z \in studium' : z.id < frisch'
        BY <1>2, <1>6, <2>2, <3>2 DEF StTyp
      <3>4. \A y, z \in studium' : y.id = z.id => y = z
        <4>1. neu.id = frisch /\ frisch \in Nat
          BY <1>2, <2>2 DEF StTyp
        <4>2. \A z \in studium : z.id # neu.id
          BY <3>2, <4>1
        <4> QED
          BY <1>2, <1>6, <4>2 DEF Nummeriert
      <3> QED
        BY <3>1, <3>3, <3>4 DEF Nummeriert
    <2> HIDE DEF v
    <2>5. /\ r \in St!Vorgang /\ r.pc = "pruefen" /\ r.art = v.art /\ r.ziel = v.ziel
          /\ r.seite.studie = frisch /\ r.seite.form = v.seite.form
          /\ r.seite.soll = v.seite.soll /\ r.seite.treu = v.seite.treu
      BY <1>2, <2>1 DEF St!Vorgang, St!Seite
    <2> HIDE DEF r
    <2>6. AnfrageStimmt(v, pid, studium) => AnfrageStimmt(r, pid, studium')
      <3>1. \E z \in studium' : z.id = r.seite.studie
        BY <1>6, <2>2, <2>5
      <3> QED
        BY <1>1, <2>5, <3>1 DEF AnfrageStimmt
    <2>7. r.pc # "frei" /\ r.seite.treu =>
             anfrage[t].seite.treu /\ AnfrageStimmt(r, pid', studium')
      BY <1>1, <1>5, <2>5, <2>6 DEF v
    <2>8. anfrage' = [anfrage EXCEPT ![t] = r]
      BY <1>6 DEF St!Weiter
    <2> QED
      BY <1>3, <1>4, <2>3, <2>4, <2>5, <2>7, <2>8, StSchritt
  <1> DEFINE w == StNach(v, "pruefen")
  <1>7. ASSUME v.art # "save", frisch' = frisch, studium' \subseteq studium,
               St!Weiter(t, w)
        PROVE  StudienInv'
    <2>1. studium' \subseteq St!Zeile /\ frisch' \in Nat \ {0}
      BY <1>2, <1>7 DEF StTyp
    <2>2. Nummeriert'
      <3>1. IsFiniteSet(studium')
        BY <1>2, <1>7, FS_Subset DEF Nummeriert
      <3> QED
        BY <1>2, <1>7, <3>1 DEF Nummeriert
    <2>3. /\ w \in St!Vorgang /\ w.pc = "pruefen" /\ w.art = v.art /\ w.seite = v.seite
          /\ w.ziel = v.ziel
      BY <1>2, StNachher DEF StStelle
    <2> HIDE DEF v, w
    <2>4. AnfrageStimmt(v, pid, studium) => AnfrageStimmt(w, pid, studium')
      BY <1>1, <1>7, <2>3 DEF AnfrageStimmt
    <2>5. w.pc # "frei" /\ w.seite.treu =>
             anfrage[t].seite.treu /\ AnfrageStimmt(w, pid', studium')
      BY <1>1, <1>5, <2>3, <2>4 DEF v
    <2>6. anfrage' = [anfrage EXCEPT ![t] = w]
      BY <1>7 DEF St!Weiter
    <2> QED
      BY <1>3, <1>4, <2>1, <2>2, <2>3, <2>5, <2>6, StSchritt
  <1>8. \/ /\ v.art = "save" /\ frisch <= MaxStudien /\ studium' = studium \cup {neu}
           /\ frisch' = frisch + 1 /\ St!Weiter(t, r)
        \/ /\ v.art # "save" /\ frisch' = frisch /\ studium' \subseteq studium
           /\ St!Weiter(t, w)
    BY DEF St!Schreiben, St!Nach, StNach
  <1> QED
    BY <1>6, <1>7, <1>8

\* The rows after a person was entered into one.
LEMMA StZugeordnet ==
    ASSUME StTyp, Nummeriert, NEW i \in 0 .. MaxStudien,
           studium' = {IF z.id = i THEN [z EXCEPT !.person = pid] ELSE z : z \in studium},
           frisch' = frisch
    PROVE  /\ studium' \subseteq St!Zeile /\ Nummeriert'
           /\ studium' \subseteq studium \cup {[id |-> i, person |-> pid]}
           /\ \A z \in studium : z.id = i => \E y \in studium' : y.id = i /\ y.person = pid
  <1> DEFINE bild(z) == IF z.id = i THEN [z EXCEPT !.person = pid] ELSE z
             neu == [id |-> i, person |-> pid]
  <1>1. pid \in St!Niemand /\ studium \subseteq St!Zeile
    BY DEF StTyp
  <1>2. \A z \in St!Zeile : /\ bild(z) \in St!Zeile /\ bild(z).id = z.id
                            /\ bild(z) = IF z.id = i THEN neu ELSE z
    BY <1>1 DEF St!Zeile
  <1>3. studium' = {bild(z) : z \in studium}
    OBVIOUS
  <1>4. neu.id = i /\ neu.person = pid
    OBVIOUS
  <1> HIDE DEF bild, neu
  <1>5. studium' \subseteq St!Zeile /\ studium' \subseteq studium \cup {neu}
    BY <1>1, <1>2, <1>3
  <1>6. IsFiniteSet(studium')
    <2>1. IsFiniteSet(studium \cup {neu})
      BY FS_AddElement DEF Nummeriert
    <2> QED
      BY <1>5, <2>1, FS_Subset
  <1>7. \A y \in studium' : \E z \in studium : y = bild(z) /\ y.id = z.id
    BY <1>1, <1>2, <1>3
  <1>8. Nummeriert'
    <2>1. \A y \in studium' : y.id < frisch'
      BY <1>7 DEF Nummeriert
    <2>2. \A y, z \in studium' : y.id = z.id => y = z
      BY <1>7 DEF Nummeriert
    <2> QED
      BY <1>6, <2>1, <2>2 DEF Nummeriert
  <1>9. ASSUME NEW z \in studium, z.id = i
        PROVE  \E y \in studium' : y.id = i /\ y.person = pid
    <2>1. bild(z) = neu /\ bild(z) \in studium'
      BY <1>1, <1>2, <1>3, <1>9
    <2> QED
      BY <1>4, <2>1
  <1> QED
    BY <1>5, <1>8, <1>9 DEF neu

LEMMA StZuordnen ==
    ASSUME StudienInv, NEW t \in Tab, St!Zuordnen(t)
    PROVE  StudienInv'
  <1> DEFINE v == anfrage[t]
             i == v.seite.studie
             r == StNach(v, "umleiten")
  <1>1. /\ v.pc = "zuordnen" /\ St!Weiter(t, r) /\ UNCHANGED <<frisch, pid, tab>>
        /\ studium' = {IF z.id = i THEN [z EXCEPT !.person = pid] ELSE z : z \in studium}
    BY DEF St!Zuordnen, St!Nach, StNach
  <1>2. StTyp /\ Nummeriert /\ v \in St!Vorgang
    BY DEF StudienInv, StTyp
  <1>3. i \in 0 .. MaxStudien
    BY <1>2 DEF St!Vorgang, St!Seite
  <1>4. r \in St!Vorgang /\ r.pc = "umleiten" /\ r.art = v.art /\ r.seite = v.seite /\ r.ziel = v.ziel
    BY <1>2, StNachher DEF StStelle
  <1> HIDE DEF r
  <1>5. /\ studium' \subseteq St!Zeile /\ Nummeriert'
        /\ \A z \in studium : z.id = i => \E y \in studium' : y.id = i /\ y.person = pid
    BY <1>1, <1>2, <1>3, StZugeordnet
  <1>6. Aktiv(t)
    BY <1>1 DEF Aktiv
  <1>7. v.seite.treu => AnfrageStimmt(v, pid, studium)
    BY <1>6 DEF StudienInv
  <1> HIDE DEF v
  <1>8. AnfrageStimmt(v, pid, studium) => AnfrageStimmt(r, pid, studium')
    BY <1>1, <1>4, <1>5 DEF AnfrageStimmt
  <1>9. r.pc # "frei" /\ r.seite.treu =>
           anfrage[t].seite.treu /\ AnfrageStimmt(r, pid', studium')
    BY <1>1, <1>4, <1>7, <1>8 DEF v
  <1>10. anfrage' = [anfrage EXCEPT ![t] = r]
    BY <1>1 DEF St!Weiter
  <1>11. /\ frisch' \in Nat \ {0} /\ pid' \in St!Niemand /\ tab' \in [Tab -> St!Seite]
         /\ \A u \in Tab : tab'[u] = tab[u]
    BY <1>1, <1>2 DEF StTyp
  <1> QED
    BY <1>4, <1>5, <1>6, <1>9, <1>10, <1>11, StSchritt

LEMMA StNeustart ==
    ASSUME StudienInv, St!Neustart
    PROVE  StudienInv' /\ (\A t \in Tab : anfrage'[t].pc = "frei")
  <1> DEFINE fremd(v) == [v EXCEPT !.treu = FALSE]
  <1>1. \A v \in St!Seite : fremd(v) \in St!Seite /\ fremd(v).treu = FALSE
    BY DEF St!Seite
  <1>2. StTyp /\ Nummeriert
    BY DEF StudienInv
  <1>3. /\ tab' = [t \in Tab |-> fremd(tab[t])] /\ anfrage' = [t \in Tab |-> St!Ruhe]
        /\ pid' = KeinePerson /\ UNCHANGED <<studium, frisch>>
    BY DEF St!Neustart
  <1> HIDE DEF fremd
  <1>4. tab' \in [Tab -> St!Seite] /\ \A t \in Tab : tab'[t].treu = FALSE
    BY <1>1, <1>2, <1>3 DEF StTyp
  <1>5. anfrage' \in [Tab -> St!Vorgang] /\ \A t \in Tab : anfrage'[t].pc = "frei"
    BY <1>3, StRuhe
  <1>6. StTyp' /\ Nummeriert'
    BY <1>2, <1>3, <1>4, <1>5 DEF StTyp, Nummeriert, St!Niemand
  <1> QED
    BY <1>4, <1>5, <1>6 DEF StudienInv, Aktiv

LEMMA StErhalten == StudienInv /\ [St!Next]_(St!vars) => StudienInv'
  <1> SUFFICES ASSUME StudienInv, [St!Next]_(St!vars) PROVE StudienInv'
    OBVIOUS
  <1>1. CASE UNCHANGED St!vars
    BY <1>1 DEF St!vars, StudienInv, StTyp, Nummeriert, Aktiv, RuhigBis
  <1>2. CASE St!Next
    BY <1>2, StOeffnen, StAbsenden, StSchreiben, StEnden, StPruefen, StZuordnen,
       StUmleiten, StLeeren, StNeustart
    DEF St!Next
  <1> QED
    BY <1>1, <1>2

\* The row a form was sent for is entered for the person whose link opened it,
\* and the user returns to her (save, update and delete of StudiumController).
THEOREM StudiumGehoertDerPerson == St!Spec => []StudiumGehoertZuPerson
  <1>1. StudienInv => StudiumGehoertZuPerson
    BY DEF StudienInv, AnfrageStimmt, StudiumGehoertZuPerson, St!StudiumGehoertZuPerson,
           Aktiv
  <1> QED
    BY <1>1, StAmAnfang, StErhalten, PTL DEF St!Spec

---------------------------------------------------------------------------
(* How many studies a person has.                                           *)

StEingetragen == {"umleiten", "leeren"}
StOffen(p, q, c) == IF p = q /\ c \notin StEingetragen THEN 1 ELSE 0

LEMMA StZahl ==
    ASSUME NEW st, IsFiniteSet(st), NEW p
    PROVE  IsFiniteSet(Studien(st, p)) /\ Cardinality(Studien(st, p)) \in Nat
  <1>1. Studien(st, p) \in SUBSET st
    BY DEF Studien
  <1>2. IsFiniteSet(Studien(st, p))
    BY <1>1, FS_Subset
  <1> QED
    BY <1>2, FS_CardinalityType

LEMMA StWeniger ==
    ASSUME NEW st, IsFiniteSet(st), NEW nachher, NEW p,
           Studien(nachher, p) \subseteq Studien(st, p)
    PROVE  /\ Cardinality(Studien(nachher, p)) \in Nat
           /\ Cardinality(Studien(nachher, p)) <= Cardinality(Studien(st, p))
  <1>1. IsFiniteSet(Studien(st, p))
    BY StZahl
  <1>2. /\ IsFiniteSet(Studien(nachher, p))
        /\ Cardinality(Studien(nachher, p)) <= Cardinality(Studien(st, p))
    BY <1>1, FS_Subset
  <1> QED
    BY <1>2, FS_CardinalityType

\* With one request at a time: what it enters, it takes from the session.
LEMMA StFormularSchritt ==
    ASSUME StTyp, IsFiniteSet(studium), FormularInv, NEW t \in Tab, Aktiv(t),
           NEW r, anfrage' = [anfrage EXCEPT ![t] = r],
           UNCHANGED <<geoeffnet, nacheinander>>, IsFiniteSet(studium'),
           \A p \in Mitglied :
              Cardinality(Studien(studium', p)) + StOffen(pid', p, r.pc)
                 <= Cardinality(Studien(studium, p)) + StOffen(pid, p, anfrage[t].pc)
    PROVE  FormularInv'
  <1>1. anfrage'[t] = r /\ \A u \in Tab : u # t => anfrage'[u] = anfrage[u]
    BY DEF StTyp
  <1> SUFFICES ASSUME nacheinander
               PROVE  /\ \A u \in Tab : anfrage'[u].pc # "frei" => RuhigBis(u)'
                      /\ \A p \in Mitglied :
                            Cardinality(Studien(studium', p)) + Guthaben(p)' <= geoeffnet[p]
    BY DEF FormularInv, Aktiv
  <1>2. \A u \in Tab : u # t => anfrage[u].pc = "frei"
    BY DEF FormularInv, RuhigBis, Aktiv
  <1>3. \A u \in Tab : anfrage'[u].pc # "frei" => RuhigBis(u)'
    BY <1>1, <1>2 DEF RuhigBis, Aktiv
  <1>4. Vergeben <=> anfrage[t].pc \in StEingetragen
    BY <1>2 DEF Vergeben, StEingetragen
  <1>5. Vergeben' <=> r.pc \in StEingetragen
    BY <1>1, <1>2 DEF Vergeben, StEingetragen
  <1>6. ASSUME NEW p \in Mitglied
        PROVE  Cardinality(Studien(studium', p)) + Guthaben(p)' <= geoeffnet[p]
    <2>1. /\ Guthaben(p) = StOffen(pid, p, anfrage[t].pc)
          /\ Guthaben(p)' = StOffen(pid', p, r.pc)
      BY <1>4, <1>5 DEF Guthaben, StOffen
    <2>2. /\ Cardinality(Studien(studium', p)) \in Nat
          /\ Cardinality(Studien(studium, p)) \in Nat
      BY StZahl
    <2>3. /\ geoeffnet[p] \in Nat
          /\ Cardinality(Studien(studium, p)) + Guthaben(p) <= geoeffnet[p]
      BY DEF FormularInv
    <2>4. /\ StOffen(pid, p, anfrage[t].pc) \in Nat
          /\ StOffen(pid', p, r.pc) \in Nat
      BY DEF StOffen
    <2>5. Cardinality(Studien(studium', p)) + StOffen(pid', p, r.pc)
             <= Cardinality(Studien(studium, p)) + StOffen(pid, p, anfrage[t].pc)
      OBVIOUS
    <2> QED
      BY <2>1, <2>2, <2>3, <2>4, <2>5
  <1> QED
    BY <1>3, <1>6

\* What the user does counts only if no request is under way.
LEMMA StFormularAuftritt ==
    ASSUME StTyp, IsFiniteSet(studium), FormularInv, studium' = studium,
           nacheinander' = (nacheinander /\ St!Ruhig),
           St!Ruhig =>
              /\ \A u \in Tab : anfrage'[u].pc \in {"frei", "schreiben"}
              /\ \A u, v \in Tab : anfrage'[u].pc # "frei" /\ anfrage'[v].pc # "frei" => u = v,
           geoeffnet' \in [Mitglied -> Nat],
           \A p \in Mitglied :
              geoeffnet[p] + (IF pid' = p THEN 1 ELSE 0)
                 <= geoeffnet'[p] + (IF pid = p THEN 1 ELSE 0)
    PROVE  FormularInv'
  <1>1. nacheinander' \in BOOLEAN
    OBVIOUS
  <1> SUFFICES ASSUME nacheinander'
               PROVE  /\ \A u \in Tab : anfrage'[u].pc # "frei" => RuhigBis(u)'
                      /\ \A p \in Mitglied :
                            Cardinality(Studien(studium, p)) + Guthaben(p)' <= geoeffnet'[p]
    BY <1>1 DEF FormularInv, Aktiv
  <1>2. nacheinander /\ St!Ruhig
    OBVIOUS
  <1>3. \A u \in Tab : anfrage'[u].pc # "frei" => RuhigBis(u)'
    BY <1>2 DEF RuhigBis, Aktiv
  <1>4. ~Vergeben /\ ~Vergeben'
    BY <1>2 DEF Vergeben, St!Ruhig
  <1>5. ASSUME NEW p \in Mitglied
        PROVE  Cardinality(Studien(studium, p)) + Guthaben(p)' <= geoeffnet'[p]
    <2>1. /\ Guthaben(p) = (IF pid = p THEN 1 ELSE 0)
          /\ Guthaben(p)' = (IF pid' = p THEN 1 ELSE 0)
      BY <1>4 DEF Guthaben
    <2>2. Cardinality(Studien(studium, p)) \in Nat
      BY StZahl
    <2>3. /\ geoeffnet[p] \in Nat /\ geoeffnet'[p] \in Nat
          /\ Cardinality(Studien(studium, p)) + Guthaben(p) <= geoeffnet[p]
      BY <1>2 DEF FormularInv
    <2> QED
      BY <2>1, <2>2, <2>3
  <1> QED
    BY <1>3, <1>5

LEMMA StFormularOeffnen ==
    ASSUME StudienInv, FormularInv, NEW t \in Tab, NEW p \in St!Niemand,
           St!Create(t, p) \/ \E z \in studium : St!Edit(t, z, p)
    PROVE  FormularInv'
  <1>1. StTyp /\ IsFiniteSet(studium)
    BY DEF StudienInv, Nummeriert
  <1>2. /\ pid' = p \/ (p = KeinePerson /\ pid' = pid)
        /\ studium' = studium /\ nacheinander' = (nacheinander /\ St!Ruhig)
        /\ anfrage' = St!Stoeren(t)
        /\ geoeffnet' = [q \in Mitglied |-> geoeffnet[q] + IF q = p THEN 1 ELSE 0]
    BY DEF St!Create, St!Edit, St!Auftreten
  <1>3. \A u \in Tab : anfrage'[u].pc = anfrage[u].pc
    <2> HIDE DEF St!Stoeren
    <2> QED
      BY <1>1, <1>2, StStoeren
  <1>4. St!Ruhig => \A u \in Tab : anfrage'[u].pc = "frei"
    BY <1>3 DEF St!Ruhig
  <1>5. \A q \in Mitglied : geoeffnet[q] \in Nat /\ q # KeinePerson
    BY NebenteileAssumption DEF FormularInv
  <1>6. geoeffnet' \in [Mitglied -> Nat]
    BY <1>2, <1>5
  <1>7. \A q \in Mitglied :
           geoeffnet[q] + (IF pid' = q THEN 1 ELSE 0)
              <= geoeffnet'[q] + (IF pid = q THEN 1 ELSE 0)
    <2>1. CASE pid' = p
      BY <1>2, <1>5, <2>1
    <2>2. CASE p = KeinePerson /\ pid' = pid
      BY <1>2, <1>5, <2>2
    <2> QED
      BY <1>2, <2>1, <2>2
  <1> QED
    BY <1>1, <1>2, <1>4, <1>6, <1>7, StFormularAuftritt

LEMMA StFormularAbsenden ==
    ASSUME StudienInv, FormularInv, NEW t \in Tab, NEW art \in {"save", "update", "delete"},
           NEW g \in BOOLEAN, St!Absenden(t, art, g)
    PROVE  FormularInv'
  <1>1. StTyp /\ IsFiniteSet(studium)
    BY DEF StudienInv, Nummeriert
  <1>2. UNCHANGED <<studium, pid, geoeffnet>> /\ nacheinander' = (nacheinander /\ St!Ruhig)
    BY DEF St!Absenden, St!Auftreten
  <1>3. anfrage'[t].pc = "schreiben"
    BY StAbsenden
  <1>4. PICK r : anfrage' = [St!Stoeren(t) EXCEPT ![t] = r]
    BY DEF St!Absenden
  <1>5. \A u \in Tab : u # t => anfrage'[u].pc = anfrage[u].pc
    <2> HIDE DEF St!Stoeren
    <2> QED
      BY <1>1, <1>4, StStoeren
  <1>6. St!Ruhig => \A u \in Tab : u # t => anfrage'[u].pc = "frei"
    BY <1>5 DEF St!Ruhig
  <1>7. geoeffnet \in [Mitglied -> Nat]
    BY DEF FormularInv
  <1>8. \A p \in Mitglied :
           geoeffnet[p] + (IF pid' = p THEN 1 ELSE 0)
              <= geoeffnet'[p] + (IF pid = p THEN 1 ELSE 0)
    BY <1>2, <1>7
  <1> QED
    BY <1>1, <1>2, <1>3, <1>6, <1>7, <1>8, StFormularAuftritt

LEMMA StFormularNeustart ==
    ASSUME StudienInv, FormularInv, St!Neustart
    PROVE  FormularInv'
  <1>1. StTyp /\ IsFiniteSet(studium)
    BY DEF StudienInv, Nummeriert
  <1>2. /\ UNCHANGED <<studium, geoeffnet>> /\ pid' = KeinePerson
        /\ nacheinander' = (nacheinander /\ St!Ruhig)
    BY DEF St!Neustart
  <1>3. \A t \in Tab : anfrage'[t].pc = "frei"
    BY StNeustart
  <1>4. geoeffnet \in [Mitglied -> Nat]
    BY DEF FormularInv
  <1>5. \A p \in Mitglied :
           geoeffnet[p] + (IF pid' = p THEN 1 ELSE 0)
              <= geoeffnet'[p] + (IF pid = p THEN 1 ELSE 0)
    BY <1>2, <1>4, NebenteileAssumption
  <1> QED
    BY <1>1, <1>2, <1>3, <1>4, <1>5, StFormularAuftritt

\* Steps of a request that enter nobody.
LEMMA StFormularOhne ==
    ASSUME StudienInv, FormularInv, StudienInv', NEW t \in Tab, Aktiv(t), NEW r,
           St!Weiter(t, r),
           \A p \in Mitglied : Studien(studium', p) \subseteq Studien(studium, p),
           \A p \in Mitglied : StOffen(pid', p, r.pc) <= StOffen(pid, p, anfrage[t].pc)
    PROVE  FormularInv'
  <1>1. StTyp /\ IsFiniteSet(studium) /\ IsFiniteSet(studium')
    BY DEF StudienInv, Nummeriert
  <1>2. anfrage' = [anfrage EXCEPT ![t] = r] /\ UNCHANGED <<geoeffnet, nacheinander>>
    BY DEF St!Weiter
  <1>3. ASSUME NEW p \in Mitglied
        PROVE  Cardinality(Studien(studium', p)) + StOffen(pid', p, r.pc)
                  <= Cardinality(Studien(studium, p)) + StOffen(pid, p, anfrage[t].pc)
    <2>1. /\ Cardinality(Studien(studium', p)) \in Nat
          /\ Cardinality(Studien(studium', p)) <= Cardinality(Studien(studium, p))
      BY <1>1, StWeniger
    <2>2. Cardinality(Studien(studium, p)) \in Nat
      BY <1>1, StZahl
    <2>3. /\ StOffen(pid, p, anfrage[t].pc) \in Nat
          /\ StOffen(pid', p, r.pc) \in Nat
      BY DEF StOffen
    <2>4. StOffen(pid', p, r.pc) <= StOffen(pid, p, anfrage[t].pc)
      OBVIOUS
    <2> QED
      BY <2>1, <2>2, <2>3, <2>4
  <1> QED
    BY <1>1, <1>2, <1>3, StFormularSchritt

LEMMA StFormularSchreiben ==
    ASSUME StudienInv, FormularInv, NEW t \in Tab, St!Schreiben(t)
    PROVE  FormularInv'
  <1> DEFINE v == anfrage[t]
             neu == [id |-> frisch, person |-> KeinePerson]
             r == [v EXCEPT !.pc = "pruefen", !.seite.studie = frisch]
             w == StNach(v, "pruefen")
  <1>1. v.pc = "schreiben" /\ pid' = pid /\ v \in St!Vorgang
    BY DEF St!Schreiben, StudienInv, StTyp
  <1>2. StudienInv' /\ Aktiv(t)
    BY <1>1, StSchreiben DEF Aktiv
  <1>3. \/ studium' = studium \cup {neu} /\ St!Weiter(t, r)
        \/ studium' \subseteq studium /\ St!Weiter(t, w)
    BY DEF St!Schreiben, St!Nach, StNach
  <1>4. neu.person = KeinePerson
    OBVIOUS
  <1>5. r.pc = "pruefen"
    BY <1>1 DEF St!Vorgang
  <1>6. w.pc = "pruefen"
    BY <1>1, StNachher DEF StStelle
  <1> HIDE DEF neu, r, w
  <1>7. \A p \in Mitglied : Studien(studium', p) \subseteq Studien(studium, p)
    BY <1>3, <1>4, NebenteileAssumption DEF Studien
  <1>8. \A p \in Mitglied : /\ StOffen(pid', p, "pruefen") = StOffen(pid, p, v.pc)
                            /\ StOffen(pid, p, v.pc) \in Nat
    BY <1>1 DEF StOffen, StEingetragen
  <1>9. \A p \in Mitglied : StOffen(pid', p, "pruefen") <= StOffen(pid, p, anfrage[t].pc)
    BY <1>8
  <1> QED
    BY <1>2, <1>3, <1>5, <1>6, <1>7, <1>9, StFormularOhne

LEMMA StFormularZuordnen ==
    ASSUME StudienInv, FormularInv, NEW t \in Tab, St!Zuordnen(t)
    PROVE  FormularInv'
  <1> DEFINE v == anfrage[t]
             i == v.seite.studie
             r == StNach(v, "umleiten")
             neu == [id |-> i, person |-> pid]
  <1>1. /\ v.pc = "zuordnen" /\ St!Weiter(t, r) /\ UNCHANGED <<frisch, pid, tab>>
        /\ studium' = {IF z.id = i THEN [z EXCEPT !.person = pid] ELSE z : z \in studium}
    BY DEF St!Zuordnen, St!Nach, StNach
  <1>2. StTyp /\ Nummeriert /\ IsFiniteSet(studium) /\ v \in St!Vorgang
    BY DEF StudienInv, StTyp, Nummeriert
  <1>3. i \in 0 .. MaxStudien
    BY <1>2 DEF St!Vorgang, St!Seite
  <1>4. studium' \subseteq studium \cup {neu}
    BY <1>1, <1>2, <1>3, StZugeordnet
  <1>5. Aktiv(t) /\ IsFiniteSet(studium')
    BY <1>1, StZuordnen DEF Aktiv, StudienInv, Nummeriert
  <1>6. neu.person = pid
    OBVIOUS
  <1>7. r.pc = "umleiten"
    BY <1>2, StNachher DEF StStelle
  <1> HIDE DEF neu, r
  <1>8. ASSUME NEW p \in Mitglied
        PROVE  Cardinality(Studien(studium', p)) + StOffen(pid', p, r.pc)
                  <= Cardinality(Studien(studium, p)) + StOffen(pid, p, anfrage[t].pc)
    <2>1. /\ IsFiniteSet(Studien(studium, p)) /\ Cardinality(Studien(studium, p)) \in Nat
          /\ Cardinality(Studien(studium', p)) \in Nat
      BY <1>2, <1>5, StZahl
    <2>2. StOffen(pid', p, r.pc) = 0
      BY <1>7 DEF StOffen, StEingetragen
    <2>3. CASE pid = p
      <3>1. StOffen(pid, p, anfrage[t].pc) = 1
        BY <1>1, <2>3 DEF StOffen, StEingetragen
      <3>2. Studien(studium', p) \subseteq Studien(studium, p) \cup {neu}
        BY <1>4 DEF Studien
      <3>3. /\ IsFiniteSet(Studien(studium, p) \cup {neu})
            /\ Cardinality(Studien(studium, p) \cup {neu})
                  \in {Cardinality(Studien(studium, p)), Cardinality(Studien(studium, p)) + 1}
        BY <2>1, FS_AddElement
      <3>4. Cardinality(Studien(studium', p)) <= Cardinality(Studien(studium, p) \cup {neu})
        BY <3>2, <3>3, FS_Subset
      <3> QED
        BY <2>1, <2>2, <3>1, <3>3, <3>4
    <2>4. CASE pid # p
      <3>1. StOffen(pid, p, anfrage[t].pc) = 0
        BY <2>4 DEF StOffen
      <3>2. Studien(studium', p) \subseteq Studien(studium, p)
        BY <1>4, <1>6, <2>4 DEF Studien
      <3>3. Cardinality(Studien(studium', p)) <= Cardinality(Studien(studium, p))
        BY <1>2, <3>2, StWeniger
      <3> QED
        BY <2>1, <2>2, <3>1, <3>3
    <2> QED
      BY <2>3, <2>4
  <1>9. anfrage' = [anfrage EXCEPT ![t] = r] /\ UNCHANGED <<geoeffnet, nacheinander>>
    BY <1>1 DEF St!Weiter
  <1> QED
    BY <1>2, <1>5, <1>8, <1>9, StFormularSchritt

LEMMA StFormularWeiter ==
    ASSUME StudienInv, FormularInv, NEW t \in Tab,
           \/ St!NichtSchreiben(t) \/ St!Pruefen(t) \/ St!Umleiten(t) \/ St!Leeren(t)
           \/ St!Antworten(t)
    PROVE  FormularInv'
  <1> DEFINE v == anfrage[t]
  <1>1. StudienInv'
    BY StEnden, StPruefen, StUmleiten, StLeeren
  <1>2. v \in St!Vorgang /\ studium' = studium
    BY DEF StudienInv, StTyp, St!NichtSchreiben, St!Pruefen, St!Umleiten, St!Leeren,
           St!Antworten
  <1>3. \A p \in Mitglied : KeinePerson # p
    BY NebenteileAssumption
  <1> SUFFICES ASSUME NEW r, St!Weiter(t, r), Aktiv(t),
                      \A p \in Mitglied : StOffen(pid', p, r.pc) <= StOffen(pid, p, v.pc)
               PROVE  FormularInv'
    <2>1. CASE St!NichtSchreiben(t) \/ St!Antworten(t)
      <3>1. /\ v.pc \in {"schreiben", "fertig"} /\ St!Weiter(t, St!Ruhe) /\ pid' = pid
        BY <2>1 DEF St!NichtSchreiben, St!Antworten
      <3>2. \A p \in Mitglied : StOffen(pid', p, St!Ruhe.pc) <= StOffen(pid, p, v.pc)
        BY <3>1, StRuhe DEF StOffen, StEingetragen
      <3> QED
        BY <3>1, <3>2 DEF Aktiv
    <2>2. CASE St!Pruefen(t)
      <3> DEFINE c == IF pid = KeinePerson THEN "fertig"
                      ELSE IF v.art = "save" THEN "zuordnen" ELSE "umleiten"
      <3>1. v.pc = "pruefen" /\ St!Weiter(t, StNach(v, c)) /\ pid' = pid
        BY <2>2 DEF St!Pruefen, St!Nach, StNach
      <3>2. c \in StStelle
        BY DEF StStelle
      <3> HIDE DEF c
      <3>3. StNach(v, c).pc = c
        BY <1>2, <3>2, StNachher
      <3>4. \A p \in Mitglied : StOffen(pid', p, c) <= StOffen(pid, p, v.pc)
        BY <3>1 DEF StOffen, StEingetragen
      <3> QED
        BY <3>1, <3>3, <3>4 DEF Aktiv
    <2>3. CASE St!Umleiten(t)
      <3> DEFINE w == [v EXCEPT !.pc = "leeren", !.ziel = pid]
      <3>1. v.pc = "umleiten" /\ St!Weiter(t, w) /\ pid' = pid
        BY <2>3 DEF St!Umleiten
      <3>2. w.pc = "leeren"
        BY <1>2 DEF St!Vorgang
      <3> HIDE DEF w
      <3>3. \A p \in Mitglied : StOffen(pid', p, w.pc) <= StOffen(pid, p, v.pc)
        BY <3>1, <3>2 DEF StOffen, StEingetragen
      <3> QED
        BY <3>1, <3>3 DEF Aktiv
    <2>4. CASE St!Leeren(t)
      <3>1. v.pc = "leeren" /\ St!Weiter(t, StNach(v, "fertig")) /\ pid' = KeinePerson
        BY <2>4 DEF St!Leeren, St!Nach, StNach
      <3>2. StNach(v, "fertig").pc = "fertig"
        BY <1>2, StNachher DEF StStelle
      <3>3. \A p \in Mitglied :
               StOffen(pid', p, StNach(v, "fertig").pc) <= StOffen(pid, p, v.pc)
        BY <1>3, <3>1, <3>2 DEF StOffen, StEingetragen
      <3> QED
        BY <3>1, <3>3 DEF Aktiv
    <2> QED
      BY <2>1, <2>2, <2>3, <2>4
  <1>4. \A p \in Mitglied : Studien(studium', p) \subseteq Studien(studium, p)
    BY <1>2
  <1> QED
    BY <1>1, <1>4, StFormularOhne

LEMMA StFormularErhalten ==
    StudienInv /\ FormularInv /\ [St!Next]_(St!vars) => FormularInv'
  <1> SUFFICES ASSUME StudienInv, FormularInv, [St!Next]_(St!vars) PROVE FormularInv'
    OBVIOUS
  <1>1. CASE UNCHANGED St!vars
    BY <1>1 DEF St!vars, FormularInv, Guthaben, Vergeben, Aktiv, RuhigBis
  <1>2. CASE St!Next
    BY <1>2, StFormularOeffnen, StFormularAbsenden, StFormularSchreiben,
       StFormularZuordnen, StFormularWeiter, StFormularNeustart
    DEF St!Next
  <1> QED
    BY <1>1, <1>2

\* As long as one request follows another, nobody has more studies than forms
\* were opened for her: a form that is sent uses up the person in the session
\* (lines 41-47, 113-115 and 141-145 of StudiumController).
THEOREM StudiumNurMitFormular == St!Spec => []EinStudiumJeFormular
  <1>1. StudienInv /\ FormularInv => EinStudiumJeFormular
    <2> SUFFICES ASSUME StudienInv, FormularInv, nacheinander, NEW p \in Mitglied
                 PROVE  Cardinality(Studien(studium, p)) <= geoeffnet[p]
      BY StKardinal DEF EinStudiumJeFormular, St!EinStudiumJeFormular, Studien
    <2>1. /\ Cardinality(Studien(studium, p)) + Guthaben(p) <= geoeffnet[p]
          /\ geoeffnet[p] \in Nat /\ IsFiniteSet(studium)
      BY DEF FormularInv, StudienInv, Nummeriert
    <2>2. Guthaben(p) \in Nat /\ Cardinality(Studien(studium, p)) \in Nat
      BY <2>1, StZahl DEF Guthaben
    <2> QED
      BY <2>1, <2>2
  <1> QED
    BY <1>1, StAmAnfang, StErhalten, StFormularErhalten, PTL DEF St!Spec
====
