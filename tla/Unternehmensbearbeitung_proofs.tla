-------------------- MODULE Unternehmensbearbeitung_proofs --------------------
(***************************************************************************)
(* Theorems about the editing of companies, for any number of companies,   *)
(* requests and kinds of entries, with requests that die anywhere.         *)
(***************************************************************************)
EXTENDS Unternehmensbearbeitung, FiniteSetTheorems, TLAPS

\* The kind at hand is one of Arten.
IndexStimmt ==
    \A a \in Anfrage : sitzung[a].pc = "eintraege" => sitzung[a].i \in DOMAIN Arten

ZeilenOK(zz, n) == \A z \in zz : z \in Zeile /\ z.nr < n

\* What one request does leaves the others where they are.
AndereBleiben(a) ==
    \A b \in Anfrage \ {a} :
        /\ sitzung'[b].pc = sitzung[b].pc
        /\ sitzung'[b].firma = sitzung[b].firma
        /\ sitzung'[b].i = sitzung[b].i

------------------------------------------------------------------------------
LEMMA LeerTyp ==
    ASSUME NEW u \in Firma
    PROVE  Leer(u) \in Sitzung
  <1>1. LeereListe \in Liste
    BY DEF LeereListe, Liste
  <1>2. [l \in Listen |-> LeereListe] \in [Listen -> Liste]
    BY <1>1
  <1> QED
    BY <1>2 DEF Leer, Sitzung

LEMMA ArtenInListen ==
    /\ Len(Arten) \in Nat
    /\ DOMAIN Arten = 1..Len(Arten)
    /\ \A i \in DOMAIN Arten : Arten[i] \in Listen
    /\ "mitarbeiter" \in Listen
  BY BearbeitungAssumption DEF Listen

LEMMA ListenEndlich == IsFiniteSet(Listen)
  <1>1. IsFiniteSet(DOMAIN Arten)
    BY ArtenInListen, FS_Interval
  <1>2. IsFiniteSet({Arten[i] : i \in DOMAIN Arten})
    <2> DEFINE D == {Arten[i] : i \in DOMAIN Arten}
    <2>1. [i \in DOMAIN Arten |-> Arten[i]] \in Surjection(DOMAIN Arten, D)
      BY DEF Surjection
    <2> QED
      BY <1>1, <2>1, FS_Surjection
  <1> QED
    BY <1>2, FS_AddElement DEF Listen

LEMMA WeiterTyp ==
    ASSUME sitzung \in [Anfrage -> Sitzung], NEW a \in Anfrage,
           NEW s \in Sitzung, NEW g \in BOOLEAN, Weiter(a, s, g)
    PROVE  /\ sitzung' \in [Anfrage -> Sitzung]
           /\ sitzung'[a] = s
           /\ AndereBleiben(a)
  <1>1. \A b \in Anfrage \ {a} :
           sitzung'[b] = [sitzung[b] EXCEPT
                            !.ungestoert = @ /\ ~(g /\ sitzung[b].pc # "frei")]
    BY DEF Weiter
  <1>2. \A b \in Anfrage : sitzung[b] \in Sitzung
    OBVIOUS
  <1>3. \A t \in Sitzung, x \in BOOLEAN :
           /\ [t EXCEPT !.ungestoert = x] \in Sitzung
           /\ [t EXCEPT !.ungestoert = x].pc = t.pc
           /\ [t EXCEPT !.ungestoert = x].firma = t.firma
           /\ [t EXCEPT !.ungestoert = x].i = t.i
    BY DEF Sitzung
  <1>4. \A b \in Anfrage \ {a} : \E x \in BOOLEAN :
           sitzung'[b] = [sitzung[b] EXCEPT !.ungestoert = x]
    <2> TAKE b \in Anfrage \ {a}
    <2> WITNESS (sitzung[b].ungestoert /\ ~(g /\ sitzung[b].pc # "frei")) \in BOOLEAN
    <2> QED
      BY <1>1
  <1>5. sitzung'[a] = s
    BY DEF Weiter
  <1>6. \A b \in Anfrage \ {a} :
           /\ sitzung'[b] \in Sitzung
           /\ sitzung'[b].pc = sitzung[b].pc
           /\ sitzung'[b].firma = sitzung[b].firma
           /\ sitzung'[b].i = sitzung[b].i
    <2> TAKE b \in Anfrage \ {a}
    <2>1. PICK x \in BOOLEAN : sitzung'[b] = [sitzung[b] EXCEPT !.ungestoert = x]
      BY <1>4
    <2>2. sitzung[b] \in Sitzung
      BY <1>2
    <2> QED
      BY <1>3, <2>1, <2>2
  <1>7. sitzung' = [b \in Anfrage |-> sitzung'[b]]
    BY DEF Weiter
  <1>8. AndereBleiben(a)
    BY <1>6 DEF AndereBleiben
  <1>9. \A b \in Anfrage : sitzung'[b] \in Sitzung
    BY <1>5, <1>6
  <1> QED
    BY <1>5, <1>7, <1>8, <1>9

\* A request that ends is idle.
LEMMA EndeTyp ==
    ASSUME TypeOK, NEW a \in Anfrage
    PROVE  /\ Ende(a) \in Sitzung
           /\ Ende(a).pc = "frei"
           /\ Ende(a).firma = sitzung[a].firma
  <1>1. sitzung[a].firma \in Firma
    BY DEF TypeOK, Sitzung
  <1> QED
    BY <1>1, LeerTyp DEF Ende, Leer

\* What every step does to sessions and rows, that of the first flush of save
\* excepted.
Bleibt(a) ==
    /\ sitzung' \in [Anfrage -> Sitzung]
    /\ AndereBleiben(a)
    /\ ZeilenOK(zeilen', naechste')
    /\ naechste' \in Nat
    /\ sitzung'[a].pc # "anlegen"
    /\ sitzung'[a].pc = "eintraege" => sitzung'[a].i \in DOMAIN Arten

\* A session that may follow.
Folgt(s) ==
    /\ s \in Sitzung
    /\ s.pc # "anlegen"
    /\ s.pc = "eintraege" => s.i \in DOMAIN Arten

LEMMA WeiterBleibt ==
    ASSUME TypeOK, NEW a \in Anfrage, NEW s, Folgt(s), NEW g \in BOOLEAN,
           Weiter(a, s, g), ZeilenOK(zeilen', naechste'), naechste' \in Nat
    PROVE  Bleibt(a)
  <1>1. sitzung \in [Anfrage -> Sitzung] /\ s \in Sitzung
    BY DEF TypeOK, Folgt
  <1>2. /\ sitzung' \in [Anfrage -> Sitzung]
        /\ sitzung'[a] = s
        /\ AndereBleiben(a)
    BY <1>1, WeiterTyp
  <1> QED
    BY <1>2 DEF Bleibt, Folgt

\* ... and touches no rows.
LEMMA ImSpeicher ==
    ASSUME TypeOK, NEW a \in Anfrage, NEW s, Folgt(s), NEW g \in BOOLEAN,
           Weiter(a, s, g), UNCHANGED <<zeilen, naechste>>
    PROVE  Bleibt(a)
  <1>1. ZeilenOK(zeilen', naechste') /\ naechste' \in Nat
    BY DEF TypeOK, ZeilenOK
  <1> QED
    BY <1>1, WeiterBleibt

LEMMA EndeFolgt ==
    ASSUME TypeOK, NEW a \in Anfrage
    PROVE  Folgt(Ende(a))
  BY EndeTyp DEF Folgt

LEMMA AbbrechenBleibt ==
    ASSUME TypeOK, NEW a \in Anfrage, Abbrechen(a)
    PROVE  Bleibt(a)
  BY EndeFolgt, ImSpeicher DEF Abbrechen

\* A flush adds and changes rows of the right kind, with fresh numbers.
LEMMA SpuelenBleibt ==
    ASSUME TypeOK, NEW a \in Anfrage, NEW s, Folgt(s), NEW weg,
           NEW art \in Listen, NEW k \in 0..1, Spuelen(a, s, weg, art, k)
    PROVE  Bleibt(a)
  <1> DEFINE anzahl == k + s.neueMitarbeiter
             neue == {[nr |-> naechste + j, firma |-> s.firma, stand |-> s.nummer,
                       art |-> IF j < k THEN art ELSE "mitarbeiter"]
                        : j \in 0..(anzahl - 1)}
             bleiben == {z \in zeilen : z.nr \notin weg}
             t == [s EXCEPT !.vorgemerkt = {}, !.neueMitarbeiter = 0]
  <1>1. /\ naechste \in Nat /\ anzahl \in Nat
        /\ s.firma \in Firma /\ s.nummer \in Nat
        /\ \A z \in zeilen : z \in Zeile /\ z.nr < naechste
    BY DEF TypeOK, Folgt, Sitzung
  <1>2. CASE Abbrechen(a)
    BY <1>2, AbbrechenBleibt
  <1>3. CASE /\ zeilen' = {z \in bleiben : z.nr \notin s.vorgemerkt} \cup neue
                          \cup {[z EXCEPT !.stand = s.nummer]
                                  : z \in {y \in bleiben : y.nr \in s.vorgemerkt}}
             /\ naechste' = naechste + anzahl
             /\ Weiter(a, t, TRUE)
    <2>1. naechste' \in Nat
      BY <1>1, <1>3
    <2>2. Folgt(t)
      <3>1. s \in Sitzung
        BY DEF Folgt
      <3>2. t \in Sitzung
        <4>1. \A x \in Sitzung, m \in SUBSET Nat, n \in 0..1 :
                 [x EXCEPT !.vorgemerkt = m, !.neueMitarbeiter = n] \in Sitzung
          BY DEF Sitzung
        <4>2. {} \in SUBSET Nat /\ 0 \in 0..1
          OBVIOUS
        <4> QED
          BY <3>1, <4>1, <4>2
      <3>3. t.pc = s.pc /\ t.i = s.i
        BY <3>1 DEF Sitzung
      <3> QED
        BY <3>2, <3>3 DEF Folgt
    <2>3. \A z \in zeilen : z \in Zeile /\ z.nr < naechste'
      BY <1>1, <1>3 DEF Zeile
    <2>4. \A z \in neue : z \in Zeile /\ z.nr < naechste'
      BY <1>1, <1>3, ArtenInListen DEF Zeile
    <2>5. \A z \in zeilen : /\ [z EXCEPT !.stand = s.nummer] \in Zeile
                            /\ [z EXCEPT !.stand = s.nummer].nr < naechste'
      BY <1>1, <2>3 DEF Zeile
    <2> HIDE DEF neue
    <2>6. ZeilenOK(zeilen', naechste')
      BY <1>3, <2>3, <2>4, <2>5 DEF ZeilenOK
    <2> QED
      BY <1>3, <2>1, <2>2, <2>6, WeiterBleibt
  <1> QED
    BY <1>2, <1>3 DEF Spuelen

------------------------------------------------------------------------------
(* The steps of update and delete on the lists of a company.               *)

\* Changes of a session that leave it where it is.
LEMMA SitzungFelder ==
    ASSUME NEW s, Folgt(s)
    PROVE  /\ \A m \in SUBSET Nat : Folgt([s EXCEPT !.loeschen = m])
           /\ \A m, v \in SUBSET Nat :
                 Folgt([s EXCEPT !.aendern = m, !.vorgemerkt = v])
           /\ \A n \in 0..1 : Folgt([s EXCEPT !.einfuegen = n])
           /\ \A n, k \in 0..1 :
                 Folgt([s EXCEPT !.einfuegen = n, !.neueMitarbeiter = k])
           /\ \A g \in BOOLEAN, m \in SUBSET Nat :
                 Folgt([s EXCEPT !.gelesen = g, !.loeschen = m])
  <1>1. s \in Sitzung
    BY DEF Folgt
  <1>2. \A m \in SUBSET Nat : Folgt([s EXCEPT !.loeschen = m])
    <2> TAKE m \in SUBSET Nat
    <2>1. /\ [s EXCEPT !.loeschen = m] \in Sitzung
          /\ [s EXCEPT !.loeschen = m].pc = s.pc
          /\ [s EXCEPT !.loeschen = m].i = s.i
      BY <1>1 DEF Sitzung
    <2> QED
      BY <2>1 DEF Folgt
  <1>3. \A m, v \in SUBSET Nat : Folgt([s EXCEPT !.aendern = m, !.vorgemerkt = v])
    <2> TAKE m, v \in SUBSET Nat
    <2> DEFINE t == [s EXCEPT !.aendern = m, !.vorgemerkt = v]
    <2>1. t \in Sitzung /\ t.pc = s.pc /\ t.i = s.i
      BY <1>1 DEF Sitzung
    <2> QED
      BY <2>1 DEF Folgt
  <1>4. \A n \in 0..1 : Folgt([s EXCEPT !.einfuegen = n])
    <2> TAKE n \in 0..1
    <2>1. /\ [s EXCEPT !.einfuegen = n] \in Sitzung
          /\ [s EXCEPT !.einfuegen = n].pc = s.pc
          /\ [s EXCEPT !.einfuegen = n].i = s.i
      BY <1>1 DEF Sitzung
    <2> QED
      BY <2>1 DEF Folgt
  <1>5. \A n, k \in 0..1 : Folgt([s EXCEPT !.einfuegen = n, !.neueMitarbeiter = k])
    <2> TAKE n, k \in 0..1
    <2> DEFINE t == [s EXCEPT !.einfuegen = n, !.neueMitarbeiter = k]
    <2>1. t \in Sitzung /\ t.pc = s.pc /\ t.i = s.i
      BY <1>1 DEF Sitzung
    <2> QED
      BY <2>1 DEF Folgt
  <1>6. \A g \in BOOLEAN, m \in SUBSET Nat :
           Folgt([s EXCEPT !.gelesen = g, !.loeschen = m])
    <2> TAKE g \in BOOLEAN, m \in SUBSET Nat
    <2> DEFINE t == [s EXCEPT !.gelesen = g, !.loeschen = m]
    <2>1. t \in Sitzung /\ t.pc = s.pc /\ t.i = s.i
      BY <1>1 DEF Sitzung
    <2> QED
      BY <2>1 DEF Folgt
  <1> QED
    BY <1>2, <1>3, <1>4, <1>5, <1>6

LEMMA NummernTyp ==
    ASSUME TypeOK, NEW u, NEW art
    PROVE  NrVon(u, art) \in SUBSET Nat
  BY DEF TypeOK, NrVon, Zeile

LEMMA SitzungTyp ==
    ASSUME TypeOK, IndexStimmt, NEW a \in Anfrage, sitzung[a].pc # "anlegen"
    PROVE  /\ Folgt(sitzung[a])
           /\ sitzung[a].loeschen \in SUBSET Nat
           /\ sitzung[a].aendern \in SUBSET Nat
           /\ sitzung[a].vorgemerkt \in SUBSET Nat
           /\ sitzung[a].einfuegen \in 0..1
           /\ sitzung[a].neueMitarbeiter \in 0..1
           /\ sitzung[a].form \in [Listen -> Liste]
           /\ sitzung[a].gesehen \in SUBSET Zeile
           /\ sitzung[a].firma \in Firma
           /\ sitzung[a].i \in Nat
           /\ sitzung[a].nummer \in Nat
  <1>1. sitzung[a] \in Sitzung
    BY DEF TypeOK
  <1>2. Folgt(sitzung[a])
    BY <1>1 DEF Folgt, IndexStimmt
  <1> QED
    BY <1>1, <1>2 DEF Sitzung

LEMMA FormularTyp ==
    ASSUME NEW gesehen \in SUBSET Zeile, NEW form \in Formulare(gesehen)
    PROVE  form \in [Listen -> Liste]
  <1>1. {z.nr : z \in gesehen} \subseteq Nat
    BY DEF Zeile
  <1>2. form \in [Listen -> [behalten : SUBSET {z.nr : z \in gesehen}, neu : 0..1]]
    BY DEF Formulare
  <1>3. \A l \in Listen : form[l] \in Liste
    BY <1>1, <1>2 DEF Liste
  <1> QED
    BY <1>2, <1>3

LEMMA AbsendenBleibt ==
    ASSUME TypeOK, IndexStimmt, NEW a \in Anfrage, Absenden(a)
    PROVE  Bleibt(a)
  <1> DEFINE s == sitzung[a]
  <1>1. CASE Abbrechen(a)
    BY <1>1, AbbrechenBleibt
  <1>2. CASE \E form \in Formulare(s.gesehen) :
               /\ Weiter(a, [s EXCEPT
                    !.pc = "mitarbeiter", !.form = form,
                    !.loeschen = Weggefallene(form["mitarbeiter"],
                                              NrVon(s.firma, "mitarbeiter")),
                    !.aendern = Bestehende(form["mitarbeiter"]),
                    !.einfuegen = form["mitarbeiter"].neu], FALSE)
               /\ UNCHANGED <<zeilen, naechste>>
    <2>1. PICK form \in Formulare(s.gesehen) :
               /\ Weiter(a, [s EXCEPT
                    !.pc = "mitarbeiter", !.form = form,
                    !.loeschen = Weggefallene(form["mitarbeiter"],
                                              NrVon(s.firma, "mitarbeiter")),
                    !.aendern = Bestehende(form["mitarbeiter"]),
                    !.einfuegen = form["mitarbeiter"].neu], FALSE)
               /\ UNCHANGED <<zeilen, naechste>>
      BY <1>2
    <2>2. s \in Sitzung /\ s.gesehen \in SUBSET Zeile
      BY DEF TypeOK, Sitzung
    <2>3. form \in [Listen -> Liste]
      BY <2>1, <2>2, FormularTyp
    <2>4. form["mitarbeiter"] \in Liste
      BY <2>3, ArtenInListen
    <2>5. /\ Weggefallene(form["mitarbeiter"], NrVon(s.firma, "mitarbeiter")) \in SUBSET Nat
          /\ Bestehende(form["mitarbeiter"]) \in SUBSET Nat
          /\ form["mitarbeiter"].neu \in 0..1
      BY <2>4, NummernTyp DEF Weggefallene, Bestehende, Liste
    <2>6. \A f \in [Listen -> Liste], l \in SUBSET Nat, v \in SUBSET Nat, n \in 0..1 :
             LET t == [s EXCEPT !.pc = "mitarbeiter", !.form = f, !.loeschen = l,
                                !.aendern = v, !.einfuegen = n]
             IN  t \in Sitzung /\ t.pc = "mitarbeiter"
      BY <2>2 DEF Sitzung
    <2>7. \A f \in [Listen -> Liste], l \in SUBSET Nat, v \in SUBSET Nat, n \in 0..1 :
             Folgt([s EXCEPT !.pc = "mitarbeiter", !.form = f, !.loeschen = l,
                             !.aendern = v, !.einfuegen = n])
      BY <2>6 DEF Folgt
    <2> QED
      BY <2>1, <2>3, <2>5, <2>7, ImSpeicher
  <1> QED
    BY <1>1, <1>2 DEF Absenden

LEMMA MitarbeiterLoeschenBleibt ==
    ASSUME TypeOK, IndexStimmt, NEW a \in Anfrage, MitarbeiterLoeschen(a)
    PROVE  Bleibt(a)
  <1> DEFINE s == sitzung[a]
  <1>1. PICK n \in s.loeschen :
           Spuelen(a, [s EXCEPT !.loeschen = @ \ {n}], {n}, "mitarbeiter", 0)
    BY DEF MitarbeiterLoeschen
  <1>2. Folgt(s) /\ s.loeschen \ {n} \in SUBSET Nat
    BY SitzungTyp DEF MitarbeiterLoeschen
  <1>3. Folgt([s EXCEPT !.loeschen = s.loeschen \ {n}])
    BY <1>2, SitzungFelder
  <1> QED
    BY <1>1, <1>3, SpuelenBleibt, ArtenInListen

LEMMA MitarbeiterSpeichernBleibt ==
    ASSUME TypeOK, IndexStimmt, NEW a \in Anfrage, MitarbeiterSpeichern(a)
    PROVE  Bleibt(a)
  <1> DEFINE s == sitzung[a]
  <1>1. /\ Folgt(s) /\ s.aendern \in SUBSET Nat /\ s.vorgemerkt \in SUBSET Nat
    BY SitzungTyp DEF MitarbeiterSpeichern
  <1>2. CASE \E n \in s.aendern :
               Spuelen(a, [s EXCEPT !.aendern = @ \ {n},
                                    !.vorgemerkt = @ \cup {n}], {}, "mitarbeiter", 0)
    <2>1. PICK n \in s.aendern :
               Spuelen(a, [s EXCEPT !.aendern = @ \ {n},
                                    !.vorgemerkt = @ \cup {n}], {}, "mitarbeiter", 0)
      BY <1>2
    <2>2. s.aendern \ {n} \in SUBSET Nat /\ s.vorgemerkt \cup {n} \in SUBSET Nat
      BY <1>1
    <2>3. Folgt([s EXCEPT !.aendern = s.aendern \ {n},
                          !.vorgemerkt = s.vorgemerkt \cup {n}])
      BY <1>1, <2>2, SitzungFelder
    <2> QED
      BY <2>1, <2>3, SpuelenBleibt, ArtenInListen
  <1>3. CASE /\ Weiter(a, [s EXCEPT !.einfuegen = 0, !.neueMitarbeiter = 1], FALSE)
             /\ UNCHANGED <<zeilen, naechste>>
    <2>1. 0 \in 0..1 /\ 1 \in 0..1
      OBVIOUS
    <2>2. Folgt([s EXCEPT !.einfuegen = 0, !.neueMitarbeiter = 1])
      BY <1>1, <2>1, SitzungFelder
    <2> QED
      BY <1>3, <2>2, ImSpeicher
  <1> QED
    BY <1>2, <1>3 DEF MitarbeiterSpeichern

LEMMA ArtBeginnenBleibt ==
    ASSUME TypeOK, IndexStimmt, NEW a \in Anfrage, ArtBeginnen(a)
    PROVE  Bleibt(a)
  <1> DEFINE s == sitzung[a]
             i == s.i + 1
             f == s.form[Arten[i]]
             da == NrVon(s.firma, Arten[i])
             einzeln == [s EXCEPT !.pc = "eintraege", !.i = i, !.gelesen = TRUE,
                                  !.aendern = Bestehende(f) \cap da,
                                  !.loeschen = da \ f.behalten, !.einfuegen = f.neu]
             liste == [s EXCEPT !.pc = "eintraege", !.i = i, !.gelesen = FALSE,
                                !.aendern = Bestehende(f), !.einfuegen = f.neu]
  <1>1. s \in Sitzung /\ i \in Nat /\ i > 0
    BY DEF TypeOK, Sitzung
  <1>2. da \in SUBSET Nat
    BY NummernTyp
  <1>3. UNCHANGED <<zeilen, naechste>>
    BY DEF ArtBeginnen
  <1>4. CASE i > Len(Arten)
    <2>1. Weiter(a, [s EXCEPT !.pc = "speichern"], FALSE)
      BY <1>4 DEF ArtBeginnen
    <2>2. [s EXCEPT !.pc = "speichern"] \in Sitzung
      BY <1>1 DEF Sitzung
    <2>3. [s EXCEPT !.pc = "speichern"].pc = "speichern"
      BY <1>1 DEF Sitzung
    <2>4. Folgt([s EXCEPT !.pc = "speichern"])
      BY <2>2, <2>3 DEF Folgt
    <2> QED
      BY <1>3, <2>1, <2>4, ImSpeicher
  <1>5. CASE ~(i > Len(Arten))
    <2>1. i \in DOMAIN Arten /\ Arten[i] \in Listen
      BY <1>1, <1>5, ArtenInListen
    <2>2. f \in Liste
      BY <1>1, <2>1 DEF Sitzung
    <2>3. /\ Bestehende(f) \in SUBSET Nat /\ Bestehende(f) \cap da \in SUBSET Nat
          /\ da \ f.behalten \in SUBSET Nat /\ f.neu \in 0..1
      BY <1>2, <2>2 DEF Liste, Bestehende
    <2>4. Folgt(einzeln)
      <3>1. einzeln \in Sitzung /\ einzeln.i = i /\ einzeln.pc = "eintraege"
        <4>1. einzeln \in Sitzung /\ einzeln.i = i
          <5> DEFINE m == Bestehende(f) \cap da
                     l == da \ f.behalten
                     n == f.neu
          <5>1. m \in SUBSET Nat /\ l \in SUBSET Nat /\ n \in 0..1
            BY <2>3
          <5> HIDE DEF m, l, n
          <5>2. LET t == [s EXCEPT !.pc = "eintraege", !.i = i, !.gelesen = TRUE,
                                   !.aendern = m, !.loeschen = l, !.einfuegen = n]
                IN  t \in Sitzung /\ t.i = i
            BY <1>1, <5>1 DEF Sitzung
          <5> QED
            BY <5>2 DEF m, l, n
        <4>2. einzeln.pc = "eintraege"
          BY <1>1 DEF Sitzung
        <4> QED
          BY <4>1, <4>2
      <3> QED
        BY <2>1, <3>1 DEF Folgt
    <2>5. Folgt(liste)
      <3>1. \A j \in Nat, m \in SUBSET Nat, n \in 0..1 :
               LET t == [s EXCEPT !.pc = "eintraege", !.i = j, !.gelesen = FALSE,
                                  !.aendern = m, !.einfuegen = n]
               IN  t \in Sitzung /\ t.i = j
        BY <1>1 DEF Sitzung
      <3>2. liste \in Sitzung /\ liste.i = i
        BY <1>1, <2>3, <3>1
      <3>3. liste.pc = "eintraege"
        BY <1>1 DEF Sitzung
      <3> QED
        BY <2>1, <3>2, <3>3 DEF Folgt
    <2>6. Weiter(a, einzeln, FALSE) \/ Weiter(a, liste, FALSE)
      <3>1. CASE Einzeln(f)
        BY <1>5, <3>1, Zenon DEF ArtBeginnen
      <3>2. CASE ~Einzeln(f)
        BY <1>5, <3>2, Zenon DEF ArtBeginnen
      <3> QED
        BY <3>1, <3>2
    <2> HIDE DEF einzeln, liste
    <2> QED
      BY <1>3, <2>4, <2>5, <2>6, ImSpeicher
  <1> QED
    BY <1>4, <1>5

LEMMA EintragAendernBleibt ==
    ASSUME TypeOK, IndexStimmt, NEW a \in Anfrage, EintragAendern(a)
    PROVE  Bleibt(a)
  <1> DEFINE s == sitzung[a]
             art == Arten[s.i]
             t(n) == [s EXCEPT !.aendern = @ \ {n}, !.vorgemerkt = @ \cup {n}]
  <1>1. /\ Folgt(s) /\ s.aendern \in SUBSET Nat /\ s.vorgemerkt \in SUBSET Nat
    BY SitzungTyp DEF EintragAendern
  <1>2. art \in Listen
    BY <1>1, ArtenInListen DEF EintragAendern, Folgt
  <1>3. PICK n \in s.aendern :
           \/ Spuelen(a, t(n), {}, art, 0)
           \/ Weiter(a, t(n), FALSE) /\ UNCHANGED <<zeilen, naechste>>
           \/ Abbrechen(a)
    BY DEF EintragAendern
  <1>4. Folgt(t(n))
    <2>1. s.aendern \ {n} \in SUBSET Nat /\ s.vorgemerkt \cup {n} \in SUBSET Nat
      BY <1>1
    <2> QED
      BY <1>1, <2>1, SitzungFelder
  <1> HIDE DEF t, art
  <1>5. CASE Spuelen(a, t(n), {}, art, 0)
    BY <1>2, <1>4, <1>5, SpuelenBleibt
  <1>6. CASE Weiter(a, t(n), FALSE) /\ UNCHANGED <<zeilen, naechste>>
    BY <1>4, <1>6, ImSpeicher
  <1>7. CASE Abbrechen(a)
    BY <1>7, AbbrechenBleibt
  <1> QED
    BY <1>3, <1>5, <1>6, <1>7

LEMMA EintraegeVergleichenBleibt ==
    ASSUME TypeOK, IndexStimmt, NEW a \in Anfrage, EintraegeVergleichen(a)
    PROVE  Bleibt(a)
  <1> DEFINE s == sitzung[a]
             l == Ueberzaehlige(s.form[Arten[s.i]], NrVon(s.firma, Arten[s.i]))
  <1>1. l \in SUBSET Nat
    BY NummernTyp DEF Ueberzaehlige
  <1>2. Folgt(s)
    BY SitzungTyp DEF EintraegeVergleichen
  <1>3. Folgt([s EXCEPT !.gelesen = TRUE, !.loeschen = l])
    <2> HIDE DEF l
    <2> QED
      BY <1>1, <1>2, SitzungFelder
  <1> QED
    BY <1>3, ImSpeicher DEF EintraegeVergleichen

LEMMA EintragLoeschenBleibt ==
    ASSUME TypeOK, IndexStimmt, NEW a \in Anfrage, EintragLoeschen(a)
    PROVE  Bleibt(a)
  <1> DEFINE s == sitzung[a]
  <1>1. PICK n \in s.loeschen :
           Spuelen(a, [s EXCEPT !.loeschen = @ \ {n}], {n}, Arten[s.i], 0)
    BY DEF EintragLoeschen
  <1>2. Folgt(s) /\ s.loeschen \ {n} \in SUBSET Nat
    BY SitzungTyp DEF EintragLoeschen
  <1>3. Folgt([s EXCEPT !.loeschen = s.loeschen \ {n}])
    BY <1>2, SitzungFelder
  <1>4. Arten[s.i] \in Listen
    BY <1>2, ArtenInListen DEF EintragLoeschen, Folgt
  <1> QED
    BY <1>1, <1>3, <1>4, SpuelenBleibt

LEMMA EintragEinfuegenBleibt ==
    ASSUME TypeOK, IndexStimmt, NEW a \in Anfrage, EintragEinfuegen(a)
    PROVE  Bleibt(a)
  <1> DEFINE s == sitzung[a]
  <1>1. Folgt(s)
    BY SitzungTyp DEF EintragEinfuegen
  <1>2. Folgt([s EXCEPT !.einfuegen = 0])
    <2>1. 0 \in 0..1 /\ 1 \in 0..1
      OBVIOUS
    <2> QED
      BY <1>1, <2>1, SitzungFelder
  <1>3. Arten[s.i] \in Listen
    BY <1>1, ArtenInListen DEF EintragEinfuegen, Folgt
  <1>4. Spuelen(a, [s EXCEPT !.einfuegen = 0], {}, Arten[s.i], 1)
    BY DEF EintragEinfuegen
  <1> QED
    BY <1>2, <1>3, <1>4, SpuelenBleibt

------------------------------------------------------------------------------
(* The steps on the company itself.                                        *)

\* A new request.
LEMMA BeginnenTyp ==
    ASSUME TypeOK, NEW a \in Anfrage, NEW u \in Firma,
           NEW p \in {"anlegen", "formular", "entlassen"}, Gezaehlt
    PROVE  /\ Beginnen(a, u, p) \in Sitzung
           /\ Beginnen(a, u, p).pc = p
           /\ Beginnen(a, u, p).firma = u
           /\ anfragen' \in 0..MaxAnfragen
  <1>1. anfragen \in Nat /\ anfragen' \in 0..MaxAnfragen
    BY BearbeitungAssumption DEF TypeOK, Gezaehlt
  <1>2. anfragen + 1 \in Nat
    BY <1>1
  <1>3. Leer(u) \in Sitzung /\ Leer(u).firma = u
    BY LeerTyp DEF Leer
  <1>4. /\ [Leer(u) EXCEPT !.pc = p, !.nummer = anfragen + 1] \in Sitzung
        /\ [Leer(u) EXCEPT !.pc = p, !.nummer = anfragen + 1].pc = p
        /\ [Leer(u) EXCEPT !.pc = p, !.nummer = anfragen + 1].firma = u
    BY <1>2, <1>3 DEF Sitzung
  <1> QED
    BY <1>1, <1>4 DEF Beginnen

LEMMA AdresseAnlegenTyp ==
    ASSUME TypeOK, NEW a \in Anfrage, NEW u \in Firma, AdresseAnlegen(a, u)
    PROVE  /\ sitzung' \in [Anfrage -> Sitzung]
           /\ AndereBleiben(a)
           /\ sitzung'[a].pc = "anlegen"
           /\ sitzung'[a].firma = u
           /\ anfragen' \in 0..MaxAnfragen
  <1>1. Gezaehlt /\ Weiter(a, Beginnen(a, u, "anlegen"), TRUE)
    BY DEF AdresseAnlegen
  <1>2. /\ Beginnen(a, u, "anlegen") \in Sitzung
        /\ Beginnen(a, u, "anlegen").pc = "anlegen"
        /\ Beginnen(a, u, "anlegen").firma = u
        /\ anfragen' \in 0..MaxAnfragen
    BY <1>1, BeginnenTyp
  <1>3. /\ sitzung' \in [Anfrage -> Sitzung]
        /\ sitzung'[a] = Beginnen(a, u, "anlegen")
        /\ AndereBleiben(a)
    BY <1>1, <1>2, WeiterTyp DEF TypeOK
  <1> QED
    BY <1>2, <1>3

LEMMA FirmaAnlegenBleibt ==
    ASSUME TypeOK, NEW a \in Anfrage, FirmaAnlegen(a)
    PROVE  Bleibt(a)
  <1> DEFINE s == sitzung[a]
  <1>1. /\ s.firma \in Firma /\ s.nummer \in Nat /\ naechste \in Nat
        /\ \A z \in zeilen : z \in Zeile /\ z.nr < naechste
    BY DEF TypeOK, Sitzung
  <1>2. PICK arten \in SUBSET Listen : \E folge \in [1..Cardinality(arten) -> arten] :
              /\ zeilen' = zeilen \cup
                    {[nr |-> naechste + j - 1, firma |-> s.firma,
                      art |-> folge[j], stand |-> s.nummer] : j \in DOMAIN folge}
              /\ naechste' = naechste + Cardinality(arten)
    BY DEF FirmaAnlegen
  <1>3. PICK folge \in [1..Cardinality(arten) -> arten] :
              /\ zeilen' = zeilen \cup
                    {[nr |-> naechste + j - 1, firma |-> s.firma,
                      art |-> folge[j], stand |-> s.nummer] : j \in DOMAIN folge}
              /\ naechste' = naechste + Cardinality(arten)
    BY <1>2
  <1>4. Cardinality(arten) \in Nat
    BY ListenEndlich, FS_Subset, FS_CardinalityType
  <1>5. naechste' \in Nat /\ naechste <= naechste'
    BY <1>1, <1>3, <1>4
  <1>6. \A z \in zeilen : z \in Zeile /\ z.nr < naechste'
    BY <1>1, <1>5 DEF Zeile
  <1>7. \A j \in 1..Cardinality(arten) :
           LET z == [nr |-> naechste + j - 1, firma |-> s.firma,
                     art |-> folge[j], stand |-> s.nummer]
           IN  z \in Zeile /\ z.nr < naechste'
    BY <1>1, <1>3, <1>4 DEF Zeile
  <1>8. ZeilenOK(zeilen', naechste')
    BY <1>3, <1>6, <1>7 DEF ZeilenOK
  <1>9. Weiter(a, Ende(a), TRUE)
    BY DEF FirmaAnlegen
  <1> QED
    BY <1>5, <1>8, <1>9, EndeFolgt, WeiterBleibt

LEMMA AnlegenScheitertBleibt ==
    ASSUME TypeOK, NEW a \in Anfrage, AnlegenScheitert(a)
    PROVE  Bleibt(a)
  BY EndeFolgt, ImSpeicher DEF AnlegenScheitert

LEMMA EditLadenBleibt ==
    ASSUME TypeOK, NEW a \in Anfrage, NEW u \in Firma, EditLaden(a, u)
    PROVE  Bleibt(a) /\ anfragen' \in 0..MaxAnfragen
  <1> DEFINE b == Beginnen(a, u, "formular")
             g == {z \in zeilen : z.firma = u}
  <1>1. /\ Gezaehlt /\ Weiter(a, [b EXCEPT !.gesehen = g], FALSE)
        /\ UNCHANGED <<zeilen, naechste>>
    BY DEF EditLaden
  <1>2. b \in Sitzung /\ b.pc = "formular" /\ anfragen' \in 0..MaxAnfragen
    BY <1>1, BeginnenTyp
  <1>3. g \in SUBSET Zeile
    BY DEF TypeOK
  <1> HIDE DEF b, g
  <1>4. Folgt([b EXCEPT !.gesehen = g])
    <2>1. [b EXCEPT !.gesehen = g] \in Sitzung
      BY <1>2, <1>3 DEF Sitzung
    <2>2. [b EXCEPT !.gesehen = g].pc = "formular"
      BY <1>2 DEF Sitzung
    <2> QED
      BY <2>1, <2>2 DEF Folgt
  <1> QED
    BY <1>1, <1>2, <1>4, ImSpeicher

LEMMA DeleteBeginnenBleibt ==
    ASSUME TypeOK, NEW a \in Anfrage, NEW u \in Firma, DeleteBeginnen(a, u)
    PROVE  Bleibt(a) /\ anfragen' \in 0..MaxAnfragen
  <1> DEFINE b == Beginnen(a, u, "entlassen")
             l == NrVon(u, "mitarbeiter")
  <1>1. /\ Gezaehlt /\ Weiter(a, [b EXCEPT !.loeschen = l], FALSE)
        /\ UNCHANGED <<zeilen, naechste>>
    BY DEF DeleteBeginnen
  <1>2. b \in Sitzung /\ b.pc = "entlassen" /\ anfragen' \in 0..MaxAnfragen
    BY <1>1, BeginnenTyp
  <1>3. l \in SUBSET Nat
    BY NummernTyp
  <1> HIDE DEF b, l
  <1>4. Folgt(b)
    BY <1>2 DEF Folgt
  <1>5. Folgt([b EXCEPT !.loeschen = l])
    BY <1>3, <1>4, SitzungFelder
  <1> QED
    BY <1>1, <1>2, <1>5, ImSpeicher

\* Writing the row of a company, if it is there.
LEMMA FirmaSchreibenBleibt ==
    ASSUME TypeOK, IndexStimmt, NEW a \in Anfrage, sitzung[a].pc = "speichern",
           FirmaSchreiben(a)
    PROVE  /\ Bleibt(a)
           /\ \/ UNCHANGED stamm
              \/ /\ stamm[sitzung[a].firma] # Fehlt
                 /\ stamm' = [stamm EXCEPT ![sitzung[a].firma] = sitzung[a].nummer]
  <1> DEFINE s == sitzung[a]
             t == [Ende(a) EXCEPT !.nummer = s.nummer, !.vorgemerkt = s.vorgemerkt,
                                  !.neueMitarbeiter = s.neueMitarbeiter]
  <1>1. CASE stamm[s.firma] = Fehlt
    BY <1>1, AbbrechenBleibt DEF FirmaSchreiben
  <1>2. CASE stamm[s.firma] # Fehlt
    <2>1. /\ stamm' = [stamm EXCEPT ![s.firma] = s.nummer]
          /\ Spuelen(a, t, {}, "mitarbeiter", 0)
      BY <1>2 DEF FirmaSchreiben
    <2>2. /\ s.vorgemerkt \in SUBSET Nat /\ s.neueMitarbeiter \in 0..1
          /\ s.nummer \in Nat
      BY SitzungTyp
    <2>3. t \in Sitzung /\ t.pc = "frei"
      BY <2>2, EndeTyp DEF Sitzung
    <2>4. Folgt(t)
      BY <2>3 DEF Folgt
    <2> HIDE DEF t
    <2>5. Bleibt(a)
      BY <2>1, <2>4, SpuelenBleibt, ArtenInListen
    <2> QED
      BY <1>2, <2>1, <2>5
  <1> QED
    BY <1>1, <1>2

LEMMA FirmaLoeschenBleibt ==
    ASSUME TypeOK, NEW a \in Anfrage, FirmaLoeschen(a)
    PROVE  /\ Bleibt(a)
           /\ \/ UNCHANGED <<stamm, adressen>>
              \/ /\ stamm' = [stamm EXCEPT ![sitzung[a].firma] = Fehlt]
                 /\ adressen' = adressen \ {sitzung[a].firma}
                 /\ stamm[sitzung[a].firma] # Fehlt
  <1> DEFINE u == sitzung[a].firma
  <1>1. CASE stamm[u] = Fehlt
    BY <1>1, AbbrechenBleibt DEF FirmaLoeschen
  <1>2. CASE stamm[u] # Fehlt
    <2>1. /\ zeilen' = {z \in zeilen : z.firma = u => z.art = "mitarbeiter"}
          /\ Weiter(a, Ende(a), TRUE)
          /\ UNCHANGED naechste
      BY <1>2 DEF FirmaLoeschen
    <2>2. ZeilenOK(zeilen', naechste') /\ naechste' \in Nat
      BY <2>1 DEF TypeOK, ZeilenOK
    <2>3. Bleibt(a)
      BY <2>1, <2>2, EndeFolgt, WeiterBleibt
    <2> QED
      BY <1>2, <2>3 DEF FirmaLoeschen
  <1> QED
    BY <1>1, <1>2

------------------------------------------------------------------------------
(* The inductive invariant.                                                *)

\* A company that is being created is not there yet, its address is, and only
\* one request creates it.
WirdAngelegt ==
    \A a \in Anfrage : sitzung[a].pc = "anlegen" =>
        /\ stamm[sitzung[a].firma] = Fehlt
        /\ sitzung[a].firma \in adressen
        /\ sitzung[a].firma \notin unbenutzt \cup verwaist
        /\ \A b \in Anfrage \ {a} :
              sitzung[b].pc = "anlegen" => sitzung[b].firma # sitzung[a].firma

\* A company nobody has tried to create has nothing, one whose creation died is
\* not there.
NochNicht ==
    /\ \A u \in unbenutzt : stamm[u] = Fehlt /\ u \notin adressen \cup verwaist
    /\ \A u \in verwaist : stamm[u] = Fehlt

AdressInv == TypeOK /\ IndexStimmt /\ WirdAngelegt /\ NochNicht /\ AdresseMitFirma

LEMMA InitInv == Init => AdressInv
  <1> SUFFICES ASSUME Init PROVE AdressInv
    OBVIOUS
  <1>1. PICK u \in Firma :
        /\ stamm = [v \in Firma |-> IF v = u THEN 0 ELSE Fehlt]
        /\ unbenutzt = Firma \ {u}
        /\ adressen = {u}
        /\ verwaist = {}
        /\ zeilen = {[nr |-> 1, firma |-> u, art |-> "mitarbeiter", stand |-> 0]}
                    \cup {[nr |-> 1 + i, firma |-> u, art |-> Arten[i], stand |-> 0]
                            : i \in DOMAIN Arten}
        /\ naechste = 2 + Len(Arten)
        /\ sitzung = [a \in Anfrage |-> Leer(u)]
        /\ anfragen = 0
    BY DEF Init
  <1>2. naechste \in Nat /\ anfragen \in 0..MaxAnfragen
    BY <1>1, ArtenInListen, BearbeitungAssumption
  <1>3. \A z \in zeilen : z \in Zeile /\ z.nr < naechste
    BY <1>1, ArtenInListen DEF Zeile
  <1>4. sitzung \in [Anfrage -> Sitzung]
    BY <1>1, LeerTyp
  <1>5. \A a \in Anfrage : sitzung[a].pc = "frei"
    BY <1>1 DEF Leer
  <1>6. TypeOK
    BY <1>1, <1>2, <1>3, <1>4 DEF TypeOK
  <1>7. Fehlt # 0
    BY DEF Fehlt
  <1> QED
    BY <1>1, <1>5, <1>6, <1>7 DEF AdressInv, IndexStimmt, WirdAngelegt, NochNicht,
       AdresseMitFirma

\* A step that does not create a company leaves those that are being created.
LEMMA AnlegenBleibt ==
    ASSUME IndexStimmt, NEW a \in Anfrage, Bleibt(a)
    PROVE  /\ IndexStimmt'
           /\ \A b \in Anfrage :
                 sitzung'[b].pc = "anlegen"
                   <=> b # a /\ sitzung[b].pc = "anlegen"
           /\ \A b \in Anfrage : b # a => sitzung'[b].firma = sitzung[b].firma
  BY DEF IndexStimmt, Bleibt, AndereBleiben

\* A step of a request that touches neither company nor address.
LEMMA NurListen ==
    ASSUME AdressInv, NEW a \in Anfrage, sitzung[a].pc # "anlegen", Bleibt(a),
           UNCHANGED <<stamm, unbenutzt, adressen, verwaist>>,
           anfragen' \in 0..MaxAnfragen
    PROVE  AdressInv'
  <1>1. TypeOK'
    BY DEF AdressInv, TypeOK, Bleibt, ZeilenOK
  <1>2. /\ IndexStimmt'
        /\ \A b \in Anfrage :
              /\ sitzung'[b].pc = "anlegen" <=> b # a /\ sitzung[b].pc = "anlegen"
              /\ b # a => sitzung'[b].firma = sitzung[b].firma
    BY AnlegenBleibt DEF AdressInv
  <1>3. WirdAngelegt'
    BY <1>2 DEF AdressInv, WirdAngelegt
  <1>4. NochNicht'
    BY DEF AdressInv, NochNicht
  <1>5. AdresseMitFirma'
    BY <1>2 DEF AdressInv, AdresseMitFirma
  <1> QED
    BY <1>1, <1>2, <1>3, <1>4, <1>5 DEF AdressInv

LEMMA NextInv == AdressInv /\ [Next]_vars => AdressInv'
  <1> SUFFICES ASSUME AdressInv, [Next]_vars PROVE AdressInv'
    OBVIOUS
  <1> USE DEF AdressInv
  <1>0. anfragen \in 0..MaxAnfragen
    BY DEF TypeOK
  <1>1. ASSUME NEW a \in Anfrage, NEW u \in Firma, AdresseAnlegen(a, u)
        PROVE  AdressInv'
    <2>1. /\ u \in unbenutzt /\ unbenutzt' = unbenutzt \ {u}
          /\ adressen' = adressen \cup {u}
          /\ sitzung[a].pc = "frei"
          /\ UNCHANGED <<stamm, verwaist, zeilen, naechste>>
      BY <1>1 DEF AdresseAnlegen
    <2>2. /\ sitzung' \in [Anfrage -> Sitzung]
          /\ AndereBleiben(a)
          /\ sitzung'[a].pc = "anlegen" /\ sitzung'[a].firma = u
          /\ anfragen' \in 0..MaxAnfragen
      BY <1>1, AdresseAnlegenTyp
    <2>3. \A b \in Anfrage \ {a} : /\ sitzung'[b].pc = sitzung[b].pc
                                   /\ sitzung'[b].firma = sitzung[b].firma
                                   /\ sitzung'[b].i = sitzung[b].i
      BY <2>2 DEF AndereBleiben
    <2>4. TypeOK'
      BY <2>1, <2>2 DEF TypeOK
    <2>5. IndexStimmt'
      BY <2>2, <2>3 DEF IndexStimmt
    <2>6. stamm[u] = Fehlt /\ u \notin adressen /\ u \notin verwaist
      BY <2>1 DEF NochNicht
    <2>7. \A b \in Anfrage \ {a} : sitzung[b].pc = "anlegen" => sitzung[b].firma # u
      BY <2>1 DEF WirdAngelegt
    <2>8. WirdAngelegt'
      BY <2>1, <2>2, <2>3, <2>6, <2>7 DEF WirdAngelegt
    <2>9. NochNicht'
      BY <2>1, <2>6 DEF NochNicht
    <2>10. AdresseMitFirma'
      <3> SUFFICES ASSUME NEW v \in Firma,
                          \A b \in Anfrage : sitzung'[b].pc = "anlegen" => sitzung'[b].firma # v
                   PROVE  v \in adressen' <=> stamm'[v] # Fehlt \/ v \in verwaist'
        BY DEF AdresseMitFirma
      <3>1. v # u
        BY <2>2
      <3>2. \A b \in Anfrage : sitzung[b].pc = "anlegen" => sitzung[b].firma # v
        BY <2>1, <2>3
      <3> QED
        BY <2>1, <3>1, <3>2 DEF AdresseMitFirma
    <2> QED
      BY <2>4, <2>5, <2>8, <2>9, <2>10
  <1>2. ASSUME NEW a \in Anfrage, FirmaAnlegen(a)
        PROVE  AdressInv'
    <2> DEFINE u == sitzung[a].firma
    <2>1. /\ sitzung[a].pc = "anlegen"
          /\ stamm' = [stamm EXCEPT ![u] = sitzung[a].nummer]
          /\ UNCHANGED <<unbenutzt, adressen, verwaist, anfragen>>
      BY <1>2 DEF FirmaAnlegen
    <2>2. u \in Firma /\ sitzung[a].nummer \in Nat
      BY DEF TypeOK, Sitzung
    <2>3. Bleibt(a)
      BY <1>2, FirmaAnlegenBleibt
    <2>4. /\ IndexStimmt'
          /\ \A b \in Anfrage :
                /\ sitzung'[b].pc = "anlegen" <=> b # a /\ sitzung[b].pc = "anlegen"
                /\ b # a => sitzung'[b].firma = sitzung[b].firma
      BY <2>3, AnlegenBleibt
    <2>5. /\ u \in adressen /\ u \notin unbenutzt /\ u \notin verwaist
          /\ \A b \in Anfrage \ {a} : sitzung[b].pc = "anlegen" => sitzung[b].firma # u
      BY <2>1 DEF WirdAngelegt
    <2>6. TypeOK'
      BY <2>1, <2>2, <2>3 DEF TypeOK, Bleibt, ZeilenOK
    <2>7. \A v \in Firma : v # u => stamm'[v] = stamm[v]
      BY <2>1 DEF TypeOK
    <2>8. stamm'[u] # Fehlt
      BY <2>1, <2>2 DEF TypeOK, Fehlt
    <2>9. WirdAngelegt'
      BY <2>1, <2>4, <2>5, <2>7 DEF WirdAngelegt, TypeOK, Sitzung
    <2>10. NochNicht'
      BY <2>1, <2>5, <2>7 DEF NochNicht, TypeOK
    <2>11. AdresseMitFirma'
      <3> SUFFICES ASSUME NEW v \in Firma,
                          \A b \in Anfrage : sitzung'[b].pc = "anlegen" => sitzung'[b].firma # v
                   PROVE  v \in adressen' <=> stamm'[v] # Fehlt \/ v \in verwaist'
        BY DEF AdresseMitFirma
      <3>1. CASE v = u
        BY <2>1, <2>5, <2>8, <3>1
      <3>2. CASE v # u
        <4>1. \A b \in Anfrage : sitzung[b].pc = "anlegen" => sitzung[b].firma # v
          BY <2>4, <3>2
        <4> QED
          BY <2>1, <2>7, <3>2, <4>1 DEF AdresseMitFirma
      <3> QED
        BY <3>1, <3>2
    <2> QED
      BY <2>4, <2>6, <2>9, <2>10, <2>11
  <1>3. ASSUME NEW a \in Anfrage, AnlegenScheitert(a)
        PROVE  AdressInv'
    <2> DEFINE u == sitzung[a].firma
    <2>1. /\ sitzung[a].pc = "anlegen"
          /\ adressen' = adressen \ {u}
          /\ UNCHANGED <<stamm, unbenutzt, verwaist, anfragen>>
      BY <1>3 DEF AnlegenScheitert
    <2>2. Bleibt(a)
      BY <1>3, AnlegenScheitertBleibt
    <2>3. /\ IndexStimmt'
          /\ \A b \in Anfrage :
                /\ sitzung'[b].pc = "anlegen" <=> b # a /\ sitzung[b].pc = "anlegen"
                /\ b # a => sitzung'[b].firma = sitzung[b].firma
      BY <2>2, AnlegenBleibt
    <2>4. /\ stamm[u] = Fehlt /\ u \notin verwaist
          /\ \A b \in Anfrage \ {a} : sitzung[b].pc = "anlegen" => sitzung[b].firma # u
      BY <2>1 DEF WirdAngelegt
    <2>5. TypeOK'
      BY <2>1, <2>2 DEF TypeOK, Bleibt, ZeilenOK
    <2>6. WirdAngelegt'
      BY <2>1, <2>3, <2>4 DEF WirdAngelegt
    <2>7. NochNicht'
      BY <2>1 DEF NochNicht
    <2>8. AdresseMitFirma'
      <3> SUFFICES ASSUME NEW v \in Firma,
                          \A b \in Anfrage : sitzung'[b].pc = "anlegen" => sitzung'[b].firma # v
                   PROVE  v \in adressen' <=> stamm'[v] # Fehlt \/ v \in verwaist'
        BY DEF AdresseMitFirma
      <3>1. CASE v = u
        BY <2>1, <2>4, <3>1
      <3>2. CASE v # u
        <4>1. \A b \in Anfrage : sitzung[b].pc = "anlegen" => sitzung[b].firma # v
          BY <2>3, <3>2
        <4> QED
          BY <2>1, <3>2, <4>1 DEF AdresseMitFirma
      <3> QED
        BY <3>1, <3>2
    <2> QED
      BY <2>3, <2>5, <2>6, <2>7, <2>8
  <1>4. ASSUME NEW a \in Anfrage, NEW u \in Firma, EditLaden(a, u) \/ DeleteBeginnen(a, u)
        PROVE  AdressInv'
    <2>1. Bleibt(a) /\ anfragen' \in 0..MaxAnfragen
      BY <1>4, EditLadenBleibt, DeleteBeginnenBleibt
    <2>2. /\ sitzung[a].pc # "anlegen"
          /\ UNCHANGED <<stamm, unbenutzt, adressen, verwaist>>
      BY <1>4 DEF EditLaden, DeleteBeginnen
    <2> QED
      BY <2>1, <2>2, NurListen
  <1>5. ASSUME NEW a \in Anfrage,
               \/ Absenden(a) \/ MitarbeiterLoeschen(a) \/ MitarbeiterSpeichern(a)
               \/ ArtBeginnen(a) \/ EintragAendern(a) \/ EintraegeVergleichen(a)
               \/ EintragLoeschen(a) \/ EintragEinfuegen(a)
        PROVE  AdressInv'
    <2>1. Bleibt(a)
      BY <1>5, AbsendenBleibt, MitarbeiterLoeschenBleibt, MitarbeiterSpeichernBleibt,
         ArtBeginnenBleibt, EintragAendernBleibt, EintraegeVergleichenBleibt,
         EintragLoeschenBleibt, EintragEinfuegenBleibt
    <2>2. sitzung[a].pc # "anlegen"
      BY <1>5 DEF Absenden, MitarbeiterLoeschen, MitarbeiterSpeichern, ArtBeginnen,
         EintragAendern, EintraegeVergleichen, EintragLoeschen, EintragEinfuegen
    <2>3. UNCHANGED <<stamm, unbenutzt, adressen, verwaist, anfragen>>
      BY <1>5 DEF Absenden, MitarbeiterLoeschen, MitarbeiterSpeichern, ArtBeginnen,
         EintragAendern, EintraegeVergleichen, EintragLoeschen, EintragEinfuegen
    <2> QED
      BY <1>0, <2>1, <2>2, <2>3, NurListen
  <1>6. ASSUME NEW a \in Anfrage, Speichern(a) \/ SpeichernScheitert(a)
        PROVE  AdressInv'
    <2> DEFINE u == sitzung[a].firma
    <2>1. /\ sitzung[a].pc = "speichern"
          /\ UNCHANGED <<unbenutzt, adressen, verwaist, anfragen>>
          /\ (Abbrechen(a) /\ UNCHANGED stamm) \/ FirmaSchreiben(a)
      BY <1>6 DEF Speichern, SpeichernScheitert
    <2>2. /\ Bleibt(a)
          /\ \/ UNCHANGED stamm
             \/ /\ stamm[u] # Fehlt
                /\ stamm' = [stamm EXCEPT ![u] = sitzung[a].nummer]
      BY <2>1, AbbrechenBleibt, FirmaSchreibenBleibt
    <2>3. CASE UNCHANGED stamm
      BY <1>0, <2>1, <2>2, <2>3, NurListen
    <2>4. CASE /\ stamm[u] # Fehlt
               /\ stamm' = [stamm EXCEPT ![u] = sitzung[a].nummer]
      <3>1. u \in Firma /\ sitzung[a].nummer \in Nat
        BY DEF TypeOK, Sitzung
      <3>2. /\ stamm' \in [Firma -> Nat \cup {Fehlt}]
            /\ \A v \in Firma : stamm'[v] = Fehlt <=> stamm[v] = Fehlt
        BY <2>4, <3>1 DEF TypeOK, Fehlt
      <3>3. TypeOK'
        BY <2>1, <2>2, <3>2 DEF TypeOK, Bleibt, ZeilenOK
      <3>4. /\ IndexStimmt'
            /\ \A b \in Anfrage :
                  /\ sitzung'[b].pc = "anlegen" <=> b # a /\ sitzung[b].pc = "anlegen"
                  /\ b # a => sitzung'[b].firma = sitzung[b].firma
        BY <2>2, AnlegenBleibt
      <3>5. \A b \in Anfrage : sitzung[b].firma \in Firma
        BY DEF TypeOK, Sitzung
      <3>6. WirdAngelegt'
        BY <2>1, <3>2, <3>4, <3>5 DEF WirdAngelegt
      <3>7. NochNicht'
        BY <2>1, <3>2 DEF NochNicht, TypeOK
      <3>8. AdresseMitFirma'
        BY <2>1, <3>2, <3>4 DEF AdresseMitFirma
      <3> QED
        BY <3>3, <3>4, <3>6, <3>7, <3>8
    <2> QED
      BY <2>2, <2>3, <2>4
  <1>7. ASSUME NEW a \in Anfrage, FirmaLoeschen(a)
        PROVE  AdressInv'
    <2> DEFINE u == sitzung[a].firma
    <2>1. /\ sitzung[a].pc = "entlassen"
          /\ UNCHANGED <<unbenutzt, verwaist, anfragen>>
      BY <1>7 DEF FirmaLoeschen
    <2>2. /\ Bleibt(a)
          /\ \/ UNCHANGED <<stamm, adressen>>
             \/ /\ stamm' = [stamm EXCEPT ![u] = Fehlt]
                /\ adressen' = adressen \ {u}
                /\ stamm[u] # Fehlt
      BY <1>7, FirmaLoeschenBleibt
    <2>3. CASE UNCHANGED <<stamm, adressen>>
      BY <1>0, <2>1, <2>2, <2>3, NurListen
    <2>4. CASE /\ stamm' = [stamm EXCEPT ![u] = Fehlt]
               /\ adressen' = adressen \ {u}
               /\ stamm[u] # Fehlt
      <3>1. u \in Firma /\ \A b \in Anfrage : sitzung[b].firma \in Firma
        BY DEF TypeOK, Sitzung
      <3>2. /\ stamm' \in [Firma -> Nat \cup {Fehlt}]
            /\ stamm'[u] = Fehlt
            /\ \A v \in Firma : v # u => stamm'[v] = stamm[v]
        BY <2>4, <3>1 DEF TypeOK
      <3>3. TypeOK'
        BY <2>1, <2>2, <2>4, <3>2 DEF TypeOK, Bleibt, ZeilenOK
      <3>4. /\ IndexStimmt'
            /\ \A b \in Anfrage :
                  /\ sitzung'[b].pc = "anlegen" <=> b # a /\ sitzung[b].pc = "anlegen"
                  /\ b # a => sitzung'[b].firma = sitzung[b].firma
        BY <2>2, AnlegenBleibt
      <3>5. /\ \A b \in Anfrage : sitzung[b].pc = "anlegen" => sitzung[b].firma # u
            /\ u \notin verwaist
        BY <2>4 DEF WirdAngelegt, NochNicht
      <3>6. WirdAngelegt'
        BY <2>1, <2>4, <3>1, <3>2, <3>4, <3>5 DEF WirdAngelegt
      <3>7. NochNicht'
        BY <2>1, <2>4, <3>2 DEF NochNicht, TypeOK
      <3>8. AdresseMitFirma'
        <4> SUFFICES ASSUME NEW v \in Firma,
                            \A b \in Anfrage :
                                sitzung'[b].pc = "anlegen" => sitzung'[b].firma # v
                     PROVE  v \in adressen' <=> stamm'[v] # Fehlt \/ v \in verwaist'
          BY DEF AdresseMitFirma
        <4>1. CASE v = u
          BY <2>1, <2>4, <3>2, <3>5, <4>1
        <4>2. CASE v # u
          <5>1. \A b \in Anfrage : sitzung[b].pc = "anlegen" => sitzung[b].firma # v
            BY <2>1, <3>4
          <5> QED
            BY <2>1, <2>4, <3>2, <4>2, <5>1 DEF AdresseMitFirma
        <4> QED
          BY <4>1, <4>2
      <3> QED
        BY <3>3, <3>4, <3>6, <3>7, <3>8
    <2> QED
      BY <2>2, <2>3, <2>4
  <1>8. ASSUME NEW a \in Anfrage, FormularVerwerfen(a)
        PROVE  AdressInv'
    <2>1. /\ sitzung[a].pc # "anlegen" /\ Abbrechen(a)
          /\ UNCHANGED <<stamm, unbenutzt, adressen, verwaist, anfragen>>
      BY <1>8 DEF FormularVerwerfen
    <2> QED
      BY <1>0, <2>1, AbbrechenBleibt, NurListen
  <1>9. ASSUME NEW a \in Anfrage, Absturz(a)
        PROVE  AdressInv'
    <2> DEFINE u == sitzung[a].firma
    <2>1. /\ verwaist' = IF sitzung[a].pc = "anlegen" THEN verwaist \cup {u} ELSE verwaist
          /\ UNCHANGED <<stamm, unbenutzt, adressen, anfragen>>
          /\ Bleibt(a)
      BY <1>9, AbbrechenBleibt DEF Absturz
    <2>2. CASE sitzung[a].pc # "anlegen"
      BY <1>0, <2>1, <2>2, NurListen
    <2>3. CASE sitzung[a].pc = "anlegen"
      <3>1. /\ u \in Firma /\ u \in adressen /\ u \notin unbenutzt /\ stamm[u] = Fehlt
            /\ \A b \in Anfrage \ {a} : sitzung[b].pc = "anlegen" => sitzung[b].firma # u
        BY <2>3 DEF WirdAngelegt, TypeOK, Sitzung
      <3>2. verwaist' = verwaist \cup {u}
        BY <2>1, <2>3
      <3>3. TypeOK'
        BY <2>1, <3>1, <3>2 DEF TypeOK, Bleibt, ZeilenOK
      <3>4. /\ IndexStimmt'
            /\ \A b \in Anfrage :
                  /\ sitzung'[b].pc = "anlegen" <=> b # a /\ sitzung[b].pc = "anlegen"
                  /\ b # a => sitzung'[b].firma = sitzung[b].firma
        BY <2>1, AnlegenBleibt
      <3>5. WirdAngelegt'
        BY <2>1, <3>1, <3>2, <3>4 DEF WirdAngelegt
      <3>6. NochNicht'
        BY <2>1, <3>1, <3>2 DEF NochNicht
      <3>7. AdresseMitFirma'
        <4> SUFFICES ASSUME NEW v \in Firma,
                            \A b \in Anfrage :
                                sitzung'[b].pc = "anlegen" => sitzung'[b].firma # v
                     PROVE  v \in adressen' <=> stamm'[v] # Fehlt \/ v \in verwaist'
          BY DEF AdresseMitFirma
        <4>1. CASE v = u
          BY <2>1, <3>1, <3>2, <4>1
        <4>2. CASE v # u
          <5>1. \A b \in Anfrage : sitzung[b].pc = "anlegen" => sitzung[b].firma # v
            BY <3>4, <4>2
          <5> QED
            BY <2>1, <3>2, <4>2, <5>1 DEF AdresseMitFirma
        <4> QED
          BY <4>1, <4>2
      <3> QED
        BY <3>3, <3>4, <3>5, <3>6, <3>7
    <2> QED
      BY <2>2, <2>3
  <1>10. CASE UNCHANGED vars
    BY <1>10 DEF vars, TypeOK, IndexStimmt, WirdAngelegt, NochNicht, AdresseMitFirma
  <1> QED
    BY <1>1, <1>2, <1>3, <1>4, <1>5, <1>6, <1>7, <1>8, <1>9, <1>10 DEF Next

\* Creating, editing and deleting keep all rows well typed (UnternehmenController
\* save, update, delete).
THEOREM BearbeitungTyp == Spec => []TypeOK
  <1>1. AdressInv => TypeOK
    BY DEF AdressInv
  <1> QED
    BY InitInv, NextInv, <1>1, PTL DEF Spec

\* A company and its address come and go together, whoever creates and deletes
\* meanwhile and whichever requests die; the only address without a company is
\* that of a creation under way or one that died (lines 165-322, 785-823).
THEOREM AdresseImmerMitFirma == Spec => []AdresseMitFirma
  <1>1. AdressInv => AdresseMitFirma
    BY DEF AdressInv
  <1> QED
    BY InitInv, NextInv, <1>1, PTL DEF Spec

------------------------------------------------------------------------------
(* NachUpdate: what an undisturbed update has done so far, and what it has  *)
(* still to do, list by list.                                               *)

Nrn(zz) == {z.nr : z \in zz}
EineArt(zz) == \A y, z \in zz : y.nr = z.nr => y.art = z.art

AmWerk == {"mitarbeiter", "eintraege", "speichern"}

\* The rows of the form, all and of one list, and the rows that came later.
Gezeigt(s) == Nrn(s.gesehen)
Gesehene(s, l) == Nrn(Art(s.gesehen, s.firma, l))
Neue(s, zz, l) == {z \in Art(zz, s.firma, l) : z.nr \notin Gezeigt(s)}

\* The list at hand, and the lists yet to come.
Hand(s) == IF s.pc = "mitarbeiter" THEN "mitarbeiter" ELSE Arten[s.i]
Dran(s, l) == s.pc # "speichern" /\ l = Hand(s)
Kommt(s, l) == \E j \in DOMAIN Arten : j > s.i /\ Arten[j] = l

NochDa(s, l) ==
    IF Kommt(s, l) THEN Gesehene(s, l)
    ELSE IF l = "mitarbeiter"
    THEN IF ~LeereForm(s.form[l]) THEN Gesehene(s, l)
         ELSE IF Dran(s, l) THEN s.loeschen ELSE {}
    ELSE IF ~Dran(s, l) THEN s.form[l].behalten
    ELSE IF s.gelesen THEN s.form[l].behalten \cup s.loeschen ELSE Gesehene(s, l)

NochZuAendern(s, l) ==
    IF Kommt(s, l) THEN s.form[l].behalten ELSE IF Dran(s, l) THEN s.aendern ELSE {}

NochNeu(s, l) ==
    (IF Kommt(s, l) THEN s.form[l].neu ELSE IF Dran(s, l) THEN s.einfuegen ELSE 0)
    + (IF l = "mitarbeiter" THEN s.neueMitarbeiter ELSE 0)

ListeStimmt(s, zz, l, weg, k) ==
    /\ (Nrn(Art(zz, s.firma, l)) \cap Gezeigt(s)) \ weg = NochDa(s, l)
    /\ \/ NochNeu(s, l) + k = s.form[l].neu /\ Neue(s, zz, l) = {}
       \/ /\ NochNeu(s, l) + k = 0 /\ s.form[l].neu = 1
          /\ \E z \in zz : Neue(s, zz, l) = {z}
    /\ \A z \in Neue(s, zz, l) : z.stand = s.nummer
    /\ \A z \in zz : z.nr \in s.form[l].behalten \ NochZuAendern(s, l) =>
           z.stand = s.nummer \/ z.nr \in s.vorgemerkt

FormStimmt(s) ==
    /\ s.form \in Formulare(s.gesehen)
    /\ \A z \in s.gesehen : z.firma = s.firma
    /\ EineArt(s.gesehen)

ArbeitStimmt(s) ==
    /\ s.pc = "mitarbeiter" =>
          s.i = 0 /\ (s.loeschen # {} => LeereForm(s.form["mitarbeiter"]))
    /\ s.pc = "eintraege" => s.i \in DOMAIN Arten
    /\ s.pc = "speichern" => s.i = Len(Arten)
    /\ s.pc # "speichern" =>
          /\ s.aendern \subseteq s.form[Hand(s)].behalten
          /\ s.loeschen \subseteq Gesehene(s, Hand(s)) \ s.form[Hand(s)].behalten
    /\ s.pc = "eintraege" /\ ~s.gelesen =>
          s.loeschen = {} /\ s.einfuegen = s.form[Hand(s)].neu

UpdateStimmt(s, zz, weg, art, k) ==
    /\ FormStimmt(s)
    /\ ArbeitStimmt(s)
    /\ s.vorgemerkt \subseteq Gezeigt(s)
    /\ \A l \in Listen : ListeStimmt(s, zz, l, weg, IF l = art THEN k ELSE 0)

SitzungStimmt(s, zz, st) == s.ungestoert =>
    /\ s.pc \in {"formular"} \cup AmWerk => st[s.firma] # Fehlt
    /\ s.pc = "formular" => /\ s.gesehen = {z \in zz : z.firma = s.firma}
                            /\ s.i = 0 /\ s.vorgemerkt = {} /\ s.neueMitarbeiter = 0
    /\ s.pc \in AmWerk => /\ s.vorgemerkt \subseteq Nrn(zz)
                          /\ UpdateStimmt(s, zz, {}, "mitarbeiter", 0)

FirmenInv ==
    /\ EineArt(zeilen)
    /\ \A a \in Anfrage :
          /\ SitzungStimmt(sitzung[a], zeilen, stamm)
          /\ \A z \in sitzung[a].gesehen : z.nr < naechste

LEMMA FormDa ==
    ASSUME NEW s \in Sitzung, FormStimmt(s), NEW l \in Listen
    PROVE  /\ s.form[l].behalten \subseteq Gesehene(s, l)
           /\ Gesehene(s, l) \subseteq Gezeigt(s)
           /\ s.form[l].neu \in 0..1
  <1>1. /\ \A n \in s.form[l].behalten : \E z \in s.gesehen : z.nr = n /\ z.art = l
        /\ s.form[l] \in [behalten : SUBSET {z.nr : z \in s.gesehen}, neu : 0..1]
    BY DEF FormStimmt, Formulare
  <1> QED
    BY <1>1 DEF FormStimmt, Gesehene, Gezeigt, Nrn, Art

\* The rows a flush inserts, and how many of one list.
Eingefuegt(s, art, k) ==
    {[nr |-> naechste + j, firma |-> s.firma, stand |-> s.nummer,
      art |-> IF j < k THEN art ELSE "mitarbeiter"]
        : j \in 0..((k + s.neueMitarbeiter) - 1)}
Zahl(s, l, art, k) == (IF l = art THEN k ELSE 0)
                      + (IF l = "mitarbeiter" THEN s.neueMitarbeiter ELSE 0)

LEMMA NeueZeilen ==
    ASSUME TypeOK, NEW s \in Sitzung, NEW art \in Listen, NEW k \in 0..1,
           \A z \in s.gesehen : z.nr < naechste,
           NEW l \in Listen,
           NEW neue, neue = Eingefuegt(s, art, k),
           NEW anzahl, anzahl = Zahl(s, l, art, k)
    PROVE  /\ \A z \in neue : /\ z.nr \notin Gezeigt(s)
                              /\ z.firma = s.firma /\ z.stand = s.nummer
           /\ anzahl = 0 => \A z \in neue : z.art # l
           /\ anzahl = 1 => \E z \in neue : Art(neue, s.firma, l) = {z}
  <1> DEFINE m == s.neueMitarbeiter
             r(j) == [nr |-> naechste + j, firma |-> s.firma, stand |-> s.nummer,
                      art |-> IF j < k THEN art ELSE "mitarbeiter"]
  <1>1. /\ m \in 0..1 /\ naechste \in Nat
        /\ \A z \in s.gesehen : z.nr \in Nat
    BY DEF TypeOK, Sitzung, Zeile
  <1>2. \A z \in neue : \E j \in 0..((k + m) - 1) : z = r(j)
    BY DEF Eingefuegt
  <1>3. \A j \in 0..((k + m) - 1) : r(j) \in neue
    BY DEF Eingefuegt
  <1>4. \A j \in Nat : /\ r(j).nr = naechste + j /\ r(j).firma = s.firma
                       /\ r(j).stand = s.nummer
                       /\ r(j).art = IF j < k THEN art ELSE "mitarbeiter"
    OBVIOUS
  <1> HIDE DEF r
  <1>5. \A z \in neue : /\ z.nr \notin Gezeigt(s)
                        /\ z.firma = s.firma /\ z.stand = s.nummer
    BY <1>1, <1>2, <1>4 DEF Gezeigt, Nrn
  <1>6. anzahl = 0 => \A z \in neue : z.art # l
    BY <1>1, <1>2, <1>4 DEF Zahl
  <1>7. ASSUME anzahl = 1
        PROVE  \E z \in neue : Art(neue, s.firma, l) = {z}
    <2>1. \E j \in 0..((k + m) - 1) : \A i \in 0..((k + m) - 1) : r(i).art = l <=> i = j
      <3>1. CASE k = 1 /\ l = art /\ (m = 0 \/ l # "mitarbeiter")
        <4>1. 0 \in 0..((k + m) - 1) /\ \A i \in 0..((k + m) - 1) : r(i).art = l <=> i = 0
          BY <1>1, <1>4, <3>1
        <4> QED
          BY <4>1
      <3>2. CASE m = 1 /\ l = "mitarbeiter" /\ (k = 0 \/ l # art)
        <4>1. k \in 0..((k + m) - 1) /\ \A i \in 0..((k + m) - 1) : r(i).art = l <=> i = k
          BY <1>1, <1>4, <3>2
        <4> QED
          BY <4>1
      <3> QED
        BY <1>1, <1>7, <3>1, <3>2 DEF Zahl
    <2>2. PICK j \in 0..((k + m) - 1) : \A i \in 0..((k + m) - 1) : r(i).art = l <=> i = j
      BY <2>1
    <2>3. r(j) \in neue /\ r(j) \in Art(neue, s.firma, l)
      BY <1>3, <1>4, <2>2 DEF Art
    <2>4. \A z \in Art(neue, s.firma, l) : z = r(j)
      BY <1>2, <2>2 DEF Art
    <2> QED
      BY <2>3, <2>4
  <1> QED
    BY <1>5, <1>6, <1>7

\* What a flush is to list l: the rows neue come, the rows weg go, the other ones
\* stay or are written.
Gespuelt(s, zz, weg, neue) ==
    /\ neue \subseteq zz
    /\ \A z \in neue : z.nr \notin Gezeigt(s) /\ z.firma = s.firma /\ z.stand = s.nummer
    /\ \A z \in zz :
          \/ z \in neue
          \/ z \in zeilen /\ z.nr \notin weg /\ z.nr \notin s.vorgemerkt
          \/ \E y \in zeilen : /\ y.nr \notin weg /\ y.nr \in s.vorgemerkt
                               /\ z.nr = y.nr /\ z.firma = y.firma /\ z.art = y.art
                               /\ z.stand = s.nummer
    /\ \A y \in zeilen : y.nr \notin weg =>
          \E z \in zz : z.nr = y.nr /\ z.firma = y.firma /\ z.art = y.art
    /\ \A z \in zeilen : z.nr \notin Gezeigt(s) => z \in zz

Leergespuelt(s, t) ==
    /\ t \in Sitzung /\ t.vorgemerkt = {} /\ t.neueMitarbeiter = 0
    /\ t.pc = s.pc /\ t.firma = s.firma /\ t.nummer = s.nummer
    /\ t.gesehen = s.gesehen /\ t.form = s.form /\ t.i = s.i
    /\ t.gelesen = s.gelesen /\ t.aendern = s.aendern /\ t.loeschen = s.loeschen
    /\ t.einfuegen = s.einfuegen /\ t.ungestoert = s.ungestoert

LEMMA SpuelenListe ==
    ASSUME NEW s \in Sitzung, NEW t, Leergespuelt(s, t), NEW l \in Listen,
           NEW art \in Listen, NEW k \in 0..1, NEW weg, NEW zz, NEW neue,
           FormStimmt(s), s.vorgemerkt \subseteq Gezeigt(s),
           ListeStimmt(s, zeilen, l, weg, IF l = art THEN k ELSE 0),
           Gespuelt(s, zz, weg, neue),
           Zahl(s, l, art, k) = 0 => \A z \in neue : z.art # l,
           Zahl(s, l, art, k) = 1 => \E z \in neue : Art(neue, s.firma, l) = {z}
    PROVE  ListeStimmt(t, zz, l, {}, 0)
  <1>1. /\ neue \subseteq zz
        /\ \A z \in neue : z.nr \notin Gezeigt(s) /\ z.firma = s.firma /\ z.stand = s.nummer
        /\ \A z \in zz :
              \/ z \in neue
              \/ z \in zeilen /\ z.nr \notin weg /\ z.nr \notin s.vorgemerkt
              \/ \E y \in zeilen : /\ y.nr \notin weg /\ y.nr \in s.vorgemerkt
                                   /\ z.nr = y.nr /\ z.firma = y.firma /\ z.art = y.art
                                   /\ z.stand = s.nummer
        /\ \A y \in zeilen : y.nr \notin weg =>
              \E z \in zz : z.nr = y.nr /\ z.firma = y.firma /\ z.art = y.art
        /\ \A z \in zeilen : z.nr \notin Gezeigt(s) => z \in zz
    BY DEF Gespuelt
  <1>2. /\ t.vorgemerkt = {} /\ t.neueMitarbeiter = 0
        /\ t.pc = s.pc /\ t.firma = s.firma /\ t.nummer = s.nummer
        /\ t.gesehen = s.gesehen /\ t.form = s.form /\ t.i = s.i
        /\ t.gelesen = s.gelesen /\ t.aendern = s.aendern /\ t.loeschen = s.loeschen
        /\ t.einfuegen = s.einfuegen
        /\ s.neueMitarbeiter \in 0..1 /\ s.einfuegen \in 0..1
    BY DEF Leergespuelt, Sitzung
  <1>3. /\ Gezeigt(t) = Gezeigt(s)
        /\ NochDa(t, l) = NochDa(s, l)
        /\ NochZuAendern(t, l) = NochZuAendern(s, l)
        /\ Neue(t, zz, l) = Neue(s, zz, l)
    BY <1>2 DEF Gezeigt, NochDa, NochZuAendern, Neue, Kommt, Dran, Hand, Gesehene
  <1> DEFINE kk == IF l = art THEN k ELSE 0
             anzahl == Zahl(s, l, art, k)
             f == s.form[l]
  <1>4. f.neu \in 0..1 /\ f.behalten \subseteq Gezeigt(s)
    BY FormDa
  <1>5. /\ (Nrn(Art(zeilen, s.firma, l)) \cap Gezeigt(s)) \ weg = NochDa(s, l)
        /\ \/ NochNeu(s, l) + kk = f.neu /\ Neue(s, zeilen, l) = {}
           \/ /\ NochNeu(s, l) + kk = 0 /\ f.neu = 1
              /\ \E z \in zeilen : Neue(s, zeilen, l) = {z}
        /\ \A z \in Neue(s, zeilen, l) : z.stand = s.nummer
        /\ \A z \in zeilen : z.nr \in f.behalten \ NochZuAendern(s, l) =>
               z.stand = s.nummer \/ z.nr \in s.vorgemerkt
    BY DEF ListeStimmt
  <1>6. Nrn(Art(zz, s.firma, l)) \cap Gezeigt(s) = NochDa(s, l)
    <2>1. \A z \in Art(zz, s.firma, l) : z.nr \in Gezeigt(s) => z.nr \in NochDa(s, l)
      <3> SUFFICES ASSUME NEW z \in Art(zz, s.firma, l), z.nr \in Gezeigt(s)
                   PROVE  z.nr \in NochDa(s, l)
        OBVIOUS
      <3>1. \E y \in zeilen : /\ y.nr \notin weg
                              /\ z.nr = y.nr /\ y.firma = s.firma /\ y.art = l
        BY <1>1 DEF Art
      <3> QED
        BY <1>5, <3>1 DEF Nrn, Art
    <2>2. \A n \in NochDa(s, l) : n \in Nrn(Art(zz, s.firma, l)) \cap Gezeigt(s)
      <3> TAKE n \in NochDa(s, l)
      <3>1. /\ n \in Gezeigt(s) /\ n \notin weg
            /\ \E y \in zeilen : y.nr = n /\ y.firma = s.firma /\ y.art = l
        BY <1>5 DEF Nrn, Art
      <3>2. \E z \in zz : z.nr = n /\ z.firma = s.firma /\ z.art = l
        BY <1>1, <3>1
      <3> QED
        BY <3>1, <3>2 DEF Nrn, Art
    <2>3. \A n \in Nrn(Art(zz, s.firma, l)) : \E z \in Art(zz, s.firma, l) : z.nr = n
      BY DEF Nrn
    <2> QED
      BY <2>1, <2>2, <2>3
  <1>7. Neue(s, zz, l) = Neue(s, zeilen, l) \cup Art(neue, s.firma, l)
    <2>1. \A z \in zz : z.nr \notin Gezeigt(s) => z \in zeilen \/ z \in neue
      BY <1>1
    <2> QED
      BY <1>1, <2>1 DEF Neue, Art
  <1>8. /\ anzahl \in Nat
        /\ NochNeu(s, l) + kk = NochNeu(t, l) + anzahl
        /\ NochNeu(t, l) \in Nat
    <2>1. /\ NochNeu(t, l) = IF Kommt(s, l) THEN f.neu
                             ELSE IF Dran(s, l) THEN s.einfuegen ELSE 0
          /\ NochNeu(s, l) = NochNeu(t, l)
                             + (IF l = "mitarbeiter" THEN s.neueMitarbeiter ELSE 0)
      BY <1>2, <1>4 DEF NochNeu, Kommt, Dran, Hand
    <2> QED
      BY <1>2, <1>4, <2>1 DEF Zahl
  <1>9. /\ anzahl = 0 => \A z \in neue : z.art # l
        /\ anzahl = 1 => \E z \in neue : Art(neue, s.firma, l) = {z}
    OBVIOUS
  <1> HIDE DEF anzahl, kk
  <1>10. \/ NochNeu(t, l) = f.neu /\ Neue(s, zz, l) = {}
        \/ /\ NochNeu(t, l) = 0 /\ f.neu = 1
           /\ \E z \in zz : Neue(s, zz, l) = {z}
    <2>1. CASE /\ NochNeu(s, l) + kk = 0 /\ f.neu = 1
               /\ \E z \in zeilen : Neue(s, zeilen, l) = {z}
      <3>1. anzahl = 0 /\ NochNeu(t, l) = 0
        BY <1>8, <2>1
      <3>2. Neue(s, zz, l) = Neue(s, zeilen, l)
        BY <1>7, <1>9, <3>1 DEF Art
      <3>3. \E z \in zz : Neue(s, zz, l) = {z}
        BY <2>1, <3>2 DEF Neue, Art
      <3> QED
        BY <2>1, <3>1, <3>3
    <2>2. CASE NochNeu(s, l) + kk = f.neu /\ Neue(s, zeilen, l) = {} /\ anzahl = 0
      BY <1>4, <1>7, <1>8, <1>9, <2>2 DEF Art
    <2>3. CASE NochNeu(s, l) + kk = f.neu /\ Neue(s, zeilen, l) = {} /\ anzahl # 0
      <3>1. anzahl = 1 /\ f.neu = 1 /\ NochNeu(t, l) = 0
        BY <1>4, <1>8, <2>3
      <3>2. \E z \in neue : Neue(s, zz, l) = {z}
        BY <1>7, <1>9, <2>3, <3>1
      <3> QED
        BY <1>1, <3>1, <3>2
    <2> QED
      BY <1>5, <2>1, <2>2, <2>3
  <1>11. \A z \in Neue(s, zz, l) : z.stand = s.nummer
    BY <1>1, <1>5, <1>7 DEF Art
  <1>12. \A z \in zz : z.nr \in f.behalten \ NochZuAendern(s, l) => z.stand = s.nummer
    BY <1>1, <1>5
  <1>13. /\ (Nrn(Art(zz, t.firma, l)) \cap Gezeigt(t)) \ {} = NochDa(t, l)
        /\ NochNeu(t, l) + 0 = NochNeu(t, l)
    <2>1. Nrn(Art(zz, t.firma, l)) \cap Gezeigt(t) = NochDa(t, l)
      BY <1>2, <1>3, <1>6
    <2>2. NochNeu(t, l) + 0 = NochNeu(t, l)
      BY <1>8
    <2> QED
      BY <2>1, <2>2
  <1>14. \A z \in zz : z.nr \in t.form[l].behalten \ NochZuAendern(t, l) =>
             z.stand = t.nummer \/ z.nr \in t.vorgemerkt
    BY <1>2, <1>3, <1>12
  <1>15. /\ \/ NochNeu(t, l) + 0 = t.form[l].neu /\ Neue(t, zz, l) = {}
            \/ /\ NochNeu(t, l) + 0 = 0 /\ t.form[l].neu = 1
               /\ \E z \in zz : Neue(t, zz, l) = {z}
         /\ \A z \in Neue(t, zz, l) : z.stand = t.nummer
    BY <1>2, <1>3, <1>10, <1>11, <1>13
  <1> QED
    BY <1>13, <1>14, <1>15 DEF ListeStimmt

LEMMA Geleert ==
    ASSUME NEW s \in Sitzung, NEW t, t = [s EXCEPT !.vorgemerkt = {}, !.neueMitarbeiter = 0]
    PROVE  Leergespuelt(s, t)
  <1>1. /\ DOMAIN s = {"pc", "firma", "nummer", "gesehen", "form", "i", "gelesen",
                       "aendern", "loeschen", "einfuegen", "vorgemerkt",
                       "neueMitarbeiter", "ungestoert"}
    BY DEF Sitzung
  <1>2. \A m \in SUBSET Nat, n \in 0..1 :
           [s EXCEPT !.vorgemerkt = m, !.neueMitarbeiter = n] \in Sitzung
    BY DEF Sitzung
  <1>3. t \in Sitzung
    <2>1. {} \in SUBSET Nat /\ 0 \in 0..1
      OBVIOUS
    <2> QED
      BY <1>2, <2>1
  <1> QED
    BY <1>1, <1>3 DEF Leergespuelt

\* A flush does to every list what was to be done at once, and nothing else.
NachSpuelen(s, weg, art, k) ==
    LET bleiben == {z \in zeilen : z.nr \notin weg}
    IN  {z \in bleiben : z.nr \notin s.vorgemerkt}
        \cup Eingefuegt(s, art, k)
        \cup {[z EXCEPT !.stand = s.nummer] : z \in {y \in bleiben : y.nr \in s.vorgemerkt}}

LEMMA SpuelenErhaelt ==
    ASSUME TypeOK, NEW s \in Sitzung, NEW art \in Listen, NEW k \in 0..1,
           NEW weg, weg \subseteq Gezeigt(s),
           \A z \in s.gesehen : z.nr < naechste,
           UpdateStimmt(s, zeilen, weg, art, k),
           NEW zz, zz = NachSpuelen(s, weg, art, k),
           NEW t, t = [s EXCEPT !.vorgemerkt = {}, !.neueMitarbeiter = 0]
    PROVE  UpdateStimmt(t, zz, {}, "mitarbeiter", 0)
  <1> DEFINE neue == Eingefuegt(s, art, k)
             bleiben == {z \in zeilen : z.nr \notin weg}
  <1>0. zz = {z \in bleiben : z.nr \notin s.vorgemerkt} \cup neue
             \cup {[z EXCEPT !.stand = s.nummer]
                     : z \in {y \in bleiben : y.nr \in s.vorgemerkt}}
    BY Zenon DEF NachSpuelen
  <1> HIDE DEF neue
  <1>1. /\ FormStimmt(s) /\ ArbeitStimmt(s) /\ s.vorgemerkt \subseteq Gezeigt(s)
        /\ \A l \in Listen : ListeStimmt(s, zeilen, l, weg, IF l = art THEN k ELSE 0)
    BY DEF UpdateStimmt
  <1>2. Leergespuelt(s, t)
    BY Geleert
  <1>3. /\ FormStimmt(t) /\ ArbeitStimmt(t) /\ t.vorgemerkt \subseteq Gezeigt(t)
    BY <1>1, <1>2 DEF Leergespuelt, FormStimmt, ArbeitStimmt, Gezeigt, Hand, Gesehene
  <1>4. /\ s.neueMitarbeiter \in 0..1 /\ s.einfuegen \in 0..1
        /\ \A z \in zeilen : z \in Zeile
        /\ \A z \in zeilen : /\ [z EXCEPT !.stand = s.nummer].nr = z.nr
                             /\ [z EXCEPT !.stand = s.nummer].firma = z.firma
                             /\ [z EXCEPT !.stand = s.nummer].art = z.art
                             /\ [z EXCEPT !.stand = s.nummer].stand = s.nummer
    BY DEF TypeOK, Sitzung, Zeile
  <1>5. \A z \in neue : /\ z.nr \notin Gezeigt(s)
                        /\ z.firma = s.firma /\ z.stand = s.nummer
    BY NeueZeilen DEF neue
  <1>6. \A z \in zz :
           \/ z \in neue
           \/ z \in zeilen /\ z.nr \notin weg /\ z.nr \notin s.vorgemerkt
           \/ \E y \in zeilen : /\ y.nr \notin weg /\ y.nr \in s.vorgemerkt
                                /\ z.nr = y.nr /\ z.firma = y.firma /\ z.art = y.art
                                /\ z.stand = s.nummer
    <2>1. \A z \in zz :
             \/ z \in neue
             \/ z \in zeilen /\ z.nr \notin weg /\ z.nr \notin s.vorgemerkt
             \/ \E y \in zeilen : /\ y.nr \notin weg /\ y.nr \in s.vorgemerkt
                                  /\ z = [y EXCEPT !.stand = s.nummer]
      BY <1>0
    <2> QED
      BY <1>4, <2>1
  <1>7. \A y \in zeilen : y.nr \notin weg =>
           \E z \in zz : z.nr = y.nr /\ z.firma = y.firma /\ z.art = y.art
    <2> TAKE y \in zeilen
    <2>1. CASE y.nr \in s.vorgemerkt
      BY <1>0, <1>4, <2>1
    <2>2. CASE y.nr \notin s.vorgemerkt
      BY <1>0, <2>2
    <2> QED
      BY <2>1, <2>2
  <1>8. \A z \in zeilen : z.nr \notin Gezeigt(s) => z \in zz
    BY <1>0, <1>1
  <1>9. neue \subseteq zz
    BY <1>0
  <1>10. Gespuelt(s, zz, weg, neue)
    BY <1>5, <1>6, <1>7, <1>8, <1>9 DEF Gespuelt
  <1>11. ASSUME NEW l \in Listen
         PROVE  ListeStimmt(t, zz, l, {}, 0)
    <2>1. /\ Zahl(s, l, art, k) = 0 => \A z \in neue : z.art # l
          /\ Zahl(s, l, art, k) = 1 => \E z \in neue : Art(neue, s.firma, l) = {z}
      BY NeueZeilen DEF neue
    <2> QED
      BY <1>1, <1>2, <1>10, <2>1, SpuelenListe
  <1> QED
    BY <1>3, <1>11 DEF UpdateStimmt

LEMMA SpuelenEineArt ==
    ASSUME TypeOK, NEW s \in Sitzung, NEW art, NEW k \in 0..1,
           NEW weg, EineArt(zeilen),
           NEW zz, zz = NachSpuelen(s, weg, art, k)
    PROVE  EineArt(zz)
  <1> DEFINE neue == Eingefuegt(s, art, k)
             bleiben == {z \in zeilen : z.nr \notin weg}
  <1>0. zz = {z \in bleiben : z.nr \notin s.vorgemerkt} \cup neue
             \cup {[z EXCEPT !.stand = s.nummer]
                     : z \in {y \in bleiben : y.nr \in s.vorgemerkt}}
    BY Zenon DEF NachSpuelen
  <1>1. /\ naechste \in Nat /\ s.neueMitarbeiter \in 0..1
        /\ \A z \in zeilen : z.nr \in Nat /\ z.nr < naechste
        /\ \A z \in zeilen : /\ [z EXCEPT !.stand = s.nummer].nr = z.nr
                             /\ [z EXCEPT !.stand = s.nummer].art = z.art
    BY DEF TypeOK, Sitzung, Zeile
  <1>2. /\ \A z \in neue : z.nr \in Nat /\ z.nr >= naechste
        /\ \A y, z \in neue : y.nr = z.nr => y.art = z.art
    BY <1>1 DEF Eingefuegt
  <1> HIDE DEF neue
  <1>3. \A z \in zz : z \in neue \/ \E y \in zeilen : z.nr = y.nr /\ z.art = y.art
    <2>1. \A z \in zz :
             \/ z \in neue \/ z \in zeilen
             \/ \E y \in zeilen : z = [y EXCEPT !.stand = s.nummer]
      BY <1>0
    <2> QED
      BY <1>1, <2>1
  <1>4. \A y, z \in zz : y.nr = z.nr => y.art = z.art
    <2> SUFFICES ASSUME NEW y \in zz, NEW z \in zz, y.nr = z.nr
                 PROVE  y.art = z.art
      OBVIOUS
    <2>1. CASE y \in neue /\ z \in neue
      BY <1>2, <2>1
    <2>2. CASE y \notin neue /\ z \notin neue
      BY <1>3, <2>2 DEF EineArt
    <2>3. CASE y \in neue /\ z \notin neue
      BY <1>1, <1>2, <1>3, <2>3
    <2>4. CASE y \notin neue /\ z \in neue
      BY <1>1, <1>2, <1>3, <2>4
    <2> QED
      BY <2>1, <2>2, <2>3, <2>4
  <1> QED
    BY <1>4 DEF EineArt

LEMMA Spuelt ==
    ASSUME NEW a, NEW s, NEW weg, NEW art, NEW k, Spuelen(a, s, weg, art, k), ~Abbrechen(a)
    PROVE  /\ zeilen' = NachSpuelen(s, weg, art, k)
           /\ naechste' = naechste + (k + s.neueMitarbeiter)
           /\ Weiter(a, [s EXCEPT !.vorgemerkt = {}, !.neueMitarbeiter = 0], TRUE)
  BY Zenon DEF Spuelen, NachSpuelen, Eingefuegt

\* A request that neither shows a form nor updates has nothing to keep.
LEMMA SonstStimmt ==
    ASSUME NEW s, s.pc \notin {"formular"} \cup AmWerk, NEW zz, NEW st
    PROVE  SitzungStimmt(s, zz, st)
  BY DEF SitzungStimmt

LEMMA LeerStimmt ==
    ASSUME NEW u, NEW zz, NEW st
    PROVE  SitzungStimmt(Leer(u), zz, st) /\ Leer(u).gesehen = {}
  BY DEF SitzungStimmt, Leer, AmWerk

\* A step of request a that leaves it as t, having written if g.
Ordentlich(a, t, g) ==
    /\ Weiter(a, t, g)
    /\ g \in BOOLEAN
    /\ g = FALSE => /\ zeilen' = zeilen
                    /\ \A u \in Firma : stamm[u] # Fehlt => stamm'[u] # Fehlt
    /\ naechste' \in Nat /\ naechste' >= naechste
    /\ EineArt(zeilen')
    /\ SitzungStimmt(t, zeilen', stamm')
    /\ \A z \in t.gesehen : z.nr < naechste'

\* It disturbs the others as far as it writes.
LEMMA AndereStimmen ==
    ASSUME TypeOK, FirmenInv, NEW a \in Anfrage, NEW t, NEW g, Ordentlich(a, t, g)
    PROVE  FirmenInv'
  <1>1. SUFFICES ASSUME NEW b \in Anfrage, b # a
                 PROVE  /\ SitzungStimmt(sitzung'[b], zeilen', stamm')
                        /\ \A z \in sitzung'[b].gesehen : z.nr < naechste'
    <2>1. sitzung'[a] = t
      BY DEF Ordentlich, Weiter
    <2> QED
      BY <1>1, <2>1 DEF FirmenInv, Ordentlich
  <1>2. sitzung'[b] = [sitzung[b] EXCEPT
                         !.ungestoert = @ /\ ~(g /\ sitzung[b].pc # "frei")]
    BY <1>1 DEF Ordentlich, Weiter
  <1>3. /\ sitzung[b] \in Sitzung /\ sitzung[b].firma \in Firma /\ naechste \in Nat
        /\ \A z \in sitzung[b].gesehen : z.nr \in Nat
    BY DEF TypeOK, Sitzung, Zeile
  <1>4. /\ SitzungStimmt(sitzung[b], zeilen, stamm)
        /\ \A z \in sitzung[b].gesehen : z.nr < naechste
    BY DEF FirmenInv
  <1>5. /\ sitzung'[b].pc = sitzung[b].pc /\ sitzung'[b].gesehen = sitzung[b].gesehen
        /\ sitzung'[b].ungestoert = (sitzung[b].ungestoert /\ ~(g /\ sitzung[b].pc # "frei"))
    BY <1>2, <1>3 DEF Sitzung
  <1>6. \A z \in sitzung'[b].gesehen : z.nr < naechste'
    BY <1>3, <1>4, <1>5 DEF Ordentlich
  <1>7. CASE sitzung[b].pc = "frei"
    BY <1>5, <1>6, <1>7, SonstStimmt DEF AmWerk
  <1>8. CASE sitzung[b].pc # "frei" /\ g = TRUE
    BY <1>5, <1>6, <1>8 DEF SitzungStimmt
  <1>9. CASE g = FALSE
    <2>1. sitzung'[b] = [sitzung[b] EXCEPT !.ungestoert = sitzung[b].ungestoert]
      BY <1>2, <1>3, <1>9 DEF Sitzung
    <2>2. sitzung'[b] = sitzung[b]
      BY <1>3, <2>1 DEF Sitzung
    <2>3. /\ zeilen' = zeilen
          /\ \A u \in Firma : stamm[u] # Fehlt => stamm'[u] # Fehlt
      BY <1>9 DEF Ordentlich
    <2>4. SitzungStimmt(sitzung[b], zeilen, stamm')
      BY <1>3, <1>4, <2>3 DEF SitzungStimmt
    <2> QED
      BY <1>6, <2>2, <2>3, <2>4
  <1> QED
    BY <1>7, <1>8, <1>9 DEF Ordentlich

\* A step in memory.
LEMMA ImSpeicherOrdentlich ==
    ASSUME TypeOK, FirmenInv, NEW a \in Anfrage, NEW t, Weiter(a, t, FALSE),
           UNCHANGED <<zeilen, naechste>>,
           \A u \in Firma : stamm[u] # Fehlt => stamm'[u] # Fehlt,
           SitzungStimmt(t, zeilen, stamm'),
           \A z \in t.gesehen : z.nr < naechste
    PROVE  Ordentlich(a, t, FALSE)
  <1>1. zeilen' = zeilen /\ naechste' = naechste
    OBVIOUS
  <1>2. naechste' \in Nat /\ naechste' >= naechste
    BY <1>1 DEF TypeOK
  <1>3. /\ SitzungStimmt(t, zeilen', stamm')
        /\ \A z \in t.gesehen : z.nr < naechste'
        /\ EineArt(zeilen')
    BY <1>1 DEF FirmenInv
  <1> QED
    BY <1>1, <1>2, <1>3 DEF Ordentlich

LEMMA AbbrechenOrdentlich ==
    ASSUME TypeOK, FirmenInv, NEW a \in Anfrage, Abbrechen(a),
           \A u \in Firma : stamm[u] # Fehlt => stamm'[u] # Fehlt
    PROVE  Ordentlich(a, Ende(a), FALSE)
  BY LeerStimmt, ImSpeicherOrdentlich DEF Abbrechen, Ende

\* A flush of update: session s, on its way, is what the step makes of the
\* session of request a before it flushes.
LEMMA SpuelenOrdentlich ==
    ASSUME TypeOK, FirmenInv, NEW a \in Anfrage, NEW s \in Sitzung,
           NEW art \in Listen, NEW k \in 0..1, NEW weg, Spuelen(a, s, weg, art, k),
           \A u \in Firma : stamm[u] # Fehlt => stamm'[u] # Fehlt,
           \A z \in s.gesehen : z.nr < naechste, s.pc # "formular",
           s.ungestoert /\ s.pc \in AmWerk =>
               /\ weg \subseteq Gezeigt(s)
               /\ stamm[s.firma] # Fehlt
               /\ UpdateStimmt(s, zeilen, weg, art, k)
    PROVE  \E t, g : Ordentlich(a, t, g)
  <1>1. CASE Abbrechen(a)
    BY <1>1, AbbrechenOrdentlich
  <1>2. CASE ~Abbrechen(a)
    <2> DEFINE t == [s EXCEPT !.vorgemerkt = {}, !.neueMitarbeiter = 0]
    <2>1. /\ zeilen' = NachSpuelen(s, weg, art, k)
          /\ naechste' = naechste + (k + s.neueMitarbeiter)
          /\ Weiter(a, t, TRUE)
      BY <1>2, Spuelt
    <2>2. /\ t \in Sitzung /\ t.vorgemerkt = {} /\ t.neueMitarbeiter = 0
          /\ t.pc = s.pc /\ t.firma = s.firma /\ t.gesehen = s.gesehen
          /\ t.ungestoert = s.ungestoert
      BY Geleert DEF Leergespuelt
    <2>3. /\ naechste' \in Nat /\ naechste' >= naechste
          /\ \A z \in t.gesehen : z.nr < naechste'
      <3>1. naechste \in Nat /\ k + s.neueMitarbeiter \in Nat
        BY DEF TypeOK, Sitzung
      <3>2. \A z \in s.gesehen : z.nr \in Nat
        BY DEF Sitzung, Zeile
      <3> QED
        BY <2>1, <2>2, <3>1, <3>2
    <2> HIDE DEF t
    <2>4. EineArt(zeilen')
      <3>1. EineArt(zeilen)
        BY DEF FirmenInv
      <3> QED
        BY <2>1, <3>1, SpuelenEineArt
    <2>5. SitzungStimmt(t, zeilen', stamm')
      <3>1. CASE s.ungestoert /\ s.pc \in AmWerk
        <4>1. UpdateStimmt(t, zeilen', {}, "mitarbeiter", 0)
          BY <2>1, <3>1, SpuelenErhaelt DEF t
        <4> QED
          BY <2>2, <3>1, <4>1 DEF SitzungStimmt, AmWerk, Sitzung
      <3> QED
        BY <2>2, <3>1 DEF SitzungStimmt
    <2> QED
      BY <2>1, <2>3, <2>4, <2>5 DEF Ordentlich
  <1> QED
    BY <1>1, <1>2

------------------------------------------------------------------------------
(* What each step of update sets itself to do.                              *)

\* The list at hand is done by none of the later rounds, as no kind comes twice.
LEMMA HandKommtNicht ==
    ASSUME NEW s \in Sitzung, ArbeitStimmt(s), s.pc \in {"mitarbeiter", "eintraege"}
    PROVE  /\ Hand(s) \in Listen
           /\ ~Kommt(s, Hand(s))
           /\ s.pc = "eintraege" => Hand(s) # "mitarbeiter"
  BY ArtenInListen, BearbeitungAssumption DEF ArbeitStimmt, Hand, Kommt, Sitzung

\* A number belongs to one list.
LEMMA NochDaGesehen ==
    ASSUME NEW s \in Sitzung, FormStimmt(s), ArbeitStimmt(s), NEW l \in Listen
    PROVE  NochDa(s, l) \subseteq Gesehene(s, l)
  <1>1. s.form[l].behalten \subseteq Gesehene(s, l)
    BY FormDa
  <1>2. Dran(s, l) => s.loeschen \subseteq Gesehene(s, l)
    BY DEF ArbeitStimmt, Dran
  <1> QED
    BY <1>1, <1>2 DEF NochDa

LEMMA Getrennt ==
    ASSUME NEW s \in Sitzung, FormStimmt(s), NEW l, NEW m,
           NEW n \in Gesehene(s, l), n \in Gesehene(s, m)
    PROVE  l = m
  BY DEF FormStimmt, EineArt, Gesehene, Nrn, Art

\* Session t has the form of s.
GleicheForm(s, t) ==
    /\ t \in Sitzung
    /\ t.firma = s.firma /\ t.nummer = s.nummer /\ t.gesehen = s.gesehen
    /\ t.ungestoert = s.ungestoert

GleicheStelle(s, t) ==
    /\ GleicheForm(s, t)
    /\ t.pc = s.pc /\ t.form = s.form /\ t.i = s.i

LEMMA GleicheStelleDef ==
    ASSUME NEW s, NEW t, GleicheStelle(s, t)
    PROVE  /\ Gezeigt(t) = Gezeigt(s)
           /\ Hand(t) = Hand(s)
           /\ FormStimmt(s) => FormStimmt(t)
           /\ \A l : /\ Gesehene(t, l) = Gesehene(s, l)
                     /\ Dran(t, l) <=> Dran(s, l)
                     /\ Kommt(t, l) <=> Kommt(s, l)
           /\ \A zz, l : Neue(t, zz, l) = Neue(s, zz, l)
  BY DEF GleicheStelle, GleicheForm, Gezeigt, Hand, FormStimmt, Gesehene, Dran, Kommt, Neue

\* Row n is to be deleted by the next flush.
LEMMA LoeschenVormerken ==
    ASSUME NEW s \in Sitzung, NEW zz, UpdateStimmt(s, zz, {}, "mitarbeiter", 0),
           s.pc \in {"mitarbeiter", "eintraege"}, s.pc = "eintraege" => s.gelesen,
           NEW n \in s.loeschen, NEW t, GleicheStelle(s, t),
           t.loeschen = s.loeschen \ {n}, t.gelesen = s.gelesen,
           t.aendern = s.aendern, t.einfuegen = s.einfuegen,
           t.vorgemerkt = s.vorgemerkt, t.neueMitarbeiter = s.neueMitarbeiter,
           NEW art \in Listen
    PROVE  {n} \subseteq Gezeigt(t) /\ UpdateStimmt(t, zz, {n}, art, 0)
  <1> DEFINE h == Hand(s)
  <1>1. /\ FormStimmt(s) /\ ArbeitStimmt(s) /\ s.vorgemerkt \subseteq Gezeigt(s)
        /\ \A l \in Listen : ListeStimmt(s, zz, l, {}, 0)
    BY DEF UpdateStimmt
  <1>2. h \in Listen /\ ~Kommt(s, h) /\ (s.pc = "eintraege" => h # "mitarbeiter")
    BY <1>1, HandKommtNicht
  <1>3. /\ n \in Gesehene(s, h) /\ n \notin s.form[h].behalten
        /\ Gesehene(s, h) \subseteq Gezeigt(s)
    BY <1>1, <1>2, FormDa DEF ArbeitStimmt
  <1>4. t.pc = s.pc /\ t.form = s.form /\ t.i = s.i /\ t.firma = s.firma
        /\ t.nummer = s.nummer /\ t.gesehen = s.gesehen
    BY DEF GleicheStelle, GleicheForm
  <1>5. /\ Gezeigt(t) = Gezeigt(s) /\ Hand(t) = Hand(s) /\ FormStimmt(t)
        /\ \A l : /\ Gesehene(t, l) = Gesehene(s, l)
                  /\ Dran(t, l) <=> Dran(s, l)
                  /\ Kommt(t, l) <=> Kommt(s, l)
                  /\ Neue(t, zz, l) = Neue(s, zz, l)
    BY <1>1, GleicheStelleDef
  <1>6. ArbeitStimmt(t)
    BY <1>1, <1>4, <1>5 DEF ArbeitStimmt
  <1>7. ASSUME NEW l \in Listen
        PROVE  ListeStimmt(t, zz, l, {n}, 0)
    <2>1. NochDa(t, l) = NochDa(s, l) \ {n}
      <3>1. CASE l = h
        <4>1. s.pc = "mitarbeiter" => h = "mitarbeiter" /\ LeereForm(s.form[h])
          BY <1>1 DEF Hand, ArbeitStimmt
        <4> QED
          BY <1>2, <1>3, <1>4, <1>5, <3>1, <4>1 DEF NochDa, Dran
      <3>2. CASE l # h
        <4>1. n \notin NochDa(s, l)
          BY <1>1, <1>3, <3>2, NochDaGesehen, Getrennt
        <4>2. NochDa(t, l) = NochDa(s, l)
          BY <1>4, <1>5, <3>2 DEF NochDa, Dran
        <4> QED
          BY <4>1, <4>2
      <3> QED
        BY <3>1, <3>2
    <2>2. /\ NochZuAendern(t, l) = NochZuAendern(s, l)
          /\ NochNeu(t, l) = NochNeu(s, l)
      BY <1>4, <1>5 DEF NochZuAendern, NochNeu
    <2>3. /\ (Nrn(Art(zz, s.firma, l)) \cap Gezeigt(s)) \ {} = NochDa(s, l)
          /\ \/ NochNeu(s, l) + 0 = s.form[l].neu /\ Neue(s, zz, l) = {}
             \/ /\ NochNeu(s, l) + 0 = 0 /\ s.form[l].neu = 1
                /\ \E z \in zz : Neue(s, zz, l) = {z}
          /\ \A z \in Neue(s, zz, l) : z.stand = s.nummer
          /\ \A z \in zz : z.nr \in s.form[l].behalten \ NochZuAendern(s, l) =>
                 z.stand = s.nummer \/ z.nr \in s.vorgemerkt
      BY <1>1 DEF ListeStimmt
    <2>4. (Nrn(Art(zz, t.firma, l)) \cap Gezeigt(t)) \ {n} = NochDa(t, l)
      BY <1>4, <1>5, <2>1, <2>3
    <2> QED
      BY <1>4, <1>5, <2>2, <2>3, <2>4 DEF ListeStimmt
  <1>8. t.vorgemerkt \subseteq Gezeigt(t)
    BY <1>1, <1>5
  <1>9. \A l \in Listen : ListeStimmt(t, zz, l, {n}, IF l = art THEN 0 ELSE 0)
    BY <1>7
  <1> QED
    BY <1>3, <1>5, <1>6, <1>8, <1>9 DEF UpdateStimmt

\* Row n has been changed in memory.
LEMMA AendernVormerken ==
    ASSUME NEW s \in Sitzung, NEW zz, UpdateStimmt(s, zz, {}, "mitarbeiter", 0),
           s.pc \in {"mitarbeiter", "eintraege"},
           NEW n \in s.aendern, NEW t, GleicheStelle(s, t),
           t.loeschen = s.loeschen, t.gelesen = s.gelesen,
           t.aendern = s.aendern \ {n}, t.einfuegen = s.einfuegen,
           t.vorgemerkt = s.vorgemerkt \cup {n}, t.neueMitarbeiter = s.neueMitarbeiter,
           NEW art \in Listen
    PROVE  UpdateStimmt(t, zz, {}, art, 0)
  <1> DEFINE h == Hand(s)
  <1>1. /\ FormStimmt(s) /\ ArbeitStimmt(s) /\ s.vorgemerkt \subseteq Gezeigt(s)
        /\ \A l \in Listen : ListeStimmt(s, zz, l, {}, 0)
    BY DEF UpdateStimmt
  <1>2. h \in Listen
    BY <1>1, HandKommtNicht
  <1>3. n \in Gezeigt(s)
    BY <1>1, <1>2, FormDa DEF ArbeitStimmt
  <1>4. t.pc = s.pc /\ t.form = s.form /\ t.i = s.i /\ t.firma = s.firma
        /\ t.nummer = s.nummer /\ t.gesehen = s.gesehen
    BY DEF GleicheStelle, GleicheForm
  <1>5. /\ Gezeigt(t) = Gezeigt(s) /\ Hand(t) = Hand(s) /\ FormStimmt(t)
        /\ \A l : /\ Gesehene(t, l) = Gesehene(s, l)
                  /\ Dran(t, l) <=> Dran(s, l)
                  /\ Kommt(t, l) <=> Kommt(s, l)
                  /\ Neue(t, zz, l) = Neue(s, zz, l)
    BY <1>1, GleicheStelleDef
  <1>6. ArbeitStimmt(t)
    BY <1>1, <1>4, <1>5 DEF ArbeitStimmt
  <1>7. ASSUME NEW l \in Listen
        PROVE  ListeStimmt(t, zz, l, {}, 0)
    <2>1. /\ NochDa(t, l) = NochDa(s, l)
          /\ NochNeu(t, l) = NochNeu(s, l)
          /\ NochZuAendern(s, l) \subseteq NochZuAendern(t, l) \cup {n}
      BY <1>4, <1>5 DEF NochDa, NochZuAendern, NochNeu
    <2>2. /\ (Nrn(Art(zz, s.firma, l)) \cap Gezeigt(s)) \ {} = NochDa(s, l)
          /\ \/ NochNeu(s, l) + 0 = s.form[l].neu /\ Neue(s, zz, l) = {}
             \/ /\ NochNeu(s, l) + 0 = 0 /\ s.form[l].neu = 1
                /\ \E z \in zz : Neue(s, zz, l) = {z}
          /\ \A z \in Neue(s, zz, l) : z.stand = s.nummer
          /\ \A z \in zz : z.nr \in s.form[l].behalten \ NochZuAendern(s, l) =>
                 z.stand = s.nummer \/ z.nr \in s.vorgemerkt
      BY <1>1 DEF ListeStimmt
    <2>3. \A z \in zz : z.nr \in t.form[l].behalten \ NochZuAendern(t, l) =>
              z.stand = t.nummer \/ z.nr \in t.vorgemerkt
      BY <1>4, <2>1, <2>2
    <2> QED
      BY <1>4, <1>5, <2>1, <2>2, <2>3 DEF ListeStimmt
  <1>8. t.vorgemerkt \subseteq Gezeigt(t)
    BY <1>1, <1>3, <1>5
  <1>9. \A l \in Listen : ListeStimmt(t, zz, l, {}, IF l = art THEN 0 ELSE 0)
    BY <1>7
  <1> QED
    BY <1>5, <1>6, <1>8, <1>9 DEF UpdateStimmt

\* The new entry of the list at hand is to be inserted by the next flush.
LEMMA EinfuegenVormerken ==
    ASSUME NEW s \in Sitzung, NEW zz, UpdateStimmt(s, zz, {}, "mitarbeiter", 0),
           s.pc = "eintraege", s.gelesen, s.einfuegen = 1,
           NEW t, GleicheStelle(s, t),
           t.loeschen = s.loeschen, t.gelesen = s.gelesen,
           t.aendern = s.aendern, t.einfuegen = 0,
           t.vorgemerkt = s.vorgemerkt, t.neueMitarbeiter = s.neueMitarbeiter
    PROVE  UpdateStimmt(t, zz, {}, Arten[s.i], 1)
  <1> DEFINE h == Arten[s.i]
  <1>1. /\ FormStimmt(s) /\ ArbeitStimmt(s) /\ s.vorgemerkt \subseteq Gezeigt(s)
        /\ \A l \in Listen : ListeStimmt(s, zz, l, {}, 0)
    BY DEF UpdateStimmt
  <1>2. h = Hand(s) /\ h \in Listen /\ ~Kommt(s, h) /\ h # "mitarbeiter"
    BY <1>1, HandKommtNicht DEF Hand
  <1>4. t.pc = s.pc /\ t.form = s.form /\ t.i = s.i /\ t.firma = s.firma
        /\ t.nummer = s.nummer /\ t.gesehen = s.gesehen
    BY DEF GleicheStelle, GleicheForm
  <1>5. /\ Gezeigt(t) = Gezeigt(s) /\ Hand(t) = Hand(s) /\ FormStimmt(t)
        /\ \A l : /\ Gesehene(t, l) = Gesehene(s, l)
                  /\ Dran(t, l) <=> Dran(s, l)
                  /\ Kommt(t, l) <=> Kommt(s, l)
                  /\ Neue(t, zz, l) = Neue(s, zz, l)
    BY <1>1, GleicheStelleDef
  <1>6. ArbeitStimmt(t)
    BY <1>1, <1>4, <1>5 DEF ArbeitStimmt
  <1> HIDE DEF h
  <1>7. ASSUME NEW l \in Listen
        PROVE  ListeStimmt(t, zz, l, {}, IF l = h THEN 1 ELSE 0)
    <2>1. /\ NochDa(t, l) = NochDa(s, l)
          /\ NochZuAendern(t, l) = NochZuAendern(s, l)
      BY <1>4, <1>5 DEF NochDa, NochZuAendern
    <2>2. /\ l = h => NochNeu(s, l) = 1 /\ NochNeu(t, l) = 0
          /\ l # h => NochNeu(t, l) = NochNeu(s, l)
      BY <1>2, <1>4, <1>5 DEF NochNeu, Dran
    <2>3. /\ (Nrn(Art(zz, s.firma, l)) \cap Gezeigt(s)) \ {} = NochDa(s, l)
          /\ \/ NochNeu(s, l) + 0 = s.form[l].neu /\ Neue(s, zz, l) = {}
             \/ /\ NochNeu(s, l) + 0 = 0 /\ s.form[l].neu = 1
                /\ \E z \in zz : Neue(s, zz, l) = {z}
          /\ \A z \in Neue(s, zz, l) : z.stand = s.nummer
          /\ \A z \in zz : z.nr \in s.form[l].behalten \ NochZuAendern(s, l) =>
                 z.stand = s.nummer \/ z.nr \in s.vorgemerkt
      BY <1>1 DEF ListeStimmt
    <2>4. CASE l = h
      <3>1. NochNeu(t, l) + 1 = t.form[l].neu /\ Neue(t, zz, l) = {}
        BY <1>4, <1>5, <2>2, <2>3, <2>4
      <3> QED
        BY <1>4, <1>5, <2>1, <2>3, <2>4, <3>1 DEF ListeStimmt
    <2>5. CASE l # h
      BY <1>4, <1>5, <2>1, <2>2, <2>3, <2>5 DEF ListeStimmt
    <2> QED
      BY <2>4, <2>5
  <1>8. t.vorgemerkt \subseteq Gezeigt(t)
    BY <1>1, <1>5
  <1> QED
    BY <1>5, <1>6, <1>7, <1>8 DEF UpdateStimmt, h

LEMMA ListeBleibt ==
    ASSUME NEW s, NEW t, NEW zz, NEW l, ListeStimmt(s, zz, l, {}, 0),
           t.firma = s.firma, t.nummer = s.nummer, t.vorgemerkt = s.vorgemerkt,
           t.form = s.form, Gezeigt(t) = Gezeigt(s), Neue(t, zz, l) = Neue(s, zz, l),
           NochDa(t, l) = NochDa(s, l), NochZuAendern(t, l) = NochZuAendern(s, l),
           NochNeu(t, l) = NochNeu(s, l)
    PROVE  ListeStimmt(t, zz, l, {}, 0)
  BY DEF ListeStimmt

\* The new employee has been added in memory.
LEMMA NeuVormerken ==
    ASSUME NEW s \in Sitzung, NEW zz, UpdateStimmt(s, zz, {}, "mitarbeiter", 0),
           s.pc = "mitarbeiter", s.einfuegen = 1,
           NEW t, GleicheStelle(s, t),
           t.loeschen = s.loeschen, t.gelesen = s.gelesen,
           t.aendern = s.aendern, t.einfuegen = 0,
           t.vorgemerkt = s.vorgemerkt, t.neueMitarbeiter = 1
    PROVE  UpdateStimmt(t, zz, {}, "mitarbeiter", 0)
  <1>1. /\ FormStimmt(s) /\ ArbeitStimmt(s) /\ s.vorgemerkt \subseteq Gezeigt(s)
        /\ \A l \in Listen : ListeStimmt(s, zz, l, {}, 0)
    BY DEF UpdateStimmt
  <1>2. Hand(s) = "mitarbeiter" /\ ~Kommt(s, "mitarbeiter") /\ "mitarbeiter" \in Listen
    BY <1>1, HandKommtNicht DEF Hand
  <1>4. t.pc = s.pc /\ t.form = s.form /\ t.i = s.i /\ t.firma = s.firma
        /\ t.nummer = s.nummer /\ t.gesehen = s.gesehen
    BY DEF GleicheStelle, GleicheForm
  <1>5. /\ Gezeigt(t) = Gezeigt(s) /\ Hand(t) = Hand(s) /\ FormStimmt(t)
        /\ \A l : /\ Gesehene(t, l) = Gesehene(s, l)
                  /\ Dran(t, l) <=> Dran(s, l)
                  /\ Kommt(t, l) <=> Kommt(s, l)
                  /\ Neue(t, zz, l) = Neue(s, zz, l)
    BY <1>1, GleicheStelleDef
  <1>6. ArbeitStimmt(t)
    BY <1>1, <1>4, <1>5 DEF ArbeitStimmt
  <1>7. ASSUME NEW l \in Listen
        PROVE  ListeStimmt(t, zz, l, {}, 0)
    <2>1. /\ NochDa(t, l) = NochDa(s, l)
          /\ NochZuAendern(t, l) = NochZuAendern(s, l)
      BY <1>4, <1>5 DEF NochDa, NochZuAendern
    <2>2. NochNeu(t, l) = NochNeu(s, l)
      <3>1. CASE l = "mitarbeiter"
        <4>1. /\ NochNeu(s, l) = 1 + s.neueMitarbeiter
              /\ NochNeu(t, l) = 0 + 1
          BY <1>2, <1>4, <1>5, <3>1 DEF NochNeu, Dran
        <4>2. NochNeu(s, l) + 0 = s.form[l].neu \/ NochNeu(s, l) + 0 = 0
          BY <1>1 DEF ListeStimmt
        <4>3. s.form[l].neu \in 0..1 /\ s.neueMitarbeiter \in 0..1
          BY <1>1, FormDa DEF Sitzung
        <4> QED
          BY <4>1, <4>2, <4>3
      <3>2. CASE l # "mitarbeiter"
        BY <1>2, <1>4, <1>5, <3>2 DEF NochNeu, Dran
      <3> QED
        BY <3>1, <3>2
    <2> QED
      BY <1>1, <1>4, <1>5, <2>1, <2>2, ListeBleibt
  <1>8. t.vorgemerkt \subseteq Gezeigt(t)
    BY <1>1, <1>5
  <1>9. \A l \in Listen : ListeStimmt(t, zz, l, {}, IF l = "mitarbeiter" THEN 0 ELSE 0)
    BY <1>7
  <1> QED
    BY <1>5, <1>6, <1>8, <1>9 DEF UpdateStimmt

\* A list of which nothing has been inserted yet is all seen.
LEMMA NichtsNeues ==
    ASSUME NEW s \in Sitzung, NEW zz, NEW l \in Listen, FormStimmt(s),
           ListeStimmt(s, zz, l, {}, 0), NochNeu(s, l) = s.form[l].neu
    PROVE  /\ Neue(s, zz, l) = {}
           /\ Nrn(Art(zz, s.firma, l)) = NochDa(s, l)
  <1>1. s.form[l].neu \in 0..1
    BY FormDa
  <1>2. /\ (Nrn(Art(zz, s.firma, l)) \cap Gezeigt(s)) \ {} = NochDa(s, l)
        /\ \/ NochNeu(s, l) + 0 = s.form[l].neu /\ Neue(s, zz, l) = {}
           \/ NochNeu(s, l) + 0 = 0 /\ s.form[l].neu = 1
    BY DEF ListeStimmt
  <1>3. Neue(s, zz, l) = {}
    BY <1>1, <1>2
  <1>4. Nrn(Art(zz, s.firma, l)) \subseteq Gezeigt(s)
    BY <1>3 DEF Neue, Nrn
  <1> QED
    BY <1>2, <1>3, <1>4

\* What is left of the list at hand is to be deleted.
LEMMA VergleichenVormerken ==
    ASSUME NEW s \in Sitzung, NEW zz, UpdateStimmt(s, zz, {}, "mitarbeiter", 0),
           s.pc = "eintraege", ~s.gelesen,
           NEW t, GleicheStelle(s, t), t.gelesen = TRUE,
           t.loeschen = Nrn(Art(zz, s.firma, Arten[s.i])) \ s.form[Arten[s.i]].behalten,
           t.aendern = s.aendern, t.einfuegen = s.einfuegen,
           t.vorgemerkt = s.vorgemerkt, t.neueMitarbeiter = s.neueMitarbeiter
    PROVE  UpdateStimmt(t, zz, {}, "mitarbeiter", 0)
  <1> DEFINE h == Arten[s.i]
  <1>1. /\ FormStimmt(s) /\ ArbeitStimmt(s) /\ s.vorgemerkt \subseteq Gezeigt(s)
        /\ \A l \in Listen : ListeStimmt(s, zz, l, {}, 0)
    BY DEF UpdateStimmt
  <1>2. h = Hand(s) /\ h \in Listen /\ ~Kommt(s, h) /\ h # "mitarbeiter"
    BY <1>1, HandKommtNicht DEF Hand
  <1> HIDE DEF h
  <1>3. t.loeschen = Nrn(Art(zz, s.firma, h)) \ s.form[h].behalten
    BY DEF h
  <1>4. t.pc = s.pc /\ t.form = s.form /\ t.i = s.i /\ t.firma = s.firma
        /\ t.nummer = s.nummer /\ t.gesehen = s.gesehen
    BY DEF GleicheStelle, GleicheForm
  <1>5. /\ Gezeigt(t) = Gezeigt(s) /\ Hand(t) = Hand(s) /\ FormStimmt(t)
        /\ \A l : /\ Gesehene(t, l) = Gesehene(s, l)
                  /\ Dran(t, l) <=> Dran(s, l)
                  /\ Kommt(t, l) <=> Kommt(s, l)
                  /\ Neue(t, zz, l) = Neue(s, zz, l)
    BY <1>1, GleicheStelleDef
  <1>6. Dran(s, h) /\ NochDa(s, h) = Gesehene(s, h) /\ NochNeu(s, h) = s.form[h].neu
    <2>1. Dran(s, h) /\ s.einfuegen = s.form[h].neu
      BY <1>1, <1>2 DEF Dran, ArbeitStimmt
    <2>2. s.einfuegen + 0 = s.einfuegen
      BY DEF Sitzung
    <2> QED
      BY <1>2, <2>1, <2>2 DEF NochDa, NochNeu
  <1>7. Nrn(Art(zz, s.firma, h)) = Gesehene(s, h)
    BY <1>1, <1>2, <1>6, NichtsNeues
  <1>8. s.form[h].behalten \subseteq Gesehene(s, h)
    BY <1>1, <1>2, FormDa
  <1>9. ArbeitStimmt(t)
    BY <1>1, <1>2, <1>3, <1>4, <1>5, <1>7 DEF ArbeitStimmt
  <1>10. ASSUME NEW l \in Listen
         PROVE  ListeStimmt(t, zz, l, {}, 0)
    <2>1. /\ NochNeu(t, l) = NochNeu(s, l)
          /\ NochZuAendern(t, l) = NochZuAendern(s, l)
      BY <1>4, <1>5 DEF NochNeu, NochZuAendern
    <2>2. NochDa(t, l) = NochDa(s, l)
      <3>1. CASE l = h
        <4>1. NochDa(t, h) = t.form[h].behalten \cup t.loeschen
          BY <1>2, <1>5, <1>6 DEF NochDa
        <4> QED
          BY <1>3, <1>4, <1>6, <1>7, <1>8, <3>1, <4>1
      <3>2. CASE l # h
        <4>1. ~Dran(s, l)
          BY <1>2, <3>2 DEF Dran
        <4> QED
          BY <1>4, <1>5, <4>1 DEF NochDa
      <3> QED
        BY <3>1, <3>2
    <2> QED
      BY <1>1, <1>4, <1>5, <2>1, <2>2, ListeBleibt
  <1>11. t.vorgemerkt \subseteq Gezeigt(t)
    BY <1>1, <1>5
  <1>12. \A l \in Listen : ListeStimmt(t, zz, l, {}, IF l = "mitarbeiter" THEN 0 ELSE 0)
    BY <1>10
  <1> QED
    BY <1>5, <1>9, <1>11, <1>12 DEF UpdateStimmt

\* Nothing is left to do of the list at hand.
LEMMA Erledigt ==
    ASSUME NEW s \in Sitzung, ArbeitStimmt(s), Getan(s),
           s.pc = "mitarbeiter" \/ (s.pc = "eintraege" /\ s.gelesen),
           NEW l \in Listen, l = Hand(s)
    PROVE  /\ NochDa(s, l) = IF l # "mitarbeiter" THEN s.form[l].behalten
                             ELSE IF LeereForm(s.form[l]) THEN {} ELSE Gesehene(s, l)
           /\ NochZuAendern(s, l) = {}
           /\ NochNeu(s, l) = IF l = "mitarbeiter" THEN s.neueMitarbeiter ELSE 0
  <1>1. ~Kommt(s, l) /\ (s.pc = "eintraege" => l # "mitarbeiter") /\ Dran(s, l)
    BY HandKommtNicht DEF Dran
  <1>2. s.pc = "mitarbeiter" => l = "mitarbeiter"
    BY DEF Hand
  <1>3. s.neueMitarbeiter \in 0..1
    BY DEF Sitzung
  <1> QED
    BY <1>1, <1>2, <1>3 DEF Getan, NochDa, NochZuAendern, NochNeu

\* The last list is done: the company is saved.
LEMMA ListenFertig ==
    ASSUME NEW s \in Sitzung, NEW zz, UpdateStimmt(s, zz, {}, "mitarbeiter", 0), Getan(s),
           s.pc = "mitarbeiter" \/ (s.pc = "eintraege" /\ s.gelesen),
           s.i + 1 > Len(Arten),
           NEW t, GleicheForm(s, t), t.form = s.form, t.i = s.i, t.pc = "speichern",
           t.vorgemerkt = s.vorgemerkt, t.neueMitarbeiter = s.neueMitarbeiter
    PROVE  UpdateStimmt(t, zz, {}, "mitarbeiter", 0)
  <1>1. /\ FormStimmt(s) /\ ArbeitStimmt(s) /\ s.vorgemerkt \subseteq Gezeigt(s)
        /\ \A l \in Listen : ListeStimmt(s, zz, l, {}, 0)
    BY DEF UpdateStimmt
  <1>2. s.i \in Nat /\ s.i <= Len(Arten)
    BY <1>1, ArtenInListen DEF ArbeitStimmt
  <1>3. t.i = Len(Arten) /\ \A l : ~Kommt(s, l) /\ ~Kommt(t, l)
    BY <1>2, ArtenInListen DEF Kommt
  <1>4. /\ t.firma = s.firma /\ t.nummer = s.nummer /\ t.gesehen = s.gesehen
        /\ Gezeigt(t) = Gezeigt(s)
        /\ \A l : Gesehene(t, l) = Gesehene(s, l) /\ Neue(t, zz, l) = Neue(s, zz, l)
    BY DEF GleicheForm, Gezeigt, Gesehene, Neue
  <1>5. FormStimmt(t) /\ ArbeitStimmt(t) /\ t.vorgemerkt \subseteq Gezeigt(t)
    BY <1>1, <1>3, <1>4 DEF FormStimmt, ArbeitStimmt
  <1>6. ASSUME NEW l \in Listen
        PROVE  ListeStimmt(t, zz, l, {}, 0)
    <2>1. ~Dran(t, l)
      BY DEF Dran
    <2>2. /\ NochDa(t, l) = IF l # "mitarbeiter" THEN s.form[l].behalten
                            ELSE IF LeereForm(s.form[l]) THEN {} ELSE Gesehene(s, l)
          /\ NochZuAendern(t, l) = {}
          /\ NochNeu(t, l) = 0 + (IF l = "mitarbeiter" THEN s.neueMitarbeiter ELSE 0)
      BY <1>3, <1>4, <2>1 DEF NochDa, NochZuAendern, NochNeu
    <2>3. /\ NochDa(s, l) = IF l # "mitarbeiter" THEN s.form[l].behalten
                            ELSE IF LeereForm(s.form[l]) THEN {} ELSE Gesehene(s, l)
          /\ NochZuAendern(s, l) = {}
          /\ NochNeu(s, l) = 0 + (IF l = "mitarbeiter" THEN s.neueMitarbeiter ELSE 0)
      <3>1. CASE l = Hand(s)
        <4>1. s.neueMitarbeiter \in 0..1
          BY DEF Sitzung
        <4> QED
          BY <1>1, <3>1, <4>1, Erledigt
      <3>2. CASE l # Hand(s)
        BY <1>3, <3>2 DEF NochDa, NochZuAendern, NochNeu, Dran
      <3> QED
        BY <3>1, <3>2
    <2> QED
      BY <1>1, <1>4, <2>2, <2>3, ListeBleibt
  <1>7. \A l \in Listen : ListeStimmt(t, zz, l, {}, IF l = "mitarbeiter" THEN 0 ELSE 0)
    BY <1>6
  <1> QED
    BY <1>5, <1>7 DEF UpdateStimmt

\* The next list is taken up.
LEMMA NaechsteListe ==
    ASSUME NEW s \in Sitzung, NEW zz, UpdateStimmt(s, zz, {}, "mitarbeiter", 0), Getan(s),
           s.pc = "mitarbeiter" \/ (s.pc = "eintraege" /\ s.gelesen),
           s.i + 1 <= Len(Arten), NEW h, h = Arten[s.i + 1],
           NEW t, GleicheForm(s, t), t.form = s.form, t.i = s.i + 1, t.pc = "eintraege",
           t.vorgemerkt = s.vorgemerkt, t.neueMitarbeiter = s.neueMitarbeiter,
           t.einfuegen = s.form[h].neu,
           \/ /\ t.gelesen = TRUE
              /\ t.aendern = s.form[h].behalten \cap Nrn(Art(zz, s.firma, h))
              /\ t.loeschen = Nrn(Art(zz, s.firma, h)) \ s.form[h].behalten
           \/ /\ t.gelesen = FALSE
              /\ t.aendern = s.form[h].behalten
              /\ t.loeschen = {}
    PROVE  UpdateStimmt(t, zz, {}, "mitarbeiter", 0)
  <1>1. /\ FormStimmt(s) /\ ArbeitStimmt(s) /\ s.vorgemerkt \subseteq Gezeigt(s)
        /\ \A l \in Listen : ListeStimmt(s, zz, l, {}, 0)
    BY DEF UpdateStimmt
  <1>2. s.i \in Nat /\ s.i + 1 \in DOMAIN Arten
    BY ArtenInListen DEF Sitzung
  <1>3. /\ h \in Listen /\ h # "mitarbeiter"
        /\ Kommt(s, h) /\ ~Kommt(t, h) /\ h # Hand(s)
    <2>1. h \in Listen /\ h # "mitarbeiter" /\ Kommt(s, h)
      BY <1>2, ArtenInListen, BearbeitungAssumption DEF Kommt
    <2>2. ~Kommt(t, h)
      BY <1>2, ArtenInListen, BearbeitungAssumption DEF Kommt
    <2>3. ~Kommt(s, Hand(s))
      BY <1>1, HandKommtNicht
    <2> QED
      BY <2>1, <2>2, <2>3
  <1>4. /\ t.firma = s.firma /\ t.nummer = s.nummer /\ t.gesehen = s.gesehen
        /\ Gezeigt(t) = Gezeigt(s) /\ Hand(t) = h
        /\ \A l : Gesehene(t, l) = Gesehene(s, l) /\ Neue(t, zz, l) = Neue(s, zz, l)
    BY DEF GleicheForm, Gezeigt, Gesehene, Neue, Hand
  <1>5. /\ s.form[h].behalten \subseteq Gesehene(s, h)
        /\ s.form[h].neu \in 0..1
    BY <1>1, <1>3, FormDa
  <1>6. NochNeu(s, h) = s.form[h].neu /\ NochDa(s, h) = Gesehene(s, h)
        /\ NochZuAendern(s, h) = s.form[h].behalten
    BY <1>3, <1>5 DEF NochNeu, NochDa, NochZuAendern
  <1>7. Nrn(Art(zz, s.firma, h)) = Gesehene(s, h)
    BY <1>1, <1>3, <1>6, NichtsNeues
  <1>8. /\ t.aendern = s.form[h].behalten
        /\ t.gelesen = TRUE => t.loeschen = Gesehene(s, h) \ s.form[h].behalten
        /\ t.gelesen # TRUE => t.loeschen = {} /\ t.gelesen = FALSE
    <2>1. CASE t.gelesen = TRUE
      <3>1. /\ t.aendern = s.form[h].behalten \cap Nrn(Art(zz, s.firma, h))
            /\ t.loeschen = Nrn(Art(zz, s.firma, h)) \ s.form[h].behalten
        BY <2>1
      <3>2. t.aendern = s.form[h].behalten
        BY <1>5, <1>7, <3>1
      <3> QED
        BY <1>7, <2>1, <3>1, <3>2
    <2>2. CASE t.gelesen = FALSE
      BY <2>2
    <2> QED
      BY <2>1, <2>2
  <1>9. FormStimmt(t) /\ t.vorgemerkt \subseteq Gezeigt(t)
    BY <1>1, <1>4 DEF FormStimmt
  <1>10. ArbeitStimmt(t)
    BY <1>2, <1>4, <1>8 DEF ArbeitStimmt
  <1>11. ASSUME NEW l \in Listen
         PROVE  ListeStimmt(t, zz, l, {}, 0)
    <2>1. CASE l = h
      <3>1. Dran(t, h)
        BY <1>4 DEF Dran
      <3>2. NochNeu(t, h) = NochNeu(s, h)
        BY <1>3, <1>5, <1>6, <3>1 DEF NochNeu
      <3>3. NochZuAendern(t, h) = NochZuAendern(s, h)
        BY <1>3, <1>6, <1>8, <3>1 DEF NochZuAendern
      <3>4. NochDa(t, h) = NochDa(s, h)
        <4>2. CASE t.gelesen = TRUE
          <5>1. NochDa(t, h) = s.form[h].behalten \cup t.loeschen
            BY <1>3, <1>4, <3>1, <4>2 DEF NochDa
          <5> QED
            BY <1>5, <1>6, <1>8, <4>2, <5>1
        <4>3. CASE t.gelesen = FALSE
          <5>1. NochDa(t, h) = Gesehene(s, h)
            BY <1>3, <1>4, <3>1, <4>3 DEF NochDa
          <5> QED
            BY <1>6, <5>1
        <4> QED
          BY <1>8, <4>2, <4>3
      <3> QED
        <4>1. ListeStimmt(s, zz, h, {}, 0) /\ Neue(t, zz, h) = Neue(s, zz, h)
          BY <1>1, <1>3, <1>4
        <4>2. ListeStimmt(t, zz, h, {}, 0)
          BY <1>4, <3>2, <3>3, <3>4, <4>1, ListeBleibt
        <4> QED
          BY <2>1, <4>2
    <2>2. CASE l # h
      <3>1. ~Dran(t, l) /\ (Kommt(t, l) <=> Kommt(s, l))
        <4>1. ~Dran(t, l)
          BY <1>4, <2>2 DEF Dran
        <4>2. \A j \in DOMAIN Arten : Arten[j] = l => (j > s.i <=> j > s.i + 1)
          BY <1>2, <2>2, ArtenInListen
        <4> QED
          BY <4>1, <4>2 DEF Kommt
      <3>2. CASE l = Hand(s)
        <4>1. s.neueMitarbeiter \in 0..1 /\ ~Kommt(s, l)
          BY <1>1, <3>2, HandKommtNicht DEF Sitzung
        <4>2. /\ NochDa(s, l) = IF l # "mitarbeiter" THEN s.form[l].behalten
                                ELSE IF LeereForm(s.form[l]) THEN {} ELSE Gesehene(s, l)
              /\ NochZuAendern(s, l) = {}
              /\ NochNeu(s, l) = IF l = "mitarbeiter" THEN s.neueMitarbeiter ELSE 0
          BY <1>1, <3>2, Erledigt
        <4>3. NochDa(t, l) = NochDa(s, l)
          BY <1>4, <3>1, <4>1, <4>2 DEF NochDa
        <4>4. NochZuAendern(t, l) = NochZuAendern(s, l)
          BY <3>1, <4>1, <4>2 DEF NochZuAendern
        <4>5. NochNeu(t, l) = NochNeu(s, l)
          BY <3>1, <4>1, <4>2 DEF NochNeu
        <4> QED
          BY <1>1, <1>4, <4>3, <4>4, <4>5, ListeBleibt
      <3>3. CASE l # Hand(s)
        <4>1. ~Dran(s, l)
          BY <3>3 DEF Dran
        <4>2. /\ NochDa(t, l) = NochDa(s, l)
              /\ NochZuAendern(t, l) = NochZuAendern(s, l)
              /\ NochNeu(t, l) = NochNeu(s, l)
          BY <1>4, <3>1, <4>1 DEF NochDa, NochZuAendern, NochNeu
        <4> QED
          BY <1>1, <1>4, <4>2, ListeBleibt
      <3> QED
        BY <3>2, <3>3
    <2> QED
      BY <2>1, <2>2
  <1>12. \A l \in Listen : ListeStimmt(t, zz, l, {}, IF l = "mitarbeiter" THEN 0 ELSE 0)
    BY <1>11
  <1> QED
    BY <1>9, <1>10, <1>12 DEF UpdateStimmt

\* The form comes back.
LEMMA FormularZurueck ==
    ASSUME NEW s \in Sitzung, NEW zz, EineArt(zz),
           s.gesehen = {z \in zz : z.firma = s.firma},
           s.i = 0, s.vorgemerkt = {}, s.neueMitarbeiter = 0,
           NEW form \in Formulare(s.gesehen),
           NEW t, GleicheForm(s, t), t.form = form, t.i = 0, t.pc = "mitarbeiter",
           t.vorgemerkt = {}, t.neueMitarbeiter = 0,
           t.aendern = form["mitarbeiter"].behalten,
           t.einfuegen = form["mitarbeiter"].neu,
           t.loeschen = IF LeereForm(form["mitarbeiter"])
                        THEN Nrn(Art(zz, s.firma, "mitarbeiter")) ELSE {}
    PROVE  UpdateStimmt(t, zz, {}, "mitarbeiter", 0)
  <1>1. /\ t.firma = s.firma /\ t.nummer = s.nummer /\ t.gesehen = s.gesehen
        /\ t \in Sitzung
    BY DEF GleicheForm
  <1>2. FormStimmt(t)
    BY <1>1 DEF FormStimmt, EineArt
  <1>3. \A l : /\ Art(t.gesehen, t.firma, l) = Art(zz, t.firma, l)
               /\ Art(zz, t.firma, l) \subseteq t.gesehen
    BY <1>1 DEF Art
  <1>4. \A l : /\ Gesehene(t, l) = Nrn(Art(zz, t.firma, l))
               /\ Gesehene(t, l) \subseteq Gezeigt(t)
               /\ Neue(t, zz, l) = {}
    BY <1>3 DEF Gesehene, Gezeigt, Neue, Nrn
  <1>5. Hand(t) = "mitarbeiter" /\ "mitarbeiter" \in Listen
    BY ArtenInListen DEF Hand
  <1>6. /\ ~Kommt(t, "mitarbeiter") /\ Dran(t, "mitarbeiter")
        /\ \A l \in Listen \ {"mitarbeiter"} : Kommt(t, l)
    BY <1>5, ArtenInListen, BearbeitungAssumption DEF Kommt, Dran, Listen
  <1>7. ArbeitStimmt(t)
    <2>1. LeereForm(form["mitarbeiter"]) => form["mitarbeiter"].behalten = {}
      BY DEF LeereForm
    <2> QED
      BY <1>1, <1>4, <1>5, <2>1 DEF ArbeitStimmt
  <1>8. ASSUME NEW l \in Listen
        PROVE  ListeStimmt(t, zz, l, {}, 0)
    <2>1. t.form[l].neu \in 0..1
      BY <1>1, <1>2, FormDa
    <2>2. NochNeu(t, l) = t.form[l].neu
      BY <1>6, <2>1 DEF NochNeu
    <2>3. NochZuAendern(t, l) = t.form[l].behalten
      BY <1>6 DEF NochZuAendern
    <2>4. NochDa(t, l) = Gesehene(t, l)
      BY <1>1, <1>4, <1>6 DEF NochDa
    <2>5. (Nrn(Art(zz, t.firma, l)) \cap Gezeigt(t)) \ {} = NochDa(t, l)
      BY <1>4, <2>4
    <2>6. NochNeu(t, l) + 0 = t.form[l].neu
      BY <2>1, <2>2
    <2> QED
      BY <1>4, <2>3, <2>5, <2>6 DEF ListeStimmt
  <1>9. \A l \in Listen : ListeStimmt(t, zz, l, {}, IF l = "mitarbeiter" THEN 0 ELSE 0)
    BY <1>8
  <1> QED
    BY <1>2, <1>7, <1>9 DEF UpdateStimmt

------------------------------------------------------------------------------
(* The steps of a request.                                                  *)

LEMMA EigeneStimmt ==
    ASSUME TypeOK, FirmenInv, NEW a \in Anfrage
    PROVE  /\ sitzung[a] \in Sitzung
           /\ DOMAIN sitzung[a] = {"pc", "firma", "nummer", "gesehen", "form", "i", "gelesen",
                                   "aendern", "loeschen", "einfuegen", "vorgemerkt",
                                   "neueMitarbeiter", "ungestoert"}
           /\ \A z \in sitzung[a].gesehen : z.nr < naechste
           /\ sitzung[a].ungestoert /\ sitzung[a].pc \in AmWerk =>
                 /\ stamm[sitzung[a].firma] # Fehlt
                 /\ sitzung[a].vorgemerkt \subseteq Nrn(zeilen)
                 /\ UpdateStimmt(sitzung[a], zeilen, {}, "mitarbeiter", 0)
  <1>1. sitzung[a] \in Sitzung
    BY DEF TypeOK
  <1>2. /\ SitzungStimmt(sitzung[a], zeilen, stamm)
        /\ \A z \in sitzung[a].gesehen : z.nr < naechste
    BY DEF FirmenInv
  <1>3. DOMAIN sitzung[a] = {"pc", "firma", "nummer", "gesehen", "form", "i", "gelesen",
                             "aendern", "loeschen", "einfuegen", "vorgemerkt",
                             "neueMitarbeiter", "ungestoert"}
    BY <1>1 DEF Sitzung
  <1> QED
    BY <1>1, <1>2, <1>3 DEF SitzungStimmt

LEMMA InArbeitStimmt ==
    ASSUME NEW t, NEW zz, NEW st, t.pc \in AmWerk,
           t.ungestoert => /\ st[t.firma] # Fehlt
                           /\ t.vorgemerkt \subseteq Nrn(zz)
                           /\ UpdateStimmt(t, zz, {}, "mitarbeiter", 0)
    PROVE  SitzungStimmt(t, zz, st)
  BY DEF SitzungStimmt, AmWerk

LEMMA NrVonDef ==
    ASSUME NEW u, NEW l
    PROVE  NrVon(u, l) = Nrn(Art(zeilen, u, l))
  BY Zenon DEF NrVon, Nrn, Art

LEMMA ZeileLoeschen ==
    ASSUME TypeOK, IndexStimmt, FirmenInv, NEW a \in Anfrage, UNCHANGED stamm,
           NEW art \in Listen, NEW n \in sitzung[a].loeschen,
           \/ sitzung[a].pc \in {"mitarbeiter", "entlassen"}
           \/ (sitzung[a].pc = "eintraege" /\ sitzung[a].gelesen),
           Spuelen(a, [sitzung[a] EXCEPT !.loeschen = @ \ {n}], {n}, art, 0)
    PROVE  \E t, g : Ordentlich(a, t, g)
  <1> DEFINE s == sitzung[a]
             t == [s EXCEPT !.loeschen = s.loeschen \ {n}]
  <1>1. /\ s \in Sitzung /\ s.pc # "anlegen"
        /\ DOMAIN s = {"pc", "firma", "nummer", "gesehen", "form", "i", "gelesen",
                       "aendern", "loeschen", "einfuegen", "vorgemerkt",
                       "neueMitarbeiter", "ungestoert"}
    BY EigeneStimmt
  <1>2. t \in Sitzung
    <2>1. Folgt(s) /\ s.loeschen \ {n} \in SUBSET Nat
      BY <1>1, SitzungTyp
    <2> QED
      <3>1. Folgt([s EXCEPT !.loeschen = s.loeschen \ {n}])
        BY <2>1, SitzungFelder
      <3> QED
        BY <3>1 DEF Folgt
  <1>3. /\ GleicheStelle(s, t)
        /\ t.loeschen = s.loeschen \ {n} /\ t.gelesen = s.gelesen
        /\ t.aendern = s.aendern /\ t.einfuegen = s.einfuegen
        /\ t.vorgemerkt = s.vorgemerkt /\ t.neueMitarbeiter = s.neueMitarbeiter
    BY <1>1, <1>2 DEF GleicheStelle, GleicheForm
  <1>4. Spuelen(a, t, {n}, art, 0)
    OBVIOUS
  <1> HIDE DEF t
  <1>5. ASSUME t.ungestoert, t.pc \in AmWerk
        PROVE  /\ {n} \subseteq Gezeigt(t)
               /\ stamm[t.firma] # Fehlt
               /\ UpdateStimmt(t, zeilen, {n}, art, 0)
    <2>1. s.ungestoert /\ s.pc \in AmWerk /\ t.firma = s.firma
      BY <1>3, <1>5 DEF GleicheStelle, GleicheForm
    <2>2. /\ stamm[s.firma] # Fehlt
          /\ UpdateStimmt(s, zeilen, {}, "mitarbeiter", 0)
      BY <2>1, EigeneStimmt
    <2>3. /\ s.pc \in {"mitarbeiter", "eintraege"}
          /\ s.pc = "eintraege" => s.gelesen
      BY <2>1 DEF AmWerk
    <2>4. {n} \subseteq Gezeigt(t) /\ UpdateStimmt(t, zeilen, {n}, art, 0)
      BY <1>1, <1>3, <2>2, <2>3, LoeschenVormerken
    <2> QED
      BY <2>1, <2>2, <2>4
  <1>6. /\ t.pc # "formular"
        /\ \A z \in t.gesehen : z.nr < naechste
    BY <1>3, EigeneStimmt DEF GleicheStelle, GleicheForm
  <1> QED
    BY <1>2, <1>4, <1>5, <1>6, SpuelenOrdentlich

LEMMA MitarbeiterLoeschenStimmt ==
    ASSUME TypeOK, IndexStimmt, FirmenInv, NEW a \in Anfrage, MitarbeiterLoeschen(a)
    PROVE  \E t, g : Ordentlich(a, t, g)
  <1>1. PICK n \in sitzung[a].loeschen :
           Spuelen(a, [sitzung[a] EXCEPT !.loeschen = @ \ {n}], {n}, "mitarbeiter", 0)
    BY DEF MitarbeiterLoeschen
  <1>2. UNCHANGED stamm /\ sitzung[a].pc \in {"mitarbeiter", "entlassen"}
    BY DEF MitarbeiterLoeschen
  <1> QED
    BY <1>1, <1>2, ZeileLoeschen, ArtenInListen

LEMMA EintragLoeschenStimmt ==
    ASSUME TypeOK, IndexStimmt, FirmenInv, NEW a \in Anfrage, EintragLoeschen(a)
    PROVE  \E t, g : Ordentlich(a, t, g)
  <1>1. PICK n \in sitzung[a].loeschen :
           Spuelen(a, [sitzung[a] EXCEPT !.loeschen = @ \ {n}], {n}, Arten[sitzung[a].i], 0)
    BY DEF EintragLoeschen
  <1>2. UNCHANGED stamm /\ sitzung[a].pc = "eintraege" /\ sitzung[a].gelesen
    BY DEF EintragLoeschen
  <1>3. Arten[sitzung[a].i] \in Listen
    BY <1>2, ArtenInListen DEF IndexStimmt
  <1> QED
    BY <1>1, <1>2, <1>3, ZeileLoeschen

\* A row changed in memory, by which the session becomes t.
Geaendert(s, n) == [s EXCEPT !.aendern = @ \ {n}, !.vorgemerkt = @ \cup {n}]

LEMMA ZeileAendern ==
    ASSUME TypeOK, IndexStimmt, FirmenInv, NEW a \in Anfrage,
           NEW n \in sitzung[a].aendern, NEW t,
           sitzung[a].pc \in {"mitarbeiter", "eintraege"},
           t = Geaendert(sitzung[a], n)
    PROVE  /\ t \in Sitzung /\ t.pc \in AmWerk /\ t.gesehen = sitzung[a].gesehen
           /\ t.vorgemerkt = sitzung[a].vorgemerkt \cup {n}
           /\ t.ungestoert => sitzung[a].ungestoert /\ stamm[t.firma] # Fehlt
           /\ \A art \in Listen : t.ungestoert => UpdateStimmt(t, zeilen, {}, art, 0)
  <1> DEFINE s == sitzung[a]
  <1>1. /\ s \in Sitzung /\ s.pc # "anlegen"
        /\ DOMAIN s = {"pc", "firma", "nummer", "gesehen", "form", "i", "gelesen",
                       "aendern", "loeschen", "einfuegen", "vorgemerkt",
                       "neueMitarbeiter", "ungestoert"}
    BY EigeneStimmt
  <1>0. t = [s EXCEPT !.aendern = s.aendern \ {n}, !.vorgemerkt = s.vorgemerkt \cup {n}]
    BY DEF Geaendert
  <1>2. t \in Sitzung
    <2>1. Folgt(s) /\ s.aendern \ {n} \in SUBSET Nat /\ s.vorgemerkt \cup {n} \in SUBSET Nat
      BY <1>1, SitzungTyp
    <2> QED
      <3>1. Folgt([s EXCEPT !.aendern = s.aendern \ {n},
                            !.vorgemerkt = s.vorgemerkt \cup {n}])
        BY <2>1, SitzungFelder
      <3> QED
        BY <1>0, <3>1 DEF Folgt
  <1>3. /\ GleicheStelle(s, t)
        /\ t.loeschen = s.loeschen /\ t.gelesen = s.gelesen
        /\ t.aendern = s.aendern \ {n} /\ t.einfuegen = s.einfuegen
        /\ t.vorgemerkt = s.vorgemerkt \cup {n} /\ t.neueMitarbeiter = s.neueMitarbeiter
    BY <1>0, <1>1, <1>2 DEF GleicheStelle, GleicheForm
  <1>4. /\ t.pc = s.pc /\ s.pc \in AmWerk /\ t.firma = s.firma /\ t.gesehen = s.gesehen
        /\ t.ungestoert = s.ungestoert
    BY <1>3 DEF GleicheStelle, GleicheForm, AmWerk
  <1>5. ASSUME NEW art \in Listen, t.ungestoert
        PROVE  UpdateStimmt(t, zeilen, {}, art, 0)
    <2>1. UpdateStimmt(s, zeilen, {}, "mitarbeiter", 0)
      BY <1>4, <1>5, EigeneStimmt
    <2> QED
      BY <1>1, <1>3, <2>1, AendernVormerken
  <1>6. t.ungestoert => s.ungestoert /\ stamm[t.firma] # Fehlt
    BY <1>4, EigeneStimmt
  <1> QED
    BY <1>2, <1>3, <1>4, <1>5, <1>6

LEMMA MitarbeiterSpeichernStimmt ==
    ASSUME TypeOK, IndexStimmt, FirmenInv, NEW a \in Anfrage, MitarbeiterSpeichern(a)
    PROVE  \E t, g : Ordentlich(a, t, g)
  <1> DEFINE s == sitzung[a]
  <1>1. /\ s.pc = "mitarbeiter" /\ UNCHANGED stamm
        /\ s \in Sitzung
        /\ DOMAIN s = {"pc", "firma", "nummer", "gesehen", "form", "i", "gelesen",
                       "aendern", "loeschen", "einfuegen", "vorgemerkt",
                       "neueMitarbeiter", "ungestoert"}
    BY EigeneStimmt DEF MitarbeiterSpeichern
  <1>2. CASE \E n \in s.aendern :
               Spuelen(a, [s EXCEPT !.aendern = @ \ {n},
                                    !.vorgemerkt = @ \cup {n}], {}, "mitarbeiter", 0)
    <2>1. PICK n \in s.aendern :
               Spuelen(a, [s EXCEPT !.aendern = @ \ {n},
                                    !.vorgemerkt = @ \cup {n}], {}, "mitarbeiter", 0)
      BY <1>2
    <2> DEFINE t == Geaendert(s, n)
    <2>4. t = Geaendert(s, n) /\ Spuelen(a, t, {}, "mitarbeiter", 0)
      BY <2>1 DEF Geaendert
    <2> HIDE DEF t
    <2>2. /\ t \in Sitzung /\ t.pc \in AmWerk /\ t.gesehen = s.gesehen
          /\ t.ungestoert => s.ungestoert /\ stamm[t.firma] # Fehlt
          /\ t.ungestoert => UpdateStimmt(t, zeilen, {}, "mitarbeiter", 0)
      BY <1>1, <2>4, ArtenInListen, ZeileAendern
    <2>3. t.pc # "formular" /\ \A z \in t.gesehen : z.nr < naechste
      BY <2>2, EigeneStimmt DEF AmWerk
    <2>5. /\ 0 \in 0..1 /\ {} \subseteq Gezeigt(t)
          /\ \A u \in Firma : stamm[u] # Fehlt => stamm'[u] # Fehlt
      BY <1>1
    <2> QED
      BY <2>2, <2>3, <2>4, <2>5, ArtenInListen, SpuelenOrdentlich
  <1>3. CASE /\ s.einfuegen = 1
             /\ Weiter(a, [s EXCEPT !.einfuegen = 0, !.neueMitarbeiter = 1], FALSE)
             /\ UNCHANGED <<zeilen, naechste>>
    <2> DEFINE t == [s EXCEPT !.einfuegen = 0, !.neueMitarbeiter = 1]
    <2>1. t \in Sitzung
      <3>1. Folgt(s) /\ 0 \in 0..1 /\ 1 \in 0..1
        BY <1>1, SitzungTyp
      <3>2. Folgt([s EXCEPT !.einfuegen = 0, !.neueMitarbeiter = 1])
        BY <3>1, SitzungFelder
      <3> QED
        BY <3>2 DEF Folgt
    <2>2. /\ GleicheStelle(s, t)
          /\ t.loeschen = s.loeschen /\ t.gelesen = s.gelesen
          /\ t.aendern = s.aendern /\ t.einfuegen = 0
          /\ t.vorgemerkt = s.vorgemerkt /\ t.neueMitarbeiter = 1
      BY <1>1, <2>1 DEF GleicheStelle, GleicheForm
    <2> HIDE DEF t
    <2>3. /\ t.pc \in AmWerk /\ t.firma = s.firma /\ t.gesehen = s.gesehen
          /\ t.ungestoert = s.ungestoert /\ s.pc \in AmWerk
      BY <1>1, <2>2 DEF GleicheStelle, GleicheForm, AmWerk
    <2>4. t.ungestoert => /\ stamm[t.firma] # Fehlt
                          /\ t.vorgemerkt \subseteq Nrn(zeilen)
                          /\ UpdateStimmt(t, zeilen, {}, "mitarbeiter", 0)
      <3> SUFFICES ASSUME t.ungestoert
                   PROVE  /\ stamm[t.firma] # Fehlt
                          /\ t.vorgemerkt \subseteq Nrn(zeilen)
                          /\ UpdateStimmt(t, zeilen, {}, "mitarbeiter", 0)
        OBVIOUS
      <3>1. /\ stamm[s.firma] # Fehlt
            /\ s.vorgemerkt \subseteq Nrn(zeilen)
            /\ UpdateStimmt(s, zeilen, {}, "mitarbeiter", 0)
        BY <2>3, EigeneStimmt
      <3>2. UpdateStimmt(t, zeilen, {}, "mitarbeiter", 0)
        BY <1>1, <1>3, <2>2, <3>1, NeuVormerken
      <3> QED
        BY <2>2, <2>3, <3>1, <3>2
    <2>5. SitzungStimmt(t, zeilen, stamm)
      BY <2>3, <2>4, InArbeitStimmt
    <2>6. /\ Weiter(a, t, FALSE)
          /\ \A z \in t.gesehen : z.nr < naechste
      BY <1>3, <2>3, EigeneStimmt DEF t
    <2>7. /\ SitzungStimmt(t, zeilen, stamm')
          /\ \A u \in Firma : stamm[u] # Fehlt => stamm'[u] # Fehlt
      BY <1>1, <2>5
    <2> QED
      BY <1>3, <2>6, <2>7, ImSpeicherOrdentlich
  <1> QED
    BY <1>2, <1>3 DEF MitarbeiterSpeichern

LEMMA EintragAendernStimmt ==
    ASSUME TypeOK, IndexStimmt, FirmenInv, NEW a \in Anfrage, EintragAendern(a)
    PROVE  \E t, g : Ordentlich(a, t, g)
  <1> DEFINE s == sitzung[a]
             art == Arten[s.i]
  <1>1. s.pc = "eintraege" /\ UNCHANGED stamm /\ art \in Listen
    BY ArtenInListen DEF EintragAendern, IndexStimmt
  <1>2. PICK n \in s.aendern :
           \/ Spuelen(a, Geaendert(s, n), {}, art, 0)
           \/ /\ n \in NrVon(s.firma, art)
              /\ Weiter(a, Geaendert(s, n), FALSE) /\ UNCHANGED <<zeilen, naechste>>
           \/ Abbrechen(a)
    BY DEF EintragAendern, Geaendert
  <1> DEFINE w == Geaendert(s, n)
  <1>3. w = Geaendert(s, n)
    OBVIOUS
  <1> HIDE DEF w, art
  <1>4. /\ w \in Sitzung /\ w.pc \in AmWerk /\ w.gesehen = s.gesehen
        /\ w.vorgemerkt = s.vorgemerkt \cup {n}
        /\ w.ungestoert => s.ungestoert /\ stamm[w.firma] # Fehlt
        /\ \A l \in Listen : w.ungestoert => UpdateStimmt(w, zeilen, {}, l, 0)
    BY <1>1, <1>3, ZeileAendern
  <1>5. /\ w.pc # "formular" /\ \A z \in w.gesehen : z.nr < naechste
        /\ \A u \in Firma : stamm[u] # Fehlt => stamm'[u] # Fehlt
    BY <1>1, <1>4, EigeneStimmt DEF AmWerk
  <1>6. CASE Spuelen(a, w, {}, art, 0)
    BY <1>1, <1>4, <1>5, <1>6, SpuelenOrdentlich
  <1>7. CASE /\ n \in NrVon(s.firma, art)
             /\ Weiter(a, w, FALSE) /\ UNCHANGED <<zeilen, naechste>>
    <2>1. n \in Nrn(zeilen)
      BY <1>7, NrVonDef DEF NrVon, Nrn
    <2>2. w.ungestoert => /\ stamm[w.firma] # Fehlt
                          /\ w.vorgemerkt \subseteq Nrn(zeilen)
                          /\ UpdateStimmt(w, zeilen, {}, "mitarbeiter", 0)
      <3> SUFFICES ASSUME w.ungestoert
                   PROVE  /\ stamm[w.firma] # Fehlt
                          /\ w.vorgemerkt \subseteq Nrn(zeilen)
                          /\ UpdateStimmt(w, zeilen, {}, "mitarbeiter", 0)
        OBVIOUS
      <3>1. s.ungestoert /\ s.pc \in AmWerk
        BY <1>1, <1>4 DEF AmWerk
      <3>2. s.vorgemerkt \subseteq Nrn(zeilen)
        BY <3>1, EigeneStimmt
      <3> QED
        BY <1>4, <2>1, <3>2, ArtenInListen
    <2>3. SitzungStimmt(w, zeilen, stamm')
      BY <1>1, <1>4, <2>2, InArbeitStimmt
    <2> QED
      BY <1>5, <1>7, <2>3, ImSpeicherOrdentlich
  <1>8. CASE Abbrechen(a)
    BY <1>5, <1>8, AbbrechenOrdentlich
  <1> QED
    BY <1>2, <1>6, <1>7, <1>8 DEF w

LEMMA EintragEinfuegenStimmt ==
    ASSUME TypeOK, IndexStimmt, FirmenInv, NEW a \in Anfrage, EintragEinfuegen(a)
    PROVE  \E t, g : Ordentlich(a, t, g)
  <1> DEFINE s == sitzung[a]
             t == [s EXCEPT !.einfuegen = 0]
             art == Arten[s.i]
  <1>1. /\ s.pc = "eintraege" /\ UNCHANGED stamm /\ s.gelesen /\ s.einfuegen = 1
        /\ art \in Listen
        /\ Spuelen(a, t, {}, art, 1)
        /\ s \in Sitzung
        /\ DOMAIN s = {"pc", "firma", "nummer", "gesehen", "form", "i", "gelesen",
                       "aendern", "loeschen", "einfuegen", "vorgemerkt",
                       "neueMitarbeiter", "ungestoert"}
    BY ArtenInListen, EigeneStimmt DEF EintragEinfuegen, IndexStimmt
  <1>2. t \in Sitzung
    <2>1. Folgt(s) /\ 0 \in 0..1
      BY <1>1, SitzungTyp
    <2>2. Folgt([s EXCEPT !.einfuegen = 0])
      BY <2>1, SitzungFelder
    <2> QED
      BY <2>2 DEF Folgt
  <1>3. /\ GleicheStelle(s, t)
        /\ t.loeschen = s.loeschen /\ t.gelesen = s.gelesen
        /\ t.aendern = s.aendern /\ t.einfuegen = 0
        /\ t.vorgemerkt = s.vorgemerkt /\ t.neueMitarbeiter = s.neueMitarbeiter
    BY <1>1, <1>2 DEF GleicheStelle, GleicheForm
  <1> HIDE DEF t
  <1>4. /\ t.pc = "eintraege" /\ t.firma = s.firma /\ t.gesehen = s.gesehen
        /\ t.ungestoert = s.ungestoert /\ s.pc \in AmWerk
    BY <1>1, <1>3 DEF GleicheStelle, GleicheForm, AmWerk
  <1>5. t.ungestoert => /\ stamm[t.firma] # Fehlt
                        /\ UpdateStimmt(t, zeilen, {}, art, 1)
    <2> SUFFICES ASSUME t.ungestoert
                 PROVE  stamm[t.firma] # Fehlt /\ UpdateStimmt(t, zeilen, {}, art, 1)
      OBVIOUS
    <2>1. /\ stamm[s.firma] # Fehlt
          /\ UpdateStimmt(s, zeilen, {}, "mitarbeiter", 0)
      BY <1>4, EigeneStimmt
    <2> QED
      BY <1>1, <1>3, <1>4, <2>1, EinfuegenVormerken
  <1>6. /\ t.pc # "formular" /\ {} \subseteq Gezeigt(t) /\ 1 \in 0..1
        /\ \A z \in t.gesehen : z.nr < naechste
        /\ \A u \in Firma : stamm[u] # Fehlt => stamm'[u] # Fehlt
    BY <1>1, <1>4, EigeneStimmt
  <1> HIDE DEF art
  <1> QED
    BY <1>1, <1>2, <1>5, <1>6, SpuelenOrdentlich

LEMMA EintraegeVergleichenStimmt ==
    ASSUME TypeOK, IndexStimmt, FirmenInv, NEW a \in Anfrage, EintraegeVergleichen(a)
    PROVE  \E t, g : Ordentlich(a, t, g)
  <1> DEFINE s == sitzung[a]
             art == Arten[s.i]
             weg == Ueberzaehlige(s.form[art], NrVon(s.firma, art))
             t == [s EXCEPT !.gelesen = TRUE, !.loeschen = weg]
  <1>1. /\ s.pc = "eintraege" /\ ~s.gelesen
        /\ Weiter(a, t, FALSE)
        /\ UNCHANGED <<stamm, zeilen, naechste>>
        /\ s \in Sitzung
        /\ DOMAIN s = {"pc", "firma", "nummer", "gesehen", "form", "i", "gelesen",
                       "aendern", "loeschen", "einfuegen", "vorgemerkt",
                       "neueMitarbeiter", "ungestoert"}
    BY EigeneStimmt DEF EintraegeVergleichen
  <1>2. weg = Nrn(Art(zeilen, s.firma, art)) \ s.form[art].behalten /\ weg \in SUBSET Nat
    BY NrVonDef, NummernTyp DEF Ueberzaehlige
  <1> HIDE DEF weg
  <1>3. t \in Sitzung
    <2>1. Folgt(s) /\ TRUE \in BOOLEAN
      BY <1>1, SitzungTyp
    <2>2. Folgt([s EXCEPT !.gelesen = TRUE, !.loeschen = weg])
      BY <1>2, <2>1, SitzungFelder
    <2> QED
      BY <2>2 DEF Folgt
  <1>4. /\ GleicheStelle(s, t)
        /\ t.gelesen = TRUE /\ t.loeschen = weg
        /\ t.aendern = s.aendern /\ t.einfuegen = s.einfuegen
        /\ t.vorgemerkt = s.vorgemerkt /\ t.neueMitarbeiter = s.neueMitarbeiter
    BY <1>1, <1>3 DEF GleicheStelle, GleicheForm
  <1> HIDE DEF t
  <1>5. /\ t.pc \in AmWerk /\ t.firma = s.firma /\ t.gesehen = s.gesehen
        /\ t.ungestoert = s.ungestoert /\ s.pc \in AmWerk
    BY <1>1, <1>4 DEF GleicheStelle, GleicheForm, AmWerk
  <1>6. t.ungestoert => /\ stamm[t.firma] # Fehlt
                        /\ t.vorgemerkt \subseteq Nrn(zeilen)
                        /\ UpdateStimmt(t, zeilen, {}, "mitarbeiter", 0)
    <2> SUFFICES ASSUME t.ungestoert
                 PROVE  /\ stamm[t.firma] # Fehlt
                        /\ t.vorgemerkt \subseteq Nrn(zeilen)
                        /\ UpdateStimmt(t, zeilen, {}, "mitarbeiter", 0)
      OBVIOUS
    <2>1. /\ stamm[s.firma] # Fehlt
          /\ s.vorgemerkt \subseteq Nrn(zeilen)
          /\ UpdateStimmt(s, zeilen, {}, "mitarbeiter", 0)
      BY <1>5, EigeneStimmt
    <2>2. t.loeschen = Nrn(Art(zeilen, s.firma, art)) \ s.form[art].behalten
      BY <1>2, <1>4
    <2>3. UpdateStimmt(t, zeilen, {}, "mitarbeiter", 0)
      BY <1>1, <1>4, <2>1, <2>2, VergleichenVormerken
    <2> QED
      BY <1>4, <1>5, <2>1, <2>3
  <1>7. SitzungStimmt(t, zeilen, stamm')
    BY <1>1, <1>5, <1>6, InArbeitStimmt
  <1>8. /\ \A z \in t.gesehen : z.nr < naechste
        /\ \A u \in Firma : stamm[u] # Fehlt => stamm'[u] # Fehlt
    BY <1>1, <1>5, EigeneStimmt
  <1> QED
    BY <1>1, <1>7, <1>8, ImSpeicherOrdentlich

\* Taking up the next list, as the session t.
LEMMA ListeBeginnen ==
    ASSUME TypeOK, IndexStimmt, FirmenInv, NEW a \in Anfrage,
           UNCHANGED <<stamm, zeilen, naechste>>,
           Getan(sitzung[a]),
           sitzung[a].pc = "mitarbeiter" \/ (sitzung[a].pc = "eintraege" /\ sitzung[a].gelesen),
           NEW t, Weiter(a, t, FALSE), GleicheForm(sitzung[a], t), t.form = sitzung[a].form,
           t.vorgemerkt = sitzung[a].vorgemerkt,
           t.neueMitarbeiter = sitzung[a].neueMitarbeiter, t.pc \in AmWerk,
           UpdateStimmt(sitzung[a], zeilen, {}, "mitarbeiter", 0) =>
               UpdateStimmt(t, zeilen, {}, "mitarbeiter", 0)
    PROVE  Ordentlich(a, t, FALSE)
  <1> DEFINE s == sitzung[a]
  <1>1. /\ t.firma = s.firma /\ t.gesehen = s.gesehen
        /\ t.ungestoert = s.ungestoert /\ s.pc \in AmWerk
    BY DEF GleicheForm, AmWerk
  <1>2. t.ungestoert => /\ stamm[t.firma] # Fehlt
                        /\ t.vorgemerkt \subseteq Nrn(zeilen)
                        /\ UpdateStimmt(t, zeilen, {}, "mitarbeiter", 0)
    BY <1>1, EigeneStimmt
  <1>3. SitzungStimmt(t, zeilen, stamm')
    BY <1>2, InArbeitStimmt
  <1>4. /\ \A z \in t.gesehen : z.nr < naechste
        /\ \A u \in Firma : stamm[u] # Fehlt => stamm'[u] # Fehlt
    BY <1>1, EigeneStimmt
  <1> QED
    BY <1>3, <1>4, ImSpeicherOrdentlich

LEMMA ArtBeginnenStimmt ==
    ASSUME TypeOK, IndexStimmt, FirmenInv, NEW a \in Anfrage, ArtBeginnen(a)
    PROVE  \E t, g : Ordentlich(a, t, g)
  <1> DEFINE s == sitzung[a]
             i == s.i + 1
             h == Arten[i]
             f == s.form[h]
             da == NrVon(s.firma, h)
             einzeln == [s EXCEPT !.pc = "eintraege", !.i = i, !.gelesen = TRUE,
                                  !.aendern = Bestehende(f) \cap da,
                                  !.loeschen = da \ f.behalten, !.einfuegen = f.neu]
             liste == [s EXCEPT !.pc = "eintraege", !.i = i, !.gelesen = FALSE,
                                !.aendern = Bestehende(f), !.einfuegen = f.neu]
  <1>1. /\ s \in Sitzung /\ i \in Nat /\ i > 0
        /\ DOMAIN s = {"pc", "firma", "nummer", "gesehen", "form", "i", "gelesen",
                       "aendern", "loeschen", "einfuegen", "vorgemerkt",
                       "neueMitarbeiter", "ungestoert"}
    BY EigeneStimmt DEF Sitzung
  <1>2. /\ s.pc = "mitarbeiter" \/ (s.pc = "eintraege" /\ s.gelesen)
        /\ Getan(s) /\ UNCHANGED <<stamm, zeilen, naechste>>
    BY DEF ArtBeginnen
  <1>3. CASE i > Len(Arten)
    <2> DEFINE t == [s EXCEPT !.pc = "speichern"]
    <2>1. Weiter(a, t, FALSE)
      BY <1>3 DEF ArtBeginnen
    <2>2. t \in Sitzung
      BY <1>1 DEF Sitzung
    <2>3. /\ GleicheForm(s, t) /\ t.form = s.form /\ t.i = s.i /\ t.pc = "speichern"
          /\ t.vorgemerkt = s.vorgemerkt /\ t.neueMitarbeiter = s.neueMitarbeiter
      BY <1>1, <2>2 DEF GleicheForm
    <2> HIDE DEF t
    <2>4. UpdateStimmt(s, zeilen, {}, "mitarbeiter", 0) =>
              UpdateStimmt(t, zeilen, {}, "mitarbeiter", 0)
      BY <1>1, <1>2, <1>3, <2>3, ListenFertig
    <2>5. t.pc \in AmWerk
      BY <2>3 DEF AmWerk
    <2>6. Ordentlich(a, t, FALSE)
      BY <1>2, <2>1, <2>3, <2>4, <2>5, ListeBeginnen
    <2> QED
      BY <2>6
  <1>4. CASE ~(i > Len(Arten))
    <2>1. /\ i <= Len(Arten) /\ i \in DOMAIN Arten
          /\ h \in Listen
      BY <1>1, <1>4, ArtenInListen
    <2>2. /\ f.behalten \in SUBSET Nat /\ f.neu \in 0..1 /\ da \in SUBSET Nat
      <3>1. s.form \in [Listen -> Liste]
        BY <1>1 DEF Sitzung
      <3>2. f \in Liste
        BY <2>1, <3>1
      <3> QED
        BY <3>2, NummernTyp DEF Liste
    <2>3. da = Nrn(Art(zeilen, s.firma, h))
      BY NrVonDef
    <2>4. \E t : /\ Weiter(a, t, FALSE)
                 /\ GleicheForm(s, t) /\ t.form = s.form /\ t.i = i /\ t.pc = "eintraege"
                 /\ t.vorgemerkt = s.vorgemerkt /\ t.neueMitarbeiter = s.neueMitarbeiter
                 /\ t.einfuegen = f.neu
                 /\ \/ /\ t.gelesen = TRUE
                       /\ t.aendern = f.behalten \cap da
                       /\ t.loeschen = da \ f.behalten
                    \/ /\ t.gelesen = FALSE
                       /\ t.aendern = f.behalten
                       /\ t.loeschen = {}
      <3>1. CASE Einzeln(f)
        <4>1. Weiter(a, einzeln, FALSE)
          BY <1>4, <3>1 DEF ArtBeginnen
        <4>2. einzeln = [s EXCEPT !.pc = "eintraege", !.i = i, !.gelesen = TRUE,
                                  !.aendern = f.behalten \cap da,
                                  !.loeschen = da \ f.behalten, !.einfuegen = f.neu]
          BY DEF Bestehende
        <4> HIDE DEF einzeln
        <4>3. einzeln \in Sitzung
          <5>1. f.behalten \cap da \in SUBSET Nat /\ da \ f.behalten \in SUBSET Nat
            BY <2>2
          <5>2. \A v, w \in SUBSET Nat, n \in 0..1 :
                   [s EXCEPT !.pc = "eintraege", !.i = i, !.gelesen = TRUE,
                             !.aendern = v, !.loeschen = w, !.einfuegen = n] \in Sitzung
            <6> HIDE DEF i
            <6> QED
              BY <1>1 DEF Sitzung
          <5> QED
            BY <2>2, <4>2, <5>1, <5>2
        <4>4. /\ einzeln.firma = s.firma /\ einzeln.nummer = s.nummer
              /\ einzeln.gesehen = s.gesehen /\ einzeln.ungestoert = s.ungestoert
              /\ einzeln.form = s.form /\ einzeln.i = i /\ einzeln.pc = "eintraege"
              /\ einzeln.vorgemerkt = s.vorgemerkt
              /\ einzeln.neueMitarbeiter = s.neueMitarbeiter
              /\ einzeln.einfuegen = f.neu /\ einzeln.gelesen = TRUE
              /\ einzeln.aendern = f.behalten \cap da
              /\ einzeln.loeschen = da \ f.behalten
          BY <1>1, <4>2
        <4> QED
          BY <4>1, <4>3, <4>4 DEF GleicheForm
      <3>2. CASE ~Einzeln(f)
        <4>1. Weiter(a, liste, FALSE)
          BY <1>4, <3>2 DEF ArtBeginnen
        <4>2. liste = [s EXCEPT !.pc = "eintraege", !.i = i, !.gelesen = FALSE,
                                !.aendern = f.behalten, !.einfuegen = f.neu]
          BY DEF Bestehende
        <4> HIDE DEF liste
        <4>3. liste \in Sitzung
          <5>1. \A v \in SUBSET Nat, n \in 0..1 :
                   [s EXCEPT !.pc = "eintraege", !.i = i, !.gelesen = FALSE,
                             !.aendern = v, !.einfuegen = n] \in Sitzung
            <6> HIDE DEF i
            <6> QED
              BY <1>1 DEF Sitzung
          <5> QED
            BY <2>2, <4>2, <5>1
        <4>4. /\ liste.firma = s.firma /\ liste.nummer = s.nummer
              /\ liste.gesehen = s.gesehen /\ liste.ungestoert = s.ungestoert
              /\ liste.form = s.form /\ liste.i = i /\ liste.pc = "eintraege"
              /\ liste.vorgemerkt = s.vorgemerkt
              /\ liste.neueMitarbeiter = s.neueMitarbeiter
              /\ liste.einfuegen = f.neu /\ liste.gelesen = FALSE
              /\ liste.aendern = f.behalten
              /\ liste.loeschen = s.loeschen
          BY <1>1, <4>2
        <4>5. s.loeschen = {}
          BY <1>2 DEF Getan
        <4> QED
          BY <4>1, <4>3, <4>4, <4>5 DEF GleicheForm
      <3> QED
        BY <3>1, <3>2
    <2>5. PICK t : /\ Weiter(a, t, FALSE)
                   /\ GleicheForm(s, t) /\ t.form = s.form /\ t.i = i /\ t.pc = "eintraege"
                   /\ t.vorgemerkt = s.vorgemerkt /\ t.neueMitarbeiter = s.neueMitarbeiter
                   /\ t.einfuegen = f.neu
                   /\ \/ /\ t.gelesen = TRUE
                         /\ t.aendern = f.behalten \cap da
                         /\ t.loeschen = da \ f.behalten
                      \/ /\ t.gelesen = FALSE
                         /\ t.aendern = f.behalten
                         /\ t.loeschen = {}
      BY <2>4
    <2>6. ASSUME UpdateStimmt(s, zeilen, {}, "mitarbeiter", 0)
          PROVE  UpdateStimmt(t, zeilen, {}, "mitarbeiter", 0)
      <3>1. t.i = s.i + 1 /\ s.i + 1 <= Len(Arten) /\ h = Arten[s.i + 1]
        BY <2>1, <2>5
      <3>2. /\ t.einfuegen = s.form[h].neu
            /\ \/ /\ t.gelesen = TRUE
                  /\ t.aendern = s.form[h].behalten \cap Nrn(Art(zeilen, s.firma, h))
                  /\ t.loeschen = Nrn(Art(zeilen, s.firma, h)) \ s.form[h].behalten
               \/ /\ t.gelesen = FALSE
                  /\ t.aendern = s.form[h].behalten
                  /\ t.loeschen = {}
        BY <2>3, <2>5
      <3> HIDE DEF h
      <3> QED
        BY <1>1, <1>2, <2>5, <2>6, <3>1, <3>2, NaechsteListe
    <2>7. t.pc \in AmWerk
      BY <2>5 DEF AmWerk
    <2>8. Ordentlich(a, t, FALSE)
      BY <1>2, <2>5, <2>6, <2>7, ListeBeginnen
    <2> QED
      BY <2>8
  <1> QED
    BY <1>3, <1>4

\* The form comes back.
LEMMA AbsendenStimmt ==
    ASSUME TypeOK, IndexStimmt, FirmenInv, NEW a \in Anfrage, Absenden(a)
    PROVE  \E t, g : Ordentlich(a, t, g)
  <1> DEFINE s == sitzung[a]
  <1>1. /\ s \in Sitzung /\ s.pc = "formular" /\ UNCHANGED stamm
        /\ s.gesehen \in SUBSET Zeile
        /\ DOMAIN s = {"pc", "firma", "nummer", "gesehen", "form", "i", "gelesen",
                       "aendern", "loeschen", "einfuegen", "vorgemerkt",
                       "neueMitarbeiter", "ungestoert"}
    BY EigeneStimmt DEF Absenden, Sitzung
  <1>2. CASE Abbrechen(a)
    BY <1>1, <1>2, AbbrechenOrdentlich
  <1>3. CASE ~Abbrechen(a)
    <2>1. /\ stamm[s.firma] # Fehlt
          /\ \E form \in Formulare(s.gesehen) :
                /\ Weiter(a, [s EXCEPT
                     !.pc = "mitarbeiter", !.form = form,
                     !.loeschen = Weggefallene(form["mitarbeiter"],
                                               NrVon(s.firma, "mitarbeiter")),
                     !.aendern = Bestehende(form["mitarbeiter"]),
                     !.einfuegen = form["mitarbeiter"].neu], FALSE)
                /\ UNCHANGED <<zeilen, naechste>>
      BY <1>3, Zenon DEF Absenden
    <2>2. PICK form \in Formulare(s.gesehen) :
             /\ Weiter(a, [s EXCEPT
                  !.pc = "mitarbeiter", !.form = form,
                  !.loeschen = Weggefallene(form["mitarbeiter"],
                                            NrVon(s.firma, "mitarbeiter")),
                  !.aendern = Bestehende(form["mitarbeiter"]),
                  !.einfuegen = form["mitarbeiter"].neu], FALSE)
             /\ UNCHANGED <<zeilen, naechste>>
      BY <2>1
    <2> DEFINE mit == form["mitarbeiter"]
               weg == Weggefallene(mit, NrVon(s.firma, "mitarbeiter"))
               wieder == Bestehende(mit)
               neu == mit.neu
               t == [s EXCEPT !.pc = "mitarbeiter", !.form = form, !.loeschen = weg,
                              !.aendern = wieder, !.einfuegen = neu]
    <2>3. form \in [Listen -> Liste] /\ mit \in Liste
      BY <1>1, <2>2, FormularTyp, ArtenInListen
    <2>4. weg \in SUBSET Nat /\ wieder \in SUBSET Nat /\ neu \in 0..1
      BY <2>3, NummernTyp DEF Weggefallene, Bestehende, Liste
    <2>5. \A x \in [Listen -> Liste], l \in SUBSET Nat, v \in SUBSET Nat, n \in 0..1 :
             [s EXCEPT !.pc = "mitarbeiter", !.form = x, !.loeschen = l,
                       !.aendern = v, !.einfuegen = n] \in Sitzung
      BY <1>1 DEF Sitzung
    <2>6. t \in Sitzung
      BY <2>3, <2>4, <2>5
    <2>7. /\ GleicheForm(s, t) /\ t.form = form /\ t.i = s.i /\ t.pc = "mitarbeiter"
          /\ t.vorgemerkt = s.vorgemerkt /\ t.neueMitarbeiter = s.neueMitarbeiter
          /\ t.aendern = wieder /\ t.einfuegen = neu /\ t.loeschen = weg
      BY <1>1, <2>6 DEF GleicheForm
    <2>8. Weiter(a, t, FALSE)
      BY <2>2
    <2> HIDE DEF t
    <2>9. /\ wieder = mit.behalten
          /\ weg = IF LeereForm(mit) THEN Nrn(Art(zeilen, s.firma, "mitarbeiter")) ELSE {}
      BY NrVonDef DEF Weggefallene, Bestehende
    <2>10. t.ungestoert => /\ stamm[t.firma] # Fehlt
                           /\ t.vorgemerkt \subseteq Nrn(zeilen)
                           /\ UpdateStimmt(t, zeilen, {}, "mitarbeiter", 0)
      <3> SUFFICES ASSUME t.ungestoert
                   PROVE  /\ stamm[t.firma] # Fehlt
                          /\ t.vorgemerkt \subseteq Nrn(zeilen)
                          /\ UpdateStimmt(t, zeilen, {}, "mitarbeiter", 0)
        OBVIOUS
      <3>1. s.ungestoert /\ t.firma = s.firma
        BY <2>7 DEF GleicheForm
      <3>2. SitzungStimmt(s, zeilen, stamm) /\ EineArt(zeilen)
        BY DEF FirmenInv
      <3>3. /\ s.gesehen = {z \in zeilen : z.firma = s.firma}
            /\ s.i = 0 /\ s.vorgemerkt = {} /\ s.neueMitarbeiter = 0
        BY <1>1, <3>1, <3>2 DEF SitzungStimmt
      <3>4. /\ t.i = 0 /\ t.vorgemerkt = {} /\ t.neueMitarbeiter = 0
            /\ t.aendern = mit.behalten /\ t.einfuegen = mit.neu
            /\ t.loeschen = IF LeereForm(mit)
                            THEN Nrn(Art(zeilen, s.firma, "mitarbeiter")) ELSE {}
        BY <2>7, <2>9, <3>3
      <3>5. UpdateStimmt(t, zeilen, {}, "mitarbeiter", 0)
        BY <1>1, <2>2, <2>7, <3>2, <3>3, <3>4, FormularZurueck
      <3> QED
        BY <2>1, <3>1, <3>4, <3>5
    <2>11. t.pc \in AmWerk
      BY <2>7 DEF AmWerk
    <2>12. SitzungStimmt(t, zeilen, stamm')
      BY <1>1, <2>10, <2>11, InArbeitStimmt
    <2>13. /\ \A z \in t.gesehen : z.nr < naechste
           /\ \A u \in Firma : stamm[u] # Fehlt => stamm'[u] # Fehlt
           /\ UNCHANGED <<zeilen, naechste>>
      BY <1>1, <2>2, <2>7, EigeneStimmt DEF GleicheForm
    <2> QED
      BY <2>8, <2>12, <2>13, ImSpeicherOrdentlich
  <1> QED
    BY <1>2, <1>3

------------------------------------------------------------------------------
(* The other requests.                                                      *)

LEMMA BeginnenFelder ==
    ASSUME NEW a, NEW u, NEW pc, NEW t, t = Beginnen(a, u, pc)
    PROVE  /\ t.pc = pc /\ t.firma = u /\ t.gesehen = {} /\ t.i = 0
           /\ t.vorgemerkt = {} /\ t.neueMitarbeiter = 0
  BY DEF Beginnen, Leer

\* The form shows the rows there are.
LEMMA EditLadenStimmt ==
    ASSUME TypeOK, FirmenInv, NEW a \in Anfrage, NEW u \in Firma, EditLaden(a, u)
    PROVE  \E t, g : Ordentlich(a, t, g)
  <1> DEFINE da == {z \in zeilen : z.firma = u}
             t == [Beginnen(a, u, "formular") EXCEPT !.gesehen = da]
  <1>1. Weiter(a, t, FALSE) /\ UNCHANGED <<stamm, zeilen, naechste>> /\ stamm[u] # Fehlt
    BY DEF EditLaden
  <1>2. /\ t.pc = "formular" /\ t.firma = u /\ t.gesehen = da /\ t.i = 0
        /\ t.vorgemerkt = {} /\ t.neueMitarbeiter = 0
    BY DEF Beginnen, Leer
  <1> HIDE DEF t
  <1>3. SitzungStimmt(t, zeilen, stamm')
    BY <1>1, <1>2 DEF SitzungStimmt, AmWerk
  <1>4. \A z \in t.gesehen : z.nr < naechste
    BY <1>2 DEF TypeOK
  <1>5. \A v \in Firma : stamm[v] # Fehlt => stamm'[v] # Fehlt
    BY <1>1
  <1> QED
    BY <1>1, <1>3, <1>4, <1>5, ImSpeicherOrdentlich

LEMMA DeleteBeginnenStimmt ==
    ASSUME TypeOK, FirmenInv, NEW a \in Anfrage, NEW u \in Firma, DeleteBeginnen(a, u)
    PROVE  \E t, g : Ordentlich(a, t, g)
  <1> DEFINE t == [Beginnen(a, u, "entlassen") EXCEPT !.loeschen = NrVon(u, "mitarbeiter")]
  <1>1. Weiter(a, t, FALSE) /\ UNCHANGED <<stamm, zeilen, naechste>>
    BY DEF DeleteBeginnen
  <1>2. t.pc = "entlassen" /\ t.gesehen = {}
    BY DEF Beginnen, Leer
  <1> HIDE DEF t
  <1>3. SitzungStimmt(t, zeilen, stamm')
    BY <1>2, SonstStimmt DEF AmWerk
  <1> QED
    BY <1>1, <1>2, <1>3, ImSpeicherOrdentlich

\* A step that touches the rows of nobody, but tells the others.
LEMMA SonstOrdentlich ==
    ASSUME TypeOK, FirmenInv, NEW a \in Anfrage, NEW t, Weiter(a, t, TRUE),
           UNCHANGED <<zeilen, naechste>>, t.pc \notin {"formular"} \cup AmWerk,
           t.gesehen = {}
    PROVE  Ordentlich(a, t, TRUE)
  <1>1. zeilen' = zeilen /\ naechste' = naechste
    OBVIOUS
  <1>2. naechste' \in Nat /\ naechste' >= naechste
    BY <1>1 DEF TypeOK
  <1>3. SitzungStimmt(t, zeilen', stamm')
    BY SonstStimmt
  <1>4. EineArt(zeilen')
    BY <1>1 DEF FirmenInv
  <1> QED
    BY <1>1, <1>2, <1>3, <1>4 DEF Ordentlich

LEMMA AdresseAnlegenStimmt ==
    ASSUME TypeOK, FirmenInv, NEW a \in Anfrage, NEW u \in Firma, AdresseAnlegen(a, u)
    PROVE  \E t, g : Ordentlich(a, t, g)
  <1> DEFINE t == Beginnen(a, u, "anlegen")
  <1>1. Weiter(a, t, TRUE) /\ UNCHANGED <<zeilen, naechste>>
    BY DEF AdresseAnlegen
  <1>2. t.pc = "anlegen" /\ t.gesehen = {}
    BY BeginnenFelder
  <1> HIDE DEF t
  <1> QED
    BY <1>1, <1>2, SonstOrdentlich DEF AmWerk

LEMMA AnlegenScheitertStimmt ==
    ASSUME TypeOK, FirmenInv, NEW a \in Anfrage, AnlegenScheitert(a)
    PROVE  \E t, g : Ordentlich(a, t, g)
  <1> DEFINE t == Ende(a)
  <1>1. Weiter(a, t, TRUE) /\ UNCHANGED <<zeilen, naechste>>
    BY DEF AnlegenScheitert
  <1>2. t.pc = "frei" /\ t.gesehen = {}
    BY DEF Ende, Leer
  <1> HIDE DEF t
  <1> QED
    BY <1>1, <1>2, SonstOrdentlich DEF AmWerk

\* What save inserts has fresh numbers.
LEMMA FirmaAnlegenStimmt ==
    ASSUME TypeOK, FirmenInv, NEW a \in Anfrage, FirmaAnlegen(a)
    PROVE  \E t, g : Ordentlich(a, t, g)
  <1> DEFINE u == sitzung[a].firma
             nummer == sitzung[a].nummer
  <1>1. PICK arten \in SUBSET Listen : \E folge \in [1..Cardinality(arten) -> arten] :
           /\ zeilen' = zeilen \cup {[nr |-> naechste + j - 1, firma |-> u,
                                      art |-> folge[j], stand |-> nummer] : j \in DOMAIN folge}
           /\ naechste' = naechste + Cardinality(arten)
    BY DEF FirmaAnlegen
  <1>2. PICK folge \in [1..Cardinality(arten) -> arten] :
           /\ zeilen' = zeilen \cup {[nr |-> naechste + j - 1, firma |-> u,
                                      art |-> folge[j], stand |-> nummer] : j \in DOMAIN folge}
           /\ naechste' = naechste + Cardinality(arten)
    BY <1>1
  <1>3. /\ Cardinality(arten) \in Nat /\ naechste \in Nat
        /\ \A z \in zeilen : z.nr \in Nat /\ z.nr < naechste
    <2>1. Cardinality(arten) \in Nat
      BY ListenEndlich, FS_Subset, FS_CardinalityType
    <2> QED
      BY <2>1 DEF TypeOK, Zeile
  <1> DEFINE r(j) == [nr |-> naechste + j - 1, firma |-> u,
                      art |-> folge[j], stand |-> nummer]
  <1>4. \A z \in zeilen' : z \in zeilen \/ \E j \in 1..Cardinality(arten) : z = r(j)
    BY <1>2
  <1>5. \A j \in 1..Cardinality(arten) : r(j).nr = (naechste + j) - 1 /\ r(j).art = folge[j]
    BY <1>3
  <1> HIDE DEF r
  <1>6. \A y, z \in zeilen' : y.nr = z.nr => y.art = z.art
    <2> SUFFICES ASSUME NEW y \in zeilen', NEW z \in zeilen', y.nr = z.nr
                 PROVE  y.art = z.art
      OBVIOUS
    <2>1. CASE y \in zeilen /\ z \in zeilen
      BY <2>1 DEF FirmenInv, EineArt
    <2>2. CASE y \notin zeilen /\ z \notin zeilen
      BY <1>3, <1>4, <1>5, <2>2
    <2>3. CASE y \in zeilen /\ z \notin zeilen
      BY <1>3, <1>4, <1>5, <2>3
    <2>4. CASE y \notin zeilen /\ z \in zeilen
      BY <1>3, <1>4, <1>5, <2>4
    <2> QED
      BY <2>1, <2>2, <2>3, <2>4
  <1>7. naechste' \in Nat /\ naechste' >= naechste
    BY <1>2, <1>3
  <1>8. Weiter(a, Ende(a), TRUE)
    BY DEF FirmaAnlegen
  <1>9. SitzungStimmt(Ende(a), zeilen', stamm') /\ Ende(a).gesehen = {}
    BY LeerStimmt DEF Ende
  <1> QED
    BY <1>6, <1>7, <1>8, <1>9 DEF Ordentlich, EineArt

LEMMA FirmaLoeschenStimmt ==
    ASSUME TypeOK, FirmenInv, NEW a \in Anfrage, FirmaLoeschen(a)
    PROVE  \E t, g : Ordentlich(a, t, g)
  <1>1. CASE Abbrechen(a) /\ UNCHANGED stamm
    BY <1>1, AbbrechenOrdentlich
  <1>2. CASE /\ zeilen' = {z \in zeilen : z.firma = sitzung[a].firma => z.art = "mitarbeiter"}
             /\ Weiter(a, Ende(a), TRUE)
             /\ UNCHANGED naechste
    <2>1. EineArt(zeilen')
      BY <1>2 DEF FirmenInv, EineArt
    <2>2. naechste' \in Nat /\ naechste' >= naechste
      BY <1>2 DEF TypeOK
    <2>3. SitzungStimmt(Ende(a), zeilen', stamm') /\ Ende(a).gesehen = {}
      BY LeerStimmt DEF Ende
    <2> QED
      BY <1>2, <2>1, <2>2, <2>3 DEF Ordentlich
  <1> QED
    BY <1>1, <1>2 DEF FirmaLoeschen

LEMMA FormularVerwerfenStimmt ==
    ASSUME TypeOK, FirmenInv, NEW a \in Anfrage, FormularVerwerfen(a) \/ Absturz(a)
    PROVE  \E t, g : Ordentlich(a, t, g)
  <1>1. Abbrechen(a) /\ UNCHANGED stamm
    BY DEF FormularVerwerfen, Absturz
  <1> QED
    BY <1>1, AbbrechenOrdentlich

\* The session of the last flush.
Letzte(a) ==
    [Ende(a) EXCEPT !.nummer = sitzung[a].nummer,
                    !.vorgemerkt = sitzung[a].vorgemerkt,
                    !.neueMitarbeiter = sitzung[a].neueMitarbeiter]

LEMMA LetzteTyp ==
    ASSUME TypeOK, NEW a \in Anfrage, NEW t, t = Letzte(a)
    PROVE  /\ t \in Sitzung /\ t.pc = "frei" /\ t.gesehen = {}
           /\ t.firma = sitzung[a].firma
           /\ t.nummer = sitzung[a].nummer
           /\ t.vorgemerkt = sitzung[a].vorgemerkt
           /\ t.neueMitarbeiter = sitzung[a].neueMitarbeiter
  <1> DEFINE s == sitzung[a]
             e == Ende(a)
  <1>1. s \in Sitzung /\ s.nummer \in Nat /\ s.vorgemerkt \in SUBSET Nat
        /\ s.neueMitarbeiter \in 0..1
    BY DEF TypeOK, Sitzung
  <1>2. e \in Sitzung
    BY EndeTyp
  <1>3. \A x \in Sitzung, n \in Nat, m \in SUBSET Nat, k \in 0..1 :
           [x EXCEPT !.nummer = n, !.vorgemerkt = m, !.neueMitarbeiter = k] \in Sitzung
    BY DEF Sitzung
  <1>4. t \in Sitzung
    BY <1>1, <1>2, <1>3 DEF Letzte
  <1> QED
    BY <1>4 DEF Letzte, Ende, Leer

LEMMA FirmaSchreibenStimmt ==
    ASSUME TypeOK, FirmenInv, NEW a \in Anfrage, FirmaSchreiben(a)
    PROVE  \E t, g : Ordentlich(a, t, g)
  <1> DEFINE s == sitzung[a]
  <1>1. CASE Abbrechen(a) /\ UNCHANGED stamm
    BY <1>1, AbbrechenOrdentlich
  <1>2. CASE /\ stamm' = [stamm EXCEPT ![s.firma] = s.nummer]
             /\ Spuelen(a, Letzte(a), {}, "mitarbeiter", 0)
    <2>1. /\ stamm \in [Firma -> Nat \cup {Fehlt}] /\ s.nummer \in Nat
      BY DEF TypeOK, Sitzung
    <2>2. \A u \in Firma : stamm[u] # Fehlt => stamm'[u] # Fehlt
      BY <1>2, <2>1 DEF Fehlt
    <2> DEFINE t == Letzte(a)
    <2>3. t \in Sitzung /\ t.pc = "frei" /\ t.gesehen = {}
      BY LetzteTyp
    <2>4. Spuelen(a, t, {}, "mitarbeiter", 0)
      BY <1>2
    <2> HIDE DEF t
    <2>5. t.pc # "formular" /\ t.pc \notin AmWerk /\ 0 \in 0..1
      BY <2>3 DEF AmWerk
    <2> QED
      BY <2>2, <2>3, <2>4, <2>5, ArtenInListen, SpuelenOrdentlich
  <1> QED
    BY <1>1, <1>2 DEF FirmaSchreiben, Letzte

LEMMA SpeichernStimmt ==
    ASSUME TypeOK, FirmenInv, NEW a \in Anfrage, Speichern(a) \/ SpeichernScheitert(a)
    PROVE  \E t, g : Ordentlich(a, t, g)
  <1>1. CASE FirmaSchreiben(a)
    BY <1>1, FirmaSchreibenStimmt
  <1>2. CASE Abbrechen(a) /\ UNCHANGED stamm
    BY <1>2, AbbrechenOrdentlich
  <1> QED
    BY <1>1, <1>2 DEF Speichern, SpeichernScheitert

------------------------------------------------------------------------------

LEMMA InitFirmen == Init => FirmenInv
  <1> SUFFICES ASSUME Init
               PROVE  FirmenInv
    OBVIOUS
  <1>1. PICK u \in Firma :
           /\ zeilen = {[nr |-> 1, firma |-> u, art |-> "mitarbeiter", stand |-> 0]}
                       \cup {[nr |-> 1 + i, firma |-> u, art |-> Arten[i], stand |-> 0]
                               : i \in DOMAIN Arten}
           /\ sitzung = [a \in Anfrage |-> Leer(u)]
    BY DEF Init
  <1>2. DOMAIN Arten \subseteq Nat \ {0}
    BY ArtenInListen
  <1>3. \A y, z \in zeilen : y.nr = z.nr => y.art = z.art
    <2>1. \A z \in zeilen : \/ z.nr = 1 /\ z.art = "mitarbeiter"
                            \/ \E i \in DOMAIN Arten : z.nr = 1 + i /\ z.art = Arten[i]
      BY <1>1
    <2> QED
      BY <1>2, <2>1
  <1>4. \A a \in Anfrage : /\ SitzungStimmt(sitzung[a], zeilen, stamm)
                           /\ sitzung[a].gesehen = {}
    BY <1>1, LeerStimmt
  <1> QED
    BY <1>3, <1>4 DEF FirmenInv, EineArt

LEMMA NextFirmen == AdressInv /\ FirmenInv /\ [Next]_vars => FirmenInv'
  <1> SUFFICES ASSUME TypeOK, IndexStimmt, FirmenInv, [Next]_vars
               PROVE  FirmenInv'
    BY DEF AdressInv
  <1>1. CASE UNCHANGED vars
    BY <1>1 DEF vars, FirmenInv, EineArt, SitzungStimmt, UpdateStimmt, ListeStimmt, Neue
  <1>2. CASE Next
    <2>1. PICK a \in Anfrage :
             \/ \E u \in Firma : \/ AdresseAnlegen(a, u)
                                 \/ EditLaden(a, u)
                                 \/ DeleteBeginnen(a, u)
             \/ FirmaAnlegen(a)
             \/ AnlegenScheitert(a)
             \/ Absenden(a)
             \/ MitarbeiterLoeschen(a)
             \/ MitarbeiterSpeichern(a)
             \/ ArtBeginnen(a)
             \/ EintragAendern(a)
             \/ EintraegeVergleichen(a)
             \/ EintragLoeschen(a)
             \/ EintragEinfuegen(a)
             \/ Speichern(a)
             \/ SpeichernScheitert(a)
             \/ FirmaLoeschen(a)
             \/ FormularVerwerfen(a)
             \/ Absturz(a)
      BY <1>2 DEF Next
    <2>2. \E t, g : Ordentlich(a, t, g)
      BY <2>1, AdresseAnlegenStimmt, EditLadenStimmt, DeleteBeginnenStimmt,
         FirmaAnlegenStimmt, AnlegenScheitertStimmt, AbsendenStimmt,
         MitarbeiterLoeschenStimmt, MitarbeiterSpeichernStimmt, ArtBeginnenStimmt,
         EintragAendernStimmt, EintraegeVergleichenStimmt, EintragLoeschenStimmt,
         EintragEinfuegenStimmt, SpeichernStimmt, FirmaLoeschenStimmt,
         FormularVerwerfenStimmt
    <2> QED
      BY <2>2, AndereStimmen
  <1> QED
    BY <1>1, <1>2

\* What the last flush leaves of a list: NachUpdate, list by list.
Gespeichert(s, zz, l) ==
    LET neu == Art(zz, s.firma, l) \ {z \in zz : z.nr \in {y.nr : y \in s.gesehen}}
    IN  /\ {z.nr : z \in Art(zz, s.firma, l)} \cap {z.nr : z \in s.gesehen}
             = IF l # "mitarbeiter" THEN s.form[l].behalten
               ELSE IF LeereForm(s.form[l]) THEN {} ELSE Gesehene(s, l)
        /\ Cardinality(neu) = s.form[l].neu
        /\ \A z \in neu : z.stand = s.nummer
        /\ \A z \in zz : z.nr \in s.form[l].behalten => z.stand = s.nummer

LEMMA ListeGespeichert ==
    ASSUME NEW s \in Sitzung, NEW zz, NEW l \in Listen, s.pc = "speichern",
           UpdateStimmt(s, zz, {}, "mitarbeiter", 0),
           s.vorgemerkt = {}, s.neueMitarbeiter = 0
    PROVE  Gespeichert(s, zz, l)
  <1>1. /\ FormStimmt(s) /\ ArbeitStimmt(s)
        /\ ListeStimmt(s, zz, l, {}, 0)
    <2>1. ListeStimmt(s, zz, l, {}, IF l = "mitarbeiter" THEN 0 ELSE 0)
      BY DEF UpdateStimmt
    <2> QED
      BY <2>1 DEF UpdateStimmt
  <1>2. ~Kommt(s, l) /\ ~Dran(s, l)
    BY <1>1, ArtenInListen DEF ArbeitStimmt, Kommt, Dran
  <1>3. /\ NochDa(s, l) = IF l # "mitarbeiter" THEN s.form[l].behalten
                          ELSE IF LeereForm(s.form[l]) THEN {} ELSE Gesehene(s, l)
        /\ NochZuAendern(s, l) = {}
        /\ NochNeu(s, l) = 0
    BY <1>2 DEF NochDa, NochZuAendern, NochNeu
  <1> DEFINE neu == Art(zz, s.firma, l) \ {z \in zz : z.nr \in {y.nr : y \in s.gesehen}}
  <1>4. neu = Neue(s, zz, l)
    BY DEF Neue, Gezeigt, Nrn, Art
  <1>5. /\ Nrn(Art(zz, s.firma, l)) \cap Gezeigt(s) = NochDa(s, l)
        /\ \/ s.form[l].neu = 0 /\ neu = {}
           \/ s.form[l].neu = 1 /\ \E z \in zz : neu = {z}
        /\ \A z \in neu : z.stand = s.nummer
        /\ \A z \in zz : z.nr \in s.form[l].behalten => z.stand = s.nummer
    BY <1>1, <1>3, <1>4 DEF ListeStimmt
  <1>6. Cardinality(neu) = s.form[l].neu
    BY <1>5, FS_EmptySet, FS_Singleton
  <1> HIDE DEF neu
  <1>7. /\ Nrn(Art(zz, s.firma, l)) = {z.nr : z \in Art(zz, s.firma, l)}
        /\ Gezeigt(s) = {z.nr : z \in s.gesehen}
    BY DEF Nrn, Gezeigt
  <1> QED
    BY <1>3, <1>5, <1>6, <1>7, Zenon DEF Gespeichert, neu

\* The last flush of an undisturbed update does not fail, and does to the lists
\* what was still to be done.
LEMMA LetzteSpuelung ==
    ASSUME TypeOK, FirmenInv, NEW a \in Anfrage, Speichern(a), sitzung[a].ungestoert
    PROVE  /\ stamm'[sitzung[a].firma] = sitzung[a].nummer
           /\ \A l \in Listen : Gespeichert(sitzung[a], zeilen', l)
  <1> DEFINE s == sitzung[a]
             t == [s EXCEPT !.vorgemerkt = {}, !.neueMitarbeiter = 0]
             e == Letzte(a)
  <1>1. /\ s \in Sitzung /\ s.pc = "speichern" /\ s.firma \in Firma
        /\ stamm[s.firma] # Fehlt
        /\ s.vorgemerkt \subseteq Nrn(zeilen)
        /\ UpdateStimmt(s, zeilen, {}, "mitarbeiter", 0)
        /\ \A z \in s.gesehen : z.nr < naechste
    BY EigeneStimmt DEF Speichern, AmWerk, Sitzung
  <1>2. /\ stamm' = [stamm EXCEPT ![s.firma] = s.nummer]
        /\ Spuelen(a, e, {}, "mitarbeiter", 0)
    BY <1>1, Zenon DEF Speichern, FirmaSchreiben, Letzte
  <1>3. stamm'[s.firma] = s.nummer
    BY <1>1, <1>2 DEF TypeOK
  <1>4. /\ e.firma = s.firma /\ e.nummer = s.nummer /\ e.vorgemerkt = s.vorgemerkt
        /\ e.neueMitarbeiter = s.neueMitarbeiter
    BY LetzteTyp
  <1> HIDE DEF e
  <1>5. zeilen' = NachSpuelen(e, {}, "mitarbeiter", 0)
    <2>1. /\ e.vorgemerkt \cup {} \subseteq {z.nr : z \in zeilen}
          /\ 0 + e.neueMitarbeiter > 0 => stamm[e.firma] # Fehlt
      BY <1>1, <1>4 DEF Nrn
    <2> QED
      BY <1>2, <2>1, Zenon DEF Spuelen, NachSpuelen, Eingefuegt
  <1>6. NachSpuelen(e, {}, "mitarbeiter", 0) = NachSpuelen(s, {}, "mitarbeiter", 0)
    BY <1>4, Zenon DEF NachSpuelen, Eingefuegt
  <1>7. Leergespuelt(s, t)
    BY <1>1, Geleert
  <1>8. UpdateStimmt(t, zeilen', {}, "mitarbeiter", 0)
    <2>1. {} \subseteq Gezeigt(s) /\ 0 \in 0..1 /\ "mitarbeiter" \in Listen
      BY ArtenInListen
    <2> QED
      BY <1>1, <1>5, <1>6, <2>1, SpuelenErhaelt
  <1> HIDE DEF t
  <1>9. /\ t \in Sitzung /\ t.pc = "speichern" /\ t.vorgemerkt = {} /\ t.neueMitarbeiter = 0
        /\ t.firma = s.firma /\ t.nummer = s.nummer
        /\ t.gesehen = s.gesehen /\ t.form = s.form
    BY <1>1, <1>7 DEF Leergespuelt
  <1>10. \A l \in Listen : Gespeichert(t, zeilen', l)
    BY <1>8, <1>9, ListeGespeichert
  <1>11. ASSUME NEW l \in Listen
         PROVE  Gespeichert(s, zeilen', l)
    <2>1. Gesehene(t, l) = Gesehene(s, l)
      BY <1>9 DEF Gesehene
    <2>2. Gespeichert(t, zeilen', l)
      BY <1>10
    <2> QED
      BY <1>9, <2>1, <2>2, Zenon DEF Gespeichert
  <1> QED
    BY <1>3, <1>11

LEMMA SpeichernWirkt ==
    ASSUME TypeOK, FirmenInv, NEW a \in Anfrage, Speichern(a), sitzung[a].ungestoert
    PROVE  Uebernommen(a)
  <1> DEFINE s == sitzung[a]
             u == s.firma
             mit == s.form["mitarbeiter"]
             gesehen == {z.nr : z \in s.gesehen}
             da(l) == {z.nr : z \in Art(zeilen', u, l)}
             neu(l) == Art(zeilen', u, l) \ {z \in zeilen' : z.nr \in gesehen}
             soll == IF LeereForm(mit) THEN {} ELSE {z.nr : z \in Art(s.gesehen, u, "mitarbeiter")}
  <1>1. stamm'[u] = s.nummer /\ "mitarbeiter" \in Listen
    BY LetzteSpuelung, ArtenInListen
  <1>2. \A l \in Listen : Gespeichert(s, zeilen', l)
    BY LetzteSpuelung
  <1>3. \A l \in Listen :
           /\ da(l) \cap gesehen
                = IF l # "mitarbeiter" THEN s.form[l].behalten
                  ELSE IF LeereForm(s.form[l]) THEN {} ELSE Gesehene(s, l)
           /\ Cardinality(neu(l)) = s.form[l].neu
           /\ \A z \in neu(l) : z.stand = s.nummer
           /\ \A z \in zeilen' : z.nr \in s.form[l].behalten => z.stand = s.nummer
    BY <1>2, Zenon DEF Gespeichert
  <1>4. \A l : /\ \A z \in Art(zeilen', u, l) : /\ z \in zeilen' /\ z.nr \in da(l)
                                                /\ z \in neu(l) \/ z.nr \in gesehen
               /\ {z.nr : z \in Art(zeilen', u, l) \ neu(l)} = da(l) \cap gesehen
    BY DEF Art
  <1>5. soll = IF LeereForm(mit) THEN {} ELSE Gesehene(s, "mitarbeiter")
    BY Zenon DEF Gesehene, Nrn
  <1> HIDE DEF da, neu, gesehen, soll
  <1>6. ASSUME NEW l \in Listen \ {"mitarbeiter"}
        PROVE  /\ da(l) \cap gesehen = s.form[l].behalten
               /\ Cardinality(neu(l)) = s.form[l].neu
               /\ \A z \in Art(zeilen', u, l) : z.stand = s.nummer
    <2>1. l \in Listen /\ l # "mitarbeiter"
      OBVIOUS
    <2>2. da(l) \cap gesehen = s.form[l].behalten
      BY <1>3, <2>1
    <2>3. \A z \in Art(zeilen', u, l) : z.stand = s.nummer
      BY <1>3, <1>4, <2>1, <2>2
    <2> QED
      BY <1>3, <2>1, <2>2, <2>3
  <1>7. /\ Cardinality(neu("mitarbeiter")) = mit.neu
        /\ \A z \in zeilen' : z.nr \in mit.behalten => z.stand = s.nummer
        /\ {z.nr : z \in Art(zeilen', u, "mitarbeiter") \ neu("mitarbeiter")} = soll
    BY <1>1, <1>3, <1>4, <1>5
  <1> QED
    BY <1>1, <1>6, <1>7, Zenon DEF Uebernommen, da, neu, gesehen, soll

\* An update that was saved and that nobody disturbed has written the form to
\* the company: the entries are the ones of the form, the changed and the new
\* ones in it, and the employees are those there were, or none if the form has
\* none; whatever the kinds, and whichever requests end on the way
\* (UnternehmenController edit and update, lines 381-782).
THEOREM UpdateGespeichert == Spec => NachUpdate
  <1>1. AdressInv /\ FirmenInv /\ [Next]_vars =>
           [\A a \in Anfrage : Speichern(a) /\ sitzung[a].ungestoert => Uebernommen(a)]_vars
    BY SpeichernWirkt, Zenon DEF AdressInv
  <1> QED
    BY InitInv, NextInv, InitFirmen, NextFirmen, <1>1, PTL DEF Spec, NachUpdate
==============================================================================
