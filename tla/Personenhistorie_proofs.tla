------------------------ MODULE Personenhistorie_proofs ------------------------
(***************************************************************************)
(* Type correctness of the members' history for any number of persons,     *)
(* posts and requests, with requests that fail and a server that stops;    *)
(* for requests that come one after the other and get to their end, that   *)
(* posts and open rows of the history belong together; and for whatever    *)
(* requests overlap, that an update nobody disturbs does what it should.   *)
(***************************************************************************)
EXTENDS Personenhistorie, FiniteSetTheorems, TLAPS

\* What a request has at hand at each place.
Passend(s) ==
    /\ s.pc \in {"ressorts", "historie", "kontakt", "speichern"} =>
           s.person \in Person /\ s.neu \in Status
    /\ s.pc = "ressorts" => s.weg \subseteq Ressort /\ s.dazu \subseteq Ressort
    /\ s.pc = "inhaber" => s.weg \subseteq Person /\ s.posten \in Amt

TypInv ==
    /\ TypeOK
    /\ \A a \in Anfrage : Passend(sitzung[a])

LEMMA LeerTyp == Leer \in Sitzung /\ Passend(Leer)
  <1>1. Leer.pc = "frei" /\ Leer \in Sitzung
    BY DEF Leer, Sitzung
  <1> QED
    BY <1>1 DEF Passend

LEMMA NeueZeileTyp ==
    ASSUME NEW p \in Person, NEW po \in Posten \cup {KeinRessort}, NEW st \in Status \cup {Ohne}
    PROVE  NeueZeile(p, po, st) \in Seq(Zeile)
  <1>1. CASE Ohne \in {po, st}
    BY <1>1 DEF NeueZeile
  <1>2. CASE Ohne \notin {po, st}
    <2> DEFINE z == [person |-> p, posten |-> po, status |-> st, offen |-> TRUE]
    <2>1. z \in Zeile
      BY <1>2 DEF Zeile
    <2> HIDE DEF z
    <2>2. <<z>> \in Seq(Zeile)
      BY <2>1
    <2>3. NeueZeile(p, po, st) = <<z>>
      BY <1>2 DEF NeueZeile, z
    <2> QED
      BY <2>2, <2>3
  <1> QED
    BY <1>1, <1>2

LEMMA BeendetTyp ==
    ASSUME historie \in Seq(Zeile), NEW s
    PROVE  Beendet(s) \in Seq(Zeile) /\ DOMAIN Beendet(s) = DOMAIN historie
  <1>1. \A i \in DOMAIN historie : [historie[i] EXCEPT !.offen = @ /\ i \notin s.marken] \in Zeile
    <2> SUFFICES ASSUME NEW i \in DOMAIN historie
                 PROVE  [historie[i] EXCEPT !.offen = @ /\ i \notin s.marken] \in Zeile
      OBVIOUS
    <2>1. historie[i] \in Zeile
      OBVIOUS
    <2>2. (historie[i].offen /\ i \notin s.marken) \in BOOLEAN
      OBVIOUS
    <2> DEFINE x == historie[i].offen /\ i \notin s.marken
    <2> HIDE DEF x
    <2>3. [historie[i] EXCEPT !.offen = x] \in Zeile
      BY <2>1, <2>2 DEF Zeile, x
    <2> QED
      BY <2>3 DEF x
  <1> DEFINE e(i) == [historie[i] EXCEPT !.offen = @ /\ i \notin s.marken]
  <1> HIDE DEF e
  <1>2. Len(historie) \in Nat /\ DOMAIN historie = 1 .. Len(historie)
    OBVIOUS
  <1>3. \A i \in 1 .. Len(historie) : e(i) \in Zeile
    BY <1>1, <1>2 DEF e
  <1>4. [i \in 1 .. Len(historie) |-> e(i)] \in Seq(Zeile)
    BY <1>2, <1>3
  <1> QED
    BY <1>2, <1>4 DEF Beendet, e

\* The other requests keep what they have, apart from an observation.
LEMMA WeiterTyp ==
    ASSUME TypInv, NEW a \in Anfrage, NEW s \in Sitzung, Passend(s), NEW g \in BOOLEAN,
           Weiter(a, s, g)
    PROVE  sitzung' \in [Anfrage -> Sitzung] /\ \A b \in Anfrage : Passend(sitzung'[b])
  <1>1. \A b \in Anfrage :
           /\ sitzung[b] \in Sitzung /\ Passend(sitzung[b])
           /\ (sitzung[b].ungestoert /\ ~g) \in BOOLEAN
    BY DEF TypInv, TypeOK, Sitzung
  <1>2. \A r \in Sitzung, x \in BOOLEAN :
           /\ [r EXCEPT !.ungestoert = x] \in Sitzung
           /\ Passend(r) => Passend([r EXCEPT !.ungestoert = x])
    BY DEF Sitzung, Passend
  <1>3. \A b \in Anfrage :
           [sitzung[b] EXCEPT !.ungestoert = @ /\ ~g] \in Sitzung
           /\ Passend([sitzung[b] EXCEPT !.ungestoert = @ /\ ~g])
    BY <1>1, <1>2
  <1> QED
    BY <1>3, LeerTyp DEF Weiter

LEMMA GespueltTyp ==
    ASSUME NEW s \in Sitzung, Passend(s)
    PROVE  Gespuelt(s) \in Sitzung /\ Passend(Gespuelt(s))
  BY DEF Gespuelt, Sitzung, Passend

LEMMA VerknuepftTyp ==
    ASSUME TypInv, NEW s \in Sitzung
    PROVE  Verknuepft(s) \subseteq Verknuepfung
  BY DEF TypInv, TypeOK, Verknuepft, Sitzung

LEMMA SpuelenTyp ==
    ASSUME TypInv, NEW a \in Anfrage, NEW s \in Sitzung, Passend(s), NEW neu \in Seq(Zeile),
           Spuelen(a, s, neu) \/ DoppeltVerknuepft(a, s, neu),
           status' \in [Person -> Status \cup {Ohne}], UNCHANGED anfragen
    PROVE  TypInv'
  <1>1. historie' = Beendet(s) \o neu /\ inhaber' \in {Verknuepft(s), inhaber}
    BY DEF Spuelen, DoppeltVerknuepft
  <1>2. Beendet(s) \in Seq(Zeile)
    BY BeendetTyp DEF TypInv, TypeOK
  <1> HIDE DEF Beendet
  <1>3. historie' \in Seq(Zeile) /\ inhaber' \subseteq Verknuepfung
    BY <1>1, <1>2, VerknuepftTyp DEF TypInv, TypeOK
  <1>4. sitzung' \in [Anfrage -> Sitzung] /\ \A b \in Anfrage : Passend(sitzung'[b])
    BY WeiterTyp, GespueltTyp, LeerTyp DEF Spuelen, DoppeltVerknuepft
  <1> QED
    BY <1>3, <1>4 DEF TypInv, TypeOK

\* A step of a request that writes nothing.
LEMMA ImSpeicherTyp ==
    ASSUME TypInv, NEW a \in Anfrage, NEW s \in Sitzung, Passend(s),
           Weiter(a, s, FALSE), UNCHANGED tabellen, anfragen' \in 0 .. MaxAnfragen
    PROVE  TypInv'
  <1>1. sitzung' \in [Anfrage -> Sitzung] /\ \A b \in Anfrage : Passend(sitzung'[b])
    BY WeiterTyp
  <1> QED
    BY <1>1 DEF TypInv, TypeOK, tabellen

LEMMA EndeTyp ==
    ASSUME TypInv, NEW a \in Anfrage, NEW s \in Sitzung, Passend(s),
           NEW zeilen \in SUBSET DOMAIN historie, HistoryEnde(a, s, zeilen),
           UNCHANGED <<status, anfragen>>
    PROVE  TypInv'
  <1> DEFINE offene == {i \in zeilen : historie[i].offen /\ i \notin s.marken}
  <1>1. offene \in SUBSET Nat
    BY DEF TypInv, TypeOK
  <1> HIDE DEF offene
  <1>2. \A r \in Sitzung : Passend(r) => /\ [r EXCEPT !.marken = offene] \in Sitzung
                                         /\ Passend([r EXCEPT !.marken = offene])
    BY <1>1 DEF Sitzung, Passend
  <1>3. CASE s.marken = {}
    <2>1. Weiter(a, [s EXCEPT !.marken = offene], FALSE) /\ UNCHANGED tabellen
      BY <1>3 DEF HistoryEnde, offene, tabellen
    <2> QED
      BY <1>2, <2>1, ImSpeicherTyp DEF TypInv, TypeOK
  <1>4. CASE s.marken # {}
    <2>1. /\ historie' = Beendet(s)
          /\ inhaber' = Verknuepft(s)
          /\ Weiter(a, [Gespuelt(s) EXCEPT !.marken = offene], TRUE)
      BY <1>4 DEF HistoryEnde, offene
    <2>2. sitzung' \in [Anfrage -> Sitzung] /\ \A b \in Anfrage : Passend(sitzung'[b])
      BY <1>2, <2>1, WeiterTyp, GespueltTyp
    <2> QED
      BY <2>1, <2>2, BeendetTyp, VerknuepftTyp DEF TypInv, TypeOK
  <1> QED
    BY <1>3, <1>4

LEMMA ZeilenGefunden ==
    ASSUME NEW p, NEW x
    PROVE  /\ ZeilenFuerPosten(p, x) \in SUBSET DOMAIN historie
           /\ ZeilenFuerStatus(p, x) \in SUBSET DOMAIN historie
  BY DEF ZeilenFuerPosten, ZeilenFuerStatus

LEMMA SitzungTyp ==
    ASSUME TypInv, NEW a \in Anfrage
    PROVE  /\ sitzung[a] \in Sitzung /\ Passend(sitzung[a])
           /\ status \in [Person -> Status \cup {Ohne}] /\ anfragen \in 0 .. MaxAnfragen
           /\ inhaber \subseteq Verknuepfung /\ historie \in Seq(Zeile)
  BY DEF TypInv, TypeOK

LEMMA AnlegenTyp ==
    ASSUME TypInv, NEW p \in Person, NEW st \in Status, PersonAnlegen(p, st)
    PROVE  TypInv'
  <1>1. NeueZeile(p, KeinRessort, st) \in Seq(Zeile)
    BY NeueZeileTyp
  <1>2. historie' \in Seq(Zeile)
    BY <1>1 DEF PersonAnlegen, TypInv, TypeOK
  <1>3. status' \in [Person -> Status \cup {Ohne}]
    BY DEF PersonAnlegen, TypInv, TypeOK
  <1> QED
    BY <1>2, <1>3 DEF PersonAnlegen, TypInv, TypeOK

LEMMA BeginnenTyp ==
    ASSUME TypInv, NEW a \in Anfrage, NEW p \in Person, NEW auswahl \in SUBSET Ressort,
           NEW neu \in Status, UpdateBeginnen(a, p, auswahl, neu)
    PROVE  TypInv'
  <1> DEFINE kopie == {v \in inhaber : v[1] = p}
             rs == PostenIn(kopie, p) \cap Ressort
             s == [Leer EXCEPT !.pc = "ressorts", !.person = p, !.auswahl = auswahl,
                               !.alt = status[p], !.neu = neu, !.kopie = kopie,
                               !.vorher = kopie, !.weg = rs \ auswahl,
                               !.dazu = auswahl \ rs]
  <1>1. kopie \subseteq Verknuepfung /\ rs \subseteq Ressort /\ status[p] \in Status \cup {Ohne}
    BY SitzungTyp
  <1>2. Weiter(a, s, FALSE) /\ UNCHANGED tabellen
    BY DEF UpdateBeginnen
  <1>4. anfragen' \in 0 .. MaxAnfragen
    <2>1. anfragen < MaxAnfragen /\ anfragen' = anfragen + 1
      BY DEF UpdateBeginnen
    <2> QED
      BY <2>1, SitzungTyp, HistorieAssumption
  <1> HIDE DEF kopie, rs
  <1>3. s \in Sitzung /\ Passend(s)
    <2>1. s \in Sitzung
      BY <1>1, LeerTyp DEF Sitzung, Posten
    <2> QED
      BY <1>1, <2>1 DEF Passend, Sitzung, Leer
  <1> QED
    BY <1>2, <1>3, <1>4, ImSpeicherTyp

LEMMA EntfernenTyp ==
    ASSUME TypInv, NEW a \in Anfrage, RessortEntfernen(a)
    PROVE  TypInv'
  <1> DEFINE s == sitzung[a]
             t(r) == [s EXCEPT !.weg = @ \ {r}, !.kopie = @ \ {<<s.person, r>>},
                               !.raus = @ \cup {<<s.person, r>>}]
  <1>1. s \in Sitzung /\ Passend(s) /\ s.pc = "ressorts"
    BY SitzungTyp DEF RessortEntfernen
  <1>2. PICK r \in s.weg : HistoryEnde(a, t(r), ZeilenFuerPosten(s.person, r))
    BY DEF RessortEntfernen
  <1>3. UNCHANGED <<status, anfragen>>
    BY DEF RessortEntfernen
  <1> HIDE DEF s
  <1>4. <<s.person, r>> \in Verknuepfung
    BY <1>1, <1>2 DEF Passend, Verknuepfung, Posten
  <1>5. t(r) \in Sitzung /\ Passend(t(r))
    BY <1>1, <1>4 DEF Sitzung, Passend
  <1> QED
    BY <1>2, <1>3, <1>5, EndeTyp, ZeilenGefunden

LEMMA HinzufuegenTyp ==
    ASSUME TypInv, NEW a \in Anfrage, RessortHinzufuegen(a)
    PROVE  TypInv'
  <1> DEFINE s == sitzung[a]
             t(r) == [s EXCEPT !.dazu = @ \ {r}, !.kopie = @ \cup {<<s.person, r>>},
                               !.rein = @ \cup {<<s.person, r>>}]
  <1>1. s \in Sitzung /\ Passend(s) /\ s.pc = "ressorts"
    BY SitzungTyp DEF RessortHinzufuegen
  <1>2. PICK r \in s.dazu : \/ Spuelen(a, t(r), ZeileZumRessort(t(r), r))
                            \/ DoppeltVerknuepft(a, t(r), ZeileZumRessort(t(r), r))
    BY DEF RessortHinzufuegen
  <1>3. status' \in [Person -> Status \cup {Ohne}] /\ UNCHANGED anfragen
    BY SitzungTyp DEF RessortHinzufuegen
  <1> HIDE DEF s
  <1>4. <<s.person, r>> \in Verknuepfung
    BY <1>1, <1>2 DEF Passend, Verknuepfung, Posten
  <1>5. t(r) \in Sitzung /\ Passend(t(r)) /\ t(r).person \in Person /\ t(r).neu \in Status
    BY <1>1, <1>4 DEF Sitzung, Passend
  <1>6. r \in Posten
    BY <1>1, <1>2 DEF Passend, Posten
  <1> HIDE DEF t
  <1>7. ZeileZumRessort(t(r), r) \in Seq(Zeile)
    BY <1>5, <1>6, NeueZeileTyp DEF ZeileZumRessort
  <1> QED
    BY <1>2, <1>3, <1>5, <1>7, SpuelenTyp

LEMMA VergleichenTyp ==
    ASSUME TypInv, NEW a \in Anfrage, StatusVergleichen(a)
    PROVE  TypInv'
  <1> DEFINE s == sitzung[a]
             posten == PostenIn(s.kopie, s.person)
             d == IF posten = {} THEN {KeinRessort} ELSE posten
  <1>1. s \in Sitzung /\ Passend(s) /\ s.pc = "ressorts" /\ anfragen \in 0 .. MaxAnfragen
    BY SitzungTyp DEF StatusVergleichen
  <1>2. UNCHANGED <<status, anfragen>>
    BY DEF StatusVergleichen
  <1>3. \/ Weiter(a, [s EXCEPT !.pc = "kontakt"], FALSE) /\ UNCHANGED <<inhaber, historie>>
        \/ HistoryEnde(a, [s EXCEPT !.pc = "historie", !.dazu = d],
                       ZeilenFuerStatus(s.person, s.alt))
    BY DEF StatusVergleichen, ZeilenDesAltenStatus
  <1>4. d \subseteq Posten \cup {KeinRessort}
    BY DEF PostenIn
  <1> HIDE DEF s, d
  <1>5. /\ [s EXCEPT !.pc = "kontakt"] \in Sitzung /\ Passend([s EXCEPT !.pc = "kontakt"])
        /\ [s EXCEPT !.pc = "historie", !.dazu = d] \in Sitzung
        /\ Passend([s EXCEPT !.pc = "historie", !.dazu = d])
    BY <1>1, <1>4 DEF Sitzung, Passend
  <1>6. CASE Weiter(a, [s EXCEPT !.pc = "kontakt"], FALSE) /\ UNCHANGED <<inhaber, historie>>
    BY <1>1, <1>2, <1>5, <1>6, ImSpeicherTyp DEF tabellen
  <1> QED
    BY <1>2, <1>3, <1>5, <1>6, EndeTyp, ZeilenGefunden

LEMMA FuerPostenTyp ==
    ASSUME TypInv, NEW a \in Anfrage, HistorieFuerPosten(a)
    PROVE  TypInv'
  <1> DEFINE s == sitzung[a]
             t(rest) == [s EXCEPT !.dazu = rest,
                                  !.pc = IF rest = {} THEN "kontakt" ELSE @]
  <1>1. s \in Sitzung /\ Passend(s) /\ s.pc = "historie"
    BY SitzungTyp DEF HistorieFuerPosten
  <1>2. PICK po \in s.dazu :
           Spuelen(a, t(s.dazu \ {po}), NeueZeile(t(s.dazu \ {po}).person, po, t(s.dazu \ {po}).neu))
    BY DEF HistorieFuerPosten
  <1>3. status' \in [Person -> Status \cup {Ohne}] /\ UNCHANGED anfragen
    BY SitzungTyp DEF HistorieFuerPosten
  <1> HIDE DEF s
  <1> DEFINE r == t(s.dazu \ {po})
  <1>4. r \in Sitzung /\ Passend(r) /\ r.person \in Person /\ r.neu \in Status
    BY <1>1 DEF Sitzung, Passend
  <1>5. po \in Posten \cup {KeinRessort}
    BY <1>1, <1>2 DEF Sitzung
  <1> HIDE DEF r
  <1>6. NeueZeile(r.person, po, r.neu) \in Seq(Zeile)
    BY <1>4, <1>5, NeueZeileTyp
  <1>7. Spuelen(a, r, NeueZeile(r.person, po, r.neu))
    BY <1>2 DEF r
  <1> QED
    BY <1>3, <1>4, <1>6, <1>7, SpuelenTyp

LEMMA KontaktdatenTyp ==
    ASSUME TypInv, NEW a \in Anfrage, KontaktdatenSpeichern(a)
    PROVE  TypInv'
  <1> DEFINE s == [sitzung[a] EXCEPT !.pc = "speichern"]
  <1>1. sitzung[a] \in Sitzung /\ Passend(sitzung[a]) /\ sitzung[a].pc = "kontakt"
    BY SitzungTyp DEF KontaktdatenSpeichern
  <1>2. s \in Sitzung /\ Passend(s)
    BY <1>1 DEF Sitzung, Passend
  <1>3. /\ Spuelen(a, s, <<>>) \/ (Weiter(a, s, FALSE) /\ UNCHANGED <<inhaber, historie>>)
        /\ UNCHANGED <<status, anfragen>>
    BY DEF KontaktdatenSpeichern
  <1>4. /\ status' \in [Person -> Status \cup {Ohne}] /\ anfragen' \in 0 .. MaxAnfragen
        /\ <<>> \in Seq(Zeile)
    BY <1>3, SitzungTyp
  <1> HIDE DEF s
  <1>5. CASE Spuelen(a, s, <<>>)
    BY <1>2, <1>3, <1>4, <1>5, SpuelenTyp
  <1>6. CASE Weiter(a, s, FALSE) /\ UNCHANGED <<inhaber, historie>>
    BY <1>2, <1>3, <1>4, <1>6, ImSpeicherTyp DEF tabellen
  <1> QED
    BY <1>3, <1>5, <1>6

\* What is left of a session at the flush that ends its request.
LEMMA RestTyp ==
    ASSUME NEW s \in Sitzung, NEW rein \in SUBSET Verknuepfung
    PROVE  LET r == [Leer EXCEPT !.raus = s.raus, !.rein = rein, !.marken = s.marken]
           IN  r \in Sitzung /\ Passend(r) /\ r.pc = "frei"
  <1> DEFINE r == [Leer EXCEPT !.raus = s.raus, !.rein = rein, !.marken = s.marken]
  <1>1. r.pc = "frei" /\ r \in Sitzung
    BY LeerTyp DEF Leer, Sitzung
  <1> HIDE DEF r
  <1>2. r \in Sitzung /\ Passend(r) /\ r.pc = "frei"
    BY <1>1 DEF Passend
  <1> QED
    BY <1>2 DEF r

LEMMA PersonSchreibenTyp ==
    ASSUME TypInv, NEW a \in Anfrage, sitzung[a].pc = "speichern", PersonSchreiben(a)
    PROVE  status' \in [Person -> Status \cup {Ohne}]
  <1>1. sitzung[a].person \in Person /\ sitzung[a].neu \in Status
    BY SitzungTyp DEF Passend
  <1> QED
    BY <1>1, SitzungTyp DEF PersonSchreiben

LEMMA SpeichernTyp ==
    ASSUME TypInv, NEW a \in Anfrage, Speichern(a) \/ SpeichernScheitert(a)
    PROVE  TypInv'
  <1> DEFINE r == [Leer EXCEPT !.raus = sitzung[a].raus, !.rein = sitzung[a].rein,
                               !.marken = sitzung[a].marken]
  <1>1. /\ sitzung[a].pc = "speichern" /\ UNCHANGED anfragen
        /\ \/ Weiter(a, Leer, FALSE) /\ UNCHANGED tabellen
           \/ PersonSchreiben(a) /\ Spuelen(a, r, <<>>)
    BY DEF Speichern, SpeichernScheitert
  <1>2. r \in Sitzung /\ Passend(r)
    <2>1. sitzung[a] \in Sitzung /\ sitzung[a].rein \in SUBSET Verknuepfung
      BY SitzungTyp DEF Sitzung
    <2> QED
      BY <2>1, RestTyp
  <1> HIDE DEF r
  <1>5. <<>> \in Seq(Zeile)
    OBVIOUS
  <1>3. CASE Weiter(a, Leer, FALSE) /\ UNCHANGED tabellen
    BY <1>1, <1>3, LeerTyp, SitzungTyp, ImSpeicherTyp
  <1>4. CASE PersonSchreiben(a) /\ Spuelen(a, r, <<>>)
    BY <1>1, <1>2, <1>4, <1>5, PersonSchreibenTyp, SpuelenTyp
  <1> QED
    BY <1>1, <1>3, <1>4

LEMMA ScheiternTyp ==
    ASSUME TypInv, NEW a \in Anfrage, KontaktdatenScheitern(a) \/ EntlassenScheitert(a)
    PROVE  TypInv'
  <1>1. Weiter(a, Leer, FALSE) /\ UNCHANGED <<tabellen, anfragen>>
    BY DEF KontaktdatenScheitern, EntlassenScheitert
  <1> QED
    BY <1>1, LeerTyp, SitzungTyp, ImSpeicherTyp

LEMMA ZuordnungTyp ==
    ASSUME TypInv, NEW a \in Anfrage, NEW plan \in [Amt -> Person \cup {Ohne}],
           ZuordnungBeginnen(a, plan)
    PROVE  TypInv'
  <1> DEFINE s == [Leer EXCEPT !.pc = "posten", !.plan = plan, !.rest = Amt]
  <1>1. Weiter(a, s, FALSE) /\ UNCHANGED tabellen
    BY DEF ZuordnungBeginnen
  <1>2. anfragen' \in 0 .. MaxAnfragen
    <2>1. anfragen < MaxAnfragen /\ anfragen' = anfragen + 1
      BY DEF ZuordnungBeginnen
    <2> QED
      BY <2>1, SitzungTyp, HistorieAssumption
  <1>3. s \in Sitzung /\ s.pc = "posten"
    BY LeerTyp DEF Leer, Sitzung
  <1> HIDE DEF s
  <1>4. Passend(s)
    BY <1>3 DEF Passend
  <1> QED
    BY <1>1, <1>2, <1>3, <1>4, ImSpeicherTyp

LEMMA PostenLesenTyp ==
    ASSUME TypInv, NEW a \in Anfrage, PostenLesen(a)
    PROVE  TypInv'
  <1> DEFINE s == sitzung[a]
             kopie(po) == {v \in inhaber : v[2] = po}
             t(po, k, w) == [s EXCEPT !.pc = "inhaber", !.posten = po, !.rest = @ \ {po},
                                      !.kopie = k, !.vorher = k, !.weg = w]
  <1>1. s \in Sitzung /\ UNCHANGED <<tabellen, anfragen>>
    BY SitzungTyp DEF PostenLesen
  <1>2. PICK po \in s.rest :
           Weiter(a, t(po, kopie(po), Abzuloesen(kopie(po), s.plan[po])), FALSE)
    BY DEF PostenLesen
  <1>3. po \in Amt
    BY <1>1 DEF Sitzung
  <1>4. kopie(po) \in SUBSET Verknuepfung
    BY SitzungTyp
  <1>5. Abzuloesen(kopie(po), s.plan[po]) \subseteq Person
    BY <1>4 DEF Abzuloesen, Verknuepfung
  <1> HIDE DEF s, kopie
  <1>6. \A k \in SUBSET Verknuepfung, w \in SUBSET Person : t(po, k, w) \in Sitzung /\ Passend(t(po, k, w))
    BY <1>1, <1>3 DEF Sitzung, Passend
  <1> HIDE DEF t
  <1> QED
    BY <1>1, <1>2, <1>4, <1>5, <1>6, SitzungTyp, ImSpeicherTyp

LEMMA EntlassenTyp ==
    ASSUME TypInv, NEW a \in Anfrage, InhaberEntlassen(a)
    PROVE  TypInv'
  <1> DEFINE s == sitzung[a]
             t(q) == [s EXCEPT !.weg = @ \ {q}, !.kopie = @ \ {<<q, s.posten>>},
                               !.raus = @ \cup {<<q, s.posten>>}]
  <1>1. s \in Sitzung /\ Passend(s) /\ s.pc = "inhaber"
    BY SitzungTyp DEF InhaberEntlassen
  <1>2. PICK q \in s.weg : HistoryEnde(a, t(q), ZeilenFuerPosten(q, s.posten))
    BY DEF InhaberEntlassen
  <1>3. UNCHANGED <<status, anfragen>>
    BY DEF InhaberEntlassen
  <1> HIDE DEF s
  <1>4. <<q, s.posten>> \in Verknuepfung
    BY <1>1, <1>2 DEF Passend, Verknuepfung, Posten
  <1>5. t(q) \in Sitzung /\ Passend(t(q))
    BY <1>1, <1>4 DEF Sitzung, Passend
  <1> QED
    BY <1>2, <1>3, <1>5, EndeTyp, ZeilenGefunden

LEMMA BesetzenTyp ==
    ASSUME TypInv, NEW a \in Anfrage, PostenBesetzen(a)
    PROVE  TypInv'
  <1> DEFINE s == sitzung[a]
             q == Neuer(s)
             rein == IF q = Ohne \/ <<q, s.posten>> \in s.kopie THEN {} ELSE {<<q, s.posten>>}
             ende == [Leer EXCEPT !.raus = s.raus, !.rein = rein, !.marken = s.marken]
             naechster == [s EXCEPT !.pc = "posten", !.posten = Ohne, !.rein = rein,
                                    !.kopie = {}, !.vorher = {}]
             t == IF s.rest = {} THEN ende ELSE naechster
             neu == IF q = Ohne THEN <<>> ELSE NeueZeile(q, s.posten, Ohne)
  <1>1. s \in Sitzung /\ Passend(s) /\ s.pc = "inhaber"
    BY SitzungTyp DEF PostenBesetzen
  <1>2. /\ Spuelen(a, t, neu) \/ DoppeltVerknuepft(a, t, neu)
        /\ status' \in [Person -> Status \cup {Ohne}] /\ UNCHANGED anfragen
    BY SitzungTyp DEF PostenBesetzen
  <1> HIDE DEF s
  <1>3. q \in Person \cup {Ohne} /\ s.posten \in Amt
    BY <1>1 DEF Passend, Sitzung, Neuer
  <1>4. rein \in SUBSET Verknuepfung
    BY <1>3 DEF Verknuepfung, Posten
  <1>5. neu \in Seq(Zeile)
    <2>1. q # Ohne => NeueZeile(q, s.posten, Ohne) \in Seq(Zeile)
      BY <1>3, NeueZeileTyp DEF Posten
    <2> QED
      BY <2>1
  <1> HIDE DEF rein, neu
  <1>6. ende \in Sitzung /\ Passend(ende)
    BY <1>1, <1>4, RestTyp
  <1>7. naechster \in Sitzung /\ Passend(naechster)
    BY <1>1, <1>4 DEF Sitzung, Passend
  <1> HIDE DEF ende, naechster
  <1> QED
    BY <1>2, <1>5, <1>6, <1>7, SpuelenTyp

LEMMA NeustartTyp ==
    ASSUME TypInv, Neustart
    PROVE  TypInv'
  <1>1. sitzung' = [a \in Anfrage |-> Leer] /\ UNCHANGED <<tabellen, anfragen>>
    BY DEF Neustart
  <1> QED
    BY <1>1, LeerTyp DEF TypInv, TypeOK, tabellen

LEMMA TypAmAnfang == Init => TypInv
  <1> SUFFICES ASSUME Init PROVE TypInv
    OBVIOUS
  <1>1. sitzung \in [Anfrage -> Sitzung] /\ \A a \in Anfrage : Passend(sitzung[a])
    BY LeerTyp DEF Init
  <1> QED
    BY <1>1, HistorieAssumption DEF Init, TypInv, TypeOK

LEMMA TypErhalten == TypInv /\ [Next]_vars => TypInv'
  <1> SUFFICES ASSUME TypInv, [Next]_vars PROVE TypInv'
    OBVIOUS
  <1>1. CASE \E p \in Person, st \in Status : PersonAnlegen(p, st)
    BY <1>1, AnlegenTyp
  <1>2. CASE \E a \in Anfrage, p \in Person, auswahl \in SUBSET Ressort, neu \in Status :
                UpdateBeginnen(a, p, auswahl, neu)
    BY <1>2, BeginnenTyp
  <1>3. CASE \E a \in Anfrage, plan \in [Amt -> Person \cup {Ohne}] : ZuordnungBeginnen(a, plan)
    BY <1>3, ZuordnungTyp
  <1>4. ASSUME NEW a \in Anfrage,
               \/ RessortEntfernen(a)
               \/ RessortHinzufuegen(a)
               \/ StatusVergleichen(a)
               \/ HistorieFuerPosten(a)
               \/ KontaktdatenSpeichern(a)
               \/ KontaktdatenScheitern(a)
               \/ Speichern(a)
               \/ SpeichernScheitert(a)
               \/ PostenLesen(a)
               \/ InhaberEntlassen(a)
               \/ EntlassenScheitert(a)
               \/ PostenBesetzen(a)
        PROVE  TypInv'
    BY <1>4, EntfernenTyp, HinzufuegenTyp, VergleichenTyp, FuerPostenTyp, KontaktdatenTyp,
       ScheiternTyp, SpeichernTyp, PostenLesenTyp, EntlassenTyp, BesetzenTyp
  <1>5. CASE Neustart
    BY <1>5, NeustartTyp
  <1>6. CASE UNCHANGED vars
    BY <1>6 DEF vars, TypInv, TypeOK
  <1> QED
    BY <1>1, <1>2, <1>3, <1>4, <1>5, <1>6 DEF Next

\* Every row of the history has a person, a post and a status, and every link
\* an existing post, whatever requests run at once and wherever they end.
THEOREM HistorieTyp == Spec => []TypeOK
  <1>1. TypInv => TypeOK
    BY DEF TypInv
  <1> QED
    BY <1>1, TypAmAnfang, TypErhalten, PTL DEF Spec
------------------------------------------------------------------------------
(* Requests one after the other, none of which fails.  The history is       *)
(* looked at as the request sees it: with the rows it has ended and the     *)
(* links it has removed, flushed or not.                                    *)

Einer == CHOOSE a \in Anfrage : TRUE
Nacheinander == Anfrage = {Einer} /\ ~Stoerung
S == sitzung[Einer]

OffenIn(h, m) == {h[i] : i \in {j \in DOMAIN h : h[j].offen /\ j \notin m}}

OffenJetzt == OffenIn(historie, S.marken)

Links == inhaber \ S.raus

ImUpdate == S.pc \in {"ressorts", "historie", "kontakt", "speichern"}

\* The posts of the person at hand whose new rows are still to come.
NochOhneZeile(v) == S.pc = "historie" /\ v[1] = S.person /\ v[2] \in S.dazu

Verbunden ==
    /\ \A z \in OffenJetzt : z.posten # KeinRessort => <<z.person, z.posten>> \in Links
    /\ \A v \in Links : v[2] \in Ressort =>
           NochOhneZeile(v) \/ \E z \in OffenJetzt : z.person = v[1] /\ z.posten = v[2]

\* Once the status has been compared, the person's open rows have the new one.
StatusStimmt ==
    \A z \in OffenJetzt :
        \/ z.status = status[z.person] /\ ~(S.pc # "ressorts" /\ ImUpdate /\ z.person = S.person)
        \/ z.status = S.neu /\ ImUpdate /\ z.person = S.person

EinInhaber == \A v, w \in inhaber : v[2] = w[2] /\ v[2] \in Amt => v[1] = w[1]

UpdateInv ==
    ImUpdate =>
        /\ S.alt = status[S.person] /\ S.alt \in Status
        /\ S.raus \subseteq {S.person} \X Ressort
        /\ S.pc = "ressorts" =>
               /\ S.kopie = {v \in Links : v[1] = S.person}
               /\ \A r \in S.dazu : <<S.person, r>> \notin inhaber
        /\ S.pc = "historie" =>
               \A po \in S.dazu \ {KeinRessort} : <<S.person, po>> \in Links

ZuordnungInv ==
    S.pc = "inhaber" =>
        /\ S.raus \subseteq Person \X {S.posten}
        /\ Neuer(S) \notin S.weg
        /\ <<Neuer(S), S.posten>> \notin S.raus
        /\ S.kopie = {v \in Links : v[2] = S.posten}
        /\ \A v \in Links : v[2] = S.posten => v[1] \in S.weg \cup {Neuer(S)}
        /\ \A q \in S.weg : <<q, S.posten>> \in inhaber

NochZuSchreiben ==
    /\ S.rein = {}
    /\ S.marken \subseteq DOMAIN historie
    /\ S.pc \in {"frei", "posten"} => S.raus = {} /\ S.marken = {}

Kern ==
    /\ Verbunden
    /\ StatusStimmt
    /\ EinInhaber
    /\ UpdateInv
    /\ ZuordnungInv
    /\ NochZuSchreiben

FolgeInv == TypInv /\ Kern
------------------------------------------------------------------------------
(* Open rows of a table, and what a flush makes of them.                    *)

LEMMA OffenTyp ==
    ASSUME NEW h \in Seq(Zeile), NEW m
    PROVE  \A z \in OffenIn(h, m) : z \in Zeile /\ z.offen
  BY DEF OffenIn

LEMMA OffenBeendet ==
    ASSUME historie \in Seq(Zeile), NEW s, NEW m
    PROVE  OffenIn(Beendet(s), m) = OffenIn(historie, s.marken \cup m)
  <1> DEFINE b == Beendet(s)
  <1>1. DOMAIN b = DOMAIN historie
    BY DEF Beendet
  <1>2. \A i \in DOMAIN historie : /\ b[i].offen <=> historie[i].offen /\ i \notin s.marken
                                   /\ historie[i].offen /\ i \notin s.marken => b[i] = historie[i]
    <2> SUFFICES ASSUME NEW i \in DOMAIN historie
                 PROVE  /\ b[i].offen <=> historie[i].offen /\ i \notin s.marken
                        /\ historie[i].offen /\ i \notin s.marken => b[i] = historie[i]
      OBVIOUS
    <2> DEFINE x == historie[i].offen /\ i \notin s.marken
    <2>1. b[i] = [historie[i] EXCEPT !.offen = x] /\ historie[i] \in Zeile
      BY DEF Beendet
    <2>2. x \in BOOLEAN
      OBVIOUS
    <2>3. historie[i].offen \in BOOLEAN
      BY <2>1 DEF Zeile
    <2>4. x => historie[i].offen = TRUE
      BY <2>3
    <2> HIDE DEF b, x
    <2>5. b[i].offen = x
      BY <2>1 DEF Zeile
    <2>6. x => b[i] = historie[i]
      BY <2>1, <2>2, <2>4 DEF Zeile
    <2> QED
      BY <2>2, <2>5, <2>6 DEF x
  <1> HIDE DEF b
  <1>3. OffenIn(b, m) = OffenIn(historie, s.marken \cup m)
    BY <1>1, <1>2 DEF OffenIn
  <1> QED
    BY <1>3 DEF b

LEMMA OffenAnhang ==
    ASSUME NEW h \in Seq(Zeile), NEW n \in Seq(Zeile), NEW m \in SUBSET DOMAIN h
    PROVE  OffenIn(h \o n, m) = OffenIn(h, m) \cup OffenIn(n, {})
  <1> DEFINE c == h \o n
  <1>1. /\ Len(h) \in Nat /\ DOMAIN h = 1 .. Len(h)
        /\ Len(n) \in Nat /\ DOMAIN n = 1 .. Len(n)
        /\ DOMAIN c = 1 .. Len(h) + Len(n)
    OBVIOUS
  <1>2. \A i \in DOMAIN h : c[i] = h[i]
    OBVIOUS
  <1>3. \A i \in DOMAIN n : c[Len(h) + i] = n[i] /\ Len(h) + i \in DOMAIN c /\ Len(h) + i \notin m
    BY <1>1
  <1>4. \A i \in DOMAIN c : i \in DOMAIN h \/ (i - Len(h) \in DOMAIN n /\ c[i] = n[i - Len(h)])
    BY <1>1
  <1>5. \A i \in DOMAIN h : i \in DOMAIN c
    BY <1>1
  <1> HIDE DEF c
  <1>6. OffenIn(c, m) \subseteq OffenIn(h, m) \cup OffenIn(n, {})
    BY <1>2, <1>4 DEF OffenIn
  <1>7. OffenIn(h, m) \subseteq OffenIn(c, m)
    BY <1>2, <1>5 DEF OffenIn
  <1>8. OffenIn(n, {}) \subseteq OffenIn(c, m)
    BY <1>3 DEF OffenIn
  <1> QED
    BY <1>6, <1>7, <1>8 DEF c

LEMMA OffenLeer == OffenIn(<<>>, {}) = {}
  BY DEF OffenIn

LEMMA OffenNeu ==
    ASSUME NEW p \in Person, NEW po \in Posten \cup {KeinRessort}, NEW st \in Status \cup {Ohne}
    PROVE  OffenIn(NeueZeile(p, po, st), {}) =
               IF Ohne \in {po, st} THEN {}
               ELSE {[person |-> p, posten |-> po, status |-> st, offen |-> TRUE]}
  <1> DEFINE z == [person |-> p, posten |-> po, status |-> st, offen |-> TRUE]
  <1>1. z.offen
    OBVIOUS
  <1>2. CASE Ohne \in {po, st}
    BY <1>2, OffenLeer DEF NeueZeile
  <1>3. CASE Ohne \notin {po, st}
    <2>1. NeueZeile(p, po, st) = <<z>>
      BY <1>3 DEF NeueZeile
    <2> HIDE DEF z
    <2>2. DOMAIN <<z>> = {1} /\ <<z>>[1] = z
      OBVIOUS
    <2>3. OffenIn(<<z>>, {}) = {z}
      BY <1>1, <2>2 DEF OffenIn
    <2> QED
      BY <1>3, <2>1, <2>3 DEF z
  <1> QED
    BY <1>2, <1>3

\* Two sessions that differ at most in what they have not yet flushed.
Gleich(t, s) ==
    /\ t.pc = s.pc /\ t.person = s.person /\ t.alt = s.alt /\ t.neu = s.neu
    /\ t.plan = s.plan /\ t.posten = s.posten /\ t.kopie = s.kopie
    /\ t.weg = s.weg /\ t.dazu = s.dazu

LEMMA NeueSitzung ==
    ASSUME NEW s \in Sitzung
    PROVE  /\ Gespuelt(s).marken = {} /\ Gespuelt(s).raus = {} /\ Gespuelt(s).rein = {}
           /\ Gleich(Gespuelt(s), s)
  BY DEF Gespuelt, Sitzung, Gleich

\* What one step makes of the request's view.
LEMMA NachSpuelen ==
    ASSUME Nacheinander, TypInv, NEW s \in Sitzung, s.marken \in SUBSET DOMAIN historie,
           NEW neu \in Seq(Zeile), Spuelen(Einer, s, neu)
    PROVE  /\ Gleich(S', s)
           /\ OffenJetzt' = OffenIn(historie, s.marken) \cup OffenIn(neu, {})
           /\ inhaber' = (inhaber \ s.raus) \cup s.rein
           /\ Links' = inhaber'
           /\ S'.marken = {} /\ S'.raus = {} /\ S'.rein = {}
  <1>1. /\ S' = Gespuelt(s)
        /\ historie' = Beendet(s) \o neu
        /\ inhaber' = (inhaber \ s.raus) \cup s.rein
    BY DEF Spuelen, Weiter, S, Nacheinander, Verknuepft
  <1>2. S'.marken = {} /\ S'.raus = {} /\ S'.rein = {} /\ Gleich(S', s)
    BY <1>1, NeueSitzung
  <1>3. historie \in Seq(Zeile)
    BY DEF TypInv, TypeOK
  <1>4. Beendet(s) \in Seq(Zeile)
    BY <1>3, BeendetTyp
  <1>5. OffenJetzt' = OffenIn(Beendet(s) \o neu, {})
    BY <1>1, <1>2 DEF OffenJetzt
  <1>6. OffenIn(Beendet(s) \o neu, {}) = OffenIn(Beendet(s), {}) \cup OffenIn(neu, {})
    BY <1>4, OffenAnhang
  <1>7. OffenIn(Beendet(s), {}) = OffenIn(historie, s.marken)
    BY <1>3, OffenBeendet
  <1>8. Links' = inhaber'
    BY <1>2 DEF Links
  <1> QED
    BY <1>1, <1>2, <1>5, <1>6, <1>7, <1>8

LEMMA OhneSpuelen ==
    ASSUME Nacheinander, NEW s, Weiter(Einer, s, FALSE), UNCHANGED <<inhaber, historie>>
    PROVE  /\ S' = s
           /\ OffenJetzt' = OffenIn(historie, s.marken)
           /\ inhaber' = inhaber /\ DOMAIN historie' = DOMAIN historie
           /\ Links' = inhaber \ s.raus
  <1>1. S' = s
    BY DEF Weiter, S, Nacheinander
  <1> QED
    BY <1>1 DEF OffenJetzt, Links

\* HistoryEnde ends rows, and may flush before.
LEMMA NachEnde ==
    ASSUME Nacheinander, TypInv, NEW s \in Sitzung, s.rein = {},
           NEW zeilen \in SUBSET DOMAIN historie, HistoryEnde(Einer, s, zeilen)
    PROVE  /\ \E weg :
                  /\ \A i : i \in weg <=> i \in zeilen /\ historie[i].offen /\ i \notin s.marken
                  /\ OffenJetzt' = OffenIn(historie, s.marken \cup weg)
           /\ inhaber' \in {inhaber, inhaber \ s.raus}
           /\ Links' = inhaber \ s.raus
           /\ S'.raus \in {{}, s.raus} /\ S'.rein = {}
           /\ S'.marken \subseteq DOMAIN historie'
           /\ Gleich(S', s)
  <1> DEFINE offene == {i \in zeilen : historie[i].offen /\ i \notin s.marken}
  <1>1. historie \in Seq(Zeile)
    BY DEF TypInv, TypeOK
  <1>2. \A m : /\ [s EXCEPT !.marken = m].marken = m
               /\ [s EXCEPT !.marken = m].raus = s.raus
               /\ [s EXCEPT !.marken = m].rein = s.rein
               /\ Gleich([s EXCEPT !.marken = m], s)
    BY DEF Sitzung, Gleich
  <1>3. \A m : /\ [Gespuelt(s) EXCEPT !.marken = m].marken = m
               /\ [Gespuelt(s) EXCEPT !.marken = m].raus = {}
               /\ [Gespuelt(s) EXCEPT !.marken = m].rein = {}
               /\ Gleich([Gespuelt(s) EXCEPT !.marken = m], s)
    BY DEF Gespuelt, Sitzung, Gleich
  <1>4. /\ S'.marken = offene /\ S'.rein = {} /\ Gleich(S', s)
        /\ S'.raus \in {{}, s.raus} /\ inhaber' \in {inhaber, inhaber \ s.raus}
        /\ Links' = inhaber \ s.raus
        /\ OffenJetzt' = OffenIn(historie, s.marken \cup offene)
        /\ DOMAIN historie' = DOMAIN historie
    <2>1. CASE s.marken = {}
      <3>1. S' = [s EXCEPT !.marken = offene] /\ UNCHANGED <<inhaber, historie>>
        BY <2>1 DEF HistoryEnde, Weiter, S, Nacheinander
      <3> HIDE DEF offene
      <3>2. S'.marken = offene /\ S'.raus = s.raus /\ S'.rein = {} /\ Gleich(S', s)
        BY <1>2, <3>1
      <3>3. OffenJetzt' = OffenIn(historie, offene) /\ Links' = inhaber \ s.raus
        BY <3>1, <3>2 DEF OffenJetzt, Links
      <3>4. s.marken \cup offene = offene
        BY <2>1
      <3> QED
        BY <3>1, <3>2, <3>3, <3>4
    <2>2. CASE s.marken # {}
      <3>1. /\ S' = [Gespuelt(s) EXCEPT !.marken = offene]
            /\ historie' = Beendet(s)
            /\ inhaber' = inhaber \ s.raus
        BY <2>2 DEF HistoryEnde, Weiter, S, Nacheinander, Verknuepft
      <3> HIDE DEF offene
      <3>2. S'.marken = offene /\ S'.raus = {} /\ S'.rein = {} /\ Gleich(S', s)
        BY <1>3, <3>1
      <3>3. OffenJetzt' = OffenIn(Beendet(s), offene) /\ Links' = inhaber'
        BY <3>1, <3>2 DEF OffenJetzt, Links
      <3>4. OffenIn(Beendet(s), offene) = OffenIn(historie, s.marken \cup offene)
        BY <1>1, OffenBeendet
      <3>5. DOMAIN historie' = DOMAIN historie
        BY <3>1, <1>1, BeendetTyp
      <3> QED
        BY <3>1, <3>2, <3>3, <3>4, <3>5
    <2> QED
      BY <2>1, <2>2
  <1>5. S'.marken \subseteq DOMAIN historie'
    BY <1>4
  <1>6. \A i : i \in offene <=> i \in zeilen /\ historie[i].offen /\ i \notin s.marken
    OBVIOUS
  <1> HIDE DEF offene
  <1> QED
    BY <1>4, <1>5, <1>6

LEMMA NachEndePosten ==
    ASSUME Nacheinander, TypInv, NEW s \in Sitzung, s.rein = {}, NEW p, NEW x,
           HistoryEnde(Einer, s, ZeilenFuerPosten(p, x))
    PROVE  OffenJetzt' = {z \in OffenIn(historie, s.marken) : ~(z.person = p /\ z.posten = x)}
  <1> DEFINE zeilen == ZeilenFuerPosten(p, x)
  <1>1. zeilen \in SUBSET DOMAIN historie
    BY DEF ZeilenFuerPosten
  <1>2. HistoryEnde(Einer, s, zeilen)
    OBVIOUS
  <1> HIDE DEF zeilen
  <1>3. PICK weg : /\ \A i : i \in weg <=> i \in zeilen /\ historie[i].offen /\ i \notin s.marken
                   /\ OffenJetzt' = OffenIn(historie, s.marken \cup weg)
    BY <1>1, <1>2, NachEnde
  <1>4. \A z : z \in OffenIn(historie, s.marken \cup weg) <=>
                  z \in OffenIn(historie, s.marken) /\ ~(z.person = p /\ z.posten = x)
    BY <1>3 DEF OffenIn, zeilen, ZeilenFuerPosten
  <1> QED
    BY <1>3, <1>4

LEMMA NachEndeStatus ==
    ASSUME Nacheinander, TypInv, NEW s \in Sitzung, s.rein = {}, NEW p, NEW x,
           HistoryEnde(Einer, s, ZeilenFuerStatus(p, x))
    PROVE  OffenJetzt' = {z \in OffenIn(historie, s.marken) : ~(z.person = p /\ z.status = x)}
  <1> DEFINE zeilen == ZeilenFuerStatus(p, x)
  <1>1. zeilen \in SUBSET DOMAIN historie
    BY DEF ZeilenFuerStatus
  <1>2. HistoryEnde(Einer, s, zeilen)
    OBVIOUS
  <1> HIDE DEF zeilen
  <1>3. PICK weg : /\ \A i : i \in weg <=> i \in zeilen /\ historie[i].offen /\ i \notin s.marken
                   /\ OffenJetzt' = OffenIn(historie, s.marken \cup weg)
    BY <1>1, <1>2, NachEnde
  <1>4. \A z : z \in OffenIn(historie, s.marken \cup weg) <=>
                  z \in OffenIn(historie, s.marken) /\ ~(z.person = p /\ z.status = x)
    BY <1>3 DEF OffenIn, zeilen, ZeilenFuerStatus
  <1> QED
    BY <1>3, <1>4

LEMMA Lage ==
    ASSUME Nacheinander, FolgeInv
    PROVE  /\ S \in Sitzung /\ Passend(S) /\ S = sitzung[Einer] /\ Einer \in Anfrage
           /\ S.rein = {} /\ S.marken \in SUBSET DOMAIN historie
           /\ OffenJetzt = OffenIn(historie, S.marken)
           /\ \A z \in OffenJetzt : z \in Zeile
           /\ Links = inhaber \ S.raus
           /\ inhaber \subseteq Verknuepfung /\ historie \in Seq(Zeile)
           /\ status \in [Person -> Status \cup {Ohne}]
           /\ KeinRessort \notin Posten /\ Ressort \cap Amt = {}
  <1>1. S \in Sitzung /\ Passend(S) /\ S = sitzung[Einer] /\ Einer \in Anfrage
    <2>1. Einer \in Anfrage
      BY DEF Nacheinander
    <2> QED
      BY <2>1 DEF FolgeInv, TypInv, TypeOK, S
  <1>2. /\ inhaber \subseteq Verknuepfung /\ historie \in Seq(Zeile)
        /\ status \in [Person -> Status \cup {Ohne}]
    BY DEF FolgeInv, TypInv, TypeOK
  <1>3. S.rein = {} /\ S.marken \in SUBSET DOMAIN historie
    BY DEF FolgeInv, Kern, NochZuSchreiben
  <1>4. OffenJetzt = OffenIn(historie, S.marken) /\ Links = inhaber \ S.raus
    BY DEF OffenJetzt, Links
  <1>5. KeinRessort \notin Posten /\ Ressort \cap Amt = {}
    BY HistorieAssumption DEF Posten
  <1>6. \A z \in OffenJetzt : z \in Zeile
    BY <1>2, <1>4, OffenTyp
  <1> QED
    BY <1>1, <1>2, <1>3, <1>4, <1>5, <1>6

LEMMA AnlegenKern ==
    ASSUME Nacheinander, FolgeInv, NEW p \in Person, NEW st \in Status, PersonAnlegen(p, st)
    PROVE  Kern'
  <1> DEFINE z0 == [person |-> p, posten |-> KeinRessort, status |-> st, offen |-> TRUE]
             neu == NeueZeile(p, KeinRessort, st)
  <1>1. /\ status[p] = Ohne
        /\ status' = [status EXCEPT ![p] = st]
        /\ historie' = historie \o neu
        /\ inhaber' = inhaber /\ S' = S /\ Links' = Links
    BY DEF PersonAnlegen, S, Links
  <1>2. neu \in Seq(Zeile) /\ OffenIn(neu, {}) \subseteq {z0}
    <2>1. neu \in Seq(Zeile)
      BY NeueZeileTyp
    <2>2. OffenIn(neu, {}) = {z0}
      BY OffenNeu, HistorieAssumption
    <2> QED
      BY <2>1, <2>2
  <1>3. z0.person = p /\ z0.posten = KeinRessort /\ z0.status = st
    OBVIOUS
  <1> HIDE DEF neu, z0
  <1>4. OffenJetzt' = OffenJetzt \cup OffenIn(neu, {})
    <2>1. OffenJetzt' = OffenIn(historie \o neu, S.marken)
      BY <1>1 DEF OffenJetzt
    <2> QED
      BY <1>2, <2>1, Lage, OffenAnhang
  <1>5. DOMAIN historie \subseteq DOMAIN historie'
    BY <1>1, <1>2, Lage
  <1>6. status'[p] = st /\ \A x \in Person : x # p => status'[x] = status[x]
    BY <1>1, Lage
  <1>7. \A z \in OffenJetzt : z.person \in Person /\ z.status \in Status
    BY Lage DEF Zeile
  <1>8. ImUpdate => S.person # p /\ S.person \in Person
    BY <1>1, HistorieAssumption, Lage DEF FolgeInv, Kern, UpdateInv, ImUpdate, Passend
  <1>9. ImUpdate' = ImUpdate
    BY <1>1 DEF ImUpdate
  <1>10. Verbunden'
    BY <1>1, <1>2, <1>3, <1>4 DEF FolgeInv, Kern, Verbunden, NochOhneZeile
  <1>11. StatusStimmt'
    <2> SUFFICES ASSUME NEW z \in OffenJetzt'
                 PROVE  \/ z.status = status'[z.person] /\ ~(S.pc # "ressorts" /\ ImUpdate /\ z.person = S.person)
                        \/ z.status = S.neu /\ ImUpdate /\ z.person = S.person
      BY <1>1, <1>9 DEF StatusStimmt
    <2>1. CASE z = z0
      BY <1>3, <1>6, <1>8, <2>1
    <2>2. CASE z \in OffenJetzt
      <3>1. z.person = p => FALSE
        BY <1>1, <1>7, <1>8, <2>2, HistorieAssumption DEF FolgeInv, Kern, StatusStimmt
      <3> QED
        BY <1>6, <1>7, <2>2, <3>1 DEF FolgeInv, Kern, StatusStimmt
    <2> QED
      BY <1>2, <1>4, <2>1, <2>2
  <1>12. EinInhaber' /\ ZuordnungInv'
    BY <1>1 DEF FolgeInv, Kern, EinInhaber, ZuordnungInv, Neuer
  <1>13. UpdateInv'
    BY <1>1, <1>6, <1>8, <1>9 DEF FolgeInv, Kern, UpdateInv
  <1>14. NochZuSchreiben'
    BY <1>1, <1>5 DEF FolgeInv, Kern, NochZuSchreiben
  <1> QED
    BY <1>10, <1>11, <1>12, <1>13, <1>14 DEF Kern

LEMMA BeginnenKern ==
    ASSUME Nacheinander, FolgeInv, NEW p \in Person, NEW auswahl \in SUBSET Ressort,
           NEW neu \in Status, UpdateBeginnen(Einer, p, auswahl, neu)
    PROVE  Kern'
  <1> DEFINE kopie == {v \in inhaber : v[1] = p}
             rs == PostenIn(kopie, p) \cap Ressort
             s == [Leer EXCEPT !.pc = "ressorts", !.person = p, !.auswahl = auswahl,
                               !.alt = status[p], !.neu = neu, !.kopie = kopie,
                               !.vorher = kopie, !.weg = rs \ auswahl,
                               !.dazu = auswahl \ rs]
  <1>1. S.pc = "frei" /\ status[p] # Ohne /\ Weiter(Einer, s, FALSE) /\ UNCHANGED tabellen
    BY Lage DEF UpdateBeginnen
  <1>2. S.raus = {} /\ S.marken = {} /\ Links = inhaber
    BY <1>1, Lage DEF FolgeInv, Kern, NochZuSchreiben
  <1>3. \A r \in auswahl \ rs : <<p, r>> \notin inhaber
    BY DEF PostenIn, Posten
  <1> HIDE DEF kopie, rs
  <1>4. /\ s.pc = "ressorts" /\ s.person = p /\ s.alt = status[p] /\ s.neu = neu
        /\ s.kopie = kopie /\ s.dazu = auswahl \ rs
        /\ s.raus = {} /\ s.rein = {} /\ s.marken = {}
    BY DEF Leer
  <1> HIDE DEF s
  <1>5. /\ S' = s /\ OffenJetzt' = OffenJetzt /\ inhaber' = inhaber /\ Links' = Links
        /\ status' = status
    BY <1>1, <1>2, <1>4, OhneSpuelen, Lage DEF tabellen
  <1>6. ImUpdate' /\ ~ImUpdate
    BY <1>1, <1>4, <1>5 DEF ImUpdate
  <1>7. Verbunden'
    BY <1>1, <1>4, <1>5 DEF FolgeInv, Kern, Verbunden, NochOhneZeile
  <1>8. StatusStimmt'
    BY <1>4, <1>5, <1>6 DEF FolgeInv, Kern, StatusStimmt
  <1>9. EinInhaber' /\ ZuordnungInv' /\ NochZuSchreiben'
    BY <1>4, <1>5 DEF FolgeInv, Kern, EinInhaber, ZuordnungInv, NochZuSchreiben
  <1>10. UpdateInv'
    <2>1. status[p] \in Status
      BY <1>1, Lage
    <2> QED
      BY <1>2, <1>3, <1>4, <1>5, <2>1 DEF UpdateInv, kopie
  <1> QED
    BY <1>7, <1>8, <1>9, <1>10 DEF Kern

LEMMA EntfernenKern ==
    ASSUME Nacheinander, FolgeInv, RessortEntfernen(Einer)
    PROVE  Kern'
  <1> DEFINE t(r) == [S EXCEPT !.weg = @ \ {r}, !.kopie = @ \ {<<S.person, r>>},
                               !.raus = @ \cup {<<S.person, r>>}]
  <1>1. S.pc = "ressorts" /\ status' = status
    BY Lage DEF RessortEntfernen
  <1>2. PICK r \in S.weg : HistoryEnde(Einer, t(r), ZeilenFuerPosten(S.person, r))
    BY Lage DEF RessortEntfernen
  <1>3. r \in Ressort /\ S.person \in Person /\ r # KeinRessort
    BY <1>1, Lage DEF Passend, Posten
  <1> DEFINE v0 == <<S.person, r>>
             s == t(r)
  <1>4. /\ s \in Sitzung /\ s.rein = {} /\ s.marken = S.marken
        /\ s.raus = S.raus \cup {v0} /\ s.kopie = S.kopie \ {v0}
        /\ s.pc = "ressorts" /\ s.person = S.person /\ s.alt = S.alt /\ s.neu = S.neu
        /\ s.dazu = S.dazu
    <2>1. <<S.person, r>> \in Verknuepfung
      BY <1>3 DEF Verknuepfung, Posten
    <2> QED
      BY <1>1, <2>1, Lage DEF Sitzung
  <1> HIDE DEF s
  <1>5. HistoryEnde(Einer, s, ZeilenFuerPosten(S.person, r))
    BY <1>2 DEF s
  <1>6. /\ OffenJetzt' = {z \in OffenJetzt : ~(z.person = S.person /\ z.posten = r)}
        /\ inhaber' \in {inhaber, inhaber \ s.raus}
        /\ Links' = inhaber \ s.raus
        /\ S'.raus \in {{}, s.raus} /\ S'.rein = {}
        /\ S'.marken \subseteq DOMAIN historie'
        /\ Gleich(S', s)
    <2>1. TypInv /\ OffenJetzt = OffenIn(historie, s.marken)
      BY <1>4, Lage DEF FolgeInv
    <2>2. OffenJetzt' = {z \in OffenJetzt : ~(z.person = S.person /\ z.posten = r)}
      BY <1>4, <1>5, <2>1, NachEndePosten
    <2> QED
      BY <1>4, <1>5, <2>1, <2>2, NachEnde, ZeilenGefunden
  <1>7. Links' = Links \ {v0}
    BY <1>4, <1>6, Lage
  <1>8. /\ S'.pc = "ressorts" /\ S'.person = S.person /\ S'.alt = S.alt /\ S'.neu = S.neu
        /\ S'.dazu = S.dazu /\ S'.kopie = S.kopie \ {v0}
    BY <1>4, <1>6 DEF Gleich
  <1>9. ImUpdate /\ ImUpdate'
    BY <1>1, <1>8 DEF ImUpdate
  <1>10. Verbunden'
    <2>1. \A z \in OffenJetzt' : z.posten # KeinRessort => <<z.person, z.posten>> \in Links'
      BY <1>6, <1>7 DEF FolgeInv, Kern, Verbunden
    <2>2. \A v \in Links' : v[2] \in Ressort =>
              \E z \in OffenJetzt' : z.person = v[1] /\ z.posten = v[2]
      <3> SUFFICES ASSUME NEW v \in Links', v[2] \in Ressort
                   PROVE  \E z \in OffenJetzt' : z.person = v[1] /\ z.posten = v[2]
        OBVIOUS
      <3>1. v \in Links /\ v # v0 /\ v \in Verknuepfung
        BY <1>7, Lage
      <3>2. PICK z \in OffenJetzt : z.person = v[1] /\ z.posten = v[2]
        BY <1>1, <3>1 DEF FolgeInv, Kern, Verbunden, NochOhneZeile
      <3>3. ~(v[1] = S.person /\ v[2] = r)
        BY <3>1 DEF Verknuepfung
      <3> QED
        BY <1>6, <3>2, <3>3
    <2> QED
      BY <2>1, <2>2 DEF Verbunden
  <1>11. StatusStimmt'
    BY <1>1, <1>6, <1>8, <1>9 DEF FolgeInv, Kern, StatusStimmt
  <1>12. EinInhaber' /\ ZuordnungInv'
    BY <1>6, <1>8 DEF FolgeInv, Kern, EinInhaber, ZuordnungInv
  <1>13. UpdateInv'
    <2>1. S'.raus \subseteq {S.person} \X Ressort
      BY <1>3, <1>4, <1>6, <1>9 DEF FolgeInv, Kern, UpdateInv
    <2>2. S'.kopie = {v \in Links' : v[1] = S.person}
      BY <1>1, <1>7, <1>8, <1>9 DEF FolgeInv, Kern, UpdateInv
    <2> QED
      BY <1>1, <1>6, <1>8, <1>9, <2>1, <2>2 DEF FolgeInv, Kern, UpdateInv
  <1>14. NochZuSchreiben'
    BY <1>6, <1>8 DEF NochZuSchreiben
  <1> QED
    BY <1>10, <1>11, <1>12, <1>13, <1>14 DEF Kern

LEMMA HinzufuegenKern ==
    ASSUME Nacheinander, FolgeInv, RessortHinzufuegen(Einer)
    PROVE  Kern'
  <1> DEFINE t(r) == [S EXCEPT !.dazu = @ \ {r}, !.kopie = @ \cup {<<S.person, r>>},
                               !.rein = @ \cup {<<S.person, r>>}]
  <1>1. S.pc = "ressorts" /\ status' = status
    BY Lage DEF RessortHinzufuegen
  <1>2. PICK r \in S.dazu : \/ Spuelen(Einer, t(r), ZeileZumRessort(t(r), r))
                            \/ DoppeltVerknuepft(Einer, t(r), ZeileZumRessort(t(r), r))
    BY Lage DEF RessortHinzufuegen
  <1>3. r \in Ressort /\ S.person \in Person /\ S.neu \in Status /\ r # KeinRessort
    BY <1>1, Lage DEF Passend, Posten
  <1> DEFINE v0 == <<S.person, r>>
             s == t(r)
             z0 == [person |-> S.person, posten |-> r, status |-> S.neu, offen |-> TRUE]
             neu == NeueZeile(S.person, r, S.neu)
  <1>4. /\ s \in Sitzung /\ s.rein = {v0} /\ s.marken = S.marken
        /\ s.raus = S.raus /\ s.kopie = S.kopie \cup {v0}
        /\ s.pc = "ressorts" /\ s.person = S.person /\ s.alt = S.alt /\ s.neu = S.neu
        /\ s.dazu = S.dazu \ {r}
    <2>1. <<S.person, r>> \in Verknuepfung
      BY <1>3 DEF Verknuepfung, Posten
    <2> QED
      BY <1>1, <2>1, Lage DEF Sitzung
  <1> HIDE DEF s
  <1>5. v0 \notin inhaber
    BY <1>1 DEF FolgeInv, Kern, UpdateInv, ImUpdate
  <1>6. ZeileZumRessort(s, r) = neu
    BY <1>4 DEF ZeileZumRessort
  <1>7. Spuelen(Einer, s, neu)
    BY <1>2, <1>4, <1>5, <1>6 DEF DoppeltVerknuepft, s
  <1>8. neu \in Seq(Zeile)
    BY <1>3, NeueZeileTyp DEF Posten
  <1>9. OffenIn(neu, {}) = {z0}
    BY <1>3, OffenNeu, HistorieAssumption DEF Posten
  <1>10. z0.person = S.person /\ z0.posten = r /\ z0.status = S.neu
    OBVIOUS
  <1> HIDE DEF neu, z0
  <1>11. /\ Gleich(S', s) /\ S'.raus = {} /\ S'.rein = {} /\ S'.marken = {}
         /\ OffenJetzt' = OffenJetzt \cup {z0}
         /\ inhaber' = Links \cup {v0} /\ Links' = Links \cup {v0}
    <2>1. TypInv /\ OffenJetzt = OffenIn(historie, s.marken)
      BY <1>4, Lage DEF FolgeInv
    <2>2. s.marken \in SUBSET DOMAIN historie
      BY <1>4, Lage
    <2> QED
      BY <1>4, <1>7, <1>8, <1>9, <2>1, <2>2, NachSpuelen, Lage
  <1>12. /\ S'.pc = "ressorts" /\ S'.person = S.person /\ S'.alt = S.alt /\ S'.neu = S.neu
         /\ S'.dazu = S.dazu \ {r} /\ S'.kopie = S.kopie \cup {v0}
    BY <1>4, <1>11 DEF Gleich
  <1>13. ImUpdate /\ ImUpdate'
    BY <1>1, <1>12 DEF ImUpdate
  <1>14. Verbunden'
    <2>1. \A z \in OffenJetzt' : z.posten # KeinRessort => <<z.person, z.posten>> \in Links'
      BY <1>10, <1>11 DEF FolgeInv, Kern, Verbunden
    <2>2. \A v \in Links' : v[2] \in Ressort =>
              \E z \in OffenJetzt' : z.person = v[1] /\ z.posten = v[2]
      BY <1>1, <1>10, <1>11 DEF FolgeInv, Kern, Verbunden, NochOhneZeile
    <2> QED
      BY <2>1, <2>2 DEF Verbunden
  <1>15. StatusStimmt'
    BY <1>1, <1>10, <1>11, <1>12, <1>13 DEF FolgeInv, Kern, StatusStimmt
  <1>16. EinInhaber'
    <2>1. \A v \in Links : v \in inhaber
      BY Lage
    <2> QED
      BY <1>3, <1>11, <2>1, Lage DEF FolgeInv, Kern, EinInhaber
  <1>17. UpdateInv'
    <2>1. S'.kopie = {v \in Links' : v[1] = S.person}
      BY <1>1, <1>11, <1>12, <1>13 DEF FolgeInv, Kern, UpdateInv
    <2>2. \A x \in S'.dazu : <<S.person, x>> \notin inhaber'
      BY <1>1, <1>11, <1>12, <1>13, Lage DEF FolgeInv, Kern, UpdateInv
    <2> QED
      BY <1>1, <1>11, <1>12, <1>13, <2>1, <2>2 DEF FolgeInv, Kern, UpdateInv
  <1>18. ZuordnungInv' /\ NochZuSchreiben'
    BY <1>11, <1>12 DEF ZuordnungInv, NochZuSchreiben
  <1> QED
    BY <1>14, <1>15, <1>16, <1>17, <1>18 DEF Kern

LEMMA VergleichenKern ==
    ASSUME Nacheinander, FolgeInv, StatusVergleichen(Einer)
    PROVE  Kern'
  <1> DEFINE posten == PostenIn(S.kopie, S.person)
             d == IF posten = {} THEN {KeinRessort} ELSE posten
             k == [S EXCEPT !.pc = "kontakt"]
             s == [S EXCEPT !.pc = "historie", !.dazu = d]
  <1>1. S.pc = "ressorts" /\ status' = status /\ ImUpdate
    BY Lage DEF StatusVergleichen, ImUpdate
  <1>2. \/ S.alt = S.neu /\ Weiter(Einer, k, FALSE) /\ UNCHANGED <<inhaber, historie>>
        \/ S.alt # S.neu /\ HistoryEnde(Einer, s, ZeilenFuerStatus(S.person, S.alt))
    BY Lage DEF StatusVergleichen, ZeilenDesAltenStatus
  <1>3. S.alt = status[S.person]
    BY <1>1 DEF FolgeInv, Kern, UpdateInv
  <1>4. CASE S.alt = S.neu
    <2>1. /\ k.pc = "kontakt" /\ k.person = S.person /\ k.alt = S.alt /\ k.neu = S.neu
          /\ k.raus = S.raus /\ k.rein = {} /\ k.marken = S.marken
      BY Lage DEF Sitzung
    <2>2. Weiter(Einer, k, FALSE) /\ UNCHANGED <<inhaber, historie>>
      BY <1>2, <1>4
    <2> HIDE DEF k
    <2>3. /\ S' = k /\ OffenJetzt' = OffenJetzt /\ inhaber' = inhaber /\ Links' = Links
          /\ DOMAIN historie' = DOMAIN historie
      BY <2>1, <2>2, OhneSpuelen, Lage
    <2>4. ImUpdate'
      BY <2>1, <2>3 DEF ImUpdate
    <2>5. Verbunden'
      BY <1>1, <2>1, <2>3 DEF FolgeInv, Kern, Verbunden, NochOhneZeile
    <2>6. StatusStimmt'
      BY <1>1, <1>3, <1>4, <2>1, <2>3, <2>4 DEF FolgeInv, Kern, StatusStimmt
    <2>7. EinInhaber' /\ ZuordnungInv' /\ NochZuSchreiben'
      BY <2>1, <2>3 DEF FolgeInv, Kern, EinInhaber, ZuordnungInv, NochZuSchreiben
    <2>8. UpdateInv'
      BY <1>1, <2>1, <2>3, <2>4 DEF FolgeInv, Kern, UpdateInv
    <2> QED
      BY <2>5, <2>6, <2>7, <2>8 DEF Kern
  <1>5. CASE S.alt # S.neu
    <2>1. d \subseteq Posten \cup {KeinRessort}
      BY DEF PostenIn
    <2>2. \A po \in d \ {KeinRessort} : <<S.person, po>> \in S.kopie
      BY DEF PostenIn
    <2>3. \A po \in Posten : <<S.person, po>> \in S.kopie => po \in d
      BY DEF PostenIn
    <2> HIDE DEF d
    <2>4. /\ s \in Sitzung /\ s.rein = {} /\ s.marken = S.marken /\ s.raus = S.raus
          /\ s.pc = "historie" /\ s.person = S.person /\ s.alt = S.alt /\ s.neu = S.neu
          /\ s.dazu = d
      BY <2>1, Lage DEF Sitzung
    <2>5. HistoryEnde(Einer, s, ZeilenFuerStatus(S.person, S.alt))
      BY <1>2, <1>5
    <2> HIDE DEF s
    <2>6. /\ OffenJetzt' = {z \in OffenJetzt : ~(z.person = S.person /\ z.status = S.alt)}
          /\ inhaber' \in {inhaber, inhaber \ S.raus}
          /\ Links' = Links
          /\ S'.raus \in {{}, S.raus} /\ S'.rein = {}
          /\ S'.marken \subseteq DOMAIN historie'
          /\ Gleich(S', s)
      <3>1. TypInv /\ OffenJetzt = OffenIn(historie, s.marken)
        BY <2>4, Lage DEF FolgeInv
      <3>2. OffenJetzt' = {z \in OffenJetzt : ~(z.person = S.person /\ z.status = S.alt)}
        BY <2>4, <2>5, <3>1, NachEndeStatus
      <3>3. ZeilenFuerStatus(S.person, S.alt) \in SUBSET DOMAIN historie
        BY ZeilenGefunden
      <3>4. /\ inhaber' \in {inhaber, inhaber \ s.raus}
            /\ Links' = inhaber \ s.raus
            /\ S'.raus \in {{}, s.raus} /\ S'.rein = {}
            /\ S'.marken \subseteq DOMAIN historie'
            /\ Gleich(S', s)
        BY <2>4, <2>5, <3>1, <3>3, NachEnde
      <3> QED
        BY <2>4, <3>2, <3>4, Lage
    <2>7. /\ S'.pc = "historie" /\ S'.person = S.person /\ S'.alt = S.alt /\ S'.neu = S.neu
          /\ S'.dazu = d
      BY <2>4, <2>6 DEF Gleich
    <2>8. ImUpdate'
      BY <2>7 DEF ImUpdate
    <2>9. S.kopie = {v \in Links : v[1] = S.person}
      BY <1>1 DEF FolgeInv, Kern, UpdateInv
    <2>10. Verbunden'
      <3>1. \A z \in OffenJetzt' : z.posten # KeinRessort => <<z.person, z.posten>> \in Links'
        BY <2>6 DEF FolgeInv, Kern, Verbunden
      <3>2. ASSUME NEW v \in Links', v[2] \in Ressort, ~NochOhneZeile(v)'
            PROVE  \E z \in OffenJetzt' : z.person = v[1] /\ z.posten = v[2]
        <4>1. v \in Links /\ v \in Verknuepfung /\ v = <<v[1], v[2]>>
          BY <2>6, <3>2, Lage DEF Verknuepfung
        <4>2. v[1] # S.person
          BY <2>3, <2>7, <2>9, <3>2, <4>1 DEF NochOhneZeile, Posten
        <4> QED
          BY <1>1, <2>6, <3>2, <4>1, <4>2 DEF FolgeInv, Kern, Verbunden, NochOhneZeile
      <3> QED
        BY <3>1, <3>2 DEF Verbunden
    <2>11. StatusStimmt'
      BY <1>1, <1>3, <1>5, <2>6, <2>7, <2>8 DEF FolgeInv, Kern, StatusStimmt
    <2>12. EinInhaber' /\ ZuordnungInv' /\ NochZuSchreiben'
      BY <2>6, <2>7 DEF FolgeInv, Kern, EinInhaber, ZuordnungInv, NochZuSchreiben
    <2>13. UpdateInv'
      BY <1>1, <2>2, <2>6, <2>7, <2>8, <2>9 DEF FolgeInv, Kern, UpdateInv
    <2> QED
      BY <2>10, <2>11, <2>12, <2>13 DEF Kern
  <1> QED
    BY <1>4, <1>5

LEMMA FuerPostenKern ==
    ASSUME Nacheinander, FolgeInv, HistorieFuerPosten(Einer)
    PROVE  Kern'
  <1> DEFINE t(rest) == [S EXCEPT !.dazu = rest,
                                  !.pc = IF rest = {} THEN "kontakt" ELSE @]
  <1>1. S.pc = "historie" /\ status' = status /\ ImUpdate
    BY Lage DEF HistorieFuerPosten, ImUpdate
  <1>2. PICK po \in S.dazu :
           Spuelen(Einer, t(S.dazu \ {po}), NeueZeile(t(S.dazu \ {po}).person, po, t(S.dazu \ {po}).neu))
    BY Lage DEF HistorieFuerPosten
  <1> DEFINE s == t(S.dazu \ {po})
             z0 == [person |-> S.person, posten |-> po, status |-> S.neu, offen |-> TRUE]
             neu == NeueZeile(S.person, po, S.neu)
  <1>3. S.person \in Person /\ S.neu \in Status /\ po \in Posten \cup {KeinRessort}
    BY <1>1, <1>2, Lage DEF Passend, Sitzung
  <1>4. /\ s \in Sitzung /\ s.rein = {} /\ s.marken = S.marken /\ s.raus = S.raus
        /\ s.pc \in {"historie", "kontakt"} /\ s.person = S.person /\ s.alt = S.alt
        /\ s.neu = S.neu /\ s.dazu = S.dazu \ {po}
        /\ s.pc = "kontakt" => S.dazu \subseteq {po}
    BY <1>1, Lage DEF Sitzung
  <1> HIDE DEF s
  <1>5. Spuelen(Einer, s, neu)
    BY <1>2, <1>4 DEF s
  <1>6. neu \in Seq(Zeile)
    BY <1>3, NeueZeileTyp
  <1>7. OffenIn(neu, {}) = {z0}
    BY <1>3, OffenNeu, HistorieAssumption DEF Posten
  <1>8. z0.person = S.person /\ z0.posten = po /\ z0.status = S.neu
    OBVIOUS
  <1> HIDE DEF neu, z0
  <1>9. /\ Gleich(S', s) /\ S'.raus = {} /\ S'.rein = {} /\ S'.marken = {}
        /\ OffenJetzt' = OffenJetzt \cup {z0}
        /\ inhaber' = Links /\ Links' = Links
    <2>1. TypInv /\ OffenJetzt = OffenIn(historie, s.marken)
      BY <1>4, Lage DEF FolgeInv
    <2>2. s.marken \in SUBSET DOMAIN historie
      BY <1>4, Lage
    <2> QED
      BY <1>4, <1>5, <1>6, <1>7, <2>1, <2>2, NachSpuelen, Lage
  <1>10. /\ S'.pc \in {"historie", "kontakt"} /\ S'.person = S.person /\ S'.alt = S.alt
         /\ S'.neu = S.neu /\ S'.dazu = S.dazu \ {po}
         /\ S'.pc = "kontakt" => S.dazu \subseteq {po}
    BY <1>4, <1>9 DEF Gleich
  <1>11. ImUpdate'
    BY <1>10 DEF ImUpdate
  <1>12. Verbunden'
    <2>1. po # KeinRessort => <<S.person, po>> \in Links
      BY <1>1, <1>2 DEF FolgeInv, Kern, UpdateInv
    <2>2. \A z \in OffenJetzt' : z.posten # KeinRessort => <<z.person, z.posten>> \in Links'
      BY <1>8, <1>9, <2>1 DEF FolgeInv, Kern, Verbunden
    <2>3. ASSUME NEW v \in Links', v[2] \in Ressort, ~NochOhneZeile(v)'
          PROVE  \E z \in OffenJetzt' : z.person = v[1] /\ z.posten = v[2]
      <3>1. CASE NochOhneZeile(v)
        BY <1>8, <1>9, <1>10, <2>3, <3>1 DEF NochOhneZeile
      <3>2. CASE ~NochOhneZeile(v)
        BY <1>9, <2>3, <3>2 DEF FolgeInv, Kern, Verbunden
      <3> QED
        BY <3>1, <3>2
    <2> QED
      BY <2>2, <2>3 DEF Verbunden
  <1>13. StatusStimmt'
    BY <1>1, <1>8, <1>9, <1>10, <1>11 DEF FolgeInv, Kern, StatusStimmt
  <1>14. EinInhaber'
    BY <1>9, Lage DEF FolgeInv, Kern, EinInhaber
  <1>15. ZuordnungInv' /\ NochZuSchreiben'
    BY <1>9, <1>10 DEF ZuordnungInv, NochZuSchreiben
  <1>16. UpdateInv'
    BY <1>1, <1>9, <1>10, <1>11 DEF FolgeInv, Kern, UpdateInv
  <1> QED
    BY <1>12, <1>13, <1>14, <1>15, <1>16 DEF Kern

LEMMA KontaktdatenKern ==
    ASSUME Nacheinander, FolgeInv, KontaktdatenSpeichern(Einer)
    PROVE  Kern'
  <1> DEFINE s == [S EXCEPT !.pc = "speichern"]
  <1>1. S.pc = "kontakt" /\ status' = status /\ ImUpdate
    BY Lage DEF KontaktdatenSpeichern, ImUpdate
  <1>2. Spuelen(Einer, s, <<>>) \/ (Weiter(Einer, s, FALSE) /\ UNCHANGED <<inhaber, historie>>)
    BY Lage DEF KontaktdatenSpeichern
  <1>3. /\ s \in Sitzung /\ s.rein = {} /\ s.marken = S.marken /\ s.raus = S.raus
        /\ s.pc = "speichern" /\ s.person = S.person /\ s.alt = S.alt /\ s.neu = S.neu
    BY Lage DEF Sitzung
  <1> HIDE DEF s
  <1>4. /\ S'.pc = "speichern" /\ S'.person = S.person /\ S'.alt = S.alt /\ S'.neu = S.neu
        /\ S'.rein = {} /\ S'.marken \subseteq DOMAIN historie' /\ S'.raus \in {{}, S.raus}
        /\ OffenJetzt' = OffenJetzt /\ Links' = Links /\ inhaber' \in {inhaber, Links}
    <2>1. TypInv /\ OffenJetzt = OffenIn(historie, s.marken) /\ s.marken \in SUBSET DOMAIN historie
      BY <1>3, Lage DEF FolgeInv
    <2>2. CASE Spuelen(Einer, s, <<>>)
      <3>1. <<>> \in Seq(Zeile)
        OBVIOUS
      <3>2. Gleich(S', s)
        BY <1>3, <2>1, <2>2, <3>1, NachSpuelen
      <3>3. OffenJetzt' = OffenIn(historie, s.marken) \cup OffenIn(<<>>, {})
        BY <1>3, <2>1, <2>2, <3>1, NachSpuelen
      <3>4. /\ inhaber' = (inhaber \ s.raus) \cup s.rein /\ Links' = inhaber'
            /\ S'.marken = {} /\ S'.raus = {} /\ S'.rein = {}
        BY <1>3, <2>1, <2>2, <3>1, NachSpuelen
      <3> QED
        BY <1>3, <2>1, <3>2, <3>3, <3>4, OffenLeer, Lage DEF Gleich
    <2>3. CASE Weiter(Einer, s, FALSE) /\ UNCHANGED <<inhaber, historie>>
      BY <1>3, <2>1, <2>3, OhneSpuelen, Lage
    <2> QED
      BY <1>2, <2>2, <2>3
  <1>5. ImUpdate'
    BY <1>4 DEF ImUpdate
  <1>6. Verbunden'
    BY <1>1, <1>4 DEF FolgeInv, Kern, Verbunden, NochOhneZeile
  <1>7. StatusStimmt'
    BY <1>1, <1>4, <1>5 DEF FolgeInv, Kern, StatusStimmt
  <1>8. EinInhaber' /\ ZuordnungInv' /\ NochZuSchreiben'
    BY <1>4, Lage DEF FolgeInv, Kern, EinInhaber, ZuordnungInv, NochZuSchreiben
  <1>9. UpdateInv'
    BY <1>1, <1>4, <1>5 DEF FolgeInv, Kern, UpdateInv
  <1> QED
    BY <1>6, <1>7, <1>8, <1>9 DEF Kern

\* The last flush of a request, and what holds when it is over.
LEMMA FertigKern ==
    ASSUME Nacheinander, FolgeInv, NEW s \in Sitzung, s.pc = "frei", s.raus = S.raus,
           s.marken = S.marken, Spuelen(Einer, s, <<>>)
    PROVE  /\ S'.pc = "frei" /\ S'.raus = {} /\ S'.rein = {} /\ S'.marken = {}
           /\ OffenJetzt' = OffenJetzt
           /\ inhaber' = Links \cup s.rein /\ Links' = inhaber'
           /\ ~ImUpdate' /\ UpdateInv' /\ ZuordnungInv' /\ NochZuSchreiben'
  <1>1. TypInv /\ s.marken \in SUBSET DOMAIN historie /\ <<>> \in Seq(Zeile)
    BY Lage DEF FolgeInv
  <1>2. Gleich(S', s) /\ S'.raus = {} /\ S'.rein = {} /\ S'.marken = {}
    BY <1>1, NachSpuelen
  <1>3. /\ OffenJetzt' = OffenIn(historie, s.marken) \cup OffenIn(<<>>, {})
        /\ inhaber' = (inhaber \ s.raus) \cup s.rein /\ Links' = inhaber'
    BY <1>1, NachSpuelen
  <1>4. S'.pc = "frei"
    BY <1>2 DEF Gleich
  <1>5. ~ImUpdate' /\ UpdateInv' /\ ZuordnungInv' /\ NochZuSchreiben'
    BY <1>2, <1>4 DEF ImUpdate, UpdateInv, ZuordnungInv, NochZuSchreiben
  <1> QED
    BY <1>2, <1>3, <1>4, <1>5, OffenLeer, Lage

LEMMA SpeichernKern ==
    ASSUME Nacheinander, FolgeInv, Speichern(Einer)
    PROVE  Kern'
  <1> DEFINE s == [Leer EXCEPT !.raus = S.raus, !.rein = S.rein, !.marken = S.marken]
  <1>1. /\ S.pc = "speichern" /\ ImUpdate /\ PersonSchreiben(Einer)
        /\ Spuelen(Einer, s, <<>>)
    BY Lage DEF Speichern, ImUpdate
  <1>8. s \in Sitzung /\ s.pc = "frei" /\ s.raus = S.raus /\ s.rein = {} /\ s.marken = S.marken
    <2>1. s \in Sitzung
      BY Lage, LeerTyp DEF Sitzung
    <2> QED
      BY <2>1, Lage DEF Leer
  <1> HIDE DEF s
  <1>2. /\ S'.pc = "frei" /\ OffenJetzt' = OffenJetzt
        /\ inhaber' = Links /\ Links' = Links
        /\ ~ImUpdate' /\ UpdateInv' /\ ZuordnungInv' /\ NochZuSchreiben'
    BY <1>1, <1>8, FertigKern
  <1>3. Verbunden'
    BY <1>1, <1>2 DEF FolgeInv, Kern, Verbunden, NochOhneZeile
  <1>4. S.person \in Person /\ S.alt = status[S.person]
    BY <1>1, Lage DEF FolgeInv, Kern, UpdateInv, Passend
  <1>5. status'[S.person] = S.neu /\ \A p \in Person : p # S.person => status'[p] = status[p]
    BY <1>1, <1>4, Lage DEF PersonSchreiben
  <1>6. StatusStimmt'
    <2>1. \A z \in OffenJetzt : z.person \in Person
      BY Lage DEF Zeile
    <2> QED
      BY <1>1, <1>2, <1>5, <2>1 DEF FolgeInv, Kern, StatusStimmt
  <1>7. EinInhaber'
    BY <1>2, Lage DEF FolgeInv, Kern, EinInhaber
  <1> QED
    BY <1>2, <1>3, <1>6, <1>7 DEF Kern

LEMMA ZuordnungKern ==
    ASSUME Nacheinander, FolgeInv, NEW plan \in [Amt -> Person \cup {Ohne}],
           ZuordnungBeginnen(Einer, plan)
    PROVE  Kern'
  <1> DEFINE s == [Leer EXCEPT !.pc = "posten", !.plan = plan, !.rest = Amt]
  <1>1. S.pc = "frei" /\ Weiter(Einer, s, FALSE) /\ UNCHANGED tabellen
    BY Lage DEF ZuordnungBeginnen
  <1>2. S.raus = {} /\ S.marken = {} /\ Links = inhaber
    BY <1>1, Lage DEF FolgeInv, Kern, NochZuSchreiben
  <1>3. s.pc = "posten" /\ s.raus = {} /\ s.rein = {} /\ s.marken = {}
    BY DEF Leer
  <1> HIDE DEF s
  <1>4. /\ S' = s /\ OffenJetzt' = OffenJetzt /\ inhaber' = inhaber /\ Links' = Links
        /\ status' = status
    BY <1>1, <1>2, <1>3, OhneSpuelen, Lage DEF tabellen
  <1>5. ~ImUpdate' /\ ~ImUpdate
    BY <1>1, <1>3, <1>4 DEF ImUpdate
  <1>6. Verbunden'
    BY <1>1, <1>3, <1>4 DEF FolgeInv, Kern, Verbunden, NochOhneZeile
  <1>7. StatusStimmt'
    BY <1>4, <1>5 DEF FolgeInv, Kern, StatusStimmt
  <1>8. EinInhaber' /\ ZuordnungInv' /\ NochZuSchreiben' /\ UpdateInv'
    BY <1>3, <1>4, <1>5 DEF FolgeInv, Kern, EinInhaber, ZuordnungInv, NochZuSchreiben, UpdateInv
  <1> QED
    BY <1>6, <1>7, <1>8 DEF Kern

LEMMA LesenKern ==
    ASSUME Nacheinander, FolgeInv, PostenLesen(Einer)
    PROVE  Kern'
  <1> DEFINE kopie(po) == {v \in inhaber : v[2] = po}
             t(po) == [S EXCEPT !.pc = "inhaber", !.posten = po, !.rest = @ \ {po},
                                !.kopie = kopie(po), !.vorher = kopie(po),
                                !.weg = Abzuloesen(kopie(po), S.plan[po])]
  <1>1. S.pc = "posten" /\ UNCHANGED tabellen
    BY Lage DEF PostenLesen
  <1>2. PICK po \in S.rest : Weiter(Einer, t(po), FALSE)
    BY Lage DEF PostenLesen
  <1>3. S.raus = {} /\ S.marken = {} /\ Links = inhaber
    BY <1>1, Lage DEF FolgeInv, Kern, NochZuSchreiben
  <1> DEFINE s == t(po)
  <1>4. /\ s.pc = "inhaber" /\ s.posten = po /\ s.plan = S.plan
        /\ s.kopie = {v \in Links : v[2] = po} /\ s.weg = Abzuloesen(s.kopie, S.plan[po])
        /\ s.raus = {} /\ s.rein = {} /\ s.marken = {}
    BY <1>3, Lage DEF Sitzung
  <1>5. Weiter(Einer, s, FALSE)
    BY <1>2
  <1> HIDE DEF s
  <1>6. /\ S' = s /\ OffenJetzt' = OffenJetzt /\ inhaber' = inhaber /\ Links' = Links
        /\ status' = status
    BY <1>1, <1>3, <1>4, <1>5, OhneSpuelen, Lage DEF tabellen
  <1>7. ~ImUpdate' /\ ~ImUpdate
    BY <1>1, <1>4, <1>6 DEF ImUpdate
  <1>8. Verbunden'
    BY <1>1, <1>4, <1>6 DEF FolgeInv, Kern, Verbunden, NochOhneZeile
  <1>9. StatusStimmt'
    BY <1>6, <1>7 DEF FolgeInv, Kern, StatusStimmt
  <1>10. EinInhaber' /\ UpdateInv' /\ NochZuSchreiben'
    BY <1>4, <1>6, <1>7 DEF FolgeInv, Kern, EinInhaber, UpdateInv, NochZuSchreiben
  <1>11. ZuordnungInv'
    <2>1. \A v \in inhaber : v = <<v[1], v[2]>>
      BY Lage DEF Verknuepfung
    <2>2. Neuer(s) = S.plan[po]
      BY <1>4 DEF Neuer
    <2>3. Neuer(s) \notin s.weg
      BY <1>4, <2>2 DEF Abzuloesen
    <2>4. \A v \in Links : v[2] = po => v[1] \in s.weg \cup {Neuer(s)}
      BY <1>4, <2>2 DEF Abzuloesen
    <2>5. \A q \in s.weg : <<q, po>> \in inhaber
      BY <1>3, <1>4, <2>1 DEF Abzuloesen
    <2>6. Neuer(S)' = Neuer(s)
      BY <1>6 DEF Neuer
    <2> QED
      BY <1>4, <1>6, <2>3, <2>4, <2>5, <2>6 DEF ZuordnungInv
  <1> QED
    BY <1>8, <1>9, <1>10, <1>11 DEF Kern

LEMMA EntlassenKern ==
    ASSUME Nacheinander, FolgeInv, InhaberEntlassen(Einer)
    PROVE  Kern'
  <1> DEFINE t(q) == [S EXCEPT !.weg = @ \ {q}, !.kopie = @ \ {<<q, S.posten>>},
                               !.raus = @ \cup {<<q, S.posten>>}]
  <1>1. S.pc = "inhaber" /\ status' = status
    BY Lage DEF InhaberEntlassen
  <1>2. PICK q \in S.weg : HistoryEnde(Einer, t(q), ZeilenFuerPosten(q, S.posten))
    BY Lage DEF InhaberEntlassen
  <1>3. q \in Person /\ S.posten \in Amt /\ S.posten \notin Ressort
    BY <1>1, <1>2, Lage DEF Passend
  <1> DEFINE v0 == <<q, S.posten>>
             s == t(q)
  <1>4. /\ s \in Sitzung /\ s.rein = {} /\ s.marken = S.marken
        /\ s.raus = S.raus \cup {v0} /\ s.kopie = S.kopie \ {v0}
        /\ s.pc = "inhaber" /\ s.posten = S.posten /\ s.plan = S.plan
        /\ s.weg = S.weg \ {q}
    <2>1. <<q, S.posten>> \in Verknuepfung
      BY <1>3 DEF Verknuepfung, Posten
    <2> QED
      BY <1>1, <2>1, Lage DEF Sitzung
  <1>5. HistoryEnde(Einer, s, ZeilenFuerPosten(q, S.posten))
    BY <1>2
  <1> HIDE DEF s
  <1>6. /\ OffenJetzt' = {z \in OffenJetzt : ~(z.person = q /\ z.posten = S.posten)}
        /\ inhaber' \in {inhaber, inhaber \ s.raus}
        /\ Links' = inhaber \ s.raus
        /\ S'.raus \in {{}, s.raus} /\ S'.rein = {}
        /\ S'.marken \subseteq DOMAIN historie'
        /\ Gleich(S', s)
    <2>1. TypInv /\ OffenJetzt = OffenIn(historie, s.marken)
      BY <1>4, Lage DEF FolgeInv
    <2>2. OffenJetzt' = {z \in OffenJetzt : ~(z.person = q /\ z.posten = S.posten)}
      BY <1>4, <1>5, <2>1, NachEndePosten
    <2> QED
      BY <1>4, <1>5, <2>1, <2>2, NachEnde, ZeilenGefunden
  <1>7. Links' = Links \ {v0}
    BY <1>4, <1>6, Lage
  <1>8. /\ S'.pc = "inhaber" /\ S'.posten = S.posten /\ S'.plan = S.plan
        /\ S'.weg = S.weg \ {q} /\ S'.kopie = S.kopie \ {v0}
    BY <1>4, <1>6 DEF Gleich
  <1>9. ~ImUpdate /\ ~ImUpdate'
    BY <1>1, <1>8 DEF ImUpdate
  <1>10. Verbunden'
    <2>1. \A z \in OffenJetzt' : z.posten # KeinRessort => <<z.person, z.posten>> \in Links'
      BY <1>6, <1>7 DEF FolgeInv, Kern, Verbunden
    <2>2. ASSUME NEW v \in Links', v[2] \in Ressort
          PROVE  \E z \in OffenJetzt' : z.person = v[1] /\ z.posten = v[2]
      <3>1. v \in Links
        BY <1>7, <2>2
      <3>2. PICK z \in OffenJetzt : z.person = v[1] /\ z.posten = v[2]
        BY <1>1, <2>2, <3>1 DEF FolgeInv, Kern, Verbunden, NochOhneZeile
      <3> QED
        BY <1>3, <1>6, <2>2, <3>2
    <2> QED
      BY <2>1, <2>2 DEF Verbunden
  <1>11. StatusStimmt'
    BY <1>1, <1>6, <1>9 DEF FolgeInv, Kern, StatusStimmt
  <1>12. EinInhaber' /\ UpdateInv' /\ NochZuSchreiben'
    BY <1>6, <1>8, <1>9 DEF FolgeInv, Kern, EinInhaber, UpdateInv, NochZuSchreiben
  <1>13. ZuordnungInv'
    <2>1. Neuer(S)' = Neuer(S)
      BY <1>8 DEF Neuer
    <2>2. q # Neuer(S) /\ v0 # <<Neuer(S), S.posten>>
      BY <1>1, <1>2 DEF FolgeInv, Kern, ZuordnungInv
    <2>3. S'.raus \subseteq Person \X {S.posten} /\ <<Neuer(S), S.posten>> \notin S'.raus
      BY <1>1, <1>3, <1>4, <1>6, <2>2 DEF FolgeInv, Kern, ZuordnungInv
    <2>4. S'.kopie = {v \in Links' : v[2] = S.posten}
      BY <1>1, <1>7, <1>8 DEF FolgeInv, Kern, ZuordnungInv
    <2>5. \A v \in Links' : v[2] = S.posten => v[1] \in S'.weg \cup {Neuer(S)}
      <3> SUFFICES ASSUME NEW v \in Links', v[2] = S.posten
                   PROVE  v[1] \in S'.weg \cup {Neuer(S)}
        OBVIOUS
      <3>1. v \in Links /\ v # v0 /\ v = <<v[1], v[2]>>
        BY <1>7, Lage DEF Verknuepfung
      <3>2. v[1] # q
        BY <3>1
      <3> QED
        BY <1>1, <1>8, <3>1, <3>2 DEF FolgeInv, Kern, ZuordnungInv
    <2>6. \A x \in S'.weg : <<x, S.posten>> \in inhaber'
      <3> SUFFICES ASSUME NEW x \in S'.weg
                   PROVE  <<x, S.posten>> \in inhaber'
        OBVIOUS
      <3>1. x \in S.weg /\ x # q /\ <<x, S.posten>> \in inhaber
        BY <1>1, <1>8 DEF FolgeInv, Kern, ZuordnungInv
      <3>2. <<q, S.posten>> \in inhaber
        BY <1>1, <1>2 DEF FolgeInv, Kern, ZuordnungInv
      <3>3. <<x, S.posten>>[1] = x /\ <<q, S.posten>>[1] = q
            /\ <<x, S.posten>>[2] = S.posten /\ <<q, S.posten>>[2] = S.posten
        OBVIOUS
      <3>4. x = q
        BY <1>3, <3>1, <3>2, <3>3 DEF FolgeInv, Kern, EinInhaber
      <3> QED
        BY <3>1, <3>4
    <2> QED
      BY <1>1, <1>8, <2>1, <2>2, <2>3, <2>4, <2>5, <2>6 DEF FolgeInv, Kern, ZuordnungInv
  <1> QED
    BY <1>10, <1>11, <1>12, <1>13 DEF Kern

\* Nobody shares a post, so that the loop of the form never finds two.
LEMMA KeinScheitern ==
    ASSUME Nacheinander, FolgeInv
    PROVE  ~EntlassenScheitert(Einer)
  <1> SUFFICES ASSUME S.pc = "inhaber"
               PROVE  ~(Cardinality(S.weg) > 1)
    BY Lage DEF EntlassenScheitert
  <1>1. S.posten \in Amt
    BY Lage DEF Passend
  <1>2. \A p, q \in S.weg : p = q
    <2> SUFFICES ASSUME NEW p \in S.weg, NEW q \in S.weg PROVE p = q
      OBVIOUS
    <2>1. <<p, S.posten>> \in inhaber /\ <<q, S.posten>> \in inhaber
      BY DEF FolgeInv, Kern, ZuordnungInv
    <2>2. <<p, S.posten>>[1] = p /\ <<q, S.posten>>[1] = q
          /\ <<p, S.posten>>[2] = S.posten /\ <<q, S.posten>>[2] = S.posten
      OBVIOUS
    <2> QED
      BY <1>1, <2>1, <2>2 DEF FolgeInv, Kern, EinInhaber
  <1>3. CASE S.weg = {}
    BY <1>3, FS_EmptySet
  <1>4. CASE S.weg # {}
    <2>1. PICK p : S.weg = {p}
      BY <1>2, <1>4
    <2> QED
      BY <2>1, FS_Singleton
  <1> QED
    BY <1>3, <1>4

LEMMA BesetzenKern ==
    ASSUME Nacheinander, FolgeInv, PostenBesetzen(Einer)
    PROVE  Kern'
  <1> DEFINE po == S.posten
             q == Neuer(S)
             rein == IF q = Ohne \/ <<q, po>> \in S.kopie THEN {} ELSE {<<q, po>>}
             ende == [Leer EXCEPT !.raus = S.raus, !.rein = rein, !.marken = S.marken]
             naechster == [S EXCEPT !.pc = "posten", !.posten = Ohne, !.rein = rein,
                                    !.kopie = {}, !.vorher = {}]
             s == IF S.rest = {} THEN ende ELSE naechster
             neu == IF q = Ohne THEN <<>> ELSE NeueZeile(q, po, Ohne)
  <1>1. /\ S.pc = "inhaber" /\ S.weg = {} /\ status' = status
        /\ Spuelen(Einer, s, neu) \/ DoppeltVerknuepft(Einer, s, neu)
    BY Lage DEF PostenBesetzen
  <1>2. po \in Amt /\ po \notin Ressort /\ q \in Person \cup {Ohne} /\ Ohne \notin Person
    BY <1>1, Lage, HistorieAssumption DEF Passend, Sitzung, Neuer
  <1>3. neu = <<>>
    BY DEF NeueZeile
  <1>4. rein \in SUBSET Verknuepfung /\ rein \subseteq {<<q, po>>}
    BY <1>2 DEF Verknuepfung, Posten
  <1>5. <<q, po>> \in rein => q # Ohne /\ <<q, po>> \notin inhaber
    <2>1. S.kopie = {v \in Links : v[2] = po} /\ <<q, po>> \notin S.raus
      BY <1>1 DEF FolgeInv, Kern, ZuordnungInv
    <2> QED
      BY <2>1, Lage
  <1> HIDE DEF rein, neu, q
  <1>6. /\ s \in Sitzung /\ s.pc \in {"frei", "posten"} /\ s.raus = S.raus /\ s.rein = rein
        /\ s.marken = S.marken
    <2>1. ende \in Sitzung /\ naechster \in Sitzung
      BY <1>1, <1>4, Lage, LeerTyp DEF Sitzung
    <2>2. ende.pc = "frei" /\ ende.raus = S.raus /\ ende.rein = rein /\ ende.marken = S.marken
      BY <2>1 DEF Leer
    <2>3. /\ naechster.pc = "posten" /\ naechster.raus = S.raus /\ naechster.rein = rein
          /\ naechster.marken = S.marken
      BY <2>1, Lage DEF Sitzung
    <2> HIDE DEF ende, naechster
    <2> QED
      BY <2>1, <2>2, <2>3
  <1> HIDE DEF s, po
  <1>7. Spuelen(Einer, s, <<>>)
    BY <1>1, <1>3, <1>4, <1>5, <1>6 DEF DoppeltVerknuepft
  <1>8. TypInv /\ s.marken \in SUBSET DOMAIN historie /\ <<>> \in Seq(Zeile)
    BY <1>6, Lage DEF FolgeInv
  <1>9. Gleich(S', s) /\ S'.raus = {} /\ S'.rein = {} /\ S'.marken = {}
    BY <1>6, <1>7, <1>8, NachSpuelen
  <1>10. OffenJetzt' = OffenJetzt
    <2>1. OffenJetzt' = OffenIn(historie, s.marken) \cup OffenIn(<<>>, {})
      BY <1>6, <1>7, <1>8, NachSpuelen
    <2> QED
      BY <1>6, <2>1, OffenLeer, Lage
  <1>11. inhaber' = Links \cup rein /\ Links' = inhaber'
    <2>1. inhaber' = (inhaber \ s.raus) \cup s.rein /\ Links' = inhaber'
      BY <1>6, <1>7, <1>8, NachSpuelen
    <2> QED
      BY <1>6, <2>1, Lage
  <1>12. S'.pc \in {"frei", "posten"}
    BY <1>6, <1>9 DEF Gleich
  <1>13. ~ImUpdate' /\ ~ImUpdate
    BY <1>1, <1>12 DEF ImUpdate
  <1>14. \A v \in rein : v[1] = q /\ v[2] = po
    BY <1>4
  <1>15. Verbunden'
    <2>1. \A z \in OffenJetzt' : z.posten # KeinRessort => <<z.person, z.posten>> \in Links'
      BY <1>10, <1>11 DEF FolgeInv, Kern, Verbunden
    <2>2. \A v \in Links' : v[2] \in Ressort =>
              \E z \in OffenJetzt' : z.person = v[1] /\ z.posten = v[2]
      BY <1>1, <1>2, <1>10, <1>11, <1>14 DEF FolgeInv, Kern, Verbunden, NochOhneZeile
    <2> QED
      BY <2>1, <2>2 DEF Verbunden
  <1>16. StatusStimmt'
    BY <1>1, <1>10, <1>13 DEF FolgeInv, Kern, StatusStimmt
  <1>17. EinInhaber'
    <2>1. \A v \in Links : v \in inhaber
      BY Lage
    <2>2. \A v \in Links : v[2] = po => v[1] = q
      BY <1>1 DEF FolgeInv, Kern, ZuordnungInv, po, q
    <2> SUFFICES ASSUME NEW v \in Links \cup rein, NEW w \in Links \cup rein,
                        v[2] = w[2], v[2] \in Amt
                 PROVE  v[1] = w[1]
      BY <1>11 DEF EinInhaber
    <2>3. CASE v[2] = po
      <3>1. \A x \in Links \cup rein : x[2] = po => x[1] = q
        BY <1>14, <2>2
      <3>2. v[1] = q /\ w[1] = q
        BY <2>3, <3>1
      <3> QED
        BY <3>2
    <2>4. CASE v[2] # po
      <3>1. v \in inhaber /\ w \in inhaber
        BY <1>14, <2>1, <2>4
      <3> QED
        BY <3>1 DEF FolgeInv, Kern, EinInhaber
    <2> QED
      BY <2>3, <2>4
  <1>18. UpdateInv' /\ ZuordnungInv' /\ NochZuSchreiben'
    BY <1>9, <1>12, <1>13 DEF UpdateInv, ZuordnungInv, NochZuSchreiben
  <1> QED
    BY <1>15, <1>16, <1>17, <1>18 DEF Kern

LEMMA FolgeAmAnfang ==
    ASSUME Nacheinander, Init
    PROVE  FolgeInv
  <1>1. TypInv
    BY TypAmAnfang
  <1>2. Einer \in Anfrage
    BY DEF Nacheinander
  <1>3. S.pc = "frei" /\ S.raus = {} /\ S.rein = {} /\ S.marken = {}
    BY <1>2 DEF Init, S, Leer
  <1>4. OffenJetzt = {} /\ Links = {} /\ inhaber = {}
    BY OffenLeer, <1>3 DEF Init, OffenJetzt, OffenIn, Links
  <1>5. ~ImUpdate
    BY <1>3 DEF ImUpdate
  <1>6. Verbunden /\ StatusStimmt /\ EinInhaber
    BY <1>4 DEF Verbunden, StatusStimmt, EinInhaber
  <1>7. UpdateInv /\ ZuordnungInv /\ NochZuSchreiben
    BY <1>3, <1>5 DEF UpdateInv, ZuordnungInv, NochZuSchreiben
  <1> QED
    BY <1>1, <1>6, <1>7 DEF FolgeInv, Kern

LEMMA FolgeErhalten ==
    ASSUME Nacheinander
    PROVE  FolgeInv /\ [Next]_vars => FolgeInv'
  <1> SUFFICES ASSUME FolgeInv, [Next]_vars PROVE Kern'
    BY TypErhalten DEF FolgeInv
  <1>1. CASE \E p \in Person, st \in Status : PersonAnlegen(p, st)
    BY <1>1, AnlegenKern
  <1>2. CASE \E a \in Anfrage, p \in Person, auswahl \in SUBSET Ressort, neu \in Status :
                UpdateBeginnen(a, p, auswahl, neu)
    BY <1>2, BeginnenKern DEF Nacheinander
  <1>3. CASE \E a \in Anfrage, plan \in [Amt -> Person \cup {Ohne}] : ZuordnungBeginnen(a, plan)
    BY <1>3, ZuordnungKern DEF Nacheinander
  <1>4. ASSUME NEW a \in Anfrage,
               \/ RessortEntfernen(a)
               \/ RessortHinzufuegen(a)
               \/ StatusVergleichen(a)
               \/ HistorieFuerPosten(a)
               \/ KontaktdatenSpeichern(a)
               \/ KontaktdatenScheitern(a)
               \/ Speichern(a)
               \/ SpeichernScheitert(a)
               \/ PostenLesen(a)
               \/ InhaberEntlassen(a)
               \/ EntlassenScheitert(a)
               \/ PostenBesetzen(a)
        PROVE  Kern'
    <2>1. a = Einer /\ ~Stoerung
      BY DEF Nacheinander
    <2>2. ~KontaktdatenScheitern(a) /\ ~SpeichernScheitert(a) /\ ~EntlassenScheitert(a)
      BY <2>1, KeinScheitern DEF KontaktdatenScheitern, SpeichernScheitert
    <2> QED
      BY <1>4, <2>1, <2>2, EntfernenKern, HinzufuegenKern, VergleichenKern, FuerPostenKern,
         KontaktdatenKern, SpeichernKern, LesenKern, EntlassenKern, BesetzenKern
  <1>5. CASE Neustart
    BY <1>5 DEF Neustart, Nacheinander
  <1>6. CASE UNCHANGED vars
    <2>1. /\ S' = S /\ OffenJetzt' = OffenJetzt /\ Links' = Links /\ inhaber' = inhaber
          /\ status' = status /\ historie' = historie
      BY <1>6 DEF vars, S, OffenJetzt, Links
    <2>2. ImUpdate' = ImUpdate /\ Neuer(S)' = Neuer(S)
      BY <2>1 DEF ImUpdate, Neuer
    <2>3. Verbunden' /\ StatusStimmt' /\ EinInhaber'
      BY <2>1, <2>2 DEF FolgeInv, Kern, Verbunden, NochOhneZeile, StatusStimmt, EinInhaber
    <2>4. UpdateInv' /\ ZuordnungInv' /\ NochZuSchreiben'
      BY <2>1, <2>2 DEF FolgeInv, Kern, UpdateInv, ZuordnungInv, NochZuSchreiben
    <2> QED
      BY <2>3, <2>4 DEF Kern
  <1> QED
    BY <1>1, <1>2, <1>3, <1>4, <1>5, <1>6 DEF Next

\* Between requests the request's view is the database.
LEMMA InRuhe ==
    ASSUME Nacheinander, FolgeInv, Ruhe
    PROVE  OffenJetzt = OffeneZeilen /\ Links = inhaber /\ ~ImUpdate /\ S.pc = "frei"
  <1>1. S.pc = "frei"
    BY Lage DEF Ruhe
  <1>2. S.raus = {} /\ S.marken = {}
    BY <1>1 DEF FolgeInv, Kern, NochZuSchreiben
  <1> QED
    BY <1>1, <1>2 DEF ImUpdate, OffenJetzt, OffenIn, OffeneZeilen, Links

\* Whoever has an open row for a post has the post (lines 324-327, 660-690).
THEOREM ZeileUndPosten ==
    ASSUME Nacheinander
    PROVE  Spec => []ZeileGehoertZumPosten
  <1>1. Init => FolgeInv
    BY FolgeAmAnfang
  <1>2. FolgeInv /\ [Next]_vars => FolgeInv'
    BY FolgeErhalten
  <1>3. FolgeInv => ZeileGehoertZumPosten
    BY InRuhe DEF ZeileGehoertZumPosten, FolgeInv, Kern, Verbunden
  <1> QED
    BY <1>1, <1>2, <1>3, PTL DEF Spec

\* Open rows carry the present status of the person (line 337).
THEOREM ZeileUndStatus ==
    ASSUME Nacheinander
    PROVE  Spec => []OffeneZeilenHabenStatus
  <1>1. Init => FolgeInv
    BY FolgeAmAnfang
  <1>2. FolgeInv /\ [Next]_vars => FolgeInv'
    BY FolgeErhalten
  <1>3. FolgeInv => OffeneZeilenHabenStatus
    BY InRuhe DEF OffeneZeilenHabenStatus, FolgeInv, Kern, StatusStimmt
  <1> QED
    BY <1>1, <1>2, <1>3, PTL DEF Spec

\* Whoever has a Ressort has an open row for it, whatever ticks and changes of
\* status led there.
THEOREM RessortUndZeile ==
    ASSUME Nacheinander
    PROVE  Spec => []RessortHatZeile
  <1>1. Init => FolgeInv
    BY FolgeAmAnfang
  <1>2. FolgeInv /\ [Next]_vars => FolgeInv'
    BY FolgeErhalten
  <1>3. FolgeInv => RessortHatZeile
    BY InRuhe DEF RessortHatZeile, FolgeInv, Kern, Verbunden, NochOhneZeile
  <1> QED
    BY <1>1, <1>2, <1>3, PTL DEF Spec

\* One person per post, as the comment of lines 663-665 has it, as long as
\* assignments do not overlap.
THEOREM EinePersonProPosten ==
    ASSUME Nacheinander
    PROVE  Spec => []PostenNurEinePerson
  <1>1. Init => FolgeInv
    BY FolgeAmAnfang
  <1>2. FolgeInv /\ [Next]_vars => FolgeInv'
    BY FolgeErhalten
  <1>3. FolgeInv => PostenNurEinePerson
    <2> SUFFICES ASSUME FolgeInv, NEW po \in Amt
                 PROVE  Cardinality({p \in Person : <<p, po>> \in inhaber}) <= 1
      BY DEF PostenNurEinePerson
    <2> DEFINE P == {p \in Person : <<p, po>> \in inhaber}
    <2>1. \A p, q \in P : p = q
      <3> SUFFICES ASSUME NEW p \in P, NEW q \in P PROVE p = q
        OBVIOUS
      <3>1. <<p, po>>[1] = p /\ <<q, po>>[1] = q /\ <<p, po>>[2] = po /\ <<q, po>>[2] = po
        OBVIOUS
      <3> QED
        BY <3>1 DEF FolgeInv, Kern, EinInhaber
    <2> HIDE DEF P
    <2>2. CASE P = {}
      <3>1. Cardinality(P) = 0
        BY <2>2, FS_EmptySet
      <3> QED
        BY <3>1 DEF P
    <2>3. CASE P # {}
      <3>1. PICK p : P = {p}
        BY <2>1, <2>3
      <3>2. Cardinality(P) = 1
        BY <3>1, FS_Singleton
      <3> QED
        BY <3>2 DEF P
    <2> QED
      BY <2>2, <2>3
  <1> QED
    BY <1>1, <1>2, <1>3, PTL DEF Spec

------------------------------------------------------------------------------
(* UpdateWirkt: what an undisturbed update has done so far and what it has  *)
(* still to do, as its session sees it, whatever the others do.             *)

BeimUpdate == {"ressorts", "historie", "kontakt", "speichern"}

\* The links as session s sees them if k are stored, and the posts of its person.
Gesehen(s, k) == (k \ s.raus) \cup s.rein
Hatte(s) == PostenIn(s.vorher, s.person)
Soll(s) == (Hatte(s) \cap Amt) \cup s.auswahl

\* The posts that get a row with the new status.
Reihen(s) == IF Soll(s) = {} THEN {KeinRessort} ELSE Soll(s)

\* The Ressorts still to be taken away and to be added.
NochWeg(s) == IF s.pc = "ressorts" THEN s.weg ELSE {}
NochDazu(s) == IF s.pc = "ressorts" THEN s.dazu ELSE {}

HatZeile(o, s, po) ==
    \E z \in o : z.person = s.person /\ z.posten = po /\ z.status = s.neu

AuswahlStimmt(s, o, l) ==
    /\ s.kopie = {v \in l : v[1] = s.person}
    /\ NochWeg(s) \subseteq (Hatte(s) \cap Ressort) \ s.auswahl
    /\ NochDazu(s) \subseteq s.auswahl \ Hatte(s)
    /\ PostenIn(l, s.person) = (Soll(s) \ NochDazu(s)) \cup NochWeg(s)
    /\ \A z \in o : z.person = s.person
                    /\ z.posten \in (Hatte(s) \cap Ressort) \ s.auswahl => z.posten \in NochWeg(s)
    /\ \A r \in s.auswahl \ Hatte(s) : r \in NochDazu(s) \/ HatZeile(o, s, r)

WechselStimmt(s, o) ==
    /\ s.pc = "historie" => s.alt # s.neu
    /\ s.pc # "ressorts" /\ s.alt # s.neu =>
          /\ \A z \in o : z.person = s.person => z.status # s.alt
          /\ \A po \in Reihen(s) : (s.pc = "historie" /\ po \in s.dazu) \/ HatZeile(o, s, po)
    /\ s.pc = "historie" => s.dazu \subseteq Reihen(s)

StandStimmt(s, h, k, st) == s.ungestoert /\ s.pc \in BeimUpdate =>
    /\ s.alt = st[s.person] /\ s.alt # Ohne
    /\ s.rein = {} /\ s.marken \subseteq DOMAIN h
    /\ AuswahlStimmt(s, OffenIn(h, s.marken), Gesehen(s, k))
    /\ WechselStimmt(s, OffenIn(h, s.marken))

StandInv == \A a \in Anfrage : StandStimmt(sitzung[a], historie, inhaber, status)

\* Sessions that differ at most in what they have not yet flushed.
SonstGleich(t, s) ==
    /\ t.pc = s.pc /\ t.person = s.person /\ t.auswahl = s.auswahl
    /\ t.alt = s.alt /\ t.neu = s.neu /\ t.kopie = s.kopie /\ t.vorher = s.vorher
    /\ t.weg = s.weg /\ t.dazu = s.dazu /\ t.ungestoert = s.ungestoert

\* A step of request a takes session s to t, having written if g, and leaves it
\* with the open rows o; which links it sees does not change.
Folgt(a, s, o, t, g) ==
    /\ Weiter(a, t, g)
    /\ g \in BOOLEAN
    /\ g = FALSE => UNCHANGED <<inhaber, historie>>
    /\ SonstGleich(t, s)
    /\ t.rein = {} \/ t.rein = s.rein
    /\ t.marken \subseteq DOMAIN historie' \/ t.marken = s.marken
    /\ DOMAIN historie \subseteq DOMAIN historie'
    /\ Gesehen(t, inhaber') = Gesehen(s, inhaber)
    /\ OffenIn(historie', t.marken) = o

LEMMA SpuelenFolgt ==
    ASSUME TypInv, NEW a \in Anfrage, NEW s \in Sitzung, NEW neu \in Seq(Zeile),
           Spuelen(a, s, neu)
    PROVE  /\ Folgt(a, s, OffenIn(historie, s.marken) \cup OffenIn(neu, {}), Gespuelt(s), TRUE)
           /\ Gespuelt(s).rein = {} /\ Gespuelt(s).marken = {}
  <1> DEFINE t == Gespuelt(s)
  <1>1. /\ historie' = Beendet(s) \o neu
        /\ inhaber' = Gesehen(s, inhaber)
        /\ Weiter(a, t, TRUE)
    BY DEF Spuelen, Verknuepft, Gesehen
  <1>2. t.marken = {} /\ t.raus = {} /\ t.rein = {} /\ SonstGleich(t, s)
    BY DEF Gespuelt, Sitzung, SonstGleich
  <1> HIDE DEF t
  <1>3. historie \in Seq(Zeile)
    BY DEF TypInv, TypeOK
  <1>4. Beendet(s) \in Seq(Zeile) /\ DOMAIN Beendet(s) = DOMAIN historie
    BY <1>3, BeendetTyp
  <1> DEFINE b == Beendet(s)
  <1>5. OffenIn(b, {}) = OffenIn(historie, s.marken)
    BY <1>3, OffenBeendet
  <1> HIDE DEF b
  <1>6. OffenIn(b \o neu, {}) = OffenIn(b, {}) \cup OffenIn(neu, {})
    BY <1>4, OffenAnhang DEF b
  <1>7. DOMAIN b \subseteq DOMAIN (b \o neu)
    BY <1>4 DEF b
  <1>8. DOMAIN historie \subseteq DOMAIN historie'
    BY <1>1, <1>4, <1>7 DEF b
  <1>9. OffenIn(historie', t.marken) = OffenIn(historie, s.marken) \cup OffenIn(neu, {})
    BY <1>1, <1>2, <1>5, <1>6 DEF b
  <1>10. Gesehen(t, inhaber') = Gesehen(s, inhaber)
    BY <1>1, <1>2 DEF Gesehen
  <1> QED
    BY <1>1, <1>2, <1>8, <1>9, <1>10 DEF Folgt, t

LEMMA ImSpeicherFolgt ==
    ASSUME NEW a \in Anfrage, NEW s, Weiter(a, s, FALSE), UNCHANGED <<inhaber, historie>>
    PROVE  Folgt(a, s, OffenIn(historie, s.marken), s, FALSE)
  BY DEF Folgt, SonstGleich

\* HistoryEnde, and whether it flushes before.
LEMMA EndeFolgt ==
    ASSUME TypInv, NEW a \in Anfrage, NEW s \in Sitzung,
           NEW zeilen \in SUBSET DOMAIN historie, HistoryEnde(a, s, zeilen),
           NEW o, \A z : z \in o <=>
                     \E i \in DOMAIN historie : /\ historie[i] = z /\ historie[i].offen
                                                /\ i \notin s.marken /\ i \notin zeilen
    PROVE  \E t, g : /\ Folgt(a, s, o, t, g)
                     /\ t.marken \subseteq DOMAIN historie'
  <1> DEFINE offene == {i \in zeilen : historie[i].offen /\ i \notin s.marken}
  <1>1. historie \in Seq(Zeile)
    BY DEF TypInv, TypeOK
  <1>2. \A m : /\ [s EXCEPT !.marken = m].marken = m
               /\ [s EXCEPT !.marken = m].raus = s.raus
               /\ [s EXCEPT !.marken = m].rein = s.rein
               /\ SonstGleich([s EXCEPT !.marken = m], s)
    BY DEF Sitzung, SonstGleich
  <1>3. \A m : /\ [Gespuelt(s) EXCEPT !.marken = m].marken = m
               /\ [Gespuelt(s) EXCEPT !.marken = m].raus = {}
               /\ [Gespuelt(s) EXCEPT !.marken = m].rein = {}
               /\ SonstGleich([Gespuelt(s) EXCEPT !.marken = m], s)
    BY DEF Gespuelt, Sitzung, SonstGleich
  <1>4. OffenIn(historie, s.marken \cup offene) = o
    BY DEF OffenIn
  <1>5. offene \subseteq DOMAIN historie
    OBVIOUS
  <1>6. CASE s.marken = {}
    <2> DEFINE t == [s EXCEPT !.marken = offene]
    <2>1. Weiter(a, t, FALSE) /\ UNCHANGED <<inhaber, historie>>
      BY <1>6 DEF HistoryEnde
    <2> HIDE DEF offene
    <2>2. t.marken = offene /\ t.raus = s.raus /\ t.rein = s.rein /\ SonstGleich(t, s)
      BY <1>2
    <2> HIDE DEF t
    <2>3. s.marken \cup offene = offene
      BY <1>6
    <2>4. /\ OffenIn(historie', t.marken) = o
          /\ Gesehen(t, inhaber') = Gesehen(s, inhaber)
          /\ DOMAIN historie \subseteq DOMAIN historie'
          /\ t.marken \subseteq DOMAIN historie'
      BY <1>4, <1>5, <2>1, <2>2, <2>3 DEF Gesehen
    <2>5. Folgt(a, s, o, t, FALSE)
      BY <2>1, <2>2, <2>4 DEF Folgt
    <2> QED
      BY <2>4, <2>5
  <1>7. CASE s.marken # {}
    <2> DEFINE t == [Gespuelt(s) EXCEPT !.marken = offene]
    <2>1. /\ historie' = Beendet(s)
          /\ inhaber' = Gesehen(s, inhaber)
          /\ Weiter(a, t, TRUE)
      BY <1>7 DEF HistoryEnde, Verknuepft, Gesehen
    <2> HIDE DEF offene
    <2>2. t.marken = offene /\ t.raus = {} /\ t.rein = {} /\ SonstGleich(t, s)
      BY <1>3
    <2> HIDE DEF t
    <2>3. DOMAIN historie' = DOMAIN historie
      BY <1>1, <2>1, BeendetTyp
    <2>4. OffenIn(Beendet(s), offene) = OffenIn(historie, s.marken \cup offene)
      BY <1>1, OffenBeendet
    <2>5. /\ OffenIn(historie', t.marken) = o
          /\ Gesehen(t, inhaber') = Gesehen(s, inhaber)
          /\ DOMAIN historie \subseteq DOMAIN historie'
          /\ t.marken \subseteq DOMAIN historie'
      BY <1>4, <1>5, <2>1, <2>2, <2>3, <2>4 DEF Gesehen
    <2>6. Folgt(a, s, o, t, TRUE)
      BY <2>1, <2>2, <2>5 DEF Folgt
    <2> QED
      BY <2>5, <2>6
  <1> QED
    BY <1>6, <1>7

LEMMA EndePostenFolgt ==
    ASSUME TypInv, NEW a \in Anfrage, NEW s \in Sitzung, NEW p, NEW x,
           HistoryEnde(a, s, ZeilenFuerPosten(p, x))
    PROVE  \E t, g : /\ Folgt(a, s, {z \in OffenIn(historie, s.marken) :
                                        ~(z.person = p /\ z.posten = x)}, t, g)
                     /\ t.marken \subseteq DOMAIN historie'
  <1> DEFINE zeilen == ZeilenFuerPosten(p, x)
             o == {z \in OffenIn(historie, s.marken) : ~(z.person = p /\ z.posten = x)}
  <1>1. zeilen \in SUBSET DOMAIN historie /\ HistoryEnde(a, s, zeilen)
    BY ZeilenGefunden
  <1>2. \A z : z \in o <=>
                  \E i \in DOMAIN historie : /\ historie[i] = z /\ historie[i].offen
                                             /\ i \notin s.marken /\ i \notin zeilen
    BY DEF OffenIn, ZeilenFuerPosten
  <1> HIDE DEF zeilen, o
  <1>3. \E t, g : Folgt(a, s, o, t, g) /\ t.marken \subseteq DOMAIN historie'
    BY <1>1, <1>2, EndeFolgt
  <1> QED
    BY <1>3 DEF o

LEMMA EndeStatusFolgt ==
    ASSUME TypInv, NEW a \in Anfrage, NEW s \in Sitzung, NEW p, NEW x,
           HistoryEnde(a, s, ZeilenFuerStatus(p, x))
    PROVE  \E t, g : /\ Folgt(a, s, {z \in OffenIn(historie, s.marken) :
                                        ~(z.person = p /\ z.status = x)}, t, g)
                     /\ t.marken \subseteq DOMAIN historie'
  <1> DEFINE zeilen == ZeilenFuerStatus(p, x)
             o == {z \in OffenIn(historie, s.marken) : ~(z.person = p /\ z.status = x)}
  <1>1. zeilen \in SUBSET DOMAIN historie /\ HistoryEnde(a, s, zeilen)
    BY ZeilenGefunden
  <1>2. \A z : z \in o <=>
                  \E i \in DOMAIN historie : /\ historie[i] = z /\ historie[i].offen
                                             /\ i \notin s.marken /\ i \notin zeilen
    BY DEF OffenIn, ZeilenFuerStatus
  <1> HIDE DEF zeilen, o
  <1>3. \E t, g : Folgt(a, s, o, t, g) /\ t.marken \subseteq DOMAIN historie'
    BY <1>1, <1>2, EndeFolgt
  <1> QED
    BY <1>3 DEF o

\* A step of request a that leaves it as t, having written if g.
Ordentlich(a, t, g) ==
    /\ Weiter(a, t, g)
    /\ g \in BOOLEAN
    /\ g = FALSE => UNCHANGED tabellen
    /\ StandStimmt(t, historie', inhaber', status')

LEMMA SonstStimmt ==
    ASSUME NEW t, t.pc \notin BeimUpdate, NEW h, NEW k, NEW st
    PROVE  StandStimmt(t, h, k, st)
  BY DEF StandStimmt

LEMMA LeerStimmt ==
    ASSUME NEW h, NEW k, NEW st
    PROVE  StandStimmt(Leer, h, k, st)
  BY DEF StandStimmt, Leer, BeimUpdate

\* It disturbs the others as far as it writes.
LEMMA AndereStimmen ==
    ASSUME TypInv, StandInv, NEW a \in Anfrage, NEW t, NEW g, Ordentlich(a, t, g)
    PROVE  StandInv'
  <1>1. SUFFICES ASSUME NEW b \in Anfrage, b # a
                 PROVE  StandStimmt(sitzung'[b], historie', inhaber', status')
    <2>1. sitzung'[a] = t
      BY DEF Ordentlich, Weiter
    <2> QED
      BY <1>1, <2>1 DEF StandInv, Ordentlich
  <1>2. sitzung'[b] = IF sitzung[b].pc = "frei" THEN Leer
                      ELSE [sitzung[b] EXCEPT !.ungestoert = @ /\ ~g]
    BY <1>1 DEF Ordentlich, Weiter
  <1>3. /\ sitzung[b] \in Sitzung /\ sitzung[b].ungestoert \in BOOLEAN
        /\ StandStimmt(sitzung[b], historie, inhaber, status)
    BY DEF TypInv, TypeOK, Sitzung, StandInv
  <1>4. CASE sitzung[b].pc = "frei"
    BY <1>2, <1>4, LeerStimmt
  <1>5. CASE sitzung[b].pc # "frei" /\ g = TRUE
    <2>1. sitzung'[b].ungestoert = (sitzung[b].ungestoert /\ ~g)
      BY <1>2, <1>3, <1>5 DEF Sitzung
    <2> QED
      BY <1>5, <2>1 DEF StandStimmt
  <1>6. CASE sitzung[b].pc # "frei" /\ g = FALSE
    <2>1. sitzung'[b] = [sitzung[b] EXCEPT !.ungestoert = sitzung[b].ungestoert]
      BY <1>2, <1>3, <1>6 DEF Sitzung
    <2>2. sitzung'[b] = sitzung[b]
      BY <1>3, <2>1 DEF Sitzung
    <2>3. historie' = historie /\ inhaber' = inhaber /\ status' = status
      BY <1>6 DEF Ordentlich, tabellen
    <2> QED
      BY <1>3, <2>2, <2>3
  <1> QED
    BY <1>4, <1>5, <1>6 DEF Ordentlich

LEMMA EndenOrdentlich ==
    ASSUME NEW a \in Anfrage, NEW g \in BOOLEAN, Weiter(a, Leer, g),
           g = FALSE => UNCHANGED tabellen
    PROVE  Ordentlich(a, Leer, g)
  BY LeerStimmt DEF Ordentlich

\* A step that leaves the request elsewhere than at an update.
LEMMA SonstOrdentlich ==
    ASSUME NEW a \in Anfrage, NEW s, NEW o, NEW t, NEW g, Folgt(a, s, o, t, g),
           s.pc \notin BeimUpdate, UNCHANGED status
    PROVE  Ordentlich(a, t, g)
  <1>1. t.pc = s.pc
    BY DEF Folgt, SonstGleich
  <1>2. StandStimmt(t, historie', inhaber', status')
    BY <1>1, SonstStimmt
  <1> QED
    BY <1>2 DEF Folgt, Ordentlich, tabellen

\* A step of an update, which is what it should be if session s sees o.
LEMMA FolgtOrdentlich ==
    ASSUME NEW a \in Anfrage, NEW s, NEW o, NEW t, NEW g, Folgt(a, s, o, t, g),
           UNCHANGED status,
           s.ungestoert /\ s.pc \in BeimUpdate =>
               /\ s.alt = status[s.person] /\ s.alt # Ohne
               /\ t.rein = {} /\ t.marken \subseteq DOMAIN historie'
               /\ AuswahlStimmt(s, o, Gesehen(s, inhaber))
               /\ WechselStimmt(s, o)
    PROVE  Ordentlich(a, t, g)
  <1>1. /\ t.pc = s.pc /\ t.person = s.person /\ t.auswahl = s.auswahl
        /\ t.alt = s.alt /\ t.neu = s.neu /\ t.kopie = s.kopie /\ t.vorher = s.vorher
        /\ t.weg = s.weg /\ t.dazu = s.dazu /\ t.ungestoert = s.ungestoert
        /\ Gesehen(t, inhaber') = Gesehen(s, inhaber)
        /\ OffenIn(historie', t.marken) = o
    BY DEF Folgt, SonstGleich
  <1>2. ASSUME s.ungestoert, s.pc \in BeimUpdate
        PROVE  /\ t.alt = status'[t.person] /\ t.alt # Ohne
               /\ t.rein = {} /\ t.marken \subseteq DOMAIN historie'
               /\ AuswahlStimmt(t, o, Gesehen(s, inhaber))
               /\ WechselStimmt(t, o)
    <2>1. /\ s.alt = status[s.person] /\ s.alt # Ohne
          /\ t.rein = {} /\ t.marken \subseteq DOMAIN historie'
          /\ AuswahlStimmt(s, o, Gesehen(s, inhaber))
          /\ WechselStimmt(s, o)
      BY <1>2
    <2>2. /\ Hatte(t) = Hatte(s) /\ Soll(t) = Soll(s) /\ Reihen(t) = Reihen(s)
          /\ NochWeg(t) = NochWeg(s) /\ NochDazu(t) = NochDazu(s)
          /\ \A po : HatZeile(o, t, po) = HatZeile(o, s, po)
      BY <1>1 DEF Hatte, Soll, Reihen, NochWeg, NochDazu, HatZeile
    <2>3. AuswahlStimmt(t, o, Gesehen(s, inhaber))
      BY <1>1, <2>1, <2>2 DEF AuswahlStimmt
    <2>4. WechselStimmt(t, o)
      BY <1>1, <2>1, <2>2 DEF WechselStimmt
    <2> QED
      BY <1>1, <2>1, <2>3, <2>4
  <1>3. StandStimmt(t, historie', inhaber', status')
    BY <1>1, <1>2 DEF StandStimmt
  <1> QED
    BY <1>3 DEF Folgt, Ordentlich, tabellen

\* What holds of the request at hand before its step.
LEMMA StandVonHand ==
    ASSUME TypInv, StandInv, NEW a \in Anfrage
    PROVE  /\ sitzung[a] \in Sitzung /\ Passend(sitzung[a])
           /\ Ressort \cap Amt = {} /\ KeinRessort \notin Posten
           /\ sitzung[a].ungestoert /\ sitzung[a].pc \in BeimUpdate =>
                 /\ sitzung[a].alt = status[sitzung[a].person] /\ sitzung[a].alt # Ohne
                 /\ sitzung[a].rein = {} /\ sitzung[a].marken \subseteq DOMAIN historie
                 /\ AuswahlStimmt(sitzung[a], OffenIn(historie, sitzung[a].marken),
                                  Gesehen(sitzung[a], inhaber))
                 /\ WechselStimmt(sitzung[a], OffenIn(historie, sitzung[a].marken))
                 /\ sitzung[a].person \in Person /\ sitzung[a].neu \in Status
  <1>1. sitzung[a] \in Sitzung /\ Passend(sitzung[a])
    BY SitzungTyp
  <1>2. Ressort \cap Amt = {} /\ KeinRessort \notin Posten
    BY HistorieAssumption DEF Posten
  <1>3. StandStimmt(sitzung[a], historie, inhaber, status)
    BY DEF StandInv
  <1> QED
    BY <1>1, <1>2, <1>3 DEF StandStimmt, BeimUpdate, Passend

\* What an update's session should be after each of its steps, given its fields.
Wie(t, s) ==
    /\ t.person = s.person /\ t.auswahl = s.auswahl /\ t.alt = s.alt /\ t.neu = s.neu
    /\ t.vorher = s.vorher /\ t.rein = {} /\ t.ungestoert = s.ungestoert

LEMMA NachEntfernen ==
    ASSUME NEW s, NEW t, NEW o, NEW k, NEW r \in s.weg, Ressort \cap Amt = {},
           AuswahlStimmt(s, o, Gesehen(s, k)), s.pc = "ressorts", s.rein = {},
           Wie(t, s), t.pc = s.pc, t.weg = s.weg \ {r}, t.dazu = s.dazu,
           t.kopie = s.kopie \ {<<s.person, r>>}, t.raus = s.raus \cup {<<s.person, r>>},
           NEW o2, o2 = {z \in o : ~(z.person = s.person /\ z.posten = r)}
    PROVE  AuswahlStimmt(t, o2, Gesehen(t, k)) /\ WechselStimmt(t, o2)
  <1> DEFINE l == Gesehen(s, k)
             v0 == <<s.person, r>>
  <1>1. /\ Hatte(t) = Hatte(s) /\ Soll(t) = Soll(s)
        /\ NochWeg(s) = s.weg /\ NochWeg(t) = s.weg \ {r}
        /\ NochDazu(s) = s.dazu /\ NochDazu(t) = s.dazu
    BY DEF Wie, Hatte, Soll, NochWeg, NochDazu
  <1>2. Gesehen(t, k) = l \ {v0}
    BY DEF Wie, Gesehen
  <1>3. r \in Hatte(s) /\ r \in Ressort /\ r \notin s.auswahl /\ r \notin Soll(s)
    BY <1>1 DEF AuswahlStimmt, Soll
  <1>4. /\ s.kopie = {v \in l : v[1] = s.person}
        /\ s.weg \subseteq (Hatte(s) \cap Ressort) \ s.auswahl
        /\ s.dazu \subseteq s.auswahl \ Hatte(s)
        /\ PostenIn(l, s.person) = (Soll(s) \ s.dazu) \cup s.weg
        /\ \A z \in o : z.person = s.person
                        /\ z.posten \in (Hatte(s) \cap Ressort) \ s.auswahl => z.posten \in s.weg
        /\ \A x \in s.auswahl \ Hatte(s) : x \in s.dazu \/ HatZeile(o, s, x)
    BY <1>1 DEF AuswahlStimmt
  <1> HIDE DEF l
  <1>5. t.kopie = {v \in l \ {v0} : v[1] = t.person}
    BY <1>4 DEF Wie
  <1>6. PostenIn(l \ {v0}, s.person) = (Soll(s) \ s.dazu) \cup (s.weg \ {r})
    <2>1. PostenIn(l \ {v0}, s.person) = PostenIn(l, s.person) \ {r}
      BY DEF PostenIn
    <2> QED
      BY <1>3, <1>4, <2>1
  <1>7. \A x \in s.auswahl \ Hatte(s) : x \in s.dazu \/ HatZeile(o2, t, x)
    BY <1>3, <1>4 DEF HatZeile, Wie
  <1>8. \A z \in o2 : z.person = s.person
                      /\ z.posten \in (Hatte(s) \cap Ressort) \ s.auswahl => z.posten \in s.weg \ {r}
    BY <1>4
  <1> HIDE DEF v0
  <1>9. t.person = s.person /\ t.auswahl = s.auswahl
    BY DEF Wie
  <1>10. AuswahlStimmt(t, o2, l \ {v0})
    BY <1>1, <1>4, <1>5, <1>6, <1>7, <1>8, <1>9 DEF AuswahlStimmt
  <1>11. WechselStimmt(t, o2)
    BY DEF WechselStimmt
  <1> QED
    BY <1>2, <1>10, <1>11

LEMMA NachHinzufuegen ==
    ASSUME NEW s, NEW t, NEW o, NEW k, NEW r \in s.dazu, Ressort \cap Amt = {}, r \in Posten,
           AuswahlStimmt(s, o, Gesehen(s, k)), s.pc = "ressorts", s.rein = {}, s.weg = {},
           t.person = s.person, t.auswahl = s.auswahl, t.neu = s.neu, t.vorher = s.vorher,
           t.pc = s.pc, t.weg = s.weg, t.dazu = s.dazu \ {r}, t.rein = {<<s.person, r>>},
           t.kopie = s.kopie \cup {<<s.person, r>>}, t.raus = s.raus,
           NEW z0, z0.person = s.person, z0.posten = r, z0.status = s.neu
    PROVE  AuswahlStimmt(t, o \cup {z0}, Gesehen(t, k)) /\ WechselStimmt(t, o \cup {z0})
  <1> DEFINE o2 == o \cup {z0}
             l == Gesehen(s, k)
             v0 == <<s.person, r>>
  <1>1. /\ Hatte(t) = Hatte(s) /\ Soll(t) = Soll(s)
        /\ NochWeg(s) = {} /\ NochWeg(t) = {}
        /\ NochDazu(s) = s.dazu /\ NochDazu(t) = s.dazu \ {r}
    BY DEF Hatte, Soll, NochWeg, NochDazu
  <1>2. Gesehen(t, k) = l \cup {v0}
    BY DEF Gesehen
  <1>4. /\ s.kopie = {v \in l : v[1] = s.person}
        /\ s.dazu \subseteq s.auswahl \ Hatte(s)
        /\ PostenIn(l, s.person) = Soll(s) \ s.dazu
        /\ \A z \in o : z.person = s.person
                        /\ z.posten \in (Hatte(s) \cap Ressort) \ s.auswahl => z.posten \in {}
        /\ \A x \in s.auswahl \ Hatte(s) : x \in s.dazu \/ HatZeile(o, s, x)
    BY <1>1 DEF AuswahlStimmt
  <1>3. r \notin Hatte(s) /\ r \in s.auswahl /\ r \in Soll(s)
    BY <1>4 DEF Soll
  <1> HIDE DEF l
  <1>5. t.kopie = {v \in l \cup {v0} : v[1] = t.person}
    BY <1>4
  <1>6. PostenIn(l \cup {v0}, s.person) = Soll(s) \ (s.dazu \ {r})
    <2>1. PostenIn(l \cup {v0}, s.person) = PostenIn(l, s.person) \cup {r}
      BY DEF PostenIn
    <2> QED
      BY <1>3, <1>4, <2>1
  <1>7. \A x \in s.auswahl \ Hatte(s) : x \in s.dazu \ {r} \/ HatZeile(o2, t, x)
    BY <1>3, <1>4 DEF HatZeile
  <1>8. \A z \in o2 : z.person = s.person
                      /\ z.posten \in (Hatte(s) \cap Ressort) \ s.auswahl => z.posten \in {}
    BY <1>3, <1>4
  <1> HIDE DEF v0, o2
  <1>10. AuswahlStimmt(t, o2, l \cup {v0})
    BY <1>1, <1>4, <1>5, <1>6, <1>7, <1>8 DEF AuswahlStimmt
  <1>11. WechselStimmt(t, o2)
    BY DEF WechselStimmt
  <1> QED
    BY <1>2, <1>10, <1>11 DEF o2

\* The Ressorts are done: the session sees the posts the person should have.
LEMMA RessortsFertig ==
    ASSUME NEW s, NEW o, NEW k, AuswahlStimmt(s, o, Gesehen(s, k)),
           NochWeg(s) = {}, NochDazu(s) = {}
    PROVE  PostenIn(s.kopie, s.person) = Soll(s)
  <1>1. s.kopie = {v \in Gesehen(s, k) : v[1] = s.person}
        /\ PostenIn(Gesehen(s, k), s.person) = Soll(s)
    BY DEF AuswahlStimmt
  <1>2. \A po : <<s.person, po>>[1] = s.person
    OBVIOUS
  <1>3. PostenIn(s.kopie, s.person) = PostenIn(Gesehen(s, k), s.person)
    BY <1>1, <1>2 DEF PostenIn
  <1> QED
    BY <1>1, <1>3

\* On to the next part of the update, with the Ressorts as they are.
LEMMA AuswahlBleibt ==
    ASSUME NEW s, NEW t, NEW o, NEW o2, NEW k, AuswahlStimmt(s, o, Gesehen(s, k)),
           NochWeg(s) = {}, NochDazu(s) = {}, NochWeg(t) = {}, NochDazu(t) = {},
           t.person = s.person, t.auswahl = s.auswahl, t.neu = s.neu, t.vorher = s.vorher,
           t.rein = s.rein, t.raus = s.raus, t.kopie = s.kopie,
           \A z \in o2 : z \in o \/ z.posten \in Soll(s) \cup {KeinRessort},
           \A z \in o : z.status = s.neu => z \in o2,
           KeinRessort \notin Posten, Ressort \cap Amt = {}
    PROVE  AuswahlStimmt(t, o2, Gesehen(t, k))
  <1> DEFINE l == Gesehen(s, k)
  <1>1. Gesehen(t, k) = l /\ Hatte(t) = Hatte(s) /\ Soll(t) = Soll(s)
    BY DEF Gesehen, Hatte, Soll
  <1>2. /\ s.kopie = {v \in l : v[1] = s.person}
        /\ PostenIn(l, s.person) = Soll(s)
        /\ \A z \in o : ~(z.person = s.person
                          /\ z.posten \in (Hatte(s) \cap Ressort) \ s.auswahl)
        /\ \A x \in s.auswahl \ Hatte(s) : HatZeile(o, s, x)
    BY DEF AuswahlStimmt
  <1> HIDE DEF l
  <1>3. \A z \in o2 : ~(z.person = s.person
                        /\ z.posten \in (Hatte(s) \cap Ressort) \ s.auswahl)
    BY <1>2 DEF Soll, Posten
  <1>4. \A x \in s.auswahl \ Hatte(s) : HatZeile(o2, t, x)
    BY <1>2 DEF HatZeile
  <1> QED
    BY <1>1, <1>2, <1>3, <1>4 DEF AuswahlStimmt

LEMMA BeginnenStand ==
    ASSUME TypInv, StandInv, NEW a \in Anfrage, NEW p \in Person,
           NEW auswahl \in SUBSET Ressort, NEW neu \in Status, UpdateBeginnen(a, p, auswahl, neu)
    PROVE  \E t, g : Ordentlich(a, t, g)
  <1> DEFINE kopie == {v \in inhaber : v[1] = p}
             rs == PostenIn(kopie, p) \cap Ressort
             t == [Leer EXCEPT !.pc = "ressorts", !.person = p, !.auswahl = auswahl,
                               !.alt = status[p], !.neu = neu, !.kopie = kopie,
                               !.vorher = kopie, !.weg = rs \ auswahl,
                               !.dazu = auswahl \ rs]
  <1>1. Weiter(a, t, FALSE) /\ UNCHANGED tabellen /\ status[p] # Ohne
    BY DEF UpdateBeginnen
  <1>2. Ressort \cap Amt = {}
    BY HistorieAssumption
  <1>3. PostenIn(kopie, p) = PostenIn(inhaber, p)
    <2>1. \A po : <<p, po>>[1] = p
      OBVIOUS
    <2> QED
      BY <2>1 DEF PostenIn
  <1> HIDE DEF kopie, rs
  <1>4. /\ t.pc = "ressorts" /\ t.person = p /\ t.auswahl = auswahl /\ t.alt = status[p]
        /\ t.neu = neu /\ t.kopie = kopie /\ t.vorher = kopie /\ t.weg = rs \ auswahl
        /\ t.dazu = auswahl \ rs /\ t.raus = {} /\ t.rein = {} /\ t.marken = {}
    BY DEF Leer
  <1> HIDE DEF t
  <1>5. Gesehen(t, inhaber) = inhaber
    BY <1>4 DEF Gesehen
  <1>6. /\ Hatte(t) = PostenIn(inhaber, p) /\ rs = Hatte(t) \cap Ressort
        /\ Hatte(t) \subseteq Ressort \cup Amt
        /\ Soll(t) = (Hatte(t) \cap Amt) \cup auswahl
        /\ NochWeg(t) = rs \ auswahl /\ NochDazu(t) = auswahl \ rs
    BY <1>3, <1>4 DEF Hatte, rs, Soll, NochWeg, NochDazu, PostenIn, Posten
  <1>7. AuswahlStimmt(t, OffenIn(historie, {}), inhaber)
    <2>1. t.kopie = {v \in inhaber : v[1] = p}
      BY <1>4 DEF kopie
    <2>2. PostenIn(inhaber, t.person) = (Soll(t) \ NochDazu(t)) \cup NochWeg(t)
      BY <1>2, <1>4, <1>6
    <2>3. /\ NochWeg(t) \subseteq (Hatte(t) \cap Ressort) \ t.auswahl
          /\ NochDazu(t) \subseteq t.auswahl \ Hatte(t)
          /\ (Hatte(t) \cap Ressort) \ t.auswahl \subseteq NochWeg(t)
          /\ t.auswahl \ Hatte(t) \subseteq NochDazu(t)
      BY <1>4, <1>6
    <2> QED
      BY <1>4, <2>1, <2>2, <2>3 DEF AuswahlStimmt
  <1>8. WechselStimmt(t, OffenIn(historie, {}))
    BY <1>4 DEF WechselStimmt
  <1>9. historie' = historie /\ inhaber' = inhaber /\ status' = status
    BY <1>1 DEF tabellen
  <1>10. StandStimmt(t, historie', inhaber', status')
    BY <1>1, <1>4, <1>5, <1>7, <1>8, <1>9 DEF StandStimmt
  <1> QED
    BY <1>1, <1>10 DEF Ordentlich

LEMMA EntfernenStand ==
    ASSUME TypInv, StandInv, NEW a \in Anfrage, RessortEntfernen(a)
    PROVE  \E t, g : Ordentlich(a, t, g)
  <1> DEFINE s0 == sitzung[a]
             n(r) == [s0 EXCEPT !.weg = @ \ {r}, !.kopie = @ \ {<<s0.person, r>>},
                                !.raus = @ \cup {<<s0.person, r>>}]
  <1>1. PICK r \in s0.weg : HistoryEnde(a, n(r), ZeilenFuerPosten(s0.person, r))
    BY DEF RessortEntfernen
  <1>2. s0.pc = "ressorts" /\ UNCHANGED status
    BY DEF RessortEntfernen
  <1>3. /\ s0 \in Sitzung /\ Passend(s0) /\ Ressort \cap Amt = {}
        /\ s0.ungestoert =>
              /\ s0.alt = status[s0.person] /\ s0.alt # Ohne /\ s0.rein = {}
              /\ AuswahlStimmt(s0, OffenIn(historie, s0.marken), Gesehen(s0, inhaber))
    BY <1>2, StandVonHand DEF BeimUpdate
  <1> DEFINE s == n(r)
             o == OffenIn(historie, s.marken)
             o2 == {z \in o : ~(z.person = s0.person /\ z.posten = r)}
  <1> HIDE DEF s0
  <1>4. <<s0.person, r>> \in Verknuepfung
    BY <1>1, <1>2, <1>3 DEF Passend, Verknuepfung, Posten
  <1>5. s \in Sitzung
    BY <1>3, <1>4 DEF Sitzung
  <1>6. /\ s.pc = s0.pc /\ s.person = s0.person /\ s.auswahl = s0.auswahl
        /\ s.alt = s0.alt /\ s.neu = s0.neu /\ s.vorher = s0.vorher
        /\ s.weg = s0.weg \ {r} /\ s.dazu = s0.dazu /\ s.ungestoert = s0.ungestoert
        /\ s.kopie = s0.kopie \ {<<s0.person, r>>} /\ s.raus = s0.raus \cup {<<s0.person, r>>}
        /\ s.rein = s0.rein /\ s.marken = s0.marken
    BY <1>3 DEF Sitzung
  <1>7. HistoryEnde(a, s, ZeilenFuerPosten(s0.person, r))
    BY <1>1
  <1> HIDE DEF s
  <1>8. PICK t, g : Folgt(a, s, o2, t, g) /\ t.marken \subseteq DOMAIN historie'
    <2>1. \E t, g : Folgt(a, s, o2, t, g) /\ t.marken \subseteq DOMAIN historie'
      BY <1>5, <1>7, EndePostenFolgt
    <2> QED
      BY <2>1
  <1>9. ASSUME s.ungestoert
        PROVE  /\ s.alt = status[s.person] /\ s.alt # Ohne /\ t.rein = {}
               /\ AuswahlStimmt(s, o2, Gesehen(s, inhaber)) /\ WechselStimmt(s, o2)
    <2>1. AuswahlStimmt(s0, o, Gesehen(s0, inhaber)) /\ s0.rein = {}
      BY <1>3, <1>6, <1>9
    <2>2. Wie(s, s0)
      BY <1>6, <2>1 DEF Wie
    <2>5. o2 = {z \in o : ~(z.person = s0.person /\ z.posten = r)}
      OBVIOUS
    <2> HIDE DEF o, o2
    <2>3. AuswahlStimmt(s, o2, Gesehen(s, inhaber)) /\ WechselStimmt(s, o2)
      BY <1>1, <1>2, <1>3, <1>6, <2>1, <2>2, <2>5, NachEntfernen
    <2>4. t.rein = {}
      BY <1>6, <1>8, <2>1 DEF Folgt
    <2> QED
      BY <1>3, <1>6, <1>9, <2>3, <2>4
  <1> HIDE DEF o2
  <1>10. Folgt(a, s, o2, t, g) /\ g \in BOOLEAN
    BY <1>8 DEF Folgt
  <1>11. Ordentlich(a, t, g)
    BY <1>2, <1>8, <1>9, <1>10, FolgtOrdentlich
  <1> QED
    BY <1>11

LEMMA HinzufuegenStand ==
    ASSUME TypInv, StandInv, NEW a \in Anfrage, RessortHinzufuegen(a)
    PROVE  \E t, g : Ordentlich(a, t, g)
  <1> DEFINE s0 == sitzung[a]
             n(r) == [s0 EXCEPT !.dazu = @ \ {r}, !.kopie = @ \cup {<<s0.person, r>>},
                                !.rein = @ \cup {<<s0.person, r>>}]
  <1>1. PICK r \in s0.dazu : \/ Spuelen(a, n(r), ZeileZumRessort(n(r), r))
                             \/ DoppeltVerknuepft(a, n(r), ZeileZumRessort(n(r), r))
    BY DEF RessortHinzufuegen
  <1>2. s0.pc = "ressorts" /\ s0.weg = {} /\ UNCHANGED status
    BY DEF RessortHinzufuegen
  <1>3. /\ s0 \in Sitzung /\ Passend(s0) /\ Ressort \cap Amt = {} /\ s0.person \in Person
        /\ s0.neu \in Status
        /\ s0.ungestoert =>
              /\ s0.alt = status[s0.person] /\ s0.alt # Ohne /\ s0.rein = {}
              /\ AuswahlStimmt(s0, OffenIn(historie, s0.marken), Gesehen(s0, inhaber))
    BY <1>2, StandVonHand DEF BeimUpdate, Passend
  <1> DEFINE s == n(r)
             z0 == [person |-> s0.person, posten |-> r, status |-> s0.neu, offen |-> TRUE]
             o == OffenIn(historie, s.marken)
  <1> HIDE DEF s0
  <1>4. <<s0.person, r>> \in Verknuepfung /\ r \in Posten
    BY <1>1, <1>2, <1>3 DEF Passend, Verknuepfung, Posten
  <1>5. s \in Sitzung
    BY <1>3, <1>4 DEF Sitzung
  <1>6. /\ s.pc = s0.pc /\ s.person = s0.person /\ s.auswahl = s0.auswahl
        /\ s.alt = s0.alt /\ s.neu = s0.neu /\ s.vorher = s0.vorher
        /\ s.weg = s0.weg /\ s.dazu = s0.dazu \ {r} /\ s.ungestoert = s0.ungestoert
        /\ s.kopie = s0.kopie \cup {<<s0.person, r>>} /\ s.raus = s0.raus
        /\ s.rein = s0.rein \cup {<<s0.person, r>>} /\ s.marken = s0.marken
    BY <1>3 DEF Sitzung
  <1> DEFINE neu == ZeileZumRessort(s, r)
  <1>7. Spuelen(a, s, neu) \/ DoppeltVerknuepft(a, s, neu)
    BY <1>1
  <1> HIDE DEF s
  <1>8. neu \in Seq(Zeile) /\ OffenIn(neu, {}) = {z0}
    <2>1. neu = NeueZeile(s0.person, r, s0.neu)
      BY <1>6 DEF ZeileZumRessort
    <2>2. Ohne \notin {r, s0.neu}
      BY <1>3, <1>4, HistorieAssumption DEF Posten
    <2> QED
      BY <1>3, <1>4, <2>1, <2>2, NeueZeileTyp, OffenNeu
  <1>9. z0.person = s0.person /\ z0.posten = r /\ z0.status = s0.neu
    OBVIOUS
  <1> HIDE DEF neu, z0
  <1>10. CASE Spuelen(a, s, neu)
    <2> DEFINE o2 == o \cup {z0}
               t == Gespuelt(s)
    <2>1. Folgt(a, s, o2, t, TRUE) /\ t.rein = {} /\ t.marken = {}
      BY <1>5, <1>8, <1>10, SpuelenFolgt
    <2>2. ASSUME s.ungestoert
          PROVE  /\ s.alt = status[s.person] /\ s.alt # Ohne
                 /\ AuswahlStimmt(s, o2, Gesehen(s, inhaber)) /\ WechselStimmt(s, o2)
      <3>1. AuswahlStimmt(s0, o, Gesehen(s0, inhaber)) /\ s0.rein = {}
        BY <1>3, <1>6, <2>2
      <3> HIDE DEF o
      <3>2. s.rein = {<<s0.person, r>>}
        BY <1>6, <3>1
      <3>3. AuswahlStimmt(s, o2, Gesehen(s, inhaber)) /\ WechselStimmt(s, o2)
        BY <1>1, <1>2, <1>3, <1>4, <1>6, <1>9, <3>1, <3>2, NachHinzufuegen
      <3> QED
        BY <1>3, <1>6, <2>2, <3>3
    <2> HIDE DEF o2, t
    <2>3. Ordentlich(a, t, TRUE)
      BY <1>2, <2>1, <2>2, FolgtOrdentlich
    <2> QED
      BY <2>3
  <1>11. CASE DoppeltVerknuepft(a, s, neu)
    <2>1. Weiter(a, Leer, TRUE)
      BY <1>11 DEF DoppeltVerknuepft
    <2>2. Ordentlich(a, Leer, TRUE)
      BY <2>1, EndenOrdentlich
    <2> QED
      BY <2>2
  <1> QED
    BY <1>7, <1>10, <1>11

LEMMA VergleichenStand ==
    ASSUME TypInv, StandInv, NEW a \in Anfrage, StatusVergleichen(a)
    PROVE  \E t, g : Ordentlich(a, t, g)
  <1> DEFINE s0 == sitzung[a]
             posten == PostenIn(s0.kopie, s0.person)
             d == IF posten = {} THEN {KeinRessort} ELSE posten
             s1 == [s0 EXCEPT !.pc = "kontakt"]
             s2 == [s0 EXCEPT !.pc = "historie", !.dazu = d]
             o == OffenIn(historie, s0.marken)
  <1>1. /\ s0.pc = "ressorts" /\ s0.weg = {} /\ s0.dazu = {} /\ UNCHANGED status
        /\ \/ /\ s0.alt = s0.neu
              /\ Weiter(a, s1, FALSE) /\ UNCHANGED <<inhaber, historie>>
           \/ /\ s0.alt # s0.neu
              /\ HistoryEnde(a, s2, ZeilenFuerStatus(s0.person, s0.alt))
    BY DEF StatusVergleichen, ZeilenDesAltenStatus
  <1>2. /\ s0 \in Sitzung /\ Ressort \cap Amt = {} /\ KeinRessort \notin Posten
        /\ s0.ungestoert =>
              /\ s0.alt = status[s0.person] /\ s0.alt # Ohne /\ s0.rein = {}
              /\ s0.marken \subseteq DOMAIN historie
              /\ AuswahlStimmt(s0, o, Gesehen(s0, inhaber))
    BY <1>1, StandVonHand DEF BeimUpdate
  <1>3. d \subseteq Posten \cup {KeinRessort}
    BY DEF PostenIn
  <1>4. s0.ungestoert => d = Reihen(s0)
    <2>1. NochWeg(s0) = {} /\ NochDazu(s0) = {}
      BY <1>1 DEF NochWeg, NochDazu
    <2>2. s0.ungestoert => posten = Soll(s0)
      BY <1>2, <2>1, RessortsFertig
    <2> QED
      BY <2>2 DEF Reihen
  <1> HIDE DEF s0, d, o
  <1>5. CASE s0.alt = s0.neu
    <2>1. Weiter(a, s1, FALSE) /\ UNCHANGED <<inhaber, historie>>
      BY <1>1, <1>5
    <2>2. /\ s1.pc = "kontakt" /\ s1.person = s0.person /\ s1.auswahl = s0.auswahl
          /\ s1.alt = s0.alt /\ s1.neu = s0.neu /\ s1.vorher = s0.vorher
          /\ s1.kopie = s0.kopie /\ s1.raus = s0.raus /\ s1.rein = s0.rein
          /\ s1.marken = s0.marken /\ s1.ungestoert = s0.ungestoert
      BY <1>2 DEF Sitzung
    <2> HIDE DEF s1
    <2>3. Folgt(a, s1, o, s1, FALSE)
      BY <2>1, <2>2, ImSpeicherFolgt DEF o
    <2>4. ASSUME s1.ungestoert
          PROVE  AuswahlStimmt(s1, o, Gesehen(s1, inhaber)) /\ WechselStimmt(s1, o)
      <3>1. /\ NochWeg(s0) = {} /\ NochDazu(s0) = {} /\ NochWeg(s1) = {} /\ NochDazu(s1) = {}
        BY <1>1, <2>2 DEF NochWeg, NochDazu
      <3>2. AuswahlStimmt(s0, o, Gesehen(s0, inhaber))
        BY <1>2, <2>2, <2>4
      <3>3. AuswahlStimmt(s1, o, Gesehen(s1, inhaber))
        BY <1>2, <2>2, <3>1, <3>2, AuswahlBleibt
      <3>4. WechselStimmt(s1, o)
        BY <1>5, <2>2 DEF WechselStimmt
      <3> QED
        BY <3>3, <3>4
    <2>5. s1.ungestoert => /\ s1.alt = status[s1.person] /\ s1.alt # Ohne
                           /\ s1.rein = {} /\ s1.marken \subseteq DOMAIN historie'
      BY <1>2, <2>1, <2>2
    <2>6. Ordentlich(a, s1, FALSE)
      BY <1>1, <2>3, <2>4, <2>5, FolgtOrdentlich
    <2> QED
      BY <2>6
  <1>6. CASE s0.alt # s0.neu
    <2> DEFINE o2 == {z \in o : ~(z.person = s0.person /\ z.status = s0.alt)}
    <2>1. HistoryEnde(a, s2, ZeilenFuerStatus(s0.person, s0.alt))
      BY <1>1, <1>6
    <2>2. /\ s2 \in Sitzung
          /\ s2.pc = "historie" /\ s2.person = s0.person /\ s2.auswahl = s0.auswahl
          /\ s2.alt = s0.alt /\ s2.neu = s0.neu /\ s2.vorher = s0.vorher
          /\ s2.kopie = s0.kopie /\ s2.raus = s0.raus /\ s2.rein = s0.rein
          /\ s2.marken = s0.marken /\ s2.ungestoert = s0.ungestoert /\ s2.dazu = d
      BY <1>2, <1>3 DEF Sitzung
    <2> HIDE DEF s2
    <2>3. PICK t, g : Folgt(a, s2, o2, t, g) /\ t.marken \subseteq DOMAIN historie'
      <3>1. \E t, g : Folgt(a, s2, {z \in OffenIn(historie, s2.marken) :
                                       ~(z.person = s0.person /\ z.status = s0.alt)}, t, g)
                      /\ t.marken \subseteq DOMAIN historie'
        BY <2>1, <2>2, EndeStatusFolgt
      <3> QED
        BY <2>2, <3>1 DEF o
    <2>4. ASSUME s2.ungestoert
          PROVE  AuswahlStimmt(s2, o2, Gesehen(s2, inhaber)) /\ WechselStimmt(s2, o2)
      <3>1. NochWeg(s0) = {} /\ NochDazu(s0) = {} /\ NochWeg(s2) = {} /\ NochDazu(s2) = {}
        BY <1>1, <2>2 DEF NochWeg, NochDazu
      <3>2. AuswahlStimmt(s0, o, Gesehen(s0, inhaber))
        BY <1>2, <2>2, <2>4
      <3>3. /\ \A z \in o2 : z \in o
            /\ \A z \in o : z.status = s0.neu => z \in o2
            /\ \A z \in o2 : z.person = s0.person => z.status # s0.alt
        BY <1>6
      <3> HIDE DEF o2
      <3>4. AuswahlStimmt(s2, o2, Gesehen(s2, inhaber))
        BY <1>2, <2>2, <3>1, <3>2, <3>3, AuswahlBleibt
      <3>5. s2.dazu = Reihen(s2)
        BY <1>4, <2>2, <2>4 DEF Reihen, Soll, Hatte
      <3>6. WechselStimmt(s2, o2)
        BY <1>6, <2>2, <3>3, <3>5 DEF WechselStimmt
      <3> QED
        BY <3>4, <3>6
    <2> HIDE DEF o2
    <2>5. s2.ungestoert => /\ s2.alt = status[s2.person] /\ s2.alt # Ohne /\ t.rein = {}
      BY <1>2, <2>2, <2>3 DEF Folgt
    <2>6. g \in BOOLEAN
      BY <2>3 DEF Folgt
    <2>7. Ordentlich(a, t, g)
      BY <1>1, <2>3, <2>4, <2>5, <2>6, FolgtOrdentlich
    <2> QED
      BY <2>7
  <1> QED
    BY <1>5, <1>6

LEMMA FuerPostenStand ==
    ASSUME TypInv, StandInv, NEW a \in Anfrage, HistorieFuerPosten(a)
    PROVE  \E t, g : Ordentlich(a, t, g)
  <1> DEFINE s0 == sitzung[a]
             n(rest) == [s0 EXCEPT !.dazu = rest,
                                   !.pc = IF rest = {} THEN "kontakt" ELSE @]
             o == OffenIn(historie, s0.marken)
  <1>1. s0.pc = "historie" /\ UNCHANGED status
    BY DEF HistorieFuerPosten
  <1>2. PICK po \in s0.dazu :
           Spuelen(a, n(s0.dazu \ {po}), NeueZeile(n(s0.dazu \ {po}).person, po, n(s0.dazu \ {po}).neu))
    BY DEF HistorieFuerPosten
  <1>3. /\ s0 \in Sitzung /\ Ressort \cap Amt = {} /\ KeinRessort \notin Posten
        /\ s0.person \in Person /\ s0.neu \in Status
        /\ s0.ungestoert =>
              /\ s0.alt = status[s0.person] /\ s0.alt # Ohne /\ s0.rein = {}
              /\ AuswahlStimmt(s0, o, Gesehen(s0, inhaber)) /\ WechselStimmt(s0, o)
    BY <1>1, StandVonHand DEF BeimUpdate, Passend
  <1> HIDE DEF s0, o
  <1> DEFINE rest == s0.dazu \ {po}
             s == n(rest)
             z0 == [person |-> s0.person, posten |-> po, status |-> s0.neu, offen |-> TRUE]
             neu == NeueZeile(s0.person, po, s0.neu)
  <1>4. /\ s \in Sitzung /\ s.pc = (IF rest = {} THEN "kontakt" ELSE "historie")
        /\ s.person = s0.person /\ s.auswahl = s0.auswahl
        /\ s.alt = s0.alt /\ s.neu = s0.neu /\ s.vorher = s0.vorher
        /\ s.kopie = s0.kopie /\ s.raus = s0.raus /\ s.rein = s0.rein
        /\ s.marken = s0.marken /\ s.ungestoert = s0.ungestoert /\ s.dazu = rest
    BY <1>1, <1>3 DEF Sitzung
  <1>5. po \in Posten \cup {KeinRessort}
    BY <1>2, <1>3 DEF Sitzung
  <1>6. Spuelen(a, s, neu)
    BY <1>2, <1>4
  <1> HIDE DEF s
  <1>7. neu \in Seq(Zeile) /\ OffenIn(neu, {}) = {z0}
    <2>1. Ohne \notin {po, s0.neu}
      BY <1>3, <1>5, HistorieAssumption DEF Posten
    <2> QED
      BY <1>3, <1>5, <2>1, NeueZeileTyp, OffenNeu
  <1>8. z0.person = s0.person /\ z0.posten = po /\ z0.status = s0.neu
    OBVIOUS
  <1> HIDE DEF neu, z0
  <1> DEFINE o2 == o \cup {z0}
             t == Gespuelt(s)
  <1>9. Folgt(a, s, o2, t, TRUE) /\ t.rein = {} /\ t.marken = {}
    <2>1. Folgt(a, s, OffenIn(historie, s.marken) \cup OffenIn(neu, {}), Gespuelt(s), TRUE)
          /\ Gespuelt(s).rein = {} /\ Gespuelt(s).marken = {}
      BY <1>4, <1>6, <1>7, SpuelenFolgt
    <2> QED
      BY <1>4, <1>7, <2>1 DEF o
  <1> HIDE DEF t
  <1>10. ASSUME s.ungestoert
         PROVE  AuswahlStimmt(s, o2, Gesehen(s, inhaber)) /\ WechselStimmt(s, o2)
    <2>1. NochWeg(s0) = {} /\ NochDazu(s0) = {} /\ NochWeg(s) = {} /\ NochDazu(s) = {}
      BY <1>1, <1>4 DEF NochWeg, NochDazu
    <2>2. AuswahlStimmt(s0, o, Gesehen(s0, inhaber)) /\ WechselStimmt(s0, o)
      BY <1>3, <1>4, <1>10
    <2>3. /\ s0.alt # s0.neu /\ s0.dazu \subseteq Reihen(s0)
          /\ \A z \in o : z.person = s0.person => z.status # s0.alt
          /\ \A x \in Reihen(s0) : x \in s0.dazu \/ HatZeile(o, s0, x)
      BY <1>1, <2>2 DEF WechselStimmt
    <2>4. po \in Soll(s0) \cup {KeinRessort}
      BY <1>2, <2>3 DEF Reihen
    <2>5. AuswahlStimmt(s, o2, Gesehen(s, inhaber))
      <3>1. /\ \A z \in o2 : z \in o \/ z.posten \in Soll(s0) \cup {KeinRessort}
            /\ \A z \in o : z.status = s0.neu => z \in o2
        BY <1>8, <2>4
      <3> HIDE DEF o2
      <3> QED
        BY <1>3, <1>4, <2>1, <2>2, <3>1, AuswahlBleibt
    <2>6. Reihen(s) = Reihen(s0)
      BY <1>4 DEF Reihen, Soll, Hatte
    <2>7. \A x \in Reihen(s) : x \in rest \/ HatZeile(o2, s, x)
      BY <1>4, <1>8, <2>3, <2>6 DEF HatZeile
    <2>8. \A z \in o2 : z.person = s0.person => z.status # s0.alt
      BY <1>8, <2>3
    <2> HIDE DEF o2
    <2>9. WechselStimmt(s, o2)
      BY <1>4, <2>3, <2>6, <2>7, <2>8 DEF WechselStimmt
    <2> QED
      BY <2>5, <2>9
  <1> HIDE DEF o2
  <1>11. s.ungestoert => s.alt = status[s.person] /\ s.alt # Ohne
    BY <1>3, <1>4
  <1>12. Ordentlich(a, t, TRUE)
    BY <1>1, <1>9, <1>10, <1>11, FolgtOrdentlich
  <1> QED
    BY <1>12

LEMMA KontaktdatenStand ==
    ASSUME TypInv, StandInv, NEW a \in Anfrage, KontaktdatenSpeichern(a)
    PROVE  \E t, g : Ordentlich(a, t, g)
  <1> DEFINE s0 == sitzung[a]
             s == [s0 EXCEPT !.pc = "speichern"]
             o == OffenIn(historie, s0.marken)
  <1>1. /\ s0.pc = "kontakt" /\ UNCHANGED status
        /\ Spuelen(a, s, <<>>) \/ (Weiter(a, s, FALSE) /\ UNCHANGED <<inhaber, historie>>)
    BY DEF KontaktdatenSpeichern
  <1>2. /\ s0 \in Sitzung /\ Ressort \cap Amt = {} /\ KeinRessort \notin Posten
        /\ s0.ungestoert =>
              /\ s0.alt = status[s0.person] /\ s0.alt # Ohne /\ s0.rein = {}
              /\ s0.marken \subseteq DOMAIN historie
              /\ AuswahlStimmt(s0, o, Gesehen(s0, inhaber)) /\ WechselStimmt(s0, o)
    BY <1>1, StandVonHand DEF BeimUpdate
  <1> HIDE DEF s0, o
  <1>3. /\ s \in Sitzung /\ s.pc = "speichern" /\ s.person = s0.person
        /\ s.auswahl = s0.auswahl /\ s.alt = s0.alt /\ s.neu = s0.neu
        /\ s.vorher = s0.vorher /\ s.kopie = s0.kopie /\ s.raus = s0.raus
        /\ s.rein = s0.rein /\ s.marken = s0.marken /\ s.ungestoert = s0.ungestoert
    BY <1>2 DEF Sitzung
  <1> HIDE DEF s
  <1>4. ASSUME s.ungestoert
        PROVE  AuswahlStimmt(s, o, Gesehen(s, inhaber)) /\ WechselStimmt(s, o)
    <2>1. NochWeg(s0) = {} /\ NochDazu(s0) = {} /\ NochWeg(s) = {} /\ NochDazu(s) = {}
      BY <1>1, <1>3 DEF NochWeg, NochDazu
    <2>2. AuswahlStimmt(s0, o, Gesehen(s0, inhaber)) /\ WechselStimmt(s0, o)
      BY <1>2, <1>3, <1>4
    <2>3. AuswahlStimmt(s, o, Gesehen(s, inhaber))
      BY <1>2, <1>3, <2>1, <2>2, AuswahlBleibt
    <2>4. /\ Reihen(s) = Reihen(s0)
          /\ \A x : HatZeile(o, s, x) = HatZeile(o, s0, x)
      BY <1>3 DEF Reihen, Soll, Hatte, HatZeile
    <2>5. WechselStimmt(s, o)
      BY <1>1, <1>3, <2>2, <2>4 DEF WechselStimmt
    <2> QED
      BY <2>3, <2>5
  <1>5. s.ungestoert => s.alt = status[s.person] /\ s.alt # Ohne /\ s.rein = {}
                        /\ s.marken \subseteq DOMAIN historie
    BY <1>2, <1>3
  <1>6. CASE Spuelen(a, s, <<>>)
    <2> DEFINE t == Gespuelt(s)
    <2>1. <<>> \in Seq(Zeile)
      OBVIOUS
    <2>2. Folgt(a, s, OffenIn(historie, s.marken) \cup OffenIn(<<>>, {}), t, TRUE)
          /\ t.rein = {} /\ t.marken = {}
      BY <1>3, <1>6, <2>1, SpuelenFolgt
    <2> HIDE DEF t
    <2>3. Folgt(a, s, o, t, TRUE)
      BY <1>3, <2>2, OffenLeer DEF o
    <2>4. Ordentlich(a, t, TRUE)
      BY <1>1, <1>4, <1>5, <2>2, <2>3, FolgtOrdentlich
    <2> QED
      BY <2>4
  <1>7. CASE Weiter(a, s, FALSE) /\ UNCHANGED <<inhaber, historie>>
    <2>1. Folgt(a, s, o, s, FALSE)
      BY <1>3, <1>7, ImSpeicherFolgt DEF o
    <2>2. DOMAIN historie' = DOMAIN historie
      BY <1>7
    <2>3. Ordentlich(a, s, FALSE)
      BY <1>1, <1>4, <1>5, <2>1, <2>2, FolgtOrdentlich
    <2> QED
      BY <2>3
  <1> QED
    BY <1>1, <1>6, <1>7

\* A request that ends with a flush, or goes on elsewhere than at an update.
LEMMA FrischOrdentlich ==
    ASSUME TypInv, NEW a \in Anfrage, NEW s \in Sitzung, s.pc \notin BeimUpdate, NEW neu,
           Spuelen(a, s, neu) \/ DoppeltVerknuepft(a, s, neu)
    PROVE  \E t, g : Ordentlich(a, t, g)
  <1>1. CASE Spuelen(a, s, neu)
    <2> DEFINE t == Gespuelt(s)
    <2>1. t.pc = s.pc
      BY DEF Gespuelt, Sitzung
    <2>2. Weiter(a, t, TRUE)
      BY <1>1 DEF Spuelen
    <2> HIDE DEF t
    <2>3. StandStimmt(t, historie', inhaber', status')
      BY <2>1, SonstStimmt
    <2>4. Ordentlich(a, t, TRUE)
      BY <2>2, <2>3 DEF Ordentlich
    <2> QED
      BY <2>4
  <1>2. CASE DoppeltVerknuepft(a, s, neu)
    <2>1. Weiter(a, Leer, TRUE)
      BY <1>2 DEF DoppeltVerknuepft
    <2>2. Ordentlich(a, Leer, TRUE)
      BY <2>1, EndenOrdentlich
    <2> QED
      BY <2>2
  <1> QED
    BY <1>1, <1>2

LEMMA ImSpeicherOrdentlich ==
    ASSUME NEW a \in Anfrage, NEW t, t.pc \notin BeimUpdate, Weiter(a, t, FALSE),
           UNCHANGED tabellen
    PROVE  \E s, g : Ordentlich(a, s, g)
  <1>1. StandStimmt(t, historie', inhaber', status')
    BY SonstStimmt
  <1>2. Ordentlich(a, t, FALSE)
    BY <1>1 DEF Ordentlich
  <1> QED
    BY <1>2

LEMMA SpeichernStand ==
    ASSUME TypInv, NEW a \in Anfrage, Speichern(a) \/ SpeichernScheitert(a)
    PROVE  \E t, g : Ordentlich(a, t, g)
  <1> DEFINE r == [Leer EXCEPT !.raus = sitzung[a].raus, !.rein = sitzung[a].rein,
                               !.marken = sitzung[a].marken]
  <1>1. \/ Weiter(a, Leer, FALSE) /\ UNCHANGED tabellen
        \/ Spuelen(a, r, <<>>)
    BY DEF Speichern, SpeichernScheitert
  <1>2. r \in Sitzung /\ r.pc = "frei"
    <2>1. sitzung[a] \in Sitzung /\ sitzung[a].rein \in SUBSET Verknuepfung
      BY SitzungTyp DEF Sitzung
    <2> QED
      BY <2>1, RestTyp
  <1> HIDE DEF r
  <1>3. r.pc \notin BeimUpdate /\ Leer.pc \notin BeimUpdate
    BY <1>2 DEF BeimUpdate, Leer
  <1> QED
    BY <1>1, <1>2, <1>3, FrischOrdentlich, ImSpeicherOrdentlich

LEMMA ScheiternStand ==
    ASSUME NEW a \in Anfrage, KontaktdatenScheitern(a) \/ EntlassenScheitert(a)
    PROVE  \E t, g : Ordentlich(a, t, g)
  <1>1. Weiter(a, Leer, FALSE) /\ UNCHANGED tabellen
    BY DEF KontaktdatenScheitern, EntlassenScheitert
  <1>2. Leer.pc \notin BeimUpdate
    BY DEF BeimUpdate, Leer
  <1> QED
    BY <1>1, <1>2, ImSpeicherOrdentlich

LEMMA ZuordnungStand ==
    ASSUME NEW a \in Anfrage, NEW plan, ZuordnungBeginnen(a, plan)
    PROVE  \E t, g : Ordentlich(a, t, g)
  <1> DEFINE s == [Leer EXCEPT !.pc = "posten", !.plan = plan, !.rest = Amt]
  <1>1. Weiter(a, s, FALSE) /\ UNCHANGED tabellen
    BY DEF ZuordnungBeginnen
  <1>2. s.pc \notin BeimUpdate
    BY DEF BeimUpdate, Leer
  <1> HIDE DEF s
  <1> QED
    BY <1>1, <1>2, ImSpeicherOrdentlich

LEMMA LesenStand ==
    ASSUME TypInv, NEW a \in Anfrage, PostenLesen(a)
    PROVE  \E t, g : Ordentlich(a, t, g)
  <1> DEFINE s == sitzung[a]
             kopie(po) == {v \in inhaber : v[2] = po}
             n(po, k, w) == [s EXCEPT !.pc = "inhaber", !.posten = po, !.rest = @ \ {po},
                                      !.kopie = k, !.vorher = k, !.weg = w]
  <1>1. s \in Sitzung /\ UNCHANGED tabellen
    BY SitzungTyp DEF PostenLesen
  <1>2. PICK po \in s.rest :
           Weiter(a, n(po, kopie(po), Abzuloesen(kopie(po), s.plan[po])), FALSE)
    BY DEF PostenLesen
  <1> HIDE DEF s, kopie
  <1>3. \A k, w : n(po, k, w).pc \notin BeimUpdate
    BY <1>1 DEF Sitzung, BeimUpdate
  <1> HIDE DEF n
  <1> QED
    BY <1>1, <1>2, <1>3, ImSpeicherOrdentlich

LEMMA EntlassenStand ==
    ASSUME TypInv, NEW a \in Anfrage, InhaberEntlassen(a)
    PROVE  \E t, g : Ordentlich(a, t, g)
  <1> DEFINE s0 == sitzung[a]
             n(q) == [s0 EXCEPT !.weg = @ \ {q}, !.kopie = @ \ {<<q, s0.posten>>},
                                !.raus = @ \cup {<<q, s0.posten>>}]
  <1>1. s0 \in Sitzung /\ Passend(s0) /\ s0.pc = "inhaber" /\ UNCHANGED status
    BY SitzungTyp DEF InhaberEntlassen
  <1>2. PICK q \in s0.weg : HistoryEnde(a, n(q), ZeilenFuerPosten(q, s0.posten))
    BY DEF InhaberEntlassen
  <1> HIDE DEF s0
  <1>3. <<q, s0.posten>> \in Verknuepfung
    BY <1>1, <1>2 DEF Passend, Verknuepfung, Posten
  <1>4. n(q) \in Sitzung /\ n(q).pc \notin BeimUpdate
    BY <1>1, <1>3 DEF Sitzung, BeimUpdate
  <1> DEFINE s == n(q)
  <1>5. HistoryEnde(a, s, ZeilenFuerPosten(q, s0.posten))
    BY <1>2
  <1> HIDE DEF s
  <1>6. PICK o, t, g : Folgt(a, s, o, t, g)
    <2>1. s \in Sitzung
      BY <1>4 DEF s
    <2> QED
      BY <1>5, <2>1, EndePostenFolgt
  <1>7. s.pc \notin BeimUpdate
    BY <1>4 DEF s
  <1>8. g \in BOOLEAN
    BY <1>6 DEF Folgt
  <1>9. Ordentlich(a, t, g)
    BY <1>1, <1>6, <1>7, <1>8, SonstOrdentlich
  <1> QED
    BY <1>9

LEMMA BesetzenStand ==
    ASSUME TypInv, NEW a \in Anfrage, PostenBesetzen(a)
    PROVE  \E t, g : Ordentlich(a, t, g)
  <1> DEFINE s == sitzung[a]
             q == Neuer(s)
             rein == IF q = Ohne \/ <<q, s.posten>> \in s.kopie THEN {} ELSE {<<q, s.posten>>}
             ende == [Leer EXCEPT !.raus = s.raus, !.rein = rein, !.marken = s.marken]
             naechster == [s EXCEPT !.pc = "posten", !.posten = Ohne, !.rein = rein,
                                    !.kopie = {}, !.vorher = {}]
             t == IF s.rest = {} THEN ende ELSE naechster
             neu == IF q = Ohne THEN <<>> ELSE NeueZeile(q, s.posten, Ohne)
  <1>1. s \in Sitzung /\ Passend(s) /\ s.pc = "inhaber"
    BY SitzungTyp DEF PostenBesetzen
  <1>2. Spuelen(a, t, neu) \/ DoppeltVerknuepft(a, t, neu)
    BY DEF PostenBesetzen
  <1> HIDE DEF s
  <1>3. q \in Person \cup {Ohne} /\ s.posten \in Amt
    BY <1>1 DEF Passend, Sitzung, Neuer
  <1>4. rein \in SUBSET Verknuepfung
    BY <1>3 DEF Verknuepfung, Posten
  <1> HIDE DEF rein, neu
  <1>5. ende \in Sitzung /\ ende.pc = "frei"
    BY <1>1, <1>4, RestTyp
  <1>6. naechster \in Sitzung /\ naechster.pc = "posten"
    BY <1>1, <1>4 DEF Sitzung
  <1> HIDE DEF ende, naechster
  <1>7. t \in Sitzung /\ t.pc \notin BeimUpdate
    BY <1>5, <1>6 DEF BeimUpdate
  <1> HIDE DEF t
  <1> QED
    BY <1>2, <1>7, FrischOrdentlich

\* A new person has no request yet whose work her row could disturb.
LEMMA AnlegenStand ==
    ASSUME TypInv, StandInv, NEW p \in Person, NEW st \in Status, PersonAnlegen(p, st)
    PROVE  StandInv'
  <1> DEFINE n == NeueZeile(p, KeinRessort, st)
  <1>1. /\ status[p] = Ohne /\ status' = [status EXCEPT ![p] = st]
        /\ historie' = historie \o n /\ inhaber' = inhaber /\ sitzung' = sitzung
    BY DEF PersonAnlegen
  <1>2. n \in Seq(Zeile) /\ historie \in Seq(Zeile) /\ status \in [Person -> Status \cup {Ohne}]
    BY SitzungTyp, NeueZeileTyp DEF TypInv, TypeOK
  <1>3. \A z \in OffenIn(n, {}) : z.person = p
    BY OffenNeu
  <1> HIDE DEF n
  <1> SUFFICES ASSUME NEW a \in Anfrage, sitzung[a].ungestoert, sitzung[a].pc \in BeimUpdate
               PROVE  StandStimmt(sitzung[a], historie', inhaber', status')
    BY <1>1 DEF StandInv, StandStimmt
  <1> DEFINE s == sitzung[a]
             o == OffenIn(historie, s.marken)
             o2 == o \cup OffenIn(n, {})
  <1>4. /\ s.alt = status[s.person] /\ s.alt # Ohne /\ s.person \in Person
        /\ s.rein = {} /\ s.marken \subseteq DOMAIN historie
        /\ AuswahlStimmt(s, o, Gesehen(s, inhaber)) /\ WechselStimmt(s, o)
    BY StandVonHand
  <1> HIDE DEF s
  <1>5. s.person # p /\ status'[s.person] = s.alt
    BY <1>1, <1>2, <1>4
  <1>6. s.marken \subseteq DOMAIN historie' /\ OffenIn(historie', s.marken) = o2
    <2>1. DOMAIN historie \subseteq DOMAIN (historie \o n)
      BY <1>2
    <2>2. OffenIn(historie \o n, s.marken) = o2
      BY <1>2, <1>4, OffenAnhang
    <2> QED
      BY <1>1, <1>4, <2>1, <2>2
  <1>7. \A z : z.person = s.person => (z \in o2 <=> z \in o)
    BY <1>3, <1>5
  <1> HIDE DEF o, o2
  <1>8. \A po : HatZeile(o, s, po) <=> HatZeile(o2, s, po)
    BY <1>7 DEF HatZeile
  <1>9. AuswahlStimmt(s, o2, Gesehen(s, inhaber'))
    BY <1>1, <1>4, <1>7, <1>8 DEF AuswahlStimmt
  <1>10. WechselStimmt(s, o2)
    BY <1>4, <1>7, <1>8 DEF WechselStimmt
  <1>11. StandStimmt(s, historie', inhaber', status')
    BY <1>4, <1>5, <1>6, <1>9, <1>10 DEF StandStimmt
  <1> QED
    BY <1>11 DEF s

LEMMA StandAmAnfang ==
    ASSUME Init
    PROVE  StandInv
  <1>1. \A a \in Anfrage : sitzung[a] = Leer
    BY DEF Init
  <1> QED
    BY <1>1, LeerStimmt DEF StandInv

LEMMA StandErhalten == TypInv /\ StandInv /\ [Next]_vars => StandInv'
  <1> SUFFICES ASSUME TypInv, StandInv, [Next]_vars PROVE StandInv'
    OBVIOUS
  <1>1. CASE \E p \in Person, st \in Status : PersonAnlegen(p, st)
    BY <1>1, AnlegenStand
  <1>2. ASSUME NEW a \in Anfrage, \E t, g : Ordentlich(a, t, g)
        PROVE  StandInv'
    BY <1>2, AndereStimmen
  <1>3. CASE \E a \in Anfrage, p \in Person, auswahl \in SUBSET Ressort, neu \in Status :
                UpdateBeginnen(a, p, auswahl, neu)
    BY <1>2, <1>3, BeginnenStand
  <1>4. CASE \E a \in Anfrage, plan \in [Amt -> Person \cup {Ohne}] : ZuordnungBeginnen(a, plan)
    BY <1>2, <1>4, ZuordnungStand
  <1>5. ASSUME NEW a \in Anfrage,
               \/ RessortEntfernen(a)
               \/ RessortHinzufuegen(a)
               \/ StatusVergleichen(a)
               \/ HistorieFuerPosten(a)
               \/ KontaktdatenSpeichern(a)
               \/ KontaktdatenScheitern(a)
               \/ Speichern(a)
               \/ SpeichernScheitert(a)
               \/ PostenLesen(a)
               \/ InhaberEntlassen(a)
               \/ EntlassenScheitert(a)
               \/ PostenBesetzen(a)
        PROVE  StandInv'
    <2>1. \E t, g : Ordentlich(a, t, g)
      BY <1>5, EntfernenStand, HinzufuegenStand, VergleichenStand, FuerPostenStand,
         KontaktdatenStand, ScheiternStand, SpeichernStand, LesenStand, EntlassenStand,
         BesetzenStand
    <2> QED
      BY <1>2, <2>1
  <1>6. CASE Neustart
    <2>1. \A a \in Anfrage : sitzung'[a] = Leer
      BY <1>6 DEF Neustart
    <2> QED
      BY <2>1, LeerStimmt DEF StandInv
  <1>7. CASE UNCHANGED vars
    BY <1>7 DEF vars, StandInv
  <1> QED
    BY <1>1, <1>3, <1>4, <1>5, <1>6, <1>7 DEF Next

\* The last flush stores what the session sees.
LEMMA SpeichernWirkt ==
    ASSUME TypInv, StandInv, NEW a \in Anfrage, Speichern(a), sitzung[a].ungestoert
    PROVE  Uebernommen(a)
  <1> DEFINE s == sitzung[a]
             r == [Leer EXCEPT !.raus = s.raus, !.rein = s.rein, !.marken = s.marken]
             o == OffenIn(historie, s.marken)
             l == Gesehen(s, inhaber)
  <1>1. s.pc = "speichern" /\ PersonSchreiben(a) /\ Spuelen(a, r, <<>>)
    BY DEF Speichern
  <1>2. /\ s.alt = status[s.person] /\ s.person \in Person
        /\ AuswahlStimmt(s, o, l) /\ WechselStimmt(s, o)
        /\ s \in Sitzung /\ KeinRessort \notin Posten
    BY <1>1, StandVonHand DEF BeimUpdate
  <1>3. r.raus = s.raus /\ r.rein = s.rein /\ r.marken = s.marken
    BY DEF Leer
  <1>4. status'[s.person] = s.neu
    <2>1. status \in [Person -> Status \cup {Ohne}]
      BY SitzungTyp
    <2> QED
      BY <1>1, <1>2, <2>1 DEF PersonSchreiben
  <1> HIDE DEF s, r
  <1>5. inhaber' = l
    BY <1>1, <1>3 DEF Spuelen, Verknuepft, Gesehen
  <1>6. OffeneZeilen' = o
    <2> DEFINE b == Beendet(r)
    <2>1. historie \in Seq(Zeile)
      BY SitzungTyp
    <2>2. b \in Seq(Zeile) /\ OffenIn(b, {}) = OffenIn(historie, r.marken)
      BY <2>1, BeendetTyp, OffenBeendet
    <2>3. historie' = b \o <<>>
      BY <1>1 DEF Spuelen
    <2> HIDE DEF b
    <2>4. historie' = b
      BY <2>2, <2>3
    <2>5. OffeneZeilen' = OffenIn(historie', {})
      BY DEF OffeneZeilen, OffenIn
    <2> QED
      BY <1>3, <2>2, <2>4, <2>5
  <1>7. NochWeg(s) = {} /\ NochDazu(s) = {}
    BY <1>1 DEF NochWeg, NochDazu
  <1> HIDE DEF o, l
  <1> DEFINE hat(po) == \E z \in o : z.person = s.person /\ z.posten = po /\ z.status = s.neu
  <1>8. /\ PostenIn(l, s.person) = Soll(s)
        /\ \A z \in o : ~(z.person = s.person
                          /\ z.posten \in (Hatte(s) \cap Ressort) \ s.auswahl)
        /\ \A x \in s.auswahl \ Hatte(s) : hat(x)
    BY <1>2, <1>7 DEF AuswahlStimmt, HatZeile
  <1>9. s.alt # s.neu => /\ \A z \in o : z.person = s.person => z.status # s.alt
                         /\ \A po \in Reihen(s) : hat(po)
    BY <1>1, <1>2 DEF WechselStimmt, HatZeile
  <1>10. Hatte(s) = PostenIn(s.vorher, s.person) /\ Hatte(s) \subseteq Ressort \cup Amt
    BY DEF Hatte, PostenIn, Posten
  <1>11. PostenIn(inhaber', s.person) = (PostenIn(s.vorher, s.person) \cap Amt) \cup s.auswahl
    BY <1>5, <1>8, <1>10 DEF Soll
  <1>12. \A z \in OffeneZeilen' :
            z.person = s.person /\ z.posten \in PostenIn(s.vorher, s.person) \ s.auswahl
               => z.posten \in Amt
    BY <1>6, <1>8, <1>10
  <1>13. s.alt # s.neu => IF PostenIn(inhaber', s.person) = {} THEN hat(KeinRessort)
                          ELSE \A po \in PostenIn(inhaber', s.person) : hat(po)
    BY <1>5, <1>8, <1>9 DEF Reihen
  <1> QED
    BY <1>4, <1>6, <1>8, <1>9, <1>10, <1>11, <1>12, <1>13 DEF Uebernommen, s

\* What a saved update leaves of the person, if nobody else wrote meanwhile
\* (PersonenController update, lines 288-528).
THEOREM UpdateVollzogen == Spec => UpdateWirkt
  <1>1. TypInv /\ StandInv /\ [Next]_vars
           => [\A a \in Anfrage : Speichern(a) /\ sitzung[a].ungestoert => Uebernommen(a)]_vars
    BY SpeichernWirkt
  <1>2. Init => TypInv /\ StandInv
    BY TypAmAnfang, StandAmAnfang
  <1>3. TypInv /\ StandInv /\ [Next]_vars => TypInv' /\ StandInv'
    BY TypErhalten, StandErhalten
  <1> QED
    BY <1>1, <1>2, <1>3, PTL DEF Spec, UpdateWirkt
===============================================================================
