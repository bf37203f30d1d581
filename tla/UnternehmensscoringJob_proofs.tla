-------------------- MODULE UnternehmensscoringJob_proofs --------------------
(***************************************************************************)
(* Theorems about the scoring job, for every set of companies, contacts,   *)
(* users and workers, every matrix and every number of days.  The second   *)
(* half is about how it implements Kontakterinnerung.                      *)
(***************************************************************************)
EXTENDS UnternehmensscoringJob, WellFoundedInduction, TLAPS

\* The part of a contact row that the scoring looks at.
LEMMA MatrixTerminTyp ==
    ASSUME NEW c \in Klassen, NEW k \in KontaktSatz
    PROVE  MatrixTermin(c, k) \in Datum
  <1>1. Bewertet(k.bewertung) \in Bewertungen
    BY ScoringAssumption DEF Bewertet, KontaktSatz, Bewertungen
  <1>2. Matrix[c][Bewertet(k.bewertung)] \in (Nat \ {0}) \cup {Null}
    BY <1>1, ScoringAssumption
  <1>3. k.datum \in Int
    BY DEF KontaktSatz
  <1> QED
    BY <1>2, <1>3 DEF MatrixTermin, Datum

\* A pass over a company keeps the row a row, and mails a known stage if any.
LEMMA BewerteTyp ==
    ASSUME NEW z \in [naechster : Datum, level : Stufen \cup {Null}],
           NEW g \in BOOLEAN, NEW c \in Klassen, NEW k \in KontaktSatz,
           NEW h \in Int
    PROVE  Bewerte(z, g, c, k, h) \in
               [naechster : Datum, level : Stufen \cup {Null},
                mail : Stufen \cup {Null}]
  <1>1. MatrixTermin(c, k) \in Datum
    BY MatrixTerminTyp
  <1>2. Ersatztermin(c, k, h) \in Datum
    BY <1>1 DEF Ersatztermin, Datum
  <1>3. NeuerTermin(c, k) \in Datum
    BY <1>1 DEF NeuerTermin, KontaktSatz
  <1>4. Angepasst(z, g, c, k) \in [naechster : Datum, level : Stufen \cup {Null}]
    BY <1>3 DEF Angepasst
  <1>5. \A y : NeueStufe(y, h) \in Stufen \cup {Null}
    BY DEF NeueStufe, Stufen
  <1> DEFINE y == Angepasst(z, g, c, k)
  <1>6. CASE Verfallen(y.naechster, h)
    BY <1>2, <1>6 DEF Bewerte
  <1>7. CASE ~Verfallen(y.naechster, h)
    <2> HIDE DEF y
    <2>1. /\ y.naechster \in Datum
          /\ y.level \in Stufen \cup {Null}
      BY <1>4 DEF y
    <2>2. Bewerte(z, g, c, k, h) =
             [naechster |-> y.naechster,
              level |-> IF NeueStufe(y, h) = Null THEN y.level ELSE NeueStufe(y, h),
              mail |-> NeueStufe(y, h)]
      BY <1>7 DEF Bewerte, y
    <2> QED
      BY <2>1, <2>2, <1>5
  <1> QED
    BY <1>6, <1>7

------------------------------------------------------------------------------
LEMMA LeerTyp ==
    /\ NeueFirma \in Zeile
    /\ KeinKontakt \in KontaktSatz
    /\ LeereSitzung \in Sitzung
    /\ KeineArbeit \in Arbeit
  <1>1. NeueFirma \in Zeile
    BY DEF NeueFirma, Zeile, Klassen, Datum
  <1>2. KeinKontakt \in KontaktSatz
    BY JobAssumption DEF KeinKontakt, KontaktSatz, Datum
  <1>3. LeereSitzung \in Sitzung
    BY <1>1, <1>2 DEF LeereSitzung, Sitzung
  <1>4. KeineArbeit \in Arbeit
    BY <1>1 DEF KeineArbeit, Arbeit
  <1> QED
    BY <1>1, <1>2, <1>3, <1>4

LEMMA KlasseTyp ==
    ASSUME NEW ps, NEW h
    PROVE  Klasse(ps, h) \in Klassen
  BY DEF Klasse, Klassen

\* A nonempty set of naturals has a least element.
LEMMA KleinsteZahl ==
    ASSUME NEW T, T \subseteq Nat, T # {}
    PROVE  \E x \in T : \A y \in T : x <= y
  <1> DEFINE R == OpToRel(<, Nat)
  <1>1. IsWellFoundedOn(R, Nat)
    BY NatLessThanWellFounded
  <1>2. \A a, b \in Nat : a < b => <<a, b>> \in R
    <2> SUFFICES ASSUME NEW a \in Nat, NEW b \in Nat, a < b
                 PROVE  <<a, b>> \in {p \in Nat \X Nat : p[1] < p[2]}
      BY Zenon DEF OpToRel
    <2> QED
      OBVIOUS
  <1> HIDE DEF R
  <1>3. PICK x \in T : \A y \in T : ~(<<y, x>> \in R)
    BY <1>1, WFMin, Zenon
  <1>4. \A y \in T : ~(y < x)
    BY <1>2, <1>3
  <1> QED
    BY <1>3, <1>4

\* A nonempty set of contacts has a latest one, since dates are bounded.
LEMMA EsGibtEinenLetzten ==
    ASSUME NEW K, K # {}, NEW d, \A k \in K : d[k] \in Int /\ d[k] <= MaxDatum
    PROVE  \E k \in K : \A j \in K : d[j] <= d[k]
  <1> DEFINE T == {MaxDatum - d[k] : k \in K}
  <1>1. T \subseteq Nat /\ T # {}
    BY JobAssumption
  <1>2. PICK x \in T : \A y \in T : x <= y
    BY <1>1, KleinsteZahl
  <1>3. PICK k \in K : x = MaxDatum - d[k]
    BY <1>2
  <1>4. \A j \in K : d[j] <= d[k]
    <2> TAKE j \in K
    <2>1. MaxDatum - d[k] <= MaxDatum - d[j]
      BY <1>2, <1>3
    <2> QED
      BY <2>1, JobAssumption
  <1> QED
    BY <1>4

LEMMA JuengsterIstJuengster ==
    ASSUME NEW d, DOMAIN d # {}, \A k \in DOMAIN d : d[k] \in Int /\ d[k] <= MaxDatum
    PROVE  /\ Juengster(d) \in DOMAIN d
           /\ \A j \in DOMAIN d : d[j] <= d[Juengster(d)]
  <1>1. \E k \in DOMAIN d : \A j \in DOMAIN d : d[j] <= d[k]
    BY EsGibtEinenLetzten
  <1> QED
    BY <1>1 DEF Juengster

\* Whatever the session shows of a contact is a contact row.
LEMMA GesehenTyp ==
    ASSUME TypeOK, NEW r \in Laeufe, NEW k \in Kontakte
    PROVE  Gesehen(r, k) \in KontaktSatz
  BY DEF Gesehen, TypeOK, Sitzung

\* The last contact is the latest one as the session sees them.
LEMMA LetzterIstLetzter ==
    ASSUME TypeOK, NEW r \in Laeufe, NEW u \in Firmen
    PROVE  /\ KontakteMit(u) \subseteq Kontakte
           /\ Letzter(r, u) = Null => KontakteMit(u) = {}
           /\ Letzter(r, u) # Null =>
                  /\ Letzter(r, u) \in KontakteMit(u)
                  /\ \A j \in KontakteMit(u) :
                         Gesehen(r, j).datum <= Gesehen(r, Letzter(r, u)).datum
  <1> DEFINE d == [k \in KontakteMit(u) |-> Gesehen(r, k).datum]
  <1>1. KontakteMit(u) \subseteq Kontakte /\ Null \notin Kontakte
    BY JobAssumption DEF KontakteMit
  <1>2. DOMAIN d = KontakteMit(u) /\ \A k \in KontakteMit(u) : d[k] = Gesehen(r, k).datum
    OBVIOUS
  <1>3. \A k \in KontakteMit(u) : d[k] \in Int /\ d[k] <= MaxDatum
    BY <1>1, GesehenTyp DEF KontaktSatz
  <1>4. Letzter(r, u) = IF KontakteMit(u) = {} THEN Null ELSE Juengster(d)
    BY DEF Letzter
  <1> HIDE DEF d
  <1>5. KontakteMit(u) # {} => /\ Juengster(d) \in KontakteMit(u)
                               /\ \A j \in KontakteMit(u) : d[j] <= d[Juengster(d)]
    BY <1>2, <1>3, JuengsterIstJuengster
  <1> QED
    BY <1>1, <1>2, <1>4, <1>5

\* Whatever contact is chosen as the last one is one of the company's.
LEMMA LetzterTyp ==
    ASSUME TypeOK, NEW r \in Laeufe, NEW u \in Firmen
    PROVE  /\ Letzter(r, u) \in KontakteMit(u) \cup {Null}
           /\ KontakteMit(u) \subseteq Kontakte
  BY LetzterIstLetzter
------------------------------------------------------------------------------
(***************************************************************************)
(* Type correctness.  One lemma for the steps of the job, one for those of *)
(* users, calendar and server.                                             *)
(***************************************************************************)

LEMMA InitTyp == Init => TypeOK
  <1> SUFFICES ASSUME Init PROVE TypeOK
    OBVIOUS
  <1>1. /\ firma \in [Firmen -> Zeile]
        /\ kontakt \in [Kontakte -> KontaktSatz]
        /\ betreuer \in [Firmen -> SUBSET Personen]
        /\ post \in [Firmen -> SUBSET Mails]
    BY LeerTyp DEF Init
  <1>2. /\ pc \in [Laeufe -> Zustaende]
        /\ sitzung \in [Laeufe -> Sitzung]
        /\ rest \in [Laeufe -> SUBSET Firmen]
        /\ arbeit \in [Laeufe -> Arbeit]
    BY LeerTyp DEF Init, Zustaende
  <1>3. formular \in [Bearbeiter -> [u : Firmen \cup {Null}, zeile : Zeile]]
    BY LeerTyp DEF Init
  <1> QED
    BY <1>1, <1>2, <1>3, JobAssumption DEF Init, TypeOK

LEMMA StartenTyp ==
    ASSUME TypeOK, NEW r \in Laeufe, Starten(r)
    PROVE  TypeOK'
  <1>1. [LeereSitzung EXCEPT !.heute = tag, !.firma = firma] \in Sitzung
    <2>1. tag \in Nat /\ firma \in [Firmen -> Zeile]
      BY JobAssumption DEF TypeOK
    <2> QED
      BY <2>1, LeerTyp DEF Sitzung
  <1>2. sitzung' \in [Laeufe -> Sitzung]
    BY <1>1 DEF Starten, TypeOK
  <1>3. pc' \in [Laeufe -> Zustaende]
    BY DEF Starten, TypeOK, Zustaende
  <1>4. rest' \in [Laeufe -> SUBSET Firmen]
    BY DEF Starten, TypeOK
  <1>5. ausloeser' \in SUBSET {"start", "cron", "manuell"} /\ veraltet' \in BOOLEAN
    BY DEF Starten, TypeOK, AlleBereit
  <1> QED
    BY <1>2, <1>3, <1>4, <1>5 DEF Starten, TypeOK, db

LEMMA KontaktErmittelnTyp ==
    ASSUME TypeOK, NEW r \in Laeufe, NEW u \in Firmen, KontaktErmitteln(r, u)
    PROVE  TypeOK'
  <1> DEFINE k == Letzter(r, u)
             alt == sitzung[r].firma[u]
             z == [alt EXCEPT !.klasse = Klasse(projekte[u], sitzung[r].heute),
                              !.letzter = k]
             markiert == k # Null /\ Gesehen(r, k).geaendert
             kopie == [j \in Kontakte |->
                          IF j \notin KontakteMit(u) THEN sitzung[r].kontakt[j]
                          ELSE IF markiert /\ j = k
                               THEN [Gesehen(r, j) EXCEPT !.geaendert = FALSE]
                               ELSE Gesehen(r, j)]
  <1>1. k \in Kontakte \cup {Null}
    BY LetzterTyp
  <1>2. alt \in Zeile
    BY DEF TypeOK, Sitzung
  <1>3. z \in Zeile
    BY <1>1, <1>2, KlasseTyp DEF Zeile
  <1>4. kopie \in [Kontakte -> KontaktSatz]
    <2> SUFFICES ASSUME NEW j \in Kontakte PROVE kopie[j] \in KontaktSatz
      OBVIOUS
    <2>1. sitzung[r].kontakt[j] \in KontaktSatz /\ Gesehen(r, j) \in KontaktSatz
      BY GesehenTyp DEF TypeOK, Sitzung
    <2>2. [Gesehen(r, j) EXCEPT !.geaendert = FALSE] \in KontaktSatz
      BY <2>1 DEF KontaktSatz
    <2> QED
      BY <2>1, <2>2
  <1>5. (k # alt.letzter \/ markiert) \in BOOLEAN
    OBVIOUS
  <1>6. [KeineArbeit EXCEPT !.u = u, !.zeile = z,
                            !.geaendert = k # alt.letzter \/ markiert] \in Arbeit
    BY <1>3, <1>5, LeerTyp DEF Arbeit
  <1>7. KontakteMit(u) \subseteq Kontakte
    BY LetzterTyp
  <1> HIDE DEF k, alt, z, markiert, kopie
  <1>8. /\ pc' = [pc EXCEPT ![r] = "frist"]
        /\ rest' = [rest EXCEPT ![r] = @ \ {u}]
        /\ UNCHANGED <<projekte, betreuer, umwelt, post, veraltet>>
    BY DEF KontaktErmitteln
  <1>9. arbeit' = [arbeit EXCEPT ![r] =
            [KeineArbeit EXCEPT !.u = u, !.zeile = z,
                                !.geaendert = k # alt.letzter \/ markiert]]
    BY DEF KontaktErmitteln, k, alt, z, markiert
  <1>10. sitzung' = [sitzung EXCEPT
             ![r].kontakt = kopie,
             ![r].geladen = @ \cup KontakteMit(u),
             ![r].firma[u] = IF markiert THEN z ELSE @]
    BY DEF KontaktErmitteln, k, alt, z, markiert, kopie
  <1>11. IF markiert
         THEN /\ kontakt' = [kontakt EXCEPT ![k] =
                                [kopie[k] EXCEPT !.firmen = kontakt[k].firmen]]
              /\ firma' = IF z = alt THEN firma ELSE [firma EXCEPT ![u] = z]
         ELSE UNCHANGED <<kontakt, firma>>
    BY DEF KontaktErmitteln, k, alt, z, markiert, kopie
  <1>12. pc' \in [Laeufe -> Zustaende] /\ rest' \in [Laeufe -> SUBSET Firmen]
    BY <1>8 DEF TypeOK, Zustaende
  <1>13. arbeit' \in [Laeufe -> Arbeit]
    BY <1>6, <1>9 DEF TypeOK
  <1>14. sitzung' \in [Laeufe -> Sitzung]
    <2> DEFINE s == sitzung[r]
               f == [s.firma EXCEPT ![u] = IF markiert THEN z ELSE @]
               g == s.geladen \cup KontakteMit(u)
    <2>1. s \in Sitzung
      BY DEF TypeOK
    <2>2. f \in [Firmen -> Zeile] /\ g \in SUBSET Kontakte
      BY <2>1, <1>3, <1>7 DEF Sitzung
    <2>3. sitzung' = [sitzung EXCEPT ![r] =
              [s EXCEPT !.kontakt = kopie, !.geladen = g, !.firma = f]]
      BY <2>1, <1>10 DEF Sitzung, TypeOK
    <2> HIDE DEF s, f, g
    <2>4. [s EXCEPT !.kontakt = kopie, !.geladen = g, !.firma = f] \in Sitzung
      BY <2>1, <2>2, <1>4 DEF Sitzung
    <2> QED
      BY <2>3, <2>4 DEF TypeOK
  <1>15. firma' \in [Firmen -> Zeile]
    <2>1. CASE markiert
      BY <1>3, <1>11, <2>1 DEF TypeOK
    <2>2. CASE ~markiert
      BY <1>11, <2>2 DEF TypeOK
    <2> QED
      BY <2>1, <2>2
  <1>16. kontakt' \in [Kontakte -> KontaktSatz]
    <2>1. CASE ~markiert
      BY <1>11, <2>1 DEF TypeOK
    <2>2. CASE markiert
      <3>1. k \in Kontakte
        BY <1>1, <2>2 DEF markiert
      <3>2. kopie[k] \in KontaktSatz /\ kontakt[k] \in KontaktSatz
        BY <1>4, <3>1 DEF TypeOK
      <3>3. [kopie[k] EXCEPT !.firmen = kontakt[k].firmen] \in KontaktSatz
        BY <3>2 DEF KontaktSatz
      <3> QED
        BY <1>11, <2>2, <3>3 DEF TypeOK
    <2> QED
      BY <2>1, <2>2
  <1> QED
    BY <1>8, <1>12, <1>13, <1>14, <1>15, <1>16 DEF TypeOK, umwelt
\* While a worker deals with a company it knows which, and while it mails it
\* knows what: without this the rows it writes and the mails it notes down
\* have no type.
ArbeitHatFirma ==
    \A r \in Laeufe :
        /\ pc[r] \in {"frist", "mail", "speichern"} => arbeit[r].u \in Firmen
        /\ pc[r] = "mail" => arbeit[r].stufe \in Stufen

LEMMA EmpfaengerTyp ==
    ASSUME TypeOK, NEW u \in Firmen, NEW stufe
    PROVE  Empfaenger(u, stufe) \in SUBSET Adressen
  BY DEF Empfaenger, Adressen, TypeOK

LEMMA FristBestimmenTyp ==
    ASSUME TypeOK, ArbeitHatFirma, NEW r \in Laeufe, FristBestimmen(r)
    PROVE  TypeOK'
  <1> DEFINE a == arbeit[r]
             k == a.zeile.letzter
             zeile == [naechster |-> a.zeile.naechster, level |-> a.zeile.level]
             b == Bewerte(zeile, a.geaendert, a.zeile.klasse,
                          sitzung[r].kontakt[k], sitzung[r].heute)
             neu == \/ a.geaendert
                    \/ Verfallen(a.zeile.naechster, sitzung[r].heute)
             a2 == [a EXCEPT !.zeile.naechster = b.naechster,
                             !.zeile.level = b.level,
                             !.stufe = b.mail,
                             !.offen = Empfaenger(a.u, b.mail),
                             !.neu = neu]
  <1>1. a \in Arbeit /\ a.zeile \in Zeile /\ a.u \in Firmen
    BY DEF TypeOK, Arbeit, ArbeitHatFirma, FristBestimmen
  <1>2. k \in Kontakte /\ sitzung[r].kontakt[k] \in KontaktSatz
    BY <1>1 DEF FristBestimmen, Zeile, TypeOK, Sitzung
  <1>3. sitzung[r].heute \in Int /\ a.geaendert \in BOOLEAN
    BY <1>1 DEF TypeOK, Sitzung, Arbeit
  <1>4. zeile \in [naechster : Datum, level : Stufen \cup {Null}]
    BY <1>1 DEF Zeile
  <1>5. b \in [naechster : Datum, level : Stufen \cup {Null},
               mail : Stufen \cup {Null}]
    <2> HIDE DEF k, zeile
    <2>1. a.zeile.klasse \in Klassen
      BY <1>1 DEF Zeile
    <2> QED
      BY <1>2, <1>3, <1>4, <2>1, BewerteTyp
  <1>6. Empfaenger(a.u, b.mail) \in SUBSET Adressen
    BY <1>1, EmpfaengerTyp
  <1>7. neu \in BOOLEAN
    BY <1>3 DEF Verfallen
  <1>8. /\ arbeit' = [arbeit EXCEPT ![r] = a2]
        /\ pc' = [pc EXCEPT ![r] =
               IF Empfaenger(a.u, b.mail) = {} THEN "speichern" ELSE "mail"]
        /\ UNCHANGED <<db, sitzung, rest, umwelt, post, veraltet>>
    BY DEF FristBestimmen
  <1> HIDE DEF b, neu
  <1>9. a2 \in Arbeit
    <2> HIDE DEF a
    <2> DEFINE z2 == [a.zeile EXCEPT !.naechster = b.naechster, !.level = b.level]
    <2>1. z2 \in Zeile
      BY <1>1, <1>5 DEF Zeile
    <2>2. a2 = [a EXCEPT !.zeile = z2, !.stufe = b.mail,
                         !.offen = Empfaenger(a.u, b.mail), !.neu = neu]
      BY <1>1 DEF Arbeit, Zeile
    <2> HIDE DEF z2, a2
    <2> QED
      BY <1>1, <1>5, <1>6, <1>7, <2>1, <2>2 DEF Arbeit
  <1> HIDE DEF a2
  <1>10. arbeit' \in [Laeufe -> Arbeit] /\ pc' \in [Laeufe -> Zustaende]
    BY <1>8, <1>9 DEF TypeOK, Zustaende
  <1> QED
    BY <1>8, <1>10 DEF TypeOK, db, umwelt

LEMMA OhneKontaktTyp ==
    ASSUME TypeOK, NEW r \in Laeufe, OhneKontakt(r)
    PROVE  TypeOK'
  BY DEF OhneKontakt, TypeOK, Zustaende, db, umwelt

\* Sending a mail notes down a stage and an address.
LEMMA VerschicktTyp ==
    ASSUME TypeOK, ArbeitHatFirma, NEW r \in Laeufe, NEW e \in Adressen,
           pc[r] = "mail", Verschickt(r, e)
    PROVE  arbeit' \in [Laeufe -> Arbeit] /\ post' \in [Firmen -> SUBSET Mails]
  <1> DEFINE a == arbeit[r]
             mail == <<a.stufe, e>>
             a2 == [a EXCEPT !.offen = a.offen \ {e}, !.raus = a.raus \cup {mail}]
  <1>1. a \in Arbeit /\ a.u \in Firmen /\ mail \in Mails
    BY DEF TypeOK, ArbeitHatFirma, Mails
  <1> HIDE DEF mail
  <1>2. a2 \in Arbeit
    BY <1>1 DEF Arbeit
  <1>3. arbeit' = [arbeit EXCEPT ![r] = a2]
    BY <1>1 DEF Verschickt, mail, TypeOK, Arbeit
  <1>4. post' = [post EXCEPT ![a.u] = post[a.u] \cup {mail}]
    BY DEF Verschickt, mail
  <1> QED
    BY <1>1, <1>2, <1>3, <1>4 DEF TypeOK

LEMMA MailTyp ==
    ASSUME TypeOK, ArbeitHatFirma, NEW r \in Laeufe, NEW e \in Adressen,
           MailSenden(r, e) \/ MailScheitert(r, e)
    PROVE  TypeOK'
  <1>1. arbeit' \in [Laeufe -> Arbeit] /\ post' \in [Firmen -> SUBSET Mails]
    <2>1. CASE Verschickt(r, e)
      BY <2>1, VerschicktTyp DEF MailSenden, MailScheitert
    <2>2. CASE ~Verschickt(r, e)
      BY <2>2 DEF MailSenden, MailScheitert, TypeOK
    <2> QED
      BY <2>1, <2>2
  <1>2. pc' \in [Laeufe -> Zustaende]
    BY DEF MailSenden, MailScheitert, TypeOK, Zustaende
  <1>3. UNCHANGED <<db, sitzung, rest, umwelt, veraltet>>
    BY DEF MailSenden, MailScheitert
  <1> QED
    BY <1>1, <1>2, <1>3 DEF TypeOK, db, umwelt

LEMMA SchreibenTyp ==
    ASSUME TypeOK, NEW r \in Laeufe, Schreiben(r)
    PROVE  firma' \in [Firmen -> Zeile] /\ post' \in [Firmen -> SUBSET Mails]
  <1> DEFINE a == arbeit[r]
  <1>1. a.zeile \in Zeile /\ a.raus \in SUBSET Mails
    BY DEF TypeOK, Arbeit
  <1>2. firma' = firma \/ firma' = [firma EXCEPT ![a.u] = a.zeile]
    BY DEF Schreiben
  <1>3. post' = post \/ post' = [post EXCEPT ![a.u] = a.raus]
    BY DEF Schreiben
  <1> HIDE DEF a
  <1> QED
    BY <1>1, <1>2, <1>3 DEF TypeOK

LEMMA EndeTyp ==
    ASSUME TypeOK, NEW r \in Laeufe,
           Speichern(r) \/ LaufBeenden(r) \/ LaufAbbrechen(r)
    PROVE  TypeOK'
  <1>1. firma' \in [Firmen -> Zeile] /\ post' \in [Firmen -> SUBSET Mails]
    BY SchreibenTyp DEF Speichern, LaufBeenden, LaufAbbrechen, TypeOK, db
  <1>2. pc' \in [Laeufe -> Zustaende]
    BY DEF Speichern, LaufBeenden, LaufAbbrechen, TypeOK, Zustaende
  <1>3. sitzung' \in [Laeufe -> Sitzung] /\ arbeit' \in [Laeufe -> Arbeit]
    BY LeerTyp DEF Speichern, LaufBeenden, LaufAbbrechen, TypeOK
  <1>4. rest' \in [Laeufe -> SUBSET Firmen] /\ veraltet' \in BOOLEAN
    BY DEF Speichern, LaufBeenden, LaufAbbrechen, TypeOK
  <1>5. UNCHANGED <<kontakt, projekte, betreuer, umwelt>>
    BY DEF Speichern, LaufBeenden, LaufAbbrechen, db
  <1> QED
    BY <1>1, <1>2, <1>3, <1>4, <1>5 DEF TypeOK, umwelt
LEMMA KontaktTyp ==
    ASSUME TypeOK, NEW k \in Kontakte,
           KontaktAnlegen(k) \/ KontaktAendern(k) \/ KontaktLoeschen(k)
    PROVE  TypeOK'
  <1>1. ASSUME KontaktSchreiben(k)
        PROVE  kontakt' \in [Kontakte -> KontaktSatz]
    <2>1. PICK e \in Eingaben, fs \in SUBSET Firmen \ {{}} :
              kontakt' = [kontakt EXCEPT ![k] =
                  [datum |-> e.datum, naechster |-> e.naechster,
                   bewertung |-> e.bewertung, geaendert |-> TRUE, firmen |-> fs]]
      BY <1>1 DEF KontaktSchreiben
    <2>2. e \in [datum : {d \in Int : d <= MaxDatum}, naechster : Datum,
                 bewertung : Bewertungen \cup {Null}]
      BY JobAssumption
    <2>3. [datum |-> e.datum, naechster |-> e.naechster,
           bewertung |-> e.bewertung, geaendert |-> TRUE, firmen |-> fs]
              \in KontaktSatz
      BY <2>2 DEF KontaktSatz
    <2> QED
      BY <2>1, <2>3 DEF TypeOK
  <1>2. kontakt' \in [Kontakte -> KontaktSatz]
    BY <1>1, LeerTyp DEF KontaktAnlegen, KontaktAendern, KontaktLoeschen, TypeOK
  <1>3. Schreibzugriff /\ UNCHANGED <<firma, projekte, betreuer, formular>>
    BY DEF KontaktAnlegen, KontaktAendern, KontaktLoeschen
  <1> QED
    BY <1>2, <1>3, JobAssumption DEF Schreibzugriff, TypeOK, job

LEMMA BetreuerTyp ==
    ASSUME TypeOK, NEW u \in Firmen, NEW p \in Personen,
           BetreuerZuweisen(u, p) \/ Abgeben(u, p)
    PROVE  TypeOK'
  <1>1. betreuer' \in [Firmen -> SUBSET Personen]
    BY DEF BetreuerZuweisen, Abgeben, TypeOK
  <1>2. Schreibzugriff /\ UNCHANGED <<firma, kontakt, projekte, formular>>
    BY DEF BetreuerZuweisen, Abgeben
  <1> QED
    BY <1>1, <1>2, JobAssumption DEF Schreibzugriff, TypeOK, job

LEMMA ProjekteTyp ==
    ASSUME TypeOK, NEW u \in Firmen, ProjekteAendern(u)
    PROVE  TypeOK'
  <1>1. projekte' \in [Firmen -> Projektlagen]
    BY DEF ProjekteAendern, TypeOK
  <1> QED
    BY <1>1, JobAssumption DEF ProjekteAendern, Schreibzugriff, TypeOK, job

LEMMA UnternehmenLadenTyp ==
    ASSUME TypeOK, NEW b \in Bearbeiter, NEW u \in Firmen, UnternehmenLaden(b, u)
    PROVE  TypeOK'
  <1>1. [u |-> u, zeile |-> firma[u]] \in [u : Firmen \cup {Null}, zeile : Zeile]
    BY DEF TypeOK
  <1>2. formular' \in [Bearbeiter -> [u : Firmen \cup {Null}, zeile : Zeile]]
    BY <1>1 DEF UnternehmenLaden, TypeOK
  <1> QED
    BY <1>2 DEF UnternehmenLaden, TypeOK, db, job

LEMMA UnternehmenSpeichernTyp ==
    ASSUME TypeOK, NEW b \in Bearbeiter, UnternehmenSpeichern(b)
    PROVE  TypeOK'
  <1>1. formular[b].zeile \in Zeile
    BY DEF TypeOK
  <1>2. firma' \in [Firmen -> Zeile]
    BY <1>1 DEF UnternehmenSpeichern, TypeOK
  <1>3. formular' \in [Bearbeiter -> [u : Firmen \cup {Null}, zeile : Zeile]]
    BY LeerTyp DEF UnternehmenSpeichern, TypeOK
  <1> QED
    BY <1>2, <1>3, JobAssumption DEF UnternehmenSpeichern, Schreibzugriff, TypeOK, job

LEMMA UmweltTyp ==
    ASSUME TypeOK, UpdateScoring \/ TagWechsel \/ Neustart
    PROVE  TypeOK'
  <1>1. CASE UpdateScoring
    BY <1>1, JobAssumption DEF UpdateScoring, TypeOK, db, job
  <1>2. CASE TagWechsel
    BY <1>2, JobAssumption DEF TagWechsel, TypeOK, db, job
  <1>3. CASE Neustart
    <2>1. /\ pc' \in [Laeufe -> Zustaende]
          /\ sitzung' \in [Laeufe -> Sitzung]
          /\ rest' \in [Laeufe -> SUBSET Firmen]
          /\ arbeit' \in [Laeufe -> Arbeit]
          /\ formular' \in [Bearbeiter -> [u : Firmen \cup {Null}, zeile : Zeile]]
      BY <1>3, LeerTyp DEF Neustart, Zustaende
    <2> QED
      BY <1>3, <2>1, JobAssumption DEF Neustart, TypeOK, db
  <1> QED
    BY <1>1, <1>2, <1>3

LEMMA TypErhalten ==
    ASSUME TypeOK, ArbeitHatFirma, [Next]_vars
    PROVE  TypeOK'
  <1>1. ASSUME NEW r \in Laeufe, Starten(r) PROVE TypeOK'
    BY <1>1, StartenTyp
  <1>2. ASSUME NEW r \in Laeufe, Laufschritt(r) PROVE TypeOK'
    BY <1>2, KontaktErmittelnTyp, FristBestimmenTyp, OhneKontaktTyp, MailTyp,
       EndeTyp DEF Laufschritt
  <1>3. ASSUME Webzugriff PROVE TypeOK'
    BY <1>3, KontaktTyp, BetreuerTyp, ProjekteTyp, UnternehmenLadenTyp,
       UnternehmenSpeichernTyp, UmweltTyp DEF Webzugriff
  <1>4. CASE TagWechsel \/ Neustart
    BY <1>4, UmweltTyp
  <1>5. CASE UNCHANGED vars
    BY <1>5 DEF vars, db, job, umwelt, TypeOK
  <1> QED
    BY <1>1, <1>2, <1>3, <1>4, <1>5 DEF Next

LEMMA ArbeitErhalten ==
    ASSUME TypeOK, ArbeitHatFirma, [Next]_vars
    PROVE  ArbeitHatFirma'
  <1> SUFFICES ASSUME NEW r \in Laeufe
               PROVE  /\ pc'[r] \in {"frist", "mail", "speichern"}
                             => arbeit'[r].u \in Firmen
                      /\ pc'[r] = "mail" => arbeit'[r].stufe \in Stufen
    BY DEF ArbeitHatFirma
  <1> DEFINE Ziel == /\ pc'[r] \in {"frist", "mail", "speichern"}
                            => arbeit'[r].u \in Firmen
                     /\ pc'[r] = "mail" => arbeit'[r].stufe \in Stufen
  <1>t. pc \in [Laeufe -> Zustaende] /\ arbeit \in [Laeufe -> Arbeit]
    BY DEF TypeOK
  <1>u. ASSUME pc'[r] = pc[r], arbeit'[r] = arbeit[r] PROVE Ziel
    BY <1>u DEF ArbeitHatFirma
  <1>1. ASSUME NEW s \in Laeufe, Starten(s) PROVE Ziel
    <2>1. CASE s = r
      BY <1>1, <1>t, <2>1 DEF Starten
    <2>2. CASE s # r
      BY <1>1, <1>t, <1>u, <2>2 DEF Starten
    <2> QED
      BY <2>1, <2>2
  <1>2. ASSUME NEW s \in Laeufe, NEW u \in Firmen, KontaktErmitteln(s, u) PROVE Ziel
    <2>1. /\ pc' = [pc EXCEPT ![s] = "frist"]
          /\ \E z, g : arbeit' = [arbeit EXCEPT ![s] =
                 [KeineArbeit EXCEPT !.u = u, !.zeile = z, !.geaendert = g]]
      BY <1>2, Zenon DEF KontaktErmitteln
    <2>2. CASE s = r
      BY <1>t, <2>1, <2>2 DEF KeineArbeit
    <2>3. CASE s # r
      BY <1>t, <1>u, <2>1, <2>3
    <2> QED
      BY <2>2, <2>3
  <1>3. ASSUME NEW s \in Laeufe, FristBestimmen(s) PROVE Ziel
    <2>1. PICK zn, zl, m, n :
              /\ arbeit' = [arbeit EXCEPT ![s] =
                     [arbeit[s] EXCEPT !.zeile.naechster = zn, !.zeile.level = zl,
                                       !.stufe = m,
                                       !.offen = Empfaenger(arbeit[s].u, m),
                                       !.neu = n]]
              /\ pc' = [pc EXCEPT ![s] =
                     IF Empfaenger(arbeit[s].u, m) = {} THEN "speichern" ELSE "mail"]
              /\ m \in Stufen \cup {Null}
      <3>1. PICK zn, zl, m, n :
                /\ arbeit' = [arbeit EXCEPT ![s] =
                       [arbeit[s] EXCEPT !.zeile.naechster = zn, !.zeile.level = zl,
                                         !.stufe = m,
                                         !.offen = Empfaenger(arbeit[s].u, m),
                                         !.neu = n]]
                /\ pc' = [pc EXCEPT ![s] =
                       IF Empfaenger(arbeit[s].u, m) = {} THEN "speichern"
                       ELSE "mail"]
        BY <1>3, Zenon DEF FristBestimmen
      <3>2. arbeit'[s].stufe = m
        BY <1>t, <3>1 DEF Arbeit
      <3>3. arbeit'[s] \in Arbeit
        BY TypErhalten DEF TypeOK
      <3>4. m \in Stufen \cup {Null}
        BY <3>2, <3>3 DEF Arbeit
      <3> QED
        BY <3>1, <3>4
    <2>2. CASE s # r
      BY <1>t, <1>u, <2>1, <2>2
    <2>3. CASE s = r
      <3>1. arbeit[r].u \in Firmen
        BY <1>3, <2>3 DEF FristBestimmen, ArbeitHatFirma
      <3>2. arbeit'[r].u = arbeit[r].u /\ arbeit'[r].stufe = m
        BY <1>t, <2>1, <2>3 DEF Arbeit
      <3>3. pc'[r] = "mail" => m # Null
        BY <1>t, <2>1, <2>3 DEF Empfaenger
      <3> QED
        BY <2>1, <3>1, <3>2, <3>3
    <2> QED
      BY <2>2, <2>3
  <1>4. ASSUME NEW s \in Laeufe, OhneKontakt(s) PROVE Ziel
    BY <1>4, <1>t DEF OhneKontakt, ArbeitHatFirma
  <1>5. ASSUME NEW s \in Laeufe, NEW e \in Adressen,
               MailSenden(s, e) \/ MailScheitert(s, e)
        PROVE  Ziel
    <2>1. arbeit'[r].u = arbeit[r].u /\ arbeit'[r].stufe = arbeit[r].stufe
      BY <1>5, <1>t DEF MailSenden, MailScheitert, Verschickt, Arbeit
    <2>2. /\ pc[s] = "mail"
          /\ \/ pc' = [pc EXCEPT ![s] = "speichern"]
             \/ pc' = [pc EXCEPT ![s] = "mail"]
             \/ pc' = [pc EXCEPT ![s] = "abbruch"]
      BY <1>5 DEF MailSenden, MailScheitert
    <2> QED
      BY <1>t, <2>1, <2>2 DEF ArbeitHatFirma
  <1>6. ASSUME NEW s \in Laeufe, Speichern(s) \/ LaufAbbrechen(s) PROVE Ziel
    <2>1. /\ \E q \in {"unternehmen", "bereit"} : pc' = [pc EXCEPT ![s] = q]
          /\ arbeit' = [arbeit EXCEPT ![s] = KeineArbeit]
      BY <1>6 DEF Speichern, LaufAbbrechen
    <2>2. CASE s = r
      BY <1>t, <2>1, <2>2
    <2>3. CASE s # r
      BY <1>t, <1>u, <2>1, <2>3
    <2> QED
      BY <2>2, <2>3
  <1>7. ASSUME NEW s \in Laeufe, LaufBeenden(s) PROVE Ziel
    BY <1>7, <1>t DEF LaufBeenden, ArbeitHatFirma
  <1>8. ASSUME UNCHANGED <<pc, arbeit>> PROVE Ziel
    BY <1>8, <1>u
  <1>9. ASSUME Webzugriff \/ TagWechsel \/ UNCHANGED vars PROVE Ziel
    BY <1>9, <1>8 DEF Webzugriff, KontaktAnlegen, KontaktAendern, KontaktLoeschen,
       BetreuerZuweisen, Abgeben, ProjekteAendern, UnternehmenLaden,
       UnternehmenSpeichern, UpdateScoring, Schreibzugriff, TagWechsel, vars, job
  <1>10. ASSUME Neustart PROVE Ziel
    BY <1>10 DEF Neustart
  <1> HIDE DEF Ziel
  <1>11. ASSUME NEW s \in Laeufe, Laufschritt(s) PROVE Ziel
    BY <1>11, <1>2, <1>3, <1>4, <1>5, <1>6, <1>7 DEF Laufschritt
  <1>12. Ziel
    BY <1>1, <1>9, <1>10, <1>11 DEF Next
  <1> QED
    BY <1>12 DEF Ziel

\* Every state the job, its users, the calendar and restarts reach has the
\* declared types: rows stay rows, no unknown level is written, no mail of an
\* unknown stage is noted down.
THEOREM TypKorrekt == Spec => []TypeOK
  <1>1. Init => TypeOK /\ ArbeitHatFirma
    <2>1. Init => ArbeitHatFirma
      BY DEF Init, ArbeitHatFirma
    <2> QED
      BY <2>1, InitTyp
  <1>2. TypeOK /\ ArbeitHatFirma /\ [Next]_vars => (TypeOK /\ ArbeitHatFirma)'
    BY TypErhalten, ArbeitErhalten
  <1> QED
    BY <1>1, <1>2, PTL DEF Spec
------------------------------------------------------------------------------
(***************************************************************************)
(* With one worker, a mail server that works and nobody writing back an    *)
(* old company row, the warning level in the database says that the head   *)
(* office was told - for every number of companies, contacts and days, and *)
(* wherever the server stops and restarts.                                 *)
(*                                                                         *)
(* WarnungWurdeVerschickt alone is not inductive: that a run may write the *)
(* level it has worked out depends on the mail it has sent, on the row it  *)
(* loaded still having the level of the database, and on its never coming  *)
(* back to a company.                                                      *)
(***************************************************************************)
EinLauf == \A r, s \in Laeufe : r = s

M == <<"warnung", Kmu>>

\* A worker between two companies, or without a run, has nothing at hand.
Unbeschaeftigt ==
    \A r \in Laeufe : pc[r] \in {"bereit", "unternehmen"} => arbeit[r] = KeineArbeit

\* The rows a run has yet to look at, and the one it looks at, have the level
\* they had when it began.
SitzungAktuell ==
    \A r \in Laeufe : pc[r] # "bereit" =>
        /\ arbeit[r].u \notin rest[r]
        /\ \A u \in Firmen :
               u \in rest[r] \/ u = arbeit[r].u
               => sitzung[r].firma[u].level = firma[u].level

\* A warning level about to be written has its mail: still to be sent, sent
\* in this round, or already in the log.
WarnungBelegt ==
    \A r \in Laeufe :
        /\ pc[r] = "frist" => /\ arbeit[r].zeile.level = firma[arbeit[r].u].level
                              /\ ~arbeit[r].neu
        /\ pc[r] = "mail" =>
               /\ arbeit[r].stufe = arbeit[r].zeile.level
               /\ arbeit[r].stufe = "warnung" =>
                      \/ Kmu \in arbeit[r].offen
                      \/ M \in arbeit[r].raus /\ M \in post[arbeit[r].u]
        /\ pc[r] \in {"speichern", "abbruch"} /\ arbeit[r].zeile.level = "warnung" =>
               IF arbeit[r].neu THEN M \in arbeit[r].raus ELSE M \in post[arbeit[r].u]
        /\ pc[r] = "abbruch" => arbeit[r].u \in Firmen

Kern == Unbeschaeftigt /\ SitzungAktuell /\ WarnungBelegt /\ WarnungWurdeVerschickt

WarnungInv == TypeOK /\ ArbeitHatFirma /\ Kern
------------------------------------------------------------------------------
\* A pass that ends in a warning level has just reached it and mails it, or
\* found it there and left due date and level alone.
LEMMA BewerteWarnung ==
    ASSUME NEW z, NEW g \in BOOLEAN, NEW c, NEW k, NEW h,
           z.level \in Stufen \cup {Null}
    PROVE  LET b == Bewerte(z, g, c, k, h)
           IN  /\ b.mail # Null => b.mail = b.level
               /\ b.mail = Null /\ b.level = "warnung" =>
                      ~g /\ ~Verfallen(z.naechster, h) /\ z.level = "warnung"
  <1> DEFINE y == Angepasst(z, g, c, k)
  <1>1. Null # "warnung"
    BY ScoringAssumption DEF Stufen
  <1>2. CASE Verfallen(y.naechster, h)
    BY <1>1, <1>2 DEF Bewerte
  <1>3. CASE ~Verfallen(y.naechster, h)
    <2>1. CASE g
      BY <1>1, <1>3, <2>1 DEF Bewerte, Angepasst
    <2>2. CASE ~g
      BY <1>1, <1>3, <2>2 DEF Bewerte, Angepasst
    <2> QED
      BY <2>1, <2>2
  <1> QED
    BY <1>2, <1>3

LEMMA KernAmAnfang == Init => Kern
  <1> SUFFICES ASSUME Init PROVE Kern
    OBVIOUS
  <1>1. Unbeschaeftigt /\ SitzungAktuell /\ WarnungBelegt
    BY DEF Init, Unbeschaeftigt, SitzungAktuell, WarnungBelegt
  <1>2. WarnungWurdeVerschickt
    BY ScoringAssumption DEF Init, WarnungWurdeVerschickt, NeueFirma, Stufen
  <1> QED
    BY <1>1, <1>2 DEF Kern

\* Steps that touch neither the job nor company rows nor the log.
LEMMA KernUnberuehrt ==
    ASSUME Kern, UNCHANGED <<firma, job, post>>
    PROVE  Kern'
  BY DEF Kern, Unbeschaeftigt, SitzungAktuell, WarnungBelegt,
         WarnungWurdeVerschickt, job

LEMMA KernStarten ==
    ASSUME WarnungInv, EinLauf, MailFehler = FALSE, NEW r \in Laeufe, Starten(r)
    PROVE  Kern'
  <1>1. /\ pc[r] = "bereit" /\ pc' = [pc EXCEPT ![r] = "unternehmen"]
        /\ sitzung' = [sitzung EXCEPT ![r] =
                           [LeereSitzung EXCEPT !.heute = tag, !.firma = firma]]
        /\ rest' = [rest EXCEPT ![r] = Firmen]
        /\ UNCHANGED <<firma, arbeit, post>>
    BY DEF Starten, db
  <1>2. /\ pc \in [Laeufe -> Zustaende] /\ sitzung \in [Laeufe -> Sitzung]
        /\ rest \in [Laeufe -> SUBSET Firmen]
    BY DEF WarnungInv, TypeOK
  <1>3. pc'[r] = "unternehmen" /\ sitzung'[r].firma = firma /\ rest'[r] = Firmen
    BY <1>1, <1>2 DEF LeereSitzung
  <1>4. arbeit[r] = KeineArbeit
    BY <1>1 DEF WarnungInv, Kern, Unbeschaeftigt
  <1>5. arbeit[r].u = Null /\ Null \notin Firmen
    BY <1>4, JobAssumption DEF KeineArbeit
  <1>6. \A s \in Laeufe : s = r
    BY DEF EinLauf
  <1>7. Unbeschaeftigt' /\ WarnungBelegt'
    BY <1>1, <1>3, <1>4, <1>6 DEF Unbeschaeftigt, WarnungBelegt
  <1>8. SitzungAktuell'
    BY <1>1, <1>3, <1>5, <1>6 DEF SitzungAktuell
  <1>9. WarnungWurdeVerschickt'
    BY <1>1 DEF WarnungInv, Kern, WarnungWurdeVerschickt
  <1> QED
    BY <1>7, <1>8, <1>9 DEF Kern

\* The flush of a changed contact writes the company with its old level.
LEMMA KernKontaktErmitteln ==
    ASSUME WarnungInv, EinLauf, NEW r \in Laeufe, NEW u \in Firmen,
           KontaktErmitteln(r, u)
    PROVE  Kern'
  <1> DEFINE alt == sitzung[r].firma[u]
             z == [alt EXCEPT
                      !.klasse = Klasse(projekte[u], sitzung[r].heute),
                      !.letzter = Letzter(r, u)]
  <1>t. /\ pc \in [Laeufe -> Zustaende] /\ arbeit \in [Laeufe -> Arbeit]
        /\ sitzung \in [Laeufe -> Sitzung] /\ rest \in [Laeufe -> SUBSET Firmen]
        /\ firma \in [Firmen -> Zeile]
    BY DEF WarnungInv, TypeOK
  <1>1. /\ pc[r] = "unternehmen" /\ u \in rest[r]
        /\ pc' = [pc EXCEPT ![r] = "frist"]
        /\ rest' = [rest EXCEPT ![r] = @ \ {u}]
        /\ post' = post
    BY DEF KontaktErmitteln
  <1>2. \E g : arbeit' = [arbeit EXCEPT ![r] =
            [KeineArbeit EXCEPT !.u = u, !.zeile = z, !.geaendert = g]]
    BY Zenon DEF KontaktErmitteln
  <1>3. \E kopie, geladen, m :
            sitzung' = [sitzung EXCEPT ![r].kontakt = kopie,
                                       ![r].geladen = geladen,
                                       ![r].firma[u] = IF m THEN z ELSE @]
    BY Zenon DEF KontaktErmitteln
  <1>4. firma' = firma \/ firma' = [firma EXCEPT ![u] = z]
    BY DEF KontaktErmitteln
  <1>5. alt \in Zeile
    BY <1>t DEF Sitzung
  <1>6. z.level = alt.level
    BY <1>5 DEF Zeile
  <1>7. alt.level = firma[u].level
    BY <1>1 DEF WarnungInv, Kern, SitzungAktuell
  <1> HIDE DEF alt, z
  <1>8. \A v \in Firmen : firma'[v].level = firma[v].level
    BY <1>t, <1>4, <1>6, <1>7
  <1>9. \A v \in Firmen : sitzung'[r].firma[v].level = sitzung[r].firma[v].level
    BY <1>t, <1>3, <1>6 DEF Sitzung, alt
  <1>10. /\ pc'[r] = "frist" /\ rest'[r] = rest[r] \ {u}
         /\ arbeit'[r].u = u /\ arbeit'[r].zeile = z /\ ~arbeit'[r].neu
    BY <1>t, <1>1, <1>2 DEF KeineArbeit
  <1>11. \A s \in Laeufe : s = r
    BY DEF EinLauf
  <1>12. Unbeschaeftigt'
    BY <1>10, <1>11 DEF Unbeschaeftigt
  <1>13. SitzungAktuell'
    <2>1. \A v \in Firmen : v \in rest[r] => sitzung[r].firma[v].level = firma[v].level
      BY <1>1 DEF WarnungInv, Kern, SitzungAktuell
    <2> QED
      BY <2>1, <1>1, <1>8, <1>9, <1>10, <1>11 DEF SitzungAktuell
  <1>14. WarnungBelegt'
    BY <1>6, <1>7, <1>8, <1>10, <1>11 DEF WarnungBelegt
  <1>15. WarnungWurdeVerschickt'
    BY <1>1, <1>8 DEF WarnungInv, Kern, WarnungWurdeVerschickt
  <1> QED
    BY <1>12, <1>13, <1>14, <1>15 DEF Kern
LEMMA KernFristBestimmen ==
    ASSUME WarnungInv, EinLauf, NEW r \in Laeufe, FristBestimmen(r)
    PROVE  Kern'
  <1> DEFINE a == arbeit[r]
             zeile == [naechster |-> a.zeile.naechster, level |-> a.zeile.level]
             g == a.geaendert
             h == sitzung[r].heute
             b == Bewerte(zeile, g, a.zeile.klasse,
                          sitzung[r].kontakt[a.zeile.letzter], h)
             n == g \/ Verfallen(a.zeile.naechster, h)
             o == Empfaenger(a.u, b.mail)
  <1>t. /\ pc \in [Laeufe -> Zustaende] /\ arbeit \in [Laeufe -> Arbeit]
        /\ a \in Arbeit /\ a.zeile \in Zeile
    BY DEF WarnungInv, TypeOK, Arbeit
  <1>1. /\ pc[r] = "frist"
        /\ pc' = [pc EXCEPT ![r] = IF o = {} THEN "speichern" ELSE "mail"]
        /\ UNCHANGED <<firma, sitzung, rest, post>>
    BY DEF FristBestimmen, db
  <1>2. arbeit' = [arbeit EXCEPT ![r] =
            [a EXCEPT !.zeile.naechster = b.naechster, !.zeile.level = b.level,
                      !.stufe = b.mail, !.offen = o, !.neu = n]]
    BY DEF FristBestimmen
  <1>3. g \in BOOLEAN /\ zeile.level \in Stufen \cup {Null}
    BY <1>t DEF Arbeit, Zeile
  <1>4. /\ b.mail # Null => b.mail = b.level
        /\ b.mail = Null /\ b.level = "warnung" =>
               ~g /\ ~Verfallen(zeile.naechster, h) /\ zeile.level = "warnung"
    BY <1>3, BewerteWarnung
  <1>5. b.mail = "warnung" => Kmu \in o
    BY ScoringAssumption DEF Empfaenger, Stufen
  <1>6. b.mail = Null => o = {}
    BY DEF Empfaenger
  <1>7. a.zeile.level = firma[a.u].level /\ a.u \in Firmen
    BY <1>1 DEF WarnungInv, Kern, WarnungBelegt, ArbeitHatFirma
  <1>8. a.zeile.level = "warnung" => M \in post[a.u]
    BY <1>7 DEF WarnungInv, Kern, WarnungWurdeVerschickt, M
  <1> HIDE DEF b, o
  <1>9. /\ arbeit'[r].u = a.u /\ arbeit'[r].zeile.level = b.level
        /\ arbeit'[r].stufe = b.mail /\ arbeit'[r].offen = o
        /\ arbeit'[r].neu = n
    BY <1>t, <1>2 DEF Arbeit, Zeile
  <1>10. /\ o = {} => pc'[r] = "speichern"
         /\ o # {} => pc'[r] = "mail"
    BY <1>t, <1>1
  <1>11. \A s \in Laeufe : s = r
    BY DEF EinLauf
  <1>12. Unbeschaeftigt'
    BY <1>10, <1>11 DEF Unbeschaeftigt
  <1>13. SitzungAktuell'
    <2>1. /\ a.u \notin rest[r]
          /\ \A u \in Firmen :
                 u \in rest[r] \/ u = a.u
                 => sitzung[r].firma[u].level = firma[u].level
      BY <1>1 DEF WarnungInv, Kern, SitzungAktuell
    <2> HIDE DEF a
    <2> QED
      BY <2>1, <1>1, <1>9, <1>11 DEF SitzungAktuell
  <1>14. WarnungBelegt'
    <2>1. CASE o = {}
      <3>1. b.level = "warnung" => ~n /\ a.zeile.level = "warnung"
        BY <1>4, <1>5, <1>6, <2>1
      <3> QED
        BY <2>1, <3>1, <1>1, <1>8, <1>9, <1>10, <1>11 DEF WarnungBelegt
    <2>2. CASE o # {}
      BY <2>2, <1>4, <1>5, <1>6, <1>9, <1>10, <1>11 DEF WarnungBelegt
    <2> QED
      BY <2>1, <2>2
  <1>15. WarnungWurdeVerschickt'
    BY <1>1 DEF WarnungInv, Kern, WarnungWurdeVerschickt
  <1> QED
    BY <1>12, <1>13, <1>14, <1>15 DEF Kern

LEMMA KernOhneKontakt ==
    ASSUME WarnungInv, EinLauf, NEW r \in Laeufe, OhneKontakt(r)
    PROVE  Kern'
  <1>t. pc \in [Laeufe -> Zustaende]
    BY DEF WarnungInv, TypeOK
  <1>1. /\ pc[r] = "frist" /\ pc'[r] \in {"speichern", "abbruch"}
        /\ UNCHANGED <<firma, sitzung, rest, arbeit, post>>
    BY <1>t DEF OhneKontakt, db
  <1>2. /\ arbeit[r].zeile.level = firma[arbeit[r].u].level
        /\ ~arbeit[r].neu /\ arbeit[r].u \in Firmen
    BY <1>1 DEF WarnungInv, Kern, WarnungBelegt, ArbeitHatFirma
  <1>3. arbeit[r].zeile.level = "warnung" => M \in post[arbeit[r].u]
    BY <1>2 DEF WarnungInv, Kern, WarnungWurdeVerschickt, M
  <1>4. \A s \in Laeufe : s = r
    BY DEF EinLauf
  <1>5. Unbeschaeftigt' /\ WarnungBelegt'
    BY <1>1, <1>2, <1>3, <1>4 DEF Unbeschaeftigt, WarnungBelegt
  <1>6. SitzungAktuell' /\ WarnungWurdeVerschickt'
    BY <1>1, <1>4 DEF WarnungInv, Kern, SitzungAktuell, WarnungWurdeVerschickt
  <1> QED
    BY <1>5, <1>6 DEF Kern

LEMMA KernMailSenden ==
    ASSUME WarnungInv, EinLauf, NEW r \in Laeufe, NEW e \in Adressen,
           MailSenden(r, e)
    PROVE  Kern'
  <1> DEFINE a == arbeit[r]
             m == <<a.stufe, e>>
  <1>t. /\ pc \in [Laeufe -> Zustaende] /\ arbeit \in [Laeufe -> Arbeit]
        /\ a \in Arbeit /\ post \in [Firmen -> SUBSET Mails]
    BY DEF WarnungInv, TypeOK
  <1>1. /\ pc[r] = "mail" /\ e \in a.offen
        /\ pc' = [pc EXCEPT ![r] = IF a.offen = {e} THEN "speichern" ELSE "mail"]
        /\ UNCHANGED <<firma, sitzung, rest>>
    BY DEF MailSenden, db
  <1>2. a.u \in Firmen
    BY <1>1 DEF WarnungInv, ArbeitHatFirma
  <1>3. arbeit' = [arbeit EXCEPT ![r].offen = @ \ {e}, ![r].raus = @ \cup {m}]
    BY DEF MailSenden, Verschickt
  <1>4. post' = [post EXCEPT ![a.u] = @ \cup {m}]
    BY DEF MailSenden, Verschickt
  <1>5. /\ a.stufe = a.zeile.level
        /\ a.stufe = "warnung" => Kmu \in a.offen \/ (M \in a.raus /\ M \in post[a.u])
    BY <1>1 DEF WarnungInv, Kern, WarnungBelegt
  <1>6. e = Kmu /\ a.stufe = "warnung" => m = M
    BY DEF M
  <1> HIDE DEF m
  <1>7. /\ arbeit'[r].u = a.u /\ arbeit'[r].zeile = a.zeile
        /\ arbeit'[r].stufe = a.stufe /\ arbeit'[r].neu = a.neu
        /\ arbeit'[r].offen = a.offen \ {e} /\ arbeit'[r].raus = a.raus \cup {m}
    BY <1>t, <1>3 DEF Arbeit
  <1>8. post'[a.u] = post[a.u] \cup {m}
    BY <1>t, <1>2, <1>4
  <1>9. \A u \in Firmen : post[u] \subseteq post'[u]
    BY <1>t, <1>4
  <1> HIDE DEF a
  <1>10. /\ a.offen = {e} => pc'[r] = "speichern"
         /\ a.offen # {e} => pc'[r] = "mail"
    BY <1>t, <1>1
  <1>11. a.stufe = "warnung" =>
             Kmu \in a.offen \ {e} \/ (M \in a.raus \cup {m} /\ M \in post'[a.u])
    BY <1>5, <1>6, <1>8
  <1>12. \A s \in Laeufe : s = r
    BY DEF EinLauf
  <1>13. Unbeschaeftigt'
    BY <1>10, <1>12 DEF Unbeschaeftigt
  <1>14. SitzungAktuell'
    BY <1>1, <1>7, <1>12 DEF WarnungInv, Kern, SitzungAktuell, a
  <1>15. WarnungBelegt'
    <2>1. CASE a.offen = {e}
      BY <2>1, <1>5, <1>7, <1>10, <1>11, <1>12 DEF WarnungBelegt
    <2>2. CASE a.offen # {e}
      BY <2>2, <1>5, <1>7, <1>10, <1>11, <1>12 DEF WarnungBelegt
    <2> QED
      BY <2>1, <2>2
  <1>16. WarnungWurdeVerschickt'
    BY <1>1, <1>9 DEF WarnungInv, Kern, WarnungWurdeVerschickt
  <1> QED
    BY <1>13, <1>14, <1>15, <1>16 DEF Kern

\* Writing the row: a level that is written has its mail, and if the row is
\* not written although a round begins anew, it has the level it had.
LEMMA WarnungSchreiben ==
    ASSUME WarnungInv, NEW r \in Laeufe, arbeit[r].u \in Firmen,
           pc[r] \in {"speichern", "abbruch"}, Schreiben(r)
    PROVE  /\ WarnungWurdeVerschickt'
           /\ \A u \in Firmen : u # arbeit[r].u => firma'[u] = firma[u]
  <1> DEFINE a == arbeit[r]
  <1>t. /\ firma \in [Firmen -> Zeile] /\ post \in [Firmen -> SUBSET Mails]
    BY DEF WarnungInv, TypeOK
  <1>1. a.zeile.level = "warnung" => IF a.neu THEN M \in a.raus ELSE M \in post[a.u]
    BY DEF WarnungInv, Kern, WarnungBelegt
  <1>2. sitzung[r].firma[a.u].level = firma[a.u].level
    BY DEF WarnungInv, Kern, SitzungAktuell
  <1>3. firma' = IF a.zeile = sitzung[r].firma[a.u] THEN firma
                 ELSE [firma EXCEPT ![a.u] = a.zeile]
    BY DEF Schreiben
  <1>4. post' = IF a.neu THEN [post EXCEPT ![a.u] = a.raus] ELSE post
    BY DEF Schreiben
  <1>5. firma'[a.u].level = a.zeile.level
    BY <1>t, <1>2, <1>3
  <1>6. a.zeile.level = "warnung" => M \in post'[a.u]
    BY <1>t, <1>1, <1>4
  <1>7. \A u \in Firmen : u # a.u => firma'[u] = firma[u] /\ post'[u] = post[u]
    BY <1>t, <1>3, <1>4
  <1>8. \A u \in Firmen : firma[u].level = "warnung" => M \in post[u]
    BY DEF WarnungInv, Kern, WarnungWurdeVerschickt, M
  <1> HIDE DEF a
  <1>9. \A u \in Firmen : firma'[u].level = "warnung" => M \in post'[u]
    BY <1>5, <1>6, <1>7, <1>8
  <1> QED
    BY <1>7, <1>9 DEF WarnungWurdeVerschickt, M, a

LEMMA KernSpeichern ==
    ASSUME WarnungInv, EinLauf, NEW r \in Laeufe, Speichern(r)
    PROVE  Kern'
  <1>t. /\ pc \in [Laeufe -> Zustaende] /\ arbeit \in [Laeufe -> Arbeit]
        /\ rest \in [Laeufe -> SUBSET Firmen]
    BY DEF WarnungInv, TypeOK
  <1>1. /\ pc[r] = "speichern" /\ pc' = [pc EXCEPT ![r] = "unternehmen"]
        /\ arbeit' = [arbeit EXCEPT ![r] = KeineArbeit]
        /\ UNCHANGED <<sitzung, rest>>
    BY DEF Speichern
  <1>2. arbeit[r].u \in Firmen
    BY <1>1 DEF WarnungInv, ArbeitHatFirma
  <1>3. /\ WarnungWurdeVerschickt'
        /\ \A u \in Firmen : u # arbeit[r].u => firma'[u] = firma[u]
    <2>1. CASE Schreiben(r)
      BY <1>1, <1>2, <2>1, WarnungSchreiben
    <2>2. CASE UNCHANGED <<firma, post>>
      BY <2>2 DEF WarnungInv, Kern, WarnungWurdeVerschickt
    <2> QED
      BY <2>1, <2>2 DEF Speichern
  <1>4. pc'[r] = "unternehmen" /\ arbeit'[r] = KeineArbeit
    BY <1>t, <1>1
  <1>5. \A s \in Laeufe : s = r
    BY DEF EinLauf
  <1>6. Unbeschaeftigt' /\ WarnungBelegt'
    BY <1>4, <1>5 DEF Unbeschaeftigt, WarnungBelegt
  <1>7. SitzungAktuell'
    <2>1. /\ arbeit[r].u \notin rest[r]
          /\ \A u \in Firmen :
                 u \in rest[r] => sitzung[r].firma[u].level = firma[u].level
      BY <1>1 DEF WarnungInv, Kern, SitzungAktuell
    <2>2. Null \notin Firmen /\ arbeit'[r].u = Null
      BY <1>4, JobAssumption DEF KeineArbeit
    <2>3. Null \notin rest[r]
      BY <1>t, <2>2
    <2> QED
      BY <2>1, <2>2, <2>3, <1>1, <1>3, <1>5 DEF SitzungAktuell
  <1> QED
    BY <1>3, <1>6, <1>7 DEF Kern

\* The end of a run, and the flush after an exception.
LEMMA KernEnde ==
    ASSUME WarnungInv, EinLauf, NEW r \in Laeufe, LaufBeenden(r) \/ LaufAbbrechen(r)
    PROVE  Kern'
  <1>t. pc \in [Laeufe -> Zustaende] /\ arbeit \in [Laeufe -> Arbeit]
    BY DEF WarnungInv, TypeOK
  <1>1. pc'[r] = "bereit" /\ arbeit'[r] = KeineArbeit
    <2>1. CASE LaufBeenden(r)
      BY <1>t, <2>1 DEF LaufBeenden, WarnungInv, Kern, Unbeschaeftigt
    <2>2. CASE LaufAbbrechen(r)
      BY <1>t, <2>2 DEF LaufAbbrechen
    <2> QED
      BY <2>1, <2>2
  <1>2. WarnungWurdeVerschickt'
    <2>1. CASE LaufBeenden(r)
      BY <2>1 DEF LaufBeenden, WarnungInv, Kern, WarnungWurdeVerschickt, db
    <2>2. CASE LaufAbbrechen(r)
      <3>1. pc[r] = "abbruch" /\ arbeit[r].u \in Firmen
        BY <2>2 DEF LaufAbbrechen, WarnungInv, Kern, WarnungBelegt
      <3>2. Schreiben(r)
        BY <2>2, <3>1, JobAssumption DEF LaufAbbrechen
      <3> QED
        BY <3>1, <3>2, WarnungSchreiben
    <2> QED
      BY <2>1, <2>2
  <1>3. \A s \in Laeufe : s = r
    BY DEF EinLauf
  <1> QED
    BY <1>1, <1>2, <1>3 DEF Kern, Unbeschaeftigt, SitzungAktuell, WarnungBelegt

LEMMA KernNeustart ==
    ASSUME WarnungInv, Neustart
    PROVE  Kern'
  <1>1. /\ pc' = [r \in Laeufe |-> "bereit"]
        /\ arbeit' = [r \in Laeufe |-> KeineArbeit]
        /\ UNCHANGED <<firma, post>>
    BY DEF Neustart, db
  <1>2. Unbeschaeftigt' /\ SitzungAktuell' /\ WarnungBelegt'
    BY <1>1 DEF Unbeschaeftigt, SitzungAktuell, WarnungBelegt
  <1>3. WarnungWurdeVerschickt'
    BY <1>1 DEF WarnungInv, Kern, WarnungWurdeVerschickt
  <1> QED
    BY <1>2, <1>3 DEF Kern

LEMMA WarnungErhalten ==
    ASSUME WarnungInv, EinLauf, MailFehler = FALSE, Bearbeiter = {}, [Next]_vars
    PROVE  WarnungInv'
  <1>1. ASSUME NEW r \in Laeufe, Starten(r) PROVE Kern'
    BY <1>1, KernStarten
  <1>2. ASSUME NEW r \in Laeufe, Laufschritt(r) PROVE Kern'
    <2>1. ASSUME NEW e \in Adressen, MailScheitert(r, e) PROVE FALSE
      BY <2>1 DEF MailScheitert
    <2> QED
      BY <1>2, <2>1, KernKontaktErmitteln, KernFristBestimmen, KernOhneKontakt,
         KernMailSenden, KernSpeichern, KernEnde DEF Laufschritt
  <1>3. ASSUME Webzugriff PROVE Kern'
    <2>1. UNCHANGED <<firma, job, post>>
      BY <1>3 DEF Webzugriff, KontaktAnlegen, KontaktAendern, KontaktLoeschen,
         BetreuerZuweisen, Abgeben, ProjekteAendern, UnternehmenLaden,
         UnternehmenSpeichern, UpdateScoring, Schreibzugriff, db
    <2> QED
      BY <2>1, KernUnberuehrt DEF WarnungInv
  <1>4. ASSUME TagWechsel \/ UNCHANGED vars PROVE Kern'
    <2>1. UNCHANGED <<firma, job, post>>
      BY <1>4 DEF TagWechsel, vars, db
    <2> QED
      BY <2>1, KernUnberuehrt DEF WarnungInv
  <1>5. ASSUME Neustart PROVE Kern'
    BY <1>5, KernNeustart
  <1>6. Kern'
    BY <1>1, <1>2, <1>3, <1>4, <1>5 DEF Next
  <1>7. TypeOK' /\ ArbeitHatFirma'
    BY TypErhalten, ArbeitErhalten DEF WarnungInv
  <1> QED
    BY <1>6, <1>7 DEF WarnungInv

\* At every moment of a run, and after every stop: no session is ahead of its
\* database but in the company in hand, and a warning the run is about to save
\* has been sent - with one worker, mail that works and no company form open.
THEOREM WarnungInvHaelt ==
    ASSUME EinLauf, MailFehler = FALSE, Bearbeiter = {}
    PROVE  Spec => []WarnungInv
  <1>1. Init => WarnungInv
    <2>1. Init => ArbeitHatFirma
      BY DEF Init, ArbeitHatFirma
    <2> QED
      BY <2>1, InitTyp, KernAmAnfang DEF WarnungInv
  <1>2. WarnungInv /\ [Next]_vars => WarnungInv'
    BY WarnungErhalten
  <1> QED
    BY <1>1, <1>2, PTL DEF Spec

\* A warning level in the database says that the head office was told, also
\* after restarts and whatever users do to contacts, projects and supervisors
\* - as long as mails go out, one worker runs the job and nobody writes an
\* old company row back.
THEOREM WarnungVerschickt ==
    ASSUME EinLauf, MailFehler = FALSE, Bearbeiter = {}
    PROVE  Spec => []WarnungWurdeVerschickt
  <1>1. WarnungInv => WarnungWurdeVerschickt
    BY DEF WarnungInv, Kern
  <1> QED
    BY <1>1, WarnungInvHaelt, PTL
------------------------------------------------------------------------------
(***************************************************************************)
(* What an undisturbed run leaves behind, and why a level is never         *)
(* unfounded - for every number of companies, contacts, users and workers. *)
(*                                                                         *)
(* Neither is inductive.  A run leaves the levels right only because the   *)
(* rows it starts from are not ahead of their dates, wherever a copy of    *)
(* such a row is kept: in the database, in a session, in a form.  And what *)
(* it has put right stays so because it is alone, sees the contacts as     *)
(* they are, and has yet to come to the companies that are still wrong.    *)
(***************************************************************************)
\* A row whose level is not ahead of its date.
Stimmig(z, t) ==
    /\ z.level # Null => Faellig(z.naechster, t)
    /\ z.level = "warnung" => Warnreif(z.naechster, t)

StufenStimmen ==
    /\ \A u \in Firmen : Stimmig(firma[u], tag)
    /\ \A r \in Laeufe :
           /\ Stimmig(arbeit[r].zeile, tag)
           /\ \A u \in Firmen : Stimmig(sitzung[r].firma[u], tag)
           /\ pc[r] # "bereit" => sitzung[r].heute = tag
    /\ \A b \in Bearbeiter : Stimmig(formular[b].zeile, tag)

\* Class and last contact of a row are those of the data.
KundeRichtig(u, f) ==
    LET ks == KontakteMit(u)
    IN  /\ f.klasse = Klasse(projekte[u], tag)
        /\ IF f.letzter = Null THEN ks = {}
           ELSE /\ f.letzter \in ks
                /\ \A k \in ks : kontakt[k].datum <= kontakt[f.letzter].datum
                /\ ~kontakt[f.letzter].geaendert

FristRichtig(f) ==
    f.letzter # Null =>
        /\ ~Verfallen(f.naechster, tag)
        /\ Faellig(f.naechster, tag) <=> f.level # Null
        /\ Warnreif(f.naechster, tag) <=> f.level = "warnung"

\* How far the run r has come, if nothing has disturbed it.
Zwischenstand(r) ==
    /\ \A s \in Laeufe : pc[s] # "bereit" => s = r
    /\ \A k \in sitzung[r].geladen : sitzung[r].kontakt[k] = kontakt[k]
    /\ arbeit[r].u \notin rest[r]
    /\ \A u \in Firmen : u \in rest[r] \/ u = arbeit[r].u => sitzung[r].firma[u] = firma[u]
    /\ \A u \in Firmen \ Ungueltig :
           u \notin rest[r] /\ u # arbeit[r].u => RichtigBewertet(u)
    /\ pc[r] \in {"frist", "mail", "speichern"} => KundeRichtig(arbeit[r].u, arbeit[r].zeile)
    /\ pc[r] = "frist" => KontakteMit(arbeit[r].u) \subseteq sitzung[r].geladen
    /\ pc[r] \in {"mail", "speichern"} => FristRichtig(arbeit[r].zeile)

Ungestoert ==
    ~veraltet =>
        /\ \A r \in Laeufe : pc[r] \notin {"bereit", "abbruch"} => Zwischenstand(r)
        /\ NachDemLauf

LaufInv == TypeOK /\ ArbeitHatFirma /\ Unbeschaeftigt /\ StufenStimmen /\ Ungestoert
------------------------------------------------------------------------------
(* One pass over a company.                                                 *)

LEMMA StimmigWennGleich ==
    ASSUME NEW y, NEW z, NEW t, Stimmig(y, t),
           z.naechster = y.naechster, z.level = y.level
    PROVE  Stimmig(z, t)
  BY DEF Stimmig

LEMMA NeueFirmaStimmt == \A t : Stimmig(NeueFirma, t)
  BY ScoringAssumption DEF Stimmig, NeueFirma, Stufen

\* Days pass, and what was due stays due.
LEMMA StimmigSpaeter ==
    ASSUME NEW z, z.naechster \in Datum, NEW s \in Nat, NEW t \in Nat, s <= t,
           Stimmig(z, s)
    PROVE  Stimmig(z, t)
  BY ScoringAssumption DEF Stimmig, Faellig, Warnreif, Datum

\* From a row that is not ahead of its date, whatever the contact, a pass makes
\* one that is right today.
LEMMA BewerteGerecht ==
    ASSUME NEW z \in [naechster : Datum, level : Stufen \cup {Null}],
           NEW g \in BOOLEAN, NEW c \in Klassen, NEW k \in KontaktSatz,
           NEW h \in Nat, Stimmig(z, h)
    PROVE  LET b == Bewerte(z, g, c, k, h)
           IN  /\ Stimmig(b, h)
               /\ ~Verfallen(b.naechster, h)
               /\ Faellig(b.naechster, h) <=> b.level # Null
               /\ Warnreif(b.naechster, h) <=> b.level = "warnung"
  <1> DEFINE y == Angepasst(z, g, c, k)
             s == NeueStufe(y, h)
             b == Bewerte(z, g, c, k, h)
  <1>1. NeuerTermin(c, k) \in Datum /\ MatrixTermin(c, k) \in Datum
    BY MatrixTerminTyp DEF NeuerTermin, KontaktSatz
  <1>2. /\ y.naechster \in Datum /\ y.level \in Stufen \cup {Null}
        /\ Stimmig(y, h)
    <2>1. CASE g
      <3>1. y.naechster = NeuerTermin(c, k) /\ y.level = Null
        BY <2>1 DEF Angepasst
      <3> QED
        BY <3>1, <1>1, ScoringAssumption DEF Stimmig, Stufen
    <2>2. CASE ~g
      BY <2>2 DEF Angepasst
    <2> QED
      BY <2>1, <2>2
  <1>3. IF Verfallen(y.naechster, h)
        THEN b.naechster = Ersatztermin(c, k, h) /\ b.level = Null
        ELSE b.naechster = y.naechster /\ b.level = IF s = Null THEN y.level ELSE s
    BY DEF Bewerte
  <1>4. s = NeueStufe(y, h)
    OBVIOUS
  <1>5. b = Bewerte(z, g, c, k, h)
    OBVIOUS
  <1> HIDE DEF y, s, b
  <1>6. CASE Verfallen(y.naechster, h)
    <2>1. b.naechster \in Datum /\ (b.naechster # Null => b.naechster > h) /\ b.level = Null
      BY <1>1, <1>3, <1>6 DEF Ersatztermin, Datum
    <2>2. /\ ~Faellig(b.naechster, h) /\ ~Warnreif(b.naechster, h)
          /\ ~Verfallen(b.naechster, h)
      BY <2>1, ScoringAssumption DEF Faellig, Warnreif, Verfallen, Datum
    <2>3. b.level # "warnung"
      BY <2>1, ScoringAssumption DEF Stufen
    <2> QED
      BY <2>1, <2>2, <2>3, <1>5 DEF Stimmig
  <1>7. CASE ~Verfallen(y.naechster, h)
    <2>1. b.naechster = y.naechster /\ b.level = IF s = Null THEN y.level ELSE s
      BY <1>3, <1>7
    <2>2. Warnreif(y.naechster, h) => Faellig(y.naechster, h)
      BY <1>2, ScoringAssumption DEF Warnreif, Faellig, Datum
    <2>3. Null # "warnung" /\ Null # "ermahnung" /\ "warnung" # "ermahnung"
      BY ScoringAssumption DEF Stufen
    <2>4. /\ Faellig(y.naechster, h) <=> b.level # Null
          /\ Warnreif(y.naechster, h) <=> b.level = "warnung"
      <3>1. CASE ~Faellig(y.naechster, h)
        BY <1>2, <1>4, <2>1, <2>2, <2>3, <3>1 DEF NeueStufe, Stimmig
      <3>2. CASE Warnreif(y.naechster, h)
        BY <1>2, <1>4, <1>7, <2>1, <2>2, <2>3, <3>2 DEF NeueStufe, Stimmig
      <3>3. CASE Faellig(y.naechster, h) /\ ~Warnreif(y.naechster, h)
        <4>1. y.level # "warnung"
          BY <1>2, <3>3 DEF Stimmig
        <4>2. s = IF y.level = Null THEN "ermahnung" ELSE Null
          BY <1>4, <1>7, <3>3, <4>1 DEF NeueStufe
        <4> QED
          BY <1>2, <2>1, <2>3, <3>3, <4>1, <4>2 DEF Stufen
      <3> QED
        BY <3>1, <3>2, <3>3
    <2> QED
      BY <2>1, <2>4, <1>5, <1>7 DEF Stimmig
  <1> QED
    BY <1>6, <1>7
------------------------------------------------------------------------------
(* What the steps of a run do.                                              *)

\* The run and what it has at hand, and the rows it writes.
LEMMA ErmittelnWirkt ==
    ASSUME TypeOK, NEW r \in Laeufe, NEW u \in Firmen, KontaktErmitteln(r, u)
    PROVE  LET k == Letzter(r, u)
               markiert == k # Null /\ Gesehen(r, k).geaendert
           IN  /\ pc[r] = "unternehmen" /\ u \in rest[r]
               /\ pc' = [pc EXCEPT ![r] = "frist"]
               /\ rest'[r] = rest[r] \ {u}
               /\ \A s \in Laeufe \ {r} : arbeit'[s] = arbeit[s] /\ sitzung'[s] = sitzung[s]
               /\ arbeit'[r].u = u
               /\ arbeit'[r].zeile.klasse = Klasse(projekte[u], sitzung[r].heute)
               /\ arbeit'[r].zeile.letzter = k
               /\ arbeit'[r].zeile.naechster = sitzung[r].firma[u].naechster
               /\ arbeit'[r].zeile.level = sitzung[r].firma[u].level
               /\ sitzung'[r].heute = sitzung[r].heute
               /\ sitzung'[r].geladen = sitzung[r].geladen \cup KontakteMit(u)
               /\ sitzung'[r].firma = [sitzung[r].firma EXCEPT
                                          ![u] = IF markiert THEN arbeit'[r].zeile ELSE @]
               /\ UNCHANGED <<projekte, betreuer, umwelt, post, veraltet>>
  <1> DEFINE k == Letzter(r, u)
             alt == sitzung[r].firma[u]
             z == [alt EXCEPT !.klasse = Klasse(projekte[u], sitzung[r].heute),
                              !.letzter = k]
             markiert == k # Null /\ Gesehen(r, k).geaendert
             kopie == [j \in Kontakte |->
                          IF j \notin KontakteMit(u) THEN sitzung[r].kontakt[j]
                          ELSE IF markiert /\ j = k
                               THEN [Gesehen(r, j) EXCEPT !.geaendert = FALSE]
                               ELSE Gesehen(r, j)]
             neu == [KeineArbeit EXCEPT !.u = u, !.zeile = z,
                                        !.geaendert = k # alt.letzter \/ markiert]
  <1>1. alt \in Zeile /\ sitzung[r] \in Sitzung /\ sitzung \in [Laeufe -> Sitzung]
    BY DEF TypeOK, Sitzung
  <1>2. /\ z.klasse = Klasse(projekte[u], sitzung[r].heute) /\ z.letzter = k
        /\ z.naechster = alt.naechster /\ z.level = alt.level
    BY <1>1 DEF Zeile
  <1>3. /\ pc[r] = "unternehmen" /\ u \in rest[r]
        /\ pc' = [pc EXCEPT ![r] = "frist"]
        /\ rest' = [rest EXCEPT ![r] = @ \ {u}]
        /\ arbeit' = [arbeit EXCEPT ![r] = neu]
        /\ sitzung' = [sitzung EXCEPT
               ![r].kontakt = kopie,
               ![r].geladen = @ \cup KontakteMit(u),
               ![r].firma[u] = IF markiert THEN z ELSE @]
        /\ UNCHANGED <<projekte, betreuer, umwelt, post, veraltet>>
    BY DEF KontaktErmitteln
  <1>4. neu.u = u /\ neu.zeile = z
    BY DEF KeineArbeit
  <1>m. markiert = (k # Null /\ Gesehen(r, k).geaendert)
    OBVIOUS
  <1>k. k = Letzter(r, u)
    OBVIOUS
  <1> HIDE DEF neu, kopie, z, markiert, k
  <1>5. arbeit'[r] = neu /\ rest'[r] = rest[r] \ {u}
    BY <1>3 DEF TypeOK
  <1>6. \A s \in Laeufe \ {r} : arbeit'[s] = arbeit[s] /\ sitzung'[s] = sitzung[s]
    BY <1>3 DEF TypeOK
  <1>7. /\ sitzung'[r].heute = sitzung[r].heute
        /\ sitzung'[r].geladen = sitzung[r].geladen \cup KontakteMit(u)
        /\ sitzung'[r].firma = [sitzung[r].firma EXCEPT ![u] = IF markiert THEN z ELSE @]
    BY <1>1, <1>3 DEF Sitzung
  <1> QED
    BY <1>2, <1>3, <1>4, <1>5, <1>6, <1>7, <1>m, <1>k

\* ... and the contacts, in the session and in the table.
LEMMA ErmittelnKontakte ==
    ASSUME TypeOK, NEW r \in Laeufe, NEW u \in Firmen, KontaktErmitteln(r, u)
    PROVE  LET k == Letzter(r, u)
               markiert == k # Null /\ Gesehen(r, k).geaendert
           IN  /\ \A j \in Kontakte :
                      /\ j \notin KontakteMit(u) =>
                             sitzung'[r].kontakt[j] = sitzung[r].kontakt[j]
                      /\ j \in KontakteMit(u) /\ ~(markiert /\ j = k) =>
                             sitzung'[r].kontakt[j] = Gesehen(r, j)
                      /\ j # k \/ ~markiert => kontakt'[j] = kontakt[j]
               /\ markiert =>
                      LET n == [Gesehen(r, k) EXCEPT !.geaendert = FALSE]
                      IN  /\ sitzung'[r].kontakt[k] = n
                          /\ kontakt'[k] = [n EXCEPT !.firmen = kontakt[k].firmen]
               /\ firma' = IF markiert /\ arbeit'[r].zeile # sitzung[r].firma[u]
                           THEN [firma EXCEPT ![u] = arbeit'[r].zeile] ELSE firma
  <1> DEFINE k == Letzter(r, u)
             alt == sitzung[r].firma[u]
             z == [alt EXCEPT !.klasse = Klasse(projekte[u], sitzung[r].heute),
                              !.letzter = k]
             markiert == k # Null /\ Gesehen(r, k).geaendert
             n == [Gesehen(r, k) EXCEPT !.geaendert = FALSE]
             kopie == [j \in Kontakte |->
                          IF j \notin KontakteMit(u) THEN sitzung[r].kontakt[j]
                          ELSE IF markiert /\ j = k
                               THEN [Gesehen(r, j) EXCEPT !.geaendert = FALSE]
                               ELSE Gesehen(r, j)]
             neu == [KeineArbeit EXCEPT !.u = u, !.zeile = z,
                                        !.geaendert = k # alt.letzter \/ markiert]
  <1>1. sitzung[r] \in Sitzung /\ sitzung \in [Laeufe -> Sitzung]
    BY DEF TypeOK
  <1>2. /\ arbeit' = [arbeit EXCEPT ![r] = neu]
        /\ sitzung' = [sitzung EXCEPT
               ![r].kontakt = kopie,
               ![r].geladen = @ \cup KontakteMit(u),
               ![r].firma[u] = IF markiert THEN z ELSE @]
        /\ IF markiert
           THEN /\ kontakt' = [kontakt EXCEPT ![k] =
                                  [kopie[k] EXCEPT !.firmen = kontakt[k].firmen]]
                /\ firma' = IF z = alt THEN firma ELSE [firma EXCEPT ![u] = z]
           ELSE UNCHANGED <<kontakt, firma>>
    BY DEF KontaktErmitteln
  <1>3. neu.zeile = z
    BY DEF KeineArbeit
  <1>4. \A j \in Kontakte :
            /\ j \notin KontakteMit(u) => kopie[j] = sitzung[r].kontakt[j]
            /\ j \in KontakteMit(u) /\ ~(markiert /\ j = k) => kopie[j] = Gesehen(r, j)
    OBVIOUS
  <1>5. markiert => k \in Kontakte /\ kopie[k] = n
    BY LetzterIstLetzter
  <1>m. markiert = (k # Null /\ Gesehen(r, k).geaendert)
    OBVIOUS
  <1>k. k = Letzter(r, u) /\ n = [Gesehen(r, k) EXCEPT !.geaendert = FALSE]
    OBVIOUS
  <1>a. alt = sitzung[r].firma[u]
    OBVIOUS
  <1> HIDE DEF neu, kopie, z, markiert, k, n, alt
  <1>6. arbeit'[r].zeile = z
    BY <1>2, <1>3 DEF TypeOK
  <1>7. sitzung'[r].kontakt = kopie
    BY <1>1, <1>2 DEF Sitzung
  <1>8. markiert => kontakt'[k] = [n EXCEPT !.firmen = kontakt[k].firmen]
    BY <1>2, <1>5 DEF TypeOK
  <1>9. \A j \in Kontakte : j # k \/ ~markiert => kontakt'[j] = kontakt[j]
    BY <1>2 DEF TypeOK
  <1>10. firma' = IF markiert /\ arbeit'[r].zeile # alt
                 THEN [firma EXCEPT ![u] = arbeit'[r].zeile] ELSE firma
    BY <1>2, <1>6
  <1> QED
    BY <1>4, <1>5, <1>7, <1>8, <1>9, <1>10, <1>m, <1>k, <1>a

LEMMA FristWirkt ==
    ASSUME TypeOK, ArbeitHatFirma, StufenStimmen, NEW r \in Laeufe, FristBestimmen(r)
    PROVE  /\ pc[r] = "frist" /\ pc'[r] \in {"mail", "speichern"}
           /\ \A s \in Laeufe \ {r} : pc'[s] = pc[s] /\ arbeit'[s] = arbeit[s]
           /\ arbeit'[r].u = arbeit[r].u
           /\ arbeit'[r].zeile.klasse = arbeit[r].zeile.klasse
           /\ arbeit'[r].zeile.letzter = arbeit[r].zeile.letzter
           /\ Stimmig(arbeit'[r].zeile, tag)
           /\ FristRichtig(arbeit'[r].zeile)
  <1> DEFINE a == arbeit[r]
             k == a.zeile.letzter
             zeile == [naechster |-> a.zeile.naechster, level |-> a.zeile.level]
             b == Bewerte(zeile, a.geaendert, a.zeile.klasse,
                          sitzung[r].kontakt[k], sitzung[r].heute)
             a2 == [a EXCEPT !.zeile.naechster = b.naechster,
                             !.zeile.level = b.level,
                             !.stufe = b.mail,
                             !.offen = Empfaenger(a.u, b.mail),
                             !.neu = \/ a.geaendert
                                     \/ Verfallen(a.zeile.naechster, sitzung[r].heute)]
  <1>1. a \in Arbeit /\ a.zeile \in Zeile
    BY DEF TypeOK, Arbeit
  <1>2. /\ pc[r] = "frist" /\ k # Null
        /\ arbeit' = [arbeit EXCEPT ![r] = a2]
        /\ pc' = [pc EXCEPT ![r] = IF Empfaenger(a.u, b.mail) = {} THEN "speichern"
                                   ELSE "mail"]
    BY DEF FristBestimmen
  <1>3. sitzung[r].heute = tag /\ tag \in Nat
    BY <1>2, JobAssumption DEF StufenStimmen, TypeOK
  <1>4. k \in Kontakte /\ sitzung[r].kontakt[k] \in KontaktSatz
    BY <1>1, <1>2 DEF Zeile, TypeOK, Sitzung
  <1>5. /\ zeile \in [naechster : Datum, level : Stufen \cup {Null}]
        /\ a.geaendert \in BOOLEAN /\ a.zeile.klasse \in Klassen
    BY <1>1 DEF Zeile, Arbeit
  <1>6. Stimmig(zeile, tag)
    <2>1. Stimmig(a.zeile, tag)
      BY DEF StufenStimmen
    <2>2. zeile.naechster = a.zeile.naechster /\ zeile.level = a.zeile.level
      OBVIOUS
    <2> HIDE DEF zeile, a
    <2> QED
      BY <2>1, <2>2, StimmigWennGleich
  <1>7. /\ Stimmig(b, tag)
        /\ ~Verfallen(b.naechster, tag)
        /\ Faellig(b.naechster, tag) <=> b.level # Null
        /\ Warnreif(b.naechster, tag) <=> b.level = "warnung"
    <2> HIDE DEF zeile, a, k
    <2> QED
      BY <1>3, <1>4, <1>5, <1>6, BewerteGerecht
  <1>8. /\ a2.u = a.u /\ a2.zeile.klasse = a.zeile.klasse /\ a2.zeile.letzter = k
        /\ a2.zeile.naechster = b.naechster /\ a2.zeile.level = b.level
    <2> HIDE DEF b
    <2> QED
      BY <1>1 DEF Arbeit, Zeile
  <1>k. k = arbeit[r].zeile.letzter /\ a = arbeit[r]
    OBVIOUS
  <1> HIDE DEF a2, b, a, k
  <1>9. arbeit'[r] = a2 /\ pc'[r] \in {"mail", "speichern"}
    BY <1>2 DEF TypeOK
  <1>10. \A s \in Laeufe \ {r} : pc'[s] = pc[s] /\ arbeit'[s] = arbeit[s]
    BY <1>2 DEF TypeOK
  <1>11. Stimmig(a2.zeile, tag)
    BY <1>7, <1>8 DEF Stimmig
  <1>12. FristRichtig(a2.zeile)
    BY <1>7, <1>8 DEF FristRichtig
  <1> QED
    BY <1>2, <1>8, <1>9, <1>10, <1>11, <1>12, <1>k

LEMMA MailWirkt ==
    ASSUME TypeOK, NEW r \in Laeufe, NEW e \in Adressen,
           MailSenden(r, e) \/ MailScheitert(r, e)
    PROVE  /\ pc[r] = "mail" /\ pc'[r] \in {"mail", "speichern", "abbruch"}
           /\ \A s \in Laeufe \ {r} : pc'[s] = pc[s]
           /\ \A s \in Laeufe : arbeit'[s].u = arbeit[s].u /\ arbeit'[s].zeile = arbeit[s].zeile
           /\ UNCHANGED <<db, sitzung, rest, umwelt, veraltet>>
  <1>1. ASSUME Verschickt(r, e)
        PROVE  \A s \in Laeufe : /\ arbeit'[s].u = arbeit[s].u
                                 /\ arbeit'[s].zeile = arbeit[s].zeile
    BY <1>1 DEF Verschickt, TypeOK, Arbeit
  <1>2. /\ pc[r] = "mail" /\ pc'[r] \in {"mail", "speichern", "abbruch"}
        /\ \A s \in Laeufe \ {r} : pc'[s] = pc[s]
    BY DEF MailSenden, MailScheitert, TypeOK
  <1>3. UNCHANGED <<db, sitzung, rest, umwelt, veraltet>>
    BY DEF MailSenden, MailScheitert
  <1>4. Verschickt(r, e) \/ arbeit' = arbeit
    BY DEF MailSenden, MailScheitert
  <1> QED
    BY <1>1, <1>2, <1>3, <1>4

\* A flush writes the row at hand or leaves the table as it is.
LEMMA SchreibenWirkt ==
    ASSUME TypeOK, NEW r \in Laeufe, arbeit[r].u \in Firmen, Schreiben(r)
    PROVE  /\ \A u \in Firmen : u # arbeit[r].u => firma'[u] = firma[u]
           /\ \/ firma' = firma /\ arbeit[r].zeile = sitzung[r].firma[arbeit[r].u]
              \/ firma'[arbeit[r].u] = arbeit[r].zeile
  BY DEF Schreiben, TypeOK

\* Every row of the table is as before, or what a run had at hand.
LEMMA EndeWirkt ==
    ASSUME TypeOK, ArbeitHatFirma, NEW r \in Laeufe,
           Speichern(r) \/ LaufBeenden(r) \/ LaufAbbrechen(r)
    PROVE  /\ \A u \in Firmen : firma'[u] \in {firma[u], arbeit[r].zeile}
           /\ \A s \in Laeufe \ {r} : /\ pc'[s] = pc[s] /\ arbeit'[s] = arbeit[s]
                                      /\ sitzung'[s] = sitzung[s]
           /\ arbeit'[r] \in {arbeit[r], KeineArbeit}
           /\ sitzung'[r] \in {sitzung[r], LeereSitzung}
           /\ pc'[r] = "bereit" \/ (pc[r] # "bereit" /\ sitzung' = sitzung)
           /\ UNCHANGED <<kontakt, projekte, betreuer, umwelt>>
  <1>1. \A u \in Firmen : firma'[u] \in {firma[u], arbeit[r].zeile}
    <2>1. ASSUME Schreiben(r), arbeit[r].u \in Firmen
          PROVE  \A u \in Firmen : firma'[u] \in {firma[u], arbeit[r].zeile}
      BY <2>1, SchreibenWirkt
    <2>2. arbeit[r].u \in Firmen \cup {Null}
      BY DEF TypeOK, Arbeit
    <2>3. CASE Speichern(r)
      BY <2>1, <2>3 DEF Speichern, ArbeitHatFirma
    <2>4. CASE LaufBeenden(r)
      BY <2>4 DEF LaufBeenden, db
    <2>5. CASE LaufAbbrechen(r)
      BY <2>1, <2>2, <2>5 DEF LaufAbbrechen
    <2> QED
      BY <2>3, <2>4, <2>5
  <1> QED
    BY <1>1 DEF Speichern, LaufBeenden, LaufAbbrechen, TypeOK, db
------------------------------------------------------------------------------
(* No copy of a row is ahead of its date.                                   *)

LEMMA StufenAmAnfang == Init => StufenStimmen
  <1> SUFFICES ASSUME Init PROVE StufenStimmen
    OBVIOUS
  <1>1. /\ \A u \in Firmen : firma[u] = NeueFirma
        /\ \A r \in Laeufe : /\ pc[r] = "bereit" /\ arbeit[r].zeile = NeueFirma
                             /\ \A u \in Firmen : sitzung[r].firma[u] = NeueFirma
        /\ \A b \in Bearbeiter : formular[b].zeile = NeueFirma
    BY DEF Init, KeineArbeit, LeereSitzung
  <1> QED
    BY <1>1, NeueFirmaStimmt DEF StufenStimmen

LEMMA StufenLauf ==
    ASSUME TypeOK, ArbeitHatFirma, StufenStimmen, NEW r \in Laeufe,
           Starten(r) \/ Laufschritt(r)
    PROVE  StufenStimmen'
  <1>t. /\ pc \in [Laeufe -> Zustaende] /\ sitzung \in [Laeufe -> Sitzung]
        /\ arbeit \in [Laeufe -> Arbeit] /\ firma \in [Firmen -> Zeile]
    BY DEF TypeOK
  <1>l. KeineArbeit.zeile = NeueFirma /\ \A u \in Firmen : LeereSitzung.firma[u] = NeueFirma
    BY DEF KeineArbeit, LeereSitzung
  <1>1. CASE Starten(r)
    <2>1. /\ UNCHANGED <<firma, arbeit, tag, formular>>
          /\ \A s \in Laeufe \ {r} : pc'[s] = pc[s] /\ sitzung'[s] = sitzung[s]
          /\ sitzung'[r].heute = tag /\ sitzung'[r].firma = firma
      BY <1>1, <1>t DEF Starten, db, LeereSitzung
    <2> QED
      BY <2>1 DEF StufenStimmen
  <1>2. ASSUME NEW u \in Firmen, KontaktErmitteln(r, u) PROVE StufenStimmen'
    <2> DEFINE k == Letzter(r, u)
               markiert == k # Null /\ Gesehen(r, k).geaendert
    <2>1. /\ pc[r] = "unternehmen"
          /\ pc' = [pc EXCEPT ![r] = "frist"]
          /\ \A s \in Laeufe \ {r} : arbeit'[s] = arbeit[s] /\ sitzung'[s] = sitzung[s]
          /\ arbeit'[r].zeile.naechster = sitzung[r].firma[u].naechster
          /\ arbeit'[r].zeile.level = sitzung[r].firma[u].level
          /\ sitzung'[r].heute = sitzung[r].heute
          /\ sitzung'[r].firma = [sitzung[r].firma EXCEPT
                                     ![u] = IF markiert THEN arbeit'[r].zeile ELSE @]
          /\ UNCHANGED <<tag, formular>>
      BY <1>2, ErmittelnWirkt DEF umwelt
    <2>2. firma' = IF markiert /\ arbeit'[r].zeile # sitzung[r].firma[u]
                  THEN [firma EXCEPT ![u] = arbeit'[r].zeile] ELSE firma
      BY <1>2, ErmittelnKontakte
    <2> HIDE DEF markiert, k
    <2>3. Stimmig(arbeit'[r].zeile, tag)
      BY <2>1, StimmigWennGleich DEF StufenStimmen
    <2>4. \A v \in Firmen : firma'[v] \in {firma[v], arbeit'[r].zeile}
      BY <2>2, <1>t
    <2>5. \A v \in Firmen : sitzung'[r].firma[v] \in {sitzung[r].firma[v], arbeit'[r].zeile}
      BY <2>1, <1>t DEF Sitzung
    <2>6. \A s \in Laeufe : pc'[s] # "bereit" => sitzung'[s].heute = tag
      BY <2>1, <1>t DEF StufenStimmen
    <2>7. \A v \in Firmen : Stimmig(firma'[v], tag)
      BY <2>3, <2>4 DEF StufenStimmen
    <2>8. \A v \in Firmen : Stimmig(sitzung'[r].firma[v], tag)
      BY <2>3, <2>5 DEF StufenStimmen
    <2> QED
      BY <2>1, <2>3, <2>6, <2>7, <2>8 DEF StufenStimmen
  <1>3. CASE FristBestimmen(r)
    <2>1. UNCHANGED <<firma, sitzung, tag, formular>>
      BY <1>3 DEF FristBestimmen, db, umwelt
    <2>2. /\ pc[r] = "frist"
          /\ \A s \in Laeufe \ {r} : pc'[s] = pc[s] /\ arbeit'[s] = arbeit[s]
          /\ Stimmig(arbeit'[r].zeile, tag)
      BY <1>3, FristWirkt
    <2> QED
      BY <2>1, <2>2 DEF StufenStimmen
  <1>4. CASE OhneKontakt(r)
    <2>1. /\ UNCHANGED <<firma, sitzung, arbeit, tag, formular>> /\ pc[r] = "frist"
          /\ \A s \in Laeufe \ {r} : pc'[s] = pc[s]
      BY <1>4, <1>t DEF OhneKontakt, db, umwelt
    <2> QED
      BY <2>1 DEF StufenStimmen
  <1>5. ASSUME NEW e \in Adressen, MailSenden(r, e) \/ MailScheitert(r, e)
        PROVE  StufenStimmen'
    <2>1. /\ UNCHANGED <<firma, sitzung, tag, formular>> /\ pc[r] = "mail"
          /\ \A s \in Laeufe \ {r} : pc'[s] = pc[s]
          /\ \A s \in Laeufe : arbeit'[s].zeile = arbeit[s].zeile
      BY <1>5, MailWirkt DEF db, umwelt
    <2> QED
      BY <2>1 DEF StufenStimmen
  <1>6. CASE Speichern(r) \/ LaufBeenden(r) \/ LaufAbbrechen(r)
    <2>1. /\ \A u \in Firmen : firma'[u] \in {firma[u], arbeit[r].zeile}
          /\ \A s \in Laeufe \ {r} : /\ pc'[s] = pc[s] /\ arbeit'[s] = arbeit[s]
                                     /\ sitzung'[s] = sitzung[s]
          /\ arbeit'[r] \in {arbeit[r], KeineArbeit}
          /\ sitzung'[r] \in {sitzung[r], LeereSitzung}
          /\ pc'[r] = "bereit" \/ (pc[r] # "bereit" /\ sitzung' = sitzung)
          /\ UNCHANGED <<tag, formular>>
      BY <1>6, EndeWirkt DEF umwelt
    <2>2. \A u \in Firmen : Stimmig(firma'[u], tag)
      BY <2>1 DEF StufenStimmen
    <2>3. /\ Stimmig(arbeit'[r].zeile, tag)
          /\ \A u \in Firmen : Stimmig(sitzung'[r].firma[u], tag)
      BY <2>1, <1>l, NeueFirmaStimmt DEF StufenStimmen
    <2> QED
      BY <2>1, <2>2, <2>3 DEF StufenStimmen
  <1> QED
    BY <1>1, <1>2, <1>3, <1>4, <1>5, <1>6 DEF Laufschritt

LEMMA StufenWeb ==
    ASSUME TypeOK, StufenStimmen, Webzugriff
    PROVE  StufenStimmen'
  <1>t. /\ firma \in [Firmen -> Zeile]
        /\ formular \in [Bearbeiter -> [u : Firmen \cup {Null}, zeile : Zeile]]
    BY DEF TypeOK
  <1>1. CASE UNCHANGED <<firma, formular>>
    <2>1. UNCHANGED <<job, tag>>
      BY DEF Webzugriff, KontaktAnlegen, KontaktAendern, KontaktLoeschen,
         BetreuerZuweisen, Abgeben, ProjekteAendern, UnternehmenLaden,
         UnternehmenSpeichern, UpdateScoring, Schreibzugriff
    <2> QED
      BY <1>1, <2>1 DEF StufenStimmen, job
  <1>2. ASSUME NEW b \in Bearbeiter, NEW u \in Firmen, UnternehmenLaden(b, u)
        PROVE  StufenStimmen'
    <2>1. /\ UNCHANGED <<firma, pc, arbeit, sitzung, tag>>
          /\ \A c \in Bearbeiter : formular'[c].zeile \in {formular[c].zeile, firma[u]}
      BY <1>2, <1>t DEF UnternehmenLaden, db, job
    <2>2. \A c \in Bearbeiter : Stimmig(formular'[c].zeile, tag)
      BY <2>1 DEF StufenStimmen
    <2> QED
      BY <2>1, <2>2 DEF StufenStimmen
  <1>3. ASSUME NEW b \in Bearbeiter, UnternehmenSpeichern(b) PROVE StufenStimmen'
    <2>1. /\ UNCHANGED <<pc, arbeit, sitzung, tag>>
          /\ \A u \in Firmen : firma'[u] \in {firma[u], formular[b].zeile}
          /\ \A c \in Bearbeiter : formular'[c].zeile \in {formular[c].zeile, NeueFirma}
      BY <1>3, <1>t DEF UnternehmenSpeichern, Schreibzugriff, job
    <2>2. \A c \in Bearbeiter : Stimmig(formular'[c].zeile, tag)
      BY <2>1, NeueFirmaStimmt DEF StufenStimmen
    <2>3. \A u \in Firmen : Stimmig(firma'[u], tag)
      BY <2>1 DEF StufenStimmen
    <2> QED
      BY <2>1, <2>2, <2>3 DEF StufenStimmen
  <1> QED
    BY <1>1, <1>2, <1>3
       DEF Webzugriff, KontaktAnlegen, KontaktAendern, KontaktLoeschen,
           BetreuerZuweisen, Abgeben, ProjekteAendern, UpdateScoring, db

LEMMA StufenErhalten ==
    ASSUME TypeOK, ArbeitHatFirma, StufenStimmen, [Next]_vars
    PROVE  StufenStimmen'
  <1>1. CASE TagWechsel
    <2>1. /\ UNCHANGED <<firma, job, formular>> /\ \A r \in Laeufe : pc[r] = "bereit"
          /\ tag \in Nat /\ tag' \in Nat /\ tag <= tag'
      BY <1>1, JobAssumption DEF TagWechsel, TypeOK, AlleBereit, db
    <2>2. /\ \A u \in Firmen : firma[u].naechster \in Datum
          /\ \A r \in Laeufe : /\ arbeit[r].zeile.naechster \in Datum
                               /\ \A u \in Firmen : sitzung[r].firma[u].naechster \in Datum
          /\ \A b \in Bearbeiter : formular[b].zeile.naechster \in Datum
      BY DEF TypeOK, Zeile, Arbeit, Sitzung
    <2>3. /\ \A u \in Firmen : Stimmig(firma[u], tag')
          /\ \A r \in Laeufe : /\ Stimmig(arbeit[r].zeile, tag')
                               /\ \A u \in Firmen : Stimmig(sitzung[r].firma[u], tag')
          /\ \A b \in Bearbeiter : Stimmig(formular[b].zeile, tag')
      BY <2>1, <2>2, StimmigSpaeter DEF StufenStimmen
    <2> QED
      BY <2>1, <2>3 DEF StufenStimmen, job
  <1>2. CASE Neustart
    <2>1. /\ UNCHANGED <<firma, tag>>
          /\ \A r \in Laeufe : /\ pc'[r] = "bereit" /\ arbeit'[r].zeile = NeueFirma
                               /\ \A u \in Firmen : sitzung'[r].firma[u] = NeueFirma
          /\ \A b \in Bearbeiter : formular'[b].zeile = NeueFirma
      BY <1>2 DEF Neustart, db, LeereSitzung, KeineArbeit
    <2> QED
      BY <2>1, NeueFirmaStimmt DEF StufenStimmen
  <1>3. CASE UNCHANGED vars
    BY <1>3 DEF vars, db, job, umwelt, StufenStimmen
  <1> QED
    BY <1>1, <1>2, <1>3, StufenLauf, StufenWeb DEF Next
------------------------------------------------------------------------------
(* A run that nothing disturbs.                                             *)

\* As long as the run goes on, only its own state has to be shown.
LEMMA NurZwischenstand ==
    ASSUME NEW r \in Laeufe, ~veraltet, Ungestoert,
           pc[r] \notin {"bereit", "abbruch"}, pc'[r] # "bereit",
           \A s \in Laeufe \ {r} : pc'[s] = pc[s],
           pc'[r] = "abbruch" \/ Zwischenstand(r)'
    PROVE  Ungestoert'
  <1>1. \A s \in Laeufe : pc[s] # "bereit" => s = r
    BY DEF Ungestoert, Zwischenstand
  <1>2. \A s \in Laeufe : pc'[s] # "bereit" => s = r
    BY <1>1
  <1>3. NachDemLauf'
    BY DEF NachDemLauf, AlleBereit
  <1> QED
    BY <1>2, <1>3 DEF Ungestoert

LEMMA ErmittelnUngestoert ==
    ASSUME LaufInv, ~veraltet, NEW r \in Laeufe, NEW u \in Firmen,
           KontaktErmitteln(r, u)
    PROVE  Ungestoert'
  <1> DEFINE k == Letzter(r, u)
             markiert == k # Null /\ Gesehen(r, k).geaendert
             n == [Gesehen(r, k) EXCEPT !.geaendert = FALSE]
  <1>t. /\ TypeOK /\ pc \in [Laeufe -> Zustaende] /\ firma \in [Firmen -> Zeile]
        /\ sitzung[r] \in Sitzung /\ Null \notin Firmen
    BY JobAssumption DEF LaufInv, TypeOK
  <1>1. /\ pc[r] = "unternehmen" /\ u \in rest[r]
        /\ pc' = [pc EXCEPT ![r] = "frist"]
        /\ rest'[r] = rest[r] \ {u}
        /\ arbeit'[r].u = u
        /\ arbeit'[r].zeile.klasse = Klasse(projekte[u], sitzung[r].heute)
        /\ arbeit'[r].zeile.letzter = k
        /\ sitzung'[r].geladen = sitzung[r].geladen \cup KontakteMit(u)
        /\ sitzung'[r].firma = [sitzung[r].firma EXCEPT
                                   ![u] = IF markiert THEN arbeit'[r].zeile ELSE @]
        /\ UNCHANGED <<projekte, tag, veraltet>>
    BY <1>t, ErmittelnWirkt DEF umwelt
  <1>2. /\ \A j \in Kontakte :
               /\ j \notin KontakteMit(u) => sitzung'[r].kontakt[j] = sitzung[r].kontakt[j]
               /\ j \in KontakteMit(u) /\ ~(markiert /\ j = k) =>
                      sitzung'[r].kontakt[j] = Gesehen(r, j)
               /\ j # k \/ ~markiert => kontakt'[j] = kontakt[j]
        /\ markiert => /\ sitzung'[r].kontakt[k] = n
                       /\ kontakt'[k] = [n EXCEPT !.firmen = kontakt[k].firmen]
        /\ firma' = IF markiert /\ arbeit'[r].zeile # sitzung[r].firma[u]
                    THEN [firma EXCEPT ![u] = arbeit'[r].zeile] ELSE firma
    BY <1>t, ErmittelnKontakte
  <1>3. /\ KontakteMit(u) \subseteq Kontakte
        /\ k = Null => KontakteMit(u) = {}
        /\ k # Null => /\ k \in KontakteMit(u)
                       /\ \A j \in KontakteMit(u) :
                              Gesehen(r, j).datum <= Gesehen(r, k).datum
    BY <1>t, LetzterIstLetzter
  <1>4. Zwischenstand(r)
    BY <1>1 DEF LaufInv, Ungestoert
  <1>5. arbeit[r].u = Null
    BY <1>1 DEF LaufInv, Unbeschaeftigt, KeineArbeit
  <1>6. \A j \in Kontakte : Gesehen(r, j) = kontakt[j]
    BY <1>4 DEF Zwischenstand, Gesehen
  <1>7. sitzung[r].heute = tag
    BY <1>1 DEF LaufInv, StufenStimmen
  <1>8. markiert => /\ k \in KontakteMit(u) /\ k \in Kontakte
                    /\ n = [kontakt[k] EXCEPT !.geaendert = FALSE]
                    /\ kontakt[k] \in KontaktSatz
    BY <1>3, <1>6, <1>t DEF TypeOK
  <1>m. /\ k # Null /\ ~markiert => ~Gesehen(r, k).geaendert
        /\ markiert => k # Null
    OBVIOUS
  <1> HIDE DEF k, markiert, n
  <1>9. markiert => kontakt'[k] = n
    BY <1>2, <1>8 DEF KontaktSatz
  <1>10. markiert => n.datum = kontakt[k].datum /\ n.firmen = kontakt[k].firmen /\ ~n.geaendert
    BY <1>8 DEF KontaktSatz
  <1>11. \A j \in Kontakte : /\ kontakt'[j].datum = kontakt[j].datum
                             /\ kontakt'[j].firmen = kontakt[j].firmen
                             /\ ~kontakt[j].geaendert => ~kontakt'[j].geaendert
    BY <1>2, <1>9, <1>10
  <1>12. k # Null => ~kontakt'[k].geaendert
    BY <1>2, <1>3, <1>6, <1>9, <1>10, <1>m
  <1>13. \A v \in Firmen : KontakteMit(v)' = KontakteMit(v)
    BY <1>11 DEF KontakteMit
  <1>14. \A j \in sitzung'[r].geladen : sitzung'[r].kontakt[j] = kontakt'[j]
    <2> TAKE j \in sitzung'[r].geladen
    <2>1. j \in Kontakte
      BY <1>1, <1>3, <1>t DEF Sitzung
    <2>2. CASE j \notin KontakteMit(u)
      <3>1. j \in sitzung[r].geladen /\ sitzung[r].kontakt[j] = kontakt[j]
        BY <1>1, <1>4, <2>2 DEF Zwischenstand
      <3> QED
        BY <1>2, <1>8, <2>1, <2>2, <3>1
    <2>3. CASE j \in KontakteMit(u) /\ markiert /\ j = k
      BY <1>2, <1>9, <2>3
    <2>4. CASE j \in KontakteMit(u) /\ ~(markiert /\ j = k)
      BY <1>2, <1>6, <2>1, <2>4
    <2> QED
      BY <2>2, <2>3, <2>4
  <1>15. \A v \in Firmen : v \in rest'[r] \/ v = u => sitzung'[r].firma[v] = firma'[v]
    <2> SUFFICES ASSUME NEW v \in Firmen, v \in rest[r]
                 PROVE  sitzung'[r].firma[v] = firma'[v]
      BY <1>1
    <2>1. sitzung[r].firma[v] = firma[v]
      BY <1>4 DEF Zwischenstand
    <2> QED
      BY <1>1, <1>2, <1>t, <2>1 DEF Sitzung
  <1>16. \A v \in Firmen \ Ungueltig : v \notin rest'[r] /\ v # u => RichtigBewertet(v)'
    <2> SUFFICES ASSUME NEW v \in Firmen \ Ungueltig, v \notin rest[r], v # u
                 PROVE  RichtigBewertet(v)'
      BY <1>1
    <2>1. RichtigBewertet(v)
      BY <1>4, <1>5, <1>t DEF Zwischenstand
    <2>2. firma'[v] = firma[v]
      BY <1>2, <1>t
    <2>3. KontakteMit(v) \subseteq Kontakte
      BY DEF KontakteMit
    <2> QED
      BY <1>1, <1>11, <1>13, <2>1, <2>2, <2>3 DEF RichtigBewertet
  <1>17. KundeRichtig(arbeit[r].u, arbeit[r].zeile)'
    <2>1. /\ k = Null => KontakteMit(u)' = {}
          /\ k # Null => /\ k \in KontakteMit(u)'
                         /\ \A j \in KontakteMit(u)' : kontakt'[j].datum <= kontakt'[k].datum
      BY <1>3, <1>6, <1>11, <1>13
    <2>2. arbeit'[r].zeile.klasse = Klasse(projekte'[u], tag')
      BY <1>1, <1>7
    <2> QED
      BY <1>1, <1>12, <2>1, <2>2 DEF KundeRichtig
  <1>18. pc'[r] = "frist" /\ \A s \in Laeufe \ {r} : pc'[s] = pc[s]
    BY <1>1, <1>t
  <1>19. \A s \in Laeufe : pc'[s] # "bereit" => s = r
    BY <1>4, <1>18 DEF Zwischenstand
  <1>20. KontakteMit(u)' \subseteq sitzung'[r].geladen /\ u \notin rest'[r]
    BY <1>1, <1>13
  <1>21. Zwischenstand(r)'
    BY <1>1, <1>14, <1>15, <1>16, <1>17, <1>18, <1>19, <1>20 DEF Zwischenstand
  <1> QED
    BY <1>1, <1>18, <1>21, NurZwischenstand DEF LaufInv

LEMMA StartenUngestoert ==
    ASSUME LaufInv, NEW r \in Laeufe, Starten(r)
    PROVE  Ungestoert'
  <1> SUFFICES ASSUME ~veraltet' PROVE Ungestoert'
    BY DEF Ungestoert
  <1>t. /\ pc \in [Laeufe -> Zustaende] /\ sitzung \in [Laeufe -> Sitzung]
        /\ rest \in [Laeufe -> SUBSET Firmen] /\ Null \notin Firmen
    BY JobAssumption DEF LaufInv, TypeOK
  <1>1. /\ \A s \in Laeufe : pc[s] = "bereit"
        /\ \A s \in Laeufe \ {r} : pc'[s] = pc[s]
        /\ pc'[r] \in {"unternehmen", "abbruch"}
        /\ sitzung'[r].firma = firma /\ sitzung'[r].geladen = {}
        /\ rest'[r] = Firmen
        /\ UNCHANGED <<arbeit, firma>>
    BY <1>t DEF Starten, AlleBereit, LeereSitzung, db
  <1>2. arbeit'[r].u = Null
    BY <1>1 DEF LaufInv, Unbeschaeftigt, KeineArbeit
  <1>3. pc'[r] = "unternehmen" => Zwischenstand(r)'
    BY <1>1, <1>2, <1>t DEF Zwischenstand
  <1>4. NachDemLauf'
    BY <1>1 DEF NachDemLauf, AlleBereit
  <1> QED
    BY <1>1, <1>3, <1>4 DEF Ungestoert

LEMMA FristUngestoert ==
    ASSUME LaufInv, ~veraltet, NEW r \in Laeufe, FristBestimmen(r)
    PROVE  Ungestoert'
  <1>1. /\ pc[r] = "frist" /\ pc'[r] \in {"mail", "speichern"}
        /\ \A s \in Laeufe \ {r} : pc'[s] = pc[s]
        /\ arbeit'[r].u = arbeit[r].u
        /\ arbeit'[r].zeile.klasse = arbeit[r].zeile.klasse
        /\ arbeit'[r].zeile.letzter = arbeit[r].zeile.letzter
        /\ FristRichtig(arbeit'[r].zeile)
    BY FristWirkt DEF LaufInv
  <1>2. UNCHANGED <<firma, kontakt, projekte, sitzung, rest, tag>>
    BY DEF FristBestimmen, db, umwelt
  <1>3. Zwischenstand(r)
    BY <1>1 DEF LaufInv, Ungestoert
  <1>4. KundeRichtig(arbeit[r].u, arbeit[r].zeile)'
    <2>1. KundeRichtig(arbeit[r].u, arbeit[r].zeile)
      BY <1>1, <1>3 DEF Zwischenstand
    <2> QED
      BY <1>1, <1>2, <2>1 DEF KundeRichtig, KontakteMit
  <1>5. FristRichtig(arbeit[r].zeile)'
    BY <1>1, <1>2 DEF FristRichtig
  <1>6. \A v \in Firmen : RichtigBewertet(v)' <=> RichtigBewertet(v)
    BY <1>2 DEF RichtigBewertet, KontakteMit
  <1>7. Zwischenstand(r)'
    BY <1>1, <1>2, <1>3, <1>4, <1>5, <1>6 DEF Zwischenstand
  <1> QED
    BY <1>1, <1>7, NurZwischenstand DEF LaufInv

\* The mails, and a company without contacts.
LEMMA MailUngestoert ==
    ASSUME LaufInv, ~veraltet, NEW r \in Laeufe,
           \/ OhneKontakt(r)
           \/ \E e \in Adressen : MailSenden(r, e) \/ MailScheitert(r, e)
    PROVE  Ungestoert'
  <1>1. /\ pc[r] \in {"frist", "mail"} /\ pc'[r] \in {"mail", "speichern", "abbruch"}
        /\ pc[r] = "frist" => arbeit[r].zeile.letzter = Null
        /\ \A s \in Laeufe \ {r} : pc'[s] = pc[s]
        /\ arbeit'[r].u = arbeit[r].u /\ arbeit'[r].zeile = arbeit[r].zeile
        /\ UNCHANGED <<firma, kontakt, projekte, sitzung, rest, tag>>
    <2>1. CASE OhneKontakt(r)
      BY <2>1 DEF OhneKontakt, LaufInv, TypeOK, db, umwelt
    <2>2. ASSUME NEW e \in Adressen, MailSenden(r, e) \/ MailScheitert(r, e)
          PROVE  /\ pc[r] = "mail" /\ pc'[r] \in {"mail", "speichern", "abbruch"}
                 /\ \A s \in Laeufe \ {r} : pc'[s] = pc[s]
                 /\ arbeit'[r].u = arbeit[r].u /\ arbeit'[r].zeile = arbeit[r].zeile
                 /\ UNCHANGED <<firma, kontakt, projekte, sitzung, rest, tag>>
      BY <2>2, MailWirkt DEF LaufInv, db, umwelt
    <2> QED
      BY <2>1, <2>2
  <1>2. Zwischenstand(r)
    BY <1>1 DEF LaufInv, Ungestoert
  <1>3. KundeRichtig(arbeit[r].u, arbeit[r].zeile)'
    <2>1. KundeRichtig(arbeit[r].u, arbeit[r].zeile)
      BY <1>1, <1>2 DEF Zwischenstand
    <2> QED
      BY <1>1, <2>1 DEF KundeRichtig, KontakteMit
  <1>4. FristRichtig(arbeit[r].zeile)'
    <2>1. FristRichtig(arbeit[r].zeile)
      BY <1>1, <1>2 DEF Zwischenstand, FristRichtig
    <2> QED
      BY <1>1, <2>1 DEF FristRichtig
  <1>5. \A v \in Firmen : RichtigBewertet(v)' <=> RichtigBewertet(v)
    BY <1>1 DEF RichtigBewertet, KontakteMit
  <1>6. Zwischenstand(r)'
    BY <1>1, <1>2, <1>3, <1>4, <1>5 DEF Zwischenstand
  <1> QED
    BY <1>1, <1>6, NurZwischenstand DEF LaufInv

LEMMA SpeichernUngestoert ==
    ASSUME LaufInv, ~veraltet, NEW r \in Laeufe, Speichern(r)
    PROVE  Ungestoert'
  <1> DEFINE u == arbeit[r].u
  <1>t. /\ pc \in [Laeufe -> Zustaende] /\ arbeit \in [Laeufe -> Arbeit]
        /\ TypeOK /\ Null \notin Firmen
    BY JobAssumption DEF LaufInv, TypeOK
  <1>1. /\ pc[r] = "speichern" /\ pc'[r] = "unternehmen"
        /\ \A s \in Laeufe \ {r} : pc'[s] = pc[s]
        /\ arbeit'[r].u = Null
        /\ UNCHANGED <<kontakt, projekte, sitzung, rest, tag>>
    BY <1>t DEF Speichern, KeineArbeit, umwelt
  <1>2. u \in Firmen
    BY <1>1 DEF LaufInv, ArbeitHatFirma
  <1>3. Zwischenstand(r)
    BY <1>1 DEF LaufInv, Ungestoert
  <1>4. /\ \A v \in Firmen : v # u => firma'[v] = firma[v]
        /\ u \notin Ungueltig => firma'[u] = arbeit[r].zeile
    <2>1. CASE u \in Ungueltig
      BY <2>1 DEF Speichern
    <2>2. CASE u \notin Ungueltig
      <3>1. sitzung[r].firma[u] = firma[u]
        BY <1>2, <1>3 DEF Zwischenstand
      <3>2. Schreiben(r)
        BY <2>2 DEF Speichern
      <3> QED
        BY <1>t, <1>2, <3>1, <3>2, SchreibenWirkt
    <2> QED
      BY <2>1, <2>2
  <1>5. \A v \in Firmen \ Ungueltig : v \notin rest'[r] => RichtigBewertet(v)'
    <2> SUFFICES ASSUME NEW v \in Firmen \ Ungueltig, v \notin rest[r]
                 PROVE  RichtigBewertet(v)'
      BY <1>1
    <2>1. CASE v = u
      <3>1. KundeRichtig(v, arbeit[r].zeile) /\ FristRichtig(arbeit[r].zeile)
        BY <1>1, <1>3, <2>1 DEF Zwischenstand
      <3>2. firma'[v] = arbeit[r].zeile
        BY <1>4, <2>1
      <3> QED
        BY <1>1, <3>1, <3>2 DEF RichtigBewertet, KundeRichtig, FristRichtig, KontakteMit
    <2>2. CASE v # u
      <3>1. RichtigBewertet(v) /\ firma'[v] = firma[v]
        BY <1>3, <1>4, <2>2 DEF Zwischenstand
      <3> QED
        BY <1>1, <3>1 DEF RichtigBewertet, KontakteMit
    <2> QED
      BY <2>1, <2>2
  <1>6. \A v \in Firmen : v \in rest'[r] \/ v = arbeit'[r].u
            => sitzung'[r].firma[v] = firma'[v]
    BY <1>1, <1>3, <1>4, <1>t DEF Zwischenstand
  <1>7. rest[r] \subseteq Firmen
    BY <1>t DEF TypeOK
  <1> HIDE DEF u
  <1>8. Zwischenstand(r)'
    BY <1>1, <1>3, <1>5, <1>6, <1>7, <1>t DEF Zwischenstand
  <1> QED
    BY <1>1, <1>8, NurZwischenstand DEF LaufInv

\* The end of an undisturbed run: every company has been dealt with.
LEMMA BeendenUngestoert ==
    ASSUME LaufInv, ~veraltet, NEW r \in Laeufe, LaufBeenden(r)
    PROVE  Ungestoert'
  <1>1. /\ pc[r] = "unternehmen" /\ rest[r] = {} /\ pc'[r] = "bereit"
        /\ \A s \in Laeufe \ {r} : pc'[s] = pc[s]
        /\ UNCHANGED <<firma, kontakt, projekte, tag>>
    BY DEF LaufBeenden, LaufInv, TypeOK, db, umwelt
  <1>2. Zwischenstand(r)
    BY <1>1 DEF LaufInv, Ungestoert
  <1>3. arbeit[r].u = Null /\ Null \notin Firmen
    BY <1>1, JobAssumption DEF LaufInv, Unbeschaeftigt, KeineArbeit
  <1>4. \A v \in Firmen \ Ungueltig : RichtigBewertet(v)
    BY <1>1, <1>2, <1>3 DEF Zwischenstand
  <1>5. NachDemLauf'
    BY <1>1, <1>4 DEF NachDemLauf, RichtigBewertet, KontakteMit
  <1>6. \A s \in Laeufe : pc'[s] = "bereit"
    BY <1>1, <1>2 DEF Zwischenstand
  <1> QED
    BY <1>5, <1>6 DEF Ungestoert

\* What touches neither the tables of the job nor a run.
LEMMA AllesGleich ==
    ASSUME Ungestoert, UNCHANGED <<firma, kontakt, projekte, job, tag, veraltet>>
    PROVE  Ungestoert'
  <1>1. /\ \A v \in Firmen : RichtigBewertet(v)' <=> RichtigBewertet(v)
        /\ \A v \in Firmen : KontakteMit(v)' = KontakteMit(v)
    BY DEF RichtigBewertet, KontakteMit
  <1>2. NachDemLauf' <=> NachDemLauf
    BY <1>1 DEF NachDemLauf, AlleBereit, job
  <1>3. \A r \in Laeufe : Zwischenstand(r) => Zwischenstand(r)'
    <2> SUFFICES ASSUME NEW r \in Laeufe, Zwischenstand(r) PROVE Zwischenstand(r)'
      OBVIOUS
    <2>1. UNCHANGED <<pc, sitzung, rest, arbeit>>
      BY DEF job
    <2>2. /\ KundeRichtig(arbeit[r].u, arbeit[r].zeile) <=>
               KundeRichtig(arbeit[r].u, arbeit[r].zeile)'
          /\ FristRichtig(arbeit[r].zeile) <=> FristRichtig(arbeit[r].zeile)'
          /\ KontakteMit(arbeit[r].u)' = KontakteMit(arbeit[r].u)
      BY <2>1 DEF KundeRichtig, FristRichtig, KontakteMit
    <2> QED
      BY <1>1, <2>1, <2>2 DEF Zwischenstand
  <1> QED
    BY <1>2, <1>3 DEF Ungestoert, job

LEMMA UngestoertErhalten ==
    ASSUME LaufInv, [Next]_vars
    PROVE  Ungestoert'
  <1>1. ASSUME veraltet' PROVE Ungestoert'
    BY <1>1 DEF Ungestoert
  <1>2. ASSUME NEW r \in Laeufe, Laufschritt(r), ~veraltet' PROVE Ungestoert'
    <2>1. ~LaufAbbrechen(r)
      BY <1>2 DEF LaufAbbrechen
    <2>2. veraltet' = veraltet
      BY <1>2, <2>1 DEF Laufschritt, KontaktErmitteln, FristBestimmen, OhneKontakt,
         MailSenden, MailScheitert, Speichern, LaufBeenden
    <2> QED
      BY <1>2, <2>1, <2>2, ErmittelnUngestoert, FristUngestoert, MailUngestoert,
         SpeichernUngestoert, BeendenUngestoert DEF Laufschritt
  <1>3. ASSUME Webzugriff, ~veraltet' PROVE Ungestoert'
    <2>1. \/ UpdateScoring
          \/ \E b \in Bearbeiter, u \in Firmen : UnternehmenLaden(b, u)
      BY <1>3 DEF Webzugriff, KontaktAnlegen, KontaktAendern, KontaktLoeschen,
         BetreuerZuweisen, Abgeben, ProjekteAendern, UnternehmenSpeichern, Schreibzugriff
    <2>2. UNCHANGED <<firma, kontakt, projekte, job, tag, veraltet>>
      BY <2>1 DEF UpdateScoring, UnternehmenLaden, db
    <2> QED
      BY <2>2, AllesGleich DEF LaufInv
  <1>4. CASE UNCHANGED vars
    <2>1. UNCHANGED <<firma, kontakt, projekte, job, tag, veraltet>>
      BY <1>4 DEF vars, db, umwelt
    <2> QED
      BY <2>1, AllesGleich DEF LaufInv
  <1>5. CASE TagWechsel \/ Neustart
    BY <1>1, <1>5 DEF TagWechsel, Neustart
  <1> QED
    BY <1>1, <1>2, <1>3, <1>4, <1>5, StartenUngestoert DEF Next
------------------------------------------------------------------------------
LEMMA UnbeschaeftigtErhalten ==
    ASSUME TypeOK, Unbeschaeftigt, [Next]_vars
    PROVE  Unbeschaeftigt'
  <1>t. pc \in [Laeufe -> Zustaende] /\ arbeit \in [Laeufe -> Arbeit]
    BY DEF TypeOK
  <1>1. ASSUME NEW r \in Laeufe, Starten(r) PROVE Unbeschaeftigt'
    BY <1>1, <1>t DEF Starten, Unbeschaeftigt
  <1>2. ASSUME NEW r \in Laeufe, Laufschritt(r) PROVE Unbeschaeftigt'
    <2>1. ASSUME NEW u \in Firmen, KontaktErmitteln(r, u) PROVE Unbeschaeftigt'
      <3>1. /\ pc' = [pc EXCEPT ![r] = "frist"]
            /\ \A s \in Laeufe \ {r} : arbeit'[s] = arbeit[s]
        BY <1>t, <2>1, ErmittelnWirkt
      <3> QED
        BY <1>t, <3>1 DEF Unbeschaeftigt
    <2>2. CASE FristBestimmen(r)
      <3>1. /\ pc'[r] \in {"mail", "speichern"}
            /\ \A s \in Laeufe \ {r} : pc'[s] = pc[s] /\ arbeit'[s] = arbeit[s]
        BY <1>t, <2>2 DEF FristBestimmen
      <3> QED
        BY <3>1 DEF Unbeschaeftigt
    <2>3. CASE OhneKontakt(r)
      BY <1>t, <2>3 DEF OhneKontakt, Unbeschaeftigt
    <2>4. ASSUME NEW e \in Adressen, MailSenden(r, e) \/ MailScheitert(r, e)
          PROVE  Unbeschaeftigt'
      <3>1. /\ pc'[r] \in {"mail", "speichern", "abbruch"}
            /\ \A s \in Laeufe \ {r} : pc'[s] = pc[s] /\ arbeit'[s] = arbeit[s]
        BY <1>t, <2>4 DEF MailSenden, MailScheitert, Verschickt
      <3> QED
        BY <3>1 DEF Unbeschaeftigt
    <2>5. CASE Speichern(r)
      BY <1>t, <2>5 DEF Speichern, Unbeschaeftigt
    <2>6. CASE LaufBeenden(r)
      BY <1>t, <2>6 DEF LaufBeenden, Unbeschaeftigt
    <2>7. CASE LaufAbbrechen(r)
      BY <1>t, <2>7 DEF LaufAbbrechen, Unbeschaeftigt
    <2> QED
      BY <1>2, <2>1, <2>2, <2>3, <2>4, <2>5, <2>6, <2>7 DEF Laufschritt
  <1>3. CASE Webzugriff \/ TagWechsel \/ UNCHANGED vars
    <2>1. UNCHANGED job
      BY <1>3 DEF Webzugriff, KontaktAnlegen, KontaktAendern, KontaktLoeschen,
         BetreuerZuweisen, Abgeben, ProjekteAendern, UnternehmenLaden,
         UnternehmenSpeichern, UpdateScoring, Schreibzugriff, TagWechsel, vars
    <2> QED
      BY <2>1 DEF job, Unbeschaeftigt
  <1>4. CASE Neustart
    BY <1>4 DEF Neustart, Unbeschaeftigt
  <1> QED
    BY <1>1, <1>2, <1>3, <1>4 DEF Next

LEMMA LaufInvAmAnfang == Init => LaufInv
  <1> SUFFICES ASSUME Init PROVE LaufInv
    OBVIOUS
  <1>1. ArbeitHatFirma /\ Unbeschaeftigt /\ Ungestoert
    BY DEF Init, ArbeitHatFirma, Unbeschaeftigt, Ungestoert
  <1> QED
    BY <1>1, InitTyp, StufenAmAnfang DEF LaufInv

LEMMA LaufInvErhalten == LaufInv /\ [Next]_vars => LaufInv'
  BY TypErhalten, ArbeitErhalten, UnbeschaeftigtErhalten, StufenErhalten,
     UngestoertErhalten DEF LaufInv

\* What a run has gone through to its end without anything coming between is
\* right: whatever stops, failures, parallel runs and old forms left behind,
\* and whatever users did before, for any number of each (lines 68-188).
THEOREM LaufSetztRichtig == Spec => []NachDemLauf
  <1>1. LaufInv => NachDemLauf
    BY DEF LaufInv, Ungestoert, NachDemLauf
  <1> QED
    BY <1>1, LaufInvAmAnfang, LaufInvErhalten, PTL DEF Spec

\* What Kontakterinnerung promises of every level, the job keeps at every
\* moment, restarts included - with one worker, mail that works and no old
\* company form, as HaeltErinnerungEin has it (lines 121-151).
THEOREM StufenBegruendet ==
    ASSUME EinLauf, MailFehler = FALSE, Bearbeiter = {}
    PROVE  Spec => []StufeBegruendet
  <1>1. Init => LaufInv /\ WarnungInv
    <2>1. Init => ArbeitHatFirma
      BY DEF Init, ArbeitHatFirma
    <2> QED
      BY <2>1, InitTyp, KernAmAnfang, LaufInvAmAnfang DEF WarnungInv
  <1>2. (LaufInv /\ WarnungInv) /\ [Next]_vars => (LaufInv /\ WarnungInv)'
    BY WarnungErhalten, LaufInvErhalten
  <1>3. LaufInv /\ WarnungInv => StufeBegruendet
    <2> SUFFICES ASSUME LaufInv, WarnungInv PROVE StufeBegruendet
      OBVIOUS
    <2>1. \A u \in Firmen : /\ firma[u].level # Null => Faellig(firma[u].naechster, tag)
                            /\ firma[u].level = "warnung" => Warnreif(firma[u].naechster, tag)
      BY DEF LaufInv, StufenStimmen, Stimmig
    <2>2. \A u \in Firmen : firma[u].level = "warnung" => <<"warnung", Kmu>> \in post[u]
      BY DEF WarnungInv, Kern, WarnungWurdeVerschickt
    <2>3. \A u \in Firmen : firma[u].level \in {"ermahnung", "warnung"} \cup {Null}
      BY DEF LaufInv, TypeOK, Zeile, Stufen
    <2> QED
      BY <2>1, <2>2, <2>3
      DEF StufeBegruendet, Erinnerung!StufeBegruendet, Erinnerung!Angemessen, Faellig,
          Warnreif, Erinnerung!Faellig, Erinnerung!Warnreif
  <1> QED
    BY <1>1, <1>2, <1>3, PTL DEF Spec
-------------------------------------------------------------------------------
(***************************************************************************)
(* The job implements Kontakterinnerung, sends no reminder twice in a      *)
(* round and brings the date of the last contact to its company - for      *)
(* every number of companies, contacts and days, one worker, and no        *)
(* company form open.                                                      *)
(*                                                                         *)
(* All three rest on what the worker knows while it has a company at hand: *)
(* the rows it has not yet written are those of the table, a contact it    *)
(* has loaded is that of the table unless a user has marked it since, and  *)
(* row, mails and stage at hand differ from the table in the way one pass  *)
(* over the company makes them differ.                                     *)
(***************************************************************************)

\* The rows a run has yet to look at, and the one it looks at, are those of
\* the table.
SitzungGleich ==
    \A r \in Laeufe : pc[r] # "bereit" =>
        /\ arbeit[r].u \notin rest[r]
        /\ \A u \in Firmen :
               u \in rest[r] \/ u = arbeit[r].u => sitzung[r].firma[u] = firma[u]

\* A contact the session holds has not changed unless it is marked or gone.
KontaktGleich(r, k) ==
    /\ ~sitzung[r].kontakt[k].geaendert
    /\ sitzung[r].kontakt[k].datum = kontakt[k].datum
    /\ sitzung[r].kontakt[k].naechster = kontakt[k].naechster

KontakteGleich ==
    \A r \in Laeufe : \A k \in sitzung[r].geladen :
        kontakt[k].firmen # {} /\ ~kontakt[k].geaendert => KontaktGleich(r, k)

\* A contact that is there has been typed in by somebody.
AusEingabe(k) ==
    [datum |-> k.datum, naechster |-> k.naechster, bewertung |-> k.bewertung] \in Eingaben

KontakteEingegeben ==
    /\ \A k \in Kontakte : kontakt[k].firmen # {} => AusEingabe(kontakt[k])
    /\ \A r \in Laeufe : \A k \in sitzung[r].geladen : AusEingabe(sitzung[r].kontakt[k])

\* The ways a level may go up.
Aufstieg(s, t) ==
    <<s, t>> \in {<<Null, "ermahnung">>, <<Null, "warnung">>, <<"ermahnung", "warnung">>}

\* Row, mails and stage at hand, compared with the row f of the table.
Geholt(a, f) ==
    /\ a.zeile.naechster = f.naechster
    /\ a.zeile.level = f.level
    /\ ~a.neu
    /\ a.raus = {}

Bearbeitet(a, f) ==
    /\ a.neu => /\ a.geaendert \/ Verfallen(f.naechster, tag)
                /\ a.zeile.naechster \in Termine
    /\ ~a.neu => /\ a.zeile.naechster = f.naechster
                 /\ \/ a.zeile.level = f.level
                    \/ ~a.geaendert /\ Aufstieg(f.level, a.zeile.level)
    /\ \A m \in a.raus : m \in post[a.u] /\ m[1] = a.zeile.level

Unterwegs(a, f) ==
    /\ a.stufe = a.zeile.level
    /\ ~a.neu => Aufstieg(f.level, a.zeile.level)
    /\ \A e \in a.offen : <<a.stufe, e>> \notin a.raus

ArbeitRichtig(r) ==
    LET a == arbeit[r]
        f == firma[a.u]
    IN  /\ pc[r] = "abbruch" => a.u \in Firmen \/ a = KeineArbeit
        /\ pc[r] = "frist" =>
               /\ Geholt(a, f)
               /\ a.zeile.letzter # Null => a.zeile.letzter \in sitzung[r].geladen
        /\ pc[r] \in {"mail", "speichern", "abbruch"} /\ a.u \in Firmen => Bearbeitet(a, f)
        /\ pc[r] = "mail" => Unterwegs(a, f)
        /\ a.u \in Firmen /\ ~a.geaendert => a.zeile.letzter = f.letzter

ArbeitStimmt == \A r \in Laeufe : ArbeitRichtig(r)

Buch == SitzungGleich /\ KontakteGleich /\ KontakteEingegeben /\ ArbeitStimmt

BuchInv == LaufInv /\ Buch

\* Without restarts the log of a company says no more than its level.
Entspricht(m, level) ==
    /\ m[1] = "warnung" => level = "warnung"
    /\ m[1] = "ermahnung" => level # Null

PostEntspricht ==
    \A u \in Firmen \ Ungueltig : \A m \in post[u] :
        \/ Entspricht(m, firma[u].level)
        \/ \E r \in Laeufe : arbeit[r].u = u /\ m \in arbeit[r].raus

\* Without restarts a date in an unmarked contact of the company alone has
\* reached the row at hand, if the contact gave occasion, or else the table.
Massgeblich(k, u) ==
    /\ k # Null
    /\ kontakt[k].firmen = {u}
    /\ ~kontakt[k].geaendert
    /\ kontakt[k].naechster # Null
    /\ ~Verfallen(kontakt[k].naechster, tag)

TerminKommtAn ==
    /\ \A u \in Firmen \ Ungueltig :
           /\ Massgeblich(firma[u].letzter, u)
           /\ ~\E r \in Laeufe : arbeit[r].u = u /\ arbeit[r].geaendert
           => firma[u].naechster = kontakt[firma[u].letzter].naechster
    /\ \A r \in Laeufe :
           LET a == arbeit[r]
           IN  /\ pc[r] \in {"mail", "speichern", "abbruch"}
               /\ a.u \in Firmen /\ a.geaendert
               /\ Massgeblich(a.zeile.letzter, a.u)
               => a.zeile.naechster = kontakt[a.zeile.letzter].naechster
------------------------------------------------------------------------------
(* What a pass and the steps of a run do to the books.                      *)

LEMMA KeinTermin == Null \in Termine
  <1> DEFINE A == {e.naechster : e \in Eingaben}
             B == {MatrixTermin(c, e) : c \in Klassen, e \in Eingaben}
  <1>1. Termine = {Null} \cup A \cup B
    BY DEF Termine
  <1> HIDE DEF A, B
  <1> QED
    BY <1>1

\* Where a pass takes the due date from, and how far it raises the level.
LEMMA BewerteBuch ==
    ASSUME NEW z, NEW g \in BOOLEAN, NEW c \in Klassen, NEW k, AusEingabe(k), NEW h
    PROVE  LET b == Bewerte(z, g, c, k, h)
               n == g \/ Verfallen(z.naechster, h)
           IN  /\ n => b.naechster \in Termine
               /\ ~n => b.naechster = z.naechster
               /\ ~n => IF b.mail = Null THEN b.level = z.level
                        ELSE z.level \in Stufen \cup {Null} => Aufstieg(z.level, b.level)
               /\ b.mail # Null => b.mail = b.level
               /\ g /\ k.naechster # Null /\ ~Verfallen(k.naechster, h)
                  => b.naechster = k.naechster
  <1> DEFINE y == Angepasst(z, g, c, k)
             b == Bewerte(z, g, c, k, h)
             n == g \/ Verfallen(z.naechster, h)
             e == [datum |-> k.datum, naechster |-> k.naechster, bewertung |-> k.bewertung]
  <1>1. MatrixTermin(c, k) \in Termine
    <2>1. e \in Eingaben
      BY DEF AusEingabe
    <2>2. MatrixTermin(c, k) = MatrixTermin(c, e)
      BY DEF MatrixTermin
    <2> HIDE DEF e
    <2> QED
      BY <2>1, <2>2 DEF Termine
  <1>2. k.naechster \in Termine
    <2>1. e \in Eingaben /\ e.naechster = k.naechster
      BY DEF AusEingabe
    <2> HIDE DEF e
    <2> QED
      BY <2>1 DEF Termine
  <1>3. NeuerTermin(c, k) \in Termine /\ Ersatztermin(c, k, h) \in Termine
    BY <1>1, <1>2, KeinTermin DEF NeuerTermin, Ersatztermin
  <1>4. /\ g => y.naechster = NeuerTermin(c, k) /\ y.level = Null
        /\ ~g => y = z
    BY DEF Angepasst
  <1>5. /\ Verfallen(y.naechster, h) => /\ b.naechster = Ersatztermin(c, k, h)
                                        /\ b.level = Null /\ b.mail = Null
        /\ ~Verfallen(y.naechster, h) =>
               /\ b.naechster = y.naechster /\ b.mail = NeueStufe(y, h)
               /\ b.level = IF NeueStufe(y, h) = Null THEN y.level ELSE NeueStufe(y, h)
    BY DEF Bewerte
  <1>n. n <=> (g \/ Verfallen(z.naechster, h))
    OBVIOUS
  <1>b. b = Bewerte(z, g, c, k, h)
    OBVIOUS
  <1> HIDE DEF b, n
  <1>6. b.mail # Null => b.mail = b.level
    BY <1>5
  <1>7. n => b.naechster \in Termine
    BY <1>3, <1>4, <1>5, <1>n
  <1>8. ~n => b.naechster = z.naechster
    BY <1>4, <1>5, <1>n
  <1>9. ~n => IF b.mail = Null THEN b.level = z.level
             ELSE z.level \in Stufen \cup {Null} => Aufstieg(z.level, b.level)
    BY <1>4, <1>5, <1>n DEF NeueStufe, Aufstieg, Stufen
  <1>10. g /\ k.naechster # Null /\ ~Verfallen(k.naechster, h) => b.naechster = k.naechster
    BY <1>4, <1>5 DEF NeuerTermin
  <1> QED
    BY <1>6, <1>7, <1>8, <1>9, <1>10, <1>n, <1>b

\* What a run has at hand after class and last contact.
LEMMA ErmittelnArbeit ==
    ASSUME TypeOK, NEW r \in Laeufe, NEW u \in Firmen, KontaktErmitteln(r, u)
    PROVE  LET k == Letzter(r, u)
           IN  /\ arbeit'[r].geaendert <=>
                      \/ k # sitzung[r].firma[u].letzter
                      \/ k # Null /\ Gesehen(r, k).geaendert
               /\ ~arbeit'[r].neu /\ arbeit'[r].raus = {}
  <1> DEFINE k == Letzter(r, u)
             g == k # sitzung[r].firma[u].letzter \/ (k # Null /\ Gesehen(r, k).geaendert)
  <1>1. PICK z : arbeit' = [arbeit EXCEPT ![r] =
            [KeineArbeit EXCEPT !.u = u, !.zeile = z, !.geaendert = g]]
    BY Zenon DEF KontaktErmitteln
  <1>g. g <=> (k # sitzung[r].firma[u].letzter \/ (k # Null /\ Gesehen(r, k).geaendert))
    OBVIOUS
  <1> HIDE DEF g
  <1>2. arbeit'[r] = [KeineArbeit EXCEPT !.u = u, !.zeile = z, !.geaendert = g]
    BY <1>1 DEF TypeOK
  <1>3. (arbeit'[r].geaendert <=> g) /\ ~arbeit'[r].neu /\ arbeit'[r].raus = {}
    BY <1>2 DEF KeineArbeit
  <1> QED
    BY <1>3, <1>g

LEMMA FristArbeit ==
    ASSUME BuchInv, NEW r \in Laeufe, FristBestimmen(r)
    PROVE  LET a == arbeit[r]
               c == arbeit'[r]
           IN  /\ pc[r] = "frist" /\ a.u \in Firmen /\ a.zeile.letzter # Null
               /\ pc' = [pc EXCEPT ![r] = IF c.offen = {} THEN "speichern" ELSE "mail"]
               /\ UNCHANGED <<db, sitzung, rest, umwelt, post, veraltet>>
               /\ c.u = a.u /\ c.geaendert = a.geaendert /\ c.raus = {}
               /\ c.zeile.letzter = a.zeile.letzter
               /\ c.neu <=> (a.geaendert \/ Verfallen(firma[a.u].naechster, tag))
               /\ c.neu => c.zeile.naechster \in Termine
               /\ ~c.neu => c.zeile.naechster = firma[a.u].naechster
               /\ ~c.neu => c.zeile.level = firma[a.u].level
                            \/ Aufstieg(firma[a.u].level, c.zeile.level)
               /\ c.offen # {} => /\ c.stufe = c.zeile.level
                                  /\ ~c.neu => Aufstieg(firma[a.u].level, c.zeile.level)
               /\ LET k == sitzung[r].kontakt[a.zeile.letzter]
                  IN  a.geaendert /\ k.naechster # Null /\ ~Verfallen(k.naechster, tag)
                      => c.zeile.naechster = k.naechster
  <1> DEFINE a == arbeit[r]
             k == sitzung[r].kontakt[a.zeile.letzter]
             zeile == [naechster |-> a.zeile.naechster, level |-> a.zeile.level]
             b == Bewerte(zeile, a.geaendert, a.zeile.klasse, k, sitzung[r].heute)
             n == a.geaendert \/ Verfallen(a.zeile.naechster, sitzung[r].heute)
             o == Empfaenger(a.u, b.mail)
             c == [a EXCEPT !.zeile.naechster = b.naechster, !.zeile.level = b.level,
                            !.stufe = b.mail, !.offen = o, !.neu = n]
  <1>t. a \in Arbeit /\ a.zeile \in Zeile /\ arbeit \in [Laeufe -> Arbeit]
    BY DEF BuchInv, LaufInv, TypeOK, Arbeit
  <1>1. /\ pc[r] = "frist" /\ a.zeile.letzter # Null
        /\ arbeit' = [arbeit EXCEPT ![r] = c]
        /\ pc' = [pc EXCEPT ![r] = IF o = {} THEN "speichern" ELSE "mail"]
        /\ UNCHANGED <<db, sitzung, rest, umwelt, post, veraltet>>
    BY DEF FristBestimmen
  <1>2. sitzung[r].heute = tag /\ a.u \in Firmen
    BY <1>1 DEF BuchInv, LaufInv, StufenStimmen, ArbeitHatFirma
  <1>3. /\ a.zeile.naechster = firma[a.u].naechster /\ a.zeile.level = firma[a.u].level
        /\ a.raus = {} /\ a.zeile.letzter \in sitzung[r].geladen
    BY <1>1 DEF BuchInv, Buch, ArbeitStimmt, ArbeitRichtig, Geholt
  <1>4. AusEingabe(k)
    BY <1>3 DEF BuchInv, Buch, KontakteEingegeben
  <1>5. /\ n => b.naechster \in Termine
        /\ ~n => b.naechster = a.zeile.naechster
        /\ ~n => IF b.mail = Null THEN b.level = a.zeile.level
                 ELSE a.zeile.level \in Stufen \cup {Null} => Aufstieg(a.zeile.level, b.level)
        /\ b.mail # Null => b.mail = b.level
        /\ a.geaendert /\ k.naechster # Null /\ ~Verfallen(k.naechster, sitzung[r].heute)
           => b.naechster = k.naechster
    <2>1. /\ zeile.naechster = a.zeile.naechster /\ zeile.level = a.zeile.level
          /\ a.geaendert \in BOOLEAN /\ a.zeile.klasse \in Klassen
      BY <1>t DEF Arbeit, Zeile
    <2> HIDE DEF k, zeile, a
    <2> QED
      BY <1>4, <2>1, BewerteBuch
  <1>6. a.zeile.level \in Stufen \cup {Null}
    BY <1>t DEF Zeile
  <1>7. o # {} => b.mail # Null
    BY DEF Empfaenger
  <1>8. /\ c.u = a.u /\ c.geaendert = a.geaendert /\ c.raus = a.raus /\ (c.neu <=> n)
        /\ c.zeile.letzter = a.zeile.letzter /\ c.zeile.naechster = b.naechster
        /\ c.zeile.level = b.level /\ c.stufe = b.mail /\ c.offen = o
    <2> HIDE DEF b, o, n
    <2> QED
      BY <1>t DEF Arbeit, Zeile
  <1>n. n <=> (a.geaendert \/ Verfallen(a.zeile.naechster, sitzung[r].heute))
    OBVIOUS
  <1>a. a = arbeit[r] /\ k = sitzung[r].kontakt[a.zeile.letzter]
    OBVIOUS
  <1> HIDE DEF c, b, o, n, k, a
  <1>9. arbeit'[r] = c
    BY <1>t, <1>1
  <1> QED
    BY <1>1, <1>2, <1>3, <1>5, <1>6, <1>7, <1>8, <1>9, <1>n, <1>a

LEMMA MailArbeit ==
    ASSUME BuchInv, NEW r \in Laeufe, NEW e \in Adressen,
           MailSenden(r, e) \/ MailScheitert(r, e)
    PROVE  LET a == arbeit[r]
               m == <<a.stufe, e>>
           IN  /\ pc[r] = "mail" /\ a.u \in Firmen /\ e \in a.offen
               /\ pc'[r] \in {"mail", "speichern", "abbruch"}
               /\ UNCHANGED <<db, sitzung, rest, umwelt, veraltet>>
               /\ \/ UNCHANGED <<arbeit, post>>
                  \/ /\ arbeit'[r] = [a EXCEPT !.offen = @ \ {e}, !.raus = @ \cup {m}]
                     /\ post'[a.u] = post[a.u] \cup {m}
                     /\ \A u \in Firmen : u # a.u => post'[u] = post[u]
  <1> DEFINE a == arbeit[r]
             m == <<a.stufe, e>>
  <1>1. /\ pc[r] = "mail" /\ e \in a.offen
        /\ pc'[r] \in {"mail", "speichern", "abbruch"}
        /\ UNCHANGED <<db, sitzung, rest, umwelt, veraltet>>
        /\ Verschickt(r, e) \/ UNCHANGED <<arbeit, post>>
    BY DEF MailSenden, MailScheitert, BuchInv, LaufInv, TypeOK
  <1>2. a.u \in Firmen
    BY <1>1 DEF BuchInv, LaufInv, ArbeitHatFirma
  <1>3. ASSUME Verschickt(r, e)
        PROVE  /\ arbeit'[r] = [a EXCEPT !.offen = @ \ {e}, !.raus = @ \cup {m}]
               /\ post'[a.u] = post[a.u] \cup {m}
               /\ \A u \in Firmen : u # a.u => post'[u] = post[u]
    <2>1. /\ arbeit' = [arbeit EXCEPT ![r].offen = @ \ {e}, ![r].raus = @ \cup {m}]
          /\ post' = [post EXCEPT ![a.u] = @ \cup {m}]
      BY <1>3 DEF Verschickt
    <2>2. /\ arbeit \in [Laeufe -> Arbeit] /\ post \in [Firmen -> SUBSET Mails] /\ a \in Arbeit
      BY DEF BuchInv, LaufInv, TypeOK
    <2> HIDE DEF m
    <2>3. arbeit'[r] = [a EXCEPT !.offen = @ \ {e}, !.raus = @ \cup {m}]
      BY <2>1, <2>2 DEF Arbeit
    <2> QED
      BY <1>2, <2>1, <2>2, <2>3
  <1> QED
    BY <1>1, <1>2, <1>3
------------------------------------------------------------------------------
(* The books are kept.                                                      *)

LEMMA BuchAmAnfang == Init => Buch
  <1> SUFFICES ASSUME Init PROVE Buch
    OBVIOUS
  <1>1. /\ \A r \in Laeufe : /\ pc[r] = "bereit" /\ arbeit[r] = KeineArbeit
                             /\ sitzung[r].geladen = {}
        /\ \A k \in Kontakte : kontakt[k].firmen = {}
    BY DEF Init, LeereSitzung, KeinKontakt
  <1>2. KeineArbeit.u \notin Firmen
    BY JobAssumption DEF KeineArbeit
  <1> QED
    BY <1>1, <1>2
       DEF Buch, SitzungGleich, KontakteGleich, KontakteEingegeben, ArbeitStimmt,
           ArbeitRichtig

LEMMA BuchStarten ==
    ASSUME BuchInv, EinLauf, NEW r \in Laeufe, Starten(r)
    PROVE  Buch'
  <1>t. /\ pc \in [Laeufe -> Zustaende] /\ sitzung \in [Laeufe -> Sitzung]
    BY DEF BuchInv, LaufInv, TypeOK
  <1>1. /\ pc[r] = "bereit" /\ pc'[r] \in {"unternehmen", "abbruch"}
        /\ sitzung'[r].firma = firma /\ sitzung'[r].geladen = {}
        /\ UNCHANGED <<firma, kontakt, arbeit>>
    BY <1>t DEF Starten, db, LeereSitzung
  <1>2. arbeit'[r] = KeineArbeit
    BY <1>1 DEF BuchInv, LaufInv, Unbeschaeftigt
  <1>3. arbeit'[r].u \notin Firmen /\ rest'[r] \subseteq Firmen
    BY <1>1, <1>2, JobAssumption DEF KeineArbeit, Starten, BuchInv, LaufInv, TypeOK
  <1>4. \A s \in Laeufe : s = r
    BY DEF EinLauf
  <1>5. ArbeitStimmt'
    <2>1. pc'[r] \notin {"frist", "mail", "speichern"}
      BY <1>1
    <2>2. ArbeitRichtig(r)'
      BY <1>2, <1>3, <2>1 DEF ArbeitRichtig
    <2> QED
      BY <1>4, <2>2 DEF ArbeitStimmt
  <1>6. SitzungGleich'
    BY <1>1, <1>3, <1>4 DEF SitzungGleich
  <1>7. KontakteGleich' /\ KontakteEingegeben'
    BY <1>1, <1>4 DEF KontakteGleich, KontakteEingegeben, BuchInv, Buch, AusEingabe
  <1> QED
    BY <1>5, <1>6, <1>7 DEF Buch

LEMMA BuchErmitteln ==
    ASSUME BuchInv, EinLauf, NEW r \in Laeufe, NEW u \in Firmen, KontaktErmitteln(r, u)
    PROVE  Buch'
  <1> DEFINE k == Letzter(r, u)
             markiert == k # Null /\ Gesehen(r, k).geaendert
             n == [Gesehen(r, k) EXCEPT !.geaendert = FALSE]
             z == arbeit'[r].zeile
  <1>t. /\ TypeOK /\ firma \in [Firmen -> Zeile] /\ sitzung[r] \in Sitzung
        /\ kontakt \in [Kontakte -> KontaktSatz] /\ Null \notin Firmen
    BY JobAssumption DEF BuchInv, LaufInv, TypeOK
  <1>1. /\ pc[r] = "unternehmen" /\ u \in rest[r]
        /\ pc' = [pc EXCEPT ![r] = "frist"]
        /\ rest'[r] = rest[r] \ {u}
        /\ arbeit'[r].u = u
        /\ z.letzter = k
        /\ z.naechster = sitzung[r].firma[u].naechster
        /\ z.level = sitzung[r].firma[u].level
        /\ sitzung'[r].geladen = sitzung[r].geladen \cup KontakteMit(u)
        /\ sitzung'[r].firma = [sitzung[r].firma EXCEPT ![u] = IF markiert THEN z ELSE @]
    BY <1>t, ErmittelnWirkt
  <1>2. /\ arbeit'[r].geaendert <=> k # sitzung[r].firma[u].letzter \/ markiert
        /\ ~arbeit'[r].neu /\ arbeit'[r].raus = {}
    BY <1>t, ErmittelnArbeit
  <1>3. /\ \A j \in Kontakte :
               /\ j \notin KontakteMit(u) => sitzung'[r].kontakt[j] = sitzung[r].kontakt[j]
               /\ j \in KontakteMit(u) /\ ~(markiert /\ j = k) =>
                      sitzung'[r].kontakt[j] = Gesehen(r, j)
               /\ j # k \/ ~markiert => kontakt'[j] = kontakt[j]
        /\ markiert => /\ sitzung'[r].kontakt[k] = n
                       /\ kontakt'[k] = [n EXCEPT !.firmen = kontakt[k].firmen]
        /\ firma' = IF markiert /\ z # sitzung[r].firma[u]
                    THEN [firma EXCEPT ![u] = z] ELSE firma
    BY <1>t, ErmittelnKontakte
  <1>4. /\ KontakteMit(u) \subseteq Kontakte
        /\ k # Null => k \in KontakteMit(u)
        /\ \A j \in KontakteMit(u) : kontakt[j].firmen # {}
        /\ sitzung[r].geladen \subseteq Kontakte
    BY <1>t, LetzterIstLetzter DEF KontakteMit, Sitzung
  <1>5. sitzung[r].firma[u] = firma[u]
    BY <1>1 DEF BuchInv, Buch, SitzungGleich
  <1>6. \A s \in Laeufe : s = r
    BY DEF EinLauf
  <1>7. /\ markiert => k \in KontakteMit(u) /\ k \in Kontakte /\ Gesehen(r, k) \in KontaktSatz
        /\ markiert => k # Null
    BY <1>4, <1>t, GesehenTyp
  <1>8. markiert =>
            /\ n.datum = Gesehen(r, k).datum /\ n.naechster = Gesehen(r, k).naechster
            /\ n.bewertung = Gesehen(r, k).bewertung /\ ~n.geaendert
            /\ kontakt'[k].datum = n.datum /\ kontakt'[k].naechster = n.naechster
            /\ kontakt'[k].bewertung = n.bewertung /\ ~kontakt'[k].geaendert
            /\ kontakt'[k].firmen = kontakt[k].firmen
    BY <1>3, <1>7 DEF KontaktSatz
  <1>9. \A j \in KontakteMit(u) : AusEingabe(Gesehen(r, j))
    BY <1>4 DEF BuchInv, Buch, KontakteEingegeben, Gesehen
  <1> HIDE DEF k, markiert, n, z
  <1>10. firma'[u] = IF markiert THEN z ELSE firma[u]
    BY <1>3, <1>5, <1>t
  <1>11. \A v \in Firmen : v # u => firma'[v] = firma[v]
    BY <1>3, <1>t
  <1>12. SitzungGleich'
    <2>1. \A v \in Firmen : v \in rest[r] => sitzung[r].firma[v] = firma[v]
      BY <1>1 DEF BuchInv, Buch, SitzungGleich
    <2>2. \A v \in Firmen :
              sitzung'[r].firma[v] = IF v = u /\ markiert THEN z ELSE sitzung[r].firma[v]
      BY <1>1, <1>t DEF Sitzung
    <2>3. \A v \in Firmen : v \in rest'[r] \/ v = u => sitzung'[r].firma[v] = firma'[v]
      BY <2>1, <2>2, <1>1, <1>5, <1>10, <1>11
    <2>4. arbeit'[r].u = u /\ u \notin rest'[r]
      BY <1>1
    <2> QED
      BY <2>3, <2>4, <1>6 DEF SitzungGleich
  <1>13. KontakteGleich'
    <2> SUFFICES ASSUME NEW j \in sitzung'[r].geladen,
                        kontakt'[j].firmen # {}, ~kontakt'[j].geaendert
                 PROVE  KontaktGleich(r, j)'
      BY <1>6 DEF KontakteGleich
    <2>1. CASE markiert /\ j = k
      BY <2>1, <1>3, <1>8 DEF KontaktGleich
    <2>2. CASE ~(markiert /\ j = k)
      <3>1. kontakt'[j] = kontakt[j]
        BY <2>2, <1>1, <1>3, <1>4
      <3>2. CASE j \in sitzung[r].geladen
        <4>1. KontaktGleich(r, j)
          BY <3>1, <3>2 DEF BuchInv, Buch, KontakteGleich
        <4>2. sitzung'[r].kontakt[j] = sitzung[r].kontakt[j]
          BY <2>2, <3>2, <1>3, <1>4 DEF Gesehen
        <4> QED
          BY <3>1, <4>1, <4>2 DEF KontaktGleich
      <3>3. CASE j \notin sitzung[r].geladen
        <4>1. sitzung'[r].kontakt[j] = kontakt[j]
          BY <2>2, <3>3, <1>1, <1>3, <1>4 DEF Gesehen
        <4> QED
          BY <3>1, <4>1 DEF KontaktGleich
      <3> QED
        BY <3>2, <3>3
    <2> QED
      BY <2>1, <2>2
  <1>14. KontakteEingegeben'
    <2>1. ASSUME NEW j \in Kontakte, kontakt'[j].firmen # {} PROVE AusEingabe(kontakt'[j])
      <3>1. CASE markiert /\ j = k
        BY <3>1, <1>7, <1>8, <1>9 DEF AusEingabe
      <3>2. CASE ~(markiert /\ j = k)
        BY <2>1, <3>2, <1>3 DEF BuchInv, Buch, KontakteEingegeben
      <3> QED
        BY <3>1, <3>2
    <2>2. ASSUME NEW j \in sitzung'[r].geladen PROVE AusEingabe(sitzung'[r].kontakt[j])
      <3>1. CASE markiert /\ j = k
        BY <3>1, <1>3, <1>7, <1>8, <1>9 DEF AusEingabe
      <3>2. CASE j \in KontakteMit(u) /\ ~(markiert /\ j = k)
        BY <3>2, <1>3, <1>4, <1>9
      <3>3. CASE j \notin KontakteMit(u)
        BY <2>2, <3>3, <1>1, <1>3, <1>4 DEF BuchInv, Buch, KontakteEingegeben
      <3> QED
        BY <3>1, <3>2, <3>3
    <2> QED
      BY <2>1, <2>2, <1>6 DEF KontakteEingegeben, AusEingabe
  <1>15. ArbeitRichtig(r)'
    <2>1. pc'[r] = "frist"
      BY <1>1, <1>t DEF TypeOK
    <2>2. z.naechster = firma'[u].naechster /\ z.level = firma'[u].level
      BY <1>1, <1>5, <1>10
    <2>3. ~arbeit'[r].geaendert => z.letzter = firma'[u].letzter
      BY <1>1, <1>2, <1>5, <1>10
    <2>4. z.letzter # Null => z.letzter \in sitzung'[r].geladen
      BY <1>1, <1>4
    <2> QED
      BY <1>1, <1>2, <2>1, <2>2, <2>3, <2>4 DEF ArbeitRichtig, Geholt, z
  <1>16. ArbeitStimmt'
    BY <1>6, <1>15 DEF ArbeitStimmt
  <1> QED
    BY <1>12, <1>13, <1>14, <1>16 DEF Buch
LEMMA BuchFrist ==
    ASSUME BuchInv, EinLauf, NEW r \in Laeufe, FristBestimmen(r)
    PROVE  Buch'
  <1> DEFINE a == arbeit[r]
             c == arbeit'[r]
  <1>1. /\ pc[r] = "frist" /\ a.u \in Firmen
        /\ pc' = [pc EXCEPT ![r] = IF c.offen = {} THEN "speichern" ELSE "mail"]
        /\ UNCHANGED <<db, sitzung, rest, umwelt, post, veraltet>>
        /\ c.u = a.u /\ c.geaendert = a.geaendert /\ c.raus = {}
        /\ c.zeile.letzter = a.zeile.letzter
        /\ c.neu <=> (a.geaendert \/ Verfallen(firma[a.u].naechster, tag))
        /\ c.neu => c.zeile.naechster \in Termine
        /\ ~c.neu => c.zeile.naechster = firma[a.u].naechster
        /\ ~c.neu => c.zeile.level = firma[a.u].level
                     \/ Aufstieg(firma[a.u].level, c.zeile.level)
        /\ c.offen # {} => /\ c.stufe = c.zeile.level
                           /\ ~c.neu => Aufstieg(firma[a.u].level, c.zeile.level)
    BY FristArbeit
  <1>t. /\ pc \in [Laeufe -> Zustaende] /\ KeineArbeit.u \notin Firmen
    BY JobAssumption DEF BuchInv, LaufInv, TypeOK, KeineArbeit
  <1>2. pc'[r] = IF c.offen = {} THEN "speichern" ELSE "mail"
    BY <1>1, <1>t
  <1>3. \A s \in Laeufe : s = r
    BY DEF EinLauf
  <1>4. firma' = firma /\ kontakt' = kontakt /\ sitzung' = sitzung /\ rest' = rest /\ tag' = tag
    BY <1>1 DEF db, umwelt
  <1>5. ~a.geaendert => a.zeile.letzter = firma[a.u].letzter
    BY <1>1 DEF BuchInv, Buch, ArbeitStimmt, ArbeitRichtig
  <1> HIDE DEF c
  <1>6. Bearbeitet(arbeit[r], firma[arbeit[r].u])'
    BY <1>1, <1>4 DEF Bearbeitet, c
  <1>7. c.offen # {} => Unterwegs(arbeit[r], firma[arbeit[r].u])'
    BY <1>1, <1>4 DEF Unterwegs, c
  <1>8. ArbeitRichtig(r)'
    BY <1>1, <1>2, <1>4, <1>5, <1>6, <1>7 DEF ArbeitRichtig, c
  <1>9. SitzungGleich'
    BY <1>1, <1>3, <1>4 DEF SitzungGleich, BuchInv, Buch, c
  <1>10. KontakteGleich' /\ KontakteEingegeben'
    BY <1>4 DEF KontakteGleich, KontakteEingegeben, KontaktGleich, AusEingabe, BuchInv, Buch
  <1> QED
    BY <1>3, <1>8, <1>9, <1>10 DEF Buch, ArbeitStimmt

LEMMA BuchOhneKontakt ==
    ASSUME BuchInv, EinLauf, NEW r \in Laeufe, OhneKontakt(r)
    PROVE  Buch'
  <1>1. /\ pc[r] = "frist" /\ pc'[r] \in {"abbruch", "speichern"}
        /\ UNCHANGED <<firma, kontakt, sitzung, rest, arbeit, tag, post>>
    BY DEF OhneKontakt, BuchInv, LaufInv, TypeOK, db, umwelt
  <1>2. \A s \in Laeufe : s = r
    BY DEF EinLauf
  <1>3. arbeit[r].u \in Firmen /\ ArbeitRichtig(r)
    BY <1>1 DEF BuchInv, LaufInv, ArbeitHatFirma, Buch, ArbeitStimmt
  <1>4. Bearbeitet(arbeit[r], firma[arbeit[r].u])'
    BY <1>1, <1>3 DEF ArbeitRichtig, Geholt, Bearbeitet
  <1>5. ArbeitRichtig(r)'
    BY <1>1, <1>3, <1>4 DEF ArbeitRichtig
  <1>6. SitzungGleich'
    BY <1>1, <1>2 DEF SitzungGleich, BuchInv, Buch
  <1>7. KontakteGleich' /\ KontakteEingegeben'
    BY <1>1 DEF KontakteGleich, KontakteEingegeben, KontaktGleich, AusEingabe, BuchInv, Buch
  <1> QED
    BY <1>2, <1>5, <1>6, <1>7 DEF Buch, ArbeitStimmt

LEMMA BuchMail ==
    ASSUME BuchInv, EinLauf, NEW r \in Laeufe, NEW e \in Adressen,
           MailSenden(r, e) \/ MailScheitert(r, e)
    PROVE  Buch'
  <1> DEFINE a == arbeit[r]
             c == arbeit'[r]
             m == <<a.stufe, e>>
  <1>1. /\ pc[r] = "mail" /\ a.u \in Firmen /\ e \in a.offen
        /\ pc'[r] \in {"mail", "speichern", "abbruch"}
        /\ UNCHANGED <<db, sitzung, rest, umwelt, veraltet>>
        /\ \/ UNCHANGED <<arbeit, post>>
           \/ /\ c = [a EXCEPT !.offen = @ \ {e}, !.raus = @ \cup {m}]
              /\ post'[a.u] = post[a.u] \cup {m}
    BY MailArbeit
  <1>2. \A s \in Laeufe : s = r
    BY DEF EinLauf
  <1>3. firma' = firma /\ kontakt' = kontakt /\ sitzung' = sitzung /\ rest' = rest /\ tag' = tag
    BY <1>1 DEF db, umwelt
  <1>4. /\ Bearbeitet(a, firma[a.u]) /\ Unterwegs(a, firma[a.u])
        /\ ~a.geaendert => a.zeile.letzter = firma[a.u].letzter
    BY <1>1 DEF BuchInv, Buch, ArbeitStimmt, ArbeitRichtig
  <1>t. a \in Arbeit
    BY DEF BuchInv, LaufInv, TypeOK
  <1>5. /\ c.u = a.u /\ c.zeile = a.zeile /\ c.geaendert = a.geaendert
        /\ c.neu = a.neu /\ c.stufe = a.stufe
        /\ \/ c.offen = a.offen /\ c.raus = a.raus /\ post'[a.u] = post[a.u]
           \/ /\ c.offen = a.offen \ {e} /\ c.raus = a.raus \cup {m}
              /\ post'[a.u] = post[a.u] \cup {m}
    <2> HIDE DEF m
    <2> QED
      BY <1>1, <1>t DEF Arbeit
  <1>6. \A x \in c.raus : x \in post'[a.u] /\ x[1] = a.zeile.level
    BY <1>4, <1>5 DEF Bearbeitet, Unterwegs
  <1>7. \A x \in c.offen : <<a.stufe, x>> \notin c.raus
    BY <1>4, <1>5 DEF Unterwegs
  <1> HIDE DEF c, m
  <1>8. Bearbeitet(arbeit[r], firma[arbeit[r].u])' /\ Unterwegs(arbeit[r], firma[arbeit[r].u])'
    BY <1>3, <1>4, <1>5, <1>6, <1>7 DEF Bearbeitet, Unterwegs, c
  <1>9. ArbeitRichtig(r)'
    BY <1>1, <1>3, <1>4, <1>5, <1>8 DEF ArbeitRichtig, c
  <1>10. SitzungGleich'
    BY <1>1, <1>2, <1>3, <1>5 DEF SitzungGleich, BuchInv, Buch, c
  <1>11. KontakteGleich' /\ KontakteEingegeben'
    BY <1>3 DEF KontakteGleich, KontakteEingegeben, KontaktGleich, AusEingabe, BuchInv, Buch
  <1> QED
    BY <1>2, <1>9, <1>10, <1>11 DEF Buch, ArbeitStimmt

LEMMA BuchEnde ==
    ASSUME BuchInv, EinLauf, NEW r \in Laeufe,
           Speichern(r) \/ LaufBeenden(r) \/ LaufAbbrechen(r)
    PROVE  Buch'
  <1>t. /\ TypeOK /\ ArbeitHatFirma /\ pc \in [Laeufe -> Zustaende]
        /\ arbeit \in [Laeufe -> Arbeit] /\ sitzung \in [Laeufe -> Sitzung]
    BY DEF BuchInv, LaufInv, TypeOK
  <1>1. /\ arbeit'[r] = KeineArbeit /\ kontakt' = kontakt
        /\ \/ pc'[r] = "bereit" /\ sitzung'[r] = LeereSitzung
           \/ Speichern(r) /\ pc'[r] = "unternehmen" /\ sitzung' = sitzung /\ rest' = rest
    <2>1. LaufBeenden(r) => arbeit[r] = KeineArbeit
      BY DEF LaufBeenden, BuchInv, LaufInv, Unbeschaeftigt
    <2> QED
      BY <1>t, <2>1 DEF Speichern, LaufBeenden, LaufAbbrechen, db
  <1>2. \A s \in Laeufe : s = r
    BY DEF EinLauf
  <1>3. KeineArbeit.u \notin Firmen /\ LeereSitzung.geladen = {}
    BY JobAssumption DEF KeineArbeit, LeereSitzung
  <1>4. ArbeitRichtig(r)'
    BY <1>1, <1>3 DEF ArbeitRichtig
  <1>5. SitzungGleich'
    <2>1. CASE pc'[r] = "bereit"
      BY <2>1, <1>2 DEF SitzungGleich
    <2>2. CASE Speichern(r) /\ sitzung' = sitzung /\ rest' = rest
      <3>1. /\ pc[r] = "speichern" /\ arbeit[r].u \in Firmen
        BY <2>2, <1>t DEF Speichern, ArbeitHatFirma
      <3>2. \A v \in Firmen : v # arbeit[r].u => firma'[v] = firma[v]
        BY <2>2, <1>t, <3>1, SchreibenWirkt DEF Speichern
      <3>3. arbeit[r].u \notin rest[r] /\ rest[r] \subseteq Firmen
            /\ \A v \in Firmen : v \in rest[r] => sitzung[r].firma[v] = firma[v]
        BY <3>1, <1>t DEF BuchInv, Buch, SitzungGleich, TypeOK
      <3> QED
        BY <2>2, <3>2, <3>3, <1>1, <1>2, <1>3 DEF SitzungGleich
    <2> QED
      BY <1>1, <2>1, <2>2
  <1>6. KontakteGleich' /\ KontakteEingegeben'
    <2>1. sitzung'[r].geladen = {} \/ sitzung' = sitzung
      BY <1>1, <1>3
    <2> QED
      BY <1>1, <1>2, <2>1
         DEF KontakteGleich, KontakteEingegeben, KontaktGleich, AusEingabe, BuchInv, Buch
  <1> QED
    BY <1>2, <1>4, <1>5, <1>6 DEF Buch, ArbeitStimmt

\* A contact that is typed in is marked, and its id is one no session knows.
LEMMA BuchKontakt ==
    ASSUME BuchInv, NEW k \in Kontakte,
           KontaktAnlegen(k) \/ KontaktAendern(k) \/ KontaktLoeschen(k)
    PROVE  Buch'
  <1>1. UNCHANGED <<firma, pc, sitzung, rest, arbeit, tag, post>>
    BY DEF KontaktAnlegen, KontaktAendern, KontaktLoeschen, Schreibzugriff, job
  <1>2. kontakt \in [Kontakte -> KontaktSatz]
    BY DEF BuchInv, LaufInv, TypeOK
  <1>3. /\ \A j \in Kontakte : j # k => kontakt'[j] = kontakt[j]
        /\ \/ kontakt'[k].firmen = {}
           \/ kontakt'[k].geaendert /\ AusEingabe(kontakt'[k])
    <2>1. CASE KontaktLoeschen(k)
      BY <2>1, <1>2 DEF KontaktLoeschen, KeinKontakt
    <2>2. CASE KontaktAnlegen(k) \/ KontaktAendern(k)
      <3>1. KontaktSchreiben(k)
        BY <2>2 DEF KontaktAnlegen, KontaktAendern
      <3>2. PICK e \in Eingaben, fs \in SUBSET Firmen :
                kontakt' = [kontakt EXCEPT ![k] =
                    [datum |-> e.datum, naechster |-> e.naechster,
                     bewertung |-> e.bewertung, geaendert |-> TRUE, firmen |-> fs]]
        BY <3>1 DEF KontaktSchreiben
      <3>3. e = [datum |-> e.datum, naechster |-> e.naechster, bewertung |-> e.bewertung]
        BY JobAssumption
      <3>4. /\ \A j \in Kontakte : j # k => kontakt'[j] = kontakt[j]
            /\ kontakt'[k] = [datum |-> e.datum, naechster |-> e.naechster,
                     bewertung |-> e.bewertung, geaendert |-> TRUE, firmen |-> fs]
        BY <3>2, <1>2
      <3> QED
        BY <3>3, <3>4 DEF AusEingabe
    <2> QED
      BY <2>1, <2>2
  <1>4. SitzungGleich' /\ ArbeitStimmt'
    BY <1>1 DEF BuchInv, Buch, SitzungGleich, ArbeitStimmt, ArbeitRichtig, Geholt,
                Bearbeitet, Unterwegs
  <1>5. KontakteGleich'
    BY <1>1, <1>2, <1>3
       DEF BuchInv, LaufInv, TypeOK, Sitzung, Buch, KontakteGleich, KontaktGleich
  <1>6. KontakteEingegeben'
    BY <1>1, <1>3 DEF BuchInv, Buch, KontakteEingegeben, AusEingabe
  <1> QED
    BY <1>4, <1>5, <1>6 DEF Buch

LEMMA BuchUnberuehrt ==
    ASSUME BuchInv, UNCHANGED <<firma, kontakt, pc, sitzung, rest, arbeit, tag, post>>
    PROVE  Buch'
  BY DEF BuchInv, Buch, SitzungGleich, ArbeitStimmt, ArbeitRichtig, Geholt, Bearbeitet,
         Unterwegs, KontakteGleich, KontaktGleich, KontakteEingegeben, AusEingabe

LEMMA BuchUmwelt ==
    ASSUME BuchInv, Bearbeiter = {}, Webzugriff \/ TagWechsel \/ Neustart
    PROVE  Buch'
  <1>l. KeineArbeit.u \notin Firmen /\ LeereSitzung.geladen = {}
    BY JobAssumption DEF KeineArbeit, LeereSitzung
  <1>1. CASE \E k \in Kontakte :
                 KontaktAnlegen(k) \/ KontaktAendern(k) \/ KontaktLoeschen(k)
    BY <1>1, BuchKontakt
  <1>2. CASE \/ \E u \in Firmen, p \in Personen : BetreuerZuweisen(u, p) \/ Abgeben(u, p)
             \/ \E u \in Firmen : ProjekteAendern(u)
             \/ UpdateScoring
    <2>1. UNCHANGED <<firma, kontakt, pc, sitzung, rest, arbeit, tag, post>>
      BY <1>2 DEF BetreuerZuweisen, Abgeben, ProjekteAendern, UpdateScoring,
                  Schreibzugriff, job, db
    <2> QED
      BY <2>1, BuchUnberuehrt
  <1>3. CASE \/ \E b \in Bearbeiter, u \in Firmen : UnternehmenLaden(b, u)
             \/ \E b \in Bearbeiter : UnternehmenSpeichern(b)
    BY <1>3
  <1>4. CASE TagWechsel
    <2>1. UNCHANGED <<firma, kontakt, pc, sitzung, rest, arbeit, post>>
      BY <1>4 DEF TagWechsel, job, db
    <2>2. \A r \in Laeufe : pc[r] = "bereit" /\ arbeit[r] = KeineArbeit
      BY <1>4 DEF TagWechsel, AlleBereit, BuchInv, LaufInv, Unbeschaeftigt
    <2>3. ArbeitStimmt' /\ SitzungGleich'
      BY <1>l, <2>1, <2>2 DEF ArbeitStimmt, ArbeitRichtig, SitzungGleich
    <2> QED
      BY <2>1, <2>3 DEF BuchInv, Buch, KontakteGleich, KontaktGleich, KontakteEingegeben,
                        AusEingabe
  <1>5. CASE Neustart
    <2>1. /\ UNCHANGED <<firma, kontakt>>
          /\ \A r \in Laeufe : /\ pc'[r] = "bereit" /\ arbeit'[r] = KeineArbeit
                               /\ sitzung'[r] = LeereSitzung
      BY <1>5 DEF Neustart, db
    <2>2. ArbeitStimmt' /\ SitzungGleich'
      BY <1>l, <2>1 DEF ArbeitStimmt, ArbeitRichtig, SitzungGleich
    <2> QED
      BY <1>l, <2>1, <2>2
         DEF BuchInv, Buch, KontakteGleich, KontakteEingegeben, AusEingabe
  <1> QED
    BY <1>1, <1>2, <1>3, <1>4, <1>5 DEF Webzugriff

LEMMA BuchInvAmAnfang == Init => BuchInv
  BY LaufInvAmAnfang, BuchAmAnfang DEF BuchInv

LEMMA BuchInvErhalten ==
    ASSUME EinLauf, Bearbeiter = {}
    PROVE  BuchInv /\ [Next]_vars => BuchInv'
  <1> SUFFICES ASSUME BuchInv, [Next]_vars PROVE BuchInv'
    OBVIOUS
  <1>1. LaufInv'
    BY LaufInvErhalten DEF BuchInv
  <1>2. Buch'
    <2>1. ASSUME NEW r \in Laeufe, Starten(r) \/ Laufschritt(r) PROVE Buch'
      <3>1. CASE Starten(r)
        BY <3>1, BuchStarten
      <3>2. CASE \E u \in Firmen : KontaktErmitteln(r, u)
        BY <3>2, BuchErmitteln
      <3>3. CASE FristBestimmen(r)
        BY <3>3, BuchFrist
      <3>4. CASE OhneKontakt(r)
        BY <3>4, BuchOhneKontakt
      <3>5. CASE \E e \in Adressen : MailSenden(r, e) \/ MailScheitert(r, e)
        BY <3>5, BuchMail
      <3>6. CASE Speichern(r) \/ LaufBeenden(r) \/ LaufAbbrechen(r)
        BY <3>6, BuchEnde
      <3> QED
        BY <2>1, <3>1, <3>2, <3>3, <3>4, <3>5, <3>6 DEF Laufschritt
    <2>2. CASE Webzugriff \/ TagWechsel \/ Neustart
      BY <2>2, BuchUmwelt
    <2>3. CASE UNCHANGED vars
      BY <2>3, BuchUnberuehrt DEF vars, db, job, umwelt
    <2> QED
      BY <2>1, <2>2, <2>3 DEF Next
  <1> QED
    BY <1>1, <1>2 DEF BuchInv
------------------------------------------------------------------------------
(* The refinement.  Each lemma says what the state of the job must do for   *)
(* the state of Kontakterinnerung to make one of its steps.                 *)

Gewarnt(u) == M \in post[u]

\* What no step but the one for u changes.
Bleibt(u) ==
    /\ firma'[u].naechster = firma[u].naechster
    /\ firma'[u].level = firma[u].level
    /\ Gewarnt(u)' <=> Gewarnt(u)

LEMMA AlsVerlieren ==
    ASSUME \A u \in Firmen : Bleibt(u), tag' = tag, web' = web,
           \A u \in Firmen : u \in Anlass' => u \in Anlass
    PROVE  Erinnerung!Next
  <1>1. Anlass' \in SUBSET Anlass
    BY DEF Anlass
  <1>2. Erinnerung!AnlassVerlieren
    BY <1>1 DEF Erinnerung!AnlassVerlieren, Bleibt, Gewarnt, M
  <1> QED
    BY <1>2 DEF Erinnerung!Next

LEMMA AlsEreignis ==
    ASSUME \A u \in Firmen : Bleibt(u), tag' = tag, web < MaxWeb, web' = web + 1
    PROVE  Erinnerung!Next
  <1>1. Anlass' \in SUBSET Firmen
    BY DEF Anlass
  <1>2. Erinnerung!Kontaktereignis
    BY <1>1 DEF Erinnerung!Kontaktereignis, Bleibt, Gewarnt, M
  <1> QED
    BY <1>2 DEF Erinnerung!Next

LEMMA AlsTagesanbruch ==
    ASSUME \A u \in Firmen : Bleibt(u), tag' = IF tag < MaxTag THEN tag + 1 ELSE tag,
           web' = web, Anlass' = Anlass
    PROVE  Erinnerung!Next
  <1>1. Erinnerung!Tagesanbruch
    BY DEF Erinnerung!Tagesanbruch, Bleibt, Gewarnt, M
  <1> QED
    BY <1>1 DEF Erinnerung!Next

LEMMA AlsMelden ==
    ASSUME NEW u \in Firmen, \A v \in Firmen \ {u} : Bleibt(v),
           firma' = firma, Gewarnt(u)', tag' = tag, web' = web, Anlass' = Anlass
    PROVE  Erinnerung!Next
  <1>1. Erinnerung!Melden(u)
    BY DEF Erinnerung!Melden, Bleibt, Gewarnt, M
  <1> QED
    BY <1>1 DEF Erinnerung!Next

\* A level that is not ahead of its date, and of which the head office knows.
LEMMA StufeAngemessen ==
    ASSUME NEW u \in Firmen, NEW z, z.level \in Stufen \cup {Null}, Stimmig(z, tag),
           z.level = "warnung" => Gewarnt(u)
    PROVE  Erinnerung!Angemessen(u, z.naechster, z.level)
  <1>1. /\ Faellig(z.naechster, tag) <=> Erinnerung!Faellig(z.naechster, tag)
        /\ Warnreif(z.naechster, tag) <=> Erinnerung!Warnreif(z.naechster, tag)
    BY DEF Faellig, Warnreif, Erinnerung!Faellig, Erinnerung!Warnreif
  <1> QED
    BY <1>1 DEF Erinnerung!Angemessen, Stimmig, Gewarnt, M, Stufen

LEMMA AlsVereinbaren ==
    ASSUME NEW u \in Firmen, NEW z, z.naechster \in Termine, z.level \in Stufen \cup {Null},
           \A v \in Firmen \ {u} : Bleibt(v) /\ (v \in Anlass' <=> v \in Anlass),
           u \in Anlass \/ (Verfallen(firma[u].naechster, tag) /\ u \notin Anlass'),
           Erinnerung!Angemessen(u, z.naechster, z.level),
           firma'[u].naechster = z.naechster, firma'[u].level = z.level,
           Gewarnt(u)' <=> Gewarnt(u) /\ z.level = "warnung",
           tag' = tag, web' = web
    PROVE  Erinnerung!Next
  <1>1. u \in Anlass \/ Erinnerung!Verfallen(firma[u].naechster, tag)
    BY DEF Verfallen, Erinnerung!Verfallen
  <1>2. Anlass' \in {Anlass, Anlass \ {u}}
    <2>1. Anlass \subseteq Firmen /\ Anlass' \subseteq Firmen
      BY DEF Anlass
    <2>2. CASE u \in Anlass /\ u \in Anlass'
      BY <2>1, <2>2
    <2>3. CASE u \notin Anlass'
      BY <2>1, <2>3
    <2> QED
      BY <2>1, <2>2, <2>3
  <1>3. [v \in Firmen |-> firma'[v].naechster]
            = [[v \in Firmen |-> firma[v].naechster] EXCEPT ![u] = z.naechster]
    BY DEF Bleibt
  <1>4. [v \in Firmen |-> firma'[v].level]
            = [[v \in Firmen |-> firma[v].level] EXCEPT ![u] = z.level]
    BY DEF Bleibt
  <1>5. {v \in Firmen : <<"warnung", Kmu>> \in post'[v]}
            = IF z.level = "warnung" THEN {v \in Firmen : <<"warnung", Kmu>> \in post[v]}
              ELSE {v \in Firmen : <<"warnung", Kmu>> \in post[v]} \ {u}
    BY DEF Bleibt, Gewarnt, M
  <1>6. Erinnerung!Vereinbaren(u, z.naechster, z.level)
    BY <1>1, <1>2, <1>3, <1>4, <1>5 DEF Erinnerung!Vereinbaren
  <1>7. z.level \in Erinnerung!Stufen \cup {Null}
    BY DEF Stufen, Erinnerung!Stufen
  <1> QED
    BY <1>6, <1>7 DEF Erinnerung!Next

LEMMA AlsErinnern ==
    ASSUME NEW u \in Firmen, NEW s \in Stufen,
           \A v \in Firmen \ {u} : Bleibt(v),
           firma'[u].naechster = firma[u].naechster, firma'[u].level = s,
           Aufstieg(firma[u].level, s),
           Erinnerung!Angemessen(u, firma[u].naechster, s),
           Gewarnt(u)' <=> Gewarnt(u),
           tag' = tag, web' = web, Anlass' = Anlass
    PROVE  Erinnerung!Next
  <1>1. [v \in Firmen |-> firma'[v].naechster] = [v \in Firmen |-> firma[v].naechster]
    BY DEF Bleibt
  <1>2. [v \in Firmen |-> firma'[v].level]
            = [[v \in Firmen |-> firma[v].level] EXCEPT ![u] = s]
    BY DEF Bleibt
  <1>3. {v \in Firmen : <<"warnung", Kmu>> \in post'[v]}
            = {v \in Firmen : <<"warnung", Kmu>> \in post[v]}
    BY DEF Bleibt, Gewarnt, M
  <1>4. Erinnerung!Erinnern(u, s)
    BY <1>1, <1>2, <1>3 DEF Erinnerung!Erinnern, Aufstieg
  <1>5. s \in Erinnerung!Stufen
    BY DEF Stufen, Erinnerung!Stufen
  <1> QED
    BY <1>4, <1>5 DEF Erinnerung!Next
------------------------------------------------------------------------------
(* Which companies have an occasion, and which keep it.                     *)

LEMMA LetzterJetztGleich ==
    ASSUME NEW u, KontakteMit(u)' = KontakteMit(u),
           \A k \in KontakteMit(u) : kontakt'[k].datum = kontakt[k].datum
    PROVE  LetzterJetzt(u)' = LetzterJetzt(u)
  <1> DEFINE d == [k \in KontakteMit(u) |-> kontakt[k].datum]
             e == [k \in KontakteMit(u)' |-> kontakt'[k].datum]
  <1>1. d = e
    OBVIOUS
  <1>2. /\ LetzterJetzt(u) = IF KontakteMit(u) = {} THEN Null ELSE Juengster(d)
        /\ LetzterJetzt(u)' = IF KontakteMit(u)' = {} THEN Null ELSE Juengster(e)
    BY DEF LetzterJetzt
  <1> HIDE DEF d, e
  <1> QED
    BY <1>1, <1>2

\* A session that sees the dates of the table sees the same last contact.
LEMMA LetzterWieJetzt ==
    ASSUME NEW r, NEW u, \A k \in KontakteMit(u) : Gesehen(r, k).datum = kontakt[k].datum
    PROVE  Letzter(r, u) = LetzterJetzt(u)
  <1> DEFINE d == [k \in KontakteMit(u) |-> kontakt[k].datum]
             e == [k \in KontakteMit(u) |-> Gesehen(r, k).datum]
  <1>1. d = e
    OBVIOUS
  <1>2. /\ LetzterJetzt(u) = IF KontakteMit(u) = {} THEN Null ELSE Juengster(d)
        /\ Letzter(r, u) = IF KontakteMit(u) = {} THEN Null ELSE Juengster(e)
    BY DEF LetzterJetzt, Letzter
  <1> HIDE DEF d, e
  <1> QED
    BY <1>1, <1>2

LEMMA AnlassHeisst ==
    ASSUME NEW u \in Firmen
    PROVE  u \in Anlass <=> \/ LetzterJetzt(u) # firma[u].letzter
                            \/ \E k \in KontakteMit(u) : kontakt[k].geaendert
                            \/ \E r \in Laeufe : arbeit[r].u = u /\ arbeit[r].geaendert
  BY DEF Anlass

\* As long as contacts and the company's row stay, an occasion comes only from
\* a run that takes the company up.
LEMMA AnlassBleibt ==
    ASSUME NEW u \in Firmen, kontakt' = kontakt, firma'[u].letzter = firma[u].letzter
    PROVE  /\ (\A r \in Laeufe : arbeit'[r].u = u /\ arbeit'[r].geaendert
                                 => arbeit[r].u = u /\ arbeit[r].geaendert)
              => (u \in Anlass' => u \in Anlass)
           /\ (\A r \in Laeufe : arbeit'[r].u = u /\ arbeit'[r].geaendert
                                 <=> arbeit[r].u = u /\ arbeit[r].geaendert)
              => (u \in Anlass' <=> u \in Anlass)
  <1>1. KontakteMit(u)' = KontakteMit(u)
    BY DEF KontakteMit
  <1>2. LetzterJetzt(u)' = LetzterJetzt(u)
    BY <1>1, LetzterJetztGleich
  <1>3. u \in Anlass' <=> \/ LetzterJetzt(u)' # firma'[u].letzter
                          \/ \E k \in KontakteMit(u)' : kontakt'[k].geaendert
                          \/ \E r \in Laeufe : arbeit'[r].u = u /\ arbeit'[r].geaendert
    BY DEF Anlass
  <1> QED
    BY <1>1, <1>2, <1>3, AnlassHeisst

\* Taking up a company gives no company an occasion it did not have: what the
\* run sees differs from the table only in contacts that are marked.
LEMMA ErmittelnAnlass ==
    ASSUME BuchInv, EinLauf, NEW r \in Laeufe, NEW u \in Firmen, KontaktErmitteln(r, u),
           NEW v \in Firmen, v \in Anlass'
    PROVE  v \in Anlass
  <1> DEFINE k == Letzter(r, u)
             markiert == k # Null /\ Gesehen(r, k).geaendert
             n == [Gesehen(r, k) EXCEPT !.geaendert = FALSE]
  <1>t. TypeOK /\ kontakt \in [Kontakte -> KontaktSatz] /\ firma \in [Firmen -> Zeile]
    BY DEF BuchInv, LaufInv, TypeOK
  <1>1. /\ pc[r] = "unternehmen" /\ u \in rest[r] /\ arbeit'[r].u = u
    BY <1>t, ErmittelnWirkt
  <1>2. arbeit'[r].geaendert <=> k # sitzung[r].firma[u].letzter \/ markiert
    BY <1>t, ErmittelnArbeit
  <1>3. /\ \A j \in Kontakte :
               /\ j \notin KontakteMit(u) => sitzung'[r].kontakt[j] = sitzung[r].kontakt[j]
               /\ j \in KontakteMit(u) /\ ~(markiert /\ j = k) =>
                      sitzung'[r].kontakt[j] = Gesehen(r, j)
               /\ j # k \/ ~markiert => kontakt'[j] = kontakt[j]
        /\ markiert => /\ sitzung'[r].kontakt[k] = n
                       /\ kontakt'[k] = [n EXCEPT !.firmen = kontakt[k].firmen]
        /\ firma' = IF markiert /\ arbeit'[r].zeile # sitzung[r].firma[u]
                    THEN [firma EXCEPT ![u] = arbeit'[r].zeile] ELSE firma
    BY <1>t, ErmittelnKontakte
  <1>4. k # Null => k \in KontakteMit(u)
    BY <1>t, LetzterIstLetzter
  <1>5. KontakteMit(u) \subseteq Kontakte /\ KontakteMit(v) \subseteq Kontakte
        /\ \A j \in KontakteMit(u) : kontakt[j].firmen # {}
    BY DEF KontakteMit
  <1>6. sitzung[r].firma[u] = firma[u]
    BY <1>1 DEF BuchInv, Buch, SitzungGleich
  <1>7. \A s \in Laeufe : s = r
    BY DEF EinLauf
  <1>8. \A j \in KontakteMit(u) : ~kontakt[j].geaendert =>
            Gesehen(r, j).datum = kontakt[j].datum /\ ~Gesehen(r, j).geaendert
    <2> TAKE j \in KontakteMit(u)
    <2> HAVE ~kontakt[j].geaendert
    <2>1. CASE j \in sitzung[r].geladen
      BY <2>1, <1>5 DEF BuchInv, Buch, KontakteGleich, KontaktGleich, Gesehen
    <2>2. CASE j \notin sitzung[r].geladen
      BY <2>2 DEF Gesehen
    <2> QED
      BY <2>1, <2>2
  <1>k. k = Letzter(r, u) /\ (markiert <=> (k # Null /\ Gesehen(r, k).geaendert))
    OBVIOUS
  <1> HIDE DEF k, markiert, n
  <1>9. markiert => k \in KontakteMit(u) /\ kontakt[k].geaendert
    BY <1>4, <1>8, <1>k
  <1>10. CASE markiert /\ k \in KontakteMit(v)
    BY <1>9, <1>10, AnlassHeisst
  <1>11. CASE markiert /\ k \notin KontakteMit(v)
    <2>1. u # v
      BY <1>9, <1>11
    <2>2. /\ \A j \in Kontakte : j # k => kontakt'[j] = kontakt[j]
          /\ kontakt'[k].firmen = kontakt[k].firmen
      <3>1. k \in Kontakte /\ Gesehen(r, k) \in KontaktSatz
        BY <1>5, <1>9, <1>11, <1>t, GesehenTyp
      <3> QED
        BY <3>1, <1>3, <1>11 DEF KontaktSatz, n
    <2>3. KontakteMit(v)' = KontakteMit(v)
      BY <2>2, <1>11 DEF KontakteMit
    <2>4. \A j \in KontakteMit(v) : kontakt'[j] = kontakt[j]
      BY <2>2, <1>5, <1>11
    <2>5. LetzterJetzt(v)' = LetzterJetzt(v)
      BY <2>3, <2>4, LetzterJetztGleich
    <2>6. firma'[v] = firma[v]
      BY <2>1, <1>3, <1>t
    <2>7. \/ LetzterJetzt(v)' # firma'[v].letzter
          \/ \E j \in KontakteMit(v)' : kontakt'[j].geaendert
          \/ \E s \in Laeufe : arbeit'[s].u = v /\ arbeit'[s].geaendert
      BY DEF Anlass
    <2>8. ~\E s \in Laeufe : arbeit'[s].u = v /\ arbeit'[s].geaendert
      BY <2>1, <1>1, <1>7
    <2> QED
      BY <2>3, <2>4, <2>5, <2>6, <2>7, <2>8, AnlassHeisst
  <1>12. CASE ~markiert
    <2>1. firma' = firma
      BY <1>3, <1>12
    <2>2. KontakteMit(v)' = KontakteMit(v)
          /\ \A j \in KontakteMit(v) : kontakt'[j] = kontakt[j]
      BY <1>3, <1>5, <1>12 DEF KontakteMit
    <2>3. LetzterJetzt(v)' = LetzterJetzt(v)
      BY <2>2, LetzterJetztGleich
    <2>4. \/ LetzterJetzt(v)' # firma'[v].letzter
          \/ \E j \in KontakteMit(v)' : kontakt'[j].geaendert
          \/ \E s \in Laeufe : arbeit'[s].u = v /\ arbeit'[s].geaendert
      BY DEF Anlass
    <2>5. ASSUME NEW s \in Laeufe, arbeit'[s].u = v, arbeit'[s].geaendert,
                 \A j \in KontakteMit(v) : ~kontakt[j].geaendert
          PROVE  LetzterJetzt(v) # firma[v].letzter
      <3>1. v = u /\ k # firma[u].letzter
        BY <2>5, <1>1, <1>2, <1>6, <1>7, <1>12
      <3>2. Letzter(r, u) = LetzterJetzt(u)
        BY <2>5, <3>1, <1>8, LetzterWieJetzt
      <3> QED
        BY <3>1, <3>2, <1>k
    <2> QED
      BY <2>1, <2>2, <2>3, <2>4, <2>5, AnlassHeisst
  <1> QED
    BY <1>10, <1>11, <1>12
------------------------------------------------------------------------------
(* Every step of the job is a step of Kontakterinnerung.                    *)

LEMMA AmAnfangNichts == Init => Erinnerung!Init
  <1> SUFFICES ASSUME Init PROVE Erinnerung!Init
    OBVIOUS
  <1>1. /\ \A u \in Firmen : firma[u].naechster = Null /\ firma[u].level = Null
        /\ tag = 0 /\ web = 0 /\ \A u \in Firmen : post[u] = {}
    BY DEF Init, NeueFirma
  <1>2. Anlass = {}
    <2> SUFFICES ASSUME NEW u \in Anlass PROVE FALSE
      OBVIOUS
    <2>1. KontakteMit(u) = {} /\ firma[u].letzter = Null
      BY DEF Init, KontakteMit, KeinKontakt, NeueFirma, Anlass
    <2>2. LetzterJetzt(u) = Null
      BY <2>1 DEF LetzterJetzt
    <2>3. \A r \in Laeufe : ~arbeit[r].geaendert
      BY DEF Init, KeineArbeit
    <2> QED
      BY <2>1, <2>2, <2>3 DEF Anlass
  <1> QED
    BY <1>1, <1>2 DEF Erinnerung!Init

\* The flush of the row at hand agrees on a new date, reminds, or at least
\* passes over the occasion.
LEMMA SchreibenImplementiert ==
    ASSUME BuchInv, WarnungInv, EinLauf, NEW r \in Laeufe, NEW u \in Firmen, arbeit[r].u = u,
           pc[r] \in {"speichern", "abbruch"}, Schreiben(r), arbeit'[r] = KeineArbeit,
           UNCHANGED <<kontakt, tag, web>>
    PROVE  Erinnerung!Next
  <1> DEFINE a == arbeit[r]
             z == a.zeile
  <1>t. /\ z.level \in Stufen \cup {Null} /\ TypeOK /\ a.neu \in BOOLEAN
        /\ a.geaendert \in BOOLEAN /\ firma \in [Firmen -> Zeile]
    BY DEF BuchInv, LaufInv, TypeOK, Arbeit, Zeile
  <1>1. \A s \in Laeufe : s = r
    BY DEF EinLauf
  <1>2. Bearbeitet(a, firma[u]) /\ (~a.geaendert => z.letzter = firma[u].letzter)
    BY DEF BuchInv, Buch, ArbeitStimmt, ArbeitRichtig
  <1>3. Stimmig(z, tag)
    BY DEF BuchInv, LaufInv, StufenStimmen
  <1>4. z.level = "warnung" => IF a.neu THEN M \in a.raus ELSE M \in post[u]
    BY DEF WarnungInv, Kern, WarnungBelegt
  <1>5. /\ \A v \in Firmen : v # u => firma'[v] = firma[v]
        /\ firma'[u] = z
    <2>1. sitzung[r].firma[u] = firma[u]
      BY DEF BuchInv, Buch, SitzungGleich
    <2> QED
      BY <1>t, <2>1, SchreibenWirkt
  <1>6. /\ \A v \in Firmen : v # u => post'[v] = post[v]
        /\ post'[u] = IF a.neu THEN a.raus ELSE post[u]
    BY DEF Schreiben, BuchInv, LaufInv, TypeOK
  <1>7. \A v \in Firmen : v # u => Bleibt(v)
    BY <1>5, <1>6 DEF Bleibt, Gewarnt
  <1>8. KeineArbeit.u \notin Firmen
    BY JobAssumption DEF KeineArbeit
  <1>9. \A s \in Laeufe, v \in Firmen : ~(arbeit'[s].u = v /\ arbeit'[s].geaendert)
    BY <1>1, <1>8
  <1>10. \A v \in Firmen : v # u => (v \in Anlass' <=> v \in Anlass)
    <2> TAKE v \in Firmen
    <2> HAVE v # u
    <2>1. \A s \in Laeufe : arbeit[s].u # v
      BY <1>1
    <2> QED
      BY <1>5, <1>9, <2>1, AnlassBleibt
  <1>11. a.geaendert => u \in Anlass
    BY AnlassHeisst
  <1>12. ~a.geaendert => (u \in Anlass' <=> u \in Anlass)
    <2> HAVE ~a.geaendert
    <2>1. \A s \in Laeufe : ~(arbeit[s].u = u /\ arbeit[s].geaendert)
      BY <1>1
    <2> QED
      BY <1>2, <1>5, <1>9, <2>1, AnlassBleibt
  <1>13. z.level = "warnung" => Gewarnt(u)
    BY <1>2, <1>4, <1>t DEF Bearbeitet, Gewarnt
  <1>14. Erinnerung!Angemessen(u, z.naechster, z.level)
    BY <1>3, <1>13, <1>t, StufeAngemessen
  <1> HIDE DEF a, z
  <1>15. CASE a.neu
    <2>1. Gewarnt(u)' <=> Gewarnt(u) /\ z.level = "warnung"
      <3>1. post'[u] = a.raus /\ \A m \in a.raus : m \in post[u] /\ m[1] = z.level
        BY <1>2, <1>6, <1>15 DEF Bearbeitet, z, a
      <3>2. M[1] = "warnung"
        BY DEF M
      <3>3. Gewarnt(u)' <=> M \in a.raus
        BY <3>1 DEF Gewarnt, M
      <3>4. z.level = "warnung" => M \in a.raus
        BY <1>4, <1>15
      <3>5. M \in a.raus => M \in post[u] /\ M[1] = z.level
        BY <3>1
      <3> QED
        BY <3>2, <3>3, <3>4, <3>5, <1>13
    <2>2. z.naechster \in Termine /\ (a.geaendert \/ Verfallen(firma[u].naechster, tag))
      BY <1>2, <1>15 DEF Bearbeitet, z
    <2>3. u \in Anlass \/ (Verfallen(firma[u].naechster, tag) /\ u \notin Anlass')
      BY <2>2, <1>11, <1>12
    <2> QED
      BY <1>t, <1>5, <1>7, <1>10, <1>14, <2>1, <2>2, <2>3, AlsVereinbaren
  <1>16. CASE ~a.neu
    <2>1. Gewarnt(u)' <=> Gewarnt(u)
      BY <1>6, <1>16 DEF Gewarnt, M
    <2>2. /\ z.naechster = firma[u].naechster
          /\ \/ z.level = firma[u].level
             \/ ~a.geaendert /\ Aufstieg(firma[u].level, z.level)
      BY <1>2, <1>16 DEF Bearbeitet, z
    <2>3. CASE z.level = firma[u].level
      <3>1. \A v \in Firmen : Bleibt(v)
        BY <1>5, <1>7, <2>1, <2>2, <2>3 DEF Bleibt
      <3>2. \A v \in Firmen : v \in Anlass' => v \in Anlass
        BY <1>10, <1>11, <1>12
      <3> QED
        BY <3>1, <3>2, AlsVerlieren
    <2>4. CASE ~a.geaendert /\ Aufstieg(firma[u].level, z.level)
      <3>1. z.level \in Stufen
        BY <2>4 DEF Aufstieg, Stufen
      <3>2. Anlass' = Anlass
        <4>1. Anlass \subseteq Firmen /\ Anlass' \subseteq Firmen
          BY DEF Anlass
        <4> QED
          BY <1>10, <1>12, <2>4, <4>1
      <3> QED
        BY <1>5, <1>7, <1>14, <2>1, <2>2, <2>4, <3>1, <3>2, AlsErinnern
    <2> QED
      BY <2>2, <2>3, <2>4
  <1> QED
    BY <1>15, <1>16, <1>t

\* Mails, and the steps that leave rows and log alone.
LEMMA MailImplementiert ==
    ASSUME BuchInv, NEW r \in Laeufe, NEW e \in Adressen, MailSenden(r, e)
    PROVE  Erinnerung!Next
  <1> DEFINE a == arbeit[r]
             m == <<a.stufe, e>>
  <1>1. PICK u \in Firmen : u = a.u
    BY MailArbeit
  <1>2. /\ UNCHANGED <<db, umwelt>>
        /\ \/ UNCHANGED <<arbeit, post>>
           \/ /\ arbeit'[r] = [a EXCEPT !.offen = @ \ {e}, !.raus = @ \cup {m}]
              /\ post'[u] = post[u] \cup {m}
              /\ \A v \in Firmen : v # u => post'[v] = post[v]
    BY <1>1, MailArbeit
  <1>3. firma' = firma /\ kontakt' = kontakt /\ tag' = tag /\ web' = web
    BY <1>2 DEF db, umwelt
  <1>4. \A s \in Laeufe : arbeit'[s].u = arbeit[s].u /\ arbeit'[s].geaendert = arbeit[s].geaendert
    BY DEF MailSenden, Verschickt, BuchInv, LaufInv, TypeOK, Arbeit
  <1>5. Anlass' = Anlass
    <2>1. \A v \in Firmen : v \in Anlass' <=> v \in Anlass
      BY <1>3, <1>4, AnlassBleibt
    <2> QED
      BY <2>1 DEF Anlass
  <1>6. \A v \in Firmen : v # u => Bleibt(v)
    BY <1>2, <1>3 DEF Bleibt, Gewarnt, M
  <1>7. CASE Gewarnt(u)'
    BY <1>3, <1>5, <1>6, <1>7, AlsMelden
  <1>8. CASE ~Gewarnt(u)'
    <2>1. post[u] \subseteq post'[u]
      BY <1>2
    <2>2. Bleibt(u)
      BY <1>3, <1>8, <2>1 DEF Bleibt, Gewarnt, M
    <2> QED
      BY <1>3, <1>5, <1>6, <2>2, AlsVerlieren
  <1> QED
    BY <1>7, <1>8

\* Rows, log, contacts, calendar and events stay, and no company is taken up.
LEMMA VerlierenImplementiert ==
    ASSUME UNCHANGED <<firma, kontakt, post, tag, web>>,
           \A r \in Laeufe, u \in Firmen : arbeit'[r].u = u /\ arbeit'[r].geaendert
                                           => arbeit[r].u = u /\ arbeit[r].geaendert
    PROVE  Erinnerung!Next
  <1>1. \A u \in Firmen : Bleibt(u)
    BY DEF Bleibt, Gewarnt, M
  <1>2. \A u \in Firmen : u \in Anlass' => u \in Anlass
    BY AnlassBleibt
  <1> QED
    BY <1>1, <1>2, AlsVerlieren

LEMMA LaufschrittImplementiert ==
    ASSUME BuchInv, WarnungInv, EinLauf, MailFehler = FALSE, NEW r \in Laeufe,
           Starten(r) \/ Laufschritt(r)
    PROVE  Erinnerung!Next
  <1>t. /\ arbeit \in [Laeufe -> Arbeit] /\ KeineArbeit.u \notin Firmen
        /\ \A s \in Laeufe : s = r
    BY JobAssumption DEF BuchInv, LaufInv, TypeOK, KeineArbeit, EinLauf
  <1>1. CASE Starten(r) \/ OhneKontakt(r) \/ LaufBeenden(r)
    <2>1. UNCHANGED <<firma, kontakt, post, tag, web, arbeit>>
      BY <1>1 DEF Starten, OhneKontakt, LaufBeenden, db, umwelt
    <2> QED
      BY <2>1, VerlierenImplementiert
  <1>2. ASSUME NEW u \in Firmen, KontaktErmitteln(r, u) PROVE Erinnerung!Next
    <2>1. TypeOK /\ firma \in [Firmen -> Zeile]
      BY DEF BuchInv, LaufInv, TypeOK
    <2>2. UNCHANGED <<tag, web, post>>
      BY <1>2 DEF KontaktErmitteln, umwelt
    <2>3. /\ arbeit'[r].zeile.naechster = firma[u].naechster
          /\ arbeit'[r].zeile.level = firma[u].level
      <3>1. /\ pc[r] = "unternehmen" /\ u \in rest[r]
            /\ arbeit'[r].zeile.naechster = sitzung[r].firma[u].naechster
            /\ arbeit'[r].zeile.level = sitzung[r].firma[u].level
        BY <1>2, <2>1, ErmittelnWirkt
      <3>2. sitzung[r].firma[u] = firma[u]
        BY <3>1 DEF BuchInv, Buch, SitzungGleich
      <3> QED
        BY <3>1, <3>2
    <2>4. \A v \in Firmen : /\ firma'[v].naechster = firma[v].naechster
                            /\ firma'[v].level = firma[v].level
      <3>1. firma' \in {firma, [firma EXCEPT ![u] = arbeit'[r].zeile]}
        BY <1>2, <2>1, ErmittelnKontakte
      <3> QED
        BY <2>1, <2>3, <3>1
    <2>5. \A v \in Firmen : Bleibt(v)
      BY <2>2, <2>4 DEF Bleibt, Gewarnt, M
    <2>6. \A v \in Firmen : v \in Anlass' => v \in Anlass
      BY <1>2, ErmittelnAnlass
    <2> QED
      BY <2>2, <2>5, <2>6, AlsVerlieren
  <1>3. CASE FristBestimmen(r)
    <2>1. /\ UNCHANGED <<firma, kontakt, post, tag, web>>
          /\ arbeit'[r].u = arbeit[r].u /\ arbeit'[r].geaendert = arbeit[r].geaendert
      BY <1>3, FristArbeit DEF db, umwelt
    <2> QED
      BY <1>t, <2>1, VerlierenImplementiert
  <1>4. CASE \E e \in Adressen : MailSenden(r, e)
    BY <1>4, MailImplementiert
  <1>5. CASE \E e \in Adressen : MailScheitert(r, e)
    BY <1>5 DEF MailScheitert
  <1>6. CASE Speichern(r)
    <2>1. /\ pc[r] = "speichern" /\ arbeit'[r] = KeineArbeit
          /\ UNCHANGED <<kontakt, tag, web>>
      BY <1>6, <1>t DEF Speichern, umwelt
    <2>2. PICK u \in Firmen : u = arbeit[r].u
      BY <2>1 DEF BuchInv, LaufInv, ArbeitHatFirma
    <2>3. CASE u \in Ungueltig
      <3>1. UNCHANGED <<firma, post>>
        BY <1>6, <2>2, <2>3 DEF Speichern
      <3> QED
        BY <1>t, <2>1, <3>1, VerlierenImplementiert
    <2>4. CASE u \notin Ungueltig
      <3>1. Schreiben(r)
        BY <1>6, <2>2, <2>4 DEF Speichern
      <3> QED
        BY <2>1, <2>2, <3>1, SchreibenImplementiert
    <2> QED
      BY <2>3, <2>4
  <1>7. CASE LaufAbbrechen(r)
    <2>1. /\ pc[r] = "abbruch" /\ arbeit'[r] = KeineArbeit
          /\ UNCHANGED <<kontakt, tag, web>>
      BY <1>7, <1>t DEF LaufAbbrechen, umwelt
    <2>2. PICK u \in Firmen : u = arbeit[r].u
      BY <2>1 DEF WarnungInv, Kern, WarnungBelegt
    <2>3. Schreiben(r)
      BY <1>7, <2>2, JobAssumption DEF LaufAbbrechen
    <2> QED
      BY <2>1, <2>2, <2>3, SchreibenImplementiert
  <1> QED
    BY <1>1, <1>2, <1>3, <1>4, <1>5, <1>6, <1>7 DEF Laufschritt

LEMMA UmweltImplementiert ==
    ASSUME BuchInv, Bearbeiter = {}, Webzugriff \/ TagWechsel \/ Neustart
    PROVE  Erinnerung!Next
  <1>1. CASE TagWechsel
    <2>1. /\ UNCHANGED <<firma, kontakt, arbeit, post, web>>
          /\ tag' = IF tag < MaxTag THEN tag + 1 ELSE tag
      BY <1>1 DEF TagWechsel, db, job
    <2>2. \A u \in Firmen : Bleibt(u)
      BY <2>1 DEF Bleibt, Gewarnt, M
    <2>3. Anlass' = Anlass
      <3>1. \A v \in Firmen : v \in Anlass' <=> v \in Anlass
        BY <2>1, AnlassBleibt
      <3> QED
        BY <3>1 DEF Anlass
    <2> QED
      BY <2>1, <2>2, <2>3, AlsTagesanbruch
  <1>2. CASE Neustart
    <2>1. UNCHANGED <<firma, kontakt, post, tag, web>> /\ \A r \in Laeufe : ~arbeit'[r].geaendert
      BY <1>2 DEF Neustart, db, KeineArbeit
    <2> QED
      BY <2>1, VerlierenImplementiert
  <1>3. CASE Webzugriff
    <2>1. /\ UNCHANGED <<firma, post, tag>>
          /\ web < MaxWeb /\ web' = web + 1
      BY <1>3 DEF Webzugriff, KontaktAnlegen, KontaktAendern, KontaktLoeschen,
                  BetreuerZuweisen, Abgeben, ProjekteAendern, UnternehmenLaden,
                  UnternehmenSpeichern, UpdateScoring, Schreibzugriff, db
    <2>2. \A u \in Firmen : Bleibt(u)
      BY <2>1 DEF Bleibt, Gewarnt, M
    <2> QED
      BY <2>1, <2>2, AlsEreignis
  <1> QED
    BY <1>1, <1>2, <1>3

\* With one worker, mails that work and no company form open the job keeps the
\* promise of Kontakterinnerung, wherever the server stops and restarts: due
\* date and level change only for a reason, every level is earned, and the
\* head office knows of a warning before it is noted down (lines 78-160).
THEOREM JobHaeltErinnerungEin ==
    ASSUME EinLauf, MailFehler = FALSE, Bearbeiter = {}
    PROVE  Spec => HaeltErinnerungEin
  <1>1. Init => Erinnerung!Init
    BY AmAnfangNichts
  <1>2. BuchInv /\ WarnungInv /\ [Next]_vars => [Erinnerung!Next]_(Erinnerung!vars)
    <2> SUFFICES ASSUME BuchInv, WarnungInv, [Next]_vars
                 PROVE  [Erinnerung!Next]_(Erinnerung!vars)
      OBVIOUS
    <2>1. CASE UNCHANGED vars
      <3>1. UNCHANGED <<firma, kontakt, post, tag, web, arbeit>>
        BY <2>1 DEF vars, db, job, umwelt
      <3> QED
        BY <3>1, VerlierenImplementiert
    <2>2. ASSUME NEW r \in Laeufe, Starten(r) \/ Laufschritt(r) PROVE Erinnerung!Next
      BY <2>2, LaufschrittImplementiert
    <2>3. CASE Webzugriff \/ TagWechsel \/ Neustart
      BY <2>3, UmweltImplementiert
    <2> QED
      BY <2>1, <2>2, <2>3 DEF Next
  <1>3. Spec => []BuchInv
    <2>1. BuchInv /\ [Next]_vars => BuchInv'
      BY BuchInvErhalten
    <2> QED
      BY <2>1, BuchInvAmAnfang, PTL DEF Spec
  <1>4. Spec => []WarnungInv
    BY WarnungInvHaelt
  <1> QED
    BY <1>1, <1>2, <1>3, <1>4, PTL DEF Spec, HaeltErinnerungEin, Erinnerung!Spec
------------------------------------------------------------------------------
(* No reminder twice in a round.                                            *)

\* A level says no more after a flush than before, unless a new round begins.
LEMMA SchreibenEntspricht ==
    ASSUME BuchInv, PostEntspricht, EinLauf, NEW r \in Laeufe,
           NEW u \in Firmen \ Ungueltig, arbeit[r].u = u,
           pc[r] \in {"speichern", "abbruch"}, Schreiben(r)
    PROVE  \A m \in post'[u] : Entspricht(m, firma'[u].level)
  <1> DEFINE a == arbeit[r]
             f == firma[u]
  <1>1. firma'[u] = a.zeile
    <2>1. sitzung[r].firma[u] = firma[u]
      BY DEF BuchInv, Buch, SitzungGleich
    <2> QED
      BY <2>1, SchreibenWirkt DEF BuchInv, LaufInv
  <1>2. post'[u] = IF a.neu THEN a.raus ELSE post[u]
    BY DEF Schreiben, BuchInv, LaufInv, TypeOK
  <1>3. /\ \A m \in a.raus : m[1] = a.zeile.level
        /\ ~a.neu => a.zeile.level = f.level \/ Aufstieg(f.level, a.zeile.level)
    BY DEF BuchInv, Buch, ArbeitStimmt, ArbeitRichtig, Bearbeitet
  <1>4. \A m \in post[u] : Entspricht(m, f.level) \/ m \in a.raus
    BY DEF PostEntspricht, EinLauf
  <1> HIDE DEF a, f
  <1>5. \A m \in a.raus : Entspricht(m, a.zeile.level)
    BY <1>3, ScoringAssumption DEF Entspricht, Stufen
  <1>6. ~a.neu => \A m \in post[u] : Entspricht(m, f.level) => Entspricht(m, a.zeile.level)
    BY <1>3, ScoringAssumption DEF Entspricht, Aufstieg, Stufen
  <1> QED
    BY <1>1, <1>2, <1>4, <1>5, <1>6

LEMMA PostEndeErhalten ==
    ASSUME BuchInv, PostEntspricht, EinLauf, NEW r \in Laeufe,
           Speichern(r) \/ LaufAbbrechen(r)
    PROVE  PostEntspricht'
  <1>t. TypeOK /\ arbeit[r].u \in Firmen \cup {Null}
    BY DEF BuchInv, LaufInv, TypeOK, Arbeit
  <1>1. CASE arbeit[r].u \notin Firmen
    <2>1. /\ UNCHANGED <<firma, post>>
          /\ \A s \in Laeufe, u \in Firmen : arbeit[s].u # u
      BY <1>1, <1>t DEF Speichern, LaufAbbrechen, BuchInv, LaufInv, ArbeitHatFirma, EinLauf
    <2> QED
      BY <2>1 DEF PostEntspricht
  <1>2. ASSUME NEW v \in Firmen, arbeit[r].u = v PROVE PostEntspricht'
    <2>1. (UNCHANGED <<firma, post>> /\ v \in Ungueltig) \/ Schreiben(r)
      BY <1>2, JobAssumption DEF Speichern, LaufAbbrechen
    <2>2. \A u \in Firmen : u # v => firma'[u] = firma[u] /\ post'[u] = post[u]
      <3>1. CASE UNCHANGED <<firma, post>>
        BY <3>1
      <3>2. CASE Schreiben(r)
        BY <3>2, <1>2, <1>t, SchreibenWirkt DEF Schreiben, TypeOK
      <3> QED
        BY <2>1, <3>1, <3>2
    <2>3. \A u \in Firmen \ Ungueltig : u # v =>
              \A m \in post[u] : Entspricht(m, firma[u].level)
      BY <1>2 DEF PostEntspricht, EinLauf
    <2>4. pc[r] \in {"speichern", "abbruch"}
      BY DEF Speichern, LaufAbbrechen
    <2>5. v \notin Ungueltig => \A m \in post'[v] : Entspricht(m, firma'[v].level)
      BY <1>2, <2>1, <2>4, SchreibenEntspricht
    <2> QED
      BY <2>2, <2>3, <2>5 DEF PostEntspricht, Entspricht
  <1> QED
    BY <1>1, <1>2

LEMMA PostErhalten ==
    ASSUME EinLauf, Bearbeiter = {}, MaxNeustart = 0, BuchInv, PostEntspricht, [Next]_vars
    PROVE  PostEntspricht'
  <1>t. TypeOK /\ \A r, s \in Laeufe : r = s
    BY DEF BuchInv, LaufInv, EinLauf
  <1>u. ASSUME UNCHANGED <<firma, post, arbeit>> PROVE PostEntspricht'
    BY <1>u DEF PostEntspricht, Entspricht
  <1>1. ASSUME NEW r \in Laeufe, Starten(r) \/ OhneKontakt(r) \/ LaufBeenden(r)
        PROVE  PostEntspricht'
    BY <1>1, <1>u DEF Starten, OhneKontakt, LaufBeenden, db
  <1>2. ASSUME NEW r \in Laeufe, NEW u \in Firmen, KontaktErmitteln(r, u)
        PROVE  PostEntspricht'
    <2>1. /\ pc[r] = "unternehmen" /\ u \in rest[r] /\ post' = post
          /\ arbeit'[r].zeile.level = sitzung[r].firma[u].level
      BY <1>2, <1>t, ErmittelnWirkt
    <2>2. arbeit[r] = KeineArbeit /\ sitzung[r].firma[u] = firma[u]
      BY <2>1 DEF BuchInv, LaufInv, Unbeschaeftigt, Buch, SitzungGleich
    <2>3. \A v \in Firmen : firma'[v].level = firma[v].level
      <3>1. firma' \in {firma, [firma EXCEPT ![u] = arbeit'[r].zeile]}
        BY <1>2, <1>t, ErmittelnKontakte
      <3> QED
        BY <1>t, <2>1, <2>2, <3>1 DEF TypeOK
    <2>4. \A s \in Laeufe : arbeit[s].raus = {}
      BY <1>t, <2>2 DEF KeineArbeit
    <2> QED
      BY <2>1, <2>3, <2>4 DEF PostEntspricht, Entspricht
  <1>3. ASSUME NEW r \in Laeufe, FristBestimmen(r) PROVE PostEntspricht'
    <2>1. pc[r] = "frist" /\ UNCHANGED <<firma, post>>
      BY <1>3, FristArbeit DEF db
    <2>2. arbeit[r].raus = {}
      BY <2>1 DEF BuchInv, Buch, ArbeitStimmt, ArbeitRichtig, Geholt
    <2> QED
      BY <1>t, <2>1, <2>2 DEF PostEntspricht, Entspricht
  <1>4. ASSUME NEW r \in Laeufe, NEW e \in Adressen, MailSenden(r, e) \/ MailScheitert(r, e)
        PROVE  PostEntspricht'
    <2> DEFINE m == <<arbeit[r].stufe, e>>
    <2>1. PICK v \in Firmen : v = arbeit[r].u
      BY <1>4, MailArbeit
    <2>2. /\ firma' = firma
          /\ \/ UNCHANGED <<arbeit, post>>
             \/ /\ arbeit'[r] = [arbeit[r] EXCEPT !.offen = @ \ {e}, !.raus = @ \cup {m}]
                /\ post'[v] = post[v] \cup {m}
                /\ \A u \in Firmen : u # v => post'[u] = post[u]
      BY <1>4, <2>1, MailArbeit DEF db
    <2> HIDE DEF m
    <2>3. CASE /\ arbeit'[r] = [arbeit[r] EXCEPT !.offen = @ \ {e}, !.raus = @ \cup {m}]
               /\ post'[v] = post[v] \cup {m}
               /\ \A u \in Firmen : u # v => post'[u] = post[u]
      <3>1. arbeit'[r].u = v /\ arbeit'[r].raus = arbeit[r].raus \cup {m}
        BY <1>t, <2>1, <2>3 DEF TypeOK, Arbeit
      <3>2. ASSUME NEW u \in Firmen \ Ungueltig, NEW x \in post'[u]
            PROVE  \/ Entspricht(x, firma'[u].level)
                   \/ arbeit'[r].u = u /\ x \in arbeit'[r].raus
        <4>1. x \in post[u] =>
                  Entspricht(x, firma[u].level) \/ (v = u /\ x \in arbeit[r].raus)
          BY <1>t, <2>1 DEF PostEntspricht
        <4> QED
          BY <2>2, <2>3, <3>1, <3>2, <4>1
      <3> QED
        BY <3>2 DEF PostEntspricht, Entspricht
    <2> QED
      BY <1>u, <2>2, <2>3
  <1>5. ASSUME NEW r \in Laeufe, Speichern(r) \/ LaufAbbrechen(r) PROVE PostEntspricht'
    BY <1>5, PostEndeErhalten
  <1>6. CASE Webzugriff \/ TagWechsel \/ UNCHANGED vars
    <2>1. UNCHANGED <<firma, post, arbeit>>
      BY <1>6 DEF Webzugriff, KontaktAnlegen, KontaktAendern, KontaktLoeschen,
                  BetreuerZuweisen, Abgeben, ProjekteAendern, UnternehmenLaden,
                  UnternehmenSpeichern, UpdateScoring, Schreibzugriff, TagWechsel,
                  vars, db, job, umwelt
    <2> QED
      BY <1>u, <2>1
  <1>7. ~Neustart
    BY <1>t DEF Neustart, TypeOK
  <1> QED
    BY <1>1, <1>2, <1>3, <1>4, <1>5, <1>6, <1>7 DEF Next, Laufschritt

\* With one worker, no restart and no company form open nobody gets the same
\* reminder twice in a round, whatever becomes of the mails: what is in the log
\* is said by the level in the row, from which the level at hand must rise, or
\* was sent by the run that is at it, which crosses off whom it has told (lines
\* 122, 147).
THEOREM KeinerDoppeltErinnert ==
    ASSUME EinLauf, Bearbeiter = {}, MaxNeustart = 0
    PROVE  Spec => KeineDoppelteErinnerung
  <1> DEFINE Neu(r) == (arbeit'[r].raus \ arbeit[r].raus) \cap post[arbeit[r].u]
             Schritt == \A r \in Laeufe :
                            /\ pc[r] = "mail"
                            /\ arbeit[r].u \notin Ungueltig
                            /\ ~arbeit[r].neu
                            => Neu(r) = {}
  <1>1. Init => BuchInv /\ PostEntspricht
    BY BuchInvAmAnfang DEF Init, PostEntspricht
  <1>2. BuchInv /\ PostEntspricht /\ [Next]_vars => (BuchInv /\ PostEntspricht)'
    BY BuchInvErhalten, PostErhalten
  <1>3. BuchInv /\ PostEntspricht /\ [Next]_vars => [Schritt]_vars
    <2> SUFFICES ASSUME BuchInv, PostEntspricht, [Next]_vars, NEW r \in Laeufe,
                        pc[r] = "mail", arbeit[r].u \notin Ungueltig, ~arbeit[r].neu
                 PROVE  Neu(r) = {}
      OBVIOUS
    <2>1. CASE arbeit'[r].raus \subseteq arbeit[r].raus
      BY <2>1
    <2>2. ASSUME NEW e \in Adressen, MailSenden(r, e) \/ MailScheitert(r, e),
                 ~(arbeit'[r].raus \subseteq arbeit[r].raus)
          PROVE  Neu(r) = {}
      <3> DEFINE a == arbeit[r]
                 m == <<a.stufe, e>>
                 f == firma[a.u]
      <3>1. /\ a.u \in Firmen /\ e \in a.offen
            /\ arbeit' = arbeit \/
               arbeit'[r] = [a EXCEPT !.offen = @ \ {e}, !.raus = @ \cup {m}]
        BY <2>2, MailArbeit
      <3>2. arbeit'[r].raus = a.raus \cup {m}
        <4>1. a \in Arbeit
          BY DEF BuchInv, LaufInv, TypeOK
        <4> HIDE DEF m
        <4> QED
          BY <2>2, <3>1, <4>1 DEF Arbeit
      <3>3. /\ a.stufe = a.zeile.level /\ Aufstieg(f.level, a.zeile.level)
            /\ m \notin a.raus
        BY <3>1 DEF BuchInv, Buch, ArbeitStimmt, ArbeitRichtig, Unterwegs
      <3>4. m \in post[a.u] => Entspricht(m, f.level) \/ m \in a.raus
        BY <3>1 DEF PostEntspricht, EinLauf
      <3>5. ~Entspricht(m, f.level)
        <4>1. m[1] = a.zeile.level
          BY <3>3
        <4> HIDE DEF m
        <4> QED
          BY <3>3, <4>1, ScoringAssumption DEF Entspricht, Aufstieg, Stufen
      <3> HIDE DEF m
      <3> QED
        BY <3>2, <3>3, <3>4, <3>5
    <2>3. ASSUME ~\E e \in Adressen : MailSenden(r, e) \/ MailScheitert(r, e)
          PROVE  arbeit'[r].raus \subseteq arbeit[r].raus
      <3>1. CASE \E s \in Laeufe : Starten(s) \/ Laufschritt(s)
        <4>1. PICK s \in Laeufe : Starten(s) \/ Laufschritt(s)
          BY <3>1
        <4>2. s = r
          BY DEF EinLauf
        <4> QED
          BY <2>3, <4>1, <4>2
             DEF Starten, Laufschritt, KontaktErmitteln, FristBestimmen, OhneKontakt,
                 Speichern, LaufBeenden, LaufAbbrechen
      <3>2. CASE Webzugriff \/ TagWechsel \/ UNCHANGED vars
        BY <3>2 DEF Webzugriff, KontaktAnlegen, KontaktAendern, KontaktLoeschen,
                    BetreuerZuweisen, Abgeben, ProjekteAendern, UnternehmenLaden,
                    UnternehmenSpeichern, UpdateScoring, Schreibzugriff, TagWechsel,
                    vars, job
      <3>3. CASE Neustart
        BY <3>3 DEF Neustart, KeineArbeit
      <3> QED
        BY <3>1, <3>2, <3>3 DEF Next
    <2> QED
      BY <2>1, <2>2, <2>3
  <1> QED
    BY <1>1, <1>2, <1>3, PTL DEF Spec, KeineDoppelteErinnerung
------------------------------------------------------------------------------
(* The date of the last contact reaches its company.                        *)

\* The row r is about to write, if it writes one, has the date of its contact.
LEMMA ZeileHatTermin ==
    ASSUME BuchInv, TerminKommtAn, EinLauf, NEW r \in Laeufe,
           NEW u \in Firmen \ Ungueltig, arbeit[r].u = u,
           pc[r] \in {"speichern", "abbruch"}, Massgeblich(arbeit[r].zeile.letzter, u)
    PROVE  arbeit[r].zeile.naechster = kontakt[arbeit[r].zeile.letzter].naechster
  <1> DEFINE a == arbeit[r]
             f == firma[u]
             k == a.zeile.letzter
  <1>1. CASE a.geaendert
    BY <1>1 DEF TerminKommtAn
  <1>2. CASE ~a.geaendert
    <2>1. k = f.letzter /\ Bearbeitet(a, f)
      BY <1>2 DEF BuchInv, Buch, ArbeitStimmt, ArbeitRichtig
    <2>2. f.naechster = kontakt[k].naechster
      BY <1>2, <2>1 DEF TerminKommtAn, EinLauf
    <2>3. ~Verfallen(f.naechster, tag)
      BY <2>2 DEF Massgeblich
    <2> QED
      BY <1>2, <2>1, <2>2, <2>3 DEF Bearbeitet
  <1> QED
    BY <1>1, <1>2

\* Where contacts, calendar and rows stay, and no company is taken up, what was
\* right stays right.
LEMMA TerminRuhe ==
    ASSUME TerminKommtAn, UNCHANGED <<firma, kontakt, tag, arbeit>>,
           \A r \in Laeufe : \/ pc'[r] \in {"bereit", "unternehmen"}
                             \/ pc'[r] = pc[r]
                             \/ pc[r] = "mail"
                             \/ arbeit[r].u \notin Firmen
                             \/ ~arbeit[r].geaendert
                             \/ arbeit[r].zeile.letzter = Null,
           \A r \in Laeufe : pc'[r] \in {"bereit", "unternehmen"} => arbeit[r].u \notin Firmen
    PROVE  TerminKommtAn'
  BY DEF TerminKommtAn, Massgeblich

LEMMA TerminErmitteln ==
    ASSUME BuchInv, TerminKommtAn, EinLauf, NEW r \in Laeufe, NEW u \in Firmen,
           KontaktErmitteln(r, u)
    PROVE  TerminKommtAn'
  <1> DEFINE k == Letzter(r, u)
             markiert == k # Null /\ Gesehen(r, k).geaendert
             n == [Gesehen(r, k) EXCEPT !.geaendert = FALSE]
  <1>t. TypeOK /\ kontakt \in [Kontakte -> KontaktSatz] /\ firma \in [Firmen -> Zeile]
    BY DEF BuchInv, LaufInv, TypeOK
  <1>1. /\ pc[r] = "unternehmen" /\ u \in rest[r] /\ arbeit'[r].u = u
        /\ pc' = [pc EXCEPT ![r] = "frist"] /\ tag' = tag
    BY <1>t, ErmittelnWirkt DEF umwelt
  <1>2. arbeit'[r].geaendert <=> k # sitzung[r].firma[u].letzter \/ markiert
    BY <1>t, ErmittelnArbeit
  <1>3. /\ \A j \in Kontakte :
               /\ j \notin KontakteMit(u) => sitzung'[r].kontakt[j] = sitzung[r].kontakt[j]
               /\ j \in KontakteMit(u) /\ ~(markiert /\ j = k) =>
                      sitzung'[r].kontakt[j] = Gesehen(r, j)
               /\ j # k \/ ~markiert => kontakt'[j] = kontakt[j]
        /\ markiert => /\ sitzung'[r].kontakt[k] = n
                       /\ kontakt'[k] = [n EXCEPT !.firmen = kontakt[k].firmen]
        /\ firma' = IF markiert /\ arbeit'[r].zeile # sitzung[r].firma[u]
                    THEN [firma EXCEPT ![u] = arbeit'[r].zeile] ELSE firma
    BY <1>t, ErmittelnKontakte
  <1>4. /\ k # Null => k \in KontakteMit(u) /\ k \in Kontakte /\ u \in kontakt[k].firmen
        /\ k # Null => Gesehen(r, k) \in KontaktSatz
    BY <1>t, LetzterIstLetzter, GesehenTyp DEF KontakteMit
  <1>5. arbeit[r] = KeineArbeit /\ sitzung[r].firma[u] = firma[u]
    BY <1>1 DEF BuchInv, LaufInv, Unbeschaeftigt, Buch, SitzungGleich
  <1>6. \A s \in Laeufe : s = r
    BY DEF EinLauf
  <1>7. KeineArbeit.u \notin Firmen
    BY JobAssumption DEF KeineArbeit
  <1>8. pc'[r] = "frist"
    BY <1>1 DEF BuchInv, LaufInv, TypeOK
  <1>m. markiert => k # Null
    OBVIOUS
  <1> HIDE DEF k, markiert
  <1>9. markiert => kontakt'[k].firmen = kontakt[k].firmen
    BY <1>3, <1>4, <1>m DEF n, KontaktSatz
  <1> HIDE DEF n
  <1>10. ASSUME NEW v \in Firmen \ Ungueltig, Massgeblich(firma[v].letzter, v)'
         PROVE  \/ \E s \in Laeufe : arbeit'[s].u = v /\ arbeit'[s].geaendert
                \/ firma'[v].naechster = kontakt'[firma'[v].letzter].naechster
    <2>1. CASE v = u /\ arbeit'[r].geaendert
      BY <1>1, <2>1
    <2>2. CASE v = u /\ ~arbeit'[r].geaendert
      <3>1. ~markiert /\ firma' = firma
        BY <1>2, <1>3, <2>2
      <3>2. firma[v].letzter \in Kontakte
        BY <1>10, <3>1, <1>t DEF Massgeblich, Zeile
      <3>3. kontakt'[firma[v].letzter] = kontakt[firma[v].letzter]
        BY <1>3, <3>1, <3>2
      <3>4. Massgeblich(firma[v].letzter, v)
        BY <1>1, <1>10, <3>1, <3>3 DEF Massgeblich
      <3> QED
        BY <3>1, <3>3, <3>4, <1>5, <1>6, <1>7 DEF TerminKommtAn
    <2>3. CASE v # u
      <3> DEFINE j == firma[v].letzter
      <3>1. firma'[v] = firma[v]
        BY <1>3, <1>t, <2>3
      <3>2. j \in Kontakte /\ kontakt'[j].firmen = {v}
        BY <1>10, <3>1, <1>t DEF Massgeblich, Zeile
      <3>3. j # k \/ ~markiert
        BY <1>4, <1>9, <1>m, <2>3, <3>2
      <3>4. kontakt'[j] = kontakt[j]
        BY <1>3, <3>2, <3>3
      <3>5. Massgeblich(j, v)
        BY <1>1, <1>10, <3>1, <3>4 DEF Massgeblich
      <3> QED
        BY <3>1, <3>4, <3>5, <1>5, <1>6, <1>7 DEF TerminKommtAn
    <2> QED
      BY <2>1, <2>2, <2>3
  <1> QED
    BY <1>6, <1>8, <1>10 DEF TerminKommtAn

LEMMA TerminFrist ==
    ASSUME BuchInv, TerminKommtAn, EinLauf, NEW r \in Laeufe, FristBestimmen(r)
    PROVE  TerminKommtAn'
  <1> DEFINE a == arbeit[r]
             k == a.zeile.letzter
             s == sitzung[r].kontakt[k]
  <1>1. /\ pc[r] = "frist" /\ a.u \in Firmen /\ k # Null
        /\ UNCHANGED <<db, umwelt>>
        /\ arbeit'[r].u = a.u /\ arbeit'[r].geaendert = a.geaendert
        /\ arbeit'[r].zeile.letzter = k
        /\ a.geaendert /\ s.naechster # Null /\ ~Verfallen(s.naechster, tag)
               => arbeit'[r].zeile.naechster = s.naechster
    BY FristArbeit
  <1>2. firma' = firma /\ kontakt' = kontakt /\ tag' = tag
    BY <1>1 DEF db, umwelt
  <1>3. k \in sitzung[r].geladen
    BY <1>1 DEF BuchInv, Buch, ArbeitStimmt, ArbeitRichtig
  <1>4. Massgeblich(k, a.u) => s.naechster = kontakt[k].naechster
    BY <1>3 DEF Massgeblich, BuchInv, Buch, KontakteGleich, KontaktGleich
  <1>5. \A t \in Laeufe : t = r
    BY DEF EinLauf
  <1> HIDE DEF a, k, s
  <1>6. a.geaendert /\ Massgeblich(k, a.u)
            => arbeit'[r].zeile.naechster = kontakt[k].naechster
    BY <1>1, <1>4 DEF Massgeblich
  <1>7. \A u \in Firmen \ Ungueltig :
            /\ Massgeblich(firma[u].letzter, u)
            /\ ~(arbeit'[r].u = u /\ arbeit'[r].geaendert)
            => firma[u].naechster = kontakt[firma[u].letzter].naechster
    BY <1>1, <1>5 DEF TerminKommtAn, a
  <1> QED
    BY <1>1, <1>2, <1>5, <1>6, <1>7 DEF TerminKommtAn, Massgeblich, a

LEMMA TerminMail ==
    ASSUME BuchInv, TerminKommtAn, EinLauf, NEW r \in Laeufe, NEW e \in Adressen,
           MailSenden(r, e) \/ MailScheitert(r, e)
    PROVE  TerminKommtAn'
  <1>1. /\ UNCHANGED <<firma, kontakt, tag>> /\ pc[r] = "mail"
        /\ arbeit'[r].u = arbeit[r].u /\ arbeit'[r].zeile = arbeit[r].zeile
    BY MailWirkt DEF BuchInv, LaufInv, db, umwelt
  <1>2. arbeit'[r].geaendert = arbeit[r].geaendert
    BY DEF MailSenden, MailScheitert, Verschickt, BuchInv, LaufInv, TypeOK, Arbeit
  <1>3. \A t \in Laeufe : t = r
    BY DEF EinLauf
  <1> QED
    BY <1>1, <1>2, <1>3 DEF TerminKommtAn, Massgeblich

LEMMA TerminEnde ==
    ASSUME BuchInv, TerminKommtAn, EinLauf, NEW r \in Laeufe,
           Speichern(r) \/ LaufAbbrechen(r)
    PROVE  TerminKommtAn'
  <1>t. /\ TypeOK /\ arbeit[r].u \in Firmen \cup {Null} /\ KeineArbeit.u \notin Firmen
        /\ pc \in [Laeufe -> Zustaende] /\ arbeit \in [Laeufe -> Arbeit]
    BY JobAssumption DEF BuchInv, LaufInv, TypeOK, Arbeit, KeineArbeit
  <1>1. /\ UNCHANGED <<kontakt, tag>> /\ pc[r] \in {"speichern", "abbruch"}
        /\ arbeit'[r] = KeineArbeit /\ pc'[r] \in {"bereit", "unternehmen"}
    BY <1>t DEF Speichern, LaufAbbrechen, umwelt
  <1>2. \A s \in Laeufe : s = r
    BY DEF EinLauf
  <1>3. CASE arbeit[r].u \notin Firmen
    <2>1. firma' = firma
      BY <1>3, <1>t DEF Speichern, LaufAbbrechen, BuchInv, LaufInv, ArbeitHatFirma
    <2>2. \A s \in Laeufe, u \in Firmen : arbeit[s].u # u
      BY <1>2, <1>3
    <2> QED
      BY <1>1, <1>2, <2>1, <2>2 DEF TerminKommtAn, Massgeblich
  <1>4. ASSUME NEW v \in Firmen, arbeit[r].u = v PROVE TerminKommtAn'
    <2>1. (UNCHANGED firma /\ v \in Ungueltig) \/ Schreiben(r)
      BY <1>4, JobAssumption DEF Speichern, LaufAbbrechen
    <2>2. \A u \in Firmen : u # v => firma'[u] = firma[u]
      BY <2>1, <1>4, <1>t, SchreibenWirkt
    <2>3. v \notin Ungueltig => firma'[v] = arbeit[r].zeile
      <3>1. sitzung[r].firma[v] = firma[v]
        BY <1>1, <1>4 DEF BuchInv, Buch, SitzungGleich
      <3> QED
        BY <2>1, <3>1, <1>4, <1>t, SchreibenWirkt
    <2>4. \A u \in Firmen \ Ungueltig : u # v /\ Massgeblich(firma[u].letzter, u)
              => firma[u].naechster = kontakt[firma[u].letzter].naechster
      BY <1>2, <1>4 DEF TerminKommtAn
    <2>5. v \notin Ungueltig /\ Massgeblich(arbeit[r].zeile.letzter, v) =>
              arbeit[r].zeile.naechster = kontakt[arbeit[r].zeile.letzter].naechster
      BY <1>1, <1>4, ZeileHatTermin
    <2>6. ASSUME NEW u \in Firmen \ Ungueltig, Massgeblich(firma[u].letzter, u)'
          PROVE  firma'[u].naechster = kontakt'[firma'[u].letzter].naechster
      <3>1. Massgeblich(firma'[u].letzter, u)
        BY <1>1, <2>6 DEF Massgeblich
      <3>2. CASE u = v
        BY <1>1, <2>3, <2>5, <3>1, <3>2
      <3>3. CASE u # v
        BY <1>1, <2>2, <2>4, <3>1, <3>3
      <3> QED
        BY <3>2, <3>3
    <2> QED
      BY <1>1, <1>2, <2>6 DEF TerminKommtAn
  <1> QED
    BY <1>3, <1>4

LEMMA TerminKontakt ==
    ASSUME BuchInv, TerminKommtAn, NEW k \in Kontakte,
           KontaktAnlegen(k) \/ KontaktAendern(k) \/ KontaktLoeschen(k)
    PROVE  TerminKommtAn'
  <1>1. UNCHANGED <<firma, pc, arbeit, tag>>
    BY DEF KontaktAnlegen, KontaktAendern, KontaktLoeschen, Schreibzugriff, job
  <1>2. /\ kontakt \in [Kontakte -> KontaktSatz] /\ firma \in [Firmen -> Zeile]
        /\ arbeit \in [Laeufe -> Arbeit]
    BY DEF BuchInv, LaufInv, TypeOK
  <1>3. /\ \A j \in Kontakte : j # k => kontakt'[j] = kontakt[j]
        /\ kontakt'[k].firmen = {} \/ kontakt'[k].geaendert
    BY <1>2 DEF KontaktLoeschen, KeinKontakt, KontaktAnlegen, KontaktAendern, KontaktSchreiben
  <1>4. ASSUME NEW j \in Kontakte, NEW u, Massgeblich(j, u)'
        PROVE  kontakt'[j] = kontakt[j] /\ Massgeblich(j, u)
    <2>1. j # k
      BY <1>3, <1>4 DEF Massgeblich
    <2> QED
      BY <1>1, <1>3, <1>4, <2>1 DEF Massgeblich
  <1>5. \A u \in Firmen : Massgeblich(firma[u].letzter, u)' =>
            /\ kontakt'[firma[u].letzter] = kontakt[firma[u].letzter]
            /\ Massgeblich(firma[u].letzter, u)
    <2> TAKE u \in Firmen
    <2> HAVE Massgeblich(firma[u].letzter, u)'
    <2>1. PICK j \in Kontakte : j = firma[u].letzter
      BY <1>1, <1>2 DEF Massgeblich, Zeile
    <2>2. Massgeblich(j, u)'
      BY <1>1, <2>1 DEF Massgeblich
    <2> QED
      BY <1>4, <2>1, <2>2
  <1>6. \A r \in Laeufe : Massgeblich(arbeit[r].zeile.letzter, arbeit[r].u)' =>
            /\ kontakt'[arbeit[r].zeile.letzter] = kontakt[arbeit[r].zeile.letzter]
            /\ Massgeblich(arbeit[r].zeile.letzter, arbeit[r].u)
    <2> TAKE r \in Laeufe
    <2> HAVE Massgeblich(arbeit[r].zeile.letzter, arbeit[r].u)'
    <2>1. PICK j \in Kontakte : j = arbeit[r].zeile.letzter
      BY <1>1, <1>2 DEF Massgeblich, Zeile, Arbeit
    <2>2. PICK u : u = arbeit[r].u
      OBVIOUS
    <2>3. Massgeblich(j, u)'
      BY <1>1, <2>1, <2>2 DEF Massgeblich
    <2> QED
      BY <1>4, <2>1, <2>2, <2>3
  <1> QED
    BY <1>1, <1>5, <1>6 DEF TerminKommtAn

LEMMA TerminErhalten ==
    ASSUME EinLauf, Bearbeiter = {}, MaxNeustart = 0, BuchInv, TerminKommtAn, [Next]_vars
    PROVE  TerminKommtAn'
  <1>t. /\ TypeOK /\ \A r, s \in Laeufe : r = s
        /\ pc \in [Laeufe -> Zustaende] /\ KeineArbeit.u \notin Firmen
    BY JobAssumption DEF BuchInv, LaufInv, EinLauf, TypeOK, KeineArbeit
  <1>u. \A r \in Laeufe : pc[r] \in {"bereit", "unternehmen"} => arbeit[r].u \notin Firmen
    BY <1>t DEF BuchInv, LaufInv, Unbeschaeftigt
  <1>1. ASSUME NEW r \in Laeufe, Starten(r) \/ LaufBeenden(r) PROVE TerminKommtAn'
    <2>1. /\ UNCHANGED <<firma, kontakt, tag, arbeit>>
          /\ pc[r] \in {"bereit", "unternehmen"}
      BY <1>1 DEF Starten, LaufBeenden, db, umwelt
    <2> QED
      BY <1>t, <1>u, <2>1, TerminRuhe
  <1>2. ASSUME NEW r \in Laeufe, OhneKontakt(r) PROVE TerminKommtAn'
    <2>1. /\ UNCHANGED <<firma, kontakt, tag, arbeit>>
          /\ arbeit[r].zeile.letzter = Null /\ pc'[r] \notin {"bereit", "unternehmen"}
      BY <1>2, <1>t DEF OhneKontakt, db, umwelt
    <2> QED
      BY <1>t, <2>1, TerminRuhe
  <1>3. ASSUME NEW r \in Laeufe, NEW u \in Firmen, KontaktErmitteln(r, u) PROVE TerminKommtAn'
    BY <1>3, TerminErmitteln
  <1>4. ASSUME NEW r \in Laeufe, FristBestimmen(r) PROVE TerminKommtAn'
    BY <1>4, TerminFrist
  <1>5. ASSUME NEW r \in Laeufe, NEW e \in Adressen, MailSenden(r, e) \/ MailScheitert(r, e)
        PROVE  TerminKommtAn'
    BY <1>5, TerminMail
  <1>6. ASSUME NEW r \in Laeufe, Speichern(r) \/ LaufAbbrechen(r) PROVE TerminKommtAn'
    BY <1>6, TerminEnde
  <1>7. ASSUME NEW k \in Kontakte,
               KontaktAnlegen(k) \/ KontaktAendern(k) \/ KontaktLoeschen(k)
        PROVE  TerminKommtAn'
    BY <1>7, TerminKontakt
  <1>8. CASE \/ \E u \in Firmen, p \in Personen : BetreuerZuweisen(u, p) \/ Abgeben(u, p)
             \/ \E u \in Firmen : ProjekteAendern(u)
             \/ UpdateScoring
             \/ UNCHANGED vars
    <2>1. UNCHANGED <<firma, kontakt, tag, arbeit, pc>>
      BY <1>8 DEF BetreuerZuweisen, Abgeben, ProjekteAendern, UpdateScoring, Schreibzugriff,
                  vars, db, job, umwelt
    <2> QED
      BY <1>u, <2>1, TerminRuhe
  <1>9. CASE TagWechsel
    <2>1. /\ UNCHANGED <<firma, kontakt, arbeit>>
          /\ \A r \in Laeufe : pc'[r] = "bereit" /\ arbeit[r].u \notin Firmen
          /\ tag \in Int /\ tag' \in Int /\ tag <= tag'
      BY <1>9, <1>t, <1>u, JobAssumption DEF TagWechsel, AlleBereit, db, job, TypeOK
    <2>2. ASSUME NEW u \in Firmen \ Ungueltig, Massgeblich(firma[u].letzter, u)'
          PROVE  Massgeblich(firma[u].letzter, u)
      <3>1. firma[u].letzter \in Kontakte
        BY <1>t, <2>1, <2>2 DEF TypeOK, Zeile, Massgeblich
      <3>2. kontakt[firma[u].letzter].naechster \in Datum
        BY <1>t, <3>1 DEF TypeOK, KontaktSatz
      <3>3. ~Verfallen(kontakt[firma[u].letzter].naechster, tag') =>
                ~Verfallen(kontakt[firma[u].letzter].naechster, tag)
        BY <2>1, <3>2, ScoringAssumption DEF Verfallen, Datum
      <3> QED
        BY <2>1, <2>2, <3>3 DEF Massgeblich
    <2> QED
      BY <2>1, <2>2 DEF TerminKommtAn
  <1>10. ~Neustart
    BY <1>t DEF Neustart, TypeOK
  <1> QED
    BY <1>1, <1>2, <1>3, <1>4, <1>5, <1>6, <1>7, <1>8, <1>9, <1>10
       DEF Next, Laufschritt, Webzugriff

\* With one worker, no restart and no company form open the date a user wrote
\* into the last contact is the company's after the next run, and stays so
\* until it is overdue by the limit: the run that takes the contact's mark away
\* is the one that takes over its date, mails and saves notwithstanding (lines
\* 94-106).
THEOREM TerminErreichtFirma ==
    ASSUME EinLauf, Bearbeiter = {}, MaxNeustart = 0
    PROVE  Spec => []TerminDesLetztenKontakts
  <1>1. Init => BuchInv /\ TerminKommtAn
    BY BuchInvAmAnfang DEF Init, TerminKommtAn, NeueFirma, Massgeblich
  <1>2. BuchInv /\ TerminKommtAn /\ [Next]_vars => (BuchInv /\ TerminKommtAn)'
    BY BuchInvErhalten, TerminErhalten
  <1>3. BuchInv /\ TerminKommtAn => TerminDesLetztenKontakts
    <2> SUFFICES ASSUME BuchInv, TerminKommtAn, AlleBereit, ~veraltet,
                        NEW u \in Firmen \ Ungueltig
                 PROVE  LET k == firma[u].letzter
                        IN  k # Null /\ kontakt[k].firmen = {u} /\ kontakt[k].naechster # Null
                            /\ ~Verfallen(kontakt[k].naechster, tag)
                            => firma[u].naechster = kontakt[k].naechster
      BY DEF TerminDesLetztenKontakts
    <2>1. RichtigBewertet(u)
      BY DEF BuchInv, LaufInv, Ungestoert, NachDemLauf
    <2>2. \A r \in Laeufe : arbeit[r].u # u
      BY JobAssumption DEF BuchInv, LaufInv, Unbeschaeftigt, AlleBereit, KeineArbeit
    <2>3. firma[u].letzter # Null => ~kontakt[firma[u].letzter].geaendert
      BY <2>1 DEF RichtigBewertet
    <2> QED
      BY <2>2, <2>3 DEF TerminKommtAn, Massgeblich
  <1> QED
    BY <1>1, <1>2, <1>3, PTL DEF Spec
==============================================================================
