------------------------- MODULE Nachbetreuung_proofs -------------------------
(***************************************************************************)
(* One company, any matrix, any projects and any contact, for as long as   *)
(* one likes: when levels stand, in which order reminders go out, and how  *)
(* many one contact can cause.                                             *)
(***************************************************************************)
EXTENDS Nachbetreuung, TLAPS

\* The invariants speak of days that have passed.
LEMMA InitTyp == Init => TypeOK
  <1> SUFFICES ASSUME Init PROVE TypeOK
    OBVIOUS
  <1>1. Null \in Datum
    BY DEF Datum
  <1>2. zeile \in [naechster : Datum, level : Stufen \cup {Null}]
    BY <1>1 DEF Init
  <1>3. mails \in [Stufen -> Nat]
    BY DEF Init
  <1> QED
    BY <1>2, <1>3, NachbetreuungAssumption DEF Init, TypeOK

\* The matrix gives a day after the contact, or nothing.
LEMMA MatrixTyp ==
    ASSUME NEW k \in Kontaktarten, NEW c \in Klassen
    PROVE  MatrixTermin(c, k) \in Datum /\ NeuerTermin(c, k) \in Datum
  <1>1. /\ k.datum \in Int
        /\ k.naechster \in Datum
        /\ k.bewertung \in Bewertungen \cup {Null}
    BY NachbetreuungAssumption
  <1>2. Bewertet(k.bewertung) \in Bewertungen
    BY <1>1 DEF Bewertet, Bewertungen
  <1>3. Matrix[c][Bewertet(k.bewertung)] \in (Nat \ {0}) \cup {Null}
    BY <1>2, ScoringAssumption
  <1>4. MatrixTermin(c, k) \in Datum
    BY <1>1, <1>3 DEF MatrixTermin, Datum
  <1> QED
    BY <1>1, <1>4 DEF NeuerTermin

LEMMA KlasseTyp ==
    ASSUME NEW p, NEW h
    PROVE  Klasse(p, h) \in Klassen
  BY DEF Klasse, Klassen

LEMMA NullIstKeineStufe ==
    /\ Null \notin Int
    /\ Null # "ermahnung"
    /\ Null # "warnung"
  BY ScoringAssumption DEF Stufen

(***************************************************************************)
(* What a pass does, in five cases: the date is dropped or replaced, or it *)
(* stays with or without a new level.                                      *)
(***************************************************************************)
Pass(z, c, k, h, b) ==
    \/ /\ Verfallen(z.naechster, h)
       /\ b.naechster = Ersatztermin(c, k, h) /\ b.level = Null /\ b.mail = Null
    \/ /\ ~Faellig(z.naechster, h)
       /\ b.naechster = z.naechster /\ b.level = z.level /\ b.mail = Null
    \/ /\ Faellig(z.naechster, h)
       /\ b.naechster = z.naechster
       /\ \/ z.level = "warnung" /\ b.level = z.level /\ b.mail = Null
          \/ /\ z.level # "warnung" /\ Warnreif(z.naechster, h)
             /\ b.level = "warnung" /\ b.mail = "warnung"
          \/ /\ z.level = Null /\ ~Warnreif(z.naechster, h)
             /\ b.level = "ermahnung" /\ b.mail = "ermahnung"
          \/ /\ z.level = "ermahnung" /\ ~Warnreif(z.naechster, h)
             /\ b.level = "ermahnung" /\ b.mail = Null

LEMMA PassFuerZeile ==
    ASSUME NEW y, NEW c, NEW k, NEW h, NEW b,
           y.level \in Stufen \cup {Null},
           b = IF Verfallen(y.naechster, h)
               THEN [naechster |-> Ersatztermin(c, k, h), level |-> Null, mail |-> Null]
               ELSE [naechster |-> y.naechster,
                     level |-> IF NeueStufe(y, h) = Null THEN y.level ELSE NeueStufe(y, h),
                     mail |-> NeueStufe(y, h)]
    PROVE  Pass(y, c, k, h, b)
  <1>1. CASE Verfallen(y.naechster, h)
    BY <1>1 DEF Pass
  <1>2. CASE ~Verfallen(y.naechster, h) /\ ~Faellig(y.naechster, h)
    <2>1. NeueStufe(y, h) = Null
      BY <1>2 DEF NeueStufe
    <2> QED
      BY <1>2, <2>1 DEF Pass
  <1>3. CASE ~Verfallen(y.naechster, h) /\ Faellig(y.naechster, h)
    <2>1. CASE y.level = "warnung"
      <3>1. NeueStufe(y, h) = Null
        BY <2>1 DEF NeueStufe
      <3> QED
        BY <1>3, <2>1, <3>1 DEF Pass
    <2>2. CASE y.level # "warnung" /\ Warnreif(y.naechster, h)
      <3>1. NeueStufe(y, h) = "warnung"
        BY <1>3, <2>2 DEF NeueStufe
      <3> QED
        BY <1>3, <2>2, <3>1, NullIstKeineStufe DEF Pass
    <2>3. CASE y.level = Null /\ ~Warnreif(y.naechster, h)
      <3>1. NeueStufe(y, h) = "ermahnung"
        BY <1>3, <2>3, NullIstKeineStufe DEF NeueStufe
      <3> QED
        BY <1>3, <2>3, <3>1, NullIstKeineStufe DEF Pass
    <2>4. CASE y.level = "ermahnung" /\ ~Warnreif(y.naechster, h)
      <3>1. NeueStufe(y, h) = Null
        BY <1>3, <2>4, NullIstKeineStufe DEF NeueStufe
      <3> QED
        BY <1>3, <2>4, <3>1 DEF Pass
    <2> QED
      BY <2>1, <2>2, <2>3, <2>4 DEF Stufen
  <1> QED
    BY <1>1, <1>2, <1>3

LEMMA BewertePass ==
    ASSUME NEW z, NEW g \in BOOLEAN, NEW c, NEW k, NEW h,
           z.level \in Stufen \cup {Null}
    PROVE  Pass(Angepasst(z, g, c, k), c, k, h, Bewerte(z, g, c, k, h))
  <1>1. Angepasst(z, g, c, k).level \in Stufen \cup {Null}
    BY DEF Angepasst
  <1> QED
    BY <1>1, PassFuerZeile DEF Bewerte

\* A morning with a run, with the row after a changed contact (z) and the row
\* the pass leaves (b).
Morgen(z, b) ==
    LET c == Klasse(projekte, heute)
    IN  /\ z = IF neu THEN [naechster |-> NeuerTermin(c, kontakt), level |-> Null] ELSE zeile
        /\ z.naechster \in Datum /\ z.level \in Stufen \cup {Null}
        /\ Pass(z, c, kontakt, heute, b)
        /\ zeile' = [naechster |-> b.naechster, level |-> b.level]
        /\ mails' = [s \in Stufen |-> mails[s] + (IF s = b.mail THEN 1 ELSE 0)]
        /\ neu' = FALSE
        /\ heute' = heute + 1
        /\ UNCHANGED <<kontakt, projekte, ausfaelle>>

LEMMA MorgenMitPass ==
    ASSUME TypeOK, MorgenMitLauf
    PROVE  \E z, b : Morgen(z, b)
  <1> DEFINE c == Klasse(projekte, heute)
             z == Angepasst(zeile, neu, c, kontakt)
             b == Bewerte(zeile, neu, c, kontakt, heute)
  <1>1. c \in Klassen
    BY KlasseTyp
  <1>2. /\ neu \in BOOLEAN
        /\ kontakt \in Kontaktarten
        /\ zeile.naechster \in Datum
        /\ zeile.level \in Stufen \cup {Null}
    BY DEF TypeOK
  <1> HIDE DEF c
  <1>3. Pass(z, c, kontakt, heute, b)
    BY <1>2, BewertePass
  <1>4. z = IF neu THEN [naechster |-> NeuerTermin(c, kontakt), level |-> Null] ELSE zeile
    BY DEF Angepasst
  <1>5. z.naechster \in Datum /\ z.level \in Stufen \cup {Null}
    BY <1>1, <1>2, <1>4, MatrixTyp
  <1>6. /\ zeile' = [naechster |-> b.naechster, level |-> b.level]
        /\ mails' = [s \in Stufen |-> mails[s] + (IF s = b.mail THEN 1 ELSE 0)]
        /\ neu' = FALSE
        /\ heute' = heute + 1
        /\ UNCHANGED <<kontakt, projekte, ausfaelle>>
    BY DEF MorgenMitLauf, c
  <1> HIDE DEF z, b
  <1> QED
    BY <1>3, <1>4, <1>5, <1>6 DEF Morgen, c

LEMMA TypErhalten == TypeOK /\ [Next]_vars => TypeOK'
  <1> SUFFICES ASSUME TypeOK, [Next]_vars PROVE TypeOK'
    OBVIOUS
  <1>1. CASE MorgenMitLauf
    <2>1. PICK z, b : Morgen(z, b)
      BY <1>1, MorgenMitPass
    <2>2. Ersatztermin(Klasse(projekte, heute), kontakt, heute) \in Datum
      BY MatrixTyp, KlasseTyp DEF Ersatztermin, TypeOK, Datum
    <2>3. b.naechster \in Datum /\ b.level \in Stufen \cup {Null}
      BY <2>1, <2>2 DEF Morgen, Pass, Stufen
    <2>4. zeile' \in [naechster : Datum, level : Stufen \cup {Null}]
      BY <2>1, <2>3 DEF Morgen
    <2>5. mails' \in [Stufen -> Nat]
      BY <2>1 DEF Morgen, TypeOK
    <2>6. heute' \in 0 .. Horizont
      BY <1>1, NachbetreuungAssumption DEF MorgenMitLauf, TypeOK
    <2> QED
      BY <2>1, <2>4, <2>5, <2>6 DEF Morgen, TypeOK
  <1>2. CASE MorgenOhneLauf
    BY <1>2, NachbetreuungAssumption DEF MorgenOhneLauf, TypeOK
  <1>3. CASE UNCHANGED vars
    BY <1>3 DEF vars, TypeOK
  <1> QED
    BY <1>1, <1>2, <1>3 DEF Next

\* Rows stay rows and no unknown level is mailed, for any matrix and contact.
THEOREM NachbetreuungTyp == Spec => []TypeOK
  BY InitTyp, TypErhalten, PTL DEF Spec
------------------------------------------------------------------------------
LEMMA FristErhalten ==
    TypeOK /\ StufeGehoertZuFrist /\ [Next]_vars => StufeGehoertZuFrist'
  <1> SUFFICES ASSUME TypeOK, StufeGehoertZuFrist, [Next]_vars PROVE StufeGehoertZuFrist'
    OBVIOUS
  <1>t. heute \in Nat /\ ausfaelle \in Nat /\ zeile.naechster \in Datum
    BY DEF TypeOK
  <1>1. CASE MorgenMitLauf
    <2>1. PICK z, b : Morgen(z, b)
      BY <1>1, MorgenMitPass
    <2>2. /\ heute' = heute + 1 /\ ausfaelle' = ausfaelle
          /\ zeile'.naechster = b.naechster /\ zeile'.level = b.level
          /\ z.naechster \in Datum
          /\ Pass(z, Klasse(projekte, heute), kontakt, heute, b)
      BY <2>1 DEF Morgen
    <2>3. z.level # Null => Faellig(z.naechster, heute - 1)
      BY <2>1, <1>t DEF Morgen, StufeGehoertZuFrist
    <2>4. CASE Verfallen(z.naechster, heute)
               /\ b.naechster = Ersatztermin(Klasse(projekte, heute), kontakt, heute)
               /\ b.level = Null
      <3>1. MatrixTermin(Klasse(projekte, heute), kontakt) \in Datum
        BY MatrixTyp, KlasseTyp DEF TypeOK
      <3>2. b.naechster \in Datum /\ ~Faellig(b.naechster, heute)
        BY <3>1, <2>4, <1>t, NullIstKeineStufe DEF Ersatztermin, Faellig, Datum
      <3>3. ~Faellig(b.naechster, heute - ausfaelle)
        BY <3>2, <1>t DEF Faellig, Datum
      <3> QED
        BY <3>3, <2>2, <2>4, <1>t DEF StufeGehoertZuFrist
    <2>5. CASE ~Faellig(z.naechster, heute) /\ b.naechster = z.naechster /\ b.level = z.level
      <3>1. z.level = Null
        BY <2>2, <2>3, <2>5, <1>t DEF Faellig, Datum
      <3>2. ~Faellig(b.naechster, heute - ausfaelle)
        BY <2>2, <2>5, <1>t DEF Faellig, Datum
      <3> QED
        BY <3>1, <3>2, <2>2, <2>5, <1>t DEF StufeGehoertZuFrist
    <2>6. CASE Faellig(z.naechster, heute) /\ b.naechster = z.naechster /\ b.level # Null
      BY <2>2, <2>6, <1>t DEF StufeGehoertZuFrist
    <2> QED
      BY <2>2, <2>4, <2>5, <2>6, NullIstKeineStufe DEF Pass
  <1>2. CASE MorgenOhneLauf
    <2>1. /\ heute' - 1 = heute
          /\ heute' - 1 - ausfaelle' = heute - 1 - ausfaelle
          /\ UNCHANGED <<zeile, neu>>
      BY <1>2, <1>t DEF MorgenOhneLauf
    <2>2. Faellig(zeile.naechster, heute - 1) => Faellig(zeile.naechster, heute)
      BY <1>t DEF Faellig, Datum
    <2> QED
      BY <2>1, <2>2 DEF StufeGehoertZuFrist
  <1>3. CASE UNCHANGED vars
    BY <1>3 DEF vars, StufeGehoertZuFrist
  <1> QED
    BY <1>1, <1>2, <1>3 DEF Next

\* A level always belongs to an overdue date, and no overdue date is without
\* one for longer than the mornings missed (lines 94-151).
THEOREM StufeZurFrist == Spec => []StufeGehoertZuFrist
  <1>1. Init => StufeGehoertZuFrist
    BY DEF Init, StufeGehoertZuFrist
  <1> QED
    BY <1>1, InitTyp, TypErhalten, FristErhalten, PTL DEF Spec
------------------------------------------------------------------------------
\* No morning was missed, and the first date was not overdue for days.
OhneAusfall ==
    ausfaelle = 0 /\ ~Warnreif(NeuerTermin(Klasse(projekte, 0), kontakt), 0)

\* The first run is on the day of the contact, and an Ermahnung that stands
\* has not been followed by its warning yet.
Reihenfolge ==
    OhneAusfall =>
        /\ neu => heute = 0
        /\ ~neu /\ zeile.level = "ermahnung" => mails["warnung"] + 1 <= mails["ermahnung"]
        /\ mails["warnung"] <= mails["ermahnung"]

LEMMA ReihenfolgeErhalten ==
    TypeOK /\ StufeGehoertZuFrist /\ Reihenfolge /\ [Next]_vars => Reihenfolge'
  <1> SUFFICES ASSUME TypeOK, StufeGehoertZuFrist, Reihenfolge, [Next]_vars, OhneAusfall'
               PROVE  Reihenfolge'
    BY DEF Reihenfolge
  <1>t. /\ heute \in Nat /\ ausfaelle \in Nat
        /\ mails["warnung"] \in Nat /\ mails["ermahnung"] \in Nat
    BY DEF TypeOK, Stufen
  <1>1. CASE MorgenMitLauf
    <2>1. PICK z, b : Morgen(z, b)
      BY <1>1, MorgenMitPass
    <2>2. OhneAusfall /\ ausfaelle = 0
      BY <2>1 DEF Morgen, OhneAusfall
    <2>3. /\ neu => heute = 0
          /\ ~neu /\ zeile.level = "ermahnung" => mails["warnung"] + 1 <= mails["ermahnung"]
          /\ mails["warnung"] <= mails["ermahnung"]
      BY <2>2 DEF Reihenfolge
    <2>4. z.level = "ermahnung" => ~neu /\ zeile.level = "ermahnung"
      BY <2>1, NullIstKeineStufe DEF Morgen
    <2>5. ~(z.level = Null /\ Warnreif(z.naechster, heute))
      <3> SUFFICES ASSUME z.level = Null, Warnreif(z.naechster, heute) PROVE FALSE
        OBVIOUS
      <3>1. CASE neu
        BY <3>1, <2>1, <2>2, <2>3 DEF Morgen, OhneAusfall
      <3>2. CASE ~neu
        <4>1. ~Faellig(z.naechster, heute - 1 - 0)
          BY <3>2, <2>1, <2>2 DEF Morgen, StufeGehoertZuFrist
        <4> QED
          BY <4>1, <2>1, <1>t, ScoringAssumption, NachbetreuungAssumption
          DEF Morgen, Warnreif, Faellig, Datum
      <3> QED
        BY <3>1, <3>2
    <2>6. /\ mails'["warnung"] = mails["warnung"] + (IF b.mail = "warnung" THEN 1 ELSE 0)
          /\ mails'["ermahnung"] = mails["ermahnung"] + (IF b.mail = "ermahnung" THEN 1 ELSE 0)
          /\ zeile'.level = b.level
          /\ neu' = FALSE
          /\ Pass(z, Klasse(projekte, heute), kontakt, heute, b)
          /\ z.level \in Stufen \cup {Null}
      BY <2>1 DEF Morgen, Stufen
    <2>7. CASE b.mail = Null /\ b.level \in {Null, z.level}
      BY <2>3, <2>4, <2>6, <2>7, <1>t, NullIstKeineStufe DEF Reihenfolge
    <2>8. CASE b.mail = "warnung" /\ b.level = "warnung" /\ z.level = "ermahnung"
      BY <2>3, <2>4, <2>6, <2>8, <1>t DEF Reihenfolge
    <2>9. CASE b.mail = "ermahnung" /\ b.level = "ermahnung"
      BY <2>3, <2>6, <2>9, <1>t DEF Reihenfolge
    <2> QED
      BY <2>5, <2>6, <2>7, <2>8, <2>9 DEF Pass, Stufen
  <1>2. CASE MorgenOhneLauf
    BY <1>2, <1>t DEF MorgenOhneLauf, OhneAusfall
  <1>3. CASE UNCHANGED vars
    BY <1>3 DEF vars, Reihenfolge, OhneAusfall
  <1> QED
    BY <1>1, <1>2, <1>3 DEF Next

\* Staff is reminded before the head office is, unless a morning was missed or
\* the date was overdue when the contact was entered (lines 125-150).
THEOREM ErmahnungZuerst == Spec => []ErmahnungVorWarnung
  <1>1. Init => StufeGehoertZuFrist /\ Reihenfolge
    <2> SUFFICES ASSUME Init PROVE StufeGehoertZuFrist /\ Reihenfolge
      OBVIOUS
    <2>1. mails["warnung"] = 0 /\ mails["ermahnung"] = 0
      BY DEF Init, Stufen
    <2> QED
      BY <2>1 DEF Init, StufeGehoertZuFrist, Reihenfolge
  <1>2. Reihenfolge => ErmahnungVorWarnung
    BY DEF Reihenfolge, ErmahnungVorWarnung, OhneAusfall
  <1> QED
    BY <1>1, <1>2, InitTyp, TypErhalten, FristErhalten, ReihenfolgeErhalten, PTL DEF Spec
------------------------------------------------------------------------------
(***************************************************************************)
(* How many rounds.  The date of a row is the one written down in the      *)
(* contact (round 1), the one of the matrix for the class of day 0, or the *)
(* one for another class the company has come to; in this order, and none  *)
(* comes back once it has been dropped.  In round i each stage was mailed  *)
(* i - 1 times before, and once more if it has been reached.               *)
(***************************************************************************)
Klasse0 == Klasse(projekte, 0)
Eigener == IF kontakt.naechster = Null THEN 0 ELSE 1

Runde(i, stufe, m) ==
    \A s \in Stufen : m[s] <= i - 1 + (IF stufe \in {s, "warnung"} THEN 1 ELSE 0)

RundenAm(h) == Eigener + (IF Klasse(projekte, h) = Klasse0 THEN 1 ELSE 2)

Lage(termin, stufe, m, h) ==
    \/ termin = Null /\ \A s \in Stufen : m[s] <= RundenAm(h)
    \/ Eigener = 1 /\ termin = kontakt.naechster /\ Runde(1, stufe, m)
    \/ termin = MatrixTermin(Klasse0, kontakt) /\ Runde(Eigener + 1, stufe, m)
    \/ /\ Klasse(projekte, h) # Klasse0
       /\ termin = MatrixTermin(Klasse(projekte, h), kontakt)
       /\ Runde(Eigener + 2, stufe, m)

RundenInv ==
    /\ neu => \A s \in Stufen : mails[s] = 0
    /\ ~neu => Lage(zeile.naechster, zeile.level, mails, heute)

\* As days pass, a company can only slip from A to B.
LEMMA Klassenfolge ==
    ASSUME TypeOK, NEW i \in Nat, NEW j \in Nat, i <= j
    PROVE  \/ Klasse(projekte, j) = Klasse(projekte, i)
           \/ Klasse(projekte, i) = "A" /\ Klasse(projekte, j) = "B"
  <1>1. \A p \in projekte : p.ende \in Datum
    BY NachbetreuungAssumption DEF TypeOK, Projekt
  <1>2. \A p \in projekte :
           p.ende # Null /\ p.ende > j - ProjektAlterB
           => p.ende # Null /\ p.ende > i - ProjektAlterB
    BY <1>1, ScoringAssumption DEF Datum
  <1> QED
    BY <1>2 DEF Klasse

LEMMA Folgetag ==
    ASSUME TypeOK, Klasse(projekte, heute) # Klasse0
    PROVE  Klasse(projekte, heute + 1) = Klasse(projekte, heute)
  <1>1. heute \in Nat /\ heute + 1 \in Nat /\ 0 <= heute /\ heute <= heute + 1
    BY DEF TypeOK
  <1>2. Klasse(projekte, heute) = "B"
    BY <1>1, Klassenfolge DEF Klasse0
  <1> QED
    BY <1>1, <1>2, Klassenfolge

\* Tomorrow more rounds are allowed, never fewer.
LEMMA RundenWachsen ==
    ASSUME TypeOK
    PROVE  /\ RundenAm(heute) \in Nat
           /\ RundenAm(heute) <= RundenAm(heute + 1)
  BY Folgetag DEF RundenAm, Eigener

LEMMA LageBegrenzt ==
    ASSUME TypeOK, NEW n, NEW l, NEW m \in [Stufen -> Nat], Lage(n, l, m, heute)
    PROVE  \A s \in Stufen : m[s] <= RundenAm(heute)
  BY DEF Lage, Runde, RundenAm, Eigener

LEMMA LageMorgen ==
    ASSUME TypeOK, NEW n, NEW l, NEW m \in [Stufen -> Nat], Lage(n, l, m, heute)
    PROVE  Lage(n, l, m, heute + 1)
  <1>1. CASE n = Null /\ \A s \in Stufen : m[s] <= RundenAm(heute)
    <2>1. \A s \in Stufen : m[s] \in Nat /\ m[s] <= RundenAm(heute)
      BY <1>1
    <2>2. RundenAm(heute) \in Nat /\ RundenAm(heute + 1) \in Nat
      BY DEF RundenAm, Eigener
    <2> QED
      BY <1>1, <2>1, <2>2, RundenWachsen DEF Lage
  <1>2. CASE /\ Klasse(projekte, heute) # Klasse0
             /\ n = MatrixTermin(Klasse(projekte, heute), kontakt)
             /\ Runde(Eigener + 2, l, m)
    BY <1>2, Folgetag DEF Lage
  <1> QED
    BY <1>1, <1>2 DEF Lage

\* A date that is dropped gives way to the next one of the order, or to none.
LEMMA LageNachVerfall ==
    ASSUME TypeOK, NEW n \in Datum, NEW l, Lage(n, l, mails, heute), Verfallen(n, heute)
    PROVE  Lage(Ersatztermin(Klasse(projekte, heute), kontakt, heute), Null, mails, heute)
  <1> DEFINE c == Klasse(projekte, heute)
             t == MatrixTermin(c, kontakt)
  <1>1. \A s \in Stufen : mails[s] \in Nat
    BY DEF TypeOK
  <1>2. heute \in Nat /\ t \in Datum
    BY MatrixTyp, KlasseTyp DEF TypeOK
  <1>3. CASE t # Null /\ t > heute
    <2>1. n # t /\ n # Null
      BY <1>2, <1>3, ScoringAssumption DEF Verfallen, Datum
    <2>2. Ersatztermin(c, kontakt, heute) = t
      BY <1>3 DEF Ersatztermin
    <2>3. CASE Eigener = 1 /\ Runde(1, l, mails)
      <3>1. \A s \in Stufen : mails[s] <= 1
        BY <2>3, <1>1 DEF Runde
      <3>2. Runde(2, Null, mails) /\ Runde(3, Null, mails)
        BY <3>1, <1>1 DEF Runde
      <3> QED
        BY <2>2, <2>3, <3>2 DEF Lage
    <2>4. CASE n = MatrixTermin(Klasse0, kontakt) /\ Runde(Eigener + 1, l, mails)
      <3>1. c # Klasse0
        BY <2>1, <2>4
      <3>2. Runde(Eigener + 2, Null, mails)
        BY <2>4, <1>1 DEF Runde, Eigener
      <3> QED
        BY <2>2, <3>1, <3>2 DEF Lage
    <2> QED
      BY <2>1, <2>3, <2>4 DEF Lage
  <1>4. CASE ~(t # Null /\ t > heute)
    <2>1. Ersatztermin(c, kontakt, heute) = Null
      BY <1>4 DEF Ersatztermin
    <2>2. mails \in [Stufen -> Nat]
      BY DEF TypeOK
    <2> QED
      BY <2>1, <2>2, LageBegrenzt DEF Lage
  <1> QED
    BY <1>3, <1>4

\* A mailed stage has not been mailed in this round.
LEMMA RundeWeiter ==
    ASSUME NEW i \in Nat, NEW m \in [Stufen -> Nat], NEW m2, NEW l, NEW s \in Stufen,
           Runde(i, l, m),
           m2 = [r \in Stufen |-> m[r] + (IF r = s THEN 1 ELSE 0)],
           l # "warnung", s = "ermahnung" => l = Null
    PROVE  Runde(i, s, m2)
  <1>1. m["ermahnung"] \in Nat /\ m["warnung"] \in Nat
    BY DEF Stufen
  <1>2. /\ m["warnung"] <= i - 1
        /\ m["ermahnung"] <= i
        /\ s = "ermahnung" => m["ermahnung"] <= i - 1
    <2>1. m["warnung"] <= i - 1 + (IF l \in {"warnung", "warnung"} THEN 1 ELSE 0)
      BY DEF Runde, Stufen
    <2>2. m["ermahnung"] <= i - 1 + (IF l \in {"ermahnung", "warnung"} THEN 1 ELSE 0)
      BY DEF Runde, Stufen
    <2>3. s = "ermahnung" => l \notin {"ermahnung", "warnung"}
      BY NullIstKeineStufe
    <2> QED
      BY <1>1, <2>1, <2>2, <2>3
  <1>3. CASE s = "warnung"
    BY <1>1, <1>2, <1>3 DEF Runde, Stufen
  <1>4. CASE s = "ermahnung"
    BY <1>1, <1>2, <1>4 DEF Runde, Stufen
  <1> QED
    BY <1>3, <1>4 DEF Stufen

LEMMA LageNachMail ==
    ASSUME TypeOK, NEW n, n # Null, NEW l, NEW s \in Stufen, Lage(n, l, mails, heute),
           l # "warnung", s = "ermahnung" => l = Null
    PROVE  Lage(n, s, [r \in Stufen |-> mails[r] + (IF r = s THEN 1 ELSE 0)], heute)
  <1> DEFINE m2 == [r \in Stufen |-> mails[r] + (IF r = s THEN 1 ELSE 0)]
  <1>1. mails \in [Stufen -> Nat] /\ Eigener \in {0, 1}
    BY DEF TypeOK, Eigener
  <1>2. \A i \in {1, Eigener + 1, Eigener + 2} : Runde(i, l, mails) => Runde(i, s, m2)
    BY <1>1, RundeWeiter
  <1> HIDE DEF m2
  <1>3. Lage(n, s, m2, heute)
    BY <1>2 DEF Lage
  <1> QED
    BY <1>3 DEF m2

\* The row after a changed contact.
LEMMA LageAmAnfang ==
    ASSUME TypeOK, RundenInv, NEW z, NEW b, Morgen(z, b)
    PROVE  Lage(z.naechster, z.level, mails, heute)
  <1>1. CASE ~neu
    BY <1>1 DEF Morgen, RundenInv
  <1>2. CASE neu
    <2>1. \A s \in Stufen : mails[s] = 0
      BY <1>2 DEF RundenInv
    <2>2. \A i \in {1, 2, 3} : Runde(i, Null, mails)
      BY <2>1 DEF Runde
    <2>3. z.naechster = NeuerTermin(Klasse(projekte, heute), kontakt) /\ z.level = Null
      BY <1>2 DEF Morgen
    <2>4. CASE kontakt.naechster # Null
      BY <2>2, <2>3, <2>4 DEF NeuerTermin, Lage, Eigener
    <2>5. CASE kontakt.naechster = Null
      BY <2>2, <2>3, <2>5 DEF NeuerTermin, Lage, Eigener
    <2> QED
      BY <2>4, <2>5
  <1> QED
    BY <1>1, <1>2 DEF TypeOK

LEMMA RundenErhalten == TypeOK /\ RundenInv /\ [Next]_vars => RundenInv'
  <1> SUFFICES ASSUME TypeOK, RundenInv, [Next]_vars PROVE RundenInv'
    OBVIOUS
  <1>t. mails \in [Stufen -> Nat]
    BY DEF TypeOK
  <1>1. CASE MorgenMitLauf
    <2>1. PICK z, b : Morgen(z, b)
      BY <1>1, MorgenMitPass
    <2>2. Lage(z.naechster, z.level, mails, heute)
      BY <2>1, LageAmAnfang
    <2>3. /\ z.naechster \in Datum /\ z.level \in Stufen \cup {Null}
          /\ Pass(z, Klasse(projekte, heute), kontakt, heute, b)
          /\ zeile' = [naechster |-> b.naechster, level |-> b.level]
          /\ mails' = [s \in Stufen |-> mails[s] + (IF s = b.mail THEN 1 ELSE 0)]
      BY <2>1 DEF Morgen
    <2>4. mails' \in [Stufen -> Nat]
      BY <2>3, <1>t
    <2>5. b.mail = Null => mails' = mails
      BY <2>3, <1>t, NullIstKeineStufe DEF Stufen
    <2>6. Lage(b.naechster, b.level, mails', heute)
      <3>1. CASE /\ Verfallen(z.naechster, heute)
                 /\ b.naechster = Ersatztermin(Klasse(projekte, heute), kontakt, heute)
                 /\ b.level = Null /\ b.mail = Null
        BY <3>1, <2>2, <2>3, <2>5, LageNachVerfall
      <3>2. CASE b.naechster = z.naechster /\ b.level = z.level /\ b.mail = Null
        BY <3>2, <2>2, <2>5
      <3>3. CASE /\ Faellig(z.naechster, heute) /\ b.naechster = z.naechster
                 /\ b.mail \in Stufen /\ b.level = b.mail /\ z.level # "warnung"
                 /\ b.mail = "ermahnung" => z.level = Null
        BY <3>3, <2>2, <2>3, LageNachMail DEF Faellig
      <3> QED
        BY <3>1, <3>2, <3>3, <2>3, NullIstKeineStufe DEF Pass, Stufen
    <2>7. Lage(b.naechster, b.level, mails', heute + 1)
      BY <2>4, <2>6, LageMorgen
    <2>8. /\ heute' = heute + 1 /\ neu' = FALSE /\ kontakt' = kontakt /\ projekte' = projekte
          /\ zeile'.naechster = b.naechster /\ zeile'.level = b.level
      BY <2>1 DEF Morgen
    <2> QED
      BY <2>7, <2>8 DEF RundenInv, Lage, RundenAm, Runde, Klasse0, Eigener
  <1>2. CASE MorgenOhneLauf
    <2>1. heute' = heute + 1 /\ UNCHANGED <<neu, kontakt, projekte, zeile, mails>>
      BY <1>2 DEF MorgenOhneLauf
    <2>2. ~neu => Lage(zeile.naechster, zeile.level, mails, heute + 1)
      BY <1>t, LageMorgen DEF RundenInv
    <2> QED
      BY <2>1, <2>2 DEF RundenInv, Lage, RundenAm, Runde, Klasse0, Eigener
  <1>3. CASE UNCHANGED vars
    BY <1>3 DEF vars, RundenInv, Lage, RundenAm, Runde, Klasse0, Eigener
  <1> QED
    BY <1>1, <1>2, <1>3 DEF Next

\* One contact causes at most three reminders of a kind, whatever the matrix
\* says and however many mornings are missed: one for the date written down in
\* it, one for that of the matrix, one more for a company that slips from A to
\* B (lines 109-121).
THEOREM HoechstensDreiRunden == Spec => []RundenBegrenzt
  <1>1. Init => RundenInv
    BY DEF Init, RundenInv
  <1>2. TypeOK /\ RundenInv => RundenBegrenzt
    <2> SUFFICES ASSUME TypeOK, RundenInv PROVE RundenBegrenzt
      OBVIOUS
    <2>1. RundenAm(heute) = Runden /\ Runden \in Nat
      BY DEF RundenAm, Runden, Eigener, Klasse0
    <2>2. mails \in [Stufen -> Nat] /\ neu \in BOOLEAN
      BY DEF TypeOK
    <2>3. CASE neu
      BY <2>1, <2>3 DEF RundenInv, RundenBegrenzt
    <2>4. CASE ~neu
      BY <2>1, <2>2, <2>4, LageBegrenzt DEF RundenInv, RundenBegrenzt
    <2> QED
      BY <2>3, <2>4
  <1> QED
    BY <1>1, <1>2, InitTyp, TypErhalten, RundenErhalten, PTL DEF Spec
==============================================================================
