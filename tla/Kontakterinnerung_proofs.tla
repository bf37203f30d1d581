----------------------- MODULE Kontakterinnerung_proofs -----------------------
(***************************************************************************)
(* The promise of the reminders, for every set of companies and every      *)
(* calendar: no level without its reason.                                  *)
(***************************************************************************)
EXTENDS Kontakterinnerung, TLAPS

LEMMA AmAnfang ==
    KontakterinnerungAssumption /\ Init => TypeOK /\ StufeBegruendet
  BY DEF KontakterinnerungAssumption, Init, TypeOK, StufeBegruendet, Angemessen, Datum

LEMMA TypErhalten ==
    ASSUME KontakterinnerungAssumption, TypeOK, [Next]_vars
    PROVE  TypeOK'
  <1>0. Termine \subseteq Datum
    BY DEF KontakterinnerungAssumption
  <1>1. CASE Tagesanbruch
    BY <1>1 DEF KontakterinnerungAssumption, Tagesanbruch, TypeOK
  <1>2. CASE Kontaktereignis
    BY <1>2 DEF KontakterinnerungAssumption, Kontaktereignis, TypeOK
  <1>3. CASE AnlassVerlieren
    BY <1>3 DEF AnlassVerlieren, TypeOK
  <1>4. ASSUME NEW u \in Firmen, Melden(u)
        PROVE  TypeOK'
    BY <1>4 DEF Melden, TypeOK
  <1>5. ASSUME NEW u \in Firmen, NEW t \in Termine, NEW s \in Stufen \cup {Null},
               Vereinbaren(u, t, s)
        PROVE  TypeOK'
    BY <1>0, <1>5 DEF Vereinbaren, TypeOK
  <1>6. ASSUME NEW u \in Firmen, NEW s \in Stufen, Erinnern(u, s)
        PROVE  TypeOK'
    BY <1>6 DEF Erinnern, TypeOK
  <1>7. CASE UNCHANGED vars
    BY <1>7 DEF vars, TypeOK
  <1> QED
    BY <1>1, <1>2, <1>3, <1>4, <1>5, <1>6, <1>7 DEF Next

\* A day more makes no date less due.
LEMMA FaelligBleibt ==
    ASSUME NEW t \in Datum, NEW d \in Int, NEW e \in Int, d <= e
    PROVE  /\ Faellig(t, d) => Faellig(t, e)
           /\ Warnreif(t, d) => Warnreif(t, e)
  BY ScoringAssumption DEF Faellig, Warnreif, Datum

LEMMA BegruendetErhalten ==
    ASSUME KontakterinnerungAssumption, TypeOK, StufeBegruendet, [Next]_vars
    PROVE  StufeBegruendet'
  <1> SUFFICES ASSUME NEW v \in Firmen
               PROVE  Angemessen(v, termin[v], stufe[v])'
    BY DEF StufeBegruendet
  <1>0. Angemessen(v, termin[v], stufe[v])
    BY DEF StufeBegruendet
  <1>1. CASE Tagesanbruch
    <2>1. tag \in Int /\ tag' \in Int /\ tag <= tag' /\ termin[v] \in Datum
      BY <1>1 DEF KontakterinnerungAssumption, Tagesanbruch, TypeOK
    <2>2. UNCHANGED <<termin, stufe, gewarnt>>
      BY <1>1 DEF Tagesanbruch
    <2> QED
      BY <1>0, <2>1, <2>2, FaelligBleibt DEF Angemessen
  <1>2. CASE Kontaktereignis \/ AnlassVerlieren \/ UNCHANGED vars
    BY <1>0, <1>2 DEF Kontaktereignis, AnlassVerlieren, vars, Angemessen
  <1>3. ASSUME NEW u \in Firmen, Melden(u)
        PROVE  Angemessen(v, termin[v], stufe[v])'
    BY <1>0, <1>3 DEF Melden, Angemessen
  <1>4. ASSUME NEW u \in Firmen, NEW t \in Termine, NEW s \in Stufen \cup {Null},
               Vereinbaren(u, t, s)
        PROVE  Angemessen(v, termin[v], stufe[v])'
    <2>1. CASE v = u
      <3>1. termin'[v] = t /\ stufe'[v] = s /\ tag' = tag /\ Angemessen(u, t, s)
        BY <1>4, <2>1 DEF Vereinbaren, TypeOK
      <3>2. s = "warnung" => gewarnt' = gewarnt
        BY <1>4, ScoringAssumption DEF Vereinbaren, Stufen
      <3> QED
        BY <2>1, <3>1, <3>2 DEF Angemessen
    <2>2. CASE v # u
      <3>1. termin'[v] = termin[v] /\ stufe'[v] = stufe[v] /\ tag' = tag
        BY <1>4, <2>2 DEF Vereinbaren, TypeOK
      <3>2. v \in gewarnt => v \in gewarnt'
        BY <1>4, <2>2 DEF Vereinbaren
      <3> QED
        BY <1>0, <3>1, <3>2 DEF Angemessen
    <2> QED
      BY <2>1, <2>2
  <1>5. ASSUME NEW u \in Firmen, NEW s \in Stufen, Erinnern(u, s)
        PROVE  Angemessen(v, termin[v], stufe[v])'
    <2>1. /\ Angemessen(u, termin[u], s)
          /\ UNCHANGED <<tag, termin, gewarnt>>
      BY <1>5 DEF Erinnern
    <2>2. stufe'[v] = IF v = u THEN s ELSE stufe[v]
      BY <1>5 DEF Erinnern, TypeOK
    <2> QED
      BY <1>0, <2>1, <2>2 DEF Angemessen
  <1> QED
    BY <1>1, <1>2, <1>3, <1>4, <1>5 DEF Next

\* A level stands only beside a date that has come, a warning only beside one
\* overdue by the warning time and after the head office was told.
THEOREM JedeStufeBegruendet ==
    ASSUME KontakterinnerungAssumption
    PROVE  Spec => []StufeBegruendet
  <1>1. TypeOK /\ StufeBegruendet /\ [Next]_vars => (TypeOK /\ StufeBegruendet)'
    BY TypErhalten, BegruendetErhalten
  <1>2. Init => TypeOK /\ StufeBegruendet
    BY AmAnfang
  <1> QED
    BY <1>1, <1>2, PTL DEF Spec
==============================================================================
