------------------------- MODULE Projektformular_proofs -------------------------
(***************************************************************************)
(* What the form of a project shows once the answers are in, for every     *)
(* number of rows, companies, persons and changes.                         *)
(*                                                                         *)
(* Whatever overlaps, each thing still to be shown has its request on the  *)
(* way.  For a user who waits, the requests on the way are those of one    *)
(* change, and select_feld names the select they are for.                  *)
(***************************************************************************)
EXTENDS Projektformular, FiniteSetTheorems, SequenceTheorems, NaturalsInduction,
        WellFoundedInduction, TLAPS

Unterwegs == BagToSet(offen)

Kopien(p, B) == IF p \in BagToSet(B) THEN B[p] ELSE 0

\* How many rows there are, and that each has a change handler.
ZeilenOK ==
    /\ Len(zeilen) <= gemacht
    /\ ~entfernt => Len(zeilen) = gemacht
    /\ \A k \in DOMAIN zeilen : zeilen[k].handler >= 1

FormularInv == TypeOK /\ ZeilenOK

\* The requests on the way are those of one change.
EinAnlass ==
    \/ offen = SetToBag({Post("cluster", Keins, 0)})
    \/ \A p \in Unterwegs : p.art = "felder"
    \/ \A p \in Unterwegs : p.art \in {"mitarbeiter", "anfragen"}
    \/ \A p \in Unterwegs : p.art = "person"

\* Every company is offered or asked for; for a user who waits, only they are.
AngebotStimmt ==
    LET ruf == Len(to_display)
    IN  /\ \A f \in firmen :
               f \in ansprechpartner.ganz \/ Post("mitarbeiter", f, ruf) \in Unterwegs
        /\ geordnet =>
               /\ ansprechpartner.ganz \cup ansprechpartner.rest \subseteq firmen
               /\ \A p \in Unterwegs : p.art = "mitarbeiter" =>
                      p.wert \in firmen /\ p.ruf = ruf /\ to_display[ruf] \subseteq firmen

\* How often a person stands in the table or is asked for.
Anzahl(p) == fma[p] + Kopien(Post("person", p, 0), offen)

AuswahlStimmt ==
    /\ \A p \in auswahl : Anzahl(p) >= 1
    /\ geordnet => \A p \in Person : Anzahl(p) = IF p \in auswahl THEN 1 ELSE 0

\* The answers of a change of the companies go to the select of the enquiry,
\* those of a change of a cluster to that of a row.
AnfragenStimmen == geordnet =>
    /\ anfragen.cluster = Keins
    /\ anfragen.anfragen \subseteq firmen
    /\ \A p \in Unterwegs :
           /\ p.art = "felder" => select_feld \in 1 .. MaxZeilen
           /\ p.art = "anfragen" => select_feld = 0 /\ p.wert \in firmen

\* As long as none is removed, rows are numbered and have ids of their own.
Nummeriert ==
    \A k \in DOMAIN zeilen :
        /\ zeilen[k].nr = k
        /\ zeilen[k].id <= k + 1
        /\ \A l \in DOMAIN zeilen : l < k => zeilen[l].id < zeilen[k].id

\* A row shows its Felder, or they are on the way to it, or it is the new one.
Passt(z) == z.cluster # Keins /\ z.felder = FelderVon(z.cluster)
WirdNeu(k) ==
    /\ k = Len(zeilen)
    /\ zeilen[k].id = RowsLength(zeilen)
    /\ Post("cluster", Keins, 0) \in Unterwegs
WirdGefuellt(k) ==
    /\ zeilen[k].cluster # Keins
    /\ select_feld = k
    /\ Post("felder", zeilen[k].cluster, 0) \in Unterwegs

ZeilenStimmen == (geordnet /\ ~entfernt) =>
    /\ Nummeriert
    /\ \A k \in DOMAIN zeilen : Passt(zeilen[k]) \/ WirdNeu(k) \/ WirdGefuellt(k)
    /\ \A p \in Unterwegs :
           /\ p.art = "cluster" => zeilen # <<>> /\ WirdNeu(Len(zeilen))
           /\ p.art = "felder" => /\ select_feld \in DOMAIN zeilen
                                  /\ zeilen[select_feld].cluster = p.wert
           /\ p.art = "anfragen" => select_feld = 0

BildInv ==
    /\ FormularInv
    /\ geordnet => EinAnlass
    /\ AngebotStimmt
    /\ AuswahlStimmt
    /\ AnfragenStimmen
    /\ ZeilenStimmen
-----------------------------------------------------------------------------
(* Requests as bags.                                                       *)

LEMMA BeutelZahl ==
    ASSUME NEW B, IsABag(B)
    PROVE  \A p : /\ Kopien(p, B) \in Nat
                  /\ p \in BagToSet(B) <=> Kopien(p, B) >= 1
  BY DEF IsABag, BagToSet, Kopien

LEMMA BeutelLeer ==
    /\ IsABag(EmptyBag)
    /\ BagToSet(EmptyBag) = {}
    /\ \A p : Kopien(p, EmptyBag) = 0
    /\ \A S : EmptyBag (+) SetToBag(S) = SetToBag(S)
  <1>1. \A S : EmptyBag (+) SetToBag(S) = SetToBag(S)
    <2> TAKE S
    <2>1. DOMAIN EmptyBag = {} /\ DOMAIN SetToBag(S) = S
      BY DEF EmptyBag, SetToBag
    <2>2. EmptyBag (+) SetToBag(S) = [e \in S |-> 0 + SetToBag(S)[e]]
      BY <2>1 DEF (+)
    <2>3. \A e \in S : SetToBag(S)[e] = 1
      BY DEF SetToBag
    <2> QED
      BY <2>2, <2>3 DEF SetToBag
  <1> QED
    BY <1>1 DEF EmptyBag, SetToBag, IsABag, BagToSet, Kopien

LEMMA BeutelDazu ==
    ASSUME NEW B, IsABag(B), NEW S
    PROVE  LET C == B (+) SetToBag(S)
           IN  /\ IsABag(C)
               /\ BagToSet(C) = BagToSet(B) \cup S
               /\ \A p : Kopien(p, C) = Kopien(p, B) + IF p \in S THEN 1 ELSE 0
  <1> DEFINE C == B (+) SetToBag(S)
  <1>1. DOMAIN SetToBag(S) = S /\ \A e \in S : SetToBag(S)[e] = 1
    BY DEF SetToBag
  <1>2. C = [e \in DOMAIN B \cup S |-> (IF e \in DOMAIN B THEN B[e] ELSE 0)
                                       + (IF e \in S THEN 1 ELSE 0)]
    BY <1>1 DEF (+)
  <1>3. \A e \in DOMAIN B : B[e] \in Nat /\ B[e] > 0
    BY DEF IsABag
  <1> HIDE DEF C
  <1>4. DOMAIN C = DOMAIN B \cup S
    BY <1>2
  <1>5. \A e \in DOMAIN C : C[e] = (IF e \in DOMAIN B THEN B[e] ELSE 0)
                                   + (IF e \in S THEN 1 ELSE 0)
    BY <1>2
  <1>6. IsABag(C)
    <2>1. \A e \in DOMAIN C : C[e] \in Nat /\ C[e] > 0
      BY <1>3, <1>4, <1>5
    <2>2. C = [e \in DOMAIN C |-> C[e]]
      BY <1>2
    <2> QED
      BY <2>1, <2>2 DEF IsABag
  <1>7. \A p : Kopien(p, C) = Kopien(p, B) + IF p \in S THEN 1 ELSE 0
    BY <1>3, <1>4, <1>5 DEF Kopien, BagToSet
  <1> QED
    BY <1>4, <1>6, <1>7 DEF BagToSet, C

LEMMA BeutelMehrfach ==
    ASSUME NEW B, IsABag(B), NEW q, NEW E, DOMAIN E = {q}, E[q] \in Nat, E[q] > 0
    PROVE  LET C == B (+) E
           IN  /\ IsABag(C)
               /\ BagToSet(C) = BagToSet(B) \cup {q}
               /\ \A x : x # q => Kopien(x, C) = Kopien(x, B)
  <1> DEFINE C == B (+) E
  <1>2. C = [e \in DOMAIN B \cup DOMAIN E |-> (IF e \in DOMAIN B THEN B[e] ELSE 0)
                                             + (IF e \in DOMAIN E THEN E[e] ELSE 0)]
    BY DEF (+)
  <1>3. \A e \in DOMAIN B : B[e] \in Nat /\ B[e] > 0
    BY DEF IsABag
  <1> HIDE DEF C
  <1>4. DOMAIN C = DOMAIN B \cup {q}
    BY <1>2
  <1>5. \A e \in DOMAIN C : C[e] \in Nat /\ C[e] > 0
    <2> SUFFICES ASSUME NEW e \in DOMAIN B \cup {q}
                 PROVE  C[e] \in Nat /\ C[e] > 0
      BY <1>4
    <2>1. C[e] = (IF e \in DOMAIN B THEN B[e] ELSE 0) + (IF e \in DOMAIN E THEN E[e] ELSE 0)
      BY <1>2
    <2> QED
      BY <2>1, <1>3
  <1>6. C = [e \in DOMAIN C |-> C[e]]
    BY <1>2
  <1>7. IsABag(C)
    BY <1>5, <1>6 DEF IsABag
  <1>8. ASSUME NEW x, x # q PROVE Kopien(x, C) = Kopien(x, B)
    <2>1. x \in DOMAIN C <=> x \in DOMAIN B
      BY <1>4, <1>8
    <2>2. x \in DOMAIN C => C[x] = (IF x \in DOMAIN B THEN B[x] ELSE 0) + 0
      BY <1>2, <1>4, <1>8
    <2> QED
      BY <1>3, <2>1, <2>2 DEF Kopien, BagToSet
  <1> QED
    BY <1>4, <1>7, <1>8 DEF BagToSet, C

LEMMA BeutelWeg ==
    ASSUME NEW B, IsABag(B), NEW q \in BagToSet(B)
    PROVE  LET C == B (-) SetToBag({q})
           IN  /\ IsABag(C)
               /\ BagToSet(C) \subseteq BagToSet(B)
               /\ BagToSet(B) \ {q} \subseteq BagToSet(C)
               /\ \A p : Kopien(p, C) = Kopien(p, B) - IF p = q THEN 1 ELSE 0
  <1> DEFINE C == B (-) SetToBag({q})
             R == [e \in DOMAIN B |-> IF e \in {q} THEN B[e] - 1 ELSE B[e]]
  <1>1. DOMAIN SetToBag({q}) = {q} /\ \A e \in {q} : SetToBag({q})[e] = 1
    BY DEF SetToBag
  <1>2. C = [e \in {d \in DOMAIN R : R[d] > 0} |-> R[e]]
    <2> DEFINE S == SetToBag({q})
               Q == [e \in DOMAIN B |-> IF e \in DOMAIN S THEN B[e] - S[e] ELSE B[e]]
    <2>1. C = [e \in {d \in DOMAIN Q : Q[d] > 0} |-> Q[e]]
      BY DEF (-)
    <2>2. Q = R
      BY <1>1
    <2> QED
      BY <2>1, <2>2
  <1>3. \A e \in DOMAIN B : B[e] \in Nat /\ B[e] > 0
    BY DEF IsABag
  <1>4. DOMAIN R = DOMAIN B /\ \A e \in DOMAIN B : R[e] = B[e] - IF e = q THEN 1 ELSE 0
    BY <1>3
  <1> HIDE DEF C, R
  <1>5. /\ DOMAIN C = {d \in DOMAIN B : R[d] > 0}
        /\ \A e \in DOMAIN C : C[e] = R[e]
    BY <1>2, <1>4
  <1>6. \A e \in DOMAIN C : C[e] \in Nat /\ C[e] > 0
    BY <1>3, <1>4, <1>5
  <1>7. C = [e \in DOMAIN C |-> C[e]]
    BY <1>2
  <1>8. IsABag(C)
    BY <1>6, <1>7 DEF IsABag
  <1>9. \A e \in DOMAIN B \ {q} : e \in DOMAIN C
    BY <1>3, <1>4, <1>5
  <1>10. q \in DOMAIN B
    BY DEF BagToSet
  <1>11. \A p : Kopien(p, C) = Kopien(p, B) - IF p = q THEN 1 ELSE 0
    <2> TAKE p
    <2>1. CASE p = q
      <3>1. R[q] = B[q] - 1 /\ B[q] \in Nat /\ B[q] > 0
        BY <1>3, <1>4, <1>10
      <3>2. CASE R[q] > 0
        <4>1. q \in DOMAIN C /\ C[q] = R[q]
          BY <1>5, <1>10, <3>2
        <4> QED
          BY <2>1, <3>1, <4>1, <1>10 DEF Kopien, BagToSet
      <3>3. CASE ~(R[q] > 0)
        <4>1. q \notin DOMAIN C
          BY <1>5, <3>3
        <4> QED
          BY <2>1, <3>1, <3>3, <4>1, <1>10 DEF Kopien, BagToSet
      <3> QED
        BY <3>2, <3>3
    <2>2. CASE p # q
      <3>1. CASE p \in DOMAIN B
        <4>1. p \in DOMAIN C /\ C[p] = B[p] /\ B[p] \in Nat
          BY <1>3, <1>4, <1>5, <1>9, <2>2, <3>1
        <4> QED
          BY <2>2, <3>1, <4>1 DEF Kopien, BagToSet
      <3>2. CASE p \notin DOMAIN B
        BY <1>5, <2>2, <3>2 DEF Kopien, BagToSet
      <3> QED
        BY <3>1, <3>2
    <2> QED
      BY <2>1, <2>2
  <1>12. DOMAIN C \subseteq DOMAIN B
    BY <1>5
  <1> QED
    BY <1>8, <1>9, <1>11, <1>12 DEF BagToSet, C
-----------------------------------------------------------------------------
(* Rows, and what the changes and answers make of them.                    *)

\* A nonempty set of naturals has a least element.
LEMMA KleinsteZahl ==
    ASSUME NEW T, T \subseteq Nat, T # {}
    PROVE  \E x \in T : \A y \in T : x <= y
  <1> DEFINE R == OpToRel(<, Nat)
  <1>1. IsWellFoundedOn(R, Nat)
    BY NatLessThanWellFounded
  <1>2. \A a, b \in Nat : a < b => <<a, b>> \in R
    <2> SUFFICES ASSUME NEW a \in Nat, NEW b \in Nat, a < b
                 PROVE  <<a, b>> \in {p \in Nat \X Nat : p[1] < p[2]}
      BY Zenon DEF OpToRel
    <2> QED
      OBVIOUS
  <1> HIDE DEF R
  <1>3. PICK x \in T : \A y \in T : ~(<<y, x>> \in R)
    BY <1>1, WFMin, Zenon
  <1>4. \A y \in T : ~(y < x)
    BY <1>2, <1>3
  <1> QED
    BY <1>3, <1>4

LEMMA IstFolge ==
    ASSUME NEW S, NEW n \in Nat, NEW f \in [1 .. n -> S]
    PROVE  f \in Seq(S) /\ Len(f) = n /\ DOMAIN f = 1 .. n
  <1>1. f \in Seq(S)
    BY SeqDef
  <1>2. DOMAIN f = 1 .. n
    OBVIOUS
  <1> QED
    BY <1>1, <1>2, LenProperties

LEMMA ZeilenTyp ==
    ASSUME TypeOK
    PROVE  /\ Len(zeilen) \in Nat
           /\ DOMAIN zeilen = 1 .. Len(zeilen)
           /\ zeilen = [k \in 1 .. Len(zeilen) |-> zeilen[k]]
           /\ \A k \in DOMAIN zeilen :
                  /\ zeilen[k] \in Zeile
                  /\ zeilen[k].nr \in 1 .. MaxZeilen
                  /\ zeilen[k].id \in 1 .. MaxZeilen + 1
                  /\ zeilen[k].cluster \in Cluster \cup {Keins}
                  /\ zeilen[k].felder \in Optionen
                  /\ zeilen[k].handler \in Nat
  <1>1. zeilen \in Seq(Zeile)
    BY DEF TypeOK
  <1>2. /\ Len(zeilen) \in Nat /\ DOMAIN zeilen = 1 .. Len(zeilen)
        /\ zeilen \in [1 .. Len(zeilen) -> Zeile]
    BY <1>1, LenProperties
  <1>3. \A k \in DOMAIN zeilen : zeilen[k] \in Zeile
    BY <1>2
  <1> QED
    BY <1>2, <1>3 DEF Zeile

\* The element with a given id that getElementById finds.
LEMMA ErsteIstDa ==
    ASSUME TypeOK, NEW i, MitId(i) # {}
    PROVE  Erste(i) \in MitId(i)
  <1>1. MitId(i) \subseteq Nat
    BY ZeilenTyp DEF MitId
  <1>2. \E k \in MitId(i) : \A l \in MitId(i) : k <= l
    BY <1>1, KleinsteZahl
  <1> QED
    BY <1>2 DEF Erste

LEMMA HinzuZeilen ==
    ASSUME FormularInv, ZeileHinzu
    PROVE  LET n == Len(zeilen)
           IN  /\ zeilen' \in Seq(Zeile)
               /\ Len(zeilen') = n + 1
               /\ DOMAIN zeilen' = 1 .. n + 1
               /\ \A k \in DOMAIN zeilen :
                      /\ k \in DOMAIN zeilen' /\ k # n + 1
                      /\ zeilen'[k].nr = zeilen[k].nr
                      /\ zeilen'[k].id = zeilen[k].id
                      /\ zeilen'[k].cluster = zeilen[k].cluster
                      /\ zeilen'[k].felder = zeilen[k].felder
                      /\ zeilen'[k].handler >= 1
               /\ n + 1 \in DOMAIN zeilen'
               /\ zeilen'[n + 1] = [nr |-> gemacht + 1, id |-> n + 2, cluster |-> Keins,
                                    felder |-> Leer, handler |-> 1]
  <1> DEFINE n == Len(zeilen)
             neu == [nr |-> gemacht + 1, id |-> n + 2, cluster |-> Keins,
                     felder |-> Leer, handler |-> 0]
             alle == Append(zeilen, neu)
  <1>t. TypeOK /\ ZeilenOK /\ zeilen \in Seq(Zeile)
    BY DEF FormularInv, TypeOK
  <1>1. /\ n \in Nat /\ DOMAIN zeilen = 1 .. n
        /\ \A k \in DOMAIN zeilen : zeilen[k] \in Zeile /\ zeilen[k].handler \in Nat
    BY <1>t, ZeilenTyp
  <1>2. /\ gemacht \in Nat /\ gemacht < MaxZeilen /\ n <= gemacht
        /\ zeilen' = [k \in DOMAIN alle |-> [alle[k] EXCEPT !.handler = @ + 1]]
    BY <1>t DEF ZeileHinzu, TypeOK, ZeilenOK
  <1>3. /\ neu.handler = 0 /\ neu.nr = gemacht + 1 /\ neu.id = n + 2
        /\ neu.cluster = Keins /\ neu.felder = Leer
        /\ [neu EXCEPT !.handler = @ + 1]
               = [nr |-> gemacht + 1, id |-> n + 2, cluster |-> Keins,
                  felder |-> Leer, handler |-> 1]
    OBVIOUS
  <1>4. Leer \in Optionen
    BY DEF Leer, Optionen
  <1>5. neu \in Zeile
    BY <1>1, <1>2, <1>4, FormularAssumption DEF Zeile
  <1>6. /\ DOMAIN alle = 1 .. n + 1
        /\ \A k \in 1 .. n : alle[k] = zeilen[k]
        /\ alle[n + 1] = neu
    <2> HIDE DEF neu
    <2> QED
      BY <1>1, <1>5, <1>t
  <1> HIDE DEF neu, alle
  <1>7. \A z \in Zeile : /\ [z EXCEPT !.handler = @ + 1] \in Zeile
                         /\ [z EXCEPT !.handler = @ + 1].nr = z.nr
                         /\ [z EXCEPT !.handler = @ + 1].id = z.id
                         /\ [z EXCEPT !.handler = @ + 1].cluster = z.cluster
                         /\ [z EXCEPT !.handler = @ + 1].felder = z.felder
                         /\ [z EXCEPT !.handler = @ + 1].handler = z.handler + 1
    BY DEF Zeile
  <1>8. /\ DOMAIN zeilen' = 1 .. n + 1
        /\ \A k \in 1 .. n + 1 : zeilen'[k] = [alle[k] EXCEPT !.handler = @ + 1]
    BY <1>2, <1>6
  <1>9. zeilen' \in [1 .. n + 1 -> Zeile]
    <2>1. \A k \in 1 .. n + 1 : alle[k] \in Zeile
      BY <1>1, <1>5, <1>6
    <2> QED
      BY <1>2, <1>6, <1>7, <2>1
  <1>10. zeilen' \in Seq(Zeile) /\ Len(zeilen') = n + 1
    BY <1>1, <1>9, IstFolge
  <1>11. \A k \in 1 .. n :
             /\ k \in 1 .. n + 1 /\ k # n + 1
             /\ zeilen'[k].nr = zeilen[k].nr
             /\ zeilen'[k].id = zeilen[k].id
             /\ zeilen'[k].cluster = zeilen[k].cluster
             /\ zeilen'[k].felder = zeilen[k].felder
             /\ zeilen'[k].handler >= 1
    <2> TAKE k \in 1 .. n
    <2>1. k \in 1 .. n + 1 /\ k # n + 1
      BY <1>1
    <2>2. zeilen[k] \in Zeile /\ zeilen[k].handler \in Nat
      BY <1>1
    <2>3. zeilen'[k] = [zeilen[k] EXCEPT !.handler = @ + 1]
      BY <1>6, <1>8, <2>1
    <2> QED
      BY <1>7, <2>1, <2>2, <2>3
  <1>12. zeilen'[n + 1] = [neu EXCEPT !.handler = @ + 1]
    BY <1>1, <1>6, <1>8
  <1> QED
    BY <1>1, <1>3, <1>8, <1>10, <1>11, <1>12

LEMMA WegZeilen ==
    ASSUME TypeOK, NEW k \in DOMAIN zeilen, zeilen' = RemoveAt(zeilen, k)
    PROVE  /\ zeilen' \in Seq(Zeile)
           /\ Len(zeilen') = Len(zeilen) - 1
           /\ \A j \in DOMAIN zeilen' : \E l \in DOMAIN zeilen : zeilen'[j] = zeilen[l]
  <1> DEFINE n == Len(zeilen)
             a == SubSeq(zeilen, 1, k - 1)
             b == SubSeq(zeilen, k + 1, n)
  <1>1. /\ n \in Nat /\ DOMAIN zeilen = 1 .. n /\ k \in 1 .. n
        /\ \A j \in 1 .. n : zeilen[j] \in Zeile
    BY ZeilenTyp
  <1>2. /\ a \in Seq(Zeile) /\ Len(a) = k - 1
        /\ \A j \in 1 .. k - 1 : a[j] = zeilen[j]
    BY <1>1, SubSeqProperties
  <1>3. /\ b \in Seq(Zeile) /\ Len(b) = n - k
        /\ \A j \in 1 .. n - k : b[j] = zeilen[k + j]
    <2>1. \A j \in k + 1 .. n : zeilen[j] \in Zeile
      BY <1>1
    <2>2. /\ b \in Seq(Zeile) /\ Len(b) = IF k + 1 <= n THEN n - (k + 1) + 1 ELSE 0
          /\ \A j \in 1 .. n - (k + 1) + 1 : b[j] = zeilen[k + 1 + j - 1]
      BY <1>1, <2>1, SubSeqProperties
    <2> QED
      BY <1>1, <2>2
  <1>4. zeilen' = a \o b
    BY DEF RemoveAt
  <1> HIDE DEF a, b
  <1>5. /\ zeilen' \in Seq(Zeile) /\ Len(zeilen') = n - 1
        /\ \A j \in 1 .. n - 1 : zeilen'[j] = IF j <= k - 1 THEN a[j] ELSE b[j - (k - 1)]
    <2>1. Len(a) + Len(b) = n - 1
      BY <1>1, <1>2, <1>3
    <2>2. /\ a \o b \in Seq(Zeile) /\ Len(a \o b) = Len(a) + Len(b)
          /\ \A j \in 1 .. Len(a) + Len(b) :
                 (a \o b)[j] = IF j <= Len(a) THEN a[j] ELSE b[j - Len(a)]
      BY <1>2, <1>3, ConcatProperties
    <2> QED
      BY <1>2, <1>4, <2>1, <2>2
  <1>6. DOMAIN zeilen' = 1 .. n - 1
    BY <1>5, LenProperties
  <1>7. ASSUME NEW j \in 1 .. n - 1 PROVE \E l \in 1 .. n : zeilen'[j] = zeilen[l]
    <2>1. CASE j <= k - 1
      BY <1>1, <1>2, <1>5, <2>1
    <2>2. CASE ~(j <= k - 1)
      <3>1. zeilen'[j] = b[j - (k - 1)] /\ j - (k - 1) \in 1 .. n - k
        BY <1>1, <1>5, <2>2
      <3>2. zeilen'[j] = zeilen[k + (j - (k - 1))]
        BY <1>3, <3>1
      <3> QED
        BY <1>1, <2>2, <3>2
    <2> QED
      BY <2>1, <2>2
  <1> QED
    BY <1>1, <1>5, <1>6, <1>7

LEMMA WaehlenZeilen ==
    ASSUME TypeOK, NEW k \in DOMAIN zeilen, NEW c \in Cluster,
           zeilen' = [zeilen EXCEPT ![k].cluster = c]
    PROVE  /\ zeilen' \in Seq(Zeile)
           /\ Len(zeilen') = Len(zeilen)
           /\ DOMAIN zeilen' = DOMAIN zeilen
           /\ \A j \in DOMAIN zeilen :
                  /\ zeilen'[j].nr = zeilen[j].nr
                  /\ zeilen'[j].id = zeilen[j].id
                  /\ zeilen'[j].felder = zeilen[j].felder
                  /\ zeilen'[j].handler = zeilen[j].handler
                  /\ zeilen'[j].cluster = IF j = k THEN c ELSE zeilen[j].cluster
  <1>1. /\ Len(zeilen) \in Nat /\ DOMAIN zeilen = 1 .. Len(zeilen)
        /\ \A j \in DOMAIN zeilen : zeilen[j] \in Zeile
    BY ZeilenTyp
  <1>2. \A j \in DOMAIN zeilen :
            zeilen'[j] = IF j = k THEN [zeilen[j] EXCEPT !.cluster = c] ELSE zeilen[j]
    OBVIOUS
  <1>3. \A z \in Zeile : /\ [z EXCEPT !.cluster = c] \in Zeile
                         /\ [z EXCEPT !.cluster = c].nr = z.nr
                         /\ [z EXCEPT !.cluster = c].id = z.id
                         /\ [z EXCEPT !.cluster = c].felder = z.felder
                         /\ [z EXCEPT !.cluster = c].handler = z.handler
                         /\ [z EXCEPT !.cluster = c].cluster = c
    BY DEF Zeile
  <1>4. zeilen' \in [1 .. Len(zeilen) -> Zeile]
    <2>1. \A j \in DOMAIN zeilen : zeilen'[j] \in Zeile
      BY <1>1, <1>2, <1>3
    <2> QED
      BY <1>1, <2>1
  <1>5. zeilen' \in Seq(Zeile) /\ Len(zeilen') = Len(zeilen) /\ DOMAIN zeilen' = DOMAIN zeilen
    BY <1>1, <1>4, IstFolge
  <1> QED
    BY <1>1, <1>2, <1>3, <1>5

LEMMA FuellenZeilen ==
    ASSUME TypeOK, NEW s, NEW neu \in [Optionen -> Optionen], Fuellen(s, neu)
    PROVE  /\ zeilen' \in Seq(Zeile)
           /\ anfragen' \in Optionen
           /\ Len(zeilen') = Len(zeilen)
           /\ DOMAIN zeilen' = DOMAIN zeilen
           /\ \A j \in DOMAIN zeilen :
                  /\ zeilen'[j].nr = zeilen[j].nr
                  /\ zeilen'[j].id = zeilen[j].id
                  /\ zeilen'[j].cluster = zeilen[j].cluster
                  /\ zeilen'[j].handler = zeilen[j].handler
                  /\ zeilen'[j].felder = IF zeilen[j].nr = s THEN neu[zeilen[j].felder]
                                         ELSE zeilen[j].felder
  <1>1. /\ Len(zeilen) \in Nat /\ DOMAIN zeilen = 1 .. Len(zeilen)
        /\ \A j \in DOMAIN zeilen : zeilen[j] \in Zeile
    BY ZeilenTyp
  <1>2. /\ zeilen' = [k \in DOMAIN zeilen |->
                         IF zeilen[k].nr = s THEN [zeilen[k] EXCEPT !.felder = neu[@]]
                         ELSE zeilen[k]]
        /\ anfragen' = IF s = 0 THEN neu[anfragen] ELSE anfragen
    BY DEF Fuellen
  <1>3. \A j \in DOMAIN zeilen :
            zeilen'[j] = IF zeilen[j].nr = s
                         THEN [zeilen[j] EXCEPT !.felder = neu[zeilen[j].felder]]
                         ELSE zeilen[j]
    BY <1>2
  <1>4. \A z \in Zeile : LET y == [z EXCEPT !.felder = neu[z.felder]]
                         IN  /\ y \in Zeile
                             /\ y.nr = z.nr
                             /\ y.id = z.id
                             /\ y.cluster = z.cluster
                             /\ y.handler = z.handler
                             /\ y.felder = neu[z.felder]
    BY DEF Zeile
  <1>5. \A j \in DOMAIN zeilen : zeilen'[j] \in Zeile
    BY <1>1, <1>3, <1>4
  <1>6. zeilen' \in [1 .. Len(zeilen) -> Zeile]
    BY <1>1, <1>2, <1>5
  <1>7. zeilen' \in Seq(Zeile) /\ Len(zeilen') = Len(zeilen) /\ DOMAIN zeilen' = DOMAIN zeilen
    BY <1>1, <1>6, IstFolge
  <1>8. anfragen' \in Optionen
    BY <1>2 DEF TypeOK
  <1>9. \A j \in DOMAIN zeilen :
            /\ zeilen'[j].nr = zeilen[j].nr
            /\ zeilen'[j].id = zeilen[j].id
            /\ zeilen'[j].cluster = zeilen[j].cluster
            /\ zeilen'[j].handler = zeilen[j].handler
            /\ zeilen'[j].felder = IF zeilen[j].nr = s THEN neu[zeilen[j].felder]
                                   ELSE zeilen[j].felder
    BY <1>1, <1>3, <1>4
  <1> QED
    BY <1>7, <1>8, <1>9
-----------------------------------------------------------------------------
(* What changes and answers make of the requests on the way.               *)

LEMMA Geklickt ==
    ASSUME TypeOK, Klick
    PROVE  /\ klicks' \in 0 .. MaxKlicks
           /\ geordnet' \in BOOLEAN
           /\ geordnet' => geordnet /\ offen = EmptyBag /\ Unterwegs = {}
  <1>1. klicks' \in 0 .. MaxKlicks
    BY FormularAssumption DEF TypeOK, Klick
  <1>2. geordnet' = (geordnet /\ offen = EmptyBag) /\ geordnet \in BOOLEAN
    BY DEF TypeOK, Klick
  <1>3. geordnet' \in BOOLEAN /\ (geordnet' => geordnet /\ offen = EmptyBag)
    BY <1>2, Zenon
  <1>4. offen = EmptyBag => Unterwegs = {}
    BY BeutelLeer DEF Unterwegs
  <1> QED
    BY <1>1, <1>3, <1>4

\* A change posts one request for each member of S.
LEMMA Gefragt ==
    ASSUME TypeOK, NEW S, offen' = offen (+) SetToBag(S)
    PROVE  /\ IsABag(offen')
           /\ Unterwegs' = Unterwegs \cup S
           /\ \A p : Kopien(p, offen') = Kopien(p, offen) + IF p \in S THEN 1 ELSE 0
           /\ offen = EmptyBag => offen' = SetToBag(S)
  BY BeutelDazu, BeutelLeer DEF TypeOK, Unterwegs

\* An answer takes away one copy of its request.
LEMMA Beantwortet ==
    ASSUME TypeOK, NEW p, Rufe(p), Erledigt(p)
    PROVE  /\ p \in Unterwegs
           /\ IsABag(offen')
           /\ Unterwegs' \subseteq Unterwegs
           /\ Unterwegs \ {p} \subseteq Unterwegs'
           /\ \A q : Kopien(q, offen') = Kopien(q, offen) - IF q = p THEN 1 ELSE 0
           /\ UNCHANGED <<klicks, geordnet, gemacht, entfernt>>
  BY BeutelWeg DEF TypeOK, Unterwegs, Rufe, Erledigt, BagIn

\* Whoever changes a row asks at least once.
LEMMA WaehlenFragt ==
    ASSUME FormularInv, NEW k, NEW c \in Cluster, ClusterWaehlen(k, c)
    PROVE  /\ IsABag(offen')
           /\ Unterwegs' = Unterwegs \cup {Post("felder", c, 0)}
           /\ \A x : x # Post("felder", c, 0) => Kopien(x, offen') = Kopien(x, offen)
           /\ Erste(zeilen[k].id) \in MitId(zeilen[k].id)
           /\ k \in DOMAIN zeilen
  <1> DEFINE G == {l \in MitId(zeilen[k].id) : zeilen[l].cluster # Keins}
             n == zeilen[k].handler * Cardinality(G)
  <1>t. TypeOK /\ ZeilenOK
    BY DEF FormularInv
  <1>1. k \in DOMAIN zeilen /\ zeilen[k].cluster # Keins
    BY DEF ClusterWaehlen
  <1>2. k \in MitId(zeilen[k].id) /\ k \in G
    BY <1>1 DEF MitId
  <1>3. Cardinality(G) \in Nat /\ Cardinality(G) > 0
    <2>1. G \subseteq 1 .. Len(zeilen) /\ Len(zeilen) \in Nat
      BY <1>t, ZeilenTyp DEF MitId
    <2>2. IsFiniteSet(1 .. Len(zeilen))
      BY <2>1, FS_Interval
    <2>3. IsFiniteSet(G)
      BY <2>1, <2>2, FS_Subset
    <2>4. Cardinality(G) \in Nat /\ (Cardinality(G) = 0 <=> G = {})
      BY <2>3, FS_CardinalityType, FS_EmptySet
    <2> QED
      BY <2>4, <1>2
  <1>4. zeilen[k].handler \in Nat /\ zeilen[k].handler >= 1
    BY <1>1, <1>t, ZeilenTyp DEF ZeilenOK
  <1>5. n \in Nat /\ n > 0
    <2>1. \A x, y \in Nat : x >= 1 /\ y > 0 => x * y \in Nat /\ x * y > 0
      OBVIOUS
    <2> HIDE DEF G
    <2> QED
      BY <1>3, <1>4, <2>1
  <1>6. offen' = offen (+) [p \in {Post("felder", c, 0)} |-> n]
    BY DEF ClusterWaehlen
  <1> HIDE DEF n
  <1>7. /\ IsABag(offen') /\ Unterwegs' = Unterwegs \cup {Post("felder", c, 0)}
        /\ \A x : x # Post("felder", c, 0) => Kopien(x, offen') = Kopien(x, offen)
    <2>1. IsABag(offen)
      BY <1>t DEF TypeOK
    <2> DEFINE q == Post("felder", c, 0)
    <2> HIDE DEF q
    <2> DEFINE E == [p \in {q} |-> n]
    <2>2. offen' = offen (+) E /\ DOMAIN E = {q} /\ E[q] = n
      BY <1>6 DEF q
    <2> HIDE DEF E
    <2>3. /\ IsABag(offen') /\ BagToSet(offen') = BagToSet(offen) \cup {q}
          /\ \A x : x # q => Kopien(x, offen') = Kopien(x, offen)
      BY <1>5, <2>1, <2>2, BeutelMehrfach
    <2> QED
      BY <2>3 DEF Unterwegs, q
  <1> QED
    BY <1>1, <1>2, <1>7, <1>t, ErsteIstDa

\* Clusters that find no row are dropped; otherwise its Felder are asked for.
LEMMA ClusterFragt ==
    ASSUME TypeOK, ClusterErhalten
    PROVE  LET p == Post("cluster", Keins, 0)
               q == Post("felder", ErstesCluster, 0)
               i == RowsLength(zeilen)
           IN  /\ p \in Unterwegs
               /\ IsABag(offen')
               /\ UNCHANGED <<klicks, geordnet, gemacht, entfernt>>
               /\ \A x : x # p /\ x # q => Kopien(x, offen') = Kopien(x, offen)
               /\ \/ /\ MitId(i) = {}
                     /\ Unterwegs' \subseteq Unterwegs
                     /\ Unterwegs \ {p} \subseteq Unterwegs'
                     /\ Kopien(p, offen') = Kopien(p, offen) - 1
                     /\ UNCHANGED <<zeilen, select_feld>>
                  \/ /\ Erste(i) \in MitId(i)
                     /\ Erste(i) \in DOMAIN zeilen
                     /\ Unterwegs' \subseteq Unterwegs \cup {q}
                     /\ (Unterwegs \ {p}) \cup {q} \subseteq Unterwegs'
                     /\ Kopien(p, offen') = Kopien(p, offen) - 1
                     /\ zeilen' = [zeilen EXCEPT ![Erste(i)].cluster = ErstesCluster]
                     /\ select_feld' = zeilen[Erste(i)].nr
  <1> DEFINE p == Post("cluster", Keins, 0)
             q == Post("felder", ErstesCluster, 0)
             i == RowsLength(zeilen)
             C == offen (-) SetToBag({p})
             D == C (+) SetToBag({q})
  <1>1. /\ p \in Unterwegs /\ UNCHANGED <<klicks, geordnet, gemacht, entfernt>>
    BY DEF ClusterErhalten, Rufe, BagIn, Unterwegs
  <1>2. /\ IsABag(C) /\ BagToSet(C) \subseteq Unterwegs /\ Unterwegs \ {p} \subseteq BagToSet(C)
        /\ \A x : Kopien(x, C) = Kopien(x, offen) - IF x = p THEN 1 ELSE 0
    BY <1>1, BeutelWeg DEF TypeOK, Unterwegs
  <1>3. \A x : Kopien(x, offen) \in Nat
    BY BeutelZahl DEF TypeOK
  <1>4. p # q
    BY DEF Post
  <1>5. CASE MitId(i) = {}
    <2>1. offen' = C /\ UNCHANGED <<zeilen, select_feld>>
      BY <1>5 DEF ClusterErhalten, Erledigt
    <2> HIDE DEF p, q, C
    <2> QED
      BY <1>1, <1>2, <1>3, <1>5, <2>1 DEF Unterwegs, p, q
  <1>6. CASE MitId(i) # {}
    <2>1. /\ offen' = D
          /\ zeilen' = [zeilen EXCEPT ![Erste(i)].cluster = ErstesCluster]
          /\ select_feld' = zeilen[Erste(i)].nr
      BY <1>6 DEF ClusterErhalten
    <2>2. /\ IsABag(D) /\ BagToSet(D) = BagToSet(C) \cup {q}
          /\ \A x : Kopien(x, D) = Kopien(x, C) + IF x \in {q} THEN 1 ELSE 0
      BY <1>2, BeutelDazu
    <2>3. Erste(i) \in MitId(i)
      BY <1>6, ErsteIstDa
    <2>4. Erste(i) \in DOMAIN zeilen
      BY <2>3 DEF MitId
    <2> HIDE DEF p, q, C, D, i
    <2>5. /\ Unterwegs' = BagToSet(C) \cup {q}
          /\ \A x : Kopien(x, offen') = Kopien(x, D)
      BY <2>1, <2>2 DEF Unterwegs
    <2>6. Unterwegs' \subseteq Unterwegs \cup {q} /\ (Unterwegs \ {p}) \cup {q} \subseteq Unterwegs'
      BY <1>2, <2>5
    <2>7. Kopien(p, offen') = Kopien(p, offen) - 1
      <3>1. Kopien(p, C) = Kopien(p, offen) - 1
        BY <1>2
      <3>2. Kopien(p, D) = Kopien(p, C) + 0
        BY <1>4, <2>2
      <3> QED
        BY <1>3, <2>5, <3>1, <3>2
    <2>8. \A x : x # p /\ x # q => Kopien(x, offen') = Kopien(x, offen)
      <3> TAKE x
      <3> HAVE x # p /\ x # q
      <3>1. Kopien(x, C) = Kopien(x, offen) - 0
        BY <1>2
      <3>2. Kopien(x, D) = Kopien(x, C) + 0
        BY <2>2
      <3> QED
        BY <1>3, <2>5, <3>1, <3>2
    <2> QED
      BY <1>1, <2>1, <2>2, <2>3, <2>4, <2>6, <2>7, <2>8 DEF p, q, i
  <1> QED
    BY <1>5, <1>6
-----------------------------------------------------------------------------
(* Types.                                                                  *)

LEMMA UeberschreibenGrenzt ==
    ASSUME NEW liste, NEW f, NEW laenge
    PROVE  Ueberschreiben(liste, f, laenge) \subseteq {f} \cup liste
  BY DEF Ueberschreiben

LEMMA AnfrageTyp ==
    /\ Post("cluster", Keins, 0) \in Anfrage
    /\ \A c \in Cluster : Post("felder", c, 0) \in Anfrage
    /\ \A f \in Firma : Post("anfragen", f, 0) \in Anfrage
    /\ \A f \in Firma, ruf \in Nat : Post("mitarbeiter", f, ruf) \in Anfrage
    /\ \A p \in Person : Post("person", p, 0) \in Anfrage
  BY DEF Post, Anfrage

LEMMA OptionenTyp ==
    /\ Leer \in Optionen
    /\ \A c \in Cluster : /\ FelderVon(c) \in Optionen
                          /\ [alt \in Optionen |-> FelderVon(c)] \in [Optionen -> Optionen]
    /\ \A f \in Firma :
           [alt \in Optionen |-> [alt EXCEPT !.anfragen = Ueberschreiben(@, f, Anfragenzahl)]]
               \in [Optionen -> Optionen]
  <1>1. \A o \in Optionen, F \in SUBSET Firma : [o EXCEPT !.anfragen = F] \in Optionen
    BY DEF Optionen
  <1>2. \A o \in Optionen, f \in Firma :
            Ueberschreiben(o.anfragen, f, Anfragenzahl) \in SUBSET Firma
    BY UeberschreibenGrenzt DEF Optionen
  <1> QED
    BY <1>1, <1>2 DEF Leer, Optionen, FelderVon

LEMMA TypAmAnfang == Init => FormularInv
  <1> SUFFICES ASSUME Init PROVE FormularInv
    OBVIOUS
  <1>0. geordnet \in BOOLEAN /\ entfernt \in BOOLEAN
    <2>1. geordnet = TRUE /\ entfernt = FALSE
      BY DEF Init
    <2> QED
      BY <2>1, Zenon
  <1>1. PICK n \in 0 .. MaxVorhanden : \E felder \in [1 .. n -> Cluster] :
            zeilen = Tabelle(felder) /\ gemacht = n
    BY DEF Init
  <1>f. PICK felder \in [1 .. n -> Cluster] : zeilen = Tabelle(felder) /\ gemacht = n
    BY <1>1
  <1>2. DOMAIN felder = 1 .. n /\ \A k \in 1 .. n : felder[k] \in Cluster
    OBVIOUS
  <1>3. \A k \in 1 .. n :
            [nr |-> k, id |-> k, cluster |-> felder[k],
             felder |-> FelderVon(felder[k]), handler |-> 1] \in Zeile
    BY <1>2, OptionenTyp, FormularAssumption DEF Zeile
  <1>4. zeilen \in [1 .. n -> Zeile]
    BY <1>f, <1>2, <1>3 DEF Tabelle
  <1>5. zeilen \in Seq(Zeile) /\ Len(zeilen) = gemacht /\ DOMAIN zeilen = 1 .. n
    BY <1>f, <1>4, IstFolge
  <1>6. gemacht \in 0 .. MaxZeilen
    BY <1>f, FormularAssumption
  <1>7. /\ select_feld = Keins /\ firmen \in SUBSET Firma
        /\ ansprechpartner = [ganz |-> firmen, rest |-> {}]
        /\ anfragen = [cluster |-> Keins, anfragen |-> {f \in firmen : Anfragenzahl[f] > 0}]
        /\ to_display = <<>>
        /\ fma = [p \in Person |-> 0]
        /\ auswahl = {} /\ offen = EmptyBag /\ klicks = 0
        /\ geordnet = TRUE /\ entfernt = FALSE
    BY DEF Init
  <1>8. TypeOK
    <2>1. anfragen \in Optionen
      BY <1>7 DEF Optionen
    <2>2. ansprechpartner \in [ganz : SUBSET Firma, rest : SUBSET Firma]
      BY <1>7
    <2>3. to_display \in Seq(SUBSET Firma)
      BY <1>7
    <2>4. IsABag(offen) /\ BagToSet(offen) \subseteq Anfrage
      BY <1>7, BeutelLeer
    <2>5. klicks \in 0 .. MaxKlicks /\ fma \in [Person -> Nat]
      BY <1>7, FormularAssumption
    <2>6. {geordnet, entfernt} \subseteq BOOLEAN
      BY <1>0
    <2> QED
      BY <1>5, <1>6, <1>7, <2>1, <2>2, <2>3, <2>4, <2>5, <2>6 DEF TypeOK
  <1>9. \A k \in DOMAIN zeilen : zeilen[k].handler = 1
    BY <1>f, <1>2, <1>5 DEF Tabelle
  <1> QED
    BY <1>5, <1>6, <1>8, <1>9 DEF FormularInv, ZeilenOK

\* What the user does keeps the types.
LEMMA BenutzerTyp ==
    ASSUME FormularInv, Benutzer
    PROVE  FormularInv'
  <1>t. TypeOK /\ ZeilenOK
    BY DEF FormularInv
  <1>1. CASE ZeileHinzu
    <2>1. Klick /\ gemacht < MaxZeilen /\ gemacht' = gemacht + 1
          /\ offen' = offen (+) SetToBag({Post("cluster", Keins, 0)})
          /\ UNCHANGED <<select_feld, anfragen, firmen, ansprechpartner, to_display, fma,
                         auswahl, entfernt>>
      BY <1>1 DEF ZeileHinzu, partner, freie
    <2>2. IsABag(offen') /\ BagToSet(offen)' \subseteq Anfrage
      <3>1. IsABag(offen') /\ Unterwegs' = Unterwegs \cup {Post("cluster", Keins, 0)}
        BY <1>t, <2>1, Gefragt
      <3> QED
        BY <1>t, <3>1, AnfrageTyp DEF TypeOK, Unterwegs
    <2>3. klicks' \in 0 .. MaxKlicks /\ geordnet' \in BOOLEAN
      BY <1>t, <2>1, Geklickt
    <2>4. gemacht' \in 0 .. MaxZeilen
      BY <1>t, <2>1, FormularAssumption DEF TypeOK
    <2>5. zeilen' \in Seq(Zeile) /\ Len(zeilen') = Len(zeilen) + 1
          /\ \A k \in DOMAIN zeilen' : zeilen'[k].handler >= 1
      BY <1>1, HinzuZeilen, <1>t, ZeilenTyp
    <2>6. TypeOK'
      BY <1>t, <2>1, <2>2, <2>3, <2>4, <2>5 DEF TypeOK
    <2>7. ZeilenOK'
      BY <1>t, <2>1, <2>4, <2>5, ZeilenTyp DEF ZeilenOK, TypeOK
    <2> QED
      BY <2>6, <2>7 DEF FormularInv
  <1>2. ASSUME NEW k, ZeileWeg(k) PROVE FormularInv'
    <2>1. Klick /\ k \in DOMAIN zeilen /\ zeilen' = RemoveAt(zeilen, k) /\ entfernt' = TRUE
          /\ UNCHANGED <<gemacht, select_feld, anfragen, firmen, ansprechpartner, to_display,
                         fma, auswahl, offen>>
      BY <1>2 DEF ZeileWeg, partner, freie
    <2>2. klicks' \in 0 .. MaxKlicks /\ geordnet' \in BOOLEAN
      BY <1>t, <2>1, Geklickt
    <2>3. /\ zeilen' \in Seq(Zeile) /\ Len(zeilen') = Len(zeilen) - 1
          /\ \A j \in DOMAIN zeilen' : \E l \in DOMAIN zeilen : zeilen'[j] = zeilen[l]
      BY <1>t, <2>1, WegZeilen
    <2>4. TypeOK'
      BY <1>t, <2>1, <2>2, <2>3 DEF TypeOK
    <2>5. \A j \in DOMAIN zeilen' : zeilen'[j].handler >= 1
      BY <1>t, <2>3 DEF ZeilenOK
    <2>6. Len(zeilen') <= gemacht'
      BY <1>t, <2>1, <2>3, ZeilenTyp DEF ZeilenOK, TypeOK
    <2> QED
      BY <2>1, <2>4, <2>5, <2>6 DEF FormularInv, ZeilenOK
  <1>3. ASSUME NEW k, NEW c \in Cluster, ClusterWaehlen(k, c) PROVE FormularInv'
    <2>1. Klick /\ zeilen' = [zeilen EXCEPT ![k].cluster = c]
          /\ select_feld' = zeilen[Erste(zeilen[k].id)].nr
          /\ UNCHANGED <<gemacht, anfragen, firmen, ansprechpartner, to_display, fma,
                         auswahl, entfernt>>
      BY <1>3 DEF ClusterWaehlen, partner, freie
    <2>2. /\ IsABag(offen') /\ Unterwegs' = Unterwegs \cup {Post("felder", c, 0)}
          /\ Erste(zeilen[k].id) \in DOMAIN zeilen /\ k \in DOMAIN zeilen
      BY <1>3, WaehlenFragt DEF MitId
    <2>3. BagToSet(offen)' \subseteq Anfrage
      BY <1>t, <2>2, AnfrageTyp DEF TypeOK, Unterwegs
    <2>4. klicks' \in 0 .. MaxKlicks /\ geordnet' \in BOOLEAN
      BY <1>t, <2>1, Geklickt
    <2>5. /\ zeilen' \in Seq(Zeile) /\ Len(zeilen') = Len(zeilen)
          /\ DOMAIN zeilen' = DOMAIN zeilen
          /\ \A j \in DOMAIN zeilen : zeilen'[j].handler = zeilen[j].handler
      BY <1>t, <2>1, <2>2, WaehlenZeilen
    <2>6. select_feld' \in 0 .. MaxZeilen
      BY <1>t, <2>1, <2>2, ZeilenTyp, FormularAssumption
    <2>7. TypeOK'
      BY <1>t, <2>1, <2>2, <2>3, <2>4, <2>5, <2>6 DEF TypeOK
    <2> QED
      BY <1>t, <2>1, <2>5, <2>7 DEF FormularInv, ZeilenOK
  <1>4. ASSUME NEW fs \in SUBSET Firma, Klick, UpdateAnsprechpartner(fs),
               UNCHANGED <<taetigkeiten, freie>>
        PROVE  FormularInv'
    <2> DEFINE n == Len(to_display) + 1
               S == {Post("mitarbeiter", f, n) : f \in fs} \cup {Post("anfragen", f, 0) : f \in fs}
    <2>1. /\ firmen' = fs /\ ansprechpartner' = [ganz |-> {}, rest |-> {}]
          /\ to_display' = Append(to_display, {})
          /\ select_feld' = 0 /\ anfragen' = Leer
          /\ offen' = offen (+) SetToBag(S)
          /\ UNCHANGED <<zeilen, gemacht, entfernt, fma, auswahl>>
      BY <1>4 DEF UpdateAnsprechpartner, taetigkeiten, freie
    <2>2. to_display \in Seq(SUBSET Firma) /\ n \in Nat
      BY <1>t DEF TypeOK
    <2>3. to_display' \in Seq(SUBSET Firma)
      BY <2>1, <2>2
    <2>4. S \subseteq Anfrage
      BY <2>2, AnfrageTyp
    <2> HIDE DEF S, n
    <2>5. IsABag(offen') /\ BagToSet(offen)' \subseteq Anfrage
      BY <1>t, <2>1, <2>4, Gefragt DEF TypeOK, Unterwegs
    <2>6. klicks' \in 0 .. MaxKlicks /\ geordnet' \in BOOLEAN
      BY <1>t, <1>4, Geklickt
    <2>7. select_feld' \in 0 .. MaxZeilen /\ anfragen' \in Optionen
      BY <2>1, OptionenTyp, FormularAssumption
    <2>8. TypeOK'
      BY <1>t, <2>1, <2>3, <2>5, <2>6, <2>7 DEF TypeOK
    <2> QED
      BY <1>t, <2>1, <2>8 DEF FormularInv, ZeilenOK
  <1>5. ASSUME NEW p \in SUBSET Person, FmaFertig(p) PROVE FormularInv'
    <2>1. /\ Klick /\ auswahl' = p /\ fma' = [q \in Person |-> 0]
          /\ offen' = offen (+) SetToBag({Post("person", q, 0) : q \in p})
          /\ UNCHANGED <<zeilen, gemacht, entfernt, select_feld, anfragen, firmen,
                         ansprechpartner, to_display>>
      BY <1>5 DEF FmaFertig, taetigkeiten, partner
    <2>2. {Post("person", q, 0) : q \in p} \subseteq Anfrage
      BY AnfrageTyp
    <2>3. IsABag(offen') /\ BagToSet(offen)' \subseteq Anfrage
      BY <1>t, <2>1, <2>2, Gefragt DEF TypeOK, Unterwegs
    <2>4. klicks' \in 0 .. MaxKlicks /\ geordnet' \in BOOLEAN
      BY <1>t, <2>1, Geklickt
    <2>5. TypeOK'
      BY <1>t, <2>1, <2>3, <2>4 DEF TypeOK
    <2> QED
      BY <1>t, <2>1, <2>5 DEF FormularInv, ZeilenOK
  <1>6. ASSUME NEW f \in Firma, FirmaHinzu(f) \/ FirmaWeg(f) PROVE FormularInv'
    <2>1. firmen \cup {f} \in SUBSET Firma /\ firmen \ {f} \in SUBSET Firma
      BY <1>t DEF TypeOK
    <2> QED
      BY <1>4, <1>6, <2>1 DEF FirmaHinzu, FirmaWeg
  <1> QED
    BY <1>1, <1>2, <1>3, <1>5, <1>6 DEF Benutzer

\* And so do the answers.
LEMMA RueckrufTyp ==
    ASSUME FormularInv, Rueckruf
    PROVE  FormularInv'
  <1>t. TypeOK /\ ZeilenOK
    BY DEF FormularInv
  <1>a. ASSUME NEW p, Rufe(p), Erledigt(p)
        PROVE  /\ IsABag(offen') /\ BagToSet(offen)' \subseteq Anfrage
               /\ UNCHANGED <<klicks, geordnet, gemacht, entfernt>>
    BY <1>a, <1>t, Beantwortet DEF TypeOK, Unterwegs
  <1>1. CASE ClusterErhalten
    <2> DEFINE i == RowsLength(zeilen)
               k == Erste(i)
    <2>1. UNCHANGED <<anfragen, firmen, ansprechpartner, to_display, fma, auswahl>>
      BY <1>1 DEF ClusterErhalten, partner, freie
    <2>2. /\ IsABag(offen')
          /\ Unterwegs' \subseteq Unterwegs \cup {Post("felder", ErstesCluster, 0)}
          /\ UNCHANGED <<klicks, geordnet, gemacht, entfernt>>
          /\ \/ UNCHANGED <<zeilen, select_feld>>
             \/ /\ k \in DOMAIN zeilen
                /\ zeilen' = [zeilen EXCEPT ![k].cluster = ErstesCluster]
                /\ select_feld' = zeilen[k].nr
      BY <1>1, <1>t, ClusterFragt
    <2>3. BagToSet(offen)' \subseteq Anfrage
      BY <1>t, <2>2, AnfrageTyp, FormularAssumption DEF TypeOK, Unterwegs
    <2>4. CASE UNCHANGED <<zeilen, select_feld>>
      BY <1>t, <2>1, <2>2, <2>3, <2>4 DEF TypeOK, FormularInv, ZeilenOK
    <2>5. CASE /\ k \in DOMAIN zeilen
               /\ zeilen' = [zeilen EXCEPT ![k].cluster = ErstesCluster]
               /\ select_feld' = zeilen[k].nr
      <3> HIDE DEF k
      <3>1. /\ zeilen' \in Seq(Zeile) /\ Len(zeilen') = Len(zeilen)
            /\ DOMAIN zeilen' = DOMAIN zeilen
            /\ \A j \in DOMAIN zeilen : zeilen'[j].handler = zeilen[j].handler
        BY <1>t, <2>5, WaehlenZeilen, FormularAssumption
      <3>2. select_feld' \in 0 .. MaxZeilen
        BY <1>t, <2>5, ZeilenTyp, FormularAssumption
      <3>3. TypeOK'
        BY <1>t, <2>1, <2>2, <2>3, <3>1, <3>2 DEF TypeOK
      <3> QED
        BY <1>t, <2>2, <3>1, <3>3 DEF FormularInv, ZeilenOK
    <2> QED
      BY <2>2, <2>4, <2>5
  <1>2. ASSUME NEW p, Rufe(p), Erledigt(p), NEW neu \in [Optionen -> Optionen],
               Fuellen(select_feld, neu), UNCHANGED <<select_feld, partner, freie>>
        PROVE  FormularInv'
    <2>1. /\ zeilen' \in Seq(Zeile) /\ anfragen' \in Optionen /\ Len(zeilen') = Len(zeilen)
          /\ DOMAIN zeilen' = DOMAIN zeilen
          /\ \A j \in DOMAIN zeilen : zeilen'[j].handler = zeilen[j].handler
      BY <1>2, <1>t, FuellenZeilen
    <2>2. UNCHANGED <<select_feld, firmen, ansprechpartner, to_display, fma, auswahl>>
      BY <1>2 DEF partner, freie
    <2>3. /\ IsABag(offen') /\ BagToSet(offen)' \subseteq Anfrage
          /\ UNCHANGED <<klicks, geordnet, gemacht, entfernt>>
      BY <1>2, <1>a
    <2>4. TypeOK'
      BY <1>t, <2>1, <2>2, <2>3 DEF TypeOK
    <2> QED
      BY <1>t, <2>1, <2>3, <2>4 DEF FormularInv, ZeilenOK
  <1>3. ASSUME NEW c \in Cluster, FelderErhalten(c) PROVE FormularInv'
    BY <1>2, <1>3, OptionenTyp DEF FelderErhalten
  <1>4. ASSUME NEW f \in Firma, AnfragenErhalten(f) PROVE FormularInv'
    BY <1>2, <1>4, OptionenTyp DEF AnfragenErhalten
  <1>5. ASSUME NEW f \in Firma, NEW ruf \in DOMAIN to_display, MitarbeiterErhalten(f, ruf)
        PROVE  FormularInv'
    <2>1. /\ Rufe(Post("mitarbeiter", f, ruf)) /\ Erledigt(Post("mitarbeiter", f, ruf))
          /\ to_display' = [to_display EXCEPT ![ruf] = Ueberschreiben(@, f, Mitarbeiterzahl)]
          /\ ansprechpartner' = [ganz |-> ansprechpartner.ganz \cup {f},
                                 rest |-> ansprechpartner.rest \cup (to_display'[ruf] \ {f})]
          /\ UNCHANGED <<zeilen, select_feld, anfragen, firmen, fma, auswahl>>
      BY <1>5 DEF MitarbeiterErhalten, freie
    <2>2. to_display \in Seq(SUBSET Firma)
      BY <1>t DEF TypeOK
    <2>3. /\ ruf \in 1 .. Len(to_display) /\ to_display[ruf] \in SUBSET Firma
          /\ DOMAIN to_display = 1 .. Len(to_display)
      BY <2>2, LenProperties, ElementOfSeq
    <2>4. Ueberschreiben(to_display[ruf], f, Mitarbeiterzahl) \in SUBSET Firma
      BY <2>3, UeberschreibenGrenzt
    <2>5. to_display' \in Seq(SUBSET Firma)
      BY <2>1, <2>2, <2>3, <2>4, ExceptSeq
    <2>6. to_display'[ruf] \in SUBSET Firma
      BY <2>1, <2>3, <2>4
    <2>7. ansprechpartner' \in [ganz : SUBSET Firma, rest : SUBSET Firma]
      BY <1>t, <2>1, <2>6 DEF TypeOK
    <2>8. /\ IsABag(offen') /\ BagToSet(offen)' \subseteq Anfrage
          /\ UNCHANGED <<klicks, geordnet, gemacht, entfernt>>
      BY <2>1, <1>a
    <2>9. TypeOK'
      BY <1>t, <2>1, <2>5, <2>7, <2>8 DEF TypeOK
    <2> QED
      BY <1>t, <2>1, <2>8, <2>9 DEF FormularInv, ZeilenOK
  <1>6. ASSUME NEW p \in Person, PersonErhalten(p) PROVE FormularInv'
    <2>1. /\ Rufe(Post("person", p, 0)) /\ Erledigt(Post("person", p, 0))
          /\ fma' = [fma EXCEPT ![p] = @ + 1]
          /\ UNCHANGED <<zeilen, select_feld, anfragen, firmen, ansprechpartner, to_display,
                         auswahl>>
      BY <1>6 DEF PersonErhalten, partner
    <2>2. fma' \in [Person -> Nat]
      BY <1>t, <2>1 DEF TypeOK
    <2>3. /\ IsABag(offen') /\ BagToSet(offen)' \subseteq Anfrage
          /\ UNCHANGED <<klicks, geordnet, gemacht, entfernt>>
      BY <2>1, <1>a
    <2>4. TypeOK'
      BY <1>t, <2>1, <2>2, <2>3 DEF TypeOK
    <2> QED
      BY <1>t, <2>1, <2>3, <2>4 DEF FormularInv, ZeilenOK
  <1> QED
    BY <1>1, <1>3, <1>4, <1>5, <1>6 DEF Rueckruf

LEMMA TypErhalten == FormularInv /\ [Next]_vars => FormularInv'
  <1>1. FormularInv /\ UNCHANGED vars => FormularInv'
    BY DEF vars, FormularInv, TypeOK, ZeilenOK, Zeile
  <1> QED
    BY <1>1, BenutzerTyp, RueckrufTyp DEF Next

\* However answers and changes overlap, the form keeps its types: every row
\* has an element of its own, every request on the way can be answered, and an
\* answer writes nothing but Felder or enquiries into a select.
THEOREM FormularTyp == Spec => []TypeOK
  <1>1. FormularInv => TypeOK
    BY DEF FormularInv
  <1> QED
    BY <1>1, TypAmAnfang, TypErhalten, PTL DEF Spec
-----------------------------------------------------------------------------
(* Requests of different kinds do not touch each other.                    *)

\* Only requests of these kinds come or go.
Nur(arten) == \A x : x.art \notin arten => Kopien(x, offen') = Kopien(x, offen)

LEMMA PostFelder ==
    \A art, wert, ruf : /\ Post(art, wert, ruf).art = art
                        /\ Post(art, wert, ruf).wert = wert
                        /\ Post(art, wert, ruf).ruf = ruf
  BY DEF Post

LEMMA UnterwegsZahl ==
    ASSUME TypeOK
    PROVE  \A x : Kopien(x, offen) \in Nat /\ (x \in Unterwegs <=> Kopien(x, offen) >= 1)
  BY BeutelZahl DEF TypeOK, Unterwegs

LEMMA UnterwegsZahlDanach ==
    ASSUME TypeOK'
    PROVE  \A x : Kopien(x, offen') \in Nat /\ (x \in Unterwegs' <=> Kopien(x, offen') >= 1)
  <1>1. IsABag(offen')
    BY DEF TypeOK
  <1> QED
    BY <1>1, BeutelZahl DEF Unterwegs

\* A waiting user who gets rows has no other answers to wait for.
LEMMA NurCluster ==
    ASSUME EinAnlass, NEW p \in Unterwegs, p.art = "cluster"
    PROVE  LET q == Post("cluster", Keins, 0)
           IN  p = q /\ Unterwegs = {q} /\ Kopien(q, offen) = 1
  <1> DEFINE q == Post("cluster", Keins, 0)
  <1>1. offen = SetToBag({q})
    BY DEF EinAnlass
  <1> HIDE DEF q
  <1>2. DOMAIN SetToBag({q}) = {q} /\ SetToBag({q})[q] = 1
    BY DEF SetToBag
  <1> QED
    BY <1>1, <1>2 DEF Unterwegs, Kopien, BagToSet, q

LEMMA AngebotBleibt ==
    ASSUME TypeOK, TypeOK', AngebotStimmt, UNCHANGED partner, geordnet' => geordnet,
           Nur({"cluster", "felder", "anfragen", "person"})
    PROVE  AngebotStimmt'
  <1>1. UNCHANGED <<firmen, ansprechpartner, to_display>>
    BY DEF partner
  <1>2. \A x : x.art = "mitarbeiter" => (x \in Unterwegs' <=> x \in Unterwegs)
    <2> TAKE x
    <2> HAVE x.art = "mitarbeiter"
    <2>1. Kopien(x, offen') = Kopien(x, offen)
      BY DEF Nur
    <2> QED
      BY <2>1, UnterwegsZahl, UnterwegsZahlDanach
  <1>3. \A f, n : Post("mitarbeiter", f, n).art = "mitarbeiter"
    BY PostFelder
  <1> QED
    BY <1>1, <1>2, <1>3 DEF AngebotStimmt

LEMMA AuswahlBleibt ==
    ASSUME AuswahlStimmt, UNCHANGED freie, geordnet' => geordnet,
           Nur({"cluster", "felder", "anfragen", "mitarbeiter"})
    PROVE  AuswahlStimmt'
  <1>1. UNCHANGED <<fma, auswahl>>
    BY DEF freie
  <1>2. \A p : Kopien(Post("person", p, 0), offen') = Kopien(Post("person", p, 0), offen)
    BY PostFelder DEF Nur
  <1>3. \A p : Anzahl(p)' = Anzahl(p)
    BY <1>1, <1>2 DEF Anzahl
  <1> QED
    BY <1>1, <1>3 DEF AuswahlStimmt

LEMMA AngebotErneuert ==
    ASSUME TypeOK, NEW fs \in SUBSET Firma, Klick, UpdateAnsprechpartner(fs)
    PROVE  AngebotStimmt'
  <1> DEFINE n == Len(to_display) + 1
             A == {Post("mitarbeiter", f, n) : f \in fs}
             S == A \cup {Post("anfragen", f, 0) : f \in fs}
  <1>1. /\ firmen' = fs /\ ansprechpartner' = [ganz |-> {}, rest |-> {}]
        /\ to_display' = Append(to_display, {})
        /\ offen' = offen (+) SetToBag(S)
    BY DEF UpdateAnsprechpartner
  <1>2. to_display \in Seq(SUBSET Firma)
    BY DEF TypeOK
  <1>3. Len(to_display') = n /\ to_display'[n] = {}
    BY <1>1, <1>2
  <1>4. \A p \in S : p.art = "mitarbeiter" => p.wert \in fs /\ p.ruf = n
    BY PostFelder
  <1>5. \A f \in fs : Post("mitarbeiter", f, n) \in S
    OBVIOUS
  <1> HIDE DEF A, S, n
  <1>6. Unterwegs' = Unterwegs \cup S
    BY <1>1, Gefragt
  <1>7. geordnet' => Unterwegs' = S
    BY <1>6, Geklickt
  <1> QED
    BY <1>1, <1>3, <1>4, <1>5, <1>6, <1>7 DEF AngebotStimmt

LEMMA AngebotWaechst ==
    ASSUME TypeOK, AngebotStimmt, NEW f \in Firma, NEW ruf \in DOMAIN to_display,
           MitarbeiterErhalten(f, ruf)
    PROVE  AngebotStimmt'
  <1> DEFINE p == Post("mitarbeiter", f, ruf)
             n == Len(to_display)
  <1>1. /\ to_display' = [to_display EXCEPT ![ruf] = Ueberschreiben(@, f, Mitarbeiterzahl)]
        /\ ansprechpartner' = [ganz |-> ansprechpartner.ganz \cup {f},
                               rest |-> ansprechpartner.rest \cup (to_display'[ruf] \ {f})]
        /\ firmen' = firmen /\ Rufe(p) /\ Erledigt(p)
    BY DEF MitarbeiterErhalten
  <1>2. p \in Unterwegs /\ Unterwegs' \subseteq Unterwegs /\ Unterwegs \ {p} \subseteq Unterwegs'
        /\ geordnet' = geordnet
    BY <1>1, Beantwortet
  <1>3. to_display \in Seq(SUBSET Firma)
    BY DEF TypeOK
  <1>4. /\ DOMAIN to_display = 1 .. n /\ n \in Nat /\ ruf \in 1 .. n
        /\ Len(to_display') = n
        /\ to_display'[ruf] = Ueberschreiben(to_display[ruf], f, Mitarbeiterzahl)
    <2>1. DOMAIN to_display = 1 .. n /\ n \in Nat /\ to_display[ruf] \in SUBSET Firma
      BY <1>3, LenProperties, ElementOfSeq
    <2>2. Ueberschreiben(to_display[ruf], f, Mitarbeiterzahl) \in SUBSET Firma
      BY <2>1, UeberschreibenGrenzt
    <2> QED
      BY <1>1, <1>3, <2>1, <2>2, ExceptSeq
  <1>5. to_display'[ruf] \subseteq {f} \cup to_display[ruf]
    BY <1>4, UeberschreibenGrenzt
  <1>6. p.art = "mitarbeiter" /\ p.wert = f /\ p.ruf = ruf
    BY PostFelder
  <1>7. \A g : Post("mitarbeiter", g, n) = p => g = f
    BY <1>6, PostFelder
  <1> HIDE DEF p, n
  <1>8. \A g \in firmen' :
            g \in ansprechpartner'.ganz \/ Post("mitarbeiter", g, n) \in Unterwegs'
    BY <1>1, <1>2, <1>7 DEF AngebotStimmt, n
  <1>9. ASSUME geordnet'
        PROVE  /\ ansprechpartner'.ganz \cup ansprechpartner'.rest \subseteq firmen'
               /\ \A q \in Unterwegs' : q.art = "mitarbeiter" =>
                      q.wert \in firmen' /\ q.ruf = n /\ to_display'[n] \subseteq firmen'
    <2>1. /\ ansprechpartner.ganz \cup ansprechpartner.rest \subseteq firmen
          /\ \A q \in Unterwegs : q.art = "mitarbeiter" =>
                 q.wert \in firmen /\ q.ruf = n /\ to_display[n] \subseteq firmen
      BY <1>2, <1>9 DEF AngebotStimmt, n
    <2>2. f \in firmen /\ ruf = n /\ to_display[n] \subseteq firmen
      BY <1>2, <1>6, <2>1
    <2>3. to_display'[n] \subseteq firmen
      BY <1>5, <2>2
    <2> QED
      BY <1>1, <1>2, <2>1, <2>2, <2>3
  <1> QED
    BY <1>4, <1>8, <1>9 DEF AngebotStimmt, n

LEMMA AuswahlNeu ==
    ASSUME TypeOK, AuswahlStimmt, NEW P \in SUBSET Person, FmaFertig(P)
    PROVE  AuswahlStimmt'
  <1> DEFINE S == {Post("person", q, 0) : q \in P}
  <1>1. /\ Klick /\ auswahl' = P /\ fma' = [q \in Person |-> 0]
        /\ offen' = offen (+) SetToBag(S)
    BY DEF FmaFertig
  <1>2. \A q : Post("person", q, 0) \in S <=> q \in P
    BY PostFelder
  <1> HIDE DEF S
  <1>3. \A x : Kopien(x, offen') = Kopien(x, offen) + IF x \in S THEN 1 ELSE 0
    BY <1>1, Gefragt
  <1>4. \A x : Kopien(x, offen) \in Nat
    BY UnterwegsZahl
  <1>5. ASSUME NEW q \in Person
        PROVE  Anzahl(q)' = Kopien(Post("person", q, 0), offen) + IF q \in P THEN 1 ELSE 0
    <2>1. Anzahl(q)' = fma'[q] + Kopien(Post("person", q, 0), offen')
      BY DEF Anzahl
    <2> QED
      BY <1>1, <1>2, <1>3, <1>4, <2>1
  <1>6. geordnet' => \A x : Kopien(x, offen) = 0
    BY <1>1, <1>4, Geklickt, UnterwegsZahl
  <1>7. \A q \in auswahl' : Anzahl(q)' >= 1
    BY <1>1, <1>4, <1>5
  <1>8. geordnet' => \A q \in Person : Anzahl(q)' = IF q \in auswahl' THEN 1 ELSE 0
    BY <1>1, <1>5, <1>6
  <1> QED
    BY <1>7, <1>8 DEF AuswahlStimmt

LEMMA AuswahlKommt ==
    ASSUME TypeOK, AuswahlStimmt, NEW p \in Person, PersonErhalten(p)
    PROVE  AuswahlStimmt'
  <1> DEFINE x == Post("person", p, 0)
  <1>1. /\ Rufe(x) /\ Erledigt(x) /\ fma' = [fma EXCEPT ![p] = @ + 1] /\ auswahl' = auswahl
    BY DEF PersonErhalten
  <1> HIDE DEF x
  <1>2. geordnet' = geordnet
        /\ \A y : Kopien(y, offen') = Kopien(y, offen) - IF y = x THEN 1 ELSE 0
    BY <1>1, Beantwortet
  <1>3. \A y : Kopien(y, offen) \in Nat
    BY UnterwegsZahl
  <1>4. ASSUME NEW q \in Person PROVE Anzahl(q)' = Anzahl(q)
    <2> DEFINE y == Post("person", q, 0)
    <2>1. y = x <=> q = p
      BY PostFelder DEF x
    <2>2. Anzahl(q) = fma[q] + Kopien(y, offen) /\ Anzahl(q)' = fma'[q] + Kopien(y, offen')
      BY DEF Anzahl
    <2> HIDE DEF y
    <2>3. fma[q] \in Nat /\ fma'[q] = fma[q] + IF q = p THEN 1 ELSE 0
      BY <1>1 DEF TypeOK
    <2> QED
      BY <1>2, <1>3, <2>1, <2>2, <2>3
  <1>5. auswahl \subseteq Person
    BY DEF TypeOK
  <1> QED
    BY <1>1, <1>2, <1>4, <1>5 DEF AuswahlStimmt
-----------------------------------------------------------------------------
(* The requests of one change, and what select_feld is for them.            *)

\* What the user does, seen from the requests: which ones he posts, and that
\* a user who waits has no others on the way.
LEMMA BenutzerFragt ==
    ASSUME FormularInv, Benutzer
    PROVE  /\ geordnet' => geordnet /\ Unterwegs = {} /\ offen = EmptyBag
           /\ \/ ZeileHinzu /\ offen' = offen (+) SetToBag({Post("cluster", Keins, 0)})
              \/ \E k \in DOMAIN zeilen : ZeileWeg(k) /\ offen' = offen
              \/ \E k \in DOMAIN zeilen, c \in Cluster :
                     /\ ClusterWaehlen(k, c)
                     /\ Unterwegs' = Unterwegs \cup {Post("felder", c, 0)}
              \/ \E fs \in SUBSET Firma :
                     /\ Klick /\ UpdateAnsprechpartner(fs)
                     /\ UNCHANGED <<taetigkeiten, freie>>
                     /\ \A p \in Unterwegs' : \/ p \in Unterwegs
                                              \/ /\ p.art \in {"mitarbeiter", "anfragen"}
                                                 /\ p.wert \in fs
              \/ \E P \in SUBSET Person :
                     /\ FmaFertig(P)
                     /\ \A p \in Unterwegs' : p \in Unterwegs \/ p.art = "person"
  <1>t. TypeOK
    BY DEF FormularInv
  <1>1. geordnet' => geordnet /\ Unterwegs = {} /\ offen = EmptyBag
    <2>1. Klick
      BY DEF Benutzer, ZeileHinzu, ZeileWeg, ClusterWaehlen, FirmaHinzu, FirmaWeg, FmaFertig
    <2> QED
      BY <1>t, <2>1, Geklickt
  <1>2. ASSUME NEW fs \in SUBSET Firma, UpdateAnsprechpartner(fs)
        PROVE  \A p \in Unterwegs' : \/ p \in Unterwegs
                                     \/ /\ p.art \in {"mitarbeiter", "anfragen"}
                                        /\ p.wert \in fs
    <2> DEFINE n == Len(to_display) + 1
               A == {Post("mitarbeiter", f, n) : f \in fs}
               B == {Post("anfragen", f, 0) : f \in fs}
    <2>1. offen' = offen (+) SetToBag(A \cup B)
      BY <1>2 DEF UpdateAnsprechpartner
    <2>2. \A p \in A \cup B : p.art \in {"mitarbeiter", "anfragen"} /\ p.wert \in fs
      BY PostFelder
    <2> HIDE DEF A, B
    <2>3. Unterwegs' = Unterwegs \cup (A \cup B)
      BY <1>t, <2>1, Gefragt
    <2> QED
      BY <2>2, <2>3
  <1>3. ASSUME NEW P \in SUBSET Person, FmaFertig(P)
        PROVE  \A p \in Unterwegs' : p \in Unterwegs \/ p.art = "person"
    <2> DEFINE S == {Post("person", q, 0) : q \in P}
    <2>1. offen' = offen (+) SetToBag(S)
      BY <1>3 DEF FmaFertig
    <2>2. \A p \in S : p.art = "person"
      BY PostFelder
    <2> HIDE DEF S
    <2>3. Unterwegs' = Unterwegs \cup S
      BY <1>t, <2>1, Gefragt
    <2> QED
      BY <2>2, <2>3
  <1>4. CASE ZeileHinzu
    BY <1>1, <1>4 DEF ZeileHinzu
  <1>5. CASE \E k \in DOMAIN zeilen : ZeileWeg(k)
    BY <1>1, <1>5 DEF ZeileWeg
  <1>6. CASE \E k \in DOMAIN zeilen : \E c \in Cluster : ClusterWaehlen(k, c)
    BY <1>1, <1>6, WaehlenFragt
  <1>7. CASE \E f \in Firma : FirmaHinzu(f) \/ FirmaWeg(f)
    <2>1. PICK f \in Firma : FirmaHinzu(f) \/ FirmaWeg(f)
      BY <1>7
    <2>2. firmen \cup {f} \in SUBSET Firma /\ firmen \ {f} \in SUBSET Firma
      BY <1>t DEF TypeOK
    <2>3. \E fs \in SUBSET Firma : Klick /\ UpdateAnsprechpartner(fs)
                                   /\ UNCHANGED <<taetigkeiten, freie>>
      BY <2>1, <2>2 DEF FirmaHinzu, FirmaWeg
    <2> QED
      BY <1>1, <1>2, <2>3
  <1>8. CASE \E P \in SUBSET Person : FmaFertig(P)
    BY <1>1, <1>3, <1>8
  <1> QED
    BY <1>4, <1>5, <1>6, <1>7, <1>8 DEF Benutzer

\* The answers, seen from the requests of a waiting user: the clusters bring
\* one request for Felder, the others bring none.
LEMMA RueckrufFragt ==
    ASSUME FormularInv, EinAnlass, Rueckruf
    PROVE  /\ geordnet' = geordnet /\ entfernt' = entfernt
           /\ \/ /\ ClusterErhalten
                 /\ Unterwegs = {Post("cluster", Keins, 0)}
                 /\ Unterwegs' \subseteq {Post("felder", ErstesCluster, 0)}
              \/ /\ \/ \E c \in Cluster : /\ FelderErhalten(c)
                                          /\ Post("felder", c, 0) \in Unterwegs
                    \/ \E f \in Firma : /\ AnfragenErhalten(f)
                                        /\ Post("anfragen", f, 0) \in Unterwegs
                    \/ \E f \in Firma, ruf \in DOMAIN to_display :
                           /\ MitarbeiterErhalten(f, ruf)
                           /\ Post("mitarbeiter", f, ruf) \in Unterwegs
                    \/ \E p \in Person : /\ PersonErhalten(p)
                                         /\ Post("person", p, 0) \in Unterwegs
                 /\ Unterwegs' \subseteq Unterwegs
                 /\ \A p \in Unterwegs : p.art # "cluster"
  <1>t. TypeOK
    BY DEF FormularInv
  <1>1. CASE ClusterErhalten
    <2> DEFINE p == Post("cluster", Keins, 0)
               q == Post("felder", ErstesCluster, 0)
    <2>1. /\ p \in Unterwegs /\ IsABag(offen')
          /\ Unterwegs' \subseteq Unterwegs \cup {q}
          /\ Kopien(p, offen') = Kopien(p, offen) - 1
          /\ geordnet' = geordnet /\ entfernt' = entfernt
      BY <1>1, <1>t, ClusterFragt
    <2>2. p.art = "cluster"
      BY PostFelder
    <2> HIDE DEF p, q
    <2>3. Unterwegs = {p} /\ Kopien(p, offen) = 1
      BY <2>1, <2>2, NurCluster DEF p
    <2>4. p \notin Unterwegs'
      <3>1. Kopien(p, offen') = 0
        BY <2>1, <2>3
      <3> QED
        BY <2>1, <3>1, BeutelZahl DEF Unterwegs
    <2>5. Unterwegs' \subseteq {q}
      BY <2>1, <2>3, <2>4
    <2> QED
      BY <1>1, <2>1, <2>3, <2>5 DEF p, q
  <1>2. ASSUME NEW p, Rufe(p), Erledigt(p), p.art # "cluster"
        PROVE  /\ p \in Unterwegs /\ Unterwegs' \subseteq Unterwegs
               /\ geordnet' = geordnet /\ entfernt' = entfernt
               /\ \A q \in Unterwegs : q.art # "cluster"
    <2>1. /\ p \in Unterwegs /\ Unterwegs' \subseteq Unterwegs
          /\ geordnet' = geordnet /\ entfernt' = entfernt
      BY <1>2, <1>t, Beantwortet
    <2>2. \A q \in Unterwegs : q.art # "cluster"
      <3> SUFFICES ASSUME NEW q \in Unterwegs, q.art = "cluster" PROVE FALSE
        OBVIOUS
      <3>1. Unterwegs = {q}
        BY NurCluster
      <3> QED
        BY <1>2, <2>1, <3>1
    <2> QED
      BY <2>1, <2>2
  <1>3. CASE \E c \in Cluster : FelderErhalten(c)
    <2>1. PICK c \in Cluster : FelderErhalten(c)
      BY <1>3
    <2> DEFINE x == Post("felder", c, 0)
    <2>2. Rufe(x) /\ Erledigt(x)
      BY <2>1 DEF FelderErhalten
    <2>3. x.art # "cluster"
      BY PostFelder
    <2> HIDE DEF x
    <2>4. /\ x \in Unterwegs /\ Unterwegs' \subseteq Unterwegs
          /\ geordnet' = geordnet /\ entfernt' = entfernt
          /\ \A q \in Unterwegs : q.art # "cluster"
      BY <1>2, <2>2, <2>3
    <2> QED
      BY <2>1, <2>4 DEF x
  <1>4. CASE \E f \in Firma : AnfragenErhalten(f)
    <2>1. PICK f \in Firma : AnfragenErhalten(f)
      BY <1>4
    <2> DEFINE x == Post("anfragen", f, 0)
    <2>2. Rufe(x) /\ Erledigt(x)
      BY <2>1 DEF AnfragenErhalten
    <2>3. x.art # "cluster"
      BY PostFelder
    <2> HIDE DEF x
    <2>4. /\ x \in Unterwegs /\ Unterwegs' \subseteq Unterwegs
          /\ geordnet' = geordnet /\ entfernt' = entfernt
          /\ \A q \in Unterwegs : q.art # "cluster"
      BY <1>2, <2>2, <2>3
    <2> QED
      BY <2>1, <2>4 DEF x
  <1>5. CASE \E f \in Firma, ruf \in DOMAIN to_display : MitarbeiterErhalten(f, ruf)
    <2>1. PICK f \in Firma, ruf \in DOMAIN to_display : MitarbeiterErhalten(f, ruf)
      BY <1>5
    <2> DEFINE x == Post("mitarbeiter", f, ruf)
    <2>2. Rufe(x) /\ Erledigt(x)
      BY <2>1 DEF MitarbeiterErhalten
    <2>3. x.art # "cluster"
      BY PostFelder
    <2> HIDE DEF x
    <2>4. /\ x \in Unterwegs /\ Unterwegs' \subseteq Unterwegs
          /\ geordnet' = geordnet /\ entfernt' = entfernt
          /\ \A q \in Unterwegs : q.art # "cluster"
      BY <1>2, <2>2, <2>3
    <2> QED
      BY <2>1, <2>4 DEF x
  <1>6. CASE \E p \in Person : PersonErhalten(p)
    <2>1. PICK p \in Person : PersonErhalten(p)
      BY <1>6
    <2> DEFINE x == Post("person", p, 0)
    <2>2. Rufe(x) /\ Erledigt(x)
      BY <2>1 DEF PersonErhalten
    <2>3. x.art # "cluster"
      BY PostFelder
    <2> HIDE DEF x
    <2>4. /\ x \in Unterwegs /\ Unterwegs' \subseteq Unterwegs
          /\ geordnet' = geordnet /\ entfernt' = entfernt
          /\ \A q \in Unterwegs : q.art # "cluster"
      BY <1>2, <2>2, <2>3
    <2> QED
      BY <2>1, <2>4 DEF x
  <1> QED
    BY <1>1, <1>3, <1>4, <1>5, <1>6 DEF Rueckruf

LEMMA EinAnlassErhalten ==
    ASSUME FormularInv, geordnet => EinAnlass, Next, geordnet'
    PROVE  EinAnlass'
  <1>t. TypeOK
    BY DEF FormularInv
  <1>1. CASE Benutzer
    <2>1. Unterwegs = {} /\ offen = EmptyBag
      BY <1>1, BenutzerFragt
    <2>2. CASE offen' = offen (+) SetToBag({Post("cluster", Keins, 0)})
      BY <1>t, <2>1, <2>2, Gefragt DEF EinAnlass
    <2>3. CASE offen' = offen
      <3>1. Unterwegs' = {}
        BY <2>1, <2>3 DEF Unterwegs
      <3> QED
        BY <3>1 DEF EinAnlass
    <2>4. ASSUME NEW c, Unterwegs' = Unterwegs \cup {Post("felder", c, 0)} PROVE EinAnlass'
      BY <2>1, <2>4, PostFelder DEF EinAnlass
    <2>5. CASE \A p \in Unterwegs' : p \in Unterwegs \/ p.art \in {"mitarbeiter", "anfragen"}
      BY <2>1, <2>5 DEF EinAnlass
    <2>6. CASE \A p \in Unterwegs' : p \in Unterwegs \/ p.art = "person"
      BY <2>1, <2>6 DEF EinAnlass
    <2> QED
      BY <1>1, <2>2, <2>3, <2>4, <2>5, <2>6, BenutzerFragt
  <1>2. CASE Rueckruf
    <2>1. EinAnlass
      <3>1. geordnet' = geordnet
        BY <1>2 DEF Rueckruf, ClusterErhalten, FelderErhalten, AnfragenErhalten,
                    MitarbeiterErhalten, PersonErhalten, Rufe
      <3> QED
        BY <3>1
    <2>2. CASE Unterwegs' \subseteq {Post("felder", ErstesCluster, 0)}
      BY <2>2, PostFelder DEF EinAnlass
    <2>3. CASE /\ Unterwegs' \subseteq Unterwegs
               /\ \A p \in Unterwegs : p.art # "cluster"
               /\ Unterwegs # {}
      <3>1. offen # SetToBag({Post("cluster", Keins, 0)})
        <4>1. DOMAIN SetToBag({Post("cluster", Keins, 0)}) = {Post("cluster", Keins, 0)}
          BY DEF SetToBag
        <4> QED
          BY <2>3, <4>1, PostFelder DEF Unterwegs, BagToSet
      <3> QED
        BY <2>1, <2>3, <3>1 DEF EinAnlass
    <2> QED
      BY <1>2, <2>1, <2>2, <2>3, RueckrufFragt
  <1> QED
    BY <1>1, <1>2 DEF Next
-----------------------------------------------------------------------------
(* The select of the enquiry.                                              *)

LEMMA AnfragenBleiben ==
    ASSUME FormularInv, geordnet => EinAnlass, AnfragenStimmen, AngebotStimmt, Next, geordnet'
    PROVE  AnfragenStimmen'
  <1>t. TypeOK
    BY DEF FormularInv
  <1>1. CASE Benutzer
    <2>1. Unterwegs = {} /\ geordnet
      BY <1>1, BenutzerFragt
    <2>2. anfragen.cluster = Keins /\ anfragen.anfragen \subseteq firmen
      BY <2>1 DEF AnfragenStimmen
    <2>3. CASE ZeileHinzu /\ offen' = offen (+) SetToBag({Post("cluster", Keins, 0)})
      <3>1. Unterwegs' = {Post("cluster", Keins, 0)}
        BY <1>t, <2>1, <2>3, Gefragt
      <3> QED
        BY <2>2, <2>3, <3>1, PostFelder DEF ZeileHinzu, partner, AnfragenStimmen
    <2>4. ASSUME NEW k, ZeileWeg(k), offen' = offen PROVE AnfragenStimmen'
      <3>1. Unterwegs' = {}
        BY <2>1, <2>4 DEF Unterwegs
      <3> QED
        BY <2>2, <2>4, <3>1 DEF ZeileWeg, partner, AnfragenStimmen
    <2>5. ASSUME NEW k \in DOMAIN zeilen, NEW c \in Cluster, ClusterWaehlen(k, c),
                 Unterwegs' = Unterwegs \cup {Post("felder", c, 0)}
          PROVE  AnfragenStimmen'
      <3>1. /\ UNCHANGED <<anfragen, firmen>>
            /\ select_feld' = zeilen[Erste(zeilen[k].id)].nr
        BY <2>5 DEF ClusterWaehlen, partner
      <3>2. Erste(zeilen[k].id) \in DOMAIN zeilen
        BY <2>5, WaehlenFragt DEF MitId
      <3>3. select_feld' \in 1 .. MaxZeilen
        BY <1>t, <3>1, <3>2, ZeilenTyp
      <3> QED
        BY <2>1, <2>2, <2>5, <3>1, <3>3, PostFelder DEF AnfragenStimmen
    <2>6. ASSUME NEW fs \in SUBSET Firma, UpdateAnsprechpartner(fs),
                 \A p \in Unterwegs' : \/ p \in Unterwegs
                                       \/ /\ p.art \in {"mitarbeiter", "anfragen"}
                                          /\ p.wert \in fs
          PROVE  AnfragenStimmen'
      <3>1. firmen' = fs /\ anfragen' = Leer /\ select_feld' = 0
        BY <2>6 DEF UpdateAnsprechpartner
      <3>2. Leer.cluster = Keins /\ Leer.anfragen = {}
        BY DEF Leer
      <3> QED
        BY <2>1, <2>6, <3>1, <3>2 DEF AnfragenStimmen
    <2>7. ASSUME NEW P \in SUBSET Person, FmaFertig(P),
                 \A p \in Unterwegs' : p \in Unterwegs \/ p.art = "person"
          PROVE  AnfragenStimmen'
      BY <2>1, <2>2, <2>7 DEF FmaFertig, partner, AnfragenStimmen
    <2> QED
      BY <1>1, <2>3, <2>4, <2>5, <2>6, <2>7, BenutzerFragt
  <1>2. CASE Rueckruf
    <2>1. geordnet
      BY <1>2 DEF Rueckruf, ClusterErhalten, FelderErhalten, AnfragenErhalten,
                  MitarbeiterErhalten, PersonErhalten, Rufe
    <2>2. /\ anfragen.cluster = Keins /\ anfragen.anfragen \subseteq firmen
          /\ anfragen \in Optionen
          /\ \A p \in Unterwegs : /\ p.art = "felder" => select_feld \in 1 .. MaxZeilen
                                  /\ p.art = "anfragen" => select_feld = 0 /\ p.wert \in firmen
      BY <1>t, <2>1 DEF AnfragenStimmen, TypeOK
    <2>3. CASE /\ ClusterErhalten
               /\ Unterwegs' \subseteq {Post("felder", ErstesCluster, 0)}
      <3>1. UNCHANGED <<anfragen, firmen>>
        BY <2>3 DEF ClusterErhalten, partner
      <3>2. ASSUME Unterwegs' # {} PROVE select_feld' \in 1 .. MaxZeilen
        <4>1. CASE MitId(RowsLength(zeilen)) # {}
          <5>1. Erste(RowsLength(zeilen)) \in DOMAIN zeilen
            BY <1>t, <4>1, ErsteIstDa DEF MitId
          <5>2. select_feld' = zeilen[Erste(RowsLength(zeilen))].nr
            BY <2>3, <4>1 DEF ClusterErhalten
          <5> QED
            BY <1>t, <5>1, <5>2, ZeilenTyp
        <4>2. CASE MitId(RowsLength(zeilen)) = {}
          <5>1. Unterwegs' \subseteq Unterwegs
            <6>1. /\ Rufe(Post("cluster", Keins, 0)) /\ Erledigt(Post("cluster", Keins, 0))
              BY <2>3, <4>2 DEF ClusterErhalten
            <6> QED
              BY <1>t, <6>1, Beantwortet
          <5>2. Post("felder", ErstesCluster, 0) \in Unterwegs
            BY <2>3, <3>2, <5>1
          <5>3. UNCHANGED select_feld
            BY <2>3, <4>2 DEF ClusterErhalten
          <5> QED
            BY <2>2, <5>2, <5>3, PostFelder
        <4> QED
          BY <4>1, <4>2
      <3> QED
        BY <2>2, <2>3, <3>1, <3>2, PostFelder DEF AnfragenStimmen
    <2>4. ASSUME NEW c \in Cluster, FelderErhalten(c), Post("felder", c, 0) \in Unterwegs,
                 Unterwegs' \subseteq Unterwegs
          PROVE  AnfragenStimmen'
      <3>1. select_feld # 0
        BY <2>2, <2>4, PostFelder
      <3>2. UNCHANGED <<anfragen, firmen, select_feld>>
        BY <2>4, <3>1 DEF FelderErhalten, Fuellen, partner
      <3> QED
        BY <2>2, <2>4, <3>2 DEF AnfragenStimmen
    <2>5. ASSUME NEW f \in Firma, AnfragenErhalten(f), Post("anfragen", f, 0) \in Unterwegs,
                 Unterwegs' \subseteq Unterwegs
          PROVE  AnfragenStimmen'
      <3> DEFINE neu == [alt \in Optionen |->
                            [alt EXCEPT !.anfragen = Ueberschreiben(@, f, Anfragenzahl)]]
      <3>1. select_feld = 0 /\ f \in firmen
        BY <2>2, <2>5, PostFelder
      <3>2. UNCHANGED <<firmen, select_feld>> /\ anfragen' = neu[anfragen]
        BY <2>5, <3>1 DEF AnfragenErhalten, Fuellen, partner
      <3>3. anfragen' = [anfragen EXCEPT !.anfragen =
                            Ueberschreiben(anfragen.anfragen, f, Anfragenzahl)]
        BY <2>2, <3>2
      <3>4. /\ anfragen'.cluster = anfragen.cluster
            /\ anfragen'.anfragen = Ueberschreiben(anfragen.anfragen, f, Anfragenzahl)
        BY <2>2, <3>3 DEF Optionen
      <3>5. anfragen'.anfragen \subseteq firmen
        BY <2>2, <3>1, <3>4, UeberschreibenGrenzt
      <3> QED
        BY <2>2, <2>5, <3>2, <3>4, <3>5 DEF AnfragenStimmen
    <2>6. ASSUME \/ \E f \in Firma, ruf \in DOMAIN to_display : MitarbeiterErhalten(f, ruf)
                 \/ \E p \in Person : PersonErhalten(p),
                 Unterwegs' \subseteq Unterwegs
          PROVE  AnfragenStimmen'
      <3>1. UNCHANGED <<anfragen, firmen, select_feld>>
        BY <2>6 DEF MitarbeiterErhalten, PersonErhalten, partner
      <3> QED
        BY <2>2, <2>6, <3>1 DEF AnfragenStimmen
    <2> QED
      BY <1>2, <2>1, <2>3, <2>4, <2>5, <2>6, RueckrufFragt
  <1> QED
    BY <1>1, <1>2 DEF Next
-----------------------------------------------------------------------------
(* The rows of a user who waits and removes none.                          *)

\* Rows that are numbered have ids of their own.
LEMMA EigeneId ==
    ASSUME TypeOK, Nummeriert, NEW k \in DOMAIN zeilen
    PROVE  MitId(zeilen[k].id) = {k} /\ Erste(zeilen[k].id) = k
  <1>1. /\ DOMAIN zeilen = 1 .. Len(zeilen) /\ Len(zeilen) \in Nat
        /\ \A l \in DOMAIN zeilen : zeilen[l].id \in Int
    BY ZeilenTyp
  <1>2. \A l \in DOMAIN zeilen : zeilen[l].id = zeilen[k].id => l = k
    <2> SUFFICES ASSUME NEW l \in DOMAIN zeilen, zeilen[l].id = zeilen[k].id, l # k
                 PROVE  FALSE
      OBVIOUS
    <2>1. l < k \/ k < l
      BY <1>1
    <2> QED
      BY <1>1, <2>1 DEF Nummeriert
  <1>3. MitId(zeilen[k].id) = {k}
    BY <1>2 DEF MitId
  <1>4. Erste(zeilen[k].id) \in MitId(zeilen[k].id)
    BY <1>3, ErsteIstDa
  <1> QED
    BY <1>3, <1>4

\* Nothing on the way to a row: it shows its Felder.
LEMMA AllePassen ==
    ASSUME ZeilenStimmen, geordnet, ~entfernt,
           \A p \in Unterwegs : p.art \notin {"cluster", "felder"}
    PROVE  Nummeriert /\ \A k \in DOMAIN zeilen : Passt(zeilen[k])
  BY PostFelder DEF ZeilenStimmen, WirdNeu, WirdGefuellt

\* Numbers and ids are those of before.
LEMMA NummeriertBleibt ==
    ASSUME Nummeriert, DOMAIN zeilen' = DOMAIN zeilen,
           \A j \in DOMAIN zeilen : zeilen'[j].nr = zeilen[j].nr /\ zeilen'[j].id = zeilen[j].id
    PROVE  Nummeriert'
  BY DEF Nummeriert

LEMMA ZeilenBenutzer ==
    ASSUME FormularInv, ZeilenStimmen, Benutzer, geordnet', ~entfernt'
    PROVE  ZeilenStimmen'
  <1>t. TypeOK /\ ZeilenOK
    BY DEF FormularInv
  <1>1. Unterwegs = {} /\ geordnet
    BY BenutzerFragt
  <1>2. ~entfernt
    BY DEF Benutzer, ZeileHinzu, ZeileWeg, ClusterWaehlen, FirmaHinzu, FirmaWeg,
           FmaFertig, taetigkeiten
  <1>3. Nummeriert /\ \A k \in DOMAIN zeilen : Passt(zeilen[k])
    BY <1>1, <1>2, AllePassen
  <1>4. Len(zeilen) = gemacht /\ Len(zeilen) \in Nat /\ DOMAIN zeilen = 1 .. Len(zeilen)
    BY <1>t, <1>2, ZeilenTyp DEF ZeilenOK
  <1>5. ASSUME ZeileHinzu, offen' = offen (+) SetToBag({Post("cluster", Keins, 0)})
        PROVE  ZeilenStimmen'
    <2>n. PICK n \in Nat : n = Len(zeilen)
      BY <1>4
    <2>1. Unterwegs' = {Post("cluster", Keins, 0)}
      BY <1>t, <1>1, <1>5, Gefragt
    <2>2. /\ Len(zeilen') = n + 1 /\ DOMAIN zeilen' = 1 .. n + 1
          /\ \A k \in DOMAIN zeilen :
                 /\ zeilen'[k].nr = zeilen[k].nr
                 /\ zeilen'[k].id = zeilen[k].id
                 /\ zeilen'[k].cluster = zeilen[k].cluster
                 /\ zeilen'[k].felder = zeilen[k].felder
          /\ zeilen'[n + 1].nr = n + 1
          /\ zeilen'[n + 1].id = n + 2
      BY <1>4, <2>n, <1>5, HinzuZeilen
    <2>3. \A k \in DOMAIN zeilen : zeilen[k].nr = k /\ zeilen[k].id <= k + 1 /\ zeilen[k].id \in Nat
      BY <1>3, <1>t, ZeilenTyp DEF Nummeriert
    <2>4. Nummeriert'
      <3> SUFFICES ASSUME NEW k \in 1 .. n + 1
                   PROVE  /\ zeilen'[k].nr = k
                          /\ zeilen'[k].id <= k + 1
                          /\ \A l \in 1 .. n + 1 : l < k => zeilen'[l].id < zeilen'[k].id
        BY <2>2 DEF Nummeriert
      <3>1. CASE k \in 1 .. n
        <4>1. \A l \in 1 .. n + 1 : l < k => l \in DOMAIN zeilen
          BY <1>4, <2>n, <3>1
        <4>2. \A l \in DOMAIN zeilen : l < k => zeilen[l].id < zeilen[k].id
          BY <1>3, <1>4, <2>n, <3>1 DEF Nummeriert
        <4>3. k \in DOMAIN zeilen
          BY <1>4, <2>n, <3>1
        <4> QED
          BY <2>2, <2>3, <4>1, <4>2, <4>3
      <3>2. CASE k = n + 1
        <4>1. \A l \in 1 .. n : zeilen'[l].id < n + 2
          BY <1>4, <2>n, <2>2, <2>3
        <4> QED
          BY <1>4, <2>n, <2>2, <3>2, <4>1
      <3> QED
        BY <1>4, <2>n, <3>1, <3>2
    <2>5. \A k \in 1 .. n : Passt(zeilen[k])'
      BY <1>3, <1>4, <2>n, <2>2 DEF Passt
    <2>6. WirdNeu(n + 1)'
      BY <2>1, <2>2 DEF WirdNeu, RowsLength
    <2>7. zeilen' # <<>> /\ WirdNeu(Len(zeilen))'
      <3>1. Len(zeilen') # 0
        BY <1>4, <2>n, <2>2
      <3> QED
        BY <2>2, <2>6, <3>1 DEF WirdNeu
    <2>8. \A k \in DOMAIN zeilen' : Passt(zeilen[k])' \/ WirdNeu(k)'
      BY <1>4, <2>n, <2>2, <2>5, <2>6
    <2> QED
      BY <2>1, <2>4, <2>7, <2>8, PostFelder DEF ZeilenStimmen
  <1>6. ASSUME NEW k \in DOMAIN zeilen, NEW c \in Cluster, ClusterWaehlen(k, c),
               Unterwegs' = Unterwegs \cup {Post("felder", c, 0)}
        PROVE  ZeilenStimmen'
    <2>1. /\ zeilen' = [zeilen EXCEPT ![k].cluster = c]
          /\ select_feld' = zeilen[Erste(zeilen[k].id)].nr
      BY <1>6 DEF ClusterWaehlen
    <2>2. select_feld' = k
      BY <1>t, <1>3, <2>1, EigeneId DEF Nummeriert
    <2>3. /\ Len(zeilen') = Len(zeilen) /\ DOMAIN zeilen' = DOMAIN zeilen
          /\ \A j \in DOMAIN zeilen :
                 /\ zeilen'[j].nr = zeilen[j].nr
                 /\ zeilen'[j].id = zeilen[j].id
                 /\ zeilen'[j].felder = zeilen[j].felder
                 /\ zeilen'[j].cluster = IF j = k THEN c ELSE zeilen[j].cluster
      BY <1>t, <2>1, WaehlenZeilen
    <2>4. Nummeriert'
      BY <1>3, <2>3, NummeriertBleibt
    <2>5. \A j \in DOMAIN zeilen' : j # k => Passt(zeilen[j])'
      BY <1>3, <2>3 DEF Passt
    <2>6. c # Keins
      BY FormularAssumption
    <2>7. WirdGefuellt(k)'
      BY <1>6, <2>2, <2>3, <2>6 DEF WirdGefuellt
    <2>8. \A p \in Unterwegs' : p = Post("felder", c, 0)
      BY <1>1, <1>6
    <2> QED
      BY <2>2, <2>3, <2>4, <2>5, <2>7, <2>8, PostFelder DEF ZeilenStimmen
  <1>7. ASSUME UNCHANGED zeilen,
               \A p \in Unterwegs' : p.art \in {"mitarbeiter", "anfragen", "person"},
               (\E p \in Unterwegs' : p.art = "anfragen") => select_feld' = 0
        PROVE  ZeilenStimmen'
    BY <1>3, <1>7 DEF ZeilenStimmen, Nummeriert, Passt
  <1>8. ASSUME NEW fs \in SUBSET Firma, UpdateAnsprechpartner(fs),
               UNCHANGED <<taetigkeiten, freie>>,
               \A p \in Unterwegs' : p \in Unterwegs \/ p.art \in {"mitarbeiter", "anfragen"}
        PROVE  ZeilenStimmen'
    <2>1. UNCHANGED zeilen /\ select_feld' = 0
      BY <1>8 DEF UpdateAnsprechpartner, taetigkeiten
    <2> QED
      BY <1>1, <1>7, <1>8, <2>1
  <1>9. ASSUME NEW P \in SUBSET Person, FmaFertig(P),
               \A p \in Unterwegs' : p \in Unterwegs \/ p.art = "person"
        PROVE  ZeilenStimmen'
    <2>1. UNCHANGED zeilen
      BY <1>9 DEF FmaFertig, taetigkeiten
    <2> QED
      BY <1>1, <1>7, <1>9, <2>1
  <1>10. ASSUME NEW k, ZeileWeg(k) PROVE FALSE
    BY <1>10 DEF ZeileWeg
  <1> QED
    BY <1>5, <1>6, <1>8, <1>9, <1>10, BenutzerFragt

LEMMA ZeilenRueckruf ==
    ASSUME FormularInv, EinAnlass, AnfragenStimmen, ZeilenStimmen, Rueckruf,
           geordnet', ~entfernt'
    PROVE  ZeilenStimmen'
  <1>t. TypeOK
    BY DEF FormularInv
  <1>1. geordnet /\ ~entfernt
    <2>1. geordnet' = geordnet /\ entfernt' = entfernt
      BY RueckrufFragt
    <2> QED
      BY <2>1, Zenon
  <1>2. /\ Nummeriert
        /\ \A k \in DOMAIN zeilen : Passt(zeilen[k]) \/ WirdNeu(k) \/ WirdGefuellt(k)
        /\ \A p \in Unterwegs :
               /\ p.art = "cluster" => zeilen # <<>> /\ WirdNeu(Len(zeilen))
               /\ p.art = "felder" => /\ select_feld \in DOMAIN zeilen
                                      /\ zeilen[select_feld].cluster = p.wert
               /\ p.art = "anfragen" => select_feld = 0
    BY <1>1 DEF ZeilenStimmen
  <1>3. /\ DOMAIN zeilen = 1 .. Len(zeilen) /\ Len(zeilen) \in Nat
        /\ \A k \in DOMAIN zeilen : zeilen[k].nr = k /\ zeilen[k].felder \in Optionen
    BY <1>t, <1>2, ZeilenTyp DEF Nummeriert
  <1>4. ASSUME ClusterErhalten, Unterwegs = {Post("cluster", Keins, 0)},
               Unterwegs' \subseteq {Post("felder", ErstesCluster, 0)}
        PROVE  ZeilenStimmen'
    <2>n. PICK n \in Nat : n = Len(zeilen)
      BY <1>3
    <2>1. zeilen # <<>> /\ zeilen[n].id = RowsLength(zeilen)
      BY <1>2, <1>4, <2>n, PostFelder DEF WirdNeu
    <2>2. n \in DOMAIN zeilen
      <3>1. Len(zeilen) # 0
        BY <1>t, <2>1, EmptySeq DEF TypeOK
      <3> QED
        BY <1>3, <2>n, <3>1
    <2>3. MitId(RowsLength(zeilen)) = {n} /\ Erste(RowsLength(zeilen)) = n
      BY <1>t, <1>2, <2>1, <2>2, EigeneId
    <2>4. /\ zeilen' = [zeilen EXCEPT ![n].cluster = ErstesCluster]
          /\ select_feld' = n
          /\ Post("felder", ErstesCluster, 0) \in Unterwegs'
      BY <1>t, <1>3, <1>4, <2>2, <2>3, ClusterFragt
    <2>5. /\ DOMAIN zeilen' = DOMAIN zeilen
          /\ \A j \in DOMAIN zeilen :
                 /\ zeilen'[j].nr = zeilen[j].nr
                 /\ zeilen'[j].id = zeilen[j].id
                 /\ zeilen'[j].felder = zeilen[j].felder
                 /\ zeilen'[j].cluster = IF j = n THEN ErstesCluster ELSE zeilen[j].cluster
      BY <1>t, <2>2, <2>4, WaehlenZeilen, FormularAssumption
    <2>6. Nummeriert'
      BY <1>2, <2>5, NummeriertBleibt
    <2>7. \A j \in DOMAIN zeilen : j # n => Passt(zeilen[j])
      BY <1>2, <1>4, <2>n, PostFelder DEF WirdNeu, WirdGefuellt
    <2>8. \A j \in DOMAIN zeilen' : j # n => Passt(zeilen[j])'
      BY <2>5, <2>7 DEF Passt
    <2>9. WirdGefuellt(n)'
      BY <2>2, <2>4, <2>5, FormularAssumption DEF WirdGefuellt
    <2>10. \A j \in DOMAIN zeilen' : Passt(zeilen[j])' \/ WirdNeu(j)' \/ WirdGefuellt(j)'
      BY <2>8, <2>9
    <2>11. \A p \in Unterwegs' : p.art = "felder" /\ p.wert = ErstesCluster
      BY <1>4, PostFelder
    <2>12. select_feld' \in DOMAIN zeilen' /\ zeilen'[select_feld'].cluster = ErstesCluster
      BY <2>2, <2>4, <2>5
    <2> QED
      BY <2>6, <2>10, <2>11, <2>12 DEF ZeilenStimmen
  <1>5. ASSUME NEW c \in Cluster, FelderErhalten(c), Post("felder", c, 0) \in Unterwegs,
               Unterwegs' \subseteq Unterwegs, \A p \in Unterwegs : p.art # "cluster"
        PROVE  ZeilenStimmen'
    <2> DEFINE neu == [alt \in Optionen |-> FelderVon(c)]
    <2>1. Fuellen(select_feld, neu) /\ select_feld' = select_feld
      BY <1>5 DEF FelderErhalten
    <2>2. select_feld \in DOMAIN zeilen /\ zeilen[select_feld].cluster = c
      BY <1>2, <1>5, PostFelder
    <2>3. /\ DOMAIN zeilen' = DOMAIN zeilen
          /\ \A j \in DOMAIN zeilen :
                 /\ zeilen'[j].nr = zeilen[j].nr
                 /\ zeilen'[j].id = zeilen[j].id
                 /\ zeilen'[j].cluster = zeilen[j].cluster
                 /\ zeilen'[j].felder = IF j = select_feld THEN FelderVon(c)
                                        ELSE zeilen[j].felder
      <3>1. neu \in [Optionen -> Optionen] /\ \A o \in Optionen : neu[o] = FelderVon(c)
        BY OptionenTyp
      <3> HIDE DEF neu
      <3> QED
        BY <1>t, <1>3, <2>1, <3>1, FuellenZeilen
    <2>4. Nummeriert'
      BY <1>2, <2>3, NummeriertBleibt
    <2>5. c # Keins
      BY FormularAssumption
    <2>6. \A j \in DOMAIN zeilen : j # select_feld => Passt(zeilen[j])
      BY <1>2, <1>5, PostFelder DEF WirdNeu, WirdGefuellt
    <2>7. \A j \in DOMAIN zeilen' : Passt(zeilen[j])'
      BY <2>2, <2>3, <2>5, <2>6 DEF Passt
    <2>8. \A p \in Unterwegs' : p.art = "anfragen" => select_feld' = 0
      BY <1>2, <1>5, <2>1
    <2>9. \A p \in Unterwegs' : p.art = "felder" =>
              select_feld' \in DOMAIN zeilen' /\ zeilen'[select_feld'].cluster = p.wert
      BY <1>2, <1>5, <2>1, <2>2, <2>3
    <2> QED
      BY <1>5, <2>4, <2>7, <2>8, <2>9 DEF ZeilenStimmen
  <1>6. ASSUME NEW f \in Firma, AnfragenErhalten(f), Post("anfragen", f, 0) \in Unterwegs,
               Unterwegs' \subseteq Unterwegs, \A p \in Unterwegs : p.art # "cluster"
        PROVE  ZeilenStimmen'
    <2> DEFINE neu == [alt \in Optionen |->
                          [alt EXCEPT !.anfragen = Ueberschreiben(@, f, Anfragenzahl)]]
    <2>1. Fuellen(select_feld, neu) /\ select_feld' = select_feld
      BY <1>6 DEF AnfragenErhalten
    <2>2. select_feld = 0
      BY <1>2, <1>6, PostFelder
    <2>3. /\ DOMAIN zeilen' = DOMAIN zeilen
          /\ \A j \in DOMAIN zeilen :
                 /\ zeilen'[j].nr = zeilen[j].nr
                 /\ zeilen'[j].id = zeilen[j].id
                 /\ zeilen'[j].cluster = zeilen[j].cluster
                 /\ zeilen'[j].felder = zeilen[j].felder
      <3>1. neu \in [Optionen -> Optionen]
        BY OptionenTyp
      <3> HIDE DEF neu
      <3>2. \A j \in DOMAIN zeilen : zeilen[j].nr # select_feld
        BY <1>3, <2>2
      <3> QED
        BY <1>t, <2>1, <3>1, <3>2, FuellenZeilen
    <2>4. Nummeriert'
      BY <1>2, <2>3, NummeriertBleibt
    <2>5. \A j \in DOMAIN zeilen : Passt(zeilen[j])
      BY <1>2, <1>3, <1>6, <2>2, PostFelder DEF WirdNeu, WirdGefuellt
    <2>6. \A j \in DOMAIN zeilen' : Passt(zeilen[j])'
      BY <2>3, <2>5 DEF Passt
    <2>7. \A p \in Unterwegs' : p.art # "felder"
      BY <1>2, <1>3, <1>6, <2>2
    <2> QED
      BY <1>6, <2>1, <2>2, <2>4, <2>6, <2>7 DEF ZeilenStimmen
  <1>7. ASSUME \/ \E f \in Firma, ruf \in DOMAIN to_display :
                      /\ MitarbeiterErhalten(f, ruf)
                      /\ Post("mitarbeiter", f, ruf) \in Unterwegs
               \/ \E p \in Person : PersonErhalten(p) /\ Post("person", p, 0) \in Unterwegs,
               Unterwegs' \subseteq Unterwegs, \A p \in Unterwegs : p.art # "cluster"
        PROVE  ZeilenStimmen'
    <2>1. UNCHANGED <<zeilen, select_feld>>
      BY <1>7 DEF MitarbeiterErhalten, PersonErhalten
    <2>2. \E p \in Unterwegs : p.art \in {"mitarbeiter", "person"}
      BY <1>7, PostFelder
    <2>3. \A p \in Unterwegs : p.art \in {"mitarbeiter", "anfragen", "person"}
      <3>1. offen # SetToBag({Post("cluster", Keins, 0)})
        <4>1. DOMAIN SetToBag({Post("cluster", Keins, 0)}) = {Post("cluster", Keins, 0)}
          BY DEF SetToBag
        <4> QED
          BY <2>2, <4>1, PostFelder DEF Unterwegs, BagToSet
      <3> QED
        BY <2>2, <3>1 DEF EinAnlass
    <2>4. Nummeriert /\ \A k \in DOMAIN zeilen : Passt(zeilen[k])
      BY <1>1, <2>3, AllePassen
    <2>5. \A p \in Unterwegs' : p.art = "anfragen" => select_feld' = 0
      BY <1>2, <1>7, <2>1
    <2>6. \A p \in Unterwegs' : p.art \in {"mitarbeiter", "anfragen", "person"}
      BY <1>7, <2>3
    <2> QED
      BY <2>1, <2>4, <2>5, <2>6 DEF ZeilenStimmen, Nummeriert, Passt
  <1> QED
    BY <1>4, <1>5, <1>6, <1>7, RueckrufFragt
-----------------------------------------------------------------------------
(* What the form shows once the answers are in.                            *)

LEMMA BildAmAnfang == Init => BildInv
  <1> SUFFICES ASSUME Init PROVE BildInv
    OBVIOUS
  <1>1. FormularInv
    BY TypAmAnfang
  <1>2. PICK n \in 0 .. MaxVorhanden : \E felder \in [1 .. n -> Cluster] :
            zeilen = Tabelle(felder) /\ gemacht = n
    BY DEF Init
  <1>3. PICK felder \in [1 .. n -> Cluster] : zeilen = Tabelle(felder) /\ gemacht = n
    BY <1>2
  <1>4. /\ firmen \in SUBSET Firma
        /\ ansprechpartner = [ganz |-> firmen, rest |-> {}]
        /\ anfragen = [cluster |-> Keins, anfragen |-> {f \in firmen : Anfragenzahl[f] > 0}]
        /\ fma = [p \in Person |-> 0] /\ auswahl = {} /\ offen = EmptyBag
    BY DEF Init
  <1>5. Unterwegs = {} /\ \A p : Kopien(p, offen) = 0
    BY <1>4, BeutelLeer DEF Unterwegs
  <1>6. EinAnlass
    BY <1>5 DEF EinAnlass
  <1>7. AngebotStimmt
    BY <1>4, <1>5 DEF AngebotStimmt
  <1>8. AuswahlStimmt
    <2>1. \A p \in Person : Anzahl(p) = 0
      BY <1>4, <1>5 DEF Anzahl
    <2> QED
      BY <1>4, <2>1 DEF AuswahlStimmt
  <1>9. AnfragenStimmen
    BY <1>4, <1>5 DEF AnfragenStimmen
  <1>10. ZeilenStimmen
    <2>1. DOMAIN zeilen = 1 .. n
      BY <1>3 DEF Tabelle
    <2>2. \A k \in 1 .. n : /\ zeilen[k].nr = k /\ zeilen[k].id = k
                            /\ zeilen[k].cluster = felder[k]
                            /\ zeilen[k].felder = FelderVon(felder[k])
      BY <1>3 DEF Tabelle
    <2>3. \A k \in 1 .. n : felder[k] # Keins
      BY FormularAssumption
    <2>4. Nummeriert
      BY <2>1, <2>2 DEF Nummeriert
    <2>5. \A k \in DOMAIN zeilen : Passt(zeilen[k])
      BY <2>1, <2>2, <2>3 DEF Passt
    <2> QED
      BY <1>5, <2>4, <2>5 DEF ZeilenStimmen
  <1> QED
    BY <1>1, <1>6, <1>7, <1>8, <1>9, <1>10 DEF BildInv

\* A step has to do with the employees, with the free-lance members, or with
\* neither, and so have the requests that come or go.
LEMMA SchrittArten ==
    ASSUME FormularInv, Next
    PROVE  /\ geordnet' => geordnet
           /\ \/ UNCHANGED <<partner, freie>> /\ Nur({"cluster", "felder", "anfragen"})
              \/ /\ UNCHANGED freie /\ Nur({"mitarbeiter", "anfragen"})
                 /\ \/ \E fs \in SUBSET Firma : Klick /\ UpdateAnsprechpartner(fs)
                    \/ \E f \in Firma, ruf \in DOMAIN to_display : MitarbeiterErhalten(f, ruf)
              \/ /\ UNCHANGED partner /\ Nur({"person"})
                 /\ \/ \E P \in SUBSET Person : FmaFertig(P)
                    \/ \E p \in Person : PersonErhalten(p)
  <1>t. TypeOK
    BY DEF FormularInv
  <1>1. ASSUME NEW S, offen' = offen (+) SetToBag(S), NEW arten, \A p \in S : p.art \in arten
        PROVE  Nur(arten)
    <2>1. \A x : Kopien(x, offen') = Kopien(x, offen) + IF x \in S THEN 1 ELSE 0
      BY <1>t, <1>1, Gefragt
    <2>2. \A x : x.art \notin arten => x \notin S
      BY <1>1
    <2>3. \A x : Kopien(x, offen) \in Nat
      BY <1>t, UnterwegsZahl
    <2> QED
      BY <2>1, <2>2, <2>3 DEF Nur
  <1>2. ASSUME NEW p, Rufe(p), Erledigt(p), NEW arten, p.art \in arten
        PROVE  geordnet' = geordnet /\ Nur(arten)
    <2>1. /\ geordnet' = geordnet
          /\ \A x : Kopien(x, offen') = Kopien(x, offen) - IF x = p THEN 1 ELSE 0
      BY <1>t, <1>2, Beantwortet
    <2>2. \A x : x.art \notin arten => x # p
      BY <1>2
    <2>3. \A x : Kopien(x, offen) \in Nat
      BY <1>t, UnterwegsZahl
    <2> QED
      BY <2>1, <2>2, <2>3 DEF Nur
  <1>3. CASE ZeileHinzu
    <2>1. /\ Klick /\ UNCHANGED <<partner, freie>>
          /\ offen' = offen (+) SetToBag({Post("cluster", Keins, 0)})
      BY <1>3 DEF ZeileHinzu
    <2>2. Nur({"cluster", "felder", "anfragen"})
      BY <1>1, <2>1, PostFelder
    <2> QED
      BY <1>t, <2>1, <2>2, Geklickt
  <1>4. ASSUME NEW k, ZeileWeg(k)
        PROVE  /\ UNCHANGED <<partner, freie>> /\ Nur({"cluster", "felder", "anfragen"})
               /\ geordnet' => geordnet
    <2>1. Klick /\ UNCHANGED <<partner, freie>> /\ offen' = offen
      BY <1>4 DEF ZeileWeg
    <2> QED
      BY <1>t, <2>1, Geklickt DEF Nur
  <1>5. ASSUME NEW k, NEW c \in Cluster, ClusterWaehlen(k, c)
        PROVE  /\ UNCHANGED <<partner, freie>> /\ Nur({"cluster", "felder", "anfragen"})
               /\ geordnet' => geordnet
    <2>1. Klick /\ UNCHANGED <<partner, freie>>
      BY <1>5 DEF ClusterWaehlen
    <2>2. \A x : x # Post("felder", c, 0) => Kopien(x, offen') = Kopien(x, offen)
      BY <1>5, WaehlenFragt
    <2> QED
      BY <1>t, <2>1, <2>2, Geklickt, PostFelder DEF Nur
  <1>6. ASSUME NEW fs \in SUBSET Firma, Klick, UpdateAnsprechpartner(fs)
        PROVE  Nur({"mitarbeiter", "anfragen"}) /\ (geordnet' => geordnet)
    <2> DEFINE n == Len(to_display) + 1
               S == {Post("mitarbeiter", f, n) : f \in fs} \cup {Post("anfragen", f, 0) : f \in fs}
    <2>1. offen' = offen (+) SetToBag(S)
      BY <1>6 DEF UpdateAnsprechpartner
    <2>2. \A p \in S : p.art \in {"mitarbeiter", "anfragen"}
      BY PostFelder
    <2> HIDE DEF S
    <2> QED
      BY <1>1, <1>6, <1>t, <2>1, <2>2, Geklickt
  <1>7. CASE \E f \in Firma : FirmaHinzu(f) \/ FirmaWeg(f)
    <2>1. \A f \in Firma : firmen \cup {f} \in SUBSET Firma /\ firmen \ {f} \in SUBSET Firma
      BY <1>t DEF TypeOK
    <2>2. \E fs \in SUBSET Firma : Klick /\ UpdateAnsprechpartner(fs) /\ UNCHANGED freie
      BY <1>7, <2>1 DEF FirmaHinzu, FirmaWeg
    <2> QED
      BY <1>6, <2>2
  <1>8. ASSUME NEW P \in SUBSET Person, FmaFertig(P)
        PROVE  UNCHANGED partner /\ Nur({"person"}) /\ (geordnet' => geordnet)
    <2> DEFINE S == {Post("person", q, 0) : q \in P}
    <2>1. Klick /\ UNCHANGED partner /\ offen' = offen (+) SetToBag(S)
      BY <1>8 DEF FmaFertig
    <2>2. \A p \in S : p.art \in {"person"}
      BY PostFelder
    <2> HIDE DEF S
    <2> QED
      BY <1>1, <1>t, <2>1, <2>2, Geklickt
  <1>9. CASE ClusterErhalten
    <2>1. UNCHANGED <<partner, freie, geordnet>>
      BY <1>9 DEF ClusterErhalten, Rufe
    <2>2. \A x : /\ x # Post("cluster", Keins, 0)
                 /\ x # Post("felder", ErstesCluster, 0)
                 => Kopien(x, offen') = Kopien(x, offen)
      BY <1>t, <1>9, ClusterFragt
    <2> QED
      BY <2>1, <2>2, PostFelder DEF Nur
  <1>10. ASSUME NEW c \in Cluster, FelderErhalten(c)
         PROVE  /\ UNCHANGED <<partner, freie>> /\ Nur({"cluster", "felder", "anfragen"})
                /\ geordnet' = geordnet
    <2>1. /\ Rufe(Post("felder", c, 0)) /\ Erledigt(Post("felder", c, 0))
          /\ UNCHANGED <<partner, freie>>
      BY <1>10 DEF FelderErhalten
    <2> QED
      BY <1>2, <2>1, PostFelder
  <1>11. ASSUME NEW f \in Firma, AnfragenErhalten(f)
         PROVE  /\ UNCHANGED <<partner, freie>> /\ Nur({"cluster", "felder", "anfragen"})
                /\ geordnet' = geordnet
    <2>1. /\ Rufe(Post("anfragen", f, 0)) /\ Erledigt(Post("anfragen", f, 0))
          /\ UNCHANGED <<partner, freie>>
      BY <1>11 DEF AnfragenErhalten
    <2> QED
      BY <1>2, <2>1, PostFelder
  <1>12. ASSUME NEW f \in Firma, NEW ruf \in DOMAIN to_display, MitarbeiterErhalten(f, ruf)
         PROVE  UNCHANGED freie /\ Nur({"mitarbeiter", "anfragen"}) /\ geordnet' = geordnet
    <2>1. /\ Rufe(Post("mitarbeiter", f, ruf)) /\ Erledigt(Post("mitarbeiter", f, ruf))
          /\ UNCHANGED freie
      BY <1>12 DEF MitarbeiterErhalten
    <2> QED
      BY <1>2, <2>1, PostFelder
  <1>13. ASSUME NEW p \in Person, PersonErhalten(p)
         PROVE  UNCHANGED partner /\ Nur({"person"}) /\ geordnet' = geordnet
    <2>1. /\ Rufe(Post("person", p, 0)) /\ Erledigt(Post("person", p, 0)) /\ UNCHANGED partner
      BY <1>13 DEF PersonErhalten
    <2> QED
      BY <1>2, <2>1, PostFelder
  <1> QED
    BY <1>3, <1>4, <1>5, <1>7, <1>8, <1>9, <1>10, <1>11, <1>12, <1>13
       DEF Next, Benutzer, Rueckruf

LEMMA AngebotErhalten ==
    ASSUME FormularInv, FormularInv', AngebotStimmt, Next
    PROVE  AngebotStimmt'
  <1>t. TypeOK /\ TypeOK'
    BY DEF FormularInv
  <1>1. ASSUME UNCHANGED partner, Nur({"cluster", "felder", "anfragen"}) \/ Nur({"person"})
        PROVE  AngebotStimmt'
    <2>1. Nur({"cluster", "felder", "anfragen", "person"})
      BY <1>1 DEF Nur
    <2> QED
      BY <1>t, <1>1, <2>1, SchrittArten, AngebotBleibt
  <1>2. ASSUME NEW fs \in SUBSET Firma, Klick, UpdateAnsprechpartner(fs) PROVE AngebotStimmt'
    BY <1>t, <1>2, AngebotErneuert
  <1>3. ASSUME NEW f \in Firma, NEW ruf \in DOMAIN to_display, MitarbeiterErhalten(f, ruf)
        PROVE  AngebotStimmt'
    BY <1>t, <1>3, AngebotWaechst
  <1> QED
    BY <1>1, <1>2, <1>3, SchrittArten

LEMMA AuswahlErhalten ==
    ASSUME FormularInv, AuswahlStimmt, Next
    PROVE  AuswahlStimmt'
  <1>t. TypeOK
    BY DEF FormularInv
  <1>1. ASSUME UNCHANGED freie,
               Nur({"cluster", "felder", "anfragen"}) \/ Nur({"mitarbeiter", "anfragen"})
        PROVE  AuswahlStimmt'
    <2>1. Nur({"cluster", "felder", "anfragen", "mitarbeiter"})
      BY <1>1 DEF Nur
    <2> QED
      BY <1>1, <2>1, SchrittArten, AuswahlBleibt
  <1>2. ASSUME NEW P \in SUBSET Person, FmaFertig(P) PROVE AuswahlStimmt'
    BY <1>t, <1>2, AuswahlNeu
  <1>3. ASSUME NEW p \in Person, PersonErhalten(p) PROVE AuswahlStimmt'
    BY <1>t, <1>3, AuswahlKommt
  <1> QED
    BY <1>1, <1>2, <1>3, SchrittArten

LEMMA BildErhalten == BildInv /\ [Next]_vars => BildInv'
  <1>1. ASSUME BildInv, UNCHANGED vars PROVE BildInv'
    <2>1. /\ UNCHANGED <<zeilen, gemacht, select_feld, anfragen, firmen, ansprechpartner,
                         to_display, fma, auswahl, offen, klicks, geordnet, entfernt>>
          /\ BildInv
      BY <1>1 DEF vars
    <2>2. FormularInv'
      BY <1>1, TypErhalten DEF BildInv
    <2>3. (geordnet => EinAnlass)'
      BY <2>1 DEF BildInv, EinAnlass, Unterwegs
    <2>4. AngebotStimmt'
      BY <2>1 DEF BildInv, AngebotStimmt, Unterwegs
    <2>5. AuswahlStimmt'
      BY <2>1 DEF BildInv, AuswahlStimmt, Anzahl
    <2>6. AnfragenStimmen'
      BY <2>1 DEF BildInv, AnfragenStimmen, Unterwegs
    <2>7. ZeilenStimmen'
      BY <2>1 DEF BildInv, ZeilenStimmen, Unterwegs, Nummeriert, Passt, WirdNeu,
                  WirdGefuellt, RowsLength
    <2> QED
      BY <2>2, <2>3, <2>4, <2>5, <2>6, <2>7 DEF BildInv
  <1>2. ASSUME BildInv, Next PROVE BildInv'
    <2>1. FormularInv /\ FormularInv'
      BY <1>2, TypErhalten DEF BildInv
    <2>2. (geordnet => EinAnlass)'
      BY <1>2, <2>1, EinAnlassErhalten DEF BildInv
    <2>3. AngebotStimmt' /\ AuswahlStimmt'
      BY <1>2, <2>1, AngebotErhalten, AuswahlErhalten DEF BildInv
    <2>4. AnfragenStimmen'
      <3>1. CASE geordnet'
        BY <1>2, <2>1, <3>1, AnfragenBleiben DEF BildInv
      <3> QED
        BY <3>1 DEF AnfragenStimmen
    <2>5. ZeilenStimmen'
      <3>1. CASE geordnet' /\ ~entfernt' /\ Benutzer
        BY <1>2, <2>1, <3>1, ZeilenBenutzer DEF BildInv
      <3>2. CASE geordnet' /\ ~entfernt' /\ Rueckruf
        <4>1. geordnet
          BY <2>1, <1>2, <3>2, SchrittArten
        <4> QED
          BY <1>2, <2>1, <3>2, <4>1, ZeilenRueckruf DEF BildInv
      <3> QED
        BY <1>2, <3>1, <3>2 DEF ZeilenStimmen, Next
    <2> QED
      BY <2>1, <2>2, <2>3, <2>4, <2>5 DEF BildInv
  <1> QED
    BY <1>1, <1>2

LEMMA BildInvHaelt == Spec => []BildInv
  BY BildAmAnfang, BildErhalten, PTL DEF Spec

\* A user who waits for the answers and removes no row sees beside every
\* cluster its own Felder (projekte.js 294-307, 579-642): for any number of
\* rows and handlers, an answer still to come finds its row through the number
\* of rows and through select_feld, which nothing has changed in between.
THEOREM FelderGehoerenZumCluster == Spec => []FelderPassen
  <1>1. ASSUME BildInv PROVE FelderPassen
    <2>1. SUFFICES ASSUME Fertig, geordnet, ~entfernt
                   PROVE  \A k \in DOMAIN zeilen : Passt(zeilen[k])
      BY DEF FelderPassen, Passt
    <2>2. Unterwegs = {}
      BY <2>1, BeutelLeer DEF Fertig, Unterwegs
    <2> QED
      BY <1>1, <2>1, <2>2, AllePassen DEF BildInv
  <1> QED
    BY <1>1, BildInvHaelt, PTL

\* A user who waits is offered enquiries of the chosen companies only, and no
\* Felder among them (projekte.js 463-506): whatever was asked for since then
\* is answered, so that select_feld is 0 when the enquiries come.
THEOREM NurAnfragenDerFirmen == Spec => []AnfragenDerFirmen
  <1>1. BildInv => AnfragenDerFirmen
    BY DEF BildInv, AnfragenStimmen, AnfragenDerFirmen
  <1> QED
    BY <1>1, BildInvHaelt, PTL

\* However often companies are chosen and removed before the answers come, all
\* employees of the companies chosen last are offered (projekte.js 463-506):
\* the last call has asked for each, and no answer takes an option away.
THEOREM JederAngeboten == Spec => []AlleAngeboten
  <1>1. ASSUME BildInv PROVE AlleAngeboten
    <2>1. SUFFICES ASSUME Fertig PROVE Unterwegs = {}
      BY <1>1 DEF BildInv, AngebotStimmt, AlleAngeboten
    <2> QED
      BY <2>1, BeutelLeer DEF Fertig, Unterwegs
  <1> QED
    BY <1>1, BildInvHaelt, PTL

\* However often the dialog is used before the answers come, every person
\* chosen last is in the table (projekte.js 200-270), and for a user who waits
\* once: "Fertig" empties the table and asks once for each.
THEOREM AuswahlErscheint == Spec => []FreieMitarbeiter
  <1>1. ASSUME BildInv PROVE FreieMitarbeiter
    <2>1. SUFFICES ASSUME Fertig
                   PROVE  /\ \A p \in auswahl : fma[p] >= 1
                          /\ geordnet => fma = [p \in Person |-> IF p \in auswahl THEN 1 ELSE 0]
      BY DEF FreieMitarbeiter
    <2>2. fma \in [Person -> Nat] /\ auswahl \subseteq Person
      BY <1>1 DEF BildInv, FormularInv, TypeOK
    <2>3. \A p \in Person : Anzahl(p) = fma[p]
      BY <2>1, <2>2, BeutelLeer DEF Fertig, Anzahl
    <2>4. /\ \A p \in auswahl : fma[p] >= 1
          /\ geordnet => \A p \in Person : fma[p] = IF p \in auswahl THEN 1 ELSE 0
      BY <1>1, <2>2, <2>3 DEF BildInv, AuswahlStimmt
    <2> QED
      BY <2>2, <2>4
  <1> QED
    BY <1>1, BildInvHaelt, PTL
=============================================================================
