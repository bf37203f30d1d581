--------------------------- MODULE Projektformular ---------------------------
(***************************************************************************)
(* The form of a project in the browser (projekte.js, projekte/create.gsp, *)
(* projekte/edit.gsp): the rows of Taetigkeitsfelder, the companies with   *)
(* their employees and enquiries, the free-lance members of a new project. *)
(*                                                                         *)
(* Every change posts requests and goes on; their callbacks run in any     *)
(* order, among the next changes.  They find the elements they fill by     *)
(* what holds when they run: the number of rows, an element id, and the    *)
(* global variable select_feld.  The server only reads.                    *)
(***************************************************************************)
EXTENDS Naturals, Sequences, SequencesExt, Bags

CONSTANTS
    Cluster, ErstesCluster,   \* Taetigkeitscluster, and the first of the list
    Firma,
    Mitarbeiterzahl,          \* employees of a company
    Anfragenzahl,             \* enquiries of a company
    Person,
    Keins,                    \* null
    MaxZeilen,                \* bound: rows of Taetigkeitsfelder ever made
    MaxVorhanden,             \* bound: those the page comes with
    MaxKlicks                 \* bound: what the user does

ASSUME FormularAssumption ==
    /\ ErstesCluster \in Cluster
    /\ Mitarbeiterzahl \in [Firma -> Nat]
    /\ Anfragenzahl \in [Firma -> Nat]
    /\ Keins \notin Cluster \cup Firma \cup Person \cup Nat
    /\ MaxZeilen \in Nat
    /\ MaxVorhanden \in 0 .. MaxZeilen
    /\ MaxKlicks \in Nat

VARIABLES
    zeilen,       \* rows of tableTaetigkeitsfelder, top to bottom
    gemacht,      \* rows made so far
    select_feld,  \* the global variable: the select a callback fills
    anfragen,     \* options of the select of the project enquiry
    firmen,       \* companies of the project
    ansprechpartner,  \* companies whose employees are offered, wholly or in part
    to_display,   \* per call of updateAnsprechpartner: whose employees it holds
    fma,          \* how often a person stands in the table of free-lance members
    auswahl,      \* the persons chosen for that table
    offen,        \* requests whose callbacks have not run
    klicks,
    geordnet,     \* observation: the user has always waited for the answers
    entfernt      \* observation: a row of Taetigkeitsfelder was removed

vars == <<zeilen, gemacht, select_feld, anfragen, firmen, ansprechpartner, to_display,
          fma, auswahl, offen, klicks, geordnet, entfernt>>
taetigkeiten == <<zeilen, gemacht, entfernt>>
partner == <<firmen, ansprechpartner, to_display>>
freie == <<fma, auswahl>>

\* What a select offers: the Felder of one cluster, or none, and the enquiries
\* of companies that were written over them.
Optionen == [cluster : Cluster \cup {Keins}, anfragen : SUBSET Firma]
Leer == [cluster |-> Keins, anfragen |-> {}]
FelderVon(c) == [cluster |-> c, anfragen |-> {}]

\* A row: which one it is, the id attribute of its cluster select ("feld" and
\* the same number is that of the other), the cluster chosen, the Felder
\* offered, the change handlers bound.
Zeile == [nr : 1 .. MaxZeilen, id : 1 .. MaxZeilen + 1, cluster : Cluster \cup {Keins},
          felder : Optionen, handler : Nat]

Anfrage == [art : {"cluster", "felder", "mitarbeiter", "anfragen", "person"},
            wert : Cluster \cup Firma \cup Person \cup {Keins}, ruf : Nat]
Post(art, wert, ruf) == [art |-> art, wert |-> wert, ruf |-> ruf]

\* A list written from the top over others: the tails of longer ones stay.
Ueberschreiben(liste, f, laenge) ==
    IF laenge[f] = 0 THEN liste ELSE {f} \cup {g \in liste : laenge[g] > laenge[f]}

\* document.getElementById: the first row whose cluster select has the id.
MitId(i) == {k \in DOMAIN zeilen : zeilen[k].id = i}
Erste(i) == CHOOSE k \in MitId(i) : \A l \in MitId(i) : k <= l
Stelle(nr) == {k \in DOMAIN zeilen : zeilen[k].nr = nr}

\* table.rows.length, the heading included.
RowsLength(z) == Len(z) + 1

\* The rows of the page of edit, one per Taetigkeitsfeld, with ids from 1.
Tabelle(felder) ==
    [k \in DOMAIN felder |-> [nr |-> k, id |-> k, cluster |-> felder[k],
                              felder |-> FelderVon(felder[k]), handler |-> 1]]

\* The page of edit has rows, and the employees of the project's companies;
\* that of create has neither.
Init ==
    /\ \E n \in 0 .. MaxVorhanden : \E felder \in [1 .. n -> Cluster] :
           zeilen = Tabelle(felder) /\ gemacht = n
    /\ select_feld = Keins
    /\ firmen \in SUBSET Firma
    /\ ansprechpartner = [ganz |-> firmen, rest |-> {}]
    /\ anfragen = [cluster |-> Keins, anfragen |-> {f \in firmen : Anfragenzahl[f] > 0}]
    /\ to_display = <<>>
    /\ fma = [p \in Person |-> 0]
    /\ auswahl = {}
    /\ offen = EmptyBag
    /\ klicks = 0
    /\ geordnet = TRUE
    /\ entfernt = FALSE
-----------------------------------------------------------------------------
(* What the user does.                                                     *)

Klick ==
    /\ klicks < MaxKlicks
    /\ klicks' = klicks + 1
    /\ geordnet' = (geordnet /\ offen = EmptyBag)

\* projekteTaetigkeitsfelderHinzu (lines 532-642): a new row, a request for the
\* clusters, and one more change handler on every row there is.
ZeileHinzu ==
    /\ Klick
    /\ gemacht < MaxZeilen
    /\ gemacht' = gemacht + 1
    /\ LET neu == [nr |-> gemacht + 1, id |-> Len(zeilen) + 2, cluster |-> Keins,
                   felder |-> Leer, handler |-> 0]
           alle == Append(zeilen, neu)
       IN  zeilen' = [k \in DOMAIN alle |-> [alle[k] EXCEPT !.handler = @ + 1]]
    /\ offen' = offen (+) SetToBag({Post("cluster", Keins, 0)})
    /\ UNCHANGED <<select_feld, anfragen, partner, freie, entfernt>>

ZeileWeg(k) ==
    /\ Klick
    /\ k \in DOMAIN zeilen
    /\ zeilen' = RemoveAt(zeilen, k)
    /\ entfernt' = TRUE
    /\ UNCHANGED <<gemacht, select_feld, anfragen, partner, freie, offen>>

\* Fault: the id of a row is taken for the row.
ClusterWaehlen_Id(k, c) ==
    /\ Klick
    /\ k \in DOMAIN zeilen
    /\ zeilen[k].cluster \notin {Keins, c}
    /\ zeilen' = [zeilen EXCEPT ![k].cluster = c]
    /\ select_feld' = zeilen[k].id
    /\ offen' = offen (+) SetToBag({Post("felder", c, 0)})
    /\ UNCHANGED <<gemacht, anfragen, partner, freie, entfernt>>

\* The change handlers (lines 294-307, 611-640): each posts a request for
\* every select with this id in which a cluster is chosen.
ClusterWaehlen(k, c) ==
    /\ Klick
    /\ k \in DOMAIN zeilen
    /\ zeilen[k].cluster \notin {Keins, c}
    /\ zeilen' = [zeilen EXCEPT ![k].cluster = c]
    /\ select_feld' = zeilen[Erste(zeilen[k].id)].nr
    /\ LET gewaehlt == {l \in MitId(zeilen[k].id) : zeilen[l].cluster # Keins}
           anzahl == zeilen[k].handler * Cardinality(gewaehlt)
       IN  offen' = offen (+) [p \in {Post("felder", c, 0)} |-> anzahl]
    /\ UNCHANGED <<gemacht, anfragen, partner, freie, entfernt>>

\* Fault: the enquiries of companies that were removed stay.
UpdateAnsprechpartner_OhneLeeren(fs) ==
    LET ruf == Len(to_display) + 1
    IN  /\ firmen' = fs
        /\ ansprechpartner' = [ganz |-> {}, rest |-> {}]
        /\ to_display' = Append(to_display, {})
        /\ select_feld' = 0
        /\ offen' = offen (+) SetToBag({Post("mitarbeiter", f, ruf) : f \in fs}
                                       \cup {Post("anfragen", f, 0) : f \in fs})
        /\ UNCHANGED anfragen

\* updateAnsprechpartner (lines 463-506) for the companies fs: both selects
\* are emptied, and two requests are posted per company.
UpdateAnsprechpartner(fs) ==
    LET ruf == Len(to_display) + 1
    IN  /\ firmen' = fs
        /\ ansprechpartner' = [ganz |-> {}, rest |-> {}]
        /\ to_display' = Append(to_display, {})
        /\ select_feld' = 0
        /\ anfragen' = Leer
        /\ offen' = offen (+) SetToBag({Post("mitarbeiter", f, ruf) : f \in fs}
                                       \cup {Post("anfragen", f, 0) : f \in fs})

\* A company is chosen (lines 327-370), removed, or the button to refresh.
FirmaHinzu(f) ==
    Klick /\ UpdateAnsprechpartner(firmen \cup {f}) /\ UNCHANGED <<taetigkeiten, freie>>
FirmaWeg(f) ==
    Klick /\ UpdateAnsprechpartner(firmen \ {f}) /\ UNCHANGED <<taetigkeiten, freie>>

\* Fault: the table keeps its rows.
FmaFertig_OhneLeeren(p) ==
    /\ Klick
    /\ auswahl' = p
    /\ offen' = offen (+) SetToBag({Post("person", q, 0) : q \in p})
    /\ UNCHANGED <<taetigkeiten, select_feld, anfragen, partner, fma>>

\* "Fertig" in the dialog of create (lines 200-270): the table is emptied, and
\* one request posted per person.
FmaFertig(p) ==
    /\ Klick
    /\ auswahl' = p
    /\ fma' = [q \in Person |-> 0]
    /\ offen' = offen (+) SetToBag({Post("person", q, 0) : q \in p})
    /\ UNCHANGED <<taetigkeiten, select_feld, anfragen, partner>>
-----------------------------------------------------------------------------
(* The callbacks.                                                          *)

Rufe(p) == /\ BagIn(p, offen)
           /\ UNCHANGED <<klicks, geordnet, gemacht, entfernt>>
Erledigt(p) == offen' = offen (-) SetToBag({p})

\* Select s (0: that of the enquiry; a row that was removed is no longer seen)
\* gets the options neu[alte].
Fuellen(s, neu) ==
    /\ anfragen' = IF s = 0 THEN neu[anfragen] ELSE anfragen
    /\ zeilen' = [k \in DOMAIN zeilen |->
                     IF zeilen[k].nr = s THEN [zeilen[k] EXCEPT !.felder = neu[@]]
                     ELSE zeilen[k]]

\* Fault: the Felder go to whatever select was filled last.
ClusterErhalten_AltesFeld ==
    LET p == Post("cluster", Keins, 0)
        i == RowsLength(zeilen)
    IN  /\ Rufe(p)
        /\ IF MitId(i) = {}
           THEN /\ Erledigt(p)
                /\ UNCHANGED zeilen
           ELSE /\ zeilen' = [zeilen EXCEPT ![Erste(i)].cluster = ErstesCluster]
                /\ offen' = (offen (-) SetToBag({p}))
                                (+) SetToBag({Post("felder", ErstesCluster, 0)})
        /\ UNCHANGED <<select_feld, anfragen, partner, freie>>

\* Lines 579-606: the clusters, for the row whose id is the number of rows.
\* If there is none the callback ends with an error.
ClusterErhalten ==
    LET p == Post("cluster", Keins, 0)
        i == RowsLength(zeilen)
    IN  /\ Rufe(p)
        /\ IF MitId(i) = {}
           THEN /\ Erledigt(p)
                /\ UNCHANGED <<zeilen, select_feld>>
           ELSE /\ zeilen' = [zeilen EXCEPT ![Erste(i)].cluster = ErstesCluster]
                /\ select_feld' = zeilen[Erste(i)].nr
                /\ offen' = (offen (-) SetToBag({p}))
                                (+) SetToBag({Post("felder", ErstesCluster, 0)})
        /\ UNCHANGED <<anfragen, partner, freie>>

\* Lines 300-305, 596-605 and 629-638: the Felder of a cluster.
FelderErhalten(c) ==
    /\ Rufe(Post("felder", c, 0))
    /\ Erledigt(Post("felder", c, 0))
    /\ Fuellen(select_feld, [alt \in Optionen |-> FelderVon(c)])
    /\ UNCHANGED <<select_feld, partner, freie>>

\* Lines 494-500: the enquiries of a company, from the second option on.
AnfragenErhalten(f) ==
    /\ Rufe(Post("anfragen", f, 0))
    /\ Erledigt(Post("anfragen", f, 0))
    /\ Fuellen(select_feld, [alt \in Optionen |->
           [alt EXCEPT !.anfragen = Ueberschreiben(@, f, Anfragenzahl)]])
    /\ UNCHANGED <<select_feld, partner, freie>>

\* Fault: the employees of a company replace those offered.
MitarbeiterErhalten_Ersetzend(f, ruf) ==
    /\ Rufe(Post("mitarbeiter", f, ruf))
    /\ Erledigt(Post("mitarbeiter", f, ruf))
    /\ to_display' = [to_display EXCEPT ![ruf] = Ueberschreiben(@, f, Mitarbeiterzahl)]
    /\ ansprechpartner' = [ganz |-> {f}, rest |-> to_display'[ruf] \ {f}]
    /\ UNCHANGED <<zeilen, select_feld, anfragen, firmen, freie>>

\* Lines 483-493: the employees of a company go over those in to_display, and
\* all of them to the end of the select.
MitarbeiterErhalten(f, ruf) ==
    /\ Rufe(Post("mitarbeiter", f, ruf))
    /\ Erledigt(Post("mitarbeiter", f, ruf))
    /\ to_display' = [to_display EXCEPT ![ruf] = Ueberschreiben(@, f, Mitarbeiterzahl)]
    /\ ansprechpartner' = [ganz |-> ansprechpartner.ganz \cup {f},
                           rest |-> ansprechpartner.rest \cup (to_display'[ruf] \ {f})]
    /\ UNCHANGED <<zeilen, select_feld, anfragen, firmen, freie>>

\* Lines 215-265: a person of the selection.
PersonErhalten(p) ==
    /\ Rufe(Post("person", p, 0))
    /\ Erledigt(Post("person", p, 0))
    /\ fma' = [fma EXCEPT ![p] = @ + 1]
    /\ UNCHANGED <<zeilen, select_feld, anfragen, partner, auswahl>>

Benutzer ==
    \/ ZeileHinzu
    \/ \E k \in DOMAIN zeilen : ZeileWeg(k) \/ \E c \in Cluster : ClusterWaehlen(k, c)
    \/ \E f \in Firma : FirmaHinzu(f) \/ FirmaWeg(f)
    \/ \E p \in SUBSET Person : FmaFertig(p)

Rueckruf ==
    \/ ClusterErhalten
    \/ \E c \in Cluster : FelderErhalten(c)
    \/ \E f \in Firma : AnfragenErhalten(f)
    \/ \E f \in Firma, ruf \in DOMAIN to_display : MitarbeiterErhalten(f, ruf)
    \/ \E p \in Person : PersonErhalten(p)

Next == Benutzer \/ Rueckruf

Spec == Init /\ [][Next]_vars
-----------------------------------------------------------------------------
(* Properties.                                                             *)

TypeOK ==
    /\ zeilen \in Seq(Zeile)
    /\ gemacht \in 0 .. MaxZeilen
    /\ select_feld \in {Keins} \cup (0 .. MaxZeilen)
    /\ anfragen \in Optionen
    /\ firmen \subseteq Firma
    /\ ansprechpartner \in [ganz : SUBSET Firma, rest : SUBSET Firma]
    /\ to_display \in Seq(SUBSET Firma)
    /\ fma \in [Person -> Nat]
    /\ auswahl \subseteq Person
    /\ IsABag(offen) /\ BagToSet(offen) \subseteq Anfrage
    /\ klicks \in 0 .. MaxKlicks
    /\ {geordnet, entfernt} \subseteq BOOLEAN

Fertig == offen = EmptyBag

\* A user who waits for the answers and removes no row is shown, beside every
\* cluster, its own Felder and nothing else, whatever else he changes and
\* however often handlers are bound twice.
FelderPassen ==
    (Fertig /\ geordnet /\ ~entfernt) =>
        \A k \in DOMAIN zeilen :
            /\ zeilen[k].cluster # Keins
            /\ zeilen[k].felder = FelderVon(zeilen[k].cluster)

\* A user who waits is offered enquiries of the chosen companies only, and no
\* Felder among them.
AnfragenDerFirmen ==
    (Fertig /\ geordnet) => /\ anfragen.cluster = Keins
                            /\ anfragen.anfragen \subseteq firmen

\* However changes and answers overlap, once the answers are in every employee
\* of every chosen company is offered as Ansprechpartner, and to a user who
\* waits nobody else.
AlleAngeboten ==
    Fertig => /\ firmen \subseteq ansprechpartner.ganz
              /\ geordnet => ansprechpartner.ganz \cup ansprechpartner.rest \subseteq firmen

\* However often the dialog is used, once the answers are in the table has
\* every person chosen last; for a user who waits, once each and nobody else.
FreieMitarbeiter ==
    Fertig => /\ \A p \in auswahl : fma[p] >= 1
              /\ geordnet => fma = [p \in Person |-> IF p \in auswahl THEN 1 ELSE 0]
=============================================================================
