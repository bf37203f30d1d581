--------------------------- MODULE Personenhistorie ---------------------------
(***************************************************************************)
(* The members' history (PersonenController, PersonHistory): who has which *)
(* status and which post, and since when.  A row of personhistory is open  *)
(* while its "bis" is empty; HistoryStart adds an open row, HistoryEnde    *)
(* ends open rows.                                                         *)
(*                                                                         *)
(* Requests run beside one another, each with a Hibernate session of its   *)
(* own: what it has read it keeps, what it changes it writes at a flush.   *)
(* One step of a request lies between two flushes or queries.  A query     *)
(* for history rows flushes first if the session has ended rows and not    *)
(* yet written them.                                                       *)
(***************************************************************************)
EXTENDS Naturals, Sequences, FiniteSets

CONSTANTS
    Person,
    Ressort,       \* posts 9 to 13, chosen in the form of a person
    Amt,           \* the posts assigned in the form "postenzuordnung"
    KeinRessort,   \* post 23
    Status,
    Ohne,          \* null: no person, no status
    Anfrage,       \* requests that may run at once
    MaxAnfragen,   \* bound: the requests of a behaviour
    Stoerung       \* whether saving may fail and the server may stop

ASSUME HistorieAssumption ==
    /\ KeinRessort \notin Ressort \cup Amt
    /\ Ressort \cap Amt = {}
    /\ Ohne \notin Person \cup Status \cup Ressort \cup Amt \cup {KeinRessort}
    /\ MaxAnfragen \in Nat
    /\ Stoerung \in BOOLEAN

VARIABLES
    status,    \* personstatus of each person, Ohne if the person does not exist
    inhaber,   \* table person_postenRessorts: pairs of person and post
    historie,  \* table personhistory
    sitzung,   \* the session of each request
    anfragen   \* how many requests there have been

vars == <<status, inhaber, historie, sitzung, anfragen>>
tabellen == <<status, inhaber, historie>>

Posten == Ressort \cup Amt
Zeile == [person : Person, posten : Posten \cup {KeinRessort},
          status : Status, offen : BOOLEAN]
Verknuepfung == Person \X Posten

Sitzung ==
    [pc : {"frei", "ressorts", "historie", "kontakt", "speichern", "posten", "inhaber"},
     person : Person \cup {Ohne},          \* update: personenInstance
     auswahl : SUBSET Ressort,             \* update: ausgewaehlteRessorts
     alt : Status \cup {Ohne},             \* update: personstatus as read
     neu : Status \cup {Ohne},             \* update: statusNeu
     plan : [Amt -> Person \cup {Ohne}],   \* postenzuordnungSave: the form
     rest : SUBSET Amt,                    \* ... and the posts still to come
     posten : Amt \cup {Ohne},             \* ... and the one at hand
     kopie : SUBSET Verknuepfung,          \* the collection as the session has it
     vorher : SUBSET Verknuepfung,         \* ... as it was read
     weg : SUBSET (Posten \cup Person),    \* still to be taken away
     dazu : SUBSET (Posten \cup {KeinRessort}), \* still to be added
     raus : SUBSET Verknuepfung,           \* not yet flushed: links removed,
     rein : SUBSET Verknuepfung,           \* ... links added,
     marken : SUBSET Nat,                  \* ... rows ended
     ungestoert : BOOLEAN]  \* observation: no other request has written since

Leer ==
    [pc |-> "frei", person |-> Ohne, auswahl |-> {}, alt |-> Ohne, neu |-> Ohne,
     plan |-> [po \in Amt |-> Ohne], rest |-> {}, posten |-> Ohne,
     kopie |-> {}, vorher |-> {}, weg |-> {}, dazu |-> {},
     raus |-> {}, rein |-> {}, marken |-> {}, ungestoert |-> TRUE]

Init ==
    /\ status = [p \in Person |-> Ohne]
    /\ inhaber = {}
    /\ historie = <<>>
    /\ sitzung = [a \in Anfrage |-> Leer]
    /\ anfragen = 0

---------------------------------------------------------------------------
(* The session.                                                            *)

\* The new session s of request a; the others notice that something was
\* written.
Weiter(a, s, geschrieben) ==
    sitzung' = [b \in Anfrage |->
                  IF b = a THEN s
                  ELSE IF sitzung[b].pc = "frei" THEN Leer
                  ELSE [sitzung[b] EXCEPT !.ungestoert = @ /\ ~geschrieben]]

Gespuelt(s) == [s EXCEPT !.raus = {}, !.rein = {}, !.marken = {}]

Verknuepft(s) == (inhaber \ s.raus) \cup s.rein

Beendet(s) ==
    [i \in DOMAIN historie |->
        [historie[i] EXCEPT !.offen = @ /\ i \notin s.marken]]

\* Fault: a row without a status is stored.
NeueZeile_AuchLeere(p, po, st) ==
    <<[person |-> p, posten |-> po, status |-> st, offen |-> TRUE]>>

\* personstatus and postenressort of a history row must not be null: the row
\* HistoryStart makes without a status fails validation, unnoticed.
NeueZeile(p, po, st) ==
    IF Ohne \in {po, st} THEN <<>>
    ELSE <<[person |-> p, posten |-> po, status |-> st, offen |-> TRUE]>>

\* A flush with session s, in which rows "neu" are inserted.
Spuelen(a, s, neu) ==
    /\ historie' = Beendet(s) \o neu
    /\ inhaber' = Verknuepft(s)
    /\ Weiter(a, Gespuelt(s), TRUE)

\* A link that is there already: the table's key, if it has one, makes the
\* flush fail after the rows of the history are written.
DoppeltVerknuepft(a, s, neu) ==
    /\ s.rein \cap inhaber # {}
    /\ historie' = Beendet(s) \o neu
    /\ UNCHANGED inhaber
    /\ Weiter(a, Leer, TRUE)

ZeilenFuerPosten(p, po) ==
    {i \in DOMAIN historie : historie[i].person = p /\ historie[i].posten = po}

ZeilenFuerStatus(p, st) ==
    {i \in DOMAIN historie : historie[i].person = p /\ historie[i].status = st}

\* Fault: nothing is ended.
HistoryEnde_Vergessen(a, s, zeilen) ==
    /\ zeilen = zeilen
    /\ Weiter(a, s, FALSE)
    /\ UNCHANGED <<inhaber, historie>>

\* HistoryEnde: of the rows found, the open ones get an end, in memory.
HistoryEnde(a, s, zeilen) ==
    LET offene == {i \in zeilen : historie[i].offen /\ i \notin s.marken}
    IN  IF s.marken = {}
        THEN /\ Weiter(a, [s EXCEPT !.marken = offene], FALSE)
             /\ UNCHANGED <<inhaber, historie>>
        ELSE /\ historie' = Beendet(s)
             /\ inhaber' = Verknuepft(s)
             /\ Weiter(a, [Gespuelt(s) EXCEPT !.marken = offene], TRUE)

---------------------------------------------------------------------------
(* save, as far as the history is concerned.                               *)

PersonAnlegen(p, st) ==
    /\ status[p] = Ohne
    /\ status' = [status EXCEPT ![p] = st]
    /\ historie' = historie \o NeueZeile(p, KeinRessort, st)
    /\ UNCHANGED <<inhaber, sitzung, anfragen>>

---------------------------------------------------------------------------
(* update                                                                  *)

PostenIn(verknuepfungen, p) == {po \in Posten : <<p, po>> \in verknuepfungen}

UpdateBeginnen(a, p, auswahl, neu) ==
    LET kopie == {v \in inhaber : v[1] = p}
        ressorts == PostenIn(kopie, p) \cap Ressort
    IN  /\ sitzung[a].pc = "frei"
        /\ status[p] # Ohne
        /\ anfragen < MaxAnfragen
        /\ anfragen' = anfragen + 1
        /\ Weiter(a, [Leer EXCEPT !.pc = "ressorts", !.person = p,
                                  !.auswahl = auswahl,
                                  !.alt = status[p], !.neu = neu,
                                  !.kopie = kopie, !.vorher = kopie,
                                  !.weg = ressorts \ auswahl,
                                  !.dazu = auswahl \ ressorts], FALSE)
        /\ UNCHANGED tabellen

RessortEntfernen(a) ==
    /\ sitzung[a].pc = "ressorts"
    /\ \E r \in sitzung[a].weg :
          LET p == sitzung[a].person
              s == [sitzung[a] EXCEPT !.weg = @ \ {r},
                                      !.kopie = @ \ {<<p, r>>},
                                      !.raus = @ \cup {<<p, r>>}]
          IN  HistoryEnde(a, s, ZeilenFuerPosten(p, r))
    /\ UNCHANGED <<status, anfragen>>

\* Fault: the history of a new Ressort is left to the change of status.
ZeileZumRessort_Fehlt(s, r) == SubSeq(NeueZeile(s.person, r, s.neu), 1, 0)

ZeileZumRessort(s, r) == NeueZeile(s.person, r, s.neu)

RessortHinzufuegen(a) ==
    /\ sitzung[a].pc = "ressorts"
    /\ sitzung[a].weg = {}
    /\ \E r \in sitzung[a].dazu :
          LET p == sitzung[a].person
              s == [sitzung[a] EXCEPT !.dazu = @ \ {r},
                                      !.kopie = @ \cup {<<p, r>>},
                                      !.rein = @ \cup {<<p, r>>}]
              neu == ZeileZumRessort(s, r)
          IN  Spuelen(a, s, neu) \/ DoppeltVerknuepft(a, s, neu)
    /\ UNCHANGED <<status, anfragen>>

\* Fault: rows with the new status are ended, not those with the old one.
ZeilenDesAltenStatus_Verwechselt(s) == ZeilenFuerStatus(s.person, s.neu)

ZeilenDesAltenStatus(s) == ZeilenFuerStatus(s.person, s.alt)

\* A new status is a new period for every post of the person.
StatusVergleichen(a) ==
    LET s == sitzung[a]
        posten == PostenIn(s.kopie, s.person)
    IN  /\ s.pc = "ressorts"
        /\ s.weg = {} /\ s.dazu = {}
        /\ \/ /\ s.alt = s.neu
              /\ Weiter(a, [s EXCEPT !.pc = "kontakt"], FALSE)
              /\ UNCHANGED <<inhaber, historie>>
           \/ /\ s.alt # s.neu
              /\ HistoryEnde(a, [s EXCEPT !.pc = "historie",
                                          !.dazu = IF posten = {} THEN {KeinRessort}
                                                   ELSE posten],
                             ZeilenDesAltenStatus(s))
        /\ UNCHANGED <<status, anfragen>>

HistorieFuerPosten(a) ==
    /\ sitzung[a].pc = "historie"
    /\ \E po \in sitzung[a].dazu :
          LET rest == sitzung[a].dazu \ {po}
              s == [sitzung[a] EXCEPT !.dazu = rest,
                                      !.pc = IF rest = {} THEN "kontakt" ELSE @]
          IN  Spuelen(a, s, NeueZeile(s.person, po, s.neu))
    /\ UNCHANGED <<status, anfragen>>

\* Mails and phones: new and deleted ones are flushed, changed ones are not.
KontaktdatenSpeichern(a) ==
    LET s == [sitzung[a] EXCEPT !.pc = "speichern"]
    IN  /\ sitzung[a].pc = "kontakt"
        /\ \/ Spuelen(a, s, <<>>)
           \/ Weiter(a, s, FALSE) /\ UNCHANGED <<inhaber, historie>>
        /\ UNCHANGED <<status, anfragen>>

\* A mail in the form that somebody has deleted meanwhile: Email.get gives
\* null, the exception ends the request and nothing more is flushed.
KontaktdatenScheitern(a) ==
    /\ Stoerung
    /\ sitzung[a].pc = "kontakt"
    /\ Weiter(a, Leer, FALSE)
    /\ UNCHANGED <<tabellen, anfragen>>

\* The row of the person is written if one of its columns has changed, and
\* then with the status of the form.
PersonSchreiben(a) ==
    LET s == sitzung[a]
    IN  status' \in {[status EXCEPT ![s.person] = s.neu]}
                    \cup (IF s.alt = s.neu THEN {status} ELSE {})

Speichern(a) ==
    /\ sitzung[a].pc = "speichern"
    /\ PersonSchreiben(a)
    /\ Spuelen(a, [Leer EXCEPT !.raus = sitzung[a].raus,
                               !.rein = sitzung[a].rein,
                               !.marken = sitzung[a].marken], <<>>)
    /\ UNCHANGED anfragen

\* save finds the person invalid and takes her out of the session's flushes,
\* or the form could not be bound and save is not even called: then the
\* flush at the end of the request may write what could be bound.
SpeichernScheitert(a) ==
    /\ Stoerung
    /\ sitzung[a].pc = "speichern"
    /\ \/ Weiter(a, Leer, FALSE) /\ UNCHANGED tabellen
       \/ /\ PersonSchreiben(a)
          /\ Spuelen(a, [Leer EXCEPT !.raus = sitzung[a].raus,
                                     !.rein = sitzung[a].rein,
                                     !.marken = sitzung[a].marken], <<>>)
    /\ UNCHANGED anfragen

---------------------------------------------------------------------------
(* postenzuordnungSave                                                     *)

ZuordnungBeginnen(a, plan) ==
    /\ sitzung[a].pc = "frei"
    /\ anfragen < MaxAnfragen
    /\ anfragen' = anfragen + 1
    /\ \A po \in Amt : plan[po] # Ohne => status[plan[po]] # Ohne
    /\ Weiter(a, [Leer EXCEPT !.pc = "posten", !.plan = plan, !.rest = Amt], FALSE)
    /\ UNCHANGED tabellen

\* Fault: whoever had the post keeps it.
Abzuloesen_Niemand(kopie, q) == {v[1] : v \in kopie} \cap {q}

Abzuloesen(kopie, q) == {v[1] : v \in kopie} \ {q}

PostenLesen(a) ==
    /\ sitzung[a].pc = "posten"
    /\ \E po \in sitzung[a].rest :
          LET kopie == {v \in inhaber : v[2] = po}
              s == [sitzung[a] EXCEPT !.pc = "inhaber", !.posten = po,
                                      !.rest = @ \ {po}, !.kopie = kopie,
                                      !.vorher = kopie,
                                      !.weg = Abzuloesen(kopie, sitzung[a].plan[po])]
          IN  Weiter(a, s, FALSE)
    /\ UNCHANGED <<tabellen, anfragen>>

Neuer(s) == s.plan[s.posten]

InhaberEntlassen(a) ==
    /\ sitzung[a].pc = "inhaber"
    /\ Neuer(sitzung[a]) # Ohne \/ Cardinality(sitzung[a].weg) = 1
    /\ \E q \in sitzung[a].weg :
          LET po == sitzung[a].posten
              s == [sitzung[a] EXCEPT !.weg = @ \ {q},
                                      !.kopie = @ \ {<<q, po>>},
                                      !.raus = @ \cup {<<q, po>>}]
          IN  HistoryEnde(a, s, ZeilenFuerPosten(q, po))
    /\ UNCHANGED <<status, anfragen>>

\* With nobody to follow, the loop removes from the very set it goes through:
\* from the second person on that is an exception.
EntlassenScheitert(a) ==
    /\ sitzung[a].pc = "inhaber"
    /\ Neuer(sitzung[a]) = Ohne
    /\ Cardinality(sitzung[a].weg) > 1
    /\ Weiter(a, Leer, FALSE)
    /\ UNCHANGED <<tabellen, anfragen>>

\* bleibeList gets a closure and not the person, so that the new person is
\* always added; whoever has the post already keeps the one link.
PostenBesetzen(a) ==
    LET s == sitzung[a]
        po == s.posten
        q == Neuer(s)
        rein == IF q = Ohne \/ <<q, po>> \in s.kopie THEN {} ELSE {<<q, po>>}
        danach == IF s.rest = {} THEN [Leer EXCEPT !.raus = s.raus, !.rein = rein,
                                                   !.marken = s.marken]
                  ELSE [s EXCEPT !.pc = "posten", !.posten = Ohne, !.rein = rein,
                                 !.kopie = {}, !.vorher = {}]
        neu == IF q = Ohne THEN <<>> ELSE NeueZeile(q, po, Ohne)
    IN  /\ s.pc = "inhaber"
        /\ s.weg = {}
        /\ Spuelen(a, danach, neu) \/ DoppeltVerknuepft(a, danach, neu)
        /\ UNCHANGED <<status, anfragen>>

---------------------------------------------------------------------------

\* The server stops: sessions are lost.
Neustart ==
    /\ Stoerung
    /\ \E a \in Anfrage : sitzung[a].pc # "frei"
    /\ sitzung' = [a \in Anfrage |-> Leer]
    /\ UNCHANGED <<tabellen, anfragen>>

Next ==
    \/ \E p \in Person, st \in Status : PersonAnlegen(p, st)
    \/ \E a \in Anfrage, p \in Person, auswahl \in SUBSET Ressort, neu \in Status :
          UpdateBeginnen(a, p, auswahl, neu)
    \/ \E a \in Anfrage, plan \in [Amt -> Person \cup {Ohne}] :
          ZuordnungBeginnen(a, plan)
    \/ \E a \in Anfrage :
          \/ RessortEntfernen(a)
          \/ RessortHinzufuegen(a)
          \/ StatusVergleichen(a)
          \/ HistorieFuerPosten(a)
          \/ KontaktdatenSpeichern(a)
          \/ KontaktdatenScheitern(a)
          \/ Speichern(a)
          \/ SpeichernScheitert(a)
          \/ PostenLesen(a)
          \/ InhaberEntlassen(a)
          \/ EntlassenScheitert(a)
          \/ PostenBesetzen(a)
    \/ Neustart

Spec == Init /\ [][Next]_vars

---------------------------------------------------------------------------
(* Properties                                                              *)

TypeOK ==
    /\ status \in [Person -> Status \cup {Ohne}]
    /\ inhaber \subseteq Verknuepfung
    /\ historie \in Seq(Zeile)
    /\ sitzung \in [Anfrage -> Sitzung]
    /\ anfragen \in 0..MaxAnfragen

Ruhe == \A a \in Anfrage : sitzung[a].pc = "frei"

OffeneZeilen == {historie[i] : i \in {j \in DOMAIN historie : historie[j].offen}}

\* Between requests, whoever has an open row for a post has the post
\* (removeFromPosten and HistoryEnde belong together, lines 324-327).
ZeileGehoertZumPosten ==
    Ruhe => \A z \in OffeneZeilen :
               z.posten # KeinRessort => <<z.person, z.posten>> \in inhaber

\* Between requests, open rows carry the person's present status: a change of
\* status ends every row with the old one (line 337).
OffeneZeilenHabenStatus ==
    Ruhe => \A z \in OffeneZeilen : z.status = status[z.person]

\* Between requests, whoever has a Ressort has an open row for it, whatever
\* mixture of ticks and changes of status led there.
RessortHatZeile ==
    Ruhe => \A v \in inhaber :
               v[2] \in Ressort =>
                  \E z \in OffeneZeilen : z.person = v[1] /\ z.posten = v[2]

\* The comment of lines 663-665: one person per post.
PostenNurEinePerson ==
    \A po \in Amt : Cardinality({p \in Person : <<p, po>> \in inhaber}) <= 1

\* What an update leaves of person p: status and Ressorts are those of the form,
\* other posts are as they were, no row is open for a Ressort taken away, and one
\* is for each Ressort added.  After a change of status no row with the old status
\* is open, and every post, or post 23 if there is none, has an open row with the
\* new one.
Uebernommen(a) ==
    LET s == sitzung[a]
        p == s.person
        hat(po) == \E z \in OffeneZeilen' :
                      z.person = p /\ z.posten = po /\ z.status = s.neu
    IN  /\ status'[p] = s.neu
        /\ PostenIn(inhaber', p) = (PostenIn(s.vorher, p) \cap Amt) \cup s.auswahl
        /\ \A z \in OffeneZeilen' :
              z.person = p /\ z.posten \in PostenIn(s.vorher, p) \ s.auswahl
                 => z.posten \in Amt
        /\ \A r \in s.auswahl \ PostenIn(s.vorher, p) : hat(r)
        /\ s.alt # s.neu =>
              /\ \A z \in OffeneZeilen' : z.person = p => z.status # s.alt
              /\ IF PostenIn(inhaber', p) = {} THEN hat(KeinRessort)
                 ELSE \A po \in PostenIn(inhaber', p) : hat(po)

\* An update that was saved and during which nobody else wrote does all that,
\* whatever was in the history before, be it the remains of a request that failed
\* or was overtaken (PersonenController update).
UpdateWirkt ==
    [][\A a \in Anfrage : Speichern(a) /\ sitzung[a].ungestoert => Uebernommen(a)]_vars
=============================================================================
