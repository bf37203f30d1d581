----------------------------- MODULE Telefonbuch -----------------------------
(***************************************************************************)
(* The phone book (PhoneBookService), a file that the scoring job writes   *)
(* at its end and ApiController serves.                                    *)
(*                                                                         *)
(* A writer collects the entries person by person, truncates the file and  *)
(* writes it block by block; nothing keeps writers and readers apart.  A   *)
(* request writes only if there is no file: one that is incomplete stays   *)
(* until the next run.                                                     *)
(***************************************************************************)
EXTENDS Naturals, Sequences, FiniteSets, SequencesExt

CONSTANTS
    Person,
    Job, Abruf,      \* who writes: the job, and requests to the API
    Luecke,          \* bytes never written
    MaxAenderungen,  \* bound: changes of persons
    MaxStoerungen    \* bound: stops of the server, failed writes, further runs

VARIABLES
    person,    \* the persons there are, and how often their numbers changed
    datei,     \* the file: none, or its blocks
    schreiber,
    aenderungen, stoerungen

vars == <<person, datei, schreiber, aenderungen, stoerungen>>

Stand == [da : BOOLEAN, nr : 0 .. MaxAenderungen]
Keine == [da |-> FALSE, inhalt |-> <<>>]

\* A list has an entry per person.  The file of a list has a block more than
\* entries; a block is known by the list it is part of.
Blockzahl(liste) == Cardinality(liste) + 1
Inhalt(liste) == [k \in 1 .. Blockzahl(liste) |-> liste]
Lesbar == datei.da /\ \E b \in ToSet(datei.inhalt) \ {Luecke} : datei.inhalt = Inhalt(b)

\* The persons still to be asked for, the list, the blocks written.  ab: the
\* persons when they were listed, each with the age of what the writer's session
\* holds of her; allein: no other has since written.
Ruhe == [pc |-> "frei", rest |-> {}, liste |-> {}, blocks |-> 0, ab |-> <<>>, allein |-> TRUE]

Init ==
    /\ person = [p \in Person |-> [da |-> TRUE, nr |-> 0]]
    /\ datei \in {Keine, [da |-> TRUE, inhalt |-> Inhalt({})]}
    /\ schreiber = [s \in Job \cup Abruf |-> Ruhe]
    /\ aenderungen = 0
    /\ stoerungen = 0
-----------------------------------------------------------------------------
\* A person's numbers change, or she is deleted.
PersonAendern(p, bleibt) ==
    /\ aenderungen < MaxAenderungen
    /\ aenderungen' = aenderungen + 1
    /\ person[p].da
    /\ person' = [person EXCEPT ![p] = [da |-> bleibt, nr |-> @.nr + 1]]
    /\ UNCHANGED <<datei, schreiber, stoerungen>>

Stoerung == stoerungen < MaxStoerungen /\ stoerungen' = stoerungen + 1

\* updatePhoneBook, line 14: Personen.list() finds whoever is there now; of the
\* persons its session has met before, it gives what that session has loaded.
Beginnen(s, geladen) ==
    /\ schreiber[s].pc = "frei"
    /\ \A p \in Person : geladen[p] <= person[p].nr
    /\ schreiber' = [schreiber EXCEPT ![s] =
           [Ruhe EXCEPT !.pc = "sammeln", !.rest = {p \in Person : person[p].da},
                        !.ab = [p \in Person |-> [da |-> person[p].da, nr |-> geladen[p]]]]]
    /\ UNCHANGED <<person, datei, aenderungen>>

\* The job comes to its end (UnternehmensscoringJob line 190), by the calendar,
\* when the runs of the day before are over, or started by hand.  Its session is
\* as old as the run.
LaufEndet == \E s \in Job, geladen \in [Person -> 0 .. MaxAenderungen] : Beginnen(s, geladen)
JobBeginnt ==
    /\ \A s \in Job : schreiber[s].pc = "frei"
    /\ LaufEndet
    /\ UNCHANGED stoerungen
VonHand == LaufEndet /\ Stoerung

\* getPhoneBookString, lines 42-51: the file is missing.  The session of a
\* request has met nobody before.
AbrufBeginnt ==
    /\ ~datei.da
    /\ \E s \in Abruf : Beginnen(s, [p \in Person |-> person[p].nr])
    /\ Stoerung

Weiter(s, r, geschrieben) ==
    /\ schreiber' = [t \in DOMAIN schreiber |->
           IF t = s THEN r
           ELSE IF schreiber[t].pc = "frei" THEN Ruhe
           ELSE [schreiber[t] EXCEPT !.allein = @ /\ ~geschrieben]]
    /\ UNCHANGED <<person, aenderungen, stoerungen>>

\* Lines 21-40: the numbers of a person, as the session has them or loads them
\* now.
Sammeln(s, p) ==
    LET r == schreiber[s]
    IN  /\ r.pc = "sammeln"
        /\ p \in r.rest
        /\ \E n \in r.ab[p].nr .. person[p].nr :
              Weiter(s, [r EXCEPT !.rest = @ \ {p}, !.liste = @ \cup {<<p, n>>}], FALSE)
        /\ UNCHANGED datei

\* Fault: the file is opened without being emptied.
Oeffnen_OhneKuerzen(s) ==
    LET r == schreiber[s]
    IN  /\ r.pc = "sammeln"
        /\ r.rest = {}
        /\ datei' = [datei EXCEPT !.da = TRUE]
        /\ Weiter(s, [r EXCEPT !.pc = "schreiben", !.allein = TRUE], TRUE)

\* Fault: a file that is there is taken for complete.
Oeffnen_WennFehlt(s) ==
    LET r == schreiber[s]
    IN  /\ r.pc = "sammeln"
        /\ r.rest = {}
        /\ datei' = [datei EXCEPT !.da = TRUE]
        /\ Weiter(s, IF datei.da THEN Ruhe
                     ELSE [r EXCEPT !.pc = "schreiben", !.allein = TRUE], TRUE)

\* Line 17, File.write: the file is emptied ...
Oeffnen(s) ==
    LET r == schreiber[s]
    IN  /\ r.pc = "sammeln"
        /\ r.rest = {}
        /\ datei' = [da |-> TRUE, inhalt |-> <<>>]
        /\ Weiter(s, [r EXCEPT !.pc = "schreiben", !.allein = TRUE], TRUE)

\* ... and written, each writer from where it is.
BlockSchreiben(s) ==
    LET r == schreiber[s]
        k == r.blocks + 1
        bisher == datei.inhalt
        laenge == IF Len(bisher) >= k THEN Len(bisher) ELSE k
    IN  /\ r.pc = "schreiben"
        /\ r.blocks < Blockzahl(r.liste)
        /\ datei' = [datei EXCEPT !.inhalt =
               [i \in 1 .. laenge |-> IF i = k THEN r.liste
                                      ELSE IF i <= Len(bisher) THEN bisher[i] ELSE Luecke]]
        /\ Weiter(s, [r EXCEPT !.blocks = k], TRUE)

Schliessen(s) ==
    /\ schreiber[s].pc = "schreiben"
    /\ schreiber[s].blocks = Blockzahl(schreiber[s].liste)
    /\ Weiter(s, Ruhe, FALSE)
    /\ UNCHANGED datei

\* The database or the file system throws, and this writer ends.
Scheitern(s) ==
    /\ Stoerung
    /\ schreiber[s].pc # "frei"
    /\ schreiber' = [schreiber EXCEPT ![s] = Ruhe]
    /\ UNCHANGED <<person, datei, aenderungen>>

Neustart ==
    /\ Stoerung
    /\ schreiber' = [s \in DOMAIN schreiber |-> Ruhe]
    /\ UNCHANGED <<person, datei, aenderungen>>

Schreibschritt(s) ==
    (\E p \in Person : Sammeln(s, p)) \/ Oeffnen(s) \/ BlockSchreiben(s) \/ Schliessen(s)

Next ==
    \/ \E p \in Person, bleibt \in BOOLEAN : PersonAendern(p, bleibt)
    \/ JobBeginnt \/ VonHand \/ AbrufBeginnt
    \/ \E s \in Job \cup Abruf : Schreibschritt(s) \/ Scheitern(s)
    \/ Neustart

\* The job comes to its end again and again, and whoever writes goes on.
Fairness == WF_vars(JobBeginnt) /\ \A s \in Job \cup Abruf : WF_vars(Schreibschritt(s))

Spec == Init /\ [][Next]_vars /\ Fairness
-----------------------------------------------------------------------------
\* A writer that nobody came between, from the moment it emptied the file to
\* its last block, leaves a file that can be read: with every person there was
\* when it began, and numbers that were hers at some time since its session met
\* her.
StandDesLaufs ==
    \A s \in Job \cup Abruf :
        LET r == schreiber[s]
        IN  (r.pc = "schreiben" /\ r.blocks = Blockzahl(r.liste) /\ r.allein) =>
               /\ datei.inhalt = Inhalt(r.liste)
               /\ \A p \in Person : r.ab[p].da =>
                     \E n \in r.ab[p].nr .. person[p].nr : <<p, n>> \in r.liste

\* However many writers came between each other, and wherever one was stopped,
\* the phone book can be read again in the end.
WiederLesbar == []<>Lesbar
=============================================================================
