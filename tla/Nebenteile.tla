----------------------------- MODULE Nebenteile ------------------------------
(***************************************************************************)
(* Three parts that share no state with each other or with anything else:  *)
(* the studies (StudiumController), the phone book (PhoneBookService) and  *)
(* the master data (AdresseController and those like it), each with        *)
(* variables of its own.                                                   *)
(***************************************************************************)
EXTENDS Naturals

CONSTANTS
    Mitglied, KeinePerson,        \* persons; null
    Tab, MaxStudien, MaxGetan,
    Job, Abruf, Luecke, MaxAenderungen, MaxStoerungen,
    Spalte, Wert, Weg, Gueltig(_),
    Blatt, MaxEingaben            \* pages of the master data

ASSUME NebenteileAssumption ==
    /\ KeinePerson \notin Mitglied
    /\ MaxStudien \in Nat \ {0}

VARIABLES
    studium, frisch, pid, tab, anfrage, getan, geoeffnet, nacheinander,
    person, datei, schreiber, aenderungen, stoerungen,
    zeile, seite, vorgang, eingaben

St == INSTANCE Studium WITH Person <- Mitglied, Keine <- KeinePerson,
          MaxKlicks <- MaxGetan, klicks <- getan
Tb == INSTANCE Telefonbuch WITH Person <- Mitglied
Sd == INSTANCE Stammdaten WITH Seite <- Blatt, anfrage <- vorgang, klicks <- eingaben,
          MaxKlicks <- MaxEingaben

studien == <<studium, frisch, pid, tab, anfrage, getan, geoeffnet, nacheinander>>
telefonbuch == <<person, datei, schreiber, aenderungen, stoerungen>>
stammdaten == <<zeile, seite, vorgang, eingaben>>

\* The study sent from a form opened for a person, with nothing else done in the
\* session until it is answered, is hers (StudiumController).
StudiumGehoertZuPerson == St!StudiumGehoertZuPerson

\* Request after request, nobody gets more studies than forms were opened for her.
EinStudiumJeFormular == St!EinStudiumJeFormular

\* A writer of the phone book that nobody came between leaves a whole list
\* (PhoneBookService).
StandDesLaufs == Tb!StandDesLaufs

\* A row of master data is one valid form in whole, the last one saved
\* (AdresseController).
LetzteSpeicherung == Sd!LetzteSpeicherung
==============================================================================
