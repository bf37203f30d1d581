---------------------------- MODULE MCNebenteile -----------------------------
(***************************************************************************)
(* Projektformular, Studium, Telefonbuch and Stammdaten share no state, so *)
(* it is enough to run each while the others stand still.                  *)
(***************************************************************************)
EXTENDS Projektformular, Nebenteile

CONSTANTS f1, f2

VARIABLE teil

\* One company has more employees, the other more enquiries.
MCMitarbeiterzahl == f1 :> 2 @@ f2 :> 1
MCAnfragenzahl == f1 :> 1 @@ f2 :> 2

\* Two columns of two values; one combination violates a constraint.
MCGueltig(inhalt) == inhalt # [spalte \in Spalte |-> 1]

formular == vars
alles == <<teil, formular, studien, telefonbuch, stammdaten>>

MCInit ==
    /\ teil \in {"Projektformular", "Studium", "Telefonbuch", "Stammdaten"}
    /\ Init /\ St!Init /\ Tb!Init /\ Sd!Init
    /\ teil # "Projektformular" => gemacht = 0 /\ firmen = {}
    /\ teil # "Studium" => studium = {}
    /\ teil # "Telefonbuch" => ~datei.da
    /\ teil # "Stammdaten" => zeile = [spalte \in Spalte |-> 0]

MCNext ==
    /\ UNCHANGED teil
    /\ \/ teil = "Projektformular" /\ Next /\ UNCHANGED <<studien, telefonbuch, stammdaten>>
       \/ teil = "Studium" /\ St!Next /\ UNCHANGED <<formular, telefonbuch, stammdaten>>
       \/ teil = "Telefonbuch" /\ Tb!Next /\ UNCHANGED <<formular, studien, stammdaten>>
       \/ teil = "Stammdaten" /\ Sd!Next /\ UNCHANGED <<formular, studien, telefonbuch>>

\* The fairness is that of the phone book; the others are checked for safety.
MCSpec == MCInit /\ [][MCNext]_alles /\ Tb!Fairness

WiederLesbar == teil = "Telefonbuch" => Tb!WiederLesbar
==============================================================================
