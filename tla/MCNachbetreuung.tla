--------------------------- MODULE MCNachbetreuung ---------------------------
(* The day numbers of UnternehmensscoringJob, lines 15-45. *)
EXTENDS Nachbetreuung

MCMatrix ==
    [A |-> [b \in Bewertungen |->
              CASE b = "1" -> 3 [] b = "2" -> 14 [] b = "3" -> 120
                [] b = "4" -> 360 [] OTHER -> Null],
     B |-> [b \in Bewertungen |->
              CASE b = "1" -> 3 [] b = "2" -> 14 [] b = "3" -> 240
                [] b = "4" -> 720 [] OTHER -> Null],
     C |-> [b \in Bewertungen |->
              CASE b = "1" -> 3 [] b = "2" -> 14 [] b = "3" -> 360
                [] OTHER -> Null]]

\* Contacts of today or of last week, every rating and none, without a date
\* of their own, with one in the past and with one in the future.
MCKontaktarten ==
    [datum : {0, -7}, naechster : {Null, -2, -31, 5, 100},
     bewertung : Bewertungen \cup {Null}]

\* No project; a project that ended long ago, one that ended so that the
\* company turns from A to B within the horizon, one that has no end date.
MCProjektlagen ==
    {{}} \cup {{[anfang |-> -1000, ende |-> e]} : e \in {-800, -600, Null}}

==============================================================================
