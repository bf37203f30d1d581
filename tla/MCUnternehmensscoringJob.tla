----------------------- MODULE MCUnternehmensscoringJob -----------------------
(***************************************************************************)
(* Small instances of the job.  The day numbers are scaled down so that a  *)
(* whole reminder round fits into three days: due on day d, Ermahnung on   *)
(* day d, warning from d + 1 on, dropped from d + 2 on.                    *)
(***************************************************************************)
EXTENDS UnternehmensscoringJob

\* Short intervals in the order of the program's matrix; its null entries
\* are kept.
MCMatrix ==
    [A |-> [b \in Bewertungen |->
              CASE b = "1" -> 1 [] b = "2" -> 3 [] b = "4" -> 2 [] OTHER -> Null],
     B |-> [b \in Bewertungen |->
              CASE b = "1" -> 1 [] b = "2" -> 3 [] b = "4" -> 3 [] OTHER -> Null],
     C |-> [b \in Bewertungen |->
              CASE b = "1" -> 1 [] b = "2" -> 3 [] OTHER -> Null]]

\* A contact with a date of its own, which the matrix replaces once it is too
\* old; a rated one; a later unrated one.
MCEingaben ==
    {[datum |-> 0, naechster |-> 0, bewertung |-> "2"],
     [datum |-> 0, naechster |-> Null, bewertung |-> "1"],
     [datum |-> 1, naechster |-> Null, bewertung |-> Null]}

\* No project, and one that turns the company from an A to a B customer.
MCProjektlagen == {{}, {[anfang |-> 0, ende |-> 0]}}
MCKeineProjekte == {{}}
==============================================================================
