----------------------- MODULE MCUnternehmensbearbeitung -----------------------
EXTENDS Unternehmensbearbeitung, TLC

\* One kind that is flushed entry by entry, and one that is not.
ArtenKlein == <<"homepage">>
ArtenGross == <<"email", "homepage">>
EmailSofort == {"email", "telefon"}
Symmetrie == Permutations(Anfrage)
=============================================================================
