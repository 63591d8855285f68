----------------------- MODULE MC_PrepareTranslation -----------------------
(* TLC instance of PrepareTranslation: a zero and a non-zero value for the *)
(* numeric instructions, an empty and a non-empty fee.                     *)
EXTENDS PrepareTranslation, TLC

MCNumberValues == {0, 7}
MCStringValues == {"", "12"}

=============================================================================
