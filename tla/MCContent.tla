------------------------------ MODULE MCContent ------------------------------
(***************************************************************************)
(* Languages and texts for the constants of Content.                       *)
(***************************************************************************)
EXTENDS Content

\* English, German, French and American English.
EN == <<"en">>
DE == <<"de">>
FR == <<"fr">>
US == <<"en", "us">>

MCLanguages == {EN, DE, FR, US}

\* None; two languages; a variant after and before its language.
MCPreferences == {<<>>, <<DE, EN>>, <<EN, US>>, <<US, DE>>}

MCLink == <<"l", "k">>
MCNotice == <<"n">>

=============================================================================
