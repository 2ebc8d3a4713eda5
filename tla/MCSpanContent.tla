---------------------------- MODULE MCSpanContent ----------------------------
(***************************************************************************)
(* An instance of SpanContent for TLC.                                     *)
(***************************************************************************)
EXTENDS SpanContent

EscapedTexts == {<<"quote">>, <<"high">>}
SomeParents == {<<>>, <<"n">>}
IniNames == {<<>>, php_app}
EnvNames == {<<>>, <<"high">>}
=============================================================================
