---------------------------- MODULE MCFileObject ----------------------------
(***************************************************************************)
(* Instances of FileObject: the open modes and texts considered.           *)
(***************************************************************************)
EXTENDS FileObject

\* "r", "r+", "wx", "rwa", "wec"
SomeModes    == {<<"r">>, <<"r", "+">>, <<"w", "x">>, <<"r", "w", "a">>, <<"w", "e", "c">>}
AppendModes  == {<<"a">>, <<"a", "+">>, <<"w">>}
SomeTexts    == {<<"CR", "LF">>}
SomeNewlines == {<<>>, <<"CR", "LF">>}
=============================================================================
