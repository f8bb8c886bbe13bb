---------------------------- MODULE MCSerialPort ----------------------------
(***************************************************************************)
(* Instances of SerialPort: newline settings and texts of the device.      *)
(***************************************************************************)
EXTENDS SerialPort

\* automatic, LF, CR LF
SomeNewlines == {<<>>, <<"LF">>, <<"CR", "LF">>}
SomeTexts    == {<<"x", "CR", "LF">>, <<"LF", "CR", "x">>}
=============================================================================
