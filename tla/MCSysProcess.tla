--------------------------- MODULE MCSysProcess ---------------------------
(***************************************************************************)
(* Instances of SysProcess: the constructor flags each run considers.      *)
(***************************************************************************)
EXTENDS SysProcess

Flags(out, err, redirected, keepStdin) ==
  [ignore |-> [s \in Stream |-> ~(IF s = "out" THEN out ELSE err)],
   redirect |-> redirected, no_close |-> keepStdin]

\* stderr piped alone and stdin closed after the data, or stderr redirected into
\* stdout and stdin kept open
ProcessOptions == {Flags(FALSE, TRUE, FALSE, FALSE), Flags(TRUE, TRUE, TRUE, TRUE)}

\* no pipe but stdin
SignalOptions  == {Flags(FALSE, FALSE, FALSE, TRUE)}
=============================================================================
