----------------------------- MODULE MCSysExec -----------------------------
(***************************************************************************)
(* Instances of SysExec: the calls and constructor flags each run          *)
(* considers.                                                              *)
(***************************************************************************)
EXTENDS SysExec

Flags(out, err, redirected) ==
  [ignore |-> [s \in Stream |-> ~(IF s = "out" THEN out ELSE err)],
   redirect |-> redirected, no_close |-> FALSE]

StdoutOnly    == {Flags(TRUE, FALSE, FALSE)}

ExecCall(quiet, callbacks, n) ==
  [fn |-> "exec", noexcept |-> quiet, cb |-> callbacks, timeout |-> 2, stdin |-> n,
   cat |-> FALSE, out |-> 1]

ShellCall  == [ExecCall(FALSE, {}, 0) EXCEPT !.fn = "shell"]
CatCall(n) == [ExecCall(FALSE, {}, n) EXCEPT !.cat = TRUE, !.timeout = 0, !.out = n]

(* With the pipes of the run, the input of cat fills both of them, the     *)
(* buffer of cat, and is not yet written to the end.                       *)
SomeCalls ==
  {ExecCall(TRUE, {"out"}, n) : n \in 0..1} \cup {ExecCall(FALSE, {}, n) : n \in 0..1}
    \cup {ShellCall, CatCall(4)}

OneCall == {[ExecCall(TRUE, {}, 0) EXCEPT !.out = 2]}
=============================================================================
