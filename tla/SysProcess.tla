---------------------------- MODULE SysProcess ----------------------------
(***************************************************************************)
(* The script class sys.process (duktape/mod/mod.sys.exec.hh): a           *)
(* child_process owned by a script object.  The script calls one property  *)
(* or method at a time, in any order, and the garbage collector finalizes  *)
(* the object between two calls.                                           *)
(***************************************************************************)
EXTENDS ChildProcess

CONSTANT Timeouts   \* values of the timeout option and of the timeout property

ASSUME TimeoutsAssumption == Timeouts \subseteq Int

(* new sys.process(): the arguments were imported, the constructor runs    *)
(* the program or throws.                                                  *)
Construct ==
  \E timeout \in Timeouts, n \in 0..MaxStdin : Run(timeout, n) \/ RunFails(timeout, n)

(* The running property and update(). *)
Update ==
  /\ BeginUpdate("update")
  /\ UNCHANGED <<objVars, ready, osVars, clock, histVars>>

(* read(): throws without a stdout pipe, else update(timeout) ... *)
Read ==
  /\ ~opts.ignore["out"]
  /\ BeginUpdate("read")
  /\ UNCHANGED <<objVars, ready, osVars, clock, histVars>>

(* ... and then the collected text is swapped out to the script. *)
Return ==
  /\ UpdateReturns
  /\ IF caller = "read"
     THEN /\ taken' = [taken EXCEPT !["out"] = @ + data["out"]]
          /\ data' = [data EXCEPT !["out"] = 0]
     ELSE UNCHANGED <<taken, data>>

(* write() and the stdin setter: ignored when running() is false, else the *)
(* text is queued and update(0) called.                                    *)
Write(n) ==
  /\ Running
  /\ owed + n <= MaxStdin
  /\ BeginUpdate("update")
  /\ stdin_data' = stdin_data + n
  /\ owed' = owed + n
  /\ UNCHANGED <<opts, timeout_ms, pid, ifd, fd, data, exit_code, was_timeout,
                 process_terminated, ready, osVars, clock, taken, mark, torn, stale,
                 sent>>

(* The stdout and stderr setters replace what was collected so far. *)
SetData(s) ==
  /\ pc = "idle"
  /\ taken' = [taken EXCEPT ![s] = @ + data[s]]
  /\ data' = [data EXCEPT ![s] = 0]
  /\ UNCHANGED <<opts, timeout_ms, pid, ifd, fd, stdin_data, exit_code, was_timeout,
                 process_terminated, ctlVars, osVars, clock, mark, torn, stale, sent, owed>>

(* The timeout setter throws for negative values. *)
SetTimeout(t) ==
  /\ pc = "idle"
  /\ t >= 0
  /\ timeout_ms' = t
  /\ UNCHANGED <<opts, pid, ifd, fd, stdin_data, data, exit_code, was_timeout,
                 process_terminated, ctlVars, osVars, clock, histVars>>

(* finalizer_proxy deletes the native object. *)
Finalize == pc = "idle" /\ Destroy

Script ==
  \/ Construct
  \/ Update \/ Read
  \/ \E n \in 1..MaxStdin : Write(n)
  \/ \E s \in Stream : SetData(s)
  \/ \E t \in Timeouts : SetTimeout(t)
  \/ \E b \in BOOLEAN : Kill(b)
  \/ Finalize

Next == Script \/ ObjectStep \/ Return \/ Environment

Init == CPInit

Spec == Init /\ [][Next]_cpVars
-----------------------------------------------------------------------------
(* Properties *)

(* Every variable keeps its type; counters of bytes never go negative. *)
TypeOK == CPTypeOK

(* Once running is false and the script did not tear the pipes down itself *)
(* with kill(), every byte the child wrote to a piped stream has reached   *)
(* the script: reaping the child (WaitPid) and the end of the poll loop    *)
(* (process_terminated_) are two update() calls apart so that the output   *)
(* written between the last poll and the exit is not dropped, also when a  *)
(* background process keeps the pipe open and no EOF ever arrives.         *)
NoOutputLost ==
  process_terminated /\ ~torn => \A s \in Stream : Got(s) >= mark[s]

(* proc_.pid refers to a child that can still be waited for whenever the   *)
(* script is in control, whatever calls came before.                       *)
PidIsOwnChild == pc = "idle" /\ pid > 0 => child \in {"alive", "zombie"}

(* A child that ended by exit() on its own is reported with its code, not  *)
(* with the -1 of kill() or the 0 of an ECHILD, however late it is reaped. *)
ExitCodeReported ==
  process_terminated /\ pc = "idle" /\ ~torn /\ child = "reaped" /\ ~status.sig
    => exit_code = status.code

(* Without kill() the child is only ever signalled by the timeout, which   *)
(* escalates: SIGINT and SIGQUIT come first, and the timeout is remembered *)
(* (exitcode -1) also when the child then exits with a code of its own or  *)
(* the script changes the timeout.                                         *)
Escalation ==
  ~torn /\ sent # {} => {"INT", "QUIT"} \subseteq sent /\ ExitCode = -1

(* kill() and the finalizer leave neither a zombie nor an open pipe: when  *)
(* they are done the child is reaped and all descriptors are closed.       *)
NothingLeftBehind ==
  torn /\ pc \in {"idle", "gone"} =>
    child = "reaped" /\ ~ifd /\ \A s \in Stream : ~fd[s]

(* running never becomes true again and the exit code is stable once the   *)
(* script has seen it: a later kill(), write(), timeout or change of the   *)
(* timeout does not touch a finished object.                               *)
FinishedIsFinal ==
  [][process_terminated =>
       process_terminated' /\ exit_code' = exit_code /\ was_timeout' = was_timeout
       /\ sent' = sent]_cpVars

(* Documented for sys.process: "The exit code of the child process, or -1" *)
(* - a child that was terminated by a signal has no exit code.             *)
SignalledIsNotSuccess ==
  process_terminated /\ pc = "idle" /\ child = "reaped" /\ status.sig => ExitCode = -1

=============================================================================
