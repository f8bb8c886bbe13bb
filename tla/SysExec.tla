------------------------------ MODULE SysExec ------------------------------
(***************************************************************************)
(* sys.exec() and sys.shell() (execute() and execute_shell() of            *)
(* duktape/mod/mod.sys.exec.hh): a child_process that lives on the C++     *)
(* stack, updated in a loop until it has terminated.  sys.exec() hands the *)
(* output to script callbacks, which may throw; then, and at the end, the  *)
(* destructor of the child_process runs.                                   *)
(***************************************************************************)
EXTENDS ChildProcess

CONSTANT Calls   \* the calls considered, a set of CallRecords

CallRecords ==
  [fn       : {"exec", "shell"},
   noexcept : BOOLEAN,          \* no_exception
   cb       : SUBSET Stream,    \* streams with a callback function
   timeout  : Int,              \* the option timeout
   stdin    : Nat,              \* the size of the option stdin
   cat      : BOOLEAN,          \* the program copies its stdin to its stdout
   out      : Nat]              \* bound: bytes that wait in a pipe or were read from it

ASSUME ExecAssumption == Calls \subseteq CallRecords

VARIABLES
  call,     \* the call and its options
  buf,      \* stdout_buffer.size(), stderr_buffer.size(): incomplete last line
  result,   \* what the script gets
  code      \* the exit code in the result

execVars == <<cpVars, call, buf, result, code>>

Results == {"none", "throw", "undefined", "code", "object"}

TypeOK ==
  /\ CPTypeOK
  /\ call \in Calls
  /\ buf \in [Stream -> Nat]
  /\ result \in Results
  /\ code \in Int

(* sys.shell() pipes stdout, ignores stderr, closes stdin; a callback      *)
(* exists only for a stream that has a pipe.                               *)
Init ==
  /\ CPInit
  /\ call \in Calls
  /\ call.fn = "shell" =>
       ~opts.ignore["out"] /\ opts.ignore["err"] /\ ~opts.no_close /\ call.stdin = 0
  /\ \A s \in call.cb : ~opts.ignore[s]
  /\ buf = [s \in Stream |-> 0]
  /\ result = "none" /\ code = 0

(* The value returned on the regular path: the exit code alone when no     *)
(* output was asked for; sys.shell() returns the text of stdout.           *)
Value ==
  IF call.fn = "exec" /\ \A s \in Stream : opts.ignore[s] THEN "code" ELSE "object"

(* An std::exception of the constructor: sys.exec() throws it to the       *)
(* script or, with noexcept, leaves the try block and returns a value with *)
(* the initial exit code; sys.shell() returns undefined.                   *)
ErrorResult ==
  IF call.fn = "shell" THEN "undefined" ELSE IF call.noexcept THEN Value ELSE "throw"

(* arguments_import() complains: no process is started. *)
ImportFails ==
  /\ pc = "new" /\ call.fn = "exec"
  /\ pc' = "failed"
  /\ result' = IF call.noexcept THEN "undefined" ELSE "throw"
  /\ UNCHANGED <<objVars, caller, ready, osVars, clock, histVars, call, buf, code>>

Start ==
  /\ \/ Run(call.timeout, call.stdin) /\ result' = result
     \/ RunFails(call.timeout, call.stdin) /\ result' = ErrorResult
  /\ UNCHANGED <<call, buf, code>>

(* proc.update(10) at the head of the loop. *)
LoopUpdate ==
  /\ Running
  /\ BeginUpdate("update")
  /\ UNCHANGED <<objVars, ready, osVars, clock, histVars, call, buf, result, code>>

(* After update(), sys.exec() moves the received text of each stream into  *)
(* its result, or through read_callback(), which keeps an incomplete last  *)
(* line in buf.  sys.shell() leaves the text in the object.                *)
Collect ==
  /\ UpdateReturns
  /\ IF call.fn = "exec"
     THEN /\ taken' = [s \in Stream |-> taken[s] + data[s]]
          /\ data' = [s \in Stream |-> 0]
          /\ \E keep \in [Stream -> 0..MaxOut] :
               /\ \A s \in Stream :
                    /\ keep[s] <= buf[s] + data[s]
                    /\ s \notin call.cb \/ data[s] = 0 => keep[s] = buf[s]
               /\ buf' = keep
     ELSE UNCHANGED <<taken, data, buf>>
  /\ UNCHANGED <<call, result, code>>

(* A callback throws.  Script errors are no std::exception: they pass the  *)
(* catch clause, the destructor runs, noexcept does not apply.             *)
CallbackThrows ==
  /\ pc = "return"
  /\ \E s \in call.cb : data[s] > 0
  /\ Destroy
  /\ result' = "throw"
  /\ UNCHANGED <<call, buf, code>>

(* The loop has ended: the incomplete lines are flushed through the        *)
(* callbacks, the result is composed and the object destroyed.             *)
Finish ==
  /\ pc = "idle" /\ ~Running
  /\ code' = IF call.fn = "exec" THEN ExitCode ELSE code
  /\ result' = IF ~was_timeout THEN Value
               ELSE IF call.fn = "shell" THEN "undefined"
               ELSE IF call.noexcept THEN Value ELSE "throw"
  /\ buf' = [s \in Stream |-> 0]
  /\ Destroy
  /\ UNCHANGED call

(* A callback throws out of the final flush. *)
FlushThrows ==
  /\ pc = "idle" /\ ~Running
  /\ \E s \in Stream : buf[s] > 0
  /\ result' = "throw"
  /\ Destroy
  /\ UNCHANGED <<call, buf, code>>

ObjStep == ObjectStep /\ UNCHANGED <<call, buf, result, code>>

(* A child that copies its stdin to its stdout byte by byte and exits at   *)
(* the end of its input, as cat does: it stops reading while its output    *)
(* pipe is full.                                                           *)
Echoed    == call.stdin - owed = mark["out"]   \* all it has read
CatReads  == Echoed /\ ChildReads
CatWrites == ~Echoed /\ ChildWrites("out")
CatExits  == Echoed /\ ~ifd /\ in_pipe = 0 /\ ChildEnds([sig |-> FALSE, code |-> 0])
Cat       == CatReads \/ CatWrites \/ CatExits

EnvStep ==
  /\ Environment
  /\ call.cat => Tick \/ Cat
  /\ \A s \in Stream : Got(s) + pipe'[s] <= call.out
  /\ UNCHANGED <<call, buf, result, code>>

Exec == ImportFails \/ Start \/ LoopUpdate \/ Collect \/ CallbackThrows \/ Finish \/ FlushThrows

Next == Exec \/ ObjStep \/ EnvStep

Spec == Init /\ [][Next]_execVars

(* The application runs its loop, time passes, and SIGKILL terminates a    *)
(* child.  Nothing is assumed of the child itself, but that cat goes on    *)
(* when it can.                                                            *)
Fairness ==
  /\ WF_execVars(Exec)
  /\ WF_execVars(ObjStep)
  /\ WF_execVars(Tick /\ UNCHANGED <<call, buf, result, code>>)
  /\ WF_execVars("KILL" \in sigs /\ SignalKills /\ UNCHANGED <<call, buf, result, code>>)
  /\ WF_execVars(call.cat /\ Cat /\ UNCHANGED <<call, buf, result, code>>)

FairSpec == Spec /\ Fairness
-----------------------------------------------------------------------------
(* Properties *)

(* Whenever the call is over - by a value, an error of the start, a        *)
(* timeout or a throwing callback - no zombie, no running child and no     *)
(* open pipe is left, and no signal went to a pid that was already reaped. *)
NothingLeft ==
  pc \in {"gone", "failed"} =>
    /\ child \in {"none", "reaped"}
    /\ ~ifd /\ \A s \in Stream : ~fd[s]
    /\ ~stale

(* When a value is returned, every byte the child wrote is in it or was    *)
(* handed to read_callback(), lines that were still incomplete when the    *)
(* child exited included.  What becomes of a text in read_callback() is    *)
(* the subject of the module ReadCallback.                                 *)
OutputComplete ==
  result \in {"code", "object"} /\ pc = "gone" =>
    \A s \in Stream : Got(s) >= mark[s] /\ buf[s] = 0

(* The exit code in the result is the one the child exited with: -1 when a *)
(* timeout signal was sent, even if the child then exits by itself.        *)
ResultCode ==
  result \in {"code", "object"} /\ pc = "gone" /\ call.fn = "exec" =>
    /\ sent \cap {"INT", "QUIT", "KILL"} # {} => code = -1
    /\ sent = {} /\ ~status.sig => code = status.code

(* The destructor of a child that ended by itself sends no signal: a call  *)
(* that returns a value has waited for the child.                          *)
WaitedFor ==
  result \in {"code", "object", "undefined"} /\ pc = "gone" => "TERM" \notin sent

(* Documented: the process will be terminated (and SIGKILL killed later if *)
(* not terminating itself) if it runs longer than the timeout.  So a call  *)
(* with a timeout comes to an end whatever the child does: it may ignore   *)
(* SIGINT and SIGQUIT, never exit, and leave heirs that keep the pipes.    *)
TimeoutTerminates == call.timeout > 1 => <>(pc \in {"gone", "failed", "sigpipe"})

(* The loop cannot deadlock with a child that stops reading stdin while    *)
(* its own output is not read: once started, the call returns all the      *)
(* input, echoed.                                                          *)
CatEchoes ==
  call.cat => <>(\/ pc = "failed"
                 \/ pc = "gone" /\ result = Value /\ taken["out"] = call.stdin /\ code = 0)

-----------------------------------------------------------------------------
(* The inductive invariant behind the theorems of SysExecProofs *)

(* Nobody calls kill(): the pipes are only torn down by the destructor,    *)
(* and before that only the timeout sends signals.                         *)
OnlyDestroyed ==
  /\ torn => caller = "dtor"
  /\ caller \notin {"kill", "kill9", "read"}
  /\ ~stale
  /\ pc = "reap1" => child # "reaped"
  /\ ~torn => "TERM" \notin sent

(* There is a result only at the end; a value is composed after the child  *)
(* was reaped, so that the destructor has nothing to do but close pipes.   *)
Returned ==
  /\ result # "none" => pc \in {"failed", "gone", "reap1", "reap2"}
  /\ result \in {"code", "object", "undefined"} /\ pc # "failed" =>
       pc = "gone" /\ child = "reaped"

ExecInv ==
  /\ CPInv /\ TypeOK /\ OnlyDestroyed /\ Returned
  /\ OutputComplete /\ ResultCode /\ WaitedFor
=============================================================================
