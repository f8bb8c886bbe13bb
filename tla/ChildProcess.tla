--------------------------- MODULE ChildProcess ---------------------------
(***************************************************************************)
(* The POSIX class child_process of duktape/mod/mod.sys.exec.hh: one child *)
(* process, the pipes to its stdin, stdout and stderr, the non blocking    *)
(* update() that moves data and reaps the child, kill() and the handle     *)
(* destructor.  The operating system side (pipes, signals, wait status)    *)
(* and the child itself are the environment; they run between any two      *)
(* system calls of update().                                               *)
(*                                                                         *)
(* Data are byte counts: a pipe is a FIFO, so a count tells which bytes    *)
(* have been moved.  The module has no Next of its own: SysProcess and     *)
(* SysExec compose its actions with the two users of the class.            *)
(***************************************************************************)
EXTENDS Integers

CONSTANTS
  PipeCap,        \* bytes a kernel pipe buffers
  ReadMax,        \* size of the buffer of one read() (char data[4096])
  ForceKillAfter, \* force_kill_after_additional_ms, in clock ticks
  MaxClock,       \* bound: last clock tick
  MaxOut,         \* bound: bytes counted in one of the child's streams
  Endless,        \* whether writers go on beyond MaxOut (without being counted)
  MaxStdin,       \* bound: bytes queued for stdin that the child has not read yet
  ExitCodes,      \* codes the child may pass to exit()
  OptionSet,      \* the combinations of constructor flags considered
  Sigpipe         \* dispositions of SIGPIPE the application may have: ignored, default

Stream  == {"out", "err"}
Signals == {"INT", "QUIT", "TERM", "KILL"}
Holder  == {"child", "heir"}   \* an heir is a descendant that inherited the pipe ends

(* The constructor flags update() and run() look at.  With the redirection *)
(* stderr has no pipe of its own and the import never sets an ignore flag. *)
Options ==
  {o \in [ignore : [Stream -> BOOLEAN], redirect : BOOLEAN, no_close : BOOLEAN] :
     o.redirect => \A s \in Stream : ~o.ignore[s]}

ASSUME ConstantsAssumption ==
  /\ PipeCap \in Nat \ {0} /\ ReadMax \in Nat \ {0} /\ ForceKillAfter \in Nat
  /\ MaxClock \in Nat /\ MaxOut \in Nat /\ MaxStdin \in Nat
  /\ ExitCodes \subseteq 0..255
  /\ OptionSet \subseteq Options
  /\ Sigpipe \subseteq {"ignored", "default"} /\ Endless \in BOOLEAN

VARIABLES
  \* the object
  opts,                \* ignore_stdout_, ignore_stderr_, redirect_..., no_pipe_auto_closing_
  timeout_ms,          \* timeout_ms_
  pid,                 \* proc_.pid, -1 or the (only) child's id 1
  ifd,                 \* proc_.ifd >= 0
  fd,                  \* proc_.ofd >= 0, proc_.efd >= 0
  stdin_data,          \* stdin_data_.size()
  data,                \* stdout_data_.size(), stderr_data_.size()
  exit_code,           \* exit_code_
  was_timeout,         \* was_timeout_
  process_terminated,  \* process_terminated_
  \* control: the next system call, and who called
  pc, caller, ready,
  \* operating system and child
  child, status, sigs, in_pipe, in_r, pipe, holders, clock,
  \* history
  taken,   \* bytes the owner of the object moved out of std{out,err}_data_
  mark,    \* position in the stream of the last byte the child itself wrote
  torn,    \* the pipes were closed by process_handles::close(), not on EOF
  stale,   \* a signal was sent to a pid that had already been reaped
  sent,    \* signals sent to the child so far
  owed     \* bytes queued for stdin that the child has not read yet

objVars  == <<opts, timeout_ms, pid, ifd, fd, stdin_data, data, exit_code,
              was_timeout, process_terminated>>
ctlVars  == <<pc, caller, ready>>
osVars   == <<child, status, sigs, in_pipe, in_r, pipe, holders>>
histVars == <<taken, mark, torn, stale, sent, owed>>
cpVars   == <<objVars, ctlVars, osVars, clock, histVars>>

(* What the owner of the object has received of a stream so far. *)
Got(s) == data[s] + taken[s]

Callers == {"none", "update", "read", "kill", "kill9", "dtor"}
Steps   == {"new", "idle", "timeout", "stdin", "poll", "rdout", "rderr", "wait",
            "return", "reap1", "reap2", "failed", "gone", "sigpipe"}

CPTypeOK ==
  /\ opts \in OptionSet
  /\ timeout_ms \in Int
  /\ pid \in {-1, 1}
  /\ ifd \in BOOLEAN
  /\ fd \in [Stream -> BOOLEAN]
  /\ stdin_data \in Nat
  /\ data \in [Stream -> Nat]
  /\ exit_code \in Int
  /\ was_timeout \in BOOLEAN
  /\ process_terminated \in BOOLEAN
  /\ pc \in Steps
  /\ caller \in Callers
  /\ ready \in SUBSET Stream
  /\ child \in {"none", "alive", "zombie", "reaped"}
  /\ status \in [sig : BOOLEAN, code : Int]
  /\ sigs \in SUBSET Signals
  /\ in_pipe \in Nat
  /\ in_r \in SUBSET Holder
  /\ pipe \in [Stream -> Nat]
  /\ holders \in [Stream -> SUBSET Holder]
  /\ clock \in Nat
  /\ taken \in [Stream -> Nat]
  /\ mark \in [Stream -> Nat]
  /\ torn \in BOOLEAN
  /\ stale \in BOOLEAN
  /\ sent \in SUBSET Signals
  /\ owed \in Int

NoStatus == [sig |-> FALSE, code |-> 0]

(* The members as the constructor initialises them before run(). *)
CPInit ==
  /\ opts \in OptionSet
  /\ timeout_ms = 0 /\ pid = -1 /\ ifd = FALSE
  /\ fd = [s \in Stream |-> FALSE]
  /\ stdin_data = 0
  /\ data = [s \in Stream |-> 0]
  /\ exit_code = -1 /\ was_timeout = FALSE /\ process_terminated = FALSE
  /\ pc = "new" /\ caller = "none" /\ ready = {}
  /\ child = "none" /\ status = NoStatus /\ sigs = {}
  /\ in_pipe = 0 /\ in_r = {}
  /\ pipe = [s \in Stream |-> 0]
  /\ holders = [s \in Stream |-> {}]
  /\ clock = 0
  /\ taken = [s \in Stream |-> 0]
  /\ mark = [s \in Stream |-> 0]
  /\ torn = FALSE /\ stale = FALSE /\ sent = {}
  /\ owed = 0

ExitCode_Raw == exit_code   \* mutant: the timeout is not considered

(* exit_code(): a child that ran into the timeout is reported as -1. *)
ExitCode == IF was_timeout THEN -1 ELSE exit_code

Running_Reaped   == pid > 0                            \* mutant: finished when reaped
Running_TimedOut == ~process_terminated /\ ~was_timeout \* mutant: finished on timeout

(* running() is a flag of the object, not a query of the system. *)
Running == ~process_terminated

WEXITSTATUS_Raw(st) == IF st.sig THEN 9 ELSE 256 * st.code   \* mutant: the status word

(* WEXITSTATUS(status): the exit code byte, 0 in the status of a signalled child. *)
WEXITSTATUS(st) == IF st.sig THEN 0 ELSE st.code

(* kill(2) on our child: pending for a live one, ignored by a zombie; a    *)
(* reaped pid may belong to anyone.  Nothing happens for an empty set.     *)
SendSignals(S) ==
  /\ sigs'  = IF child = "alive" THEN sigs \cup S ELSE sigs
  /\ stale' = (stale \/ (S # {} /\ child = "reaped"))
  /\ sent'  = sent \cup S

(* The streams the child writes into a pipe of the parent: an ignored one  *)
(* was reopened on /dev/null, a redirected stderr goes into stdout's pipe. *)
Piped == {s \in Stream : ~opts.ignore[s] /\ ~(s = "err" /\ opts.redirect)}
-----------------------------------------------------------------------------
(* run() *)

(* Pipes and fork succeed; the parent keeps its ends and closes the ones   *)
(* that are not used.                                                      *)
Run(timeout, n) ==
  /\ pc = "new"
  /\ timeout_ms' = timeout
  /\ stdin_data' = n
  /\ pid' = 1
  /\ ifd' = (n > 0 \/ opts.no_close)
  /\ fd' = [s \in Stream |-> s \in Piped]
  /\ process_terminated' = FALSE
  /\ pc' = "idle"
  /\ child' = "alive"
  /\ in_r' = {"child"}
  /\ owed' = n
  /\ holders' = [s \in Stream |-> IF s \in Piped THEN {"child"} ELSE {}]
  /\ UNCHANGED <<opts, data, exit_code, was_timeout, caller, ready, status, sigs,
                 in_pipe, pipe, clock, taken, mark, torn, stale, sent>>

(* pipe() or fork() fails: run() throws out of the constructor.  It is one *)
(* step, since the ends of the pipes are local variables until fork(), all *)
(* of which are closed before the throw; the properties say nothing of     *)
(* them.                                                                   *)
RunFails(timeout, n) ==
  /\ pc = "new"
  /\ timeout_ms' = timeout
  /\ stdin_data' = n
  /\ process_terminated' = TRUE
  /\ pc' = "failed"
  /\ UNCHANGED <<opts, pid, ifd, fd, data, exit_code, was_timeout, caller, ready,
                 osVars, clock, histVars>>
-----------------------------------------------------------------------------
(* update(), one step per system call *)

BeginUpdate(who) ==
  /\ pc = "idle"
  /\ pc' = "timeout"
  /\ caller' = who

Overdue_AnyPid == timeout_ms > 1 /\ clock > timeout_ms   \* mutant: also when reaped

Overdue      == timeout_ms > 1 /\ pid > 0 /\ clock > timeout_ms
ForceOverdue == clock > timeout_ms + ForceKillAfter

TimeoutSignals_KillFirst ==   \* mutant: the time is compared before the flag
  IF ForceOverdue THEN {"KILL"} ELSE IF ~was_timeout THEN {"INT", "QUIT"} ELSE {}

TimeoutSignals_Once ==        \* mutant: SIGKILL is forgotten
  IF ~was_timeout THEN {"INT", "QUIT"} ELSE {}

(* SIGINT and SIGQUIT once, SIGKILL when the child is still there after    *)
(* the additional time.                                                    *)
TimeoutSignals ==
  IF ~was_timeout THEN {"INT", "QUIT"} ELSE IF ForceOverdue THEN {"KILL"} ELSE {}

(* Timeout supervision at the head of update(). *)
CheckTimeout ==
  /\ pc = "timeout"
  /\ pc' = "stdin"
  /\ was_timeout' = (was_timeout \/ Overdue)
  /\ IF Overdue THEN SendSignals(TimeoutSignals) ELSE UNCHANGED <<sigs, stale, sent>>
  /\ UNCHANGED <<opts, timeout_ms, pid, ifd, fd, stdin_data, data, exit_code,
                 process_terminated, caller, ready, child, status, in_pipe, in_r,
                 pipe, holders, clock, taken, mark, torn, owed>>

AutoCloseStdin_Never == ifd' = TRUE   \* mutant: stdin stays open

(* The pipe is closed as soon as nothing is left to write, unless the      *)
(* owner asked to keep it open.                                            *)
AutoCloseStdin == ifd' = (stdin_data' > 0 \/ opts.no_close)

StdinFrame == UNCHANGED <<opts, timeout_ms, pid, fd, data, exit_code, was_timeout,
                          process_terminated, caller, ready, child, status, sigs,
                          in_r, pipe, holders, clock, histVars>>

(* Nothing to write, or write() returns EAGAIN: the bytes left do not fit  *)
(* behind those that are still in the pipe.                                *)
WriteNothing ==
  /\ pc = "stdin"
  /\ pc' = "poll"
  /\ stdin_data' = stdin_data
  /\ IF ifd THEN AutoCloseStdin ELSE ifd' = ifd
  /\ ifd /\ stdin_data > 0 => in_r # {} /\ in_pipe > 0
  /\ in_pipe' = in_pipe
  /\ StdinFrame

Unsent_Dropped(n)  == 0                    \* mutant: a partial write() is taken for a full one

(* stdin_data_.substr(r) *)
Unsent(n) == stdin_data - n

(* write() moves as many bytes as the pipe takes. *)
WriteStdin ==
  /\ pc = "stdin" /\ ifd /\ stdin_data > 0 /\ in_r # {}
  /\ \E n \in 1..stdin_data :
       /\ n <= PipeCap - in_pipe
       /\ stdin_data' = Unsent(n)
       /\ in_pipe' = in_pipe + n
  /\ pc' = "poll"
  /\ AutoCloseStdin
  /\ StdinFrame

(* Nobody reads the pipe any more and the application ignores SIGPIPE: the *)
(* EPIPE of write() discards the rest of stdin_data_.                      *)
WriteEpipe ==
  /\ pc = "stdin" /\ ifd /\ stdin_data > 0 /\ in_r = {}
  /\ "ignored" \in Sigpipe
  /\ pc' = "poll"
  /\ stdin_data' = 0
  /\ AutoCloseStdin
  /\ in_pipe' = in_pipe
  /\ StdinFrame

(* The same write with the default disposition: the signal terminates the  *)
(* application.                                                            *)
WriteSigpipe ==
  /\ pc = "stdin" /\ ifd /\ stdin_data > 0 /\ in_r = {}
  /\ "default" \in Sigpipe
  /\ pc' = "sigpipe"
  /\ UNCHANGED <<stdin_data, ifd, in_pipe>>
  /\ StdinFrame

(* A stream poll() reports: data, or a hang up because no writer is left.  *)
Readable(s) == fd[s] /\ (pipe[s] > 0 \/ holders[s] = {})

PollFrame == UNCHANGED <<objVars, caller, osVars, clock, histVars>>

Poll ==
  /\ pc = "poll"
  /\ ~process_terminated
  /\ pc' = "rdout"
  /\ ready' = {s \in Stream : Readable(s)}
  /\ PollFrame

(* rp < 0: poll() was interrupted, or was not called because the process   *)
(* had terminated before.  Both streams are read in this case.             *)
PollForced ==
  /\ pc = "poll"
  /\ pc' = "rdout"
  /\ ready' = Stream
  /\ PollFrame

StepOf(s)    == IF s = "out" THEN "rdout" ELSE "rderr"
AfterRead(s) == IF s = "out" THEN "rderr" ELSE "wait"

ReadFrame == UNCHANGED <<opts, timeout_ms, pid, ifd, stdin_data, exit_code, was_timeout,
                         process_terminated, caller, child, status, sigs,
                         in_pipe, in_r, holders, clock, histVars>>

(* read() returns data; the loop goes on. *)
ReadData(s) ==
  /\ pc = StepOf(s) /\ s \in ready /\ fd[s] /\ pipe[s] > 0
  /\ LET n == IF pipe[s] < ReadMax THEN pipe[s] ELSE ReadMax
     IN  /\ data' = [data EXCEPT ![s] = IF Got(s) < MaxOut THEN @ + n ELSE @]
         /\ pipe' = [pipe EXCEPT ![s] = @ - n]
  /\ UNCHANGED <<pc, fd, ready>>
  /\ ReadFrame

AtEof_Eagain(s) == TRUE   \* mutant: EAGAIN closes the pipe as well

(* read() returns 0 on an empty pipe without writers, EAGAIN with writers. *)
AtEof(s) == holders[s] = {}

(* read() returns EAGAIN or, at the end of the stream, 0: the latter       *)
(* closes the pipe.  A stream poll() did not report is left alone.         *)
ReadDone(s) ==
  /\ pc = StepOf(s)
  /\ s \in ready /\ fd[s] => pipe[s] = 0
  /\ fd' = [fd EXCEPT ![s] = @ /\ ~(s \in ready /\ AtEof(s))]
  /\ pc' = AfterRead(s)
  /\ ready' = ready \ {s}
  /\ UNCHANGED <<data, pipe>>
  /\ ReadFrame

WaitReturnsPid_NoEchild == child = "zombie"   \* mutant: ECHILD is no result

(* waitpid(WNOHANG) returns the pid of a zombie; ECHILD, for a child that  *)
(* process_handles::close() reaped, is treated alike.                      *)
WaitReturnsPid == child \in {"zombie", "reaped"}

AfterReap_Terminated == process_terminated' = TRUE   \* mutant: no further poll

AfterReap == UNCHANGED process_terminated

(* waitpid(WNOHANG).  The update() after the one that reaped the child     *)
(* sets process_terminated_, so there is one more poll in between.         *)
WaitPid ==
  /\ pc = "wait"
  /\ pc' = "return"
  /\ IF pid < 0 THEN
       /\ process_terminated' = TRUE
       /\ UNCHANGED <<exit_code, pid, child>>
     ELSE IF ~WaitReturnsPid THEN
       UNCHANGED <<process_terminated, exit_code, pid, child>>
     ELSE
       /\ exit_code' = IF child = "zombie" THEN WEXITSTATUS(status) ELSE 0 \* ECHILD: status = 0
       /\ pid' = -1
       /\ child' = "reaped"
       /\ AfterReap
  /\ UNCHANGED <<opts, timeout_ms, ifd, fd, stdin_data, data, was_timeout, caller, ready,
                 status, sigs, in_pipe, in_r, pipe, holders, clock, histVars>>

(* update() returns; kill() overwrites the exit code after its update(0). *)
UpdateReturns ==
  /\ pc = "return"
  /\ pc' = "idle"
  /\ caller' = "none"
  /\ exit_code' = IF caller \in {"kill", "kill9"} THEN -1 ELSE exit_code
  /\ UNCHANGED <<opts, timeout_ms, pid, ifd, fd, stdin_data, was_timeout,
                 process_terminated, ready, osVars, clock, mark, torn, stale,
                 sent, owed>>
-----------------------------------------------------------------------------
(* process_handles::close(), called by kill() and by the destructor *)

(* The pipes are closed, what they hold is lost, SIGTERM is sent to a      *)
(* child not yet reaped.  Who writes to a closed pipe is not tracked.      *)
CloseHandles(S) ==
  /\ ifd' = FALSE
  /\ fd' = [s \in Stream |-> FALSE]
  /\ pipe' = [s \in Stream |-> 0]
  /\ holders' = [s \in Stream |-> {}]
  /\ torn' = TRUE
  /\ IF pid > 0 THEN SendSignals(S \cup {"TERM"}) ELSE UNCHANGED <<sigs, stale, sent>>

CanKill_Always == TRUE   \* mutant: kill() of a finished object

CanKill == pid > 0

(* kill(): nothing happens once the child was reaped. *)
Kill(dash9) ==
  /\ pc = "idle"
  /\ CanKill
  /\ CloseHandles(IF dash9 THEN {"KILL"} ELSE {"INT", "QUIT"})
  /\ pc' = "reap1"
  /\ caller' = IF dash9 THEN "kill9" ELSE "kill"
  /\ UNCHANGED <<opts, timeout_ms, pid, stdin_data, data, exit_code, was_timeout,
                 process_terminated, ready, child, status, in_pipe, in_r,
                 clock, taken, mark, owed>>

(* The destructor (finalizer of the script object, end of scope in exec). *)
Destroy ==
  /\ CloseHandles({})
  /\ pc' = IF pid > 0 THEN "reap1" ELSE "gone"
  /\ caller' = "dtor"
  /\ UNCHANGED <<opts, timeout_ms, pid, stdin_data, data, exit_code, was_timeout,
                 process_terminated, ready, child, status, in_pipe, in_r,
                 clock, taken, mark, owed>>

ReapFrame == UNCHANGED <<objVars, caller, ready, status, in_pipe, in_r, pipe, holders,
                         clock, taken, mark, torn, owed>>

(* First waitpid(WNOHANG): SIGKILL for a child that has not terminated. *)
ReapOrForce ==
  /\ pc = "reap1"
  /\ pc' = "reap2"
  /\ IF child = "zombie" THEN
       /\ child' = "reaped"
       /\ UNCHANGED <<sigs, stale, sent>>
     ELSE
       /\ child' = child
       /\ SendSignals({"KILL"})
  /\ ReapFrame

WaitEnds_Nohang == TRUE   \* mutant: the second waitpid() does not block

WaitEnds == child \in {"zombie", "reaped"}

(* Blocking waitpid(): waits for the child, returns at once (ECHILD) when  *)
(* the first call reaped it.  pid keeps its value.                         *)
ReapBlocking ==
  /\ pc = "reap2"
  /\ WaitEnds
  /\ child' = IF child = "zombie" THEN "reaped" ELSE child
  /\ pc' = IF caller = "dtor" THEN "gone" ELSE "timeout"
  /\ UNCHANGED <<sigs, stale, sent>>
  /\ ReapFrame

(* Everything the object does by itself once it was called. *)
ObjectStep ==
  \/ CheckTimeout
  \/ WriteNothing \/ WriteStdin \/ WriteEpipe \/ WriteSigpipe
  \/ Poll \/ PollForced
  \/ \E s \in Stream : ReadData(s) \/ ReadDone(s)
  \/ WaitPid
  \/ ReapOrForce \/ ReapBlocking
-----------------------------------------------------------------------------
(* The child, its heirs and the clock *)

EnvFrame == UNCHANGED <<objVars, ctlVars, clock, taken, torn, stale, sent>>

(* The pipe a stream of the child is connected to. *)
Target(s) == IF s = "err" /\ opts.redirect THEN "out" ELSE s

(* A byte fits into the pipe; MaxOut bounds the stream unless it is endless. *)
CanWrite(s) == fd[s] /\ pipe[s] < PipeCap /\ (Got(s) + pipe[s] < MaxOut \/ Endless)

ChildWrites(s) ==
  /\ child = "alive"
  /\ LET t == Target(s) IN
       /\ "child" \in holders[t] /\ CanWrite(t)
       /\ pipe' = [pipe EXCEPT ![t] = @ + 1]
       /\ mark' = [mark EXCEPT ![t] = IF Got(t) + pipe[t] < MaxOut
                                      THEN Got(t) + pipe[t] + 1 ELSE @]
  /\ UNCHANGED <<child, status, sigs, in_pipe, in_r, holders, owed>>
  /\ EnvFrame

HeirWrites(s) ==
  /\ "heir" \in holders[s] /\ CanWrite(s)
  /\ pipe' = [pipe EXCEPT ![s] = @ + 1]
  /\ UNCHANGED <<child, status, sigs, in_pipe, in_r, holders, mark, owed>>
  /\ EnvFrame

ChildReads ==
  /\ child = "alive" /\ "child" \in in_r /\ in_pipe > 0
  /\ in_pipe' = in_pipe - 1
  /\ owed' = owed - 1
  /\ UNCHANGED <<child, status, sigs, in_r, pipe, holders, mark>>
  /\ EnvFrame

ChildClosesStdin ==
  /\ child = "alive" /\ "child" \in in_r
  /\ in_r' = in_r \ {"child"}
  /\ UNCHANGED <<child, status, sigs, in_pipe, pipe, holders, mark, owed>>
  /\ EnvFrame

ChildClosesOutput(s) ==
  /\ child = "alive" /\ "child" \in holders[s]
  /\ holders' = [holders EXCEPT ![s] = @ \ {"child"}]
  /\ UNCHANGED <<child, status, sigs, in_pipe, in_r, pipe, mark, owed>>
  /\ EnvFrame

(* The child starts a background process that inherits its pipe ends. *)
Inherit(h) == IF "child" \in h THEN h \cup {"heir"} ELSE h
ChildForks ==
  /\ child = "alive"
  /\ in_r' = Inherit(in_r)
  /\ holders' = [s \in Stream |-> Inherit(holders[s])]
  /\ UNCHANGED <<child, status, sigs, in_pipe, pipe, mark, owed>>
  /\ EnvFrame

HeirExits ==
  /\ in_r' = in_r \ {"heir"}
  /\ holders' = [s \in Stream |-> holders[s] \ {"heir"}]
  /\ <<in_r, holders>>' # <<in_r, holders>>
  /\ UNCHANGED <<child, status, sigs, in_pipe, pipe, mark, owed>>
  /\ EnvFrame

(* The child terminates; its pipe ends are closed and it becomes a zombie. *)
ChildEnds(st) ==
  /\ child = "alive"
  /\ child' = "zombie"
  /\ status' = st
  /\ sigs' = {}
  /\ in_r' = in_r \ {"child"}
  /\ holders' = [s \in Stream |-> holders[s] \ {"child"}]
  /\ UNCHANGED <<in_pipe, pipe, mark, owed>>
  /\ EnvFrame

ChildExits == \E c \in ExitCodes : ChildEnds([sig |-> FALSE, code |-> c])

(* A signal of the child's own making (SIGSEGV, abort()), or from others. *)
ChildCrashes == ChildEnds([sig |-> TRUE, code |-> 0])

(* Default disposition of a signal we sent. *)
SignalKills ==
  /\ sigs # {}
  /\ ChildEnds([sig |-> TRUE, code |-> 0])

(* A handler of the child swallows it; SIGKILL cannot be handled. *)
SignalIgnored ==
  /\ \E x \in sigs \ {"KILL"} : sigs' = sigs \ {x}
  /\ UNCHANGED <<child, status, in_pipe, in_r, pipe, holders, mark, owed>>
  /\ EnvFrame

(* clock is the time since start_time_. *)
Tick ==
  /\ pc # "new" /\ clock < MaxClock
  /\ clock' = clock + 1
  /\ UNCHANGED <<objVars, ctlVars, osVars, histVars>>

Environment ==
  \/ \E s \in Stream : ChildWrites(s) \/ HeirWrites(s) \/ ChildClosesOutput(s)
  \/ ChildReads \/ ChildClosesStdin
  \/ ChildForks \/ HeirExits
  \/ ChildExits \/ ChildCrashes
  \/ SignalKills \/ SignalIgnored
  \/ Tick
-----------------------------------------------------------------------------
(* What holds of the object, whoever owns it *)

(* The object closes its end of an output pipe only at the end of the      *)
(* stream: while the child or a process that inherited the pipe can still  *)
(* write, the pipe stays open, unless kill() or the finalizer tore it      *)
(* down.  A poll() that was interrupted forces a read on both pipes, which *)
(* must not be mistaken for the end.                                       *)
NoPrematureClose ==
  ~torn /\ pc \notin {"new", "failed"} =>
    \A s \in Piped : holders[s] # {} => fd[s]

(* As long as someone reads the child's stdin, every byte given to the     *)
(* constructor and to write() is still queued, in the pipe, or read, and   *)
(* none is sent twice: a partial write() keeps exactly the unsent rest and *)
(* EAGAIN keeps everything.                                                *)
StdinConserved == in_r # {} => owed = stdin_data + in_pipe

(* A signal reaches a pid that was already reaped, which the system may    *)
(* have given to another process, only from the update(0) inside kill():   *)
(* process_handles::close() waits for the child but keeps proc_.pid.       *)
(* Elsewhere the pid is cleared in the step that reaps.                    *)
StaleSignalOnlyInKill == stale => torn

-----------------------------------------------------------------------------
(* The inductive invariant of the object, whoever owns it *)

(* Before run() there is no child and nothing moved. *)
NotStarted ==
  pc \in {"new", "failed"} =>
    /\ pid = -1 /\ child = "none" /\ ~torn /\ ~ifd
    /\ in_r = {} /\ in_pipe = 0 /\ owed = 0
    /\ \A s \in Stream : ~fd[s] /\ holders[s] = {} /\ pipe[s] = 0 /\ mark[s] = 0

(* Only a live child holds pipe ends; no pid means that it was reaped. *)
ChildState ==
  /\ \A s \in Stream : "child" \in holders[s] => child = "alive"
  /\ pid < 0 /\ pc \notin {"new", "failed"} => child = "reaped"
  /\ pid > 0 => child # "none"

(* The steps in which a reaped pid may still be stored: those of kill() up *)
(* to its update(0), and those of the finalizer.                           *)
Reaping ==
  /\ pc \in {"reap1", "reap2", "gone"} => torn
  /\ pid > 0 /\ child = "reaped" =>
       torn /\ pc \in {"reap2", "timeout", "stdin", "poll", "rdout", "rderr", "wait",
                       "gone", "sigpipe"}

(* All the child wrote to s has arrived, or lies in the pipe. *)
Drained(s)  == mark[s] <= Got(s)
InFlight(s) == mark[s] <= Got(s) + pipe[s]

(* In the update() after the one that reaped the child the streams are     *)
(* drained one after the other, before process_terminated_ is set.         *)
Draining ==
  ~torn =>
    /\ \A s \in Stream : mark[s] <= MaxOut /\ InFlight(s) /\ (~fd[s] => Drained(s))
    /\ pid < 0 /\ pc = "rdout" => \A s \in Stream : s \in ready \/ Drained(s)
    /\ pid < 0 /\ pc = "rderr" => Drained("out") /\ ("err" \in ready \/ Drained("err"))
    /\ pid < 0 /\ pc = "wait"  => \A s \in Stream : Drained(s)
    /\ process_terminated      => pid < 0 /\ \A s \in Stream : Drained(s)

(* kill() runs its update(0) with the pid still set, on an object that is  *)
(* not finished.                                                           *)
Killing ==
  /\ process_terminated => pid < 0 /\ pc # "new"
  /\ pc \in {"reap1", "reap2"} => pid > 0
  /\ caller \in {"kill", "kill9"} =>
       torn /\ ~process_terminated /\ (pc # "return" => pid > 0)

(* What kill() and the destructor have closed stays closed. *)
TornDown ==
  torn =>
    /\ ~ifd /\ \A s \in Stream : ~fd[s]
    /\ pc \notin {"reap1", "reap2"} => child = "reaped"

(* Without kill() the exit code is the one of the status word. *)
StatusKept ==
  ~torn /\ pid < 0 /\ child = "reaped" /\ ~status.sig => exit_code = status.code

(* The timeout has signalled the child, and nobody else without kill(). *)
Escalated ==
  /\ was_timeout => {"INT", "QUIT"} \subseteq sent
  /\ ~torn /\ sent # {} => was_timeout

(* Who is in the object: nobody between two calls, the destructor to the   *)
(* end.  kill() does not return before it has given up the pid, and leaves *)
(* the exit code -1.                                                       *)
Calling ==
  /\ pc \in {"new", "failed", "idle"} => caller = "none"
  /\ pc \in {"new", "failed"} => exit_code = -1
  /\ caller = "dtor" => pc \in {"reap1", "reap2", "gone"}
  /\ pc = "gone" => caller = "dtor"
  /\ torn /\ pid > 0 => caller \in {"kill", "kill9", "dtor"}
  /\ torn /\ pid < 0 /\ ~process_terminated /\ caller \notin {"kill", "kill9", "dtor"}
       => exit_code = -1

Safe ==
  /\ NotStarted /\ ChildState /\ Reaping /\ Draining
  /\ NoPrematureClose /\ StdinConserved /\ StaleSignalOnlyInKill
  /\ Killing /\ TornDown /\ StatusKept /\ Escalated /\ Calling

CPInv == CPTypeOK /\ Safe
-----------------------------------------------------------------------------
(* The state an owner of the object can tell apart: the mapping to         *)
(* ProcessContract.                                                        *)
Life ==
  CASE pc = "new"    -> "new"
    [] pc = "failed" -> "failed"
    [] pc = "gone"   -> "gone"
    [] OTHER -> IF caller = "dtor" THEN "closing"
                ELSE IF process_terminated THEN "finished" ELSE "running"

Unread == [s \in Stream |-> IF mark[s] > Got(s) THEN mark[s] - Got(s) ELSE 0]

Verdict == IF process_terminated THEN ExitCode ELSE -1

Contract == INSTANCE ProcessContract WITH
  Status <- [sig : BOOLEAN, code : Int],
  life <- Life, proc <- child, ending <- status, unread <- Unread,
  expired <- was_timeout, cancelled <- torn, verdict <- Verdict

(* Whatever happens between two system calls, an object behaves as its     *)
(* contract says: it reports the end of the child only after all of its    *)
(* output, once, with the code of the child, and closing it waits for the  *)
(* child.                                                                  *)
KeepsContract == Contract!Spec
=============================================================================
