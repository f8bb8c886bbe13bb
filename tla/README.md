# Verification of duktape-cc

TLA+ models of the C++ script environment in `src/duktape`, checked with TLC
and proved with TLAPS.

## The system

duktape-cc wraps the (vendored) Duktape ECMAScript engine in a C++ class
library and adds native modules: files, processes, sockets, serial ports and
others.  Scripts are single threaded; what runs concurrently is the operating
system, child processes, and peers behind descriptors.

| component | state | operations | hard about it |
| --- | --- | --- | --- |
| `child_process` (`mod.sys.exec.hh`) | pid, three pipe ends, collected text, unsent stdin, exit code, three flags | `run`, `update`, `kill`, destructor | every system call interleaves with the child, with processes that inherited its pipes, and with signals |
| `sys.process` | one `child_process` per script object | constructor, properties, `update`, `read`, `write`, `kill`, finalizer | any order of calls, the collector may finalize at any point |
| `sys.exec`, `sys.shell` | a `child_process` on the C++ stack, result text, line buffers | one call each | must return, must leave nothing behind, callbacks may throw |
| `read_callback` | buffer of incomplete line | append, deliver, flush | text arrives in arbitrary pieces |
| `fs.file` (`mod.fs.file.hh`) | descriptor, path, options, end-of-file flag | open, read, readln, write, seek, lock, close | sequences of calls, partial reads and writes |
| serial port (`mod.ext.serial_port.hh`) | descriptor, settings, receive buffer; global list of open ports | open, purge, read, readln, write, close, finalizer | lines in pieces, open() that fails half way, reused and stale descriptor numbers |
| `sys.socket` (`mod.sys.socket.hh`) | descriptor, address, last error, flags | connect, listen, send, recv, options, close | errors that close and errors that do not, partial sends, interruptions |
| engine, `api`, `native_object` (`duktape.hh`) | value stack, native pointers | `eval`, `include`, `call`, `clear`, `stack_guard`, the proxies of functions, constructors and methods | stack balance on every exit path of nested calls, exceptions that cross scripts and native code in both directions |
| `fs`, `fs.ext`, `sys`, `sys.hash`, `stdio`, `stdlib`, `xlang`, extensions | mostly none | wrappers of library calls, pure algorithms | - |

## Modules

| module | models |
| --- | --- |
| `ProcessContract` | abstract specification: what the owner of a `child_process` may rely on, without pipes, polls, signals and pids |
| `ChildProcess` | the POSIX class `child_process`: one action per system call of `update()`, `kill()` and `process_handles::close()`; and, as environment, the kernel pipes, signals, the child, its heirs (processes that inherited its pipe ends) and the clock.  No `Next` of its own.  Its end maps the state to `ProcessContract`. |
| `SysProcess` | `ChildProcess` owned by a script object: `Construct`, `Update`, `Read`, `Write`, `SetData`, `SetTimeout`, `Kill`, `Finalize` in any order |
| `SysExec` | `ChildProcess` driven by the loops of `execute()` and `execute_shell()`; some calls run a child that echoes its stdin (`Cat`) |
| `ReadCallback` | the line splitter, one action per loop iteration |
| `FileObject` | the POSIX part of `fs.file`: the hidden properties of any number of script objects, the open file descriptions behind them, one file, and another process; one action per method, or for reads, writes and lock() one where the method begins and one per outcome of a system call |
| `SerialPort` | any number of `sys.serialport` objects of one device: `basic_serial_port`, `serial_tty` and `open_port_tracking`; environment: the device, and an application that opens and closes descriptors of its own |
| `Socket` | a `sys.socket` object and `basic_socket`; environment: the TCP stack, the peer, and other descriptors of the application |
| `Engine` | the value stack of `basic_engine` under nested scripts and native functions, and the exceptions that cross them; environment: Duktape |
| `ChildProcessProofs`, `SysProcessProofs`, `SysExecProofs`, `ReadCallbackProofs`, `FileObjectProofs`, `SerialPortProofs`, `SocketProofs`, `EngineProofs` | the theorems |
| `MCSysProcess`, `MCSysExec`, `MCFileObject`, `MCSerialPort` | option, call, mode and text sets for TLC |

Operators named `X_Something` next to `X` are plausible mistakes in `X`; they
are not used by the specifications and serve to show that the properties notice
them.

**Processes.** `pc` is the next system call (`timeout`, `stdin`, `poll`,
`rdout`, `rderr`, `wait`, `return`; `reap1` and `reap2` are the two `waitpid()`
of `process_handles::close()`); the other variables have the names of the
members.  Text is abstracted to byte counts: a pipe is a FIFO, so `data + taken`
bytes received are the first bytes written.  `mark` is the position of the last
byte written by the child itself.  `torn`, `stale`, `sent`, `owed` are history.
Signals are a pending set, delivered to a live child at any later time (killing
it or, except SIGKILL, handled); a program that cannot be executed is a child
that exits with 1, as in the code; `waitpid()` does not fail for other reasons
than ECHILD (that the blocking one, line 506, is interrupted, after which the code
does not try again, is left out); whoever writes into a pipe whose read end was
closed is not tracked.  A start that fails is one step
(`RunFails`): the pipe ends that run() has opened by then are local variables,
and no property speaks of them.  `OutputComplete` counts a text as returned when
read_callback() has got it; what happens to it there is `ReadCallback`.

**Files.** In `FileObject` text is kept, as sequences over a few bytes, since
line ends, positions and truncation are what the properties are about.  `fd`,
`options` and `feof` are the hidden properties, `options` as the set of letters
in the sanitized string; `b`, `t`, `s` and the creation mode bits, which change
no state of the model, are left out.  `call` holds the local variables of the
method in progress, `ret` what it returned, with the bytes that really moved
(`used`) beside it.  A method of an object that is not open, or that lacks the
access, throws (EBADF) and changes nothing, so it is no action.  The kernel is
what open(2), read(2), write(2), lseek(2) and flock(2) say of regular files;
reads and writes may fail, stop with EAGAIN or EINTR, and take part of the text.
The counter n_written of write() is the length of what is no longer `left`.

**Serial ports.** `d`, `rx_buffer`, `rx_newline` and `open_` are the members of
the same name, `desc` is the descriptor table of the process, and `call` holds
the local variables of the method in progress.  The outcomes of open() are kept
apart by what they leave behind: no descriptor (`Refused`), a configured one
(`Configured`, also behind an open() that returns false because of the
baudrate), or the number of a descriptor that was closed again
(`Misconfigured`).  `via` tells how the descriptor was obtained, by path and
lock or by a short name, and `moved` whether it got its number from a purge() or
a throwing open(), which do not tell the list of open ports.  Time is abstracted:
a read or readln() may end after every round.  `LinesComplete` speaks of one call
of readln() at a time: its history begins anew with the next one, and after a
read error, which loses lines.

**Sockets.** `errno` is 0 or not, since only `check_error()` tells the values
apart, which the actions do (`Fatal`, `SendAgain`, `SendInterrupted`, ...).
`conn` is what the TCP stack knows.  `timeout_`, `checksent_` and `listening_`
are left out: no method uses the first two, and listen() always ends with
close().

**Engine.** `vs` is the value stack and `bottom` where Duktape's current frame
begins in it.  `frames` are the active native functions, the application first,
with what each counts on (`own`) and the value of the stack_guard of the eval()
or call() it is in.  A value is its own position when a native function put it
there, so that a value that moved or was overwritten is seen; negative values
are thrown ones, whose kind and text `thrown` keeps.  An exception on its way
(`exc`) has what the code knows of it (the value, or the text and call stack of a
script_error), and as history the value it began with (`err`) and how it goes on
(`as`): function_proxy throws the value it finds on top of the stack, `same`;
methods, constructors, and function_proxy for errors without a call stack throw
a new Error with the text, `copy`; and when a native function has changed its
stack while the exception passed, in a catch block or by a stack_guard of its
own, it may be any `other`.  Duktape is built with `DUK_RETHROW_CPP_EXCEPTIONS`: it
unwinds for values that are thrown, not for C++ exceptions that pass it
(`broken`).  After such an exception has reached the application only clear() is
modelled; the model ends when a native function catches an engine_error that has
passed Duktape.  Getters and setters of native objects behave as methods do.

## Runs

| run | shows | bounds |
| --- | --- | --- |
| `process` | output, stdin, signals, exit codes, tear down and final state of a `sys.process`; `KeepsContract` | one byte pipes, a byte per stream, two of stdin, an heir; SIGPIPE ignored or at its default; stderr alone or redirected into stdout, stdin closed or kept: partial writes, EAGAIN and EPIPE happen, output is written before and after every system call; `MaxClock` = timeout + additional time + 1, so that both limits are passed |
| `exec` | `sys.exec`/`sys.shell`: nothing left, complete output, right code on each way out, `KeepsContract`, and (liveness) a timeout ends the call, an echoing child does not block it | calls with and without callbacks and noexcept, a shell call, a call of `cat` with four bytes of input over one byte pipes (both pipes and `cat` are full before the input is written); SIGPIPE at its default disposition |
| `read_callback` | lines are delivered completely, in order, at once, for every cut | all texts of up to five characters of `a`, LF, CR |
| `file_object` | descriptors, completeness of reads and lines, accounting of writes, append, truncation; no deadlock | two objects and one descriptor, so that an open() fails and a number is reused at once; a file of up to three bytes, the length of a two byte line end with something before or behind it; CR, LF and (from gaps) NUL; five modes: read, update, exclusive, append, truncate |
| `serial_port` | who owns which descriptor and the lock, the list of open ports, completeness of lines, accounting of writes | two objects and two descriptors shared with the application, so that numbers run out and are reused; one of the objects reads and writes; two texts of three bytes with CR LF, an empty line and an unfinished line, in every cut; automatic, LF and CR LF |
| `socket` | the descriptor on every error path, completeness of the stream, counts of send(), errors close | two descriptors, three bytes received, four sent: three partial sends over two rounds of the outer loop |
| `engine` | unwinding, values of callers, forwarded errors or their text, exit() | the application and two native functions on top of each other, one value or argument each, two errors |
| `append_mode` | violation: mode "a" cannot write | |
| `signalled_exitcode` | violation: a signalled child has exit code 0 | |
| `exec_flood` | violation: an endless writer defeats the timeout | |
| `empty_lines` | violation: text behind an empty line is dropped | |
| `connect_timeout` | violation: connect() returns without a connection | |

The theorems lift these bounds for all safety properties; liveness is checked
within them.  Deadlock is checked in `file_object` only: the
others end (`gone`, `failed`, `sigpipe`, exit of the process, std::terminate),
or wait for a child or peer that may do nothing for ever.

Fairness.  `FairSpec` of `SysExec` assumes that the application executes its
own steps, that time passes, and that a pending SIGKILL takes effect; nothing is
assumed of the child, except that `cat` goes on when it can.  `ReadCallback`
assumes that the application runs.  The code has no other scheduling.  `Endless
= FALSE` limits output to `MaxOut` bytes; with `TRUE` writers go on (bytes beyond
the bound are not counted), and `TimeoutTerminates` fails, since the loop
`while(r > 0)` in `update()` has no other end.

## Refinement

`ProcessContract` has seven variables and eleven short actions: an object is
started or refused, runs until the child was waited for and all it wrote has
arrived, is then finished for good with the child's exit code (-1 after a
timeout or kill()), and is closed only when no process is left.  `KeepsContract`
maps `child_process` to it (`Life`, `Unread`, `Verdict` at the end of
`ChildProcess`): polls, partial reads and writes, signals and heirs become
stutters or `Produce`, `Deliver`, `Expire`.  Two owners implement it, the script
object and the loop of sys.exec(); TLC checks both, and `ContractKept` and
`ExecContractKept` prove the step simulation for all constants.

## Proofs

All theorems hold for every value of the constants under the assumptions named
in the modules (`ConstantsAssumption`, `TimeoutsAssumption`, `ExecAssumption`,
`ReadCallbackAssumption`, `FileAssumption`, `SerialAssumption`,
`SocketAssumption`, `EngineAssumption`).
Every inductive invariant was an invariant of a TLC run before it was proved.
Each proof module also proves type correctness (`TypeOK`) for all constants; the
runs do not repeat it, except for `ReadCallback`.  Every invariant and action
property of the passing runs is proved.

* **Processes.** `CPInv` (end of `ChildProcess`) is shared by the two owners;
  `ChildProcessProofs` shows once per action that it is kept.  `NoOutputLost` is
  not inductive by itself: `Draining` follows the update() after the one that
  reaped the child, in which the child can no longer write (`ChildState`), so
  that a stream is drained once poll() did not report it or read() found it
  empty; it also needs that a closed stream was drained.  `Reaping` and
  `Killing` list the steps between the `waitpid()` of `process_handles::close()`
  and the end of kill() in which a reaped pid is still stored.
  `SysProcessProofs` derives all properties of the `process` run, including the
  action property `FinishedIsFinal` and the refinement.  `SysExecProofs` adds
  `OnlyDestroyed` (nobody calls kill(), so the pipes are torn down by the
  destructor only) and `Returned` (a value is composed only after the child was
  reaped); without the first, `NothingLeft` cannot exclude a stale signal.
* **Lines of callbacks.** `IndInv` of `ReadCallback` says where the buffer lies
  in the text (`BufferIsTail`), that it begins behind a LF, and that as many
  lines were delivered as there are LF before it (`CallsMatch`).  `Lines`, the
  reference, is defined by counting, line k being what lies between the LF number
  k - 1 and k, so that no induction over the text is needed: a piece adds
  to the text behind the buffer, a line taken is the line with the next number.
  The least LF of the buffer, and the last byte that stays when CR and LF are
  removed from its end, exist by well-foundedness.  `WorkDecreases` proves the
  variant of the loop, the part of `AllFlushed` that needs no fairness.
* **Files.** `IndInv` of `FileObject` adds what links a call to the state it
  began in: the object stays open (`CallOpen`), the text read is the text taken
  and the text written is the head of the argument (`CallAccounted`), and the
  flags of a descriptor are those of the stored options (`FlagsOfOptions`),
  without which `AppendOnly` says nothing of O_APPEND.  `OpenPreserves` needs
  `FileExists` (an exclusive open() of a file that is not there has nothing to
  lose) and a lemma on all mode strings (`TruncatingMode`).  `LineReturned` needs
  `LineOpen`: readln() reads byte by byte, so that a newline can only be at the
  end of what it has, where it is looked for after each byte.
* **Serial ports.** `SPInv` adds `LockHeld`: `Exclusive` speaks of two objects,
  but what keeps them apart is the one lock, whose holder is the object that
  opened by path; `Tracked`, which excepts the ports that purge() or a throwing
  open() has renumbered (`moved`); and `TxInside`, the counter of the inner write loop.
  `LinesComplete` is inductive relative to `SPInv`.  It states that the buffer is
  the end of what was received and that there is an order-preserving one to one
  map (`at`) from the lines to the words before the buffer; a read leaves
  the map alone, a line split off extends it by the place where the buffer began
  (`SplitOne`), and CR LF, a newline of one byte or an empty line move the
  buffer over newlines only (`Found`, `BeginsOfNext`).
* **Sockets.** `SocketInv` adds that a closed socket has no connection and no
  queued bytes (`ClosedIsQuiet`) and relates the counters of the two loops of
  send() (`SendCounters`).
* **Engine.** `EngineInv` describes the layout of the whole value stack
  (`Layout`: the frames lie behind each other, each script's frame two
  temporaries behind the values of the function that runs it) and where an
  exception can be and what lies on the stack for it (`Errors`): a script_error
  with a call stack has its value, or a copy with its text, on top of the stack
  until function_proxy rethrows it, unless the function changed its stack.  `CallerKept` follows from the layout, `ErrorForwarded` from
  `Errors`; `ExitReaches` is an action property.

Only model-checked: liveness (`TimeoutTerminates`, `CatEchoes`, `AllFlushed`),
which is beyond the prover.

## Findings and observations

The five violation runs are described in `PROJECT.json`.  Further
observations made while modelling, visible in the model but without a run:

* kill(false) ends in SIGKILL for a child that does not terminate at once
  (`ReapOrForce`), the documentation speaks of a graceful request;
* between the end of the child and `running` being false, write() raises
  SIGPIPE in an application with the default disposition (`WriteSigpipe`), and
  so does send() of a socket whose peer has gone (`SendSigpipe`);
* a timeout of 1 is not enforced (`Overdue`); the time before SIGKILL counts
  from the start of the process, not from SIGINT;
* sys.exec() with noexcept returns exit code 0 when pipe() or fork() fails
  (`ErrorResult`), the documentation says undefined;
* the update(0) inside kill() may signal a pid that was just reaped (`stale`);
* fs.file.lock() waits without limit, also for a lock of the same script
  (`Granted`), and changing the type of a lock gives the old one up first;
* seek(n, "end") goes forward from the end (`SeekTarget`), the documentation
  says backward; negative positions are refused, so there is no way backward;
* modes with both "x" and "e" open and truncate an existing file (`Sanitized`
  drops the "x"), the documentation says that "x" makes this fail;
* eof() stays true after a seek() back into the file (`Seek`);
* serial port: an open() that fails in fcntl() or tcsetattr() closes the
  descriptor and stores its number (`Misconfigured`), and with an invalid
  baudrate it throws but leaves the port open (`Configured` with `added`
  FALSE), although "on error, the port is closed()";
* the list of open ports keeps the numbers of ports that were opened again,
  purged or finalized, and closes them at exit whoever has them by then
  (`Exit`); on the other hand a port that got another number from purge(), or
  from an open() that threw, is not on it and nothing closes it at exit, although
  "a manual tracking of open ports is needed" (line 1705); a short name is opened without the lock (`Gets`);
* with rxnewline CR LF every line but the first begins with a LF
  (`NextStart`: one byte is skipped); a read error in readln() loses the lines
  split before (`RxError`); open() keeps the receive buffer of the session
  before; the deadline of read() compares nanoseconds with seconds and subtracts
  the time left instead of the time passed (lines 805 and 875);
* socket: recv() without a timeout returns an empty text whatever has arrived,
  the default timeout is never used; a send() that is interrupted after a part
  was sent returns less than was sent (`SendInterrupted`); the error of an option
  that could not be read stays and is thrown by a later recv() or send()
  (`OptionGetFails`); connect() with a timeout option out of range throws and
  leaves an unconnected socket open (`BadTimeout`); listen() refuses every second
  argument, as create_socket() takes it for the options;
* engine: a failing eval() or call() of the application leaves the error on the
  value stack, where nobody removes it, so that the stack grows (`ErrorLeft`);
  call() with StrictReturn and a wrong type clears all values of the native
  function that called it (`WrongType`), eval() does not; `throw undefined` or
  `throw null` in a script reaches the application as a fatal error of Duktape
  instead of a script_error (`OpFails`, `ThrowsUnprotected`), although "An ECMA
  exception/`Error` can be caught as `duktape::script_error`" (readme.md:106),
  and so does a
  toString() that throws while a result is converted, or it ends the process in a
  noexcept conversion (`ConversionThrows`); methods and getters forward the text
  of an error, not the Error object (`MethodThrows`); a native function that
  changes its stack and rethrows a script_error makes function_proxy throw
  whatever is on top then (`Push`, `Rethrow`); a std::exception in a
  constructor becomes an engine_error, after which Duktape is not unwound
  (`ConstructorThrows`, `FatalPasses`).

## Plan

Done: the process, file, serial port, socket and engine modules, their abstract
process specification and their proofs.  Next, in this order:

1. `MemoryMap` (mapping, bounds, sync; mmap() reports failure with MAP_FAILED,
   which the code does not look for).
2. `SRecord` and the CRC chain of `sys.hash` against reference definitions.
3. `LinesComplete` for longer newlines, once the code skips all of them.

## Not modelled

* Duktape itself (`duktape.c`, `duktape.h`, `duk_config.h`): vendored third-party
  code, some 105,000 of the 124,000 lines of the repository.  Its contract (value
  stack, protected calls, unwinding) is the environment of `Engine`.  A map that
  covered a large share of all lines would have to model Duktape.
* The Windows branches: other implementations, not compiled on POSIX.
* In modelled components: address parsing and lookup of sockets, line settings
  and device enumeration of serial ports, the conversions of values, the
  definition of objects and the mutex of the engine (threads), and an engine that
  is used after exit() without clear().
* `fs`, `fs.ext`, `stdio`, `stdlib`, `sys`, `xlang`, `conv`, `resource_blob`,
  `usb`, `sys.os`, the command line: wrappers of library calls or external
  programs without state of their own, parsers and formatting.
* `sys.hash`: arithmetic on 32 and 64 bit words over whole texts, where a small
  instance shows nothing a test vector does not.

`PROJECT.json` lists every component.
