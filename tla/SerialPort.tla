----------------------------- MODULE SerialPort -----------------------------
(***************************************************************************)
(* The script class sys.serialport (duktape/mod/ext/mod.ext.serial_port.hh,*)
(* POSIX): the classes basic_serial_port (descriptor, open, close, purge,  *)
(* read, write) and serial_tty (receive buffer, lines), and the list of    *)
(* descriptors that is closed when the application exits.                  *)
(*                                                                         *)
(* All objects open the same device.  The environment is the device and    *)
(* the rest of the application, which opens and closes descriptors of its  *)
(* own.  Line parameters, the modem lines and the error text change        *)
(* nothing the properties are about; which settings open() meets, and what *)
(* other processes do with the device, is a choice among its outcomes.     *)
(* Methods that throw before they change anything are no actions.          *)
(***************************************************************************)
EXTENDS Integers, Sequences

CONSTANTS
  Objs,      \* script objects
  Fds,       \* descriptor numbers
  Users,     \* bound: the objects that read, write and change rxnewline
  Newlines,  \* values of the rxnewline property, <<>> for automatic
  Texts,     \* bound: what the device may send, from first to last
  MaxTx      \* bound: length of a text to write

NoFd  == -1
Byte  == {"CR", "LF", "x", "?"}   \* "?" comes from a file of the application

ASSUME SerialAssumption ==
  /\ Fds \subseteq Nat
  /\ Newlines \subseteq Seq(Byte) /\ <<>> \in Newlines
  /\ Texts \subseteq Seq(Byte)
  /\ MaxTx \in Nat
  /\ Users \subseteq Objs
  /\ {"free", "other"} \cap Objs = {}

VARIABLES
  d,          \* d_
  rx_buffer,  \* rx_buffer_
  rx_newline, \* rx_newline_
  open_,      \* open_port_tracking::open_
  call,       \* the method call in progress
  desc,       \* per number: free, other (of the application), or the object that opened it
  locked,     \* the descriptor that holds the exclusive lock, or NoFd
  rxq,        \* input queue of the device
  coming,     \* what the device has not sent yet
  \* history
  via,        \* how the object got the descriptor it has
  moved,      \* it got its number by purge(), or by an open() that threw
  broken,     \* some open() went on with a descriptor it had closed
  fed         \* bytes put into rx_buffer in this readln(), after what was there

objVars  == <<d, rx_buffer, rx_newline>>
osVars   == <<desc, locked, rxq, coming>>
histVars == <<via, moved, broken, fed>>
vars     == <<objVars, open_, call, osVars, histVars>>

Idle == [op |-> "idle"]
Over == [op |-> "exit"]

(* Local variables: rx, the text of base_type::read(); received and        *)
(* ignore, the lines and flag of readln(); tx and n, text and counter of   *)
(* the two loops of write(), sent what the device got of the text 1..size. *)
Calls ==
  {Idle, Over}
  \cup [op : {"read", "readln", "split"}, o : Objs, rx : Seq(Byte),
        received : Seq(Seq(Byte)), ignore : BOOLEAN]
  \cup [op : {"write"}, o : Objs, size : Nat, tx : Seq(Nat), n : Nat, sent : Seq(Nat)]

Ways == {"none", "path", "alias"}

TypeOK ==
  /\ d \in [Objs -> Fds \cup {NoFd}]
  /\ rx_buffer \in [Objs -> Seq(Byte)]
  /\ rx_newline \in [Objs -> Newlines]
  /\ open_ \subseteq Fds
  /\ call \in Calls
  /\ desc \in [Fds -> {"free", "other"} \cup Objs]
  /\ locked \in Fds \cup {NoFd}
  /\ rxq \in Seq(Byte) /\ coming \in Seq(Byte)
  /\ via \in [Objs -> Ways]
  /\ moved \in [Objs -> BOOLEAN]
  /\ broken \in BOOLEAN
  /\ fed \in [Objs -> Seq(Byte)]

Init ==
  /\ d = [o \in Objs |-> NoFd]
  /\ rx_buffer = [o \in Objs |-> <<>>]
  /\ rx_newline = [o \in Objs |-> <<>>]
  /\ open_ = {} /\ call = Idle
  /\ desc = [f \in Fds |-> "free"] /\ locked = NoFd
  /\ rxq = <<>> /\ coming \in Texts
  /\ via = [o \in Objs |-> "none"] /\ moved = [o \in Objs |-> FALSE] /\ broken = FALSE
  /\ fed = [o \in Objs |-> <<>>]

idle == call.op = "idle"
-----------------------------------------------------------------------------
(* Descriptors of the process *)

(* open(2) returns the lowest free number. *)
Lowest(f, table) == table[f] = "free" /\ \A g \in Fds : g < f => table[g] # "free"

(* close(2) of a number, whoever it belongs to by now. *)
Closed(f)   == IF f \in Fds THEN [desc EXCEPT ![f] = "free"] ELSE desc
Unlocked(f) == IF f \in Fds /\ locked = f THEN NoFd ELSE locked

(* tcflush(d_) reaches the device if the number is that of a port. *)
Flushed(f) == IF f \in Fds /\ desc[f] \in Objs THEN <<>> ELSE rxq

CloseResets_Not(o)  == d' = d                      \* mutant: d_ keeps the number

(* close() of basic_serial_port forgets the descriptor. *)
CloseResets(o) == d' = [d EXCEPT ![o] = NoFd]

(* The accounting of lines starts again with what is in rx_buffer. *)
Restart(o, t) == fed' = [fed EXCEPT ![o] = t]

(* close() and purge() of serial_tty clear the receive buffer. *)
TtyCloseClears(o) ==
  /\ rx_buffer' = [rx_buffer EXCEPT ![o] = <<>>]
  /\ Restart(o, <<>>)
-----------------------------------------------------------------------------
(* open() *)

(* History of an object without a descriptor. *)
Without(o) ==
  /\ via' = [via EXCEPT ![o] = "none"]
  /\ moved' = [moved EXCEPT ![o] = FALSE]

(* open() after its close(), without a descriptor to show for it: no port  *)
(* or invalid settings given, open(2) fails, the lock is held by others,   *)
(* no tty, or its attributes cannot be read.                               *)
Refused(o) ==
  /\ CloseResets(o)
  /\ desc' = Closed(d[o]) /\ locked' = Unlocked(d[o]) /\ rxq' = Flushed(d[o])
  /\ Without(o) /\ broken' = broken

MayLock_Ignored(o) == TRUE   \* mutant: the result of flock() is not looked at

(* flock(LOCK_EX | LOCK_NB) *)
MayLock(o) == Unlocked(d[o]) = NoFd

(* open(2) gives fd.  By the device's own path the lock is needed; a short *)
(* name that was found in the device list is opened without it.            *)
Gets(o, fd, direct) ==
  /\ Lowest(fd, Closed(d[o]))
  /\ direct => MayLock(o)
  /\ d' = [d EXCEPT ![o] = fd]

(* The port is configured.  added: the caller adds fd to the list of       *)
(* tracked descriptors, or else history knows that the number is new.      *)
Configured(o, fd, direct, added) ==
  /\ Gets(o, fd, direct)
  /\ desc' = [Closed(d[o]) EXCEPT ![fd] = o]
  /\ locked' = IF direct THEN fd ELSE Unlocked(d[o])
  /\ rxq' = <<>>
  /\ via' = [via EXCEPT ![o] = IF direct THEN "path" ELSE "alias"]
  /\ moved' = [moved EXCEPT ![o] = ~added /\ (@ \/ fd # d[o])]
  /\ broken' = broken

(* fcntl() or tcsetattr() fails: the descriptor is closed, and the object  *)
(* keeps its number.                                                       *)
Misconfigured(o, fd, direct) ==
  /\ Gets(o, fd, direct)
  /\ desc' = Closed(d[o]) /\ locked' = Unlocked(d[o])
  /\ rxq' \in {Flushed(d[o]), <<>>}
  /\ Without(o) /\ broken' = TRUE

(* The open() method throws unless the port was opened, and then tracks    *)
(* the descriptor.  With an invalid baudrate the port is opened and        *)
(* configured, but open() returns false.  It calls close() of the base     *)
(* class, so that rx_buffer keeps what an earlier session left.            *)
Open(o) ==
  /\ idle
  /\ \/ Refused(o) /\ UNCHANGED open_
     \/ \E fd \in Fds, direct \in BOOLEAN :
          \/ Configured(o, fd, direct, TRUE) /\ open_' = open_ \cup {fd}
          \/ Configured(o, fd, direct, FALSE) /\ UNCHANGED open_
          \/ Misconfigured(o, fd, direct) /\ UNCHANGED open_
  /\ UNCHANGED <<rx_buffer, rx_newline, call, coming, fed>>

(* purge() closes and opens the port again, whether or not this succeeds,  *)
(* and does not touch the list.                                            *)
Purge(o) ==
  /\ idle
  /\ \/ Refused(o)
     \/ \E fd \in Fds, direct \in BOOLEAN :
          \/ Configured(o, fd, direct, FALSE)
          \/ Misconfigured(o, fd, direct)
  /\ TtyCloseClears(o)
  /\ UNCHANGED <<rx_newline, open_, call, coming>>

Untrack_Rest(f) == {g \in open_ : g < f}   \* mutant: erase(find(f), end())

(* operator-= *)
Untrack(f) == open_ \ {f}

(* close() method *)
Close(o) ==
  /\ idle
  /\ open_' = Untrack(d[o])
  /\ CloseResets(o)
  /\ desc' = Closed(d[o]) /\ locked' = Unlocked(d[o]) /\ rxq' = Flushed(d[o])
  /\ TtyCloseClears(o)
  /\ Without(o)
  /\ UNCHANGED <<rx_newline, call, coming, broken>>

(* The finalizer deletes the object: the destructor closes the descriptor, *)
(* the list keeps it.  o then stands for the next object of the script.    *)
Finalize(o) ==
  /\ idle
  /\ d' = [d EXCEPT ![o] = NoFd]
  /\ desc' = Closed(d[o]) /\ locked' = Unlocked(d[o])
  /\ Without(o)
  /\ rx_buffer' = [rx_buffer EXCEPT ![o] = <<>>]
  /\ rx_newline' = [rx_newline EXCEPT ![o] = <<>>]
  /\ Restart(o, <<>>)
  /\ UNCHANGED <<open_, call, rxq, coming, broken>>

(* The rxnewline property. *)
SetRxNewline(o, nl) ==
  /\ idle
  /\ rx_newline' = [rx_newline EXCEPT ![o] = nl]
  /\ Restart(o, rx_buffer[o])
  /\ UNCHANGED <<d, rx_buffer, open_, call, osVars, via, moved, broken>>

(* Static destruction: all tracked numbers are closed. *)
Exit ==
  /\ idle
  /\ call' = Over
  /\ desc' = [f \in Fds |-> IF f \in open_ THEN "free" ELSE desc[f]]
  /\ locked' = IF locked \in open_ THEN NoFd ELSE locked
  /\ UNCHANGED <<objVars, open_, rxq, coming, histVars>>
-----------------------------------------------------------------------------
(* read() and readln() *)

Begin(o, op, skip) ==
  /\ idle /\ d[o] # NoFd
  /\ call' = [op |-> op, o |-> o, rx |-> <<>>, received |-> <<>>, ignore |-> skip]
  /\ UNCHANGED <<objVars, open_, osVars, histVars>>

Read(o)         == Begin(o, "read", FALSE)
Readln(o, skip) == Begin(o, "readln", skip)

Reading  == call.op \in {"read", "readln"}

(* One ::read() of the loop of base_type::read() returns bytes: those of   *)
(* the device, or, with a number that now belongs to the application, any. *)
(* The loop goes on, or ends with the deadline (RxEnd).                    *)
RxData ==
  /\ Reading
  /\ \/ /\ desc[d[call.o]] \in Objs
        /\ \E n \in 1..Len(rxq) :
             /\ call' = [call EXCEPT !.rx = @ \o SubSeq(rxq, 1, n)]
             /\ rxq' = SubSeq(rxq, n + 1, Len(rxq))
     \/ /\ desc[d[call.o]] = "other" /\ call.rx = <<>> /\ fed[call.o] = <<>>   \* bound
        /\ call' = [call EXCEPT !.rx = <<"?">>] /\ rxq' = rxq
  /\ UNCHANGED <<objVars, open_, desc, locked, coming, histVars>>

RxAppended_Replaced(o) == call.rx   \* mutant: the incomplete line is dropped

(* rx_buffer_.append(rx) *)
RxAppended(o) == rx_buffer[o] \o call.rx

(* Nothing there, EAGAIN, EINTR, timeout, or the deadline after some data: *)
(* read() returns rx to the script, readln() appends it to rx_buffer and   *)
(* looks for lines.                                                        *)
RxEnd ==
  /\ Reading /\ desc[d[call.o]] # "free"
  /\ IF call.op = "read"
     THEN call' = Idle /\ UNCHANGED <<rx_buffer, fed>>
     ELSE /\ call' = [call EXCEPT !.op = "split", !.rx = <<>>]
          /\ rx_buffer' = [rx_buffer EXCEPT ![call.o] = RxAppended(call.o)]
          /\ fed' = [fed EXCEPT ![call.o] = @ \o call.rx]
  /\ UNCHANGED <<d, rx_newline, open_, osVars, via, moved, broken>>

(* The device is gone, or the number is not open any more: the call throws *)
(* and what it has read and split so far is lost.                          *)
RxError ==
  /\ Reading
  /\ call' = Idle
  /\ Restart(call.o, rx_buffer[call.o])
  /\ UNCHANGED <<objVars, open_, osVars, via, moved, broken>>

(* Where the first line of a text ends: find_first_of("\r\n") without, find *)
(* of the whole sequence with a newline setting.                           *)
NewlineAt(t, nl, p) ==
  IF nl = <<>> THEN p \in 1..Len(t) /\ t[p] \in {"CR", "LF"}
               ELSE p + Len(nl) - 1 <= Len(t) /\ SubSeq(t, p, p + Len(nl) - 1) = nl

FirstNewline(t, nl, p) ==
  p \in 1..Len(t) /\ NewlineAt(t, nl, p) /\ \A q \in 1..(p - 1) : ~NewlineAt(t, nl, q)

(* Where the next line begins: behind the first byte of the newline, in    *)
(* automatic mode behind a CR LF if both are there.                        *)
NextStart(t, nl, p) ==
  IF nl = <<>> /\ t[p] = "CR" /\ p < Len(t) /\ t[p + 1] = "LF" THEN p + 2 ELSE p + 1

(* One iteration of the splitting loop. *)
SplitLine ==
  /\ call.op = "split"
  /\ LET t == rx_buffer[call.o]  nl == rx_newline[call.o] IN
       \E p \in 1..Len(t) :
         /\ FirstNewline(t, nl, p)
         /\ LET line == SubSeq(t, 1, p - 1) IN
              call' = [call EXCEPT !.received =
                         IF line # <<>> \/ ~call.ignore THEN Append(@, line) ELSE @]
         /\ rx_buffer' = [rx_buffer EXCEPT ![call.o] = SubSeq(t, NextStart(t, nl, p), Len(t))]
  /\ UNCHANGED <<d, rx_newline, open_, osVars, histVars>>

NoLineLeft == LET t == rx_buffer[call.o] IN
                \A p \in 1..Len(t) : ~NewlineAt(t, rx_newline[call.o], p)

(* Before the deadline readln() reads again, behind it the lines are       *)
(* returned.                                                               *)
SplitEnd ==
  /\ call.op = "split" /\ NoLineLeft
  /\ \/ call' = [call EXCEPT !.op = "readln"] /\ UNCHANGED fed
     \/ call' = Idle /\ Restart(call.o, rx_buffer[call.o])
  /\ UNCHANGED <<objVars, open_, osVars, via, moved, broken>>
-----------------------------------------------------------------------------
(* write() and writeln(): an outer loop over what is left of the text, an  *)
(* inner one over the system calls.                                        *)

Positions(n) == [i \in 1..n |-> i]

Write(o, n) ==
  /\ idle /\ d[o] # NoFd
  /\ call' = [op |-> "write", o |-> o, size |-> n, tx |-> Positions(n), n |-> 0, sent |-> <<>>]
  /\ UNCHANGED <<objVars, open_, osVars, histVars>>

(* ::write() takes k bytes. *)
TxData(k) ==
  /\ call.op = "write" /\ desc[d[call.o]] # "free"
  /\ k <= Len(call.tx) - call.n
  /\ call' = [call EXCEPT !.n = @ + k,
                          !.sent = @ \o SubSeq(call.tx, call.n + 1, call.n + k)]
  /\ UNCHANGED <<objVars, open_, osVars, histVars>>

TxRest_Same(n) == call.tx   \* mutant: starts over

(* tx.substr(n) *)
TxRest(n) == SubSeq(call.tx, n + 1, Len(call.tx))

(* EINTR, or a write of no byte, ends the inner loop: the outer one goes   *)
(* on with the rest.  EAGAIN sleeps and tries again.                       *)
TxInterrupted ==
  /\ call.op = "write" /\ call.n < Len(call.tx)
  /\ call' = [call EXCEPT !.tx = TxRest(call.n), !.n = 0]
  /\ UNCHANGED <<objVars, open_, osVars, histVars>>

TxDone ==
  /\ call.op = "write" /\ call.n = Len(call.tx)
  /\ call' = Idle
  /\ UNCHANGED <<objVars, open_, osVars, histVars>>

TxError ==
  /\ call.op = "write" /\ call.n < Len(call.tx)
  /\ call' = Idle
  /\ UNCHANGED <<objVars, open_, osVars, histVars>>
-----------------------------------------------------------------------------
(* The device, the application and other processes *)

(* A byte arrives at a device that is open. *)
Arrive ==
  /\ coming # <<>> /\ \E f \in Fds : desc[f] \in Objs
  /\ rxq' = Append(rxq, Head(coming)) /\ coming' = Tail(coming)
  /\ UNCHANGED <<objVars, open_, call, desc, locked, histVars>>

(* The application opens and closes files between two calls. *)
OtherOpens(f) ==
  /\ idle /\ Lowest(f, desc)
  /\ desc' = [desc EXCEPT ![f] = "other"]
  /\ UNCHANGED <<objVars, open_, call, locked, rxq, coming, histVars>>

OtherCloses(f) ==
  /\ idle /\ desc[f] = "other"
  /\ desc' = [desc EXCEPT ![f] = "free"]
  /\ UNCHANGED <<objVars, open_, call, locked, rxq, coming, histVars>>

Next ==
  \/ \E o \in Objs : Open(o) \/ Purge(o) \/ Close(o) \/ Finalize(o)
  \/ \E o \in Users : \/ Read(o)
                      \/ \E nl \in Newlines : SetRxNewline(o, nl)
                      \/ \E skip \in BOOLEAN : Readln(o, skip)
                      \/ \E n \in 1..MaxTx : Write(o, n)
  \/ RxData \/ RxEnd \/ RxError \/ SplitLine \/ SplitEnd
  \/ \E k \in 1..MaxTx : TxData(k)
  \/ TxInterrupted \/ TxDone \/ TxError
  \/ Arrive
  \/ \E f \in Fds : OtherOpens(f) \/ OtherCloses(f)
  \/ Exit

Spec == Init /\ [][Next]_vars
-----------------------------------------------------------------------------
(* Properties *)

(* Unless an open() kept the number of a descriptor it had closed, the     *)
(* number in an object always is that of a port the object opened itself,  *)
(* and of no other: through any sequence of open(), open() again, purge(), *)
(* close() and finalization, with failures, and with an application that   *)
(* reuses the numbers at once.  So no call reads, writes or closes a       *)
(* descriptor of somebody else.                                            *)
OwnsDescriptor ==
  ~broken /\ call.op # "exit" => \A o \in Objs : d[o] # NoFd => desc[d[o]] = o

(* A port that is open is on the list of what is closed at exit, also when *)
(* other objects were closed, finalized or opened under numbers the list   *)
(* had kept, and when its own number was opened again.  The exception are  *)
(* ports that got another number by purge(), or by an open() that threw    *)
(* for an invalid baudrate: only the open() method, when it succeeds, adds *)
(* a number, so these are not closed at exit.                              *)
Tracked ==
  ~broken => \A o \in Objs : d[o] # NoFd /\ ~moved[o] => d[o] \in open_

(* Two objects never have the device open at the same time, however they   *)
(* opened or reopened it, unless one got it by a short name, for which     *)
(* open() does not ask for the lock.                                       *)
Exclusive ==
  ~broken =>
    \A o, p \in Objs : o # p /\ d[o] # NoFd /\ d[p] # NoFd => "alias" \in {via[o], via[p]}

(* The bytes that end a line, if it takes only one. *)
NewlineBytes(nl) == IF nl = <<>> THEN {"CR", "LF"} ELSE {nl[1]}

(* Where the words begin that are between the newlines in t[1..c]. *)
WordBegins(t, c, newline) ==
  {i \in 1..c : t[i] \notin newline /\ (i = 1 \/ t[i - 1] \in newline)}

(* line is what t has from i on up to a newline, which is in t[1..c]. *)
WordAt(t, c, newline, i, line) ==
  /\ i + Len(line) <= c /\ t[i + Len(line)] \in newline
  /\ line = SubSeq(t, i, i + Len(line) - 1)
  /\ \A k \in 1..Len(line) : line[k] \notin newline

NotEmpty(received) == {j \in 1..Len(received) : received[j] # <<>>}

(* at tells for each line that is not empty which word of t[1..c] it is:   *)
(* every word is one of the lines, once, and they are in order.            *)
Matches(at, received, t, c, newline) ==
  /\ WordBegins(t, c, newline) = {at[j] : j \in NotEmpty(received)}
  /\ \A j, k \in NotEmpty(received) : j < k => at[j] < at[k]
  /\ \A j \in NotEmpty(received) : WordAt(t, c, newline, at[j], received[j])

(* buf is the end of t, from the beginning of a line on, and received are  *)
(* the lines before it.                                                    *)
Complete(received, t, buf, newline) ==
  LET c == Len(t) - Len(buf) IN
    /\ c >= 0 /\ buf = SubSeq(t, c + 1, Len(t))
    /\ c > 0 => t[c] \in newline
    /\ \E at \in [NotEmpty(received) -> 1..c] : Matches(at, received, t, c, newline)

(* The lines that the readln() in progress will return for o. *)
ReceivedBy(o) == IF call.op \in {"readln", "split"} /\ call.o = o THEN call.received ELSE <<>>

(* However the bytes are cut into reads, the lines of a readln() are what  *)
(* it has received, and what was in the buffer when it began: none lost,   *)
(* joined, split or repeated.  (A readln() that throws returns no lines,   *)
(* and those it had split until then are lost: RxError.)  What is still    *)
(* buffered is the end of what was received, from the beginning of a line  *)
(* on.  This is so for the automatic mode and for newlines of one byte.    *)
(* In automatic mode a CR LF cut in two gives an empty line more, so empty *)
(* lines are left aside.                                                   *)
LinesComplete ==
  \A o \in Objs : Len(rx_newline[o]) <= 1 =>
    Complete(ReceivedBy(o), fed[o], rx_buffer[o], NewlineBytes(rx_newline[o]))

(* While write() runs, the device has got a beginning of the text, in      *)
(* order and without a gap or a repetition, and when it returns all of it: *)
(* the counters of the two loops agree across partial writes and           *)
(* interruptions.                                                          *)
WriteAccounted ==
  call.op = "write" => call.sent \o SubSeq(call.tx, call.n + 1, Len(call.tx))
                         = Positions(call.size)
-----------------------------------------------------------------------------
(* The inductive invariant *)

(* Whoever opened the port by its path holds the lock, until the end of    *)
(* the process takes it away.                                              *)
LockHeld ==
  /\ ~broken => \A o \in Objs : via[o] = "none" <=> d[o] = NoFd
  /\ ~broken /\ call.op # "exit" => \A o \in Objs : via[o] = "path" => locked = d[o]

(* The counter of the inner loop stays inside the text of the outer one. *)
TxInside == call.op = "write" => call.n <= Len(call.tx)

SPInv == /\ TypeOK /\ OwnsDescriptor /\ Tracked /\ LockHeld /\ Exclusive
         /\ TxInside /\ WriteAccounted
=============================================================================
