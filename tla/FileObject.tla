----------------------------- MODULE FileObject -----------------------------
(***************************************************************************)
(* The script class fs.file (duktape/mod/mod.fs.file.hh, POSIX): objects   *)
(* whose hidden properties hold a descriptor, the sanitized open options   *)
(* and an end of file flag.  The script calls one method at a time; reads  *)
(* and writes are loops of system calls, between which another process     *)
(* appends to the file and takes locks.  All objects open the same path.   *)
(*                                                                         *)
(* A method of an object that is not open, or not open for what it does,   *)
(* throws and changes nothing; flush(), sync(), stat(), tell(), size() and *)
(* the queries change nothing either.  They are no actions.                *)
(***************************************************************************)
EXTENDS Integers, Sequences, FiniteSets

CONSTANTS
  Objs,      \* script objects
  Fds,       \* descriptor numbers of the process
  Modes,     \* open mode strings, sequences of Letters
  Bytes,     \* bytes the other process writes
  Texts,     \* arguments of write() and writeln()
  Newlines,  \* values of the newline property, <<>> when not set
  Sizes,     \* arguments of read()
  ReadMax,   \* bytes per system call of a read() without argument (4096)
  MaxSize    \* bound: file size and file positions

Letters == {"r", "w", "a", "+", "e", "c", "x", "p", "n", "?"}   \* "?": invalid

Byte    == Bytes \cup {"NUL", "CR", "LF"}

ASSUME FileAssumption ==
  /\ Objs # {} /\ Fds \subseteq Nat
  /\ Modes \subseteq Seq(Letters)
  /\ Texts \cup Newlines \subseteq Seq(Byte)
  /\ Sizes \subseteq Nat \ {0} /\ ReadMax \in Nat \ {0} /\ MaxSize \in Nat

VARIABLES
  live,     \* objects the script has
  fd,       \* hidden property fd, -1 when closed
  options,  \* hidden property options, the set of its letters
  feof,     \* eof(): hidden property feof, true when missing
  call,     \* the method call in progress
  ret,      \* result of the read or write call that just returned, and what it did
  desc,     \* open file descriptions: access, O_APPEND, position, flock
  exists, data,  \* the file
  other     \* lock of the other process

vars    == <<live, fd, options, feof, call, ret, desc, exists, data, other>>
objVars == <<live, fd, options, feof>>
osVars  == <<desc, exists, data, other>>

Closed == [acc |-> {}, append |-> FALSE, pos |-> 0, lock |-> "none"]

(* nl: newline, n: bytes per system call, text: argument or text read so   *)
(* far, left: bytes not written yet, used: history, bytes moved to or from *)
(* the file.                                                               *)
NoCall == [op |-> "none", obj |-> CHOOSE o \in Objs : TRUE, nl |-> <<>>, n |-> 0,
           text |-> <<>>, left |-> <<>>, used |-> <<>>, lock |-> "none"]
NoRet  == [op |-> "none", kind |-> "none", val |-> <<>>, used |-> <<>>, nl |-> <<>>,
           eof |-> FALSE]

Ops == {"none", "read", "readall", "readln", "write", "writeln", "lock"}

Text     == Seq(Byte)
LockType == {"none", "s", "x"}
CallRec  == [op : Ops, obj : Objs, nl : Text, n : Nat, text : Text, left : Text,
             used : Text, lock : LockType]
RetRec   == [op : Ops, kind : {"none", "value", "undefined", "throw"}, val : Text,
             used : Text, nl : Text, eof : BOOLEAN]
DescRec  == [acc : SUBSET {"r", "w"}, append : BOOLEAN, pos : Nat, lock : LockType]

TypeOK ==
  /\ live \subseteq Objs
  /\ fd \in [Objs -> Fds \cup {-1}]
  /\ options \in [Objs -> SUBSET Letters]
  /\ feof \in [Objs -> BOOLEAN]
  /\ call \in CallRec
  /\ ret \in RetRec
  /\ desc \in [Fds -> DescRec]
  /\ exists \in BOOLEAN
  /\ data \in Text
  /\ other \in LockType

Init ==
  /\ live = {}
  /\ fd = [o \in Objs |-> -1]
  /\ options = [o \in Objs |-> {}]
  /\ feof = [o \in Objs |-> TRUE]
  /\ call = NoCall /\ ret = NoRet
  /\ desc = [d \in Fds |-> Closed]
  /\ exists = FALSE /\ data = <<>>
  /\ other = "none"

Idle == call.op = "none"

NoResult == ret' = NoRet

Isopen(o) == fd[o] >= 0
-----------------------------------------------------------------------------
(* open(), close(), finalizer *)

Has(m, c) == \E i \in DOMAIN m : m[i] = c

(* A letter that a later one resets: "c" resets "e". *)
HasLast(m, c, reset) ==
  \E i \in DOMAIN m : m[i] = c /\ \A j \in (i + 1)..Len(m) : m[j] # reset

PlusOptions_Truncate(letters) ==   \* mutant: r+ does not set p
  IF "r" \in letters THEN {"w", "e"} ELSE {"r"}

(* What "+" adds: a+ reads, r+ writes an existing file and preserves it,   *)
(* w+ reads.                                                               *)
PlusOptions(letters) ==
  IF "a" \in letters THEN {"r"}
  ELSE IF "r" \in letters THEN {"w", "p", "e"}
  ELSE IF "w" \in letters THEN {"r"} ELSE {}

(* The sanitized options of a mode string without invalid letters. *)
Sanitized(m) ==
  LET letters == {c \in {"r", "w", "a", "x", "p", "n"} : Has(m, c)}
                   \cup (IF HasLast(m, "e", "c") THEN {"e"} ELSE {})
      all     == letters \cup (IF Has(m, "+") THEN PlusOptions(letters) ELSE {})
                   \cup (IF "a" \in letters THEN {"p"} ELSE {})
  IN  IF all \cap {"w", "a"} = {} \/ "e" \in all THEN all \ {"x"} ELSE all

AppendFlag_Never(opts) == FALSE   \* mutant: O_APPEND is forgotten

AppendFlag(opts) == "w" \in opts /\ "a" \in opts

(* The flags of ::open(); without "w" the file is opened O_RDONLY. *)
OpenFlags(opts) ==
  [acc    |-> IF "w" \in opts THEN {"w"} \cup (opts \cap {"r"}) ELSE {"r"},
   append |-> AppendFlag(opts),
   creat  |-> "w" \in opts /\ "e" \notin opts,
   excl   |-> "w" \in opts /\ "x" \in opts,
   trunc  |-> "w" \in opts /\ "p" \notin opts]

(* ::close() of the descriptor of o, which drops its lock as well. *)
DescClosed(o) == [d \in Fds |-> IF d = fd[o] THEN Closed ELSE desc[d]]

Free(ds) == {d \in Fds : ds[d].acc = {}}

Construct(o) ==
  /\ Idle /\ o \notin live
  /\ live' = live \cup {o}
  /\ fd' = [fd EXCEPT ![o] = -1]
  /\ options' = [options EXCEPT ![o] = {}]
  /\ feof' = [feof EXCEPT ![o] = TRUE]
  /\ NoResult /\ UNCHANGED <<call, osVars>>

(* ::open() of the path returns the lowest free descriptor. *)
Open(o, m) ==
  /\ Idle /\ o \in live /\ ~Has(m, "?")
  /\ LET opts  == Sanitized(m)
         flags == OpenFlags(opts)
         ds    == DescClosed(o)
     IN  /\ (exists /\ ~(flags.creat /\ flags.excl)) \/ (~exists /\ flags.creat)
         /\ \E d \in Free(ds) :
              /\ \A x \in Free(ds) : d <= x
              /\ fd' = [fd EXCEPT ![o] = d]
              /\ desc' = [ds EXCEPT ![d] = [acc |-> flags.acc, append |-> flags.append,
                                            pos |-> 0, lock |-> "none"]]
         /\ options' = [options EXCEPT ![o] = opts]
         /\ data' = IF flags.trunc THEN <<>> ELSE data
  /\ exists' = TRUE
  /\ feof' = [feof EXCEPT ![o] = FALSE]
  /\ NoResult /\ UNCHANGED <<live, call, other>>

ThrownFd_Kept(o) == fd   \* mutant: fd is only written after the open

(* The properties are reset before the options are parsed. *)
ThrownFd(o) == [fd EXCEPT ![o] = -1]

(* open() throws: an invalid option, or ::open() fails (no such file, the  *)
(* file exists, no descriptor left, no permission).                        *)
OpenThrows(o) ==
  /\ Idle /\ o \in live
  /\ desc' = DescClosed(o)
  /\ fd' = ThrownFd(o)
  /\ options' = [options EXCEPT ![o] = {}]
  /\ feof' = [feof EXCEPT ![o] = TRUE]
  /\ NoResult /\ UNCHANGED <<live, call, exists, data, other>>

(* close() keeps the options. *)
Close(o) ==
  /\ Idle /\ o \in live
  /\ desc' = DescClosed(o)
  /\ fd' = [fd EXCEPT ![o] = -1]
  /\ feof' = [feof EXCEPT ![o] = TRUE]
  /\ NoResult /\ UNCHANGED <<live, options, call, exists, data, other>>

(* file_finalizer(), called by the garbage collector; the other properties *)
(* go with the object.                                                     *)
Finalize(o) ==
  /\ Idle /\ o \in live
  /\ live' = live \ {o}
  /\ desc' = DescClosed(o)
  /\ fd' = [fd EXCEPT ![o] = -1]
  /\ options' = [options EXCEPT ![o] = {}]
  /\ feof' = [feof EXCEPT ![o] = TRUE]
  /\ NoResult /\ UNCHANGED <<call, exists, data, other>>
-----------------------------------------------------------------------------
(* read(), readln() *)

Unread(o) == LET p == desc[fd[o]].pos IN SubSeq(data, p + 1, Len(data))

(* The bytes ::read() of the call in progress gets. *)
Chunk == LET s == Unread(call.obj) IN SubSeq(s, 1, IF Len(s) < call.n THEN Len(s) ELSE call.n)

(* A method of o begins; it throws when the access is missing. *)
Begin(o, access, c) ==
  /\ Idle /\ o \in live /\ Isopen(o)
  /\ access \subseteq desc[fd[o]].acc
  /\ call' = c
  /\ NoResult /\ UNCHANGED <<objVars, osVars>>

Read(o, size) ==
  Begin(o, {"r"}, [NoCall EXCEPT !.op = "read", !.obj = o, !.n = size])

ReadAll(o) ==
  Begin(o, {"r"}, [NoCall EXCEPT !.op = "readall", !.obj = o, !.n = ReadMax])

(* readln() reads byte by byte and refuses the nonblocking option. *)
ReadLn(o, nl) ==
  /\ "n" \notin options[o]
  /\ Begin(o, {"r"}, [NoCall EXCEPT !.op = "readln", !.obj = o, !.n = 1, !.nl = nl])

EndsWith(s, t) ==
  Len(t) <= Len(s) /\ SubSeq(s, Len(s) - Len(t) + 1, Len(s)) = t

(* The newline property, by default LF. *)
Newline(nl) == IF nl = <<>> THEN <<"LF">> ELSE nl

LineEnds_LastRead(out, nl) ==   \* mutant: the newline is looked for in the last byte read
  <<out[Len(out)]>> = Newline(nl)

(* The byte just read completes the line.  The code looks for the newline  *)
(* in all of out; an earlier one would have ended the loop before.         *)
LineEnds(out, nl) == EndsWith(out, Newline(nl))

(* The line without its end: LF and one CR before it, or the newline. *)
Line(out, nl) ==
  LET ending == IF nl # <<>> THEN nl
                ELSE IF EndsWith(out, <<"CR", "LF">>) THEN <<"CR", "LF">> ELSE <<"LF">>
  IN  SubSeq(out, 1, Len(out) - Len(ending))

NoValue_Eof(out, eof) == eof   \* mutant: the text before the end of the file is dropped

(* undefined is returned when nothing was read and the end was reached. *)
NoValue(out, eof) == out = <<>> /\ eof

(* A read method returns the text out and stores the flag. *)
ReadReturns(out, used, eof) ==
  /\ feof' = [feof EXCEPT ![call.obj] = eof]
  /\ ret' = [op |-> call.op, kind |-> IF NoValue(out, eof) THEN "undefined" ELSE "value",
             val |-> out, used |-> used, nl |-> call.nl, eof |-> eof]
  /\ call' = NoCall

Reading == call.op \in {"read", "readall", "readln"}

(* ::read() returns data: the end of read(size) and of a complete line,    *)
(* otherwise the loop goes on.                                             *)
ReadData ==
  /\ Reading /\ Chunk # <<>>
  /\ LET out  == call.text \o Chunk
         used == call.used \o Chunk
     IN  \/ /\ call.op = "read"
            /\ ReadReturns(out, used, FALSE)
         \/ /\ call.op = "readln" /\ LineEnds(out, call.nl)
            /\ ReadReturns(Line(out, call.nl), used, FALSE)
         \/ /\ call.op = "readall" \/ (call.op = "readln" /\ ~LineEnds(out, call.nl))
            /\ call' = [call EXCEPT !.text = out, !.used = used]
            /\ NoResult /\ UNCHANGED feof
  /\ desc' = [desc EXCEPT ![fd[call.obj]].pos = @ + Len(Chunk)]
  /\ UNCHANGED <<live, fd, options, exists, data, other>>

(* ::read() returns 0. *)
ReadEnd ==
  /\ Reading /\ Chunk = <<>>
  /\ ReadReturns(call.text, call.used, TRUE)
  /\ UNCHANGED <<live, fd, options, osVars>>

(* EAGAIN or EINTR: what was read so far is returned. *)
ReadInterrupted ==
  /\ Reading
  /\ ReadReturns(call.text, call.used, FALSE)
  /\ UNCHANGED <<live, fd, options, osVars>>

Threw == [NoRet EXCEPT !.op = call.op, !.kind = "throw"]

(* Another error of ::read() or ::write(). *)
IoFails ==
  /\ Reading \/ call.op \in {"write", "writeln"}
  /\ ret' = Threw
  /\ call' = NoCall
  /\ UNCHANGED <<objVars, osVars>>
-----------------------------------------------------------------------------
(* write(), writeln(), printf() *)

Write(o, text) ==
  Begin(o, {"w"}, [NoCall EXCEPT !.op = "write", !.obj = o, !.text = text, !.left = text])

(* writeln() appends a newline; printf() is alike with the formatted text. *)
WriteLn(o, text, nl) ==
  /\ "n" \notin options[o]
  /\ LET all == text \o Newline(nl)
     IN  Begin(o, {"w"}, [NoCall EXCEPT !.op = "writeln", !.obj = o, !.text = all,
                                        !.left = all])

(* The file after s was written at position p: a gap is filled with zeros. *)
Written(p, s) ==
  [i \in 1..(IF p + Len(s) > Len(data) THEN p + Len(s) ELSE Len(data)) |->
     IF i \in (p + 1)..(p + Len(s)) THEN s[i - p]
     ELSE IF i <= Len(data) THEN data[i] ELSE "NUL"]

Remaining_Same(n) == call.left   \* mutant: the rest is not cut off

(* s.substr(n) *)
Remaining(n) == SubSeq(call.left, n + 1, Len(call.left))

Writing == call.op \in {"write", "writeln"}

(* ::write() takes n bytes; with O_APPEND at the end of the file.          *)
WriteData(n) ==
  /\ Writing /\ n \in 1..Len(call.left)
  /\ LET d == fd[call.obj]
         p == IF desc[d].append THEN Len(data) ELSE desc[d].pos
         s == SubSeq(call.left, 1, n)
     IN  /\ p + n <= MaxSize
         /\ data' = Written(p, s)
         /\ desc' = [desc EXCEPT ![d].pos = p + n]
         /\ call' = [call EXCEPT !.left = Remaining(n), !.used = @ \o s]
  /\ NoResult /\ UNCHANGED <<objVars, exists, other>>

(* Everything is written. *)
WriteDone ==
  /\ Writing /\ call.left = <<>>
  /\ ret' = [NoRet EXCEPT !.op = call.op, !.kind = "value", !.val = call.text,
                          !.used = call.used]
  /\ call' = NoCall
  /\ UNCHANGED <<objVars, osVars>>

(* EAGAIN or EINTR: write() returns the number of bytes written so far,    *)
(* n_written, which is the length of what is no longer left; writeln() and *)
(* printf() throw.                                                         *)
WriteInterrupted ==
  /\ Writing /\ call.left # <<>>
  /\ ret' = IF call.op = "writeln" THEN Threw
            ELSE [NoRet EXCEPT !.op = "write", !.kind = "value", !.used = call.used,
                    !.val = SubSeq(call.text, 1, Len(call.text) - Len(call.left))]
  /\ call' = NoCall
  /\ UNCHANGED <<objVars, osVars>>
-----------------------------------------------------------------------------
(* seek(), lock(), unlock() *)

(* Every whence goes forward. *)
SeekTarget(o, n, whence) ==
  CASE whence = "begin"   -> n
    [] whence = "current" -> desc[fd[o]].pos + n
    [] whence = "end"     -> Len(data) + n

(* seek() throws for a negative position. *)
Seek(o, n, whence) ==
  /\ Idle /\ o \in live /\ Isopen(o)
  /\ SeekTarget(o, n, whence) <= MaxSize
  /\ desc' = [desc EXCEPT ![fd[o]].pos = SeekTarget(o, n, whence)]
  /\ NoResult /\ UNCHANGED <<objVars, call, exists, data, other>>

(* lock(): flock() without LOCK_NB.  The kernel converts a lock by         *)
(* dropping the old one first.                                             *)
Lock(o, type) ==
  /\ Idle /\ o \in live /\ Isopen(o)
  /\ call' = [NoCall EXCEPT !.op = "lock", !.obj = o, !.lock = type]
  /\ desc' = [desc EXCEPT ![fd[o]].lock = IF @ = type THEN @ ELSE "none"]
  /\ NoResult /\ UNCHANGED <<objVars, exists, data, other>>

(* Locks that conflict with a lock of this type. *)
Conflicts(type) == IF type = "x" THEN {"s", "x"} ELSE {"x"}

Granted ==
  /\ call.op = "lock"
  /\ other \notin Conflicts(call.lock)
  /\ \A d \in Fds \ {fd[call.obj]} : desc[d].lock \notin Conflicts(call.lock)
  /\ desc' = [desc EXCEPT ![fd[call.obj]].lock = call.lock]
  /\ call' = NoCall
  /\ NoResult /\ UNCHANGED <<objVars, exists, data, other>>

(* EINTR: lock() throws. *)
LockInterrupted ==
  /\ call.op = "lock"
  /\ call' = NoCall
  /\ NoResult /\ UNCHANGED <<objVars, osVars>>

Unlock(o) ==
  /\ Idle /\ o \in live /\ Isopen(o)
  /\ desc' = [desc EXCEPT ![fd[o]].lock = "none"]
  /\ NoResult /\ UNCHANGED <<objVars, call, exists, data, other>>
-----------------------------------------------------------------------------
(* The other process *)

OtherAppends(b) ==
  /\ Len(data) < MaxSize
  /\ exists' = TRUE
  /\ data' = Append(data, b)
  /\ NoResult /\ UNCHANGED <<objVars, call, desc, other>>

OtherLocks(type) ==
  /\ exists
  /\ \A d \in Fds : desc[d].lock \notin Conflicts(type)
  /\ other' = type
  /\ NoResult /\ UNCHANGED <<objVars, call, desc, exists, data>>

OtherUnlocks ==
  /\ other # "none" /\ other' = "none"
  /\ NoResult /\ UNCHANGED <<objVars, call, desc, exists, data>>
-----------------------------------------------------------------------------
OpenOrClose(o) ==
  \/ Construct(o)
  \/ \E m \in Modes : Open(o, m)
  \/ OpenThrows(o) \/ Close(o) \/ Finalize(o)

Method(o) ==
  \/ \E n \in Sizes : Read(o, n)
  \/ ReadAll(o)
  \/ \E nl \in Newlines : ReadLn(o, nl)
  \/ \E s \in Texts : Write(o, s)
  \/ \E s \in Texts, nl \in Newlines : WriteLn(o, s, nl)
  \/ \E n \in 0..MaxSize, w \in {"begin", "current", "end"} : Seek(o, n, w)
  \/ \E type \in {"s", "x"} : Lock(o, type)
  \/ Unlock(o)

SystemCall ==
  \/ ReadData \/ ReadEnd \/ ReadInterrupted
  \/ \E n \in 1..MaxSize : WriteData(n)
  \/ WriteDone \/ WriteInterrupted
  \/ IoFails
  \/ Granted \/ LockInterrupted

OtherProcess ==
  \/ \E b \in Bytes : OtherAppends(b)
  \/ \E type \in {"s", "x"} : OtherLocks(type)
  \/ OtherUnlocks

Next == (\E o \in Objs : OpenOrClose(o) \/ Method(o)) \/ SystemCall \/ OtherProcess

Spec == Init /\ [][Next]_vars
-----------------------------------------------------------------------------
(* Properties *)

(* The descriptors the process has open are those in the fd properties of  *)
(* its objects, each in one of them: no sequence of open(), failing        *)
(* open(), close() and finalizers leaks a descriptor (and the lock on it), *)
(* or keeps the number of a closed one, which the next open() of another   *)
(* object gets, so that a later close() would hit that object.             *)
DescriptorsOwned ==
  /\ \A o \in Objs : Isopen(o) => o \in live /\ desc[fd[o]].acc # {}
  /\ \A o, p \in Objs : Isopen(o) /\ fd[o] = fd[p] => o = p
  /\ \A d \in Fds : desc[d].acc # {} => \E o \in live : fd[o] = d

(* What separates two lines. *)
LineEnd(nl) == IF nl = <<>> THEN {<<"LF">>, <<"CR", "LF">>} ELSE {nl}

(* Every byte taken out of the file is handed to the script: when read()   *)
(* or readln() meets the end of the file, EAGAIN or EINTR in the middle,   *)
(* what was read before is returned, not undefined; readln() removes       *)
(* nothing but one line end.                                               *)
NothingSwallowed ==
  /\ ret.kind = "undefined" => ret.used = <<>>
  /\ ret.kind = "value" /\ ret.op \in {"read", "readall"} => ret.val = ret.used
  /\ ret.kind = "value" /\ ret.op = "readln" =>
       \E end \in LineEnd(ret.nl) \cup {<<>>} : ret.used = ret.val \o end

(* readln() stops at the first line end, also when the newline has several *)
(* bytes and another process appends while the line is being read.         *)
LineReturned ==
  ret.kind = "value" /\ ret.op = "readln" =>
    \A i, j \in 1..Len(ret.val) : SubSeq(ret.val, i, j) # Newline(ret.nl)

(* The script is told exactly what went into the file: write() returns the *)
(* number of bytes that were written, in order and once, after partial     *)
(* writes and when EAGAIN stops it; writeln() returns only when all is     *)
(* written.                                                                *)
WriteAccounted ==
  ret.kind = "value" /\ ret.op \in {"write", "writeln"} => ret.val = ret.used

Extends(t, s) == Len(t) >= Len(s) /\ SubSeq(t, 1, Len(s)) = s

(* A write in append mode leaves all that is in the file, whatever seek()  *)
(* came before and whatever the other process appends between two partial  *)
(* writes.                                                                 *)
AppendOnly ==
  [][Writing /\ "a" \in options[call.obj] => Extends(data', data)]_vars

(* Documented: the file is truncated by "w" unless "p", "a" or "r+" ask to *)
(* preserve it; with "x" an existing file is not opened at all.  The code  *)
(* does not keep the last promise for "x" together with "e", where it      *)
(* drops the "x": such modes may truncate here.                            *)
Discards(m) ==
  /\ Has(m, "w") /\ ~Has(m, "p") /\ ~Has(m, "a") /\ ~(Has(m, "r") /\ Has(m, "+"))
  /\ Has(m, "x") => HasLast(m, "e", "c")

(* File contents get lost only by an open() with a mode that says so, or   *)
(* one with both "x" and "e".                                              *)
OpenPreserves ==
  [][Len(data') < Len(data) =>
       \E o \in Objs, m \in Modes : Discards(m) /\ Open(o, m)]_vars

(* Documented: "a": Open for appending.  Create if the file is not         *)
(* existing yet, set the write position to the end of the file.            *)
AppendModeWrites ==
  \A o \in Objs : Isopen(o) /\ "a" \in options[o] => "w" \in desc[fd[o]].acc
-----------------------------------------------------------------------------
(* The inductive invariant behind the theorems of FileObjectProofs *)

(* The object of a call stays open during the call. *)
CallOpen ==
  ~Idle => /\ call.obj \in live /\ Isopen(call.obj)
           /\ Writing => "w" \in desc[fd[call.obj]].acc

(* The descriptor was opened as the options say. *)
FlagsOfOptions ==
  \A o \in Objs : Isopen(o) =>
    /\ "w" \in desc[fd[o]].acc <=> "w" \in options[o]
    /\ desc[fd[o]].append <=> AppendFlag(options[o])

(* Text read is text taken; text written is the head of the argument. *)
CallAccounted ==
  /\ Reading => call.text = call.used
  /\ Writing => call.text = call.used \o call.left

IndInv ==
  /\ TypeOK /\ DescriptorsOwned /\ CallOpen /\ FlagsOfOptions /\ CallAccounted
  /\ NothingSwallowed /\ WriteAccounted

(* While readln() runs, it reads byte by byte and has not met a newline.   *)
LineOpen ==
  call.op = "readln" =>
    /\ call.n = 1
    /\ \A i, j \in 1..Len(call.text) : SubSeq(call.text, i, j) # Newline(call.nl)

(* Without the file there is no content and no descriptor. *)
FileExists == ~exists => data = <<>> /\ \A o \in Objs : ~Isopen(o)
=============================================================================
