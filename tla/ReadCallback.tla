---------------------------- MODULE ReadCallback ----------------------------
(***************************************************************************)
(* read_callback() of duktape/mod/mod.sys.exec.hh, which cuts the output   *)
(* of a child process into lines for the stdout or stderr callback of      *)
(* sys.exec().  The text arrives in pieces of any size, as the pipe        *)
(* delivered it; the last call, with size 0, flushes an incomplete line.   *)
(* Each iteration of the loop calls the script.                            *)
(***************************************************************************)
EXTENDS Integers, FiniteSets, SequencesExt

CONSTANTS
  MaxLen,    \* bound: length of the output of the child
  Replies    \* what the script callback may return

(* A character that is none of the line ends, line feed, carriage return. *)
Chars == {"a", "LF", "CR"}

ASSUME ReadCallbackAssumption ==
  MaxLen \in Nat /\ Replies \subseteq {"text", "true", "false", "other"}

VARIABLES
  text,    \* all the child writes
  pos,     \* length of the part that was passed to read_callback()
  size,    \* argument of the call that is in progress
  buf,     \* std::string& buf: text not passed to the script yet
  out,     \* std::string& out: the text in the result of sys.exec()
  calls,   \* history: the lines the script callback was called with
  pc       \* "idle": in the loop of execute(), "loop": in read_callback()

vars == <<text, pos, size, buf, out, calls, pc>>

TypeOK ==
  /\ text \in BoundedSeq(Chars, MaxLen)
  /\ pos \in 0..Len(text) /\ size \in 0..Len(text)
  /\ buf \in BoundedSeq(Chars, MaxLen)
  /\ out \in Seq(Chars \cup {"TEXT"})
  /\ calls \in Seq(Seq(Chars))
  /\ pc \in {"idle", "loop", "done"}

Init ==
  /\ text \in BoundedSeq(Chars, MaxLen)
  /\ pos = 0 /\ size = 0
  /\ buf = <<>> /\ out = <<>> /\ calls = <<>>
  /\ pc = "idle"

Piece_FromStart(n) == SubSeq(text, 1, pos + n)   \* mutant: data is not cleared

(* The n bytes that update() collected since the last call. *)
Piece(n) == SubSeq(text, pos + 1, pos + n)

(* execute() got n more bytes. *)
Feed(n) ==
  /\ pc = "idle"
  /\ pos + n <= Len(text)
  /\ buf' = buf \o Piece(n)
  /\ pos' = pos + n
  /\ size' = n
  /\ pc' = "loop"
  /\ UNCHANGED <<text, out, calls>>

(* The child has terminated and everything was read: execute() flushes     *)
(* when something is left.                                                 *)
Flush ==
  /\ pc = "idle" /\ pos = Len(text)
  /\ size' = 0
  /\ pc' = IF buf = <<>> THEN "done" ELSE "loop"
  /\ UNCHANGED <<text, pos, buf, out, calls>>

(* buf.find('\n') + 1, 0 for npos. *)
Find(s) ==
  IF \E i \in 1..Len(s) : s[i] = "LF"
  THEN CHOOSE i \in 1..Len(s) : s[i] = "LF" /\ \A j \in 1..(i - 1) : s[j] # "LF"
  ELSE 0

Chomp_LfOnly(s) ==   \* mutant: the carriage return stays
  IF s # <<>> /\ Last(s) = "LF" THEN Front(s) ELSE s

(* while(back is '\n' or '\r') pop_back() *)
Chomp(s) ==
  LET kept == {i \in 1..Len(s) : s[i] = "a"}
  IN  SubSeq(s, 1, IF kept = {} THEN 0 ELSE Max(kept))

(* What is left in buf when the line that ends at p was taken out: the     *)
(* code clears the buffer for a line of one character.                     *)
Rest(s, p) == IF p <= 1 THEN <<>> ELSE SubSeq(s, p + 1, Len(s))

Added(line, reply) ==
  CASE reply = "text" -> <<"TEXT">>
    [] reply = "true" -> line
    [] OTHER          -> <<>>

Again_Never(rest) == FALSE   \* mutant: one line per call

(* while(!buf.empty()) *)
Again(rest) == rest # <<>>

Incomplete_AtFlush == Find(buf) = 0   \* mutant: the flush waits for a line end as well

(* No line end in the buffer, and this call is not the flush. *)
Incomplete == Find(buf) = 0 /\ size > 0

(* No complete line in the buffer: read_callback() returns. *)
NoLine ==
  /\ pc = "loop" /\ Incomplete
  /\ pc' = "idle"
  /\ UNCHANGED <<text, pos, size, buf, out, calls>>

(* One iteration: a line, or with size 0 the rest, goes to the script. *)
CallScript(reply) ==
  /\ pc = "loop"
  /\ ~Incomplete
  /\ LET p     == Find(buf)
         whole == p = 0 \/ p = Len(buf)
         chunk == IF whole THEN buf ELSE SubSeq(buf, 1, p)
         line  == Chomp(chunk)
         rest  == IF whole THEN <<>> ELSE Rest(buf, p)
     IN  /\ calls' = Append(calls, line)
         /\ out' = out \o Added(line, reply)
         /\ buf' = rest
         /\ pc' = IF Again(rest) THEN "loop" ELSE IF size = 0 THEN "done" ELSE "idle"
  /\ UNCHANGED <<text, pos, size>>

Next ==
  \/ \E n \in 1..MaxLen : Feed(n)
  \/ Flush
  \/ NoLine
  \/ \E reply \in Replies : CallScript(reply)

Spec == Init /\ [][Next]_vars
FairSpec == Spec /\ WF_vars(Next)
-----------------------------------------------------------------------------
(* Properties *)

(* Reference: the lines of a text.  Line k lies between the line feeds     *)
(* number k - 1 and k, the last one need not be terminated, and CRs before *)
(* the line feed do not count.                                             *)
LineFeeds(s, n) == {i \in 1..n : s[i] = "LF"}

Count(s, n) == Cardinality(LineFeeds(s, n))

LineEnd(s, k) ==
  IF k = 0 THEN 0
  ELSE IF k <= Count(s, Len(s)) THEN CHOOSE i \in LineFeeds(s, Len(s)) : Count(s, i) = k
  ELSE Len(s) + 1

Bare(line) ==
  SubSeq(line, 1, CHOOSE n \in 0..Len(line) :
                    /\ n = 0 \/ line[n] # "CR"
                    /\ \A i \in (n + 1)..Len(line) : line[i] = "CR")

LineCount(s) ==
  IF s = <<>> \/ s[Len(s)] = "LF" THEN Count(s, Len(s)) ELSE Count(s, Len(s)) + 1

Lines(s) ==
  [k \in 1..LineCount(s) |-> Bare(SubSeq(s, LineEnd(s, k - 1) + 1, LineEnd(s, k) - 1))]

(* An empty line: a line feed that begins a line. *)
HasEmptyLine(s) == \E i \in 1..Len(s) : s[i] = "LF" /\ (i = 1 \/ s[i - 1] = "LF")

(* However the pipe cuts the output into pieces, also between a CR and its *)
(* LF, the script sees exactly the lines of the output, in order, each     *)
(* once.  Restricted to output without empty lines (see EmptyLinesKept).   *)
LinesDelivered ==
  ~HasEmptyLine(text) =>
    /\ IsPrefix(calls, Lines(text))
    /\ pc = "done" => calls = Lines(text)

(* Nothing waits in the buffer that could have been delivered: between two *)
(* calls it holds no complete line, so the script sees a line as soon as   *)
(* its end was read.                                                       *)
NoLineHeldBack == pc # "loop" => Find(buf) = 0

(* The loop of read_callback() ends for every piece, and after the flush   *)
(* nothing is left.                                                        *)
AllFlushed == <>(pc = "done" /\ buf = <<>>)

(* The tests of sys.exec() say: "stdout callback: return true to add".     *)
(* A callback that always returns true gets all the text, empty lines or   *)
(* not, except for the line ends.                                          *)
EmptyLinesKept ==
  pc = "done" => out = FlattenSeq(Lines(text))
-----------------------------------------------------------------------------
(* The inductive invariant behind the theorems of ReadCallbackProofs *)

(* What the script was called with, and what was dropped. *)
Consumed == pos - Len(buf)

(* The buffer is the end of what was received. *)
BufferIsTail == Len(buf) <= pos /\ buf = SubSeq(text, Consumed + 1, pos)

(* The loop runs on a buffer that is not empty; the flush is the last call. *)
Phases ==
  /\ pc = "loop" => buf # <<>> /\ (size = 0 => pos = Len(text))
  /\ pc = "done" => buf = <<>> /\ pos = Len(text)

(* The lines delivered are those that end where the buffer begins. *)
CallsMatch ==
  ~HasEmptyLine(text) =>
    /\ Len(calls) <= LineCount(text)
    /\ \A k \in 1..Len(calls) : calls[k] = Lines(text)[k]
    /\ IF pc = "done" THEN Len(calls) = LineCount(text)
       ELSE /\ Count(text, Consumed) = Len(calls)
            /\ Consumed = 0 \/ text[Consumed] = "LF"

IndInv == TypeOK /\ BufferIsTail /\ Phases /\ NoLineHeldBack /\ CallsMatch

(* What is left to do: bytes to receive, bytes to deliver, and the end. *)
Work ==
  3 * (Len(text) - pos) + Len(buf)
    + (CASE pc = "loop" /\ size > 0 -> 3
         [] pc = "idle"             -> 2
         [] pc = "loop" /\ size = 0 -> 1
         [] pc = "done"             -> 0)

(* Every step of read_callback() and of its caller leaves less to do, so   *)
(* that no piece, reply or text keeps its loop running.                    *)
Terminates == [][Work' < Work]_vars
=============================================================================
