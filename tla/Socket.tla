------------------------------- MODULE Socket -------------------------------
(***************************************************************************)
(* The script class sys.socket (duktape/mod/mod.sys.socket.hh, POSIX): the *)
(* methods connect, listen, send, recv, option and close, the option       *)
(* properties, and the finalizer, over the class basic_socket.             *)
(*                                                                         *)
(* The environment is the TCP stack and the peer, and the rest of the      *)
(* application, which opens and closes descriptors of its own.  Addresses  *)
(* and error texts are left out: errno_ is 0 or not.  timeout_, checksent_ *)
(* and listening_ are left out too: the methods never use the first two,   *)
(* and listen() always ends with close().                                  *)
(***************************************************************************)
EXTENDS Integers, Sequences

CONSTANTS
  Fds,    \* descriptor numbers
  MaxIn,  \* bound: bytes the peer sends in one connection
  MaxTx   \* bound: length of a text to send

invalid_id == -1

ASSUME SocketAssumption == Fds \subseteq Nat /\ MaxIn \in Nat /\ MaxTx \in Nat

VARIABLES
  id,       \* id_
  errno,    \* errno_: 0 or 1
  nonblock, \* O_NONBLOCK of the socket
  call,     \* the method call in progress
  desc,     \* per number: free, socket, or other (of the application)
  conn,     \* what the TCP stack says of the socket
  rxq,      \* received, not yet read
  \* history
  sent,     \* what the peer sent in this connection, ...
  got,      \* ... what recv() returned of it, ...
  eof,      \* ... and whether recv() has seen its end
  last,     \* the last send(): number returned, number taken over, interrupted
  probed,   \* an option was read in vain since the socket was created
  claimed   \* connect() returned without a connection

objVars  == <<id, errno>>
netVars  == <<conn, rxq>>
histVars == <<sent, got, eof, last, probed, claimed>>
vars     == <<objVars, nonblock, call, desc, netVars, histVars>>

Idle == [op |-> "idle"]
Over == [op |-> "over"]    \* terminated by SIGPIPE

(* send(): size and n_sent of the method, l of the function it calls, and  *)
(* acc, what ::send() has taken over altogether.  recv(): before and after *)
(* poll() has found something to read.                                     *)
Calls == {Idle, Over}
         \cup [op : {"send"}, size : Nat, n_sent : Nat, l : Nat, acc : Nat]
         \cup [op : {"recv", "rx"}]

(* none: no connection; pending: connect() was interrupted; fin: the peer  *)
(* has closed; reset, timedout: an error is waiting to be fetched.         *)
ConnStates == {"none", "pending", "up", "fin", "reset", "timedout"}

TypeOK ==
  /\ id \in Fds \cup {invalid_id}
  /\ errno \in {0, 1}
  /\ nonblock \in BOOLEAN
  /\ call \in Calls
  /\ desc \in [Fds -> {"free", "socket", "other"}]
  /\ conn \in ConnStates
  /\ rxq \in Seq(Nat) /\ sent \in Seq(Nat) /\ got \in Seq(Nat)
  /\ eof \in BOOLEAN /\ probed \in BOOLEAN /\ claimed \in BOOLEAN
  /\ last \in [n : Nat, acc : Nat, intr : BOOLEAN]

NoSend == [n |-> 0, acc |-> 0, intr |-> FALSE]

Init ==
  /\ id = invalid_id /\ errno = 0 /\ nonblock = FALSE /\ call = Idle
  /\ desc = [f \in Fds |-> "free"]
  /\ conn = "none" /\ rxq = <<>> /\ sent = <<>>
  /\ got = <<>> /\ eof = FALSE /\ last = NoSend
  /\ probed = FALSE /\ claimed = FALSE

idle   == call.op = "idle"
closed == id = invalid_id
-----------------------------------------------------------------------------
(* Descriptors *)

(* socket(2) returns the lowest free number. *)
Lowest(f, table) == table[f] = "free" /\ \A g \in Fds : g < f => table[g] # "free"

(* The descriptors after ::close(id_). *)
Released == IF closed THEN desc ELSE [desc EXCEPT ![id] = "free"]

(* The TCP stack without the connection. *)
NoConnection == conn' = "none" /\ rxq' = <<>> /\ nonblock' = FALSE

NewHistory == sent' = <<>> /\ got' = <<>> /\ eof' = FALSE /\ last' = NoSend

(* close(), and the beginning of connect() and listen(). *)
Closes == id' = invalid_id /\ desc' = Released /\ NoConnection

Fatal_Leaks == id' = invalid_id /\ desc' = desc /\ NoConnection /\ errno' = 1   \* mutant: no ::close()
Fatal_Open  == errno' = 1 /\ UNCHANGED <<id, desc, nonblock, netVars>>          \* mutant: error() only

(* check_error() of an error that is not EAGAIN, ETIMEDOUT or EINTR. *)
Fatal == Closes /\ errno' = 1
-----------------------------------------------------------------------------
(* connect() and listen() *)

(* The method closes the socket it had and throws, without a new one: the  *)
(* arguments are invalid (errno_ is left alone), or socket(), an option or *)
(* ::connect() fails and the new one is closed as well.                    *)
NotCreated == Closes /\ errno' \in {errno, 1}

(* A new socket with the number fd, for which ::connect() has not been     *)
(* called.                                                                 *)
Created(fd) ==
  /\ Lowest(fd, Released)
  /\ id' = fd /\ desc' = [Released EXCEPT ![fd] = "socket"]
  /\ errno' = 0
  /\ rxq' = <<>>

(* create_socket() with a timeout that is out of range throws and leaves   *)
(* the new socket as it is.                                                *)
BadTimeout(fd) == Created(fd) /\ conn' = "none" /\ nonblock' = FALSE

(* ::connect() succeeds, is interrupted, or fails with an error that       *)
(* check_error() takes for harmless: connect() returns, and the socket is  *)
(* blocking from now on.                                                   *)
ConnectReturns(fd, state) == Created(fd) /\ conn' = state /\ nonblock' = FALSE

(* The connect() method.  With the option nonblocking ::connect() gives    *)
(* EINPROGRESS as a rule, which is an error like any other.                *)
Connect ==
  /\ idle
  /\ \/ NotCreated /\ claimed' = FALSE
     \/ \E fd \in Fds :
          \/ BadTimeout(fd) /\ claimed' = FALSE
          \/ \E state \in {"up", "none", "pending"} :
               ConnectReturns(fd, state) /\ claimed' = (state # "up")
  /\ NewHistory /\ probed' = FALSE
  /\ UNCHANGED call

(* The listen() method: a failure of bind() or ::listen() closes the       *)
(* socket, and success does as well.                                       *)
Listen ==
  /\ idle
  /\ Closes /\ errno' \in {errno, 0, 1}
  /\ NewHistory /\ probed' = FALSE /\ claimed' = FALSE
  /\ UNCHANGED call
-----------------------------------------------------------------------------
(* close(), options, finalizer *)

(* The close() and open() methods. *)
Close ==
  /\ idle
  /\ Closes
  /\ UNCHANGED <<errno, call, histVars>>

(* The finalizer, and the next object of the script. *)
Finalize ==
  /\ idle
  /\ Closes
  /\ errno' = 0 /\ NewHistory /\ probed' = FALSE /\ claimed' = FALSE
  /\ UNCHANGED call

(* getsockopt() fails: the error is kept, the socket stays. *)
OptionGetFails ==
  /\ idle
  /\ errno' = 1 /\ probed' = TRUE
  /\ UNCHANGED <<id, nonblock, call, desc, netVars, sent, got, eof, last, claimed>>

(* setsockopt() fails: the socket is closed. *)
OptionSetFails ==
  /\ idle
  /\ Fatal
  /\ UNCHANGED <<call, histVars>>

(* The nonblocking property. *)
SetNonblocking(enabled) ==
  /\ idle /\ ~closed
  /\ nonblock' = enabled
  /\ UNCHANGED <<objVars, call, desc, netVars, histVars>>
-----------------------------------------------------------------------------
(* send() *)

(* One call of basic_socket::send() for what is left of the text. *)
Send(n) ==
  /\ idle /\ ~closed
  /\ call' = [op |-> "send", size |-> n, n_sent |-> 0, l |-> n, acc |-> 0]
  /\ UNCHANGED <<objVars, nonblock, desc, netVars, histVars>>

Sending == call.op = "send"

Returns(n, interrupted) ==
  /\ call' = Idle
  /\ last' = [n |-> n, acc |-> call.acc, intr |-> interrupted]

(* ::send() takes k bytes.  When nothing is left, both loops end.          *)
SendData(k) ==
  /\ Sending /\ conn \in {"up", "fin"} /\ k <= call.l
  /\ IF k < call.l
     THEN /\ call' = [call EXCEPT !.l = @ - k, !.acc = @ + k]
          /\ UNCHANGED last
     ELSE /\ call' = Idle
          /\ last' = [n |-> call.size, acc |-> call.acc + k, intr |-> FALSE]
  /\ UNCHANGED <<objVars, nonblock, desc, netVars, sent, got, eof, probed, claimed>>

SentNow_Left(c) == c.l   \* mutant: returns l

(* What basic_socket::send() returns at EAGAIN: size - l, where size was   *)
(* the rest of the text.                                                   *)
SentNow(c) == (c.size - c.n_sent) - c.l

(* EAGAIN: the method calls again with the rest, or returns if nothing was *)
(* sent this time; it throws if an old error is still in errno_.           *)
SendAgain ==
  /\ Sending /\ conn \in {"up", "fin", "pending"} /\ nonblock
  /\ IF SentNow(call) > 0
     THEN call' = [call EXCEPT !.n_sent = @ + SentNow(call)] /\ UNCHANGED last
     ELSE IF errno # 0 THEN call' = Idle /\ UNCHANGED last
     ELSE Returns(call.n_sent, FALSE)
  /\ UNCHANGED <<objVars, nonblock, desc, netVars, sent, got, eof, probed, claimed>>

(* EINTR or ETIMEDOUT: basic_socket::send() returns 0, also if it has sent *)
(* something before.                                                       *)
SendInterrupted ==
  /\ Sending
  /\ IF errno # 0 THEN call' = Idle /\ UNCHANGED last
     ELSE Returns(call.n_sent, TRUE)
  /\ conn' = IF conn = "timedout" THEN "fin" ELSE conn
  /\ UNCHANGED <<objVars, nonblock, desc, rxq, sent, got, eof, probed, claimed>>

(* Any other error: the socket is closed and the method throws. *)
SendFails ==
  /\ Sending
  /\ Fatal
  /\ call' = Idle
  /\ UNCHANGED histVars

(* EPIPE comes with a signal, which ends the process unless it is ignored. *)
SendSigpipe ==
  /\ Sending /\ conn \notin {"up", "pending"}
  /\ call' = Over
  /\ UNCHANGED <<objVars, nonblock, desc, netVars, histVars>>
-----------------------------------------------------------------------------
(* recv() *)

(* With a timeout; without one the method returns an empty text at once.   *)
Recv ==
  /\ idle /\ ~closed
  /\ call' = [op |-> "recv"]
  /\ UNCHANGED <<objVars, nonblock, desc, netVars, histVars>>

(* wait(): poll() reports POLLIN. *)
PollReady ==
  /\ call.op = "recv"
  /\ rxq # <<>> \/ conn \in {"fin", "reset", "timedout"}
  /\ call' = [op |-> "rx"]
  /\ UNCHANGED <<objVars, nonblock, desc, netVars, histVars>>

(* Nothing in time, EINTR, or an event without POLLIN: an empty text, or   *)
(* an error if an old one is still in errno_.                              *)
PollNothing ==
  /\ call.op = "recv"
  /\ call' = Idle
  /\ UNCHANGED <<objVars, nonblock, desc, netVars, histVars>>

PollFails ==
  /\ call.op = "recv"
  /\ Fatal
  /\ call' = Idle
  /\ UNCHANGED histVars

TakenOver_Short(n) == SubSeq(rxq, 1, n - 1)   \* mutant: the text is cut by one

(* The text recv() returns of the n bytes ::recv() gave. *)
TakenOver(n) == SubSeq(rxq, 1, n)

(* ::recv() gives what is there, at most the size of the buffer. *)
RecvData ==
  /\ call.op = "rx"
  /\ \E n \in 1..Len(rxq) :
       /\ got' = got \o TakenOver(n)
       /\ rxq' = SubSeq(rxq, n + 1, Len(rxq))
  /\ call' = Idle
  /\ UNCHANGED <<objVars, nonblock, desc, conn, sent, eof, last, probed, claimed>>

(* ::recv() gives 0 at the end of the stream: the socket is closed. *)
RecvEof ==
  /\ call.op = "rx" /\ rxq = <<>> /\ conn = "fin"
  /\ Closes
  /\ eof' = TRUE
  /\ call' = Idle
  /\ UNCHANGED <<errno, sent, got, last, probed, claimed>>

(* An error that closes the socket. *)
RecvFails ==
  /\ call.op = "rx"
  /\ Fatal
  /\ call' = Idle
  /\ UNCHANGED histVars

(* EINTR, or ETIMEDOUT, which the stack reports once. *)
RecvNothing ==
  /\ call.op = "rx"
  /\ conn' = IF rxq = <<>> /\ conn = "timedout" THEN "fin" ELSE conn
  /\ call' = Idle
  /\ UNCHANGED <<objVars, nonblock, desc, rxq, histVars>>
-----------------------------------------------------------------------------
(* The peer, the network and the application *)

PeerSends ==
  /\ conn = "up" /\ Len(sent) < MaxIn
  /\ sent' = Append(sent, Len(sent) + 1) /\ rxq' = Append(rxq, Len(sent) + 1)
  /\ UNCHANGED <<objVars, nonblock, call, desc, conn, got, eof, last, probed, claimed>>

(* The peer closes or resets, the stack gives up, or a connection that was *)
(* still being made is refused or established.                             *)
NetworkChange ==
  /\ \/ conn = "up" /\ conn' \in {"fin", "reset", "timedout"}
     \/ conn = "pending" /\ conn' \in {"up", "reset"}
  /\ UNCHANGED <<objVars, nonblock, call, desc, rxq, histVars>>

OtherFiles(f) ==
  /\ idle
  /\ \/ Lowest(f, desc) /\ desc' = [desc EXCEPT ![f] = "other"]
     \/ desc[f] = "other" /\ desc' = [desc EXCEPT ![f] = "free"]
  /\ UNCHANGED <<objVars, nonblock, call, netVars, histVars>>

Next ==
  \/ Connect \/ Listen \/ Close \/ Finalize
  \/ OptionGetFails \/ OptionSetFails \/ \E b \in BOOLEAN : SetNonblocking(b)
  \/ \E n \in 1..MaxTx : Send(n) \/ SendData(n)
  \/ SendAgain \/ SendInterrupted \/ SendFails \/ SendSigpipe
  \/ Recv \/ PollReady \/ PollNothing \/ PollFails
  \/ RecvData \/ RecvEof \/ RecvFails \/ RecvNothing
  \/ PeerSends \/ NetworkChange
  \/ \E f \in Fds : OtherFiles(f)

Spec == Init /\ [][Next]_vars
-----------------------------------------------------------------------------
(* Properties *)

(* Exactly one descriptor is a socket while the object is open, the one it *)
(* holds, and none while it is closed: on every way out of connect(),      *)
(* listen(), send(), recv() and the options nothing is leaked, closed      *)
(* twice, or used after the application got the number.                    *)
SocketOwned == {f \in Fds : desc[f] = "socket"} = {id} \ {invalid_id}

(* recv() returns what the peer sent, in order and without a gap, however  *)
(* poll(), recv() and the end of the connection interleave, and it does    *)
(* not close the socket at the end of the stream before it has returned    *)
(* all of it.                                                              *)
StreamComplete ==
  /\ ~closed => got \o rxq = sent
  /\ eof => got = sent

(* What send() returns is what the stack has taken over, also across       *)
(* several partial sends; only after an interruption it may be less.       *)
SendReported ==
  /\ last.n <= last.acc
  /\ last.intr \/ last.n = last.acc

(* A socket on which an operation has failed is closed, so that a script   *)
(* that looks at errno and one that looks at closed see the same; only an  *)
(* option that could not be read leaves an error on an open socket.        *)
ErrorIsClosed == errno # 0 /\ ~probed => closed

(* "Initiate a connection to a server, returns after the connection is     *)
(* established, throws on error."                                          *)
ConnectEstablished == ~claimed
-----------------------------------------------------------------------------
(* The inductive invariant *)

(* A closed socket has no connection, its end is only seen by closing it,  *)
(* and the methods that talk to the stack run on an open socket.           *)
ClosedIsQuiet ==
  /\ closed => conn = "none" /\ rxq = <<>>
  /\ eof => closed
  /\ call.op \in {"send", "recv", "rx"} => ~closed

(* The counters of the two loops of send(). *)
SendCounters == call.op = "send" => /\ call.acc = call.size - call.l
                                   /\ call.n_sent <= call.acc

SocketInv == /\ TypeOK /\ SocketOwned /\ ClosedIsQuiet /\ StreamComplete
             /\ SendCounters /\ SendReported /\ ErrorIsClosed
=============================================================================
