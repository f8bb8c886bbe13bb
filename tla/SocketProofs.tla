---------------------------- MODULE SocketProofs ----------------------------
(***************************************************************************)
(* Proofs about Socket, for any set of descriptors and any amount of data: *)
(* SocketInv is an invariant, and what follows from it.                    *)
(***************************************************************************)
EXTENDS Socket, SequenceTheorems, TLAPS

LEMMA Constants ==
  /\ invalid_id \notin Fds /\ Fds \subseteq Nat
  /\ Idle \in Calls /\ Idle.op = "idle" /\ Over \in Calls /\ Over.op = "over"
  /\ [op |-> "recv"] \in Calls /\ [op |-> "rx"] \in Calls
  /\ NoSend \in [n : Nat, acc : Nat, intr : BOOLEAN] /\ NoSend.n = 0 /\ NoSend.acc = 0
BY SocketAssumption DEF invalid_id, Idle, Over, Calls, NoSend

LEMMA Assoc ==
  ASSUME NEW r \in Seq(Nat), NEW s \in Seq(Nat), NEW t \in Seq(Nat)
  PROVE  (r \o s) \o t = r \o (s \o t)
BY ConcatAssociative

(* The parts of the invariant: the descriptor and its error; the stream;   *)
(* send().                                                                 *)
Handle ==
  /\ id \in Fds \cup {invalid_id} /\ errno \in {0, 1}
  /\ desc \in [Fds -> {"free", "socket", "other"}]
  /\ probed \in BOOLEAN
  /\ SocketOwned /\ ErrorIsClosed

Stream ==
  /\ conn \in ConnStates
  /\ rxq \in Seq(Nat) /\ sent \in Seq(Nat) /\ got \in Seq(Nat)
  /\ eof \in BOOLEAN
  /\ closed => conn = "none" /\ rxq = <<>>
  /\ eof => closed
  /\ StreamComplete

Calling ==
  /\ call \in Calls
  /\ last \in [n : Nat, acc : Nat, intr : BOOLEAN]
  /\ call.op \in {"send", "recv", "rx"} => ~closed
  /\ SendCounters /\ SendReported

LEMMA Parts ==
  SocketInv => Handle /\ Stream /\ Calling /\ nonblock \in BOOLEAN /\ claimed \in BOOLEAN
BY DEF SocketInv, TypeOK, ClosedIsQuiet, Handle, Stream, Calling

LEMMA Together ==
  ASSUME Handle', Stream', Calling', nonblock' \in BOOLEAN, claimed' \in BOOLEAN
  PROVE  SocketInv'
<1>1. TypeOK'
  BY DEF TypeOK, Handle, Stream, Calling
<1> QED
  BY <1>1 DEF SocketInv, ClosedIsQuiet, Handle, Stream, Calling

(* A send() that is under way is one of the send records. *)
LEMMA SendCall ==
  ASSUME call \in Calls, call.op = "send"
  PROVE  /\ call \in [op : {"send"}, size : Nat, n_sent : Nat, l : Nat, acc : Nat]
         /\ [op : {"send"}, size : Nat, n_sent : Nat, l : Nat, acc : Nat] \subseteq Calls
BY DEF Calls, Idle, Over
-----------------------------------------------------------------------------
(* Steps that leave a part alone *)

LEMMA HandleKept ==
  ASSUME Handle, UNCHANGED <<objVars, desc, probed>>
  PROVE  Handle'
BY DEF Handle, objVars, SocketOwned, ErrorIsClosed, closed

LEMMA StreamKept ==
  ASSUME Stream, UNCHANGED <<id, rxq, sent, got, eof>>, conn' \in ConnStates,
         ~closed \/ conn' = conn
  PROVE  Stream'
BY DEF Stream, StreamComplete, closed

LEMMA CallKept ==
  ASSUME Calling, UNCHANGED <<id, call, last>>
  PROVE  Calling'
BY DEF Calling, SendCounters, SendReported, closed

LEMMA CallOver ==
  ASSUME Calling, call' \in Calls, call'.op \in {"idle", "over"},
         \/ UNCHANGED last
         \/ /\ last' \in [n : Nat, acc : Nat, intr : BOOLEAN]
            /\ last'.n <= last'.acc
            /\ last'.intr \/ last'.n = last'.acc
  PROVE  Calling'
BY DEF Calling, SendCounters, SendReported, closed
-----------------------------------------------------------------------------
(* close() and check_error() *)

LEMMA ReleasedNone ==
  ASSUME Handle
  PROVE  /\ Released \in [Fds -> {"free", "socket", "other"}]
         /\ \A f \in Fds : Released[f] # "socket"
BY Constants DEF Handle, Released, SocketOwned, closed

LEMMA ClosedHandle ==
  ASSUME Handle, Closes, errno' \in {0, 1}, probed' \in BOOLEAN
  PROVE  Handle'
<1>1. desc' \in [Fds -> {"free", "socket", "other"}] /\ \A f \in Fds : desc'[f] # "socket"
  BY ReleasedNone DEF Closes
<1>2. id' = invalid_id
  BY DEF Closes
<1>3. SocketOwned'
  <2>1. {f \in Fds : desc'[f] = "socket"} = {}
    BY <1>1
  <2> QED
    BY <1>2, <2>1 DEF SocketOwned
<1>4. ErrorIsClosed'
  BY <1>2 DEF ErrorIsClosed, closed
<1> QED
  BY <1>1, <1>2, <1>3, <1>4 DEF Handle

LEMMA ClosedStream ==
  ASSUME Stream, Closes,
         \/ UNCHANGED <<sent, got, eof>>
         \/ NewHistory
         \/ UNCHANGED <<sent, got>> /\ eof' = TRUE /\ got = sent
  PROVE  Stream'
<1>1. /\ id' = invalid_id /\ conn' = "none" /\ rxq' = <<>>
      /\ conn' \in ConnStates /\ rxq' \in Seq(Nat)
  BY DEF Closes, NoConnection, ConnStates
<1>2. sent' \in Seq(Nat) /\ got' \in Seq(Nat) /\ eof' \in BOOLEAN
  <2>1. <<>> \in Seq(Nat) /\ sent \in Seq(Nat) /\ got \in Seq(Nat) /\ eof \in BOOLEAN
    BY DEF Stream
  <2> QED
    BY <2>1, Zenon DEF NewHistory
<1>3. eof' => got' = sent'
  BY DEF Stream, StreamComplete, NewHistory
<1> QED
  BY <1>1, <1>2, <1>3 DEF Stream, StreamComplete, closed

(* A call that ends with the socket closed by check_error(). *)
LEMMA FatalStep ==
  ASSUME SocketInv, Fatal, UNCHANGED histVars,
         call' = Idle \/ (call' = call /\ call.op = "idle")
  PROVE  SocketInv'
<1>1. Handle /\ Stream /\ Calling /\ claimed \in BOOLEAN
  BY Parts
<1>2. /\ Closes /\ errno' \in {0, 1} /\ nonblock' \in BOOLEAN
      /\ UNCHANGED <<probed, sent, got, eof, last, claimed>>
  BY DEF Fatal, Closes, NoConnection, histVars
<1>3. Handle'
  BY <1>1, <1>2, ClosedHandle DEF Handle
<1>4. Stream'
  BY <1>1, <1>2, ClosedStream
<1>5. Calling'
  BY <1>1, <1>2, CallOver, Constants DEF Calling
<1> QED
  BY <1>1, <1>2, <1>3, <1>4, <1>5, Together
-----------------------------------------------------------------------------
(* connect(), listen(), close() *)

LEMMA CreatedKeeps ==
  ASSUME SocketInv, NEW fd \in Fds, Created(fd), conn' \in ConnStates, NewHistory,
         probed' = FALSE, claimed' \in BOOLEAN, nonblock' = FALSE, call' = call, idle
  PROVE  SocketInv'
<1>1. Handle /\ Stream /\ Calling
  BY Parts
<1>2. id' = fd /\ id' # invalid_id /\ rxq' = <<>> /\ sent' = <<>> /\ got' = <<>> /\ eof' = FALSE
  BY Constants DEF Created, NewHistory
<1>3. /\ desc' \in [Fds -> {"free", "socket", "other"}]
      /\ {f \in Fds : desc'[f] = "socket"} = {fd}
  BY <1>1, ReleasedNone DEF Created
<1>4. Handle'
  <2>1. SocketOwned' /\ ErrorIsClosed'
    BY <1>2, <1>3 DEF SocketOwned, ErrorIsClosed, Created
  <2> QED
    BY <1>2, <1>3, <2>1 DEF Handle, Created
<1>5. Stream'
  <2>1. <<>> \in Seq(Nat) /\ <<>> \o <<>> = <<>>
    BY ConcatEmptySeq
  <2> QED
    BY <1>2, <2>1 DEF Stream, StreamComplete, closed
<1>6. Calling'
  BY <1>1, CallOver, Constants DEF NewHistory, Calling, idle
<1> QED
  BY <1>4, <1>5, <1>6, Together

LEMMA ClosingStep ==
  ASSUME SocketInv, idle, Closes, errno' \in {0, 1}, call' = call,
         NewHistory \/ UNCHANGED <<sent, got, eof, last>>,
         probed' \in BOOLEAN, claimed' \in BOOLEAN
  PROVE  SocketInv'
<1>1. Handle /\ Stream /\ Calling /\ nonblock' \in BOOLEAN
  BY Parts DEF Closes, NoConnection
<1>2. Handle'
  BY <1>1, ClosedHandle
<1>3. Stream'
  BY <1>1, ClosedStream
<1>4. Calling'
  BY <1>1, CallOver, Constants DEF NewHistory, Calling, idle
<1> QED
  BY <1>1, <1>2, <1>3, <1>4, Together

LEMMA ConnectStep == SocketInv /\ Connect => SocketInv'
<1> SUFFICES ASSUME SocketInv, Connect PROVE SocketInv'
  OBVIOUS
<1>0. idle /\ call' = call /\ NewHistory /\ probed' = FALSE /\ errno \in {0, 1}
  BY Parts DEF Connect, Handle
<1>1. CASE NotCreated /\ claimed' = FALSE
  BY <1>0, <1>1, ClosingStep DEF NotCreated
<1>2. ASSUME NEW fd \in Fds, BadTimeout(fd) /\ claimed' = FALSE
      PROVE  SocketInv'
  BY <1>0, <1>2, CreatedKeeps DEF BadTimeout, ConnStates
<1>3. ASSUME NEW fd \in Fds, NEW state \in {"up", "none", "pending"},
             ConnectReturns(fd, state) /\ claimed' = (state # "up")
      PROVE  SocketInv'
  <2>1. conn' \in ConnStates /\ Created(fd) /\ nonblock' = FALSE
    BY <1>3 DEF ConnectReturns, ConnStates
  <2>2. claimed' \in BOOLEAN
    BY <1>3
  <2> QED
    BY <1>0, <2>1, <2>2, CreatedKeeps
<1> QED
  BY <1>1, <1>2, <1>3 DEF Connect

LEMMA CloseStep == SocketInv /\ (Listen \/ Close \/ Finalize) => SocketInv'
<1> SUFFICES ASSUME SocketInv, Listen \/ Close \/ Finalize PROVE SocketInv'
  OBVIOUS
<1>1. errno \in {0, 1} /\ probed \in BOOLEAN /\ claimed \in BOOLEAN
  BY Parts DEF Handle
<1> QED
  BY <1>1, ClosingStep DEF Listen, Close, Finalize, histVars

LEMMA OptionStep ==
  SocketInv /\ (OptionGetFails \/ OptionSetFails \/ \E b \in BOOLEAN : SetNonblocking(b))
    => SocketInv'
<1> SUFFICES ASSUME SocketInv,
                    OptionGetFails \/ OptionSetFails \/ \E b \in BOOLEAN : SetNonblocking(b)
             PROVE  SocketInv'
  OBVIOUS
<1>1. Handle /\ Stream /\ Calling /\ nonblock \in BOOLEAN /\ claimed \in BOOLEAN
  BY Parts
<1>2. CASE OptionSetFails
  BY <1>2, FatalStep DEF OptionSetFails, idle
<1>3. CASE OptionGetFails
  <2>1. Handle'
    BY <1>1, <1>3 DEF OptionGetFails, Handle, SocketOwned, ErrorIsClosed
  <2>2. Stream' /\ Calling'
    BY <1>1, <1>3, StreamKept, CallKept DEF OptionGetFails, netVars, Stream
  <2> QED
    BY <1>1, <1>3, <2>1, <2>2, Together DEF OptionGetFails
<1>4. CASE \E b \in BOOLEAN : SetNonblocking(b)
  <2>1. Handle' /\ Stream' /\ Calling'
    BY <1>1, <1>4, HandleKept, StreamKept, CallKept
       DEF SetNonblocking, objVars, netVars, histVars, Stream
  <2>2. nonblock' \in BOOLEAN /\ claimed' \in BOOLEAN
    BY <1>1, <1>4 DEF SetNonblocking, histVars
  <2> QED
    BY <2>1, <2>2, Together
<1> QED
  BY <1>2, <1>3, <1>4
-----------------------------------------------------------------------------
(* send() *)

(* A step of a call that leaves the socket and the stream alone. *)
LEMMA QuietStep ==
  ASSUME SocketInv, UNCHANGED <<objVars, nonblock, desc, netVars, sent, got, eof, probed, claimed>>,
         Calling'
  PROVE  SocketInv'
<1>1. Handle /\ Stream /\ nonblock \in BOOLEAN /\ claimed \in BOOLEAN
  BY Parts
<1>2. Handle' /\ Stream'
  BY <1>1, HandleKept, StreamKept DEF objVars, netVars, Stream
<1>3. nonblock' \in BOOLEAN /\ claimed' \in BOOLEAN
  BY <1>1
<1> QED
  BY <1>2, <1>3, Together

LEMMA SendStep ==
  ASSUME SocketInv, NEW n \in 1..MaxTx, Send(n)
  PROVE  SocketInv'
<1>1. Calling /\ n \in Nat
  BY Parts, SocketAssumption
<1>2. call' \in Calls
  BY <1>1 DEF Send, Calls
<1>3. Calling'
  BY <1>1, <1>2 DEF Send, Calling, SendCounters, SendReported, closed, objVars, histVars
<1> QED
  BY <1>3, QuietStep DEF Send, histVars

LEMMA SendDataStep ==
  ASSUME SocketInv, NEW k \in 1..MaxTx, SendData(k)
  PROVE  SocketInv'
<1>1. Calling /\ call.op = "send" /\ k \in Nat /\ k <= call.l
  BY Parts, SocketAssumption DEF SendData, Sending
<1>2. /\ call \in [op : {"send"}, size : Nat, n_sent : Nat, l : Nat, acc : Nat]
      /\ call.acc = call.size - call.l /\ call.n_sent <= call.acc
  BY <1>1, SendCall DEF Calling, SendCounters
<1>3. Calling'
  <2>1. CASE k < call.l
    <3>1. call' = [call EXCEPT !.l = call.l - k, !.acc = call.acc + k] /\ last' = last
      BY <2>1 DEF SendData
    <3>2. /\ call' \in [op : {"send"}, size : Nat, n_sent : Nat, l : Nat, acc : Nat]
          /\ call'.acc = call'.size - call'.l /\ call'.n_sent <= call'.acc
      <4>1. /\ call.l \in Nat /\ call.acc \in Nat /\ call.size \in Nat /\ call.n_sent \in Nat
            /\ call.l - k \in Nat /\ call.acc + k \in Nat
            /\ call.acc + k = call.size - (call.l - k) /\ call.n_sent <= call.acc + k
        BY <1>1, <1>2, <2>1
      <4>2. /\ call'.l = call.l - k /\ call'.acc = call.acc + k
            /\ call'.size = call.size /\ call'.n_sent = call.n_sent
        BY <1>2, <3>1
      <4>3. call' \in [op : {"send"}, size : Nat, n_sent : Nat, l : Nat, acc : Nat]
        BY <1>2, <3>1, <4>1
      <4> QED
        BY <4>1, <4>2, <4>3
    <3>3. call' \in Calls /\ id' = id
      BY <1>1, <3>2, SendCall DEF SendData, Calling, objVars
    <3> QED
      BY <1>1, <3>1, <3>2, <3>3 DEF Calling, SendCounters, SendReported, closed
  <2>2. CASE ~(k < call.l)
    <3>1. /\ call' = Idle
          /\ last' = [n |-> call.size, acc |-> call.acc + k, intr |-> FALSE]
          /\ call.acc + k = call.size
      BY <1>1, <1>2, <2>2 DEF SendData
    <3> QED
      BY <1>1, <1>2, <3>1, CallOver, Constants
  <2> QED
    BY <2>1, <2>2
<1> QED
  BY <1>3, QuietStep DEF SendData

LEMMA SendAgainStep ==
  ASSUME SocketInv, SendAgain
  PROVE  SocketInv'
<1>1. Calling /\ call.op = "send"
  BY Parts DEF SendAgain, Sending
<1>2. /\ call \in [op : {"send"}, size : Nat, n_sent : Nat, l : Nat, acc : Nat]
      /\ call.acc = call.size - call.l /\ call.n_sent <= call.acc
  BY <1>1, SendCall DEF Calling, SendCounters
<1>3. SentNow(call) = call.acc - call.n_sent
  BY <1>2 DEF SentNow
<1>4. Calling'
  <2>1. CASE SentNow(call) > 0
    <3>1. call' = [call EXCEPT !.n_sent = call.acc] /\ last' = last
      BY <1>2, <1>3, <2>1 DEF SendAgain
    <3>2. /\ call' \in [op : {"send"}, size : Nat, n_sent : Nat, l : Nat, acc : Nat]
          /\ call'.acc = call'.size - call'.l /\ call'.n_sent <= call'.acc
      BY <1>2, <3>1
    <3>3. call' \in Calls /\ id' = id
      BY <1>1, <3>2, SendCall DEF SendAgain, Calling, objVars
    <3> QED
      BY <1>1, <3>1, <3>2, <3>3 DEF Calling, SendCounters, SendReported, closed
  <2>2. CASE ~(SentNow(call) > 0) /\ errno # 0
    BY <1>1, <2>2, CallOver, Constants DEF SendAgain
  <2>3. CASE ~(SentNow(call) > 0) /\ errno = 0
    <3>1. /\ call' = Idle /\ call.n_sent = call.acc
          /\ last' = [n |-> call.n_sent, acc |-> call.acc, intr |-> FALSE]
      BY <1>2, <1>3, <2>3 DEF SendAgain, Returns
    <3> QED
      BY <1>1, <1>2, <3>1, CallOver, Constants
  <2> QED
    BY <2>1, <2>2, <2>3
<1> QED
  BY <1>4, QuietStep DEF SendAgain

LEMMA SendInterruptedStep ==
  ASSUME SocketInv, SendInterrupted
  PROVE  SocketInv'
<1>1. Handle /\ Stream /\ Calling /\ call.op = "send" /\ nonblock \in BOOLEAN /\ claimed \in BOOLEAN
  BY Parts DEF SendInterrupted, Sending
<1>2. /\ call \in [op : {"send"}, size : Nat, n_sent : Nat, l : Nat, acc : Nat]
      /\ call.n_sent <= call.acc
  BY <1>1, SendCall DEF Calling, SendCounters
<1>3. Calling'
  <2>1. CASE errno # 0
    BY <1>1, <2>1, CallOver, Constants DEF SendInterrupted
  <2>2. CASE errno = 0
    <3>1. call' = Idle /\ last' = [n |-> call.n_sent, acc |-> call.acc, intr |-> TRUE]
      BY <2>2 DEF SendInterrupted, Returns
    <3> QED
      BY <1>1, <1>2, <3>1, CallOver, Constants
  <2> QED
    BY <2>1, <2>2
<1>4. Handle'
  BY <1>1, HandleKept DEF SendInterrupted
<1>5. Stream'
  <2>1. conn' \in ConnStates /\ ~closed /\ UNCHANGED <<id, rxq, sent, got, eof>>
    BY <1>1 DEF SendInterrupted, Stream, ConnStates, Calling, objVars
  <2> QED
    BY <1>1, <2>1, StreamKept
<1>6. nonblock' \in BOOLEAN /\ claimed' \in BOOLEAN
  BY <1>1 DEF SendInterrupted
<1> QED
  BY <1>3, <1>4, <1>5, <1>6, Together

LEMMA SendEndStep ==
  ASSUME SocketInv, SendFails \/ SendSigpipe
  PROVE  SocketInv'
<1>1. CASE SendFails
  BY <1>1, FatalStep DEF SendFails
<1>2. CASE SendSigpipe
  <2>1. Calling'
    BY <1>2, Parts, CallOver, Constants DEF SendSigpipe, histVars
  <2> QED
    BY <1>2, <2>1, QuietStep DEF SendSigpipe, histVars
<1> QED
  BY <1>1, <1>2
-----------------------------------------------------------------------------
(* recv() *)

LEMMA PollStep ==
  ASSUME SocketInv, Recv \/ PollReady \/ PollNothing \/ PollFails
  PROVE  SocketInv'
<1>1. Calling
  BY Parts
<1>2. CASE Recv \/ PollReady
  <2>1. /\ call' \in Calls /\ call'.op \in {"recv", "rx"} /\ ~closed
        /\ UNCHANGED <<id, last>>
    BY <1>1, <1>2, Constants DEF Recv, PollReady, Calling, objVars, histVars
  <2>2. Calling'
    BY <1>1, <2>1 DEF Calling, SendCounters, SendReported, closed
  <2> QED
    BY <1>2, <2>2, QuietStep DEF Recv, PollReady, histVars
<1>3. CASE PollNothing
  <2>1. Calling'
    BY <1>1, <1>3, CallOver, Constants DEF PollNothing, histVars
  <2> QED
    BY <1>3, <2>1, QuietStep DEF PollNothing, histVars
<1>4. CASE PollFails
  BY <1>4, FatalStep DEF PollFails
<1> QED
  BY <1>2, <1>3, <1>4

LEMMA RecvDataStep ==
  ASSUME SocketInv, RecvData
  PROVE  SocketInv'
<1>1. Handle /\ Stream /\ Calling /\ nonblock \in BOOLEAN /\ claimed \in BOOLEAN /\ ~closed
  BY Parts DEF RecvData, Calling
<1>2. PICK n \in 1..Len(rxq) : /\ got' = got \o SubSeq(rxq, 1, n)
                               /\ rxq' = SubSeq(rxq, n + 1, Len(rxq))
  BY DEF RecvData, TakenOver
<1>3. rxq \in Seq(Nat) /\ got \in Seq(Nat) /\ Len(rxq) \in Nat
  BY <1>1 DEF Stream
<1> DEFINE a == SubSeq(rxq, 1, n)
           b == SubSeq(rxq, n + 1, Len(rxq))
<1>4. a \in Seq(Nat) /\ b \in Seq(Nat)
  <2>1. \A i \in 1..Len(rxq) : rxq[i] \in Nat
    BY <1>3, ElementOfSeq
  <2> QED
    BY <1>3, <2>1, SubSeqProperties
<1>5. a \o b = rxq
  <2>1. 1 \in 1 .. Len(rxq) + 1 /\ n \in 1 - 1 .. Len(rxq) /\ Len(rxq) \in n .. Len(rxq)
    BY <1>3
  <2> QED
    BY <1>3, <2>1, ConcatAdjacentSubSeq, SubSeqFull
<1> HIDE DEF a, b
<1>6. (got \o a) \o b = got \o rxq
  <2>1. (got \o a) \o b = got \o (a \o b)
    BY <1>3, <1>4, Assoc, Zenon
  <2> QED
    BY <1>5, <2>1, Zenon
<1>7. got' = got \o a /\ rxq' = b /\ got' \in Seq(Nat) /\ rxq' \in Seq(Nat)
  BY <1>2, <1>3, <1>4 DEF a, b
<1>8. Stream'
  <2>1. got' \o rxq' = sent'
    BY <1>1, <1>6, <1>7 DEF Stream, StreamComplete, RecvData
  <2> QED
    BY <1>1, <1>7, <2>1 DEF Stream, StreamComplete, RecvData, closed, objVars
<1>9. Handle'
  BY <1>1, HandleKept DEF RecvData
<1>10. Calling'
  BY <1>1, CallOver, Constants DEF RecvData
<1>11. nonblock' \in BOOLEAN /\ claimed' \in BOOLEAN
  BY <1>1 DEF RecvData
<1> QED
  BY <1>8, <1>9, <1>10, <1>11, Together

LEMMA RecvEofStep ==
  ASSUME SocketInv, RecvEof
  PROVE  SocketInv'
<1>1. Handle /\ Stream /\ Calling /\ claimed \in BOOLEAN /\ ~closed
  BY Parts DEF RecvEof, Calling
<1>2. got = sent
  <2>1. got \o <<>> = sent /\ got \in Seq(Nat)
    BY <1>1 DEF RecvEof, Stream, StreamComplete
  <2> QED
    BY <2>1, ConcatEmptySeq
<1>3. Stream'
  BY <1>1, <1>2, ClosedStream DEF RecvEof
<1>4. Handle'
  BY <1>1, ClosedHandle DEF RecvEof, Handle
<1>5. Calling'
  BY <1>1, CallOver, Constants DEF RecvEof
<1>6. nonblock' \in BOOLEAN /\ claimed' \in BOOLEAN
  BY <1>1 DEF RecvEof, Closes, NoConnection
<1> QED
  BY <1>3, <1>4, <1>5, <1>6, Together

LEMMA RecvNothingStep ==
  ASSUME SocketInv, RecvNothing
  PROVE  SocketInv'
<1>1. Handle /\ Stream /\ Calling /\ nonblock \in BOOLEAN /\ claimed \in BOOLEAN /\ ~closed
  BY Parts DEF RecvNothing, Calling
<1>2. conn' \in ConnStates /\ UNCHANGED <<id, rxq, sent, got, eof, last, probed, nonblock, claimed>>
  BY <1>1 DEF RecvNothing, Stream, ConnStates, objVars, histVars
<1>3. Stream'
  BY <1>1, <1>2, StreamKept
<1>4. Handle'
  BY <1>1, <1>2, HandleKept DEF RecvNothing
<1>5. Calling'
  BY <1>1, <1>2, CallOver, Constants DEF RecvNothing
<1>6. nonblock' \in BOOLEAN /\ claimed' \in BOOLEAN
  BY <1>1, <1>2
<1> QED
  BY <1>3, <1>4, <1>5, <1>6, Together
-----------------------------------------------------------------------------
(* The network and the application *)

LEMMA PeerSendsStep ==
  ASSUME SocketInv, PeerSends
  PROVE  SocketInv'
<1>1. Handle /\ Stream /\ Calling /\ nonblock \in BOOLEAN /\ claimed \in BOOLEAN /\ ~closed
  BY Parts DEF PeerSends, Stream
<1>2. rxq \in Seq(Nat) /\ sent \in Seq(Nat) /\ got \in Seq(Nat) /\ got \o rxq = sent
  BY <1>1 DEF Stream, StreamComplete
<1> DEFINE x == Len(sent) + 1
<1>3. x \in Nat /\ sent' = Append(sent, x) /\ rxq' = Append(rxq, x)
  BY <1>2 DEF PeerSends
<1>4. sent' \in Seq(Nat) /\ rxq' \in Seq(Nat) /\ got \o rxq' = sent'
  <2> HIDE DEF x
  <2>1. Append(rxq, x) \in Seq(Nat) /\ Append(sent, x) \in Seq(Nat)
    BY <1>2, <1>3
  <2>0. <<x>> \in Seq(Nat)
    BY <1>3
  <2>2. Append(rxq, x) = rxq \o <<x>> /\ Append(sent, x) = sent \o <<x>>
    BY <1>2, <1>3, AppendIsConcat, Zenon
  <2>3. got \o (rxq \o <<x>>) = (got \o rxq) \o <<x>>
    BY <1>2, <2>0, Assoc, Zenon
  <2>4. got \o rxq' = sent'
    BY <1>2, <1>3, <2>2, <2>3, Zenon
  <2> QED
    BY <1>3, <2>1, <2>4
<1>5. Stream'
  BY <1>1, <1>4 DEF Stream, StreamComplete, PeerSends, closed, objVars
<1>6. Handle' /\ Calling'
  BY <1>1, HandleKept, CallKept DEF PeerSends, objVars
<1>7. nonblock' \in BOOLEAN /\ claimed' \in BOOLEAN
  BY <1>1 DEF PeerSends
<1> QED
  BY <1>5, <1>6, <1>7, Together

LEMMA NetworkStep ==
  ASSUME SocketInv, NetworkChange
  PROVE  SocketInv'
<1>1. Handle /\ Stream /\ Calling /\ nonblock \in BOOLEAN /\ claimed \in BOOLEAN
  BY Parts
<1>2. conn' \in ConnStates /\ ~closed
  BY <1>1 DEF NetworkChange, Stream, ConnStates
<1>3. Handle' /\ Stream' /\ Calling'
  BY <1>1, <1>2, HandleKept, StreamKept, CallKept DEF NetworkChange, objVars, histVars
<1>4. nonblock' \in BOOLEAN /\ claimed' \in BOOLEAN
  BY <1>1 DEF NetworkChange, histVars
<1> QED
  BY <1>3, <1>4, Together

LEMMA OtherStep ==
  ASSUME SocketInv, NEW f \in Fds, OtherFiles(f)
  PROVE  SocketInv'
<1>1. Handle /\ Stream /\ Calling /\ nonblock \in BOOLEAN /\ claimed \in BOOLEAN
  BY Parts
<1>2. /\ desc' \in [Fds -> {"free", "socket", "other"}]
      /\ \A g \in Fds : desc'[g] = "socket" <=> desc[g] = "socket"
  BY <1>1 DEF Handle, OtherFiles, Lowest
<1>3. Handle'
  <2>1. {g \in Fds : desc'[g] = "socket"} = {g \in Fds : desc[g] = "socket"}
    BY <1>2
  <2> QED
    BY <1>1, <1>2, <2>1 DEF Handle, SocketOwned, ErrorIsClosed, closed, OtherFiles, objVars, histVars
<1>4. Stream' /\ Calling'
  BY <1>1, StreamKept, CallKept DEF OtherFiles, objVars, netVars, histVars, Stream
<1>5. nonblock' \in BOOLEAN /\ claimed' \in BOOLEAN
  BY <1>1 DEF OtherFiles, histVars
<1> QED
  BY <1>3, <1>4, <1>5, Together
-----------------------------------------------------------------------------
(* The invariant *)

LEMMA Inductive == SocketInv /\ [Next]_vars => SocketInv'
<1> SUFFICES ASSUME SocketInv, [Next]_vars
             PROVE  SocketInv'
  OBVIOUS
<1>1. CASE UNCHANGED vars
  <2>1. Calling'
    BY <1>1, Parts, CallKept DEF vars, objVars, histVars
  <2> QED
    BY <1>1, <2>1, QuietStep DEF vars, histVars
<1>2. CASE Connect \/ Listen \/ Close \/ Finalize
  BY <1>2, ConnectStep, CloseStep
<1>3. CASE OptionGetFails \/ OptionSetFails \/ \E b \in BOOLEAN : SetNonblocking(b)
  BY <1>3, OptionStep
<1>4. CASE \E n \in 1..MaxTx : Send(n) \/ SendData(n)
  BY <1>4, SendStep, SendDataStep
<1>5. CASE SendAgain \/ SendInterrupted \/ SendFails \/ SendSigpipe
  BY <1>5, SendAgainStep, SendInterruptedStep, SendEndStep
<1>6. CASE Recv \/ PollReady \/ PollNothing \/ PollFails
  BY <1>6, PollStep
<1>7. CASE RecvData \/ RecvEof \/ RecvFails \/ RecvNothing
  <2>1. CASE RecvFails
    BY <2>1, FatalStep DEF RecvFails
  <2> QED
    BY <1>7, <2>1, RecvDataStep, RecvEofStep, RecvNothingStep
<1>8. CASE PeerSends \/ NetworkChange \/ \E f \in Fds : OtherFiles(f)
  BY <1>8, PeerSendsStep, NetworkStep, OtherStep
<1> QED
  BY <1>1, <1>2, <1>3, <1>4, <1>5, <1>6, <1>7, <1>8 DEF Next

LEMMA Initial == Init => SocketInv
<1> SUFFICES ASSUME Init PROVE SocketInv
  OBVIOUS
<1>1. TypeOK
  <2>1. /\ id \in Fds \cup {invalid_id} /\ errno \in {0, 1} /\ call \in Calls
        /\ desc \in [Fds -> {"free", "socket", "other"}] /\ conn \in ConnStates
        /\ rxq \in Seq(Nat) /\ sent \in Seq(Nat) /\ got \in Seq(Nat)
    BY Constants DEF Init, ConnStates
  <2>2. /\ nonblock \in BOOLEAN /\ eof \in BOOLEAN /\ probed \in BOOLEAN /\ claimed \in BOOLEAN
        /\ last \in [n : Nat, acc : Nat, intr : BOOLEAN]
    BY Constants, Zenon DEF Init
  <2> QED
    BY <2>1, <2>2 DEF TypeOK
<1>2. SocketOwned /\ ClosedIsQuiet
  BY Constants DEF Init, SocketOwned, ClosedIsQuiet, closed
<1>3. StreamComplete /\ SendCounters /\ SendReported /\ ErrorIsClosed
  BY Constants DEF Init, StreamComplete, SendCounters, SendReported, ErrorIsClosed, closed
<1> QED
  BY <1>1, <1>2, <1>3 DEF SocketInv

LEMMA Invariance == Spec => []SocketInv
BY Initial, Inductive, PTL DEF Spec

(* Every variable keeps its type through all methods of sys.socket. *)
THEOREM SocketTypeCorrect == Spec => []TypeOK
BY Invariance, PTL DEF SocketInv

(* No way out of a method leaks the descriptor, closes it twice or keeps   *)
(* its number after check_error() or close() has closed it.                *)
THEOREM SocketNeverLeaks == Spec => []SocketOwned
BY Invariance, PTL DEF SocketInv

(* recv() returns what the peer sent, all of it before the socket is       *)
(* closed at the end of the stream.                                        *)
THEOREM ReceivesStream == Spec => []StreamComplete
BY Invariance, PTL DEF SocketInv

(* Unless it was interrupted, send() returns what the stack has taken.     *)
THEOREM SendCountsRight == Spec => []SendReported
BY Invariance, PTL DEF SocketInv

(* A failed operation, other than reading an option, leaves no open socket. *)
THEOREM FailureCloses == Spec => []ErrorIsClosed
BY Invariance, PTL DEF SocketInv
=============================================================================
