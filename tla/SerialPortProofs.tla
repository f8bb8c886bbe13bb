-------------------------- MODULE SerialPortProofs --------------------------
(***************************************************************************)
(* Proofs about SerialPort, for any number of objects and descriptors, any *)
(* newline settings and any texts: SPInv is an invariant, LinesComplete is *)
(* one relative to it, and what follows from them.                         *)
(***************************************************************************)
EXTENDS SerialPort, SequenceTheorems, TLAPS

LEMMA Constants ==
  /\ NoFd \notin Fds /\ NoFd \in Int /\ Fds \subseteq Nat
  /\ "free" \notin Objs /\ "other" \notin Objs
  /\ Users \subseteq Objs /\ Newlines \subseteq Seq(Byte) /\ <<>> \in Newlines
  /\ Texts \subseteq Seq(Byte)
  /\ <<>> \in Seq(Byte) /\ "?" \in Byte
BY SerialAssumption DEF NoFd, Byte

(* What the properties of the descriptors speak of. *)
port == <<d, open_, desc, locked, via, moved, broken>>

(* What only the lines and the device's input are made of. *)
lines == <<rx_buffer, rx_newline, rxq, coming, fed>>

Ports == OwnsDescriptor /\ Tracked /\ LockHeld /\ Exclusive

PortTypes ==
  /\ d \in [Objs -> Fds \cup {NoFd}]
  /\ open_ \subseteq Fds
  /\ desc \in [Fds -> {"free", "other"} \cup Objs]
  /\ locked \in Fds \cup {NoFd}
  /\ via \in [Objs -> Ways] /\ moved \in [Objs -> BOOLEAN]
  /\ broken \in BOOLEAN

LineTypes ==
  /\ rx_buffer \in [Objs -> Seq(Byte)]
  /\ rx_newline \in [Objs -> Newlines]
  /\ rxq \in Seq(Byte) /\ coming \in Seq(Byte)
  /\ fed \in [Objs -> Seq(Byte)]

Writes == TxInside /\ WriteAccounted

LEMMA TypeParts == TypeOK <=> PortTypes /\ LineTypes /\ call \in Calls
BY DEF TypeOK, PortTypes, LineTypes

LEMMA Together ==
  ASSUME PortTypes', LineTypes', Ports', Writes', call' \in Calls
  PROVE  SPInv'
<1>1. TypeOK'
  BY DEF TypeOK, PortTypes, LineTypes
<1> QED
  BY <1>1 DEF SPInv, Ports, Writes

LEMMA IdleCall == Idle \in Calls /\ Idle.op = "idle" /\ Over \in Calls /\ Over.op = "exit"
BY DEF Idle, Over, Calls

(* A step of a call, or of the device, leaves the ports alone. *)
LEMMA PortsKept ==
  ASSUME PortTypes, Ports, UNCHANGED port, call'.op = "exit" <=> call.op = "exit"
  PROVE  PortTypes' /\ Ports'
BY DEF PortTypes, Ports, port, OwnsDescriptor, Tracked, LockHeld, Exclusive

(* Idle calls, and calls that only read, say nothing about writing. *)
LEMMA NotWriting ==
  ASSUME call'.op # "write"
  PROVE  Writes'
BY DEF Writes, TxInside, WriteAccounted

LEMMA SameCall ==
  ASSUME Writes, call \in Calls, UNCHANGED call
  PROVE  Writes' /\ call' \in Calls
BY DEF Writes, TxInside, WriteAccounted
-----------------------------------------------------------------------------
LEMMA CloseTypes ==
  ASSUME PortTypes, NEW o \in Objs
  PROVE  /\ Closed(d[o]) \in [Fds -> {"free", "other"} \cup Objs]
         /\ \A f \in Fds : Closed(d[o])[f] = IF f = d[o] THEN "free" ELSE desc[f]
         /\ Unlocked(d[o]) \in Fds \cup {NoFd}
         /\ Unlocked(d[o]) = IF d[o] \in Fds /\ locked = d[o] THEN NoFd ELSE locked
BY DEF PortTypes, Closed, Unlocked

(* close(): the object forgets the number it had, and the number is free.  *)
LEMMA Closes ==
  ASSUME PortTypes, Ports, call.op # "exit", call'.op # "exit", NEW o \in Objs,
         d' = [d EXCEPT ![o] = NoFd],
         desc' = Closed(d[o]), locked' = Unlocked(d[o]),
         Without(o), broken' = broken,
         open_' = open_ \/ open_' = open_ \ {d[o]}
  PROVE  PortTypes' /\ Ports'
<1>1. PortTypes'
  <2>1. /\ d' \in [Objs -> Fds \cup {NoFd}] /\ open_' \subseteq Fds
        /\ via' \in [Objs -> Ways] /\ moved' \in [Objs -> BOOLEAN]
    BY DEF PortTypes, Ways, Without
  <2>2. broken' \in BOOLEAN
    BY DEF PortTypes
  <2> QED
    BY <2>1, <2>2, CloseTypes DEF PortTypes
<1>2. CASE broken
  BY <1>1, <1>2 DEF Ports, OwnsDescriptor, Tracked, LockHeld, Exclusive
<1>3. CASE ~broken
  <2>1. \A p \in Objs : /\ p # o => d'[p] = d[p] /\ via'[p] = via[p] /\ moved'[p] = moved[p]
                        /\ d'[o] = NoFd /\ via'[o] = "none"
    BY DEF PortTypes, Without
  <2>2. \A p \in Objs : p # o /\ d[p] # NoFd => d[p] \in Fds /\ d[p] # d[o] /\ desc'[d[p]] = p
    BY <1>3, Constants DEF Ports, PortTypes, OwnsDescriptor, Closed
  <2>3. OwnsDescriptor'
    BY <2>1, <2>2 DEF OwnsDescriptor
  <2>4. Tracked'
    BY <1>3, <2>1, <2>2, Constants DEF Ports, PortTypes, Tracked
  <2>5. LockHeld'
    BY <1>3, <2>1, <2>2, CloseTypes, Constants DEF Ports, LockHeld
  <2>6. Exclusive'
    BY <1>3, <2>1 DEF Ports, Exclusive
  <2> QED
    BY <1>1, <2>3, <2>4, <2>5, <2>6 DEF Ports
<1> QED
  BY <1>1, <1>2, <1>3 DEF PortTypes

LEMMA RefusedKeeps ==
  ASSUME PortTypes, Ports, call.op # "exit", call'.op # "exit", NEW o \in Objs,
         Refused(o), open_' = open_
  PROVE  PortTypes' /\ Ports'
BY Closes DEF Refused, CloseResets

(* A port that is opened gets a number nobody has, and by its path only    *)
(* when nobody holds the lock.                                             *)
LEMMA ConfiguredKeeps ==
  ASSUME PortTypes, Ports, call.op # "exit", call'.op # "exit", NEW o \in Objs,
         NEW fd \in Fds, NEW direct \in BOOLEAN, NEW added \in BOOLEAN,
         Configured(o, fd, direct, added),
         open_' = IF added THEN open_ \cup {fd} ELSE open_
  PROVE  PortTypes' /\ Ports'
<1>1. PortTypes'
  <2>1. d' \in [Objs -> Fds \cup {NoFd}] /\ open_' \subseteq Fds
    BY DEF PortTypes, Configured, Gets
  <2>5. via' \in [Objs -> Ways]
    BY DEF PortTypes, Configured, Ways
  <2>6. moved' \in [Objs -> BOOLEAN]
    BY DEF PortTypes, Configured
  <2>2. desc' \in [Fds -> {"free", "other"} \cup Objs]
    BY CloseTypes DEF Configured
  <2>3. locked' \in Fds \cup {NoFd}
    BY CloseTypes DEF Configured
  <2>4. broken' \in BOOLEAN
    BY DEF PortTypes, Configured
  <2> QED
    BY <2>1, <2>2, <2>3, <2>4, <2>5, <2>6 DEF PortTypes
<1>2. CASE broken
  BY <1>1, <1>2 DEF Ports, OwnsDescriptor, Tracked, LockHeld, Exclusive, Configured
<1>3. CASE ~broken
  <2>1. /\ \A p \in Objs : p # o => d'[p] = d[p] /\ via'[p] = via[p] /\ moved'[p] = moved[p]
        /\ d'[o] = fd /\ via'[o] = IF direct THEN "path" ELSE "alias"
        /\ ~moved'[o] => added \/ (~moved[o] /\ fd = d[o])
    BY DEF PortTypes, Configured, Gets
  <2>2. \A p \in Objs : p # o /\ d[p] # NoFd => d[p] \in Fds /\ d[p] # d[o] /\ d[p] # fd
    BY <1>3, Constants DEF Ports, PortTypes, OwnsDescriptor, Closed, Configured, Gets, Lowest
  <2>3. \A f \in Fds : desc'[f] = IF f = fd THEN o ELSE IF f = d[o] THEN "free" ELSE desc[f]
    BY CloseTypes DEF Configured
  <2>4. OwnsDescriptor'
    BY <1>3, <2>1, <2>2, <2>3 DEF Ports, OwnsDescriptor
  <2>5. Tracked'
    BY <1>3, <2>1, Constants DEF Ports, Tracked
  <2>6. direct => \A p \in Objs : p # o => via[p] # "path"
    BY <1>3, <2>2, CloseTypes, Constants DEF Ports, LockHeld, Configured, Gets, MayLock
  <2>7. LockHeld'
    <3>1. CASE direct
      BY <1>3, <3>1, <2>1, <2>6, Constants DEF Ports, LockHeld, Configured
    <3>2. CASE ~direct
      <4>1. locked' = Unlocked(d[o]) /\ via'[o] = "alias"
        BY <3>2, <2>1 DEF Configured
      <4>2. \A p \in Objs : p # o /\ via[p] = "path" => locked = d[p] /\ d[p] # NoFd
        BY <1>3 DEF Ports, LockHeld
      <4>3. \A p \in Objs : via'[p] = "path" => locked' = d'[p]
        BY <4>1, <4>2, <2>1, <2>2, CloseTypes, Constants
      <4>4. \A p \in Objs : via'[p] = "none" <=> d'[p] = NoFd
        BY <1>3, <4>1, <2>1, Constants DEF Ports, LockHeld
      <4> QED
        BY <4>3, <4>4 DEF LockHeld
    <3> QED
      BY <3>1, <3>2
  <2>8. Exclusive'
    <3>1. \A p \in Objs : p # o /\ d[p] # NoFd => "alias" \in {via'[o], via[p]}
      BY <1>3, <2>1, <2>6 DEF Ports, LockHeld, PortTypes, Ways
    <3> QED
      BY <1>3, <2>1, <3>1 DEF Ports, Exclusive
  <2> QED
    BY <1>1, <2>4, <2>5, <2>7, <2>8 DEF Ports
<1> QED
  BY <1>1, <1>2, <1>3 DEF PortTypes

(* After this the number may be anybody's. *)
LEMMA MisconfiguredKeeps ==
  ASSUME PortTypes, NEW o \in Objs, NEW fd \in Fds, NEW direct \in BOOLEAN,
         Misconfigured(o, fd, direct), open_' = open_
  PROVE  PortTypes' /\ Ports'
<1>1. PortTypes'
  BY Constants DEF PortTypes, Misconfigured, Gets, Closed, Unlocked, Ways, Without
<1> QED
  BY <1>1 DEF Misconfigured, Ports, OwnsDescriptor, Tracked, LockHeld, Exclusive
-----------------------------------------------------------------------------
(* Sequences *)

LEMMA Part ==
  ASSUME NEW S, NEW s \in Seq(S), NEW m \in Nat \ {0}, NEW n \in Int, n <= Len(s)
  PROVE  SubSeq(s, m, n) \in Seq(S)
<1>1. \A i \in m..n : s[i] \in S
  BY ElementOfSeq
<1> QED
  BY <1>1, SubSeqProperties

LEMMA PartOf ==
  ASSUME NEW S, NEW s \in Seq(S), NEW m \in Nat \ {0}, NEW n \in Nat, n <= Len(s), m <= n + 1
  PROVE  /\ SubSeq(s, m, n) \in Seq(S)
         /\ Len(SubSeq(s, m, n)) = n - m + 1
         /\ \A i \in 1..(n - m + 1) : SubSeq(s, m, n)[i] = s[m + i - 1]
<1>1. \A i \in m..n : s[i] \in S
  BY ElementOfSeq
<1>2. m \in Int /\ n \in Int /\ (~(m <= n) => n - m + 1 = 0)
  OBVIOUS
<1> QED
  BY <1>1, <1>2, SubSeqProperties

(* The same part of two texts that are the same there. *)
LEMMA SameParts ==
  ASSUME NEW S, NEW s \in Seq(S), NEW u \in Seq(S), NEW m \in Nat \ {0}, NEW n \in Nat,
         n <= Len(s), n <= Len(u), \A i \in m..n : s[i] = u[i]
  PROVE  SubSeq(u, m, n) = SubSeq(s, m, n)
<1>1. /\ SubSeq(u, m, n) \in Seq(S) /\ SubSeq(s, m, n) \in Seq(S)
  BY Part
<1>2. Len(SubSeq(u, m, n)) = Len(SubSeq(s, m, n))
  BY SubSeqProperties
<1>3. \A i \in 1..Len(SubSeq(u, m, n)) : SubSeq(u, m, n)[i] = SubSeq(s, m, n)[i]
  BY SubSeqProperties
<1> QED
  BY <1>1, <1>2, <1>3, SeqEqual

(* What has been sent, and the rest of the text, is the text. *)
LEMMA MovesOn ==
  ASSUME NEW S, NEW sent \in Seq(S), NEW tx \in Seq(S), NEW n \in Nat, NEW k \in Nat,
         n + k <= Len(tx)
  PROVE  (sent \o SubSeq(tx, n + 1, n + k)) \o SubSeq(tx, n + k + 1, Len(tx))
           = sent \o SubSeq(tx, n + 1, Len(tx))
<1>1. Len(tx) \in Nat
  OBVIOUS
<1> DEFINE a == SubSeq(tx, n + 1, n + k)
           b == SubSeq(tx, n + k + 1, Len(tx))
<1>2. a \o b = SubSeq(tx, n + 1, Len(tx))
  <2>1. /\ n + 1 \in 1 .. Len(tx) + 1 /\ n + k \in (n + 1) - 1 .. Len(tx)
        /\ Len(tx) \in n + k .. Len(tx)
    BY <1>1
  <2> QED
    BY <2>1, ConcatAdjacentSubSeq
<1>3. a \in Seq(S) /\ b \in Seq(S)
  BY <1>1, Part
<1> HIDE DEF a, b
<1>4. (sent \o a) \o b = sent \o (a \o b)
  BY <1>3, ConcatAssociative
<1>5. (sent \o a) \o b = sent \o SubSeq(tx, n + 1, Len(tx))
  BY <1>2, <1>4, Zenon
<1> QED
  BY <1>5 DEF a, b

-----------------------------------------------------------------------------
(* The operations *)

LEMMA OpenStep ==
  ASSUME SPInv, NEW o \in Objs, Open(o)
  PROVE  SPInv'
<1>0. /\ PortTypes /\ LineTypes /\ Ports /\ Writes /\ call \in Calls
      /\ call' = call /\ call.op = "idle"
  BY TypeParts DEF SPInv, Ports, Writes, Open, idle
<1>1. PortTypes' /\ Ports'
  <2>1. CASE Refused(o) /\ UNCHANGED open_
    BY <1>0, <2>1, RefusedKeeps
  <2>2. ASSUME NEW fd \in Fds, NEW direct \in BOOLEAN,
               \/ Configured(o, fd, direct, TRUE) /\ open_' = open_ \cup {fd}
               \/ Configured(o, fd, direct, FALSE) /\ UNCHANGED open_
        PROVE  PortTypes' /\ Ports'
    BY <1>0, <2>2, ConfiguredKeeps
  <2>3. ASSUME NEW fd \in Fds, NEW direct \in BOOLEAN,
               Misconfigured(o, fd, direct) /\ UNCHANGED open_
        PROVE  PortTypes' /\ Ports'
    BY <1>0, <2>3, MisconfiguredKeeps
  <2> QED
    BY <2>1, <2>2, <2>3 DEF Open
<1>2. LineTypes'
  <2>1. rxq' \in {rxq, <<>>}
    BY DEF Open, Refused, Configured, Misconfigured, Flushed
  <2> QED
    BY <1>0, <2>1, Constants DEF LineTypes, Open
<1>3. Writes' /\ call' \in Calls
  BY <1>0, SameCall
<1> QED
  BY <1>1, <1>2, <1>3, Together

LEMMA PurgeStep ==
  ASSUME SPInv, NEW o \in Objs, Purge(o)
  PROVE  SPInv'
<1>0. /\ PortTypes /\ LineTypes /\ Ports /\ Writes /\ call \in Calls
      /\ call' = call /\ call.op = "idle" /\ open_' = open_
  BY TypeParts DEF SPInv, Ports, Writes, Purge, idle
<1>1. PortTypes' /\ Ports'
  <2>1. CASE Refused(o)
    BY <1>0, <2>1, RefusedKeeps
  <2>2. ASSUME NEW fd \in Fds, NEW direct \in BOOLEAN, Configured(o, fd, direct, FALSE)
        PROVE  PortTypes' /\ Ports'
    BY <1>0, <2>2, ConfiguredKeeps
  <2>3. ASSUME NEW fd \in Fds, NEW direct \in BOOLEAN, Misconfigured(o, fd, direct)
        PROVE  PortTypes' /\ Ports'
    BY <1>0, <2>3, MisconfiguredKeeps
  <2> QED
    BY <2>1, <2>2, <2>3 DEF Purge
<1>2. LineTypes'
  <2>1. rxq' \in {rxq, <<>>}
    BY DEF Purge, Refused, Configured, Misconfigured, Flushed
  <2> QED
    BY <1>0, <2>1, Constants DEF LineTypes, Purge, TtyCloseClears, Restart
<1>3. Writes' /\ call' \in Calls
  BY <1>0, SameCall
<1> QED
  BY <1>1, <1>2, <1>3, Together

LEMMA CloseStep ==
  ASSUME SPInv, NEW o \in Objs, Close(o) \/ Finalize(o)
  PROVE  SPInv'
<1>0. /\ PortTypes /\ LineTypes /\ Ports /\ Writes /\ call \in Calls
      /\ call' = call /\ call.op = "idle"
  BY TypeParts DEF SPInv, Ports, Writes, Close, Finalize, idle
<1>1. PortTypes' /\ Ports'
  BY <1>0, Closes DEF Close, Finalize, CloseResets, Untrack
<1>2. LineTypes'
  <2>1. rxq' \in {rxq, <<>>}
    BY DEF Close, Finalize, Flushed
  <2> QED
    BY <1>0, <2>1, Constants DEF LineTypes, Close, Finalize, TtyCloseClears, Restart
<1>3. Writes' /\ call' \in Calls
  BY <1>0, SameCall
<1> QED
  BY <1>1, <1>2, <1>3, Together

LEMMA SetStep ==
  ASSUME SPInv, NEW o \in Objs, NEW nl \in Newlines, SetRxNewline(o, nl)
  PROVE  SPInv'
<1>0. PortTypes /\ LineTypes /\ Ports /\ Writes /\ call \in Calls /\ call' = call
  BY TypeParts DEF SPInv, Ports, Writes, SetRxNewline
<1>1. PortTypes' /\ Ports'
  BY <1>0, PortsKept DEF SetRxNewline, port, osVars
<1>2. LineTypes'
  BY <1>0 DEF LineTypes, SetRxNewline, Restart, osVars
<1>3. Writes' /\ call' \in Calls
  BY <1>0, SameCall
<1> QED
  BY <1>1, <1>2, <1>3, Together

LEMMA ExitStep ==
  ASSUME SPInv, Exit
  PROVE  SPInv'
<1>0. /\ PortTypes /\ LineTypes /\ Ports /\ call' = Over
      /\ UNCHANGED <<d, open_, via, moved, broken>>
  BY TypeParts DEF SPInv, Ports, Exit, objVars, histVars
<1>1. PortTypes'
  <2>1. /\ desc' \in [Fds -> {"free", "other"} \cup Objs]
        /\ locked' \in Fds \cup {NoFd}
    BY <1>0 DEF PortTypes, Exit
  <2> QED
    BY <1>0, <2>1 DEF PortTypes
<1>2. Ports'
  <2>1. OwnsDescriptor' /\ LockHeld'
    BY <1>0, IdleCall DEF OwnsDescriptor, LockHeld, Ports
  <2> QED
    BY <1>0, <2>1 DEF Ports, Tracked, Exclusive
<1>3. LineTypes'
  BY <1>0 DEF LineTypes, Exit, objVars, histVars
<1>4. Writes' /\ call' \in Calls
  BY <1>0, IdleCall, NotWriting
<1> QED
  BY <1>1, <1>2, <1>3, <1>4, Together

(* Descriptors of the application. *)
LEMMA OtherStep ==
  ASSUME SPInv, NEW f \in Fds, OtherOpens(f) \/ OtherCloses(f)
  PROVE  SPInv'
<1>0. /\ PortTypes /\ LineTypes /\ Ports /\ Writes /\ call \in Calls /\ call' = call
      /\ UNCHANGED <<d, open_, locked, via, moved, broken>>
  BY TypeParts DEF SPInv, Ports, Writes, OtherOpens, OtherCloses, objVars, histVars
<1>1. /\ desc' \in [Fds -> {"free", "other"} \cup Objs]
      /\ desc[f] \in {"free", "other"}
      /\ \A g \in Fds : g # f => desc'[g] = desc[g]
  BY <1>0 DEF PortTypes, OtherOpens, OtherCloses, Lowest
<1>2. PortTypes'
  BY <1>0, <1>1 DEF PortTypes
<1>3. OwnsDescriptor'
  BY <1>0, <1>1, Constants DEF PortTypes, Ports, OwnsDescriptor
<1>4. Ports'
  BY <1>0, <1>3 DEF Ports, Tracked, LockHeld, Exclusive
<1>5. LineTypes'
  BY <1>0 DEF LineTypes, OtherOpens, OtherCloses, objVars, histVars
<1>6. Writes' /\ call' \in Calls
  BY <1>0, SameCall
<1> QED
  BY <1>2, <1>4, <1>5, <1>6, Together

LEMMA ArriveStep ==
  ASSUME SPInv, Arrive
  PROVE  SPInv'
<1>0. PortTypes /\ LineTypes /\ Ports /\ Writes /\ call \in Calls /\ call' = call
  BY TypeParts DEF SPInv, Ports, Writes, Arrive
<1>1. PortTypes' /\ Ports'
  BY <1>0, PortsKept DEF Arrive, port, objVars, histVars
<1>2. LineTypes'
  <2>1. coming \in Seq(Byte) /\ coming # <<>> /\ rxq \in Seq(Byte)
    BY <1>0 DEF LineTypes, Arrive
  <2>2. Head(coming) \in Byte /\ Tail(coming) \in Seq(Byte)
    BY <2>1, HeadTailProperties
  <2>3. rxq' \in Seq(Byte) /\ coming' \in Seq(Byte)
    BY <2>1, <2>2 DEF Arrive
  <2> QED
    BY <1>0, <2>3 DEF LineTypes, Arrive, objVars, histVars
<1>3. Writes' /\ call' \in Calls
  BY <1>0, SameCall
<1> QED
  BY <1>1, <1>2, <1>3, Together
-----------------------------------------------------------------------------
(* Calls *)

ReadCalls == [op : {"read", "readln", "split"}, o : Objs, rx : Seq(Byte),
              received : Seq(Seq(Byte)), ignore : BOOLEAN]

WriteCalls == [op : {"write"}, o : Objs, size : Nat, tx : Seq(Nat), n : Nat, sent : Seq(Nat)]

LEMMA CallKinds ==
  ASSUME call \in Calls
  PROVE  /\ call.op \in {"read", "readln", "split"} => call \in ReadCalls
         /\ call.op = "write" => call \in WriteCalls
         /\ \A c \in ReadCalls \cup WriteCalls : c \in Calls /\ c.op # "exit"
BY DEF Calls, ReadCalls, WriteCalls, Idle, Over

(* A step of a call leaves the ports and what is about writing alone. *)
LEMMA ReadCallStep ==
  ASSUME SPInv, UNCHANGED port, call.op # "exit", LineTypes',
         call' = Idle \/ call' \in ReadCalls
  PROVE  SPInv'
<1>1. PortTypes /\ Ports /\ call \in Calls
  BY TypeParts DEF SPInv, Ports
<1>2. call' \in Calls /\ call'.op # "exit" /\ call'.op # "write"
  BY <1>1, CallKinds, IdleCall DEF ReadCalls
<1>3. PortTypes' /\ Ports'
  BY <1>1, <1>2, PortsKept
<1> QED
  BY <1>2, <1>3, NotWriting, Together

LEMMA BeginStep ==
  ASSUME SPInv, NEW o \in Objs, NEW op \in {"read", "readln"}, NEW skip \in BOOLEAN,
         Begin(o, op, skip)
  PROVE  SPInv'
<1>1. LineTypes'
  BY TypeParts DEF SPInv, LineTypes, Begin, objVars, osVars, histVars
<1>2. call' \in ReadCalls /\ call.op # "exit"
  <2>1. <<>> \in Seq(Byte) /\ <<>> \in Seq(Seq(Byte))
    OBVIOUS
  <2> QED
    BY <2>1 DEF Begin, ReadCalls, idle
<1>3. UNCHANGED port
  BY DEF Begin, port, objVars, osVars, histVars
<1> QED
  BY <1>1, <1>2, <1>3, ReadCallStep

LEMMA RxDataStep ==
  ASSUME SPInv, RxData
  PROVE  SPInv'
<1>1. LineTypes /\ call \in ReadCalls /\ call.op # "exit"
  BY TypeParts, CallKinds DEF SPInv, RxData, Reading
<1>2. \E t \in Seq(Byte) : call' = [call EXCEPT !.rx = t]
  <2>1. CASE \E n \in 1..Len(rxq) : call' = [call EXCEPT !.rx = @ \o SubSeq(rxq, 1, n)]
    <3>1. PICK n \in 1..Len(rxq) : call' = [call EXCEPT !.rx = @ \o SubSeq(rxq, 1, n)]
      BY <2>1
    <3>2. SubSeq(rxq, 1, n) \in Seq(Byte)
      BY <1>1, <3>1, Part DEF LineTypes
    <3>3. call.rx \o SubSeq(rxq, 1, n) \in Seq(Byte)
      BY <1>1, <3>2 DEF ReadCalls
    <3>4. call' = [call EXCEPT !.rx = call.rx \o SubSeq(rxq, 1, n)]
      BY <3>1
    <3> QED
      BY <3>3, <3>4
  <2>2. CASE call' = [call EXCEPT !.rx = <<"?">>]
    <3>1. <<"?">> \in Seq(Byte)
      BY Constants
    <3> QED
      BY <2>2, <3>1
  <2> QED
    BY <2>1, <2>2 DEF RxData
<1>3. rxq' \in Seq(Byte)
  <2>1. CASE \E n \in 1..Len(rxq) : rxq' = SubSeq(rxq, n + 1, Len(rxq))
    BY <1>1, <2>1, Part DEF LineTypes
  <2>2. CASE rxq' = rxq
    BY <1>1, <2>2 DEF LineTypes
  <2> QED
    BY <2>1, <2>2 DEF RxData
<1>4. LineTypes'
  BY <1>1, <1>3 DEF LineTypes, RxData, objVars, histVars
<1>5. UNCHANGED port
  BY DEF RxData, port, objVars, histVars
<1>6. call' \in ReadCalls
  BY <1>1, <1>2 DEF ReadCalls
<1> QED
  BY <1>1, <1>4, <1>5, <1>6, ReadCallStep

LEMMA RxEndStep ==
  ASSUME SPInv, RxEnd \/ RxError
  PROVE  SPInv'
<1>1. LineTypes /\ call \in ReadCalls /\ call.op # "exit" /\ call.o \in Objs /\ call.rx \in Seq(Byte)
  BY TypeParts, CallKinds DEF SPInv, RxEnd, RxError, Reading, ReadCalls
<1>2. UNCHANGED port
  BY DEF RxEnd, RxError, port, objVars, osVars
<1>3. call' = Idle \/ call' \in ReadCalls
  BY <1>1, Constants DEF RxEnd, RxError, ReadCalls
<1>4. LineTypes'
  <2>1. UNCHANGED <<rx_newline, rxq, coming>>
    BY DEF RxEnd, RxError, objVars, osVars
  <2>2. rx_buffer' \in [Objs -> Seq(Byte)] /\ fed' \in [Objs -> Seq(Byte)]
    <3>1. rx_buffer[call.o] \o call.rx \in Seq(Byte) /\ fed[call.o] \o call.rx \in Seq(Byte)
      BY <1>1 DEF LineTypes
    <3>2. CASE RxEnd
      BY <1>1, <3>1, <3>2 DEF LineTypes, RxEnd, RxAppended
    <3>3. CASE RxError
      BY <1>1, <3>3 DEF LineTypes, RxError, Restart, objVars
    <3> QED
      BY <3>2, <3>3
  <2> QED
    BY <1>1, <2>1, <2>2 DEF LineTypes
<1> QED
  BY <1>1, <1>2, <1>3, <1>4, ReadCallStep

LEMMA SplitStep ==
  ASSUME SPInv, SplitLine \/ SplitEnd
  PROVE  SPInv'
<1>1. /\ LineTypes /\ call \in ReadCalls /\ call.op # "exit" /\ call.o \in Objs
      /\ call.received \in Seq(Seq(Byte)) /\ rx_buffer[call.o] \in Seq(Byte)
  BY TypeParts, CallKinds DEF SPInv, SplitLine, SplitEnd, ReadCalls, LineTypes
<1>2. UNCHANGED port
  BY DEF SplitLine, SplitEnd, port, objVars, osVars, histVars
<1>3. UNCHANGED <<rx_newline, rxq, coming>>
  BY DEF SplitLine, SplitEnd, objVars, osVars
<1>4. CASE SplitLine
  <2> DEFINE t == rx_buffer[call.o]
             nl == rx_newline[call.o]
  <2>1. PICK p \in 1..Len(t) :
          /\ call' = [call EXCEPT !.received =
                        IF SubSeq(t, 1, p - 1) # <<>> \/ ~call.ignore
                        THEN Append(@, SubSeq(t, 1, p - 1)) ELSE @]
          /\ rx_buffer' = [rx_buffer EXCEPT ![call.o] = SubSeq(t, NextStart(t, nl, p), Len(t))]
    BY <1>4 DEF SplitLine
  <2>2. SubSeq(t, 1, p - 1) \in Seq(Byte)
    BY <1>1, Part
  <2>3. NextStart(t, nl, p) \in Nat \ {0}
    BY <1>1 DEF NextStart
  <2>4. SubSeq(t, NextStart(t, nl, p), Len(t)) \in Seq(Byte)
    BY <1>1, <2>3, Part
  <2>5. Append(call.received, SubSeq(t, 1, p - 1)) \in Seq(Seq(Byte))
    BY <1>1, <2>2
  <2>6. call' \in ReadCalls
    BY <1>1, <2>1, <2>5 DEF ReadCalls
  <2>7. LineTypes'
    BY <1>1, <1>3, <1>4, <2>1, <2>4 DEF LineTypes, SplitLine, histVars
  <2> QED
    BY <1>1, <1>2, <2>6, <2>7, ReadCallStep
<1>5. CASE SplitEnd
  <2>1. call' = Idle \/ call' \in ReadCalls
    BY <1>1, <1>5 DEF SplitEnd, ReadCalls
  <2>2. LineTypes'
    BY <1>1, <1>3, <1>5 DEF LineTypes, SplitEnd, Restart, objVars
  <2> QED
    BY <1>1, <1>2, <2>1, <2>2, ReadCallStep
<1> QED
  BY <1>4, <1>5

(* write() has sent a beginning of the text: the steps of its loops. *)
LEMMA WriteCallStep ==
  ASSUME SPInv, UNCHANGED <<port, lines>>, call.op # "exit",
         call' = Idle \/ (call' \in WriteCalls /\ Writes')
  PROVE  SPInv'
<1>1. PortTypes /\ LineTypes /\ Ports /\ call \in Calls
  BY TypeParts DEF SPInv, Ports
<1>2. call' \in Calls /\ call'.op # "exit" /\ Writes'
  BY <1>1, CallKinds, IdleCall, NotWriting
<1>3. PortTypes' /\ Ports'
  BY <1>1, <1>2, PortsKept
<1>4. LineTypes'
  BY <1>1 DEF LineTypes, lines
<1> QED
  BY <1>2, <1>3, <1>4, Together

LEMMA PositionsSeq ==
  ASSUME NEW n \in Nat
  PROVE  Positions(n) \in Seq(Nat) /\ Len(Positions(n)) = n
<1>1. Positions(n) \in [1..n -> Nat]
  BY DEF Positions
<1> QED
  BY <1>1 DEF Positions

LEMMA WriteStep ==
  ASSUME SPInv, NEW o \in Objs, NEW n \in 1..MaxTx, Write(o, n)
  PROVE  SPInv'
<1>1. n \in Nat /\ Positions(n) \in Seq(Nat) /\ Len(Positions(n)) = n
  BY SerialAssumption, PositionsSeq
<1>2. call' \in WriteCalls
  BY <1>1 DEF Write, WriteCalls
<1>3. /\ call'.tx = Positions(n) /\ call'.n = 0 /\ call'.sent = <<>> /\ call'.size = n
      /\ call.op # "exit"
  BY DEF Write, idle
<1>4. <<>> \o SubSeq(Positions(n), 0 + 1, Len(Positions(n))) = Positions(n)
  BY <1>1, SubSeqFull, ConcatEmptySeq
<1>5. Writes'
  BY <1>1, <1>3, <1>4 DEF Writes, TxInside, WriteAccounted
<1>6. UNCHANGED <<port, lines>>
  BY DEF Write, port, lines, objVars, osVars, histVars
<1> QED
  BY <1>2, <1>3, <1>5, <1>6, WriteCallStep

LEMMA TxDataStep ==
  ASSUME SPInv, NEW k \in 1..MaxTx, TxData(k)
  PROVE  SPInv'
<1>1. call \in WriteCalls /\ call.op # "exit" /\ call.op = "write" /\ k \in Nat
  BY SerialAssumption, TypeParts, CallKinds DEF SPInv, TxData
<1>2. /\ call.tx \in Seq(Nat) /\ call.sent \in Seq(Nat) /\ call.n \in Nat
      /\ call.n + k <= Len(call.tx) /\ call.n + k \in Nat
  BY <1>1 DEF TxData, WriteCalls
<1>3. /\ call'.tx = call.tx /\ call'.n = call.n + k /\ call'.size = call.size
      /\ call'.sent = call.sent \o SubSeq(call.tx, call.n + 1, call.n + k)
  BY <1>1 DEF TxData, WriteCalls
<1>4. SubSeq(call.tx, call.n + 1, call.n + k) \in Seq(Nat)
  <2> DEFINE tx == call.tx
             n == call.n
  <2>1. tx \in Seq(Nat) /\ n \in Nat /\ n + k <= Len(tx)
    BY <1>2
  <2> HIDE DEF tx, n
  <2>2. n + 1 \in Nat \ {0} /\ n + k \in Int
    BY <1>1, <2>1
  <2>3. SubSeq(tx, n + 1, n + k) \in Seq(Nat)
    BY <2>1, <2>2, Part
  <2> QED
    BY <2>3 DEF tx, n
<1>5. call' \in WriteCalls
  <2>1. call.sent \o SubSeq(call.tx, call.n + 1, call.n + k) \in Seq(Nat)
    BY <1>2, <1>4
  <2> QED
    BY <1>1, <1>2, <2>1 DEF TxData, WriteCalls
<1>6. TxInside'
  BY <1>2, <1>3 DEF TxInside
<1>7. WriteAccounted'
  <2>1. call.sent \o SubSeq(call.tx, call.n + 1, Len(call.tx)) = Positions(call.size)
    BY <1>1 DEF SPInv, WriteAccounted
  <2>2. (call.sent \o SubSeq(call.tx, call.n + 1, call.n + k))
          \o SubSeq(call.tx, call.n + k + 1, Len(call.tx)) = Positions(call.size)
    BY <1>1, <1>2, <2>1, MovesOn
  <2> QED
    BY <1>3, <2>2 DEF WriteAccounted, Positions
<1>8. UNCHANGED <<port, lines>>
  BY DEF TxData, port, lines, objVars, osVars, histVars
<1> QED
  BY <1>1, <1>5, <1>6, <1>7, <1>8, WriteCallStep DEF Writes

LEMMA TxInterruptedStep ==
  ASSUME SPInv, TxInterrupted
  PROVE  SPInv'
<1>1. call \in WriteCalls /\ call.op # "exit" /\ call.op = "write"
  BY TypeParts, CallKinds DEF SPInv, TxInterrupted
<1>2. call.tx \in Seq(Nat) /\ call.n \in Nat /\ call.n <= Len(call.tx)
  BY <1>1 DEF WriteCalls, SPInv, TxInside
<1> DEFINE rest == SubSeq(call.tx, call.n + 1, Len(call.tx))
<1>3. /\ call'.tx = rest /\ call'.n = 0 /\ call'.size = call.size /\ call'.sent = call.sent
  BY <1>1 DEF TxInterrupted, TxRest, WriteCalls
<1>4. rest \in Seq(Nat) /\ SubSeq(rest, 1, Len(rest)) = rest
  <2>1. rest \in Seq(Nat)
    BY <1>2, Part
  <2> HIDE DEF rest
  <2> QED
    BY <2>1, SubSeqFull
<1>5. call' \in WriteCalls
  BY <1>1, <1>4 DEF TxInterrupted, TxRest, WriteCalls
<1>6. TxInside'
  BY <1>3, <1>4 DEF TxInside
<1>7. WriteAccounted'
  <2>1. call.sent \o rest = Positions(call.size)
    BY <1>1 DEF SPInv, WriteAccounted
  <2> HIDE DEF rest
  <2>2. call'.n + 1 = 1
    BY <1>3
  <2>3. call'.sent \o SubSeq(call'.tx, call'.n + 1, Len(call'.tx)) = Positions(call'.size)
    BY <1>3, <1>4, <2>1, <2>2
  <2> QED
    BY <2>3 DEF WriteAccounted, Positions
<1>8. UNCHANGED <<port, lines>>
  BY DEF TxInterrupted, port, lines, objVars, osVars, histVars
<1> QED
  BY <1>1, <1>5, <1>6, <1>7, <1>8, WriteCallStep DEF Writes

LEMMA TxEndStep ==
  ASSUME SPInv, TxDone \/ TxError
  PROVE  SPInv'
<1>1. call.op # "exit" /\ call' = Idle /\ UNCHANGED <<port, lines>>
  BY DEF TxDone, TxError, port, lines, objVars, osVars, histVars
<1> QED
  BY <1>1, WriteCallStep
-----------------------------------------------------------------------------
(* The invariant *)

LEMMA Inductive == SPInv /\ [Next]_vars => SPInv'
<1> SUFFICES ASSUME SPInv, [Next]_vars
             PROVE  SPInv'
  OBVIOUS
<1>1. CASE UNCHANGED vars
  <2>1. /\ UNCHANGED <<port, lines>> /\ UNCHANGED call
        /\ PortTypes /\ LineTypes /\ Ports /\ Writes /\ call \in Calls
    BY <1>1, TypeParts DEF vars, objVars, osVars, histVars, port, lines, SPInv, Ports, Writes
  <2>2. LineTypes'
    BY <2>1 DEF LineTypes, lines
  <2> QED
    BY <2>1, <2>2, PortsKept, SameCall, Together
<1>2. ASSUME NEW o \in Objs, Open(o) \/ Purge(o) \/ Close(o) \/ Finalize(o)
      PROVE  SPInv'
  BY <1>2, OpenStep, PurgeStep, CloseStep
<1>3. ASSUME NEW o \in Users,
             \/ Read(o)
             \/ \E nl \in Newlines : SetRxNewline(o, nl)
             \/ \E skip \in BOOLEAN : Readln(o, skip)
             \/ \E n \in 1..MaxTx : Write(o, n)
      PROVE  SPInv'
  <2>1. o \in Objs
    BY Constants
  <2> QED
    BY <1>3, <2>1, BeginStep, SetStep, WriteStep DEF Read, Readln
<1>4. CASE RxData \/ RxEnd \/ RxError \/ SplitLine \/ SplitEnd
  BY <1>4, RxDataStep, RxEndStep, SplitStep
<1>5. CASE \E k \in 1..MaxTx : TxData(k)
  BY <1>5, TxDataStep
<1>6. CASE TxInterrupted \/ TxDone \/ TxError
  BY <1>6, TxInterruptedStep, TxEndStep
<1>7. CASE Arrive \/ Exit \/ \E f \in Fds : OtherOpens(f) \/ OtherCloses(f)
  BY <1>7, ArriveStep, ExitStep, OtherStep
<1> QED
  BY <1>1, <1>2, <1>3, <1>4, <1>5, <1>6, <1>7 DEF Next

LEMMA Initial == Init => SPInv
<1> SUFFICES ASSUME Init PROVE SPInv
  OBVIOUS
<1>1. PortTypes
  BY DEF Init, PortTypes, Ways
<1>2. LineTypes
  BY Constants DEF Init, LineTypes
<1>3. call \in Calls /\ call.op = "idle"
  BY IdleCall DEF Init
<1>4. OwnsDescriptor /\ Tracked /\ LockHeld /\ Exclusive
  BY DEF Init, OwnsDescriptor, Tracked, LockHeld, Exclusive
<1>5. TxInside /\ WriteAccounted
  BY <1>3 DEF TxInside, WriteAccounted
<1> QED
  BY <1>1, <1>2, <1>3, <1>4, <1>5, TypeParts DEF SPInv

LEMMA Invariance == Spec => []SPInv
BY Initial, Inductive, PTL DEF Spec

-----------------------------------------------------------------------------
(* The lines of readln() *)

LEMMA EmptyReceived == NotEmpty(<<>>) = {}
BY DEF NotEmpty

(* received are the words of t[1..c], behind which a line begins. *)
SplitOff(received, t, c, newline) ==
  /\ c > 0 => t[c] \in newline
  /\ \E at \in [NotEmpty(received) -> 1..c] : Matches(at, received, t, c, newline)

LEMMA CompleteAt ==
  ASSUME NEW received, NEW t, NEW newline, NEW buf,
         NEW c \in Nat, c = Len(t) - Len(buf),
         buf = SubSeq(t, c + 1, Len(t)), SplitOff(received, t, c, newline)
  PROVE  Complete(received, t, buf, newline)
<1>1. c >= 0
  OBVIOUS
<1> QED
  BY <1>1, Zenon DEF Complete, SplitOff

LEMMA CompleteMeans ==
  ASSUME NEW received, NEW t \in Seq(Byte), NEW newline, NEW buf \in Seq(Byte),
         Complete(received, t, buf, newline)
  PROVE  \E c \in Nat : /\ c <= Len(t) /\ Len(buf) = Len(t) - c /\ c = Len(t) - Len(buf)
                        /\ buf = SubSeq(t, c + 1, Len(t))
                        /\ SplitOff(received, t, c, newline)
<1> DEFINE c == Len(t) - Len(buf)
<1>1. /\ c >= 0 /\ buf = SubSeq(t, c + 1, Len(t))
      /\ SplitOff(received, t, c, newline)
  BY Zenon DEF Complete, SplitOff
<1>2. c \in Nat /\ c <= Len(t) /\ Len(buf) = Len(t) - c
  <2>1. Len(t) \in Nat /\ Len(buf) \in Nat /\ c >= 0
    BY <1>1
  <2> QED
    BY <2>1
<1> QED
  BY <1>1, <1>2, Zenon

(* The buffer is all there is, and nothing was split off. *)
LEMMA NothingSplit ==
  ASSUME NEW t \in Seq(Byte), NEW newline
  PROVE  Complete(<<>>, t, t, newline)
<1>1. /\ 0 \in Nat /\ 0 = Len(t) - Len(t) /\ t = SubSeq(t, 0 + 1, Len(t))
  BY SubSeqFull
<1> DEFINE at == [j \in {} |-> 0]
<1>2. at \in [NotEmpty(<<>>) -> 1..0]
  BY EmptyReceived
<1>3. Matches(at, <<>>, t, 0, newline)
  BY EmptyReceived DEF Matches, WordBegins
<1>4. ~(0 > 0)
  OBVIOUS
<1>5. SplitOff(<<>>, t, 0, newline)
  BY <1>2, <1>3, <1>4, Zenon DEF SplitOff
<1> QED
  BY <1>1, <1>5, CompleteAt

LEMMA LongerTail ==
  ASSUME NEW t \in Seq(Byte), NEW rx \in Seq(Byte), NEW c \in Nat, c <= Len(t)
  PROVE  SubSeq(t, c + 1, Len(t)) \o rx = SubSeq(t \o rx, c + 1, Len(t \o rx))
<1> DEFINE l == Len(t)
           r == Len(rx)
           u == t \o rx
           b == SubSeq(t, c + 1, l)
           v == SubSeq(u, c + 1, l + r)
<1>1. l \in Nat /\ r \in Nat /\ u \in Seq(Byte) /\ Len(u) = l + r
  OBVIOUS
<1>2. /\ \A i \in 1..l : u[i] = t[i]
      /\ \A i \in (l + 1)..(l + r) : u[i] = rx[i - l]
  BY <1>1
<1>3. /\ b \in Seq(Byte) /\ Len(b) = l - (c + 1) + 1
      /\ \A i \in 1..(l - (c + 1) + 1) : b[i] = t[(c + 1) + i - 1]
  <2>1. c + 1 \in Nat \ {0} /\ c + 1 <= l + 1
    BY <1>1
  <2> QED
    BY <1>1, <2>1, PartOf
<1>4. /\ v \in Seq(Byte) /\ Len(v) = (l + r) - (c + 1) + 1
      /\ \A i \in 1..((l + r) - (c + 1) + 1) : v[i] = u[(c + 1) + i - 1]
  <2>1. c + 1 \in Nat \ {0} /\ c + 1 <= (l + r) + 1 /\ l + r \in Nat /\ l + r <= Len(u)
    BY <1>1
  <2> HIDE DEF u
  <2> QED
    BY <1>1, <2>1, PartOf
<1>5. c <= l
  OBVIOUS
<1>6. /\ b \o rx \in Seq(Byte) /\ Len(b \o rx) = Len(b) + r
      /\ \A i \in 1..Len(b) : (b \o rx)[i] = b[i]
      /\ \A i \in (Len(b) + 1)..(Len(b) + r) : (b \o rx)[i] = rx[i - Len(b)]
  <2>1. b \in Seq(Byte) /\ rx \in Seq(Byte)
    BY <1>3
  <2> HIDE DEF b, u, v
  <2> QED
    BY <2>1
<1> DEFINE w == b \o rx
<1> HIDE DEF l, r, u, b, v, w
<1>7. w \in Seq(Byte) /\ Len(w) = Len(v)
  BY <1>1, <1>3, <1>4, <1>5, <1>6 DEF w
<1>8. ASSUME NEW i \in 1..Len(w) PROVE w[i] = v[i]
  <2>1. i \in Nat /\ i <= l + r - c /\ i >= 1 /\ Len(b) = l - c
    BY <1>1, <1>3, <1>4, <1>5, <1>7
  <2>2. v[i] = u[c + i]
    <3>1. i \in 1..((l + r) - (c + 1) + 1) /\ (c + 1) + i - 1 = c + i
      BY <1>1, <2>1
    <3> QED
      BY <1>4, <3>1
  <2>3. CASE i <= l - c
    <3>1. i \in 1..Len(b) /\ i \in 1..(l - (c + 1) + 1) /\ (c + 1) + i - 1 = c + i /\ c + i \in 1..l
      BY <1>1, <1>5, <2>1, <2>3
    <3>2. w[i] = b[i] /\ b[i] = t[c + i] /\ u[c + i] = t[c + i]
      BY <1>2, <1>3, <1>6, <3>1 DEF w
    <3> QED
      BY <2>2, <3>2
  <2>4. CASE i > l - c
    <3>1. /\ i \in (Len(b) + 1)..(Len(b) + r) /\ c + i \in (l + 1)..(l + r)
          /\ i - Len(b) = (c + i) - l
      BY <1>1, <1>5, <2>1, <2>4
    <3>2. w[i] = rx[i - Len(b)] /\ u[c + i] = rx[(c + i) - l]
      BY <1>2, <1>6, <3>1 DEF w
    <3> QED
      BY <2>2, <3>1, <3>2
  <2> QED
    BY <1>1, <1>5, <2>1, <2>3, <2>4
<1>9. w = v
  BY <1>4, <1>7, <1>8, SeqEqual
<1> QED
  BY <1>1, <1>9 DEF w, v, b, u, l, r

(* What is split off depends on t[1..c] only. *)
LEMMA SplitOffSame ==
  ASSUME NEW received \in Seq(Seq(Byte)), NEW t \in Seq(Byte), NEW u \in Seq(Byte), NEW newline,
         NEW c \in Nat, c <= Len(t), c <= Len(u), \A i \in 1..c : u[i] = t[i],
         SplitOff(received, t, c, newline)
  PROVE  SplitOff(received, u, c, newline)
<1>1. PICK at \in [NotEmpty(received) -> 1..c] : Matches(at, received, t, c, newline)
  BY Zenon DEF SplitOff
<1>2. c > 0 => u[c] \in newline
  BY DEF SplitOff
<1>3. WordBegins(u, c, newline) = WordBegins(t, c, newline)
  <2>1. \A i \in 1..c : u[i] = t[i] /\ (i # 1 => u[i - 1] = t[i - 1])
    OBVIOUS
  <2> QED
    BY <2>1 DEF WordBegins
<1>4. ASSUME NEW j \in NotEmpty(received)
      PROVE  WordAt(u, c, newline, at[j], received[j])
  <2> DEFINE i == at[j]
             line == received[j]
  <2>1. i \in 1..c /\ WordAt(t, c, newline, i, line)
    BY <1>1 DEF Matches
  <2>2. line \in Seq(Byte) /\ Len(line) \in Nat
    BY DEF NotEmpty
  <2> HIDE DEF i, line
  <2> DEFINE n == i + Len(line) - 1
  <2>3. i + Len(line) <= c /\ n + 1 = i + Len(line) /\ n \in Nat /\ i \in Nat \ {0} /\ n + 1 \in 1..c
    BY <2>1, <2>2 DEF WordAt
  <2> HIDE DEF n
  <2>4. SubSeq(u, i, n) = SubSeq(t, i, n)
    <3>1. n <= Len(t) /\ n <= Len(u) /\ \A k \in i..n : t[k] = u[k]
      BY <2>3
    <3> QED
      BY <2>3, <3>1, SameParts
  <2>5. u[i + Len(line)] = t[i + Len(line)]
    BY <2>3
  <2> QED
    BY <2>1, <2>4, <2>5, Zenon DEF WordAt, n, i, line
<1>5. Matches(at, received, u, c, newline)
  BY <1>1, <1>3, <1>4, Zenon DEF Matches
<1> QED
  BY <1>1, <1>2, <1>5, Zenon DEF SplitOff

(* Bytes that are appended come behind everything that was split off. *)
LEMMA MoreBytes ==
  ASSUME NEW received \in Seq(Seq(Byte)), NEW t \in Seq(Byte), NEW buf \in Seq(Byte),
         NEW rx \in Seq(Byte), NEW newline, Complete(received, t, buf, newline)
  PROVE  Complete(received, t \o rx, buf \o rx, newline)
<1>1. PICK c \in Nat : /\ c <= Len(t) /\ Len(buf) = Len(t) - c /\ c = Len(t) - Len(buf)
                       /\ buf = SubSeq(t, c + 1, Len(t))
                       /\ SplitOff(received, t, c, newline)
  BY CompleteMeans
<1>2. /\ t \o rx \in Seq(Byte) /\ Len(t \o rx) = Len(t) + Len(rx)
      /\ Len(buf \o rx) = Len(buf) + Len(rx) /\ Len(rx) \in Nat /\ Len(t) \in Nat
      /\ \A i \in 1..Len(t) : (t \o rx)[i] = t[i]
  OBVIOUS
<1>3. c <= Len(t) /\ c <= Len(t \o rx) /\ \A i \in 1..c : (t \o rx)[i] = t[i]
  <2>1. c <= Len(t)
    BY <1>1
  <2> QED
    BY <1>2, <2>1
<1>4. SplitOff(received, t \o rx, c, newline)
  <2>1. SplitOff(received, t, c, newline)
    BY <1>1
  <2> DEFINE u == t \o rx
  <2> HIDE DEF u
  <2>2. u \in Seq(Byte) /\ c <= Len(u) /\ \A i \in 1..c : u[i] = t[i]
    BY <1>2, <1>3 DEF u
  <2>3. SplitOff(received, u, c, newline)
    BY <1>3, <2>1, <2>2, SplitOffSame
  <2> QED
    BY <2>3 DEF u
<1>5. buf \o rx = SubSeq(t \o rx, c + 1, Len(t \o rx))
  <2>1. SubSeq(t, c + 1, Len(t)) \o rx = SubSeq(t \o rx, c + 1, Len(t \o rx))
    BY <1>3, LongerTail
  <2>2. buf = SubSeq(t, c + 1, Len(t))
    BY <1>1
  <2> QED
    BY <2>1, <2>2, Zenon
<1>6. c = Len(t \o rx) - Len(buf \o rx)
  <2>1. Len(buf) = Len(t) - c
    BY <1>1
  <2> QED
    BY <1>2, <2>1
<1> QED
  BY <1>4, <1>5, <1>6, CompleteAt

(* A word stays one when more is split off behind it. *)
LEMMA WordStays ==
  ASSUME NEW t, NEW c \in Nat, NEW e \in Nat, c <= e, NEW newline, NEW i \in 1..c,
         NEW line \in Seq(Byte), WordAt(t, c, newline, i, line)
  PROVE  WordAt(t, e, newline, i, line)
<1>1. i + Len(line) <= e
  <2>1. Len(line) \in Nat /\ i + Len(line) <= c
    BY DEF WordAt
  <2> QED
    BY <2>1
<1> QED
  BY <1>1, Zenon DEF WordAt

(* Behind t[1..c] there are p - 1 bytes of a line and then, up to e, newlines. *)
LineAndNewlines(t, c, p, e, newline) ==
  /\ c + p <= e
  /\ \A i \in (c + 1)..(c + p - 1) : t[i] \notin newline
  /\ \A i \in (c + p)..e : t[i] \in newline

(* The words of t[1..e] are those of t[1..c], and the line behind them if  *)
(* it is not empty.                                                        *)
NextBegins(t, c, p, e, newline) ==
  /\ p = 1 => WordBegins(t, e, newline) = WordBegins(t, c, newline)
  /\ p # 1 => WordBegins(t, e, newline) = WordBegins(t, c, newline) \cup {c + 1}

LEMMA BeginsOfNext ==
  ASSUME NEW t, NEW newline, NEW c \in Nat, NEW p \in Nat \ {0}, NEW e \in Nat,
         c > 0 => t[c] \in newline, LineAndNewlines(t, c, p, e, newline)
  PROVE  NextBegins(t, c, p, e, newline)
<1>0. /\ c + p <= e
      /\ \A i \in (c + 1)..(c + p - 1) : t[i] \notin newline
      /\ \A i \in (c + p)..e : t[i] \in newline
  BY DEF LineAndNewlines
<1> DEFINE B(i) == t[i] \notin newline /\ (i = 1 \/ t[i - 1] \in newline)
<1>1. ASSUME NEW i \in 1..e
      PROVE  B(i) <=> (i \in 1..c /\ B(i)) \/ (p # 1 /\ i = c + 1)
  <2>1. CASE i <= c
    BY <1>0, <2>1
  <2>2. CASE i = c + 1
    <3>1. CASE p = 1
      <4>1. i \in (c + p)..e
        BY <1>0, <2>2, <3>1
      <4> QED
        BY <1>0, <2>2, <3>1, <4>1
    <3>2. CASE p # 1
      <4>1. i \in (c + 1)..(c + p - 1) /\ i - 1 = c /\ (c = 0 => i = 1) /\ (c # 0 => c > 0)
        BY <1>0, <2>2, <3>2
      <4> QED
        BY <1>0, <2>2, <3>2, <4>1
    <3> QED
      BY <3>1, <3>2
  <2>3. CASE i > c + 1 /\ i < c + p
    <3>1. i - 1 \in (c + 1)..(c + p - 1) /\ i # 1
      BY <1>0, <2>3
    <3> QED
      BY <1>0, <2>3, <3>1
  <2>4. CASE i > c + 1 /\ i >= c + p
    <3>1. i \in (c + p)..e
      BY <1>0, <2>4
    <3> QED
      BY <1>0, <2>4, <3>1
  <2> QED
    BY <1>0, <2>1, <2>2, <2>3, <2>4
<1>2. 1..c \subseteq 1..e /\ (p # 1 => c + 1 \in 1..e)
  BY <1>0
<1>3. WordBegins(t, e, newline) = {i \in 1..e : B(i)}
  BY DEF WordBegins
<1>4. WordBegins(t, c, newline) = {i \in 1..c : B(i)}
  BY DEF WordBegins
<1> HIDE DEF B
<1>5. CASE p = 1
  BY <1>1, <1>2, <1>3, <1>4, <1>5, Zenon DEF NextBegins
<1>6. CASE p # 1
  BY <1>1, <1>2, <1>3, <1>4, <1>6, Zenon DEF NextBegins
<1> QED
  BY <1>5, <1>6 DEF NextBegins

(* Without an empty line, the lines that are not empty are the same. *)
LEMMA EmptyAppended ==
  ASSUME NEW received \in Seq(Seq(Byte))
  PROVE  LET got == Append(received, <<>>) IN
           /\ NotEmpty(got) = NotEmpty(received)
           /\ \A j \in NotEmpty(received) : got[j] = received[j]
<1> DEFINE got == Append(received, <<>>)
           n == Len(received)
<1>1. /\ n \in Nat /\ Len(got) = n + 1 /\ got[n + 1] = <<>>
      /\ \A j \in 1..n : got[j] = received[j]
  <2>1. <<>> \in Seq(Byte)
    OBVIOUS
  <2> QED
    BY <2>1, AppendProperties
<1> HIDE DEF got, n
<1>2. 1..Len(got) = 1..n \cup {n + 1}
  BY <1>1
<1>3. NotEmpty(got) = {j \in 1..n : received[j] # <<>>}
  BY <1>1, <1>2 DEF NotEmpty
<1>4. NotEmpty(received) = {j \in 1..n : received[j] # <<>>}
  BY DEF NotEmpty, n
<1>5. \A j \in NotEmpty(received) : got[j] = received[j]
  BY <1>1, <1>4
<1> QED
  BY <1>3, <1>4, <1>5 DEF got

OneMore(got, received, line) ==
  LET n == Len(received) IN
    /\ n \in Nat /\ n + 1 \notin NotEmpty(received) /\ got[n + 1] = line
    /\ NotEmpty(got) = NotEmpty(received) \cup {n + 1}
    /\ \A j \in NotEmpty(received) : j \in 1..n /\ got[j] = received[j]

LEMMA LineAppended ==
  ASSUME NEW received \in Seq(Seq(Byte)), NEW line \in Seq(Byte), line # <<>>,
         NEW got, got = Append(received, line)
  PROVE  OneMore(got, received, line)
<1> DEFINE n == Len(received)
<1>1. /\ n \in Nat /\ Len(got) = n + 1 /\ got[n + 1] = line
      /\ \A j \in 1..n : got[j] = received[j]
  BY AppendProperties
<1> HIDE DEF n
<1>2. 1..Len(got) = 1..n \cup {n + 1} /\ n + 1 \notin 1..n
  BY <1>1
<1>3. NotEmpty(received) = {j \in 1..n : received[j] # <<>>}
  BY DEF NotEmpty, n
<1>4. NotEmpty(got) = NotEmpty(received) \cup {n + 1}
  BY <1>1, <1>2, <1>3 DEF NotEmpty
<1>5. \A j \in NotEmpty(received) : j \in 1..n /\ got[j] = received[j]
  BY <1>1, <1>3
<1> QED
  BY <1>1, <1>2, <1>3, <1>4, <1>5 DEF n, OneMore

(* The lines with one more, which may be left out if it is empty. *)
With(got, received, line) == got = Append(received, line) \/ (got = received /\ line = <<>>)

LineIs(line, t, c, p) == line = SubSeq(t, c + 1, c + p - 1)

(* One line is split off.  An empty one may be left out. *)
LEMMA SplitOne ==
  ASSUME NEW received \in Seq(Seq(Byte)), NEW got, NEW line \in Seq(Byte), NEW t \in Seq(Byte),
         NEW newline, NEW c \in Nat, NEW p \in Nat \ {0}, NEW e \in Nat,
         e <= Len(t), SplitOff(received, t, c, newline), LineAndNewlines(t, c, p, e, newline),
         LineIs(line, t, c, p), With(got, received, line)
  PROVE  SplitOff(got, t, e, newline)
<1>0. /\ c + p <= e
      /\ \A i \in (c + 1)..(c + p - 1) : t[i] \notin newline
      /\ \A i \in (c + p)..e : t[i] \in newline
  BY DEF LineAndNewlines
<1>1. PICK at \in [NotEmpty(received) -> 1..c] : Matches(at, received, t, c, newline)
  BY Zenon DEF SplitOff
<1>2. /\ WordBegins(t, c, newline) = {at[j] : j \in NotEmpty(received)}
      /\ \A j, k \in NotEmpty(received) : j < k => at[j] < at[k]
      /\ \A j \in NotEmpty(received) : at[j] \in 1..c
      /\ \A j \in NotEmpty(received) : WordAt(t, c, newline, at[j], received[j])
  BY <1>1, Zenon DEF Matches
<1>3. /\ p = 1 => WordBegins(t, e, newline) = WordBegins(t, c, newline)
      /\ p # 1 => WordBegins(t, e, newline) = WordBegins(t, c, newline) \cup {c + 1}
  <2>1. c > 0 => t[c] \in newline
    BY Zenon DEF SplitOff
  <2>2. NextBegins(t, c, p, e, newline)
    BY <2>1, BeginsOfNext
  <2> QED
    BY <2>2, Zenon DEF NextBegins
<1>4. e > 0 => t[e] \in newline
  <2>1. e \in (c + p)..e
    BY <1>0
  <2> QED
    BY <1>0, <2>1
<1>5. \A j \in NotEmpty(received) : WordAt(t, e, newline, at[j], received[j])
  <2>1. c <= e /\ \A j \in NotEmpty(received) : received[j] \in Seq(Byte)
    BY <1>0 DEF NotEmpty
  <2> QED
    BY <1>2, <2>1, WordStays
<1>6. /\ Len(line) = p - 1
      /\ \A k \in 1..(p - 1) : line[k] = t[c + k]
  <2>1. Len(t) \in Nat /\ c + 1 \in Nat \ {0} /\ c + p - 1 \in Nat /\ c + p - 1 <= Len(t)
        /\ c + 1 <= (c + p - 1) + 1 /\ (c + p - 1) - (c + 1) + 1 = p - 1
    BY <1>0
  <2>2. /\ Len(SubSeq(t, c + 1, c + p - 1)) = (c + p - 1) - (c + 1) + 1
        /\ \A k \in 1..((c + p - 1) - (c + 1) + 1) :
             SubSeq(t, c + 1, c + p - 1)[k] = t[(c + 1) + k - 1]
    BY <2>1, PartOf
  <2>3. \A k \in 1..(p - 1) : (c + 1) + k - 1 = c + k
    OBVIOUS
  <2> QED
    BY <2>1, <2>2, <2>3 DEF LineIs
<1>7. CASE p = 1
  <2>1. line = <<>>
    BY <1>6, <1>7, EmptySeq
  <2>2. /\ NotEmpty(got) = NotEmpty(received)
        /\ \A j \in NotEmpty(received) : got[j] = received[j]
    BY <2>1, EmptyAppended DEF With
  <2>3. WordBegins(t, e, newline) = WordBegins(t, c, newline)
    BY <1>3, <1>7
  <2>4. Matches(at, got, t, e, newline)
    BY <1>2, <1>5, <2>2, <2>3, Zenon DEF Matches
  <2>5. at \in [NotEmpty(got) -> 1..e]
    <3>1. 1..c \subseteq 1..e
      BY <1>0
    <3> QED
      BY <2>2, <3>1
  <2> QED
    BY <1>4, <2>4, <2>5, Zenon DEF SplitOff
<1>8. CASE p # 1
  <2> DEFINE n == Len(received)
             bt == [j \in NotEmpty(received) \cup {n + 1} |-> IF j = n + 1 THEN c + 1 ELSE at[j]]
  <2>1. line # <<>> /\ got = Append(received, line)
    <3>1. Len(line) # Len(<<>>)
      BY <1>6, <1>8, EmptySeq
    <3> QED
      BY <3>1, Zenon DEF With
  <2>2. /\ n \in Nat /\ n + 1 \notin NotEmpty(received) /\ got[n + 1] = line
        /\ NotEmpty(got) = NotEmpty(received) \cup {n + 1}
        /\ \A j \in NotEmpty(received) : j \in 1..n /\ got[j] = received[j]
    <3>1. OneMore(got, received, line)
      BY <2>1, LineAppended
    <3> QED
      BY <3>1, Zenon DEF OneMore
  <2> HIDE DEF n
  <2>3. /\ bt[n + 1] = c + 1
        /\ \A j \in NotEmpty(received) : bt[j] = at[j] /\ bt[j] \in 1..c
    BY <1>2, <2>2, Zenon
  <2>4. bt \in [NotEmpty(got) -> 1..e]
    <3>1. 1..c \subseteq 1..e /\ c + 1 \in 1..e
      BY <1>0, <1>8
    <3> QED
      BY <2>2, <1>2, <3>1, Zenon
  <2> HIDE DEF bt
  <2>5. WordBegins(t, e, newline) = {bt[j] : j \in NotEmpty(got)}
    <3>1. WordBegins(t, e, newline) = {at[j] : j \in NotEmpty(received)} \cup {c + 1}
      BY <1>2, <1>3, <1>8, Zenon
    <3>2. {bt[j] : j \in NotEmpty(got)} = {at[j] : j \in NotEmpty(received)} \cup {c + 1}
      <4>1. \A x : x \in {bt[j] : j \in NotEmpty(got)}
                     <=> x = c + 1 \/ \E j \in NotEmpty(received) : x = at[j]
        BY <2>2, <2>3, Zenon
      <4> QED
        BY <4>1, Zenon
    <3> QED
      BY <3>1, <3>2
  <2>6. \A j, k \in NotEmpty(got) : j < k => bt[j] < bt[k]
    <3>1. \A j \in NotEmpty(received) : j \in Nat /\ j < n + 1 /\ bt[j] < c + 1 /\ bt[j] \in Nat
      BY <2>2, <2>3
    <3>2. ~(n + 1 < n + 1) /\ \A j \in NotEmpty(received) : ~(n + 1 < j)
      BY <2>2, <3>1
    <3>3. \A j, k \in NotEmpty(received) : j < k => bt[j] < bt[k]
      BY <1>2, <2>3, Zenon
    <3> QED
      BY <2>2, <2>3, <3>1, <3>2, <3>3, Zenon
  <2>7. WordAt(t, e, newline, c + 1, line)
    <3>1. c + 1 + Len(line) = c + p /\ c + 1 + Len(line) - 1 = c + p - 1 /\ c + p \in (c + p)..e
      BY <1>0, <1>6
    <3>2. \A k \in 1..Len(line) : line[k] \notin newline
      <4>1. \A k \in 1..(p - 1) : c + k \in (c + 1)..(c + p - 1)
        OBVIOUS
      <4> QED
        BY <1>0, <1>6, <4>1
    <3>3. c + 1 + Len(line) <= e /\ t[c + 1 + Len(line)] \in newline
      BY <1>0, <3>1
    <3>4. line = SubSeq(t, c + 1, c + 1 + Len(line) - 1)
      BY <3>1 DEF LineIs
    <3> QED
      BY <3>2, <3>3, <3>4, Zenon DEF WordAt
  <2>8. \A j \in NotEmpty(got) : WordAt(t, e, newline, bt[j], got[j])
    BY <1>5, <2>2, <2>3, <2>7, Zenon
  <2>9. Matches(bt, got, t, e, newline)
    BY <2>5, <2>6, <2>8, Zenon DEF Matches
  <2> QED
    BY <1>4, <2>4, <2>9, Zenon DEF SplitOff
<1> QED
  BY <1>7, <1>8

(* The end of a text. *)
LEMMA TailOf ==
  ASSUME NEW t \in Seq(Byte), NEW c \in Nat, c <= Len(t)
  PROVE  /\ SubSeq(t, c + 1, Len(t)) \in Seq(Byte)
         /\ Len(SubSeq(t, c + 1, Len(t))) = Len(t) - c
         /\ \A i \in 1..(Len(t) - c) : SubSeq(t, c + 1, Len(t))[i] = t[c + i]
<1> DEFINE l == Len(t)
           b == SubSeq(t, c + 1, l)
<1>1. l \in Nat /\ c <= l
  OBVIOUS
<1>2. /\ b \in Seq(Byte) /\ Len(b) = l - (c + 1) + 1
      /\ \A i \in 1..(l - (c + 1) + 1) : b[i] = t[(c + 1) + i - 1]
  <2>1. c + 1 \in Nat \ {0} /\ c + 1 <= l + 1
    BY <1>1
  <2> QED
    BY <1>1, <2>1, PartOf
<1> HIDE DEF l, b
<1>3. l - (c + 1) + 1 = l - c /\ \A i \in 1..(l - c) : (c + 1) + i - 1 = c + i
  BY <1>1
<1>4. b \in Seq(Byte) /\ Len(b) = l - c /\ \A i \in 1..(l - c) : b[i] = t[c + i]
  BY <1>2, <1>3
<1> QED
  BY <1>4 DEF l, b

(* A part of the end of a text is a part of the text. *)
LEMMA PartOfTail ==
  ASSUME NEW t \in Seq(Byte), NEW c \in Nat, c <= Len(t), NEW b, b = SubSeq(t, c + 1, Len(t)),
         NEW m \in Nat \ {0}, NEW n \in Nat, c + n <= Len(t), m <= n + 1
  PROVE  /\ SubSeq(b, m, n) = SubSeq(t, c + m, c + n)
         /\ \A i \in 1..(Len(t) - c) : b[i] = t[c + i]
<1> DEFINE l == Len(t)
           u == SubSeq(b, m, n)
           v == SubSeq(t, c + m, c + n)
<1>2. /\ b \in Seq(Byte) /\ Len(b) = Len(t) - c
      /\ \A i \in 1..(Len(t) - c) : b[i] = t[c + i]
  BY TailOf, Zenon
<1>3. /\ l \in Nat /\ Len(b) = l - c /\ c + n <= l /\ \A i \in 1..(l - c) : b[i] = t[c + i]
  <2>1. l \in Nat /\ c + n <= l
    OBVIOUS
  <2> QED
    BY <1>2, <2>1, Zenon
<1> HIDE DEF l
<1>4. /\ u \in Seq(Byte) /\ Len(u) = n - m + 1
      /\ \A i \in 1..(n - m + 1) : u[i] = b[m + i - 1]
  <2>1. n <= Len(b)
    BY <1>3
  <2> QED
    BY <1>2, <2>1, PartOf
<1>5. /\ v \in Seq(Byte) /\ Len(v) = (c + n) - (c + m) + 1
      /\ \A i \in 1..((c + n) - (c + m) + 1) : v[i] = t[(c + m) + i - 1]
  <2>1. c + m \in Nat \ {0} /\ c + n \in Nat /\ c + n <= Len(t) /\ c + m <= (c + n) + 1
    OBVIOUS
  <2> QED
    BY <2>1, PartOf
<1> HIDE DEF u, v
<1>6. (c + n) - (c + m) + 1 = n - m + 1
  OBVIOUS
<1>7. \A i \in 1..(n - m + 1) : u[i] = v[i]
  <2>1. \A i \in 1..(n - m + 1) : m + i - 1 \in 1..(l - c) /\ c + (m + i - 1) = (c + m) + i - 1
    BY <1>3
  <2> QED
    BY <1>3, <1>4, <1>5, <1>6, <2>1
<1>8. u = v
  BY <1>4, <1>5, <1>6, <1>7, SeqEqual
<1> QED
  BY <1>3, <1>8 DEF u, v, l

(* With a newline of one byte, or in automatic mode, one byte tells. *)
LEMMA NewlineIsByte ==
  ASSUME NEW t \in Seq(Byte), NEW nl \in Seq(Byte), Len(nl) <= 1, NEW p \in 1..Len(t)
  PROVE  NewlineAt(t, nl, p) <=> t[p] \in NewlineBytes(nl)
<1>1. CASE nl = <<>>
  BY <1>1 DEF NewlineAt, NewlineBytes
<1>2. CASE nl # <<>>
  <2>1. Len(nl) = 1 /\ NewlineBytes(nl) = {nl[1]}
    <3>1. Len(nl) \in Nat \ {0}
      <4>1. \A s \in Seq(Byte) : s # <<>> => Len(s) \in Nat \ {0}
        BY EmptySeq
      <4> HIDE <1>2
      <4> QED
        BY <1>2, <4>1
    <3>2. NewlineBytes(nl) = {nl[1]}
      BY <1>2, Zenon DEF NewlineBytes
    <3> DEFINE k == Len(nl)
    <3>3. k \in Nat /\ k # 0 /\ k <= 1
      BY <3>1, Zenon
    <3> HIDE DEF k
    <3>4. k = 1
      BY <3>3
    <3> QED
      BY <3>2, <3>4, Zenon DEF k
  <2>2. Len(t) \in Nat /\ p \in Nat \ {0} /\ p <= Len(t) /\ p + 1 - 1 = p /\ p - p + 1 = 1 /\ p <= p + 1
    OBVIOUS
  <2> DEFINE u == SubSeq(t, p, p)
  <2>3. u \in Seq(Byte) /\ Len(u) = 1 /\ u[1] = t[p]
    <3>1. /\ u \in Seq(Byte) /\ Len(u) = p - p + 1
          /\ \A i \in 1..(p - p + 1) : u[i] = t[p + i - 1]
      BY <2>2, PartOf
    <3> HIDE DEF u
    <3> QED
      BY <2>2, <3>1
  <2>4. NewlineAt(t, nl, p) <=> u = nl
    <3>1. p + Len(nl) - 1 = p
      BY <2>1, <2>2
    <3> QED
      BY <1>2, <2>2, <3>1, Zenon DEF NewlineAt
  <2> HIDE DEF u
  <2>5. u = nl <=> t[p] = nl[1]
    BY <2>1, <2>3, SeqEqual
  <2> QED
    BY <2>1, <2>4, <2>5
<1> QED
  BY <1>1, <1>2

(* What the splitting loop finds in the buffer. *)
LEMMA Found ==
  ASSUME NEW buf \in Seq(Byte), NEW nl \in Seq(Byte), Len(nl) <= 1, NEW p \in 1..Len(buf),
         FirstNewline(buf, nl, p)
  PROVE  LET n == NextStart(buf, nl, p) IN
           /\ n \in Nat /\ p < n /\ n <= Len(buf) + 1
           /\ \A i \in 1..(p - 1) : buf[i] \notin NewlineBytes(nl)
           /\ \A i \in p..(n - 1) : buf[i] \in NewlineBytes(nl)
<1> DEFINE n == NextStart(buf, nl, p)
<1>1. /\ Len(buf) \in Nat /\ buf[p] \in NewlineBytes(nl)
      /\ \A i \in 1..(p - 1) : buf[i] \notin NewlineBytes(nl)
  <2>1. Len(buf) \in Nat /\ \A i \in 1..(p - 1) : i \in 1..Len(buf)
    OBVIOUS
  <2> QED
    BY <2>1, NewlineIsByte DEF FirstNewline
<1>2. CASE n = p + 1
  <2>1. \A i \in p..(n - 1) : i = p
    BY <1>2
  <2> HIDE DEF n
  <2>2. n \in Nat /\ p < n /\ n <= Len(buf) + 1
    BY <1>1, <1>2
  <2> QED
    BY <1>1, <2>1, <2>2 DEF n
<1>3. CASE n # p + 1
  <2>1. n = p + 2 /\ nl = <<>> /\ p < Len(buf) /\ buf[p + 1] = "LF"
    BY <1>3 DEF NextStart
  <2> HIDE DEF n
  <2>2. buf[p + 1] \in NewlineBytes(nl)
    BY <2>1 DEF NewlineBytes
  <2>3. \A i \in p..(n - 1) : i = p \/ i = p + 1
    BY <2>1
  <2>4. n \in Nat /\ p < n /\ n <= Len(buf) + 1
    BY <1>1, <2>1
  <2> QED
    BY <1>1, <2>2, <2>3, <2>4 DEF n
<1> QED
  BY <1>2, <1>3

(* One iteration of the splitting loop. *)
LEMMA LineTaken ==
  ASSUME NEW received \in Seq(Seq(Byte)), NEW got, NEW t \in Seq(Byte), NEW buf \in Seq(Byte),
         NEW nl \in Seq(Byte), Len(nl) <= 1, NEW p \in 1..Len(buf), FirstNewline(buf, nl, p),
         Complete(received, t, buf, NewlineBytes(nl)),
         With(got, received, SubSeq(buf, 1, p - 1))
  PROVE  Complete(got, t, SubSeq(buf, NextStart(buf, nl, p), Len(buf)), NewlineBytes(nl))
<1> DEFINE n == NextStart(buf, nl, p)
           newline == NewlineBytes(nl)
           line == SubSeq(buf, 1, p - 1)
           rest == SubSeq(buf, n, Len(buf))
<1>1. /\ n \in Nat /\ p < n /\ n <= Len(buf) + 1
      /\ \A i \in 1..(p - 1) : buf[i] \notin newline
      /\ \A i \in p..(n - 1) : buf[i] \in newline
  BY Found, Zenon
<1> HIDE DEF n, newline
<1>2. PICK c \in Nat : /\ c <= Len(t) /\ Len(buf) = Len(t) - c /\ c = Len(t) - Len(buf)
                       /\ buf = SubSeq(t, c + 1, Len(t))
                       /\ SplitOff(received, t, c, newline)
  BY CompleteMeans DEF newline
<1> DEFINE e == c + n - 1
           l == Len(buf)
<1>3. /\ l \in Nat /\ Len(t) \in Nat /\ Len(t) = c + l /\ Len(t) - c = l /\ c <= Len(t) /\ p <= l
      /\ p \in Nat \ {0} /\ n <= l + 1
  <2>1. c <= Len(t) /\ l = Len(t) - c /\ Len(t) \in Nat /\ l \in Nat /\ n <= l + 1
    BY <1>1, <1>2
  <2> QED
    BY <2>1
<1>4. e \in Nat /\ c + p <= e /\ e <= Len(t) /\ e + 1 = c + n
  BY <1>1, <1>3
<1>5. buf = SubSeq(t, c + 1, Len(t)) /\ SplitOff(received, t, c, newline)
  BY <1>2, Zenon
<1> HIDE DEF e
<1>6. \A i \in 1..l : buf[i] = t[c + i]
  <2>1. c + l <= Len(t) /\ 1 <= l + 1 /\ 1 \in Nat \ {0}
    BY <1>3
  <2>2. \A i \in 1..(Len(t) - c) : buf[i] = t[c + i]
    BY <1>3, <1>5, <2>1, PartOfTail
  <2> QED
    BY <1>3, <2>2
<1>7. LineIs(line, t, c, p) /\ line \in Seq(Byte)
  <2>1. /\ c + (p - 1) <= Len(t) /\ 1 <= (p - 1) + 1 /\ 1 \in Nat \ {0} /\ p - 1 \in Nat
        /\ c + (p - 1) = c + p - 1 /\ p - 1 <= Len(buf)
    BY <1>3
  <2>2. SubSeq(buf, 1, p - 1) = SubSeq(t, c + 1, c + (p - 1))
    BY <1>3, <1>5, <2>1, PartOfTail
  <2>3. line \in Seq(Byte)
    BY <2>1, PartOf
  <2> QED
    BY <2>1, <2>2, <2>3, Zenon DEF LineIs
<1>8. rest = SubSeq(t, e + 1, Len(t)) /\ e = Len(t) - Len(rest)
  <2>1. c + l <= Len(t) /\ n <= l + 1 /\ n \in Nat \ {0} /\ c + l = Len(t) /\ l <= Len(buf)
    BY <1>1, <1>3
  <2>2. SubSeq(buf, n, l) = SubSeq(t, c + n, c + l)
    BY <1>3, <1>5, <2>1, PartOfTail
  <2>3. Len(SubSeq(buf, n, l)) = l - n + 1
    <3>1. l \in Nat
      BY <1>3
    <3> HIDE DEF l, line, rest
    <3> QED
      BY <2>1, <3>1, PartOf
  <2>4. e = Len(t) - (l - n + 1)
    BY <1>1, <1>3 DEF e
  <2>5. rest = SubSeq(t, e + 1, Len(t))
    BY <1>4, <2>1, <2>2, Zenon
  <2>6. Len(rest) = l - n + 1
    BY <2>3, Zenon
  <2> QED
    BY <2>4, <2>5, <2>6, Zenon
<1> HIDE DEF l
<1>9. LineAndNewlines(t, c, p, e, newline)
  <2>1. ASSUME NEW i \in (c + 1)..(c + p - 1) PROVE t[i] \notin newline
    <3>1. i - c \in 1..(p - 1) /\ i - c \in 1..l /\ c + (i - c) = i
      BY <1>3
    <3> QED
      BY <1>1, <1>6, <3>1
  <2>2. ASSUME NEW i \in (c + p)..e PROVE t[i] \in newline
    <3>1. i - c \in p..(n - 1) /\ i - c \in 1..l /\ c + (i - c) = i
      BY <1>1, <1>3 DEF e
    <3> QED
      BY <1>1, <1>6, <3>1
  <2> QED
    BY <1>4, <2>1, <2>2 DEF LineAndNewlines
<1> HIDE DEF line, rest
<1>10. SplitOff(got, t, e, newline)
  <2>1. With(got, received, line)
    BY DEF line
  <2> QED
    BY <1>3, <1>4, <1>5, <1>7, <1>9, <2>1, SplitOne
<1>11. Complete(got, t, rest, newline)
  BY <1>4, <1>8, <1>10, CompleteAt
<1> QED
  BY <1>11 DEF rest, newline, n

(* A step that does nothing to the lines of any object but o. *)
LEMMA OneObject ==
  ASSUME LinesComplete, NEW o \in Objs,
         \A p \in Objs : p # o => /\ rx_buffer'[p] = rx_buffer[p] /\ rx_newline'[p] = rx_newline[p]
                                  /\ fed'[p] = fed[p] /\ ReceivedBy(p)' = ReceivedBy(p),
         Len(rx_newline'[o]) <= 1 =>
           Complete(ReceivedBy(o)', fed'[o], rx_buffer'[o], NewlineBytes(rx_newline'[o]))
  PROVE  LinesComplete'
<1>1. ASSUME NEW p \in Objs, Len(rx_newline'[p]) <= 1
      PROVE  Complete(ReceivedBy(p)', fed'[p], rx_buffer'[p], NewlineBytes(rx_newline'[p]))
  <2>1. CASE p = o
    BY <1>1, <2>1
  <2>2. CASE p # o
    BY <1>1, <2>2, Zenon DEF LinesComplete
  <2> QED
    BY <2>1, <2>2
<1> QED
  BY <1>1, Zenon DEF LinesComplete

(* A step that does nothing to any lines. *)
LEMMA SameLines ==
  ASSUME LinesComplete, UNCHANGED <<rx_buffer, rx_newline, fed>>,
         \A o \in Objs : ReceivedBy(o)' = ReceivedBy(o)
  PROVE  LinesComplete'
BY Zenon DEF LinesComplete

(* The accounting of one object starts again. *)
LEMMA Restarted ==
  ASSUME LinesComplete, NEW o \in Objs, NEW t \in Seq(Byte),
         \A p \in Objs : p # o => /\ rx_buffer'[p] = rx_buffer[p] /\ rx_newline'[p] = rx_newline[p]
                                  /\ fed'[p] = fed[p] /\ ReceivedBy(p)' = ReceivedBy(p),
         ReceivedBy(o)' = <<>>, fed'[o] = t, rx_buffer'[o] = t
  PROVE  LinesComplete'
<1>1. Complete(<<>>, t, t, NewlineBytes(rx_newline'[o]))
  BY NothingSplit
<1>2. Complete(ReceivedBy(o)', fed'[o], rx_buffer'[o], NewlineBytes(rx_newline'[o]))
  BY <1>1, Zenon
<1> QED
  BY <1>2, OneObject

(* Only readln() has lines. *)
LEMMA NoneReceived ==
  ASSUME call.op \notin {"readln", "split"}
  PROVE  \A o : ReceivedBy(o) = <<>>
BY DEF ReceivedBy

LEMMA NoneReceivedNext ==
  ASSUME call'.op \notin {"readln", "split"}
  PROVE  \A o : ReceivedBy(o)' = <<>>
BY DEF ReceivedBy

(* Between two calls, or while writing. *)
LEMMA OutsideReadln ==
  ASSUME LinesComplete, UNCHANGED <<rx_buffer, rx_newline, fed>>,
         call.op \notin {"readln", "split"}, call'.op \notin {"readln", "split"}
  PROVE  LinesComplete'
BY NoneReceived, NoneReceivedNext, SameLines, Zenon

LEMMA LinesBetweenCalls ==
  ASSUME SPInv, LinesComplete, NEW o \in Objs,
         \/ Open(o) \/ Purge(o) \/ Close(o) \/ Finalize(o)
         \/ \E nl \in Newlines : SetRxNewline(o, nl)
  PROVE  LinesComplete'
<1>1. /\ call.op = "idle" /\ call' = call /\ LineTypes
  BY TypeParts DEF SPInv, Open, Purge, Close, Finalize, SetRxNewline, idle
<1>2. /\ \A p \in Objs : ReceivedBy(p)' = ReceivedBy(p)
      /\ ReceivedBy(o)' = <<>>
      /\ call.op \notin {"readln", "split"} /\ call'.op \notin {"readln", "split"}
  <2>1. call.op \notin {"readln", "split"} /\ call'.op \notin {"readln", "split"}
    BY <1>1
  <2> QED
    BY <2>1, NoneReceived, NoneReceivedNext, Zenon
<1>3. CASE Open(o)
  BY <1>2, <1>3, OutsideReadln DEF Open
<1>4. CASE Purge(o) \/ Close(o) \/ Finalize(o)
  <2>1. /\ \A p \in Objs : p # o => /\ rx_buffer'[p] = rx_buffer[p] /\ fed'[p] = fed[p]
                                    /\ rx_newline'[p] = rx_newline[p]
        /\ fed'[o] = <<>> /\ rx_buffer'[o] = <<>>
    BY <1>1, <1>4 DEF LineTypes, Purge, Close, Finalize, TtyCloseClears, Restart
  <2> QED
    BY <1>2, <2>1, Constants, Restarted
<1>5. CASE \E nl \in Newlines : SetRxNewline(o, nl)
  <2>1. /\ \A p \in Objs : p # o => /\ rx_buffer'[p] = rx_buffer[p] /\ fed'[p] = fed[p]
                                    /\ rx_newline'[p] = rx_newline[p]
        /\ fed'[o] = rx_buffer[o] /\ rx_buffer'[o] = rx_buffer[o] /\ rx_buffer[o] \in Seq(Byte)
    BY <1>1, <1>5 DEF LineTypes, SetRxNewline, Restart
  <2> QED
    BY <1>2, <2>1, Restarted
<1> QED
  BY <1>3, <1>4, <1>5

LEMMA LinesElsewhere ==
  ASSUME SPInv, LinesComplete,
         \/ \E o \in Objs : Read(o) \/ \E n \in 1..MaxTx : Write(o, n)
         \/ \E k \in 1..MaxTx : TxData(k)
         \/ TxInterrupted \/ TxDone \/ TxError
         \/ Exit \/ \E f \in Fds : OtherOpens(f) \/ OtherCloses(f)
  PROVE  LinesComplete'
<1>1. UNCHANGED <<rx_buffer, rx_newline, fed>>
  BY DEF Read, Begin, Write, TxData, TxInterrupted, TxDone, TxError, Exit, OtherOpens, OtherCloses,
         objVars, osVars, histVars
<1>2. call.op \notin {"readln", "split"}
  BY DEF Read, Begin, Write, TxData, TxInterrupted, TxDone, TxError, Exit, OtherOpens, OtherCloses,
         idle
<1>3. call'.op \notin {"readln", "split"}
  <2>1. CASE TxInterrupted \/ \E k \in 1..MaxTx : TxData(k)
    <3>1. call \in WriteCalls
      BY <2>1, TypeParts, CallKinds DEF SPInv, TxData, TxInterrupted
    <3> QED
      BY <2>1, <3>1 DEF TxData, TxInterrupted, WriteCalls
  <2>2. CASE \E o \in Objs : Read(o) \/ \E n \in 1..MaxTx : Write(o, n)
    BY <2>2 DEF Read, Begin, Write
  <2>3. CASE TxDone \/ TxError \/ Exit \/ \E f \in Fds : OtherOpens(f) \/ OtherCloses(f)
    BY <1>2, <2>3 DEF TxDone, TxError, Exit, OtherOpens, OtherCloses, Idle, Over
  <2> QED
    BY <2>1, <2>2, <2>3
<1> QED
  BY <1>1, <1>2, <1>3, OutsideReadln

(* Where a step of readln() leaves all objects but its own alone. *)
LEMMA OthersSame ==
  ASSUME call \in ReadCalls, call' = Idle \/ (call' \in ReadCalls /\ call'.o = call.o),
         NEW p, p # call.o
  PROVE  ReceivedBy(p)' = ReceivedBy(p)
<1>1. ReceivedBy(p) = <<>>
  BY DEF ReceivedBy
<1>2. ReceivedBy(p)' = <<>>
  BY IdleCall DEF ReceivedBy
<1> QED
  BY <1>1, <1>2

LEMMA LinesReading ==
  ASSUME SPInv, LinesComplete,
         Arrive \/ RxData \/ \E o \in Objs, skip \in BOOLEAN : Readln(o, skip)
  PROVE  LinesComplete'
<1>1. UNCHANGED <<rx_buffer, rx_newline, fed>>
  BY DEF Arrive, RxData, Readln, Begin, objVars, osVars, histVars
<1>2. CASE Arrive
  <2>1. \A o \in Objs : ReceivedBy(o)' = ReceivedBy(o)
    BY <1>2 DEF Arrive, ReceivedBy
  <2> QED
    BY <1>1, <2>1, SameLines
<1>3. CASE RxData
  <2>1. call \in ReadCalls
    BY <1>3, TypeParts, CallKinds DEF SPInv, RxData, Reading
  <2>2. call'.op = call.op /\ call'.o = call.o /\ call'.received = call.received
    BY <1>3, <2>1 DEF RxData, ReadCalls
  <2>3. \A o \in Objs : ReceivedBy(o)' = ReceivedBy(o)
    BY <2>2, Zenon DEF ReceivedBy
  <2> QED
    BY <1>1, <2>3, SameLines
<1>4. CASE \E o \in Objs, skip \in BOOLEAN : Readln(o, skip)
  <2>1. call.op = "idle" /\ call'.received = <<>>
    BY <1>4 DEF Readln, Begin, idle
  <2>2. \A o \in Objs : ReceivedBy(o) = <<>> /\ ReceivedBy(o)' = <<>>
    BY <2>1 DEF ReceivedBy
  <2>3. \A o \in Objs : ReceivedBy(o)' = ReceivedBy(o)
    BY <2>2
  <2> QED
    BY <1>1, <2>3, SameLines
<1> QED
  BY <1>2, <1>3, <1>4

LEMMA LinesRxEnd ==
  ASSUME SPInv, LinesComplete, RxEnd
  PROVE  LinesComplete'
<1>0. PICK o \in Objs : o = call.o
  BY TypeParts, CallKinds DEF SPInv, RxEnd, Reading, ReadCalls
<1>1. /\ LineTypes /\ call \in ReadCalls /\ o \in Objs /\ call.rx \in Seq(Byte)
      /\ call.received \in Seq(Seq(Byte)) /\ call.op \in {"read", "readln"}
      /\ fed[o] \in Seq(Byte) /\ rx_buffer[o] \in Seq(Byte)
  BY <1>0, TypeParts, CallKinds DEF SPInv, RxEnd, Reading, ReadCalls, LineTypes
<1>2. rx_newline' = rx_newline
  BY DEF RxEnd
<1>3. CASE call.op = "read"
  BY <1>2, <1>3, OutsideReadln, IdleCall DEF RxEnd
<1>4. CASE call.op = "readln"
  <2>1. /\ call' = [call EXCEPT !.op = "split", !.rx = <<>>]
        /\ rx_buffer' = [rx_buffer EXCEPT ![o] = rx_buffer[o] \o call.rx]
        /\ fed' = [fed EXCEPT ![o] = fed[o] \o call.rx]
    BY <1>0, <1>4 DEF RxEnd, RxAppended
  <2>2. call' \in ReadCalls /\ call'.o = o /\ call'.op = "split" /\ call'.received = call.received
    BY <1>0, <1>1, <2>1, Constants DEF ReadCalls
  <2>3. ReceivedBy(o) = call.received /\ ReceivedBy(o)' = call.received
    BY <1>0, <1>4, <2>2 DEF ReceivedBy
  <2>4. /\ fed'[o] = fed[o] \o call.rx /\ rx_buffer'[o] = rx_buffer[o] \o call.rx
        /\ \A p \in Objs : p # o => fed'[p] = fed[p] /\ rx_buffer'[p] = rx_buffer[p]
    BY <1>1, <2>1 DEF LineTypes
  <2>5. \A p \in Objs : p # o => ReceivedBy(p)' = ReceivedBy(p)
    BY <1>0, <1>1, <2>2, OthersSame
  <2>6. ASSUME Len(rx_newline'[o]) <= 1
        PROVE  Complete(ReceivedBy(o)', fed'[o], rx_buffer'[o], NewlineBytes(rx_newline'[o]))
    <3>1. Complete(call.received, fed[o], rx_buffer[o], NewlineBytes(rx_newline[o]))
      BY <1>1, <1>2, <2>3, <2>6, Zenon DEF LinesComplete
    <3>2. Complete(call.received, fed[o] \o call.rx, rx_buffer[o] \o call.rx,
                   NewlineBytes(rx_newline[o]))
      BY <1>1, <3>1, MoreBytes
    <3> QED
      BY <1>2, <2>3, <2>4, <3>2, Zenon
  <2> QED
    <3>1. \A p \in Objs : p # o => /\ rx_buffer'[p] = rx_buffer[p]
                                    /\ rx_newline'[p] = rx_newline[p]
                                    /\ fed'[p] = fed[p] /\ ReceivedBy(p)' = ReceivedBy(p)
      BY <1>2, <2>4, <2>5
    <3>2. o \in Objs
      BY <1>1
    <3> QED
      BY <2>6, <3>1, <3>2, OneObject
<1> QED
  BY <1>1, <1>3, <1>4

(* readln() returns its lines, or fails: both begin anew with the buffer. *)
LEMMA LinesEnd ==
  ASSUME SPInv, LinesComplete, RxError \/ SplitEnd
  PROVE  LinesComplete'
<1>0. PICK o \in Objs : o = call.o
  BY TypeParts, CallKinds DEF SPInv, RxError, SplitEnd, Reading, ReadCalls
<1>1. /\ LineTypes /\ call \in ReadCalls /\ rx_buffer[o] \in Seq(Byte)
      /\ UNCHANGED <<rx_buffer, rx_newline>>
  BY TypeParts, CallKinds DEF SPInv, RxError, SplitEnd, Reading, LineTypes, objVars
<1>2. CASE call' = Idle /\ Restart(call.o, rx_buffer[call.o])
  <2>1. /\ fed'[o] = rx_buffer[o] /\ rx_buffer'[o] = rx_buffer[o]
        /\ \A p \in Objs : p # o => fed'[p] = fed[p]
    BY <1>0, <1>1, <1>2 DEF Restart, LineTypes
  <2>2. ReceivedBy(o)' = <<>>
    BY <1>2, IdleCall, NoneReceivedNext
  <2>3. \A p \in Objs : p # o => ReceivedBy(p)' = ReceivedBy(p)
    BY <1>0, <1>1, <1>2, OthersSame
  <2>4. \A p \in Objs : p # o => /\ rx_buffer'[p] = rx_buffer[p] /\ rx_newline'[p] = rx_newline[p]
                                 /\ fed'[p] = fed[p] /\ ReceivedBy(p)' = ReceivedBy(p)
    BY <1>1, <2>1, <2>3
  <2> QED
    BY <1>1, <2>1, <2>2, <2>4, Restarted
<1>3. CASE call.op = "split" /\ call' = [call EXCEPT !.op = "readln"] /\ UNCHANGED fed
  <2>1. call'.op = "readln" /\ call'.o = call.o /\ call'.received = call.received
    BY <1>1, <1>3 DEF ReadCalls
  <2>2. \A p \in Objs : ReceivedBy(p)' = ReceivedBy(p)
    BY <1>3, <2>1 DEF ReceivedBy
  <2> QED
    BY <1>1, <1>3, <2>2, SameLines
<1> QED
  BY <1>2, <1>3 DEF RxError, SplitEnd

LEMMA LinesSplit ==
  ASSUME SPInv, LinesComplete, SplitLine
  PROVE  LinesComplete'
<1>0. PICK o \in Objs : o = call.o
  BY TypeParts, CallKinds DEF SPInv, SplitLine, ReadCalls
<1> DEFINE t == rx_buffer[o]
           nl == rx_newline[o]
<1>1. /\ LineTypes /\ call \in ReadCalls /\ call.op = "split" /\ call.received \in Seq(Seq(Byte))
      /\ t \in Seq(Byte) /\ fed[o] \in Seq(Byte) /\ nl \in Seq(Byte)
      /\ UNCHANGED <<rx_newline, fed>>
  <2>1. /\ LineTypes /\ call \in ReadCalls /\ call.op = "split"
        /\ UNCHANGED <<rx_newline, fed>>
    BY TypeParts, CallKinds DEF SPInv, SplitLine, histVars
  <2> QED
    BY <2>1, Constants DEF LineTypes, ReadCalls
<1>2. PICK p \in 1..Len(t) :
        /\ FirstNewline(t, nl, p)
        /\ call' = [call EXCEPT !.received =
                      IF SubSeq(t, 1, p - 1) # <<>> \/ ~call.ignore
                      THEN Append(@, SubSeq(t, 1, p - 1)) ELSE @]
        /\ rx_buffer' = [rx_buffer EXCEPT ![o] = SubSeq(t, NextStart(t, nl, p), Len(t))]
  BY <1>0 DEF SplitLine
<1> DEFINE line == SubSeq(t, 1, p - 1)
<1>3. /\ call'.op = "split" /\ call'.o = o
      /\ call'.received = IF line # <<>> \/ ~call.ignore THEN Append(call.received, line)
                                                         ELSE call.received
  BY <1>0, <1>1, <1>2 DEF ReadCalls
<1>4. ReceivedBy(o) = call.received /\ ReceivedBy(o)' = call'.received
  BY <1>0, <1>1, <1>3 DEF ReceivedBy
<1>5. With(call'.received, call.received, line)
  <2> HIDE DEF line
  <2> QED
    BY <1>3, Zenon DEF With
<1>6. \A q \in Objs : q # o => ReceivedBy(q) = <<>> /\ ReceivedBy(q)' = <<>>
  BY <1>0, <1>3 DEF ReceivedBy
<1>7. rx_buffer'[o] = SubSeq(t, NextStart(t, nl, p), Len(t))
  BY <1>1, <1>2 DEF LineTypes
<1>8. \A q \in Objs : q # o => /\ rx_buffer'[q] = rx_buffer[q] /\ rx_newline'[q] = rx_newline[q]
                               /\ fed'[q] = fed[q] /\ ReceivedBy(q)' = ReceivedBy(q)
  <2>1. \A q \in Objs : q # o => rx_buffer'[q] = rx_buffer[q]
    BY <1>1, <1>2 DEF LineTypes
  <2> QED
    BY <1>1, <1>6, <2>1, Zenon
<1>9. ASSUME Len(rx_newline'[o]) <= 1
      PROVE  Complete(ReceivedBy(o)', fed'[o], rx_buffer'[o], NewlineBytes(rx_newline'[o]))
  <2>1. Len(nl) <= 1 /\ Complete(call.received, fed[o], t, NewlineBytes(nl))
    BY <1>1, <1>4, <1>9, Zenon DEF LinesComplete
  <2> HIDE DEF t, nl
  <2> DEFINE got == call'.received
  <2>2. With(got, call.received, SubSeq(t, 1, p - 1)) /\ FirstNewline(t, nl, p)
    BY <1>2, <1>5, Zenon
  <2>3. call.received \in Seq(Seq(Byte)) /\ t \in Seq(Byte) /\ fed[o] \in Seq(Byte) /\ nl \in Seq(Byte)
    BY <1>1
  <2> HIDE DEF got
  <2>4. Complete(got, fed[o], SubSeq(t, NextStart(t, nl, p), Len(t)), NewlineBytes(nl))
    BY <2>1, <2>2, <2>3, LineTaken
  <2>5. rx_newline'[o] = nl /\ fed'[o] = fed[o]
    BY <1>1 DEF nl
  <2> QED
    BY <1>4, <1>7, <2>4, <2>5, Zenon DEF got
<1> QED
  BY <1>8, <1>9, OneObject

LEMMA LinesInductive == SPInv /\ LinesComplete /\ [Next]_vars => LinesComplete'
<1> SUFFICES ASSUME SPInv, LinesComplete, [Next]_vars
             PROVE  LinesComplete'
  OBVIOUS
<1>1. CASE UNCHANGED vars
  <2>1. UNCHANGED <<rx_buffer, rx_newline, fed>> /\ UNCHANGED call
    BY <1>1 DEF vars, objVars, histVars
  <2>2. \A o \in Objs : ReceivedBy(o)' = ReceivedBy(o)
    BY <2>1 DEF ReceivedBy
  <2> QED
    BY <2>1, <2>2, SameLines
<1>2. ASSUME NEW o \in Objs, Open(o) \/ Purge(o) \/ Close(o) \/ Finalize(o)
      PROVE  LinesComplete'
  BY <1>2, LinesBetweenCalls
<1>3. ASSUME NEW o \in Users,
             \/ Read(o)
             \/ \E nl \in Newlines : SetRxNewline(o, nl)
             \/ \E skip \in BOOLEAN : Readln(o, skip)
             \/ \E n \in 1..MaxTx : Write(o, n)
      PROVE  LinesComplete'
  <2>1. o \in Objs
    BY Constants
  <2> QED
    BY <1>3, <2>1, LinesBetweenCalls, LinesElsewhere, LinesReading
<1>4. CASE RxData \/ RxEnd \/ RxError \/ SplitLine \/ SplitEnd
  BY <1>4, LinesReading, LinesRxEnd, LinesEnd, LinesSplit
<1>5. CASE \/ \E k \in 1..MaxTx : TxData(k)
           \/ TxInterrupted \/ TxDone \/ TxError
           \/ Exit \/ \E f \in Fds : OtherOpens(f) \/ OtherCloses(f)
  BY <1>5, LinesElsewhere
<1>6. CASE Arrive
  BY <1>6, LinesReading
<1> QED
  BY <1>1, <1>2, <1>3, <1>4, <1>5, <1>6 DEF Next

LEMMA LinesInitial == Init => LinesComplete
<1> SUFFICES ASSUME Init, NEW o \in Objs
             PROVE  Complete(ReceivedBy(o), fed[o], rx_buffer[o], NewlineBytes(rx_newline[o]))
  BY Zenon DEF LinesComplete
<1>1. ReceivedBy(o) = <<>> /\ fed[o] = <<>> /\ rx_buffer[o] = <<>>
  BY DEF Init, ReceivedBy, Idle
<1>2. Complete(<<>>, <<>>, <<>>, NewlineBytes(rx_newline[o]))
  BY Constants, NothingSplit
<1> QED
  BY <1>1, <1>2, Zenon

(* The lines of readln() are what was received, none lost, joined, split   *)
(* or repeated, however the bytes are cut into reads, for the automatic    *)
(* mode and every newline of one byte; empty lines are left aside.         *)
THEOREM ReadlnCompletes == Spec => []LinesComplete
<1>1. Init => SPInv /\ LinesComplete
  BY Initial, LinesInitial
<1>2. SPInv /\ LinesComplete /\ [Next]_vars => SPInv' /\ LinesComplete'
  BY Inductive, LinesInductive
<1> QED
  BY <1>1, <1>2, PTL DEF Spec
-----------------------------------------------------------------------------
(* Every variable keeps its type through all methods of sys.serialport. *)
THEOREM SerialTypeCorrect == Spec => []TypeOK
BY Invariance, PTL DEF SPInv

(* The number in an object is that of a port the object opened itself, so  *)
(* that no method reads, writes or closes a descriptor of somebody else,   *)
(* unless an open() went on with a descriptor it had closed.               *)
THEOREM DescriptorIsOwn == Spec => []OwnsDescriptor
BY Invariance, PTL DEF SPInv

(* A port that is open is on the list of what is closed at exit, unless    *)
(* purge(), or an open() that threw for an invalid baudrate, gave it       *)
(* another number than it had.                                             *)
THEOREM OpenPortsTracked == Spec => []Tracked
BY Invariance, PTL DEF SPInv

(* flock() keeps two objects from having the device open at the same time, *)
(* by open() or by purge(), unless one of them got it by a short name.     *)
THEOREM DeviceExclusive == Spec => []Exclusive
BY Invariance, PTL DEF SPInv

(* The two loops of write() together send the text from its beginning,     *)
(* without gap or repetition.                                              *)
THEOREM WriteSendsText == Spec => []WriteAccounted
BY Invariance, PTL DEF SPInv
=============================================================================
