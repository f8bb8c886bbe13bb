-------------------------- MODULE FileObjectProofs --------------------------
(***************************************************************************)
(* Proofs about FileObject, for any number of objects and descriptors and  *)
(* any texts: IndInv is an invariant, and what follows from it.            *)
(***************************************************************************)
EXTENDS FileObject, SequenceTheorems, TLAPS

(* A part of a text is a text. *)
LEMMA PartOfText ==
  ASSUME NEW s \in Text, NEW m \in Nat \ {0}, NEW n \in Int, n <= Len(s)
  PROVE  /\ SubSeq(s, m, n) \in Text
         /\ Len(SubSeq(s, m, n)) = IF m <= n THEN n - m + 1 ELSE 0
         /\ \A i \in 1..(n - m + 1) : SubSeq(s, m, n)[i] = s[m + i - 1]
<1>1. \A i \in m..n : s[i] \in Byte
  BY ElementOfSeq DEF Text
<1> QED
  BY <1>1, SubSeqProperties DEF Text

(* A text is cut into a head and a tail without loss. *)
LEMMA CutText ==
  ASSUME NEW s \in Text, NEW n \in 0..Len(s)
  PROVE  s = SubSeq(s, 1, n) \o SubSeq(s, n + 1, Len(s))
<1>1. Len(s) \in Nat
  BY DEF Text
<1>2. /\ s \in Seq(Byte) /\ 1 \in 1..Len(s)+1 /\ n \in 1-1..Len(s)
      /\ Len(s) \in n..Len(s)
  BY <1>1 DEF Text
<1>3. SubSeq(s, 1, n) \o SubSeq(s, n + 1, Len(s)) = SubSeq(s, 1, Len(s))
  BY <1>2, ConcatAdjacentSubSeq
<1> QED
  BY <1>3, SubSeqFull DEF Text

(* The head of a concatenation. *)
LEMMA HeadOfConcat ==
  ASSUME NEW u \in Text, NEW l \in Text
  PROVE  SubSeq(u \o l, 1, Len(u \o l) - Len(l)) = u
<1>1. Len(u) \in Nat /\ Len(l) \in Nat /\ Len(u \o l) = Len(u) + Len(l)
  BY ConcatProperties DEF Text
<1>2. CASE Len(u) = 0
  BY <1>1, <1>2, SubSeqEmpty, EmptySeq DEF Text
<1>3. CASE Len(u) > 0
  BY <1>1, <1>3, SubSeqOfConcat1, SubSeqFull DEF Text
<1> QED
  BY <1>1, <1>2, <1>3

LEMMA ConcatText ==
  ASSUME NEW s \in Text, NEW t \in Text
  PROVE  s \o t \in Text /\ Len(s \o t) = Len(s) + Len(t)
BY ConcatProperties DEF Text

LEMMA ConcatAssoc ==
  ASSUME NEW r \in Text, NEW s \in Text, NEW t \in Text
  PROVE  (r \o s) \o t = r \o (s \o t)
BY ConcatAssociative DEF Text

LEMMA Constants ==
  /\ NoCall \in CallRec /\ NoRet \in RetRec /\ Closed \in DescRec
  /\ NoCall.op = "none" /\ NoRet.kind = "none" /\ Closed.acc = {}
  /\ <<>> \in Text /\ -1 \notin Fds
BY FileAssumption DEF NoCall, NoRet, Closed, CallRec, RetRec, DescRec, Ops, LockType, Text

(* Writing a position or a lock leaves access and O_APPEND alone. *)
LEMMA DescUpdate ==
  ASSUME TypeOK, NEW x \in Fds,
         \/ \E v \in Nat : desc' = [desc EXCEPT ![x].pos = v]
         \/ \E l \in LockType : desc' = [desc EXCEPT ![x].lock = l]
  PROVE  /\ desc' \in [Fds -> DescRec]
         /\ \A d \in Fds : desc'[d].acc = desc[d].acc /\ desc'[d].append = desc[d].append
<1>1. CASE \E v \in Nat : desc' = [desc EXCEPT ![x].pos = v]
  BY <1>1 DEF TypeOK, DescRec
<1>2. CASE \E l \in LockType : desc' = [desc EXCEPT ![x].lock = l]
  BY <1>2 DEF TypeOK, DescRec
<1> QED
  BY <1>1, <1>2

(* A step that leaves the objects, the access and O_APPEND alone. *)
SameFiles ==
  /\ UNCHANGED <<live, fd, options>>
  /\ \A d \in Fds : desc'[d].acc = desc[d].acc /\ desc'[d].append = desc[d].append

LEMMA OpenFd ==
  ASSUME TypeOK, NEW o \in Objs, Isopen(o)
  PROVE  fd[o] \in Fds
BY DEF TypeOK, Isopen

LEMMA SameFilesKeeps ==
  ASSUME TypeOK, DescriptorsOwned, FlagsOfOptions, SameFiles
  PROVE  DescriptorsOwned' /\ FlagsOfOptions'
<1>1. \A o \in Objs : (Isopen(o)' <=> Isopen(o)) /\ (Isopen(o) => fd[o] \in Fds)
  BY OpenFd DEF SameFiles, Isopen
<1>2. DescriptorsOwned'
  BY <1>1 DEF SameFiles, DescriptorsOwned
<1>3. FlagsOfOptions'
  BY <1>1 DEF SameFiles, FlagsOfOptions, AppendFlag
<1> QED
  BY <1>2, <1>3

(* Closing the descriptor of o and forgetting its number. *)
LEMMA CloseKeeps ==
  ASSUME TypeOK, DescriptorsOwned, FlagsOfOptions, NEW o \in live,
         fd' = [fd EXCEPT ![o] = -1],
         desc' = DescClosed(o),
         options' = options \/ options' = [options EXCEPT ![o] = {}],
         live' = live \/ live' = live \ {o}
  PROVE  /\ desc' \in [Fds -> DescRec]
         /\ DescriptorsOwned' /\ FlagsOfOptions'
<1>0. o \in Objs /\ -1 \notin Fds
  BY Constants DEF TypeOK
<1>1. desc' \in [Fds -> DescRec]
  BY Constants DEF TypeOK, DescClosed
<1>2. \A d \in Fds : desc'[d] = IF d = fd[o] THEN Closed ELSE desc[d]
  BY DEF DescClosed
<1>3. /\ \A p \in Objs : fd'[p] = IF p = o THEN -1 ELSE fd[p]
      /\ \A p \in Objs \ {o} : options'[p] = options[p]
  BY <1>0 DEF TypeOK
<1>4. \A p \in Objs : Isopen(p)' => p # o /\ Isopen(p) /\ fd[p] \in Fds /\ fd[p] # fd[o]
  BY <1>0, <1>3, OpenFd DEF Isopen, DescriptorsOwned
<1>5. DescriptorsOwned'
  <2>1. \A p \in Objs : Isopen(p)' => p \in live' /\ desc'[fd'[p]].acc # {}
    BY <1>2, <1>3, <1>4 DEF DescriptorsOwned
  <2>2. \A p, q \in Objs : Isopen(p)' /\ fd'[p] = fd'[q] => p = q
    BY <1>0, <1>3, <1>4 DEF DescriptorsOwned
  <2>3. \A d \in Fds : desc'[d].acc # {} => \E p \in live' : fd'[p] = d
    BY <1>0, <1>2, <1>3, Constants DEF DescriptorsOwned, TypeOK
  <2> QED
    BY <2>1, <2>2, <2>3 DEF DescriptorsOwned
<1>6. FlagsOfOptions'
  BY <1>2, <1>3, <1>4 DEF FlagsOfOptions, AppendFlag
<1> QED
  BY <1>1, <1>5, <1>6

(* The options are letters, and ::open() gets an access mode. *)
LEMMA OpenOptions ==
  ASSUME NEW m
  PROVE  /\ Sanitized(m) \in SUBSET Letters
         /\ LET flags == OpenFlags(Sanitized(m))
            IN  /\ flags.acc \in SUBSET {"r", "w"} /\ flags.acc # {}
                /\ flags.append = AppendFlag(Sanitized(m)) /\ flags.append \in BOOLEAN
                /\ "w" \in flags.acc <=> "w" \in Sanitized(m)
                /\ flags.trunc = ("w" \in Sanitized(m) /\ "p" \notin Sanitized(m))
<1>1. Sanitized(m) \in SUBSET Letters
  BY DEF Sanitized, PlusOptions, Letters
<1> QED
  BY <1>1 DEF OpenFlags, AppendFlag

(* The new descriptor was free after o gave up its own. *)
LEMMA OpenKeeps ==
  ASSUME TypeOK, DescriptorsOwned, FlagsOfOptions, NEW o \in Objs, NEW m \in Modes,
         Open(o, m)
  PROVE  TypeOK' /\ DescriptorsOwned' /\ FlagsOfOptions'
<1> DEFINE opts  == Sanitized(m)
           flags == OpenFlags(opts)
           ds    == DescClosed(o)
           new   == [acc |-> flags.acc, append |-> flags.append, pos |-> 0, lock |-> "none"]
<1>1. PICK d \in Free(ds) : fd' = [fd EXCEPT ![o] = d] /\ desc' = [ds EXCEPT ![d] = new]
  BY DEF Open
<1>2. /\ o \in live /\ live' = live /\ options' = [options EXCEPT ![o] = opts]
      /\ feof' = [feof EXCEPT ![o] = FALSE] /\ exists' = TRUE
      /\ data' = (IF flags.trunc THEN <<>> ELSE data)
      /\ call' = call /\ other' = other /\ ret' = NoRet
  BY DEF Open, NoResult
<1>3. d \in Fds /\ ds[d].acc = {} /\ d # -1 /\ d >= 0
  <2> HIDE DEF ds
  <2>1. d \in Fds /\ ds[d].acc = {}
    BY DEF Free
  <2>2. d \in Nat
    BY <2>1, FileAssumption
  <2> QED
    BY <2>1, <2>2
<1>4. /\ opts \in SUBSET Letters /\ flags.acc \in SUBSET {"r", "w"} /\ flags.acc # {}
      /\ flags.append = AppendFlag(opts) /\ flags.append \in BOOLEAN
      /\ "w" \in flags.acc <=> "w" \in opts
  BY OpenOptions
<1> HIDE DEF opts, flags
<1>5. ds \in [Fds -> DescRec] /\ \A x \in Fds : ds[x] = IF x = fd[o] THEN Closed ELSE desc[x]
  BY Constants DEF TypeOK, DescClosed
<1>6. new \in DescRec /\ new.acc = flags.acc /\ new.append = flags.append
  BY <1>4 DEF DescRec, LockType
<1> HIDE DEF new, ds
<1>7. \A x \in Fds : desc'[x] = IF x = d THEN new ELSE ds[x]
  BY <1>1, <1>5
<1>8. /\ \A p \in Objs : fd'[p] = IF p = o THEN d ELSE fd[p]
      /\ \A p \in Objs : options'[p] = IF p = o THEN opts ELSE options[p]
  BY <1>1, <1>2 DEF TypeOK
<1>9. TypeOK'
  <2>1. desc' \in [Fds -> DescRec]
    BY <1>1, <1>3, <1>5, <1>6
  <2>2. fd' \in [Objs -> Fds \cup {-1}] /\ options' \in [Objs -> SUBSET Letters]
    BY <1>1, <1>2, <1>3, <1>4 DEF TypeOK
  <2> QED
    BY <1>2, <2>1, <2>2, Constants DEF TypeOK
<1>10. \A p \in Objs : p # o /\ Isopen(p) =>
         fd[p] \in Fds /\ fd[p] # fd[o] /\ fd[p] # d /\ desc'[fd[p]] = desc[fd[p]]
  BY <1>3, <1>5, <1>7, OpenFd DEF DescriptorsOwned
<1>11. \A p \in Objs : Isopen(p)' => p = o \/ (p # o /\ Isopen(p))
  BY <1>8 DEF Isopen
<1>12. DescriptorsOwned'
  <2>1. \A p \in Objs : Isopen(p)' => p \in live' /\ desc'[fd'[p]].acc # {}
    BY <1>2, <1>3, <1>4, <1>6, <1>7, <1>8, <1>10, <1>11 DEF DescriptorsOwned
  <2>2. \A p, q \in Objs : Isopen(p)' /\ fd'[p] = fd'[q] => p = q
    <3>1. \A p \in Objs : p # o => fd[p] # d
      BY <1>3, <1>5, <1>10, OpenFd DEF Isopen
    <3> QED
      BY <1>8, <1>11, <3>1 DEF DescriptorsOwned
  <2>3. \A x \in Fds : desc'[x].acc # {} => \E p \in live' : fd'[p] = x
    BY <1>2, <1>3, <1>5, <1>7, <1>8, Constants DEF DescriptorsOwned, TypeOK
  <2> QED
    BY <2>1, <2>2, <2>3 DEF DescriptorsOwned
<1>13. FlagsOfOptions'
  <2>1. SUFFICES ASSUME NEW p \in Objs, Isopen(p)'
                 PROVE  /\ "w" \in desc'[fd'[p]].acc <=> "w" \in options'[p]
                        /\ desc'[fd'[p]].append <=> AppendFlag(options'[p])
    BY DEF FlagsOfOptions, AppendFlag
  <2>2. CASE p = o
    BY <2>2, <1>3, <1>4, <1>6, <1>7, <1>8
  <2>3. CASE p # o
    BY <2>1, <2>3, <1>8, <1>10, <1>11 DEF FlagsOfOptions
  <2> QED
    BY <2>2, <2>3
<1> QED
  BY <1>9, <1>12, <1>13

-----------------------------------------------------------------------------
(* What the system calls move is text *)

LEMMA ChunkText ==
  ASSUME TypeOK, CallOpen, ~Idle
  PROVE  Chunk \in Text /\ Len(Chunk) \in Nat /\ fd[call.obj] \in Fds
<1>1. call.obj \in Objs /\ call.n \in Nat /\ data \in Text
  BY DEF TypeOK, CallRec
<1>2. fd[call.obj] \in Fds
  BY <1>1, OpenFd DEF CallOpen
<1>3. desc[fd[call.obj]].pos \in Nat
  BY <1>2 DEF TypeOK, DescRec
<1>4. Unread(call.obj) \in Text
  BY <1>1, <1>3, PartOfText DEF Unread, Text
<1>5. Len(Unread(call.obj)) \in Nat
  BY <1>4 DEF Text
<1>6. Chunk \in Text
  BY <1>1, <1>4, <1>5, PartOfText DEF Chunk
<1> QED
  BY <1>2, <1>6 DEF Text

LEMMA LineEndText == <<"CR", "LF">> \in Text /\ <<"LF">> \in Text /\ "NUL" \in Byte
<1>1. "CR" \in Byte /\ "LF" \in Byte /\ "NUL" \in Byte
  BY DEF Byte
<1> QED
  BY <1>1 DEF Text

(* readln() removes one line end. *)
LEMMA LineOfText ==
  ASSUME NEW out \in Text, NEW nl \in Text, LineEnds(out, nl)
  PROVE  /\ Line(out, nl) \in Text
         /\ \E end \in LineEnd(nl) : out = Line(out, nl) \o end
<1> DEFINE ending == IF nl # <<>> THEN nl
                     ELSE IF EndsWith(out, <<"CR", "LF">>) THEN <<"CR", "LF">> ELSE <<"LF">>
<1>1. ending \in Text /\ ending \in LineEnd(nl)
  <2>1. <<"CR", "LF">> \in Text /\ <<"LF">> \in Text
    BY LineEndText
  <2> QED
    BY <2>1, Zenon DEF LineEnd
<1>2. EndsWith(out, ending)
  BY DEF LineEnds, Newline
<1>3. Line(out, nl) = SubSeq(out, 1, Len(out) - Len(ending))
  BY DEF Line
<1> HIDE DEF ending
<1>4. Len(out) \in Nat /\ Len(ending) \in Nat /\ Len(ending) <= Len(out)
  BY <1>1, <1>2 DEF EndsWith, Text
<1>5. out = Line(out, nl) \o SubSeq(out, Len(out) - Len(ending) + 1, Len(out))
  <2>1. Len(out) - Len(ending) \in 0..Len(out)
    BY <1>4
  <2> QED
    BY <1>3, <2>1, CutText
<1>6. out = Line(out, nl) \o ending
  BY <1>2, <1>5 DEF EndsWith
<1>7. Line(out, nl) \in Text
  BY <1>3, <1>4, PartOfText
<1> QED
  BY <1>1, <1>6, <1>7

LEMMA SameInterval ==
  ASSUME NEW a \in Nat, NEW b \in Nat, 1..a = 1..b
  PROVE  a = b
<1>1. a > 0 => a \in 1..b
  OBVIOUS
<1>2. b > 0 => b \in 1..a
  OBVIOUS
<1> QED
  BY <1>1, <1>2

(* The file after a ::write(). *)
LEMMA WrittenText ==
  ASSUME TypeOK, NEW p \in Nat, NEW s \in Text
  PROVE  /\ Written(p, s) \in Text
         /\ Len(Written(p, s)) >= Len(data)
         /\ \A i \in 1..Len(data) : i <= p => Written(p, s)[i] = data[i]
<1> DEFINE k == IF p + Len(s) > Len(data) THEN p + Len(s) ELSE Len(data)
<1>1. Len(data) \in Nat /\ Len(s) \in Nat /\ data \in Text
  BY DEF TypeOK, Text
<1>2. k \in Nat /\ k >= Len(data)
  BY <1>1
<1>3. \A i \in 1..Len(data) : data[i] \in Byte
  BY <1>1, ElementOfSeq DEF Text
<1>4. \A i \in 1..Len(s) : s[i] \in Byte
  BY <1>1, ElementOfSeq DEF Text
<1>5. Written(p, s) \in [1..k -> Byte]
  <2>1. \A i \in 1..k : i \in (p + 1)..(p + Len(s)) => s[i - p] \in Byte
    BY <1>1, <1>2, <1>4
  <2>2. \A i \in 1..k : i <= Len(data) => data[i] \in Byte
    BY <1>1, <1>2, <1>3
  <2> QED
    BY <2>1, <2>2, LineEndText DEF Written
<1>6. Written(p, s) \in Text /\ Len(Written(p, s)) = k
  <2>1. Written(p, s) \in Seq(Byte)
    BY <1>2, <1>5, SeqDef
  <2>2. DOMAIN Written(p, s) = 1..Len(Written(p, s)) /\ Len(Written(p, s)) \in Nat
    BY <2>1, LenProperties
  <2>3. 1..Len(Written(p, s)) = 1..k
    BY <2>2, <1>5
  <2> QED
    BY <1>2, <2>1, <2>2, <2>3, SameInterval DEF Text
<1>7. \A i \in 1..Len(data) : i <= p => Written(p, s)[i] = data[i]
  BY <1>1 DEF Written
<1> QED
  BY <1>2, <1>6, <1>7

-----------------------------------------------------------------------------
(* Every action keeps IndInv *)

(* Between two calls, and without a result, the rest of IndInv is empty. *)
LEMMA QuietKeeps ==
  ASSUME call'.op = "none", ret' = NoRet
  PROVE  CallOpen' /\ CallAccounted' /\ NothingSwallowed' /\ WriteAccounted'
<1>1. ret'.kind = "none"
  BY DEF NoRet
<1> QED
  BY <1>1 DEF CallOpen, CallAccounted, NothingSwallowed, WriteAccounted, Idle, Reading, Writing

LEMMA ConstructKeeps ==
  ASSUME IndInv, NEW o \in Objs, Construct(o)
  PROVE  IndInv'
<1>1. /\ TypeOK /\ DescriptorsOwned /\ FlagsOfOptions /\ o \notin live
      /\ live' = live \cup {o} /\ fd' = [fd EXCEPT ![o] = -1]
      /\ options' = [options EXCEPT ![o] = {}] /\ feof' = [feof EXCEPT ![o] = TRUE]
      /\ UNCHANGED <<call, desc, exists, data, other>> /\ ret' = NoRet
      /\ call.op = "none"
  BY DEF IndInv, Construct, NoResult, osVars, Idle
<1>2. ~Isopen(o) /\ fd[o] = -1
  <2>1. ~Isopen(o)
    BY <1>1 DEF DescriptorsOwned
  <2>2. fd[o] \in Fds \cup {-1} /\ \A d \in Fds : d >= 0
    BY <1>1, FileAssumption DEF TypeOK
  <2> QED
    BY <2>1, <2>2 DEF Isopen
<1>3. fd' = fd
  BY <1>1, <1>2 DEF TypeOK
<1>4. TypeOK'
  BY <1>1, <1>3, Constants DEF TypeOK
<1>5. \A p \in Objs : Isopen(p)' <=> Isopen(p)
  BY <1>3 DEF Isopen
<1>6. DescriptorsOwned'
  <2>1. \A p \in Objs : Isopen(p)' => p \in live' /\ desc'[fd'[p]].acc # {}
    BY <1>1, <1>3, <1>5 DEF DescriptorsOwned
  <2>2. \A p, q \in Objs : Isopen(p)' /\ fd'[p] = fd'[q] => p = q
    BY <1>1, <1>3, <1>5 DEF DescriptorsOwned
  <2>3. \A d \in Fds : desc'[d].acc # {} => \E p \in live' : fd'[p] = d
    BY <1>1, <1>3 DEF DescriptorsOwned
  <2> QED
    BY <2>1, <2>2, <2>3 DEF DescriptorsOwned
<1>7. FlagsOfOptions'
  <2>1. \A p \in Objs : Isopen(p) => p # o /\ options'[p] = options[p]
    BY <1>1, <1>2 DEF TypeOK
  <2> QED
    BY <1>1, <1>3, <1>5, <2>1 DEF FlagsOfOptions, AppendFlag
<1> QED
  BY <1>1, <1>4, <1>6, <1>7, QuietKeeps DEF IndInv

LEMMA OpenStep ==
  ASSUME IndInv, NEW o \in Objs, NEW m \in Modes, Open(o, m)
  PROVE  IndInv'
<1>1. call'.op = "none" /\ ret' = NoRet
  BY DEF Open, Idle, NoResult
<1> QED
  BY <1>1, OpenKeeps, QuietKeeps DEF IndInv

(* close(), the finalizer, and open() when it throws. *)
LEMMA CloseStep ==
  ASSUME IndInv, NEW o \in Objs, OpenThrows(o) \/ Close(o) \/ Finalize(o)
  PROVE  IndInv'
<1>1. /\ TypeOK /\ DescriptorsOwned /\ FlagsOfOptions /\ o \in live
      /\ live' = live \/ live' = live \ {o}
      /\ fd' = [fd EXCEPT ![o] = -1]
      /\ options' = options \/ options' = [options EXCEPT ![o] = {}]
      /\ feof' = [feof EXCEPT ![o] = TRUE]
      /\ desc' = DescClosed(o)
      /\ UNCHANGED <<call, exists, data, other>> /\ ret' = NoRet
      /\ call.op = "none"
  BY DEF IndInv, OpenThrows, ThrownFd, Close, Finalize, NoResult, Idle
<1>2. desc' \in [Fds -> DescRec] /\ DescriptorsOwned' /\ FlagsOfOptions'
  BY <1>1, CloseKeeps
<1>3. TypeOK'
  BY <1>1, <1>2, Constants DEF TypeOK
<1> QED
  BY <1>1, <1>2, <1>3, QuietKeeps DEF IndInv

(* A step that only moves a position, changes a lock, or the file. *)
LEMMA FilesStep ==
  ASSUME IndInv, SameFiles, UNCHANGED <<feof, call>>, ret' = NoRet,
         desc' \in [Fds -> DescRec], exists' \in BOOLEAN, data' \in Text,
         other' \in LockType
  PROVE  IndInv'
<1>1. TypeOK'
  BY Constants DEF IndInv, TypeOK, SameFiles
<1>2. DescriptorsOwned' /\ FlagsOfOptions'
  BY SameFilesKeeps DEF IndInv
<1>3. CallOpen' /\ CallAccounted'
  <2>1. call.obj \in Objs /\ (Isopen(call.obj) => fd[call.obj] \in Fds)
    BY OpenFd DEF IndInv, TypeOK, CallRec
  <2> QED
    BY <2>1 DEF IndInv, CallOpen, CallAccounted, SameFiles, Idle, Isopen, Reading, Writing
<1>4. NothingSwallowed' /\ WriteAccounted'
  BY DEF NoRet, NothingSwallowed, WriteAccounted
<1> QED
  BY <1>1, <1>2, <1>3, <1>4 DEF IndInv

LEMMA SeekStep ==
  ASSUME IndInv, NEW o \in Objs, NEW n \in 0..MaxSize,
         NEW w \in {"begin", "current", "end"}, Seek(o, n, w)
  PROVE  IndInv'
<1>1. /\ TypeOK /\ Isopen(o) /\ UNCHANGED <<live, fd, options, feof, call, exists, data, other>>
      /\ ret' = NoRet /\ desc' = [desc EXCEPT ![fd[o]].pos = SeekTarget(o, n, w)]
  BY DEF IndInv, Seek, NoResult, objVars
<1>2. fd[o] \in Fds
  BY <1>1, OpenFd
<1>3. SeekTarget(o, n, w) \in Nat
  <2>1. n \in Nat /\ desc[fd[o]].pos \in Nat /\ Len(data) \in Nat
    BY <1>1, <1>2, FileAssumption DEF TypeOK, DescRec, Text
  <2> QED
    BY <2>1 DEF SeekTarget
<1>4. /\ desc' \in [Fds -> DescRec]
      /\ \A d \in Fds : desc'[d].acc = desc[d].acc /\ desc'[d].append = desc[d].append
  BY <1>1, <1>2, <1>3, DescUpdate
<1> QED
  BY <1>1, <1>4, FilesStep DEF SameFiles, TypeOK

LEMMA UnlockStep ==
  ASSUME IndInv, NEW o \in Objs, Unlock(o)
  PROVE  IndInv'
<1>1. /\ TypeOK /\ Isopen(o) /\ UNCHANGED <<live, fd, options, feof, call, exists, data, other>>
      /\ ret' = NoRet /\ desc' = [desc EXCEPT ![fd[o]].lock = "none"]
  BY DEF IndInv, Unlock, NoResult, objVars
<1>2. fd[o] \in Fds /\ "none" \in LockType
  BY <1>1, OpenFd DEF LockType
<1>3. /\ desc' \in [Fds -> DescRec]
      /\ \A d \in Fds : desc'[d].acc = desc[d].acc /\ desc'[d].append = desc[d].append
  BY <1>1, <1>2, DescUpdate
<1> QED
  BY <1>1, <1>3, FilesStep DEF SameFiles, TypeOK

LEMMA OtherStep ==
  ASSUME IndInv, OtherProcess
  PROVE  IndInv'
<1>1. /\ TypeOK /\ UNCHANGED <<live, fd, options, feof, call, desc>> /\ ret' = NoRet
      /\ exists' \in BOOLEAN /\ other' \in LockType
      /\ data' = data \/ \E b \in Bytes : data' = Append(data, b)
  BY DEF IndInv, OtherProcess, OtherAppends, OtherLocks, OtherUnlocks, NoResult, objVars,
         TypeOK, LockType
<1>2. data' \in Text
  BY <1>1, AppendProperties DEF TypeOK, Text, Byte
<1> QED
  BY <1>1, <1>2, FilesStep DEF SameFiles, TypeOK

(* A call begins: read and write calls with nothing moved yet. *)
LEMMA BeginStep ==
  ASSUME IndInv, NEW o \in Objs, NEW access, NEW c \in CallRec, Begin(o, access, c),
         c.obj = o, c.used = <<>>,
         \/ c.op \in {"read", "readall", "readln"} /\ c.text = <<>>
         \/ c.op \in {"write", "writeln"} /\ c.text = c.left /\ access = {"w"}
  PROVE  IndInv'
<1>1. /\ TypeOK /\ UNCHANGED <<live, fd, options, feof, exists, data, other, desc>>
      /\ ret' = NoRet /\ call' = c /\ o \in live /\ Isopen(o) /\ access \subseteq desc[fd[o]].acc
  BY DEF IndInv, Begin, NoResult, objVars, osVars
<1>2. TypeOK'
  BY <1>1, Constants DEF TypeOK
<1>3. DescriptorsOwned' /\ FlagsOfOptions'
  BY <1>1, SameFilesKeeps DEF IndInv, SameFiles
<1>4. CallOpen'
  BY <1>1 DEF CallOpen, Isopen, Writing, Idle
<1>5. <<>> \o c.left = c.left
  BY ConcatEmptySeq DEF CallRec, Text
<1>6. CallAccounted'
  BY <1>1, <1>5 DEF CallAccounted, Reading, Writing
<1>7. NothingSwallowed' /\ WriteAccounted'
  BY <1>1 DEF NoRet, NothingSwallowed, WriteAccounted
<1> QED
  BY <1>2, <1>3, <1>4, <1>6, <1>7 DEF IndInv

(* The methods that begin a read or a write. *)
LEMMA MethodBegins ==
  ASSUME IndInv, NEW o \in Objs,
         \/ \E n \in Sizes : Read(o, n)
         \/ ReadAll(o)
         \/ \E nl \in Newlines : ReadLn(o, nl)
         \/ \E s \in Texts : Write(o, s)
         \/ \E s \in Texts, nl \in Newlines : WriteLn(o, s, nl)
  PROVE  IndInv'
<1>0. /\ \A n \in Sizes : n \in Nat
      /\ ReadMax \in Nat /\ 1 \in Nat
      /\ \A s \in Texts : s \in Text
      /\ \A nl \in Newlines : nl \in Text /\ Newline(nl) \in Text
  BY FileAssumption, LineEndText DEF Text, Newline
<1>1. ASSUME NEW n \in Sizes, Read(o, n) PROVE IndInv'
  <2> DEFINE c == [NoCall EXCEPT !.op = "read", !.obj = o, !.n = n]
  <2>1. c \in CallRec /\ c.op = "read" /\ c.obj = o /\ c.used = <<>> /\ c.text = <<>>
    BY <1>0, Constants DEF NoCall, CallRec, Ops
  <2> QED
    BY <1>1, <2>1, BeginStep DEF Read
<1>2. ASSUME ReadAll(o) PROVE IndInv'
  <2> DEFINE c == [NoCall EXCEPT !.op = "readall", !.obj = o, !.n = ReadMax]
  <2>1. c \in CallRec /\ c.op = "readall" /\ c.obj = o /\ c.used = <<>> /\ c.text = <<>>
    BY <1>0, Constants DEF NoCall, CallRec, Ops
  <2> QED
    BY <1>2, <2>1, BeginStep DEF ReadAll
<1>3. ASSUME NEW nl \in Newlines, ReadLn(o, nl) PROVE IndInv'
  <2> DEFINE c == [NoCall EXCEPT !.op = "readln", !.obj = o, !.n = 1, !.nl = nl]
  <2>1. c \in CallRec /\ c.op = "readln" /\ c.obj = o /\ c.used = <<>> /\ c.text = <<>>
    BY <1>0, Constants DEF NoCall, CallRec, Ops
  <2> QED
    BY <1>3, <2>1, BeginStep DEF ReadLn
<1>4. ASSUME NEW s \in Texts, Write(o, s) PROVE IndInv'
  <2> DEFINE c == [NoCall EXCEPT !.op = "write", !.obj = o, !.text = s, !.left = s]
  <2>1. c \in CallRec /\ c.op = "write" /\ c.obj = o /\ c.used = <<>> /\ c.text = c.left
    BY <1>0, Constants DEF NoCall, CallRec, Ops
  <2> QED
    BY <1>4, <2>1, BeginStep DEF Write
<1>5. ASSUME NEW s \in Texts, NEW nl \in Newlines, WriteLn(o, s, nl) PROVE IndInv'
  <2> DEFINE all == s \o Newline(nl)
             c   == [NoCall EXCEPT !.op = "writeln", !.obj = o, !.text = all, !.left = all]
  <2>1. all \in Text
    BY <1>0, ConcatText
  <2>2. Begin(o, {"w"}, c)
    BY <1>5 DEF WriteLn
  <2> HIDE DEF all
  <2>3. c \in CallRec /\ c.op = "writeln" /\ c.obj = o /\ c.used = <<>> /\ c.text = c.left
    BY <2>1, Constants DEF NoCall, CallRec, Ops
  <2> QED
    BY <2>2, <2>3, BeginStep
<1> QED
  BY <1>1, <1>2, <1>3, <1>4, <1>5

(* lock() and its end. *)
LEMMA LockStep ==
  ASSUME IndInv, NEW o \in Objs, NEW type \in {"s", "x"}, Lock(o, type)
  PROVE  IndInv'
<1>1. /\ TypeOK /\ o \in live /\ Isopen(o) /\ UNCHANGED <<live, fd, options, feof, exists, data, other>>
      /\ ret' = NoRet
      /\ call' = [NoCall EXCEPT !.op = "lock", !.obj = o, !.lock = type]
      /\ desc' = [desc EXCEPT ![fd[o]].lock = IF @ = type THEN @ ELSE "none"]
  BY DEF IndInv, Lock, NoResult, objVars
<1>2. fd[o] \in Fds
  BY <1>1, OpenFd
<1>3. PICK l \in LockType : desc' = [desc EXCEPT ![fd[o]].lock = l]
  <2>1. desc[fd[o]].lock \in LockType /\ "none" \in LockType
    BY <1>1, <1>2 DEF TypeOK, DescRec, LockType
  <2>2. CASE desc[fd[o]].lock = type
    BY <1>1, <2>1, <2>2
  <2>3. CASE desc[fd[o]].lock # type
    BY <1>1, <2>1, <2>3
  <2> QED
    BY <2>2, <2>3
<1>4. /\ desc' \in [Fds -> DescRec]
      /\ \A d \in Fds : desc'[d].acc = desc[d].acc /\ desc'[d].append = desc[d].append
  BY <1>1, <1>2, <1>3, DescUpdate
<1>5. call' \in CallRec /\ call'.op = "lock" /\ call'.obj = o
  BY <1>1, Constants DEF NoCall, CallRec, Ops, LockType
<1>6. TypeOK'
  BY <1>1, <1>4, <1>5, Constants DEF TypeOK
<1>7. DescriptorsOwned' /\ FlagsOfOptions'
  BY <1>1, <1>4, SameFilesKeeps DEF IndInv, SameFiles
<1>8. CallOpen' /\ CallAccounted'
  BY <1>1, <1>5 DEF CallOpen, CallAccounted, Isopen, Reading, Writing, Idle
<1>9. NothingSwallowed' /\ WriteAccounted'
  BY <1>1 DEF NoRet, NothingSwallowed, WriteAccounted
<1> QED
  BY <1>6, <1>7, <1>8, <1>9 DEF IndInv

LEMMA LockEnds ==
  ASSUME IndInv, Granted \/ LockInterrupted
  PROVE  IndInv'
<1>1. /\ TypeOK /\ UNCHANGED <<live, fd, options, feof, exists, data, other>>
      /\ ret' = NoRet /\ call' = NoCall /\ ~Idle
      /\ desc' = desc \/ desc' = [desc EXCEPT ![fd[call.obj]].lock = call.lock]
  BY DEF IndInv, Granted, LockInterrupted, NoResult, objVars, osVars, Idle
<1>2. fd[call.obj] \in Fds /\ call.lock \in LockType
  BY <1>1, ChunkText DEF IndInv, TypeOK, CallRec
<1>3. /\ desc' \in [Fds -> DescRec]
      /\ \A d \in Fds : desc'[d].acc = desc[d].acc /\ desc'[d].append = desc[d].append
  <2>1. CASE desc' = desc
    BY <1>1, <2>1 DEF TypeOK
  <2>2. CASE desc' = [desc EXCEPT ![fd[call.obj]].lock = call.lock]
    BY <1>1, <1>2, <2>2, DescUpdate
  <2> QED
    BY <1>1, <2>1, <2>2
<1>4. TypeOK'
  BY <1>1, <1>3, Constants DEF TypeOK
<1>5. DescriptorsOwned' /\ FlagsOfOptions'
  BY <1>1, <1>3, SameFilesKeeps DEF IndInv, SameFiles
<1> QED
  BY <1>1, <1>4, <1>5, QuietKeeps, Constants DEF IndInv

(* A call ends with a result that accounts for what was moved. *)
LEMMA ReturnStep ==
  ASSUME IndInv, SameFiles, call' = NoCall, UNCHANGED <<exists, data, other>>,
         feof' \in [Objs -> BOOLEAN], desc' \in [Fds -> DescRec], ret' \in RetRec,
         NothingSwallowed', WriteAccounted'
  PROVE  IndInv'
<1>1. TypeOK'
  BY Constants DEF IndInv, TypeOK, SameFiles
<1>2. DescriptorsOwned' /\ FlagsOfOptions'
  BY SameFilesKeeps DEF IndInv
<1>3. CallOpen' /\ CallAccounted'
  BY Constants DEF CallOpen, CallAccounted, Idle, Reading, Writing
<1> QED
  BY <1>1, <1>2, <1>3 DEF IndInv

(* The result of a read method. *)
LEMMA ReadReturnsOk ==
  ASSUME TypeOK, Reading, NEW out \in Text, NEW used \in Text, NEW eof \in BOOLEAN,
         ReadReturns(out, used, eof),
         IF call.op = "readln"
         THEN \E end \in LineEnd(call.nl) \cup {<<>>} : used = out \o end
         ELSE used = out,
         eof => used = out
  PROVE  /\ ret' \in RetRec /\ feof' \in [Objs -> BOOLEAN] /\ call' = NoCall
         /\ NothingSwallowed' /\ WriteAccounted'
<1>1. call.op \in Ops /\ call.nl \in Text /\ call.op \in {"read", "readall", "readln"}
  BY DEF TypeOK, CallRec, Reading
<1>2. /\ feof' = [feof EXCEPT ![call.obj] = eof] /\ call' = NoCall
      /\ ret' = [op |-> call.op, kind |-> IF NoValue(out, eof) THEN "undefined" ELSE "value",
                 val |-> out, used |-> used, nl |-> call.nl, eof |-> eof]
  BY DEF ReadReturns
<1>3. /\ ret'.op = call.op /\ ret'.val = out /\ ret'.used = used /\ ret'.nl = call.nl
      /\ ret'.kind = IF NoValue(out, eof) THEN "undefined" ELSE "value"
  BY <1>2
<1>4. ret' \in RetRec
  BY <1>1, <1>2 DEF RetRec
<1>5. feof' \in [Objs -> BOOLEAN]
  BY <1>2 DEF TypeOK
<1>6. ret'.kind = "undefined" => ret'.used = <<>>
  BY <1>3 DEF NoValue
<1>7. ret'.op \in {"read", "readall"} => ret'.val = ret'.used
  BY <1>3
<1>8. ret'.op = "readln" =>
        \E end \in LineEnd(ret'.nl) \cup {<<>>} : ret'.used = ret'.val \o end
  BY <1>3
<1>9. NothingSwallowed'
  BY <1>6, <1>7, <1>8 DEF NothingSwallowed, LineEnd
<1>10. WriteAccounted'
  BY <1>1, <1>3 DEF WriteAccounted
<1> QED
  BY <1>2, <1>4, <1>5, <1>9, <1>10

(* The end of the file, EAGAIN and EINTR. *)
LEMMA ReadStops ==
  ASSUME IndInv, ReadEnd \/ ReadInterrupted
  PROVE  IndInv'
<1>1. PICK eof \in BOOLEAN : ReadReturns(call.text, call.used, eof)
  BY DEF ReadEnd, ReadInterrupted
<1>2. /\ TypeOK /\ Reading /\ UNCHANGED <<live, fd, options, desc, exists, data, other>>
      /\ call.text = call.used /\ call.text \in Text
  BY DEF IndInv, ReadEnd, ReadInterrupted, osVars, CallAccounted, TypeOK, CallRec
<1>3. call.text \o <<>> = call.text
  BY <1>2, ConcatEmptySeq DEF Text
<1>4. /\ ret' \in RetRec /\ feof' \in [Objs -> BOOLEAN] /\ call' = NoCall
      /\ NothingSwallowed' /\ WriteAccounted'
  BY <1>1, <1>2, <1>3, ReadReturnsOk
<1> QED
  BY <1>2, <1>4, ReturnStep DEF SameFiles, TypeOK

LEMMA ReadDataStep ==
  ASSUME IndInv, ReadData
  PROVE  IndInv'
<1> DEFINE out  == call.text \o Chunk
           used == call.used \o Chunk
<1>1. /\ TypeOK /\ Reading /\ ~Idle /\ call.text = call.used
      /\ call.text \in Text /\ call.nl \in Text
      /\ UNCHANGED <<live, fd, options, exists, data, other>>
      /\ desc' = [desc EXCEPT ![fd[call.obj]].pos = @ + Len(Chunk)]
  BY DEF IndInv, ReadData, CallAccounted, TypeOK, CallRec, Reading, Idle
<1>2. Chunk \in Text /\ Len(Chunk) \in Nat /\ fd[call.obj] \in Fds
  BY <1>1, ChunkText DEF IndInv
<1>3. desc[fd[call.obj]].pos + Len(Chunk) \in Nat
  BY <1>1, <1>2 DEF TypeOK, DescRec
<1>4. /\ desc' \in [Fds -> DescRec]
      /\ \A d \in Fds : desc'[d].acc = desc[d].acc /\ desc'[d].append = desc[d].append
  BY <1>1, <1>2, <1>3, DescUpdate
<1>5. out \in Text /\ used \in Text /\ out = used /\ out \o <<>> = out
  BY <1>1, <1>2, ConcatText, ConcatEmptySeq DEF Text
<1>6. \/ call.op = "read" /\ ReadReturns(out, used, FALSE)
      \/ /\ call.op = "readln" /\ LineEnds(out, call.nl)
         /\ ReadReturns(Line(out, call.nl), used, FALSE)
      \/ /\ call' = [call EXCEPT !.text = out, !.used = used]
         /\ UNCHANGED feof /\ ret' = NoRet
  BY DEF ReadData, NoResult
<1> HIDE DEF out, used
<1>7. CASE call.op = "read" /\ ReadReturns(out, used, FALSE)
  <2>1. /\ ret' \in RetRec /\ feof' \in [Objs -> BOOLEAN] /\ call' = NoCall
        /\ NothingSwallowed' /\ WriteAccounted'
    BY <1>1, <1>5, <1>7, ReadReturnsOk
  <2> QED
    BY <1>1, <1>4, <2>1, ReturnStep DEF SameFiles
<1>8. CASE /\ call.op = "readln" /\ LineEnds(out, call.nl)
           /\ ReadReturns(Line(out, call.nl), used, FALSE)
  <2>1. /\ Line(out, call.nl) \in Text
        /\ \E end \in LineEnd(call.nl) : used = Line(out, call.nl) \o end
    <3>1. out \in Text /\ call.nl \in Text /\ LineEnds(out, call.nl)
      BY <1>1, <1>5, <1>8
    <3>2. /\ Line(out, call.nl) \in Text
          /\ \E end \in LineEnd(call.nl) : out = Line(out, call.nl) \o end
      BY <3>1, LineOfText, Zenon
    <3>3. out = used
      BY <1>5
    <3> QED
      BY <3>2, <3>3, Zenon
  <2>2. /\ ret' \in RetRec /\ feof' \in [Objs -> BOOLEAN] /\ call' = NoCall
        /\ NothingSwallowed' /\ WriteAccounted'
    <3>1. \E end \in LineEnd(call.nl) \cup {<<>>} : used = Line(out, call.nl) \o end
      BY <2>1
    <3> QED
      BY <1>1, <1>5, <1>8, <2>1, <3>1, ReadReturnsOk
  <2> QED
    BY <1>1, <1>4, <2>2, ReturnStep DEF SameFiles
<1>9. CASE /\ call' = [call EXCEPT !.text = out, !.used = used]
           /\ UNCHANGED feof /\ ret' = NoRet
  <2>1. /\ call' \in CallRec /\ call'.op = call.op /\ call'.obj = call.obj
        /\ call'.text = call'.used
    BY <1>1, <1>5, <1>9 DEF TypeOK, CallRec
  <2>2. TypeOK'
    BY <1>1, <1>4, <1>9, <2>1, Constants DEF TypeOK
  <2>3. DescriptorsOwned' /\ FlagsOfOptions'
    BY <1>1, <1>4, SameFilesKeeps DEF IndInv, SameFiles
  <2>4. CallOpen' /\ CallAccounted'
    BY <1>1, <2>1 DEF IndInv, CallOpen, CallAccounted, Isopen, Idle, Reading, Writing
  <2>5. NothingSwallowed' /\ WriteAccounted'
    BY <1>9 DEF NoRet, NothingSwallowed, WriteAccounted
  <2> QED
    BY <2>2, <2>3, <2>4, <2>5 DEF IndInv
<1> QED
  BY <1>6, <1>7, <1>8, <1>9

(* An error of ::read() or ::write() throws. *)
LEMMA IoFailsStep ==
  ASSUME IndInv, IoFails
  PROVE  IndInv'
<1>1. /\ TypeOK /\ UNCHANGED <<live, fd, options, feof, desc, exists, data, other>>
      /\ ret' = Threw /\ call' = NoCall
  BY DEF IndInv, IoFails, objVars, osVars
<1>2. Threw \in RetRec /\ Threw.kind = "throw"
  BY <1>1, Constants DEF Threw, NoRet, RetRec, TypeOK, CallRec
<1>3. NothingSwallowed' /\ WriteAccounted'
  BY <1>1, <1>2 DEF NothingSwallowed, WriteAccounted
<1> QED
  BY <1>1, <1>2, <1>3, ReturnStep DEF SameFiles, TypeOK

(* One ::write(): the head of what is left moves to the file. *)
LEMMA WriteDataStep ==
  ASSUME IndInv, NEW n \in 1..MaxSize, WriteData(n)
  PROVE  IndInv' /\ Len(data') >= Len(data)
         /\ (desc[fd[call.obj]].append => \A i \in 1..Len(data) : data'[i] = data[i])
<1> DEFINE d == fd[call.obj]
           p == IF desc[d].append THEN Len(data) ELSE desc[d].pos
           s == SubSeq(call.left, 1, n)
           l == Remaining(n)
<1>1. /\ TypeOK /\ Writing /\ ~Idle /\ n \in 1..Len(call.left)
      /\ call.text = call.used \o call.left
      /\ call.text \in Text /\ call.used \in Text /\ call.left \in Text
      /\ UNCHANGED <<live, fd, options, feof, exists, other>> /\ ret' = NoRet
      /\ data' = Written(p, s)
      /\ desc' = [desc EXCEPT ![d].pos = p + n]
      /\ call' = [call EXCEPT !.left = l, !.used = @ \o s]
  BY DEF IndInv, WriteData, CallAccounted, TypeOK, CallRec, Writing, Idle, NoResult, objVars
<1>2. d \in Fds
  BY <1>1, ChunkText DEF IndInv
<1>3. /\ Len(data) \in Nat /\ Len(call.left) \in Nat
      /\ p \in Nat /\ p + n \in Nat /\ (desc[d].append => p = Len(data))
  <2>1. Len(data) \in Nat /\ Len(call.left) \in Nat
    BY <1>1 DEF TypeOK, Text
  <2>2. desc[d].pos \in Nat
    BY <1>1, <1>2 DEF TypeOK, DescRec
  <2>3. n \in Nat
    BY <1>1, <2>1
  <2> QED
    BY <2>1, <2>2, <2>3
<1>4. /\ s \in Text /\ l \in Text /\ call.left = s \o l
  <2>1. n \in Int /\ n <= Len(call.left) /\ n + 1 \in Nat \ {0} /\ n \in 0..Len(call.left)
    BY <1>1, <1>3
  <2>2. s \in Text
    <3>1. call.left \in Text /\ 1 \in Nat \ {0}
      BY <1>1
    <3> QED
      BY <2>1, <3>1, PartOfText
  <2>3. l \in Text
    BY <1>1, <1>3, <2>1, PartOfText DEF Remaining
  <2>4. call.left = s \o l
    BY <1>1, <2>1, CutText DEF Remaining
  <2> QED
    BY <2>2, <2>3, <2>4
<1> HIDE DEF p, s, l, d
<1>5. call.used \o s \in Text /\ (call.used \o s) \o l = call.text
  <2>1. call.used \in Text /\ call.text = call.used \o call.left
    BY <1>1
  <2>2. (call.used \o s) \o l = call.used \o (s \o l)
    BY <1>4, <2>1, ConcatAssoc
  <2> QED
    BY <1>4, <2>1, <2>2, ConcatText
<1>6. /\ desc' \in [Fds -> DescRec]
      /\ \A x \in Fds : desc'[x].acc = desc[x].acc /\ desc'[x].append = desc[x].append
  BY <1>1, <1>2, <1>3, DescUpdate
<1>7. /\ call' \in CallRec /\ call'.op = call.op /\ call'.obj = call.obj
      /\ call'.text = call'.used \o call'.left
  BY <1>1, <1>4, <1>5 DEF TypeOK, CallRec
<1>8. /\ data' \in Text /\ Len(data') >= Len(data)
      /\ \A i \in 1..Len(data) : i <= p => data'[i] = data[i]
  BY <1>1, <1>3, <1>4, WrittenText
<1>9. TypeOK'
  BY <1>1, <1>6, <1>7, <1>8, Constants DEF TypeOK
<1>10. DescriptorsOwned' /\ FlagsOfOptions'
  BY <1>1, <1>6, SameFilesKeeps DEF IndInv, SameFiles
<1>11. CallOpen' /\ CallAccounted'
  <2>1. fd[call.obj] \in Fds
    BY <1>2 DEF d
  <2> QED
    BY <1>1, <1>6, <1>7, <2>1 DEF IndInv, CallOpen, CallAccounted, Isopen, Idle, Reading, Writing
<1>12. NothingSwallowed' /\ WriteAccounted'
  BY <1>1 DEF NoRet, NothingSwallowed, WriteAccounted
<1>13. desc[fd[call.obj]].append => \A i \in 1..Len(data) : data'[i] = data[i]
  BY <1>3, <1>8 DEF d
<1> QED
  BY <1>8, <1>9, <1>10, <1>11, <1>12, <1>13 DEF IndInv

(* The result of a write method. *)
LEMMA WriteEnds ==
  ASSUME IndInv, WriteDone \/ WriteInterrupted
  PROVE  IndInv'
<1> DEFINE n == Len(call.text) - Len(call.left)
<1>1. /\ TypeOK /\ Writing /\ call.text = call.used \o call.left
      /\ call.text \in Text /\ call.used \in Text /\ call.left \in Text
      /\ UNCHANGED <<live, fd, options, feof, desc, exists, data, other>> /\ call' = NoCall
  BY DEF IndInv, WriteDone, WriteInterrupted, CallAccounted, TypeOK, CallRec, objVars, osVars
<1>2. SubSeq(call.text, 1, n) = call.used
  BY <1>1, HeadOfConcat
<1>3. \/ ret' = Threw
      \/ \E op \in {"write", "writeln"} :
           ret' = [NoRet EXCEPT !.op = op, !.kind = "value", !.val = call.used, !.used = call.used]
  <2>1. CASE WriteDone
    <3>1. call.left = <<>> /\ call.text = call.used
      BY <1>1, <2>1, ConcatEmptySeq DEF WriteDone, Text
    <3> QED
      BY <1>1, <2>1, <3>1 DEF WriteDone, Writing
  <2>2. CASE WriteInterrupted
    BY <1>2, <2>2 DEF WriteInterrupted
  <2> QED
    BY <2>1, <2>2
<1>4. ret' \in RetRec /\ NothingSwallowed' /\ WriteAccounted'
  <2>1. CASE ret' = Threw
    <3>1. Threw \in RetRec /\ Threw.kind = "throw"
      BY <1>1, Constants DEF Threw, NoRet, RetRec, TypeOK, CallRec
    <3> QED
      BY <2>1, <3>1 DEF NothingSwallowed, WriteAccounted
  <2>2. ASSUME NEW op \in {"write", "writeln"},
               ret' = [NoRet EXCEPT !.op = op, !.kind = "value", !.val = call.used, !.used = call.used]
        PROVE  ret' \in RetRec /\ NothingSwallowed' /\ WriteAccounted'
    <3>1. /\ ret' \in RetRec /\ ret'.op = op /\ ret'.kind = "value"
          /\ ret'.val = ret'.used
      BY <1>1, <2>2, Constants DEF NoRet, RetRec, Ops
    <3> QED
      BY <2>2, <3>1 DEF NothingSwallowed, WriteAccounted
  <2> QED
    BY <1>3, <2>1, <2>2
<1> QED
  BY <1>1, <1>4, ReturnStep DEF SameFiles, TypeOK

LEMMA Inductive ==
  ASSUME IndInv, [Next]_vars
  PROVE  IndInv'
<1>1. ASSUME NEW o \in Objs, OpenOrClose(o) PROVE IndInv'
  BY <1>1, ConstructKeeps, OpenStep, CloseStep DEF OpenOrClose
<1>2. ASSUME NEW o \in Objs, Method(o) PROVE IndInv'
  BY <1>2, MethodBegins, SeekStep, LockStep, UnlockStep DEF Method
<1>3. CASE SystemCall
  BY <1>3, ReadDataStep, ReadStops, WriteDataStep, WriteEnds, IoFailsStep, LockEnds
     DEF SystemCall
<1>4. CASE OtherProcess
  BY <1>4, OtherStep
<1>5. CASE UNCHANGED vars
  BY <1>5 DEF vars, IndInv, TypeOK, DescriptorsOwned, CallOpen, FlagsOfOptions, AppendFlag,
     CallAccounted, NothingSwallowed, LineEnd, WriteAccounted, Isopen, Idle, Reading, Writing
<1> QED
  BY <1>1, <1>2, <1>3, <1>4, <1>5 DEF Next

LEMMA Initial ==
  ASSUME Init
  PROVE  IndInv
<1>1. TypeOK
  BY Constants DEF Init, TypeOK, LockType
<1>2. \A o \in Objs : ~Isopen(o)
  BY DEF Init, Isopen
<1>3. DescriptorsOwned /\ FlagsOfOptions
  BY <1>2, Constants DEF Init, DescriptorsOwned, FlagsOfOptions
<1>4. CallOpen /\ CallAccounted
  BY Constants DEF Init, CallOpen, CallAccounted, Idle, Reading, Writing
<1>5. NothingSwallowed /\ WriteAccounted
  BY Constants DEF Init, NothingSwallowed, WriteAccounted
<1> QED
  BY <1>1, <1>3, <1>4, <1>5 DEF IndInv

LEMMA Invariance == Spec => []IndInv
BY Initial, Inductive, PTL DEF Spec
-----------------------------------------------------------------------------
(* The type invariant; in particular no file position is negative and no   *)
(* descriptor but one of the process is stored in an object.               *)
THEOREM TypeCorrect == Spec => []TypeOK
BY Invariance, PTL DEF IndInv

(* However many objects a script opens, reopens, closes and leaves to the  *)
(* garbage collector, and whenever ::open() fails: no descriptor leaks and *)
(* none is in two objects.                                                 *)
THEOREM NoDescriptorLeaks == Spec => []DescriptorsOwned
BY Invariance, PTL DEF IndInv

(* read() and readln() hand over every byte they take out of the file.     *)
THEOREM ReadLosesNothing == Spec => []NothingSwallowed
BY Invariance, PTL DEF IndInv

(* write(), writeln() and printf() report exactly what was written.        *)
THEOREM WriteReportsWritten == Spec => []WriteAccounted
BY Invariance, PTL DEF IndInv
-----------------------------------------------------------------------------
(* Appending *)

LEMMA ExtendsItself ==
  ASSUME NEW s \in Text
  PROVE  Extends(s, s)
BY SubSeqFull DEF Extends, Text

LEMMA ExtendsPointwise ==
  ASSUME NEW s \in Text, NEW t \in Text, Len(t) >= Len(s),
         \A i \in 1..Len(s) : t[i] = s[i]
  PROVE  Extends(t, s)
<1>1. Len(s) \in Nat /\ Len(t) \in Nat
  BY DEF Text
<1>2. /\ SubSeq(t, 1, Len(s)) \in Text /\ Len(SubSeq(t, 1, Len(s))) = Len(s)
      /\ \A i \in 1..Len(s) : SubSeq(t, 1, Len(s))[i] = t[i]
  BY <1>1, PartOfText
<1>3. SubSeq(t, 1, Len(s)) = s
  <2>1. \A i \in 1..Len(SubSeq(t, 1, Len(s))) : SubSeq(t, 1, Len(s))[i] = s[i]
    BY <1>2
  <2> QED
    BY <1>2, <2>1, SeqEqual DEF Text
<1> QED
  BY <1>3 DEF Extends

(* A step during a write() leaves the file, writes to it, or is an append  *)
(* of the other process.                                                   *)
LEMMA WritingSteps ==
  ASSUME [Next]_vars, Writing
  PROVE  \/ data' = data
         \/ \E n \in 1..MaxSize : WriteData(n)
         \/ \E b \in Bytes : data' = Append(data, b)
<1>1. ~Idle
  BY DEF Writing, Idle
<1>2. \A o \in Objs : ~OpenOrClose(o) /\ ~Method(o)
  BY <1>1, ZenonT(40) DEF OpenOrClose, Method, Construct, Open, OpenThrows, Close, Finalize, Begin,
     Read, ReadAll, ReadLn, Write, WriteLn, Seek, Lock, Unlock
<1>3. CASE SystemCall
  BY <1>3 DEF SystemCall, ReadData, ReadEnd, ReadInterrupted, WriteDone, WriteInterrupted,
     IoFails, Granted, LockInterrupted, osVars
<1>4. CASE OtherProcess
  BY <1>4 DEF OtherProcess, OtherAppends, OtherLocks, OtherUnlocks
<1> QED
  BY <1>2, <1>3, <1>4 DEF Next, vars

LEMMA AppendStep ==
  ASSUME IndInv, [Next]_vars, Writing, "a" \in options[call.obj]
  PROVE  Extends(data', data)
<1>1. TypeOK /\ data \in Text /\ Len(data) \in Nat
  BY DEF IndInv, TypeOK, Text
<1>2. CASE data' = data
  BY <1>1, <1>2, ExtendsItself
<1>3. ASSUME NEW n \in 1..MaxSize, WriteData(n) PROVE Extends(data', data)
  <2>1. desc[fd[call.obj]].append
    <3>1. call.obj \in Objs /\ Isopen(call.obj) /\ "w" \in desc[fd[call.obj]].acc
      BY DEF IndInv, CallOpen, Idle, Writing, TypeOK, CallRec
    <3> QED
      BY <3>1 DEF IndInv, FlagsOfOptions, AppendFlag
  <2>2. data' \in Text /\ Len(data') >= Len(data) /\ \A i \in 1..Len(data) : data'[i] = data[i]
    BY <1>3, <2>1, WriteDataStep DEF IndInv, TypeOK
  <2> QED
    BY <1>1, <2>2, ExtendsPointwise
<1>4. ASSUME NEW b \in Bytes, data' = Append(data, b) PROVE Extends(data', data)
  <2>1. b \in Byte
    BY DEF Byte
  <2>2. /\ data' \in Text /\ Len(data') = Len(data) + 1
        /\ \A i \in 1..Len(data) : data'[i] = data[i]
    BY <1>1, <1>4, <2>1, AppendProperties DEF Text
  <2> QED
    BY <1>1, <2>2, ExtendsPointwise
<1> QED
  BY <1>2, <1>3, <1>4, WritingSteps

(* A write in append mode overwrites nothing, for any seek() before it,    *)
(* any partial writes and any appends of the other process.                *)
THEOREM AppendPreserves == Spec => AppendOnly
<1>1. IndInv /\ [Next]_vars =>
        [Writing /\ "a" \in options[call.obj] => Extends(data', data)]_vars
  BY AppendStep
<1> QED
  BY <1>1, Invariance, PTL DEF Spec, AppendOnly
-----------------------------------------------------------------------------
(* Truncation *)

LEMMA FileExistsInductive ==
  ASSUME IndInv, FileExists, [Next]_vars
  PROVE  FileExists'
<1> SUFFICES ASSUME ~exists' PROVE data' = <<>> /\ \A o \in Objs : ~Isopen(o)'
  BY DEF FileExists, Isopen
<1>1. TypeOK /\ CallOpen
  BY DEF IndInv
<1>2. ASSUME ~exists PROVE Idle
  BY <1>1, <1>2 DEF CallOpen, FileExists, TypeOK, CallRec
<1>3. ASSUME NEW o \in Objs, OpenOrClose(o)
      PROVE  exists' = exists /\ data' = data /\ fd' = [fd EXCEPT ![o] = -1]
  BY <1>3 DEF OpenOrClose, Construct, Open, OpenThrows, ThrownFd, Close, Finalize, osVars
<1>4. ASSUME NEW o \in Objs, Method(o) PROVE exists' = exists /\ data' = data /\ fd' = fd
  BY <1>4 DEF Method, Begin, Read, ReadAll, ReadLn, Write, WriteLn, Seek, Lock, Unlock,
     objVars, osVars
<1>5. CASE SystemCall
  <2>1. ~Idle /\ exists' = exists
    BY <1>5 DEF SystemCall, ReadData, ReadEnd, ReadInterrupted, WriteData, WriteDone,
       WriteInterrupted, IoFails, Granted, LockInterrupted, Reading, Writing, Idle, osVars
  <2> QED
    BY <1>2, <2>1
<1>6. CASE OtherProcess
  BY <1>6 DEF OtherProcess, OtherAppends, OtherLocks, OtherUnlocks, objVars, FileExists, Isopen
<1>7. CASE UNCHANGED vars
  BY <1>7 DEF vars, FileExists, Isopen
<1>8. ASSUME NEW o \in Objs, OpenOrClose(o)
      PROVE  data' = <<>> /\ \A p \in Objs : ~Isopen(p)'
  BY <1>1, <1>3, <1>8 DEF FileExists, Isopen, TypeOK
<1>9. ASSUME NEW o \in Objs, Method(o)
      PROVE  data' = <<>> /\ \A p \in Objs : ~Isopen(p)'
  BY <1>4, <1>9 DEF FileExists, Isopen
<1> QED
  BY <1>5, <1>6, <1>7, <1>8, <1>9 DEF Next

(* An open() that truncates the file has a mode that asks for it, unless   *)
(* it creates the file.                                                    *)
LEMMA TruncatingMode ==
  ASSUME NEW m, "w" \in Sanitized(m), "p" \notin Sanitized(m),
         ~("e" \notin Sanitized(m) /\ "x" \in Sanitized(m))
  PROVE  Discards(m)
<1> DEFINE letters == {c \in {"r", "w", "a", "x", "p", "n"} : Has(m, c)}
                        \cup (IF HasLast(m, "e", "c") THEN {"e"} ELSE {})
           all     == letters \cup (IF Has(m, "+") THEN PlusOptions(letters) ELSE {})
                        \cup (IF "a" \in letters THEN {"p"} ELSE {})
<1>1. /\ "w" \in all /\ "p" \notin all
      /\ ~("e" \notin all /\ "x" \in all)
  BY DEF Sanitized
<1>2. /\ "r" \in letters <=> Has(m, "r")
      /\ "w" \in letters <=> Has(m, "w")
      /\ "a" \in letters <=> Has(m, "a")
      /\ "x" \in letters <=> Has(m, "x")
      /\ "p" \in letters <=> Has(m, "p")
      /\ "e" \in letters <=> HasLast(m, "e", "c")
  OBVIOUS
<1> HIDE DEF letters
<1>3. ~Has(m, "p") /\ ~Has(m, "a")
  BY <1>1, <1>2
<1>4. ~(Has(m, "r") /\ Has(m, "+"))
  BY <1>1, <1>2, <1>3 DEF PlusOptions
<1>5. Has(m, "w")
  BY <1>1, <1>2, <1>3, <1>4 DEF PlusOptions
<1>6. Has(m, "x") => HasLast(m, "e", "c")
  BY <1>1, <1>2, <1>3, <1>4 DEF PlusOptions
<1> QED
  BY <1>3, <1>4, <1>5, <1>6 DEF Discards

LEMMA ShrinkStep ==
  ASSUME IndInv, FileExists, [Next]_vars, Len(data') < Len(data)
  PROVE  \E o \in Objs, m \in Modes : Discards(m) /\ Open(o, m)
<1>1. data \in Text /\ Len(data) \in Nat
  BY DEF IndInv, TypeOK, Text
<1>2. data' # data
  BY <1>1
<1>3. ASSUME NEW n \in 1..MaxSize, WriteData(n) PROVE FALSE
  <2>1. Len(data') >= Len(data)
    BY <1>3, WriteDataStep
  <2>2. Len(data') \in Nat
    BY <1>3, WriteDataStep DEF IndInv, TypeOK, Text
  <2> QED
    BY <1>1, <2>1, <2>2
<1>4. ASSUME NEW b \in Bytes, data' = Append(data, b) PROVE FALSE
  BY <1>1, <1>4, AppendProperties DEF Text, Byte
<1>5. PICK o \in Objs, m \in Modes : Open(o, m)
  <2>1. ASSUME NEW o \in Objs, OpenOrClose(o) PROVE \E m \in Modes : Open(o, m)
    BY <1>2, <2>1 DEF OpenOrClose, Construct, OpenThrows, Close, Finalize, osVars
  <2>2. ASSUME NEW o \in Objs, Method(o) PROVE FALSE
    BY <1>2, <2>2 DEF Method, Begin, Read, ReadAll, ReadLn, Write, WriteLn, Seek, Lock,
       Unlock, osVars
  <2>3. CASE SystemCall
    BY <1>2, <1>3, <2>3 DEF SystemCall, ReadData, ReadEnd, ReadInterrupted, WriteDone,
       WriteInterrupted, IoFails, Granted, LockInterrupted, osVars
  <2>4. CASE OtherProcess
    BY <1>2, <1>4, <2>4 DEF OtherProcess, OtherAppends, OtherLocks, OtherUnlocks
  <2> QED
    BY <1>2, <2>1, <2>2, <2>3, <2>4 DEF Next, vars
<1> DEFINE opts == Sanitized(m)
<1>6. exists
  <2>1. Len(<<>>) = 0 /\ Len(data') \in Nat
    BY Inductive DEF IndInv, TypeOK, Text
  <2> QED
    BY <1>1, <2>1 DEF FileExists
<1>7. /\ "w" \in opts /\ "p" \notin opts
      /\ ~("e" \notin opts /\ "x" \in opts)
  BY <1>2, <1>5, <1>6 DEF Open, OpenFlags
<1>8. Discards(m)
  BY <1>7, TruncatingMode
<1> QED
  BY <1>5, <1>8

(* No sequence of mode letters but those documented to truncate the file   *)
(* loses file contents: open() of "r+", "rwa", "wp", "wx" and all their    *)
(* permutations, and every other method, preserve the file.  Modes with    *)
(* both "x" and "e" count as truncating, see Discards.                     *)
THEOREM ContentsPreserved == Spec => OpenPreserves
<1>1. Init => FileExists
  BY DEF Init, FileExists, Isopen
<1>2. IndInv /\ FileExists /\ [Next]_vars => FileExists'
  BY FileExistsInductive
<1>3. Spec => []FileExists
  BY <1>1, <1>2, Invariance, PTL DEF Spec
<1>4. IndInv /\ FileExists /\ [Next]_vars =>
        [Len(data') < Len(data) =>
           \E o \in Objs, m \in Modes : Discards(m) /\ Open(o, m)]_vars
  BY ShrinkStep
<1> QED
  BY <1>3, <1>4, Invariance, PTL DEF Spec, OpenPreserves
-----------------------------------------------------------------------------
(* Lines *)

LEMMA NewlineText ==
  ASSUME NEW nl \in Text
  PROVE  Newline(nl) \in Text /\ Len(Newline(nl)) \in Nat \ {0}
<1>1. Newline(nl) \in Text /\ Newline(nl) # <<>>
  BY LineEndText DEF Newline
<1> QED
  BY <1>1, EmptySeq DEF Text

(* A part of the beginning of a text is a part of the text. *)
LEMMA PartOfHead ==
  ASSUME NEW s \in Text, NEW t \in Text, Len(t) <= Len(s),
         \A x \in 1..Len(t) : t[x] = s[x],
         NEW i \in 1..Len(t), NEW j \in 1..Len(t)
  PROVE  SubSeq(t, i, j) = SubSeq(s, i, j)
<1>1. Len(s) \in Nat /\ Len(t) \in Nat
  BY DEF Text
<1>2. i \in Nat \ {0} /\ j \in Int /\ j <= Len(t) /\ j <= Len(s)
  BY <1>1
<1>3. /\ SubSeq(t, i, j) \in Text /\ SubSeq(s, i, j) \in Text
      /\ Len(SubSeq(t, i, j)) = (IF i <= j THEN j - i + 1 ELSE 0)
      /\ Len(SubSeq(s, i, j)) = (IF i <= j THEN j - i + 1 ELSE 0)
      /\ \A x \in 1..(j - i + 1) : SubSeq(t, i, j)[x] = t[i + x - 1]
      /\ \A x \in 1..(j - i + 1) : SubSeq(s, i, j)[x] = s[i + x - 1]
  BY <1>2, PartOfText
<1>4. \A x \in 1..Len(SubSeq(t, i, j)) : SubSeq(t, i, j)[x] = SubSeq(s, i, j)[x]
  <2>1. \A x \in 1..(j - i + 1) : i + x - 1 \in 1..Len(t)
    BY <1>1, <1>2
  <2> QED
    BY <1>2, <1>3, <2>1
<1> QED
  BY <1>3, <1>4, SeqEqual DEF Text

(* No part of a text is the newline. *)
NoNewline(s, nl) == \A i, j \in 1..Len(s) : SubSeq(s, i, j) # Newline(nl)

LEMMA HeadHasNone ==
  ASSUME NEW s \in Text, NEW t \in Text, NEW nl \in Text, NoNewline(s, nl),
         Len(t) <= Len(s), \A x \in 1..Len(t) : t[x] = s[x]
  PROVE  NoNewline(t, nl)
<1>1. Len(s) \in Nat /\ Len(t) \in Nat
  BY DEF Text
<1>2. SUFFICES ASSUME NEW i \in 1..Len(t), NEW j \in 1..Len(t)
               PROVE  SubSeq(t, i, j) # Newline(nl)
  BY DEF NoNewline
<1>3. i \in 1..Len(s) /\ j \in 1..Len(s)
  BY <1>1
<1> QED
  BY <1>3, PartOfHead DEF NoNewline

(* One byte more that does not complete a newline brings none. *)
LEMMA ByteAdded ==
  ASSUME NEW s \in Text, NEW t \in Text, NEW nl \in Text, NoNewline(s, nl),
         Len(t) = Len(s) + 1, \A x \in 1..Len(s) : s[x] = t[x],
         ~LineEnds(t, nl)
  PROVE  NoNewline(t, nl)
<1>1. Len(s) \in Nat /\ Len(t) \in Nat
  BY DEF Text
<1>2. SUFFICES ASSUME NEW i \in 1..Len(t), NEW j \in 1..Len(t),
                      SubSeq(t, i, j) = Newline(nl)
               PROVE  FALSE
  BY DEF NoNewline
<1>3. Len(Newline(nl)) \in Nat \ {0}
  BY NewlineText
<1>4. i \in Nat \ {0} /\ j \in Int /\ j <= Len(t)
  BY <1>1
<1>5. Len(Newline(nl)) = IF i <= j THEN j - i + 1 ELSE 0
  <2>1. Len(SubSeq(t, i, j)) = IF i <= j THEN j - i + 1 ELSE 0
    BY <1>4, PartOfText
  <2> QED
    BY <1>2, <2>1
<1>6. i <= j /\ Len(Newline(nl)) = j - i + 1
  BY <1>3, <1>4, <1>5
<1>7. CASE j = Len(t)
  <2>1. Len(Newline(nl)) <= Len(t) /\ Len(t) - Len(Newline(nl)) + 1 = i
    BY <1>1, <1>4, <1>6, <1>7
  <2> QED
    BY <1>2, <1>7, <2>1 DEF LineEnds, EndsWith
<1>8. CASE j # Len(t)
  <2>1. i \in 1..Len(s) /\ j \in 1..Len(s)
    BY <1>1, <1>4, <1>6, <1>8
  <2>2. SubSeq(s, i, j) = SubSeq(t, i, j)
    BY <1>1, <2>1, PartOfHead
  <2> QED
    BY <1>2, <2>1, <2>2 DEF NoNewline
<1> QED
  BY <1>7, <1>8

(* readln() gets one byte at a time. *)
LEMMA ByteRead ==
  ASSUME TypeOK, CallOpen, ~Idle, call.n = 1, Chunk # <<>>
  PROVE  /\ Len(Chunk) = 1 /\ call.text \o Chunk \in Text
         /\ Len(call.text \o Chunk) = Len(call.text) + 1
         /\ \A x \in 1..Len(call.text) : call.text[x] = (call.text \o Chunk)[x]
<1>1. /\ Chunk \in Text /\ Len(Chunk) \in Nat /\ fd[call.obj] \in Fds
      /\ call.text \in Text /\ data \in Text
  BY ChunkText DEF TypeOK, CallRec
<1>2. Unread(call.obj) \in Text
  <2>1. desc[fd[call.obj]].pos + 1 \in Nat \ {0} /\ Len(data) \in Int
    BY <1>1 DEF TypeOK, DescRec, Text
  <2> QED
    BY <1>1, <2>1, PartOfText DEF Unread
<1>3. Len(Chunk) <= 1
  <2> DEFINE s == Unread(call.obj)
  <2>1. Len(s) \in Nat
    BY <1>2 DEF Text
  <2>2. Chunk = SubSeq(s, 1, IF Len(s) < 1 THEN Len(s) ELSE 1)
    BY DEF Chunk
  <2> HIDE DEF s
  <2> QED
    BY <1>2, <2>1, <2>2, PartOfText DEF s
<1>4. Len(Chunk) = 1
  <2> DEFINE c == Chunk
  <2>1. c \in Seq(Byte) /\ c # <<>> /\ Len(c) <= 1
    BY <1>1, <1>3 DEF Text
  <2> HIDE DEF c
  <2>2. Len(c) \in Nat \ {0}
    BY <2>1, EmptySeq
  <2>3. \A k \in Nat \ {0} : k <= 1 => k = 1
    OBVIOUS
  <2>4. Len(c) = 1
    BY <2>1, <2>2, <2>3, Zenon
  <2> QED
    BY <2>4 DEF c
<1> QED
  BY <1>1, <1>4, ConcatProperties DEF Text

(* The line a readln() returns is a beginning of what it had read before   *)
(* the last byte.                                                          *)
LEMMA LineIsHead ==
  ASSUME NEW s \in Text, NEW t \in Text, NEW nl \in Text,
         Len(t) = Len(s) + 1, \A x \in 1..Len(s) : s[x] = t[x],
         LineEnds(t, nl)
  PROVE  /\ Line(t, nl) \in Text /\ Len(Line(t, nl)) <= Len(s)
         /\ \A x \in 1..Len(Line(t, nl)) : Line(t, nl)[x] = s[x]
<1> DEFINE ending == IF nl # <<>> THEN nl
                     ELSE IF EndsWith(t, <<"CR", "LF">>) THEN <<"CR", "LF">> ELSE <<"LF">>
           k == Len(t) - Len(ending)
<1>1. ending \in Text /\ ending # <<>> /\ EndsWith(t, ending)
  <2>1. <<"CR", "LF">> \in Text /\ <<"LF">> \in Text
    BY LineEndText
  <2> QED
    BY <2>1 DEF LineEnds, Newline
<1>2. Line(t, nl) = SubSeq(t, 1, k)
  BY DEF Line
<1>3. Len(s) \in Nat /\ Len(ending) \in Nat \ {0} /\ Len(ending) <= Len(t)
  BY <1>1, EmptySeq DEF EndsWith, Text
<1> HIDE DEF ending
<1>4. k \in Nat /\ k <= Len(s) /\ k <= Len(t)
  BY <1>3
<1> HIDE DEF k
<1>5. /\ Line(t, nl) \in Text /\ Len(Line(t, nl)) = k
      /\ \A x \in 1..k : Line(t, nl)[x] = t[x]
  BY <1>2, <1>4, PartOfText
<1> QED
  BY <1>3, <1>4, <1>5

LEMMA LineReadStep ==
  ASSUME IndInv, LineOpen, ReadData
  PROVE  LineOpen' /\ LineReturned'
<1> DEFINE out == call.text \o Chunk
<1>1. /\ TypeOK /\ CallOpen /\ Reading /\ ~Idle /\ Chunk # <<>>
      /\ call.text \in Text /\ call.nl \in Text
  BY DEF IndInv, ReadData, TypeOK, CallRec, Reading, Idle
<1>2. CASE call.op # "readln"
  <2>1. \/ call' = NoCall /\ ret'.op # "readln"
        \/ call'.op # "readln" /\ ret' = NoRet
    <3>1. ASSUME NEW o, NEW used, NEW eof, ReadReturns(o, used, eof)
          PROVE  call' = NoCall /\ ret'.op # "readln"
      BY <1>2, <3>1 DEF ReadReturns
    <3>2. ASSUME NEW o, NEW used, call' = [call EXCEPT !.text = o, !.used = used]
          PROVE  call'.op # "readln"
      BY <1>1, <1>2, <3>2 DEF TypeOK, CallRec
    <3> QED
      BY <1>2, <3>1, <3>2 DEF ReadData, NoResult
  <2> QED
    BY <2>1 DEF LineOpen, LineReturned, NoCall, NoRet
<1>3. CASE call.op = "readln"
  <2>1. call.n = 1 /\ NoNewline(call.text, call.nl)
    BY <1>3 DEF LineOpen, NoNewline
  <2>2. /\ out \in Text /\ Len(out) = Len(call.text) + 1
        /\ \A x \in 1..Len(call.text) : call.text[x] = out[x]
    BY <1>1, <2>1, ByteRead
  <2>3. \/ LineEnds(out, call.nl) /\ \E used : ReadReturns(Line(out, call.nl), used, FALSE)
        \/ ~LineEnds(out, call.nl) /\ ret' = NoRet
           /\ \E used : call' = [call EXCEPT !.text = out, !.used = used]
    BY <1>3 DEF ReadData, NoResult
  <2> HIDE DEF out
  <2>4. CASE LineEnds(out, call.nl) /\ \E used : ReadReturns(Line(out, call.nl), used, FALSE)
    <3>1. call' = NoCall /\ ret'.val = Line(out, call.nl) /\ ret'.nl = call.nl
      BY <2>4 DEF ReadReturns
    <3>2. /\ Line(out, call.nl) \in Text /\ Len(Line(out, call.nl)) <= Len(call.text)
          /\ \A x \in 1..Len(Line(out, call.nl)) : Line(out, call.nl)[x] = call.text[x]
      BY <1>1, <2>2, <2>4, LineIsHead
    <3>3. NoNewline(Line(out, call.nl), call.nl)
      BY <1>1, <2>1, <3>2, HeadHasNone
    <3> QED
      BY <3>1, <3>3 DEF LineOpen, LineReturned, NoNewline, NoCall, Newline
  <2>5. CASE /\ ~LineEnds(out, call.nl) /\ ret' = NoRet
             /\ \E used : call' = [call EXCEPT !.text = out, !.used = used]
    <3>1. NoNewline(out, call.nl)
      BY <1>1, <2>1, <2>2, <2>5, ByteAdded
    <3>2. call'.text = out /\ call'.nl = call.nl /\ call'.n = 1
      BY <1>1, <2>1, <2>5 DEF TypeOK, CallRec
    <3> QED
      BY <2>5, <3>1, <3>2 DEF LineOpen, LineReturned, NoNewline, NoRet, Newline
  <2> QED
    BY <2>3, <2>4, <2>5
<1> QED
  BY <1>2, <1>3

(* The end of the file, EAGAIN and EINTR: what was read is the line. *)
LEMMA LineStops ==
  ASSUME IndInv, LineOpen, ReadEnd \/ ReadInterrupted
  PROVE  LineOpen' /\ LineReturned'
<1>1. PICK eof : ReadReturns(call.text, call.used, eof)
  BY DEF ReadEnd, ReadInterrupted
<1>2. call' = NoCall /\ ret'.val = call.text /\ ret'.nl = call.nl /\ ret'.op = call.op
  BY <1>1 DEF ReadReturns
<1> QED
  BY <1>2 DEF LineOpen, LineReturned, NoCall, Newline

(* Every other step leaves the line alone, begins one, or returns no line. *)
LEMMA LineElsewhere ==
  ASSUME IndInv, [Next]_vars, ~ReadData, ~ReadEnd, ~ReadInterrupted
  PROVE  /\ \/ call' = call
            \/ call'.op # "readln"
            \/ call'.op = "readln" /\ call'.n = 1 /\ call'.text = <<>>
         /\ ret' = ret \/ ret'.op # "readln" \/ ret'.kind = "throw"
<1>0. /\ NoCall.op = "none" /\ NoRet.op = "none" /\ NoCall \in CallRec /\ call \in CallRec
      /\ NoCall.text = <<>>
  BY Constants DEF NoCall, NoRet, IndInv, TypeOK
<1>1. ASSUME NEW o \in Objs, OpenOrClose(o) PROVE call' = call /\ ret'.op # "readln"
  BY <1>0, <1>1 DEF OpenOrClose, Construct, Open, OpenThrows, Close, Finalize, NoResult
<1>2. ASSUME NEW o \in Objs, Method(o)
      PROVE  /\ \/ call' = call
                \/ call'.op # "readln"
                \/ call'.op = "readln" /\ call'.n = 1 /\ call'.text = <<>>
             /\ ret' = NoRet
  <2>1. ret' = NoRet
    BY <1>2 DEF Method, Begin, Read, ReadAll, ReadLn, Write, WriteLn, Seek, Lock, Unlock, NoResult
  <2>2. \/ call' = call
        \/ call'.op # "readln"
        \/ call'.op = "readln" /\ call'.n = 1 /\ call'.text = <<>>
    <3>1. ASSUME NEW n \in Sizes, Read(o, n) PROVE call'.op # "readln"
      BY <3>1, <1>0 DEF Read, Begin, CallRec
    <3>2. ASSUME ReadAll(o) PROVE call'.op # "readln"
      BY <3>2, <1>0 DEF ReadAll, Begin, CallRec
    <3>3. ASSUME NEW nl \in Newlines, ReadLn(o, nl) PROVE call'.n = 1 /\ call'.text = <<>>
      BY <3>3, <1>0 DEF ReadLn, Begin, CallRec
    <3>4. ASSUME NEW t \in Texts, Write(o, t) PROVE call'.op # "readln"
      BY <3>4, <1>0 DEF Write, Begin, CallRec
    <3>5. ASSUME NEW t \in Texts, NEW nl \in Newlines, WriteLn(o, t, nl) PROVE call'.op # "readln"
      BY <3>5, <1>0 DEF WriteLn, Begin, CallRec
    <3>6. ASSUME NEW type \in {"s", "x"}, Lock(o, type) PROVE call'.op # "readln"
      BY <3>6, <1>0 DEF Lock, CallRec
    <3> QED
      BY <1>2, <3>1, <3>2, <3>3, <3>4, <3>5, <3>6 DEF Method, Seek, Unlock
  <2> QED
    BY <2>1, <2>2
<1>3. ASSUME NEW n \in 1..MaxSize, WriteData(n) PROVE call'.op # "readln" /\ ret' = NoRet
  BY <1>0, <1>3 DEF WriteData, Writing, NoResult, CallRec
<1>4. CASE WriteDone \/ WriteInterrupted
  BY <1>0, <1>4 DEF WriteDone, WriteInterrupted, Writing, Threw, NoRet
<1>5. CASE IoFails
  BY <1>0, <1>5 DEF IoFails, Threw, NoRet
<1>6. CASE Granted \/ LockInterrupted
  BY <1>0, <1>6 DEF Granted, LockInterrupted, NoResult
<1>7. CASE OtherProcess
  BY <1>0, <1>7 DEF OtherProcess, OtherAppends, OtherLocks, OtherUnlocks, NoResult
<1>8. CASE UNCHANGED vars
  BY <1>8 DEF vars
<1> QED
  BY <1>0, <1>1, <1>2, <1>3, <1>4, <1>5, <1>6, <1>7, <1>8 DEF Next, SystemCall

LEMMA LineInductive ==
  ASSUME IndInv, LineOpen, LineReturned, [Next]_vars
  PROVE  LineOpen' /\ LineReturned'
<1>1. CASE ReadData
  BY <1>1, LineReadStep
<1>2. CASE ReadEnd \/ ReadInterrupted
  BY <1>2, LineStops
<1>3. CASE ~ReadData /\ ~ReadEnd /\ ~ReadInterrupted
  <2>1. /\ \/ call' = call
           \/ call'.op # "readln"
           \/ call'.op = "readln" /\ call'.n = 1 /\ call'.text = <<>>
        /\ ret' = ret \/ ret'.op # "readln" \/ ret'.kind = "throw"
    BY <1>3, LineElsewhere
  <2>2. 1..Len(<<>>) = {}
    OBVIOUS
  <2>3. LineOpen'
    BY <2>1, <2>2 DEF LineOpen, Newline
  <2>4. LineReturned'
    BY <2>1 DEF LineReturned, Newline
  <2> QED
    BY <2>3, <2>4
<1> QED
  BY <1>1, <1>2, <1>3

(* readln() returns one line, for every newline setting, whatever the file *)
(* holds and the other process appends to it meanwhile: no newline is      *)
(* inside, also none of several bytes that was appended in parts.          *)
THEOREM ReadlnReturnsOneLine == Spec => []LineReturned
<1>1. Init => LineOpen /\ LineReturned
  BY Constants DEF Init, LineOpen, LineReturned
<1>2. IndInv /\ LineOpen /\ LineReturned /\ [Next]_vars => LineOpen' /\ LineReturned'
  BY LineInductive
<1> QED
  BY <1>1, <1>2, Invariance, PTL DEF Spec
=============================================================================
