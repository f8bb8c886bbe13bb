------------------------- MODULE ChildProcessProofs -------------------------
(***************************************************************************)
(* Lemmas about the actions of ChildProcess, for every value of its        *)
(* constants: each preserves the types and the invariant CPInv, and maps   *)
(* to a step of ProcessContract or to none.  SysProcessProofs and          *)
(* SysExecProofs put them together for the two owners of the class.        *)
(***************************************************************************)
EXTENDS ChildProcess, TLAPS

(* The flags a script object can have been constructed with. *)
LEMMA OptsAreOptions == opts \in OptionSet => opts \in Options
  BY ConstantsAssumption

(* A flag record has Boolean flags. *)
LEMMA OptionFields ==
  ASSUME NEW o \in Options
  PROVE  /\ o.redirect \in BOOLEAN /\ o.no_close \in BOOLEAN
         /\ \A s \in Stream : o.ignore[s] \in BOOLEAN
  BY DEF Options

(* Signalling keeps the types of the signal variables. *)
LEMMA SendTyped ==
  ASSUME CPTypeOK, NEW S \in SUBSET Signals, SendSignals(S)
  PROVE  sigs' \in SUBSET Signals /\ stale' \in BOOLEAN /\ sent' \in SUBSET Signals
  BY DEF CPTypeOK, SendSignals

(* WEXITSTATUS of a well typed status is an integer. *)
LEMMA ExitStatusTyped == CPTypeOK => WEXITSTATUS(status) \in Int
  BY DEF CPTypeOK, WEXITSTATUS

(* A status word made from its parts has the type of status. *)
LEMMA StatusTyped ==
  ASSUME NEW b \in BOOLEAN, NEW c \in Int
  PROVE  [sig |-> b, code |-> c] \in [sig : BOOLEAN, code : Int]
  OBVIOUS

(* The steps the object takes by itself preserve the types. *)
LEMMA TypeObject == CPTypeOK /\ ObjectStep => CPTypeOK'
<1> SUFFICES ASSUME CPTypeOK, ObjectStep PROVE CPTypeOK'
  OBVIOUS
<1> USE DEF CPTypeOK, objVars, ctlVars, osVars, histVars, Steps, Callers, Stream,
            Signals
<1>o. opts.no_close \in BOOLEAN
  BY OptsAreOptions, OptionFields
<1>1. CASE CheckTimeout
  <2>1. was_timeout' \in BOOLEAN
    BY <1>1 DEF CheckTimeout, Overdue
  <2>2. sigs' \in SUBSET Signals /\ stale' \in BOOLEAN /\ sent' \in SUBSET Signals
    <3>1. TimeoutSignals \in SUBSET Signals
      BY DEF TimeoutSignals
    <3>2. SendSignals(TimeoutSignals) \/ UNCHANGED <<sigs, stale, sent>>
      BY <1>1 DEF CheckTimeout
    <3> QED
      BY <3>1, <3>2, SendTyped
  <2> QED
    BY <1>1, <2>1, <2>2 DEF CheckTimeout
<1>2. CASE WriteNothing
  BY <1>2, <1>o DEF WriteNothing, AutoCloseStdin, StdinFrame
<1>3. CASE WriteStdin
  BY <1>3, <1>o, ConstantsAssumption DEF WriteStdin, Unsent, AutoCloseStdin, StdinFrame
<1>4. CASE WriteEpipe
  BY <1>4, <1>o DEF WriteEpipe, AutoCloseStdin, StdinFrame
<1>5. CASE WriteSigpipe
  BY <1>5 DEF WriteSigpipe, StdinFrame
<1>6. CASE Poll \/ PollForced
  <2>1. ready' \in SUBSET Stream
    BY <1>6 DEF Poll, PollForced
  <2>2. pc' = "rdout" /\ PollFrame
    BY <1>6 DEF Poll, PollForced
  <2> QED
    BY <2>1, <2>2 DEF PollFrame
<1>7. ASSUME NEW s \in Stream, ReadData(s) PROVE CPTypeOK'
  BY <1>7, ConstantsAssumption DEF ReadData, ReadFrame
<1>8. ASSUME NEW s \in Stream, ReadDone(s) PROVE CPTypeOK'
  BY <1>8 DEF ReadDone, ReadFrame, AfterRead
<1>9. CASE WaitPid
  <2>1. /\ exit_code' \in Int /\ pid' \in {-1, 1} /\ process_terminated' \in BOOLEAN
        /\ child' \in {"none", "alive", "zombie", "reaped"}
    <3>1. exit_code' \in {exit_code, WEXITSTATUS(status), 0}
      BY <1>9 DEF WaitPid, WaitReturnsPid, AfterReap
    <3>2. exit_code' \in Int
      BY <3>1, ExitStatusTyped
    <3>3. pid' \in {-1, 1} /\ process_terminated' \in BOOLEAN
      BY <1>9 DEF WaitPid, WaitReturnsPid, AfterReap
    <3>4. child' \in {"none", "alive", "zombie", "reaped"}
      BY <1>9 DEF WaitPid, WaitReturnsPid, AfterReap
    <3> QED
      BY <3>2, <3>3, <3>4
  <2> QED
    BY <1>9, <2>1 DEF WaitPid, WaitReturnsPid, AfterReap
<1>10. CASE ReapOrForce
  <2>1. sigs' \in SUBSET Signals /\ stale' \in BOOLEAN /\ sent' \in SUBSET Signals
    <3>1. {"KILL"} \in SUBSET Signals
      OBVIOUS
    <3>2. SendSignals({"KILL"}) \/ UNCHANGED <<sigs, stale, sent>>
      BY <1>10 DEF ReapOrForce
    <3> QED
      BY <3>1, <3>2, SendTyped
  <2> QED
    BY <1>10, <2>1 DEF ReapOrForce, ReapFrame
<1>11. CASE ReapBlocking
  BY <1>11 DEF ReapBlocking, WaitEnds, ReapFrame
<1> QED
  BY <1>1, <1>2, <1>3, <1>4, <1>5, <1>6, <1>7, <1>8, <1>9, <1>10, <1>11
     DEF ObjectStep

(* What an owner calls preserves the types: the constructor ... *)
LEMMA TypeRun ==
  ASSUME CPTypeOK, NEW t \in Int, NEW n \in Nat, Run(t, n) \/ RunFails(t, n)
  PROVE  CPTypeOK'
<1> USE DEF CPTypeOK, objVars, ctlVars, osVars, histVars, Steps, Callers, Stream,
            Signals, Holder
<1>o. opts.no_close \in BOOLEAN
  BY OptsAreOptions, OptionFields
<1>1. CASE Run(t, n)
  <2>1. fd' \in [Stream -> BOOLEAN] /\ ifd' \in BOOLEAN
    BY <1>1, <1>o DEF Run
  <2>2. holders' \in [Stream -> SUBSET Holder] /\ in_r' \in SUBSET Holder
    BY <1>1 DEF Run
  <2>3. stdin_data' \in Nat /\ timeout_ms' \in Int /\ owed' \in Int
    BY <1>1 DEF Run
  <2> QED
    BY <1>1, <2>1, <2>2, <2>3 DEF Run
<1>2. CASE RunFails(t, n)
  BY <1>2 DEF RunFails
<1> QED
  BY <1>1, <1>2

(* ... the begin of update() ... *)
LEMMA TypeBegin ==
  ASSUME CPTypeOK, NEW who \in {"update", "read"}, BeginUpdate(who),
         UNCHANGED <<objVars, ready, osVars, clock, histVars>>
  PROVE  CPTypeOK'
  BY DEF CPTypeOK, BeginUpdate, objVars, osVars, histVars, Steps, Callers

(* ... its end, after which the owner may move the collected text ... *)
LEMMA TypeReturn ==
  ASSUME CPTypeOK, UpdateReturns, data' \in [Stream -> Nat], taken' \in [Stream -> Nat]
  PROVE  CPTypeOK'
  BY DEF CPTypeOK, UpdateReturns, osVars, Steps, Callers

(* ... kill() and the destructor. *)
LEMMA TypeClose ==
  ASSUME CPTypeOK, NEW b \in BOOLEAN, Kill(b) \/ Destroy
  PROVE  CPTypeOK'
<1> USE DEF CPTypeOK, Steps, Callers, Stream, Signals, Holder, CloseHandles, SendSignals
<1>1. CASE Kill(b)
  BY <1>1, ZenonT(40) DEF Kill
<1>2. CASE Destroy
  BY <1>2, ZenonT(40) DEF Destroy
<1> QED
  BY <1>1, <1>2

(* So do the child, its heirs and the clock. *)
LEMMA TypeEnvironment == CPTypeOK /\ Environment => CPTypeOK'
<1> SUFFICES ASSUME CPTypeOK, Environment PROVE CPTypeOK'
  OBVIOUS
<1> USE DEF CPTypeOK, objVars, ctlVars, osVars, histVars, Stream, Signals, Holder,
            EnvFrame
<1>1. ASSUME NEW s \in Stream, ChildWrites(s) PROVE CPTypeOK'
  BY <1>1 DEF ChildWrites, Target, Got
<1>2. ASSUME NEW s \in Stream, HeirWrites(s) PROVE CPTypeOK'
  BY <1>2 DEF HeirWrites
<1>3. ASSUME NEW s \in Stream, ChildClosesOutput(s) PROVE CPTypeOK'
  BY <1>3 DEF ChildClosesOutput
<1>4. CASE ChildReads
  BY <1>4 DEF ChildReads
<1>5. CASE ChildClosesStdin
  BY <1>5 DEF ChildClosesStdin
<1>6. CASE ChildForks
  BY <1>6 DEF ChildForks, Inherit
<1>7. CASE HeirExits
  BY <1>7 DEF HeirExits
<1>8. ASSUME NEW st \in [sig : BOOLEAN, code : Int], ChildEnds(st) PROVE CPTypeOK'
  BY <1>8 DEF ChildEnds
<1>9. CASE ChildExits
  <2> PICK c \in ExitCodes : ChildEnds([sig |-> FALSE, code |-> c])
    BY <1>9 DEF ChildExits
  <2>1. c \in Int
    BY ConstantsAssumption
  <2> QED
    BY <1>8, <2>1, StatusTyped
<1>10. CASE ChildCrashes \/ SignalKills
  <2>1. ChildEnds([sig |-> TRUE, code |-> 0])
    BY <1>10 DEF ChildCrashes, SignalKills
  <2>2. [sig |-> TRUE, code |-> 0] \in [sig : BOOLEAN, code : Int]
    OBVIOUS
  <2> QED
    BY <1>8, <2>1, <2>2
<1>11. CASE SignalIgnored
  BY <1>11 DEF SignalIgnored
<1>12. CASE Tick
  BY <1>12 DEF Tick
<1> QED
  BY <1>1, <1>2, <1>3, <1>4, <1>5, <1>6, <1>7, <1>9, <1>10, <1>11, <1>12 DEF Environment

(* The members as constructed have their types. *)
LEMMA InitTyped == CPInit => CPTypeOK
<1>1. NoStatus \in [sig : BOOLEAN, code : Int]
  BY DEF NoStatus
<1> SUFFICES ASSUME CPInit PROVE CPTypeOK
  OBVIOUS
<1> USE DEF CPInit
<1>2. /\ fd \in [Stream -> BOOLEAN] /\ data \in [Stream -> Nat]
      /\ pipe \in [Stream -> Nat] /\ holders \in [Stream -> SUBSET Holder]
      /\ taken \in [Stream -> Nat] /\ mark \in [Stream -> Nat]
  OBVIOUS
<1>3. pc \in Steps /\ caller \in Callers
  BY DEF Steps, Callers
<1>4. /\ opts \in OptionSet /\ timeout_ms \in Int /\ pid \in {-1, 1} /\ exit_code \in Int
      /\ stdin_data \in Nat /\ in_pipe \in Nat /\ clock \in Nat /\ owed \in Int
  OBVIOUS
<1>5. /\ ifd \in BOOLEAN /\ was_timeout \in BOOLEAN /\ process_terminated \in BOOLEAN
      /\ torn \in BOOLEAN /\ stale \in BOOLEAN
  OBVIOUS
<1>6. /\ ready \in SUBSET Stream /\ sigs \in SUBSET Signals /\ sent \in SUBSET Signals
      /\ in_r \in SUBSET Holder /\ child \in {"none", "alive", "zombie", "reaped"}
  OBVIOUS
<1>7. status \in [sig : BOOLEAN, code : Int]
  BY <1>1
<1> QED
  BY <1>2, <1>3, <1>4, <1>5, <1>6, <1>7 DEF CPTypeOK

(* The object by itself preserves the invariant. *)
LEMMA SafeObject == CPInv /\ ObjectStep => Safe'
<1> SUFFICES ASSUME CPInv, ObjectStep PROVE Safe'
  OBVIOUS
<1> USE DEF CPInv, Safe, CPTypeOK, NotStarted, ChildState, Reaping, Draining, Drained,
            InFlight, NoPrematureClose, StdinConserved, StaleSignalOnlyInKill, Killing,
            TornDown, StatusKept, Escalated, Calling, Got, Piped,
            objVars, ctlVars, osVars, histVars, Stream, Holder
<1>1. CASE CheckTimeout
  <2>1. NotStarted' /\ ChildState' /\ Reaping' /\ Killing' /\ TornDown' /\ StatusKept' /\ Calling'
    BY <1>1 DEF CheckTimeout
  <2>2. Draining' /\ NoPrematureClose' /\ StdinConserved'
    BY <1>1 DEF CheckTimeout
  <2>3. StaleSignalOnlyInKill'
    BY <1>1 DEF CheckTimeout, Overdue, TimeoutSignals, SendSignals
  <2>4. Escalated'
    BY <1>1 DEF CheckTimeout, Overdue, TimeoutSignals, SendSignals
  <2> QED
    BY <2>1, <2>2, <2>3, <2>4
<1>2. CASE WriteNothing
  BY <1>2, ConstantsAssumption DEF WriteNothing, StdinFrame
<1>3. CASE WriteStdin
  BY <1>3, ConstantsAssumption DEF WriteStdin, Unsent, StdinFrame
<1>4. CASE WriteEpipe
  BY <1>4, ConstantsAssumption DEF WriteEpipe, StdinFrame
<1>5. CASE WriteSigpipe
  BY <1>5, ConstantsAssumption DEF WriteSigpipe, StdinFrame
<1>6. CASE Poll
  BY <1>6, ConstantsAssumption DEF Poll, PollFrame, Readable
<1>7. CASE PollForced
  BY <1>7, ConstantsAssumption DEF PollForced, PollFrame
<1>8. ASSUME NEW s \in Stream, ReadData(s) PROVE Safe'
  BY <1>8, ConstantsAssumption DEF ReadData, ReadFrame, StepOf
<1>9. ASSUME NEW s \in Stream, ReadDone(s) PROVE Safe'
  BY <1>9, ConstantsAssumption DEF ReadDone, AtEof, ReadFrame, StepOf, AfterRead
<1>10. CASE WaitPid
  <2>1. NotStarted' /\ ChildState' /\ Reaping' /\ Killing' /\ TornDown' /\ Calling'
    BY <1>10 DEF WaitPid, WaitReturnsPid, AfterReap
  <2>2. Draining' /\ NoPrematureClose' /\ StdinConserved'
    BY <1>10 DEF WaitPid, WaitReturnsPid, AfterReap
  <2>3. StaleSignalOnlyInKill' /\ Escalated'
    BY <1>10 DEF WaitPid, WaitReturnsPid, AfterReap
  <2>4. StatusKept'
    BY <1>10 DEF WaitPid, WaitReturnsPid, AfterReap, WEXITSTATUS
  <2> QED
    BY <2>1, <2>2, <2>3, <2>4
<1>11. CASE ReapOrForce
  BY <1>11, ConstantsAssumption DEF ReapOrForce, ReapFrame, SendSignals
<1>12. CASE ReapBlocking
  BY <1>12, ConstantsAssumption DEF ReapBlocking, WaitEnds, ReapFrame
<1> QED
  BY <1>1, <1>2, <1>3, <1>4, <1>5, <1>6, <1>7, <1>8, <1>9, <1>10, <1>11, <1>12 DEF ObjectStep

(* The constructor preserves it ... *)
LEMMA SafeRun ==
  ASSUME CPInv, NEW t \in Int, NEW n \in Nat, Run(t, n) \/ RunFails(t, n)
  PROVE  Safe'
<1> USE DEF CPInv, Safe, CPTypeOK, NotStarted, ChildState, Reaping, Draining, Drained,
            InFlight, NoPrematureClose, StdinConserved, StaleSignalOnlyInKill, Killing,
            TornDown, StatusKept, Escalated, Calling, Got, Piped,
            objVars, ctlVars, osVars, histVars, Stream, Holder
<1>1. CASE Run(t, n)
  <2>1. NotStarted' /\ ChildState' /\ Reaping' /\ StaleSignalOnlyInKill'
    BY <1>1 DEF Run
  <2>2. Draining'
    BY <1>1, ConstantsAssumption DEF Run
  <2>3. NoPrematureClose'
    BY <1>1 DEF Run
  <2>4. StdinConserved'
    BY <1>1 DEF Run
  <2>5. Killing' /\ TornDown' /\ StatusKept' /\ Escalated' /\ Calling'
    BY <1>1 DEF Run
  <2> QED
    BY <2>1, <2>2, <2>3, <2>4, <2>5
<1>2. CASE RunFails(t, n)
  <2>1. NotStarted'
    BY <1>2 DEF RunFails
  <2>2. ChildState' /\ Reaping' /\ StaleSignalOnlyInKill'
    BY <1>2 DEF RunFails
  <2>3. Draining'
    BY <1>2, ConstantsAssumption DEF RunFails
  <2>4. NoPrematureClose' /\ StdinConserved'
    BY <1>2 DEF RunFails
  <2>5. Killing' /\ TornDown' /\ StatusKept' /\ Escalated' /\ Calling'
    BY <1>2 DEF RunFails
  <2> QED
    BY <2>1, <2>2, <2>3, <2>4, <2>5
<1> QED
  BY <1>1, <1>2

(* ... so do the begin of update() ... *)
LEMMA SafeBegin ==
  ASSUME CPInv, NEW who \in {"update", "read"}, BeginUpdate(who),
         UNCHANGED <<objVars, ready, osVars, clock, histVars>>
  PROVE  Safe'
<1> USE DEF CPInv, Safe, CPTypeOK, NotStarted, ChildState, Reaping, Draining, Drained,
            InFlight, NoPrematureClose, StdinConserved, StaleSignalOnlyInKill, Killing,
            TornDown, StatusKept, Escalated, Calling, Got, Piped,
            objVars, ctlVars, osVars, histVars, Stream, Holder
<1> QED
  BY ConstantsAssumption DEF BeginUpdate

(* ... its end, when the text moved is neither lost nor duplicated ... *)
LEMMA SafeReturn ==
  ASSUME CPInv, UpdateReturns, data' \in [Stream -> Nat], taken' \in [Stream -> Nat],
         \A s \in Stream : Got(s)' = Got(s)
  PROVE  Safe'
<1> USE DEF CPInv, Safe, CPTypeOK, NotStarted, ChildState, Reaping, Draining, Drained,
            InFlight, NoPrematureClose, StdinConserved, StaleSignalOnlyInKill, Killing,
            TornDown, StatusKept, Escalated, Calling, Got, Piped,
            objVars, ctlVars, osVars, histVars, Stream, Holder
<1> QED
  BY ConstantsAssumption DEF UpdateReturns

(* ... kill() and the destructor. *)
LEMMA SafeClose ==
  ASSUME CPInv, NEW b \in BOOLEAN,
         Kill(b) \/ (Destroy /\ pc \in {"idle", "return"} /\ caller \notin {"kill", "kill9"})
  PROVE  Safe'
<1> USE DEF CPInv, Safe, CPTypeOK, NotStarted, ChildState, Reaping, Draining, Drained,
            InFlight, NoPrematureClose, StdinConserved, StaleSignalOnlyInKill, Killing,
            TornDown, StatusKept, Escalated, Calling, Got, Piped,
            objVars, ctlVars, osVars, histVars, Stream, Holder
<1>1. CASE Kill(b)
  BY <1>1, ConstantsAssumption DEF Kill, CanKill, CloseHandles, SendSignals
<1>2. CASE Destroy /\ pc \in {"idle", "return"} /\ caller \notin {"kill", "kill9"}
  BY <1>2, ConstantsAssumption DEF Destroy, CloseHandles, SendSignals
<1> QED
  BY <1>1, <1>2

(* So do the child, its heirs and the clock. *)
LEMMA SafeEnvironment == CPInv /\ (Environment) => Safe'
<1> SUFFICES ASSUME CPInv, Environment PROVE Safe'
  OBVIOUS
<1> USE DEF CPInv, Safe, CPTypeOK, NotStarted, ChildState, Reaping, Draining, Drained,
            InFlight, NoPrematureClose, StdinConserved, StaleSignalOnlyInKill, Killing,
            TornDown, StatusKept, Escalated, Calling, Got, Piped,
            objVars, ctlVars, osVars, histVars, Stream, Holder, EnvFrame
<1>1. ASSUME NEW s \in Stream, ChildWrites(s) PROVE Safe'
  BY <1>1, ConstantsAssumption DEF ChildWrites, Target, CanWrite
<1>2. ASSUME NEW s \in Stream, HeirWrites(s) PROVE Safe'
  BY <1>2, ConstantsAssumption DEF HeirWrites, CanWrite
<1>3. ASSUME NEW s \in Stream, ChildClosesOutput(s) PROVE Safe'
  BY <1>3, ConstantsAssumption DEF ChildClosesOutput
<1>4. CASE ChildReads
  BY <1>4, ConstantsAssumption DEF ChildReads
<1>5. CASE ChildClosesStdin
  BY <1>5, ConstantsAssumption DEF ChildClosesStdin
<1>6. CASE ChildForks
  BY <1>6, ConstantsAssumption DEF ChildForks, Inherit
<1>7. CASE HeirExits
  BY <1>7, ConstantsAssumption DEF HeirExits
<1>8. ASSUME NEW st, ChildEnds(st) PROVE Safe'
  BY <1>8, ConstantsAssumption DEF ChildEnds
<1>9. CASE SignalIgnored
  BY <1>9, ConstantsAssumption DEF SignalIgnored
<1>10. CASE Tick
  BY <1>10, ConstantsAssumption DEF Tick
<1> QED
  BY <1>1, <1>2, <1>3, <1>4, <1>5, <1>6, <1>7, <1>8, <1>9, <1>10 DEF Environment, ChildExits, ChildCrashes, SignalKills

(* The members as constructed satisfy the invariant. *)
LEMMA InitSafe == CPInit => Safe
  BY ConstantsAssumption
     DEF CPInit, Safe, NotStarted, ChildState, Reaping, Draining, Drained, InFlight,
         NoPrematureClose, StdinConserved, StaleSignalOnlyInKill, Killing,
         TornDown, StatusKept, Escalated, Calling, Got, Stream

(* A step that leaves the object alone preserves it. *)
LEMMA SafeStutter == CPInv /\ UNCHANGED cpVars => CPInv'
  BY DEF CPInv, CPTypeOK, Safe, NotStarted, ChildState, Reaping, Draining, Drained,
         InFlight, NoPrematureClose, StdinConserved, StaleSignalOnlyInKill, Killing,
         TornDown, StatusKept, Escalated, Calling, Got, Piped, cpVars,
         objVars, ctlVars, osVars, histVars
-----------------------------------------------------------------------------
(* The contract *)

(* A constructed object is a new one of the contract. *)
LEMMA ContractInit == CPInit => Contract!Init
  BY DEF CPInit, Contract!Init, Life, Unread, Verdict, NoStatus, Stream, Got

(* Nothing an owner can tell apart has changed. *)
LEMMA ContractStutter ==
  ASSUME UNCHANGED <<child, status, mark, was_timeout, torn>>,
         Life' = Life, Verdict' = Verdict,
         \A s \in Stream : Got(s)' = Got(s)
  PROVE  UNCHANGED Contract!contractVars
<1>1. Unread' = Unread
  BY DEF Unread
<1> QED
  BY <1>1 DEF Contract!contractVars

(* The steps the object takes by itself map to Expire, Deliver, Reap,      *)
(* Finish and Closed, or to none.                                          *)
LEMMA ContractObject ==
  ASSUME CPInv, ObjectStep PROVE [Contract!Next]_(Contract!contractVars)
<1> USE DEF CPInv, Safe, CPTypeOK, Got, objVars, ctlVars, osVars, histVars
<1>1. CASE CheckTimeout
  <2>0. UNCHANGED <<child, status, mark, torn, data, taken, exit_code, process_terminated,
                    caller>> /\ pc = "timeout" /\ pc' = "stdin"
    BY <1>1 DEF CheckTimeout
  <2>1. Unread' = Unread
    BY <2>0 DEF Unread
  <2>2. caller # "dtor"
    BY <2>0 DEF Calling
  <2>3. Life' = Life
    BY <2>0, <2>2 DEF Life
  <2>4. CASE Overdue
    <3>0. was_timeout' = (was_timeout \/ Overdue)
      BY <1>1 DEF CheckTimeout
    <3>1. ~process_terminated /\ was_timeout' = TRUE
      <4>1. was_timeout' = TRUE
        BY <2>4, <3>0, Zenon
      <4>2. pid > 0
        BY <2>4 DEF Overdue
      <4> QED
        BY <4>1, <4>2 DEF Killing
    <3>2. Life = "running" /\ Verdict' = Verdict
      BY <2>0, <2>2, <3>1 DEF Life, Verdict
    <3> QED
      BY <2>0, <2>1, <2>3, <3>1, <3>2 DEF Contract!Next, Contract!Expire
  <2>5. CASE ~Overdue
    <3>1. was_timeout' = was_timeout
      BY <1>1, <2>5 DEF CheckTimeout
    <3>2. Verdict' = Verdict
      BY <2>0, <3>1 DEF Verdict, ExitCode
    <3> QED
      BY <2>0, <2>1, <2>3, <3>1, <3>2 DEF Contract!contractVars
  <2> QED
    BY <2>4, <2>5
<1>2. CASE WriteNothing \/ WriteStdin \/ WriteEpipe \/ WriteSigpipe
  <2>1. /\ UNCHANGED <<child, status, mark, was_timeout, torn, data, taken, exit_code,
                       process_terminated, caller>>
        /\ pc = "stdin" /\ pc' \in {"poll", "sigpipe"}
    BY <1>2 DEF WriteNothing, WriteStdin, WriteEpipe, WriteSigpipe, StdinFrame
  <2>2. Life' = Life /\ Verdict' = Verdict
    BY <2>1 DEF Life, Verdict, ExitCode
  <2> QED
    BY <2>1, <2>2, ContractStutter
<1>3. CASE Poll \/ PollForced
  <2>1. /\ UNCHANGED <<child, status, mark, was_timeout, torn, data, taken, exit_code,
                       process_terminated, caller>>
        /\ pc = "poll" /\ pc' = "rdout"
    BY <1>3 DEF Poll, PollForced, PollFrame
  <2>2. Life' = Life /\ Verdict' = Verdict
    BY <2>1 DEF Life, Verdict, ExitCode
  <2> QED
    BY <2>1, <2>2, ContractStutter
<1>4. ASSUME NEW s \in Stream, ReadData(s) PROVE [Contract!Next]_(Contract!contractVars)
  <2>1. /\ UNCHANGED <<pc, child, status, mark, was_timeout, torn, taken, exit_code,
                       process_terminated, caller>>
        /\ pc \in {"rdout", "rderr"} /\ fd[s]
    BY <1>4 DEF ReadData, ReadFrame, StepOf
  <2>2. Life' = Life /\ Verdict' = Verdict
    BY <2>1 DEF Life, Verdict, ExitCode
  <2>3. ~torn /\ caller # "dtor"
    BY <2>1 DEF TornDown, Calling
  <2>4. \A t \in Stream \ {s} : data'[t] = data[t]
    BY <1>4 DEF ReadData
  <2>5. data'[s] \in Nat /\ data'[s] >= data[s]
    BY <1>4, ConstantsAssumption DEF ReadData
  <2>6. Unread \in [Stream -> Nat] /\ Unread' \in [Stream -> Nat]
    <3>1. \A t \in Stream : data'[t] \in Nat
      BY <2>4, <2>5
    <3> QED
      BY <2>1, <3>1 DEF Unread
  <2>7. \A t \in Stream \ {s} : Unread'[t] = Unread[t]
    BY <2>1, <2>4 DEF Unread
  <2>8. Unread'[s] <= Unread[s]
    BY <2>1, <2>5 DEF Unread
  <2>9. CASE Unread'[s] = Unread[s]
    <3>1. Unread' = Unread
      BY <2>6, <2>7, <2>9
    <3> QED
      BY <2>1, <2>2, <3>1 DEF Contract!contractVars
  <2>10. CASE Unread'[s] < Unread[s]
    <3>1. Unread[s] > 0
      BY <2>6, <2>10
    <3>2. ~Drained(s)
      BY <3>1 DEF Unread, Drained
    <3>3. ~process_terminated
      BY <2>3, <3>2 DEF Draining
    <3>4. Life = "running"
      BY <2>1, <2>3, <3>3 DEF Life
    <3>5. Contract!Deliver(s)
      BY <2>1, <2>2, <2>3, <2>6, <2>7, <2>10, <3>4 DEF Contract!Deliver
    <3> QED
      BY <3>5 DEF Contract!Next
  <2> QED
    BY <2>6, <2>8, <2>9, <2>10
<1>5. ASSUME NEW s \in Stream, ReadDone(s) PROVE [Contract!Next]_(Contract!contractVars)
  <2>1. /\ UNCHANGED <<child, status, mark, was_timeout, torn, data, taken, exit_code,
                       process_terminated, caller>>
        /\ pc \in {"rdout", "rderr"} /\ pc' \in {"rderr", "wait"}
    BY <1>5 DEF ReadDone, ReadFrame, StepOf, AfterRead
  <2>2. Life' = Life /\ Verdict' = Verdict
    BY <2>1 DEF Life, Verdict, ExitCode
  <2> QED
    BY <2>1, <2>2, ContractStutter
<1>6. CASE WaitPid
  <2>0. /\ UNCHANGED <<status, mark, was_timeout, torn, data, taken, caller>>
        /\ pc = "wait" /\ pc' = "return"
    BY <1>6 DEF WaitPid
  <2>1. Unread' = Unread
    BY <2>0 DEF Unread
  <2>2. caller # "dtor"
    BY <2>0 DEF Calling
  <2>3. CASE pid < 0
    <3>1. process_terminated' = TRUE /\ UNCHANGED <<exit_code, child>> /\ child = "reaped"
      BY <1>6, <2>0, <2>3 DEF WaitPid, ChildState
    <3>2. CASE process_terminated
      <4>1. Life' = Life /\ Verdict' = Verdict
        BY <2>0, <3>1, <3>2 DEF Life, Verdict, ExitCode
      <4> QED
        BY <2>0, <2>1, <3>1, <4>1 DEF Contract!contractVars
    <3>3. CASE ~process_terminated
      <4>1. Life = "running" /\ Life' = "finished"
        BY <2>0, <2>2, <3>1, <3>3 DEF Life
      <4>2. Verdict' = IF was_timeout THEN -1 ELSE exit_code
        BY <2>0, <3>1 DEF Verdict, ExitCode
      <4>3. torn \/ \A s \in Stream : Unread[s] = 0
        BY <2>0, <2>3 DEF Draining, Drained, Unread
      <4>4. torn => exit_code = -1
        BY <2>0, <2>2, <2>3, <3>3 DEF Calling, Killing
      <4>5. ~torn /\ ~status.sig => exit_code = status.code
        BY <2>3, <3>1 DEF StatusKept
      <4>6. Verdict' \in Int
        BY <4>2
      <4>7. Contract!Finish
        BY <2>0, <2>1, <3>1, <4>1, <4>2, <4>3, <4>4, <4>5, <4>6 DEF Contract!Finish
      <4> QED
        BY <4>7 DEF Contract!Next
    <3> QED
      BY <3>2, <3>3
  <2>4. CASE pid > 0
    <3>1. ~process_terminated /\ ~process_terminated'
      BY <1>6, <2>4 DEF WaitPid, WaitReturnsPid, AfterReap, Killing
    <3>2. Life = "running" /\ Life' = "running" /\ Verdict' = Verdict
      BY <2>0, <2>2, <3>1 DEF Life, Verdict
    <3>3. child' = child \/ (child = "zombie" /\ child' = "reaped")
      BY <1>6, <2>4 DEF WaitPid, WaitReturnsPid
    <3>4. CASE child' = child
      BY <2>0, <2>1, <3>2, <3>4 DEF Contract!contractVars
    <3>5. CASE child = "zombie" /\ child' = "reaped"
      BY <2>0, <2>1, <3>2, <3>5 DEF Contract!Next, Contract!Reap
    <3> QED
      BY <3>3, <3>4, <3>5
  <2> QED
    BY <2>3, <2>4
<1>7. CASE ReapOrForce
  <2>0. /\ UNCHANGED <<status, mark, was_timeout, torn, data, taken, exit_code, caller,
                       process_terminated>>
        /\ pc = "reap1" /\ pc' = "reap2"
        /\ child' = child \/ (child = "zombie" /\ child' = "reaped")
    BY <1>7 DEF ReapOrForce, ReapFrame
  <2>1. Unread' = Unread
    BY <2>0 DEF Unread
  <2>2. ~process_terminated
    BY <2>0 DEF Killing
  <2>3. Life \in {"running", "closing"} /\ Life' = Life /\ Verdict' = Verdict
    BY <2>0, <2>2 DEF Life, Verdict, ExitCode
  <2> QED
    BY <2>0, <2>1, <2>3 DEF Contract!Next, Contract!Reap, Contract!contractVars
<1>8. CASE ReapBlocking
  <2>0. /\ UNCHANGED <<status, mark, was_timeout, torn, data, taken, exit_code, caller,
                       process_terminated>>
        /\ pc = "reap2" /\ pc' = (IF caller = "dtor" THEN "gone" ELSE "timeout")
        /\ child \in {"zombie", "reaped"} /\ child' = "reaped"
    BY <1>8 DEF ReapBlocking, ReapFrame, WaitEnds
  <2>1. Unread' = Unread
    BY <2>0 DEF Unread
  <2>2. ~process_terminated
    BY <2>0 DEF Killing
  <2>3. Verdict' = Verdict
    BY <2>0 DEF Verdict, ExitCode
  <2>4. CASE caller = "dtor"
    <3>1. Life = "closing" /\ Life' = "gone"
      BY <2>0, <2>4 DEF Life
    <3> QED
      BY <2>0, <2>1, <2>3, <3>1 DEF Contract!Next, Contract!Closed
  <2>5. CASE caller # "dtor"
    <3>1. Life = "running" /\ Life' = "running"
      BY <2>0, <2>2, <2>5 DEF Life
    <3> QED
      BY <2>0, <2>1, <2>3, <3>1 DEF Contract!Next, Contract!Reap, Contract!contractVars
  <2> QED
    BY <2>4, <2>5
<1> QED
  BY <1>1, <1>2, <1>3, <1>4, <1>5, <1>6, <1>7, <1>8 DEF ObjectStep
(* The constructor maps to Start or Refuse. *)
LEMMA ContractRun ==
  ASSUME CPInv, NEW t \in Int, NEW n \in Nat, Run(t, n) \/ RunFails(t, n)
  PROVE  Contract!Next
<1>0. /\ UNCHANGED <<status, mark, was_timeout, torn, data, taken, exit_code, caller>>
      /\ pc = "new"
  BY DEF Run, RunFails, osVars, histVars
<1>1. Life = "new" /\ child = "none" /\ caller = "none" /\ exit_code = -1
  BY <1>0 DEF CPInv, Safe, Life, NotStarted, Calling
<1>2. Unread' = Unread
  BY <1>0 DEF Unread, Got
<1>3. Verdict' = Verdict
  BY <1>0, <1>1 DEF Verdict, ExitCode
<1>4. CASE Run(t, n)
  <2>1. Life' = "running" /\ child' = "alive"
    BY <1>0, <1>1, <1>4 DEF Run, Life
  <2> QED
    BY <1>0, <1>1, <1>2, <1>3, <2>1 DEF Contract!Next, Contract!Start
<1>5. CASE RunFails(t, n)
  <2>1. Life' = "failed" /\ child' = child
    BY <1>5 DEF RunFails, Life, osVars
  <2> QED
    BY <1>0, <1>1, <1>2, <1>3, <2>1 DEF Contract!Next, Contract!Refuse
<1> QED
  BY <1>4, <1>5

(* The begin of update() is not visible ... *)
LEMMA ContractBegin ==
  ASSUME CPInv, NEW who \in {"update", "read"}, BeginUpdate(who),
         UNCHANGED <<child, status, mark, was_timeout, torn, exit_code, process_terminated>>,
         \A s \in Stream : Got(s)' = Got(s)
  PROVE  UNCHANGED Contract!contractVars
<1>1. Life' = Life
  BY DEF CPInv, Safe, Calling, BeginUpdate, Life
<1>2. Verdict' = Verdict
  BY DEF Verdict, ExitCode
<1> QED
  BY <1>1, <1>2, ContractStutter

(* ... and neither is its end. *)
LEMMA ContractReturn ==
  ASSUME CPInv, UpdateReturns, \A s \in Stream : Got(s)' = Got(s)
  PROVE  UNCHANGED Contract!contractVars
<1>0. UNCHANGED <<child, status, mark, was_timeout, torn, process_terminated>>
  BY DEF UpdateReturns, osVars
<1>1. Life' = Life
  BY <1>0 DEF CPInv, Safe, Calling, UpdateReturns, Life
<1>2. process_terminated => exit_code' = exit_code
  BY DEF CPInv, Safe, Killing, UpdateReturns
<1>3. Verdict' = Verdict
  BY <1>0, <1>2 DEF Verdict, ExitCode
<1> QED
  BY <1>0, <1>1, <1>3, ContractStutter

(* kill() maps to Cancel, the destructor to Close. *)
LEMMA ContractClose ==
  ASSUME CPInv, NEW b \in BOOLEAN, Kill(b) \/ (Destroy /\ pc \in {"idle", "return"})
  PROVE  Contract!Next
<1>0. /\ UNCHANGED <<child, status, mark, was_timeout, data, taken, exit_code,
                     process_terminated>>
      /\ pc \in {"idle", "return"} /\ torn' = TRUE
  BY DEF Kill, Destroy, CloseHandles
<1>1. Unread' = Unread
  BY <1>0 DEF Unread, Got
<1>2. Verdict' = Verdict
  BY <1>0 DEF Verdict, ExitCode
<1>3. Life \in {"running", "finished"}
  BY <1>0 DEF CPInv, Safe, Calling, Life
<1>4. CASE Kill(b)
  <2>1. ~process_terminated
    BY <1>4 DEF CPInv, Safe, Killing, CPTypeOK, Kill, CanKill
  <2>2. Life = "running" /\ Life' = "running"
    BY <1>0, <1>3, <1>4, <2>1 DEF Kill, Life
  <2> QED
    BY <1>0, <1>1, <1>2, <2>2 DEF Contract!Next, Contract!Cancel
<1>5. CASE Destroy
  <2>1. CASE pid > 0
    <3>1. Life' = "closing"
      BY <1>5, <2>1 DEF Destroy, Life
    <3> QED
      BY <1>0, <1>1, <1>2, <1>3, <3>1 DEF Contract!Next, Contract!Close
  <2>2. CASE pid < 0
    <3>1. Life' = "gone" /\ child = "reaped"
      BY <1>0, <1>5, <2>2 DEF Destroy, Life, CPInv, Safe, ChildState, CPTypeOK
    <3> QED
      BY <1>0, <1>1, <1>2, <1>3, <3>1 DEF Contract!Next, Contract!Close
  <2> QED
    BY <2>1, <2>2 DEF CPInv, CPTypeOK
<1> QED
  BY <1>0, <1>4, <1>5

(* The environment maps to Produce and End. *)
LEMMA ContractEnvironment ==
  ASSUME CPInv, Environment PROVE [Contract!Next]_(Contract!contractVars)
<1>v. ASSUME EnvFrame \/ Tick PROVE Life' = Life /\ Verdict' = Verdict
  <2>1. UNCHANGED <<pc, caller, process_terminated, was_timeout, exit_code>>
    BY <1>v DEF EnvFrame, Tick, objVars, ctlVars
  <2> QED
    BY <2>1 DEF Life, Verdict, ExitCode
<1>1. ASSUME NEW s \in Stream, ChildWrites(s) PROVE [Contract!Next]_(Contract!contractVars)
  <2> DEFINE t == Target(s)
  <2>0. /\ UNCHANGED <<child, status, was_timeout, torn, data, taken>>
        /\ child = "alive" /\ EnvFrame /\ fd[t]
        /\ mark' = [mark EXCEPT ![t] = IF Got(t) + pipe[t] < MaxOut
                                       THEN Got(t) + pipe[t] + 1 ELSE @]
    BY <1>1 DEF ChildWrites, CanWrite, EnvFrame, objVars
  <2>1. t \in Stream
    BY DEF Target, Stream
  <2> HIDE DEF t
  <2>2. Life' = Life /\ Verdict' = Verdict
    BY <1>v, <2>0
  <2>3. mark[t] <= Got(t) + pipe[t]
    BY <2>0, <2>1 DEF CPInv, Safe, TornDown, Draining, InFlight
  <2>4. CASE ~(Got(t) + pipe[t] < MaxOut)
    <3>1. mark' = mark
      BY <2>0, <2>4 DEF CPInv, CPTypeOK
    <3> QED
      BY <2>0, <2>2, <3>1, ContractStutter DEF Got
  <2>5. CASE Got(t) + pipe[t] < MaxOut
    <3>1. Unread \in [Stream -> Nat]
      BY DEF Unread, Got, CPInv, CPTypeOK
    <3>2. Unread'[t] = pipe[t] + 1 /\ pipe[t] \in Nat
      BY <2>0, <2>1, <2>5 DEF Unread, Got, CPInv, CPTypeOK
    <3>3. Unread[t] <= pipe[t]
      BY <2>1, <2>3 DEF Unread, Got, CPInv, CPTypeOK
    <3>4. \A r \in Stream \ {t} : Unread'[r] = Unread[r]
      BY <2>0 DEF Unread, Got, CPInv, CPTypeOK
    <3>5. Unread'[t] \in Nat /\ Unread'[t] > Unread[t]
      BY <2>1, <3>1, <3>2, <3>3
    <3>6. Contract!Produce(t)
      BY <2>0, <2>2, <3>4, <3>5 DEF Contract!Produce
    <3> QED
      BY <2>1, <3>6 DEF Contract!Next
  <2> QED
    BY <2>4, <2>5
<1>2. ASSUME NEW st \in [sig : BOOLEAN, code : Int], ChildEnds(st)
      PROVE [Contract!Next]_(Contract!contractVars)
  <2>0. /\ UNCHANGED <<mark, was_timeout, torn, data, taken>> /\ EnvFrame
        /\ child = "alive" /\ child' = "zombie" /\ status' = st
    BY <1>2 DEF ChildEnds, EnvFrame, objVars
  <2>1. Life' = Life /\ Verdict' = Verdict
    BY <1>v, <2>0
  <2>2. Unread' = Unread
    BY <2>0 DEF Unread, Got
  <2> QED
    BY <2>0, <2>1, <2>2 DEF Contract!Next, Contract!End
<1>3. CASE ChildExits \/ ChildCrashes \/ SignalKills
  <2>1. CASE ChildExits
    <3> PICK c \in ExitCodes : ChildEnds([sig |-> FALSE, code |-> c])
      BY <2>1 DEF ChildExits
    <3>1. c \in Int
      BY ConstantsAssumption
    <3> QED
      BY <1>2, <3>1, StatusTyped
  <2>2. CASE ChildCrashes \/ SignalKills
    <3>1. ChildEnds([sig |-> TRUE, code |-> 0])
      BY <2>2 DEF ChildCrashes, SignalKills
    <3>2. [sig |-> TRUE, code |-> 0] \in [sig : BOOLEAN, code : Int]
      OBVIOUS
    <3> QED
      BY <1>2, <3>1, <3>2
  <2> QED
    BY <1>3, <2>1, <2>2
<1>4. ASSUME NEW s \in Stream, HeirWrites(s) \/ ChildClosesOutput(s)
      PROVE [Contract!Next]_(Contract!contractVars)
  <2>1. UNCHANGED <<child, status, mark, was_timeout, torn, data, taken>> /\ EnvFrame
    BY <1>4 DEF HeirWrites, ChildClosesOutput, EnvFrame, objVars
  <2> QED
    BY <1>v, <2>1, ContractStutter DEF Got
<1>5. CASE ChildReads \/ ChildClosesStdin \/ ChildForks \/ HeirExits \/ SignalIgnored
  <2>1. UNCHANGED <<child, status, mark, was_timeout, torn, data, taken>> /\ EnvFrame
    BY <1>5 DEF ChildReads, ChildClosesStdin, ChildForks, HeirExits, SignalIgnored,
                EnvFrame, objVars
  <2> QED
    BY <1>v, <2>1, ContractStutter DEF Got
<1>6. CASE Tick
  <2>1. UNCHANGED <<child, status, mark, was_timeout, torn, data, taken>>
    BY <1>6 DEF Tick, objVars, osVars, histVars
  <2> QED
    BY <1>v, <1>6, <2>1, ContractStutter DEF Got
<1> QED
  BY <1>1, <1>3, <1>4, <1>5, <1>6 DEF Environment
=============================================================================
