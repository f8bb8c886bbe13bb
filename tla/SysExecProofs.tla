--------------------------- MODULE SysExecProofs ---------------------------
(***************************************************************************)
(* Proofs about SysExec, for every value of its constants: any options,    *)
(* timeouts and callbacks, any child.                                      *)
(***************************************************************************)
EXTENDS SysExec, ChildProcessProofs

(* The arguments of the constructor are typed. *)
LEMMA StartArguments ==
  ASSUME call \in Calls
  PROVE  call.timeout \in Int /\ call.stdin \in Nat
  BY ExecAssumption DEF CallRecords

(* Moving the text after update() loses and duplicates nothing. *)
LEMMA CollectMoves ==
  ASSUME CPTypeOK, Collect
  PROVE  /\ UpdateReturns
         /\ data' \in [Stream -> Nat] /\ taken' \in [Stream -> Nat]
         /\ \A s \in Stream : Got(s)' = Got(s)
<1>1. CASE call.fn = "exec"
  <2>1. /\ taken' = [s \in Stream |-> taken[s] + data[s]]
        /\ data' = [s \in Stream |-> 0]
    BY <1>1 DEF Collect
  <2>2. \A s \in Stream : data[s] \in Nat /\ taken[s] \in Nat
    BY DEF CPTypeOK
  <2>3. \A s \in Stream : Got(s)' = Got(s)
    BY <2>1, <2>2 DEF Got
  <2> QED
    BY <2>1, <2>2, <2>3 DEF Collect
<1>2. CASE call.fn # "exec"
  BY <1>2 DEF Collect, CPTypeOK, Got
<1> QED
  BY <1>1, <1>2

(* The destructor is entered from outside of kill(). *)
LEMMA DestroyedFrom ==
  ASSUME CPInv, OnlyDestroyed, CallbackThrows \/ Finish \/ FlushThrows
  PROVE  Destroy /\ pc \in {"idle", "return"} /\ caller \notin {"kill", "kill9"}
  BY DEF OnlyDestroyed, CallbackThrows, Finish, FlushThrows

(* Every step of the call keeps the invariant of the object. *)
LEMMA ObjectKept ==
  ASSUME CPInv, call \in Calls, OnlyDestroyed, [Next]_execVars
  PROVE  CPInv'
<1> USE DEF CPInv
<1>1. CASE ImportFails
  <2> USE DEF CPTypeOK, Steps, objVars, ctlVars, osVars, histVars
  <2>1. CPTypeOK'
    BY <1>1 DEF ImportFails
  <2>2. Safe'
    BY <1>1, ConstantsAssumption
       DEF ImportFails, Safe, NotStarted, ChildState, Reaping, Draining,
           Drained, InFlight, NoPrematureClose, StdinConserved, StaleSignalOnlyInKill,
           Killing, TornDown, StatusKept, Escalated, Calling, Got, Piped, Stream
  <2> QED
    BY <2>1, <2>2
<1>2. CASE Start
  <2>s. Run(call.timeout, call.stdin) \/ RunFails(call.timeout, call.stdin)
    BY <1>2 DEF Start
  <2> QED
    BY <2>s, StartArguments, TypeRun, SafeRun
<1>3. CASE LoopUpdate
  BY <1>3, TypeBegin, SafeBegin DEF LoopUpdate
<1>4. CASE Collect
  BY <1>4, CollectMoves, TypeReturn, SafeReturn
<1>5. CASE CallbackThrows \/ Finish \/ FlushThrows
  <2>1. Destroy /\ pc \in {"idle", "return"} /\ caller \notin {"kill", "kill9"}
    BY <1>5, DestroyedFrom
  <2> QED
    BY <2>1, TypeClose, SafeClose
<1>6. CASE ObjStep
  BY <1>6, TypeObject, SafeObject DEF ObjStep
<1>7. CASE EnvStep
  BY <1>7, TypeEnvironment, SafeEnvironment DEF EnvStep
<1>8. CASE UNCHANGED execVars
  BY <1>8, SafeStutter DEF execVars
<1> QED
  BY <1>1, <1>2, <1>3, <1>4, <1>5, <1>6, <1>7, <1>8 DEF Next, Exec

(* The variables of the call keep their types. *)
LEMMA CallTyped ==
  ASSUME TypeOK, CPTypeOK', [Next]_execVars
  PROVE  TypeOK'
<1> USE DEF TypeOK, Results
<1>v. Value \in Results
  BY DEF Value
<1>e. ExitCode \in Int
  BY DEF CPTypeOK, ExitCode
<1>1. CASE ImportFails
  BY <1>1 DEF ImportFails
<1>2. CASE Start
  <2>1. result' \in {result, ErrorResult} /\ UNCHANGED <<call, buf, code>>
    BY <1>2 DEF Start
  <2>2. ErrorResult \in Results
    BY <1>v DEF ErrorResult
  <2> QED
    BY <2>1, <2>2
<1>3. CASE LoopUpdate
  BY <1>3 DEF LoopUpdate
<1>4. CASE Collect
  <2>1. buf' \in [Stream -> Nat]
    BY <1>4, ConstantsAssumption DEF Collect
  <2> QED
    BY <1>4, <2>1 DEF Collect
<1>5. CASE CallbackThrows \/ FlushThrows
  BY <1>5 DEF CallbackThrows, FlushThrows
<1>6. CASE Finish
  <2>1. buf' \in [Stream -> Nat]
    BY <1>6 DEF Finish
  <2>2. result' \in {Value, "undefined", "throw"} /\ code' \in {ExitCode, code} /\ call' = call
    BY <1>6 DEF Finish
  <2> QED
    BY <1>v, <1>e, <2>1, <2>2
<1>7. CASE ObjStep \/ EnvStep \/ UNCHANGED execVars
  BY <1>7 DEF ObjStep, EnvStep, execVars
<1> QED
  BY <1>1, <1>2, <1>3, <1>4, <1>5, <1>6, <1>7 DEF Next, Exec

(* What the object does by itself sends no signal to a reaped child, and   *)
(* nothing but signals of the timeout before the destructor.               *)
LEMMA OwnerObject ==
  ASSUME CPInv, OnlyDestroyed, ObjectStep
  PROVE  OnlyDestroyed'
<1> USE DEF CPInv, Safe, CPTypeOK, OnlyDestroyed, objVars, ctlVars, osVars, histVars
<1>1. CASE CheckTimeout
  <2>1. child # "reaped" \/ ~Overdue
    BY <1>1 DEF CheckTimeout, Overdue, Reaping, Calling
  <2> QED
    BY <1>1, <2>1 DEF CheckTimeout, TimeoutSignals, SendSignals
<1>2. CASE WriteNothing \/ WriteStdin \/ WriteEpipe \/ WriteSigpipe
  BY <1>2 DEF WriteNothing, WriteStdin, WriteEpipe, WriteSigpipe, StdinFrame
<1>3. CASE Poll \/ PollForced
  BY <1>3 DEF Poll, PollForced, PollFrame
<1>4. ASSUME NEW s \in Stream, ReadData(s) \/ ReadDone(s) PROVE OnlyDestroyed'
  BY <1>4 DEF ReadData, ReadDone, ReadFrame, AfterRead, StepOf
<1>5. CASE WaitPid
  BY <1>5 DEF WaitPid, WaitReturnsPid, AfterReap
<1>6. CASE ReapOrForce
  BY <1>6 DEF ReapOrForce, ReapFrame, SendSignals, Reaping
<1>7. CASE ReapBlocking
  BY <1>7 DEF ReapBlocking, ReapFrame, Reaping
<1> QED
  BY <1>1, <1>2, <1>3, <1>4, <1>5, <1>6, <1>7 DEF ObjectStep

(* A step of the environment changes neither the object nor the history    *)
(* of signals; a child that was reaped or never started does nothing.      *)
LEMMA EnvironmentFrame ==
  ASSUME CPInv, Environment
  PROVE  /\ UNCHANGED <<objVars, ctlVars, taken, torn, stale, sent>>
         /\ \/ child' = child /\ status' = status
            \/ child = "alive" /\ child' = "zombie"
         /\ child # "alive" => mark' = mark
<1> USE DEF EnvFrame, objVars, ctlVars, histVars, osVars
<1>1. ASSUME NEW s \in Stream, ChildWrites(s) \/ HeirWrites(s) \/ ChildClosesOutput(s)
      PROVE  /\ UNCHANGED <<objVars, ctlVars, taken, torn, stale, sent, child, status>>
             /\ child # "alive" => mark' = mark
  BY <1>1 DEF ChildWrites, HeirWrites, ChildClosesOutput
<1>2. CASE ChildReads \/ ChildClosesStdin \/ ChildForks \/ HeirExits \/ SignalIgnored
  BY <1>2 DEF ChildReads, ChildClosesStdin, ChildForks, HeirExits, SignalIgnored
<1>3. CASE ChildExits \/ ChildCrashes \/ SignalKills
  BY <1>3 DEF ChildExits, ChildCrashes, SignalKills, ChildEnds
<1>4. CASE Tick
  BY <1>4 DEF Tick
<1> QED
  BY <1>1, <1>2, <1>3, <1>4 DEF Environment

(* Every step keeps the facts about who closes the object. *)
LEMMA OwnerKept ==
  ASSUME CPInv, OnlyDestroyed, [Next]_execVars
  PROVE  OnlyDestroyed'
<1>1. CASE ImportFails
  BY <1>1 DEF ImportFails, OnlyDestroyed, objVars, osVars, histVars
<1>2. CASE Start
  <2>s. Run(call.timeout, call.stdin) \/ RunFails(call.timeout, call.stdin)
    BY <1>2 DEF Start
  <2> QED
    BY <2>s DEF Run, RunFails, OnlyDestroyed, osVars, histVars
<1>3. CASE LoopUpdate
  BY <1>3 DEF LoopUpdate, BeginUpdate, OnlyDestroyed, osVars, histVars, CPInv, Safe, Calling
<1>4. CASE Collect
  <2>1. ~torn
    BY <1>4 DEF Collect, UpdateReturns, OnlyDestroyed, CPInv, Safe, Calling
  <2> QED
    BY <1>4, <2>1 DEF Collect, UpdateReturns, OnlyDestroyed, osVars
<1>5. CASE CallbackThrows \/ Finish \/ FlushThrows
  <2>1. Destroy /\ pc \in {"idle", "return"}
    BY <1>5, DestroyedFrom
  <2>2. ~torn
    BY <2>1 DEF OnlyDestroyed, CPInv, Safe, Calling
  <2>3. pid > 0 => child # "reaped"
    BY <2>2 DEF CPInv, Safe, Reaping
  <2> QED
    BY <2>1, <2>2, <2>3
       DEF Destroy, CloseHandles, SendSignals, OnlyDestroyed, CPInv, CPTypeOK
<1>6. CASE ObjStep
  BY <1>6, OwnerObject DEF ObjStep
<1>7. CASE EnvStep
  BY <1>7, EnvironmentFrame DEF EnvStep, OnlyDestroyed, objVars, ctlVars
<1>8. CASE UNCHANGED execVars
  BY <1>8 DEF execVars, cpVars, objVars, ctlVars, osVars, histVars, OnlyDestroyed
<1> QED
  BY <1>1, <1>2, <1>3, <1>4, <1>5, <1>6, <1>7, <1>8 DEF Next, Exec

(* What the object does by itself happens before there is a value. *)
LEMMA NoValueYet ==
  ASSUME CPInv, OnlyDestroyed, Returned, ObjStep
  PROVE  /\ result' = result /\ pc' # "failed"
         /\ result \notin {"code", "object", "undefined"}
         /\ result # "none" => pc' \in {"gone", "reap1", "reap2"}
<1>1. result' = result
  BY DEF ObjStep
<1>2. /\ pc \notin {"gone", "failed", "new", "idle"} /\ pc' # "failed"
      /\ pc \in {"reap1", "reap2"} => pc' \in {"reap2", "gone"} \/ caller # "dtor"
  <2>1. ObjectStep
    BY DEF ObjStep
  <2>2. CASE CheckTimeout \/ WaitPid
    BY <2>2 DEF CheckTimeout, WaitPid
  <2>3. CASE WriteNothing \/ WriteStdin \/ WriteEpipe \/ WriteSigpipe
    BY <2>3 DEF WriteNothing, WriteStdin, WriteEpipe, WriteSigpipe
  <2>4. CASE Poll \/ PollForced
    BY <2>4 DEF Poll, PollForced
  <2>5. ASSUME NEW s \in Stream, ReadData(s) \/ ReadDone(s)
        PROVE  pc \in {"rdout", "rderr"} /\ pc' \in {"rdout", "rderr", "wait"}
    BY <2>5 DEF ReadData, ReadDone, StepOf, AfterRead
  <2>6. CASE ReapOrForce \/ ReapBlocking
    BY <2>6 DEF ReapOrForce, ReapBlocking
  <2> QED
    BY <2>1, <2>2, <2>3, <2>4, <2>5, <2>6 DEF ObjectStep
<1>3. result \notin {"code", "object", "undefined"}
  BY <1>2 DEF Returned
<1>4. pc \in {"reap1", "reap2"} => caller = "dtor"
  BY DEF CPInv, Safe, Reaping, OnlyDestroyed
<1> QED
  BY <1>1, <1>2, <1>3, <1>4 DEF Returned

(* The returned value: complete, with the right code, after the child. *)
LEMMA ReturnedKept ==
  ASSUME ExecInv, [Next]_execVars
  PROVE  Returned' /\ OutputComplete' /\ ResultCode' /\ WaitedFor'
<1> USE DEF ExecInv, Returned, OutputComplete, ResultCode, WaitedFor
<1>1. CASE ImportFails \/ Start
  <2>1. result = "none" /\ pc = "new"
    BY <1>1 DEF ImportFails, Start, Run, RunFails
  <2>2. (pc' = "failed") \/ (pc' = "idle" /\ result' = "none")
    BY <1>1, <2>1 DEF ImportFails, Start, Run, RunFails
  <2> QED
    BY <2>2
<1>2. CASE LoopUpdate \/ Collect
  <2>1. result' = result /\ pc \in {"idle", "return"} /\ pc' \in {"idle", "timeout"}
    BY <1>2 DEF LoopUpdate, BeginUpdate, Collect, UpdateReturns
  <2> QED
    BY <2>1
<1>3. CASE CallbackThrows \/ FlushThrows
  <2>1. result' = "throw" /\ pc' \in {"gone", "reap1"}
    BY <1>3 DEF CallbackThrows, FlushThrows, Destroy
  <2> QED
    BY <2>1
<1>4. CASE Finish
  <2>1. Destroy /\ process_terminated /\ pc = "idle" /\ caller = "none" /\ ~torn
    BY <1>4 DEF Finish, Running, CPInv, Safe, Calling, OnlyDestroyed
  <2>2. pid < 0 /\ child = "reaped"
    BY <2>1 DEF CPInv, Safe, Killing, ChildState
  <2>3. /\ pc' = "gone" /\ child' = "reaped"
        /\ UNCHANGED <<data, taken, mark, sent, status>>
    BY <2>1, <2>2 DEF Destroy, CloseHandles, CPInv, CPTypeOK
  <2>4. \A s \in Stream : Got(s)' >= mark'[s] /\ buf'[s] = 0
    <3>1. \A s \in Stream : mark[s] <= Got(s)
      BY <2>1 DEF CPInv, Safe, Draining, Drained
    <3>2. \A s \in Stream : buf'[s] = 0
      BY <1>4 DEF Finish
    <3> QED
      BY <2>3, <3>1, <3>2 DEF Got, CPInv, CPTypeOK
  <2>5. "TERM" \notin sent'
    BY <2>1, <2>3 DEF OnlyDestroyed
  <2>6. call'.fn = "exec" => code' = ExitCode
    BY <1>4 DEF Finish
  <2>7. sent # {} => ExitCode = -1
    BY <2>1 DEF CPInv, Safe, Escalated, ExitCode
  <2>8. sent = {} /\ ~status.sig => ExitCode = status.code
    BY <2>1, <2>2 DEF CPInv, Safe, Escalated, StatusKept, ExitCode
  <2> QED
    BY <2>3, <2>4, <2>5, <2>6, <2>7, <2>8
<1>5. CASE ObjStep
  <2>1. /\ result' = result /\ result \notin {"code", "object", "undefined"}
        /\ result # "none" => pc' \in {"gone", "reap1", "reap2"}
    BY <1>5, NoValueYet
  <2> QED
    BY <2>1
<1>6. CASE EnvStep
  <2>1. /\ UNCHANGED <<pc, data, taken, sent, call, buf, result, code>>
        /\ child = "reaped" => UNCHANGED <<child, status, mark>>
    BY <1>6, EnvironmentFrame DEF EnvStep, objVars, ctlVars
  <2> QED
    BY <2>1 DEF Got
<1>7. CASE UNCHANGED execVars
  <2>1. UNCHANGED <<pc, data, taken, sent, call, buf, result, code, child, status, mark>>
    BY <1>7 DEF execVars, cpVars, objVars, ctlVars, osVars, histVars
  <2> QED
    BY <2>1 DEF Got
<1> QED
  BY <1>1, <1>2, <1>3, <1>4, <1>5, <1>6, <1>7 DEF Next, Exec

(* The invariant holds in every reachable state of a call. *)
LEMMA ExecInductive == Spec => []ExecInv
<1>1. Init => ExecInv
  <2> SUFFICES ASSUME Init PROVE ExecInv
    OBVIOUS
  <2>1. CPInv
    BY InitTyped, InitSafe DEF Init, CPInv
  <2>2. TypeOK
    BY <2>1 DEF Init, CPInv, TypeOK, Results
  <2>3. OnlyDestroyed
    BY DEF Init, CPInit, OnlyDestroyed
  <2>4. Returned /\ OutputComplete /\ ResultCode /\ WaitedFor
    BY DEF Init, Returned, OutputComplete, ResultCode, WaitedFor
  <2> QED
    BY <2>1, <2>2, <2>3, <2>4 DEF ExecInv
<1>2. ExecInv /\ [Next]_execVars => ExecInv'
  <2> SUFFICES ASSUME ExecInv, [Next]_execVars PROVE ExecInv'
    OBVIOUS
  <2>1. CPInv'
    BY ObjectKept DEF ExecInv, TypeOK
  <2>2. TypeOK'
    BY <2>1, CallTyped DEF ExecInv, CPInv
  <2>3. OnlyDestroyed'
    BY OwnerKept DEF ExecInv
  <2> QED
    BY <2>1, <2>2, <2>3, ReturnedKept DEF ExecInv
<1> QED
  BY <1>1, <1>2, PTL DEF Spec

(* Every reachable state of a call of sys.exec() or sys.shell() is well    *)
(* typed.                                                                  *)
THEOREM ExecTypeCorrect == Spec => []TypeOK
<1>1. ExecInv => TypeOK
  BY DEF ExecInv
<1> QED
  BY <1>1, ExecInductive, PTL

(* No way out of the call leaves a process, an open pipe, or a signal sent *)
(* to a stranger behind.                                                   *)
THEOREM CallLeavesNothing == Spec => []NothingLeft
<1>1. ExecInv => NothingLeft
  <2> SUFFICES ASSUME ExecInv, pc \in {"gone", "failed"}
               PROVE  /\ child \in {"none", "reaped"} /\ ~ifd
                      /\ \A s \in Stream : ~fd[s]
                      /\ ~stale
    BY DEF NothingLeft
  <2>1. CASE pc = "gone"
    <3>1. torn
      BY <2>1 DEF ExecInv, CPInv, Safe, Reaping
    <3> QED
      BY <2>1, <3>1 DEF ExecInv, OnlyDestroyed, CPInv, Safe, TornDown
  <2>2. CASE pc = "failed"
    BY <2>2 DEF ExecInv, OnlyDestroyed, CPInv, Safe, NotStarted
  <2> QED
    BY <2>1, <2>2
<1> QED
  BY <1>1, ExecInductive, PTL

(* When sys.exec() returns a value, all the child wrote is in it or was    *)
(* handed to read_callback().                                              *)
THEOREM ExecOutputComplete == Spec => []OutputComplete
<1>1. ExecInv => OutputComplete
  BY DEF ExecInv
<1> QED
  BY <1>1, ExecInductive, PTL

(* The exit code in it is the child's, or -1 after a timeout. *)
THEOREM ExecResultCode == Spec => []ResultCode
<1>1. ExecInv => ResultCode
  BY DEF ExecInv
<1> QED
  BY <1>1, ExecInductive, PTL

(* A call that returns a value has waited for the child to end. *)
THEOREM ExecWaits == Spec => []WaitedFor
<1>1. ExecInv => WaitedFor
  BY DEF ExecInv
<1> QED
  BY <1>1, ExecInductive, PTL

(* The object inside sys.exec() and sys.shell() keeps the contract too,    *)
(* also when a callback throws in the middle of the loop.                  *)
THEOREM ExecContractKept == Spec => KeepsContract
<1>1. Init => Contract!Init
  BY ContractInit DEF Init
<1>2. ExecInv /\ [Next]_execVars => [Contract!Next]_(Contract!contractVars)
  <2> SUFFICES ASSUME ExecInv, [Next]_execVars
               PROVE  [Contract!Next]_(Contract!contractVars)
    OBVIOUS
  <2>i. CPInv /\ call \in Calls /\ OnlyDestroyed
    BY DEF ExecInv, TypeOK
  <2>1. CASE ImportFails
    <3>1. /\ UNCHANGED <<child, status, mark, was_timeout, torn, exit_code, data, taken,
                         process_terminated, caller>>
          /\ pc = "new" /\ pc' = "failed"
      BY <2>1 DEF ImportFails, objVars, osVars, histVars
    <3>2. Life = "new" /\ Life' = "failed" /\ Verdict' = Verdict /\ Unread' = Unread
      BY <3>1 DEF Life, Verdict, ExitCode, Unread, Got
    <3> QED
      BY <3>1, <3>2 DEF Contract!Next, Contract!Refuse
  <2>2. CASE Start
    <3>s. Run(call.timeout, call.stdin) \/ RunFails(call.timeout, call.stdin)
      BY <2>2 DEF Start
    <3> QED
      BY <2>i, <3>s, StartArguments, ContractRun
  <2>3. CASE LoopUpdate
    <3>1. /\ BeginUpdate("update")
          /\ UNCHANGED <<child, status, mark, was_timeout, torn, exit_code,
                         process_terminated, data, taken>>
      BY <2>3 DEF LoopUpdate, objVars, osVars, histVars
    <3> QED
      BY <2>i, <3>1, ContractBegin DEF Got
  <2>4. CASE Collect
    BY <2>i, <2>4, CollectMoves, ContractReturn DEF CPInv
  <2>5. CASE CallbackThrows \/ Finish \/ FlushThrows
    <3>1. Destroy /\ pc \in {"idle", "return"}
      BY <2>i, <2>5, DestroyedFrom
    <3> QED
      BY <2>i, <3>1, ContractClose
  <2>6. CASE ObjStep \/ EnvStep
    BY <2>i, <2>6, ContractObject, ContractEnvironment DEF ObjStep, EnvStep
  <2>7. CASE UNCHANGED execVars
    <3>1. UNCHANGED <<child, status, mark, was_timeout, torn, exit_code,
                      process_terminated, pc, caller, data, taken>>
      BY <2>7 DEF execVars, cpVars, objVars, ctlVars, osVars, histVars
    <3>2. Life' = Life /\ Verdict' = Verdict
      BY <3>1 DEF Life, Verdict, ExitCode
    <3> QED
      BY <3>1, <3>2, ContractStutter DEF Got
  <2> QED
    BY <2>1, <2>2, <2>3, <2>4, <2>5, <2>6, <2>7 DEF Next, Exec
<1> QED
  BY <1>1, <1>2, ExecInductive, PTL DEF Spec, KeepsContract, Contract!Spec
=============================================================================
