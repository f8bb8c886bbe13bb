-------------------------- MODULE SysProcessProofs --------------------------
(***************************************************************************)
(* Proofs about SysProcess, for every value of its constants.              *)
(***************************************************************************)
EXTENDS SysProcess, ChildProcessProofs

(* Calls of the script preserve the invariant, in any order. *)
LEMMA InvScript == CPInv /\ (Script \/ Return) => CPInv'
<1> SUFFICES ASSUME CPInv, Script \/ Return PROVE CPInv'
  OBVIOUS
<1> USE DEF CPInv
<1>1. ASSUME NEW t \in Timeouts, NEW n \in 0..MaxStdin, Run(t, n) \/ RunFails(t, n)
      PROVE CPInv'
  <2>1. t \in Int /\ n \in Nat
    BY ConstantsAssumption, TimeoutsAssumption
  <2> QED
    BY <1>1, <2>1, TypeRun, SafeRun
<1>2. CASE Update \/ Read
  BY <1>2, TypeBegin, SafeBegin DEF Update, Read
<1>3. ASSUME NEW n \in 1..MaxStdin, Write(n) PROVE CPInv'
  <2> USE DEF CPTypeOK, Steps, Callers, objVars, ctlVars, osVars, histVars
  <2>1. CPTypeOK'
    BY <1>3, ConstantsAssumption DEF Write, BeginUpdate
  <2>2. Safe'
    BY <1>3, ConstantsAssumption
       DEF Write, BeginUpdate, Running, Safe, NotStarted, ChildState, Reaping, Draining,
           Drained, InFlight, NoPrematureClose, StdinConserved, StaleSignalOnlyInKill,
           Killing, TornDown, StatusKept, Escalated, Calling, Got, Piped, Stream
  <2> QED
    BY <2>1, <2>2
<1>4. ASSUME NEW s \in Stream, SetData(s) PROVE CPInv'
  <2> USE DEF CPTypeOK, objVars, ctlVars, osVars, histVars
  <2>1. CPTypeOK'
    BY <1>4 DEF SetData, Stream
  <2>2. Safe'
    BY <1>4, ConstantsAssumption
       DEF SetData, Safe, NotStarted, ChildState, Reaping, Draining,
           Drained, InFlight, NoPrematureClose, StdinConserved, StaleSignalOnlyInKill,
           Killing, TornDown, StatusKept, Escalated, Calling, Got, Piped, Stream
  <2> QED
    BY <2>1, <2>2
<1>5. ASSUME NEW t \in Timeouts, SetTimeout(t) PROVE CPInv'
  <2> USE DEF CPTypeOK, objVars, ctlVars, osVars, histVars
  <2>1. CPTypeOK'
    BY <1>5, TimeoutsAssumption DEF SetTimeout
  <2>2. Safe'
    BY <1>5, ConstantsAssumption
       DEF SetTimeout, Safe, NotStarted, ChildState, Reaping, Draining,
           Drained, InFlight, NoPrematureClose, StdinConserved, StaleSignalOnlyInKill,
           Killing, TornDown, StatusKept, Escalated, Calling, Got, Piped, Stream
  <2> QED
    BY <2>1, <2>2
<1>6. ASSUME NEW b \in BOOLEAN, Kill(b) PROVE CPInv'
  BY <1>6, TypeClose, SafeClose
<1>7. CASE Finalize
  <2>1. Destroy /\ pc = "idle" /\ caller = "none"
    BY <1>7 DEF Finalize, Safe, Calling
  <2> QED
    BY <2>1, TypeClose, SafeClose
<1>8. CASE Return
  <2>1. /\ data' \in [Stream -> Nat] /\ taken' \in [Stream -> Nat]
        /\ \A s \in Stream : Got(s)' = Got(s)
    BY <1>8 DEF Return, CPTypeOK, Got, Stream
  <2>2. UpdateReturns
    BY <1>8 DEF Return
  <2> QED
    BY <2>1, <2>2, TypeReturn, SafeReturn
<1> QED
  BY <1>1, <1>2, <1>3, <1>4, <1>5, <1>6, <1>7, <1>8 DEF Script, Construct

(* Every step preserves the invariant. *)
LEMMA InvStep == CPInv /\ [Next]_cpVars => CPInv'
  BY InvScript, TypeObject, SafeObject, TypeEnvironment, SafeEnvironment, SafeStutter
     DEF Next, CPInv

(* The inductive invariant holds in every reachable state. *)
LEMMA Inductive == Spec => []CPInv
<1>1. Init => CPInv
  BY InitTyped, InitSafe DEF Init, CPInv
<1> QED
  BY <1>1, InvStep, PTL DEF Spec

(* Every reachable state of a sys.process object is well typed. *)
THEOREM TypeCorrect == Spec => []TypeOK
<1>1. CPInv => TypeOK
  BY DEF CPInv, TypeOK
<1> QED
  BY <1>1, Inductive, PTL

(* No output of the child is lost: once running is false and the script    *)
(* has not called kill(), all the child wrote has arrived, for any pipe    *)
(* capacity, read size, interleaving and any sequence of calls.            *)
THEOREM OutputDelivered == Spec => []NoOutputLost
<1>1. CPInv => NoOutputLost
  BY DEF CPInv, Safe, Draining, Drained, NoOutputLost
<1> QED
  BY <1>1, Inductive, PTL

(* The output pipes are never closed under a writer. *)
THEOREM PipesStayOpen == Spec => []NoPrematureClose
<1>1. CPInv => NoPrematureClose
  BY DEF CPInv, Safe
<1> QED
  BY <1>1, Inductive, PTL

(* No byte queued for stdin is lost or sent twice while someone reads it.  *)
THEOREM StdinIntact == Spec => []StdinConserved
<1>1. CPInv => StdinConserved
  BY DEF CPInv, Safe
<1> QED
  BY <1>1, Inductive, PTL

(* Only kill() and the finalizer can signal a pid that was already reaped. *)
THEOREM StaleSignals == Spec => []StaleSignalOnlyInKill
<1>1. CPInv => StaleSignalOnlyInKill
  BY DEF CPInv, Safe
<1> QED
  BY <1>1, Inductive, PTL

(* Between two calls the stored pid is that of a child that can be waited  *)
(* for.                                                                    *)
THEOREM PidValid == Spec => []PidIsOwnChild
<1>1. CPInv => PidIsOwnChild
  BY DEF CPInv, Safe, CPTypeOK, ChildState, Reaping, PidIsOwnChild
<1> QED
  BY <1>1, Inductive, PTL

(* kill() and the finalizer leave no process and no open pipe behind. *)
THEOREM CleanTearDown == Spec => []NothingLeftBehind
<1>1. CPInv => NothingLeftBehind
  BY DEF CPInv, Safe, TornDown, NothingLeftBehind
<1> QED
  BY <1>1, Inductive, PTL

(* A child that exited is reported with its own code. *)
THEOREM ExitCodeCorrect == Spec => []ExitCodeReported
<1>1. CPInv => ExitCodeReported
  BY DEF CPInv, Safe, Killing, StatusKept, ExitCodeReported
<1> QED
  BY <1>1, Inductive, PTL

(* Signals of the timeout come in the right order and make the exit code -1. *)
THEOREM TimeoutEscalates == Spec => []Escalation
<1>1. CPInv => Escalation
  BY DEF CPInv, Safe, Escalated, Escalation, ExitCode
<1> QED
  BY <1>1, Inductive, PTL

(* No step, of the script, the object or the environment, changes what a   *)
(* finished object reports, nor signals anyone.                            *)
THEOREM FinalStateKept == Spec => FinishedIsFinal
<1> DEFINE Kept == process_terminated =>
                     /\ process_terminated' /\ exit_code' = exit_code
                     /\ was_timeout' = was_timeout /\ sent' = sent
<1>1. CPInv /\ [Next]_cpVars => [Kept]_cpVars
  <2> SUFFICES ASSUME CPInv, Next, process_terminated PROVE Kept
    OBVIOUS
  <2> USE DEF CPInv, Safe, CPTypeOK, NotStarted, Killing, objVars, ctlVars, osVars, histVars
  <2>1. CASE Script
    <3>1. ASSUME NEW t \in Timeouts, NEW n \in 0..MaxStdin, Run(t, n) \/ RunFails(t, n)
          PROVE Kept
      BY <3>1 DEF Run, RunFails
    <3>2. CASE Update \/ Read
      BY <3>2 DEF Update, Read
    <3>3. ASSUME NEW n \in 1..MaxStdin, Write(n) PROVE Kept
      BY <3>3 DEF Write, Running
    <3>4. ASSUME NEW s \in Stream, SetData(s) PROVE Kept
      BY <3>4 DEF SetData
    <3>5. ASSUME NEW t \in Timeouts, SetTimeout(t) PROVE Kept
      BY <3>5 DEF SetTimeout
    <3>6. ASSUME NEW b \in BOOLEAN, Kill(b) PROVE Kept
      BY <3>6 DEF Kill, CanKill
    <3>7. CASE Finalize
      BY <3>7 DEF Finalize, Destroy, CloseHandles
    <3> QED
      BY <2>1, <3>1, <3>2, <3>3, <3>4, <3>5, <3>6, <3>7 DEF Script, Construct
  <2>2. CASE ObjectStep \/ Return
    <3>1. CASE CheckTimeout
      BY <3>1 DEF CheckTimeout, Overdue
    <3>2. CASE WriteNothing \/ WriteStdin \/ WriteEpipe \/ WriteSigpipe
      BY <3>2 DEF WriteNothing, WriteStdin, WriteEpipe, WriteSigpipe, StdinFrame
    <3>3. CASE Poll \/ PollForced
      BY <3>3 DEF Poll, PollForced, PollFrame
    <3>4. ASSUME NEW s \in Stream, ReadData(s) \/ ReadDone(s) PROVE Kept
      BY <3>4 DEF ReadData, ReadDone, ReadFrame
    <3>5. CASE WaitPid
      BY <3>5 DEF WaitPid, WaitReturnsPid, AfterReap
    <3>6. CASE ReapOrForce \/ ReapBlocking
      BY <3>6 DEF ReapOrForce, ReapBlocking
    <3>7. CASE Return
      BY <3>7 DEF Return, UpdateReturns
    <3> QED
      BY <2>2, <3>1, <3>2, <3>3, <3>4, <3>5, <3>6, <3>7 DEF ObjectStep
  <2>3. CASE Environment
    <3> USE DEF EnvFrame
    <3>1. ASSUME NEW s \in Stream, ChildWrites(s) \/ HeirWrites(s) \/ ChildClosesOutput(s)
          PROVE Kept
      BY <3>1 DEF ChildWrites, HeirWrites, ChildClosesOutput
    <3>2. CASE ChildReads \/ ChildClosesStdin \/ ChildForks \/ HeirExits \/ SignalIgnored
      BY <3>2 DEF ChildReads, ChildClosesStdin, ChildForks, HeirExits, SignalIgnored
    <3>3. CASE ChildExits \/ ChildCrashes \/ SignalKills
      BY <3>3 DEF ChildExits, ChildCrashes, SignalKills, ChildEnds
    <3>4. CASE Tick
      BY <3>4 DEF Tick
    <3> QED
      BY <2>3, <3>1, <3>2, <3>3, <3>4 DEF Environment
  <2> QED
    BY <2>1, <2>2, <2>3 DEF Next
<1> QED
  BY <1>1, Inductive, PTL DEF Spec, FinishedIsFinal

(* An object behaves as ProcessContract says, for any pipe capacity, any   *)
(* sequence of calls and any interleaving with the child: this is          *)
(* step simulation under the mapping Life, Unread, Verdict.                *)
THEOREM ContractKept == Spec => KeepsContract
<1>1. Init => Contract!Init
  BY ContractInit DEF Init
<1>2. CPInv /\ [Next]_cpVars => [Contract!Next]_(Contract!contractVars)
  <2> SUFFICES ASSUME CPInv, [Next]_cpVars
               PROVE  [Contract!Next]_(Contract!contractVars)
    OBVIOUS
  <2>1. ASSUME NEW t \in Timeouts, NEW n \in 0..MaxStdin, Run(t, n) \/ RunFails(t, n)
        PROVE  Contract!Next
    <3>1. t \in Int /\ n \in Nat
      BY ConstantsAssumption, TimeoutsAssumption
    <3> QED
      BY <2>1, <3>1, ContractRun
  <2>2. ASSUME NEW n \in 1..MaxStdin, Write(n) PROVE UNCHANGED Contract!contractVars
    <3>1. /\ BeginUpdate("update")
          /\ UNCHANGED <<child, status, mark, was_timeout, torn, exit_code,
                         process_terminated, data, taken>>
      BY <2>2 DEF Write, objVars, osVars, histVars
    <3> QED
      BY <3>1, ContractBegin DEF Got
  <2>3. CASE Update \/ Read
    <3>1. /\ BeginUpdate("update") \/ BeginUpdate("read")
          /\ UNCHANGED <<child, status, mark, was_timeout, torn, exit_code,
                         process_terminated, data, taken>>
      BY <2>3 DEF Update, Read, objVars, osVars, histVars
    <3> QED
      BY <3>1, ContractBegin DEF Got
  <2>4. ASSUME NEW s \in Stream, SetData(s) PROVE UNCHANGED Contract!contractVars
    <3>1. /\ UNCHANGED <<child, status, mark, was_timeout, torn, exit_code,
                         process_terminated, pc, caller>>
          /\ \A r \in Stream : Got(r)' = Got(r)
      BY <2>4 DEF SetData, ctlVars, osVars, Got, CPInv, CPTypeOK
    <3>2. Life' = Life /\ Verdict' = Verdict
      BY <3>1 DEF Life, Verdict, ExitCode
    <3> QED
      BY <3>1, <3>2, ContractStutter
  <2>5. ASSUME NEW t \in Timeouts, SetTimeout(t) PROVE UNCHANGED Contract!contractVars
    <3>1. UNCHANGED <<child, status, mark, was_timeout, torn, exit_code,
                      process_terminated, pc, caller, data, taken>>
      BY <2>5 DEF SetTimeout, ctlVars, osVars, histVars
    <3>2. Life' = Life /\ Verdict' = Verdict
      BY <3>1 DEF Life, Verdict, ExitCode
    <3> QED
      BY <3>1, <3>2, ContractStutter DEF Got
  <2>6. ASSUME NEW b \in BOOLEAN, Kill(b) \/ Finalize PROVE Contract!Next
    BY <2>6, ContractClose DEF Finalize
  <2>7. CASE Return
    <3>1. UpdateReturns /\ \A s \in Stream : Got(s)' = Got(s)
      BY <2>7 DEF Return, CPInv, CPTypeOK, Got, Stream
    <3> QED
      BY <3>1, ContractReturn
  <2>8. CASE ObjectStep \/ Environment
    BY <2>8, ContractObject, ContractEnvironment
  <2>9. CASE UNCHANGED cpVars
    <3>1. UNCHANGED <<child, status, mark, was_timeout, torn, exit_code,
                      process_terminated, pc, caller, data, taken>>
      BY <2>9 DEF cpVars, objVars, ctlVars, osVars, histVars
    <3>2. Life' = Life /\ Verdict' = Verdict
      BY <3>1 DEF Life, Verdict, ExitCode
    <3> QED
      BY <3>1, <3>2, ContractStutter DEF Got
  <2> QED
    BY <2>1, <2>2, <2>3, <2>4, <2>5, <2>6, <2>7, <2>8, <2>9 DEF Next, Script, Construct
<1> QED
  BY <1>1, <1>2, Inductive, PTL DEF Spec, KeepsContract, Contract!Spec
=============================================================================
