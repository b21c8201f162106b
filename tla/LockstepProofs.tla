--------------------------- MODULE LockstepProofs ---------------------------
(***************************************************************************)
(* The lockstep of Monitor, for every choice of its constants: types, the  *)
(* inductive invariant of MonitorInv, and what follows from it.  The calls *)
(* that run agree, the master runs them first where it has to, and the     *)
(* monitor implements the abstract lockstep.                               *)
(***************************************************************************)
EXTENDS MonitorInv, MappingsProofs

-----------------------------------------------------------------------------
(* Type correctness                                                        *)

\* The calls the model itself names are in the dispatch.
LEMMA ImplementedNames == {"exit_group", "getpid", "lseek"} \subseteq Implemented
BY DEF Implemented, Executor

LEMMA ConstantTypes ==
    /\ NoArgs \in [Arg -> Int] /\ NoCall \in Call /\ NoInfo \in Info
    /\ {0, 1, 2, 3, 4, 5} \subseteq Arg
    /\ \A v \in Variant : Other(v) \in Variant /\ Other(v) # v
BY DEF NoArgs, NoCall, NoInfo, Call, Info, Arg, Variant, Other

\* An int is the lower half of a register, of one that holds it already too.
LEMMA Narrowing ==
    ASSUME NEW x \in Int
    PROVE  /\ AsInt(x) \in -8 .. 7 /\ AsSocklen(x) \in 0 .. 15
           /\ AsInt(AsInt(x)) = AsInt(x)
           /\ AsInt(AsSocklen(x)) = AsInt(x)
<1>1. PICK q \in Int, r \in 0 .. 15 : x + 8 = 16 * q + r /\ (x + 8) % 16 = r
  OBVIOUS
<1>2. PICK p \in Int, s \in 0 .. 15 : x = 16 * p + s /\ x % 16 = s
  OBVIOUS
<1>3. (r - 8 + 8) % 16 = r
  BY <1>1
<1>4. (s + 8) % 16 = r
  BY <1>1, <1>2
<1> QED
  BY <1>1, <1>2, <1>3, <1>4 DEF AsInt, AsSocklen

\* What requestSyscallInfo reads is a syscall information.
LEMMA InfoType ==
    ASSUME TypeOK, NEW v \in Variant
    PROVE  SyscallInfo(v) \in Info /\ InfoOf(v) \in Info
<1>1. regs[v] \in Call /\ rax[v] \in Int /\ syscallInfo[v] \in Info
  BY DEF TypeOK
<1>2. CASE proc[v] = "entry"
  <2>1. SyscallInfo(v) = [op |-> "entry", nr |-> regs[v].nr,
                          args |-> regs[v].args, rval |-> 0]
    BY <1>2 DEF SyscallInfo
  <2> QED
    BY <2>1, <1>1 DEF InfoOf, Info, Call
<1>3. CASE proc[v] = "exit"
  <2>1. SyscallInfo(v) = [NoInfo EXCEPT !.op = "exit", !.rval = rax[v]]
    BY <1>3 DEF SyscallInfo
  <2> QED
    BY <2>1, <1>1, ConstantTypes DEF InfoOf, NoInfo, Info
<1>4. CASE proc[v] \notin {"entry", "exit"}
  BY <1>1, <1>4, ConstantTypes DEF InfoOf, SyscallInfo
<1> QED
  BY <1>2, <1>3, <1>4

LEMMA RequestType ==
    ASSUME TypeOK, NEW v \in Variant, requestSyscallInfo(v)
    PROVE  syscallInfo' \in [Variant -> Info]
BY InfoType DEF TypeOK, requestSyscallInfo

\* Resuming variants leaves the kernel's view of them well typed.
LEMMA PtraceType ==
    ASSUME TypeOK, NEW S, PtraceSyscall(S)
    PROVE  proc' \in [Variant -> ProcState] /\ released' \in [Variant -> Nat]
BY DEF TypeOK, PtraceSyscall, ProcState

LEMMA ResumeType ==
    ASSUME TypeOK, NEW S,
           resumeVariantFromWait(S) \/ resumeVariantFromExit(S)
    PROVE  /\ proc' \in [Variant -> ProcState]
           /\ released' \in [Variant -> Nat]
           /\ state' \in [Variant -> {"running", "wait"}]
           /\ syscallNum' \in [Variant -> Nat]
<1>1. proc' \in [Variant -> ProcState] /\ released' \in [Variant -> Nat]
  BY PtraceType DEF resumeVariantFromWait, resumeVariantFromExit
<1>2. state' \in [Variant -> {"running", "wait"}]
  BY DEF TypeOK, resumeVariantFromWait, resumeVariantFromExit
<1>3. syscallNum' \in [Variant -> Nat]
  <2>1. syscallNum \in [Variant -> Nat]
    BY DEF TypeOK
  <2>2. CASE resumeVariantFromWait(S)
    BY <2>1, <2>2 DEF resumeVariantFromWait
  <2>3. CASE resumeVariantFromExit(S)
    <3>1. syscallNum' = [v \in Variant |-> IF v \in S THEN syscallNum[v] + 1
                                          ELSE syscallNum[v]]
      BY <2>3 DEF resumeVariantFromExit
    <3> QED
      BY <2>1, <3>1
  <2> QED
    BY <2>2, <2>3
<1> QED
  BY <1>1, <1>2, <1>3

\* Every way the monitor ends.
LEMMA ExitType ==
    ASSUME TypeOK, NEW how \in Outcome, NEW killed, Exit(how, killed)
    PROVE  /\ proc' \in [Variant -> ProcState]
           /\ news' \in [Variant -> BOOLEAN]
           /\ regs' = regs /\ rax' = rax
           /\ pc' \in Control /\ outcome' \in Outcome
           /\ who' = who /\ status' = status /\ exec' = exec /\ rval' = rval
           /\ issued' = issued /\ call' = call
BY DEF TypeOK, Exit, ProcState, Control, localVars

\* Init establishes the types.
LEMMA TypeInit == Init => TypeOK
<1> SUFFICES ASSUME Init PROVE TypeOK
  OBVIOUS
<1>1. mappings \in Seq(variantMMap)
  BY DEF Init
<1> QED
  BY <1>1, ConstantTypes
     DEF Init, TypeOK, ProcState, Control, Outcome, Variant

\* Every action keeps them.
LEMMA TypeStep == TypeOK /\ [Next]_vars => TypeOK'
<1> SUFFICES ASSUME TypeOK, [Next]_vars PROVE TypeOK'
  OBVIOUS
<1> USE DEF localVars, recordVars, historyVars, processVars
<1>1. ASSUME NEW v \in Variant, Issue(v) PROVE TypeOK'
  <2>1. PICK c \in NextCalls(v) : /\ regs' = [regs EXCEPT ![v] = c]
                                 /\ call' = [call EXCEPT ![v] = c]
    BY <1>1 DEF Issue
  <2>2. c \in Call
    <3>1. [nr |-> "exit_group", args |-> NoArgs] \in Call
      BY ImplementedNames, ConstantTypes DEF Call
    <3>2. [nr : Calls, args : Args] \subseteq Call
      BY ConstantsAssumption DEF Call
    <3>3. call[Other(v)] \in Call
      BY ConstantTypes DEF TypeOK
    <3> QED
      BY <3>1, <3>2, <3>3 DEF NextCalls
  <2> QED
    BY <1>1, <2>1, <2>2 DEF Issue, TypeOK, ProcState
<1>2. ASSUME NEW v \in Variant, KernelReturn(v) PROVE TypeOK'
  BY <1>2, ConstantsAssumption DEF KernelReturn, TypeOK, ProcState
<1>3. ASSUME NEW v \in Variant, Kill(v) PROVE TypeOK'
  BY <1>3 DEF Kill, TypeOK, ProcState
<1>4. ASSUME NEW v \in Variant, Signal(v) PROVE TypeOK'
  BY <1>4 DEF Signal, TypeOK, ProcState
<1>5. ASSUME NEW v \in Variant, initVariant(v) PROVE TypeOK'
  BY <1>5 DEF initVariant, TypeOK, ProcState, Control
<1>6. ASSUME NEW v \in Variant, NEW next \in Control, Collect(v, next),
             who' \in Variant
      PROVE  TypeOK'
  BY <1>6 DEF Collect, TypeOK, ProcState
<1>7. ASSUME NEW v \in Variant, WaitAnyVariant(v) PROVE TypeOK'
  BY <1>6, <1>7 DEF WaitAnyVariant, Control
<1>8. CASE WaitMaster \/ WaitReplica
  BY <1>6, <1>8
     DEF WaitMaster, WaitReplica, waitVariant, Control, Variant, TypeOK
<1>9. CASE UnknownChild
  BY <1>9, ExitType DEF UnknownChild, Outcome, TypeOK
<1>10. CASE LeaveLoop
  BY <1>10, ExitType DEF LeaveLoop, Outcome, TypeOK
<1>11. CASE InvalidState
  <2>1. syscallInfo' \in [Variant -> Info]
    BY <1>11, RequestType DEF InvalidState, Handling, TypeOK
  <2> QED
    BY <1>11, <2>1, ExitType DEF InvalidState, Outcome, TypeOK
<1>12. CASE AwaitPartner
  <2>1. syscallInfo' \in [Variant -> Info]
    BY <1>12, RequestType DEF AwaitPartner, Handling, TypeOK
  <2> QED
    BY <1>12, <2>1 DEF AwaitPartner, TypeOK, Control
<1>13. CASE ResumeFromExit
  <2>1. syscallInfo' \in [Variant -> Info]
    BY <1>13, RequestType DEF ResumeFromExit, Handling, TypeOK
  <2> QED
    BY <1>13, <2>1, ResumeType DEF ResumeFromExit, TypeOK, Control
<1>14. CASE RefuseCall
  <2>1. syscallInfo' \in [Variant -> Info]
    BY <1>14, RequestType DEF RefuseCall, Handling, TypeOK
  <2> QED
    BY <1>14, <2>1, ExitType DEF RefuseCall, Fail, Outcome, TypeOK
<1>15. CASE RefuseCallLate
  <2>1. syscallInfo' \in [Variant -> Info]
    BY <1>15, RequestType DEF RefuseCallLate, Handling, TypeOK
  <2>2. state' \in [Variant -> {"running", "wait"}]
    BY <1>15 DEF RefuseCallLate
  <2>3. released' \in [Variant -> Nat]
    BY <1>15 DEF RefuseCallLate, TypeOK
  <2> QED
    BY <1>15, <2>1, <2>2, <2>3, ExitType
       DEF RefuseCallLate, Fail, Outcome, TypeOK
<1>16. ASSUME NEW run, Synchronising(run) PROVE syscallInfo' \in [Variant -> Info]
  BY <1>16, RequestType DEF Synchronising, Handling, TypeOK
<1>17. CASE RunBoth
  <2>1. mappings' \in Seq(variantMMap)
    BY <1>17, RemoveMappingType DEF RunBoth, TypeOK
  <2> QED
    BY <1>17, <2>1, <1>16, ResumeType DEF RunBoth, TypeOK, Control
<1>18. CASE RunBothAsAtExit
  BY <1>18, <1>16, ResumeType DEF RunBothAsAtExit, TypeOK, Control
<1>19. CASE RunMaster
  <2>1. syscallInfo' \in [Variant -> Info]
    BY <1>19, <1>16 DEF RunMaster
  <2>2. exec' \in Call
    <3>1. InfoOf("master") \in Info
      BY InfoType DEF Variant
    <3> QED
      BY <1>19, <3>1 DEF RunMaster, Info, Call
  <2> QED
    BY <1>19, <2>1, <2>2, ResumeType DEF RunMaster, TypeOK, Control
<1>20. CASE VariantLost
  <2>1. CASE E.lax
    BY <1>20, <2>1 DEF VariantLost, TypeOK, Control
  <2>2. CASE ~E.lax
    BY <1>20, <2>2, ExitType DEF VariantLost, Fail, Outcome, TypeOK
  <2> QED
    BY <2>1, <2>2
<1>21. CASE RecordMapping
  <2>1. syscallInfo' \in [Variant -> Info]
    BY <1>21, RequestType DEF RecordMapping, Variant
  <2>2. mappings' \in Seq(variantMMap)
    <3>1. syscallInfo'["master"].rval \in Int /\ syscallInfo'["master"].args[1] \in Int
      BY <2>1, ConstantTypes DEF Info, Variant
    <3>2. AsInt(exec.args[2]) \in Int /\ AsInt(exec.args[3]) \in Int
      <4>1. exec.args[2] \in Int /\ exec.args[3] \in Int
        BY ConstantTypes DEF TypeOK, Call
      <4> QED
        BY <4>1, Narrowing
    <3>3. mappings \in Seq(variantMMap)
      BY DEF TypeOK
    <3> QED
      BY <1>21, <3>1, <3>2, <3>3, AddMappingType DEF RecordMapping
  <2>3. syscallNum' \in [Variant -> Nat]
    <3>1. syscallNum \in [Variant -> Nat] /\ "master" \in Variant
      BY DEF TypeOK, Variant
    <3>2. syscallNum' = [syscallNum EXCEPT !["master"] = @ + 1]
      BY <1>21 DEF RecordMapping
    <3> QED
      BY <3>1, <3>2
  <2>4. state' \in [Variant -> {"running", "wait"}]
    BY <1>21 DEF RecordMapping, TypeOK
  <2> QED
    BY <1>21, <2>1, <2>2, <2>3, <2>4, PtraceType DEF RecordMapping, TypeOK, Control
<1>22. ASSUME MasterDone PROVE syscallInfo' \in [Variant -> Info]
  BY <1>22, RequestType DEF MasterDone, TypeOK, Variant
<1>23. CASE TransferFailed
  BY <1>23, <1>22, ExitType DEF TransferFailed, Fail, Outcome, TypeOK
<1>24. CASE RunReplica
  <2>1. rval' \in Int
    BY <1>24, InfoType DEF RunReplica, Info, Variant
  <2>2. regs' \in [Variant -> Call]
    <3>1. regs["replica"] \in Call /\ exec \in Call
      BY DEF TypeOK, Variant
    <3>2. Substitute.nr \in Implemented \cup {"unknown", "none"}
      BY <3>1, ImplementedNames DEF Substitute, Call
    <3>3. SyscallInfo("master").rval \in Int
      BY InfoType DEF Info, Variant
    <3>4. AsInt(exec.args[0]) \in Int
      BY <3>1, ConstantTypes, Narrowing DEF Call
    <3>5. Substitute.args \in [Arg -> Int]
      BY <3>1, <3>3, <3>4, ConstantTypes DEF Substitute, Call
    <3>6. Substitute \in Call
      BY <3>2, <3>5 DEF Substitute, Call
    <3> QED
      BY <1>24, <3>6 DEF RunReplica, TypeOK
  <2> QED
    BY <1>24, <1>22, <2>1, <2>2, ResumeType DEF RunReplica, TypeOK, Control
<1>25. CASE FinishCall
  <2>1. rax' \in [Variant -> Int]
    BY <1>25 DEF FinishCall, TypeOK
  <2> QED
    BY <1>25, <2>1, ResumeType DEF FinishCall, TypeOK, Control
<1>26. CASE UNCHANGED vars
  BY <1>26 DEF vars, TypeOK
<1> QED
  BY <1>1, <1>2, <1>3, <1>4, <1>5, <1>7, <1>8, <1>9, <1>10, <1>11, <1>12,
     <1>13, <1>14, <1>15, <1>17, <1>18, <1>19, <1>20, <1>21, <1>23, <1>24,
     <1>25, <1>26
     DEF Next, MonitorStep, VariantStep, Fault, Terminated

\* The variables keep the types of the C structures and of the processes.
THEOREM TypeCorrect == Spec => []TypeOK
BY TypeInit, TypeStep, PTL DEF Spec

-----------------------------------------------------------------------------
(* The initial state, and a step that changes nothing                      *)

LEMMA InvInit == Init => IInv
<1> SUFFICES ASSUME Init PROVE IInv
  OBVIOUS
<1>1. TypeOK
  BY TypeInit
<1>2. Counting /\ Rendezvous /\ StartAndEnd /\ Reports
  BY DEF Init, Counting, Rendezvous, StartAndEnd, Reports, Stopped, Variant, Other
<1>3. /\ InStep /\ WaitRecord /\ WaitNumber /\ AtEvent
      /\ InExecutor /\ ExecutorAtMaster /\ ExecutorAtReplica
  BY DEF Init, InStep, WaitRecord, WaitNumber, AtEvent, InExecutor,
         ExecutorAtMaster, ExecutorAtReplica, Main, InCall, Waiting
<1> QED
  BY <1>1, <1>2, <1>3 DEF IInv

-----------------------------------------------------------------------------
(* Steps of the kernel and of the program                                  *)

LEMMA InvIssue ==
    ASSUME IInv, TypeOK', NEW v \in Variant, Issue(v)
    PROVE  IInv'
<1> USE DEF localVars, recordVars
<1>1. /\ proc[v] = "user"
      /\ proc' = [proc EXCEPT ![v] = "entry"]
      /\ issued' = [issued EXCEPT ![v] = @ + 1]
      /\ news' = [news EXCEPT ![v] = TRUE]
      /\ released' = released
      /\ UNCHANGED <<pc, who, status, state, syscallNum, syscallInfo, exec>>
  BY DEF Issue
<1>2. \A w \in Variant : /\ w # v => call'[w] = call[w] /\ regs'[w] = regs[w]
                         /\ regs'[v] = call'[v]
  BY DEF Issue, IInv, TypeOK
<1>3. ~Waiting(v) /\ pc \notin InCall /\ ~(pc = "event" /\ who = v)
  BY <1>1 DEF IInv, WaitRecord, StartAndEnd, ExecutorAtMaster, ExecutorAtReplica, InCall,
              AtEvent, Variant
<1>4. Counting'
  <2>1. /\ proc'[v] = "entry" /\ issued'[v] = issued[v] + 1
        /\ \A w \in Variant \ {v} : proc'[w] = proc[w] /\ issued'[w] = issued[w]
    BY <1>1 DEF IInv, TypeOK
  <2>2. issued[v] = released[v] /\ issued[v] \in Nat
    BY <1>1 DEF IInv, TypeOK, Counting
  <2>3. Counting /\ released' = released
    BY <1>1 DEF IInv
  <2> QED
    BY <2>1, <2>2, <2>3 DEF Counting
<1>5. Rendezvous'
  BY <1>1 DEF IInv, TypeOK, Rendezvous, Variant, Other
<1>6. StartAndEnd'
  BY <1>1 DEF IInv, TypeOK, StartAndEnd, Variant
<1>7. InStep'
  BY <1>1 DEF IInv, TypeOK, InStep, Due, Alive, Stopped, Variant
<1>8. WaitRecord'
  <2>1. /\ \A w \in Variant : Waiting(w)' => Waiting(w) /\ w # v
        /\ UNCHANGED <<pc, released, syscallInfo>>
    BY <1>1, <1>3 DEF Waiting
  <2>2. \A w \in Variant \ {v} : /\ proc'[w] = proc[w] /\ issued'[w] = issued[w]
                                /\ call'[w] = call[w]
    BY <1>1, <1>2 DEF IInv, TypeOK
  <2> QED
    BY <2>1, <2>2 DEF IInv, WaitRecord
<1>9. WaitNumber'
  <2>1. \A w \in Variant : Waiting(w)' => Waiting(w) /\ w # v
    BY <1>1, <1>3 DEF Waiting
  <2>2. \A w \in Variant : Due(w)' = Due(w) /\ (Alive(w)' => Alive(w))
    BY <1>1 DEF IInv, TypeOK, Due, Alive, Stopped
  <2>3. \A w \in Variant \ {v} : issued'[w] = issued[w]
    BY <1>1 DEF IInv, TypeOK
  <2>4. \A w \in Variant : Other(w) \in Variant
    BY DEF Variant, Other
  <2> QED
    BY <1>1, <2>1, <2>2, <2>3, <2>4 DEF IInv, WaitNumber
<1>10. (InExecutor /\ ExecutorAtMaster /\ ExecutorAtReplica)'
  BY <1>1, <1>3 DEF InExecutor, ExecutorAtMaster, ExecutorAtReplica, InCall
<1>11. AtEvent'
  BY <1>1, <1>3 DEF IInv, TypeOK, AtEvent
<1>12. Reports'
  <2>1. ~Held(v)'
    BY <1>1, <1>3 DEF Held, InCall
  <2>2. /\ proc'[v] = "entry" /\ news'[v] = TRUE /\ regs'[v] = call'[v]
        /\ ~Waiting(v)' /\ pc' = pc /\ pc \notin InCall
    BY <1>1, <1>2, <1>3 DEF IInv, TypeOK, Waiting
  <2>3. \A w \in Variant \ {v} :
          /\ proc'[w] = proc[w] /\ news'[w] = news[w]
          /\ regs'[w] = regs[w] /\ call'[w] = call[w]
          /\ Stopped(w)' = Stopped(w) /\ Held(w)' = Held(w)
          /\ Waiting(w)' = Waiting(w)
    BY <1>1, <1>2 DEF IInv, TypeOK, Stopped, Held, Waiting
  <2> QED
    BY <2>1, <2>2, <2>3 DEF IInv, Reports
<1> QED
  BY <1>4, <1>5, <1>6, <1>7, <1>8, <1>9, <1>10, <1>11, <1>12 DEF IInv

\* A running process stops or ends, or a live one is killed.
LEMMA InvStop ==
    ASSUME IInv, TypeOK', NEW v \in Variant, NEW p,
           \/ proc[v] = "kernel" /\ p \in {"exit", "zombie"}
           \/ Alive(v) /\ p = "zombie"
           \/ proc[v] = "user" /\ p = "signal",
           proc' = [proc EXCEPT ![v] = p], news' = [news EXCEPT ![v] = TRUE],
           UNCHANGED <<regs, state, syscallNum, syscallInfo, pc, who, status,
                       exec, issued, released, call>>
    PROVE  IInv'
<1>1. /\ proc'[v] = p
      /\ \A w \in Variant \ {v} : proc'[w] = proc[w] /\ news'[w] = news[w]
  BY DEF IInv, TypeOK
<1>2. /\ regs' = regs /\ state' = state /\ syscallNum' = syscallNum
      /\ syscallInfo' = syscallInfo /\ pc' = pc /\ who' = who
      /\ status' = status /\ exec' = exec /\ issued' = issued
      /\ released' = released /\ call' = call
  OBVIOUS
<1>3. Alive(v) /\ proc[v] \notin {"gone", "orphan", "none", "zombie"}
  BY DEF Alive, Stopped
<1>4. \A w \in Variant : Alive(w)' => Alive(w) /\ Due(w)' = Due(w)
  BY <1>1, <1>2, <1>3 DEF Alive, Stopped, Due
<1>5. Counting'
  BY <1>1, <1>2, <1>3 DEF IInv, Counting, Alive, Stopped
<1>6. Rendezvous'
  BY <1>2 DEF IInv, Rendezvous
<1>7. StartAndEnd'
  BY <1>1, <1>2, <1>3 DEF IInv, StartAndEnd, Variant, Alive, Stopped
<1>8. InStep'
  BY <1>2, <1>4 DEF IInv, InStep, Variant
<1>9. WaitRecord'
  BY <1>1, <1>2, <1>3 DEF IInv, WaitRecord, Waiting
<1>10. WaitNumber'
  BY <1>2, <1>4, ConstantTypes DEF IInv, WaitNumber, Waiting
<1>11. InExecutor'
  BY <1>2, <1>4 DEF IInv, InExecutor
<1>12. ExecutorAtMaster'
  BY <1>1, <1>2, <1>3 DEF IInv, ExecutorAtMaster, Variant
<1>13. ExecutorAtReplica'
  BY <1>1, <1>2, <1>3 DEF IInv, ExecutorAtReplica, E, Variant
<1>14. AtEvent'
  BY <1>1, <1>2, <1>3 DEF IInv, AtEvent
<1>15. Reports'
  <2>1. Held(v) => p = "zombie"
    BY DEF IInv, AtEvent, ExecutorAtMaster, ExecutorAtReplica, Held
  <2> QED
    BY <1>1, <1>2, <1>3, <2>1 DEF IInv, Reports, Waiting, Held, Alive, Stopped
<1> QED
  BY <1>5, <1>6, <1>7, <1>8, <1>9, <1>10, <1>11, <1>12, <1>13, <1>14, <1>15
     DEF IInv

LEMMA InvKernelReturn ==
    ASSUME IInv, TypeOK', NEW v \in Variant, KernelReturn(v)
    PROVE  IInv'
<1> USE DEF recordVars, localVars, historyVars
<1> DEFINE p == IF regs[v].nr = "exit_group" THEN "zombie" ELSE "exit"
<1>1. proc[v] = "kernel" /\ p \in {"exit", "zombie"}
  BY DEF KernelReturn
<1>2. /\ proc' = [proc EXCEPT ![v] = p] /\ news' = [news EXCEPT ![v] = TRUE]
      /\ UNCHANGED <<regs, state, syscallNum, syscallInfo, pc, who, status,
                     exec, issued, released, call>>
  BY DEF KernelReturn
<1> HIDE DEF p
<1> QED
  BY <1>1, <1>2, InvStop

LEMMA InvKill ==
    ASSUME IInv, TypeOK', NEW v \in Variant, Kill(v)
    PROVE  IInv'
BY InvStop DEF Kill, recordVars, localVars, historyVars

LEMMA InvSignal ==
    ASSUME IInv, TypeOK', NEW v \in Variant, Signal(v)
    PROVE  IInv'
BY InvStop DEF Signal, recordVars, localVars, historyVars

-----------------------------------------------------------------------------
(* The start of the variants, and the collection of their reports          *)

LEMMA InvInitVariant ==
    ASSUME IInv, TypeOK', NEW v \in Variant, initVariant(v)
    PROVE  IInv'
<1> USE DEF recordVars, localVars, historyVars
<1>1. PICK p \in {"user", "gone"} : proc' = [proc EXCEPT ![v] = p]
  BY DEF initVariant
<1>2. /\ pc = IF v = "master" THEN "startMaster" ELSE "startReplica"
      /\ pc' = IF v = "master" THEN "startReplica" ELSE "waitAny"
      /\ news' = news /\ regs' = regs /\ call' = call
      /\ issued' = issued /\ released' = released
  BY DEF initVariant
<1>3. /\ \A w \in Variant : syscallNum'[w] = 0 /\ state'[w] = "running"
                            /\ released[w] = 0
      /\ proc[v] = "none" /\ proc["master"] \notin {"kernel", "exit"}
      /\ proc["replica"] = "none"
  BY <1>2 DEF initVariant, IInv, TypeOK, StartAndEnd, Variant
<1>4. /\ proc'[v] \in {"user", "gone"}
      /\ \A w \in Variant \ {v} : proc'[w] = proc[w]
  BY <1>1 DEF IInv, TypeOK
<1>5. Counting'
  BY <1>2, <1>3, <1>4 DEF IInv, Counting
<1>6. Rendezvous'
  BY <1>2 DEF IInv, Rendezvous
<1>7. StartAndEnd'
  BY <1>2, <1>3, <1>4 DEF StartAndEnd, Variant
<1>8. InStep'
  <2>1. proc'["master"] \notin {"kernel", "exit"}
    BY <1>3, <1>4 DEF Variant
  <2>2. pc' \in Main => v = "replica" /\ proc'["replica"] \in {"user", "gone"}
    BY <1>2, <1>4 DEF Main, Variant
  <2> QED
    BY <1>2, <1>3, <2>1, <2>2 DEF InStep, Due, Variant
<1>9. WaitRecord' /\ WaitNumber'
  BY <1>3 DEF WaitRecord, WaitNumber, Waiting
<1>10. InExecutor' /\ ExecutorAtMaster' /\ ExecutorAtReplica' /\ AtEvent'
  BY <1>2 DEF InExecutor, ExecutorAtMaster, ExecutorAtReplica, AtEvent, InCall
<1>11. Reports'
  BY <1>2, <1>3, <1>4 DEF IInv, Reports, Waiting, InCall, Held, Stopped, Variant
<1> QED
  BY <1>5, <1>6, <1>7, <1>8, <1>9, <1>10, <1>11 DEF IInv

\* What waitpid changes, and what that leaves alone.
LEMMA CollectFacts ==
    ASSUME IInv, NEW v \in Variant, NEW next, Collect(v, next),
           pc # "exited"
    PROVE  /\ news[v] /\ ~news'[v] /\ pc' = next
           /\ proc[v] \in {"entry", "exit", "signal", "zombie"}
           /\ \/ proc[v] = "zombie" /\ proc'[v] = "gone" /\ status' = "exited"
              \/ proc[v] # "zombie" /\ proc'[v] = proc[v] /\ status' = "stopped"
           /\ \A w \in Variant \ {v} : proc'[w] = proc[w] /\ news'[w] = news[w]
           /\ \A w \in Variant : Alive(w)' = Alive(w) /\ Due(w)' = Due(w)
           /\ UNCHANGED <<regs, state, syscallNum, syscallInfo, exec, issued,
                          released, call>>
           /\ Counting' /\ Rendezvous' /\ WaitRecord'
<1> USE DEF recordVars, historyVars
<1>1. /\ news[v] /\ ~news'[v] /\ pc' = next
      /\ \/ proc[v] = "zombie" /\ proc'[v] = "gone" /\ status' = "exited"
         \/ proc[v] # "zombie" /\ proc'[v] = proc[v] /\ status' = "stopped"
      /\ \A w \in Variant \ {v} : proc'[w] = proc[w] /\ news'[w] = news[w]
  BY DEF Collect, IInv, TypeOK
<1>2. UNCHANGED <<regs, state, syscallNum, syscallInfo, exec, issued,
                  released, call>>
  BY DEF Collect
<1>3. proc[v] \in {"entry", "exit", "signal", "zombie"}
  BY <1>1 DEF IInv, Reports
<1>4. \A w \in Variant : Alive(w)' = Alive(w) /\ Due(w)' = Due(w)
  BY <1>1, <1>2 DEF Alive, Stopped, Due
<1>5. Counting'
  BY <1>1, <1>2 DEF IInv, Counting
<1>6. Rendezvous'
  BY <1>2 DEF IInv, Rendezvous
<1>7. WaitRecord'
  BY <1>1, <1>2 DEF IInv, WaitRecord, Waiting
<1> QED
  BY <1>1, <1>2, <1>3, <1>4, <1>5, <1>6, <1>7

LEMMA InvWaitAny ==
    ASSUME IInv, TypeOK', NEW v \in Variant, WaitAnyVariant(v)
    PROVE  IInv'
<1>1. Collect(v, "event") /\ pc = "waitAny" /\ who' = v
  BY DEF WaitAnyVariant
<1>2. /\ pc' = "event" /\ ~news'[v]
      /\ proc[v] \in {"entry", "exit", "signal", "zombie"}
      /\ \/ proc[v] = "zombie" /\ proc'[v] = "gone" /\ status' = "exited"
         \/ proc[v] # "zombie" /\ proc'[v] = proc[v] /\ status' = "stopped"
      /\ \A w \in Variant \ {v} : proc'[w] = proc[w] /\ news'[w] = news[w]
      /\ Counting' /\ Rendezvous' /\ WaitRecord'
  BY <1>1, CollectFacts DEF InCall
<1>3. /\ \A w \in Variant : Alive(w)' = Alive(w) /\ Due(w)' = Due(w)
      /\ regs' = regs /\ state' = state /\ syscallNum' = syscallNum
      /\ syscallInfo' = syscallInfo /\ issued' = issued
      /\ released' = released /\ call' = call
  BY <1>1, CollectFacts DEF InCall
<1>4. StartAndEnd' /\ InExecutor' /\ ExecutorAtMaster' /\ ExecutorAtReplica'
  BY <1>2 DEF StartAndEnd, InExecutor, ExecutorAtMaster, ExecutorAtReplica, InCall
<1>5. InStep'
  BY <1>1, <1>3 DEF IInv, InStep, Main, Variant
<1>6. WaitNumber'
  BY <1>1, <1>3, ConstantTypes DEF IInv, WaitNumber, Waiting, Main
<1>7. AtEvent'
  BY <1>1, <1>2 DEF AtEvent
<1>8. Reports'
  BY <1>1, <1>2, <1>3 DEF IInv, Reports, Waiting, InCall, Held, Stopped
<1> QED
  BY <1>2, <1>4, <1>5, <1>6, <1>7, <1>8 DEF IInv

LEMMA InvWaitInCall ==
    ASSUME IInv, TypeOK', WaitMaster \/ WaitReplica
    PROVE  IInv'
<1>1. PICK v \in Variant : \E next \in {"gotMaster", "gotReplica"} :
          /\ Collect(v, next) /\ pc \in InCall
          /\ \/ v = "master" /\ pc = "waitMaster" /\ next = "gotMaster"
             \/ v = "replica" /\ pc = "waitReplica" /\ next = "gotReplica"
  BY DEF WaitMaster, WaitReplica, waitVariant, InCall, Variant
<1>2. /\ \/ v = "master" /\ pc = "waitMaster" /\ pc' = "gotMaster"
         \/ v = "replica" /\ pc = "waitReplica" /\ pc' = "gotReplica"
      /\ news[v] /\ ~news'[v]
      /\ proc[v] \in {"entry", "exit", "signal", "zombie"}
      /\ \/ proc[v] = "zombie" /\ proc'[v] = "gone" /\ status' = "exited"
         \/ proc[v] # "zombie" /\ proc'[v] = proc[v] /\ status' = "stopped"
      /\ \A w \in Variant \ {v} : proc'[w] = proc[w] /\ news'[w] = news[w]
      /\ Counting' /\ Rendezvous' /\ WaitRecord'
  BY <1>1, CollectFacts DEF InCall
<1>3. /\ \A w \in Variant : Alive(w)' = Alive(w)
      /\ regs' = regs /\ state' = state /\ syscallNum' = syscallNum
      /\ syscallInfo' = syscallInfo /\ issued' = issued
      /\ released' = released /\ call' = call /\ exec' = exec
  BY <1>1, CollectFacts DEF InCall
<1>4. StartAndEnd' /\ InStep' /\ WaitNumber' /\ AtEvent'
  BY <1>2 DEF StartAndEnd, InStep, WaitNumber, AtEvent, Main
<1>5. InExecutor'
  BY <1>1, <1>3 DEF IInv, InExecutor
<1>6. ExecutorAtMaster'
  BY <1>2 DEF IInv, ExecutorAtMaster, Variant
<1>7. ExecutorAtReplica'
  BY <1>2, <1>3 DEF IInv, ExecutorAtReplica, Reports, InCall, E, Variant
<1>8. Reports'
  BY <1>1, <1>2, <1>3 DEF IInv, Reports, Waiting, Held, Stopped
<1> QED
  BY <1>2, <1>4, <1>5, <1>6, <1>7, <1>8 DEF IInv

-----------------------------------------------------------------------------
(* The end of the monitor                                                  *)

\* What requestSyscallInfo finds when the loop handles a stop.
LEMMA HandlingFacts ==
    ASSUME IInv, NEW op, Handling(op)
    PROVE  /\ pc = "event" /\ status = "stopped" /\ who \in Variant
           /\ syscallInfo'[who] = SyscallInfo(who)
           /\ \A w \in Variant \ {who} : syscallInfo'[w] = syscallInfo[w]
           /\ SyscallInfo(who).op = op
           /\ op = "entry" => /\ proc[who] = "entry"
                              /\ SyscallInfo(who).nr = call[who].nr
                              /\ SyscallInfo(who).args = call[who].args
           /\ op = "exit" => proc[who] = "exit"
           /\ op = "none" => proc[who] \in {"signal", "zombie"}
<1>1. /\ pc = "event" /\ status = "stopped" /\ who \in Variant
      /\ syscallInfo'[who] = SyscallInfo(who)
      /\ \A w \in Variant \ {who} : syscallInfo'[w] = syscallInfo[w]
      /\ SyscallInfo(who).op = op
  BY DEF Handling, requestSyscallInfo, IInv, TypeOK
<1>2. proc[who] \in {"entry", "exit", "signal", "zombie"}
  BY <1>1 DEF IInv, AtEvent
<1>3. CASE proc[who] = "entry"
  <2>1. SyscallInfo(who) = [op |-> "entry", nr |-> regs[who].nr,
                            args |-> regs[who].args, rval |-> 0]
    BY <1>3 DEF SyscallInfo
  <2>2. regs[who] = call[who]
    BY <1>1, <1>3 DEF IInv, Reports
  <2> QED
    BY <1>1, <1>3, <2>1, <2>2
<1>4. CASE proc[who] = "exit"
  <2>1. SyscallInfo(who) = [NoInfo EXCEPT !.op = "exit", !.rval = rax[who]]
    BY <1>4 DEF SyscallInfo
  <2>2. SyscallInfo(who).op = "exit"
    BY <2>1 DEF NoInfo
  <2> QED
    BY <1>1, <1>4, <2>2
<1>5. CASE proc[who] \in {"signal", "zombie"}
  <2>1. SyscallInfo(who).op = "none"
    BY <1>5 DEF SyscallInfo, NoInfo
  <2> QED
    BY <1>1, <1>5, <2>1
<1> QED
  BY <1>2, <1>3, <1>4, <1>5

\* Every way the monitor ends, from what it leaves of the history and records.
LEMMA InvExit ==
    ASSUME IInv, TypeOK', NEW how, NEW killed, Exit(how, killed),
           \A v \in Variant : /\ released'[v] <= issued[Other(v)]
                              /\ released'[v] <= issued[v]
                              /\ issued[v] <= released'[v] + 1,
           \A v \in Variant : Waiting(v)' /\ released'[v] < issued[v] =>
                                  /\ syscallInfo'[v].nr = call[v].nr
                                  /\ syscallInfo'[v].args = call[v].args
    PROVE  IInv'
<1>1. /\ pc' = "exited" /\ issued' = issued /\ call' = call /\ regs' = regs
      /\ \A v \in Variant : proc'[v] \in {"gone", "orphan"} /\ news'[v] = FALSE
  BY DEF Exit
<1>2. Counting'
  BY <1>1 DEF Counting
<1>3. Rendezvous'
  BY <1>1 DEF Rendezvous
<1>4. StartAndEnd'
  BY <1>1 DEF StartAndEnd
<1>5. /\ InStep' /\ WaitNumber' /\ InExecutor' /\ ExecutorAtMaster'
      /\ ExecutorAtReplica' /\ AtEvent'
  BY <1>1 DEF InStep, WaitNumber, InExecutor, ExecutorAtMaster,
              ExecutorAtReplica, AtEvent, Main, InCall
<1>6. WaitRecord'
  BY <1>1 DEF WaitRecord
<1>7. Reports'
  BY <1>1 DEF Reports, Stopped
<1> QED
  BY <1>2, <1>3, <1>4, <1>5, <1>6, <1>7 DEF IInv

\* The counts as IInv has them, for the ends that let nobody through.
LEMMA CountsKept ==
    ASSUME IInv, released' = released
    PROVE  \A v \in Variant : /\ released'[v] <= issued[Other(v)]
                              /\ released'[v] <= issued[v]
                              /\ issued[v] <= released'[v] + 1
BY DEF IInv, Counting, Rendezvous

LEMMA InvEndOfLoop ==
    ASSUME IInv, TypeOK', UnknownChild \/ LeaveLoop
    PROVE  IInv'
<1>1. /\ released' = released /\ state' = state /\ syscallInfo' = syscallInfo
      /\ \E how : Exit(how, {})
  BY DEF UnknownChild, LeaveLoop, recordVars
<1>2. \A v \in Variant : Waiting(v)' /\ released'[v] < issued[v] =>
                            /\ syscallInfo'[v].nr = call[v].nr
                            /\ syscallInfo'[v].args = call[v].args
  BY <1>1 DEF IInv, WaitRecord, Waiting
<1> QED
  BY <1>1, <1>2, CountsKept, InvExit

\* The stop that was being handled is an entry with its own call, or none.
LEMMA InvRefusal ==
    ASSUME IInv, TypeOK', NEW how, NEW killed, Exit(how, killed),
           NEW op, Handling(op), released' = released, state' = state
    PROVE  IInv'
<1>1. ASSUME NEW v \in Variant, Waiting(v)', released'[v] < issued[v]
      PROVE  /\ syscallInfo'[v].nr = call[v].nr
             /\ syscallInfo'[v].args = call[v].args
  <2>1. CASE v = who
    BY <2>1, <1>1, HandlingFacts DEF Waiting
  <2>2. CASE v # who
    BY <2>2, <1>1, HandlingFacts DEF IInv, WaitRecord, Waiting
  <2> QED
    BY <2>1, <2>2
<1> QED
  BY <1>1, CountsKept, InvExit

LEMMA InvInvalidState ==
    ASSUME IInv, TypeOK', InvalidState
    PROVE  IInv'
BY InvRefusal DEF InvalidState

LEMMA InvRefuseCall ==
    ASSUME IInv, TypeOK', RefuseCall
    PROVE  IInv'
BY InvRefusal DEF RefuseCall, Fail

-----------------------------------------------------------------------------
(* The stops of the main loop                                              *)

LEMMA InvAwaitPartner ==
    ASSUME IInv, TypeOK', AwaitPartner
    PROVE  IInv'
<1>1. /\ Handling("entry") /\ ~Met /\ ~Late
      /\ state' = [state EXCEPT ![who] = "wait"] /\ pc' = "waitAny"
      /\ UNCHANGED <<proc, news, regs, syscallNum, who, status, exec, issued,
                     released, call>>
  BY DEF AwaitPartner, processVars, localVars, historyVars
<1>2. /\ pc = "event" /\ who \in Variant /\ proc[who] = "entry"
      /\ syscallInfo'[who].op = "entry"
      /\ syscallInfo'[who].nr = call[who].nr
      /\ syscallInfo'[who].args = call[who].args
      /\ \A w \in Variant \ {who} : syscallInfo'[w] = syscallInfo[w]
  BY <1>1, HandlingFacts
<1>3. /\ state'[who] = "wait"
      /\ \A w \in Variant \ {who} : state'[w] = state[w]
  BY <1>1 DEF IInv, TypeOK
<1>4. \A w \in Variant : Alive(w)' = Alive(w) /\ Due(w)' = Due(w)
  BY <1>1 DEF Alive, Stopped, Due
<1>5. Counting' /\ Rendezvous'
  BY <1>1 DEF IInv, Counting, Rendezvous
<1>6. /\ StartAndEnd' /\ InExecutor' /\ ExecutorAtMaster'
      /\ ExecutorAtReplica' /\ AtEvent'
  BY <1>1 DEF StartAndEnd, InExecutor, ExecutorAtMaster, ExecutorAtReplica,
              AtEvent, InCall
<1>7. InStep'
  BY <1>1, <1>2, <1>4 DEF IInv, InStep, Main, Variant
<1>8. WaitRecord'
  BY <1>1, <1>2, <1>3 DEF IInv, WaitRecord, Waiting
<1>9. WaitNumber'
  <2>1. ASSUME Alive(Other(who))
        PROVE  /\ Due(Other(who)) = syscallNum[who]
               /\ released[who] < issued[who]
               /\ released[who] = released[Other(who)]
    <3>1. /\ Due("master") = Due("replica")
          /\ released["master"] = released["replica"]
      BY <2>1, <1>2 DEF IInv, InStep, Main, Alive, Stopped, Variant, Other
    <3>2. Due(who) = syscallNum[who]
      BY <1>2 DEF Due, IInv, TypeOK
    <3>3. released[who] < issued[who]
      <4>1. Counting /\ released[who] \in Nat /\ issued[who] \in Nat
        BY <1>2 DEF IInv, TypeOK
      <4> QED
        BY <1>2, <4>1 DEF Counting
    <3>4. \/ who = "master" /\ Other(who) = "replica"
          \/ who = "replica" /\ Other(who) = "master"
      BY <1>2 DEF Variant, Other
    <3> QED
      BY <3>1, <3>2, <3>3, <3>4
  <2>2. syscallNum[who] \in Nat
    BY <1>2 DEF IInv, TypeOK
  <2>3. ASSUME NEW v \in Variant, Waiting(v)', Alive(Other(v))'
        PROVE  /\ Due(Other(v))' >= syscallNum'[v]
               /\ Due(Other(v))' = syscallNum'[v] =>
                      /\ released'[v] < issued'[v]
                      /\ released'[v] = released'[Other(v)]
    <3>1. CASE v = who
      BY <3>1, <2>1, <2>2, <2>3, <1>1, <1>4, ConstantTypes
    <3>2. CASE v # who
      <4>1. Waiting(v) /\ Alive(Other(v)) /\ Other(v) \in Variant
        BY <3>2, <2>3, <1>2, <1>3, <1>4, ConstantTypes DEF Waiting
      <4>2. /\ Due(Other(v)) >= syscallNum[v]
            /\ Due(Other(v)) = syscallNum[v] =>
                   /\ released[v] < issued[v]
                   /\ released[v] = released[Other(v)]
        BY <4>1, <1>2 DEF IInv, WaitNumber, Main
      <4> QED
        BY <4>1, <4>2, <1>1, <1>4
    <3> QED
      BY <3>1, <3>2
  <2> QED
    BY <2>3 DEF WaitNumber
<1>10. Reports'
  BY <1>1, <1>2, <1>3 DEF IInv, Reports, Waiting, Held, Stopped, InCall
<1> QED
  BY <1>5, <1>6, <1>7, <1>8, <1>9, <1>10 DEF IInv

LEMMA InvResumeFromExit ==
    ASSUME IInv, TypeOK', ResumeFromExit
    PROVE  IInv'
<1>1. /\ Handling("exit") /\ pc' = "waitAny"
      /\ resumeVariantFromExit({who})
      /\ UNCHANGED <<news, regs, issued, call>>
  BY DEF ResumeFromExit
<1>2. /\ pc = "event" /\ who \in Variant /\ proc[who] = "exit"
      /\ syscallInfo'[who].op = "exit"
      /\ \A w \in Variant \ {who} : syscallInfo'[w] = syscallInfo[w]
  BY <1>1, HandlingFacts
<1>3. /\ proc'[who] = "user" /\ syscallNum'[who] = syscallNum[who] + 1
      /\ \A w \in Variant \ {who} : /\ proc'[w] = proc[w]
                                    /\ syscallNum'[w] = syscallNum[w]
      /\ \A w \in Variant : released'[w] = released[w]
      /\ state' = state
  BY <1>1, <1>2 DEF resumeVariantFromExit, PtraceSyscall, Stopped
<1>4. ASSUME NEW w \in Variant
      PROVE  Alive(w)' = Alive(w) /\ Due(w)' = Due(w)
  <2>1. syscallNum[w] \in Nat
    BY DEF IInv, TypeOK
  <2>2. CASE w = who
    BY <2>1, <2>2, <1>2, <1>3 DEF Alive, Stopped, Due
  <2>3. CASE w # who
    BY <2>3, <1>3 DEF Alive, Stopped, Due
  <2> QED
    BY <2>2, <2>3
<1>5. Counting' /\ Rendezvous'
  BY <1>1, <1>2, <1>3, ConstantTypes DEF IInv, Counting, Rendezvous
<1>6. /\ StartAndEnd' /\ InExecutor' /\ ExecutorAtMaster'
      /\ ExecutorAtReplica' /\ AtEvent'
  BY <1>1 DEF StartAndEnd, InExecutor, ExecutorAtMaster, ExecutorAtReplica,
              AtEvent, InCall
<1>7. InStep'
  BY <1>2, <1>3, <1>4 DEF IInv, InStep, Main, Variant
<1>8. WaitRecord'
  BY <1>1, <1>2, <1>3 DEF IInv, WaitRecord, Waiting
<1>9. WaitNumber'
  <2>1. ASSUME NEW v \in Variant, Waiting(v)'
        PROVE  v # who /\ Waiting(v) /\ syscallNum'[v] = syscallNum[v]
    BY <2>1, <1>2, <1>3 DEF Waiting
  <2> QED
    BY <2>1, <1>1, <1>2, <1>3, <1>4, ConstantTypes DEF IInv, WaitNumber, Main
<1>10. Reports'
  BY <1>1, <1>2, <1>3 DEF IInv, Reports, Waiting, Held, Stopped, InCall
<1> QED
  BY <1>5, <1>6, <1>7, <1>8, <1>9, <1>10 DEF IInv

-----------------------------------------------------------------------------
(* The rendezvous                                                          *)

\* When the numbers meet and the calls are the same, both variants are at it:
\* each stands at its entry, or has died there.
LEMMA Meeting ==
    ASSUME IInv, Handling("entry"), Met, SameCall
    PROVE  /\ pc = "event" /\ status = "stopped"
           /\ syscallNum["master"] = syscallNum["replica"]
           /\ issued["master"] = issued["replica"]
           /\ \A v \in Variant :
                 /\ proc[v] \in {"entry", "zombie", "gone"}
                 /\ issued[v] = released[v] + 1 /\ released[v] \in Nat
                 /\ issued[v] = issued[Other(v)]
                 /\ InfoOf(v).nr = call[v].nr /\ InfoOf(v).args = call[v].args
                 /\ syscallInfo'[v].nr = call[v].nr
                 /\ syscallInfo'[v].args = call[v].args
                 /\ proc[v] = "entry" => ~news[v] /\ regs[v] = call[v]
<1> DEFINE w == Other(who)
<1>1. /\ pc = "event" /\ status = "stopped"
      /\ who \in Variant /\ proc[who] = "entry"
      /\ syscallInfo'[who] = SyscallInfo(who)
      /\ SyscallInfo(who).op = "entry"
      /\ SyscallInfo(who).nr = call[who].nr
      /\ SyscallInfo(who).args = call[who].args
      /\ \A v \in Variant \ {who} : syscallInfo'[v] = syscallInfo[v]
  BY HandlingFacts
<1>2. /\ w \in Variant /\ w # who /\ Other(w) = who
      /\ \A v \in Variant : v = who \/ v = w
      /\ \/ who = "master" /\ w = "replica"
         \/ who = "replica" /\ w = "master"
  BY <1>1 DEF Variant, Other
<1> HIDE DEF w
<1>3. InfoOf(who) = SyscallInfo(who) /\ InfoOf(w) = syscallInfo[w]
  BY <1>2 DEF InfoOf
<1>4. Waiting(w)
  BY <1>1, <1>2, <1>3 DEF SameCall, Met, Waiting, w
<1>5. syscallNum[who] = syscallNum[w]
  BY DEF Met, w
<1>6. released[w] < issued[w] /\ released[w] = released[who]
  <2>1. Due(who) = syscallNum[w]
    BY <1>1, <1>5 DEF Due, IInv, TypeOK
  <2> QED
    BY <2>1, <1>1, <1>2, <1>4 DEF IInv, WaitNumber, Main, Alive, Stopped
<1>7. /\ issued[who] = released[who] + 1 /\ issued[w] = released[w] + 1
      /\ released[who] \in Nat /\ released[w] \in Nat
  BY <1>1, <1>2, <1>6 DEF IInv, Counting, TypeOK
<1>8. proc[w] \in {"entry", "zombie", "gone"}
  <2>1. proc[w] \in {"entry", "kernel", "exit", "zombie", "gone"}
    BY <1>1, <1>2, <1>4 DEF IInv, WaitRecord
  <2>2. proc[w] \notin {"kernel", "exit"}
    BY <1>2, <1>6, <1>7 DEF IInv, Counting
  <2> QED
    BY <2>1, <2>2
<1>9. syscallInfo[w].nr = call[w].nr /\ syscallInfo[w].args = call[w].args
  BY <1>2, <1>4, <1>6 DEF IInv, WaitRecord
<1>10. \A v \in Variant : proc[v] = "entry" => ~news[v] /\ regs[v] = call[v]
  BY <1>1, <1>2, <1>4 DEF IInv, Reports, Held, Stopped
<1>11. /\ syscallNum["master"] = syscallNum["replica"]
       /\ issued["master"] = issued["replica"]
       /\ issued[who] = issued[w]
  BY <1>2, <1>5, <1>6, <1>7
<1>12. ASSUME NEW v \in Variant
       PROVE  /\ proc[v] \in {"entry", "zombie", "gone"}
              /\ issued[v] = released[v] + 1 /\ released[v] \in Nat
              /\ issued[v] = issued[Other(v)]
              /\ InfoOf(v).nr = call[v].nr /\ InfoOf(v).args = call[v].args
              /\ syscallInfo'[v].nr = call[v].nr
              /\ syscallInfo'[v].args = call[v].args
  <2>1. CASE v = who
    BY <2>1, <1>1, <1>3, <1>7, <1>11 DEF w
  <2>2. CASE v = w
    BY <2>2, <1>1, <1>2, <1>3, <1>7, <1>8, <1>9, <1>11
  <2> QED
    BY <1>2, <2>1, <2>2
<1> QED
  BY <1>1, <1>10, <1>11, <1>12

\* What a resume does to variants of which each is at its entry or dead.
LEMMA ResumedAtEntry ==
    ASSUME IInv, NEW S, PtraceSyscall(S),
           \A v \in Variant : /\ proc[v] \in {"entry", "zombie", "gone"}
                              /\ issued[v] = released[v] + 1
    PROVE  \A v \in Variant :
               \/ /\ v \in S /\ proc[v] = "entry"
                  /\ proc'[v] = "kernel" /\ released'[v] = issued[v]
               \/ /\ v \notin S \/ proc[v] # "entry"
                  /\ proc'[v] = proc[v] /\ released'[v] = released[v]
BY DEF PtraceSyscall, Stopped

\* Both variants resumed from the rendezvous, back to the main loop.
LEMMA InvBothResumed ==
    ASSUME IInv, TypeOK', Handling("entry"), Met, SameCall,
           PtraceSyscall(Variant), pc' = "waitAny",
           UNCHANGED <<news, regs, issued, call>>,
           \/ /\ \A v \in Variant : state'[v] = "running"
              /\ syscallNum' = syscallNum
           \/ \A v \in Variant : syscallNum'[v] = syscallNum[v] + 1
    PROVE  IInv'
<1>1. /\ syscallNum["master"] = syscallNum["replica"]
      /\ issued["master"] = issued["replica"]
      /\ \A v \in Variant :
            /\ proc[v] \in {"entry", "zombie", "gone"}
            /\ issued[v] = released[v] + 1 /\ released[v] \in Nat
            /\ issued[v] = issued[Other(v)]
            /\ syscallInfo'[v].nr = call[v].nr
            /\ syscallInfo'[v].args = call[v].args
            /\ proc[v] = "entry" => ~news[v] /\ regs[v] = call[v]
  BY Meeting
<1>2. \A v \in Variant :
          \/ /\ proc[v] = "entry" /\ proc'[v] = "kernel"
             /\ released'[v] = issued[v]
          \/ /\ proc[v] \in {"zombie", "gone"}
             /\ proc'[v] = proc[v] /\ released'[v] = released[v]
  BY <1>1, ResumedAtEntry
<1>3. Counting'
  BY <1>1, <1>2 DEF Counting
<1>4. Rendezvous'
  BY <1>1, <1>2 DEF Rendezvous
<1>5. /\ StartAndEnd' /\ InExecutor' /\ ExecutorAtMaster'
      /\ ExecutorAtReplica' /\ AtEvent'
  BY DEF StartAndEnd, InExecutor, ExecutorAtMaster, ExecutorAtReplica,
         AtEvent, InCall
<1>6. syscallNum["master"] \in Nat /\ syscallNum["replica"] \in Nat
  BY DEF IInv, TypeOK, Variant
<1>7. /\ \A v \in Variant : Alive(v)' => proc'[v] = "kernel"
      /\ syscallNum'["master"] = syscallNum'["replica"]
      /\ syscallNum'["master"] \in Nat
  BY <1>1, <1>2, <1>6 DEF Alive, Stopped, Variant
<1>8. InStep'
  BY <1>1, <1>2, <1>7 DEF InStep, Due, Variant, Alive, Stopped
<1>9. WaitRecord'
  BY <1>1, <1>2 DEF WaitRecord
<1>10. WaitNumber'
  <2>1. ASSUME NEW v \in Variant, Alive(Other(v))'
        PROVE  Due(Other(v))' = syscallNum'[v] + 1 /\ syscallNum'[v] \in Nat
    BY <2>1, <1>7, ConstantTypes DEF Due, Variant, Other
  <2> QED
    BY <2>1 DEF WaitNumber
<1>11. Reports'
  BY <1>1, <1>2 DEF IInv, Reports, Stopped
<1> QED
  BY <1>3, <1>4, <1>5, <1>8, <1>9, <1>10, <1>11 DEF IInv

LEMMA InvRunBoth ==
    ASSUME IInv, TypeOK', RunBoth \/ RunBothAsAtExit
    PROVE  IInv'
BY InvBothResumed
   DEF RunBoth, RunBothAsAtExit, Synchronising, resumeVariantFromWait,
       resumeVariantFromExit, localVars

LEMMA InvRefuseCallLate ==
    ASSUME IInv, TypeOK', RefuseCallLate
    PROVE  IInv'
<1>1. /\ Handling("entry") /\ Met /\ SameCall
      /\ Exit("syncFailed", Variant)
      /\ \A v \in Variant : /\ state'[v] = "running"
                            /\ released'[v] = IF proc[v] = "entry"
                                              THEN released[v] + 1
                                              ELSE released[v]
  BY DEF RefuseCallLate, Fail
<1>2. \A v \in Variant : /\ issued[v] = released[v] + 1 /\ released[v] \in Nat
                         /\ issued[v] = issued[Other(v)]
  BY <1>1, Meeting
<1>3. \A v \in Variant : ~Waiting(v)'
  BY <1>1 DEF Waiting
<1>4. \A v \in Variant : /\ released'[v] <= issued[Other(v)]
                         /\ released'[v] <= issued[v]
                         /\ issued[v] <= released'[v] + 1
  BY <1>1, <1>2
<1> QED
  BY <1>1, <1>3, <1>4, InvExit

\* The calls that an executor lets through are compatible.
LEMMA ComparedCalls ==
    ASSUME IInv, Handling("entry"), Met, SameCall, ArgumentsAgree,
           \A v \in Variant : Alive(v)
    PROVE  Compatible(call["master"], call["replica"])
<1>1. \A v \in Variant : /\ proc[v] = "entry"
                         /\ InfoOf(v).nr = call[v].nr
                         /\ InfoOf(v).args = call[v].args
  BY Meeting DEF Alive, Stopped
<1>2. \A v \in Variant : Memory(v) = call[v].args
  BY <1>1 DEF Memory, Stopped
<1>3. "master" \in Variant /\ "replica" \in Variant
  BY DEF Variant
<1>4. /\ call["master"].nr = call["replica"].nr
      /\ call["master"].nr \in Implemented
  BY <1>1, <1>3 DEF SameCall
<1>5. Agree(Executor[call["master"].nr], call["master"].args,
            call["replica"].args, call["master"].args, call["replica"].args)
  BY <1>1, <1>2, <1>3 DEF ArgumentsAgree, Executing
<1> QED
  BY <1>4, <1>5 DEF Compatible

LEMMA InvRunMaster ==
    ASSUME IInv, TypeOK', RunMaster
    PROVE  IInv'
<1>1. /\ Handling("entry") /\ Met /\ SameCall /\ ArgumentsAgree
      /\ PtraceSyscall({"master"})
      /\ state' = [v \in Variant |-> IF v \in {"master"} THEN "running"
                                                        ELSE state[v]]
      /\ exec' = [nr |-> InfoOf("master").nr, args |-> InfoOf("master").args]
      /\ pc' = "waitMaster"
      /\ UNCHANGED <<news, regs, syscallNum, issued, call>>
  BY DEF RunMaster, Synchronising, resumeVariantFromWait
<1>2. /\ syscallNum["master"] = syscallNum["replica"]
      /\ issued["master"] = issued["replica"]
      /\ \A v \in Variant :
            /\ proc[v] \in {"entry", "zombie", "gone"}
            /\ issued[v] = released[v] + 1 /\ released[v] \in Nat
            /\ issued[v] = issued[Other(v)]
            /\ InfoOf(v).nr = call[v].nr
            /\ syscallInfo'[v].nr = call[v].nr
            /\ syscallInfo'[v].args = call[v].args
            /\ proc[v] = "entry" => ~news[v] /\ regs[v] = call[v]
  BY <1>1, Meeting
<1>3. /\ "master" \in Variant /\ "replica" \in Variant
      /\ \/ /\ proc["master"] = "entry" /\ proc'["master"] = "kernel"
            /\ released'["master"] = issued["master"]
         \/ /\ proc["master"] \in {"zombie", "gone"}
            /\ proc'["master"] = proc["master"]
            /\ released'["master"] = released["master"]
      /\ proc'["replica"] = proc["replica"]
      /\ released'["replica"] = released["replica"]
  <2>1. \A v \in Variant : v \in {"master"} <=> v = "master"
    OBVIOUS
  <2>2. "master" \in Variant /\ "replica" \in Variant
    BY DEF Variant
  <2> QED
    BY <1>1, <1>2, <2>1, <2>2, ResumedAtEntry
<1>4. Counting'
  BY <1>1, <1>2, <1>3 DEF Counting, Variant
<1>5. Rendezvous'
  BY <1>1, <1>2, <1>3 DEF Rendezvous, Variant, Other
<1>6. /\ StartAndEnd' /\ InStep' /\ WaitNumber' /\ ExecutorAtReplica'
      /\ AtEvent'
  BY <1>1 DEF StartAndEnd, InStep, WaitNumber, ExecutorAtReplica, AtEvent, Main
<1>7. WaitRecord'
  BY <1>1, <1>2, <1>3 DEF WaitRecord, Waiting, Variant
<1>8. InExecutor'
  <2>1. ASSUME \A v \in Variant : Alive(v)'
        PROVE  Compatible(call["master"], call["replica"])
    <3>1. \A v \in Variant : Alive(v)
      BY <2>1, <1>3 DEF Alive, Stopped, Variant
    <3> QED
      BY <3>1, <1>1, ComparedCalls
  <2>2. state'["master"] = "running" /\ exec'.nr = call["master"].nr
    BY <1>1, <1>2, <1>3
  <2> QED
    BY <2>1, <2>2, <1>1, <1>2 DEF InExecutor
<1>9. ExecutorAtMaster'
  BY <1>1, <1>2, <1>3 DEF ExecutorAtMaster
<1>10. Reports'
  BY <1>1, <1>2, <1>3 DEF IInv, Reports, Stopped, Held, Variant
<1> QED
  BY <1>4, <1>5, <1>6, <1>7, <1>8, <1>9, <1>10 DEF IInv

-----------------------------------------------------------------------------
(* The rest of an executor                                                 *)

LEMMA InvVariantLost ==
    ASSUME IInv, TypeOK', VariantLost
    PROVE  IInv'
<1>1. /\ pc \in {"gotMaster", "gotReplica"} /\ status = "exited"
      /\ UNCHANGED <<state, syscallNum, syscallInfo, released>>
  BY DEF VariantLost, recordVars, historyVars
<1>2. CASE ~E.lax
  <2>1. Exit("syncFailed", Variant)
    BY <1>2 DEF VariantLost, Fail
  <2>2. \A v \in Variant : Waiting(v)' /\ released'[v] < issued[v] =>
                              /\ syscallInfo'[v].nr = call[v].nr
                              /\ syscallInfo'[v].args = call[v].args
    BY <1>1 DEF IInv, WaitRecord, Waiting
  <2> QED
    BY <1>1, <2>1, <2>2, CountsKept, InvExit
<1>3. CASE E.lax
  <2>1. /\ pc' = "waitAny"
        /\ UNCHANGED <<proc, news, regs, issued, call>>
    BY <1>3 DEF VariantLost, processVars, historyVars
  <2>2. Counting' /\ Rendezvous' /\ WaitRecord'
    BY <1>1, <2>1 DEF IInv, Counting, Rendezvous, WaitRecord, Waiting
  <2>3. /\ StartAndEnd' /\ InExecutor' /\ ExecutorAtMaster'
        /\ ExecutorAtReplica' /\ AtEvent'
    BY <2>1 DEF StartAndEnd, InExecutor, ExecutorAtMaster, ExecutorAtReplica,
                AtEvent, InCall
  <2>4. \/ proc["master"] = "gone"
        \/ proc["replica"] = "gone" /\ proc["master"] \in {"exit", "zombie"}
        \/ proc["replica"] = "gone" /\ proc["master"] = "gone"
    BY <1>1 DEF IInv, ExecutorAtMaster, ExecutorAtReplica
  <2>5. InStep'
    BY <2>1, <2>4 DEF InStep, Alive, Stopped, Variant
  <2>6. WaitNumber'
    <3>1. /\ ~Waiting("master")'
          /\ syscallNum["master"] = syscallNum["replica"]
          /\ syscallNum["master"] \in Nat
      BY <1>1, <2>1 DEF IInv, InExecutor, InCall, Waiting, TypeOK, Variant
    <3>2. Alive("master")' => Due("master")' = syscallNum'["replica"] + 1
      BY <1>1, <2>1, <2>4, <3>1 DEF Alive, Stopped, Due
    <3>3. syscallNum'["replica"] \in Nat
      BY <1>1, <3>1
    <3> QED
      BY <3>1, <3>2, <3>3 DEF WaitNumber, Variant, Other
  <2>7. Reports'
    <3>1. ASSUME NEW v \in Variant, proc[v] = "entry"
          PROVE  pc = "gotMaster" /\ regs[v] = call[v] /\ ~news[v]
      <4>1. pc = "gotMaster"
        BY <1>1, <3>1 DEF IInv, ExecutorAtReplica, Variant
      <4> QED
        BY <3>1, <4>1 DEF IInv, Reports, InCall
    <3> QED
      BY <2>1, <3>1 DEF IInv, Reports, Held, Stopped
  <2> QED
    BY <2>2, <2>3, <2>5, <2>6, <2>7 DEF IInv
<1> QED
  BY <1>2, <1>3

\* Where the variants are when the master's exit has been collected.
LEMMA AtMastersExit ==
    ASSUME IInv, pc = "gotMaster", status = "stopped"
    PROVE  /\ "master" \in Variant /\ "replica" \in Variant
           /\ Variant = {"master", "replica"}
           /\ proc["master"] \in {"exit", "zombie"}
           /\ proc["replica"] \in {"entry", "zombie", "gone"}
           /\ issued["master"] = issued["replica"]
           /\ issued["master"] \in Nat
           /\ released["replica"] <= issued["replica"]
           /\ proc["master"] = "exit" => released["master"] = issued["master"]
           /\ proc["replica"] = "entry" =>
                  issued["replica"] = released["replica"] + 1
           /\ syscallNum["master"] = syscallNum["replica"]
           /\ syscallNum["master"] \in Nat
           /\ state["master"] = "running"
           /\ proc["master"] = "exit" => ~news["master"]
           /\ proc["replica"] = "entry" => ~news["replica"]
<1>1. "master" \in Variant /\ "replica" \in Variant
      /\ Variant = {"master", "replica"}
  BY DEF Variant
<1>2. /\ proc["master"] \in {"exit", "zombie"}
      /\ proc["replica"] \in {"entry", "zombie", "gone"}
      /\ issued["master"] = issued["replica"]
      /\ syscallNum["master"] = syscallNum["replica"]
      /\ state["master"] = "running"
  BY DEF IInv, ExecutorAtMaster, InExecutor, InCall
<1>3. /\ issued["master"] \in Nat /\ syscallNum["master"] \in Nat
      /\ released["replica"] <= issued["replica"]
      /\ proc["master"] = "exit" => released["master"] = issued["master"]
      /\ proc["replica"] = "entry" =>
             issued["replica"] = released["replica"] + 1
  BY <1>1 DEF IInv, TypeOK, Counting
<1>4. /\ proc["master"] = "exit" => ~news["master"]
      /\ proc["replica"] = "entry" => ~news["replica"]
  BY <1>1 DEF IInv, Reports, Held, Stopped, InCall
<1> QED
  BY <1>1, <1>2, <1>3, <1>4

LEMMA InvRecordMapping ==
    ASSUME IInv, TypeOK', RecordMapping
    PROVE  IInv'
<1>1. /\ pc = "gotMaster" /\ status = "stopped" /\ pc' = "waitAny"
      /\ PtraceSyscall(Variant)
      /\ syscallNum' = [syscallNum EXCEPT !["master"] = @ + 1]
      /\ state' = [state EXCEPT !["replica"] = "running"]
      /\ UNCHANGED <<news, regs, issued, call>>
  BY DEF RecordMapping
<1>2. /\ proc["master"] \in {"exit", "zombie"}
      /\ proc["replica"] \in {"entry", "zombie", "gone"}
      /\ issued["master"] = issued["replica"]
      /\ proc["master"] = "exit" => released["master"] = issued["master"]
      /\ proc["replica"] = "entry" =>
             issued["replica"] = released["replica"] + 1
      /\ syscallNum["master"] = syscallNum["replica"]
      /\ syscallNum["master"] \in Nat
      /\ state["master"] = "running"
      /\ proc["master"] = "exit" => ~news["master"]
      /\ proc["replica"] = "entry" => ~news["replica"]
      /\ Variant = {"master", "replica"}
  BY <1>1, AtMastersExit
<1>3. /\ \/ /\ proc["master"] = "exit" /\ proc'["master"] = "user"
         \/ /\ proc["master"] = "zombie" /\ proc'["master"] = "zombie"
      /\ released'["master"] = released["master"]
      /\ \/ /\ proc["replica"] = "entry" /\ proc'["replica"] = "kernel"
            /\ released'["replica"] = released["replica"] + 1
         \/ /\ proc["replica"] \in {"zombie", "gone"}
            /\ proc'["replica"] = proc["replica"]
            /\ released'["replica"] = released["replica"]
  BY <1>1, <1>2 DEF PtraceSyscall, Stopped
<1>4. /\ syscallNum'["master"] = syscallNum["master"] + 1
      /\ syscallNum'["replica"] = syscallNum["replica"]
      /\ \A v \in Variant : state'[v] = "running"
  BY <1>1, <1>2 DEF IInv, TypeOK
<1>5. Counting'
  <2>1. /\ Counting /\ issued' = issued
        /\ \A v \in Variant : issued[v] \in Nat /\ released[v] \in Nat
    BY <1>1 DEF IInv, TypeOK
  <2> QED
    BY <1>2, <1>3, <2>1 DEF Counting
<1>6. Rendezvous'
  BY <1>1, <1>2, <1>3 DEF IInv, Rendezvous, Counting, TypeOK, Other
<1>7. /\ StartAndEnd' /\ InExecutor' /\ ExecutorAtMaster'
      /\ ExecutorAtReplica' /\ AtEvent'
  BY <1>1 DEF StartAndEnd, InExecutor, ExecutorAtMaster, ExecutorAtReplica,
              AtEvent, InCall
<1>8. InStep'
  BY <1>2, <1>3, <1>4 DEF InStep, Due, Alive, Stopped
<1>9. WaitRecord' /\ WaitNumber'
  BY <1>4 DEF WaitRecord, WaitNumber, Waiting
<1>10. Reports'
  BY <1>1, <1>2, <1>3 DEF IInv, Reports, Stopped
<1> QED
  BY <1>5, <1>6, <1>7, <1>8, <1>9, <1>10 DEF IInv

LEMMA InvTransferFailed ==
    ASSUME IInv, TypeOK', TransferFailed
    PROVE  IInv'
<1>1. /\ pc = "gotMaster" /\ Exit("syncFailed", Variant)
      /\ released' = released /\ state' = state
      /\ syscallInfo'["replica"] = syscallInfo["replica"]
  BY DEF TransferFailed, MasterDone, Fail, requestSyscallInfo, IInv, TypeOK, Variant
<1>2. state["master"] = "running"
  BY <1>1 DEF IInv, InExecutor, InCall
<1>3. \A v \in Variant : Waiting(v)' /\ released'[v] < issued[v] =>
                            /\ syscallInfo'[v].nr = call[v].nr
                            /\ syscallInfo'[v].args = call[v].args
  BY <1>1, <1>2 DEF IInv, WaitRecord, Waiting, Variant
<1> QED
  BY <1>1, <1>3, CountsKept, InvExit

LEMMA InvRunReplica ==
    ASSUME IInv, TypeOK', RunReplica
    PROVE  IInv'
<1> DEFINE held == E.sub = "held"
<1>1. /\ pc = "gotMaster" /\ status = "stopped" /\ pc' = "waitReplica"
      /\ resumeVariantFromWait(IF held THEN {} ELSE {"replica"})
      /\ \A v \in Variant \ {"replica"} : regs'[v] = regs[v]
      /\ UNCHANGED <<news, status, exec, issued, call, syscallNum>>
      /\ syscallInfo'["replica"] = syscallInfo["replica"]
  BY DEF RunReplica, MasterDone, requestSyscallInfo, resumeVariantFromWait,
         IInv, TypeOK, Variant
<1> HIDE DEF held
<1>2. /\ Variant = {"master", "replica"}
      /\ proc["master"] \in {"exit", "zombie"}
      /\ proc["replica"] \in {"entry", "zombie", "gone"}
      /\ issued["master"] = issued["replica"]
      /\ proc["replica"] = "entry" =>
             issued["replica"] = released["replica"] + 1
      /\ state["master"] = "running"
      /\ proc["master"] = "exit" => ~news["master"]
      /\ proc["replica"] = "entry" => ~news["replica"]
  BY <1>1, AtMastersExit
<1>3. /\ proc'["master"] = proc["master"]
      /\ released'["master"] = released["master"]
      /\ state'["master"] = "running"
  BY <1>1, <1>2 DEF resumeVariantFromWait, PtraceSyscall
<1>4. \/ /\ ~held /\ state'["replica"] = "running"
         /\ \/ /\ proc["replica"] = "entry" /\ proc'["replica"] = "kernel"
               /\ released'["replica"] = released["replica"] + 1
            \/ /\ proc["replica"] \in {"zombie", "gone"}
               /\ proc'["replica"] = proc["replica"]
               /\ released'["replica"] = released["replica"]
      \/ /\ held /\ state'["replica"] = state["replica"]
         /\ proc'["replica"] = proc["replica"]
         /\ released'["replica"] = released["replica"]
  <2>1. CASE held
    BY <2>1, <1>1, <1>2 DEF resumeVariantFromWait, PtraceSyscall
  <2>2. CASE ~held
    BY <2>2, <1>1, <1>2 DEF resumeVariantFromWait, PtraceSyscall, Stopped
  <2> QED
    BY <2>1, <2>2
<1>5. Counting'
  <2>1. /\ Counting /\ issued' = issued
        /\ \A v \in Variant : issued[v] \in Nat /\ released[v] \in Nat
    BY <1>1 DEF IInv, TypeOK
  <2> QED
    BY <1>2, <1>3, <1>4, <2>1 DEF Counting
<1>6. Rendezvous'
  <2>1. /\ Rendezvous /\ Counting /\ issued' = issued
        /\ \A v \in Variant : issued[v] \in Nat /\ released[v] \in Nat
    BY <1>1 DEF IInv, TypeOK
  <2> QED
    BY <1>2, <1>3, <1>4, <2>1 DEF Rendezvous, Counting, Other
<1>7. /\ StartAndEnd' /\ InStep' /\ WaitNumber' /\ ExecutorAtMaster'
      /\ AtEvent'
  BY <1>1 DEF StartAndEnd, InStep, WaitNumber, ExecutorAtMaster, AtEvent, Main
<1>8. WaitRecord'
  BY <1>1, <1>2, <1>3, <1>4 DEF IInv, WaitRecord, Waiting
<1>9. InExecutor'
  <2>1. (\A v \in Variant : Alive(v)') => \A v \in Variant : Alive(v)
    BY <1>2, <1>3, <1>4 DEF Alive, Stopped
  <2> QED
    BY <2>1, <1>1, <1>3 DEF IInv, InExecutor, InCall
<1>10. ExecutorAtReplica'
  BY <1>1, <1>2, <1>3, <1>4 DEF ExecutorAtReplica, E, held
<1>11. Reports'
  BY <1>1, <1>2, <1>3, <1>4 DEF IInv, Reports, Stopped, Held
<1> QED
  BY <1>5, <1>6, <1>7, <1>8, <1>9, <1>10, <1>11 DEF IInv

LEMMA InvFinishCall ==
    ASSUME IInv, TypeOK', FinishCall
    PROVE  IInv'
<1>1. /\ pc = "gotReplica" /\ status = "stopped" /\ pc' = "waitAny"
      /\ PtraceSyscall(Variant)
      /\ UNCHANGED <<news, regs, issued, call>>
      /\ \/ state' = [v \in Variant |-> "running"] /\ syscallNum' = syscallNum
         \/ /\ state' = state
            /\ syscallNum' = [v \in Variant |-> syscallNum[v] + 1]
  <2>1. \A v \in Variant : v \in Variant
    OBVIOUS
  <2> QED
    BY <2>1 DEF FinishCall, resumeVariantFromWait, resumeVariantFromExit
<1>2. /\ Variant = {"master", "replica"}
      /\ proc["master"] \in {"exit", "zombie", "gone"}
      /\ proc["replica"] \in {"exit", "zombie"}
      /\ issued["master"] = issued["replica"]
      /\ syscallNum["master"] = syscallNum["replica"]
      /\ syscallNum["master"] \in Nat
      /\ state["master"] = "running" /\ state["replica"] = "running"
      /\ \A v \in Variant : proc[v] = "exit" =>
             ~news[v] /\ released[v] = issued[v]
  <2>1. /\ Variant = {"master", "replica"}
        /\ proc["master"] \in {"exit", "zombie", "gone"}
        /\ proc["replica"] \in {"exit", "zombie"}
        /\ issued["master"] = issued["replica"]
        /\ syscallNum["master"] = syscallNum["replica"]
        /\ state["master"] = "running" /\ state["replica"] = "running"
    BY <1>1 DEF IInv, ExecutorAtReplica, InExecutor, InCall, Variant
  <2>2. syscallNum["master"] \in Nat
    BY <2>1 DEF IInv, TypeOK
  <2>3. \A v \in Variant : proc[v] = "exit" =>
            ~news[v] /\ released[v] = issued[v]
    BY <1>1, <2>1 DEF IInv, Counting, Reports, Held, Stopped
  <2> QED
    BY <2>1, <2>2, <2>3
<1>3. \A v \in Variant :
          /\ released'[v] = released[v] /\ state'[v] = "running"
          /\ \/ proc[v] = "exit" /\ proc'[v] = "user"
             \/ proc[v] \in {"zombie", "gone"} /\ proc'[v] = proc[v]
  BY <1>1, <1>2 DEF PtraceSyscall, Stopped
<1>4. syscallNum'["master"] = syscallNum'["replica"]
  BY <1>1, <1>2
<1>5. Counting'
  BY <1>1, <1>2, <1>3 DEF IInv, Counting
<1>6. Rendezvous'
  BY <1>1, <1>3 DEF IInv, Rendezvous
<1>7. /\ StartAndEnd' /\ InExecutor' /\ ExecutorAtMaster'
      /\ ExecutorAtReplica' /\ AtEvent'
  BY <1>1 DEF StartAndEnd, InExecutor, ExecutorAtMaster, ExecutorAtReplica,
              AtEvent, InCall
<1>8. InStep'
  BY <1>2, <1>3, <1>4 DEF InStep, Due, Alive, Stopped, IInv, TypeOK
<1>9. WaitRecord' /\ WaitNumber'
  BY <1>3 DEF WaitRecord, WaitNumber, Waiting
<1>10. Reports'
  BY <1>1, <1>2, <1>3 DEF IInv, Reports, Stopped
<1> QED
  BY <1>5, <1>6, <1>7, <1>8, <1>9, <1>10 DEF IInv

LEMMA InvStutter ==
    ASSUME IInv, TypeOK', UNCHANGED vars
    PROVE  IInv'
<1>1. UNCHANGED <<proc, news, regs, state, syscallNum, syscallInfo, pc, who,
                  status, exec, issued, released, call>>
  BY DEF vars, processVars, recordVars, localVars, historyVars
<1>2. Counting' /\ Rendezvous' /\ StartAndEnd' /\ InStep' /\ WaitRecord'
  BY <1>1 DEF IInv, Counting, Rendezvous, StartAndEnd, InStep, WaitRecord,
              Waiting, Due, Alive, Stopped
<1>3. WaitNumber' /\ InExecutor'
  BY <1>1 DEF IInv, WaitNumber, Waiting, InExecutor, Due, Alive, Stopped
<1>4. ExecutorAtMaster' /\ ExecutorAtReplica' /\ AtEvent' /\ Reports'
  BY <1>1 DEF IInv, ExecutorAtMaster, ExecutorAtReplica, AtEvent, Reports,
              Waiting, Held, Stopped, E
<1> QED
  BY <1>2, <1>3, <1>4 DEF IInv

-----------------------------------------------------------------------------
(* The theorems                                                            *)

LEMMA InvNext == IInv /\ [Next]_vars => IInv'
<1> SUFFICES ASSUME IInv, [Next]_vars PROVE IInv'
  OBVIOUS
<1>1. TypeOK'
  BY TypeStep DEF IInv
<1>2. CASE MonitorStep
  BY <1>1, <1>2, InvInitVariant, InvWaitAny, InvEndOfLoop, InvInvalidState,
     InvAwaitPartner, InvResumeFromExit, InvRefuseCall, InvRefuseCallLate,
     InvRunBoth, InvRunMaster, InvWaitInCall, InvVariantLost,
     InvRecordMapping, InvTransferFailed, InvRunReplica, InvFinishCall
     DEF MonitorStep
<1>3. ASSUME NEW v \in Variant, VariantStep(v) \/ Fault(v) PROVE IInv'
  BY <1>1, <1>3, InvIssue, InvKernelReturn, InvKill, InvSignal
     DEF VariantStep, Fault
<1>4. CASE UNCHANGED vars
  BY <1>1, <1>4, InvStutter
<1> QED
  BY <1>2, <1>3, <1>4 DEF Next, Terminated

\* The records of the monitor and the places of the variants fit together at
\* every step.
THEOREM InvCorrect == Spec => []IInv
BY InvInit, InvNext, PTL DEF Spec

\* No variant is let through a call that the other has not reached.
THEOREM RendezvousCorrect == Spec => []Rendezvous
<1>1. IInv => Rendezvous
  BY DEF IInv
<1> QED
  BY <1>1, InvCorrect, PTL

-----------------------------------------------------------------------------
(* The calls that run agree                                                *)

\* A step that lets nobody through and brings nobody to life keeps it.
LEMMA AgreedKept ==
    ASSUME AgreedCalls, issued' = issued, call' = call,
           \A v \in Variant : /\ released'[v] = released[v]
                              /\ Alive(v)' => Alive(v)
    PROVE  AgreedCalls'
BY DEF AgreedCalls

\* So does the end of the monitor, where no variant is traced any more.
LEMMA AgreedAtExit ==
    ASSUME NEW how, NEW killed, Exit(how, killed)
    PROVE  AgreedCalls'
BY DEF Exit, AgreedCalls, Alive, Stopped, Variant

\* A variant that asks has not been let through, and the other is not where it
\* was when it was.
LEMMA AgreedIssue ==
    ASSUME IInv, AgreedCalls, NEW v \in Variant, Issue(v)
    PROVE  AgreedCalls'
<1>1. /\ proc[v] = "user" /\ released' = released
      /\ issued' = [issued EXCEPT ![v] = @ + 1]
  BY DEF Issue
<1>2. /\ issued'[v] = issued[v] + 1 /\ released[v] = issued[v]
      /\ issued[v] \in Nat
      /\ issued'[Other(v)] = issued[Other(v)]
      /\ released[Other(v)] <= issued[v]
      /\ released[Other(v)] \in Nat
  BY <1>1, ConstantTypes DEF IInv, TypeOK, Counting, Rendezvous, Variant, Other
<1>3. \A w \in Variant : w = v \/ w = Other(v)
  BY DEF Variant, Other
<1>4. issued'["master"] = issued'["replica"] =>
          \A w \in Variant : released'[w] # issued'[w]
  BY <1>1, <1>2, <1>3 DEF Variant, Other
<1> QED
  BY <1>4 DEF AgreedCalls

LEMMA AgreedInitVariant ==
    ASSUME IInv, NEW v \in Variant, initVariant(v)
    PROVE  AgreedCalls'
<1>1. /\ issued' = issued /\ released' = released
      /\ pc \in {"startMaster", "startReplica"}
  BY DEF initVariant, historyVars
<1>2. /\ proc["replica"] = "none" /\ "replica" \in Variant
      /\ released["replica"] = 0
  BY <1>1 DEF IInv, StartAndEnd, Variant
<1>3. issued["replica"] = 0
  BY <1>2 DEF IInv, Counting
<1> QED
  BY <1>1, <1>3 DEF AgreedCalls, Variant

\* The executors that resume both at once have compared the calls.
LEMMA AgreedRunBoth ==
    ASSUME IInv, RunBoth \/ RunBothAsAtExit
    PROVE  AgreedCalls'
<1>1. /\ Handling("entry") /\ Met /\ SameCall /\ ArgumentsAgree
      /\ PtraceSyscall(Variant) /\ call' = call
  BY DEF RunBoth, RunBothAsAtExit, Synchronising, resumeVariantFromWait,
         resumeVariantFromExit
<1>2. \A v \in Variant : Alive(v)' => Alive(v)
  BY <1>1 DEF PtraceSyscall, Alive, Stopped
<1>3. (\A v \in Variant : Alive(v)') =>
          Compatible(call["master"], call["replica"])
  BY <1>1, <1>2, ComparedCalls
<1> QED
  BY <1>1, <1>3 DEF AgreedCalls

\* The others have, when they let the master through, and go on with the same
\* calls.
LEMMA AgreedInCall ==
    ASSUME IInv, IInv', (pc \in InCall /\ call' = call) \/ pc' \in InCall,
           \A v \in Variant : Alive(v)' => Alive(v)
    PROVE  AgreedCalls'
BY DEF IInv, InExecutor, AgreedCalls

LEMMA ResumeKeepsDead ==
    ASSUME NEW S, PtraceSyscall(S)
    PROVE  \A v \in Variant : Alive(v)' => Alive(v)
BY DEF PtraceSyscall, Alive, Stopped

LEMMA AgreedStep ==
    ASSUME IInv, IInv', AgreedCalls, [Next]_vars
    PROVE  AgreedCalls'
<1> USE DEF processVars, recordVars, localVars, historyVars
<1>1. ASSUME NEW v \in Variant, KernelReturn(v) \/ Kill(v) \/ Signal(v)
      PROVE  AgreedCalls'
  <2>1. issued' = issued /\ call' = call /\ released' = released
    BY <1>1 DEF KernelReturn, Kill, Signal
  <2>2. \A w \in Variant : Alive(w)' => Alive(w)
    BY <1>1 DEF KernelReturn, Kill, Signal, Alive, Stopped, IInv, TypeOK
  <2> QED
    BY <2>1, <2>2, AgreedKept
<1>2. ASSUME NEW v \in Variant, NEW next, Collect(v, next)
      PROVE  AgreedCalls'
  <2>1. issued' = issued /\ call' = call /\ released' = released
    BY <1>2 DEF Collect
  <2>2. \A w \in Variant : Alive(w)' => Alive(w)
    BY <1>2 DEF Collect, Alive, Stopped, IInv, TypeOK
  <2> QED
    BY <2>1, <2>2, AgreedKept
<1>3. CASE \/ UnknownChild \/ LeaveLoop \/ InvalidState \/ RefuseCall
           \/ RefuseCallLate \/ TransferFailed
  BY <1>3, AgreedAtExit
     DEF UnknownChild, LeaveLoop, InvalidState, RefuseCall, RefuseCallLate,
         TransferFailed, Fail
<1>4. CASE VariantLost
  <2>1. CASE E.lax
    <3>1. /\ issued' = issued /\ call' = call /\ released' = released
          /\ proc' = proc
      BY <1>4, <2>1 DEF VariantLost
    <3> QED
      BY <3>1, AgreedKept DEF Alive, Stopped
  <2>2. CASE ~E.lax
    BY <1>4, <2>2, AgreedAtExit DEF VariantLost, Fail
  <2> QED
    BY <2>1, <2>2
<1>5. CASE AwaitPartner \/ UNCHANGED vars
  <2>1. /\ issued' = issued /\ call' = call /\ released' = released
        /\ proc' = proc
    BY <1>5 DEF AwaitPartner, vars
  <2> QED
    BY <2>1, AgreedKept DEF Alive, Stopped
<1>6. CASE ResumeFromExit
  <2>1. /\ issued' = issued /\ call' = call /\ PtraceSyscall({who})
        /\ proc[who] = "exit"
    BY <1>6, HandlingFacts DEF ResumeFromExit, resumeVariantFromExit
  <2>2. \A v \in Variant : released'[v] = released[v]
    BY <2>1 DEF PtraceSyscall
  <2> QED
    BY <2>1, <2>2, ResumeKeepsDead, AgreedKept
<1>7. CASE RunMaster \/ RunReplica
  <2>1. pc' \in InCall /\ \E S : PtraceSyscall(S)
    BY <1>7 DEF RunMaster, RunReplica, resumeVariantFromWait, InCall
  <2> QED
    BY <2>1, ResumeKeepsDead, AgreedInCall
<1>8. CASE RecordMapping \/ FinishCall
  <2>1. pc \in InCall /\ call' = call /\ PtraceSyscall(Variant)
    BY <1>8 DEF RecordMapping, FinishCall, resumeVariantFromWait,
                resumeVariantFromExit, InCall
  <2> QED
    BY <2>1, ResumeKeepsDead, AgreedInCall
<1>9. CASE MonitorStep
  <2>1. ASSUME NEW v \in Variant, WaitAnyVariant(v) PROVE AgreedCalls'
    BY <2>1, <1>2 DEF WaitAnyVariant
  <2>2. CASE WaitMaster \/ WaitReplica
    BY <2>2, <1>2 DEF WaitMaster, WaitReplica, waitVariant, Variant
  <2> QED
    BY <1>9, <2>1, <2>2, <1>3, <1>4, <1>5, <1>6, <1>7, <1>8,
       AgreedInitVariant, AgreedRunBoth
       DEF MonitorStep
<1> QED
  BY <1>1, <1>5, <1>9, AgreedIssue DEF Next, VariantStep, Fault, Terminated

\* Variants that stand at the same call, one of them let through it, have made
\* calls that their executor takes for equivalent.
THEOREM AgreedCorrect == Spec => []AgreedCalls
<1>1. Init => AgreedCalls
  BY DEF Init, AgreedCalls
<1>2. IInv /\ IInv' /\ AgreedCalls /\ [Next]_vars => AgreedCalls'
  BY AgreedStep
<1> QED
  BY <1>1, <1>2, InvCorrect, PTL DEF Spec

-----------------------------------------------------------------------------
(* The master first                                                        *)

\* fadvise64 and rseq, which run before they refuse, resume both variants.
LEMMA LateRunsBoth ==
    ASSUME NEW n \in Implemented, Executor[n].late
    PROVE  Executor[n].run = "both"
<1>1. /\ ~noArguments.late /\ ~execSyscall_brk.late
      /\ ~execSyscall_setRobustList.late /\ ~execSyscall_arch_prctl.late
      /\ ~execSyscall_prlimit64.late /\ ~execSyscall_rt_sigaction.late
      /\ ~execSyscall_exit_group.late /\ ~execSyscall_lseek.late
  BY DEF runBoth, runBothCopyMasterRet, runMasterReplicateRet, noArguments,
         execSyscall_brk, execSyscall_setRobustList, execSyscall_arch_prctl,
         execSyscall_prlimit64, execSyscall_rt_sigaction,
         execSyscall_exit_group, execSyscall_lseek
<1>2. /\ ~execSyscall_socket.late /\ ~execSyscall_getcwd.late
      /\ ~execSyscall_chdir.late /\ ~execSyscall_setsockopt.late
      /\ ~execSyscall_rt_sigprocmask.late /\ ~execSyscall_shutdown.late
      /\ ~execSyscall_mprotect.late /\ ~execSyscall_munmap.late
  BY DEF runBoth, runBothCopyMasterRet, runMasterReplicateRet,
         execSyscall_socket, execSyscall_getcwd, execSyscall_chdir,
         execSyscall_setsockopt, execSyscall_rt_sigprocmask,
         execSyscall_shutdown, execSyscall_mprotect, execSyscall_munmap
<1>3. /\ ~execSyscall_mmap.late /\ ~execSyscall_setTidAddress.late
      /\ ~execSyscall_close.late /\ ~execSyscall_openat.late
      /\ ~execSyscall_getpid.late /\ ~execSyscall_fchmod.late
      /\ ~execSyscall_fchown.late /\ ~execSyscall_listen.late
  BY DEF runBoth, runBothCopyMasterRet, runMasterReplicateRet,
         execSyscall_mmap, execSyscall_setTidAddress, execSyscall_close,
         execSyscall_openat, execSyscall_getpid, execSyscall_fchmod,
         execSyscall_fchown, execSyscall_listen
<1>4. /\ ~execSyscall_unlink.late /\ ~execSyscall_utimensat.late
      /\ ~execSyscall_access.late /\ ~execSyscall_bind.late
      /\ ~execSyscall_accept4.late /\ ~execSyscall_getsockname.late
      /\ ~execSyscall_poll.late /\ ~execSyscall_newfstatat.late
  BY DEF runBoth, runBothCopyMasterRet, runMasterReplicateRet,
         execSyscall_unlink, execSyscall_utimensat, execSyscall_access,
         execSyscall_bind, execSyscall_accept4, execSyscall_getsockname,
         execSyscall_poll, execSyscall_newfstatat
<1>5. /\ ~execSyscall_pread64.late /\ ~execSyscall_getrandom.late
      /\ ~execSyscall_read.late /\ ~execSyscall_write.late
      /\ ~execSyscall_pselect6.late
  BY DEF runBoth, runBothCopyMasterRet, runMasterReplicateRet,
         execSyscall_pread64, execSyscall_getrandom, execSyscall_read,
         execSyscall_write, execSyscall_pselect6
<1>6. execSyscall_fadvise64.run = "both" /\ execSyscall_rseq.run = "both"
  BY DEF execSyscall_fadvise64, execSyscall_rseq, runBoth
<1> QED
  BY <1>1, <1>2, <1>3, <1>4, <1>5, <1>6
     DEF Implemented, Executor

\* Only RecordMapping and RunReplica let a replica through a call that its
\* executor serialises.
LEMMA MasterFirstStep ==
    ASSUME IInv, [Next]_vars, released'["replica"] > released["replica"],
           Executor[call["replica"].nr].run = "serial"
    PROVE  proc["master"] \in {"exit", "zombie"}
<1> USE DEF processVars, recordVars, localVars, historyVars
<1>1. "master" \in Variant /\ "replica" \in Variant
      /\ released["replica"] \in Nat
  BY DEF IInv, TypeOK, Variant
<1>2. released'["replica"] # released["replica"]
  BY <1>1
<1>3. ASSUME Handling("entry"), Met, SameCall
      PROVE  /\ Executing.run = "serial"
             /\ Executing = Executor[call["replica"].nr]
             /\ call["replica"].nr \in Implemented
  BY <1>1, <1>3, Meeting DEF Executing, SameCall
<1>4. CASE \E v \in Variant : \/ Issue(v) \/ KernelReturn(v) \/ Kill(v)
                              \/ Signal(v) \/ initVariant(v)
                              \/ WaitAnyVariant(v)
  BY <1>2, <1>4 DEF Issue, KernelReturn, Kill, Signal, initVariant,
                    WaitAnyVariant, Collect
<1>5. CASE \/ WaitMaster \/ WaitReplica \/ UnknownChild \/ LeaveLoop
           \/ InvalidState \/ AwaitPartner \/ RefuseCall \/ VariantLost
           \/ TransferFailed \/ UNCHANGED vars
  BY <1>2, <1>5 DEF WaitMaster, WaitReplica, waitVariant, Collect,
                    UnknownChild, LeaveLoop, InvalidState, AwaitPartner,
                    RefuseCall, VariantLost, TransferFailed, vars
<1>6. CASE ResumeFromExit
  <2>1. PtraceSyscall({who}) /\ proc[who] = "exit"
    BY <1>6, HandlingFacts DEF ResumeFromExit, resumeVariantFromExit
  <2> QED
    BY <2>1, <1>1, <1>2 DEF PtraceSyscall
<1>7. CASE RefuseCallLate
  <2>1. Handling("entry") /\ Met /\ SameCall /\ Executing.late
    BY <1>7 DEF RefuseCallLate
  <2> QED
    BY <2>1, <1>3, LateRunsBoth
<1>8. CASE RunBoth \/ RunBothAsAtExit
  <2>1. /\ Handling("entry") /\ Met /\ SameCall
        /\ Executing.run \in {"both", "skip"}
    BY <1>8 DEF RunBoth, RunBothAsAtExit, Synchronising
  <2> QED
    BY <2>1, <1>3
<1>9. CASE RunMaster
  <2>1. PtraceSyscall({"master"})
    BY <1>9 DEF RunMaster, resumeVariantFromWait
  <2> QED
    BY <2>1, <1>1, <1>2 DEF PtraceSyscall
<1>10. CASE RecordMapping \/ RunReplica
  BY <1>10, AtMastersExit DEF RecordMapping, RunReplica, MasterDone
<1>11. CASE FinishCall
  <2>1. PtraceSyscall(Variant) /\ pc = "gotReplica" /\ status = "stopped"
    BY <1>11 DEF FinishCall, resumeVariantFromWait, resumeVariantFromExit
  <2>2. proc["replica"] \in {"exit", "zombie"}
    BY <2>1 DEF IInv, ExecutorAtReplica
  <2> QED
    BY <2>1, <2>2, <1>1, <1>2 DEF PtraceSyscall
<1> QED
  BY <1>4, <1>5, <1>6, <1>7, <1>8, <1>9, <1>10, <1>11
     DEF Next, MonitorStep, VariantStep, Fault, Terminated

\* A replica is let through a serialised call only when its master is past it.
THEOREM MasterFirstCorrect == Spec => MasterFirst
<1>1. IInv /\ [Next]_vars =>
          [ /\ released'["replica"] > released["replica"]
            /\ Executor[call["replica"].nr].run = "serial"
            => proc["master"] \in {"exit", "zombie"} ]_vars
  BY MasterFirstStep
<1> QED
  BY <1>1, InvCorrect, PTL DEF Spec, MasterFirst

-----------------------------------------------------------------------------
(* The monitor implements the abstract lockstep                            *)

Lost == {v \in Variant : proc[v] \in {"zombie", "gone"}}

\* A step the abstract specification does not see.
LEMMA Unseen ==
    ASSUME call' = call, issued' = issued, released' = released,
           \A v \in Variant : proc'[v] \in {"zombie", "gone"} <=>
                                  proc[v] \in {"zombie", "gone"},
           (pc' = "exited") <=> (pc = "exited")
    PROVE  UNCHANGED LS!lockstepVars
<1>1. Lost' = Lost
  BY DEF Lost
<1> QED
  BY <1>1 DEF LS!lockstepVars, Lost

\* A variant ends: killed, at its exit_group, or before it starts.
LEMMA LoseStep ==
    ASSUME NEW v \in Variant, call' = call, issued' = issued,
           released' = released, pc # "exited", pc' # "exited",
           proc'[v] \in {"zombie", "gone"},
           \A w \in Variant \ {v} : proc'[w] = proc[w]
    PROVE  LS!Next
<1>1. Lost' = Lost \cup {v}
  BY DEF Lost
<1>2. LS!Lose(v)
  BY <1>1 DEF LS!Lose, Lost
<1> QED
  BY <1>2 DEF LS!Next, LS!Variant, Variant

\* The monitor ends and lets nobody through.
LEMMA StopStep ==
    ASSUME NEW how, NEW killed, Exit(how, killed), pc # "exited",
           released' = released
    PROVE  LS!Next
<1>1. Lost \subseteq Lost'
  BY DEF Exit, Lost, Alive, Stopped
<1>2. LS!Stop
  BY <1>1 DEF LS!Stop, LS!End, Exit, Lost
<1> QED
  BY <1>2 DEF LS!Next

\* Variants at the entry of one and the same call are let through it.
LEMMA LetThroughStep ==
    ASSUME IInv, IInv', pc # "exited",
           NEW S \in SUBSET Variant, \A v \in S : proc[v] = "entry",
           issued["master"] = issued["replica"],
           (\A v \in Variant : Alive(v)) =>
               Compatible(call["master"], call["replica"]),
           "replica" \in S => \/ "master" \in S
                              \/ proc["master"] \in {"zombie", "gone"}
                              \/ released["master"] = issued["master"],
           \A v \in Variant :
               /\ proc[v] \notin {"none", "orphan"}
               /\ released'[v] = IF v \in S THEN released[v] + 1
                                            ELSE released[v],
           call' = call, issued' = issued,
           \/ pc' = "exited" /\ Lost \subseteq Lost'
           \/ pc' # "exited" /\ Lost' = Lost
    PROVE  LS!Next
<1>1. /\ Variant = LS!Variant /\ released' \in [Variant -> Nat]
      /\ released \in [Variant -> Nat] /\ issued \in [Variant -> Nat]
  BY DEF Variant, LS!Variant, IInv, TypeOK
<1>2. \A v \in S : v \notin Lost /\ released[v] < issued[v]
  BY <1>1 DEF Lost, IInv, Counting
<1>3. Lost = {} /\ S # {} => \A v \in Variant : Alive(v)
  <2>1. SUFFICES ASSUME Lost = {}, NEW u \in S, NEW v \in Variant
                 PROVE  Alive(v)
    OBVIOUS
  <2>2. proc[v] \in ProcState \ {"zombie", "gone"}
    BY <2>1 DEF Lost, IInv, TypeOK
  <2>3. proc[v] # "orphan" /\ proc[v] # "none"
    BY <2>1
  <2> QED
    BY <2>2, <2>3 DEF ProcState, Alive, Stopped
<1>4. \A v \in S : LS!MayPass(v)
  BY <1>2, <1>3 DEF LS!MayPass, Lost
<1>5. "replica" \in S => \/ "master" \in S \cup Lost
                         \/ released["master"] = issued["master"]
  BY DEF Lost, Variant
<1>6. released' = [v \in LS!Variant |-> IF v \in S THEN released[v] + 1
                                                   ELSE released[v]]
  BY <1>1
<1>7. LS!End \/ (Lost' = Lost /\ (pc' = "exited") = (pc = "exited"))
  BY DEF LS!End, Lost
<1>8. LS!LetThrough(S)
  BY <1>4, <1>5, <1>6, <1>7 DEF LS!LetThrough, Lost
<1> QED
  BY <1>1, <1>8 DEF LS!Next

\* A resume lets those through that stand at an entry, and loses nobody.
LEMMA ResumeStep ==
    ASSUME IInv, IInv', pc # "exited", pc' # "exited",
           NEW T \in SUBSET Variant, PtraceSyscall(T),
           \A v \in Variant : proc[v] \notin {"none", "orphan"},
           issued["master"] = issued["replica"],
           (\A v \in Variant : Alive(v)) =>
               Compatible(call["master"], call["replica"]),
           "replica" \in T => \/ "master" \in T \/ proc["replica"] # "entry"
                              \/ proc["master"] \in {"zombie", "gone"}
                              \/ released["master"] = issued["master"],
           proc["master"] \in {"entry", "exit", "zombie", "gone"},
           call' = call, issued' = issued
    PROVE  LS!Next
<1> DEFINE S == {v \in T : proc[v] = "entry"}
<1>1. /\ S \in SUBSET Variant
      /\ \A v \in S : proc[v] = "entry"
  OBVIOUS
<1>2. \A v \in Variant :
          /\ proc[v] \notin {"none", "orphan"}
          /\ released'[v] = IF v \in S THEN released[v] + 1 ELSE released[v]
  BY DEF PtraceSyscall
<1>3. Lost' = Lost
  BY DEF PtraceSyscall, Lost, Stopped
<1>4. "replica" \in S => \/ "master" \in S
                         \/ proc["master"] \in {"zombie", "gone"}
                         \/ released["master"] = issued["master"]
  BY DEF IInv, Counting, Variant
<1> HIDE DEF S
<1> QED
  BY <1>1, <1>2, <1>3, <1>4, LetThroughStep

\* The executors that resume variants at the rendezvous.
LEMMA RendezvousStep ==
    ASSUME IInv, IInv', RunBoth \/ RunBothAsAtExit \/ RunMaster
    PROVE  LS!Next
<1>1. /\ Handling("entry") /\ Met /\ SameCall /\ ArgumentsAgree
      /\ call' = call /\ issued' = issued /\ pc' # "exited"
      /\ PtraceSyscall(Variant) \/ PtraceSyscall({"master"})
  BY DEF RunBoth, RunBothAsAtExit, RunMaster, Synchronising,
         resumeVariantFromWait, resumeVariantFromExit
<1>2. PICK T \in {Variant, {"master"}} : PtraceSyscall(T)
  BY <1>1
<1>3. /\ pc # "exited" /\ issued["master"] = issued["replica"]
      /\ \A v \in Variant : proc[v] \in {"entry", "zombie", "gone"}
  BY <1>1, Meeting
<1>4. (\A v \in Variant : Alive(v)) =>
          Compatible(call["master"], call["replica"])
  BY <1>1, ComparedCalls
<1>5. /\ T \in SUBSET Variant /\ "master" \in T
      /\ proc["master"] \in {"entry", "exit", "zombie", "gone"}
      /\ \A v \in Variant : proc[v] \notin {"none", "orphan"}
  BY <1>3 DEF Variant
<1> QED
  BY <1>1, <1>2, <1>3, <1>4, <1>5, ResumeStep

\* fadvise64 and rseq let the variants through and end the monitor.
LEMMA LateStep ==
    ASSUME IInv, IInv', RefuseCallLate
    PROVE  LS!Next
<1> DEFINE S == {v \in Variant : proc[v] = "entry"}
<1>1. /\ Handling("entry") /\ Met /\ SameCall /\ Executing.late
      /\ Exit("syncFailed", Variant)
      /\ \A v \in Variant : released'[v] = IF proc[v] = "entry"
                                            THEN released[v] + 1
                                            ELSE released[v]
  BY DEF RefuseCallLate, Fail
<1>2. /\ pc = "event" /\ issued["master"] = issued["replica"]
      /\ \A v \in Variant : /\ proc[v] \in {"entry", "zombie", "gone"}
                            /\ InfoOf(v).nr = call[v].nr
  BY <1>1, Meeting
<1>3. Compatible(call["master"], call["replica"])
  BY <1>1, <1>2 DEF Compatible, SameCall, Executing, Variant
<1>4. /\ call' = call /\ issued' = issued /\ pc' = "exited"
      /\ Lost \subseteq Lost'
  BY <1>1 DEF Exit, Lost, Alive, Stopped
<1>5. /\ S \in SUBSET Variant
      /\ \A v \in S : proc[v] = "entry"
      /\ "replica" \in S => \/ "master" \in S
                            \/ proc["master"] \in {"zombie", "gone"}
      /\ \A v \in Variant :
             /\ proc[v] \notin {"none", "orphan"}
             /\ released'[v] = IF v \in S THEN released[v] + 1
                                          ELSE released[v]
  BY <1>1, <1>2 DEF Variant
<1> HIDE DEF S
<1> QED
  BY <1>2, <1>3, <1>4, <1>5, LetThroughStep

\* The executors that resume variants after the master's part of the call.
LEMMA ExecutorStep ==
    ASSUME IInv, IInv', RecordMapping \/ RunReplica
    PROVE  LS!Next
<1>1. /\ pc = "gotMaster" /\ status = "stopped" /\ pc' # "exited"
      /\ call' = call /\ issued' = issued
      /\ \E T \in SUBSET Variant : PtraceSyscall(T)
  BY DEF RecordMapping, RunReplica, MasterDone, resumeVariantFromWait, Variant
<1>2. PICK T \in SUBSET Variant : PtraceSyscall(T)
  BY <1>1
<1>3. /\ Variant = {"master", "replica"}
      /\ proc["master"] \in {"exit", "zombie"}
      /\ proc["replica"] \in {"entry", "zombie", "gone"}
      /\ issued["master"] = issued["replica"]
      /\ proc["master"] = "exit" => released["master"] = issued["master"]
  BY <1>1, AtMastersExit
<1>4. /\ pc # "exited"
      /\ (\A v \in Variant : Alive(v)) =>
             Compatible(call["master"], call["replica"])
  BY <1>1 DEF IInv, InExecutor, InCall
<1>5. \A v \in Variant : proc[v] \notin {"none", "orphan"}
  BY <1>3
<1> QED
  BY <1>1, <1>2, <1>3, <1>4, <1>5, ResumeStep

\* A resume of variants none of which is at an entry.
LEMMA ResumeUnseen ==
    ASSUME IInv, IInv', NEW T, PtraceSyscall(T),
           \A v \in T : proc[v] # "entry",
           call' = call, issued' = issued,
           pc # "exited", pc' # "exited"
    PROVE  UNCHANGED LS!lockstepVars
<1>1. \A v \in Variant : released'[v] = released[v]
  BY DEF PtraceSyscall
<1>2. released' = released
  BY <1>1 DEF IInv, TypeOK
<1>3. \A v \in Variant : proc'[v] \in {"zombie", "gone"} <=>
                             proc[v] \in {"zombie", "gone"}
  BY DEF PtraceSyscall, Stopped
<1> QED
  BY <1>2, <1>3, Unseen

LEMMA AskStep ==
    ASSUME IInv, IInv', NEW v \in Variant, Issue(v)
    PROVE  LS!Next
<1>1. /\ proc[v] = "user"
      /\ proc' = [proc EXCEPT ![v] = "entry"]
      /\ issued' = [issued EXCEPT ![v] = @ + 1]
      /\ released' = released /\ pc' = pc
      /\ \E c : call' = [call EXCEPT ![v] = c]
  BY DEF Issue
<1>2. /\ pc # "exited" /\ released[v] = issued[v]
      /\ call' \in [Variant -> Call]
      /\ Variant = LS!Variant /\ LS!Other(v) \in Variant \ {v}
  BY <1>1, ConstantTypes
     DEF IInv, TypeOK, StartAndEnd, Counting, Variant, LS!Variant, LS!Other
<1>3. call'[LS!Other(v)] = call[LS!Other(v)] /\ Lost' = Lost
  BY <1>1, <1>2 DEF IInv, TypeOK, Lost
<1>4. LS!Ask(v)
  BY <1>1, <1>2, <1>3 DEF LS!Ask, Lost
<1> QED
  BY <1>2, <1>4 DEF LS!Next

\* Where a variant goes without the monitor.
LEMMA ProcessStep ==
    ASSUME IInv, IInv', NEW v \in Variant, KernelReturn(v) \/ Kill(v) \/ Signal(v)
    PROVE  [LS!Next]_LS!lockstepVars
<1> USE DEF historyVars
<1>1. /\ call' = call /\ issued' = issued /\ released' = released /\ pc' = pc
      /\ proc[v] \in {"user", "kernel", "entry", "exit", "signal"}
  BY DEF KernelReturn, Kill, Signal, Alive, Stopped
<1>2. pc # "exited"
  BY <1>1 DEF IInv, StartAndEnd
<1>3. PICK p \in {"zombie", "exit", "signal"} : proc' = [proc EXCEPT ![v] = p]
  BY DEF KernelReturn, Kill, Signal
<1>4. proc'[v] = p /\ \A w \in Variant \ {v} : proc'[w] = proc[w]
  BY <1>3 DEF IInv, TypeOK
<1>5. CASE p = "zombie"
  BY <1>1, <1>2, <1>4, <1>5, LoseStep
<1>6. CASE p # "zombie"
  <2>1. \A w \in Variant : proc'[w] \in {"zombie", "gone"} <=>
                               proc[w] \in {"zombie", "gone"}
    BY <1>1, <1>4, <1>6
  <2> QED
    BY <1>1, <2>1, Unseen
<1> QED
  BY <1>5, <1>6

LEMMA StartStep ==
    ASSUME IInv, IInv', NEW v \in Variant, initVariant(v)
    PROVE  [LS!Next]_LS!lockstepVars
<1>1. /\ call' = call /\ issued' = issued /\ released' = released
      /\ pc # "exited" /\ pc' # "exited"
      /\ proc[v] = "none"
  BY DEF initVariant, historyVars, IInv, StartAndEnd, Variant
<1>2. PICK p \in {"user", "gone"} : proc' = [proc EXCEPT ![v] = p]
  BY DEF initVariant
<1>3. proc'[v] = p /\ \A w \in Variant \ {v} : proc'[w] = proc[w]
  BY <1>2 DEF IInv, TypeOK
<1>4. CASE p = "gone"
  BY <1>1, <1>3, <1>4, LoseStep
<1>5. CASE p = "user"
  <2>1. \A w \in Variant : proc'[w] \in {"zombie", "gone"} <=>
                               proc[w] \in {"zombie", "gone"}
    BY <1>1, <1>3, <1>5
  <2> QED
    BY <1>1, <2>1, Unseen
<1> QED
  BY <1>4, <1>5

LEMMA CollectStep ==
    ASSUME IInv, NEW v \in Variant, NEW next, Collect(v, next),
           pc # "exited", next # "exited"
    PROVE  UNCHANGED LS!lockstepVars
<1>1. /\ pc' = next
      /\ \/ proc[v] = "zombie" /\ proc'[v] = "gone"
         \/ proc[v] # "zombie" /\ proc'[v] = proc[v]
      /\ \A w \in Variant \ {v} : proc'[w] = proc[w]
      /\ call' = call /\ issued' = issued /\ released' = released
  BY CollectFacts
<1>2. \A w \in Variant : proc'[w] \in {"zombie", "gone"} <=>
                             proc[w] \in {"zombie", "gone"}
  BY <1>1
<1> QED
  BY <1>1, <1>2, Unseen

\* The monitor ends.
LEMMA EndStep ==
    ASSUME IInv, \/ UnknownChild \/ LeaveLoop \/ InvalidState \/ RefuseCall
                 \/ TransferFailed
    PROVE  LS!Next
<1>1. /\ \E how, killed : Exit(how, killed)
      /\ released' = released /\ pc # "exited"
  BY DEF UnknownChild, LeaveLoop, InvalidState, RefuseCall, TransferFailed,
         MasterDone, Handling, Fail
<1> QED
  BY <1>1, StopStep

LEMMA VariantLostStep ==
    ASSUME IInv, IInv', VariantLost
    PROVE  [LS!Next]_LS!lockstepVars
<1>1. pc # "exited"
  BY DEF VariantLost
<1>2. CASE E.lax
  <2>1. /\ call' = call /\ issued' = issued /\ released' = released
        /\ proc' = proc /\ pc' = "waitAny"
    BY <1>2 DEF VariantLost, historyVars, processVars
  <2> QED
    BY <1>1, <2>1, Unseen
<1>3. CASE ~E.lax
  <2>1. Exit("syncFailed", Variant) /\ released' = released
    BY <1>3 DEF VariantLost, Fail
  <2> QED
    BY <1>1, <2>1, StopStep
<1> QED
  BY <1>2, <1>3

LEMMA LockstepNext ==
    ASSUME IInv, IInv', [Next]_vars
    PROVE  [LS!Next]_LS!lockstepVars
<1>1. ASSUME NEW v \in Variant, WaitAnyVariant(v)
      PROVE  UNCHANGED LS!lockstepVars
  BY <1>1, CollectStep DEF WaitAnyVariant
<1>2. CASE WaitMaster \/ WaitReplica
  BY <1>2, CollectStep DEF WaitMaster, WaitReplica, waitVariant, Variant
<1>3. CASE AwaitPartner \/ UNCHANGED vars
  <2>1. /\ call' = call /\ issued' = issued /\ released' = released
        /\ proc' = proc
        /\ \/ pc' = pc
           \/ pc = "event" /\ pc' = "waitAny"
    BY <1>3 DEF AwaitPartner, Handling, vars, processVars, historyVars
  <2>2. (pc' = "exited") <=> (pc = "exited")
    BY <2>1
  <2> QED
    BY <2>1, <2>2, Unseen
<1>4. CASE ResumeFromExit
  <2>1. /\ PtraceSyscall({who}) /\ proc[who] = "exit"
        /\ call' = call /\ issued' = issued
        /\ pc # "exited" /\ pc' # "exited"
    BY <1>4, HandlingFacts DEF ResumeFromExit, resumeVariantFromExit
  <2> QED
    BY <2>1, ResumeUnseen
<1>5. CASE FinishCall
  <2>1. /\ PtraceSyscall(Variant) /\ pc = "gotReplica" /\ status = "stopped"
        /\ call' = call /\ issued' = issued /\ pc' # "exited"
    BY <1>5 DEF FinishCall, resumeVariantFromWait, resumeVariantFromExit
  <2>2. \A v \in Variant : proc[v] # "entry"
    BY <2>1 DEF IInv, ExecutorAtReplica, Variant
  <2> QED
    BY <2>1, <2>2, ResumeUnseen
<1>6. CASE MonitorStep
  BY <1>6, <1>1, <1>2, <1>3, <1>4, <1>5, StartStep, EndStep, LateStep,
     RendezvousStep, VariantLostStep, ExecutorStep
     DEF MonitorStep
<1>7. ASSUME NEW v \in Variant, VariantStep(v) \/ Fault(v)
      PROVE  [LS!Next]_LS!lockstepVars
  BY <1>7, AskStep, ProcessStep DEF VariantStep, Fault
<1> QED
  BY <1>3, <1>6, <1>7 DEF Next, Terminated

LEMMA LockstepInit == Init => LS!Init
<1> SUFFICES ASSUME Init PROVE LS!Init
  OBVIOUS
<1>1. call \in [LS!Variant -> Call]
  BY TypeInit DEF TypeOK, Variant, LS!Variant
<1>2. Lost = {}
  BY DEF Init, Lost
<1> QED
  BY <1>1, <1>2 DEF Init, LS!Init, Lost, Variant, LS!Variant

\* Every step of the monitor and its variants is a step of the abstract
\* lockstep, or changes nothing that it sees.
THEOREM RefinementCorrect == Spec => ImplementsLockstep
<1>1. IInv /\ IInv' /\ [Next]_vars => [LS!Next]_LS!lockstepVars
  BY LockstepNext
<1> QED
  BY <1>1, LockstepInit, InvCorrect, PTL
     DEF Spec, ImplementsLockstep, LS!Spec
=============================================================================
