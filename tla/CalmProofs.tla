----------------------------- MODULE CalmProofs -----------------------------
(***************************************************************************)
(* Two undisturbed runs of one program are never reported as divergent,    *)
(* and the records of the monitor never contradict what it sees.           *)
(***************************************************************************)
EXTENDS CallProofs

CalmInv == CallInv /\ MarkedWaiting /\ Calm

-----------------------------------------------------------------------------
(* Where undisturbed variants are                                          *)

\* The exit is run in both variants at once, and equal to itself.
LEMMA ExitRuns ==
    LET e == Executor["exit_group"]
    IN  /\ e.run = "both" /\ e.table = "none" /\ "exit_group" \in Implemented
        /\ Agree(e, NoArgs, NoArgs, NoArgs, NoArgs)
<1>1. Executor["exit_group"] = runBoth({0}) /\ "exit_group" \in Implemented
  BY Dispatch, ImplementedCalls DEF execSyscall_exit_group
<1>2. /\ runBoth({0}).run = "both" /\ runBoth({0}).table = "none"
      /\ Agree(runBoth({0}), NoArgs, NoArgs, NoArgs, NoArgs)
  BY DEF runBoth, Agree, RegistersAgree
<1> QED
  BY <1>1, <1>2

\* No variant dies while an executor waits for it.
LEMMA AliveInCall ==
    ASSUME CalmInv, pc \in InCall, NEW v \in Variant
    PROVE  proc[v] \notin {"none", "signal", "zombie", "gone", "orphan"}
<1>1. exec.nr = call[v].nr /\ E.run \in {"map", "serial"}
  BY CallInDispatch DEF CalmInv, CallInv, ReplicaInCall, Variant
<1>2. call[v].nr # "exit_group"
  BY <1>1, ExitRuns DEF E
<1>3. ~Ended(v) /\ pc # "exited"
  BY <1>2 DEF Ended, InCall
<1> QED
  BY <1>3 DEF CalmInv, Calm, Unharmed, Endings, InCall

\* The variant whose stop is handled is there.
LEMMA AliveAtEvent ==
    ASSUME CalmInv, pc = "event", status = "stopped"
    PROVE  who \in Variant /\ proc[who] \in {"entry", "exit"}
<1>1. who \in Variant /\ proc[who] \in {"entry", "exit", "signal", "zombie"}
  BY DEF CalmInv, CallInv, IInv, TypeOK, AtEvent
<1> QED
  BY <1>1 DEF CalmInv, Calm, Unharmed

\* When one variant stands at an entry in the main loop, the other lives.
LEMMA PartnerLives ==
    ASSUME CalmInv, pc \in Main, NEW v \in Variant, proc[v] = "entry"
    PROVE  Alive(Other(v))
<1>1. /\ Other(v) \in Variant /\ Other(Other(v)) = v
      /\ proc[Other(v)] \in ProcState
      /\ \/ v = "master" /\ Other(v) = "replica"
         \/ v = "replica" /\ Other(v) = "master"
  BY DEF CalmInv, CallInv, IInv, TypeOK, Variant, Other
<1>2. /\ proc[Other(v)] \notin {"none", "signal", "orphan"}
      /\ pc # "exited"
  BY <1>1 DEF CalmInv, Calm, Unharmed, Main
<1>3. ASSUME proc[Other(v)] \in {"zombie", "gone"} PROVE FALSE
  <2>1. Ended(Other(v)) /\ issued[v] = issued[Other(v)]
    BY <1>1, <1>2, <1>3 DEF CalmInv, Calm, Endings
  <2>2. released[v] = released[Other(v)]
    BY <1>1 DEF CalmInv, Calm, EvenlyReleased
  <2>3. issued[v] = released[v] + 1 /\ issued[v] \in Nat /\ released[v] \in Nat
    BY DEF CalmInv, CallInv, IInv, Counting, TypeOK
  <2> QED
    BY <2>1, <2>2, <2>3 DEF Ended
<1> QED
  BY <1>1, <1>2, <1>3 DEF ProcState, Alive, Stopped

LEMMA NothingUnexpected ==
    ASSUME CalmInv
    PROVE  ~InvalidState
<1> SUFFICES ASSUME InvalidState PROVE FALSE
  OBVIOUS
<1> IInv
  BY DEF CalmInv, CallInv
<1>1. CASE Handling("none")
  <2>1. /\ pc = "event" /\ status = "stopped"
        /\ proc[who] \in {"signal", "zombie"}
    BY <1>1, HandlingFacts
  <2> QED
    BY <2>1, AliveAtEvent
<1>2. CASE Handling("entry") /\ Late
  <2>1. /\ pc = "event" /\ who \in Variant /\ proc[who] = "entry"
        /\ pc \in Main
    BY <1>2, HandlingFacts DEF Main
  <2>2. /\ Alive(who) /\ Alive(Other(who)) /\ Other(who) \in Variant
        /\ \/ who = "master" /\ Other(who) = "replica"
           \/ who = "replica" /\ Other(who) = "master"
    BY <2>1, PartnerLives DEF Alive, Stopped, Variant, Other
  <2>3. Due(who) = Due(Other(who))
    BY <2>1, <2>2 DEF IInv, InStep, Variant
  <2>4. /\ syscallNum[who] \in Nat /\ syscallNum[Other(who)] \in Nat
        /\ Due(who) = syscallNum[who]
        /\ Due(Other(who)) >= syscallNum[Other(who)]
    BY <2>1, <2>2 DEF IInv, TypeOK, Due
  <2> QED
    BY <1>2, <2>3, <2>4 DEF Late
<1> QED
  BY <1>1, <1>2 DEF InvalidState

\* Where the numbers meet, the variants stand at one and the same call.
LEMMA OneCall ==
    ASSUME Undisturbed, CalmInv, Handling("entry"), Met
    PROVE  /\ SameCall
           /\ call["master"] = call["replica"]
           /\ call["master"] \in ProgramCalls
           /\ \A v \in Variant : proc[v] = "entry"
<1> DEFINE w == Other(who)
<1>1. /\ pc = "event" /\ status = "stopped" /\ pc \in Main
      /\ who \in Variant /\ proc[who] = "entry"
      /\ SyscallInfo(who).op = "entry"
      /\ SyscallInfo(who).nr = call[who].nr
      /\ SyscallInfo(who).args = call[who].args
  BY HandlingFacts DEF CalmInv, CallInv, Main
<1>2. /\ w \in Variant /\ w # who /\ Other(w) = who
      /\ \A v \in Variant : v = who \/ v = w
      /\ \/ who = "master" /\ w = "replica"
         \/ who = "replica" /\ w = "master"
  BY <1>1 DEF Variant, Other
<1>3. Alive(w) /\ state[w] = "wait" /\ syscallNum[who] = syscallNum[w]
  BY <1>1, PartnerLives DEF Met
<1> HIDE DEF w
<1>4. proc[w] = "entry"
  BY <1>1, <1>2, <1>3 DEF CalmInv, MarkedWaiting, Alive, Stopped
<1>5. Waiting(w) /\ syscallInfo[w].op = "entry"
  BY <1>1, <1>2, <1>3 DEF CalmInv, Calm, MarkedRecord, Waiting
<1>6. released[w] < issued[w] /\ released[w] = released[who]
  <2>1. Due(who) = syscallNum[w]
    BY <1>1, <1>3 DEF Due, CalmInv, CallInv, IInv, TypeOK
  <2> QED
    BY <2>1, <1>1, <1>2, <1>5
       DEF CalmInv, CallInv, IInv, WaitNumber, Alive, Stopped
<1>7. issued[w] = issued[who]
  BY <1>1, <1>2, <1>4, <1>6 DEF CalmInv, CallInv, IInv, TypeOK, Counting
<1>8. call[w] = call[who] /\ call["master"] = call["replica"]
  BY <1>2, <1>7 DEF CalmInv, Calm, SameCalls
<1>9. /\ syscallInfo[w].nr = call[w].nr /\ syscallInfo[w].args = call[w].args
  BY <1>2, <1>5, <1>6 DEF CalmInv, CallInv, IInv, WaitRecord
<1>10. call["master"] \in ProgramCalls
  <2>1. issued[who] # 0 /\ issued[w] # 0
    BY <1>1, <1>2, <1>6, <1>7 DEF CalmInv, CallInv, IInv, TypeOK
  <2> QED
    BY <1>1, <1>2, <2>1 DEF CalmInv, CallInv, CallsMade
<1>11. call["master"].nr \in Implemented
  BY <1>10, ConstantsAssumption, ExitRuns
     DEF ProgramCalls, ExitCall, Undisturbed
<1>12. InfoOf(who) = SyscallInfo(who) /\ InfoOf(w) = syscallInfo[w]
  BY <1>2 DEF InfoOf
<1>13. SameCall
  BY <1>1, <1>2, <1>5, <1>8, <1>9, <1>11, <1>12 DEF SameCall
<1> QED
  BY <1>1, <1>2, <1>4, <1>8, <1>10, <1>13

\* The executor finds nothing to object to: neither in the arguments nor in
\* the table.
LEMMA NothingRefused ==
    ASSUME Undisturbed, CalmInv, Handling("entry"), Met
    PROVE  SameCall /\ ArgumentsAgree /\ TableAllows
<1> DEFINE c == call["master"]
           e == Executor[c.nr]
<1>1. /\ SameCall /\ c = call["replica"] /\ c \in ProgramCalls
      /\ proc["master"] = "entry" /\ proc["replica"] = "entry"
  BY OneCall DEF Variant
<1>2. /\ InfoOf("master").nr = c.nr /\ InfoOf("master").args = c.args
      /\ InfoOf("replica").args = c.args
  BY <1>1, Meeting DEF CalmInv, CallInv, Variant
<1>3. /\ Executing = e /\ c.nr \in Implemented
      /\ Memory("master") = c.args /\ Memory("replica") = c.args
  BY <1>1, <1>2 DEF Executing, Memory, Stopped, SameCall
<1>4. CASE c = ExitCall
  <2>1. c.nr = "exit_group" /\ c.args = NoArgs
    BY <1>4 DEF ExitCall
  <2>2. ArgumentsAgree
    BY <1>2, <1>3, <2>1, ExitRuns DEF ArgumentsAgree
  <2>3. TableAllows
    BY <1>3, <2>1, ExitRuns DEF TableAllows, Permits
  <2> QED
    BY <1>1, <2>2, <2>3
<1>5. CASE c \in [nr : Calls, args : Args]
  <2>1. c.nr \in Calls /\ c.args \in Args
    BY <1>5
  <2> HIDE DEF c, e
  <2>2. ArgumentsAgree
    BY <1>2, <1>3, <2>1 DEF ArgumentsAgree, Undisturbed, e
  <2>3. TableAllows
    <3> DEFINE a == c.args
               i == findMapping(mappings, a[0])
    <3>1. TableAllows <=> Permits(mappings, e.table, a[0], AsInt(a[2]),
                                   AsInt(a[3]))
      BY <1>2, <1>3 DEF TableAllows
    <3>2. e.table # "remove" /\ (e.table = "add" => c.nr = "mmap")
      BY <1>3, <2>1, ExecutorsRun DEF RunsSoundly, Undisturbed, e
    <3>3. e.table = "add" => checkMMapPerms(AsInt(a[2]), AsInt(a[3])) = 0
      BY <2>1, <3>2 DEF Undisturbed, checkMMapPerms
    <3>4. i # 0 => checkMMapPerms(AsInt(a[2]), mappings[i].flags) = 0
      <4>1. a[0] \in Int /\ mappings \in Seq(variantMMap)
        BY <2>1, ConstantsAssumption, ConstantTypes
           DEF CalmInv, CallInv, IInv, TypeOK
      <4>2. i # 0 => i \in DOMAIN mappings
        BY <4>1, FindMapping
      <4> QED
        BY <4>2 DEF CalmInv, Calm, PrivateTable, checkMMapPerms
    <3> HIDE DEF a
    <3> QED
      BY <3>1, <3>2, <3>3, <3>4 DEF Permits
  <2> QED
    BY <1>1, <2>2, <2>3
<1> QED
  BY <1>1, <1>4, <1>5 DEF ProgramCalls

\* The steps by which the monitor would report a divergence or a loss.
LEMMA NoAlarmStep ==
    ASSUME Undisturbed, CalmInv
    PROVE  /\ ~InvalidState /\ ~RefuseCall /\ ~RefuseCallLate
           /\ ~VariantLost /\ ~TransferFailed /\ ~RunBothAsAtExit
<1> IInv
  BY DEF CalmInv, CallInv
<1>1. ~InvalidState
  BY NothingUnexpected
<1>2. ~RefuseCall /\ ~RefuseCallLate
  BY NothingRefused DEF RefuseCall, RefuseCallLate
<1>3. ~VariantLost
  <2> SUFFICES ASSUME VariantLost PROVE FALSE
    OBVIOUS
  <2>1. pc \in {"gotMaster", "gotReplica"} /\ status = "exited" /\ pc \in InCall
    BY DEF VariantLost, InCall
  <2>2. proc["master"] = "gone" \/ proc["replica"] = "gone"
    BY <2>1 DEF IInv, ExecutorAtMaster, ExecutorAtReplica
  <2> QED
    BY <2>1, <2>2, AliveInCall DEF Variant
<1>4. ~TransferFailed
  <2> SUFFICES ASSUME TransferFailed PROVE FALSE
    OBVIOUS
  <2>1. /\ pc = "gotMaster" /\ status = "stopped" /\ pc \in InCall
        /\ E.run = "serial" /\ ~CanCopy(E, SyscallInfo("master").rval)
    BY DEF TransferFailed, MasterDone, TransferFits, InCall
  <2>2. proc["master"] = "exit"
    BY <2>1, AtMastersExit, AliveInCall
  <2>3. SyscallInfo("master") = [NoInfo EXCEPT !.op = "exit",
                                               !.rval = rax["master"]]
    BY <2>2 DEF SyscallInfo
  <2>4. SyscallInfo("master").rval \in Rvals
    BY <2>2, <2>3 DEF NoInfo, CalmInv, Calm, KernelResult, Variant
  <2>5. exec.nr \in Calls
    BY <2>1, CallInDispatch, ExitRuns DEF CalmInv, E
  <2> QED
    BY <2>1, <2>4, <2>5 DEF Undisturbed, E
<1>5. ~RunBothAsAtExit
  <2> SUFFICES ASSUME RunBothAsAtExit PROVE FALSE
    OBVIOUS
  <2>1. /\ Handling("entry") /\ Met /\ SameCall /\ Executing.run = "skip"
    BY DEF RunBothAsAtExit, Synchronising
  <2>2. InfoOf("master").nr = call["master"].nr
    BY <2>1, Meeting DEF Variant
  <2>3. call["master"].nr = "shutdown"
    BY <2>1, <2>2, ExecutorsRun DEF Executing, SameCall, RunsSoundly
  <2> QED
    BY <2>3, MadeCall DEF CalmInv, CallInv, Undisturbed, Variant
<1> QED
  BY <1>1, <1>2, <1>3, <1>4, <1>5

\* What is left of the specification when nothing disturbs the variants.
CalmNext ==
    \/ \E v \in Variant :
          \/ Issue(v) \/ KernelReturn(v)
          \/ initVariant(v) /\ proc'[v] = "user"
          \/ WaitAnyVariant(v)
    \/ UnknownChild \/ LeaveLoop
    \/ AwaitPartner \/ ResumeFromExit
    \/ RunBoth \/ RunMaster
    \/ WaitMaster \/ WaitReplica
    \/ RecordMapping \/ RunReplica \/ FinishCall
    \/ UNCHANGED vars

LEMMA CalmSteps ==
    ASSUME Undisturbed, CalmInv, [Next]_vars
    PROVE  CalmNext
<1>1. \A v \in Variant : ~Kill(v) /\ ~Signal(v)
  BY DEF Undisturbed, Kill, Signal
<1>2. \A v \in Variant : initVariant(v) => proc'[v] = "user"
  BY DEF Undisturbed, initVariant, CalmInv, CallInv, IInv, TypeOK
<1> QED
  BY <1>1, <1>2, NoAlarmStep
     DEF CalmNext, Next, MonitorStep, VariantStep, Fault, Terminated

-----------------------------------------------------------------------------
(* How an undisturbed variant moves                                        *)

\* A resume, by where the variants are.
LEMMA ResumeMoves ==
    ASSUME NEW S, PtraceSyscall(S), NEW v \in Variant, proc[v] # "signal"
    PROVE  \/ proc'[v] = proc[v] /\ released'[v] = released[v]
           \/ /\ proc[v] = "entry" /\ proc'[v] = "kernel"
              /\ released'[v] = released[v] + 1
           \/ /\ proc[v] = "exit" /\ proc'[v] = "user"
              /\ released'[v] = released[v]
BY DEF PtraceSyscall, Stopped

\* Where the monitor resumes a variant into the kernel, both are in as many
\* calls.
LEMMA ResumersMeet ==
    ASSUME IInv, RunBoth \/ RunMaster \/ RecordMapping \/ RunReplica
    PROVE  issued["master"] = issued["replica"]
<1>1. CASE RunBoth \/ RunMaster
  BY <1>1, Meeting DEF RunBoth, RunMaster, Synchronising
<1>2. CASE RecordMapping \/ RunReplica
  BY <1>2, AtMastersExit DEF RecordMapping, RunReplica, MasterDone
<1> QED
  BY <1>1, <1>2

LEMMA Moves ==
    ASSUME CalmInv, CalmNext, NEW v \in Variant, pc' # "exited"
    PROVE  /\ pc # "exited"
           /\ \/ /\ proc'[v] = proc[v] /\ released'[v] = released[v]
                 /\ ~Issue(v) /\ ~KernelReturn(v)
              \/ Issue(v) /\ released'[v] = released[v]
              \/ KernelReturn(v) /\ released'[v] = released[v]
              \/ /\ proc[v] = "none" /\ proc'[v] = "user"
                 /\ released'[v] = released[v]
              \/ /\ proc[v] = "zombie" /\ proc'[v] = "gone"
                 /\ released'[v] = released[v]
              \/ /\ proc[v] = "entry" /\ proc'[v] = "kernel"
                 /\ released'[v] = released[v] + 1
                 /\ issued["master"] = issued["replica"]
              \/ /\ proc[v] = "exit" /\ proc'[v] = "user"
                 /\ released'[v] = released[v]
<1> USE DEF localVars, recordVars, historyVars, processVars
<1>1. /\ IInv /\ proc[v] # "signal" /\ proc \in [Variant -> ProcState]
      /\ "master" \in Variant /\ "replica" \in Variant
      /\ pc = "exited" => \A w \in Variant : proc[w] \in {"gone", "orphan"}
  BY DEF CalmInv, CallInv, IInv, TypeOK, Calm, Unharmed, StartAndEnd, Variant
<1>2. ASSUME NEW w \in Variant, Issue(w) \/ KernelReturn(w)
      PROVE  /\ pc' = pc /\ released' = released
             /\ v # w => proc'[v] = proc[v] /\ ~Issue(v) /\ ~KernelReturn(v)
  <2>1. /\ pc' = pc /\ released' = released
        /\ proc'[w] # proc[w] /\ \A u \in Variant \ {w} : proc'[u] = proc[u]
    BY <1>1, <1>2 DEF Issue, KernelReturn
  <2>2. ASSUME Issue(v) \/ KernelReturn(v) PROVE proc'[v] # proc[v]
    BY <1>1, <2>2 DEF Issue, KernelReturn
  <2> QED
    BY <2>1, <2>2
<1>3. ASSUME Issue(v) \/ KernelReturn(v) PROVE proc'[v] # proc[v]
  BY <1>1, <1>3 DEF Issue, KernelReturn
<1>4. ASSUME NEW w \in Variant, initVariant(w), proc'[w] = "user"
      PROVE  /\ pc # "exited" /\ released' = released
             /\ \/ proc'[v] = proc[v]
                \/ proc[v] = "none" /\ proc'[v] = "user"
  <2>1. proc[w] = "none"
    BY <1>1, <1>4 DEF initVariant, IInv, StartAndEnd, Variant
  <2> QED
    BY <1>1, <1>4, <2>1 DEF initVariant
<1>5. ASSUME NEW w \in Variant, NEW next, Collect(w, next)
      PROVE  /\ released' = released
             /\ \/ proc'[v] = proc[v]
                \/ proc[v] = "zombie" /\ proc'[v] = "gone"
  BY <1>1, <1>5 DEF Collect
<1>6. ASSUME NEW w \in Variant, WaitAnyVariant(w)
      PROVE  /\ pc # "exited" /\ released' = released
             /\ \/ proc'[v] = proc[v]
                \/ proc[v] = "zombie" /\ proc'[v] = "gone"
  BY <1>5, <1>6 DEF WaitAnyVariant
<1>7. ASSUME WaitMaster \/ WaitReplica
      PROVE  /\ pc # "exited" /\ released' = released
             /\ \/ proc'[v] = proc[v]
                \/ proc[v] = "zombie" /\ proc'[v] = "gone"
  BY <1>1, <1>5, <1>7 DEF WaitMaster, WaitReplica, waitVariant
<1>8. ~UnknownChild /\ ~LeaveLoop
  BY DEF UnknownChild, LeaveLoop, Exit
<1>9. ASSUME AwaitPartner
      PROVE  pc # "exited" /\ UNCHANGED <<proc, released>>
  BY <1>9 DEF AwaitPartner, Handling
<1>10. ASSUME ResumeFromExit
       PROVE  /\ pc # "exited" /\ released'[v] = released[v]
              /\ \/ proc'[v] = proc[v]
                 \/ proc[v] = "exit" /\ proc'[v] = "user"
  <2>1. /\ pc = "event" /\ proc[who] = "exit" /\ PtraceSyscall({who})
    BY <1>1, <1>10, HandlingFacts DEF ResumeFromExit, resumeVariantFromExit
  <2> QED
    BY <2>1 DEF PtraceSyscall
<1>11. ASSUME RunBoth \/ RunMaster \/ RecordMapping \/ RunReplica
       PROVE  /\ pc # "exited" /\ issued["master"] = issued["replica"]
              /\ \/ proc'[v] = proc[v] /\ released'[v] = released[v]
                 \/ /\ proc[v] = "entry" /\ proc'[v] = "kernel"
                    /\ released'[v] = released[v] + 1
                 \/ /\ proc[v] = "exit" /\ proc'[v] = "user"
                    /\ released'[v] = released[v]
  <2>1. \E S : PtraceSyscall(S)
    BY <1>11 DEF RunBoth, RunMaster, RecordMapping, RunReplica,
                 resumeVariantFromWait
  <2>2. pc # "exited"
    BY <1>11 DEF RunBoth, RunMaster, RecordMapping, RunReplica, MasterDone,
                 Synchronising, Handling
  <2> QED
    BY <1>1, <1>11, <2>1, <2>2, ResumeMoves, ResumersMeet
<1>12. ASSUME FinishCall
       PROVE  /\ pc # "exited" /\ released'[v] = released[v]
              /\ \/ proc'[v] = proc[v]
                 \/ proc[v] = "exit" /\ proc'[v] = "user"
  <2>1. pc = "gotReplica" /\ status = "stopped" /\ PtraceSyscall(Variant)
    BY <1>12 DEF FinishCall, resumeVariantFromExit, resumeVariantFromWait
  <2>2. proc[v] # "entry"
    BY <1>1, <2>1 DEF IInv, ExecutorAtReplica, Variant
  <2> QED
    BY <1>1, <2>1, <2>2, ResumeMoves
<1>13. ASSUME UNCHANGED vars PROVE UNCHANGED <<pc, proc, released>>
  BY <1>13 DEF vars
<1>14. pc # "exited"
  <2>1. ASSUME NEW w \in Variant, Issue(w) \/ KernelReturn(w)
        PROVE  pc # "exited"
    BY <1>2, <2>1
  <2> QED
    BY <2>1, <1>4, <1>6, <1>7, <1>8, <1>9, <1>10, <1>11, <1>12, <1>13
       DEF CalmNext
<1>15. ASSUME ~Issue(v), ~KernelReturn(v)
       PROVE  \/ proc'[v] = proc[v] /\ released'[v] = released[v]
              \/ /\ proc[v] = "none" /\ proc'[v] = "user"
                 /\ released'[v] = released[v]
              \/ /\ proc[v] = "zombie" /\ proc'[v] = "gone"
                 /\ released'[v] = released[v]
              \/ /\ proc[v] = "entry" /\ proc'[v] = "kernel"
                 /\ released'[v] = released[v] + 1
                 /\ issued["master"] = issued["replica"]
              \/ /\ proc[v] = "exit" /\ proc'[v] = "user"
                 /\ released'[v] = released[v]
  <2>1. ASSUME NEW w \in Variant, Issue(w) \/ KernelReturn(w)
        PROVE  proc'[v] = proc[v] /\ released'[v] = released[v]
    BY <1>2, <1>15, <2>1
  <2> QED
    BY <2>1, <1>4, <1>6, <1>7, <1>8, <1>9, <1>10, <1>11, <1>12, <1>13
       DEF CalmNext
<1>16. Issue(v) \/ KernelReturn(v) => released'[v] = released[v]
  BY <1>2
<1> QED
  BY <1>14, <1>15, <1>16

-----------------------------------------------------------------------------
(* The parts of Calm, each over an undisturbed step                        *)

LEMMA SameCallsStep ==
    ASSUME Undisturbed, CalmInv, [Next]_vars
    PROVE  SameCalls'
<1>1. ASSUME NEW v \in Variant, Issue(v) PROVE SameCalls'
  <2> DEFINE w == Other(v)
  <2>1. /\ w \in Variant /\ w # v /\ \A u \in Variant : u = v \/ u = w
        /\ \/ v = "master" /\ w = "replica"
           \/ v = "replica" /\ w = "master"
    BY DEF Variant, Other
  <2>2. /\ issued[v] \in Nat /\ issued[w] \in Nat /\ issued[v] <= MaxCalls
        /\ MaxCalls \in Nat
        /\ issued'[v] = issued[v] + 1 /\ issued'[w] = issued[w]
        /\ call'[w] = call[w] /\ call'[v] \in NextCalls(v)
    BY <1>1, <2>1, IssueFacts, ConstantsAssumption
       DEF CalmInv, CallInv, IInv, TypeOK
  <2>3. issued[v] = MaxCalls => call'[v] = ExitCall
    BY <2>2 DEF NextCalls, ExitCall
  <2>4. issued[v] < MaxCalls /\ issued[v] < issued[w] => call'[v] = call[w]
    BY <2>2 DEF NextCalls, Undisturbed
  <2> HIDE DEF w
  <2>5. issued[w] > MaxCalls => call[w] = ExitCall
    BY <2>1 DEF CalmInv, Calm, SameCalls
  <2>6. issued'[v] = issued'[w] => call'[v] = call'[w]
    <3> SUFFICES ASSUME issued[v] + 1 = issued[w] PROVE call'[v] = call[w]
      BY <2>2
    <3>1. CASE issued[v] < MaxCalls
      BY <2>2, <2>4, <3>1
    <3>2. CASE issued[v] = MaxCalls
      BY <2>2, <2>3, <2>5, <3>2
    <3> QED
      BY <2>2, <3>1, <3>2
  <2>7. issued'[v] > MaxCalls => call'[v] = ExitCall
    BY <2>2, <2>3
  <2> QED
    BY <2>1, <2>2, <2>5, <2>6, <2>7 DEF SameCalls
<1>2. CASE ~ \E v \in Variant : Issue(v)
  BY <1>2, CallsKept DEF SameCalls, CalmInv, Calm
<1> QED
  BY <1>1, <1>2

\* What the replica runs in the place of its own call is not the exit.
LEMMA SubstituteStays ==
    ASSUME CalmInv, RunReplica
    PROVE  /\ regs["replica"] = call["replica"]
           /\ call["replica"].nr # "exit_group"
           /\ regs'["replica"].nr # "exit_group"
           /\ call' = call
<1>1. /\ pc = "gotMaster" /\ pc \in InCall /\ E.run = "serial"
      /\ pc \notin {"waitReplica", "gotReplica"} /\ status = "stopped"
  BY DEF RunReplica, MasterDone, InCall
<1>2. proc["replica"] = "entry"
  BY <1>1, AtMastersExit, AliveInCall DEF CalmInv, CallInv
<1>3. regs["replica"] = call["replica"]
  BY <1>1, <1>2 DEF CalmInv, CallInv, IInv, Reports, Variant
<1>4. call["replica"].nr # "exit_group"
  BY <1>1, CallInDispatch, ExitRuns DEF CalmInv, E
<1>5. regs'["replica"] = Substitute /\ call' = call
  BY <1>2 DEF RunReplica, Stopped, CalmInv, CallInv, IInv, TypeOK, Variant
<1>6. Substitute.nr # "exit_group"
  BY <1>3, <1>4 DEF Substitute
<1> QED
  BY <1>3, <1>4, <1>5, <1>6

LEMMA KernelCallStep ==
    ASSUME Undisturbed, CalmInv, [Next]_vars
    PROVE  KernelCall'
<1> USE DEF localVars, recordVars, historyVars, processVars
<1> SUFFICES ASSUME NEW v \in Variant, proc'[v] = "kernel"
             PROVE  regs'[v].nr = "exit_group" <=> call'[v].nr = "exit_group"
  BY DEF KernelCall
<1>1. IInv /\ CalmNext /\ proc \in [Variant -> ProcState]
  BY CalmSteps DEF CalmInv, CallInv, IInv, TypeOK
<1>2. CASE proc[v] = "kernel"
  <2>1. ~Issue(v) /\ (RunReplica => v # "replica")
    <3>1. ~Issue(v)
      BY <1>2 DEF Issue
    <3>2. RunReplica => proc["replica"] = "entry"
      BY AtMastersExit, AliveInCall DEF RunReplica, MasterDone, CalmInv,
         CallInv, InCall
    <3> QED
      BY <1>2, <3>1, <3>2
  <2>2. call'[v] = call[v]
    <3>1. ASSUME NEW w \in Variant, Issue(w) PROVE call'[v] = call[v]
      BY <1>1, <2>1, <3>1, IssueFacts
    <3> QED
      BY <3>1, CallsKept
  <2>3. regs'[v] = regs[v]
    <3>1. ASSUME NEW w \in Variant, Issue(w) PROVE regs'[v] = regs[v]
      BY <1>1, <2>1, <3>1, IssueFacts
    <3>2. RunReplica => regs'[v] = regs[v]
      BY <1>1, <2>1 DEF RunReplica, IInv, TypeOK
    <3>3. ASSUME NEW w \in Variant,
                 \/ KernelReturn(w) \/ initVariant(w) \/ WaitAnyVariant(w)
          PROVE  regs' = regs
      BY <3>3 DEF KernelReturn, initVariant, WaitAnyVariant, Collect
    <3>4. ASSUME \/ UnknownChild \/ LeaveLoop \/ AwaitPartner
                 \/ ResumeFromExit \/ RunBoth \/ RunMaster \/ WaitMaster
                 \/ WaitReplica \/ RecordMapping \/ FinishCall
                 \/ UNCHANGED vars
          PROVE  regs' = regs
      BY <3>4 DEF UnknownChild, LeaveLoop, Exit, AwaitPartner, ResumeFromExit,
         RunBoth, RunMaster, WaitMaster, WaitReplica, waitVariant, Collect,
         RecordMapping, FinishCall, vars
    <3> QED
      BY <1>1, <3>1, <3>2, <3>3, <3>4 DEF CalmNext
  <2> QED
    BY <1>2, <2>2, <2>3 DEF CalmInv, Calm, KernelCall
<1>3. CASE proc[v] # "kernel"
  <2>1. /\ proc[v] = "entry"
        /\ \/ RunBoth \/ RunMaster \/ RecordMapping
           \/ RunReplica /\ v = "replica"
    BY <1>1, <1>3, EntersKernel, NoAlarmStep
  <2>2. CASE RunBoth \/ RunMaster
    <3>1. regs[v] = call[v]
      BY <1>1, <2>1, <2>2, Meeting DEF RunBoth, RunMaster, Synchronising
    <3>2. regs' = regs /\ call' = call
      BY <2>2 DEF RunBoth, RunMaster
    <3> QED
      BY <3>1, <3>2
  <2>3. CASE RecordMapping
    <3>1. regs[v] = call[v]
      <4>1. pc = "gotMaster"
        BY <2>3 DEF RecordMapping
      <4> QED
        BY <1>1, <2>1, <4>1 DEF IInv, Reports
    <3>2. regs' = regs /\ call' = call
      BY <2>3 DEF RecordMapping
    <3> QED
      BY <3>1, <3>2
  <2>4. CASE RunReplica /\ v = "replica"
    BY <2>4, SubstituteStays
  <2> QED
    BY <2>1, <2>2, <2>3, <2>4
<1> QED
  BY <1>2, <1>3

\* Only the variant that makes a call has a new one.
LEMMA OwnCallKept ==
    ASSUME IInv, [Next]_vars, NEW v \in Variant, ~Issue(v)
    PROVE  call'[v] = call[v] /\ issued'[v] = issued[v]
<1>1. ASSUME NEW w \in Variant, Issue(w)
      PROVE  call'[v] = call[v] /\ issued'[v] = issued[v]
  BY <1>1, IssueFacts
<1> QED
  BY <1>1, CallsKept

\* Nobody but initVariant leaves the start.
LEMMA StartSteps ==
    ASSUME CalmNext, pc \in {"startMaster", "startReplica"}
    PROVE  \/ pc' = pc
           \/ \E w \in Variant : initVariant(w) /\ proc'[w] = "user"
<1>1. ASSUME NEW w \in Variant, Issue(w) \/ KernelReturn(w) PROVE pc' = pc
  BY <1>1 DEF Issue, KernelReturn
<1>2. UNCHANGED vars => pc' = pc
  BY DEF vars
<1> QED
  BY <1>1, <1>2
     DEF CalmNext, WaitAnyVariant, UnknownChild, LeaveLoop, AwaitPartner,
         ResumeFromExit, RunBoth, RunMaster, Synchronising, Handling,
         WaitMaster, WaitReplica, RecordMapping, RunReplica, MasterDone,
         FinishCall

\* The monitor holds a report because it has just collected it, or because
\* it did already.
LEMMA EventSteps ==
    ASSUME CalmNext, pc' = "event"
    PROVE  \/ \E w \in Variant : WaitAnyVariant(w)
           \/ UNCHANGED <<pc, who, status>>
<1>1. ASSUME NEW w \in Variant, Issue(w) \/ KernelReturn(w)
      PROVE  UNCHANGED <<pc, who, status>>
  BY <1>1 DEF Issue, KernelReturn, localVars
<1>2. UNCHANGED vars => UNCHANGED <<pc, who, status>>
  BY DEF vars, localVars
<1>3. \A w \in Variant : ~initVariant(w)
  BY DEF initVariant
<1>4. ~UnknownChild /\ ~LeaveLoop
  BY DEF UnknownChild, LeaveLoop, Exit
<1>5. ~WaitMaster /\ ~WaitReplica
  BY DEF WaitMaster, WaitReplica, waitVariant, Collect
<1>6. /\ ~AwaitPartner /\ ~ResumeFromExit /\ ~RunBoth /\ ~RunMaster
      /\ ~RecordMapping /\ ~RunReplica /\ ~FinishCall
  BY DEF AwaitPartner, ResumeFromExit, RunBoth, RunMaster, RecordMapping,
         RunReplica, FinishCall
<1> QED
  BY <1>1, <1>2, <1>3, <1>4, <1>5, <1>6 DEF CalmNext

LEMMA UnharmedStep ==
    ASSUME Undisturbed, CalmInv, [Next]_vars, pc' # "exited"
    PROVE  Unharmed'
<1> SUFFICES ASSUME NEW v \in Variant
             PROVE  /\ proc'[v] \notin {"signal", "orphan"}
                    /\ proc'[v] = "none" =>
                           \/ pc' = "startMaster"
                           \/ pc' = "startReplica" /\ v = "replica"
                    /\ proc'[v] = "zombie" =>
                           ~(pc' = "event" /\ status' = "stopped" /\ who' = v)
  BY DEF Unharmed
<1>1. /\ CalmNext /\ IInv /\ proc \in [Variant -> ProcState]
      /\ "master" \in Variant /\ "replica" \in Variant
  BY CalmSteps DEF CalmInv, CallInv, IInv, TypeOK, Variant
<1>2. Issue(v) => proc'[v] = "entry"
  BY <1>1, IssueFacts
<1>3. KernelReturn(v) => proc[v] = "kernel" /\ proc'[v] \in {"zombie", "exit"}
  BY <1>1 DEF KernelReturn
<1>4. /\ pc # "exited"
      /\ \/ proc'[v] = proc[v]
         \/ proc'[v] \in {"entry", "user", "gone", "kernel"}
         \/ proc[v] = "kernel" /\ proc'[v] \in {"zombie", "exit"}
  BY <1>1, <1>2, <1>3, Moves
<1>5. proc'[v] \notin {"signal", "orphan"}
  BY <1>4 DEF CalmInv, Calm, Unharmed
<1>6. ASSUME proc'[v] = "none"
      PROVE  pc' = "startMaster" \/ (pc' = "startReplica" /\ v = "replica")
  <2>1. proc[v] = "none"
    BY <1>4, <1>6
  <2>2. pc = "startMaster" \/ (pc = "startReplica" /\ v = "replica")
    BY <2>1 DEF CalmInv, Calm, Unharmed
  <2>3. CASE pc' = pc
    BY <2>2, <2>3
  <2>4. ASSUME NEW w \in Variant, initVariant(w), proc'[w] = "user"
        PROVE  pc' = "startReplica" /\ v = "replica"
    BY <1>6, <2>2, <2>4 DEF initVariant, Variant
  <2> QED
    BY <1>1, <2>2, <2>3, <2>4, StartSteps
<1>7. ASSUME proc'[v] = "zombie", pc' = "event", status' = "stopped", who' = v
      PROVE  FALSE
  <2>1. proc[v] = "zombie" \/ proc[v] = "kernel"
    BY <1>4, <1>7
  <2>2. ASSUME NEW w \in Variant, WaitAnyVariant(w) PROVE FALSE
    <3>1. w = v /\ proc[w] # "zombie" /\ proc' = proc
      BY <1>7, <2>2 DEF WaitAnyVariant, Collect
    <3> QED
      BY <1>7, <3>1
  <2>3. CASE UNCHANGED <<pc, who, status>>
    <3>1. pc = "event" /\ status = "stopped" /\ who = v
      BY <1>7, <2>3
    <3> QED
      BY <2>1, <3>1, AliveAtEvent
  <2> QED
    BY <1>1, <1>7, <2>2, <2>3, EventSteps
<1> QED
  BY <1>5, <1>6, <1>7

LEMMA EndingsStep ==
    ASSUME Undisturbed, CalmInv, [Next]_vars, pc' # "exited"
    PROVE  Endings'
<1> SUFFICES ASSUME NEW v \in Variant
             PROVE  /\ Ended(v)' => proc'[v] \in {"kernel", "zombie", "gone"}
                    /\ proc'[v] \in {"zombie", "gone"} => Ended(v)'
                    /\ Ended(v)' => issued'[Other(v)] = issued'[v]
  BY DEF Endings
<1> DEFINE w == Other(v)
<1>1. /\ CalmNext /\ IInv /\ IInv' /\ pc # "exited"
      /\ w \in Variant /\ w # v /\ Other(w) = v
      /\ \A u \in Variant : u = v \/ u = w
      /\ \/ v = "master" /\ w = "replica"
         \/ v = "replica" /\ w = "master"
  BY CalmSteps, InvNext, Moves DEF CalmInv, CallInv, Variant, Other
<1>2. /\ proc \in [Variant -> ProcState]
      /\ issued[v] \in Nat /\ issued[w] \in Nat
      /\ Ended(v) => proc[v] \in {"kernel", "zombie", "gone"}
      /\ Ended(w) => proc[w] \in {"kernel", "zombie", "gone"}
      /\ proc[v] \in {"zombie", "gone"} => Ended(v)
      /\ Ended(v) => issued[w] = issued[v]
  BY <1>1 DEF CalmInv, Calm, Endings, IInv, TypeOK
<1> HIDE DEF w
<1>3. Issue(v) => proc'[v] = "entry" /\ ~Ended(v)'
  <2>1. ASSUME Issue(v), Ended(v)' PROVE FALSE
    <3>1. proc'[v] = "entry"
      BY <1>1, <2>1, IssueFacts
    <3>2. issued'[v] = released'[v] + 1 /\ released'[v] \in Nat
      BY <1>1, <3>1 DEF IInv, Counting, TypeOK
    <3> QED
      BY <2>1, <3>2 DEF Ended
  <2> QED
    BY <1>1, <2>1, IssueFacts
<1>4. ~Issue(v) => call'[v] = call[v] /\ issued'[v] = issued[v]
  BY <1>1, OwnCallKept
<1>5. ~Issue(v) /\ released'[v] = released[v] => (Ended(v)' <=> Ended(v))
  BY <1>4 DEF Ended
<1>6. KernelReturn(v) =>
          /\ proc[v] = "kernel" /\ ~Issue(v)
          /\ proc'[v] = IF call[v].nr = "exit_group" THEN "zombie" ELSE "exit"
  <2>1. proc[v] = "kernel" =>
            (regs[v].nr = "exit_group" <=> call[v].nr = "exit_group")
    BY DEF CalmInv, Calm, KernelCall
  <2> QED
    BY <1>2, <2>1 DEF KernelReturn, Issue
<1>7. proc[v] = "kernel" /\ call[v].nr = "exit_group" => Ended(v)
  <2>1. issued[v] = 0 => call[v].nr = "none"
    BY DEF CalmInv, CallInv, CallsMade, NoCall
  <2>2. proc[v] = "kernel" => released[v] = issued[v]
    BY <1>1 DEF IInv, Counting
  <2> QED
    BY <2>1, <2>2 DEF Ended
<1>8. proc[v] # "user" => ~Issue(v)
  BY DEF Issue
<1>9. Ended(v)' => proc'[v] \in {"kernel", "zombie", "gone"}
  BY <1>1, <1>2, <1>3, <1>5, <1>6, <1>8, Moves DEF Ended
<1>10. proc'[v] \in {"zombie", "gone"} => Ended(v)'
  BY <1>1, <1>2, <1>3, <1>5, <1>6, <1>7, <1>8, Moves
<1>11. ASSUME Ended(v)' PROVE issued'[w] = issued'[v]
  <2>1. ~Issue(v) /\ issued'[v] = issued[v]
    BY <1>3, <1>4, <1>11
  <2>2. CASE released'[v] = released[v]
    <3>1. Ended(v) /\ issued[w] = issued[v]
      BY <1>2, <1>5, <1>11, <2>1, <2>2
    <3>2. call[w] = call[v]
      BY <1>1, <3>1 DEF CalmInv, Calm, SameCalls
    <3>3. proc[w] = "user" => Ended(w)
      BY <1>1, <3>1, <3>2 DEF Ended, IInv, Counting
    <3>4. ~Issue(w)
      BY <1>2, <3>3 DEF Issue
    <3> QED
      BY <1>1, <2>1, <3>1, <3>4, OwnCallKept
  <2>3. CASE released'[v] # released[v]
    <3>1. issued["master"] = issued["replica"]
      BY <1>1, <2>3, Moves
    <3>2. ~Issue(w)
      BY <1>1, <2>3, IssueFacts
    <3> QED
      BY <1>1, <2>1, <3>1, <3>2, OwnCallKept
  <2> QED
    BY <2>2, <2>3
<1> QED
  BY <1>9, <1>10, <1>11 DEF w

LEMMA EvenlyReleasedStep ==
    ASSUME Undisturbed, CalmInv, [Next]_vars, pc' # "exited"
    PROVE  EvenlyReleased'
<1> USE DEF localVars, recordVars, historyVars, processVars
<1> SUFFICES ASSUME pc' \in Main PROVE released'["master"] = released'["replica"]
  BY DEF EvenlyReleased
<1>1. /\ CalmNext /\ IInv /\ TypeOK /\ "master" \in Variant
      /\ "replica" \in Variant /\ Variant = {"master", "replica"}
  BY CalmSteps DEF CalmInv, CallInv, IInv, Variant
<1>2. CASE pc \in Main /\ released' = released
  BY <1>2 DEF CalmInv, Calm, EvenlyReleased
<1>3. ASSUME NEW v \in Variant, Issue(v) \/ KernelReturn(v)
      PROVE  released' = released /\ pc \in Main
  BY <1>3 DEF Issue, KernelReturn
<1>4. ASSUME NEW v \in Variant, initVariant(v)
      PROVE  released'["master"] = released'["replica"]
  <2>1. pc \in {"startMaster", "startReplica"} /\ released' = released
    BY <1>4 DEF initVariant
  <2> QED
    BY <1>1, <2>1 DEF IInv, StartAndEnd
<1>5. ASSUME \/ \E v \in Variant : WaitAnyVariant(v)
             \/ AwaitPartner \/ UNCHANGED vars
      PROVE  released' = released /\ pc \in Main
  BY <1>5 DEF WaitAnyVariant, Collect, AwaitPartner, Handling, Main, vars
<1>6. ~UnknownChild /\ ~LeaveLoop /\ ~RunMaster /\ ~WaitMaster
      /\ ~WaitReplica /\ ~RunReplica
  BY DEF UnknownChild, LeaveLoop, Exit, RunMaster, WaitMaster, WaitReplica,
         waitVariant, Collect, RunReplica, Main
<1>7. CASE ResumeFromExit
  <2>1. /\ pc \in Main /\ proc[who] = "exit" /\ PtraceSyscall({who})
    BY <1>1, <1>7, HandlingFacts DEF ResumeFromExit, resumeVariantFromExit, Main
  <2>2. released'["master"] = released["master"]
        /\ released'["replica"] = released["replica"]
    BY <1>1, <2>1 DEF PtraceSyscall
  <2> QED
    BY <2>1, <2>2 DEF CalmInv, Calm, EvenlyReleased
<1>8. CASE RunBoth
  <2>1. /\ Handling("entry") /\ Met /\ SameCall /\ PtraceSyscall(Variant)
    BY <1>8 DEF RunBoth, Synchronising, resumeVariantFromWait
  <2>2. /\ proc["master"] = "entry" /\ proc["replica"] = "entry"
        /\ issued["master"] = issued["replica"]
        /\ \A v \in Variant : /\ proc[v] \in {"entry", "zombie", "gone"}
                              /\ issued[v] = released[v] + 1
    BY <1>1, <2>1, OneCall, Meeting
  <2> QED
    BY <1>1, <2>1, <2>2, ResumedAtEntry
<1>9. CASE RecordMapping
  <2>1. /\ pc = "gotMaster" /\ status = "stopped" /\ pc \in InCall
        /\ PtraceSyscall(Variant)
    BY <1>9 DEF RecordMapping, InCall
  <2>2. /\ proc["master"] = "exit" /\ proc["replica"] = "entry"
        /\ released["master"] = issued["replica"]
        /\ issued["replica"] = released["replica"] + 1
    BY <1>1, <2>1, AtMastersExit, AliveInCall
  <2> QED
    BY <1>1, <2>1, <2>2 DEF PtraceSyscall
<1>10. CASE FinishCall
  <2>1. /\ pc = "gotReplica" /\ status = "stopped" /\ pc \in InCall
        /\ PtraceSyscall(Variant)
    BY <1>10 DEF FinishCall, InCall, resumeVariantFromExit,
                 resumeVariantFromWait
  <2>2. proc["master"] = "exit" /\ proc["replica"] = "exit"
    BY <1>1, <2>1, AliveInCall DEF IInv, ExecutorAtReplica
  <2>3. /\ released["master"] = issued["master"]
        /\ released["replica"] = issued["replica"]
        /\ issued["master"] = issued["replica"]
    BY <1>1, <2>1, <2>2 DEF IInv, Counting, InExecutor
  <2> QED
    BY <1>1, <2>1, <2>2, <2>3 DEF PtraceSyscall
<1> QED
  BY <1>1, <1>2, <1>3, <1>4, <1>5, <1>6, <1>7, <1>8, <1>9, <1>10 DEF CalmNext

LEMMA MarkedRecordStep ==
    ASSUME Undisturbed, CalmInv, [Next]_vars, pc' # "exited"
    PROVE  MarkedRecord'
<1> USE DEF localVars, recordVars, historyVars, processVars
<1> SUFFICES ASSUME NEW v \in Variant, state'[v] = "wait"
             PROVE  syscallInfo'[v].op = "entry"
  BY DEF MarkedRecord
<1>1. /\ CalmNext /\ IInv /\ TypeOK /\ pc # "exited"
      /\ Variant = {"master", "replica"}
  BY CalmSteps, Moves DEF CalmInv, CallInv, IInv, Variant
<1>2. CASE state[v] = "wait" /\ syscallInfo'[v] = syscallInfo[v]
  BY <1>1, <1>2 DEF CalmInv, Calm, MarkedRecord
<1>3. ASSUME NEW w \in Variant, Issue(w) \/ KernelReturn(w) \/ initVariant(w)
      PROVE  state[v] = "wait" /\ syscallInfo'[v] = syscallInfo[v]
  BY <1>1, <1>3 DEF Issue, KernelReturn, initVariant, TypeOK
<1>4. ASSUME \/ \E w \in Variant : WaitAnyVariant(w)
             \/ WaitMaster \/ WaitReplica \/ UNCHANGED vars
      PROVE  state[v] = "wait" /\ syscallInfo'[v] = syscallInfo[v]
  BY <1>4 DEF WaitAnyVariant, WaitMaster, WaitReplica, waitVariant, Collect,
              vars
<1>5. ~UnknownChild /\ ~LeaveLoop
  BY DEF UnknownChild, LeaveLoop, Exit
<1>6. CASE AwaitPartner
  <2>1. Handling("entry") /\ state' = [state EXCEPT ![who] = "wait"]
    BY <1>6 DEF AwaitPartner
  <2>2. v # who => state[v] = "wait" /\ syscallInfo'[v] = syscallInfo[v]
    BY <1>1, <2>1, HandlingFacts DEF TypeOK
  <2>3. v = who => syscallInfo'[v].op = "entry"
    BY <1>1, <2>1, HandlingFacts
  <2> QED
    BY <1>2, <2>2, <2>3
<1>7. CASE ResumeFromExit
  <2>1. Handling("exit") /\ state[v] = "wait"
    BY <1>7 DEF ResumeFromExit, resumeVariantFromExit
  <2>2. v # who
    <3>1. v = who => proc[v] = "exit"
      BY <1>1, <2>1, HandlingFacts
    <3> QED
      BY <1>1, <2>1, <3>1, RunnerUnmarked DEF CalmInv
  <2>3. syscallInfo'[v] = syscallInfo[v]
    BY <1>1, <2>1, <2>2, HandlingFacts
  <2> QED
    BY <1>2, <2>1, <2>3
<1>8. ~RunBoth
  BY DEF RunBoth, resumeVariantFromWait
<1>9. CASE RunMaster
  <2>1. /\ Handling("entry") /\ v = "replica" /\ state[v] = "wait"
    BY <1>1, <1>9 DEF RunMaster, Synchronising, resumeVariantFromWait
  <2>2. v = who => syscallInfo'[v].op = "entry"
    BY <1>1, <2>1, HandlingFacts
  <2>3. v # who => syscallInfo'[v] = syscallInfo[v]
    BY <1>1, <2>1, HandlingFacts
  <2> QED
    BY <1>2, <2>1, <2>2, <2>3
<1>10. CASE RecordMapping
  <2>1. /\ pc = "gotMaster" /\ status = "stopped"
        /\ state' = [state EXCEPT !["replica"] = "running"]
    BY <1>10 DEF RecordMapping
  <2> QED
    BY <1>1, <2>1, AtMastersExit DEF TypeOK
<1>11. CASE RunReplica
  <2>1. /\ pc = "gotMaster" /\ status = "stopped" /\ state[v] = "wait"
        /\ \/ syscallInfo' = syscallInfo
           \/ syscallInfo' = [syscallInfo EXCEPT !["master"] =
                                  SyscallInfo("master")]
    BY <1>11 DEF RunReplica, MasterDone, requestSyscallInfo,
                 resumeVariantFromWait
  <2>2. v = "replica"
    BY <1>1, <2>1, AtMastersExit
  <2>3. syscallInfo'[v] = syscallInfo[v]
    BY <1>1, <2>1, <2>2 DEF TypeOK
  <2> QED
    BY <1>2, <2>1, <2>3
<1>12. CASE FinishCall
  <2>1. state[v] = "wait" /\ syscallInfo' = syscallInfo
    BY <1>12 DEF FinishCall, resumeVariantFromExit, resumeVariantFromWait
  <2> QED
    BY <1>2, <2>1
<1> QED
  BY <1>1, <1>2, <1>3, <1>4, <1>5, <1>6, <1>7, <1>8, <1>9, <1>10, <1>11, <1>12
     DEF CalmNext

LEMMA PrivateTableStep ==
    ASSUME Undisturbed, CalmInv, [Next]_vars, pc' # "exited"
    PROVE  PrivateTable'
<1> USE DEF localVars, recordVars, historyVars, processVars
<1>1. /\ CalmNext /\ IInv /\ TypeOK /\ CallInv /\ "master" \in Variant
      /\ \A i \in DOMAIN mappings : HasBit(mappings[i].flags, MAP_PRIVATE)
      /\ pc \in InCall => exec = call["master"]
  BY CalmSteps DEF CalmInv, CallInv, IInv, Calm, PrivateTable, Variant
<1>2. ASSUME mappings' = mappings,
             \/ UNCHANGED <<exec, call>> /\ (pc' \in InCall => pc \in InCall)
             \/ pc' \notin InCall
             \/ exec' = call'["master"]
      PROVE  PrivateTable'
  BY <1>1, <1>2 DEF PrivateTable
<1>3. ASSUME NEW v \in Variant, Issue(v) PROVE PrivateTable'
  <2>1. mappings' = mappings /\ pc' = pc /\ pc \notin InCall
    BY <1>1, <1>3, IssueFacts
  <2> QED
    BY <1>2, <2>1
<1>4. ASSUME NEW v \in Variant, KernelReturn(v) \/ initVariant(v)
      PROVE  PrivateTable'
  BY <1>2, <1>4 DEF KernelReturn, initVariant, InCall
<1>5. ASSUME NEW v \in Variant, WaitAnyVariant(v) PROVE PrivateTable'
  BY <1>2, <1>5 DEF WaitAnyVariant, Collect, InCall
<1>6. ASSUME WaitMaster \/ WaitReplica PROVE PrivateTable'
  BY <1>2, <1>6 DEF WaitMaster, WaitReplica, waitVariant, Collect, InCall
<1>7. ~UnknownChild /\ ~LeaveLoop
  BY DEF UnknownChild, LeaveLoop, Exit
<1>8. ASSUME AwaitPartner \/ ResumeFromExit \/ FinishCall PROVE PrivateTable'
  BY <1>2, <1>8 DEF AwaitPartner, ResumeFromExit, FinishCall, InCall
<1>9. ASSUME RunBoth PROVE PrivateTable'
  <2>1. /\ Handling("entry") /\ Met /\ SameCall /\ pc' = "waitAny"
        /\ Executing.table # "remove" => mappings' = mappings
    BY <1>9 DEF RunBoth, Synchronising
  <2>2. InfoOf("master").nr = call["master"].nr
    BY <1>1, <2>1, Meeting
  <2>3. Executing.table = "remove" => call["master"].nr = "munmap"
    BY <2>1, <2>2, ExecutorsRun DEF SameCall, Executing, RunsSoundly
  <2>4. call["master"].nr # "munmap"
    BY <1>1, MadeCall DEF CallInv, Undisturbed
  <2> QED
    BY <1>2, <2>1, <2>3, <2>4 DEF InCall
<1>10. ASSUME RunMaster PROVE PrivateTable'
  <2>1. /\ Handling("entry") /\ Met /\ SameCall
        /\ mappings' = mappings /\ call' = call
        /\ exec' = [nr |-> InfoOf("master").nr, args |-> InfoOf("master").args]
    BY <1>10 DEF RunMaster, Synchronising
  <2>2. /\ InfoOf("master").nr = call["master"].nr
        /\ InfoOf("master").args = call["master"].args
    BY <1>1, <2>1, Meeting
  <2>3. call["master"] \in Call
    BY <1>1 DEF TypeOK
  <2>4. exec' = call["master"]
    BY <2>1, <2>2, <2>3 DEF Call
  <2> QED
    BY <1>2, <2>1, <2>4
<1>11. ASSUME RecordMapping PROVE PrivateTable'
  <2>1. /\ pc = "gotMaster" /\ pc \in InCall /\ E.run = "map"
        /\ pc' = "waitAny"
        /\ \E addr, len : mappings' = addMapping(mappings, addr, len,
                                                 AsInt(exec.args[2]),
                                                 AsInt(exec.args[3]))
    BY <1>11 DEF RecordMapping, InCall
  <2>2. /\ exec = call["master"] /\ exec.nr = "mmap"
        /\ exec.nr \in Calls \cup {"exit_group"}
    BY <1>1, <2>1, CallInDispatch DEF RunsSoundly, E
  <2>3. call["master"] \in [nr : Calls, args : Args] /\ "mmap" \in Calls
    BY <1>1, <2>2 DEF CallInv, CallsMade, NoCall, ProgramCalls, ExitCall
  <2>4. HasBit(AsInt(exec.args[3]), MAP_PRIVATE)
    BY <2>2, <2>3 DEF Undisturbed
  <2>5. PICK m : mappings' = Append(mappings, m) /\ m.flags = AsInt(exec.args[3])
    BY <2>1 DEF addMapping
  <2>6. \A i \in DOMAIN mappings' : HasBit(mappings'[i].flags, MAP_PRIVATE)
    <3>1. /\ mappings \in Seq(variantMMap)
          /\ DOMAIN mappings = 1 .. Len(mappings) /\ Len(mappings) \in Nat
      BY <1>1 DEF TypeOK
    <3>2. /\ DOMAIN mappings' = 1 .. Len(mappings) + 1
          /\ \A i \in 1 .. Len(mappings) : mappings'[i] = mappings[i]
          /\ mappings'[Len(mappings) + 1] = m
      BY <2>5, <3>1
    <3> QED
      BY <1>1, <2>4, <2>5, <3>1, <3>2
  <2> QED
    BY <2>1, <2>6 DEF PrivateTable, InCall
<1>12. ASSUME RunReplica PROVE PrivateTable'
  BY <1>2, <1>12 DEF RunReplica, MasterDone, InCall
<1>13. UNCHANGED vars => PrivateTable'
  BY <1>2 DEF vars
<1> QED
  BY <1>1, <1>3, <1>4, <1>5, <1>6, <1>7, <1>8, <1>9, <1>10, <1>11, <1>12,
     <1>13 DEF CalmNext

LEMMA KernelResultStep ==
    ASSUME Undisturbed, CalmInv, [Next]_vars, pc' # "exited"
    PROVE  KernelResult'
<1> USE DEF localVars, recordVars, historyVars, processVars
<1> SUFFICES ASSUME NEW v \in Variant, proc'[v] = "exit"
             PROVE  rax'[v] \in Rvals
  BY DEF KernelResult
<1>1. /\ CalmNext /\ IInv /\ TypeOK
      /\ proc[v] = "exit" => rax[v] \in Rvals
  BY CalmSteps DEF CalmInv, CallInv, IInv, Calm, KernelResult
<1>2. CASE KernelReturn(v)
  BY <1>1, <1>2 DEF KernelReturn, TypeOK
<1>3. CASE ~KernelReturn(v)
  <2>1. proc[v] = "exit"
    <3>1. Issue(v) => proc'[v] = "entry"
      BY <1>1, IssueFacts
    <3> QED
      BY <1>1, <1>3, <3>1, Moves
  <2>2. ~FinishCall
    <3>1. FinishCall => PtraceSyscall(Variant)
      BY DEF FinishCall, resumeVariantFromExit, resumeVariantFromWait
    <3> QED
      BY <2>1, <3>1 DEF PtraceSyscall, Stopped
  <2>3. ASSUME NEW w \in Variant, Issue(w) \/ initVariant(w) \/ WaitAnyVariant(w)
        PROVE  rax'[v] = rax[v]
    BY <2>3 DEF Issue, initVariant, WaitAnyVariant, Collect
  <2>4. ASSUME NEW w \in Variant, KernelReturn(w) PROVE rax'[v] = rax[v]
    <3>1. w # v
      BY <1>3, <2>4
    <3> QED
      BY <1>1, <2>4, <3>1 DEF KernelReturn, TypeOK
  <2>5. ASSUME \/ UnknownChild \/ LeaveLoop \/ AwaitPartner
               \/ ResumeFromExit \/ RunBoth \/ RunMaster \/ WaitMaster
               \/ WaitReplica \/ RecordMapping \/ RunReplica
               \/ UNCHANGED vars
        PROVE  rax' = rax
    BY <2>5 DEF UnknownChild, LeaveLoop, Exit, AwaitPartner, ResumeFromExit,
       RunBoth, RunMaster, WaitMaster, WaitReplica, waitVariant, Collect,
       RecordMapping, RunReplica, vars
  <2>6. rax'[v] = rax[v]
    BY <1>1, <2>2, <2>3, <2>4, <2>5 DEF CalmNext
  <2> QED
    BY <1>1, <2>1, <2>6
<1> QED
  BY <1>2, <1>3

-----------------------------------------------------------------------------
(* The theorem                                                             *)

LEMMA CalmInit == Init => Calm
<1> SUFFICES ASSUME Init PROVE Calm
  OBVIOUS
<1> USE DEF Init
<1>1. SameCalls /\ KernelCall /\ Unharmed
  BY ConstantsAssumption DEF SameCalls, KernelCall, Unharmed, Variant
<1>2. Endings /\ EvenlyReleased
  BY DEF Endings, Ended, EvenlyReleased, Main, Variant
<1>3. MarkedRecord /\ PrivateTable /\ KernelResult
  BY DEF MarkedRecord, PrivateTable, KernelResult, InCall, Variant
<1> QED
  BY <1>1, <1>2, <1>3 DEF Calm

\* The end, of which a Calm state is left.
LEMMA CalmEnd ==
    ASSUME Undisturbed, CalmInv, [Next]_vars, pc' = "exited"
    PROVE  Calm'
<1>1. SameCalls' /\ KernelCall'
  BY SameCallsStep, KernelCallStep
<1>2. \/ UNCHANGED vars
      \/ UnknownChild \/ LeaveLoop
  <2>1. CalmNext /\ IInv
    BY CalmSteps DEF CalmInv, CallInv
  <2>2. ASSUME NEW v \in Variant, Issue(v) \/ KernelReturn(v) PROVE FALSE
    <3>1. pc = "exited" /\ proc[v] \in {"user", "kernel"}
      BY <2>2 DEF Issue, KernelReturn
    <3> QED
      BY <2>1, <3>1 DEF IInv, StartAndEnd
  <2>3. \A v \in Variant : ~initVariant(v) /\ ~WaitAnyVariant(v)
    BY DEF initVariant, WaitAnyVariant, Collect
  <2>4. ~WaitMaster /\ ~WaitReplica
    BY DEF WaitMaster, WaitReplica, waitVariant, Collect
  <2>5. /\ ~AwaitPartner /\ ~ResumeFromExit /\ ~RunBoth /\ ~RunMaster
        /\ ~RecordMapping /\ ~RunReplica /\ ~FinishCall
    BY DEF AwaitPartner, ResumeFromExit, RunBoth, RunMaster, RecordMapping,
           RunReplica, FinishCall
  <2> QED
    BY <2>1, <2>2, <2>3, <2>4, <2>5 DEF CalmNext
<1>3. CASE UNCHANGED vars
  <2> USE <1>3 DEF vars, processVars, recordVars, localVars, historyVars
  <2>1. Unharmed' /\ EvenlyReleased' /\ MarkedRecord'
    BY DEF CalmInv, Calm, Unharmed, EvenlyReleased, MarkedRecord
  <2>2. Endings' /\ PrivateTable' /\ KernelResult'
    BY DEF CalmInv, Calm, Endings, Ended, PrivateTable, KernelResult
  <2> QED
    BY <1>1, <2>1, <2>2 DEF Calm
<1>4. CASE UnknownChild \/ LeaveLoop
  <2>1. /\ mappings' = mappings
        /\ \A v \in Variant : proc'[v] \in {"gone", "orphan"}
    BY <1>4 DEF UnknownChild, LeaveLoop, Exit
  <2>2. Unharmed' /\ Endings' /\ EvenlyReleased' /\ MarkedRecord'
    BY <2>1 DEF Unharmed, Endings, EvenlyReleased, MarkedRecord, Main
  <2>3. PrivateTable' /\ KernelResult'
    BY <2>1 DEF CalmInv, Calm, PrivateTable, KernelResult, InCall
  <2> QED
    BY <1>1, <2>2, <2>3 DEF Calm
<1> QED
  BY <1>2, <1>3, <1>4

LEMMA CalmStep ==
    ASSUME Undisturbed, CalmInv, [Next]_vars
    PROVE  Calm'
<1>1. CASE pc' = "exited"
  BY <1>1, CalmEnd
<1>2. CASE pc' # "exited"
  BY <1>2, SameCallsStep, KernelCallStep, UnharmedStep, EndingsStep,
     EvenlyReleasedStep, MarkedRecordStep, PrivateTableStep, KernelResultStep
     DEF Calm
<1> QED
  BY <1>1, <1>2

LEMMA CalmCorrect ==
    ASSUME Undisturbed
    PROVE  Spec => []CalmInv
<1>1. CallInv /\ MarkedWaiting /\ Calm /\ [Next]_vars => Calm'
  BY CalmStep DEF CalmInv
<1>2. Spec => []MarkedWaiting
  BY MarkedCorrect DEF Undisturbed
<1> QED
  BY <1>1, <1>2, CalmInit, CallInvCorrect, PTL DEF Spec, CalmInv

\* An undisturbed step ends the monitor with the end of the variants only.
LEMMA CalmOutcome ==
    ASSUME Undisturbed, CalmInv, NoFalseAlarm, [Next]_vars
    PROVE  NoFalseAlarm'
<1> USE DEF localVars, recordVars, historyVars, processVars
<1>1. CalmNext
  BY CalmSteps
<1>2. ASSUME NEW v \in Variant,
             Issue(v) \/ KernelReturn(v) \/ initVariant(v) \/ WaitAnyVariant(v)
      PROVE  outcome' = outcome
  BY <1>2 DEF Issue, KernelReturn, initVariant, WaitAnyVariant, Collect
<1>3. ASSUME UnknownChild \/ LeaveLoop
      PROVE  outcome' \in {"unknownChild", "variantsExited"}
  BY <1>3 DEF UnknownChild, LeaveLoop, Exit
<1>4. ASSUME \/ AwaitPartner \/ ResumeFromExit \/ RunBoth \/ RunMaster
             \/ WaitMaster \/ WaitReplica \/ RecordMapping \/ RunReplica
             \/ FinishCall \/ UNCHANGED vars
      PROVE  outcome' = outcome
  BY <1>4 DEF AwaitPartner, ResumeFromExit, RunBoth, RunMaster, WaitMaster,
     WaitReplica, waitVariant, Collect, RecordMapping, RunReplica, FinishCall,
     vars
<1> QED
  BY <1>1, <1>2, <1>3, <1>4 DEF CalmNext, NoFalseAlarm

\* Two runs of one program that nobody interrupts are never reported as
\* divergent, and processVariantEvent never meets a state its records rule
\* out (the handling of errors in monitor.c:main).
THEOREM NoFalseAlarmCorrect ==
    ASSUME Undisturbed
    PROVE  Spec => []NoFalseAlarm
<1>1. Init => NoFalseAlarm
  BY DEF Init, NoFalseAlarm
<1>2. CalmInv /\ NoFalseAlarm /\ [Next]_vars => NoFalseAlarm'
  BY CalmOutcome
<1> QED
  BY <1>1, <1>2, CalmCorrect, PTL DEF Spec
=============================================================================
