------------------------------ MODULE Monitor -------------------------------
(***************************************************************************)
(* The monitor (monitor.c, variant.c) and the two variants it traces.      *)
(*                                                                         *)
(* The monitor is one thread.  It blocks in waitpid only, so its steps are *)
(* those between two waits, split where a report has been collected and    *)
(* not yet acted on: a variant may be killed at that moment.  A variant is *)
(* a process under ptrace.  It stops at the entry and at the exit of every *)
(* system call and goes on when the monitor resumes it.                    *)
(***************************************************************************)
EXTENDS Executors, Mappings, FiniteSets

CONSTANTS
    Calls,      \* system calls the program may make, by name
    Args,       \* argument vectors it may make them with
    Rvals,      \* results the kernel may return
    MaxCalls,   \* bound: calls of a variant before its exit_group
    Faults,     \* subset of {"start", "kill", "signal"}
    Divergence  \* how the k-th calls of the variants may differ: "none",
                \* "arguments" (not in the number), or "any"

ASSUME ConstantsAssumption ==
    /\ Calls \subseteq Implemented \cup {"unknown"}
    /\ Args \subseteq [Arg -> Int]
    /\ Rvals \subseteq Int
    /\ MaxCalls \in Nat
    /\ Faults \subseteq {"start", "kill", "signal"}
    /\ Divergence \in {"none", "arguments", "any"}

VARIABLES
    \* The variants, as the kernel sees them.
    proc,        \* where the process is, see ProcState
    news,        \* has it a report that waitpid has not collected?
    regs,        \* number and arguments of its current call
    rax,         \* result of its last call
    \* The two variant structures and the mapping table.
    state, syscallNum, syscallInfo, mappings,
    \* Where the monitor is, and its locals.
    pc,
    who, status, \* the variant that waitpid reported, and what it reported
    exec,        \* the call an executor is taking the variants through
    rval,        \* the master's result, in an executor
    outcome,     \* how the monitor ended
    \* History: calls each variant has made and has been let through, and
    \* the last one it made.
    issued, released, call

processVars == <<proc, news, regs, rax>>
recordVars  == <<state, syscallNum, syscallInfo>>
localVars   == <<who, status, exec, rval>>
historyVars == <<issued, released, call>>
vars == <<processVars, recordVars, mappings, pc, localVars, outcome,
          historyVars>>

Variant  == {"master", "replica"}
Other(v) == IF v = "master" THEN "replica" ELSE "master"

NoArgs == [i \in Arg |-> 0]
Call   == [nr : Implemented \cup {"unknown", "none"}, args : [Arg -> Int]]
NoCall == [nr |-> "none", args |-> NoArgs]

\* entry, exit, signal: stopped under ptrace.  user, kernel: running.
\* zombie: ended, not yet waited for.  orphan: running without the monitor.
ProcState == {"none", "user", "entry", "kernel", "exit", "signal",
              "zombie", "gone", "orphan"}
Stopped(v) == proc[v] \in {"entry", "exit", "signal"}
Alive(v)   == Stopped(v) \/ proc[v] \in {"user", "kernel"}

Control == {"startMaster", "startReplica", "waitAny", "event",
            "waitMaster", "gotMaster", "waitReplica", "gotReplica", "exited"}
Outcome == {"running", "variantsExited", "invalidState", "syncFailed",
            "unknownChild"}

\* struct ptrace_syscall_info: entry and exit are the members of a union.
Info   == [op : {"none", "entry", "exit"}, nr : Implemented \cup
           {"unknown", "none"}, args : [Arg -> Int], rval : Int]
NoInfo == [op |-> "none", nr |-> "none", args |-> NoArgs, rval |-> 0]

TypeOK ==
    /\ proc \in [Variant -> ProcState]
    /\ news \in [Variant -> BOOLEAN]
    /\ regs \in [Variant -> Call]
    /\ rax \in [Variant -> Int]
    /\ state \in [Variant -> {"running", "wait"}]
    /\ syscallNum \in [Variant -> Nat]
    /\ syscallInfo \in [Variant -> Info]
    /\ mappings \in Seq(variantMMap)
    /\ pc \in Control
    /\ who \in Variant
    /\ status \in {"stopped", "exited"}
    /\ exec \in Call
    /\ rval \in Int
    /\ outcome \in Outcome
    /\ issued \in [Variant -> Nat]
    /\ released \in [Variant -> Nat]
    /\ call \in [Variant -> Call]

Init ==
    /\ proc = [v \in Variant |-> "none"]
    /\ news = [v \in Variant |-> FALSE]
    /\ regs = [v \in Variant |-> NoCall]
    /\ rax = [v \in Variant |-> 0]
    /\ state = [v \in Variant |-> "running"]
    /\ syscallNum = [v \in Variant |-> 0]
    /\ syscallInfo = [v \in Variant |-> NoInfo]
    /\ mappings = << >>
    /\ pc = "startMaster"
    /\ who = "master"
    /\ status = "stopped"
    /\ exec = NoCall
    /\ rval = 0
    /\ outcome = "running"
    /\ issued = [v \in Variant |-> 0]
    /\ released = [v \in Variant |-> 0]
    /\ call = [v \in Variant |-> NoCall]

-----------------------------------------------------------------------------
(* The processes and the kernel                                            *)

\* The program's next call.  After MaxCalls of them it exits.  Unless the
\* variants may diverge, the one that is behind repeats the other's call.
NextCalls(v) ==
    LET behind == issued[v] < issued[Other(v)]
        any    == [nr : Calls, args : Args]
    IN  CASE issued[v] = MaxCalls -> {[nr |-> "exit_group", args |-> NoArgs]}
          [] issued[v] < MaxCalls /\ behind /\ Divergence = "none" ->
                 {call[Other(v)]}
          [] issued[v] < MaxCalls /\ behind /\ Divergence = "arguments" ->
                 {c \in any : c.nr = call[Other(v)].nr}
          [] OTHER -> any

Issue(v) ==
    /\ proc[v] = "user"
    /\ issued[v] <= MaxCalls
    /\ \E c \in NextCalls(v) :
        /\ regs' = [regs EXCEPT ![v] = c]
        /\ call' = [call EXCEPT ![v] = c]
    /\ issued' = [issued EXCEPT ![v] = @ + 1]
    /\ proc' = [proc EXCEPT ![v] = "entry"]
    /\ news' = [news EXCEPT ![v] = TRUE]
    /\ UNCHANGED <<rax, recordVars, mappings, pc, localVars, outcome, released>>

KernelReturn(v) ==
    /\ proc[v] = "kernel"
    /\ \E r \in Rvals : rax' = [rax EXCEPT ![v] = r]
    /\ proc' = [proc EXCEPT ![v] =
                   IF regs[v].nr = "exit_group" THEN "zombie" ELSE "exit"]
    /\ news' = [news EXCEPT ![v] = TRUE]
    /\ UNCHANGED <<regs, recordVars, mappings, pc, localVars, outcome,
                   historyVars>>

\* A fatal signal from outside, at any point.
Kill(v) ==
    /\ "kill" \in Faults
    /\ Alive(v)
    /\ proc' = [proc EXCEPT ![v] = "zombie"]
    /\ news' = [news EXCEPT ![v] = TRUE]
    /\ UNCHANGED <<regs, rax, recordVars, mappings, pc, localVars, outcome,
                   historyVars>>

\* Any other signal is delivered on the way back to the program.
Signal(v) ==
    /\ "signal" \in Faults
    /\ proc[v] = "user"
    /\ proc' = [proc EXCEPT ![v] = "signal"]
    /\ news' = [news EXCEPT ![v] = TRUE]
    /\ UNCHANGED <<regs, rax, recordVars, mappings, pc, localVars, outcome,
                   historyVars>>

\* PTRACE_SYSCALL on the variants of S: nothing happens to one that is dead.
PtraceSyscall(S) ==
    /\ proc' = [v \in Variant |->
                  IF v \notin S \/ ~Stopped(v) THEN proc[v]
                  ELSE IF proc[v] = "entry" THEN "kernel" ELSE "user"]
    /\ released' = [v \in Variant |->
                      IF v \in S /\ proc[v] = "entry" THEN released[v] + 1
                                                      ELSE released[v]]

\* The options of PTRACE_SETOPTIONS replace those set before.
SetOptions(old, new) == new

configureChildProc ==
    SetOptions(SetOptions({}, {"EXITKILL"}), {"TRACESYSGOOD"})

\* The monitor ends.  A variant that lives is detached, unless it was killed
\* or is on its way out.
Exit(how, killed) ==
    /\ pc' = "exited"
    /\ outcome' = how
    /\ proc' = [v \in Variant |->
                  IF \/ ~Alive(v) \/ v \in killed
                     \/ "EXITKILL" \in configureChildProc
                     \/ proc[v] = "kernel" /\ regs[v].nr = "exit_group"
                  THEN "gone" ELSE "orphan"]
    /\ news' = [v \in Variant |-> FALSE]
    /\ UNCHANGED <<regs, rax, localVars, call, issued>>

-----------------------------------------------------------------------------
(* Helpers of the monitor (variant.c)                                      *)

resumeVariantFromWait(S) ==
    /\ PtraceSyscall(S)
    /\ state' = [v \in Variant |-> IF v \in S THEN "running" ELSE state[v]]
    /\ UNCHANGED syscallNum

\* Mutant: the call number goes down.
CountsDown(S) ==
    /\ PtraceSyscall(S)
    /\ syscallNum' = [syscallNum EXCEPT ![CHOOSE v \in S : TRUE] = @ - 1]
    /\ UNCHANGED state

resumeVariantFromExit(S) ==
    /\ PtraceSyscall(S)
    /\ syscallNum' = [v \in Variant |->
                        IF v \in S THEN syscallNum[v] + 1 ELSE syscallNum[v]]
    /\ UNCHANGED state

\* What PTRACE_GET_SYSCALL_INFO puts in the zeroed structure.
SyscallInfo(v) ==
    CASE proc[v] = "entry" -> [op |-> "entry", nr |-> regs[v].nr,
                               args |-> regs[v].args, rval |-> 0]
      [] proc[v] = "exit"  -> [NoInfo EXCEPT !.op = "exit", !.rval = rax[v]]
      [] OTHER             -> NoInfo

requestSyscallInfo(v) ==
    syscallInfo' = [syscallInfo EXCEPT ![v] = SyscallInfo(v)]

\* waitpid collects the report of a variant.
Collect(v, next) ==
    /\ news[v]
    /\ news' = [news EXCEPT ![v] = FALSE]
    /\ status' = IF proc[v] = "zombie" THEN "exited" ELSE "stopped"
    /\ proc' = IF proc[v] = "zombie" THEN [proc EXCEPT ![v] = "gone"] ELSE proc
    /\ pc' = next
    /\ UNCHANGED <<regs, rax, recordVars, mappings, exec, rval, outcome,
                   historyVars>>

waitVariant(v, next) ==
    /\ Collect(v, next)
    /\ UNCHANGED who

-----------------------------------------------------------------------------
(* Start and main loop (monitor.c)                                         *)

\* initVariant, and the resume that follows it in main.  A child that cannot
\* start has ended, and the report of it is dropped, when initVariant returns.
initVariant(v) ==
    /\ pc = IF v = "master" THEN "startMaster" ELSE "startReplica"
    /\ \E p \in {"user"} \cup (IF "start" \in Faults THEN {"gone"} ELSE {}) :
            proc' = [proc EXCEPT ![v] = p]
    /\ state' = [state EXCEPT ![v] = "running"]
    /\ syscallNum' = [syscallNum EXCEPT ![v] = 0]
    /\ pc' = IF v = "master" THEN "startReplica" ELSE "waitAny"
    /\ UNCHANGED <<news, regs, rax, syscallInfo, mappings, localVars, outcome,
                   historyVars>>

\* waitpid(-1) in the loop of main.
WaitAnyVariant(v) ==
    /\ pc = "waitAny"
    /\ who' = v
    /\ Collect(v, "event")

\* It returns -1, the pid of no variant, when there is no child left.
UnknownChild ==
    /\ pc = "waitAny"
    /\ \A v \in Variant : proc[v] = "gone"
    /\ Exit("unknownChild", {})
    /\ UNCHANGED <<recordVars, mappings, released>>

\* checkVariantExit ends the loop on the first variant that has ended.
LeaveLoop ==
    /\ pc = "event"
    /\ status = "exited"
    /\ Exit("variantsExited", {})
    /\ UNCHANGED <<recordVars, mappings, released>>

\* The states of processVariantEvent, for the variant who has stopped.
Handling(op) ==
    /\ pc = "event"
    /\ status = "stopped"
    /\ SyscallInfo(who).op = op
    /\ requestSyscallInfo(who)

\* Mutant of Met: the partner's state is not looked at.
MetByNumber == syscallNum[who] = syscallNum[Other(who)]
Met   == syscallNum[who] = syscallNum[Other(who)] /\ state[Other(who)] = "wait"
Late  == syscallNum[who] < syscallNum[Other(who)]

InvalidState ==
    /\ \/ Handling("none")
       \/ Handling("entry") /\ Late
    /\ Exit("invalidState", {})
    /\ UNCHANGED <<state, syscallNum, mappings, released>>

\* Mutant of AwaitPartner: the variant is resumed while it is marked waiting.
AwaitPartnerRunning ==
    /\ Handling("entry")
    /\ ~Met /\ ~Late
    /\ PtraceSyscall({who})
    /\ state' = [state EXCEPT ![who] = "wait"]
    /\ pc' = "waitAny"
    /\ UNCHANGED <<news, regs, rax, syscallNum, mappings, localVars, outcome,
                   issued, call>>

AwaitPartner ==
    /\ Handling("entry")
    /\ ~Met /\ ~Late
    /\ state' = [state EXCEPT ![who] = "wait"]
    /\ pc' = "waitAny"
    /\ UNCHANGED <<processVars, syscallNum, mappings, localVars, outcome,
                   historyVars>>

ResumeFromExit ==
    /\ Handling("exit")
    /\ resumeVariantFromExit({who})
    /\ pc' = "waitAny"
    /\ UNCHANGED <<news, regs, rax, mappings, localVars, outcome, issued, call>>

-----------------------------------------------------------------------------
(* processSyscallSync, up to the first wait of the executor                *)

\* The structures at the call: that of who has just been read.
InfoOf(v) == IF v = who THEN SyscallInfo(v) ELSE syscallInfo[v]

\* PTRACE_PEEKDATA reads a stopped variant only.
Memory(v) == IF Stopped(v) THEN InfoOf(v).args ELSE NoArgs

\* Mutant of SameCall: the numbers are not compared.
SameOperation ==
    /\ InfoOf("master").op = InfoOf("replica").op
    /\ InfoOf("master").nr \in Implemented

SameCall ==
    /\ InfoOf("master").op = InfoOf("replica").op
    /\ InfoOf("master").nr = InfoOf("replica").nr
    /\ InfoOf("master").nr \in Implemented

Executing == Executor[InfoOf("master").nr]

\* Mutant of ArgumentsAgree: the master's registers twice.
MasterTwice ==
    Agree(Executing, InfoOf("master").args, InfoOf("master").args,
          Memory("master"), Memory("replica"))

ArgumentsAgree ==
    Agree(Executing, InfoOf("master").args, InfoOf("replica").args,
          Memory("master"), Memory("replica"))

\* The security policy of mmap and mprotect, and what munmap can handle.
TableAllows ==
    LET a == InfoOf("master").args
    IN  Permits(mappings, Executing.table, a[0], AsInt(a[2]), AsInt(a[3]))

Synchronising(run) ==
    /\ Handling("entry")
    /\ Met
    /\ SameCall
    /\ Executing.run = run
    /\ ArgumentsAgree
    /\ TableAllows

\* main kills both variants when an executor fails.
Fail ==
    /\ Exit("syncFailed", Variant)
    /\ UNCHANGED mappings

RefuseCall ==
    /\ Handling("entry")
    /\ Met
    /\ SameCall => /\ ~(ArgumentsAgree /\ TableAllows)
                   /\ ~Executing.late
    /\ Fail
    /\ UNCHANGED <<state, syscallNum, released>>

\* fadvise64 and rseq resume the variants and then report the difference.
RefuseCallLate ==
    /\ Handling("entry")
    /\ Met
    /\ SameCall
    /\ Executing.late
    /\ ~ArgumentsAgree
    /\ state' = [v \in Variant |-> "running"]
    /\ released' = [v \in Variant |-> IF proc[v] = "entry" THEN released[v] + 1
                                                           ELSE released[v]]
    /\ Fail
    /\ UNCHANGED syscallNum

RunBoth ==
    /\ Synchronising("both")
    /\ resumeVariantFromWait(Variant)
    /\ mappings' = IF Executing.table = "remove"
                   THEN removeMapping(mappings, InfoOf("master").args[0])
                   ELSE mappings
    /\ pc' = "waitAny"
    /\ UNCHANGED <<news, regs, rax, localVars, outcome, issued, call>>

RunBothAsAtExit ==
    /\ Synchronising("skip")
    /\ resumeVariantFromExit(Variant)
    /\ pc' = "waitAny"
    /\ UNCHANGED <<news, regs, rax, mappings, localVars, outcome, issued, call>>

\* Mutants of RunMaster: the replica is resumed with the master, or first.
RunMasterResuming(S) ==
    /\ \/ Synchronising("map")
       \/ Synchronising("serial")
    /\ exec' = [nr |-> InfoOf("master").nr, args |-> InfoOf("master").args]
    /\ resumeVariantFromWait(S)
    /\ pc' = "waitMaster"
    /\ UNCHANGED <<news, regs, rax, mappings, who, status, rval, outcome,
                   issued, call>>
RunMasterAndReplica == RunMasterResuming(Variant)
RunReplicaFirst     == RunMasterResuming({"replica"})

RunMaster ==
    /\ \/ Synchronising("map")
       \/ Synchronising("serial")
    /\ exec' = [nr |-> InfoOf("master").nr, args |-> InfoOf("master").args]
    /\ resumeVariantFromWait({"master"})
    /\ pc' = "waitMaster"
    /\ UNCHANGED <<news, regs, rax, mappings, who, status, rval, outcome,
                   issued, call>>

-----------------------------------------------------------------------------
(* The rest of an executor that waits: master to its exit, then replica    *)

E == Executor[exec.nr]

WaitMaster  == pc = "waitMaster" /\ waitVariant("master", "gotMaster")
WaitReplica == pc = "waitReplica" /\ waitVariant("replica", "gotReplica")

\* Mutant of VariantLost: no executor reports the loss.
VariantLostUnnoticed ==
    /\ pc \in {"gotMaster", "gotReplica"}
    /\ status = "exited"
    /\ pc' = "waitAny"
    /\ UNCHANGED <<processVars, recordVars, localVars, outcome, mappings,
                   historyVars>>

\* A variant ended during the call.  access drops the result of its helper.
VariantLost ==
    /\ pc \in {"gotMaster", "gotReplica"}
    /\ status = "exited"
    /\ IF E.lax
       THEN /\ pc' = "waitAny"
            /\ UNCHANGED <<processVars, localVars, outcome, mappings,
                           historyVars>>
       ELSE Fail /\ UNCHANGED released
    /\ UNCHANGED recordVars

\* mmap: the length is read after the exit information has overwritten it.
RecordMapping ==
    /\ pc = "gotMaster"
    /\ status = "stopped"
    /\ E.run = "map"
    /\ requestSyscallInfo("master")
    /\ mappings' = addMapping(mappings, syscallInfo'["master"].rval,
                              syscallInfo'["master"].args[1],
                              AsInt(exec.args[2]), AsInt(exec.args[3]))
    /\ PtraceSyscall(Variant)
    /\ syscallNum' = [syscallNum EXCEPT !["master"] = @ + 1]
    /\ state' = [state EXCEPT !["replica"] = "running"]
    /\ pc' = "waitAny"
    /\ UNCHANGED <<news, regs, rax, localVars, outcome, issued, call>>

\* A serial executor has the master at its exit.  Only one that replicates
\* the result asks for it.
MasterDone ==
    /\ pc = "gotMaster"
    /\ status = "stopped"
    /\ E.run = "serial"
    /\ IF E.ret THEN requestSyscallInfo("master") ELSE UNCHANGED syscallInfo

TransferFits == CanCopy(E, SyscallInfo("master").rval)

TransferFailed ==
    /\ MasterDone
    /\ ~TransferFits
    /\ Fail
    /\ UNCHANGED <<state, syscallNum, released>>

\* Mutant of Substitute: setNopSyscall is left out.
KeepOwnCall == regs["replica"]

\* The call the replica makes in the place of its own.
Substitute ==
    [nr   |-> CASE E.sub = "own"   -> regs["replica"].nr
                [] E.sub = "lseek" -> "lseek"
                [] OTHER           -> "getpid",
     args |-> IF E.reargs
              THEN [regs["replica"].args EXCEPT ![0] = AsInt(exec.args[0]),
                        ![1] = SyscallInfo("master").rval, ![2] = 1]
              ELSE regs["replica"].args]

\* Mutant of RunReplica: the replica is not resumed, whatever the call.
HoldReplica ==
    /\ MasterDone
    /\ TransferFits
    /\ rval' = SyscallInfo("master").rval
    /\ pc' = "waitReplica"
    /\ UNCHANGED <<processVars, state, syscallNum, mappings, who, status, exec,
                   outcome, historyVars>>

RunReplica ==
    /\ MasterDone
    /\ TransferFits
    /\ rval' = SyscallInfo("master").rval
    /\ regs' = [regs EXCEPT !["replica"] =
                  IF Stopped("replica") THEN Substitute ELSE @]
    /\ resumeVariantFromWait(IF E.sub = "held" THEN {} ELSE {"replica"})
    /\ pc' = "waitReplica"
    /\ UNCHANGED <<news, rax, mappings, who, status, exec, outcome, issued, call>>

\* Mutants of FinishCall: the result is not replicated; the replica's number
\* is not incremented; the master is not resumed.
FinishCallWith(result, resume) ==
    /\ pc = "gotReplica"
    /\ status = "stopped"
    /\ rax' = result
    /\ resume
    /\ pc' = "waitAny"
    /\ UNCHANGED <<news, regs, syscallInfo, mappings, localVars, outcome,
                   issued, call>>
FinishCallNoResult == FinishCallWith(rax, resumeVariantFromExit(Variant))
FinishCallUncounted ==
    FinishCallWith([rax EXCEPT !["replica"] = rval],
                   /\ PtraceSyscall(Variant)
                   /\ syscallNum' = [syscallNum EXCEPT !["master"] = @ + 1]
                   /\ UNCHANGED state)
FinishCallReplicaOnly ==
    FinishCallWith([rax EXCEPT !["replica"] = rval],
                   resumeVariantFromExit({"replica"}))

FinishCall ==
    /\ pc = "gotReplica"
    /\ status = "stopped"
    /\ rax' = IF E.ret THEN [rax EXCEPT !["replica"] = rval] ELSE rax
    /\ IF E.fin = "exit" THEN resumeVariantFromExit(Variant)
                         ELSE resumeVariantFromWait(Variant)
    /\ pc' = "waitAny"
    /\ UNCHANGED <<news, regs, syscallInfo, mappings, localVars, outcome,
                   issued, call>>

-----------------------------------------------------------------------------
(* The specification                                                       *)

Terminated == pc = "exited" /\ UNCHANGED vars

MonitorStep ==
    \/ \E v \in Variant : initVariant(v) \/ WaitAnyVariant(v)
    \/ UnknownChild \/ LeaveLoop \/ InvalidState
    \/ AwaitPartner \/ ResumeFromExit
    \/ RefuseCall \/ RefuseCallLate
    \/ RunBoth \/ RunBothAsAtExit \/ RunMaster
    \/ WaitMaster \/ WaitReplica \/ VariantLost
    \/ RecordMapping \/ TransferFailed \/ RunReplica \/ FinishCall

VariantStep(v) == Issue(v) \/ KernelReturn(v)
Fault(v)       == Kill(v) \/ Signal(v)

Next ==
    \/ MonitorStep
    \/ \E v \in Variant : VariantStep(v) \/ Fault(v)
    \/ Terminated

\* The scheduler runs every runnable process, and every call returns.
Fairness ==
    /\ WF_vars(MonitorStep)
    /\ \A v \in Variant : WF_vars(VariantStep(v))

Spec == Init /\ [][Next]_vars /\ Fairness

-----------------------------------------------------------------------------
(* Properties                                                              *)

\* No variant is let through a call that the other has not reached: a call
\* waits in processVariantEvent until the partner has asked for its own.
Rendezvous ==
    \A v \in Variant : released[v] <= issued[Other(v)]

\* The two calls may run together, as far as the executor can tell.  fadvise64
\* and rseq run before their arguments are looked at.
Compatible(m, r) ==
    /\ m.nr = r.nr
    /\ m.nr \in Implemented
    /\ \/ Executor[m.nr].late
       \/ Agree(Executor[m.nr], m.args, r.args, m.args, r.args)

\* When the variants stand at the same call and one of them has been let
\* through it, the calls were equivalent (processSyscallSync and the
\* executors' comparisons): no variant runs ahead on a call that differs.
\* The memory of a variant that died meanwhile cannot be compared.
AgreedCalls ==
    /\ \A v \in Variant : Alive(v)
    /\ issued["master"] = issued["replica"]
    /\ \E v \in Variant : released[v] = issued[v] /\ issued[v] > 0
    => Compatible(call["master"], call["replica"])

\* A call that the monitor takes through the master first is over in the
\* master when the replica runs it (waitVariant(master) in the executors).
MasterFirst ==
    [][ /\ released'["replica"] > released["replica"]
        /\ Executor[call["replica"].nr].run = "serial"
        => proc["master"] \in {"exit", "zombie"} ]_vars

\* Calls that consume shared input or whose effect outlives the process.
OutsideCalls == {"read", "write", "accept4", "unlink", "fchmod", "fchown",
                 "utimensat", "bind", "listen"}

\* Effects outside the processes happen once: the replica is taken through a
\* harmless call instead (setNopSyscall; the comment at write.c:39).
MasterOnly ==
    proc["replica"] = "kernel" => regs["replica"].nr \notin OutsideCalls

\* What a call takes by value: the positions of its arguments of 32 bits (int,
\* mode_t, uid_t, socklen_t and the like) and of its longer ones (size_t, off_t,
\* unsigned long), from the prototypes in the executors, and the sizes that
\* rt_sigaction and set_robust_list have in the kernel only.  Pointers are left
\* out: they differ between the variants.
Taking(ints, longs) == [ints |-> ints, longs |-> longs]
Scalars ==
    [mmap |-> Taking({2, 3, 4}, {1, 5}),  mprotect |-> Taking({2}, {1}),
     munmap |-> Taking({}, {1}),          arch_prctl |-> Taking({0}, {1}),
     read |-> Taking({0}, {2}),           write |-> Taking({0}, {2}),
     pread64 |-> Taking({0}, {2, 3}),     lseek |-> Taking({0, 2}, {1}),
     fadvise64 |-> Taking({0, 3}, {1, 2}),
     openat |-> Taking({0, 2, 3}, {}),    close |-> Taking({0}, {}),
     newfstatat |-> Taking({0, 3}, {}),   access |-> Taking({1}, {}),
     utimensat |-> Taking({0, 3}, {}),    fchmod |-> Taking({0, 1}, {}),
     fchown |-> Taking({0, 1, 2}, {}),    getcwd |-> Taking({}, {1}),
     socket |-> Taking({0, 1, 2}, {}),    bind |-> Taking({0, 2}, {}),
     setsockopt |-> Taking({0, 1, 2, 4}, {}),
     listen |-> Taking({0, 1}, {}),       accept4 |-> Taking({0, 3}, {}),
     shutdown |-> Taking({0, 1}, {}),     getsockname |-> Taking({0}, {}),
     poll |-> Taking({2}, {1}),           pselect6 |-> Taking({0}, {}),
     getrandom |-> Taking({2}, {1}),      rseq |-> Taking({1, 2, 3}, {}),
     rt_sigaction |-> Taking({0}, {3}),   rt_sigprocmask |-> Taking({0}, {3}),
     prlimit64 |-> Taking({0, 1}, {}),    exit_group |-> Taking({0}, {}),
     set_robust_list |-> Taking({}, {1})]

\* What no executor compares of them: openat's mode if the master's is 0
\* (openat.c:23), how if the master sets no mask (rt_sigprocmask.c:14), the
\* size of that mask in the replica, the address of arch_prctl, the process of
\* prlimit64, the sizes of rt_sigaction and set_robust_list; and all of
\* fadvise64 and rseq, which run before they are compared (fadvise64.c:23).
Uncompared(nr, m) ==
    {i \in Arg : \/ nr = "openat" /\ i = 3 /\ m[3] = 0
                 \/ nr \in {"rt_sigprocmask", "rt_sigaction"} /\ i = 3
                 \/ nr = "rt_sigprocmask" /\ i = 0 /\ m[1] = 0
                 \/ nr \in {"arch_prctl", "set_robust_list"} /\ i = 1
                 \/ nr = "prlimit64" /\ i = 0
                 \/ nr \in {"fadvise64", "rseq"}}

\* The kernel takes an int from the lower half of its register.
SameScalars(nr, m, r) ==
    \A i \in Arg \ Uncompared(nr, m) :
        /\ i \in Scalars[nr].ints  => AsInt(m[i]) = AsInt(r[i])
        /\ i \in Scalars[nr].longs => m[i] = r[i]

\* The master never runs a call with a value that the replica's call does not
\* have, but for what Uncompared lists (the executors' comparisons, up to the
\* first resume): also not with a register that is equal after narrowing only.
ScalarsAgree ==
    /\ proc["master"] = "kernel"
    /\ call["master"].nr \in DOMAIN Scalars
    /\ issued["master"] = issued["replica"]
    => SameScalars(call["master"].nr, call["master"].args, call["replica"].args)

\* Both variants see the same result of a call whose result is replicated
\* (setSyscallReturnValue), as long as neither has made another call.
SameResult ==
    /\ \A v \in Variant : proc[v] = "user"
    /\ issued["master"] = issued["replica"]
    /\ call["master"].nr \in Implemented
    /\ Executor[call["master"].nr].ret
    => rax["master"] = rax["replica"]

\* A stopped variant whose report has been collected is one the monitor
\* still means to resume: it handles that report, runs an executor, or the
\* variant is marked as waiting.  Any other would stay stopped for ever.
Accounted ==
    \A v \in Variant :
        Stopped(v) /\ ~news[v] =>
            \/ pc = "event" /\ who = v
            \/ pc \in {"waitMaster", "gotMaster", "waitReplica", "gotReplica"}
            \/ state[v] = "wait"

\* Where processVariantEvent takes the partner to be waiting at an entry
\* (the comment at monitor.c:229), it is, or it has been killed there.
PartnerWaiting ==
    /\ pc = "event" /\ status = "stopped" /\ proc[who] = "entry"
    /\ Met
    => proc[Other(who)] \in {"entry", "zombie"}

\* Variants that make the same calls are never reported as divergent, and
\* the monitor's own bookkeeping never contradicts itself.
NoFalseAlarm ==
    outcome \notin {"syncFailed", "invalidState"}

\* No variant goes on without the monitor (the comment at variant.c:71).
NoneOutlives ==
    \A v \in Variant : proc[v] # "orphan"

\* The program's calls all end, and so does the monitor.
Terminates == <>(pc = "exited")

\* The death of a variant ends the monitor (checkVariantExit, waitVariant).
DeathNoticed ==
    \A v \in Variant : proc[v] = "zombie" ~> pc = "exited"

\* The monitor implements the abstract lockstep.
LS == INSTANCE Lockstep WITH
        Request <- Call, asked <- call, over <- pc = "exited",
        lost <- {v \in Variant : proc[v] \in {"zombie", "gone"}}
ImplementsLockstep == LS!Spec
=============================================================================
