----------------------------- MODULE CallProofs -----------------------------
(***************************************************************************)
(* What comes of the calls: who enters the kernel with what, what the      *)
(* variants get back, and that no stopped variant is forgotten.            *)
(***************************************************************************)
EXTENDS LockstepProofs

-----------------------------------------------------------------------------
(* The executors                                                           *)

\* The dispatch on the number of the call.
LEMMA Dispatch ==
    /\ Executor["getuid"] = noArguments
    /\ Executor["geteuid"] = noArguments
    /\ Executor["getgid"] = noArguments
    /\ Executor["getegid"] = noArguments
    /\ Executor["brk"] = execSyscall_brk
    /\ Executor["set_robust_list"] = execSyscall_setRobustList
    /\ Executor["arch_prctl"] = execSyscall_arch_prctl
    /\ Executor["prlimit64"] = execSyscall_prlimit64
    /\ Executor["rt_sigaction"] = execSyscall_rt_sigaction
    /\ Executor["exit_group"] = execSyscall_exit_group
    /\ Executor["lseek"] = execSyscall_lseek
    /\ Executor["socket"] = execSyscall_socket
    /\ Executor["getcwd"] = execSyscall_getcwd
    /\ Executor["chdir"] = execSyscall_chdir
    /\ Executor["setsockopt"] = execSyscall_setsockopt
    /\ Executor["rt_sigprocmask"] = execSyscall_rt_sigprocmask
    /\ Executor["fadvise64"] = execSyscall_fadvise64
    /\ Executor["rseq"] = execSyscall_rseq
    /\ Executor["mprotect"] = execSyscall_mprotect
    /\ Executor["munmap"] = execSyscall_munmap
    /\ Executor["shutdown"] = execSyscall_shutdown
    /\ Executor["mmap"] = execSyscall_mmap
    /\ Executor["set_tid_address"] = execSyscall_setTidAddress
    /\ Executor["close"] = execSyscall_close
    /\ Executor["openat"] = execSyscall_openat
    /\ Executor["write"] = execSyscall_write
    /\ Executor["getpid"] = execSyscall_getpid
    /\ Executor["fchmod"] = execSyscall_fchmod
    /\ Executor["fchown"] = execSyscall_fchown
    /\ Executor["listen"] = execSyscall_listen
    /\ Executor["unlink"] = execSyscall_unlink
    /\ Executor["utimensat"] = execSyscall_utimensat
    /\ Executor["access"] = execSyscall_access
    /\ Executor["bind"] = execSyscall_bind
    /\ Executor["accept4"] = execSyscall_accept4
    /\ Executor["getsockname"] = execSyscall_getsockname
    /\ Executor["poll"] = execSyscall_poll
    /\ Executor["newfstatat"] = execSyscall_newfstatat
    /\ Executor["pread64"] = execSyscall_pread64
    /\ Executor["getrandom"] = execSyscall_getrandom
    /\ Executor["read"] = execSyscall_read
    /\ Executor["pselect6"] = execSyscall_pselect6
BY DEF Executor

LEMMA ImplementedCalls ==
    Implemented = {"getuid", "geteuid", "getgid", "getegid", "brk",
                    "set_robust_list", "arch_prctl", "prlimit64",
                    "rt_sigaction", "exit_group", "lseek", "socket",
                    "getcwd", "chdir", "setsockopt", "rt_sigprocmask",
                    "fadvise64", "rseq", "mprotect", "munmap", "shutdown",
                    "mmap", "set_tid_address", "close", "openat", "write",
                    "getpid", "fchmod", "fchown", "listen", "unlink",
                    "utimensat", "access", "bind", "accept4", "getsockname",
                    "poll", "newfstatat", "pread64", "getrandom", "read",
                    "pselect6"}
BY DEF Implemented, Executor

\* How the executor of a call runs it, as far as the invariants depend on it.
RunsSoundly(nr) ==
    LET e == Executor[nr]
    IN  /\ e.run \in {"both", "skip", "map", "serial"}
        /\ e.ret => e.run = "serial"
        /\ e.run = "skip" => nr = "shutdown"
        /\ e.run = "map" => nr = "mmap"
        /\ e.table = "add" => nr = "mmap"
        /\ e.table = "remove" => nr = "munmap"
        /\ e.lax => nr = "access"
        /\ e.sub = "held" => e.run = "serial" /\ ~e.lax
        /\ nr \in OutsideCalls \ {"write"} =>
               e.run = "serial" /\ e.sub \in {"getpid", "lseek"}

LEMMA ExecutorsRun == \A nr \in Implemented : RunsSoundly(nr)
<1> USE DEF RunsSoundly, OutsideCalls, runBoth, runBothCopyMasterRet,
            runMasterReplicateRet
<1>1. /\ RunsSoundly("getuid")
      /\ RunsSoundly("geteuid")
      /\ RunsSoundly("getgid")
      /\ RunsSoundly("getegid")
      /\ RunsSoundly("brk")
  BY Dispatch DEF noArguments, execSyscall_brk
<1>2. /\ RunsSoundly("set_robust_list")
      /\ RunsSoundly("arch_prctl")
      /\ RunsSoundly("prlimit64")
      /\ RunsSoundly("rt_sigaction")
      /\ RunsSoundly("exit_group")
  BY Dispatch DEF execSyscall_setRobustList, execSyscall_arch_prctl,
         execSyscall_prlimit64, execSyscall_rt_sigaction,
         execSyscall_exit_group
<1>3. /\ RunsSoundly("lseek")
      /\ RunsSoundly("socket")
      /\ RunsSoundly("getcwd")
      /\ RunsSoundly("chdir")
      /\ RunsSoundly("setsockopt")
  BY Dispatch DEF execSyscall_lseek, execSyscall_socket, execSyscall_getcwd,
         execSyscall_chdir, execSyscall_setsockopt
<1>4. /\ RunsSoundly("rt_sigprocmask")
      /\ RunsSoundly("fadvise64")
      /\ RunsSoundly("rseq")
      /\ RunsSoundly("mprotect")
      /\ RunsSoundly("munmap")
  BY Dispatch DEF execSyscall_rt_sigprocmask, execSyscall_fadvise64,
         execSyscall_rseq, execSyscall_mprotect, execSyscall_munmap
<1>5. /\ RunsSoundly("shutdown")
      /\ RunsSoundly("mmap")
      /\ RunsSoundly("set_tid_address")
  BY Dispatch DEF execSyscall_shutdown, execSyscall_mmap,
         execSyscall_setTidAddress
<1>6. /\ RunsSoundly("close")
      /\ RunsSoundly("openat")
      /\ RunsSoundly("write")
  BY Dispatch DEF execSyscall_close, execSyscall_openat, execSyscall_write
<1>7. /\ RunsSoundly("getpid")
      /\ RunsSoundly("fchmod")
      /\ RunsSoundly("fchown")
      /\ RunsSoundly("listen")
  BY Dispatch DEF execSyscall_getpid, execSyscall_fchmod, execSyscall_fchown,
         execSyscall_listen
<1>8. /\ RunsSoundly("unlink")
      /\ RunsSoundly("utimensat")
      /\ RunsSoundly("access")
      /\ RunsSoundly("bind")
  BY Dispatch DEF execSyscall_unlink, execSyscall_utimensat,
         execSyscall_access, execSyscall_bind
<1>9. /\ RunsSoundly("accept4")
      /\ RunsSoundly("getsockname")
      /\ RunsSoundly("poll")
      /\ RunsSoundly("newfstatat")
  BY Dispatch DEF execSyscall_accept4, execSyscall_getsockname,
         execSyscall_poll, execSyscall_newfstatat
<1>10. /\ RunsSoundly("pread64")
      /\ RunsSoundly("getrandom")
      /\ RunsSoundly("read")
      /\ RunsSoundly("pselect6")
  BY Dispatch DEF execSyscall_pread64, execSyscall_getrandom,
         execSyscall_read, execSyscall_pselect6
<1> QED
  BY ImplementedCalls, <1>1, <1>2, <1>3, <1>4, <1>5, <1>6, <1>7, <1>8, <1>9,
     <1>10

\* Whatever of a call's scalars is not left out, its executor compares: a long
\* as a whole register, an int as a register or after narrowing.
ComparesScalars(nr) ==
    /\ nr \in Implemented
    /\ LET e == Executor[nr]
       IN  \A m : \A i \in Arg \ Uncompared(nr, m) :
              /\ i \in Scalars[nr].longs => i \in e.cmp
              /\ i \in Scalars[nr].ints =>
                     \/ i \in e.cmp \cup e.narrow \cup e.socklen \cup e.int
                     \/ \E g \in e.opt : g.arg = i /\ m[g.unless0] # 0

LEMMA ScalarsCompared == \A nr \in DOMAIN Scalars : ComparesScalars(nr)
<1> USE DEF ComparesScalars, Scalars, Taking, Uncompared, Arg, runBoth,
            runBothCopyMasterRet, runMasterReplicateRet
<1>1. DOMAIN Scalars = {"read", "write", "pread64", "close", "openat",
                        "lseek", "fchmod", "fchown", "utimensat",
                        "newfstatat", "mmap", "mprotect", "munmap",
                        "socket", "setsockopt", "bind", "listen", "accept4",
                        "getsockname", "poll", "shutdown", "pselect6",
                        "getrandom", "exit_group", "arch_prctl", "access",
                        "getcwd", "prlimit64", "rt_sigaction",
                        "rt_sigprocmask", "set_robust_list", "fadvise64",
                        "rseq"}
  OBVIOUS
<1>2. /\ ComparesScalars("read")
      /\ ComparesScalars("write")
      /\ ComparesScalars("pread64")
      /\ ComparesScalars("close")
  BY Dispatch, ImplementedCalls DEF execSyscall_read, execSyscall_write,
         execSyscall_pread64, execSyscall_close
<1>3. ComparesScalars("openat")
  <2>1. /\ Executor["openat"].cmp = {0, 2}
        /\ [unless0 |-> 3, arg |-> 3] \in Executor["openat"].opt
    BY Dispatch DEF execSyscall_openat
  <2>2. ASSUME NEW m, NEW i \in Arg \ Uncompared("openat", m),
               i \in Scalars["openat"].ints
        PROVE  i \in {0, 2} \/ (i = 3 /\ m[3] # 0)
    BY <2>2
  <2>3. Scalars["openat"].longs = {}
    OBVIOUS
  <2> HIDE DEF Scalars, Uncompared
  <2> QED
    BY <2>1, <2>2, <2>3, ImplementedCalls
<1>4. /\ ComparesScalars("lseek")
      /\ ComparesScalars("fchmod")
      /\ ComparesScalars("fchown")
  BY Dispatch, ImplementedCalls DEF execSyscall_lseek, execSyscall_fchmod,
         execSyscall_fchown
<1>5. /\ ComparesScalars("utimensat")
      /\ ComparesScalars("newfstatat")
      /\ ComparesScalars("mmap")
      /\ ComparesScalars("mprotect")
  BY Dispatch, ImplementedCalls DEF execSyscall_utimensat,
         execSyscall_newfstatat, execSyscall_mmap, execSyscall_mprotect
<1>6. /\ ComparesScalars("munmap")
      /\ ComparesScalars("socket")
      /\ ComparesScalars("setsockopt")
      /\ ComparesScalars("bind")
  BY Dispatch, ImplementedCalls DEF execSyscall_munmap, execSyscall_socket,
         execSyscall_setsockopt, execSyscall_bind
<1>7. /\ ComparesScalars("listen")
      /\ ComparesScalars("accept4")
      /\ ComparesScalars("getsockname")
      /\ ComparesScalars("poll")
  BY Dispatch, ImplementedCalls DEF execSyscall_listen, execSyscall_accept4,
         execSyscall_getsockname, execSyscall_poll
<1>8. /\ ComparesScalars("shutdown")
      /\ ComparesScalars("pselect6")
      /\ ComparesScalars("getrandom")
      /\ ComparesScalars("exit_group")
  BY Dispatch, ImplementedCalls DEF execSyscall_shutdown,
         execSyscall_pselect6, execSyscall_getrandom, execSyscall_exit_group
<1>9. /\ ComparesScalars("arch_prctl")
      /\ ComparesScalars("access")
      /\ ComparesScalars("getcwd")
      /\ ComparesScalars("prlimit64")
  BY Dispatch, ImplementedCalls DEF execSyscall_arch_prctl,
         execSyscall_access, execSyscall_getcwd, execSyscall_prlimit64
<1>10. ComparesScalars("rt_sigprocmask")
  <2>1. [unless0 |-> 1, arg |-> 0] \in Executor["rt_sigprocmask"].opt
    BY Dispatch DEF execSyscall_rt_sigprocmask
  <2>2. ASSUME NEW m, NEW i \in Arg \ Uncompared("rt_sigprocmask", m)
        PROVE  /\ i \in Scalars["rt_sigprocmask"].ints => i = 0 /\ m[1] # 0
               /\ i \notin Scalars["rt_sigprocmask"].longs
    BY <2>2
  <2> HIDE DEF Scalars, Uncompared
  <2> QED
    BY <2>1, <2>2, ImplementedCalls
<1>11. /\ ComparesScalars("rt_sigaction")
       /\ ComparesScalars("set_robust_list")
  BY Dispatch, ImplementedCalls DEF execSyscall_rt_sigaction,
         execSyscall_setRobustList
<1>12. /\ ComparesScalars("fadvise64")
       /\ ComparesScalars("rseq")
  BY Dispatch, ImplementedCalls DEF execSyscall_fadvise64, execSyscall_rseq
<1> HIDE DEF ComparesScalars, Scalars
<1> QED
  BY <1>1, <1>2, <1>3, <1>4, <1>5, <1>6, <1>7, <1>8, <1>9, <1>10, <1>11,
     <1>12

\* Registers that an executor accepts have the scalars of the call in common.
LEMMA AcceptedScalars ==
    ASSUME NEW nr \in DOMAIN Scalars, NEW m \in [Arg -> Int],
           NEW r \in [Arg -> Int], RegistersAgree(Executor[nr], m, r)
    PROVE  SameScalars(nr, m, r)
<1> SUFFICES ASSUME NEW i \in Arg \ Uncompared(nr, m)
             PROVE  /\ i \in Scalars[nr].ints  => AsInt(m[i]) = AsInt(r[i])
                    /\ i \in Scalars[nr].longs => m[i] = r[i]
  BY DEF SameScalars
<1> DEFINE e == Executor[nr]
<1>1. /\ i \in Scalars[nr].longs => i \in e.cmp
      /\ i \in Scalars[nr].ints =>
             \/ i \in e.cmp \cup e.narrow \cup e.socklen \cup e.int
             \/ \E g \in e.opt : g.arg = i /\ m[g.unless0] # 0
  BY ScalarsCompared DEF ComparesScalars
<1>2. /\ i \in e.cmp => m[i] = r[i]
      /\ i \in e.narrow => AsInt(m[i]) = r[i]
      /\ i \in e.socklen => AsSocklen(m[i]) = r[i]
      /\ i \in e.int => AsInt(m[i]) = AsInt(r[i])
      /\ \A g \in e.opt : m[g.unless0] # 0 => m[g.arg] = r[g.arg]
  BY DEF RegistersAgree, NarrowedEquals
<1>3. m[i] \in Int /\ r[i] \in Int
  OBVIOUS
<1>4. AsInt(AsInt(m[i])) = AsInt(m[i]) /\ AsInt(AsSocklen(m[i])) = AsInt(m[i])
  BY <1>3, Narrowing
<1> HIDE DEF e
<1> QED
  BY <1>1, <1>2, <1>4

-----------------------------------------------------------------------------
(* What a step does to the calls and to a variant outside the kernel       *)

\* Only the program makes calls.
LEMMA CallsKept ==
    ASSUME [Next]_vars, ~ \E v \in Variant : Issue(v)
    PROVE  UNCHANGED <<call, issued>>
<1> USE DEF localVars, recordVars, historyVars, processVars
<1>1. CASE MonitorStep
  <2>1. ASSUME NEW v \in Variant, initVariant(v) \/ WaitAnyVariant(v)
        PROVE  UNCHANGED <<call, issued>>
    BY <2>1 DEF initVariant, WaitAnyVariant, Collect
  <2>2. ASSUME UnknownChild \/ LeaveLoop \/ InvalidState \/ RefuseCall
               \/ RefuseCallLate \/ TransferFailed
        PROVE  UNCHANGED <<call, issued>>
    BY <2>2 DEF UnknownChild, LeaveLoop, InvalidState, RefuseCall,
                RefuseCallLate, TransferFailed, Fail, Exit
  <2>3. ASSUME AwaitPartner \/ ResumeFromExit \/ RunBoth \/ RunBothAsAtExit
               \/ RunMaster \/ RecordMapping \/ RunReplica \/ FinishCall
        PROVE  UNCHANGED <<call, issued>>
    BY <2>3 DEF AwaitPartner, ResumeFromExit, RunBoth, RunBothAsAtExit,
                RunMaster, RecordMapping, RunReplica, FinishCall
  <2>4. ASSUME WaitMaster \/ WaitReplica \/ VariantLost
        PROVE  UNCHANGED <<call, issued>>
    BY <2>4 DEF WaitMaster, WaitReplica, waitVariant, Collect, VariantLost,
                Fail, Exit
  <2> QED
    BY <1>1, <2>1, <2>2, <2>3, <2>4 DEF MonitorStep
<1>2. ASSUME NEW v \in Variant, VariantStep(v) \/ Fault(v)
      PROVE  UNCHANGED <<call, issued>>
  BY <1>2 DEF VariantStep, Fault, KernelReturn, Kill, Signal
<1>3. CASE UNCHANGED vars
  BY <1>3 DEF vars
<1> QED
  BY <1>1, <1>2, <1>3 DEF Next, Terminated

\* What the program does when it makes a call.
LEMMA IssueFacts ==
    ASSUME IInv, NEW v \in Variant, Issue(v)
    PROVE  /\ proc[v] = "user" /\ proc'[v] = "entry" /\ news'[v] = TRUE
           /\ issued'[v] = issued[v] + 1 /\ issued[v] \in Nat
           /\ issued[v] <= MaxCalls
           /\ call'[v] \in NextCalls(v) /\ regs'[v] = call'[v]
           /\ \A w \in Variant \ {v} :
                 /\ proc'[w] = proc[w] /\ issued'[w] = issued[w]
                 /\ call'[w] = call[w] /\ regs'[w] = regs[w]
                 /\ news'[w] = news[w]
           /\ UNCHANGED <<rax, recordVars, mappings, pc, localVars, outcome,
                          released>>
           /\ pc \notin InCall /\ ~(pc = "event" /\ who = v)
<1>1. proc[v] = "user"
  BY DEF Issue
<1>2. pc \notin InCall /\ ~(pc = "event" /\ who = v)
  BY <1>1 DEF IInv, ExecutorAtMaster, ExecutorAtReplica, InCall, AtEvent, Variant
<1>3. PICK c \in NextCalls(v) : /\ regs' = [regs EXCEPT ![v] = c]
                               /\ call' = [call EXCEPT ![v] = c]
  BY DEF Issue
<1>4. /\ call'[v] = c /\ regs'[v] = c
      /\ \A w \in Variant \ {v} : call'[w] = call[w] /\ regs'[w] = regs[w]
  BY <1>3 DEF IInv, TypeOK
<1>5. /\ proc'[v] = "entry" /\ news'[v] = TRUE /\ issued[v] \in Nat
      /\ issued'[v] = issued[v] + 1 /\ issued[v] <= MaxCalls
      /\ \A w \in Variant \ {v} : /\ proc'[w] = proc[w] /\ news'[w] = news[w]
                                  /\ issued'[w] = issued[w]
  BY DEF Issue, IInv, TypeOK
<1> QED
  BY <1>1, <1>2, <1>3, <1>4, <1>5 DEF Issue

LEMMA InvCallsMade == IInv /\ CallsMade /\ [Next]_vars => CallsMade'
<1> SUFFICES ASSUME IInv, CallsMade, [Next]_vars PROVE CallsMade'
  OBVIOUS
<1>1. ASSUME NEW v \in Variant, Issue(v) PROVE CallsMade'
  <2>1. call'[v] \in ProgramCalls
    <3>1. /\ call'[v] \in NextCalls(v) /\ issued[v] \in Nat
          /\ issued[Other(v)] \in Nat /\ Other(v) \in Variant
      BY <1>1, IssueFacts, ConstantTypes DEF IInv, TypeOK
    <3>2. issued[v] < issued[Other(v)] => call[Other(v)] \in ProgramCalls
      BY <3>1 DEF CallsMade
    <3>3. \/ call'[v] = [nr |-> "exit_group", args |-> NoArgs]
          \/ issued[v] < issued[Other(v)] /\ call'[v] = call[Other(v)]
          \/ call'[v] \in [nr : Calls, args : Args]
      BY <3>1 DEF NextCalls
    <3> QED
      BY <3>2, <3>3 DEF ProgramCalls, ExitCall
  <2>2. issued'[v] = issued[v] + 1 /\ issued[v] \in Nat
    BY <1>1, IssueFacts
  <2>3. \A w \in Variant \ {v} : issued'[w] = issued[w] /\ call'[w] = call[w]
    BY <1>1, IssueFacts
  <2> QED
    BY <2>1, <2>2, <2>3 DEF CallsMade
<1>2. CASE ~ \E v \in Variant : Issue(v)
  BY <1>2, CallsKept DEF CallsMade
<1> QED
  BY <1>1, <1>2

LEMMA MadeCall ==
    ASSUME IInv, CallsMade, NEW v \in Variant
    PROVE  call[v].nr \in Calls \cup {"exit_group", "none"}
<1>1. \/ call[v] = NoCall \/ call[v] = ExitCall
      \/ call[v] \in [nr : Calls, args : Args]
  BY DEF CallsMade, ProgramCalls
<1> QED
  BY <1>1 DEF NoCall, ExitCall

LEMMA ResumedIntoKernel ==
    ASSUME NEW S, PtraceSyscall(S), NEW v \in Variant,
           proc[v] # "kernel", proc'[v] = "kernel"
    PROVE  v \in S /\ proc[v] = "entry"
BY DEF PtraceSyscall, Stopped

\* The ways into the kernel: each is a resume from the rendezvous, or one by
\* an executor that has the master at its exit.
LEMMA EntersKernel ==
    ASSUME IInv, [Next]_vars, NEW v \in Variant,
           proc[v] # "kernel", proc'[v] = "kernel"
    PROVE  /\ proc[v] = "entry"
           /\ \/ RunBoth \/ RunBothAsAtExit
              \/ RunMaster /\ v = "master"
              \/ RecordMapping /\ v = "replica"
              \/ RunReplica /\ v = "replica" /\ E.sub # "held"
<1> USE DEF localVars, recordVars, historyVars, processVars
<1>1. proc \in [Variant -> ProcState]
  BY DEF IInv, TypeOK
<1>2. ASSUME NEW w \in Variant,
             Issue(w) \/ KernelReturn(w) \/ Kill(w) \/ Signal(w)
             \/ initVariant(w)
      PROVE  FALSE
  BY <1>1, <1>2 DEF Issue, KernelReturn, Kill, Signal, initVariant
<1>3. ASSUME NEW w \in Variant, NEW next, Collect(w, next) PROVE FALSE
  BY <1>1, <1>3 DEF Collect
<1>4. ASSUME NEW how, NEW killed, Exit(how, killed) PROVE FALSE
  BY <1>4 DEF Exit
<1>5. ASSUME AwaitPartner PROVE FALSE
  BY <1>5 DEF AwaitPartner
<1>6. ASSUME ResumeFromExit PROVE FALSE
  <2>1. v \in {who} /\ proc[v] = "entry"
    BY <1>6, ResumedIntoKernel DEF ResumeFromExit, resumeVariantFromExit
  <2> QED
    BY <1>6, <2>1, HandlingFacts DEF ResumeFromExit
<1>7. ASSUME VariantLost PROVE FALSE
  BY <1>4, <1>7 DEF VariantLost, Fail
<1>8. ASSUME FinishCall PROVE FALSE
  <2>1. PtraceSyscall(Variant) /\ pc = "gotReplica" /\ status = "stopped"
    BY <1>8 DEF FinishCall, resumeVariantFromExit, resumeVariantFromWait
  <2>2. proc[v] = "entry"
    BY <2>1, ResumedIntoKernel
  <2> QED
    BY <2>1, <2>2 DEF IInv, ExecutorAtReplica, Variant
<1>9. CASE UNCHANGED vars
  BY <1>9 DEF vars
<1>10. ASSUME RunBoth \/ RunBothAsAtExit PROVE proc[v] = "entry"
  <2>1. PtraceSyscall(Variant)
    BY <1>10 DEF RunBoth, RunBothAsAtExit, resumeVariantFromExit,
                 resumeVariantFromWait
  <2> QED
    BY <2>1, ResumedIntoKernel
<1>11. ASSUME RunMaster PROVE proc[v] = "entry" /\ v = "master"
  <2>1. PtraceSyscall({"master"})
    BY <1>11 DEF RunMaster, resumeVariantFromWait
  <2>2. v \in {"master"} /\ proc[v] = "entry"
    BY <2>1, ResumedIntoKernel
  <2> QED
    BY <2>2
<1>12. ASSUME RecordMapping PROVE proc[v] = "entry" /\ v = "replica"
  <2>1. PtraceSyscall(Variant) /\ pc = "gotMaster" /\ status = "stopped"
    BY <1>12 DEF RecordMapping
  <2>2. proc[v] = "entry"
    BY <2>1, ResumedIntoKernel
  <2> QED
    BY <2>1, <2>2, AtMastersExit
<1>13. ASSUME RunReplica
       PROVE  proc[v] = "entry" /\ v = "replica" /\ E.sub # "held"
  <2>1. PtraceSyscall(IF E.sub = "held" THEN {} ELSE {"replica"})
    BY <1>13 DEF RunReplica, resumeVariantFromWait
  <2>2. /\ v \in IF E.sub = "held" THEN {} ELSE {"replica"}
        /\ proc[v] = "entry"
    BY <2>1, ResumedIntoKernel
  <2> QED
    BY <2>2
<1>14. CASE MonitorStep
  <2>1. ASSUME NEW w \in Variant, WaitAnyVariant(w) PROVE FALSE
    BY <2>1, <1>3 DEF WaitAnyVariant
  <2>2. ASSUME WaitMaster \/ WaitReplica PROVE FALSE
    BY <2>2, <1>3 DEF WaitMaster, WaitReplica, waitVariant, Variant
  <2>3. ASSUME UnknownChild \/ LeaveLoop \/ InvalidState \/ RefuseCall
               \/ RefuseCallLate \/ TransferFailed
        PROVE  FALSE
    BY <2>3, <1>4 DEF UnknownChild, LeaveLoop, InvalidState, RefuseCall,
                      RefuseCallLate, TransferFailed, Fail
  <2> QED
    BY <1>14, <1>2, <2>1, <2>2, <2>3, <1>5, <1>6, <1>7, <1>8, <1>10, <1>11,
       <1>12, <1>13 DEF MonitorStep
<1> QED
  BY <1>2, <1>9, <1>14 DEF Next, VariantStep, Fault, Terminated

-----------------------------------------------------------------------------
(* The arguments that the master enters the kernel with                    *)

\* At the rendezvous the master is let into the kernel with scalars that are
\* those of the replica's call.
LEMMA ScalarsMeet ==
    ASSUME IInv, Handling("entry"), Met, SameCall, ArgumentsAgree,
           call["master"].nr \in DOMAIN Scalars
    PROVE  SameScalars(call["master"].nr, call["master"].args,
                       call["replica"].args)
<1>1. \A v \in Variant : /\ InfoOf(v).nr = call[v].nr
                         /\ InfoOf(v).args = call[v].args
                         /\ call[v].args \in [Arg -> Int]
  BY Meeting DEF IInv, TypeOK, Call
<1>2. "master" \in Variant /\ "replica" \in Variant
  BY DEF Variant
<1>3. Executing = Executor[call["master"].nr]
  BY <1>1, <1>2 DEF Executing
<1>4. RegistersAgree(Executor[call["master"].nr], call["master"].args,
                     call["replica"].args)
  BY <1>1, <1>2, <1>3 DEF ArgumentsAgree, Agree
<1> QED
  BY <1>1, <1>2, <1>4, AcceptedScalars

LEMMA ScalarsInit == Init => ScalarsAgree
BY DEF Init, ScalarsAgree, Variant

LEMMA ScalarsStep == IInv /\ ScalarsAgree /\ [Next]_vars => ScalarsAgree'
<1> SUFFICES ASSUME IInv, ScalarsAgree, [Next]_vars,
                    proc'["master"] = "kernel",
                    (call["master"].nr \in DOMAIN Scalars)',
                    issued'["master"] = issued'["replica"]
             PROVE  SameScalars(call["master"].nr, call["master"].args,
                                call["replica"].args)'
  BY DEF ScalarsAgree
<1>1. "master" \in Variant /\ "replica" \in Variant
  BY DEF Variant
<1>2. UNCHANGED <<call, issued>>
  <2>1. ~Issue("master")
    BY <1>1, IssueFacts
  <2>2. ASSUME Issue("replica") PROVE FALSE
    <3>1. /\ proc["master"] = "kernel" /\ issued'["master"] = issued["master"]
          /\ issued'["replica"] = issued["replica"] + 1
          /\ issued["replica"] \in Nat
      <4>1. "master" \in Variant \ {"replica"}
        BY <1>1
      <4>2. proc'["master"] = proc["master"] /\ issued'["master"] = issued["master"]
        BY <2>2, <1>1, <4>1, IssueFacts
      <4>3. issued'["replica"] = issued["replica"] + 1 /\ issued["replica"] \in Nat
        BY <2>2, <1>1, IssueFacts
      <4> QED
        BY <4>2, <4>3
    <3>2. /\ released["master"] = issued["master"]
          /\ released["master"] <= issued["replica"]
          /\ issued["master"] \in Nat
      BY <3>1, <1>1 DEF IInv, TypeOK, Counting, Rendezvous, Other
    <3>3. issued["master"] = issued["replica"] + 1
      BY <3>1
    <3>4. issued["master"] <= issued["replica"]
      BY <3>2
    <3> QED
      BY <3>1, <3>2, <3>3, <3>4
  <2> QED
    BY <2>1, <2>2, CallsKept DEF Variant
<1>3. CASE proc["master"] = "kernel"
  BY <1>2, <1>3 DEF ScalarsAgree
<1>4. CASE proc["master"] # "kernel"
  <2>1. RunBoth \/ RunBothAsAtExit \/ RunMaster
    BY <1>1, <1>4, EntersKernel
  <2>2. Handling("entry") /\ Met /\ SameCall /\ ArgumentsAgree
    BY <2>1 DEF RunBoth, RunBothAsAtExit, RunMaster, Synchronising
  <2> QED
    BY <1>2, <2>2, ScalarsMeet
<1> QED
  BY <1>3, <1>4

\* The master never runs a call with a scalar that the replica's call does not
\* have, but for those that no executor compares (Uncompared).
THEOREM ScalarsAgreeCorrect == Spec => []ScalarsAgree
BY ScalarsInit, ScalarsStep, InvCorrect, PTL DEF Spec

-----------------------------------------------------------------------------
(* The call that an executor takes the variants through                    *)

LEMMA ReplicaInCallStep ==
    IInv /\ ReplicaInCall /\ [Next]_vars => ReplicaInCall'
<1> SUFFICES ASSUME IInv, ReplicaInCall, [Next]_vars, pc' \in InCall
             PROVE  (/\ exec.nr = call["replica"].nr
                     /\ exec.nr \in Implemented
                     /\ E.run \in {"map", "serial"})'
  BY DEF ReplicaInCall
<1> USE DEF localVars, recordVars, historyVars, processVars
<1>1. ASSUME pc \in InCall, exec' = exec, UNCHANGED <<call, issued>>
      PROVE  (/\ exec.nr = call["replica"].nr
              /\ exec.nr \in Implemented
              /\ E.run \in {"map", "serial"})'
  BY <1>1 DEF ReplicaInCall, E
<1>2. CASE RunMaster
  <2>1. /\ Handling("entry") /\ Met /\ SameCall
        /\ Executing.run \in {"map", "serial"}
        /\ exec' = [nr |-> InfoOf("master").nr, args |-> InfoOf("master").args]
        /\ call' = call
    BY <1>2 DEF RunMaster, Synchronising
  <2>2. InfoOf("replica").nr = call["replica"].nr
    BY <2>1, Meeting DEF Variant
  <2>3. exec'.nr = InfoOf("master").nr
    BY <2>1
  <2>4. exec'.nr = call["replica"].nr
    BY <2>1, <2>2, <2>3 DEF SameCall
  <2> QED
    BY <2>1, <2>3, <2>4 DEF E, Executing, SameCall
<1>3. CASE MonitorStep /\ ~RunMaster
  <2>1. ASSUME pc \in InCall, exec' = exec
        PROVE  (/\ exec.nr = call["replica"].nr
                /\ exec.nr \in Implemented
                /\ E.run \in {"map", "serial"})'
    <3>1. UNCHANGED <<call, issued>>
      BY <2>1, CallsKept, IssueFacts
    <3> QED
      BY <1>1, <2>1, <3>1
  <2>2. ASSUME NEW v \in Variant, initVariant(v) \/ WaitAnyVariant(v)
        PROVE  FALSE
    BY <2>2 DEF initVariant, WaitAnyVariant, Collect, InCall
  <2>3. ASSUME UnknownChild \/ LeaveLoop \/ InvalidState \/ RefuseCall
               \/ RefuseCallLate \/ TransferFailed
        PROVE  FALSE
    BY <2>3 DEF UnknownChild, LeaveLoop, InvalidState, RefuseCall,
                RefuseCallLate, TransferFailed, Fail, Exit, InCall
  <2>4. ASSUME AwaitPartner \/ ResumeFromExit \/ RunBoth \/ RunBothAsAtExit
               \/ RecordMapping \/ FinishCall \/ VariantLost
        PROVE  FALSE
    BY <2>4 DEF AwaitPartner, ResumeFromExit, RunBoth, RunBothAsAtExit,
                RecordMapping, FinishCall, VariantLost, Fail, Exit, InCall
  <2>5. ASSUME WaitMaster \/ WaitReplica \/ RunReplica
        PROVE  pc \in InCall /\ exec' = exec
    BY <2>5 DEF WaitMaster, WaitReplica, waitVariant, Collect, RunReplica,
                MasterDone, InCall
  <2> QED
    BY <1>3, <2>1, <2>2, <2>3, <2>4, <2>5 DEF MonitorStep
<1>4. ASSUME NEW v \in Variant, VariantStep(v) \/ Fault(v)
      PROVE  (/\ exec.nr = call["replica"].nr
              /\ exec.nr \in Implemented
              /\ E.run \in {"map", "serial"})'
  <2>1. pc' = pc /\ exec' = exec
    BY <1>4 DEF VariantStep, Fault, Issue, KernelReturn, Kill, Signal
  <2>2. UNCHANGED <<call, issued>>
    BY <2>1, CallsKept, IssueFacts
  <2> QED
    BY <1>1, <2>1, <2>2
<1>5. CASE UNCHANGED vars
  BY <1>1, <1>5 DEF vars
<1> QED
  BY <1>2, <1>3, <1>4, <1>5 DEF Next, Terminated

\* What the other invariants of the calls build on.
CallInv == IInv /\ CallsMade /\ ReplicaInCall

LEMMA CallInvCorrect == Spec => []CallInv
<1>1. Init => CallsMade /\ ReplicaInCall
  BY DEF Init, CallsMade, ReplicaInCall, InCall
<1> QED
  BY <1>1, InvCallsMade, ReplicaInCallStep, InvCorrect, PTL DEF Spec, CallInv

-----------------------------------------------------------------------------
(* Effects outside the processes                                           *)

\* The registers of the replica change outside the kernel only.
LEMMA RegistersKept ==
    ASSUME IInv, [Next]_vars, proc["replica"] = "kernel"
    PROVE  regs'["replica"] = regs["replica"]
<1> USE DEF localVars, recordVars, historyVars, processVars
<1>1. "replica" \in Variant
  BY DEF Variant
<1>2. ASSUME NEW v \in Variant, VariantStep(v) \/ Fault(v)
      PROVE  regs'["replica"] = regs["replica"]
  <2>1. CASE Issue(v)
    <3>1. v # "replica"
      BY <2>1, IssueFacts
    <3>2. "replica" \in Variant \ {v}
      BY <1>1, <3>1
    <3> QED
      BY <2>1, <3>2, IssueFacts
  <2> QED
    BY <1>2, <2>1 DEF VariantStep, Fault, KernelReturn, Kill, Signal
<1>3. CASE MonitorStep
  <2>1. ~RunReplica
    BY AtMastersExit DEF RunReplica, MasterDone
  <2>2. ASSUME NEW v \in Variant, initVariant(v) \/ WaitAnyVariant(v)
        PROVE  regs' = regs
    BY <2>2 DEF initVariant, WaitAnyVariant, Collect
  <2>3. ASSUME UnknownChild \/ LeaveLoop \/ InvalidState \/ RefuseCall
               \/ RefuseCallLate \/ TransferFailed
        PROVE  regs' = regs
    BY <2>3 DEF UnknownChild, LeaveLoop, InvalidState, RefuseCall,
                RefuseCallLate, TransferFailed, Fail, Exit
  <2>4. ASSUME AwaitPartner \/ ResumeFromExit \/ RunBoth \/ RunBothAsAtExit
               \/ RunMaster \/ RecordMapping \/ FinishCall
        PROVE  regs' = regs
    BY <2>4 DEF AwaitPartner, ResumeFromExit, RunBoth, RunBothAsAtExit,
                RunMaster, RecordMapping, FinishCall
  <2>5. ASSUME WaitMaster \/ WaitReplica \/ VariantLost
        PROVE  regs' = regs
    BY <2>5 DEF WaitMaster, WaitReplica, waitVariant, Collect, VariantLost,
                Fail, Exit
  <2> QED
    BY <1>3, <2>1, <2>2, <2>3, <2>4, <2>5 DEF MonitorStep
<1>4. CASE UNCHANGED vars
  BY <1>4 DEF vars
<1> QED
  BY <1>2, <1>3, <1>4 DEF Next, Terminated

\* A call that reaches outside is not one that both variants make.
LEMMA OutsideRuns ==
    ASSUME CallInv, "write" \notin Calls, NEW v \in Variant,
           call[v].nr \in OutsideCalls
    PROVE  /\ Executor[call[v].nr].run = "serial"
           /\ Executor[call[v].nr].sub \in {"getpid", "lseek"}
<1>1. call[v].nr # "write"
  BY MadeCall DEF CallInv
<1>2. call[v].nr \in Implemented
  BY ImplementedCalls DEF OutsideCalls
<1> QED
  BY <1>1, <1>2, ExecutorsRun DEF RunsSoundly

LEMMA MasterOnlyStep ==
    ASSUME CallInv, MasterOnly, "write" \notin Calls, [Next]_vars
    PROVE  MasterOnly'
<1> SUFFICES ASSUME proc'["replica"] = "kernel"
             PROVE  regs'["replica"].nr \notin OutsideCalls
  BY DEF MasterOnly, OutsideCalls
<1>1. "replica" \in Variant /\ IInv /\ ReplicaInCall
  BY DEF Variant, CallInv
<1>2. CASE proc["replica"] = "kernel"
  BY <1>1, <1>2, RegistersKept DEF MasterOnly
<1>3. CASE proc["replica"] # "kernel"
  <2>1. /\ proc["replica"] = "entry"
        /\ RunBoth \/ RunBothAsAtExit \/ RecordMapping \/ RunReplica
    BY <1>1, <1>3, EntersKernel
  <2>2. CASE RunBoth \/ RunBothAsAtExit
    <3>1. /\ Handling("entry") /\ Met /\ SameCall
          /\ Executing.run \in {"both", "skip"} /\ regs' = regs
      BY <2>2 DEF RunBoth, RunBothAsAtExit, Synchronising
    <3>2. /\ regs["replica"] = call["replica"]
          /\ InfoOf("replica").nr = call["replica"].nr
      BY <1>1, <2>1, <3>1, Meeting
    <3>3. Executing = Executor[call["replica"].nr]
      BY <3>1, <3>2 DEF Executing, SameCall
    <3> QED
      BY <1>1, <3>1, <3>2, <3>3, OutsideRuns
  <2>3. CASE RecordMapping
    <3>1. /\ pc = "gotMaster" /\ E.run = "map" /\ regs' = regs
      BY <2>3 DEF RecordMapping
    <3>2. regs["replica"] = call["replica"] /\ exec.nr = call["replica"].nr
      BY <1>1, <2>1, <3>1 DEF IInv, Reports, ReplicaInCall, InCall
    <3> QED
      BY <1>1, <3>1, <3>2, OutsideRuns DEF E
  <2>4. CASE RunReplica
    <3>1. /\ pc = "gotMaster" /\ regs'["replica"] = Substitute
      BY <1>1, <2>1, <2>4 DEF RunReplica, MasterDone, Stopped, IInv, TypeOK
    <3>2. regs["replica"] = call["replica"] /\ exec.nr = call["replica"].nr
      BY <1>1, <2>1, <3>1 DEF IInv, Reports, ReplicaInCall, InCall
    <3>3. \/ E.sub = "own" /\ Substitute.nr = call["replica"].nr
          \/ Substitute.nr \in {"lseek", "getpid"}
      BY <3>2 DEF Substitute
    <3>4. CASE E.sub = "own" /\ Substitute.nr = call["replica"].nr
      BY <1>1, <3>1, <3>2, <3>4, OutsideRuns DEF E
    <3>5. CASE Substitute.nr \in {"lseek", "getpid"}
      BY <3>1, <3>5 DEF OutsideCalls
    <3> QED
      BY <3>3, <3>4, <3>5
  <2> QED
    BY <2>1, <2>2, <2>3, <2>4
<1> QED
  BY <1>2, <1>3

\* The replica never executes a call whose effect reaches outside it: the
\* master's is the only one.  write is the exception, for its executor sets
\* the replica's harmless call in the master.
THEOREM MasterOnlyCorrect ==
    ASSUME "write" \notin Calls
    PROVE  Spec => []MasterOnly
<1>1. Init => MasterOnly
  BY DEF Init, MasterOnly, Variant
<1>2. CallInv /\ MasterOnly /\ [Next]_vars => MasterOnly'
  BY MasterOnlyStep
<1> QED
  BY <1>1, <1>2, CallInvCorrect, PTL DEF Spec

-----------------------------------------------------------------------------
(* No stopped variant is forgotten                                         *)

\* While an executor runs, its call is one the program makes.
LEMMA CallInDispatch ==
    ASSUME CallInv, pc \in InCall
    PROVE  /\ exec.nr = call["master"].nr /\ exec.nr = call["replica"].nr
           /\ exec.nr \in Implemented /\ exec.nr \in Calls \cup {"exit_group"}
           /\ RunsSoundly(exec.nr)
<1>1. /\ exec.nr = call["master"].nr /\ exec.nr = call["replica"].nr
      /\ exec.nr \in Implemented
  BY DEF CallInv, IInv, InExecutor, ReplicaInCall
<1>2. exec.nr # "none"
  BY <1>1, ImplementedCalls
<1>3. exec.nr \in Calls \cup {"exit_group", "none"}
  BY <1>1, MadeCall DEF CallInv, Variant
<1> QED
  BY <1>1, <1>2, <1>3, ExecutorsRun

\* Every executor but that of access reports the loss of a variant.
LEMMA LossReported ==
    ASSUME CallInv, "access" \notin Calls, VariantLost
    PROVE  Exit("syncFailed", Variant)
<1>1. pc \in InCall
  BY DEF VariantLost, InCall
<1>2. ~E.lax
  BY <1>1, CallInDispatch DEF RunsSoundly, E
<1> QED
  BY <1>2 DEF VariantLost, Fail

\* Nothing is left to account for when the monitor ends.
LEMMA AccountedExit ==
    ASSUME NEW how, NEW killed, Exit(how, killed)
    PROVE  Accounted'
BY DEF Exit, Accounted, Stopped

\* A stop of which the report waits to be collected is no concern yet.
LEMMA AccountedOne ==
    ASSUME Accounted, NEW v \in Variant, news'[v] \/ ~Stopped(v)',
           \A w \in Variant \ {v} : proc'[w] = proc[w] /\ news'[w] = news[w],
           UNCHANGED <<pc, who, state>>
    PROVE  Accounted'
BY DEF Accounted, Stopped

LEMMA AccountedStep ==
    ASSUME CallInv, Accounted, "access" \notin Calls, [Next]_vars
    PROVE  Accounted'
<1> USE DEF localVars, recordVars, historyVars, processVars
<1>1. /\ IInv /\ proc \in [Variant -> ProcState]
      /\ news \in [Variant -> BOOLEAN]
      /\ state \in [Variant -> {"running", "wait"}]
  BY DEF CallInv, IInv, TypeOK
<1>2. ASSUME NEW v \in Variant, VariantStep(v) \/ Fault(v) PROVE Accounted'
  <2>1. /\ news'[v]
        /\ \A w \in Variant \ {v} : proc'[w] = proc[w] /\ news'[w] = news[w]
        /\ UNCHANGED <<pc, who, state>>
    BY <1>1, <1>2 DEF VariantStep, Fault, Issue, KernelReturn, Kill, Signal
  <2> QED
    BY <2>1, AccountedOne
<1>3. ASSUME NEW v \in Variant, initVariant(v) PROVE Accounted'
  <2>1. /\ ~Stopped(v)' /\ pc \notin Main \cup InCall
        /\ \A w \in Variant \ {v} : proc'[w] = proc[w] /\ news'[w] = news[w]
        /\ state'[v] = "running"
        /\ \A w \in Variant \ {v} : state'[w] = state[w]
    BY <1>1, <1>3 DEF initVariant, Stopped, Main, InCall
  <2>2. pc # "event" /\ pc \notin InCall
    BY <2>1 DEF Main
  <2> QED
    BY <2>1, <2>2 DEF Accounted, Stopped, InCall
<1>4. ASSUME NEW v \in Variant, WaitAnyVariant(v) PROVE Accounted'
  <2>1. /\ pc = "waitAny" /\ pc' = "event" /\ who' = v
        /\ \A w \in Variant \ {v} : proc'[w] = proc[w] /\ news'[w] = news[w]
        /\ state' = state
    BY <1>1, <1>4 DEF WaitAnyVariant, Collect
  <2> QED
    BY <2>1 DEF Accounted, Stopped
<1>5. ASSUME WaitMaster \/ WaitReplica \/ RunMaster \/ RunReplica
      PROVE  Accounted'
  <2>1. pc' \in InCall
    BY <1>5 DEF WaitMaster, WaitReplica, waitVariant, Collect, RunMaster,
                RunReplica, InCall
  <2> QED
    BY <2>1 DEF Accounted, InCall
<1>6. ASSUME UnknownChild \/ LeaveLoop \/ InvalidState \/ RefuseCall
             \/ RefuseCallLate \/ TransferFailed \/ VariantLost
      PROVE  Accounted'
  <2>1. \E how, killed : Exit(how, killed)
    BY <1>6, LossReported
       DEF UnknownChild, LeaveLoop, InvalidState, RefuseCall,
           RefuseCallLate, TransferFailed, Fail
  <2> QED
    BY <2>1, AccountedExit
<1>7. CASE AwaitPartner
  <2>1. /\ pc = "event" /\ UNCHANGED <<proc, news>> /\ state'[who] = "wait"
        /\ \A w \in Variant \ {who} : state'[w] = state[w]
    BY <1>1, <1>7, HandlingFacts DEF AwaitPartner
  <2> QED
    BY <2>1 DEF Accounted, Stopped
<1>8. CASE ResumeFromExit
  <2>1. /\ pc = "event" /\ who \in Variant /\ proc[who] = "exit"
        /\ PtraceSyscall({who}) /\ UNCHANGED <<news, state>>
    BY <1>1, <1>8, HandlingFacts DEF ResumeFromExit, resumeVariantFromExit
  <2>2. proc'[who] = "user" /\ \A w \in Variant \ {who} : proc'[w] = proc[w]
    BY <2>1 DEF PtraceSyscall, Stopped
  <2> QED
    BY <2>1, <2>2 DEF Accounted, Stopped
<1>9. ASSUME PtraceSyscall(Variant) PROVE Accounted'
  <2>1. \A v \in Variant : ~Stopped(v)'
    BY <1>9 DEF PtraceSyscall, Stopped
  <2> QED
    BY <2>1 DEF Accounted
<1>10. ASSUME RunBoth \/ RunBothAsAtExit \/ RecordMapping \/ FinishCall
       PROVE  PtraceSyscall(Variant)
  BY <1>10 DEF RunBoth, RunBothAsAtExit, RecordMapping, FinishCall,
               resumeVariantFromWait, resumeVariantFromExit
<1>11. CASE UNCHANGED vars
  BY <1>11 DEF vars, Accounted, Stopped
<1>12. CASE MonitorStep
  BY <1>12, <1>3, <1>4, <1>5, <1>6, <1>7, <1>8, <1>9, <1>10 DEF MonitorStep
<1> QED
  BY <1>2, <1>11, <1>12 DEF Next, Terminated

\* Whatever the monitor has been told of a stopped variant, it still means to
\* act on.  access is the exception: it drops the loss of the partner, and
\* with it the variant that is left.
THEOREM AccountedCorrect ==
    ASSUME "access" \notin Calls
    PROVE  Spec => []Accounted
<1>1. Init => Accounted
  BY DEF Init, Accounted, Stopped
<1>2. CallInv /\ Accounted /\ [Next]_vars => Accounted'
  BY AccountedStep
<1> QED
  BY <1>1, <1>2, CallInvCorrect, PTL DEF Spec

-----------------------------------------------------------------------------
(* A variant that is marked as waiting                                     *)

\* Nothing is marked by a step that leaves the marks and the marked alone.
LEMMA MarkedKept ==
    ASSUME MarkedWaiting, pc # "exited", UNCHANGED <<pc, who, status>>,
           \A v \in Variant : state'[v] = "wait" =>
               /\ state[v] = "wait"
               /\ proc'[v] = proc[v] \/ proc'[v] = "zombie"
    PROVE  MarkedWaiting'
BY DEF MarkedWaiting

\* One that runs is not marked.
LEMMA RunnerUnmarked ==
    ASSUME IInv, MarkedWaiting, NEW v \in Variant,
           proc[v] \in {"none", "user", "kernel", "exit", "signal"}
    PROVE  state[v] = "running"
<1>1. pc # "exited"
  BY DEF IInv, StartAndEnd
<1>2. pc = "event" /\ who = v /\ status = "exited" => proc[v] = "gone"
  BY DEF IInv, AtEvent
<1>3. pc = "gotReplica" /\ v = "replica" /\ status = "exited" =>
          proc[v] = "gone"
  BY DEF IInv, ExecutorAtReplica
<1> QED
  BY <1>1, <1>2, <1>3 DEF MarkedWaiting, IInv, TypeOK

LEMMA MarkedStep ==
    ASSUME CallInv, MarkedWaiting, "shutdown" \notin Calls, [Next]_vars
    PROVE  MarkedWaiting'
<1> USE DEF localVars, recordVars, historyVars, processVars
<1>1. /\ IInv /\ proc \in [Variant -> ProcState]
      /\ state \in [Variant -> {"running", "wait"}]
      /\ Variant = {"master", "replica"}
  BY DEF CallInv, IInv, TypeOK, Variant
<1>2. ASSUME NEW v \in Variant, Issue(v) \/ KernelReturn(v) \/ Signal(v)
      PROVE  MarkedWaiting'
  <2>1. state[v] = "running" /\ pc # "exited"
    <3>1. proc[v] \in {"user", "kernel"}
      BY <1>2 DEF Issue, KernelReturn, Signal
    <3> QED
      BY <1>1, <3>1, RunnerUnmarked DEF IInv, StartAndEnd
  <2>2. /\ \A w \in Variant \ {v} : proc'[w] = proc[w]
        /\ UNCHANGED <<pc, who, status, state>>
    BY <1>1, <1>2 DEF Issue, KernelReturn, Signal
  <2> QED
    BY <2>1, <2>2, MarkedKept
<1>3. ASSUME NEW v \in Variant, Kill(v) PROVE MarkedWaiting'
  <2>1. proc' = [proc EXCEPT ![v] = "zombie"] /\ Alive(v)
        /\ UNCHANGED <<pc, who, status, state>>
    BY <1>3 DEF Kill
  <2>2. pc # "exited"
    BY <1>1, <2>1 DEF IInv, StartAndEnd, Alive, Stopped
  <2> QED
    BY <1>1, <2>1, <2>2, MarkedKept
<1>4. ASSUME NEW v \in Variant, initVariant(v) PROVE MarkedWaiting'
  <2>1. \A w \in Variant : state'[w] = "running"
    BY <1>1, <1>4 DEF initVariant, IInv, StartAndEnd
  <2> QED
    BY <2>1 DEF MarkedWaiting
<1>5. ASSUME NEW v \in Variant, WaitAnyVariant(v) PROVE MarkedWaiting'
  <2>1. /\ pc = "waitAny" /\ pc' = "event" /\ who' = v /\ state' = state
        /\ \/ proc'[v] = "gone" /\ status' = "exited"
           \/ proc'[v] = proc[v]
        /\ \A w \in Variant \ {v} : proc'[w] = proc[w]
    BY <1>1, <1>5 DEF WaitAnyVariant, Collect
  <2> QED
    BY <2>1 DEF MarkedWaiting
<1>6. CASE WaitMaster
  <2>1. /\ pc = "waitMaster" /\ state' = state
        /\ proc'["replica"] = proc["replica"]
    BY <1>1, <1>6 DEF WaitMaster, waitVariant, Collect
  <2>2. state["master"] = "running"
    BY <1>1, <2>1 DEF IInv, InExecutor, InCall
  <2> QED
    BY <1>1, <2>1, <2>2 DEF MarkedWaiting
<1>7. CASE WaitReplica
  <2>1. /\ pc = "waitReplica" /\ pc' = "gotReplica" /\ state' = state
        /\ \/ proc'["replica"] = "gone" /\ status' = "exited"
           \/ proc'["replica"] = proc["replica"]
    BY <1>1, <1>7 DEF WaitReplica, waitVariant, Collect
  <2>2. state["master"] = "running"
    BY <1>1, <2>1 DEF IInv, InExecutor, InCall
  <2> QED
    BY <1>1, <2>1, <2>2 DEF MarkedWaiting
<1>8. ASSUME UnknownChild \/ LeaveLoop \/ InvalidState \/ RefuseCall
             \/ RefuseCallLate \/ TransferFailed
      PROVE  MarkedWaiting'
  BY <1>8 DEF UnknownChild, LeaveLoop, InvalidState, RefuseCall,
              RefuseCallLate, TransferFailed, Fail, Exit, MarkedWaiting
<1>9. CASE AwaitPartner
  <2>1. /\ pc = "event" /\ status = "stopped" /\ who \in Variant
        /\ proc[who] = "entry" /\ UNCHANGED <<proc>>
        /\ \A w \in Variant \ {who} : state'[w] = state[w]
    BY <1>1, <1>9, HandlingFacts DEF AwaitPartner
  <2> QED
    BY <2>1 DEF MarkedWaiting
<1>10. CASE ResumeFromExit
  <2>1. /\ pc = "event" /\ who \in Variant /\ proc[who] = "exit"
        /\ status = "stopped" /\ PtraceSyscall({who}) /\ state' = state
    BY <1>1, <1>10, HandlingFacts DEF ResumeFromExit, resumeVariantFromExit
  <2>2. \A w \in Variant \ {who} : proc'[w] = proc[w]
    BY <2>1 DEF PtraceSyscall
  <2>3. state[who] = "running"
    BY <1>1, <2>1, RunnerUnmarked
  <2> QED
    BY <2>1, <2>2, <2>3 DEF MarkedWaiting
<1>11. CASE RunBoth
  <2>1. \A v \in Variant : state'[v] = "running"
    BY <1>11 DEF RunBoth, resumeVariantFromWait
  <2> QED
    BY <2>1 DEF MarkedWaiting
<1>12. ~RunBothAsAtExit
  <2> SUFFICES ASSUME RunBothAsAtExit PROVE FALSE
    OBVIOUS
  <2>1. /\ Handling("entry") /\ Met /\ SameCall /\ Executing.run = "skip"
    BY DEF RunBothAsAtExit, Synchronising
  <2>2. InfoOf("master").nr = call["master"].nr
    BY <1>1, <2>1, Meeting
  <2>3. call["master"].nr = "shutdown"
    BY <2>1, <2>2, ExecutorsRun DEF Executing, SameCall, RunsSoundly
  <2> QED
    BY <1>1, <2>3, MadeCall DEF CallInv
<1>13. CASE RunMaster
  <2>1. /\ Handling("entry") /\ Met /\ SameCall
        /\ PtraceSyscall({"master"})
        /\ state'["master"] = "running" /\ state'["replica"] = state["replica"]
    BY <1>1, <1>13 DEF RunMaster, Synchronising, resumeVariantFromWait
  <2>2. pc = "event" /\ status = "stopped" /\ proc'["replica"] = proc["replica"]
    BY <1>1, <2>1, HandlingFacts DEF PtraceSyscall
  <2> QED
    BY <1>1, <2>1, <2>2 DEF MarkedWaiting
<1>14. CASE RecordMapping
  <2>1. state["master"] = "running"
    BY <1>1, <1>14 DEF RecordMapping, IInv, InExecutor, InCall
  <2>2. \A v \in Variant : state'[v] = "running"
    BY <1>1, <1>14, <2>1 DEF RecordMapping
  <2> QED
    BY <2>2 DEF MarkedWaiting
<1>15. CASE RunReplica
  <2>1. /\ pc = "gotMaster"
        /\ resumeVariantFromWait(IF E.sub = "held" THEN {} ELSE {"replica"})
    BY <1>15 DEF RunReplica, MasterDone
  <2>2. state'["master"] = "running"
    BY <1>1, <2>1 DEF resumeVariantFromWait, IInv, InExecutor, InCall
  <2>3. \/ state'["replica"] = "running"
        \/ proc'["replica"] = proc["replica"] /\ state' = state
    <3>1. CASE E.sub = "held"
      BY <1>1, <2>1, <3>1 DEF resumeVariantFromWait, PtraceSyscall
    <3>2. CASE E.sub # "held"
      BY <1>1, <2>1, <3>2 DEF resumeVariantFromWait
    <3> QED
      BY <3>1, <3>2
  <2> QED
    BY <1>1, <2>1, <2>2, <2>3 DEF MarkedWaiting
<1>16. CASE FinishCall
  <2>1. pc = "gotReplica" /\ status = "stopped"
    BY <1>16 DEF FinishCall
  <2>2. \A v \in Variant : state[v] = "running"
    BY <1>1, <2>1 DEF IInv, InExecutor, ExecutorAtReplica, InCall
  <2>3. \A v \in Variant : state'[v] = "running"
    BY <1>16, <2>2 DEF FinishCall, resumeVariantFromWait, resumeVariantFromExit
  <2> QED
    BY <2>3 DEF MarkedWaiting
<1>17. CASE VariantLost
  <2>1. CASE ~E.lax
    BY <1>17, <2>1 DEF VariantLost, Fail, Exit, MarkedWaiting
  <2>2. CASE E.lax
    <3>1. /\ pc \in {"gotMaster", "gotReplica"} /\ status = "exited"
          /\ UNCHANGED <<proc, state>>
      BY <1>17, <2>2 DEF VariantLost
    <3>2. state["master"] = "running"
      BY <1>1, <3>1 DEF IInv, InExecutor, InCall
    <3>3. E.sub # "held"
      BY <2>2, <3>1, CallInDispatch DEF RunsSoundly, InCall, E
    <3>4. pc = "gotReplica" => state["replica"] = "running"
      BY <1>1, <3>3 DEF IInv, ExecutorAtReplica
    <3> QED
      BY <1>1, <3>1, <3>2, <3>4 DEF MarkedWaiting
  <2> QED
    BY <2>1, <2>2
<1>18. CASE UNCHANGED vars
  BY <1>18 DEF vars, MarkedWaiting
<1>19. CASE MonitorStep
  BY <1>19, <1>4, <1>5, <1>6, <1>7, <1>8, <1>9, <1>10, <1>11, <1>12, <1>13,
     <1>14, <1>15, <1>16, <1>17 DEF MonitorStep
<1> QED
  BY <1>2, <1>3, <1>18, <1>19 DEF Next, VariantStep, Fault, Terminated

LEMMA MarkedCorrect ==
    ASSUME "shutdown" \notin Calls
    PROVE  Spec => []MarkedWaiting
<1>1. Init => MarkedWaiting
  BY DEF Init, MarkedWaiting
<1>2. CallInv /\ MarkedWaiting /\ [Next]_vars => MarkedWaiting'
  BY MarkedStep
<1> QED
  BY <1>1, <1>2, CallInvCorrect, PTL DEF Spec

\* Where the loop takes the partner to wait at its entry, it does, or it has
\* been killed there.  shutdown is the exception: its executor leaves the
\* marks of both variants behind.
THEOREM PartnerWaitingCorrect ==
    ASSUME "shutdown" \notin Calls
    PROVE  Spec => []PartnerWaiting
<1>1. CallInv /\ MarkedWaiting => PartnerWaiting
  <2> SUFFICES ASSUME CallInv, MarkedWaiting, pc = "event",
                      status = "stopped", Met
               PROVE  proc[Other(who)] \in {"entry", "zombie"}
    BY DEF PartnerWaiting
  <2>1. Other(who) \in Variant
    BY ConstantTypes DEF CallInv, IInv, TypeOK
  <2> QED
    BY <2>1 DEF MarkedWaiting, Met
<1> QED
  BY <1>1, CallInvCorrect, MarkedCorrect, PTL

-----------------------------------------------------------------------------
(* The result of a call                                                    *)

LEMMA CallResultStep == IInv /\ CallResult /\ [Next]_vars => CallResult'
<1> SUFFICES ASSUME IInv, CallResult, [Next]_vars,
                    pc' \in {"waitReplica", "gotReplica"}, Alive("master")'
             PROVE  rval' = rax'["master"]
  BY DEF CallResult
<1> USE DEF localVars, recordVars, historyVars, processVars
<1>1. /\ "master" \in Variant /\ rax \in [Variant -> Int]
      /\ proc \in [Variant -> ProcState]
  BY DEF IInv, TypeOK, Variant
<1>2. ASSUME pc \in {"waitReplica", "gotReplica"}, rval' = rval,
             rax'["master"] = rax["master"], Alive("master")
      PROVE  rval' = rax'["master"]
  BY <1>2 DEF CallResult
<1>3. ASSUME NEW v \in Variant, VariantStep(v) \/ Fault(v)
      PROVE  rval' = rax'["master"]
  <2>1. pc' = pc /\ rval' = rval
    BY <1>3 DEF VariantStep, Fault, Issue, KernelReturn, Kill, Signal
  <2>2. proc["master"] \in {"exit", "zombie", "gone"}
    BY <2>1 DEF IInv, ExecutorAtReplica
  <2>3. rax'["master"] = rax["master"]
    BY <1>1, <1>3, <2>2 DEF VariantStep, Fault, Issue, KernelReturn, Kill, Signal
  <2>4. Alive("master")
    BY <1>1, <1>3, <2>2
       DEF VariantStep, Fault, Issue, KernelReturn, Kill, Signal, Alive, Stopped
  <2> QED
    BY <1>2, <2>1, <2>3, <2>4
<1>4. CASE RunReplica
  <2>1. /\ pc = "gotMaster" /\ status = "stopped"
        /\ rval' = SyscallInfo("master").rval /\ rax' = rax
        /\ resumeVariantFromWait(IF E.sub = "held" THEN {} ELSE {"replica"})
    BY <1>4 DEF RunReplica, MasterDone
  <2>2. proc'["master"] = proc["master"] /\ proc["master"] = "exit"
    <3>1. proc["master"] \in {"exit", "zombie"}
      BY <2>1, AtMastersExit
    <3>2. proc'["master"] = proc["master"]
      BY <1>1, <2>1 DEF resumeVariantFromWait, PtraceSyscall
    <3> QED
      BY <3>1, <3>2 DEF Alive, Stopped
  <2>3. SyscallInfo("master") = [NoInfo EXCEPT !.op = "exit",
                                               !.rval = rax["master"]]
    BY <2>2 DEF SyscallInfo
  <2> QED
    BY <2>1, <2>3 DEF NoInfo
<1>5. CASE WaitReplica
  <2>1. /\ pc = "waitReplica" /\ rval' = rval /\ rax' = rax
        /\ proc'["master"] = proc["master"]
    BY <1>1, <1>5 DEF WaitReplica, waitVariant, Collect
  <2>2. Alive("master")
    BY <2>1 DEF Alive, Stopped
  <2> QED
    BY <1>2, <2>1, <2>2
<1>6. CASE UNCHANGED vars
  BY <1>2, <1>6 DEF vars, Alive, Stopped
<1>7. CASE MonitorStep
  <2>1. ASSUME NEW v \in Variant, initVariant(v) \/ WaitAnyVariant(v)
        PROVE  FALSE
    BY <2>1 DEF initVariant, WaitAnyVariant, Collect
  <2>2. ASSUME UnknownChild \/ LeaveLoop \/ InvalidState \/ RefuseCall
               \/ RefuseCallLate \/ TransferFailed
        PROVE  FALSE
    BY <2>2 DEF UnknownChild, LeaveLoop, InvalidState, RefuseCall,
                RefuseCallLate, TransferFailed, Fail, Exit
  <2>3. ASSUME AwaitPartner \/ ResumeFromExit \/ RunBoth \/ RunBothAsAtExit
               \/ RunMaster \/ RecordMapping \/ FinishCall \/ VariantLost
        PROVE  FALSE
    BY <2>3 DEF AwaitPartner, ResumeFromExit, RunBoth, RunBothAsAtExit,
                RunMaster, RecordMapping, FinishCall, VariantLost, Fail, Exit
  <2>4. ~WaitMaster
    BY DEF WaitMaster, waitVariant, Collect
  <2> QED
    BY <1>4, <1>5, <1>7, <2>1, <2>2, <2>3, <2>4 DEF MonitorStep
<1> QED
  BY <1>3, <1>6, <1>7 DEF Next, Terminated

\* The variants are through a call whose result is replicated.
Replicated ==
    /\ \A v \in Variant : Alive(v) /\ released[v] = issued[v]
    /\ issued["master"] = issued["replica"]
    /\ call["master"].nr \in Implemented
    /\ Executor[call["master"].nr].ret

LEMMA MainResultStep ==
    CallInv /\ CallResult /\ MainResult /\ [Next]_vars => MainResult'
<1> SUFFICES ASSUME CallInv, CallResult, MainResult, [Next]_vars,
                    pc' \in Main, Replicated'
             PROVE  /\ \A v \in Variant : proc'[v] \in {"user", "signal"}
                    /\ rax'["master"] = rax'["replica"]
  BY DEF MainResult, Replicated
<1> USE DEF localVars, recordVars, historyVars, processVars
<1>1. /\ IInv /\ proc \in [Variant -> ProcState] /\ rax \in [Variant -> Int]
      /\ Variant = {"master", "replica"}
  BY DEF CallInv, IInv, TypeOK, Variant
<1>2. pc \in Main /\ Replicated =>
          /\ \A v \in Variant : proc[v] \in {"user", "signal"}
          /\ rax["master"] = rax["replica"]
  BY DEF MainResult, Replicated
<1>3. ASSUME NEW v \in Variant, Issue(v) PROVE FALSE
  <2>1. proc'[v] = "entry" /\ v \in Variant
    BY <1>1, <1>3, IssueFacts
  <2>2. released'[v] = issued'[v]
    BY DEF Replicated
  <2>3. /\ released[v] = issued[v] /\ released' = released
        /\ issued'[v] = issued[v] + 1 /\ issued[v] \in Nat
    BY <1>1, <1>3, IssueFacts DEF IInv, Counting
  <2> QED
    BY <2>2, <2>3
<1>4. UNCHANGED <<call, issued>>
  BY <1>3, CallsKept
<1>5. ASSUME NEW v \in Variant, KernelReturn(v) \/ Kill(v) \/ Signal(v)
      PROVE  /\ \A w \in Variant : proc'[w] \in {"user", "signal"}
             /\ rax'["master"] = rax'["replica"]
  <2>1. pc' = pc /\ released' = released
    BY <1>5 DEF KernelReturn, Kill, Signal
  <2>2. \A w \in Variant : Alive(w)
    BY <1>1, <1>5 DEF KernelReturn, Kill, Signal, Replicated, Alive, Stopped
  <2>3. Replicated
    BY <1>4, <2>1, <2>2 DEF Replicated
  <2>4. /\ \A w \in Variant : proc[w] \in {"user", "signal"}
        /\ rax["master"] = rax["replica"]
    BY <1>2, <2>1, <2>3
  <2>5. ~Kill(v) /\ ~KernelReturn(v)
    BY <1>1, <2>4 DEF Kill, KernelReturn, Replicated, Alive, Stopped
  <2> QED
    BY <1>1, <1>5, <2>4, <2>5 DEF Signal
\* A step of the loop that moves no live variant.
<1>6. ASSUME pc \in Main, UNCHANGED <<rax, released>>,
             \A v \in Variant : Alive(v)' => proc'[v] = proc[v]
      PROVE  /\ \A v \in Variant : proc'[v] \in {"user", "signal"}
             /\ rax'["master"] = rax'["replica"]
  <2>1. \A v \in Variant : proc'[v] = proc[v]
    BY <1>6 DEF Replicated
  <2>2. Replicated
    BY <1>4, <1>6, <2>1 DEF Replicated, Alive, Stopped
  <2> QED
    BY <1>2, <1>6, <2>1, <2>2
<1>7. ASSUME NEW v \in Variant, initVariant(v) PROVE FALSE
  <2>1. pc = "startReplica"
    BY <1>7 DEF initVariant, Main
  <2>2. released["master"] = 0 /\ released' = released
    BY <1>1, <1>7, <2>1 DEF initVariant, IInv, StartAndEnd
  <2>3. issued["master"] = 0
    BY <1>1, <1>4, <2>2 DEF Replicated
  <2>4. call["master"].nr = "none"
    BY <1>1, <2>3 DEF CallInv, CallsMade, NoCall
  <2> QED
    BY <1>4, <2>4, ImplementedCalls DEF Replicated
<1>8. ASSUME NEW v \in Variant, WaitAnyVariant(v)
      PROVE  /\ pc \in Main /\ UNCHANGED <<rax, released>>
             /\ \A w \in Variant : Alive(w)' => proc'[w] = proc[w]
  BY <1>1, <1>8 DEF WaitAnyVariant, Collect, Main, Alive, Stopped
<1>9. ASSUME AwaitPartner
      PROVE  pc \in Main /\ UNCHANGED <<rax, released, proc>>
  BY <1>9 DEF AwaitPartner, Handling, Main
<1>10. ASSUME ResumeFromExit PROVE FALSE
  <2>1. /\ pc = "event" /\ who \in Variant /\ proc[who] = "exit"
        /\ PtraceSyscall({who})
    BY <1>1, <1>10, HandlingFacts DEF ResumeFromExit, resumeVariantFromExit
  <2>2. /\ \A v \in Variant : released'[v] = released[v]
        /\ \A v \in Variant : Alive(v)' => Alive(v)
    BY <1>1, <2>1 DEF PtraceSyscall, Alive, Stopped
  <2>3. Replicated
    BY <1>4, <2>2 DEF Replicated
  <2> QED
    BY <1>2, <2>1, <2>3 DEF Main
\* An executor that replicates waits for both variants.
<1>11. ASSUME RunBoth \/ RunBothAsAtExit PROVE FALSE
  <2>1. /\ Handling("entry") /\ Met /\ SameCall
        /\ Executing.run \in {"both", "skip"}
    BY <1>11 DEF RunBoth, RunBothAsAtExit, Synchronising
  <2>2. Executing = Executor[call["master"].nr]
    BY <1>1, <2>1, Meeting DEF Executing
  <2> QED
    BY <1>4, <2>1, <2>2, ExecutorsRun DEF Replicated, RunsSoundly
<1>12. ASSUME RecordMapping PROVE FALSE
  <2>1. pc \in InCall /\ E.run = "map"
    BY <1>12 DEF RecordMapping, InCall
  <2>2. exec.nr = call["master"].nr
    BY <2>1, CallInDispatch
  <2> QED
    BY <1>4, <2>1, <2>2, ExecutorsRun DEF Replicated, RunsSoundly, E
<1>13. ASSUME FinishCall
       PROVE  /\ \A v \in Variant : proc'[v] \in {"user", "signal"}
              /\ rax'["master"] = rax'["replica"]
  <2>1. /\ pc = "gotReplica" /\ status = "stopped" /\ PtraceSyscall(Variant)
        /\ rax' = IF E.ret THEN [rax EXCEPT !["replica"] = rval] ELSE rax
    BY <1>13 DEF FinishCall, resumeVariantFromExit, resumeVariantFromWait
  <2>2. /\ proc["master"] \in {"exit", "zombie", "gone"}
        /\ proc["replica"] \in {"exit", "zombie"}
    BY <1>1, <2>1 DEF IInv, ExecutorAtReplica
  <2>3. \A v \in Variant : proc[v] = "exit" /\ proc'[v] = "user"
    BY <1>1, <2>1, <2>2 DEF PtraceSyscall, Stopped, Replicated, Alive
  <2>4. E.ret
    BY <1>4, <2>1, CallInDispatch DEF Replicated, E, InCall
  <2>5. rval = rax["master"]
    BY <1>1, <2>1, <2>3 DEF CallResult, Alive, Stopped
  <2> QED
    BY <1>1, <2>1, <2>3, <2>4, <2>5
<1>14. ASSUME VariantLost PROVE FALSE
  <2>1. /\ pc \in {"gotMaster", "gotReplica"} /\ status = "exited"
        /\ UNCHANGED proc
    BY <1>14 DEF VariantLost, Fail, Exit, Main
  <2>2. \E v \in Variant : proc[v] = "gone"
    BY <1>1, <2>1 DEF IInv, ExecutorAtMaster, ExecutorAtReplica
  <2> QED
    BY <2>1, <2>2 DEF Replicated, Alive, Stopped
<1>15. CASE UNCHANGED vars
  BY <1>6, <1>15 DEF vars
<1>16. CASE MonitorStep
  <2>1. ASSUME UnknownChild \/ LeaveLoop \/ InvalidState \/ RefuseCall
               \/ RefuseCallLate \/ TransferFailed
        PROVE  FALSE
    BY <2>1 DEF UnknownChild, LeaveLoop, InvalidState, RefuseCall,
                RefuseCallLate, TransferFailed, Fail, Exit, Main
  <2>2. ASSUME WaitMaster \/ WaitReplica \/ RunMaster \/ RunReplica PROVE FALSE
    BY <2>2 DEF WaitMaster, WaitReplica, waitVariant, Collect, RunMaster,
                RunReplica, Main
  <2> QED
    BY <1>16, <1>6, <1>7, <1>8, <1>9, <1>10, <1>11, <1>12, <1>13, <1>14,
       <2>1, <2>2 DEF MonitorStep
<1> QED
  BY <1>3, <1>5, <1>15, <1>16 DEF Next, VariantStep, Fault, Terminated

\* The variants see the same result of a call whose result is replicated, until
\* one of them makes another.
THEOREM SameResultCorrect == Spec => []SameResult
<1>1. Init => CallResult /\ MainResult
  BY DEF Init, CallResult, MainResult, Main
<1>2. IInv /\ MainResult => SameResult
  <2> SUFFICES ASSUME IInv, MainResult, \A v \in Variant : proc[v] = "user",
                      issued["master"] = issued["replica"],
                      call["master"].nr \in Implemented,
                      Executor[call["master"].nr].ret
               PROVE  rax["master"] = rax["replica"]
    BY DEF SameResult
  <2>1. \A v \in Variant : Alive(v) /\ released[v] = issued[v]
    BY DEF Alive, IInv, Counting
  <2>2. pc \in Main
    BY DEF IInv, TypeOK, Control, StartAndEnd, ExecutorAtMaster,
           ExecutorAtReplica, Main, Variant
  <2> QED
    BY <2>1, <2>2 DEF MainResult
<1>3. CallInv => IInv
  BY DEF CallInv
<1> QED
  BY <1>1, <1>2, <1>3, CallResultStep, MainResultStep, CallInvCorrect, PTL
     DEF Spec
=============================================================================
