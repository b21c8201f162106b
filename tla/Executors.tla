----------------------------- MODULE Executors ------------------------------
(***************************************************************************)
(* The per-call executors (src/Monitor/src/sys).  All but a few have one   *)
(* shape: compare some of the arguments of the two variants, refuse the    *)
(* call if they differ, else let the variants through it in one of a few   *)
(* ways.  An executor is therefore a record of what it compares and of how *)
(* it runs; module Monitor interprets the records.                         *)
(*                                                                         *)
(* An argument is the integer in a register of 64 bits, written signed.    *)
(* An int is the lower half of a register, scaled down to four bits: -1 is *)
(* -1 when it has been sign-extended and 15 when it has been zero-extended.*)
(* Where the executor dereferences the argument, it stands for the memory  *)
(* it points to: 0 for NULL and any memory that cannot be read, 1 for the  *)
(* empty string, 3 for one that begins with that of 2, another value for   *)
(* another content.                                                        *)
(***************************************************************************)
EXTENDS Integers

CONSTANT BUF_SIZE       \* bytes in the monitor's transfer buffers

ASSUME BufSizeAssumption == BUF_SIZE \in Nat

Arg == 0 .. 5

-----------------------------------------------------------------------------
(* How an executor compares                                                *)

\* The loop leaves through its error branch for every string that ends
\* within the buffer, and through its condition for unreadable memory only.
variantStrCmp(s1, s2) ==
    IF s1 # 0 THEN -1 ELSE IF s2 = 0 THEN 0 ELSE 1

\* newfstatat's own comparison, of as many bytes as the master's path has:
\* the replica's begins with them.
PrefixMatches(s1, s2) == s1 = s2 \/ s1 = 1 \/ <<s1, s2>> = <<2, 3>>

\* A transfer of that many bytes is possible; a negative count is converted
\* to a huge size_t.
FitsBuffer(size) == size \in 0 .. BUF_SIZE

variantMemCmp(b1, b2, size) ==
    IF ~FitsBuffer(size) THEN -1 ELSE IF size = 0 \/ b1 = b2 THEN 0 ELSE 1

\* A buffer to compare: the position of its address and that of its length,
\* FixedSize when its type gives its length.
FixedSize    == -1
Buf(a, len)  == [addr |-> a, len |-> len]

\* (int) x and (socklen_t) x, widened to a register again.
AsInt(x)     == ((x + 8) % 16) - 8
AsSocklen(x) == x % 16

Length(e, b, m) ==
    CASE b.len = FixedSize    -> 1
      [] b.len \in e.socklen  -> AsSocklen(m[b.len])
      [] OTHER                -> m[b.len]

\* The master's register is narrowed to int and widened again; the replica's
\* is taken whole.
NarrowedEquals(m, r) == AsInt(m) = r

\* m and r are the register values.
RegistersAgree(e, m, r) ==
    /\ \A i \in e.cmp : m[i] = r[i]
    /\ \A i \in e.narrow : NarrowedEquals(m[i], r[i])
    /\ \A i \in e.socklen : AsSocklen(m[i]) = r[i]
    /\ \A i \in e.int : AsInt(m[i]) = AsInt(r[i])
    /\ \A g \in e.opt : m[g.unless0] # 0 => m[g.arg] = r[g.arg]

\* mMem and rMem are the memory they point to.
Agree(e, m, r, mMem, rMem) ==
    /\ RegistersAgree(e, m, r)
    /\ \A b \in e.mem :
           variantMemCmp(mMem[b.addr], rMem[b.addr], Length(e, b, m)) = 0
    /\ \A i \in e.path : variantStrCmp(mMem[i], rMem[i]) = 0
    /\ \A i \in e.prefix : PrefixMatches(mMem[i], rMem[i])

-----------------------------------------------------------------------------
(* An executor as a record: how it compares                                *)
(*   cmp    the arguments whose registers are equal                        *)
(*   narrow, socklen  the same, the master's narrowed to that type first   *)
(*   int    the arguments that are equal as ints                           *)
(*   opt    arguments that are compared unless another is 0                *)
(*   mem, path, prefix  the memory that is compared                        *)
(* and how it runs:                                                        *)
(*   run    "both"    resume both variants, do not wait for them           *)
(*          "skip"    the same, but as if they were at the syscall's exit  *)
(*          "map"     master to its exit, record the mapping, resume both  *)
(*          "serial"  master to its exit, then replica, then resume both   *)
(*   sub    what the replica executes instead: "own" for its own call,     *)
(*          "held" when it is not resumed before the monitor waits for it  *)
(*   reargs the replica's arguments are overwritten with (fd, rval, 1)     *)
(*   data   the bytes the master received are copied before the replica    *)
(*          runs: "never", "always", or "unless-1" for any rval but -1     *)
(*   ret    the replica gets the master's return value                     *)
(*   fin    "exit": the final resumes count the call, "wait": they do not  *)
(*   late   the variants run before a difference is reported               *)
(*   lax    a variant that died during the call is not reported            *)
(*   table  what is done to the mapping table                              *)

runBoth(cmp) ==
    [cmp |-> cmp, narrow |-> {}, socklen |-> {}, int |-> {}, opt |-> {},
     mem |-> {}, path |-> {}, prefix |-> {},
     run |-> "both", sub |-> "own", reargs |-> FALSE,
     data |-> "never", ret |-> FALSE, fin |-> "exit", late |-> FALSE,
     lax |-> FALSE, table |-> "none"]

runBothCopyMasterRet(cmp) ==
    [runBoth(cmp) EXCEPT !.run = "serial", !.ret = TRUE]

runMasterReplicateRet(cmp) ==
    [runBothCopyMasterRet(cmp) EXCEPT !.sub = "getpid"]

\* The bytes that the master received can be copied, or need not be.
CanCopy(e, rval) ==
    \/ e.data = "never"
    \/ e.data = "unless-1" /\ rval = -1
    \/ FitsBuffer(rval)

-----------------------------------------------------------------------------
(* Calls that both variants execute                                        *)

noArguments                == runBoth({})
execSyscall_brk            == runBoth({})
execSyscall_setRobustList  == runBoth({})
execSyscall_arch_prctl     == runBoth({0})
execSyscall_prlimit64      == runBoth({1})
execSyscall_rt_sigaction   == runBoth({0})
execSyscall_exit_group     == runBoth({0})
execSyscall_lseek          == runBoth({0, 1, 2})
\* Mutant of execSyscall_socket: only the master makes one.
socketInMaster             == runMasterReplicateRet({0, 1, 2})
execSyscall_socket         == runBoth({0, 1, 2})
execSyscall_getcwd         == [runBoth({1}) EXCEPT !.path = {0}]
execSyscall_chdir          == [runBoth({}) EXCEPT !.path = {0}]
execSyscall_setsockopt     ==
    [runBoth({0, 1, 2}) EXCEPT !.socklen = {4}, !.mem = {Buf(3, 4)}]
execSyscall_rt_sigprocmask ==
    [runBoth({}) EXCEPT !.opt = {[unless0 |-> 1, arg |-> 0]},
                        !.mem = {Buf(1, 3)}]
execSyscall_fadvise64      == [runBoth({0, 1, 2, 3}) EXCEPT !.late = TRUE]
execSyscall_rseq           == [runBoth({1, 2, 3}) EXCEPT !.late = TRUE]
execSyscall_shutdown       == [runBoth({0, 1}) EXCEPT !.run = "skip"]
execSyscall_mprotect       ==
    [runBoth({1}) EXCEPT !.narrow = {2}, !.table = "check"]
execSyscall_munmap         == [runBoth({1}) EXCEPT !.table = "remove"]
execSyscall_mmap           ==
    [runBoth({1, 4, 5}) EXCEPT !.narrow = {2, 3}, !.run = "map",
                               !.table = "add"]
execSyscall_setTidAddress  == [runBoth({}) EXCEPT !.run = "serial"]
\* Mutant of execSyscall_close: only the master closes.
closeInMaster              == runMasterReplicateRet({0})
execSyscall_close          == runBothCopyMasterRet({0})
execSyscall_openat         ==
    [runBothCopyMasterRet({0, 2}) EXCEPT
        !.opt = {[unless0 |-> 3, arg |-> 3]}, !.path = {1}]

-----------------------------------------------------------------------------
(* Calls that only the master executes                                     *)

execSyscall_getpid      == runMasterReplicateRet({})
execSyscall_fchmod      == runMasterReplicateRet({0, 1})
execSyscall_fchown      == runMasterReplicateRet({0, 1, 2})
execSyscall_listen      == runMasterReplicateRet({0, 1})
execSyscall_unlink      == [runMasterReplicateRet({}) EXCEPT !.path = {0}]
execSyscall_utimensat   == [runMasterReplicateRet({0, 3}) EXCEPT !.path = {1}]
execSyscall_access      ==
    [runMasterReplicateRet({1}) EXCEPT !.path = {0}, !.lax = TRUE]
execSyscall_bind        ==
    [runMasterReplicateRet({0}) EXCEPT !.socklen = {2}, !.mem = {Buf(1, 2)}]
execSyscall_accept4     ==
    [runMasterReplicateRet({0, 3}) EXCEPT !.mem = {Buf(2, FixedSize)}]
execSyscall_getsockname ==
    [runMasterReplicateRet({0}) EXCEPT !.mem = {Buf(2, FixedSize)}]
execSyscall_poll        ==
    [runMasterReplicateRet({1, 2}) EXCEPT !.mem = {Buf(0, 1)}]
execSyscall_newfstatat  ==
    [runMasterReplicateRet({0, 3}) EXCEPT !.prefix = {1}]
execSyscall_pread64     ==
    [runMasterReplicateRet({0, 2, 3}) EXCEPT !.data = "always"]
execSyscall_getrandom   ==
    [runMasterReplicateRet({1, 2}) EXCEPT !.data = "unless-1", !.fin = "wait"]
execSyscall_read        ==
    [runMasterReplicateRet({2}) EXCEPT !.narrow = {0}, !.data = "unless-1",
                                       !.sub = "lseek", !.reargs = TRUE]
\* The lseek meant for the replica is set in the master.
execSyscall_write       ==
    [runBothCopyMasterRet({2}) EXCEPT !.narrow = {0},
                                      !.mem = {Buf(1, 2)}, !.reargs = TRUE]
execSyscall_pselect6    ==
    [runMasterReplicateRet({}) EXCEPT
        !.int = {0}, !.mem = {Buf(a, FixedSize) : a \in 1 .. 5},
        !.sub = "held"]

-----------------------------------------------------------------------------
(* The dispatch on the call's number; any other call is refused.           *)

Executor ==
    [getuid |-> noArguments, geteuid |-> noArguments,
     getgid |-> noArguments, getegid |-> noArguments,
     brk             |-> execSyscall_brk,
     mmap            |-> execSyscall_mmap,
     read            |-> execSyscall_read,
     arch_prctl      |-> execSyscall_arch_prctl,
     openat          |-> execSyscall_openat,
     close           |-> execSyscall_close,
     write           |-> execSyscall_write,
     pread64         |-> execSyscall_pread64,
     newfstatat      |-> execSyscall_newfstatat,
     access          |-> execSyscall_access,
     set_tid_address |-> execSyscall_setTidAddress,
     set_robust_list |-> execSyscall_setRobustList,
     mprotect        |-> execSyscall_mprotect,
     munmap          |-> execSyscall_munmap,
     rseq            |-> execSyscall_rseq,
     fadvise64       |-> execSyscall_fadvise64,
     getrandom       |-> execSyscall_getrandom,
     exit_group      |-> execSyscall_exit_group,
     prlimit64       |-> execSyscall_prlimit64,
     rt_sigaction    |-> execSyscall_rt_sigaction,
     rt_sigprocmask  |-> execSyscall_rt_sigprocmask,
     unlink          |-> execSyscall_unlink,
     utimensat       |-> execSyscall_utimensat,
     fchown          |-> execSyscall_fchown,
     fchmod          |-> execSyscall_fchmod,
     lseek           |-> execSyscall_lseek,
     getcwd          |-> execSyscall_getcwd,
     getpid          |-> execSyscall_getpid,
     chdir           |-> execSyscall_chdir,
     socket          |-> execSyscall_socket,
     setsockopt      |-> execSyscall_setsockopt,
     bind            |-> execSyscall_bind,
     listen          |-> execSyscall_listen,
     accept4         |-> execSyscall_accept4,
     poll            |-> execSyscall_poll,
     shutdown        |-> execSyscall_shutdown,
     getsockname     |-> execSyscall_getsockname,
     pselect6        |-> execSyscall_pselect6]

Implemented == DOMAIN Executor
=============================================================================
