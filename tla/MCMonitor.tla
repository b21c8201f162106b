----------------------------- MODULE MCMonitor ------------------------------
(***************************************************************************)
(* Small instances of Monitor for TLC: which calls the program makes, with *)
(* which arguments and results.                                            *)
(***************************************************************************)
EXTENDS MonitorInv

\* Argument vectors: all zero, or one argument with the value x.
OneHot(i, x) == [NoArgs EXCEPT ![i] = x]
Vectors(X)   == {NoArgs} \cup {OneHot(i, x) : i \in Arg, x \in X}

\* One call for each way an executor runs, among those that work.
SoundCalls == {"brk", "mmap", "mprotect", "set_tid_address", "close",
               "getpid", "read", "getrandom"}

\* One call for each way again, with those that refuse, run late, or skip.
AllWays == {"mmap", "munmap", "read", "fadvise64", "shutdown", "unknown"}

ZeroArgs == {NoArgs}
\* 2 and 18 are the same int in different registers.
FewArgs  == {NoArgs, OneHot(0, 2), OneHot(0, 18)}
\* Read only and writable, always private.
PermArgs == {OneHot(3, 2), [OneHot(3, 2) EXCEPT ![2] = 2]}

GoodRvals == {0, 2}
RawRvals  == {-11, 0}

\* Every executor, on pairs of such vectors: registers that it takes for the
\* same hold the same values, small and negative ones, sign- and zero-extended,
\* and ones that only an int cuts off.
ASSUME ExecutorsCompare ==
    \A nr \in DOMAIN Scalars, m, r \in Vectors({1, 2, -1, 15, 18}) :
        RegistersAgree(Executor[nr], m, r) => SameScalars(nr, m, r)
=============================================================================
