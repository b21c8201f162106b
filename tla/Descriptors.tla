---------------------------- MODULE Descriptors -----------------------------
(***************************************************************************)
(* Descriptors and file positions of the two processes under the calls     *)
(* that make, use and drop them, beside those of the program when it runs  *)
(* alone.  Some of the calls run in both processes, some in the master     *)
(* only, and some make the replica execute another one: that, and whether  *)
(* the replica gets the master's result, comes from the records of module  *)
(* Executors.  The kernel is modelled here.                                *)
(*                                                                         *)
(* Descriptor 0 is inherited through the monitor, so both processes share  *)
(* its position; the others are sockets.  A call that names a path is      *)
(* refused before it runs, as Compare shows, so no file is opened.         *)
(*                                                                         *)
(* A call takes two steps, the master's and the replica's.  Where both run *)
(* at once their order does not matter, but for lseek on the shared        *)
(* position, of which only the order with the master first is shown.       *)
(***************************************************************************)
EXTENDS Executors, FiniteSets

CONSTANTS
    FileSize,   \* bytes in the file that descriptor 0 may be
    MaxFd,      \* bound: descriptors are 0 .. MaxFd
    MaxPos,     \* bound: positions in the file
    MaxCalls,   \* bound: calls the program makes
    Habits      \* calls besides the plain ones: "seek" in the inherited file
                \* or read it

ASSUME DescriptorsAssumption ==
    /\ FileSize \in Nat
    /\ MaxFd \in Nat
    /\ MaxPos \in Nat
    /\ MaxCalls \in Nat
    /\ Habits \subseteq {"seek"}

VARIABLES
    stdin,      \* what descriptor 0 is: a "stream" or a "file"
    fds,        \* by process: what a descriptor refers to
    file,       \* that file: position and length; a copy for the native run
    pending,    \* the call of which the master's part is over
    rval,       \* the master's result
    saw,        \* by process: the result that the program got
    status,     \* "running", or "killed" when an executor has failed
    calls       \* history: calls made

vars == <<stdin, fds, file, pending, rval, saw, status, calls>>

EBADF  == 9
EFAULT == 14
EMFILE == 24
ESPIPE == 29

Process == {"master", "replica", "native"}
World   == {"monitored", "native"}
Fd      == 0 .. MaxFd
Table   == [Fd -> {"closed", "stdin", "socket", "connection"}]

Request == [nr : {"none"} \cup Implemented, fd : Fd, count : Int,
            whence : {"SEEK_SET", "SEEK_CUR"}]
\* No program sees the error of the replica's replaced write.
Results == {-EBADF, -EMFILE, -ESPIPE, 1} \cup Fd
Idle    == [nr |-> "none", fd |-> 0, count |-> 0, whence |-> "SEEK_SET"]

TypeOK ==
    /\ stdin \in {"stream", "file"}
    /\ fds \in [Process -> Table]
    /\ file \in [World -> [pos : Nat, len : Nat]]
    /\ pending \in Request
    /\ rval \in Int
    /\ saw \in [Process -> Results]
    /\ status \in {"running", "killed"}
    /\ calls \in 0 .. MaxCalls

Init ==
    /\ stdin \in {"stream", "file"}
    /\ fds = [v \in Process |->
                [d \in Fd |-> IF d = 0 THEN "stdin" ELSE "closed"]]
    /\ file = [w \in World |-> [pos |-> 0, len |-> FileSize]]
    /\ pending = Idle
    /\ rval = 0
    /\ saw = [v \in Process |-> 0]
    /\ status = "running"
    /\ calls = 0

-----------------------------------------------------------------------------
(* The kernel: table, file and result after a call                         *)

After(t, f, ret)   == [table |-> t, file |-> f, ret |-> ret]
Fails(t, f, errno) == After(t, f, -errno)
At(f, pos)         == [f EXCEPT !.pos = pos, !.len = IF pos > @ THEN pos ELSE @]

\* The lowest free descriptor is taken.
NewSocket(t, f, kind) ==
    LET free == {d \in Fd : t[d] = "closed"}
        d    == CHOOSE x \in free : \A y \in free : x <= y
    IN  IF free = {} THEN Fails(t, f, EMFILE)
                     ELSE After([t EXCEPT ![d] = kind], f, d)

\* As many bytes of the file as there are.
Available(f, pos, count) ==
    IF pos + count <= f.len THEN count ELSE IF pos < f.len THEN f.len - pos ELSE 0

OnFile(t, f, c) ==
    LET n  == Available(f, f.pos, c.count)
        to == IF c.whence = "SEEK_CUR" THEN f.pos + c.count ELSE c.count
    IN  CASE c.nr = "read"    -> After(t, At(f, f.pos + n), n)
          [] c.nr = "write"   -> After(t, At(f, f.pos + c.count), c.count)
          [] c.nr = "pread64" -> After(t, f, Available(f, 0, c.count))
          [] c.nr = "lseek"   -> After(t, [f EXCEPT !.pos = to], to)

\* A stream or a socket delivers and takes all that is asked.
OnStream(t, f, c) ==
    IF c.nr \in {"read", "write"} THEN After(t, f, c.count)
                                  ELSE Fails(t, f, ESPIPE)

Kernel(t, f, c) ==
    CASE c.nr = "getpid" -> After(t, f, 1)
      [] c.nr = "socket" -> NewSocket(t, f, "socket")
      [] c.nr \notin {"getpid", "socket"} /\ t[c.fd] = "closed" ->
             Fails(t, f, EBADF)
      [] c.nr = "close" /\ t[c.fd] # "closed" ->
             After([t EXCEPT ![c.fd] = "closed"], f, 0)
      [] c.nr = "accept4" /\ t[c.fd] = "socket" -> NewSocket(t, f, "connection")
      [] c.nr \in {"read", "write", "pread64", "lseek"} /\ t[c.fd] # "closed" ->
             IF t[c.fd] = "stdin" /\ stdin = "file" THEN OnFile(t, f, c)
                                                    ELSE OnStream(t, f, c)

-----------------------------------------------------------------------------
(* The program                                                             *)

Holds(what)  == {d \in Fd : fds["master"][d] = what}
OldFile      == IF stdin = "file" THEN Holds("stdin") ELSE {}
Streams      == (Holds("stdin") \ OldFile) \cup Holds("socket") \cup Holds("connection")
Uses(nr, D)  == {[Idle EXCEPT !.nr = nr, !.fd = d] : d \in D}
Moves(nr, D) == {[c EXCEPT !.count = 1] : c \in Uses(nr, D)}
Seeking(D)   == IF "seek" \in Habits THEN D ELSE {}

NextCalls ==
    {[Idle EXCEPT !.nr = "socket"]}
    \cup Uses("close", Fd)
    \cup Uses("accept4", Holds("socket"))
    \cup Moves("read", Streams \cup Seeking(OldFile))
    \cup Moves("write", Streams \cup OldFile)
    \cup Moves("pread64", OldFile)
    \cup Uses("lseek", (Fd \ OldFile) \cup Seeking(OldFile))

\* What both programs have seen is the same: they go on alike.
SameView == saw["master"] = saw["replica"]

-----------------------------------------------------------------------------
(* The executors                                                           *)

E == Executor[pending.nr]

\* The master comes to its exit, and the executor copies what it received.
\* The program alone makes the call too.
RunMaster(c) ==
    /\ pending = Idle
    /\ status = "running"
    /\ SameView
    /\ calls < MaxCalls
    /\ LET k == Kernel(fds["master"], file["monitored"], c)
           n == Kernel(fds["native"], file["native"], c)
       IN  /\ {k.file.pos, n.file.pos} \subseteq 0 .. MaxPos
           /\ fds' = [fds EXCEPT !["master"] = k.table, !["native"] = n.table]
           /\ file' = [monitored |-> k.file, native |-> n.file]
           /\ rval' = k.ret
           /\ saw' = [saw EXCEPT !["master"] = k.ret, !["native"] = n.ret]
           /\ status' = IF CanCopy(Executor[c.nr], k.ret) THEN "running"
                                                          ELSE "killed"
    /\ pending' = c
    /\ calls' = calls + 1
    /\ UNCHANGED stdin

\* Mutant of Replacement: write sets its substitute in the replica.
Position == [pending EXCEPT !.nr = "lseek", !.count = rval,
                            !.whence = "SEEK_CUR"]
ReplacementSeek ==
    CASE E.reargs                   -> Position
      [] E.sub = "getpid"           -> [pending EXCEPT !.nr = "getpid"]
      [] E.sub = "own" /\ ~E.reargs -> pending

\* What the replica executes: its own call or a substitute.  The arguments of
\* a read or write become the descriptor, the master's result and SEEK_CUR.
Replacement ==
    CASE E.sub = "getpid" -> [pending EXCEPT !.nr = "getpid"]
      [] E.sub = "lseek"  -> [pending EXCEPT !.nr = "lseek", !.count = rval,
                                             !.whence = "SEEK_CUR"]
      [] E.sub = "own"    -> pending

\* write has its arguments overwritten and keeps its number: it gets an
\* address at which there is nothing.
Misaddressed(c) == c.nr = "write" /\ E.reargs

\* Mutant of RunReplica: it keeps its own result.
RunReplicaNoResult ==
    /\ pending # Idle
    /\ status = "running"
    /\ LET f == file["monitored"]
           k == IF Misaddressed(Replacement) THEN Fails(fds["replica"], f, EFAULT)
                ELSE Kernel(fds["replica"], f, Replacement)
       IN  /\ fds' = [fds EXCEPT !["replica"] = k.table]
           /\ file' = [file EXCEPT !["monitored"] = k.file]
           /\ saw' = [saw EXCEPT !["replica"] = k.ret]
    /\ pending' = Idle
    /\ UNCHANGED <<stdin, rval, status, calls>>

RunReplica ==
    /\ pending # Idle
    /\ status = "running"
    /\ LET f == file["monitored"]
           k == IF Misaddressed(Replacement) THEN Fails(fds["replica"], f, EFAULT)
                ELSE Kernel(fds["replica"], f, Replacement)
       IN  /\ fds' = [fds EXCEPT !["replica"] = k.table]
           /\ file' = [file EXCEPT !["monitored"] = k.file]
           /\ saw' = [saw EXCEPT !["replica"] = IF E.ret THEN rval ELSE k.ret]
    /\ pending' = Idle
    /\ UNCHANGED <<stdin, rval, status, calls>>

Finished ==
    /\ \/ status = "killed"
       \/ pending = Idle /\ (calls = MaxCalls \/ ~SameView)
    /\ UNCHANGED vars

Next == (\E c \in NextCalls : RunMaster(c)) \/ RunReplica \/ Finished

Spec == Init /\ [][Next]_vars

-----------------------------------------------------------------------------
BetweenCalls == pending = Idle

\* Every call has the result in both variants that it has in the program when
\* it runs alone, also a call that each executes on what the earlier ones have
\* left it: unless a connection is open, of which accept4 gives the replica the
\* number only.  (monitor.c, runMasterReplicateRet, runBothCopyMasterRet)
Transparent ==
    BetweenCalls /\ Holds("connection") = {} =>
        \A v \in Process : saw[v] = saw["native"]

\* A descriptor refers to the same in both variants as in the program alone,
\* or to nothing, although some results are the master's only; a connection is
\* closed in the replica, and nothing takes its number there as long as the
\* program has seen no difference.  (accept4.c, close.c)
FdsAlike ==
    BetweenCalls /\ SameView =>
        \A d \in Fd :
            /\ fds["master"][d] = fds["native"][d]
            /\ fds["replica"][d] = IF fds["native"][d] = "connection"
                                   THEN "closed" ELSE fds["native"][d]

\* The file that the variants have inherited is read, written and moved in
\* once for each call, not once by each process.  (read.c, write.c)
FileOnce ==
    BetweenCalls => file["monitored"] = file["native"]
=============================================================================
