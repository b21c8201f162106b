# A verification of AuroraMVEE

AuroraMVEE runs two diversified variants of one program in lockstep under
`ptrace` and compares what they ask of the kernel. This directory holds TLA+
models of the monitor, TLC runs over small instances of them, and proofs for all
instances. Paths below are relative to `src/Monitor/src`.

## The system

| Part | State | Operations |
|---|---|---|
| Event loop (`monitor.c`) | the two `variant` structures, locals of `main` | `main`, `processVariantEvent`, `processSyscallSync` |
| Tracing of a variant (`variant.c`) | `state`, `syscallNum`, `syscallInfo` of a variant; two transfer buffers | start, wait, resume from wait, resume from exit, get syscall information, substitute a call, set a result, read and write memory, compare strings and memory |
| Executors (`sys/*.c`) | none | one function per system call |
| Mapping table (`mappings.c`) | a linked list | add, remove, find |
| Security policy (`security_manager.c`) | none | `checkMMapPerms` |
| A variant and the kernel (external) | where the process stands, its registers, its report to `waitpid`; its memory, its address space, its descriptors | enter a call, leave it, end, be killed, be signalled |

The monitor is one thread. It reads reports with `waitpid` and lets processes
run with `PTRACE_SYSCALL`; between the two, the variants run by themselves, in
parallel. A variant stops at the entry and at the exit of each call.

1. A variant that stops at an entry waits (`VSTATE_WAIT`) until the other comes
   to the entry of a call with the same number `syscallNum`. The second one to
   come makes the monitor compare the calls.
2. An executor compares some arguments, and refuses, or lets the variants
   through in one of a few ways: both at once; the master to its exit and then
   the replica, often with a harmless call in the place of its own and with the
   master's result; or (`mmap`) the master to its exit and then both.
3. Exits that no executor has waited for come back to the event loop, which
   counts the call and resumes the variant. So a call is counted by an executor
   for one variant and by the loop for the other, and a fast variant may stand at
   its next call when the slow one's last exit is collected.

What is hard: the two orders of arrival and of collection; records about the
partner that are older than the partner's last step; variants that die or are
signalled between any two steps; several wrong turns in single executors. The
list with its lines is `hazards` in `PROJECT.json`.

What makes each part correct:

* event loop: no call of a variant runs that the other has not asked for; calls
  that run are equivalent; the bookkeeping never contradicts itself; everything
  ends; the death of a variant ends the whole;
* executors: master before replica, outside effects once, one result for both;
* transfer and comparison of memory: what is reported as copied is copied, nothing
  else is changed in a variant or in the monitor, an outcome is that of the
  memory and not of earlier contents of the buffers, every loop ends;
* mapping table and policy: the table says of the address space what the policy
  needs to know of it, after any sequence of calls; no shared memory is writable;
* executors together with the kernel: two processes, of which one executes
  other calls than the program, see what the program alone would see.

## Modules

| Module | Models |
|---|---|
| `Mappings` | `mappings.c`, `security_manager.c`: operators on the list as a sequence |
| `Executors` | `sys/*.c` and the two helpers of `variant.c` they share: one record per executor |
| `Monitor` | `monitor.c`, `variant.c`, the traced processes: all state, one action per step |
| `Lockstep` | nothing of the code: what the monitor promises, as a specification |
| `MonitorInv` | the inductive invariants of `Monitor`: `IInv`, and what the properties of calls need besides |
| `MCMonitor` | instances of `Monitor` for TLC |
| `VariantMem` | a word of a variant's memory under `PTRACE_PEEKDATA` and `PTRACE_POKEDATA` |
| `Transfer`, `MCTransfer` | `readVariantMem`, `writeVariantMem`, `transferVariantMem`, word by word |
| `Compare`, `MCCompare` | `variantStrCmp`, `variantMemCmp`, the comparison of `sys/newfstatat.c` |
| `AddressSpace` | `sys/mmap.c`, `sys/munmap.c`, `sys/mprotect.c` against what the kernel maps; uses `Mappings` |
| `Descriptors` | descriptors and file positions under the executors; uses `Executors` |
| `MappingsProofs` | lemmas on the table: adding, removing and finding; least elements |
| `LockstepProofs` | `Monitor`: types, `IInv`, `Rendezvous`, `AgreedCalls`, `MasterFirst`, and that it implements `Lockstep` |
| `CallProofs` | `Monitor`: arguments, results and effects of calls, no forgotten variant |
| `CalmProofs` | `Monitor`: no false alarm |
| `AddressSpaceProofs`, `DescriptorsProofs` | all properties of `AddressSpace`, of `Descriptors` |
| `TransferProofs`, `CompareProofs` | all safety properties of `Transfer`, of `Compare` |

### Executors

The executors share one shape, so an executor is a record (`Executor["read"]`)
that says which arguments it compares and how, how it runs the call, what the
replica executes instead, whether the result is replicated, and where it departs
from the others: `late` (fadvise64 and rseq run before they refuse), `lax`
(access drops a failure), `fin = "wait"` (getrandom does not count the call),
`sub = "held"` (pselect6 does not resume the replica). `processSyscallSync`'s switch
is the domain of `Executor`.

An argument is the 64-bit register, a signed integer. Some executors narrow the
master's register to `int` or `socklen_t` first, some both (`narrow`, `socklen`,
`int`), so an `int` is a register's lower half, four bits wide here (`AsInt`): 2 and
18 are the same `int` in different registers, and 15 is the `int` -1,
zero-extended. Where the executor dereferences the argument, it stands for the content
of the memory. The outcome of `variantStrCmp` is that of the loop as it is written: an
error for every string that ends within the buffer. That is not what it promises
(run `strings`).

### Monitor

| Variables | In the code |
|---|---|
| `proc`, `news`, `regs`, `rax` | the processes: where each stands, is there a report to collect, its call, its result |
| `state`, `syscallNum`, `syscallInfo` | the fields of `struct variant` |
| `mappings` | the list of `mappings.c` |
| `pc`, `who`, `status`, `exec`, `rval` | where the monitor is; what `waitpid` reported; the call in an executor; the master's result |
| `outcome` | which of the exits of `main` was taken |
| `issued`, `released`, `call` | history: calls made, calls let through, the last call |

The monitor blocks in `waitpid` only, so an action runs from one wait to the next.
It is split where a report has been collected and not yet handled (`pc =
"event"`, `"gotMaster"`, `"gotReplica"`), since the variant that has been reported
may be killed there. `Collect` is `waitpid`; `WaitAnyVariant`, `WaitMaster` and
`WaitReplica` are its three callers. `AwaitPartner`, `ResumeFromExit`,
`InvalidState` are the branches of `processVariantEvent`; `RefuseCall`, `RunBoth`,
`RunBothAsAtExit`, `RunMaster`, `RefuseCallLate` the ways an executor begins;
`RecordMapping`, `RunReplica`, `TransferFailed`, `VariantLost`, `FinishCall` the
ways it goes on. `Exit` is the end of the monitor: variants that live are
detached unless they have been killed.

External actions: `Issue` and `KernelReturn` are the program and the kernel,
`Kill` a fatal signal at any point, `Signal` any other signal to a running
variant. `Faults` says which of them, and whether a variant may fail to start;
`Divergence` says how the variants' calls may differ.

### Lockstep

The promise, without the monitor's records: two variants ask for calls one at a
time; a call is let through only when both have asked for their k-th one and the
requests are compatible; the replica is never let through before a master that
lives; a variant may be lost and the whole may end at any time, and nothing is
let through to a lost variant or after the end. `Monitor!ImplementsLockstep`
instantiates it with `asked <- call`, `over <- pc = "exited"` and `lost <-` the
dead variants.

### Transfer and Compare

`Monitor` takes a transfer and a comparison for one step with one of a few
outcomes (`FitsBuffer`, `variantStrCmp`, `variantMemCmp`, `PrefixMatches` of
`Executors`). These two modules have the loops themselves, in the build that
`compile_options.h` selects (`USE_PTRACE_TRANSFER`), and `FitsOutcome`,
`PrefixOutcome` and `MemOutcome` say that they come to these outcomes, of which
`PrefixMatches` gives the cases that its few contents can be in: equal, the master's
empty, and one (3) that begins with another (2). For `variantStrCmp` the lemma
`StrRecordCorrect` says it, and no run: what the loop does is not what its comment
says it returns (`StrDocumented`). `StrSound` is the part that holds, that what
it does not report as an error it has compared.

A memory is a function from the offsets of its mapped bytes, so memory may end
within a word. `Peek` of a word that is not mapped to its end gives -1, which the
code takes for data; a process that has been killed (`Die`, between any two
words) has no memory. In `Transfer`, `local` is the monitor's buffer and one word
behind it, so that a write beyond it shows; `size` is the argument after its
conversion to `size_t` (`SIZE_MOD`), `request` before. An iteration of a loop is
an action. In `Compare`, `StartStrCmp`, `StartFstatat` and `MemCmp` are calls,
one after the other over the same static buffers; `Longer`, `Ended` and
`LoopOver` are the branches of the two string loops, which differ in first size,
increase, and in what they take the end of the string for.

### AddressSpace

`space` is what the kernel has mapped, by page; a page knows the address its
`mmap` returned. `mappings` is the table, changed with the operators of
`Mappings`. An executor is one step: the question to table and policy (`Permits`,
which `Monitor` asks too), the kernel, the record. The variants agree here; the
order of the processes is in `Monitor`. The length recorded is 0
(`RecordedLength`): `sys/mmap.c:47` reads it from the union that
`requestSyscallInfo` has just zeroed and filled with the exit. `Habits` says what
the program does beyond mapping where the kernel likes and unmapping and
protecting what it has mapped: protect a part, protect several mappings at once,
map at an address of its choice.

### Descriptors

The descriptor tables of master, replica and of the program when it runs alone
(`native`), and the position of the file that may be descriptor 0. What runs in
the replica and whether it gets the master's result is read off the records of
`Executors` (`Replacement`, `E.ret`), so the records are checked against the
kernel here. Descriptor 0 is inherited through the monitor: both variants share
its position. Other files do not occur, because `openat` is refused for every
readable path (run `strings`). A call is two steps, the master's
and the replica's. A connection of `accept4` exists in the master only, so
`Transparent` speaks of moments without one, and `FdsAlike` says what the replica
has instead. `Habits` adds reads and seeks on an inherited file.

## Runs

Every call is of the program that both variants run. In the runs of `Monitor`,
after `MaxCalls` of them it calls `exit_group`.

| Run | Instance | Shows |
|---|---|---|
| `lockstep` | 8 calls, one per way an executor runs; read-only and writable private mappings; 3 calls; identical variants, no faults | `TypeOK`, `Accounted`, `SameResult`, `PartnerWaiting`, `NoFalseAlarm`, `Terminates` |
| `faults` | 6 calls including unknown and refusing ones; registers that differ, one pair of them in the upper half only; 2 calls; variants that diverge in any way, fail to start, are killed, are signalled | `IInv`, `Rendezvous`, `AgreedCalls`, `ScalarsAgree`, `MasterOnly`, `MasterFirst`, `DeathNoticed`, `ImplementsLockstep` |
| `pselect6`, `orphan` | one call each | what the code does against what its comments and tests say; see below |
| `transfer` | sizes from -11 to beyond the buffer; memories that end at 0, 4, 8, 13, 16, 32; deaths | `TypeOK`, `CopiesWords`, `LeavesRest`, `StaysLocal`, `ReadsWords`, `FitsOutcome`, `Ends` |
| `compare` | any two comparisons of ten memories | `TypeOK`, `StrSound`, `PrefixOutcome`, `MemOutcome`, `Ends` |
| `strings` | one comparison of the same memories | `StrDocumented` is violated; see below |
| `address_space` | 4 pages, 5 calls, whole mappings | `TypeOK`, `NoSharedWritable`, `TableExact`, `JustRefusal` |
| `descriptors` | 3 descriptors, 6 calls; a file of 3 bytes or a stream | `TypeOK`, `Transparent`, `FdsAlike`, `FileOnce` |
| `tail` | memory that is mapped throughout | see below |
| `policy` | all three habits of the program, 3 calls | see below |
| `inherited` | a program that reads the file it has inherited | see below |

Bounds. `MaxCalls = 3` lets one variant be at call k+1 while the other's call k
is not counted and call k-1 has left its traces in the records; the numbers the
code compares are at most one apart. `BUF_SIZE = 2` puts results on both sides of
the buffer's size; `RawRvals` has an error as the kernel returns it. `AllWays` has one
call for each way an executor runs, and an unknown one. `FewArgs` has zero and two
registers that hold the same `int`.

`ScalarsAgree` is about the values that the 33 calls with any take by value
(`Scalars`), without those that no executor compares. `Uncompared` names the latter:
`openat`'s mode if the master's is 0 (`sys/openat.c:23`), `how` of `rt_sigprocmask` if
the master sets no mask, the size of that mask, the address of `arch_prctl`, the
process of `prlimit64`, the sizes of `rt_sigaction` and `set_robust_list`, and all of
`fadvise64` and `rseq`, which run before they are compared. `faults` has six of the
executors in it. `MCMonitor` asks the comparison of every one about every pair of
vectors with one non-zero position, as an assumption that TLC evaluates
(`ExecutorsCompare`).

In `transfer`, a buffer of three words has a first, a middle and a last word, and
a tail of every length; `SIZE_MOD` is beyond the buffer, so a converted error
is too. Ends of memory fall before, at, within and behind a word. `Bytes` tells
every byte of every memory apart, so a byte in a wrong place shows. In `compare`,
`CHUNK = 4` and `FSTAT_CHUNK = 3` with `BUF_SIZE = 16` give several iterations
(in the code 100 and 50), reads that end within a word, and a loop that runs over; two calls let the second
find what the first has left. In `address_space`, 4 pages, one of them the
loader's, hold two mappings side by side and a third one in the place of an
unmapped one; 5 calls map, protect, unmap and map again. In `descriptors`,
`MaxFd = 2` lets descriptors run out and be used again, `MaxPos` and `FileSize`
let the position pass the end of the file; `SameView` stops a program whose
variants have seen different results, which by `Transparent` happens with an open
connection only.

`CHECK_DEADLOCK FALSE` in `faults` and `pselect6`: the monitor really can
wait for ever there. In `faults` it does when a variant fails to start: its only
report is dropped in `initVariant`, and the other variant's first call waits for a
partner that never comes. `DeathNoticed` speaks of deaths after the start.

Fairness. Weak fairness of the monitor's next step and of each variant: the
scheduler runs every runnable process, and every call returns. Nothing is assumed
about faults. A call that blocks for ever, as `accept4` may, blocks the whole;
`Terminates` is about calls that return. In `Transfer` and `Compare`, weak
fairness of the monitor's next step, which is the monitor's own computation.
`AddressSpace` and `Descriptors` state safety only.

### Disagreements

Shown by runs that find a property violated:

* `pselect6`: `sys/pselect6.c:54` waits for a replica that it has not resumed.
* `orphan`: the second `PTRACE_SETOPTIONS` (`variant.c:76`) replaces
  `PTRACE_O_EXITKILL`; a variant outlives a monitor that leaves with Invalid State.
* `tail`: `variant.c:283` takes the last word from an index that counts words by a
  number of bytes. Sizes that are multiples of 8 or less than 8 are copied well
  (`CopiesWords`).
* `policy`: shared memory becomes writable. The table knows start addresses only
  (`sys/mmap.c:47`), so `mprotect` of a part of a mapping meets no policy; `mprotect`
  asks for its first address only (`sys/mprotect.c:26`); and the first of two
  entries for one address answers (`mappings.c:58`). `Habits` with one element shows
  each by itself.
* `inherited`: `sys/read.c:55` moves a position that both variants share.
* `strings`: `variantStrCmp` returns -1 for every string that ends within what has been
  read (`variant.c:364`), where its comment has 0 for equal ones and 1 for others. So
  `openat`, `unlink` and four others refuse every path that can be read, though a test has
  the monitor run `cat` on a file.

Stated by properties that hold:

* `newfstatat` accepts a path of the replica that begins with the master's
  (`sys/newfstatat.c:51`): `PrefixOutcome`.
* After `accept4` (`sys/accept4.c:42`) the replica has a number and no descriptor:
  `FdsAlike`, and the condition of `Transparent`.

Left out of the instances on which a property holds, because it fails with them.
Adding the call, argument or value to the instance shows it:

| Left out | Fails | Cause |
|---|---|---|
| `shutdown` from `lockstep` | `PartnerWaiting` | `sys/shutdown.c:18` resumes from the entry with `resumeVariantFromExit`: the call is counted twice and the variants stay marked as waiting |
| `read` with `-EAGAIN` from `lockstep` | `NoFalseAlarm` | `sys/read.c:37` takes the error for a size |
| `read` of the `int` -1, zero-extended (15), from `lockstep` | `NoFalseAlarm` | `sys/read.c:14` compares an `int` with a 64-bit register |
| `openat` from `lockstep` | `NoFalseAlarm` | `variant.c:364`, as above |
| `access` from `faults` | `DeathNoticed`, and `Accounted` on that instance | `sys/access.c:20` drops the loss of a variant |
| `write` from `faults` | `MasterOnly` | `sys/write.c:46` sets the substitute call in the master; the replica executes its own `write`, with the arguments of an `lseek` |
| short buffers at the end of mapped memory from `CopiesWords` | `CopiesWords` | `variant.c:236` takes a failure to read for the data -1 |
| `LOCAL_SIZE = 4` with a size of 4 from `transfer` | `StaysLocal` | `sys/set_tid_address.c:17` reads a whole word into four bytes, and so do `accept4` and `getsockname` |

## Proofs

Every invariant and action property that a passing run checks is a theorem. Those on
`Monitor` hold for all calls, argument vectors, results, numbers of calls, faults
and ways to diverge, those on `Transfer` and `Compare` for all sizes, buffers,
memories and deaths, those on `AddressSpace` and `Descriptors` for all sizes of the
space, the tables and the file and any number of calls. They assume the `ASSUME`s of
the modules, which type the constants; `TransferAssumption` also says that the
buffer is smaller than the range of `size_t`, and that a negative request becomes a
size beyond the buffer, as every negative `int` does, and `CompareAssumption` that the
buffer is a multiple of `CHUNK` and larger, as 10000000 is of 100. The table names
what else a theorem assumes. None uses fairness.

| Theorem | States |
|---|---|
| `TypeCorrect` | `Spec => []TypeOK` |
| `InvCorrect` | `Spec => []IInv` |
| `RendezvousCorrect` | `Spec => []Rendezvous` |
| `AgreedCorrect` | `Spec => []AgreedCalls` |
| `MasterFirstCorrect` | `Spec => MasterFirst` |
| `RefinementCorrect` | `Spec => ImplementsLockstep` |
| `TransferTypeCorrect` | `Spec => []TypeOK` of `Transfer` |
| `StaysLocalCorrect` | `Spec => []StaysLocal`, if `BUF_SIZE` is a multiple of 8 and the local buffer is no smaller |
| `LeavesRestCorrect` | `Spec => []LeavesRest` |
| `ReadsWordsCorrect` | `Spec => []ReadsWords` |
| `CopiesWordsCorrect` | `Spec => []CopiesWords`, if the local buffer is no smaller than `BUF_SIZE` |
| `FitsOutcomeCorrect` | `Spec => []FitsOutcome` |
| `ScalarsAgreeCorrect` | `Spec => []ScalarsAgree`, which leaves out what `Uncompared` lists |
| `MasterOnlyCorrect` | `Spec => []MasterOnly`, without `write` in `Calls` |
| `AccountedCorrect` | `Spec => []Accounted`, without `access` in `Calls` |
| `PartnerWaitingCorrect` | `Spec => []PartnerWaiting`, without `shutdown` in `Calls` |
| `SameResultCorrect` | `Spec => []SameResult` |
| `NoFalseAlarmCorrect` | `Spec => []NoFalseAlarm`, if `Undisturbed` |
| `AddressTypeCorrect` | `Spec => []TypeOK` of `AddressSpace` |
| `TableExactCorrect`, `JustRefusalCorrect` | `Spec => []TableExact`, `Spec => []JustRefusal`, if the program does not choose addresses (`"fixed" \notin Habits`) |
| `NoSharedWritableCorrect` | `Spec => []NoSharedWritable`, if `Habits = {}` |
| `CompareTypeCorrect` | `Spec => []TypeOK` of `Compare` |
| `StrSoundCorrect`, `MemOutcomeCorrect` | `Spec => []StrSound`, `Spec => []MemOutcome` |
| `PrefixOutcomeCorrect` | `Spec => []PrefixOutcome`, if `FSTAT_CHUNK <= CHUNK` and no byte is 255 (`NoMinus1`) |
| `DescriptorsTypeCorrect` | `Spec => []TypeOK` of `Descriptors` |
| `FdsAlikeCorrect` | `Spec => []FdsAlike` |
| `TransparentCorrect`, `FileOnceCorrect` | `Spec => []Transparent`, `Spec => []FileOnce`, if `Habits = {}` |

On the hypotheses:

* The two on `Transfer` hold of `bufA`, of 10000000 bytes. The local `int`s of four
  bytes that some executors read into do not meet them.
* A call or a habit is left out where the property is false with it: TLC finds a
  violation when it is added to the instance, and the cause is one of the
  disagreements above.
* `Undisturbed`: no faults and no divergence; every comparison accepts equal
  arguments and every result fits its buffer, for the `Calls`, `Args` and `Rvals` of
  the instance; no call without an executor, no `munmap`, no `shutdown`; private
  mappings only. The constants of the run `lockstep` meet it. The comparisons that
  refuse equal arguments, and the results that do not fit, are in the table above.
* `FSTAT_CHUNK <= CHUNK` is 50 and 100 in the code. A path shorter than the buffer by
  `CHUNK` (`IsString`) then ends before either loop is over. A byte 255, which does not
  occur in UTF-8, is for the monitor the same as memory that is not there.

`Rendezvous` is not inductive: the monitor decides from `syscallNum`, `state` and
`syscallInfo`, which it wrote at earlier stops. `IInv` says why those records can
be relied on:

* `Counting`: a variant before its entry stop or past it has been let through all
  its calls, one at the entry all but the last.
* `InStep`: in the main loop, two live variants have been let through equally
  many calls, and their numbers agree once calls under way have been counted
  (`Due`). Which of them has been counted by an executor already does not matter.
* `WaitRecord`, `WaitNumber`: where the records say that a variant waits at an
  entry, they describe the call it made; and a partner can only reach its number
  while it still waits there. So a left-over `VSTATE_WAIT`, that of `shutdown`
  too, can end a run but never lets a call through.
* `InExecutor`, `ExecutorAtMaster`, `ExecutorAtReplica`: in an executor both
  variants are in one and the same call, at the places the executor expects, or
  dead.
* `AtEvent`, `Reports`: what `waitpid` has reported stays true until the monitor
  acts on it, unless the variant is killed.

The lemma `Meeting` is the heart of it. When `processVariantEvent` finds the
numbers equal, the partner marked as waiting and the two records of one call, then
both variants have made equally many calls, neither has been let through the
last one, and the two records are of these calls. The executors start from there:
`ComparedCalls` turns their comparison of records into one of the calls made, and
the preservation of `IInv` is one lemma per action. `AgreedCalls` and
`MasterFirst` follow with one case per action, and so does the refinement:
`Unseen`, `LoseStep`, `StopStep`, `AskStep` and `LetThroughStep` are the ways in
which a step of the monitor maps to a step of `Lockstep` or to a stutter.

The properties of calls follow from `IInv` with little more (`CallInv` adds `CallsMade`
and `ReplicaInCall`), because it places both variants in one call while an executor
runs:

* `CallsMade`, `ReplicaInCall`: the call in the executor is the replica's, also when the
  master has died and its record is gone. With a lemma on what each executor compares
  of the values its call takes (`ScalarsCompared`), by which registers that it accepts
  hold the same values (`AcceptedScalars`, with `Narrowing` for those cut to `int`), and
  one that every call with an effect outside but `write` is replaced in the replica
  (`ExecutorsRun`), they give `ScalarsAgree` and `MasterOnly`.
* `CallResult`, `MainResult`: the result the executor keeps is the one in the master's
  register, and at the end of the executor both variants are past the exit, so no
  later step of the loop changes one of the two.
* `MarkedWaiting`: a variant that is marked stands at its entry or has died. No executor
  but `shutdown`'s resumes a variant and leaves the mark. `Accounted` rests on `CallInv`
  and on `ExecutorsRun`: no executor but `access`'s drops the loss of a variant.
* `Calm`, for `NoFalseAlarm`: after equally many calls the variants are at the same
  call (`SameCalls`); nothing but the last call ends one, and the other makes no other call
  after it (`Endings`); they are let through evenly even then (`EvenlyReleased`), so
  that the records of two variants that meet are of one call, which `Undisturbed`
  says the executor accepts; the record of a marked variant is that of its entry
  (`MarkedRecord`); the table holds private mappings only (`PrivateTable`), of which
  `mprotect` and `mmap` refuse none.

In `AddressSpace`, `TableInv` is `Placed` (the pages of a mapping lie behind its first
one, which is one of them), `Recorded` (a mapping has one entry) and `Entries` (an
entry has length 0, and is that of a living mapping with its flags). An entry of length
0 answers for its own address only, so a lookup at a mapping's start finds its entry
and no other: that is why the table is exact although its lengths are wrong, and why
an `mprotect` in the middle of a mapping is not refused.

In `Compare`, the loop reads from the start each time, so what it has in the buffer is
the memory's beginning: `NoEndSeen` says that of memory that cannot be read the buffer is
full of -1 up to the last size, `EndSeen` that of a string the end is seen before the
buffer is over, and that then the buffer holds the string and nothing of an earlier
comparison. `LongSeen` says of any memory that as long as `variantStrCmp` goes on there is
no zero in the bytes that its last reads share, so that `strncmp` compares all of
them: `StrSound`. `InLoops` has the sizes as multiples of `CHUNK`, from which `variantStrCmp`
never reads beyond the buffer; `newfstatat` goes over it by less than `FSTAT_CHUNK`.

In `Descriptors`, `DescriptorsInv` says that the kernel did for the master what it did
for the program alone (`MasterAsNative`), and between the two steps of a call
(`Underway`) what the replica will find: for `socket`, the master's new descriptor is free
in the replica, and a lower one is free there only where the master has a connection
(`SocketMade`). So a replica that takes another number gets another result, which
the program sees, and with no connection open it cannot: that is `Transparent`.

In `Transfer`, none but `FitsOutcome` and the types can be read off a single step:

* `InPlace`: while reading, `moved` is a multiple of the word, or the size has been
  reached. Then the word read next begins where the last one ended and, in a buffer
  of whole words, ends within it: `StaysLocal`.
* `ReadSoFar`: while reading, the buffer is what `ReadInto` says of the words
  before `moved`, and the rest as it was. `ReadsWords` is the case where all words
  have been read; `OneMore` is the arithmetic of one word.
* `Written`: while writing, the bytes before `moved` are those of the buffer. With
  `ReadsWords`, and `ReadIsMemory` for mapped words, it gives `CopiesWords`. It
  needs the hypothesis on sizes: the last partial word is taken from the wrong place.
* `LeavesRest` holds because a write of less than a word keeps the rest of the word
  that it first reads from the destination (which is why it asks for that word to be
  mapped), and every other word that is written ends within the size: `PokeBelow`.
* `Decided`: the size compared with the buffer is decided once, before the read.
  `Conversion` says that a negative number never fits once it is a `size_t`.

TLC has checked the inductive invariants before they were proved: `IInv` in `faults`,
the additions of `MonitorInv` on the instances of `lockstep` and `faults`
(those for `PartnerWaiting` without `shutdown`), `TableInv` on `address_space`,
`CompareInv` on `compare`, `DescriptorsInv` on `descriptors` and `inherited`.

Only model-checked: the liveness properties (`Terminates`, `DeathNoticed`, `Ends`),
which are out of the prover's reach, and the violations above, which are about single
instances. What `strnlen` and the loops return is proved as an invariant of their
steps, not by induction over the memory.

## Plan

Done: the modules above, their runs, and the theorems above. What may follow:

1. The steps of `Terminates` that are safety: a measure that no step of the monitor
   raises, from the numbers of calls left and the places of the variants.
2. A common description of `Compare` and `Transfer` as implementations of the
   one-step outcomes in `Executors`, by `INSTANCE`, in place of `MemOutcome`,
   `PrefixOutcome`, `FitsOutcome` and `StrRecordCorrect`.

## Not modelled

The direct transfer between variants, the transfer by `process_vm_readv` and the capability drop (compiled out by
`compile_options.h`), debug output and syscall names, CPU pinning beyond a start
that may fail, the linker script, the test programs. Threads of a variant: the
monitor follows one process each (`waitpid` of any other pid ends it). Files that the
program opens: `openat` is refused for every path that can be read,
so their descriptors never come to be. The argument registers that `read` and
`write` leave changed in the replica (`sys/read.c:51`): whether a program looks at
them after the call is its compiler's choice. Results beyond the range of `int`
(`variant.c:170`): no call that goes through the helper returns one, `lseek` beyond
2 GiB apart. In `AddressSpace`: `brk`, `mremap`, unmapping a part, which the code
says it does not implement (`sys/munmap.c:27`), and the addresses of the replica,
which the monitor does not record. In `Descriptors`: where a substitute runs at
the same time as a call of the other variant, only the order with the master
first.
