----------------------------- MODULE MonitorInv -----------------------------
(***************************************************************************)
(* The inductive invariant behind the lockstep: why the monitor never acts *)
(* on a variant that is not where its records say.                         *)
(***************************************************************************)
EXTENDS Monitor

Main   == {"waitAny", "event"}
InCall == {"waitMaster", "gotMaster", "waitReplica", "gotReplica"}

\* A variant is let through a call once, after it has made it.
Counting ==
    \A v \in Variant :
        /\ proc[v] \in {"none", "user", "signal", "kernel", "exit"} =>
               released[v] = issued[v]
        /\ proc[v] = "entry" => issued[v] = released[v] + 1
        /\ released[v] <= issued[v] /\ issued[v] <= released[v] + 1

\* Before the loop of main, and after the end.
StartAndEnd ==
    /\ pc \in {"startMaster", "startReplica"} =>
           /\ proc["replica"] = "none"
           /\ proc["master"] \notin {"kernel", "exit"}
           /\ \A v \in Variant : /\ syscallNum[v] = 0
                                 /\ released[v] = 0
                                 /\ state[v] = "running"
    /\ pc = "startMaster" => proc["master"] = "none"
    /\ pc = "exited" => \A v \in Variant : proc[v] \in {"gone", "orphan"}

\* The number a variant will have when its present call has been counted.
Due(v) == syscallNum[v] + IF proc[v] \in {"kernel", "exit"} THEN 1 ELSE 0

\* In the main loop, two live variants have been let through equally many
\* calls and will have the same number.
InStep ==
    pc \in Main /\ (\A v \in Variant : Alive(v)) =>
        /\ Due("master") = Due("replica")
        /\ released["master"] = released["replica"]

\* The records say that v waits at an entry.
Waiting(v) == state[v] = "wait" /\ syscallInfo[v].op = "entry"

\* The record is of the call v has made; v is there, or it has been let
\* through that call, or it is dead.
WaitRecord ==
    \A v \in Variant : Waiting(v) =>
        /\ \/ proc[v] \in {"entry", "kernel", "exit", "zombie", "gone"}
           \/ pc = "exited"
        /\ released[v] < issued[v] =>
               /\ syscallInfo[v].nr = call[v].nr
               /\ syscallInfo[v].args = call[v].args

\* A live partner can only come to have the number of a waiting variant when
\* that one still waits and both are at the same call.
WaitNumber ==
    \A v \in Variant :
        Waiting(v) /\ pc \in Main /\ Alive(Other(v)) =>
            /\ Due(Other(v)) >= syscallNum[v]
            /\ Due(Other(v)) = syscallNum[v] =>
                   /\ released[v] < issued[v]
                   /\ released[v] = released[Other(v)]

\* While an executor runs, both variants are in one and the same call.
InExecutor ==
    pc \in InCall =>
        /\ issued["master"] = issued["replica"]
        /\ syscallNum["master"] = syscallNum["replica"]
        /\ state["master"] = "running"
        /\ exec.nr = call["master"].nr
        /\ (\A v \in Variant : Alive(v)) =>
               Compatible(call["master"], call["replica"])

ExecutorAtMaster ==
    pc \in {"waitMaster", "gotMaster"} =>
        /\ proc["master"] \in {"kernel", "exit", "zombie", "gone"}
        /\ proc["replica"] \in {"entry", "zombie", "gone"}
        /\ pc = "gotMaster" =>
               proc["master"] \in IF status = "stopped" THEN {"exit", "zombie"}
                                                        ELSE {"gone"}

ExecutorAtReplica ==
    pc \in {"waitReplica", "gotReplica"} =>
        /\ proc["master"] \in {"exit", "zombie", "gone"}
        /\ \/ /\ E.sub = "held"
              /\ proc["replica"] \in {"entry", "zombie", "gone"}
           \/ /\ E.sub # "held"
              /\ proc["replica"] \in {"kernel", "exit", "zombie", "gone"}
              /\ state["replica"] = "running"
        /\ pc = "gotReplica" =>
               IF status = "stopped"
               THEN E.sub # "held" /\ proc["replica"] \in {"exit", "zombie"}
               ELSE proc["replica"] = "gone"

\* What waitpid has reported is where it was, or has been killed since.
AtEvent ==
    pc = "event" =>
        proc[who] \in IF status = "stopped"
                      THEN {"entry", "exit", "signal", "zombie"} ELSE {"gone"}

\* The monitor has collected the present stop of v and not yet acted on it.
Held(v) ==
    \/ pc = "event" /\ who = v
    \/ v = "master" /\ pc \in {"gotMaster", "waitReplica", "gotReplica"}
    \/ v = "replica" /\ pc = "gotReplica"

\* A variant with a report has stopped or ended; one whose stop the monitor
\* holds has none; one at an entry is at the call it made.
Reports ==
    \A v \in Variant :
        /\ news[v] => proc[v] \in {"entry", "exit", "signal", "zombie"}
        /\ Stopped(v) /\ Held(v) => ~news[v]
        /\ proc[v] = "entry" =>
               /\ pc \notin {"waitReplica", "gotReplica"} => regs[v] = call[v]
               /\ pc \in InCall \/ Waiting(v) => ~news[v]

IInv ==
    /\ TypeOK
    /\ Counting /\ Rendezvous /\ StartAndEnd
    /\ InStep /\ WaitRecord /\ WaitNumber
    /\ InExecutor /\ ExecutorAtMaster /\ ExecutorAtReplica
    /\ AtEvent /\ Reports

-----------------------------------------------------------------------------
(* What the invariants of the calls rest on besides                        *)

ExitCall     == [nr |-> "exit_group", args |-> NoArgs]
ProgramCalls == [nr : Calls, args : Args] \cup {ExitCall}

\* The last call of a variant is one the program makes.
CallsMade ==
    \A v \in Variant :
        /\ issued[v] = 0 => call[v] = NoCall
        /\ issued[v] # 0 => call[v] \in ProgramCalls

\* An executor that waits for the master takes the replica through its own
\* call, whether or not the master lives.
ReplicaInCall ==
    pc \in InCall => /\ exec.nr = call["replica"].nr
                     /\ exec.nr \in Implemented
                     /\ E.run \in {"map", "serial"}

\* Two variants that are through a replicated call have its result: neither
\* is still at the exit of it.
MainResult ==
    /\ pc \in Main
    /\ \A v \in Variant : Alive(v) /\ released[v] = issued[v]
    /\ issued["master"] = issued["replica"]
    /\ call["master"].nr \in Implemented
    /\ Executor[call["master"].nr].ret
    => /\ \A v \in Variant : proc[v] \in {"user", "signal"}
       /\ rax["master"] = rax["replica"]

\* What the executor keeps is the master's result.
CallResult ==
    pc \in {"waitReplica", "gotReplica"} /\ Alive("master") =>
        rval = rax["master"]

\* A variant that is marked as waiting stands at its entry, or has died and
\* the monitor knows it or will.
MarkedWaiting ==
    \A v \in Variant :
        state[v] = "wait" /\ pc # "exited" =>
            \/ proc[v] \in {"entry", "zombie"}
            \/ pc = "event" /\ who = v /\ status = "exited"
            \/ pc = "gotReplica" /\ v = "replica" /\ status = "exited"

-----------------------------------------------------------------------------
(* When nothing disturbs the variants                                      *)

\* Two runs of one program that nobody interrupts, that make calls which the
\* executors can tell to be the same, and whose results fit the buffers.
Undisturbed ==
    /\ Divergence = "none" /\ Faults = {}
    /\ {"unknown", "munmap", "shutdown"} \cap Calls = {}
    /\ \A nr \in Calls, a \in Args : Agree(Executor[nr], a, a, a, a)
    /\ \A nr \in Calls, r \in Rvals : CanCopy(Executor[nr], r)
    /\ "mmap" \in Calls => \A a \in Args : HasBit(AsInt(a[3]), MAP_PRIVATE)

\* After as many calls the variants are at the same call; the last is the exit.
SameCalls ==
    /\ issued["master"] = issued["replica"] => call["master"] = call["replica"]
    /\ \A v \in Variant : issued[v] > MaxCalls => call[v] = ExitCall

\* What runs in the kernel ends the process when the call is to.
KernelCall ==
    \A v \in Variant : proc[v] = "kernel" =>
        (regs[v].nr = "exit_group" <=> call[v].nr = "exit_group")

\* Nobody is stopped by a signal, or dies of one while the monitor looks.
Unharmed ==
    \A v \in Variant :
        /\ proc[v] # "signal"
        /\ proc[v] = "orphan" => pc = "exited"
        /\ proc[v] = "none" => \/ pc = "startMaster"
                               \/ pc = "startReplica" /\ v = "replica"
        /\ proc[v] = "zombie" =>
               ~(pc = "event" /\ status = "stopped" /\ who = v)

\* v has been let through its exit.
Ended(v) ==
    issued[v] # 0 /\ released[v] = issued[v] /\ call[v].nr = "exit_group"

\* Only the exit ends a variant, and the partner makes no other call after it.
Endings ==
    pc # "exited" =>
        \A v \in Variant :
            /\ Ended(v) => proc[v] \in {"kernel", "zombie", "gone"}
            /\ proc[v] \in {"zombie", "gone"} => Ended(v)
            /\ Ended(v) => issued[Other(v)] = issued[v]

\* Dead or alive, the variants have been let through equally many calls.
EvenlyReleased ==
    pc \in Main => released["master"] = released["replica"]

\* The record of a variant that is marked is of its entry.
MarkedRecord ==
    \A v \in Variant :
        state[v] = "wait" /\ pc # "exited" => syscallInfo[v].op = "entry"

\* The table holds private mappings only; what an executor puts there comes
\* from the master's call.
PrivateTable ==
    /\ \A i \in DOMAIN mappings : HasBit(mappings[i].flags, MAP_PRIVATE)
    /\ pc \in InCall => exec = call["master"]

\* What a call returned is what the kernel may return.
KernelResult ==
    \A v \in Variant : proc[v] = "exit" => rax[v] \in Rvals

Calm ==
    /\ SameCalls /\ KernelCall /\ Unharmed /\ Endings /\ EvenlyReleased
    /\ MarkedRecord /\ PrivateTable /\ KernelResult
=============================================================================
