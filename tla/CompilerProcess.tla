-------------------------- MODULE CompilerProcess --------------------------
(***************************************************************************)
(* One bounded invocation of an external compiler                          *)
(* (src/languages/compiler_process.rs): the caller's loop, interleaved with *)
(* the processes of the compiler, with the clock and with cancellation.    *)
(*                                                                         *)
(* The kernel's side is modelled from how the code uses it.  A killed      *)
(* process keeps its descriptors until it dies.  A process number is free  *)
(* when no process has it and no process is in the group it names.         *)
(***************************************************************************)
EXTENDS Integers, FiniteSets

CONSTANTS
    Pid,            \* process numbers of the machine
    Limit,          \* max_stdout_bytes, max_stderr_bytes
    PipeSize,       \* bytes a pipe can hold
    BufferSize,     \* bytes one read takes (8192)
    MaxReads,       \* reads of one drain (8)
    MaxRetries,     \* launches repeated on ETXTBSY (20)
    None

ASSUME CompilerAssumption ==
    /\ {Limit, PipeSize, BufferSize, MaxReads} \subseteq Nat \ {0}
    /\ MaxRetries \in Nat
    /\ Pid # {}
    /\ None \notin Pid /\ None \notin {"owned", "ok", "limit"}

Stream == {"stdout", "stderr"}

VARIABLES
    pc,         \* where the caller is
    retries,    \* launches repeated so far
    child,      \* the Child of the OwnedCompilerGroup
    status,     \* what try_wait returned
    closed,     \* stdout_closed, stderr_closed
    reads,      \* reads left in the current drain
    output,     \* CompilerOutput: bytes collected per stream
    result,     \* the Result returned, or to be returned after Drop
    proc,       \* process table
    pipe,       \* bytes in each pipe
    written,    \* bytes the compiler's processes wrote to each stream
    expired,    \* started.elapsed() >= limits.timeout
    cancelled   \* cancelled()

callerVars == <<pc, retries, child, status, closed, reads, output, result>>
worldVars == <<pipe, written, expired, cancelled>>
machineVars == <<proc, worldVars>>
vars == <<callerVars, machineVars>>

\* kin is history the system does not keep: a process is owned as long as
\* neither it nor one it descends from ever left the compiler's group.
Free == [state |-> "free", group |-> None, kin |-> None, holds |-> {},
         success |-> FALSE]

Exists(p) == proc[p].state # "free"
Running(p) == proc[p].state \in {"live", "dying"}
Live(p) == proc[p].state = "live"
Owned(p) == proc[p].kin = "owned"
Unused(p) == ~Exists(p) /\ \A q \in Pid : Exists(q) => proc[q].group # p
Holders(s) == {p \in Pid : s \in proc[p].holds}

----------------------------------------------------------------------------
(* The caller                                                              *)

\* Leave the function with r; the group, once owned, is dropped first.
Leave(r) ==
    /\ result' = r
    /\ pc' = IF child = None THEN "returned" ELSE "drop"

Enter ==
    /\ pc = "enter"
    /\ IF expired \/ cancelled
       THEN Leave("cancelled")
       ELSE pc' = "launch" /\ result' = result
    /\ UNCHANGED <<retries, child, status, closed, reads, output, machineVars>>

\* spawn() succeeds: the child leads a group of its own.  Process numbers
\* differ in nothing else, so the child may as well get a fixed unused one.
Launch ==
    /\ pc = "launch"
    /\ child' = CHOOSE q \in Pid : Unused(q)
    /\ proc' = [proc EXCEPT ![child'] = [state |-> "live", group |-> child',
            kin |-> "owned", holds |-> Stream, success |-> FALSE]]
    /\ pc' = "setup"
    /\ UNCHANGED <<retries, status, closed, reads, output, result, worldVars>>

\* spawn() fails with ETXTBSY, or with another error.
LaunchFails(busy) ==
    /\ pc = "launch"
    /\ IF busy /\ retries < MaxRetries /\ ~expired /\ ~cancelled
       THEN retries' = retries + 1 /\ UNCHANGED <<pc, result>>
       ELSE Leave("start") /\ UNCHANGED retries
    /\ UNCHANGED <<child, status, closed, reads, output, machineVars>>

\* nonblocking() on both pipes
Setup(ok) ==
    /\ pc = "setup"
    /\ IF ok THEN pc' = "loop" /\ result' = result ELSE Leave("io")
    /\ UNCHANGED <<retries, child, status, closed, reads, output, machineVars>>

\* Mistake: once the compiler has exited, only its output is waited for.
DeadlinePassedWhileRunning == expired /\ status = None

DeadlinePassed == expired

\* The head of the loop.
Poll ==
    /\ pc = "loop"
    /\ reads' = MaxReads
    /\ IF cancelled THEN Leave("cancelled")
       ELSE IF DeadlinePassed THEN Leave("deadline")
       ELSE pc' = "stdout" /\ result' = result
    /\ UNCHANGED <<retries, child, status, closed, output, machineVars>>

After(s) == IF s = "stdout" THEN "stderr" ELSE "wait"

\* The drain of s is over.
Drained(s) == pc' = After(s) /\ reads' = MaxReads

Skip(s) ==
    /\ pc = s
    /\ s \in closed \/ reads = 0
    /\ Drained(s)
    /\ UNCHANGED <<retries, child, status, closed, output, result, machineVars>>

ExceedsLimit(s, count) == count > Limit - output[s]

\* One read of drain(): end of file, some bytes, or WouldBlock.
Read(s) ==
    /\ pc = s
    /\ s \notin closed /\ reads > 0
    /\ LET some == {n \in 1..BufferSize : n <= pipe[s]}
           count == Cardinality(some)
       IN CASE count > 0 /\ ExceedsLimit(s, count) ->
                    /\ Leave("limit")
                    /\ pipe' = [pipe EXCEPT ![s] = @ - count]
                    /\ UNCHANGED <<output, reads, closed>>
            [] count > 0 /\ ~ExceedsLimit(s, count) ->
                    /\ output' = [output EXCEPT ![s] = @ + count]
                    /\ pipe' = [pipe EXCEPT ![s] = @ - count]
                    /\ reads' = reads - 1
                    /\ UNCHANGED <<pc, result, closed>>
            [] count = 0 ->
                    /\ closed' = IF Holders(s) = {} THEN closed \cup {s}
                                                    ELSE closed
                    /\ Drained(s)
                    /\ UNCHANGED <<result, output, pipe>>
    /\ UNCHANGED <<retries, child, status, proc, written, expired, cancelled>>

\* read() is interrupted, or fails.
ReadDisturbed(s, interrupted) ==
    /\ pc = s
    /\ s \notin closed /\ reads > 0
    /\ IF interrupted
       THEN reads' = reads - 1 /\ UNCHANGED <<pc, result>>
       ELSE Leave("io") /\ UNCHANGED reads
    /\ UNCHANGED <<retries, child, status, closed, output, machineVars>>

\* waitpid of a zombie
Reap == proc' = [proc EXCEPT ![child] = Free]

\* try_wait(): reaps the child if it has exited.
TryWait ==
    /\ pc = "wait"
    /\ IF status = None /\ proc[child].state = "zombie"
       THEN /\ status' = [success |-> proc[child].success]
            /\ Reap
            /\ pc' = "kill"
       ELSE pc' = "finish" /\ UNCHANGED <<status, proc>>
    /\ UNCHANGED <<retries, child, closed, reads, output, result, worldVars>>

TryWaitFails ==
    /\ pc = "wait" /\ status = None
    /\ Leave("io")
    /\ UNCHANGED <<retries, child, status, closed, reads, output, machineVars>>

\* Mistake: kills the compiler, not its group.
SignalledChild(g) ==
    [p \in Pid |-> IF Live(p) /\ p = g THEN [proc[p] EXCEPT !.state = "dying"]
                                       ELSE proc[p]]

\* kill(-g, SIGKILL)
Signalled(g) ==
    [p \in Pid |-> IF Live(p) /\ proc[p].group = g
                   THEN [proc[p] EXCEPT !.state = "dying"]
                   ELSE proc[p]]

KillDescendants ==
    /\ pc = "kill"
    /\ proc' = Signalled(child)
    /\ pc' = "finish"
    /\ UNCHANGED <<retries, child, status, closed, reads, output, result, worldVars>>

\* Mistake: a compiler that exited has written all its output.
OutputCompleteOnExit == status # None

OutputComplete == status # None /\ closed = Stream

Finish ==
    /\ pc = "finish"
    /\ IF OutputComplete
       THEN Leave(IF status.success THEN "ok" ELSE "exit")
       ELSE pc' = "loop" /\ result' = result
    /\ UNCHANGED <<retries, child, status, closed, reads, output, machineVars>>

\* Drop: signal the group again, then wait for the child.
DropKill ==
    /\ pc = "drop"
    /\ proc' = Signalled(child)
    /\ pc' = "dropWait"
    /\ UNCHANGED <<retries, child, status, closed, reads, output, result, worldVars>>

DropWait ==
    /\ pc = "dropWait"
    /\ IF status = None THEN proc[child].state = "zombie" /\ Reap
                        ELSE UNCHANGED proc
    /\ pc' = "returned"
    /\ UNCHANGED <<retries, child, status, closed, reads, output, result, worldVars>>

Caller ==
    \/ Enter \/ Launch
    \/ \E busy \in BOOLEAN : LaunchFails(busy)
    \/ \E ok \in BOOLEAN : Setup(ok)
    \/ Poll
    \/ \E s \in Stream : Skip(s) \/ Read(s)
    \/ \E s \in Stream, i \in BOOLEAN : ReadDisturbed(s, i)
    \/ TryWait \/ TryWaitFails \/ KillDescendants \/ Finish
    \/ DropKill \/ DropWait

----------------------------------------------------------------------------
(* The machine                                                             *)

\* A process of the compiler starts another one, in its group.
Fork(p, q) ==
    /\ Live(p) /\ Unused(q)
    /\ proc' = [proc EXCEPT ![q] = proc[p]]
    /\ UNCHANGED <<callerVars, worldVars>>

\* setsid and setpgid: a descendant makes a group of its own, and keeps the
\* pipes; the compiler, which leads one, moves to another of its session, such
\* as the caller's.  Coming back would only bring it before the next signal.
LeaveGroup(p) ==
    /\ Live(p) /\ Owned(p)
    /\ proc' = [proc EXCEPT ![p].group = IF p = child THEN None ELSE p,
                            ![p].kin = "detached"]
    /\ UNCHANGED <<callerVars, worldVars>>

\* Bound: a stream is not written further than one byte past the limit.
Write(p, s) ==
    /\ Running(p) /\ s \in proc[p].holds
    /\ pipe[s] < PipeSize
    /\ written[s] <= Limit
    /\ pipe' = [pipe EXCEPT ![s] = @ + 1]
    /\ written' = [written EXCEPT ![s] = @ + 1]
    /\ UNCHANGED <<callerVars, proc, expired, cancelled>>

\* Only the caller waits for the child; other processes vanish at once.
Ended(p, success) ==
    IF p = child /\ status = None
    THEN [proc[p] EXCEPT !.state = "zombie", !.holds = {}, !.success = success]
    ELSE Free

Exit(p, success) ==
    /\ Live(p)
    /\ proc' = [proc EXCEPT ![p] = Ended(p, success)]
    /\ UNCHANGED <<callerVars, worldVars>>

\* A signalled process dies.
Die(p) ==
    /\ proc[p].state = "dying"
    /\ proc' = [proc EXCEPT ![p] = Ended(p, FALSE)]
    /\ UNCHANGED <<callerVars, worldVars>>

\* The clock starts after the first check.
Expire ==
    /\ ~expired /\ pc # "enter"
    /\ expired' = TRUE
    /\ UNCHANGED <<callerVars, proc, pipe, written, cancelled>>

Cancel ==
    /\ ~cancelled
    /\ cancelled' = TRUE
    /\ UNCHANGED <<callerVars, proc, pipe, written, expired>>

\* What happens after the return is not followed.
Machine ==
    /\ pc # "returned"
    /\ \/ \E p, q \in Pid : Fork(p, q)
       \/ \E p \in Pid : LeaveGroup(p) \/ Die(p)
       \/ \E p \in Pid, s \in Stream : Write(p, s)
       \/ \E p \in Pid, success \in BOOLEAN : Exit(p, success)
       \/ Expire \/ Cancel

----------------------------------------------------------------------------
(* expired holds at the start of a run whose timeout is zero.              *)
Init ==
    /\ pc = "enter"
    /\ retries = 0
    /\ child = None
    /\ status = None
    /\ closed = {}
    /\ reads = 0
    /\ output = [s \in Stream |-> 0]
    /\ result = None
    /\ proc = [p \in Pid |-> Free]
    /\ pipe = [s \in Stream |-> 0]
    /\ written = [s \in Stream |-> 0]
    /\ expired \in BOOLEAN
    /\ cancelled \in BOOLEAN

Next == Caller \/ Machine

\* The caller runs, time passes and signalled processes die.  Nothing is
\* assumed of the compiler and its descendants: they need not end, and may
\* leave the group.
Fairness ==
    /\ WF_vars(Caller)
    /\ WF_vars(Expire /\ pc # "returned")
    /\ \A p \in Pid : WF_vars(Die(p) /\ pc # "returned")

Spec == Init /\ [][Next]_vars /\ Fairness

----------------------------------------------------------------------------
(* Properties                                                              *)

\* A successful invocation returns every byte the compiler wrote: no process,
\* detached ones included, can still write to the streams it collected.
SuccessIsComplete ==
    result = "ok" =>
        \A s \in Stream : output[s] = written[s] /\ Holders(s) = {}

\* Whatever path the function returns by, the compiler is reaped, even one
\* that left its group, and no process that stayed in the group is left
\* running (a killed one may be dying).
NoSurvivors ==
    pc = "returned" =>
        \A p \in Pid :
            /\ Owned(p) => proc[p].state = "dying"
            /\ proc[p].state # "zombie"

\* A compiler that left its group at some time and that no signal reaches:
\* kill(-pid) in kill_descendants addresses the group only.
CompilerStrayed ==
    status = None /\ Live(child) /\ ~Owned(child)

\* The function returns, whatever the compiler and its descendants do, unless
\* the wait of the guard's Drop, which has no deadline, is for a compiler
\* that left its group and does not end.
AlwaysReturns == <>(pc = "returned") \/ <>[](pc = "dropWait" /\ CompilerStrayed)
=============================================================================
