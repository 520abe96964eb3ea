---------------------------- MODULE MachineryProofs ----------------------------
(***************************************************************************)
(* Invariance proofs for the machinery around the checking of proofs: one  *)
(* invocation of a compiler (CompilerProcess), verifiers beside a user who *)
(* edits, commits and installs (IncrementalVerification), and the graphs   *)
(* that the fact contexts of proof branches share (FactContexts).          *)
(*                                                                         *)
(* The three components share no state; a theorem is about the             *)
(* specification it names.                                                 *)
(***************************************************************************)
EXTENDS CompilerProcess, IncrementalVerification, FactContexts, FiniteSetTheorems, TLAPS

----------------------------------------------------------------------------
(* A compiler invocation: the invariant                                    *)

Process ==
    [state : {"free", "live", "dying", "zombie"}, group : Pid \cup {None},
     kin : {"owned", "detached", None}, holds : SUBSET Stream, success : BOOLEAN]

CallerAt ==
    {"enter", "launch", "setup", "loop", "stdout", "stderr", "wait", "kill",
     "finish", "drop", "dropWait", "returned"}

CompilerTypes ==
    /\ pc \in CallerAt
    /\ child \in Pid \cup {None}
    /\ closed \subseteq Stream
    /\ output \in [Stream -> Int] /\ pipe \in [Stream -> Nat] /\ written \in [Stream -> Nat]
    /\ proc \in [Pid -> Process]

\* There is a child from the launch on, and no process before it.
Launched ==
    /\ pc \in {"enter", "launch"} => child = None /\ closed = {} /\ status = None
    /\ pc \notin {"enter", "launch", "returned"} => child # None
    /\ child = None => \A p \in Pid : proc[p] = Free

\* The group's processes carry the child's number; the only zombie is the
\* child, until it is reaped.
Grouped ==
    \A p \in Pid :
        /\ proc[p].state = "free" => proc[p].kin # "owned" /\ proc[p].holds = {}
        /\ Owned(p) => proc[p].group = child
        /\ proc[p].state = "zombie" => p = child /\ status = None

\* After the kill of Drop no process of the group can start another one.
Killed ==
    /\ pc \in {"dropWait", "returned"} =>
          \A p \in Pid : Owned(p) => proc[p].state \in {"dying", "zombie"}
    /\ pc = "returned" => \A p \in Pid : proc[p].state # "zombie"

\* Nothing written is lost before the limit is hit, and a closed stream has
\* no writer left.
Collected ==
    /\ pc \notin {"drop", "dropWait", "returned"} => result = None
    /\ result # "limit" => \A s \in Stream : output[s] + pipe[s] = written[s]
    /\ \A s \in closed : pipe[s] = 0 /\ \A p \in Pid : s \notin proc[p].holds
    /\ result = "ok" => closed = Stream

CompilerInv == CompilerTypes /\ Launched /\ Grouped /\ Killed /\ Collected

----------------------------------------------------------------------------
(* A compiler invocation: its steps                                        *)

LEMMA FreeFields ==
    /\ Free \in Process
    /\ Free.state = "free" /\ Free.kin # "owned" /\ Free.holds = {}
  BY CompilerAssumption DEF Free, Process

\* What a signal leaves of each process.
LEMMA SignalledFields ==
    ASSUME proc \in [Pid -> Process], NEW g
    PROVE  /\ Signalled(g) \in [Pid -> Process]
           /\ \A p \in Pid :
                 /\ Signalled(g)[p].kin = proc[p].kin
                 /\ Signalled(g)[p].group = proc[p].group
                 /\ Signalled(g)[p].holds = proc[p].holds
                 /\ proc[p].state = "live" /\ proc[p].group = g => Signalled(g)[p].state = "dying"
                 /\ proc[p].state # "live" \/ proc[p].group # g => Signalled(g)[p] = proc[p]
  <1> SUFFICES ASSUME NEW p \in Pid
      PROVE  /\ Signalled(g) \in [Pid -> Process]
             /\ Signalled(g)[p].kin = proc[p].kin
             /\ Signalled(g)[p].group = proc[p].group
             /\ Signalled(g)[p].holds = proc[p].holds
             /\ proc[p].state = "live" /\ proc[p].group = g => Signalled(g)[p].state = "dying"
             /\ proc[p].state # "live" \/ proc[p].group # g => Signalled(g)[p] = proc[p]
    BY DEF Signalled
  <1>1. ASSUME NEW q \in Pid PROVE [proc[q] EXCEPT !.state = "dying"] \in Process
    BY DEF Process
  <1>2. Signalled(g) \in [Pid -> Process]
    <2> HIDE DEF Process
    <2> QED BY <1>1 DEF Signalled
  <1>3. [proc[p] EXCEPT !.state = "dying"].state = "dying"
        /\ [proc[p] EXCEPT !.state = "dying"].kin = proc[p].kin
        /\ [proc[p] EXCEPT !.state = "dying"].group = proc[p].group
        /\ [proc[p] EXCEPT !.state = "dying"].holds = proc[p].holds
    BY DEF Process
  <1> HIDE DEF Process
  <1> QED BY <1>2, <1>3 DEF Signalled, Live

\* The caller moves on, or leaves with r, before any process is touched.
LEMMA LeaveStep ==
    ASSUME CompilerInv, NEW r, Leave(r), UNCHANGED <<child, status, closed, proc, written>>,
           pc \notin {"drop", "dropWait", "returned"},
           output' \in [Stream -> Int], pipe' \in [Stream -> Nat],
           r # "limit" => \A s \in Stream : output'[s] + pipe'[s] = written'[s],
           r = "ok" => closed = Stream,
           \A s \in closed : pipe'[s] = 0
    PROVE  CompilerInv'
  <1>1. CompilerTypes /\ Launched /\ Grouped /\ Collected BY DEF CompilerInv
  <1>2. /\ result' = r
        /\ child = None => pc' = "returned"
        /\ child # None => pc' = "drop"
    BY DEF Leave
  <1>3. CompilerTypes' BY <1>1, <1>2 DEF CompilerTypes, CallerAt
  <1>4. Launched' BY <1>1, <1>2 DEF Launched
  <1>5. Grouped' BY <1>1 DEF Grouped, Owned
  <1>6. Killed'
    <2>1. CASE child = None
      <3>1. \A p \in Pid : proc[p] = Free BY <1>1, <2>1 DEF Launched
      <3> QED BY <3>1, FreeFields DEF Killed, Owned
    <2>2. CASE child # None BY <1>2, <2>2 DEF Killed
    <2> QED BY <2>1, <2>2
  <1>7. Collected' BY <1>1, <1>2 DEF Collected
  <1> QED BY <1>3, <1>4, <1>5, <1>6, <1>7 DEF CompilerInv

\* The caller moves on without touching a process.
LEMMA GoStep ==
    ASSUME CompilerInv, UNCHANGED <<child, status, proc, written, result>>,
           pc \notin {"enter", "launch", "drop", "dropWait", "returned"},
           pc' \in CallerAt \ {"enter", "launch", "drop", "dropWait", "returned"},
           output' \in [Stream -> Int], pipe' \in [Stream -> Nat],
           closed' \subseteq Stream,
           \A s \in Stream : output'[s] + pipe'[s] = written'[s],
           \A s \in closed' : pipe'[s] = 0 /\ \A p \in Pid : s \notin proc[p].holds
    PROVE  CompilerInv'
  <1>1. CompilerTypes /\ Launched /\ Grouped /\ Collected BY DEF CompilerInv
  <1>2. CompilerTypes' BY <1>1 DEF CompilerTypes
  <1>3. Launched' BY <1>1 DEF Launched
  <1>4. Grouped' BY <1>1 DEF Grouped, Owned
  <1>5. Killed' BY DEF Killed
  <1>6. Collected'
    <2>1. result = None BY <1>1 DEF Collected
    <2>2. result' # "ok" BY <2>1, CompilerAssumption
    <2> QED BY <2>1, <2>2 DEF Collected
  <1> QED BY <1>2, <1>3, <1>4, <1>5, <1>6 DEF CompilerInv

\* Streams as they were: what the two lemmas above ask of them.
LEMMA StreamsKept ==
    ASSUME CompilerInv, pc \notin {"drop", "dropWait", "returned"}
    PROVE  /\ output \in [Stream -> Int] /\ pipe \in [Stream -> Nat] /\ closed \subseteq Stream
           /\ \A s \in Stream : output[s] + pipe[s] = written[s]
           /\ \A s \in closed : pipe[s] = 0 /\ \A p \in Pid : s \notin proc[p].holds
           /\ result = None
  <1>1. result = None BY DEF CompilerInv, Collected
  <1>2. CompilerTypes /\ Collected BY DEF CompilerInv
  <1>3. \A s \in Stream : output[s] + pipe[s] = written[s]
    <2>1. CASE result # "limit" BY <1>2, <2>1 DEF Collected
    <2>2. CASE result = "limit" BY <1>1, <2>2, CompilerAssumption
    <2> QED BY <2>1, <2>2
  <1> QED BY <1>1, <1>2, <1>3 DEF CompilerTypes, Collected

\* Nothing has been launched, and nothing is.
LEMMA IdleStep ==
    ASSUME CompilerInv, pc \in {"enter", "launch"}, pc' = "launch",
           UNCHANGED <<child, status, closed, output, result, proc, pipe, written>>
    PROVE  CompilerInv'
  <1>1. CompilerTypes' BY DEF CompilerInv, CompilerTypes, CallerAt
  <1>2. Launched' BY DEF CompilerInv, Launched
  <1>3. Grouped' BY DEF CompilerInv, Grouped, Owned
  <1>4. Killed' BY DEF Killed
  <1>5. Collected' BY DEF CompilerInv, Collected
  <1> QED BY <1>1, <1>2, <1>3, <1>4, <1>5 DEF CompilerInv

\* Every way out before the loop, and out of it, that leaves the streams as
\* they are.
LEMMA LeaveQuietly ==
    ASSUME CompilerInv, NEW r, Leave(r),
           UNCHANGED <<child, status, closed, output, proc, pipe, written>>,
           pc \notin {"drop", "dropWait", "returned"},
           r = "ok" => closed = Stream
    PROVE  CompilerInv'
  <1>1. /\ output \in [Stream -> Int] /\ pipe \in [Stream -> Nat]
        /\ \A s \in Stream : output[s] + pipe[s] = written[s]
        /\ \A s \in closed : pipe[s] = 0
    BY StreamsKept
  <1>2. /\ output' \in [Stream -> Int] /\ pipe' \in [Stream -> Nat]
        /\ \A s \in Stream : output'[s] + pipe'[s] = written'[s]
        /\ \A s \in closed : pipe'[s] = 0
    BY <1>1
  <1> QED BY <1>2, LeaveStep

LEMMA GoQuietly ==
    ASSUME CompilerInv, UNCHANGED <<child, status, closed, output, result, proc, pipe, written>>,
           pc \notin {"enter", "launch", "drop", "dropWait", "returned"},
           pc' \in CallerAt \ {"enter", "launch", "drop", "dropWait", "returned"}
    PROVE  CompilerInv'
  <1>1. /\ output \in [Stream -> Int] /\ pipe \in [Stream -> Nat] /\ closed \subseteq Stream
        /\ \A s \in Stream : output[s] + pipe[s] = written[s]
        /\ \A s \in closed : pipe[s] = 0 /\ \A p \in Pid : s \notin proc[p].holds
    BY StreamsKept
  <1>2. /\ output' \in [Stream -> Int] /\ pipe' \in [Stream -> Nat] /\ closed' \subseteq Stream
        /\ \A s \in Stream : output'[s] + pipe'[s] = written'[s]
        /\ \A s \in closed' : pipe'[s] = 0 /\ \A p \in Pid : s \notin proc[p].holds
    BY <1>1
  <1> QED BY <1>2, GoStep

LEMMA EnterStep == ASSUME CompilerInv, Enter PROVE CompilerInv'
  <1>1. pc = "enter" /\ UNCHANGED <<child, status, closed, output, proc, pipe, written>>
    BY DEF Enter, machineVars, worldVars
  <1>2. CASE Leave("cancelled") BY <1>1, <1>2, LeaveQuietly
  <1>3. CASE pc' = "launch" /\ result' = result BY <1>1, <1>3, IdleStep
  <1> QED BY <1>2, <1>3 DEF Enter

LEMMA LaunchFailsStep ==
    ASSUME CompilerInv, NEW busy \in BOOLEAN, LaunchFails(busy) PROVE CompilerInv'
  <1>1. pc = "launch" /\ UNCHANGED <<child, status, closed, output, proc, pipe, written>>
    BY DEF LaunchFails, machineVars, worldVars
  <1>2. CASE Leave("start") BY <1>1, <1>2, LeaveQuietly
  <1>3. CASE UNCHANGED <<pc, result>> BY <1>1, <1>3, IdleStep
  <1> QED BY <1>2, <1>3 DEF LaunchFails

LEMMA SetupStep == ASSUME CompilerInv, NEW ok \in BOOLEAN, Setup(ok) PROVE CompilerInv'
  <1>1. pc = "setup" /\ UNCHANGED <<child, status, closed, output, proc, pipe, written>>
    BY DEF Setup, machineVars, worldVars
  <1>2. CASE Leave("io") BY <1>1, <1>2, LeaveQuietly
  <1>3. CASE pc' = "loop" /\ result' = result BY <1>1, <1>3, GoQuietly DEF CallerAt
  <1> QED BY <1>2, <1>3 DEF Setup

LEMMA PollStep == ASSUME CompilerInv, Poll PROVE CompilerInv'
  <1>1. pc = "loop" /\ UNCHANGED <<child, status, closed, output, proc, pipe, written>>
    BY DEF Poll, machineVars, worldVars
  <1>2. CASE Leave("cancelled") BY <1>1, <1>2, LeaveQuietly
  <1>3. CASE Leave("deadline") BY <1>1, <1>3, LeaveQuietly
  <1>4. CASE pc' = "stdout" /\ result' = result BY <1>1, <1>4, GoQuietly DEF CallerAt
  <1> QED BY <1>2, <1>3, <1>4 DEF Poll

LEMMA SkipStep == ASSUME CompilerInv, NEW s \in Stream, Skip(s) PROVE CompilerInv'
  <1>1. pc = s /\ UNCHANGED <<child, status, closed, output, result, proc, pipe, written>>
    BY DEF Skip, machineVars, worldVars
  <1>2. pc \in {"stdout", "stderr"} /\ pc' \in {"stderr", "wait"}
    BY <1>1 DEF Skip, Drained, After, Stream
  <1> QED BY <1>1, <1>2, GoQuietly DEF CallerAt

LEMMA ReadDisturbedStep ==
    ASSUME CompilerInv, NEW s \in Stream, NEW i \in BOOLEAN, ReadDisturbed(s, i)
    PROVE  CompilerInv'
  <1>1. /\ pc \in {"stdout", "stderr"}
        /\ UNCHANGED <<child, status, closed, output, proc, pipe, written>>
    BY DEF ReadDisturbed, machineVars, worldVars, Stream
  <1>2. CASE Leave("io") BY <1>1, <1>2, LeaveQuietly
  <1>3. CASE UNCHANGED <<pc, result>> BY <1>1, <1>3, GoQuietly DEF CallerAt
  <1> QED BY <1>2, <1>3 DEF ReadDisturbed

LEMMA TryWaitFailsStep == ASSUME CompilerInv, TryWaitFails PROVE CompilerInv'
  <1>1. /\ pc = "wait" /\ Leave("io")
        /\ UNCHANGED <<child, status, closed, output, proc, pipe, written>>
    BY DEF TryWaitFails, machineVars, worldVars
  <1> QED BY <1>1, LeaveQuietly

LEMMA FinishStep == ASSUME CompilerInv, Finish PROVE CompilerInv'
  <1>1. pc = "finish" /\ UNCHANGED <<child, status, closed, output, proc, pipe, written>>
    BY DEF Finish, machineVars, worldVars
  <1>2. CASE OutputComplete
    <2>1. closed = Stream BY <1>2 DEF OutputComplete
    <2>2. PICK r : Leave(r) BY <1>2 DEF Finish
    <2> QED BY <1>1, <2>1, <2>2, LeaveQuietly
  <1>3. CASE ~OutputComplete
    <2>1. pc' = "loop" /\ result' = result BY <1>3 DEF Finish
    <2> QED BY <1>1, <2>1, GoQuietly DEF CallerAt
  <1> QED BY <1>2, <1>3

\* What one read takes is what is there, up to the size of the buffer.
LEMMA ReadTakes ==
    ASSUME CompilerInv, NEW s \in Stream
    PROVE  LET count == Cardinality({n \in 1..BufferSize : n <= pipe[s]}) IN
           /\ count \in Nat /\ count <= pipe[s]
           /\ count = 0 => pipe[s] = 0
  <1> DEFINE some == {n \in 1..BufferSize : n <= pipe[s]}
             top == IF pipe[s] <= BufferSize THEN pipe[s] ELSE BufferSize
  <1>1. pipe[s] \in Nat /\ BufferSize \in Nat \ {0}
    BY CompilerAssumption DEF CompilerInv, CompilerTypes
  <1>2. top \in Nat /\ top <= pipe[s] /\ (top = 0 => pipe[s] = 0) BY <1>1
  <1>3. some = 1..top BY <1>1
  <1> HIDE DEF top
  <1>4. Cardinality(1..top) = top BY <1>2, FS_Interval
  <1> QED BY <1>2, <1>3, <1>4

LEMMA ReadStep == ASSUME CompilerInv, NEW s \in Stream, Read(s) PROVE CompilerInv'
  <1> DEFINE count == Cardinality({n \in 1..BufferSize : n <= pipe[s]})
  <1>1. count \in Nat /\ count <= pipe[s] /\ (count = 0 => pipe[s] = 0) BY ReadTakes
  <1>2. \/ /\ Leave("limit")
           /\ pipe' = [pipe EXCEPT ![s] = @ - count]
           /\ UNCHANGED <<output, closed>>
        \/ /\ count > 0
           /\ output' = [output EXCEPT ![s] = @ + count]
           /\ pipe' = [pipe EXCEPT ![s] = @ - count]
           /\ UNCHANGED <<pc, result, closed>>
        \/ /\ count = 0
           /\ closed' = IF Holders(s) = {} THEN closed \cup {s} ELSE closed
           /\ pc' = After(s)
           /\ UNCHANGED <<result, output, pipe>>
    <2> HIDE DEF count
    <2>1. count > 0 \/ count = 0 BY <1>1
    <2> USE DEF count
    <2>2. CASE count = 0 BY <1>1, <2>2 DEF Read, Drained
    <2>3. CASE count > 0 BY <1>1, <2>3 DEF Read, Drained
    <2> QED BY <2>1, <2>2, <2>3
  <1> HIDE DEF count
  <1>3. /\ pc \in {"stdout", "stderr"} /\ s \notin closed
        /\ UNCHANGED <<child, status, proc, written>>
    BY DEF Read, Stream
  <1>4. /\ output \in [Stream -> Int] /\ pipe \in [Stream -> Nat] /\ closed \subseteq Stream
        /\ \A t \in Stream : output[t] + pipe[t] = written[t]
        /\ \A t \in closed : pipe[t] = 0 /\ \A p \in Pid : t \notin proc[p].holds
    BY <1>3, StreamsKept
  <1>5. CASE Leave("limit") /\ pipe' = [pipe EXCEPT ![s] = @ - count]
             /\ UNCHANGED <<output, closed>>
    <2>1. output' \in [Stream -> Int] /\ pipe' \in [Stream -> Nat] BY <1>1, <1>4, <1>5
    <2>2. \A t \in closed : pipe'[t] = 0 BY <1>3, <1>4, <1>5
    <2> QED BY <1>3, <1>5, <2>1, <2>2, LeaveStep
  <1>6. CASE /\ count > 0
             /\ output' = [output EXCEPT ![s] = @ + count]
             /\ pipe' = [pipe EXCEPT ![s] = @ - count]
             /\ UNCHANGED <<pc, result, closed>>
    <2>1. output' \in [Stream -> Int] /\ pipe' \in [Stream -> Nat] /\ closed' \subseteq Stream
      BY <1>1, <1>4, <1>6
    <2>2. \A t \in Stream : output'[t] + pipe'[t] = written'[t]
      <3> TAKE t \in Stream
      <3>1. output[t] \in Int /\ pipe[t] \in Int /\ output[t] + pipe[t] = written[t] BY <1>4
      <3>2. CASE t = s
        <4>1. output'[t] = output[t] + count /\ pipe'[t] = pipe[t] - count
              /\ written'[t] = written[t]
          BY <1>3, <1>4, <1>6, <3>2
        <4> QED BY <1>1, <3>1, <4>1
      <3>3. CASE t # s BY <1>3, <1>4, <1>6, <3>1, <3>3
      <3> QED BY <3>2, <3>3
    <2>3. \A t \in closed' : pipe'[t] = 0 /\ \A p \in Pid : t \notin proc[p].holds
      BY <1>3, <1>4, <1>6
    <2>4. pc' \in CallerAt \ {"enter", "launch", "drop", "dropWait", "returned"}
      BY <1>3, <1>6 DEF CallerAt
    <2> QED BY <1>3, <1>6, <2>1, <2>2, <2>3, <2>4, GoStep
  <1>7. CASE /\ count = 0
             /\ closed' = IF Holders(s) = {} THEN closed \cup {s} ELSE closed
             /\ pc' = After(s)
             /\ UNCHANGED <<result, output, pipe>>
    <2>1. output' \in [Stream -> Int] /\ pipe' \in [Stream -> Nat] /\ closed' \subseteq Stream
      BY <1>4, <1>7
    <2>2. \A t \in Stream : output'[t] + pipe'[t] = written'[t] BY <1>3, <1>4, <1>7
    <2>3. \A t \in closed' : pipe'[t] = 0 /\ \A p \in Pid : t \notin proc[p].holds
      <3>1. CASE Holders(s) = {}
        <4>1. \A p \in Pid : s \notin proc[p].holds BY <3>1 DEF Holders
        <4> QED BY <1>1, <1>4, <1>7, <4>1
      <3>2. CASE Holders(s) # {} BY <1>4, <1>7, <3>2
      <3> QED BY <3>1, <3>2
    <2>4. pc' \in CallerAt \ {"enter", "launch", "drop", "dropWait", "returned"}
      BY <1>7 DEF CallerAt, After, Stream
    <2> QED BY <1>3, <1>7, <2>1, <2>2, <2>3, <2>4, GoStep
  <1> QED BY <1>2, <1>5, <1>6, <1>7

LEMMA LaunchStep == ASSUME CompilerInv, Launch PROVE CompilerInv'
  <1> DEFINE new == [state |-> "live", group |-> child', kin |-> "owned",
                     holds |-> Stream, success |-> FALSE]
  <1>1. /\ pc = "launch" /\ pc' = "setup"
        /\ proc' = [proc EXCEPT ![child'] = new]
        /\ UNCHANGED <<status, closed, output, result, pipe, written>>
    BY DEF Launch, worldVars
  <1>2. CompilerTypes /\ Launched /\ Grouped /\ Collected BY DEF CompilerInv
  <1>3. child = None /\ closed = {} /\ status = None /\ \A p \in Pid : proc[p] = Free
    BY <1>1, <1>2 DEF Launched
  <1>4. \A p \in Pid : ~Exists(p) BY <1>3, FreeFields DEF Exists
  <1>5. child' \in Pid
    <2>1. \E q \in Pid : Unused(q) BY <1>4, CompilerAssumption DEF Unused
    <2> QED BY <2>1 DEF Launch
  <1>6. new \in Process /\ new.kin = "owned" /\ new.state = "live" /\ new.group = child'
        /\ new.holds = Stream
    BY <1>5 DEF Process
  <1> HIDE DEF new
  <1>7. \A p \in Pid : proc'[p] = IF p = child' THEN new ELSE Free
    BY <1>1, <1>2, <1>3 DEF CompilerTypes
  <1>8. CompilerTypes' BY <1>1, <1>2, <1>5, <1>6 DEF CompilerTypes, CallerAt
  <1>9. Launched' BY <1>1, <1>5, CompilerAssumption DEF Launched
  <1>10. Grouped'
    <2> SUFFICES ASSUME NEW p \in Pid
        PROVE  /\ proc'[p].state = "free" => proc'[p].kin # "owned" /\ proc'[p].holds = {}
               /\ proc'[p].kin = "owned" => proc'[p].group = child'
               /\ proc'[p].state # "zombie"
      BY DEF Grouped, Owned
    <2> QED BY <1>6, <1>7, FreeFields
  <1>11. Killed' BY <1>1 DEF Killed
  <1>12. Collected'
    <2>1. result' = None BY <1>1, <1>2 DEF Collected
    <2>2. result # "limit" BY <1>1, <2>1, CompilerAssumption
    <2>3. \A s \in Stream : output'[s] + pipe'[s] = written'[s] BY <1>1, <1>2, <2>2 DEF Collected
    <2> QED BY <1>1, <1>3, <2>1, <2>3, CompilerAssumption DEF Collected
  <1> QED BY <1>8, <1>9, <1>10, <1>11, <1>12 DEF CompilerInv

\* A signal to the group, from wherever the caller sends it.
LEMMA SignalStep ==
    ASSUME CompilerInv, proc' = Signalled(child),
           UNCHANGED <<child, status, closed, output, result, pipe, written>>,
           \/ pc = "kill" /\ pc' = "finish"
           \/ pc = "drop" /\ pc' = "dropWait"
    PROVE  CompilerInv'
  <1>1. CompilerTypes /\ Launched /\ Grouped /\ Collected BY DEF CompilerInv
  <1>2. proc \in [Pid -> Process] BY <1>1 DEF CompilerTypes
  <1>3. /\ proc' \in [Pid -> Process]
        /\ \A p \in Pid :
              /\ proc'[p].kin = proc[p].kin
              /\ proc'[p].group = proc[p].group
              /\ proc'[p].holds = proc[p].holds
              /\ proc[p].state = "live" /\ proc[p].group = child => proc'[p].state = "dying"
              /\ proc[p].state # "live" \/ proc[p].group # child => proc'[p] = proc[p]
    BY <1>2, SignalledFields
  <1>4. child # None BY <1>1 DEF Launched
  <1>5. CompilerTypes' BY <1>1, <1>3 DEF CompilerTypes, CallerAt
  <1>6. Launched' BY <1>4 DEF Launched
  <1>7. Grouped'
    <2> SUFFICES ASSUME NEW p \in Pid
        PROVE  /\ proc'[p].state = "free" => proc'[p].kin # "owned" /\ proc'[p].holds = {}
               /\ proc'[p].kin = "owned" => proc'[p].group = child'
               /\ proc'[p].state = "zombie" => p = child' /\ status' = None
      BY DEF Grouped, Owned
    <2>1. CASE proc[p].state = "live" /\ proc[p].group = child
      BY <1>1, <1>3, <2>1 DEF Grouped, Owned
    <2>2. CASE ~(proc[p].state = "live" /\ proc[p].group = child)
      BY <1>1, <1>3, <2>2 DEF Grouped, Owned
    <2> QED BY <2>1, <2>2
  <1>8. Killed'
    <2>1. \A p \in Pid : proc'[p].kin = "owned" => proc'[p].state \in {"dying", "zombie"}
      <3> SUFFICES ASSUME NEW p \in Pid, proc'[p].kin = "owned"
          PROVE  proc'[p].state \in {"dying", "zombie"}
        OBVIOUS
      <3>1. proc[p].kin = "owned" /\ proc[p].group = child /\ proc[p].state # "free"
        BY <1>1, <1>3 DEF Grouped, Owned
      <3>2. proc[p].state \in {"free", "live", "dying", "zombie"} BY <1>2 DEF Process
      <3> QED BY <1>3, <3>1, <3>2
    <2> QED BY <2>1 DEF Killed, Owned
  <1>9. Collected' BY <1>1, <1>3 DEF Collected
  <1> QED BY <1>5, <1>6, <1>7, <1>8, <1>9 DEF CompilerInv

LEMMA KillDescendantsStep == ASSUME CompilerInv, KillDescendants PROVE CompilerInv'
  BY SignalStep DEF KillDescendants, worldVars

LEMMA DropKillStep == ASSUME CompilerInv, DropKill PROVE CompilerInv'
  BY SignalStep DEF DropKill, worldVars

\* The child is waited for: it was the only zombie.
LEMMA ReapStep ==
    ASSUME CompilerInv, Reap, child # None,
           UNCHANGED <<child, closed, output, result, pipe, written>>,
           \/ pc = "wait" /\ pc' = "kill"
           \/ pc = "dropWait" /\ pc' = "returned"
    PROVE  CompilerInv'
  <1>1. CompilerTypes /\ Launched /\ Grouped /\ Killed /\ Collected BY DEF CompilerInv
  <1>2. child \in Pid /\ proc \in [Pid -> Process] /\ proc' = [proc EXCEPT ![child] = Free]
    BY <1>1 DEF CompilerTypes, Reap
  <1>3. \A p \in Pid : proc'[p] = IF p = child THEN Free ELSE proc[p] BY <1>2
  <1>4. CompilerTypes' BY <1>1, <1>2, FreeFields DEF CompilerTypes, CallerAt
  <1>5. Launched' BY <1>1 DEF Launched
  <1>6. \A p \in Pid : proc'[p].state # "zombie" BY <1>1, <1>3, FreeFields DEF Grouped
  <1>7. Grouped'
    <2> SUFFICES ASSUME NEW p \in Pid
        PROVE  /\ proc'[p].state = "free" => proc'[p].kin # "owned" /\ proc'[p].holds = {}
               /\ proc'[p].kin = "owned" => proc'[p].group = child'
      BY <1>6 DEF Grouped, Owned
    <2> QED BY <1>1, <1>3, FreeFields DEF Grouped, Owned
  <1>8. Killed'
    <2>1. CASE pc' = "kill" BY <2>1 DEF Killed
    <2>2. CASE pc = "dropWait"
      <3> SUFFICES ASSUME NEW p \in Pid, proc'[p].kin = "owned"
          PROVE  proc'[p].state \in {"dying", "zombie"}
        BY <1>6 DEF Killed, Owned
      <3> QED BY <1>1, <1>3, <2>2, FreeFields DEF Killed, Owned
    <2> QED BY <2>1, <2>2
  <1>9. Collected'
    <2>1. \A s \in closed : \A p \in Pid : s \notin proc'[p].holds
      BY <1>1, <1>3, FreeFields DEF Collected
    <2> QED BY <1>1, <2>1 DEF Collected
  <1> QED BY <1>4, <1>5, <1>7, <1>8, <1>9 DEF CompilerInv

LEMMA TryWaitStep == ASSUME CompilerInv, TryWait PROVE CompilerInv'
  <1>1. pc = "wait" /\ UNCHANGED <<child, closed, output, result, pipe, written>>
    BY DEF TryWait, worldVars
  <1>2. child # None BY <1>1 DEF CompilerInv, Launched
  <1>3. CASE Reap /\ pc' = "kill" BY <1>1, <1>2, <1>3, ReapStep
  <1>4. CASE pc' = "finish" /\ UNCHANGED <<status, proc>>
    BY <1>1, <1>4, GoQuietly DEF CallerAt
  <1> QED BY <1>3, <1>4 DEF TryWait

LEMMA DropWaitStep == ASSUME CompilerInv, DropWait PROVE CompilerInv'
  <1>1. /\ pc = "dropWait" /\ pc' = "returned"
        /\ UNCHANGED <<child, status, closed, output, result, pipe, written>>
    BY DEF DropWait, worldVars
  <1>2. CompilerTypes /\ Launched /\ Grouped /\ Killed /\ Collected BY DEF CompilerInv
  <1>3. child # None BY <1>1, <1>2 DEF Launched
  <1>4. CASE status = None BY <1>1, <1>3, <1>4, ReapStep DEF DropWait
  <1>5. CASE status # None
    <2>1. proc' = proc BY <1>5 DEF DropWait
    <2>2. CompilerTypes' BY <1>1, <1>2, <2>1 DEF CompilerTypes, CallerAt
    <2>3. Launched' BY <1>1, <1>2, <2>1 DEF Launched
    <2>4. Grouped' BY <1>1, <1>2, <2>1 DEF Grouped, Owned
    <2>5. Killed' BY <1>1, <1>2, <1>5, <2>1 DEF Killed, Grouped, Owned
    <2>6. Collected' BY <1>1, <1>2, <2>1 DEF Collected
    <2> QED BY <2>2, <2>3, <2>4, <2>5, <2>6 DEF CompilerInv
  <1> QED BY <1>4, <1>5

\* A process changes, and no process holds a stream it could not have had
\* from one that did.
LEMMA MachineStep ==
    ASSUME CompilerInv, pc # "returned",
           UNCHANGED <<pc, child, status, closed, output, result, pipe, written>>,
           proc' \in [Pid -> Process],
           child = None => proc' = proc,
           \A p \in Pid :
              /\ proc'[p].state = "free" => proc'[p].kin # "owned" /\ proc'[p].holds = {}
              /\ proc'[p].kin = "owned" =>
                    /\ proc'[p].group = child
                    /\ pc = "dropWait" => proc'[p].state \in {"dying", "zombie"}
              /\ proc'[p].state = "zombie" => p = child /\ status = None
              /\ \A s \in proc'[p].holds : \E q \in Pid : s \in proc[q].holds
    PROVE  CompilerInv'
  <1>1. CompilerTypes /\ Launched /\ Collected BY DEF CompilerInv
  <1>2. CompilerTypes' BY <1>1 DEF CompilerTypes
  <1>3. Launched' BY <1>1 DEF Launched
  <1>4. Grouped' BY DEF Grouped, Owned
  <1>5. Killed' BY DEF Killed, Owned
  <1>6. Collected' BY <1>1 DEF Collected
  <1> QED BY <1>2, <1>3, <1>4, <1>5, <1>6 DEF CompilerInv

\* What MachineStep asks of a process that the step does not touch.
LEMMA OldProcess ==
    ASSUME CompilerInv, NEW p \in Pid
    PROVE  /\ proc[p] \in Process
           /\ proc[p].state = "free" => proc[p].kin # "owned" /\ proc[p].holds = {}
           /\ proc[p].kin = "owned" =>
                 /\ proc[p].group = child
                 /\ pc = "dropWait" => proc[p].state \in {"dying", "zombie"}
           /\ proc[p].state = "zombie" => p = child /\ status = None
           /\ child = None => proc[p].state = "free"
  BY FreeFields DEF CompilerInv, CompilerTypes, Launched, Grouped, Killed, Owned

LEMMA ForkStep ==
    ASSUME CompilerInv, pc # "returned", NEW p \in Pid, NEW q \in Pid, Fork(p, q)
    PROVE  CompilerInv'
  <1>1. /\ UNCHANGED <<pc, child, status, closed, output, result, pipe, written>>
        /\ proc' = [proc EXCEPT ![q] = proc[p]]
        /\ proc[p].state = "live"
    BY DEF Fork, callerVars, worldVars, Live
  <1>2. child # None BY <1>1, OldProcess
  <1>3. proc \in [Pid -> Process] BY DEF CompilerInv, CompilerTypes
  <1>4. proc' \in [Pid -> Process] BY <1>1, <1>3
  <1>5. \A r \in Pid : proc'[r] = proc[IF r = q THEN p ELSE r] BY <1>1, <1>3
  <1>6. ASSUME NEW r \in Pid
        PROVE /\ proc'[r].state = "free" => proc'[r].kin # "owned" /\ proc'[r].holds = {}
              /\ proc'[r].kin = "owned" =>
                    /\ proc'[r].group = child
                    /\ pc = "dropWait" => proc'[r].state \in {"dying", "zombie"}
              /\ proc'[r].state = "zombie" => r = child /\ status = None
              /\ \A s \in proc'[r].holds : \E u \in Pid : s \in proc[u].holds
    <2>1. CASE r = q
      <3>1. proc'[r] = proc[p] BY <1>5, <2>1
      <3> QED BY <1>1, <3>1, OldProcess
    <2>2. CASE r # q
      <3>1. proc'[r] = proc[r] BY <1>5, <2>2
      <3> QED BY <3>1, OldProcess
    <2> QED BY <2>1, <2>2
  <1> QED BY <1>1, <1>2, <1>4, <1>6, MachineStep

\* One process is replaced by one that asks no more of the group.
LEMMA ReplaceStep ==
    ASSUME CompilerInv, pc # "returned", NEW p \in Pid, NEW new \in Process,
           UNCHANGED <<pc, child, status, closed, output, result, pipe, written>>,
           proc' = [proc EXCEPT ![p] = new],
           proc[p].state # "free",
           new.holds \subseteq proc[p].holds,
           new.state = "free" => new.kin # "owned" /\ new.holds = {},
           new.kin = "owned" =>
              /\ new.group = child
              /\ pc = "dropWait" => new.state \in {"dying", "zombie"},
           new.state = "zombie" => p = child /\ status = None
    PROVE  CompilerInv'
  <1>1. child # None BY OldProcess
  <1>2. proc \in [Pid -> Process] BY DEF CompilerInv, CompilerTypes
  <1>3. proc' \in [Pid -> Process] BY <1>2
  <1>4. \A r \in Pid : proc'[r] = IF r = p THEN new ELSE proc[r] BY <1>2
  <1>5. ASSUME NEW r \in Pid
        PROVE /\ proc'[r].state = "free" => proc'[r].kin # "owned" /\ proc'[r].holds = {}
              /\ proc'[r].kin = "owned" =>
                    /\ proc'[r].group = child
                    /\ pc = "dropWait" => proc'[r].state \in {"dying", "zombie"}
              /\ proc'[r].state = "zombie" => r = child /\ status = None
              /\ \A s \in proc'[r].holds : \E u \in Pid : s \in proc[u].holds
    <2>1. CASE r = p
      <3>1. proc'[r] = new BY <1>4, <2>1
      <3> QED BY <2>1, <3>1
    <2>2. CASE r # p
      <3>1. proc'[r] = proc[r] BY <1>4, <2>2
      <3> QED BY <3>1, OldProcess
    <2> QED BY <2>1, <2>2
  <1> QED BY <1>1, <1>3, <1>5, MachineStep

LEMMA LeaveGroupStep ==
    ASSUME CompilerInv, pc # "returned", NEW p \in Pid, LeaveGroup(p) PROVE CompilerInv'
  <1> DEFINE elsewhere == IF p = child THEN None ELSE p
             new == [proc[p] EXCEPT !.group = elsewhere, !.kin = "detached"]
  <1>1. /\ UNCHANGED <<pc, child, status, closed, output, result, pipe, written>>
        /\ proc' = [proc EXCEPT ![p] = new]
        /\ proc[p].state = "live"
    BY DEF LeaveGroup, callerVars, worldVars, Live
  <1>2. proc[p] \in Process BY OldProcess
  <1>3. elsewhere \in Pid \cup {None} OBVIOUS
  <1> HIDE DEF elsewhere
  <1>4. new \in Process /\ new.kin = "detached" /\ new.state = "live" /\ new.holds = proc[p].holds
    BY <1>1, <1>2, <1>3 DEF Process
  <1> HIDE DEF new
  <1> QED BY <1>1, <1>4, ReplaceStep

\* A process that ends is freed, or is the zombie the caller waits for.
LEMMA EndStep ==
    ASSUME CompilerInv, pc # "returned", NEW p \in Pid, NEW success \in BOOLEAN,
           proc' = [proc EXCEPT ![p] = Ended(p, success)], proc[p].state # "free",
           UNCHANGED <<pc, child, status, closed, output, result, pipe, written>>
    PROVE  CompilerInv'
  <1>1. CASE Ended(p, success) = Free BY <1>1, FreeFields, ReplaceStep
  <1>2. CASE /\ p = child /\ status = None
             /\ Ended(p, success) =
                   [proc[p] EXCEPT !.state = "zombie", !.holds = {}, !.success = success]
    <2> DEFINE new == Ended(p, success)
    <2>1. proc[p] \in Process /\ (proc[p].kin = "owned" => proc[p].group = child)
      BY OldProcess
    <2>2. /\ new \in Process /\ new.kin = proc[p].kin /\ new.state = "zombie"
          /\ new.group = proc[p].group /\ new.holds = {}
      BY <1>2, <2>1 DEF Process
    <2>3. proc' = [proc EXCEPT ![p] = new] OBVIOUS
    <2> HIDE DEF new
    <2>4. /\ new.kin = "owned" =>
                /\ new.group = child
                /\ pc = "dropWait" => new.state \in {"dying", "zombie"}
          /\ new.state # "free" /\ new.holds \subseteq proc[p].holds
      BY <2>1, <2>2
    <2>5. new \in Process BY <2>2
    <2> HIDE DEF Process
    <2> QED BY <1>2, <2>3, <2>4, <2>5, ReplaceStep
  <1> QED BY <1>1, <1>2 DEF Ended

LEMMA WriteStep ==
    ASSUME CompilerInv, NEW p \in Pid, NEW s \in Stream, Write(p, s) PROVE CompilerInv'
  <1>1. /\ UNCHANGED <<pc, child, status, closed, output, result, proc>>
        /\ pipe' = [pipe EXCEPT ![s] = @ + 1]
        /\ written' = [written EXCEPT ![s] = @ + 1]
        /\ s \in proc[p].holds
    BY DEF Write, callerVars
  <1>2. CompilerTypes /\ Launched /\ Grouped /\ Killed /\ Collected BY DEF CompilerInv
  <1>3. CompilerTypes' BY <1>1, <1>2 DEF CompilerTypes
  <1>4. Launched' BY <1>1, <1>2 DEF Launched
  <1>5. Grouped' BY <1>1, <1>2 DEF Grouped, Owned
  <1>6. Killed' BY <1>1, <1>2 DEF Killed, Owned
  <1>7. Collected'
    <2>1. output \in [Stream -> Int] /\ pipe \in [Stream -> Nat] /\ written \in [Stream -> Nat]
      BY <1>2 DEF CompilerTypes
    <2>2. s \notin closed BY <1>1, <1>2 DEF Collected
    <2>3. result # "limit" => \A t \in Stream : output'[t] + pipe'[t] = written'[t]
      <3> SUFFICES ASSUME result # "limit", NEW t \in Stream
          PROVE  output[t] + pipe'[t] = written'[t]
        BY <1>1
      <3>1. output[t] + pipe[t] = written[t] BY <1>2 DEF Collected
      <3> QED BY <1>1, <2>1, <3>1
    <2>4. \A t \in closed : pipe'[t] = 0 /\ \A u \in Pid : t \notin proc[u].holds
      <3> SUFFICES ASSUME NEW t \in closed PROVE pipe'[t] = pipe[t]
        BY <1>2 DEF Collected
      <3>1. t \in Stream BY <1>2 DEF CompilerTypes
      <3> QED BY <1>1, <2>1, <2>2, <3>1
    <2> QED BY <1>1, <1>2, <2>3, <2>4 DEF Collected
  <1> QED BY <1>3, <1>4, <1>5, <1>6, <1>7 DEF CompilerInv

LEMMA CompilerStill ==
    ASSUME CompilerInv,
           UNCHANGED <<pc, child, status, closed, output, result, proc, pipe, written>>
    PROVE  CompilerInv'
  <1>1. CompilerTypes' BY DEF CompilerInv, CompilerTypes
  <1>2. Launched' BY DEF CompilerInv, Launched
  <1>3. Grouped' BY DEF CompilerInv, Grouped, Owned
  <1>4. Killed' BY DEF CompilerInv, Killed, Owned
  <1>5. Collected' BY DEF CompilerInv, Collected
  <1> QED BY <1>1, <1>2, <1>3, <1>4, <1>5 DEF CompilerInv

LEMMA CompilerStart == ASSUME Init PROVE CompilerInv
  <1>1. /\ pc = "enter" /\ child = None /\ status = None /\ closed = {} /\ result = None
        /\ output = [s \in Stream |-> 0] /\ pipe = [s \in Stream |-> 0]
        /\ written = [s \in Stream |-> 0] /\ proc = [p \in Pid |-> Free]
    BY DEF Init
  <1>2. CompilerTypes BY <1>1, FreeFields DEF CompilerTypes, CallerAt
  <1>3. \A p \in Pid : proc[p] = Free BY <1>1
  <1>4. Launched BY <1>1, <1>3 DEF Launched
  <1>5. Grouped BY <1>3, FreeFields DEF Grouped, Owned
  <1>6. Killed BY <1>1 DEF Killed
  <1>7. Collected BY <1>1, CompilerAssumption DEF Collected
  <1> QED BY <1>2, <1>4, <1>5, <1>6, <1>7 DEF CompilerInv

\* Every state of an invocation satisfies the invariant: one step per action
\* of the caller and of the machine.
THEOREM CompilerInvariant == Spec => []CompilerInv
  <1>1. ASSUME CompilerInv, [Next]_vars PROVE CompilerInv'
    <2>1. CASE Caller
      <3>1. CASE Enter BY <1>1, <3>1, EnterStep
      <3>2. CASE Launch BY <1>1, <3>2, LaunchStep
      <3>3. CASE \E busy \in BOOLEAN : LaunchFails(busy) BY <1>1, <3>3, LaunchFailsStep
      <3>4. CASE \E ok \in BOOLEAN : Setup(ok) BY <1>1, <3>4, SetupStep
      <3>5. CASE Poll BY <1>1, <3>5, PollStep
      <3>6. CASE \E s \in Stream : Skip(s) \/ Read(s) BY <1>1, <3>6, SkipStep, ReadStep
      <3>7. CASE \E s \in Stream, i \in BOOLEAN : ReadDisturbed(s, i)
        BY <1>1, <3>7, ReadDisturbedStep
      <3>8. CASE TryWait BY <1>1, <3>8, TryWaitStep
      <3>9. CASE TryWaitFails BY <1>1, <3>9, TryWaitFailsStep
      <3>10. CASE KillDescendants BY <1>1, <3>10, KillDescendantsStep
      <3>11. CASE Finish BY <1>1, <3>11, FinishStep
      <3>12. CASE DropKill BY <1>1, <3>12, DropKillStep
      <3>13. CASE DropWait BY <1>1, <3>13, DropWaitStep
      <3> QED
        BY <2>1, <3>1, <3>2, <3>3, <3>4, <3>5, <3>6, <3>7, <3>8, <3>9, <3>10, <3>11, <3>12,
           <3>13 DEF Caller
    <2>2. CASE Machine
      <3>1. pc # "returned" BY <2>2 DEF Machine
      <3>2. CASE \E p, q \in Pid : Fork(p, q) BY <1>1, <3>1, <3>2, ForkStep
      <3>3. ASSUME NEW p \in Pid, LeaveGroup(p) PROVE CompilerInv'
        BY <1>1, <3>1, <3>3, LeaveGroupStep
      <3>4. ASSUME NEW p \in Pid, Die(p) PROVE CompilerInv'
        <4>1. /\ proc[p].state # "free" /\ proc' = [proc EXCEPT ![p] = Ended(p, FALSE)]
              /\ UNCHANGED <<pc, child, status, closed, output, result, pipe, written>>
          BY <3>4 DEF Die, callerVars, worldVars
        <4> QED BY <1>1, <3>1, <4>1, EndStep
      <3>5. ASSUME NEW p \in Pid, NEW s \in Stream, Write(p, s) PROVE CompilerInv'
        BY <1>1, <3>5, WriteStep
      <3>6. ASSUME NEW p \in Pid, NEW success \in BOOLEAN, Exit(p, success)
            PROVE  CompilerInv'
        <4>1. /\ proc[p].state # "free" /\ proc' = [proc EXCEPT ![p] = Ended(p, success)]
              /\ UNCHANGED <<pc, child, status, closed, output, result, pipe, written>>
          BY <3>6 DEF Exit, Live, callerVars, worldVars
        <4> QED BY <1>1, <3>1, <4>1, EndStep
      <3>7. CASE Expire \/ Cancel
        <4>1. UNCHANGED <<pc, child, status, closed, output, result, proc, pipe, written>>
          BY <3>7 DEF Expire, Cancel, callerVars
        <4> QED BY <1>1, <4>1, CompilerStill
      <3> QED BY <2>2, <3>2, <3>3, <3>4, <3>5, <3>6, <3>7 DEF Machine
    <2>3. CASE UNCHANGED vars
      <3>1. UNCHANGED <<pc, child, status, closed, output, result, proc, pipe, written>>
        BY <2>3 DEF vars, callerVars, machineVars, worldVars
      <3> QED BY <1>1, <3>1, CompilerStill
    <2> QED BY <1>1, <2>1, <2>2, <2>3 DEF Next
  <1> QED BY <1>1, CompilerStart, PTL DEF Spec

\* SuccessIsComplete, for any number of processes and any sizes: what run
\* returns with success is all that was ever written to the two streams, and
\* no process, detached ones included, can still write to them.
THEOREM SuccessStaysComplete == Spec => []SuccessIsComplete
  <1>1. CompilerInv => SuccessIsComplete
    <2> SUFFICES ASSUME CompilerInv, result = "ok", NEW s \in Stream
        PROVE  output[s] = written[s] /\ Holders(s) = {}
      BY DEF SuccessIsComplete
    <2>1. CompilerTypes /\ Collected BY DEF CompilerInv
    <2>2. output[s] \in Int /\ pipe[s] = 0 /\ output[s] + pipe[s] = written[s]
          /\ \A p \in Pid : s \notin proc[p].holds
      BY <2>1 DEF CompilerTypes, Collected
    <2> QED BY <2>2 DEF Holders
  <1> QED BY <1>1, CompilerInvariant, PTL

\* NoSurvivors, for any number of processes: by every way out of run, errors
\* included, the guard's drop has reaped the compiler, wherever it had moved,
\* and left nothing that stayed in its group alive but what is already dying.
THEOREM NoneSurvive == Spec => []NoSurvivors
  <1>1. CompilerInv => NoSurvivors
    BY DEF CompilerInv, Killed, NoSurvivors, Owned
  <1> QED BY <1>1, CompilerInvariant, PTL

----------------------------------------------------------------------------
(* Incremental verification: what the selection keeps                      *)

\* Two sets of calls that agree on a set neither leaves reach the same.
LEMMA ReachEqual ==
    ASSUME NEW K \in SUBSET Fn, NEW start \in SUBSET K, NEW m, NEW n,
           \A g \in K : m[g] = n[g] /\ m[g] \subseteq K
    PROVE  Closure(start, m) = Closure(start, n) /\ Closure(start, m) \subseteq K
  <1>1. ASSUME NEW u, NEW w, \A g \in K : u[g] = w[g] /\ u[g] \subseteq K,
               NEW h \in Closure(start, u), NEW C \in SUBSET Fn, start \subseteq C,
               \A g \in C : w[g] \subseteq C
        PROVE  h \in C /\ h \in K
    <2> DEFINE D == C \cap K
    <2>1. D \in SUBSET Fn /\ start \subseteq D BY <1>1
    <2>2. \A g \in D : u[g] \subseteq D BY <1>1
    <2>3. h \in D BY <1>1, <2>1, <2>2 DEF Closure
    <2> QED BY <2>3
  <1>2. Closure(start, m) \subseteq K
    <2>1. K \in SUBSET Fn /\ start \subseteq K /\ \A g \in K : m[g] \subseteq K OBVIOUS
    <2> QED BY <2>1 DEF Closure
  <1>3. Closure(start, m) \subseteq Closure(start, n)
    <2> SUFFICES ASSUME NEW h \in Closure(start, m), NEW C \in SUBSET Fn, start \subseteq C,
                        \A g \in C : n[g] \subseteq C
        PROVE  h \in C
      BY DEF Closure
    <2> QED BY <1>1
  <1>4. Closure(start, n) \subseteq Closure(start, m)
    <2> SUFFICES ASSUME NEW h \in Closure(start, n), NEW C \in SUBSET Fn, start \subseteq C,
                        \A g \in C : m[g] \subseteq C
        PROVE  h \in C
      BY DEF Closure
    <2>1. \A g \in K : n[g] = m[g] /\ n[g] \subseteq K OBVIOUS
    <2> QED BY <1>1, <2>1
  <1> QED BY <1>2, <1>3, <1>4

\* What a run reads: a version of the sidecar with the C sources of another.
WithSources(x, y) == [x EXCEPT !.body = y.body, !.header = y.header]

Snapshot == File \cup {WithSources(x, y) : x, y \in File}

\* A function that the selection passes over is one of the baseline, and its
\* proof reads there, tactics apart, what it reads now.
LEMMA ReusedIsSame ==
    ASSUME NEW x \in Snapshot, NEW b \in File,
           ~SharedEnvironmentChanged(x, b), x.target = b.target,
           NEW f \in Functions(x), f \notin Affected(x, b)
    PROVE  f \in Functions(b) /\ UpToTactics(View(x, f)) = UpToTactics(View(b, f))
  <1>1. f \in Fn /\ f \notin Closure(Changed(x, b), [g \in Fn |-> Callers(x, b, g)])
    BY DEF Functions, Affected
  <1>2. PICK C \in SUBSET Fn : /\ Changed(x, b) \subseteq C
                               /\ \A g \in C : Callers(x, b, g) \subseteq C
                               /\ f \notin C
    BY <1>1 DEF Closure
  <1> DEFINE K == {g \in Fn \ C : b.block[g] # Absent}
  <1>3. WellFormed(b) BY IncrementalAssumption
  <1>4. ASSUME NEW g \in Fn \ C, g \in Functions(x) \cup Functions(b)
        PROVE  x.block[g] = b.block[g] /\ x.body[g] = b.body[g]
    BY <1>2, <1>4 DEF Changed
  <1>5. f \in K BY <1>1, <1>2, <1>4 DEF Functions
  <1>6. ASSUME NEW g \in K
        PROVE  Calls(x, g) = Calls(b, g) /\ Calls(x, g) \subseteq K
    <2>1. g \in Fn \ C /\ g \in Functions(b) BY DEF Functions
    <2>2. Calls(x, g) = Calls(b, g) BY <1>4, <2>1 DEF Calls
    <2>3. ASSUME NEW h \in Calls(b, g) PROVE h \in K
      <3>1. h \in Fn /\ b.block[h] # Absent BY <1>3, <2>1, <2>3 DEF Calls, WellFormed
      <3>2. g \in Callers(x, b, h) BY <2>1, <2>3 DEF Callers
      <3> QED BY <1>2, <2>1, <3>1, <3>2
    <2> QED BY <2>2, <2>3
  <1> DEFINE cx == [g \in Fn |-> Calls(x, g)]
             cb == [g \in Fn |-> Calls(b, g)]
             px == [g \in Closure({f}, cx) |->
                      <<x.block[g], x.body[g],
                        IF g \in IncludesHeader /\ x.body[g] # Absent THEN x.header ELSE Absent>>]
             pb == [g \in Closure({f}, cb) |->
                      <<b.block[g], b.body[g],
                        IF g \in IncludesHeader /\ b.body[g] # Absent THEN b.header ELSE Absent>>]
  <1>7. Closure({f}, cx) = Closure({f}, cb) /\ Closure({f}, cx) \subseteq K
    <2>1. \A g \in K : cx[g] = cb[g] /\ cx[g] \subseteq K BY <1>6
    <2>2. K \in SUBSET Fn OBVIOUS
    <2>3. {f} \in SUBSET K BY <1>5
    <2> HIDE DEF K, cx, cb
    <2> QED BY <2>1, <2>2, <2>3, ReachEqual
  <1>8. px = pb
    <2>1. ASSUME NEW g \in K
          PROVE  /\ x.block[g] = b.block[g] /\ x.body[g] = b.body[g]
                 /\ g \in IncludesHeader /\ x.body[g] # Absent => x.header = b.header
      <3>1. g \in Fn \ C /\ g \in Functions(b) BY DEF Functions
      <3>2. x.block[g] = b.block[g] /\ x.body[g] = b.body[g] BY <1>4, <3>1
      <3>3. ASSUME g \in IncludesHeader, x.body[g] # Absent, x.header # b.header PROVE FALSE
        <4>1. g \in Changed(x, b) BY <3>3 DEF Changed
        <4> QED BY <1>2, <3>1, <4>1
      <3> QED BY <3>2, <3>3
    <2>2. \A g \in Closure({f}, cx) :
             <<x.block[g], x.body[g],
               IF g \in IncludesHeader /\ x.body[g] # Absent THEN x.header ELSE Absent>>
           = <<b.block[g], b.body[g],
               IF g \in IncludesHeader /\ b.body[g] # Absent THEN b.header ELSE Absent>>
      <3> HIDE DEF K, cx
      <3> QED BY <1>7, <2>1
    <2> HIDE DEF cx, cb
    <2> QED BY <1>7, <2>2
  <1>9. View(x, f) = [fn |-> f, shared |-> x.shared, target |-> x.target,
                      tactics |-> x.tactics, parts |-> px]
    BY DEF View
  <1>10. View(b, f) = [fn |-> f, shared |-> b.shared, target |-> b.target,
                       tactics |-> b.tactics, parts |-> pb]
    BY DEF View
  <1>11. f \in Functions(b) BY <1>5 DEF Functions
  <1> HIDE DEF px, pb
  <1>12. UpToTactics(View(x, f)) = <<f, x.shared, x.target, px>> BY <1>9 DEF UpToTactics
  <1>13. UpToTactics(View(b, f)) = <<f, b.shared, b.target, pb>> BY <1>10 DEF UpToTactics
  <1> QED BY <1>8, <1>11, <1>12, <1>13 DEF SharedEnvironmentChanged

----------------------------------------------------------------------------
(* Incremental verification: the invariant                                 *)

AllProved(exe, env, x, fns, P) == Proofs(exe, env, x, fns) \subseteq P

AllChecked(exe, env, x, fns, P) == \A f \in fns : Checked(exe, env, x, f, P)

Run ==
    [pc : {"load", "select", "verify", "record", "attest"}, exe : Exe,
     print : Exe \cup {Absent}, env : Switches, sidecar : Sidecar,
     base : Nat \cup {Absent}, sorry : BOOLEAN, snap : Snapshot, full : BOOLEAN,
     selected : SUBSET Fn, todo : Seq(Nat)]

\* A run's print, if read, is of the executable it runs.  What it does not
\* have to prove is checked, tactics apart, and everything is proved once it
\* may leave markers.  Its commits exist.
RunSound(r, C, P) ==
    /\ r \in Run
    /\ r.print \in {Absent, r.exe}
    /\ r.base # Absent => r.base \in DOMAIN C
    /\ r.pc = "load" => r.snap \in File
    /\ r.pc = "select" => r.base # Absent
    /\ r.pc = "verify" =>
          /\ r.full => Functions(r.snap) \subseteq r.selected
          /\ AllChecked(r.exe, r.env, r.snap, Functions(r.snap) \ r.selected, P)
    /\ r.pc \in {"record", "attest"} => AllProved(r.exe, r.env, r.snap, Functions(r.snap), P)
    /\ r.pc = "attest" => Len(r.todo) > 0 /\ \A i \in DOMAIN r.todo : r.todo[i] \in DOMAIN C

MarkerSound(m, C, P) ==
    /\ m.commit \in DOMAIN C /\ m.sidecar \in Sidecar
    /\ m.target = C[m.commit][m.sidecar].target
    /\ AllProved(m.verifier, m.env, C[m.commit][m.sidecar],
                 Functions(C[m.commit][m.sidecar]), P)

VerdictSound(d, P) ==
    d # Absent => AllChecked(d.exe, d.env, d.snap, Functions(d.snap), P)

Repository ==
    /\ work \in [Sidecar -> File]
    /\ commits \in Seq([Sidecar -> File])
    /\ head \in DOMAIN commits
    /\ installed \in Exe

IncrementalInv ==
    /\ Repository
    /\ run \in [Verifier -> Run \cup {Idle}]
    /\ verdict = [v \in Verifier |-> verdict[v]]
    /\ \A k \in DOMAIN markers : MarkerSound(markers[k], commits, proved)
    /\ \A v \in Verifier : run[v] # Idle => RunSound(run[v], commits, proved)
    /\ \A v \in Verifier : VerdictSound(verdict[v], proved)

\* C2 has every commit of C, unchanged, and P2 every proof of P.
Grown(C, C2, P, P2) ==
    /\ DOMAIN C \subseteq DOMAIN C2 /\ \A c \in DOMAIN C : C2[c] = C[c]
    /\ P \subseteq P2

LEMMA AllProvedFacts ==
    ASSUME NEW exe, NEW env, NEW x, NEW fns, NEW P
    PROVE  /\ \A P2 : P \subseteq P2 /\ AllProved(exe, env, x, fns, P)
                 => AllProved(exe, env, x, fns, P2)
           /\ AllProved(exe, env, x, {}, P)
           /\ \A most : AllProved(exe, env, x, fns \ most, P) /\ most \subseteq fns
                 => AllProved(exe, env, x, fns, P \cup Proofs(exe, env, x, most))
  BY DEF AllProved, Proofs

LEMMA AllCheckedFacts ==
    ASSUME NEW exe, NEW env, NEW x, NEW fns, NEW P
    PROVE  /\ \A P2 : P \subseteq P2 /\ AllChecked(exe, env, x, fns, P)
                 => AllChecked(exe, env, x, fns, P2)
           /\ AllChecked(exe, env, x, {}, P)
           /\ \A most : AllChecked(exe, env, x, fns \ most, P) /\ Proofs(exe, env, x, most) \subseteq P
                 => AllChecked(exe, env, x, fns, P)
  <1>1. ASSUME NEW f, <<exe, env, View(x, f)>> \in P PROVE Checked(exe, env, x, f, P)
    <2> DEFINE p == <<exe, env, View(x, f)>>
    <2>1. p \in P /\ p[1] = exe /\ p[2] = env /\ p[3] = View(x, f) BY <1>1
    <2> HIDE DEF p
    <2> QED BY <2>1 DEF Checked
  <1>2. ASSUME NEW P2, P \subseteq P2, AllChecked(exe, env, x, fns, P)
        PROVE  AllChecked(exe, env, x, fns, P2)
    BY <1>2 DEF AllChecked, Checked
  <1>3. AllChecked(exe, env, x, {}, P) BY DEF AllChecked
  <1>4. ASSUME NEW most, AllChecked(exe, env, x, fns \ most, P),
               Proofs(exe, env, x, most) \subseteq P
        PROVE  AllChecked(exe, env, x, fns, P)
    <2> SUFFICES ASSUME NEW f \in fns PROVE Checked(exe, env, x, f, P) BY DEF AllChecked
    <2>1. CASE f \in most BY <1>1, <1>4, <2>1 DEF Proofs
    <2>2. CASE f \notin most BY <1>4, <2>2 DEF AllChecked
    <2> QED BY <2>1, <2>2
  <1> QED BY <1>2, <1>3, <1>4

LEMMA KeepSound ==
    ASSUME NEW C, NEW C2, NEW P, NEW P2, Grown(C, C2, P, P2)
    PROVE  /\ \A r : RunSound(r, C, P) => RunSound(r, C2, P2)
           /\ \A m : MarkerSound(m, C, P) => MarkerSound(m, C2, P2)
           /\ \A d : VerdictSound(d, P) => VerdictSound(d, P2)
  <1>1. \A r : RunSound(r, C, P) => RunSound(r, C2, P2)
    BY AllProvedFacts, AllCheckedFacts DEF Grown, RunSound
  <1>2. \A m : MarkerSound(m, C, P) => MarkerSound(m, C2, P2)
    BY AllProvedFacts DEF Grown, MarkerSound
  <1>3. \A d : VerdictSound(d, P) => VerdictSound(d, P2)
    BY AllCheckedFacts DEF Grown, VerdictSound
  <1> QED BY <1>1, <1>2, <1>3

----------------------------------------------------------------------------
(* Incremental verification: its steps                                     *)

\* A run goes on: to r, having proved more, left a marker or reported d.
LEMMA RunStep ==
    ASSUME IncrementalInv, NEW v \in Verifier, NEW r,
           run' = [run EXCEPT ![v] = r], r = Idle \/ RunSound(r, commits, proved'),
           UNCHANGED <<work, commits, head, installed>>,
           proved \subseteq proved',
           \A k \in DOMAIN markers' :
              \/ k \in DOMAIN markers /\ markers'[k] = markers[k]
              \/ MarkerSound(markers'[k], commits, proved'),
           \/ verdict' = verdict
           \/ \E d : verdict' = [verdict EXCEPT ![v] = d] /\ VerdictSound(d, proved')
    PROVE  IncrementalInv'
  <1>1. Grown(commits, commits, proved, proved') BY DEF Grown
  <1>2. Repository' BY DEF IncrementalInv, Repository
  <1>3. r \in Run \cup {Idle} BY DEF RunSound
  <1>4. run' \in [Verifier -> Run \cup {Idle}]
        /\ \A u \in Verifier : run'[u] = IF u = v THEN r ELSE run[u]
    BY <1>3 DEF IncrementalInv
  <1>5. verdict' = [u \in Verifier |-> verdict'[u]] BY DEF IncrementalInv
  <1>6. \A k \in DOMAIN markers' : MarkerSound(markers'[k], commits, proved')
    BY <1>1, KeepSound DEF IncrementalInv
  <1>7. \A u \in Verifier : run'[u] # Idle => RunSound(run'[u], commits, proved')
    BY <1>1, <1>4, KeepSound DEF IncrementalInv
  <1>8. \A u \in Verifier : VerdictSound(verdict'[u], proved')
    <2>1. \A u \in Verifier : VerdictSound(verdict[u], proved')
      BY <1>1, KeepSound DEF IncrementalInv
    <2>2. CASE verdict' = verdict BY <2>1, <2>2
    <2>3. ASSUME NEW d, verdict' = [verdict EXCEPT ![v] = d], VerdictSound(d, proved')
          PROVE  \A u \in Verifier : VerdictSound(verdict'[u], proved')
      <3>1. \A u \in Verifier : verdict'[u] = IF u = v THEN d ELSE verdict[u]
        BY <2>3 DEF IncrementalInv
      <3> QED BY <2>1, <2>3, <3>1
    <2> QED BY <2>2, <2>3
  <1>9. commits' = commits OBVIOUS
  <1> QED BY <1>2, <1>4, <1>5, <1>6, <1>7, <1>8, <1>9 DEF IncrementalInv

\* The user or nobody does something: commits are only added.
LEMMA UserStep ==
    ASSUME IncrementalInv, UNCHANGED <<markers, run, proved, verdict>>,
           Repository', Grown(commits, commits', proved, proved)
    PROVE  IncrementalInv'
  <1>1. \A k \in DOMAIN markers' : MarkerSound(markers'[k], commits', proved')
    BY KeepSound DEF IncrementalInv
  <1>2. \A v \in Verifier : run'[v] # Idle => RunSound(run'[v], commits', proved')
    BY KeepSound DEF IncrementalInv
  <1>3. \A v \in Verifier : VerdictSound(verdict'[v], proved') BY DEF IncrementalInv
  <1> QED BY <1>1, <1>2, <1>3 DEF IncrementalInv

LEMMA AtRun ==
    ASSUME IncrementalInv, NEW v \in Verifier, run[v].pc # "idle"
    PROVE  RunSound(run[v], commits, proved) /\ run[v] \in Run
  <1>1. run[v] # Idle BY DEF Idle
  <1>2. RunSound(run[v], commits, proved) BY <1>1 DEF IncrementalInv
  <1> QED BY <1>2 DEF RunSound

LEMMA FingerprintOwn ==
    ASSUME ~ExeByPath, NEW r, r.print \in {Absent, r.exe}
    PROVE  Fingerprint(r) \in {Absent, r.exe}
  BY DEF Fingerprint

LEMMA StartStep ==
    ASSUME IncrementalInv, NEW v \in Verifier, NEW s \in Sidecar,
           NEW base \in DOMAIN commits \cup {Absent}, NEW env \in Switches,
           NEW sorry \in BOOLEAN, Start(v, s, base, env, sorry)
    PROVE  IncrementalInv'
  <1> DEFINE r == [pc |-> "load", exe |-> installed, print |-> Absent, env |-> env,
                   sidecar |-> s, base |-> base, sorry |-> sorry,
                   snap |-> work[s], full |-> base = Absent, selected |-> {},
                   todo |-> <<>>]
  <1>1. /\ run' = [run EXCEPT ![v] = r]
        /\ verdict' = [verdict EXCEPT ![v] = Absent]
        /\ UNCHANGED <<work, commits, head, markers, installed, proved>>
    BY DEF Start, Goto
  <1>2. base \in Nat \cup {Absent} /\ work[s] \in File /\ installed \in Exe
    BY DEF IncrementalInv, Repository
  <1>3. r \in Run BY <1>2 DEF Run, Snapshot
  <1>4. RunSound(r, commits, proved) BY <1>2, <1>3 DEF RunSound
  <1>5. VerdictSound(Absent, proved) BY DEF VerdictSound
  <1> HIDE DEF r
  <1> QED BY <1>1, <1>4, <1>5, RunStep

LEMMA LoadStep ==
    ASSUME IncrementalInv, NEW v \in Verifier, Load(v) PROVE IncrementalInv'
  <1> DEFINE r == run[v]
             snap == WithSources(r.snap, work[r.sidecar])
             new == [r EXCEPT !.snap = snap, !.selected = Functions(snap),
                              !.pc = IF r.base = Absent THEN "verify" ELSE "select"]
  <1>1. /\ r.pc = "load" /\ run' = [run EXCEPT ![v] = new]
        /\ UNCHANGED <<work, commits, head, markers, installed, proved, verdict>>
    BY DEF Load, Goto, WithSources
  <1>2. RunSound(r, commits, proved) /\ r \in Run BY <1>1, AtRun
  <1>3. snap \in Snapshot
    <2>1. r.snap \in File BY <1>1, <1>2 DEF RunSound
    <2>2. r.sidecar \in Sidecar BY <1>2 DEF Run
    <2>3. work[r.sidecar] \in File BY <2>2 DEF IncrementalInv, Repository
    <2> HIDE DEF r
    <2> QED BY <2>1, <2>3 DEF Snapshot
  <1>4. Functions(snap) \in SUBSET Fn BY DEF Functions
  <1> HIDE DEF snap, r
  <1>5. /\ new \in Run /\ new.snap = snap /\ new.selected = Functions(snap)
        /\ new.pc = IF r.base = Absent THEN "verify" ELSE "select"
        /\ new.base = r.base /\ new.print = r.print /\ new.exe = r.exe
    BY <1>2, <1>3, <1>4 DEF Run
  <1> HIDE DEF new
  <1>6. Functions(new.snap) \ new.selected = {} BY <1>5
  <1>7. AllChecked(new.exe, new.env, new.snap, Functions(new.snap) \ new.selected, proved)
    BY <1>6, AllCheckedFacts
  <1>8. RunSound(new, commits, proved) BY <1>2, <1>5, <1>6, <1>7 DEF RunSound
  <1> QED BY <1>1, <1>8, RunStep

\* What the markers of the baseline let a run take over was checked.
LEMMA SelectionSound ==
    ASSUME IncrementalInv, NEW r \in Run, NEW print, r.base \in DOMAIN commits,
           print = r.exe,
           HasFullVerificationMarker(r.base, r.sidecar, print, r.env, r.snap.target),
           ~SharedEnvironmentChanged(r.snap, commits[r.base][r.sidecar])
    PROVE  AllChecked(r.exe, r.env, r.snap,
                      Functions(r.snap) \ Affected(r.snap, commits[r.base][r.sidecar]), proved)
  <1> DEFINE b == commits[r.base][r.sidecar]
             k == Slot(r.base, r.sidecar)
             m == markers[k]
  <1>1. k \in DOMAIN markers
        /\ m = MarkerContents(r.base, r.sidecar, print, r.env, r.snap.target)
    BY DEF HasFullVerificationMarker, ValidMarker
  <1>2. /\ m.commit = r.base /\ m.sidecar = r.sidecar /\ m.verifier = print /\ m.env = r.env
        /\ m.target = r.snap.target
    BY <1>1 DEF MarkerContents
  <1>3. MarkerSound(m, commits, proved) BY <1>1 DEF IncrementalInv
  <1>4. AllProved(r.exe, r.env, b, Functions(b), proved) /\ b.target = r.snap.target
    BY <1>2, <1>3 DEF MarkerSound
  <1>5. b \in File
    <2>1. r.sidecar \in Sidecar BY DEF Run
    <2>2. commits[r.base] \in [Sidecar -> File] BY DEF IncrementalInv, Repository
    <2> QED BY <2>1, <2>2
  <1>6. r.snap \in Snapshot BY DEF Run
  <1> HIDE DEF b, m, k
  <1>7. ASSUME NEW f \in Functions(r.snap) \ Affected(r.snap, b)
        PROVE  Checked(r.exe, r.env, r.snap, f, proved)
    <2> DEFINE p == <<r.exe, r.env, View(b, f)>>
    <2>1. f \in Functions(b) /\ UpToTactics(View(r.snap, f)) = UpToTactics(View(b, f))
      BY <1>4, <1>5, <1>6, ReusedIsSame DEF b
    <2>2. p \in proved BY <1>4, <2>1 DEF AllProved, Proofs
    <2>3. p[1] = r.exe /\ p[2] = r.env /\ p[3] = View(b, f) OBVIOUS
    <2> HIDE DEF p
    <2> QED BY <2>1, <2>2, <2>3 DEF Checked
  <1> QED BY <1>7 DEF AllChecked, b

LEMMA SelectStep ==
    ASSUME ~ExeByPath, IncrementalInv, NEW v \in Verifier, Select(v) PROVE IncrementalInv'
  <1> DEFINE r == run[v]
             print == Fingerprint(r)
             base == commits[r.base][r.sidecar]
             selection == SelectionOf(r, print)
             new == [r EXCEPT !.pc = "verify", !.print = print,
                        !.full = selection.full, !.selected = selection.selected]
             report == [exe |-> r.exe, env |-> r.env, snap |-> r.snap]
  <1>1. /\ r.pc = "select"
        /\ UNCHANGED <<work, commits, head, markers, installed, proved>>
        /\ \/ run' = [run EXCEPT ![v] = Idle] /\ UNCHANGED verdict
           \/ /\ print # Absent /\ ~selection.full /\ selection.selected = {}
              /\ run' = [run EXCEPT ![v] = Idle]
              /\ verdict' = [verdict EXCEPT ![v] = report]
           \/ /\ print # Absent
              /\ run' = [run EXCEPT ![v] = new]
              /\ UNCHANGED verdict
    BY DEF Select, Goto, Report
  <1>2. RunSound(r, commits, proved) /\ r \in Run BY <1>1, AtRun
  <1>3. r.base \in DOMAIN commits /\ print \in {Absent, r.exe} /\ r.exe \in Exe
    BY <1>1, <1>2, FingerprintOwn DEF RunSound, Run
  <1> HIDE DEF r, print
  <1>4. /\ selection.full \in BOOLEAN /\ selection.selected \in SUBSET Fn
        /\ selection.full => Functions(r.snap) \subseteq selection.selected
        /\ ~selection.full =>
              /\ HasFullVerificationMarker(r.base, r.sidecar, print, r.env, r.snap.target)
              /\ ~SharedEnvironmentChanged(r.snap, base)
              /\ selection.selected = Affected(r.snap, base)
    BY DEF SelectionOf, Selection, Functions, Affected
  <1>5. print # Absent =>
           AllChecked(r.exe, r.env, r.snap, Functions(r.snap) \ selection.selected, proved)
    <2> SUFFICES ASSUME print # Absent
        PROVE  AllChecked(r.exe, r.env, r.snap, Functions(r.snap) \ selection.selected, proved)
      OBVIOUS
    <2>1. CASE selection.full
      <3>1. Functions(r.snap) \ selection.selected = {} BY <1>4, <2>1
      <3> QED BY <3>1, AllCheckedFacts
    <2>2. CASE ~selection.full
      <3> HIDE DEF selection
      <3>1. print = r.exe BY <1>3
      <3> QED BY <1>2, <1>3, <1>4, <2>2, <3>1, SelectionSound
    <2> QED BY <1>4, <2>1, <2>2
  <1> HIDE DEF selection, base
  <1>6. CASE run' = [run EXCEPT ![v] = Idle] /\ UNCHANGED verdict
    BY <1>1, <1>6, RunStep
  <1>7. CASE /\ print # Absent /\ selection.selected = {}
             /\ run' = [run EXCEPT ![v] = Idle]
             /\ verdict' = [verdict EXCEPT ![v] = report]
    <2>1. Functions(r.snap) \ selection.selected = Functions(r.snap) BY <1>7
    <2>2. VerdictSound(report, proved) BY <1>5, <1>7, <2>1 DEF VerdictSound
    <2> HIDE DEF report
    <2> QED BY <1>1, <1>7, <2>2, RunStep
  <1>8. CASE print # Absent /\ run' = [run EXCEPT ![v] = new] /\ UNCHANGED verdict
    <2>1. /\ new \in Run /\ new.pc = "verify" /\ new.print = print /\ new.exe = r.exe
          /\ new.env = r.env /\ new.snap = r.snap /\ new.base = r.base
          /\ new.full = selection.full /\ new.selected = selection.selected
      <3>1. print \in Exe \cup {Absent} BY <1>3
      <3> QED BY <1>2, <1>4, <3>1 DEF Run
    <2> HIDE DEF new
    <2>2. RunSound(new, commits, proved)
      BY <1>3, <1>4, <1>5, <1>8, <2>1 DEF RunSound
    <2> QED BY <1>1, <1>8, <2>2, RunStep
  <1> QED BY <1>1, <1>6, <1>7, <1>8

LEMMA VerifyStep ==
    ASSUME IncrementalInv, NEW v \in Verifier, NEW admitted, Verify(v, admitted)
    PROVE  IncrementalInv'
  <1> DEFINE r == run[v]
             new == [r EXCEPT !.pc = "record"]
             report == [exe |-> r.exe, env |-> r.env, snap |-> r.snap]
  <1>1. /\ r.pc = "verify"
        /\ UNCHANGED <<work, commits, head, markers, installed>>
        /\ proved' = proved \cup Proofs(r.exe, r.env, r.snap, r.selected \ admitted)
        /\ \/ r.full /\ admitted = {} /\ run' = [run EXCEPT ![v] = new]
           \/ run' = [run EXCEPT ![v] = Idle]
        /\ \/ admitted = {} /\ verdict' = [verdict EXCEPT ![v] = report]
           \/ UNCHANGED verdict
    BY DEF Verify, Goto, Report, Attestable
  <1>2. RunSound(r, commits, proved) /\ r \in Run BY <1>1, AtRun
  <1>3. new \in Run /\ new.pc = "record" /\ new.print = r.print /\ new.exe = r.exe
        /\ new.env = r.env /\ new.snap = r.snap /\ new.base = r.base
    BY <1>2 DEF Run
  <1> HIDE DEF r, new
  <1>4. admitted = {} =>
          /\ r.full => AllProved(r.exe, r.env, r.snap, Functions(r.snap), proved')
          /\ AllChecked(r.exe, r.env, r.snap, Functions(r.snap), proved')
    <2> SUFFICES ASSUME admitted = {}
        PROVE  /\ r.full => AllProved(r.exe, r.env, r.snap, Functions(r.snap), proved')
               /\ AllChecked(r.exe, r.env, r.snap, Functions(r.snap), proved')
      OBVIOUS
    <2>1. Proofs(r.exe, r.env, r.snap, r.selected) \subseteq proved' BY <1>1
    <2>2. r.full => Functions(r.snap) \subseteq r.selected BY <1>1, <1>2 DEF RunSound
    <2>3. AllChecked(r.exe, r.env, r.snap, Functions(r.snap) \ r.selected, proved)
      BY <1>1, <1>2 DEF RunSound
    <2>4. proved \subseteq proved' BY <1>1
    <2>5. AllChecked(r.exe, r.env, r.snap, Functions(r.snap) \ r.selected, proved')
      BY <2>3, <2>4, AllCheckedFacts
    <2>6. r.full => AllProved(r.exe, r.env, r.snap, Functions(r.snap), proved')
      BY <2>1, <2>2 DEF AllProved, Proofs
    <2> QED BY <2>1, <2>5, <2>6, AllCheckedFacts
  <1>5. ASSUME r.full, admitted = {} PROVE RunSound(new, commits, proved')
    BY <1>2, <1>3, <1>4, <1>5 DEF RunSound
  <1>6. ASSUME admitted = {} PROVE VerdictSound(report, proved')
    BY <1>4, <1>6 DEF VerdictSound
  <1> HIDE DEF report
  <1>7. proved \subseteq proved' BY <1>1
  <1>8. PICK next : run' = [run EXCEPT ![v] = next]
                    /\ (next = Idle \/ RunSound(next, commits, proved'))
    BY <1>1, <1>5
  <1>9. \/ verdict' = verdict
        \/ \E d : verdict' = [verdict EXCEPT ![v] = d] /\ VerdictSound(d, proved')
    BY <1>1, <1>6
  <1> QED BY <1>1, <1>7, <1>8, <1>9, RunStep

LEMMA AbortStep ==
    ASSUME IncrementalInv, NEW v \in Verifier, Abort(v) PROVE IncrementalInv'
  BY RunStep DEF Abort, Goto

LEMMA RecordStep ==
    ASSUME IncrementalInv, NEW v \in Verifier, Record(v) PROVE IncrementalInv'
  <1> DEFINE r == run[v]
             todo == <<head>> \o IF r.base = Absent THEN <<>> ELSE <<r.base>>
             new == [r EXCEPT !.pc = "attest", !.todo = todo]
  <1>1. /\ r.pc = "record" /\ run' = [run EXCEPT ![v] = new]
        /\ UNCHANGED <<work, commits, head, markers, installed, proved, verdict>>
    BY DEF Record, Goto
  <1>2. RunSound(r, commits, proved) /\ r \in Run BY <1>1, AtRun
  <1>3. todo \in Seq(Nat) /\ Len(todo) > 0 /\ \A i \in DOMAIN todo : todo[i] \in DOMAIN commits
    <2>1. head \in DOMAIN commits /\ DOMAIN commits \subseteq Nat
      BY DEF IncrementalInv, Repository
    <2>2. CASE r.base = Absent
      <3>1. todo = <<head>> BY <2>2
      <3> QED BY <2>1, <3>1
    <2>3. CASE r.base # Absent
      <3>1. r.base \in DOMAIN commits BY <1>2, <2>3 DEF RunSound
      <3>2. todo = <<head>> \o <<r.base>> BY <2>3
      <3>3. <<head>> \in Seq(Nat) /\ <<r.base>> \in Seq(Nat) BY <2>1, <3>1
      <3>4. todo \in Seq(Nat) /\ Len(todo) = 2 /\ todo[1] = head /\ todo[2] = r.base
        BY <3>2, <3>3
      <3>5. \A i \in DOMAIN todo : i = 1 \/ i = 2 BY <3>4
      <3> QED BY <2>1, <3>1, <3>4, <3>5
    <2> QED BY <2>2, <2>3
  <1> HIDE DEF r, todo
  <1>4. new \in Run /\ new.pc = "attest" /\ new.print = r.print /\ new.exe = r.exe
        /\ new.env = r.env /\ new.snap = r.snap /\ new.base = r.base /\ new.todo = todo
    BY <1>2, <1>3 DEF Run
  <1> HIDE DEF new
  <1>5. RunSound(new, commits, proved) BY <1>1, <1>2, <1>3, <1>4 DEF RunSound
  <1> QED BY <1>1, <1>5, RunStep

LEMMA AttestStep ==
    ASSUME ~ExeByPath, IncrementalInv, NEW v \in Verifier, Attest(v) PROVE IncrementalInv'
  <1> DEFINE r == run[v]
             c == Head(r.todo)
             matches == BaselineMatchesVerified(c, r.sidecar, r.snap)
             print == IF matches THEN Fingerprint(r) ELSE r.print
             m == MarkerContents(c, r.sidecar, print, r.env, r.snap.target)
             new == [r EXCEPT !.print = print, !.todo = Tail(@)]
  <1>1. /\ r.pc = "attest"
        /\ UNCHANGED <<work, commits, head, installed, proved, verdict>>
        /\ \/ matches /\ print # Absent /\ markers' = WithMarker(c, r.sidecar, m)
           \/ UNCHANGED markers
        /\ \/ run' = [run EXCEPT ![v] = Idle]
           \/ Len(r.todo) # 1 /\ run' = [run EXCEPT ![v] = new]
    BY DEF Attest, Goto
  <1>2. RunSound(r, commits, proved) /\ r \in Run BY <1>1, AtRun
  <1>3. print \in {Absent, r.exe} BY <1>2, FingerprintOwn DEF RunSound
  <1>4. r.todo \in Seq(Nat) /\ Len(r.todo) > 0 /\ \A i \in DOMAIN r.todo : r.todo[i] \in DOMAIN commits
    BY <1>1, <1>2 DEF RunSound, Run
  <1>5. c \in DOMAIN commits BY <1>4
  <1> HIDE DEF r, print
  <1>6. ASSUME matches, print # Absent PROVE MarkerSound(m, commits, proved)
    <2>1. commits[c][r.sidecar] = r.snap BY <1>6 DEF BaselineMatchesVerified
    <2>2. /\ m.commit = c /\ m.sidecar = r.sidecar /\ m.verifier = r.exe /\ m.env = r.env
          /\ m.target = r.snap.target
      BY <1>3, <1>6 DEF MarkerContents
    <2>3. r.sidecar \in Sidecar BY <1>2 DEF Run
    <2>4. AllProved(r.exe, r.env, r.snap, Functions(r.snap), proved)
      BY <1>1, <1>2 DEF RunSound
    <2> HIDE DEF m
    <2> QED BY <1>5, <2>1, <2>2, <2>3, <2>4 DEF MarkerSound
  <1> HIDE DEF m, matches
  <1>7. \A k \in DOMAIN markers' :
           \/ k \in DOMAIN markers /\ markers'[k] = markers[k]
           \/ MarkerSound(markers'[k], commits, proved')
    <2>1. CASE UNCHANGED markers BY <2>1
    <2>2. CASE matches /\ print # Absent /\ markers' = WithMarker(c, r.sidecar, m)
      BY <1>1, <1>6, <2>2 DEF WithMarker
    <2> QED BY <1>1, <2>1, <2>2
  <1>8. ASSUME Len(r.todo) # 1 PROVE RunSound(new, commits, proved)
    <2> DEFINE rest == Tail(r.todo)
    <2>1. rest \in Seq(Nat) /\ Len(rest) > 0 /\ \A i \in DOMAIN rest : rest[i] \in DOMAIN commits
      <3>1. Len(r.todo) > 1
        <4>1. Len(r.todo) \in Nat BY <1>4
        <4>2. \A n \in Nat : n > 0 /\ n # 1 => n > 1 OBVIOUS
        <4> QED BY <1>4, <1>8, <4>1, <4>2
      <3>2. rest \in Seq(Nat) /\ Len(rest) = Len(r.todo) - 1 BY <1>4
      <3>3. \A i \in DOMAIN rest : i + 1 \in DOMAIN r.todo /\ rest[i] = r.todo[i + 1]
        BY <1>4, <3>2
      <3>4. Len(rest) > 0 BY <1>4, <3>1, <3>2
      <3>5. \A i \in DOMAIN rest : rest[i] \in DOMAIN commits
        <4> HIDE DEF rest
        <4> TAKE i \in DOMAIN rest
        <4>1. i + 1 \in DOMAIN r.todo /\ rest[i] = r.todo[i + 1] BY <3>3
        <4> QED BY <1>4, <4>1
      <3> QED BY <3>2, <3>4, <3>5
    <2> HIDE DEF rest
    <2>2. /\ new \in Run /\ new.pc = r.pc /\ new.print = print /\ new.exe = r.exe
          /\ new.env = r.env /\ new.snap = r.snap /\ new.base = r.base /\ new.todo = rest
      <3>1. print \in Exe \cup {Absent} BY <1>2, <1>3 DEF Run
      <3>2. new = [r EXCEPT !.print = print, !.todo = rest] BY <1>2 DEF rest, Run
      <3> QED BY <1>2, <2>1, <3>1, <3>2 DEF Run
    <2> HIDE DEF new
    <2> QED BY <1>1, <1>2, <1>3, <2>1, <2>2 DEF RunSound
  <1> HIDE DEF new, c
  <1>9. CASE run' = [run EXCEPT ![v] = Idle] BY <1>1, <1>7, <1>9, RunStep
  <1>10. CASE Len(r.todo) # 1 /\ run' = [run EXCEPT ![v] = new]
    BY <1>1, <1>7, <1>8, <1>10, RunStep
  <1> QED BY <1>1, <1>9, <1>10

LEMMA RepositoryStep ==
    ASSUME IncrementalInv,
           \/ \E s \in Sidecar, x \in File : Edit(s, x)
           \/ Commit
           \/ \E c \in Commits : Checkout(c)
           \/ \E e \in Exe : Install(e)
    PROVE  IncrementalInv'
  <1>1. /\ work \in [Sidecar -> File] /\ commits \in Seq([Sidecar -> File])
        /\ head \in DOMAIN commits /\ installed \in Exe
    BY DEF IncrementalInv, Repository
  <1>2. CASE \E s \in Sidecar, x \in File : Edit(s, x)
    <2>1. Repository' BY <1>1, <1>2 DEF Edit, Repository
    <2>2. Grown(commits, commits', proved, proved) BY <1>2 DEF Edit, Grown
    <2>3. UNCHANGED <<markers, run, proved, verdict>> BY <1>2 DEF Edit
    <2> QED BY <2>1, <2>2, <2>3, UserStep
  <1>3. CASE Commit
    <2>1. commits' = Append(commits, work) /\ head' = Len(commits')
          /\ UNCHANGED <<work, markers, installed, run, proved, verdict>>
      BY <1>3 DEF Commit
    <2>2. commits' \in Seq([Sidecar -> File]) /\ Len(commits') = Len(commits) + 1
          /\ \A c \in DOMAIN commits : c \in DOMAIN commits' /\ commits'[c] = commits[c]
      BY <1>1, <2>1
    <2>3. head' \in DOMAIN commits' BY <1>1, <2>1, <2>2
    <2>4. Repository' BY <1>1, <2>1, <2>2, <2>3 DEF Repository
    <2>5. Grown(commits, commits', proved, proved) BY <2>2 DEF Grown
    <2> QED BY <2>1, <2>4, <2>5, UserStep
  <1>4. CASE \E c \in Commits : Checkout(c)
    <2>1. Repository' BY <1>1, <1>4 DEF Checkout, Repository, Commits
    <2>2. Grown(commits, commits', proved, proved) BY <1>4 DEF Checkout, Grown
    <2>3. UNCHANGED <<markers, run, proved, verdict>> BY <1>4 DEF Checkout
    <2> QED BY <2>1, <2>2, <2>3, UserStep
  <1>5. CASE \E e \in Exe : Install(e)
    <2>1. Repository' BY <1>1, <1>5 DEF Install, Repository
    <2>2. Grown(commits, commits', proved, proved) BY <1>5 DEF Install, Grown
    <2>3. UNCHANGED <<markers, run, proved, verdict>> BY <1>5 DEF Install
    <2> QED BY <2>1, <2>2, <2>3, UserStep
  <1> QED BY <1>2, <1>3, <1>4, <1>5

LEMMA IncrementalStart == ASSUME IncrementalInit PROVE IncrementalInv
  <1>1. /\ work \in [Sidecar -> File] /\ commits = <<work>> /\ head = 1 /\ installed \in Exe
        /\ markers = [k \in {} |-> Absent] /\ run = [v \in Verifier |-> Idle]
        /\ verdict = [v \in Verifier |-> Absent]
    BY DEF IncrementalInit
  <1>2. Repository
    <2>1. commits \in Seq([Sidecar -> File]) /\ Len(commits) = 1 BY <1>1
    <2> QED BY <1>1, <2>1 DEF Repository
  <1>3. \A k \in DOMAIN markers : MarkerSound(markers[k], commits, proved) BY <1>1
  <1>4. run \in [Verifier -> Run \cup {Idle}] /\ \A v \in Verifier : run[v] = Idle BY <1>1
  <1>5. \A v \in Verifier : VerdictSound(verdict[v], proved) BY <1>1 DEF VerdictSound
  <1>6. verdict = [v \in Verifier |-> verdict[v]] BY <1>1
  <1> QED BY <1>2, <1>3, <1>4, <1>5, <1>6 DEF IncrementalInv

\* Every state of the verifiers and their repository satisfies the invariant,
\* where an executable is fingerprinted as the file it was started from.
THEOREM IncrementalInvariant ==
    ASSUME ~ExeByPath PROVE IncrementalSpec => []IncrementalInv
  <1>1. ASSUME IncrementalInv, [IncrementalNext]_incrementalVars PROVE IncrementalInv'
    <2>1. ASSUME NEW v \in Verifier, NEW s \in Sidecar, NEW base \in Commits \cup {Absent},
                 NEW env \in Switches, NEW sorry \in AllowSorry,
                 Start(v, s, base, env, sorry)
          PROVE  IncrementalInv'
      BY <1>1, <2>1, StartStep, IncrementalAssumption DEF Commits
    <2>2. ASSUME NEW v \in Verifier,
                 Load(v) \/ Select(v) \/ Abort(v) \/ Record(v) \/ Attest(v)
          PROVE  IncrementalInv'
      BY <1>1, <2>2, LoadStep, SelectStep, AbortStep, RecordStep, AttestStep
    <2>3. ASSUME NEW v \in Verifier, NEW admitted \in SUBSET Fn, Verify(v, admitted)
          PROVE  IncrementalInv'
      BY <1>1, <2>3, VerifyStep
    <2>4. CASE \/ \E s \in Sidecar, x \in File : Edit(s, x)
               \/ Commit
               \/ \E c \in Commits : Checkout(c)
               \/ \E e \in Exe : Install(e)
      BY <1>1, <2>4, RepositoryStep
    <2>5. CASE UNCHANGED incrementalVars
      <3>1. UNCHANGED <<work, commits, head, installed, markers, run, proved, verdict>>
        BY <2>5 DEF incrementalVars
      <3>2. Repository' BY <1>1, <3>1 DEF IncrementalInv, Repository
      <3>3. Grown(commits, commits', proved, proved) BY <3>1 DEF Grown
      <3> QED BY <1>1, <3>1, <3>2, <3>3, UserStep
    <2> QED BY <1>1, <2>1, <2>2, <2>3, <2>4, <2>5 DEF IncrementalNext
  <1> QED BY <1>1, IncrementalStart, PTL DEF IncrementalSpec

\* MarkersAttestProofs, for any verifiers, commits, sidecars and functions: a
\* marker names an executable that has checked every proof of that commit's
\* sidecar (record_full_verification), whatever the user did meanwhile.
THEOREM MarkersStaySound ==
    ASSUME ~ExeByPath PROVE IncrementalSpec => []MarkersAttestProofs
  <1>1. IncrementalInv => MarkersAttestProofs
    BY DEF IncrementalInv, MarkerSound, MarkersAttestProofs, AllProved
  <1> QED BY <1>1, IncrementalInvariant, PTL

\* VerdictsAreProvedUpToTactics, for any verifiers, commits, sidecars,
\* functions and edits: what c0_incremental_selection reuses was checked by
\* this executable with the contracts, bodies, headers and shared declarations
\* it would be checked with now.
THEOREM VerdictsStayProved ==
    ASSUME ~ExeByPath PROVE IncrementalSpec => []VerdictsAreProvedUpToTactics
  <1>1. IncrementalInv => VerdictsAreProvedUpToTactics
    BY DEF IncrementalInv, VerdictSound, VerdictsAreProvedUpToTactics, AllChecked
  <1> QED BY <1>1, IncrementalInvariant, PTL

----------------------------------------------------------------------------
(* Fact contexts, for any number of contexts and conditions                *)

ContextsInv == ContextTypes /\ BranchesReadTheirFacts

LEMMA FactsAreFunctions ==
    ASSUME NEW f \in Facts
    PROVE  /\ Expressed(f) \in Facts
           /\ f # Cleared
           /\ \A p \in Conditions, truth \in Truths \cup {"none"} : With(f, p, truth) \in Facts
           /\ \A kept \in SUBSET Conditions : Selected(f, kept) \in Facts
<1>1. \A p \in Conditions : f[p] \in {"true", "false", "none"}
  BY DEF Facts, Truths
<1>2. f # Cleared
  <2>1. PICK p \in Conditions : TRUE
    BY ConditionsAssumption
  <2>2. f[p] # Cleared[p]
    BY <1>1, <2>1 DEF Cleared
  <2> QED BY <2>2
<1> QED BY <1>1, <1>2 DEF Facts, Expressed, Truths, With, Selected

(* The graph extended by one fact is the graph of the extended facts.       *)
LEMMA ExtendedIsExpressed ==
    ASSUME NEW f \in Facts, NEW p \in Conditions, NEW truth
    PROVE  /\ p \in Expressible => With(Expressed(f), p, truth) = Expressed(With(f, p, truth))
           /\ p \notin Expressible => Expressed(f) = Expressed(With(f, p, truth))
BY DEF Facts, Expressed, With

LEMMA NoFactsExpressed == NoFacts \in Facts /\ Expressed(NoFacts) = NoFacts
BY DEF NoFacts, Facts, Expressed

LEMMA ContextsStart == ContextsInit => ContextsInv
<1> SUFFICES ASSUME ContextsInit PROVE ContextsInv
  OBVIOUS
<1>1. ContextTypes
  BY NoFactsExpressed DEF ContextsInit, ContextTypes
<1>2. BranchesReadTheirFacts
  BY NoFactsExpressed DEF ContextsInit, BranchesReadTheirFacts
<1> QED BY <1>1, <1>2 DEF ContextsInv

(* A context that moves to a new cell disturbs no other.                    *)
LEMMA PointKeepsOthers ==
    ASSUME ContextTypes, NEW c \in live, NEW k \in Cells, NEW content, Point(c, k, content)
    PROVE  /\ cell' \in [Contexts -> Cells]
           /\ graph'[cell'[c]] = content
           /\ content \in Facts \cup {Cleared} => graph' \in [Cells -> Facts \cup {Cleared}]
           /\ \A d \in live : d # c => graph'[cell'[d]] = graph[cell[d]]
BY DEF ContextTypes, Point, IsNew

LEMMA GraphWithdrawKeeps ==
    ASSUME ContextsInv, NEW c \in live, NEW p \in Conditions, NEW truth \in Truths \cup {"none"},
           GraphWithdraw(c, p), UNCHANGED live,
           facts' = [facts EXCEPT ![c] = With(@, p, truth)]
    PROVE  ContextsInv'
<1>1. facts' \in [Contexts -> Facts] /\ facts[c] \in Facts
  BY FactsAreFunctions DEF ContextsInv, ContextTypes
<1>2. CASE p \notin Expressible
  <2>1. UNCHANGED <<live, cell, graph, forgot>>
    BY <1>2 DEF GraphWithdraw, Keep
  <2>2. \A d \in live : Expressed(facts'[d]) = Expressed(facts[d])
    BY <1>1, <1>2, ExtendedIsExpressed DEF ContextsInv, ContextTypes
  <2> QED BY <1>1, <2>1, <2>2 DEF ContextsInv, ContextTypes, BranchesReadTheirFacts
<1>3. CASE p \in Expressible
  <2>1. forgot' = forgot \cup {c}
    BY <1>3 DEF GraphWithdraw
  <2>2. PICK k \in Cells : Point(c, k, Cleared)
    BY <1>3 DEF GraphWithdraw
  <2>3. \A d \in live \ forgot' : graph'[cell'[d]] = graph[cell[d]] /\ facts'[d] = facts[d]
    BY <2>1, <2>2, PointKeepsOthers DEF ContextsInv, ContextTypes
  <2>4. BranchesReadTheirFacts'
    BY <2>1, <2>3 DEF ContextsInv, BranchesReadTheirFacts
  <2>5. ContextTypes'
    BY <1>1, <2>1, <2>2, PointKeepsOthers DEF ContextsInv, ContextTypes
  <2> QED BY <2>4, <2>5 DEF ContextsInv
<1> QED BY <1>2, <1>3

LEMMA AssumeKeeps ==
    ASSUME ContextsInv, NEW c \in Contexts, NEW p \in Conditions, NEW truth \in Truths, Assume(c, p, truth)
    PROVE  ContextsInv'
<1>1. c \in live /\ UNCHANGED <<live, forgot>> /\ GraphAssume(c, p, truth)
      /\ facts' = [facts EXCEPT ![c] = With(@, p, truth)]
  BY DEF Assume
<1>2. facts' \in [Contexts -> Facts] /\ facts[c] \in Facts
  BY <1>1, FactsAreFunctions DEF ContextsInv, ContextTypes
<1>3. CASE p \notin Expressible \/ graph[cell[c]] = Cleared
  <2>1. UNCHANGED <<cell, graph>>
    BY <1>1, <1>3 DEF GraphAssume, Keep
  <2>2. \A d \in live \ forgot : Expressed(facts'[d]) = Expressed(facts[d])
    <3>1. graph[cell[c]] = Cleared => c \in forgot
      BY <1>1, <1>2, FactsAreFunctions DEF ContextsInv, BranchesReadTheirFacts
    <3>2. p \notin Expressible => Expressed(facts'[c]) = Expressed(facts[c])
      BY <1>1, <1>2, ExtendedIsExpressed DEF ContextsInv, ContextTypes
    <3> QED BY <1>1, <1>3, <3>1, <3>2 DEF ContextsInv, ContextTypes
  <2> QED BY <1>1, <1>2, <2>1, <2>2 DEF ContextsInv, ContextTypes, BranchesReadTheirFacts
<1>4. CASE p \in Expressible /\ graph[cell[c]] # Cleared
  <2> DEFINE content == With(graph[cell[c]], p, truth)
  <2>1. PICK k \in Cells : Point(c, k, content)
    BY <1>1, <1>4 DEF GraphAssume
  <2>2. content \in Facts
    BY <1>1, <1>4, FactsAreFunctions DEF ContextsInv, ContextTypes
  <2>3. c \notin forgot => content = Expressed(facts'[c])
    BY <1>1, <1>2, <1>4, ExtendedIsExpressed DEF ContextsInv, ContextTypes, BranchesReadTheirFacts
  <2> HIDE DEF content
  <2>4. \A d \in live \ forgot : d # c =>
            graph'[cell'[d]] = graph[cell[d]] /\ facts'[d] = facts[d]
    BY <1>1, <2>1, PointKeepsOthers DEF ContextsInv, ContextTypes
  <2>5. graph'[cell'[c]] = content
    BY <1>1, <2>1, PointKeepsOthers DEF ContextsInv
  <2>6. BranchesReadTheirFacts'
    BY <1>1, <2>3, <2>4, <2>5 DEF ContextsInv, BranchesReadTheirFacts
  <2>7. ContextTypes'
    BY <1>1, <1>2, <2>1, <2>2, PointKeepsOthers DEF ContextsInv, ContextTypes
  <2> QED BY <2>6, <2>7 DEF ContextsInv
<1> QED BY <1>3, <1>4

LEMMA RestrictKeeps ==
    ASSUME ContextsInv, NEW c \in Contexts, NEW kept \in SUBSET Conditions, RestrictContext(c, kept)
    PROVE  ContextsInv'
<1> DEFINE selected == Selected(facts[c], kept)
<1>1. c \in live /\ UNCHANGED live /\ forgot' = forgot \ {c}
      /\ facts' = [facts EXCEPT ![c] = selected]
  BY DEF RestrictContext
<1>2. PICK k \in Cells : Point(c, k, Expressed(selected))
  BY DEF RestrictContext
<1>3. selected \in Facts /\ Expressed(selected) \in Facts
  BY FactsAreFunctions DEF ContextsInv, ContextTypes
<1> HIDE DEF selected
<1>4. \A d \in live \ forgot : d # c => graph'[cell'[d]] = graph[cell[d]] /\ facts'[d] = facts[d]
  BY <1>1, <1>2, PointKeepsOthers DEF ContextsInv, ContextTypes
<1>5. graph'[cell'[c]] = Expressed(facts'[c])
  BY <1>1, <1>2, PointKeepsOthers DEF ContextsInv, ContextTypes
<1>6. BranchesReadTheirFacts'
  BY <1>1, <1>4, <1>5 DEF ContextsInv, BranchesReadTheirFacts
<1>7. ContextTypes'
  BY <1>1, <1>2, <1>3, PointKeepsOthers DEF ContextsInv, ContextTypes
<1> QED BY <1>6, <1>7 DEF ContextsInv

(* Only a context that withdrew a fact can find a cleared cell, so the      *)
(* rebuild of one is seen by no context outside forgot.                     *)
LEMMA AskKeeps ==
    ASSUME ContextsInv, NEW c \in Contexts, Ask(c)
    PROVE  ContextsInv'
<1>1. c \in live /\ graph[cell[c]] = Cleared /\ UNCHANGED <<live, facts, cell, forgot>>
      /\ graph' = [graph EXCEPT ![cell[c]] = Expressed(facts[c])]
  BY DEF Ask
<1>2. \A d \in live \ forgot : cell[d] # cell[c]
  <2>1. \A d \in live : Expressed(facts[d]) # Cleared
    BY FactsAreFunctions DEF ContextsInv, ContextTypes
  <2> QED BY <1>1, <2>1 DEF ContextsInv, BranchesReadTheirFacts
<1>3. ContextTypes'
  BY <1>1, FactsAreFunctions DEF ContextsInv, ContextTypes
<1>4. BranchesReadTheirFacts'
  BY <1>1, <1>2 DEF ContextsInv, ContextTypes, BranchesReadTheirFacts
<1> QED BY <1>3, <1>4 DEF ContextsInv

LEMMA CloneKeeps ==
    ASSUME ContextsInv, NEW c \in Contexts, NEW d \in Contexts, Clone(c, d)
    PROVE  ContextsInv'
<1>1. ContextTypes'
  BY DEF ContextsInv, ContextTypes, Clone
<1>2. BranchesReadTheirFacts'
  BY DEF ContextsInv, ContextTypes, Clone, BranchesReadTheirFacts
<1> QED BY <1>1, <1>2 DEF ContextsInv

LEMMA ContextsStep == ContextsInv /\ [ContextsNext]_contextVars => ContextsInv'
<1> SUFFICES ASSUME ContextsInv, [ContextsNext]_contextVars PROVE ContextsInv'
  OBVIOUS
<1>1. CASE UNCHANGED contextVars
  BY <1>1 DEF ContextsInv, ContextTypes, BranchesReadTheirFacts, contextVars
<1>2. ASSUME NEW c \in Contexts, NEW p \in Conditions, Replace(c, p)
      PROVE  ContextsInv'
  <2>1. Opposite(facts[c][p]) \in Truths
    BY DEF Opposite, Truths
  <2> QED BY <1>2, <2>1, GraphWithdrawKeeps DEF Replace
<1>3. ASSUME NEW c \in Contexts, NEW p \in Conditions, Forget(c, p)
      PROVE  ContextsInv'
  BY <1>3, GraphWithdrawKeeps DEF Forget
<1>4. ASSUME NEW c \in Contexts, Drop(c)
      PROVE  ContextsInv'
  BY <1>4 DEF ContextsInv, ContextTypes, BranchesReadTheirFacts, Drop
<1> QED
  BY <1>1, <1>2, <1>3, <1>4, AssumeKeeps, RestrictKeeps, AskKeeps, CloneKeeps DEF ContextsNext

(* Whatever contexts are cloned, changed, asked and dropped, one without a  *)
(* withdrawn fact in its history reads the graph of exactly its facts.      *)
THEOREM GraphsOfBranches == ContextsSpec => []BranchesReadTheirFacts
<1>1. ContextsInv => BranchesReadTheirFacts
  BY DEF ContextsInv
<1> QED BY ContextsStart, ContextsStep, <1>1, PTL DEF ContextsSpec

(* A graph is never changed under a context that reads it: no action        *)
(* writes a cell that is referred to unless it is cleared.                  *)
THEOREM BuiltGraphsAreFixed == ContextsSpec => BuiltGraphsStay
<1> DEFINE Stays == \A c \in live \cap live' :
                graph[cell[c]] # Cleared /\ cell'[c] = cell[c] => graph'[cell[c]] = graph[cell[c]]
<1>1. ContextsInv /\ [ContextsNext]_contextVars => [Stays]_contextVars
  <2> SUFFICES ASSUME ContextsInv, ContextsNext PROVE Stays
    BY DEF contextVars
  <2>1. ASSUME NEW c \in Contexts, NEW k \in Cells, NEW content, Point(c, k, content)
        PROVE  Stays
    BY <2>1 DEF Point, IsNew, ContextsInv, ContextTypes
  <2>2. ASSUME NEW c \in Contexts, NEW p \in Conditions, GraphWithdraw(c, p)
        PROVE  Stays
    BY <2>1, <2>2 DEF GraphWithdraw, Keep
  <2>3. ASSUME NEW c \in Contexts, NEW p \in Conditions, NEW truth \in Truths, Assume(c, p, truth)
        PROVE  Stays
    BY <2>1, <2>3 DEF Assume, GraphAssume, Keep
  <2>4. ASSUME NEW c \in Contexts, Ask(c)
        PROVE  Stays
    BY <2>4 DEF Ask, ContextsInv, ContextTypes
  <2>5. ASSUME NEW c \in Contexts, NEW kept \in SUBSET Conditions, RestrictContext(c, kept)
        PROVE  Stays
    BY <2>1, <2>5 DEF RestrictContext
  <2>6. ASSUME NEW c \in Contexts, NEW d \in Contexts, Clone(c, d) \/ Drop(c)
        PROVE  Stays
    BY <2>6 DEF Clone, Drop
  <2> HIDE DEF Stays
  <2>7. ASSUME NEW c \in Contexts, NEW p \in Conditions, Replace(c, p) \/ Forget(c, p)
        PROVE  Stays
    BY <2>2, <2>7 DEF Replace, Forget
  <2> QED BY <2>3, <2>4, <2>5, <2>6, <2>7 DEF ContextsNext
<1>2. ContextsSpec => []ContextsInv
  BY ContextsStart, ContextsStep, PTL DEF ContextsSpec
<1> QED BY <1>1, <1>2, PTL DEF ContextsSpec, BuiltGraphsStay
=============================================================================
