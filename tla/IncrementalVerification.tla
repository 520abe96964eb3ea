---------------------- MODULE IncrementalVerification ----------------------
(***************************************************************************)
(* Incremental verification: the success markers `click verify` keeps in   *)
(* the git metadata (src/bin/click-verify.rs) and the selection of the     *)
(* functions an edit can affect (c0_incremental_selection,                 *)
(* src/surface/verification.rs).                                           *)
(*                                                                         *)
(* Verifiers run while the user edits, commits, checks out and installs    *)
(* another executable, and they may be interrupted anywhere.  proved       *)
(* remembers which proofs an executable really checked, each with all the  *)
(* input it depends on.                                                    *)
(***************************************************************************)
EXTENDS Integers, Sequences, FiniteSets

CONSTANTS
    Sidecar,        \* sidecar files of the repository
    PathHash,       \* Sidecar -> the name of its marker in a commit's directory
    Fn,             \* C functions
    IncludesHeader, \* functions of sources that import the local header
    CallsIn,        \* C body -> functions it calls
    File,           \* versions of a sidecar with its C sources
    Exe,            \* verifier executables
    AllowSorry,     \* whether runs may, or may not, be given --allow-sorry
    Switches,       \* settings of the CLICK_* variables
    Verifier,       \* processes
    ExeByPath,      \* the executable is fingerprinted through its path
    MaxCommits, MaxRuns,    \* bounds
    Absent          \* Option::None, and a function that is not there

\* A call of a function without a block is refused.  The inline helpers of a
\* header, which may go without, count as part of the header.
WellFormed(x) ==
    /\ DOMAIN x = {"shared", "target", "tactics", "block", "body", "header"}
    /\ DOMAIN x.block = Fn /\ DOMAIN x.body = Fn
    /\ \A f \in Fn : x.body[f] # Absent =>
          CallsIn[x.body[f]] \subseteq {g \in Fn : x.block[g] # Absent}

ASSUME IncrementalAssumption ==
    /\ PathHash \in [Sidecar -> Sidecar]
    /\ IncludesHeader \subseteq Fn
    /\ ExeByPath \in BOOLEAN
    /\ AllowSorry \subseteq BOOLEAN
    /\ \A x \in File : WellFormed(x)

VARIABLES
    work,       \* working tree: Sidecar -> File
    commits,    \* sequence of trees
    head,       \* HEAD
    markers,    \* <<commit, name>> -> marker contents
    installed,  \* the executable at the path of the verifier
    run,        \* Verifier -> the run it is in
    runs,       \* runs started
    proved,     \* what was checked, by what
    verdict     \* Verifier -> what its last successful run reported on

incrementalVars == <<work, commits, head, markers, installed, run, runs, proved, verdict>>

----------------------------------------------------------------------------
(* What a proof depends on                                                 *)

Functions(x) == {f \in Fn : x.block[f] # Absent}

Calls(x, f) == IF x.body[f] = Absent THEN {} ELSE CallsIn[x.body[f]]

\* The functions reached from start: the least set that next does not leave.
Closure(start, next) ==
    {f \in Fn : \A C \in SUBSET Fn :
        start \subseteq C /\ (\A g \in C : next[g] \subseteq C) => f \in C}

\* The proof of f: its contract and body, the contracts of what it calls,
\* and for termination the bodies of all that f can reach.
View(x, f) ==
    LET reached == Closure({f}, [g \in Fn |-> Calls(x, g)])
    IN [fn |-> f, shared |-> x.shared, target |-> x.target,
        tactics |-> x.tactics,
        parts |-> [g \in reached |->
            <<x.block[g], x.body[g],
              IF g \in IncludesHeader /\ x.body[g] # Absent THEN x.header ELSE Absent>>]]

Proofs(exe, env, x, fns) == {<<exe, env, View(x, f)>> : f \in fns}

----------------------------------------------------------------------------
(* c0_incremental_selection                                                *)

SharedEnvironmentChanged(x, base) == x.shared # base.shared

\* Mistake: compares the Click side only.
ChangedBlocks(x, base) == {f \in Fn : x.block[f] # base.block[f]}

Changed(x, base) ==
    {f \in Functions(x) \cup Functions(base) :
        x.block[f] # base.block[f] \/ x.body[f] # base.body[f]}
        \cup IF x.header = base.header THEN {}
             ELSE {f \in IncludesHeader : x.body[f] # Absent}

Callers(x, base, g) == {f \in Fn : g \in Calls(x, f) \cup Calls(base, f)}

Affected(x, base) ==
    Closure(Changed(x, base), [g \in Fn |-> Callers(x, base, g)]) \cap Functions(x)

Selection(x, base) ==
    IF SharedEnvironmentChanged(x, base)
    THEN [full |-> TRUE, selected |-> Functions(x)]
    ELSE [full |-> FALSE, selected |-> Affected(x, base)]

----------------------------------------------------------------------------
(* Markers                                                                 *)

Slot(c, s) == <<c, PathHash[s]>>

MarkerContents(c, s, print, env, target) ==
    [commit |-> c, sidecar |-> s, verifier |-> print, env |-> env,
     target |-> target]

ValidMarker(contents, c, s, print, env, target) ==
    contents = MarkerContents(c, s, print, env, target)

HasFullVerificationMarker(c, s, print, env, target) ==
    /\ Slot(c, s) \in DOMAIN markers
    /\ ValidMarker(markers[Slot(c, s)], c, s, print, env, target)

WithMarker(c, s, contents) ==
    [k \in DOMAIN markers \cup {Slot(c, s)} |->
        IF k = Slot(c, s) THEN contents ELSE markers[k]]

\* Mistake: attests what is in the working tree now.
MatchesWorkingTree(c, s, snap) == commits[c][s] = work[s]

BaselineMatchesVerified(c, s, snap) == commits[c][s] = snap

\* OnceLock: the first reading is kept; Absent if it fails, as it does when
\* the running executable is no longer the installed file.
Fingerprint(r) ==
    IF r.print # Absent THEN r.print
    ELSE IF ExeByPath \/ installed = r.exe THEN installed
    ELSE Absent

----------------------------------------------------------------------------
(* A verifier                                                              *)

Idle == [pc |-> "idle"]

Goto(v, r) == run' = [run EXCEPT ![v] = r]

\* base is Absent in a run without --changed-since, where sorry may be allowed.
Start(v, s, base, env, sorry) ==
    /\ run[v] = Idle
    /\ runs < MaxRuns
    /\ sorry => base = Absent
    /\ runs' = runs + 1
    /\ Goto(v, [pc |-> "load", exe |-> installed, print |-> Absent, env |-> env,
                sidecar |-> s, base |-> base, sorry |-> sorry,
                snap |-> work[s], full |-> base = Absent, selected |-> {},
                todo |-> <<>>])
    /\ verdict' = [verdict EXCEPT ![v] = Absent]
    /\ UNCHANGED <<work, commits, head, markers, installed, proved>>

\* The sidecar was read when the run started; its C sources are read now.
Load(v) ==
    /\ run[v].pc = "load"
    /\ LET now == work[run[v].sidecar]
           snap == [run[v].snap EXCEPT !.body = now.body, !.header = now.header]
       IN Goto(v, [run[v] EXCEPT !.snap = snap, !.selected = Functions(snap),
                !.pc = IF run[v].base = Absent THEN "verify" ELSE "select"])
    /\ UNCHANGED <<work, commits, head, markers, installed, runs, proved,
                   verdict>>

Report(v) ==
    verdict' = [verdict EXCEPT ![v] =
        [exe |-> run[v].exe, env |-> run[v].env, snap |-> run[v].snap]]

\* Reuse needs a marker that attests the baseline.
SelectionOf(r, print) ==
    IF HasFullVerificationMarker(r.base, r.sidecar, print, r.env, r.snap.target)
    THEN Selection(r.snap, commits[r.base][r.sidecar])
    ELSE [full |-> TRUE, selected |-> Functions(r.snap)]

\* verify_changed_sidecar up to the verification
Select(v) ==
    /\ run[v].pc = "select"
    /\ LET r == run[v]
           print == Fingerprint(r)
           selection == SelectionOf(r, print)
       IN \/ print = Absent /\ Goto(v, Idle) /\ UNCHANGED verdict
          \/ /\ print # Absent
             /\ ~selection.full /\ selection.selected = {}
             /\ Goto(v, Idle) /\ Report(v)
          \/ /\ print # Absent
             /\ selection.full \/ selection.selected # {}
             /\ Goto(v, [r EXCEPT !.pc = "verify", !.print = print,
                    !.full = selection.full, !.selected = selection.selected])
             /\ UNCHANGED verdict
    /\ UNCHANGED <<work, commits, head, markers, installed, runs, proved>>

\* A marker needs a full run without admissions.
Attestable(r, admitted) == r.full /\ admitted = {}

\* The selected proofs check, except for those admitted with sorry.
Verify(v, admitted) ==
    /\ run[v].pc = "verify"
    /\ admitted \subseteq run[v].selected
    /\ admitted # {} => run[v].sorry
    /\ LET r == run[v]
       IN /\ proved' = proved \cup
                Proofs(r.exe, r.env, r.snap, r.selected \ admitted)
          /\ Goto(v, IF Attestable(r, admitted) THEN [r EXCEPT !.pc = "record"]
                                                ELSE Idle)
          /\ IF admitted = {} THEN Report(v) ELSE UNCHANGED verdict
    /\ UNCHANGED <<work, commits, head, markers, installed, runs>>

\* A proof fails, or the run is interrupted.
Abort(v) ==
    /\ run[v] # Idle
    /\ Goto(v, Idle)
    /\ UNCHANGED <<work, commits, head, markers, installed, runs, proved,
                   verdict>>

\* record_full_verification: the commits to attest
Record(v) ==
    /\ run[v].pc = "record"
    /\ Goto(v, [run[v] EXCEPT !.pc = "attest", !.todo =
            <<head>> \o IF run[v].base = Absent THEN <<>> ELSE <<run[v].base>>])
    /\ UNCHANGED <<work, commits, head, markers, installed, runs, proved,
                   verdict>>

\* One of them.  The marker appears by a rename.
Attest(v) ==
    /\ run[v].pc = "attest"
    /\ LET r == run[v]
           c == Head(r.todo)
           matches == BaselineMatchesVerified(c, r.sidecar, r.snap)
           print == IF matches THEN Fingerprint(r) ELSE r.print
       IN /\ markers' = IF matches /\ print # Absent
                        THEN WithMarker(c, r.sidecar, MarkerContents(c,
                                r.sidecar, print, r.env, r.snap.target))
                        ELSE markers
          /\ Goto(v, IF Len(r.todo) = 1 \/ (matches /\ print = Absent) THEN Idle
                     ELSE [r EXCEPT !.print = print, !.todo = Tail(@)])
    /\ UNCHANGED <<work, commits, head, installed, runs, proved, verdict>>

----------------------------------------------------------------------------
(* The user                                                                *)

Edit(s, x) ==
    /\ work[s] # x
    /\ work' = [work EXCEPT ![s] = x]
    /\ UNCHANGED <<commits, head, markers, installed, run, runs, proved,
                   verdict>>

Commit ==
    /\ Len(commits) < MaxCommits
    /\ commits' = Append(commits, work)
    /\ head' = Len(commits')
    /\ UNCHANGED <<work, markers, installed, run, runs, proved, verdict>>

Checkout(c) ==
    /\ head' = c
    /\ work' = commits[c]
    /\ UNCHANGED <<commits, markers, installed, run, runs, proved, verdict>>

Install(e) ==
    /\ installed' = e
    /\ UNCHANGED <<work, commits, head, markers, run, runs, proved, verdict>>

----------------------------------------------------------------------------
IncrementalInit ==
    /\ work \in [Sidecar -> File]
    /\ commits = <<work>>
    /\ head = 1
    /\ markers = [k \in {} |-> Absent]
    /\ installed \in Exe
    /\ run = [v \in Verifier |-> Idle]
    /\ runs = 0
    /\ proved = {}
    /\ verdict = [v \in Verifier |-> Absent]

Commits == DOMAIN commits

IncrementalNext ==
    \/ \E v \in Verifier, s \in Sidecar, base \in Commits \cup {Absent},
          env \in Switches, sorry \in AllowSorry : Start(v, s, base, env, sorry)
    \/ \E v \in Verifier :
        \/ Load(v) \/ Select(v) \/ Abort(v) \/ Record(v) \/ Attest(v)
        \/ \E admitted \in SUBSET Fn : Verify(v, admitted)
    \/ \E s \in Sidecar, x \in File : Edit(s, x)
    \/ Commit
    \/ \E c \in Commits : Checkout(c)
    \/ \E e \in Exe : Install(e)

IncrementalSpec == IncrementalInit /\ [][IncrementalNext]_incrementalVars

----------------------------------------------------------------------------
(* Properties                                                              *)

\* A marker attests: the executable it names, with those switches, checked
\* every proof of the sidecar of that commit (record_full_verification).
MarkersAttestProofs ==
    \A k \in DOMAIN markers :
        LET m == markers[k]
            x == commits[m.commit][m.sidecar]
        IN Proofs(m.verifier, m.env, x, Functions(x)) \subseteq proved

\* A run that reports success, with some or all of the proofs reused, speaks
\* for input whose every proof that executable has checked: every declaration
\* a proof can depend on is compared (verification.rs:1498).
VerdictsAreProved ==
    \A v \in Verifier : verdict[v] # Absent =>
        Proofs(verdict[v].exe, verdict[v].env, verdict[v].snap,
               Functions(verdict[v].snap)) \subseteq proved

UpToTactics(view) == <<view.fn, view.shared, view.target, view.parts>>

\* The proof of f was checked, with at most other tactics than x has.
Checked(exe, env, x, f, P) ==
    \E p \in P :
        /\ p[1] = exe /\ p[2] = env
        /\ UpToTactics(p[3]) = UpToTactics(View(x, f))

\* The same of all that the selection does compare (SharedEnvironmentChanged,
\* Changed), and of the target, which the marker compares: a success speaks
\* for proofs that read, tactics apart, what was checked.
VerdictsAreProvedUpToTactics ==
    \A v \in Verifier : verdict[v] # Absent =>
        \A f \in Functions(verdict[v].snap) :
            Checked(verdict[v].exe, verdict[v].env, verdict[v].snap, f, proved)
=============================================================================
