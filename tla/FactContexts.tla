---------------------------- MODULE FactContexts ----------------------------
(***************************************************************************)
(* The fact contexts of proof branches and the cells that hold their       *)
(* difference graphs (ContextDifferenceGraph of                            *)
(* src/kernel/difference_graph.rs, driven by src/kernel/assumptions.rs).   *)
(* A context owns its facts; a clone shares the cell, an                   *)
(* Arc<OnceLock<DifferenceGraph>>, with the context it was cloned from.    *)
(* A graph is here the facts it was built from: DifferenceGraph is about   *)
(* what it answers.                                                        *)
(***************************************************************************)
EXTENDS FiniteSets

CONSTANTS
    Contexts,       \* the contexts a proof may hold at one time
    Cells,          \* the memory of the shared cells
    Conditions,
    Expressible     \* the conditions difference logic expresses

ASSUME ConditionsAssumption == Expressible \subseteq Conditions /\ Conditions # {}

VARIABLES
    live,           \* the contexts that exist
    facts,          \* the condition facts of each
    cell,           \* the cell each refers to
    graph,          \* the content of each cell
    forgot          \* history: contexts that withdrew a fact, or come from one

contextVars == <<live, facts, cell, graph, forgot>>

Truths == {"true", "false"}
Opposite(truth) == IF truth = "true" THEN "false" ELSE "true"
Facts == [Conditions -> Truths \cup {"none"}]
NoFacts == [p \in Conditions |-> "none"]
With(f, p, truth) == [f EXCEPT ![p] = truth]
Cleared == [p \in Conditions |-> "cleared"]

(* The part of the facts that the graph reads: expresses.                   *)
Expressed(f) == [p \in Conditions |-> IF p \in Expressible THEN f[p] ELSE "none"]

(* A cell nothing refers to: a new allocation.                              *)
IsNew(k) == k \in Cells /\ \A c \in live : cell[c] # k

ContextsInit ==
    /\ \E c \in Contexts : live = {c}
    /\ facts = [c \in Contexts |-> NoFacts]
    /\ cell \in [Contexts -> Cells]
    /\ graph = [k \in Cells |-> NoFacts]
    /\ forgot = {}

(***************************************************************************)
(* ContextDifferenceGraph::assume, withdraw and reset, for a context.      *)
(***************************************************************************)
Point(c, k, content) ==
    /\ IsNew(k)
    /\ cell' = [cell EXCEPT ![c] = k]
    /\ graph' = [graph EXCEPT ![k] = content]
Keep == UNCHANGED <<cell, graph>>

(* An extended copy takes a cell of its own; a cleared one is left alone.   *)
\* Mistake: the shared graph is extended in place.
GraphAssumeInPlace(c, p, truth) ==
    IF p \notin Expressible \/ graph[cell[c]] = Cleared THEN Keep
    ELSE graph' = [graph EXCEPT ![cell[c]] = With(@, p, truth)] /\ UNCHANGED cell
GraphAssume(c, p, truth) ==
    IF p \notin Expressible \/ graph[cell[c]] = Cleared THEN Keep
    ELSE \E k \in Cells : Point(c, k, With(graph[cell[c]], p, truth))

GraphWithdraw(c, p) ==
    IF p \notin Expressible THEN Keep /\ UNCHANGED forgot
    ELSE (\E k \in Cells : Point(c, k, Cleared)) /\ forgot' = forgot \cup {c}

(***************************************************************************)
(* The operations of a context.                                            *)
(***************************************************************************)
(* assume_condition_once, for a condition without a fact.                   *)
Assume(c, p, truth) ==
    /\ c \in live /\ facts[c][p] = "none"
    /\ facts' = [facts EXCEPT ![c] = With(@, p, truth)]
    /\ GraphAssume(c, p, truth)
    /\ UNCHANGED <<live, forgot>>

(* And with the other truth: the old fact is withdrawn, which clears the    *)
(* graph, so that the new one is not inserted.                              *)
Replace(c, p) ==
    /\ c \in live /\ facts[c][p] # "none"
    /\ facts' = [facts EXCEPT ![c] = With(@, p, Opposite(facts[c][p]))]
    /\ GraphWithdraw(c, p)
    /\ UNCHANGED live

(* forget_condition_fact.                                                   *)
Forget(c, p) ==
    /\ c \in live /\ facts[c][p] # "none"
    /\ facts' = [facts EXCEPT ![c] = With(@, p, "none")]
    /\ GraphWithdraw(c, p)
    /\ UNCHANGED live

(* A restricted context: its facts are replaced by some of them, and the    *)
(* graph starts again from no facts and takes each.                         *)
Selected(f, kept) == [p \in Conditions |-> IF p \in kept THEN f[p] ELSE "none"]
\* Mistake: the graph is not reset.
RestrictInherited(c, kept) ==
    /\ c \in live
    /\ facts' = [facts EXCEPT ![c] = Selected(@, kept)]
    /\ Keep
    /\ forgot' = forgot \ {c}
    /\ UNCHANGED live
RestrictContext(c, kept) ==
    /\ c \in live
    /\ facts' = [facts EXCEPT ![c] = Selected(@, kept)]
    /\ \E k \in Cells : Point(c, k, Expressed(Selected(facts[c], kept)))
    /\ forgot' = forgot \ {c}
    /\ UNCHANGED live

(* difference_graph.graph(..): get_or_init from the facts of the asker.     *)
Ask(c) ==
    /\ c \in live /\ graph[cell[c]] = Cleared
    /\ graph' = [graph EXCEPT ![cell[c]] = Expressed(facts[c])]
    /\ UNCHANGED <<live, facts, cell, forgot>>

(* PureFactContext::clone, and its drop.                                    *)
Clone(c, d) ==
    /\ c \in live /\ d \in Contexts \ live
    /\ live' = live \cup {d}
    /\ facts' = [facts EXCEPT ![d] = facts[c]]
    /\ cell' = [cell EXCEPT ![d] = cell[c]]
    /\ forgot' = IF c \in forgot THEN forgot \cup {d} ELSE forgot \ {d}
    /\ UNCHANGED graph

Drop(c) ==
    /\ c \in live /\ live # {c}
    /\ live' = live \ {c}
    /\ UNCHANGED <<facts, cell, graph, forgot>>

ContextsNext ==
    \E c \in Contexts :
        \/ \E p \in Conditions :
              \/ \E truth \in Truths : Assume(c, p, truth)
              \/ Replace(c, p)
              \/ Forget(c, p)
        \/ \E kept \in SUBSET Conditions : RestrictContext(c, kept)
        \/ Ask(c)
        \/ \E d \in Contexts : Clone(c, d)
        \/ Drop(c)

ContextsSpec == ContextsInit /\ [][ContextsNext]_contextVars

(***************************************************************************)
(* Properties.                                                             *)
(***************************************************************************)
ContextTypes ==
    /\ live \subseteq Contexts
    /\ facts \in [Contexts -> Facts]
    /\ cell \in [Contexts -> Cells]
    /\ graph \in [Cells -> Facts \cup {Cleared}]
    /\ forgot \subseteq Contexts

(* A context in whose history no fact was withdrawn reads the graph of      *)
(* exactly its own facts, whatever the contexts it shares cells with have   *)
(* assumed, withdrawn or asked since: what a branch's clone does to its     *)
(* copy of ContextDifferenceGraph is not seen through the shared Arc.       *)
BranchesReadTheirFacts ==
    \A c \in live \ forgot : graph[cell[c]] = Expressed(facts[c])

(* A graph that some context reads is never changed under it: OnceLock is   *)
(* written once, and assume replaces the cell.                              *)
BuiltGraphsStay ==
    [][\A c \in live \cap live' :
            graph[cell[c]] # Cleared /\ cell'[c] = cell[c] => graph'[cell[c]] = graph[cell[c]]]_contextVars
=============================================================================
